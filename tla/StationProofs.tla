--------------------------- MODULE StationProofs ----------------------------
(***************************************************************************)
(* Type correctness of Station, and that an application that waits for an  *)
(* Update after each request is told the outcome of its own attempt, about *)
(* the AP that it asked for: for every set of access points, number of     *)
(* retries and number of calls, whatever frames are lost.                  *)
(***************************************************************************)
EXTENDS Station, TLAPS

USE StationAssumption

Joining == {"CONNECTING", "CONNECTED", "CANNOTCONNECT"}

(* The ARM7 is only ever asked to connect to an AP that was found. *)
ApKnown == \/ curAp \in AP
           \/ reqMode # "CONNECTED" /\ curMode \notin Joining /\ pc \in {"mode", "flush"}

(* While Wifi_AssocStatus() searches, no attempt is requested; once the     *)
(* ARM7 has seen that none is, none is under way; and none is under way     *)
(* before the ARM7 has taken the AP that was selected last.                 *)
NoAttempt == connect \in {"SEARCHING", "SEARCHING_WFC"} => reqMode # "CONNECTED"
NotAsked  == seen /\ reqMode # "CONNECTED" => curMode \notin Joining
NotBegun  == ~fresh => curMode \notin Joining
Latched   == curMode \in Joining => bssid \in {curAp, NoAP}

Attempt == NoAttempt /\ NotAsked /\ NotBegun /\ Latched
IInv    == TypeOK /\ ApKnown

------------------------------------------------------------------------------
LEMMA InitIInv == Init => IInv /\ Attempt
<1> SUFFICES ASSUME Init PROVE IInv /\ Attempt
  OBVIOUS
<1>1. peer \in [AP -> [state : {"none", "auth", "assoc"}, aid : AID \cup {0}]]
  BY DEF Init, Stranger
<1>2. tx \in Seq(Frames) /\ Len(tx) <= 2 /\ rx \in Seq(Received) /\ Len(rx) <= MaxRx
  BY DEF Init
<1>4. /\ authctr \in 0 .. MaxRetry + 1 /\ calls \in 0 .. MaxCalls /\ aid \in AID \cup {0}
      /\ aplist \subseteq AP /\ missed \subseteq AP
  BY DEF Init
<1>5. /\ loadWfc \in BOOLEAN /\ realRates \in BOOLEAN /\ seen \in BOOLEAN /\ fresh \in BOOLEAN
  BY DEF Init
<1>6. TypeOK
  BY <1>1, <1>2, <1>4, <1>5 DEF Init, TypeOK, Connects, Modes, CurModes, Levels
<1>3. ApKnown /\ Attempt
  BY DEF Init, ApKnown, Attempt, NoAttempt, NotAsked, NotBegun, Latched, Joining
<1> QED
  BY <1>3, <1>6 DEF IInv

(* Wifi_TxArm7QueueAdd() keeps the queue within its two places. *)
LEMMA SendType ==
    ASSUME NEW t \in Requests, curAp \in AP,
           tx \in Seq(Frames), Len(tx) <= 2, Send(t)
    PROVE  tx' \in Seq(Frames) /\ Len(tx') <= 2
<1>1. CASE tx' = tx
  BY <1>1
<1>2. CASE Len(tx) < 2 /\ tx' = Append(tx, [type |-> t, ap |-> curAp])
  BY <1>2 DEF Frames
<1> QED
  BY <1>1, <1>2 DEF Send

(* What an access point sends is a frame, and what fits is kept. *)
LEMMA ReplyType ==
    ASSUME NEW a \in AP, NEW t \in Replies, NEW n \in AID \cup {0},
           rx \in Seq(Received), Len(rx) <= MaxRx, Reply(a, t, n)
    PROVE  rx' \in Seq(Received) /\ Len(rx') <= MaxRx
<1>1. CASE rx' = rx
  BY <1>1
<1>2. CASE Len(rx) < MaxRx /\ rx' = Append(rx, [type |-> t, ap |-> a, aid |-> n])
  BY <1>2 DEF Received, AID
<1> QED
  BY <1>1, <1>2 DEF Reply

LEMMA BelievesType ==
    ASSUME NEW a \in AP, NEW s \in {"none", "auth", "assoc"}, NEW n \in AID \cup {0},
           peer \in [AP -> [state : {"none", "auth", "assoc"}, aid : AID \cup {0}]],
           Believes(a, s, n)
    PROVE  peer' \in [AP -> [state : {"none", "auth", "assoc"}, aid : AID \cup {0}]]
  BY DEF Believes

LEMMA TailType ==
    ASSUME NEW S, NEW q \in Seq(S), q # <<>>
    PROVE  Tail(q) \in Seq(S) /\ Len(Tail(q)) <= Len(q) /\ Head(q) \in S
  OBVIOUS

------------------------------------------------------------------------------
(* One step of each of the actors. *)
LEMMA Arm9Step == IInv /\ Arm9 => IInv'
<1> SUFFICES ASSUME IInv, Arm9 PROVE IInv'
  OBVIOUS
<1> USE DEF Arm9, IInv, Request, ScanOr, mode, level, radio, aps, Connects, Modes
<1>1. calls' \in 0 .. MaxCalls
  BY DEF TypeOK
<1>2. /\ connect' \in Connects /\ point' \in AP \cup {NoAP} /\ loadWfc' \in BOOLEAN
      /\ reqMode' \in Modes /\ reqMode' \in {reqMode} \cup (Modes \ {"CONNECTED"})
      /\ reqLibrary' \in {"INTERNET", "CLIENT", "HOST"}
      /\ curAp' = curAp /\ seen' \in BOOLEAN /\ fresh' \in BOOLEAN
  <2>1. CASE Wifi_ScanMode
    BY <2>1 DEF Wifi_ScanMode, TypeOK
  <2>2. CASE \E a \in AP, wfc \in BOOLEAN : Wifi_ConnectAP(a, wfc)
    BY <2>2 DEF Wifi_ConnectAP, TypeOK
  <2>3. CASE Wifi_DisconnectAP
    BY <2>3 DEF Wifi_DisconnectAP, TypeOK
  <2>4. CASE Wifi_AutoConnect
    BY <2>4 DEF Wifi_AutoConnect, TypeOK
  <2>5. CASE \E lib \in Libraries : LibraryMode(lib)
    BY <2>5 DEF LibraryMode, TypeOK
  <2>6. CASE \E m \in {"NORMAL", "DISABLED"} : IdleOrDisable(m)
    BY <2>6 DEF IdleOrDisable, TypeOK
  <2> QED
    BY <2>1, <2>2, <2>3, <2>4, <2>5, <2>6 DEF Application
<1>3. TypeOK'
  BY <1>1, <1>2 DEF TypeOK
<1>4. ApKnown'
  BY <1>2 DEF ApKnown
<1> QED
  BY <1>3, <1>4

LEMMA StatusStep == IInv /\ Wifi_AssocStatus => IInv'
<1> SUFFICES ASSUME IInv, Wifi_AssocStatus PROVE IInv'
  OBVIOUS
<1> USE DEF IInv, Wifi_AssocStatus, Request, mode, level, radio, aps, arm9
<1>1. CASE StatusSearching
  <2>1. CASE UNCHANGED <<connect, curAp, reqMode, seen, fresh>>
    BY <1>1, <2>1 DEF StatusSearching, TypeOK, ApKnown
  <2>2. ASSUME NEW a \in AP, curAp' = a, connect' = "ASSOCIATING", reqMode' = "CONNECTED",
               seen' \in BOOLEAN, fresh' \in BOOLEAN
        PROVE  IInv'
    BY <1>1, <2>2 DEF StatusSearching, TypeOK, ApKnown, Connects, Modes
  <2> QED
    BY <1>1, <2>1, <2>2 DEF StatusSearching
<1>2. CASE StatusAssociating
  BY <1>2 DEF StatusAssociating, TypeOK, ApKnown, Connects
<1>3. CASE StatusDhcping
  BY <1>3 DEF StatusDhcping, TypeOK, ApKnown, Connects
<1>4. CASE StatusFinal
  BY <1>4 DEF StatusFinal, TypeOK, ApKnown
<1> QED
  BY <1>1, <1>2, <1>3, <1>4

LEMMA UpdateStep == IInv /\ Wifi_NTR_Update => IInv'
<1> SUFFICES ASSUME IInv, Wifi_NTR_Update PROVE IInv'
  OBVIOUS
<1> USE DEF IInv, Wifi_NTR_Update, Flush, mode, level, radio, aps, arm9
<1>a. tx \in Seq(Frames) /\ Len(tx) <= 2
  BY DEF TypeOK
<1>b. "auth" \in Requests /\ "deauth" \in Requests
  BY DEF Requests
<1>c. ASSUME NEW q \in Aborted PROVE q \in Seq(Frames) /\ Len(q) <= 2
  BY <1>a, <1>c, TailType DEF Aborted
<1>1. CASE UpdateDisabled /\ seen' = TRUE
  <2>1. tx' \in Seq(Frames) /\ Len(tx') <= 2 /\ rx' \in Seq(Received) /\ Len(rx') <= MaxRx
    BY <1>1, <1>c DEF UpdateDisabled
  <2>2. aid' \in AID \cup {0} /\ bssid' \in AP \cup {NoAP}
    BY <1>1 DEF UpdateDisabled
  <2> QED
    BY <1>1, <2>1, <2>2 DEF UpdateDisabled, TypeOK, ApKnown, CurModes, Modes, Joining
<1>2. CASE UpdateNormal /\ seen' = TRUE
  <2>1. tx' \in Seq(Frames) /\ Len(tx') <= 2
    BY <1>2, <1>a, <1>c DEF UpdateNormal
  <2>2. aplist' \subseteq AP
    BY <1>2 DEF UpdateNormal, TypeOK
  <2> QED
    BY <1>2, <2>1, <2>2 DEF UpdateNormal, TypeOK, ApKnown, CurModes, Modes, Joining
<1>3. CASE UpdateConnect /\ seen' = TRUE
  <2>1. curAp \in AP
    BY <1>3 DEF UpdateConnect, ApKnown
  <2>2. tx' \in Seq(Frames) /\ Len(tx') <= 2
    BY <1>3, <1>a, <1>b, <2>1, SendType DEF UpdateConnect
  <2>3. /\ authlevel' \in Levels /\ authctr' \in 0 .. MaxRetry + 1 /\ realRates' \in BOOLEAN
    <3>1. CASE loadWfc /\ curAp \notin WFC
      BY <1>3, <3>1 DEF UpdateConnect, TypeOK
    <3>2. CASE ~(loadWfc /\ curAp \notin WFC)
      <4>1. authlevel' \in Levels /\ authctr' \in 0 .. MaxRetry + 1
        BY <1>3, <3>2 DEF UpdateConnect, Levels
      <4>2. realRates' \in BOOLEAN
        BY <1>3, <3>2 DEF UpdateConnect
      <4> QED
        BY <4>1, <4>2
    <3> QED
      BY <3>1, <3>2
  <2>4. /\ curMode' \in CurModes /\ filter' \in {"IDLE", "SCAN", "STATION", "HOST"}
        /\ bssid' \in AP \cup {NoAP}
    BY <1>3, <2>1 DEF UpdateConnect, TypeOK, CurModes
  <2> QED
    BY <1>3, <2>1, <2>2, <2>3, <2>4 DEF UpdateConnect, TypeOK, ApKnown
<1>4. CASE UpdateLeave /\ seen' = TRUE
  <2>1. tx' \in Seq(Frames) /\ Len(tx') <= 2
    BY <1>4, <1>a, <1>b, SendType DEF UpdateLeave, ApKnown, Joining
  <2> QED
    BY <1>4, <2>1 DEF UpdateLeave, TypeOK, ApKnown, CurModes, Modes, Joining
<1>5. CASE UpdateScan /\ seen' = TRUE
  <2>1. aplist' \subseteq AP
    BY <1>5 DEF UpdateScan, TypeOK
  <2> QED
    BY <1>5, <2>1 DEF UpdateScan, TypeOK, ApKnown
<1>6. CASE UpdateConnecting /\ seen' = TRUE
  BY <1>6 DEF UpdateConnecting, TypeOK, ApKnown, CurModes, Modes, Joining
<1>7. CASE UpdateConnected /\ seen' = TRUE
  BY <1>7 DEF UpdateConnected, TypeOK, ApKnown, CurModes, Modes, Joining
<1>8. CASE UpdateNothing /\ seen' = TRUE
  BY <1>8 DEF UpdateNothing, TypeOK, ApKnown
<1>9. CASE AssociationUpdate /\ UNCHANGED <<mode, radio, aplist, rx, seen, fresh>>
  <2>1. authctr' \in 0 .. MaxRetry + 1
    BY <1>9 DEF AssociationUpdate, TypeOK
  <2>2. /\ authlevel' \in Levels /\ realRates' \in BOOLEAN /\ pc' \in {"mode", "retry", "send", "flush"}
    BY <1>9 DEF AssociationUpdate, TypeOK, Levels
  <2>3. curAp \in AP
    BY <1>9 DEF AssociationUpdate, ApKnown
  <2> QED
    BY <1>9, <2>1, <2>2, <2>3 DEF AssociationUpdate, TypeOK, ApKnown
<1>10. CASE AssociationSend /\ UNCHANGED <<mode, radio, aplist, rx, seen, fresh>>
  <2>1. tx' \in Seq(Frames) /\ Len(tx') <= 2
    BY <1>10, <1>a, <1>b, SendType DEF AssociationSend, ApKnown
  <2> QED
    BY <1>10, <2>1 DEF AssociationSend, TypeOK, ApKnown
<1>11. CASE Flushed /\ UNCHANGED <<mode, radio, aplist, rx, seen, fresh>>
  BY <1>11 DEF Flushed, TypeOK, ApKnown
<1> QED
  BY <1>1, <1>2, <1>3, <1>4, <1>5, <1>6, <1>7, <1>8, <1>9, <1>10, <1>11

LEMMA ReceiveStep == IInv /\ Wifi_ProcessReceivedFrame => IInv'
<1> SUFFICES ASSUME IInv, Wifi_ProcessReceivedFrame PROVE IInv'
  OBVIOUS
<1> USE DEF IInv, mode, level, radio, aps, arm9
<1> DEFINE f == Head(rx)
<1>1. f \in Received /\ rx' \in Seq(Received) /\ Len(rx') <= MaxRx
  BY TailType DEF Wifi_ProcessReceivedFrame, TypeOK
<1>2. f.ap \in AP /\ f.aid \in AID \cup {0}
  BY <1>1 DEF Received
<1> HIDE DEF f
<1>3. /\ authlevel' \in Levels /\ authctr' \in 0 .. MaxRetry + 1 /\ realRates' \in BOOLEAN
      /\ bssid' \in AP \cup {NoAP} /\ aid' \in AID \cup {0}
      /\ tx' \in Seq(Frames) /\ Len(tx') <= 2
  <2>a. tx \in Seq(Frames) /\ Len(tx) <= 2 /\ authctr \in 0 .. MaxRetry + 1
    BY DEF TypeOK
  <2>1. CASE ~ForStation(f) /\ UNCHANGED <<level, radio, tx>>
    BY <2>1 DEF TypeOK
  <2>2. ASSUME ForStation(f), ProcessAuthentication(f) PROVE <1>3!:
    <3>1. curAp \in AP
      BY <1>2, <2>2 DEF ForStation
    <3>2. tx' \in Seq(Frames) /\ Len(tx') <= 2
      BY <2>2, <2>a, <3>1, SendType DEF ProcessAuthentication, Authenticated, Requests
    <3> QED
      BY <2>2, <3>2 DEF ProcessAuthentication, Authenticated, SetLevel, TypeOK, Levels
  <2>3. ASSUME ForStation(f), ProcessAssocResponse(f) PROVE <1>3!:
    <3>1. curAp \in AP
      BY <1>2, <2>3 DEF ForStation
    <3>2. tx' \in Seq(Frames) /\ Len(tx') <= 2
      BY <2>3, <2>a, <3>1, SendType DEF ProcessAssocResponse, Requests
    <3>3. CASE f.type = "assoc_ok"
      BY <1>2, <2>3, <3>2, <3>3 DEF ProcessAssocResponse, TypeOK, Levels
    <3>4. CASE f.type = "assoc_no"
      BY <2>3, <3>2, <3>4 DEF ProcessAssocResponse, SetLevel, TypeOK, Levels
    <3> QED
      BY <2>3, <3>3, <3>4 DEF ProcessAssocResponse
  <2>4. ASSUME ForStation(f), ProcessDeauthentication(f) PROVE <1>3!:
    <3>1. curAp \in AP
      BY <1>2, <2>4 DEF ForStation
    <3>2. tx' \in Seq(Frames) /\ Len(tx') <= 2
      BY <2>4, <2>a, <3>1, SendType DEF ProcessDeauthentication, Requests
    <3> QED
      BY <2>4, <3>2 DEF ProcessDeauthentication, SetLevel, TypeOK, Levels
  <2> QED
    BY <2>1, <2>2, <2>3, <2>4 DEF Wifi_ProcessReceivedFrame, f
<1>4. UNCHANGED <<arm9, calls, mode, pc, aplist, aps, seen, fresh>>
  BY DEF Wifi_ProcessReceivedFrame
<1> QED
  BY <1>1, <1>3, <1>4 DEF TypeOK, ApKnown

LEMMA AirStep == IInv /\ Air => IInv'
<1> SUFFICES ASSUME IInv, Air PROVE IInv'
  OBVIOUS
<1> USE DEF IInv, mode, level, radio, aps, arm9
<1> DEFINE Peers == [AP -> [state : {"none", "auth", "assoc"}, aid : AID \cup {0}]]
<1>a. rx \in Seq(Received) /\ Len(rx) <= MaxRx /\ peer \in Peers
  BY DEF TypeOK
<1>1. ASSUME NEW a \in AP, ReceiveBeacon(a) PROVE IInv'
  BY <1>1 DEF ReceiveBeacon, TypeOK, ApKnown
<1>2. ASSUME NEW a \in AP, Drop(a) PROVE IInv'
  <2>1. peer' \in Peers
    BY <1>2, <1>a, BelievesType DEF Drop
  <2>2. rx' \in Seq(Received) /\ Len(rx') <= MaxRx
    BY <1>2, <1>a, ReplyType DEF Drop, Replies
  <2> QED
    BY <1>2, <2>1, <2>2 DEF Drop, StillMissed, TypeOK, ApKnown
<1>3. CASE Deliver
  <2>1. Head(tx) \in Frames /\ tx' \in Seq(Frames) /\ Len(tx') <= 2
    BY <1>3, TailType DEF Deliver, TypeOK
  <2> DEFINE a == Head(tx).ap
             t == Head(tx).type
  <2>2. a \in AP /\ (Answer(a, t) \/ Associate(a))
    BY <1>3, <2>1 DEF Deliver, Frames
  <2>3. peer[a].aid \in AID \cup {0}
    BY <2>2, <1>a
  <2> HIDE DEF a, t, Peers
  <2>4. ASSUME NEW s \in {"none", "auth", "assoc"}, NEW n \in AID \cup {0}, Believes(a, s, n)
        PROVE  peer' \in Peers
    BY <2>2, <2>4, <1>a, BelievesType DEF Peers
  <2>5. ASSUME NEW r \in Replies, NEW n \in AID \cup {0}, Reply(a, r, n)
        PROVE  rx' \in Seq(Received) /\ Len(rx') <= MaxRx
    BY <2>2, <2>5, <1>a, ReplyType
  <2>6. peer' \in Peers /\ rx' \in Seq(Received) /\ Len(rx') <= MaxRx
    <3>1. CASE Answer(a, t) /\ t = "auth"
      BY <2>3, <2>4, <2>5, <3>1 DEF Answer, Replies
    <3>2. CASE Answer(a, t) /\ t = "shared"
      BY <2>5, <3>2, <1>a DEF Answer, Replies
    <3>3. CASE Answer(a, t) /\ t = "challenge"
      BY <2>3, <2>4, <2>5, <3>3, <1>a DEF Answer, Replies
    <3>4. CASE Answer(a, t) /\ t = "assoc"
      BY <2>4, <2>5, <3>4 DEF Answer, Replies
    <3>5. CASE Answer(a, t) /\ t = "deauth"
      BY <2>4, <3>5, <1>a DEF Answer
    <3>6. CASE Associate(a)
      <4>1. ASSUME NEW n \in AID \cup {0}, Believes(a, "assoc", n), Reply(a, "assoc_ok", n)
            PROVE  <2>6!:
        BY <2>4, <2>5, <4>1 DEF Replies
      <4> QED
        BY <2>3, <3>6, <4>1 DEF Associate
    <3> QED
      BY <2>2, <3>1, <3>2, <3>3, <3>4, <3>5, <3>6 DEF Answer
  <2>7. UNCHANGED <<arm9, calls, mode, pc, level, radio, aplist, seen, fresh>>
    BY <1>3 DEF Deliver
  <2>8. missed' \subseteq AP
    BY <1>3, <2>2 DEF Deliver, StillMissed, Associate, TypeOK, a
  <2> QED
    BY <2>1, <2>6, <2>7, <2>8 DEF TypeOK, ApKnown, Peers
<1> QED
  BY <1>1, <1>2, <1>3 DEF Air

(* Every variable of the ARM9, of the ARM7 and of the frames on their way   *)
(* has its type; the queue of the ARM7 never holds more than it has room    *)
(* for, and frames are only addressed to access points that were found.     *)
THEOREM TypeCorrect == Spec => []TypeOK
<1>1. IInv /\ [Next]_vars => IInv'
  <2>1. CASE UNCHANGED vars
    BY <2>1 DEF vars, IInv, TypeOK, ApKnown, mode, level, radio, aps, arm9
  <2> QED
    BY <2>1, Arm9Step, StatusStep, UpdateStep, ReceiveStep, AirStep DEF Next
<1>2. IInv => TypeOK
  BY DEF IInv
<1> QED
  BY <1>1, <1>2, InitIInv, PTL DEF Spec

------------------------------------------------------------------------------
LEMMA AttemptStep == ASSUME Paced PROVE Attempt /\ [Next]_vars => Attempt'
<1> SUFFICES ASSUME Attempt, [Next]_vars PROVE Attempt'
  OBVIOUS
<1> USE DEF Attempt, NoAttempt, NotAsked, NotBegun, Latched, arm9, mode, level, radio, aps
<1>1. CASE UNCHANGED vars
  BY <1>1 DEF vars
<1>2. CASE Arm9
  BY <1>2 DEF Arm9, Application, Wifi_ScanMode, Wifi_ConnectAP, Wifi_DisconnectAP,
              Wifi_AutoConnect, LibraryMode, IdleOrDisable, Request, ScanOr
<1>3. CASE Wifi_AssocStatus
  <2>1. CASE StatusSearching
    BY <1>3, <2>1 DEF Wifi_AssocStatus, Waited, StatusSearching, Request
  <2>2. CASE StatusAssociating \/ StatusDhcping \/ StatusFinal
    BY <1>3, <2>2 DEF Wifi_AssocStatus, StatusAssociating, StatusDhcping, StatusFinal
  <2> QED
    BY <1>3, <2>1, <2>2 DEF Wifi_AssocStatus
<1>4. CASE Wifi_NTR_Update
  <2>1. CASE UpdateDisabled \/ UpdateNormal \/ UpdateConnect
    BY <1>4, <2>1 DEF Wifi_NTR_Update, UpdateDisabled, UpdateNormal, UpdateConnect, Joining
  <2>2. CASE UpdateLeave
    BY <1>4, <2>2 DEF Wifi_NTR_Update, UpdateLeave, Joining
  <2>3. CASE UpdateScan \/ UpdateConnecting \/ UpdateConnected \/ UpdateNothing
    BY <1>4, <2>3 DEF Wifi_NTR_Update, UpdateScan, UpdateConnecting, UpdateConnected,
                      UpdateNothing, Leaves, Stay, Joining
  <2>4. CASE UNCHANGED <<mode, radio, aplist, rx, seen, fresh>>
    BY <1>4, <2>4 DEF Wifi_NTR_Update
  <2> QED
    BY <1>4, <2>1, <2>2, <2>3, <2>4 DEF Wifi_NTR_Update
<1>5. CASE Wifi_ProcessReceivedFrame
  BY <1>5 DEF Wifi_ProcessReceivedFrame, ProcessAuthentication, ProcessAssocResponse,
              ProcessDeauthentication
<1>6. CASE Air
  BY <1>6 DEF Air, Deliver, ReceiveBeacon, Drop
<1> QED
  BY <1>1, <1>2, <1>3, <1>4, <1>5, <1>6 DEF Next

(* An application that waits for an Update after each request never takes   *)
(* the mode that an earlier attempt left in curMode for the outcome of the  *)
(* one that it waits for.                                                   *)
THEOREM OutcomeIsTheAttempts == ASSUME Paced PROVE Spec => []OutcomeIsOfThisAttempt
<1>1. Attempt => OutcomeIsOfThisAttempt
  BY DEF Attempt, NotBegun, OutcomeIsOfThisAttempt, Joining
<1> QED
  BY <1>1, InitIInv, AttemptStep, PTL DEF Spec

(* With the same application, the AP that the ARM7 talks to is the one that *)
(* it listens to, although the ARM9 writes the former at any time.          *)
THEOREM TalksToWhomItHears == ASSUME Paced PROVE Spec => []OneAccessPoint
<1>1. Attempt => OneAccessPoint
  BY DEF Attempt, Latched, OneAccessPoint, Joining
<1> QED
  BY <1>1, InitIInv, AttemptStep, PTL DEF Spec

------------------------------------------------------------------------------
(***************************************************************************)
(* The AID.  Told(q, a, n, m) says that the register, which holds m, will  *)
(* hold n once the frames q have been handled: the last frame of "a" among *)
(* them that writes it gives n, or there is none.                          *)
(***************************************************************************)
Writes == {"assoc_ok", "deauth_left", "deauth_other"}

Silent(q, i, a) == \A j \in i .. Len(q) : ~(q[j].ap = a /\ q[j].type \in Writes)

Told(q, a, n, m) ==
    \/ m = n /\ Silent(q, 1, a)
    \/ \E i \in 1 .. Len(q) : /\ q[i].ap = a /\ q[i].type = "assoc_ok" /\ q[i].aid = n
                              /\ Silent(q, i + 1, a)

Promised(q, a) == \E i \in 1 .. Len(q) : q[i].ap = a /\ q[i].type = "assoc_ok"

Attempting == curMode \in {"CONNECTING", "CONNECTED"}

(* The MAC hears nobody outside of the modes that want it, and what it has  *)
(* received before is handled by the end of the Update that left them.      *)
Deaf == /\ curMode \in {"NORMAL", "DISABLED"} => filter = "IDLE"
        /\ filter = "IDLE" /\ pc # "flush" => rx = <<>>
        /\ Attempting /\ filter # "STATION" => /\ filter = "IDLE" /\ rx = <<>>
                                               /\ authlevel # "ASSOCIATED"

(* From the first association response of an attempt on, the console has    *)
(* the AID that the AP has on record, or is about to have it, unless the    *)
(* response with that AID was lost.                                         *)
Knows == /\ Attempting /\ bssid = curAp
         /\ authlevel = "ASSOCIATED" \/ Promised(rx, curAp)
         /\ peer[curAp].aid # 0 /\ curAp \notin missed
         => Told(rx, curAp, peer[curAp].aid, aid)

Given == \A a \in AP : peer[a].state = "assoc" => peer[a].aid # 0

AidInv == Deaf /\ Knows /\ Given

LEMMA ToldTail ==
    ASSUME NEW q \in Seq(Received), q # <<>>, NEW a, NEW n, NEW m, Told(q, a, n, m)
    PROVE  /\ Head(q).ap = a /\ Head(q).type = "assoc_ok" => Told(Tail(q), a, n, Head(q).aid)
           /\ ~(Head(q).ap = a /\ Head(q).type \in Writes) => Told(Tail(q), a, n, m)
           /\ Head(q).ap = a /\ Head(q).type \in {"deauth_left", "deauth_other"}
                => \A k : Told(Tail(q), a, n, k)
<1> DEFINE t == Tail(q)
           h == Head(q)
<1>1. /\ Len(q) \in Nat \ {0} /\ Len(t) = Len(q) - 1 /\ h = q[1]
      /\ \A i \in 1 .. Len(t) : t[i] = q[i + 1]
  OBVIOUS
<1> HIDE DEF t, h
<1>2. ASSUME NEW i \in 1 .. Len(q), Silent(q, i + 1, a) PROVE Silent(t, i, a)
  BY <1>1, <1>2 DEF Silent
<1>3. ASSUME Silent(q, 1, a) PROVE Silent(t, 1, a) /\ ~(h.ap = a /\ h.type \in Writes)
  BY <1>1, <1>3 DEF Silent
<1>4. ASSUME NEW i \in 2 .. Len(q), q[i].ap = a, q[i].type = "assoc_ok", q[i].aid = n,
             Silent(q, i + 1, a), NEW k
      PROVE  Told(t, a, n, k)
  <2>1. i - 1 \in 1 .. Len(t) /\ t[i - 1] = q[i]
    BY <1>1
  <2>2. Silent(t, (i - 1) + 1, a)
    BY <1>1, <1>2, <1>4
  <2> QED
    BY <1>4, <2>1, <2>2 DEF Told
<1>5. CASE m = n /\ Silent(q, 1, a)
  BY <1>3, <1>5 DEF Told, Writes, t, h
<1>6. ASSUME q[1].ap = a, q[1].type = "assoc_ok", q[1].aid = n, Silent(q, 2, a)
      PROVE  Told(t, a, n, h.aid)
  <2>1. Silent(t, 1, a)
    BY <1>1, <1>2, <1>6
  <2> QED
    BY <1>1, <1>6, <2>1 DEF Told
<1>7. CASE q[1].ap = a /\ q[1].type = "assoc_ok" /\ q[1].aid = n /\ Silent(q, 2, a)
  BY <1>1, <1>6, <1>7 DEF Writes, t, h
<1>8. CASE \E i \in 2 .. Len(q) : /\ q[i].ap = a /\ q[i].type = "assoc_ok" /\ q[i].aid = n
                                  /\ Silent(q, i + 1, a)
  BY <1>4, <1>8 DEF t, h
<1> QED
  <2>1. \A i \in 1 .. Len(q) : i = 1 \/ i \in 2 .. Len(q)
    BY <1>1
  <2> QED
    BY <1>5, <1>7, <1>8, <2>1 DEF Told

LEMMA ToldAppend ==
    ASSUME NEW q \in Seq(Received), NEW f \in Received, NEW a, NEW n, NEW m
    PROVE  /\ f.ap = a /\ f.type = "assoc_ok" /\ f.aid = n => Told(Append(q, f), a, n, m)
           /\ Told(q, a, n, m) /\ ~(f.ap = a /\ f.type \in Writes) => Told(Append(q, f), a, n, m)
<1> DEFINE t == Append(q, f)
<1>1. /\ Len(q) \in Nat /\ Len(t) = Len(q) + 1 /\ t[Len(t)] = f
      /\ \A i \in 1 .. Len(q) : t[i] = q[i]
  OBVIOUS
<1> HIDE DEF t
<1>2. Silent(t, Len(t) + 1, a)
  BY <1>1 DEF Silent
<1>3. ASSUME NEW i \in 1 .. Len(q) + 1, Silent(q, i, a), ~(f.ap = a /\ f.type \in Writes)
      PROVE  Silent(t, i, a)
  BY <1>1, <1>3 DEF Silent
<1>4. ASSUME f.ap = a, f.type = "assoc_ok", f.aid = n PROVE Told(t, a, n, m)
  <2>1. Len(t) \in 1 .. Len(t)
    BY <1>1
  <2> QED
    BY <1>1, <1>2, <1>4, <2>1 DEF Told
<1>5. ASSUME Told(q, a, n, m), ~(f.ap = a /\ f.type \in Writes) PROVE Told(t, a, n, m)
  <2>1. CASE m = n /\ Silent(q, 1, a)
    BY <1>1, <1>3, <1>5, <2>1 DEF Told
  <2>2. ASSUME NEW i \in 1 .. Len(q), q[i].ap = a, q[i].type = "assoc_ok", q[i].aid = n,
               Silent(q, i + 1, a)
        PROVE  Told(t, a, n, m)
    <3>1. Silent(t, i + 1, a)
      BY <1>1, <1>3, <1>5, <2>2
    <3>2. i \in 1 .. Len(t) /\ t[i] = q[i]
      BY <1>1
    <3> QED
      BY <2>2, <3>1, <3>2 DEF Told
  <2> QED
    BY <1>5, <2>1, <2>2 DEF Told
<1> QED
  BY <1>4, <1>5 DEF t

(* Only an association response in the queue is a promise. *)
LEMMA PromisedTail ==
    ASSUME NEW q \in Seq(Received), q # <<>>, NEW a, Promised(Tail(q), a)
    PROVE  Promised(q, a)
<1>1. PICK i \in 1 .. Len(Tail(q)) : Tail(q)[i].ap = a /\ Tail(q)[i].type = "assoc_ok"
  BY DEF Promised
<1>2. i + 1 \in 1 .. Len(q) /\ Tail(q)[i] = q[i + 1]
  OBVIOUS
<1> QED
  BY <1>1, <1>2 DEF Promised

LEMMA PromisedAppend ==
    ASSUME NEW q \in Seq(Received), NEW f \in Received, NEW a,
           Promised(Append(q, f), a), ~(f.ap = a /\ f.type = "assoc_ok")
    PROVE  Promised(q, a)
<1>1. PICK i \in 1 .. Len(q) + 1 : Append(q, f)[i].ap = a /\ Append(q, f)[i].type = "assoc_ok"
  BY DEF Promised
<1>2. i # Len(q) + 1
  BY <1>1
<1>3. i \in 1 .. Len(q) /\ Append(q, f)[i] = q[i]
  BY <1>2
<1> QED
  BY <1>1, <1>3 DEF Promised

LEMMA NoPromise == ASSUME NEW a PROVE ~Promised(<<>>, a)
  BY DEF Promised

LEMMA AidUpdate == IInv /\ AidInv /\ Wifi_NTR_Update => AidInv'
<1> SUFFICES ASSUME IInv, AidInv, Wifi_NTR_Update PROVE AidInv'
  OBVIOUS
<1> USE DEF mode, level, radio, aps, arm9
<1>1. UNCHANGED <<curAp, peer, missed>> /\ Given'
  BY DEF Wifi_NTR_Update, AidInv, Given
<1>2. CASE pc = "mode" /\ UpdateDisabled
  BY <1>1, <1>2 DEF UpdateDisabled, AidInv, Deaf, Knows, Attempting
<1>3. CASE pc = "mode" /\ UpdateNormal
  <2>1. /\ curMode = "NORMAL" /\ filter = "IDLE" /\ rx = <<>> /\ rx' = rx
        /\ curMode' \in {"NORMAL", "DISABLED", "ACCESSPOINT", "SCAN"}
        /\ curMode' \in {"NORMAL", "DISABLED"} => filter' = filter
    BY <1>3 DEF UpdateNormal, AidInv, Deaf
  <2> QED
    BY <1>1, <2>1 DEF AidInv, Deaf, Knows, Attempting
<1>4. CASE pc = "mode" /\ UpdateConnect
  <2>1. filter = "IDLE" /\ rx' = <<>>
    BY <1>4 DEF UpdateConnect, AidInv, Deaf
  <2>2. CASE curMode' = "CANNOTCONNECT"
    BY <1>1, <2>1, <2>2 DEF AidInv, Deaf, Knows, Attempting
  <2>3. CASE /\ curMode' = "CONNECTING" /\ authlevel' = "DISCONNECTED"
             /\ filter' = IF reqLibrary = "HOST" THEN filter ELSE "STATION"
    BY <1>1, <2>1, <2>3, NoPromise DEF AidInv, Deaf, Knows
  <2> QED
    BY <1>4, <2>2, <2>3 DEF UpdateConnect
<1>5. CASE pc = "mode" /\ UpdateLeave
  BY <1>1, <1>5 DEF UpdateLeave, Flush, AidInv, Deaf, Knows, Attempting
<1>6. CASE pc = "mode" /\ (UpdateScan \/ UpdateNothing)
  BY <1>1, <1>6 DEF UpdateScan, UpdateNothing, Flush, AidInv, Deaf, Knows, Attempting
<1>7. CASE pc = "mode" /\ (UpdateConnecting \/ UpdateConnected)
  <2>1. /\ UNCHANGED <<filter, authlevel, bssid, aid, rx>>
        /\ Attempting /\ curMode' \in {"CONNECTING", "CONNECTED", "CANNOTCONNECT"}
    BY <1>7 DEF UpdateConnecting, UpdateConnected, Attempting
  <2> QED
    BY <1>1, <1>7, <2>1 DEF AidInv, Deaf, Knows, Attempting
<1>8. CASE AssociationUpdate \/ AssociationSend \/ Flushed
  <2>1. /\ UNCHANGED <<curMode, filter, bssid, aid, rx>>
        /\ authlevel' = "ASSOCIATED" => authlevel = "ASSOCIATED"
    BY <1>8 DEF Wifi_NTR_Update, AssociationUpdate, AssociationSend, Flushed, UpdateDisabled,
       UpdateNormal, UpdateConnect, UpdateLeave, UpdateScan, UpdateConnecting, UpdateConnected,
       UpdateNothing
  <2>2. filter = "IDLE" => rx = <<>>
    BY <1>8 DEF AssociationUpdate, AssociationSend, Flushed, AidInv, Deaf
  <2> QED
    BY <1>1, <2>1, <2>2 DEF AidInv, Deaf, Knows, Attempting
<1> QED
  BY <1>2, <1>3, <1>4, <1>5, <1>6, <1>7, <1>8 DEF Wifi_NTR_Update

LEMMA AidReceive == IInv /\ AidInv /\ Wifi_ProcessReceivedFrame => AidInv'
<1> SUFFICES ASSUME IInv, AidInv, Wifi_ProcessReceivedFrame PROVE AidInv'
  OBVIOUS
<1> DEFINE f == Head(rx)
<1>1. /\ rx \in Seq(Received) /\ rx # <<>> /\ rx' = Tail(rx) /\ f \in Received
      /\ UNCHANGED <<curAp, curMode, filter, pc, peer, missed>>
  BY TailType DEF Wifi_ProcessReceivedFrame, IInv, TypeOK, arm9, mode, aps
<1>2. Given' /\ Deaf'
  BY <1>1 DEF AidInv, Given, Deaf, Attempting
<1> SUFFICES ASSUME Attempting, bssid' = curAp, peer[curAp].aid # 0, curAp \notin missed,
                    authlevel' = "ASSOCIATED" \/ Promised(rx', curAp)
             PROVE  Told(rx', curAp, peer[curAp].aid, aid')
  BY <1>1, <1>2 DEF AidInv, Knows, Attempting
<1>3. Promised(rx', curAp) => Promised(rx, curAp)
  BY <1>1, PromisedTail
<1> HIDE DEF f
<1>4. CASE ~ForStation(f) /\ UNCHANGED <<level, radio, tx>>
  <2>1. f.ap # curAp
    BY <1>4 DEF ForStation, Attempting
  <2>2. Told(rx, curAp, peer[curAp].aid, aid)
    BY <1>3, <1>4 DEF AidInv, Knows, level, radio
  <2> QED
    BY <1>1, <1>4, <2>1, <2>2, ToldTail DEF radio, f
<1>5. CASE ForStation(f) /\ ProcessAuthentication(f)
  <2>1. /\ UNCHANGED <<bssid, aid>> /\ f.type \notin Writes
        /\ authlevel' = "ASSOCIATED" => authlevel = "ASSOCIATED"
    BY <1>5 DEF ProcessAuthentication, Authenticated, SetLevel, Writes, level, radio
  <2>2. Told(rx, curAp, peer[curAp].aid, aid)
    BY <1>3, <2>1 DEF AidInv, Knows
  <2> QED
    BY <1>1, <2>1, <2>2, ToldTail DEF f
<1>6. CASE ForStation(f) /\ ProcessAssocResponse(f) /\ f.type = "assoc_ok"
  <2>1. bssid' = bssid /\ aid' = f.aid /\ f.ap = curAp
    BY <1>6 DEF ProcessAssocResponse, ForStation
  <2>2. Promised(rx, curAp)
    <3>1. 1 \in 1 .. Len(rx) /\ rx[1] = f
      BY <1>1 DEF f
    <3> QED
      BY <1>6, <2>1, <3>1 DEF Promised
  <2>3. Told(rx, curAp, peer[curAp].aid, aid)
    BY <2>1, <2>2 DEF AidInv, Knows
  <2> QED
    BY <1>1, <1>6, <2>1, <2>3, ToldTail DEF f
<1>7. CASE ForStation(f) /\ ProcessAssocResponse(f) /\ f.type = "assoc_no"
  <2>1. UNCHANGED <<bssid, aid>> /\ f.type \notin Writes /\ authlevel' # "ASSOCIATED"
    BY <1>7 DEF ProcessAssocResponse, SetLevel, Writes
  <2>2. Told(rx, curAp, peer[curAp].aid, aid)
    BY <1>3, <2>1 DEF AidInv, Knows
  <2> QED
    BY <1>1, <2>1, <2>2, ToldTail DEF f
<1>8. CASE ForStation(f) /\ ProcessDeauthentication(f)
  <2>1. f.ap = curAp /\ curAp \in AP
    BY <1>1, <1>8 DEF ForStation, Received
  <2>2. bssid' # NoAP
    BY <2>1
  <2>3. f.type = "deauth_other" /\ bssid' = bssid /\ authlevel' = "DISCONNECTED"
    BY <1>8, <2>2 DEF ProcessDeauthentication, SetLevel
  <2>4. Told(rx, curAp, peer[curAp].aid, aid)
    BY <1>3, <2>3 DEF AidInv, Knows
  <2> QED
    BY <1>1, <2>1, <2>3, <2>4, ToldTail DEF f
<1> QED
  BY <1>4, <1>5, <1>6, <1>7, <1>8 DEF Wifi_ProcessReceivedFrame, ProcessAssocResponse, f

(* What an access point says keeps the console up to date about its AID:    *)
(* the AP forgets the AID, or keeps it and says nothing of it, or gives one.*)
LEMMA Answered ==
    ASSUME NEW a \in AP, NEW t \in Requests, Answer(a, t),
           peer \in [AP -> [state : {"none", "auth", "assoc"}, aid : AID \cup {0}]]
    PROVE  /\ \A b \in AP \ {a} : peer'[b] = peer[b]
           /\ \/ /\ peer'[a].aid = 0 /\ peer'[a].state = "none"
                 /\ rx' = rx \/ \E r \in Replies : Reply(a, r, 0)
              \/ /\ peer'[a].aid = peer[a].aid /\ peer'[a].state \in {"auth", peer[a].state}
                 /\ \E r \in Replies \ Writes : Reply(a, r, 0)
<1>1. peer[a].aid \in AID \cup {0}
  OBVIOUS
<1>2. CASE t = "auth"
  BY <1>1, <1>2 DEF Answer, Believes, Replies, Writes
<1>3. CASE t = "shared"
  BY <1>1, <1>3 DEF Answer, Replies, Writes
<1>4. CASE t = "challenge"
  BY <1>1, <1>4 DEF Answer, Believes, Replies, Writes
<1>5. CASE t = "assoc"
  BY <1>5 DEF Answer, Believes, Replies
<1>6. CASE t = "deauth"
  BY <1>6 DEF Answer, Believes
<1> QED
  BY <1>2, <1>3, <1>4, <1>5, <1>6 DEF Requests

(* A reply is lost, or added to what was received if the MAC lets it in. *)
LEMMA Replied ==
    ASSUME IInv, NEW a \in AP, NEW r \in Replies, NEW n \in AID \cup {0}, Reply(a, r, n)
    PROVE  \/ rx' = rx
           \/ /\ Hears(a) /\ [type |-> r, ap |-> a, aid |-> n] \in Received
              /\ rx' = Append(rx, [type |-> r, ap |-> a, aid |-> n])
  BY DEF Reply, Received

LEMMA AidAir == IInv /\ AidInv /\ Air => AidInv'
<1> SUFFICES ASSUME IInv, AidInv, Air PROVE AidInv'
  OBVIOUS
<1> USE DEF mode, level, radio, aps, arm9
<1> DEFINE Peers == [AP -> [state : {"none", "auth", "assoc"}, aid : AID \cup {0}]]
<1>a. rx \in Seq(Received) /\ peer \in Peers
  BY DEF IInv, TypeOK
<1>b. UNCHANGED <<curAp, curMode, filter, pc, authlevel, bssid, aid>>
  BY DEF Air, Deliver, ReceiveBeacon, Drop
<1> HIDE DEF Peers
<1>c. Attempting => curAp \in AP
  BY DEF IInv, ApKnown, Attempting, Joining
\* Frames of "a" are only added while they are heard.
<1>1. ASSUME NEW a \in AP, NEW r \in Replies, NEW n \in AID \cup {0}, Reply(a, r, n)
      PROVE  Deaf'
  <2>1. CASE rx' = rx
    BY <1>b, <2>1 DEF AidInv, Deaf, Attempting
  <2>2. CASE Hears(a)
    BY <1>b, <2>2 DEF AidInv, Deaf, Attempting, Hears
  <2> QED
    BY <1>1, <2>1, <2>2, Replied
\* A frame that says nothing of the AID of the selected AP.
<1>2. ASSUME NEW a \in AP, NEW r \in Replies, NEW n \in AID \cup {0}, Reply(a, r, n),
             a # curAp \/ r \notin Writes,
             Attempting => peer'[curAp].aid = peer[curAp].aid,
             peer'[curAp].aid # 0 /\ curAp \in missed => curAp \in missed'
      PROVE  Knows'
  <2>1. CASE rx' = rx
    BY <1>2, <1>b, <2>1 DEF AidInv, Knows, Attempting
  <2>2. CASE rx' # rx
    <3> DEFINE f == [type |-> r, ap |-> a, aid |-> n]
    <3>1. f \in Received /\ rx' = Append(rx, f)
      BY <1>2, <2>2, Replied
    <3>2. ~(f.ap = curAp /\ f.type \in Writes) /\ ~(f.ap = curAp /\ f.type = "assoc_ok")
      BY <1>2 DEF Writes
    <3> HIDE DEF f
    <3>3. Promised(rx', curAp) => Promised(rx, curAp)
      BY <1>a, <3>1, <3>2, PromisedAppend
    <3>4. ASSUME Told(rx, curAp, peer[curAp].aid, aid)
          PROVE  Told(rx', curAp, peer[curAp].aid, aid)
      BY <1>a, <3>1, <3>2, <3>4, ToldAppend
    <3> QED
      BY <1>2, <1>b, <3>3, <3>4 DEF AidInv, Knows, Attempting
  <2> QED
    BY <2>1, <2>2
<1>3. ASSUME peer'[curAp].aid = 0 PROVE Knows'
  BY <1>3, <1>b DEF Knows
<1>4. ASSUME NEW a \in AP, ReceiveBeacon(a) PROVE AidInv'
  BY <1>4, <1>b DEF ReceiveBeacon, AidInv, Deaf, Knows, Given, Attempting
<1>5. ASSUME NEW a \in AP, Drop(a) PROVE AidInv'
  <2>1. PICK r \in {"deauth_left", "deauth_other"} : Reply(a, r, 0)
    BY <1>5 DEF Drop
  <2>2. /\ peer' = [peer EXCEPT ![a] = [state |-> "none", aid |-> 0]]
    BY <1>5 DEF Drop, Believes
  <2>3. r \in Replies
    BY <2>1 DEF Replies
  <2>4. Given' /\ (peer'[curAp].aid # 0 /\ curAp \in missed => curAp \in missed')
    BY <1>5, <1>a, <2>2 DEF Drop, StillMissed, AidInv, Given, Peers
  <2>5. CASE a = curAp
    BY <1>1, <1>3, <1>a, <2>1, <2>2, <2>3, <2>4, <2>5 DEF AidInv, Peers
  <2>6. CASE a # curAp
    <3>1. Attempting => peer'[curAp].aid = peer[curAp].aid
      BY <1>a, <1>c, <2>2, <2>6 DEF Peers
    <3> QED
      BY <1>1, <1>2, <2>1, <2>3, <2>4, <2>6, <3>1 DEF AidInv
  <2> QED
    BY <2>5, <2>6
<1>6. CASE Deliver
  <2> DEFINE a == Head(tx).ap
             t == Head(tx).type
  <2>0. Head(tx) \in Frames
    BY <1>6, TailType DEF Deliver, IInv, TypeOK
  <2>1. /\ a \in AP /\ t \in Requests
        /\ (Answer(a, t) /\ StillMissed) \/ Associate(a)
    BY <1>6, <2>0 DEF Deliver, Frames
  <2> HIDE DEF a, t
  <2>2. 0 \notin AID /\ "assoc_ok" \in Replies
    BY DEF AID, Replies
  <2>3. CASE Answer(a, t) /\ StillMissed
    <3>1. /\ \A b \in AP \ {a} : peer'[b] = peer[b]
          /\ \/ /\ peer'[a].aid = 0 /\ peer'[a].state = "none"
                /\ rx' = rx \/ \E r \in Replies : Reply(a, r, 0)
             \/ /\ peer'[a].aid = peer[a].aid /\ peer'[a].state \in {"auth", peer[a].state}
                /\ \E r \in Replies \ Writes : Reply(a, r, 0)
      BY <1>a, <2>1, <2>3, Answered DEF Peers
    <3>2. Given'
      BY <2>1, <3>1 DEF AidInv, Given
    <3>3. Deaf'
      <4>1. CASE rx' = rx
        BY <1>b, <4>1 DEF AidInv, Deaf, Attempting
      <4> QED
        BY <1>1, <2>1, <3>1, <4>1
    <3>4. peer'[curAp].aid # 0 /\ curAp \in missed => curAp \in missed'
      BY <2>3 DEF StillMissed
    <3>5. CASE a # curAp
      <4>1. Attempting => peer'[curAp].aid = peer[curAp].aid
        BY <1>c, <3>1, <3>5
      <4>2. ASSUME rx' = rx PROVE Knows'
        BY <1>b, <3>4, <4>1, <4>2 DEF AidInv, Knows, Attempting
      <4>3. Knows'
        BY <1>2, <2>1, <3>1, <3>4, <3>5, <4>1, <4>2
      <4> QED
        BY <3>2, <3>3, <4>3 DEF AidInv
    <3>6. CASE a = curAp
      <4>1. CASE peer'[a].aid = 0
        BY <1>3, <3>2, <3>3, <3>6, <4>1 DEF AidInv
      <4>2. ASSUME peer'[a].aid = peer[a].aid, NEW r \in Replies \ Writes, Reply(a, r, 0)
            PROVE  Knows'
        BY <1>2, <2>1, <3>4, <3>6, <4>2
      <4> QED
        BY <3>1, <3>2, <3>3, <4>1, <4>2 DEF AidInv
    <3> QED
      BY <3>5, <3>6
  <2>4. CASE Associate(a)
    <3>1. PICK n \in AID : /\ peer' = [peer EXCEPT ![a] = [state |-> "assoc", aid |-> n]]
                           /\ Reply(a, "assoc_ok", n)
                           /\ missed' = IF rx' # rx THEN missed \ {a}
                                        ELSE IF peer[a].aid = n THEN missed ELSE missed \cup {a}
      <4>1. peer[a].aid \in AID \cup {0}
        BY <1>a, <2>1 DEF Peers
      <4> QED
        BY <2>4, <4>1 DEF Associate, Believes
    <3>2. /\ peer'[a].aid = n
          /\ \A b \in AP \ {a} : peer'[b] = peer[b]
      BY <1>a, <2>1, <3>1 DEF Peers
    <3>3. Given' /\ Deaf'
      BY <1>1, <2>1, <2>2, <3>1, <3>2 DEF AidInv, Given
    <3>4. CASE a # curAp
      <4>1. Attempting => peer'[curAp].aid = peer[curAp].aid
        BY <1>c, <3>2, <3>4
      <4>2. curAp \in missed => curAp \in missed'
        BY <3>1, <3>4
      <4>3. Knows'
        BY <1>2, <2>1, <2>2, <3>1, <3>4, <4>1, <4>2
      <4> QED
        BY <3>3, <4>3 DEF AidInv
    <3>5. CASE a = curAp /\ rx' = rx
      \* The AID is an old one that the console knows of, or counts as lost.
      <4>1. curAp \notin missed' => peer[curAp].aid = n /\ curAp \notin missed
        BY <3>1, <3>5
      <4>2. Knows'
        BY <1>b, <2>2, <3>2, <3>5, <4>1 DEF AidInv, Knows, Attempting
      <4> QED
        BY <3>3, <4>2 DEF AidInv
    <3>6. CASE a = curAp /\ rx' # rx
      <4> DEFINE f == [type |-> "assoc_ok", ap |-> a, aid |-> n]
      <4>1. f \in Received /\ rx' = Append(rx, f)
        BY <2>1, <2>2, <3>1, <3>6, Replied
      <4>2. f.ap = curAp /\ f.type = "assoc_ok" /\ f.aid = n
        BY <3>6
      <4> HIDE DEF f
      <4>3. Told(rx', curAp, n, aid)
        BY <1>a, <4>1, <4>2, ToldAppend
      <4>4. Knows'
        BY <1>b, <3>2, <3>6, <4>3 DEF Knows
      <4> QED
        BY <3>3, <4>4 DEF AidInv
    <3> QED
      BY <3>4, <3>5, <3>6
  <2> QED
    BY <2>1, <2>3, <2>4
<1> QED
  BY <1>4, <1>5, <1>6 DEF Air

LEMMA AidStep ==
    ASSUME Paced
    PROVE  IInv /\ Attempt /\ AidInv /\ [Next]_vars => AidInv'
<1> SUFFICES ASSUME IInv, Attempt, AidInv, [Next]_vars PROVE AidInv'
  OBVIOUS
<1> USE DEF arm9, mode, level, radio, aps
<1>1. CASE UNCHANGED vars
  BY <1>1 DEF vars, AidInv, Deaf, Knows, Given, Attempting
<1>2. CASE Arm9
  <2>1. UNCHANGED <<curAp, curMode, filter, pc, authlevel, bssid, aid, rx, peer, missed>>
    BY <1>2 DEF Arm9, Application, Wifi_ScanMode, Wifi_ConnectAP, Wifi_DisconnectAP,
                Wifi_AutoConnect, LibraryMode, IdleOrDisable
  <2> QED
    BY <2>1 DEF AidInv, Deaf, Knows, Given, Attempting
<1>3. CASE Wifi_AssocStatus
  <2>1. UNCHANGED <<curMode, filter, pc, authlevel, bssid, aid, rx, peer, missed>>
    BY <1>3 DEF Wifi_AssocStatus
  <2>2. ~Attempting \/ curAp' = curAp
    <3>1. CASE StatusSearching
      BY <1>3, <3>1 DEF Wifi_AssocStatus, Waited, StatusSearching, Attempt, NoAttempt,
                        NotAsked, Joining, Attempting
    <3>2. CASE StatusAssociating \/ StatusDhcping \/ StatusFinal
      BY <3>2 DEF StatusAssociating, StatusDhcping, StatusFinal
    <3> QED
      BY <1>3, <3>1, <3>2 DEF Wifi_AssocStatus
  <2> QED
    BY <2>1, <2>2 DEF AidInv, Deaf, Knows, Given, Attempting
<1> QED
  BY <1>1, <1>2, <1>3, AidUpdate, AidReceive, AidAir DEF Next

(* If the application waits for an Update after each request, the AID that  *)
(* Wifi_ProcessAssocResponse() writes to W_AID_FULL is the one that the AP  *)
(* has on record, however many frames were lost and attempts, refusals,     *)
(* retries and repeated or late answers there were, as long as the response *)
(* that tells this AID arrived: what was received in an attempt never       *)
(* outlives the Update that left it.                                        *)
THEOREM AidIsTheAccessPoints == ASSUME Paced PROVE Spec => []AidAgrees
<1>1. Init => AidInv
  BY NoPromise DEF Init, AidInv, Deaf, Knows, Given, Attempting, Stranger
<1>2. IInv /\ [Next]_vars => IInv'
  <2>1. CASE UNCHANGED vars
    BY <2>1 DEF vars, IInv, TypeOK, ApKnown, mode, level, radio, aps, arm9
  <2> QED
    BY <2>1, Arm9Step, StatusStep, UpdateStep, ReceiveStep, AirStep DEF Next
<1>3. IInv /\ AidInv => AidAgrees
  <2> SUFFICES ASSUME IInv, AidInv, curMode = "CONNECTED", authlevel = "ASSOCIATED",
                      bssid = curAp, peer[curAp].state = "assoc", curAp \notin missed,
                      rx = <<>>
               PROVE  aid = peer[curAp].aid
    BY DEF AidAgrees
  <2>1. curAp \in AP
    BY DEF IInv, ApKnown, Joining
  <2>2. Told(rx, curAp, peer[curAp].aid, aid)
    BY <2>1 DEF AidInv, Knows, Given, Attempting
  <2> QED
    BY <2>2 DEF Told
<1> QED
  BY <1>1, <1>2, <1>3, InitIInv, AttemptStep, AidStep, PTL DEF Spec

=============================================================================
