------------------------------ MODULE Station -------------------------------
(***************************************************************************)
(* A DS that connects to an access point (a router, or a DS that acts as   *)
(* host): the state machine that the ARM9 exposes as Wifi_AssocStatus(),   *)
(* the mode of the ARM7 that Wifi_NTR_Update() moves towards the requested *)
(* one, and the authentication and association frames in between.          *)
(*                                                                         *)
(* The ARM9 and the ARM7 only share reqMode, reqLibraryMode, the selected  *)
(* AP and curMode, with no lock: the ARM7 samples the requests once per    *)
(* Update.  The WiFi interrupt of the ARM7 handles the received frames and *)
(* may happen between any two steps of Wifi_NTR_Update(), which also       *)
(* handles them at its end.                                                *)
(***************************************************************************)
EXTENDS Integers, Sequences

CONSTANTS AP,          \* access points, identified by their BSSID
          NoAP,        \* a BSSID full of zeroes
          WFC,         \* access points with saved WFC settings
          SharedKey,   \* access points that want a WEP key
          Libraries,   \* library modes that the application uses
          MaxRetry,    \* WIFI_MAX_ASSOC_RETRY
          MaxCalls,    \* bound: calls of the application
          MaxAid,      \* bound: AIDs that an access point gives
          MaxRx,       \* bound: received frames not yet handled; others wait
          Paced        \* the application waits for an Update after a request

ASSUME StationAssumption == /\ NoAP \notin AP
                            /\ WFC \subseteq AP
                            /\ SharedKey \subseteq AP
                            /\ Libraries \subseteq {"INTERNET", "CLIENT", "HOST"}
                            /\ MaxRetry \in Nat
                            /\ MaxCalls \in Nat
                            /\ MaxAid \in Nat \ {0}
                            /\ MaxRx \in 1 .. 7   \* what Wifi_RxQueueFlush() handles in one go
                            /\ Paced \in BOOLEAN

VARIABLES
    \* ARM9
    connect,       \* wifi_connect_state
    point,         \* wifi_connect_point
    loadWfc,       \* WFLAG_REQ_LOAD_WFC_KEY in reqFlags
    reqMode, reqLibrary,
    curAp,         \* the AP that the ARM7 is asked to connect to
    \* ARM7
    curMode, curLibrary,
    filter,        \* Wifi_FilterMode, STATION for the two of Internet and client
    pc,            \* next step of Wifi_NTR_Update()
    authlevel, authctr, realRates,
    bssid,         \* W_BSSID
    aid,           \* W_AID_FULL
    aplist,        \* access points in the list of found ones
    tx,            \* frame being sent and frame in the queue of the ARM7
    rx,            \* frames in the RX buffer of the MAC
    \* Access points
    peer,          \* what each one believes of this console
    \* What happened, for the properties
    calls,         \* how many calls the application has made
    seen,          \* an Update has sampled the last request
    fresh,         \* the ARM7 has acted on the last selected AP
    missed         \* access points that gave an AID in a frame that was lost

arm9     == <<connect, point, loadWfc, reqMode, reqLibrary, curAp>>
level    == <<authlevel, authctr, realRates>>
mode     == <<curMode, curLibrary, filter>>
radio    == <<bssid, aid>>
aps      == <<peer, missed>>
vars == <<arm9, mode, pc, level, radio, aplist, tx, rx, aps, calls, seen, fresh>>

AID      == 1 .. MaxAid
Modes    == {"DISABLED", "NORMAL", "SCAN", "CONNECTED", "ACCESSPOINT"}
CurModes == Modes \cup {"CONNECTING", "CANNOTCONNECT"}
Levels   == {"DISCONNECTED", "AUTHENTICATED", "ASSOCIATED", "ERROR"}
Connects == {"ERROR", "SEARCHING", "SEARCHING_WFC", "ASSOCIATING", "DHCPING", "DONE"}

Requests == {"auth", "shared", "challenge", "assoc", "deauth"}
Replies  == {"auth_ok", "auth_no", "auth_full", "shared_2", "shared_no", "shared_ok",
             "assoc_ok", "assoc_no", "deauth_left", "deauth_other"}

Frames   == [type : Requests, ap : AP]
Received == [type : Replies, ap : AP, aid : AID \cup {0}]

TypeOK ==
    /\ connect \in Connects
    /\ point \in AP \cup {NoAP}
    /\ curAp \in AP \cup {NoAP}
    /\ loadWfc \in BOOLEAN
    /\ reqMode \in Modes
    /\ reqLibrary \in {"INTERNET", "CLIENT", "HOST"}
    /\ curMode \in CurModes
    /\ curLibrary \in {"INTERNET", "CLIENT", "HOST"}
    /\ filter \in {"IDLE", "SCAN", "STATION", "HOST"}
    /\ pc \in {"mode", "retry", "send", "flush"}
    /\ authlevel \in Levels
    /\ authctr \in 0 .. MaxRetry + 1
    /\ realRates \in BOOLEAN
    /\ bssid \in AP \cup {NoAP}
    /\ aid \in AID \cup {0}
    /\ aplist \subseteq AP
    /\ tx \in Seq(Frames) /\ Len(tx) <= 2
    /\ rx \in Seq(Received) /\ Len(rx) <= MaxRx
    /\ peer \in [AP -> [state : {"none", "auth", "assoc"}, aid : AID \cup {0}]]
    /\ calls \in 0 .. MaxCalls
    /\ seen \in BOOLEAN
    /\ fresh \in BOOLEAN
    /\ missed \subseteq AP

Stranger == [state |-> "none", aid |-> 0]

(***************************************************************************)
(* After Wifi_InitIPC(): a cleared structure, and the library mode of the  *)
(* flags passed to Wifi_Init().  The ARM7 is stopped.                      *)
(***************************************************************************)
Init ==
    /\ connect = "SEARCHING"
    /\ point = NoAP /\ curAp = NoAP
    /\ loadWfc = FALSE
    /\ reqMode = "DISABLED"
    /\ reqLibrary \in Libraries \cap {"INTERNET", "CLIENT"}
    /\ curMode = "DISABLED" /\ curLibrary = "INTERNET" /\ filter = "IDLE"
    /\ pc = "mode"
    /\ authlevel = "DISCONNECTED" /\ authctr = 0 /\ realRates = FALSE
    /\ bssid = NoAP /\ aid = 0
    /\ aplist = {}
    /\ tx = <<>> /\ rx = <<>>
    /\ peer = [a \in AP |-> Stranger]
    /\ calls = 0 /\ seen = TRUE /\ fresh = TRUE /\ missed = {}

------------------------------------------------------------------------------
(***************************************************************************)
(* ARM9: the calls of the application.  Each of them leaves a request that *)
(* the ARM7 finds later, or replaces one that the ARM7 never saw.          *)
(***************************************************************************)
Waited == Paced => seen

Request(m) == reqMode' = m /\ seen' = FALSE

(* The request of Wifi_ScanMode(), which does nothing in host mode. *)
ScanOr(m) == IF curLibrary = "HOST" THEN m ELSE "SCAN"

Wifi_ScanMode ==
    /\ Waited
    /\ Request(ScanOr(reqMode))
    /\ UNCHANGED <<connect, point, loadWfc, reqLibrary, curAp, fresh>>

(* Wifi_ConnectSecureAP(), and Wifi_ConnectWfcAP() when the key is a saved one. *)
Wifi_ConnectAP(a, wfc) ==
    /\ Waited
    /\ connect' = "SEARCHING" /\ point' = a
    /\ loadWfc' = wfc
    /\ Request(ScanOr("NORMAL"))
    /\ UNCHANGED <<reqLibrary, curAp, fresh>>

Wifi_DisconnectAP ==
    /\ Waited
    /\ connect' = "ERROR"
    /\ Request("NORMAL")
    /\ UNCHANGED <<point, loadWfc, reqLibrary, curAp, fresh>>

Wifi_AutoConnect ==
    /\ Waited
    /\ "INTERNET" \in Libraries
    /\ reqLibrary' = "INTERNET"
    /\ IF WFC = {}
       THEN connect' = "ERROR" /\ Request("NORMAL")
       ELSE connect' = "SEARCHING_WFC" /\ Request(ScanOr("NORMAL"))
    /\ UNCHANGED <<point, loadWfc, curAp, fresh>>

(* Wifi_InternetMode(), Wifi_MultiplayerClientMode() and
   Wifi_MultiplayerHostMode(). *)
LibraryMode(lib) ==
    /\ Waited
    /\ reqLibrary' = lib
    /\ Request(IF lib = "HOST" THEN "ACCESSPOINT" ELSE "NORMAL")
    /\ UNCHANGED <<connect, point, loadWfc, curAp, fresh>>

(* Wifi_IdleMode() or Wifi_EnableWifi(), and Wifi_DisableWifi(). *)
IdleOrDisable(m) ==
    /\ Waited
    /\ Request(m)
    /\ UNCHANGED <<connect, point, loadWfc, reqLibrary, curAp, fresh>>

Application ==
    \/ Wifi_ScanMode
    \/ \E a \in AP, wfc \in BOOLEAN : Wifi_ConnectAP(a, wfc)
    \/ Wifi_DisconnectAP
    \/ Wifi_AutoConnect
    \/ \E lib \in Libraries : LibraryMode(lib)
    \/ \E m \in {"NORMAL", "DISABLED"} : IdleOrDisable(m)

(***************************************************************************)
(* Wifi_AssocStatus(), one action per group of cases of wifi_connect_state.*)
(* What it returns follows from the state that it leaves and from curMode. *)
(***************************************************************************)
Matches(a) == a \in aplist /\ (connect = "SEARCHING" => a = point)
                           /\ (connect = "SEARCHING_WFC" => a \in WFC)

StatusSearching ==
    /\ connect \in {"SEARCHING", "SEARCHING_WFC"}
    /\ \/ /\ \A a \in AP : ~Matches(a)
          /\ UNCHANGED <<connect, curAp, reqMode, seen, fresh>>
       \/ \E a \in AP :
             /\ Matches(a)
             /\ curAp' = a
             /\ connect' = "ASSOCIATING"
             /\ Request("CONNECTED")
             /\ fresh' = FALSE
    /\ UNCHANGED <<point, loadWfc, reqLibrary>>

(* dhcp: lwIP is used, in Internet mode, with an address from DHCP. *)
StatusAssociating ==
    /\ connect = "ASSOCIATING"
    /\ \/ curMode = "CANNOTCONNECT" /\ connect' = "ERROR"
       \/ /\ curMode = "CONNECTED"
          /\ \E dhcp \in {FALSE, curLibrary = "INTERNET"} :
                connect' = IF dhcp THEN "DHCPING" ELSE "DONE"
       \/ curMode \notin {"CANNOTCONNECT", "CONNECTED"} /\ UNCHANGED connect
    /\ UNCHANGED <<point, loadWfc, reqMode, reqLibrary, curAp, seen, fresh>>

(* The address comes from lwIP, which runs on top of the data frames. *)
StatusDhcping ==
    /\ connect = "DHCPING"
    /\ connect' \in {"DHCPING", "DONE"}
    /\ UNCHANGED <<point, loadWfc, reqMode, reqLibrary, curAp, seen, fresh>>

StatusFinal ==          \* ASSOCSTATUS_CANNOTCONNECT and ASSOCSTATUS_ASSOCIATED
    /\ connect \in {"ERROR", "DONE"}
    /\ UNCHANGED <<arm9, seen, fresh>>

Wifi_AssocStatus ==
    /\ Waited
    /\ StatusSearching \/ StatusAssociating \/ StatusDhcping \/ StatusFinal
    /\ UNCHANGED <<calls, mode, pc, level, radio, aplist, tx, rx, aps>>

Arm9 == /\ Application
        /\ calls < MaxCalls /\ calls' = calls + 1
        /\ UNCHANGED <<mode, pc, level, radio, aplist, tx, rx, aps>>

------------------------------------------------------------------------------
(***************************************************************************)
(* Wifi_TxArm7QueueAdd(): one frame in the air and one in the queue; with  *)
(* both places taken the new frame is dropped.  It may be dropped at any   *)
(* time: frames of the ARM9 and null frames take the same places, and the  *)
(* MAC gives up on a frame that nobody acknowledges.                       *)
(***************************************************************************)
MutantNoLimit(type) == tx' = Append(tx, [type |-> type, ap |-> curAp])

Send(type) ==
    \/ Len(tx) < 2 /\ tx' = Append(tx, [type |-> type, ap |-> curAp])
    \/ tx' = tx

(* Wifi_NTR_SetupFilterMode(): whether the MAC lets a frame of "a" in. *)
Hears(a) == \/ filter \in {"SCAN", "HOST"}
            \/ filter = "STATION" /\ bssid = a

------------------------------------------------------------------------------
(***************************************************************************)
(* ARM7: Wifi_NTR_Update(), one action per case of curMode.                *)
(***************************************************************************)
Disagree == curLibrary # reqLibrary

(* An Update ends with Wifi_RxQueueFlush(), which handles what was received. *)
Flush == pc' = IF rx' = <<>> THEN "mode" ELSE "flush"

(* Wifi_NTR_Stop() forgets the frame in the air, not the one in the queue.  *)
Aborted == IF tx = <<>> THEN {tx} ELSE {tx, Tail(tx)}

UpdateDisabled ==       \* Wifi_NTR_Start()
    /\ curMode = "DISABLED" /\ reqMode # "DISABLED"
    /\ curMode' = "NORMAL"
    /\ filter' = "IDLE"
    /\ bssid' = NoAP /\ aid' = 0
    /\ tx' \in Aborted /\ rx' = <<>>
    /\ Flush
    /\ UNCHANGED <<curLibrary, level, aplist, fresh>>

UpdateNormal ==
    /\ curMode = "NORMAL"
    /\ curLibrary' = reqLibrary
    /\ \/ /\ reqMode = "NORMAL"
          /\ bssid' = NoAP
          /\ UNCHANGED <<curMode, aid, aplist>>
       \/ /\ reqMode = "DISABLED"
          /\ curMode' = "DISABLED" /\ bssid' = NoAP
          /\ UNCHANGED <<aid, aplist>>
       \/ /\ reqMode = "ACCESSPOINT"
          /\ curMode' = "ACCESSPOINT"
          /\ bssid' = NoAP              \* our own address: no AP has it
          /\ aid' = 0
          /\ UNCHANGED aplist
       \/ /\ reqMode = "SCAN"
          /\ curMode' = "SCAN"
          /\ bssid' = NoAP
          /\ aplist' = {}
          /\ UNCHANGED aid
    /\ tx' \in IF reqMode = "DISABLED" THEN Aborted ELSE {tx}
    /\ filter' = CASE reqMode = "SCAN" -> "SCAN" [] reqMode = "ACCESSPOINT" -> "HOST"
                   [] OTHER -> filter
    /\ UNCHANGED <<level, rx, fresh>>
    /\ Flush

UpdateConnect ==
    /\ curMode = "NORMAL" /\ reqMode = "CONNECTED"
    /\ curLibrary' = reqLibrary
    /\ fresh' = TRUE
    /\ IF loadWfc /\ curAp \notin WFC
       THEN /\ curMode' = "CANNOTCONNECT"
            /\ bssid' = NoAP
            /\ UNCHANGED <<level, tx, filter>>
       ELSE /\ curMode' = "CONNECTING"
            /\ filter' = IF reqLibrary = "HOST" THEN filter ELSE "STATION"
            /\ bssid' = curAp
            /\ realRates' = TRUE
            /\ authctr' = 0 /\ authlevel' = "DISCONNECTED"  \* Wifi_AssociationStart()
            /\ Send("auth")
    /\ UNCHANGED <<aid, aplist, rx>>
    /\ Flush

(* The request that keeps the ARM7 in scan, connection, error or host mode. *)
Stay == IF curMode \in {"SCAN", "ACCESSPOINT"} THEN curMode ELSE "CONNECTED"

MutantStaysInError    == Disagree \/ (reqMode # Stay /\ curMode # "CANNOTCONNECT")
MutantStaysConnecting == Disagree \/ (reqMode # Stay /\ curMode # "CONNECTING")

Leaves == Disagree \/ reqMode # Stay

UpdateLeave ==
    /\ curMode \notin {"DISABLED", "NORMAL"}
    /\ Leaves
    /\ curMode' = "NORMAL" /\ filter' = "IDLE"
    /\ IF curMode = "CONNECTED" /\ ~Disagree
       THEN Send("deauth") /\ aid' = 0
       ELSE UNCHANGED <<tx, aid>>
    /\ UNCHANGED <<curLibrary, level, bssid, aplist, rx, fresh>>
    /\ Flush

UpdateScan ==           \* Wifi_AccessPointTick() drops the ones not heard of
    /\ curMode = "SCAN" /\ ~Leaves
    /\ aplist' \in {aplist} \cup {aplist \ {a} : a \in AP}
    /\ UNCHANGED <<mode, level, radio, tx, rx, fresh>>
    /\ Flush

UpdateConnecting ==
    /\ curMode = "CONNECTING" /\ ~Leaves
    /\ UNCHANGED <<curLibrary, filter, level, radio, aplist, tx, rx, fresh>>
    /\ \/ /\ authlevel \in {"ASSOCIATED", "ERROR"}
          /\ curMode' = IF authlevel = "ERROR" THEN "CANNOTCONNECT" ELSE "CONNECTED"
          /\ Flush
       \/ /\ authlevel \notin {"ASSOCIATED", "ERROR"}
          /\ pc' = "retry" \/ Flush          \* whether a second has passed
          /\ UNCHANGED curMode

UpdateConnected ==
    /\ curMode = "CONNECTED" /\ ~Leaves
    /\ curMode' = IF authlevel = "ERROR" THEN "CANNOTCONNECT" ELSE "CONNECTED"
    /\ UNCHANGED <<curLibrary, filter, level, radio, aplist, tx, rx, fresh>>
    /\ Flush

UpdateNothing ==
    /\ \/ curMode = "DISABLED" /\ reqMode = "DISABLED"
       \/ curMode \in {"CANNOTCONNECT", "ACCESSPOINT"} /\ ~Leaves
    /\ UNCHANGED <<mode, level, radio, aplist, tx, rx, fresh>>
    /\ Flush

MutantNeverGivesUp ==
    /\ pc = "retry"
    /\ pc' = IF authlevel \in {"ASSOCIATED", "ERROR"} THEN "flush" ELSE "send"
    /\ authlevel' = IF authlevel = "AUTHENTICATED" THEN "DISCONNECTED" ELSE authlevel
    /\ UNCHANGED <<authctr, realRates, tx>>

(* Wifi_AssociationUpdate(), whose counter is only compared with MaxRetry.  *)
AssociationUpdate ==
    /\ pc = "retry"
    /\ authctr' = IF authctr > MaxRetry THEN authctr ELSE authctr + 1
    /\ \/ /\ authctr' > MaxRetry
          /\ authlevel' = "ERROR" /\ pc' = "flush"
          /\ UNCHANGED realRates
       \/ /\ authctr' <= MaxRetry
          /\ authlevel = "AUTHENTICATED"
          /\ authlevel' = "DISCONNECTED" /\ realRates' = TRUE
          /\ pc' = "send"
       \/ /\ authctr' <= MaxRetry
          /\ authlevel # "AUTHENTICATED"
          /\ pc' = IF authlevel = "DISCONNECTED" THEN "send" ELSE "flush"
          /\ UNCHANGED <<authlevel, realRates>>
    /\ UNCHANGED tx

AssociationSend ==
    /\ pc = "send"
    /\ Send("auth")
    /\ pc' = "flush"
    /\ UNCHANGED level

(* Wifi_RxQueueFlush() has handled as many frames as it does in one go.     *)
(* Only what comes in the meantime may be left for later.                   *)
Flushed ==
    /\ pc = "flush"
    /\ filter = "IDLE" => rx = <<>>
    /\ pc' = "mode"
    /\ UNCHANGED <<level, tx>>

Wifi_NTR_Update ==
    /\ \/ /\ pc = "mode"
          /\ seen' = TRUE
          /\ \/ UpdateDisabled \/ UpdateNormal \/ UpdateConnect \/ UpdateLeave
             \/ UpdateScan \/ UpdateConnecting \/ UpdateConnected \/ UpdateNothing
       \/ /\ AssociationUpdate \/ AssociationSend \/ Flushed
          /\ UNCHANGED <<mode, radio, aplist, rx, seen, fresh>>
    /\ UNCHANGED <<arm9, calls, aps>>

------------------------------------------------------------------------------
(***************************************************************************)
(* ARM7: Wifi_ProcessReceivedFrame(), from the interrupt or from the end   *)
(* of Wifi_NTR_Update().  In host mode the authentication and              *)
(* deauthentication frames go to module MPHost; frames of other access     *)
(* points than the selected one are ignored.                               *)
(***************************************************************************)
SetLevel(l) == authlevel' = l /\ UNCHANGED <<authctr, realRates>>

Authenticated ==
    IF authlevel = "DISCONNECTED"
    THEN /\ authlevel' = "AUTHENTICATED" /\ authctr' = 0
         /\ Send("assoc")
         /\ UNCHANGED realRates
    ELSE UNCHANGED <<level, tx>>

ProcessAuthentication(f) ==
    /\ \/ f.type \in {"auth_ok", "shared_ok"} /\ Authenticated
       \/ f.type \in {"auth_full", "shared_no"} /\ SetLevel("ERROR") /\ UNCHANGED tx
       \/ f.type = "auth_no" /\ Send("shared") /\ UNCHANGED level
       \/ f.type = "shared_2" /\ Send("challenge") /\ UNCHANGED level
    /\ UNCHANGED radio

MutantNoAid(f) ==
    /\ f.type \in {"assoc_ok", "assoc_no"}
    /\ SetLevel(CASE f.type = "assoc_no" -> "ERROR"
                  [] authlevel = "AUTHENTICATED" -> "ASSOCIATED"
                  [] OTHER -> authlevel)
    /\ UNCHANGED <<tx, radio>>

ProcessAssocResponse(f) ==
    /\ \/ /\ f.type = "assoc_ok"
          /\ aid' = f.aid
          /\ IF authlevel = "AUTHENTICATED"
             THEN authlevel' = "ASSOCIATED" /\ authctr' = 0 /\ UNCHANGED realRates
             ELSE UNCHANGED level
          /\ UNCHANGED tx
       \/ /\ f.type = "assoc_no" /\ realRates
          /\ realRates' = FALSE /\ authlevel' = "DISCONNECTED"
          /\ Send("auth")
          /\ UNCHANGED <<authctr, aid>>
       \/ /\ f.type = "assoc_no" /\ ~realRates
          /\ SetLevel("ERROR")
          /\ UNCHANGED <<tx, aid>>
    /\ UNCHANGED bssid

ProcessDeauthentication(f) ==
    /\ \/ /\ f.type = "deauth_other"
          /\ SetLevel("DISCONNECTED")
          /\ Send("auth")
          /\ UNCHANGED bssid
       \/ /\ f.type = "deauth_left"
          /\ SetLevel("ERROR")
          /\ bssid' = NoAP
          /\ UNCHANGED tx
    /\ aid' = 0

ForStation(f) == /\ f.ap = curAp
                 /\ curMode = "ACCESSPOINT" => f.type \in {"assoc_ok", "assoc_no"}

Wifi_ProcessReceivedFrame ==
    /\ rx # <<>>
    /\ rx' = Tail(rx)
    /\ LET f == Head(rx) IN
          \/ /\ ForStation(f)
             /\ \/ ProcessAuthentication(f)
                \/ ProcessAssocResponse(f)
                \/ ProcessDeauthentication(f)
          \/ ~ForStation(f) /\ UNCHANGED <<level, radio, tx>>
    /\ UNCHANGED <<arm9, calls, mode, pc, aplist, aps, seen, fresh>>

(* A beacon: Wifi_ProcessBeaconOrProbeResponse(), Wifi_AccessPointAdd(). *)
ReceiveBeacon(a) ==
    /\ filter # "IDLE"
    /\ aplist' = aplist \cup {a}
    /\ UNCHANGED <<arm9, calls, mode, pc, level, radio, tx, rx, aps, seen, fresh>>

------------------------------------------------------------------------------
(***************************************************************************)
(* The access points, as much of 802.11 as the station relies on: one that *)
(* knows the console answers its requests in order, and gives it the same  *)
(* AID until it forgets it.  Any frame may be lost.                        *)
(***************************************************************************)
Reply(a, type, n) ==
    \/ /\ Hears(a) /\ Len(rx) < MaxRx
       /\ rx' = Append(rx, [type |-> type, ap |-> a, aid |-> n])
    \/ rx' = rx                 \* lost on its way, or not let in

Believes(a, s, n) == peer' = [peer EXCEPT ![a] = [state |-> s, aid |-> n]]

StillMissed == missed' = {a \in missed : peer'[a].aid # 0}

Answer(a, type) ==
    \/ /\ type = "auth"
       /\ \/ a \notin SharedKey /\ Believes(a, "auth", peer[a].aid) /\ Reply(a, "auth_ok", 0)
          \/ a \in SharedKey /\ Believes(a, "none", 0) /\ Reply(a, "auth_no", 0)
          \/ Believes(a, "none", 0) /\ Reply(a, "auth_full", 0)
    \/ /\ type = "shared"
       /\ UNCHANGED peer
       /\ Reply(a, IF a \in SharedKey THEN "shared_2" ELSE "shared_no", 0)
    \/ /\ type = "challenge"
       /\ \/ Believes(a, "auth", peer[a].aid) /\ Reply(a, "shared_ok", 0)
          \/ UNCHANGED peer /\ Reply(a, "shared_no", 0)
    \/ /\ type = "assoc"
       /\ Believes(a, "none", 0) /\ Reply(a, "assoc_no", 0)
    \/ /\ type = "deauth"
       /\ Believes(a, "none", 0) /\ UNCHANGED rx

(* The console gets an AID, or is told again which one it has. *)
Associate(a) ==
    /\ peer[a].state # "none"
    /\ \E n \in IF peer[a].aid = 0 THEN AID ELSE {peer[a].aid} :
          /\ Believes(a, "assoc", n) /\ Reply(a, "assoc_ok", n)
          /\ missed' = IF rx' # rx THEN missed \ {a}
                       ELSE IF peer[a].aid = n THEN missed ELSE missed \cup {a}

(* A frame leaves the console, and the access point that it is for answers. *)
Deliver ==
    /\ tx # <<>>
    /\ tx' = Tail(tx)
    /\ LET f == Head(tx) IN
          \/ Answer(f.ap, f.type) /\ StillMissed
          \/ f.type = "assoc" /\ Associate(f.ap)
    /\ UNCHANGED <<arm9, calls, mode, pc, level, radio, aplist, seen, fresh>>

(* An access point drops the console, for good or not. *)
Drop(a) ==
    /\ peer[a].state # "none"
    /\ Believes(a, "none", 0)
    /\ \E r \in {"deauth_left", "deauth_other"} : Reply(a, r, 0)
    /\ StillMissed
    /\ UNCHANGED <<arm9, calls, mode, pc, level, radio, aplist, tx, seen, fresh>>

Air == Deliver \/ \E a \in AP : ReceiveBeacon(a) \/ Drop(a)

Next == Arm9 \/ Wifi_AssocStatus \/ Wifi_NTR_Update \/ Wifi_ProcessReceivedFrame \/ Air

Spec == Init /\ [][Next]_vars

(***************************************************************************)
(* Updates keep coming (Wifi_Update() of the ARM9 sends WIFI_SYNC every    *)
(* frame), so the second between retries passes; frames are sent and       *)
(* received frames are handled; the application keeps asking for the       *)
(* status.  Nothing is asked of the access points.                         *)
(***************************************************************************)
Fairness == /\ WF_vars(Wifi_NTR_Update)
            /\ WF_vars(Wifi_NTR_Update /\ pc' = "retry")
            /\ WF_vars(Wifi_ProcessReceivedFrame)
            /\ WF_vars(Deliver)
            /\ WF_vars(Wifi_AssocStatus)

FairSpec == Spec /\ Fairness

------------------------------------------------------------------------------
(***************************************************************************)
(* Properties.                                                             *)
(***************************************************************************)

(* Wifi_AssocStatus() looks at curMode of the ARM7 without knowing which    *)
(* request it answers: when it waits for an attempt, a final mode is the    *)
(* outcome of that attempt and not what an earlier one left behind.         *)
OutcomeIsOfThisAttempt ==
    connect = "ASSOCIATING" /\ curMode \in {"CONNECTED", "CANNOTCONNECT"} => fresh

(* While the ARM7 connects, or is connected, the AP that it sends frames to *)
(* (curAp, which the ARM9 writes) is the one whose frames W_BSSID lets in,  *)
(* unless the AP said goodbye.                                              *)
OneAccessPoint ==
    curMode \in {"CONNECTING", "CONNECTED"} => bssid \in {curAp, NoAP}

(* When the two sides agree that the console is associated, the MAC lets    *)
(* the frames of the AP in (it hasn't said goodbye) and all of them have    *)
(* been handled, the MAC listens to the AID that the AP gave, whatever was  *)
(* lost, asked twice, refused or answered late before and is still to be    *)
(* sent.  The one frame that must have arrived is a response that told the  *)
(* AID that the AP has now.                                                 *)
AidAgrees ==
    /\ curMode = "CONNECTED" /\ authlevel = "ASSOCIATED" /\ bssid = curAp
    /\ peer[curAp].state = "assoc" /\ curAp \notin missed
    /\ rx = <<>>
    => aid = peer[curAp].aid

(* The ARM7 ends in the mode that the application settles for, from any     *)
(* mode and with any frames on their way.                                   *)
ModeConverges ==
    \A m \in {"DISABLED", "NORMAL", "SCAN", "ACCESSPOINT"}, l \in Libraries :
        <>[](reqMode = m /\ reqLibrary = l) => <>[](curMode = m)

(* If the application waits for an AP that has stopped answering, it is     *)
(* told: the retries of Wifi_AssociationUpdate() end.                       *)
SilenceIsReported ==
    <>[](reqMode = "CONNECTED" /\ curLibrary = reqLibrary /\ rx = <<>>)
        => []<>(connect # "ASSOCIATING")

(* The error path of the queue of the ARM7 says that the library recovers   *)
(* from a dropped authentication frame: a station that isn't associated     *)
(* while the ARM7 says that it is connected doesn't stay so.  This doesn't  *)
(* hold: in this mode nothing sends the frame again.                        *)
Recovers ==
    curMode = "CONNECTED" /\ authlevel = "DISCONNECTED"
        ~> curMode # "CONNECTED" \/ authlevel # "DISCONNECTED"

(* The documentation tells applications to call Wifi_AssocStatus() every    *)
(* now and then to see if the connection is lost.  This doesn't hold: once  *)
(* it has said that it is associated it doesn't look at the ARM7 again.     *)
LossIsReported ==
    connect = "DONE" /\ curMode = "CANNOTCONNECT"
        ~> connect # "DONE" \/ curMode # "CANNOTCONNECT"

=============================================================================
