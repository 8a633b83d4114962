--------------------------- MODULE TxEngineProofs ---------------------------
(* Proofs about the transmission engine, for any number of frames and any    *)
(* limit of retries, with nothing assumed of when frames are added, sent or  *)
(* answered.                                                                 *)
EXTENDS TxEngine, TLAPS

\* Only one of the contexts has something to do.
Alone == /\ job.update = <<>> \/ job.irq = <<>>
         /\ \A c \in Contexts : job[c] = <<>> => act[c] = "none"

\* CMD_DONE is handled first, and it is pending until then.
DoneFirst == \A c \in Contexts : \A i \in 1 .. Len(job[c]) :
                job[c][i] = "CMD_DONE" => i = 1 /\ "CMD_DONE" \in wif

FromRing == {"arm9", "data", "cmd", "beacon"} \cup Replies

(***************************************************************************)
(* What was decided is still right when it is done: the MAC only ends      *)
(* transfers and the ARM9 only adds frames behind the first one.           *)
(***************************************************************************)
Sound(a) ==
    /\ a \in {"raw", "swap", "arm7", "arm9", "data"} => "LOC3" \notin busy
    /\ a \in {"raw", "enqueue"} \cup FromRing => queue = None
    /\ a \in {"swap", "arm7"} => queue # None
    /\ a = "retry" => limit > 0
    /\ a \in {"raw", "swap", "enqueue"} => n7 < MaxArm7
    /\ a \in {"data", "cmd", "beacon"} => ring # <<>> /\ Head(ring).kind = a
    /\ a \in Replies => ring # <<>> /\ Head(ring).kind = "reply"

Decided == \A c \in Contexts : Sound(act[c])

Origin == /\ queue # None => queue.kind = "arm7"
          /\ \A i \in 1 .. Len(ring) : ring[i].kind # "arm7"
          /\ Len(ring) <= n9

\* The MAC sends a reply that it was given.
Given == replying => reply2 \in Replies

IInv == TypeOK /\ Alone /\ DoneFirst /\ Decided /\ Origin /\ NoneLost /\ Given

-----------------------------------------------------------------------------
(* Sequences *)

LEMMA TailOf ==
    ASSUME NEW S, NEW q \in Seq(S), q # <<>>
    PROVE  /\ Tail(q) \in Seq(S) /\ Head(q) \in S /\ Head(q) = q[1] /\ Len(q) \in Nat \ {0}
           /\ Len(Tail(q)) = Len(q) - 1
           /\ \A i \in 1 .. Len(q) - 1 : Tail(q)[i] = q[i + 1]
  OBVIOUS

LEMMA AppendTo ==
    ASSUME NEW S, NEW q \in Seq(S), NEW f \in S
    PROVE  /\ Append(q, f) \in Seq(S) /\ Len(Append(q, f)) = Len(q) + 1 /\ Len(q) \in Nat
           /\ Append(q, f) # <<>>
           /\ \A i \in 1 .. Len(q) : Append(q, f)[i] = q[i]
           /\ Append(q, f)[Len(q) + 1] = f
           /\ q # <<>> => Head(Append(q, f)) = Head(q)
  OBVIOUS

\* A frame that goes from one place to the next.
LEMMA Moves ==
    ASSUME NEW S, NEW q \in Seq(S)
    PROVE  /\ (q \o <<>>) \o <<>> = q
           /\ \A f \in S : /\ (q \o <<>>) \o <<f>> = Append(q, f)
                           /\ (q \o <<f>>) \o <<>> = Append(q, f)
                           /\ q \o <<f>> = Append(q, f)
                           /\ \A g \in S : (q \o <<f>>) \o <<g>> = Append(Append(q, f), g)
           /\ q \o <<>> = q
  OBVIOUS

-----------------------------------------------------------------------------
(* Types *)

LEMMA RecordedType ==
    ASSUME NEW h \in [Regular -> Seq(Frame)], NEW f \in Frame \cup {None, Torn}
    PROVE  /\ Recorded(h, f) \in [Regular -> Seq(Frame)]
           /\ \A k \in Regular : Recorded(h, f)[k] = IF f.kind = k THEN Append(h[k], f) ELSE h[k]
           /\ f.kind \in Regular => f \in Frame
  <1>1. f.kind \in Regular => f \in Frame  BY DEF None, Torn, Regular
  <1>2. CASE f.kind \in Regular
    <2>1. f \in Frame  BY <1>1, <1>2
    <2>2. Append(h[f.kind], f) \in Seq(Frame)  BY <1>2, <2>1
    <2> QED BY <1>2, <2>1, <2>2 DEF Recorded
  <1>3. CASE f.kind \notin Regular  BY <1>1, <1>3 DEF Recorded
  <1> QED BY <1>2, <1>3

LEMMA FrameTypes ==
    ASSUME TypeOK
    PROVE  /\ n7 < MaxArm7 => Built \in Frame /\ Built.kind = "arm7" /\ Built # None
           /\ ring # <<>> => First \in Frame /\ First = Head(ring)
           /\ First \in Frame \cup {Torn}
           /\ queue \in Frame \/ queue = None
           /\ Pop => ring' \in Seq(Frame) /\ Len(ring') <= Len(ring)
           /\ Backbuffer \in Replies /\ Backbuffer # reply2
  <1> USE TxEngineAssumption
  <1>1. n7 < MaxArm7 => Built \in Frame /\ Built.kind = "arm7" /\ Built # None
    BY DEF TypeOK, Built, Frame, None
  <1>2. ring \in Seq(Frame)  BY DEF TypeOK
  <1>3. ring # <<>> => First \in Frame /\ First = Head(ring)  BY <1>2, TailOf DEF First
  <1>4. Pop => ring' \in Seq(Frame) /\ Len(ring') <= Len(ring)  BY <1>2, TailOf DEF Pop
  <1>5. Backbuffer \in Replies /\ Backbuffer # reply2  BY DEF Backbuffer, Replies
  <1> QED BY <1>1, <1>3, <1>4, <1>5 DEF TypeOK, First

LEMMA MacType ==
    ASSUME TypeOK, NEW k \in Regular
    PROVE  /\ InMac(k) \in Seq(Frame)
           /\ "LOC3" \in busy /\ mac.tx.kind = k => mac.tx \in Frame
  <1>1. mac.tx \in Frame \/ mac.tx.kind \in {"none", "torn"}  BY DEF TypeOK, Buffers, None, Torn
  <1> QED BY <1>1 DEF InMac, Regular

\* What the code changes when it acts.
BodyType ==
    /\ queue \in {None} \cup Frame
    /\ ring \in Seq(Frame)
    /\ mac \in [Buffers -> {None, Torn} \cup Frame]
    /\ busy \subseteq {"LOC3", "CMD"}
    /\ status \in {0, 1, 5} /\ limit \in 0 .. Retries
    /\ reply1 \in Replies \cup {"none"}
    /\ n7 \in 0 .. MaxArm7
    /\ taken \in [Regular -> Seq(Frame)]

LEMMA Loc3Type ==
    ASSUME TypeOK, NEW f \in Frame, Loc3(f)
    PROVE  /\ mac' \in [Buffers -> {None, Torn} \cup Frame] /\ mac'.tx = f
           /\ busy' \subseteq {"LOC3", "CMD"} /\ "LOC3" \in busy' /\ limit' \in 0 .. Retries
  <1>1. mac' = [mac EXCEPT !.tx = f] /\ mac \in [Buffers -> {None, Torn} \cup Frame]
    BY DEF TypeOK, Loc3
  <1>2. mac' \in [Buffers -> {None, Torn} \cup Frame] /\ mac'.tx = f  BY <1>1 DEF Buffers
  <1>3. busy' \subseteq {"LOC3", "CMD"} /\ "LOC3" \in busy'  BY DEF TypeOK, Loc3
  <1>4. limit' \in 0 .. Retries  BY TxEngineAssumption DEF Loc3
  <1> QED BY <1>2, <1>3, <1>4

LEMMA AcceptType ==
    ASSUME TypeOK, n7 < MaxArm7, Accept
    PROVE  /\ taken' \in [Regular -> Seq(Frame)] /\ n7' \in 0 .. MaxArm7
           /\ taken'["arm7"] = Append(taken["arm7"], Built) /\ taken'["data"] = taken["data"]
  <1>1. Built \in Frame /\ Built.kind = "arm7"  BY FrameTypes
  <1>2. taken \in [Regular -> Seq(Frame)]  BY DEF TypeOK
  <1>3. n7' \in 0 .. MaxArm7  BY TxEngineAssumption DEF TypeOK, Accept
  <1>4. taken' = Recorded(taken, Built)  BY DEF Accept
  <1>5. taken' \in [Regular -> Seq(Frame)]  BY <1>1, <1>2, <1>4, RecordedType
  <1>6. \A k \in Regular : taken'[k] = IF Built.kind = k THEN Append(taken[k], Built) ELSE taken[k]
    BY <1>1, <1>2, <1>4, RecordedType
  <1> QED BY <1>1, <1>3, <1>5, <1>6 DEF Regular

\* The frames of the ARM7.
LEMMA Arm7Acts ==
    ASSUME IInv, NEW c \in Contexts, act[c] \in {"raw", "swap", "enqueue", "arm7"},
           Perform(act[c]), UNCHANGED <<n9, out>>
    PROVE  BodyType' /\ Origin' /\ NoneLost'
  <1> DEFINE a == act[c]
  <1>0. TypeOK /\ Sound(a) /\ Origin /\ NoneLost  BY DEF IInv, Decided
  <1>1. out["arm7"] \in Seq(Frame) /\ out["data"] \in Seq(Frame)  BY <1>0 DEF TypeOK, Regular
  <1>2. None.kind = "none"  BY DEF None
  <1>3. CASE a = "raw"
    <2>1. Raw  BY <1>3 DEF Perform, Replies
    <2>2. n7 < MaxArm7 /\ queue = None /\ "LOC3" \notin busy  BY <1>0, <1>3 DEF Sound
    <2>3. Built \in Frame /\ Built.kind = "arm7"  BY <1>0, <2>2, FrameTypes
    <2>4. BodyType'  BY <1>0, <2>1, <2>2, <2>3, Loc3Type, AcceptType DEF Raw, BodyType, TypeOK
    <2>5. Origin'  BY <1>0, <2>1 DEF Raw, Origin
    <2>6. mac'.tx = Built /\ "LOC3" \in busy' /\ queue' = None  BY <1>0, <2>1, <2>2, <2>3, Loc3Type DEF Raw
    <2>7. /\ taken'["arm7"] = Append(taken["arm7"], Built) /\ taken'["data"] = taken["data"]
      BY <1>0, <2>1, <2>2, AcceptType DEF Raw
    <2>8. /\ InMac("arm7") = <<>> /\ InQueue("arm7") = <<>>
          /\ InMac("data") = <<>> /\ InQueue("data") = <<>>
      BY <1>2, <2>2 DEF InMac, InQueue
    <2>9. /\ InMac("arm7")' = <<Built>> /\ InQueue("arm7")' = <<>>
          /\ InMac("data")' = <<>> /\ InQueue("data")' = <<>>
      BY <1>2, <2>3, <2>6 DEF InMac, InQueue
    <2>10. taken["arm7"] = out["arm7"] /\ taken["data"] = out["data"]
      <3>1. /\ taken["arm7"] = (out["arm7"] \o <<>>) \o <<>>
            /\ taken["data"] = (out["data"] \o <<>>) \o <<>>
        BY <1>0, <2>8 DEF NoneLost, Regular
      <3> QED BY <1>1, <3>1, Moves
    <2>11. /\ taken'["arm7"] = (out'["arm7"] \o <<Built>>) \o <<>>
           /\ taken'["data"] = (out'["data"] \o <<>>) \o <<>>
      BY <1>1, <2>3, <2>7, <2>10, Moves
    <2>12. NoneLost'  BY <2>9, <2>11 DEF NoneLost, Regular
    <2> QED BY <2>4, <2>5, <2>12
  <1>4. CASE a = "swap"
    <2>1. Swap  BY <1>4 DEF Perform, Replies
    <2>2. n7 < MaxArm7 /\ queue # None /\ "LOC3" \notin busy  BY <1>0, <1>4 DEF Sound
    <2>3. Built \in Frame /\ Built.kind = "arm7"  BY <1>0, <2>2, FrameTypes
    <2>4. queue \in Frame /\ queue.kind = "arm7"  BY <1>0, <2>2 DEF TypeOK, Origin
    <2>5. BodyType'  BY <1>0, <2>1, <2>2, <2>3, <2>4, Loc3Type, AcceptType DEF Swap, BodyType, TypeOK
    <2>6. Origin'  BY <1>0, <2>1, <2>3 DEF Swap, Origin
    <2>7. mac'.tx = queue /\ "LOC3" \in busy' /\ queue' = Built  BY <1>0, <2>1, <2>4, Loc3Type DEF Swap
    <2>8. taken'["arm7"] = Append(taken["arm7"], Built) /\ taken'["data"] = taken["data"]
      BY <1>0, <2>1, <2>2, AcceptType DEF Swap
    <2>9. /\ InMac("arm7") = <<>> /\ InQueue("arm7") = <<queue>>
          /\ InMac("data") = <<>> /\ InQueue("data") = <<>>
      BY <2>2, <2>4 DEF InMac, InQueue
    <2>10. /\ InMac("arm7")' = <<queue>> /\ InQueue("arm7")' = <<Built>>
           /\ InMac("data")' = <<>> /\ InQueue("data")' = <<>>
      BY <2>3, <2>4, <2>7 DEF InMac, InQueue
    <2>11. taken["arm7"] = Append(out["arm7"], queue) /\ taken["data"] = out["data"]
      <3>1. /\ taken["arm7"] = (out["arm7"] \o <<>>) \o <<queue>>
            /\ taken["data"] = (out["data"] \o <<>>) \o <<>>
        BY <1>0, <2>9 DEF NoneLost, Regular
      <3> QED BY <1>1, <2>4, <3>1, Moves
    <2>12. /\ taken'["arm7"] = (out'["arm7"] \o <<queue>>) \o <<Built>>
           /\ taken'["data"] = (out'["data"] \o <<>>) \o <<>>
      BY <1>1, <2>3, <2>4, <2>8, <2>11, Moves
    <2>13. NoneLost'  BY <2>10, <2>12 DEF NoneLost, Regular
    <2> QED BY <2>5, <2>6, <2>13
  <1>5. CASE a = "enqueue"
    <2>1. Enqueue  BY <1>5 DEF Perform, Replies
    <2>2. n7 < MaxArm7 /\ queue = None  BY <1>0, <1>5 DEF Sound, FromRing
    <2>3. Built \in Frame /\ Built.kind = "arm7"  BY <1>0, <2>2, FrameTypes
    <2>4. BodyType'  BY <1>0, <2>1, <2>2, <2>3, AcceptType DEF Enqueue, BodyType, TypeOK
    <2>5. Origin'  BY <1>0, <2>1, <2>3 DEF Enqueue, Origin
    <2>6. UNCHANGED <<mac, busy>> /\ queue' = Built  BY <2>1 DEF Enqueue
    <2>7. taken'["arm7"] = Append(taken["arm7"], Built) /\ taken'["data"] = taken["data"]
      BY <1>0, <2>1, <2>2, AcceptType DEF Enqueue
    <2>8. /\ InMac("arm7")' = InMac("arm7") /\ InQueue("arm7") = <<>> /\ InQueue("arm7")' = <<Built>>
          /\ InMac("data")' = InMac("data") /\ InQueue("data") = <<>> /\ InQueue("data")' = <<>>
      BY <1>2, <2>2, <2>3, <2>6 DEF InMac, InQueue
    <2>9. taken["arm7"] = out["arm7"] \o InMac("arm7") \o <<>> /\ taken["data"] = out["data"] \o InMac("data") \o <<>>
      BY <1>0, <2>8 DEF NoneLost, Regular
    <2>10. taken'["arm7"] = out["arm7"] \o InMac("arm7") \o <<Built>>
      <3>1. out["arm7"] \o InMac("arm7") \in Seq(Frame)  BY <1>0, <1>1, MacType DEF Regular
      <3>2. taken["arm7"] = out["arm7"] \o InMac("arm7")  BY <2>9, <3>1, Moves
      <3> QED BY <2>3, <2>7, <3>1, <3>2, Moves
    <2>11. NoneLost'  BY <2>7, <2>8, <2>9, <2>10 DEF NoneLost, Regular
    <2> QED BY <2>4, <2>5, <2>11
  <1>6. CASE a = "arm7"
    <2>1. Wifi_TxArm7QueueFlush  BY <1>6 DEF Perform, Replies
    <2>2. queue # None /\ "LOC3" \notin busy  BY <1>0, <1>6 DEF Sound
    <2>3. queue \in Frame /\ queue.kind = "arm7"  BY <1>0, <2>2 DEF TypeOK, Origin
    <2>4. BodyType'
      BY <1>0, <2>1, <2>3, Loc3Type DEF Wifi_TxArm7QueueFlush, BodyType, TypeOK
    <2>5. Origin'  BY <1>0, <2>1 DEF Wifi_TxArm7QueueFlush, Origin
    <2>6. mac'.tx = queue /\ "LOC3" \in busy' /\ queue' = None /\ taken' = taken
      BY <1>0, <2>1, <2>3, Loc3Type DEF Wifi_TxArm7QueueFlush
    <2>7. /\ InMac("arm7") = <<>> /\ InQueue("arm7") = <<queue>>
          /\ InMac("data") = <<>> /\ InQueue("data") = <<>>
      BY <2>2, <2>3 DEF InMac, InQueue
    <2>8. /\ InMac("arm7")' = <<queue>> /\ InQueue("arm7")' = <<>>
          /\ InMac("data")' = <<>> /\ InQueue("data")' = <<>>
      BY <1>2, <2>3, <2>6 DEF InMac, InQueue
    <2>9. /\ taken["arm7"] = (out["arm7"] \o <<>>) \o <<queue>>
          /\ taken["data"] = (out["data"] \o <<>>) \o <<>>
      BY <1>0, <2>7 DEF NoneLost, Regular
    <2>10. taken["arm7"] = (out["arm7"] \o <<queue>>) \o <<>>  BY <1>1, <2>3, <2>9, Moves
    <2>11. NoneLost'  BY <2>6, <2>8, <2>9, <2>10 DEF NoneLost, Regular
    <2> QED BY <2>4, <2>5, <2>11
  <1> QED BY <1>3, <1>4, <1>5, <1>6

LEMMA PopOrigin ==
    ASSUME TypeOK, Origin, Pop, queue' = queue, n9' = n9
    PROVE  Origin'
  <1>1. ring \in Seq(Frame) /\ n9 \in Nat  BY DEF TypeOK
  <1>2. CASE ring = <<>>  BY <1>2 DEF Pop, Origin
  <1>3. CASE ring # <<>>
    <2>1. ring' = Tail(ring)  BY <1>3 DEF Pop
    <2> QED BY <1>1, <1>3, <2>1, TailOf DEF Origin
  <1> QED BY <1>2, <1>3

\* Nothing changes for LOC3.
LEMMA LostUnchanged ==
    ASSUME NoneLost, UNCHANGED <<queue, taken, out>>, mac'.tx = mac.tx,
           "LOC3" \in busy' <=> "LOC3" \in busy
    PROVE  NoneLost'
  BY DEF NoneLost, InMac, InQueue

\* The frames of the ARM9.
LEMMA Arm9Acts ==
    ASSUME IInv, NEW c \in Contexts, act[c] \in {"skip", "retry", "reset", "data", "cmd", "beacon"} \cup Replies,
           Perform(act[c]), UNCHANGED <<n9, out>>
    PROVE  BodyType' /\ Origin' /\ NoneLost'
  <1> DEFINE a == act[c]
  <1>0. TypeOK /\ Sound(a) /\ Origin /\ NoneLost  BY DEF IInv, Decided
  <1>1. out["arm7"] \in Seq(Frame) /\ out["data"] \in Seq(Frame)  BY <1>0 DEF TypeOK, Regular
  <1>2. None.kind = "none"  BY DEF None
  <1>3. mac \in [Buffers -> {None, Torn} \cup Frame]  BY <1>0 DEF TypeOK
  <1>4. First \in Frame \cup {Torn}  BY <1>0, FrameTypes
  <1>5. CASE a = "skip"
    <2>1. UNCHANGED <<queue, ring, mac, limit, busy, status, reply1, n7, taken>>  BY <1>5 DEF Perform, Replies
    <2> QED BY <1>0, <2>1, LostUnchanged DEF BodyType, TypeOK, Origin
  <1>6. CASE a = "retry"
    <2>1. Retry /\ limit > 0  BY <1>0, <1>6 DEF Perform, Replies, Sound
    <2>2. BodyType'  BY <1>0, <2>1, TxEngineAssumption DEF Retry, BodyType, TypeOK
    <2> QED BY <1>0, <2>1, <2>2, LostUnchanged DEF Retry, Origin
  <1>20. CASE a = "reset"
    <2>1. Reset  BY <1>20 DEF Perform, Replies
    <2>2. BodyType'  BY <1>0, <2>1 DEF Reset, BodyType, TypeOK
    <2> QED BY <1>0, <2>1, <2>2, LostUnchanged DEF Reset, Origin
  <1>7. CASE a = "data"
    <2>1. FlushByLoc3  BY <1>7 DEF Perform, Replies
    <2>2. ring # <<>> /\ Head(ring).kind = "data" /\ queue = None /\ "LOC3" \notin busy
      BY <1>0, <1>7 DEF Sound, FromRing
    <2>3. First \in Frame /\ First.kind = "data"  BY <1>0, <2>2, FrameTypes
    <2>4. ring' \in Seq(Frame)  BY <1>0, <2>1, FrameTypes DEF FlushByLoc3
    <2>5. taken \in [Regular -> Seq(Frame)] /\ taken' = Recorded(taken, First)
      BY <1>0, <2>1 DEF TypeOK, FlushByLoc3
    <2>6. taken' \in [Regular -> Seq(Frame)]  BY <2>3, <2>5, RecordedType
    <2>7. BodyType'  BY <1>0, <2>1, <2>3, <2>4, <2>6, Loc3Type DEF FlushByLoc3, BodyType, TypeOK
    <2>8. Origin'  BY <1>0, <2>1, PopOrigin DEF FlushByLoc3
    <2>9. taken'["data"] = Append(taken["data"], First) /\ taken'["arm7"] = taken["arm7"]
      BY <2>3, <2>5, RecordedType DEF Regular
    <2>10. mac'.tx = First /\ "LOC3" \in busy' /\ queue' = None
      BY <1>0, <2>1, <2>2, <2>3, Loc3Type DEF FlushByLoc3
    <2>11. /\ InMac("arm7") = <<>> /\ InQueue("arm7") = <<>>
           /\ InMac("data") = <<>> /\ InQueue("data") = <<>>
      BY <1>2, <2>2 DEF InMac, InQueue
    <2>12. /\ InMac("arm7")' = <<>> /\ InQueue("arm7")' = <<>>
           /\ InMac("data")' = <<First>> /\ InQueue("data")' = <<>>
      BY <1>2, <2>3, <2>10 DEF InMac, InQueue
    <2>13. /\ taken["arm7"] = (out["arm7"] \o <<>>) \o <<>>
           /\ taken["data"] = (out["data"] \o <<>>) \o <<>>
      BY <1>0, <2>11 DEF NoneLost, Regular
    <2>14. taken'["data"] = (out'["data"] \o <<First>>) \o <<>>
      BY <1>1, <2>3, <2>9, <2>13, Moves
    <2>15. NoneLost'  BY <2>9, <2>12, <2>13, <2>14 DEF NoneLost, Regular
    <2> QED BY <2>7, <2>8, <2>15
  <1>8. CASE a = "cmd"
    <2>1. FlushByCmd  BY <1>8 DEF Perform, Replies
    <2>2. ring' \in Seq(Frame)  BY <1>0, <2>1, FrameTypes DEF FlushByCmd
    <2>3. mac' \in [Buffers -> {None, Torn} \cup Frame] /\ mac'.tx = mac.tx
      BY <1>3, <1>4, <2>1 DEF FlushByCmd, Buffers
    <2>4. limit' \in 0 .. Retries  BY <2>1, TxEngineAssumption DEF FlushByCmd
    <2>5. BodyType'  BY <1>0, <2>1, <2>2, <2>3, <2>4 DEF FlushByCmd, BodyType, TypeOK
    <2>6. Origin'  BY <1>0, <2>1, PopOrigin DEF FlushByCmd
    <2> QED BY <1>0, <2>1, <2>3, <2>5, <2>6, LostUnchanged DEF FlushByCmd
  <1>9. CASE a = "beacon"
    <2>1. FlushBeacon  BY <1>9 DEF Perform, Replies
    <2>2. ring' \in Seq(Frame)  BY <1>0, <2>1, FrameTypes DEF FlushBeacon
    <2>3. BodyType'  BY <1>0, <2>1, <2>2 DEF FlushBeacon, BodyType, TypeOK
    <2>4. Origin'  BY <1>0, <2>1, PopOrigin DEF FlushBeacon
    <2> QED BY <1>0, <2>1, <2>3, <2>4, LostUnchanged DEF FlushBeacon
  <1>10. CASE a \in Replies
    <2>1. FlushByReply(a)  BY <1>10 DEF Perform, Replies
    <2>2. ring' \in Seq(Frame)  BY <1>0, <2>1, FrameTypes DEF FlushByReply
    <2>3. mac' \in [Buffers -> {None, Torn} \cup Frame] /\ mac'.tx = mac.tx
      BY <1>3, <1>4, <1>10, <2>1 DEF FlushByReply, Buffers, Replies
    <2>4. limit' \in 0 .. Retries  BY <2>1, TxEngineAssumption DEF FlushByReply
    <2>5. reply1' \in Replies \cup {"none"}  BY <1>10, <2>1 DEF FlushByReply
    <2>6. BodyType'  BY <1>0, <2>1, <2>2, <2>3, <2>4, <2>5 DEF FlushByReply, BodyType, TypeOK
    <2>7. Origin'  BY <1>0, <2>1, PopOrigin DEF FlushByReply
    <2> QED BY <1>0, <2>1, <2>3, <2>6, <2>7, LostUnchanged DEF FlushByReply
  <1> QED BY <1>5, <1>6, <1>20, <1>7, <1>8, <1>9, <1>10

-----------------------------------------------------------------------------
(* One step *)

\* What both CPUs and the hardware leave alone.
LEMMA SoundKept ==
    ASSUME Decided, UNCHANGED <<queue, limit, n7, act>>, busy' \subseteq busy,
           ring # <<>> => ring' # <<>> /\ Head(ring') = Head(ring),
           "CMD_DONE" \in wif => "CMD_DONE" \in wif'
    PROVE  Decided'
  BY DEF Decided, Sound

LEMMA DoneKept ==
    ASSUME DoneFirst, UNCHANGED job, "CMD_DONE" \in wif => "CMD_DONE" \in wif'
    PROVE  DoneFirst'
  BY DEF DoneFirst

\* The MAC.
LEMMA MacStep ==
    ASSUME IInv, Ends \/ CmdArrives \/ Receive
    PROVE  IInv'
  <1>0. TypeOK /\ Alone /\ DoneFirst /\ Decided /\ Origin /\ NoneLost /\ Given  BY DEF IInv
  <1>1. CASE Loc3Ends
    <2>1. /\ UNCHANGED <<role, queue, ring, mac, limit, status, reply1, reply2, replying, job, act, n7, n9, taken>>
          /\ busy' = busy \ {"LOC3"} /\ wif' = wif \cup {"TX"} /\ out' = Recorded(out, mac.tx)
          /\ "LOC3" \in busy
      BY <1>1 DEF Loc3Ends
    <2>2. out \in [Regular -> Seq(Frame)] /\ mac.tx \in Frame \cup {None, Torn}
      BY <1>0 DEF TypeOK, Buffers
    <2>3. out' \in [Regular -> Seq(Frame)]  BY <2>1, <2>2, RecordedType
    <2>4. TypeOK'  BY <1>0, <2>1, <2>3 DEF TypeOK
    <2>5. Decided' /\ DoneFirst' /\ Alone' /\ Origin'
      BY <1>0, <2>1, SoundKept, DoneKept DEF Alone, Origin
    <2>6. ASSUME NEW k \in Regular
          PROVE  taken'[k] = out'[k] \o InMac(k)' \o InQueue(k)'
      <3>1. InMac(k)' = <<>> /\ InQueue(k)' = InQueue(k)  BY <2>1 DEF InMac, InQueue
      <3>2. out[k] \in Seq(Frame)  BY <2>2
      <3>3. out'[k] = IF mac.tx.kind = k THEN Append(out[k], mac.tx) ELSE out[k]
        BY <2>1, <2>2, RecordedType
      <3>4. out'[k] = out[k] \o InMac(k)
        <4>1. CASE mac.tx.kind = k
          <5>1. InMac(k) = <<mac.tx>> /\ mac.tx \in Frame  BY <1>0, <2>1, <4>1, MacType DEF InMac
          <5> QED BY <3>2, <3>3, <4>1, <5>1, Moves
        <4>2. CASE mac.tx.kind # k
          <5>1. InMac(k) = <<>>  BY <4>2 DEF InMac
          <5> QED BY <3>2, <3>3, <4>2, <5>1, Moves
        <4> QED BY <4>1, <4>2
      <3>5. out'[k] \in Seq(Frame)  BY <2>3
      <3>6. out'[k] \o <<>> = out'[k]  BY <3>5, Moves
      <3>7. taken[k] = out[k] \o InMac(k) \o InQueue(k)  BY <1>0 DEF NoneLost
      <3> QED BY <2>1, <3>1, <3>4, <3>6, <3>7
    <2>7. NoneLost'  BY <2>6 DEF NoneLost
    <2> QED BY <1>0, <2>1, <2>4, <2>5, <2>7 DEF IInv, Given
  <1>2. CASE \E s \in {1, 5} : CmdEnds(s)
    <2>1. PICK s \in {1, 5} : CmdEnds(s)  BY <1>2
    <2>2. TypeOK'  BY <1>0, <2>1 DEF CmdEnds, TypeOK, history
    <2>3. Decided' /\ DoneFirst' /\ Alone' /\ Origin'
      BY <1>0, <2>1, SoundKept, DoneKept DEF CmdEnds, Alone, Origin, history
    <2>4. NoneLost'  BY <1>0, <2>1, LostUnchanged DEF CmdEnds, history
    <2> QED BY <1>0, <2>1, <2>2, <2>3, <2>4 DEF IInv, CmdEnds, Given
  <1>3. CASE ReplyEnds \/ CmdArrives \/ Receive
    <2>1. /\ UNCHANGED <<role, queue, ring, mac, limit, busy, status, job, act, n7, n9, taken, out>>
          /\ "CMD_DONE" \in wif => "CMD_DONE" \in wif'
      BY <1>3 DEF ReplyEnds, CmdArrives, Receive, history
    <2>2. {reply1', reply2'} \subseteq Replies \cup {"none"} /\ Given'
      BY <1>0, <1>3 DEF TypeOK, ReplyEnds, CmdArrives, Receive, Given
    <2>3. replying' \in BOOLEAN /\ wif' \subseteq {"CMD_DONE", "RX", "TX"}
      BY <1>0, <1>3 DEF TypeOK, ReplyEnds, CmdArrives, Receive
    <2>4. TypeOK'  BY <1>0, <2>1, <2>2, <2>3 DEF TypeOK
    <2>5. Decided' /\ DoneFirst' /\ Alone' /\ Origin'
      BY <1>0, <2>1, SoundKept, DoneKept DEF Alone, Origin
    <2>6. NoneLost'  BY <1>0, <2>1, LostUnchanged
    <2> QED BY <2>2, <2>4, <2>5, <2>6 DEF IInv
  <1> QED BY <1>1, <1>2, <1>3 DEF Ends

\* The ARM9.
LEMMA Arm9Step ==
    ASSUME IInv, NEW k \in Kinds.host \cup Kinds.client, Arm9Adds(k)
    PROVE  IInv'
  <1>0. TypeOK /\ Alone /\ DoneFirst /\ Decided /\ Origin /\ NoneLost /\ Given  BY DEF IInv
  <1> DEFINE f == [kind |-> k, id |-> n9']
  <1>1. /\ UNCHANGED <<role, queue, mac, limit, busy, status, reply1, reply2, replying, wif, job, act, n7, taken, out>>
        /\ ring' = Append(ring, f) /\ n9' = n9 + 1 /\ n9 < MaxArm9
    BY DEF Arm9Adds, hardware
  <1>2. k \in {"data", "cmd", "reply", "beacon"}  BY DEF Kinds
  <1>3. n9' \in 1 .. MaxArm7 + MaxArm9 /\ n9' \in 0 .. MaxArm9
    BY <1>0, <1>1, TxEngineAssumption DEF TypeOK
  <1>4. f \in Frame /\ f.kind # "arm7"  BY <1>2, <1>3 DEF Frame
  <1>5. ring \in Seq(Frame) /\ Len(ring) <= n9 /\ n9 \in Nat /\ MaxArm9 \in Nat
    BY <1>0, TxEngineAssumption DEF TypeOK, Origin
  <1>6. ring' \in Seq(Frame) /\ Len(ring') <= n9' /\ Len(ring') <= MaxArm9
    BY <1>1, <1>4, <1>5, AppendTo
  <1>7. TypeOK'  BY <1>0, <1>1, <1>3, <1>6 DEF TypeOK
  <1>8. Origin'
    <2>1. \A i \in 1 .. Len(ring') : ring'[i].kind # "arm7"
      <3>1. ASSUME NEW i \in 1 .. Len(ring)  PROVE  ring'[i].kind # "arm7"
        BY <1>0, <1>1, <1>4, <1>5, AppendTo DEF Origin
      <3>2. ring'[Len(ring) + 1].kind # "arm7"  BY <1>1, <1>4, <1>5, AppendTo
      <3> QED BY <1>1, <1>4, <1>5, <3>1, <3>2, AppendTo
    <2> QED BY <1>0, <1>1, <1>6, <2>1 DEF Origin
  <1>9. ring # <<>> => ring' # <<>> /\ Head(ring') = Head(ring)  BY <1>1, <1>4, <1>5, AppendTo
  <1>10. Decided' /\ DoneFirst' /\ Alone'  BY <1>0, <1>1, <1>9, SoundKept, DoneKept DEF Alone
  <1>11. NoneLost'  BY <1>0, <1>1, LostUnchanged
  <1> QED BY <1>0, <1>1, <1>7, <1>8, <1>10, <1>11 DEF IInv, Given

\* The contexts begin.
LEMMA BeginStep ==
    ASSUME IInv, Wifi_NTR_Update \/ Wifi_Interrupt
    PROVE  IInv'
  <1>0. TypeOK /\ Alone /\ DoneFirst /\ Decided /\ Origin /\ NoneLost /\ Given  BY DEF IInv
  <1>1. /\ UNCHANGED <<role, queue, ring, mac, limit, busy, status, reply1, reply2, replying, wif, act>>
        /\ UNCHANGED <<n7, n9, taken, out>>
        /\ job.update = <<>> /\ job.irq = <<>>
    BY DEF Wifi_NTR_Update, Wifi_Interrupt, hardware, history
  <1>2. act.update = "none" /\ act.irq = "none"  BY <1>0, <1>1 DEF Alone, Contexts
  <1>3. job \in [Contexts -> Seq(Jobs)]  BY <1>0 DEF TypeOK
  <1>4. /\ job' \in [Contexts -> Seq(Jobs)]
        /\ job'.update = <<>> \/ job'.irq = <<>>
        /\ DoneFirst'
    <2>1. CASE Wifi_NTR_Update
      <3>1. job' = [job EXCEPT !.update = <<"add", "flush">>]  BY <2>1 DEF Wifi_NTR_Update
      <3>2. <<"add", "flush">> \in Seq(Jobs)  BY DEF Jobs
      <3>3. job'.irq = <<>> /\ job'.update = <<"add", "flush">>  BY <1>1, <1>3, <3>1 DEF Contexts
      <3>4. DoneFirst'  BY <3>3 DEF DoneFirst, Contexts
      <3> QED BY <1>3, <3>1, <3>2, <3>3, <3>4
    <2>2. CASE Wifi_Interrupt
      <3> DEFINE q == Pending("CMD_DONE") \o Pending("RX") \o Pending("TX")
      <3>1. job' = [job EXCEPT !.irq = q]  BY <2>2 DEF Wifi_Interrupt
      <3>2. \A i \in Jobs : Pending(i) \in Seq(Jobs)  BY DEF Pending
      <3>3. q \in Seq(Jobs)  BY <3>2 DEF Jobs
      <3>4. job'.update = <<>> /\ job'.irq = q  BY <1>1, <1>3, <3>1 DEF Contexts
      <3>5. \A i \in 1 .. Len(q) : q[i] = "CMD_DONE" => i = 1 /\ "CMD_DONE" \in wif
        BY DEF Pending
      <3>6. DoneFirst'  BY <1>1, <3>4, <3>5 DEF DoneFirst, Contexts
      <3> QED BY <1>3, <3>1, <3>3, <3>4, <3>6
    <2> QED BY <2>1, <2>2
  <1>5. TypeOK'  BY <1>0, <1>1, <1>4 DEF TypeOK
  <1>6. Alone'  BY <1>1, <1>2, <1>4 DEF Alone, Contexts
  <1>7. Decided'  BY <1>0, <1>1, SoundKept
  <1>8. NoneLost'  BY <1>0, <1>1, LostUnchanged
  <1> QED BY <1>0, <1>1, <1>4, <1>5, <1>6, <1>7, <1>8 DEF IInv, Origin, Given

\* The other context has nothing to do.
LEMMA Others ==
    ASSUME Alone, NEW c \in Contexts, Running(c)
    PROVE  \A d \in Contexts : d # c => act[d] = "none" /\ job[d] = <<>>
  BY DEF Alone, Running, Contexts

LEMMA DecisionSound ==
    ASSUME IInv, NEW c \in Contexts, Running(c), NEW some \in BOOLEAN,
           some => n7 < MaxArm7 /\ Head(job[c]) \in {"add", "RX"}
    PROVE  /\ Decision(c, some) \in Acts /\ Sound(Decision(c, some))
           /\ Decision(c, some) \notin {"none", "data", "cmd", "beacon"} \cup Replies
  <1>0. TypeOK /\ DoneFirst  BY DEF IInv
  <1>1. job[c] \in Seq(Jobs) /\ job[c] # <<>>  BY <1>0 DEF TypeOK, Running
  <1>2. Head(job[c]) \in Jobs /\ Head(job[c]) = job[c][1] /\ 1 \in 1 .. Len(job[c])  BY <1>1, TailOf
  <1>3. CASE Head(job[c]) \in {"add", "RX"}
    <2>1. Decision(c, some) = IF some THEN Wifi_TxArm7QueueAdd ELSE "skip"  BY <1>3 DEF Decision
    <2>2. CASE some
      BY <1>0, <2>1, <2>2 DEF Wifi_TxArm7QueueAdd, Sound, Acts, FromRing, Replies
    <2>3. CASE ~some  BY <2>1, <2>3 DEF Sound, Acts, FromRing, Replies
    <2> QED BY <2>2, <2>3
  <1>4. CASE Head(job[c]) \in {"flush", "TX"}
    <2>1. Decision(c, some) = Wifi_TxAllQueueFlush  BY <1>4 DEF Decision
    <2> QED BY <2>1 DEF Wifi_TxAllQueueFlush, Sound, Acts, FromRing, Replies
  <1>5. CASE Head(job[c]) = "CMD_DONE"
    <2>1. Decision(c, some) = Wifi_Intr_MultiplayCmdDone  BY <1>5 DEF Decision
    <2>2. "CMD_DONE" \in wif  BY <1>0, <1>2, <1>5 DEF DoneFirst
    <2> QED BY <2>1, <2>2 DEF Wifi_Intr_MultiplayCmdDone, Sound, Acts, FromRing, Replies
  <1> QED BY <1>2, <1>3, <1>4, <1>5 DEF Jobs

LEMMA DecideStep ==
    ASSUME IInv, NEW c \in Contexts, NEW some \in BOOLEAN, Decide(c, some)
    PROVE  IInv'
  <1>0. TypeOK /\ Alone /\ DoneFirst /\ Decided /\ Origin /\ NoneLost /\ Given  BY DEF IInv
  <1> DEFINE a == Decision(c, some)
  <1>1. /\ UNCHANGED <<role, queue, ring, mac, limit, busy, status, reply1, reply2, replying, job>>
        /\ UNCHANGED <<n7, n9, taken, out>>
        /\ Running(c) /\ act' = [act EXCEPT ![c] = a]
    BY DEF Decide, history
  <1>2. a \in Acts /\ Sound(a)  BY <1>1, DecisionSound DEF Decide
  <1>3. wif' \subseteq wif /\ ("CMD_DONE" \in wif => "CMD_DONE" \in wif')  BY DEF Decide
  <1>4. TypeOK'  BY <1>0, <1>1, <1>2, <1>3 DEF TypeOK
  <1>5. act'[c] = a /\ \A d \in Contexts : d # c => act'[d] = "none"
    BY <1>0, <1>1, Others DEF TypeOK
  <1>6. Alone'  BY <1>0, <1>1, <1>5 DEF Alone, Running
  <1>7. Decided'
    <2>1. Sound(act[c])'  BY <1>1, <1>2, <1>3, <1>5 DEF Sound
    <2>2. ASSUME NEW d \in Contexts, d # c  PROVE  Sound(act[d])'
      BY <1>5, <2>2 DEF Sound, FromRing, Replies
    <2> QED BY <2>1, <2>2 DEF Decided
  <1>8. DoneFirst'  BY <1>0, <1>1, <1>3, DoneKept
  <1>9. NoneLost'  BY <1>0, <1>1, LostUnchanged
  <1> QED BY <1>0, <1>1, <1>4, <1>6, <1>7, <1>8, <1>9 DEF IInv, Origin, Given

LEMMA FlushStep ==
    ASSUME IInv, NEW c \in Contexts, Wifi_TxArm9QueueFlush(c)
    PROVE  IInv'
  <1>0. TypeOK /\ Alone /\ DoneFirst /\ Decided /\ Origin /\ NoneLost /\ Given  BY DEF IInv
  <1>1. /\ UNCHANGED <<role, queue, ring, limit, busy, status, reply1, reply2, replying, wif, job>>
        /\ UNCHANGED <<n7, n9, taken, out>>
        /\ Running(c) /\ act[c] = "arm9"
    BY DEF Wifi_TxArm9QueueFlush, history, hardware
  <1>2. Sound("arm9")  BY <1>0, <1>1 DEF Decided
  <1>3. Backbuffer \in Replies  BY <1>0, FrameTypes
  <1>4. mac' \in [Buffers -> {None, Torn} \cup Frame] /\ mac'.tx = mac.tx
    <2>1. mac' = mac \/ mac' = [mac EXCEPT ![Backbuffer] = Torn]  BY DEF Wifi_TxArm9QueueFlush
    <2>2. mac \in [Buffers -> {None, Torn} \cup Frame]  BY <1>0 DEF TypeOK
    <2> QED BY <1>3, <2>1, <2>2 DEF Buffers, Replies
  <1>5. act'[c] \in Acts \ {"none", "arm9"} /\ Sound(act[c])' /\ act' = [act EXCEPT ![c] = act'[c]]
    <2>1. CASE First.kind = "reply"
      <3>1. act' = [act EXCEPT ![c] = Backbuffer]  BY <2>1 DEF Wifi_TxArm9QueueFlush
      <3>2. act'[c] = Backbuffer  BY <1>0, <3>1 DEF TypeOK
      <3>3. ring # <<>> /\ Head(ring).kind = "reply"  BY <2>1 DEF First, Torn
      <3> QED BY <1>1, <1>2, <1>3, <3>1, <3>2, <3>3 DEF Sound, Acts, Replies, FromRing
    <2>2. CASE First.kind # "reply" /\ ring = <<>>
      <3>1. act' = [act EXCEPT ![c] = "skip"]  BY <2>2 DEF Wifi_TxArm9QueueFlush
      <3>2. act'[c] = "skip"  BY <1>0, <3>1 DEF TypeOK
      <3> QED BY <3>1, <3>2 DEF Sound, Acts, FromRing, Replies
    <2>3. CASE First.kind # "reply" /\ ring # <<>>
      <3>1. act' = [act EXCEPT ![c] = First.kind]  BY <2>3 DEF Wifi_TxArm9QueueFlush
      <3>2. act'[c] = First.kind  BY <1>0, <3>1 DEF TypeOK
      <3>3. First \in Frame /\ First = Head(ring) /\ First.kind # "arm7"
        <4>1. First \in Frame /\ First = Head(ring)  BY <1>0, <2>3, FrameTypes
        <4>2. ring \in Seq(Frame)  BY <1>0 DEF TypeOK
        <4>3. Head(ring) = ring[1] /\ 1 \in 1 .. Len(ring)  BY <2>3, <4>2, TailOf
        <4> QED BY <1>0, <4>1, <4>3 DEF Origin
      <3>4. First.kind \in {"data", "cmd", "beacon"}  BY <2>3, <3>3 DEF Frame
      <3> QED BY <1>1, <1>2, <2>3, <3>1, <3>2, <3>3, <3>4 DEF Sound, Acts, FromRing, Replies
    <2> QED BY <2>1, <2>2, <2>3
  <1>6. act \in [Contexts -> Acts] /\ act' \in [Contexts -> Acts]  BY <1>0, <1>5 DEF TypeOK
  <1>7. TypeOK'  BY <1>0, <1>1, <1>4, <1>6 DEF TypeOK
  <1>8. \A d \in Contexts : d # c => act'[d] = "none" /\ job[d] = <<>>  BY <1>0, <1>1, <1>5, <1>6, Others
  <1>9. Alone'  BY <1>0, <1>1, <1>8 DEF Alone, Running
  <1>10. Decided'
    <2>1. ASSUME NEW d \in Contexts, d # c  PROVE  Sound(act[d])'
      BY <1>8, <2>1 DEF Sound, FromRing, Replies
    <2> QED BY <1>5, <2>1 DEF Decided
  <1>11. DoneFirst'  BY <1>0, <1>1, DoneKept
  <1>12. NoneLost'  BY <1>0, <1>1, <1>4, LostUnchanged
  <1> QED BY <1>0, <1>1, <1>7, <1>9, <1>10, <1>11, <1>12 DEF IInv, Origin, Given

LEMMA ActStep ==
    ASSUME IInv, NEW c \in Contexts, Act(c)
    PROVE  IInv'
  <1>0. TypeOK /\ Alone /\ DoneFirst /\ Decided /\ Origin /\ NoneLost /\ Given  BY DEF IInv
  <1>1. /\ UNCHANGED <<role, reply2, replying, n9, out>>
        /\ Running(c) /\ act[c] \notin {"none", "arm9"} /\ Perform(act[c])
        /\ job' = [job EXCEPT ![c] = Tail(@)] /\ act' = [act EXCEPT ![c] = "none"]
    BY DEF Act
  <1>2. act[c] \in Acts  BY <1>0 DEF TypeOK
  <1>3. BodyType' /\ Origin' /\ NoneLost'
    <2>1. CASE act[c] \in {"raw", "swap", "enqueue", "arm7"}  BY <1>1, <2>1, Arm7Acts
    <2>2. CASE act[c] \in {"skip", "retry", "reset", "data", "cmd", "beacon"} \cup Replies
      BY <1>1, <2>2, Arm9Acts
    <2> QED BY <1>1, <1>2, <2>1, <2>2 DEF Acts, Replies
  <1>4. job[c] \in Seq(Jobs) /\ job[c] # <<>>  BY <1>0, <1>1 DEF TypeOK, Running
  <1>5. Tail(job[c]) \in Seq(Jobs)  BY <1>4, TailOf
  <1>6. job' \in [Contexts -> Seq(Jobs)] /\ act' \in [Contexts -> Acts]
    BY <1>0, <1>1, <1>5 DEF TypeOK, Acts
  <1>7. wif' \subseteq wif  BY DEF Act
  <1>8. Len(ring') <= MaxArm9
    <2>1. ring' \in Seq(Frame) /\ Len(ring') <= n9' /\ n9' <= MaxArm9 /\ n9' \in Nat /\ MaxArm9 \in Nat
      BY <1>0, <1>1, <1>3, TxEngineAssumption DEF BodyType, Origin, TypeOK
    <2> QED BY <2>1
  <1>9. TypeOK'  BY <1>0, <1>1, <1>3, <1>6, <1>7, <1>8 DEF TypeOK, BodyType
  <1>10. \A d \in Contexts : act'[d] = "none"  BY <1>0, <1>1, Others DEF TypeOK
  <1>11. \A d \in Contexts : d # c => job'[d] = <<>>  BY <1>0, <1>1, Others DEF TypeOK
  <1>12. Alone'  BY <1>10, <1>11 DEF Alone, Contexts
  <1>13. Decided'
    <2>1. ASSUME NEW d \in Contexts  PROVE  Sound(act[d])'  BY <1>10 DEF Sound, FromRing, Replies
    <2> QED BY <2>1 DEF Decided
  <1>14. DoneFirst'
    <2>1. job'[c] = Tail(job[c])  BY <1>0, <1>1 DEF TypeOK
    <2>2. \A i \in 1 .. Len(job'[c]) : job'[c][i] # "CMD_DONE"
      BY <1>0, <1>4, <2>1, TailOf DEF DoneFirst
    <2> QED BY <1>11, <2>2 DEF DoneFirst
  <1> QED BY <1>0, <1>1, <1>3, <1>9, <1>12, <1>13, <1>14 DEF IInv, Given

LEMMA Invariance == Spec => []IInv
  <1>1. Init => IInv
    <2> SUFFICES ASSUME Init  PROVE  IInv
      OBVIOUS
    <2>1. TypeOK
      <3>1. job \in [Contexts -> Seq(Jobs)] /\ act \in [Contexts -> Acts]  BY DEF Init, Acts
      <3>2. {taken, out} \subseteq [Regular -> Seq(Frame)]  BY DEF Init
      <3>3. ring \in Seq(Frame) /\ Len(ring) <= MaxArm9  BY TxEngineAssumption DEF Init
      <3>4. n7 \in 0 .. MaxArm7 /\ n9 \in 0 .. MaxArm9 /\ limit \in 0 .. Retries
        BY TxEngineAssumption DEF Init
      <3>5. mac \in [Buffers -> {None, Torn} \cup Frame]  BY DEF Init
      <3>6. {reply1, reply2} \subseteq Replies \cup {"none"}  BY DEF Init
      <3> QED BY <3>1, <3>2, <3>3, <3>4, <3>5, <3>6 DEF Init, TypeOK
    <2>2. NoneLost
      <3>1. \A k \in Regular : InMac(k) = <<>> /\ InQueue(k) = <<>>
        BY DEF Init, InMac, InQueue, Regular, None
      <3> QED BY <3>1 DEF Init, NoneLost
    <2>3. Alone /\ DoneFirst /\ Origin  BY TxEngineAssumption DEF Init, Alone, DoneFirst, Origin, Contexts
    <2>4. Decided  BY DEF Init, Decided, Sound, FromRing, Replies
    <2> QED BY <2>1, <2>2, <2>3, <2>4 DEF IInv, Init, Given
  <1>2. IInv /\ [Next]_vars => IInv'
    <2> SUFFICES ASSUME IInv, [Next]_vars  PROVE  IInv'
      OBVIOUS
    <2>1. CASE UNCHANGED vars
      <3>1. TypeOK' /\ Alone' /\ DoneFirst' /\ Origin'
        BY <2>1 DEF IInv, vars, hardware, history, TypeOK, Alone, DoneFirst, Origin
      <3>2. Decided' /\ NoneLost'  BY <2>1, LostUnchanged, SoundKept DEF IInv, vars, hardware, history
      <3> QED BY <2>1, <3>1, <3>2 DEF IInv, Given, vars, hardware
    <2>2. CASE Cpu  BY <2>2, BeginStep, DecideStep, FlushStep, ActStep DEF Cpu, Step
    <2>3. CASE Ends \/ CmdArrives \/ Receive  BY <2>3, MacStep
    <2>4. CASE \E k \in Kinds.host \cup Kinds.client : Arm9Adds(k)  BY <2>4, Arm9Step
    <2> QED BY <2>1, <2>2, <2>3, <2>4 DEF Next
  <1> QED BY <1>1, <1>2, PTL DEF Spec

-----------------------------------------------------------------------------
(* Theorems *)

(***************************************************************************)
(* Every variable keeps its type: the count of retries never goes below    *)
(* zero, the ring never holds more than the ARM9 has added, and only whole *)
(* frames are handed to LOC3 and recorded.                                 *)
(***************************************************************************)
THEOREM TypeCorrect == Spec => []TypeOK
  <1>1. IInv => TypeOK  BY DEF IInv
  <1>2. Spec => []IInv  BY Invariance
  <1> QED BY <1>1, <1>2, PTL

(***************************************************************************)
(* However the steps of the update, of the interrupt, of the MAC and of    *)
(* the ARM9 interleave, each regular frame that was accepted is in the     *)
(* one-frame queue, in the MAC or gone, once, and in its order.            *)
(***************************************************************************)
THEOREM NothingLost == Spec => []NoneLost
  <1>1. IInv => NoneLost  BY DEF IInv
  <1>2. Spec => []IInv  BY Invariance
  <1> QED BY <1>1, <1>2, PTL

\* What a step of the CPU writes to the MAC.
LEMMA Writes ==
    ASSUME [Next]_vars
    PROVE  \/ mac' = mac
           \/ \E c \in Contexts : Wifi_TxArm9QueueFlush(c) \/ Act(c)
  BY DEF Next, Cpu, Step, Ends, Loc3Ends, CmdEnds, CmdArrives, ReplyEnds, Receive, Arm9Adds, Decide,
         Wifi_NTR_Update, Wifi_Interrupt, vars

(***************************************************************************)
(* What the hardware is sending stays as it is, the regular frame and the  *)
(* reply, although replies are replaced and CMD frames come at any time:   *)
(* only the copy that was replacing that reply may end.                    *)
(***************************************************************************)
THEOREM SendsWhatWasWritten == Spec => Undisturbed
  <1> DEFINE A == /\ "LOC3" \in busy \cap busy' => mac'.tx = mac.tx
                  /\ replying /\ replying' => mac'[reply2] = mac[reply2] \/ Replacing
  <1>1. IInv /\ [Next]_vars => [A]_vars
    <2> SUFFICES ASSUME IInv, [Next]_vars  PROVE  A
      OBVIOUS
    <2>1. mac \in [Buffers -> {None, Torn} \cup Frame] /\ (replying => reply2 \in Replies)
      BY DEF IInv, TypeOK, Given
    <2>2. ASSUME NEW c \in Contexts, Wifi_TxArm9QueueFlush(c)  PROVE  A
      <3>1. Backbuffer \in Replies /\ Backbuffer # reply2  BY FrameTypes DEF IInv
      <3>2. mac' = mac \/ mac' = [mac EXCEPT ![Backbuffer] = Torn]  BY <2>2 DEF Wifi_TxArm9QueueFlush
      <3> QED BY <2>1, <3>1, <3>2 DEF Buffers, Replies
    <2>3. ASSUME NEW c \in Contexts, Act(c)  PROVE  A
      <3> DEFINE a == act[c]
      <3>1. Perform(a) /\ a \in Acts \ {"none", "arm9"} /\ Sound(a)
        BY <2>3 DEF Act, IInv, TypeOK, Decided
      <3>2. CASE a \in {"raw", "swap", "arm7", "data"}
        <4>1. "LOC3" \notin busy  BY <3>1, <3>2 DEF Sound
        <4>2. \E f : mac' = [mac EXCEPT !.tx = f]
          BY <3>1, <3>2 DEF Perform, Replies, Raw, Swap, Wifi_TxArm7QueueFlush, FlushByLoc3, Loc3
        <4> QED BY <2>1, <4>1, <4>2 DEF Buffers, Replies
      <3>3. CASE a = "cmd"
        <4>1. mac' = [mac EXCEPT !.cmd = First]  BY <3>1, <3>3 DEF Perform, Replies, FlushByCmd
        <4> QED BY <2>1, <4>1 DEF Buffers, Replies
      <3>4. CASE a \in Replies
        <4>1. mac' = [mac EXCEPT ![a] = First]  BY <3>1, <3>4 DEF Perform, FlushByReply, Replies
        <4>2. reply2 = a => Replacing  BY DEF Replacing
        <4> QED BY <2>1, <3>4, <4>1, <4>2 DEF Buffers, Replies
      <3>5. CASE a \in {"skip", "enqueue", "retry", "reset", "beacon"}
        BY <3>1, <3>5 DEF Perform, Replies, Enqueue, Retry, Reset, FlushBeacon
      <3> QED BY <3>1, <3>2, <3>3, <3>4, <3>5 DEF Acts, Replies
    <2>4. CASE mac' = mac  BY <2>4
    <2> QED BY <2>2, <2>3, <2>4, Writes
  <1>2. Spec => []IInv  BY Invariance
  <1> QED BY <1>1, <1>2, PTL DEF Spec, Undisturbed

(***************************************************************************)
(* No frame of the ARM9 is taken from the ring while one of the ARM7       *)
(* waits, although the decision to take it was made some steps before.     *)
(***************************************************************************)
THEOREM Arm7GoesFirst == Spec => Arm7First
  <1> DEFINE A == queue # None /\ queue' = queue => ring' = ring \/ Len(ring') > Len(ring)
  <1>1. IInv /\ [Next]_vars => [A]_vars
    <2> SUFFICES ASSUME IInv, [Next]_vars  PROVE  A
      OBVIOUS
    <2>1. ASSUME NEW c \in Contexts, Act(c)  PROVE  A
      <3> DEFINE a == act[c]
      <3>1. Perform(a) /\ a \in Acts \ {"none", "arm9"} /\ Sound(a)
        BY <2>1 DEF Act, IInv, TypeOK, Decided
      <3>2. CASE a \in FromRing  BY <3>1, <3>2 DEF Sound
      <3>3. CASE a \notin FromRing
        BY <3>1, <3>3
        DEF Perform, Raw, Swap, Enqueue, Wifi_TxArm7QueueFlush, Retry, Reset, FromRing, Replies, Acts
      <3> QED BY <3>2, <3>3
    <2>2. ASSUME NEW k \in Kinds.host \cup Kinds.client, Arm9Adds(k)  PROVE  A
      <3>1. ring \in Seq(Frame)  BY DEF IInv, TypeOK
      <3>2. \E f : ring' = Append(ring, f)  BY <2>2 DEF Arm9Adds
      <3> QED BY <3>1, <3>2
    <2>3. CASE ring' = ring  BY <2>3
    <2> QED
      BY <2>1, <2>2, <2>3
      DEF Next, Cpu, Step, Ends, Loc3Ends, CmdEnds, CmdArrives, ReplyEnds, Receive, Decide,
          Wifi_TxArm9QueueFlush, Wifi_NTR_Update, Wifi_Interrupt, vars
  <1>2. Spec => []IInv  BY Invariance
  <1> QED BY <1>1, <1>2, PTL DEF Spec, Arm7First

=============================================================================
