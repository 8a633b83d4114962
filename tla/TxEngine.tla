------------------------------ MODULE TxEngine ------------------------------
(***************************************************************************)
(* How the ARM7 of a DS gives frames to the MAC: its own queue of one      *)
(* frame, the frames that the ARM9 has left in the TX ring, and the        *)
(* buffers in MAC RAM they are copied to.  Regular frames go out by LOC3,  *)
(* the CMD frames of a multiplayer host by CMD; a client prepares a REPLY  *)
(* that the hardware sends by itself when a CMD comes.                     *)
(*                                                                         *)
(* Code runs in two contexts: Wifi_NTR_Update() and Wifi_Interrupt().  The *)
(* MAC works at the same time: it may end a transfer, or begin to send a   *)
(* reply, between any two steps of the code.  Both contexts are interrupt  *)
(* handlers of the ARM7 (vblank, WiFi), so neither preempts the other.     *)
(*                                                                         *)
(* Frames fit where they are copied to: what happens to one from the ring  *)
(* that doesn't is in module SharedRing, and no frame that the ARM7 builds *)
(* is near the 1024 bytes of its queue (the largest is a copy of the       *)
(* beacon), so Wifi_TxArm7QueueSetEnqueuedData() never refuses one.        *)
(***************************************************************************)
EXTENDS Integers, FiniteSets, Sequences

CONSTANTS Retries,     \* low byte of the value set in W_TX_RETRYLIMIT, 7 in the code
          MaxArm7,     \* bound: frames that the ARM7 wants to send
          MaxArm9      \* bound: frames that the ARM9 adds to the ring

ASSUME TxEngineAssumption ==
    {Retries, MaxArm7, MaxArm9} \subseteq Nat

VARIABLES
    role,             \* "host" or "client", doesn't change
    queue,            \* wifi_tx_queue and wifi_tx_queue_len
    ring,             \* frames of the ARM9, from txbufRead on
    mac,              \* MAC RAM: what is in each buffer
    busy,             \* W_TXBUSY
    status,           \* HDR_TX_STATUS of the CMD buffer: 0, 1 (answered) or 5
    limit,            \* W_TX_RETRYLIMIT & 0xFF
    reply1, reply2,   \* W_TXBUF_REPLY1 and W_TXBUF_REPLY2: an enabled buffer, or none
    replying,         \* the MAC is sending the reply of W_TXBUF_REPLY2
    wif,              \* W_IF
    job, act,         \* each context: what is left to do, and what it has decided
    n7, n9,           \* frames that the ARM7 and the ARM9 have built
    taken, out        \* history of LOC3, by kind: frames accepted, frames that have gone out

hardware == <<busy, status, reply1, reply2, replying, wif>>
history  == <<n7, n9, taken, out>>
vars == <<role, queue, ring, mac, limit, hardware, job, act, history>>

Contexts == {"update", "irq"}
Kinds    == [host |-> {"data", "cmd", "beacon"}, client |-> {"data", "reply"}]
Buffers  == {"tx", "cmd", "rx1", "rx2"}
Replies  == {"rx1", "rx2"}
None     == [kind |-> "none", id |-> 0]
Torn     == [kind |-> "torn", id |-> 0]

\* Frames that go out by LOC3: those of the ARM7 and the regular ones of the ARM9.
Regular == {"arm7", "data"}

Jobs == {"add", "flush", "CMD_DONE", "RX", "TX"}

\* Steps that a context has decided to take; "rx1" and "rx2" are copies of a reply.
Acts == {"none", "skip", "raw", "swap", "enqueue", "arm7", "arm9", "retry", "reset",
         "data", "cmd", "beacon", "rx1", "rx2"}

Frame == [kind : {"arm7", "data", "cmd", "reply", "beacon"}, id : 1 .. MaxArm7 + MaxArm9]

TypeOK ==
    /\ role \in DOMAIN Kinds
    /\ queue \in {None} \cup Frame
    /\ ring \in Seq(Frame) /\ Len(ring) <= MaxArm9
    /\ mac \in [Buffers -> {None, Torn} \cup Frame]
    /\ busy \subseteq {"LOC3", "CMD"}
    /\ status \in {0, 1, 5} /\ limit \in 0 .. Retries
    /\ {reply1, reply2} \subseteq Replies \cup {"none"}
    /\ replying \in BOOLEAN
    /\ wif \subseteq {"CMD_DONE", "RX", "TX"}
    /\ job \in [Contexts -> Seq(Jobs)] /\ act \in [Contexts -> Acts]
    /\ n7 \in 0 .. MaxArm7 /\ n9 \in 0 .. MaxArm9
    /\ {taken, out} \subseteq [Regular -> Seq(Frame)]

Init ==
    /\ role \in DOMAIN Kinds
    /\ queue = None /\ ring = <<>> /\ mac = [b \in Buffers |-> None]
    /\ busy = {} /\ status = 0 /\ limit = Retries
    /\ reply1 = "none" /\ reply2 = "none" /\ replying = FALSE
    /\ wif = {}
    /\ job = [c \in Contexts |-> <<>>] /\ act = [c \in Contexts |-> "none"]
    /\ n7 = 0 /\ n9 = 0
    /\ taken = [k \in Regular |-> <<>>] /\ out = [k \in Regular |-> <<>>]

\* A frame is added to a history.
Recorded(h, f) == IF f.kind \in Regular THEN [h EXCEPT ![f.kind] = Append(@, f)] ELSE h

-----------------------------------------------------------------------------
(* The MAC *)

Loc3Ends ==
    /\ "LOC3" \in busy
    /\ busy' = busy \ {"LOC3"}
    /\ wif' = wif \cup {"TX"}
    /\ out' = Recorded(out, mac.tx)
    /\ UNCHANGED <<role, queue, ring, mac, limit, status, reply1, reply2, replying, job, act,
                   n7, n9, taken>>

\* The exchange ends with the ACK of the host, also if some client didn't reply.
CmdEnds(s) ==
    /\ "CMD" \in busy
    /\ busy' = busy \ {"CMD"}
    /\ status' = s
    /\ wif' = wif \cup {"CMD_DONE", "TX"}
    /\ UNCHANGED <<role, queue, ring, mac, limit, reply1, reply2, replying, job, act, history>>

\* A CMD frame comes: W_TXBUF_REPLY1 moves to W_TXBUF_REPLY2, and is sent.
CmdArrives ==
    /\ role = "client" /\ ~replying
    /\ reply2' = reply1 /\ reply1' = "none"
    /\ replying' = (reply1 # "none")
    /\ wif' = wif \cup {"RX"}
    /\ UNCHANGED <<role, queue, ring, mac, limit, busy, status, job, act, history>>

ReplyEnds ==
    /\ replying /\ replying' = FALSE
    /\ UNCHANGED <<role, queue, ring, mac, limit, busy, status, reply1, reply2, wif, job, act, history>>

Receive ==
    /\ "RX" \notin wif /\ n7 < MaxArm7
    /\ wif' = wif \cup {"RX"}
    /\ UNCHANGED <<role, queue, ring, mac, limit, busy, status, reply1, reply2, replying, job, act, history>>

-----------------------------------------------------------------------------
(* The ARM9 *)

Arm9Adds(k) ==
    /\ n9 < MaxArm9 /\ n9' = n9 + 1
    /\ k \in Kinds[role]
    /\ ring' = Append(ring, [kind |-> k, id |-> n9'])
    /\ UNCHANGED <<role, queue, mac, limit, hardware, job, act, n7, taken, out>>

-----------------------------------------------------------------------------
(* Decisions: what the code reads of the hardware before it acts *)

\* Mutant: the frame is written to the MAC even if the last one is still there.
MutantAddPlan == IF queue = None THEN "raw" ELSE "swap"

Wifi_TxArm7QueueAdd ==
    CASE "LOC3" \notin busy /\ queue = None -> "raw"
      [] "LOC3" \notin busy /\ queue # None -> "swap"
      [] "LOC3" \in busy /\ queue = None    -> "enqueue"
      [] "LOC3" \in busy /\ queue # None    -> "skip"       \* dropped

Wifi_TxAllQueueFlush ==
    CASE busy # {}                  -> "skip"
      [] busy = {} /\ queue # None  -> "arm7"
      [] busy = {} /\ queue = None  -> "arm9"

\* Mutant: nobody looks at how many retries are left.
MutantAlwaysRetry == IF status = 5 THEN "retry" ELSE "skip"

\* Only a CMD frame is sent again; the CMD buffer never holds another kind.
Wifi_Intr_MultiplayCmdDone ==
    LET failed == status = 5 /\ limit > 0
    IN CASE failed /\ mac.cmd.kind = "cmd"                     -> "retry"
         [] failed /\ mac.cmd.kind # "cmd"                     -> "reset"
         [] ~failed /\ ("LOC3" \in busy \/ queue # None)       -> "skip"
         [] ~failed /\ "LOC3" \notin busy /\ queue = None      -> "arm9"

-----------------------------------------------------------------------------
(* What the code then does *)

\* Wifi_TxRaw() and Wifi_TxArm9QueueFlushByLoc3().
Loc3(f) ==
    /\ mac' = [mac EXCEPT !.tx = f]
    /\ limit' = Retries
    /\ busy' = busy \cup {"LOC3"}

\* A frame of the ARM7 is accepted.
Built == [kind |-> "arm7", id |-> n7 + 1]
Accept == n7' = n7 + 1 /\ taken' = Recorded(taken, Built)

Raw     == Loc3(Built) /\ Accept /\ UNCHANGED <<queue, ring, status, reply1>>
Swap    == Loc3(queue) /\ queue' = Built /\ Accept /\ UNCHANGED <<ring, status, reply1>>
Enqueue == queue' = Built /\ Accept /\ UNCHANGED <<ring, mac, limit, busy, status, reply1>>

Wifi_TxArm7QueueFlush == Loc3(queue) /\ queue' = None /\ UNCHANGED <<ring, status, reply1, n7, taken>>

\* Mutant: the count of retries isn't written back.
MutantRetry == /\ status' = 0 /\ busy' = busy \cup {"CMD"}
               /\ UNCHANGED <<queue, ring, mac, limit, reply1, n7, taken>>

Retry == /\ limit' = limit - 1 /\ status' = 0
         /\ busy' = busy \cup {"CMD"}
         /\ UNCHANGED <<queue, ring, mac, reply1, n7, taken>>

\* The transfer is given up.
Reset == busy' = busy \ {"CMD"} /\ UNCHANGED <<queue, ring, mac, limit, status, reply1, n7, taken>>

\* Wifi_TxArm9QueueCopyFirstData(): what the frame in the ring is now, not when its
\* flags were read.
First == IF ring = <<>> THEN Torn ELSE Head(ring)
Pop   == ring' = IF ring = <<>> THEN ring ELSE Tail(ring)

FlushByLoc3 == Pop /\ Loc3(First) /\ taken' = Recorded(taken, First) /\ UNCHANGED <<queue, status, reply1, n7>>

\* A CMD frame is built with status 0.
FlushByCmd == /\ Pop
              /\ mac' = [mac EXCEPT !.cmd = First] /\ status' = 0
              /\ limit' = Retries /\ busy' = busy \cup {"CMD"}
              /\ UNCHANGED <<queue, reply1, n7, taken>>

\* The beacon has a buffer and a schedule of its own.
FlushBeacon == Pop /\ UNCHANGED <<queue, mac, limit, busy, status, reply1, n7, taken>>

\* The end of the copy of a reply.
FlushByReply(d) == /\ Pop
                   /\ mac' = [mac EXCEPT ![d] = First]
                   /\ limit' = Retries
                   /\ reply1' = d
                   /\ UNCHANGED <<queue, busy, status, n7, taken>>

Perform(a) ==
    CASE a = "skip"           -> UNCHANGED <<queue, ring, mac, limit, busy, status, reply1, n7, taken>>
      [] a = "raw"            -> Raw
      [] a = "swap"           -> Swap
      [] a = "enqueue"        -> Enqueue
      [] a = "arm7"           -> Wifi_TxArm7QueueFlush
      [] a = "retry"          -> Retry
      [] a = "reset"          -> Reset
      [] a = "data"           -> FlushByLoc3
      [] a = "cmd"            -> FlushByCmd
      [] a = "beacon"         -> FlushBeacon
      [] a \in Replies        -> FlushByReply(a)

-----------------------------------------------------------------------------
(* The two contexts *)

\* It also handles frames that have been received, and may have one of its own to send.
Wifi_NTR_Update ==
    /\ job.update = <<>> /\ job.irq = <<>>
    /\ job' = [job EXCEPT !.update = <<"add", "flush">>]
    /\ UNCHANGED <<role, queue, ring, mac, limit, hardware, act, history>>

Pending(i) == IF i \in wif THEN <<i>> ELSE <<>>

\* Every pass of the loop of Wifi_Interrupt() reads W_IF once.
Wifi_Interrupt ==
    /\ job.update = <<>> /\ job.irq = <<>> /\ wif # {}
    /\ job' = [job EXCEPT !.irq = Pending("CMD_DONE") \o Pending("RX") \o Pending("TX")]
    /\ UNCHANGED <<role, queue, ring, mac, limit, hardware, act, history>>

Running(c) == job[c] # <<>>

Decision(c, some) ==
    CASE Head(job[c]) \in {"add", "RX"}   -> IF some THEN Wifi_TxArm7QueueAdd ELSE "skip"
      [] Head(job[c]) \in {"flush", "TX"} -> Wifi_TxAllQueueFlush
      [] Head(job[c]) = "CMD_DONE"        -> Wifi_Intr_MultiplayCmdDone

\* Interrupts other than CMD_DONE are acknowledged before they are handled.
Decide(c, some) ==
    /\ Running(c) /\ act[c] = "none"
    /\ some => n7 < MaxArm7 /\ Head(job[c]) \in {"add", "RX"}
    /\ act' = [act EXCEPT ![c] = Decision(c, some)]
    /\ wif' = IF Head(job[c]) \in {"RX", "TX"} THEN wif \ {Head(job[c])} ELSE wif
    /\ UNCHANGED <<role, queue, ring, mac, limit, busy, status, reply1, reply2, replying, job, history>>

\* Mutant: the buffer that was used last.
MutantFrontbuffer == IF reply2 = "rx2" THEN "rx2" ELSE "rx1"

\* The buffer that W_TXBUF_REPLY2 isn't using.
Backbuffer == IF reply2 = "rx1" THEN "rx2" ELSE "rx1"

\* What the flags of the first frame of the ring say.  The copy of a reply takes time.
Wifi_TxArm9QueueFlush(c) ==
    /\ Running(c) /\ act[c] = "arm9"
    /\ IF First.kind = "reply"
       THEN /\ act' = [act EXCEPT ![c] = Backbuffer]
            /\ mac' = [mac EXCEPT ![Backbuffer] = Torn]
       ELSE /\ act' = [act EXCEPT ![c] = IF ring = <<>> THEN "skip" ELSE First.kind]
            /\ UNCHANGED mac
    /\ UNCHANGED <<role, queue, ring, limit, hardware, job, history>>

Act(c) ==
    /\ Running(c) /\ act[c] \notin {"none", "arm9"}
    /\ Perform(act[c])
    /\ job' = [job EXCEPT ![c] = Tail(@)] /\ act' = [act EXCEPT ![c] = "none"]
    /\ wif' = IF Head(job[c]) = "CMD_DONE" THEN wif \ {"CMD_DONE"} ELSE wif
    /\ UNCHANGED <<role, reply2, replying, n9, out>>

Step(c) == (\E some \in BOOLEAN : Decide(c, some)) \/ Wifi_TxArm9QueueFlush(c) \/ Act(c)

Cpu == Wifi_NTR_Update \/ Wifi_Interrupt \/ \E c \in Contexts : Step(c)

Ends == Loc3Ends \/ (\E s \in {1, 5} : CmdEnds(s)) \/ ReplyEnds

Next == Cpu \/ Ends \/ CmdArrives \/ Receive \/ \E k \in Kinds.host \cup Kinds.client : Arm9Adds(k)

Spec == Init /\ [][Next]_vars

\* Code goes on and transfers end.  The vblank interrupt stays pending until its
\* handler has run, however many of the WiFi come before it.
FairSpec ==
    /\ Spec
    /\ WF_vars(Cpu) /\ SF_vars(Wifi_NTR_Update)
    /\ WF_vars(Loc3Ends) /\ WF_vars(\E s \in {1, 5} : CmdEnds(s))

-----------------------------------------------------------------------------

(***************************************************************************)
(* Every regular frame that the ARM7 has accepted or taken from the ring   *)
(* goes out once, in the order of its kind: it has gone, it is in the MAC, *)
(* or it is in the queue of one frame.  None is written over another.      *)
(***************************************************************************)
InMac(k)   == IF "LOC3" \in busy /\ mac.tx.kind = k THEN <<mac.tx>> ELSE <<>>
InQueue(k) == IF queue.kind = k THEN <<queue>> ELSE <<>>
NoneLost   == \A k \in Regular : taken[k] = out[k] \o InMac(k) \o InQueue(k)

(***************************************************************************)
(* What the hardware is sending doesn't change under it: not the regular   *)
(* frame, nor the reply that it has taken from W_TXBUF_REPLY1.  Only a     *)
(* copy that was under way when the CMD frame came may still end: the new  *)
(* reply that replaces the one that was waiting.  No copy begins then.     *)
(***************************************************************************)
Replacing   == \E c \in Contexts : act[c] = reply2
Undisturbed == [][/\ "LOC3" \in busy \cap busy' => mac'.tx = mac.tx
                  /\ replying /\ replying' => mac'[reply2] = mac[reply2] \/ Replacing]_vars

(***************************************************************************)
(* The hardware never sends a reply that is half written.  This doesn't    *)
(* hold: nothing waits for the reply that is replaced, and the CMD frame   *)
(* may come while the new one is copied over it.                           *)
(***************************************************************************)
ReplyIsWhole == replying => mac[reply2] # Torn

(***************************************************************************)
(* A frame of the ARM7 never waits for one of the ARM9 that hasn't been    *)
(* started: those of the ARM7 go first, also after a CMD frame.            *)
(***************************************************************************)
Arm7First == [][queue # None /\ queue' = queue => ring' = ring \/ Len(ring') > Len(ring)]_vars

(***************************************************************************)
(* Everything that was queued goes out in the end, although CMD frames may *)
(* fail for ever, CMD_DONE is acknowledged after it has been handled and   *)
(* may be lost, and only one frame is started at each occasion.            *)
(***************************************************************************)
Drains == <>[](ring = <<>> /\ queue = None /\ "LOC3" \notin busy)

(***************************************************************************)
(* The CMD buffer isn't written while the hardware is sending from it: a   *)
(* CMD_DONE interrupt means that the exchange is over.  This doesn't hold: *)
(* the interrupt may be handled when the next exchange has begun.          *)
(***************************************************************************)
CmdUndisturbed == []["CMD" \in busy \cap busy' => mac'.cmd = mac.cmd]_vars

=============================================================================
