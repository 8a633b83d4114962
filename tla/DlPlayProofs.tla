---------------------------- MODULE DlPlayProofs ----------------------------
(***************************************************************************)
(* Proofs about a Download Play host, for any number of clients, pieces of *)
(* a request and places in the TX ring, and any value of the timeouts.     *)
(*                                                                         *)
(* What the host believes and what is true of a console meet in Promised:  *)
(* the host takes the console for one that holds the program, in the stage *)
(* of its client, in a decision that hasn't been carried out yet, or in a  *)
(* frame that waits in the ring.  A promise is only ever made on a request *)
(* to stop, which only a console with every block sends.  A console that   *)
(* inherits one with its AID, or from the session before, is an heir, and  *)
(* the theorems are about every console that isn't.                        *)
(***************************************************************************)
EXTENDS DlPlay, TLAPS

Client  == [stage : Stages, wait : Nat, idle : Nat, pieces : SUBSET Pieces,
            station : BOOLEAN, accepted : Nat, boot : BOOLEAN]
Console == [kind : AllKinds, at : ConsoleStates, piece : Pieces, whole : BOOLEAN,
            heir : BOOLEAN]
Frame   == [op : Ops, dest : SUBSET AID]

Typed == /\ client \in [AID -> Client]
         /\ seat \in [AID -> Console]
         /\ ring \in Seq(Frame)

\* Decisions live from the update, or the call, that takes them to the step that
\* carries them out.
DecidedInSend == pc \in {"send", "boot"} \/ verdict = Nothing

\* A transfer is only decided on while the host isn't gathering.
DecidedOpen == \A a \in AID : verdict[a] = "to_send" => ~gather

GInv == Typed /\ DecidedInSend /\ DecidedOpen

\* A decision is about a client that is there.
DecidedPresent == \A a \in AID : verdict[a] # "none" => client[a].stage # "NONE"

Delivered == {"SEND_COMPLETE", "BOOT_REQUEST", "SESSION_END"}
Parting   == {"boot", "end", "to_end", "to_boot"}

BootFor(a, f) == f.op = "BOOTREQ" /\ a \in f.dest
BootWaits(a)  == \E i \in 1 .. Len(ring) : BootFor(a, ring[i])

Promised(a) == client[a].stage \in Delivered \/ verdict[a] \in Parting \/ BootWaits(a)

\* Every block arrives before a console says that it has loaded the program.
Straight(s) == /\ s.at \in {"loaded", "told", "booted"} => s.whole
               /\ s.whole => s.at \in {"loaded", "told", "booted", "off"}

Honest(s) == s.heir \/ Straight(s)

Kept(s) == s.at = "away" \/ s.whole \/ s.heir

PromiseKept == \A a \in AID : Promised(a) => Kept(seat[a])

IInv == GInv /\ DecidedPresent /\ PromiseKept /\ (\A a \in AID : Honest(seat[a]))

-----------------------------------------------------------------------------
(* The operators *)

LEMMA Bounds ==
    /\ NumPieces \in Nat \ {0} /\ MaxClients \in Nat \ {0} /\ RingSize \in Nat \ {0}
    /\ Kinds \subseteq AllKinds
  BY DlPlayAssumption

LEMMA Constants == Forgotten \in Client /\ Empty \in Console /\ Honest(Empty)
  BY Bounds DEF Forgotten, Client, Stages, Empty, Console, AllKinds, ConsoleStates, Pieces, Honest, Straight

LEMMA Staged ==
    ASSUME NEW c \in Client, NEW s \in Stages
    PROVE  /\ SetStage(c, s) \in Client /\ SetStage(c, s).stage = s
           /\ SetStage(c, s).accepted = c.accepted
  BY DEF SetStage, Client

\* What a reply can make of a client.
LEMMA Replied ==
    ASSUME NEW c \in Client, NEW s \in Console, NEW luck \in BOOLEAN,
           NEW d, d = Wifi_DlPlayFromClientHandler(c, Say(s, luck))
    PROVE  /\ d \in Client
           /\ d.stage \in Delivered => c.stage \in Delivered \/ s.at = "loaded"
           /\ d.stage = "SEND_PROCEED" => c.stage = "SEND_PROCEED" \/ ~gather
           /\ c.stage # "NONE" => d.stage # "NONE"
  <1> DEFINE e == [c EXCEPT !.idle = 0]
             r == Say(s, luck)
  <1>1. e \in Client /\ e.stage = c.stage  BY DEF Client
  <1>2. CASE s.kind = "app"
    <2>0. r.op = "APP"  BY <1>2 DEF Say
    <2>1. d = AppReply(e)  BY <2>0 DEF Wifi_DlPlayFromClientHandler
    <2>2. d \in Client /\ d.stage = "APP"  BY <1>1, <2>1, Staged DEF AppReply, Stages
    <2> QED BY <2>2 DEF Delivered
  <1>3. CASE s.kind # "app" /\ s.at = "asking"
    <2>1. r.op = "FILEREQ" /\ r.piece = s.piece /\ r.station = (s.kind = "station")
      BY <1>3 DEF Say
    <2>2. d = FileRequest(e, r)  BY <2>1 DEF Wifi_DlPlayFromClientHandler
    <2>3. s.piece \in Pieces  BY DEF Console
    <2> DEFINE p == e.pieces \cup {r.piece}
               g == [e EXCEPT !.pieces = p, !.station = IF e.pieces = Pieces THEN @ ELSE r.station]
               h == [e EXCEPT !.pieces = p]
    <2>4. g \in Client /\ g.stage = c.stage /\ h \in Client /\ h.stage = c.stage
      BY <1>1, <2>1, <2>3 DEF Client
    <2>5. CASE p # Pieces
      <3>1. d = h  BY <2>2, <2>5 DEF FileRequest
      <3> QED BY <2>4, <3>1
    <2>6. CASE p = Pieces
      <3>1. d = IF e.stage = "CONNECTED" THEN SetStage(g, "REQ_ACCEPTED") ELSE g
        BY <2>2, <2>6 DEF FileRequest
      <3>2. SetStage(g, "REQ_ACCEPTED") \in Client /\ SetStage(g, "REQ_ACCEPTED").stage = "REQ_ACCEPTED"
        BY <2>4, Staged DEF Stages
      <3> HIDE DEF g
      <3> QED BY <2>4, <3>1, <3>2 DEF Delivered
    <2> QED BY <2>5, <2>6
  <1>4. ASSUME NEW x \in Client, x.stage = c.stage
        PROVE  /\ Release(x) \in Client
               /\ Release(x).stage = c.stage \/ (Release(x).stage = "SEND_PROCEED" /\ ~gather)
    BY <1>4, Staged DEF Release, Stages
  <1>5. CASE s.kind # "app" /\ s.at = "accepting"
    <2>1. r.op = "ACCEPT_FILEINFO" \/ (r.op = "STATION" /\ r.new)  BY <1>5 DEF Say
    <2>2. CASE r.op = "ACCEPT_FILEINFO"
      <3>1. d = AcceptFileInfo(e)  BY <2>2 DEF Wifi_DlPlayFromClientHandler
      <3>2. /\ SetStage(e, "STATION") \in Client /\ SetStage(e, "STATION").stage = "STATION"
            /\ SetStage(e, "WAIT_TO_SEND") \in Client
            /\ SetStage(e, "WAIT_TO_SEND").stage = "WAIT_TO_SEND"
        BY <1>1, Staged DEF Stages
      <3>3. d \in {SetStage(e, "STATION"), SetStage(e, "WAIT_TO_SEND"), e, Release(e)}
        BY <3>1 DEF AcceptFileInfo
      <3> HIDE DEF e
      <3> QED BY <1>1, <1>4, <3>2, <3>3 DEF Delivered
    <2>3. CASE r.op = "STATION" /\ r.new
      <3>1. d \in {e, [e EXCEPT !.wait = 0]}
        BY <2>3 DEF Wifi_DlPlayFromClientHandler, StationReply
      <3>2. [e EXCEPT !.wait = 0] \in Client /\ [e EXCEPT !.wait = 0].stage = c.stage
        BY <1>1 DEF Client
      <3> QED BY <1>1, <3>1, <3>2
    <2> QED BY <2>1, <2>2, <2>3
  <1>6. CASE s.kind # "app" /\ s.at = "loading"
    <2>1. r.op = "CONTINUE"  BY <1>6 DEF Say
    <2>2. d = Continue(e, r)  BY <2>1 DEF Wifi_DlPlayFromClientHandler
    <2>3. PICK x : x = IF r.more THEN [e EXCEPT !.wait = 0] ELSE e  OBVIOUS
    <2>4. x \in Client /\ x.stage = c.stage  BY <1>1, <2>3 DEF Client
    <2>5. d = Release(x)  BY <2>2, <2>3 DEF Continue
    <2> QED BY <1>4, <2>4, <2>5 DEF Delivered
  <1>7. CASE s.kind # "app" /\ s.at = "loaded"
    <2>1. r.op = "STOPREQ"  BY <1>7 DEF Say
    <2>2. d = StopRequest(e)  BY <2>1 DEF Wifi_DlPlayFromClientHandler
    <2>3. d \in {SetStage(e, "SEND_COMPLETE"), SetStage(e, "BOOT_REQUEST"), e}
      BY <2>2 DEF StopRequest
    <2>4. /\ SetStage(e, "SEND_COMPLETE") \in Client
          /\ SetStage(e, "SEND_COMPLETE").stage = "SEND_COMPLETE"
          /\ SetStage(e, "BOOT_REQUEST") \in Client
          /\ SetStage(e, "BOOT_REQUEST").stage = "BOOT_REQUEST"
      BY <1>1, Staged DEF Stages
    <2> HIDE DEF e
    <2> QED BY <1>1, <1>7, <2>3, <2>4
  <1>8. CASE s.kind # "app" /\ s.at = "told"
    <2>1. r.op = "BOOTREQ_ACCEPTED"  BY <1>8 DEF Say
    <2>2. d \in {e, [e EXCEPT !.accepted = 1]}
      BY <2>1 DEF Wifi_DlPlayFromClientHandler, BootAccepted
    <2>3. [e EXCEPT !.accepted = 1] \in Client /\ [e EXCEPT !.accepted = 1].stage = c.stage
      BY <1>1 DEF Client
    <2> QED BY <1>1, <2>2, <2>3
  <1>9. CASE s.kind # "app" /\ s.at \notin {"asking", "accepting", "loading", "loaded", "told"}
    <2>1. r.op = "DUMMY"  BY <1>9 DEF Say
    <2>2. d = e  BY <2>1 DEF Wifi_DlPlayFromClientHandler
    <2> QED BY <1>1, <2>2
  <1> QED BY <1>2, <1>3, <1>5, <1>6, <1>7, <1>8, <1>9

\* What a frame can make of a console.
LEMMA Hears ==
    ASSUME NEW s \in Console, NEW a \in AID, NEW f \in Frame, NEW luck \in BOOLEAN,
           NEW t, t = Hear(s, a, f, luck)
    PROVE  /\ t \in Console /\ t.heir = s.heir
           /\ Straight(s) /\ (BootFor(a, f) => s.whole) => Straight(t) /\ (s.whole => t.whole)
  <1>1. /\ Repeat(s) \in Console /\ (Straight(s) => Straight(Repeat(s)))
        /\ Repeat(s).whole = s.whole /\ Repeat(s).heir = s.heir
    <2>1. (s.piece + 1) % NumPieces \in Pieces  BY Bounds DEF Console, Pieces
    <2> QED BY <2>1 DEF Repeat, Console, Straight
  <1>2. CASE s.kind = "app" \/ a \notin f.dest  BY <1>1, <1>2 DEF Hear
  <1>3. CASE ~(s.kind = "app" \/ a \notin f.dest)
    <2>1. CASE f.op = "SENDSTART" /\ s.at = "idle"
      <3>1. t = [s EXCEPT !.at = "asking", !.piece = 1 % NumPieces]  BY <1>3, <2>1 DEF Hear
      <3>2. 1 % NumPieces \in Pieces  BY Bounds DEF Pieces
      <3>3. t \in Console /\ t.at = "asking" /\ t.whole = s.whole /\ t.heir = s.heir
        BY <3>1, <3>2 DEF Console, ConsoleStates
      <3> QED BY <2>1, <3>3 DEF Straight
    <2>2. CASE f.op = "FILEINFO" /\ s.at \in {"idle", "asking"}
      <3>1. t = [s EXCEPT !.at = "accepting", !.piece = 0]  BY <1>3, <2>2 DEF Hear
      <3>2. 0 \in Pieces  BY Bounds DEF Pieces
      <3>3. t \in Console /\ t.at = "accepting" /\ t.whole = s.whole /\ t.heir = s.heir
        BY <3>1, <3>2 DEF Console, ConsoleStates
      <3> QED BY <2>2, <3>3 DEF Straight
    <2>3. CASE f.op = "DATA" /\ s.kind = "program" /\ s.at \in {"accepting", "loading"}
      <3>1. t = [s EXCEPT !.whole = luck, !.at = IF luck THEN "loaded" ELSE "loading"]
        BY <1>3, <2>3 DEF Hear, Take
      <3>2. t \in Console /\ t.at = (IF luck THEN "loaded" ELSE "loading") /\ t.whole = luck /\ t.heir = s.heir
        BY <3>1 DEF Console, ConsoleStates
      <3> QED BY <2>3, <3>2 DEF Straight
    <2>4. CASE f.op = "BOOTREQ"
      <3>1. t = [s EXCEPT !.at = IF s.at = "told" THEN "booted" ELSE "told"]
        BY <1>3, <2>4 DEF Hear
      <3>2. t \in Console /\ t.at \in {"told", "booted"} /\ t.whole = s.whole /\ t.heir = s.heir
        BY <3>1 DEF Console, ConsoleStates
      <3>3. BootFor(a, f)  BY <1>3, <2>4 DEF BootFor
      <3> QED BY <3>2, <3>3 DEF Straight
    <2>5. CASE /\ ~(f.op = "SENDSTART" /\ s.at = "idle")
               /\ ~(f.op = "FILEINFO" /\ s.at \in {"idle", "asking"})
               /\ ~(f.op = "DATA" /\ s.kind = "program" /\ s.at \in {"accepting", "loading"})
               /\ f.op # "BOOTREQ"
      <3>1. t = Repeat(s)  BY <1>3, <2>5 DEF Hear
      <3> QED BY <1>1, <3>1
    <2> QED BY <2>1, <2>2, <2>3, <2>4, <2>5
  <1> QED BY <1>2, <1>3

-----------------------------------------------------------------------------
(* The steps: what each of them does to clients, decisions, ring and consoles *)

LEMMA Counting ==
    ASSUME NEW c \in Client
    PROVE  Counted(c) \in Client /\ Counted(c).stage = c.stage
  <1>1. ASSUME NEW n \in Nat, NEW cap  PROVE Count(n, cap) \in Nat  BY DEF Count
  <1>2. c.wait \in Nat /\ c.idle \in Nat  BY DEF Client
  <1>3. Count(c.wait, WaitCap) \in Nat /\ Count(c.idle, SilentFrames + 1) \in Nat  BY <1>1, <1>2
  <1>4. PICK w \in Nat, n \in Nat : Counted(c) = [c EXCEPT !.wait = w, !.idle = n]
    <2>1. CASE c.stage = "SEND_PROCEED"  BY <1>2, <1>3, <2>1 DEF Counted
    <2>2. CASE c.stage # "SEND_PROCEED"  BY <1>2, <1>3, <2>2 DEF Counted
    <2> QED BY <2>1, <2>2
  <1> QED BY <1>4 DEF Client

LEMMA Deciding ==
    ASSUME NEW c
    PROVE  /\ Verdict(c) \in Parting => c.stage \in Delivered
           /\ Verdict(c) = "to_send" => ~gather
  BY DEF Verdict, Parting, Delivered

\* One pass over the clients, up to its decisions.
LEMMA UpdateStep ==
    ASSUME Typed, UpdateClients
    PROVE  /\ client' \in [AID -> Client] /\ pc' = "send"
           /\ \A a \in AID : /\ client'[a].stage \in {"CONNECTED", "NONE", client[a].stage}
                             /\ verdict'[a] \in Parting => client'[a].stage \in Delivered
                             /\ verdict'[a] = "to_send" => ~gather
                             /\ verdict'[a] # "none" => client'[a].stage # "NONE"
  <1> DEFINE c == [a \in AID |-> IF Noticed[a].stage = "NONE" THEN Noticed[a] ELSE Counted(Noticed[a])]
             hopeless == {a \in Present(c) : Hopeless(c[a])}
             v == [a \in AID |-> IF a \in Present(c) \ hopeless THEN Verdict(c[a]) ELSE "none"]
  <1>1. /\ client' = [a \in AID |-> IF v[a] = "boot" /\ c[a].accepted > 0
                                    THEN [c[a] EXCEPT !.accepted = @ + 1] ELSE c[a]]
        /\ verdict' = v /\ pc' = "send"
    BY DEF UpdateClients
  <1>2. ASSUME NEW a \in AID
        PROVE  Noticed[a] \in Client /\ Noticed[a].stage \in {"CONNECTED", "NONE", client[a].stage}
    <2>1. client[a] \in Client  BY DEF Typed
    <2>2. SetStage(client[a], "CONNECTED") \in Client
          /\ SetStage(client[a], "CONNECTED").stage = "CONNECTED"
      BY <2>1, Staged DEF Stages
    <2>3. Forgotten.stage = "NONE"  BY DEF Forgotten
    <2>4. Noticed[a] \in {SetStage(client[a], "CONNECTED"), Forgotten, client[a]}  BY DEF Noticed
    <2> QED BY <2>1, <2>2, <2>3, <2>4, Constants
  <1>3. ASSUME NEW a \in AID
        PROVE  c[a] \in Client /\ c[a].stage \in {"CONNECTED", "NONE", client[a].stage}
    BY <1>2, Counting
  <1> HIDE DEF c
  <1>4. ASSUME NEW a \in AID
        PROVE  client'[a] \in Client /\ client'[a].stage = c[a].stage
    <2>1. c[a] \in Client  BY <1>3
    <2>2. client'[a] \in {c[a], [c[a] EXCEPT !.accepted = @ + 1]}  BY <1>1
    <2> QED BY <2>1, <2>2 DEF Client
  <1>5. client' \in [AID -> Client]
    <2>1. client' = [a \in AID |-> client'[a]]  BY <1>1
    <2> QED BY <1>4, <2>1
  <1>6. ASSUME NEW a \in AID
        PROVE  /\ verdict'[a] \in Parting => client'[a].stage \in Delivered
               /\ verdict'[a] = "to_send" => ~gather
               /\ verdict'[a] # "none" => client'[a].stage # "NONE"
    <2>1. CASE a \in Present(c) \ hopeless
      <3>1. verdict'[a] = Verdict(c[a]) /\ c[a].stage # "NONE"  BY <1>1, <2>1 DEF Present
      <3> QED BY <1>4, <3>1, Deciding
    <2>2. CASE a \notin Present(c) \ hopeless
      <3>1. verdict'[a] = "none"  BY <1>1, <2>2
      <3> QED BY <3>1 DEF Parting
    <2> QED BY <2>1, <2>2
  <1> QED BY <1>1, <1>3, <1>4, <1>5, <1>6

LEMMA Sent ==
    ASSUME Typed, NEW op \in Ops, NEW to, Send(op, to)
    PROVE  /\ ring' \in Seq(Frame)
           /\ \A a \in AID : BootWaits(a)' => BootWaits(a) \/ (op = "BOOTREQ" /\ a \in to)
  <1> DEFINE f == [op |-> op, dest |-> to \cap Associated]
  <1>1. f \in Frame /\ ring \in Seq(Frame)  BY DEF Frame, Associated, Typed
  <1>2. CASE ring' = ring  BY <1>1, <1>2 DEF BootWaits, BootFor
  <1>3. CASE ring' = Append(ring, f)
    <2>1. /\ ring' \in Seq(Frame) /\ Len(ring') = Len(ring) + 1 /\ Len(ring) \in Nat
          /\ \A i \in 1 .. Len(ring) : ring'[i] = ring[i]
          /\ ring'[Len(ring) + 1] = f
      BY <1>1, <1>3
    <2>2. ASSUME NEW a \in AID, BootWaits(a)'
          PROVE  BootWaits(a) \/ (op = "BOOTREQ" /\ a \in to)
      <3>1. PICK i \in 1 .. Len(ring') : ring'[i].op = "BOOTREQ" /\ a \in ring'[i].dest
        BY <2>2 DEF BootWaits, BootFor
      <3>2. CASE i = Len(ring) + 1  BY <2>1, <3>1, <3>2
      <3>3. CASE i # Len(ring) + 1
        <4>1. i \in 1 .. Len(ring)  BY <2>1, <3>1, <3>3
        <4> QED BY <2>1, <3>1, <4>1 DEF BootWaits, BootFor
      <3> QED BY <3>2, <3>3
    <2> QED BY <2>1, <2>2
  <1> QED BY <1>2, <1>3 DEF Send

\* One message for each pass, to those that it was decided for.
LEMMA OneMessage ==
    ASSUME NEW ready \in SUBSET AID, Wifi_DlPlaySendForState(ready)
    PROVE  /\ \E op \in Ops : \E to : Send(op, to) /\ (op = "BOOTREQ" => to = Decided({"boot"}))
           /\ \/ client' = Moved
              \/ \E s \in AID : client' = [Moved EXCEPT ![s].wait = 0]
           /\ kick' \subseteq kick \cup Decided({"end", "to_end"})
  <1>0. SendMessage(Moved, ready) /\ ready \subseteq AID
    BY DEF Wifi_DlPlaySendForState
  <1> DEFINE ending == Decided({"end", "to_end"})
             booting == Decided({"boot"})
             starting == Decided({"start"})
             offered == Decided({"info", "to_info"})
  <1>1. CASE ending # {}
    <2>1. Send("END", {}) /\ client' = Moved /\ kick' = kick \cup (ending \cap Kickable)
      BY <1>0, <1>1 DEF SendMessage, Kick
    <2> QED BY <2>1 DEF Ops
  <1>2. CASE ending = {} /\ booting # {}
    <2>1. Send("BOOTREQ", booting) /\ client' = Moved /\ kick' = kick
      BY <1>0, <1>2 DEF SendMessage, Control
    <2> QED BY <2>1 DEF Ops
  <1>3. CASE ending = {} /\ booting = {} /\ starting # {}
    <2>1. Send("SENDSTART", starting) /\ client' = Moved /\ kick' = kick
      BY <1>0, <1>3 DEF SendMessage, Control
    <2> QED BY <2>1 DEF Ops
  <1>4. CASE ending = {} /\ booting = {} /\ starting = {} /\ offered # {}
    <2>1. Send("FILEINFO", offered) /\ client' = Moved /\ kick' = kick
      BY <1>0, <1>4 DEF SendMessage, Control
    <2> QED BY <2>1 DEF Ops
  <1>5. CASE ending = {} /\ booting = {} /\ starting = {} /\ offered = {}
    <2>1. SendBulk(Moved, ready) /\ kick' = kick  BY <1>0, <1>5 DEF SendMessage
    <2>2. CASE Ready(ready) = {}
      <3>1. Send("DUMMY", AID) /\ client' = Moved  BY <2>1, <2>2 DEF SendBulk
      <3> QED BY <2>1, <3>1 DEF Ops
    <2>3. CASE Ready(ready) # {}
      <3>1. PICK s : s = After(Ready(ready))  OBVIOUS
      <3>2. /\ client' \in IF s \in ready THEN StationServe(Moved, s) ELSE {Moved}
            /\ \/ Send("DATA", Decided({"send", "to_send"}))
               \/ Send("CONTENT", {s})
               \/ Send("APP", Decided({"app"}))
        BY <2>1, <2>3, <3>1 DEF SendBulk
      <3>3. client' = Moved \/ (s \in ready /\ client' = [Moved EXCEPT ![s].wait = 0])
        BY <3>2 DEF StationServe
      <3> QED BY <1>0, <2>1, <3>2, <3>3 DEF Ops
    <2> QED BY <2>2, <2>3
  <1> QED BY <1>1, <1>2, <1>3, <1>4, <1>5

\* The decisions are carried out, and at most one frame goes out.
LEMMA SendStep ==
    ASSUME Typed, NEW ready \in SUBSET AID, Wifi_DlPlaySendForState(ready)
    PROVE  /\ client' \in [AID -> Client] /\ ring' \in Seq(Frame)
           /\ verdict' = Nothing /\ UNCHANGED <<gather, seat>>
           /\ \A a \in AID : /\ client'[a].stage = Moved[a].stage
                             /\ BootWaits(a)' => BootWaits(a) \/ verdict[a] = "boot"
  <1>1. SendMessage(Moved, ready) /\ verdict' = Nothing /\ UNCHANGED <<gather, seat>>
        /\ ready \subseteq AID
    BY DEF Wifi_DlPlaySendForState, settings
  <1>2. Moved \in [AID -> Client]
    <2>1. ASSUME NEW a \in AID  PROVE Moved[a] \in Client
      <3>1. client[a] \in Client  BY DEF Typed
      <3>2. \A s \in Stages : SetStage(client[a], s) \in Client  BY <3>1, Staged
      <3>3. Moved[a] = client[a] \/ \E s \in Stages : Moved[a] = SetStage(client[a], s)
        BY DEF Moved, Stages
      <3> QED BY <3>1, <3>2, <3>3
    <2>2. Moved = [a \in AID |-> Moved[a]]  BY DEF Moved
    <2> QED BY <2>1, <2>2
  <1>3. /\ \E op \in Ops : \E to : Send(op, to) /\ (op = "BOOTREQ" => to = Decided({"boot"}))
        /\ \/ client' = Moved
           \/ \E s \in AID : client' = [Moved EXCEPT ![s].wait = 0]
    BY OneMessage
  <1>4. client' \in [AID -> Client] /\ \A a \in AID : client'[a].stage = Moved[a].stage
    <2>1. CASE client' = Moved  BY <1>2, <2>1
    <2>2. CASE \E s \in AID : client' = [Moved EXCEPT ![s].wait = 0]
      <3>1. PICK s \in AID : client' = [Moved EXCEPT ![s].wait = 0]  BY <2>2
      <3>2. Moved[s] \in Client  BY <1>2
      <3>3. [Moved[s] EXCEPT !.wait = 0] \in Client
            /\ [Moved[s] EXCEPT !.wait = 0].stage = Moved[s].stage
        BY <3>2 DEF Client
      <3>4. client' = [Moved EXCEPT ![s] = [Moved[s] EXCEPT !.wait = 0]]  BY <3>1
      <3> QED BY <1>2, <3>3, <3>4
    <2> QED BY <1>3, <2>1, <2>2
  <1>5. ring' \in Seq(Frame)
        /\ \A a \in AID : BootWaits(a)' => BootWaits(a) \/ verdict[a] = "boot"
    <2>1. PICK op \in Ops : \E to : Send(op, to) /\ (op = "BOOTREQ" => to = Decided({"boot"}))
      BY <1>3
    <2>2. PICK to : Send(op, to) /\ (op = "BOOTREQ" => to = Decided({"boot"}))  BY <2>1
    <2> QED BY <2>2, Sent DEF Decided
  <1> QED BY <1>1, <1>4, <1>5

\* What deciding and moving do to the stage of a client.
LEMMA Moving ==
    ASSUME Typed, NEW a \in AID
    PROVE  /\ Moved[a].stage \in Delivered => client[a].stage \in Delivered \/ verdict[a] \in Parting
           /\ Moved[a].stage = "SEND_PROCEED" => client[a].stage = "SEND_PROCEED"
                                                 \/ verdict[a] = "to_send"
  <1>1. client[a] \in Client  BY DEF Typed
  <1>2. \A s \in Stages : SetStage(client[a], s).stage = s  BY <1>1, Staged
  <1>3. CASE verdict[a] = "to_end"  BY <1>2, <1>3 DEF Moved, Stages, Parting
  <1>4. CASE verdict[a] = "to_info"
    <2>1. Moved[a].stage = "REQ_ACCEPTED"  BY <1>2, <1>4 DEF Moved, Stages
    <2> QED BY <2>1 DEF Delivered
  <1>5. CASE verdict[a] = "to_wait"
    <2>1. Moved[a].stage = "WAIT_TO_SEND"  BY <1>2, <1>5 DEF Moved, Stages
    <2> QED BY <2>1 DEF Delivered
  <1>6. CASE verdict[a] = "to_send"
    <2>1. Moved[a].stage = "SEND_PROCEED"  BY <1>2, <1>6 DEF Moved, Stages
    <2> QED BY <1>6, <2>1 DEF Delivered
  <1>7. CASE verdict[a] \notin {"to_end", "to_info", "to_wait", "to_send"}
    <2>1. Moved[a] = client[a]  BY <1>7 DEF Moved
    <2> QED BY <2>1
  <1> QED BY <1>3, <1>4, <1>5, <1>6, <1>7

\* A frame is on the air: who hears it, and who answers it.
LEMMA AirStep ==
    ASSUME Typed, NEW heard \in SUBSET Listening, NEW answered \in SUBSET heard,
           NEW luck \in BOOLEAN, Air(heard, answered, luck)
    PROVE  /\ client' \in [AID -> Client] /\ seat' \in [AID -> Console] /\ ring' \in Seq(Frame)
           /\ UNCHANGED <<pc, verdict, gather>>
           /\ ring # <<>> /\ Head(ring) = ring[1] /\ 1 \in 1 .. Len(ring)
           /\ \A a \in AID : BootWaits(a)' => BootWaits(a)
           /\ \A a \in AID :
                \/ client'[a] = client[a]
                \/ /\ a \in heard
                   /\ client'[a] = Wifi_DlPlayFromClientHandler(client[a], Say(seat[a], luck))
  <1>1. /\ ring # <<>> /\ ring' = Tail(ring) /\ UNCHANGED <<pc, verdict, gather>>
        /\ seat' = [a \in AID |-> IF a \in heard THEN Hear(seat[a], a, Head(ring), luck) ELSE seat[a]]
        /\ client' = [a \in AID |-> IF a \in answered /\ active
                            THEN Wifi_DlPlayFromClientHandler(client[a], Say(seat[a], luck))
                            ELSE client[a]]
    BY DEF Air, main, settings
  <1>2. ring \in Seq(Frame) /\ client \in [AID -> Client] /\ seat \in [AID -> Console]  BY DEF Typed
  <1>3. /\ ring' \in Seq(Frame) /\ Head(ring) = ring[1] /\ Head(ring) \in Frame
        /\ Len(ring) \in Nat \ {0} /\ Len(ring') = Len(ring) - 1
        /\ \A i \in 1 .. Len(ring') : ring'[i] = ring[i + 1]
    BY <1>1, <1>2
  <1>4. ASSUME NEW a \in AID, BootWaits(a)'  PROVE BootWaits(a)
    <2>1. PICK i \in 1 .. Len(ring') : ring'[i].op = "BOOTREQ" /\ a \in ring'[i].dest
      BY <1>4 DEF BootWaits, BootFor
    <2>2. i + 1 \in 1 .. Len(ring) /\ ring[i + 1] = ring'[i]  BY <1>3, <2>1
    <2> QED BY <2>1, <2>2 DEF BootWaits, BootFor
  <1>5. client' \in [AID -> Client]
    <2>1. ASSUME NEW a \in AID
          PROVE  Wifi_DlPlayFromClientHandler(client[a], Say(seat[a], luck)) \in Client
      <3>1. client[a] \in Client /\ seat[a] \in Console  BY <1>2
      <3> QED BY <3>1, Replied
    <2> QED BY <1>1, <1>2, <2>1
  <1>6. seat' \in [AID -> Console]
    <2>1. ASSUME NEW a \in AID  PROVE Hear(seat[a], a, Head(ring), luck) \in Console
      <3>1. seat[a] \in Console  BY <1>2
      <3> QED BY <1>3, <3>1, Hears
    <2> QED BY <1>1, <1>2, <2>1
  <1>7. ASSUME NEW a \in AID
        PROVE  \/ client'[a] = client[a]
               \/ /\ a \in heard
                  /\ client'[a] = Wifi_DlPlayFromClientHandler(client[a], Say(seat[a], luck))
    BY <1>1
  <1> QED BY <1>1, <1>3, <1>4, <1>5, <1>6, <1>7

\* AnyAir chooses its sets among those that AirStep speaks of.
LEMMA SomeAir ==
    ASSUME AnyAir
    PROVE  \E heard \in SUBSET Listening : \E answered \in SUBSET heard :
             \E luck \in BOOLEAN : Air(heard, answered, luck)
  <1>1. PICK heard \in Heard(Listening) : \E answered \in Heard(heard) :
            \E luck \in BOOLEAN : Air(heard, answered, luck)
    BY DEF AnyAir
  <1>2. heard \in SUBSET Listening  BY DEF Heard
  <1>3. Heard(heard) \subseteq SUBSET heard  BY DEF Heard
  <1> QED BY <1>1, <1>2, <1>3

\* Steps that leave decisions, gathering and the ring alone and keep or forget clients.
Quiet == \/ Wifi_DlPlayUpdate /\ UpdateNobody
         \/ \E ok \in BOOLEAN : Wifi_DlPlayStartBeacon(ok)
         \/ UpdateSummaryState
         \/ \E a \in AID : Leave(a) \/ SwitchOff(a)
         \/ Kicked \/ HostMode
         \/ Wifi_DlPlaySetBootMode \/ Wifi_DlPlayLockRoom \/ Wifi_DlPlayAppSend \/ Wifi_DlPlayStop

LEMMA Cases ==
    ASSUME Next
    PROVE  \/ Quiet
           \/ Wifi_DlPlayUpdate /\ UpdateClients
           \/ \E ready \in SUBSET AID : Wifi_DlPlaySendForState(ready)
           \/ AnyAir
           \/ \E a \in AID, k \in Kinds : Join(a, k)
           \/ \E a \in AID : Wifi_DlPlayBootClient(a)
           \/ BootRequested
           \/ Wifi_DlPlaySetGather
           \/ Wifi_DlPlayStart
  <1>1. CASE MainLoop
    <2>1. Wifi_DlPlayUpdate => UpdateNobody \/ UpdateClients  BY DEF Wifi_DlPlayUpdate
    <2> QED BY <1>1, <2>1 DEF MainLoop, SomeSend, Quiet
  <1>2. CASE Arm7  BY <1>2 DEF Arm7, Quiet
  <1>3. CASE Consoles  BY <1>3 DEF Consoles, Quiet
  <1>4. CASE Application  BY <1>4 DEF Application, Quiet
  <1> QED BY <1>1, <1>2, <1>3, <1>4 DEF Next

LEMMA QuietStep ==
    ASSUME Typed, DecidedInSend, Quiet
    PROVE  /\ client' \in [AID -> Client] /\ seat' \in [AID -> Console] /\ UNCHANGED <<ring, verdict, gather>>
           /\ pc \in {"send", "boot"} => pc' = pc
           /\ \A a \in AID : client'[a] = client[a] \/ (client'[a].stage = "NONE" /\ verdict = Nothing)
           /\ \A a \in AID : \/ seat'[a] = seat[a] \/ seat'[a] = Empty
                             \/ seat'[a] = [seat[a] EXCEPT !.at = "off"] /\ seat[a].at # "away"
  <1>0. client \in [AID -> Client] /\ seat \in [AID -> Console]  BY DEF Typed
  <1>1. CASE Wifi_DlPlayUpdate /\ UpdateNobody
    <2>1. /\ UNCHANGED <<ring, seat, gather, verdict, pc>> /\ pc = "main"
          /\ client' \in {client, [a \in AID |-> Forgotten]}
      BY <1>1 DEF Wifi_DlPlayUpdate, UpdateNobody, main
    <2>2. verdict = Nothing  BY <2>1 DEF DecidedInSend
    <2>3. Forgotten.stage = "NONE"  BY DEF Forgotten
    <2> QED BY <1>0, <2>1, <2>2, <2>3, Constants
  <1>2. CASE \E ok \in BOOLEAN : Wifi_DlPlayStartBeacon(ok)
    BY <1>0, <1>2 DEF Wifi_DlPlayStartBeacon, main
  <1>3. CASE UpdateSummaryState  BY <1>0, <1>3 DEF UpdateSummaryState, settings
  <1>4. CASE \E a \in AID : Leave(a)
    <2>1. PICK a \in AID : Leave(a)  BY <1>4
    <2>2. seat' = [seat EXCEPT ![a] = Empty] /\ UNCHANGED <<client, ring, verdict, gather, pc>>
      BY <2>1 DEF Leave, main, settings
    <2> QED BY <1>0, <2>2, Constants
  <1>5. CASE \E a \in AID : SwitchOff(a)
    <2>1. PICK a \in AID : SwitchOff(a)  BY <1>5
    <2>2. seat' = [seat EXCEPT ![a].at = "off"] /\ UNCHANGED <<client, ring, verdict, gather, pc>>
      BY <2>1 DEF SwitchOff, main, settings
    <2>3. seat[a] \in Console  BY <1>0
    <2>4. [seat[a] EXCEPT !.at = "off"] \in Console  BY <2>3 DEF Console, ConsoleStates
    <2>6. seat[a].at # "away"  BY <2>1 DEF SwitchOff, Listening
    <2>5. seat' = [seat EXCEPT ![a] = [seat[a] EXCEPT !.at = "off"]]  BY <2>2
    <2> QED BY <1>0, <2>2, <2>4, <2>5, <2>6
  <1>6. CASE Kicked
    <2>1. /\ seat' = [a \in AID |-> IF a \in kick THEN Empty ELSE seat[a]]
          /\ UNCHANGED <<client, ring, verdict, gather, pc>>
      BY <1>6 DEF Kicked, main, settings
    <2> QED BY <1>0, <2>1, Constants
  <1>8. CASE HostMode
    <2>1. seat' = [a \in AID |-> Empty] /\ UNCHANGED <<client, ring, verdict, gather, pc>>
      BY <1>8 DEF HostMode, main, settings
    <2> QED BY <1>0, <2>1, Constants
  <1>7. CASE Wifi_DlPlaySetBootMode \/ Wifi_DlPlayLockRoom \/ Wifi_DlPlayAppSend \/ Wifi_DlPlayStop
    <2>1. UNCHANGED <<client, ring, seat, verdict, gather, pc>>
      BY <1>7 DEF Wifi_DlPlaySetBootMode, Wifi_DlPlayLockRoom, Wifi_DlPlayAppSend, Wifi_DlPlayStop,
                  Setting, main, settings
    <2> QED BY <1>0, <2>1
  <1> QED BY <1>1, <1>2, <1>3, <1>4, <1>5, <1>6, <1>7, <1>8 DEF Quiet

-----------------------------------------------------------------------------
(* Gathering *)

LEMMA JoinStep ==
    ASSUME Typed, NEW a \in AID, NEW k \in Kinds, Join(a, k)
    PROVE  /\ seat' \in [AID -> Console] /\ Honest(seat'[a])
           /\ Unnoticed(a) => seat'[a].heir
           /\ \A b \in AID \ {a} : seat'[b] = seat[b]
           /\ UNCHANGED <<client, ring, verdict, gather, pc>>
  <1> DEFINE t == [Empty EXCEPT !.kind = k, !.at = "idle", !.heir = Unnoticed(a)]
  <1>1. /\ seat' = [seat EXCEPT ![a] = t]
        /\ UNCHANGED <<client, ring, verdict, gather, pc>>
    BY DEF Join, main, settings
  <1>2. t \in Console /\ Honest(t) /\ (Unnoticed(a) => t.heir)
    <2>1. k \in AllKinds  BY Bounds
    <2>2. PICK h \in BOOLEAN : h = Unnoticed(a)  BY DEF Unnoticed
    <2> DEFINE u == [Empty EXCEPT !.kind = k, !.at = "idle", !.heir = h]
    <2>3. t = u  BY <2>2, Zenon
    <2> HIDE DEF t
    <2>4. Empty \in Console /\ ~Empty.whole  BY Constants DEF Empty
    <2>5. t \in Console /\ t.at = "idle" /\ ~t.whole /\ t.heir = h
      BY <2>1, <2>3, <2>4 DEF Console, ConsoleStates
    <2> QED BY <2>2, <2>5 DEF Honest, Straight
  <1> HIDE DEF t
  <1> QED BY <1>1, <1>2 DEF Typed

\* Wifi_DlPlayBootClient() looks at the stage ...
LEMMA BootStep ==
    ASSUME NEW a \in AID, Wifi_DlPlayBootClient(a)
    PROVE  /\ pc = "main" /\ pc' = "boot" /\ client[a].stage = "SEND_COMPLETE"
           /\ \A b \in AID : verdict'[b] = IF b = a THEN "to_boot" ELSE "none"
           /\ UNCHANGED <<client, ring, seat, gather>>
  BY DEF Wifi_DlPlayBootClient, settings, Nothing

\* ... and then writes it.
LEMMA BootRequestedStep ==
    ASSUME Typed, BootRequested
    PROVE  /\ client' \in [AID -> Client]
           /\ \A a \in AID : \/ client'[a] = client[a]
                             \/ verdict[a] = "to_boot" /\ client'[a].stage = "BOOT_REQUEST"
           /\ verdict' = Nothing /\ UNCHANGED <<ring, seat, gather>>
  <1> DEFINE d(a) == [SetStage(client[a], "BOOT_REQUEST") EXCEPT !.boot = TRUE]
  <1>1. /\ client' = [a \in AID |-> IF verdict[a] = "to_boot" THEN d(a) ELSE client[a]]
        /\ verdict' = Nothing /\ UNCHANGED <<ring, seat, gather>>
    BY DEF BootRequested, settings
  <1>2. ASSUME NEW a \in AID  PROVE d(a) \in Client /\ d(a).stage = "BOOT_REQUEST"
    <2>1. client[a] \in Client  BY DEF Typed
    <2>2. SetStage(client[a], "BOOT_REQUEST") \in Client
          /\ SetStage(client[a], "BOOT_REQUEST").stage = "BOOT_REQUEST"
      BY <2>1, Staged DEF Stages
    <2> QED BY <2>2 DEF Client
  <1> HIDE DEF d
  <1>3. client \in [AID -> Client]  BY DEF Typed
  <1> QED BY <1>1, <1>2, <1>3

LEMMA StartStep ==
    ASSUME Typed, Wifi_DlPlayStart
    PROVE  /\ client' \in [AID -> Client] /\ seat' \in [AID -> Console]
           /\ client' = client \/ \A a \in AID : client'[a].stage = "NONE"
           /\ pc = "main" /\ gather' = FALSE
           /\ UNCHANGED <<pc, verdict, ring>>
           /\ \A a \in AID : \/ seat'[a] = seat[a] /\ client' = client
                             \/ seat'[a] = seat[a] /\ seat[a].at = "away"
                             \/ seat'[a].heir
  <1>0. client \in [AID -> Client] /\ seat \in [AID -> Console]  BY DEF Typed
  <1>1. pc = "main" /\ gather' = FALSE /\ UNCHANGED <<pc, verdict, ring>>
    BY DEF Wifi_DlPlayStart, StartRefused, StartHosting, Unlocked, main
  <1>2. CASE StartRefused  BY <1>0, <1>1, <1>2 DEF StartRefused
  <1>3. CASE \E ok \in BOOLEAN : StartHosting(ok)
    <2>1. /\ client' = [a \in AID |-> Forgotten]
          /\ seat' = [a \in AID |-> IF a \in Associated THEN [seat[a] EXCEPT !.heir = TRUE] ELSE seat[a]]
      BY <1>3 DEF StartHosting
    <2>2. Forgotten.stage = "NONE"  BY DEF Forgotten
    <2>3. ASSUME NEW a \in AID
          PROVE  [seat[a] EXCEPT !.heir = TRUE] \in Console /\ [seat[a] EXCEPT !.heir = TRUE].heir
      <3>1. seat[a] \in Console  BY <1>0
      <3> QED BY <3>1 DEF Console
    <2>4. \A a \in AID : a \notin Associated => seat[a].at = "away"  BY DEF Associated
    <2> QED BY <1>0, <1>1, <2>1, <2>2, <2>3, <2>4, Constants
  <1> QED BY <1>2, <1>3 DEF Wifi_DlPlayStart

LEMMA GatherStep ==
    ASSUME Wifi_DlPlaySetGather
    PROVE  pc = "main" /\ gather' = ~gather /\ UNCHANGED <<client, pc, verdict, ring, seat>>
  BY DEF Wifi_DlPlaySetGather, Setting, main

LEMMA Undecided == \A a \in AID : Nothing[a] = "none"
  BY DEF Nothing

LEMMA GInit == Init => GInv
  BY Constants DEF Init, GInv, Typed, DecidedInSend, DecidedOpen, Nothing

LEMMA GStep ==
    ASSUME GInv, [Next]_vars
    PROVE  GInv'
  <1>0. Typed /\ DecidedInSend /\ DecidedOpen  BY DEF GInv
  <1>1. CASE UNCHANGED vars
    BY <1>0, <1>1 DEF GInv, Typed, DecidedInSend, DecidedOpen, vars, settings, main
  <1>2. CASE Quiet
    <2>1. client' \in [AID -> Client] /\ seat' \in [AID -> Console] /\ UNCHANGED <<ring, verdict, gather>>
          /\ (pc \in {"send", "boot"} => pc' = pc)
      BY <1>0, <1>2, QuietStep
    <2> QED BY <1>0, <2>1 DEF GInv, Typed, DecidedInSend, DecidedOpen
  <1>3. CASE Wifi_DlPlayUpdate /\ UpdateClients
    <2>1. UNCHANGED <<ring, seat, gather>>  BY <1>3 DEF Wifi_DlPlayUpdate
    <2>2. client' \in [AID -> Client] /\ pc' = "send"
          /\ \A a \in AID : verdict'[a] = "to_send" => ~gather
      BY <1>0, <1>3, UpdateStep
    <2> QED BY <1>0, <2>1, <2>2 DEF GInv, Typed, DecidedInSend, DecidedOpen
  <1>4. CASE \E ready \in SUBSET AID : Wifi_DlPlaySendForState(ready)
    <2>1. client' \in [AID -> Client] /\ ring' \in Seq(Frame) /\ verdict' = Nothing
          /\ UNCHANGED <<gather, seat>>
      BY <1>0, <1>4, SendStep
    <2> QED BY <1>0, <2>1, Undecided DEF GInv, Typed, DecidedInSend, DecidedOpen
  <1>5. CASE AnyAir
    <2>1. client' \in [AID -> Client] /\ seat' \in [AID -> Console] /\ ring' \in Seq(Frame)
          /\ UNCHANGED <<pc, verdict, gather>>
      BY <1>0, <1>5, SomeAir, AirStep
    <2> QED BY <1>0, <2>1 DEF GInv, Typed, DecidedInSend, DecidedOpen
  <1>6. CASE \E a \in AID, k \in Kinds : Join(a, k)
    <2>1. seat' \in [AID -> Console] /\ UNCHANGED <<client, ring, verdict, gather, pc>>
      BY <1>0, <1>6, JoinStep
    <2> QED BY <1>0, <2>1 DEF GInv, Typed, DecidedInSend, DecidedOpen
  <1>7. CASE \E a \in AID : Wifi_DlPlayBootClient(a)
    <2>1. PICK a \in AID : Wifi_DlPlayBootClient(a)  BY <1>7
    <2>2. /\ pc' = "boot" /\ UNCHANGED <<client, ring, seat, gather>>
          /\ \A b \in AID : verdict'[b] \in {"to_boot", "none"}
      BY <2>1, BootStep
    <2> QED BY <1>0, <2>2 DEF GInv, Typed, DecidedInSend, DecidedOpen
  <1>8. CASE Wifi_DlPlaySetGather
    <2>1. pc = "main" /\ UNCHANGED <<client, pc, verdict, ring, seat>>  BY <1>8, GatherStep
    <2>2. verdict = Nothing  BY <1>0, <2>1 DEF DecidedInSend
    <2> QED BY <1>0, <2>1, <2>2, Undecided DEF GInv, Typed, DecidedInSend, DecidedOpen
  <1>9. CASE Wifi_DlPlayStart
    <2>1. /\ client' \in [AID -> Client] /\ seat' \in [AID -> Console] /\ pc = "main"
          /\ UNCHANGED <<pc, verdict, ring>>
      BY <1>0, <1>9, StartStep
    <2>2. verdict = Nothing  BY <1>0, <2>1 DEF DecidedInSend
    <2> QED BY <1>0, <2>1, <2>2, Undecided DEF GInv, Typed, DecidedInSend, DecidedOpen
  <1>10. CASE BootRequested
    <2>1. client' \in [AID -> Client] /\ verdict' = Nothing /\ UNCHANGED <<ring, seat, gather>>
      BY <1>0, <1>10, BootRequestedStep
    <2> QED BY <1>0, <2>1, Undecided DEF GInv, Typed, DecidedInSend, DecidedOpen
  <1> QED BY <1>1, <1>2, <1>3, <1>4, <1>5, <1>6, <1>7, <1>8, <1>9, <1>10, Cases

\* Every state has well formed clients and consoles, and an undecided host while no
\* pass of Wifi_DlPlaySendForState() is under way.
THEOREM GatherInvariance == Spec => []GInv
  BY GInit, GStep, PTL DEF Spec

\* One step starts a transfer only while the host isn't gathering.
LEMMA BeginsOpen ==
    ASSUME GInv, Next, NEW a \in AID, gather, gather', client'[a].stage = "SEND_PROCEED"
    PROVE  client[a].stage = "SEND_PROCEED"
  <1>0. Typed /\ DecidedInSend /\ DecidedOpen  BY DEF GInv
  <1>1. CASE Quiet  BY <1>0, <1>1, QuietStep
  <1>2. CASE Wifi_DlPlayUpdate /\ UpdateClients  BY <1>0, <1>2, UpdateStep
  <1>3. CASE \E ready \in SUBSET AID : Wifi_DlPlaySendForState(ready)
    <2>1. client'[a].stage = Moved[a].stage  BY <1>0, <1>3, SendStep
    <2>2. verdict[a] # "to_send"  BY <1>0 DEF DecidedOpen
    <2> QED BY <1>0, <2>1, <2>2, Moving
  <1>4. CASE AnyAir
    <2>1. PICK luck \in BOOLEAN :
            \/ client'[a] = client[a]
            \/ client'[a] = Wifi_DlPlayFromClientHandler(client[a], Say(seat[a], luck))
      BY <1>0, <1>4, SomeAir, AirStep
    <2>2. client[a] \in Client /\ seat[a] \in Console  BY <1>0 DEF Typed
    <2> QED BY <2>1, <2>2, Replied
  <1>5. CASE \E b \in AID, k \in Kinds : Join(b, k)  BY <1>0, <1>5, JoinStep
  <1>6. CASE \E b \in AID : Wifi_DlPlayBootClient(b)  BY <1>6, BootStep
  <1>9. CASE BootRequested  BY <1>0, <1>9, BootRequestedStep
  <1>7. CASE Wifi_DlPlaySetGather  BY <1>7, GatherStep
  <1>8. CASE Wifi_DlPlayStart  BY <1>0, <1>8, StartStep
  <1> QED BY <1>1, <1>2, <1>3, <1>4, <1>5, <1>6, <1>7, <1>8, <1>9, Cases

(***************************************************************************)
(* While the host gathers its room no client begins to download, neither   *)
(* from Wifi_DlPlaySendForState(), whose decision may be older than the    *)
(* stage that it overwrites, nor from Wifi_DlPlayFromClientHandler().      *)
(***************************************************************************)
THEOREM NobodyDownloadsEarly == Spec => Gathered
  <1>1. GInv /\ [Next]_vars =>
          [gather /\ gather' => \A a \in AID : client'[a].stage = "SEND_PROCEED"
                                                 => client[a].stage = "SEND_PROCEED"]_vars
    <2>1. CASE UNCHANGED vars  BY <2>1
    <2>2. CASE Next  BY <2>2, BeginsOpen
    <2> QED BY <2>1, <2>2
  <1> QED BY <1>1, GatherInvariance, PTL DEF Spec, Gathered

-----------------------------------------------------------------------------
(* Starting the program *)

LEMMA IInit == Init => IInv
  <1> SUFFICES ASSUME Init PROVE IInv  OBVIOUS
  <1>1. /\ \A a \in AID : client[a] = Forgotten /\ seat[a] = Empty /\ verdict[a] = "none"
        /\ ring = <<>>
    BY DEF Init, Nothing
  <1>2. DecidedPresent  BY <1>1 DEF DecidedPresent
  <1>3. PromiseKept  BY <1>1 DEF PromiseKept, Kept, Empty
  <1>4. \A a \in AID : Honest(seat[a])  BY <1>1, Constants
  <1> QED BY <1>2, <1>3, <1>4, GInit DEF IInv

LEMMA IStep ==
    ASSUME IInv, [Next]_vars
    PROVE  IInv'
  <1>0. Typed /\ DecidedInSend /\ DecidedOpen /\ DecidedPresent /\ PromiseKept
        /\ \A a \in AID : Honest(seat[a])
    BY DEF IInv, GInv
  <1>g. GInv'  BY GStep DEF IInv
  <1>t. \A a \in AID : client[a] \in Client /\ seat[a] \in Console  BY <1>0 DEF Typed
  <1>1. CASE UNCHANGED vars
    BY <1>0, <1>1, <1>g DEF IInv, DecidedPresent, PromiseKept, Promised, BootWaits, vars, settings, main
  <1>2. CASE Quiet
    <2>1. /\ UNCHANGED <<ring, verdict>>
          /\ \A a \in AID : client'[a] = client[a] \/ (client'[a].stage = "NONE" /\ verdict = Nothing)
          /\ \A a \in AID : \/ seat'[a] = seat[a] \/ seat'[a] = Empty
                            \/ seat'[a] = [seat[a] EXCEPT !.at = "off"] /\ seat[a].at # "away"
      BY <1>0, <1>2, QuietStep
    <2>2. DecidedPresent'  BY <1>0, <2>1, Undecided DEF DecidedPresent
    <2>3. ASSUME NEW a \in AID  PROVE Promised(a)' => Promised(a)
      <3>1. verdict'[a] = verdict[a] /\ (BootWaits(a)' <=> BootWaits(a))  BY <2>1 DEF BootWaits
      <3>2. client'[a].stage \in Delivered => client[a].stage \in Delivered
        BY <2>1 DEF Delivered
      <3> QED BY <3>1, <3>2 DEF Promised
    <2>4. ASSUME NEW a \in AID
          PROVE  /\ Honest(seat'[a])
                 /\ Kept(seat[a]) => Kept(seat'[a])
      <3>1. CASE seat'[a] = seat[a]  BY <1>0, <3>1
      <3>2. CASE seat'[a] = Empty  BY <3>2, Constants DEF Kept, Empty
      <3>3. CASE seat'[a] = [seat[a] EXCEPT !.at = "off"] /\ seat[a].at # "away"
        <4>1. seat'[a].at = "off" /\ seat'[a].whole = seat[a].whole /\ seat'[a].heir = seat[a].heir
          BY <1>t, <3>3 DEF Console
        <4> QED BY <1>0, <3>3, <4>1 DEF Honest, Straight, Kept
      <3> QED BY <2>1, <3>1, <3>2, <3>3
    <2>5. PromiseKept'  BY <1>0, <2>3, <2>4 DEF PromiseKept
    <2> QED BY <1>g, <2>2, <2>4, <2>5 DEF IInv
  <1>3. CASE Wifi_DlPlayUpdate /\ UpdateClients
    <2>1. UNCHANGED <<ring, seat>>  BY <1>3 DEF Wifi_DlPlayUpdate
    <2>2. \A a \in AID : /\ client'[a].stage \in {"CONNECTED", "NONE", client[a].stage}
                         /\ verdict'[a] \in Parting => client'[a].stage \in Delivered
                         /\ verdict'[a] # "none" => client'[a].stage # "NONE"
      BY <1>0, <1>3, UpdateStep
    <2>3. DecidedPresent'  BY <2>2 DEF DecidedPresent
    <2>4. ASSUME NEW a \in AID  PROVE Promised(a)' => Promised(a)
      <3>1. BootWaits(a)' <=> BootWaits(a)  BY <2>1 DEF BootWaits
      <3>2. client'[a].stage \in Delivered => client[a].stage \in Delivered
        BY <2>2 DEF Delivered
      <3> QED BY <2>2, <3>1, <3>2 DEF Promised
    <2>5. PromiseKept'  BY <1>0, <2>1, <2>4 DEF PromiseKept
    <2> QED BY <1>0, <1>g, <2>1, <2>3, <2>5 DEF IInv
  <1>4. CASE \E ready \in SUBSET AID : Wifi_DlPlaySendForState(ready)
    <2>1. /\ verdict' = Nothing /\ UNCHANGED seat
          /\ \A a \in AID : /\ client'[a].stage = Moved[a].stage
                            /\ BootWaits(a)' => BootWaits(a) \/ verdict[a] = "boot"
      BY <1>0, <1>4, SendStep
    <2>2. DecidedPresent'  BY <2>1, Undecided DEF DecidedPresent
    <2>3. ASSUME NEW a \in AID  PROVE Promised(a)' => Promised(a)
      <3>1. client'[a].stage \in Delivered => client[a].stage \in Delivered \/ verdict[a] \in Parting
        BY <1>0, <2>1, Moving
      <3>2. verdict'[a] \notin Parting  BY <2>1, Undecided DEF Parting
      <3> QED BY <2>1, <3>1, <3>2 DEF Promised, Parting
    <2>4. PromiseKept'  BY <1>0, <2>1, <2>3 DEF PromiseKept
    <2> QED BY <1>0, <1>g, <2>1, <2>2, <2>4 DEF IInv
  <1>5. CASE AnyAir
    <2>1. PICK heard \in SUBSET Listening : \E answered \in SUBSET heard :
             \E luck \in BOOLEAN : Air(heard, answered, luck)
      BY <1>5, SomeAir
    <2>2. PICK answered \in SUBSET heard, luck \in BOOLEAN : Air(heard, answered, luck)  BY <2>1
    <2>3. /\ UNCHANGED verdict /\ Head(ring) = ring[1] /\ 1 \in 1 .. Len(ring)
          /\ \A a \in AID : BootWaits(a)' => BootWaits(a)
      BY <1>0, <2>2, AirStep
    <2>s. \A a \in AID : \/ seat'[a] = seat[a] /\ a \notin heard
                         \/ seat'[a] = Hear(seat[a], a, Head(ring), luck) /\ a \in heard
      <3>1. seat' = [a \in AID |-> IF a \in heard THEN Hear(seat[a], a, Head(ring), luck) ELSE seat[a]]
        BY <2>2 DEF Air
      <3> QED BY <3>1
    <2>4. Head(ring) \in Frame  BY <1>0, <2>3 DEF Typed
    <2>5. ASSUME NEW a \in AID
          PROVE  /\ client[a].stage # "NONE" => client'[a].stage # "NONE"
                 /\ Promised(a)' => Promised(a) \/ (a \in heard /\ seat[a].at = "loaded")
                 /\ Honest(seat'[a])
                 /\ Promised(a) => Kept(seat'[a])
                 /\ a \in heard /\ seat[a].at = "loaded" => Kept(seat'[a])
                 /\ seat[a].at = "away" => seat'[a] = seat[a]
      <3>1. \/ client'[a] = client[a]
            \/ a \in heard /\ client'[a] = Wifi_DlPlayFromClientHandler(client[a], Say(seat[a], luck))
        BY <1>0, <2>2, AirStep
      <3>2. /\ client'[a].stage \in Delivered
                 => client[a].stage \in Delivered \/ (a \in heard /\ seat[a].at = "loaded")
            /\ client[a].stage # "NONE" => client'[a].stage # "NONE"
        BY <1>t, <3>1, Replied
      <3>3. Promised(a)' => Promised(a) \/ (a \in heard /\ seat[a].at = "loaded")
        BY <2>3, <3>2 DEF Promised
      <3>4. \/ seat'[a] = seat[a] /\ a \notin heard
            \/ seat'[a] = Hear(seat[a], a, Head(ring), luck) /\ a \in heard
        BY <2>s
      <3>5. a \in heard => seat[a].at # "away"  BY <2>1 DEF Listening
      <3>6. BootFor(a, Head(ring)) => Promised(a)  BY <2>3 DEF Promised, BootWaits
      <3>7. Promised(a) => Kept(seat[a])  BY <1>0 DEF PromiseKept
      <3>8. CASE a \notin heard  BY <1>0, <3>2, <3>3, <3>4, <3>7, <3>8
      <3>9. CASE a \in heard
        <4>1. seat'[a].heir = seat[a].heir
              /\ (Straight(seat[a]) /\ (BootFor(a, Head(ring)) => seat[a].whole)
                    => Straight(seat'[a]) /\ (seat[a].whole => seat'[a].whole))
          BY <1>t, <2>4, <3>4, <3>9, Hears
        <4>2. CASE seat[a].heir
          BY <3>2, <3>3, <3>5, <3>9, <4>1, <4>2 DEF Honest, Kept
        <4>3. CASE ~seat[a].heir
          <5>1. Straight(seat[a])  BY <1>0, <4>3 DEF Honest
          <5>2. Promised(a) => seat[a].whole  BY <3>5, <3>7, <3>9, <4>3 DEF Kept
          <5>3. seat[a].at = "loaded" => seat[a].whole  BY <5>1 DEF Straight
          <5>4. Straight(seat'[a]) /\ (seat[a].whole => seat'[a].whole)
            BY <3>6, <4>1, <5>1, <5>2
          <5> QED BY <3>2, <3>3, <3>5, <3>9, <5>2, <5>3, <5>4 DEF Honest, Kept
        <4> QED BY <4>2, <4>3
      <3> QED BY <3>8, <3>9
    <2>6. DecidedPresent'  BY <1>0, <2>3, <2>5 DEF DecidedPresent
    <2>7. PromiseKept'  BY <1>0, <2>5 DEF PromiseKept
    <2> QED BY <1>g, <2>5, <2>6, <2>7 DEF IInv
  <1>6. CASE \E a \in AID, k \in Kinds : Join(a, k)
    <2>1. PICK a \in AID, k \in Kinds : Join(a, k)  BY <1>6
    <2>2. /\ Honest(seat'[a]) /\ \A b \in AID \ {a} : seat'[b] = seat[b]
          /\ Unnoticed(a) => seat'[a].heir
          /\ UNCHANGED <<client, ring, verdict>>
      BY <1>0, <2>1, JoinStep
    <2>3. DecidedPresent'  BY <1>0, <2>2 DEF DecidedPresent
    <2>4. ASSUME NEW b \in AID  PROVE Promised(b)' <=> Promised(b)
      BY <2>2 DEF Promised, BootWaits
    <2>5. Promised(a) => Unnoticed(a)
      <3>1. CASE client[a].stage # "NONE"  BY <3>1 DEF Unnoticed
      <3>2. CASE client[a].stage = "NONE"
        <4>1. verdict[a] = "none"  BY <1>0, <3>2 DEF DecidedPresent
        <4>2. BootWaits(a) => Unnoticed(a)  BY DEF Unnoticed, BootWaits, BootFor
        <4> QED BY <3>2, <4>1, <4>2 DEF Promised, Delivered, Parting
      <3> QED BY <3>1, <3>2
    <2>6. Promised(a) => Kept(seat'[a])  BY <2>2, <2>5 DEF Kept
    <2>7. PromiseKept'  BY <1>0, <2>2, <2>4, <2>6 DEF PromiseKept
    <2>8. \A b \in AID : Honest(seat'[b])  BY <1>0, <2>2
    <2> QED BY <1>g, <2>3, <2>7, <2>8 DEF IInv
  <1>7. CASE \E a \in AID : Wifi_DlPlayBootClient(a)
    <2>1. PICK a \in AID : Wifi_DlPlayBootClient(a)  BY <1>7
    <2>2. /\ client[a].stage = "SEND_COMPLETE"
          /\ \A b \in AID : verdict'[b] = IF b = a THEN "to_boot" ELSE "none"
          /\ UNCHANGED <<client, ring, seat>>
      BY <2>1, BootStep
    <2>3. DecidedPresent'  BY <2>2 DEF DecidedPresent
    <2>4. ASSUME NEW b \in AID  PROVE Promised(b)' => Promised(b)
      <3>1. BootWaits(b)' <=> BootWaits(b)  BY <2>2 DEF BootWaits
      <3>2. CASE b = a  BY <2>2, <3>2 DEF Promised, Delivered
      <3>3. CASE b # a  BY <2>2, <3>1, <3>3 DEF Promised, Parting
      <3> QED BY <3>2, <3>3
    <2>5. PromiseKept'  BY <1>0, <2>2, <2>4 DEF PromiseKept
    <2> QED BY <1>0, <1>g, <2>2, <2>3, <2>5 DEF IInv
  <1>10. CASE BootRequested
    <2>1. /\ \A a \in AID : \/ client'[a] = client[a]
                            \/ verdict[a] = "to_boot" /\ client'[a].stage = "BOOT_REQUEST"
          /\ verdict' = Nothing /\ UNCHANGED <<ring, seat>>
      BY <1>0, <1>10, BootRequestedStep
    <2>2. DecidedPresent'  BY <2>1, Undecided DEF DecidedPresent
    <2>3. ASSUME NEW a \in AID  PROVE Promised(a)' => Promised(a)
      <3>1. BootWaits(a)' <=> BootWaits(a)  BY <2>1 DEF BootWaits
      <3>2. verdict'[a] \notin Parting  BY <2>1, Undecided DEF Parting
      <3>3. client'[a].stage \in Delivered => client[a].stage \in Delivered \/ verdict[a] \in Parting
        BY <2>1 DEF Parting
      <3> QED BY <3>1, <3>2, <3>3 DEF Promised
    <2>4. PromiseKept'  BY <1>0, <2>1, <2>3 DEF PromiseKept
    <2> QED BY <1>0, <1>g, <2>1, <2>2, <2>4 DEF IInv
  <1>8. CASE Wifi_DlPlaySetGather
    <2>1. UNCHANGED <<client, verdict, ring, seat>>  BY <1>8, GatherStep
    <2> QED BY <1>0, <1>g, <2>1 DEF IInv, DecidedPresent, PromiseKept, Promised, BootWaits
  <1>9. CASE Wifi_DlPlayStart
    <2>1. /\ client' = client \/ \A a \in AID : client'[a].stage = "NONE"
          /\ pc = "main" /\ UNCHANGED <<verdict, ring>>
          /\ \A a \in AID : \/ seat'[a] = seat[a] /\ client' = client
                            \/ seat'[a] = seat[a] /\ seat[a].at = "away"
                            \/ seat'[a].heir
      BY <1>0, <1>9, StartStep
    <2>2. verdict' = Nothing  BY <1>0, <2>1 DEF DecidedInSend
    <2>3. DecidedPresent'  BY <2>2, Undecided DEF DecidedPresent
    <2>4. ASSUME NEW a \in AID  PROVE Promised(a)' => Kept(seat'[a])
      <3>1. BootWaits(a)' <=> BootWaits(a)  BY <2>1 DEF BootWaits
      <3>2. CASE seat'[a] = seat[a] /\ client' = client
        <4>1. Promised(a)' => Promised(a)  BY <2>1, <3>1, <3>2 DEF Promised
        <4> QED BY <1>0, <3>2, <4>1 DEF PromiseKept
      <3>3. CASE seat'[a] = seat[a] /\ seat[a].at = "away"  BY <3>3 DEF Kept
      <3>4. CASE seat'[a].heir  BY <3>4 DEF Kept
      <3> QED BY <2>1, <3>2, <3>3, <3>4
    <2>5. PromiseKept'  BY <2>4 DEF PromiseKept
    <2>6. \A a \in AID : Honest(seat'[a])  BY <1>0, <2>1 DEF Honest
    <2> QED BY <1>g, <2>3, <2>5, <2>6 DEF IInv
  <1> QED BY <1>1, <1>2, <1>3, <1>4, <1>5, <1>6, <1>7, <1>8, <1>9, <1>10, Cases

(***************************************************************************)
(* What the host takes a console for is what it is: if a stage, a decision *)
(* of Wifi_DlPlaySendForState() or Wifi_DlPlayBootClient(), or a frame in  *)
(* the ring says that a console holds the program, it does, or it has      *)
(* left, or it is an heir to what the host believed of somebody else.      *)
(***************************************************************************)
THEOREM PromisesAreKept == Spec => []IInv
  BY IInit, IStep, PTL DEF Spec

(***************************************************************************)
(* No console that the host hasn't mistaken for an earlier one is told to  *)
(* start the program, by a BOOTREQ frame of Wifi_DlPlaySendForState(),     *)
(* before it holds every block of it, whatever the application calls,      *)
(* whichever frames and replies are lost, and whoever joins and leaves.    *)
(***************************************************************************)
THEOREM StartsOnlyWhatItHolds == Spec => []BootOnlyComplete
  <1>1. IInv => BootOnlyComplete  BY DEF IInv, Honest, Straight, BootOnlyComplete
  <1>2. Spec => []IInv  BY PromisesAreKept
  <1> QED BY <1>1, <1>2, PTL

=============================================================================
