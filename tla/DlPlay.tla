------------------------------- MODULE DlPlay -------------------------------
(***************************************************************************)
(* A DS Download Play host: what it believes of each console in its room,  *)
(* and the exchange that takes a console from associating to starting the  *)
(* program it was sent.                                                    *)
(*                                                                         *)
(* Wifi_DlPlayUpdate() runs in the main loop of the application.  The      *)
(* replies of the consoles are handled in an interrupt of the ARM9, which  *)
(* may come between the read of the stage of a client and the write of the *)
(* next one.  Frames wait in the TX ring, with the list of consoles that   *)
(* each of them was for when it was built.  Any console may miss any       *)
(* frame, and any reply may be lost.  A console prepares its reply before  *)
(* the frame that asks for it, so a reply tells what it knew before.       *)
(* Which block goes out when, and what a console asks for next, is module  *)
(* DlStream: here a pass sends "a block", and any block a console takes    *)
(* may be the last one it was missing.                                     *)
(***************************************************************************)
EXTENDS Integers, FiniteSets, Sequences

CONSTANTS MaxClients,       \* dlplay_max_clients: association IDs are 1 to this
          NumPieces,        \* DLPLAY_REQ_PIECE_COUNT
          RequestFrames, FileInfoFrames, StartSendFrames, BootExtraFrames,
          BootFrames, SessionEndFrames, SilentFrames, CompleteFrames,
          IdleFrames,       \* DLPLAY_STATION_IDLE_FRAMES, DLPLAY_APP_IDLE_FRAMES
          Kinds,            \* what the consoles that join are
          Calls,            \* what the application calls
          KickBits,         \* width of reqKickClientAIDMask
          Lossy,            \* frames and replies get lost
          Departures,       \* how consoles go: they leave, or are switched off
          InStep,           \* assumed: the ARM7 is done with the ring when the next update comes
          RingSize          \* bound: frames that fit in the TX ring

AllKinds == {"program", "station", "app"}
AllCalls == {"boot", "manual", "switch", "gather", "lock", "send", "stop"}

ASSUME DlPlayAssumption ==
    /\ {MaxClients, NumPieces, KickBits, RingSize} \subseteq Nat \ {0}
    /\ {RequestFrames, FileInfoFrames, StartSendFrames, BootExtraFrames, BootFrames,
        SessionEndFrames, SilentFrames, CompleteFrames, IdleFrames} \subseteq Nat
    /\ Kinds \subseteq AllKinds
    /\ Calls \subseteq AllCalls
    /\ Departures \subseteq {"leave", "off"}
    /\ {Lossy, InStep} \subseteq BOOLEAN

AID    == 1 .. MaxClients
Pieces == 0 .. NumPieces - 1

\* The mask that asks for a kick hasn't got a bit for every AID.
Kickable == {a \in AID : a < KickBits}

VARIABLES
    active,        \* dlplay_active
    announced,     \* dlplay_beacon_started
    gather,        \* dlplay_gather
    manual,        \* dlplay_boot_mode is WIFI_DLPLAY_BOOT_MANUAL
    locked, full,  \* dlplay_room_locked, dlplay_room_full
    appOut,        \* dlplay_app_out_pending
    client,        \* dlplay_clients[]
    turn,          \* dlplay_bulk_turn
    state,         \* dlplay_state
    pc, sum,       \* main loop: where it is, and a summary that it hasn't stored yet
    verdict,       \* what the main loop has decided for each client and not done yet
    allow,         \* WFLAG_REQ_ALLOWCLIENTS
    wanted,        \* reqMode is WIFIMODE_ACCESSPOINT
    hosting,       \* curMode is WIFIMODE_ACCESSPOINT
    kick,          \* AIDs that the ARM7 has been asked to kick
    ring,          \* TX ring
    seat           \* the console that the ARM7 knows by each AID

settings == <<active, announced, gather, manual, locked, full>>
main     == <<pc, sum, verdict>>
shared   == <<allow, wanted, hosting>>
vars == <<settings, appOut, client, turn, state, main, shared, kick, ring, seat>>

Stages == {"NONE", "CONNECTED", "REQ_ACCEPTED", "WAIT_TO_SEND", "SEND_PROCEED",
           "SEND_COMPLETE", "BOOT_REQUEST", "SESSION_END", "STATION", "APP"}

\* What Wifi_DlPlaySendForState() decides, and "to_boot" Wifi_DlPlayBootClient().
\* "to_x": move to stage x as well.
Verdicts == {"none", "end", "to_end", "boot", "start", "info", "to_info", "to_wait",
             "send", "to_send", "station", "app", "to_boot"}

Ops == {"DUMMY", "SENDSTART", "FILEINFO", "DATA", "BOOTREQ", "APP", "CONTENT", "END"}

MaxOf(S) == CHOOSE n \in S : \A m \in S : m <= n
MinOf(S) == CHOOSE n \in S : \A m \in S : n <= m

\* Counters stop here: no comparison tells higher values apart.
WaitCap == 1 + MaxOf({RequestFrames, FileInfoFrames, StartSendFrames, BootFrames,
                      SessionEndFrames, CompleteFrames, IdleFrames})
Count(n, cap) == IF n < cap THEN n + 1 ELSE n

Forgotten == [stage |-> "NONE", wait |-> 0, idle |-> 0, pieces |-> {}, station |-> FALSE,
              accepted |-> 0, boot |-> FALSE]

(***************************************************************************)
(* A console: what it is, where it has got to, the piece of its request    *)
(* that comes next, whether it holds every block, and whether it is an     *)
(* heir: the host may still take it for the console that had its AID       *)
(* before, or has begun another session in the meantime.  One that has     *)
(* started the program or was switched off stays in the table of the ARM7  *)
(* until somebody removes it.                                              *)
(***************************************************************************)
ConsoleStates == {"away", "idle", "asking", "accepting", "loading", "loaded", "told",
                  "booted", "off"}

Empty == [kind |-> "program", at |-> "away", piece |-> 0, whole |-> FALSE, heir |-> FALSE]

Associated == {a \in AID : seat[a].at # "away"}
Listening  == {a \in AID : seat[a].at \notin {"away", "booted", "off"}}

TypeOK ==
    /\ {active, announced, gather, manual, locked, full, appOut} \subseteq BOOLEAN
    /\ {allow, wanted, hosting} \subseteq BOOLEAN
    /\ client \in [AID -> [stage : Stages, wait : 0 .. WaitCap, idle : 0 .. SilentFrames + 1,
                           pieces : SUBSET Pieces, station : BOOLEAN,
                           accepted : 0 .. BootExtraFrames + 1, boot : BOOLEAN]]
    /\ turn \in 0 .. MaxClients + 1
    /\ state \in 0 .. 6 /\ sum \in 0 .. 5
    /\ pc \in {"main", "send", "sum", "boot"}
    /\ verdict \in [AID -> Verdicts]
    /\ kick \subseteq Kickable
    /\ ring \in Seq([op : Ops, dest : SUBSET AID]) /\ Len(ring) <= RingSize
    /\ seat \in [AID -> [kind : AllKinds, at : ConsoleStates, piece : Pieces, whole : BOOLEAN,
                         heir : BOOLEAN]]

Nothing == [a \in AID |-> "none"]

\* After the first Wifi_DlPlayStart(), when the ARM7 has entered host mode.
Init ==
    /\ active = TRUE /\ announced = FALSE /\ gather = FALSE /\ manual = FALSE /\ locked = FALSE /\ full = FALSE
    /\ appOut = FALSE
    /\ client = [a \in AID |-> Forgotten]
    /\ turn = 0
    /\ state = 0 /\ pc = "main" /\ sum = 0
    /\ verdict = Nothing
    /\ allow = TRUE /\ wanted = TRUE /\ hosting = TRUE
    /\ kick = {} /\ ring = <<>>
    /\ seat = [a \in AID |-> Empty]

-----------------------------------------------------------------------------
(* What the program on top sees *)

\* The values of Wifi_DlPlayState, in order; 6 is an error.
StateOfStage(s) ==
    CASE s = "CONNECTED"                                      -> 1
      [] s \in {"REQ_ACCEPTED", "WAIT_TO_SEND"}               -> 2
      [] s = "SEND_PROCEED"                                   -> 3
      [] s \in {"SEND_COMPLETE", "BOOT_REQUEST", "SESSION_END"} -> 4
      [] s = "STATION"                                        -> 5
      [] OTHER                                                -> 0

Summary(c) == MaxOf({StateOfStage(c[a].stage) : a \in AID})

SetStage(c, s) == [c EXCEPT !.stage = s, !.wait = 0]

\* Every change of stage sums the clients up again.
Resummed(c) == IF \E a \in AID : c[a].stage # client[a].stage THEN Summary(c) ELSE state

-----------------------------------------------------------------------------
(* The replies, handled in an interrupt *)

FileRequest(c, r) ==
    LET p == c.pieces \cup {r.piece}
    IN IF p # Pieces THEN [c EXCEPT !.pieces = p]
       ELSE LET d == [c EXCEPT !.pieces = p,
                               !.station = IF c.pieces = Pieces THEN @ ELSE r.station]
            IN IF c.stage = "CONNECTED" THEN SetStage(d, "REQ_ACCEPTED") ELSE d

IsStation(c) == c.pieces = Pieces /\ c.station

\* Mutant: the second answer starts the transfer, whoever else is expected.
MutantRelease(c) == IF c.stage = "WAIT_TO_SEND" THEN SetStage(c, "SEND_PROCEED") ELSE c

\* The transfer begins when the host isn't waiting for others to join.
Release(c) == IF ~gather /\ c.stage = "WAIT_TO_SEND" THEN SetStage(c, "SEND_PROCEED") ELSE c

AcceptFileInfo(c) ==
    IF IsStation(c) THEN IF c.stage = "REQ_ACCEPTED" THEN SetStage(c, "STATION") ELSE c
    ELSE IF c.stage = "REQ_ACCEPTED" THEN SetStage(c, "WAIT_TO_SEND") ELSE Release(c)

\* Holding more blocks than before is progress.
Continue(c, r) == Release(IF r.more THEN [c EXCEPT !.wait = 0] ELSE c)

StopRequest(c) ==
    CASE c.stage = "SEND_PROCEED"                              -> SetStage(c, "SEND_COMPLETE")
      [] c.stage = "SEND_COMPLETE" /\ (~manual \/ c.boot)      -> SetStage(c, "BOOT_REQUEST")
      [] OTHER                                                 -> c

AppReply(c) == SetStage(c, "APP")

BootAccepted(c) == IF c.accepted = 0 THEN [c EXCEPT !.accepted = 1] ELSE c

\* A request for a file restarts the clock unless that file is going out already.
StationReply(c, r) == IF c.stage = "STATION" /\ r.new THEN [c EXCEPT !.wait = 0] ELSE c

Wifi_DlPlayFromClientHandler(old, r) ==
    LET c == [old EXCEPT !.idle = 0]
    IN CASE r.op = "FILEREQ"          -> FileRequest(c, r)
         [] r.op = "ACCEPT_FILEINFO"  -> AcceptFileInfo(c)
         [] r.op = "CONTINUE"         -> Continue(c, r)
         [] r.op = "STOPREQ"          -> StopRequest(c)
         [] r.op = "APP"              -> AppReply(c)
         [] r.op = "BOOTREQ_ACCEPTED" -> BootAccepted(c)
         [] r.op = "STATION"          -> StationReply(c, r)
         [] OTHER                     -> c     \* DUMMY

-----------------------------------------------------------------------------
(* The consoles: the software of Nintendo, as the comments describe it *)

Say(s, luck) ==
    IF s.kind = "app" THEN [op |-> "APP"]
    ELSE CASE s.at = "asking"    -> [op |-> "FILEREQ", piece |-> s.piece, station |-> s.kind = "station"]
           [] s.at = "accepting" -> IF luck /\ s.kind = "station" THEN [op |-> "STATION", new |-> TRUE]
                                    ELSE [op |-> "ACCEPT_FILEINFO"]
           [] s.at = "loading"   -> [op |-> "CONTINUE", more |-> luck]
           [] s.at = "loaded"    -> [op |-> "STOPREQ"]
           [] s.at = "told"      -> [op |-> "BOOTREQ_ACCEPTED"]
           [] OTHER              -> [op |-> "DUMMY"]

\* A piece of the request goes with every answer; the next time it is another.
Repeat(s) == IF s.at = "asking" THEN [s EXCEPT !.piece = (@ + 1) % NumPieces] ELSE s

\* A block that it was missing, perhaps the last one.
Take(s, luck) == [s EXCEPT !.whole = luck, !.at = IF luck THEN "loaded" ELSE "loading"]

\* Nothing is checked of the boot information or of a request to start.
Hear(s, a, f, luck) ==
    IF s.kind = "app" \/ a \notin f.dest THEN Repeat(s)
    ELSE CASE f.op = "SENDSTART" /\ s.at = "idle"  -> [s EXCEPT !.at = "asking", !.piece = 1 % NumPieces]
           [] f.op = "FILEINFO" /\ s.at \in {"idle", "asking"} -> [s EXCEPT !.at = "accepting", !.piece = 0]
           [] f.op = "DATA" /\ s.kind = "program" /\ s.at \in {"accepting", "loading"} -> Take(s, luck)
           [] f.op = "BOOTREQ" -> [s EXCEPT !.at = IF s.at = "told" THEN "booted" ELSE "told"]
           [] OTHER -> Repeat(s)

(* The ARM7 sends the frame at the front of the ring, which polls everyone. *)
Air(heard, answered, luck) ==
    LET f == Head(ring)
        c == [a \in AID |-> IF a \in answered /\ active
                            THEN Wifi_DlPlayFromClientHandler(client[a], Say(seat[a], luck))
                            ELSE client[a]]
    IN /\ ring # <<>>
       /\ ring' = Tail(ring)
       /\ seat' = [a \in AID |-> IF a \in heard THEN Hear(seat[a], a, f, luck) ELSE seat[a]]
       /\ client' = c
       /\ state' = Resummed(c)
       /\ UNCHANGED <<settings, appOut, turn, main, shared, kick>>

\* An association that the host would take for the one before it.
Unnoticed(a) == \/ client[a].stage # "NONE" \/ a \in kick
                \/ \E i \in 1 .. Len(ring) : a \in ring[i].dest

\* Wifi_MPHost_ClientAuthenticate() and Wifi_MPHost_ClientAssociate() only look at
\* the flag and at the table of the ARM7.
Join(a, k) ==
    /\ hosting /\ allow
    /\ seat[a].at = "away"
    /\ seat' = [seat EXCEPT ![a] = [Empty EXCEPT !.kind = k, !.at = "idle", !.heir = Unnoticed(a)]]
    /\ UNCHANGED <<settings, appOut, client, turn, state, main, shared, kick, ring>>

Leave(a) ==
    /\ "leave" \in Departures /\ seat[a].at # "away"
    /\ seat' = [seat EXCEPT ![a] = Empty]
    /\ UNCHANGED <<settings, appOut, client, turn, state, main, shared, kick, ring>>

SwitchOff(a) ==
    /\ "off" \in Departures /\ a \in Listening
    /\ seat' = [seat EXCEPT ![a].at = "off"]
    /\ UNCHANGED <<settings, appOut, client, turn, state, main, shared, kick, ring>>

\* Wifi_NTR_Update() in host mode serves the kick requests.
Kicked ==
    /\ hosting /\ wanted /\ kick # {}
    /\ seat' = [a \in AID |-> IF a \in kick THEN Empty ELSE seat[a]]
    /\ kick' = {}
    /\ UNCHANGED <<settings, appOut, client, turn, state, main, shared, ring>>

\* It enters and leaves host mode with an empty table; the mask stays as it is.
HostMode ==
    /\ hosting # wanted /\ hosting' = wanted
    /\ seat' = [a \in AID |-> Empty]
    /\ UNCHANGED <<settings, appOut, client, turn, state, main, allow, wanted, kick, ring>>

-----------------------------------------------------------------------------
(* The main loop: Wifi_DlPlayUpdate() *)

\* Clients that have associated, or have gone, since the last pass.
Noticed == [a \in AID |->
    CASE a \in Associated /\ client[a].stage = "NONE"    -> SetStage(client[a], "CONNECTED")
      [] a \notin Associated /\ client[a].stage # "NONE" -> Forgotten
      [] OTHER                                           -> client[a]]

\* Wifi_MultiplayerKickClientByAID()
Kick(S) == kick' = kick \cup (S \cap Kickable)

Gone == {a \in AID : a \notin Associated /\ client[a].stage # "NONE"}

UpdateNobody ==
    /\ Associated = {}
    /\ client' = IF Gone # {} THEN [a \in AID |-> Forgotten] ELSE client
    /\ IF Gone # {}
       THEN /\ turn' = 0
            /\ state' = IF \E a \in Gone : client[a].stage \in {"BOOT_REQUEST", "SESSION_END"}
                        THEN 4 ELSE 0
       ELSE UNCHANGED <<turn, state>>
    /\ full' = FALSE
    /\ allow' = ~locked
    /\ UNCHANGED <<main, kick>>

\* Nothing bounds how long a client is sent blocks, so no count is kept of it.
Counted(c) == [c EXCEPT !.wait = IF c.stage = "SEND_PROCEED" THEN @ ELSE Count(@, WaitCap),
                        !.idle = Count(@, SilentFrames + 1)]

\* Mutant: nobody looks at how long a client has been quiet.
MutantOnlyStalled(c) == \/ c.stage = "SEND_COMPLETE" /\ ~manual /\ c.wait > CompleteFrames
                        \/ c.stage \in {"STATION", "APP"} /\ c.wait > IdleFrames

\* Mutant: a client that the application holds is given up like the others.
MutantNotHeld(c) == \/ c.idle > SilentFrames
                    \/ c.stage = "SEND_COMPLETE" /\ c.wait > CompleteFrames
                    \/ c.stage \in {"STATION", "APP"} /\ c.wait > IdleFrames

\* Gone quiet, or answering without getting anywhere it was supposed to.
Hopeless(c) == \/ c.idle > SilentFrames
               \/ c.stage = "SEND_COMPLETE" /\ ~manual /\ c.wait > CompleteFrames
               \/ c.stage \in {"STATION", "APP"} /\ c.wait > IdleFrames

LetGo(c) == c.accepted > BootExtraFrames \/ c.wait > BootFrames

Verdict(c) ==
    CASE c.stage = "BOOT_REQUEST"  -> IF LetGo(c) THEN "to_end" ELSE "boot"
      [] c.stage = "SESSION_END"   -> IF c.wait <= SessionEndFrames THEN "end" ELSE "none"
      [] c.stage = "CONNECTED"     -> IF c.wait > RequestFrames THEN "to_info" ELSE "start"
      [] c.stage = "REQ_ACCEPTED"  -> IF c.wait > FileInfoFrames THEN "to_wait" ELSE "info"
      [] c.stage = "WAIT_TO_SEND"  -> IF ~gather /\ c.wait > StartSendFrames THEN "to_send" ELSE "none"
      [] c.stage = "SEND_PROCEED"  -> "send"
      [] c.stage = "STATION"       -> "station"
      [] c.stage = "APP"           -> "app"
      [] OTHER                     -> "none"

Present(c) == {a \in AID : c[a].stage # "NONE"}

UpdateClients ==
    /\ Associated # {}
    /\ full' = (Cardinality(Associated) >= MaxClients)
    /\ allow' = (~locked /\ ~full')
    /\ \E c \in {[a \in AID |-> IF Noticed[a].stage = "NONE" THEN Noticed[a] ELSE Counted(Noticed[a])]} :
       \E hopeless \in {{a \in Present(c) : Hopeless(c[a])}} :
       \E v \in {[a \in AID |-> IF a \in Present(c) \ hopeless THEN Verdict(c[a]) ELSE "none"]} :
          /\ client' = [a \in AID |-> IF v[a] = "boot" /\ c[a].accepted > 0
                                      THEN [c[a] EXCEPT !.accepted = @ + 1] ELSE c[a]]
          /\ state' = Resummed(c)
          /\ Kick(hopeless)
          /\ verdict' = v
    /\ pc' = "send"
    /\ UNCHANGED <<sum, turn>>

Wifi_DlPlayUpdate ==
    /\ active /\ announced /\ pc = "main"
    /\ UpdateNobody \/ UpdateClients
    /\ UNCHANGED <<active, announced, gather, manual, locked, appOut, wanted, hosting, ring, seat>>

\* The first update after the library mode is the one that was asked for creates the
\* beacon, or ends the session if there is no room for its frame.
Wifi_DlPlayStartBeacon(ok) ==
    /\ active /\ ~announced /\ pc = "main"
    /\ IF ok THEN announced' = TRUE /\ UNCHANGED <<active, state>>
             ELSE active' = FALSE /\ state' = 6 /\ UNCHANGED announced
    /\ UNCHANGED <<gather, manual, locked, full, appOut, client, turn, main, shared, kick, ring, seat>>

-----------------------------------------------------------------------------
(* Wifi_DlPlaySendForState(), once it has decided what each client needs *)

Decided(vs) == {a \in AID : verdict[a] \in vs}

\* The stage read when it was decided is written over, whatever it is by now.
Moved == [a \in AID |->
    CASE verdict[a] = "to_end"  -> SetStage(client[a], "SESSION_END")
      [] verdict[a] = "to_info" -> SetStage(client[a], "REQ_ACCEPTED")
      [] verdict[a] = "to_wait" -> SetStage(client[a], "WAIT_TO_SEND")
      [] verdict[a] = "to_send" -> SetStage(client[a], "SEND_PROCEED")
      [] OTHER                  -> client[a]]

\* Mutant: the list of clients has everybody in it.
MutantToAll(op, to) == ring' = IF Len(ring) < RingSize
                               THEN Append(ring, [op |-> op, dest |-> Associated]) ELSE ring

\* A frame that doesn't fit in the ring is dropped.
Fits == Len(ring) < RingSize
Send(op, to) == ring' = IF Fits THEN Append(ring, [op |-> op, dest |-> to \cap Associated])
                                ELSE ring

\* The turns of what may wait: 0 the blocks, then station clients, then the application.
Slots == 0 .. MaxClients + 1

Ready(ready) ==
    {s \in Slots : \/ s = 0 /\ Decided({"send", "to_send"}) # {}
                   \/ s \in ready
                   \/ s = MaxClients + 1 /\ Decided({"app"}) # {} /\ appOut}

\* Mutant: the blocks come first, then the station clients, then the application.
MutantPriority(S) == MinOf(S)

After(S) == LET later == {s \in S : s > turn} IN MinOf(IF later # {} THEN later ELSE S)

\* A chunk that goes out restarts the clock of the client, the length and the end of the
\* content don't.
StationServe(c, s) == IF Fits THEN {c, [c EXCEPT ![s].wait = 0]} ELSE {c}

\* "ready": the station clients that have something to send.
SendBulk(c, ready) ==
    IF Ready(ready) = {}
    THEN Send("DUMMY", AID) /\ client' = c /\ UNCHANGED <<appOut, turn>>
    ELSE LET s == After(Ready(ready))
         IN /\ turn' = s
            /\ client' \in IF s \in ready THEN StationServe(c, s) ELSE {c}
            /\ appOut' = (appOut /\ ~(s = MaxClients + 1 /\ Fits))
            /\ CASE s = 0     -> Send("DATA", Decided({"send", "to_send"}))
                 [] s \in AID -> Send("CONTENT", {s})
                 [] OTHER     -> Send("APP", Decided({"app"}))

Control(op, to) == Send(op, to) /\ UNCHANGED <<appOut, turn, kick>>

\* One message for each pass, in this order.
SendMessage(c, ready) ==
    LET ending   == Decided({"end", "to_end"})
        booting  == Decided({"boot"})
        starting == Decided({"start"})
        offered  == Decided({"info", "to_info"})
    IN IF ending # {} THEN /\ Kick(ending) /\ client' = c
                           /\ Send("END", {})
                           /\ UNCHANGED <<appOut, turn>>
       ELSE IF booting # {}  THEN Control("BOOTREQ", booting) /\ client' = c
       ELSE IF starting # {} THEN Control("SENDSTART", starting) /\ client' = c
       ELSE IF offered # {}  THEN Control("FILEINFO", offered) /\ client' = c
       ELSE SendBulk(c, ready) /\ UNCHANGED kick

Wifi_DlPlaySendForState(ready) ==
    /\ pc = "send"
    /\ ready \subseteq Decided({"station"})
    /\ \E c \in {Moved} :
          /\ SendMessage(c, ready)
          /\ IF c # client THEN pc' = "sum" /\ sum' = Summary(c)
                           ELSE pc' = "main" /\ UNCHANGED sum
    /\ verdict' = Nothing
    /\ UNCHANGED <<settings, state, shared, seat>>

\* The summary is worked out from the clients, and then stored.
UpdateSummaryState ==
    /\ pc = "sum"
    /\ state' = sum /\ sum' = 0 /\ pc' = "main"
    /\ UNCHANGED <<settings, appOut, client, turn, verdict, shared, kick, ring, seat>>

-----------------------------------------------------------------------------
(* What the application calls, in the same main loop *)

\* Mutant: a client that is still being sent the program can be started.
MutantBootEarly(a) ==
    /\ pc = "main" /\ "boot" \in Calls
    /\ client[a].stage \in {"SEND_PROCEED", "SEND_COMPLETE"}
    /\ verdict' = [Nothing EXCEPT ![a] = "to_boot"] /\ pc' = "boot"
    /\ UNCHANGED <<settings, appOut, client, turn, state, sum, shared, kick, ring, seat>>

\* The stage is looked at, and then written: a reply may come in between.
Wifi_DlPlayBootClient(a) ==
    /\ pc = "main" /\ "boot" \in Calls
    /\ client[a].stage = "SEND_COMPLETE"
    /\ verdict' = [Nothing EXCEPT ![a] = "to_boot"] /\ pc' = "boot"
    /\ UNCHANGED <<settings, appOut, client, turn, state, sum, shared, kick, ring, seat>>

BootRequested ==
    /\ pc = "boot"
    /\ client' = [a \in AID |-> IF verdict[a] = "to_boot"
                                THEN [SetStage(client[a], "BOOT_REQUEST") EXCEPT !.boot = TRUE]
                                ELSE client[a]]
    /\ pc' = "sum" /\ sum' = Summary(client') /\ verdict' = Nothing
    /\ UNCHANGED <<settings, appOut, turn, state, shared, kick, ring, seat>>

Setting == /\ pc = "main"
           /\ UNCHANGED <<client, turn, state, main, wanted, hosting, kick, ring, seat>>

\* "manual": before anyone comes; "switch": whenever it likes.
Wifi_DlPlaySetBootMode ==
    /\ Setting /\ ("switch" \in Calls \/ ("manual" \in Calls /\ Associated = {}))
    /\ manual' = ~manual /\ UNCHANGED <<active, announced, gather, locked, full, appOut, allow>>

Wifi_DlPlaySetGather ==
    /\ Setting /\ "gather" \in Calls
    /\ gather' = ~gather /\ UNCHANGED <<active, announced, manual, locked, full, appOut, allow>>

Wifi_DlPlayLockRoom ==
    /\ Setting /\ "lock" \in Calls
    /\ locked' = ~locked
    /\ allow' = IF active THEN ~locked' /\ ~full ELSE allow
    /\ UNCHANGED <<active, announced, gather, manual, full, appOut>>

\* One message at a time.
Wifi_DlPlayAppSend ==
    /\ Setting /\ "send" \in Calls
    /\ ~appOut /\ appOut' = TRUE /\ UNCHANGED <<settings, allow>>

\* The ARM7 is asked to leave host mode.
Wifi_DlPlayStop ==
    /\ pc = "main" /\ "stop" \in Calls /\ active
    /\ active' = FALSE /\ state' = 0 /\ allow' = FALSE /\ wanted' = FALSE
    /\ UNCHANGED <<announced, gather, manual, locked, full, appOut, client, turn, main, hosting, kick,
                   ring, seat>>

Unlocked == /\ gather' = FALSE /\ manual' = FALSE /\ locked' = FALSE /\ full' = FALSE
            /\ appOut' = FALSE

\* The program isn't one that can be sent.
StartRefused ==
    /\ Unlocked
    /\ UNCHANGED <<active, announced, client, turn, state, allow, wanted, seat>>

\* "ok": there is room for the fragments of the beacon.  The ARM7 may not have left the
\* host mode of the session before, and then whoever is in the room stays there.
StartHosting(ok) ==
    /\ Unlocked
    /\ active' = ok /\ announced' = (announced /\ ~ok) /\ allow' = ok /\ wanted' = TRUE
    /\ client' = [a \in AID |-> Forgotten]
    /\ turn' = 0 /\ state' = 0
    /\ seat' = [a \in AID |-> IF a \in Associated THEN [seat[a] EXCEPT !.heir = TRUE] ELSE seat[a]]

Wifi_DlPlayStart ==
    /\ pc = "main" /\ ~active
    /\ StartRefused \/ \E ok \in BOOLEAN : StartHosting(ok)
    /\ UNCHANGED <<main, hosting, kick, ring>>

Application ==
    \/ \E a \in AID : Wifi_DlPlayBootClient(a)
    \/ Wifi_DlPlaySetBootMode
    \/ Wifi_DlPlaySetGather
    \/ Wifi_DlPlayLockRoom
    \/ Wifi_DlPlayAppSend
    \/ Wifi_DlPlayStop
    \/ Wifi_DlPlayStart

Heard(S) == IF Lossy THEN SUBSET S ELSE {S}

AnyAir == \E heard \in Heard(Listening) : \E answered \in Heard(heard) :
            \E luck \in BOOLEAN : Air(heard, answered, luck)

SomeSend == \E ready \in SUBSET AID : Wifi_DlPlaySendForState(ready)

Consoles == \E a \in AID : (\E k \in Kinds : Join(a, k)) \/ Leave(a) \/ SwitchOff(a)

\* An assumption about the timing: an update comes every 16 ms, a frame takes a few.
OnTime == InStep => ring = <<>> /\ kick = {}

MainLoop == \/ OnTime /\ Wifi_DlPlayUpdate
            \/ \E ok \in BOOLEAN : Wifi_DlPlayStartBeacon(ok)
            \/ SomeSend
            \/ UpdateSummaryState
            \/ BootRequested

Arm7 == AnyAir \/ Kicked \/ HostMode

Next == MainLoop \/ Arm7 \/ Consoles \/ Application

Spec == Init /\ [][Next]_vars

\* The application calls Wifi_DlPlayUpdate() in every frame, and the ARM7 serves
\* its requests and sends what is in the ring.
FairSpec == Spec /\ WF_vars(MainLoop) /\ WF_vars(AnyAir) /\ WF_vars(Kicked)

-----------------------------------------------------------------------------

(***************************************************************************)
(* A console that is told to start the program holds every block of it.    *)
(* The console doesn't check, so Wifi_DlPlayBootClient() and the footer of *)
(* the frame are all that keeps one from rebooting into nothing.  This is  *)
(* about every console but an heir, whose record the host has got wrong.   *)
(***************************************************************************)
BootOnlyComplete == \A a \in AID : seat[a].at \in {"told", "booted"} /\ ~seat[a].heir
                                      => seat[a].whole

(***************************************************************************)
(* The same for every console.  This doesn't hold: a console that leaves   *)
(* and comes back between two updates finds the record of what it, or the  *)
(* one that had its AID, was before.                                       *)
(***************************************************************************)
BootEveryComplete == \A a \in AID : seat[a].at \in {"told", "booted"} => seat[a].whole

(***************************************************************************)
(* While the host gathers its room no client begins to download, neither   *)
(* from the main loop nor from the handler of the replies.                 *)
(***************************************************************************)
Gathered == [][gather /\ gather' => \A a \in AID : client'[a].stage = "SEND_PROCEED"
                                                     => client[a].stage = "SEND_PROCEED"]_vars

(***************************************************************************)
(* The bounds give up only on consoles that aren't coming back: one that   *)
(* is there and answers every frame keeps its place until it has been told *)
(* to start the program, however long the others or the application take,  *)
(* unless it is an heir to the counters of somebody else.                  *)
(***************************************************************************)
HealthyKept == [][active' => \A a \in (kick' \ kick) \cap Listening :
                                seat[a].heir \/ client'[a].stage = "SESSION_END"]_vars

(***************************************************************************)
(* A console that was switched off, or that has gone to run the program,   *)
(* doesn't keep its place of the room for ever, if the mask of the ones to *)
(* kick has a bit for it.                                                  *)
(***************************************************************************)
ComesBack(a) == seat[a].at \in {"off", "booted"} ~> (seat[a].at = "away" \/ ~active)

SeatsComeBack == \A a \in Kickable : ComesBack(a)

(***************************************************************************)
(* What the comment on the limits says: no console that has gone keeps one *)
(* of the fifteen places.  This doesn't hold: reqKickClientAIDMask has     *)
(* eight bits, so the AIDs from 8 on are never kicked.                     *)
(***************************************************************************)
EverySeatComesBack == \A a \in AID : ComesBack(a)

(***************************************************************************)
(* A message of the application for the programs already delivered goes    *)
(* out although blocks are being sent all the time, unless somebody needs  *)
(* a control message.                                                      *)
(***************************************************************************)
AppHere == \E a \in Listening : seat[a].kind = "app" /\ ~seat[a].heir
Busy    == \E a \in AID : client[a].stage \in {"CONNECTED", "REQ_ACCEPTED", "BOOT_REQUEST", "SESSION_END"}
AppServed == appOut ~> (~appOut \/ ~AppHere \/ Busy \/ ~active)

=============================================================================
