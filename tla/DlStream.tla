------------------------------ MODULE DlStream ------------------------------
(***************************************************************************)
(* The blocks of a program that a DS Download Play host sends: one stream  *)
(* for all the consoles, which keep whichever blocks they are missing and  *)
(* ask for the next one.  A pass of Wifi_DlPlaySendNextBlock() serves what *)
(* they have asked for and then lets the stream run ahead of the console   *)
(* that is furthest along.                                                 *)
(*                                                                         *)
(* A client takes part while its stage is SEND_PROCEED.  Module DlPlay     *)
(* says when it gets there and when it leaves; it may be a console that    *)
(* wants no blocks at all and says so for ever.  Consoles miss frames, and *)
(* their replies get lost.                                                 *)
(***************************************************************************)
EXTENDS Integers, FiniteSets, Sequences

CONSTANTS MaxClients,   \* WIFI_MAX_MULTIPLAYER_CLIENTS
          NumBlocks,    \* dlplay_rom.total_blocks
          MaxPerUpdate, \* DLPLAY_BLOCKS_PER_UPDATE_MAX
          InFlight,     \* blocks on their way on top of those of a pass, 2 in the code
          MaxAhead,     \* DLPLAY_SEND_THRESHOLD_MAX
          RingSize,     \* bound: frames that fit in the TX ring
          MaxPaces,     \* bound: calls of Wifi_DlPlaySetPace()
          MaxBegins     \* bound: how many times a client begins

ASSUME DlStreamAssumption ==
    /\ {MaxClients, NumBlocks, MaxPerUpdate, RingSize} \subseteq Nat \ {0}
    /\ {InFlight, MaxAhead} \subseteq Nat /\ MaxAhead >= MaxPerUpdate + InFlight
    /\ {MaxBegins, MaxPaces} \subseteq Nat

AID    == 1 .. MaxClients
Blocks == 0 .. NumBlocks - 1
Dummy  == -1      \* a frame without a block

VARIABLES
    sending,              \* clients in stage SEND_PROCEED
    next,                 \* next_block of each client
    block, requested,     \* dlplay_block, dlplay_block_requested
    rotate,               \* the static counter of Wifi_DlPlaySendNextBlock()
    perUpdate, ahead,     \* dlplay_per_update, dlplay_ahead
    paces,                \* how many times they were set
    ring,                 \* blocks in the TX ring
    takers,               \* clients that are after the program
    got, last,            \* each console: the blocks it holds, the last one it took
    begins                \* how many times a client has begun

host     == <<sending, next, block, requested, rotate, ring>>
pace     == <<perUpdate, ahead, paces>>
consoles == <<takers, got, last>>
vars     == <<host, pace, consoles, begins>>

TypeOK ==
    /\ sending \subseteq AID
    /\ next \in [AID -> 0 .. NumBlocks]
    /\ block \in 0 .. NumBlocks
    /\ requested \in BOOLEAN
    /\ rotate \in 0 .. MaxClients - 1
    /\ perUpdate \in 1 .. MaxPerUpdate
    /\ ahead \in perUpdate + InFlight .. MaxAhead
    /\ ring \in Seq(Blocks \cup {Dummy}) /\ Len(ring) <= RingSize
    /\ takers \subseteq AID
    /\ got \in [AID -> SUBSET Blocks]
    /\ last \in [AID -> Blocks \cup {-1}]
    /\ begins \in 0 .. MaxBegins /\ paces \in 0 .. MaxPaces

Init ==
    /\ sending = {} /\ next = [a \in AID |-> 0]
    /\ block = 0 /\ requested = FALSE /\ rotate = 0
    /\ perUpdate = 1 /\ ahead = 1 + InFlight
    /\ ring = <<>>
    /\ takers = {} /\ got = [a \in AID |-> {}] /\ last = [a \in AID |-> -1]
    /\ begins = 0 /\ paces = 0

MaxOf(S) == CHOOSE n \in S : \A m \in S : m <= n
MinOf(S) == CHOOSE n \in S : \A m \in S : n <= m

-----------------------------------------------------------------------------
(* The host *)

\* Its record was cleared when it associated, so it starts at block 0.
Begin(a, wants) ==
    /\ begins < MaxBegins /\ begins' = begins + 1
    /\ a \notin sending
    /\ sending' = sending \cup {a}
    /\ next' = [next EXCEPT ![a] = 0]
    /\ takers' = IF wants THEN takers \cup {a} ELSE takers \ {a}
    /\ got' = [got EXCEPT ![a] = {}] /\ last' = [last EXCEPT ![a] = -1]
    /\ UNCHANGED <<block, requested, rotate, ring, pace>>

\* The client has gone.
Forget(a) ==
    /\ a \in sending
    /\ sending' = sending \ {a}
    /\ next' = [next EXCEPT ![a] = 0]
    /\ takers' = takers \ {a}
    /\ got' = [got EXCEPT ![a] = {}] /\ last' = [last EXCEPT ![a] = -1]
    /\ UNCHANGED <<block, requested, rotate, ring, pace, begins>>

\* Nobody is associated any more: the stream starts again.
Wifi_DlPlayResetClient ==
    /\ sending = {}
    /\ block' = 0 /\ requested' = FALSE
    /\ UNCHANGED <<sending, next, rotate, ring, pace, consoles, begins>>

\* The pace is changed at most MaxPaces times.
Wifi_DlPlaySetPace(p, n) ==
    LET per == MinOf({MaxPerUpdate, MaxOf({1, p})})
    IN /\ paces < MaxPaces /\ paces' = paces + 1
       /\ perUpdate' = per
       /\ ahead' = MinOf({MaxAhead, MaxOf({per + InFlight, n})})
       /\ UNCHANGED <<host, consoles, begins>>

Space == RingSize - Len(ring)
First(q, n) == SubSeq(q, 1, MinOf({n, Len(q)}))
Elements(q) == {q[i] : i \in 1 .. Len(q)}

\* Mutant: the requests are always looked at from AID 1 on.
MutantFromOne(i) == i

\* AIDs in the order in which their requests are looked at.
InTurn(i) == 1 + ((rotate + i) % MaxClients)

Asks(i) == InTurn(i) \in sending /\ next[InTurn(i)] < NumBlocks

\* Every distinct block that somebody asks for, as many as one update may send.
Wanted ==
    LET first(i) == /\ Asks(i)
                    /\ \A j \in 1 .. i - 1 : Asks(j) => next[InTurn(j)] # next[InTurn(i)]
        turns == SelectSeq([i \in AID |-> i], first)
    IN First([k \in 1 .. Len(turns) |-> next[InTurn(turns[k])]], perUpdate)

Highest == MaxOf({0} \cup {next[a] : a \in sending})

\* Where the stream goes on: back to what was asked for if it has run too far ahead.
Cursor == IF requested /\ (block < Highest \/ block > Highest + ahead) THEN Highest ELSE block

\* What was asked for goes first, and the stream fills what is left of the pass.  A
\* block that was asked for is passed over even if the ring had no room for it.
Stream(from, upto, wanted) ==
    SelectSeq([i \in 1 .. NumBlocks |-> i - 1],
              LAMBDA b : b \in from .. upto /\ b \notin Elements(wanted))

Queue(sent) == ring' = ring \o First(IF sent = <<>> THEN <<Dummy>> ELSE sent, Space)

Wifi_DlPlaySendNextBlock ==
    /\ sending # {}
    /\ \E wanted \in {Wanted}, from \in {Cursor} :
       \E served \in {First(wanted, Space)} :
       \E upto \in {MinOf({from + perUpdate - Len(served) - 1, Highest + ahead, NumBlocks - 1})} :
       \E more \in {Stream(from, upto, wanted)}, room \in {Space - Len(served)} :
          /\ block' = IF Len(more) > room THEN more[room + 1] ELSE MaxOf({from, upto + 1})
          /\ Queue(served \o First(more, room))
    /\ rotate' = (rotate + 1) % MaxClients
    /\ requested' = FALSE
    /\ UNCHANGED <<sending, next, pace, consoles, begins>>

-----------------------------------------------------------------------------
(* The consoles, and the handler of their replies *)

Missing(a) == Blocks \ got[a]

\* The next block it hasn't got after the last one it received, or the first one.
NextBlock(a) == LET later == {b \in Missing(a) : b > last[a]}
                IN MinOf(IF later # {} THEN later ELSE Missing(a))

Takes(a, b) == a \in takers /\ b \in Missing(a)

Continues(answered) == {a \in answered \cap takers : Missing(a) # {}}
Stops(answered)     == {a \in answered \cap takers : Missing(a) = {}}

\* The front frame is sent.  The reply was prepared before it came.
Air(heard, answered) ==
    LET b == Head(ring)
    IN /\ ring # <<>>
       /\ ring' = Tail(ring)
       /\ got' = [a \in AID |-> IF a \in heard /\ Takes(a, b) THEN got[a] \cup {b} ELSE got[a]]
       /\ last' = [a \in AID |-> IF a \in heard /\ Takes(a, b) THEN b ELSE last[a]]
       /\ next' = [a \in AID |-> IF a \in Continues(answered) THEN NextBlock(a) ELSE next[a]]
       /\ requested' = (requested \/ Continues(answered) # {})
       /\ sending' = sending \ Stops(answered)
       /\ UNCHANGED <<block, rotate, pace, takers, begins>>

AnyAir == \E heard \in SUBSET sending : \E answered \in SUBSET heard : Air(heard, answered)

Next == \/ \E a \in AID : (\E wants \in BOOLEAN : Begin(a, wants)) \/ Forget(a)
        \/ \E p \in {0, MaxPerUpdate + 1}, n \in {0, MaxAhead + 1} : Wifi_DlPlaySetPace(p, n)
        \/ Wifi_DlPlayResetClient
        \/ Wifi_DlPlaySendNextBlock
        \/ AnyAir

Spec == Init /\ [][Next]_vars

-----------------------------------------------------------------------------
(* A frame that has a block for console a, or whose reply tells the host what it needs. *)
Useful(a) == /\ a \in sending \cap takers /\ ring # <<>>
             /\ IF Missing(a) = {} THEN TRUE
                ELSE Head(ring) \in Missing(a) \/ NextBlock(a) # next[a]

Exchange(a) == Useful(a) /\ Air({a}, {a})

(***************************************************************************)
(* The main loop and the ARM7 go on.  Nothing makes a console miss every   *)
(* frame that has a block it needs, or the host every reply of a console:  *)
(* one that is out of reach is given up, which module DlPlay shows.        *)
(***************************************************************************)
Goes == /\ WF_vars(Wifi_DlPlaySendNextBlock) /\ WF_vars(AnyAir)
        /\ \A a \in AID : SF_vars(Exchange(a))

\* A pass finds the ring empty, with this client first in turn.
FreshPass(r) == ring = <<>> /\ rotate = r /\ Wifi_DlPlaySendNextBlock

\* Again and again, whoever's turn it is, the ARM7 has caught up with the main loop.
KeepsUp == \A r \in 0 .. MaxClients - 1 : []<>(sending = {}) \/ []<><<FreshPass(r)>>_vars

FairSpec == Spec /\ Goes /\ KeepsUp

(***************************************************************************)
(* Every console that is sent the program gets all of it, whoever is ahead *)
(* of it, and whoever keeps its place in the stream without taking blocks. *)
(***************************************************************************)
EveryoneServed == \A a \in AID : (a \in sending \cap takers) ~> (a \notin sending)

=============================================================================
