----------------------------- MODULE Lifecycle ------------------------------
(***************************************************************************)
(* How the two CPUs of the console begin and stop sharing a                *)
(* Wifi_MainStruct.  The ARM9 allocates it, sends its address over the     *)
(* FIFO and waits for a flag in it, but not for ever.  To stop, it sends a *)
(* message, waits for the flag to go and frees the structure.              *)
(*                                                                         *)
(* The ARM7 handles the messages of the FIFO, the vertical blank and the   *)
(* interrupts of the WiFi hardware one at a time: they are all handlers of *)
(* interrupts.  Its Wifi_Init() waits for hardware and may never return.   *)
(* With lwIP the library can't be stopped, and an initialisation of lwIP   *)
(* that fails stops the program; this is how the library is used without.  *)
(***************************************************************************)
EXTENDS Integers, FiniteSets, Sequences

CONSTANTS Address,     \* where aligned_alloc() may put the structure
          NULL,
          Chunks,      \* WIFI_ARM7_READY_CHUNKS
          Abi,         \* versions of the library that the ARM7 may have been built from
          FifoSize,    \* messages that a queue of the FIFO holds
          MaxInits     \* bound: calls of Wifi_InitDefault()

ASSUME LifecycleAssumption ==
    /\ NULL \notin Address /\ {"SYNC", "DEINIT"} \cap Address = {}
    /\ {Chunks, MaxInits} \subseteq Nat /\ FifoSize \in Nat \ {0}
    /\ Abi \subseteq {"same", "other"} /\ Abi # {}

VARIABLES
    abi,             \* the version of the ARM7, doesn't change
    live, mem,       \* the allocated addresses; what is at each address
    cached, data9,   \* ARM9: WifiDataCached and WifiData
    pc9, chunk,      \* ARM9: where the application is, polls of Wifi_InitIPC()
    handler9,        \* ARM9: wifiValue32Handler() is installed
    up,              \* Wifi_InitDefault() has returned true
    to7, to9,        \* the FIFO
    data7, pc7,      \* ARM7: WifiData, and what it is doing
    irq7,            \* ARM7: Wifi_Interrupt() is installed
    inits,           \* calls of Wifi_InitDefault()
    gaveUp, stray    \* history: a wait was given up; freed memory was accessed

arm9   == <<cached, data9, pc9, chunk, handler9, up, inits, gaveUp>>
arm7   == <<data7, pc7, irq7>>
memory == <<live, mem, stray>>
vars   == <<abi, memory, arm9, arm7, to7, to9>>

Pointer == Address \cup {NULL}
Message == {"SYNC", "DEINIT"} \cup Address
Modes   == {"DISABLED", "NORMAL"}
Struct  == [active : BOOLEAN, req : Modes, cur : Modes]

TypeOK ==
    /\ abi \in Abi
    /\ live \subseteq Address /\ mem \in [Address -> Struct]
    /\ cached \in Pointer /\ data9 \in Pointer /\ data7 \in Pointer
    /\ pc9 \in {"main", "wait", "ready", "deinit"} /\ chunk \in 0 .. Chunks
    /\ pc7 \in {"idle", "init", "ready", "deinit"}
    /\ {handler9, up, irq7, gaveUp, stray} \subseteq BOOLEAN
    /\ to7 \in Seq(Message) /\ Len(to7) <= FifoSize
    /\ to9 \in Seq({"SYNC"}) /\ Len(to9) <= FifoSize
    /\ inits \in 0 .. MaxInits

Cleared == [active |-> FALSE, req |-> "DISABLED", cur |-> "DISABLED"]

Init ==
    /\ abi \in Abi
    /\ live = {} /\ mem = [a \in Address |-> Cleared] /\ stray = FALSE
    /\ cached = NULL /\ data9 = NULL /\ pc9 = "main" /\ chunk = 0
    /\ handler9 = FALSE /\ up = FALSE /\ inits = 0 /\ gaveUp = FALSE
    /\ to7 = <<>> /\ to9 = <<>>
    /\ data7 = NULL /\ pc7 = "idle" /\ irq7 = FALSE

\* An access to the structure at address a.
Touch(a) == stray' = (stray \/ a \notin live)

\* fifoSendValue32() and fifoSendAddress() refuse a message when the queue is full.
Accepts(q)  == Len(q) < FifoSize
Sent(q, m) == IF Accepts(q) THEN Append(q, m) ELSE q

-----------------------------------------------------------------------------
(* The ARM9 *)

\* The assertion at the start of Wifi_InitIPC().
MayInit == /\ pc9 = "main" /\ cached = NULL
           /\ inits < MaxInits /\ inits' = inits + 1

\* aligned_alloc() fails: WifiData stays what the session before left in it.
NoMemory ==
    /\ MayInit
    /\ UNCHANGED <<abi, memory, cached, data9, pc9, chunk, handler9, up, gaveUp, arm7, to7, to9>>

\* What an address may be a view of: the structure as the cache of the ARM9 has it, other
\* memory, nothing that keeps what is written to it, or the structure as the ARM7 has it.
Views == {"same", "cached", "other", "nothing", "uncached"}

\* A value written to the one must be read from the other, twice and then the other way
\* round: the cache gives itself away by the second value, what isn't memory by the first.
Wifi_MirrorWorks(view) == view \notin {"same", "cached", "other", "nothing"}

Wifi_SelectMirror(candidates) == \E view \in candidates : Wifi_MirrorWorks(view)

\* It allocates and clears the structure.  None of the candidates may work, or the FIFO
\* may refuse the address.
Wifi_InitIPC(a, candidates) ==
    /\ MayInit
    /\ a \notin live
    /\ mem' = [mem EXCEPT ![a] = Cleared]
    /\ IF Wifi_SelectMirror(candidates) /\ Accepts(to7)
       THEN /\ live' = live \cup {a} /\ cached' = a /\ data9' = a
            /\ to7' = Append(to7, a)
            /\ pc9' = "wait" /\ chunk' = 0
       ELSE /\ data9' = NULL
            /\ UNCHANGED <<live, cached, to7, pc9, chunk>>
    /\ UNCHANGED <<abi, stray, handler9, up, gaveUp, arm7, to9>>

WaitForArm7 ==
    /\ pc9 = "wait" /\ chunk < Chunks
    /\ Touch(data9)
    /\ IF mem[data9].active THEN pc9' = "ready" /\ UNCHANGED chunk
                            ELSE chunk' = chunk + 1 /\ UNCHANGED pc9
    /\ UNCHANGED <<abi, live, mem, cached, data9, handler9, up, inits, gaveUp, arm7, to7, to9>>

\* It doesn't look at the flag again after the last delay.
GiveUp ==
    /\ pc9 = "wait" /\ chunk = Chunks
    /\ Touch(data9)
    /\ live' = live \ {cached} /\ cached' = NULL /\ data9' = NULL
    /\ pc9' = "main" /\ gaveUp' = TRUE
    /\ UNCHANGED <<abi, mem, chunk, handler9, up, inits, arm7, to7, to9>>

\* The end of Wifi_InitDefault(): old messages are dropped.
Wifi_InitDefault ==
    /\ pc9 = "ready"
    /\ to9' = <<>> /\ handler9' = TRUE
    /\ up' = TRUE /\ pc9' = "main"
    /\ UNCHANGED <<abi, memory, cached, data9, chunk, inits, gaveUp, arm7, to7>>

\* Wifi_EnableWifi() and Wifi_DisableWifi().
Request(m) ==
    /\ pc9 = "main" /\ up /\ mem[data9].req # m
    /\ Touch(data9)
    /\ mem' = [mem EXCEPT ![data9].req = m]
    /\ UNCHANGED <<abi, live, arm9, arm7, to7, to9>>

\* The application sends a frame.
Transmit ==
    /\ pc9 = "main" /\ up
    /\ Touch(data9)
    /\ to7' = Sent(to7, "SYNC")
    /\ UNCHANGED <<abi, live, mem, arm9, arm7, to9>>

\* wifiValue32Handler() of the ARM9, an interrupt.  Without it messages stay in the queue.
Wifi_Update9 ==
    /\ handler9 /\ to9 # <<>>
    /\ to9' = Tail(to9)
    /\ Touch(data9)
    /\ UNCHANGED <<abi, live, mem, arm9, arm7, to7>>

\* Mutant: the handler of messages is left installed.
MutantKeepsHandler ==
    /\ pc9 = "main" /\ up
    /\ mem[data9].req = "DISABLED" /\ mem[data9].cur = "DISABLED"
    /\ Touch(data9)
    /\ to7' = Sent(to7, "DEINIT")
    /\ up' = FALSE /\ pc9' = "deinit"
    /\ UNCHANGED <<abi, live, mem, cached, data9, chunk, handler9, inits, gaveUp, arm7, to9>>

Wifi_Deinit ==
    /\ pc9 = "main" /\ up
    /\ mem[data9].req = "DISABLED" /\ mem[data9].cur = "DISABLED"
    /\ Touch(data9)
    /\ handler9' = FALSE
    /\ to7' = Sent(to7, "DEINIT")
    /\ up' = FALSE /\ pc9' = "deinit"
    /\ UNCHANGED <<abi, live, mem, cached, data9, chunk, inits, gaveUp, arm7, to9>>

\* WifiData isn't cleared.
WaitAndFree ==
    /\ pc9 = "deinit" /\ ~mem[data9].active
    /\ Touch(data9)
    /\ live' = live \ {cached} /\ cached' = NULL
    /\ pc9' = "main"
    /\ UNCHANGED <<abi, mem, data9, chunk, handler9, up, inits, gaveUp, arm7, to7, to9>>

-----------------------------------------------------------------------------
(* The ARM7 *)

\* The first thing that Wifi_Init() does; it goes no further with another version of
\* the structure.
ReceiveAddress ==
    /\ pc7 = "idle" /\ to7 # <<>> /\ Head(to7) \in Address
    /\ to7' = Tail(to7)
    /\ data7' = Head(to7)
    /\ Touch(data7')
    /\ pc7' = IF abi = "same" THEN "init" ELSE "idle"
    /\ UNCHANGED <<abi, live, mem, arm9, irq7, to9>>

\* Mutant: the flag is set before the hardware is ready.
MutantActiveFirst ==
    /\ pc7 = "init"
    /\ Touch(data7)
    /\ mem' = [mem EXCEPT ![data7].cur = "DISABLED", ![data7].active = TRUE]
    /\ irq7' = TRUE /\ pc7' = "ready"
    /\ UNCHANGED <<abi, live, arm9, data7, to7, to9>>

Wifi_NTR_Init ==
    /\ pc7 = "init"
    /\ Touch(data7)
    /\ mem' = [mem EXCEPT ![data7].cur = "DISABLED"]
    /\ irq7' = TRUE /\ pc7' = "ready"
    /\ UNCHANGED <<abi, live, arm9, data7, to7, to9>>

\* The last line of Wifi_Init().
Wifi_Init ==
    /\ pc7 = "ready"
    /\ Touch(data7)
    /\ mem' = [mem EXCEPT ![data7].active = TRUE]
    /\ pc7' = "idle"
    /\ UNCHANGED <<abi, live, arm9, data7, irq7, to7, to9>>

\* Wifi_Update() does what the ARM9 has requested, if there is a structure.
Update ==
    IF data7 = NULL THEN UNCHANGED memory
    ELSE /\ Touch(data7)
         /\ mem' = [mem EXCEPT ![data7].cur = mem[data7].req]
         /\ UNCHANGED live

VBlank ==
    /\ pc7 = "idle"
    /\ Update
    /\ UNCHANGED <<abi, arm9, arm7, to7, to9>>

ReceiveSync ==
    /\ pc7 = "idle" /\ to7 # <<>> /\ Head(to7) = "SYNC"
    /\ to7' = Tail(to7)
    /\ Update
    /\ UNCHANGED <<abi, arm9, arm7, to9>>

\* A frame is received and the ARM9 is told.
Wifi_Interrupt ==
    /\ pc7 = "idle" /\ irq7 /\ mem[data7].cur # "DISABLED"
    /\ Touch(data7)
    /\ to9' = Sent(to9, "SYNC")
    /\ UNCHANGED <<abi, live, mem, arm9, arm7, to7>>

\* Wifi_NTR_Deinit(): interrupts first, then the hardware.
ReceiveDeinit ==
    /\ pc7 = "idle" /\ to7 # <<>> /\ Head(to7) = "DEINIT"
    /\ to7' = Tail(to7)
    /\ Touch(data7)
    /\ irq7' = FALSE /\ pc7' = "deinit"
    /\ UNCHANGED <<abi, live, mem, arm9, data7, to9>>

\* Mutant: the ARM7 doesn't say that it has stopped.
MutantSaysNothing ==
    /\ pc7 = "deinit"
    /\ Touch(data7)
    /\ data7' = NULL /\ pc7' = "idle"
    /\ UNCHANGED <<abi, live, mem, arm9, irq7, to7, to9>>

Stopped ==
    /\ pc7 = "deinit"
    /\ Touch(data7)
    /\ mem' = [mem EXCEPT ![data7].active = FALSE]
    /\ data7' = NULL /\ pc7' = "idle"
    /\ UNCHANGED <<abi, live, arm9, irq7, to7, to9>>

-----------------------------------------------------------------------------

Calls == WaitForArm7 \/ GiveUp \/ Wifi_InitDefault \/ WaitAndFree

Application ==
    \/ NoMemory
    \/ \E a \in Address, candidates \in SUBSET Views : Wifi_InitIPC(a, candidates)
    \/ \E m \in Modes : Request(m)
    \/ Transmit
    \/ Wifi_Deinit

\* What doesn't wait for hardware.
Handlers == ReceiveAddress \/ ReceiveSync \/ ReceiveDeinit \/ Stopped

Next == Calls \/ Application \/ Handlers \/ Wifi_NTR_Init \/ Wifi_Init \/ VBlank
             \/ Wifi_Interrupt \/ Wifi_Update9

Spec == Init /\ [][Next]_vars

\* Both CPUs go on.  Nothing says that Wifi_NTR_Init() returns.
FairSpec == Spec /\ WF_vars(Calls) /\ WF_vars(Handlers) /\ WF_vars(Wifi_Init)

(***************************************************************************)
(* As long as no wait for the ARM7 has been given up, neither CPU accesses *)
(* the structure after it was freed: not with a message that was on its    *)
(* way, nor in an interrupt that comes late.                               *)
(***************************************************************************)
LiveMemoryOnly == stray => gaveUp

(***************************************************************************)
(* When the library is up, the ARM7 uses the same structure and has done   *)
(* all of its initialisation, and the ones it used before are forgotten.   *)
(***************************************************************************)
ReadyAgrees == up /\ ~gaveUp => /\ data7 = cached /\ data9 = cached
                                /\ pc7 = "idle" /\ irq7

(***************************************************************************)
(* Wifi_InitDefault() returns, also if the ARM7 is stuck in its part of    *)
(* the initialisation; so does Wifi_Deinit(), if the FIFO took its message *)
(* (it doesn't look, and with a full queue it would wait for ever).        *)
(***************************************************************************)
Asked == pc9 = "deinit" /\ ~gaveUp /\ \E i \in 1 .. Len(to7) : to7[i] = "DEINIT"

CallsReturn == /\ pc9 = "wait" ~> pc9 # "wait"
               /\ Asked ~> pc9 # "deinit"

(***************************************************************************)
(* An ARM7 that was built from another version touches nothing but the     *)
(* number of the version and the stage.  This doesn't hold: its pointer is *)
(* set, and its next vertical blank uses the structure.                    *)
(***************************************************************************)
OtherVersionStops == abi = "other" => data7 = NULL

=============================================================================
