--------------------------- MODULE LifecycleProofs --------------------------
(* Proofs about the beginning and the end of a session, for any addresses,   *)
(* versions, bounds of the wait and size of the FIFO.                        *)
EXTENDS Lifecycle, TLAPS

(***************************************************************************)
(* As long as no wait was given up a session is in one of seven phases,    *)
(* each of which says what the ARM7 may hold and which messages are on     *)
(* their way to it.                                                        *)
(***************************************************************************)

\* The ARM7 has no structure and nothing to do.
Idle7 == data7 = NULL /\ pc7 = "idle" /\ ~irq7

\* The ARM7 works with the structure of the ARM9.
Serves == data7 = cached /\ pc7 = "idle" /\ irq7 /\ mem[cached].active

OnlySync(q) == \A i \in 1 .. Len(q) : q[i] = "SYNC"

\* Nothing comes after WIFI_DEINIT.
DeinitLast(q) == \A i \in 1 .. Len(q) : q[i] = "SYNC" \/ (q[i] = "DEINIT" /\ i = Len(q))

Down     == pc9 = "main" /\ ~up /\ cached = NULL /\ live = {} /\ Idle7 /\ to7 = <<>>
Called   == pc9 = "wait" /\ Idle7 /\ to7 = <<cached>> /\ ~mem[cached].active
Starting == /\ pc9 = "wait" /\ to7 = <<>> /\ data7 = cached /\ ~mem[cached].active
            /\ pc7 = "idle" => ~irq7 /\ abi = "other"
            /\ pc7 \in {"idle", "init", "ready"} /\ (pc7 = "ready" => irq7)
Ready    == pc9 \in {"wait", "ready"} /\ Serves /\ to7 = <<>>
Running  == pc9 = "main" /\ up /\ Serves /\ OnlySync(to7)
Stopping == /\ pc9 = "deinit" /\ mem[cached].active /\ data7 = cached
            /\ \/ pc7 = "idle" /\ irq7 /\ DeinitLast(to7)
               \/ pc7 = "deinit" /\ ~irq7 /\ to7 = <<>>
Stopped9 == pc9 = "deinit" /\ Idle7 /\ to7 = <<>> /\ ~mem[cached].active

\* What every phase but the first has in common.
Owned == live = {cached} /\ cached \in Address /\ data9 = cached /\ (up => pc9 = "main")

Phase == Down \/ (Owned /\ (Called \/ Starting \/ Ready \/ Running \/ Stopping \/ Stopped9))

IInv == TypeOK /\ handler9 = up /\ (~gaveUp => ~stray /\ Phase)

-----------------------------------------------------------------------------
(* The FIFO *)

LEMMA TailOf ==
    ASSUME NEW S, NEW q \in Seq(S), q # <<>>
    PROVE  /\ Tail(q) \in Seq(S) /\ Head(q) = q[1] /\ Len(q) \in Nat \ {0}
           /\ Len(Tail(q)) = Len(q) - 1
           /\ \A i \in 1 .. Len(q) - 1 : Tail(q)[i] = q[i + 1]
  OBVIOUS

LEMMA SentTo ==
    ASSUME NEW S, NEW q \in Seq(S), NEW m \in S, Len(q) <= FifoSize
    PROVE  /\ Sent(q, m) \in Seq(S) /\ Len(Sent(q, m)) <= FifoSize
           /\ \A i \in 1 .. Len(Sent(q, m)) :
                 IF i <= Len(q) THEN Sent(q, m)[i] = q[i]
                                ELSE Sent(q, m)[i] = m /\ i = Len(Sent(q, m))
  <1>1. CASE Accepts(q)
    <2>1. Sent(q, m) = Append(q, m)  BY <1>1 DEF Sent
    <2>2. Len(q) \in Nat /\ Len(q) < FifoSize  BY <1>1 DEF Accepts
    <2>3. Append(q, m) \in Seq(S) /\ Len(Append(q, m)) = Len(q) + 1  OBVIOUS
    <2>4. \A i \in 1 .. Len(q) + 1 : IF i <= Len(q) THEN Append(q, m)[i] = q[i] ELSE Append(q, m)[i] = m
      OBVIOUS
    <2>5. Len(q) + 1 <= FifoSize  BY <2>2, LifecycleAssumption
    <2>6. \A i \in 1 .. Len(q) + 1 : i <= Len(q) \/ i = Len(q) + 1  BY <2>2
    <2> QED BY <2>1, <2>3, <2>4, <2>5, <2>6
  <1>2. CASE ~Accepts(q)
    <2>1. Sent(q, m) = q  BY <1>2 DEF Sent
    <2>2. \A i \in 1 .. Len(q) : i <= Len(q)  OBVIOUS
    <2> QED BY <2>1, <2>2
  <1> QED BY <1>1, <1>2

\* A message that the ARM7 handles leaves the queue in the same order.
LEMMA SyncsRemain ==
    ASSUME NEW q \in Seq(Message), q # <<>>
    PROVE  /\ OnlySync(q) => Head(q) = "SYNC" /\ OnlySync(Tail(q))
           /\ DeinitLast(q) => /\ Head(q) = "SYNC" => DeinitLast(Tail(q))
                               /\ Head(q) = "DEINIT" => Tail(q) = <<>>
                               /\ Head(q) \in {"SYNC", "DEINIT"}
  BY TailOf DEF OnlySync, DeinitLast

LEMMA SyncsSent ==
    ASSUME NEW q \in Seq(Message), Len(q) <= FifoSize, OnlySync(q)
    PROVE  OnlySync(Sent(q, "SYNC")) /\ DeinitLast(Sent(q, "DEINIT"))
  <1>1. "SYNC" \in Message /\ "DEINIT" \in Message  BY DEF Message
  <1>2. OnlySync(Sent(q, "SYNC"))
    <2>1. ASSUME NEW i \in 1 .. Len(Sent(q, "SYNC"))  PROVE  Sent(q, "SYNC")[i] = "SYNC"
      <3>1. IF i <= Len(q) THEN Sent(q, "SYNC")[i] = q[i] ELSE Sent(q, "SYNC")[i] = "SYNC"
        BY <1>1, SentTo
      <3> QED BY <3>1 DEF OnlySync
    <2> QED BY <2>1 DEF OnlySync
  <1>3. DeinitLast(Sent(q, "DEINIT"))
    <2> DEFINE s == Sent(q, "DEINIT")
    <2>1. ASSUME NEW i \in 1 .. Len(s)  PROVE  s[i] = "SYNC" \/ (s[i] = "DEINIT" /\ i = Len(s))
      <3>1. IF i <= Len(q) THEN s[i] = q[i] ELSE s[i] = "DEINIT" /\ i = Len(s)
        BY <1>1, SentTo
      <3> QED BY <3>1 DEF OnlySync
    <2> QED BY <2>1 DEF DeinitLast
  <1> QED BY <1>2, <1>3

-----------------------------------------------------------------------------
(* Types *)

LEMMA UpdateType ==
    ASSUME TypeOK, Update
    PROVE  live' \subseteq Address /\ mem' \in [Address -> Struct] /\ stray' \in BOOLEAN
  <1>1. CASE data7 = NULL  BY <1>1 DEF TypeOK, Update, memory
  <1>2. CASE data7 # NULL
    <2>1. mem' = [mem EXCEPT ![data7].cur = mem[data7].req]  BY <1>2 DEF Update
    <2>2. mem' \in [Address -> Struct]  BY <2>1 DEF TypeOK, Struct
    <2> QED BY <1>2, <2>2 DEF TypeOK, Update, Touch
  <1> QED BY <1>1, <1>2

LEMMA TypeStep ==
    ASSUME TypeOK, [Next]_vars
    PROVE  TypeOK'
  <1> USE LifecycleAssumption DEF TypeOK, vars, arm9, arm7, memory, Pointer
  <1>1. CASE UNCHANGED vars  BY <1>1
  <1>2. CASE \E a \in Address, candidates \in SUBSET Views : Wifi_InitIPC(a, candidates)
    <2>1. PICK a \in Address, candidates \in SUBSET Views : Wifi_InitIPC(a, candidates)  BY <1>2
    <2>2. mem' \in [Address -> Struct]  BY <2>1 DEF Wifi_InitIPC, Cleared, Struct, Modes
    <2>3. a \in Message  BY DEF Message
    <2>4. to7' = to7 \/ to7' = Sent(to7, a)  BY <2>1 DEF Wifi_InitIPC, Sent
    <2>5. to7' \in Seq(Message) /\ Len(to7') <= FifoSize  BY <2>3, <2>4, SentTo
    <2>6. inits' \in 0 .. MaxInits /\ UNCHANGED <<abi, stray, handler9, up, gaveUp, arm7, to9>>
      BY <2>1 DEF Wifi_InitIPC, MayInit
    <2>7. CASE Wifi_SelectMirror(candidates) /\ Accepts(to7)
      <3>1. live' = live \cup {a} /\ cached' = a /\ data9' = a /\ pc9' = "wait" /\ chunk' = 0
        BY <2>1, <2>7 DEF Wifi_InitIPC
      <3> QED BY <2>2, <2>5, <2>6, <3>1
    <2>8. CASE ~(Wifi_SelectMirror(candidates) /\ Accepts(to7))
      <3>1. data9' = NULL /\ UNCHANGED <<live, cached, pc9, chunk>>
        BY <2>1, <2>8 DEF Wifi_InitIPC
      <3> QED BY <2>2, <2>5, <2>6, <3>1
    <2> QED BY <2>7, <2>8
  <1>3. CASE WaitForArm7  BY <1>3 DEF WaitForArm7, Touch
  <1>4. CASE GiveUp  BY <1>4 DEF GiveUp, Touch
  <1>5. CASE Wifi_InitDefault  BY <1>5 DEF Wifi_InitDefault
  <1>6. CASE \E m \in Modes : Request(m)
    <2>1. PICK m \in Modes : Request(m)  BY <1>6
    <2>2. mem' = [mem EXCEPT ![data9].req = m]  BY <2>1 DEF Request
    <2>3. mem' \in [Address -> Struct]  BY <2>2 DEF Struct
    <2> QED BY <2>1, <2>3 DEF Request, Touch
  <1>7. CASE Transmit  BY <1>7, SentTo DEF Transmit, Touch, Message
  <1>8. CASE Wifi_Update9  BY <1>8, TailOf DEF Wifi_Update9, Touch
  <1>9. CASE Wifi_Deinit
    <2>1. to7' \in Seq(Message) /\ Len(to7') <= FifoSize  BY <1>9, SentTo DEF Wifi_Deinit, Message
    <2> QED BY <1>9, <2>1 DEF Wifi_Deinit, Touch
  <1>10. CASE WaitAndFree  BY <1>10 DEF WaitAndFree, Touch
  <1>11. CASE ReceiveAddress  BY <1>11, TailOf DEF ReceiveAddress, Touch
  <1>12. CASE Wifi_NTR_Init  BY <1>12 DEF Wifi_NTR_Init, Touch, Struct, Modes
  <1>13. CASE Wifi_Init  BY <1>13 DEF Wifi_Init, Touch, Struct
  <1>14. CASE VBlank
    <2>1. live' \subseteq Address /\ mem' \in [Address -> Struct] /\ stray' \in BOOLEAN
      BY <1>14, UpdateType DEF VBlank
    <2> QED BY <1>14, <2>1 DEF VBlank
  <1>15. CASE ReceiveSync
    <2>1. live' \subseteq Address /\ mem' \in [Address -> Struct] /\ stray' \in BOOLEAN
      BY <1>15, UpdateType DEF ReceiveSync
    <2>2. to7' \in Seq(Message) /\ Len(to7') <= FifoSize  BY <1>15, TailOf DEF ReceiveSync
    <2> QED BY <1>15, <2>1, <2>2 DEF ReceiveSync
  <1>16. CASE Wifi_Interrupt  BY <1>16, SentTo DEF Wifi_Interrupt, Touch
  <1>17. CASE ReceiveDeinit
    <2>1. to7' \in Seq(Message) /\ Len(to7') <= FifoSize  BY <1>17, TailOf DEF ReceiveDeinit
    <2> QED BY <1>17, <2>1 DEF ReceiveDeinit, Touch
  <1>18. CASE Stopped  BY <1>18 DEF Stopped, Touch, Struct
  <1>19. CASE NoMemory  BY <1>19 DEF NoMemory, MayInit
  <1> QED BY <1>1, <1>2, <1>3, <1>4, <1>5, <1>6, <1>7, <1>8, <1>9, <1>10, <1>11, <1>12, <1>13,
             <1>14, <1>15, <1>16, <1>17, <1>18, <1>19 DEF Next, Calls, Application, Handlers

-----------------------------------------------------------------------------
(* Phases *)

LEMMA PhaseStep ==
    ASSUME TypeOK, handler9 = up, ~gaveUp, ~stray, Phase, Next, ~gaveUp'
    PROVE  ~stray' /\ Phase'
  <1> USE LifecycleAssumption DEF TypeOK, Idle7, Serves
  <1> USE DEF arm9, arm7, memory, Touch, Phase, Owned
  <1>1. CASE \E a \in Address, candidates \in SUBSET Views : Wifi_InitIPC(a, candidates)
    <2>1. PICK a \in Address, candidates \in SUBSET Views : Wifi_InitIPC(a, candidates)  BY <1>1
    <2>2. Down
      BY <2>1 DEF Wifi_InitIPC, MayInit, Called, Starting, Ready, Running, Stopping, Stopped9
    <2>3. CASE Wifi_SelectMirror(candidates) /\ Accepts(to7)
      <3>1. to7' = <<a>>  BY <2>1, <2>2, <2>3 DEF Wifi_InitIPC, Down
      <3>2. ~mem'[a].active  BY <2>1 DEF Wifi_InitIPC, Cleared
      <3> QED BY <2>1, <2>2, <2>3, <3>1, <3>2 DEF Wifi_InitIPC, Down, Called
    <2>4. CASE ~(Wifi_SelectMirror(candidates) /\ Accepts(to7))  BY <2>1, <2>2, <2>4 DEF Wifi_InitIPC, Down
    <2> QED BY <2>3, <2>4
  <1>2. CASE WaitForArm7
    BY <1>2 DEF WaitForArm7, Down, Called, Starting, Ready, Running, Stopping, Stopped9
  <1>3. CASE GiveUp  BY <1>3 DEF GiveUp
  <1>4. CASE Wifi_InitDefault
    BY <1>4 DEF Wifi_InitDefault, Down, Called, Starting, Ready, Running, Stopping, Stopped9, OnlySync
  <1>5. CASE \E m \in Modes : Request(m)
    <2>1. PICK m \in Modes : Request(m)  BY <1>5
    <2>2. Owned /\ Running
      BY <2>1 DEF Request, Down, Called, Starting, Ready, Running, Stopping, Stopped9
    <2>3. mem'[cached].active = mem[cached].active  BY <2>1, <2>2 DEF Request, Struct
    <2> QED BY <2>1, <2>2, <2>3 DEF Request, Running
  <1>6. CASE Transmit
    <2>1. Owned /\ Running
      BY <1>6 DEF Transmit, Down, Called, Starting, Ready, Running, Stopping, Stopped9
    <2>2. OnlySync(to7')  BY <1>6, <2>1, SyncsSent DEF Transmit, Running
    <2> QED BY <1>6, <2>1, <2>2 DEF Transmit, Running
  <1>7. CASE Wifi_Update9
    <2>1. Owned /\ Running
      BY <1>7 DEF Wifi_Update9, Down, Called, Starting, Ready, Running, Stopping, Stopped9
    <2> QED BY <1>7, <2>1 DEF Wifi_Update9, Running
  <1>8. CASE Wifi_Deinit
    <2>1. Owned /\ Running
      BY <1>8 DEF Wifi_Deinit, Down, Called, Starting, Ready, Running, Stopping, Stopped9
    <2>2. DeinitLast(to7')
      BY <1>8, <2>1, SyncsSent DEF Wifi_Deinit, Running
    <2> QED BY <1>8, <2>1, <2>2 DEF Wifi_Deinit, Running, Stopping
  <1>9. CASE WaitAndFree
    <2>1. Owned /\ Stopped9
      BY <1>9 DEF WaitAndFree, Down, Called, Starting, Ready, Running, Stopping, Stopped9
    <2> QED BY <1>9, <2>1 DEF WaitAndFree, Stopped9, Down
  <1>10. CASE ReceiveAddress
    <2>0. ~OnlySync(to7) /\ ~DeinitLast(to7)
      <3>1. to7 # <<>> /\ Head(to7) \notin {"SYNC", "DEINIT"}  BY <1>10 DEF ReceiveAddress
      <3>2. to7 \in Seq(Message)  OBVIOUS
      <3> QED BY <3>1, <3>2, SyncsRemain
    <2>1. Owned /\ Called
      BY <1>10, <2>0
      DEF ReceiveAddress, Down, Called, Starting, Ready, Running, Stopping, Stopped9
    <2>2. to7' = <<>> /\ data7' = cached  BY <1>10, <2>1 DEF ReceiveAddress, Called
    <2> QED BY <1>10, <2>1, <2>2 DEF ReceiveAddress, Called, Starting
  <1>11. CASE Wifi_NTR_Init
    <2>1. Owned /\ Starting
      BY <1>11 DEF Wifi_NTR_Init, Down, Called, Starting, Ready, Running, Stopping, Stopped9
    <2>2. mem'[cached].active = mem[cached].active  BY <1>11, <2>1 DEF Wifi_NTR_Init, Struct
    <2> QED BY <1>11, <2>1, <2>2 DEF Wifi_NTR_Init, Starting
  <1>12. CASE Wifi_Init
    <2>1. Owned /\ Starting
      BY <1>12 DEF Wifi_Init, Down, Called, Starting, Ready, Running, Stopping, Stopped9
    <2>2. mem'[cached].active  BY <1>12, <2>1 DEF Wifi_Init, Starting, Struct
    <2> QED BY <1>12, <2>1, <2>2 DEF Wifi_Init, Starting, Ready
  <1>13. CASE Update /\ UNCHANGED <<abi, arm9, arm7>>
                    /\ (to7' = to7 \/ (to7 # <<>> /\ Head(to7) = "SYNC" /\ to7' = Tail(to7)))
    <2>1. CASE data7 = NULL
      BY <1>13, <2>1 DEF Update, Down, Called, Starting, Ready, Running, Stopping, Stopped9
    <2>2. CASE data7 # NULL
      <3>1. Owned /\ data7 = cached
        BY <2>2 DEF Down, Called, Starting, Ready, Running, Stopping, Stopped9
      <3>2. ~stray' /\ live' = live  BY <1>13, <2>2, <3>1 DEF Update
      <3>3. mem'[cached].active = mem[cached].active  BY <1>13, <2>2, <3>1 DEF Update, Struct
      <3>4. /\ OnlySync(to7) => OnlySync(to7')
            /\ DeinitLast(to7) => DeinitLast(to7')
            /\ to7 = <<>> => to7' = <<>>
        <4>1. CASE to7' = to7  BY <4>1
        <4>2. CASE to7 # <<>> /\ Head(to7) = "SYNC" /\ to7' = Tail(to7)
          <5>1. to7 \in Seq(Message)  OBVIOUS
          <5>2. OnlySync(to7) => OnlySync(Tail(to7))  BY <4>2, <5>1, SyncsRemain
          <5>3. DeinitLast(to7) => DeinitLast(Tail(to7))  BY <4>2, <5>1, SyncsRemain
          <5> QED BY <4>2, <5>2, <5>3
        <4> QED BY <1>13, <4>1, <4>2
      <3> QED BY <1>13, <2>2, <3>1, <3>2, <3>3, <3>4
              DEF Down, Called, Starting, Ready, Running, Stopping, Stopped9
    <2> QED BY <2>1, <2>2
  <1>14. CASE VBlank \/ ReceiveSync  BY <1>13, <1>14 DEF VBlank, ReceiveSync
  <1>15. CASE Wifi_Interrupt
    BY <1>15 DEF Wifi_Interrupt, Down, Called, Starting, Ready, Running, Stopping, Stopped9
  <1>16. CASE ReceiveDeinit
    <2>1. Owned /\ Stopping /\ pc7 = "idle" /\ DeinitLast(to7)
      BY <1>16, SyncsRemain
      DEF ReceiveDeinit, Down, Called, Starting, Ready, Running, Stopping, Stopped9
    <2>2. to7' = <<>>  BY <1>16, <2>1, SyncsRemain DEF ReceiveDeinit
    <2> QED BY <1>16, <2>1, <2>2 DEF ReceiveDeinit, Stopping
  <1>17. CASE Stopped
    <2>1. Owned /\ Stopping /\ pc7 = "deinit"
      BY <1>17 DEF Stopped, Down, Called, Starting, Ready, Running, Stopping, Stopped9
    <2>2. ~mem'[cached].active  BY <1>17, <2>1 DEF Stopped, Stopping, Struct
    <2> QED BY <1>17, <2>1, <2>2 DEF Stopped, Stopping, Stopped9
  <1>18. CASE NoMemory
    <2>1. Down
      BY <1>18 DEF NoMemory, MayInit, Called, Starting, Ready, Running, Stopping, Stopped9
    <2> QED BY <1>18, <2>1 DEF NoMemory, Down
  <1> QED BY <1>1, <1>2, <1>3, <1>4, <1>5, <1>6, <1>7, <1>8, <1>9, <1>10, <1>11, <1>12, <1>14,
             <1>15, <1>16, <1>17, <1>18 DEF Next, Calls, Application, Handlers

LEMMA Invariance == Spec => []IInv
  <1>1. Init => IInv
    <2> SUFFICES ASSUME Init  PROVE  IInv
      OBVIOUS
    <2>1. mem \in [Address -> Struct]  BY DEF Init, Cleared, Struct, Modes
    <2>2. <<>> \in Seq(Message) /\ <<>> \in Seq({"SYNC"}) /\ Len(<<>>) <= FifoSize
      BY LifecycleAssumption
    <2>5. Len(to7) <= FifoSize /\ Len(to9) <= FifoSize  BY <2>2 DEF Init
    <2>6. to7 \in Seq(Message) /\ to9 \in Seq({"SYNC"})  BY <2>2 DEF Init
    <2>7. chunk \in 0 .. Chunks /\ inits \in 0 .. MaxInits  BY LifecycleAssumption DEF Init
    <2>8. {handler9, up, irq7, gaveUp, stray} \subseteq BOOLEAN  BY Zenon DEF Init
    <2>4. TypeOK  BY <2>1, <2>5, <2>6, <2>7, <2>8 DEF Init, TypeOK, Pointer
    <2>3. Down  BY DEF Init, Down, Idle7
    <2> QED BY <2>3, <2>4 DEF Init, IInv, Phase
  <1>2. IInv /\ [Next]_vars => IInv'
    <2> SUFFICES ASSUME IInv, [Next]_vars  PROVE  IInv'
      OBVIOUS
    <2>1. TypeOK'  BY TypeStep DEF IInv
    <2>2. (handler9 = up)'
      <3>1. UNCHANGED <<handler9, up>> \/ Wifi_InitDefault \/ Wifi_Deinit
        BY DEF Next, Calls, Application, Handlers, NoMemory, Wifi_InitIPC, WaitForArm7, GiveUp,
               Request, Transmit, WaitAndFree, ReceiveAddress, ReceiveSync,
               ReceiveDeinit, Stopped, Wifi_NTR_Init, Wifi_Init, VBlank, Wifi_Interrupt, Wifi_Update9,
               vars, arm9
      <3>2. CASE UNCHANGED <<handler9, up>>  BY <3>2 DEF IInv
      <3>3. CASE Wifi_InitDefault  BY <3>3 DEF Wifi_InitDefault
      <3>4. CASE Wifi_Deinit  BY <3>4 DEF Wifi_Deinit
      <3> QED BY <3>1, <3>2, <3>3, <3>4
    <2>3. gaveUp => gaveUp'
      BY DEF Next, Calls, Application, Handlers, NoMemory, Wifi_InitIPC, WaitForArm7, GiveUp,
             Wifi_InitDefault, Request, Transmit, Wifi_Deinit, WaitAndFree, ReceiveAddress, ReceiveSync,
             ReceiveDeinit, Stopped, Wifi_NTR_Init, Wifi_Init, VBlank, Wifi_Interrupt, Wifi_Update9,
             vars, arm9
    <2>4. CASE UNCHANGED vars
      BY <2>1, <2>2, <2>4
      DEF IInv, vars, memory, arm9, arm7, Phase, Owned, Down, Called, Starting, Ready, Running,
          Stopping, Stopped9, Idle7, Serves
    <2>5. CASE Next  BY <2>1, <2>2, <2>3, <2>5, PhaseStep DEF IInv
    <2> QED BY <2>4, <2>5
  <1> QED BY <1>1, <1>2, PTL DEF Spec

(***************************************************************************)
(* Every variable keeps its type, also in sessions that come after a wait  *)
(* of Wifi_InitIPC() was given up: the FIFO never holds more messages than *)
(* it has room for and pointers are NULL or an address.                    *)
(***************************************************************************)
THEOREM TypeCorrect == Spec => []TypeOK
  <1>1. IInv => TypeOK  BY DEF IInv
  <1> QED BY <1>1, Invariance, PTL

(***************************************************************************)
(* Unless Wifi_InitIPC() has given up a wait, neither CPU ever uses a      *)
(* structure that was freed, however many sessions there are and wherever  *)
(* they are allocated.                                                     *)
(***************************************************************************)
THEOREM NoUseAfterFree == Spec => []LiveMemoryOnly
  <1>1. IInv => LiveMemoryOnly  BY DEF IInv, LiveMemoryOnly, TypeOK
  <1> QED BY <1>1, Invariance, PTL

(***************************************************************************)
(* When Wifi_InitDefault() has succeeded both CPUs use the same structure  *)
(* and the ARM7 has finished its part.                                     *)
(***************************************************************************)
THEOREM BothAreReady == Spec => []ReadyAgrees
  <1>1. IInv => ReadyAgrees
    BY DEF IInv, ReadyAgrees, Phase, Owned, Down, Called, Starting, Ready, Running, Stopping,
           Stopped9, Serves, Idle7
  <1> QED BY <1>1, Invariance, PTL

=============================================================================
