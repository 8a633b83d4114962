--------------------------- MODULE SpinlockProofs ---------------------------
(* Proofs about Spinlock, whatever the relative speed of the two CPUs.      *)
EXTENDS Spinlock, TLAPS

(* The words of the record only differ while the ARM7 updates them, and    *)
(* they don't change while the ARM9 copies them.                           *)
Record == /\ IF pc[ARM7] = "half" THEN word[1] = 1 - word[2] ELSE word[1] = word[2]
          /\ pc[ARM9] = "half" => copy[1] = word[1]

IInv == TypeOK /\ OwnerInLock /\ Record /\ ConsistentCopy

USE DEF NOBODY, ARM7, ARM9, CPU, Other

LEMMA InitIInv == Init => IInv
  <1> SUFFICES ASSUME Init PROVE IInv  OBVIOUS
  <1>1. failed \in BOOLEAN  BY DEF Init
  <1> QED BY <1>1 DEF Init, IInv, TypeOK, OwnerInLock, Record, ConsistentCopy, Owns, InSection

(* What the instructions of the lock do to the program counters. *)
LEMMA LockSteps ==
    ASSUME TypeOK, NEW c \in CPU, Call(c) \/ Acquire(c) \/ Release(c)
    PROVE  /\ UNCHANGED <<word, copy>>
           /\ pc'[Other(c)] = pc[Other(c)] /\ r2'[Other(c)] = r2[Other(c)]
           /\ pc[c] \notin {"in", "half"} /\ pc'[c] \notin {"half", "done"}
           /\ TypeOK'
  <1>1. CASE Call(c)
    <2>1. once' \in [CPU -> BOOLEAN]
      <3>1. PICK b \in BOOLEAN : once' = [once EXCEPT ![c] = b]  BY <1>1 DEF Call
      <3> QED BY <3>1 DEF TypeOK
    <2> QED BY <1>1, <2>1 DEF TypeOK, Call
  <1>2. CASE AcquireLoad(c)  BY <1>2 DEF TypeOK, AcquireLoad, InUse
  <1>3. CASE AcquireSwap(c)  BY <1>3 DEF TypeOK, AcquireSwap
  <1>4. CASE AcquireRevert(c)  BY <1>4 DEF TypeOK, AcquireRevert, InUse
  <1>5. CASE ReleaseLoad(c)
    <2>1. CASE lock = c
      <3>1. failed' = failed  BY <1>5, <2>1 DEF ReleaseLoad
      <3> QED BY <1>5, <2>1, <3>1 DEF TypeOK, ReleaseLoad
    <2>2. CASE lock # c
      <3>1. failed' = TRUE  BY <1>5, <2>2 DEF ReleaseLoad
      <3> QED BY <1>5, <2>2, <3>1 DEF TypeOK, ReleaseLoad
    <2> QED BY <2>1, <2>2
  <1>6. CASE ReleaseSwap(c)
    <2>1. CASE lock = c
      <3>1. failed' = failed  BY <1>6, <2>1 DEF ReleaseSwap
      <3> QED BY <1>6, <2>1, <3>1 DEF TypeOK, ReleaseSwap
    <2>2. CASE lock # c
      <3>1. failed' = TRUE  BY <1>6, <2>2 DEF ReleaseSwap
      <3> QED BY <1>6, <2>2, <3>1 DEF TypeOK, ReleaseSwap
    <2> QED BY <2>1, <2>2
  <1> QED BY <1>1, <1>2, <1>3, <1>4, <1>5, <1>6 DEF Acquire, Release

LEMMA LockOwner ==
    ASSUME TypeOK, OwnerInLock, NEW c \in CPU, Call(c) \/ Acquire(c) \/ Release(c)
    PROVE  OwnerInLock'
  <1> USE DEF TypeOK, OwnerInLock, Owns, InSection
  <1>1. CASE Call(c)  BY <1>1 DEF Call
  <1>2. CASE AcquireLoad(c)  BY <1>2 DEF AcquireLoad, InUse
  <1>3. CASE AcquireSwap(c)
    <2>1. CASE lock \in {NOBODY, c}  BY <1>3, <2>1 DEF AcquireSwap
    <2>2. CASE lock = Other(c)  BY <1>3, <2>2 DEF AcquireSwap
    <2> QED BY <2>1, <2>2
  <1>4. CASE AcquireRevert(c)  BY <1>4 DEF AcquireRevert, InUse
  <1>5. CASE ReleaseLoad(c)  BY <1>5 DEF ReleaseLoad
  <1>6. CASE ReleaseSwap(c)  BY <1>6 DEF ReleaseSwap
  <1> QED BY <1>1, <1>2, <1>3, <1>4, <1>5, <1>6 DEF Acquire, Release

LEMMA SectionSteps ==
    ASSUME IInv, NEW c \in CPU, Section(c)
    PROVE  IInv'
  <1>1. /\ ~Owns(Other(c)) /\ Owns(c)
    BY DEF IInv, OwnerInLock, Owns, InSection, Section, FirstWord, SecondWord
  <1>2. CASE FirstWord(c)
    <2> USE <1>2 DEF IInv, FirstWord, Owns, InSection
    <2>1. TypeOK'  BY DEF TypeOK
    <2>2. OwnerInLock'  BY <1>1 DEF TypeOK, OwnerInLock
    <2>3. Record' /\ ConsistentCopy'
      <3>1. CASE c = ARM7
        BY <1>1, <3>1 DEF TypeOK, Record, ConsistentCopy
      <3>2. CASE c = ARM9
        BY <1>1, <3>2 DEF TypeOK, Record, ConsistentCopy
      <3> QED BY <3>1, <3>2
    <2> QED BY <2>1, <2>2, <2>3
  <1>3. CASE SecondWord(c)
    <2> USE <1>3 DEF IInv, SecondWord, Owns, InSection
    <2>1. TypeOK'  BY DEF TypeOK
    <2>2. OwnerInLock'  BY <1>1 DEF TypeOK, OwnerInLock
    <2>3. Record' /\ ConsistentCopy'
      <3>1. CASE c = ARM7
        <4>1. pc[ARM9] \notin {"half"} /\ pc' = [pc EXCEPT ![ARM7] = "done"] /\ copy' = copy
          BY <1>1, <3>1 DEF TypeOK
        <4>2. word'[1] = word'[2]  BY <1>1, <3>1 DEF TypeOK, Record
        <4> QED BY <4>1, <4>2 DEF TypeOK, Record, ConsistentCopy
      <3>2. CASE c = ARM9
        BY <1>1, <3>2 DEF TypeOK, Record, ConsistentCopy
      <3> QED BY <3>1, <3>2
    <2> QED BY <2>1, <2>2, <2>3
  <1> QED BY <1>2, <1>3 DEF Section

LEMMA NextIInv == IInv /\ [Next]_vars => IInv'
  <1> SUFFICES ASSUME IInv, [Next]_vars PROVE IInv'  OBVIOUS
  <1>1. ASSUME NEW c \in CPU, Call(c) \/ Acquire(c) \/ Release(c) PROVE IInv'
    <2>1. TypeOK' /\ OwnerInLock'  BY <1>1, LockSteps, LockOwner DEF IInv
    <2>2. Record' /\ ConsistentCopy'
      BY <1>1, LockSteps DEF IInv, TypeOK, Record, ConsistentCopy
    <2> QED BY <2>1, <2>2 DEF IInv
  <1>2. ASSUME NEW c \in CPU, Section(c) PROVE IInv'  BY <1>2, SectionSteps
  <1>3. CASE UNCHANGED vars
    BY <1>3 DEF vars, IInv, TypeOK, OwnerInLock, Record, ConsistentCopy, Owns, InSection
  <1> QED BY <1>1, <1>2, <1>3 DEF Next

LEMMA Invariance == Spec => []IInv
  BY InitIInv, NextIInv, PTL DEF Spec

(* SLasm_Acquire() never lets both CPUs in, however long it takes.         *)
THEOREM Exclusion == Spec => []MutualExclusion
  <1>1. IInv => MutualExclusion
    BY DEF IInv, OwnerInLock, MutualExclusion, Owns
  <1> QED BY <1>1, Invariance, PTL

(* What the ARM9 copies from a locked record is one version of it.         *)
THEOREM NoTornCopy == Spec => []ConsistentCopy
  <1>1. IInv => ConsistentCopy  BY DEF IInv
  <1> QED BY <1>1, Invariance, PTL

(* Why the mutual exclusion holds is an invariant in itself: SLasm_Acquire() *)
(* only hides the value of the owner between its two swaps.                *)
THEOREM OwnerHolds == Spec => []OwnerInLock
  <1>1. IInv => OwnerInLock  BY DEF IInv
  <1> QED BY <1>1, Invariance, PTL

-----------------------------------------------------------------------------
(* As long as no release has failed, a CPU that has to revert the lock     *)
(* does so while the lock has its value and the other CPU still owns it.   *)
Timed == \A c \in CPU : pc[c] = "back" => lock = c /\ Owns(Other(c))

Orderly == ~failed => Timed /\ UnlockerWaits

LEMMA OrderlyStep ==
    ASSUME IInv, Orderly,
           NEW c \in CPU, Call(c) \/ Acquire(c) \/ Section(c) \/ Release(c)
    PROVE  Orderly'
  <1> SUFFICES ASSUME ~failed' PROVE Timed' /\ UnlockerWaits'  BY DEF Orderly
  <1> USE DEF TypeOK, OwnerInLock, Timed, UnlockerWaits, Owns, InSection
  <1>0. TypeOK /\ OwnerInLock  BY DEF IInv
  <1>1. ~failed
    BY DEF Call, Acquire, Section, Release, AcquireLoad, AcquireSwap, AcquireRevert,
           FirstWord, SecondWord, ReleaseLoad, ReleaseSwap
  <1>2. Timed /\ UnlockerWaits  BY <1>1 DEF Orderly
  <1>3. CASE Call(c)  BY <1>0, <1>2, <1>3 DEF Call
  <1>4. CASE AcquireLoad(c)  BY <1>0, <1>2, <1>4 DEF AcquireLoad, InUse
  <1>5. CASE AcquireSwap(c)
    <2>1. CASE lock \in {NOBODY, c}  BY <1>0, <1>2, <1>5, <2>1 DEF AcquireSwap
    <2>2. CASE lock = Other(c)  BY <1>0, <1>2, <1>5, <2>2 DEF AcquireSwap
    <2> QED BY <1>0, <2>1, <2>2
  <1>6. CASE AcquireRevert(c)  BY <1>0, <1>2, <1>6 DEF AcquireRevert, InUse
  <1>7. CASE Section(c)  BY <1>0, <1>2, <1>7 DEF Section, FirstWord, SecondWord
  <1>8. CASE ReleaseLoad(c)  BY <1>0, <1>2, <1>8 DEF ReleaseLoad
  <1>9. CASE ReleaseSwap(c)  BY <1>0, <1>2, <1>9 DEF ReleaseSwap
  <1> QED BY <1>3, <1>4, <1>5, <1>6, <1>7, <1>8, <1>9 DEF Acquire, Release

(* As long as SLasm_Release() returns SPINLOCK_OK, it never leaves the     *)
(* lock taken by a CPU that has left its section, whatever the reverts of  *)
(* SLasm_Acquire() have written meanwhile.                                 *)
THEOREM NeverOrphaned == Spec => []NoOrphanLock
  <1>1. Init => Orderly
    BY DEF Init, Orderly, Timed, UnlockerWaits
  <1>2. IInv /\ Orderly /\ [Next]_vars => Orderly'
    <2> SUFFICES ASSUME IInv, Orderly, [Next]_vars PROVE Orderly'  OBVIOUS
    <2>1. CASE UNCHANGED vars
      BY <2>1 DEF vars, Orderly, Timed, UnlockerWaits, Owns, InSection
    <2>2. CASE Next  BY <2>2, OrderlyStep DEF Next
    <2> QED BY <2>1, <2>2
  <1>3. Orderly => NoOrphanLock  BY DEF Orderly, NoOrphanLock
  <1> QED BY <1>1, <1>2, <1>3, Invariance, PTL DEF Spec
=============================================================================
