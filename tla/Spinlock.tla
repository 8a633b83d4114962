------------------------------ MODULE Spinlock ------------------------------
(***************************************************************************)
(* The spinlock that the ARM7 and the ARM9 take before they use an entry   *)
(* of the list of access points or the table of multiplayer clients, one   *)
(* instruction of SLasm_Acquire() and SLasm_Release() per step.            *)
(*                                                                         *)
(* The record that the lock protects has two words.  The ARM7 updates both *)
(* of them in its section (Wifi_AccessPointAdd() updating an entry) and    *)
(* the ARM9 copies both of them in its own (Wifi_GetAPData()).             *)
(*                                                                         *)
(* The CPUs have different speeds and nothing relates them: a section may  *)
(* end while the other CPU is between two instructions of its acquire.     *)
(***************************************************************************)
EXTENDS Naturals

NOBODY == 0             \* SPINLOCK_OWNER_NOBODY
ARM7   == 1             \* SPINLOCK_OWNER_ARM7
ARM9   == 2             \* SPINLOCK_OWNER_ARM9
CPU    == {ARM7, ARM9}

Other(c) == IF c = ARM7 THEN ARM9 ELSE ARM7

VARIABLES lock,         \* the word in shared memory
          pc,           \* next instruction of each CPU
          r0, r2,       \* result, and value taken by "swp"
          once,         \* the caller gives up if the lock isn't free
          word,         \* the two words of the record
          copy,         \* the ARM9's copy of them
          \* History, not in the code:
          failed        \* whether SLasm_Release() has ever returned SPINLOCK_ERROR

vars == <<lock, pc, r0, r2, once, word, copy, failed>>

Init == /\ lock = NOBODY
        /\ pc = [c \in CPU |-> "out"]
        /\ r0 = [c \in CPU |-> "OK"]
        /\ r2 = [c \in CPU |-> NOBODY]
        /\ once = [c \in CPU |-> FALSE]
        /\ word = <<0, 0>> /\ copy = <<0, 0>>
        /\ failed = FALSE

-----------------------------------------------------------------------------
(* SLasm_Acquire() *)

\* Only Wifi_AccessPointAdd(), on the ARM7, doesn't insist.
Call(c) ==
    /\ pc[c] = "out"
    /\ pc' = [pc EXCEPT ![c] = "ldr"]
    /\ \E b \in IF c = ARM7 THEN BOOLEAN ELSE {FALSE} : once' = [once EXCEPT ![c] = b]
    /\ UNCHANGED <<lock, r0, r2, word, copy, failed>>

\* SPINLOCK_INUSE: the caller tries again, or it gives up.
InUse(c) == /\ r0' = [r0 EXCEPT ![c] = "INUSE"]
            /\ pc' = [pc EXCEPT ![c] = IF once[c] THEN "out" ELSE "ldr"]

AcquireLoad(c) ==
    /\ pc[c] = "ldr"
    /\ IF lock # NOBODY
       THEN InUse(c)
       ELSE /\ pc' = [pc EXCEPT ![c] = "swp"]
            /\ UNCHANGED r0
    /\ UNCHANGED <<lock, r2, once, word, copy, failed>>

\* Mutant: what was swapped out isn't looked at.
MutantAlwaysOurs(c) ==
    /\ pc[c] = "swp"
    /\ lock' = c
    /\ r0' = [r0 EXCEPT ![c] = "OK"]
    /\ pc' = [pc EXCEPT ![c] = "in"]
    /\ UNCHANGED <<r2, once, word, copy, failed>>

\* Mutant: the owner is added to the word, as if each CPU had bits of its own.
MutantOr(c) ==
    /\ pc[c] = "swp"
    /\ lock' = lock + c
    /\ r0' = [r0 EXCEPT ![c] = "OK"]
    /\ pc' = [pc EXCEPT ![c] = "in"]
    /\ UNCHANGED <<r2, once, word, copy, failed>>

AcquireSwap(c) ==
    /\ pc[c] = "swp"
    /\ lock' = c
    /\ IF lock \in {NOBODY, c}
       THEN /\ r0' = [r0 EXCEPT ![c] = "OK"]
            /\ pc' = [pc EXCEPT ![c] = "in"]
            /\ UNCHANGED r2
       ELSE /\ r2' = [r2 EXCEPT ![c] = lock]
            /\ pc' = [pc EXCEPT ![c] = "back"]
            /\ UNCHANGED r0
    /\ UNCHANGED <<once, word, copy, failed>>

\* Mutant: the value of the owner isn't restored.
MutantNoRevert(c) ==
    /\ pc[c] = "back"
    /\ InUse(c)
    /\ UNCHANGED <<lock, r2, once, word, copy, failed>>

\* The lock is someone else's: put its value back.
AcquireRevert(c) ==
    /\ pc[c] = "back"
    /\ lock' = r2[c]
    /\ r2' = [r2 EXCEPT ![c] = lock]
    /\ InUse(c)
    /\ UNCHANGED <<once, word, copy, failed>>

-----------------------------------------------------------------------------
(* What the two CPUs do while they hold the lock. *)

FirstWord(c) ==
    /\ pc[c] = "in"
    /\ pc' = [pc EXCEPT ![c] = "half"]
    /\ IF c = ARM7 THEN /\ word' = [word EXCEPT ![1] = 1 - @]
                        /\ UNCHANGED copy
                   ELSE /\ copy' = [copy EXCEPT ![1] = word[1]]
                        /\ UNCHANGED word
    /\ UNCHANGED <<lock, r0, r2, once, failed>>

SecondWord(c) ==
    /\ pc[c] = "half"
    /\ pc' = [pc EXCEPT ![c] = "done"]
    /\ IF c = ARM7 THEN /\ word' = [word EXCEPT ![2] = 1 - @]
                        /\ UNCHANGED copy
                   ELSE /\ copy' = [copy EXCEPT ![2] = word[2]]
                        /\ UNCHANGED word
    /\ UNCHANGED <<lock, r0, r2, once, failed>>

-----------------------------------------------------------------------------
(* SLasm_Release().  No caller looks at its result. *)

ReleaseLoad(c) ==
    /\ pc[c] = "done"
    /\ IF lock # c
       THEN /\ r0' = [r0 EXCEPT ![c] = "ERROR"]
            /\ pc' = [pc EXCEPT ![c] = "out"]
            /\ failed' = TRUE
       ELSE /\ pc' = [pc EXCEPT ![c] = "unlock"]
            /\ UNCHANGED <<r0, failed>>
    /\ UNCHANGED <<lock, r2, once, word, copy>>

\* Mutant: the lock is left with the value of its last owner.
MutantKeepLock(c) ==
    /\ pc[c] = "unlock"
    /\ r0' = [r0 EXCEPT ![c] = "OK"]
    /\ pc' = [pc EXCEPT ![c] = "out"]
    /\ UNCHANGED <<lock, r2, once, word, copy, failed>>

ReleaseSwap(c) ==
    /\ pc[c] = "unlock"
    /\ lock' = NOBODY
    /\ r2' = [r2 EXCEPT ![c] = lock]
    /\ IF lock = c THEN /\ r0' = [r0 EXCEPT ![c] = "OK"]
                        /\ UNCHANGED failed
                   ELSE /\ r0' = [r0 EXCEPT ![c] = "ERROR"]
                        /\ failed' = TRUE
    /\ pc' = [pc EXCEPT ![c] = "out"]
    /\ UNCHANGED <<once, word, copy>>

Acquire(c) == AcquireLoad(c) \/ AcquireSwap(c) \/ AcquireRevert(c)
Section(c) == FirstWord(c) \/ SecondWord(c)
Release(c) == ReleaseLoad(c) \/ ReleaseSwap(c)

Next == \E c \in CPU : Call(c) \/ Acquire(c) \/ Section(c) \/ Release(c)

Spec == Init /\ [][Next]_vars

(* Each CPU goes on executing instructions; nobody has to ask for the lock. *)
FairSpec == /\ Spec
            /\ \A c \in CPU : WF_vars(Acquire(c) \/ Section(c) \/ Release(c))

-----------------------------------------------------------------------------
(* Properties. *)

TypeOK == /\ lock \in {NOBODY, ARM7, ARM9}
          /\ pc \in [CPU -> {"out", "ldr", "swp", "back", "in", "half", "done", "unlock"}]
          /\ r0 \in [CPU -> {"OK", "INUSE", "ERROR"}]
          /\ r2 \in [CPU -> {NOBODY, ARM7, ARM9}]
          /\ once \in [CPU -> BOOLEAN]
          /\ word \in {0, 1} \X {0, 1} /\ copy \in {0, 1} \X {0, 1}
          /\ failed \in BOOLEAN

InSection(c) == pc[c] \in {"in", "half", "done"}
Owns(c)      == InSection(c) \/ pc[c] = "unlock"

(* The two CPUs are never in their sections at once, even though a CPU     *)
(* that fails to get the lock overwrites it for a while.                   *)
MutualExclusion == ~(InSection(ARM7) /\ InSection(ARM9))

(* The ARM9 never gets one word of an update and not the other one.        *)
ConsistentCopy == pc[ARM9] # "half" => copy[1] = copy[2]

(* "If the unlocking side sees the lock incorrectly set, the unlocking     *)
(* side will delay until it has reverted to the correct value, then        *)
(* continue unlocking" (spinlock_asm.h:11): a lock that has the value of a *)
(* CPU is one that this CPU will release.  This doesn't hold:              *)
(* SLasm_Release() returns at once, and the revert then leaves the lock    *)
(* taken by a CPU that has gone.                                           *)
UnlockerWaits == \A c \in CPU : lock = c => Owns(c) \/ pc[c] = "back"

(* The lock is only ever left taken by nobody when SLasm_Release() has     *)
(* returned SPINLOCK_ERROR, which no caller looks at: neither the reverts  *)
(* of SLasm_Acquire() nor a caller that gives up do it by themselves.      *)
NoOrphanLock == ~failed => UnlockerWaits

(* A CPU that wants the lock isn't kept waiting by one that doesn't have   *)
(* it: someone enters its section, unless a release has failed.            *)
SomeoneEnters ==
    (\E c \in CPU : pc[c] = "ldr" /\ ~once[c])
        ~> (failed \/ \E c \in CPU : InSection(c))

(* Why mutual exclusion holds: the lock has the value of its owner, or it  *)
(* is about to be given back its value by the other CPU.                   *)
OwnerInLock ==
    \A c \in CPU :
        /\ Owns(c) => \/ lock = c
                      \/ lock = Other(c) /\ pc[Other(c)] = "back"
        /\ pc[c] = "back" => r2[c] = Other(c)
        /\ Owns(c) => ~Owns(Other(c))
=============================================================================
