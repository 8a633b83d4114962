----------------------------- MODULE BeaconData -----------------------------
(***************************************************************************)
(* The Nintendo vendor tag of the beacon of a multiplayer host.  The ARM9  *)
(* gives the ARM7 a table of fragments, of which one is written in the     *)
(* beacon before each transmission, and patches to single bytes, which     *)
(* stay in the beacon whatever fragment comes next.                        *)
(*                                                                         *)
(* The two CPUs share the table and the ring of patches without a lock:    *)
(* the critical sections are of the ARM9 only.  Wifi_NTR_Update() and the  *)
(* PreTBTT interrupt of the ARM7 are both handlers of interrupts and don't *)
(* preempt each other.  Each byte copied is a step.                        *)
(***************************************************************************)
EXTENDS Integers, FiniteSets, Sequences

CONSTANTS Header, Extra,   \* bytes of the fixed part of the tag, of its extra data
          MaxFragments,    \* DSWIFI_BEACON_MAX_FRAGMENTS
          PatchSlots,      \* entries of beaconPatch[]
          MaxSticky,       \* BEACON_MAX_STICKY_PATCHES
          Sizes, Counts,   \* fragment sizes and numbers of fragments that it is called with
          Patchable,       \* offsets of the bytes that are patched
          MaxTables, MaxPatches, MaxBeacons    \* bounds: calls of the application

ASSUME BeaconAssumption ==
    /\ {Header, Extra, MaxFragments, PatchSlots, MaxSticky} \subseteq Nat \ {0}
    /\ {MaxTables, MaxPatches, MaxBeacons} \subseteq Nat
    /\ Sizes \subseteq 1 .. Extra /\ Counts \subseteq 1 .. MaxFragments
    /\ Patchable \subseteq 0 .. Header + Extra - 1
    /\ MaxTables < 256     \* or the generation comes round

VARIABLES
    fragments, size, count, generation,   \* beaconFragments[], ...Size, ...Count, ...Generation
    patch, write, read,                   \* beaconPatch[], beaconPatchWrite, beaconPatchRead
    arm9,                                 \* what the ARM9 is doing
    frames,                               \* beacon frames in the TX ring
    on, vendor, mac,                      \* the beacon in MAC RAM: sent or not, its vendor tag
    arm7,                                 \* what the ARM7 is doing
    index, seen, sticky,                  \* beacon_fragment_index, ..._generation, sticky_patch_*
    calls,                                \* how many times the application has called each function
    latest, forgot, fresh                 \* history: last patch of each byte; the last one that
                                          \* went with a beacon that was replaced; the table
                                          \* that was complete when the rotation began

shared == <<fragments, size, count, generation, patch, write, read>>
beacon == <<on, vendor, mac, index, seen, sticky>>
vars   == <<shared, arm9, frames, beacon, arm7, calls, latest, forgot, fresh>>

Offset == 0 .. Header + Extra - 1
Index  == 0 .. MaxFragments - 1

\* Bytes, by where they come from.
Junk          == <<"junk">>
OfFrame(n)    == <<"frame", n>>
OfPatch(n)    == <<"patch", n>>
OfTable(t, i) == <<"table", t, i>>

Byte == {Junk} \cup {OfFrame(n) : n \in 1 .. MaxBeacons} \cup {OfPatch(n) : n \in 1 .. MaxPatches}
               \cup {OfTable(t, i) : t \in 1 .. MaxTables, i \in Index}
Patch == [offset : Offset, value : {OfPatch(n) : n \in 0 .. MaxPatches}]

BeaconFrame == [n : 1 .. MaxBeacons, vendor : BOOLEAN]

State9 == [pc : {"idle", "copy", "size", "count", "generation", "publish"},
           size : 0 .. Extra, count : 0 .. MaxFragments, i : 0 .. MaxFragments, k : 0 .. Extra]
State7 == [pc : {"idle", "apply", "flush", "size", "rotate", "copy", "send"},
           size : 0 .. Extra, count : 0 .. MaxFragments, k : 0 .. Extra]
Calls  == [tables : 0 .. MaxTables, patches : 0 .. MaxPatches, beacons : 0 .. MaxBeacons]

Idle9 == [pc |-> "idle", size |-> 0, count |-> 0, i |-> 0, k |-> 0]
Idle7 == [pc |-> "idle", size |-> 0, count |-> 0, k |-> 0]

TypeOK ==
    /\ fragments \in [Index -> [1 .. Extra -> Byte]]
    /\ size \in 0 .. Extra /\ count \in 0 .. MaxFragments /\ generation \in 0 .. 255
    /\ patch \in [0 .. PatchSlots - 1 -> Patch]
    /\ {write, read} \subseteq 0 .. PatchSlots - 1
    /\ arm9 \in State9 /\ arm7 \in State7
    /\ frames \in Seq(BeaconFrame)
    /\ on \in BOOLEAN /\ vendor \in BOOLEAN
    /\ mac \in [Offset -> Byte]
    /\ index \in Index /\ seen \in 0 .. 255
    /\ sticky \in Seq(Patch) /\ Len(sticky) <= MaxSticky
    /\ calls \in Calls
    /\ latest \in [Offset -> 0 .. MaxPatches] /\ forgot \in [Offset -> 0 .. MaxPatches]
    /\ fresh \in 0 .. MaxTables

Init ==
    /\ fragments = [i \in Index |-> [k \in 1 .. Extra |-> Junk]]
    /\ size = 0 /\ count = 0 /\ generation = 0
    /\ patch = [i \in 0 .. PatchSlots - 1 |-> [offset |-> 0, value |-> OfPatch(0)]]
    /\ write = 0 /\ read = 0
    /\ arm9 = Idle9 /\ arm7 = Idle7
    /\ frames = <<>> /\ on = FALSE /\ vendor = FALSE
    /\ mac = [o \in Offset |-> Junk]
    /\ index = 0 /\ seen = 0 /\ sticky = <<>>
    /\ calls = [tables |-> 0, patches |-> 0, beacons |-> 0]
    /\ latest = [o \in Offset |-> 0] /\ forgot = [o \in Offset |-> 0] /\ fresh = 0

-----------------------------------------------------------------------------
(* The ARM9 *)

\* Wifi_BeaconStartEx(), with or without vendor information.
Wifi_BeaconStartEx(v) ==
    /\ arm9.pc = "idle" /\ calls.beacons < MaxBeacons
    /\ calls' = [calls EXCEPT !.beacons = @ + 1]
    /\ frames' = Append(frames, [n |-> calls'.beacons, vendor |-> v])
    /\ UNCHANGED <<shared, arm9, beacon, arm7, latest, forgot, fresh>>

Wifi_BeaconSetExtraDataFragments(s, c) ==
    /\ arm9.pc = "idle" /\ calls.tables < MaxTables
    /\ calls' = [calls EXCEPT !.tables = @ + 1]
    /\ arm9' = [pc |-> "copy", size |-> s, count |-> c, i |-> 0, k |-> 1]
    /\ UNCHANGED <<shared, frames, beacon, arm7, latest, forgot, fresh>>

\* memcpy() of each of the fragments.
CopyByte ==
    /\ arm9.pc = "copy"
    /\ fragments' = [fragments EXCEPT ![arm9.i][arm9.k] = OfTable(calls.tables, arm9.i)]
    /\ arm9' = IF arm9.k < arm9.size THEN [arm9 EXCEPT !.k = @ + 1]
               ELSE IF arm9.i + 1 < arm9.count THEN [arm9 EXCEPT !.k = 1, !.i = @ + 1]
               ELSE [arm9 EXCEPT !.pc = "size"]
    /\ UNCHANGED <<size, count, generation, patch, write, read, frames, beacon, arm7, calls, latest, forgot, fresh>>

\* Mutant: the generation isn't counted.
MutantNoGeneration ==
    /\ CASE arm9.pc = "size"       -> size' = arm9.size /\ UNCHANGED <<count, generation>>
         [] arm9.pc = "count"      -> count' = arm9.count /\ UNCHANGED <<size, generation>>
         [] arm9.pc = "generation" -> UNCHANGED <<size, count, generation>>
         [] OTHER                  -> FALSE
    /\ arm9' = CASE arm9.pc = "size"  -> [arm9 EXCEPT !.pc = "count"]
                 [] arm9.pc = "count" -> [arm9 EXCEPT !.pc = "generation"]
                 [] OTHER             -> Idle9
    /\ UNCHANGED <<fragments, patch, write, read, frames, beacon, arm7, calls, latest, forgot, fresh>>

\* The three stores after the table.  The generation is the last one.
StoreTable ==
    /\ CASE arm9.pc = "size"       -> size' = arm9.size /\ UNCHANGED <<count, generation>>
         [] arm9.pc = "count"      -> count' = arm9.count /\ UNCHANGED <<size, generation>>
         [] arm9.pc = "generation" -> generation' = (generation + 1) % 256 /\ UNCHANGED <<size, count>>
         [] OTHER                  -> FALSE
    /\ arm9' = CASE arm9.pc = "size"  -> [arm9 EXCEPT !.pc = "count"]
                 [] arm9.pc = "count" -> [arm9 EXCEPT !.pc = "generation"]
                 [] OTHER             -> Idle9
    /\ UNCHANGED <<fragments, patch, write, read, frames, beacon, arm7, calls, latest, forgot, fresh>>

After(i) == (i + 1) % PatchSlots

\* The ring isn't full, or the patch is refused.
Room == After(write) # read

\* The entry is stored first, and then the index that publishes it.
Wifi_BeaconPatchVendorByte(o) ==
    /\ arm9.pc = "idle" /\ calls.patches < MaxPatches
    /\ Room
    /\ calls' = [calls EXCEPT !.patches = @ + 1]
    /\ patch' = [patch EXCEPT ![write] = [offset |-> o, value |-> OfPatch(calls'.patches)]]
    /\ arm9' = [Idle9 EXCEPT !.pc = "publish"]
    /\ UNCHANGED <<fragments, size, count, generation, write, read, frames, beacon, arm7, latest, forgot, fresh>>

PublishPatch ==
    /\ arm9.pc = "publish"
    /\ write' = After(write)
    /\ latest' = [latest EXCEPT ![patch[write].offset] = calls.patches]
    /\ arm9' = Idle9
    /\ UNCHANGED <<fragments, size, count, generation, patch, read, frames, beacon, arm7, calls, forgot, fresh>>

-----------------------------------------------------------------------------
(* The ARM7: Wifi_NTR_Update() *)

StickyAt(o) == {i \in 1 .. Len(sticky) : sticky[i].offset = o}

\* Mutant: nobody counts the patches.
MutantNoLimit(e) == IF StickyAt(e.offset) # {} THEN sticky ELSE Append(sticky, e)

\* Keeps a patch, unless it is for one byte too many.
Keep(e) == IF StickyAt(e.offset) # {}
           THEN [i \in 1 .. Len(sticky) |-> IF i \in StickyAt(e.offset) THEN e ELSE sticky[i]]
           ELSE IF Len(sticky) < MaxSticky THEN Append(sticky, e) ELSE sticky

\* Wifi_BeaconWriteStickyPatches()
Patched(tag) == [o \in Offset |-> IF StickyAt(o) = {} THEN tag[o]
                                  ELSE sticky[CHOOSE i \in StickyAt(o) : TRUE].value]

\* Wifi_BeaconApplyPatches() begins when Wifi_NTR_Update() is called.
Applying == arm7.pc \in {"idle", "apply"}

TakePatch ==
    /\ Applying /\ read # write
    /\ sticky' = Keep(patch[read])
    /\ read' = After(read)
    /\ arm7' = [arm7 EXCEPT !.pc = "apply"]
    /\ UNCHANGED <<fragments, size, count, generation, patch, write, arm9, frames, on, vendor, mac,
                   index, seen, calls, latest, forgot, fresh>>

ApplyPatches ==
    /\ Applying /\ read = write
    /\ mac' = IF vendor /\ on THEN Patched(mac) ELSE mac
    /\ arm7' = [arm7 EXCEPT !.pc = "flush"]
    /\ UNCHANGED <<shared, arm9, frames, on, vendor, index, seen, sticky, calls, latest, forgot, fresh>>

\* The patches that the ARM7 hasn't seen yet.
Unread == {s \in 0 .. PatchSlots - 1 : IF read <= write THEN read <= s /\ s < write
                                                        ELSE read <= s \/ s < write}

\* Wifi_TxAllQueueFlush() finds a beacon frame in the ring.  The list of patches is
\* cleared: those that the ARM7 has taken are forgotten, for whichever beacon they were.
Wifi_BeaconSetup ==
    /\ arm7.pc = "flush" /\ frames # <<>>
    /\ frames' = Tail(frames)
    /\ mac' = [o \in Offset |-> OfFrame(Head(frames).n)]
    /\ on' = TRUE /\ vendor' = Head(frames).vendor
    /\ index' = 0 /\ seen' = generation /\ sticky' = <<>>
    /\ forgot' = [o \in Offset |->
                    IF \E s \in Unread : patch[s].offset = o THEN forgot[o] ELSE latest[o]]
    /\ arm7' = Idle7
    /\ UNCHANGED <<shared, arm9, calls, latest, fresh>>

\* It finds something else, or nothing.
UpdateEnds ==
    /\ arm7.pc = "flush"
    /\ arm7' = Idle7
    /\ UNCHANGED <<shared, arm9, frames, beacon, calls, latest, forgot, fresh>>

-----------------------------------------------------------------------------
(* The ARM7: the PreTBTT interrupt, and the beacon that follows it *)

\* The number of the table, if the application isn't changing it.
Settled == IF arm9.pc \in {"idle", "publish"} THEN calls.tables ELSE 0

\* It reads the number of fragments first, and then their size.
Wifi_BeaconRotateFragment ==
    /\ arm7.pc = "idle" /\ on
    /\ arm7' = IF vendor THEN [Idle7 EXCEPT !.pc = "size", !.count = count]
                         ELSE [Idle7 EXCEPT !.pc = "send"]
    /\ fresh' = IF vendor THEN Settled ELSE 0
    /\ UNCHANGED <<shared, arm9, frames, beacon, calls, latest, forgot>>

ReadSize ==
    /\ arm7.pc = "size"
    /\ IF arm7.count < 2 \/ size # Extra
       THEN arm7' = [Idle7 EXCEPT !.pc = "send"] /\ fresh' = 0
       ELSE arm7' = [arm7 EXCEPT !.pc = "rotate", !.size = size, !.k = 1] /\ UNCHANGED fresh
    /\ UNCHANGED <<shared, arm9, frames, beacon, calls, latest, forgot>>

ReadGeneration ==
    /\ arm7.pc = "rotate"
    /\ seen' = generation
    /\ index' = IF generation # seen THEN 0 ELSE index
    /\ arm7' = [arm7 EXCEPT !.pc = "copy"]
    /\ UNCHANGED <<shared, arm9, frames, on, vendor, mac, sticky, calls, latest, forgot, fresh>>

\* Mutant: the patches aren't applied again.
MutantUnpatched(tag) == tag

\* Wifi_MacWriteBytes(), and after it the patches again.
Repatched(tag) == Patched(tag)

\* Mutant: the rotation never leaves the first fragment.
MutantSameIndex == index

NextIndex == IF index + 1 >= arm7.count THEN 0 ELSE index + 1

WriteByte ==
    /\ arm7.pc = "copy"
    /\ \E tag \in {[mac EXCEPT ![Header + arm7.k - 1] = fragments[index][arm7.k]]} :
          IF arm7.k < arm7.size
          THEN /\ mac' = tag
               /\ arm7' = [arm7 EXCEPT !.k = @ + 1]
               /\ UNCHANGED index
          ELSE /\ mac' = Repatched(tag)
               /\ arm7' = [arm7 EXCEPT !.pc = "send"]
               /\ index' = NextIndex
    /\ UNCHANGED <<shared, arm9, frames, on, vendor, seen, sticky, calls, latest, forgot, fresh>>

\* The beacon timeslot comes after its interrupt has been handled.
Transmit ==
    /\ arm7.pc = "send"
    /\ arm7' = Idle7 /\ fresh' = 0
    /\ UNCHANGED <<shared, arm9, frames, on, vendor, mac, index, seen, sticky, calls, latest, forgot>>

-----------------------------------------------------------------------------

Arm9 == CopyByte \/ StoreTable \/ PublishPatch

Arm7 == \/ TakePatch \/ ApplyPatches \/ Wifi_BeaconSetup \/ UpdateEnds
        \/ Wifi_BeaconRotateFragment \/ ReadSize \/ ReadGeneration \/ WriteByte \/ Transmit

Application ==
    \/ \E v \in BOOLEAN : Wifi_BeaconStartEx(v)
    \/ \E s \in Sizes, c \in Counts : Wifi_BeaconSetExtraDataFragments(s, c)
    \/ \E o \in Patchable : Wifi_BeaconPatchVendorByte(o)

Next == Arm9 \/ Arm7 \/ Application

Spec == Init /\ [][Next]_vars

\* Both CPUs go on.  Calls of Wifi_NTR_Update() don't keep the interrupt of the
\* beacon timeslot from being handled.
FairSpec == Spec /\ WF_vars(Arm9) /\ WF_vars(Arm7) /\ SF_vars(Wifi_BeaconRotateFragment)

Sends(i) == arm7.pc = "send" /\ fresh > 0
            /\ \A k \in 1 .. Extra : StickyAt(Header + k - 1) = {}
                                        => mac[Header + k - 1] = OfTable(fresh, i)

(***************************************************************************)
(* A beacon that follows a rotation which began when the application had   *)
(* finished with the table has one whole fragment of that table, although  *)
(* the table was being replaced, by a shorter one perhaps, while the       *)
(* beacons before it went out.                                             *)
(***************************************************************************)
CurrentFragment ==
    arm7.pc = "send" /\ fresh > 0 /\ Settled = fresh => \E i \in Index : i < count /\ Sends(i)

(***************************************************************************)
(* The last value that the application gave to a byte is the one sent, as  *)
(* soon as the ARM7 has emptied the ring of patches, whatever fragments    *)
(* have been written over it; or the list of patches is full, or a new     *)
(* beacon has come since the ARM7 took it.                                 *)
(***************************************************************************)
Dropped(o) == StickyAt(o) = {} /\ Len(sticky) = MaxSticky

LatestPatchSent ==
    arm7.pc = "send" /\ vendor /\ read = write =>
        \A o \in Offset : latest[o] > forgot[o] => mac[o] = OfPatch(latest[o]) \/ Dropped(o)

(***************************************************************************)
(* Every patch that was accepted is in the beacon once the ring is empty.  *)
(* This doesn't hold: it may have been taken just before the beacon that   *)
(* it was meant for, or there is no room for it in the list.               *)
(***************************************************************************)
EveryPatchSent ==
    arm7.pc = "send" /\ vendor /\ read = write =>
        \A o \in Offset : latest[o] > 0 => mac[o] = OfPatch(latest[o])

(***************************************************************************)
(* Once the application leaves the beacon alone, the rotation comes to the *)
(* last fragment of its table again and again, and so past all the others, *)
(* however the tables before it and the beacons have left the index.       *)
(***************************************************************************)
Cycling == on /\ vendor /\ frames = <<>> /\ count >= 2 /\ size = Extra
           /\ calls.tables = MaxTables /\ calls.beacons = MaxBeacons /\ arm9.pc = "idle"

FragmentsCycle == Cycling ~> count >= 2 /\ Sends(count - 1)

=============================================================================
