-------------------------- MODULE BeaconDataProofs --------------------------
(* Proofs about the data of the beacon, for any size of the vendor tag, of   *)
(* the table of fragments, of the ring and of the list of patches.           *)
EXTENDS BeaconData, TLAPS

-----------------------------------------------------------------------------
(* Patches *)

Number(s) == patch[s].value[2]

\* Where a slot is in the ring.
Rank(s) == IF s >= read THEN s - read ELSE s + PatchSlots - read

\* The ring holds patches in the order of their calls, and nothing is written over them.
RingInv ==
    /\ \A s \in Unread : Number(s) \in 1 .. calls.patches /\ Number(s) <= latest[patch[s].offset]
    /\ \A s, t \in Unread : Rank(s) < Rank(t) => Number(s) < Number(t)
    /\ arm9.pc = "publish" => /\ Room /\ calls.patches > 0 /\ Number(write) = calls.patches
                              /\ \A s \in Unread : Number(s) < calls.patches

\* The last patch of a byte, unless it was forgotten with an old beacon, is in the ring, or
\* it is the one in the list, or there is no room for it in the list.
Held(o) == \/ \E s \in Unread : patch[s].offset = o /\ Number(s) = latest[o]
           \/ /\ \A s \in Unread : patch[s].offset # o
              /\ \/ StickyAt(o) # {} /\ \A i \in StickyAt(o) : sticky[i].value = OfPatch(latest[o])
                 \/ Dropped(o)

PatchInv == \A o \in Offset : latest[o] > forgot[o] => Held(o)

\* The list was written to the beacon after all that was written before.
MacInv == /\ vendor => on
          /\ vendor /\ arm7.pc \notin {"apply", "copy"}
                => \A o \in Offset : StickyAt(o) # {} => \E i \in StickyAt(o) : mac[o] = sticky[i].value

StickyInv == \A i \in 1 .. Len(sticky) : sticky[i].value[2] > 0

-----------------------------------------------------------------------------
(* Fragments *)

At9(s) == arm9.pc \in s

Written(n, m) == \A i \in 0 .. n - 1, k \in 1 .. m : fragments[i][k] = OfTable(calls.tables, i)

\* The table is complete when the ARM9 doesn't work on it.
TableInv ==
    /\ At9({"idle", "publish"}) =>
          /\ generation = calls.tables
          /\ calls.tables > 0 => Written(count, size)
    /\ ~At9({"idle", "publish"}) =>
          /\ generation = calls.tables - 1
          /\ arm9.count \in 1 .. MaxFragments /\ arm9.size \in 1 .. Extra
    /\ At9({"copy"}) =>
          /\ arm9.i < arm9.count /\ arm9.k \in 1 .. arm9.size /\ Written(arm9.i, arm9.size)
          /\ \A k \in 1 .. arm9.k - 1 : fragments[arm9.i][k] = OfTable(calls.tables, arm9.i)
    /\ At9({"size", "count", "generation"}) => Written(arm9.count, arm9.size)
    /\ At9({"count", "generation"}) => size = arm9.size
    /\ At9({"generation"}) => count = arm9.count

\* The generation that the ARM7 has seen is the current one, of the table that `count' is of.
UpToDate == seen = generation /\ ~At9({"generation"})

IndexInv ==
    /\ seen <= generation
    /\ UpToDate => index < count \/ index <= 1
    /\ UpToDate /\ arm7.pc \in {"size", "rotate"} => arm7.count = count
    /\ UpToDate /\ arm7.pc = "copy" => arm7.count = count \/ index = 0

\* The table that was complete when the rotation began is still there.
Steady == fresh > 0 /\ fresh = calls.tables

RotateInv ==
    /\ fresh <= calls.tables
    /\ Steady => At9({"idle", "publish"})
    /\ arm7.pc \in {"rotate", "copy"} => arm7.size = Extra /\ arm7.k \in 1 .. Extra
    /\ arm7.pc = "rotate" => arm7.k = 1
    /\ Steady /\ arm7.pc \in {"size", "rotate", "copy"} => arm7.count = count
    /\ Steady /\ arm7.pc \in {"rotate", "copy"} => count >= 2 /\ size = Extra
    /\ Steady /\ arm7.pc = "copy" =>
          /\ seen = generation /\ index < count
          /\ \A k \in 1 .. arm7.k - 1 : mac[Header + k - 1] = OfTable(fresh, index)
    /\ Steady /\ arm7.pc = "send" => \E i \in Index : i < count /\ Sends(i)

IInv == /\ TypeOK /\ RingInv /\ PatchInv /\ MacInv /\ StickyInv
        /\ TableInv /\ IndexInv /\ RotateInv

-----------------------------------------------------------------------------
(* Operators *)

LEMMA Constants ==
    /\ Header \in Nat \ {0} /\ Extra \in Nat \ {0} /\ MaxFragments \in Nat \ {0}
    /\ PatchSlots \in Nat \ {0} /\ MaxSticky \in Nat \ {0}
    /\ MaxTables \in 0 .. 255 /\ MaxPatches \in Nat /\ MaxBeacons \in Nat
  BY BeaconAssumption

LEMMA AfterIs ==
    ASSUME NEW i \in 0 .. PatchSlots - 1
    PROVE  /\ After(i) = IF i + 1 = PatchSlots THEN 0 ELSE i + 1
           /\ After(i) \in 0 .. PatchSlots - 1
  <1>1. PatchSlots \in Nat \ {0}  BY Constants
  <1>2. CASE i + 1 = PatchSlots
    <2>1. After(i) = 0  BY <1>1, <1>2 DEF After
    <2> QED BY <1>1, <1>2, <2>1
  <1>3. CASE i + 1 # PatchSlots
    <2>1. i + 1 \in 0 .. PatchSlots - 1  BY <1>1, <1>3
    <2>2. After(i) = i + 1  BY <1>1, <2>1 DEF After
    <2> QED BY <1>1, <1>3, <2>1, <2>2
  <1> QED BY <1>2, <1>3

LEMMA PatchIs ==
    ASSUME NEW e \in Patch
    PROVE  e.offset \in Offset /\ e.value[2] \in 0 .. MaxPatches /\ e.value = OfPatch(e.value[2])
  BY DEF Patch, OfPatch

LEMMA BytesAre ==
    /\ Junk \in Byte
    /\ \A n \in 1 .. MaxBeacons : OfFrame(n) \in Byte
    /\ \A n \in 1 .. MaxPatches : OfPatch(n) \in Byte
    /\ \A t \in 1 .. MaxTables, i \in Index : OfTable(t, i) \in Byte
  BY DEF Byte

\* The list of patches.
LEMMA KeepIs ==
    ASSUME TypeOK, NEW e \in Patch
    PROVE  /\ Keep(e) \in Seq(Patch) /\ Len(Keep(e)) <= MaxSticky /\ Len(Keep(e)) >= Len(sticky)
           /\ \A i \in 1 .. Len(sticky) :
                 Keep(e)[i] = IF i \in StickyAt(e.offset) THEN e ELSE sticky[i]
           /\ \A i \in 1 .. Len(Keep(e)) : i > Len(sticky) => Keep(e)[i] = e
           /\ Len(Keep(e)) = Len(sticky) => StickyAt(e.offset) # {} \/ Len(sticky) = MaxSticky
  <1>1. sticky \in Seq(Patch) /\ Len(sticky) \in 0 .. MaxSticky /\ MaxSticky \in Nat
    BY Constants DEF TypeOK
  <1>2. CASE StickyAt(e.offset) # {}
    <2> DEFINE f == [i \in 1 .. Len(sticky) |-> IF i \in StickyAt(e.offset) THEN e ELSE sticky[i]]
    <2>1. Keep(e) = f  BY <1>2 DEF Keep
    <2>2. \A i \in 1 .. Len(sticky) : f[i] \in Patch  BY <1>1
    <2>3. f \in Seq(Patch) /\ Len(f) = Len(sticky)  BY <1>1, <2>2
    <2>4. \A i \in 1 .. Len(sticky) : f[i] = IF i \in StickyAt(e.offset) THEN e ELSE sticky[i]
      OBVIOUS
    <2> HIDE DEF f
    <2>5. Len(f) <= MaxSticky /\ Len(f) >= Len(sticky)  BY <1>1, <2>3
    <2>6. \A i \in 1 .. Len(f) : ~(i > Len(sticky))  BY <1>1, <2>3
    <2> QED BY <1>2, <2>1, <2>3, <2>4, <2>5, <2>6
  <1>3. CASE StickyAt(e.offset) = {} /\ Len(sticky) < MaxSticky
    <2>1. Keep(e) = Append(sticky, e)  BY <1>3 DEF Keep
    <2> QED BY <1>1, <1>3, <2>1
  <1>4. CASE StickyAt(e.offset) = {} /\ ~(Len(sticky) < MaxSticky)
    <2>1. Keep(e) = sticky  BY <1>4 DEF Keep
    <2> QED BY <1>1, <1>4, <2>1
  <1> QED BY <1>2, <1>3, <1>4

LEMMA PatchedIs ==
    ASSUME NEW tag, NEW o \in Offset
    PROVE  /\ StickyAt(o) = {} => Patched(tag)[o] = tag[o]
           /\ StickyAt(o) # {} => \E i \in StickyAt(o) : Patched(tag)[o] = sticky[i].value
  <1>1. StickyAt(o) # {} => (CHOOSE i \in StickyAt(o) : TRUE) \in StickyAt(o)  OBVIOUS
  <1> QED BY <1>1 DEF Patched

LEMMA PatchedType ==
    ASSUME TypeOK, StickyInv, NEW tag \in [Offset -> Byte]
    PROVE  Patched(tag) \in [Offset -> Byte]
  <1>1. ASSUME NEW o \in Offset  PROVE  Patched(tag)[o] \in Byte
    <2>1. CASE StickyAt(o) = {}  BY <2>1, PatchedIs
    <2>2. CASE StickyAt(o) # {}
      <3>1. PICK i \in StickyAt(o) : Patched(tag)[o] = sticky[i].value  BY <2>2, PatchedIs
      <3>2. i \in 1 .. Len(sticky) /\ sticky[i] \in Patch  BY DEF StickyAt, TypeOK
      <3>3. sticky[i].value[2] > 0  BY <3>2 DEF StickyInv
      <3> QED BY <3>1, <3>2, <3>3, PatchIs, BytesAre, Constants
    <2> QED BY <2>1, <2>2
  <1>2. Patched(tag) = [o \in Offset |-> Patched(tag)[o]]  BY DEF Patched
  <1> QED BY <1>1, <1>2

-----------------------------------------------------------------------------
(* Types *)

\* The parts of TypeOK.
Type9State == arm9 \in State9 /\ calls \in Calls /\ frames \in Seq(BeaconFrame)
TableType  == /\ fragments \in [Index -> [1 .. Extra -> Byte]]
              /\ size \in 0 .. Extra /\ count \in 0 .. MaxFragments /\ generation \in 0 .. 255
RingType   == /\ patch \in [0 .. PatchSlots - 1 -> Patch]
              /\ write \in 0 .. PatchSlots - 1 /\ read \in 0 .. PatchSlots - 1
              /\ latest \in [Offset -> 0 .. MaxPatches] /\ forgot \in [Offset -> 0 .. MaxPatches]
BeaconType == /\ on \in BOOLEAN /\ vendor \in BOOLEAN /\ mac \in [Offset -> Byte]
              /\ index \in Index /\ seen \in 0 .. 255
              /\ sticky \in Seq(Patch) /\ Len(sticky) <= MaxSticky
Type7State == arm7 \in State7 /\ fresh \in 0 .. MaxTables

LEMMA TypeParts == TypeOK <=> Type9State /\ TableType /\ RingType /\ BeaconType /\ Type7State
  BY DEF TypeOK, Type9State, TableType, RingType, BeaconType, Type7State

LEMMA Fields ==
    ASSUME TypeOK
    PROVE  /\ arm9.pc \in {"idle", "copy", "size", "count", "generation", "publish"}
           /\ arm9.size \in 0 .. Extra /\ arm9.count \in 0 .. MaxFragments
           /\ arm9.i \in 0 .. MaxFragments /\ arm9.k \in 0 .. Extra
           /\ arm7.pc \in {"idle", "apply", "flush", "size", "rotate", "copy", "send"}
           /\ arm7.size \in 0 .. Extra /\ arm7.count \in 0 .. MaxFragments /\ arm7.k \in 0 .. Extra
           /\ calls.tables \in 0 .. MaxTables /\ calls.patches \in 0 .. MaxPatches
           /\ calls.beacons \in 0 .. MaxBeacons
  BY DEF TypeOK, State9, State7, Calls

LEMMA Type9 ==
    ASSUME IInv, Arm9 \/ Application
    PROVE  Type9State' /\ TableType' /\ RingType'
  <1>0. TypeOK /\ TableInv  BY DEF IInv
  <1>1. Type9State /\ TableType /\ RingType  BY <1>0, TypeParts
  <1>2. CASE \E v \in BOOLEAN : Wifi_BeaconStartEx(v)
    <2>1. PICK v \in BOOLEAN : Wifi_BeaconStartEx(v)  BY <1>2
    <2>2. calls' = [calls EXCEPT !.beacons = @ + 1] /\ calls.beacons + 1 \in 1 .. MaxBeacons
      <3>1. calls' = [calls EXCEPT !.beacons = @ + 1] /\ calls.beacons < MaxBeacons
        BY <2>1 DEF Wifi_BeaconStartEx
      <3>2. calls.beacons \in 0 .. MaxBeacons  BY <1>0, Fields
      <3> QED BY <3>1, <3>2, Constants
    <2>3. calls' \in Calls /\ calls'.beacons \in 1 .. MaxBeacons  BY <1>1, <2>2 DEF Type9State, Calls
    <2>4. [n |-> calls'.beacons, vendor |-> v] \in BeaconFrame  BY <2>3 DEF BeaconFrame
    <2>5. frames' \in Seq(BeaconFrame)  BY <1>1, <2>1, <2>4 DEF Wifi_BeaconStartEx, Type9State
    <2>6. UNCHANGED <<shared, arm9, latest, forgot>>  BY <2>1 DEF Wifi_BeaconStartEx
    <2> QED BY <1>1, <2>3, <2>5, <2>6 DEF shared, Type9State, TableType, RingType
  <1>3. CASE \E s \in Sizes, c \in Counts : Wifi_BeaconSetExtraDataFragments(s, c)
    <2>1. PICK s \in Sizes, c \in Counts : Wifi_BeaconSetExtraDataFragments(s, c)  BY <1>3
    <2>2. s \in 1 .. Extra /\ c \in 1 .. MaxFragments  BY BeaconAssumption
    <2>3. calls' = [calls EXCEPT !.tables = @ + 1] /\ calls.tables + 1 \in 0 .. MaxTables
      BY <1>0, <2>1, Fields, Constants DEF Wifi_BeaconSetExtraDataFragments
    <2>4. calls' \in Calls  BY <1>1, <2>3 DEF Type9State, Calls
    <2>5. arm9' \in State9
      <3>1. arm9' = [pc |-> "copy", size |-> s, count |-> c, i |-> 0, k |-> 1]
        BY <2>1 DEF Wifi_BeaconSetExtraDataFragments
      <3> QED BY <2>2, <3>1, Constants DEF State9
    <2>6. UNCHANGED <<shared, frames, latest, forgot>>  BY <2>1 DEF Wifi_BeaconSetExtraDataFragments
    <2> QED BY <1>1, <2>4, <2>5, <2>6 DEF shared, Type9State, TableType, RingType
  <1>4. CASE \E o \in Patchable : Wifi_BeaconPatchVendorByte(o)
    <2>1. PICK o \in Patchable : Wifi_BeaconPatchVendorByte(o)  BY <1>4
    <2>2. o \in Offset  BY BeaconAssumption DEF Offset
    <2>3. calls' = [calls EXCEPT !.patches = @ + 1] /\ calls.patches + 1 \in 1 .. MaxPatches
      BY <1>0, <2>1, Fields, Constants DEF Wifi_BeaconPatchVendorByte
    <2>4. calls' \in Calls /\ calls'.patches \in 0 .. MaxPatches  BY <1>1, <2>3 DEF Type9State, Calls
    <2>5. [offset |-> o, value |-> OfPatch(calls'.patches)] \in Patch  BY <2>2, <2>4 DEF Patch
    <2>6. patch' \in [0 .. PatchSlots - 1 -> Patch]
      BY <1>1, <2>1, <2>5 DEF RingType, Wifi_BeaconPatchVendorByte
    <2>7. arm9' \in State9
      <3>1. arm9' = [Idle9 EXCEPT !.pc = "publish"]  BY <2>1 DEF Wifi_BeaconPatchVendorByte
      <3> QED BY <3>1, Constants DEF State9, Idle9
    <2>8. UNCHANGED <<fragments, size, count, generation, write, read, frames, latest, forgot>>
      BY <2>1 DEF Wifi_BeaconPatchVendorByte
    <2> QED BY <1>1, <2>4, <2>6, <2>7, <2>8 DEF Type9State, TableType, RingType
  <1>5. CASE CopyByte
    <2>1. arm9.i \in Index /\ arm9.k \in 1 .. Extra /\ calls.tables \in 1 .. MaxTables
      <3>1. arm9.pc = "copy"  BY <1>5 DEF CopyByte
      <3>2. generation = calls.tables - 1 /\ arm9.i < arm9.count /\ arm9.k \in 1 .. arm9.size
        BY <1>0, <3>1 DEF TableInv, At9
      <3>3. generation \in Nat  BY <1>1 DEF TableType
      <3>4. /\ arm9.size \in 0 .. Extra /\ arm9.count \in 0 .. MaxFragments /\ arm9.i \in 0 .. MaxFragments
            /\ calls.tables \in 0 .. MaxTables
        BY <1>0, Fields
      <3>5. arm9.i \in Index  BY <3>2, <3>4, Constants DEF Index
      <3> QED BY <3>2, <3>3, <3>4, <3>5, Constants
    <2>2. OfTable(calls.tables, arm9.i) \in Byte  BY <2>1, BytesAre
    <2>3. fragments' \in [Index -> [1 .. Extra -> Byte]]
      BY <1>1, <1>5, <2>1, <2>2 DEF CopyByte, TableType
    <2>4. arm9' \in State9
      <3>1. \/ arm9.k < arm9.size /\ arm9' = [arm9 EXCEPT !.k = arm9.k + 1]
            \/ arm9.i + 1 < arm9.count /\ arm9' = [arm9 EXCEPT !.k = 1, !.i = arm9.i + 1]
            \/ arm9' = [arm9 EXCEPT !.pc = "size"]
        BY <1>5 DEF CopyByte
      <3>2. /\ arm9.k < arm9.size => arm9.k + 1 \in 0 .. Extra
            /\ arm9.i + 1 < arm9.count => arm9.i + 1 \in 0 .. MaxFragments
            /\ 1 \in 0 .. Extra
        BY <1>0, <2>1, Fields, Constants
      <3>3. arm9 \in State9  BY <1>1 DEF Type9State
      <3> QED BY <3>1, <3>2, <3>3 DEF State9
    <2>5. UNCHANGED <<size, count, generation, patch, write, read, frames, calls, latest, forgot>>
      BY <1>5 DEF CopyByte
    <2> QED BY <1>1, <2>3, <2>4, <2>5 DEF Type9State, TableType, RingType
  <1>6. CASE StoreTable
    <2>1. arm9' \in State9
      <3>1. \/ arm9' = [arm9 EXCEPT !.pc = "count"] \/ arm9' = [arm9 EXCEPT !.pc = "generation"]
            \/ arm9' = Idle9
        BY <1>6 DEF StoreTable
      <3> QED BY <1>1, <3>1, Constants DEF Type9State, State9, Idle9
    <2>2. size' \in 0 .. Extra /\ count' \in 0 .. MaxFragments /\ generation' \in 0 .. 255
      <3>1. /\ size' \in {size, arm9.size} /\ count' \in {count, arm9.count}
            /\ generation' \in {generation, (generation + 1) % 256}
        BY <1>6 DEF StoreTable
      <3>2. (generation + 1) % 256 \in 0 .. 255  BY <1>1 DEF TableType
      <3> QED BY <1>0, <1>1, <3>1, <3>2, Fields DEF TableType
    <2>3. UNCHANGED <<fragments, patch, write, read, frames, calls, latest, forgot>>  BY <1>6 DEF StoreTable
    <2> QED BY <1>1, <2>1, <2>2, <2>3 DEF Type9State, TableType, RingType
  <1>7. CASE PublishPatch
    <2>1. write' \in 0 .. PatchSlots - 1  BY <1>1, <1>7, AfterIs DEF PublishPatch, RingType
    <2>2. calls.patches \in 0 .. MaxPatches  BY <1>0, Fields
    <2>3. latest' \in [Offset -> 0 .. MaxPatches]  BY <1>1, <1>7, <2>2 DEF PublishPatch, RingType
    <2>4. arm9' \in State9  BY <1>7, Constants DEF PublishPatch, State9, Idle9
    <2>5. UNCHANGED <<fragments, size, count, generation, patch, read, frames, calls, forgot>>
      BY <1>7 DEF PublishPatch
    <2> QED BY <1>1, <2>1, <2>3, <2>4, <2>5 DEF Type9State, TableType, RingType
  <1> QED BY <1>2, <1>3, <1>4, <1>5, <1>6, <1>7 DEF Arm9, Application

LEMMA Type7 ==
    ASSUME IInv, Arm7
    PROVE  BeaconType' /\ Type7State' /\ frames' \in Seq(BeaconFrame) /\ RingType'
  <1>0. TypeOK /\ RotateInv /\ StickyInv  BY DEF IInv
  <1>1. Type9State /\ TableType /\ RingType /\ BeaconType /\ Type7State  BY <1>0, TypeParts
  <1>2. CASE TakePatch
    <2>1. patch[read] \in Patch  BY <1>1 DEF RingType
    <2>2. sticky' \in Seq(Patch) /\ Len(sticky') <= MaxSticky  BY <1>0, <1>2, <2>1, KeepIs DEF TakePatch
    <2>3. read' \in 0 .. PatchSlots - 1  BY <1>1, <1>2, AfterIs DEF TakePatch, RingType
    <2>4. arm7' \in State7  BY <1>1, <1>2 DEF TakePatch, Type7State, State7
    <2>5. UNCHANGED <<patch, write, frames, on, vendor, mac, index, seen, latest, forgot, fresh>>
      BY <1>2 DEF TakePatch
    <2> QED BY <1>1, <2>2, <2>3, <2>4, <2>5 DEF BeaconType, Type7State, Type9State, RingType
  <1>3. CASE ApplyPatches
    <2>1. mac' \in [Offset -> Byte]  BY <1>0, <1>1, <1>3, PatchedType DEF ApplyPatches, BeaconType
    <2>2. arm7' \in State7  BY <1>1, <1>3 DEF ApplyPatches, Type7State, State7
    <2>3. UNCHANGED <<patch, write, read, frames, on, vendor, index, seen, sticky, latest, forgot, fresh>>
      BY <1>3 DEF ApplyPatches, shared
    <2> QED BY <1>1, <2>1, <2>2, <2>3 DEF BeaconType, Type7State, Type9State, RingType
  <1>4. CASE Wifi_BeaconSetup
    <2>1. frames \in Seq(BeaconFrame) /\ frames # <<>>  BY <1>1, <1>4 DEF Wifi_BeaconSetup, Type9State
    <2>2. Head(frames) \in BeaconFrame /\ Tail(frames) \in Seq(BeaconFrame)  BY <2>1
    <2>3. Head(frames).n \in 1 .. MaxBeacons /\ Head(frames).vendor \in BOOLEAN  BY <2>2 DEF BeaconFrame
    <2>4. OfFrame(Head(frames).n) \in Byte  BY <2>3, BytesAre
    <2>5. mac' \in [Offset -> Byte]  BY <1>4, <2>4 DEF Wifi_BeaconSetup
    <2>6. latest' = latest /\ forgot' \in [Offset -> 0 .. MaxPatches]
      <3>1. \A o \in Offset : latest[o] \in 0 .. MaxPatches /\ forgot[o] \in 0 .. MaxPatches
        BY <1>1 DEF RingType
      <3> QED BY <1>4, <3>1 DEF Wifi_BeaconSetup
    <2>7. sticky' \in Seq(Patch) /\ Len(sticky') <= MaxSticky  BY <1>4, Constants DEF Wifi_BeaconSetup
    <2>8. index' \in Index  BY <1>4, Constants DEF Wifi_BeaconSetup, Index
    <2>9. seen' \in 0 .. 255  BY <1>1, <1>4 DEF Wifi_BeaconSetup, TableType
    <2>10. on' \in BOOLEAN /\ vendor' \in BOOLEAN  BY <1>4, <2>3 DEF Wifi_BeaconSetup
    <2>11. arm7' \in State7  BY <1>4, Constants DEF Wifi_BeaconSetup, State7, Idle7
    <2>12. UNCHANGED <<patch, write, read, fresh>> /\ frames' = Tail(frames)
      BY <1>4 DEF Wifi_BeaconSetup, shared
    <2> QED BY <1>1, <2>2, <2>5, <2>6, <2>7, <2>8, <2>9, <2>10, <2>11, <2>12
            DEF BeaconType, Type7State, RingType
  <1>5. CASE UpdateEnds \/ Transmit
    <2>1. arm7' \in State7  BY <1>5, Constants DEF UpdateEnds, Transmit, State7, Idle7
    <2>2. fresh' \in 0 .. MaxTables  BY <1>1, <1>5, Constants DEF UpdateEnds, Transmit, Type7State
    <2>3. UNCHANGED <<patch, write, read, frames, on, vendor, mac, index, seen, sticky, latest, forgot>>
      BY <1>5 DEF UpdateEnds, Transmit, shared, beacon
    <2> QED BY <1>1, <2>1, <2>2, <2>3 DEF BeaconType, Type7State, Type9State, RingType
  <1>6. CASE Wifi_BeaconRotateFragment \/ ReadSize
    <2>1. fresh' \in 0 .. MaxTables
      <3>1. fresh' \in {0, fresh, calls.tables}
        BY <1>6 DEF Wifi_BeaconRotateFragment, ReadSize, Settled
      <3>2. calls.tables \in 0 .. MaxTables  BY <1>0, Fields
      <3> QED BY <1>1, <3>1, <3>2, Constants DEF Type7State
    <2>2. arm7' \in State7
      <3>1. \/ arm7' = [Idle7 EXCEPT !.pc = "size", !.count = count]
            \/ arm7' = [Idle7 EXCEPT !.pc = "send"]
            \/ arm7' = [arm7 EXCEPT !.pc = "rotate", !.size = size, !.k = 1]
        BY <1>6 DEF Wifi_BeaconRotateFragment, ReadSize
      <3>2. size \in 0 .. Extra /\ count \in 0 .. MaxFragments /\ 1 \in 0 .. Extra /\ arm7 \in State7
        BY <1>1, Constants DEF TableType, Type7State
      <3>3. CASE arm7' = [Idle7 EXCEPT !.pc = "size", !.count = count]
        <4>1. arm7' = [pc |-> "size", size |-> 0, count |-> count, k |-> 0]  BY <3>3 DEF Idle7
        <4>2. 0 \in 0 .. Extra  BY Constants
        <4> QED BY <3>2, <4>1, <4>2 DEF State7
      <3>4. CASE arm7' = [Idle7 EXCEPT !.pc = "send"]  BY <3>4, Constants DEF State7, Idle7
      <3>5. CASE arm7' = [arm7 EXCEPT !.pc = "rotate", !.size = size, !.k = 1]  BY <3>2, <3>5 DEF State7
      <3> QED BY <3>1, <3>3, <3>4, <3>5
    <2>3. UNCHANGED <<patch, write, read, frames, on, vendor, mac, index, seen, sticky, latest, forgot>>
      BY <1>6 DEF Wifi_BeaconRotateFragment, ReadSize, shared, beacon
    <2> QED BY <1>1, <2>1, <2>2, <2>3 DEF BeaconType, Type7State, Type9State, RingType
  <1>7. CASE ReadGeneration
    <2>1. index' \in Index /\ seen' \in 0 .. 255
      BY <1>1, <1>7, Constants DEF ReadGeneration, BeaconType, TableType, Index
    <2>2. arm7' \in State7  BY <1>1, <1>7 DEF ReadGeneration, Type7State, State7
    <2>3. UNCHANGED <<patch, write, read, frames, on, vendor, mac, sticky, latest, forgot, fresh>>
      BY <1>7 DEF ReadGeneration, shared
    <2> QED BY <1>1, <2>1, <2>2, <2>3 DEF BeaconType, Type7State, Type9State, RingType
  <1>8. CASE WriteByte
    <2> DEFINE tag == [mac EXCEPT ![Header + arm7.k - 1] = fragments[index][arm7.k]]
    <2>1. arm7.k \in 1 .. Extra /\ arm7.size = Extra  BY <1>0, <1>8 DEF WriteByte, RotateInv
    <2>2. fragments[index][arm7.k] \in Byte  BY <1>1, <2>1 DEF TableType, BeaconType
    <2>3. tag \in [Offset -> Byte]  BY <1>1, <2>2 DEF BeaconType
    <2>4. mac' = tag \/ mac' = Patched(tag)  BY <1>8 DEF WriteByte, Repatched
    <2>5. mac' \in [Offset -> Byte]  BY <1>0, <2>3, <2>4, PatchedType
    <2>6. index' \in Index
      <3>1. index' \in {index, 0} \/ (index' = index + 1 /\ ~(index + 1 >= arm7.count))
        BY <1>8 DEF WriteByte, NextIndex
      <3>2. arm7.count \in 0 .. MaxFragments  BY <1>0, Fields
      <3> QED BY <1>1, <3>1, <3>2, Constants DEF BeaconType, Index
    <2>7. arm7' \in State7
      <3>1. \/ arm7.k < arm7.size /\ arm7' = [arm7 EXCEPT !.k = arm7.k + 1]
            \/ arm7' = [arm7 EXCEPT !.pc = "send"]
        BY <1>8 DEF WriteByte
      <3>2. arm7.k < arm7.size => arm7.k + 1 \in 0 .. Extra  BY <2>1, Constants
      <3> QED BY <1>1, <3>1, <3>2 DEF Type7State, State7
    <2>8. UNCHANGED <<patch, write, read, frames, on, vendor, seen, sticky, latest, forgot, fresh>>
      BY <1>8 DEF WriteByte, shared
    <2> QED BY <1>1, <2>5, <2>6, <2>7, <2>8 DEF BeaconType, Type7State, Type9State, RingType
  <1> QED BY <1>2, <1>3, <1>4, <1>5, <1>6, <1>7, <1>8 DEF Arm7

\* What each CPU leaves alone.
LEMMA Unchanged9 ==
    ASSUME Arm9 \/ Application
    PROVE  UNCHANGED <<read, on, vendor, mac, index, seen, sticky, arm7, fresh>>
  BY DEF Arm9, Application, CopyByte, StoreTable, PublishPatch, Wifi_BeaconStartEx,
         Wifi_BeaconSetExtraDataFragments, Wifi_BeaconPatchVendorByte, beacon, shared

LEMMA Unchanged7 ==
    ASSUME Arm7
    PROVE  UNCHANGED <<fragments, size, count, generation, patch, write, arm9, calls>>
  BY DEF Arm7, TakePatch, ApplyPatches, Wifi_BeaconSetup, UpdateEnds, Wifi_BeaconRotateFragment,
         ReadSize, ReadGeneration, WriteByte, Transmit, shared

LEMMA TypeStep ==
    ASSUME IInv, Next
    PROVE  TypeOK'
  <1>0. Type9State /\ TableType /\ RingType /\ BeaconType /\ Type7State  BY TypeParts DEF IInv
  <1>1. CASE Arm9 \/ Application
    <2>1. Type9State' /\ TableType' /\ RingType'  BY <1>1, Type9
    <2>2. BeaconType' /\ Type7State'  BY <1>0, <1>1, Unchanged9 DEF BeaconType, Type7State
    <2> QED BY <2>1, <2>2 DEF TypeOK, Type9State, TableType, RingType, BeaconType, Type7State
  <1>2. CASE Arm7
    <2>1. BeaconType' /\ Type7State' /\ frames' \in Seq(BeaconFrame) /\ RingType'  BY <1>2, Type7
    <2>2. TableType' /\ arm9' \in State9 /\ calls' \in Calls
      BY <1>0, <1>2, Unchanged7 DEF TableType, Type9State
    <2> QED BY <2>1, <2>2 DEF TypeOK, TableType, RingType, BeaconType, Type7State
  <1> QED BY <1>1, <1>2 DEF Next

-----------------------------------------------------------------------------
(* The ring of patches *)

LEMMA Slots ==
    ASSUME TypeOK
    PROVE  /\ read \in 0 .. PatchSlots - 1 /\ write \in 0 .. PatchSlots - 1 /\ write \notin Unread
           /\ \A s \in Unread : s \in 0 .. PatchSlots - 1 /\ patch[s] \in Patch
  <1>1. RingType  BY TypeParts
  <1> QED BY <1>1, Constants DEF RingType, Unread

LEMMA Taken ==
    ASSUME TypeOK, read # write, read' = After(read), write' = write
    PROVE  /\ read \in Unread
           /\ \A s \in Unread : s # read => Rank(read) < Rank(s)
           /\ \A s : s \in Unread' <=> s \in Unread /\ s # read
           /\ \A s \in Unread' : Rank(s)' = Rank(s) - 1 /\ Rank(s) \in Nat
           /\ Room => Room'
  <1>1. read \in 0 .. PatchSlots - 1 /\ write \in 0 .. PatchSlots - 1 /\ PatchSlots \in Nat \ {0}
    BY Constants DEF TypeOK
  <1>2. /\ After(read) = IF read + 1 = PatchSlots THEN 0 ELSE read + 1
        /\ After(write) = IF write + 1 = PatchSlots THEN 0 ELSE write + 1
    BY <1>1, AfterIs
  <1>3. After(write)' = After(write)  BY DEF After
  <1>4. read \in Unread /\ \A s \in Unread : s # read => Rank(read) < Rank(s)
    BY <1>1 DEF Unread, Rank
  <1>5. \A s : s \in Unread' <=> s \in Unread /\ s # read  BY <1>1, <1>2 DEF Unread
  <1>6. \A s \in Unread' : Rank(s)' = Rank(s) - 1 /\ Rank(s) \in Nat
    <2> SUFFICES ASSUME NEW s \in Unread'  PROVE  Rank(s)' = Rank(s) - 1 /\ Rank(s) \in Nat
      OBVIOUS
    <2>1. s \in 0 .. PatchSlots - 1 /\ s # read /\ s \in Unread  BY <1>5 DEF Unread
    <2> QED BY <1>1, <1>2, <2>1 DEF Rank, Unread
  <1>7. Room => Room'  BY <1>1, <1>2, <1>3 DEF Room
  <1> QED BY <1>4, <1>5, <1>6, <1>7

LEMMA Published ==
    ASSUME TypeOK, Room, write' = After(write), read' = read
    PROVE  /\ \A s : s \in Unread' <=> s \in Unread \/ s = write
           /\ \A s \in Unread : Rank(s) < Rank(write)
           /\ \A s \in Unread' : Rank(s)' = Rank(s)
  <1>1. read \in 0 .. PatchSlots - 1 /\ write \in 0 .. PatchSlots - 1 /\ PatchSlots \in Nat \ {0}
    BY Constants DEF TypeOK
  <1>2. After(write) = IF write + 1 = PatchSlots THEN 0 ELSE write + 1  BY <1>1, AfterIs
  <1>3. \A s : s \in Unread' <=> s \in Unread \/ s = write  BY <1>1, <1>2 DEF Unread, Room
  <1>4. \A s \in Unread : Rank(s) < Rank(write)  BY <1>1 DEF Unread, Rank
  <1>5. \A s \in Unread' : Rank(s)' = Rank(s)  BY DEF Rank
  <1> QED BY <1>3, <1>4, <1>5

LEMMA RingKept ==
    ASSUME RingInv, UNCHANGED <<patch, write, read, latest>>, calls'.patches = calls.patches,
           arm9'.pc = "publish" => arm9.pc = "publish"
    PROVE  RingInv'
  BY DEF RingInv, Number, Rank, Unread, Room, After

LEMMA RingStep ==
    ASSUME IInv, Next
    PROVE  RingInv'
  <1>0. TypeOK /\ RingInv  BY DEF IInv
  <1>1. calls \in Calls /\ arm9 \in State9  BY <1>0 DEF TypeOK
  <1>2. CASE \/ \E v \in BOOLEAN : Wifi_BeaconStartEx(v)
             \/ \E s \in Sizes, c \in Counts : Wifi_BeaconSetExtraDataFragments(s, c)
             \/ CopyByte \/ StoreTable
    <2>1. UNCHANGED <<patch, write, read, latest, forgot>>
      BY <1>2 DEF Wifi_BeaconStartEx, Wifi_BeaconSetExtraDataFragments, CopyByte, StoreTable, shared
    <2>2. calls'.patches = calls.patches
      BY <1>1, <1>2 DEF Wifi_BeaconStartEx, Wifi_BeaconSetExtraDataFragments, CopyByte, StoreTable, Calls
    <2>3. arm9'.pc = "publish" => arm9.pc = "publish"
      <3>1. CASE CopyByte
        <4>1. \/ arm9' = [arm9 EXCEPT !.k = arm9.k + 1]
              \/ arm9' = [arm9 EXCEPT !.k = 1, !.i = arm9.i + 1]
              \/ arm9' = [arm9 EXCEPT !.pc = "size"]
          BY <3>1 DEF CopyByte
        <4> QED BY <1>1, <4>1 DEF State9
      <3>2. CASE StoreTable
        <4>1. \/ arm9' = [arm9 EXCEPT !.pc = "count"] \/ arm9' = [arm9 EXCEPT !.pc = "generation"]
              \/ arm9' = Idle9
          BY <3>2 DEF StoreTable
        <4> QED BY <1>1, <4>1 DEF State9, Idle9
      <3>3. CASE \E v \in BOOLEAN : Wifi_BeaconStartEx(v)  BY <3>3 DEF Wifi_BeaconStartEx
      <3>4. ASSUME NEW s \in Sizes, NEW c \in Counts, Wifi_BeaconSetExtraDataFragments(s, c)
            PROVE  arm9'.pc = "copy"
        BY <3>4 DEF Wifi_BeaconSetExtraDataFragments
      <3> QED BY <1>2, <3>1, <3>2, <3>3, <3>4
    <2> QED BY <1>0, <2>1, <2>2, <2>3, RingKept
  <1>3. CASE \E o \in Patchable : Wifi_BeaconPatchVendorByte(o)
    <2>1. PICK o \in Patchable : Wifi_BeaconPatchVendorByte(o)  BY <1>3
    <2>2. /\ patch' = [patch EXCEPT ![write] = [offset |-> o, value |-> OfPatch(calls'.patches)]]
          /\ Room /\ UNCHANGED <<write, read, latest, forgot>>
      BY <2>1 DEF Wifi_BeaconPatchVendorByte
    <2>3. calls'.patches = calls.patches + 1 /\ calls.patches \in Nat
      BY <1>1, <2>1 DEF Wifi_BeaconPatchVendorByte, Calls
    <2>4. \A s : s \in Unread' <=> s \in Unread  BY <2>2 DEF Unread
    <2>5. \A s \in Unread : patch'[s] = patch[s]  BY <1>0, <2>2, Slots DEF TypeOK
    <2>6. patch'[write] = [offset |-> o, value |-> OfPatch(calls'.patches)]  BY <1>0, <2>2 DEF TypeOK
    <2>7. Number(write)' = calls'.patches  BY <2>2, <2>6 DEF Number, OfPatch
    <2>8. \A s \in Unread : Number(s)' = Number(s) /\ Rank(s)' = Rank(s)  BY <2>2, <2>5 DEF Number, Rank
    <2>9. Room'  BY <2>2 DEF Room, After
    <2>10. \A s \in Unread : Number(s) \in 1 .. calls.patches /\ Number(s) <= latest[patch[s].offset]
      BY <1>0 DEF RingInv
    <2> QED BY <1>0, <2>2, <2>3, <2>4, <2>5, <2>7, <2>8, <2>9, <2>10 DEF RingInv
  <1>4. CASE PublishPatch
    <2>1. /\ UNCHANGED <<patch, read, calls>> /\ write' = After(write) /\ arm9' = Idle9
          /\ latest' = [latest EXCEPT ![patch[write].offset] = calls.patches]
          /\ arm9.pc = "publish"
      BY <1>4 DEF PublishPatch
    <2>2. /\ Room /\ calls.patches > 0 /\ Number(write) = calls.patches
          /\ \A s \in Unread : Number(s) < calls.patches
      BY <1>0, <2>1 DEF RingInv
    <2>3. \A s \in Unread : Number(s) \in 1 .. calls.patches /\ Number(s) <= latest[patch[s].offset]
      BY <1>0 DEF RingInv
    <2>4. \A s : Number(s)' = Number(s)  BY <2>1 DEF Number
    <2>5. patch[write] \in Patch /\ calls.patches \in Nat
      BY <1>0, <1>1 DEF TypeOK, Calls
    <2>6. \A s \in Unread' : Number(s) \in 1 .. calls.patches /\ Number(s) <= latest'[patch[s].offset]
      <3> SUFFICES ASSUME NEW s \in Unread'
                   PROVE  Number(s) \in 1 .. calls.patches /\ Number(s) <= latest'[patch[s].offset]
        OBVIOUS
      <3>1. s \in Unread \/ s = write  BY <1>0, <2>1, <2>2, Published
      <3>2. patch[s].offset \in Offset /\ Number(s) \in 1 .. calls.patches
        BY <1>0, <2>2, <2>3, <2>5, <3>1, Slots, PatchIs
      <3>3. latest'[patch[s].offset] = IF patch[s].offset = patch[write].offset THEN calls.patches
                                                                  ELSE latest[patch[s].offset]
        BY <1>0, <2>1, <3>2 DEF TypeOK
      <3> QED BY <2>2, <2>3, <3>1, <3>2, <3>3
    <2>7. \A s, t \in Unread' : Rank(s)' < Rank(t)' => Number(s) < Number(t)
      <3> SUFFICES ASSUME NEW s \in Unread', NEW t \in Unread', Rank(s)' < Rank(t)'
                   PROVE  Number(s) < Number(t)
        OBVIOUS
      <3>1. (s \in Unread \/ s = write) /\ (t \in Unread \/ t = write) /\ Rank(s) < Rank(t)
        BY <1>0, <2>1, <2>2, Published
      <3>2. s \in 0 .. PatchSlots - 1 /\ t \in 0 .. PatchSlots - 1  BY <1>0, <3>1, Slots
      <3>3. Rank(s) \in Int /\ Rank(t) \in Int  BY <1>0, <3>2, Constants DEF Rank, TypeOK
      <3>4. s # write
        BY <1>0, <2>1, <2>2, <3>1, <3>3, Published
      <3> QED BY <1>0, <2>2, <3>1, <3>4 DEF RingInv
    <2> QED BY <2>1, <2>4, <2>6, <2>7 DEF RingInv, Idle9
  <1>5. CASE TakePatch
    <2>1. read # write /\ read' = After(read) /\ UNCHANGED <<patch, write, arm9, calls, latest, forgot>>
      BY <1>5 DEF TakePatch
    <2>2. \A s \in Unread' : s \in Unread /\ Rank(s)' = Rank(s) - 1 /\ Rank(s) \in Nat
      BY <1>0, <2>1, Taken
    <2>3. Room => Room'  BY <1>0, <2>1, Taken
    <2>4. \A s : Number(s)' = Number(s)  BY <2>1 DEF Number
    <2>5. \A s, t \in Unread' : Rank(s)' < Rank(t)' => Rank(s) < Rank(t)  BY <2>2
    <2> QED BY <1>0, <2>1, <2>2, <2>3, <2>4, <2>5 DEF RingInv
  <1>6. CASE Wifi_BeaconSetup
    <2>1. UNCHANGED <<patch, write, read, arm9, calls, latest>>  BY <1>6 DEF Wifi_BeaconSetup, shared
    <2>3. \A s : Number(s)' = Number(s) /\ Rank(s)' = Rank(s)  BY <2>1 DEF Number, Rank
    <2>4. \A s : s \in Unread' <=> s \in Unread  BY <2>1 DEF Unread
    <2>5. Room' <=> Room  BY <2>1 DEF Room, After
    <2> QED BY <1>0, <2>1, <2>3, <2>4, <2>5 DEF RingInv
  <1>7. CASE \/ ApplyPatches \/ UpdateEnds \/ Wifi_BeaconRotateFragment \/ ReadSize \/ ReadGeneration
             \/ WriteByte \/ Transmit
    <2>1. UNCHANGED <<patch, write, read, latest, calls, arm9>>
      BY <1>7 DEF ApplyPatches, UpdateEnds, Wifi_BeaconRotateFragment, ReadSize, ReadGeneration,
                  WriteByte, Transmit, shared
    <2> QED BY <1>0, <2>1, RingKept
  <1> QED BY <1>2, <1>3, <1>4, <1>5, <1>6, <1>7 DEF Next, Arm9, Arm7, Application

-----------------------------------------------------------------------------
(* The list of patches, and the beacon *)

LEMMA HeldKept ==
    ASSUME PatchInv, UNCHANGED <<latest, forgot, sticky, read, write>>, \A s \in Unread : patch'[s] = patch[s]
    PROVE  PatchInv'
  <1>1. \A s : s \in Unread' <=> s \in Unread  BY DEF Unread
  <1>2. \A s \in Unread : Number(s)' = Number(s)  BY DEF Number
  <1>3. \A o : StickyAt(o)' = StickyAt(o) /\ (Dropped(o)' <=> Dropped(o))  BY DEF StickyAt, Dropped
  <1> QED BY <1>1, <1>2, <1>3 DEF PatchInv, Held

LEMMA PatchStep ==
    ASSUME IInv, Next
    PROVE  PatchInv'
  <1>0. TypeOK /\ RingInv /\ PatchInv  BY DEF IInv
  <1>1. CASE \/ \E v \in BOOLEAN : Wifi_BeaconStartEx(v)
             \/ \E s \in Sizes, c \in Counts : Wifi_BeaconSetExtraDataFragments(s, c)
             \/ CopyByte \/ StoreTable
             \/ ApplyPatches \/ UpdateEnds \/ Wifi_BeaconRotateFragment \/ ReadSize \/ ReadGeneration
             \/ WriteByte \/ Transmit
    <2>1. UNCHANGED <<latest, forgot, sticky, read, write, patch>>
      BY <1>1
      DEF Wifi_BeaconStartEx, Wifi_BeaconSetExtraDataFragments, CopyByte, StoreTable, ApplyPatches,
          UpdateEnds, Wifi_BeaconRotateFragment, ReadSize, ReadGeneration, WriteByte, Transmit,
          shared, beacon
    <2> QED BY <1>0, <2>1, HeldKept
  <1>2. CASE \E o \in Patchable : Wifi_BeaconPatchVendorByte(o)
    <2>1. PICK o \in Patchable : Wifi_BeaconPatchVendorByte(o)  BY <1>2
    <2>2. UNCHANGED <<latest, forgot, sticky, read, write>>
          /\ \E e : patch' = [patch EXCEPT ![write] = e]
      BY <2>1 DEF Wifi_BeaconPatchVendorByte, beacon
    <2>3. \A s \in Unread : patch'[s] = patch[s]  BY <1>0, <2>2, Slots DEF TypeOK
    <2> QED BY <1>0, <2>2, <2>3, HeldKept
  <1>3. CASE PublishPatch
    <2>1. /\ UNCHANGED <<patch, read, sticky, forgot>> /\ write' = After(write)
          /\ latest' = [latest EXCEPT ![patch[write].offset] = calls.patches]
          /\ arm9.pc = "publish"
      BY <1>3 DEF PublishPatch, beacon
    <2>2. Room /\ Number(write) = calls.patches  BY <1>0, <2>1 DEF RingInv
    <2>3. \A s : s \in Unread' <=> s \in Unread \/ s = write  BY <1>0, <2>1, <2>2, Published
    <2>4. \A s : Number(s)' = Number(s)  BY <2>1 DEF Number
    <2>5. \A o : StickyAt(o)' = StickyAt(o) /\ (Dropped(o)' <=> Dropped(o))  BY <2>1 DEF StickyAt, Dropped
    <2> SUFFICES ASSUME NEW o \in Offset, latest'[o] > forgot'[o]  PROVE  Held(o)'
      BY DEF PatchInv
    <2>6. CASE o = patch[write].offset
      <3>1. latest'[o] = calls.patches  BY <1>0, <2>1, <2>6 DEF TypeOK
      <3> QED BY <2>1, <2>2, <2>3, <2>4, <2>6, <3>1 DEF Held
    <2>7. CASE o # patch[write].offset
      <3>1. latest'[o] = latest[o]  BY <1>0, <2>1, <2>7 DEF TypeOK
      <3>2. Held(o)  BY <1>0, <2>1, <3>1 DEF PatchInv
      <3> QED BY <2>1, <2>3, <2>4, <2>5, <2>7, <3>1, <3>2 DEF Held
    <2> QED BY <2>6, <2>7
  <1>4. CASE Wifi_BeaconSetup
    <2>1. UNCHANGED <<patch, read, write>>  BY <1>4 DEF Wifi_BeaconSetup, shared
    <2>2. \A s : Number(s)' = Number(s)  BY <2>1 DEF Number
    <2>3. \A s : s \in Unread' <=> s \in Unread  BY <2>1 DEF Unread
    <2> SUFFICES ASSUME NEW o \in Offset, latest'[o] > forgot'[o]  PROVE  Held(o)'
      BY DEF PatchInv
    <2>4. /\ latest'[o] = latest[o] /\ latest[o] > forgot[o]
          /\ \E s \in Unread : patch[s].offset = o
      <3>1. latest' = latest /\ latest[o] \in Int  BY <1>0, <1>4 DEF Wifi_BeaconSetup, TypeOK
      <3>2. forgot'[o] = IF \E s \in Unread : patch[s].offset = o THEN forgot[o] ELSE latest[o]
        BY <1>4 DEF Wifi_BeaconSetup
      <3> QED BY <3>1, <3>2
    <2>5. \E s \in Unread : patch[s].offset = o /\ Number(s) = latest[o]
      BY <1>0, <2>4 DEF PatchInv, Held
    <2> QED BY <2>1, <2>2, <2>3, <2>4, <2>5 DEF Held
  <1>5. CASE TakePatch
    <2> DEFINE e == patch[read]
    <2>1. /\ read # write /\ read' = After(read) /\ UNCHANGED <<patch, write, latest, forgot>>
          /\ sticky' = Keep(e)
      BY <1>5 DEF TakePatch
    <2>2. /\ read \in Unread
          /\ \A s \in Unread : s # read => Number(read) < Number(s)
          /\ \A s : s \in Unread' <=> s \in Unread /\ s # read
      BY <1>0, <2>1, Taken DEF RingInv
    <2>3. \A s : Number(s)' = Number(s)  BY <2>1 DEF Number
    <2>4. e \in Patch /\ sticky \in Seq(Patch) /\ Len(sticky) <= MaxSticky /\ MaxSticky \in Nat
      BY <1>0, Constants DEF TypeOK
    <2>5. /\ sticky' \in Seq(Patch) /\ Len(sticky') <= MaxSticky /\ Len(sticky') >= Len(sticky)
          /\ \A i \in 1 .. Len(sticky) : sticky'[i] = IF i \in StickyAt(e.offset) THEN e ELSE sticky[i]
          /\ \A i \in 1 .. Len(sticky') : i > Len(sticky) => sticky'[i] = e
          /\ Len(sticky') = Len(sticky) => StickyAt(e.offset) # {} \/ Len(sticky) = MaxSticky
      BY <1>0, <2>1, <2>4, KeepIs
    <2> SUFFICES ASSUME NEW o \in Offset, latest'[o] > forgot'[o]  PROVE  Held(o)'
      BY DEF PatchInv
    <2>6. latest'[o] = latest[o] /\ Held(o)  BY <1>0, <2>1 DEF PatchInv
    <2>7. CASE e.offset = o
      <3>1. \A s \in Unread : Number(s) <= latest[patch[s].offset] /\ Number(s) \in Int
        BY <1>0 DEF RingInv
      <3>2. PICK s \in Unread : patch[s].offset = o /\ Number(s) = latest[o]
        BY <2>2, <2>6, <2>7 DEF Held
      <3>3. CASE s # read  BY <2>1, <2>2, <2>3, <2>6, <3>2, <3>3 DEF Held
      <3>4. CASE s = read
        <4>1. \A t \in Unread' : patch[t].offset # o
          <5> SUFFICES ASSUME NEW t \in Unread', patch[t].offset = o  PROVE  FALSE
            OBVIOUS
          <5>1. t \in Unread /\ t # read  BY <2>2
          <5>2. Number(read) < Number(t) /\ Number(t) <= latest[o]  BY <2>2, <3>1, <5>1
          <5> QED BY <3>1, <3>2, <3>4, <5>1, <5>2
        <4>2. e.value = OfPatch(latest[o])  BY <2>4, <3>2, <3>4, PatchIs DEF Number
        <4>3. \A i \in StickyAt(o)' : sticky'[i] = e
          <5> SUFFICES ASSUME NEW i \in StickyAt(o)'  PROVE  sticky'[i] = e
            OBVIOUS
          <5>1. i \in 1 .. Len(sticky') /\ sticky'[i].offset = o  BY DEF StickyAt
          <5>2. CASE i \in 1 .. Len(sticky)  BY <2>5, <2>7, <5>1, <5>2 DEF StickyAt
          <5>3. CASE i \notin 1 .. Len(sticky)  BY <2>4, <2>5, <5>1, <5>3
          <5> QED BY <5>2, <5>3
        <4>4. StickyAt(o)' # {} \/ Dropped(o)'
          <5>1. CASE Len(sticky') > Len(sticky)
            <6>1. sticky'[Len(sticky')] = e /\ Len(sticky') \in 1 .. Len(sticky')  BY <2>4, <2>5, <5>1
            <6> QED BY <2>7, <6>1 DEF StickyAt
          <5>2. CASE Len(sticky') = Len(sticky) /\ StickyAt(e.offset) # {}
            <6>1. PICK i \in 1 .. Len(sticky) : i \in StickyAt(e.offset)  BY <5>2 DEF StickyAt
            <6> QED BY <2>5, <2>7, <5>2, <6>1 DEF StickyAt
          <5>3. CASE Len(sticky') = Len(sticky) /\ Len(sticky) = MaxSticky
            BY <5>3 DEF Dropped
          <5> QED BY <2>4, <2>5, <5>1, <5>2, <5>3
        <4> QED BY <2>1, <2>6, <4>1, <4>2, <4>3, <4>4 DEF Held
      <3> QED BY <3>3, <3>4
    <2>8. CASE e.offset # o
      <3>1. CASE \E s \in Unread : patch[s].offset = o /\ Number(s) = latest[o]
        BY <2>1, <2>2, <2>3, <2>6, <2>8, <3>1 DEF Held
      <3>2. CASE ~\E s \in Unread : patch[s].offset = o /\ Number(s) = latest[o]
        <4>1. \A s \in Unread' : patch[s].offset # o  BY <2>2, <2>6, <3>2 DEF Held
        <4>2. \A i \in StickyAt(o)' : i \in StickyAt(o) /\ sticky'[i] = sticky[i]
          <5> SUFFICES ASSUME NEW i \in StickyAt(o)'  PROVE  i \in StickyAt(o) /\ sticky'[i] = sticky[i]
            OBVIOUS
          <5>1. i \in 1 .. Len(sticky') /\ sticky'[i].offset = o  BY DEF StickyAt
          <5>2. i \in 1 .. Len(sticky) /\ i \notin StickyAt(e.offset)  BY <2>4, <2>5, <2>8, <5>1
          <5> QED BY <2>5, <5>1, <5>2 DEF StickyAt
        <4>3. \A i \in StickyAt(o) : i \in StickyAt(o)'
          <5> SUFFICES ASSUME NEW i \in StickyAt(o)  PROVE  i \in StickyAt(o)'
            OBVIOUS
          <5>1. i \in 1 .. Len(sticky) /\ sticky[i].offset = o /\ i \notin StickyAt(e.offset)
            BY <2>8 DEF StickyAt
          <5> QED BY <2>4, <2>5, <5>1 DEF StickyAt
        <4>4. Dropped(o) => Dropped(o)'  BY <2>4, <2>5, <4>2 DEF Dropped
        <4> QED BY <2>1, <2>6, <3>2, <4>1, <4>2, <4>3, <4>4 DEF Held
      <3> QED BY <3>1, <3>2
    <2> QED BY <2>7, <2>8
  <1> QED BY <1>1, <1>2, <1>3, <1>4, <1>5 DEF Next, Arm9, Arm7, Application

LEMMA MacStep ==
    ASSUME IInv, Next
    PROVE  MacInv' /\ StickyInv'
  <1>0. TypeOK /\ RingInv /\ MacInv /\ StickyInv /\ RotateInv  BY DEF IInv
  <1>1. arm7 \in State7 /\ mac \in [Offset -> Byte]  BY <1>0 DEF TypeOK
  <1>2. CASE Arm9 \/ Application
    BY <1>0, <1>2, Unchanged9 DEF MacInv, StickyInv, StickyAt
  <1>3. CASE TakePatch
    <2>1. UNCHANGED <<on, vendor>> /\ sticky' = Keep(patch[read]) /\ read # write /\ read' = After(read)
          /\ write' = write /\ arm7' = [arm7 EXCEPT !.pc = "apply"]
      BY <1>3 DEF TakePatch
    <2>2. arm7'.pc = "apply"  BY <1>1, <2>1 DEF State7
    <2>3. read \in Unread  BY <1>0, <2>1, Taken
    <2>4. patch[read].value[2] > 0 /\ patch[read] \in Patch
      <3>1. Number(read) \in 1 .. calls.patches  BY <1>0, <2>3 DEF RingInv
      <3> QED BY <1>0, <3>1 DEF Number, TypeOK
    <2>5. StickyInv'
      <3> SUFFICES ASSUME NEW i \in 1 .. Len(sticky')  PROVE  sticky'[i].value[2] > 0
        BY DEF StickyInv
      <3>1. i \in 1 .. Len(sticky) \/ (i > Len(sticky) /\ sticky'[i] = patch[read])
        BY <1>0, <2>1, <2>4, KeepIs DEF TypeOK
      <3>2. i \in 1 .. Len(sticky) => sticky'[i] \in {patch[read], sticky[i]}
        BY <1>0, <2>1, <2>4, KeepIs
      <3> QED BY <1>0, <2>4, <3>1, <3>2 DEF StickyInv
    <2> QED BY <1>0, <2>1, <2>2, <2>5 DEF MacInv
  <1>4. CASE ApplyPatches
    <2>1. UNCHANGED <<on, vendor, sticky>> /\ (vendor /\ on => mac' = Patched(mac))
      BY <1>4 DEF ApplyPatches
    <2>2. \A o : StickyAt(o)' = StickyAt(o)  BY <2>1 DEF StickyAt
    <2>3. StickyInv'  BY <1>0, <2>1 DEF StickyInv
    <2>4. \A o \in Offset : StickyAt(o) # {} => \E i \in StickyAt(o) : Patched(mac)[o] = sticky[i].value
      BY PatchedIs
    <2> QED BY <1>0, <2>1, <2>2, <2>3, <2>4 DEF MacInv
  <1>5. CASE Wifi_BeaconSetup
    <2>1. on' = TRUE /\ sticky' = <<>>  BY <1>5 DEF Wifi_BeaconSetup
    <2>2. \A o : StickyAt(o)' = {}  BY <2>1 DEF StickyAt
    <2> QED BY <2>1, <2>2 DEF MacInv, StickyInv
  <1>6. CASE UpdateEnds \/ Wifi_BeaconRotateFragment \/ ReadSize \/ ReadGeneration \/ Transmit
    <2>1. UNCHANGED <<on, vendor, mac, sticky>> /\ arm7.pc \notin {"apply", "copy"}
      BY <1>6
      DEF UpdateEnds, Wifi_BeaconRotateFragment, ReadSize, ReadGeneration, Transmit, beacon
    <2> QED BY <1>0, <2>1 DEF MacInv, StickyInv, StickyAt
  <1>7. CASE WriteByte
    <2> DEFINE tag == [mac EXCEPT ![Header + arm7.k - 1] = fragments[index][arm7.k]]
    <2>1. UNCHANGED <<on, vendor, sticky>>  BY <1>7 DEF WriteByte
    <2>2. \A o : StickyAt(o)' = StickyAt(o)  BY <2>1 DEF StickyAt
    <2>3. StickyInv'  BY <1>0, <2>1 DEF StickyInv
    <2>4. arm7'.pc = "copy" \/ mac' = Patched(tag)
      <3>1. CASE arm7.k < arm7.size
        <4>1. arm7' = [arm7 EXCEPT !.k = @ + 1] /\ arm7.pc = "copy"  BY <1>7, <3>1 DEF WriteByte
        <4> QED BY <1>1, <4>1 DEF State7
      <3>2. CASE ~(arm7.k < arm7.size)  BY <1>7, <3>2 DEF WriteByte, Repatched
      <3> QED BY <3>1, <3>2
    <2>5. \A o \in Offset : StickyAt(o) # {} => \E i \in StickyAt(o) : Patched(tag)[o] = sticky[i].value
      BY PatchedIs
    <2> QED BY <1>0, <2>1, <2>2, <2>3, <2>4, <2>5 DEF MacInv
  <1> QED BY <1>2, <1>3, <1>4, <1>5, <1>6, <1>7 DEF Next, Arm7

-----------------------------------------------------------------------------
(* The table of fragments *)

LEMMA TableStep ==
    ASSUME IInv, Next
    PROVE  TableInv'
  <1>0. TypeOK /\ TableInv  BY DEF IInv
  <1>1. /\ fragments \in [Index -> [1 .. Extra -> Byte]] /\ arm9 \in State9 /\ calls \in Calls
        /\ size \in 0 .. Extra /\ count \in 0 .. MaxFragments /\ generation \in 0 .. 255
    BY <1>0 DEF TypeOK
  <1>2. CASE Arm7  BY <1>0, <1>2, Unchanged7 DEF TableInv, At9, Written
  <1>3. CASE \E v \in BOOLEAN : Wifi_BeaconStartEx(v)
    <2>1. UNCHANGED <<fragments, size, count, generation, arm9>>
      BY <1>3 DEF Wifi_BeaconStartEx, shared
    <2>2. calls'.tables = calls.tables  BY <1>1, <1>3 DEF Wifi_BeaconStartEx, Calls
    <2> QED BY <1>0, <2>1, <2>2 DEF TableInv, At9, Written
  <1>4. CASE \E s \in Sizes, c \in Counts : Wifi_BeaconSetExtraDataFragments(s, c)
    <2>1. PICK s \in Sizes, c \in Counts : Wifi_BeaconSetExtraDataFragments(s, c)  BY <1>4
    <2>2. s \in 1 .. Extra /\ c \in 1 .. MaxFragments  BY BeaconAssumption
    <2>3. /\ arm9' = [pc |-> "copy", size |-> s, count |-> c, i |-> 0, k |-> 1]
          /\ arm9.pc = "idle" /\ UNCHANGED <<fragments, size, count, generation>>
      BY <2>1 DEF Wifi_BeaconSetExtraDataFragments, shared
    <2>4. calls'.tables = calls.tables + 1 /\ calls.tables \in Nat
      BY <1>1, <2>1 DEF Wifi_BeaconSetExtraDataFragments, Calls
    <2>5. generation = calls.tables  BY <1>0, <2>3 DEF TableInv, At9
    <2>6. Written(0, s)'  BY DEF Written
    <2> QED BY <2>2, <2>3, <2>4, <2>5, <2>6 DEF TableInv, At9, Written
  <1>5. CASE \E o \in Patchable : Wifi_BeaconPatchVendorByte(o)
    <2>1. UNCHANGED <<fragments, size, count, generation>> /\ arm9.pc = "idle"
          /\ arm9' = [Idle9 EXCEPT !.pc = "publish"]
      BY <1>5 DEF Wifi_BeaconPatchVendorByte
    <2>2. arm9'.pc = "publish"  BY <2>1 DEF Idle9
    <2>3. calls'.tables = calls.tables  BY <1>1, <1>5 DEF Wifi_BeaconPatchVendorByte, Calls
    <2> QED BY <1>0, <2>1, <2>2, <2>3 DEF TableInv, At9, Written
  <1>6. CASE PublishPatch
    <2>1. UNCHANGED <<fragments, size, count, generation, calls>> /\ arm9.pc = "publish"
          /\ arm9'.pc = "idle"
      BY <1>6 DEF PublishPatch, Idle9
    <2> QED BY <1>0, <2>1 DEF TableInv, At9, Written
  <1>7. CASE CopyByte
    <2> DEFINE t == calls.tables
    <2>1. /\ arm9.pc = "copy" /\ UNCHANGED <<size, count, generation, calls>>
          /\ fragments' = [fragments EXCEPT ![arm9.i][arm9.k] = OfTable(t, arm9.i)]
      BY <1>7 DEF CopyByte
    <2>2. /\ generation = t - 1 /\ arm9.count \in 1 .. MaxFragments /\ arm9.size \in 1 .. Extra
          /\ arm9.i < arm9.count /\ arm9.k \in 1 .. arm9.size /\ Written(arm9.i, arm9.size)
          /\ \A k \in 1 .. arm9.k - 1 : fragments[arm9.i][k] = OfTable(t, arm9.i)
      BY <1>0, <2>1 DEF TableInv, At9
    <2>3. arm9.i \in Index /\ arm9.k \in 1 .. Extra /\ arm9.i \in Nat
      BY <1>0, <2>2, Fields, Constants DEF Index
    <2>4. \A i \in Index, k \in 1 .. Extra :
             fragments'[i][k] = IF i = arm9.i /\ k = arm9.k THEN OfTable(t, i) ELSE fragments[i][k]
      BY <1>1, <2>1, <2>3
    <2>5. \A i \in 0 .. arm9.i - 1, k \in 1 .. arm9.size : fragments'[i][k] = OfTable(t, i)
      <3> SUFFICES ASSUME NEW i \in 0 .. arm9.i - 1, NEW k \in 1 .. arm9.size
                   PROVE  fragments'[i][k] = OfTable(t, i)
        OBVIOUS
      <3>1. i \in Index /\ k \in 1 .. Extra  BY <2>2, <2>3, Constants DEF Index
      <3>2. fragments[i][k] = OfTable(t, i)  BY <2>2 DEF Written
      <3> QED BY <2>4, <3>1, <3>2
    <2>6. \A k \in 1 .. arm9.k : fragments'[arm9.i][k] = OfTable(t, arm9.i)
      <3> SUFFICES ASSUME NEW k \in 1 .. arm9.k  PROVE  fragments'[arm9.i][k] = OfTable(t, arm9.i)
        OBVIOUS
      <3>1. k \in 1 .. Extra /\ (k = arm9.k \/ k \in 1 .. arm9.k - 1)  BY <2>3, Constants
      <3> QED BY <2>2, <2>3, <2>4, <3>1
    <2>7. CASE arm9.k < arm9.size
      <3>1. arm9' = [arm9 EXCEPT !.k = arm9.k + 1]  BY <1>7, <2>7 DEF CopyByte
      <3>2. /\ arm9'.pc = "copy" /\ arm9'.k = arm9.k + 1 /\ arm9'.i = arm9.i
            /\ arm9'.size = arm9.size /\ arm9'.count = arm9.count
        BY <1>1, <2>1, <3>1 DEF State9
      <3>3. arm9'.k \in 1 .. arm9.size /\ arm9'.k - 1 = arm9.k  BY <2>2, <2>7, <3>2
      <3>4. Written(arm9.i, arm9.size)'  BY <2>1, <2>5, <3>2 DEF Written
      <3> QED BY <2>1, <2>2, <2>6, <3>2, <3>3, <3>4 DEF TableInv, At9
    <2>8. CASE ~(arm9.k < arm9.size)
      <3>1. arm9.k = arm9.size  BY <2>2, <2>8
      <3>2. \A i \in 0 .. arm9.i, k \in 1 .. arm9.size : fragments'[i][k] = OfTable(t, i)
        <4> SUFFICES ASSUME NEW i \in 0 .. arm9.i, NEW k \in 1 .. arm9.size
                     PROVE  fragments'[i][k] = OfTable(t, i)
          OBVIOUS
        <4>1. i = arm9.i \/ i \in 0 .. arm9.i - 1  BY <2>3
        <4> QED BY <2>5, <2>6, <3>1, <4>1
      <3>3. CASE arm9.i + 1 < arm9.count
        <4>1. arm9' = [arm9 EXCEPT !.k = 1, !.i = arm9.i + 1]  BY <1>7, <2>8, <3>3 DEF CopyByte
        <4>2. /\ arm9'.pc = "copy" /\ arm9'.k = 1 /\ arm9'.i = arm9.i + 1
              /\ arm9'.size = arm9.size /\ arm9'.count = arm9.count
          BY <1>1, <2>1, <4>1 DEF State9
        <4>3. Written(arm9.i, arm9.size)'  BY <2>1, <2>3, <3>2, <4>2 DEF Written
        <4>4. arm9'.k \in 1 .. arm9.size  BY <2>2, <4>2
        <4> QED BY <2>1, <2>2, <3>3, <4>2, <4>3, <4>4 DEF TableInv, At9
      <3>4. CASE ~(arm9.i + 1 < arm9.count)
        <4>1. arm9' = [arm9 EXCEPT !.pc = "size"]  BY <1>7, <2>8, <3>4 DEF CopyByte
        <4>2. arm9'.pc = "size" /\ arm9'.size = arm9.size /\ arm9'.count = arm9.count
          BY <1>1, <4>1 DEF State9
        <4>3. arm9.count - 1 = arm9.i  BY <2>2, <2>3, <3>4
        <4>4. Written(arm9.count, arm9.size)'  BY <2>1, <3>2, <4>2, <4>3 DEF Written
        <4> QED BY <2>1, <2>2, <4>2, <4>4 DEF TableInv, At9
      <3> QED BY <3>3, <3>4
    <2> QED BY <2>7, <2>8
  <1>8. CASE StoreTable
    <2>1. UNCHANGED <<fragments, calls>> /\ arm9.pc \in {"size", "count", "generation"}
      BY <1>8 DEF StoreTable
    <2>2. /\ generation = calls.tables - 1 /\ Written(arm9.count, arm9.size)
          /\ arm9.count \in 1 .. MaxFragments /\ arm9.size \in 1 .. Extra
          /\ arm9.pc \in {"count", "generation"} => size = arm9.size
          /\ arm9.pc = "generation" => count = arm9.count
      BY <1>0, <2>1 DEF TableInv, At9
    <2>3. CASE arm9.pc = "size"
      <3>1. size' = arm9.size /\ UNCHANGED <<count, generation>> /\ arm9' = [arm9 EXCEPT !.pc = "count"]
        BY <1>8, <2>3 DEF StoreTable
      <3>2. arm9'.pc = "count" /\ arm9'.size = arm9.size /\ arm9'.count = arm9.count
        BY <1>1, <3>1 DEF State9
      <3> QED BY <2>1, <2>2, <3>1, <3>2 DEF TableInv, At9, Written
    <2>4. CASE arm9.pc = "count"
      <3>1. count' = arm9.count /\ UNCHANGED <<size, generation>> /\ arm9' = [arm9 EXCEPT !.pc = "generation"]
        BY <1>8, <2>4 DEF StoreTable
      <3>2. arm9'.pc = "generation" /\ arm9'.size = arm9.size /\ arm9'.count = arm9.count
        BY <1>1, <3>1 DEF State9
      <3> QED BY <2>1, <2>2, <2>4, <3>1, <3>2 DEF TableInv, At9, Written
    <2>5. CASE arm9.pc = "generation"
      <3>1. generation' = (generation + 1) % 256 /\ UNCHANGED <<size, count>> /\ arm9' = Idle9
        BY <1>8, <2>5 DEF StoreTable
      <3>2. calls.tables \in 0 .. 255  BY <1>0, Fields, Constants
      <3>3. generation' = calls.tables
        <4>1. generation = calls.tables - 1  BY <2>2
        <4>2. (calls.tables - 1) + 1 = calls.tables /\ calls.tables % 256 = calls.tables  BY <3>2
        <4> QED BY <3>1, <4>1, <4>2
      <3>4. arm9'.pc = "idle"  BY <3>1 DEF Idle9
      <3> QED BY <2>1, <2>2, <2>5, <3>1, <3>3, <3>4 DEF TableInv, At9, Written
    <2> QED BY <2>1, <2>3, <2>4, <2>5
  <1> QED BY <1>2, <1>3, <1>4, <1>5, <1>6, <1>7, <1>8 DEF Next, Arm9, Application

\* What the ARM9 does to the table that the ARM7 may be reading.
LEMMA Steps9 ==
    ASSUME IInv, Arm9 \/ Application
    PROVE  /\ calls'.tables = calls.tables \/ calls'.tables = calls.tables + 1
           /\ \/ UNCHANGED <<size, count, generation>> /\ arm9.pc # "generation"
              \/ UNCHANGED generation /\ arm9'.pc = "generation" /\ ~At9({"idle", "publish"})
              \/ generation' = generation + 1 /\ ~At9({"idle", "publish"})
              \/ UNCHANGED <<count, generation>> /\ arm9.pc = "size"
           /\ At9({"idle", "publish"}) =>
                 At9({"idle", "publish"})' \/ calls'.tables = calls.tables + 1
  <1>0. TypeOK /\ TableInv  BY DEF IInv
  <1>1. calls \in Calls /\ arm9 \in State9  BY <1>0 DEF TypeOK
  <1>2. CASE \E v \in BOOLEAN : Wifi_BeaconStartEx(v)
    BY <1>1, <1>2 DEF Wifi_BeaconStartEx, shared, At9, Calls
  <1>3. CASE \E s \in Sizes, c \in Counts : Wifi_BeaconSetExtraDataFragments(s, c)
    BY <1>1, <1>3 DEF Wifi_BeaconSetExtraDataFragments, shared, At9, Calls
  <1>4. CASE \E o \in Patchable : Wifi_BeaconPatchVendorByte(o)
    <2>1. arm9' = [Idle9 EXCEPT !.pc = "publish"] /\ calls' = [calls EXCEPT !.patches = @ + 1]
          /\ UNCHANGED <<size, count, generation>> /\ arm9.pc = "idle"
      BY <1>4 DEF Wifi_BeaconPatchVendorByte
    <2>2. arm9'.pc = "publish" /\ calls'.tables = calls.tables  BY <1>1, <2>1 DEF Calls, Idle9
    <2> QED BY <2>1, <2>2 DEF At9
  <1>5. CASE PublishPatch  BY <1>5 DEF PublishPatch, At9, Idle9
  <1>6. CASE CopyByte  BY <1>6 DEF CopyByte, At9
  <1>7. CASE StoreTable
    <2>1. calls' = calls /\ arm9.pc \in {"size", "count", "generation"}  BY <1>7 DEF StoreTable
    <2>2. CASE arm9.pc = "size"  BY <1>7, <2>1, <2>2 DEF StoreTable, At9
    <2>3. CASE arm9.pc = "count"
      <3>1. UNCHANGED generation /\ arm9' = [arm9 EXCEPT !.pc = "generation"]
        BY <1>7, <2>3 DEF StoreTable
      <3>2. arm9'.pc = "generation"  BY <1>1, <3>1 DEF State9
      <3> QED BY <2>1, <2>3, <3>1, <3>2 DEF At9
    <2>4. CASE arm9.pc = "generation"
      <3>1. generation' = (generation + 1) % 256  BY <1>7, <2>4 DEF StoreTable
      <3>2. generation = calls.tables - 1  BY <1>0, <2>4 DEF TableInv, At9
      <3>3. calls.tables \in 0 .. 255  BY <1>0, Fields, Constants
      <3>4. (calls.tables - 1) + 1 = calls.tables /\ calls.tables % 256 = calls.tables  BY <3>3
      <3>5. generation' = generation + 1  BY <3>1, <3>2, <3>4
      <3> QED BY <2>1, <2>4, <3>5 DEF At9
    <2> QED BY <2>1, <2>2, <2>3, <2>4
  <1> QED BY <1>2, <1>3, <1>4, <1>5, <1>6, <1>7 DEF Arm9, Application

LEMMA IndexStep ==
    ASSUME IInv, Next
    PROVE  IndexInv'
  <1>0. TypeOK /\ IndexInv /\ RotateInv  BY DEF IInv
  <1>1. /\ arm7 \in State7 /\ generation \in Nat /\ seen \in Nat /\ index \in Nat /\ count \in Nat
        /\ arm7.count \in Nat
    <2>1. TableType /\ BeaconType /\ Type7State /\ arm7.count \in 0 .. MaxFragments
      BY <1>0, TypeParts, Fields
    <2> QED BY <2>1, Constants DEF TableType, BeaconType, Type7State, Index
  <1>2. CASE Arm9 \/ Application
    <2>1. UNCHANGED <<index, seen, arm7>>  BY <1>2, Unchanged9
    <2>2. CASE UNCHANGED <<count, generation>> /\ arm9.pc # "generation"
      BY <1>0, <2>1, <2>2 DEF IndexInv, UpToDate, At9
    <2>3. CASE UNCHANGED generation /\ arm9'.pc = "generation"
      BY <1>0, <2>1, <2>3 DEF IndexInv, UpToDate, At9
    <2>4. CASE generation' = generation + 1
      <3>1. seen' <= generation' /\ seen' # generation'  BY <1>0, <1>1, <2>1, <2>4 DEF IndexInv
      <3> QED BY <3>1 DEF IndexInv, UpToDate
    <2> QED BY <1>2, <2>2, <2>3, <2>4, Steps9
  <1>3. CASE TakePatch \/ ApplyPatches \/ UpdateEnds \/ Transmit
    <2>1. UNCHANGED <<index, seen, count, generation, arm9>>
      BY <1>3 DEF TakePatch, ApplyPatches, UpdateEnds, Transmit, shared, beacon
    <2>2. arm7'.pc \in {"apply", "flush", "idle"}
      BY <1>1, <1>3 DEF TakePatch, ApplyPatches, UpdateEnds, Transmit, State7, Idle7
    <2> QED BY <1>0, <2>1, <2>2 DEF IndexInv, UpToDate, At9
  <1>4. CASE Wifi_BeaconSetup
    <2>1. index' = 0 /\ seen' = generation /\ generation' = generation /\ arm7'.pc = "idle"
      BY <1>4 DEF Wifi_BeaconSetup, shared, Idle7
    <2> QED BY <1>1, <2>1 DEF IndexInv
  <1>5. CASE Wifi_BeaconRotateFragment
    <2>1. UNCHANGED <<index, seen, count, generation, arm9>>
      BY <1>5 DEF Wifi_BeaconRotateFragment, shared, beacon
    <2>2. (arm7'.pc = "size" /\ arm7'.count = count) \/ arm7'.pc = "send"
      BY <1>5 DEF Wifi_BeaconRotateFragment, Idle7
    <2> QED BY <1>0, <2>1, <2>2 DEF IndexInv, UpToDate, At9
  <1>6. CASE ReadSize
    <2>1. UNCHANGED <<index, seen, count, generation, arm9>> /\ arm7.pc = "size"
      BY <1>6 DEF ReadSize, shared, beacon
    <2>2. (arm7'.pc = "rotate" /\ arm7'.count = arm7.count) \/ arm7'.pc = "send"
      BY <1>1, <1>6 DEF ReadSize, Idle7, State7
    <2> QED BY <1>0, <2>1, <2>2 DEF IndexInv, UpToDate, At9
  <1>7. CASE ReadGeneration
    <2>1. /\ UNCHANGED <<count, generation, arm9>> /\ seen' = generation /\ arm7.pc = "rotate"
          /\ index' = IF generation # seen THEN 0 ELSE index
      BY <1>7 DEF ReadGeneration, shared
    <2>2. arm7'.pc = "copy" /\ arm7'.count = arm7.count  BY <1>1, <1>7 DEF ReadGeneration, State7
    <2> QED BY <1>0, <1>1, <2>1, <2>2 DEF IndexInv, UpToDate, At9
  <1>8. CASE WriteByte
    <2>1. UNCHANGED <<count, generation, arm9, seen>> /\ arm7.pc = "copy"  BY <1>8 DEF WriteByte, shared
    <2>2. CASE arm7.k < arm7.size
      <3>1. index' = index /\ arm7' = [arm7 EXCEPT !.k = @ + 1]  BY <1>8, <2>2 DEF WriteByte
      <3>2. arm7'.pc = "copy" /\ arm7'.count = arm7.count  BY <1>1, <2>1, <3>1 DEF State7
      <3> QED BY <1>0, <2>1, <3>1, <3>2 DEF IndexInv, UpToDate, At9
    <2>3. CASE ~(arm7.k < arm7.size)
      <3>1. index' = (IF index + 1 >= arm7.count THEN 0 ELSE index + 1)
            /\ arm7' = [arm7 EXCEPT !.pc = "send"]
        BY <1>8, <2>3 DEF WriteByte, NextIndex
      <3>2. arm7'.pc = "send"  BY <1>1, <3>1 DEF State7
      <3>3. UpToDate' => UpToDate  BY <2>1 DEF UpToDate, At9
      <3>4. UpToDate => index' < count \/ index' <= 1
        BY <1>0, <1>1, <2>1, <3>1 DEF IndexInv
      <3> QED BY <1>0, <2>1, <3>2, <3>3, <3>4 DEF IndexInv
    <2> QED BY <2>2, <2>3
  <1> QED BY <1>2, <1>3, <1>4, <1>5, <1>6, <1>7, <1>8 DEF Next, Arm7

LEMMA RotateStep ==
    ASSUME IInv, Next
    PROVE  RotateInv'
  <1>0. TypeOK /\ TableInv /\ IndexInv /\ RotateInv  BY DEF IInv
  <1>1. /\ arm7 \in State7 /\ mac \in [Offset -> Byte] /\ index \in Index /\ count \in Nat
        /\ fresh \in Nat /\ calls.tables \in Nat /\ arm7.k \in Nat
    BY <1>0, Fields, Constants DEF TypeOK
  <1>2. CASE Arm9 \/ Application
    <2>1. UNCHANGED <<mac, index, seen, sticky, arm7, fresh>>  BY <1>2, Unchanged9
    <2>2. fresh' <= calls'.tables  BY <1>0, <1>1, <1>2, <2>1, Steps9 DEF RotateInv
    <2>3. Steady' => Steady /\ calls'.tables = calls.tables
      BY <1>0, <1>1, <1>2, <2>1, Steps9 DEF RotateInv, Steady
    <2>4. Steady' => At9({"idle", "publish"}) /\ At9({"idle", "publish"})'
      BY <1>0, <1>1, <1>2, <2>3, Steps9 DEF RotateInv
    <2>5. Steady' => UNCHANGED <<size, count, generation>>
      BY <1>2, <2>4, Steps9 DEF At9
    <2>6. \A i : Sends(i)' <=> Sends(i)  BY <2>1 DEF Sends, StickyAt
    <2> QED BY <1>0, <2>1, <2>2, <2>3, <2>4, <2>5, <2>6 DEF RotateInv
  <1>3. CASE Arm7
    <2>1. UNCHANGED <<fragments, size, count, generation, arm9, calls>>  BY <1>3, Unchanged7
    <2>2. CASE TakePatch \/ ApplyPatches \/ Wifi_BeaconSetup \/ UpdateEnds
      <3>1. fresh' = fresh  BY <2>2 DEF TakePatch, ApplyPatches, Wifi_BeaconSetup, UpdateEnds
      <3>2. arm7'.pc \in {"apply", "flush", "idle"}
        BY <1>1, <2>2 DEF TakePatch, ApplyPatches, Wifi_BeaconSetup, UpdateEnds, State7, Idle7
      <3> QED BY <1>0, <2>1, <3>1, <3>2 DEF RotateInv, Steady, At9
    <2>3. CASE Transmit
      <3>1. fresh' = 0 /\ arm7'.pc = "idle"  BY <2>3 DEF Transmit, Idle7
      <3> QED BY <1>1, <2>1, <3>1 DEF RotateInv, Steady
    <2>4. CASE Wifi_BeaconRotateFragment
      <3>1. fresh' \in {0, Settled}  BY <2>4 DEF Wifi_BeaconRotateFragment
      <3>2. fresh' <= calls.tables /\ (fresh' > 0 => At9({"idle", "publish"}))
        BY <1>1, <3>1 DEF Settled, At9
      <3>3. \/ arm7'.pc = "size" /\ arm7'.count = count
            \/ arm7'.pc = "send" /\ fresh' = 0
        BY <2>4 DEF Wifi_BeaconRotateFragment, Idle7
      <3> QED BY <1>1, <2>1, <3>2, <3>3 DEF RotateInv, Steady, At9
    <2>5. CASE ReadSize
      <3>1. CASE arm7.count < 2 \/ size # Extra
        <4>1. fresh' = 0 /\ arm7'.pc = "send"  BY <2>5, <3>1 DEF ReadSize, Idle7
        <4> QED BY <1>1, <2>1, <4>1 DEF RotateInv, Steady
      <3>2. CASE ~(arm7.count < 2 \/ size # Extra)
        <4>1. fresh' = fresh /\ arm7' = [arm7 EXCEPT !.pc = "rotate", !.size = size, !.k = 1]
              /\ arm7.pc = "size"
          BY <2>5, <3>2 DEF ReadSize
        <4>2. arm7'.pc = "rotate" /\ arm7'.size = Extra /\ arm7'.k = 1 /\ arm7'.count = arm7.count
          BY <1>1, <3>2, <4>1 DEF State7
        <4>3. 1 \in 1 .. Extra /\ arm7.count >= 2  BY <1>0, <3>2, Fields, Constants
        <4> QED BY <1>0, <2>1, <3>2, <4>1, <4>2, <4>3 DEF RotateInv, Steady, At9
      <3> QED BY <3>1, <3>2
    <2>6. CASE ReadGeneration
      <3>1. /\ fresh' = fresh /\ seen' = generation /\ arm7.pc = "rotate"
            /\ index' = IF generation # seen THEN 0 ELSE index
        BY <2>6 DEF ReadGeneration
      <3>2. arm7'.pc = "copy" /\ arm7'.count = arm7.count /\ arm7'.size = arm7.size /\ arm7'.k = arm7.k
        BY <1>1, <2>6 DEF ReadGeneration, State7
      <3>3. Steady => index' < count
        <4> SUFFICES ASSUME Steady  PROVE  index' < count
          OBVIOUS
        <4>1. count >= 2 /\ At9({"idle", "publish"})  BY <1>0, <3>1 DEF RotateInv
        <4>2. generation = seen => index < count \/ index <= 1  BY <1>0, <4>1 DEF IndexInv, UpToDate, At9
        <4>3. index \in Nat  BY <1>1, Constants DEF Index
        <4> QED BY <1>1, <3>1, <4>1, <4>2, <4>3
      <3>4. arm7.k = 1  BY <1>0, <3>1 DEF RotateInv
      <3> QED BY <1>0, <2>1, <3>1, <3>2, <3>3, <3>4 DEF RotateInv, Steady, At9
    <2>7. CASE WriteByte
      <3> DEFINE tag == [mac EXCEPT ![Header + arm7.k - 1] = fragments[index][arm7.k]]
      <3>1. UNCHANGED <<seen, sticky, fresh>> /\ arm7.pc = "copy"  BY <2>7 DEF WriteByte
      <3>2. arm7.size = Extra /\ arm7.k \in 1 .. Extra  BY <1>0, <3>1 DEF RotateInv
      <3>3. Steady => \A k \in 1 .. arm7.k : tag[Header + k - 1] = OfTable(fresh, index)
        <4> SUFFICES ASSUME Steady, NEW k \in 1 .. arm7.k
                     PROVE  tag[Header + k - 1] = OfTable(fresh, index)
          OBVIOUS
        <4>1. /\ count >= 2 /\ size = Extra /\ index < count /\ At9({"idle", "publish"})
              /\ \A j \in 1 .. arm7.k - 1 : mac[Header + j - 1] = OfTable(fresh, index)
          BY <1>0, <3>1 DEF RotateInv
        <4>2. Written(count, size) /\ fresh = calls.tables  BY <1>0, <1>1, <4>1 DEF TableInv, Steady
        <4>3. index \in 0 .. count - 1 /\ arm7.k \in 1 .. size
          BY <1>1, <3>2, <4>1, Constants DEF Index
        <4>4. fragments[index][arm7.k] = OfTable(fresh, index)  BY <4>2, <4>3 DEF Written
        <4>5. Header + arm7.k - 1 \in Offset /\ Header + k - 1 \in Offset
          BY <3>2, Constants DEF Offset
        <4>6. CASE k = arm7.k  BY <1>1, <4>4, <4>5, <4>6
        <4>7. CASE k # arm7.k
          <5>1. Header + k - 1 # Header + arm7.k - 1 /\ k \in 1 .. arm7.k - 1
            BY <1>1, <4>7, Constants
          <5> QED BY <1>1, <4>1, <4>5, <5>1
        <4> QED BY <4>6, <4>7
      <3>4. CASE arm7.k < arm7.size
        <4>1. mac' = tag /\ arm7' = [arm7 EXCEPT !.k = @ + 1] /\ index' = index
          BY <2>7, <3>4 DEF WriteByte
        <4>2. arm7'.pc = "copy" /\ arm7'.size = arm7.size /\ arm7'.count = arm7.count /\ arm7'.k = arm7.k + 1
          BY <1>1, <3>1, <4>1 DEF State7
        <4>3. arm7'.k \in 1 .. Extra /\ arm7'.k - 1 = arm7.k  BY <3>2, <3>4, <4>2, Constants
        <4> HIDE DEF tag
        <4> QED BY <1>0, <2>1, <3>1, <3>2, <3>3, <4>1, <4>2, <4>3 DEF RotateInv, Steady, At9
      <3>5. CASE ~(arm7.k < arm7.size)
        <4>1. mac' = Patched(tag) /\ arm7' = [arm7 EXCEPT !.pc = "send"]
          BY <2>7, <3>5 DEF WriteByte, Repatched
        <4>2. arm7'.pc = "send"  BY <1>1, <4>1 DEF State7
        <4>3. arm7.k = Extra  BY <3>2, <3>5, Constants
        <4>4. \A o : StickyAt(o)' = StickyAt(o)  BY <3>1 DEF StickyAt
        <4>5. \A k \in 1 .. Extra : Header + k - 1 \in Offset  BY Constants DEF Offset
        <4> HIDE DEF tag
        <4>6. Steady => \A k \in 1 .. Extra :
                 StickyAt(Header + k - 1) = {} => mac'[Header + k - 1] = OfTable(fresh, index)
          BY <3>3, <4>1, <4>3, <4>5, PatchedIs
        <4>7. Steady' => \E i \in Index : i < count /\ Sends(i)'
          <5> SUFFICES ASSUME Steady'  PROVE  \E i \in Index : i < count /\ Sends(i)'
            OBVIOUS
          <5>1. Steady  BY <2>1, <3>1 DEF Steady
          <5>2. index < count  BY <1>0, <3>1, <5>1 DEF RotateInv
          <5>3. fresh' > 0  BY DEF Steady
          <5>4. PICK i \in Index : i = index  BY <1>1
          <5>5. Sends(i)'  BY <3>1, <4>2, <4>4, <4>6, <5>1, <5>3, <5>4 DEF Sends
          <5> QED BY <5>2, <5>4, <5>5
        <4> QED BY <1>0, <2>1, <3>1, <4>2, <4>7 DEF RotateInv, Steady, At9
      <3> QED BY <3>4, <3>5
    <2> QED BY <1>3, <2>2, <2>3, <2>4, <2>5, <2>6, <2>7 DEF Arm7
  <1> QED BY <1>2, <1>3 DEF Next

-----------------------------------------------------------------------------
(* Theorems *)

LEMMA Invariance == Spec => []IInv
  <1>1. Init => IInv
    <2> SUFFICES ASSUME Init  PROVE  IInv
      OBVIOUS
    <2>1. TypeOK
      <3>1. fragments \in [Index -> [1 .. Extra -> Byte]]  BY BytesAre DEF Init
      <3>2. patch \in [0 .. PatchSlots - 1 -> Patch]
        <4>1. [offset |-> 0, value |-> OfPatch(0)] \in Patch  BY Constants DEF Patch, Offset
        <4> QED BY <4>1 DEF Init
      <3>3. arm9 \in State9 /\ arm7 \in State7 /\ calls \in Calls
        BY Constants DEF Init, Idle9, Idle7, State9, State7, Calls
      <3>4. mac \in [Offset -> Byte]  BY BytesAre DEF Init
      <3>5. latest \in [Offset -> 0 .. MaxPatches] /\ forgot \in [Offset -> 0 .. MaxPatches]  BY Constants DEF Init
      <3>6. /\ size \in 0 .. Extra /\ count \in 0 .. MaxFragments /\ generation \in 0 .. 255
            /\ {write, read} \subseteq 0 .. PatchSlots - 1 /\ index \in Index /\ seen \in 0 .. 255
            /\ fresh \in 0 .. MaxTables
        BY Constants DEF Init, Index
      <3>7. sticky \in Seq(Patch) /\ Len(sticky) <= MaxSticky /\ frames \in Seq(BeaconFrame)
        BY Constants DEF Init
      <3>8. on \in BOOLEAN /\ vendor \in BOOLEAN  BY DEF Init
      <3> QED BY <3>1, <3>2, <3>3, <3>4, <3>5, <3>6, <3>7, <3>8 DEF TypeOK
    <2>2. Unread = {}  BY DEF Init, Unread
    <2>3. RingInv  BY <2>2 DEF Init, RingInv, Idle9
    <2>4. PatchInv  BY DEF Init, PatchInv
    <2>5. MacInv /\ StickyInv  BY DEF Init, MacInv, StickyInv
    <2>6. TableInv  BY DEF Init, TableInv, At9, Idle9
    <2>7. IndexInv  BY DEF Init, IndexInv, Idle7
    <2>8. RotateInv  BY DEF Init, RotateInv, Steady, Idle7
    <2> QED BY <2>1, <2>3, <2>4, <2>5, <2>6, <2>7, <2>8 DEF IInv
  <1>2. IInv /\ [Next]_vars => IInv'
    <2> SUFFICES ASSUME IInv, [Next]_vars  PROVE  IInv'
      OBVIOUS
    <2>1. CASE Next
      BY <2>1, TypeStep, RingStep, PatchStep, MacStep, TableStep, IndexStep, RotateStep DEF IInv
    <2>2. CASE UNCHANGED vars
      <3> USE <2>2 DEF IInv, vars, shared, beacon
      <3>1. TypeOK'  BY DEF TypeOK
      <3>2. RingInv'  BY RingKept
      <3>3. PatchInv'  BY HeldKept
      <3>4. MacInv' /\ StickyInv'  BY DEF MacInv, StickyInv, StickyAt
      <3>5. TableInv'  BY DEF TableInv, At9, Written
      <3>6. IndexInv'  BY DEF IndexInv, UpToDate, At9
      <3>7. RotateInv'  BY DEF RotateInv, Steady, At9, Sends, StickyAt
      <3> QED BY <3>1, <3>2, <3>3, <3>4, <3>5, <3>6, <3>7
    <2> QED BY <2>1, <2>2
  <1> QED BY <1>1, <1>2, PTL DEF Spec

(***************************************************************************)
(* Every variable keeps its type: no index of a table, of the ring or of   *)
(* the list of patches leaves its range.                                   *)
(***************************************************************************)
THEOREM TypeCorrect == Spec => []TypeOK
  <1>1. IInv => TypeOK  BY DEF IInv
  <1> QED BY <1>1, Invariance, PTL

(***************************************************************************)
(* The beacon that goes out after a rotation has one whole fragment of the *)
(* current table, if the table has been left alone since the rotation      *)
(* began, whatever was being done to it before.                            *)
(***************************************************************************)
THEOREM FragmentIsCurrent == Spec => []CurrentFragment
  <1>1. IInv => CurrentFragment
    <2> SUFFICES ASSUME IInv, arm7.pc = "send", fresh > 0, Settled = fresh
                 PROVE  \E i \in Index : i < count /\ Sends(i)
      BY DEF CurrentFragment
    <2>1. fresh = calls.tables  BY DEF Settled, IInv, TypeOK
    <2> QED BY <2>1 DEF IInv, RotateInv, Steady
  <1> QED BY <1>1, Invariance, PTL

(***************************************************************************)
(* When the ring is empty the beacon that goes out has the last patch of   *)
(* every byte, of those taken since it was set up and for which there was  *)
(* room in the list.                                                       *)
(***************************************************************************)
THEOREM PatchIsLatest == Spec => []LatestPatchSent
  <1>1. IInv => LatestPatchSent
    <2> SUFFICES ASSUME IInv, arm7.pc = "send", vendor, read = write, NEW o \in Offset, latest[o] > forgot[o]
                 PROVE  mac[o] = OfPatch(latest[o]) \/ Dropped(o)
      BY DEF LatestPatchSent
    <2>1. Unread = {}  BY DEF Unread, IInv, TypeOK
    <2>2. Held(o)  BY DEF IInv, PatchInv
    <2>3. \/ StickyAt(o) # {} /\ \A i \in StickyAt(o) : sticky[i].value = OfPatch(latest[o])
          \/ Dropped(o)
      BY <2>1, <2>2 DEF Held
    <2>4. StickyAt(o) # {} => \E i \in StickyAt(o) : mac[o] = sticky[i].value  BY DEF IInv, MacInv
    <2> QED BY <2>3, <2>4
  <1> QED BY <1>1, Invariance, PTL

(***************************************************************************)
(* A patch is never lost in the ring: the ARM7 takes the patches in the    *)
(* order of the calls, and the last one of every byte is in the ring, in   *)
(* the list, was refused because the list is full, or went with the beacon *)
(* that was replaced after it was taken.                                   *)
(***************************************************************************)
THEOREM PatchesInOrder == Spec => [](RingInv /\ PatchInv)
  <1>1. IInv => RingInv /\ PatchInv  BY DEF IInv
  <1> QED BY <1>1, Invariance, PTL

=============================================================================
