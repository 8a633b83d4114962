---------------------------- MODULE MPHostProofs ----------------------------
(* Proofs about the table of clients of MPHost, for any number of clients. *)
EXTENDS MPHost, FiniteSetTheorems, WellFoundedInduction, TLAPS

(***************************************************************************)
(* What makes the table of clients sound.  Apart from the four properties  *)
(* of the table (count, mask, AIDs and MACs), which every function needs   *)
(* of the others, an entry that isn't in use keeps an AID that clears the  *)
(* right bit, or bit 0, when its next user leaves.                         *)
(***************************************************************************)
AidsFit(l)  == \A i \in Slot : l[i].aid \in IF l[i].state = "ASSOCIATED" THEN {i + 1} ELSE {0, i + 1}
MaskOf(l, m) == \A i \in Slot : i + 1 \in m <=> l[i].state = "ASSOCIATED"
MacsFit(l, c) ==
    /\ \A i \in Connected(l) : l[i].mac \in Mac /\ i < c
    /\ \A i, j \in Connected(l) : l[i].mac = l[j].mac => i = j

Sound(l, n, m, c) ==
    /\ l \in [Slot -> Entry] /\ m \subseteq 0 .. MaxClients
    /\ n = Cardinality(Connected(l))
    /\ AidsFit(l) /\ MaskOf(l, m) /\ MacsFit(l, c)

IInv == TypeOK /\ Sound(list, num, aidMask, curMax)

-----------------------------------------------------------------------------
(* Counting the clients *)

LEMMA SlotFinite == IsFiniteSet(Slot) /\ Cardinality(Slot) = MaxClients
  BY MPHostAssumption, FS_Interval DEF Slot

LEMMA ConnectedCount ==
    ASSUME NEW l
    PROVE  /\ IsFiniteSet(Connected(l))
           /\ Cardinality(Connected(l)) \in 0 .. MaxClients
  <1>1. Connected(l) \in SUBSET Slot  BY DEF Connected
  <1>2. IsFiniteSet(Connected(l)) /\ Cardinality(Connected(l)) <= MaxClients
    BY <1>1, SlotFinite, FS_Subset
  <1>3. Cardinality(Connected(l)) \in Nat  BY <1>2, FS_CardinalityType
  <1> QED BY <1>2, <1>3, MPHostAssumption

LEMMA LowestIn ==
    ASSUME NEW S \in SUBSET Nat, S # {}
    PROVE  Lowest(S) \in S
  <1>1. PICK x \in S : \A y \in S : ~ (<<y, x>> \in OpToRel(<, Nat))
    <2>1. IsWellFoundedOn(OpToRel(<, Nat), Nat)  BY NatLessThanWellFounded
    <2> DEFINE R == OpToRel(<, Nat)
    <2> HIDE DEF R
    <2>2. IsWellFoundedOn(R, Nat) /\ S \subseteq Nat /\ S # {}  BY <2>1 DEF R
    <2>3. \E x \in S : \A y \in S : ~ (<<y, x>> \in R)  BY <2>2, WFMin
    <2> QED BY <2>3 DEF R
  <1>2. ASSUME NEW y \in S  PROVE  x <= y
    <2>1. x \in Nat /\ y \in Nat  OBVIOUS
    <2>2. ~ (y < x)  BY <1>1, <2>1 DEF OpToRel
    <2> QED BY <2>1, <2>2
  <1> QED BY <1>2 DEF Lowest

LEMMA CountAdded ==
    ASSUME NEW l, NEW k, NEW i \in Slot,
           Connected(k) = Connected(l) \cup {i}, i \notin Connected(l)
    PROVE  /\ Cardinality(Connected(k)) = Cardinality(Connected(l)) + 1
           /\ Cardinality(Connected(l)) < MaxClients
  <1>1. /\ IsFiniteSet(Connected(l)) /\ Cardinality(Connected(l)) \in 0 .. MaxClients
        /\ Cardinality(Connected(k)) \in 0 .. MaxClients
    BY ConnectedCount
  <1>2. Cardinality(Connected(l) \cup {i}) = Cardinality(Connected(l)) + 1
    BY <1>1, FS_AddElement
  <1> QED BY <1>1, <1>2, MPHostAssumption

LEMMA CountRemoved ==
    ASSUME NEW l, NEW k, NEW out \in SUBSET Connected(l),
           Connected(k) = Connected(l) \ out
    PROVE  Cardinality(Connected(k)) = Cardinality(Connected(l)) - Cardinality(out)
  <1>1. IsFiniteSet(Connected(l))  BY ConnectedCount
  <1>2. Cardinality(Connected(l) \ out)
          = Cardinality(Connected(l)) - Cardinality(Connected(l) \cap out)
    BY <1>1, FS_Difference
  <1>3. Connected(l) \cap out = out  OBVIOUS
  <1> QED BY <1>2, <1>3

LEMMA CountOne ==
    ASSUME NEW l, NEW k, NEW i \in Connected(l), Connected(k) = Connected(l) \ {i}
    PROVE  /\ Cardinality(Connected(k)) = Cardinality(Connected(l)) - 1
           /\ Cardinality(Connected(l)) >= 1
  <1>1. /\ IsFiniteSet(Connected(l)) /\ Cardinality(Connected(l)) \in 0 .. MaxClients
        /\ Cardinality(Connected(k)) \in 0 .. MaxClients
    BY ConnectedCount
  <1>2. Cardinality(Connected(l) \ {i}) = Cardinality(Connected(l)) - 1
    BY <1>1, FS_RemoveElement
  <1> QED BY <1>1, <1>2, MPHostAssumption

-----------------------------------------------------------------------------
(* The functions that change the table keep it sound *)

LEMMA EmptyTable ==
    ASSUME NEW c \in 0 .. MaxClients
    PROVE  Sound([i \in Slot |-> Cleared], 0, {0}, c)
  <1> DEFINE l == [i \in Slot |-> Cleared]
  <1>1. Connected(l) = {}  BY DEF Connected, Cleared
  <1>2. l \in [Slot -> Entry] /\ {0} \subseteq 0 .. MaxClients
    BY MPHostAssumption DEF Cleared, Entry
  <1>3. AidsFit(l) /\ MaskOf(l, {0})
    BY MPHostAssumption DEF AidsFit, MaskOf, Cleared, Slot
  <1> HIDE DEF l
  <1> QED BY <1>1, <1>2, <1>3, FS_EmptySet DEF Sound, MacsFit, l

LEMMA AddClient ==
    ASSUME NEW l, NEW n, NEW m, NEW c \in 0 .. MaxClients, Sound(l, n, m, c),
           NEW i \in Slot, i < c, l[i].state = "DISCONNECTED",
           NEW x \in Mac, \A j \in Connected(l) : l[j].mac # x
    PROVE  /\ Sound([l EXCEPT ![i].state = "AUTHENTICATED", ![i].mac = x], n + 1, m, c)
           /\ n + 1 \in 1 .. MaxClients
  <1> DEFINE k == [l EXCEPT ![i].state = "AUTHENTICATED", ![i].mac = x]
  <1>1. l \in [Slot -> Entry]  BY DEF Sound
  <1>2. k \in [Slot -> Entry]  BY <1>1 DEF Entry
  <1>3. /\ \A j \in Slot \ {i} : k[j] = l[j]
        /\ k[i].state = "AUTHENTICATED" /\ k[i].mac = x /\ k[i].aid = l[i].aid
    BY <1>1 DEF Entry
  <1> HIDE DEF k
  <1>4. Connected(k) = Connected(l) \cup {i} /\ i \notin Connected(l)
    BY <1>3 DEF Connected
  <1>5. Cardinality(Connected(k)) = n + 1 /\ n + 1 \in 1 .. MaxClients
    <2>1. /\ Cardinality(Connected(k)) = Cardinality(Connected(l)) + 1
          /\ Cardinality(Connected(l)) < MaxClients
      BY <1>4, CountAdded
    <2>2. n = Cardinality(Connected(l)) /\ n \in 0 .. MaxClients  BY ConnectedCount DEF Sound
    <2> QED BY <2>1, <2>2, MPHostAssumption
  <1>6. AidsFit(k)  BY <1>3 DEF Sound, AidsFit
  <1>7. MaskOf(k, m)  BY <1>3 DEF Sound, MaskOf
  <1>8. MacsFit(k, c)
    <2>1. \A j \in Connected(k) \ {i} : j \in Connected(l) /\ k[j].mac = l[j].mac
      BY <1>3, <1>4 DEF Connected
    <2>2. MacsFit(l, c)  BY DEF Sound
    <2>3. \A j \in Connected(k) : k[j].mac \in Mac /\ j < c
      BY <2>1, <2>2, <1>3 DEF MacsFit
    <2>4. ASSUME NEW j \in Connected(k), NEW h \in Connected(k), k[j].mac = k[h].mac
          PROVE  j = h
      <3>1. CASE j = i /\ h # i  BY <3>1, <2>1, <2>4, <1>3
      <3>2. CASE h = i /\ j # i  BY <3>2, <2>1, <2>4, <1>3
      <3>3. CASE j # i /\ h # i  BY <3>3, <2>1, <2>2, <2>4 DEF MacsFit
      <3> QED BY <3>1, <3>2, <3>3
    <2> QED BY <2>3, <2>4 DEF MacsFit
  <1> QED BY <1>2, <1>5, <1>6, <1>7, <1>8 DEF Sound, k

LEMMA BackToAuthenticated ==
    ASSUME NEW l, NEW n, NEW m, NEW c \in 0 .. MaxClients, Sound(l, n, m, c),
           NEW i \in Connected(l)
    PROVE  Sound([l EXCEPT ![i].state = "AUTHENTICATED"], n, m \ {l[i].aid}, c)
  <1> DEFINE k == [l EXCEPT ![i].state = "AUTHENTICATED"]
  <1>0. i \in Slot  BY DEF Connected
  <1>1. l \in [Slot -> Entry]  BY DEF Sound
  <1>2. k \in [Slot -> Entry]  BY <1>1 DEF Entry
  <1>3. /\ \A j \in Slot \ {i} : k[j] = l[j]
        /\ k[i].state = "AUTHENTICATED" /\ k[i].mac = l[i].mac /\ k[i].aid = l[i].aid
    BY <1>0, <1>1 DEF Entry
  <1> HIDE DEF k
  <1>4. Connected(k) = Connected(l)  BY <1>3 DEF Connected
  <1>6. AidsFit(k)  BY <1>3, <1>0 DEF Sound, AidsFit
  <1>7. MaskOf(k, m \ {l[i].aid})
    <2>1. l[i].aid \in {0, i + 1}  BY <1>0 DEF Sound, AidsFit
    <2>2. l[i].aid = 0 => i + 1 \notin m
      <3>1. l[i].state = "ASSOCIATED" => l[i].aid = i + 1  BY <1>0 DEF Sound, AidsFit
      <3>2. i + 1 \in m <=> l[i].state = "ASSOCIATED"  BY <1>0 DEF Sound, MaskOf
      <3>3. i + 1 # 0  BY <1>0, MPHostAssumption DEF Slot
      <3> QED BY <3>1, <3>2, <3>3
    <2>3. MaskOf(l, m)  BY DEF Sound
    <2> SUFFICES ASSUME NEW j \in Slot
                 PROVE  j + 1 \in m \ {l[i].aid} <=> k[j].state = "ASSOCIATED"
      BY DEF MaskOf
    <2>4. CASE j = i  BY <2>4, <1>3, <2>1, <2>2
    <2>5. CASE j # i
      <3>1. j + 1 # l[i].aid  BY <2>1, <2>5, <1>0, MPHostAssumption DEF Slot
      <3> QED BY <3>1, <2>5, <1>3, <2>3 DEF MaskOf
    <2> QED BY <2>4, <2>5
  <1>8. MacsFit(k, c)
    <2>1. \A j \in Connected(k) : j \in Connected(l) /\ k[j].mac = l[j].mac
      BY <1>3, <1>4 DEF Connected
    <2>2. MacsFit(l, c)  BY DEF Sound
    <2> QED BY <2>1, <2>2 DEF MacsFit
  <1> QED BY <1>2, <1>4, <1>6, <1>7, <1>8 DEF Sound, k

LEMMA AssociateClient ==
    ASSUME NEW l, NEW n, NEW m, NEW c \in 0 .. MaxClients, Sound(l, n, m, c),
           NEW i \in Connected(l)
    PROVE  Sound([l EXCEPT ![i].state = "ASSOCIATED", ![i].aid = i + 1],
                 n, m \cup {i + 1}, c)
  <1> DEFINE k == [l EXCEPT ![i].state = "ASSOCIATED", ![i].aid = i + 1]
  <1>0. i \in Slot /\ i + 1 \in 0 .. MaxClients
    BY MPHostAssumption DEF Connected, Slot
  <1>1. l \in [Slot -> Entry]  BY DEF Sound
  <1>2. k \in [Slot -> Entry]  BY <1>0, <1>1 DEF Entry
  <1>3. /\ \A j \in Slot \ {i} : k[j] = l[j]
        /\ k[i].state = "ASSOCIATED" /\ k[i].mac = l[i].mac /\ k[i].aid = i + 1
    BY <1>0, <1>1 DEF Entry
  <1> HIDE DEF k
  <1>4. Connected(k) = Connected(l)  BY <1>3 DEF Connected
  <1>6. AidsFit(k)  BY <1>3, <1>0 DEF Sound, AidsFit
  <1>7. MaskOf(k, m \cup {i + 1})
    <2> SUFFICES ASSUME NEW j \in Slot
                 PROVE  j + 1 \in m \cup {i + 1} <=> k[j].state = "ASSOCIATED"
      BY DEF MaskOf
    <2>1. CASE j = i  BY <2>1, <1>3
    <2>2. CASE j # i
      <3>1. j + 1 # i + 1  BY <2>2, <1>0, MPHostAssumption DEF Slot
      <3> QED BY <3>1, <2>2, <1>3 DEF Sound, MaskOf
    <2> QED BY <2>1, <2>2
  <1>8. MacsFit(k, c)
    <2>1. \A j \in Connected(k) : j \in Connected(l) /\ k[j].mac = l[j].mac
      BY <1>3, <1>4 DEF Connected
    <2>2. MacsFit(l, c)  BY DEF Sound
    <2> QED BY <2>1, <2>2 DEF MacsFit
  <1> QED BY <1>0, <1>2, <1>4, <1>6, <1>7, <1>8 DEF Sound, k

LEMMA RemoveClient ==
    ASSUME NEW l, NEW n, NEW m, NEW c \in 0 .. MaxClients, Sound(l, n, m, c),
           NEW i \in Connected(l), NEW a \in {l[i].aid, i + 1}
    PROVE  /\ Sound([l EXCEPT ![i].state = "DISCONNECTED"], n - 1, m \ {a}, c)
           /\ n - 1 \in 0 .. MaxClients /\ n \in 1 .. MaxClients
  <1> DEFINE k == [l EXCEPT ![i].state = "DISCONNECTED"]
  <1>0. i \in Slot  BY DEF Connected
  <1>1. l \in [Slot -> Entry]  BY DEF Sound
  <1>2. k \in [Slot -> Entry]  BY <1>1 DEF Entry
  <1>3. /\ \A j \in Slot \ {i} : k[j] = l[j]
        /\ k[i].state = "DISCONNECTED" /\ k[i].mac = l[i].mac /\ k[i].aid = l[i].aid
    BY <1>0, <1>1 DEF Entry
  <1> HIDE DEF k
  <1>4. Connected(k) = Connected(l) \ {i}  BY <1>3 DEF Connected
  <1>5. Cardinality(Connected(k)) = n - 1 /\ n - 1 \in 0 .. MaxClients /\ n \in 1 .. MaxClients
    <2>1. /\ Cardinality(Connected(k)) = Cardinality(Connected(l)) - 1
          /\ Cardinality(Connected(l)) >= 1
      BY <1>4, CountOne
    <2>2. n = Cardinality(Connected(l)) /\ n \in 0 .. MaxClients  BY ConnectedCount DEF Sound
    <2> QED BY <2>1, <2>2, MPHostAssumption
  <1>6. AidsFit(k)  BY <1>3, <1>0 DEF Sound, AidsFit
  <1>7. MaskOf(k, m \ {a})
    <2>1. a \in {0, i + 1}  BY <1>0 DEF Sound, AidsFit
    <2>2. a = 0 => i + 1 \notin m
      <3>1. l[i].state = "ASSOCIATED" => l[i].aid = i + 1  BY <1>0 DEF Sound, AidsFit
      <3>2. i + 1 \in m <=> l[i].state = "ASSOCIATED"  BY <1>0 DEF Sound, MaskOf
      <3>3. i + 1 # 0  BY <1>0, MPHostAssumption DEF Slot
      <3> QED BY <3>1, <3>2, <3>3
    <2>3. MaskOf(l, m)  BY DEF Sound
    <2> SUFFICES ASSUME NEW j \in Slot
                 PROVE  j + 1 \in m \ {a} <=> k[j].state = "ASSOCIATED"
      BY DEF MaskOf
    <2>4. CASE j = i  BY <2>4, <1>3, <2>1, <2>2
    <2>5. CASE j # i
      <3>1. j + 1 # a  BY <2>1, <2>5, <1>0, MPHostAssumption DEF Slot
      <3> QED BY <3>1, <2>5, <1>3, <2>3 DEF MaskOf
    <2> QED BY <2>4, <2>5
  <1>8. MacsFit(k, c)
    <2>1. \A j \in Connected(k) : j \in Connected(l) /\ k[j].mac = l[j].mac
      BY <1>3, <1>4 DEF Connected
    <2>2. MacsFit(l, c)  BY DEF Sound
    <2> QED BY <2>1, <2>2 DEF MacsFit
  <1> QED BY <1>2, <1>5, <1>6, <1>7, <1>8 DEF Sound, k

LEMMA RemoveNotAssociated ==
    ASSUME NEW l, NEW n, NEW m, NEW c \in 0 .. MaxClients, Sound(l, n, m, c),
           NEW out, out = {i \in InState(l, "AUTHENTICATED") : i < c}
    PROVE  /\ Sound([i \in Slot |-> IF i \in out THEN [l[i] EXCEPT !.state = "DISCONNECTED"]
                                                 ELSE l[i]],
                    n - Cardinality(out), m \ {i + 1 : i \in out}, c)
           /\ n - Cardinality(out) \in 0 .. MaxClients
  <1> DEFINE k == [i \in Slot |-> IF i \in out THEN [l[i] EXCEPT !.state = "DISCONNECTED"]
                                               ELSE l[i]]
  <1>0. out \in SUBSET Connected(l) /\ out \in SUBSET Slot
    BY DEF InState, Connected
  <1>1. l \in [Slot -> Entry]  BY DEF Sound
  <1>2. k \in [Slot -> Entry]  BY <1>1 DEF Entry
  <1>3. /\ \A j \in Slot \ out : k[j] = l[j]
        /\ \A j \in out : /\ k[j].state = "DISCONNECTED"
                          /\ k[j].mac = l[j].mac /\ k[j].aid = l[j].aid
    BY <1>0, <1>1 DEF Entry
  <1>a. \A j \in out : l[j].state = "AUTHENTICATED"  BY DEF InState
  <1> HIDE DEF k
  <1>4. Connected(k) = Connected(l) \ out  BY <1>0, <1>3 DEF Connected
  <1>5. Cardinality(Connected(k)) = n - Cardinality(out)
    BY <1>0, <1>4, CountRemoved DEF Sound
  <1>6. AidsFit(k)
    <2> SUFFICES ASSUME NEW j \in Slot
                 PROVE  k[j].aid \in IF k[j].state = "ASSOCIATED" THEN {j + 1} ELSE {0, j + 1}
      BY DEF AidsFit
    <2>1. CASE j \in out  BY <2>1, <1>3, <1>a DEF Sound, AidsFit
    <2>2. CASE j \notin out  BY <2>2, <1>3 DEF Sound, AidsFit
    <2> QED BY <2>1, <2>2
  <1>7. MaskOf(k, m \ {i + 1 : i \in out})
    <2> SUFFICES ASSUME NEW j \in Slot
                 PROVE  j + 1 \in m \ {i + 1 : i \in out} <=> k[j].state = "ASSOCIATED"
      BY DEF MaskOf
    <2>1. j + 1 \in {i + 1 : i \in out} <=> j \in out  BY <1>0 DEF Slot
    <2>2. j + 1 \in m <=> l[j].state = "ASSOCIATED"  BY DEF Sound, MaskOf
    <2> QED BY <2>1, <2>2, <1>3, <1>a
  <1>8. MacsFit(k, c)
    <2>1. \A j \in Connected(k) : j \in Connected(l) /\ k[j] = l[j]
      BY <1>3, <1>4 DEF Connected
    <2> QED BY <2>1 DEF Sound, MacsFit
  <1>9. n - Cardinality(out) \in 0 .. MaxClients
    BY <1>5, ConnectedCount
  <1> QED BY <1>2, <1>5, <1>6, <1>7, <1>8, <1>9 DEF Sound, k

-----------------------------------------------------------------------------
(* The steps of the specification *)

TableType == /\ list \in [Slot -> Entry] /\ num \in 0 .. MaxClients
             /\ aidMask \subseteq 0 .. MaxClients
             /\ beacon \in Frame

RestType == /\ reqMode \in Modes /\ curMode \in Modes
            /\ reqLib \in Libs /\ curLib \in Libs
            /\ reqMax \in 0 .. MaxClients /\ curMax \in 0 .. MaxClients
            /\ allow \in BOOLEAN /\ curAllow \in BOOLEAN
            /\ layout \in Layouts
            /\ queue \in Seq(Frame)
            /\ load \in [aid : 0 .. MaxClients, old : SUBSET Bits]
            /\ kickReq \subseteq Bits /\ mask \subseteq Bits
            /\ pc \in {"idle", "clear", "kick", "allow", "shut", "stop"}
            /\ closing \in {"none", "written", "running", "done"}

CallsType == calls \in 0 .. MaxCalls

LEMMA Types == TypeOK <=> TableType /\ RestType /\ CallsType
  BY DEF TypeOK, TableType, RestType, CallsType

LEMMA PlayersTyped ==
    ASSUME TableType, NEW n \in 1 .. MaxClients + 1, Wifi_SetBeaconCurrentPlayers(n)
    PROVE  beacon' \in Frame
  BY DEF TableType, Wifi_SetBeaconCurrentPlayers, Frame

LEMMA TableTyped ==
    ASSUME TableType, NEW l, NEW n, NEW m, NEW c, Table(l, n, m), Sound(l, n, m, c),
           beacon' \in Frame
    PROVE  TableType' /\ Sound(list', num', aidMask', c)
  <1>1. l \in [Slot -> Entry] /\ m \subseteq 0 .. MaxClients  BY DEF Sound
  <1>2. n \in 0 .. MaxClients  BY ConnectedCount DEF Sound
  <1>3. list' = l /\ num' = n /\ aidMask' = m  BY DEF Table
  <1>4. TableType'  BY <1>1, <1>2, <1>3 DEF TableType
  <1> QED BY <1>3, <1>4

LEMMA KnownClient ==
    ASSUME IInv, NEW m \in Mac, Wifi_MPHost_ClientGetByMacAddr(m) # {}
    PROVE  Lowest(Wifi_MPHost_ClientGetByMacAddr(m)) \in Connected(list)
  <1> DEFINE known == Wifi_MPHost_ClientGetByMacAddr(m)
  <1>1. known \in SUBSET Nat /\ known \subseteq Connected(list)
    BY MPHostAssumption DEF Wifi_MPHost_ClientGetByMacAddr, Slot, Connected
  <1> HIDE DEF known
  <1>2. known # {}  BY DEF known
  <1>3. Lowest(known) \in known  BY <1>1, <1>2, LowestIn
  <1> QED BY <1>1, <1>3 DEF known

LEMMA ResetSound ==
    ASSUME TableType, Wifi_MPHost_ResetClients, NEW c \in 0 .. MaxClients
    PROVE  TableType' /\ Sound(list', num', aidMask', c)
  <1>1. 1 \in 1 .. MaxClients + 1  BY MPHostAssumption
  <1>2. beacon' \in Frame  BY <1>1, PlayersTyped DEF Wifi_MPHost_ResetClients
  <1>3. Sound([i \in Slot |-> Cleared], 0, {0}, c)  BY EmptyTable
  <1> QED BY <1>2, <1>3, TableTyped DEF Wifi_MPHost_ResetClients

LEMMA AuthenticateSound ==
    ASSUME IInv, NEW m \in Mac, Wifi_MPHost_ClientAuthenticate(m)
    PROVE  TableType' /\ Sound(list', num', aidMask', curMax)
  <1> DEFINE known == Wifi_MPHost_ClientGetByMacAddr(m)
  <1>0. TableType /\ Sound(list, num, aidMask, curMax) /\ curMax \in 0 .. MaxClients
    BY Types DEF IInv, RestType
  <1>1. CASE known # {} /\ AuthenticateKnown(Lowest(known))
    <2> DEFINE i == Lowest(known)
    <2>1. i \in Connected(list)  BY <1>1, KnownClient
    <2> HIDE DEF i
    <2>2. Sound([list EXCEPT ![i].state = "AUTHENTICATED"], num, aidMask \ {list[i].aid}, curMax)
      BY <1>0, <2>1, BackToAuthenticated
    <2>3. AuthenticateKnown(i)  BY <1>1 DEF i
    <2>4. beacon' \in Frame  BY <2>3, <1>0 DEF AuthenticateKnown, TableType
    <2> QED BY <1>0, <2>2, <2>3, <2>4, TableTyped DEF AuthenticateKnown
  <1>2. CASE known = {} /\ FreeSlots # {} /\ AuthenticateNew(Lowest(FreeSlots), m)
    <2> DEFINE i == Lowest(FreeSlots)
    <2>1. i \in FreeSlots
      <3>1. FreeSlots \in SUBSET Nat  BY MPHostAssumption DEF FreeSlots, Slot
      <3> QED BY <1>2, <3>1, LowestIn
    <2> HIDE DEF i
    <2>2. i \in Slot /\ i < curMax /\ list[i].state = "DISCONNECTED"
      BY <2>1 DEF FreeSlots
    <2>3. \A j \in Connected(list) : list[j].mac # m
      BY <1>0, <1>2 DEF Wifi_MPHost_ClientGetByMacAddr, Connected, Sound, MacsFit
    <2>4. /\ Sound([list EXCEPT ![i].state = "AUTHENTICATED", ![i].mac = m], num + 1,
                   aidMask, curMax)
          /\ num + 1 \in 1 .. MaxClients
      BY <1>0, <2>2, <2>3, AddClient
    <2>5. AuthenticateNew(i, m)  BY <1>2 DEF i
    <2>6. num + 2 \in 1 .. MaxClients + 1
      BY <2>4, <1>0, MPHostAssumption DEF TableType
    <2>7. beacon' \in Frame  BY <1>0, <2>5, <2>6, PlayersTyped DEF AuthenticateNew
    <2> QED BY <1>0, <2>4, <2>5, <2>7, TableTyped DEF AuthenticateNew
  <1> QED BY <1>1, <1>2 DEF Wifi_MPHost_ClientAuthenticate

LEMMA AssociateSound ==
    ASSUME IInv, NEW m \in Mac, Wifi_MPHost_ClientAssociate(m)
    PROVE  TableType' /\ Sound(list', num', aidMask', curMax)
  <1> DEFINE i == Lowest(Wifi_MPHost_ClientGetByMacAddr(m))
  <1>0. TableType /\ Sound(list, num, aidMask, curMax) /\ curMax \in 0 .. MaxClients
    BY Types DEF IInv, RestType
  <1>1. i \in Connected(list)  BY KnownClient DEF Wifi_MPHost_ClientAssociate
  <1>2. /\ Table([list EXCEPT ![i].state = "ASSOCIATED", ![i].aid = i + 1],
                 num, aidMask \cup {i + 1})
        /\ UNCHANGED beacon
    BY DEF Wifi_MPHost_ClientAssociate
  <1> HIDE DEF i
  <1>3. Sound([list EXCEPT ![i].state = "ASSOCIATED", ![i].aid = i + 1],
              num, aidMask \cup {i + 1}, curMax)
    BY <1>0, <1>1, AssociateClient
  <1>4. beacon' \in Frame  BY <1>0, <1>2 DEF TableType
  <1> QED BY <1>0, <1>2, <1>3, <1>4, TableTyped

LEMMA DisconnectSound ==
    ASSUME IInv, NEW m \in Mac, Wifi_MPHost_ClientDisconnect(m)
    PROVE  TableType' /\ Sound(list', num', aidMask', curMax)
  <1> DEFINE i == Lowest(Wifi_MPHost_ClientGetByMacAddr(m))
  <1>0. TableType /\ Sound(list, num, aidMask, curMax) /\ curMax \in 0 .. MaxClients
    BY Types DEF IInv, RestType
  <1>1. i \in Connected(list)  BY KnownClient DEF Wifi_MPHost_ClientDisconnect
  <1>2. /\ Table([list EXCEPT ![i].state = "DISCONNECTED"], num - 1, aidMask \ {list[i].aid})
        /\ Wifi_SetBeaconCurrentPlayers(num)
    BY DEF Wifi_MPHost_ClientDisconnect
  <1> HIDE DEF i
  <1>3. /\ Sound([list EXCEPT ![i].state = "DISCONNECTED"], num - 1,
                 aidMask \ {list[i].aid}, curMax)
        /\ num \in 1 .. MaxClients
    BY <1>0, <1>1, RemoveClient
  <1>4. num \in 1 .. MaxClients + 1  BY <1>3, MPHostAssumption
  <1>5. beacon' \in Frame  BY <1>0, <1>2, <1>4, PlayersTyped
  <1> QED BY <1>0, <1>2, <1>3, <1>5, TableTyped

LEMMA KickSound ==
    ASSUME IInv, NEW a \in Nat, Wifi_MPHost_KickByAID(a)
    PROVE  TableType' /\ Sound(list', num', aidMask', curMax)
  <1> DEFINE i == a - 1
  <1>0. TableType /\ Sound(list, num, aidMask, curMax) /\ curMax \in 0 .. MaxClients
    BY Types DEF IInv, RestType
  <1>1. CASE a # 0 /\ i < curMax /\ i \in Connected(list)
    <2>1. /\ Table([list EXCEPT ![i].state = "DISCONNECTED"], num - 1, aidMask \ {a})
          /\ Wifi_SetBeaconCurrentPlayers(num)
      BY <1>1 DEF Wifi_MPHost_KickByAID
    <2>2. a = i + 1 /\ i \in Connected(list)  BY <1>1
    <2> HIDE DEF i
    <2>3. /\ Sound([list EXCEPT ![i].state = "DISCONNECTED"], num - 1, aidMask \ {a}, curMax)
          /\ num \in 1 .. MaxClients
      BY <1>0, <2>2, RemoveClient
    <2>4. num \in 1 .. MaxClients + 1  BY <2>3, MPHostAssumption
    <2>5. beacon' \in Frame  BY <1>0, <2>1, <2>4, PlayersTyped
    <2> QED BY <1>0, <2>1, <2>3, <2>5, TableTyped
  <1>2. CASE ~(a # 0 /\ i < curMax /\ i \in Connected(list))
    <2>1. UNCHANGED <<table, beacon>>  BY <1>2 DEF Wifi_MPHost_KickByAID
    <2> QED BY <1>0, <2>1 DEF table, TableType
  <1> QED BY <1>1, <1>2

LEMMA KickNotAssociatedSound ==
    ASSUME IInv, Wifi_MPHost_KickNotAssociatedClients
    PROVE  TableType' /\ Sound(list', num', aidMask', curMax)
  <1> DEFINE out == {i \in InState(list, "AUTHENTICATED") : i < curMax}
             l == [i \in Slot |-> IF i \in out THEN [list[i] EXCEPT !.state = "DISCONNECTED"]
                                               ELSE list[i]]
             n == num - Cardinality(out)
             m == aidMask \ {i + 1 : i \in out}
  <1>0. TableType /\ Sound(list, num, aidMask, curMax) /\ curMax \in 0 .. MaxClients
    BY Types DEF IInv, RestType
  <1>1. Table(l, n, m) /\ Wifi_SetBeaconCurrentPlayers(n + 1)
    BY DEF Wifi_MPHost_KickNotAssociatedClients
  <1>2. Sound(l, n, m, curMax) /\ n \in 0 .. MaxClients
    BY <1>0, RemoveNotAssociated
  <1> HIDE DEF out, l, n, m
  <1>3. n + 1 \in 1 .. MaxClients + 1  BY <1>2, MPHostAssumption
  <1>4. beacon' \in Frame  BY <1>0, <1>1, <1>3, PlayersTyped
  <1> QED BY <1>0, <1>1, <1>2, <1>4, TableTyped

LEMMA InitIInv == Init => IInv
  <1> SUFFICES ASSUME Init PROVE IInv  OBVIOUS
  <1> USE MPHostAssumption
  <1>1. list = [i \in Slot |-> Cleared] /\ num = 0 /\ aidMask = {} /\ curMax = 0  BY DEF Init
  <1>2. Sound([i \in Slot |-> Cleared], 0, {0}, 0)  BY EmptyTable
  <1>3. Sound(list, num, aidMask, curMax)
    <2>1. MaskOf(list, aidMask)  BY <1>1 DEF MaskOf, Cleared
    <2> QED BY <1>1, <1>2, <2>1 DEF Sound
  <1>4. TableType
    <2>1. list \in [Slot -> Entry]  BY <1>3 DEF Sound
    <2>2. beacon \in Frame  BY DEF Init, Frame
    <2> QED BY <2>1, <2>2, <1>1 DEF Init, TableType
  <1>5. RestType
    <2>1. load \in [aid : 0 .. MaxClients, old : SUBSET Bits]  BY DEF Init, NotLoading
    <2>2. queue \in Seq(Frame)  BY DEF Init
    <2>3. allow \in BOOLEAN /\ curAllow \in BOOLEAN  BY DEF Init
    <2>4. 0 \in 0 .. MaxClients  OBVIOUS
    <2>5. reqMax \in 0 .. MaxClients /\ curMax \in 0 .. MaxClients  BY <2>4 DEF Init
    <2>6. kickReq \subseteq Bits /\ mask \subseteq Bits  BY DEF Init
    <2>7. /\ reqMode \in Modes /\ curMode \in Modes /\ layout \in Layouts
          /\ reqLib \in Libs /\ curLib \in Libs
          /\ pc \in {"idle", "clear", "kick", "allow", "shut", "stop"}
          /\ closing \in {"none", "written", "running", "done"}
      BY DEF Init, Modes, Libs, Layouts
    <2> QED BY <2>1, <2>2, <2>3, <2>5, <2>6, <2>7 DEF RestType
  <1>6. CallsType  BY DEF Init, CallsType
  <1> QED BY <1>3, <1>4, <1>5, <1>6, Types DEF IInv

LEMMA IInvAfter ==
    ASSUME TableType', RestType', CallsType', Sound(list', num', aidMask', curMax')
    PROVE  IInv'
  BY DEF IInv, TypeOK, TableType, RestType, CallsType

LEMMA InterruptIInv ==
    ASSUME IInv, Interrupt, UNCHANGED calls
    PROVE  IInv'
  <1>0. TableType /\ RestType /\ Sound(list, num, aidMask, curMax)  BY Types DEF IInv
  <1>20. CallsType'  BY Types DEF IInv, CallsType
  <1>1. CASE \E m \in Mac : \/ Wifi_MPHost_ProcessAuthentication(m)
                            \/ Wifi_MPHost_ProcessAssocRequest(m)
                            \/ Wifi_MPHost_ProcessDeauthentication(m)
    <2>1. PICK m \in Mac : \/ Wifi_MPHost_ProcessAuthentication(m)
                           \/ Wifi_MPHost_ProcessAssocRequest(m)
                           \/ Wifi_MPHost_ProcessDeauthentication(m)
      BY <1>1
    <2>2. TableType' /\ Sound(list', num', aidMask', curMax)
      BY <2>1, AuthenticateSound, AssociateSound, DisconnectSound
      DEF Wifi_MPHost_ProcessAuthentication, Wifi_MPHost_ProcessAssocRequest,
          Wifi_MPHost_ProcessDeauthentication
    <2>3. UNCHANGED NotTable
      BY <2>1 DEF Wifi_MPHost_ProcessAuthentication, Wifi_MPHost_ProcessAssocRequest,
                  Wifi_MPHost_ProcessDeauthentication
    <2>4. RestType' /\ curMax' = curMax
      BY <1>0, <2>3 DEF RestType, NotTable, requests, mode, update
    <2> QED BY <2>2, <2>4, <1>20, IInvAfter
  <1>2. CASE Wifi_BeaconSetup
    <2> USE <1>2 DEF Wifi_BeaconSetup
    <2>1. Head(queue) \in Frame /\ Tail(queue) \in Seq(Frame)
      BY <1>0, MPHostAssumption DEF RestType
    <2>2. beacon' \in Frame  BY <2>1 DEF Frame
    <2>3. TableType'  BY <1>0, <2>2 DEF TableType, mode, table
    <2>4. RestType'  BY <1>0, <2>1 DEF RestType, mode, requests, update
    <2>5. Sound(list', num', aidMask', curMax')  BY <1>0 DEF mode, table
    <2> QED BY <2>3, <2>4, <2>5, <1>20, IInvAfter
  <1> QED BY <1>1, <1>2 DEF Interrupt

LEMMA UpdateIInv ==
    ASSUME IInv, Wifi_NTR_Update, UNCHANGED calls
    PROVE  IInv'
  <1>0. TableType /\ RestType /\ Sound(list, num, aidMask, curMax)  BY Types DEF IInv
  <1>20. CallsType'  BY Types DEF IInv, CallsType
  <1>1. CASE UpdateStartHost
    <2>0. reqMax \in 0 .. MaxClients /\ curMax' = reqMax  BY <1>0, <1>1 DEF RestType, UpdateStartHost
    <2>1. TableType' /\ Sound(list', num', aidMask', curMax')
      BY <1>0, <1>1, <2>0, ResetSound DEF UpdateStartHost
    <2>2. RestType'  BY <1>0, <1>1 DEF RestType, mode, UpdateStartHost, requests, update, Modes
    <2> QED BY <2>1, <2>2, <1>20, IInvAfter
  <1>2. CASE UpdateKickAll
    <2>0. curMax \in 0 .. MaxClients /\ curMax' = curMax  BY <1>0, <1>2 DEF RestType, UpdateKickAll, mode
    <2>1. TableType' /\ Sound(list', num', aidMask', curMax')
      BY <1>0, <1>2, <2>0, ResetSound DEF UpdateKickAll
    <2>2. RestType'  BY <1>0, <1>2 DEF RestType, mode, UpdateKickAll, Goto, requests
    <2> QED BY <2>1, <2>2, <1>20, IInvAfter
  <1>3. CASE UpdateStopHost
    <2> USE <1>3 DEF UpdateStopHost
    <2>1. beacon' \in Frame  BY <1>0 DEF TableType, Frame
    <2>2. TableType' /\ Sound(list', num', aidMask', curMax')
      BY <1>0, <2>1 DEF TableType, mode, table
    <2>3. RestType'  BY <1>0 DEF RestType, mode, Goto, requests, Modes
    <2> QED BY <2>2, <2>3, <1>20, IInvAfter
  <1>4. CASE UpdateNormal \/ UpdateReadKicks \/ UpdateClearKicks \/ UpdateKicksDone
    <2> USE <1>4 DEF UpdateNormal, UpdateReadKicks, UpdateClearKicks, UpdateKicksDone
    <2>1. TableType' /\ Sound(list', num', aidMask', curMax')
      BY <1>0 DEF TableType, mode, table, air
    <2>2. RestType'  BY <1>0 DEF RestType, mode, Goto, requests, update, air
    <2> QED BY <2>1, <2>2, <1>20, IInvAfter
  <1>5. CASE UpdateKick
    <2> USE <1>5 DEF UpdateKick
    <2>1. mask \in SUBSET Nat  BY <1>0, MPHostAssumption DEF RestType, Bits
    <2>2. Lowest(mask) \in Nat  BY <2>1, LowestIn
    <2>3. TableType' /\ Sound(list', num', aidMask', curMax)  BY <2>2, KickSound
    <2>4. RestType' /\ curMax' = curMax  BY <1>0 DEF RestType, mode, requests
    <2> QED BY <2>3, <2>4, <1>20, IInvAfter
  <1>6. CASE UpdateAllow
    <2> USE <1>6 DEF UpdateAllow
    <2>1. beacon' \in Frame /\ curAllow' \in BOOLEAN
      BY <1>0 DEF TableType, RestType, Frame, air, Wifi_SetBeaconAllowsConnections
    <2>2. TableType' /\ Sound(list', num', aidMask', curMax')
      BY <1>0, <2>1 DEF TableType, mode, table
    <2>3. RestType'  BY <1>0, <2>1 DEF RestType, mode, Goto, requests, Finished
    <2> QED BY <2>2, <2>3, <1>20, IInvAfter
  <1>7. CASE UpdateShut
    <2> USE <1>7 DEF UpdateShut
    <2>1. TableType' /\ Sound(list', num', aidMask', curMax)  BY KickNotAssociatedSound
    <2>2. RestType' /\ curMax' = curMax  BY <1>0 DEF RestType, mode, Goto, requests, Finished
    <2> QED BY <2>1, <2>2, <1>20, IInvAfter
  <1> QED BY <1>1, <1>2, <1>3, <1>4, <1>5, <1>6, <1>7 DEF Wifi_NTR_Update

LEMMA Arm9IInv ==
    ASSUME IInv, Arm9
    PROVE  IInv'
  <1>0. TableType /\ RestType /\ Sound(list, num, aidMask, curMax)  BY Types DEF IInv
  <1>20. CallsType'
    BY Types, MPHostAssumption DEF IInv, CallsType, Arm9
  <1>1. ASSUME NEW n \in AID, Wifi_MultiplayerHostMode(n)
        PROVE  IInv'
    <2> USE <1>1 DEF Wifi_MultiplayerHostMode
    <2>1. TableType' /\ Sound(list', num', aidMask', curMax')
      BY <1>0 DEF TableType, mode, table, air
    <2>2. RestType'  BY <1>0, MPHostAssumption DEF RestType, mode, AID, Modes, Libs, update, air
    <2> QED BY <2>1, <2>2, <1>20, IInvAfter
  <1>2. ASSUME NEW a \in AID, KickClientLoad(a)
        PROVE  IInv'
    <2> USE <1>2 DEF KickClientLoad
    <2>1. TableType' /\ Sound(list', num', aidMask', curMax')
      BY <1>0 DEF TableType, mode, table, air
    <2>2. load' \in [aid : 0 .. MaxClients, old : SUBSET Bits]
      BY <1>0, MPHostAssumption DEF RestType, AID
    <2>3. RestType'  BY <1>0, <2>2 DEF RestType, mode, requests, update, air
    <2> QED BY <2>1, <2>3, <1>20, IInvAfter
  <1>3. CASE KickClientStore
    <2> USE <1>3 DEF KickClientStore
    <2>2. TableType' /\ Sound(list', num', aidMask', curMax')
      BY <1>0 DEF TableType, mode, table, air
    <2>3. load' \in [aid : 0 .. MaxClients, old : SUBSET Bits]
      BY MPHostAssumption DEF NotLoading
    <2>4. RestType'  BY <1>0, <2>3 DEF RestType, mode, requests, update, air
    <2> QED BY <2>2, <2>4, <1>20, IInvAfter
  <1>4. CASE Wifi_IdleMode
    <2> USE <1>4 DEF Wifi_IdleMode
    <2>1. TableType' /\ Sound(list', num', aidMask', curMax')
      BY <1>0 DEF TableType, mode, table, air
    <2>2. RestType'  BY <1>0 DEF RestType, mode, Modes, update, air
    <2> QED BY <2>1, <2>2, <1>20, IInvAfter
  <1>7. CASE LeaveLibrary
    <2> USE <1>7 DEF LeaveLibrary
    <2>1. TableType' /\ Sound(list', num', aidMask', curMax')
      BY <1>0 DEF TableType, mode, table, air
    <2>2. RestType'  BY <1>0 DEF RestType, mode, Libs, update, air
    <2> QED BY <2>1, <2>2, <1>20, IInvAfter
  <1>5. ASSUME NEW b \in BOOLEAN, Wifi_MultiplayerAllowNewClients(b)
        PROVE  IInv'
    <2> USE <1>5 DEF Wifi_MultiplayerAllowNewClients
    <2>1. TableType' /\ Sound(list', num', aidMask', curMax')
      BY <1>0 DEF TableType, mode, table, air
    <2>2. RestType'  BY <1>0 DEF RestType, mode, update, air
    <2> QED BY <2>1, <2>2, <1>20, IInvAfter
  <1>6. ASSUME NEW lay \in Layouts, Wifi_BeaconStart(lay)
        PROVE  IInv'
    <2> USE <1>6 DEF Wifi_BeaconStart
    <2>1. TableType' /\ Sound(list', num', aidMask', curMax')
      BY <1>0 DEF TableType, mode, table, air
    <2>2. BeaconFrame(lay) \in Frame
      BY MPHostAssumption DEF BeaconFrame, Frame, Layouts
    <2>3. queue' \in Seq(Frame)
      BY <1>0, <2>2, MPHostAssumption DEF RestType
    <2>4. RestType'  BY <1>0, <2>3 DEF RestType, mode, requests, update, air
    <2> QED BY <2>1, <2>4, <1>20, IInvAfter
  <1> QED BY <1>1, <1>2, <1>3, <1>4, <1>5, <1>6, <1>7 DEF Arm9, Call

LEMMA StutterIInv == IInv /\ UNCHANGED vars => IInv'
  BY DEF IInv, TypeOK, vars, requests, mode, table, update, air

-----------------------------------------------------------------------------
(* The theorems *)

(***************************************************************************)
(* The table of clients stays sound in every reachable state, for any set  *)
(* of MAC addresses, size of the table and width of the kick mask.  All    *)
(* the functions of multiplayer.c (ARM7) rely on it.                       *)
(***************************************************************************)
THEOREM TableSound == Spec => []IInv
  <1>1. IInv /\ [Next]_vars => IInv'
    BY InterruptIInv, UpdateIInv, Arm9IInv, StutterIInv DEF Next, Arm7
  <1> QED BY InitIInv, <1>1, PTL DEF Spec

(***************************************************************************)
(* The variables keep their types.  In particular, num_connected never     *)
(* goes below 0 and the beacon never announces more players than there     *)
(* can be.                                                                 *)
(***************************************************************************)
THEOREM TypeCorrect == Spec => []TypeOK
  <1>1. IInv => TypeOK  BY DEF IInv
  <1> QED BY TableSound, <1>1, PTL

(***************************************************************************)
(* num_connected, the counter that every function of the table updates on  *)
(* its own, is always the number of entries in use.                        *)
(***************************************************************************)
THEOREM CountCorrect == Spec => []CountExact
  <1>1. IInv => CountExact  BY DEF IInv, Sound, CountExact
  <1> QED BY TableSound, <1>1, PTL

LEMMA MaskSound == IInv => AidIsIndex /\ AidMaskExact
  <1> SUFFICES ASSUME IInv PROVE AidIsIndex /\ AidMaskExact  OBVIOUS
  <1>0. AidsFit(list) /\ MaskOf(list, aidMask) /\ aidMask \subseteq 0 .. MaxClients
    BY DEF IInv, Sound
  <1>1. AidIsIndex  BY <1>0 DEF AidsFit, AidIsIndex, InState
  <1>2. ASSUME NEW a \in aidMask \ {0}
        PROVE  a \in {list[i].aid : i \in InState(list, "ASSOCIATED")}
    <2>1. a - 1 \in Slot /\ a = (a - 1) + 1  BY <1>0, MPHostAssumption DEF Slot
    <2>2. a - 1 \in InState(list, "ASSOCIATED")  BY <2>1, <1>0 DEF MaskOf, InState
    <2>3. list[a - 1].aid = a  BY <2>1, <2>2, <1>1 DEF AidIsIndex
    <2> QED BY <2>2, <2>3
  <1>3. ASSUME NEW i \in InState(list, "ASSOCIATED")
        PROVE  list[i].aid \in aidMask \ {0}
    <2>1. i \in Slot /\ list[i].aid = i + 1  BY <1>1 DEF AidIsIndex, InState
    <2>2. i + 1 \in aidMask  BY <2>1, <1>0 DEF MaskOf, InState
    <2>3. i + 1 # 0  BY <2>1, MPHostAssumption DEF Slot
    <2> QED BY <2>1, <2>2, <2>3
  <1>4. AidMaskExact  BY <1>2, <1>3 DEF AidMaskExact
  <1> QED BY <1>1, <1>4

(***************************************************************************)
(* aid_mask, which the ARM9 reports as the clients in the game and the     *)
(* CMD frames poll, is always the set of AIDs of the associated clients    *)
(* (not counting bit 0, which HostBitSet is about).                        *)
(***************************************************************************)
THEOREM MaskCorrect == Spec => []AidMaskExact
  BY TableSound, MaskSound, PTL

(***************************************************************************)
(* The AID given to a client is the index of its entry plus 1: kicking and *)
(* looking up a client by AID find the right entry.                        *)
(***************************************************************************)
THEOREM AidCorrect == Spec => []AidIsIndex
  BY TableSound, MaskSound, PTL

(***************************************************************************)
(* Retransmitted, duplicated and reordered authentication frames never     *)
(* give a console a second entry of the table.                             *)
(***************************************************************************)
THEOREM NoDuplicates == Spec => []OneSlotPerMac
  <1>1. IInv => OneSlotPerMac  BY DEF IInv, Sound, MacsFit, OneSlotPerMac
  <1> QED BY TableSound, <1>1, PTL

(***************************************************************************)
(* A CMD frame, whose duration is computed from num_connected and whose    *)
(* polled clients come from aid_mask, always has time for all the replies. *)
(***************************************************************************)
THEOREM EnoughTime == Spec => []TimeForReplies
  <1>1. ASSUME IInv PROVE TimeForReplies
    <2> DEFINE S == InState(list, "ASSOCIATED")
               T == aidMask \ {0}
               f == [i \in S |-> list[i].aid]
    <2>1. S \in SUBSET Connected(list)  BY DEF InState, Connected
    <2>2. IsFiniteSet(S) /\ Cardinality(S) <= Cardinality(Connected(list))
      BY <2>1, ConnectedCount, FS_Subset
    <2>3. T = {list[i].aid : i \in S}  BY <1>1, MaskSound DEF AidMaskExact
    <2>4. f \in Surjection(S, T)  BY <2>3 DEF Surjection
    <2> HIDE DEF S, T, f
    <2>5. IsFiniteSet(T) /\ Cardinality(T) <= Cardinality(S)  BY <2>2, <2>4, FS_Surjection
    <2>6. Cardinality(S) \in Nat /\ Cardinality(T) \in Nat /\ Cardinality(Connected(list)) \in Nat
      BY <2>2, <2>5, ConnectedCount, FS_CardinalityType
    <2>7. num = Cardinality(Connected(list))  BY <1>1 DEF IInv, Sound
    <2> QED BY <2>2, <2>5, <2>6, <2>7 DEF TimeForReplies, T
  <1> QED BY TableSound, <1>1, PTL

SlotKept == \A i \in Connected(list) \cap Connected(list') : list'[i].mac = list[i].mac

LEMMA KeptByFunctions ==
    ASSUME IInv,
           \/ Wifi_MPHost_ResetClients \/ Wifi_MPHost_KickNotAssociatedClients
           \/ \E a \in Nat : Wifi_MPHost_KickByAID(a)
           \/ \E m \in Mac : \/ Wifi_MPHost_ClientAuthenticate(m)
                             \/ Wifi_MPHost_ClientAssociate(m)
                             \/ Wifi_MPHost_ClientDisconnect(m)
    PROVE  SlotKept
  <1>0. list \in [Slot -> Entry]  BY DEF IInv, TypeOK
  <1> USE <1>0 DEF SlotKept, Connected, Table
  <1>1. CASE Wifi_MPHost_ResetClients  BY <1>1 DEF Wifi_MPHost_ResetClients, Cleared
  <1>2. CASE Wifi_MPHost_KickNotAssociatedClients
    BY <1>2 DEF Wifi_MPHost_KickNotAssociatedClients, Entry
  <1>3. ASSUME NEW a \in Nat, Wifi_MPHost_KickByAID(a)  PROVE SlotKept
    BY <1>3 DEF Wifi_MPHost_KickByAID, table, Entry
  <1>4. ASSUME NEW m \in Mac, Wifi_MPHost_ClientAssociate(m)  PROVE SlotKept
    BY <1>4 DEF Wifi_MPHost_ClientAssociate, Entry
  <1>5. ASSUME NEW m \in Mac, Wifi_MPHost_ClientDisconnect(m)  PROVE SlotKept
    BY <1>5 DEF Wifi_MPHost_ClientDisconnect, Entry
  <1>6. ASSUME NEW i, AuthenticateKnown(i)  PROVE SlotKept
    BY <1>6 DEF AuthenticateKnown, Entry
  <1>7. ASSUME NEW i \in FreeSlots, NEW m, AuthenticateNew(i, m)  PROVE SlotKept
    BY <1>7 DEF AuthenticateNew, FreeSlots, Entry
  <1>8. ASSUME NEW m \in Mac, Wifi_MPHost_ClientAuthenticate(m)  PROVE SlotKept
    <2>1. FreeSlots \in SUBSET Nat  BY MPHostAssumption DEF FreeSlots, Slot
    <2>2. FreeSlots # {} => Lowest(FreeSlots) \in FreeSlots  BY <2>1, LowestIn
    <2> HIDE DEF SlotKept
    <2> QED BY <1>6, <1>7, <1>8, <2>2 DEF Wifi_MPHost_ClientAuthenticate
  <1> HIDE DEF SlotKept
  <1> QED BY <1>1, <1>2, <1>3, <1>4, <1>5, <1>8

LEMMA KeptBySteps ==
    ASSUME IInv, [Next]_vars
    PROVE  SlotKept
  <1>1. list' = list => SlotKept  BY DEF SlotKept
  <1>2. CASE Interrupt
    BY <1>1, <1>2, KeptByFunctions
    DEF Interrupt, Wifi_MPHost_ProcessAuthentication, Wifi_MPHost_ProcessAssocRequest,
        Wifi_MPHost_ProcessDeauthentication, Wifi_BeaconSetup, table
  <1>3. CASE Wifi_NTR_Update
    <2>1. pc = "kick" /\ mask # {} => Lowest(mask) \in Nat
      <3>1. mask \in SUBSET Nat  BY MPHostAssumption DEF IInv, TypeOK, Bits
      <3> QED BY <3>1, LowestIn
    <2>2. CASE UpdateKick  BY <2>1, <2>2, KeptByFunctions DEF UpdateKick
    <2>3. CASE UpdateStartHost \/ UpdateKickAll \/ UpdateShut
      BY <2>3, KeptByFunctions DEF UpdateStartHost, UpdateKickAll, UpdateShut
    <2>4. CASE UpdateNormal \/ UpdateStopHost \/ UpdateReadKicks \/ UpdateClearKicks \/ UpdateKicksDone \/ UpdateAllow
      BY <2>4, <1>1 DEF UpdateNormal, UpdateStopHost, UpdateReadKicks, UpdateClearKicks, UpdateKicksDone,
                        UpdateAllow, table
    <2> QED BY <1>3, <2>2, <2>3, <2>4 DEF Wifi_NTR_Update
  <1>4. CASE Arm9
    BY <1>1, <1>4 DEF Arm9, Call, Wifi_MultiplayerHostMode, KickClientLoad, KickClientStore,
                      LeaveLibrary, Wifi_IdleMode, Wifi_MultiplayerAllowNewClients, Wifi_BeaconStart, table
  <1>5. CASE UNCHANGED vars  BY <1>1, <1>5 DEF vars, table
  <1> QED BY <1>2, <1>3, <1>4, <1>5 DEF Next, Arm7

(***************************************************************************)
(* No step gives the entry (and the AID) of a connected client to another  *)
(* one: the client has to be disconnected first.                           *)
(***************************************************************************)
THEOREM ClientKeepsSlot == Spec => KeepsSlot
  <1>1. IInv /\ [Next]_vars
          => [\A i \in Connected(list) \cap Connected(list)' : list'[i].mac = list[i].mac]_vars
    BY KeptBySteps DEF SlotKept, Connected
  <1> QED BY TableSound, <1>1, PTL DEF Spec, KeepsSlot

-----------------------------------------------------------------------------
(* Opening and closing the room. *)

\* An Update that has run since the last request has compared with it, also if
\* it still has to kick clients.
AllowInv == /\ AllowApplied
            /\ closing = "running" /\ pc = "shut" => curAllow = allow

LEMMA AllowStep ==
    ASSUME IInv, AllowInv, [Next]_vars
    PROVE  AllowInv'
  <1> USE DEF AllowInv, AllowApplied
  <1>0. allow \in BOOLEAN /\ curAllow \in BOOLEAN  BY DEF IInv, TypeOK
  <1>1. CASE UNCHANGED <<allow, curAllow, closing, pc>>  BY <1>1
  <1>2. CASE Interrupt
    <2>1. CASE Wifi_BeaconSetup  BY <2>1 DEF Wifi_BeaconSetup, requests, update
    <2>2. CASE UNCHANGED NotTable  BY <2>2, <1>1 DEF NotTable, requests, update
    <2> QED BY <1>2, <2>1, <2>2
        DEF Interrupt, Wifi_MPHost_ProcessAuthentication, Wifi_MPHost_ProcessAssocRequest,
            Wifi_MPHost_ProcessDeauthentication
  <1>3. CASE UpdateAllow
    <2>1. curAllow' = allow /\ allow' = allow
      <3>1. CASE curAllow = allow  BY <1>3, <3>1 DEF UpdateAllow, air, requests
      <3>2. CASE curAllow # allow
        BY <1>3, <3>2 DEF UpdateAllow, Wifi_SetBeaconAllowsConnections, requests
      <3> QED BY <3>1, <3>2
    <2> QED BY <2>1
  <1>4. CASE UpdateShut
    <2>1. /\ pc = "shut" /\ pc' = "idle" /\ closing' = Finished
          /\ allow' = allow /\ curAllow' = curAllow
      BY <1>4 DEF UpdateShut, Goto, requests
    <2> QED BY <2>1 DEF Finished
  <1>5. CASE UpdateReadKicks
    <2>1. /\ closing' = (IF closing = "written" THEN "running" ELSE closing)
          /\ pc' # "shut" /\ allow' = allow /\ curAllow' = curAllow
      BY <1>5 DEF UpdateReadKicks, Goto, requests, air
    <2> QED BY <2>1
  <1>6. CASE \/ UpdateNormal \/ UpdateStartHost \/ UpdateKickAll \/ UpdateStopHost
             \/ UpdateClearKicks \/ UpdateKick \/ UpdateKicksDone
    <2>1. UNCHANGED <<allow, curAllow, closing>> /\ (pc' = pc \/ pc' # "shut")
      BY <1>6 DEF UpdateNormal, UpdateStartHost, UpdateKickAll, UpdateStopHost, UpdateClearKicks,
                  UpdateKick, UpdateKicksDone, Goto, requests, update, air
    <2> QED BY <2>1
  <1>7. CASE KickClientStore \/ Call
    <2>1. UNCHANGED <<allow, curAllow, closing, pc>> \/ closing' = "written"
      BY <1>7 DEF Call, Wifi_MultiplayerHostMode, KickClientLoad, KickClientStore, LeaveLibrary,
                  Wifi_IdleMode, Wifi_MultiplayerAllowNewClients, Wifi_BeaconStart, requests,
                  update, air
    <2> QED BY <2>1
  <1>8. CASE UNCHANGED vars  BY <1>1, <1>8 DEF vars, requests, update, air
  <1> QED BY <1>2, <1>3, <1>4, <1>5, <1>6, <1>7, <1>8 DEF Next, Arm7, Arm9, Wifi_NTR_Update

(***************************************************************************)
(* However the calls of the application, the beacons that replace each     *)
(* other and the steps of Wifi_NTR_Update() interleave, one complete       *)
(* Update after the last request the ARM7 has applied it.                  *)
(***************************************************************************)
THEOREM AllowIsApplied == Spec => []AllowApplied
  <1>1. Init => AllowInv  BY DEF Init, AllowInv, AllowApplied
  <1>2. IInv /\ AllowInv /\ [Next]_vars => AllowInv'  BY AllowStep
  <1>3. AllowInv => AllowApplied  BY DEF AllowInv
  <1> QED BY TableSound, <1>1, <1>2, <1>3, PTL DEF Spec

=============================================================================
