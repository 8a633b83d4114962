-------------------------- MODULE SharedRingProofs --------------------------
(* Proofs about SharedRing, for every size of the buffer, set of frame     *)
(* sizes, room of the consumer and number of frames.                       *)
EXTENDS SharedRing, SequenceTheorems, TLAPS

(* What holds as long as no frame has been dropped...                      *)
IntactWords ==
    \A n \in Len(out) + 1 .. Published :
        /\ buf[Start(n)] = SizeWord(hist[n].size)
        /\ \A k \in 1..Words(n) : buf[Start(n) + k] = Data(n, k)

IntactFrames ==
    /\ Len(out) <= Published
    /\ \A n \in 1..Len(out) : out[n] = FrameOf(n)

IInv == TypeOK /\ AnySizeIsTaken /\ IntactWords /\ IntactFrames /\ Layout

(* ...and the invariant of the specification: DropFrame ends it.           *)
Sound == dropped \in BOOLEAN /\ (~dropped => IInv)

USE SizeAssumption, FrameSizeAssumption, CopyLimitAssumption,
    EagerWrapAssumption, MaxFramesAssumption

-----------------------------------------------------------------------------
(* The words of the buffer can be told apart, which is what a status word  *)
(* of 0, WIFI_SIZE_WRAP or a size is for.                                  *)
LEMMA WordFacts ==
    /\ Stop \in Word /\ Wrap \in Word /\ Stop # Wrap
    /\ \A b \in FrameSizes : /\ SizeWord(b) \in Word
                             /\ SizeWord(b) \notin {Stop, Wrap}
                             /\ SizeWord(b).kind = "size" /\ SizeWord(b).bytes = b
    /\ \A n \in 1..MaxFrames, k \in Nat : Data(n, k) \in Word
  BY DEF Stop, Wrap, SizeWord, Data, Word

LEMMA RoundUp == \A b \in FrameSizes : /\ round_up_32(b) \in Nat \ {0}
                                       /\ total_size(b) = round_up_32(b) + 2
  BY DEF round_up_32, total_size

LEMMA InitIInv == Init => IInv
  <1> SUFFICES ASSUME Init PROVE IInv OBVIOUS
  <1> USE DEF Init
  <1>1. TypeOK  BY WordFacts DEF TypeOK, Index
  <1>2. AnySizeIsTaken /\ IntactWords /\ IntactFrames
    BY DEF AnySizeIsTaken, IntactWords, IntactFrames, Published, Busy
  <1>3. Layout
    BY DEF Layout, InFreeSpace, Ordered, Chained, AtTail, Wrapping, Building, Reading,
           Live, Last, Busy, Index
  <1> QED BY <1>1, <1>2, <1>3 DEF IInv

-----------------------------------------------------------------------------
(* Facts about the layout that several steps need. *)

LEMMA Facts ==
    ASSUME TypeOK
    PROVE  /\ Last \in Nat /\ Len(out) \in Nat /\ Len(got) \in Nat
           /\ read \in 0..Size-1 /\ write \in 0..Size-1 /\ plap \in Nat /\ rlap \in Nat
           /\ \A n \in 1..Last : /\ Start(n) \in 0..Size-1
                                 /\ hist[n].size \in FrameSizes
                                 /\ Lap(n) \in Nat
                                 /\ Words(n) \in Nat \ {0}
                                 /\ Finish(n) = Start(n) + 1 + Words(n)
  <1>1. /\ Len(hist) \in Nat /\ Len(out) \in Nat /\ Len(got) \in Nat
        /\ read \in 0..Size-1 /\ write \in 0..Size-1 /\ plap \in Nat /\ rlap \in Nat
    BY DEF TypeOK, Index
  <1>2. ASSUME NEW n \in 1..Len(hist)
        PROVE  hist[n].at \in Index /\ hist[n].size \in FrameSizes /\ hist[n].lap \in Nat
    <2> DEFINE S == [at : Index, size : FrameSizes, lap : Nat]
    <2>1. hist \in Seq(S)  BY DEF TypeOK
    <2> HIDE DEF S
    <2>2. hist[n] \in S  BY <2>1
    <2> QED BY <2>2 DEF S
  <1>3. ASSUME NEW n \in 1..Len(hist)
        PROVE  Words(n) \in Nat \ {0} /\ Finish(n) = Start(n) + 1 + Words(n)
    BY <1>2, RoundUp DEF End, Finish, Words, Start
  <1> QED BY <1>1, <1>2, <1>3 DEF Start, Lap, Index, Last

LEMMA BlockFacts ==
    ASSUME TypeOK, NEW n \in 1..Last
    PROVE  /\ Start(n) \in Nat /\ Finish(n) \in Nat /\ Lap(n) \in Nat
           /\ Start(n) < Finish(n)
  <1>1. /\ Start(n) \in 0..Size-1 /\ Lap(n) \in Nat /\ Words(n) \in Nat \ {0}
        /\ Finish(n) = Start(n) + 1 + Words(n)
    BY Facts
  <1>2. Start(n) \in Nat /\ Words(n) \in Nat  BY <1>1
  <1> QED BY <1>1, <1>2

(* When no frame is being written, comparing the two indices tells whether *)
(* the producer is one lap ahead: the test of the allocator is right.      *)
LEMMA SameLap ==
    ASSUME IInv, ~Busy
    PROVE  /\ Len(out) <= Last
           /\ \/ plap = rlap /\ read <= write
              \/ plap = rlap + 1 /\ write <= read - 2
  <1>0. TypeOK /\ AtTail /\ InFreeSpace /\ IntactFrames  BY DEF IInv, Layout
  <1>1. Len(out) <= Last
    BY <1>0 DEF IntactFrames, Published, Last
  <1>2. CASE Len(out) = Last
    BY <1>0, <1>1, <1>2, Facts DEF AtTail
  <1>3. CASE Len(out) < Last
    <2>1. Last \in Live /\ Last \in 1..Last
      BY <1>3, <1>0, Facts DEF Live
    <2>2. write = Finish(Last) /\ plap = Lap(Last)
      BY <1>0, <1>3 DEF AtTail
    <2>3. /\ Lap(Last) \in {rlap, rlap + 1}
          /\ Lap(Last) = rlap => read <= Start(Last)
          /\ Lap(Last) = rlap + 1 => Finish(Last) <= read - 2
      BY <1>0, <2>1 DEF InFreeSpace
    <2>4. read \in Nat /\ Start(Last) \in Nat /\ Finish(Last) \in Nat
      <3>1. Start(Last) \in 0..Size-1 /\ Words(Last) \in Nat
            /\ Finish(Last) = Start(Last) + 1 + Words(Last)
        BY <1>0, <2>1, Facts
      <3>2. read \in Nat  BY <1>0, Facts
      <3> QED BY <3>1, <3>2
    <2>5. Start(Last) <= Finish(Last)
      <3>1. Start(Last) \in Nat /\ Words(Last) \in Nat
            /\ Finish(Last) = Start(Last) + 1 + Words(Last)
        BY <1>0, <2>1, Facts
      <3> QED BY <3>1
    <2> QED BY <1>1, <2>2, <2>3, <2>4, <2>5
  <1>4. Len(out) \in Nat /\ Last \in Nat  BY <1>0, Facts
  <1> QED BY <1>1, <1>2, <1>3, <1>4

LEMMA Parts ==
    ASSUME IInv
    PROVE  /\ TypeOK /\ AnySizeIsTaken /\ IntactWords /\ IntactFrames
           /\ Last <= MaxFrames /\ InFreeSpace /\ Ordered /\ Chained
           /\ AtTail /\ Wrapping /\ Building /\ Reading
  BY DEF IInv, Layout

(* What the allocator guarantees about the room that it finds. *)
LEMMA AllocCases ==
    ASSUME IInv, ~Busy, NEW b \in FrameSizes
    PROVE  /\ AllocBuffer(total_size(b)) = "end" =>
                \/ plap = rlap /\ read <= write /\ write + round_up_32(b) + 2 < Size
                \/ plap = rlap + 1 /\ write + round_up_32(b) + 2 < read
           /\ AllocBuffer(total_size(b)) = "start" =>
                plap = rlap /\ read <= write /\ round_up_32(b) + 2 < read
           /\ AllocBuffer(total_size(b)) = "none" =>
                read # write \/ 2 * total_size(b) >= Size
  <1> DEFINE t == total_size(b)
  <1>1. t = round_up_32(b) + 2 /\ t \in Nat /\ round_up_32(b) \in Nat  BY RoundUp
  <1>2. AllocBuffer(t) = Wifi_TxBufferAllocBuffer(t)
    BY DEF AllocBuffer, Wifi_RxBufferAllocBuffer
  <1>3. read \in Nat /\ write \in Nat /\ read < Size /\ plap \in Nat /\ rlap \in Nat
    BY Parts, Facts
  <1> HIDE DEF t
  <1>4. /\ AllocBuffer(t) = "end" => \/ read <= write /\ write + t < Size
                                     \/ read > write /\ write + t < read
        /\ AllocBuffer(t) = "start" => read <= write /\ t < read
        /\ AllocBuffer(t) = "none" => read # write \/ 2 * t >= Size
    BY <1>1, <1>2, <1>3 DEF Wifi_TxBufferAllocBuffer
  <1>5. \/ plap = rlap /\ read <= write
        \/ plap = rlap + 1 /\ write <= read - 2
    BY SameLap
  <1> QED BY <1>1, <1>3, <1>4, <1>5 DEF t

(* A block added at the tail leaves the others where they were. *)
LEMMA AppendBlock ==
    ASSUME TypeOK, NEW a \in Index, NEW b \in FrameSizes, NEW l \in Nat,
           hist' = Append(hist, [at |-> a, size |-> b, lap |-> l])
    PROVE  /\ hist' \in Seq([at : Index, size : FrameSizes, lap : Nat])
           /\ Len(hist') = Len(hist) + 1
           /\ Last' = Last + 1
           /\ \A n \in 1..Last : /\ hist'[n] = hist[n]
                                 /\ Start(n)' = Start(n) /\ Finish(n)' = Finish(n)
                                 /\ Lap(n)' = Lap(n) /\ Words(n)' = Words(n)
           /\ \A n : n = Last + 1 =>
                 /\ hist'[n].size = b
                 /\ Start(n)' = a /\ Lap(n)' = l /\ Words(n)' = round_up_32(b)
                 /\ Finish(n)' = a + 1 + round_up_32(b)
  <1> DEFINE S == [at : Index, size : FrameSizes, lap : Nat]
             e == [at |-> a, size |-> b, lap |-> l]
  <1>1. hist \in Seq(S)  BY DEF TypeOK
  <1>2. e \in S  OBVIOUS
  <1>3. /\ hist' \in Seq(S) /\ Len(hist') = Len(hist) + 1
        /\ \A n \in 1..Len(hist) : hist'[n] = hist[n]
        /\ hist'[Len(hist) + 1] = e
    <2> HIDE DEF S, e
    <2> QED BY <1>1, <1>2, AppendProperties DEF e
  <1> QED BY <1>3 DEF Last, Start, Finish, Lap, Words, End

LEMMA AllocEndStep ==
    ASSUME IInv, NEW b \in FrameSizes, AllocEnd(b)
    PROVE  IInv'
  <1>0. Busy' /\ ~Busy /\ p.pc = "idle" /\ p'.pc = "data"
    BY DEF AllocEnd, Busy
  <1>1. /\ round_up_32(b) \in Nat \ {0}
        /\ \/ plap = rlap /\ read <= write /\ write + round_up_32(b) + 2 < Size
           \/ plap = rlap + 1 /\ write + round_up_32(b) + 2 < read
    BY <1>0, AllocCases, RoundUp DEF AllocEnd
  <1>2. /\ hist' = Append(hist, [at |-> write, size |-> b, lap |-> plap])
        /\ p' = [pc |-> "data", at |-> write, size |-> b, k |-> 1]
        /\ UNCHANGED <<buf, write, read, c, got, out, plap, rlap>>
        /\ Last < MaxFrames
    BY DEF AllocEnd, Last
  <1>3. /\ write \in Index /\ plap \in Nat /\ rlap \in Nat
        /\ write \in Nat /\ read \in Nat /\ read < Size
    BY Parts, Facts DEF Index
  <1>4. /\ Last' = Last + 1 /\ Last \in Nat /\ Len(out) \in Nat /\ Len(out) <= Last
        /\ Published = Last /\ Published' = Last
        /\ Live = Len(out) + 1 .. Last
        /\ Live' = Len(out) + 1 .. Last + 1
    BY <1>0, <1>2, <1>3, Parts, Facts, AppendBlock, SameLap DEF Last, Published, Live
  <1>5. /\ \A n \in 1..Last : /\ Start(n)' = Start(n) /\ Finish(n)' = Finish(n)
                              /\ Lap(n)' = Lap(n) /\ Words(n)' = Words(n)
                              /\ hist'[n] = hist[n]
        /\ \A n : n = Last + 1 =>
              /\ hist'[n].size = b
              /\ Start(n)' = write /\ Lap(n)' = plap
              /\ Words(n)' = round_up_32(b) /\ Finish(n)' = write + 1 + round_up_32(b)
    <2>1. TypeOK BY Parts
    <2>2. hist' = Append(hist, [at |-> write, size |-> b, lap |-> plap]) BY <1>2
    <2>3. \A n \in 1..Last : /\ Start(n)' = Start(n) /\ Finish(n)' = Finish(n)
                              /\ Lap(n)' = Lap(n) /\ Words(n)' = Words(n)
                              /\ hist'[n] = hist[n]
            BY <2>1, <2>2, <1>3, AppendBlock
    <2>4. \A n : n = Last + 1 =>
              /\ hist'[n].size = b
              /\ Start(n)' = write /\ Lap(n)' = plap
              /\ Words(n)' = round_up_32(b) 
            BY <2>1, <2>2, <1>3, AppendBlock
    <2>5. \A n : n = Last + 1 =>
              Finish(n)' = write + 1 + round_up_32(b)
            BY <2>1, <2>2, <1>3, AppendBlock
    <2> QED BY <2>3, <2>4, <2>5
  <1>6. TypeOK'
    <2>1. hist' \in Seq([at : Index, size : FrameSizes, lap : Nat])
      BY <1>2, <1>3, Parts, AppendBlock
    <2> QED BY <1>2, <1>3, <2>1, Parts DEF TypeOK
  <1>7. AnySizeIsTaken' /\ IntactWords' /\ IntactFrames'
    <2>1. AnySizeIsTaken'  BY <1>2, Parts DEF AnySizeIsTaken
    <2>2. IntactWords'
      <3> SUFFICES ASSUME NEW n \in Len(out) + 1 .. Last
                   PROVE  (/\ buf[Start(n)] = SizeWord(hist[n].size)
                           /\ \A k \in 1..Words(n) : buf[Start(n) + k] = Data(n, k))'
        BY <1>2, <1>4 DEF IntactWords
      <3>1. n \in 1..Last  BY <1>4
      <3> QED BY <3>1, <1>2, <1>4, <1>5, Parts DEF IntactWords
    <2>3. IntactFrames'
      <3> SUFFICES ASSUME NEW n \in 1..Len(out) PROVE out[n] = FrameOf(n)'
        BY <1>2, <1>4 DEF IntactFrames
      <3> QED BY <1>4, <1>5, Parts DEF IntactFrames, FrameOf
    <2> QED BY <2>1, <2>2, <2>3
  <1>8. InFreeSpace'
    <2> SUFFICES ASSUME NEW n \in Len(out) + 1 .. Last + 1
                 PROVE  /\ Lap(n)' \in {rlap, rlap + 1}
                        /\ Finish(n)' <= Size - 2
                        /\ Lap(n)' = rlap => read <= Start(n)'
                        /\ Lap(n)' = rlap + 1 => Finish(n)' <= read - 2
      BY <1>2, <1>4 DEF InFreeSpace
    <2>1. CASE n \in 1..Last
      BY <2>1, <1>4, <1>5, Parts DEF InFreeSpace
    <2>2. CASE n = Last + 1
      BY <2>2, <1>1, <1>3, <1>5, SMTT(30)
    <2> QED BY <2>1, <2>2, <1>4
  <1>9. Ordered'
    <2> SUFFICES ASSUME NEW m \in Len(out) + 1 .. Last + 1, NEW n \in Len(out) + 1 .. Last + 1,
                        m < n
                 PROVE  \/ Lap(m)' < Lap(n)'
                        \/ Lap(m)' = Lap(n)' /\ Finish(m)' <= Start(n)'
      BY <1>2, <1>4 DEF Ordered
    <2>1. CASE n \in 1..Last
      BY <2>1, <1>4, <1>5, Parts DEF Ordered
    <2>2. CASE n = Last + 1
      <3>1. m \in Live /\ m \in 1..Last /\ Len(out) < Last /\ Last \in Live  BY <2>2, <1>4
      <3>2. write = Finish(Last) /\ plap = Lap(Last)  BY <1>0, <3>1, Parts DEF AtTail
      <3>3. \/ m = Last
            \/ Lap(m) < Lap(Last)
            \/ Lap(m) = Lap(Last) /\ Finish(m) <= Start(Last)
        BY <3>1, <1>4, Parts DEF Ordered
      <3>4. /\ Start(Last) \in Nat /\ Finish(Last) \in Nat /\ Start(Last) <= Finish(Last)
            /\ Finish(m) \in Nat /\ Lap(m) \in Nat
        <4>1. Last \in 1..Last  BY <3>1, <1>4
        <4>2. \A i \in 1..Last : /\ Start(i) \in Nat /\ Finish(i) \in Nat /\ Lap(i) \in Nat
                                 /\ Start(i) <= Finish(i)
          <5>1. TypeOK  BY Parts
          <5> QED BY <5>1, BlockFacts
        <4>3. Start(Last) \in Nat /\ Finish(Last) \in Nat /\ Start(Last) <= Finish(Last)
          BY <4>1, <4>2
        <4>4. Finish(m) \in Nat /\ Lap(m) \in Nat
          BY <3>1, <4>2
        <4> QED BY <4>3, <4>4
      <3> QED BY <2>2, <3>1, <3>2, <3>3, <3>4, <1>3, <1>5
    <2> QED BY <2>1, <2>2, <1>4
  <1>10. Chained'
    <2>1. Len(out) < Last + 1 => Leads(read, rlap, Len(out) + 1)'
      <3> DEFINE n == Len(out) + 1
      <3>1. CASE n \in 1..Last
        BY <3>1, <1>2, <1>4, <1>5, Parts DEF Chained, Leads
      <3>2. CASE n = Last + 1
        <4>1. write = read /\ plap = rlap  BY <3>2, <1>0, <1>4, Parts DEF AtTail
        <4> QED BY <4>1, <3>2, <1>2, <1>4, <1>5 DEF Leads
      <3> QED BY <3>1, <3>2, <1>4
    <2>2. ASSUME NEW n \in Len(out) + 1 .. Last + 1, n < Last + 1
          PROVE  Leads(Finish(n), Lap(n), n + 1)'
      <3>1. n \in 1..Last /\ n \in Live  BY <2>2, <1>4
      <3>2. CASE n < Last
        <4>1. n + 1 \in 1..Last  BY <3>1, <3>2, <1>4
        <4>2. Leads(Finish(n), Lap(n), n + 1)  BY <3>1, <3>2, Parts DEF Chained
        <4> QED BY <3>1, <4>1, <4>2, <1>2, <1>5 DEF Leads
      <3>3. CASE n = Last
        <4>1. write = Finish(Last) /\ plap = Lap(Last)
          BY <3>1, <3>3, <1>0, <1>4, Parts DEF AtTail
        <4> QED BY <3>1, <3>3, <4>1, <1>5 DEF Leads
      <3> QED BY <3>1, <3>2, <3>3, <1>4
    <2> QED BY <2>1, <2>2, <1>2, <1>4 DEF Chained
  <1>11. AtTail' /\ Wrapping'  BY <1>0, <1>2 DEF AtTail, Wrapping
  <1>12. Building'
    <2>1. /\ Start(Last)' = write /\ Lap(Last)' = plap /\ hist'[Last'].size = b
          /\ Words(Last)' = round_up_32(b)
      BY <1>4, <1>5 DEF Start, Lap, Words
    <2>2. buf[write] = Stop  BY <1>0, Parts DEF AtTail
    <2>3. p'.at = write /\ p'.size = b /\ p'.k = 1 /\ p'.pc = "data"  BY <1>2
    <2>4. 1 \in 1..round_up_32(b) /\ \A k \in 1..round_up_32(b) : ~ (k < 1)  BY <1>1
    <2> QED BY <2>1, <2>2, <2>3, <2>4, <1>2, <1>4 DEF Building
  <1>13. Reading'
    <2>1. CASE c.pc = "second"
      <3>1. Len(out) + 1 \in 1..Last  BY <2>1, <1>4, Parts DEF Reading
      <3> QED BY <3>1, <2>1, <1>2, <1>4, <1>5, Parts DEF Reading
    <2>2. CASE c.pc = "copy"
      <3>1. Len(out) + 1 \in 1..Last  BY <2>2, <1>4, Parts DEF Reading
      <3> QED BY <3>1, <2>2, <1>2, <1>4, <1>5, Parts DEF Reading
    <2>3. CASE c.pc \notin {"second", "copy"}
      BY <2>3, <1>2, Parts DEF Reading
    <2> QED BY <2>1, <2>2, <2>3
  <1> QED BY <1>2, <1>4, <1>6, <1>7, <1>8, <1>9, <1>10, <1>11, <1>12, <1>13, Parts DEF IInv, Layout, Last

-----------------------------------------------------------------------------
(* Steps that store one word of the buffer. *)

LEMMA SameHist ==
    ASSUME hist' = hist
    PROVE  /\ Last' = Last
           /\ \A n : /\ Start(n)' = Start(n) /\ Finish(n)' = Finish(n)
                     /\ Lap(n)' = Lap(n) /\ Words(n)' = Words(n)
  BY DEF Last, Start, Finish, Lap, Words, End

(* The store at index x touches no word that the consumer may still read.  *)
Unread(x) ==
    \/ \E n \in Len(out) + 1 .. Published : Start(n) <= x /\ x < Finish(n)
    \/ Len(out) < Last /\ Lap(Len(out) + 1) = rlap + 1 /\ x = read
    \/ \E n \in Live : n < Last /\ Lap(n + 1) # Lap(n) /\ x = Finish(n)

LEMMA Counts ==
    ASSUME IInv
    PROVE  /\ Len(out) \in Nat /\ Last \in Nat /\ Published \in Int /\ Len(out) <= Published
           /\ Published <= Last /\ Live = Len(out) + 1 .. Last
           /\ Len(out) <= Last
           /\ Busy => Published = Last - 1
           /\ ~Busy => Published = Last
  BY Parts, Facts DEF Published, Live, IntactFrames, Last

LEMMA StoreElsewhere ==
    ASSUME IInv, NEW x \in Index, NEW w \in Word, ~Unread(x),
           buf' = [buf EXCEPT ![x] = w],
           UNCHANGED <<read, hist, out, rlap>>
    PROVE  /\ InFreeSpace' /\ Ordered' /\ Chained'
           /\ \A n \in Len(out) + 1 .. Published :
                 /\ buf'[Start(n)] = SizeWord(hist[n].size)
                 /\ \A k \in 1..Words(n) : buf'[Start(n) + k] = Data(n, k)
           /\ Published' = Published => IntactWords' /\ IntactFrames'
           /\ buf' \in [Index -> Word]
           /\ \A i \in Index : i # x => buf'[i] = buf[i]
           /\ buf'[x] = w
  <1>1. buf \in [Index -> Word]  BY Parts DEF TypeOK
  <1>2. /\ buf' \in [Index -> Word] /\ buf'[x] = w
        /\ \A i \in Index : i # x => buf'[i] = buf[i]
    BY <1>1
  <1>3. /\ Last' = Last /\ Live' = Live
        /\ \A n : /\ Start(n)' = Start(n) /\ Finish(n)' = Finish(n)
                  /\ Lap(n)' = Lap(n) /\ Words(n)' = Words(n)
    BY SameHist DEF Live
  <1>4. ASSUME NEW n \in Len(out) + 1 .. Published
        PROVE  /\ buf'[Start(n)] = SizeWord(hist[n].size)
               /\ \A k \in 1..Words(n) : buf'[Start(n) + k] = Data(n, k)
    <2>1. n \in 1..Last /\ n \in Live  BY Counts
    <2>2. /\ Start(n) \in Nat /\ Words(n) \in Nat /\ Finish(n) = Start(n) + 1 + Words(n)
          /\ Finish(n) <= Size - 2
      BY <2>1, Parts, Facts DEF InFreeSpace
    <2>3. x < Start(n) \/ Finish(n) <= x  BY <2>2 DEF Unread, Index
    <2>4. /\ buf[Start(n)] = SizeWord(hist[n].size)
          /\ \A k \in 1..Words(n) : buf[Start(n) + k] = Data(n, k)
      BY Parts DEF IntactWords
    <2>5. Start(n) \in Index /\ Start(n) # x  BY <2>2, <2>3 DEF Index
    <2>6. ASSUME NEW k \in 1..Words(n) PROVE Start(n) + k \in Index /\ Start(n) + k # x
      BY <2>2, <2>3 DEF Index
    <2> QED BY <1>2, <2>4, <2>5, <2>6
  <1>5. ASSUME Published' = Published PROVE IntactWords' /\ IntactFrames'
    <2>1. IntactWords'  BY <1>3, <1>4, <1>5 DEF IntactWords
    <2>2. IntactFrames'  BY <1>5, Parts DEF IntactFrames, FrameOf
    <2> QED BY <2>1, <2>2
  <1>6. InFreeSpace' /\ Ordered'
    BY <1>3, Parts DEF InFreeSpace, Ordered
  <1>7. Chained'
    <2>1. Len(out) < Last => Leads(read, rlap, Len(out) + 1)'
      <3>1. read \in Index  BY Parts DEF TypeOK
      <3> QED BY <3>1, <1>2, <1>3, Parts DEF Chained, Leads, Unread
    <2>2. ASSUME NEW n \in Live, n < Last PROVE Leads(Finish(n), Lap(n), n + 1)'
      <3>1. Leads(Finish(n), Lap(n), n + 1)  BY <2>2, Parts DEF Chained
      <3>2. n \in 1..Last  BY Counts
      <3>3. Finish(n) \in Index /\ Lap(n) \in Nat
        <4>1. Start(n) \in Nat /\ Finish(n) \in Nat /\ Lap(n) \in Nat
          BY <3>2, Parts, BlockFacts
        <4>2. Finish(n) <= Size - 2  BY Parts DEF InFreeSpace
        <4> QED BY <4>1, <4>2 DEF Index
      <3>4. Lap(n + 1) = Lap(n) + 1 => x # Finish(n)
        BY <2>2, <3>3 DEF Unread
      <3> QED BY <1>2, <1>3, <3>1, <3>3, <3>4 DEF Leads
    <2> QED BY <1>3, <2>1, <2>2 DEF Chained
  <1> QED BY <1>2, <1>4, <1>5, <1>6, <1>7

(* Unread blocks and wrap markers are outside of the block being written.  *)
LEMMA OwnBlock ==
    ASSUME IInv, Busy, NEW x \in Start(Last)..Finish(Last)
    PROVE  x \in Index /\ ~Unread(x)
  <1>1. /\ Last \in 1..Last /\ Last \in Live /\ Published = Last - 1
        /\ Len(out) < Last
    BY Counts, Parts DEF Building
  <1>2. \A n \in 1..Last : /\ Start(n) \in Nat /\ Finish(n) \in Nat /\ Start(n) < Finish(n)
                           /\ Lap(n) \in Nat
    BY Parts, BlockFacts
  <1>3. /\ Finish(Last) <= Size - 2
        /\ Lap(Last) = rlap + 1 => Finish(Last) <= read - 2
        /\ Lap(Last) \in {rlap, rlap + 1}
    BY <1>1, Parts DEF InFreeSpace
  <1>4. read \in Nat /\ rlap \in Nat BY Parts, Facts
  <1>5. ASSUME NEW n \in Live, n # Last
        PROVE  \/ Finish(n) <= Start(Last)
               \/ Lap(n) = rlap /\ Lap(Last) = rlap + 1 /\ Finish(Last) < Start(n)
    <2>1. n < Last /\ n \in 1..Last  BY <1>5, <1>1, Counts
    <2>2. \/ Lap(n) < Lap(Last)
          \/ Lap(n) = Lap(Last) /\ Finish(n) <= Start(Last)
      BY <1>1, <2>1, Parts DEF Ordered
    <2>3. Lap(n) \in {rlap, rlap + 1} /\ (Lap(n) = rlap => read <= Start(n))
      BY Parts DEF InFreeSpace
    <2> QED BY <1>1, <1>2, <1>3, <1>4, <2>1, <2>2, <2>3
  <1>6. x \in Index  BY <1>1, <1>2, <1>3 DEF Index
  <1>7. ASSUME NEW n \in Len(out) + 1 .. Published, Start(n) <= x, x < Finish(n)
        PROVE  FALSE
    <2>1. n \in Live /\ n # Last /\ n \in 1..Last  BY <1>1, Counts
    <2> QED BY <2>1, <1>1, <1>2, <1>5, <1>7, SMTT(30)
  <1>8. ASSUME Lap(Len(out) + 1) = rlap + 1, x = read
        PROVE  FALSE
    <2>1. Len(out) + 1 \in Live /\ Len(out) + 1 \in 1..Last  BY <1>1, Counts
    <2>2. CASE Len(out) + 1 = Last
      BY <1>8, <2>2, <1>1, <1>2, <1>3, <1>4
    <2>3. CASE Len(out) + 1 # Last
      <3>1. Len(out) + 1 < Last  BY <2>1, <2>3, Counts
      <3>2. Lap(Len(out) + 1) <= Lap(Last)
        BY <3>1, <2>1, <1>1, <1>2, Parts, SMTT(30) DEF Ordered
      <3> QED BY <1>8, <3>2, <1>1, <1>2, <1>3, <1>4
    <2> QED BY <2>2, <2>3
  <1>9. ASSUME NEW n \in Live, n < Last, Lap(n + 1) # Lap(n), x = Finish(n)
        PROVE  FALSE
    <2>1. n \in 1..Last /\ n + 1 \in 1..Last /\ n + 1 \in Live  BY <1>9, Counts
    <2>2. Lap(n) < Lap(n + 1)
      BY <2>1, <1>9, Parts DEF Ordered
    <2>3. Lap(n + 1) <= Lap(Last)
      <3>1. CASE n + 1 = Last  BY <3>1, <1>1, <1>2
      <3>2. CASE n + 1 < Last
        <4> DEFINE m == n + 1
        <4>1. m \in Live /\ m < Last  BY <2>1, <3>2
        <4>2. Lap(m) < Lap(Last) \/ Lap(m) = Lap(Last)
          <5> HIDE DEF m
          <5> QED BY <4>1, <1>1, Parts DEF Ordered
        <4>3. Lap(m) \in Nat /\ Lap(Last) \in Nat  BY <2>1, <1>1, <1>2
        <4> QED BY <4>2, <4>3
      <3> QED BY <3>1, <3>2, <2>1, Counts
    <2>4. Finish(Last) < Start(n)
      <3>1. Lap(n) < Lap(Last)  BY <2>1, <2>2, <2>3, <1>1, <1>2
      <3>2. Lap(n) # Lap(Last)  BY <3>1, <2>1, <1>1, <1>2
      <3>3. Lap(n) \in {rlap, rlap + 1} /\ (Lap(n) = rlap => read <= Start(n))
        BY Parts DEF InFreeSpace
      <3> QED BY <3>1, <3>2, <3>3, <2>1, <1>1, <1>2, <1>3, <1>4, SMTT(30)
    <2> QED BY <1>9, <2>1, <2>4, <1>1, <1>2
  <1> QED BY <1>6, <1>7, <1>8, <1>9 DEF Unread

(* With the two CPUs in the same lap, so is every unread block. *)
LEMMA OneLap ==
    ASSUME IInv, ~Busy, plap = rlap, NEW n \in Live
    PROVE  Lap(n) = rlap /\ read <= Start(n) /\ Finish(n) <= write
  <1>1. n \in 1..Last /\ Last \in 1..Last /\ Last \in Live /\ Len(out) < Last  BY Counts
  <1>2. write = Finish(Last) /\ Lap(Last) = rlap  BY <1>1, Parts DEF AtTail
  <1>3. \A i \in 1..Last : Start(i) \in Nat /\ Finish(i) \in Nat /\ Lap(i) \in Nat
                           /\ Start(i) <= Finish(i)
    BY Parts, Facts
  <1>4. Lap(n) \in {rlap, rlap + 1} /\ (Lap(n) = rlap => read <= Start(n))
    BY Parts DEF InFreeSpace
  <1>5. \/ n = Last
        \/ Lap(n) < Lap(Last)
        \/ Lap(n) = Lap(Last) /\ Finish(n) <= Start(Last)
    BY <1>1, Parts DEF Ordered
  <1>6. rlap \in Nat  BY Parts, Facts
  <1>7. Finish(Last) \in Nat /\ Start(Last) \in Nat /\ Start(Last) <= Finish(Last)
    BY <1>1, <1>3
  <1>8. Lap(n) \in Nat /\ Finish(n) \in Nat  BY <1>1, <1>3
  <1> QED BY <1>2, <1>4, <1>5, <1>6, <1>7, <1>8

LEMMA AllocStartStep ==
    ASSUME IInv, NEW b \in FrameSizes, AllocStart(b)
    PROVE  IInv'
  <1>0. /\ ~Busy /\ ~Busy' /\ p.pc = "idle"
        /\ buf' = [buf EXCEPT ![0] = Stop]
        /\ p' = [pc |-> "wrap", at |-> 0, size |-> b, k |-> 1]
        /\ UNCHANGED <<write, read, c, got, hist, out, plap, rlap>>
        /\ Last < MaxFrames
    BY DEF AllocStart, Busy, Last
  <1>1. plap = rlap /\ read <= write /\ total_size(b) < read
    BY <1>0, AllocCases, RoundUp DEF AllocStart
  <1>2. total_size(b) \in Nat /\ read \in Nat /\ read > 0 /\ rlap \in Nat /\ write \in Nat
    BY <1>1, RoundUp, Parts, Facts
  <1>3. 0 \in Index /\ write \in Index  BY Parts, Facts DEF Index
  <1>4. ~Unread(0)
    <2>1. ASSUME NEW n \in Live PROVE ~(Start(n) <= 0) /\ 0 # Finish(n)
      <3>1. read <= Start(n)  BY <1>0, <1>1, OneLap
      <3>2. n \in 1..Last  BY Counts
      <3>3. Start(n) \in Nat /\ Finish(n) > Start(n) /\ Finish(n) \in Nat  BY <3>2, Parts, Facts
      <3> QED BY <1>2, <3>1, <3>3
    <2>2. \A n \in Len(out) + 1 .. Published : n \in Live  BY Counts
    <2> QED BY <2>1, <2>2, <1>2 DEF Unread
  <1>5. Published' = Published  BY <1>0, SameHist DEF Published, Last
  <1>6. /\ InFreeSpace' /\ Ordered' /\ Chained' /\ IntactWords' /\ IntactFrames'
        /\ buf' \in [Index -> Word] /\ buf'[0] = Stop
        /\ \A i \in Index : i # 0 => buf'[i] = buf[i]
    BY <1>0, <1>3, <1>4, <1>5, StoreElsewhere, WordFacts
  <1>7. TypeOK' /\ AnySizeIsTaken'
    BY <1>0, <1>3, <1>6, Parts DEF TypeOK, AnySizeIsTaken
  <1>8. AtTail'
    <2>1. buf'[write] = Stop  BY <1>0, <1>3, <1>6, Parts DEF AtTail
    <2> QED BY <1>0, <2>1, SameHist, Parts DEF AtTail
  <1>9. Wrapping' /\ Building'
    BY <1>0, <1>1, <1>6, SameHist DEF Wrapping, Building
  <1>10. Reading'
    BY <1>0, <1>5, SameHist, Parts DEF Reading
  <1> QED BY <1>0, <1>6, <1>7, <1>8, <1>9, <1>10, SameHist, Parts DEF IInv, Layout

(* Steps of the producer that leave the buffer alone. *)
LEMMA RejectStep ==
    ASSUME IInv, (\E b \in FrameSizes : Reject(b)) \/ ReturnRejected
    PROVE  IInv'
  <1>0. /\ ~Busy /\ ~Busy' /\ p'.pc # "wrap"
        /\ UNCHANGED <<buf, write, read, c, got, hist, out, plap, rlap>>
    BY Parts DEF Reject, ReturnRejected, Busy, ring, TypeOK
  <1>1. p' \in [pc : {"idle", "wrap", "rejected", "data", "stop", "write", "size"},
                at : Index, size : FrameSizes \cup {0}, k : Nat]
    BY Parts DEF TypeOK, Reject, ReturnRejected
  <1>2. Published' = Published  BY <1>0 DEF Published
  <1>3. TypeOK' /\ AnySizeIsTaken' /\ IntactWords' /\ IntactFrames'
    <2>1. TypeOK'  BY <1>0, <1>1, <1>2, SameHist, Parts DEF TypeOK
    <2>2. AnySizeIsTaken'  BY <1>0, <1>1, <1>2, SameHist, Parts DEF AnySizeIsTaken
    <2>3. IntactWords'  BY <1>0, <1>1, <1>2, SameHist, Parts DEF IntactWords
    <2>4. IntactFrames'  BY <1>0, <1>1, <1>2, SameHist, Parts DEF IntactFrames, FrameOf
    <2> QED BY <2>1, <2>2, <2>3, <2>4
  <1>4. InFreeSpace' /\ Ordered' /\ Chained'
    BY <1>0, SameHist, Parts DEF InFreeSpace, Ordered, Chained, Leads, Live
  <1>5. AtTail' /\ Wrapping' /\ Building' /\ Reading'
    BY <1>0, <1>2, SameHist, Parts DEF AtTail, Wrapping, Building, Reading
  <1> QED BY <1>0, <1>3, <1>4, <1>5, SameHist, Parts DEF IInv, Layout

LEMMA WriteDataStep ==
    ASSUME IInv, WriteData
    PROVE  IInv'
  <1> DEFINE x == Start(Last) + p.k
  <1>0. /\ p.pc = "data" /\ Busy
        /\ buf' = [buf EXCEPT ![p.at + p.k] = Data(Len(hist), p.k)]
        /\ p' = IF p.k = round_up_32(p.size) THEN [p EXCEPT !.pc = "stop"]
                                             ELSE [p EXCEPT !.k = p.k + 1]
        /\ UNCHANGED <<write, read, c, got, hist, out, plap, rlap>>
    BY DEF WriteData, Busy
  <1>1. /\ p.at = Start(Last) /\ p.size = hist[Last].size /\ plap = Lap(Last)
        /\ p.k \in 1..Words(Last) /\ buf[Start(Last)] = Stop /\ Len(out) < Last
        /\ \A k \in 1..Words(Last) : k < p.k => buf[Start(Last) + k] = Data(Last, k)
    BY <1>0, Parts DEF Building
  <1>2. /\ Last \in 1..Last /\ Last \in 1..MaxFrames /\ Start(Last) \in Nat /\ Words(Last) \in Nat
        /\ Finish(Last) = Start(Last) + 1 + Words(Last)
    <2>1. Last \in 1..Last /\ Last \in 1..MaxFrames  BY <1>1, Counts, Parts
    <2> QED BY <2>1, Parts, Facts
  <1>3. round_up_32(p.size) = Words(Last)  BY <1>1 DEF Words
  <1>4. x \in Start(Last)..Finish(Last) /\ x # Start(Last) /\ Data(Last, p.k) \in Word
    BY <1>1, <1>2, WordFacts
  <1>5. x \in Index /\ ~Unread(x) /\ Start(Last) \in Index
    BY <1>0, <1>2, <1>4, OwnBlock DEF Index
  <1>6. p' \in [pc : {"idle", "wrap", "rejected", "data", "stop", "write", "size"},
                at : Index, size : FrameSizes \cup {0}, k : Nat]
        /\ p'.pc \in {"data", "stop"} /\ p'.at = p.at /\ p'.size = p.size
        /\ (p'.pc = "data" => p.k # Words(Last) /\ p'.k = p.k + 1)
        /\ (p'.pc = "stop" => p.k = Words(Last) /\ p'.k = p.k)
    <2>1. p \in [pc : {"idle", "wrap", "rejected", "data", "stop", "write", "size"},
                 at : Index, size : FrameSizes \cup {0}, k : Nat]
      BY Parts DEF TypeOK
    <2>2. CASE p.k = round_up_32(p.size)  BY <2>1, <2>2, <1>0, <1>3
    <2>3. CASE p.k # round_up_32(p.size)  BY <2>1, <2>3, <1>0, <1>3
    <2> QED BY <2>2, <2>3
  <1>7. Busy' /\ Published' = Published  BY <1>0, <1>6 DEF Busy, Published
  <1>8. /\ InFreeSpace' /\ Ordered' /\ Chained' /\ IntactWords' /\ IntactFrames'
        /\ buf' \in [Index -> Word] /\ buf'[x] = Data(Last, p.k)
        /\ \A i \in Index : i # x => buf'[i] = buf[i]
    <2>1. buf' = [buf EXCEPT ![x] = Data(Last, p.k)]  BY <1>0, <1>1 DEF Last
    <2> HIDE DEF x
    <2> QED BY <2>1, <1>0, <1>4, <1>5, <1>7, StoreElsewhere
  <1>9. TypeOK' /\ AnySizeIsTaken'
    BY <1>0, <1>6, <1>8, Parts DEF TypeOK, AnySizeIsTaken
  <1>10. Building'
    <2>1. ASSUME NEW k \in 1..Words(Last), k < p'.k \/ p'.pc # "data"
          PROVE  buf'[Start(Last) + k] = Data(Last, k)
      <3>1. CASE k = p.k  BY <3>1, <1>8
      <3>2. CASE k # p.k
        <4>1. k < p.k  BY <2>1, <3>2, <1>1, <1>2, <1>6
        <4>2. Start(Last) + k \in Start(Last)..Finish(Last) /\ Start(Last) + k # x
          BY <3>2, <1>1, <1>2
        <4>3. Start(Last) + k \in Index  BY <1>0, <4>2, OwnBlock
        <4> QED BY <4>1, <4>2, <4>3, <1>1, <1>8
      <3> QED BY <3>1, <3>2
    <2>2. p'.k \in 1..Words(Last)  BY <1>1, <1>2, <1>6
    <2>3. buf'[Start(Last)] = Stop  BY <1>1, <1>4, <1>5, <1>8
    <2>4. p'.pc \notin {"write", "size"}  BY <1>6
    <2>5. /\ Last' = Last /\ Start(Last)' = Start(Last) /\ Words(Last)' = Words(Last)
          /\ Lap(Last)' = Lap(Last)
      BY <1>0 DEF Last, Start, Words, Lap
    <2> QED BY <2>1, <2>2, <2>3, <2>4, <2>5, <1>0, <1>1, <1>6 DEF Building
  <1>11. AtTail' /\ Wrapping' /\ Reading'
    BY <1>0, <1>6, <1>7, SameHist, Parts DEF AtTail, Wrapping, Reading
  <1> QED BY <1>0, <1>8, <1>9, <1>10, <1>11, SameHist, Parts DEF IInv, Layout

LEMMA WriteStopStep ==
    ASSUME IInv, WriteStop
    PROVE  IInv'
  <1> DEFINE x == Finish(Last)
  <1>0. /\ p.pc = "stop" /\ Busy
        /\ buf' = [buf EXCEPT ![End(p)] = Stop]
        /\ p' = [p EXCEPT !.pc = "write"]
        /\ UNCHANGED <<write, read, c, got, hist, out, plap, rlap>>
    BY DEF WriteStop, Busy
  <1>1. /\ p.at = Start(Last) /\ p.size = hist[Last].size /\ plap = Lap(Last)
        /\ p.k \in 1..Words(Last) /\ buf[Start(Last)] = Stop /\ Len(out) < Last
        /\ \A k \in 1..Words(Last) : buf[Start(Last) + k] = Data(Last, k)
    BY <1>0, Parts DEF Building
  <1>2. /\ Last \in 1..Last /\ Start(Last) \in Nat /\ Words(Last) \in Nat
        /\ Finish(Last) = Start(Last) + 1 + Words(Last)
    <2>1. Last \in 1..Last  BY <1>1, Counts
    <2> QED BY <2>1, Parts, Facts
  <1>3. End(p) = x  BY <1>1 DEF End, Finish, Start
  <1>4. x \in Start(Last)..Finish(Last) /\ x # Start(Last)
    BY <1>1, <1>2
  <1>5. x \in Index /\ ~Unread(x) /\ Start(Last) \in Index
    BY <1>0, <1>2, <1>4, OwnBlock DEF Index
  <1>6. p' \in [pc : {"idle", "wrap", "rejected", "data", "stop", "write", "size"},
                at : Index, size : FrameSizes \cup {0}, k : Nat]
        /\ p'.pc = "write" /\ p'.at = p.at /\ p'.size = p.size /\ p'.k = p.k
    BY <1>0, Parts DEF TypeOK
  <1>7. Busy' /\ Published' = Published  BY <1>0, <1>6 DEF Busy, Published
  <1>8. /\ InFreeSpace' /\ Ordered' /\ Chained' /\ IntactWords' /\ IntactFrames'
        /\ buf' \in [Index -> Word] /\ buf'[x] = Stop
        /\ \A i \in Index : i # x => buf'[i] = buf[i]
    <2>1. buf' = [buf EXCEPT ![x] = Stop] /\ Stop \in Word  BY <1>0, <1>3, WordFacts
    <2> HIDE DEF x
    <2> QED BY <2>1, <1>0, <1>4, <1>5, <1>7, StoreElsewhere
  <1>9. TypeOK' /\ AnySizeIsTaken'
    BY <1>0, <1>6, <1>8, Parts DEF TypeOK, AnySizeIsTaken
  <1>10. Building'
    <2>1. ASSUME NEW k \in 1..Words(Last) PROVE  buf'[Start(Last) + k] = Data(Last, k)
      <3>1. Start(Last) + k \in Start(Last)..Finish(Last) /\ Start(Last) + k # x
        BY <1>1, <1>2
      <3>2. Start(Last) + k \in Index  BY <1>0, <3>1, OwnBlock
      <3> QED BY <3>1, <3>2, <1>1, <1>8
    <2>2. buf'[Start(Last)] = Stop  BY <1>1, <1>4, <1>5, <1>8
    <2>3. /\ Last' = Last /\ Start(Last)' = Start(Last) /\ Words(Last)' = Words(Last)
          /\ Lap(Last)' = Lap(Last) /\ Finish(Last)' = Finish(Last)
      BY <1>0 DEF Last, Start, Words, Lap, Finish, End
    <2> QED BY <2>1, <2>2, <2>3, <1>0, <1>1, <1>6, <1>8 DEF Building
  <1>11. AtTail' /\ Wrapping' /\ Reading'
    BY <1>0, <1>6, <1>7, SameHist, Parts DEF AtTail, Wrapping, Reading
  <1> QED BY <1>0, <1>8, <1>9, <1>10, <1>11, SameHist, Parts DEF IInv, Layout

LEMMA StoreWriteStep ==
    ASSUME IInv, StoreWrite
    PROVE  IInv'
  <1>0. /\ p.pc = "write" /\ Busy
        /\ write' = End(p)
        /\ p' = [p EXCEPT !.pc = "size"]
        /\ UNCHANGED <<buf, read, c, got, hist, out, plap, rlap>>
    BY DEF StoreWrite, Busy
  <1>1. /\ p.at = Start(Last) /\ p.size = hist[Last].size /\ Len(out) < Last
    BY <1>0, Parts DEF Building
  <1>2. End(p) = Finish(Last) /\ Finish(Last) \in Index
    <2>1. Last \in 1..Last  BY <1>1, Counts
    <2>2. Finish(Last) \in Start(Last)..Finish(Last)
      <3>1. TypeOK  BY Parts
      <3>2. Start(Last) \in Nat /\ Finish(Last) \in Nat /\ Start(Last) < Finish(Last)
        BY <3>1, <2>1, BlockFacts
      <3> QED BY <3>2
    <2> QED BY <1>0, <1>1, <2>2, OwnBlock DEF End, Finish, Start
  <1>3. p' \in [pc : {"idle", "wrap", "rejected", "data", "stop", "write", "size"},
                at : Index, size : FrameSizes \cup {0}, k : Nat]
        /\ p'.pc = "size" /\ p'.at = p.at /\ p'.size = p.size /\ p'.k = p.k
    BY <1>0, Parts DEF TypeOK
  <1>4. Busy' /\ Published' = Published  BY <1>0, <1>3 DEF Busy, Published
  <1>5. TypeOK' /\ AnySizeIsTaken' /\ IntactWords' /\ IntactFrames'
    <2>1. TypeOK'  BY <1>0, <1>2, <1>3, <1>4, SameHist, Parts DEF TypeOK
    <2>2. AnySizeIsTaken'  BY <1>0, <1>2, <1>3, <1>4, SameHist, Parts DEF AnySizeIsTaken
    <2>3. IntactWords'  BY <1>0, <1>2, <1>3, <1>4, SameHist, Parts DEF IntactWords
    <2>4. IntactFrames'  BY <1>0, <1>2, <1>3, <1>4, SameHist, Parts DEF IntactFrames, FrameOf
    <2> QED BY <2>1, <2>2, <2>3, <2>4
  <1>6. InFreeSpace' /\ Ordered' /\ Chained'
    BY <1>0, SameHist, Parts DEF InFreeSpace, Ordered, Chained, Leads, Live
  <1>7. Building'
    <2>1. /\ Last' = Last /\ Start(Last)' = Start(Last) /\ Words(Last)' = Words(Last)
          /\ Lap(Last)' = Lap(Last) /\ Finish(Last)' = Finish(Last)
      BY <1>0 DEF Last, Start, Words, Lap, Finish, End
    <2> QED BY <2>1, <1>0, <1>2, <1>3, Parts DEF Building
  <1>8. AtTail' /\ Wrapping' /\ Reading'
    BY <1>0, <1>3, <1>4, SameHist, Parts DEF AtTail, Wrapping, Reading
  <1> QED BY <1>0, <1>5, <1>6, <1>7, <1>8, SameHist, Parts DEF IInv, Layout

LEMMA PublishStep ==
    ASSUME IInv, Publish
    PROVE  IInv'
  <1> DEFINE x == Start(Last)
             w == SizeWord(hist[Last].size)
  <1>0. /\ p.pc = "size" /\ Busy
        /\ buf' = [buf EXCEPT ![p.at] = SizeWord(p.size)]
        /\ p' = [p EXCEPT !.pc = "idle"]
        /\ UNCHANGED <<write, read, c, got, hist, out, plap, rlap>>
    BY DEF Publish, Busy
  <1>1. /\ p.at = Start(Last) /\ p.size = hist[Last].size /\ plap = Lap(Last)
        /\ Len(out) < Last /\ write = Finish(Last) /\ buf[Finish(Last)] = Stop
        /\ \A k \in 1..Words(Last) : buf[Start(Last) + k] = Data(Last, k)
    BY <1>0, Parts DEF Building
  <1>2. /\ Last \in 1..Last /\ Last \in Nat /\ Start(Last) \in Nat /\ Words(Last) \in Nat \ {0}
        /\ Finish(Last) = Start(Last) + 1 + Words(Last)
        /\ Published = Last - 1 /\ hist[Last].size \in FrameSizes
    <2>1. Last \in 1..Last /\ Published = Last - 1 /\ Last \in Nat  BY <1>0, <1>1, Counts
    <2>2. TypeOK  BY Parts
    <2>3. Start(Last) \in Nat  BY <2>1, <2>2, BlockFacts
    <2>4. /\ Words(Last) \in Nat \ {0} /\ Finish(Last) = Start(Last) + 1 + Words(Last)
          /\ hist[Last].size \in FrameSizes
      BY <2>1, <2>2, Facts, SMTT(30)
    <2> QED BY <2>1, <2>3, <2>4
  <1>3. x \in Start(Last)..Finish(Last) /\ w \in Word
    <2>1. w \in Word  BY <1>2, WordFacts
    <2>2. x \in Start(Last)..Finish(Last)
      <3>1. Start(Last) \in Nat /\ Words(Last) \in Nat
            /\ Finish(Last) = Start(Last) + 1 + Words(Last)
        BY <1>2
      <3> QED BY <3>1
    <2> QED BY <2>1, <2>2
  <1>4. x \in Index /\ ~Unread(x)  BY <1>0, <1>3, OwnBlock
  <1>5. p' \in [pc : {"idle", "wrap", "rejected", "data", "stop", "write", "size"},
                at : Index, size : FrameSizes \cup {0}, k : Nat]
        /\ p'.pc = "idle"
    BY <1>0, Parts DEF TypeOK
  <1>6. ~Busy' /\ Published' = Last  BY <1>0, <1>5 DEF Busy, Published, Last
  <1>7. /\ InFreeSpace' /\ Ordered' /\ Chained'
        /\ buf' \in [Index -> Word] /\ buf'[x] = w
        /\ \A i \in Index : i # x => buf'[i] = buf[i]
        /\ \A n \in Len(out) + 1 .. Published :
                 /\ buf'[Start(n)] = SizeWord(hist[n].size)
                 /\ \A k \in 1..Words(n) : buf'[Start(n) + k] = Data(n, k)
    <2>1. buf' = [buf EXCEPT ![x] = w]  BY <1>0, <1>1
    <2> HIDE DEF x, w
    <2> QED BY <2>1, <1>0, <1>3, <1>4, StoreElsewhere
  <1>8. TypeOK' /\ AnySizeIsTaken'
    BY <1>0, <1>5, <1>7, Parts DEF TypeOK, AnySizeIsTaken
  <1>9. IntactWords'
    <2> SUFFICES ASSUME NEW n \in Len(out) + 1 .. Last
                 PROVE  /\ buf'[Start(n)] = SizeWord(hist[n].size)
                        /\ \A k \in 1..Words(n) : buf'[Start(n) + k] = Data(n, k)
      BY <1>0, <1>6, SameHist DEF IntactWords
    <2>1. CASE n = Last
      <3>1. ASSUME NEW k \in 1..Words(Last)
            PROVE  buf'[Start(Last) + k] = Data(Last, k)
        <4>1. Start(Last) + k \in Start(Last)..Finish(Last) /\ Start(Last) + k # x
          BY <1>2
        <4>2. Start(Last) + k \in Index  BY <1>0, <4>1, OwnBlock
        <4> QED BY <4>1, <4>2, <1>1, <1>7
      <3> QED BY <2>1, <3>1, <1>7
    <2>2. CASE n # Last
      <3>1. n \in Len(out) + 1 .. Published  BY <2>2, <1>2, Counts
      <3> QED BY <3>1, <1>7
    <2> QED BY <2>1, <2>2
  <1>10. IntactFrames'
    <2>1. Len(out) <= Last  BY Counts
    <2> QED BY <2>1, <1>0, <1>6, Parts DEF IntactFrames, FrameOf
  <1>11. AtTail'
    <2>1. Finish(Last) \in Start(Last)..Finish(Last) /\ Finish(Last) # x  BY <1>2
    <2>2. Finish(Last) \in Index  BY <1>0, <2>1, OwnBlock
    <2>3. buf'[write] = Stop  BY <2>1, <2>2, <1>1, <1>7
    <2>4. Last' = Last /\ Finish(Last)' = Finish(Last) /\ Lap(Last)' = Lap(Last) /\ Len(out) # Last
      BY <1>0, <1>1, Counts DEF Last, Finish, End, Lap
    <2> QED BY <2>3, <2>4, <1>0, <1>1 DEF AtTail
  <1>12. Wrapping' /\ Building'  BY <1>5, <1>6 DEF Wrapping, Building
  <1>13. Reading'
    <2>1. Len(out) < Last  BY <1>1
    <2> QED BY <2>1, <1>0, <1>6, SameHist, Parts DEF Reading
  <1> QED BY <1>0, <1>7, <1>8, <1>9, <1>10, <1>11, <1>12, <1>13, SameHist, Parts DEF IInv, Layout

(* The wrap marker goes where the consumer is led to from the last block,  *)
(* and the first block of the next lap behind the read index.              *)
LEMMA WriteWrapStep ==
    ASSUME IInv, WriteWrap
    PROVE  IInv'
  <1>0. /\ p.pc = "wrap" /\ ~Busy
        /\ buf' = [buf EXCEPT ![write] = Wrap]
        /\ p' = [p EXCEPT !.pc = "data"]
        /\ hist' = Append(hist, [at |-> 0, size |-> p.size, lap |-> plap + 1])
        /\ plap' = plap + 1
        /\ UNCHANGED <<write, read, c, got, out, rlap>>
    BY DEF WriteWrap, Busy
  <1>1. /\ plap = rlap /\ total_size(p.size) < read
        /\ p.at = 0 /\ p.k = 1 /\ p.size \in FrameSizes
        /\ buf[0] = Stop /\ Last < MaxFrames
    BY <1>0, Parts DEF Wrapping
  <1> DEFINE b == p.size
  <1>2. /\ round_up_32(b) \in Nat \ {0} /\ round_up_32(b) + 2 < read
        /\ read \in Nat /\ read < Size /\ write \in Nat /\ write \in Index /\ rlap \in Nat
        /\ read <= write /\ 0 \in Index /\ write # 0
    <2>1. /\ round_up_32(b) \in Nat \ {0} /\ round_up_32(b) + 2 < read  BY <1>1, RoundUp
    <2>2. /\ read \in Nat /\ read < Size /\ write \in Nat /\ write \in Index /\ rlap \in Nat
          /\ 0 \in Index
      BY Parts, Facts DEF Index
    <2>3. read <= write  BY <1>0, <1>1, <2>2, SameLap
    <2> QED BY <2>1, <2>2, <2>3
  <1>3. p' \in [pc : {"idle", "wrap", "rejected", "data", "stop", "write", "size"},
                at : Index, size : FrameSizes \cup {0}, k : Nat]
        /\ p'.pc = "data" /\ p'.at = 0 /\ p'.size = b /\ p'.k = 1
    BY <1>0, <1>1, Parts DEF TypeOK
  <1>4. /\ buf' \in [Index -> Word] /\ buf'[write] = Wrap
        /\ \A i \in Index : i # write => buf'[i] = buf[i]
    BY <1>0, <1>2, WordFacts, Parts DEF TypeOK
  <1>5. /\ hist' \in Seq([at : Index, size : FrameSizes, lap : Nat])
        /\ Len(hist') = Len(hist) + 1 /\ Last' = Last + 1
        /\ \A n \in 1..Last : /\ Start(n)' = Start(n) /\ Finish(n)' = Finish(n)
                              /\ Lap(n)' = Lap(n) /\ Words(n)' = Words(n)
                              /\ hist'[n] = hist[n]
        /\ \A n : n = Last + 1 =>
              /\ hist'[n].size = b
              /\ Start(n)' = 0 /\ Lap(n)' = rlap + 1
              /\ Words(n)' = round_up_32(b) /\ Finish(n)' = 1 + round_up_32(b)
    <2>1. TypeOK BY Parts
    <2>2. /\ hist' = Append(hist, [at |-> 0, size |-> b, lap |-> rlap + 1])
          /\ b \in FrameSizes /\ rlap + 1 \in Nat /\ 0 \in Index
      BY <1>0, <1>1, <1>2
    <2> HIDE DEF b
    <2>3. /\ hist' \in Seq([at : Index, size : FrameSizes, lap : Nat])
          /\ Len(hist') = Len(hist) + 1 /\ Last' = Last + 1
      BY <2>1, <2>2, AppendBlock
    <2>4. \A n \in 1..Last : /\ Start(n)' = Start(n) /\ Finish(n)' = Finish(n)
                             /\ Lap(n)' = Lap(n) /\ Words(n)' = Words(n)
                             /\ hist'[n] = hist[n]
      BY <2>1, <2>2, AppendBlock
    <2>5. \A n : n = Last + 1 =>
              /\ hist'[n].size = b
              /\ Start(n)' = 0 /\ Lap(n)' = rlap + 1
              /\ Words(n)' = round_up_32(b)
      <3> DEFINE a == 0
                 l == rlap + 1
      <3>1. /\ hist' = Append(hist, [at |-> a, size |-> b, lap |-> l])
            /\ b \in FrameSizes /\ l \in Nat /\ a \in Index
        BY <2>2
      <3> HIDE DEF a, l
      <3>2. \A n : n = Last + 1 =>
              /\ hist'[n].size = b
              /\ Start(n)' = a /\ Lap(n)' = l
              /\ Words(n)' = round_up_32(b)
        BY <2>1, <3>1, AppendBlock
      <3> QED BY <3>2 DEF a, l
    <2>6. \A n : n = Last + 1 => Finish(n)' = 0 + 1 + round_up_32(b)
      BY <2>1, <2>2, AppendBlock
    <2> QED BY <2>3, <2>4, <2>5, <2>6, <1>2
  <1>6. /\ Busy' /\ Last \in Nat /\ Len(out) \in Nat /\ Len(out) <= Last
        /\ Published = Last /\ Published' = Last
        /\ Live = Len(out) + 1 .. Last
        /\ Live' = Len(out) + 1 .. Last + 1
    BY <1>0, <1>3, <1>5, Counts DEF Busy, Published, Last, Live
  <1>7. ASSUME NEW n \in Live
        PROVE  /\ Lap(n) = rlap /\ read <= Start(n) /\ Finish(n) <= write
               /\ Start(n) \in Nat /\ Words(n) \in Nat
               /\ Finish(n) = Start(n) + 1 + Words(n) /\ n \in 1..Last
    <2>1. n \in 1..Last  BY Counts
    <2> QED BY <2>1, <1>0, <1>1, OneLap, Parts, Facts
  <1>8. TypeOK' /\ AnySizeIsTaken'
    <2>1. plap' \in Nat  BY <1>0, <1>1, <1>2
    <2> QED BY <1>0, <1>3, <1>4, <1>5, <2>1, Parts DEF TypeOK, AnySizeIsTaken
  <1>9. IntactWords' /\ IntactFrames'
    <2>1. IntactWords'
      <3> SUFFICES ASSUME NEW n \in Len(out) + 1 .. Last
                   PROVE  (/\ buf[Start(n)] = SizeWord(hist[n].size)
                           /\ \A k \in 1..Words(n) : buf[Start(n) + k] = Data(n, k))'
        BY <1>0, <1>6 DEF IntactWords
      <3>1. n \in Live  BY <1>6
      <3>2. /\ buf[Start(n)] = SizeWord(hist[n].size)
            /\ \A k \in 1..Words(n) : buf[Start(n) + k] = Data(n, k)
        BY <1>6, Parts DEF IntactWords
      <3>3. Start(n) \in Index /\ Start(n) # write  BY <3>1, <1>2, <1>7 DEF Index
      <3>4. ASSUME NEW k \in 1..Words(n) PROVE Start(n) + k \in Index /\ Start(n) + k # write
        BY <3>1, <1>2, <1>7 DEF Index
      <3> QED BY <3>1, <3>2, <3>3, <3>4, <1>4, <1>5, <1>7
    <2>2. IntactFrames'
      <3> SUFFICES ASSUME NEW n \in 1..Len(out) PROVE out[n] = FrameOf(n)'
        BY <1>0, <1>6 DEF IntactFrames
      <3> QED BY <1>5, <1>6, Parts DEF IntactFrames, FrameOf
    <2> QED BY <2>1, <2>2
  <1>10. InFreeSpace'
    <2> SUFFICES ASSUME NEW n \in Len(out) + 1 .. Last + 1
                 PROVE  /\ Lap(n)' \in {rlap, rlap + 1}
                        /\ Finish(n)' <= Size - 2
                        /\ Lap(n)' = rlap => read <= Start(n)'
                        /\ Lap(n)' = rlap + 1 => Finish(n)' <= read - 2
      BY <1>0, <1>6 DEF InFreeSpace
    <2>1. CASE n \in 1..Last
      BY <2>1, <1>5, <1>6, Parts DEF InFreeSpace
    <2>2. CASE n = Last + 1
      BY <2>2, <1>2, <1>5
    <2> QED BY <2>1, <2>2, <1>6
  <1>11. Ordered'
    <2> SUFFICES ASSUME NEW m \in Len(out) + 1 .. Last + 1, NEW n \in Len(out) + 1 .. Last + 1,
                        m < n
                 PROVE  \/ Lap(m)' < Lap(n)'
                        \/ Lap(m)' = Lap(n)' /\ Finish(m)' <= Start(n)'
      BY <1>0, <1>6 DEF Ordered
    <2>1. CASE n \in 1..Last
      BY <2>1, <1>5, <1>6, Parts DEF Ordered
    <2>2. CASE n = Last + 1
      <3>1. m \in Live  BY <2>2, <1>6
      <3> QED BY <2>2, <3>1, <1>2, <1>5, <1>7
    <2> QED BY <2>1, <2>2, <1>6
  <1>12. Chained'
    <2>1. Len(out) < Last + 1 => Leads(read, rlap, Len(out) + 1)'
      <3> DEFINE n == Len(out) + 1
      <3>1. CASE n \in Live
        <4>1. Lap(n) = rlap /\ n \in 1..Last  BY <3>1, <1>7
        <4>2. Leads(read, rlap, n)  BY <3>1, <1>6, Parts DEF Chained
        <4>3. Start(n) = read  BY <4>1, <4>2, <1>2 DEF Leads
        <4> QED BY <4>1, <4>3, <1>0, <1>5 DEF Leads
      <3>2. CASE n = Last + 1
        <4>1. write = read  BY <3>2, <1>0, <1>6, Parts DEF AtTail
        <4> QED BY <4>1, <3>2, <1>0, <1>4, <1>5, <1>6 DEF Leads
      <3> QED BY <3>1, <3>2, <1>6
    <2>2. ASSUME NEW n \in Len(out) + 1 .. Last + 1, n < Last + 1
          PROVE  Leads(Finish(n), Lap(n), n + 1)'
      <3>1. n \in 1..Last /\ n \in Live  BY <2>2, <1>6
      <3>2. CASE n < Last
        <4>1. n + 1 \in 1..Last /\ n + 1 \in Live  BY <3>1, <3>2, <1>6
        <4>2. Leads(Finish(n), Lap(n), n + 1)  BY <3>1, <3>2, Parts DEF Chained
        <4>3. Lap(n + 1) = rlap /\ Lap(n) = rlap  BY <3>1, <4>1, <1>7
        <4>4. Start(n + 1) = Finish(n)  BY <4>2, <4>3, <1>2 DEF Leads
        <4> QED BY <3>1, <4>1, <4>3, <4>4, <1>5 DEF Leads
      <3>3. CASE n = Last
        <4>1. write = Finish(Last) /\ Lap(Last) = rlap
          BY <3>1, <3>3, <1>0, <1>1, <1>6, Parts DEF AtTail
        <4> QED BY <3>1, <3>3, <4>1, <1>4, <1>5 DEF Leads
      <3> QED BY <3>1, <3>2, <3>3, <1>6
    <2> QED BY <2>1, <2>2, <1>0, <1>5, <1>6 DEF Chained
  <1>13. AtTail' /\ Wrapping'  BY <1>3, <1>6 DEF AtTail, Wrapping
  <1>14. Building'
    <2>1. /\ Start(Last)' = 0 /\ Lap(Last)' = rlap + 1 /\ hist'[Last'].size = b
          /\ Words(Last)' = round_up_32(b)
      BY <1>5 DEF Start, Lap, Words
    <2>2. buf'[0] = Stop  BY <1>1, <1>2, <1>4
    <2>3. 1 \in 1..round_up_32(b) /\ \A k \in 1..round_up_32(b) : ~ (k < 1)  BY <1>2
    <2>4. Len(out)' < Last' /\ plap' = rlap + 1  BY <1>0, <1>1, <1>5, <1>6
    <2> QED BY <2>1, <2>2, <2>3, <2>4, <1>3 DEF Building
  <1>15. Reading'
    <2>1. CASE c.pc = "second"
      <3>1. Len(out) + 1 \in 1..Last  BY <2>1, <1>6, Parts DEF Reading
      <3> QED BY <3>1, <2>1, <1>0, <1>5, <1>6, Parts, SMTT(30) DEF Reading
    <2>2. CASE c.pc = "copy"
      <3>1. Len(out) + 1 \in 1..Last  BY <2>2, <1>6, Parts DEF Reading
      <3> QED BY <3>1, <2>2, <1>0, <1>5, <1>6, Parts DEF Reading
    <2>3. CASE c.pc \notin {"second", "copy"}
      BY <2>3, <1>0, Parts DEF Reading
    <2> QED BY <2>1, <2>2, <2>3
  <1>16. Last' <= MaxFrames  BY <1>1, <1>5, <1>6
  <1> QED BY <1>8, <1>9, <1>10, <1>11, <1>12, <1>13, <1>14, <1>15, <1>16 DEF IInv, Layout

-----------------------------------------------------------------------------
(* The consumer. *)

(* The word at the oldest block is its size, or STOP while it is written.  *)
LEMMA OldestStatus ==
    ASSUME IInv, Len(out) < Last, NEW n, n = Len(out) + 1
    PROVE  /\ n \in 1..Last /\ n \in Live /\ Start(n) \in Index
           /\ \/ buf[Start(n)] = Stop
              \/ /\ Len(out) < Published
                 /\ hist[n].size \in FrameSizes
                 /\ buf[Start(n)] = SizeWord(hist[n].size)
           /\ buf[Start(n)] # Wrap
  <1>1. n \in 1..Last /\ n \in Live  BY Counts
  <1>2. Start(n) \in Index /\ hist[n].size \in FrameSizes  BY <1>1, Parts, Facts DEF Index
  <1>3. CASE Busy /\ n = Last
    BY <1>1, <1>2, <1>3, Parts, WordFacts DEF Building
  <1>4. CASE ~(Busy /\ n = Last)
    <2>1. Len(out) < Published /\ n \in Len(out) + 1 .. Published  BY <1>1, <1>4, Counts
    <2>2. buf[Start(n)] = SizeWord(hist[n].size)  BY <2>1, Parts DEF IntactWords
    <2> QED BY <1>1, <1>2, <2>1, <2>2, WordFacts
  <1> QED BY <1>3, <1>4

(* With nothing to read, the word at the read index is STOP. *)
LEMMA EmptyStatus ==
    ASSUME IInv, buf[read] # Stop
    PROVE  Len(out) < Last
  <1>1. CASE Busy  BY <1>1, Parts DEF Building
  <1>2. CASE ~Busy
    <2>1. Len(out) = Last => buf[read] = Stop  BY <1>2, Parts DEF AtTail
    <2> QED BY <2>1, Counts
  <1> QED BY <1>1, <1>2

LEMMA ConsumerLocal ==
    ASSUME IInv, UNCHANGED <<buf, write, read, p, hist, out, plap, rlap>>,
           c' \in [pc : {"idle", "second", "copy", "lost"},
                   idx : Index, size : FrameSizes \cup {0}],
           c'.pc # "lost", got' \in Seq(Word), Reading'
    PROVE  IInv'
  <1>1. Busy' = Busy /\ Published' = Published  BY DEF Busy, Published
  <1>2. TypeOK' /\ AnySizeIsTaken' /\ IntactWords' /\ IntactFrames'
    <2>1. TypeOK'  BY <1>1, SameHist, Parts DEF TypeOK
    <2>2. AnySizeIsTaken'  BY <1>1, SameHist, Parts DEF AnySizeIsTaken
    <2>3. IntactWords'  BY <1>1, SameHist, Parts DEF IntactWords
    <2>4. IntactFrames'  BY <1>1, SameHist, Parts DEF IntactFrames, FrameOf
    <2> QED BY <2>1, <2>2, <2>3, <2>4
  <1>3. InFreeSpace' /\ Ordered' /\ Chained'
    BY SameHist, Parts DEF InFreeSpace, Ordered, Chained, Leads, Live
  <1>4. AtTail' /\ Wrapping'
    BY <1>1, SameHist, Parts DEF AtTail, Wrapping
  <1>5. Building'
    <2>1. /\ Last' = Last /\ Start(Last)' = Start(Last) /\ Words(Last)' = Words(Last)
          /\ Lap(Last)' = Lap(Last) /\ Finish(Last)' = Finish(Last)
      BY DEF Last, Start, Words, Lap, Finish, End
    <2> QED BY <1>1, <2>1, Parts DEF Building
  <1> QED BY <1>2, <1>3, <1>4, <1>5, SameHist, Parts DEF IInv, Layout

(* Taking the status of the oldest block, at either of the two reads. *)
LEMMA TakeOldest ==
    ASSUME IInv, c.pc # "copy", Len(out) < Last,
           NEW n, n = Len(out) + 1, NEW i, i = Start(n),
           c' = TakeStatus(i, buf[i]),
           UNCHANGED <<buf, write, read, p, got, hist, out, plap, rlap>>
    PROVE  IInv'
  <1>0. c \in [pc : {"idle", "second", "copy", "lost"}, idx : Index, size : FrameSizes \cup {0}]
        /\ got \in Seq(Word)
    BY Parts DEF TypeOK
  <1>1. got = <<>>  BY Parts DEF Reading
  <1>2. Published' = Published  BY DEF Published, Busy
  <1>3. CASE buf[i] = Stop
    <2>1. c' = [c EXCEPT !.pc = "idle"]  BY <1>3 DEF TakeStatus
    <2>2. Reading'  BY <1>0, <1>1, <2>1 DEF Reading
    <2> QED BY <1>0, <2>1, <2>2, ConsumerLocal
  <1>4. CASE buf[i] # Stop
    <2>1. /\ Len(out) < Published /\ hist[n].size \in FrameSizes /\ i \in Index /\ n \in 1..Last
          /\ buf[i] = SizeWord(hist[n].size)
      BY <1>4, OldestStatus
    <2>2. c' = [pc |-> "copy", idx |-> i, size |-> hist[n].size]
      BY <1>4, <2>1, WordFacts DEF TakeStatus
    <2>3. Words(n) \in Nat  BY <2>1, Parts, Facts
    <2>4. Reading'
      BY <1>1, <1>2, <2>1, <2>2, <2>3, SameHist DEF Reading
    <2>5. c' \in [pc : {"idle", "second", "copy", "lost"}, idx : Index, size : FrameSizes \cup {0}]
      BY <2>1, <2>2
    <2> QED BY <1>0, <2>2, <2>4, <2>5, ConsumerLocal
  <1> QED BY <1>3, <1>4

LEMMA ReadStatusStep ==
    ASSUME IInv, ReadStatus
    PROVE  IInv'
  <1> DEFINE n == Len(out) + 1
  <1>0. /\ c.pc = "idle" /\ buf[read] # Stop /\ buf[read] # Wrap
        /\ c' = TakeStatus(read, buf[read])
        /\ UNCHANGED <<buf, write, read, p, got, hist, out, plap, rlap>>
    BY DEF ReadStatus, ring
  <1>1. Len(out) < Last  BY <1>0, EmptyStatus
  <1>2. read = Start(n)  BY <1>0, <1>1, Parts DEF Chained, Leads
  <1> HIDE DEF n
  <1> QED BY <1>0, <1>1, <1>2, TakeOldest DEF n

LEMMA ReadSecondStep ==
    ASSUME IInv, ReadSecond
    PROVE  IInv'
  <1> DEFINE n == Len(out) + 1
  <1>0. /\ c.pc = "second"
        /\ c' = TakeStatus(0, buf[0])
        /\ UNCHANGED <<buf, write, read, p, got, hist, out, plap, rlap>>
    BY DEF ReadSecond, ring
  <1>1. Len(out) < Last /\ 0 = Start(n)  BY <1>0, Parts DEF Reading
  <1> HIDE DEF n
  <1> QED BY <1>0, <1>1, TakeOldest DEF n

LEMMA ReadWrapStep ==
    ASSUME IInv, ReadWrap
    PROVE  IInv'
  <1> DEFINE d == Len(out) + 1
  <1>0. /\ c.pc = "idle" /\ buf[read] = Wrap
        /\ c' = [c EXCEPT !.pc = "second"]
        /\ read' = IF EagerWrap THEN 0 ELSE read
        /\ rlap' = IF EagerWrap THEN rlap + 1 ELSE rlap
        /\ UNCHANGED <<buf, write, p, got, hist, out, plap>>
    BY DEF ReadWrap
  <1>1. Len(out) < Last  BY <1>0, EmptyStatus, WordFacts
  <1>2. d \in 1..Last /\ d \in Live /\ buf[Start(d)] # Wrap
    <2> HIDE DEF d
    <2> QED BY <1>1, OldestStatus DEF d
  <1>3. Lap(d) = rlap + 1 /\ Start(d) = 0
    BY <1>0, <1>1, <1>2, Parts DEF Chained, Leads
  <1>4. /\ c' \in [pc : {"idle", "second", "copy", "lost"}, idx : Index, size : FrameSizes \cup {0}]
        /\ c'.pc = "second" /\ got = <<>> /\ got \in Seq(Word)
    BY <1>0, Parts DEF TypeOK, Reading
  <1>5. Published' = Published /\ Busy' = Busy  BY <1>0 DEF Published, Busy
  <1>6. CASE ~EagerWrap
    <2>1. UNCHANGED <<buf, write, read, p, hist, out, plap, rlap>> /\ got' \in Seq(Word)
      BY <1>0, <1>4, <1>6
    <2>2. Reading'
      BY <1>0, <1>1, <1>3, <1>4, <1>6, SameHist DEF Reading
    <2> QED BY <1>4, <2>1, <2>2, ConsumerLocal
  <1>7. CASE EagerWrap
    <2>0. read' = 0 /\ rlap' = rlap + 1 /\ rlap \in Nat /\ 0 \in Index
      BY <1>0, <1>7, Parts, Facts DEF Index
    <2>1. ASSUME NEW n \in Live PROVE Lap(n) = rlap + 1 /\ n \in 1..Last
      <3>1. n = d \/ d < n  BY Counts
      <3>2. n \in 1..Last  BY Counts
      <3>3. n = d \/ Lap(d) < Lap(n) \/ Lap(d) = Lap(n)
        <4> HIDE DEF d
        <4> QED BY <3>1, <1>2, Parts DEF Ordered
      <3>4. Lap(n) \in {rlap, rlap + 1} /\ Lap(n) \in Nat  BY <3>2, Parts, Facts DEF InFreeSpace
      <3> QED BY <3>2, <3>3, <3>4, <1>3, <2>0
    <2>2. TypeOK' /\ AnySizeIsTaken' /\ IntactWords' /\ IntactFrames'
      <3>1. TypeOK'  BY <1>0, <1>4, <2>0, Parts DEF TypeOK
      <3>2. AnySizeIsTaken' /\ IntactWords' /\ IntactFrames'
        BY <1>0, <1>4, <1>5, SameHist, Parts
           DEF AnySizeIsTaken, IntactWords, IntactFrames, FrameOf
      <3> QED BY <3>1, <3>2
    <2>3. InFreeSpace'
      <3> SUFFICES ASSUME NEW n \in Live
                   PROVE  /\ Lap(n) \in {rlap + 1, rlap + 1 + 1}
                          /\ Finish(n) <= Size - 2
                          /\ 0 <= Start(n)
                          /\ Lap(n) # rlap + 1 + 1
        BY <1>0, <2>0, SameHist DEF InFreeSpace, Live
      <3>1. Start(n) \in Nat  BY <2>1, Parts, Facts
      <3> QED BY <2>0, <2>1, <3>1, Parts DEF InFreeSpace
    <2>4. Ordered'  BY <1>0, SameHist, Parts DEF Ordered, Live
    <2>5. Chained'
      <3>1. Leads(read, rlap, d)'
        BY <1>0, <1>3, <2>0, SameHist DEF Leads
      <3>2. \A n \in Live : n < Last => Leads(Finish(n), Lap(n), n + 1)'
        BY <1>0, SameHist, Parts DEF Chained, Leads
      <3> QED BY <1>0, <3>1, <3>2, SameHist DEF Chained, Live
    <2>6. AtTail'  BY <1>0, <1>1, <1>5, SameHist, Counts, Parts DEF AtTail
    <2>7. Wrapping'
      <3>1. p.pc # "wrap"
        <4> SUFFICES ASSUME p.pc = "wrap" PROVE FALSE  OBVIOUS
        <4>1. ~Busy /\ plap = rlap  BY Parts DEF Busy, Wrapping
        <4> QED BY <4>1, <1>2, <1>3, <2>0, OneLap
      <3> QED BY <3>1, <1>0 DEF Wrapping
    <2>8. Building'
      <3>1. /\ Last' = Last /\ Start(Last)' = Start(Last) /\ Words(Last)' = Words(Last)
            /\ Lap(Last)' = Lap(Last) /\ Finish(Last)' = Finish(Last)
        BY <1>0 DEF Last, Start, Words, Lap, Finish, End
      <3> QED BY <1>0, <1>5, <3>1, Parts DEF Building
    <2>9. Reading'
      BY <1>0, <1>1, <1>3, <1>4, <2>0, SameHist DEF Reading
    <2> QED BY <1>0, <2>2, <2>3, <2>4, <2>5, <2>6, <2>7, <2>8, <2>9, SameHist, Parts DEF IInv, Layout
  <1> QED BY <1>6, <1>7

LEMMA CopyWordStep ==
    ASSUME IInv, CopyWord
    PROVE  IInv'
  <1> DEFINE d == Len(out) + 1
             g == Len(got) + 1
  <1>0. /\ c.pc = "copy" /\ Len(got) < round_up_32(c.size)
        /\ got' = Append(got, buf[c.idx + Len(got) + 1])
        /\ UNCHANGED <<buf, write, read, p, c, hist, out, plap, rlap>>
    BY DEF CopyWord, ring
  <1>1. /\ Len(out) < Published /\ c.idx = Start(d) /\ c.size = hist[d].size
        /\ \A k \in 1..Len(got) : got[k] = Data(d, k)
    BY <1>0, Parts DEF Reading
  <1>2. /\ d \in 1..Last /\ d \in 1..MaxFrames /\ d \in Len(out) + 1 .. Published
        /\ Words(d) = round_up_32(c.size)
    BY <1>1, Counts, Parts DEF Words
  <1>3. Len(got) \in Nat /\ Words(d) \in Nat /\ got \in Seq(Word) /\ Start(d) \in Nat
    BY <1>2, Parts, Facts DEF TypeOK
  <1>4. g \in 1..Words(d) /\ c.idx + Len(got) + 1 = Start(d) + g  BY <1>0, <1>1, <1>2, <1>3
  <1>5. buf[Start(d) + g] = Data(d, g) /\ Data(d, g) \in Word
    <2>1. \A k \in 1..Words(d) : buf[Start(d) + k] = Data(d, k)
      <3> HIDE DEF d
      <3> QED BY <1>2, Parts DEF IntactWords
    <2> QED BY <2>1, <1>2, <1>3, <1>4, WordFacts
  <1>6. /\ got' \in Seq(Word) /\ Len(got') = Len(got) + 1
        /\ \A k \in 1..Len(got) : got'[k] = got[k]
        /\ got'[Len(got) + 1] = Data(d, g)
    <2>1. got' = Append(got, Data(d, g))  BY <1>0, <1>4, <1>5
    <2> QED BY <2>1, <1>3, <1>5, AppendProperties
  <1>7. \A k \in 1..Len(got') : got'[k] = Data(d, k)
    BY <1>1, <1>3, <1>6
  <1>8. Reading'
    <2>1. Published' = Published  BY <1>0 DEF Published, Busy
    <2>2. Len(got') <= Words(d)  BY <1>3, <1>4, <1>6
    <2> QED BY <1>0, <1>1, <1>7, <2>1, <2>2, SameHist DEF Reading
  <1>9. c' \in [pc : {"idle", "second", "copy", "lost"}, idx : Index, size : FrameSizes \cup {0}]
        /\ c'.pc # "lost"
    BY <1>0, Parts DEF TypeOK
  <1> QED BY <1>0, <1>6, <1>8, <1>9, ConsumerLocal

(* The read index moves to the end of the oldest block, and with it the    *)
(* free space: the frame did fit, so that all of the block is skipped.     *)
LEMMA StoreReadFacts ==
    ASSUME IInv, StoreRead, NEW d, d = Len(out) + 1
    PROVE  /\ c.pc = "copy" /\ d \in 1..Last /\ d \in Live /\ d <= Published
           /\ read' = Finish(d) /\ rlap' = Lap(d)
           /\ out' = Append(out, FrameOf(d)) /\ Len(out') = d
           /\ FrameOf(d) \in [size : FrameSizes, data : Seq(Word)]
           /\ out' \in Seq([size : FrameSizes, data : Seq(Word)])
           /\ \A n \in 1..Len(out) : out'[n] = out[n]
           /\ out'[d] = FrameOf(d)
           /\ got' = <<>> /\ c' = [c EXCEPT !.pc = "idle"]
           /\ UNCHANGED <<buf, write, p, hist, plap>>
  <1>0. /\ c.pc = "copy" /\ Len(got) = round_up_32(c.size)
        /\ read' = c.idx + 1 + round_up_32(c.size)
        /\ rlap' = hist[d].lap
        /\ out' = Append(out, [size |-> c.size, data |-> got])
        /\ got' = <<>> /\ c' = [c EXCEPT !.pc = "idle"]
        /\ UNCHANGED <<buf, write, p, hist, plap>>
    BY DEF StoreRead
  <1>1. /\ Len(out) < Published /\ c.idx = Start(d) /\ c.size = hist[d].size
        /\ \A k \in 1..Len(got) : got[k] = Data(d, k)
    BY <1>0, Parts DEF Reading
  <1>2. d \in 1..Last /\ d \in Live /\ d <= Published /\ d \in 1..MaxFrames
    BY <1>1, Counts, Parts
  <1>3. c.size \in FrameSizes /\ Words(d) = round_up_32(c.size) /\ Words(d) \in Nat
    BY <1>1, <1>2, Parts, Facts DEF Words
  <1>5. read' = Finish(d) /\ rlap' = Lap(d)
    BY <1>0, <1>1 DEF Finish, End, Start, Lap
  <1>6. [size |-> c.size, data |-> got] = FrameOf(d)
    <2>1. got \in Seq(Word) /\ Len(got) = Words(d)  BY <1>0, <1>3, Parts DEF TypeOK
    <2>2. got = [k \in 1..Words(d) |-> Data(d, k)]
      BY <2>1, <1>1, <1>3
    <2> QED BY <2>2, <1>1 DEF FrameOf, Words
  <1>7. FrameOf(d) \in [size : FrameSizes, data : Seq(Word)]
    <2>1. got \in Seq(Word)  BY Parts DEF TypeOK
    <2> QED BY <1>3, <1>6, <2>1
  <1>8. /\ out' \in Seq([size : FrameSizes, data : Seq(Word)]) /\ Len(out') = d
        /\ \A n \in 1..Len(out) : out'[n] = out[n]
        /\ out'[d] = FrameOf(d)
    <2> DEFINE S == [size : FrameSizes, data : Seq(Word)]
               e == FrameOf(d)
    <2>1. out \in Seq(S) /\ e \in S /\ out' = Append(out, e)
      BY <1>0, <1>6, <1>7, Parts DEF TypeOK
    <2> HIDE DEF S, e
    <2>2. /\ out' \in Seq(S) /\ Len(out') = d
          /\ \A n \in 1..Len(out) : out'[n] = out[n]
          /\ out'[d] = e
      BY <2>1, AppendProperties
    <2> QED BY <2>2 DEF S, e
  <1> QED BY <1>0, <1>2, <1>5, <1>6, <1>7, <1>8

LEMMA StoreReadStep ==
    ASSUME IInv, StoreRead
    PROVE  IInv'
  <1> DEFINE d == Len(out) + 1
  <1>0. /\ c.pc = "copy" /\ d \in 1..Last /\ d \in Live /\ d <= Published
        /\ read' = Finish(d) /\ rlap' = Lap(d) /\ Len(out') = d
        /\ out' \in Seq([size : FrameSizes, data : Seq(Word)])
        /\ \A n \in 1..Len(out) : out'[n] = out[n]
        /\ out'[d] = FrameOf(d)
        /\ got' = <<>> /\ c' = [c EXCEPT !.pc = "idle"]
        /\ UNCHANGED <<buf, write, p, hist, plap>>
    BY StoreReadFacts
  <1>1. /\ Last' = Last /\ Published' = Published /\ Busy' = Busy
        /\ Live' = Len(out) + 2 .. Last /\ Live = Len(out) + 1 .. Last
        /\ Len(out) \in Nat /\ Last \in Nat /\ Published \in Int /\ Published <= Last
    BY <1>0, SameHist, Counts DEF Published, Busy, Live
  <1>2. \A n : /\ Start(n)' = Start(n) /\ Finish(n)' = Finish(n)
               /\ Lap(n)' = Lap(n) /\ Words(n)' = Words(n)
    BY <1>0, SameHist
  <1>3. /\ Start(d) \in Nat /\ Finish(d) \in Nat /\ Start(d) < Finish(d) /\ Lap(d) \in Nat
        /\ Finish(d) \in Index /\ read \in Nat /\ rlap \in Nat
        /\ Lap(d) \in {rlap, rlap + 1} /\ (Lap(d) = rlap => read <= Start(d))
    <2>1. /\ Finish(d) <= Size - 2 /\ Lap(d) \in {rlap, rlap + 1}
          /\ (Lap(d) = rlap => read <= Start(d))
      BY <1>0, Parts DEF InFreeSpace
    <2>2. /\ Start(d) \in Nat /\ Finish(d) \in Nat /\ Start(d) < Finish(d) /\ Lap(d) \in Nat
      <3>1. TypeOK /\ d \in 1..Last  BY <1>0, Parts
      <3> QED BY <3>1, BlockFacts
    <2> QED BY <2>1, <2>2, Parts, Facts DEF Index
  <1>4. TypeOK' /\ AnySizeIsTaken'
    <2>1. c' \in [pc : {"idle", "second", "copy", "lost"}, idx : Index, size : FrameSizes \cup {0}]
          /\ c'.pc # "lost"
      BY <1>0, Parts DEF TypeOK
    <2>2. got' \in Seq(Word)  BY <1>0
    <2> QED BY <1>0, <1>3, <2>1, <2>2, Parts DEF TypeOK, AnySizeIsTaken
  <1>5. IntactWords'
    <2> SUFFICES ASSUME NEW n \in Len(out) + 2 .. Published
                 PROVE  /\ buf[Start(n)] = SizeWord(hist[n].size)
                        /\ \A k \in 1..Words(n) : buf[Start(n) + k] = Data(n, k)
      BY <1>0, <1>1, <1>2 DEF IntactWords
    <2>1. n \in Len(out) + 1 .. Published  BY <1>1
    <2> QED BY <2>1, Parts DEF IntactWords
  <1>6. IntactFrames'
    <2> SUFFICES ASSUME NEW n \in 1..d PROVE out'[n] = FrameOf(n)
      BY <1>0, <1>1 DEF IntactFrames, FrameOf
    <2>1. CASE n = d  BY <2>1, <1>0
    <2>2. CASE n \in 1..Len(out)  BY <2>2, <1>0, Parts DEF IntactFrames
    <2> QED BY <2>1, <2>2, <1>1
  <1>7. ASSUME NEW n \in Len(out) + 2 .. Last
        PROVE  /\ n \in Live /\ n \in 1..Last
               /\ \/ Lap(d) < Lap(n)
                  \/ Lap(d) = Lap(n) /\ Finish(d) <= Start(n)
    <2>1. n \in Live /\ n \in 1..Last /\ d < n  BY <1>1
    <2> HIDE DEF d
    <2> QED BY <2>1, <1>0, Parts DEF Ordered
  <1>8. InFreeSpace'
    <2> SUFFICES ASSUME NEW n \in Len(out) + 2 .. Last
                 PROVE  /\ Lap(n) \in {Lap(d), Lap(d) + 1}
                        /\ Finish(n) <= Size - 2
                        /\ Lap(n) = Lap(d) => Finish(d) <= Start(n)
                        /\ Lap(n) = Lap(d) + 1 => Finish(n) <= Finish(d) - 2
      BY <1>0, <1>1, <1>2 DEF InFreeSpace
    <2>1. /\ Lap(n) \in {rlap, rlap + 1} /\ Finish(n) <= Size - 2
          /\ Lap(n) = rlap + 1 => Finish(n) <= read - 2
      BY <1>7, Parts DEF InFreeSpace
    <2>2. Start(n) \in Nat /\ Finish(n) \in Nat /\ Lap(n) \in Nat  BY <1>7, Parts, BlockFacts
    <2> QED BY <2>1, <2>2, <1>3, <1>7, SMTT(30)
  <1>9. Ordered'
    <2> SUFFICES ASSUME NEW m \in Len(out) + 2 .. Last, NEW n \in Len(out) + 2 .. Last, m < n
                 PROVE  \/ Lap(m) < Lap(n)
                        \/ Lap(m) = Lap(n) /\ Finish(m) <= Start(n)
      BY <1>1, <1>2 DEF Ordered
    <2> QED BY <1>7, Parts DEF Ordered
  <1>10. Chained'
    <2>1. \A n \in Live : n < Last => Leads(Finish(n), Lap(n), n + 1)'
      BY <1>0, <1>2, Parts DEF Chained, Leads
    <2>2. d < Last => Leads(Finish(d), Lap(d), d + 1)
      <3> HIDE DEF d
      <3> QED BY <1>0, Parts DEF Chained
    <2>3. d < Last => Leads(read, rlap, Len(out) + 1)'
      BY <2>2, <1>0 DEF Leads, Start, Lap
    <2>4. \A n \in Len(out) + 2 .. Last : n \in Live  BY <1>1
    <2> QED BY <2>1, <2>3, <2>4, <1>0, <1>1 DEF Chained
  <1>11. AtTail'
    <2> SUFFICES ASSUME ~Busy
                 PROVE  /\ buf[write] = Stop
                        /\ write = Finish(Last) /\ plap = Lap(Last)
      BY <1>0, <1>1, <1>2 DEF AtTail
    <2> QED BY <1>0, <1>1, Parts DEF AtTail
  <1>12. Wrapping'
    <2> SUFFICES ASSUME p.pc = "wrap"
                 PROVE  plap = Lap(d) /\ total_size(p.size) < Finish(d)
      BY <1>0, <1>1, Parts DEF Wrapping
    <2>1. ~Busy /\ plap = rlap /\ total_size(p.size) < read /\ p.size \in FrameSizes
      BY Parts DEF Busy, Wrapping
    <2>2. Lap(d) = rlap  BY <2>1, <1>0, OneLap
    <2>3. total_size(p.size) \in Int
      <3>1. \A b \in FrameSizes : total_size(b) \in Int
        BY DEF total_size, round_up_32
      <3> QED BY <2>1, <3>1
    <2> QED BY <2>1, <2>2, <2>3, <1>3
  <1>13. Building'
    <2>1. Busy => d < Last  BY <1>0, Counts
    <2>2. /\ Start(Last)' = Start(Last) /\ Words(Last)' = Words(Last)
          /\ Lap(Last)' = Lap(Last) /\ Finish(Last)' = Finish(Last)
      BY <1>0 DEF Last, Start, Words, Lap, Finish, End
    <2> QED BY <1>0, <1>1, <2>1, <2>2, Parts DEF Building
  <1>14. Reading'
    <2>1. c'.pc = "idle"  BY <1>0, Parts DEF TypeOK
    <2> QED BY <2>1, <1>0 DEF Reading
  <1> QED BY <1>1, <1>4, <1>5, <1>6, <1>8, <1>9, <1>10, <1>11, <1>12, <1>13, <1>14, Parts
          DEF IInv, Layout

-----------------------------------------------------------------------------
(* Each step of the producer and of the consumer keeps the layout. *)
LEMMA NextIInv ==
    ASSUME IInv, [Next]_vars
    PROVE  IInv' \/ DropFrame
  <1>1. ASSUME NEW b \in FrameSizes, AllocEnd(b) PROVE IInv'  BY <1>1, AllocEndStep
  <1>2. ASSUME NEW b \in FrameSizes, AllocStart(b) PROVE IInv'  BY <1>2, AllocStartStep
  <1>3. ASSUME (\E b \in FrameSizes : Reject(b)) \/ ReturnRejected PROVE IInv'
    BY <1>3, RejectStep
  <1>4. CASE WriteWrap  BY <1>4, WriteWrapStep
  <1>5. CASE WriteData  BY <1>5, WriteDataStep
  <1>6. CASE WriteStop  BY <1>6, WriteStopStep
  <1>7. CASE StoreWrite  BY <1>7, StoreWriteStep
  <1>8. CASE Publish  BY <1>8, PublishStep
  <1>9. CASE ReadStatus  BY <1>9, ReadStatusStep
  <1>10. CASE ReadWrap  BY <1>10, ReadWrapStep
  <1>11. CASE ReadSecond  BY <1>11, ReadSecondStep
  <1>12. CASE CopyWord  BY <1>12, CopyWordStep
  <1>13. CASE StoreRead  BY <1>13, StoreReadStep
  <1>14. CASE UNCHANGED vars
    <2>1. UNCHANGED <<buf, write, read, p, c, got, hist, out, plap, rlap>>  BY <1>14 DEF vars
    <2>2. Reading' /\ c' \in [pc : {"idle", "second", "copy", "lost"},
                              idx : Index, size : FrameSizes \cup {0}]
          /\ c'.pc # "lost" /\ got' \in Seq(Word)
      BY <2>1, SameHist, Parts DEF Reading, Published, Busy, TypeOK, AnySizeIsTaken
    <2> QED BY <2>1, <2>2, ConsumerLocal
  <1> QED BY <1>1, <1>2, <1>3, <1>4, <1>5, <1>6, <1>7, <1>8, <1>9, <1>10, <1>11, <1>12,
             <1>13, <1>14 DEF Next, Producer, Consumer

(* No other action forgets that a frame was dropped, or says that one was. *)
LEMMA DroppedStep ==
    ASSUME [Next]_vars
    PROVE  dropped' = dropped \/ DropFrame
  <1>1. ASSUME NEW b \in FrameSizes, AllocEnd(b) \/ AllocStart(b) \/ Reject(b)
        PROVE  dropped' = dropped
    BY <1>1 DEF AllocEnd, AllocStart, Reject
  <1>2. CASE ReturnRejected \/ WriteWrap \/ WriteData \/ WriteStop \/ StoreWrite \/ Publish
    BY <1>2 DEF ReturnRejected, WriteWrap, WriteData, WriteStop, StoreWrite, Publish
  <1>3. CASE ReadStatus \/ ReadWrap \/ ReadSecond \/ CopyWord \/ StoreRead
    BY <1>3 DEF ReadStatus, ReadWrap, ReadSecond, CopyWord, StoreRead
  <1>4. CASE UNCHANGED vars  BY <1>4 DEF vars
  <1> QED BY <1>1, <1>2, <1>3, <1>4 DEF Next, Producer, Consumer

LEMMA NextSound ==
    ASSUME Sound, [Next]_vars
    PROVE  Sound'
  <1>1. CASE DropFrame
    <2>1. dropped' = TRUE  BY <1>1 DEF DropFrame
    <2> QED BY <2>1 DEF Sound
  <1>2. CASE ~DropFrame
    <2>1. dropped' = dropped  BY <1>2, DroppedStep
    <2>2. CASE dropped  BY <2>1, <2>2 DEF Sound
    <2>3. CASE ~dropped
      <3>1. IInv  BY <2>3 DEF Sound
      <3>2. IInv'  BY <1>2, <3>1, NextIInv
      <3> QED BY <2>1, <2>3, <3>2 DEF Sound
    <2> QED BY <2>2, <2>3
  <1> QED BY <1>1, <1>2

(* The layout of the ring is an invariant until a frame is dropped,        *)
(* whatever the buffer size and the sizes of the frames.                   *)
THEOREM LayoutInvariant == Spec => []Sound
  <1>1. Init => Sound  BY InitIInv DEF Init, Sound
  <1>2. Sound /\ [Next]_vars => Sound'  BY NextSound
  <1> QED BY <1>1, <1>2, PTL DEF Spec

(* Neither consumer (Wifi_TxArm9QueueFlush, Wifi_NTR_Update) takes frame   *)
(* data or a stale word for the size of a frame unless the ARM7 has        *)
(* dropped a frame that was too big for MAC RAM.                           *)
THEOREM NeverLost == Spec => []StatusWordsOnly
  <1>1. Sound => StatusWordsOnly  BY Parts DEF Sound, StatusWordsOnly, AnySizeIsTaken
  <1> QED BY <1>1, LayoutInvariant, PTL

(* Until then the allocators never hand out words of an unread frame.      *)
THEOREM UnreadNeverOverwritten == Spec => []UnreadIntact
  <1>1. Sound => UnreadIntact  BY Parts DEF Sound, UnreadIntact, IntactWords
  <1> QED BY <1>1, LayoutInvariant, PTL

(* Until then frames come out complete, once, and in the order they were   *)
(* written.                                                                *)
THEOREM InOrder == Spec => []InOrderIntact
  <1>1. Sound => InOrderIntact  BY Parts DEF Sound, InOrderIntact, IntactFrames
  <1> QED BY <1>1, LayoutInvariant, PTL

(* A drained queue takes any frame below half of the buffer.               *)
THEOREM DrainedNeverRejects == Spec => DrainedAccepts
  <1>1. ASSUME Sound, [Next]_vars
        PROVE  [\A b \in FrameSizes :
                  Reject(b) => dropped \/ Len(out) < Len(hist)
                                       \/ 2 * total_size(b) >= Size]_vars
    <2> SUFFICES ASSUME NEW b \in FrameSizes, Reject(b), ~dropped
                 PROVE  Len(out) < Len(hist) \/ 2 * total_size(b) >= Size
      OBVIOUS
    <2>0. IInv  BY <1>1 DEF Sound
    <2>1. ~Busy /\ AllocBuffer(total_size(b)) = "none"  BY DEF Reject, Busy
    <2>2. read # write \/ 2 * total_size(b) >= Size  BY <2>0, <2>1, AllocCases
    <2>3. Len(out) = Last => read = write  BY <2>0, <2>1, Parts DEF AtTail
    <2> QED BY <2>0, <2>2, <2>3, Counts DEF Last
  <1> QED BY <1>1, LayoutInvariant, PTL DEF Spec, DrainedAccepts

-----------------------------------------------------------------------------
(* Refinement: the ring implements FrameQueue. *)

Sent == [n \in 1..Published |-> FrameOf(n)]
Frame == [size : FrameSizes, data : Seq(Word)]

LEMMA FrameTyped ==
    ASSUME IInv, NEW n \in 1..Last
    PROVE  FrameOf(n) \in Frame
  <1>1. hist[n].size \in FrameSizes /\ n \in 1..MaxFrames /\ Words(n) \in Nat
    BY Parts, Facts
  <1>2. \A k \in 1..Words(n) : Data(n, k) \in Word  BY <1>1, WordFacts
  <1>3. [k \in 1..Words(n) |-> Data(n, k)] \in Seq(Word)  BY <1>1, <1>2
  <1> QED BY <1>1, <1>3 DEF FrameOf, Frame, Words

SentOK == /\ Published \in Nat /\ Sent \in Seq(Frame) /\ Len(Sent) = Published
          /\ \A n \in 1..Published : Sent[n] = FrameOf(n)

LEMMA SentFacts == IInv => SentOK
  <1> SUFFICES ASSUME IInv PROVE SentOK  OBVIOUS
  <1>1. Published \in Nat /\ \A n \in 1..Published : n \in 1..Last  BY Counts
  <1>2. \A n \in 1..Published : FrameOf(n) \in Frame  BY <1>1, FrameTyped
  <1>3. Sent \in Seq(Frame) /\ Len(Sent) = Published  BY <1>1, <1>2 DEF Sent
  <1> QED BY <1>1, <1>3 DEF Sent, SentOK

(* A step that only adds a block, or none, changes neither queue. *)
LEMMA QueueStutters ==
    ASSUME IInv, Published' = Published, out' = out,
           \A n \in 1..Last : hist'[n] = hist[n]
    PROVE  Sent' = Sent /\ out' = out
  <1>1. \A n \in 1..Published : FrameOf(n)' = FrameOf(n)
    <2>1. \A n \in 1..Published : n \in 1..Last  BY Counts
    <2> QED BY <2>1 DEF FrameOf
  <1> QED BY <1>1 DEF Sent

(* Publish, the store of the size word, is where a frame enters the queue. *)
LEMMA PublishPuts ==
    ASSUME IInv, IInv', Publish
    PROVE  /\ Sent' \in Seq(Frame) /\ Len(Sent') = Len(Sent) + 1
           /\ \A n \in 1..Len(Sent) : Sent'[n] = Sent[n]
           /\ out' = out
  <1>1. p'.pc = "idle" /\ p.pc = "size" /\ hist' = hist /\ out' = out
    BY Parts DEF Publish, TypeOK
  <1>2. Published = Len(hist) - 1 /\ Published' = Len(hist) /\ Len(hist) \in Nat
    BY <1>1, Counts DEF Published, Busy, Last
  <1>3. /\ Published \in Nat /\ Len(Sent) = Published
        /\ \A n \in 1..Published : Sent[n] = FrameOf(n)
    BY SentFacts DEF SentOK
  <1>4. Published' = Published + 1  BY <1>2
  <1>5. /\ Sent' \in Seq(Frame) /\ Len(Sent') = Published'
        /\ \A n \in 1..Published' : Sent'[n] = FrameOf(n)'
    <2>1. SentOK'  BY SentFacts, PTL
    <2> QED BY <2>1 DEF SentOK
  <1>6. \A n : FrameOf(n)' = FrameOf(n)  BY <1>1 DEF FrameOf
  <1> QED BY <1>1, <1>3, <1>4, <1>5, <1>6

(* StoreRead, the store of the read index, is where it leaves.             *)
LEMMA StoreReadGets ==
    ASSUME IInv, StoreRead
    PROVE  /\ Len(out) < Len(Sent)
           /\ out' = Append(out, Sent[Len(out) + 1])
           /\ Sent' = Sent
  <1> DEFINE d == Len(out) + 1
  <1>1. /\ d <= Published /\ out' = Append(out, FrameOf(d)) /\ hist' = hist /\ p' = p
    BY StoreReadFacts
  <1>2. Len(Sent) = Published /\ \A n \in 1..Published : Sent[n] = FrameOf(n)
    BY SentFacts DEF SentOK
  <1>3. Len(out) \in Nat /\ Published \in Int  BY Counts
  <1>4. d \in 1..Published  BY <1>1, <1>3
  <1>5. Sent' = Sent  BY <1>1 DEF Sent, Published, Busy, FrameOf
  <1> QED BY <1>1, <1>2, <1>3, <1>4, <1>5

(* DropFrame, the only way to break the queue: the oldest frame is bigger  *)
(* than what the consumer copies.                                          *)
LEMMA DropBreaks ==
    ASSUME IInv, DropFrame
    PROVE  /\ Len(out) < Len(Sent)
           /\ Sent[Len(out) + 1] \in
                 [size : {b \in FrameSizes : b > CopyLimit}, data : Seq(Word)]
           /\ Sent' = Sent /\ out' = out
  <1> DEFINE d == Len(out) + 1
  <1>1. c.pc = "copy" /\ ~Fits /\ hist' = hist /\ p' = p /\ out' = out  BY DEF DropFrame
  <1>2. Len(out) < Published /\ c.size = hist[d].size  BY <1>1, Parts DEF Reading
  <1>3. Len(Sent) = Published /\ \A n \in 1..Published : Sent[n] = FrameOf(n)
    BY SentFacts DEF SentOK
  <1>4. Len(out) \in Nat /\ Published \in Int  BY Counts
  <1>5. d \in 1..Published /\ d \in 1..Last  BY <1>2, <1>4, Counts
  <1>6. hist[d].size \in FrameSizes  BY <1>5, Parts, Facts
  <1>7. hist[d].size > CopyLimit
    <2>1. ~(c.size <= CopyLimit)  BY <1>1 DEF Fits
    <2>2. c.size \in Nat  BY <1>2, <1>6
    <2> QED BY <1>2, <2>1, <2>2
  <1>8. FrameOf(d) \in Frame /\ FrameOf(d).size = hist[d].size  BY <1>5, FrameTyped DEF FrameOf
  <1>9. FrameOf(d) \in [size : {b \in FrameSizes : b > CopyLimit}, data : Seq(Word)]
    BY <1>6, <1>7, <1>8 DEF Frame
  <1>10. Sent' = Sent  BY <1>1 DEF Sent, Published, Busy, FrameOf
  <1> QED BY <1>1, <1>2, <1>3, <1>5, <1>9, <1>10

LEMMA QueueStep ==
    ASSUME IInv, Sound', ~dropped, [Next]_vars
    PROVE  [Queue!Next]_(Queue!vars)
  <1> USE DEF Queue!Next, Queue!vars
  <1>0. CASE DropFrame
    <2>1. dropped' = TRUE  BY <1>0 DEF DropFrame
    <2> QED BY <1>0, <2>1, DropBreaks DEF Queue!Break, Sent, Frame
  <1>20. ASSUME ~DropFrame PROVE dropped' = dropped /\ IInv'
    BY <1>20, DroppedStep, NextIInv
  <1> SUFFICES ASSUME ~DropFrame PROVE [Queue!Next]_(Queue!vars)  BY <1>0
  <1>21. dropped' = dropped /\ IInv'  BY <1>20
  <1>1. CASE Publish
    <2>1. Queue!Put  BY <1>1, <1>21, PublishPuts DEF Queue!Put, Sent, Frame
    <2> QED BY <2>1
  <1>2. CASE StoreRead
    <2>1. Queue!Get  BY <1>2, <1>21, StoreReadGets DEF Queue!Get, Sent, Frame
    <2> QED BY <2>1
  <1>3. ASSUME Published' = Published, out' = out, \A n \in 1..Last : hist'[n] = hist[n]
        PROVE  UNCHANGED Queue!vars
    BY <1>3, <1>21, QueueStutters DEF Sent
  <1>4. ASSUME NEW b \in FrameSizes, AllocEnd(b) PROVE UNCHANGED Queue!vars
    <2>1. ~Busy /\ Busy' /\ out' = out  BY <1>4 DEF AllocEnd, Busy
    <2>2. Len(hist') = Len(hist) + 1 /\ \A n \in 1..Last : hist'[n] = hist[n]
      <3>1. write \in Index /\ plap \in Nat /\ TypeOK  BY Parts DEF TypeOK
      <3>2. hist' = Append(hist, [at |-> write, size |-> b, lap |-> plap])  BY <1>4 DEF AllocEnd
      <3> QED BY <3>1, <3>2, AppendBlock
    <2>3. Published' = Published
      <3>1. Len(hist) \in Nat  BY Counts DEF Last
      <3> QED BY <2>1, <2>2, <3>1 DEF Published
    <2> QED BY <1>3, <2>1, <2>2, <2>3
  <1>5. CASE WriteWrap
    <2>1. ~Busy /\ Busy' /\ out' = out /\ p.size \in FrameSizes
      BY <1>5, Parts DEF WriteWrap, Busy, Wrapping, TypeOK
    <2>2. Len(hist') = Len(hist) + 1 /\ \A n \in 1..Last : hist'[n] = hist[n]
      <3>1. 0 \in Index /\ plap + 1 \in Nat /\ TypeOK  BY Parts DEF TypeOK, Index
      <3>2. hist' = Append(hist, [at |-> 0, size |-> p.size, lap |-> plap + 1])
        BY <1>5 DEF WriteWrap
      <3> QED BY <2>1, <3>1, <3>2, AppendBlock
    <2>3. Published' = Published
      <3>1. Len(hist) \in Nat  BY Counts DEF Last
      <3> QED BY <2>1, <2>2, <3>1 DEF Published
    <2> QED BY <1>3, <2>1, <2>2, <2>3
  <1>6. ASSUME NEW b \in FrameSizes, AllocStart(b) \/ Reject(b) PROVE UNCHANGED Queue!vars
    <2>1. hist' = hist /\ out' = out  BY <1>6 DEF AllocStart, Reject
    <2>2. p'.pc \in {"wrap", "rejected"} /\ p.pc = "idle"
      <3>1. DOMAIN p = {"pc", "at", "size", "k"}  BY Parts DEF TypeOK
      <3>2. CASE AllocStart(b)  BY <3>2 DEF AllocStart
      <3>3. CASE Reject(b)  BY <3>1, <3>3 DEF Reject
      <3> QED BY <1>6, <3>2, <3>3
    <2>3. Busy' = Busy  BY <2>2 DEF Busy
    <2> QED BY <2>1, <2>3, <1>3 DEF Published
  <1>7. CASE ReturnRejected \/ WriteData \/ WriteStop \/ StoreWrite
    <2>1. hist' = hist /\ out' = out  BY <1>7 DEF ReturnRejected, WriteData, WriteStop, StoreWrite
    <2>2. Busy' = Busy
      BY <1>7, Parts DEF ReturnRejected, WriteData, WriteStop, StoreWrite, Busy, TypeOK
    <2> QED BY <2>1, <2>2, <1>3 DEF Published
  <1>8. CASE ReadStatus \/ ReadWrap \/ ReadSecond \/ CopyWord \/ UNCHANGED vars
    <2>1. hist' = hist /\ out' = out /\ p' = p
      BY <1>8 DEF ReadStatus, ReadWrap, ReadSecond, CopyWord, vars
    <2> QED BY <2>1, <1>3 DEF Published, Busy
  <1> QED BY <1>1, <1>2, <1>4, <1>5, <1>6, <1>7, <1>8 DEF Next, Producer, Consumer

(* txbufData and rxbufData are FIFO queues of frames for the two CPUs.     *)
THEOREM Refinement == Spec => ImplementsQueue
  <1>1. Init => Queue!Init
    <2> SUFFICES ASSUME Init PROVE Queue!Init  OBVIOUS
    <2>1. Published = 0 /\ out = <<>>  BY DEF Init, Published, Busy
    <2>2. [n \in 1..Published |-> FrameOf(n)] = <<>>  BY <2>1
    <2> QED BY <2>1, <2>2 DEF Queue!Init, Init
  <1>2. Sound /\ Sound' /\ [Next]_vars => [Queue!Next]_(Queue!vars)
    <2> SUFFICES ASSUME Sound, Sound', [Next]_vars PROVE [Queue!Next]_(Queue!vars)  OBVIOUS
    <2>1. CASE ~dropped  BY <2>1, QueueStep DEF Sound
    <2>2. CASE dropped
      <3>1. dropped'  BY <2>2, DroppedStep DEF DropFrame
      <3> QED BY <2>2, <3>1 DEF Queue!Next
    <2> QED BY <2>1, <2>2
  <1> QED BY <1>1, <1>2, LayoutInvariant, PTL DEF Spec, ImplementsQueue, Queue!Spec
=============================================================================
