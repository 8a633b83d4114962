----------------------------- MODULE SharedRing -----------------------------
(***************************************************************************)
(* The circular buffers txbufData (ARM9 to ARM7) and rxbufData (ARM7 to    *)
(* ARM9) of Wifi_MainStruct.  One CPU produces frames and the other one    *)
(* consumes them; both run at the same time on uncached memory and there   *)
(* is no lock, only the order in which words are stored.  Every access to  *)
(* a shared word is a step of its own here.                                *)
(*                                                                         *)
(* Indices count 32-bit words (all of them are multiples of 4 in the       *)
(* code).  A block is a size word, the frame rounded up to 32 bits, and it *)
(* is followed by the word where the next block will start: 0 (STOP) when  *)
(* there is none, WRAP when the next block is at index 0.                  *)
(*                                                                         *)
(* CopyLimit is the biggest frame, in bytes, that the consumer agrees to   *)
(* copy.  EagerWrap tells the two consumers apart: the ARM7 stores the     *)
(* read index as soon as it finds a wrap marker, the ARM9 only once it has *)
(* handled a frame.                                                        *)
(***************************************************************************)
EXTENDS Integers, Sequences

CONSTANTS Size,         \* words in the buffer (WIFI_TXBUFFER_SIZE / 4)
          FrameSizes,   \* frame sizes, in bytes, that the producer may add
          CopyLimit,    \* biggest frame, in bytes, that the consumer copies
          EagerWrap,    \* TRUE: the ARM7's TX consumer, FALSE: the ARM9's RX one
          MaxFrames     \* bound: frames that the producer adds

ASSUME SizeAssumption      == Size \in Nat \ {0}
ASSUME FrameSizeAssumption == FrameSizes \subseteq Nat \ {0}
ASSUME CopyLimitAssumption == CopyLimit \in Nat
ASSUME EagerWrapAssumption == EagerWrap \in BOOLEAN
ASSUME MaxFramesAssumption == MaxFrames \in Nat

VARIABLES buf,          \* the words of the buffer
          write, read,  \* txbufWrite and txbufRead (rxbufWrite and rxbufRead)
          p,            \* the producer's locals
          c,            \* the consumer's locals
          got,          \* words of the current frame that the consumer has copied
          \* History, not in the code:
          hist,         \* blocks laid out so far: where, frame size, lap
          out,          \* frames that the consumer has copied
          dropped,      \* whether the consumer has dropped a frame
          plap, rlap    \* times that the producer and the consumer have wrapped

ring  == <<buf, write, read>>
vars  == <<buf, write, read, p, c, got, hist, out, dropped, plap, rlap>>

-----------------------------------------------------------------------------
(* Words of the buffer. *)

Stop         == [kind |-> "stop"]
Wrap         == [kind |-> "wrap"]
SizeWord(b)  == [kind |-> "size", bytes |-> b]
Data(n, k)   == [kind |-> "data", frame |-> n, word |-> k]

Word == {Stop, Wrap} \cup [kind : {"size"}, bytes : FrameSizes]
                     \cup [kind : {"data"}, frame : 1..MaxFrames, word : Nat]

Index == 0..(Size - 1)

\* round_up_32(), in words.
round_up_32(b) == (b + 3) \div 4

\* Mutant: the room for the two size words is forgotten.
MutantNoSizeWords(b) == round_up_32(b)

\* Room that a frame needs: its size word, itself, and the next size word.
total_size(b) == round_up_32(b) + 2

\* The word after a block: where the next one starts.
End(blk) == blk.at + 1 + round_up_32(blk.size)

(* A frame as the producer sends it: the contents of frame n are the words *)
(* Data(n, 1), Data(n, 2)...                                               *)
FrameOf(n) == [size |-> hist[n].size,
               data |-> [k \in 1..round_up_32(hist[n].size) |-> Data(n, k)]]

Init == /\ buf = [i \in Index |-> Stop]
        /\ write = 0 /\ read = 0
        /\ p = [pc |-> "idle", at |-> 0, size |-> 0, k |-> 0]
        /\ c = [pc |-> "idle", idx |-> 0, size |-> 0]
        /\ got = <<>> /\ hist = <<>> /\ out = <<>> /\ dropped = FALSE
        /\ plap = 0 /\ rlap = 0

-----------------------------------------------------------------------------
(* The producer.  It runs with interrupts disabled, so that no other       *)
(* producer of the same CPU can start before it ends.                      *)

\* Mutants of the allocators.  The first one fills the buffer up to the read
\* index, the second one never uses the start of the buffer again.
MutantUpToRead(total) ==
    IF read <= write
    THEN IF write + total >= Size
         THEN IF total > read + 1 THEN "none" ELSE "start"
         ELSE "end"
    ELSE IF write + total > read + 1 THEN "none" ELSE "end"

MutantNeverWrap(total) ==
    IF read <= write THEN IF write + total >= Size THEN "none" ELSE "end"
    ELSE IF write + total >= read THEN "none" ELSE "end"

\* Where a block of this total size can go, from one read of both indices.
Wifi_TxBufferAllocBuffer(total) ==
    IF read <= write
    THEN IF write + total >= Size
         THEN IF total >= read THEN "none" ELSE "start"
         ELSE "end"
    ELSE IF write + total >= read THEN "none" ELSE "end"

\* The ARM7 has its own copy of the function, with the same text.
Wifi_RxBufferAllocBuffer(total) == Wifi_TxBufferAllocBuffer(total)

AllocBuffer(total) == IF EagerWrap THEN Wifi_TxBufferAllocBuffer(total)
                                   ELSE Wifi_RxBufferAllocBuffer(total)

\* The block fits after the last one.
AllocEnd(b) ==
    /\ p.pc = "idle" /\ Len(hist) < MaxFrames
    /\ AllocBuffer(total_size(b)) = "end"
    /\ p' = [pc |-> "data", at |-> write, size |-> b, k |-> 1]
    /\ hist' = Append(hist, [at |-> write, size |-> b, lap |-> plap])
    /\ UNCHANGED <<buf, write, read, c, got, out, dropped, plap, rlap>>

\* Mutant: nothing marks the start of the buffer as empty.
MutantNoStopAtStart(b) ==
    /\ p.pc = "idle" /\ Len(hist) < MaxFrames
    /\ AllocBuffer(total_size(b)) = "start"
    /\ p' = [pc |-> "wrap", at |-> 0, size |-> b, k |-> 1]
    /\ UNCHANGED <<buf, write, read, c, got, hist, out, dropped, plap, rlap>>

\* It only fits at the start: write the stop marker there...
AllocStart(b) ==
    /\ p.pc = "idle" /\ Len(hist) < MaxFrames
    /\ AllocBuffer(total_size(b)) = "start"
    /\ buf' = [buf EXCEPT ![0] = Stop]
    /\ p' = [pc |-> "wrap", at |-> 0, size |-> b, k |-> 1]
    /\ UNCHANGED <<write, read, c, got, hist, out, dropped, plap, rlap>>

\* ...before the wrap marker leads the consumer to it.
WriteWrap ==
    /\ p.pc = "wrap"
    /\ buf' = [buf EXCEPT ![write] = Wrap]
    /\ p' = [p EXCEPT !.pc = "data"]
    /\ hist' = Append(hist, [at |-> 0, size |-> p.size, lap |-> plap + 1])
    /\ plap' = plap + 1
    /\ UNCHANGED <<write, read, c, got, out, dropped, rlap>>

\* It fits nowhere: WSTAT_TXQUEUEDREJECTED, and the caller gets -1.
Reject(b) ==
    /\ p.pc = "idle" /\ Len(hist) < MaxFrames
    /\ AllocBuffer(total_size(b)) = "none"
    /\ p' = [p EXCEPT !.pc = "rejected", !.size = b]
    /\ UNCHANGED <<ring, c, got, hist, out, dropped, plap, rlap>>

ReturnRejected ==
    /\ p.pc = "rejected"
    /\ p' = [p EXCEPT !.pc = "idle"]
    /\ UNCHANGED <<ring, c, got, hist, out, dropped, plap, rlap>>

\* Mutant: the size is written before the data and the stop marker.
MutantSizeFirst ==
    /\ p.pc = "data"
    /\ buf' = [buf EXCEPT ![p.at + p.k] = Data(Len(hist), p.k),
                         ![p.at] = SizeWord(p.size)]
    /\ p' = IF p.k = round_up_32(p.size) THEN [p EXCEPT !.pc = "stop"]
                                         ELSE [p EXCEPT !.k = p.k + 1]
    /\ UNCHANGED <<write, read, c, got, hist, out, dropped, plap, rlap>>

\* memcpy() of the headers and the data, after the size word.
WriteData ==
    /\ p.pc = "data"
    /\ buf' = [buf EXCEPT ![p.at + p.k] = Data(Len(hist), p.k)]
    /\ p' = IF p.k = round_up_32(p.size) THEN [p EXCEPT !.pc = "stop"]
                                         ELSE [p EXCEPT !.k = p.k + 1]
    /\ UNCHANGED <<write, read, c, got, hist, out, dropped, plap, rlap>>

\* Mark the next block as empty.
WriteStop ==
    /\ p.pc = "stop"
    /\ buf' = [buf EXCEPT ![End(p)] = Stop]
    /\ p' = [p EXCEPT !.pc = "write"]
    /\ UNCHANGED <<write, read, c, got, hist, out, dropped, plap, rlap>>

StoreWrite ==
    /\ p.pc = "write"
    /\ write' = End(p)
    /\ p' = [p EXCEPT !.pc = "size"]
    /\ UNCHANGED <<buf, read, c, got, hist, out, dropped, plap, rlap>>

\* The frame exists for the consumer once its size is there.
Publish ==
    /\ p.pc = "size"
    /\ buf' = [buf EXCEPT ![p.at] = SizeWord(p.size)]
    /\ p' = [p EXCEPT !.pc = "idle"]
    /\ UNCHANGED <<write, read, c, got, hist, out, dropped, plap, rlap>>

Producer == \/ \E b \in FrameSizes : AllocEnd(b) \/ AllocStart(b) \/ Reject(b)
            \/ ReturnRejected \/ WriteWrap \/ WriteData \/ WriteStop
            \/ StoreWrite \/ Publish

-----------------------------------------------------------------------------
(* The consumer: Wifi_TxArm9QueueFlush() on the ARM7, Wifi_Update() on the *)
(* ARM9, whose limit of frames per call and next call are the same "idle". *)

\* What the consumer does with the word w found at index i.  Any word that
\* isn't the size of a frame leaves it "lost": what it would do with packet
\* data taken for a size isn't modelled further.
TakeStatus(i, w) ==
    IF w = Stop THEN [c EXCEPT !.pc = "idle"]
    ELSE IF w.kind = "size"
         THEN [pc |-> "copy", idx |-> i, size |-> w.bytes]
         ELSE [c EXCEPT !.pc = "lost"]

\* The first word isn't a wrap marker (when it is STOP there is nothing to do).
ReadStatus ==
    /\ c.pc = "idle"
    /\ buf[read] \notin {Stop, Wrap}
    /\ c' = TakeStatus(read, buf[read])
    /\ UNCHANGED <<ring, p, got, hist, out, dropped, plap, rlap>>

\* Mutant: a wrap marker is taken for the end of the queue.
MutantStopAtWrap == FALSE

\* The first word is a wrap marker. Only the ARM7 saves the index at once.
ReadWrap ==
    /\ c.pc = "idle"
    /\ buf[read] = Wrap
    /\ c' = [c EXCEPT !.pc = "second"]
    /\ read' = IF EagerWrap THEN 0 ELSE read
    /\ rlap' = IF EagerWrap THEN rlap + 1 ELSE rlap
    /\ UNCHANGED <<buf, write, p, got, hist, out, dropped, plap>>

\* The second read of a size, at the start of the buffer.
ReadSecond ==
    /\ c.pc = "second"
    /\ c' = TakeStatus(0, buf[0])
    /\ UNCHANGED <<ring, p, got, hist, out, dropped, plap, rlap>>

\* The ARM9 hands out any frame; the ARM7 checks that it fits in MAC RAM.
Fits == EagerWrap => c.size <= CopyLimit

\* Mutant: the read index moves before the frame has been copied.
MutantCopyAfter ==
    /\ c.pc = "copy"
    /\ Fits
    /\ Len(got) < round_up_32(c.size)
    /\ got' = Append(got, buf[c.idx + Len(got) + 1])
    /\ read' = c.idx + 1 + round_up_32(c.size)
    /\ UNCHANGED <<buf, write, p, c, hist, out, dropped, plap, rlap>>

\* Wifi_MACWrite() to MAC RAM, or the packet handlers.
CopyWord ==
    /\ c.pc = "copy"
    /\ Fits
    /\ Len(got) < round_up_32(c.size)
    /\ got' = Append(got, buf[c.idx + Len(got) + 1])
    /\ UNCHANGED <<ring, p, c, hist, out, dropped, plap, rlap>>

\* The whole frame has been copied: the read index moves past it.
StoreRead ==
    /\ c.pc = "copy"
    /\ Fits
    /\ Len(got) = round_up_32(c.size)
    /\ read' = c.idx + 1 + round_up_32(c.size)
    /\ rlap' = hist[Len(out) + 1].lap
    /\ out' = Append(out, [size |-> c.size, data |-> got])
    /\ got' = <<>>
    /\ c' = [c EXCEPT !.pc = "idle"]
    /\ UNCHANGED <<buf, write, p, hist, dropped, plap>>

\* A frame that is too big for its destination in MAC RAM is rejected, but
\* the ARM7 only skips its size word: what it looks at next is frame data.
DropFrame ==
    /\ c.pc = "copy"
    /\ ~Fits
    /\ read' = c.idx + 1
    /\ dropped' = TRUE
    /\ c' = [c EXCEPT !.pc = "idle"]
    /\ UNCHANGED <<buf, write, p, got, hist, out, plap, rlap>>

Consumer == ReadStatus \/ ReadWrap \/ ReadSecond \/ CopyWord \/ StoreRead
            \/ DropFrame

Next == Producer \/ Consumer

Spec == Init /\ [][Next]_vars

(* A CPU that has begun an operation goes on with it, and the consumer is  *)
(* called again as long as there are frames: WIFI_SYNC messages and the    *)
(* VBL interrupt.  Nobody has to add frames.                               *)
GoOn == ReturnRejected \/ WriteWrap \/ WriteData \/ WriteStop \/ StoreWrite \/ Publish

FairSpec == Spec /\ WF_vars(GoOn) /\ WF_vars(Consumer)

-----------------------------------------------------------------------------
(* Properties. *)

\* Where block n starts, where the next one may start, its lap and length.
Start(n)  == hist[n].at
Finish(n) == End(hist[n])
Lap(n)    == hist[n].lap
Words(n)  == round_up_32(hist[n].size)

\* Blocks whose size word has been written.
Busy == p.pc \in {"data", "stop", "write", "size"}
Published == IF Busy THEN Len(hist) - 1 ELSE Len(hist)

TypeOK ==
    /\ buf \in [Index -> Word]
    /\ write \in Index /\ read \in Index
    /\ p \in [pc : {"idle", "wrap", "rejected", "data", "stop", "write", "size"},
              at : Index, size : FrameSizes \cup {0}, k : Nat]
    /\ c \in [pc : {"idle", "second", "copy", "lost"},
              idx : Index, size : FrameSizes \cup {0}]
    /\ got \in Seq(Word)
    /\ hist \in Seq([at : Index, size : FrameSizes, lap : Nat])
    /\ out \in Seq([size : FrameSizes, data : Seq(Word)])
    /\ plap \in Nat /\ rlap \in Nat

(* Direct transfers have "no restrictions about the size of the packets    *)
(* (apart from regular WiFi limitations)" (local_multiplayer_mode.md:38):  *)
(* no frame leaves the consumer in the middle of frame data.  This doesn't *)
(* hold: the buffer of regular frames has 0x700 bytes.                     *)
AnySizeIsTaken == c.pc # "lost"

(* Until it drops a frame, every word that the consumer takes for the size *)
(* of a frame is one: nothing else makes it look at the middle of a frame, *)
(* at a stale block or at a wrap marker (tx_queue.c: "We know that this    *)
(* isn't a WIFI_SIZE_WRAP mark").                                          *)
StatusWordsOnly == ~dropped => c.pc # "lost"

(* Until then, and from the time its size is written until the consumer    *)
(* has moved past it, no store of the producer changes a word of a frame,  *)
(* whatever wraps in between: the allocator never hands out unread words.  *)
UnreadIntact ==
    ~dropped => \A n \in Len(out) + 1 .. Published :
                    /\ buf[Start(n)] = SizeWord(hist[n].size)
                    /\ \A k \in 1..Words(n) : buf[Start(n) + k] = Data(n, k)

(* The n-th frame copied by the consumer is the n-th one sent, complete:   *)
(* no loss, duplication, reordering or torn copy.                          *)
InOrderIntact ==
    ~dropped => /\ Len(out) <= Published
                /\ \A n \in 1..Len(out) : out[n] = FrameOf(n)

(* A queue that has been drained takes any frame that needs less than half *)
(* of the buffer, wherever the indices have stopped.                       *)
DrainedAccepts ==
    [][\A b \in FrameSizes :
          Reject(b) => dropped \/ Len(out) < Len(hist) \/ 2 * total_size(b) >= Size]_vars

(* A published frame is eventually copied, unless it was dropped or comes  *)
(* after one that was: that stops the queue for good.                      *)
EventuallyCopied ==
    \A n \in 1..MaxFrames : (Published >= n) ~> (Len(out) >= n \/ dropped)

(* How the blocks are laid out, which is why the properties above hold.    *)
(* The parts of the inductive invariant, over the blocks not yet consumed. *)
Last == Len(hist)
Live == Len(out) + 1 .. Last

\* Every block is in what is free seen from the read index: ahead of it in
\* the consumer's lap, or strictly behind it in the next one.
InFreeSpace ==
    \A n \in Live :
        /\ Lap(n) \in {rlap, rlap + 1}
        /\ Finish(n) <= Size - 2
        /\ Lap(n) = rlap => read <= Start(n)
        /\ Lap(n) = rlap + 1 => Finish(n) <= read - 2

Ordered ==
    \A m, n \in Live :
        m < n => \/ Lap(m) < Lap(n)
                 \/ Lap(m) = Lap(n) /\ Finish(m) <= Start(n)

\* The word at index i, in this lap, leads the consumer to block n.
Leads(i, lap, n) ==
    \/ Lap(n) = lap /\ Start(n) = i
    \/ Lap(n) = lap + 1 /\ Start(n) = 0 /\ buf[i] = Wrap

Chained ==
    /\ Len(out) < Last => Leads(read, rlap, Len(out) + 1)
    /\ \A n \in Live : n < Last => Leads(Finish(n), Lap(n), n + 1)

\* Between two frames the producer is at the end of the last block.
AtTail ==
    ~Busy =>
        /\ buf[write] = Stop
        /\ Len(out) = Last => write = read /\ plap = rlap
        /\ Len(out) < Last => write = Finish(Last) /\ plap = Lap(Last)

Wrapping ==
    p.pc = "wrap" =>
        /\ plap = rlap
        /\ total_size(p.size) < read
        /\ p.at = 0 /\ p.k = 1 /\ p.size \in FrameSizes
        /\ buf[0] = Stop
        /\ Last < MaxFrames

\* During a frame, the last block is the producer's and reads as empty.
Building ==
    Busy =>
        /\ Len(out) < Last
        /\ p.at = Start(Last) /\ p.size = hist[Last].size /\ plap = Lap(Last)
        /\ buf[Start(Last)] = Stop
        /\ p.k \in 1..Words(Last)
        /\ \A k \in 1..Words(Last) :
              k < p.k \/ p.pc # "data" => buf[Start(Last) + k] = Data(Last, k)
        /\ p.pc \in {"write", "size"} => buf[Finish(Last)] = Stop
        /\ p.pc = "size" => write = Finish(Last)

\* The consumer is at the oldest block.
Reading ==
    /\ c.pc = "second" =>
        /\ Len(out) < Last
        /\ Start(Len(out) + 1) = 0
        /\ EagerWrap => read = 0 /\ Lap(Len(out) + 1) = rlap
    /\ c.pc = "copy" =>
        /\ Len(out) < Published
        /\ c.idx = Start(Len(out) + 1) /\ c.size = hist[Len(out) + 1].size
        /\ Len(got) <= Words(Len(out) + 1)
        /\ \A k \in 1..Len(got) : got[k] = Data(Len(out) + 1, k)
    /\ c.pc # "copy" => got = <<>>

(* The layout of the buffer: unread blocks are disjoint, chained in order  *)
(* from the read index to the write index, and the block that is being     *)
(* written belongs to the producer alone.                                  *)
Layout == /\ Last <= MaxFrames
          /\ InFreeSpace /\ Ordered /\ Chained
          /\ AtTail /\ Wrapping /\ Building /\ Reading

Queue == INSTANCE FrameQueue WITH
            Frame <- [size : FrameSizes, data : Seq(Word)],
            Oversized <- [size : {b \in FrameSizes : b > CopyLimit}, data : Seq(Word)],
            sent <- [n \in 1..Published |-> FrameOf(n)],
            delivered <- out,
            broken <- dropped

(* The buffer implements the FIFO of frames that the two CPUs rely on: it  *)
(* breaks only when the oldest frame doesn't fit in its destination.       *)
ImplementsQueue == Queue!Spec
=============================================================================
