----------------------------- MODULE FrameQueue -----------------------------
(***************************************************************************)
(* What a circular buffer in Wifi_MainStruct promises to the two CPUs: an  *)
(* unbounded FIFO of frames.  The producer appends whole frames, the       *)
(* consumer takes them whole, in order, once each and unaltered.  The      *)
(* number of a frame's failed insertions is not observable, so a refused   *)
(* frame is a stuttering step.  The only thing that breaks the queue is an *)
(* oversized frame that reaches its head; after that nothing is promised.  *)
(***************************************************************************)
EXTENDS Naturals, Sequences

CONSTANTS Frame,        \* the set of all frames
          Oversized     \* the ones that the consumer may have no room for

VARIABLES sent,         \* every frame put in the queue, oldest first
          delivered,    \* every frame taken out of it, oldest first
          broken        \* whether an oversized frame has reached the head

vars == <<sent, delivered, broken>>

Init == sent = <<>> /\ delivered = <<>> /\ broken = FALSE

Put == /\ sent' \in Seq(Frame)
       /\ Len(sent') = Len(sent) + 1
       /\ \A n \in 1..Len(sent) : sent'[n] = sent[n]
       /\ UNCHANGED <<delivered, broken>>

Get == /\ Len(delivered) < Len(sent)
       /\ delivered' = Append(delivered, sent[Len(delivered) + 1])
       /\ UNCHANGED <<sent, broken>>

Break == /\ Len(delivered) < Len(sent)
         /\ sent[Len(delivered) + 1] \in Oversized
         /\ broken' = TRUE
         /\ UNCHANGED <<sent, delivered>>

Next == \/ ~broken /\ (Put \/ Get \/ Break)
        \/ broken /\ broken'

Spec == Init /\ [][Next]_vars
=============================================================================
