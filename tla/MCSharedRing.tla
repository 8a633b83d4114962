---------------------------- MODULE MCSharedRing ----------------------------
(***************************************************************************)
(* Both rings of Wifi_MainStruct for TLC.  Which one a behaviour is about  *)
(* is chosen in the initial state: the TX ring is SharedRing as the        *)
(* constants have it (EagerWrap is TRUE), the RX ring has the other        *)
(* consumer.                                                               *)
(***************************************************************************)
EXTENDS SharedRing

VARIABLE which      \* "tx" or "rx"

Rx == INSTANCE SharedRing WITH EagerWrap <- ~EagerWrap

\* Frames of one to four words, with and without padding; the ARM7 has room for
\* all but the last one (CopyLimit).
MCFrameSizes == {3, 8, 9, 13}

both == <<vars, which>>

MCInit == Init /\ which \in {"tx", "rx"}

MCNext == /\ which' = which
          /\ \/ which = "tx" /\ Next
             \/ which = "rx" /\ Rx!Next

MCSpec == /\ MCInit /\ [][MCNext]_both
          /\ WF_both(which = "tx" /\ UNCHANGED which /\ GoOn)
          /\ WF_both(which = "tx" /\ UNCHANGED which /\ Consumer)
          /\ WF_both(which = "rx" /\ UNCHANGED which /\ Rx!GoOn)
          /\ WF_both(which = "rx" /\ UNCHANGED which /\ Rx!Consumer)

=============================================================================
