------------------------- MODULE MCInboundConsumer -------------------------
(***************************************************************************)
(* Instances of InboundConsumer for TLC.                                   *)
(***************************************************************************)
EXTENDS InboundConsumer, TLC

\* Worker processes are interchangeable, and so are the semaphore's permits.
Symmetry == Permutations(Consumers) \cup Permutations(Slots)

SlotSymmetry == Permutations(Slots)
=============================================================================
