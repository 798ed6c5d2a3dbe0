---------------------------- MODULE OffsetLedger ----------------------------
(***************************************************************************)
(* What the inbound consumer of Franklink promises about one Kafka         *)
(* partition, with nothing of how it keeps the promise: records become     *)
(* settled one at a time in any order (keyed concurrency finishes them out *)
(* of order), and the offset committed to the broker may be moved only to  *)
(* a position below which every record is settled.  A group that restarts  *)
(* at the committed offset therefore loses nothing.                        *)
(***************************************************************************)
EXTENDS Integers

CONSTANT MaxLog             \* bound: records ever written to the partition

NoOffset == -1              \* the group has not committed anything yet

VARIABLES
    settled,                \* offsets that need no further delivery
    committed               \* the group's committed offset (next to read)

ledgerVars == <<settled, committed>>

Init ==
    /\ settled = {}
    /\ committed = NoOffset

Settle ==
    /\ \E offsets \in SUBSET (0..MaxLog-1) : settled' = settled \cup offsets
    /\ UNCHANGED committed

Commit ==
    \E n \in 1..MaxLog :
        /\ 0..n-1 \subseteq settled
        /\ committed' = n
        /\ UNCHANGED settled

Next == Settle \/ Commit

Spec == Init /\ [][Next]_ledgerVars
=============================================================================
