----------------------------- MODULE MCOnboarding -----------------------------
(* Two processes that take the user's partition from each other. *)
EXTENDS Onboarding

CONSTANTS p1, p2

MCProcesses == {p1, p2}
==============================================================================
