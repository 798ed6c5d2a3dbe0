------------------------------ MODULE MCOutreach ------------------------------
(* Two topics, two people, two runs and two workers. *)
EXTENDS Outreach

MCTopics  == {"collaborators", "mentors"}
MCTargets == {"ann", "ben"}
==============================================================================
