---------------------------- MODULE Introductions ----------------------------
(* What the connection handshake promises, without processes, database rows *)
(* or chats: a proposed introduction goes ahead only when the initiator has *)
(* confirmed it and the target has accepted it.  "met" are the requests     *)
(* whose two people are in a group chat that was made or joined on behalf   *)
(* of the request, "missed" those whose chat was made without somebody.     *)
CONSTANT Requests

VARIABLES phase, met, missed

Phases == {"none", "proposed", "invited", "accepted", "declined",
           "withdrawn", "introduced"}

Init == /\ phase  = [r \in Requests |-> "none"]
        /\ met    = {}
        /\ missed = {}

Become(R, from, to) ==
  /\ R # {}
  /\ \A r \in R : phase[r] = from
  /\ phase' = [r \in Requests |-> IF r \in R THEN to ELSE phase[r]]
  /\ UNCHANGED <<met, missed>>

Propose  == \E R \in SUBSET Requests : Become(R, "none", "proposed")
Confirm  == \E r \in Requests : Become({r}, "proposed", "invited")
Withdraw == \E r \in Requests : Become({r}, "proposed", "withdrawn")
Accept   == \E r \in Requests : Become({r}, "invited", "accepted")
Decline  == \E r \in Requests : Become({r}, "invited", "declined")

\* Only requests that both sides agreed to get a chat.
Agreed == {r \in Requests : phase[r] \in {"accepted", "introduced"}}

Meet ==
  /\ met \subseteq met' /\ met' \subseteq met \union Agreed
  /\ missed \subseteq missed' /\ missed' \subseteq missed \union Agreed
  /\ UNCHANGED phase

\* A request is recorded as introduced only after its people met, or after
\* its chat was made without one of them.
Conclude == \E r \in met \union missed : Become({r}, "accepted", "introduced")

Next == Meet \/ Propose \/ Confirm \/ Withdraw \/ Accept \/ Decline \/ Conclude

Spec == Init /\ [][Next]_<<phase, met, missed>>
=============================================================================
