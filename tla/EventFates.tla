----------------------------- MODULE EventFates -----------------------------
(***************************************************************************)
(* What Franklink promises of each event it is sent, with nothing of       *)
(* topics, records, workers or keys: an event stays due until it may be    *)
(* forgotten.  With Redis up its processing begins once, and only then is  *)
(* it forgotten; with Redis down it may begin again and again, and is      *)
(* forgotten only when it is over.                                         *)
(***************************************************************************)
EXTENDS Naturals

CONSTANTS
    Events,
    RedisStates

VARIABLES
    redis,
    due,                    \* the events that are still to be delivered
    tries,                  \* how often each event's processing was begun
    over                    \* the events processed or given to the operators

fateVars == <<redis, due, tries, over>>

Init ==
    /\ redis \in RedisStates
    /\ due = {} /\ over = {}
    /\ tries = [e \in Events |-> 0]

Publish(e) ==
    /\ due' = due \cup {e}
    /\ UNCHANGED <<redis, tries, over>>

\* An event that is over may be in hand still, where it was due.
Begin(e) ==
    /\ e \in due \/ (redis = "down" /\ e \in over)
    /\ redis = "up" => tries[e] = 0
    /\ tries' = [tries EXCEPT ![e] = @ + 1]
    /\ UNCHANGED <<redis, due, over>>

Conclude(e) ==
    /\ tries[e] > 0
    /\ over' = over \cup {e}
    /\ UNCHANGED <<redis, due, tries>>

Forget(e) ==
    /\ IF redis = "up" THEN tries[e] > 0 ELSE e \in over
    /\ due' = due \ {e}
    /\ UNCHANGED <<redis, tries, over>>

Next == \E e \in Events : Publish(e) \/ Begin(e) \/ Conclude(e) \/ Forget(e)

Spec == Init /\ [][Next]_fateVars
=============================================================================
