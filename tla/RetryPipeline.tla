--------------------------- MODULE RetryPipeline ---------------------------
(***************************************************************************)
(* The way of an event through the inbound topic, the three retry topics   *)
(* and the dead-letter topic: _handle_kafka_event (app/main.py) checks its *)
(* idempotency key in Redis and processes it, _handle_failure              *)
(* (app/integrations/kafka_pipeline.py) hands a failed one on.             *)
(*                                                                         *)
(* What InboundConsumer promises of a single record is taken for granted:  *)
(* it is delivered, again after a crash or a rebalance, until it has been  *)
(* settled and committed.  Records of all topics are in one log, a         *)
(* record's topic follows from its attempt.  The delay before a retry is   *)
(* left out.                                                               *)
(*                                                                         *)
(* A definition X_Fault is X with a plausible fault; no behaviour uses it. *)
(***************************************************************************)
EXTENDS Integers, Sequences

CONSTANTS
    Events,             \* inbound events, each with its idempotency key
    Workers,            \* tasks that handle records, of any worker process
    NoRecord,           \* a worker has no record in hand
    MaxAttempts,        \* kafka_max_attempts
    RedisStates,        \* some of "up" and "down": Redis stays in one of them
    HandlerMayFail,     \* the processing of an event may raise
    SendMayFail,        \* sending to a retry or dead-letter topic may raise
    MaxPublished,       \* bound: records published to the inbound topic
    MaxRedelivered,     \* bound: records delivered again
    MaxCrashes          \* bound: crashes of a worker in the middle of a record

ASSUME RedisAssumption == RedisStates \subseteq {"up", "down"}
ASSUME FaultAssumption == /\ HandlerMayFail \in BOOLEAN
                          /\ SendMayFail \in BOOLEAN
ASSUME BoundAssumption == /\ MaxAttempts \in Nat
                          /\ MaxPublished \in Nat
                          /\ MaxRedelivered \in Nat
                          /\ MaxCrashes \in Nat
ASSUME RecordAssumption == NoRecord \notin Nat

VARIABLES
    log,                \* records of the inbound and retry topics
    parked,             \* events in the dead-letter topic
    fetched,            \* records delivered to a worker, not to be redelivered
    committed,          \* records settled and committed
    redis,              \* whether Redis answers
    keys,               \* idempotency keys set in Redis
    record, pc,         \* what each worker has in hand and where it stands
    retryable,          \* its error is one that _is_retryable_error accepts
    fenced              \* workers whose record was delivered to another one
VARIABLES               \* history and bounds
    tries,              \* how often each event's processing was begun
    succeeded,          \* events whose processing came to its end
    unsent,             \* events that once could not be handed on
    redelivered, crashes

redisVars   == <<redis, keys>>
workerVars  == <<record, pc, retryable, fenced>>
historyVars == <<tries, succeeded, unsent>>
boundVars   == <<redelivered, crashes>>
vars == <<log, parked, fetched, committed, redisVars, workerVars, historyVars,
          boundVars>>

Event(w)   == log[record[w]].event
Attempt(w) == log[record[w]].attempt

TypeOK ==
    /\ log \in Seq([event : Events, attempt : 0..MaxAttempts])
    /\ parked \subseteq Events
    /\ fetched \subseteq DOMAIN log
    /\ committed \subseteq DOMAIN log
    /\ redis \in RedisStates
    /\ keys \subseteq Events
    /\ record \in [Workers -> DOMAIN log \cup {NoRecord}]
    /\ pc \in [Workers -> {"idle", "checking", "processing", "failed",
                           "settled"}]
    /\ retryable \in [Workers -> BOOLEAN]
    /\ fenced \subseteq Workers
    /\ tries \in [Events -> Nat]
    /\ succeeded \subseteq Events
    /\ unsent \subseteq Events
    /\ redelivered \in 0..MaxRedelivered
    /\ crashes \in 0..MaxCrashes

Init ==
    /\ log = <<>> /\ parked = {}
    /\ fetched = {} /\ committed = {}
    /\ redis \in RedisStates /\ keys = {}
    /\ record = [w \in Workers |-> NoRecord]
    /\ pc = [w \in Workers |-> "idle"]
    /\ retryable = [w \in Workers |-> FALSE]
    /\ fenced = {}
    /\ tries = [e \in Events |-> 0]
    /\ succeeded = {} /\ unsent = {}
    /\ redelivered = 0 /\ crashes = 0

-----------------------------------------------------------------------------
(* Delivery.                                                               *)

\* The ingest publishes an event, perhaps one it has published before.
Publish ==
    /\ \E e \in Events : log' = Append(log, [event |-> e, attempt |-> 0])
    /\ Len(SelectSeq(log, LAMBDA r : r.attempt = 0)) < MaxPublished
    /\ UNCHANGED <<parked, fetched, committed, redisVars, workerVars,
                   historyVars, boundVars>>

GoTo(w, where) == pc' = [pc EXCEPT ![w] = where]

\* The client commits what it delivers.
Take_AutoCommits(w) ==
    /\ pc[w] = "idle"
    /\ \E i \in DOMAIN log \ fetched :
        /\ record' = [record EXCEPT ![w] = i]
        /\ fetched' = fetched \cup {i}
        /\ committed' = committed \cup {i}
    /\ GoTo(w, "checking")
    /\ UNCHANGED <<log, parked, redisVars, retryable, fenced, historyVars,
                   boundVars>>

Take(w) ==
    /\ pc[w] = "idle"
    /\ \E i \in DOMAIN log \ fetched :
        /\ record' = [record EXCEPT ![w] = i]
        /\ fetched' = fetched \cup {i}
    /\ GoTo(w, "checking")
    /\ UNCHANGED <<log, parked, committed, redisVars, retryable, fenced,
                   historyVars, boundVars>>

PutDown(w) ==
    /\ record' = [record EXCEPT ![w] = NoRecord]
    /\ retryable' = [retryable EXCEPT ![w] = FALSE]
    /\ fenced' = fenced \ {w}
    /\ GoTo(w, "idle")

\* The partition moves to another process before a record's commit; whoever
\* has it in hand goes on with it.
Redeliver ==
    /\ redelivered < MaxRedelivered
    /\ \E i \in fetched \ committed :
        /\ fetched' = fetched \ {i}
        /\ fenced' = fenced \cup {w \in Workers : record[w] = i}
    /\ redelivered' = redelivered + 1
    /\ UNCHANGED <<log, parked, committed, redisVars, record, pc, retryable,
                   historyVars, crashes>>

Crash(w) ==
    /\ crashes < MaxCrashes
    /\ pc[w] # "idle"
    /\ PutDown(w)
    /\ fetched' = fetched \ ({record[w]} \ committed)
    /\ crashes' = crashes + 1
    /\ UNCHANGED <<log, parked, committed, redisVars, historyVars,
                   redelivered>>

-----------------------------------------------------------------------------
(* _handle_kafka_event.                                                    *)

Begin(w) ==
    /\ tries' = [tries EXCEPT ![Event(w)] = @ + 1]
    /\ GoTo(w, "processing")

\* The key was not there and is now (SET NX): process the event.
CheckNew_KeySetLater(w) ==
    /\ redis = "up"
    /\ pc[w] = "checking"
    /\ Event(w) \notin keys
    /\ Begin(w)
    /\ UNCHANGED <<log, parked, fetched, committed, redisVars, record,
                   retryable, fenced, succeeded, unsent, boundVars>>

CheckNew(w) ==
    /\ redis = "up"
    /\ pc[w] = "checking"
    /\ Event(w) \notin keys
    /\ keys' = keys \cup {Event(w)}
    /\ Begin(w)
    /\ UNCHANGED <<log, parked, fetched, committed, redis, record, retryable,
                   fenced, succeeded, unsent, boundVars>>

\* The key is there: skip the event, its record is settled.
CheckDuplicate(w) ==
    /\ redis = "up"
    /\ pc[w] = "checking"
    /\ Event(w) \in keys
    /\ GoTo(w, "settled")
    /\ UNCHANGED <<log, parked, fetched, committed, redisVars, record,
                   retryable, fenced, historyVars, boundVars>>

\* Redis does not answer: process the event whatever the key (fail open).
CheckBlind(w) ==
    /\ redis = "down"
    /\ pc[w] = "checking"
    /\ Begin(w)
    /\ UNCHANGED <<log, parked, fetched, committed, redisVars, record,
                   retryable, fenced, succeeded, unsent, boundVars>>

Succeed(w) ==
    /\ pc[w] = "processing"
    /\ succeeded' = succeeded \cup {Event(w)}
    /\ GoTo(w, "settled")
    /\ UNCHANGED <<log, parked, fetched, committed, redisVars, record,
                   retryable, fenced, tries, unsent, boundVars>>

FailProcessing(w) ==
    /\ HandlerMayFail
    /\ pc[w] = "processing"
    /\ \E again \in BOOLEAN : retryable' = [retryable EXCEPT ![w] = again]
    /\ GoTo(w, "failed")
    /\ UNCHANGED <<log, parked, fetched, committed, redisVars, record, fenced,
                   historyVars, boundVars>>

-----------------------------------------------------------------------------
(* _handle_failure and the commit.                                         *)

\* To the retry topic of the next attempt, or to the dead-letter topic.
Send_DropsExhausted(w) ==
    /\ UNCHANGED parked
    /\ IF retryable[w] /\ Attempt(w) < MaxAttempts
       THEN log' = Append(log, [event |-> Event(w), attempt |-> Attempt(w) + 1])
       ELSE UNCHANGED log

Send_Unbounded(w) ==
    /\ log' = Append(log, [event |-> Event(w), attempt |-> Attempt(w) + 1])
    /\ UNCHANGED parked

Send(w) ==
    \/ /\ retryable[w] /\ Attempt(w) < MaxAttempts
       /\ log' = Append(log, [event |-> Event(w), attempt |-> Attempt(w) + 1])
       /\ UNCHANGED parked
    \/ /\ ~(retryable[w] /\ Attempt(w) < MaxAttempts)
       /\ parked' = parked \cup {Event(w)}
       /\ UNCHANGED log

HandOn(w) ==
    /\ pc[w] = "failed"
    /\ Send(w)
    /\ GoTo(w, "settled")
    /\ UNCHANGED <<fetched, committed, redisVars, record, retryable, fenced,
                   historyVars, boundVars>>

\* The send raises, with the record stored or not: the record at hand stays
\* uncommitted, and nobody takes it up again before it is redelivered.
HandOnFails_Settles(w) ==
    /\ SendMayFail
    /\ pc[w] = "failed"
    /\ GoTo(w, "settled")
    /\ UNCHANGED <<log, parked, fetched, committed, redisVars, record,
                   retryable, fenced, historyVars, boundVars>>

HandOnFails(w) ==
    /\ SendMayFail
    /\ pc[w] = "failed"
    /\ Send(w) \/ UNCHANGED <<log, parked>>
    /\ PutDown(w)
    /\ unsent' = unsent \cup {Event(w)}
    /\ UNCHANGED <<fetched, committed, redisVars, tries, succeeded, boundVars>>

\* The outcome counts only for whoever the record was delivered to last.
Commit(w) ==
    /\ pc[w] = "settled"
    /\ committed' = IF w \in fenced THEN committed
                                    ELSE committed \cup {record[w]}
    /\ PutDown(w)
    /\ UNCHANGED <<log, parked, fetched, redisVars, historyVars, boundVars>>

-----------------------------------------------------------------------------
Work(w) ==
    \/ CheckNew(w) \/ CheckDuplicate(w) \/ CheckBlind(w)
    \/ Succeed(w) \/ FailProcessing(w)
    \/ HandOn(w) \/ HandOnFails(w)
    \/ Commit(w)

Next ==
    \/ Publish \/ Redeliver
    \/ \E w \in Workers : Take(w) \/ Work(w) \/ Crash(w)

Spec == Init /\ [][Next]_vars

\* Records are delivered while a worker is idle, and handlers end.
FairSpec ==
    /\ Spec
    /\ WF_vars(\E w \in Workers : Take(w))
    /\ \A w \in Workers : WF_vars(Work(w))

-----------------------------------------------------------------------------
(* Properties.                                                             *)

\* However often an event is published or delivered, by however many workers at
\* once, with Redis up the idempotency key lets its processing begin only once.
BegunOnce == redis = "up" => \A e \in Events : tries[e] <= 1

Written(e) == \E i \in DOMAIN log : log[i].event = e

\* "Nothing is dropped": an event is processed, in the dead-letter topic, or has
\* a record that is not committed and will be delivered.
Accounted ==
    \A e \in Events : Written(e) =>
        \/ e \in succeeded \cup parked
        \/ \E i \in DOMAIN log \ committed : log[i].event = e

\* The same without the idempotency keys in the way: the retry topics and the
\* commits alone lose nothing.
AccountedWithoutKeys == redis = "down" => Accounted

\* The events that have a record to be delivered.
Due == {e \in Events : \E i \in DOMAIN log \ committed : log[i].event = e}

Promise == INSTANCE EventFates WITH due <- Due, over <- succeeded \cup parked

\* The topics, the keys and the commits keep that promise: with Redis up an event
\* is begun once and is not forgotten before, with Redis down it is not forgotten
\* before it is over, whichever of its records is handled, sent on, delivered
\* again or committed by whom.
FatesSpec == Promise!Spec

\* An event without a key in the way is in the end processed or parked, unless
\* it could not be handed on: only a redelivery, which may never come, helps then.
Concluded ==
    \A e \in Events :
        redis = "down" /\ Written(e) ~> e \in succeeded \cup parked \cup unsent
=============================================================================
