------------------------- MODULE RetryPipelineProofs -------------------------
(* For any events, workers and faults: with Redis up an event is begun at    *)
(* most once, and with Redis down an event that was published is processed,  *)
(* parked or still to be delivered.                                          *)
EXTENDS RetryPipeline, TLAPS

\* A worker has a record in hand exactly while it is not idle.
InHand == \A w \in Workers : pc[w] # "idle" <=> record[w] \in DOMAIN log

\* With Redis up, a processing that has begun has left its key.
KeyInv == redis = "up" => \A e \in Events : tries[e] <= IF e \in keys THEN 1 ELSE 0

\* Event e is over, or a record of a later attempt than a waits for delivery.
GoesOn(e, a) ==
  \/ e \in succeeded \cup parked
  \/ \E i \in DOMAIN log \ committed : log[i].event = e /\ log[i].attempt > a

\* With Redis down, a record is settled only after its event was processed,
\* parked or handed on to a later attempt.  It is the order of the attempts
\* that makes this inductive: the record handed on may be settled in turn.
SettledInv == redis = "down" => \A w \in Workers : pc[w] = "settled" => GoesOn(Event(w), Attempt(w))

CommittedInv ==
  redis = "down" => \A i \in committed : GoesOn(log[i].event, log[i].attempt)

PipelineInv == TypeOK /\ InHand /\ KeyInv /\ SettledInv /\ CommittedInv

Records == [event : Events, attempt : 0..MaxAttempts]

\* The invariant says what the runs check.
LEMMA InvariantSays == PipelineInv => BegunOnce /\ AccountedWithoutKeys
<1> SUFFICES ASSUME PipelineInv PROVE BegunOnce /\ AccountedWithoutKeys
  OBVIOUS
<1>1. ASSUME redis = "up", NEW e \in Events PROVE tries[e] <= 1
  <2>1. tries[e] <= IF e \in keys THEN 1 ELSE 0
    BY <1>1 DEF PipelineInv, KeyInv
  <2>2. tries[e] \in Nat
    BY DEF PipelineInv, TypeOK
  <2> QED BY <2>1, <2>2, SMT
<1>2. ASSUME redis = "down", NEW e \in Events, NEW i \in DOMAIN log, log[i].event = e
      PROVE  \/ e \in succeeded \cup parked
             \/ \E j \in DOMAIN log \ committed : log[j].event = e
  <2>1. CASE i \in committed
    BY <1>2, <2>1 DEF PipelineInv, CommittedInv, GoesOn
  <2>2. CASE i \notin committed
    BY <1>2, <2>2
  <2> QED BY <2>1, <2>2
<1>3. AccountedWithoutKeys
  BY <1>2 DEF AccountedWithoutKeys, Accounted, Written
<1> QED BY <1>1, <1>3 DEF BegunOnce

------------------------------------------------------------------------------
(* Steps that touch neither the log nor the outcomes.                        *)

\* The initial state satisfies the invariant.
LEMMA StartsWell == Init => PipelineInv
<1> SUFFICES ASSUME Init PROVE PipelineInv
  OBVIOUS
<1>1. TypeOK
  <2>1. /\ log \in Seq([event : Events, attempt : 0..MaxAttempts])
        /\ fetched \subseteq DOMAIN log /\ committed \subseteq DOMAIN log
    BY SMT DEF Init
  <2>2. redelivered \in 0..MaxRedelivered /\ crashes \in 0..MaxCrashes
    BY BoundAssumption, SMT DEF BoundAssumption, Init
  <2>3. tries \in [Events -> Nat]
    BY SMT DEF Init
  <2>4. retryable \in [Workers -> BOOLEAN]
    BY Zenon DEF Init
  <2>5. /\ record \in [Workers -> DOMAIN log \cup {NoRecord}]
        /\ pc \in [Workers -> {"idle", "checking", "processing", "failed", "settled"}]
    BY DEF Init
  <2>6. /\ redis \in RedisStates /\ keys \subseteq Events /\ parked \subseteq Events
        /\ fenced \subseteq Workers /\ succeeded \subseteq Events /\ unsent \subseteq Events
    BY DEF Init
  <2> QED BY <2>1, <2>2, <2>3, <2>4, <2>5, <2>6, Zenon DEF TypeOK
<1>2. DOMAIN log = {}
  BY SMT DEF Init
<1>3. InHand /\ SettledInv /\ CommittedInv
  BY <1>2, SMT DEF Init, InHand, SettledInv, CommittedInv
<1>4. ASSUME NEW e \in Events PROVE tries[e] <= IF e \in keys THEN 1 ELSE 0
  <2>1. tries[e] = 0 /\ e \notin keys
    BY DEF Init
  <2> QED BY <2>1, SMT
<1> QED BY <1>1, <1>3, <1>4 DEF PipelineInv, KeyInv

\* What is said of a record goes on holding while records are appended and
\* events come to their end, as long as nothing is committed.
LEMMA GoesOnIsKept ==
  ASSUME TypeOK, TypeOK', committed' = committed,
         succeeded \subseteq succeeded', parked \subseteq parked',
         \A i \in DOMAIN log : i \in DOMAIN log' /\ log'[i] = log[i],
         NEW e, NEW a, GoesOn(e, a)
  PROVE  \/ e \in succeeded' \cup parked'
         \/ \E i \in DOMAIN log' \ committed' : log'[i].event = e /\ log'[i].attempt > a
BY DEF GoesOn

\* Records stay what they are when one is appended.
LEMMA AppendKeeps ==
  ASSUME TypeOK, NEW r \in Records, log' = Append(log, r)
  PROVE  /\ log' \in Seq(Records)
         /\ DOMAIN log \subseteq DOMAIN log'
         /\ \A i \in DOMAIN log : log'[i] = log[i]
         /\ Len(log) + 1 \in DOMAIN log' /\ Len(log) + 1 \notin DOMAIN log
         /\ log'[Len(log) + 1] = r
<1>1. log \in Seq(Records) /\ Len(log) \in Nat /\ DOMAIN log = 1 .. Len(log)
  BY DEF TypeOK, Records
<1> HIDE DEF Records
<1>2. log' \in Seq(Records) /\ Len(log') = Len(log) + 1 /\ DOMAIN log' = 1 .. Len(log')
  BY <1>1
<1>3. \A i \in DOMAIN log : log'[i] = log[i]
  BY <1>1
<1>4. log'[Len(log) + 1] = r
  BY <1>1
<1> QED BY <1>1, <1>2, <1>3, <1>4

\* A step that commits nothing and loses no record keeps what is said of the
\* settled and the committed ones, if it does so for the records it settles.
LEMMA LedgerIsKept ==
  ASSUME PipelineInv, TypeOK', committed' = committed, redis' = redis,
         succeeded \subseteq succeeded', parked \subseteq parked',
         \A i \in DOMAIN log : i \in DOMAIN log' /\ log'[i] = log[i],
         \A w \in Workers : redis = "down" /\ pc'[w] = "settled" =>
            \/ pc[w] = "settled" /\ record'[w] = record[w]
            \/ GoesOn(Event(w), Attempt(w))'
  PROVE  SettledInv' /\ CommittedInv'
<1>1. \A e, a : GoesOn(e, a) => GoesOn(e, a)'
  BY DEF GoesOn, PipelineInv
<1>2. ASSUME redis = "down", NEW w \in Workers, pc'[w] = "settled"
      PROVE  GoesOn(Event(w), Attempt(w))'
  <2>1. CASE pc[w] = "settled" /\ record'[w] = record[w]
    <3>1. record[w] \in DOMAIN log
      BY <2>1 DEF PipelineInv, InHand
    <3>2. Event(w)' = Event(w) /\ Attempt(w)' = Attempt(w)
      BY <2>1, <3>1 DEF Event, Attempt
    <3>3. GoesOn(Event(w), Attempt(w))
      BY <1>2, <2>1 DEF PipelineInv, SettledInv
    <3>4. \A e, a : GoesOn(e, a) => GoesOn(e, a)'
      BY <1>1
    <3> QED BY <3>2, <3>3, <3>4 DEF GoesOn
  <2> QED BY <1>2, <2>1
<1>3. ASSUME redis = "down", NEW i \in committed'
      PROVE  GoesOn(log[i].event, log[i].attempt)'
  <2>1. i \in DOMAIN log /\ i \in committed
    BY <1>3 DEF PipelineInv, TypeOK
  <2>2. log'[i] = log[i]
    BY <2>1
  <2>3. GoesOn(log[i].event, log[i].attempt)
    BY <1>3, <2>1 DEF PipelineInv, CommittedInv
  <2> QED BY <1>1, <2>2, <2>3 DEF GoesOn
<1> QED BY <1>2, <1>3 DEF SettledInv, CommittedInv

------------------------------------------------------------------------------
(* The actions.                                                              *)

\* A worker that puts its record down, and one that takes its next step.
LEMMA MovesInHand ==
  ASSUME PipelineInv, NEW w \in Workers, DOMAIN log \subseteq DOMAIN log',
         DOMAIN log' \subseteq Nat,
         \/ PutDown(w)
         \/ /\ pc[w] # "idle" /\ record' = record
            /\ \E to \in {"processing", "failed", "settled"} : GoTo(w, to)
  PROVE  /\ InHand'
         /\ record' \in [Workers -> DOMAIN log' \cup {NoRecord}]
         /\ pc' \in [Workers -> {"idle", "checking", "processing", "failed", "settled"}]
         /\ \A v \in Workers \ {w} : pc'[v] = pc[v] /\ record'[v] = record[v]
<1>1. /\ record \in [Workers -> DOMAIN log \cup {NoRecord}]
      /\ pc \in [Workers -> {"idle", "checking", "processing", "failed", "settled"}]
      /\ \A v \in Workers : pc[v] # "idle" <=> record[v] \in DOMAIN log
  BY DEF PipelineInv, TypeOK, InHand
<1>2. CASE PutDown(w)
  BY <1>1, <1>2, RecordAssumption DEF RecordAssumption, PutDown, GoTo, InHand
<1>3. ASSUME pc[w] # "idle", record' = record,
             NEW to \in {"processing", "failed", "settled"}, GoTo(w, to)
      PROVE  /\ InHand'
             /\ record' \in [Workers -> DOMAIN log' \cup {NoRecord}]
             /\ pc' \in [Workers -> {"idle", "checking", "processing", "failed", "settled"}]
             /\ \A v \in Workers \ {w} : pc'[v] = pc[v] /\ record'[v] = record[v]
  BY <1>1, <1>3, RecordAssumption DEF RecordAssumption, GoTo, InHand
<1> QED BY <1>2, <1>3

\* Publishing keeps the invariant: the new record is not committed.
LEMMA PublishKeeps == ASSUME PipelineInv, Publish PROVE PipelineInv'
<1>1. PICK e \in Events : log' = Append(log, [event |-> e, attempt |-> 0])
  BY DEF Publish
<1>2. UNCHANGED <<parked, fetched, committed, redis, keys, record, pc, retryable, fenced,
                  tries, succeeded, unsent, redelivered, crashes>>
  BY DEF Publish, redisVars, workerVars, historyVars, boundVars
<1>3. [event |-> e, attempt |-> 0] \in Records
  BY BoundAssumption, SMT DEF BoundAssumption, Records
<1>4. /\ log' \in Seq(Records) /\ DOMAIN log \subseteq DOMAIN log'
      /\ \A i \in DOMAIN log : log'[i] = log[i]
  BY <1>1, <1>3, AppendKeeps DEF PipelineInv
<1>5. DOMAIN log' \subseteq Nat
  BY <1>4, SMT
<1>6. TypeOK'
  BY <1>2, <1>4 DEF PipelineInv, TypeOK, Records
<1>7. InHand'
  BY <1>2, <1>4, <1>5, RecordAssumption DEF RecordAssumption, PipelineInv, InHand, TypeOK
<1>8. KeyInv'
  BY <1>2 DEF PipelineInv, KeyInv
<1>9. SettledInv' /\ CommittedInv'
  BY <1>2, <1>4, <1>6, LedgerIsKept
<1> QED BY <1>6, <1>7, <1>8, <1>9 DEF PipelineInv

\* Delivery keeps the invariant.
LEMMA DeliveryKeeps ==
  ASSUME PipelineInv, Redeliver \/ \E w \in Workers : Take(w) \/ Crash(w)
  PROVE  PipelineInv'
<1>1. /\ UNCHANGED <<log, parked, committed, redis, keys, tries, succeeded, unsent>>
      /\ DOMAIN log \subseteq Nat
  BY SMT DEF Redeliver, Take, Crash, redisVars, historyVars, PipelineInv, TypeOK
<1>2. KeyInv'
  BY <1>1 DEF PipelineInv, KeyInv
<1>3. CASE Redeliver
  <2>1. /\ UNCHANGED <<record, pc, retryable, crashes>>
        /\ fetched' \subseteq fetched
        /\ redelivered < MaxRedelivered /\ redelivered' = redelivered + 1
        /\ fenced' \subseteq Workers
    BY <1>3 DEF Redeliver, PipelineInv, TypeOK
  <2>2. redelivered' \in 0..MaxRedelivered
    BY <2>1, BoundAssumption, SMT DEF BoundAssumption, PipelineInv, TypeOK
  <2>3. TypeOK' /\ InHand'
    BY <1>1, <2>1, <2>2 DEF PipelineInv, TypeOK, InHand
  <2>4. SettledInv' /\ CommittedInv'
    BY <1>1, <2>1, <2>3, LedgerIsKept
  <2> QED BY <1>2, <2>3, <2>4 DEF PipelineInv
<1>4. ASSUME NEW w \in Workers, Take(w) PROVE PipelineInv'
  <2>1. PICK i \in DOMAIN log \ fetched : record' = [record EXCEPT ![w] = i]
                                           /\ fetched' = fetched \cup {i}
    BY <1>4 DEF Take
  <2>2. /\ pc' = [pc EXCEPT ![w] = "checking"]
        /\ UNCHANGED <<retryable, fenced, redelivered, crashes>>
    BY <1>4 DEF Take, GoTo, boundVars
  <2>3. TypeOK' /\ InHand'
    BY <1>1, <2>1, <2>2 DEF PipelineInv, TypeOK, InHand
  <2>4. \A v \in Workers : pc'[v] = "settled" => pc[v] = "settled" /\ record'[v] = record[v]
    BY <2>1, <2>2 DEF PipelineInv, TypeOK
  <2>5. SettledInv' /\ CommittedInv'
    BY <1>1, <2>3, <2>4, LedgerIsKept
  <2> QED BY <1>2, <2>3, <2>5 DEF PipelineInv
<1>5. ASSUME NEW w \in Workers, Crash(w) PROVE PipelineInv'
  <2>1. /\ PutDown(w) /\ fetched' \subseteq fetched
        /\ crashes < MaxCrashes /\ crashes' = crashes + 1 /\ redelivered' = redelivered
    BY <1>5 DEF Crash
  <2>2. crashes' \in 0..MaxCrashes
    BY <2>1, BoundAssumption, SMT DEF BoundAssumption, PipelineInv, TypeOK
  <2>3. /\ InHand' /\ record' \in [Workers -> DOMAIN log' \cup {NoRecord}]
        /\ pc' \in [Workers -> {"idle", "checking", "processing", "failed", "settled"}]
        /\ \A v \in Workers \ {w} : pc'[v] = pc[v] /\ record'[v] = record[v]
    BY <1>1, <2>1, MovesInHand
  <2>4. retryable' \in [Workers -> BOOLEAN] /\ fenced' \subseteq Workers
    BY <2>1, Zenon DEF PutDown, PipelineInv, TypeOK
  <2>5. TypeOK'
    BY <1>1, <2>1, <2>2, <2>3, <2>4 DEF PipelineInv, TypeOK
  <2>6. pc'[w] = "idle"
    BY <2>1 DEF PutDown, GoTo, PipelineInv, TypeOK
  <2>7. SettledInv' /\ CommittedInv'
    BY <1>1, <2>3, <2>5, <2>6, LedgerIsKept
  <2> QED BY <1>2, <2>3, <2>5, <2>7 DEF PipelineInv
<1> QED BY <1>3, <1>4, <1>5

\* The check of the key, processing and the hand-on keep the invariant.
LEMMA WorkKeeps ==
  ASSUME PipelineInv, NEW w \in Workers,
         CheckNew(w) \/ CheckDuplicate(w) \/ CheckBlind(w) \/ Succeed(w) \/ FailProcessing(w)
  PROVE  PipelineInv'
<1>1. /\ UNCHANGED <<log, parked, fetched, committed, redis, record, fenced, unsent,
                     redelivered, crashes>>
      /\ pc[w] # "idle"
      /\ \E to \in {"processing", "failed", "settled"} : GoTo(w, to)
      /\ DOMAIN log \subseteq Nat
  BY SMT DEF CheckNew, CheckDuplicate, CheckBlind, Succeed, FailProcessing, Begin,
             redisVars, historyVars, boundVars, PipelineInv, TypeOK
<1>2. Event(w) \in Events
  <2>1. record[w] \in DOMAIN log /\ log \in Seq(Records)
    BY <1>1 DEF PipelineInv, InHand, TypeOK, Records
  <2>2. log[record[w]] \in Records
    BY <2>1, SMT
  <2> QED BY <2>2 DEF Event, Records
<1>3. /\ InHand' /\ record' \in [Workers -> DOMAIN log' \cup {NoRecord}]
      /\ pc' \in [Workers -> {"idle", "checking", "processing", "failed", "settled"}]
      /\ \A v \in Workers \ {w} : pc'[v] = pc[v] /\ record'[v] = record[v]
  BY <1>1, MovesInHand
<1>4. /\ keys' \subseteq Events /\ succeeded \subseteq succeeded' /\ succeeded' \subseteq Events
      /\ tries' \in [Events -> Nat]
  BY <1>2, SMT DEF CheckNew, CheckDuplicate, CheckBlind, Succeed, FailProcessing, Begin,
             redisVars, historyVars, PipelineInv, TypeOK
<1>5. retryable' \in [Workers -> BOOLEAN]
  <2>1. retryable \in [Workers -> BOOLEAN]
    BY DEF PipelineInv, TypeOK
  <2>2. retryable' = retryable \/ \E again \in BOOLEAN : retryable' = [retryable EXCEPT ![w] = again]
    BY DEF CheckNew, CheckDuplicate, CheckBlind, Succeed, FailProcessing
  <2> QED BY <2>1, <2>2, Zenon
<1>6. TypeOK'
  BY <1>1, <1>3, <1>4, <1>5 DEF PipelineInv, TypeOK
<1>7. redis = "down" /\ pc'[w] = "settled" => GoesOn(Event(w), Attempt(w))'
  <2>1. redis = "down" /\ pc'[w] = "settled" => Event(w) \in succeeded'
    BY DEF CheckNew, CheckDuplicate, CheckBlind, Succeed, FailProcessing, Begin, GoTo,
           PipelineInv, TypeOK
  <2>2. Event(w)' = Event(w)
    BY <1>1 DEF Event
  <2> QED BY <2>1, <2>2 DEF GoesOn
<1>8. SettledInv' /\ CommittedInv'
  BY <1>1, <1>3, <1>4, <1>6, <1>7, LedgerIsKept
<1>9. KeyInv'
  <2>1. CASE CheckNew(w)
    <3>1. /\ redis' = redis /\ Event(w) \notin keys /\ keys' = keys \cup {Event(w)}
          /\ tries' = [tries EXCEPT ![Event(w)] = @ + 1] /\ tries \in [Events -> Nat]
      BY <2>1 DEF CheckNew, Begin, PipelineInv, TypeOK
    <3> QED BY <1>2, <3>1, SMT DEF PipelineInv, KeyInv
  <2>2. CASE CheckBlind(w)
    BY <1>1, <2>2 DEF CheckBlind, KeyInv
  <2>3. CASE CheckDuplicate(w) \/ Succeed(w) \/ FailProcessing(w)
    BY <2>3 DEF CheckDuplicate, Succeed, FailProcessing, redisVars, historyVars, KeyInv, PipelineInv
  <2> QED BY <2>1, <2>2, <2>3
<1> QED BY <1>3, <1>6, <1>8, <1>9 DEF PipelineInv

\* Handing on keeps the invariant: the event is parked, or its next attempt is
\* a record that nobody has committed.
LEMMA HandOnKeeps ==
  ASSUME PipelineInv, NEW w \in Workers, HandOn(w) \/ HandOnFails(w)
  PROVE  PipelineInv'
<1>1. /\ UNCHANGED <<fetched, committed, redis, keys, tries, succeeded, redelivered, crashes>>
      /\ pc[w] = "failed" /\ log \in Seq(Records) /\ parked \subseteq Events
      /\ committed \subseteq DOMAIN log
      /\ Send(w) \/ UNCHANGED <<log, parked>>
  BY DEF HandOn, HandOnFails, redisVars, historyVars, boundVars, PipelineInv, TypeOK, Records
<1>2. record[w] \in DOMAIN log /\ log[record[w]] \in Records
  <2>1. record[w] \in DOMAIN log
    BY <1>1 DEF PipelineInv, InHand
  <2> QED BY <1>1, <2>1, SMT
<1>3. Event(w) \in Events /\ Attempt(w) \in 0..MaxAttempts
  BY <1>2 DEF Event, Attempt, Records
<1> DEFINE next == [event |-> Event(w), attempt |-> Attempt(w) + 1]
<1>4. Send(w) => \/ parked' = parked \cup {Event(w)} /\ log' = log
                 \/ /\ next \in Records /\ log' = Append(log, next) /\ parked' = parked
  <2>1. Attempt(w) < MaxAttempts => next \in Records
    BY <1>3, BoundAssumption, SMT DEF BoundAssumption, Records
  <2> QED BY <2>1 DEF Send
<1>5. next.event = Event(w) /\ next.attempt = Attempt(w) + 1 /\ Attempt(w) + 1 > Attempt(w)
  BY <1>3, SMT
<1> HIDE DEF next
<1>6. /\ log' \in Seq(Records) /\ DOMAIN log \subseteq DOMAIN log'
      /\ \A i \in DOMAIN log : log'[i] = log[i]
      /\ parked \subseteq parked' /\ parked' \subseteq Events
  BY <1>1, <1>3, <1>4, AppendKeeps DEF PipelineInv
<1>7. DOMAIN log' \subseteq Nat
  BY <1>6, SMT
<1>8. /\ InHand' /\ record' \in [Workers -> DOMAIN log' \cup {NoRecord}]
      /\ pc' \in [Workers -> {"idle", "checking", "processing", "failed", "settled"}]
      /\ \A v \in Workers \ {w} : pc'[v] = pc[v] /\ record'[v] = record[v]
  <2>1. PutDown(w) \/ (GoTo(w, "settled") /\ record' = record)
    BY DEF HandOn, HandOnFails
  <2>2. pc[w] # "idle"
    BY <1>1
  <2> QED BY <1>6, <1>7, <2>1, <2>2, MovesInHand
<1>9. TypeOK'
  <2>1. retryable' \in [Workers -> BOOLEAN]
    <3>1. retryable \in [Workers -> BOOLEAN]
      BY DEF PipelineInv, TypeOK
    <3>2. retryable' = retryable \/ retryable' = [retryable EXCEPT ![w] = FALSE]
      BY DEF HandOn, HandOnFails, PutDown
    <3> QED BY <3>1, <3>2, Zenon
  <2>2. fenced' \subseteq Workers /\ unsent' \subseteq Events
    BY <1>3 DEF HandOn, HandOnFails, PutDown, historyVars, PipelineInv, TypeOK
  <2>3. fetched' \subseteq DOMAIN log' /\ committed' \subseteq DOMAIN log'
    BY <1>1, <1>6 DEF PipelineInv, TypeOK
  <2> QED BY <1>1, <1>6, <1>8, <2>1, <2>2, <2>3 DEF PipelineInv, TypeOK, Records
<1>10. pc'[w] = "settled" => GoesOn(Event(w), Attempt(w))'
  <2> SUFFICES ASSUME pc'[w] = "settled" PROVE GoesOn(Event(w), Attempt(w))'
    OBVIOUS
  <2>1. HandOn(w)
    BY DEF HandOnFails, PutDown, GoTo, PipelineInv, TypeOK
  <2>2. Send(w) /\ record' = record
    BY <2>1 DEF HandOn
  <2>3. Event(w)' = Event(w) /\ Attempt(w)' = Attempt(w)
    BY <1>2, <1>6, <2>2 DEF Event, Attempt
  <2>4. CASE parked' = parked \cup {Event(w)}
    BY <2>3, <2>4 DEF GoesOn
  <2>5. CASE next \in Records /\ log' = Append(log, next)
    <3>1. /\ Len(log) + 1 \in DOMAIN log' /\ Len(log) + 1 \notin committed'
          /\ log'[Len(log) + 1] = next
      BY <1>1, <2>5, AppendKeeps DEF PipelineInv
    <3> QED BY <1>5, <2>3, <3>1 DEF GoesOn
  <2> QED BY <1>4, <2>2, <2>4, <2>5
<1>11. SettledInv' /\ CommittedInv'
  BY <1>1, <1>6, <1>8, <1>9, <1>10, LedgerIsKept
<1>12. KeyInv'
  BY <1>1 DEF PipelineInv, KeyInv
<1> QED BY <1>8, <1>9, <1>11, <1>12 DEF PipelineInv

\* A commit keeps the invariant: whoever waited for the committed record waits
\* for the one it was handed on to, whose attempt is later still.
LEMMA CommitKeeps == ASSUME PipelineInv, NEW w \in Workers, Commit(w) PROVE PipelineInv'
<1>1. /\ UNCHANGED <<log, parked, fetched, redis, keys, tries, succeeded, unsent, redelivered,
                     crashes>>
      /\ PutDown(w) /\ pc[w] = "settled"
      /\ committed \subseteq committed' /\ committed' \subseteq committed \cup {record[w]}
      /\ log \in Seq(Records) /\ DOMAIN log \subseteq Nat
  BY SMT DEF Commit, redisVars, historyVars, boundVars, PipelineInv, TypeOK, Records
<1>2. record[w] \in DOMAIN log /\ DOMAIN log' \subseteq Nat
  BY <1>1 DEF PipelineInv, InHand
<1>3. /\ InHand' /\ record' \in [Workers -> DOMAIN log' \cup {NoRecord}]
      /\ pc' \in [Workers -> {"idle", "checking", "processing", "failed", "settled"}]
      /\ \A v \in Workers \ {w} : pc'[v] = pc[v] /\ record'[v] = record[v]
  BY <1>1, <1>2, MovesInHand
<1>4. TypeOK'
  <2>1. retryable' \in [Workers -> BOOLEAN] /\ fenced' \subseteq Workers
    BY <1>1, Zenon DEF PutDown, PipelineInv, TypeOK
  <2>2. committed' \subseteq DOMAIN log'
    BY <1>1, <1>2 DEF PipelineInv, TypeOK
  <2> QED BY <1>1, <1>3, <2>1, <2>2 DEF PipelineInv, TypeOK
<1>5. redis = "down" => GoesOn(Event(w), Attempt(w))
  BY <1>1 DEF PipelineInv, SettledInv
<1>6. ASSUME redis = "down", NEW e, NEW a \in Nat, GoesOn(e, a) PROVE GoesOn(e, a)'
  <2>1. CASE e \in succeeded \cup parked
    BY <1>1, <2>1 DEF GoesOn
  <2>2. ASSUME NEW i \in DOMAIN log \ committed, log[i].event = e, log[i].attempt > a
        PROVE  GoesOn(e, a)'
    <3>1. CASE i # record[w]
      BY <1>1, <2>2, <3>1 DEF GoesOn
    <3>2. CASE i = record[w]
      <4>1. Event(w) = e /\ Attempt(w) > a
        BY <2>2, <3>2 DEF Event, Attempt
      <4>2. CASE e \in succeeded \cup parked
        BY <1>1, <4>2 DEF GoesOn
      <4>3. ASSUME NEW j \in DOMAIN log \ committed, log[j].event = e,
                   log[j].attempt > Attempt(w)
            PROVE  GoesOn(e, a)'
        <5>1. log[j] \in Records /\ log[record[w]] \in Records
          BY <1>1, <1>2, SMT
        <5>2. log[j].attempt \in Nat /\ Attempt(w) \in Nat
          BY <5>1, BoundAssumption, SMT DEF BoundAssumption, Records, Attempt
        <5>3. log[j].attempt > a /\ j # record[w]
          BY <4>1, <4>3, <5>2, SMT DEF Attempt
        <5> QED BY <1>1, <4>3, <5>3 DEF GoesOn
      <4> QED BY <1>5, <1>6, <4>1, <4>2, <4>3 DEF GoesOn
    <3> QED BY <3>1, <3>2
  <2> QED BY <1>6, <2>1, <2>2 DEF GoesOn
<1>7. \A i \in DOMAIN log : log[i].attempt \in Nat
  <2> SUFFICES ASSUME NEW i \in DOMAIN log PROVE log[i].attempt \in Nat
    OBVIOUS
  <2>1. log[i] \in Records
    BY <1>1, SMT
  <2> QED BY <2>1, BoundAssumption, SMT DEF BoundAssumption, Records
<1>8. ASSUME redis = "down", NEW v \in Workers, pc'[v] = "settled"
      PROVE  GoesOn(Event(v), Attempt(v))'
  <2>1. v # w
    BY <1>1, <1>8 DEF PutDown, GoTo, PipelineInv, TypeOK
  <2>2. pc[v] = "settled" /\ record'[v] = record[v] /\ record[v] \in DOMAIN log
    BY <1>3, <1>8, <2>1 DEF PipelineInv, InHand
  <2>3. GoesOn(Event(v), Attempt(v)) /\ Attempt(v) \in Nat
    BY <1>7, <1>8, <2>2 DEF PipelineInv, SettledInv, Attempt
  <2>4. Event(v)' = Event(v) /\ Attempt(v)' = Attempt(v)
    BY <1>1, <2>2 DEF Event, Attempt
  <2> QED BY <1>6, <1>8, <2>3, <2>4 DEF GoesOn
<1>9. ASSUME redis = "down", NEW i \in committed' PROVE GoesOn(log[i].event, log[i].attempt)'
  <2>1. GoesOn(log[i].event, log[i].attempt) /\ log[i].attempt \in Nat
    <3>1. CASE i \in committed
      BY <1>7, <1>9, <3>1 DEF PipelineInv, CommittedInv, TypeOK
    <3>2. CASE i = record[w]
      BY <1>2, <1>5, <1>7, <1>9, <3>2 DEF Event, Attempt
    <3> QED BY <1>1, <3>1, <3>2
  <2> QED BY <1>1, <1>6, <1>9, <2>1 DEF GoesOn
<1>10. SettledInv' /\ CommittedInv'
  BY <1>1, <1>8, <1>9 DEF SettledInv, CommittedInv
<1>11. KeyInv'
  BY <1>1 DEF PipelineInv, KeyInv
<1> QED BY <1>3, <1>4, <1>10, <1>11 DEF PipelineInv

------------------------------------------------------------------------------
(* What an event may be forgotten for.                                       *)

\* Where a processing has begun: at a worker past the check of the key, which
\* with Redis up is so for a duplicate as well; at a key that is set; and with
\* Redis up at every record that is committed.
BegunAt(w) == pc[w] \in {"processing", "failed"} \/ (redis = "up" /\ pc[w] = "settled")

BegunInv ==
  /\ \A w \in Workers : BegunAt(w) => tries[Event(w)] > 0
  /\ redis = "up" => \A e \in keys : tries[e] > 0
  /\ redis = "up" => \A i \in committed : tries[log[i].event] > 0

\* The parts of a record.
LEMMA RecordSays ==
  ASSUME PipelineInv, NEW i \in DOMAIN log
  PROVE  log[i] \in Records /\ log[i].event \in Events /\ log[i].attempt \in Nat
<1>0. log \in Seq(Records)
  BY DEF PipelineInv, TypeOK, Records
<1>1. log[i] \in Records
  BY <1>0, SMT
<1> QED BY <1>1, BoundAssumption, SMT DEF BoundAssumption, Records

\* A worker at work has the record of an event in hand.
LEMMA HandSays ==
  ASSUME PipelineInv, NEW w \in Workers, pc[w] # "idle"
  PROVE  record[w] \in DOMAIN log /\ Event(w) \in Events /\ tries[Event(w)] \in Nat
BY RecordSays DEF PipelineInv, InHand, TypeOK, Event

\* A worker with nothing begun, one that stands still, and one with an event begun.
Begins(w) ==
  \/ pc'[w] \in {"idle", "checking"}
  \/ pc'[w] = pc[w] /\ record'[w] = record[w]
  \/ tries'[Event(w)'] > 0

\* What was begun stays begun, as long as what is new was begun as well.
LEMMA BegunIsKept ==
  ASSUME PipelineInv, BegunInv, redis' = redis,
         \A e \in Events : tries[e] > 0 => tries'[e] > 0,
         \A i \in DOMAIN log : i \in DOMAIN log' /\ log'[i] = log[i],
         \A v \in Workers : Begins(v),
         redis = "up" => \A e \in keys' : e \in keys \/ tries'[e] > 0,
         redis = "up" => \A i \in committed' : i \in committed \/ tries'[log'[i].event] > 0
  PROVE  BegunInv'
<1>1. ASSUME NEW v \in Workers, BegunAt(v)'
      PROVE  tries'[Event(v)'] > 0
  <2>1. CASE pc'[v] = pc[v] /\ record'[v] = record[v]
    <3>1. BegunAt(v) /\ pc[v] # "idle"
      BY <1>1, <2>1 DEF BegunAt
    <3>2. record[v] \in DOMAIN log /\ Event(v) \in Events /\ tries[Event(v)] > 0
      BY <3>1, HandSays DEF BegunInv
    <3>3. Event(v)' = Event(v)
      BY <2>1, <3>2 DEF Event
    <3> QED BY <3>2, <3>3
  <2> QED BY <1>1, <2>1 DEF BegunAt, Begins
<1>2. ASSUME redis' = "up", NEW e \in keys'
      PROVE  tries'[e] > 0
  BY <1>2 DEF BegunInv, PipelineInv, TypeOK
<1>3. ASSUME redis' = "up", NEW i \in committed'
      PROVE  tries'[log'[i].event] > 0
  <2>1. CASE i \in committed
    <3>1. i \in DOMAIN log /\ log[i].event \in Events /\ tries[log[i].event] > 0
      BY <1>3, <2>1, RecordSays DEF BegunInv, PipelineInv, TypeOK
    <3> QED BY <3>1
  <2> QED BY <1>3, <2>1
<1> QED BY <1>1, <1>2, <1>3 DEF BegunInv

\* Publishing and delivery begin nothing.
LEMMA DeliveryBegins ==
  ASSUME PipelineInv, BegunInv,
         Publish \/ Redeliver \/ \E w \in Workers : Take(w) \/ Crash(w)
  PROVE  BegunInv'
<1>1. /\ UNCHANGED <<redis, keys, committed, tries>>
      /\ \A v \in Workers : Begins(v)
  BY DEF Begins, Publish, Redeliver, Take, Crash, PutDown, GoTo, redisVars, workerVars, historyVars,
         PipelineInv, TypeOK
<1>2. \A i \in DOMAIN log : i \in DOMAIN log' /\ log'[i] = log[i]
  <2>1. CASE Publish
    <3>1. PICK e \in Events : log' = Append(log, [event |-> e, attempt |-> 0])
      BY <2>1 DEF Publish
    <3>2. [event |-> e, attempt |-> 0] \in Records
      BY BoundAssumption, SMT DEF BoundAssumption, Records
    <3> QED BY <3>1, <3>2, AppendKeeps DEF PipelineInv
  <2>2. CASE Redeliver \/ \E w \in Workers : Take(w) \/ Crash(w)
    BY <2>2 DEF Redeliver, Take, Crash
  <2> QED BY <2>1, <2>2
<1> QED BY <1>1, <1>2, BegunIsKept

\* The next attempt of a record is a record.
LEMMA SendSays ==
  ASSUME PipelineInv, NEW w \in Workers, pc[w] # "idle", Send(w)
  PROVE  \/ log' = log /\ parked' = parked \cup {Event(w)}
         \/ /\ parked' = parked
            /\ \E r \in Records : r.event = Event(w) /\ log' = Append(log, r)
<1>1. record[w] \in DOMAIN log /\ Event(w) \in Events
  BY HandSays
<1>2. log[record[w]] \in Records
  BY <1>1, RecordSays
<1>3. Attempt(w) \in 0..MaxAttempts
  BY <1>2 DEF Records, Attempt
<1>4. Attempt(w) < MaxAttempts => [event |-> Event(w), attempt |-> Attempt(w) + 1] \in Records
  BY <1>1, <1>3, BoundAssumption, SMT DEF BoundAssumption, Records
<1> QED BY <1>4 DEF Send

\* A worker begins an event where it counts it, and settles and commits, with
\* Redis up, only what was begun.
LEMMA WorkBegins ==
  ASSUME PipelineInv, BegunInv, NEW w \in Workers, Work(w)
  PROVE  BegunInv'
<1>1. /\ pc[w] # "idle" /\ redis' = redis /\ tries \in [Events -> Nat]
      /\ pc \in [Workers -> {"idle", "checking", "processing", "failed", "settled"}]
      /\ record \in [Workers -> DOMAIN log \cup {NoRecord}]
  BY DEF Work, CheckNew, CheckDuplicate, CheckBlind, Succeed, FailProcessing, HandOn,
         HandOnFails, Commit, redisVars, PipelineInv, TypeOK
<1>2. record[w] \in DOMAIN log /\ Event(w) \in Events
  BY <1>1, HandSays
<1>3. CASE CheckNew(w) \/ CheckBlind(w)
  <2>1. /\ UNCHANGED <<log, record, committed>>
        /\ tries' = [tries EXCEPT ![Event(w)] = @ + 1]
        /\ pc' = [pc EXCEPT ![w] = "processing"]
        /\ keys' \subseteq keys \cup {Event(w)}
    BY <1>3 DEF CheckNew, CheckBlind, Begin, GoTo, redisVars
  <2>2. tries'[Event(w)] > 0 /\ \A e \in Events : tries[e] > 0 => tries'[e] > 0
    BY <1>1, <1>2, <2>1
  <2>3. Event(w)' = Event(w)
    BY <2>1 DEF Event
  <2>4. \A v \in Workers : Begins(v)
    BY <1>1, <2>1, <2>2, <2>3 DEF Begins
  <2> QED BY <1>1, <2>1, <2>2, <2>3, <2>4, BegunIsKept
<1>4. CASE CheckDuplicate(w) \/ Succeed(w) \/ FailProcessing(w)
  <2>1. /\ UNCHANGED <<log, record, committed, keys, tries>>
        /\ \/ pc' = [pc EXCEPT ![w] = "settled"]
           \/ pc' = [pc EXCEPT ![w] = "failed"]
        /\ pc[w] = "processing" \/ (redis = "up" /\ Event(w) \in keys)
    BY <1>4 DEF CheckDuplicate, Succeed, FailProcessing, GoTo, redisVars, historyVars
  <2>2. tries'[Event(w)'] > 0
    BY <2>1 DEF BegunInv, BegunAt, Event
  <2>3. \A v \in Workers : Begins(v)
    BY <1>1, <2>1, <2>2 DEF Begins
  <2> QED BY <1>1, <2>1, <2>2, <2>3, BegunIsKept
<1>5. CASE HandOn(w) \/ HandOnFails(w)
  <2>1. /\ UNCHANGED <<committed, keys, tries>> /\ pc[w] = "failed"
        /\ Send(w) \/ log' = log
        /\ \/ pc' = [pc EXCEPT ![w] = "settled"] /\ record' = record
           \/ PutDown(w)
    BY <1>5 DEF HandOn, HandOnFails, GoTo, redisVars, historyVars
  <2>2. \A i \in DOMAIN log : i \in DOMAIN log' /\ log'[i] = log[i]
    BY <1>1, <2>1, SendSays, AppendKeeps DEF PipelineInv
  <2>3. tries[Event(w)] > 0
    BY <2>1 DEF BegunInv, BegunAt
  <2>4. record' = record => Event(w)' = Event(w)
    BY <1>2, <2>2 DEF Event
  <2>5. \A v \in Workers : Begins(v)
    BY <1>1, <2>1, <2>3, <2>4 DEF Begins, PutDown, GoTo
  <2> QED BY <1>1, <2>1, <2>2, <2>5, BegunIsKept
<1>6. CASE Commit(w)
  <2>1. /\ UNCHANGED <<log, keys, tries>> /\ pc[w] = "settled" /\ PutDown(w)
        /\ committed' \subseteq committed \cup {record[w]}
    BY <1>6 DEF Commit, redisVars, historyVars
  <2>2. redis = "up" => tries'[log'[record[w]].event] > 0
    BY <2>1 DEF BegunInv, BegunAt, Event
  <2>3. \A v \in Workers : Begins(v)
    BY <1>1, <2>1 DEF Begins, PutDown, GoTo
  <2> QED BY <1>1, <2>1, <2>2, <2>3, BegunIsKept
<1> QED BY <1>3, <1>4, <1>5, <1>6 DEF Work
------------------------------------------------------------------------------
(* Each step is one of the promise.                                          *)

\* A step in which none of the promise's variables changes.
Rests == UNCHANGED <<redis, Due, tries, succeeded, parked>>

\* A record that is appended makes its event due.
LEMMA AppendMakesDue ==
  ASSUME PipelineInv, NEW r \in Records, log' = Append(log, r), committed' = committed
  PROVE  r.event \in Events /\ Due' = Due \cup {r.event}
<1>1. log \in Seq(Records) /\ committed \subseteq DOMAIN log /\ r.event \in Events
  BY DEF PipelineInv, TypeOK, Records
<1>2. DOMAIN log' = DOMAIN log \cup {Len(log) + 1}
  BY <1>1, SMT
<1>3. /\ \A i \in DOMAIN log : log'[i] = log[i]
      /\ Len(log) + 1 \notin DOMAIN log /\ log'[Len(log) + 1] = r
  BY AppendKeeps DEF PipelineInv
<1>4. ASSUME NEW e \in Events
      PROVE  (\E i \in DOMAIN log' \ committed' : log'[i].event = e)
               <=> e = r.event \/ \E i \in DOMAIN log \ committed : log[i].event = e
  BY <1>1, <1>2, <1>3
<1> QED BY <1>1, <1>4 DEF Due

LEMMA PublishMaps ==
  ASSUME PipelineInv, Publish
  PROVE  \E e \in Events : Promise!Publish(e)
<1>1. PICK e \in Events : log' = Append(log, [event |-> e, attempt |-> 0])
  BY DEF Publish
<1> DEFINE r == [event |-> e, attempt |-> 0]
<1>2. r \in Records /\ r.event = e
  BY BoundAssumption, SMT DEF BoundAssumption, Records
<1>3. log' = Append(log, r) /\ UNCHANGED <<committed, redis, tries, succeeded, parked>>
  BY <1>1 DEF Publish, redisVars, historyVars
<1> HIDE DEF r
<1>4. Due' = Due \cup {e}
  BY <1>2, <1>3, AppendMakesDue
<1> QED BY <1>3, <1>4 DEF Promise!Publish

\* An event in a worker's hands is due, if its key has not been set, and is due
\* or over where there are no keys.
LEMMA CheckMaps ==
  ASSUME PipelineInv, BegunInv, NEW w \in Workers, CheckNew(w) \/ CheckBlind(w)
  PROVE  Promise!Begin(Event(w))
<1>1. /\ UNCHANGED <<log, committed, redis, succeeded, parked>>
      /\ tries' = [tries EXCEPT ![Event(w)] = @ + 1]
      /\ pc[w] # "idle"
      /\ (redis = "up" /\ Event(w) \notin keys) \/ redis = "down"
  BY DEF CheckNew, CheckBlind, Begin, redisVars
<1>2. record[w] \in DOMAIN log /\ Event(w) \in Events /\ tries[Event(w)] \in Nat
  BY <1>1, HandSays
<1>3. Due' = Due
  BY <1>1 DEF Due
<1>4. CASE redis = "up"
  <2>1. tries[Event(w)] = 0
    BY <1>1, <1>2, <1>4, SMT DEF PipelineInv, KeyInv
  <2>2. record[w] \notin committed
    BY <1>4, <2>1 DEF BegunInv, Event
  <2>3. Event(w) \in Due
    BY <1>2, <2>2 DEF Due, Event
  <2> QED BY <1>1, <1>3, <2>1, <2>3 DEF Promise!Begin
<1>5. CASE redis = "down"
  <2>1. Event(w) \in succeeded \cup parked \/ Event(w) \in Due
    BY <1>2, <1>5, InvariantSays DEF AccountedWithoutKeys, Accounted, Written, Due, Event
  <2> QED BY <1>1, <1>3, <1>5, <2>1 DEF Promise!Begin
<1> QED BY <1>1, <1>4, <1>5

LEMMA SucceedMaps ==
  ASSUME PipelineInv, BegunInv, NEW w \in Workers, Succeed(w)
  PROVE  Event(w) \in Events /\ Promise!Conclude(Event(w))
<1>1. /\ UNCHANGED <<log, committed, redis, tries, parked>> /\ pc[w] = "processing"
      /\ succeeded' = succeeded \cup {Event(w)}
  BY DEF Succeed, redisVars
<1>2. Due' = Due
  BY <1>1 DEF Due
<1>3. Event(w) \in Events /\ tries[Event(w)] > 0
  BY <1>1, HandSays DEF BegunInv, BegunAt
<1> QED BY <1>1, <1>2, <1>3 DEF Promise!Conclude

LEMMA HandOnMaps ==
  ASSUME PipelineInv, BegunInv, NEW w \in Workers, HandOn(w) \/ HandOnFails(w)
  PROVE  Rests \/ \E e \in Events : Promise!Publish(e) \/ Promise!Conclude(e)
<1>1. /\ UNCHANGED <<committed, redis, tries, succeeded>> /\ pc[w] = "failed"
      /\ Send(w) \/ UNCHANGED <<log, parked>>
  BY DEF HandOn, HandOnFails, redisVars, historyVars
<1>2. Event(w) \in Events /\ tries[Event(w)] > 0
  BY <1>1, HandSays DEF BegunInv, BegunAt
<1>3. CASE UNCHANGED <<log, parked>>
  BY <1>1, <1>3 DEF Rests, Due
<1>4. CASE log' = log /\ parked' = parked \cup {Event(w)}
  <2>1. Due' = Due
    BY <1>1, <1>4 DEF Due
  <2>2. Promise!Conclude(Event(w))
    BY <1>1, <1>2, <1>4, <2>1 DEF Promise!Conclude
  <2> QED BY <1>2, <2>2
<1>5. ASSUME NEW r \in Records, r.event = Event(w), log' = Append(log, r), parked' = parked
      PROVE  Promise!Publish(Event(w))
  <2>1. Due' = Due \cup {Event(w)}
    BY <1>1, <1>5, AppendMakesDue
  <2> QED BY <1>1, <1>5, <2>1 DEF Promise!Publish
<1> QED BY <1>1, <1>2, <1>3, <1>4, <1>5, SendSays

\* A commit of the last record of an event forgets it.
LEMMA CommitMaps ==
  ASSUME PipelineInv, BegunInv, NEW w \in Workers, Commit(w)
  PROVE  Rests \/ (Event(w) \in Events /\ Promise!Forget(Event(w)))
<1>1. /\ UNCHANGED <<log, redis, tries, succeeded, parked>> /\ pc[w] = "settled"
      /\ committed' = committed \/ committed' = committed \cup {record[w]}
  BY DEF Commit, redisVars, historyVars
<1>2. record[w] \in DOMAIN log /\ Event(w) \in Events
  BY <1>1, HandSays
<1>3. CASE Due' = Due
  BY <1>1, <1>3 DEF Rests
<1>4. CASE Due' # Due
  <2>1. committed' = committed \cup {record[w]}
    BY <1>1, <1>4 DEF Due
  <2>2. ASSUME NEW e \in Events, e # Event(w)
        PROVE  e \in Due' <=> e \in Due
    BY <1>1, <2>1, <2>2 DEF Due, Event
  <2>3. Due' \subseteq Due /\ Due \subseteq Events /\ Due' \subseteq Events
    BY <1>1, <2>1 DEF Due
  <2>4. Event(w) \notin Due' /\ Due' = Due \ {Event(w)}
    BY <1>4, <2>2, <2>3
  <2>5. ASSUME redis = "up"
        PROVE  tries[Event(w)] > 0
    BY <1>1, <2>5 DEF BegunInv, BegunAt
  <2>6. ASSUME redis # "up"
        PROVE  Event(w) \in succeeded \cup parked
    <3>1. GoesOn(Event(w), Attempt(w))
      BY <1>1, <2>6, RedisAssumption DEF RedisAssumption, PipelineInv, TypeOK, SettledInv
    <3>2. ASSUME NEW i \in DOMAIN log \ committed, log[i].event = Event(w),
                 log[i].attempt > Attempt(w)
          PROVE  FALSE
      <4>1. log[i].attempt \in Nat /\ Attempt(w) \in Nat
        BY <1>2, RecordSays DEF Attempt
      <4>2. i # record[w]
        BY <3>2, <4>1, SMT DEF Attempt
      <4>3. i \in DOMAIN log' \ committed' /\ log'[i].event = Event(w)
        BY <1>1, <2>1, <3>2, <4>2
      <4> QED BY <1>2, <2>4, <4>3 DEF Due
    <3> QED BY <3>1, <3>2 DEF GoesOn
  <2> QED BY <1>1, <1>2, <2>4, <2>5, <2>6 DEF Promise!Forget
<1> QED BY <1>3, <1>4

\* Every step of the pipeline is a step of the promise, or none.
LEMMA StepsMap ==
  PipelineInv /\ BegunInv /\ [Next]_vars => [Promise!Next]_(Promise!fateVars)
<1> SUFFICES ASSUME PipelineInv, BegunInv, [Next]_vars
             PROVE  [Promise!Next]_(Promise!fateVars)
  OBVIOUS
<1>1. Rests => UNCHANGED Promise!fateVars
  BY DEF Rests, Promise!fateVars
<1>2. CASE UNCHANGED vars
  BY <1>1, <1>2 DEF vars, redisVars, historyVars, Rests, Due
<1>3. CASE Redeliver \/ \E w \in Workers : Take(w) \/ Crash(w)
  BY <1>1, <1>3 DEF Redeliver, Take, Crash, redisVars, historyVars, Rests, Due
<1>4. CASE Publish
  BY <1>4, PublishMaps DEF Promise!Next
<1>5. ASSUME NEW w \in Workers, CheckNew(w) \/ CheckBlind(w)
      PROVE  Promise!Next
  <2>1. Event(w) \in Events
    BY <1>5, HandSays DEF CheckNew, CheckBlind
  <2> QED BY <1>5, <2>1, CheckMaps DEF Promise!Next
<1>6. ASSUME NEW w \in Workers, CheckDuplicate(w) \/ FailProcessing(w)
      PROVE  UNCHANGED Promise!fateVars
  BY <1>1, <1>6 DEF CheckDuplicate, FailProcessing, redisVars, historyVars, Rests, Due
<1>7. ASSUME NEW w \in Workers,
             Succeed(w) \/ HandOn(w) \/ HandOnFails(w) \/ Commit(w)
      PROVE  [Promise!Next]_(Promise!fateVars)
  BY <1>1, <1>7, SucceedMaps, HandOnMaps, CommitMaps DEF Promise!Next
<1> QED BY <1>2, <1>3, <1>4, <1>5, <1>6, <1>7 DEF Next, Work
------------------------------------------------------------------------------
(* Theorems. *)

\* The invariant holds in every reachable state.
LEMMA PipelineIsCorrect == Spec => []PipelineInv
<1>1. Init => PipelineInv
  BY StartsWell
<1>2. PipelineInv /\ [Next]_vars => PipelineInv'
  <2> SUFFICES ASSUME PipelineInv, [Next]_vars PROVE PipelineInv'
    OBVIOUS
  <2>1. CASE Publish
    BY <2>1, PublishKeeps
  <2>2. CASE Redeliver \/ \E w \in Workers : Take(w) \/ Crash(w)
    BY <2>2, DeliveryKeeps
  <2>3. ASSUME NEW w \in Workers, Work(w) PROVE PipelineInv'
    BY <2>3, WorkKeeps, HandOnKeeps, CommitKeeps DEF Work
  <2>4. CASE UNCHANGED vars
    BY <2>4 DEF vars, redisVars, workerVars, historyVars, boundVars, PipelineInv, TypeOK,
            InHand, KeyInv, SettledInv, CommittedInv, GoesOn, Event, Attempt
  <2> QED BY <2>1, <2>2, <2>3, <2>4 DEF Next
<1> QED BY <1>1, <1>2, PTL DEF Spec

\* Type correctness of the pipeline, for any events, workers and faults.
THEOREM PipelineIsTyped == Spec => []TypeOK
<1>1. PipelineInv => TypeOK
  BY DEF PipelineInv
<1> QED BY <1>1, PipelineIsCorrect, PTL

\* With Redis up the idempotency key (main.py, check_idempotency) lets the
\* processing of an event begin at most once, however often and by however
\* many workers it is delivered.
THEOREM BeginsOnce == Spec => []BegunOnce
<1>1. PipelineInv => BegunOnce
  BY InvariantSays
<1> QED BY <1>1, PipelineIsCorrect, PTL

\* With Redis down the retry topics, the dead-letter topic and the commits
\* alone lose no event (_handle_failure, kafka_pipeline.py).
THEOREM NothingIsLost == Spec => []AccountedWithoutKeys
<1>1. PipelineInv => AccountedWithoutKeys
  BY InvariantSays
<1> QED BY <1>1, PipelineIsCorrect, PTL

\* The pipeline keeps its promise to each event: with Redis up the idempotency
\* key lets it begin once, and no commit forgets it before (main.py:619); with
\* Redis down no commit forgets it before it was processed or sent to the
\* dead-letter topic (kafka_pipeline.py, _handle_failure).
THEOREM PipelineImplementsFates == Spec => FatesSpec
<1>1. Init => Promise!Init
  <2>1. Init => DOMAIN log = {}
    BY SMT DEF Init
  <2> QED BY <2>1 DEF Init, Promise!Init, Due
<1>2. Init => BegunInv
  <2>1. Init => DOMAIN log = {}
    BY SMT DEF Init
  <2> QED BY <2>1 DEF Init, BegunInv, BegunAt
<1>3. PipelineInv /\ BegunInv /\ [Next]_vars => BegunInv'
  <2> SUFFICES ASSUME PipelineInv, BegunInv, [Next]_vars
               PROVE  BegunInv'
    OBVIOUS
  <2>1. CASE UNCHANGED vars
    BY <2>1 DEF vars, redisVars, workerVars, historyVars, BegunInv, BegunAt, Event
  <2> QED BY <2>1, DeliveryBegins, WorkBegins DEF Next
<1>4. Spec => []BegunInv
  BY <1>2, <1>3, PipelineIsCorrect, PTL DEF Spec
<1> QED BY <1>1, <1>4, StepsMap, PipelineIsCorrect, PTL DEF Spec, FatesSpec, Promise!Spec
==============================================================================
