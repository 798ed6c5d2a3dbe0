---------------------------- MODULE OutreachProofs ----------------------------
(* For any topics, people, workers, runs and number of faults: the state of  *)
(* the outreach keeps its type, and what the user gets twice took a fault    *)
(* for every time but the first.                                             *)
(*                                                                           *)
(* A suggestion is paid for in advance.  The worker that holds the claim     *)
(* sends a topic free of charge only when it is not tracked; a worker that   *)
(* lost its claim while it worked has paid for whatever it will still send   *)
(* with the fault by which the claim was taken from it.                      *)
EXTENDS Outreach, FiniteSetTheorems, TLAPS

Unasked == {"claimed", "ranked", "matching", "creating"}
Unsent  == Unasked \union {"sending"}
Chosen  == {"creating", "sending", "sent", "waiting"}

\* The workers without the claim that stand at one of pcs.
Strays(pcs) == {w \in Workers \ {job.by} : work[w].pc \in pcs}

\* The worker with the claim stands at one of pcs.
HolderAt(pcs) == job.by \in Workers /\ work[job.by].pc \in pcs

\* What a worker works on has been chosen, and those it found contain the one
\* that it names first.
GoodWork(l) ==
  /\ l.pc \in {"matching"} \union Chosen => l.topic \in Topics
  /\ l.pc \in Chosen => l.first \in l.found

WorkInv == \A w \in Workers : GoodWork(work[w])

\* The user knows of t, and the holder is not about to send it.
TopicIsPaid(t) ==
  /\ ~(HolderAt({"creating", "sending"}) /\ work[job.by].topic = t)
  /\ t \in tracked.topics \/ (HolderAt({"sent", "waiting"}) /\ work[job.by].topic = t)

TargetIsPaid(u) ==
  /\ ~(HolderAt({"creating", "sending"}) /\ work[job.by].first = u)
  /\ u \in tracked.targets \/ (HolderAt({"sent", "waiting"}) /\ work[job.by].first = u)

\* The run that the job stands for has not got to the end of pcs.
RunIsOpen(pcs) ==
  \/ job.status = "queued"
  \/ job.status = "running" /\ HolderAt(pcs \union {"idle", "failing", "release"})

One(b) == IF b THEN 1 ELSE 0

StraysInv == IsFiniteSet(Strays(Unsent))

TopicsInv ==
  \A t \in Topics : offered[t] + Cardinality(Strays(Unsent)) <= faults + One(TopicIsPaid(t))

TargetsInv ==
  \A u \in Targets : first[u] + Cardinality(Strays(Unsent)) <= faults + One(TargetIsPaid(u))

MessagesInv ==
  messages + Cardinality(Strays(Unsent)) + One(RunIsOpen(Unsent)) <= runs + faults

RequestsInv ==
  \A u \in Targets :
    requests[u] + Cardinality(Strays(Unasked)) + One(RunIsOpen(Unasked)) <= runs + faults

OutreachInv ==
  /\ TypeOK /\ WorkInv
  /\ StraysInv /\ TopicsInv /\ TargetsInv /\ MessagesInv /\ RequestsInv
------------------------------------------------------------------------------
(* The row of the job. *)

GoodRow(j) == j \in JobRows(Workers) /\ ClaimIsKnown(j)

\* The fields of a row have their types.
LEMMA RowFields ==
  ASSUME NEW j \in JobRows(Workers)
  PROVE  /\ j.due \in 0 .. Horizon /\ j.attempts \in Nat /\ j.age \in 0 .. StaleAfter
         /\ j.by \in Workers \union {Nobody}
         /\ j.status \in {"none", "queued", "running", "done", "skipped", "failed"}
BY SMT DEF JobRows

\* Zero is a time, a count and an age.
LEMMA ZeroIsFine == 0 \in 0 .. Horizon /\ 0 \in Nat /\ 0 \in 0 .. StaleAfter
BY UserJobsAssumption, SMT DEF UserJobsAssumption

\* Whatever is put off is put off to a time on the clock.
LEMMA LaterIsFine ==
  ASSUME NEW t \in Nat
  PROVE  NoLater(t) \in 0 .. Horizon
BY UserJobsAssumption, SMT DEF UserJobsAssumption, NoLater

\* schedule leaves the claim, and queues what does not run.
LEMMA ScheduledSays ==
  ASSUME NEW j, GoodRow(j), NEW d \in 0 .. Horizon
  PROVE  /\ GoodRow(Scheduled(j, d)) /\ Scheduled(j, d).by = j.by
         /\ IF j.status = "running" THEN Scheduled(j, d) = j
                                    ELSE Scheduled(j, d).status = "queued"
<1> DEFINE r == [j EXCEPT !.status = "queued", !.due = d]
<1>1. j \in JobRows(Workers) /\ ClaimIsKnown(j)
  BY DEF GoodRow
<1>2. r \in JobRows(Workers)
  BY <1>1, Zenon DEF JobRows
<1>3. r.status = "queued" /\ r.by = j.by
  BY <1>1, SMT DEF JobRows
<1> HIDE DEF r
<1>4. Scheduled(j, d) = IF j.status = "running" THEN j ELSE r
  BY DEF Scheduled, r
<1> QED BY <1>1, <1>2, <1>3, <1>4 DEF GoodRow, ClaimIsKnown

\* claim gives the row to w.
LEMMA ClaimedSays ==
  ASSUME NEW j, GoodRow(j), NEW w \in Workers
  PROVE  /\ GoodRow(Claimed(j, w))
         /\ Claimed(j, w).by = w /\ Claimed(j, w).status = "running"
<1>1. j \in JobRows(Workers) /\ Claimed(j, w) \in JobRows(Workers)
  BY ZeroIsFine, Zenon DEF GoodRow, JobRows, Claimed
<1>2. Claimed(j, w).by = w /\ Claimed(j, w).status = "running"
  BY <1>1, SMT DEF JobRows, Claimed
<1>3. Nobody \notin Workers
  BY OutreachAssumption DEF OutreachAssumption
<1> QED BY <1>1, <1>2, <1>3 DEF GoodRow, ClaimIsKnown

\* A claim ages within its bound, and nothing else of the row changes.
LEMMA AgedSays ==
  ASSUME NEW j, GoodRow(j)
  PROVE  GoodRow(Aged(j)) /\ Aged(j).status = j.status /\ Aged(j).by = j.by
<1> DEFINE a == IF j.by # Nobody /\ j.age < StaleAfter THEN j.age + 1 ELSE j.age
<1>1. j \in JobRows(Workers) /\ Aged(j) = [j EXCEPT !.age = a]
  BY DEF GoodRow, Aged
<1>2. a \in 0 .. StaleAfter
  BY <1>1, RowFields, UserJobsAssumption, SMT DEF UserJobsAssumption
<1> HIDE DEF a
<1>3. Aged(j) \in JobRows(Workers)
  BY <1>1, <1>2, Zenon DEF JobRows
<1>4. Aged(j).status = j.status /\ Aged(j).by = j.by
  BY <1>1, SMT DEF JobRows
<1> QED BY <1>1, <1>3, <1>4 DEF GoodRow, ClaimIsKnown

\* A row that is freed for any status but "running" is good.
LEMMA FreedSays ==
  ASSUME NEW j \in JobRows(Workers), NEW s \in {"queued", "done", "skipped", "failed"},
         NEW a \in Nat, NEW d \in 0 .. Horizon
  PROVE  /\ GoodRow(Freed(j, s, a, d))
         /\ Freed(j, s, a, d).status = s /\ Freed(j, s, a, d).by = Nobody
<1>1. Freed(j, s, a, d) \in JobRows(Workers)
  BY ZeroIsFine, Zenon DEF JobRows, Freed
<1>2. Freed(j, s, a, d).status = s /\ Freed(j, s, a, d).by = Nobody
  BY SMT DEF JobRows, Freed
<1> QED BY <1>1, <1>2 DEF GoodRow, ClaimIsKnown

\* The row r is what w leaves of j: freed if w holds the claim, else untouched.
LeftBy(r, j, w, statuses) ==
  /\ GoodRow(r)
  /\ IF j.by = w THEN r.by = Nobody /\ r.status \in statuses ELSE r = j

\* complete and skip.
LEMMA EndedSays ==
  ASSUME NEW j, GoodRow(j), NEW w, NEW s \in {"done", "skipped"}, NEW t \in Nat
  PROVE  LeftBy(Ended(j, w, s, t), j, w, {"done", "skipped"})
<1>1. j \in JobRows(Workers) /\ s \in {"queued", "done", "skipped", "failed"} /\ 0 \in Nat
  BY DEF GoodRow
<1>2. t + Interval \in Nat
  BY UserJobsAssumption, SMT DEF UserJobsAssumption
<1>3. NoLater(t + Interval) \in 0 .. Horizon
  BY <1>2, LaterIsFine
<1> QED BY <1>1, <1>3, FreedSays DEF Ended, LeftBy

\* release.
LEMMA ReleasedSays ==
  ASSUME NEW j, GoodRow(j), NEW w
  PROVE  LeftBy(Released(j, w), j, w, {"queued", "failed"})
<1>1. /\ j \in JobRows(Workers) /\ j.attempts \in Nat /\ j.due \in 0 .. Horizon
      /\ "queued" \in {"queued", "done", "skipped", "failed"}
  BY RowFields DEF GoodRow
<1> QED BY <1>1, FreedSays DEF Released, LeftBy

\* fail.
LEMMA FailedSays ==
  ASSUME NEW j, GoodRow(j), NEW w, NEW t \in Nat
  PROVE  LeftBy(Failed(j, w, t), j, w, {"queued", "failed"})
<1> DEFINE later == NoLater(t + Backoff)
           due == IF j.due >= later THEN j.due ELSE later
           s == IF j.attempts + 1 >= MaxAttempts THEN "failed" ELSE "queued"
<1>1. /\ j \in JobRows(Workers) /\ j.attempts + 1 \in Nat /\ j.due \in 0 .. Horizon
      /\ s \in {"queued", "done", "skipped", "failed"} /\ s \in {"queued", "failed"}
  BY RowFields DEF GoodRow
<1>2. t + Backoff \in Nat
  BY UserJobsAssumption, SMT DEF UserJobsAssumption
<1>3. due \in 0 .. Horizon
  BY <1>1, <1>2, LaterIsFine
<1>4. Failed(j, w, t) = IF j.by # w THEN j ELSE Freed(j, s, j.attempts + 1, due)
  BY DEF Failed
<1> HIDE DEF s, due
<1> QED BY <1>1, <1>3, <1>4, FreedSays DEF LeftBy
------------------------------------------------------------------------------
(* What a worker does. *)

WorkRows == [pc: Pcs, todo: SUBSET Topics, topic: Topics \union {Nobody},
             found: SUBSET Targets, first: Targets \union {Nobody}]

\* The parts of the type, one by one.
LEMMA TypeSays ==
  ASSUME TypeOK
  PROVE  /\ now \in 1 .. Horizon /\ GoodRow(job) /\ job \in JobRows(Workers)
         /\ requests \in [Targets -> Nat]
         /\ tracked \in [topics: SUBSET Topics, targets: SUBSET Targets]
         /\ tasks \subseteq Topics /\ work \in [Workers -> WorkRows]
         /\ runs \in 0 .. MaxRuns /\ messages \in Nat
         /\ offered \in [Topics -> Nat] /\ first \in [Targets -> Nat]
         /\ faults \in 0 .. MaxFaults
BY Zenon DEF TypeOK, GoodRow, WorkRows

LEMMA TypeFrom ==
  ASSUME now' \in 1 .. Horizon, GoodRow(job'), requests' \in [Targets -> Nat],
         tracked' \in [topics: SUBSET Topics, targets: SUBSET Targets],
         tasks' \subseteq Topics, work' \in [Workers -> WorkRows],
         runs' \in 0 .. MaxRuns, messages' \in Nat,
         offered' \in [Topics -> Nat], first' \in [Targets -> Nat],
         faults' \in 0 .. MaxFaults
  PROVE  TypeOK'
BY Zenon DEF TypeOK, GoodRow, WorkRows

\* The counters and the holder, as the counting needs them.
LEMMA Numbers ==
  ASSUME TypeOK
  PROVE  /\ runs \in Nat /\ faults \in Nat /\ messages \in Nat /\ now \in Nat
         /\ \A t \in Topics : offered[t] \in Nat
         /\ \A u \in Targets : first[u] \in Nat /\ requests[u] \in Nat
         /\ job.by \in Workers \union {Nobody} /\ Nobody \notin Workers
         /\ job.status = "running" <=> job.by # Nobody
<1>1. runs \in Nat /\ faults \in Nat /\ now \in Nat
  BY TypeSays, SMT
<1>2. job.by \in Workers \union {Nobody} /\ (job.status = "running" <=> job.by # Nobody)
  BY TypeSays, RowFields DEF GoodRow, ClaimIsKnown
<1> QED BY <1>1, <1>2, TypeSays, OutreachAssumption DEF OutreachAssumption

LEMMA WorkFields ==
  ASSUME NEW l \in WorkRows
  PROVE  /\ l.pc \in Pcs /\ l.todo \subseteq Topics /\ l.topic \in Topics \union {Nobody}
         /\ l.found \subseteq Targets /\ l.first \in Targets \union {Nobody}
BY SMT DEF WorkRows

\* Worker w goes on as l and no other worker does anything.
Becomes(w, l) ==
  /\ work' \in [Workers -> WorkRows] /\ work'[w] = l /\ l \in WorkRows
  /\ \A v \in Workers \ {w} : work'[v] = work[v]

LEMMA BecomesIs ==
  ASSUME TypeOK, NEW w \in Workers, NEW l \in WorkRows, work' = [work EXCEPT ![w] = l]
  PROVE  Becomes(w, l)
BY TypeSays DEF Becomes

LEMMA IdleIs == Idle \in WorkRows /\ Idle.pc = "idle"
BY SMT DEF Idle, WorkRows, Pcs

\* Goto changes the place only.
LEMMA GotoIs ==
  ASSUME TypeOK, NEW w \in Workers, NEW pc \in Pcs, Goto(w, pc)
  PROVE  /\ Becomes(w, [work[w] EXCEPT !.pc = pc])
         /\ work'[w].pc = pc /\ work'[w].topic = work[w].topic
         /\ work'[w].first = work[w].first /\ work'[w].found = work[w].found
<1> DEFINE l == [work[w] EXCEPT !.pc = pc]
<1>1. work[w] \in WorkRows
  BY TypeSays
<1>2. /\ l \in WorkRows
      /\ l.pc = pc /\ l.topic = work[w].topic
      /\ l.first = work[w].first /\ l.found = work[w].found
  BY <1>1, SMT DEF WorkRows
<1>3. work' = [work EXCEPT ![w] = l]
  BY DEF Goto
<1> HIDE DEF l
<1>4. Becomes(w, l)
  BY <1>2, <1>3, BecomesIs
<1> QED BY <1>2, <1>4 DEF l, Becomes

LEMMA DoneIs ==
  ASSUME TypeOK, NEW w \in Workers, Done(w)
  PROVE  Becomes(w, Idle) /\ work'[w].pc = "idle"
BY IdleIs, BecomesIs DEF Done, Becomes

LEMMA FaultTyped ==
  ASSUME TypeOK, Fault \/ NoFault
  PROVE  /\ faults' \in 0 .. MaxFaults
         /\ Fault => faults' = faults + 1
         /\ NoFault => faults' = faults
BY TypeSays, OutreachAssumption, SMT DEF Fault, NoFault, OutreachAssumption

\* A message to the user, and a request for each of some people.
Sends(w) ==
  /\ work[w].pc = "sending" /\ work'[w].pc \in {"sent", "failing"}
  /\ messages' = messages + 1
  /\ offered' = [offered EXCEPT ![work[w].topic] = @ + 1]
  /\ first'   = [first EXCEPT ![work[w].first] = @ + 1]

SendsNothing == UNCHANGED <<messages, offered, first>>

Asks(w) ==
  /\ work[w].pc = "creating" /\ work'[w].pc = "sending"
  /\ \A u \in Targets : requests'[u] <= requests[u] + 1

\* The steps that cost no fault.
SameChoice(w) == work'[w].topic = work[w].topic /\ work'[w].first = work[w].first

Looks(w) ==
  /\ work[w].pc \in {"claimed", "ranked", "matching"}
  /\ work'[w].pc \in {"ranked", "matching", "skipping"}
  /\ job' = job

Chooses(w) ==
  /\ work[w].pc = "matching" /\ work'[w].pc = "creating"
  /\ work'[w].topic \notin tracked.topics /\ work'[w].first \notin tracked.targets
  /\ job' = job

GoesOn(w) ==
  /\ <<work[w].pc, work'[w].pc>> \in {<<"creating", "sending">>, <<"sent", "waiting">>}
  /\ SameChoice(w) /\ job' = job

Tells(w) ==
  /\ work[w].pc = "sending" /\ work'[w].pc = "sent"
  /\ SameChoice(w) /\ job' = job

Tracks(w) ==
  /\ work[w].pc = "waiting" /\ work'[w].pc = "complete"
  /\ work[w].topic \in tracked'.topics /\ work[w].first \in tracked'.targets
  /\ job' = job

Ends(w) ==
  /\ work[w].pc \in {"complete", "skipping"} /\ work'[w].pc = "idle"
  /\ LeftBy(job', job, w, {"done", "skipped"})

GivesUp(w) ==
  /\ work[w].pc \in {"failing", "release"} /\ work'[w].pc \in {"idle", "release"}
  /\ \/ job' = job
     \/ work'[w].pc = "idle" /\ LeftBy(job', job, w, {"queued", "failed"})

\* A step of worker w, by what it costs.
Advances(w) ==
  /\ TypeOK' /\ Becomes(w, work'[w]) /\ GoodWork(work'[w]) /\ runs' = runs
  /\ tracked.topics \subseteq tracked'.topics /\ tracked.targets \subseteq tracked'.targets
  /\ \A pcs \in {Unsent, Unasked} : work'[w].pc \in pcs => work[w].pc \in pcs
  /\ Asks(w) \/ requests' = requests
  /\ \/ faults' = faults + 1 /\ job' = job /\ (Sends(w) \/ SendsNothing)
     \/ faults' = faults /\ Tells(w) /\ Sends(w)
     \/ /\ faults' = faults /\ SendsNothing
        /\ Looks(w) \/ Chooses(w) \/ GoesOn(w) \/ Tracks(w) \/ Ends(w) \/ GivesUp(w)

LEMMA ConsiderAdvances ==
  ASSUME TypeOK, WorkInv, NEW w \in Workers, Consider(w)
  PROVE  Advances(w)
<1>1. /\ work[w].pc = "claimed" /\ (Fault \/ NoFault)
      /\ UNCHANGED <<now, job, requests, tracked, tasks, runs, messages, offered, first>>
  BY DEF Consider, rows, hist
<1>2. /\ Becomes(w, work'[w]) /\ work'[w].pc \in {"skipping", "ranked", "failing"}
      /\ work'[w].pc = "failing" => Fault
      /\ work'[w].pc # "failing" => NoFault
  <2>1. CASE Goto(w, "skipping") /\ NoFault
    BY <2>1, GotoIs DEF Pcs, Becomes
  <2>2. CASE Goto(w, "failing") /\ Fault
    BY <2>2, GotoIs DEF Pcs, Becomes
  <2>3. CASE \E S \in SUBSET Topics \ {{}} :
               work' = [work EXCEPT ![w].pc = "ranked", ![w].todo = S] /\ NoFault
    <3>1. PICK S \in SUBSET Topics :
                 work' = [work EXCEPT ![w].pc = "ranked", ![w].todo = S] /\ NoFault
      BY <2>3
    <3> DEFINE l == [work[w] EXCEPT !.pc = "ranked", !.todo = S]
    <3>2. work[w] \in WorkRows
      BY TypeSays
    <3>3. l \in WorkRows /\ l.pc = "ranked"
      <4>1. l \in WorkRows
        BY <3>2, Zenon DEF WorkRows, Pcs
      <4>2. l.pc = "ranked"
        BY <3>2, SMT DEF WorkRows
      <4> QED BY <4>1, <4>2
    <3>4. work' = [work EXCEPT ![w] = l]
      BY <3>1
    <3> HIDE DEF l
    <3> QED BY <3>1, <3>3, <3>4, BecomesIs DEF Becomes
  <2> QED BY <2>1, <2>2, <2>3 DEF Consider
<1>3. TypeOK'
  BY <1>1, <1>2, TypeSays, FaultTyped, TypeFrom DEF Becomes
<1> QED BY <1>1, <1>2, <1>3, FaultTyped
        DEF Advances, Looks, SendsNothing, GoodWork, Chosen, Unsent, Unasked

LEMMA TryTopicAdvances ==
  ASSUME TypeOK, WorkInv, NEW w \in Workers, TryTopic(w)
  PROVE  Advances(w)
<1>1. /\ work[w].pc = "ranked" /\ (Fault \/ NoFault)
      /\ UNCHANGED <<now, job, requests, tracked, tasks, runs, messages, offered, first>>
  BY DEF TryTopic, rows, hist
<1>2. /\ Becomes(w, work'[w]) /\ work'[w].pc \in {"skipping", "ranked", "matching"}
      /\ work'[w].pc = "matching" => work'[w].topic \in Topics
  <2>1. CASE Goto(w, "skipping") /\ NoFault
    BY <2>1, GotoIs DEF Pcs, Becomes
  <2>2. ASSUME NEW t \in work[w].todo,
               work' = [work EXCEPT ![w] = [work[w] EXCEPT !.todo = @ \ {t}]]
        PROVE  Becomes(w, work'[w]) /\ work'[w].pc = "ranked"
    <3> DEFINE l == [work[w] EXCEPT !.todo = @ \ {t}]
    <3>1. work[w] \in WorkRows
      BY TypeSays
    <3>2. l \in WorkRows /\ l.pc = "ranked"
      BY <1>1, <3>1, SMT DEF WorkRows
    <3> HIDE DEF l
    <3> QED BY <2>2, <3>2, BecomesIs DEF Becomes, l
  <2>3. ASSUME NEW t \in work[w].todo,
               work' = [work EXCEPT ![w] = [[work[w] EXCEPT !.todo = @ \ {t}]
                                              EXCEPT !.pc = "matching", !.topic = t]]
        PROVE  /\ Becomes(w, work'[w]) /\ work'[w].pc = "matching"
               /\ work'[w].topic \in Topics
    <3> DEFINE l == [[work[w] EXCEPT !.todo = @ \ {t}] EXCEPT !.pc = "matching", !.topic = t]
    <3>1. work[w] \in WorkRows /\ t \in Topics
      BY TypeSays, WorkFields
    <3>2. l \in WorkRows /\ l.pc = "matching" /\ l.topic = t
      <4> DEFINE m == [work[w] EXCEPT !.todo = @ \ {t}]
      <4>1. m \in WorkRows
        BY <3>1, SMT DEF WorkRows
      <4> HIDE DEF m
      <4>2. [m EXCEPT !.pc = "matching", !.topic = t] \in WorkRows
        BY <3>1, <4>1, Zenon DEF WorkRows, Pcs
      <4>3. l.pc = "matching" /\ l.topic = t
        BY <4>1, SMT DEF WorkRows, m
      <4> QED BY <4>2, <4>3 DEF m
    <3> HIDE DEF l
    <3> QED BY <2>3, <3>1, <3>2, BecomesIs DEF Becomes, l
  <2> QED BY <2>1, <2>2, <2>3 DEF TryTopic
<1>3. TypeOK'
  BY <1>1, <1>2, TypeSays, FaultTyped, TypeFrom DEF Becomes
<1> QED BY <1>1, <1>2, <1>3, FaultTyped
        DEF Advances, Looks, SendsNothing, GoodWork, Chosen, Unsent, Unasked

LEMMA FindMatchAdvances ==
  ASSUME TypeOK, WorkInv, NEW w \in Workers, FindMatch(w)
  PROVE  Advances(w)
<1>1. /\ work[w].pc = "matching" /\ (Fault \/ NoFault)
      /\ UNCHANGED <<now, job, requests, tracked, tasks, runs, messages, offered, first>>
      /\ work[w].topic \in Topics
  BY DEF FindMatch, RecentTopic, RecentTarget, rows, hist, WorkInv, GoodWork
<1>2. CASE Goto(w, "ranked") /\ NoFault
  <2>1. Becomes(w, work'[w]) /\ work'[w].pc = "ranked" /\ faults' = faults
    BY <1>2, GotoIs, FaultTyped DEF Pcs, Becomes
  <2>2. TypeOK'
    BY <1>1, <2>1, TypeSays, FaultTyped, TypeFrom DEF Becomes
  <2> QED BY <1>1, <2>1, <2>2
          DEF Advances, Looks, SendsNothing, GoodWork, Chosen, Unsent, Unasked
<1>3. CASE \E S \in SUBSET Targets : \E u \in S :
             /\ IF RecentTopic(work[w].topic) \/ \E v \in S : RecentTarget(v)
                THEN Fault ELSE NoFault
             /\ work' = [work EXCEPT ![w].pc = "creating", ![w].found = S, ![w].first = u]
  <2>0. PICK S \in SUBSET Targets : \E u \in S :
             /\ IF RecentTopic(work[w].topic) \/ \E v \in S : RecentTarget(v)
                THEN Fault ELSE NoFault
             /\ work' = [work EXCEPT ![w].pc = "creating", ![w].found = S, ![w].first = u]
    BY <1>3
  <2>1. PICK u \in S :
             /\ IF RecentTopic(work[w].topic) \/ \E v \in S : RecentTarget(v)
                THEN Fault ELSE NoFault
             /\ work' = [work EXCEPT ![w].pc = "creating", ![w].found = S, ![w].first = u]
    BY <2>0
  <2> DEFINE l == [work[w] EXCEPT !.pc = "creating", !.found = S, !.first = u]
  <2>2. work[w] \in WorkRows /\ u \in Targets
    BY TypeSays
  <2>3. /\ l \in WorkRows /\ l.pc = "creating" /\ l.topic = work[w].topic
        /\ l.found = S /\ l.first = u
    <3>1. l \in WorkRows
      BY <2>2, Zenon DEF WorkRows, Pcs
    <3>2. l.pc = "creating" /\ l.topic = work[w].topic /\ l.found = S /\ l.first = u
      BY <2>2, SMT DEF WorkRows
    <3> QED BY <3>1, <3>2
  <2>4. work' = [work EXCEPT ![w] = l]
    BY <2>1
  <2> HIDE DEF l
  <2>5. /\ Becomes(w, work'[w]) /\ work'[w].pc = "creating"
        /\ work'[w].topic = work[w].topic /\ work'[w].found = S /\ work'[w].first = u
    BY <2>3, <2>4, BecomesIs DEF Becomes
  <2>6. TypeOK'
    BY <1>1, <2>5, TypeSays, FaultTyped, TypeFrom DEF Becomes
  <2>7. \/ faults' = faults + 1
        \/ faults' = faults /\ work[w].topic \notin tracked.topics /\ u \notin tracked.targets
    BY <2>1, FaultTyped DEF RecentTopic, RecentTarget
  <2> QED BY <1>1, <2>1, <2>5, <2>6, <2>7
          DEF Advances, Chooses, SendsNothing, GoodWork, Chosen, Unsent, Unasked
<1> QED BY <1>2, <1>3 DEF FindMatch

LEMMA CreateRequestsAdvances ==
  ASSUME TypeOK, WorkInv, NEW w \in Workers, CreateRequests(w)
  PROVE  Advances(w)
<1>1. /\ work[w].pc = "creating" /\ GoodWork(work[w])
      /\ work[w] \in WorkRows /\ requests \in [Targets -> Nat]
      /\ UNCHANGED <<now, job, tracked, tasks, runs, messages, offered, first>>
  BY TypeSays DEF CreateRequests, hist, WorkInv
<1>2. PICK made \in SUBSET work[w].found :
             /\ IF made = work[w].found THEN NoFault ELSE Fault
             /\ requests' = [u \in Targets |-> requests[u] + IF u \in made THEN 1 ELSE 0]
             /\ Goto(w, IF made = {} THEN "failing" ELSE "sending")
  BY DEF CreateRequests
<1>3. /\ requests' \in [Targets -> Nat]
      /\ \A u \in Targets : requests'[u] <= requests[u] + 1
      /\ made = {} => requests' = requests
  BY <1>1, <1>2, SMT
<1>4. /\ Becomes(w, work'[w]) /\ SameChoice(w) /\ work'[w].found = work[w].found
      /\ work'[w].pc = IF made = {} THEN "failing" ELSE "sending"
  BY <1>2, GotoIs DEF Pcs, Becomes, SameChoice
<1>5. /\ made = {} => made # work[w].found
      /\ made # work[w].found => faults' = faults + 1
      /\ made = work[w].found => faults' = faults
  BY <1>1, <1>2, FaultTyped DEF GoodWork, Chosen
<1>6. TypeOK'
  BY <1>1, <1>2, <1>3, <1>4, TypeSays, FaultTyped, TypeFrom DEF Becomes
<1>7. GoodWork(work'[w])
  BY <1>1, <1>4 DEF GoodWork, Chosen, SameChoice
<1> QED BY <1>1, <1>3, <1>4, <1>5, <1>6, <1>7
        DEF Advances, Asks, GoesOn, SendsNothing, Unsent, Unasked

LEMMA SendAdvances ==
  ASSUME TypeOK, WorkInv, NEW w \in Workers, Send(w)
  PROVE  Advances(w)
<1>1. /\ work[w].pc = "sending" /\ (Fault \/ NoFault)
      /\ work[w] \in WorkRows /\ GoodWork(work[w])
      /\ UNCHANGED <<now, job, requests, tracked, tasks, runs>>
  BY TypeSays DEF Send, rows, WorkInv
<1>2. work[w].topic \in Topics /\ work[w].first \in Targets
  BY <1>1, WorkFields DEF GoodWork, Chosen
<1>3. /\ Becomes(w, work'[w]) /\ SameChoice(w) /\ work'[w].found = work[w].found
      /\ work'[w].pc \in {"sent", "failing"}
      /\ work'[w].pc = "failing" => faults' = faults + 1
      /\ work'[w].pc = "sent" => faults' = faults
  <2>1. CASE Goto(w, "sent") /\ NoFault
    BY <2>1, GotoIs, FaultTyped DEF Pcs, Becomes, SameChoice
  <2>2. CASE Goto(w, "failing") /\ Fault
    BY <2>2, GotoIs, FaultTyped DEF Pcs, Becomes, SameChoice
  <2> QED BY <2>1, <2>2 DEF Send
<1>4. Sends(w) \/ (SendsNothing /\ work'[w].pc = "failing")
  <2>1. CASE Goto(w, "failing") /\ UNCHANGED <<messages, offered, first>>
    BY <2>1, GotoIs DEF Pcs, SendsNothing
  <2>2. CASE /\ messages' = messages + 1
             /\ offered' = [offered EXCEPT ![work[w].topic] = @ + 1]
             /\ first'   = [first EXCEPT ![work[w].first] = @ + 1]
    BY <1>1, <1>3, <2>2 DEF Sends
  <2> QED BY <2>1, <2>2 DEF Send
<1>5. messages' \in Nat /\ offered' \in [Topics -> Nat] /\ first' \in [Targets -> Nat]
  BY <1>2, <1>4, TypeSays, SMT DEF Sends, SendsNothing
<1>6. TypeOK'
  BY <1>1, <1>3, <1>5, TypeSays, FaultTyped, TypeFrom DEF Becomes
<1>7. GoodWork(work'[w])
  BY <1>1, <1>3 DEF GoodWork, Chosen, SameChoice
<1> QED BY <1>1, <1>3, <1>4, <1>6, <1>7 DEF Advances, Tells, Unsent, Unasked

LEMMA SaveTaskAdvances ==
  ASSUME TypeOK, WorkInv, NEW w \in Workers, SaveTask(w)
  PROVE  Advances(w)
<1>1. /\ work[w].pc = "sent" /\ (Fault \/ NoFault) /\ Goto(w, "waiting")
      /\ work[w] \in WorkRows /\ GoodWork(work[w])
      /\ tasks' = tasks \union {work[w].topic} \/ tasks' = tasks
      /\ UNCHANGED <<now, job, requests, tracked, runs, messages, offered, first>>
  BY TypeSays DEF SaveTask, hist, WorkInv
<1>2. /\ Becomes(w, work'[w]) /\ SameChoice(w) /\ work'[w].found = work[w].found
      /\ work'[w].pc = "waiting"
  BY <1>1, GotoIs DEF Pcs, Becomes, SameChoice
<1>3. tasks' \subseteq Topics
  BY <1>1, TypeSays DEF GoodWork, Chosen
<1>4. TypeOK'
  BY <1>1, <1>2, <1>3, TypeSays, FaultTyped, TypeFrom DEF Becomes
<1>5. GoodWork(work'[w])
  BY <1>1, <1>2 DEF GoodWork, Chosen, SameChoice
<1> QED BY <1>1, <1>2, <1>4, <1>5, FaultTyped
        DEF Advances, GoesOn, SendsNothing, Unsent, Unasked

LEMMA TrackAdvances ==
  ASSUME TypeOK, WorkInv, NEW w \in Workers, Track(w)
  PROVE  Advances(w)
<1> DEFINE t == [topics  |-> tracked.topics \union {work[w].topic},
                 targets |-> tracked.targets \union {work[w].first}]
<1>1. /\ work[w].pc = "waiting" /\ Goto(w, "complete")
      /\ work[w] \in WorkRows /\ GoodWork(work[w])
      /\ (tracked' = t /\ NoFault) \/ (tracked' = tracked /\ Fault)
      /\ UNCHANGED <<now, job, requests, tasks, runs, messages, offered, first>>
  BY TypeSays DEF Track, hist, WorkInv
<1>2. /\ Becomes(w, work'[w]) /\ work'[w].pc = "complete"
  BY <1>1, GotoIs DEF Pcs, Becomes
<1>3. work[w].topic \in Topics /\ work[w].first \in Targets
  BY <1>1, WorkFields DEF GoodWork, Chosen
<1>4. /\ t \in [topics: SUBSET Topics, targets: SUBSET Targets]
      /\ work[w].topic \in t.topics /\ work[w].first \in t.targets
      /\ tracked.topics \subseteq t.topics /\ tracked.targets \subseteq t.targets
  BY <1>3, TypeSays, SMT
<1> HIDE DEF t
<1>5. TypeOK'
  BY <1>1, <1>2, <1>4, TypeSays, FaultTyped, TypeFrom DEF Becomes
<1> QED BY <1>1, <1>2, <1>4, <1>5, FaultTyped
        DEF Advances, Tracks, SendsNothing, GoodWork, Chosen, Unsent, Unasked

LEMMA FinishAdvances ==
  ASSUME TypeOK, NEW w \in Workers, NEW pc \in {"complete", "skipping"},
         NEW s \in {"done", "skipped"}, Finish(w, pc, s)
  PROVE  Advances(w)
<1>1. /\ work[w].pc = pc /\ Done(w)
      /\ (job' = Ended(job, w, s, now) /\ NoFault) \/ (Fault /\ job' = job)
      /\ UNCHANGED <<now, requests, tracked, tasks, runs, messages, offered, first>>
  BY DEF Finish, rows, hist
<1>2. Becomes(w, work'[w]) /\ work'[w].pc = "idle"
  BY <1>1, DoneIs DEF Becomes
<1>3. LeftBy(Ended(job, w, s, now), job, w, {"done", "skipped"})
  BY TypeSays, Numbers, EndedSays
<1>4. TypeOK'
  BY <1>1, <1>2, <1>3, TypeSays, FaultTyped, TypeFrom DEF Becomes, LeftBy
<1> QED BY <1>1, <1>2, <1>3, <1>4, FaultTyped
        DEF Advances, Ends, SendsNothing, GoodWork, Chosen, Unsent, Unasked

LEMMA FailAdvances ==
  ASSUME TypeOK, NEW w \in Workers, Fail(w)
  PROVE  Advances(w)
<1>1. /\ work[w].pc = "failing" /\ NoFault
      /\ \/ job' = Failed(job, w, now) /\ Done(w)
         \/ Goto(w, "release") /\ job' = job
      /\ UNCHANGED <<now, requests, tracked, tasks, runs, messages, offered, first>>
  BY DEF Fail, rows, hist
<1>2. Becomes(w, work'[w]) /\ work'[w].pc = IF Goto(w, "release") THEN "release" ELSE "idle"
  BY <1>1, DoneIs, GotoIs DEF Becomes, Pcs
<1>3. LeftBy(Failed(job, w, now), job, w, {"queued", "failed"})
  BY TypeSays, Numbers, FailedSays
<1>4. TypeOK'
  BY <1>1, <1>2, <1>3, TypeSays, FaultTyped, TypeFrom DEF Becomes, LeftBy
<1>5. \/ job' = job /\ work'[w].pc \in {"idle", "release"}
      \/ work'[w].pc = "idle" /\ LeftBy(job', job, w, {"queued", "failed"})
  BY <1>1, <1>2, <1>3, DoneIs
<1> QED BY <1>1, <1>2, <1>4, <1>5, FaultTyped
        DEF Advances, GivesUp, SendsNothing, GoodWork, Chosen, Unsent, Unasked

LEMMA ReleaseAdvances ==
  ASSUME TypeOK, NEW w \in Workers, Release(w)
  PROVE  Advances(w)
<1>1. /\ work[w].pc = "release" /\ NoFault /\ Done(w)
      /\ job' = Released(job, w) \/ job' = job
      /\ UNCHANGED <<now, requests, tracked, tasks, runs, messages, offered, first>>
  BY DEF Release, rows, hist
<1>2. Becomes(w, work'[w]) /\ work'[w].pc = "idle"
  BY <1>1, DoneIs DEF Becomes
<1>3. LeftBy(Released(job, w), job, w, {"queued", "failed"})
  BY TypeSays, ReleasedSays
<1>4. TypeOK'
  BY <1>1, <1>2, <1>3, TypeSays, FaultTyped, TypeFrom DEF Becomes, LeftBy
<1> QED BY <1>1, <1>2, <1>3, <1>4, FaultTyped
        DEF Advances, GivesUp, SendsNothing, GoodWork, Chosen, Unsent, Unasked

LEMMA CrashAdvances ==
  ASSUME TypeOK, NEW w \in Workers, Crash(w)
  PROVE  Advances(w)
<1>1. /\ Fault /\ Done(w)
      /\ UNCHANGED <<now, job, requests, tracked, tasks, runs, messages, offered, first>>
  BY DEF Crash, rows, hist
<1>2. Becomes(w, work'[w]) /\ work'[w].pc = "idle"
  BY <1>1, DoneIs DEF Becomes
<1>3. TypeOK'
  BY <1>1, <1>2, TypeSays, FaultTyped, TypeFrom DEF Becomes
<1> QED BY <1>1, <1>2, <1>3, FaultTyped
        DEF Advances, SendsNothing, GoodWork, Chosen, Unsent, Unasked

\* Every step of a worker but the claim.
LEMMA StepsAdvance ==
  ASSUME TypeOK, WorkInv, NEW w \in Workers, Step(w) \/ Crash(w)
  PROVE  Advances(w)
BY ConsiderAdvances, TryTopicAdvances, FindMatchAdvances, CreateRequestsAdvances,
   SendAdvances, SaveTaskAdvances, TrackAdvances, FinishAdvances, FailAdvances,
   ReleaseAdvances, CrashAdvances
   DEF Step, Complete, Skip
------------------------------------------------------------------------------
(* The workers without the claim. *)

\* The steps at which a suggestion or a request is still to come.
Open == {Unsent, Unasked}

LEMMA StraysAreFew ==
  ASSUME StraysInv, NEW P \in Open
  PROVE  IsFiniteSet(Strays(P)) /\ Cardinality(Strays(P)) \in Nat
<1>1. Strays(P) \subseteq Strays(Unsent)
  BY DEF Strays, Open, Unsent
<1> QED BY <1>1, FS_Subset, FS_CardinalityType DEF StraysInv

\* A worker changes the job only when it holds it, and is done with it then.
LEMMA JobSays ==
  ASSUME TypeOK, NEW w \in Workers, Advances(w)
  PROVE  \/ job' = job
         \/ /\ job.by = w /\ job'.by = Nobody /\ work'[w].pc = "idle"
            /\ job'.status \in {"queued", "done", "skipped", "failed"}
BY DEF Advances, Looks, Chooses, GoesOn, Tracks, Tells, Ends, GivesUp, LeftBy

\* No worker becomes a stray by its own step.
LEMMA StraysAfterStep ==
  ASSUME TypeOK, StraysInv, NEW w \in Workers, Advances(w), NEW P \in Open
  PROVE  /\ IsFiniteSet(Strays(P)')
         /\ Cardinality(Strays(P)') \in Nat
         /\ Cardinality(Strays(P)') <= Cardinality(Strays(P))
         /\ job.by # w /\ work[w].pc \in P /\ work'[w].pc \notin P
              => Cardinality(Strays(P)') + 1 <= Cardinality(Strays(P))
<1>1. /\ \A v \in Workers \ {w} : work'[v] = work[v]
      /\ work'[w].pc \in P => work[w].pc \in P
      /\ "idle" \notin P
  BY DEF Advances, Becomes, Open, Unsent, Unasked
<1>2. Strays(P)' \subseteq Strays(P)
  BY <1>1, JobSays DEF Strays
<1>3. IsFiniteSet(Strays(P)) /\ Cardinality(Strays(P)) \in Nat
  BY StraysAreFew
<1>4. /\ IsFiniteSet(Strays(P)') /\ Cardinality(Strays(P)') <= Cardinality(Strays(P))
      /\ Cardinality(Strays(P)') \in Nat
  BY <1>2, <1>3, FS_Subset, FS_CardinalityType
<1>5. ASSUME job.by # w, work[w].pc \in P, work'[w].pc \notin P
      PROVE  Cardinality(Strays(P)') + 1 <= Cardinality(Strays(P))
  <2>1. w \in Strays(P) /\ Strays(P)' \subseteq Strays(P) \ {w}
    BY <1>2, <1>5 DEF Strays
  <2>2. /\ IsFiniteSet(Strays(P) \ {w})
        /\ Cardinality(Strays(P) \ {w}) = Cardinality(Strays(P)) - 1
    BY <1>3, <2>1, FS_RemoveElement
  <2>3. Cardinality(Strays(P)') <= Cardinality(Strays(P) \ {w})
    BY <2>1, <2>2, FS_Subset
  <2> QED BY <1>3, <1>4, <2>2, <2>3, SMT
<1> QED BY <1>4, <1>5

\* What is the same while the holder is the same and the workers stand still.
LEMMA SameWorkers ==
  ASSUME job'.by = job.by, work' = work
  PROVE  /\ \A P \in Open : Strays(P)' = Strays(P)
         /\ \A Q : HolderAt(Q)' <=> HolderAt(Q)
BY DEF Strays, HolderAt

\* The holder stays where it is while another worker takes a step.
LEMMA OthersStep ==
  ASSUME TypeOK, NEW w \in Workers, Advances(w), job.by # w
  PROVE  /\ job' = job /\ job'.by = job.by
         /\ job.by \in Workers => work'[job.by] = work[job.by]
BY JobSays DEF Advances, Becomes

\* A worker that suggests a topic without a fault knew that it was not known,
\* and the user knows of it then.
LEMMA TopicStepPays ==
  ASSUME TypeOK, NEW w \in Workers, Advances(w), NEW x \in Topics
  PROVE  /\ job.by # w /\ TopicIsPaid(x) => TopicIsPaid(x)'
         /\ job.by = w /\ Sends(w) /\ work[w].topic = x
              => ~TopicIsPaid(x) /\ (faults' = faults => TopicIsPaid(x)')
         /\ job.by = w /\ faults' = faults /\ TopicIsPaid(x) => TopicIsPaid(x)'
<1>1. tracked.topics \subseteq tracked'.topics
  BY DEF Advances
<1>2. ASSUME job.by # w, TopicIsPaid(x)
      PROVE  TopicIsPaid(x)'
  BY <1>1, <1>2, OthersStep DEF TopicIsPaid, HolderAt
<1>3. ASSUME job.by = w, Sends(w), work[w].topic = x
      PROVE  ~TopicIsPaid(x)
  BY <1>3 DEF TopicIsPaid, HolderAt, Sends
<1>4. ASSUME job.by = w, faults' = faults, Tells(w)
      PROVE  /\ work[w].topic = x => TopicIsPaid(x)'
             /\ TopicIsPaid(x) => TopicIsPaid(x)'
  BY <1>1, <1>4 DEF TopicIsPaid, HolderAt, Tells, SameChoice
<1>5. ASSUME job.by = w, faults' = faults, TopicIsPaid(x), ~Tells(w)
      PROVE  TopicIsPaid(x)'
  <2>1. CASE Looks(w)
    BY <1>1, <1>5, <2>1 DEF TopicIsPaid, HolderAt, Looks
  <2>2. CASE Chooses(w)
    BY <1>1, <1>5, <2>2 DEF TopicIsPaid, HolderAt, Chooses
  <2>3. CASE GoesOn(w)
    BY <1>1, <1>5, <2>3 DEF TopicIsPaid, HolderAt, GoesOn, SameChoice
  <2>4. CASE Tracks(w)
    BY <1>1, <1>5, <2>4 DEF TopicIsPaid, HolderAt, Tracks
  <2>5. CASE Ends(w) \/ GivesUp(w)
    <3>1. /\ ~HolderAt({"creating", "sending"})'
          /\ work[w].pc \notin {"sent", "waiting"}
      BY <1>5, <2>5, JobSays, Numbers DEF Ends, GivesUp, HolderAt
    <3> QED BY <1>1, <1>5, <3>1 DEF TopicIsPaid, HolderAt
  <2>6. Looks(w) \/ Chooses(w) \/ GoesOn(w) \/ Tracks(w) \/ Ends(w) \/ GivesUp(w)
    BY <1>5, Numbers, SMT DEF Advances
  <2> QED BY <2>1, <2>2, <2>3, <2>4, <2>5, <2>6
<1>6. Sends(w) /\ faults' = faults => Tells(w)
  BY Numbers, SMT DEF Advances, SendsNothing, Sends
<1> QED BY <1>2, <1>3, <1>4, <1>5, <1>6

\* A worker that suggests a person without a fault knew that it was not known,
\* and the user knows of it then.
LEMMA TargetStepPays ==
  ASSUME TypeOK, NEW w \in Workers, Advances(w), NEW x \in Targets
  PROVE  /\ job.by # w /\ TargetIsPaid(x) => TargetIsPaid(x)'
         /\ job.by = w /\ Sends(w) /\ work[w].first = x
              => ~TargetIsPaid(x) /\ (faults' = faults => TargetIsPaid(x)')
         /\ job.by = w /\ faults' = faults /\ TargetIsPaid(x) => TargetIsPaid(x)'
<1>1. tracked.targets \subseteq tracked'.targets
  BY DEF Advances
<1>2. ASSUME job.by # w, TargetIsPaid(x)
      PROVE  TargetIsPaid(x)'
  BY <1>1, <1>2, OthersStep DEF TargetIsPaid, HolderAt
<1>3. ASSUME job.by = w, Sends(w), work[w].first = x
      PROVE  ~TargetIsPaid(x)
  BY <1>3 DEF TargetIsPaid, HolderAt, Sends
<1>4. ASSUME job.by = w, faults' = faults, Tells(w)
      PROVE  /\ work[w].first = x => TargetIsPaid(x)'
             /\ TargetIsPaid(x) => TargetIsPaid(x)'
  BY <1>1, <1>4 DEF TargetIsPaid, HolderAt, Tells, SameChoice
<1>5. ASSUME job.by = w, faults' = faults, TargetIsPaid(x), ~Tells(w)
      PROVE  TargetIsPaid(x)'
  <2>1. CASE Looks(w)
    BY <1>1, <1>5, <2>1 DEF TargetIsPaid, HolderAt, Looks
  <2>2. CASE Chooses(w)
    BY <1>1, <1>5, <2>2 DEF TargetIsPaid, HolderAt, Chooses
  <2>3. CASE GoesOn(w)
    BY <1>1, <1>5, <2>3 DEF TargetIsPaid, HolderAt, GoesOn, SameChoice
  <2>4. CASE Tracks(w)
    BY <1>1, <1>5, <2>4 DEF TargetIsPaid, HolderAt, Tracks
  <2>5. CASE Ends(w) \/ GivesUp(w)
    <3>1. /\ ~HolderAt({"creating", "sending"})'
          /\ work[w].pc \notin {"sent", "waiting"}
      BY <1>5, <2>5, JobSays, Numbers DEF Ends, GivesUp, HolderAt
    <3> QED BY <1>1, <1>5, <3>1 DEF TargetIsPaid, HolderAt
  <2>6. Looks(w) \/ Chooses(w) \/ GoesOn(w) \/ Tracks(w) \/ Ends(w) \/ GivesUp(w)
    BY <1>5, Numbers, SMT DEF Advances
  <2> QED BY <2>1, <2>2, <2>3, <2>4, <2>5, <2>6
<1>6. Sends(w) /\ faults' = faults => Tells(w)
  BY Numbers, SMT DEF Advances, SendsNothing, Sends
<1> QED BY <1>2, <1>3, <1>4, <1>5, <1>6

\* A step costs a fault or none, and sends a message or none.
LEMMA StepCosts ==
  ASSUME TypeOK, NEW w \in Workers, Advances(w)
  PROVE  /\ faults' \in {faults, faults + 1} /\ runs' = runs
         /\ Sends(w) \/ SendsNothing
         /\ Sends(w) => /\ work[w].pc \in Unsent /\ work'[w].pc \notin Unsent
                        /\ messages' = messages + 1
         /\ SendsNothing => messages' = messages
BY DEF Advances, Sends, SendsNothing, Unsent, Unasked

LEMMA TopicsAfterStep ==
  ASSUME OutreachInv, NEW w \in Workers, Advances(w)
  PROVE  TopicsInv'
<1> USE DEF OutreachInv
<1> SUFFICES ASSUME NEW x \in Topics
             PROVE  offered'[x] + Cardinality(Strays(Unsent)') <= faults' + One(TopicIsPaid(x)')
  BY Zenon DEF TopicsInv
<1> DEFINE n == Cardinality(Strays(Unsent))
           m == Cardinality(Strays(Unsent)')
           p == One(TopicIsPaid(x))
           q == One(TopicIsPaid(x)')
<1>1. /\ n \in Nat /\ m \in Nat /\ m <= n
      /\ job.by # w /\ Sends(w) => m + 1 <= n
  BY StraysAreFew, StraysAfterStep, StepCosts DEF Open
<1>2. /\ p \in {0, 1} /\ q \in {0, 1}
      /\ job.by # w => p <= q
      /\ job.by = w /\ faults' = faults => p <= q
      /\ job.by = w /\ Sends(w) /\ work[w].topic = x
           => p = 0 /\ (faults' = faults => q = 1)
  BY TopicStepPays DEF One
<1>3. /\ offered \in [Topics -> Nat] /\ offered[x] \in Nat /\ faults \in Nat
      /\ offered[x] + n <= faults + p
  BY TypeSays, Numbers DEF TopicsInv
<1>4. \/ offered'[x] = offered[x]
      \/ offered'[x] = offered[x] + 1 /\ Sends(w) /\ work[w].topic = x
  BY <1>3, StepCosts DEF Sends, SendsNothing
<1>5. faults' = faults \/ faults' = faults + 1
  BY StepCosts
<1> HIDE DEF n, m, p, q, OutreachInv
<1>6. offered'[x] + m <= faults' + q
  BY <1>1, <1>2, <1>3, <1>4, <1>5, SMT
<1> QED BY <1>6 DEF m, q

LEMMA TargetsAfterStep ==
  ASSUME OutreachInv, NEW w \in Workers, Advances(w)
  PROVE  TargetsInv'
<1> USE DEF OutreachInv
<1> SUFFICES ASSUME NEW x \in Targets
             PROVE  first'[x] + Cardinality(Strays(Unsent)') <= faults' + One(TargetIsPaid(x)')
  BY Zenon DEF TargetsInv
<1> DEFINE n == Cardinality(Strays(Unsent))
           m == Cardinality(Strays(Unsent)')
           p == One(TargetIsPaid(x))
           q == One(TargetIsPaid(x)')
<1>1. /\ n \in Nat /\ m \in Nat /\ m <= n
      /\ job.by # w /\ Sends(w) => m + 1 <= n
  BY StraysAreFew, StraysAfterStep, StepCosts DEF Open
<1>2. /\ p \in {0, 1} /\ q \in {0, 1}
      /\ job.by # w => p <= q
      /\ job.by = w /\ faults' = faults => p <= q
      /\ job.by = w /\ Sends(w) /\ work[w].first = x
           => p = 0 /\ (faults' = faults => q = 1)
  BY TargetStepPays DEF One
<1>3. /\ first \in [Targets -> Nat] /\ first[x] \in Nat /\ faults \in Nat
      /\ first[x] + n <= faults + p
  BY TypeSays, Numbers DEF TargetsInv
<1>4. \/ first'[x] = first[x]
      \/ first'[x] = first[x] + 1 /\ Sends(w) /\ work[w].first = x
  BY <1>3, StepCosts DEF Sends, SendsNothing
<1>5. faults' = faults \/ faults' = faults + 1
  BY StepCosts
<1> HIDE DEF n, m, p, q, OutreachInv
<1>6. first'[x] + m <= faults' + q
  BY <1>1, <1>2, <1>3, <1>4, <1>5, SMT
<1> QED BY <1>6 DEF m, q

\* A run that is not open is not opened again without a fault, and what the
\* holder does at its end, the message or the requests, closes it.
LEMMA OpenAfterStep ==
  ASSUME TypeOK, NEW w \in Workers, Advances(w), NEW P \in Open
  PROVE  /\ job.by # w => (RunIsOpen(P)' <=> RunIsOpen(P))
         /\ job.by = w /\ work[w].pc \in P => RunIsOpen(P)
         /\ job.by = w /\ faults' = faults =>
              /\ RunIsOpen(P)' => RunIsOpen(P)
              /\ work[w].pc \in P /\ RunIsOpen(P)' => work'[w].pc \in P
<1>1. /\ job.status = "running" <=> job.by # Nobody
      /\ Nobody \notin Workers /\ faults \in Nat
  BY Numbers
<1>2. ASSUME job.by # w
      PROVE  RunIsOpen(P)' <=> RunIsOpen(P)
  BY <1>2, OthersStep DEF RunIsOpen, HolderAt
<1>3. ASSUME job.by = w, work[w].pc \in P
      PROVE  RunIsOpen(P)
  BY <1>1, <1>3 DEF RunIsOpen, HolderAt
<1>4. ASSUME job.by = w, faults' = faults, RunIsOpen(P)'
      PROVE  RunIsOpen(P)
  <2>1. CASE job' = job
    <3>1. work'[w].pc \in P \union {"idle", "failing", "release"}
      BY <1>1, <1>4, <2>1 DEF RunIsOpen, HolderAt
    <3>2. work[w].pc \in P \union {"failing", "release"}
      BY <1>1, <1>4, <2>1, <3>1
         DEF Advances, Looks, Chooses, GoesOn, Tracks, Tells, Ends, GivesUp, LeftBy,
             Open, Unsent, Unasked
    <3> QED BY <1>1, <1>4, <3>2 DEF RunIsOpen, HolderAt
  <2>2. CASE job' # job
    <3>1. job'.status = "queued" /\ job'.by = Nobody
      BY <1>1, <1>4, <2>2, JobSays DEF RunIsOpen, HolderAt
    <3>2. work[w].pc \in {"failing", "release"}
      BY <1>1, <1>4, <2>2, <3>1
         DEF Advances, Looks, Chooses, GoesOn, Tracks, Tells, Ends, GivesUp, LeftBy
    <3> QED BY <1>1, <1>4, <3>2 DEF RunIsOpen, HolderAt
  <2> QED BY <2>1, <2>2
<1>5. ASSUME job.by = w, faults' = faults, RunIsOpen(P)', work[w].pc \in P
      PROVE  work'[w].pc \in P
  <2>1. Looks(w) \/ Chooses(w) \/ GoesOn(w) \/ Tells(w)
    BY <1>1, <1>5, SMT DEF Advances, Tracks, Ends, GivesUp, Open, Unsent, Unasked
  <2>2. job' = job
    BY <2>1 DEF Looks, Chooses, GoesOn, Tells
  <2>3. work'[w].pc \in P \union {"idle", "failing", "release"}
    BY <1>1, <1>5, <2>2 DEF RunIsOpen, HolderAt
  <2> QED BY <2>1, <2>3 DEF Looks, Chooses, GoesOn, Tells, Open, Unsent, Unasked
<1> QED BY <1>2, <1>3, <1>4, <1>5

LEMMA MessagesAfterStep ==
  ASSUME OutreachInv, NEW w \in Workers, Advances(w)
  PROVE  MessagesInv'
<1> USE DEF OutreachInv
<1> DEFINE n == Cardinality(Strays(Unsent))
           m == Cardinality(Strays(Unsent)')
           p == One(RunIsOpen(Unsent))
           q == One(RunIsOpen(Unsent)')
<1>1. /\ n \in Nat /\ m \in Nat /\ m <= n
      /\ job.by # w /\ Sends(w) => m + 1 <= n
  BY StraysAreFew, StraysAfterStep, StepCosts DEF Open
<1>2. /\ p \in {0, 1} /\ q \in {0, 1}
      /\ job.by # w => p = q
      /\ job.by = w /\ faults' = faults => q <= p
      /\ job.by = w /\ Sends(w) => p = 1 /\ (faults' = faults => q = 0)
  BY OpenAfterStep, StepCosts DEF One, Open
<1>3. /\ messages \in Nat /\ runs \in Nat /\ faults \in Nat
      /\ messages + n + p <= runs + faults
  BY Numbers DEF MessagesInv
<1>4. /\ runs' = runs /\ (faults' = faults \/ faults' = faults + 1)
      /\ messages' = messages \/ (messages' = messages + 1 /\ Sends(w))
  BY StepCosts
<1> HIDE DEF n, m, p, q, OutreachInv
<1>5. messages' + m + q <= runs' + faults'
  BY <1>1, <1>2, <1>3, <1>4, SMT
<1> QED BY <1>5 DEF MessagesInv, m, q

LEMMA RequestsAfterStep ==
  ASSUME OutreachInv, NEW w \in Workers, Advances(w)
  PROVE  RequestsInv'
<1> USE DEF OutreachInv
<1> SUFFICES ASSUME NEW u \in Targets
             PROVE  requests'[u] + Cardinality(Strays(Unasked)') + One(RunIsOpen(Unasked)')
                      <= runs' + faults'
  BY Zenon DEF RequestsInv
<1> DEFINE n == Cardinality(Strays(Unasked))
           m == Cardinality(Strays(Unasked)')
           p == One(RunIsOpen(Unasked))
           q == One(RunIsOpen(Unasked)')
<1>1. /\ Asks(w) => work[w].pc \in Unasked /\ work'[w].pc \notin Unasked
      /\ Unasked \in Open
  BY DEF Asks, Unasked, Open
<1>2. /\ n \in Nat /\ m \in Nat /\ m <= n
      /\ job.by # w /\ Asks(w) => m + 1 <= n
  BY <1>1, StraysAreFew, StraysAfterStep
<1>3. /\ p \in {0, 1} /\ q \in {0, 1}
      /\ job.by # w => p = q
      /\ job.by = w /\ faults' = faults => q <= p
      /\ job.by = w /\ Asks(w) => p = 1 /\ (faults' = faults => q = 0)
  BY <1>1, OpenAfterStep DEF One
<1>4. /\ requests[u] \in Nat /\ runs \in Nat /\ faults \in Nat
      /\ requests[u] + n + p <= runs + faults
  BY Numbers DEF RequestsInv
<1>5. /\ runs' = runs /\ (faults' = faults \/ faults' = faults + 1)
      /\ requests'[u] = requests[u] \/ (requests'[u] <= requests[u] + 1 /\ Asks(w))
      /\ requests'[u] \in Nat
  <2>1. requests' \in [Targets -> Nat]
    BY DEF Advances, TypeOK
  <2> QED BY <2>1, StepCosts DEF Advances, Asks
<1> HIDE DEF n, m, p, q, OutreachInv
<1>6. requests'[u] + m + q <= runs' + faults'
  BY <1>2, <1>3, <1>4, <1>5, SMT
<1> QED BY <1>6 DEF m, q

\* Whatever a worker does with its claim, the invariant stays.
LEMMA StepKeepsInv ==
  ASSUME OutreachInv, NEW w \in Workers, Step(w) \/ Crash(w)
  PROVE  OutreachInv'
<1>1. Advances(w)
  BY StepsAdvance DEF OutreachInv
<1>2. TypeOK' /\ WorkInv'
  BY <1>1 DEF Advances, Becomes, OutreachInv, WorkInv
<1>3. StraysInv'
  BY <1>1, StraysAfterStep DEF OutreachInv, StraysInv, Open
<1> QED BY <1>1, <1>2, <1>3, TopicsAfterStep, TargetsAfterStep, MessagesAfterStep,
           RequestsAfterStep
        DEF OutreachInv
------------------------------------------------------------------------------
(* The claim, the schedule and the clock. *)

\* A claim taken from a worker that is still at it makes that worker a stray,
\* and is a fault; no other claim makes one.
LEMMA ClaimSays ==
  ASSUME OutreachInv, NEW w \in Workers, Claim(w)
  PROVE  /\ TypeOK' /\ Becomes(w, work'[w]) /\ work'[w].pc = "claimed"
         /\ job'.by = w /\ job'.status = "running"
         /\ UNCHANGED <<now, requests, tracked, tasks, runs, messages, offered, first>>
         /\ IF Held THEN faults' = faults + 1 ELSE faults' = faults
         /\ \A P \in Open :
              /\ IsFiniteSet(Strays(P)') /\ Cardinality(Strays(P)') \in Nat
              /\ Cardinality(Strays(P)')
                   <= Cardinality(Strays(P)) + (IF HolderAt(P) THEN 1 ELSE 0)
<1> USE DEF OutreachInv
<1>1. /\ work[w].pc = "idle" /\ job' = Claimed(job, w) /\ Goto(w, "claimed")
      /\ IF Held THEN Fault ELSE NoFault
      /\ UNCHANGED <<now, requests, tracked, tasks, runs, messages, offered, first>>
  BY DEF Claim, rows, hist
<1>2. GoodRow(job') /\ job'.by = w /\ job'.status = "running"
  BY <1>1, TypeSays, ClaimedSays
<1>3. Becomes(w, work'[w]) /\ work'[w].pc = "claimed"
  BY <1>1, GotoIs DEF Pcs, Becomes
<1>4. IF Held THEN faults' = faults + 1 ELSE faults' = faults
  BY <1>1, FaultTyped
<1>5. TypeOK'
  BY <1>1, <1>2, <1>3, TypeSays, FaultTyped, TypeFrom DEF Becomes
<1>6. ASSUME NEW P \in Open
      PROVE  /\ IsFiniteSet(Strays(P)') /\ Cardinality(Strays(P)') \in Nat
             /\ Cardinality(Strays(P)')
                  <= Cardinality(Strays(P)) + (IF HolderAt(P) THEN 1 ELSE 0)
  <2>1. IsFiniteSet(Strays(P)) /\ Cardinality(Strays(P)) \in Nat
    BY StraysAreFew
  <2>2. ASSUME ~HolderAt(P)
        PROVE  Strays(P)' \subseteq Strays(P)
    BY <1>2, <1>3, <2>2 DEF Strays, HolderAt, Becomes
  <2>3. Strays(P)' \subseteq Strays(P) \union {job.by}
    BY <1>2, <1>3 DEF Strays, Becomes
  <2>4. /\ IsFiniteSet(Strays(P) \union {job.by})
        /\ Cardinality(Strays(P) \union {job.by}) = Cardinality(Strays(P)) + 1
    <3>1. job.by \notin Strays(P)
      BY DEF Strays
    <3> QED BY <2>1, <3>1, FS_AddElement
  <2>5. CASE HolderAt(P)
    <3>1. /\ IsFiniteSet(Strays(P)')
          /\ Cardinality(Strays(P)') <= Cardinality(Strays(P) \union {job.by})
      BY <2>3, <2>4, FS_Subset
    <3> QED BY <2>4, <2>5, <3>1, FS_CardinalityType
  <2>6. CASE ~HolderAt(P)
    <3>1. /\ IsFiniteSet(Strays(P)')
          /\ Cardinality(Strays(P)') <= Cardinality(Strays(P))
      BY <2>1, <2>2, <2>6, FS_Subset
    <3> QED BY <2>1, <2>6, <3>1, FS_CardinalityType
  <2> QED BY <2>5, <2>6
<1> QED BY <1>1, <1>2, <1>3, <1>4, <1>5, <1>6

\* Only a worker that is held at its work stands where something is to come.
LEMMA HeldAt ==
  ASSUME TypeOK, NEW Q, "idle" \notin Q, HolderAt(Q)
  PROVE  Held
BY Numbers DEF HolderAt, Held

LEMMA TopicsAfterClaim ==
  ASSUME OutreachInv, NEW w \in Workers, Claim(w)
  PROVE  TopicsInv'
<1> USE DEF OutreachInv
<1> SUFFICES ASSUME NEW x \in Topics
             PROVE  offered'[x] + Cardinality(Strays(Unsent)') <= faults' + One(TopicIsPaid(x)')
  BY Zenon DEF TopicsInv
<1> DEFINE n == Cardinality(Strays(Unsent))
           m == Cardinality(Strays(Unsent)')
           p == One(TopicIsPaid(x))
           q == One(TopicIsPaid(x)')
<1>1. /\ n \in Nat /\ m \in Nat
      /\ m <= n + (IF HolderAt(Unsent) THEN 1 ELSE 0)
  BY StraysAreFew, ClaimSays DEF Open
<1>2. /\ HolderAt(Unsent) => Held
      /\ IF Held THEN faults' = faults + 1 ELSE faults' = faults
  BY HeldAt, ClaimSays DEF Unsent, Unasked
<1>3. ASSUME TopicIsPaid(x), ~TopicIsPaid(x)'
      PROVE  Held /\ ~HolderAt(Unsent)
  <2>1. ~HolderAt({"creating", "sending"})' /\ tracked' = tracked
    BY ClaimSays DEF HolderAt
  <2>2. HolderAt({"sent", "waiting"})
    BY <1>3, <2>1 DEF TopicIsPaid
  <2> QED BY <2>2, HeldAt DEF HolderAt, Unsent, Unasked
<1>4. p \in {0, 1} /\ q \in {0, 1} /\ (p <= q \/ (Held /\ ~HolderAt(Unsent)))
  BY <1>3 DEF One
<1>5. /\ offered[x] \in Nat /\ faults \in Nat /\ offered' = offered
      /\ offered[x] + n <= faults + p
  BY Numbers, ClaimSays DEF TopicsInv
<1> HIDE DEF n, m, p, q, OutreachInv
<1>6. offered'[x] + m <= faults' + q
  BY <1>1, <1>2, <1>4, <1>5, SMT
<1> QED BY <1>6 DEF m, q

LEMMA TargetsAfterClaim ==
  ASSUME OutreachInv, NEW w \in Workers, Claim(w)
  PROVE  TargetsInv'
<1> USE DEF OutreachInv
<1> SUFFICES ASSUME NEW x \in Targets
             PROVE  first'[x] + Cardinality(Strays(Unsent)') <= faults' + One(TargetIsPaid(x)')
  BY Zenon DEF TargetsInv
<1> DEFINE n == Cardinality(Strays(Unsent))
           m == Cardinality(Strays(Unsent)')
           p == One(TargetIsPaid(x))
           q == One(TargetIsPaid(x)')
<1>1. /\ n \in Nat /\ m \in Nat
      /\ m <= n + (IF HolderAt(Unsent) THEN 1 ELSE 0)
  BY StraysAreFew, ClaimSays DEF Open
<1>2. /\ HolderAt(Unsent) => Held
      /\ IF Held THEN faults' = faults + 1 ELSE faults' = faults
  BY HeldAt, ClaimSays DEF Unsent, Unasked
<1>3. ASSUME TargetIsPaid(x), ~TargetIsPaid(x)'
      PROVE  Held /\ ~HolderAt(Unsent)
  <2>1. ~HolderAt({"creating", "sending"})' /\ tracked' = tracked
    BY ClaimSays DEF HolderAt
  <2>2. HolderAt({"sent", "waiting"})
    BY <1>3, <2>1 DEF TargetIsPaid
  <2> QED BY <2>2, HeldAt DEF HolderAt, Unsent, Unasked
<1>4. p \in {0, 1} /\ q \in {0, 1} /\ (p <= q \/ (Held /\ ~HolderAt(Unsent)))
  BY <1>3 DEF One
<1>5. /\ first[x] \in Nat /\ faults \in Nat /\ first' = first
      /\ first[x] + n <= faults + p
  BY Numbers, ClaimSays DEF TargetsInv
<1> HIDE DEF n, m, p, q, OutreachInv
<1>6. first'[x] + m <= faults' + q
  BY <1>1, <1>2, <1>4, <1>5, SMT
<1> QED BY <1>6 DEF m, q

\* A job that is claimed is claimed for a run that is open, or from a worker
\* that is at it.
LEMMA ClaimedRunIsOpen ==
  ASSUME TypeOK, NEW w \in Workers, Claim(w), NEW P \in Open
  PROVE  /\ Held \/ RunIsOpen(P)
         /\ HolderAt(P) => Held /\ RunIsOpen(P)
<1>1. /\ job.status = "queued" \/ job.status = "running"
      /\ job.status = "running" <=> job.by # Nobody
      /\ job.by \in Workers \union {Nobody} /\ Nobody \notin Workers
  BY Numbers DEF Claim, Claimable
<1>2. Held \/ RunIsOpen(P)
  BY <1>1 DEF Held, RunIsOpen, HolderAt
<1>3. HolderAt(P) => Held /\ RunIsOpen(P)
  BY <1>1, HeldAt DEF RunIsOpen, HolderAt, Open, Unsent, Unasked
<1> QED BY <1>2, <1>3

\* What a claim adds to the strays and to the open runs.
LEMMA ClaimCosts ==
  ASSUME OutreachInv, NEW w \in Workers, Claim(w), NEW P \in Open
  PROVE  /\ Cardinality(Strays(P)) \in Nat /\ Cardinality(Strays(P)') \in Nat
         /\ One(RunIsOpen(P)) \in {0, 1} /\ One(RunIsOpen(P)') \in {0, 1}
         /\ \/ /\ faults' = faults /\ One(RunIsOpen(P)) = 1
               /\ Cardinality(Strays(P)') <= Cardinality(Strays(P))
            \/ /\ faults' = faults + 1
               /\ \/ Cardinality(Strays(P)') <= Cardinality(Strays(P))
                  \/ /\ Cardinality(Strays(P)') <= Cardinality(Strays(P)) + 1
                     /\ One(RunIsOpen(P)) = 1
BY StraysAreFew, ClaimSays, ClaimedRunIsOpen DEF One, OutreachInv

LEMMA ClaimKeepsInv ==
  ASSUME OutreachInv, NEW w \in Workers, Claim(w)
  PROVE  OutreachInv'
<1> USE DEF OutreachInv
<1>1. TypeOK' /\ StraysInv'
  BY ClaimSays DEF StraysInv, Open
<1>2. WorkInv'
  BY ClaimSays DEF WorkInv, Becomes, GoodWork, Chosen
<1>3. MessagesInv'
  <2> DEFINE n == Cardinality(Strays(Unsent))
             m == Cardinality(Strays(Unsent)')
             p == One(RunIsOpen(Unsent))
             q == One(RunIsOpen(Unsent)')
  <2>1. /\ messages \in Nat /\ runs \in Nat /\ faults \in Nat
        /\ messages' = messages /\ runs' = runs
        /\ messages + n + p <= runs + faults
    BY Numbers, ClaimSays DEF MessagesInv
  <2>2. /\ n \in Nat /\ m \in Nat /\ p \in {0, 1} /\ q \in {0, 1}
        /\ \/ faults' = faults /\ p = 1 /\ m <= n
           \/ faults' = faults + 1 /\ (m <= n \/ (m <= n + 1 /\ p = 1))
    BY ClaimCosts DEF Open
  <2> HIDE DEF n, m, p, q, OutreachInv
  <2>3. messages' + m + q <= runs' + faults'
    BY <2>1, <2>2, SMT
  <2> QED BY <2>3 DEF MessagesInv, m, q
<1>4. RequestsInv'
  <2> SUFFICES ASSUME NEW u \in Targets
               PROVE  requests'[u] + Cardinality(Strays(Unasked)') + One(RunIsOpen(Unasked)')
                        <= runs' + faults'
    BY Zenon DEF RequestsInv
  <2> DEFINE n == Cardinality(Strays(Unasked))
             m == Cardinality(Strays(Unasked)')
             p == One(RunIsOpen(Unasked))
             q == One(RunIsOpen(Unasked)')
  <2>1. /\ requests[u] \in Nat /\ runs \in Nat /\ faults \in Nat
        /\ requests' = requests /\ runs' = runs
        /\ requests[u] + n + p <= runs + faults
    BY Numbers, ClaimSays DEF RequestsInv
  <2>2. /\ n \in Nat /\ m \in Nat /\ p \in {0, 1} /\ q \in {0, 1}
        /\ \/ faults' = faults /\ p = 1 /\ m <= n
           \/ faults' = faults + 1 /\ (m <= n \/ (m <= n + 1 /\ p = 1))
    BY ClaimCosts DEF Open
  <2> HIDE DEF n, m, p, q, OutreachInv
  <2>3. requests'[u] + m + q <= runs' + faults'
    BY <2>1, <2>2, SMT
  <2> QED BY <2>3 DEF m, q
<1> QED BY <1>1, <1>2, <1>3, <1>4, TopicsAfterClaim, TargetsAfterClaim

\* Where nobody moves, only the run that is scheduled is new.
LEMMA StillKeepsInv ==
  ASSUME OutreachInv, TypeOK', job'.by = job.by, runs' \in {runs, runs + 1},
         runs' = runs => job'.status = job.status,
         UNCHANGED <<requests, tracked, work, messages, offered, first, faults>>
  PROVE  OutreachInv'
<1> USE DEF OutreachInv
<1>1. /\ \A P \in Open : Strays(P)' = Strays(P)
      /\ \A Q : HolderAt(Q)' <=> HolderAt(Q)
  BY SameWorkers
<1>2. WorkInv' /\ StraysInv'
  BY <1>1 DEF WorkInv, StraysInv, Open
<1>3. /\ \A t \in Topics : TopicIsPaid(t)' <=> TopicIsPaid(t)
      /\ \A u \in Targets : TargetIsPaid(u)' <=> TargetIsPaid(u)
  BY <1>1 DEF TopicIsPaid, TargetIsPaid
<1>4. TopicsInv' /\ TargetsInv'
  BY <1>1, <1>3 DEF TopicsInv, TargetsInv, One, Open
<1>5. ASSUME NEW P \in Open
      PROVE  /\ Cardinality(Strays(P)') = Cardinality(Strays(P))
             /\ Cardinality(Strays(P)) \in Nat
             /\ One(RunIsOpen(P)) \in {0, 1} /\ One(RunIsOpen(P)') \in {0, 1}
             /\ runs' = runs => One(RunIsOpen(P)') = One(RunIsOpen(P))
  BY <1>1, StraysAreFew DEF One, RunIsOpen
<1>6. runs \in Nat /\ faults \in Nat /\ messages \in Nat
  BY Numbers
<1>7. MessagesInv'
  <2> DEFINE n == Cardinality(Strays(Unsent))
             p == One(RunIsOpen(Unsent))
             q == One(RunIsOpen(Unsent)')
  <2>1. /\ n \in Nat /\ p \in {0, 1} /\ q \in {0, 1} /\ (runs' = runs => q = p)
        /\ Cardinality(Strays(Unsent)') = n /\ messages + n + p <= runs + faults
    BY <1>5 DEF Open, MessagesInv
  <2> HIDE DEF n, p, q, OutreachInv
  <2>2. messages' + n + q <= runs' + faults'
    BY <1>6, <2>1, SMT
  <2> QED BY <2>1, <2>2 DEF MessagesInv, q
<1>8. RequestsInv'
  <2> SUFFICES ASSUME NEW u \in Targets
               PROVE  requests'[u] + Cardinality(Strays(Unasked)') + One(RunIsOpen(Unasked)')
                        <= runs' + faults'
    BY Zenon DEF RequestsInv
  <2> DEFINE n == Cardinality(Strays(Unasked))
             p == One(RunIsOpen(Unasked))
             q == One(RunIsOpen(Unasked)')
  <2>1. /\ n \in Nat /\ p \in {0, 1} /\ q \in {0, 1} /\ (runs' = runs => q = p)
        /\ Cardinality(Strays(Unasked)') = n
        /\ requests[u] \in Nat /\ requests[u] + n + p <= runs + faults
    BY <1>5, Numbers DEF Open, RequestsInv
  <2> HIDE DEF n, p, q, OutreachInv
  <2>2. requests'[u] + n + q <= runs' + faults'
    BY <1>6, <2>1, SMT
  <2> QED BY <2>1, <2>2 DEF q
<1> QED BY <1>2, <1>4, <1>7, <1>8

LEMMA ScheduleKeepsInv ==
  ASSUME OutreachInv, Schedule
  PROVE  OutreachInv'
<1> USE DEF OutreachInv
<1>1. PICK d \in 1 .. Interval : job' = Scheduled(job, NoLater(now + d))
  BY DEF Schedule
<1>2. now + d \in Nat
  BY Numbers, UserJobsAssumption, SMT DEF UserJobsAssumption
<1>3. GoodRow(job') /\ job'.by = job.by
  BY <1>1, <1>2, TypeSays, LaterIsFine, ScheduledSays
<1>4. runs' = runs + 1 /\ runs \in Nat /\ runs' \in 0 .. MaxRuns
  BY Numbers, OutreachAssumption, SMT DEF Schedule, OutreachAssumption
<1>5. UNCHANGED <<now, requests, tracked, tasks, work, messages, offered, first, faults>>
  BY DEF Schedule, rows
<1>6. TypeOK'
  BY <1>3, <1>4, <1>5, TypeSays, TypeFrom
<1>7. runs' # runs
  BY <1>4, SMT
<1> QED BY <1>3, <1>4, <1>5, <1>6, <1>7, StillKeepsInv

LEMMA TickKeepsInv ==
  ASSUME OutreachInv, Tick
  PROVE  OutreachInv'
<1> USE DEF OutreachInv
<1>1. /\ now' = NoLater(now + 1) /\ job' = Aged(job)
      /\ UNCHANGED <<requests, tracked, tasks, work, runs, messages, offered, first, faults>>
  BY DEF Tick, rows, hist
<1>2. GoodRow(job') /\ job'.by = job.by /\ job'.status = job.status
  BY <1>1, TypeSays, AgedSays
<1>3. now' \in 1 .. Horizon
  BY <1>1, TypeSays, UserJobsAssumption, SMT DEF NoLater, UserJobsAssumption
<1>4. TypeOK'
  BY <1>1, <1>2, <1>3, TypeSays, TypeFrom
<1> QED BY <1>1, <1>2, <1>4, StillKeepsInv
------------------------------------------------------------------------------
(* The invariant and what it says. *)

LEMMA InitOutreachInv ==
  ASSUME Init
  PROVE  OutreachInv
<1>1. GoodRow(NoJob) /\ NoJob.by = Nobody /\ NoJob.status = "none"
  BY ZeroIsFine DEF NoJob, GoodRow, JobRows, ClaimIsKnown
<1>2. /\ job = NoJob /\ work = [w \in Workers |-> Idle] /\ now = 1
      /\ requests = [u \in Targets |-> 0] /\ tracked = [topics |-> {}, targets |-> {}]
      /\ tasks = {} /\ runs = 0 /\ messages = 0 /\ faults = 0
      /\ offered = [t \in Topics |-> 0] /\ first = [u \in Targets |-> 0]
  BY DEF Init
<1>3. TypeOK
  BY <1>1, <1>2, IdleIs, UserJobsAssumption, OutreachAssumption
     DEF TypeOK, GoodRow, WorkRows, UserJobsAssumption, OutreachAssumption
<1>4. WorkInv
  BY <1>2, IdleIs DEF WorkInv, GoodWork, Chosen
<1>5. Strays(Unsent) = {} /\ Strays(Unasked) = {}
  BY <1>2, IdleIs DEF Strays, Unsent, Unasked
<1>6. StraysInv /\ Cardinality(Strays(Unsent)) = 0 /\ Cardinality(Strays(Unasked)) = 0
  BY <1>5, FS_EmptySet DEF StraysInv
<1>7. \A P : RunIsOpen(P) => FALSE
  BY <1>1, <1>2, Numbers, <1>3 DEF RunIsOpen
<1>8. TopicsInv /\ TargetsInv
  BY <1>2, <1>6 DEF TopicsInv, TargetsInv, One
<1>9. MessagesInv /\ RequestsInv
  BY <1>2, <1>6, <1>7 DEF MessagesInv, RequestsInv, One
<1> QED BY <1>3, <1>4, <1>6, <1>8, <1>9 DEF OutreachInv

LEMMA NextOutreachInv == OutreachInv /\ [Next]_vars => OutreachInv'
<1> SUFFICES ASSUME OutreachInv, [Next]_vars
             PROVE  OutreachInv'
  OBVIOUS
<1>1. CASE UNCHANGED vars
  BY <1>1, StillKeepsInv DEF vars, rows, hist, OutreachInv, TypeOK
<1>2. CASE Schedule
  BY <1>2, ScheduleKeepsInv
<1>3. CASE Tick
  BY <1>3, TickKeepsInv
<1>4. ASSUME NEW w \in Workers, Claim(w) \/ Step(w) \/ Crash(w)
      PROVE  OutreachInv'
  BY <1>4, ClaimKeepsInv, StepKeepsInv
<1> QED BY <1>1, <1>2, <1>3, <1>4 DEF Next

LEMMA SpecOutreachInv == Spec => []OutreachInv
BY InitOutreachInv, NextOutreachInv, PTL DEF Spec

\* Through every schedule, claim, fault and crash the row of the job, the
\* requests, the tracking and the work of the workers keep their types, and a
\* job is claimed exactly while it runs.
THEOREM OutreachIsTyped == Spec => []TypeOK
<1>1. OutreachInv => TypeOK
  BY DEF OutreachInv
<1> QED BY <1>1, SpecOutreachInv, PTL

\* run_outreach suggests no topic and no first person twice, sends one message
\* a run and asks nobody twice in it, but for one further time for every fault:
\* a send that raised, a tracking or a check that failed, a crash, or a claim
\* that was taken from a worker still at it.
THEOREM OnceButForFaults == Spec => []NothingTwice
<1>1. ASSUME OutreachInv
      PROVE  NothingTwice
  <2> USE <1>1 DEF OutreachInv
  <2>1. /\ Cardinality(Strays(Unsent)) \in Nat /\ Cardinality(Strays(Unasked)) \in Nat
        /\ One(RunIsOpen(Unsent)) \in {0, 1} /\ One(RunIsOpen(Unasked)) \in {0, 1}
        /\ \A t \in Topics : One(TopicIsPaid(t)) \in {0, 1}
        /\ \A u \in Targets : One(TargetIsPaid(u)) \in {0, 1}
    BY StraysAreFew DEF Open, One
  <2>2. /\ runs \in Nat /\ faults \in Nat /\ messages \in Nat
        /\ \A t \in Topics : offered[t] \in Nat
        /\ \A u \in Targets : first[u] \in Nat /\ requests[u] \in Nat
    BY Numbers
  <2>3. \A t \in Topics : offered[t] <= 1 + faults
    BY <2>1, <2>2, SMT DEF TopicsInv
  <2>4. \A u \in Targets : first[u] <= 1 + faults
    BY <2>1, <2>2, SMT DEF TargetsInv
  <2>5. messages <= runs + faults
    BY <2>1, <2>2, SMT DEF MessagesInv
  <2>6. \A u \in Targets : requests[u] <= runs + faults
    BY <2>1, <2>2, SMT DEF RequestsInv
  <2> QED BY <2>3, <2>4, <2>5, <2>6 DEF NothingTwice
<1> QED BY <1>1, SpecOutreachInv, PTL
===============================================================================
