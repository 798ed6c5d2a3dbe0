-------------------------- MODULE ChatFollowupProofs --------------------------
(* For any messages, workers, windows and number of faults: a follow-up job  *)
(* that is done was nudged or skipped for the very message it stands at, no  *)
(* nudge is sent over a newer message that its worker could have read, and a *)
(* silence gets a second nudge only by a fault.                              *)
EXTENDS ChatFollowup, TLAPS, FiniteSetTheorems

------------------------------------------------------------------------------
(* The row of the job. *)

\* A row of the table as every caller may find it.
GoodRow(j, W, I) == j \in JobRows(W, I) /\ ClaimIsKnown(j)

\* The row r has the anchor of j and is not due earlier.
SameAnchor(r, j) == r.at = j.at /\ r.id = j.id /\ r.due >= j.due

\* The fields of a row have their types, and a row has its own anchor.
LEMMA RowFields ==
  ASSUME NEW W, NEW I, NEW j \in JobRows(W, I)
  PROVE  /\ j.at \in 0 .. Horizon /\ j.due \in 0 .. Horizon
         /\ j.attempts \in Nat /\ j.age \in 0 .. StaleAfter
         /\ j.id \in I \union {NoMsg} /\ j.by \in W \union {Nobody}
         /\ j.status \in {"none", "queued", "running", "done", "failed"}
         /\ SameAnchor(j, j)
BY SMT DEF JobRows, SameAnchor

\* Zero is a time, a count and an age.
LEMMA ZeroIsFine == 0 \in 0 .. Horizon /\ 0 \in Nat /\ 0 \in 0 .. StaleAfter
BY JobsAssumption, SMT DEF JobsAssumption

\* schedule keeps a row good and leaves its claim; the message it is called
\* with becomes the anchor when it is not older.
LEMMA ScheduledSays ==
  ASSUME NEW W, NEW I, NEW j \in JobRows(W, I), NEW t, NEW id
  PROVE  /\ (GoodRow(j, W, I) /\ t \in 0 .. Horizon /\ t + Window <= Horizon /\ id \in I)
               => GoodRow(Scheduled(j, t, id), W, I)
         /\ Scheduled(j, t, id).by = j.by
         /\ Scheduled(j, t, id).status \in {"queued", "running"}
         /\ Moves(j, t) => /\ Scheduled(j, t, id).at = t
                           /\ Scheduled(j, t, id).id = id
                           /\ Scheduled(j, t, id).due = t + Window
         /\ ~Moves(j, t) => /\ Scheduled(j, t, id).at = j.at
                            /\ Scheduled(j, t, id).id = j.id
                            /\ Scheduled(j, t, id).due = j.due
<1> DEFINE s == IF j.status = "running" THEN j.status ELSE "queued"
           moved == [j EXCEPT !.status = s, !.at = t, !.id = id, !.due = t + Window,
                              !.attempts = 0]
           kept == [j EXCEPT !.status = s]
<1>1. /\ s \in {"queued", "running"} /\ (s = "running" <=> j.status = "running")
      /\ Scheduled(j, t, id) = IF Moves(j, t) THEN moved ELSE kept
  BY DEF Scheduled
<1> HIDE DEF s
<1>2. /\ moved.by = j.by /\ moved.status = s /\ moved.at = t /\ moved.id = id
      /\ moved.due = t + Window
      /\ kept.by = j.by /\ kept.status = s /\ kept.at = j.at /\ kept.id = j.id
      /\ kept.due = j.due
  BY <1>1, SMT DEF JobRows
<1>3. ASSUME GoodRow(j, W, I), t \in 0 .. Horizon, t + Window <= Horizon, id \in I
      PROVE  GoodRow(Scheduled(j, t, id), W, I)
  <2>1. t + Window \in 0 .. Horizon
    BY <1>3, JobsAssumption, SMT DEF JobsAssumption
  <2>2. moved \in JobRows(W, I) /\ kept \in JobRows(W, I)
    BY <1>1, <1>3, <2>1, ZeroIsFine, Zenon DEF JobRows
  <2> QED BY <1>1, <1>2, <1>3, <2>2 DEF GoodRow, ClaimIsKnown
<1> QED BY <1>1, <1>2, <1>3

\* claim keeps a row good and its anchor.
LEMMA ClaimedSays ==
  ASSUME NEW W, NEW I, NEW j \in JobRows(W, I), NEW w
  PROVE  /\ w \in W /\ Nobody \notin W => GoodRow(Claimed(j, w), W, I)
         /\ SameAnchor(Claimed(j, w), j)
         /\ Claimed(j, w).by = w /\ Claimed(j, w).status = "running"
<1>1. w \in W => Claimed(j, w) \in JobRows(W, I)
  BY ZeroIsFine, Zenon DEF JobRows, Claimed
<1>2. /\ SameAnchor(Claimed(j, w), j)
      /\ Claimed(j, w).by = w /\ Claimed(j, w).status = "running"
  BY SMT DEF JobRows, Claimed, SameAnchor
<1> QED BY <1>1, <1>2 DEF GoodRow, ClaimIsKnown

\* A claim ages within its bound, and nothing else of the row changes.
LEMMA AgedSays ==
  ASSUME NEW W, NEW I, NEW j, GoodRow(j, W, I)
  PROVE  /\ GoodRow(Aged(j), W, I) /\ SameAnchor(Aged(j), j)
         /\ Aged(j).status = j.status /\ Aged(j).by = j.by
<1> DEFINE a == IF j.by # Nobody /\ j.age < StaleAfter THEN j.age + 1 ELSE j.age
<1>1. j \in JobRows(W, I) /\ Aged(j) = [j EXCEPT !.age = a]
  BY DEF GoodRow, Aged
<1>2. a \in 0 .. StaleAfter
  BY <1>1, RowFields, JobsAssumption, SMT DEF JobsAssumption
<1> HIDE DEF a
<1>3. Aged(j) \in JobRows(W, I)
  BY <1>1, <1>2, Zenon DEF JobRows
<1>4. SameAnchor(Aged(j), j) /\ Aged(j).status = j.status /\ Aged(j).by = j.by
  BY <1>1, SMT DEF JobRows, SameAnchor
<1> QED BY <1>1, <1>3, <1>4 DEF GoodRow, ClaimIsKnown

\* A row that is freed for any status but "running" is good.
LEMMA FreedSays ==
  ASSUME NEW W, NEW I, NEW j \in JobRows(W, I),
         NEW s \in {"queued", "done", "failed"}, NEW a \in Nat, NEW d \in 0 .. Horizon,
         d >= j.due
  PROVE  /\ GoodRow(Freed(j, s, a, d), W, I) /\ SameAnchor(Freed(j, s, a, d), j)
         /\ Freed(j, s, a, d).status = s /\ Freed(j, s, a, d).by = Nobody
<1>1. Freed(j, s, a, d) \in JobRows(W, I)
  BY ZeroIsFine, Zenon DEF JobRows, Freed
<1>2. /\ Freed(j, s, a, d).status = s /\ Freed(j, s, a, d).by = Nobody
      /\ SameAnchor(Freed(j, s, a, d), j)
  BY SMT DEF JobRows, Freed, SameAnchor
<1> QED BY <1>1, <1>2 DEF GoodRow, ClaimIsKnown

\* release, complete and fail keep a row good and its anchor, free it for the
\* worker that holds the claim and leave it alone for every other one; only
\* complete makes it done, and only by the anchor that the worker started from.
GivenBackBy(r, j, w, W, I) ==
  /\ GoodRow(r, W, I) /\ SameAnchor(r, j)
  /\ IF j.by = w THEN r.by = Nobody ELSE r = j
  /\ r.status = "none" <=> j.status = "none"

LEMMA GivenBackOrUp ==
  ASSUME NEW W, NEW I, NEW j, GoodRow(j, W, I), NEW w \in W, NEW id,
         NEW t \in Nat, Nobody \notin W
  PROVE  /\ GivenBackBy(Released(j, w), j, w, W, I)
         /\ GivenBackBy(Completed(j, w, id), j, w, W, I)
         /\ GivenBackBy(Failed(j, w, id, t), j, w, W, I)
         /\ Released(j, w).status = "done" => j.status = "done"
         /\ Completed(j, w, id).status = "done"
              => j.status = "done" \/ (j.by = w /\ j.id = id)
         /\ Failed(j, w, id, t).status = "done" => j.status = "done"
<1>1. j \in JobRows(W, I) /\ (j.by = w => j.status = "running")
  BY DEF GoodRow, ClaimIsKnown
<1>2. /\ j.due \in 0 .. Horizon /\ j.attempts \in Nat /\ SameAnchor(j, j)
      /\ j.attempts + 1 \in Nat /\ 0 \in Nat
  BY <1>1, RowFields
<1> DEFINE later == NoLater(t + Backoff)
           due == IF j.due >= later THEN j.due ELSE later
           s == IF j.attempts + 1 >= MaxAttempts THEN "failed" ELSE "queued"
<1>3. later \in 0 .. Horizon
  BY JobsAssumption, SMT DEF JobsAssumption, NoLater
<1> HIDE DEF later
<1>4. due \in 0 .. Horizon /\ due >= j.due /\ j.due >= j.due
  BY <1>2, <1>3, SMT
<1>5. /\ Requeued(j) = Freed(j, "queued", j.attempts, j.due)
      /\ Retried(j, t) = Freed(j, s, j.attempts + 1, due)
      /\ s \in {"queued", "failed"}
  BY DEF Requeued, Retried, later
<1> HIDE DEF due, s
<1>6. /\ "queued" \in {"queued", "done", "failed"} /\ s \in {"queued", "done", "failed"}
      /\ "done" \in {"queued", "done", "failed"}
  BY <1>5
<1> DEFINE IsBack(r) == /\ GoodRow(r, W, I) /\ SameAnchor(r, j) /\ r.by = Nobody
                        /\ r.status # "none"
<1>7. /\ IsBack(Requeued(j)) /\ Requeued(j).status # "done"
      /\ IsBack(Retried(j, t)) /\ Retried(j, t).status # "done"
      /\ IsBack(Freed(j, "done", 0, j.due))
  <2>1. IsBack(Requeued(j)) /\ Requeued(j).status # "done"
    BY <1>1, <1>2, <1>4, <1>5, <1>6, FreedSays
  <2>2. IsBack(Retried(j, t)) /\ Retried(j, t).status # "done"
    BY <1>1, <1>2, <1>4, <1>5, <1>6, FreedSays
  <2>3. IsBack(Freed(j, "done", 0, j.due))
    BY <1>1, <1>2, <1>4, <1>6, FreedSays
  <2> QED BY <2>1, <2>2, <2>3
<1>8. CASE j.by # w
  <2>1. Released(j, w) = j /\ Completed(j, w, id) = j /\ Failed(j, w, id, t) = j
    BY <1>8 DEF Released, Completed, Failed
  <2> QED BY <1>2, <1>8, <2>1 DEF GivenBackBy
<1>9. CASE j.by = w
  <2>1. /\ Released(j, w) = Requeued(j)
        /\ j.id = id => Completed(j, w, id) = Freed(j, "done", 0, j.due)
        /\ j.id # id => Completed(j, w, id) = Requeued(j)
    BY <1>9 DEF Released, Completed
  <2>2. Failed(j, w, id, t) \in {Requeued(j), Retried(j, t)}
    BY <1>9 DEF Failed
  <2> QED BY <1>1, <1>7, <1>9, <2>1, <2>2 DEF GivenBackBy
<1> QED BY <1>8, <1>9

LEMMA GivenBack ==
  ASSUME NEW W, NEW I, NEW j, GoodRow(j, W, I), NEW w \in W, NEW id, Nobody \notin W
  PROVE  /\ GivenBackBy(Released(j, w), j, w, W, I)
         /\ GivenBackBy(Completed(j, w, id), j, w, W, I)
         /\ Released(j, w).status = "done" => j.status = "done"
         /\ Completed(j, w, id).status = "done"
              => j.status = "done" \/ (j.by = w /\ j.id = id)
<1>1. 0 \in Nat
  OBVIOUS
<1> QED BY <1>1, GivenBackOrUp

LEMMA GivenUp ==
  ASSUME NEW W, NEW I, NEW j, GoodRow(j, W, I), NEW w \in W, NEW id,
         NEW t \in Nat, Nobody \notin W
  PROVE  /\ GivenBackBy(Failed(j, w, id, t), j, w, W, I)
         /\ Failed(j, w, id, t).status = "done" => j.status = "done"
BY GivenBackOrUp
------------------------------------------------------------------------------
(* The invariant is a statement about the row and one about each worker; the *)
(* latter takes the state it depends on as parameters, so that it can be     *)
(* said of a worker's next record and of the next state.                     *)
Known(snt) == {m \in Msgs : snt[m] # 0}

Shown(id, ndg, skp) == ndg[id] > 0 \/ id \in skp

WorkRows == [pc: Pcs, id: Msgs \union {NoMsg}, due: 0 .. Horizon,
             nudge: 0 .. Horizon, at: 0 .. Horizon, heard: SUBSET Msgs]

\* What a worker at r knows: its message is recorded, a job it is about to
\* complete was nudged, so was one that it saw a nudge of, and when it asks
\* the model it has heard of nothing newer.
GoodWork(r, snt, ndg, skp) ==
  /\ r \in WorkRows
  /\ r.pc # "idle" => r.id \in Known(snt) /\ r.heard \subseteq Known(snt)
  /\ r.pc = "complete" => Shown(r.id, ndg, skp)
  /\ r.pc = "claimed" /\ r.nudge # 0 => Shown(r.id, ndg, skp)
  /\ r.pc = "asking" => \A m \in r.heard : snt[m] <= snt[r.id]

WorkInv ==
  /\ work \in [Workers -> WorkRows]
  /\ \A w \in Workers : GoodWork(work[w], sent, nudged, skipped)

RowInv ==
  /\ GoodRow(job, Workers, Msgs)
  /\ job.status # "none" => job.id \in Known(sent)
  /\ nudge \in 0 .. Horizon /\ (nudge # 0 => job.status # "none")
  /\ job.status = "done" \/ nudge # 0 => Shown(job.id, nudged, skipped)

ChatInv ==
  /\ now \in 1 .. Horizon
  /\ sent \in [Msgs -> 0 .. Horizon]
  /\ \A m \in Known(sent) : sent[m] + Window <= Horizon
  /\ calling \subseteq Known(sent)

HistoryInv ==
  /\ nudged \in [Msgs -> Nat]
  /\ skipped \subseteq Msgs /\ unheard = {} /\ lost \subseteq Msgs /\ repeated \subseteq Msgs
  /\ faults \in 0 .. MaxFaults

FollowupInv == ChatInv /\ RowInv /\ WorkInv /\ HistoryInv

\* The invariant says what the runs check.
LEMMA InvariantSays == FollowupInv => TypeOK /\ DoneMeansNudged /\ NudgedInSilence
BY SMT DEF FollowupInv, ChatInv, RowInv, WorkInv, HistoryInv, TypeOK, DoneMeansNudged,
       NudgedInSilence, GoodRow, WorkRows, Known, Recorded, Shown

------------------------------------------------------------------------------
(* What holds of a worker goes on holding while the chat grows.              *)

Grows(snt, snt2, ndg, ndg2, skp, skp2) ==
  /\ \A m \in Known(snt) : snt2[m] = snt[m]
  /\ \A m \in Msgs : ndg[m] > 0 => ndg2[m] > 0
  /\ skp \subseteq skp2

LEMMA ShownIsKept ==
  ASSUME NEW snt, NEW snt2, NEW ndg, NEW ndg2, NEW skp, NEW skp2,
         Grows(snt, snt2, ndg, ndg2, skp, skp2), NEW id \in Msgs, Shown(id, ndg, skp)
  PROVE  Shown(id, ndg2, skp2)
BY DEF Grows, Shown

LEMMA WorkIsKept ==
  ASSUME NEW snt, NEW snt2, NEW ndg, NEW ndg2, NEW skp, NEW skp2,
         Grows(snt, snt2, ndg, ndg2, skp, skp2),
         NEW r, GoodWork(r, snt, ndg, skp)
  PROVE  GoodWork(r, snt2, ndg2, skp2)
<1>1. Known(snt) \subseteq Known(snt2)
  BY DEF Grows, Known
<1>2. \A m \in Known(snt) : snt2[m] = snt[m]
  BY DEF Grows
<1>3. \A id \in Known(snt) : Shown(id, ndg, skp) => Shown(id, ndg2, skp2)
  BY ShownIsKept DEF Known
<1>4. r.pc # "idle" => r.id \in Known(snt) /\ r.heard \subseteq Known(snt)
  BY DEF GoodWork
<1> QED BY <1>1, <1>2, <1>3, <1>4 DEF GoodWork

\* At most one worker changes its record, into a good one.
LEMMA WorkersAreKept ==
  ASSUME WorkInv, Grows(sent, sent', nudged, nudged', skipped, skipped'),
         \/ work' = work
         \/ \E w \in Workers, r \in WorkRows :
              GoodWork(r, sent', nudged', skipped') /\ work' = [work EXCEPT ![w] = r]
  PROVE  WorkInv'
<1>1. \A v \in Workers : GoodWork(work[v], sent', nudged', skipped')
  BY WorkIsKept DEF WorkInv
<1>2. CASE work' = work
  BY <1>1, <1>2 DEF WorkInv
<1>3. ASSUME NEW w \in Workers, NEW r \in WorkRows,
             GoodWork(r, sent', nudged', skipped'), work' = [work EXCEPT ![w] = r]
      PROVE  WorkInv'
  <2>1. work' \in [Workers -> WorkRows]
    BY <1>3 DEF WorkInv
  <2>2. \A v \in Workers : work'[v] = IF v = w THEN r ELSE work[v]
    BY <1>3 DEF WorkInv
  <2>3. \A v \in Workers : GoodWork(work'[v], sent', nudged', skipped')
    BY <1>1, <1>3, <2>2
  <2> QED BY <2>1, <2>3 DEF WorkInv
<1> QED BY <1>2, <1>3
------------------------------------------------------------------------------
(* The initial state, the recorder and the clock.                            *)

LEMMA StartsWell == Init => FollowupInv
<1> SUFFICES ASSUME Init PROVE FollowupInv
  OBVIOUS
<1> USE JobsAssumption, FollowupAssumption DEF JobsAssumption, FollowupAssumption
<1>1. ChatInv
  BY SMT DEF Init, ChatInv, Known
<1>2. RowInv
  BY ZeroIsFine, SMT DEF Init, RowInv, GoodRow, NoJob, JobRows, ClaimIsKnown
<1>3. Idle \in WorkRows /\ Idle.pc = "idle"
  BY SMT DEF Idle, WorkRows, Pcs
<1>4. WorkInv
  BY <1>3, SMT DEF Init, WorkInv, GoodWork
<1>5. HistoryInv
  BY SMT DEF Init, HistoryInv
<1> QED BY <1>1, <1>2, <1>4, <1>5 DEF FollowupInv

\* A schedule call with a recorded message: what it does to the row.
LEMMA ScheduleKeepsRow ==
  ASSUME ChatInv, RowInv, NEW m \in Known(sent),
         job' = Scheduled(job, sent[m], m), nudge' = NudgeAfter(sent[m]),
         UNCHANGED <<sent, nudged, skipped>>
  PROVE  RowInv'
<1>1. sent[m] \in 0 .. Horizon /\ sent[m] + Window <= Horizon /\ m \in Msgs
  BY DEF ChatInv, Known
<1>2. GoodRow(job', Workers, Msgs)
  BY <1>1, ScheduledSays DEF GoodRow, RowInv
<1>3. job \in JobRows(Workers, Msgs)
  BY DEF RowInv, GoodRow
<1> DEFINE s == IF job.status = "running" THEN job.status ELSE "queued"
<1>4. CASE Moves(job, sent[m])
  <2>1. job' = [job EXCEPT !.status = s, !.at = sent[m], !.id = m,
                           !.due = sent[m] + Window, !.attempts = 0]
    BY <1>4 DEF Scheduled
  <2>2. s # "done" /\ s # "none"
    OBVIOUS
  <2> HIDE DEF s
  <2>3. job'.id = m /\ job'.status = s
    BY <1>3, <2>1, SMT DEF JobRows
  <2>4. nudge' = 0
    BY <1>4 DEF NudgeAfter
  <2> QED BY <1>2, <2>2, <2>3, <2>4, ZeroIsFine DEF RowInv
<1>5. CASE ~Moves(job, sent[m])
  <2>1. job' = [job EXCEPT !.status = s]
    BY <1>5 DEF Scheduled
  <2>2. s # "done" /\ s # "none"
    OBVIOUS
  <2> HIDE DEF s
  <2>3. job'.id = job.id /\ job'.status = s
    BY <1>3, <2>1, SMT DEF JobRows
  <2>4. nudge' = nudge /\ job.status # "none"
    BY <1>5 DEF NudgeAfter, Moves
  <2> QED BY <1>2, <2>2, <2>3, <2>4 DEF RowInv
<1> QED BY <1>4, <1>5

\* A row that nobody touches stays good while the chat grows.
LEMMA RowIsKept ==
  ASSUME ChatInv, RowInv, Grows(sent, sent', nudged, nudged', skipped, skipped'),
         UNCHANGED <<job, nudge>>
  PROVE  RowInv'
<1>1. Known(sent) \subseteq Known(sent') /\ Known(sent) \subseteq Msgs
  BY DEF Grows, Known
<1>2. job.status = "done" \/ nudge # 0 => job.id \in Msgs
  BY <1>1 DEF RowInv
<1> QED BY <1>1, <1>2, ShownIsKept DEF RowInv

\* The faults stay within their bound.
LEMMA FaultsAreBounded ==
  ASSUME HistoryInv, Fault \/ NoFault PROVE faults' \in 0 .. MaxFaults
BY FollowupAssumption, SMT DEF FollowupAssumption, HistoryInv, Fault, NoFault

\* Recording and scheduling keep the invariant.
LEMMA RecorderKeeps ==
  ASSUME FollowupInv, RecordInbound \/ RecordAgain \/ ScheduleFollowup
  PROVE  FollowupInv'
<1> USE FollowupAssumption DEF FollowupAssumption
<1>1. CASE RecordInbound
  <2>1. PICK m \in Msgs \ Recorded, t \in SendTimes :
          sent' = [sent EXCEPT ![m] = t] /\ calling' = calling \union {m}
    BY <1>1 DEF RecordInbound
  <2>2. t \in 1 .. Horizon /\ t + Window <= Horizon
    BY JobsAssumption, SMT DEF FollowupInv, ChatInv, SendTimes, Latest, JobsAssumption
  <2>3. UNCHANGED <<now, job, nudge, work, nudged, skipped, unheard, lost, repeated, faults>>
    BY <1>1 DEF RecordInbound
  <2>4. /\ sent' \in [Msgs -> 0 .. Horizon]
        /\ \A n \in Msgs : sent'[n] = IF n = m THEN t ELSE sent[n]
    BY <2>1, <2>2, SMT DEF FollowupInv, ChatInv
  <2>5. ChatInv'
    BY <2>1, <2>2, <2>3, <2>4, SMT DEF FollowupInv, ChatInv, Known
  <2>6. Grows(sent, sent', nudged, nudged', skipped, skipped')
    BY <2>1, <2>3, <2>4 DEF Grows, Known, Recorded
  <2>7. RowInv'
    BY <2>3, <2>6, RowIsKept DEF FollowupInv
  <2>8. WorkInv'
    BY <2>3, <2>6, WorkersAreKept DEF FollowupInv
  <2>9. HistoryInv'
    BY <2>3 DEF FollowupInv, HistoryInv
  <2> QED BY <2>5, <2>7, <2>8, <2>9 DEF FollowupInv
<1>2. CASE RecordAgain
  <2>1. PICK m \in Recorded : calling' = calling \union {m} /\ repeated' = repeated \union {m}
    BY <1>2 DEF RecordAgain
  <2>2. /\ UNCHANGED <<now, sent, job, nudge, work, nudged, skipped, unheard, lost>>
        /\ Fault
    BY <1>2 DEF RecordAgain
  <2>3. ChatInv'
    BY <2>1, <2>2 DEF FollowupInv, ChatInv, Known, Recorded
  <2>4. Grows(sent, sent', nudged, nudged', skipped, skipped')
    BY <2>2 DEF Grows
  <2>5. RowInv' /\ WorkInv'
    BY <2>2, <2>4, RowIsKept, WorkersAreKept DEF FollowupInv
  <2>6. HistoryInv'
    BY <2>1, <2>2, SMT DEF FollowupInv, HistoryInv, Fault, Recorded
  <2> QED BY <2>3, <2>5, <2>6 DEF FollowupInv
<1>3. CASE ScheduleFollowup
  <2>1. PICK m \in calling :
          /\ calling' = calling \ {m}
          /\ \/ job' = Scheduled(job, sent[m], m) /\ nudge' = NudgeAfter(sent[m])
                /\ NoFault /\ UNCHANGED lost
             \/ Fault /\ lost' = lost \union {m} /\ UNCHANGED <<job, nudge>>
    BY <1>3 DEF ScheduleFollowup
  <2>2. UNCHANGED <<now, sent, work, nudged, skipped, unheard, repeated>>
    BY <1>3 DEF ScheduleFollowup
  <2>3. m \in Known(sent) /\ m \in Msgs
    BY DEF FollowupInv, ChatInv, Known
  <2>4. ChatInv'
    BY <2>1, <2>2 DEF FollowupInv, ChatInv, Known
  <2>5. Grows(sent, sent', nudged, nudged', skipped, skipped')
    BY <2>2 DEF Grows
  <2>6. RowInv'
    BY <2>1, <2>2, <2>3, <2>5, ScheduleKeepsRow, RowIsKept DEF FollowupInv
  <2>7. WorkInv'
    BY <2>2, <2>5, WorkersAreKept DEF FollowupInv
  <2>8. HistoryInv'
    <3>1. lost' \subseteq Msgs /\ (Fault \/ NoFault)
      BY <2>1, <2>2, <2>3 DEF FollowupInv, HistoryInv
    <3> QED BY <2>2, <3>1, FaultsAreBounded DEF FollowupInv, HistoryInv
  <2> QED BY <2>4, <2>6, <2>7, <2>8 DEF FollowupInv
<1> QED BY <1>1, <1>2, <1>3

\* The clock keeps the invariant.
LEMMA ClockKeeps == ASSUME FollowupInv, Tick PROVE FollowupInv'
<1>1. /\ now' = NoLater(now + 1) /\ job' = Aged(job)
      /\ UNCHANGED <<sent, calling, nudge, work, nudged, skipped, unheard, lost, repeated, faults>>
  BY DEF Tick
<1>2. Grows(sent, sent', nudged, nudged', skipped, skipped')
  BY <1>1 DEF Grows
<1>3. ChatInv'
  BY <1>1, JobsAssumption, SMT DEF FollowupInv, ChatInv, Known, NoLater, JobsAssumption
<1>4. RowInv'
  BY <1>1, AgedSays DEF FollowupInv, RowInv, SameAnchor
<1>5. WorkInv'
  BY <1>1, <1>2, WorkersAreKept DEF FollowupInv
<1>6. HistoryInv'
  BY <1>1 DEF FollowupInv, HistoryInv
<1> QED BY <1>3, <1>4, <1>5, <1>6 DEF FollowupInv

------------------------------------------------------------------------------
(* The worker.                                                               *)

\* What only moves the worker on, and what a lemma needs to know of it.
LEMMA MovesOn ==
  ASSUME FollowupInv, NEW w \in Workers, NEW pc \in Pcs, Goto(w, pc),
         Grows(sent, sent', nudged, nudged', skipped, skipped'), work[w].pc # "idle",
         pc \in {"read", "newer", "release", "failing"}
           \/ (pc = "complete" /\ Shown(work[w].id, nudged', skipped'))
           \/ (pc = "asking" /\ ~HasNewer(work[w].id))
  PROVE  WorkInv'
<1> DEFINE l == work[w]
           r == [l EXCEPT !.pc = pc]
<1>1. l \in WorkRows /\ GoodWork(l, sent', nudged', skipped')
  BY WorkIsKept DEF FollowupInv, WorkInv
<1>2. work' = [work EXCEPT ![w] = r]
  BY DEF Goto
<1>3. r \in WorkRows
  BY <1>1, Zenon DEF WorkRows
<1>4. r.pc = pc /\ r.id = l.id /\ r.heard = l.heard
  BY <1>1, SMT DEF WorkRows
<1>5. ASSUME pc = "asking", NEW m \in l.heard PROVE sent'[m] <= sent'[l.id]
  <2>1. m \in Known(sent) /\ l.id \in Known(sent)
    BY DEF FollowupInv, WorkInv, GoodWork
  <2>2. ~(sent[m] > sent[l.id])
    BY <1>5, <2>1 DEF HasNewer, Recorded, Known
  <2>3. sent[m] \in Nat /\ sent[l.id] \in Nat
    BY <2>1 DEF FollowupInv, ChatInv, Known
  <2> QED BY <2>1, <2>2, <2>3, SMT DEF Grows
<1> HIDE DEF r, l
<1>6. l.id \in Known(sent') /\ l.heard \subseteq Known(sent')
  BY <1>1 DEF GoodWork, l
<1>7. GoodWork(r, sent', nudged', skipped')
  BY <1>3, <1>4, <1>5, <1>6 DEF GoodWork, l
<1> QED BY <1>2, <1>3, <1>7, WorkersAreKept DEF FollowupInv

\* A worker that is idle knows nothing.
LEMMA IdleIsGood ==
  ASSUME FollowupInv, NEW w \in Workers, Done(w),
         Grows(sent, sent', nudged, nudged', skipped, skipped')
  PROVE  WorkInv'
<1>1. Idle \in WorkRows /\ Idle.pc = "idle"
  BY JobsAssumption, SMT DEF JobsAssumption, Idle, WorkRows, Pcs
<1>2. GoodWork(Idle, sent', nudged', skipped')
  BY <1>1 DEF GoodWork
<1> QED BY <1>1, <1>2, WorkersAreKept DEF FollowupInv, Done

\* Claiming keeps the invariant: the worker sees the nudge of the row.
LEMMA ClaimKeeps == ASSUME FollowupInv, NEW w \in Workers, Claim(w) PROVE FollowupInv'
<1> DEFINE r == [Idle EXCEPT !.pc = "claimed", !.id = job.id, !.due = job.due,
                             !.nudge = nudge, !.heard = Recorded]
<1>1. /\ Claimable(job, now) /\ job' = Claimed(job, w) /\ work' = [work EXCEPT ![w] = r]
      /\ (Fault \/ NoFault)
      /\ UNCHANGED <<now, sent, calling, nudge, nudged, skipped, unheard, lost, repeated>>
  BY DEF Claim
<1>2. Grows(sent, sent', nudged, nudged', skipped, skipped')
  BY <1>1 DEF Grows
<1>3. job.status # "none" /\ job.id \in Known(sent) /\ job \in JobRows(Workers, Msgs)
  BY <1>1 DEF Claimable, FollowupInv, RowInv, GoodRow
<1>4. ChatInv'
  BY <1>1 DEF FollowupInv, ChatInv, Known
<1>5. RowInv'
  <2>1. GoodRow(job', Workers, Msgs)
    BY <1>1, ClaimedSays, FollowupAssumption DEF GoodRow, FollowupAssumption, FollowupInv, RowInv
  <2>2. job'.status = "running" /\ job'.id = job.id
    BY <1>1, <1>3, SMT DEF JobRows, Claimed
  <2> QED BY <1>1, <1>3, <2>1, <2>2 DEF FollowupInv, RowInv
<1>6. r \in WorkRows
  <2>1. Idle \in WorkRows
    BY JobsAssumption, SMT DEF JobsAssumption, Idle, WorkRows, Pcs
  <2>2. job.due \in 0 .. Horizon /\ nudge \in 0 .. Horizon /\ job.id \in Msgs
        /\ "claimed" \in Pcs /\ Recorded \in SUBSET Msgs
    BY <1>3, RowFields DEF FollowupInv, RowInv, Known, Recorded, Pcs
  <2> QED BY <2>1, <2>2, Zenon DEF WorkRows
<1>7. r.pc = "claimed" /\ r.id = job.id /\ r.nudge = nudge /\ r.heard = Recorded
  BY SMT DEF Idle
<1> HIDE DEF r
<1>8. GoodWork(r, sent, nudged, skipped)
  BY <1>3, <1>6, <1>7 DEF GoodWork, FollowupInv, RowInv, Recorded, Known
<1>9. WorkInv'
  BY <1>1, <1>2, <1>6, <1>8, WorkersAreKept DEF FollowupInv
<1>10. HistoryInv'
  BY <1>1, FaultsAreBounded DEF FollowupInv, HistoryInv
<1> QED BY <1>4, <1>5, <1>9, <1>10 DEF FollowupInv

\* Beginning keeps the invariant: a nudge the worker saw was for its message.
LEMMA BeginKeeps == ASSUME FollowupInv, NEW w \in Workers, Begin(w) PROVE FollowupInv'
<1> DEFINE l == work[w]
           Then(pc, at) == [l EXCEPT !.pc = pc, !.at = at]
<1>1. /\ l.pc = "claimed"
      /\ UNCHANGED <<now, sent, calling, job, nudge, nudged, unheard, lost, repeated, faults>>
  BY DEF Begin
<1>2. l \in WorkRows /\ GoodWork(l, sent, nudged, skipped)
  BY DEF FollowupInv, WorkInv
<1>3. l.id \in Msgs
  BY <1>1, <1>2 DEF GoodWork, Known
<1>4. \/ /\ AlreadyNudged(l) /\ skipped' = skipped
         /\ work' = [work EXCEPT ![w] = Then("complete", l.nudge)]
      \/ Goto(w, "release") /\ skipped' = skipped
      \/ work' = [work EXCEPT ![w] = Then("read", now)] /\ skipped' = skipped
      \/ /\ work' = [work EXCEPT ![w] = Then("complete", now)]
         /\ skipped' = skipped \union {l.id}
  BY DEF Begin
<1>5. Grows(sent, sent', nudged, nudged', skipped, skipped')
  BY <1>1, <1>4 DEF Grows
<1>6. ChatInv' /\ RowInv'
  BY <1>1, <1>5, RowIsKept DEF FollowupInv, ChatInv, Known
<1>7. HistoryInv'
  BY <1>1, <1>3, <1>4 DEF FollowupInv, HistoryInv
<1>8. ASSUME NEW pc \in {"complete", "read"}, NEW at \in 0 .. Horizon,
             pc = "complete" => Shown(l.id, nudged', skipped')
      PROVE  Then(pc, at) \in WorkRows /\ GoodWork(Then(pc, at), sent', nudged', skipped')
  <2> DEFINE r == Then(pc, at)
  <2>1. pc \in Pcs
    BY DEF Pcs
  <2>2. r \in WorkRows
    BY <1>2, <2>1, Zenon DEF WorkRows
  <2>3. r.pc = pc /\ r.id = l.id /\ r.heard = l.heard
    BY <1>2, SMT DEF WorkRows
  <2> HIDE DEF Then, l
  <2> QED BY <1>1, <1>2, <1>8, <2>2, <2>3 DEF GoodWork
<1>9. now \in 0 .. Horizon /\ l.nudge \in 0 .. Horizon
  BY <1>2, SMT DEF FollowupInv, ChatInv, WorkRows
<1>10. AlreadyNudged(l) => Shown(l.id, nudged, skipped)
  BY <1>1, <1>2 DEF GoodWork, AlreadyNudged
<1>11. "release" \in Pcs /\ l.pc # "idle"
  BY <1>1 DEF Pcs
<1> HIDE DEF Then
<1>12. WorkInv'
  <2>1. CASE AlreadyNudged(l) /\ skipped' = skipped
             /\ work' = [work EXCEPT ![w] = Then("complete", l.nudge)]
    BY <1>1, <1>5, <1>8, <1>9, <1>10, <2>1, WorkersAreKept DEF FollowupInv
  <2>2. CASE Goto(w, "release") /\ skipped' = skipped
    BY <1>5, <1>11, <2>2, MovesOn
  <2>3. CASE work' = [work EXCEPT ![w] = Then("read", now)] /\ skipped' = skipped
    BY <1>5, <1>8, <1>9, <2>3, WorkersAreKept DEF FollowupInv
  <2>4. CASE /\ work' = [work EXCEPT ![w] = Then("complete", now)]
             /\ skipped' = skipped \union {l.id}
    <3>1. Shown(l.id, nudged', skipped')
      BY <2>4 DEF Shown
    <3> QED BY <1>5, <1>8, <1>9, <2>4, <3>1, WorkersAreKept DEF FollowupInv
  <2> QED BY <1>4, <2>1, <2>2, <2>3, <2>4
<1> QED BY <1>6, <1>7, <1>12 DEF FollowupInv

\* Reading keeps the invariant: only a worker that found nothing newer asks.
LEMMA ReadKeeps == ASSUME FollowupInv, NEW w \in Workers, ReadChat(w) PROVE FollowupInv'
<1> DEFINE l == work[w]
           newer(m) == [l EXCEPT !.pc = "newer", !.id = m]
           deaf == [l EXCEPT !.pc = "asking", !.heard = {}]
<1>1. /\ l.pc = "read"
      /\ UNCHANGED <<now, sent, calling, job, nudge, nudged, skipped, unheard, lost, repeated>>
      /\ Fault \/ NoFault
  BY DEF ReadChat
<1>2. \/ \E m \in Recorded : work' = [work EXCEPT ![w] = newer(m)]
      \/ ~HasNewer(l.id) /\ (Goto(w, "asking") \/ Goto(w, "failing"))
      \/ work' = [work EXCEPT ![w] = deaf]
  BY DEF ReadChat
<1>3. l \in WorkRows /\ GoodWork(l, sent, nudged, skipped)
  BY DEF FollowupInv, WorkInv
<1>4. Grows(sent, sent', nudged, nudged', skipped, skipped')
  BY <1>1 DEF Grows
<1>5. ChatInv' /\ RowInv'
  BY <1>1, <1>4, RowIsKept DEF FollowupInv, ChatInv, Known
<1>6. HistoryInv'
  BY <1>1, FaultsAreBounded DEF FollowupInv, HistoryInv
<1>7. "asking" \in Pcs /\ "failing" \in Pcs /\ "newer" \in Pcs /\ l.pc # "idle"
  BY <1>1 DEF Pcs
<1>8. ASSUME NEW m \in Recorded, work' = [work EXCEPT ![w] = newer(m)] PROVE WorkInv'
  <2>1. m \in Msgs /\ m \in Known(sent)
    BY DEF Recorded, Known
  <2>2. newer(m) \in WorkRows
    BY <1>3, <1>7, <2>1, Zenon DEF WorkRows
  <2>3. newer(m).pc = "newer" /\ newer(m).id = m /\ newer(m).heard = l.heard
    BY <1>3, SMT DEF WorkRows
  <2> HIDE DEF newer, l
  <2>4. GoodWork(newer(m), sent, nudged, skipped)
    BY <1>1, <1>3, <2>1, <2>2, <2>3 DEF GoodWork
  <2> QED BY <1>1, <1>4, <1>8, <2>2, <2>4, WorkersAreKept DEF FollowupInv
<1>9. ASSUME work' = [work EXCEPT ![w] = deaf] PROVE WorkInv'
  <2>1. deaf \in WorkRows
    BY <1>3, <1>7, Zenon DEF WorkRows
  <2>2. deaf.pc = "asking" /\ deaf.id = l.id /\ deaf.heard = {}
    BY <1>3, SMT DEF WorkRows
  <2> HIDE DEF deaf, l
  <2>3. GoodWork(deaf, sent, nudged, skipped)
    BY <1>1, <1>3, <2>1, <2>2 DEF GoodWork
  <2> QED BY <1>1, <1>4, <1>9, <2>1, <2>3, WorkersAreKept DEF FollowupInv
<1>10. ASSUME ~HasNewer(l.id), Goto(w, "asking") \/ Goto(w, "failing") PROVE WorkInv'
  BY <1>4, <1>7, <1>10, MovesOn
<1>11. WorkInv'
  BY <1>2, <1>8, <1>9, <1>10
<1> QED BY <1>5, <1>6, <1>11 DEF FollowupInv

\* Putting the job off to a newer message keeps the invariant.
LEMMA PutOffKeeps == ASSUME FollowupInv, NEW w \in Workers, PutOff(w) PROVE FollowupInv'
<1> DEFINE m == work[w].id
<1>1. /\ work[w].pc = "newer" /\ (Fault \/ NoFault) /\ Goto(w, "release")
      /\ \/ job' = Scheduled(job, sent[m], m) /\ nudge' = NudgeAfter(sent[m])
         \/ UNCHANGED <<job, nudge>>
      /\ UNCHANGED <<now, sent, calling, nudged, skipped, unheard, lost, repeated>>
  BY DEF PutOff
<1>2. m \in Known(sent)
  BY <1>1 DEF FollowupInv, WorkInv, GoodWork
<1>3. Grows(sent, sent', nudged, nudged', skipped, skipped')
  BY <1>1 DEF Grows
<1> HIDE DEF m
<1>4. RowInv'
  BY <1>1, <1>2, <1>3, RowIsKept, ScheduleKeepsRow DEF FollowupInv
<1>5. ChatInv'
  BY <1>1 DEF FollowupInv, ChatInv, Known
<1>6. HistoryInv'
  BY <1>1, FaultsAreBounded DEF FollowupInv, HistoryInv
<1>7. "release" \in Pcs /\ work[w].pc # "idle"
  BY <1>1 DEF Pcs
<1>8. WorkInv'
  BY <1>1, <1>3, <1>7, MovesOn
<1> QED BY <1>4, <1>5, <1>6, <1>8 DEF FollowupInv

\* Sending keeps the invariant: the nudge is for the worker's message, and it
\* had heard of nothing newer.
LEMMA SendKeeps == ASSUME FollowupInv, NEW w \in Workers, SendNudge(w) PROVE FollowupInv'
<1> DEFINE l == work[w]
<1>1. /\ l.pc = "asking" /\ (Fault \/ NoFault)
      /\ \/ /\ nudged' = [nudged EXCEPT ![l.id] = @ + 1]
            /\ unheard' = unheard \union {m \in l.heard : sent[m] > sent[l.id]}
            /\ Goto(w, "complete") \/ Goto(w, "failing")
         \/ Goto(w, "failing") /\ UNCHANGED <<nudged, unheard>>
      /\ UNCHANGED <<now, sent, calling, job, nudge, skipped, lost, repeated>>
  BY DEF SendNudge
<1>2. GoodWork(l, sent, nudged, skipped) /\ l.id \in Msgs
  BY <1>1 DEF FollowupInv, WorkInv, GoodWork, Known
<1>3. \A m \in l.heard : ~(sent[m] > sent[l.id])
  <2> SUFFICES ASSUME NEW m \in l.heard PROVE ~(sent[m] > sent[l.id])
    OBVIOUS
  <2>1. sent[m] <= sent[l.id] /\ m \in Msgs
    BY <1>1, <1>2 DEF GoodWork, Known
  <2>2. sent[m] \in Nat /\ sent[l.id] \in Nat
    BY <1>2, <2>1 DEF FollowupInv, ChatInv
  <2> QED BY <2>1, <2>2, SMT
<1>4. unheard' = {}
  BY <1>1, <1>3 DEF FollowupInv, HistoryInv
<1>5. /\ nudged' \in [Msgs -> Nat]
      /\ \A id \in Msgs : nudged[id] > 0 => nudged'[id] > 0
  BY <1>1, <1>2, SMT DEF FollowupInv, HistoryInv
<1>6. Grows(sent, sent', nudged, nudged', skipped, skipped')
  BY <1>1, <1>5 DEF Grows
<1>7. ChatInv' /\ RowInv'
  BY <1>1, <1>6, RowIsKept DEF FollowupInv, ChatInv, Known
<1>8. HistoryInv'
  BY <1>1, <1>4, <1>5, FaultsAreBounded DEF FollowupInv, HistoryInv
<1>9. "complete" \in Pcs /\ "failing" \in Pcs /\ l.pc # "idle"
  BY <1>1 DEF Pcs
<1>10. ASSUME Goto(w, "failing") PROVE WorkInv'
  BY <1>6, <1>9, <1>10, MovesOn
<1>11. ASSUME nudged' = [nudged EXCEPT ![l.id] = @ + 1], Goto(w, "complete") PROVE WorkInv'
  <2>1. nudged'[l.id] > 0
    BY <1>2, <1>11, SMT DEF FollowupInv, HistoryInv
  <2>2. Shown(l.id, nudged', skipped')
    BY <2>1 DEF Shown
  <2> QED BY <1>6, <1>9, <1>11, <2>2, MovesOn
<1>12. WorkInv'
  BY <1>1, <1>10, <1>11
<1> QED BY <1>7, <1>8, <1>12 DEF FollowupInv

\* Giving the row back keeps the invariant, however the call ends.
LEMMA EndKeeps ==
  ASSUME FollowupInv, NEW w \in Workers, Release(w) \/ Complete(w) \/ Fail(w) \/ Crash(w)
  PROVE  FollowupInv'
<1> DEFINE l == work[w]
<1>0. Nobody \notin Workers
  BY FollowupAssumption DEF FollowupAssumption
<1>1. /\ Done(w) /\ (Fault \/ NoFault)
      /\ UNCHANGED <<now, sent, calling, nudged, skipped, unheard, lost, repeated>>
  BY DEF Release, Complete, Fail, Crash
<1>2. Grows(sent, sent', nudged, nudged', skipped, skipped')
  BY <1>1 DEF Grows
<1>3. GoodRow(job, Workers, Msgs) /\ job \in JobRows(Workers, Msgs)
  BY DEF FollowupInv, RowInv, GoodRow
<1>4. ChatInv' /\ WorkInv' /\ HistoryInv'
  BY <1>1, <1>2, IdleIsGood, FaultsAreBounded DEF FollowupInv, ChatInv, Known, HistoryInv
<1>5. ASSUME GoodRow(job', Workers, Msgs), job'.id = job.id, nudge' = nudge,
             job'.status = "done" => job.status = "done",
             job'.status = "none" <=> job.status = "none"
      PROVE  RowInv'
  <2>1. job'.status # "none" => job'.id \in Known(sent')
    BY <1>1, <1>5 DEF FollowupInv, RowInv
  <2>2. nudge' \in 0 .. Horizon /\ (nudge' # 0 => job'.status # "none")
    BY <1>5 DEF FollowupInv, RowInv
  <2>3. job'.status = "done" \/ nudge' # 0 => Shown(job'.id, nudged', skipped')
    BY <1>1, <1>5 DEF FollowupInv, RowInv
  <2> QED BY <1>5, <2>1, <2>2, <2>3 DEF RowInv
<1>6. ASSUME job' = Released(job, w), nudge' = nudge PROVE RowInv'
  BY <1>3, <1>5, <1>6, <1>0, GivenBack DEF GivenBackBy, SameAnchor
<1>7. CASE Release(w)
  <2>1. RowInv'
    BY <1>1, <1>2, <1>6, <1>7, RowIsKept DEF Release, FollowupInv
  <2> QED BY <1>4, <2>1 DEF FollowupInv
<1>8. CASE Complete(w)
  <2>1. ASSUME job' = Completed(job, w, l.id),
               nudge' = IF job.by = w /\ job.id = l.id THEN l.at ELSE nudge
        PROVE  RowInv'
    <3>1. /\ GoodRow(job', Workers, Msgs) /\ job'.id = job.id
          /\ job'.status = "done" => job.status = "done" \/ (job.by = w /\ job.id = l.id)
          /\ job'.status = "none" <=> job.status = "none"
      BY <1>3, <2>1, <1>0, GivenBack DEF GivenBackBy, SameAnchor
    <3>2. l \in WorkRows /\ l.pc = "complete" /\ Shown(l.id, nudged, skipped)
      BY <1>8 DEF Complete, FollowupInv, WorkInv, GoodWork
    <3>3. l.at \in 0 .. Horizon /\ (job.by = w => job.status # "none")
      BY <1>0, <1>3, <3>2 DEF WorkRows, GoodRow, ClaimIsKnown
    <3> HIDE DEF l
    <3>4. CASE job.by = w /\ job.id = l.id
      BY <1>1, <2>1, <3>1, <3>2, <3>3, <3>4 DEF FollowupInv, RowInv
    <3>5. CASE ~(job.by = w /\ job.id = l.id)
      BY <1>1, <2>1, <3>1, <3>5 DEF FollowupInv, RowInv
    <3> QED BY <3>4, <3>5
  <2>2. RowInv'
    BY <1>6, <1>8, <2>1 DEF Complete
  <2> QED BY <1>4, <2>2 DEF FollowupInv
<1>9. CASE Fail(w)
  <2>1. now \in Nat
    BY SMT DEF FollowupInv, ChatInv
  <2>2. ASSUME job' = Failed(job, w, l.id, now), nudge' = nudge PROVE RowInv'
    BY <1>3, <1>5, <2>1, <2>2, <1>0, GivenUp DEF GivenBackBy, SameAnchor
  <2>3. RowInv'
    BY <1>6, <1>9, <2>2 DEF Fail
  <2> QED BY <1>4, <2>3 DEF FollowupInv
<1>10. CASE Crash(w)
  <2>1. RowInv'
    BY <1>1, <1>2, <1>10, RowIsKept DEF Crash, FollowupInv
  <2> QED BY <1>4, <2>1 DEF FollowupInv
<1> QED BY <1>7, <1>8, <1>9, <1>10

------------------------------------------------------------------------------
(* Theorems. *)

\* The invariant holds in every reachable state.
LEMMA FollowupIsCorrect == Spec => []FollowupInv
<1>1. Init => FollowupInv
  BY StartsWell
<1>2. FollowupInv /\ [Next]_vars => FollowupInv'
  <2> SUFFICES ASSUME FollowupInv, [Next]_vars PROVE FollowupInv'
    OBVIOUS
  <2>1. CASE RecordInbound \/ RecordAgain \/ ScheduleFollowup
    BY <2>1, RecorderKeeps
  <2>2. CASE Tick
    BY <2>2, ClockKeeps
  <2>3. ASSUME NEW w \in Workers, Claim(w) \/ Step(w) \/ Crash(w) PROVE FollowupInv'
    BY <2>3, ClaimKeeps, BeginKeeps, ReadKeeps, PutOffKeeps, SendKeeps, EndKeeps DEF Step
  <2>4. CASE UNCHANGED vars
    BY <2>4 DEF vars, FollowupInv, ChatInv, RowInv, WorkInv, HistoryInv
  <2> QED BY <2>1, <2>2, <2>3, <2>4 DEF Next
<1> QED BY <1>1, <1>2, PTL DEF Spec

\* Type correctness of the nudges, for any messages, workers and faults.
THEOREM FollowupIsTyped == Spec => []TypeOK
<1>1. FollowupInv => TypeOK
  BY InvariantSays
<1> QED BY <1>1, FollowupIsCorrect, PTL

\* Completing a job, stale claims and lost calls included, never ends a
\* silence that was neither nudged nor skipped: complete
\* (group_chat_followup_v1.sql) ends the job only for the anchor the worker
\* nudged, and every newer message clears the nudge.
THEOREM DoneIsNudged == Spec => []DoneMeansNudged
<1>1. FollowupInv => DoneMeansNudged
  BY InvariantSays
<1> QED BY <1>1, FollowupIsCorrect, PTL

\* No nudge is sent over a user's newer message that was stored when the job
\* was claimed, whatever the recorder and other workers do in between, unless
\* the chat could not be read (followup/service.py).
THEOREM NudgesComeInSilence == Spec => []NudgedInSilence
<1>1. FollowupInv => NudgedInSilence
  BY InvariantSays
<1> QED BY <1>1, FollowupIsCorrect, PTL

------------------------------------------------------------------------------
(* One nudge for each silence.  Beyond the first, a nudge for m has to be    *)
(* paid with a fault; so is what may still lead to one: a job that is or may *)
(* become due for m (Open), a repeated event whose call is still to be made, *)
(* and each worker that goes on although its job was claimed by another.     *)

\* The recorded messages whose first schedule call is still to be made.
First == calling \ repeated

Again(m) == m \in calling \intersect repeated

\* Nothing but this call can make m the anchor of the job.
Fresh(m) ==
  \/ sent[m] = 0 \/ m \in First
  \/ job.status = "none" \/ job.at < sent[m]

\* The worker that has the job is about to store its nudge for m.
Ending(m) ==
  job.by \in Workers /\ work[job.by].pc = "complete" /\ work[job.by].id = m

\* The job stands at m, and whoever claims it will find no nudge for m.
Armed(m) ==
  /\ job.id = m
  /\ ~(nudge # 0 /\ nudge >= sent[m])
  /\ ~Ending(m)

\* A worker at l is on its way to nudge for m, or to put the job off to it.
Doing(l, m) ==
  \/ l.pc = "claimed" /\ l.id = m /\ ~AlreadyNudged(l)
  \/ l.pc \in {"read", "asking", "newer"} /\ l.id = m
  \/ l.pc \in {"claimed", "read"} /\ sent[l.id] < sent[m]

AtWork(m) == job.by \in Workers /\ Doing(work[job.by], m)

Open(m) == Fresh(m) \/ Armed(m) \/ AtWork(m)

BeforeSend == {"claimed", "read", "asking", "newer"}

\* Workers that may still send although they do not hold the job.
Overtaken == {w \in Workers : work[w].pc \in BeforeSend /\ job.by # w}

One(b) == IF b THEN 1 ELSE 0

Paid(m) ==
  nudged[m] + One(Open(m)) + One(Again(m))
    + Cardinality(Overtaken) + Cardinality(repeated \ {m}) <= 1 + faults

\* Nothing is sent in the future, and no message waits for its first call as
\* long as it takes a job to become due.
TimesInv ==
  /\ \A m \in Msgs : sent[m] <= now
  /\ \A m \in First : now < sent[m] + Window
  /\ repeated \subseteq Known(sent)

\* The row stands at a message as that was sent, and is not due for one whose
\* first call is still to be made.
AnchorInv ==
  /\ job.status # "none" => job.at = sent[job.id]
  /\ job.status = "none" => job.id = NoMsg
  /\ job.id \in First => job.due > now

\* A worker is not ahead of the row, and takes its time of the nudge after the
\* message was sent; the message's first call was made before.
Knows(l) ==
  /\ l.pc \in {"claimed", "read", "asking", "complete"}
       => job.status # "none" /\ sent[l.id] <= job.at
  /\ l.pc \in {"read", "asking", "complete"} => l.at # 0 /\ sent[l.id] <= l.at
  /\ l.id \in First => /\ l.pc \notin {"read", "asking"}
                       /\ l.pc = "claimed" => l.due > now

KnowsInv == \A w \in Workers : Knows(work[w])

CountInv == IsFiniteSet(Overtaken) /\ IsFiniteSet(repeated)

PaidInv == \A m \in Msgs : Paid(m)

NudgeInv == FollowupInv /\ TimesInv /\ AnchorInv /\ KnowsInv /\ CountInv /\ PaidInv

\* What is paid for was sent once but for the faults.
LEMMA PaidSays == NudgeInv => NudgedOncePerSilence
<1> SUFFICES ASSUME NudgeInv, NEW m \in Msgs
             PROVE  nudged[m] <= 1 + faults - Cardinality(repeated \ {m})
  BY DEF NudgedOncePerSilence
<1> DEFINE a == Cardinality(Overtaken)
           b == Cardinality(repeated \ {m})
           o == One(Open(m))
           g == One(Again(m))
<1>1. a \in Nat
  BY FS_CardinalityType DEF NudgeInv, CountInv
<1>2. b \in Nat
  BY FS_Subset, FS_CardinalityType DEF NudgeInv, CountInv
<1>3. o \in Nat /\ g \in Nat
  BY DEF One
<1>4. nudged[m] \in Nat /\ faults \in Nat
  BY FollowupAssumption, SMT DEF NudgeInv, FollowupInv, HistoryInv, FollowupAssumption
<1>5. nudged[m] + o + g + a + b <= 1 + faults
  BY DEF NudgeInv, PaidInv, Paid
<1> HIDE DEF a, b, o, g
<1>6. nudged[m] <= 1 + faults - b
  BY <1>1, <1>2, <1>3, <1>4, <1>5, SMT
<1> QED BY <1>6 DEF b
------------------------------------------------------------------------------
(* What the invariant of above says of types, and of a worker's next record. *)

LEMMA ChatTypes ==
  ASSUME FollowupInv
  PROVE  /\ now \in Nat \ {0} /\ nudge \in Nat /\ faults \in Nat
         /\ \A m \in Msgs : sent[m] \in Nat /\ nudged[m] \in Nat
         /\ Known(sent) \subseteq Msgs /\ calling \subseteq Known(sent)
         /\ NoMsg \notin Msgs /\ Nobody \notin Workers
         /\ Window \in Nat
<1>1. Window \in Nat /\ NoMsg \notin Msgs /\ Nobody \notin Workers
  BY FollowupAssumption, JobsAssumption DEF FollowupAssumption, JobsAssumption
<1>2. now \in Nat \ {0} /\ nudge \in Nat
  BY JobsAssumption, SMT DEF JobsAssumption, FollowupInv, ChatInv, RowInv
<1>3. faults \in Nat /\ \A m \in Msgs : nudged[m] \in Nat
  BY FollowupAssumption, SMT DEF FollowupAssumption, FollowupInv, HistoryInv
<1>4. \A m \in Msgs : sent[m] \in Nat
  BY JobsAssumption, SMT DEF JobsAssumption, FollowupInv, ChatInv
<1>5. Known(sent) \subseteq Msgs /\ calling \subseteq Known(sent)
  BY DEF FollowupInv, ChatInv, Known
<1> QED BY <1>1, <1>2, <1>3, <1>4, <1>5

LEMMA RowTypes ==
  ASSUME FollowupInv
  PROVE  /\ job \in JobRows(Workers, Msgs)
         /\ job.at \in Nat /\ job.due \in Nat /\ job.by \in Workers \union {Nobody}
         /\ job.status # "none" => job.id \in Known(sent)
         /\ job.status = "running" <=> job.by # Nobody
<1>1. job \in JobRows(Workers, Msgs) /\ ClaimIsKnown(job)
  BY DEF FollowupInv, RowInv, GoodRow
<1>2. job.at \in Nat /\ job.due \in Nat /\ job.by \in Workers \union {Nobody}
  BY <1>1, RowFields, JobsAssumption, SMT DEF JobsAssumption
<1> QED BY <1>1, <1>2 DEF FollowupInv, RowInv, ClaimIsKnown

LEMMA RecordTypes ==
  ASSUME FollowupInv, NEW w \in Workers
  PROVE  /\ work[w] \in WorkRows
         /\ work[w].at \in Nat /\ work[w].nudge \in Nat /\ work[w].due \in Nat
         /\ work[w].pc \in Pcs
         /\ work[w].pc # "idle" => work[w].id \in Known(sent)
<1>1. work[w] \in WorkRows /\ GoodWork(work[w], sent, nudged, skipped)
  BY DEF FollowupInv, WorkInv
<1>2. /\ work[w].at \in Nat /\ work[w].nudge \in Nat /\ work[w].due \in Nat
      /\ work[w].pc \in Pcs
  BY <1>1, JobsAssumption, SMT DEF JobsAssumption, WorkRows
<1> QED BY <1>1, <1>2 DEF GoodWork

\* No worker but w changes its record.
Others(w) == \A v \in Workers \ {w} : work'[v] = work[v]

\* The worker w goes on with what it has.
SameTask(w) ==
  /\ work'[w].id = work[w].id /\ work'[w].due = work[w].due
  /\ work'[w].nudge = work[w].nudge

LEMMA GotoIs ==
  ASSUME FollowupInv, NEW w \in Workers, NEW pc, Goto(w, pc)
  PROVE  /\ Others(w) /\ SameTask(w)
         /\ work'[w].pc = pc /\ work'[w].at = work[w].at
<1> DEFINE r == [work[w] EXCEPT !.pc = pc]
<1>1. work' = [work EXCEPT ![w] = r] /\ work \in [Workers -> WorkRows]
  BY DEF Goto, FollowupInv, WorkInv
<1>2. /\ r.pc = pc /\ r.id = work[w].id /\ r.due = work[w].due
      /\ r.nudge = work[w].nudge /\ r.at = work[w].at
  BY RecordTypes, SMT DEF WorkRows
<1> HIDE DEF r
<1> QED BY <1>1, <1>2 DEF Others, SameTask

\* Beginning: what the worker has read of the row decides.
LEMMA GoesOn ==
  ASSUME FollowupInv, NEW w \in Workers, NEW pc, NEW at,
         work' = [work EXCEPT ![w].pc = pc, ![w].at = at]
  PROVE  /\ Others(w) /\ SameTask(w)
         /\ work'[w].pc = pc /\ work'[w].at = at
<1> DEFINE r == [work[w] EXCEPT !.pc = pc, !.at = at]
<1>1. work' = [work EXCEPT ![w] = r] /\ work \in [Workers -> WorkRows]
  BY DEF FollowupInv, WorkInv
<1>2. /\ r.pc = pc /\ r.id = work[w].id /\ r.due = work[w].due
      /\ r.nudge = work[w].nudge /\ r.at = at
  BY RecordTypes, SMT DEF WorkRows
<1> HIDE DEF r
<1> QED BY <1>1, <1>2 DEF Others, SameTask

LEMMA DoneIs ==
  ASSUME FollowupInv, NEW w \in Workers, Done(w)
  PROVE  Others(w) /\ work'[w].pc = "idle" /\ work'[w].id = NoMsg
<1>1. Idle.pc = "idle" /\ Idle.id = NoMsg
  BY SMT DEF Idle
<1> QED BY <1>1 DEF Done, Others, FollowupInv, WorkInv

\* Each action, without what no lemma needs.
LEMMA BeginIs ==
  ASSUME FollowupInv, NEW w \in Workers, Begin(w)
  PROVE  /\ work[w].pc = "claimed" /\ Others(w) /\ SameTask(w)
         /\ \/ /\ AlreadyNudged(work[w])
               /\ work'[w].pc = "complete" /\ work'[w].at = work[w].nudge
            \/ work'[w].pc = "release"
            \/ /\ ~AlreadyNudged(work[w]) /\ ~(work[w].due > now)
               /\ work'[w].pc \in {"read", "complete"} /\ work'[w].at = now
<1>1. work[w].pc = "claimed"
  BY DEF Begin
<1>2. \/ /\ AlreadyNudged(work[w])
         /\ work' = [work EXCEPT ![w].pc = "complete", ![w].at = work[w].nudge]
      \/ Goto(w, "release")
      \/ /\ ~AlreadyNudged(work[w]) /\ ~(work[w].due > now)
         /\ \/ work' = [work EXCEPT ![w].pc = "read", ![w].at = now]
            \/ work' = [work EXCEPT ![w].pc = "complete", ![w].at = now]
  BY DEF Begin
<1> QED BY <1>1, <1>2, GoesOn, GotoIs

LEMMA ReadIs ==
  ASSUME FollowupInv, NEW w \in Workers, ReadChat(w)
  PROVE  /\ work[w].pc = "read" /\ Others(w)
         /\ \/ /\ HasNewer(work[w].id) /\ Newest(work'[w].id)
               /\ work'[w].pc = "newer"
            \/ /\ work'[w].pc \in {"asking", "failing"} /\ SameTask(w)
               /\ work'[w].at = work[w].at
<1>1. work[w].pc = "read" /\ work[w] \in WorkRows
  BY RecordTypes DEF ReadChat
<1>2. CASE HasNewer(work[w].id) /\ \E m \in Recorded :
             Newest(m) /\ work' = [work EXCEPT ![w].pc = "newer", ![w].id = m]
  <2>1. PICK m \in Recorded :
          Newest(m) /\ work' = [work EXCEPT ![w].pc = "newer", ![w].id = m]
    BY <1>2
  <2> DEFINE r == [work[w] EXCEPT !.pc = "newer", !.id = m]
  <2>2. work' = [work EXCEPT ![w] = r] /\ work \in [Workers -> WorkRows]
    BY <2>1 DEF FollowupInv, WorkInv
  <2>3. r.pc = "newer" /\ r.id = m
    BY <1>1, SMT DEF WorkRows
  <2> HIDE DEF r
  <2> QED BY <1>1, <1>2, <2>1, <2>2, <2>3 DEF Others
<1>3. CASE Goto(w, "asking") \/ Goto(w, "failing")
  BY <1>1, <1>3, GotoIs
<1>4. CASE work' = [work EXCEPT ![w].pc = "asking", ![w].heard = {}]
  <2> DEFINE r == [work[w] EXCEPT !.pc = "asking", !.heard = {}]
  <2>1. work' = [work EXCEPT ![w] = r] /\ work \in [Workers -> WorkRows]
    BY <1>4 DEF FollowupInv, WorkInv
  <2>2. /\ r.pc = "asking" /\ r.id = work[w].id /\ r.due = work[w].due
        /\ r.nudge = work[w].nudge /\ r.at = work[w].at
    BY <1>1, SMT DEF WorkRows
  <2> HIDE DEF r
  <2> QED BY <1>1, <2>1, <2>2 DEF Others, SameTask
<1> QED BY <1>2, <1>3, <1>4 DEF ReadChat
------------------------------------------------------------------------------
(* The ledger: the ways in which what is open, who is overtaken and what was *)
(* sent may change together.                                                 *)

LEMMA SumTypes ==
  ASSUME CountInv, NEW m \in Msgs
  PROVE  /\ Cardinality(Overtaken) \in Nat /\ Cardinality(repeated \ {m}) \in Nat
         /\ One(Open(m)) \in {0, 1} /\ One(Again(m)) \in {0, 1}
         /\ One(Open(m)') \in {0, 1} /\ One(Again(m)') \in {0, 1}
         /\ Open(m) => One(Open(m)) = 1
         /\ ~Open(m)' => One(Open(m)') = 0
         /\ (Open(m)' => Open(m)) => One(Open(m)') <= One(Open(m))
         /\ (Again(m)' => Again(m)) => One(Again(m)') <= One(Again(m))
<1>1. Cardinality(Overtaken) \in Nat /\ Cardinality(repeated \ {m}) \in Nat
  BY FS_CardinalityType, FS_Subset DEF CountInv
<1> QED BY <1>1, SMT DEF One

\* What is counted does not come without a fault.
LEMMA PaidFrom ==
  ASSUME FollowupInv, FollowupInv', CountInv, NEW m \in Msgs, Paid(m),
         repeated' = repeated, Again(m)' => Again(m), faults' >= faults,
         NEW d \in Nat, NEW e \in Int, NEW f \in Nat,
         nudged'[m] = nudged[m] + d,
         Cardinality(Overtaken') \in Nat,
         Cardinality(Overtaken') <= Cardinality(Overtaken) + e,
         One(Open(m)') + d + e <= One(Open(m)) + f,
         faults' = faults + f
  PROVE  Paid(m)'
<1> DEFINE a == Cardinality(Overtaken)
           a2 == Cardinality(Overtaken')
           b == Cardinality(repeated \ {m})
           o == One(Open(m))
           o2 == One(Open(m)')
           g == One(Again(m))
           g2 == One(Again(m)')
<1>1. /\ a \in Nat /\ a2 \in Nat /\ b \in Nat
      /\ o \in Nat /\ o2 \in Nat /\ g \in Nat /\ g2 \in Nat /\ g2 <= g
  BY SumTypes
<1>2. nudged[m] \in Nat /\ faults \in Nat
  BY ChatTypes
<1>3. nudged[m] + o + g + a + b <= 1 + faults
  BY DEF Paid
<1>4. a2 <= a + e /\ o2 + d + e <= o + f
  OBVIOUS
<1> HIDE DEF a, a2, b, o, o2, g, g2
<1>5. nudged'[m] + o2 + g2 + a2 + b <= 1 + faults'
  BY <1>1, <1>2, <1>3, <1>4, SMT
<1>6. nudged'[m] + One(Open(m)') + One(Again(m)') + Cardinality(Overtaken')
        + Cardinality(repeated' \ {m}) <= 1 + faults'
  BY <1>5 DEF a2, b, o2, g2
<1> QED BY <1>6 DEF Paid

\* Nothing new is open, and a nudge that is sent is a fault's.
LEMMA PaidQuietly ==
  ASSUME FollowupInv, FollowupInv', CountInv, NEW m \in Msgs, Paid(m),
         repeated' = repeated, Again(m)' => Again(m), Fault \/ NoFault,
         Overtaken' \subseteq Overtaken,
         \/ (Open(m)' => Open(m)) /\ nudged'[m] = nudged[m]
         \/ Fault /\ nudged'[m] = nudged[m]
         \/ Fault /\ (Open(m)' => Open(m)) /\ nudged'[m] = nudged[m] + 1
         \/ Open(m) /\ ~Open(m)' /\ nudged'[m] = nudged[m] + 1
  PROVE  Paid(m)'
<1>1. IsFiniteSet(Overtaken') /\ Cardinality(Overtaken') <= Cardinality(Overtaken)
  BY FS_Subset DEF CountInv
<1>2. /\ Cardinality(Overtaken') \in Nat /\ Cardinality(Overtaken) \in Nat
      /\ One(Open(m)) \in {0, 1} /\ One(Open(m)') \in {0, 1}
      /\ Open(m) => One(Open(m)) = 1
      /\ ~Open(m)' => One(Open(m)') = 0
      /\ (Open(m)' => Open(m)) => One(Open(m)') <= One(Open(m))
  BY <1>1, SumTypes, FS_CardinalityType
<1>3. nudged[m] \in Nat /\ faults \in Nat
  BY ChatTypes
<1>4. faults' = faults \/ faults' = faults + 1
  BY DEF Fault, NoFault
<1>5. Fault => faults' = faults + 1
  BY DEF Fault
<1>6. Cardinality(Overtaken') <= Cardinality(Overtaken) + 0
  BY <1>1, <1>2, SMT
<1>7. nudged'[m] = nudged[m] => nudged'[m] = nudged[m] + 0
  BY <1>3, SMT
<1>8. faults' = faults => faults' = faults + 0
  BY <1>3, SMT
<1>9. faults' >= faults
  BY <1>3, <1>4, SMT
<1>10. CASE (Open(m)' => Open(m)) /\ nudged'[m] = nudged[m]
  <2>1. One(Open(m)') + 0 + 0 <= One(Open(m)) + 0
    BY <1>2, <1>10, SMT
  <2>2. One(Open(m)') + 0 + 0 <= One(Open(m)) + 1
    BY <1>2, <1>10, SMT
  <2> QED BY <1>2, <1>4, <1>6, <1>7, <1>8, <1>9, <1>10, <2>1, <2>2, PaidFrom
<1>11. CASE Fault /\ nudged'[m] = nudged[m]
  <2>1. One(Open(m)') + 0 + 0 <= One(Open(m)) + 1
    BY <1>2, SMT
  <2> QED BY <1>2, <1>5, <1>6, <1>7, <1>9, <1>11, <2>1, PaidFrom
<1>12. CASE Fault /\ (Open(m)' => Open(m)) /\ nudged'[m] = nudged[m] + 1
  <2>1. One(Open(m)') + 1 + 0 <= One(Open(m)) + 1
    BY <1>2, <1>12, SMT
  <2> QED BY <1>2, <1>5, <1>6, <1>9, <1>12, <2>1, PaidFrom
<1>13. CASE Open(m) /\ ~Open(m)' /\ nudged'[m] = nudged[m] + 1
  <2>1. One(Open(m)) = 1 /\ One(Open(m)') = 0
    BY <1>2, <1>13
  <2>2. 0 + 1 + 0 <= 1 + 0 /\ 0 + 1 + 0 <= 1 + 1
    BY SMT
  <2>3. /\ One(Open(m)') + 1 + 0 <= One(Open(m)) + 0
        /\ One(Open(m)') + 1 + 0 <= One(Open(m)) + 1
    BY <2>1, <2>2
  <2>4. nudged'[m] = nudged[m] + 1
    BY <1>13
  <2>5. CASE faults' = faults
    BY <1>2, <1>6, <1>8, <1>9, <2>3, <2>4, <2>5, PaidFrom
  <2>6. CASE faults' = faults + 1
    BY <1>2, <1>6, <1>9, <2>3, <2>4, <2>6, PaidFrom
  <2> QED BY <1>4, <2>5, <2>6
<1> QED BY <1>10, <1>11, <1>12, <1>13

\* A claim that is taken over from a worker at its work is a fault.
LEMMA PaidForTakeover ==
  ASSUME FollowupInv, FollowupInv', CountInv, NEW m \in Msgs, Paid(m),
         repeated' = repeated, Again(m)' => Again(m), Fault,
         NEW v, Overtaken' \subseteq Overtaken \union {v},
         Open(m)' => Open(m), nudged'[m] = nudged[m]
  PROVE  Paid(m)'
<1>1. /\ IsFiniteSet(Overtaken \union {v})
      /\ Cardinality(Overtaken \union {v}) \in {Cardinality(Overtaken), Cardinality(Overtaken) + 1}
  BY FS_AddElement DEF CountInv
<1>2. /\ IsFiniteSet(Overtaken')
      /\ Cardinality(Overtaken') <= Cardinality(Overtaken \union {v})
  BY <1>1, FS_Subset
<1>3. /\ Cardinality(Overtaken') \in Nat /\ Cardinality(Overtaken) \in Nat
      /\ One(Open(m)) \in {0, 1} /\ One(Open(m)') \in {0, 1}
      /\ One(Open(m)') <= One(Open(m))
  BY <1>2, SumTypes, FS_CardinalityType
<1>4. Cardinality(Overtaken') <= Cardinality(Overtaken) + 1
  BY <1>1, <1>2, <1>3, SMT
<1>5. nudged[m] \in Nat /\ faults \in Nat /\ faults' = faults + 1
  BY ChatTypes DEF Fault
<1>6. nudged'[m] = nudged[m] + 0 /\ faults' >= faults
  BY <1>5, SMT
<1>7. One(Open(m)') + 0 + 1 <= One(Open(m)) + 1
  BY <1>3, SMT
<1> QED BY <1>3, <1>4, <1>5, <1>6, <1>7, PaidFrom

\* An overtaken worker that is done makes room for what it leaves behind.
LEMMA PaidByOvertaken ==
  ASSUME FollowupInv, FollowupInv', CountInv, NEW m \in Msgs, Paid(m),
         repeated' = repeated, Again(m)' => Again(m), Fault \/ NoFault,
         NEW w \in Overtaken, Overtaken' \subseteq Overtaken \ {w},
         \/ nudged'[m] = nudged[m]
         \/ (Open(m)' => Open(m)) /\ nudged'[m] = nudged[m] + 1
  PROVE  Paid(m)'
<1>1. /\ IsFiniteSet(Overtaken \ {w})
      /\ Cardinality(Overtaken \ {w}) = Cardinality(Overtaken) - 1
  BY FS_RemoveElement DEF CountInv
<1>2. /\ IsFiniteSet(Overtaken')
      /\ Cardinality(Overtaken') <= Cardinality(Overtaken \ {w})
  BY <1>1, FS_Subset
<1>3. /\ Cardinality(Overtaken') \in Nat /\ Cardinality(Overtaken) \in Nat
      /\ One(Open(m)) \in {0, 1} /\ One(Open(m)') \in {0, 1}
      /\ (Open(m)' => Open(m)) => One(Open(m)') <= One(Open(m))
  BY <1>2, SumTypes, FS_CardinalityType
<1>4. -1 \in Int /\ Cardinality(Overtaken') <= Cardinality(Overtaken) + (-1)
  BY <1>1, <1>2, <1>3, SMT
<1>5. nudged[m] \in Nat /\ faults \in Nat
  BY ChatTypes
<1>6. \E f \in {0, 1} : faults' = faults + f
  <2>1. faults' = faults + 0 \/ faults' = faults + 1
    BY <1>5, SMT DEF Fault, NoFault
  <2> QED BY <2>1
<1>7. PICK f \in {0, 1} : faults' = faults + f
  BY <1>6
<1>8. faults' >= faults /\ f \in Nat
  BY <1>5, <1>7, SMT
<1>9. CASE nudged'[m] = nudged[m]
  <2>1. nudged'[m] = nudged[m] + 0
    BY <1>5, <1>9, SMT
  <2>2. One(Open(m)') + 0 + (-1) <= One(Open(m)) + f
    BY <1>3, <1>7, SMT
  <2> QED BY <1>3, <1>4, <1>7, <1>8, <2>1, <2>2, PaidFrom
<1>10. CASE (Open(m)' => Open(m)) /\ nudged'[m] = nudged[m] + 1
  <2>1. One(Open(m)') + 1 + (-1) <= One(Open(m)) + f
    BY <1>3, <1>7, <1>10, SMT
  <2> QED BY <1>3, <1>4, <1>7, <1>8, <1>10, <2>1, PaidFrom
<1> QED BY <1>9, <1>10
------------------------------------------------------------------------------
(* What the steps keep.                                                      *)

\* A row that stays where it is, or moves to a later message.
RowStays == /\ SameAnchor(job', job)
            /\ job'.status = "none" <=> job.status = "none"

RowGoesOn ==
  job.status # "none" => job'.status # "none" /\ job.at <= job'.at

\* No message comes to wait for its first call but one that is recorded now,
\* and the clock stands still as long as one waits.
FirstStays ==
  /\ \A m \in Known(sent) : sent'[m] = sent[m]
  /\ \A m \in First' : m \in Known(sent) => m \in First /\ now' = now

LEMMA StillFirst ==
  ASSUME UNCHANGED <<now, sent, repeated>>, calling' \subseteq calling
  PROVE  FirstStays /\ First' \subseteq First
BY DEF FirstStays, First

LEMMA OthersKnow ==
  ASSUME FollowupInv, FollowupInv', NEW w \in Workers, Knows(work[w]),
         work'[w] = work[w], RowGoesOn, FirstStays
  PROVE  Knows(work[w])'
<1> DEFINE l == work[w]
<1>1. /\ l.pc \in {"claimed", "read", "asking", "complete"}
           => job.status # "none" /\ sent[l.id] <= job.at
      /\ l.pc \in {"read", "asking", "complete"} => l.at # 0 /\ sent[l.id] <= l.at
      /\ l.id \in First => /\ l.pc \notin {"read", "asking"}
                           /\ l.pc = "claimed" => l.due > now
  BY DEF Knows
<1>2. l.pc # "idle" => l.id \in Known(sent) /\ sent'[l.id] = sent[l.id] /\ sent[l.id] \in Nat
  BY RecordTypes, ChatTypes DEF FirstStays
<1>3. job.at \in Nat /\ job'.at \in Nat
  <2>1. job'.at \in Nat
    BY RowTypes, JobsAssumption, SMT DEF FollowupInv, RowInv, GoodRow, JobRows, JobsAssumption
  <2> QED BY <2>1, RowTypes
<1>4. work'[w] = l
  OBVIOUS
<1> HIDE DEF l
<1>5. l.pc \in {"claimed", "read", "asking", "complete"}
        => job'.status # "none" /\ sent'[l.id] <= job'.at
  <2> SUFFICES ASSUME l.pc \in {"claimed", "read", "asking", "complete"}
               PROVE  job'.status # "none" /\ sent'[l.id] <= job'.at
    OBVIOUS
  <2>1. l.pc # "idle"
    OBVIOUS
  <2>2. job.at <= job'.at /\ sent[l.id] <= job.at /\ job'.status # "none"
    BY <1>1 DEF RowGoesOn
  <2> QED BY <1>2, <1>3, <2>1, <2>2, SMT
<1>6. l.pc \in {"read", "asking", "complete"} => l.at # 0 /\ sent'[l.id] <= l.at
  BY <1>1, <1>2
<1>7. l.id \in First' => /\ l.pc \notin {"read", "asking"}
                         /\ l.pc = "claimed" => l.due > now'
  BY <1>1, <1>2 DEF FirstStays
<1> QED BY <1>4, <1>5, <1>6, <1>7 DEF Knows

\* A worker with nothing to complete need not know anything.
LEMMA NothingToKnow ==
  ASSUME NEW w \in Workers, FollowupInv',
         work'[w].pc \in {"idle", "newer", "release", "failing"}
  PROVE  Knows(work[w])'
BY DEF Knows

LEMMA AnchorStays ==
  ASSUME FollowupInv, FollowupInv', AnchorInv, RowStays, FirstStays
  PROVE  AnchorInv'
<1>1. job'.at = job.at /\ job'.id = job.id /\ job'.due >= job.due
  BY DEF RowStays, SameAnchor
<1>2. job'.status # "none" => job'.at = sent'[job'.id] /\ job.id \in Known(sent)
  BY <1>1, RowTypes DEF RowStays, FirstStays, AnchorInv
<1>3. job'.status = "none" => job'.id = NoMsg
  BY <1>1 DEF RowStays, AnchorInv
<1>4. ASSUME job'.id \in First' PROVE job'.due > now'
  <2>1. job.id \in Msgs /\ job.id # NoMsg
    <3>1. First' \subseteq Msgs
      BY DEF First, FollowupInv, ChatInv, Known
    <3> QED BY <1>1, <1>4, <3>1, ChatTypes
  <2>2. job.status # "none"
    BY <2>1 DEF AnchorInv
  <2>3. job.id \in First /\ now' = now
    BY <1>1, <1>2, <1>4, <2>2 DEF FirstStays, RowStays
  <2>4. job.due > now
    BY <2>3 DEF AnchorInv
  <2>5. job.due \in Nat /\ now \in Nat /\ job'.due \in Nat
    BY RowTypes, ChatTypes, JobsAssumption, SMT
       DEF FollowupInv, RowInv, GoodRow, JobRows, JobsAssumption
  <2> QED BY <1>1, <2>3, <2>4, <2>5, SMT
<1> QED BY <1>2, <1>3, <1>4 DEF AnchorInv

LEMMA TimesStay ==
  ASSUME TimesInv, UNCHANGED <<now, sent, repeated>>, calling' \subseteq calling
  PROVE  TimesInv'
BY DEF TimesInv, First, Known

LEMMA RowsGoOn ==
  ASSUME FollowupInv, RowStays PROVE RowGoesOn
BY RowTypes, SMT DEF RowStays, RowGoesOn, SameAnchor

\* Only a worker that goes on without the job is overtaken.
LEMMA OvertakenStay ==
  ASSUME NEW w \in Workers, Others(w), job'.by = job.by \/ job.by = w,
         /\ work'[w].pc \in BeforeSend /\ job'.by # w
         => work[w].pc \in BeforeSend /\ job.by # w
  PROVE  /\ Overtaken' \subseteq Overtaken
         /\ work'[w].pc \notin BeforeSend => Overtaken' \subseteq Overtaken \ {w}
<1>1. ASSUME NEW v \in Overtaken' PROVE v \in Overtaken
  <2>1. v \in Workers /\ work'[v].pc \in BeforeSend /\ job'.by # v
    BY <1>1 DEF Overtaken
  <2>2. CASE v = w
    BY <2>1, <2>2 DEF Overtaken
  <2>3. CASE v # w
    BY <2>1, <2>3 DEF Others, Overtaken
  <2> QED BY <2>2, <2>3
<1>2. work'[w].pc \notin BeforeSend => w \notin Overtaken'
  BY DEF Overtaken
<1> QED BY <1>1, <1>2

\* While the row stays and the nudge on it, m is not opened by anybody who
\* was not at work on it.
LEMMA OpenStays ==
  ASSUME FollowupInv, NEW m \in Msgs, RowStays,
         UNCHANGED <<sent, nudge>>, First' \subseteq First,
         AtWork(m)' => Open(m), Ending(m) => Ending(m)'
  PROVE  Open(m)' => Open(m)
<1>1. job'.at = job.at /\ job'.id = job.id
  BY DEF RowStays, SameAnchor
<1>2. Fresh(m)' => Fresh(m)
  BY <1>1 DEF Fresh, RowStays
<1>3. Armed(m)' => Armed(m)
  BY <1>1 DEF Armed
<1> QED BY <1>2, <1>3 DEF Open

\* What becomes of the work on m when w goes on, keeps or gives back the job.
LEMMA WorkGoesOn ==
  ASSUME FollowupInv, NEW w \in Workers, Others(w), UNCHANGED sent, NEW m \in Msgs,
         job'.by = job.by \/ (job.by = w /\ job'.by = Nobody),
         work[w].pc # "complete" \/ job.by # w,
         job'.by = w /\ Doing(work[w], m)' => Doing(work[w], m)
  PROVE  (AtWork(m)' => AtWork(m)) /\ (Ending(m) => Ending(m)')
<1>1. Nobody \notin Workers
  BY ChatTypes
<1>2. ASSUME AtWork(m)' PROVE AtWork(m)
  <2>1. job'.by \in Workers /\ Doing(work[job.by], m)' /\ job'.by = job.by
    BY <1>1, <1>2 DEF AtWork
  <2>2. CASE job.by = w
    BY <2>1, <2>2 DEF AtWork
  <2>3. CASE job.by # w
    <3>1. work'[job.by] = work[job.by]
      BY <2>1, <2>3 DEF Others
    <3>2. Doing(work[job.by], m)
      BY <2>1, <3>1 DEF Doing, AlreadyNudged
    <3> QED BY <2>1, <3>2 DEF AtWork
  <2> QED BY <2>2, <2>3
<1>3. ASSUME Ending(m) PROVE Ending(m)'
  <2>1. job.by \in Workers /\ work[job.by].pc = "complete" /\ work[job.by].id = m
    BY <1>3 DEF Ending
  <2>2. job.by # w
    BY <2>1
  <2> QED BY <2>1, <2>2 DEF Ending, Others
<1> QED BY <1>2, <1>3
------------------------------------------------------------------------------
(* The actions.                                                              *)

LEMMA Together ==
  ASSUME NudgeInv, FollowupInv', TimesInv', AnchorInv', FirstStays, RowGoesOn,
         \A w \in Workers : work'[w] = work[w] \/ Knows(work[w])',
         CountInv', PaidInv'
  PROVE  NudgeInv'
<1>1. ASSUME NEW w \in Workers PROVE Knows(work[w])'
  BY OthersKnow DEF NudgeInv, KnowsInv
<1>2. KnowsInv'
  BY <1>1 DEF KnowsInv
<1> QED BY <1>2 DEF NudgeInv

\* The steps of a worker that leave the recorder's part alone.
LEMMA StepKeeps ==
  ASSUME NudgeInv, FollowupInv', NEW w \in Workers, Others(w),
         UNCHANGED <<now, sent, calling, repeated>>,
         RowStays, Knows(work[w])',
         NEW v, Overtaken' \subseteq Overtaken \union {v}, PaidInv'
  PROVE  NudgeInv'
<1>1. FirstStays /\ TimesInv'
  BY StillFirst, TimesStay DEF NudgeInv
<1>2. AnchorInv' /\ RowGoesOn
  BY <1>1, AnchorStays, RowsGoOn DEF NudgeInv
<1>3. CountInv'
  <2>1. IsFiniteSet(Overtaken \union {v})
    BY FS_AddElement DEF NudgeInv, CountInv
  <2> QED BY <2>1, FS_Subset DEF NudgeInv, CountInv
<1>4. \A u \in Workers : work'[u] = work[u] \/ Knows(work[u])'
  BY DEF Others
<1> QED BY <1>1, <1>2, <1>3, <1>4, Together

\* The row that nobody touches.
LEMMA SameRowStays ==
  ASSUME FollowupInv, job' = job PROVE RowStays
BY RowTypes, RowFields DEF RowStays

LEMMA BeginNudges ==
  ASSUME NudgeInv, FollowupInv', NEW w \in Workers, Begin(w)
  PROVE  NudgeInv'
<1>1. UNCHANGED <<now, sent, calling, job, nudge, nudged, repeated, faults>>
  BY DEF Begin
<1>2. /\ work[w].pc = "claimed" /\ Others(w) /\ SameTask(w)
      /\ \/ /\ AlreadyNudged(work[w])
            /\ work'[w].pc = "complete" /\ work'[w].at = work[w].nudge
         \/ work'[w].pc = "release"
         \/ /\ ~AlreadyNudged(work[w]) /\ ~(work[w].due > now)
            /\ work'[w].pc \in {"read", "complete"} /\ work'[w].at = now
  BY BeginIs DEF NudgeInv
<1>3. FollowupInv /\ RowStays /\ First' = First
  BY <1>1, SameRowStays DEF NudgeInv, First
<1>4. Overtaken' \subseteq Overtaken
  BY <1>1, <1>2, OvertakenStay DEF BeforeSend
<1>5. Knows(work[w])'
  <2>1. /\ job.status # "none" /\ sent[work[w].id] <= job.at
        /\ work[w].id \in First => work[w].due > now
    BY <1>2 DEF NudgeInv, KnowsInv, Knows
  <2>2. work[w].id \in Msgs /\ sent[work[w].id] <= now /\ now # 0
    BY <1>2, <1>3, RecordTypes, ChatTypes DEF NudgeInv, TimesInv
  <2>3. AlreadyNudged(work[w]) => work[w].nudge # 0 /\ sent[work[w].id] <= work[w].nudge
    BY <1>3, <2>2, ChatTypes, RecordTypes, SMT DEF AlreadyNudged
  <2>4. CASE work'[w].pc = "release"
    BY <1>3, <2>4, NothingToKnow
  <2>5. CASE AlreadyNudged(work[w]) /\ work'[w].pc = "complete" /\ work'[w].at = work[w].nudge
    BY <1>1, <1>2, <2>1, <2>3, <2>5 DEF Knows, SameTask
  <2>6. CASE /\ ~(work[w].due > now)
             /\ work'[w].pc \in {"read", "complete"} /\ work'[w].at = now
    BY <1>1, <1>2, <1>3, <2>1, <2>2, <2>6 DEF Knows, SameTask
  <2> QED BY <1>2, <2>4, <2>5, <2>6
<1>6. ASSUME NEW m \in Msgs PROVE Paid(m)'
  <2>1. Doing(work[w], m)' => Doing(work[w], m)
    BY <1>1, <1>2 DEF Doing, SameTask
  <2>2. Open(m)' => Open(m)
    BY <1>1, <1>2, <1>3, <2>1, WorkGoesOn, OpenStays DEF Open
  <2>3. Again(m)' => Again(m)
    BY <1>1 DEF Again
  <2> QED BY <1>1, <1>3, <1>4, <2>2, <2>3, PaidQuietly DEF NudgeInv, PaidInv, NoFault
<1>7. PaidInv' /\ Overtaken' \subseteq Overtaken \union {w}
  BY <1>4, <1>6 DEF PaidInv
<1> QED BY <1>1, <1>2, <1>3, <1>5, <1>7, StepKeeps

LEMMA ReadNudges ==
  ASSUME NudgeInv, FollowupInv', NEW w \in Workers, ReadChat(w)
  PROVE  NudgeInv'
<1>1. /\ UNCHANGED <<now, sent, calling, job, nudge, nudged, repeated>>
      /\ Fault \/ NoFault
  BY DEF ReadChat
<1>2. /\ work[w].pc = "read" /\ Others(w)
      /\ \/ HasNewer(work[w].id) /\ Newest(work'[w].id) /\ work'[w].pc = "newer"
         \/ /\ work'[w].pc \in {"asking", "failing"} /\ SameTask(w)
            /\ work'[w].at = work[w].at
  BY ReadIs DEF NudgeInv
<1>3. FollowupInv /\ RowStays /\ First' = First
  BY <1>1, SameRowStays DEF NudgeInv, First
<1>4. Overtaken' \subseteq Overtaken
  BY <1>1, <1>2, OvertakenStay DEF BeforeSend
<1>5. Knows(work[w])'
  <2>1. CASE work'[w].pc \in {"newer", "failing"}
    BY <1>3, <2>1, NothingToKnow
  <2>2. CASE work'[w].pc = "asking" /\ SameTask(w) /\ work'[w].at = work[w].at
    <3>1. Knows(work[w])
      BY DEF NudgeInv, KnowsInv
    <3> QED BY <1>1, <1>2, <1>3, <2>2, <3>1 DEF Knows, SameTask
  <2> QED BY <1>2, <2>1, <2>2
<1>6. ASSUME NEW m \in Msgs PROVE Paid(m)'
  <2>1. ASSUME HasNewer(work[w].id), Newest(m) PROVE sent[work[w].id] < sent[m]
    <3>1. PICK n \in Recorded : sent[n] > sent[work[w].id]
      BY <2>1 DEF HasNewer
    <3>2. n \in Msgs /\ (sent[n] < sent[m] \/ sent[n] = sent[m])
      BY <2>1, <3>1 DEF Newest, Recorded
    <3>3. work[w].id \in Msgs
      BY <1>2, <1>3, RecordTypes, ChatTypes
    <3>4. sent[n] \in Nat /\ sent[m] \in Nat /\ sent[work[w].id] \in Nat
      BY <1>3, <3>2, <3>3, ChatTypes
    <3> QED BY <3>1, <3>2, <3>4, SMT
  <2>2. Doing(work[w], m)' => Doing(work[w], m)
    BY <1>1, <1>2, <2>1 DEF Doing, SameTask
  <2>3. Open(m)' => Open(m)
    BY <1>1, <1>2, <1>3, <2>2, WorkGoesOn, OpenStays DEF Open
  <2>4. Again(m)' => Again(m)
    BY <1>1 DEF Again
  <2> QED BY <1>1, <1>3, <1>4, <2>3, <2>4, PaidQuietly DEF NudgeInv, PaidInv
<1>7. PaidInv' /\ Overtaken' \subseteq Overtaken \union {w}
  BY <1>4, <1>6 DEF PaidInv
<1> QED BY <1>1, <1>2, <1>3, <1>5, <1>7, StepKeeps

\* Sending is paid for by what was open, by an overtaken worker or by the
\* fault of an answer that is lost.
LEMMA SendNudges ==
  ASSUME NudgeInv, FollowupInv', NEW w \in Workers, SendNudge(w)
  PROVE  NudgeInv'
<1> DEFINE id == work[w].id
<1>1. /\ UNCHANGED <<now, sent, calling, job, nudge, repeated>>
      /\ work[w].pc = "asking" /\ (Fault \/ NoFault)
      /\ \/ /\ nudged' = [nudged EXCEPT ![id] = @ + 1]
            /\ Goto(w, "complete") \/ (Fault /\ Goto(w, "failing"))
         \/ Goto(w, "failing") /\ UNCHANGED nudged
  BY DEF SendNudge
<1>2. FollowupInv /\ RowStays /\ First' = First
  BY <1>1, SameRowStays DEF NudgeInv, First
<1>3. /\ Others(w) /\ SameTask(w) /\ work'[w].at = work[w].at
      /\ work'[w].pc \in {"complete", "failing"}
      /\ Goto(w, "complete") => work'[w].pc = "complete"
  BY <1>1, <1>2, GotoIs
<1>4. id \in Known(sent) /\ id \in Msgs
  BY <1>1, <1>2, RecordTypes, ChatTypes
<1>5. /\ job.status # "none" /\ sent[id] <= job.at
      /\ work[w].at # 0 /\ sent[id] <= work[w].at /\ id \notin First
  BY <1>1 DEF NudgeInv, KnowsInv, Knows
<1>6. /\ Overtaken' \subseteq Overtaken
      /\ job.by # w => w \in Overtaken /\ Overtaken' \subseteq Overtaken \ {w}
  <2>1. w \in Overtaken <=> job.by # w
    BY <1>1 DEF Overtaken, BeforeSend
  <2>2. work'[w].pc \notin BeforeSend
    BY <1>3 DEF BeforeSend
  <2> QED BY <1>1, <1>3, <2>1, <2>2, OvertakenStay
<1>7. Knows(work[w])'
  BY <1>1, <1>2, <1>3, <1>5 DEF Knows, SameTask
<1> HIDE DEF id
<1>8. ASSUME NEW m \in Msgs PROVE Paid(m)'
  <2>1. ~Doing(work[w], m)'
    BY <1>3 DEF Doing
  <2>2. Open(m)' => Open(m)
    BY <1>1, <1>2, <1>3, <2>1, WorkGoesOn, OpenStays DEF Open
  <2>3. Again(m)' => Again(m)
    BY <1>1 DEF Again
  <2>4. CASE nudged'[m] = nudged[m]
    BY <1>1, <1>2, <1>6, <2>2, <2>3, <2>4, PaidQuietly DEF NudgeInv, PaidInv
  <2>5. ASSUME nudged' = [nudged EXCEPT ![id] = @ + 1], m = id
        PROVE  Paid(m)'
    <3>1. nudged'[m] = nudged[m] + 1
      BY <2>5 DEF NudgeInv, FollowupInv, HistoryInv
    <3>2. CASE job.by # w
      BY <1>1, <1>2, <1>6, <2>2, <2>3, <3>1, <3>2, PaidByOvertaken DEF NudgeInv, PaidInv
    <3>3. CASE Fault
      BY <1>1, <1>2, <1>6, <2>2, <2>3, <3>1, <3>3, PaidQuietly DEF NudgeInv, PaidInv
    <3>4. ASSUME job.by = w, Goto(w, "complete") PROVE Paid(m)'
      <4>1. Open(m)
        BY <1>1, <2>5, <3>4 DEF id, Open, AtWork, Doing
      <4>2. ~Fresh(m)'
        <5>1. sent[m] \in Nat /\ job.at \in Nat
          BY <1>2, ChatTypes, RowTypes
        <5>2. ~(job.at < sent[m])
          BY <1>5, <2>5, <5>1, SMT
        <5>3. sent[m] # 0
          BY <1>4, <2>5 DEF Known
        <5> QED BY <1>1, <1>2, <1>5, <2>5, <5>2, <5>3 DEF Fresh
      <4>3. ~Armed(m)'
        BY <1>1, <1>3, <2>5, <3>4 DEF Armed, Ending, SameTask, id
      <4>4. ~AtWork(m)'
        BY <1>1, <2>1, <3>4 DEF AtWork
      <4>5. ~Open(m)'
        BY <4>2, <4>3, <4>4 DEF Open
      <4> QED BY <1>1, <1>2, <1>6, <2>3, <3>1, <4>1, <4>5, PaidQuietly DEF NudgeInv, PaidInv
    <3>5. nudged' # nudged
      <4>1. nudged[m] \in Nat
        BY <1>2, ChatTypes
      <4> QED BY <3>1, <4>1, SMT
    <3> QED BY <1>1, <3>2, <3>3, <3>4, <3>5
  <2>6. CASE m # id /\ nudged' = [nudged EXCEPT ![id] = @ + 1]
    <3>1. nudged'[m] = nudged[m]
      BY <2>6 DEF NudgeInv, FollowupInv, HistoryInv
    <3> QED BY <2>4, <3>1
  <2> QED BY <1>1, <2>4, <2>5, <2>6
<1>9. PaidInv' /\ Overtaken' \subseteq Overtaken \union {w}
  BY <1>6, <1>8 DEF PaidInv
<1> QED BY <1>1, <1>2, <1>3, <1>7, <1>9, StepKeeps

\* Only who holds the job gives it back.
LEMMA GivesBack ==
  ASSUME FollowupInv, NEW w \in Workers, NEW id,
         job' \in {job, Released(job, w), Completed(job, w, id), Failed(job, w, id, now)}
  PROVE  /\ RowStays
         /\ job' = job \/ (job.by = w /\ job'.by = Nobody)
<1>1. /\ GoodRow(job, Workers, Msgs) /\ job \in JobRows(Workers, Msgs)
      /\ Nobody \notin Workers /\ now \in Nat
  BY RowTypes, ChatTypes DEF FollowupInv, RowInv
<1>2. /\ SameAnchor(job, job) /\ SameAnchor(Released(job, w), job)
      /\ SameAnchor(Completed(job, w, id), job)
      /\ SameAnchor(Failed(job, w, id, now), job)
  BY <1>1, RowFields, GivenBack, GivenUp DEF GivenBackBy, SameAnchor
<1>3. /\ Released(job, w).status = "none" <=> job.status = "none"
      /\ Completed(job, w, id).status = "none" <=> job.status = "none"
      /\ Failed(job, w, id, now).status = "none" <=> job.status = "none"
  BY <1>1, GivenBack, GivenUp DEF GivenBackBy, SameAnchor
<1>4. RowStays
  BY <1>2, <1>3 DEF RowStays
<1>5. CASE job.by # w
  <2>1. job' = job
    BY <1>1, <1>5, GivenBack, GivenUp DEF GivenBackBy, SameAnchor
  <2> QED BY <1>4, <2>1
<1>6. CASE job.by = w
  <2>1. job' = job \/ job'.by = Nobody
    BY <1>1, <1>6, GivenBack, GivenUp DEF GivenBackBy, SameAnchor
  <2> QED BY <1>4, <1>6, <2>1
<1> QED BY <1>5, <1>6

\* A worker that ends its work without having nudged opens nothing; where it
\* had nudged, the fault that keeps it from saying so pays.
LEMMA EndNudges ==
  ASSUME NudgeInv, FollowupInv', NEW w \in Workers,
         Release(w) \/ Complete(w) \/ Fail(w) \/ Crash(w)
  PROVE  NudgeInv'
<1> DEFINE id == work[w].id
<1>1. /\ UNCHANGED <<now, sent, calling, nudged, repeated>>
      /\ Done(w) /\ (Fault \/ NoFault)
      /\ job' \in {job, Released(job, w), Completed(job, w, id), Failed(job, w, id, now)}
  BY DEF Release, Complete, Fail, Crash
<1>2. FollowupInv /\ First' = First
  BY <1>1 DEF NudgeInv, First
<1>3. Others(w) /\ work'[w].pc = "idle" /\ work'[w].id = NoMsg
  BY <1>1, <1>2, DoneIs
<1>4. RowStays /\ (job' = job \/ (job.by = w /\ job'.by = Nobody))
  BY <1>1, <1>2, GivesBack
<1>5. Overtaken' \subseteq Overtaken
  BY <1>3, <1>4, OvertakenStay DEF BeforeSend
<1>6. Knows(work[w])'
  BY <1>3, NothingToKnow
<1>7. ASSUME NEW m \in Msgs PROVE Open(m)' => Open(m) \/ Fault
  <2>1. ~Doing(work[w], m)'
    BY <1>3 DEF Doing
  <2>2. CASE nudge' = nudge /\ (work[w].pc # "complete" \/ job.by # w)
    BY <1>1, <1>2, <1>3, <1>4, <2>1, <2>2, WorkGoesOn, OpenStays DEF Open
  <2>3. CASE Fault
    BY <2>3
  <2>4. ASSUME Complete(w), ~Fault PROVE Open(m)' => Open(m)
    <3>1. /\ work[w].pc = "complete" /\ job' = Completed(job, w, id)
          /\ nudge' = IF job.by = w /\ job.id = id THEN work[w].at ELSE nudge
      BY <2>4 DEF Complete
    <3>2. CASE job.by # w
      BY <2>2, <2>4, <3>1, <3>2
    <3>3. CASE job.by = w
      <4>1. job' # job => job'.by = Nobody
        BY <1>4
      <4>2. job'.by = Nobody /\ Nobody \notin Workers
        <5>1. GoodRow(job, Workers, Msgs) /\ now \in Nat /\ Nobody \notin Workers
          BY <1>2, ChatTypes DEF FollowupInv, RowInv
        <5>2. GivenBackBy(Completed(job, w, id), job, w, Workers, Msgs)
          BY <5>1, GivenBack
        <5> QED BY <3>1, <3>3, <5>1, <5>2 DEF GivenBackBy
      <4>3. ~AtWork(m)'
        BY <4>2 DEF AtWork
      <4>4. Fresh(m)' => Fresh(m)
        BY <1>1, <1>2, <1>4 DEF Fresh, RowStays, SameAnchor
      <4>5. ASSUME Armed(m)' PROVE Armed(m)
        <5>1. job.id = m /\ ~(nudge' # 0 /\ nudge' >= sent[m])
          BY <1>1, <1>4, <4>5 DEF Armed, RowStays, SameAnchor
        <5>2. id # m
          <6>1. ASSUME id = m PROVE FALSE
            <7>1. nudge' = work[w].at
              BY <3>1, <3>3, <5>1, <6>1
            <7>2. work[w].at # 0 /\ sent[m] <= work[w].at
              BY <3>1, <6>1 DEF NudgeInv, KnowsInv, Knows
            <7>3. work[w].at \in Nat /\ sent[m] \in Nat
              BY <1>2, RecordTypes, ChatTypes
            <7> QED BY <5>1, <7>1, <7>2, <7>3, SMT
          <6> QED BY <6>1
        <5>3. nudge' = nudge
          BY <3>1, <5>1, <5>2
        <5>4. ~Ending(m)
          BY <3>3, <5>2 DEF Ending
        <5> QED BY <5>1, <5>3, <5>4 DEF Armed
      <4> QED BY <4>3, <4>4, <4>5 DEF Open
    <3> QED BY <3>2, <3>3
  <2>5. CASE Release(w)
    BY <2>2, <2>5 DEF Release
  <2>6. CASE Fail(w)
    BY <2>2, <2>6 DEF Fail
  <2>7. CASE Crash(w)
    BY <2>3, <2>7 DEF Crash
  <2> QED BY <2>3, <2>4, <2>5, <2>6, <2>7
<1>8. ASSUME NEW m \in Msgs PROVE Paid(m)'
  <2>1. Again(m)' => Again(m)
    BY <1>1 DEF Again
  <2> QED BY <1>1, <1>2, <1>5, <1>7, <2>1, PaidQuietly DEF NudgeInv, PaidInv
<1>9. PaidInv' /\ Overtaken' \subseteq Overtaken \union {w}
  BY <1>5, <1>8 DEF PaidInv
<1> QED BY <1>1, <1>3, <1>4, <1>6, <1>9, StepKeeps

LEMMA ClaimIs ==
  ASSUME FollowupInv, NEW w \in Workers, Claim(w)
  PROVE  /\ Claimable(job, now) /\ job' = Claimed(job, w) /\ Others(w)
         /\ work'[w].pc = "claimed" /\ work'[w].id = job.id /\ work'[w].due = job.due
         /\ work'[w].nudge = nudge
         /\ IF Held THEN Fault ELSE NoFault
         /\ UNCHANGED <<now, sent, calling, nudge, nudged, repeated>>
<1> DEFINE r == [Idle EXCEPT !.pc = "claimed", !.id = job.id, !.due = job.due,
                             !.nudge = nudge, !.heard = Recorded]
<1>1. work' = [work EXCEPT ![w] = r] /\ work \in [Workers -> WorkRows]
  BY DEF Claim, FollowupInv, WorkInv
<1>2. r.pc = "claimed" /\ r.id = job.id /\ r.due = job.due /\ r.nudge = nudge
  BY SMT DEF Idle
<1>3. /\ Claimable(job, now) /\ job' = Claimed(job, w)
      /\ IF Held THEN Fault ELSE NoFault
      /\ UNCHANGED <<now, sent, calling, nudge, nudged, repeated>>
  BY DEF Claim
<1> HIDE DEF r
<1> QED BY <1>1, <1>2, <1>3 DEF Others

\* A claim takes up what the row stands for; the worker that it takes the job
\* from may still send, or leave a job that it was about to end.
LEMMA ClaimNudges ==
  ASSUME NudgeInv, FollowupInv', NEW w \in Workers, Claim(w)
  PROVE  NudgeInv'
<1>1. FollowupInv
  BY DEF NudgeInv
<1>2. /\ Claimable(job, now) /\ job' = Claimed(job, w) /\ Others(w)
      /\ work'[w].pc = "claimed" /\ work'[w].id = job.id /\ work'[w].due = job.due
      /\ work'[w].nudge = nudge
      /\ IF Held THEN Fault ELSE NoFault
      /\ UNCHANGED <<now, sent, calling, nudge, nudged, repeated>>
  BY <1>1, ClaimIs
<1>3. job \in JobRows(Workers, Msgs) /\ job.status # "none" /\ First' = First
  BY <1>1, <1>2, RowTypes DEF Claimable, First
<1>4. job'.by = w /\ job'.status = "running" /\ SameAnchor(job', job)
  BY <1>2, <1>3, ClaimedSays
<1>5. RowStays
  BY <1>3, <1>4 DEF RowStays
<1>6. job.id \in Known(sent) /\ job.at = sent[job.id] /\ job.at \in Nat
  BY <1>1, <1>3, RowTypes DEF NudgeInv, AnchorInv
<1>7. Knows(work[w])'
  <2>1. sent[job.id] <= job.at
    BY <1>6, SMT
  <2>2. work'[w].pc = "claimed" => job'.status # "none" /\ sent'[work'[w].id] <= job'.at
    BY <1>2, <1>4, <2>1 DEF SameAnchor
  <2>3. work'[w].id \in First' => work'[w].due > now'
    BY <1>2, <1>3 DEF NudgeInv, AnchorInv
  <2> QED BY <1>2, <2>2, <2>3 DEF Knows
<1>8. /\ Overtaken' \subseteq Overtaken \union {job.by}
      /\ ~Held => Overtaken' \subseteq Overtaken
      /\ \A m \in Msgs : Ending(m) => Overtaken' \subseteq Overtaken
  <2>1. ASSUME NEW v \in Overtaken', v \notin Overtaken
        PROVE  v = job.by /\ work[v].pc \in BeforeSend /\ v \in Workers
    <3>1. v \in Workers /\ v # w /\ work'[v].pc \in BeforeSend
      BY <1>4, <2>1 DEF Overtaken
    <3>2. work[v].pc \in BeforeSend
      BY <1>2, <3>1 DEF Others
    <3> QED BY <2>1, <3>1, <3>2 DEF Overtaken
  <2>2. ASSUME NEW v \in Workers, v = job.by, work[v].pc \in BeforeSend
        PROVE  Held /\ \A m \in Msgs : ~Ending(m)
    <3>1. v # Nobody /\ job.status = "running"
      BY <1>1, <2>2, RowTypes, ChatTypes
    <3> QED BY <2>2, <3>1 DEF Held, Ending, BeforeSend
  <2> QED BY <2>1, <2>2
<1>9. ASSUME NEW m \in Msgs PROVE Open(m)' => Open(m) \/ Ending(m)
  <2>1. Fresh(m)' => Fresh(m)
    BY <1>2, <1>3, <1>4 DEF Fresh, SameAnchor
  <2>2. Armed(m)' => Armed(m) \/ Ending(m)
    BY <1>2, <1>4 DEF Armed, SameAnchor
  <2>3. ASSUME AtWork(m)' PROVE Fresh(m) \/ Armed(m) \/ Ending(m)
    <3>1. Doing(work[w], m)'
      BY <1>4, <2>3 DEF AtWork
    <3>2. \/ job.id = m /\ ~(nudge # 0 /\ nudge >= sent[job.id])
          \/ sent[job.id] < sent[m]
      BY <1>2, <3>1 DEF Doing, AlreadyNudged
    <3> QED BY <1>6, <3>2 DEF Fresh, Armed
  <2> QED BY <2>1, <2>2, <2>3 DEF Open
<1>10. ASSUME NEW m \in Msgs PROVE Paid(m)'
  <2>1. Again(m)' => Again(m)
    BY <1>2 DEF Again
  <2>2. CASE ~Held
    <3>1. ~Ending(m)
      <4>1. ASSUME Ending(m) PROVE FALSE
        <5>1. job.by \in Workers /\ work[job.by].pc = "complete"
          BY <4>1 DEF Ending
        <5>2. job.by # Nobody /\ job.status = "running"
          BY <1>1, <5>1, RowTypes, ChatTypes
        <5> QED BY <2>2, <5>1, <5>2 DEF Held
      <4> QED BY <4>1
    <3> QED BY <1>1, <1>2, <1>8, <1>9, <2>1, <2>2, <3>1, PaidQuietly DEF NudgeInv, PaidInv
  <2>3. CASE Held /\ Ending(m)
    BY <1>1, <1>2, <1>8, <2>1, <2>3, PaidQuietly DEF NudgeInv, PaidInv
  <2>4. CASE Held /\ ~Ending(m)
    BY <1>1, <1>2, <1>8, <1>9, <2>1, <2>4, PaidForTakeover DEF NudgeInv, PaidInv
  <2> QED BY <2>2, <2>3, <2>4
<1>11. PaidInv'
  BY <1>10 DEF PaidInv
<1> QED BY <1>2, <1>5, <1>7, <1>8, <1>11, StepKeeps

\* What a schedule call for the message x makes of the row.
LEMMA ScheduleNudges ==
  ASSUME NudgeInv, FollowupInv', NEW x \in Known(sent),
         job' = Scheduled(job, sent[x], x), nudge' = NudgeAfter(sent[x]),
         UNCHANGED <<now, sent>>, First' \subseteq First
  PROVE  /\ AnchorInv' /\ RowGoesOn /\ job'.by = job.by
         /\ \A m \in Msgs \ {x} :
              /\ Fresh(m)' => Fresh(m)
              /\ job'.id = m => job.id = m /\ nudge' = nudge
<1>1. job \in JobRows(Workers, Msgs) /\ FollowupInv
  BY RowTypes DEF NudgeInv
<1>2. /\ job.at \in Nat /\ sent[x] \in Nat /\ x \in Msgs /\ now \in Nat /\ Window \in Nat
      /\ \A m \in Msgs : sent[m] \in Nat
  BY <1>1, RowTypes, ChatTypes
<1>3. job'.by = job.by /\ job'.status \in {"queued", "running"}
  BY <1>1, ScheduledSays
<1>4. CASE Moves(job, sent[x])
  <2>1. job'.at = sent[x] /\ job'.id = x /\ job'.due = sent[x] + Window
    BY <1>1, <1>4, ScheduledSays
  <2>2. job.status # "none" => job.at <= sent[x]
    BY <1>2, <1>4, SMT DEF Moves
  <2>3. RowGoesOn
    BY <1>3, <2>1, <2>2 DEF RowGoesOn
  <2>4. x \in First => now < sent[x] + Window
    BY <1>2 DEF NudgeInv, TimesInv
  <2>5. AnchorInv'
    <3>1. x \in First => sent[x] + Window > now
      BY <1>2, <2>4, SMT
    <3> QED BY <1>3, <2>1, <3>1 DEF AnchorInv
  <2>6. ASSUME NEW m \in Msgs \ {x}, Fresh(m)' PROVE Fresh(m)
    <3>1. sent[m] = 0 \/ m \in First \/ sent[x] < sent[m]
      BY <1>3, <2>1, <2>6 DEF Fresh
    <3>2. sent[x] < sent[m] => job.status = "none" \/ job.at < sent[m]
      BY <1>2, <2>2, SMT
    <3> QED BY <3>1, <3>2 DEF Fresh
  <2> QED BY <1>3, <2>1, <2>3, <2>5, <2>6
<1>5. CASE ~Moves(job, sent[x])
  <2>1. job'.at = job.at /\ job'.id = job.id /\ job'.due = job.due /\ job.status # "none"
    BY <1>1, <1>5, ScheduledSays DEF Moves
  <2>2. nudge' = nudge
    BY <1>5 DEF NudgeAfter
  <2>3. RowGoesOn
    BY <1>2, <1>3, <2>1, SMT DEF RowGoesOn
  <2>4. AnchorInv'
    BY <1>3, <2>1 DEF NudgeInv, AnchorInv
  <2>5. ASSUME NEW m \in Msgs \ {x}, Fresh(m)' PROVE Fresh(m)
    BY <1>3, <2>1, <2>5 DEF Fresh
  <2> QED BY <1>3, <2>1, <2>2, <2>3, <2>4, <2>5
<1> QED BY <1>4, <1>5

\* It opens no message but x.
LEMMA OpensOnlyOne ==
  ASSUME NudgeInv, FollowupInv', NEW x \in Known(sent),
         job' = Scheduled(job, sent[x], x), nudge' = NudgeAfter(sent[x]),
         UNCHANGED <<now, sent>>, First' \subseteq First,
         NEW m \in Msgs \ {x}, AtWork(m)' => AtWork(m), Ending(m) => Ending(m)'
  PROVE  Open(m)' => Open(m)
<1>1. /\ Fresh(m)' => Fresh(m)
      /\ job'.id = m => job.id = m /\ nudge' = nudge
  BY ScheduleNudges
<1>2. Armed(m)' => Armed(m)
  BY <1>1 DEF Armed
<1> QED BY <1>1, <1>2 DEF Open

\* Putting the job off opens the message that was found, on which the worker
\* was at work, unless it was overtaken.
LEMMA PutOffNudges ==
  ASSUME NudgeInv, FollowupInv', NEW w \in Workers, PutOff(w)
  PROVE  NudgeInv'
<1> DEFINE x == work[w].id
<1>1. /\ work[w].pc = "newer" /\ Goto(w, "release")
      /\ \/ job' = Scheduled(job, sent[x], x) /\ nudge' = NudgeAfter(sent[x]) /\ NoFault
         \/ Fault /\ UNCHANGED <<job, nudge>>
      /\ UNCHANGED <<now, sent, calling, nudged, repeated>>
  BY DEF PutOff
<1>2. FollowupInv /\ First' = First
  BY <1>1 DEF NudgeInv, First
<1>3. Others(w) /\ work'[w].pc = "release"
  BY <1>1, <1>2, GotoIs
<1>4. x \in Known(sent) /\ x \in Msgs
  BY <1>1, <1>2, RecordTypes, ChatTypes
<1>5. Knows(work[w])'
  BY <1>3, NothingToKnow
<1>6. \A m \in Msgs : (Again(m)' => Again(m)) /\ ~Doing(work[w], m)'
  BY <1>1, <1>3 DEF Again, Doing
<1>7. w \in Overtaken <=> job.by # w
  BY <1>1 DEF Overtaken, BeforeSend
<1> HIDE DEF x
<1>8. CASE Fault /\ UNCHANGED <<job, nudge>>
  <2>1. RowStays
    BY <1>2, <1>8, SameRowStays
  <2>2. Overtaken' \subseteq Overtaken
    BY <1>3, <1>8, OvertakenStay DEF BeforeSend
  <2>3. ASSUME NEW m \in Msgs PROVE Paid(m)'
    BY <1>1, <1>2, <1>6, <1>8, <2>2, PaidQuietly DEF NudgeInv, PaidInv
  <2>4. PaidInv' /\ Overtaken' \subseteq Overtaken \union {w}
    BY <2>2, <2>3 DEF PaidInv
  <2> QED BY <1>1, <1>3, <1>5, <2>1, <2>4, StepKeeps
<1>9. CASE job' = Scheduled(job, sent[x], x) /\ nudge' = NudgeAfter(sent[x]) /\ NoFault
  <2>1. AnchorInv' /\ RowGoesOn /\ job'.by = job.by
    BY <1>1, <1>2, <1>4, <1>9, ScheduleNudges
  <2>2. /\ Overtaken' \subseteq Overtaken
        /\ job.by # w => Overtaken' \subseteq Overtaken \ {w}
    <3>1. work'[w].pc \notin BeforeSend
      BY <1>3 DEF BeforeSend
    <3> QED BY <1>3, <2>1, <3>1, OvertakenStay
  <2>3. ASSUME NEW m \in Msgs PROVE Paid(m)'
    <3>1. CASE job.by # w
      BY <1>1, <1>2, <1>6, <1>7, <2>2, <3>1, PaidByOvertaken DEF NudgeInv, PaidInv
    <3>2. CASE job.by = w
      <4>1. CASE m = x
        <5>1. Open(m)
          BY <1>1, <3>2, <4>1 DEF Open, AtWork, Doing, x
        <5> QED BY <1>1, <1>2, <1>6, <2>2, <5>1, PaidQuietly DEF NudgeInv, PaidInv
      <4>2. CASE m # x
        <5>1. (AtWork(m)' => AtWork(m)) /\ (Ending(m) => Ending(m)')
          BY <1>1, <1>2, <1>3, <1>6, <2>1, WorkGoesOn
        <5>2. Open(m)' => Open(m)
          BY <1>1, <1>2, <1>4, <1>9, <4>2, <5>1, OpensOnlyOne
        <5> QED BY <1>1, <1>2, <1>6, <2>2, <5>2, PaidQuietly DEF NudgeInv, PaidInv
      <4> QED BY <4>1, <4>2
    <3> QED BY <3>1, <3>2
  <2>4. FirstStays /\ TimesInv'
    BY <1>1, StillFirst, TimesStay DEF NudgeInv
  <2>5. CountInv'
    BY <1>1, <2>2, FS_Subset DEF NudgeInv, CountInv
  <2>6. PaidInv'
    BY <2>3 DEF PaidInv
  <2>7. \A u \in Workers : work'[u] = work[u] \/ Knows(work[u])'
    BY <1>3, <1>5 DEF Others
  <2> QED BY <2>1, <2>4, <2>5, <2>6, <2>7, Together
<1> QED BY <1>1, <1>8, <1>9

\* The repeated call for m pays for what it opens.
LEMMA PaidByCall ==
  ASSUME FollowupInv, FollowupInv', CountInv, NEW m \in Msgs, Paid(m),
         UNCHANGED <<nudged, repeated, faults>>, Overtaken' = Overtaken,
         Again(m), ~Again(m)'
  PROVE  Paid(m)'
<1> DEFINE a == Cardinality(Overtaken)
           b == Cardinality(repeated \ {m})
           o == One(Open(m))
           o2 == One(Open(m)')
<1>1. /\ a \in Nat /\ b \in Nat /\ o \in {0, 1} /\ o2 \in {0, 1}
      /\ nudged[m] \in Nat /\ faults \in Nat
  BY SumTypes, ChatTypes
<1>2. One(Again(m)) = 1 /\ One(Again(m)') = 0
  BY DEF One
<1>3. nudged[m] + o + 1 + a + b <= 1 + faults
  BY <1>2 DEF Paid
<1> HIDE DEF a, b, o, o2
<1>4. nudged[m] + o2 + 0 + a + b <= 1 + faults
  BY <1>1, <1>3, SMT
<1>5. nudged'[m] + One(Open(m)') + One(Again(m)') + Cardinality(Overtaken')
        + Cardinality(repeated' \ {m}) <= 1 + faults'
  BY <1>2, <1>4 DEF a, b, o2
<1> QED BY <1>5 DEF Paid

\* An event that is delivered again is a fault, of its own message or, for
\* all others, one that they may not spend.
LEMMA PaidForRepeat ==
  ASSUME FollowupInv, FollowupInv', CountInv, NEW m \in Msgs, Paid(m),
         NEW x \in Msgs, x \notin calling, x \notin repeated,
         calling' = calling \union {x}, repeated' = repeated \union {x},
         nudged' = nudged, Fault, Overtaken' = Overtaken, Open(m)' => Open(m)
  PROVE  Paid(m)'
<1> DEFINE a == Cardinality(Overtaken)
           b == Cardinality(repeated \ {m})
           b2 == Cardinality(repeated' \ {m})
           o == One(Open(m))
           o2 == One(Open(m)')
           g == One(Again(m))
           g2 == One(Again(m)')
<1>1. /\ a \in Nat /\ b \in Nat /\ o \in {0, 1} /\ o2 \in {0, 1} /\ o2 <= o
      /\ g \in {0, 1} /\ g2 \in {0, 1}
      /\ nudged[m] \in Nat /\ faults \in Nat /\ faults' = faults + 1
  BY SumTypes, ChatTypes DEF Fault
<1>2. nudged[m] + o + g + a + b <= 1 + faults
  BY DEF Paid
<1>3. (m = x /\ b2 = b /\ g = 0) \/ (m # x /\ b2 = b + 1 /\ g2 = g)
  <2>1. CASE m = x
    <3>1. repeated' \ {m} = repeated \ {m}
      BY <2>1
    <3>2. ~Again(m)
      BY <2>1 DEF Again
    <3> QED BY <2>1, <3>1, <3>2 DEF One
  <2>2. CASE m # x
    <3>1. repeated' \ {m} = (repeated \ {m}) \union {x} /\ x \notin repeated \ {m}
      BY <2>2
    <3>2. IsFiniteSet(repeated \ {m})
      BY FS_Subset DEF CountInv
    <3>3. b2 = b + 1
      BY <3>1, <3>2, FS_AddElement
    <3>4. Again(m)' <=> Again(m)
      BY <2>2 DEF Again
    <3> QED BY <2>2, <3>3, <3>4 DEF One
  <2> QED BY <2>1, <2>2
<1> HIDE DEF a, b, b2, o, o2, g, g2
<1>4. nudged[m] + o2 + g2 + a + b2 <= 1 + faults'
  BY <1>1, <1>2, <1>3, SMT
<1>5. nudged'[m] + One(Open(m)') + One(Again(m)') + Cardinality(Overtaken')
        + Cardinality(repeated' \ {m}) <= 1 + faults'
  BY <1>4 DEF a, b2, o2, g2
<1> QED BY <1>5 DEF Paid

\* No worker moves, and the job stays with who has it.
LEMMA NobodyMoves ==
  ASSUME FollowupInv, work' = work, job'.by = job.by
  PROVE  /\ Overtaken' = Overtaken
         /\ \A m \in Msgs : Ending(m) => Ending(m)'
         /\ sent' = sent => \A m \in Msgs : AtWork(m)' => AtWork(m)
BY DEF Overtaken, Ending, AtWork, Doing, AlreadyNudged

\* Recording opens nothing: a message that is not recorded yet is open.
LEMMA InboundNudges ==
  ASSUME MaxDelay < Window, NudgeInv, FollowupInv', RecordInbound
  PROVE  NudgeInv'
<1>0. FollowupInv
  BY DEF NudgeInv
<1>1. PICK n \in Msgs \ Recorded, t \in SendTimes :
        sent' = [sent EXCEPT ![n] = t] /\ calling' = calling \union {n}
  BY DEF RecordInbound
<1>2. UNCHANGED <<now, job, nudge, work, nudged, repeated, faults>>
  BY DEF RecordInbound
<1>3. /\ n \notin Known(sent) /\ sent[n] = 0
      /\ \A m \in Msgs : sent'[m] = IF m = n THEN t ELSE sent[m]
      /\ \A m \in Known(sent) : sent'[m] = sent[m]
  BY <1>0, <1>1 DEF Recorded, Known, FollowupInv, ChatInv
<1>4. t <= now /\ now < t + Window
  BY <1>0, ChatTypes, FollowupAssumption, SMT DEF SendTimes, FollowupAssumption
<1>5. First' = First \union {n}
  BY <1>1, <1>2, <1>3 DEF NudgeInv, TimesInv, First
<1>6. TimesInv'
  <2>1. \A m \in Msgs : sent'[m] <= now
    BY <1>3, <1>4 DEF NudgeInv, TimesInv
  <2>2. ASSUME NEW m \in First' PROVE now < sent'[m] + Window
    <3>1. m = n \/ (m \in First /\ m \in Msgs /\ m # n)
      BY <1>0, <1>1, <1>3, <1>5, ChatTypes DEF First
    <3> QED BY <1>1, <1>3, <1>4, <3>1 DEF NudgeInv, TimesInv
  <2>3. repeated \subseteq Known(sent')
    BY <1>1, <1>3 DEF NudgeInv, TimesInv, Known
  <2> QED BY <1>2, <2>1, <2>2, <2>3 DEF TimesInv
<1>7. FirstStays
  BY <1>2, <1>3, <1>5 DEF FirstStays
<1>8. RowStays /\ RowGoesOn
  BY <1>0, <1>2, SameRowStays, RowsGoOn
<1>9. AnchorInv'
  BY <1>0, <1>7, <1>8, AnchorStays DEF NudgeInv
<1>10. Overtaken' = Overtaken /\ \A m \in Msgs : Ending(m) => Ending(m)'
  BY <1>0, <1>2, NobodyMoves
<1>11. CountInv'
  BY <1>2, <1>10 DEF NudgeInv, CountInv
<1>12. ASSUME NEW m \in Msgs PROVE Paid(m)'
  <2>1. Again(m)' => Again(m)
    BY <1>1, <1>2, <1>3 DEF Again, NudgeInv, TimesInv
  <2>2. CASE m = n
    <3>1. Open(m)
      BY <1>3, <2>2 DEF Open, Fresh
    <3> QED BY <1>0, <1>2, <1>10, <2>1, <3>1, PaidQuietly DEF NudgeInv, PaidInv, NoFault
  <2>3. CASE m # n
    <3>1. sent'[m] = sent[m] /\ (m \in First' => m \in First)
      BY <1>3, <1>5, <2>3
    <3>2. Fresh(m)' => Fresh(m)
      BY <1>2, <3>1 DEF Fresh
    <3>3. Armed(m)' => Armed(m)
      BY <1>2, <1>10, <3>1 DEF Armed
    <3>4. AtWork(m)' => AtWork(m)
      <4> SUFFICES ASSUME AtWork(m)' PROVE AtWork(m)
        OBVIOUS
      <4> DEFINE l == work[job.by]
      <4>1. job.by \in Workers /\ Doing(l, m)' /\ l' = l
        BY <1>2 DEF AtWork
      <4>2. l.pc # "idle" => sent'[l.id] = sent[l.id]
        BY <1>0, <1>3, <4>1, RecordTypes
      <4>3. Doing(l, m)
        BY <3>1, <4>1, <4>2 DEF Doing, AlreadyNudged
      <4> QED BY <4>1, <4>3 DEF AtWork
    <3>5. Open(m)' => Open(m)
      BY <3>2, <3>3, <3>4 DEF Open
    <3> QED BY <1>0, <1>2, <1>10, <2>1, <3>5, PaidQuietly DEF NudgeInv, PaidInv, NoFault
  <2> QED BY <2>2, <2>3
<1>13. PaidInv'
  BY <1>12 DEF PaidInv
<1> QED BY <1>2, <1>6, <1>7, <1>8, <1>9, <1>11, <1>13, Together

LEMMA AgainNudges ==
  ASSUME NudgeInv, FollowupInv', RecordAgain
  PROVE  NudgeInv'
<1>0. FollowupInv
  BY DEF NudgeInv
<1>1. PICK x \in Recorded \ (calling \union repeated) :
        calling' = calling \union {x} /\ repeated' = repeated \union {x}
  BY DEF RecordAgain
<1>2. UNCHANGED <<now, sent, job, nudge, work, nudged>> /\ Fault
  BY DEF RecordAgain
<1>3. x \in Known(sent) /\ x \in Msgs /\ First' = First
  BY <1>1 DEF Recorded, Known, First
<1>4. TimesInv' /\ FirstStays
  BY <1>1, <1>2, <1>3 DEF NudgeInv, TimesInv, FirstStays
<1>5. RowStays /\ RowGoesOn
  BY <1>0, <1>2, SameRowStays, RowsGoOn
<1>6. AnchorInv'
  BY <1>0, <1>4, <1>5, AnchorStays DEF NudgeInv
<1>7. /\ Overtaken' = Overtaken
      /\ \A m \in Msgs : (Ending(m) => Ending(m)') /\ (AtWork(m)' => AtWork(m))
  BY <1>0, <1>2, NobodyMoves
<1>8. CountInv'
  BY <1>1, <1>7, FS_AddElement DEF NudgeInv, CountInv
<1>9. ASSUME NEW m \in Msgs PROVE Paid(m)'
  <2>1. Open(m)' => Open(m)
    BY <1>0, <1>2, <1>3, <1>5, <1>7, OpenStays DEF Open
  <2> QED BY <1>0, <1>1, <1>2, <1>3, <1>7, <2>1, PaidForRepeat DEF NudgeInv, PaidInv
<1>10. PaidInv'
  BY <1>9 DEF PaidInv
<1> QED BY <1>2, <1>4, <1>5, <1>6, <1>8, <1>10, Together

LEMMA CallNudges ==
  ASSUME NudgeInv, FollowupInv', ScheduleFollowup
  PROVE  NudgeInv'
<1>0. FollowupInv
  BY DEF NudgeInv
<1>1. PICK x \in calling :
        /\ calling' = calling \ {x}
        /\ \/ job' = Scheduled(job, sent[x], x) /\ nudge' = NudgeAfter(sent[x]) /\ NoFault
           \/ Fault /\ UNCHANGED <<job, nudge>>
  BY DEF ScheduleFollowup
<1>2. UNCHANGED <<now, sent, work, nudged, repeated>>
  BY DEF ScheduleFollowup
<1>3. x \in Known(sent) /\ x \in Msgs
  BY <1>0, ChatTypes
<1>4. FirstStays /\ TimesInv' /\ First' \subseteq First
  BY <1>1, <1>2, StillFirst, TimesStay DEF NudgeInv
<1>5. \A m \in Msgs : Again(m)' => Again(m)
  BY <1>1, <1>2 DEF Again
<1>6. CASE Fault /\ UNCHANGED <<job, nudge>>
  <2>1. RowStays /\ RowGoesOn
    BY <1>0, <1>6, SameRowStays, RowsGoOn
  <2>2. AnchorInv'
    BY <1>0, <1>4, <2>1, AnchorStays DEF NudgeInv
  <2>3. /\ Overtaken' = Overtaken
        /\ \A m \in Msgs : (Ending(m) => Ending(m)') /\ (AtWork(m)' => AtWork(m))
    BY <1>0, <1>2, <1>6, NobodyMoves
  <2>4. ASSUME NEW m \in Msgs PROVE Paid(m)'
    BY <1>0, <1>2, <1>5, <1>6, <2>3, PaidQuietly DEF NudgeInv, PaidInv
  <2>5. CountInv' /\ PaidInv'
    BY <1>2, <2>3, <2>4 DEF NudgeInv, CountInv, PaidInv
  <2> QED BY <1>2, <1>4, <2>1, <2>2, <2>5, Together
<1>7. CASE job' = Scheduled(job, sent[x], x) /\ nudge' = NudgeAfter(sent[x]) /\ NoFault
  <2>1. AnchorInv' /\ RowGoesOn /\ job'.by = job.by
    BY <1>2, <1>3, <1>4, <1>7, ScheduleNudges
  <2>2. /\ Overtaken' = Overtaken
        /\ \A m \in Msgs : (Ending(m) => Ending(m)') /\ (AtWork(m)' => AtWork(m))
    BY <1>0, <1>2, <2>1, NobodyMoves
  <2>3. ASSUME NEW m \in Msgs PROVE Paid(m)'
    <3>1. CASE m # x
      <4>1. Open(m)' => Open(m)
        BY <1>2, <1>3, <1>4, <1>7, <2>2, <3>1, OpensOnlyOne
      <4> QED BY <1>0, <1>2, <1>5, <1>7, <2>2, <4>1, PaidQuietly DEF NudgeInv, PaidInv
    <3>2. CASE m = x /\ x \in First
      <4>1. Open(m)
        BY <3>2 DEF Open, Fresh
      <4> QED BY <1>0, <1>2, <1>5, <1>7, <2>2, <4>1, PaidQuietly DEF NudgeInv, PaidInv
    <3>3. CASE m = x /\ x \notin First
      <4>1. Again(m) /\ ~Again(m)'
        BY <1>1, <3>3 DEF Again, First
      <4> QED BY <1>0, <1>2, <1>7, <2>2, <4>1, PaidByCall DEF NudgeInv, PaidInv, NoFault
    <3> QED BY <3>1, <3>2, <3>3
  <2>4. CountInv' /\ PaidInv'
    BY <1>2, <2>2, <2>3 DEF NudgeInv, CountInv, PaidInv
  <2> QED BY <1>2, <1>4, <2>1, <2>4, Together
<1> QED BY <1>1, <1>6, <1>7

\* The clock moves only when no call is to be made.
LEMMA TickNudges ==
  ASSUME NudgeInv, FollowupInv', Tick
  PROVE  NudgeInv'
<1>0. FollowupInv
  BY DEF NudgeInv
<1>1. /\ calling = {} /\ now' = NoLater(now + 1) /\ job' = Aged(job)
      /\ UNCHANGED <<sent, calling, nudge, work, nudged, repeated, faults>>
  BY DEF Tick
<1>2. First = {} /\ First' = {}
  BY <1>1 DEF First
<1>3. now' >= now
  BY <1>0, <1>1, JobsAssumption, SMT DEF FollowupInv, ChatInv, NoLater, JobsAssumption
<1>4. TimesInv'
  <2>1. ASSUME NEW m \in Msgs PROVE sent[m] <= now'
    <3>1. sent[m] <= now /\ sent[m] \in Nat /\ now \in Nat /\ now' \in Nat
      <4>1. now' \in Nat
        BY JobsAssumption, SMT DEF FollowupInv, ChatInv, JobsAssumption
      <4> QED BY <1>0, <4>1, ChatTypes DEF NudgeInv, TimesInv
    <3> QED BY <1>3, <3>1, SMT
  <2> QED BY <1>1, <1>2, <2>1 DEF NudgeInv, TimesInv
<1>5. FirstStays
  BY <1>1, <1>2 DEF FirstStays
<1>6. RowStays /\ job'.by = job.by /\ RowGoesOn
  <2>1. GoodRow(job, Workers, Msgs) /\ job \in JobRows(Workers, Msgs)
    BY <1>0, RowTypes DEF FollowupInv, RowInv
  <2>2. RowStays /\ job'.by = job.by
    BY <1>1, <2>1, AgedSays DEF RowStays
  <2> QED BY <1>0, <2>2, RowsGoOn
<1>7. AnchorInv'
  BY <1>0, <1>5, <1>6, AnchorStays DEF NudgeInv
<1>8. /\ Overtaken' = Overtaken
      /\ \A m \in Msgs : (Ending(m) => Ending(m)') /\ (AtWork(m)' => AtWork(m))
  BY <1>0, <1>1, <1>6, NobodyMoves
<1>9. ASSUME NEW m \in Msgs PROVE Paid(m)'
  <2>1. Open(m)' => Open(m)
    BY <1>0, <1>1, <1>2, <1>6, <1>8, OpenStays DEF Open
  <2>2. Again(m)' => Again(m)
    BY <1>1 DEF Again
  <2> QED BY <1>0, <1>1, <1>8, <2>1, <2>2, PaidQuietly DEF NudgeInv, PaidInv, NoFault
<1>10. CountInv' /\ PaidInv'
  BY <1>1, <1>8, <1>9 DEF NudgeInv, CountInv, PaidInv
<1> QED BY <1>1, <1>4, <1>5, <1>6, <1>7, <1>10, Together

LEMMA StartsUnnudged == Init => NudgeInv
<1> SUFFICES ASSUME Init PROVE NudgeInv
  OBVIOUS
<1>1. FollowupInv
  BY StartsWell
<1>2. /\ now = 1 /\ calling = {} /\ repeated = {} /\ faults = 0 /\ job = NoJob
      /\ work = [w \in Workers |-> Idle] /\ nudged = [m \in Msgs |-> 0]
      /\ sent = [m \in Msgs |-> 0]
  BY DEF Init
<1>3. First = {} /\ \A w \in Workers : work[w].pc = "idle"
  BY <1>2, SMT DEF First, Idle
<1>4. TimesInv
  BY <1>2, <1>3, SMT DEF TimesInv
<1>5. AnchorInv
  BY <1>2, <1>3, SMT DEF AnchorInv, NoJob
<1>6. KnowsInv
  BY <1>3 DEF KnowsInv, Knows
<1>7. Overtaken = {}
  BY <1>3 DEF Overtaken, BeforeSend
<1>8. CountInv
  BY <1>2, <1>7, FS_EmptySet DEF CountInv
<1>9. ASSUME NEW m \in Msgs PROVE Paid(m)
  <2>1. Cardinality(Overtaken) = 0 /\ Cardinality(repeated \ {m}) = 0
    BY <1>2, <1>7, FS_EmptySet
  <2>2. One(Again(m)) = 0 /\ One(Open(m)) \in {0, 1}
    BY <1>2 DEF One, Again
  <2>3. nudged[m] = 0 /\ faults = 0
    BY <1>2
  <2>4. nudged[m] + One(Open(m)) + One(Again(m))
          + Cardinality(Overtaken) + Cardinality(repeated \ {m}) <= 1 + faults
    BY <2>1, <2>2, <2>3, SMT
  <2> QED BY <2>4 DEF Paid
<1> QED BY <1>1, <1>4, <1>5, <1>6, <1>8, <1>9 DEF NudgeInv, PaidInv

\* A silence is nudged once, and again only by a fault for each time (a lost
\* answer, a crash, a slow worker, the message's event delivered again),
\* provided that events are recorded before their window is over.  Otherwise a
\* worker may put the job off to a message whose first schedule call is still
\* to be made, nudge for it at once, and lose that nudge to this call
\* (followup/service.py, schedule in group_chat_followup_v1.sql).
THEOREM OneNudgeForASilence ==
  ASSUME MaxDelay < Window
  PROVE  Spec => []NudgedOncePerSilence
<1>1. Init => NudgeInv
  BY StartsUnnudged
<1>2. NudgeInv /\ FollowupInv' /\ [Next]_vars => NudgeInv'
  <2> SUFFICES ASSUME NudgeInv, FollowupInv', [Next]_vars PROVE NudgeInv'
    OBVIOUS
  <2>1. CASE RecordInbound \/ RecordAgain \/ ScheduleFollowup \/ Tick
    BY <2>1, InboundNudges, AgainNudges, CallNudges, TickNudges
  <2>2. ASSUME NEW w \in Workers, Claim(w) \/ Step(w) \/ Crash(w) PROVE NudgeInv'
    BY <2>2, ClaimNudges, BeginNudges, ReadNudges, PutOffNudges, SendNudges, EndNudges
       DEF Step
  <2>3. CASE UNCHANGED vars
    BY <2>3 DEF vars, NudgeInv, TimesInv, AnchorInv, KnowsInv, Knows, CountInv, PaidInv,
       Paid, Open, Fresh, Armed, Ending, AtWork, Doing, AlreadyNudged, Again, Overtaken,
       First, Known
  <2> QED BY <2>1, <2>2, <2>3 DEF Next
<1>3. NudgeInv => NudgedOncePerSilence
  BY PaidSays
<1> QED BY <1>1, <1>2, <1>3, FollowupIsCorrect, PTL DEF Spec
==============================================================================
