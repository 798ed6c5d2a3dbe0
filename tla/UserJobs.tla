------------------------------- MODULE UserJobs -------------------------------
(* The row of a recurring job of one user: scheduled when the user has       *)
(* finished onboarding, claimed by one of several workers when it is due,    *)
(* and given its next due time when it is done or skipped.  The operators    *)
(* are the SQL functions of migrations/proactive_outreach_jobs_v2.sql and    *)
(* proactive_outreach_interval_days.sql; those of daily_email_jobs.sql are   *)
(* the same but for the skip.                                                *)
(* Time is counted in units of a claim's lifetime and stops at Horizon, when *)
(* everything that was put off is due.                                       *)
EXTENDS Naturals

CONSTANTS
  Interval,      \* time until the next run
  StaleAfter,    \* age at which a claim may be taken over
  Backoff,       \* added before the next attempt
  MaxAttempts,
  Horizon,       \* bound: the time the clock stops at
  Nobody         \* claimed_by is null

ASSUME UserJobsAssumption ==
  /\ Interval \in Nat \ {0} /\ StaleAfter \in Nat \ {0} /\ Backoff \in Nat
  /\ MaxAttempts \in Nat \ {0} /\ Horizon \in Nat \ {0}

\* A user who has not finished onboarding has no row.
NoJob == [status |-> "none", due |-> 0, attempts |-> 0, by |-> Nobody, age |-> 0]

JobRows(Workers) ==
  [status: {"none", "queued", "running", "done", "skipped", "failed"},
   due: 0 .. Horizon, attempts: Nat, by: Workers \union {Nobody},
   age: 0 .. StaleAfter]

\* A row that is claimed is running, and only such a row is.
ClaimIsKnown(job) == job.status = "running" <=> job.by # Nobody

NoLater(t) == IF t < Horizon THEN t ELSE Horizon

Scheduled_Interrupting(job, due) == [job EXCEPT !.status = "queued", !.due = due]

\* schedule: a running job is not interrupted.
Scheduled(job, due) ==
  IF job.status = "running" THEN job
  ELSE [job EXCEPT !.status = "queued", !.due = due]

Claimable_NeverStale(job, now) == job.status = "queued" /\ job.due <= now

\* claim: what is queued and due, and what runs under a stale claim.
Claimable(job, now) ==
  \/ job.status = "queued" /\ job.due <= now
  \/ job.status = "running" /\ job.age >= StaleAfter

Claimed(job, w) == [job EXCEPT !.status = "running", !.by = w, !.age = 0]

Freed(job, status, attempts, due) ==
  [job EXCEPT !.status = status, !.by = Nobody, !.age = 0,
              !.attempts = attempts, !.due = due]

\* Only the worker that holds the claim changes the row.
Released(job, w) ==
  IF job.by = w THEN Freed(job, "queued", job.attempts, job.due) ELSE job

\* complete and skip: the run is over and the next one has its time.
Ended(job, w, status, now) ==
  IF job.by = w THEN Freed(job, status, 0, NoLater(now + Interval)) ELSE job

\* fail: the job waits for its next attempt, if it has one.
Failed(job, w, now) ==
  LET later == NoLater(now + Backoff) IN
  IF job.by # w THEN job
  ELSE Freed(job, IF job.attempts + 1 >= MaxAttempts THEN "failed" ELSE "queued",
             job.attempts + 1, IF job.due >= later THEN job.due ELSE later)

\* A claim ages with the clock.
Aged(job) == [job EXCEPT !.age = IF job.by # Nobody /\ @ < StaleAfter THEN @ + 1 ELSE @]
==============================================================================
