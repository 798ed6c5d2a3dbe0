------------------------------- MODULE ChatJobs -------------------------------
(* The row of a debounced per-chat job: one row for each chat, moved forward *)
(* by every message of a user, run once the chat has been silent for Window, *)
(* claimed by one of several workers.  The operators are the SQL functions   *)
(* of migrations/group_chat_summary_v1.sql; those of                         *)
(* group_chat_followup_v1.sql are the same but for the nudge columns.        *)
(* Time is counted in units longer than the second by which the workers      *)
(* tolerate two anchors to differ, and stops at Horizon, when everything     *)
(* that was put off is due.                                                  *)
EXTENDS Naturals

CONSTANTS
  Window,        \* inactivity window
  StaleAfter,    \* age at which a claim may be taken over
  Backoff,       \* added before the next attempt
  MaxAttempts,
  Horizon,       \* bound: the time the clock stops at
  Nobody         \* claimed_by is null

ASSUME JobsAssumption ==
  /\ Window \in Nat \ {0} /\ StaleAfter \in Nat \ {0} /\ Backoff \in Nat
  /\ MaxAttempts \in Nat \ {0} /\ Horizon \in Nat \ {0}

NoMsg == 0

\* The job of a chat that no user has written in has no row.
NoJob == [status |-> "none", at |-> 0, id |-> NoMsg, due |-> 0,
          attempts |-> 0, by |-> Nobody, age |-> 0]

JobRows(Workers, Ids) ==
  [status: {"none", "queued", "running", "done", "failed"}, at: 0 .. Horizon,
   id: Ids \union {NoMsg}, due: 0 .. Horizon, attempts: Nat,
   by: Workers \union {Nobody}, age: 0 .. StaleAfter]

\* A row that is claimed is running, and only such a row is.
ClaimIsKnown(job) == job.status = "running" <=> job.by # Nobody

NoLater(t) == IF t < Horizon THEN t ELSE Horizon

\* Does a message sent at t move the anchor of the job?
Moves(job, t) == job.status = "none" \/ t >= job.at

Scheduled_AlwaysQueued(job, t, id) ==
  IF Moves(job, t)
  THEN [job EXCEPT !.status = "queued", !.at = t, !.id = id, !.due = t + Window,
                   !.attempts = 0]
  ELSE [job EXCEPT !.status = "queued"]

\* schedule: only a message that is not older than the anchor becomes the
\* anchor, and it clears the backoff; any message revives a finished job.
Scheduled(job, t, id) ==
  LET revived == [job EXCEPT !.status = IF @ = "running" THEN @ ELSE "queued"]
  IN  IF Moves(job, t)
      THEN [revived EXCEPT !.at = t, !.id = id, !.due = t + Window, !.attempts = 0]
      ELSE revived

Claimable_NeverStale(job, now) == job.status = "queued" /\ job.due <= now

\* claim: what is queued and due, and what runs under a stale claim.
Claimable(job, now) ==
  \/ job.status = "queued" /\ job.due <= now
       /\ (job.by = Nobody \/ job.age >= StaleAfter)
  \/ job.status = "running" /\ job.age >= StaleAfter

Claimed(job, w) == [job EXCEPT !.status = "running", !.by = w, !.age = 0]

Freed(job, status, attempts, due) ==
  [job EXCEPT !.status = status, !.by = Nobody, !.age = 0,
              !.attempts = attempts, !.due = due]

Requeued(job) == Freed(job, "queued", job.attempts, job.due)

\* Only the worker that holds the claim changes the row.
Released(job, w) == IF job.by = w THEN Requeued(job) ELSE job

Completed_IgnoresAnchor(job, w, id) ==
  IF job.by # w THEN job ELSE Freed(job, "done", job.attempts, job.due)

\* complete: a job whose anchor moved meanwhile is queued again.
Completed(job, w, id) ==
  CASE job.by # w                  -> job
    [] job.by = w /\ job.id = id  -> Freed(job, "done", 0, job.due)
    [] OTHER                       -> Requeued(job)

Retried(job, now) ==
  LET later == NoLater(now + Backoff) IN
  Freed(job, IF job.attempts + 1 >= MaxAttempts THEN "failed" ELSE "queued",
        job.attempts + 1, IF job.due >= later THEN job.due ELSE later)

\* fail: a job whose anchor moved meanwhile keeps its attempts and due time.
Failed(job, w, id, now) ==
  CASE job.by # w                  -> job
    [] job.by = w /\ job.id # id  -> Requeued(job)
    [] OTHER                       -> Retried(job, now)

\* A claim ages with the clock.
Aged(job) == [job EXCEPT !.age = IF job.by # Nobody /\ @ < StaleAfter THEN @ + 1 ELSE @]
==============================================================================
