------------------------------- MODULE Outreach -------------------------------
(* Proactive outreach to one user: a worker that claims the user's due job   *)
(* has the model rank topics, takes the first one that was not suggested     *)
(* recently and has a match that was not either, creates the connection      *)
(* requests, sends the suggestion, stores the task that waits for the        *)
(* answer, tracks the suggestion and completes the job.                      *)
(* proactive/outreach/service.py and duplicate_checker.py.  All of it        *)
(* happens within the cooldown, so that no tracked suggestion gets too old.  *)
EXTENDS UserJobs

CONSTANTS
  Topics,        \* purposes, equal when is_semantic_duplicate says so
  Targets,       \* people the matcher may find
  Workers,
  MaxRuns,       \* bound: calls of schedule
  MaxFaults      \* bound: failed calls, crashes, takeovers from a live worker

ASSUME OutreachAssumption ==
  /\ MaxRuns \in Nat /\ MaxFaults \in Nat
  /\ Nobody \notin Workers

VARIABLES
  now,
  job,           \* proactive_outreach_jobs
  requests,      \* connection_requests: how many each target was asked for
  tracked,       \* proactive_outreach_tracking: topics and first targets
  tasks,         \* task_state: topics whose answer is waited for
  work,          \* what each worker does
  runs,          \* history: how often the job was scheduled
  messages,      \* history: how many suggestions the user got
  offered,       \* history: how often each topic was suggested to the user
  first,         \* history: how often each target was suggested first
  faults

rows == <<requests, tracked, tasks>>
hist == <<runs, messages, offered, first>>
vars == <<now, job, rows, work, hist, faults>>

Idle == [pc |-> "idle", todo |-> {}, topic |-> Nobody, found |-> {}, first |-> Nobody]
Pcs  == {"idle", "claimed", "ranked", "matching", "creating", "sending", "sent",
         "waiting", "complete", "skipping", "failing", "release"}

Fault   == faults < MaxFaults /\ faults' = faults + 1
NoFault == UNCHANGED faults

Init ==
  /\ now      = 1
  /\ job      = NoJob
  /\ requests = [u \in Targets |-> 0]
  /\ tracked  = [topics |-> {}, targets |-> {}]
  /\ tasks    = {}
  /\ work     = [w \in Workers |-> Idle]
  /\ runs     = 0
  /\ messages = 0
  /\ offered  = [t \in Topics |-> 0]
  /\ first    = [u \in Targets |-> 0]
  /\ faults   = 0

Goto(w, pc) == work' = [work EXCEPT ![w].pc = pc]
Done(w)     == work' = [work EXCEPT ![w] = Idle]
------------------------------------------------------------------------------
\* The onboarding executor schedules the job of a user with connected email,
\* for the next time of day at which it runs or an interval later.
Schedule ==
  /\ runs < MaxRuns
  /\ runs' = runs + 1
  /\ \E d \in 1 .. Interval : job' = Scheduled(job, NoLater(now + d))
  /\ UNCHANGED <<now, rows, work, messages, offered, first, faults>>

\* The worker that holds the job is still at it.
Held == job.status = "running" /\ job.by # Nobody /\ work[job.by].pc # "idle"

\* A worker that outlives its claim counts as a fault.
Claim(w) ==
  /\ work[w].pc = "idle"
  /\ Claimable(job, now)
  /\ job' = Claimed(job, w)
  /\ Goto(w, "claimed")
  /\ IF Held THEN Fault ELSE NoFault
  /\ UNCHANGED <<now, rows, hist>>

\* A user that is gone, not onboarded, without email or opted out, and one for
\* whom the model finds or ranks no topic, is skipped.  What raises on the
\* way fails the job.
Consider(w) ==
  /\ work[w].pc = "claimed"
  /\ \/ Goto(w, "skipping") /\ NoFault
     \/ \E S \in SUBSET Topics \ {{}} :
          work' = [work EXCEPT ![w].pc = "ranked", ![w].todo = S] /\ NoFault
     \/ Fault /\ Goto(w, "failing")
  /\ UNCHANGED <<now, job, rows, hist>>

RecentTopic_Never(t) == FALSE

\* check_duplicate_outreach for a topic.
RecentTopic(t) == t \in tracked.topics

\* The ranked topics one after the other; a check that fails lets the topic
\* pass.
TryTopic(w) ==
  LET l == work[w] IN
  /\ l.pc = "ranked"
  /\ \/ l.todo = {} /\ NoFault /\ Goto(w, "skipping")
     \/ \E t \in l.todo :
          LET next == [l EXCEPT !.todo = @ \ {t}] IN
          \/ /\ NoFault
             /\ work' = [work EXCEPT ![w] =
                           IF RecentTopic(t) THEN next
                           ELSE [next EXCEPT !.pc = "matching", !.topic = t]]
          \/ /\ RecentTopic(t) /\ Fault
             /\ work' = [work EXCEPT ![w] = [next EXCEPT !.pc = "matching", !.topic = t]]
  /\ UNCHANGED <<now, job, rows, hist>>

\* check_duplicate_outreach for a target.
RecentTarget(u) == u \in tracked.targets

\* find_match, once or for a group: nobody, or people who were not suggested
\* recently; a check that fails lets a person pass.  The topic was checked
\* when it was tried and is checked again with each target.
FindMatch(w) ==
  LET l == work[w] IN
  /\ l.pc = "matching"
  /\ \/ Goto(w, "ranked") /\ NoFault
     \/ \E S \in SUBSET Targets : \E u \in S :
          /\ IF RecentTopic(l.topic) \/ \E v \in S : RecentTarget(v) THEN Fault ELSE NoFault
          /\ work' = [work EXCEPT ![w].pc = "creating", ![w].found = S, ![w].first = u]
  /\ UNCHANGED <<now, job, rows, hist>>

\* One request for each target; the failed ones are passed over, and if all
\* of them failed the job fails.
CreateRequests(w) ==
  LET l == work[w] IN
  /\ l.pc = "creating"
  /\ \E made \in SUBSET l.found :
       /\ IF made = l.found THEN NoFault ELSE Fault
       /\ requests' = [u \in Targets |-> requests[u] + IF u \in made THEN 1 ELSE 0]
       /\ Goto(w, IF made = {} THEN "failing" ELSE "sending")
  /\ UNCHANGED <<now, job, tracked, tasks, hist>>

\* send_message: it may fail, and also raise after the message was delivered.
Send(w) ==
  LET l == work[w] IN
  /\ l.pc = "sending"
  /\ \/ /\ messages' = messages + 1
        /\ offered' = [offered EXCEPT ![l.topic] = @ + 1]
        /\ first'   = [first EXCEPT ![l.first] = @ + 1]
        /\ \/ NoFault /\ Goto(w, "sent")
           \/ Fault /\ Goto(w, "failing")
     \/ Fault /\ Goto(w, "failing") /\ UNCHANGED <<messages, offered, first>>
  /\ UNCHANGED <<now, job, rows, runs>>

\* The task that routes the user's answer; a failure is swallowed.
SaveTask(w) ==
  /\ work[w].pc = "sent"
  /\ \/ tasks' = tasks \union {work[w].topic} /\ NoFault
     \/ Fault /\ UNCHANGED tasks
  /\ Goto(w, "waiting")
  /\ UNCHANGED <<now, job, requests, tracked, hist>>

\* The suggestion is tracked under its topic and its first target; a failure
\* is swallowed.
Track(w) ==
  LET l == work[w] IN
  /\ l.pc = "waiting"
  /\ \/ tracked' = [topics  |-> tracked.topics \union {l.topic},
                    targets |-> tracked.targets \union {l.first}] /\ NoFault
     \/ Fault /\ UNCHANGED tracked
  /\ Goto(w, "complete")
  /\ UNCHANGED <<now, job, requests, tasks, hist>>

\* A call that fails leaves the job to get stale.
Finish(w, pc, status) ==
  /\ work[w].pc = pc
  /\ \/ job' = Ended(job, w, status, now) /\ NoFault
     \/ Fault /\ UNCHANGED job
  /\ Done(w)
  /\ UNCHANGED <<now, rows, hist>>

Complete(w) == Finish(w, "complete", "done")
Skip(w)     == Finish(w, "skipping", "skipped")

\* A failure that is not stored, since the call fails or the claim is another's,
\* releases the job.  Neither call counts as a fault: it needs one before it.
Fail(w) ==
  /\ work[w].pc = "failing"
  /\ \/ job.by = w /\ job' = Failed(job, w, now) /\ Done(w)
     \/ Goto(w, "release") /\ UNCHANGED job
  /\ NoFault
  /\ UNCHANGED <<now, rows, hist>>

Release(w) ==
  /\ work[w].pc = "release"
  /\ job' \in {Released(job, w), job}
  /\ NoFault
  /\ Done(w)
  /\ UNCHANGED <<now, rows, hist>>

\* The process ends and is started again; its claim stays until it is stale.
Crash(w) ==
  /\ work[w].pc # "idle"
  /\ Fault
  /\ Done(w)
  /\ UNCHANGED <<now, job, rows, hist>>

Tick ==
  /\ now < Horizon \/ Aged(job) # job
  /\ now' = NoLater(now + 1)
  /\ job' = Aged(job)
  /\ UNCHANGED <<rows, work, hist, faults>>

Step(w) == Consider(w) \/ TryTopic(w) \/ FindMatch(w) \/ CreateRequests(w)
           \/ Send(w) \/ SaveTask(w) \/ Track(w) \/ Complete(w) \/ Skip(w)
           \/ Fail(w) \/ Release(w)

Next ==
  \/ Schedule \/ Tick
  \/ \E w \in Workers : Claim(w) \/ Step(w) \/ Crash(w)

\* The event loop of a worker that runs goes on, its loop polls for jobs
\* without end, and time passes.
Spec == Init /\ [][Next]_vars /\ WF_vars(Tick)
             /\ \A w \in Workers : WF_vars(Step(w)) /\ WF_vars(Claim(w))
------------------------------------------------------------------------------
(* Properties. *)

TypeOK ==
  /\ now \in 1 .. Horizon
  /\ job \in JobRows(Workers) /\ ClaimIsKnown(job)
  /\ requests \in [Targets -> Nat]
  /\ tracked \in [topics: SUBSET Topics, targets: SUBSET Targets]
  /\ tasks \subseteq Topics
  /\ work \in [Workers -> [pc: Pcs, todo: SUBSET Topics, topic: Topics \union {Nobody},
                           found: SUBSET Targets, first: Targets \union {Nobody}]]
  /\ runs \in 0 .. MaxRuns
  /\ messages \in Nat /\ offered \in [Topics -> Nat] /\ first \in [Targets -> Nat]
  /\ faults \in 0 .. MaxFaults

\* Within the cooldown no topic is suggested twice and no person is suggested
\* first twice, and a run brings the user one message and nobody more than one
\* request, although the requests are made before the suggestion is sent, and
\* this before it is tracked and its job is completed: every further one takes a
\* fault of its own, whether it falls on the send, the tracking, the check or
\* the claim.
NothingTwice ==
  /\ \A t \in Topics : offered[t] <= 1 + faults
  /\ \A u \in Targets : first[u] <= 1 + faults
  /\ messages <= runs + faults
  /\ \A u \in Targets : requests[u] <= runs + faults

\* A job that is scheduled is done, skipped or given up in the end, although
\* calls fail, answers get lost and workers die.
JobEnds == job.status = "queued" ~> job.status \in {"done", "skipped", "failed"}

\* A job that is done or skipped is run again when its next run is due
\* ("schedule next run", proactive_outreach_interval_days.sql:52).
NextRunComes ==
  job.status \in {"done", "skipped"} /\ job.due <= now ~> job.status = "running"
==============================================================================
