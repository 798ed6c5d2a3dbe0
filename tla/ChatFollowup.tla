----------------------------- MODULE ChatFollowup -----------------------------
(* The nudge one group chat gets once its users have been silent for a       *)
(* window: the recorder moves the job with every message of a user, in a     *)
(* call that follows the one that stores the message, and a worker that      *)
(* claims the due job reads the chat, has the model write the nudge, sends   *)
(* it and completes the job.  groupchat/followup/service.py,                 *)
(* groupchat/io/ and migrations/group_chat_followup_v1.sql.                  *)
EXTENDS ChatJobs, FiniteSets

CONSTANTS
  Msgs,          \* messages of users, numbered in the order they arrive in
  Workers,
  MaxDelay,      \* bound: time between sending and recording a message
  MaxFaults      \* bound: failed calls, crashes, takeovers from a live
                 \* worker and events delivered again

ASSUME FollowupAssumption ==
  /\ Msgs \subseteq Nat \ {NoMsg} /\ Nobody \notin Workers
  /\ {MaxDelay, MaxFaults} \subseteq Nat

VARIABLES
  now,
  sent,          \* when each message was sent; 0 when it was not recorded yet
  calling,       \* recorded messages whose schedule call is still to be made
  job,           \* group_chat_followup_jobs_v1
  nudge,         \* its last_nudge_at; 0 is null
  work,          \* what each worker does and has read
  nudged,        \* history: how often a nudge for each message was delivered
  skipped,       \* history: the chat was missing or muted for this anchor
  unheard,       \* history: messages that a nudge should have waited for
  lost,          \* history: messages whose schedule call failed
  repeated,      \* history: messages whose event arrived twice
  faults

vars == <<now, sent, calling, job, nudge, work, nudged, skipped, unheard, lost, repeated, faults>>

Latest == Horizon - Window      \* bound: no message is sent later than this

Idle == [pc |-> "idle", id |-> NoMsg, due |-> 0, nudge |-> 0, at |-> 0, heard |-> {}]
Pcs  == {"idle", "claimed", "read", "asking", "complete", "failing", "newer", "release"}

Fault   == faults < MaxFaults /\ faults' = faults + 1
NoFault == UNCHANGED faults

Recorded == {m \in Msgs : sent[m] # 0}

Init ==
  /\ now     = 1
  /\ sent    = [m \in Msgs |-> 0]
  /\ calling = {}
  /\ job     = NoJob
  /\ nudge   = 0
  /\ work    = [w \in Workers |-> Idle]
  /\ nudged  = [m \in Msgs |-> 0]
  /\ skipped = {}
  /\ unheard = {}
  /\ lost    = {}
  /\ repeated = {}
  /\ faults  = 0
------------------------------------------------------------------------------
(* The recorder. *)

SendTimes == {t \in 1 .. now : t + MaxDelay >= now /\ t <= Latest}

\* record_inbound stores the message ...
RecordInbound ==
  \E m \in Msgs \ Recorded, t \in SendTimes :
    /\ \A n \in Msgs : n < m => sent[n] # 0
    /\ sent'    = [sent EXCEPT ![m] = t]
    /\ calling' = calling \union {m}
    /\ UNCHANGED <<now, job, nudge, work, nudged, skipped, unheard, lost, repeated, faults>>

\* The same event arrives a second time.
RecordAgain ==
  \E m \in Recorded \ (calling \union repeated) :
    /\ Fault
    /\ repeated' = repeated \union {m}
    /\ calling' = calling \union {m}
    /\ UNCHANGED <<now, sent, job, nudge, work, nudged, skipped, unheard, lost>>

NudgeAfter_AlwaysCleared(t) == 0

\* A message that becomes the anchor clears the nudge of the one before.
NudgeAfter(t) == IF Moves(job, t) THEN 0 ELSE nudge

\* ... and then schedules the follow-up, in a second call whose failure the
\* client swallows.
ScheduleFollowup ==
  \E m \in calling :
    /\ calling' = calling \ {m}
    /\ \/ job' = Scheduled(job, sent[m], m) /\ nudge' = NudgeAfter(sent[m])
          /\ NoFault /\ UNCHANGED lost
       \/ Fault /\ lost' = lost \union {m} /\ UNCHANGED <<job, nudge>>
    /\ UNCHANGED <<now, sent, work, nudged, skipped, unheard, repeated>>
------------------------------------------------------------------------------
(* A worker. *)

Goto(w, pc) == work' = [work EXCEPT ![w].pc = pc]
Done(w)     == work' = [work EXCEPT ![w] = Idle]

\* The worker that holds the job is still at it.
Held == job.status = "running" /\ job.by # Nobody /\ work[job.by].pc # "idle"

\* A worker that outlives its claim counts as a fault.
Claim(w) ==
  /\ work[w].pc = "idle"
  /\ Claimable(job, now)
  /\ job'  = Claimed(job, w)
  /\ work' = [work EXCEPT ![w] = [Idle EXCEPT !.pc = "claimed", !.id = job.id,
                                    !.due = job.due, !.nudge = nudge,
                                    !.heard = Recorded]]
  /\ IF Held THEN Fault ELSE NoFault
  /\ UNCHANGED <<now, sent, calling, nudge, nudged, skipped, unheard, lost, repeated>>

AlreadyNudged(l) == l.nudge # 0 /\ l.nudge >= sent[l.id]

\* An anchor that has its nudge only needs completing, a job that was moved
\* while its claim got stale waits, and a chat that is missing or muted gets
\* the word of having been nudged.
Begin(w) ==
  LET l == work[w] IN
  /\ l.pc = "claimed"
  /\ CASE AlreadyNudged(l) ->
            /\ work' = [work EXCEPT ![w].pc = "complete", ![w].at = l.nudge]
            /\ UNCHANGED skipped
       [] ~AlreadyNudged(l) /\ l.due > now -> Goto(w, "release") /\ UNCHANGED skipped
       [] OTHER ->
            \/ work' = [work EXCEPT ![w].pc = "read", ![w].at = now] /\ UNCHANGED skipped
            \/ /\ work' = [work EXCEPT ![w].pc = "complete", ![w].at = now]
               /\ skipped' = skipped \union {l.id}
  /\ UNCHANGED <<now, sent, calling, job, nudge, nudged, unheard, lost, repeated, faults>>

\* The newest message of the chat: the first of those sent last.
Newest(m) ==
  \A n \in Recorded : sent[n] < sent[m] \/ (sent[n] = sent[m] /\ m <= n)

HasNewer_Never(id) == FALSE

HasNewer(id) == \E m \in Recorded : sent[m] > sent[id]

\* A failed read is taken for a chat without messages, and a chat without a
\* summary fails the job.
ReadChat(w) ==
  LET l == work[w] IN
  /\ l.pc = "read"
  /\ \/ /\ HasNewer(l.id) /\ NoFault
        /\ \E m \in Recorded :
             Newest(m) /\ work' = [work EXCEPT ![w].pc = "newer", ![w].id = m]
     \/ ~HasNewer(l.id) /\ NoFault /\ (Goto(w, "asking") \/ Goto(w, "failing"))
     \/ Fault /\ work' = [work EXCEPT ![w].pc = "asking", ![w].heard = {}]
  /\ UNCHANGED <<now, sent, calling, job, nudge, nudged, skipped, unheard, lost, repeated>>

\* Reschedule to the newest message, then release; either call may fail
\* without the worker noticing.
PutOff(w) ==
  LET m == work[w].id IN
  /\ work[w].pc = "newer"
  /\ \/ job' = Scheduled(job, sent[m], m) /\ nudge' = NudgeAfter(sent[m]) /\ NoFault
     \/ Fault /\ UNCHANGED <<job, nudge>>
  /\ Goto(w, "release")
  /\ UNCHANGED <<now, sent, calling, nudged, skipped, unheard, lost, repeated>>

Release(w) ==
  /\ work[w].pc = "release"
  /\ \/ job' = Released(job, w) /\ NoFault
     \/ Fault /\ UNCHANGED job
  /\ Done(w)
  /\ UNCHANGED <<now, sent, calling, nudge, nudged, skipped, unheard, lost, repeated>>

\* The model and the send: neither may succeed, and the send may also raise
\* after the nudge was delivered.
SendNudge(w) ==
  LET l == work[w] IN
  /\ l.pc = "asking"
  /\ \/ /\ nudged'  = [nudged EXCEPT ![l.id] = @ + 1]
        /\ unheard' = unheard \union {m \in l.heard : sent[m] > sent[l.id]}
        /\ \/ NoFault /\ Goto(w, "complete")
           \/ Fault /\ Goto(w, "failing")
     \/ Fault /\ Goto(w, "failing") /\ UNCHANGED <<nudged, unheard>>
  /\ UNCHANGED <<now, sent, calling, job, nudge, skipped, lost, repeated>>

\* The nudge is stored only with the anchor it was sent for; a completion
\* that fails releases the job.
Complete(w) ==
  LET l == work[w] IN
  /\ l.pc = "complete"
  /\ \/ /\ job'   = Completed(job, w, l.id)
        /\ nudge' = IF job.by = w /\ job.id = l.id THEN l.at ELSE nudge
        /\ NoFault
     \/ job' = Released(job, w) /\ Fault /\ UNCHANGED nudge
  /\ Done(w)
  /\ UNCHANGED <<now, sent, calling, nudged, skipped, unheard, lost, repeated>>

Fail(w) ==
  /\ work[w].pc = "failing"
  /\ \/ job' = Failed(job, w, work[w].id, now) /\ NoFault
     \/ job' = Released(job, w) /\ Fault
  /\ Done(w)
  /\ UNCHANGED <<now, sent, calling, nudge, nudged, skipped, unheard, lost, repeated>>

\* The process ends and is started again; its claim stays until it is stale.
Crash(w) ==
  /\ work[w].pc # "idle"
  /\ Fault
  /\ Done(w)
  /\ UNCHANGED <<now, sent, calling, job, nudge, nudged, skipped, unheard, lost, repeated>>

\* The recorder's two calls block its event loop and take no time.
Tick ==
  /\ calling = {}
  /\ now < Horizon \/ Aged(job) # job
  /\ now' = NoLater(now + 1)
  /\ job' = Aged(job)
  /\ UNCHANGED <<sent, calling, nudge, work, nudged, skipped, unheard, lost, repeated, faults>>

Step(w) == Begin(w) \/ ReadChat(w) \/ PutOff(w) \/ Release(w) \/ SendNudge(w)
           \/ Complete(w) \/ Fail(w)

Next ==
  \/ RecordInbound \/ RecordAgain \/ ScheduleFollowup \/ Tick
  \/ \E w \in Workers : Claim(w) \/ Step(w) \/ Crash(w)

\* A call that was begun is made, the event loop of a worker that runs goes
\* on, its loop polls for jobs without end, and time passes.
Spec == Init /\ [][Next]_vars /\ WF_vars(Tick) /\ WF_vars(ScheduleFollowup)
             /\ \A w \in Workers : WF_vars(Step(w)) /\ WF_vars(Claim(w))
------------------------------------------------------------------------------
(* Properties. *)

TypeOK ==
  /\ now \in 1 .. Horizon
  /\ sent \in [Msgs -> 0 .. Horizon]
  /\ calling \subseteq Recorded
  /\ job \in JobRows(Workers, Msgs) /\ ClaimIsKnown(job)
  /\ nudge \in 0 .. Horizon
  /\ work \in [Workers -> [pc: Pcs, id: Msgs \union {NoMsg}, due: 0 .. Horizon,
                           nudge: 0 .. Horizon, at: 0 .. Horizon, heard: SUBSET Msgs]]
  /\ nudged \in [Msgs -> Nat]
  /\ skipped \union unheard \union lost \union repeated \subseteq Msgs
  /\ faults \in 0 .. MaxFaults

\* A chat is nudged once for the message that began its silence: every
\* further nudge for it takes a fault of its own (a lost answer, a crash, a
\* slow worker, that message's event delivered again); an older message that
\* is delivered again revives the job but brings no second nudge.
NudgedOncePerSilence ==
  \A m \in Msgs : nudged[m] <= 1 + faults - Cardinality(repeated \ {m})

\* A job that is done, or that remembers a nudge, was nudged or skipped for
\* its very anchor: no worker ends the job of a message it did not see.
DoneMeansNudged ==
  job.status = "done" \/ nudge # 0 => nudged[job.id] > 0 \/ job.id \in skipped

\* A chat is never nudged for its silence when a user's newer message was
\* stored before the job was claimed, unless the chat could not be read.
NudgedInSilence == unheard = {}

\* Every message that got its job is followed by a nudge for it or for a
\* newer one, or by a skip, or by a job that gives up.
EverySilenceEnds ==
  \A m \in Msgs :
    sent[m] # 0 ~> \/ m \in lost \/ job.status = "failed"
                   \/ \E n \in Msgs : sent[n] >= sent[m] /\ (nudged[n] > 0 \/ n \in skipped)
==============================================================================
