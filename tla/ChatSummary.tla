----------------------------- MODULE ChatSummary ------------------------------
(* The transcript of one group chat and the workers that summarise it:       *)
(* messages are appended to a bounded raw row, and once the chat is silent   *)
(* one worker reads them, has the model write the summary of the segment,    *)
(* stores it, prunes the raw row and completes the job.  Chats share nothing *)
(* but the workers.  groupchat/io/recorder.py, groupchat/summary/worker.py   *)
(* and migrations/group_chat_summary_v1.sql.                                 *)
EXTENDS ChatJobs, FiniteSets, Sequences, SequencesExt

CONSTANTS
  UserMsgs,      \* messages of users, numbered
  OwnMsgs,       \* messages Frank sends, numbered
  Workers,
  KeepLast,      \* RAW_KEEP_LAST_N
  KeepTail,      \* messages kept before the boundary of a prune
  ReadLimit,     \* messages a worker reads
  MaxLines,      \* transcript lines given to the model
  MaxDelay,      \* bound: time between sending and recording a message
  MaxFaults      \* bound: failed calls, crashes, takeovers from a live
                 \* worker and events delivered again

ASSUME SummaryAssumption ==
  /\ UserMsgs \subseteq Nat \ {NoMsg} /\ OwnMsgs \subseteq Nat \ {NoMsg}
  /\ UserMsgs \intersect OwnMsgs = {} /\ Nobody \notin Workers
  /\ {KeepLast, KeepTail, ReadLimit, MaxLines, MaxDelay, MaxFaults} \subseteq Nat
  /\ MaxLines > 0 /\ ReadLimit >= MaxLines /\ KeepLast >= ReadLimit

VARIABLES
  now,
  sent,          \* when each message was sent; 0 when it was not recorded yet
  raw,           \* group_chat_raw_memory_v1: the messages kept, oldest first
  job,           \* group_chat_summary_jobs
  end,           \* last_segment_end_at; 0 before the first segment
  segments,      \* group_chat_summary_memory_v1: anchor and what was summarised
  work,          \* what each worker does and has read
  closed,        \* history: the latest end of a segment that a worker has read
  missed,        \* history: recorded too late for a segment, dropped by KeepLast
                 \* or out of the reach of a read
  shared,        \* history: a claim was taken over, or the memory not read
  faults

store == <<raw, job, end, segments>>
vars  == <<now, sent, store, work, closed, missed, shared, faults>>

Msgs   == UserMsgs \union OwnMsgs
Ids    == UserMsgs
Latest == Horizon - Window      \* bound: no message is sent later than this

Idle == [pc |-> "idle", id |-> NoMsg, due |-> 0, read |-> <<>>, lines |-> {}]
Pcs  == {"idle", "claimed", "read", "asking", "stored", "complete",
         "failing", "newer", "release"}

\* The anchors that have a stored segment.
StoredIds == {segments[i].id : i \in DOMAIN segments}
Summarised == UNION {segments[i].msgs : i \in DOMAIN segments}

MayFail == faults < MaxFaults
Fault   == MayFail /\ faults' = faults + 1
NoFault == UNCHANGED faults

Init ==
  /\ now      = 1
  /\ sent     = [m \in Msgs |-> 0]
  /\ raw      = <<>>
  /\ job      = NoJob
  /\ end      = 0
  /\ segments = <<>>
  /\ work     = [w \in Workers |-> Idle]
  /\ closed   = 0
  /\ missed     = {}
  /\ shared   = FALSE
  /\ faults   = 0
------------------------------------------------------------------------------
(* The recorder. *)

Appended_Unbounded(s, m) == IF Contains(s, m) THEN s ELSE Append(s, m)

\* append_group_chat_raw_message_v1: a message that is still there is not
\* appended again, and only the last KeepLast messages stay.
Appended(s, m) ==
  LET t == IF Contains(s, m) THEN s ELSE Append(s, m)
  IN  IF Len(t) > KeepLast THEN SubSeq(t, Len(t) - KeepLast + 1, Len(t)) ELSE t

\* Messages are numbered in the order they are recorded in.
Unrecorded(S) == {m \in S : sent[m] = 0 /\ \A n \in S : n < m => sent[n] # 0}

\* What the bound of the raw row pushes out.
Evicted == ToSet(raw) \ ToSet(raw')

SendTimes == {t \in 1 .. now : t + MaxDelay >= now /\ t <= Latest}

\* record_inbound: the message and the job change in one transaction.
RecordInbound ==
  \E m \in Unrecorded(UserMsgs), t \in SendTimes :
    /\ sent' = [sent EXCEPT ![m] = t]
    /\ raw'  = Appended(raw, m)
    /\ job'  = Scheduled(job, t, m)
    /\ missed' = missed \union Evicted \union (IF t < closed THEN {m} ELSE {})
    /\ UNCHANGED <<now, end, segments, work, closed, shared, faults>>

\* The same event arrives a second time.
RecordAgain ==
  \E m \in UserMsgs :
    /\ sent[m] # 0
    /\ Fault
    /\ raw' = Appended(raw, m)
    /\ job' = Scheduled(job, sent[m], m)
    /\ missed' = missed \union Evicted
    /\ UNCHANGED <<now, sent, end, segments, work, closed, shared>>

\* record_outbound: Frank's messages do not schedule a summary.
RecordOutbound ==
  \E m \in Unrecorded(OwnMsgs) :
    /\ now <= Latest
    /\ sent' = [sent EXCEPT ![m] = now]
    /\ raw'  = Appended(raw, m)
    /\ missed' = missed \union Evicted
    /\ UNCHANGED <<now, job, end, segments, work, closed, shared, faults>>
------------------------------------------------------------------------------
(* A worker. *)

Goto(w, pc)    == work' = [work EXCEPT ![w].pc = pc]
Proceed(w, pc) == work' = [work EXCEPT ![w].pc = pc, ![w].read = <<>>, ![w].lines = {}]

Precedes(s, m, n) == \E i, j \in DOMAIN s : i < j /\ s[i] = m /\ s[j] = n

\* The order in which messages are read: as they were sent, then as they stand.
Before(m, n) == sent[m] < sent[n] \/ (sent[m] = sent[n] /\ Precedes(raw, m, n))

\* What a worker reads: the newest ReadLimit messages in this order.
Recent(s) ==
  /\ \A i, j \in DOMAIN s : i < j => Before(s[i], s[j])
  /\ \A m \in ToSet(raw) \ ToSet(s), i \in DOMAIN s : Before(m, s[i])

Reads ==
  LET n == IF Len(raw) > ReadLimit THEN ReadLimit ELSE Len(raw)
  IN  {s \in [1 .. n -> ToSet(raw)] : Recent(s)}

\* The messages before the due time that a read does not reach.
OutOfReach(due) ==
  {m \in ToSet(raw) : /\ sent[m] < due
                      /\ Cardinality({n \in ToSet(raw) : Before(m, n)}) >= ReadLimit}

\* The worker that holds the job is still at it.
Held == job.status = "running" /\ job.by # Nobody /\ work[job.by].pc # "idle"

\* A worker that outlives its claim counts as a fault.
Claim(w) ==
  /\ work[w].pc = "idle"
  /\ Claimable(job, now)
  /\ job'    = Claimed(job, w)
  /\ work'   = [work EXCEPT ![w] = [pc |-> "claimed", id |-> job.id,
                                    due |-> job.due, read |-> <<>>, lines |-> {}]]
  /\ shared' = (shared \/ Held)
  /\ IF Held THEN Fault ELSE NoFault
  /\ UNCHANGED <<now, sent, raw, end, segments, closed, missed>>

ReadUsers(l) == {m \in ToSet(l.read) : m \in UserMsgs}

\* A user wrote later than the anchor.
HasNewer(l) == \E m \in ReadUsers(l) : sent[m] > sent[l.id]

\* The newest message of a user, the first one of those sent at the same time.
Newest(l) == {m \in ReadUsers(l) : \A n \in ReadUsers(l) :
                sent[n] < sent[m] \/ (sent[n] = sent[m] /\ ~Precedes(l.read, n, m))}

\* Nothing to read fails the job, a newer message puts it off.
Read(w) ==
  /\ work[w].pc = "claimed"
  /\ \/ /\ raw # <<>> /\ NoFault
        /\ \E s \in Reads :
             LET l == [work[w] EXCEPT !.read = s] IN
             /\ work'   = [work EXCEPT ![w] = [l EXCEPT !.pc = IF HasNewer(l) THEN "newer" ELSE "read"]]
             /\ closed' = IF ~HasNewer(l) /\ l.due > closed THEN l.due ELSE closed
             /\ missed' = IF HasNewer(l) THEN missed ELSE missed \union OutOfReach(l.due)
     \/ raw = <<>> /\ NoFault /\ Goto(w, "failing") /\ UNCHANGED <<closed, missed>>
     \/ Fault /\ Goto(w, "failing") /\ UNCHANGED <<closed, missed>>
  /\ UNCHANGED <<now, sent, store, shared>>

\* Reschedule to the newest message, then release.  A failed schedule call is
\* swallowed by the client.
PutOff(w) ==
  /\ work[w].pc = "newer"
  /\ \/ \E m \in Newest(work[w]) : job' = Scheduled(job, sent[m], m) /\ NoFault
     \/ Fault /\ UNCHANGED job
  /\ Proceed(w, "release")
  /\ UNCHANGED <<now, sent, raw, end, segments, closed, missed, shared>>

Release(w) ==
  /\ work[w].pc = "release"
  /\ \/ job' = Released(job, w) /\ NoFault
     \/ Fault /\ UNCHANGED job
  /\ work' = [work EXCEPT ![w] = Idle]
  /\ UNCHANGED <<now, sent, raw, end, segments, closed, missed, shared>>

InSegment_FromTheStart(l, from) == {m \in ToSet(l.read) : sent[m] < l.due}

\* What was read of the segment from the end of the last one to the due time.
InSegment(l, from) == {m \in ToSet(l.read) : sent[m] >= from /\ sent[m] < l.due}

\* The last MaxLines of the messages in S, in the order of s.
IsTranscript(lines, S, s) ==
  IF Cardinality(S) <= MaxLines THEN lines = S
  ELSE /\ Cardinality(lines) = MaxLines
       /\ \A m \in S \ lines, n \in lines : Precedes(s, m, n)

\* The memory row: an anchor that has its segment only needs completing, one
\* outside of the segment fails.  A failed call reads as an empty memory.
ReadMemory(w) ==
  /\ work[w].pc = "read"
  /\ \E blind \in BOOLEAN :
       LET l      == work[w]
           from   == IF blind THEN 0 ELSE end
           window == InSegment(l, from)
           pc     == IF ~blind /\ l.id \in StoredIds THEN "complete"
                     ELSE IF l.id \in window THEN "asking" ELSE "failing"
       IN  /\ IF blind THEN Fault ELSE NoFault
           /\ shared' = (shared \/ blind)
           /\ IF pc = "asking"
              THEN \E lines \in SUBSET window :
                     /\ IsTranscript(lines, window, l.read)
                     /\ work' = [work EXCEPT ![w].pc = pc, ![w].read = <<>>, ![w].lines = lines]
              ELSE Proceed(w, pc)
  /\ UNCHANGED <<now, sent, store, closed, missed>>

SegmentEnd_WhenStored(l) == now

\* The next segment begins where the job was due.
SegmentEnd(l) == l.due

\* generate_response and the append that follows it, which does nothing when
\* the anchor has its segment; either may fail, the append also after it was
\* carried out.
Store(w) ==
  LET l == work[w] IN
  /\ l.pc = "asking"
  /\ \/ /\ segments' = IF l.id \in StoredIds THEN segments
                       ELSE Append(segments, [id |-> l.id, msgs |-> l.lines])
        /\ end' = IF SegmentEnd(l) > end THEN SegmentEnd(l) ELSE end
        /\ \/ NoFault /\ Proceed(w, "stored")
           \/ Fault /\ Proceed(w, "failing")
     \/ Fault /\ Proceed(w, "failing") /\ UNCHANGED <<segments, end>>
  /\ UNCHANGED <<now, sent, raw, job, closed, missed, shared>>

\* prune_group_chat_raw_memory_before_v1: from KeepTail before the first
\* message at or after the boundary, or the last KeepTail messages.
Pruned(s, t) ==
  LET kept == {i \in DOMAIN s : sent[s[i]] >= t}
      from == IF kept = {} THEN Len(s) - KeepTail + 1
              ELSE (CHOOSE i \in kept : \A j \in kept : i <= j) - KeepTail
  IN  SubSeq(s, IF from > 1 THEN from ELSE 1, Len(s))

Prune(w) ==
  /\ work[w].pc = "stored"
  /\ \/ raw' = Pruned(raw, SegmentEnd(work[w])) /\ NoFault
     \/ Fault /\ UNCHANGED raw
  /\ Goto(w, "complete")
  /\ UNCHANGED <<now, sent, job, end, segments, closed, missed, shared>>

\* _complete_job: a completion that fails releases the job.
Complete(w) ==
  /\ work[w].pc = "complete"
  /\ \/ job' = Completed(job, w, work[w].id) /\ NoFault
     \/ job' = Released(job, w) /\ Fault
  /\ work' = [work EXCEPT ![w] = Idle]
  /\ UNCHANGED <<now, sent, raw, end, segments, closed, missed, shared>>

\* _fail_job, the same way.
Fail(w) ==
  /\ work[w].pc = "failing"
  /\ \/ job' = Failed(job, w, work[w].id, now) /\ NoFault
     \/ job' = Released(job, w) /\ Fault
  /\ work' = [work EXCEPT ![w] = Idle]
  /\ UNCHANGED <<now, sent, raw, end, segments, closed, missed, shared>>

\* The process ends and is started again; its claim stays until it is stale.
Crash(w) ==
  /\ work[w].pc # "idle"
  /\ Fault
  /\ work' = [work EXCEPT ![w] = Idle]
  /\ UNCHANGED <<now, sent, store, closed, missed, shared>>

Tick ==
  /\ now < Horizon \/ Aged(job) # job
  /\ now' = NoLater(now + 1)
  /\ job' = Aged(job)
  /\ UNCHANGED <<sent, raw, end, segments, work, closed, missed, shared, faults>>

Step(w) == Read(w) \/ PutOff(w) \/ Release(w) \/ ReadMemory(w) \/ Store(w)
           \/ Prune(w) \/ Complete(w) \/ Fail(w)

Next ==
  \/ RecordInbound \/ RecordAgain \/ RecordOutbound \/ Tick
  \/ \E w \in Workers : Claim(w) \/ Step(w) \/ Crash(w)

\* The event loop of a worker that runs goes on, its loop polls for jobs
\* without end, and time passes.
Spec == Init /\ [][Next]_vars /\ WF_vars(Tick)
             /\ \A w \in Workers : WF_vars(Step(w)) /\ WF_vars(Claim(w))
------------------------------------------------------------------------------
(* Properties. *)

TypeOK ==
  /\ now \in 1 .. Horizon
  /\ sent \in [Msgs -> 0 .. Horizon]
  /\ raw \in Seq(Msgs) /\ Len(raw) <= KeepLast
  /\ job \in JobRows(Workers, Ids) /\ ClaimIsKnown(job)
  /\ end \in 0 .. Horizon
  /\ segments \in Seq([id: Ids, msgs: SUBSET Msgs])
  /\ work \in [Workers -> [pc: Pcs, id: Ids \union {NoMsg},
                           due: 0 .. Horizon, read: Seq(Msgs), lines: SUBSET Msgs]]
  /\ closed \in 0 .. Horizon
  /\ missed \subseteq Msgs
  /\ shared \in BOOLEAN
  /\ faults \in 0 .. MaxFaults

\* The summary of m gave way to MaxLines later messages of its segment.
CrowdedOut(m) ==
  \E i \in DOMAIN segments :
    /\ Cardinality(segments[i].msgs) = MaxLines
    /\ \A n \in segments[i].msgs : sent[n] >= sent[m]

\* Every message before the end of the stored segments is in one of them,
\* except those recorded after their segment was read, those that the bounds of
\* the raw row and of a read put out of reach, and those a full transcript left
\* out: no takeover, retry, prune or crash loses one.
NothingSkipped ==
  \A m \in UserMsgs :
    sent[m] # 0 /\ sent[m] < end => m \in Summarised \union missed \/ CrowdedOut(m)

\* A message after the end of the stored segments has a job that is still to
\* run or that gave up: a worker that completes an older segment cannot mark
\* the job done.
NothingForgotten ==
  \A m \in UserMsgs : sent[m] # 0 /\ sent[m] >= end => job.status # "done"

\* A message is summarised in two segments only after a claim was taken over
\* from a worker or the memory could not be read.
SummarisedOnce ==
  ~shared => \A i, j \in DOMAIN segments :
               i # j => segments[i].msgs \intersect segments[j].msgs = {}

\* A message that is recorded is summarised in the end, or its job gives up,
\* or it came missed or was crowded out.
EveryMessageSettles ==
  \A m \in UserMsgs :
    sent[m] # 0 ~> \/ m \in Summarised \/ m \in missed \/ job.status = "failed" \/ CrowdedOut(m)

\* A message that arrives while a segment is summarised is not dropped
\* ("prevents dropping new segments", group_chat_summary.py:253).
NewSegmentsKept ==
  \A m \in UserMsgs : sent[m] # 0 /\ sent[m] < end => m \in Summarised \/ CrowdedOut(m)
==============================================================================
