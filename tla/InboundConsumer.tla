-------------------------- MODULE InboundConsumer --------------------------
(***************************************************************************)
(* KafkaInboundConsumer (app/integrations/kafka_pipeline.py) with keyed    *)
(* concurrency on: the records of one partition are handled by concurrent  *)
(* tasks that finish in any order, a per-partition tracker turns the       *)
(* finished offsets into contiguous commits, a generation number fences    *)
(* tasks that outlive an assignment, and a partition whose gap between the *)
(* highest record taken and the commit grows too large is paused.          *)
(*                                                                         *)
(* Several worker processes form the consumer group; the broker, the group *)
(* coordinator and the aiokafka client are external and modelled by what   *)
(* the code relies on.  Trackers of different partitions are independent,  *)
(* so one partition is enough; which tasks may run together (the key       *)
(* locks) is abstracted to "any", a superset of what the locks allow.      *)
(*                                                                         *)
(* A definition X_Fault is X with a plausible fault; no behaviour uses it. *)
(***************************************************************************)
EXTENDS Integers, FiniteSets

CONSTANTS
    Consumers,      \* the worker processes of the consumer group
    Nobody,         \* owner of a partition that is assigned to no one
    Slots,          \* the permits of the in-flight semaphore of one process
    AutoReset,      \* kafka_consumer_auto_offset_reset
    MaxBatch,       \* kafka_consumer_max_batch
    MaxGap,         \* kafka_max_commit_gap_per_partition
    ResumeAt,       \* kafka_commit_gap_resume_watermark
    HandOnMayFail,  \* passing a failed record on to a retry topic may fail too
    CommitMayRaise, \* commit() may raise though the member has the partition
    RestartMayFail, \* the client may fail to come back after an auth error
    MaxLog,         \* bound: records ever written to the partition
    MaxExpels,      \* bound: times the coordinator takes the partition away
    MaxCrashes,     \* bound: crashes and graceful stops of worker processes
    MaxRestarts     \* bound: client restarts after an authentication error

ASSUME GroupAssumption == Nobody \notin Consumers
ASSUME PermitAssumption == IsFiniteSet(Slots)
ASSUME ResetAssumption == AutoReset \in {"earliest", "latest"}
ASSUME FaultAssumption == /\ HandOnMayFail \in BOOLEAN
                          /\ CommitMayRaise \in BOOLEAN
                          /\ RestartMayFail \in BOOLEAN
ASSUME SizeAssumption  == /\ MaxBatch \in Nat \ {0}
                          /\ MaxLog \in Nat \ {0}
                          /\ MaxGap \in Nat
                          /\ ResumeAt \in Nat
ASSUME BudgetAssumption == /\ MaxExpels \in Nat
                           /\ MaxCrashes \in Nat
                           /\ MaxRestarts \in Nat

VARIABLES               \* the broker and the group coordinator (external)
    logEnd,             \* offset the next produced record gets
    committed,          \* committed offset of the group, or NoOffset
    owner               \* the member the coordinator gave the partition to
VARIABLES               \* the aiokafka client of each process (external)
    assigned,           \* consumer.assignment() contains the partition
    position,           \* next offset the client fetches
    clientPaused        \* consumer.pause(tp) is in effect
VARIABLES               \* the poll loop of each process, _run
    runPc,              \* where the loop stands
    seen,               \* assignment read by a reconcile waiting for the lock
    batch,              \* records returned by getmany and not yet dispatched
    snapshot,           \* tp in _assignment_snapshot
    restart             \* progress of _restart_for_auth_error
VARIABLES               \* the _PartitionTracker of each process
    lastCommitted,
    initialized,
    completed,
    maxSeen,
    pausedForGap,
    generation
VARIABLE task           \* the _handle_record task in each semaphore slot
VARIABLES               \* history: read by the properties only
    handled,            \* offsets settled: handled, retried, dead-lettered
    bypassed,           \* offsets a position reset to "latest" jumped over
    dropped             \* offsets whose task died before it entered the tracker
VARIABLES               \* how much of each bound is used up
    expels, crashes, restarts

brokerVars  == <<logEnd, committed, owner>>
clientVars  == <<assigned, position, clientPaused>>
loopVars    == <<runPc, seen, batch, snapshot, restart>>
trackerVars == <<lastCommitted, initialized, completed, maxSeen, pausedForGap,
                 generation>>
historyVars == <<handled, bypassed, dropped>>
boundVars   == <<expels, crashes, restarts>>
vars == <<brokerVars, clientVars, loopVars, trackerVars, task, historyVars,
          boundVars>>

-----------------------------------------------------------------------------
NoOffset == -1
Offsets  == 0..MaxLog-1
NoBatch  == [lo |-> 0, hi |-> 0]
NoTask   == [pc |-> "idle", off |-> 0, gen |-> 0, ok |-> FALSE, to |-> 0]

Tasks == [pc : {"idle", "handling", "finalizing", "committing"},
          off : Offsets, gen : Nat, ok : BOOLEAN, to : Offsets]

TypeOK ==
    /\ logEnd \in 0..MaxLog
    /\ committed \in {NoOffset} \cup 1..MaxLog
    /\ owner \in Consumers \cup {Nobody}
    /\ assigned \in [Consumers -> BOOLEAN]
    /\ position \in [Consumers -> 0..MaxLog]
    /\ clientPaused \in [Consumers -> BOOLEAN]
    /\ runPc \in [Consumers -> {"top", "polling", "fetched", "dispatching"}]
    /\ seen \in [Consumers -> {"unread", "assigned", "unassigned"}]
    /\ batch \in [Consumers -> [lo : 0..MaxLog, hi : 0..MaxLog]]
    /\ snapshot \in [Consumers -> BOOLEAN]
    /\ restart \in [Consumers -> {"no", "fenced", "stopped", "started",
                                   "failed"}]
    /\ lastCommitted \in [Consumers -> -1..MaxLog-1]
    /\ initialized \in [Consumers -> BOOLEAN]
    /\ completed \in [Consumers -> SUBSET Offsets]
    /\ maxSeen \in [Consumers -> -1..MaxLog-1]
    /\ pausedForGap \in [Consumers -> BOOLEAN]
    /\ generation \in [Consumers -> Nat]
    /\ task \in [Consumers -> [Slots -> Tasks]]
    /\ handled \subseteq Offsets
    /\ bypassed \subseteq Offsets
    /\ dropped \subseteq Offsets
    /\ expels \in Nat /\ crashes \in Nat /\ restarts \in Nat

Init ==
    /\ logEnd = 0
    /\ committed = NoOffset
    /\ owner = Nobody
    /\ assigned = [c \in Consumers |-> FALSE]
    /\ position = [c \in Consumers |-> 0]
    /\ clientPaused = [c \in Consumers |-> FALSE]
    /\ runPc = [c \in Consumers |-> "top"]
    /\ seen = [c \in Consumers |-> "unread"]
    /\ batch = [c \in Consumers |-> NoBatch]
    /\ snapshot = [c \in Consumers |-> FALSE]
    /\ restart = [c \in Consumers |-> "no"]
    /\ lastCommitted = [c \in Consumers |-> -1]
    /\ initialized = [c \in Consumers |-> FALSE]
    /\ completed = [c \in Consumers |-> {}]
    /\ maxSeen = [c \in Consumers |-> -1]
    /\ pausedForGap = [c \in Consumers |-> FALSE]
    /\ generation = [c \in Consumers |-> 0]
    /\ task = [c \in Consumers |-> [s \in Slots |-> NoTask]]
    /\ handled = {} /\ bypassed = {} /\ dropped = {}
    /\ expels = 0 /\ crashes = 0 /\ restarts = 0

-----------------------------------------------------------------------------
(* The broker, the coordinator and the client library.                     *)

\* The photon ingest appends a record to the inbound (or a retry) partition.
Produce ==
    /\ logEnd < MaxLog
    /\ logEnd' = logEnd + 1
    /\ UNCHANGED <<committed, owner, clientVars, loopVars, trackerVars, task,
                   historyVars, boundVars>>

\* A rebalance, a missed heartbeat or a departure takes the partition away at
\* the coordinator; the client of the former owner has not noticed yet.
Expel ==
    /\ owner # Nobody
    /\ expels < MaxExpels
    /\ owner' = Nobody
    /\ expels' = expels + 1
    /\ UNCHANGED <<logEnd, committed, clientVars, loopVars, trackerVars, task,
                   historyVars, crashes, restarts>>

\* The coordinator gives up on a member whose process has died.
SessionTimeout ==
    /\ \E c \in Consumers : owner = c /\ ~assigned[c]
    /\ owner' = Nobody
    /\ UNCHANGED <<logEnd, committed, clientVars, loopVars, trackerVars, task,
                   historyVars, boundVars>>

\* Where a new assignment starts: at the committed offset, or else where the
\* reset policy says.
StartPosition_IgnoresCommit(c) ==
    /\ position' = [position EXCEPT ![c] = 0]
    /\ UNCHANGED bypassed

StartPosition_AtEnd(c) ==
    /\ position' = [position EXCEPT ![c] = logEnd]
    /\ UNCHANGED bypassed

StartPosition(c) ==
    \/ /\ committed # NoOffset
       /\ position' = [position EXCEPT ![c] = committed]
       /\ UNCHANGED bypassed
    \/ /\ committed = NoOffset /\ AutoReset = "earliest"
       /\ position' = [position EXCEPT ![c] = 0]
       /\ UNCHANGED bypassed
    \/ /\ committed = NoOffset /\ AutoReset = "latest"
       /\ position' = [position EXCEPT ![c] = logEnd]
       /\ bypassed' = bypassed \cup 0..logEnd-1

\* self._consumer is a client that is started
HasClient(c) == restart[c] \notin {"stopped", "failed"}

\* A client joins and gets the partition: a fresh client-side partition state,
\* not paused.
Join(c) ==
    /\ owner = Nobody
    /\ HasClient(c)
    /\ owner' = c
    /\ assigned' = [assigned EXCEPT ![c] = TRUE]
    /\ clientPaused' = [clientPaused EXCEPT ![c] = FALSE]
    /\ StartPosition(c)
    /\ UNCHANGED <<logEnd, committed, loopVars, trackerVars, task, handled,
                   dropped, boundVars>>

\* The client learns that the partition is no longer its own.
LearnRevoked(c) ==
    /\ assigned[c]
    /\ owner # c
    /\ assigned' = [assigned EXCEPT ![c] = FALSE]
    /\ UNCHANGED <<brokerVars, position, clientPaused, loopVars, trackerVars,
                   task, historyVars, boundVars>>

-----------------------------------------------------------------------------
(* The tracker.                                                            *)

\* tracker_lock is held across an await only while a commit is in flight.
LockHeld(c) == \E s \in Slots : task[c][s].pc = "committing"

\* n is where a run of completed offsets that starts right after last ends
ContiguousEnd_WithHoles(last, done, n) == n > last /\ n \in done

ContiguousEnd(last, done, n) ==
    /\ n > last
    /\ (last+1)..n \subseteq done
    /\ n+1 \notin done

SetTask(c, s, t) == task' = [task EXCEPT ![c][s] = t]

GapDepth(c, last) == IF maxSeen[c] < last THEN 0 ELSE maxSeen[c] - last

AdjustFlow_NeverPauses(c, last) == UNCHANGED <<pausedForGap, clientPaused>>

AdjustFlow_NeverResumes(c, last) ==
    IF HasClient(c) /\ snapshot[c] /\ assigned[c] /\ GapDepth(c, last) > MaxGap
    THEN /\ pausedForGap' = [pausedForGap EXCEPT ![c] = TRUE]
         /\ clientPaused' = [clientPaused EXCEPT ![c] = TRUE]
    ELSE UNCHANGED <<pausedForGap, clientPaused>>

\* _maybe_adjust_partition_flow_locked, after the commit position is last;
\* pause and resume raise, and are then ignored, when tp is not assigned.
AdjustFlow(c, last) ==
    LET pauseNow  == /\ GapDepth(c, last) > MaxGap
                     /\ ~pausedForGap[c]
        resumeNow == /\ pausedForGap[c]
                     /\ GapDepth(c, last) <= ResumeAt
    IN  IF HasClient(c) /\ snapshot[c] /\ assigned[c] /\ (pauseNow \/ resumeNow)
        THEN /\ pausedForGap' = [pausedForGap EXCEPT ![c] = pauseNow]
             /\ clientPaused' = [clientPaused EXCEPT ![c] = pauseNow]
        ELSE UNCHANGED <<pausedForGap, clientPaused>>

-----------------------------------------------------------------------------
(* The poll loop: reconcile, getmany, reconcile, dispatch.                 *)

AfterReconcile(c) ==
    CASE runPc[c] = "top" -> "polling"
      [] runPc[c] = "fetched" /\ batch[c].lo < batch[c].hi -> "dispatching"
      [] OTHER -> "top"

\* No client, or nothing changed: reconcile returns without taking the lock.
ReconcileSame(c) ==
    /\ runPc[c] \in {"top", "fetched"}
    /\ seen[c] = "unread"
    /\ HasClient(c) => assigned[c] = snapshot[c]
    /\ runPc' = [runPc EXCEPT ![c] = AfterReconcile(c)]
    /\ UNCHANGED <<brokerVars, clientVars, seen, batch, snapshot, restart,
                   trackerVars, task, historyVars, boundVars>>

\* The assignment is read before the wait for the tracker lock, so a reconcile
\* that has to wait applies an assignment that may have changed meanwhile.
ReconcileRead(c) ==
    /\ runPc[c] \in {"top", "fetched"}
    /\ seen[c] = "unread"
    /\ HasClient(c) /\ assigned[c] # snapshot[c]
    /\ LockHeld(c)
    /\ seen' = [seen EXCEPT ![c] = IF assigned[c] THEN "assigned"
                                                  ELSE "unassigned"]
    /\ UNCHANGED <<brokerVars, clientVars, runPc, batch, snapshot, restart,
                   trackerVars, task, historyVars, boundVars>>

\* Under the lock, for a partition lost as for one gained: fence the tasks of
\* the previous assignment.  Commit position and completed offsets stay.
ApplyAssignment(c, current) ==
    /\ generation' = [generation EXCEPT ![c] = @ + 1]
    /\ pausedForGap' = [pausedForGap EXCEPT ![c] = FALSE]
    /\ snapshot' = [snapshot EXCEPT ![c] = current]

Reconcile(c) ==
    /\ runPc[c] \in {"top", "fetched"}
    /\ ~LockHeld(c)
    /\ \/ /\ seen[c] = "unread"
          /\ HasClient(c) /\ assigned[c] # snapshot[c]
          /\ ApplyAssignment(c, assigned[c])
       \/ /\ seen[c] # "unread"
          /\ ApplyAssignment(c, seen[c] = "assigned")
    /\ seen' = [seen EXCEPT ![c] = "unread"]
    /\ runPc' = [runPc EXCEPT ![c] = AfterReconcile(c)]
    /\ UNCHANGED <<brokerVars, clientVars, batch, restart, lastCommitted,
                   initialized, completed, maxSeen, task, historyVars,
                   boundVars>>

PollRecords(c) ==
    /\ runPc[c] = "polling"
    /\ HasClient(c)
    /\ assigned[c] /\ ~clientPaused[c]
    /\ \E n \in 1..MaxBatch :
        /\ position[c] + n <= logEnd
        /\ batch' = [batch EXCEPT ![c] = [lo |-> position[c],
                                          hi |-> position[c] + n]]
        /\ position' = [position EXCEPT ![c] = @ + n]
    /\ runPc' = [runPc EXCEPT ![c] = "fetched"]
    /\ UNCHANGED <<brokerVars, assigned, clientPaused, seen, snapshot, restart,
                   trackerVars, task, historyVars, boundVars>>

\* getmany times out with nothing, or raises: back to the top of the loop.
PollNothing(c) ==
    /\ runPc[c] = "polling"
    /\ \/ /\ HasClient(c)
          /\ runPc' = [runPc EXCEPT ![c] = "fetched"]
       \/ runPc' = [runPc EXCEPT ![c] = "top"]
    /\ UNCHANGED <<brokerVars, clientVars, seen, batch, snapshot, restart,
                   trackerVars, task, historyVars, boundVars>>

\* Take the next record of the batch off: the loop starts over after the last.
TakeFromBatch(c) ==
    /\ runPc[c] = "dispatching"
    /\ LET rest == [batch[c] EXCEPT !.lo = @ + 1]
       IN  IF rest.lo < rest.hi
           THEN /\ batch' = [batch EXCEPT ![c] = rest]
                /\ UNCHANGED runPc
           ELSE /\ batch' = [batch EXCEPT ![c] = NoBatch]
                /\ runPc' = [runPc EXCEPT ![c] = "top"]

\* The first record a tracker gets fixes its commit position.
EnterTracker_CountsNext(c, off) ==
    /\ lastCommitted' = [lastCommitted EXCEPT ![c] =
                             IF initialized[c] THEN @ ELSE off - 1]
    /\ initialized' = [initialized EXCEPT ![c] = TRUE]
    /\ maxSeen' = [maxSeen EXCEPT ![c] = IF off >= @ THEN off + 1 ELSE @]

EnterTracker(c, off) ==
    /\ lastCommitted' = [lastCommitted EXCEPT ![c] =
                             IF initialized[c] THEN @ ELSE off - 1]
    /\ initialized' = [initialized EXCEPT ![c] = TRUE]
    /\ maxSeen' = [maxSeen EXCEPT ![c] = IF off > @ THEN off ELSE @]

\* A permit is taken, the task is created and enters the tracker.  Tasks start
\* in the order of the batch and queue for the lock in that order, so creating
\* one and its first step are a single action.
Dispatch(c, s) ==
    /\ task[c][s] = NoTask
    /\ ~LockHeld(c)
    /\ HasClient(c)
    /\ TakeFromBatch(c)
    /\ LET off == batch[c].lo
       IN  /\ SetTask(c, s, [NoTask EXCEPT !.pc = "handling", !.off = off,
                                           !.gen = generation[c]])
           /\ EnterTracker(c, off)
    /\ UNCHANGED <<brokerVars, clientVars, seen, snapshot, restart, completed,
                   pausedForGap, generation, historyVars, boundVars>>

\* The task's first assertion fails while a restart has taken the client away:
\* the record gets no task and leaves no trace in the tracker.
DispatchWithoutClient(c) ==
    /\ \E s \in Slots : task[c][s] = NoTask
    /\ ~HasClient(c)
    /\ TakeFromBatch(c)
    /\ dropped' = dropped \cup {batch[c].lo}
    /\ UNCHANGED <<brokerVars, clientVars, seen, snapshot, restart,
                   trackerVars, task, handled, bypassed, boundVars>>

-----------------------------------------------------------------------------
(* A record's task, _handle_record.                                        *)

\* The handler returned, the record could not be decoded, or the failure was
\* passed on to a retry topic or to the dead-letter topic.
HandleSettled(c, s) ==
    /\ task[c][s].pc = "handling"
    /\ SetTask(c, s, [task[c][s] EXCEPT !.pc = "finalizing", !.ok = TRUE])
    /\ handled' = handled \cup {task[c][s].off}
    /\ UNCHANGED <<brokerVars, clientVars, loopVars, trackerVars, bypassed,
                   dropped, boundVars>>

HandleUnsettled_ReportsHandled(c, s) ==
    /\ HandOnMayFail
    /\ task[c][s].pc = "handling"
    /\ SetTask(c, s, [task[c][s] EXCEPT !.pc = "finalizing", !.ok = TRUE])
    /\ UNCHANGED <<brokerVars, clientVars, loopVars, trackerVars, historyVars,
                   boundVars>>

\* The handler failed, and so did handing the record on (no producer, or the
\* send raised): the task ends with handled = False.
HandleUnsettled(c, s) ==
    /\ HandOnMayFail
    /\ task[c][s].pc = "handling"
    /\ SetTask(c, s, [task[c][s] EXCEPT !.pc = "finalizing"])
    /\ UNCHANGED <<brokerVars, clientVars, loopVars, trackerVars, historyVars,
                   boundVars>>

\* The task was fenced: it leaves no trace in the tracker.
FinalizeStale(c, s) ==
    /\ task[c][s].pc = "finalizing"
    /\ ~LockHeld(c)
    /\ task[c][s].gen # generation[c]
    /\ SetTask(c, s, NoTask)
    /\ UNCHANGED <<brokerVars, clientVars, loopVars, trackerVars, historyVars,
                   boundVars>>

\* Record the outcome and, when a longer prefix is done, start its commit (the
\* lock stays held); otherwise adjust the flow and release the permit.
Finalize(c, s) ==
    /\ task[c][s].pc = "finalizing"
    /\ ~LockHeld(c)
    /\ task[c][s].gen = generation[c]
    /\ LET done == IF task[c][s].ok THEN completed[c] \cup {task[c][s].off}
                                    ELSE completed[c]
           mayCommit == /\ HasClient(c) /\ snapshot[c]
                        /\ lastCommitted[c] + 1 \in done
       IN  /\ completed' = [completed EXCEPT ![c] = done]
           /\ IF mayCommit
              THEN /\ \E n \in Offsets :
                        /\ ContiguousEnd(lastCommitted[c], done, n)
                        /\ SetTask(c, s, [task[c][s] EXCEPT
                                            !.pc = "committing", !.to = n])
                   /\ UNCHANGED <<pausedForGap, clientPaused>>
              ELSE /\ SetTask(c, s, NoTask)
                   /\ AdjustFlow(c, lastCommitted[c])
    /\ UNCHANGED <<brokerVars, assigned, position, loopVars, lastCommitted,
                   initialized, maxSeen, generation, historyVars, boundVars>>

\* The broker takes a commit only from the member it gave the partition to, and
\* the client refuses to send one for a partition it does not have.
CommitOK(c, s) ==
    /\ task[c][s].pc = "committing"
    /\ assigned[c] /\ owner = c
    /\ LET to == task[c][s].to
       IN  /\ committed' = to + 1
           /\ lastCommitted' = [lastCommitted EXCEPT ![c] = to]
           /\ completed' = [completed EXCEPT ![c] =
                                @ \ ((lastCommitted[c]+1)..to)]
           /\ AdjustFlow(c, to)
    /\ SetTask(c, s, NoTask)
    /\ UNCHANGED <<logEnd, owner, assigned, position, loopVars, initialized,
                   maxSeen, generation, historyVars, boundVars>>

CommitRaises_Forgets(c, s) ==
    /\ task[c][s].pc = "committing"
    /\ \/ /\ CommitMayRaise \/ ~(assigned[c] /\ owner = c)
          /\ UNCHANGED committed
       \/ /\ CommitMayRaise
          /\ assigned[c] /\ owner = c
          /\ committed' = task[c][s].to + 1
    /\ completed' = [completed EXCEPT ![c] =
                         @ \ ((lastCommitted[c]+1)..task[c][s].to)]
    /\ AdjustFlow(c, lastCommitted[c])
    /\ SetTask(c, s, NoTask)
    /\ UNCHANGED <<logEnd, owner, assigned, position, loopVars, lastCommitted,
                   initialized, maxSeen, generation, historyVars, boundVars>>

\* commit() raised: refused, or (second disjunct) stored with the answer lost.
CommitRaises(c, s) ==
    /\ task[c][s].pc = "committing"
    /\ \/ /\ CommitMayRaise \/ ~(assigned[c] /\ owner = c)
          /\ UNCHANGED committed
       \/ /\ CommitMayRaise
          /\ assigned[c] /\ owner = c
          /\ committed' = task[c][s].to + 1
    /\ AdjustFlow(c, lastCommitted[c])
    /\ SetTask(c, s, NoTask)
    /\ UNCHANGED <<logEnd, owner, assigned, position, loopVars, lastCommitted,
                   initialized, completed, maxSeen, generation, historyVars,
                   boundVars>>

-----------------------------------------------------------------------------
(* Restart after an authentication error, from the poll loop or from the   *)
(* retry send of a task, of this partition or another; the tracker stays.  *)

LeaveGroup(c) ==
    /\ assigned' = [assigned EXCEPT ![c] = FALSE]
    /\ owner' = IF owner = c THEN Nobody ELSE owner

\* Tasks of the old client are fenced first; a record dispatched before the
\* client is gone already belongs to the new generation.
RestartFence(c) ==
    /\ restart[c] = "no"
    /\ restarts < MaxRestarts
    /\ ~LockHeld(c)
    /\ restart' = [restart EXCEPT ![c] = "fenced"]
    /\ restarts' = restarts + 1
    /\ generation' = [generation EXCEPT ![c] = @ + 1]
    /\ UNCHANGED <<brokerVars, clientVars, runPc, seen, batch, snapshot,
                   lastCommitted, initialized, completed, maxSeen,
                   pausedForGap, task, historyVars, expels, crashes>>

\* A poll that the stop interrupts raises.
RestartStop(c) ==
    /\ restart[c] = "fenced"
    /\ restart' = [restart EXCEPT ![c] = "stopped"]
    /\ snapshot' = [snapshot EXCEPT ![c] = FALSE]
    /\ LeaveGroup(c)
    /\ runPc' = [runPc EXCEPT ![c] = IF @ = "polling" THEN "top" ELSE @]
    /\ UNCHANGED <<logEnd, committed, position, clientPaused, seen, batch,
                   trackerVars, task, historyVars, boundVars>>

RestartStart(c) ==
    /\ restart[c] = "stopped"
    /\ restart' = [restart EXCEPT ![c] = "started"]
    /\ UNCHANGED <<brokerVars, clientVars, runPc, seen, batch, snapshot,
                   trackerVars, task, historyVars, boundVars>>

\* The restart raises: the loop's next errors are no authentication errors, so
\* it never restarts again, and there is no producer whose sends could fail.
RestartFails(c) ==
    /\ RestartMayFail
    /\ restart[c] = "stopped"
    /\ restart' = [restart EXCEPT ![c] = "failed"]
    /\ UNCHANGED <<brokerVars, clientVars, runPc, seen, batch, snapshot,
                   trackerVars, task, historyVars, boundVars>>

\* The reconcile at the end of the restart, whatever the poll loop is doing.
RestartReconcile(c) ==
    /\ restart[c] = "started"
    /\ restart' = [restart EXCEPT ![c] = "no"]
    /\ \/ /\ assigned[c] = snapshot[c]
          /\ UNCHANGED <<generation, pausedForGap, snapshot>>
       \/ /\ assigned[c] # snapshot[c]
          /\ ~LockHeld(c)
          /\ ApplyAssignment(c, assigned[c])
    /\ UNCHANGED <<brokerVars, clientVars, runPc, seen, batch, lastCommitted,
                   initialized, completed, maxSeen, task, historyVars,
                   boundVars>>

-----------------------------------------------------------------------------
(* The end of a process; the next one starts with empty trackers.          *)

FreshProcess(c) ==
    /\ position' = [position EXCEPT ![c] = 0]
    /\ clientPaused' = [clientPaused EXCEPT ![c] = FALSE]
    /\ runPc' = [runPc EXCEPT ![c] = "top"]
    /\ seen' = [seen EXCEPT ![c] = "unread"]
    /\ batch' = [batch EXCEPT ![c] = NoBatch]
    /\ snapshot' = [snapshot EXCEPT ![c] = FALSE]
    /\ restart' = [restart EXCEPT ![c] = "no"]
    /\ lastCommitted' = [lastCommitted EXCEPT ![c] = -1]
    /\ initialized' = [initialized EXCEPT ![c] = FALSE]
    /\ completed' = [completed EXCEPT ![c] = {}]
    /\ maxSeen' = [maxSeen EXCEPT ![c] = -1]
    /\ pausedForGap' = [pausedForGap EXCEPT ![c] = FALSE]
    /\ generation' = [generation EXCEPT ![c] = 0]
    /\ task' = [task EXCEPT ![c] = [s \in Slots |-> NoTask]]
    /\ crashes' = crashes + 1

\* The process dies; the coordinator notices only when it expels the member.
Crash(c) ==
    /\ crashes < MaxCrashes
    /\ FreshProcess(c)
    /\ assigned' = [assigned EXCEPT ![c] = FALSE]
    /\ UNCHANGED <<brokerVars, historyVars, expels, restarts>>

\* stop: the loop has ended and its tasks are done, the trackers commit what
\* they still can (_drain_and_finalize_commits), and the client leaves.
Stop(c) ==
    /\ crashes < MaxCrashes
    /\ runPc[c] = "top"
    /\ seen[c] = "unread"
    /\ restart[c] \in {"no", "failed"}
    /\ \A s \in Slots : task[c][s] = NoTask
    /\ \/ UNCHANGED committed
       \/ /\ snapshot[c] /\ assigned[c] /\ owner = c
          /\ \E n \in Offsets :
                /\ ContiguousEnd(lastCommitted[c], completed[c], n)
                /\ committed' = n + 1
    /\ LeaveGroup(c)
    /\ FreshProcess(c)
    /\ UNCHANGED <<logEnd, historyVars, expels, restarts>>

-----------------------------------------------------------------------------
Loop(c) ==
    \/ ReconcileSame(c) \/ ReconcileRead(c) \/ Reconcile(c)
    \/ PollRecords(c) \/ PollNothing(c)
    \/ DispatchWithoutClient(c)
    \/ \E s \in Slots : Dispatch(c, s)

RecordTask(c, s) ==
    \/ HandleSettled(c, s) \/ HandleUnsettled(c, s)
    \/ FinalizeStale(c, s) \/ Finalize(c, s)
    \/ CommitOK(c, s) \/ CommitRaises(c, s)

Lifecycle(c) ==
    \/ RestartFence(c) \/ RestartStop(c)
    \/ RestartStart(c) \/ RestartFails(c) \/ RestartReconcile(c)
    \/ Crash(c) \/ Stop(c)

Next ==
    \/ Produce \/ Expel \/ SessionTimeout
    \/ \E c \in Consumers :
        \/ Join(c) \/ LearnRevoked(c)
        \/ Loop(c)
        \/ Lifecycle(c)
        \/ \E s \in Slots : RecordTask(c, s)

Spec == Init /\ [][Next]_vars

-----------------------------------------------------------------------------
(* Fairness: the event loop runs every task that can run, the broker and   *)
(* the coordinator answer, a restart ends.  Data that stays available is   *)
(* eventually returned by getmany, hence strong fairness there: a poll may *)
(* come back empty in between.  Nothing forces new records, expulsions,    *)
(* crashes, restarts or stops.                                             *)

Fairness ==
    /\ WF_vars(SessionTimeout)
    /\ \A c \in Consumers :
        /\ WF_vars(Join(c)) /\ WF_vars(LearnRevoked(c))
        /\ WF_vars(ReconcileSame(c)) /\ WF_vars(Reconcile(c))
        /\ SF_vars(PollRecords(c)) /\ WF_vars(PollNothing(c))
        /\ WF_vars(DispatchWithoutClient(c))
        /\ WF_vars(\E s \in Slots : Dispatch(c, s))
        /\ WF_vars(RestartStop(c))
        /\ WF_vars(RestartStart(c) \/ RestartFails(c))
        /\ WF_vars(RestartReconcile(c))
        /\ \A s \in Slots : WF_vars(RecordTask(c, s))

FairSpec == Spec /\ Fairness

-----------------------------------------------------------------------------
(* Properties.                                                             *)

\* Records that need no further delivery, or are known not to get one.
Settled == handled \cup bypassed \cup dropped

SettledBelow(n) == \A o \in Offsets : o < n => o \in Settled

\* At-least-once: whatever tasks finish in whatever order, whoever owned the
\* partition and however stale a tracker is, the group's committed offset never
\* passes a record that nobody settled, except those that a reset to the end of
\* the log bypassed and those whose task died on its first assertion
\* (_advance_commit_locked commits contiguous prefixes only).
NothingSkipped == SettledBelow(committed)

\* Nothing is dropped: no task that dies before it enters the tracker lets the
\* commit pass its record.
NothingDropped ==
    \A o \in Offsets : o < committed => o \in handled \cup bypassed

\* The same promise as a refinement: the consumer group implements the ledger.
Ledger == INSTANCE OffsetLedger WITH settled <- Settled

LedgerSpec == Ledger!Spec

\* The tracker of the member that has the partition is behind the broker by no
\* more than records it has completed itself and not managed to commit, so that
\* the next contiguous prefix starts where the group stands (_PartitionTracker).
TrackerKeepsUp ==
    \A c \in Consumers :
        /\ owner = c /\ assigned[c] /\ snapshot[c]
        /\ initialized[c] /\ committed # NoOffset
        =>
            /\ lastCommitted[c] < committed
            /\ (lastCommitted[c]+1)..(committed-1) \subseteq completed[c]

\* The group's committed offset never moves backwards.
CommitMonotone == [][committed' >= committed]_committed

\* The gap up to which a partition is read on; a resume watermark above the
\* pause threshold, which the settings do not exclude, takes its place.
ReadOnGap == IF ResumeAt > MaxGap THEN ResumeAt ELSE MaxGap

\* Backpressure: the records taken beyond the commit are bounded by the gap at
\* which the partition is paused, and by what was already fetched or in flight,
\* through crashes and takeovers.  Not so once an assignment or a client is
\* replaced: a rebalance that the loop does not notice lifts the client's pause
\* and leaves the tracker's, and fenced tasks end without judging the gap.
GapBounded ==
    expels = 0 /\ restarts = 0 =>
        \A c \in Consumers :
            GapDepth(c, lastCommitted[c]) <=
                ReadOnGap + Cardinality(Slots) + MaxBatch

\* At-least-once delivery: every record that is written is settled in the end,
\* whichever process is left to do it.
Delivered == \A o \in Offsets : o < logEnd ~> o \in Settled

\* A partition paused for its commit gap does not stay paused.
PauseIsReleased ==
    \A c \in Consumers : pausedForGap[c] ~> ~pausedForGap[c]
=============================================================================
