------------------------ MODULE InboundConsumerProofs ------------------------
(***************************************************************************)
(* The inbound consumer, for every group of processes, log length, batch   *)
(* size, gap and number of faults: it never commits past an unsettled      *)
(* record and implements the ledger; its backpressure bounds what is taken *)
(* beyond the commit; its tracker stands where the broker does and moves   *)
(* the group's offset forward only.                                        *)
(***************************************************************************)
EXTENDS InboundConsumer, FiniteSetTheorems, TLAPS

USE DEF NoOffset

\* Why it holds, as an inductive invariant.  A tracker takes its first commit
\* position from the first record it gets, so until then everything before the
\* batch in hand, and before the fetch position, has to be settled already.
BatchInv(c) ==
    LET pending == batch[c].lo < batch[c].hi
    IN  /\ runPc[c] \in {"top", "polling"} => ~pending
        /\ runPc[c] = "dispatching" => pending
        /\ ~initialized[c] =>
            /\ pending => SettledBelow(batch[c].lo)
            /\ \/ SettledBelow(position[c])
               \/ pending /\ position[c] = batch[c].hi

\* A task that reports its record handled has handled it, and a commit in flight
\* is one of a settled prefix.
TaskInv(c, s) ==
    /\ task[c][s].ok => task[c][s].off \in handled
    /\ task[c][s].pc = "committing" => SettledBelow(task[c][s].to + 1)

\* From then on its commit position and what it is about to commit are settled.
TrackerInv(c) ==
    /\ completed[c] \subseteq handled
    /\ SettledBelow(lastCommitted[c] + 1)
    /\ \A s \in Slots : TaskInv(c, s)

ConsumerInv ==
    /\ TypeOK
    /\ NothingSkipped
    /\ \A c \in Consumers : BatchInv(c) /\ TrackerInv(c)

-----------------------------------------------------------------------------
(* Facts about single steps.                                               *)

\* Updating a function at one point keeps it in its function set.
LEMMA UpdateTyped ==
    ASSUME NEW S, NEW T, NEW f \in [S -> T], NEW x \in S, NEW v \in T
    PROVE  [f EXCEPT ![x] = v] \in [S -> T]
  OBVIOUS

\* Reading an assignment, or applying it, keeps the tracker's side typed.
LEMMA ApplyAssignmentTyped ==
    ASSUME TypeOK, NEW c \in Consumers, NEW current \in BOOLEAN,
           ApplyAssignment(c, current)
    PROVE  /\ generation' \in [Consumers -> Nat]
           /\ pausedForGap' \in [Consumers -> BOOLEAN]
           /\ snapshot' \in [Consumers -> BOOLEAN]
  <1>1. generation' \in [Consumers -> Nat]
    BY DEF TypeOK, ApplyAssignment
  <1>2. /\ pausedForGap' \in [Consumers -> BOOLEAN]
        /\ snapshot' \in [Consumers -> BOOLEAN]
    BY UpdateTyped, Zenon DEF TypeOK, ApplyAssignment
  <1> QED
    BY <1>1, <1>2

\* Pausing and resuming keep both flags typed.
LEMMA AdjustFlowTyped ==
    ASSUME TypeOK, NEW c \in Consumers, NEW last, AdjustFlow(c, last)
    PROVE  /\ pausedForGap' \in [Consumers -> BOOLEAN]
           /\ clientPaused' \in [Consumers -> BOOLEAN]
  <1> DEFINE pauseNow == GapDepth(c, last) > MaxGap /\ ~pausedForGap[c]
  <1>1. pauseNow \in BOOLEAN
    OBVIOUS
  <1> HIDE DEF pauseNow
  <1>2. \/ /\ pausedForGap' = [pausedForGap EXCEPT ![c] = pauseNow]
           /\ clientPaused' = [clientPaused EXCEPT ![c] = pauseNow]
        \/ UNCHANGED <<pausedForGap, clientPaused>>
    BY Zenon DEF AdjustFlow, pauseNow
  <1>3. CASE /\ pausedForGap' = [pausedForGap EXCEPT ![c] = pauseNow]
             /\ clientPaused' = [clientPaused EXCEPT ![c] = pauseNow]
    BY <1>1, <1>3, UpdateTyped, Zenon DEF TypeOK
  <1>4. CASE UNCHANGED <<pausedForGap, clientPaused>>
    BY <1>4 DEF TypeOK
  <1> QED
    BY <1>2, <1>3, <1>4

\* Moving a task on to another phase leaves a slot value.
LEMMA PhaseTyped ==
    ASSUME NEW t \in Tasks
    PROVE  /\ [t EXCEPT !.pc = "finalizing"] \in Tasks
           /\ [t EXCEPT !.pc = "finalizing", !.ok = TRUE] \in Tasks
           /\ \A n \in Offsets : [t EXCEPT !.pc = "committing", !.to = n] \in Tasks
  BY DEF Tasks

\* Writing one semaphore slot: the slots stay typed, the others stay the same.
LEMMA SetTaskEffect ==
    ASSUME TypeOK, NEW c \in Consumers, NEW s \in Slots, NEW t \in Tasks,
           SetTask(c, s, t)
    PROVE  /\ task' \in [Consumers -> [Slots -> Tasks]]
           /\ task'[c][s] = t
           /\ \A d \in Consumers, r \in Slots :
                 d # c \/ r # s => task'[d][r] = task[d][r]
  BY DEF TypeOK, SetTask

\* The empty slot is a slot value.
LEMMA NoTaskTyped == NoTask \in Tasks
  BY SizeAssumption DEF NoTask, Tasks, Offsets

\* What is settled stays settled, so prefixes known to be settled stay so.
LEMMA SettledStays ==
    ASSUME Settled \subseteq Settled', NEW n \in Int, SettledBelow(n)
    PROVE  SettledBelow(n)'
  BY DEF SettledBelow

\* Taking the next record off the batch; the record is one of the log.
LEMMA TakeFromBatchTyped ==
    ASSUME TypeOK, NEW c \in Consumers, BatchInv(c), TakeFromBatch(c)
    PROVE  /\ batch' \in [Consumers -> [lo : 0..MaxLog, hi : 0..MaxLog]]
           /\ runPc' \in [Consumers -> {"top", "polling", "fetched", "dispatching"}]
           /\ batch[c].lo \in Offsets
  <1>1. batch[c] \in [lo : 0..MaxLog, hi : 0..MaxLog] /\ batch[c].lo < batch[c].hi
    BY DEF TypeOK, BatchInv, TakeFromBatch
  <1>2. batch[c].lo \in Offsets
    BY <1>1, SizeAssumption DEF Offsets
  <1>3. [batch[c] EXCEPT !.lo = @ + 1] \in [lo : 0..MaxLog, hi : 0..MaxLog]
    BY <1>1, SizeAssumption
  <1>4. NoBatch \in [lo : 0..MaxLog, hi : 0..MaxLog]
    BY SizeAssumption DEF NoBatch
  <1> DEFINE rest == [batch[c] EXCEPT !.lo = @ + 1]
  <1>5. \/ batch' = [batch EXCEPT ![c] = rest]
        \/ batch' = [batch EXCEPT ![c] = NoBatch]
    BY DEF TakeFromBatch
  <1>6. rest \in [lo : 0..MaxLog, hi : 0..MaxLog]
    BY <1>3
  <1> HIDE DEF rest
  <1>7. batch' \in [Consumers -> [lo : 0..MaxLog, hi : 0..MaxLog]]
    <2>1. batch \in [Consumers -> [lo : 0..MaxLog, hi : 0..MaxLog]]
      BY DEF TypeOK
    <2> QED
      BY <1>4, <1>5, <1>6, <2>1
  <1>8. runPc' \in [Consumers -> {"top", "polling", "fetched", "dispatching"}]
    <2>1. runPc' = runPc \/ runPc' = [runPc EXCEPT ![c] = "top"]
      BY Zenon DEF TakeFromBatch
    <2> QED
      BY <2>1 DEF TypeOK
  <1> QED
    BY <1>2, <1>7, <1>8

\* A run of completed offsets extends a settled prefix.
LEMMA ContiguousSettled ==
    ASSUME NEW last \in -1..MaxLog-1, NEW done \in SUBSET Offsets, NEW n \in Offsets,
           SettledBelow(last + 1), ContiguousEnd(last, done, n),
           done \subseteq Settled
    PROVE  SettledBelow(n + 1)
  <1> SUFFICES ASSUME NEW o \in Offsets, o < n + 1
               PROVE  o \in Settled
    BY DEF SettledBelow
  <1>1. CASE o < last + 1
    BY <1>1 DEF SettledBelow
  <1>2. CASE ~(o < last + 1)
    <2>1. o \in (last+1)..n
      BY <1>2, SizeAssumption DEF Offsets
    <2> QED
      BY <2>1 DEF ContiguousEnd
  <1> QED
    BY <1>1, <1>2

-----------------------------------------------------------------------------
(* Type correctness.                                                       *)

\* Every step keeps the variables typed; the batch part of the invariant is what
\* makes the record at the head of a batch an offset of the log.
LEMMA TypeStep ==
    ASSUME ConsumerInv, [Next]_vars
    PROVE  TypeOK'
  <1> USE SizeAssumption, BudgetAssumption
      DEF ConsumerInv, TypeOK, Offsets, brokerVars, clientVars, loopVars,
          trackerVars, historyVars, boundVars
  <1>1. CASE Produce
    BY <1>1 DEF Produce
  <1>2. CASE Expel
    BY <1>2 DEF Expel
  <1>3. CASE SessionTimeout
    BY <1>3 DEF SessionTimeout
  <1>4. ASSUME NEW c \in Consumers, Join(c)
        PROVE  TypeOK'
    <2>1. 0..logEnd-1 \subseteq 0..MaxLog-1
      OBVIOUS
    <2>2. bypassed' \subseteq Offsets
      BY <1>4, <2>1 DEF Join, StartPosition
    <2>3. position' \in [Consumers -> 0..MaxLog]
      <3>1. PICK p \in 0..MaxLog : position' = [position EXCEPT ![c] = p]
        BY <1>4 DEF Join, StartPosition
      <3> QED
        BY <3>1
    <2> QED
      BY <1>4, <2>2, <2>3 DEF Join, StartPosition
  <1>5. ASSUME NEW c \in Consumers, LearnRevoked(c)
        PROVE  TypeOK'
    BY <1>5 DEF LearnRevoked
  <1>6. ASSUME NEW c \in Consumers, ReconcileSame(c)
        PROVE  TypeOK'
    BY <1>6 DEF ReconcileSame, AfterReconcile
  <1>7. ASSUME NEW c \in Consumers, ReconcileRead(c)
        PROVE  TypeOK'
    BY <1>7 DEF ReconcileRead
  <1>8. ASSUME NEW c \in Consumers, Reconcile(c)
        PROVE  TypeOK'
    <2>1. \E current \in BOOLEAN : ApplyAssignment(c, current)
      BY <1>8, Zenon DEF Reconcile
    <2>2. /\ generation' \in [Consumers -> Nat]
          /\ pausedForGap' \in [Consumers -> BOOLEAN]
          /\ snapshot' \in [Consumers -> BOOLEAN]
      BY <2>1, ApplyAssignmentTyped
    <2> QED
      BY <1>8, <2>2 DEF Reconcile, AfterReconcile
  <1>9. ASSUME NEW c \in Consumers, PollRecords(c)
        PROVE  TypeOK'
    BY <1>9 DEF PollRecords
  <1>10. ASSUME NEW c \in Consumers, PollNothing(c)
         PROVE  TypeOK'
    BY <1>10 DEF PollNothing
  <1>11. ASSUME NEW c \in Consumers, DispatchWithoutClient(c)
         PROVE  TypeOK'
    <2>1. /\ batch' \in [Consumers -> [lo : 0..MaxLog, hi : 0..MaxLog]]
          /\ runPc' \in [Consumers -> {"top", "polling", "fetched", "dispatching"}]
          /\ batch[c].lo \in Offsets
      BY <1>11, TakeFromBatchTyped DEF DispatchWithoutClient
    <2> QED
      BY <1>11, <2>1 DEF DispatchWithoutClient
  <1>12. ASSUME NEW c \in Consumers, NEW s \in Slots, Dispatch(c, s)
         PROVE  TypeOK'
    <2>1. /\ batch' \in [Consumers -> [lo : 0..MaxLog, hi : 0..MaxLog]]
          /\ runPc' \in [Consumers -> {"top", "polling", "fetched", "dispatching"}]
          /\ batch[c].lo \in Offsets
      BY <1>12, TakeFromBatchTyped DEF Dispatch, EnterTracker
    <2>2. [NoTask EXCEPT !.pc = "handling", !.off = batch[c].lo,
                         !.gen = generation[c]] \in Tasks
      BY <2>1, NoTaskTyped DEF Tasks
    <2>3. task' \in [Consumers -> [Slots -> Tasks]]
      BY <1>12, <2>2, SetTaskEffect, Zenon DEF Dispatch, EnterTracker
    <2>4. initialized' \in [Consumers -> BOOLEAN]
      BY <1>12, UpdateTyped, Zenon DEF Dispatch, EnterTracker
    <2>5. /\ lastCommitted' \in [Consumers -> -1..MaxLog-1]
          /\ maxSeen' \in [Consumers -> -1..MaxLog-1]
      BY <1>12, <2>1 DEF Dispatch, EnterTracker
    <2> QED
      BY <1>12, <2>1, <2>3, <2>4, <2>5 DEF Dispatch, EnterTracker
  <1>13. ASSUME NEW c \in Consumers, NEW s \in Slots, HandleSettled(c, s)
         PROVE  TypeOK'
    <2>1. task' \in [Consumers -> [Slots -> Tasks]]
      <3> DEFINE old == task[c][s]
      <3>1. old \in Tasks
        OBVIOUS
      <3> HIDE DEF old
      <3>2. [old EXCEPT !.pc = "finalizing", !.ok = TRUE] \in Tasks
        BY <3>1, PhaseTyped
      <3> QED
        BY <1>13, <3>2, SetTaskEffect DEF HandleSettled, old
    <2>2. handled' \subseteq Offsets
      BY <1>13 DEF HandleSettled, Tasks
    <2> QED
      BY <1>13, <2>1, <2>2 DEF HandleSettled
  <1>14. ASSUME NEW c \in Consumers, NEW s \in Slots, HandleUnsettled(c, s)
         PROVE  TypeOK'
    <2>1. task' \in [Consumers -> [Slots -> Tasks]]
      <3> DEFINE old == task[c][s]
      <3>1. old \in Tasks
        OBVIOUS
      <3> HIDE DEF old
      <3>2. [old EXCEPT !.pc = "finalizing"] \in Tasks
        BY <3>1, PhaseTyped
      <3> QED
        BY <1>14, <3>2, SetTaskEffect DEF HandleUnsettled, old
    <2> QED
      BY <1>14, <2>1 DEF HandleUnsettled
  <1>15. ASSUME NEW c \in Consumers, NEW s \in Slots, FinalizeStale(c, s)
         PROVE  TypeOK'
    BY <1>15, SetTaskEffect, NoTaskTyped DEF FinalizeStale
  <1>16. ASSUME NEW c \in Consumers, NEW s \in Slots, Finalize(c, s)
         PROVE  TypeOK'
    <2>1. task' \in [Consumers -> [Slots -> Tasks]]
      BY <1>16, SetTaskEffect, NoTaskTyped, PhaseTyped, Zenon DEF Finalize
    <2>2. /\ pausedForGap' \in [Consumers -> BOOLEAN]
          /\ clientPaused' \in [Consumers -> BOOLEAN]
      BY <1>16, AdjustFlowTyped, Zenon DEF Finalize
    <2>3. completed' \in [Consumers -> SUBSET Offsets]
      <3>1. PICK done \in SUBSET Offsets : completed' = [completed EXCEPT ![c] = done]
        <4>1. task[c][s].off \in Offsets
          BY DEF Tasks
        <4> QED
          BY <1>16, <4>1 DEF Finalize
      <3> QED
        BY <3>1
    <2> QED
      BY <1>16, <2>1, <2>2, <2>3 DEF Finalize
  <1>17. ASSUME NEW c \in Consumers, NEW s \in Slots, CommitOK(c, s)
         PROVE  TypeOK'
    <2>1. task' \in [Consumers -> [Slots -> Tasks]]
      BY <1>17, SetTaskEffect, NoTaskTyped, Zenon DEF CommitOK
    <2>2. /\ pausedForGap' \in [Consumers -> BOOLEAN]
          /\ clientPaused' \in [Consumers -> BOOLEAN]
      BY <1>17, AdjustFlowTyped, Zenon DEF CommitOK
    <2>3. /\ task[c][s].to \in Offsets
          /\ committed' = task[c][s].to + 1
          /\ lastCommitted' = [lastCommitted EXCEPT ![c] = task[c][s].to]
          /\ completed' \in [Consumers -> SUBSET Offsets]
      BY <1>17 DEF CommitOK, Tasks
    <2> QED
      BY <1>17, <2>1, <2>2, <2>3 DEF CommitOK
  <1>18. ASSUME NEW c \in Consumers, NEW s \in Slots, CommitRaises(c, s)
         PROVE  TypeOK'
    <2>1. task' \in [Consumers -> [Slots -> Tasks]]
      BY <1>18, SetTaskEffect, NoTaskTyped, Zenon DEF CommitRaises
    <2>2. /\ pausedForGap' \in [Consumers -> BOOLEAN]
          /\ clientPaused' \in [Consumers -> BOOLEAN]
      BY <1>18, AdjustFlowTyped, Zenon DEF CommitRaises
    <2>3. /\ task[c][s].to \in Offsets
          /\ committed' = committed \/ committed' = task[c][s].to + 1
      BY <1>18 DEF CommitRaises, Tasks
    <2> QED
      BY <1>18, <2>1, <2>2, <2>3 DEF CommitRaises
  <1>19. ASSUME NEW c \in Consumers, RestartStop(c)
         PROVE  TypeOK'
    BY <1>19 DEF RestartStop, LeaveGroup
  <1>25. ASSUME NEW c \in Consumers, RestartFence(c)
         PROVE  TypeOK'
    BY <1>25 DEF RestartFence
  <1>20. ASSUME NEW c \in Consumers, RestartStart(c) \/ RestartFails(c)
         PROVE  TypeOK'
    BY <1>20 DEF RestartStart, RestartFails
  <1>21. ASSUME NEW c \in Consumers, RestartReconcile(c)
         PROVE  TypeOK'
    <2>1. \/ UNCHANGED <<generation, pausedForGap, snapshot>>
          \/ \E current \in BOOLEAN : ApplyAssignment(c, current)
      BY <1>21, Zenon DEF RestartReconcile
    <2>2. /\ generation' \in [Consumers -> Nat]
          /\ pausedForGap' \in [Consumers -> BOOLEAN]
          /\ snapshot' \in [Consumers -> BOOLEAN]
      BY <2>1, ApplyAssignmentTyped
    <2> QED
      BY <1>21, <2>2 DEF RestartReconcile
  <1>22. ASSUME NEW c \in Consumers, Crash(c)
         PROVE  TypeOK'
    BY <1>22, NoTaskTyped DEF Crash, FreshProcess, NoBatch
  <1>23. ASSUME NEW c \in Consumers, Stop(c)
         PROVE  TypeOK'
    BY <1>23, NoTaskTyped DEF Stop, FreshProcess, LeaveGroup, NoBatch
  <1>24. CASE UNCHANGED vars
    BY <1>24 DEF vars
  <1> QED
    BY <1>1, <1>2, <1>3, <1>4, <1>5, <1>6, <1>7, <1>8, <1>9, <1>10, <1>11, <1>12,
       <1>13, <1>14, <1>15, <1>16, <1>17, <1>18, <1>19, <1>20, <1>21, <1>22,
       <1>23, <1>24, <1>25
    DEF Next, Loop, Lifecycle, RecordTask

-----------------------------------------------------------------------------
(* The committed offset never passes an unsettled record.                  *)

\* What is settled never becomes unsettled.
Grows == /\ handled \subseteq handled'
         /\ bypassed \subseteq bypassed'
         /\ dropped \subseteq dropped'

\* A settled prefix stays one.
LEMMA PrefixStays ==
    ASSUME Grows, NEW n \in Int, SettledBelow(n)
    PROVE  SettledBelow(n)'
  BY SettledStays DEF Grows, Settled

\* What the invariant says of a task survives a step that leaves it alone.
LEMMA TaskStays ==
    ASSUME TypeOK, Grows, NEW c \in Consumers, NEW s \in Slots, TaskInv(c, s),
           UNCHANGED task[c][s]
    PROVE  TaskInv(c, s)'
  <1>1. task[c][s].to + 1 \in Int
    BY SizeAssumption DEF TypeOK, Tasks, Offsets
  <1>2. SettledBelow(task[c][s].to + 1) => SettledBelow(task[c][s].to + 1)'
    BY <1>1, PrefixStays
  <1> QED
    BY <1>2 DEF TaskInv, Grows

\* What it says of the poll loop reads only these four variables.
LEMMA BatchStays ==
    ASSUME TypeOK, Grows, NEW c \in Consumers, BatchInv(c),
           UNCHANGED <<runPc[c], batch[c], initialized[c], position[c]>>
    PROVE  BatchInv(c)'
  <1>1. batch[c].lo \in Int /\ position[c] \in Int
    BY DEF TypeOK
  <1> QED
    BY <1>1, PrefixStays DEF BatchInv

\* What it says of the tracker, apart from the tasks, reads only these two.
LEMMA PrefixOfTrackerStays ==
    ASSUME TypeOK, Grows, NEW c \in Consumers, TrackerInv(c),
           UNCHANGED <<completed[c], lastCommitted[c]>>
    PROVE  /\ completed[c]' \subseteq handled'
           /\ SettledBelow(lastCommitted[c] + 1)'
  <1>1. lastCommitted[c] + 1 \in Int
    BY SizeAssumption DEF TypeOK
  <1>2. SettledBelow(lastCommitted[c] + 1)'
    BY <1>1, PrefixStays DEF TrackerInv
  <1> QED
    BY <1>2 DEF TrackerInv, Grows

\* All it says of the tracker survives a step that leaves tracker and tasks alone.
LEMMA TrackerStays ==
    ASSUME TypeOK, Grows, NEW c \in Consumers, TrackerInv(c),
           UNCHANGED <<completed[c], lastCommitted[c], task[c]>>
    PROVE  TrackerInv(c)'
  <1>1. \A s \in Slots : TaskInv(c, s)'
    BY TaskStays DEF TrackerInv
  <1> QED
    BY <1>1, PrefixOfTrackerStays DEF TrackerInv

\* Writing one slot: only what that slot holds now has to be checked.
LEMMA OtherTasksStay ==
    ASSUME TypeOK, Grows, NEW c \in Consumers, NEW s \in Slots, TrackerInv(c),
           NEW t \in Tasks, SetTask(c, s, t), TaskInv(c, s)'
    PROVE  \A r \in Slots : TaskInv(c, r)'
  <1>1. \A r \in Slots \ {s} : UNCHANGED task[c][r]
    BY SetTaskEffect
  <1> QED
    BY <1>1, TaskStays DEF TrackerInv

\* What the invariant says of one process reads nothing but this.
Local(c) == <<runPc[c], batch[c], initialized[c], position[c], completed[c],
              lastCommitted[c], task[c]>>

\* A step of one process has to be checked for that process only.
LEMMA OnlyOne ==
    ASSUME ConsumerInv, TypeOK', Grows, NEW c \in Consumers,
           \A d \in Consumers \ {c} : UNCHANGED Local(d),
           BatchInv(c)', TrackerInv(c)', NothingSkipped'
    PROVE  ConsumerInv'
  <1>1. ASSUME NEW d \in Consumers
        PROVE  BatchInv(d)' /\ TrackerInv(d)'
    BY <1>1, BatchStays, TrackerStays DEF ConsumerInv, Local
  <1> QED
    BY <1>1 DEF ConsumerInv

\* A step that leaves every poll loop and tracker alone, and does not commit.
LEMMA NoneTouched ==
    ASSUME ConsumerInv, TypeOK', Grows, UNCHANGED committed,
           \A d \in Consumers : UNCHANGED Local(d)
    PROVE  ConsumerInv'
  <1>1. NothingSkipped'
    BY PrefixStays DEF ConsumerInv, TypeOK, NothingSkipped
  <1>2. ASSUME NEW d \in Consumers
        PROVE  BatchInv(d)' /\ TrackerInv(d)'
    BY <1>2, BatchStays, TrackerStays DEF ConsumerInv, Local
  <1> QED
    BY <1>1, <1>2 DEF ConsumerInv

\* Steps of the broker and the coordinator, and those that touch assignments,
\* generations and pauses only.
LEMMA QuietStep ==
    ASSUME ConsumerInv, TypeOK',
           \/ Produce \/ Expel \/ SessionTimeout
           \/ \E c \in Consumers : \/ LearnRevoked(c) \/ ReconcileRead(c)
                                   \/ RestartFence(c) \/ RestartStart(c)
                                   \/ RestartFails(c) \/ RestartReconcile(c)
           \/ UNCHANGED vars
    PROVE  ConsumerInv'
  <1>1. /\ Grows
        /\ UNCHANGED committed
        /\ UNCHANGED <<runPc, batch, initialized, position, completed,
                       lastCommitted, task>>
    BY DEF Produce, Expel, SessionTimeout, LearnRevoked, ReconcileRead,
           RestartFence, RestartStart, RestartFails, RestartReconcile, vars, brokerVars, clientVars, loopVars,
           trackerVars, historyVars, boundVars, Grows
  <1> QED
    BY <1>1, NoneTouched DEF Local

\* A join moves the fetch position to where everything before is settled: the
\* committed offset, the start of the log, or the end that a reset jumps to.
LEMMA JoinStep ==
    ASSUME ConsumerInv, TypeOK', NEW c \in Consumers, Join(c)
    PROVE  ConsumerInv'
  <1> USE DEF ConsumerInv
  <1>1. /\ Grows
        /\ UNCHANGED committed
        /\ UNCHANGED <<runPc, batch, initialized, completed, lastCommitted, task>>
    BY DEF Join, StartPosition, loopVars, trackerVars, Grows
  <1>2. \A d \in Consumers \ {c} : UNCHANGED position[d]
    BY DEF TypeOK, Join, StartPosition
  <1>3. NothingSkipped'
    BY <1>1, PrefixStays DEF TypeOK, NothingSkipped
  <1>4. SettledBelow(position[c])'
    <2>1. CASE committed # NoOffset /\ position'[c] = committed
      BY <1>1, <1>3, <2>1 DEF NothingSkipped, SettledBelow, Settled
    <2>2. CASE position'[c] = 0
      BY <2>2 DEF SettledBelow, Offsets
    <2>3. CASE position'[c] = logEnd /\ bypassed' = bypassed \cup 0..logEnd-1
      BY <2>3 DEF SettledBelow, Settled, Offsets, TypeOK
    <2> QED
      BY <2>1, <2>2, <2>3 DEF Join, StartPosition, TypeOK
  <1>5. BatchInv(c)'
    <2>1. batch[c].lo \in Int
      BY DEF TypeOK
    <2> QED
      BY <1>1, <1>4, <2>1, PrefixStays DEF BatchInv
  <1>6. TrackerInv(c)'
    BY <1>1, TrackerStays
  <1> QED
    BY <1>1, <1>2, <1>3, <1>5, <1>6, OnlyOne DEF Local

\* The poll loop moves on; a reconcile ends where its batch says.
LEMMA LoopMoves ==
    ASSUME ConsumerInv, TypeOK', NEW c \in Consumers,
           \/ ReconcileSame(c) \/ Reconcile(c) \/ PollNothing(c)
           \/ RestartStop(c)
    PROVE  ConsumerInv'
  <1> USE DEF ConsumerInv
  <1>1. /\ Grows
        /\ UNCHANGED committed
        /\ UNCHANGED <<batch, initialized, position, completed, lastCommitted,
                       task>>
    BY DEF ReconcileSame, Reconcile, PollNothing, RestartStop, brokerVars,
           clientVars, trackerVars, historyVars, Grows
  <1>2. \A d \in Consumers \ {c} : UNCHANGED runPc[d]
    BY DEF TypeOK, ReconcileSame, Reconcile, PollNothing, RestartStop
  <1>3. NothingSkipped'
    BY <1>1, PrefixStays DEF TypeOK, NothingSkipped
  <1>4. /\ runPc'[c] \in {"top", "polling"} => ~(batch[c].lo < batch[c].hi)
        /\ runPc'[c] = "dispatching" => batch[c].lo < batch[c].hi
    BY DEF BatchInv, TypeOK, ReconcileSame, Reconcile, PollNothing, RestartStop,
           AfterReconcile
  <1>5. BatchInv(c)'
    <2>1. batch[c].lo \in Int /\ position[c] \in Int
      BY DEF TypeOK
    <2> QED
      BY <1>1, <1>4, <2>1, PrefixStays DEF BatchInv
  <1>6. TrackerInv(c)'
    BY <1>1, TrackerStays
  <1> QED
    BY <1>1, <1>2, <1>3, <1>5, <1>6, OnlyOne DEF Local

\* A fetch starts where the position stood: with no tracker yet, everything
\* before it is settled.
LEMMA PollStep ==
    ASSUME ConsumerInv, TypeOK', NEW c \in Consumers, PollRecords(c)
    PROVE  ConsumerInv'
  <1> USE DEF ConsumerInv
  <1>1. /\ Grows
        /\ UNCHANGED committed
        /\ UNCHANGED <<initialized, completed, lastCommitted, task>>
    BY DEF PollRecords, brokerVars, trackerVars, historyVars, Grows
  <1>2. \A d \in Consumers \ {c} : UNCHANGED <<runPc[d], batch[d], position[d]>>
    BY DEF TypeOK, PollRecords
  <1>3. NothingSkipped'
    BY <1>1, PrefixStays DEF TypeOK, NothingSkipped
  <1>4. BatchInv(c)'
    <2>1. PICK n \in 1..MaxBatch :
              /\ batch'[c] = [lo |-> position[c], hi |-> position[c] + n]
              /\ position'[c] = position[c] + n
      BY DEF PollRecords, TypeOK
    <2>2. runPc'[c] = "fetched" /\ runPc[c] = "polling"
      BY DEF PollRecords, TypeOK
    <2>3. ~initialized[c] => SettledBelow(position[c])
      BY <2>2 DEF BatchInv
    <2>4. position[c] \in Int
      BY DEF TypeOK
    <2>5. ~initialized'[c] => SettledBelow(batch[c].lo)'
      BY <1>1, <2>1, <2>3, <2>4 DEF SettledBelow, Settled, Grows
    <2> QED
      BY <2>1, <2>2, <2>4, <2>5, SizeAssumption DEF BatchInv
  <1>5. TrackerInv(c)'
    BY <1>1, TrackerStays
  <1> QED
    BY <1>1, <1>2, <1>3, <1>4, <1>5, OnlyOne DEF Local

\* The head of a batch comes off; the record that is now first, or the fetch
\* position behind a finished batch, has everything before it settled if the
\* tracker is still empty and the record taken off was settled.
LEMMA TakeKeepsBatch ==
    ASSUME ConsumerInv, TypeOK', Grows, NEW c \in Consumers, TakeFromBatch(c),
           UNCHANGED position,
           initialized'[c] \/ (~initialized[c] /\ batch[c].lo \in Settled')
    PROVE  /\ BatchInv(c)'
           /\ \A d \in Consumers \ {c} : UNCHANGED <<runPc[d], batch[d]>>
  <1> USE DEF ConsumerInv
  <1>0. PICK lo \in 0..MaxLog, hi \in 0..MaxLog :
            batch[c].lo = lo /\ batch[c].hi = hi
    BY DEF TypeOK
  <1>1. position[c] \in Int
    BY DEF TypeOK
  <1>2. lo < hi /\ runPc[c] = "dispatching"
    BY <1>0 DEF BatchInv, TakeFromBatch
  <1>3. \/ /\ lo + 1 < hi /\ runPc'[c] = "dispatching"
           /\ batch'[c].lo = lo + 1 /\ batch'[c].hi = hi
        \/ /\ ~(lo + 1 < hi) /\ runPc'[c] = "top"
           /\ batch'[c].lo = 0 /\ batch'[c].hi = 0
    BY <1>0 DEF TakeFromBatch, NoBatch, TypeOK
  <1>4. \A d \in Consumers \ {c} : UNCHANGED <<runPc[d], batch[d]>>
    BY DEF TakeFromBatch, TypeOK
  <1>5. ASSUME ~initialized'[c]
        PROVE  /\ SettledBelow(lo + 1)'
               /\ \/ SettledBelow(position[c])'
                  \/ position[c] = hi
    <2>1. SettledBelow(lo) /\ (SettledBelow(position[c]) \/ position[c] = hi)
      BY <1>0, <1>2, <1>5 DEF BatchInv
    <2>2. SettledBelow(lo)' /\ (SettledBelow(position[c])' \/ position[c] = hi)
      BY <1>1, <2>1, PrefixStays
    <2>3. SettledBelow(lo + 1)'
      BY <1>0, <1>5, <2>2 DEF SettledBelow, Offsets
    <2> QED
      BY <2>2, <2>3
  <1>6. BatchInv(c)'
    <2>1. CASE lo + 1 < hi
      BY <1>3, <1>5, <2>1 DEF BatchInv
    <2>2. CASE ~(lo + 1 < hi)
      <3>1. lo + 1 = hi
        BY <1>2, <2>2
      <3>2. ~initialized'[c] => SettledBelow(position[c])'
        BY <1>5, <3>1
      <3> QED
        BY <1>3, <2>2, <3>2 DEF BatchInv
    <2> QED
      BY <2>1, <2>2
  <1> QED
    BY <1>4, <1>6

\* A record whose task dies at once counts as settled from here on.
LEMMA DispatchWithoutClientStep ==
    ASSUME ConsumerInv, TypeOK', NEW c \in Consumers, DispatchWithoutClient(c)
    PROVE  ConsumerInv'
  <1> USE DEF ConsumerInv
  <1>1. /\ Grows
        /\ UNCHANGED <<committed, position>>
        /\ UNCHANGED <<initialized, completed, lastCommitted, task>>
        /\ TakeFromBatch(c)
    BY DEF DispatchWithoutClient, brokerVars, clientVars, trackerVars, Grows
  <1>2. NothingSkipped'
    BY <1>1, PrefixStays DEF TypeOK, NothingSkipped
  <1>3. initialized'[c] \/ (~initialized[c] /\ batch[c].lo \in Settled')
    BY <1>1 DEF DispatchWithoutClient, Settled
  <1>4. /\ BatchInv(c)'
        /\ \A d \in Consumers \ {c} : UNCHANGED <<runPc[d], batch[d]>>
    BY <1>1, <1>3, TakeKeepsBatch
  <1>5. TrackerInv(c)'
    BY <1>1, TrackerStays
  <1> QED
    BY <1>1, <1>2, <1>4, <1>5, OnlyOne DEF Local

\* The first record a tracker gets becomes its commit position: everything
\* before that record is settled.
LEMMA DispatchStep ==
    ASSUME ConsumerInv, TypeOK', NEW c \in Consumers, NEW s \in Slots,
           Dispatch(c, s)
    PROVE  ConsumerInv'
  <1> USE DEF ConsumerInv
  <1>1. /\ Grows
        /\ UNCHANGED <<committed, position, handled, bypassed, dropped>>
        /\ UNCHANGED completed
        /\ TakeFromBatch(c)
    BY DEF Dispatch, EnterTracker, brokerVars, clientVars, historyVars, Grows
  <1>2. NothingSkipped'
    BY <1>1, PrefixStays DEF TypeOK, NothingSkipped
  <1>3. initialized'[c]
    BY DEF Dispatch, EnterTracker, TypeOK
  <1>4. /\ BatchInv(c)'
        /\ \A d \in Consumers \ {c} : UNCHANGED <<runPc[d], batch[d]>>
    BY <1>1, <1>3, TakeKeepsBatch
  <1>5. batch[c].lo \in Offsets /\ batch[c].lo < batch[c].hi
    BY <1>1, TakeFromBatchTyped DEF TakeFromBatch, BatchInv
  <1> DEFINE t == [NoTask EXCEPT !.pc = "handling", !.off = batch[c].lo,
                                 !.gen = generation[c]]
  <1>6. t \in Tasks /\ t.pc = "handling" /\ ~t.ok /\ SetTask(c, s, t)
    BY <1>5, NoTaskTyped DEF Tasks, NoTask, Dispatch, EnterTracker, TypeOK
  <1> HIDE DEF t
  <1>7. \A d \in Consumers \ {c} :
            UNCHANGED <<initialized[d], lastCommitted[d], task[d]>>
    BY <1>6 DEF Dispatch, EnterTracker, SetTask, TypeOK
  <1>8. \A r \in Slots : TaskInv(c, r)'
    <2>1. TaskInv(c, s)'
      BY <1>6, SetTaskEffect DEF TaskInv
    <2> QED
      BY <1>1, <1>6, <2>1, OtherTasksStay
  <1>9. SettledBelow(lastCommitted[c] + 1)'
    <2>1. CASE initialized[c]
      <3>1. UNCHANGED lastCommitted[c]
        BY <2>1 DEF Dispatch, EnterTracker, TypeOK
      <3> QED
        BY <1>1, <3>1, PrefixOfTrackerStays
    <2>2. CASE ~initialized[c]
      <3>1. lastCommitted'[c] = batch[c].lo - 1
        BY <2>2 DEF Dispatch, EnterTracker, TypeOK
      <3>2. SettledBelow(batch[c].lo)
        BY <1>5, <2>2 DEF BatchInv
      <3> QED
        BY <1>1, <1>5, <3>1, <3>2 DEF SettledBelow, Settled, Offsets
    <2> QED
      BY <2>1, <2>2
  <1>10. TrackerInv(c)'
    BY <1>1, <1>8, <1>9 DEF TrackerInv
  <1> QED
    BY <1>1, <1>2, <1>4, <1>7, <1>10, OnlyOne DEF Local

\* Steps of a task before it touches the tracker, and the end of a fenced one.
LEMMA TaskMoves ==
    ASSUME ConsumerInv, TypeOK', NEW c \in Consumers, NEW s \in Slots,
           \/ HandleSettled(c, s) \/ HandleUnsettled(c, s)
           \/ FinalizeStale(c, s)
    PROVE  ConsumerInv'
  <1> USE DEF ConsumerInv
  <1>1. /\ Grows
        /\ UNCHANGED <<committed, runPc, batch, initialized, position, completed,
                       lastCommitted>>
    BY DEF HandleSettled, HandleUnsettled, FinalizeStale, brokerVars, clientVars,
           loopVars, trackerVars, historyVars, Grows
  <1>2. NothingSkipped'
    BY <1>1, PrefixStays DEF TypeOK, NothingSkipped
  <1>3. PICK old \in Tasks : old = task[c][s]
    BY DEF TypeOK
  <1>4. PICK t \in Tasks :
            /\ SetTask(c, s, t)
            /\ t.pc # "committing"
            /\ t.ok => t.off \in handled'
    <2>1. CASE HandleSettled(c, s)
      <3> DEFINE t == [old EXCEPT !.pc = "finalizing", !.ok = TRUE]
      <3>1. t \in Tasks /\ t.pc = "finalizing" /\ t.off = old.off
        BY <1>3, PhaseTyped DEF Tasks
      <3>2. SetTask(c, s, t) /\ old.off \in handled'
        BY <1>3, <2>1 DEF HandleSettled
      <3> QED
        BY <3>1, <3>2
    <2>2. CASE HandleUnsettled(c, s)
      <3> DEFINE t == [old EXCEPT !.pc = "finalizing"]
      <3>1. t \in Tasks /\ t.pc = "finalizing" /\ t.off = old.off /\ t.ok = old.ok
        BY <1>3, PhaseTyped DEF Tasks
      <3>2. SetTask(c, s, t) /\ (old.ok => old.off \in handled')
        BY <1>1, <1>3, <2>2 DEF HandleUnsettled, TrackerInv, TaskInv, Grows
      <3> QED
        BY <3>1, <3>2
    <2>3. CASE FinalizeStale(c, s)
      BY <2>3, NoTaskTyped DEF FinalizeStale, NoTask
    <2> QED
      BY <2>1, <2>2, <2>3
  <1>5. TaskInv(c, s)'
    BY <1>4, SetTaskEffect DEF TaskInv
  <1>6. TrackerInv(c)'
    <2>1. \A r \in Slots : TaskInv(c, r)'
      BY <1>1, <1>4, <1>5, OtherTasksStay
    <2> QED
      BY <1>1, <2>1, PrefixOfTrackerStays DEF TrackerInv
  <1>7. BatchInv(c)'
    BY <1>1, BatchStays
  <1>8. \A d \in Consumers \ {c} : UNCHANGED task[d]
    BY <1>4 DEF SetTask, TypeOK
  <1> QED
    BY <1>1, <1>2, <1>6, <1>7, <1>8, OnlyOne DEF Local

\* A finished record extends the settled prefix, and the commit that starts is
\* of that prefix.
LEMMA FinalizeStep ==
    ASSUME ConsumerInv, TypeOK', NEW c \in Consumers, NEW s \in Slots,
           Finalize(c, s)
    PROVE  ConsumerInv'
  <1> USE DEF ConsumerInv
  <1>1. /\ Grows
        /\ UNCHANGED <<handled, bypassed, dropped>>
        /\ UNCHANGED <<committed, runPc, batch, initialized, position,
                       lastCommitted>>
    BY DEF Finalize, brokerVars, loopVars, historyVars, Grows
  <1>2. NothingSkipped'
    BY <1>1, PrefixStays DEF TypeOK, NothingSkipped
  <1>3. PICK old \in Tasks : old = task[c][s]
    BY DEF TypeOK
  <1>4. PICK done \in SUBSET Offsets :
            /\ done = IF old.ok THEN completed[c] \cup {old.off} ELSE completed[c]
            /\ completed' = [completed EXCEPT ![c] = done]
    <2> DEFINE done == IF old.ok THEN completed[c] \cup {old.off} ELSE completed[c]
    <2>1. done \in SUBSET Offsets
      BY <1>3 DEF TypeOK, Tasks
    <2>2. completed' = [completed EXCEPT ![c] = done]
      BY <1>3, Zenon DEF Finalize
    <2> QED
      BY <2>1, <2>2
  <1>5. done \subseteq handled
    BY <1>3, <1>4 DEF TrackerInv, TaskInv
  <1>6. PICK t \in Tasks :
            /\ SetTask(c, s, t)
            /\ t.ok => t.off \in handled
            /\ t.pc = "committing" => SettledBelow(t.to + 1)
    <2>1. CASE SetTask(c, s, NoTask)
      BY <2>1, NoTaskTyped DEF NoTask
    <2>2. CASE \E n \in Offsets :
                  /\ ContiguousEnd(lastCommitted[c], done, n)
                  /\ SetTask(c, s, [old EXCEPT !.pc = "committing", !.to = n])
      <3>1. PICK n \in Offsets :
                  /\ ContiguousEnd(lastCommitted[c], done, n)
                  /\ SetTask(c, s, [old EXCEPT !.pc = "committing", !.to = n])
        BY <2>2
      <3>2. SettledBelow(n + 1)
        <4>1. lastCommitted[c] \in -1..MaxLog-1
          BY DEF TypeOK
        <4>2. SettledBelow(lastCommitted[c] + 1)
          BY DEF TrackerInv
        <4> QED
          BY <1>5, <3>1, <4>1, <4>2, ContiguousSettled DEF Settled
      <3> DEFINE t == [old EXCEPT !.pc = "committing", !.to = n]
      <3>3. t \in Tasks /\ t.to = n /\ t.ok = old.ok /\ t.off = old.off
        BY <1>3, PhaseTyped DEF Tasks
      <3>4. old.ok => old.off \in handled
        BY <1>3 DEF TrackerInv, TaskInv
      <3> HIDE DEF t
      <3> QED
        BY <3>1, <3>2, <3>3, <3>4 DEF t
    <2>3. \/ SetTask(c, s, NoTask)
          \/ \E n \in Offsets :
                  /\ ContiguousEnd(lastCommitted[c], done, n)
                  /\ SetTask(c, s, [old EXCEPT !.pc = "committing", !.to = n])
      BY <1>3, <1>4, Zenon DEF Finalize
    <2> QED
      BY <2>1, <2>2, <2>3
  <1>7. TaskInv(c, s)'
    BY <1>1, <1>6, SetTaskEffect DEF TaskInv, SettledBelow, Settled
  <1>8. TrackerInv(c)'
    <2>1. \A r \in Slots : TaskInv(c, r)'
      BY <1>1, <1>6, <1>7, OtherTasksStay
    <2>2. completed'[c] \subseteq handled'
      BY <1>1, <1>4, <1>5 DEF TypeOK
    <2>3. SettledBelow(lastCommitted[c] + 1)'
      BY <1>1 DEF TrackerInv, SettledBelow, Settled
    <2> QED
      BY <2>1, <2>2, <2>3 DEF TrackerInv
  <1>9. BatchInv(c)'
    BY <1>1, BatchStays
  <1>10. \A d \in Consumers \ {c} : UNCHANGED <<task[d], completed[d]>>
    BY <1>4, <1>6 DEF SetTask, TypeOK
  <1> QED
    BY <1>1, <1>2, <1>8, <1>9, <1>10, OnlyOne DEF Local

\* A commit lands, or its answer is lost: the broker and the tracker move to a
\* prefix that is settled.
LEMMA CommitStep ==
    ASSUME ConsumerInv, TypeOK', NEW c \in Consumers, NEW s \in Slots,
           CommitOK(c, s) \/ CommitRaises(c, s)
    PROVE  ConsumerInv'
  <1> USE DEF ConsumerInv
  <1>1. /\ Grows
        /\ UNCHANGED <<handled, bypassed, dropped>>
        /\ UNCHANGED <<runPc, batch, initialized, position>>
        /\ SetTask(c, s, NoTask)
        /\ task[c][s].pc = "committing"
    BY DEF CommitOK, CommitRaises, loopVars, historyVars, Grows
  <1>2. PICK to \in Offsets : to = task[c][s].to
    BY DEF TypeOK, Tasks
  <1>3. SettledBelow(to + 1)'
    BY <1>1, <1>2 DEF TrackerInv, TaskInv, SettledBelow, Settled
  <1>4. /\ committed' = committed \/ committed' = to + 1
        /\ lastCommitted'[c] = lastCommitted[c] \/ lastCommitted'[c] = to
        /\ completed'[c] \subseteq completed[c]
        /\ \A d \in Consumers \ {c} :
                UNCHANGED <<lastCommitted[d], completed[d]>>
    BY <1>2 DEF CommitOK, CommitRaises, TypeOK
  <1>5. NothingSkipped'
    BY <1>1, <1>3, <1>4 DEF NothingSkipped, SettledBelow, Settled
  <1>6. TrackerInv(c)'
    <2>1. TaskInv(c, s)'
      BY <1>1, SetTaskEffect, NoTaskTyped DEF TaskInv, NoTask
    <2>2. \A r \in Slots : TaskInv(c, r)'
      BY <1>1, <2>1, NoTaskTyped, OtherTasksStay
    <2>3. SettledBelow(lastCommitted[c] + 1)'
      BY <1>1, <1>3, <1>4 DEF TrackerInv, SettledBelow, Settled
    <2> QED
      BY <1>1, <1>4, <2>2, <2>3 DEF TrackerInv
  <1>7. BatchInv(c)'
    BY <1>1, BatchStays
  <1>8. \A d \in Consumers \ {c} : UNCHANGED task[d]
    BY <1>1 DEF SetTask, TypeOK
  <1> QED
    BY <1>1, <1>4, <1>5, <1>6, <1>7, <1>8, OnlyOne DEF Local

\* A new process starts from nothing; what a stop commits is a settled prefix.
LEMMA EndStep ==
    ASSUME ConsumerInv, TypeOK', NEW c \in Consumers, Crash(c) \/ Stop(c)
    PROVE  ConsumerInv'
  <1> USE DEF ConsumerInv
  <1>1. /\ Grows
        /\ UNCHANGED <<handled, bypassed, dropped>>
        /\ FreshProcess(c)
    BY DEF Crash, Stop, historyVars, Grows
  <1>2. NothingSkipped'
    <2>1. CASE committed' = committed
      BY <1>1, <2>1 DEF NothingSkipped, SettledBelow, Settled
    <2>2. CASE \E n \in Offsets :
                  /\ ContiguousEnd(lastCommitted[c], completed[c], n)
                  /\ committed' = n + 1
      <3>1. PICK n \in Offsets :
                  /\ ContiguousEnd(lastCommitted[c], completed[c], n)
                  /\ committed' = n + 1
        BY <2>2
      <3>2. /\ lastCommitted[c] \in -1..MaxLog-1
            /\ completed[c] \in SUBSET Offsets
            /\ completed[c] \subseteq Settled
            /\ SettledBelow(lastCommitted[c] + 1)
        BY DEF TypeOK, TrackerInv, Settled
      <3>3. SettledBelow(n + 1)
        BY <3>1, <3>2, ContiguousSettled
      <3> QED
        BY <1>1, <3>1, <3>3 DEF NothingSkipped, SettledBelow, Settled
    <2>3. \/ committed' = committed
          \/ \E n \in Offsets :
                  /\ ContiguousEnd(lastCommitted[c], completed[c], n)
                  /\ committed' = n + 1
      BY Zenon DEF Crash, Stop, brokerVars
    <2> QED
      BY <2>1, <2>2, <2>3
  <1>3. /\ runPc'[c] = "top" /\ batch'[c] = NoBatch /\ position'[c] = 0
        /\ completed'[c] = {} /\ lastCommitted'[c] = -1
        /\ task'[c] = [s \in Slots |-> NoTask]
        /\ \A d \in Consumers \ {c} : UNCHANGED Local(d)
    BY <1>1 DEF FreshProcess, TypeOK, Local
  <1>4. BatchInv(c)'
    BY <1>3 DEF BatchInv, NoBatch, SettledBelow, Offsets
  <1>5. TrackerInv(c)'
    BY <1>3, SizeAssumption DEF TrackerInv, TaskInv, NoTask, SettledBelow, Offsets
  <1> QED
    BY <1>1, <1>2, <1>3, <1>4, <1>5, OnlyOne

\* The invariant holds at the start, and every step keeps it.
LEMMA InvInit ==
    ASSUME Init
    PROVE  ConsumerInv
  <1>1. TypeOK
    <2>1. task \in [Consumers -> [Slots -> Tasks]]
      BY NoTaskTyped DEF Init
    <2>2. NoBatch \in [lo : 0..MaxLog, hi : 0..MaxLog] /\ 0 \in 0..MaxLog
      BY SizeAssumption DEF NoBatch
    <2>3. -1 \in -1..MaxLog-1
      BY SizeAssumption
    <2> QED
      BY <2>1, <2>2, <2>3 DEF Init, TypeOK
  <1>2. NothingSkipped
    BY DEF Init, NothingSkipped, SettledBelow, Offsets
  <1>3. ASSUME NEW c \in Consumers
        PROVE  BatchInv(c) /\ TrackerInv(c)
    BY SizeAssumption
    DEF Init, BatchInv, TrackerInv, TaskInv, NoTask, NoBatch, SettledBelow, Offsets
  <1> QED
    BY <1>1, <1>2, <1>3 DEF ConsumerInv

\* Every step keeps the invariant, by the lemma of its action.
LEMMA InvStep ==
    ASSUME ConsumerInv, [Next]_vars
    PROVE  ConsumerInv'
  <1>1. TypeOK'
    BY TypeStep
  <1> QED
    BY <1>1, QuietStep, JoinStep, LoopMoves, PollStep, DispatchWithoutClientStep,
       DispatchStep, TaskMoves, FinalizeStep, CommitStep, EndStep, Zenon
    DEF Next, Loop, RecordTask, Lifecycle

\* The strengthened invariant holds in every reachable state.
LEMMA ConsumerIsCorrect == Spec => []ConsumerInv
  BY InvInit, InvStep, PTL DEF Spec

\* The variables keep their types, whatever the size of the group and the log.
THEOREM ConsumerIsTyped == Spec => []TypeOK
  <1>1. ConsumerInv => TypeOK
    BY DEF ConsumerInv
  <1> QED
    BY <1>1, ConsumerIsCorrect, PTL

\* At-least-once: the group's committed offset never passes an unsettled record
\* (_advance_commit_locked), for every group, log, batch size and gap, and every
\* number of crashes, restarts, expulsions and failed commits.
THEOREM NeverSkips == Spec => []NothingSkipped
  <1>1. ConsumerInv => NothingSkipped
    BY DEF ConsumerInv
  <1> QED
    BY <1>1, ConsumerIsCorrect, PTL

-----------------------------------------------------------------------------
(* The consumer group implements the ledger.                               *)

\* A step leaves the committed offset alone and takes no record out of the
\* settled ones, or it commits and settles nothing.
LEMMA CommitsOrSettles ==
    ASSUME TypeOK, [Next]_vars
    PROVE  \/ /\ UNCHANGED committed
              /\ Grows
           \/ /\ UNCHANGED <<handled, bypassed, dropped>>
              /\ \E n \in Offsets : committed' = n + 1
  <1> USE DEF Grows, brokerVars, historyVars
  <1>1. CASE Produce \/ Expel \/ SessionTimeout \/ UNCHANGED vars
    BY <1>1 DEF Produce, Expel, SessionTimeout, vars
  <1>2. ASSUME NEW c \in Consumers, Join(c) \/ LearnRevoked(c)
        PROVE  UNCHANGED committed /\ Grows
    BY <1>2 DEF Join, StartPosition, LearnRevoked
  <1>3. ASSUME NEW c \in Consumers, Loop(c)
        PROVE  UNCHANGED committed /\ Grows
    BY <1>3 DEF Loop, ReconcileSame, ReconcileRead, Reconcile, PollRecords,
                PollNothing, DispatchWithoutClient, Dispatch
  <1>4. ASSUME NEW c \in Consumers, NEW s \in Slots,
               \/ HandleSettled(c, s) \/ HandleUnsettled(c, s)
               \/ FinalizeStale(c, s) \/ Finalize(c, s)
        PROVE  UNCHANGED committed /\ Grows
    BY <1>4, Zenon DEF HandleSettled, HandleUnsettled, FinalizeStale, Finalize
  <1>5. ASSUME NEW c \in Consumers, NEW s \in Slots,
               CommitOK(c, s) \/ CommitRaises(c, s)
        PROVE  /\ UNCHANGED <<handled, bypassed, dropped>>
               /\ \/ UNCHANGED committed
                  \/ \E n \in Offsets : committed' = n + 1
    <2>1. task[c][s].to \in Offsets
      BY DEF TypeOK, Tasks
    <2> QED
      BY <1>5, <2>1 DEF CommitOK, CommitRaises
  <1>6. ASSUME NEW c \in Consumers, Lifecycle(c), ~Stop(c)
        PROVE  UNCHANGED committed /\ Grows
    BY <1>6 DEF Lifecycle, RestartFence, RestartStop, RestartStart, RestartFails,
                RestartReconcile, Crash
  <1>7. ASSUME NEW c \in Consumers, Stop(c)
        PROVE  /\ UNCHANGED <<handled, bypassed, dropped>>
               /\ \/ UNCHANGED committed
                  \/ \E n \in Offsets : committed' = n + 1
    BY <1>7 DEF Stop
  <1> QED
    BY <1>1, <1>2, <1>3, <1>4, <1>5, <1>6, <1>7 DEF Next, RecordTask, Lifecycle

\* Every step settles records, commits a settled prefix, or is a stutter.
LEMMA LedgerStep ==
    ASSUME ConsumerInv, ConsumerInv', [Next]_vars
    PROVE  [Ledger!Next]_(Ledger!ledgerVars)
  <1>1. Settled' \subseteq 0..MaxLog-1
    BY DEF Settled, ConsumerInv, TypeOK, Offsets
  <1>2. CASE UNCHANGED committed /\ Grows
    <2>1. Settled' = Settled \cup Settled'
      BY <1>2 DEF Grows, Settled
    <2> QED
      BY <1>1, <1>2, <2>1 DEF Ledger!Next, Ledger!Settle
  <1>3. CASE /\ UNCHANGED <<handled, bypassed, dropped>>
             /\ \E n \in Offsets : committed' = n + 1
    <2>1. PICK m \in 1..MaxLog : committed' = m
      BY <1>3, SizeAssumption DEF Offsets
    <2>2. 0..m-1 \subseteq Settled' /\ UNCHANGED Settled
      BY <1>3, <2>1, SizeAssumption
      DEF ConsumerInv, NothingSkipped, SettledBelow, Offsets, Settled
    <2> QED
      BY <2>1, <2>2 DEF Ledger!Next, Ledger!Commit
  <1> QED
    BY <1>2, <1>3, CommitsOrSettles DEF ConsumerInv

\* The consumer group implements the ledger: whatever its processes do, the
\* broker sees commits of settled prefixes and nothing else
\* (_advance_commit_locked, _drain_and_finalize_commits).
THEOREM ConsumerImplementsLedger == Spec => LedgerSpec
  <1>1. Init => Ledger!Init
    BY DEF Init, Ledger!Init, Settled, Ledger!NoOffset
  <1>2. ConsumerInv /\ ConsumerInv' /\ [Next]_vars
           => [Ledger!Next]_(Ledger!ledgerVars)
    BY LedgerStep
  <1> QED
    BY <1>1, <1>2, ConsumerIsCorrect, PTL DEF Spec, LedgerSpec, Ledger!Spec

-----------------------------------------------------------------------------
(* Where the tracker stands to the batch in hand, to the broker and to the *)
(* gap.  LocalInv holds always; FlowInv as long as nobody is expelled and  *)
(* no client restarted; CommitInv also when there is only one process.     *)

Held(c) == batch[c].hi - batch[c].lo

\* The loop has a batch in hand exactly when it dispatches or is about to.
HandInv(c) ==
    /\ batch[c].lo <= batch[c].hi
    /\ Held(c) <= MaxBatch
    /\ runPc[c] \in {"top", "polling"} => batch[c].lo = batch[c].hi
    /\ runPc[c] = "dispatching" => batch[c].lo < batch[c].hi
    /\ ~HasClient(c) => ~assigned[c]

\* One commit is under way at most, of a prefix that is complete meanwhile; a
\* tracker that has got no record has no tasks.
LockInv(c) ==
    /\ \A s, t \in Slots :
          task[c][s].pc = "committing" /\ task[c][t].pc = "committing" => s = t
    /\ \A s \in Slots : task[c][s].pc = "committing" =>
          /\ lastCommitted[c] < task[c][s].to
          /\ (lastCommitted[c]+1)..task[c][s].to \subseteq completed[c]
    /\ ~initialized[c] =>
          /\ lastCommitted[c] = -1 /\ maxSeen[c] = -1 /\ completed[c] = {}
          /\ \A s \in Slots : task[c][s] = NoTask

LocalInv == \A c \in Consumers : HandInv(c) /\ LockInv(c)

\* What the invariants read of one process.
View(c) == <<restart[c], seen[c], assigned[c], snapshot[c], clientPaused[c], pausedForGap[c],
             generation[c], task[c], runPc[c], batch[c], position[c], initialized[c],
             maxSeen[c], lastCommitted[c], completed[c]>>

StepOf(c) == \/ Join(c) \/ LearnRevoked(c) \/ Loop(c) \/ Lifecycle(c)
             \/ \E s \in Slots : RecordTask(c, s)

Environment == Produce \/ Expel \/ SessionTimeout \/ UNCHANGED vars

\* A step is one of the environment or one of a process.
LEMMA StepsAre == [Next]_vars <=> Environment \/ \E c \in Consumers : StepOf(c)
BY DEF Next, StepOf, Environment

\* The environment writes records and takes the partition away, no more.
LEMMA EnvironmentTouchesNone ==
    ASSUME Environment, NEW d \in Consumers
    PROVE  UNCHANGED View(d) /\ UNCHANGED <<committed, dropped>>
BY DEF Environment, Produce, Expel, SessionTimeout, vars, View, brokerVars, clientVars, loopVars,
       trackerVars, historyVars

\* Adjusting the flow touches the two flags of the process only, and together.
LEMMA AdjustFlowAt ==
    ASSUME TypeOK, NEW c \in Consumers, NEW last \in -1..MaxLog-1, AdjustFlow(c, last)
    PROVE  /\ \A d \in Consumers \ {c} : UNCHANGED <<pausedForGap[d], clientPaused[d]>>
           /\ \/ UNCHANGED <<pausedForGap[c], clientPaused[c]>>
              \/ /\ GapDepth(c, last) > MaxGap
                 /\ pausedForGap'[c] = TRUE /\ clientPaused'[c] = TRUE
              \/ /\ pausedForGap[c] = TRUE /\ GapDepth(c, last) <= ResumeAt
                 /\ pausedForGap'[c] = FALSE /\ clientPaused'[c] = FALSE
           /\ HasClient(c) /\ snapshot[c] /\ assigned[c] /\ ~pausedForGap'[c] =>
                 GapDepth(c, last) <= ReadOnGap
<1> DEFINE gap == GapDepth(c, last)
           pauseNow == gap > MaxGap /\ ~pausedForGap[c]
           resumeNow == pausedForGap[c] /\ gap <= ResumeAt
<1>1. gap \in Int /\ MaxGap \in Int /\ ResumeAt \in Int
  BY SizeAssumption DEF TypeOK, GapDepth
<1>2. /\ pausedForGap \in [Consumers -> BOOLEAN] /\ clientPaused \in [Consumers -> BOOLEAN]
      /\ pausedForGap[c] \in BOOLEAN
  BY DEF TypeOK
<1>3. \/ /\ HasClient(c) /\ snapshot[c] /\ assigned[c] /\ (pauseNow \/ resumeNow)
         /\ pausedForGap' = [pausedForGap EXCEPT ![c] = pauseNow]
         /\ clientPaused' = [clientPaused EXCEPT ![c] = pauseNow]
      \/ /\ ~(HasClient(c) /\ snapshot[c] /\ assigned[c] /\ (pauseNow \/ resumeNow))
         /\ UNCHANGED <<pausedForGap, clientPaused>>
  BY Zenon DEF AdjustFlow
<1> HIDE DEF gap
<1>4. /\ \A d \in Consumers \ {c} : UNCHANGED <<pausedForGap[d], clientPaused[d]>>
      /\ \/ UNCHANGED <<pausedForGap[c], clientPaused[c]>>
         \/ /\ pausedForGap'[c] = pauseNow /\ clientPaused'[c] = pauseNow
            /\ pauseNow \/ resumeNow
  <2>1. pauseNow \in BOOLEAN
    OBVIOUS
  <2> HIDE DEF pauseNow, resumeNow
  <2> QED BY <1>2, <1>3, <2>1
<1>5. \/ UNCHANGED <<pausedForGap[c], clientPaused[c]>>
      \/ gap > MaxGap /\ pausedForGap'[c] = TRUE /\ clientPaused'[c] = TRUE
      \/ /\ pausedForGap[c] = TRUE /\ gap <= ResumeAt
         /\ pausedForGap'[c] = FALSE /\ clientPaused'[c] = FALSE
  <2>1. CASE pauseNow
    BY <1>4, <2>1
  <2>2. CASE ~pauseNow /\ resumeNow
    <3>1. pauseNow = FALSE
      BY <2>2
    <3> QED BY <1>2, <1>4, <2>2, <3>1
  <2> QED BY <1>4, <2>1, <2>2
<1>6. HasClient(c) /\ snapshot[c] /\ assigned[c] /\ ~pausedForGap'[c] => gap <= ReadOnGap
  <2> SUFFICES ASSUME HasClient(c), snapshot[c], assigned[c], ~pausedForGap'[c]
               PROVE  gap <= ReadOnGap
    OBVIOUS
  <2>1. CASE pauseNow \/ resumeNow
    <3>1. pausedForGap'[c] = pauseNow
      BY <1>2, <1>3, <2>1
    <3>2. ~pauseNow
      BY <3>1
    <3>3. gap <= ResumeAt
      BY <2>1, <3>2
    <3> QED BY <1>1, <3>3 DEF ReadOnGap
  <2>2. CASE ~pauseNow /\ ~resumeNow
    <3>1. ~pausedForGap[c]
      BY <1>3, <2>2
    <3>2. ~(gap > MaxGap)
      BY <2>2, <3>1
    <3> QED BY <1>1, <3>2 DEF ReadOnGap
  <2> QED BY <2>1, <2>2
<1> QED BY <1>4, <1>5, <1>6, Zenon DEF gap

\* A step of one process touches no other.
LEMMA OthersUntouched ==
    ASSUME TypeOK, NEW c \in Consumers, NEW d \in Consumers, d # c, StepOf(c)
    PROVE  UNCHANGED View(d)
<1> USE DEF View, TypeOK, brokerVars, clientVars, loopVars, trackerVars, historyVars
<1>1. CASE Join(c) \/ LearnRevoked(c)
  BY <1>1 DEF Join, LearnRevoked, StartPosition
<1>2. CASE ReconcileSame(c) \/ ReconcileRead(c) \/ Reconcile(c)
  BY <1>2 DEF ReconcileSame, ReconcileRead, Reconcile, ApplyAssignment
<1>3. CASE PollRecords(c) \/ PollNothing(c)
  BY <1>3 DEF PollRecords, PollNothing
<1>4. CASE DispatchWithoutClient(c)
  BY <1>4 DEF DispatchWithoutClient, TakeFromBatch
<1>5. ASSUME NEW s \in Slots, Dispatch(c, s) PROVE UNCHANGED View(d)
  BY <1>5 DEF Dispatch, TakeFromBatch, SetTask, EnterTracker
<1>6. ASSUME NEW s \in Slots, HandleSettled(c, s) \/ HandleUnsettled(c, s) \/ FinalizeStale(c, s)
      PROVE  UNCHANGED View(d)
  BY <1>6 DEF HandleSettled, HandleUnsettled, FinalizeStale, SetTask
<1>7. ASSUME NEW s \in Slots, Finalize(c, s) PROVE UNCHANGED View(d)
  <2>1. UNCHANGED <<pausedForGap[d], clientPaused[d]>>
    <3>1. UNCHANGED <<pausedForGap, clientPaused>> \/ AdjustFlow(c, lastCommitted[c])
      BY <1>7, Zenon DEF Finalize
    <3>2. lastCommitted[c] \in -1..MaxLog-1
      OBVIOUS
    <3> QED BY <3>1, <3>2, AdjustFlowAt
  <2>2. \E t : SetTask(c, s, t)
    BY <1>7, Zenon DEF Finalize
  <2> QED BY <1>7, <2>1, <2>2 DEF Finalize, SetTask
<1>8. ASSUME NEW s \in Slots, CommitOK(c, s) \/ CommitRaises(c, s) PROVE UNCHANGED View(d)
  <2>1. \E last \in -1..MaxLog-1 : AdjustFlow(c, last)
    <3>1. /\ lastCommitted[c] \in -1..MaxLog-1 /\ task[c][s].to \in Offsets
          /\ Offsets \subseteq -1..MaxLog-1
      BY SizeAssumption DEF Tasks, Offsets
    <3> QED BY <1>8, <3>1 DEF CommitOK, CommitRaises
  <2>2. UNCHANGED <<pausedForGap[d], clientPaused[d]>>
    BY <2>1, AdjustFlowAt
  <2> QED BY <1>8, <2>2 DEF CommitOK, CommitRaises, SetTask
<1>10. CASE RestartFence(c) \/ RestartStop(c) \/ RestartStart(c) \/ RestartFails(c)
            \/ RestartReconcile(c)
  BY <1>10 DEF RestartFence, RestartStop, RestartStart, RestartFails, RestartReconcile,
               LeaveGroup, ApplyAssignment
<1>11. CASE Crash(c) \/ Stop(c)
  BY <1>11 DEF Crash, Stop, FreshProcess, LeaveGroup
<1> QED BY <1>1, <1>2, <1>3, <1>4, <1>5, <1>6, <1>7, <1>8, <1>10, <1>11
        DEF StepOf, Loop, Lifecycle, RecordTask

\* Taking a record off the batch.
LEMMA TakeFromBatchAt ==
    ASSUME TypeOK, NEW c \in Consumers, HandInv(c), TakeFromBatch(c)
    PROVE  /\ batch[c].lo < batch[c].hi /\ Held(c)' = Held(c) - 1
           /\ \/ /\ batch'[c].lo = batch[c].lo + 1 /\ batch'[c].hi = batch[c].hi
                 /\ batch'[c].lo < batch'[c].hi /\ runPc'[c] = "dispatching"
              \/ /\ batch[c].lo + 1 = batch[c].hi /\ batch'[c].lo = 0 /\ batch'[c].hi = 0
                 /\ runPc'[c] = "top"
<1>1. batch[c] \in [lo : 0..MaxLog, hi : 0..MaxLog] /\ batch[c].lo < batch[c].hi
  BY DEF TypeOK, HandInv, TakeFromBatch
<1>2. batch \in [Consumers -> [lo : 0..MaxLog, hi : 0..MaxLog]] /\ runPc[c] = "dispatching"
      /\ runPc \in [Consumers -> {"top", "polling", "fetched", "dispatching"}]
  BY DEF TypeOK, TakeFromBatch
<1>3. \/ /\ batch' = [batch EXCEPT ![c] = [batch[c] EXCEPT !.lo = @ + 1]]
         /\ batch[c].lo + 1 < batch[c].hi /\ UNCHANGED runPc
      \/ /\ batch' = [batch EXCEPT ![c] = NoBatch] /\ ~(batch[c].lo + 1 < batch[c].hi)
         /\ runPc' = [runPc EXCEPT ![c] = "top"]
  BY <1>1 DEF TakeFromBatch
<1>4. CASE /\ batch' = [batch EXCEPT ![c] = [batch[c] EXCEPT !.lo = @ + 1]]
           /\ batch[c].lo + 1 < batch[c].hi /\ UNCHANGED runPc
  <2>1. batch'[c].lo = batch[c].lo + 1 /\ batch'[c].hi = batch[c].hi
    BY <1>1, <1>2, <1>4
  <2> QED BY <1>1, <1>2, <1>4, <2>1 DEF Held
<1>5. CASE /\ batch' = [batch EXCEPT ![c] = NoBatch] /\ ~(batch[c].lo + 1 < batch[c].hi)
           /\ runPc' = [runPc EXCEPT ![c] = "top"]
  <2>1. batch'[c].lo = 0 /\ batch'[c].hi = 0
    BY <1>1, <1>2, <1>5 DEF NoBatch
  <2> QED BY <1>1, <1>2, <1>5, <2>1 DEF Held
<1> QED BY <1>3, <1>4, <1>5

\* What is said of the batch in hand is kept.
LEMMA HandKept ==
    ASSUME TypeOK, NEW c \in Consumers, HandInv(c), StepOf(c)
    PROVE  HandInv(c)'
<1>0. /\ batch[c].lo \in Int /\ batch[c].hi \in Int /\ batch[c].lo <= batch[c].hi
      /\ ~(batch[c].lo < batch[c].hi) => batch[c].lo = batch[c].hi
  <2>1. batch[c].lo \in Int /\ batch[c].hi \in Int
    BY DEF TypeOK
  <2>2. batch[c].lo <= batch[c].hi
    BY DEF HandInv
  <2> HIDE DEF TypeOK
  <2> QED BY <2>1, <2>2, SMT
<1> USE SizeAssumption DEF HandInv, Held, HasClient, TypeOK, brokerVars, clientVars, loopVars
<1>1. CASE Join(c) \/ LearnRevoked(c)
  BY <1>1 DEF Join, LearnRevoked
<1>2. CASE ReconcileSame(c) \/ ReconcileRead(c) \/ Reconcile(c)
  <2>1. UNCHANGED <<batch, assigned, restart>>
    BY <1>2 DEF ReconcileSame, ReconcileRead, Reconcile
  <2>2. \/ runPc'[c] = runPc[c]
        \/ runPc'[c] = AfterReconcile(c) /\ runPc[c] \in {"top", "fetched"}
    BY <1>2 DEF ReconcileSame, ReconcileRead, Reconcile
  <2>3. batch[c].lo \in Int /\ batch[c].hi \in Int
    OBVIOUS
  <2>4. CASE runPc'[c] = runPc[c]
    BY <2>1, <2>4
  <2>5. CASE runPc'[c] = AfterReconcile(c) /\ runPc[c] = "top"
    <3>1. runPc'[c] = "polling"
      BY <2>5, Zenon DEF AfterReconcile
    <3> QED BY <2>1, <2>5, <3>1
  <2>6. CASE runPc'[c] = AfterReconcile(c) /\ runPc[c] = "fetched" /\ batch[c].lo < batch[c].hi
    <3>1. runPc'[c] = "dispatching"
      BY <2>6 DEF AfterReconcile
    <3> QED BY <2>1, <2>6, <3>1
  <2>7. CASE runPc'[c] = AfterReconcile(c) /\ runPc[c] = "fetched" /\ ~(batch[c].lo < batch[c].hi)
    <3>1. runPc'[c] = "top"
      BY <2>7 DEF AfterReconcile
    <3>2. batch[c].lo = batch[c].hi
      BY <1>0, <2>7
    <3>3. batch'[c] = batch[c] /\ assigned' = assigned /\ restart' = restart
      BY <2>1
    <3> QED BY <3>1, <3>2, <3>3
  <2> QED BY <2>2, <2>4, <2>5, <2>6, <2>7
<1>3. CASE PollRecords(c)
  <2>1. PICK n \in 1..MaxBatch :
           batch' = [batch EXCEPT ![c] = [lo |-> position[c], hi |-> position[c] + n]]
    BY <1>3 DEF PollRecords
  <2>2. batch'[c].lo = position[c] /\ batch'[c].hi = position[c] + n
    BY <2>1
  <2> QED BY <1>3, <2>2 DEF PollRecords
<1>4. CASE PollNothing(c)
  BY <1>4 DEF PollNothing
<1>5. CASE DispatchWithoutClient(c)
  <2>1. TakeFromBatch(c) /\ UNCHANGED <<assigned, restart>>
    BY <1>5 DEF DispatchWithoutClient
  <2>2. batch[c].lo \in Int /\ batch[c].hi \in Int
    OBVIOUS
  <2> QED BY <2>1, <2>2, TakeFromBatchAt
<1>6. ASSUME NEW s \in Slots, Dispatch(c, s) PROVE HandInv(c)'
  <2>1. TakeFromBatch(c) /\ UNCHANGED <<assigned, restart>>
    BY <1>6 DEF Dispatch
  <2>2. batch[c].lo \in Int /\ batch[c].hi \in Int
    OBVIOUS
  <2> QED BY <2>1, <2>2, TakeFromBatchAt
<1>7. ASSUME NEW s \in Slots, RecordTask(c, s) PROVE HandInv(c)'
  <2>1. UNCHANGED <<batch, runPc, assigned, restart>>
    BY <1>7 DEF RecordTask, HandleSettled, HandleUnsettled, FinalizeStale, Finalize, CommitOK,
                CommitRaises
  <2> QED BY <2>1
<1>8. CASE RestartFence(c) \/ RestartStop(c) \/ RestartStart(c) \/ RestartFails(c)
            \/ RestartReconcile(c)
  BY <1>8 DEF RestartFence, RestartStop, RestartStart, RestartFails, RestartReconcile, LeaveGroup
<1>9. CASE Crash(c) \/ Stop(c)
  BY <1>9 DEF Crash, Stop, FreshProcess, LeaveGroup, NoBatch
<1> QED BY <1>1, <1>2, <1>3, <1>4, <1>5, <1>6, <1>7, <1>8, <1>9
        DEF StepOf, Loop, Lifecycle, RecordTask

\* A task is started in an empty slot.
LEMMA DispatchAt ==
    ASSUME TypeOK, NEW c \in Consumers, NEW s \in Slots, HandInv(c), Dispatch(c, s)
    PROVE  /\ task[c][s] = NoTask /\ ~LockHeld(c) /\ TakeFromBatch(c) /\ batch[c].lo \in Offsets
           /\ task'[c][s].pc = "handling" /\ task'[c][s].off = batch[c].lo
           /\ task'[c][s].gen = generation[c] /\ task'[c][s] # NoTask
           /\ \A r \in Slots \ {s} : task'[c][r] = task[c][r]
           /\ initialized'[c] = TRUE
           /\ lastCommitted'[c] = IF initialized[c] THEN lastCommitted[c] ELSE batch[c].lo - 1
           /\ maxSeen'[c] = IF batch[c].lo > maxSeen[c] THEN batch[c].lo ELSE maxSeen[c]
           /\ completed' = completed
<1> DEFINE t == [NoTask EXCEPT !.pc = "handling", !.off = batch[c].lo, !.gen = generation[c]]
<1>1. TakeFromBatch(c) /\ SetTask(c, s, t) /\ EnterTracker(c, batch[c].lo)
      /\ task[c][s] = NoTask /\ ~LockHeld(c) /\ completed' = completed
  BY DEF Dispatch
<1>2. batch[c].lo \in Offsets
  <2>1. batch[c] \in [lo : 0..MaxLog, hi : 0..MaxLog] /\ batch[c].lo < batch[c].hi
    BY <1>1, TakeFromBatchAt DEF TypeOK
  <2> QED BY <2>1, SizeAssumption DEF Offsets
<1>3. t \in Tasks /\ t.pc = "handling" /\ t.off = batch[c].lo /\ t.gen = generation[c]
  BY <1>2, NoTaskTyped DEF Tasks, NoTask, TypeOK
<1>4. t # NoTask
  BY <1>3 DEF NoTask
<1> HIDE DEF t
<1>5. task'[c][s] = t /\ \A r \in Slots \ {s} : task'[c][r] = task[c][r]
  BY <1>1, <1>3, SetTaskEffect
<1>6. /\ initialized'[c] = TRUE
      /\ lastCommitted'[c] = IF initialized[c] THEN lastCommitted[c] ELSE batch[c].lo - 1
      /\ maxSeen'[c] = IF batch[c].lo > maxSeen[c] THEN batch[c].lo ELSE maxSeen[c]
  BY <1>1 DEF EnterTracker, TypeOK
<1> QED BY <1>1, <1>2, <1>3, <1>4, <1>5, <1>6

\* A task that is there moves on, or leaves.
LEMMA TaskAt ==
    ASSUME TypeOK, NEW c \in Consumers, NEW s \in Slots, RecordTask(c, s)
    PROVE  /\ task[c][s].pc # "idle" /\ task[c][s] # NoTask
           /\ \A r \in Slots \ {s} : task'[c][r] = task[c][r]
           /\ UNCHANGED <<maxSeen, initialized, generation, snapshot, assigned, position, batch,
                          runPc, restart, seen, dropped, owner>>
           /\ \/ /\ task'[c][s].pc = "finalizing" /\ task'[c][s].gen = task[c][s].gen
                 /\ task'[c][s] # NoTask /\ task[c][s].pc = "handling"
                 /\ UNCHANGED <<completed, lastCommitted, committed, pausedForGap, clientPaused>>
              \/ /\ task'[c][s] = NoTask /\ task[c][s].gen # generation[c]
                 /\ UNCHANGED <<completed, lastCommitted, committed, pausedForGap, clientPaused>>
              \/ Finalize(c, s)
              \/ task'[c][s] = NoTask /\ CommitOK(c, s)
              \/ task'[c][s] = NoTask /\ CommitRaises(c, s)
<1> DEFINE old == task[c][s]
<1>0. old \in Tasks
  BY DEF TypeOK
<1>1. old.pc # "idle" /\ old # NoTask
  <2>1. old.pc = "handling" \/ old.pc = "finalizing" \/ old.pc = "committing"
    BY Zenon DEF RecordTask, HandleSettled, HandleUnsettled, FinalizeStale, Finalize, CommitOK,
                 CommitRaises
  <2>2. NoTask.pc = "idle"
    BY DEF NoTask
  <2> HIDE DEF old
  <2> QED BY <2>1, <2>2
<1>2. UNCHANGED <<maxSeen, initialized, generation, snapshot, assigned, position, batch,
                  runPc, restart, seen, dropped, owner>>
  BY DEF RecordTask, HandleSettled, HandleUnsettled, FinalizeStale, Finalize, CommitOK,
         CommitRaises, brokerVars, clientVars, loopVars, trackerVars, historyVars
<1>3. CASE HandleSettled(c, s) \/ HandleUnsettled(c, s)
  <2> HIDE DEF old
  <2>1. PICK t \in Tasks : SetTask(c, s, t) /\ t.pc = "finalizing" /\ t.gen = old.gen
    <3>1. /\ [old EXCEPT !.pc = "finalizing"] \in Tasks
          /\ [old EXCEPT !.pc = "finalizing", !.ok = TRUE] \in Tasks
      BY <1>0, PhaseTyped
    <3>2. /\ [old EXCEPT !.pc = "finalizing"].pc = "finalizing"
          /\ [old EXCEPT !.pc = "finalizing", !.ok = TRUE].pc = "finalizing"
          /\ [old EXCEPT !.pc = "finalizing"].gen = old.gen
          /\ [old EXCEPT !.pc = "finalizing", !.ok = TRUE].gen = old.gen
      BY <1>0 DEF Tasks
    <3> QED BY <1>3, <3>1, <3>2 DEF HandleSettled, HandleUnsettled, old
  <2>2. task'[c][s] = t /\ \A r \in Slots \ {s} : task'[c][r] = task[c][r]
    BY <2>1, SetTaskEffect
  <2>3. t # NoTask /\ old.pc = "handling"
    BY <1>3, <2>1 DEF NoTask, HandleSettled, HandleUnsettled, old
  <2>4. UNCHANGED <<completed, lastCommitted, committed, pausedForGap, clientPaused>>
    BY <1>3 DEF HandleSettled, HandleUnsettled, trackerVars, brokerVars, clientVars
  <2> QED BY <1>1, <1>2, <2>1, <2>2, <2>3, <2>4 DEF old
<1>4. CASE FinalizeStale(c, s)
  <2>1. SetTask(c, s, NoTask) /\ task[c][s].gen # generation[c]
        /\ UNCHANGED <<completed, lastCommitted, committed, pausedForGap, clientPaused>>
    BY <1>4 DEF FinalizeStale, trackerVars, brokerVars, clientVars
  <2> QED BY <1>1, <1>2, <2>1, NoTaskTyped, SetTaskEffect
<1>5. CASE Finalize(c, s)
  <2>1. \E t \in Tasks : SetTask(c, s, t)
    BY <1>0, <1>5, PhaseTyped, NoTaskTyped, Zenon DEF Finalize
  <2> QED BY <1>1, <1>2, <1>5, <2>1, SetTaskEffect
<1>6. CASE CommitOK(c, s) \/ CommitRaises(c, s)
  <2>1. SetTask(c, s, NoTask)
    BY <1>6 DEF CommitOK, CommitRaises
  <2> QED BY <1>1, <1>2, <1>6, <2>1, NoTaskTyped, SetTaskEffect
<1> QED BY <1>3, <1>4, <1>5, <1>6 DEF RecordTask

\* The outcome of a task is recorded; a longer complete prefix is committed next.
LEMMA FinalizeAt ==
    ASSUME TypeOK, NEW c \in Consumers, NEW s \in Slots, Finalize(c, s)
    PROVE  /\ ~LockHeld(c) /\ lastCommitted' = lastCommitted /\ committed' = committed
           /\ completed[c] \subseteq completed'[c]
           /\ \/ /\ task'[c][s].pc = "committing" /\ task'[c][s].to \in Offsets
                 /\ task'[c][s].gen = task[c][s].gen /\ task'[c][s] # NoTask
                 /\ ContiguousEnd(lastCommitted[c], completed'[c], task'[c][s].to)
                 /\ UNCHANGED <<pausedForGap, clientPaused>>
              \/ task'[c][s] = NoTask /\ AdjustFlow(c, lastCommitted[c])
<1> DEFINE old == task[c][s]
           done == IF old.ok THEN completed[c] \cup {old.off} ELSE completed[c]
<1>1. old \in Tasks /\ completed \in [Consumers -> SUBSET Offsets]
  BY DEF TypeOK
<1>2. /\ ~LockHeld(c) /\ lastCommitted' = lastCommitted /\ committed' = committed
      /\ completed' = [completed EXCEPT ![c] = done]
  BY DEF Finalize, brokerVars
<1>3. completed'[c] = done /\ completed[c] \subseteq done
  BY <1>1, <1>2
<1>4. \/ /\ \E n \in Offsets :
               /\ ContiguousEnd(lastCommitted[c], done, n)
               /\ SetTask(c, s, [old EXCEPT !.pc = "committing", !.to = n])
         /\ UNCHANGED <<pausedForGap, clientPaused>>
      \/ SetTask(c, s, NoTask) /\ AdjustFlow(c, lastCommitted[c])
  BY Zenon DEF Finalize
<1> HIDE DEF done, old
<1>5. CASE /\ \E n \in Offsets :
                 /\ ContiguousEnd(lastCommitted[c], done, n)
                 /\ SetTask(c, s, [old EXCEPT !.pc = "committing", !.to = n])
           /\ UNCHANGED <<pausedForGap, clientPaused>>
  <2>1. PICK n \in Offsets : /\ ContiguousEnd(lastCommitted[c], done, n)
                             /\ SetTask(c, s, [old EXCEPT !.pc = "committing", !.to = n])
    BY <1>5
  <2> DEFINE t == [old EXCEPT !.pc = "committing", !.to = n]
  <2>2. t \in Tasks
    BY <1>1, PhaseTyped
  <2>3. t.pc = "committing" /\ t.to = n /\ t.gen = old.gen
    BY <1>1 DEF Tasks
  <2> HIDE DEF t
  <2>4. task'[c][s] = t
    BY <2>1, <2>2, SetTaskEffect DEF t
  <2>5. t # NoTask
    BY <2>3 DEF NoTask
  <2> QED BY <1>2, <1>3, <1>5, <2>1, <2>3, <2>4, <2>5 DEF old
<1>6. CASE SetTask(c, s, NoTask) /\ AdjustFlow(c, lastCommitted[c])
  BY <1>2, <1>3, <1>6, NoTaskTyped, SetTaskEffect
<1> QED BY <1>4, <1>5, <1>6

\* A commit ends, stored or not, recorded or not.
LEMMA CommitAt ==
    ASSUME TypeOK, NEW c \in Consumers, NEW s \in Slots, CommitOK(c, s) \/ CommitRaises(c, s)
    PROVE  /\ task[c][s].pc = "committing" /\ task[c][s].to \in Offsets
           /\ \/ /\ assigned[c] /\ owner = c /\ committed' = task[c][s].to + 1
                 /\ lastCommitted'[c] = task[c][s].to
                 /\ completed'[c] = completed[c] \ ((lastCommitted[c]+1)..task[c][s].to)
                 /\ AdjustFlow(c, task[c][s].to)
              \/ /\ \/ committed' = committed
                    \/ assigned[c] /\ owner = c /\ committed' = task[c][s].to + 1
                 /\ UNCHANGED <<lastCommitted, completed>> /\ AdjustFlow(c, lastCommitted[c])
<1>1. task[c][s] \in Tasks
  BY DEF TypeOK
<1>2. task[c][s].to \in Offsets
  BY <1>1 DEF Tasks
<1> QED BY <1>2 DEF CommitOK, CommitRaises, TypeOK

\* What is said of commits under way and of empty trackers is kept.
LEMMA LockKept ==
    ASSUME TypeOK, NEW c \in Consumers, HandInv(c), LockInv(c), StepOf(c)
    PROVE  LockInv(c)'
<1> DEFINE Part == <<task[c], lastCommitted[c], completed[c], initialized[c], maxSeen[c]>>
<1>0. ASSUME UNCHANGED Part PROVE LockInv(c)'
  BY <1>0 DEF LockInv
<1>1. CASE Join(c) \/ LearnRevoked(c)
  BY <1>0, <1>1 DEF Join, LearnRevoked, trackerVars
<1>2. CASE ReconcileSame(c) \/ ReconcileRead(c) \/ Reconcile(c)
  BY <1>0, <1>2 DEF ReconcileSame, ReconcileRead, Reconcile, trackerVars
<1>3. CASE PollRecords(c) \/ PollNothing(c) \/ DispatchWithoutClient(c)
  BY <1>0, <1>3 DEF PollRecords, PollNothing, DispatchWithoutClient, trackerVars
<1>4. ASSUME NEW s \in Slots, Dispatch(c, s) PROVE LockInv(c)'
  <2>1. /\ task'[c][s].pc = "handling" /\ initialized'[c] = TRUE /\ completed' = completed
        /\ \A r \in Slots \ {s} : task'[c][r] = task[c][r]
        /\ ~LockHeld(c)
    BY <1>4, DispatchAt
  <2>2. \A r \in Slots : task'[c][r].pc # "committing"
    BY <2>1 DEF LockHeld
  <2> QED BY <2>1, <2>2 DEF LockInv
<1>5. ASSUME NEW s \in Slots, RecordTask(c, s) PROVE LockInv(c)'
  <2>1. /\ task[c][s] # NoTask /\ UNCHANGED <<maxSeen, initialized>>
        /\ \A r \in Slots \ {s} : task'[c][r] = task[c][r]
    BY <1>5, TaskAt
  <2>2. initialized'[c]
    BY <2>1 DEF LockInv
  <2>3. NoTask.pc # "committing"
    BY DEF NoTask
  <2>4. CASE /\ task'[c][s].pc # "committing"
             /\ UNCHANGED <<completed, lastCommitted>>
    BY <2>1, <2>2, <2>4 DEF LockInv
  <2>5. CASE Finalize(c, s)
    <3>1. ~LockHeld(c) /\ lastCommitted' = lastCommitted /\ completed[c] \subseteq completed'[c]
      BY <2>5, FinalizeAt
    <3>2. \A r \in Slots : task'[c][r].pc = "committing" => r = s
      BY <2>1, <3>1 DEF LockHeld
    <3>3. task'[c][s].pc = "committing" => /\ lastCommitted'[c] < task'[c][s].to
                                           /\ (lastCommitted'[c]+1)..task'[c][s].to \subseteq completed'[c]
      <4>1. \/ ContiguousEnd(lastCommitted[c], completed'[c], task'[c][s].to)
               /\ task'[c][s].to \in Offsets
            \/ task'[c][s] = NoTask
        BY <2>5, FinalizeAt
      <4>2. lastCommitted[c] \in Int /\ Offsets \subseteq Int
        BY DEF TypeOK, Offsets
      <4> QED BY <2>3, <3>1, <4>1, <4>2 DEF ContiguousEnd
    <3> QED BY <2>2, <3>2, <3>3 DEF LockInv
  <2>6. CASE task'[c][s] = NoTask /\ (CommitOK(c, s) \/ CommitRaises(c, s))
    <3>1. task[c][s].pc = "committing"
      BY <2>6, CommitAt
    <3>2. \A r \in Slots : task'[c][r].pc # "committing"
      BY <2>1, <2>3, <2>6, <3>1 DEF LockInv
    <3> QED BY <2>2, <3>2 DEF LockInv
  <2> QED BY <1>5, <2>3, <2>4, <2>5, <2>6, TaskAt
<1>6. CASE RestartFence(c) \/ RestartStop(c) \/ RestartStart(c) \/ RestartFails(c)
            \/ RestartReconcile(c)
  BY <1>0, <1>6 DEF RestartFence, RestartStop, RestartStart, RestartFails, RestartReconcile,
                    trackerVars
<1>7. CASE Crash(c) \/ Stop(c)
  <2>1. /\ \A s \in Slots : task'[c][s] = NoTask
        /\ lastCommitted'[c] = -1 /\ maxSeen'[c] = -1 /\ completed'[c] = {}
    BY <1>7 DEF Crash, Stop, FreshProcess, TypeOK
  <2>2. NoTask.pc # "committing"
    BY DEF NoTask
  <2> QED BY <2>1, <2>2 DEF LockInv
<1> QED BY <1>1, <1>2, <1>3, <1>4, <1>5, <1>6, <1>7 DEF StepOf, Loop, Lifecycle

\* Every step keeps the local invariant of every process.
LEMMA LocalStep ==
    ASSUME TypeOK, LocalInv, [Next]_vars
    PROVE  LocalInv'
<1>1. ASSUME NEW d \in Consumers, UNCHANGED View(d)
      PROVE  HandInv(d)' /\ LockInv(d)'
  BY <1>1 DEF LocalInv, View, HandInv, Held, HasClient, LockInv
<1>2. CASE Environment
  BY <1>1, <1>2, EnvironmentTouchesNone DEF LocalInv
<1>3. ASSUME NEW c \in Consumers, StepOf(c) PROVE LocalInv'
  BY <1>1, <1>3, OthersUntouched, HandKept, LockKept DEF LocalInv
<1> QED BY <1>2, <1>3, StepsAre

\* It holds at the start.
LEMMA LocalStart == Init => LocalInv
BY SizeAssumption DEF Init, LocalInv, HandInv, LockInv, Held, HasClient, NoBatch, NoTask

-----------------------------------------------------------------------------
(* Backpressure.                                                           *)

Undisturbed == expels = 0 /\ restarts = 0

Gap(c) == GapDepth(c, lastCommitted[c])

Busy(c) == {s \in Slots : task[c][s] # NoTask}

\* With no expulsion and no restart a process has one assignment in its life, its
\* tasks are all of this assignment, and its tracker follows the fetch position.
MemberInv(c) ==
    /\ restart[c] = "no" /\ seen[c] = "unread"
    /\ assigned[c] => owner = c
    /\ snapshot[c] => assigned[c]
    /\ clientPaused[c] = pausedForGap[c]
    /\ pausedForGap[c] \/ initialized[c] \/ runPc[c] = "dispatching" => snapshot[c]
    /\ \A s \in Slots : task[c][s] # NoTask =>
                           snapshot[c] /\ task[c][s].gen = generation[c]
    /\ batch[c].lo < batch[c].hi => assigned[c] /\ position[c] = batch[c].hi
    /\ initialized[c] => maxSeen[c] + 1 + Held(c) = position[c]

\* While the partition is read on, the gap exceeds the pause threshold by no more
\* than the tasks that have yet to judge it; once it is paused, the rest of the
\* batch in hand can still be added.
GapInv(c) ==
    /\ ~pausedForGap[c] => Gap(c) <= ReadOnGap + Cardinality(Busy(c))
    /\ pausedForGap[c] =>
          Gap(c) + Held(c) <= ReadOnGap + Cardinality(Slots) + MaxBatch

FlowInv == Undisturbed => \A c \in Consumers : MemberInv(c) /\ GapInv(c)

\* A process has no more tasks than permits.
LEMMA BusyIsFinite ==
    ASSUME NEW c \in Consumers
    PROVE  /\ IsFiniteSet(Busy(c)) /\ Cardinality(Busy(c)) \in Nat /\ Cardinality(Slots) \in Nat
           /\ Cardinality(Busy(c)) <= Cardinality(Slots)
<1>1. Busy(c) \subseteq Slots
  BY DEF Busy
<1> QED BY <1>1, PermitAssumption, FS_Subset, FS_CardinalityType

\* The quantities the gap is computed from are numbers.
LEMMA NumbersOf ==
    ASSUME TypeOK, NEW c \in Consumers
    PROVE  /\ Gap(c) \in Nat /\ Held(c) \in Int /\ ReadOnGap \in Nat /\ MaxBatch \in Nat
           /\ maxSeen[c] \in Int /\ lastCommitted[c] \in Int /\ position[c] \in Nat
           /\ batch[c].lo \in Nat /\ batch[c].hi \in Nat
BY SizeAssumption DEF TypeOK, Gap, GapDepth, Held, ReadOnGap

\* A task has judged the gap, which has not grown, and is over.
LEMMA GapIsJudged ==
    ASSUME TypeOK, TypeOK', NEW c \in Consumers, HandInv(c), MemberInv(c), GapInv(c),
           snapshot[c], NEW last \in -1..MaxLog-1, AdjustFlow(c, last),
           GapDepth(c, last) <= Gap(c), lastCommitted'[c] = last,
           UNCHANGED <<maxSeen[c], batch[c]>>
    PROVE  GapInv(c)' /\ clientPaused'[c] = pausedForGap'[c]
<1>1. Gap(c)' = GapDepth(c, last) /\ Held(c)' = Held(c)
  BY DEF Gap, GapDepth, Held
<1>2. HasClient(c) /\ assigned[c] /\ clientPaused[c] = pausedForGap[c]
  BY DEF MemberInv, HasClient
<1>3. /\ \/ UNCHANGED <<pausedForGap[c], clientPaused[c]>>
         \/ pausedForGap'[c] = TRUE /\ clientPaused'[c] = TRUE
         \/ pausedForGap'[c] = FALSE /\ clientPaused'[c] = FALSE
      /\ ~pausedForGap'[c] => GapDepth(c, last) <= ReadOnGap
  BY <1>2, AdjustFlowAt
<1>4. /\ Gap(c) \in Nat /\ Gap(c)' \in Nat /\ Held(c) \in Int /\ ReadOnGap \in Nat
      /\ MaxBatch \in Nat /\ Held(c) <= MaxBatch /\ Gap(c)' <= Gap(c)
  <2>1. Gap(c)' \in Nat
    BY <1>1, SizeAssumption DEF TypeOK, GapDepth
  <2> QED BY <1>1, <2>1, NumbersOf DEF HandInv
<1>5. /\ Cardinality(Busy(c)) \in Nat /\ Cardinality(Busy(c)') \in Nat /\ Cardinality(Slots) \in Nat
      /\ Cardinality(Busy(c)) <= Cardinality(Slots)
  <2>1. Busy(c)' \subseteq Slots
    BY DEF Busy
  <2> QED BY <2>1, BusyIsFinite, PermitAssumption, FS_Subset, FS_CardinalityType
<1>6. ~pausedForGap'[c] => Gap(c)' <= ReadOnGap + Cardinality(Busy(c)')
  BY <1>1, <1>3, <1>4, <1>5
<1>7. Gap(c) + Held(c) <= ReadOnGap + Cardinality(Slots) + MaxBatch
  BY <1>4, <1>5 DEF GapInv
<1>8. Gap(c)' + Held(c)' <= ReadOnGap + Cardinality(Slots) + MaxBatch
  BY <1>1, <1>4, <1>5, <1>7
<1>9. Cardinality(Busy(c))' = Cardinality(Busy(c)')
  OBVIOUS
<1> QED BY <1>2, <1>3, <1>6, <1>8, <1>9, Zenon DEF GapInv

\* A record is dispatched: one task more, one record more in the gap, one less in
\* the batch.
LEMMA GapOnDispatch ==
    ASSUME TypeOK, TypeOK', NEW c \in Consumers, NEW s \in Slots, HandInv(c), LockInv(c),
           MemberInv(c), GapInv(c), Dispatch(c, s)
    PROVE  MemberInv(c)' /\ GapInv(c)'
<1>1. /\ task[c][s] = NoTask /\ TakeFromBatch(c)
      /\ task'[c][s].gen = generation[c] /\ task'[c][s] # NoTask
      /\ \A r \in Slots \ {s} : task'[c][r] = task[c][r]
      /\ initialized'[c] = TRUE
      /\ lastCommitted'[c] = IF initialized[c] THEN lastCommitted[c] ELSE batch[c].lo - 1
      /\ maxSeen'[c] = IF batch[c].lo > maxSeen[c] THEN batch[c].lo ELSE maxSeen[c]
  BY DispatchAt
<1>2. UNCHANGED <<owner, assigned, position, clientPaused, seen, snapshot, restart, pausedForGap,
                  generation>>
  BY DEF Dispatch, brokerVars, clientVars
<1>3. /\ batch[c].lo < batch[c].hi /\ Held(c)' = Held(c) - 1
      /\ batch'[c].lo < batch'[c].hi => batch'[c].hi = batch[c].hi
  BY <1>1, TakeFromBatchAt
<1>4. runPc[c] = "dispatching" /\ snapshot[c] /\ assigned[c] /\ position[c] = batch[c].hi
  BY <1>1, <1>3 DEF TakeFromBatch, MemberInv
<1>5. /\ Gap(c) \in Nat /\ Held(c) \in Int /\ ReadOnGap \in Nat /\ MaxBatch \in Nat
      /\ maxSeen[c] \in Int /\ lastCommitted[c] \in Int /\ position[c] \in Nat
      /\ batch[c].lo \in Nat /\ batch[c].hi \in Nat
  BY NumbersOf
<1>6. maxSeen'[c] = batch[c].lo /\ maxSeen[c] < batch[c].lo
      /\ (initialized[c] => maxSeen[c] + 1 = batch[c].lo)
  <2>1. CASE initialized[c]
    <3>1. maxSeen[c] + 1 + (batch[c].hi - batch[c].lo) = batch[c].hi
      BY <1>4, <2>1 DEF MemberInv, Held
    <3>2. maxSeen[c] + 1 = batch[c].lo
      BY <1>5, <3>1
    <3> QED BY <1>1, <1>5, <3>2
  <2>2. CASE ~initialized[c]
    BY <1>1, <1>5, <2>2 DEF LockInv
  <2> QED BY <2>1, <2>2
<1>7. Gap(c)' <= Gap(c) + 1
  <2>1. Gap(c)' = IF maxSeen'[c] < lastCommitted'[c] THEN 0 ELSE maxSeen'[c] - lastCommitted'[c]
    BY DEF Gap, GapDepth
  <2>2. Gap(c) = IF maxSeen[c] < lastCommitted[c] THEN 0 ELSE maxSeen[c] - lastCommitted[c]
    BY DEF Gap, GapDepth
  <2> QED BY <1>1, <1>5, <1>6, <2>1, <2>2
<1>8. Cardinality(Busy(c)') = Cardinality(Busy(c)) + 1
  <2>1. Busy(c)' = Busy(c) \cup {s} /\ s \notin Busy(c)
    BY <1>1 DEF Busy
  <2> QED BY <2>1, BusyIsFinite, FS_AddElement
<1>9. MemberInv(c)'
  <2>1. maxSeen'[c] + 1 + Held(c)' = position'[c]
    BY <1>2, <1>3, <1>4, <1>5, <1>6 DEF Held
  <2>2. \A r \in Slots : task'[c][r] # NoTask => task'[c][r].gen = generation'[c]
    BY <1>1, <1>2 DEF MemberInv
  <2> QED BY <1>2, <1>3, <1>4, <2>1, <2>2 DEF MemberInv
<1>10. Gap(c)' \in Nat /\ Cardinality(Busy(c)) \in Nat /\ Cardinality(Slots) \in Nat
  BY BusyIsFinite, SizeAssumption DEF Gap, GapDepth, TypeOK
<1>11. ~pausedForGap'[c] => Gap(c)' <= ReadOnGap + Cardinality(Busy(c)')
  BY <1>2, <1>5, <1>7, <1>8, <1>10 DEF GapInv
<1>12. pausedForGap'[c] => Gap(c)' + Held(c)' <= ReadOnGap + Cardinality(Slots) + MaxBatch
  BY <1>2, <1>3, <1>5, <1>7, <1>10 DEF GapInv
<1> QED BY <1>9, <1>11, <1>12 DEF GapInv

\* A step that leaves the gap, the batch, the tasks and the flags alone.
LEMMA GapStays ==
    ASSUME NEW c \in Consumers, GapInv(c),
           UNCHANGED <<maxSeen[c], lastCommitted[c], batch[c], task[c], pausedForGap[c]>>
    PROVE  GapInv(c)'
<1>1. Busy(c)' = Busy(c) /\ Gap(c)' = Gap(c) /\ Held(c)' = Held(c)
  BY DEF Busy, Gap, GapDepth, Held
<1> QED BY <1>1 DEF GapInv

\* A task that is there takes a step.
LEMMA FlowOnTask ==
    ASSUME TypeOK, TypeOK', NEW c \in Consumers, NEW s \in Slots, HandInv(c), LockInv(c),
           MemberInv(c), GapInv(c), RecordTask(c, s)
    PROVE  MemberInv(c)' /\ GapInv(c)'
<1>1. /\ task[c][s] # NoTask
      /\ \A r \in Slots \ {s} : task'[c][r] = task[c][r]
      /\ UNCHANGED <<maxSeen, initialized, generation, snapshot, assigned, position, batch,
                     runPc, restart, seen, owner>>
  BY TaskAt
<1>2. snapshot[c] /\ task[c][s].gen = generation[c]
  BY <1>1 DEF MemberInv
<1>3. lastCommitted[c] \in -1..MaxLog-1
  BY DEF TypeOK
<1>4. ASSUME /\ task'[c][s] = NoTask \/ task'[c][s].gen = task[c][s].gen
             /\ clientPaused'[c] = pausedForGap'[c]
      PROVE  MemberInv(c)'
  <2>1. \A r \in Slots : task'[c][r] # NoTask => task'[c][r].gen = generation[c]
    BY <1>1, <1>2, <1>4 DEF MemberInv
  <2> QED BY <1>1, <1>2, <1>4, <2>1 DEF MemberInv, Held
<1>5. CASE /\ task'[c][s] # NoTask /\ task'[c][s].gen = task[c][s].gen
           /\ UNCHANGED <<lastCommitted, pausedForGap, clientPaused>>
  <2>1. Busy(c)' = Busy(c)
    BY <1>1, <1>5 DEF Busy
  <2>2. GapInv(c)'
    BY <1>1, <1>5, <2>1 DEF GapInv, Gap, GapDepth, Held
  <2> QED BY <1>4, <1>5, <2>2 DEF MemberInv
<1>6. CASE task'[c][s] = NoTask /\ AdjustFlow(c, lastCommitted[c]) /\ lastCommitted' = lastCommitted
  <2>1. GapDepth(c, lastCommitted[c]) <= Gap(c)
    BY NumbersOf DEF Gap
  <2> QED BY <1>1, <1>2, <1>3, <1>4, <1>6, <2>1, GapIsJudged
<1>7. CASE CommitOK(c, s) \/ CommitRaises(c, s)
  <2>1. task'[c][s] = NoTask
    <3>1. SetTask(c, s, NoTask)
      BY <1>7 DEF CommitOK, CommitRaises
    <3> QED BY <3>1, NoTaskTyped, SetTaskEffect
  <2>2. CASE /\ task[c][s].pc = "committing" /\ task[c][s].to \in Offsets
             /\ lastCommitted'[c] = task[c][s].to /\ AdjustFlow(c, task[c][s].to)
    <3>1. task[c][s].to \in -1..MaxLog-1 /\ lastCommitted[c] < task[c][s].to
      BY <2>2, SizeAssumption DEF LockInv, Offsets
    <3>2. GapDepth(c, task[c][s].to) <= Gap(c)
      BY <3>1, NumbersOf DEF Gap, GapDepth
    <3> QED BY <1>1, <1>2, <1>4, <2>1, <2>2, <3>1, <3>2, GapIsJudged
  <2>3. CASE AdjustFlow(c, lastCommitted[c]) /\ lastCommitted' = lastCommitted
    BY <1>6, <2>1, <2>3
  <2> QED BY <1>7, <2>2, <2>3, CommitAt
<1>8. CASE Finalize(c, s)
  BY <1>5, <1>6, <1>8, FinalizeAt
<1> QED BY <1>2, <1>5, <1>7, <1>8, TaskAt

\* One step of a process, with no expulsion and no restart so far.
LEMMA FlowOnStep ==
    ASSUME TypeOK, TypeOK', NEW c \in Consumers, HandInv(c), HandInv(c)', LockInv(c),
           MemberInv(c), GapInv(c), Undisturbed', StepOf(c)
    PROVE  MemberInv(c)' /\ GapInv(c)'
<1> DEFINE GapPart == <<maxSeen[c], lastCommitted[c], batch[c], task[c], pausedForGap[c]>>
<1>0. batch[c].lo \in Int /\ batch[c].hi \in Int
  BY NumbersOf
<1>1. CASE Join(c)
  <2>1. ~assigned[c] /\ ~snapshot[c]
    BY <1>1, GroupAssumption DEF Join, MemberInv
  <2>2. UNCHANGED GapPart
    BY <1>1 DEF Join, loopVars, trackerVars
  <2>3. ~pausedForGap[c] /\ ~initialized[c] /\ ~(batch[c].lo < batch[c].hi)
        /\ runPc[c] # "dispatching" /\ \A s \in Slots : task[c][s] = NoTask
    BY <2>1 DEF MemberInv
  <2>4. /\ owner' = c /\ assigned'[c] = TRUE /\ clientPaused'[c] = FALSE
        /\ UNCHANGED <<loopVars, trackerVars, task>>
    BY <1>1 DEF Join, TypeOK
  <2>5. pausedForGap'[c] = FALSE
    BY <2>3, <2>4 DEF TypeOK, trackerVars
  <2>6. MemberInv(c)'
    BY <2>3, <2>4, <2>5 DEF MemberInv, loopVars, trackerVars
  <2> QED BY <2>2, <2>6, GapStays
<1>2. CASE LearnRevoked(c)
  BY <1>2 DEF LearnRevoked, MemberInv
<1>3. CASE ReconcileSame(c)
  <2>1. UNCHANGED GapPart
    BY <1>3 DEF ReconcileSame, trackerVars
  <2>2. runPc'[c] = AfterReconcile(c) /\ assigned[c] = snapshot[c]
    BY <1>3 DEF ReconcileSame, TypeOK, MemberInv, HasClient
  <2>3. runPc'[c] = "dispatching" => batch[c].lo < batch[c].hi
    BY <1>3 DEF HandInv, ReconcileSame
  <2>4. UNCHANGED <<brokerVars, clientVars, seen, batch, snapshot, restart, trackerVars, task>>
    BY <1>3 DEF ReconcileSame
  <2>5. MemberInv(c)'
    BY <2>2, <2>3, <2>4 DEF MemberInv, Held, brokerVars, clientVars, trackerVars
  <2> QED BY <2>1, <2>5, GapStays
<1>4. CASE ReconcileRead(c)
  <2>1. PICK s \in Slots : task[c][s].pc = "committing"
    BY <1>4 DEF ReconcileRead, LockHeld
  <2>2. task[c][s] # NoTask
    BY <2>1 DEF NoTask
  <2> QED BY <1>4, <2>2 DEF ReconcileRead, MemberInv, TypeOK
<1>5. CASE Reconcile(c)
  <2>1. assigned[c] # snapshot[c] /\ ApplyAssignment(c, assigned[c])
    BY <1>5 DEF Reconcile, MemberInv
  <2>2. assigned[c] = TRUE /\ ~snapshot[c]
    BY <2>1 DEF MemberInv, TypeOK
  <2>3. ~pausedForGap[c] /\ ~initialized[c] /\ clientPaused[c] = pausedForGap[c]
        /\ \A s \in Slots : task[c][s] = NoTask
    BY <2>2 DEF MemberInv
  <2>4. pausedForGap'[c] = FALSE /\ snapshot'[c] = TRUE /\ pausedForGap[c] = FALSE
    BY <2>1, <2>2, <2>3 DEF ApplyAssignment, TypeOK
  <2>5. UNCHANGED <<brokerVars, clientVars, batch, restart, lastCommitted, initialized,
                    completed, maxSeen, task>>
    BY <1>5 DEF Reconcile
  <2>6. seen'[c] = "unread"
    BY <1>5 DEF Reconcile, TypeOK
  <2>7. MemberInv(c)'
    BY <2>2, <2>3, <2>4, <2>5, <2>6 DEF MemberInv, brokerVars, clientVars
  <2>8. UNCHANGED GapPart
    BY <2>4, <2>5
  <2> QED BY <2>7, <2>8, GapStays
<1>6. CASE PollRecords(c)
  <2>1. PICK n \in 1..MaxBatch :
           /\ batch' = [batch EXCEPT ![c] = [lo |-> position[c], hi |-> position[c] + n]]
           /\ position' = [position EXCEPT ![c] = @ + n]
    BY <1>6 DEF PollRecords
  <2>2. /\ batch'[c].lo = position[c] /\ batch'[c].hi = position[c] + n
        /\ position'[c] = position[c] + n /\ n \in Nat
    BY <2>1 DEF TypeOK
  <2>3. batch[c].lo = batch[c].hi /\ assigned[c] /\ ~pausedForGap[c] /\ runPc'[c] = "fetched"
    BY <1>6 DEF PollRecords, HandInv, MemberInv, TypeOK
  <2>4. UNCHANGED <<brokerVars, assigned, clientPaused, seen, snapshot, restart, trackerVars, task>>
    BY <1>6 DEF PollRecords
  <2>5. Held(c) = 0 /\ Held(c)' = n
    BY <2>2, <2>3, NumbersOf DEF Held
  <2>6. initialized[c] => maxSeen[c] + 1 + n = position[c] + n
    BY <2>5, <2>2, NumbersOf DEF MemberInv
  <2>7. MemberInv(c)'
    BY <2>2, <2>3, <2>4, <2>5, <2>6 DEF MemberInv, brokerVars, trackerVars
  <2>8. GapInv(c)'
    BY <2>3, <2>4 DEF GapInv, Gap, GapDepth, Busy, trackerVars
  <2> QED BY <2>7, <2>8
<1>7. CASE PollNothing(c)
  <2>1. UNCHANGED GapPart
    BY <1>7 DEF PollNothing, trackerVars
  <2>2. /\ runPc'[c] # "dispatching"
        /\ UNCHANGED <<brokerVars, clientVars, seen, batch, snapshot, restart, trackerVars, task>>
    BY <1>7 DEF PollNothing, TypeOK
  <2>3. MemberInv(c)'
    BY <2>2 DEF MemberInv, Held, brokerVars, clientVars, trackerVars
  <2> QED BY <2>1, <2>3, GapStays
<1>8. CASE DispatchWithoutClient(c)
  BY <1>8 DEF DispatchWithoutClient, MemberInv, HasClient
<1>9. ASSUME NEW s \in Slots, Dispatch(c, s) PROVE MemberInv(c)' /\ GapInv(c)'
  BY <1>9, GapOnDispatch
<1>10. ASSUME NEW s \in Slots, RecordTask(c, s) PROVE MemberInv(c)' /\ GapInv(c)'
  BY <1>10, FlowOnTask
<1>11. CASE RestartFence(c)
  BY <1>11 DEF RestartFence, Undisturbed, TypeOK
<1>12. CASE RestartStop(c) \/ RestartStart(c) \/ RestartFails(c) \/ RestartReconcile(c)
  BY <1>12 DEF RestartStop, RestartStart, RestartFails, RestartReconcile, MemberInv
<1>13. CASE Crash(c) \/ Stop(c)
  <2>1. FreshProcess(c) /\ assigned'[c] = FALSE
    BY <1>13 DEF Crash, Stop, LeaveGroup, TypeOK
  <2>2. /\ \A s \in Slots : task'[c][s] = NoTask
        /\ lastCommitted'[c] = -1 /\ maxSeen'[c] = -1 /\ initialized'[c] = FALSE
        /\ clientPaused'[c] = FALSE /\ pausedForGap'[c] = FALSE /\ snapshot'[c] = FALSE
        /\ runPc'[c] = "top" /\ seen'[c] = "unread" /\ restart'[c] = "no"
        /\ batch'[c].lo = 0 /\ batch'[c].hi = 0
    BY <2>1 DEF FreshProcess, TypeOK, NoBatch
  <2>3. MemberInv(c)'
    <3>1. assigned'[c] = FALSE /\ ~(batch'[c].lo < batch'[c].hi)
      BY <2>1, <2>2
    <3> HIDE <2>1
    <3> QED BY <2>2, <3>1 DEF MemberInv
  <2>4. Gap(c)' = 0 /\ Busy(c)' = {}
    BY <2>2 DEF Gap, GapDepth, Busy
  <2>5. GapInv(c)'
    BY <2>2, <2>4, FS_EmptySet, SizeAssumption DEF GapInv, ReadOnGap
  <2> QED BY <2>3, <2>5
<1> QED BY <1>1, <1>2, <1>3, <1>4, <1>5, <1>6, <1>7, <1>8, <1>9, <1>10, <1>11, <1>12, <1>13
        DEF StepOf, Loop, Lifecycle

\* A step of one process leaves the partition with another one that has it.
LEMMA OthersKeepOwner ==
    ASSUME NEW c \in Consumers, NEW d \in Consumers, d # c, StepOf(c), owner = d
    PROVE  owner' = d
<1>1. CASE Join(c)
  BY <1>1, GroupAssumption DEF Join
<1>2. CASE RestartStop(c) \/ Crash(c) \/ Stop(c)
  BY <1>2 DEF RestartStop, Crash, Stop, LeaveGroup, brokerVars
<1>3. CASE UNCHANGED owner
  BY <1>3
<1> QED BY <1>1, <1>2, <1>3, Zenon
        DEF StepOf, Loop, Lifecycle, RecordTask, LearnRevoked, ReconcileSame, ReconcileRead,
            Reconcile, PollRecords, PollNothing, DispatchWithoutClient, Dispatch, HandleSettled,
            HandleUnsettled, FinalizeStale, Finalize, CommitOK, CommitRaises, RestartFence,
            RestartStart, RestartFails, RestartReconcile, brokerVars

\* Nobody is expelled and no client restarted without being counted for good.
LEMMA UndisturbedBefore ==
    ASSUME TypeOK, [Next]_vars, Undisturbed'
    PROVE  Undisturbed
<1> DEFINE Counted == /\ expels' = expels \/ expels' = expels + 1
                      /\ restarts' = restarts \/ restarts' = restarts + 1
<1>1. ASSUME Environment PROVE Counted
  BY <1>1 DEF Environment, Produce, Expel, SessionTimeout, boundVars, vars
<1>2. ASSUME NEW c \in Consumers, StepOf(c) PROVE Counted
  <2> USE DEF boundVars
  <2>1. CASE Join(c) \/ LearnRevoked(c)
    BY <2>1 DEF Join, LearnRevoked
  <2>2. CASE Loop(c)
    BY <2>2 DEF Loop, ReconcileSame, ReconcileRead, Reconcile, PollRecords, PollNothing,
                DispatchWithoutClient, Dispatch
  <2>3. CASE Lifecycle(c)
    BY <2>3 DEF Lifecycle, RestartFence, RestartStop, RestartStart, RestartFails,
                RestartReconcile, Crash, Stop
  <2>4. ASSUME NEW s \in Slots, RecordTask(c, s) PROVE Counted
    BY <2>4, Zenon DEF RecordTask, HandleSettled, HandleUnsettled, FinalizeStale, Finalize,
                       CommitOK, CommitRaises
  <2> QED BY <1>2, <2>1, <2>2, <2>3, <2>4 DEF StepOf
<1>3. Counted
  BY <1>1, <1>2, StepsAre
<1> QED BY <1>3 DEF Undisturbed, TypeOK

\* Every step keeps what the backpressure rests on.
LEMMA FlowStep ==
    ASSUME TypeOK, TypeOK', LocalInv, LocalInv', FlowInv, [Next]_vars
    PROVE  FlowInv'
<1> SUFFICES ASSUME Undisturbed' PROVE \A d \in Consumers : MemberInv(d)' /\ GapInv(d)'
  BY DEF FlowInv
<1>1. Undisturbed
  BY UndisturbedBefore
<1>2. ASSUME NEW d \in Consumers, UNCHANGED View(d), assigned[d] => owner' = d
      PROVE  MemberInv(d)' /\ GapInv(d)'
  <2>1. MemberInv(d)'
    BY <1>1, <1>2 DEF FlowInv, MemberInv, View, Held
  <2>2. GapInv(d)'
    BY <1>1, <1>2, GapStays DEF FlowInv, View
  <2> QED BY <2>1, <2>2
<1>3. CASE Environment
  <2>1. ASSUME NEW d \in Consumers, assigned[d] PROVE owner' = d
    <3>1. owner = d
      BY <1>1, <2>1 DEF FlowInv, MemberInv
    <3>2. ~Expel
      BY DEF Expel, Undisturbed, TypeOK
    <3>3. ~SessionTimeout
      BY <2>1, <3>1 DEF SessionTimeout
    <3> QED BY <1>3, <3>1, <3>2, <3>3 DEF Environment, Produce, vars, brokerVars
  <2> QED BY <1>2, <1>3, <2>1, EnvironmentTouchesNone
<1>4. ASSUME NEW c \in Consumers, StepOf(c), NEW d \in Consumers
      PROVE  MemberInv(d)' /\ GapInv(d)'
  <2>1. CASE d = c
    BY <1>1, <1>4, <2>1, FlowOnStep DEF FlowInv, LocalInv
  <2>2. CASE d # c
    <3>1. assigned[d] => owner = d
      BY <1>1 DEF FlowInv, MemberInv
    <3> QED BY <1>2, <1>4, <2>2, <3>1, OthersUntouched, OthersKeepOwner
  <2> QED BY <2>1, <2>2
<1> QED BY <1>3, <1>4, StepsAre

\* It holds at the start.
LEMMA FlowStart == Init => FlowInv
<1> SUFFICES ASSUME Init, NEW c \in Consumers PROVE MemberInv(c) /\ GapInv(c)
  BY DEF FlowInv
<1>1. MemberInv(c)
  BY DEF Init, MemberInv, NoBatch
<1>2. Gap(c) = 0 /\ Busy(c) = {} /\ pausedForGap[c] = FALSE
  BY DEF Init, Gap, GapDepth, Busy
<1>3. GapInv(c)
  BY <1>2, FS_EmptySet, SizeAssumption DEF GapInv, ReadOnGap
<1> QED BY <1>1, <1>3

\* Both invariants hold in every reachable state.
LEMMA FlowIsCorrect == Spec => [](TypeOK /\ LocalInv /\ FlowInv)
<1>1. Init => TypeOK
  BY InvInit DEF ConsumerInv
<1>2. TypeOK /\ TypeOK' /\ LocalInv /\ FlowInv /\ [Next]_vars => LocalInv' /\ FlowInv'
  BY LocalStep, FlowStep
<1> QED BY <1>1, <1>2, LocalStart, FlowStart, ConsumerIsTyped, PTL DEF Spec

\* Backpressure: however many records are written, batches fetched and processes
\* crashed or stopped, the records taken beyond the commit are bounded by the gap
\* up to which the partition is read on, the permits of the semaphore and one
\* batch, until an assignment or a client is replaced.
THEOREM GapIsBounded == Spec => []GapBounded
<1>1. ASSUME TypeOK, LocalInv, FlowInv PROVE GapBounded
  <2> SUFFICES ASSUME Undisturbed, NEW c \in Consumers
               PROVE  Gap(c) <= ReadOnGap + Cardinality(Slots) + MaxBatch
    BY DEF GapBounded, Undisturbed, Gap
  <2>1. GapInv(c) /\ batch[c].lo <= batch[c].hi
    BY <1>1 DEF FlowInv, LocalInv, HandInv
  <2>2. Held(c) >= 0
    BY <1>1, <2>1, NumbersOf DEF Held
  <2> QED BY <1>1, <2>1, <2>2, NumbersOf, BusyIsFinite DEF GapInv
<1> QED BY <1>1, FlowIsCorrect, PTL

-----------------------------------------------------------------------------
(* Where the tracker stands to the broker.                                 *)

\* There is one process only, which may lose the partition, crash and restart.
Alone == \A c, d \in Consumers : c = d

\* No record was lost from the middle of a batch.
Whole == MaxBatch = 1 \/ dropped = {}

\* Until the tracker gets its first record, that record, or the one to be fetched
\* next, is where the group stands or further on.
StartInv(c) ==
    ~initialized[c] =>
        /\ Held(c) > 0 => committed <= batch[c].lo
        /\ assigned[c] => committed <= position[c]
        /\ Whole /\ committed # NoOffset =>
              /\ Held(c) > 0 => committed = batch[c].lo
              /\ assigned[c] /\ Held(c) = 0 => committed = position[c]

\* From then on all that the group has committed beyond the tracker is completed.
ReachInv(c) ==
    initialized[c] =>
        /\ (lastCommitted[c]+1)..(committed-1) \subseteq completed[c]
        /\ Whole /\ committed # NoOffset => lastCommitted[c] < committed

\* A commit under way is not behind the group.
FlightInv(c) ==
    \A s \in Slots : task[c][s].pc = "committing" => committed <= task[c][s].to + 1

CommitInv(c) == StartInv(c) /\ ReachInv(c) /\ FlightInv(c)

GroupInv == Alone \/ Undisturbed => \A c \in Consumers : CommitInv(c)

\* Only the member that has the partition moves the group's committed offset.
LEMMA OwnerCommits ==
    ASSUME NEW c \in Consumers, StepOf(c)
    PROVE  dropped \subseteq dropped' /\ (committed' = committed \/ owner = c)
<1> USE DEF brokerVars, historyVars
<1>1. CASE Join(c) \/ LearnRevoked(c)
  BY <1>1 DEF Join, LearnRevoked
<1>2. CASE Loop(c)
  BY <1>2 DEF Loop, ReconcileSame, ReconcileRead, Reconcile, PollRecords, PollNothing,
              DispatchWithoutClient, Dispatch
<1>3. CASE Lifecycle(c)
  BY <1>3 DEF Lifecycle, RestartFence, RestartStop, RestartStart, RestartFails,
              RestartReconcile, Crash, Stop
<1>4. ASSUME NEW s \in Slots, RecordTask(c, s)
      PROVE  dropped \subseteq dropped' /\ (committed' = committed \/ owner = c)
  <2>1. dropped' = dropped
    BY <1>4, Zenon DEF RecordTask, HandleSettled, HandleUnsettled, FinalizeStale, Finalize,
                       CommitOK, CommitRaises
  <2>2. committed' = committed \/ owner = c
    BY <1>4, Zenon DEF RecordTask, HandleSettled, HandleUnsettled, FinalizeStale, Finalize,
                       CommitOK, CommitRaises
  <2> QED BY <2>1, <2>2
<1> QED BY <1>1, <1>2, <1>3, <1>4 DEF StepOf

\* A step that moves neither the broker nor what is read of the process.
LEMMA CommitStays ==
    ASSUME NEW c \in Consumers, CommitInv(c), UNCHANGED committed, dropped \subseteq dropped',
           UNCHANGED <<initialized[c], batch[c], assigned[c], position[c], lastCommitted[c],
                       completed[c], task[c]>>
    PROVE  CommitInv(c)'
<1>1. Whole' => Whole
  BY DEF Whole
<1>2. StartInv(c)'
  BY <1>1 DEF CommitInv, StartInv, Held
<1>3. ReachInv(c)'
  BY <1>1 DEF CommitInv, ReachInv
<1>4. FlightInv(c)'
  BY DEF CommitInv, FlightInv
<1> QED BY <1>2, <1>3, <1>4 DEF CommitInv

\* A complete prefix that cannot be extended reaches as far as the group.
LEMMA PrefixReaches ==
    ASSUME NEW last \in Int, NEW done, NEW n \in Int, ContiguousEnd(last, done, n),
           NEW to \in Int, (last+1)..(to-1) \subseteq done
    PROVE  to <= n + 1
<1> SUFFICES ASSUME to > n + 1 PROVE FALSE
  OBVIOUS
<1>1. n + 1 \in (last+1)..(to-1)
  BY DEF ContiguousEnd
<1> QED BY <1>1 DEF ContiguousEnd

\* The committed offset is an offset, or less than any.
LEMMA CommittedTyped ==
    ASSUME TypeOK
    PROVE  committed \in Int /\ committed >= NoOffset /\ (committed # NoOffset => committed >= 1)
BY SizeAssumption DEF TypeOK, NoOffset

\* The poll loop brings the tracker its first record, or the next ones.
LEMMA CommitOnLoop ==
    ASSUME TypeOK, NEW c \in Consumers, HandInv(c), LockInv(c), CommitInv(c), Loop(c)
    PROVE  CommitInv(c)' /\ committed' = committed
<1>0. /\ batch[c].lo \in Int /\ batch[c].hi \in Int /\ position[c] \in Int
      /\ committed \in Int /\ lastCommitted[c] \in Int
  BY NumbersOf, CommittedTyped
<1>1. CASE ReconcileSame(c) \/ ReconcileRead(c) \/ Reconcile(c) \/ PollNothing(c)
  <2>1. UNCHANGED <<committed, dropped, assigned, position, batch, lastCommitted, initialized,
                    completed, task>>
    BY <1>1 DEF ReconcileSame, ReconcileRead, Reconcile, PollNothing, brokerVars, clientVars,
                trackerVars, historyVars
  <2> QED BY <2>1, CommitStays
<1>2. CASE PollRecords(c)
  <2>1. PICK n \in 1..MaxBatch :
           /\ batch' = [batch EXCEPT ![c] = [lo |-> position[c], hi |-> position[c] + n]]
           /\ position' = [position EXCEPT ![c] = @ + n]
    BY <1>2 DEF PollRecords
  <2>2. /\ batch'[c].lo = position[c] /\ batch'[c].hi = position[c] + n
        /\ position'[c] = position[c] + n /\ n > 0 /\ n \in Int
    BY <2>1 DEF TypeOK
  <2>3. /\ batch[c].lo = batch[c].hi /\ assigned[c]
        /\ UNCHANGED <<committed, dropped, assigned, lastCommitted, initialized, completed, task>>
    BY <1>2 DEF PollRecords, HandInv, brokerVars, trackerVars, historyVars
  <2>4. Held(c) = 0 /\ Held(c)' = n /\ Whole' = Whole
    BY <1>0, <2>2, <2>3 DEF Held, Whole
  <2>5. StartInv(c)'
    BY <1>0, <2>2, <2>3, <2>4 DEF CommitInv, StartInv
  <2>6. ReachInv(c)' /\ FlightInv(c)'
    BY <2>3, <2>4 DEF CommitInv, ReachInv, FlightInv
  <2> QED BY <2>3, <2>5, <2>6 DEF CommitInv
<1>3. CASE DispatchWithoutClient(c)
  <2>1. /\ TakeFromBatch(c) /\ ~assigned[c] /\ batch[c].lo \in dropped'
        /\ UNCHANGED <<committed, assigned, lastCommitted, initialized, completed, task>>
    BY <1>3 DEF DispatchWithoutClient, HandInv, brokerVars, clientVars, trackerVars
  <2>2. /\ Held(c) <= MaxBatch /\ Held(c)' = Held(c) - 1 /\ batch[c].lo < batch[c].hi
        /\ \/ batch'[c].lo = batch[c].lo + 1
           \/ batch'[c].lo = batch'[c].hi
    BY <2>1, TakeFromBatchAt DEF HandInv
  <2>3. Held(c) > 0
    BY <1>0, <2>2 DEF Held
  <2>4. Held(c)' > 0 => batch'[c].lo = batch[c].lo + 1
    <3>1. batch'[c].lo = batch'[c].hi => Held(c)' = 0 \/ ~(batch'[c].hi \in Int)
      BY DEF Held
    <3> QED BY <1>0, <2>1, <2>2, <3>1, TakeFromBatchAt DEF Held
  <2>5. Whole' => ~(Held(c)' > 0)
    BY <1>0, <2>1, <2>2 DEF Whole, Held
  <2>6. StartInv(c)'
    BY <1>0, <2>1, <2>3, <2>4, <2>5 DEF CommitInv, StartInv
  <2>7. Whole' => Whole
    BY <2>1 DEF Whole
  <2>8. ReachInv(c)' /\ FlightInv(c)'
    BY <2>1, <2>7 DEF CommitInv, ReachInv, FlightInv
  <2> QED BY <2>1, <2>6, <2>8 DEF CommitInv
<1>4. ASSUME NEW s \in Slots, Dispatch(c, s) PROVE CommitInv(c)' /\ committed' = committed
  <2>1. /\ task'[c][s].pc = "handling" /\ completed' = completed /\ TakeFromBatch(c)
        /\ \A r \in Slots \ {s} : task'[c][r] = task[c][r]
        /\ initialized'[c] = TRUE
        /\ lastCommitted'[c] = IF initialized[c] THEN lastCommitted[c] ELSE batch[c].lo - 1
    BY <1>4, DispatchAt
  <2>2. committed' = committed /\ dropped' = dropped
    BY <1>4 DEF Dispatch, brokerVars, historyVars
  <2>3. Whole' = Whole /\ Held(c) > 0
    BY <1>0, <2>1, <2>2, TakeFromBatchAt DEF Whole, Held
  <2>4. ReachInv(c)'
    <3>1. CASE initialized[c]
      BY <2>1, <2>2, <2>3, <3>1 DEF CommitInv, ReachInv
    <3>2. CASE ~initialized[c]
      <4>1. committed <= batch[c].lo /\ (Whole /\ committed # NoOffset => committed = batch[c].lo)
        BY <2>3, <3>2 DEF CommitInv, StartInv
      <4> QED BY <1>0, <2>1, <2>2, <2>3, <3>2, <4>1 DEF ReachInv
    <3> QED BY <3>1, <3>2
  <2>5. FlightInv(c)'
    BY <2>1, <2>2 DEF CommitInv, FlightInv
  <2>6. StartInv(c)'
    BY <2>1 DEF StartInv
  <2> QED BY <2>2, <2>4, <2>5, <2>6 DEF CommitInv
<1> QED BY <1>1, <1>2, <1>3, <1>4 DEF Loop

\* A task of the process moves the group's offset forward, and its tracker along.
LEMMA CommitOnTask ==
    ASSUME TypeOK, TypeOK', NEW c \in Consumers, NEW s \in Slots, LockInv(c), CommitInv(c),
           RecordTask(c, s)
    PROVE  CommitInv(c)' /\ committed' >= committed
<1>0. committed \in Int /\ lastCommitted[c] \in Int
  BY NumbersOf, CommittedTyped
<1>1. /\ task[c][s] # NoTask
      /\ \A r \in Slots \ {s} : task'[c][r] = task[c][r]
      /\ UNCHANGED <<initialized, assigned, position, batch, dropped>>
  BY TaskAt
<1>2. initialized[c] /\ StartInv(c)' /\ Whole' = Whole
  BY <1>1 DEF LockInv, StartInv, Whole
<1>3. /\ (lastCommitted[c]+1)..(committed-1) \subseteq completed[c]
      /\ Whole /\ committed # NoOffset => lastCommitted[c] < committed
  BY <1>2 DEF CommitInv, ReachInv
<1>4. CASE task'[c][s].pc # "committing" /\ UNCHANGED <<completed, lastCommitted, committed>>
  <2>1. ReachInv(c)' /\ FlightInv(c)'
    BY <1>1, <1>2, <1>4 DEF CommitInv, ReachInv, FlightInv
  <2> QED BY <1>0, <1>2, <1>4, <2>1 DEF CommitInv
<1>5. CASE Finalize(c, s)
  <2>1. /\ UNCHANGED <<lastCommitted, committed>> /\ completed[c] \subseteq completed'[c]
        /\ \/ /\ task'[c][s].to \in Offsets
              /\ ContiguousEnd(lastCommitted[c], completed'[c], task'[c][s].to)
           \/ task'[c][s] = NoTask
    BY <1>5, FinalizeAt
  <2>2. ReachInv(c)'
    BY <1>1, <1>2, <1>3, <2>1 DEF ReachInv
  <2>3. task'[c][s].pc = "committing" => committed <= task'[c][s].to + 1
    <3>1. NoTask.pc # "committing" /\ Offsets \subseteq Int
      BY DEF NoTask, Offsets
    <3>2. (lastCommitted[c]+1)..(committed-1) \subseteq completed'[c]
      BY <1>3, <2>1
    <3> QED BY <1>0, <2>1, <3>1, <3>2, PrefixReaches
  <2>4. FlightInv(c)'
    BY <1>1, <2>1, <2>3 DEF CommitInv, FlightInv
  <2> QED BY <1>0, <1>2, <2>1, <2>2, <2>4 DEF CommitInv
<1>6. CASE task'[c][s] = NoTask /\ (CommitOK(c, s) \/ CommitRaises(c, s))
  <2>1. /\ task[c][s].pc = "committing" /\ task[c][s].to \in Int
        /\ \/ /\ committed' = task[c][s].to + 1 /\ lastCommitted'[c] = task[c][s].to
           \/ /\ committed' = committed \/ committed' = task[c][s].to + 1
              /\ UNCHANGED <<lastCommitted, completed>>
    BY <1>6, CommitAt DEF Offsets
  <2>2. /\ lastCommitted[c] < task[c][s].to
        /\ (lastCommitted[c]+1)..task[c][s].to \subseteq completed[c]
        /\ committed <= task[c][s].to + 1
    BY <2>1 DEF LockInv, CommitInv, FlightInv
  <2>3. \A r \in Slots : task'[c][r].pc # "committing"
    <3>1. NoTask.pc # "committing"
      BY DEF NoTask
    <3> QED BY <1>1, <1>6, <2>1, <3>1 DEF LockInv
  <2>4. ReachInv(c)'
    <3>1. CASE committed' = task[c][s].to + 1 /\ lastCommitted'[c] = task[c][s].to
      <4>1. (lastCommitted'[c]+1)..(committed'-1) = {} /\ lastCommitted'[c] < committed'
        BY <2>1, <3>1
      <4> QED BY <4>1 DEF ReachInv
    <3>2. CASE committed' = task[c][s].to + 1 /\ UNCHANGED <<lastCommitted, completed>>
      <4>1. committed' - 1 = task[c][s].to /\ lastCommitted[c] < committed'
        BY <1>0, <2>1, <2>2, <3>2
      <4> QED BY <2>2, <3>2, <4>1 DEF ReachInv
    <3>3. CASE committed' = committed /\ UNCHANGED <<lastCommitted, completed>>
      BY <1>2, <1>3, <3>3 DEF ReachInv
    <3> QED BY <2>1, <3>1, <3>2, <3>3
  <2>5. FlightInv(c)' /\ committed' >= committed
    BY <1>0, <2>1, <2>2, <2>3 DEF FlightInv
  <2> QED BY <1>2, <2>4, <2>5 DEF CommitInv
<1> QED
  <2>1. NoTask.pc # "committing"
    BY DEF NoTask
  <2> QED BY <1>4, <1>5, <1>6, <2>1, TaskAt

\* One step of the process.
LEMMA CommitOnStep ==
    ASSUME TypeOK, TypeOK', NEW c \in Consumers, HandInv(c), LockInv(c), CommitInv(c), StepOf(c)
    PROVE  CommitInv(c)' /\ committed' >= committed
<1>0. committed \in Int /\ lastCommitted[c] \in Int /\ position[c] \in Nat
  BY NumbersOf, CommittedTyped
<1>1. CASE Join(c)
  <2>1. /\ UNCHANGED <<committed, dropped, batch, lastCommitted, initialized, completed, task>>
        /\ position'[c] \in Nat /\ (committed # NoOffset => position'[c] = committed)
    <3>1. \/ committed # NoOffset /\ position' = [position EXCEPT ![c] = committed]
          \/ committed = NoOffset /\ position' = [position EXCEPT ![c] = 0]
          \/ committed = NoOffset /\ position' = [position EXCEPT ![c] = logEnd]
      BY <1>1 DEF Join, StartPosition
    <3>2. logEnd \in Nat /\ position \in [Consumers -> 0..MaxLog]
          /\ (committed # NoOffset => committed \in Nat)
      BY SizeAssumption DEF TypeOK, NoOffset
    <3>3. UNCHANGED <<committed, dropped, batch, lastCommitted, initialized, completed, task>>
      BY <1>1 DEF Join, loopVars, trackerVars
    <3> QED BY <3>1, <3>2, <3>3
  <2>2. Whole' = Whole /\ Held(c)' = Held(c)
    BY <2>1 DEF Whole, Held
  <2>3. StartInv(c)'
    <3>1. committed <= position'[c]
      BY <1>0, <2>1, CommittedTyped DEF NoOffset
    <3> QED BY <2>1, <2>2, <3>1 DEF CommitInv, StartInv
  <2>4. ReachInv(c)' /\ FlightInv(c)'
    BY <2>1, <2>2 DEF CommitInv, ReachInv, FlightInv
  <2> QED BY <1>0, <2>1, <2>3, <2>4 DEF CommitInv
<1>2. CASE \/ LearnRevoked(c) \/ RestartFence(c) \/ RestartStop(c) \/ RestartStart(c)
           \/ RestartFails(c) \/ RestartReconcile(c)
  <2>1. /\ UNCHANGED <<committed, dropped, batch, position, lastCommitted, initialized, completed,
                       task>>
        /\ assigned'[c] => assigned[c]
    BY <1>2 DEF LearnRevoked, RestartFence, RestartStop, RestartStart, RestartFails,
                RestartReconcile, LeaveGroup, brokerVars, clientVars, loopVars, trackerVars,
                historyVars, TypeOK
  <2>2. Whole' = Whole /\ Held(c)' = Held(c)
    BY <2>1 DEF Whole, Held
  <2>3. StartInv(c)'
    BY <2>1, <2>2 DEF CommitInv, StartInv
  <2>4. ReachInv(c)' /\ FlightInv(c)'
    BY <2>1, <2>2 DEF CommitInv, ReachInv, FlightInv
  <2> QED BY <1>0, <2>1, <2>3, <2>4 DEF CommitInv
<1>3. CASE Crash(c) \/ Stop(c)
  <2>1. /\ \A s \in Slots : task'[c][s] = NoTask
        /\ initialized'[c] = FALSE /\ assigned'[c] = FALSE
        /\ batch'[c].lo = 0 /\ batch'[c].hi = 0
    BY <1>3 DEF Crash, Stop, FreshProcess, LeaveGroup, TypeOK, NoBatch
  <2>2. NoTask.pc # "committing" /\ Held(c)' = 0
    BY <2>1 DEF NoTask, Held
  <2>3. CommitInv(c)'
    BY <2>1, <2>2 DEF CommitInv, StartInv, ReachInv, FlightInv
  <2>4. CASE committed' = committed
    BY <1>0, <2>3, <2>4
  <2>5. CASE \E n \in Offsets : /\ ContiguousEnd(lastCommitted[c], completed[c], n)
                                /\ committed' = n + 1
    <3>1. PICK n \in Offsets : /\ ContiguousEnd(lastCommitted[c], completed[c], n)
                               /\ committed' = n + 1
      BY <2>5
    <3>2. n \in Int /\ n \in completed[c]
      BY <1>0, <3>1 DEF Offsets, ContiguousEnd
    <3>3. initialized[c]
      BY <3>2 DEF LockInv
    <3>4. (lastCommitted[c]+1)..(committed-1) \subseteq completed[c]
      BY <3>3 DEF CommitInv, ReachInv
    <3> QED BY <1>0, <2>3, <3>1, <3>2, <3>4, PrefixReaches
  <2> QED BY <1>3, <2>4, <2>5 DEF Crash, Stop, brokerVars
<1> QED BY <1>0, <1>1, <1>2, <1>3, CommitOnLoop, CommitOnTask DEF StepOf, Lifecycle

\* With nobody expelled and no client restarted, a process without the partition
\* has no records either.
LEMMA OthersAreIdle ==
    ASSUME NEW c \in Consumers, NEW d \in Consumers, c # d, owner = c, MemberInv(d)
    PROVE  ~assigned[d] /\ ~initialized[d] /\ ~(batch[d].lo < batch[d].hi)
           /\ \A s \in Slots : task[d][s] = NoTask
BY DEF MemberInv

\* Every step keeps the invariant, and none moves the committed offset back.
LEMMA GroupStep ==
    ASSUME TypeOK, TypeOK', LocalInv, FlowInv, GroupInv, [Next]_vars, Alone \/ Undisturbed'
    PROVE  (\A c \in Consumers : CommitInv(c)') /\ committed' >= committed
<1>1. \A c \in Consumers : CommitInv(c)
  BY UndisturbedBefore DEF GroupInv
<1>2. CASE Environment
  <2>1. ASSUME NEW d \in Consumers PROVE CommitInv(d)'
    BY <1>1, <1>2, EnvironmentTouchesNone, CommitStays DEF View
  <2>2. committed' = committed
    BY <1>2 DEF Environment, Produce, Expel, SessionTimeout, vars, brokerVars
  <2> QED BY <2>1, <2>2, CommittedTyped
<1>3. ASSUME NEW c \in Consumers, StepOf(c)
      PROVE  (\A d \in Consumers : CommitInv(d)') /\ committed' >= committed
  <2>1. CommitInv(c)' /\ committed' >= committed
    BY <1>1, <1>3, CommitOnStep DEF LocalInv
  <2>2. ASSUME NEW d \in Consumers, d # c PROVE CommitInv(d)'
    <3>1. UNCHANGED View(d) /\ dropped \subseteq dropped'
      BY <1>3, <2>2, OthersUntouched, OwnerCommits
    <3>2. CASE committed' = committed
      BY <1>1, <3>1, <3>2, CommitStays DEF View
    <3>3. CASE owner = c
      <4>1. Undisturbed
        BY <2>2, UndisturbedBefore DEF Alone
      <4>2. /\ ~assigned[d] /\ ~initialized[d] /\ ~(batch[d].lo < batch[d].hi)
            /\ \A s \in Slots : task[d][s] = NoTask
        BY <2>2, <3>3, <4>1, OthersAreIdle DEF FlowInv
      <4>3. /\ ~assigned'[d] /\ ~initialized'[d] /\ \A s \in Slots : task'[d][s] = NoTask
            /\ Held(d)' = Held(d)
        BY <3>1, <4>2 DEF View, Held
      <4>4. ~(Held(d) > 0) /\ NoTask.pc # "committing"
        BY <4>2, NumbersOf DEF Held, NoTask
      <4> QED BY <4>3, <4>4 DEF CommitInv, StartInv, ReachInv, FlightInv
    <3> QED BY <1>3, <3>2, <3>3, OwnerCommits
  <2> QED BY <2>1, <2>2
<1> QED BY <1>2, <1>3, StepsAre

\* It holds at the start.
LEMMA GroupStart == Init => GroupInv
<1> SUFFICES ASSUME Init, NEW c \in Consumers PROVE CommitInv(c)
  BY DEF GroupInv
<1> QED BY DEF Init, CommitInv, StartInv, ReachInv, FlightInv, NoTask, NoBatch, Held

\* The tracker's invariant holds in every reachable state.
LEMMA GroupIsCorrect == Spec => [](TypeOK /\ LocalInv /\ FlowInv /\ GroupInv)
<1>1. TypeOK /\ TypeOK' /\ LocalInv /\ FlowInv /\ GroupInv /\ [Next]_vars => GroupInv'
  BY GroupStep DEF GroupInv
<1> QED BY <1>1, GroupStart, FlowIsCorrect, ConsumerIsTyped, PTL DEF Spec

\* The tracker of the member that has the partition stands where the broker does,
\* but for records it has completed itself: for a process that is alone, whatever
\* it loses, and in a group until somebody is expelled or a client restarted.  A
\* record dropped from the middle of a batch leaves a tracker that starts past it.
THEOREM TrackersKeepUp ==
    Spec => [](((Alone \/ Undisturbed) /\ Whole) => TrackerKeepsUp)
<1>1. ASSUME GroupInv, Alone \/ Undisturbed, Whole PROVE TrackerKeepsUp
  BY <1>1 DEF GroupInv, CommitInv, ReachInv, TrackerKeepsUp
<1> QED BY <1>1, GroupIsCorrect, PTL

\* The committed offset never moves backwards under a process that is alone, nor
\* in a group until somebody is expelled or a client restarted: the commits of
\* the tasks, the ones of a process's end and the ones whose answer is lost all
\* go forward (_advance_commit_locked, _drain_and_finalize_commits).
THEOREM CommitsGoForward ==
    Spec => [][Alone \/ Undisturbed' => committed' >= committed]_committed
<1>1. TypeOK /\ TypeOK' /\ LocalInv /\ FlowInv /\ GroupInv /\ [Next]_vars
         => [Alone \/ Undisturbed' => committed' >= committed]_committed
  BY GroupStep
<1> QED BY <1>1, GroupIsCorrect, ConsumerIsTyped, PTL DEF Spec

\* So a process that is alone never moves it backwards at all, through crashes,
\* restarts and expulsions.
THEOREM AloneGoesForward == Alone /\ Spec => CommitMonotone
<1>1. Alone => []Alone
  BY DEF Alone
<1>2. Alone /\ [Alone \/ Undisturbed' => committed' >= committed]_committed
         => [committed' >= committed]_committed
  OBVIOUS
<1> QED BY <1>1, <1>2, CommitsGoForward, PTL DEF CommitMonotone
=============================================================================
