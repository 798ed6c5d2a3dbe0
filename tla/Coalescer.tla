----------------------------- MODULE Coalescer -----------------------------
(***************************************************************************)
(* MessageCoalescer (app/services/message_coalescer.py) for one            *)
(* conversation: messages that arrive in quick succession are held for a   *)
(* debounce time, at most for a window, and processed as one; a message    *)
(* that arrives while a batch is being processed cancels the processing    *)
(* and takes the batch's messages back to the queue.                       *)
(*                                                                         *)
(* All coroutines share one event loop, so an action is what runs between  *)
(* two awaits.  Time is counted in ticks and passes only while no          *)
(* coroutine is ready to run.  Message contents are left out: empty ones   *)
(* and exact repetitions, which _combine_messages drops, are messages like *)
(* any other here.  What process_callback does (MainOrchestrator.          *)
(* handle_message) is reduced to whether and when it answers and ends.     *)
(*                                                                         *)
(* A definition X_Fault is X with a plausible fault; no behaviour uses it. *)
(***************************************************************************)
EXTENDS Integers, Sequences, FiniteSets

CONSTANTS
    Kinds,              \* what may arrive: some of "text" and "share"
    Debounce,           \* coalesce_debounce_ms, in ticks
    Window,             \* coalesce_max_window_ms, in ticks
    ProcessingMayFail,  \* process_callback may raise an exception
    CancelMayBeLost,    \* the processing may swallow its cancellation
    MaxMessages,        \* bound: messages that ever arrive
    MaxHeld,            \* bound: ticks a message queues for the lock
    MaxShutdowns        \* bound: orderly stops of the process

ASSUME TimeAssumption == /\ Debounce \in Nat \ {0}
                         /\ Window \in Nat \ {0}
ASSUME KindAssumption == Kinds \subseteq {"text", "share"}
ASSUME FaultAssumption == /\ ProcessingMayFail \in BOOLEAN
                          /\ CancelMayBeLost \in BOOLEAN
ASSUME BoundAssumption == /\ MaxMessages \in Nat
                          /\ MaxHeld \in Nat
                          /\ MaxShutdowns \in Nat

VARIABLES
    arrived,            \* the kinds of what enqueue_message was given, in order
    lockQ,              \* holder and waiters of the conversation's lock
    cancelling,         \* the holder waits for the task it has cancelled
    pending,            \* state.pending_messages
    inFlight,           \* state.in_flight_messages
    hasTask,            \* state.active_task is not None (it may be done)
    timer,              \* state.debounce_task
    due,                \* ticks until the debounce timer goes off
    age,                \* ticks since state.first_message_at, up to Window
    stalled             \* ticks since the holder that waits for a cancelled task
                        \* read the clock (now), up to Window; 0 without one
VARIABLES               \* processing and history
    tasks,              \* every processing task started so far, the last one
                        \* being state.active_task
    handled,            \* messages dealt with, in order
    lost,               \* messages given up: see Finish and Shutdown
    waited,             \* ticks each message has spent in lockQ and in pending
    held,               \* ticks each message has spent in lockQ
    shutdowns

waitVars    == <<waited, held>>
timeVars    == <<due, age, stalled, waitVars>>
historyVars == <<handled, lost, shutdowns>>
vars == <<arrived, lockQ, cancelling, pending, inFlight, hasTask, timer,
          timeVars, tasks, historyVars>>

-----------------------------------------------------------------------------
(* A message is known by its place in the order of arrival.                *)

Messages == 1..MaxMessages
Timer    == 0                   \* the debounce timer as a waiter for the lock

Holder   == Head(lockQ)
Current  == tasks[Len(tasks)]
Going(t) == t.state \in {"running", "cancelled"}

Processing_IgnoresCancelled == hasTask /\ Current.state = "running"

\* state.active_task and not state.active_task.done()
Processing == hasTask /\ Going(Current)

Elements(s) == {s[i] : i \in DOMAIN s}

TypeOK ==
    /\ arrived \in Seq(Kinds)
    /\ lockQ \in Seq(Messages \cup {Timer})
    /\ cancelling \in BOOLEAN
    /\ pending \in Seq(Messages)
    /\ inFlight \in Seq(Messages)
    /\ hasTask \in BOOLEAN
    /\ timer \in {"none", "sleeping", "queued"}
    /\ due \in 0..Debounce
    /\ age \in 0..Window
    /\ tasks \in Seq([batch : Seq(Messages), replied : BOOLEAN,
                      state : {"running", "cancelled", "aborted", "finished",
                               "failed"}])
    /\ handled \in Seq(Messages)
    /\ lost \subseteq Messages
    /\ stalled \in 0..Window
    /\ waited \in [Messages -> 0..Window + MaxHeld + 1]
    /\ held \in [Messages -> 0..MaxHeld]
    /\ shutdowns \in 0..MaxShutdowns

Init ==
    /\ arrived = <<>>
    /\ lockQ = <<>>
    /\ cancelling = FALSE
    /\ pending = <<>> /\ inFlight = <<>>
    /\ hasTask = FALSE
    /\ timer = "none" /\ due = 0
    /\ age = 0 /\ stalled = 0
    /\ tasks = <<>>
    /\ handled = <<>> /\ lost = {}
    /\ waited = [m \in Messages |-> 0] /\ held = waited
    /\ shutdowns = 0

-----------------------------------------------------------------------------
(* _process_now and the debounce timer.                                    *)

\* Everything pending becomes one batch in flight, with a task of its own that
\* nobody waits for.
Process(batch) ==
    /\ pending' = <<>>
    /\ inFlight' = batch
    /\ tasks' = Append(tasks, [batch |-> batch, state |-> "running",
                               replied |-> FALSE])
    /\ hasTask' = TRUE
    /\ age' = 0

\* How long the timer may run when the first message came in since ticks ago.
Wait_MixesMinAndMax(since) ==
    IF Debounce < Window - since THEN Window - since ELSE Debounce

Wait_ForgetsWindow(since) == Debounce

Wait(since) == IF Debounce < Window - since THEN Debounce ELSE Window - since

\* The batch stays pending and a new timer is started.
Hold(batch, since) ==
    /\ pending' = batch
    /\ age' = since
    /\ timer' = "sleeping"
    /\ due' = Wait(since)
    /\ UNCHANGED tasks

-----------------------------------------------------------------------------
(* Enqueueing a message.                                                   *)

\* enqueue_message is called and queues for the conversation's lock.
Arrive ==
    /\ Len(arrived) < MaxMessages
    /\ \E k \in Kinds : arrived' = Append(arrived, k)
    /\ lockQ' = Append(lockQ, Len(arrived) + 1)
    /\ UNCHANGED <<cancelling, pending, inFlight, hasTask, timer, timeVars,
                   tasks, historyVars>>

HasLock == lockQ # <<>> /\ Holder # Timer

Without(s, i) == SubSeq(s, 1, i - 1) \o SubSeq(s, i + 1, Len(s))

\* A timer that is cancelled while it queues for the lock leaves the queue.
TimerLeaves(queue) ==
    IF timer = "queued"
    THEN Without(queue, CHOOSE i \in DOMAIN queue : queue[i] = Timer)
    ELSE queue

\* The rest of enqueue_message, once no task is going: queue is what is pending,
\* left what is still in flight, and active whether active_task is not None.  The
\* first message of a batch counts from when its call got the lock.  A timer in
\* force is cancelled, but not when a location share is processed at once.
Enqueue(queue, left, active) ==
    LET batch == Append(queue, Holder)
        since == IF queue = <<>> /\ ~active THEN stalled ELSE age
    IN  \/ /\ arrived[Holder] = "share"
           /\ lockQ' = Tail(lockQ)
           /\ Process(batch)
           /\ UNCHANGED <<timer, due>>
        \/ /\ arrived[Holder] # "share"
           /\ lockQ' = TimerLeaves(Tail(lockQ))
           /\ IF Wait(since) = 0
              THEN /\ Process(batch)
                   /\ timer' = "none"
                   /\ due' = 0
              ELSE /\ Hold(batch, since)
                   /\ inFlight' = left
                   /\ hasTask' = active

\* Nothing is being processed: the message joins what is pending.
Join ==
    /\ HasLock /\ ~cancelling
    /\ ~Processing
    /\ Enqueue(pending, inFlight, hasTask)
    /\ UNCHANGED <<arrived, cancelling, stalled, waitVars, historyVars>>

\* A batch is being processed: cancel its token and its task, and wait for it
\* with the lock held.
Interrupt ==
    /\ HasLock /\ ~cancelling
    /\ Processing
    /\ cancelling' = TRUE
    /\ tasks' = [tasks EXCEPT ![Len(tasks)].state = "cancelled"]
    /\ UNCHANGED <<arrived, lockQ, pending, inFlight, hasTask, timer, timeVars,
                   historyVars>>

\* The cancelled task is over: what it left in flight goes back to the front.
Resume_LeavesInFlight ==
    /\ cancelling
    /\ ~Processing
    /\ Enqueue(pending, <<>>, FALSE)
    /\ cancelling' = FALSE
    /\ stalled' = 0
    /\ UNCHANGED <<arrived, waitVars, historyVars>>

Resume ==
    /\ cancelling
    /\ ~Processing
    /\ Enqueue(inFlight \o pending, <<>>, FALSE)
    /\ cancelling' = FALSE
    /\ stalled' = 0
    /\ UNCHANGED <<arrived, waitVars, historyVars>>

\* The debounce timer goes off and queues for the lock.
TimerFires ==
    /\ timer = "sleeping" /\ due = 0
    /\ timer' = "queued"
    /\ lockQ' = Append(lockQ, Timer)
    /\ UNCHANGED <<arrived, cancelling, pending, inFlight, hasTask, timeVars,
                   tasks, historyVars>>

\* The timer has the lock: process what is pending, if anything still is.
TimerRuns ==
    /\ lockQ # <<>> /\ Holder = Timer
    /\ lockQ' = Tail(lockQ)
    /\ timer' = "none"
    /\ \/ /\ pending # <<>>
          /\ Process(pending)
       \/ /\ pending = <<>>
          /\ UNCHANGED <<pending, inFlight, tasks, hasTask, age>>
    /\ UNCHANGED <<arrived, cancelling, due, stalled, waitVars, historyVars>>

-----------------------------------------------------------------------------
(* The processing task, _run_processing around process_callback.           *)

\* It goes on as if nobody had cancelled it: nobody has, or an await on the way
\* swallowed the cancellation (asyncio.wait_for does when its result is there).
Undisturbed(t) ==
    \/ t.state = "running"
    \/ CancelMayBeLost /\ t.state = "cancelled"

\* The answer goes out; storing it and the rest of the handler are to come.
Reply ==
    /\ hasTask /\ Undisturbed(Current) /\ ~Current.replied
    /\ tasks' = [tasks EXCEPT ![Len(tasks)].replied = TRUE]
    /\ UNCHANGED <<arrived, lockQ, cancelling, pending, inFlight, hasTask,
                   timer, timeVars, historyVars>>

EndTask(state) == tasks' = [tasks EXCEPT ![Len(tasks)].state = state]

\* process_callback returns, with or without having answered.  It also returns
\* when it finds its token cancelled: then its batch is given up unanswered.
Outcome ==
    IF Current.state = "running" \/ Current.replied
    THEN /\ handled' = handled \o Current.batch
         /\ UNCHANGED lost
    ELSE /\ lost' = lost \cup Elements(Current.batch)
         /\ UNCHANGED handled

Finish_KeepsBatch ==
    /\ hasTask /\ Undisturbed(Current)
    /\ EndTask("finished")
    /\ Outcome
    /\ UNCHANGED <<arrived, lockQ, cancelling, pending, inFlight, hasTask,
                   timer, timeVars, shutdowns>>

Finish ==
    /\ hasTask /\ Undisturbed(Current)
    /\ EndTask("finished")
    /\ inFlight' = <<>>
    /\ Outcome
    /\ UNCHANGED <<arrived, lockQ, cancelling, pending, hasTask, timer,
                   timeVars, shutdowns>>

\* process_callback raises: the batch counts as attempted.
Fail ==
    /\ ProcessingMayFail
    /\ hasTask /\ Undisturbed(Current)
    /\ EndTask("failed")
    /\ inFlight' = <<>>
    /\ handled' = handled \o Current.batch
    /\ UNCHANGED <<arrived, lockQ, cancelling, pending, hasTask, timer,
                   timeVars, lost, shutdowns>>

\* CancelledError comes through: the batch stays in flight for the canceller.
Abort_ClearsBatch ==
    /\ hasTask /\ Current.state = "cancelled"
    /\ EndTask("aborted")
    /\ inFlight' = <<>>
    /\ UNCHANGED <<arrived, lockQ, cancelling, pending, hasTask, timer,
                   timeVars, historyVars>>

Abort ==
    /\ hasTask /\ Current.state = "cancelled"
    /\ EndTask("aborted")
    /\ UNCHANGED <<arrived, lockQ, cancelling, pending, inFlight, hasTask,
                   timer, timeVars, historyVars>>

-----------------------------------------------------------------------------
(* Time and the end of the process.                                        *)

\* Some coroutine can run without time passing.
Ready ==
    \/ timer = "sleeping" /\ due = 0
    \/ lockQ # <<>> /\ ~(cancelling /\ Processing)

Tick ==
    /\ ~Ready
    /\ \A m \in Messages \cap Elements(lockQ) : held[m] < MaxHeld
    /\ due' = IF timer = "sleeping" THEN due - 1 ELSE due
    /\ age' = IF age < Window THEN age + 1 ELSE age
    /\ stalled' = IF cancelling /\ stalled < Window THEN stalled + 1 ELSE stalled
    /\ waited' = [m \in Messages |->
                    IF /\ m \in Elements(lockQ) \cup Elements(pending)
                       /\ waited[m] <= Window + MaxHeld
                    THEN waited[m] + 1 ELSE waited[m]]
    /\ held' = [m \in Messages |->
                    IF m \in Elements(lockQ) THEN held[m] + 1 ELSE held[m]]
    /\ UNCHANGED <<arrived, lockQ, cancelling, pending, inFlight, hasTask,
                   timer, tasks, historyVars>>

\* shutdown, after the Kafka consumer has stopped and its handlers are done: the
\* timer and the task are cancelled and the conversations cleared.
Shutdown ==
    /\ shutdowns < MaxShutdowns
    /\ Elements(lockQ) \subseteq {Timer}
    /\ shutdowns' = shutdowns + 1
    /\ lockQ' = <<>>
    /\ pending' = <<>> /\ inFlight' = <<>>
    /\ lost' = lost \cup Elements(inFlight \o pending)
    /\ hasTask' = FALSE
    /\ timer' = "none" /\ due' = 0
    /\ age' = 0
    /\ tasks' = [i \in DOMAIN tasks |->
                    IF Going(tasks[i])
                    THEN [tasks[i] EXCEPT !.state = "aborted"]
                    ELSE tasks[i]]
    /\ UNCHANGED <<arrived, cancelling, stalled, waitVars, handled>>

-----------------------------------------------------------------------------
TaskStep == Reply \/ Finish \/ Fail \/ Abort

Next ==
    \/ Arrive
    \/ Join \/ Interrupt \/ Resume
    \/ TimerFires \/ TimerRuns
    \/ TaskStep
    \/ Tick
    \/ Shutdown

Spec == Init /\ [][Next]_vars

\* The event loop runs what is ready, time passes, and processing ends: its
\* awaits on the model, the database and the messaging service return or raise.
Fairness ==
    /\ WF_vars(Join) /\ WF_vars(Interrupt) /\ WF_vars(Resume)
    /\ WF_vars(TimerFires) /\ WF_vars(TimerRuns)
    /\ WF_vars(Finish \/ Fail \/ Abort)
    /\ WF_vars(Tick)

FairSpec == Spec /\ Fairness

-----------------------------------------------------------------------------
(* Properties.                                                             *)

\* The messages that went through enqueue_message and were not given up.
Kept == (1..Len(arrived)) \ (Elements(lockQ) \cup lost)

\* What has been dealt with, is in flight or waits, one after the other.
Taken == handled \o inFlight \o pending

Increasing(s) == \A i, j \in DOMAIN s : i < j => s[i] < s[j]

\* Nothing is lost unnoticed, doubled or put out of order between the queue, the
\* batch in flight and what has been dealt with, however arrivals, the timer,
\* processing, cancellation and a shutdown interleave ("restored to pending if
\* cancelled").
Conserved == Elements(Taken) = Kept /\ Increasing(Taken)

\* The same as a refinement: the conversation is dealt with as the inbox says.
Promise == INSTANCE Inbox WITH received <- Taken

InboxSpec == Promise!Spec

\* "Messages currently being processed (restored to pending if cancelled)": none
\* of them is given up, as long as the process runs.
NothingLost == shutdowns = 0 => lost = {}

Tried(m) == \E i \in DOMAIN tasks : m \in Elements(tasks[i].batch)

\* From its arrival until it is processed the first time, a message waits at most
\* for the window and the time it queues for the conversation's lock, however
\* many others follow it.  It queues while the holder awaits the task it has
\* cancelled, and the code sets no limit to that: "Max 10s total wait" is so only
\* for a message that did not queue.
FirstWaitBounded ==
    \A m \in Messages \cap (Elements(lockQ) \cup Elements(pending)) :
        ~Tried(m) => waited[m] <= Window + held[m]

\* "Max 10s total wait": from its arrival until it is processed the first time a
\* message waits at most for the window.  A message that queued for the lock may
\* wait longer.
TotalWaitBounded ==
    \A m \in Messages \cap (Elements(lockQ) \cup Elements(pending)) :
        ~Tried(m) => waited[m] <= Window

\* "Wait 1.5s for more messages": a batch of texts none of which was in an
\* earlier batch was held until its last message had waited for the debounce
\* time, or its first one for the window.
DebounceKept ==
    \A i \in DOMAIN tasks :
        LET batch == tasks[i].batch
            fresh == \A m \in Elements(batch) :
                        /\ arrived[m] = "text"
                        /\ \A j \in 1..i-1 : m \notin Elements(tasks[j].batch)
        IN  fresh => \/ waited[batch[Len(batch)]] >= Debounce
                     \/ waited[batch[1]] >= Window

\* A batch is processed as a location share if one of its messages is one; the
\* payload takes is_location_share from the first.
SharesSeen ==
    \A i \in DOMAIN tasks :
        LET batch == tasks[i].batch
        IN  (\E m \in Elements(batch) : arrived[m] = "share")
                => arrived[batch[1]] = "share"

\* Every message that arrives is dealt with in the end, or given up.
AllHandled ==
    \A m \in Messages :
        m <= Len(arrived) ~> m \in Elements(handled) \cup lost
=============================================================================
