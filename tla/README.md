# Franklink in TLA+

Franklink is an assistant that people talk to over iMessage. A listener publishes
inbound messages to Kafka, workers consume them, the messages of a conversation
are coalesced and processed by agents, users are onboarded and introduced to each
other in group chats, and background jobs write summaries, nudges and
suggestions. This directory holds TLA+ models of the parts of it that are hard to
get right, the TLC runs that check them on small instances, and TLAPS proofs of
what they promise, for every value of the constants.

    tlc -workers 2 -config handshake.cfg MCHandshake.tla
    tlapm HandshakeProofs.tla

`PROJECT.json` lists the components, the runs with their properties, for each
definition the lines it models, the hazards of the code at their lines, and the
theorems. Sections 3 to 9 describe the models, 10 the places where the code does
not do what is said of it, 11 the proofs, 12 what is left out.

## 1. Inventory

All paths are under `src/app/` unless they say otherwise.

| component | state | operations | what is hard | what makes it correct |
|---|---|---|---|---|
| Photon ingest, `integrations/photon_listener.py` | recent ids | socket callbacks publish an event | duplicates, reconnects | every event published at least once |
| Inbound consumer, `integrations/kafka_pipeline.py` | per partition: tracker (commit position, completed offsets, maximum, pause, generation), tasks, assignment snapshot; in Kafka: log, committed offset, owner | poll, reconcile, dispatch, handle, finalize, commit, pause/resume, auth restart, stop | tasks finish out of order and outlive assignments, commits fail, a crash at any point | the commit never passes an unsettled record; everything is delivered; the commit only advances; a pause ends |
| Retry and dead-letter pipeline, `main.py`, `kafka_pipeline.py`, `utils/redis_client.py` | records with an attempt, idempotency keys, dead-letter topic | check the key, process, hand on | redelivery, duplicates, crash between key and processing | begun at most once, yet never dropped |
| Message coalescer, `services/message_coalescer.py` | per conversation: lock, pending, in flight, active task, timer, first message time | enqueue, debounce, process, cancel and restore, shutdown | cancellation races with every end of a task | nothing lost, doubled or reordered; one task at a time; bounded wait |
| Orchestrator, `orchestrator.py` | none of its own between messages | route a message to onboarding, a group or the agents | awaits between answering and returning | an answered message is not answered again |
| Connection handshake, `database/client/connection_requests.py`, `agents/execution/networking/utils/handshake_manager.py`, `groupchat/features/provisioning.py`, `agents/tools/networking.py` | status, chat and signal group of each request, participant rows, chats of the messaging service | find a match, confirm, cancel, invite, accept, decline, make or join a chat, announce, mark | concurrent answers in two conversations, a crash or a lost answer between the chat and its rows | legal status transitions, an introduction on record took place, one chat for what was agreed, who accepted meets |
| Networking state, `agents/state/atomic_state.py` | versioned rows and a cache | read, update | stored only by the right successor version | no update lost |
| Summary and follow-up jobs, `groupchat/summary`, `groupchat/followup`, `src/migrations/group_chat_*.sql` | one job row for each chat: status, due time, anchor message, claim, attempts; segments; `last_nudge_at` | schedule on a message, claim, summarise or nudge, complete, fail, release, take over a stale claim | a worker slower than its claim, a crash between sending and completing, messages recorded late or twice | every message in a summary, one nudge a silence and none over a newer message |
| Daily email and proactive outreach, `proactive`, `database/client/*_jobs.py` | one job row for each user, tracked suggestions, open requests, stored tasks | schedule, claim, choose topic and match, create requests, send, track, complete | the message is sent before it is tracked | no topic, person or run twice; every job ends |
| Onboarding, `agents/tools/onboarding`, `agents/tasks/onboarding_handler.py` | the user's row: columns, `personal_facts` with the stage, `is_onboarded`, the fee; histories; jobs | one handler for each stage, completion | whole-object writes from a snapshot, messages that cancel a handling between two writes, swallowed failures | a stage is earned; a completion is whole; no way back |
| Async operation queue, `agents/queue/async_processor.py` | in-memory operations with dependencies | submit, process, retry, clean up | started, and never given an operation | nothing to get wrong |
| Agents, tools, matching, `agents/` | task history, tool results | model calls and tool calls | decided by a language model | not determined by the code |
| Supervisor, location, profile, graph and reaction services, clients, web page, schema, scripts | little or none shared | periodic reads and overwrites, HTTP calls | failures of services | idempotent overwrites |

How they interact: the ingest publishes to the inbound topic; the consumer runs
`_handle_kafka_event` for each record, concurrently, at most
`kafka_consumer_max_inflight` at a time; that checks the idempotency key in Redis and
hands the message to `enqueue_message`, after which the record is complete as far
as Kafka is concerned. The coalescer calls `process_callback`, which is the
orchestrator, some time later in a task of its own. A handler that raises makes
the consumer send the event to a retry topic, or to the dead-letter topic, before
it completes the record. Shutdown stops the listener, the consumer, the queue
and then the coalescer (`main.py:487-520`).

The orchestrator sends a user who is not onboarded to the onboarding handler, and
others to the interaction agent, whose networking tools move the connection
requests; the last onboarding stage schedules the user's outreach and email jobs. A
message in a group chat is recorded and schedules the summary and the follow-up
job of the chat. The jobs are claimed by every worker process in turn, through
SQL functions; outreach creates connection requests and leaves a task for the
agent. The database row is the only thing that these have in common.

The hazards are listed, each at its line, in `PROJECT.json`.

## 2. Modules

| modules | about | abstract specification | proofs |
|---|---|---|---|
| `InboundConsumer` | consumption of a partition | `OffsetLedger` | `InboundConsumerProofs` |
| `Coalescer` | a conversation's messages | `Inbox` | `CoalescerProofs` |
| `RetryPipeline` | an event over the topics, given that a record is delivered until it is settled | `EventFates` | `RetryPipelineProofs` |
| `Handshake` | requests and chats | `Introductions` | `HandshakeProofs` |
| `ChatJobs` | the SQL functions of a chat's job row, as operators | | in those of the next two |
| `ChatSummary`, `ChatFollowup` | recorder and workers around such a row | | `ChatSummaryProofs`, `ChatFollowupProofs` |
| `UserJobs`, `Outreach` | the row of a user's job; the outreach run around it | | `OutreachProofs` |
| `Onboarding` | a user's way through the stages | | `OnboardingProofs` |

Each component has a module `MC...` that gives its constants values for TLC, and
one `.cfg` for each run. `ChatJobs` and `UserJobs` hold no state: each operation is an
operator from a row to the next one, as the SQL function is, so that
`ChatSummary` and `ChatFollowup` compose the same row with different workers.

Next in order, and not written: the daily email service around `UserJobs`, the opinion
and icebreaker features of group chats, and the composition of `Coalescer` with the
consumer (what completing a record at `enqueue_message` loses in a crash).

## 3. The inbound consumer

`InboundConsumer` models one partition with keyed concurrency on, and the worker
processes (`Consumers`) of the group that compete for it. Trackers of different
partitions share nothing but the semaphore and the loop, and neither couples
their contents.

| in the model | in `kafka_pipeline.py` |
|---|---|
| `lastCommitted`, `initialized`, `completed`, `maxSeen`, `pausedForGap`, `generation` | fields of `_PartitionTracker` (31-46) |
| `snapshot`, `seen` | `_assignment_snapshot`, and `current` of a reconcile that waits for the lock |
| `runPc`, `batch` | where `_run` stands (391-424), and what it still has to dispatch |
| `task[c][s]` | a `_handle_record` task holding permit `s` of `_inflight_semaphore` |
| `restart` | how far `_restart_for_auth_error` has got (426-457) |
| `Reconcile*`, `Poll*`, `Dispatch*` | `_reconcile_assignments`, `getmany`, the head of `_handle_record` |
| `HandleSettled`, `HandleUnsettled` | the handler and `_handle_failure` by their outcome only |
| `Finalize*`, `CommitOK`, `CommitRaises` | the `finally` part of `_handle_record`, `_advance_commit_locked`, and `_maybe_adjust_partition_flow_locked` |
| `Crash`, `Stop` | death of the process; `stop` with `_drain_and_finalize_commits` |
| `logEnd`, `committed`, `owner`, `assigned`, `position`, `clientPaused` | broker, coordinator and aiokafka client, external |

`handled`, `bypassed` and `dropped` are history. An action is what runs between
two awaits; `tracker_lock` is held across an await only while a commit is in
flight (`LockHeld`), so other critical sections are single actions.

Abstractions: which tasks may run together is not restricted by the key locks
("any" is a superset); the assignment that the reconcile of an auth restart
applies is read when it is applied; the loop reads it earlier (`ReconcileRead`).
The sleep of a retry record, topic bootstrap, credentials and the path with
keyed concurrency off are left out. An eviction by the coordinator that the loop
does not notice is `Expel` followed by `Join` of the same member.

`OffsetLedger` is the abstract specification: records become settled in any
order, and the committed offset moves only to a position below which all are.

### Runs

| run | instance | shows |
|---|---|---|
| `consumer_single` | 1 process, 2 permits, log 2, batch 1, one each of expulsion, crash, auth restart (which may fail); failing hand-ons and commits | `TrackerKeepsUp`, `CommitMonotone` |
| `consumer_group` | 2 processes, 2 permits, log 2, batch 2, one expulsion, one crash or stop, failing hand-ons and commits, reset policy "latest" (the default) | `TypeOK`, `NothingSkipped`, refinement of the ledger |
| `consumer_failover` | 2 processes, 2 permits, log 5, pause above a gap of 1, one crash or stop | `GapBounded`, and under fairness `Delivered`, `PauseIsReleased` |

Bounds: two permits give every order of two concurrent records; with two
records one can be completed beyond an unfinished one. A log of 5 is the first
in which a gap can exceed pause threshold, permits and batch together (1+2+1),
which is what `GapBounded` excludes; a resume watermark above the pause threshold,
which the settings allow, takes its place (`ReadOnGap`). Two processes and one expulsion give a
takeover and a late task of the former owner; more processes only repeat it,
and the safety properties are proved for any number (section 11).

Fairness (`FairSpec`): the event loop runs every coroutine that can run; the
broker and coordinator answer; handlers return; a restart ends. `getmany` is
strongly fair, since it may come back empty although records are there and yet
returns them sooner or later. Nothing makes producers, expulsions, crashes,
restarts or stops happen. `Delivered` and `PauseIsReleased` are claimed only
for failure-free brokers and clients (no expulsion, no auth restart, commits
and hand-ons work): section 10 says why.

## 4. The coalescer

`Coalescer` models `MessageCoalescer` for one conversation. A message is known
by its place in the order of arrival and has a kind, text or location share.
`lockQ` is the conversation's lock with its waiters, `pending`, `inFlight`,
`hasTask`, `timer` are the fields of `ConversationState`, `age` is the time since
`first_message_at`, and `tasks` are the processing tasks. `Join`, `Interrupt` and
`Resume` are the pieces of `_enqueue_message_locked` between its awaits;
`TimerFires` and `TimerRuns` those of `_debounce_wait`; `Reply`, `Finish`, `Fail`
and `Abort` the ways `process_callback` goes on under a cancellation. Time is in
ticks and passes only when no coroutine is ready, so delays of the event loop
itself are not counted. It passes also while a message holds the lock and awaits the
task it has cancelled (`cancelling`), for as long as the task likes to take. `held` is the time
each message has queued for the lock and `waited` that and its time in `pending`, both history;
`stalled` is the time since the holder read the clock, from which the window of a new
batch counts. `Shutdown` comes after the consumer has stopped, as in `main.py`.

`Inbox` is the abstract specification: what has been dealt with is always a
prefix of what was taken in and not given up. A message is taken in after all that
were written before it (`Receive`), a stretch of messages is dealt with (`Handle`) or
given up (`GiveUp`), and what was dealt with never is.

Run `inbox`: 3 messages, debounce 2, window 3, failing and cancel-swallowing
processing, one shutdown, with the invariants `TypeOK`, `Conserved`,
`FirstWaitBounded`, the refinement `InboxSpec` and, under fairness, `AllHandled`,
which a conversation left without a timer or a task would break (708,000 states).
`FirstWaitBounded` is about a message that was not processed yet: from its arrival it waits
for the window at most and the time it queued for the lock. The code has no limit to the
second (section 10); here it is `MaxHeld`, two ticks, enough to let the sum
exceed the window, and the theorem has none (section 11). Three messages are enough for one in flight, one waiting
for the lock in cancellation and one pending; the window is longer than the
debounce, and shorter than two, so that both ends of `Wait` decide. Fairness:
ready coroutines run, time passes, processing ends. Batches given up
(`lost`, at `Finish` and `Shutdown`) are explicit, so `Conserved` says nothing is
lost anywhere else.

## 5. The retry pipeline

`RetryPipeline` models an event over the inbound, retry and dead-letter topics as
one log of records with an attempt, and the workers that handle them. It takes
from `InboundConsumer` that a record is delivered until it is settled and
committed. `redis` is chosen once: up, or down, when `check_idempotency` fails
open. `Send` decides between retry and dead-letter as `_handle_failure` does.

`EventFates` is the abstract specification, without topics, records, workers or keys: an
event is due from its publication until it is forgotten. With Redis up it begins once,
and is forgotten only after that; with Redis down it may begin many times, and is
forgotten only when it is over, that is processed or parked. An event is due in the
pipeline while it has a record that is not committed, and a commit of the last one
forgets it.

Run `retries`: one event published twice, two workers, one attempt beyond the
first, one redelivery, one crash, failing handlers and sends, Redis in either
state (2 million states). One event is enough because events interact only through the workers
they occupy. The refinement `FatesSpec` holds in both states of Redis, `BegunOnce` with
Redis up, `AccountedWithoutKeys` and `Concluded` with it down. `Concluded` exempts an event
whose hand-on failed (`unsent`): its record stays uncommitted, which `AccountedWithoutKeys`
covers, until a rebalance or a restart delivers it again, which nothing guarantees. Deadlock checking is off: when the publications and
faults are used up and everything is handled, nothing is left to do. Fairness:
records are delivered to an idle worker, and handlers end.

Run `retry_skipped` shows a violation (section 10).

Left out: the delays of the retry topics, the expiry of keys after a day, and
events without an identifier, which the handler drops.

## 6. Introductions

`Handshake` models the connection requests of a search and the group chats that
come out of them. A request belongs to a multi-match (a signal group) or to
none, and an expansion carries the chat its initiator is in. A worker handles one
tool call at a time (`work`), and every database call and every call of the
messaging service is a step of its own; calls of different users run at the
same time in different workers.

| in the model | in the code |
|---|---|
| `status`, `guid`, `mguid`, `signal` | columns of `connection_requests` |
| `members`, `rows`, `origin`, `via` | chats of the messaging service; `group_chat_participants`; history of what a chat was made for |
| `FindMatch`, `FindMultiMatches`, `ExpandGroupChat` | creation of requests by the tools of `networking.py` and `groupchat_networking.py` |
| `InitiatorConfirms`, `InitiatorCancels`, `SendInvitation`, `TargetAccepts`, `TargetDeclines` | the answers, `handshake_manager.py` |
| `SaysYes`, `SaidYes`, `answers`, `inbox` | a target's yes, counted when it is handled; a yes that is delivered again, which waits in `inbox` |
| `CheckReady`, `StartCreate` (`CarriedChat`, `SingleMatch`, `Route`), `Refresh` | which chat the accepted requests need, after another look at the rows |
| `Gather` | `create_multi_person_group` reads the requests and people that the chat is for (`who`) |
| `PhotonCreates`, `RecordChat` | the chat, and its record with a row for each person, one after the other |
| `PhotonAdds`, `Announce` | one more person in a chat, then the row |
| `Mark` | the marks, one by one, with a compare-and-set on the status |
| `CallFails`, `Crash`, `Redeliver` | a call that reports an error, a dead process, a message delivered again |
| `short`, `failed`, `disturbed`, `faults` | history: chats made without somebody, requests whose call failed, searches and requests interfered with |

Failures are of three kinds. A call that raises ends the tool (`CallFails`). A write that is best
effort is logged and passed over: the rows of `RecordChat` and `Announce`. And a read that fails
answers as if there were nothing, as a fault in the action that reads: `CheckReady` says not
ready and no chat, and the tool ends without an error; `Refresh` shows no chat and nobody
else who accepted; the lookup of a chat that two people share finds none (`PairMissed`); and
`Gather` leaves out whom it cannot read, as long as two people remain, while
the accepted requests are all marked with the chat afterwards. Everybody has a
phone number.

`Introductions` is the abstract specification, without rows, calls or chats: an
introduction is proposed, confirmed, accepted, and concluded only after its two
people met or missed each other in a chat that was made for them. `IntroductionsSpec` maps
the status to its phase, the requests of the chats to those who met, and those of the
chats in `short` to those who missed each other.

Run `handshake`: three users, one multi-match of two and one further request
between two of the three, which is single or for the chat its initiator is in; two
calls at once, four chats, three acceptances in all, one fault, threshold 1 as in
`networking.py:3117` (1.46 million states). A target may say yes again, as long as its request is
not settled, and a redelivery, one of the faults, brings an acceptance twice besides. The
fairness is that each call that was started takes its next step, and that some worker takes a
message that is delivered again, as the event loop and the consumer do. Three requests are the fewest with a pair that shares a
chat and one that is merged or added. What holds, and what is exempt because the code
has it otherwise (section 10):

* `GroupIsReal`: a request that is marked names a chat in which both its people are,
  unless that chat was made without somebody who could not be read (`short`).
* `OneChatUnlessDisturbed`: one chat for a search or a single request, unless a call for it
  came while another was at work, as a second answer or a redelivery, or died or lost an answer, a
  read missed its chat, or the call failed after the chat was made and before it was marked.
* `IntroductionsSpec`, the refinement.
* `AcceptedMeet`, under fairness: again and again there is a time at which each accepted request
  is settled, that is its two people are in one chat, or their chat was made short of
  somebody, or its call failed, with an error or without one. The last two need an unreadable
  row or a failed call for that very request.

A chat that misses somebody, a second chat and an acceptance without a chat are thus each tied to the
read or call that made them, and the properties say that they come in no other way and spread
to no other request. Fairness: each worker goes on with the call it has begun, and sends the
invitation of a request it confirmed; some worker takes a message that waits.
Deadlock checking is off: when all have answered, nothing is left to do.

Left out: who is matched with whom, expiry (nothing ever assigns EXPIRED),
previews of conversations, the location prompt, the retries within one send.

## 7. Summaries and nudges of group chats

`ChatJobs` translates the SQL functions of `src/migrations/group_chat_summary_v1.sql` and
`group_chat_followup_v1.sql`, which treat their job row alike: `Scheduled` moves
the anchor and the due time on a newer message, `Claimed` takes what is due or
stale, `Completed` ends the job only if its anchor is still the one claimed.
Time is in ticks; the clock stops at `Horizon`, by which everything put off is
due. Takeover of a claim from a live worker counts as a fault, as do failed
client calls, lost answers, failures of the model, crashes and repeated events;
`MaxFaults` bounds them together.

`ChatSummary`: messages are sent at a time and recorded up to `MaxDelay` later, in
any order; `raw` is the row of the last `KeepLast` of them. A worker claims, reads the
newest `ReadLimit` messages as they were sent (`Recent`), takes the memory row, gives
the last `MaxLines` of the segment to the model, appends the segment up to the claimed
due time, prunes, and completes. A segment is the set of messages it covers. The three
limits of the code differ, 800 messages kept (`RAW_KEEP_LAST_N`), 200 read
(`summary/worker.py:268`) and 120 lines, each within the one before; that order is
`SummaryAssumption`.

Run `summaries`: three messages of users and one of the assistant's own, a raw row of
three, reads of two, two workers, one fault (349,000 states): one message more than the row
keeps, and more than a read reaches. `NothingSkipped` names what is not in a summary although its
time has passed: messages recorded after their segment was read, those that
the bound of the row dropped or a read did not reach (`missed`), and those
that gave way to a full transcript (`CrowdedOut`). `NothingForgotten`,
`SummarisedOnce`, and under fairness `EveryMessageSettles`. A window of two ticks with a
delay of one is the smallest in which a message can be recorded after its segment was
read. The safety properties also hold with two faults (2.6 million states).

`ChatFollowup`: the recorder stores a message and schedules the follow-up in a call
of its own, whose failure is swallowed (`lost`). A worker claims, reads the chat,
puts the job off if somebody wrote, sends the nudge and completes. Run `nudges`:
three messages, two workers, one fault. `NudgedInSilence`, `DoneMeansNudged`,
`NudgedOncePerSilence` (every further nudge for a message takes a fault of its own),
and under fairness `EverySilenceEnds`. Three messages give one nudged, one that
ends the silence while the worker waits and one recorded late; the safety
properties also hold with two faults (4.7 million states). An event is recorded
before its window is over (`MaxDelay` < `Window`; the window is a week,
`config.py:99`); section 10 says what happens otherwise.

Fairness in both: time passes, a worker that has begun goes on, and the loops
poll for claims without end. Deadlock checking is off: at the horizon, with all
jobs ended, nothing is left to do.

## 8. Outreach

`UserJobs` is the row of a user's job as the SQL functions of
`src/migrations/proactive_outreach_*.sql` and `daily_email_jobs.sql` define it.
`Outreach` adds the run of `proactive/outreach/service.py`: the model ranks topics
(`Consider`), the first that was not suggested recently and finds a match that was
not either is taken (`TryTopic`, `FindMatch`), requests are created one by one
(`CreateRequests`), the message is sent (`Send`), the task that waits for the answer
is stored (`SaveTask`), the suggestion is tracked (`Track`), and the job completed.
A failed completion leaves the claim to get stale. All of it happens within the
seven days in which a suggestion counts as recent.

Run `outreach`: two topics, two people, two schedules, two workers, one fault.
`NothingTwice`: within the cooldown no topic and no first person is suggested twice,
no run brings a second message, and nobody is asked twice in it, but by a fault of its
own, although the requests are made before the message is sent and this before it is
tracked. What the user got is history (`messages`, `offered`, `first`), kept as counters
since a sum over a set is beyond the proofs. `JobEnds`, under fairness as above: a scheduled job is done, skipped
or given up. Two topics and people are needed to have one to avoid and one to
take. Run `next_run_missing` shows a violation (section 10).

Also true of the code: only the first of several targets is tracked; a target
whose request could not be created is still named in the message; requests of a
message that could not be sent stay open, and the retry creates further ones
(`outreach/service.py:450`).

## 9. Onboarding

`Onboarding` models one user's way through the stages of
`agents/tools/onboarding/executor.py`.

| in the model | in the code |
|---|---|
| `columns`, `facts`, `onboarded`, `fee` | the user's row; `facts` is `personal_facts` with the stage, the email status and both evaluations |
| `histories`, `jobs` | demand and value history; the rows of both jobs |
| `work[p]` | a handling in process `p`, with its copy of the facts (`_populate_user_profile`) |
| `home`, `waiting` | the process that gets the user's messages; who has some to handle |
| `Receive` | the coalescer: a message cuts the handling short at any await and restores its batch |
| `Rebalance`, `Crash` | the partition goes elsewhere while the old process still handles; a process dies |
| `NameStage` ... `ValueStage` | the outcomes of a stage that write; `AskAgain` those that do not |
| `UpdateUserProfile` | one write of the whole facts; its failure is logged and swallowed |
| `ShareStage`, `Summarize`, `ScheduleEmail`, `ScheduleOutreach`, `PromptLocation`, `Reply` | the completion, call by call |

`disturbed` and `faults` are history. What a model decides (scores, intents) is
free; fees are counted in steps, of which an answer takes one at most. Three steps
are enough to be accepted, so that `FullFee` above 3 never reaches zero
otherwise than by sharing, after which the fee is zero (`FeeAfterSharing`). Facts that name no
stage, as those of a new user do, leave the stage to the columns (`StageOf`): a name that is known already
is not asked for. Such facts hold no email status and no evaluation either, so that the later
inferences of `_get_current_stage` and `_populate_user_profile`, which look at these, are not reached.

Run `onboarding`: two processes, four steps of fee, four turns (as in the code),
two faults. Two faults are needed: a rebalance that sets a late process free, and
another process's crash or a failed write. Messages are unlimited. `StageIsEarned`
holds without any exemption; `CompletionIsWhole` exempts completions that were cut
short or in which a call failed, `NeverGoesBack` two processes at work for the same
user. Without these exemptions TLC finds counterexamples, which are behaviours
of the code. There is no liveness here: nothing makes a user answer.

Left out: the payment webhook, which writes `personal_facts` as well
(`stripe_client.py:590-625`); the stage "rejected", which the evaluation never
returns; fields that the agent loop extracts ahead of their stage; profile
synthesis and the graph; the answer to the location prompt.

## 10. Where the code does not do what is said of it

Shown by a run:

* `retry_skipped` (`Accounted`, Redis up): the idempotency key is set before the
  processing (`main.py:619`), so the retry of a failed event finds the key of its
  own first attempt and is skipped as a duplicate. A crash after the key was set
  has the same effect on the redelivery. "Nothing is dropped" (`src/README.md:105`).
* `next_run_missing` (`NextRunComes`): a job that is done or skipped gets the time of
  its next run and stays done or skipped, and a claim takes only queued or stale
  jobs (`proactive_outreach_interval_days.sql:31` and `:75`,
  `proactive_outreach_jobs_v2.sql:105`), so it runs once. The daily email job is
  the same (`daily_email_jobs.sql:122` and `:142` against `:100`).

Stated in the modules, and violated; put the definition alone, with the constants
that are given, in the `.cfg` of the run named to see it.

* `InboundConsumer.PauseIsReleased` with an expulsion (`consumer_failover` with one
  process, `MaxLog = 3`, `MaxExpels = 1`, `MaxCrashes = 0`): a regained partition is judged by the maximum offset and the
  commit position of its previous assignment (`kafka_pipeline.py:484`), is paused
  again with nothing in flight, and only a task that ends ever resumes it. The same
  happens when the commit of the last record in flight of a paused partition
  raises (590).
* `InboundConsumer.CommitMonotone` with two processes (`consumer_group`): a process that regains a
  partition commits from the position of its earlier assignment and takes the
  group's offset back (590).
* `InboundConsumer.NothingDropped` with a restart (`consumer_single`, `MaxBatch = 2`): a task that
  starts while an auth restart has taken the client away dies on
  `assert self._consumer` (614), and the next record starts the tracker behind it.
* `Coalescer.DebounceKept` (`inbox`): `first_message_at` is not reset after a batch that
  ended by itself (`message_coalescer.py:172`), so later messages find the window
  closed and are not held at all, against `config.py:114` "Wait 1.5s for more messages".
* `Coalescer.TotalWaitBounded` (`inbox`): a message arrives while another holds the lock and
  awaits the task it has cancelled (`message_coalescer.py:149-160`). The window counts from when a
  call gets the lock, so that the message waits two ticks for the lock and two more for its
  timer, against a window of three; "Max 10s total wait" (`config.py:115`). Nothing
  limits the first part. A message that is taken back from a cancelled batch gets a new
  window besides, so that the time until an answer has no bound either.
* `Coalescer.NothingLost` (`inbox`): processing that returns normally after its
  cancellation clears the batch although nothing answered it (291).
* `Coalescer.SharesSeen` (`inbox`): the combined payload takes `is_location_share`
  from its first message (268).
* `Handshake.NoDuplicateGroup` (`handshake`): two targets of one multi-match who accept
  at once both find no chat, and both calls make one before either marks its rows
  (`handshake_manager.py:684`), against `:494` "Uses optimistic locking to prevent
  duplicate group creation."
* `Handshake.JoinedIsMarked` (`handshake`, also with `MaxFaults = 0`): `datetime` is unbound in `networking.py:2645` and
  `:2779`, as a later import (2856) makes it local, so that the mark of a target who joins a chat that was
  there raises and is passed over. The target is in the chat, the request stays accepted, and a
  further yes adds and announces the target again. `Handshake.ConfirmedIsInvited` (`handshake`): a request is confirmed in one call
  and its invitation sent in another (`networking.py:2038`, `:2144`), and a crash between them
  leaves a confirmed request that was never sent. `Handshake.PendingIsTracked` (`handshake`): `create_request` moves the version of the
  initiator's state twice, and `update_state` stores only the successor of the stored one
  (`handshake_manager.py:187`, `atomic_state.py:411`), a result nobody reads: no flow state is ever stored.
* Reads that fail without an error, in `Handshake` (`handshake`). With `short` out of `GroupIsReal`, or `failed` or
  `short` out of `Settled`, TLC shows an introduction or an acceptance that comes to nothing:
  `create_multi_person_group` skips a request or person that it cannot read
  (`handshake_manager.py:641-655`) and still marks all accepted requests with the chat (696-706),
  and the readiness check turns every error into "not ready, no chat"
  (`connection_requests.py:787-795`), after which an accepted request has no chat and nobody an
  error. With the fault of `Refresh` left out of `disturbed` and `MaxFaults = 2`, the same answer in
  the second look (`networking.py:2671`) makes a second chat for one search. The lookup of a shared
  chat answers "none" on an error too (`group_chat.py:365-367`); the pair then gets a chat of its own
  beside the one it shares, which was made for something else, so that `OneChatUnlessDisturbed`
  does not depend on its being exempt.
* `ChatFollowup.NudgedOncePerSilence` with `MaxDelay = 2` (`nudges`): the recorder
  stores a message a whole window late; before it schedules the job, a worker reads the
  chat and puts its job off to that message, for which the job is due at once; the nudge
  is sent, and the recorder's own schedule call (`recorder.py:115`) then clears it, so
  that a second nudge for the same message follows without any fault.
* `ChatSummary.NewSegmentsKept` (`summaries`): a message sent before the end of a
  segment and recorded after the transcript was read is in no summary
  (`summary/worker.py:316`), against `group_chat_summary.py:252-253`.

Read in the code, some of them built into the models:

* A rebalance that takes a partition and gives it back between two iterations of
  the loop leaves `paused_for_gap` set and the client unpaused; the gap is then
  unbounded. `GapBounded` is checked without expulsions.
* With `auto_offset_reset` "latest" (342), a group that loses the partition
  before its first commit jumps over what was written meanwhile (`bypassed`).
* If the restart after an auth error fails, `_consumer` stays `None` and nothing is
  tried again (405). An offset whose hand-on failed (721-724) is never committed
  before a restart.
* An event is tried `kafka_max_attempts + 1` times (731; `src/README.md:105` says 6).
  A retried event is handled after later events of its conversation (740).
* A batch that was answered before it was cancelled is answered again; a shutdown drops what is pending
  (`message_coalescer.py:356`), whose records are complete; messages of two
  members of a group are combined under the first one's number; all but the first
  media of a batch are dropped (275); the sort by `time.time()` (318) follows the
  clock when it steps back.
* A database error while the chat of a follow-up is read counts as a missing chat
  and ends the silence. Without its Redis context an icebreaker takes the present
  for the time it was sent, so that no opinion is ever due (`opinion.py:859-881`, `576-579`).
* A message or a crash after `is_onboarded` is written keeps the histories and the
  jobs from ever being made, since the user no longer needs onboarding
  (`executor.py:1503-1603`, `agent.py:2024`). A failed write of the completion followed
  by the flag of the location prompt stores the stage "complete" without
  `is_onboarded`; nothing takes such a user up again.
* The follow-up question about the user's needs is never asked, because the answer
  is in the history when its turns are counted (`evaluation.py:327-341`); the
  maximum of five turns (`evaluation.py:448`) is four. `agent.py:1965-1990` calls
  `update_user_profile` with a keyword it does not have, so the answer to the location
  prompt is not stored.

## 11. Proofs

Each theorem is for all values of the constants that meet the assumption named in
its module, which TLC evaluates in each run of that module. None of the properties is
inductive by itself; the invariant that is comes first in each proof module, then a
lemma for each group of actions, then the theorems.

`InboundConsumerProofs`, what is never lost: `ConsumerIsTyped`,
`NeverSkips`, `ConsumerImplementsLedger`. A commit takes its position from the tracker, and the
tracker from the records it was given, so `ConsumerInv` adds to `NothingSkipped`

* `TaskInv`: a task that reports success has settled its record; a commit in
  flight is of a settled prefix;
* `TrackerInv`: completed offsets are settled, and so is everything up to the
  tracker's commit position, for every process, stale or not;
* `BatchInv`: as long as a tracker is not initialized, everything below the
  batch in hand and below the fetch position is settled, since the first record
  it gets fixes its commit position. This covers a process that takes over from
  the committed offset, one that lost records in a restart, and a reset to the
  end of the log.

Refinement follows, as every step changes `committed` only to an offset below
which all is settled, or only adds to the settled ones.

`InboundConsumerProofs`, where the tracker stands: `GapIsBounded`, `TrackersKeepUp`,
`CommitsGoForward`, `AloneGoesForward`, for a finite number of permits
(`PermitAssumption`). Three more layers of invariant:

* `LocalInv`, always: the batch in hand fits where the loop stands, and at most one
  commit is under way, of a prefix that is complete;
* `FlowInv`, as long as nobody is expelled and no client restarted: a process has one
  assignment in its life (`MemberInv`), and the gap exceeds `ReadOnGap` by no more than the
  tasks that have yet to judge it, and once it is paused by permits and batch (`GapInv`).
  `GapBounded` follows;
* `GroupInv`, also for a process that is alone whatever it loses: until its first record
  the tracker has nothing, and that record is where the group stands or further on
  (`StartInv`); from then on what the group has committed beyond the tracker is
  completed (`ReachInv`), and no commit under way is behind the group (`FlightInv`).

`TrackersKeepUp` and `CommitsGoForward` are about one process, or a group that is not
disturbed, and the first also about batches of one record or a log of which
none was dropped from the middle of a batch. Without these hypotheses they are false, as TLC shows:
a process that gets the partition back after an expulsion brings a stale tracker,
and a record that is dropped lets the tracker start beyond the commit (section 10).

`CoalescerProofs`: `CoalescerIsTyped`, `CoalescerConserves`, `FirstWaitsAreBounded`,
`OnlySwallowedCancelsLose`, `CoalescerImplementsInbox`. `Conserved` speaks of one long
sequence; `CoalescerInv` speaks of its pieces: every message is in one
place, those that wait for the lock being the latest (`PlaceInv`); each piece is in
order and ends before the next begins (`OrderInv`); what is in flight is the batch of
the task that runs or is being cancelled, and nothing is pending meanwhile (`TaskInv`), which is what lets a
cancellation restore the batch in front; and the timer goes off before the window of the
first message ends, which opened when that message got the lock: what it waited until then is
its time in the queue, `held` (`WaitInv`). Each step then appends to the inbox, extends the
handled prefix, or gives one stretch up.

`RetryPipelineProofs`: `PipelineIsTyped`, `BeginsOnce`, `NothingIsLost`,
`PipelineImplementsFates`. `PipelineInv` says what a worker has in hand, that with Redis up an event was begun
only if its key is set, and that a settled or committed record's event is processed,
parked or written again. It is the order of the attempts that makes the last part
inductive: a record that was handed on may be settled in turn, but only for a later
one. The refinement needs the other direction of the keys, `BegunInv`: wherever a key is
set, a worker is past its check or, with Redis up, a record is committed, the processing
has begun. A commit that leaves an event without a record then forgets what may be
forgotten, and an event whose key is not set is due.

`HandshakeProofs`: `HandshakeIsTyped`, `GroupsAreReal`, `OneChatForAnAgreement`,
`HandshakeImplementsIntroductions`. A call marks a request as introduced long after
it read it, while others answer and mark. `HandshakeInv` therefore says of each
call what it knows (`GoodWork`), in terms that only grow: a request that was accepted
stays so, and keeps its signal; a chat keeps its members and what it was made for;
the requests of a signal group that a call has in hand are all of one search with
one initiator, so that whoever the call puts into the chat, row by row, is the right pair,
or the chat is one of those made short of somebody. That there
is one chat only needs more than growth: `LoneInv` says, of a search or request that nothing
interfered with, that one call at a time works on it, that what this call has read is
still so (a read that showed no chat where there is one counts as interference), and that a chat that was made is named by a row or about to be, so
that the next call finds it (`Named`, `Making`). Calls on other requests
mark none of its rows, since a call gathers and marks requests of one key only.

`ChatSummaryProofs` and `ChatFollowupProofs` begin with the same lemmas about the
operators on a job row: each yields a row, keeps who may end it, and never ends a job at
another anchor; scheduling moves the anchor to what is newer and nothing else does; a claim
that is given back or up leaves the anchor where it is; time only frees a claim.

`ChatSummaryProofs`: `SummaryIsTyped`, `NothingIsSkipped`, `NothingIsForgotten`,
`NothingIsSummarisedTwice`. A worker carries what it read past the recorder, other
workers and pruning, so `SummaryInv` says of each worker what its record owes to the
chat (`Fine`): every message before its due time that nothing accounts for yet is in what
it read (`Gathered`), or in its lines or crowded out of them by later ones
(`Chosen`). Whatever the others do meanwhile only accounts for more (`Grows`), and when
the segment is stored the debt is paid. `RawInv` keeps in the raw row what no
summary has, which is why pruning up to the due time loses nothing; `RowInv` ties the anchor
to the newest message; `SoleInv` says that until a claim is taken over, the
lines of the worker begin where the segments end.

`ChatFollowupProofs`: `FollowupIsTyped`, `DoneIsNudged`, `NudgesComeInSilence`, and
`OneNudgeForASilence`. `FollowupInv` says of each worker that the message it is about to
complete was nudged or skipped, and that while it asks the model it has heard of
nothing newer than its anchor. The last theorem counts: a second nudge has to be paid for with a
fault, and so has everything that may still lead to one. For each
message, the nudges sent, whether its job is or may become due without them (`Open`), a repeated
event still to be scheduled (`Again`), the workers that go on without their claim
(`Overtaken`) and the other repeated events make at most one more than the faults so
far (`Paid`). No step adds to the sum without a fault. The theorem assumes `MaxDelay` < `Window`, without
which it is false.

`OnboardingProofs`: `OnboardingIsTyped`, `StagesAreEarned`, `CompletionsAreWhole`,
`OneProcessGoesForward`. `EarnedInv` says of the copies of the facts what
`StageIsEarned` says of the row, since a copy of any age may be written over it;
that the columns only grow makes the copies stay earned. A handling begins at the stage
of its facts or, without one, at the first of the columns that is empty, which those before
it earn (`Begun`). `WholeInv` says what an
undisturbed completion has done at each of its steps. `AloneInv` says that a
process that alone has the user's messages works on what the row says, and that
the fee is the full one before the acceptance.

`OutreachProofs`: `OutreachIsTyped`, `OnceButForFaults`. `NothingTwice` counts, and a count
of what was sent says nothing of what will be. `OutreachInv` therefore adds what may still
come without a further fault. `Strays` are the workers that lost their claim while they worked;
each may send once more, and was paid for by the fault that the takeover is, since a
worker whose claim is taken without one has crashed before. For a topic or a person there is
one suggestion free of charge, which is used up once it is tracked, or once the worker with
the claim has sent it and goes on to track it; before it sends, that worker has
checked that it is not (`TopicIsPaid`, `TopicsInv`; `TargetsInv` likewise). For the messages and
the requests of a run it is the run itself that is paid with, until its worker is past
the step in question (`RunIsOpen`, `MessagesInv`, `RequestsInv`); a job that is
given back stands for the same run, and a schedule call adds one. `Advances` sums the
actions of a worker up by what they cost, so that each count is taken once for all of
them. TLC has checked `OutreachInv` as an invariant, on the instance of the run and
with three workers, two faults and one schedule (19.1 million states).

Only model-checked: liveness and everything under fairness (`Delivered`,
`PauseIsReleased`, `AllHandled`, `Concluded`, `AcceptedMeet`, `EveryMessageSettles`,
`EverySilenceEnds`, `JobEnds`), which the prover does not reason about. Every invariant,
action property and refinement that a passing run checks is proved. Sets of workers and
messages are counted in the proofs by the theorems on finite sets, without induction over
data.

## 12. Not modelled

The components marked `not_modelled` in `PROJECT.json`, and of those marked `partly` what
their note says. The larger part of the source is of a kind that these models have
nothing to say about: prompts and personas, classification, scoring and writing by a
language model, extraction of fields from emails and answers, rendering, HTTP clients
of external services, batch jobs that overwrite derived data, deployment. The longest
files are of that kind (`email_context.py`, `adaptive_matcher.py`, `base_persona.py`,
the tools' descriptions and message texts around the calls that `Handshake` models),
so that the mapped lines remain a small share of the whole.

`AsyncOperationQueue` is started (`main.py:404-407`) and never given an operation: it
has no reachable state but the empty one. The supervisor starts loops and restarts
nothing. The state manager's Redis lock and cache have one writer. Key locks and
their eviction (`kafka_pipeline.py:526`) are covered by letting any tasks run
together; the order of a retried event among later ones of its conversation and the
content of messages are outside the models.
