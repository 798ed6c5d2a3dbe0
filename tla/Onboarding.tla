------------------------------ MODULE Onboarding ------------------------------
(* The onboarding of one user.  A handling of the user's messages reads the  *)
(* row, asks models and services, and writes the personal facts back as a    *)
(* whole, with the stage among them.  The coalescer of a process cuts a      *)
(* handling short when a message arrives; a process that the partition was   *)
(* taken from still handles what it has.  agents/tools/onboarding,           *)
(* agents/tasks/onboarding_handler.py, agents/interaction/agent.py.          *)
EXTENDS Integers, FiniteSets

CONSTANTS
  Processes,      \* the worker processes that may hold the user's partition
  FullFee,        \* the fee before any reduction, in steps of a reduction
  MaxTurns,       \* answers after which a lower fee is enough to accept
  MaxFaults       \* bound: crashes, rebalances and failed database calls

VARIABLES
  columns,        \* users: which of name, university, career_interests are set
  facts,          \* personal_facts: the stage and what the stages collected
  onboarded,      \* is_onboarded
  fee,            \* intro_fee_cents
  histories,      \* demand_history and value_history are filled
  jobs,           \* the proactive jobs scheduled for the user
  home,           \* the process that gets the user's messages
  waiting,        \* the processes with messages of the user to handle
  work,           \* each process's handling: where it is, the stage it began at
                  \* and its copy of facts
  disturbed,      \* history: what came between the messages and the row
  faults          \* crashes, rebalances and failed database calls so far

ASSUME OnboardingAssumption ==
  /\ FullFee \in Nat /\ FullFee > 3 /\ MaxTurns \in Nat \ {0} /\ MaxFaults \in Nat

row  == <<columns, facts, onboarded, fee>>
rest == <<histories, jobs>>
vars == <<row, rest, home, waiting, work, disturbed, faults>>

Columns == {"name", "university", "career_interests"}
Jobs    == {"email", "outreach"}
Stages  == {"none", "name", "school", "career_interest", "email_connect",
            "needs_eval", "value_eval", "share_to_complete", "complete"}

\* email_connect: "linked" once a link was sent, whatever the user said then.
Emails == {"none", "unlinked", "linked", "connected"}
Evals  == {"none", "asking", "accepted"}

\* frank_value_eval: the user's turns, how many were of substance, whether one
\* of them was strong, and the fee, which is lowered by at most one step a turn.
ValueStates == [status: Evals, turns: 0 .. MaxTurns, good: 0 .. 3,
                strong: BOOLEAN, fee: 0 .. FullFee]
FactsRows   == [stage: Stages, email: Emails, need: Evals, value: ValueStates]

NoValue == [status |-> "none", turns |-> 0, good |-> 0, strong |-> FALSE, fee |-> FullFee]
NoFacts == [stage |-> "none", email |-> "none", need |-> "none", value |-> NoValue]

Pcs  == {"idle", "handling", "completing", "summarised", "outreach", "prompt", "replying"}
Idle == [pc |-> "idle", stage |-> "none", facts |-> NoFacts]

Init ==
  /\ columns = {} /\ facts = NoFacts /\ onboarded = FALSE /\ fee = FullFee
  /\ histories = FALSE /\ jobs = {}
  /\ home \in Processes /\ waiting = {}
  /\ work = [p \in Processes |-> Idle]
  /\ disturbed = {} /\ faults = 0
------------------------------------------------------------------------------
NoFault == UNCHANGED faults
Fault   == faults < MaxFaults /\ faults' = faults + 1

AtMost(n, max) == IF n < max THEN n ELSE max

Goto(p, pc) == work' = [work EXCEPT ![p].pc = pc]
Finish(p)   == work' = [work EXCEPT ![p] = Idle]

\* The stage of a handling that reads the facts f and the columns C: the one in
\* the facts; without one (they hold nothing of the stages then) the first whose
\* column is empty.
StageOf(f, C) ==
  IF f.stage # "none" THEN f.stage
  ELSE IF "name" \notin C THEN "name"
  ELSE IF "university" \notin C THEN "school"
  ELSE IF "career_interests" \notin C THEN "career_interest"
  ELSE "email_connect"

At(p, stage) == work[p].pc = "handling" /\ work[p].stage = stage

RequiresOnboarding == ~onboarded /\ facts.stage # "complete"
------------------------------------------------------------------------------
(* Messages and processes. *)

\* The user writes; what the process is doing for the user then is cut short.
\* The calls after scheduling the first job leave no room for it.
Suspended == {"handling", "completing", "summarised", "replying"}

Completing == {"completing", "summarised", "outreach"}

CutShort(p) == disturbed' = disturbed \union
                 (IF work[p].pc \in Completing THEN {"cut"} ELSE {})

Receive ==
  /\ waiting' = waiting \union {home}
  /\ work[home].pc \in Suspended \union {"idle"}
  /\ CutShort(home)
  /\ Finish(home)
  /\ UNCHANGED <<row, rest, home, faults>>

\* A user who needs no onboarding is left to the agents.
Begin(p) ==
  /\ p \in waiting /\ work[p].pc = "idle"
  /\ waiting' = waiting \ {p}
  /\ work' = IF RequiresOnboarding
             THEN [work EXCEPT ![p] = [pc |-> "handling", facts |-> facts,
                                       stage |-> StageOf(facts, columns)]]
             ELSE work
  /\ UNCHANGED <<row, rest, home, disturbed, faults>>

\* The partition goes to another process; this one handles what it has.
Rebalance(p) ==
  /\ p # home /\ home' = p
  /\ Fault
  /\ disturbed' = disturbed \union {"moved"}
  /\ UNCHANGED <<row, rest, waiting, work>>

\* The process dies, and another one gets what Kafka delivers again.
Crash(p) ==
  /\ p \in waiting \/ work[p].pc # "idle"
  /\ Fault
  /\ CutShort(p)
  /\ IF p = home THEN home' \in Processes ELSE UNCHANGED home
  /\ waiting' \in {waiting \ {p}, (waiting \ {p}) \union {home'}}
  /\ Finish(p)
  /\ UNCHANGED <<row, rest>>
------------------------------------------------------------------------------
(* The stages.  A failed update is logged, and the handling goes on. *)

UpdateUserProfile(p, f, C, price, pc) ==
  /\ \/ facts' = f /\ columns' = columns \union C /\ fee' = price /\ NoFault
     \/ UNCHANGED <<facts, columns, fee>> /\ Fault
  /\ work' = [work EXCEPT ![p] = [pc |-> pc, stage |-> "none", facts |-> f]]
  /\ UNCHANGED <<onboarded, rest, home, waiting, disturbed>>

Answer(p, f, C) == UpdateUserProfile(p, f, C, fee, "replying")

\* A question, a concern, an answer that is unclear or a step that raises:
\* asked again, and nothing is written.
AskAgain(p) ==
  /\ work[p].pc = "handling"
  /\ Goto(p, "replying")
  /\ UNCHANGED <<row, rest, home, waiting, disturbed, faults>>

NameStage(p) ==
  /\ At(p, "name")
  /\ Answer(p, [work[p].facts EXCEPT !.stage = "school"], {"name"})

SchoolStage(p) ==
  /\ At(p, "school")
  /\ Answer(p, [work[p].facts EXCEPT !.stage = "career_interest"], {"university"})

\* The name is asked for or corrected, or the user introduced: the facts are
\* written back, and the stage stays.
SameStage(p) ==
  /\ \/ At(p, "name") /\ Answer(p, work[p].facts, {})
     \/ At(p, "school") /\ Answer(p, work[p].facts, {"name"})

\* A link is made for the user, which may fail.
WithLink(f, made) ==
  [f EXCEPT !.stage = "email_connect",
            !.email = IF made \/ @ = "linked" THEN "linked" ELSE "unlinked"]

CareerStage(p) ==
  /\ At(p, "career_interest")
  /\ \E made \in BOOLEAN : Answer(p, WithLink(work[p].facts, made), {"career_interests"})

\* The user asks for a link, or says to be connected and is not.
EmailLink(p) ==
  /\ At(p, "email_connect")
  /\ \E made \in BOOLEAN : Answer(p, WithLink(work[p].facts, made), {})

\* The user declines, or cannot be understood: only the status is changed.
EmailRefused(p) ==
  /\ At(p, "email_connect")
  /\ Answer(p, [work[p].facts EXCEPT !.stage = "email_connect"], {})

\* The user says to be connected, after a link was sent, and the service
\* confirms it.
EmailConnected(p) ==
  /\ At(p, "email_connect")
  /\ work[p].facts.email = "linked"
  /\ Answer(p, [work[p].facts EXCEPT !.stage = "needs_eval", !.email = "connected",
                                     !.need = "asking"], {})

\* The answer is in the turn history when its turns are counted, so that the
\* first one is accepted.
NeedsStage(p) ==
  /\ At(p, "needs_eval")
  /\ Answer(p, [work[p].facts EXCEPT !.stage = "value_eval", !.need = "accepted",
                                     !.value = [@ EXCEPT !.status = "asking", !.turns = 0]], {})

\* An answer that scores lowers the fee by a step.  Three are enough to be
\* accepted, so that the fee stays above zero, which only sharing brings.
LowerFee(n) == IF n > 1 THEN n - 1 ELSE n

Scored_FullFeeIfVague(v, score, vague) ==
  [v EXCEPT !.turns  = AtMost(@ + 1, MaxTurns),
            !.good   = IF score = "low" THEN @ ELSE AtMost(@ + 1, 3),
            !.strong = @ \/ score = "strong",
            !.fee    = IF vague \/ score = "low" THEN FullFee ELSE LowerFee(@)]

\* evaluate_user_value: the model scores the answer and may call it vague.
Scored(v, score, vague) ==
  [v EXCEPT !.turns  = AtMost(@ + 1, MaxTurns),
            !.good   = IF score = "low" THEN @ ELSE AtMost(@ + 1, 3),
            !.strong = @ \/ score = "strong",
            !.fee    = IF vague \/ score = "low" THEN @ ELSE LowerFee(@)]

ShouldAccept_AtAnyFee(v) ==
  v.good >= 3 \/ (v.good >= 2 /\ v.strong) \/ v.turns >= MaxTurns

ShouldAccept(v) ==
  /\ v.fee < FullFee
  /\ v.good >= 3 \/ (v.good >= 2 /\ v.strong) \/ v.turns >= MaxTurns

\* On acceptance the scores are not stored, only the fee and the status.
ValueStage(p) ==
  /\ At(p, "value_eval")
  /\ \E score \in {"low", "fair", "strong"}, vague \in BOOLEAN :
       LET f == work[p].facts
           v == Scored(f.value, score, vague)
           g == [f EXCEPT !.stage = "share_to_complete",
                          !.value = [@ EXCEPT !.status = "accepted", !.fee = v.fee,
                                              !.turns = v.turns]]
       IN IF ShouldAccept(v)
          THEN UpdateUserProfile(p, g, {}, v.fee, "replying")
          ELSE Answer(p, [f EXCEPT !.value = v], {})
------------------------------------------------------------------------------
(* The completion. *)

\* What a step of the completion does may fail, and the completion goes on.
Failing == Fault /\ disturbed' = disturbed \union {"failed"}
Working == NoFault /\ UNCHANGED disturbed

\* The user skips sharing and pays the fee, or shared and pays nothing.
FeeAfterSharing_FullOff(price) == {price, price - FullFee}

FeeAfterSharing(price) == {price, 0}

ShareStage(p) ==
  /\ At(p, "share_to_complete")
  /\ LET f == [work[p].facts EXCEPT !.stage = "complete"] IN
     /\ \/ /\ facts' = f /\ onboarded' = TRUE /\ fee' \in FeeAfterSharing(fee) /\ Working
        \/ UNCHANGED <<facts, onboarded, fee>> /\ Failing
     /\ work' = [work EXCEPT ![p] = [pc |-> "completing", stage |-> "none", facts |-> f]]
  /\ UNCHANGED <<columns, rest, home, waiting>>

Summarize(p) ==
  /\ work[p].pc = "completing"
  /\ \/ histories' = TRUE /\ Working
     \/ UNCHANGED histories /\ Failing
  /\ Goto(p, "summarised")
  /\ UNCHANGED <<row, jobs, home, waiting>>

Schedule(p, job, pc) ==
  /\ \/ jobs' = jobs \union {job} /\ Working
     \/ UNCHANGED jobs /\ Failing
  /\ Goto(p, pc)

EmailIsConnected_LinkSent(f) == f.email = "linked"

EmailIsConnected(f) == f.email = "connected"

\* The jobs of a user without email are not scheduled.
ScheduleEmail(p) ==
  /\ work[p].pc = "summarised"
  /\ IF EmailIsConnected(work[p].facts)
     THEN Schedule(p, "email", "outreach")
     ELSE Goto(p, "prompt") /\ UNCHANGED jobs /\ Working
  /\ UNCHANGED <<row, histories, home, waiting>>

ScheduleOutreach(p) ==
  /\ work[p].pc = "outreach"
  /\ Schedule(p, "outreach", "prompt")
  /\ UNCHANGED <<row, histories, home, waiting>>

\* A user whose location is unknown is asked for it, and the flag is written
\* with the facts of this handling.
PromptLocation(p) ==
  /\ work[p].pc = "prompt"
  /\ \/ Answer(p, work[p].facts, {})
     \/ /\ Goto(p, "replying")
        /\ UNCHANGED <<row, rest, home, waiting, disturbed, faults>>

Reply(p) ==
  /\ work[p].pc = "replying"
  /\ Finish(p)
  /\ UNCHANGED <<row, rest, home, waiting, disturbed, faults>>

Next ==
  \/ Receive
  \/ \E p \in Processes :
       \/ Begin(p) \/ Rebalance(p) \/ Crash(p)
       \/ AskAgain(p) \/ SameStage(p) \/ NameStage(p) \/ SchoolStage(p) \/ CareerStage(p)
       \/ EmailLink(p) \/ EmailRefused(p) \/ EmailConnected(p)
       \/ NeedsStage(p) \/ ValueStage(p) \/ ShareStage(p)
       \/ Summarize(p) \/ ScheduleEmail(p) \/ ScheduleOutreach(p) \/ PromptLocation(p)
       \/ Reply(p)

Spec == Init /\ [][Next]_vars
------------------------------------------------------------------------------
(* Properties. *)

TypeOK ==
  /\ columns \subseteq Columns /\ facts \in FactsRows
  /\ onboarded \in BOOLEAN /\ fee \in 0 .. FullFee
  /\ histories \in BOOLEAN /\ jobs \subseteq Jobs
  /\ home \in Processes /\ waiting \subseteq Processes
  /\ work \in [Processes -> [pc: Pcs, stage: Stages, facts: FactsRows]]
  /\ disturbed \subseteq {"cut", "moved", "failed"}
  /\ faults \in 0 .. MaxFaults

AfterEmail  == {"needs_eval", "value_eval", "share_to_complete", "complete"}
AfterNeeds  == AfterEmail \ {"needs_eval"}
AfterValue  == AfterNeeds \ {"value_eval"}
AfterCareer == AfterEmail \union {"email_connect"}
AfterSchool == AfterCareer \union {"career_interest"}

\* The stage in the row never claims more than the row holds, whichever
\* handlings write over each other and whichever writes fail: a user at a
\* stage, or onboarded, has told what the stages before it ask for, is
\* connected by email and was accepted on a lowered fee.
StageIsEarned ==
  /\ facts.stage \in AfterSchool \union {"school"} \/ onboarded => "name" \in columns
  /\ facts.stage \in AfterSchool \/ onboarded => "university" \in columns
  /\ facts.stage \in AfterCareer \/ onboarded => "career_interests" \in columns
  /\ facts.stage \in AfterEmail => facts.email = "connected"
  /\ facts.stage \in AfterNeeds => facts.need = "accepted"
  /\ facts.stage \in AfterValue =>
       facts.value.status = "accepted" /\ facts.value.fee < FullFee

\* A user whose onboarding is over is onboarded, summarised and scheduled for
\* both jobs, once nobody completes it any more, unless a message or a crash
\* cut the completion short or a step of it failed: nothing takes it up again.
CompletionIsWhole ==
  ~RequiresOnboarding =>
    \/ {"cut", "failed"} \intersect disturbed # {}
    \/ \E p \in Processes : work[p].pc \in Completing
    \/ onboarded /\ histories /\ jobs = Jobs

StageOrder ==
  [none |-> 0, name |-> 1, school |-> 2, career_interest |-> 3, email_connect |-> 4,
   needs_eval |-> 5, value_eval |-> 6, share_to_complete |-> 7, complete |-> 8]

\* No handling takes the user back to an earlier stage or to a higher fee,
\* unless two processes had the user's messages.
NeverGoesBack ==
  [][\/ "moved" \in disturbed
     \/ /\ StageOrder[facts'.stage] >= StageOrder[facts.stage]
        /\ facts'.value.fee <= facts.value.fee /\ fee' <= fee]_vars
==============================================================================
