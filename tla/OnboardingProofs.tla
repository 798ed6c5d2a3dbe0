--------------------------- MODULE OnboardingProofs ---------------------------
(* Proofs about Onboarding: the types of the variables, that stages are      *)
(* earned, that completions are whole, and that one process never takes the  *)
(* user back.                                                                *)
EXTENDS Onboarding, TLAPS

\* Between the write that ends the onboarding and the reply.
Ending == {"completing", "summarised", "outreach", "prompt"}

\* The row and its copies: a stage comes with what it was given for.
Earned(f, C) ==
  /\ f.stage \in AfterSchool \union {"school"} => "name" \in C
  /\ f.stage \in AfterSchool => "university" \in C
  /\ f.stage \in AfterCareer => "career_interests" \in C
  /\ f.stage \in AfterEmail => f.email = "connected"
  /\ f.stage \in AfterNeeds => f.need = "accepted"
  /\ f.stage \in AfterValue => f.value.status = "accepted" /\ f.value.fee < FullFee

\* The stage of a handling: that of its facts, or one whose columns are filled.
Begun(w, C) ==
  /\ w.stage = w.facts.stage
     \/ (w.facts.stage = "none" /\ w.stage \in {"name", "school", "career_interest", "email_connect"})
  /\ w.stage \in {"school", "career_interest", "email_connect"} => "name" \in C
  /\ w.stage \in {"career_interest", "email_connect"} => "university" \in C
  /\ w.stage = "email_connect" => "career_interests" \in C

EarnedInv ==
  /\ Earned(facts, columns)
  /\ onboarded => columns = Columns
  /\ \A p \in Processes :
       /\ work[p].pc \in Ending \union {"handling"} => Earned(work[p].facts, columns)
       /\ work[p].pc \in Ending => work[p].facts.stage = "complete"
       /\ work[p].pc = "handling" => work[p].facts.stage # "complete" /\ Begun(work[p], columns)

\* A completion that nothing disturbed has done what it is past.
Quiet == {"cut", "failed"} \intersect disturbed = {}

DoneSoFar(p) ==
  /\ work[p].pc \in Ending => onboarded
  /\ work[p].pc \in {"summarised", "outreach", "prompt"} => histories
  /\ work[p].pc \in {"outreach", "prompt"} => "email" \in jobs
  /\ work[p].pc = "prompt" => "outreach" \in jobs

WholeInv ==
  /\ Quiet => \A p \in Processes : DoneSoFar(p)
  /\ CompletionIsWhole

\* One process alone works on what the row says.
AloneInv ==
  "moved" \notin disturbed =>
    /\ facts.stage \notin {"share_to_complete", "complete"} => fee = FullFee
    /\ \A p \in Processes :
         /\ p # home => work[p].pc = "idle" /\ p \notin waiting
         /\ work[p].pc = "handling" => work[p].facts = facts
         /\ work[p].pc \in Ending => work[p].facts.value = facts.value

Inv == TypeOK /\ EarnedInv /\ WholeInv /\ AloneInv
------------------------------------------------------------------------------
(* Facts about the stages. *)

LEMMA StagesAreOrdered ==
  /\ StageOrder["none"] = 0 /\ StageOrder["name"] = 1 /\ StageOrder["school"] = 2
  /\ StageOrder["career_interest"] = 3 /\ StageOrder["email_connect"] = 4
  /\ StageOrder["needs_eval"] = 5 /\ StageOrder["value_eval"] = 6
  /\ StageOrder["share_to_complete"] = 7 /\ StageOrder["complete"] = 8
BY DEF StageOrder

LEMMA OrderIsNatural == \A s \in Stages : StageOrder[s] \in 0 .. 8
BY StagesAreOrdered DEF Stages

\* The fields of what is collected, and back.
LEMMA FactsFields ==
  ASSUME NEW f
  PROVE  f \in FactsRows =>
           /\ f.stage \in Stages /\ f.email \in Emails /\ f.need \in Evals
           /\ f.value \in ValueStates /\ f.value.fee \in 0 .. FullFee
BY DEF FactsRows, ValueStates

LEMMA OnlyColumnsGrow ==
  ASSUME NEW f, NEW C, NEW D, C \subseteq D, Earned(f, C)
  PROVE  Earned(f, D)
BY DEF Earned

LEMMA BegunIsKept ==
  ASSUME NEW w, NEW C, NEW D, C \subseteq D, Begun(w, C)
  PROVE  Begun(w, D)
BY DEF Begun

------------------------------------------------------------------------------
(* Steps of a handling that has not come to its end. *)

\* What a handling may write: what is earned, of this stage or a later one,
\* and a fee that only the acceptance changes.
GoodAnswer(f, g, C, price) ==
  /\ g \in FactsRows /\ C \subseteq Columns /\ price \in 0 .. FullFee
  /\ f.stage \notin {"share_to_complete", "complete"} /\ g.stage # "complete"
  /\ Earned(g, columns \union C)
  /\ StageOrder[g.stage] >= StageOrder[f.stage] /\ g.value.fee <= f.value.fee
  /\ g.stage # "share_to_complete" => price = fee

GoesForward ==
  \/ "moved" \in disturbed
  \/ /\ StageOrder[facts'.stage] >= StageOrder[facts.stage]
     /\ facts'.value.fee <= facts.value.fee /\ fee' <= fee

\* A step that leaves the row alone goes forward.
LEMMA StaysForward ==
  ASSUME TypeOK, UNCHANGED <<facts, fee>>
  PROVE  GoesForward
<1>1. facts.stage \in Stages /\ facts.value.fee \in 0 .. FullFee /\ fee \in 0 .. FullFee
  BY FactsFields DEF TypeOK
<1>2. StageOrder[facts.stage] \in 0 .. 8
  BY <1>1, OrderIsNatural
<1>3. FullFee \in Nat
  BY OnboardingAssumption
<1> QED BY <1>1, <1>2, <1>3 DEF GoesForward

\* Only faults are counted, and within their bound.
LEMMA FaultsAreCounted ==
  ASSUME faults \in 0 .. MaxFaults, Fault \/ NoFault
  PROVE  faults' \in 0 .. MaxFaults
BY OnboardingAssumption DEF Fault, NoFault

LEMMA AnswerKeeps ==
  ASSUME Inv, NEW p \in Processes, work[p].pc = "handling",
         NEW g, NEW C, NEW price, GoodAnswer(work[p].facts, g, C, price),
         UpdateUserProfile(p, g, C, price, "replying")
  PROVE  Inv' /\ GoesForward
<1> DEFINE f == work[p].facts
           r == [pc |-> "replying", stage |-> "none", facts |-> g]
<1>1. /\ g \in FactsRows /\ C \subseteq Columns /\ price \in 0 .. FullFee
      /\ f.stage \notin {"share_to_complete", "complete"} /\ g.stage # "complete"
      /\ Earned(g, columns \union C)
      /\ StageOrder[g.stage] >= StageOrder[f.stage] /\ g.value.fee <= f.value.fee
      /\ g.stage # "share_to_complete" => price = fee
  BY DEF GoodAnswer
<1>2. /\ work' = [work EXCEPT ![p] = r]
      /\ \/ facts' = g /\ columns' = columns \union C /\ fee' = price /\ NoFault
         \/ UNCHANGED <<facts, columns, fee>> /\ Fault
      /\ UNCHANGED <<onboarded, histories, jobs, home, waiting, disturbed>>
  BY DEF UpdateUserProfile, rest
<1>3. r \in [pc: Pcs, stage: Stages, facts: FactsRows] /\ r.pc = "replying"
  BY <1>1 DEF Pcs, Stages
<1> HIDE DEF f, r
<1>4. TypeOK'
  <2>1. work' \in [Processes -> [pc: Pcs, stage: Stages, facts: FactsRows]]
    BY <1>2, <1>3 DEF Inv, TypeOK
  <2>2. faults' \in 0 .. MaxFaults
    BY <1>2, FaultsAreCounted DEF Inv, TypeOK
  <2> QED BY <1>1, <1>2, <2>1, <2>2 DEF Inv, TypeOK
<1>5. /\ work'[p].pc = "replying"
      /\ \A q \in Processes : q # p => work'[q] = work[q]
  BY <1>2, <1>3 DEF Inv, TypeOK
<1>6. EarnedInv'
  <2>1. columns \subseteq columns' /\ columns' \subseteq Columns
    BY <1>1, <1>2 DEF Inv, TypeOK
  <2>2. Earned(facts, columns)' /\ (onboarded => columns = Columns)'
    BY <1>1, <1>2, <2>1 DEF Inv, EarnedInv, Earned, Begun
  <2>3. ASSUME NEW q \in Processes
        PROVE  /\ work'[q].pc \in Ending \union {"handling"} => Earned(work'[q].facts, columns')
               /\ work'[q].pc \in Ending => work'[q].facts.stage = "complete"
               /\ work'[q].pc = "handling" => work'[q].facts.stage # "complete" /\ Begun(work'[q], columns')
    <3>1. CASE q = p
      BY <1>5, <3>1 DEF Ending
    <3>2. CASE q # p
      <4>1. work'[q] = work[q]
        BY <1>5, <3>2
      <4> QED BY <4>1, <2>1, OnlyColumnsGrow, BegunIsKept DEF Inv, EarnedInv
    <3> QED BY <3>1, <3>2
  <2> QED BY <2>2, <2>3 DEF EarnedInv, Earned, Begun
<1>7. WholeInv'
  <2>1. Quiet' => \A q \in Processes : DoneSoFar(q)'
    BY <1>2, <1>5 DEF Inv, WholeInv, Quiet, DoneSoFar, Ending
  <2>2. CompletionIsWhole'
    <3>1. SUFFICES ASSUME ~RequiresOnboarding' PROVE CompletionIsWhole'
      BY DEF CompletionIsWhole
    <3>2. ~RequiresOnboarding
      BY <1>1, <1>2, <3>1 DEF RequiresOnboarding
    <3>3. \A q \in Processes : work[q].pc \in Completing => work'[q].pc \in Completing
      BY <1>5 DEF Completing
    <3> QED BY <1>2, <3>2, <3>3 DEF Inv, WholeInv, CompletionIsWhole
  <2> QED BY <2>1, <2>2 DEF WholeInv
<1>8. "moved" \notin disturbed =>
        /\ p = home /\ f = facts /\ fee = FullFee
        /\ \A q \in Processes : q # p => work[q].pc = "idle"
  BY <1>1 DEF Inv, AloneInv, f
<1>9. AloneInv'
  <2>1. SUFFICES ASSUME "moved" \notin disturbed' PROVE AloneInv'
    BY DEF AloneInv
  <2>2. (facts.stage \notin {"share_to_complete", "complete"} => fee = FullFee)'
    BY <1>1, <1>2, <1>8, <2>1
  <2>3. \A q \in Processes : work'[q].pc \in {"idle", "replying"}
    BY <1>2, <1>5, <1>8, <2>1
  <2>4. \A q \in Processes : q # home' => work'[q].pc = "idle" /\ q \notin waiting'
    BY <1>2, <1>5, <1>8, <2>1 DEF Inv, AloneInv
  <2> QED BY <2>2, <2>3, <2>4 DEF AloneInv, Ending
<1>10. GoesForward
  <2>1. facts.stage \in Stages /\ facts.value.fee \in 0 .. FullFee /\ fee \in 0 .. FullFee
    BY FactsFields DEF Inv, TypeOK
  <2>2. CASE facts' = g /\ fee' = price
    BY <1>1, <1>8, <2>1, <2>2, OnboardingAssumption DEF GoesForward
  <2>3. CASE UNCHANGED <<facts, fee>>
    BY <2>3, StaysForward DEF Inv
  <2> QED BY <1>2, <2>2, <2>3
<1> QED BY <1>4, <1>6, <1>7, <1>9, <1>10 DEF Inv

\* What a handling at a stage holds.
LEMMA HandlingHolds ==
  ASSUME Inv, NEW p \in Processes, work[p].pc = "handling"
  PROVE  /\ work[p].facts \in FactsRows /\ work[p].facts.stage \in Stages
         /\ work[p].facts.value \in ValueStates
         /\ work[p].facts.value.fee \in 0 .. FullFee
         /\ Earned(work[p].facts, columns) /\ Begun(work[p], columns)
         /\ work[p].facts.stage # "complete"
         /\ columns \subseteq Columns /\ fee \in 0 .. FullFee
<1>1. work[p].facts \in FactsRows
  BY DEF Inv, TypeOK
<1> QED BY <1>1, FactsFields DEF Inv, TypeOK, EarnedInv

\* An answer that changes the stage at most, and neither the fee nor what the
\* stage was given for.
LEMMA StageMayBe ==
  ASSUME Inv, NEW p \in Processes, work[p].pc = "handling",
         work[p].facts.stage \notin {"share_to_complete", "complete"},
         NEW g \in FactsRows, NEW C \in SUBSET Columns,
         g.stage \notin {"share_to_complete", "complete"},
         Earned(g, columns \union C),
         StageOrder[g.stage] >= StageOrder[work[p].facts.stage],
         g.value.fee = work[p].facts.value.fee
  PROVE  GoodAnswer(work[p].facts, g, C, fee)
<1>1. work[p].facts.value.fee \in 0 .. FullFee /\ fee \in 0 .. FullFee
  BY HandlingHolds
<1> QED BY <1>1, OnboardingAssumption DEF GoodAnswer

\* The stage a handling begins at.
LEMMA HandlingsBegin ==
  ASSUME NEW f, NEW C, NEW w, f.stage \in Stages, Earned(f, C),
         w.facts = f, w.stage = StageOf(f, C)
  PROVE  w.stage \in Stages /\ Begun(w, C)
BY DEF StageOf, Stages, Begun, Earned, AfterEmail, AfterCareer, AfterSchool

LEMMA NameKeeps ==
  ASSUME Inv, NEW p \in Processes, NameStage(p) \/ SameStage(p) \/ SchoolStage(p)
  PROVE  Inv' /\ GoesForward
<1> DEFINE f == work[p].facts
<1>1. work[p].pc = "handling" /\ work[p].stage \in {"name", "school"}
  BY DEF NameStage, SameStage, SchoolStage, At
<1>2. /\ f \in FactsRows /\ f.stage \in Stages /\ Earned(f, columns)
      /\ Begun(work[p], columns) /\ columns \subseteq Columns
  BY <1>1, HandlingHolds
<1>3. f.stage \in {"none", "name", "school"}
  BY <1>1, <1>2 DEF Begun
<1>4. StageOrder[f.stage] \in 0 .. 2 /\ StageOrder[f.stage] >= StageOrder[f.stage]
  BY <1>3, StagesAreOrdered
<1>5. CASE NameStage(p)
  <2> DEFINE g == [f EXCEPT !.stage = "school"]
  <2>1. g \in FactsRows /\ g.stage = "school" /\ g.value.fee = f.value.fee
    BY <1>2 DEF FactsRows, Stages
  <2>2. StageOrder[g.stage] >= StageOrder[f.stage]
    BY <1>4, <2>1, StagesAreOrdered
  <2>3. Earned(g, columns \union {"name"})
    BY <2>1 DEF Earned, AfterValue, AfterNeeds, AfterEmail, AfterCareer, AfterSchool
  <2>4. UpdateUserProfile(p, g, {"name"}, fee, "replying")
    BY <1>5 DEF NameStage, Answer
  <2> HIDE DEF g
  <2>5. GoodAnswer(f, g, {"name"}, fee)
    BY <1>1, <1>3, <2>1, <2>2, <2>3, StageMayBe DEF Columns
  <2> QED BY <1>1, <2>4, <2>5, AnswerKeeps
<1>6. CASE SchoolStage(p)
  <2> DEFINE g == [f EXCEPT !.stage = "career_interest"]
  <2>1. g \in FactsRows /\ g.stage = "career_interest" /\ g.value.fee = f.value.fee
    BY <1>2 DEF FactsRows, Stages
  <2>2. StageOrder[g.stage] >= StageOrder[f.stage]
    BY <1>4, <2>1, StagesAreOrdered
  <2>3. "name" \in columns
    BY <1>2, <1>6 DEF SchoolStage, At, Begun
  <2>4. Earned(g, columns \union {"university"})
    BY <2>1, <2>3 DEF Earned, AfterValue, AfterNeeds, AfterEmail, AfterCareer, AfterSchool
  <2>5. UpdateUserProfile(p, g, {"university"}, fee, "replying")
    BY <1>6 DEF SchoolStage, Answer
  <2> HIDE DEF g
  <2>6. GoodAnswer(f, g, {"university"}, fee)
    BY <1>1, <1>3, <2>1, <2>2, <2>4, StageMayBe DEF Columns
  <2> QED BY <1>1, <2>5, <2>6, AnswerKeeps
<1>7. CASE SameStage(p)
  <2>1. PICK C \in {{}, {"name"}} : UpdateUserProfile(p, f, C, fee, "replying")
    BY <1>7 DEF SameStage, Answer
  <2>2. C \subseteq Columns /\ columns \subseteq columns \union C
    BY DEF Columns
  <2>3. Earned(f, columns \union C)
    BY <1>2, <2>2, OnlyColumnsGrow
  <2>4. GoodAnswer(f, f, C, fee)
    BY <1>1, <1>2, <1>3, <1>4, <2>2, <2>3, StageMayBe
  <2> QED BY <1>1, <2>1, <2>4, AnswerKeeps
<1> QED BY <1>5, <1>6, <1>7

LEMMA LinkFields ==
  ASSUME NEW f \in FactsRows, NEW made \in BOOLEAN
  PROVE  /\ WithLink(f, made) \in FactsRows
         /\ WithLink(f, made).stage = "email_connect"
         /\ WithLink(f, made).value = f.value
BY DEF WithLink, FactsRows, Stages, Emails

LEMMA CareerKeeps ==
  ASSUME Inv, NEW p \in Processes, CareerStage(p) \/ EmailLink(p) \/ EmailRefused(p)
  PROVE  Inv' /\ GoesForward
<1> DEFINE f == work[p].facts
<1>1. work[p].pc = "handling" /\ work[p].stage \in {"career_interest", "email_connect"}
  BY DEF CareerStage, EmailLink, EmailRefused, At
<1>2. /\ f \in FactsRows /\ f.stage \in Stages /\ Earned(f, columns)
      /\ Begun(work[p], columns) /\ columns \subseteq Columns
  BY <1>1, HandlingHolds
<1>3. /\ f.stage \in {"none", "career_interest", "email_connect"}
      /\ {"name", "university"} \subseteq columns
      /\ work[p].stage = "email_connect" => "career_interests" \in columns
  BY <1>1, <1>2 DEF Begun
<1>4. StageOrder[f.stage] \in 0 .. 4
  BY <1>3, StagesAreOrdered
<1>5. ASSUME NEW made \in BOOLEAN, NEW C \in SUBSET Columns,
             "career_interests" \in columns \union C,
             UpdateUserProfile(p, WithLink(f, made), C, fee, "replying")
      PROVE  Inv' /\ GoesForward
  <2> DEFINE g == WithLink(f, made)
  <2>1. g \in FactsRows /\ g.stage = "email_connect" /\ g.value.fee = f.value.fee
    BY <1>2, LinkFields
  <2>2. StageOrder[g.stage] >= StageOrder[f.stage]
    BY <1>4, <2>1, StagesAreOrdered
  <2> HIDE DEF g
  <2>3. Earned(g, columns \union C)
    BY <1>3, <1>5, <2>1
      DEF Earned, AfterValue, AfterNeeds, AfterEmail, AfterCareer, AfterSchool
  <2>4. GoodAnswer(f, g, C, fee)
    BY <1>1, <1>3, <2>1, <2>2, <2>3, StageMayBe
  <2> QED BY <1>1, <1>5, <2>4, AnswerKeeps DEF g
<1>6. CASE CareerStage(p)
  <2>1. PICK made \in BOOLEAN :
          UpdateUserProfile(p, WithLink(f, made), {"career_interests"}, fee, "replying")
    BY <1>6 DEF CareerStage, Answer
  <2> QED BY <1>5, <2>1 DEF Columns
<1>7. CASE EmailLink(p)
  <2>1. PICK made \in BOOLEAN : UpdateUserProfile(p, WithLink(f, made), {}, fee, "replying")
    BY <1>7 DEF EmailLink, Answer
  <2>2. "career_interests" \in columns
    BY <1>3, <1>7 DEF EmailLink, At
  <2> QED BY <1>5, <2>1, <2>2
<1>8. CASE EmailRefused(p)
  <2> DEFINE g == [f EXCEPT !.stage = "email_connect"]
  <2>1. g \in FactsRows /\ g.stage = "email_connect" /\ g.value.fee = f.value.fee
    BY <1>2 DEF FactsRows, Stages
  <2>2. StageOrder[g.stage] >= StageOrder[f.stage] /\ columns \union {} = columns
    BY <1>4, <2>1, StagesAreOrdered
  <2>3. UpdateUserProfile(p, g, {}, fee, "replying") /\ "career_interests" \in columns
    BY <1>3, <1>8 DEF EmailRefused, Answer, At
  <2> HIDE DEF g
  <2>4. Earned(g, columns)
    BY <1>3, <2>1, <2>3
      DEF Earned, AfterValue, AfterNeeds, AfterEmail, AfterCareer, AfterSchool
  <2>5. GoodAnswer(f, g, {}, fee)
    BY <1>1, <1>3, <2>1, <2>2, <2>4, StageMayBe
  <2> QED BY <1>1, <2>3, <2>5, AnswerKeeps
<1> QED BY <1>6, <1>7, <1>8

LEMMA ConnectedKeeps ==
  ASSUME Inv, NEW p \in Processes, EmailConnected(p) \/ NeedsStage(p)
  PROVE  Inv' /\ GoesForward
<1> DEFINE f == work[p].facts
<1>1. work[p].pc = "handling" /\ work[p].stage \in {"email_connect", "needs_eval"}
  BY DEF EmailConnected, NeedsStage, At
<1>2. /\ f \in FactsRows /\ f.stage \in Stages /\ f.value \in ValueStates
      /\ Earned(f, columns) /\ Begun(work[p], columns) /\ columns \subseteq Columns
  BY <1>1, HandlingHolds
<1>3. /\ f.stage \in {"none", "email_connect", "needs_eval"}
      /\ work[p].stage = "needs_eval" => f.stage = "needs_eval"
      /\ work[p].stage = "email_connect" => columns = Columns
  BY <1>1, <1>2 DEF Begun, Columns
<1>4. StageOrder[f.stage] \in 0 .. 5 /\ columns \union {} = columns
  BY <1>3, StagesAreOrdered
<1>5. CASE EmailConnected(p)
  <2> DEFINE g == [f EXCEPT !.stage = "needs_eval", !.email = "connected", !.need = "asking"]
  <2>1. g \in FactsRows
    BY <1>2, Zenon DEF FactsRows, Stages, Emails, Evals
  <2>2. /\ g.stage = "needs_eval" /\ g.email = "connected" /\ g.value = f.value
    BY <1>2 DEF FactsRows
  <2>3. UpdateUserProfile(p, g, {}, fee, "replying")
    BY <1>5 DEF EmailConnected, Answer
  <2> HIDE DEF g
  <2>4. Earned(g, columns)
    BY <1>3, <1>5, <2>2
      DEF EmailConnected, At, Columns,
          Earned, AfterValue, AfterNeeds, AfterEmail, AfterCareer, AfterSchool
  <2>5. StageOrder[g.stage] >= StageOrder[f.stage]
    BY <1>4, <2>2, StagesAreOrdered
  <2>6. GoodAnswer(f, g, {}, fee)
    BY <1>1, <1>3, <1>4, <2>1, <2>2, <2>4, <2>5, StageMayBe
  <2> QED BY <1>1, <2>3, <2>6, AnswerKeeps
<1>6. CASE NeedsStage(p)
  <2> DEFINE v == [f.value EXCEPT !.status = "asking", !.turns = 0]
             h == [f EXCEPT !.stage = "value_eval", !.need = "accepted", !.value = v]
  <2>0. 0 \in 0 .. MaxTurns
    BY OnboardingAssumption
  <2>1. v \in ValueStates
    BY <1>2, <2>0, Zenon DEF ValueStates, Evals
  <2>2. v.fee = f.value.fee
    BY <1>2 DEF ValueStates
  <2> HIDE DEF v
  <2>3. h \in FactsRows
    BY <1>2, <2>1, Zenon DEF FactsRows, Stages, Emails, Evals
  <2>4. /\ h.stage = "value_eval" /\ h.need = "accepted" /\ h.email = f.email
        /\ h.value = v
    BY <1>2 DEF FactsRows
  <2>5. UpdateUserProfile(p, h, {}, fee, "replying")
    BY <1>6 DEF NeedsStage, Answer, v
  <2> HIDE DEF h
  <2>6. f.stage = "needs_eval"
    BY <1>3, <1>6 DEF NeedsStage, At
  <2>7. Earned(h, columns)
    BY <1>2, <2>4, <2>6
      DEF Earned, AfterValue, AfterNeeds, AfterEmail, AfterCareer, AfterSchool
  <2>8. StageOrder[h.stage] >= StageOrder[f.stage]
    BY <1>4, <2>4, StagesAreOrdered
  <2>9. GoodAnswer(f, h, {}, fee)
    BY <1>1, <1>3, <1>4, <2>2, <2>3, <2>4, <2>7, <2>8, StageMayBe
  <2> QED BY <1>1, <2>5, <2>9, AnswerKeeps
<1> QED BY <1>5, <1>6

\* What an answer makes of the value state: it keeps its type, and the fee is
\* never raised.
LEMMA ScoresAreTyped ==
  ASSUME NEW v \in ValueStates, NEW score, NEW vague \in BOOLEAN
  PROVE  /\ Scored(v, score, vague) \in ValueStates
         /\ Scored(v, score, vague).fee <= v.fee
<1> DEFINE turns  == AtMost(v.turns + 1, MaxTurns)
           good   == IF score = "low" THEN v.good ELSE AtMost(v.good + 1, 3)
           strong == v.strong \/ score = "strong"
           cost   == IF vague \/ score = "low" THEN v.fee ELSE LowerFee(v.fee)
           w      == [v EXCEPT !.turns = turns, !.good = good, !.strong = strong, !.fee = cost]
<1>1. /\ v.status \in Evals /\ v.turns \in 0 .. MaxTurns /\ v.good \in 0 .. 3
      /\ v.strong \in BOOLEAN /\ v.fee \in 0 .. FullFee
  BY DEF ValueStates
<1>2. turns \in 0 .. MaxTurns
  BY <1>1, OnboardingAssumption DEF AtMost
<1>3. good \in 0 .. 3
  BY <1>1 DEF AtMost
<1>4. strong \in BOOLEAN
  OBVIOUS
<1>5. cost \in 0 .. FullFee /\ cost <= v.fee
  BY <1>1, OnboardingAssumption DEF LowerFee
<1>6. Scored(v, score, vague) = w
  BY Zenon DEF Scored
<1> HIDE DEF turns, good, strong, cost
<1>7. w \in ValueStates
  BY <1>2, <1>3, <1>4, <1>5, Zenon DEF ValueStates
<1>8. w.fee = cost
  BY DEF ValueStates
<1> QED BY <1>5, <1>6, <1>7, <1>8

LEMMA ValueKeeps ==
  ASSUME Inv, NEW p \in Processes, ValueStage(p)
  PROVE  Inv' /\ GoesForward
<1> DEFINE f == work[p].facts
<1>1. work[p].pc = "handling" /\ work[p].stage = "value_eval"
  BY DEF ValueStage, At
<1>2. /\ f \in FactsRows /\ f.stage \in Stages /\ f.value \in ValueStates
      /\ f.value.fee \in 0 .. FullFee /\ fee \in 0 .. FullFee
      /\ Earned(f, columns) /\ Begun(work[p], columns) /\ columns \subseteq Columns
  BY <1>1, HandlingHolds
<1>3. f.stage = "value_eval"
  BY <1>1, <1>2 DEF Begun
<1>4. StageOrder[f.stage] = 6 /\ columns \union {} = columns
  BY <1>3, StagesAreOrdered
<1>5. PICK score \in {"low", "fair", "strong"}, vague \in BOOLEAN :
        LET v == Scored(f.value, score, vague)
            g == [f EXCEPT !.stage = "share_to_complete",
                           !.value = [@ EXCEPT !.status = "accepted", !.fee = v.fee,
                                               !.turns = v.turns]]
        IN IF ShouldAccept(v)
           THEN UpdateUserProfile(p, g, {}, v.fee, "replying")
           ELSE Answer(p, [f EXCEPT !.value = v], {})
  BY Zenon DEF ValueStage
<1> DEFINE v == Scored(f.value, score, vague)
<1>6. v \in ValueStates /\ v.fee <= f.value.fee
  BY <1>2, ScoresAreTyped
<1>7. v.fee \in 0 .. FullFee /\ v.turns \in 0 .. MaxTurns
  BY <1>6 DEF ValueStates
<1> HIDE DEF v
<1>8. CASE ShouldAccept(v)
  <2> DEFINE u == [f.value EXCEPT !.status = "accepted", !.fee = v.fee, !.turns = v.turns]
             g == [f EXCEPT !.stage = "share_to_complete", !.value = u]
  <2>1. u \in ValueStates
    BY <1>2, <1>7, Zenon DEF ValueStates, Evals
  <2>2. u.status = "accepted" /\ u.fee = v.fee
    BY <1>2 DEF ValueStates
  <2>3. UpdateUserProfile(p, g, {}, v.fee, "replying")
    BY <1>5, <1>8 DEF v
  <2> HIDE DEF u
  <2>4. g \in FactsRows
    BY <1>2, <2>1, Zenon DEF FactsRows, Stages
  <2>5. /\ g.stage = "share_to_complete" /\ g.value = u
        /\ g.email = f.email /\ g.need = f.need
    BY <1>2 DEF FactsRows
  <2> HIDE DEF g
  <2>6. Earned(g, columns)
    BY <1>2, <1>3, <1>8, <2>2, <2>5
      DEF Earned, AfterValue, AfterNeeds, AfterEmail, AfterCareer, AfterSchool, ShouldAccept
  <2>7. StageOrder[g.stage] >= StageOrder[f.stage]
    BY <1>4, <2>5, StagesAreOrdered
  <2>8. GoodAnswer(f, g, {}, v.fee)
    BY <1>3, <1>4, <1>6, <1>7, <2>2, <2>4, <2>5, <2>6, <2>7 DEF GoodAnswer
  <2> QED BY <1>1, <2>3, <2>8, AnswerKeeps
<1>9. CASE ~ShouldAccept(v)
  <2> DEFINE g == [f EXCEPT !.value = v]
  <2>1. g \in FactsRows
    BY <1>2, <1>6, Zenon DEF FactsRows
  <2>2. g.stage = f.stage /\ g.value = v /\ g.email = f.email /\ g.need = f.need
    BY <1>2 DEF FactsRows
  <2>3. UpdateUserProfile(p, g, {}, fee, "replying")
    BY <1>5, <1>9 DEF v, Answer
  <2> HIDE DEF g
  <2>4. Earned(g, columns)
    BY <1>2, <1>3, <2>2
      DEF Earned, AfterValue, AfterNeeds, AfterEmail, AfterCareer, AfterSchool
  <2>5. GoodAnswer(f, g, {}, fee)
    BY <1>2, <1>3, <1>4, <1>6, <2>1, <2>2, <2>4 DEF GoodAnswer
  <2> QED BY <1>1, <2>3, <2>5, AnswerKeeps
<1> QED BY <1>8, <1>9

------------------------------------------------------------------------------
(* Steps of the completion. *)

LEMMA ShareKeeps ==
  ASSUME Inv, NEW p \in Processes, ShareStage(p)
  PROVE  Inv' /\ GoesForward
<1> DEFINE e == work[p].facts
           f == [e EXCEPT !.stage = "complete"]
           r == [pc |-> "completing", stage |-> "none", facts |-> f]
<1>1. /\ work[p].pc = "handling" /\ work[p].stage = "share_to_complete"
      /\ \/ facts' = f /\ onboarded' = TRUE /\ fee' \in {fee, 0} /\ Working
         \/ UNCHANGED <<facts, onboarded, fee>> /\ Failing
      /\ work' = [work EXCEPT ![p] = r]
      /\ UNCHANGED <<columns, histories, jobs, home, waiting>>
  BY DEF ShareStage, FeeAfterSharing, At, rest
<1>2. /\ e \in FactsRows /\ e.stage \in Stages /\ Earned(e, columns)
      /\ e.value.fee \in 0 .. FullFee /\ columns \subseteq Columns /\ fee \in 0 .. FullFee
      /\ Begun(work[p], columns)
  BY <1>1, HandlingHolds
<1>3. e.stage = "share_to_complete"
  BY <1>1, <1>2 DEF Begun
<1>4. /\ f \in FactsRows /\ f.stage = "complete" /\ f.value = e.value
      /\ f.email = e.email /\ f.need = e.need
  BY <1>2 DEF FactsRows, Stages
<1>5. r \in [pc: Pcs, stage: Stages, facts: FactsRows] /\ r.pc = "completing" /\ r.facts = f
  BY <1>4 DEF Pcs, Stages
<1> HIDE DEF e, f, r
<1>6. work'[p] = r /\ \A q \in Processes : q # p => work'[q] = work[q]
  BY <1>1 DEF Inv, TypeOK
<1>7. faults' \in 0 .. MaxFaults /\ disturbed \subseteq disturbed'
      /\ disturbed' \subseteq disturbed \union {"failed"}
  BY <1>1, FaultsAreCounted DEF Inv, TypeOK, Working, Failing
<1>8. TypeOK'
  <2>1. work' \in [Processes -> [pc: Pcs, stage: Stages, facts: FactsRows]]
    BY <1>1, <1>5 DEF Inv, TypeOK
  <2>2. fee' \in 0 .. FullFee
    BY <1>1, <1>2, OnboardingAssumption
  <2> QED BY <1>1, <1>4, <1>7, <2>1, <2>2 DEF Inv, TypeOK
<1>9. Earned(f, columns) /\ columns = Columns
  BY <1>2, <1>3, <1>4
    DEF Earned, AfterValue, AfterNeeds, AfterEmail, AfterCareer, AfterSchool, Columns
<1>10. EarnedInv'
  <2>1. Earned(facts, columns)' /\ (onboarded => columns = Columns)'
    BY <1>1, <1>9 DEF Inv, EarnedInv, Earned, Begun
  <2>2. ASSUME NEW q \in Processes
        PROVE  /\ work'[q].pc \in Ending \union {"handling"} => Earned(work'[q].facts, columns)
               /\ work'[q].pc \in Ending => work'[q].facts.stage = "complete"
               /\ work'[q].pc = "handling" => work'[q].facts.stage # "complete" /\ Begun(work'[q], columns)
    BY <1>4, <1>5, <1>6, <1>9 DEF Inv, EarnedInv
  <2> QED BY <1>1, <2>1, <2>2 DEF EarnedInv, Earned, Begun
<1>11. WholeInv'
  <2>1. Quiet' => \A q \in Processes : DoneSoFar(q)'
    BY <1>1, <1>5, <1>6, <1>7
      DEF Inv, WholeInv, Quiet, DoneSoFar, Ending, Failing, Working
  <2>2. CompletionIsWhole'
    BY <1>5, <1>6 DEF CompletionIsWhole, Completing
  <2> QED BY <2>1, <2>2 DEF WholeInv
<1>12. "moved" \notin disturbed =>
         /\ p = home /\ e = facts
         /\ \A q \in Processes : q # p => work[q].pc = "idle" /\ q \notin waiting
  BY <1>1 DEF Inv, AloneInv, e
<1>13. AloneInv'
  <2>1. SUFFICES ASSUME "moved" \notin disturbed' PROVE AloneInv'
    BY DEF AloneInv
  <2>2. facts'.stage \in {"share_to_complete", "complete"} /\ f.value = facts'.value
    BY <1>1, <1>3, <1>4, <1>7, <1>12, <2>1
  <2> QED BY <1>1, <1>5, <1>6, <1>7, <1>12, <2>1, <2>2 DEF AloneInv, Ending
<1>14. GoesForward
  <2>1. CASE UNCHANGED <<facts, fee>>
    BY <2>1, StaysForward DEF Inv
  <2>2. CASE facts' = f /\ fee' \in {fee, 0}
    BY <1>2, <1>3, <1>4, <1>12, <2>2, StagesAreOrdered, OnboardingAssumption DEF GoesForward
  <2> QED BY <1>1, <2>1, <2>2
<1> QED BY <1>8, <1>10, <1>11, <1>13, <1>14 DEF Inv

\* Each step after the row is written does its part, or says that it failed.
LEMMA CompletionKeeps ==
  ASSUME Inv, NEW p \in Processes, Summarize(p) \/ ScheduleEmail(p) \/ ScheduleOutreach(p)
  PROVE  Inv' /\ GoesForward
<1> DEFINE r == work[p]
           pc == work'[p].pc
<1>1. /\ r.pc \in {"completing", "summarised", "outreach"}
      /\ \E c \in {"summarised", "outreach", "prompt"} : work' = [work EXCEPT ![p].pc = c]
      /\ UNCHANGED <<columns, facts, onboarded, fee, home, waiting>>
      /\ Working \/ Failing
  BY DEF Summarize, ScheduleEmail, ScheduleOutreach, Schedule, Goto, row
<1>2. r \in [pc: Pcs, stage: Stages, facts: FactsRows]
  BY DEF Inv, TypeOK
<1>3. /\ work' \in [Processes -> [pc: Pcs, stage: Stages, facts: FactsRows]]
      /\ pc \in {"summarised", "outreach", "prompt"} /\ work'[p].facts = r.facts
      /\ \A q \in Processes : q # p => work'[q] = work[q]
  BY <1>1, <1>2 DEF Inv, TypeOK, Pcs
<1>4. /\ faults' \in 0 .. MaxFaults /\ disturbed \subseteq disturbed'
      /\ disturbed' \subseteq disturbed \union {"failed"}
  BY <1>1, FaultsAreCounted DEF Inv, TypeOK, Working, Failing
<1>5. histories' \in BOOLEAN /\ jobs' \subseteq Jobs /\ jobs \subseteq jobs'
      /\ (histories => histories')
  BY DEF Summarize, ScheduleEmail, ScheduleOutreach, Schedule, rest, Inv, TypeOK, Jobs
<1>6. TypeOK'
  BY <1>1, <1>3, <1>4, <1>5 DEF Inv, TypeOK
<1>7. EarnedInv'
  <2>1. ASSUME NEW q \in Processes
        PROVE  /\ work'[q].pc \in Ending \union {"handling"} => Earned(work'[q].facts, columns)
               /\ work'[q].pc \in Ending => work'[q].facts.stage = "complete"
               /\ work'[q].pc = "handling" => work'[q].facts.stage # "complete" /\ Begun(work'[q], columns)
    <3>1. CASE q = p
      BY <1>1, <1>3, <3>1 DEF Inv, EarnedInv, Ending
    <3>2. CASE q # p
      BY <1>3, <3>2 DEF Inv, EarnedInv
    <3> QED BY <3>1, <3>2
  <2> QED BY <1>1, <2>1 DEF Inv, EarnedInv, Earned, Begun
<1>8. ASSUME Quiet'
      PROVE  /\ DoneSoFar(p)'
             /\ pc = "prompt" => onboarded' /\ histories' /\ jobs' = Jobs
  <2>1. Quiet /\ Working
    BY <1>1, <1>4, <1>8 DEF Quiet, Failing
  <2>2. DoneSoFar(p)
    BY <2>1 DEF Inv, WholeInv
  <2>3. CASE Summarize(p)
    BY <1>1, <1>2, <2>2, <2>3, <1>8 DEF Summarize, Failing, Quiet, Goto, DoneSoFar, Ending,
      Inv, TypeOK
  <2>4. CASE ScheduleEmail(p)
    <3>1. r.pc = "summarised" /\ r.facts.stage = "complete" /\ r.facts.email = "connected"
      BY <2>4 DEF ScheduleEmail, Inv, EarnedInv, Ending, Earned, AfterEmail
    <3>2. pc = "outreach" /\ "email" \in jobs'
      BY <1>2, <2>4, <3>1, <1>8
        DEF ScheduleEmail, EmailIsConnected, Schedule, Failing, Quiet, Goto, Inv, TypeOK
    <3> QED BY <1>1, <2>2, <2>4, <3>1, <3>2 DEF ScheduleEmail, DoneSoFar, Ending
  <2>5. CASE ScheduleOutreach(p)
    <3>1. r.pc = "outreach"
      BY <2>5 DEF ScheduleOutreach
    <3>2. pc = "prompt" /\ "outreach" \in jobs' /\ "email" \in jobs'
      BY <1>2, <1>5, <2>2, <2>5, <3>1, <1>8
        DEF ScheduleOutreach, Schedule, Failing, Quiet, Goto, DoneSoFar, Inv, TypeOK
    <3> QED BY <1>1, <1>5, <2>2, <2>5, <3>1, <3>2 DEF ScheduleOutreach, DoneSoFar, Ending, Jobs
  <2> QED BY <2>3, <2>4, <2>5
<1>9. WholeInv'
  <2>1. ASSUME Quiet', NEW q \in Processes PROVE DoneSoFar(q)'
    <3>1. CASE q = p
      BY <1>8, <2>1, <3>1
    <3>2. CASE q # p
      <4>1. DoneSoFar(q)
        BY <1>4, <2>1 DEF Inv, WholeInv, Quiet
      <4> QED BY <1>1, <1>3, <1>5, <3>2, <4>1 DEF DoneSoFar
    <3> QED BY <3>1, <3>2
  <2>2. CompletionIsWhole'
    <3>1. pc \in {"summarised", "outreach"} => CompletionIsWhole'
      BY DEF CompletionIsWhole, Completing
    <3>2. pc = "prompt" => CompletionIsWhole'
      BY <1>8 DEF CompletionIsWhole, Quiet
    <3> QED BY <1>3, <3>1, <3>2
  <2> QED BY <2>1, <2>2 DEF WholeInv
<1>10. AloneInv'
  <2>1. SUFFICES ASSUME "moved" \notin disturbed' PROVE AloneInv'
    BY DEF AloneInv
  <2>2. AloneInv /\ "moved" \notin disturbed
    BY <1>4, <2>1 DEF Inv
  <2>3. p = home /\ r.facts.value = facts.value
    BY <1>1, <2>2 DEF AloneInv, Ending
  <2> QED BY <1>1, <1>3, <2>2, <2>3 DEF AloneInv, Ending
<1>11. GoesForward
  BY <1>1, StaysForward DEF Inv
<1> QED BY <1>6, <1>7, <1>9, <1>10, <1>11 DEF Inv

------------------------------------------------------------------------------
(* Steps that end a handling, or come from outside of it. *)

LEMMA IdleIsTyped == Idle \in [pc: {"idle", "replying"}, stage: Stages, facts: FactsRows] /\ Idle.pc = "idle"
<1>1. NoValue \in ValueStates
  BY OnboardingAssumption DEF NoValue, ValueStates, Evals
<1>2. NoFacts \in FactsRows
  BY <1>1 DEF NoFacts, FactsRows, Stages, Emails, Evals
<1> HIDE DEF NoFacts
<1> QED BY <1>2 DEF Idle, Stages

\* A process leaves its handling, and the row as it is; a completion that it
\* leaves is on record as cut short.
LEMMA LeavingKeeps ==
  ASSUME Inv, NEW p \in Processes,
         NEW r \in [pc: {"idle", "replying"}, stage: Stages, facts: FactsRows],
         work' = [work EXCEPT ![p] = r],
         UNCHANGED <<row, rest>>,
         disturbed \subseteq disturbed', disturbed' \subseteq disturbed \union {"cut"},
         work[p].pc \in Completing => "cut" \in disturbed',
         faults' \in 0 .. MaxFaults, home' \in Processes, waiting' \subseteq Processes,
         "moved" \notin disturbed =>
           /\ r.pc = "replying" => p = home'
           /\ \A q \in Processes :
                q # home' => (q = p \/ work[q].pc = "idle") /\ q \notin waiting'
  PROVE  Inv' /\ GoesForward
<1>1. /\ work' \in [Processes -> [pc: Pcs, stage: Stages, facts: FactsRows]]
      /\ work'[p] = r /\ r.pc \in {"idle", "replying"}
      /\ \A q \in Processes : q # p => work'[q] = work[q]
  BY DEF Inv, TypeOK, Pcs
<1>2. UNCHANGED <<columns, facts, onboarded, fee, histories, jobs>>
  BY DEF row, rest
<1>3. TypeOK'
  BY <1>1, <1>2 DEF Inv, TypeOK
<1>4. EarnedInv'
  <2>1. ASSUME NEW q \in Processes
        PROVE  /\ work'[q].pc \in Ending \union {"handling"} => Earned(work'[q].facts, columns)
               /\ work'[q].pc \in Ending => work'[q].facts.stage = "complete"
               /\ work'[q].pc = "handling" => work'[q].facts.stage # "complete" /\ Begun(work'[q], columns)
    BY <1>1 DEF Inv, EarnedInv, Ending
  <2> QED BY <1>2, <2>1 DEF Inv, EarnedInv, Earned, Begun
<1>5. WholeInv'
  <2>1. ASSUME Quiet', NEW q \in Processes PROVE DoneSoFar(q)'
    <3>1. Quiet
      BY <2>1 DEF Quiet
    <3>2. CASE q = p
      BY <1>1, <3>2 DEF DoneSoFar, Ending
    <3>3. CASE q # p
      BY <1>1, <1>2, <3>1, <3>3 DEF Inv, WholeInv, DoneSoFar
    <3> QED BY <3>2, <3>3
  <2>2. CompletionIsWhole'
    <3>1. SUFFICES ASSUME ~RequiresOnboarding, Quiet'
                   PROVE  \/ \E q \in Processes : work'[q].pc \in Completing
                          \/ onboarded /\ histories /\ jobs = Jobs
      BY <1>2 DEF CompletionIsWhole, RequiresOnboarding, Quiet
    <3>2. Quiet /\ work[p].pc \notin Completing
      BY <3>1 DEF Quiet
    <3>3. \/ \E q \in Processes : work[q].pc \in Completing
          \/ onboarded /\ histories /\ jobs = Jobs
      BY <3>1, <3>2 DEF Inv, WholeInv, CompletionIsWhole, Quiet
    <3> QED BY <1>1, <3>2, <3>3
  <2> QED BY <2>1, <2>2 DEF WholeInv
<1>6. AloneInv'
  <2>1. SUFFICES ASSUME "moved" \notin disturbed PROVE AloneInv'
    BY DEF AloneInv
  <2>2. AloneInv
    BY DEF Inv
  <2>3. ASSUME NEW q \in Processes
        PROVE  /\ q # home' => work'[q].pc = "idle" /\ q \notin waiting'
               /\ work'[q].pc = "handling" => work'[q].facts = facts
               /\ work'[q].pc \in Ending => work'[q].facts.value = facts.value
    BY <1>1, <2>1, <2>2 DEF AloneInv, Ending
  <2> QED BY <1>2, <2>1, <2>2, <2>3 DEF AloneInv
<1>7. GoesForward
  BY <1>2, StaysForward DEF Inv
<1> QED BY <1>3, <1>4, <1>5, <1>6, <1>7 DEF Inv

LEMMA ReplyKeeps ==
  ASSUME Inv, NEW p \in Processes,
         AskAgain(p) \/ Reply(p) \/ (PromptLocation(p) /\ ~Answer(p, work[p].facts, {}))
  PROVE  Inv' /\ GoesForward
<1> DEFINE r == IF Reply(p) THEN Idle ELSE [work[p] EXCEPT !.pc = "replying"]
<1>1. /\ work[p].pc \in {"handling", "prompt", "replying"}
      /\ work' = [work EXCEPT ![p] = r]
      /\ UNCHANGED <<row, rest, home, waiting, disturbed, faults>>
  BY DEF AskAgain, Reply, PromptLocation, Goto, Finish, Inv, TypeOK
<1>2. r \in [pc: {"idle", "replying"}, stage: Stages, facts: FactsRows]
  BY IdleIsTyped DEF Inv, TypeOK
<1>3. "moved" \notin disturbed => p = home
  BY <1>1 DEF Inv, AloneInv
<1>4. "moved" \notin disturbed =>
        \A q \in Processes : q # home => work[q].pc = "idle" /\ q \notin waiting
  BY DEF Inv, AloneInv
<1>5. faults' \in 0 .. MaxFaults /\ home' \in Processes /\ waiting' \subseteq Processes
  BY <1>1 DEF Inv, TypeOK
<1> HIDE DEF r
<1> QED BY <1>1, <1>2, <1>3, <1>4, <1>5, LeavingKeeps DEF Completing

\* The flag of the location prompt is written over the row with the facts of a
\* completion.
LEMMA FlagKeeps ==
  ASSUME Inv, NEW p \in Processes, PromptLocation(p), Answer(p, work[p].facts, {})
  PROVE  Inv' /\ GoesForward
<1> DEFINE g == work[p].facts
           r == [pc |-> "replying", stage |-> "none", facts |-> g]
<1>1. /\ work[p].pc = "prompt" /\ work' = [work EXCEPT ![p] = r]
      /\ \/ facts' = g /\ columns' = columns \union {} /\ fee' = fee /\ NoFault
         \/ UNCHANGED <<facts, columns, fee>> /\ Fault
      /\ UNCHANGED <<onboarded, histories, jobs, home, waiting, disturbed>>
  BY DEF PromptLocation, Answer, UpdateUserProfile, rest
<1>2. /\ g \in FactsRows /\ g.stage = "complete" /\ Earned(g, columns)
      /\ g.value.fee \in 0 .. FullFee
  BY <1>1, FactsFields DEF Inv, TypeOK, EarnedInv, Ending
<1>3. r \in [pc: Pcs, stage: Stages, facts: FactsRows] /\ r.pc = "replying"
  BY <1>2 DEF Pcs, Stages
<1> HIDE DEF g, r
<1>4. columns' = columns /\ fee' = fee /\ (facts' = g \/ facts' = facts)
  BY <1>1
<1>5. /\ work' \in [Processes -> [pc: Pcs, stage: Stages, facts: FactsRows]]
      /\ work'[p].pc = "replying" /\ \A q \in Processes : q # p => work'[q] = work[q]
  BY <1>1, <1>3 DEF Inv, TypeOK
<1>6. TypeOK'
  <2>1. faults' \in 0 .. MaxFaults
    BY <1>1, FaultsAreCounted DEF Inv, TypeOK
  <2> QED BY <1>1, <1>2, <1>4, <1>5, <2>1 DEF Inv, TypeOK
<1>7. EarnedInv'
  <2>1. Earned(facts', columns)
    BY <1>2, <1>4 DEF Inv, EarnedInv
  <2>2. ASSUME NEW q \in Processes
        PROVE  /\ work'[q].pc \in Ending \union {"handling"} => Earned(work'[q].facts, columns)
               /\ work'[q].pc \in Ending => work'[q].facts.stage = "complete"
               /\ work'[q].pc = "handling" => work'[q].facts.stage # "complete" /\ Begun(work'[q], columns)
    BY <1>5 DEF Inv, EarnedInv, Ending
  <2> QED BY <1>1, <1>4, <2>1, <2>2 DEF Inv, EarnedInv, Earned, Begun
<1>8. WholeInv'
  <2>1. ASSUME Quiet', NEW q \in Processes PROVE DoneSoFar(q)'
    BY <1>1, <1>5, <2>1 DEF Inv, WholeInv, Quiet, DoneSoFar, Ending
  <2>2. Quiet => onboarded /\ histories /\ jobs = Jobs
    BY <1>1 DEF Inv, TypeOK, WholeInv, DoneSoFar, Ending, Jobs
  <2>3. CompletionIsWhole'
    BY <1>1, <2>2 DEF CompletionIsWhole, Quiet
  <2> QED BY <2>1, <2>3 DEF WholeInv
<1>9. "moved" \notin disturbed =>
        /\ p = home /\ g.value = facts.value
        /\ \A q \in Processes : q # home => work[q].pc = "idle" /\ q \notin waiting
  BY <1>1 DEF Inv, AloneInv, Ending, g
<1>10. AloneInv'
  <2>1. SUFFICES ASSUME "moved" \notin disturbed PROVE AloneInv'
    BY <1>1 DEF AloneInv
  <2>2. (facts.stage \notin {"share_to_complete", "complete"} => fee = FullFee)'
    BY <1>2, <1>4, <2>1 DEF Inv, AloneInv
  <2>3. \A q \in Processes : work'[q].pc \in {"idle", "replying"}
    BY <1>5, <1>9, <2>1
  <2> QED BY <1>1, <1>5, <1>9, <2>1, <2>2, <2>3 DEF AloneInv, Ending
<1>11. GoesForward
  <2>1. CASE facts' = facts
    BY <1>4, <2>1, StaysForward DEF Inv
  <2>2. CASE facts' = g
    <3>1. facts.stage \in Stages /\ fee \in 0 .. FullFee
      BY FactsFields DEF Inv, TypeOK
    <3>2. StageOrder[facts.stage] \in 0 .. 8 /\ StageOrder[g.stage] = 8
      BY <1>2, <3>1, OrderIsNatural, StagesAreOrdered
    <3> QED BY <1>2, <1>4, <1>9, <2>2, <3>1, <3>2, OnboardingAssumption DEF GoesForward
  <2> QED BY <1>4, <2>1, <2>2
<1> QED BY <1>6, <1>7, <1>8, <1>10, <1>11 DEF Inv

LEMMA ReceiveKeeps == ASSUME Inv, Receive PROVE Inv' /\ GoesForward
<1>1. /\ home \in Processes /\ waiting' = waiting \union {home}
      /\ work' = [work EXCEPT ![home] = Idle]
      /\ disturbed' = disturbed \union
           (IF work[home].pc \in Completing THEN {"cut"} ELSE {})
      /\ UNCHANGED <<row, rest, home, faults>>
  BY DEF Receive, CutShort, Finish, Inv, TypeOK
<1>2. waiting' \subseteq Processes /\ home' \in Processes /\ faults' \in 0 .. MaxFaults
  BY <1>1 DEF Inv, TypeOK
<1>3. "moved" \notin disturbed =>
        \A q \in Processes : q # home => work[q].pc = "idle" /\ q \notin waiting'
  BY <1>1 DEF Inv, AloneInv
<1> QED BY <1>1, <1>2, <1>3, IdleIsTyped, LeavingKeeps

LEMMA CrashKeeps ==
  ASSUME Inv, NEW p \in Processes, Crash(p) PROVE Inv' /\ GoesForward
<1>1. /\ work' = [work EXCEPT ![p] = Idle]
      /\ disturbed' = disturbed \union (IF work[p].pc \in Completing THEN {"cut"} ELSE {})
      /\ IF p = home THEN home' \in Processes ELSE home' = home
      /\ waiting' \subseteq (waiting \ {p}) \union {home'}
      /\ UNCHANGED <<row, rest>> /\ Fault
      /\ p \in waiting \/ work[p].pc # "idle"
  BY DEF Crash, CutShort, Finish
<1>2. waiting' \subseteq Processes /\ home' \in Processes /\ faults' \in 0 .. MaxFaults
  BY <1>1, FaultsAreCounted DEF Inv, TypeOK
<1>3. "moved" \notin disturbed =>
        \A q \in Processes :
          q # home' => (q = p \/ work[q].pc = "idle") /\ q \notin waiting'
  BY <1>1 DEF Inv, AloneInv
<1> QED BY <1>1, <1>2, <1>3, IdleIsTyped, LeavingKeeps

\* A handling begins with the facts of the row.
LEMMA BeginKeeps ==
  ASSUME Inv, NEW p \in Processes, Begin(p) PROVE Inv' /\ GoesForward
<1> DEFINE r == [pc |-> "handling", stage |-> StageOf(facts, columns), facts |-> facts]
<1>1. /\ p \in waiting /\ work[p].pc = "idle" /\ waiting' \subseteq waiting
      /\ UNCHANGED <<columns, facts, onboarded, fee, histories, jobs, home, disturbed, faults>>
      /\ \/ work' = [work EXCEPT ![p] = r] /\ RequiresOnboarding
         \/ UNCHANGED work
  BY DEF Begin, row, rest
<1>2. facts.stage \in Stages /\ Earned(facts, columns)
  BY FactsFields DEF Inv, TypeOK, EarnedInv
<1>3. r.stage \in Stages /\ Begun(r, columns) /\ r.pc = "handling" /\ r.facts = facts
  BY <1>2, HandlingsBegin
<1>4. r \in [pc: Pcs, stage: Stages, facts: FactsRows]
  BY <1>3 DEF Pcs, Inv, TypeOK
<1> HIDE DEF r
<1>5. /\ work' \in [Processes -> [pc: Pcs, stage: Stages, facts: FactsRows]]
      /\ work'[p] = work[p] \/ (work'[p] = r /\ facts.stage # "complete")
      /\ \A q \in Processes : q # p => work'[q] = work[q]
  BY <1>1, <1>3, <1>4 DEF Inv, TypeOK, RequiresOnboarding
<1>6. TypeOK'
  BY <1>1, <1>5 DEF Inv, TypeOK
<1>7. EarnedInv'
  <2>1. ASSUME NEW q \in Processes
        PROVE  /\ work'[q].pc \in Ending \union {"handling"} => Earned(work'[q].facts, columns)
               /\ work'[q].pc \in Ending => work'[q].facts.stage = "complete"
               /\ work'[q].pc = "handling" => work'[q].facts.stage # "complete" /\ Begun(work'[q], columns)
    BY <1>3, <1>4, <1>5 DEF Inv, EarnedInv, Ending
  <2> QED BY <1>1, <2>1 DEF Inv, EarnedInv, Earned, Begun
<1>8. WholeInv'
  <2>1. ASSUME Quiet', NEW q \in Processes PROVE DoneSoFar(q)'
    BY <1>1, <1>3, <1>4, <1>5, <2>1 DEF Inv, WholeInv, Quiet, DoneSoFar, Ending
  <2>2. \A q \in Processes : work[q].pc \in Completing => work'[q].pc \in Completing
    BY <1>1, <1>5 DEF Completing
  <2>3. CompletionIsWhole'
    BY <1>1, <2>2 DEF Inv, WholeInv, CompletionIsWhole, RequiresOnboarding
  <2> QED BY <2>1, <2>3 DEF WholeInv
<1>9. AloneInv'
  <2>1. SUFFICES ASSUME "moved" \notin disturbed PROVE AloneInv'
    BY <1>1 DEF AloneInv
  <2>2. AloneInv /\ p = home
    BY <1>1, <2>1 DEF Inv, AloneInv
  <2> QED BY <1>1, <1>3, <1>4, <1>5, <2>1, <2>2 DEF AloneInv, Ending
<1>10. GoesForward
  BY <1>1, StaysForward DEF Inv
<1> QED BY <1>6, <1>7, <1>8, <1>9, <1>10 DEF Inv

LEMMA RebalanceKeeps ==
  ASSUME Inv, NEW p \in Processes, Rebalance(p) PROVE Inv' /\ GoesForward
<1>1. /\ home' \in Processes /\ faults' \in 0 .. MaxFaults
      /\ disturbed' = disturbed \union {"moved"}
      /\ UNCHANGED <<columns, facts, onboarded, fee, histories, jobs, waiting, work>>
  BY FaultsAreCounted DEF Rebalance, row, rest, Inv, TypeOK
<1>2. TypeOK' /\ AloneInv'
  BY <1>1 DEF Inv, TypeOK, AloneInv
<1>3. EarnedInv'
  BY <1>1 DEF Inv, EarnedInv, Earned, Begun
<1>4. WholeInv'
  BY <1>1 DEF Inv, WholeInv, Quiet, DoneSoFar, CompletionIsWhole, RequiresOnboarding
<1>5. GoesForward
  BY <1>1, StaysForward DEF Inv
<1> QED BY <1>2, <1>3, <1>4, <1>5 DEF Inv

LEMMA StutterKeeps == ASSUME Inv, UNCHANGED vars PROVE Inv' /\ GoesForward
<1>1. GoesForward
  BY StaysForward DEF Inv, vars, row
<1>2. UNCHANGED <<columns, facts, onboarded, fee, histories, jobs, home, waiting, work,
                  disturbed, faults>>
  BY DEF vars, row, rest
<1>3. TypeOK' /\ AloneInv'
  BY <1>2 DEF Inv, TypeOK, AloneInv
<1>4. EarnedInv'
  BY <1>2 DEF Inv, EarnedInv, Earned, Begun
<1>5. WholeInv'
  BY <1>2 DEF Inv, WholeInv, Quiet, DoneSoFar, CompletionIsWhole, RequiresOnboarding
<1> QED BY <1>1, <1>3, <1>4, <1>5 DEF Inv

------------------------------------------------------------------------------
(* Theorems. *)

LEMMA StartsWell == Init => Inv
<1> SUFFICES ASSUME Init PROVE Inv
  OBVIOUS
<1>1. NoFacts \in FactsRows /\ NoFacts.stage = "none"
  BY OnboardingAssumption
    DEF NoFacts, NoValue, FactsRows, ValueStates, Stages, Emails, Evals
<1>2. Idle \in [pc: Pcs, stage: Stages, facts: FactsRows] /\ Idle.pc = "idle"
  BY IdleIsTyped DEF Pcs
<1> HIDE DEF NoFacts, Idle
<1>3. TypeOK
  <2>1. fee \in 0 .. FullFee /\ faults \in 0 .. MaxFaults
    BY OnboardingAssumption DEF Init
  <2>2. work \in [Processes -> [pc: Pcs, stage: Stages, facts: FactsRows]]
    BY <1>2 DEF Init
  <2> QED BY <1>1, <2>1, <2>2 DEF Init, TypeOK
<1>4. EarnedInv
  BY <1>1, <1>2
    DEF Init, EarnedInv, Earned, Ending,
        AfterValue, AfterNeeds, AfterEmail, AfterCareer, AfterSchool
<1>5. WholeInv
  BY <1>1, <1>2 DEF Init, WholeInv, DoneSoFar, Ending, CompletionIsWhole, RequiresOnboarding
<1>6. AloneInv
  BY <1>1, <1>2 DEF Init, AloneInv, Ending
<1> QED BY <1>3, <1>4, <1>5, <1>6 DEF Inv

LEMMA NextKeeps == Inv /\ [Next]_vars => Inv' /\ GoesForward
<1> SUFFICES ASSUME Inv, [Next]_vars PROVE Inv' /\ GoesForward
  OBVIOUS
<1>1. CASE Receive
  BY <1>1, ReceiveKeeps
<1>2. ASSUME NEW p \in Processes,
             \/ AskAgain(p) \/ SameStage(p) \/ NameStage(p) \/ SchoolStage(p)
             \/ CareerStage(p) \/ EmailLink(p) \/ EmailRefused(p) \/ EmailConnected(p)
             \/ NeedsStage(p) \/ ValueStage(p)
      PROVE  Inv' /\ GoesForward
  BY <1>2, ReplyKeeps, NameKeeps, CareerKeeps, ConnectedKeeps, ValueKeeps
<1>3. ASSUME NEW p \in Processes,
             \/ ShareStage(p) \/ Summarize(p) \/ ScheduleEmail(p) \/ ScheduleOutreach(p)
             \/ PromptLocation(p) \/ Reply(p)
      PROVE  Inv' /\ GoesForward
  BY <1>3, ShareKeeps, CompletionKeeps, FlagKeeps, ReplyKeeps
<1>4. ASSUME NEW p \in Processes, Begin(p) \/ Rebalance(p) \/ Crash(p)
      PROVE  Inv' /\ GoesForward
  BY <1>4, BeginKeeps, RebalanceKeeps, CrashKeeps
<1>5. CASE UNCHANGED vars
  BY <1>5, StutterKeeps
<1> QED BY <1>1, <1>2, <1>3, <1>4, <1>5 DEF Next

LEMMA OnboardingIsCorrect == Spec => []Inv
<1>1. Inv /\ [Next]_vars => Inv'
  BY NextKeeps
<1> QED BY StartsWell, <1>1, PTL DEF Spec

\* Type correctness of onboarding, for any processes, fees, turns and faults.
THEOREM OnboardingIsTyped == Spec => []TypeOK
<1>1. Inv => TypeOK
  BY DEF Inv
<1> QED BY <1>1, OnboardingIsCorrect, PTL

\* The stage that update_user_profile (extraction.py) stores with the whole of
\* the facts is one that the row has earned, whichever copies overtake each
\* other, whatever fails and whatever is cut short.
THEOREM StagesAreEarned == Spec => []StageIsEarned
<1>1. Inv => StageIsEarned
  BY DEF Inv, EarnedInv, Earned, StageIsEarned, Columns
<1> QED BY <1>1, OnboardingIsCorrect, PTL

\* A user whose onboarding is over is onboarded, summarised and scheduled
\* (execute_share_stage), unless the completion was cut short or failed.
THEOREM CompletionsAreWhole == Spec => []CompletionIsWhole
<1>1. Inv => CompletionIsWhole
  BY DEF Inv, WholeInv
<1> QED BY <1>1, OnboardingIsCorrect, PTL

\* While one process has the user's messages, no handling writes an earlier
\* stage or a higher fee over the row.
THEOREM OneProcessGoesForward == Spec => NeverGoesBack
<1>1. Inv /\ [Next]_vars =>
        [\/ "moved" \in disturbed
         \/ /\ StageOrder[facts'.stage] >= StageOrder[facts.stage]
            /\ facts'.value.fee <= facts.value.fee /\ fee' <= fee]_vars
  BY NextKeeps DEF GoesForward
<1> QED BY <1>1, OnboardingIsCorrect, PTL DEF Spec, NeverGoesBack
==============================================================================
