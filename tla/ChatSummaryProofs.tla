--------------------------- MODULE ChatSummaryProofs --------------------------
(* What holds of the summaries of one chat for any number of messages,       *)
(* workers and faults and any bounds of the raw row, the read and the        *)
(* transcript: the state keeps its type (SummaryIsTyped), no message of a    *)
(* user before the end of the stored segments is left out but for the three  *)
(* reasons NothingSkipped names (NothingIsSkipped), a job that is done       *)
(* leaves none behind it (NothingIsForgotten), and while no claim was taken  *)
(* over none is summarised twice (NothingIsSummarisedTwice).                 *)
(*                                                                           *)
(* A worker carries what it read across several steps of others, so the      *)
(* inductive invariant says of each worker what its record still owes to the *)
(* state: every message before its due time that nothing accounts for yet is *)
(* in what it read or in the lines it sent to the model (Gathered, Chosen).  *)
(* Whatever the others do meanwhile only accounts for more (Grows).          *)
EXTENDS ChatSummary, TLAPS, FiniteSetTheorems, FunctionTheorems,
        WellFoundedInduction

------------------------------------------------------------------------------
(* The row of the job. *)

\* A row of the table as every caller may find it.
GoodRow(j, W, I) == j \in JobRows(W, I) /\ ClaimIsKnown(j)

\* The row r has the anchor of j and is not due earlier.
SameAnchor(r, j) == r.at = j.at /\ r.id = j.id /\ r.due >= j.due

\* The fields of a row have their types, and a row has its own anchor.
LEMMA RowFields ==
  ASSUME NEW W, NEW I, NEW j \in JobRows(W, I)
  PROVE  /\ j.at \in 0 .. Horizon /\ j.due \in 0 .. Horizon
         /\ j.attempts \in Nat /\ j.age \in 0 .. StaleAfter
         /\ j.id \in I \union {NoMsg} /\ j.by \in W \union {Nobody}
         /\ j.status \in {"none", "queued", "running", "done", "failed"}
         /\ SameAnchor(j, j)
BY SMT DEF JobRows, SameAnchor

\* Zero is a time, a count and an age.
LEMMA ZeroIsFine == 0 \in 0 .. Horizon /\ 0 \in Nat /\ 0 \in 0 .. StaleAfter
BY JobsAssumption, SMT DEF JobsAssumption

\* schedule keeps a row good and leaves its claim; the message it is called
\* with becomes the anchor when it is not older.
LEMMA ScheduledSays ==
  ASSUME NEW W, NEW I, NEW j \in JobRows(W, I), NEW t, NEW id
  PROVE  /\ (GoodRow(j, W, I) /\ t \in 0 .. Horizon /\ t + Window <= Horizon /\ id \in I)
               => GoodRow(Scheduled(j, t, id), W, I)
         /\ Scheduled(j, t, id).by = j.by
         /\ Scheduled(j, t, id).status \in {"queued", "running"}
         /\ Moves(j, t) => /\ Scheduled(j, t, id).at = t
                           /\ Scheduled(j, t, id).id = id
                           /\ Scheduled(j, t, id).due = t + Window
         /\ ~Moves(j, t) => /\ Scheduled(j, t, id).at = j.at
                            /\ Scheduled(j, t, id).id = j.id
                            /\ Scheduled(j, t, id).due = j.due
<1> DEFINE s == IF j.status = "running" THEN j.status ELSE "queued"
           moved == [j EXCEPT !.status = s, !.at = t, !.id = id, !.due = t + Window,
                              !.attempts = 0]
           kept == [j EXCEPT !.status = s]
<1>1. /\ s \in {"queued", "running"} /\ (s = "running" <=> j.status = "running")
      /\ Scheduled(j, t, id) = IF Moves(j, t) THEN moved ELSE kept
  BY DEF Scheduled
<1> HIDE DEF s
<1>2. /\ moved.by = j.by /\ moved.status = s /\ moved.at = t /\ moved.id = id
      /\ moved.due = t + Window
      /\ kept.by = j.by /\ kept.status = s /\ kept.at = j.at /\ kept.id = j.id
      /\ kept.due = j.due
  BY <1>1, SMT DEF JobRows
<1>3. ASSUME GoodRow(j, W, I), t \in 0 .. Horizon, t + Window <= Horizon, id \in I
      PROVE  GoodRow(Scheduled(j, t, id), W, I)
  <2>1. t + Window \in 0 .. Horizon
    BY <1>3, JobsAssumption, SMT DEF JobsAssumption
  <2>2. moved \in JobRows(W, I) /\ kept \in JobRows(W, I)
    BY <1>1, <1>3, <2>1, ZeroIsFine, Zenon DEF JobRows
  <2> QED BY <1>1, <1>2, <1>3, <2>2 DEF GoodRow, ClaimIsKnown
<1> QED BY <1>1, <1>2, <1>3

\* claim keeps a row good and its anchor.
LEMMA ClaimedSays ==
  ASSUME NEW W, NEW I, NEW j \in JobRows(W, I), NEW w
  PROVE  /\ w \in W /\ Nobody \notin W => GoodRow(Claimed(j, w), W, I)
         /\ SameAnchor(Claimed(j, w), j)
         /\ Claimed(j, w).by = w /\ Claimed(j, w).status = "running"
<1>1. w \in W => Claimed(j, w) \in JobRows(W, I)
  BY ZeroIsFine, Zenon DEF JobRows, Claimed
<1>2. /\ SameAnchor(Claimed(j, w), j)
      /\ Claimed(j, w).by = w /\ Claimed(j, w).status = "running"
  BY SMT DEF JobRows, Claimed, SameAnchor
<1> QED BY <1>1, <1>2 DEF GoodRow, ClaimIsKnown

\* A claim ages within its bound, and nothing else of the row changes.
LEMMA AgedSays ==
  ASSUME NEW W, NEW I, NEW j, GoodRow(j, W, I)
  PROVE  /\ GoodRow(Aged(j), W, I) /\ SameAnchor(Aged(j), j)
         /\ Aged(j).status = j.status /\ Aged(j).by = j.by
<1> DEFINE a == IF j.by # Nobody /\ j.age < StaleAfter THEN j.age + 1 ELSE j.age
<1>1. j \in JobRows(W, I) /\ Aged(j) = [j EXCEPT !.age = a]
  BY DEF GoodRow, Aged
<1>2. a \in 0 .. StaleAfter
  BY <1>1, RowFields, JobsAssumption, SMT DEF JobsAssumption
<1> HIDE DEF a
<1>3. Aged(j) \in JobRows(W, I)
  BY <1>1, <1>2, Zenon DEF JobRows
<1>4. SameAnchor(Aged(j), j) /\ Aged(j).status = j.status /\ Aged(j).by = j.by
  BY <1>1, SMT DEF JobRows, SameAnchor
<1> QED BY <1>1, <1>3, <1>4 DEF GoodRow, ClaimIsKnown

\* A row that is freed for any status but "running" is good.
LEMMA FreedSays ==
  ASSUME NEW W, NEW I, NEW j \in JobRows(W, I),
         NEW s \in {"queued", "done", "failed"}, NEW a \in Nat, NEW d \in 0 .. Horizon,
         d >= j.due
  PROVE  /\ GoodRow(Freed(j, s, a, d), W, I) /\ SameAnchor(Freed(j, s, a, d), j)
         /\ Freed(j, s, a, d).status = s /\ Freed(j, s, a, d).by = Nobody
<1>1. Freed(j, s, a, d) \in JobRows(W, I)
  BY ZeroIsFine, Zenon DEF JobRows, Freed
<1>2. /\ Freed(j, s, a, d).status = s /\ Freed(j, s, a, d).by = Nobody
      /\ SameAnchor(Freed(j, s, a, d), j)
  BY SMT DEF JobRows, Freed, SameAnchor
<1> QED BY <1>1, <1>2 DEF GoodRow, ClaimIsKnown

\* release, complete and fail keep a row good and its anchor, free it for the
\* worker that holds the claim and leave it alone for every other one; only
\* complete makes it done, and only by the anchor that the worker started from.
GivenBackBy(r, j, w, W, I) ==
  /\ GoodRow(r, W, I) /\ SameAnchor(r, j)
  /\ IF j.by = w THEN r.by = Nobody ELSE r = j
  /\ r.status = "none" <=> j.status = "none"

LEMMA GivenBackOrUp ==
  ASSUME NEW W, NEW I, NEW j, GoodRow(j, W, I), NEW w \in W, NEW id,
         NEW t \in Nat, Nobody \notin W
  PROVE  /\ GivenBackBy(Released(j, w), j, w, W, I)
         /\ GivenBackBy(Completed(j, w, id), j, w, W, I)
         /\ GivenBackBy(Failed(j, w, id, t), j, w, W, I)
         /\ Released(j, w).status = "done" => j.status = "done"
         /\ Completed(j, w, id).status = "done"
              => j.status = "done" \/ (j.by = w /\ j.id = id)
         /\ Failed(j, w, id, t).status = "done" => j.status = "done"
<1>1. j \in JobRows(W, I) /\ (j.by = w => j.status = "running")
  BY DEF GoodRow, ClaimIsKnown
<1>2. /\ j.due \in 0 .. Horizon /\ j.attempts \in Nat /\ SameAnchor(j, j)
      /\ j.attempts + 1 \in Nat /\ 0 \in Nat
  BY <1>1, RowFields
<1> DEFINE later == NoLater(t + Backoff)
           due == IF j.due >= later THEN j.due ELSE later
           s == IF j.attempts + 1 >= MaxAttempts THEN "failed" ELSE "queued"
<1>3. later \in 0 .. Horizon
  BY JobsAssumption, SMT DEF JobsAssumption, NoLater
<1> HIDE DEF later
<1>4. due \in 0 .. Horizon /\ due >= j.due /\ j.due >= j.due
  BY <1>2, <1>3, SMT
<1>5. /\ Requeued(j) = Freed(j, "queued", j.attempts, j.due)
      /\ Retried(j, t) = Freed(j, s, j.attempts + 1, due)
      /\ s \in {"queued", "failed"}
  BY DEF Requeued, Retried, later
<1> HIDE DEF due, s
<1>6. /\ "queued" \in {"queued", "done", "failed"} /\ s \in {"queued", "done", "failed"}
      /\ "done" \in {"queued", "done", "failed"}
  BY <1>5
<1> DEFINE IsBack(r) == /\ GoodRow(r, W, I) /\ SameAnchor(r, j) /\ r.by = Nobody
                        /\ r.status # "none"
<1>7. /\ IsBack(Requeued(j)) /\ Requeued(j).status # "done"
      /\ IsBack(Retried(j, t)) /\ Retried(j, t).status # "done"
      /\ IsBack(Freed(j, "done", 0, j.due))
  <2>1. IsBack(Requeued(j)) /\ Requeued(j).status # "done"
    BY <1>1, <1>2, <1>4, <1>5, <1>6, FreedSays
  <2>2. IsBack(Retried(j, t)) /\ Retried(j, t).status # "done"
    BY <1>1, <1>2, <1>4, <1>5, <1>6, FreedSays
  <2>3. IsBack(Freed(j, "done", 0, j.due))
    BY <1>1, <1>2, <1>4, <1>6, FreedSays
  <2> QED BY <2>1, <2>2, <2>3
<1>8. CASE j.by # w
  <2>1. Released(j, w) = j /\ Completed(j, w, id) = j /\ Failed(j, w, id, t) = j
    BY <1>8 DEF Released, Completed, Failed
  <2> QED BY <1>2, <1>8, <2>1 DEF GivenBackBy
<1>9. CASE j.by = w
  <2>1. /\ Released(j, w) = Requeued(j)
        /\ j.id = id => Completed(j, w, id) = Freed(j, "done", 0, j.due)
        /\ j.id # id => Completed(j, w, id) = Requeued(j)
    BY <1>9 DEF Released, Completed
  <2>2. Failed(j, w, id, t) \in {Requeued(j), Retried(j, t)}
    BY <1>9 DEF Failed
  <2> QED BY <1>1, <1>7, <1>9, <2>1, <2>2 DEF GivenBackBy
<1> QED BY <1>8, <1>9

LEMMA GivenBack ==
  ASSUME NEW W, NEW I, NEW j, GoodRow(j, W, I), NEW w \in W, NEW id, Nobody \notin W
  PROVE  /\ GivenBackBy(Released(j, w), j, w, W, I)
         /\ GivenBackBy(Completed(j, w, id), j, w, W, I)
         /\ Released(j, w).status = "done" => j.status = "done"
         /\ Completed(j, w, id).status = "done"
              => j.status = "done" \/ (j.by = w /\ j.id = id)
<1>1. 0 \in Nat
  OBVIOUS
<1> QED BY <1>1, GivenBackOrUp

LEMMA GivenUp ==
  ASSUME NEW W, NEW I, NEW j, GoodRow(j, W, I), NEW w \in W, NEW id,
         NEW t \in Nat, Nobody \notin W
  PROVE  /\ GivenBackBy(Failed(j, w, id, t), j, w, W, I)
         /\ Failed(j, w, id, t).status = "done" => j.status = "done"
BY GivenBackOrUp
------------------------------------------------------------------------------
\* A message is summarised, or is one of those that need not be.
Accounted(m) == m \in Summarised \/ m \in missed \/ CrowdedOut(m)

Recorded == {m \in Msgs : sent[m] # 0}
Written  == {m \in UserMsgs : sent[m] # 0}

\* The raw row holds no message twice, only what was recorded, and of the
\* users all that nothing accounts for yet.
RawInv ==
  /\ \A i, j \in DOMAIN raw : raw[i] = raw[j] => i = j
  /\ ToSet(raw) \subseteq Recorded
  /\ \A m \in Written : m \in ToSet(raw) \/ Accounted(m)

\* A stored segment and its anchor lie before the end.
SegmentsInv ==
  \A i \in DOMAIN segments :
    /\ segments[i].id \in Written /\ sent[segments[i].id] < end
    /\ \A n \in segments[i].msgs : n \in Recorded /\ sent[n] < end

\* The anchor of the job is the newest message of a user, which leaves the
\* chat a whole window of silence, and is summarised when the job is done.
RowInv ==
  /\ job.status = "none" => Written = {}
  /\ job.status # "none" =>
       /\ job.id \in Written /\ job.at = sent[job.id]
       /\ job.at + Window <= job.due
       /\ \A m \in Written : sent[m] <= job.at
  /\ job.status = "done" => sent[job.id] < end

\* The messages of users before the due time that nothing accounts for.
Owed(l) == {m \in Written : sent[m] < l.due /\ ~Accounted(m)}

\* What a worker has read holds all that is owed, in the order of sending.
Gathered(l) ==
  /\ l.due <= closed
  /\ \A i, j \in DOMAIN l.read : i < j => sent[l.read[i]] <= sent[l.read[j]]
  /\ \A m \in Owed(l) : m \in ToSet(l.read) /\ sent[m] <= sent[l.id]

\* So do the lines given to the model, but for what they crowd out.
Chosen(l) ==
  /\ l.due <= closed
  /\ \A n \in l.lines : sent[n] < l.due
  /\ \A m \in Owed(l) :
       /\ sent[m] <= sent[l.id]
       /\ m \in l.lines \/ (/\ Cardinality(l.lines) = MaxLines
                            /\ \A n \in l.lines : sent[n] >= sent[m])

Fine(l) ==
  /\ l.pc # "idle" => l.id \in Written /\ sent[l.id] + Window <= l.due
  /\ ToSet(l.read) \subseteq Recorded /\ l.lines \subseteq Recorded
  /\ l.pc = "read" => Gathered(l)
  /\ l.pc = "asking" => Chosen(l)
  /\ l.pc = "stored" => l.due <= end
  /\ l.pc \in {"stored", "complete"} => sent[l.id] < end

WorkInv == \A w \in Workers : Fine(work[w])

\* Until a claim is taken over, the worker at work is the one that holds it,
\* and its transcript begins where the stored segments end.
SoleInv ==
  ~shared => \A w \in Workers :
               /\ work[w].pc # "idle" => job.by = w
               /\ work[w].pc = "asking" => \A n \in work[w].lines : sent[n] >= end

\* Every window of silence ends before the clock stops.
TimesInv ==
  /\ \A m \in Recorded : sent[m] + Window <= Horizon
  /\ end <= closed

SummaryInv ==
  /\ TypeOK /\ RawInv /\ SegmentsInv /\ RowInv /\ WorkInv /\ SoleInv /\ TimesInv
  /\ NothingSkipped /\ SummarisedOnce

------------------------------------------------------------------------------
(* The sets and records of the state. *)

WorkRecords == [pc: Pcs, id: Ids \union {NoMsg}, due: 0 .. Horizon,
                read: Seq(Msgs), lines: SUBSET Msgs]

\* The constants as the assumption gives them.
LEMMA Bounds ==
  /\ Nobody \notin Workers /\ NoMsg \notin Msgs /\ UserMsgs \subseteq Msgs
  /\ KeepLast \in Nat /\ KeepTail \in Nat /\ ReadLimit \in Nat /\ MaxLines \in Nat
  /\ MaxFaults \in Nat /\ KeepLast >= 1 /\ MaxLines >= 1
  /\ Window \in Nat /\ Window >= 1 /\ Horizon \in Nat /\ Horizon >= 1
<1>1. /\ NoMsg \notin UserMsgs /\ NoMsg \notin OwnMsgs /\ Nobody \notin Workers
      /\ KeepLast \in Nat /\ KeepTail \in Nat /\ ReadLimit \in Nat /\ MaxLines \in Nat
      /\ MaxFaults \in Nat /\ KeepLast >= ReadLimit /\ ReadLimit >= MaxLines
      /\ MaxLines > 0
  BY SummaryAssumption, Zenon DEF SummaryAssumption
<1>2. KeepLast >= 1 /\ MaxLines >= 1
  BY <1>1, SMT
<1>3. Window \in Nat /\ Window >= 1 /\ Horizon \in Nat /\ Horizon >= 1
  BY JobsAssumption, SMT DEF JobsAssumption
<1>4. NoMsg \notin Msgs /\ UserMsgs \subseteq Msgs
  BY <1>1, Zenon DEF Msgs
<1> QED BY <1>1, <1>2, <1>3, <1>4

\* The fields of what a worker has at hand have their types.
LEMMA WorkFields ==
  ASSUME NEW l \in WorkRecords
  PROVE  /\ l.pc \in Pcs /\ l.id \in Ids \union {NoMsg} /\ l.due \in 0 .. Horizon
         /\ l.read \in Seq(Msgs) /\ l.lines \in SUBSET Msgs
BY SMT DEF WorkRecords

\* The transcript of a set of messages, elements of a sequence.
LEMMA InRange ==
  ASSUME NEW S, NEW s \in Seq(S), NEW x
  PROVE  /\ x \in ToSet(s) <=> \E i \in 1 .. Len(s) : s[i] = x
         /\ x \in ToSet(s) => x \in S
         /\ Contains(s, x) <=> x \in ToSet(s)
<1>1. DOMAIN s = 1 .. Len(s) /\ \A i \in 1 .. Len(s) : s[i] \in S
  BY SMT
<1>2. x \in ToSet(s) <=> \E i \in 1 .. Len(s) : s[i] = x
  BY <1>1, Zenon DEF ToSet
<1>3. Contains(s, x) <=> \E i \in 1 .. Len(s) : s[i] = x
  BY <1>1, Zenon DEF Contains
<1> QED BY <1>1, <1>2, <1>3
------------------------------------------------------------------------------
(* Sequences of messages. *)

\* Of a set of natural numbers, some number is the least.
LEMMA LeastNumber ==
  ASSUME NEW S \in SUBSET Nat, S # {}
  PROVE  \E i \in S : \A j \in S : i <= j
<1>1. PICK i \in S : \A j \in S : ~(<<j, i>> \in OpToRel(<, Nat))
  BY NatLessThanWellFounded, WFMin
<1>2. \A j \in S : ~(j < i)
  BY <1>1, Zenon DEF OpToRel
<1>3. \A j \in S : i <= j
  BY <1>2, SMT
<1> QED BY <1>3

\* No element stands in s twice.
Injective(s) == \A i, j \in DOMAIN s : s[i] = s[j] => i = j

\* u is what is left of s from position k on.
Suffix(u, s, k) ==
  /\ k \in 1 .. Len(s) + 1
  /\ Len(u) = Len(s) - k + 1
  /\ \A i \in 1 .. Len(u) : u[i] = s[i + k - 1]

LEMMA SubSeqIsSuffix ==
  ASSUME NEW S, NEW s \in Seq(S), NEW k \in 1 .. Len(s) + 1
  PROVE  /\ SubSeq(s, k, Len(s)) \in Seq(S)
         /\ Suffix(SubSeq(s, k, Len(s)), s, k)
<1> DEFINE u == SubSeq(s, k, Len(s))
<1>1. u \in Seq(S)
  BY SMT
<1>2. Len(u) = Len(s) - k + 1
  BY SMT
<1>3. \A i \in 1 .. Len(u) : u[i] = s[i + k - 1]
  BY <1>2, SMT
<1> HIDE DEF u
<1>4. Suffix(u, s, k)
  BY <1>2, <1>3 DEF Suffix
<1> QED BY <1>1, <1>4 DEF u

\* What is left of a sequence repeats nothing when the sequence does not,
\* holds nothing else, and lacks only what stands before position k.
LEMMA SuffixIs ==
  ASSUME NEW S, NEW s \in Seq(S), NEW u \in Seq(S), NEW k, Suffix(u, s, k)
  PROVE  /\ Injective(s) => Injective(u)
         /\ ToSet(u) \subseteq ToSet(s)
         /\ \A x \in ToSet(s) \ ToSet(u) : \E i \in 1 .. Len(s) : i < k /\ s[i] = x
<1>1. /\ DOMAIN s = 1 .. Len(s) /\ DOMAIN u = 1 .. Len(u)
      /\ Len(s) \in Nat /\ Len(u) \in Nat /\ k \in 1 .. Len(s) + 1
      /\ Len(u) = Len(s) - k + 1
      /\ \A i \in 1 .. Len(u) : u[i] = s[i + k - 1]
  BY SMT DEF Suffix
<1>2. \A i \in 1 .. Len(u) : i + k - 1 \in 1 .. Len(s)
  BY <1>1, SMT
<1>3. Injective(s) => Injective(u)
  <2> SUFFICES ASSUME Injective(s), NEW i \in 1 .. Len(u), NEW j \in 1 .. Len(u), u[i] = u[j]
               PROVE  i = j
    BY <1>1 DEF Injective
  <2>1. i + k - 1 = j + k - 1
    BY <1>1, <1>2 DEF Injective
  <2> QED BY <1>1, <2>1, SMT
<1>4. ToSet(u) \subseteq ToSet(s)
  <2> SUFFICES ASSUME NEW i \in 1 .. Len(u)
               PROVE  u[i] \in ToSet(s)
    BY <1>1, InRange
  <2>1. i + k - 1 \in 1 .. Len(s) /\ s[i + k - 1] = u[i]
    BY <1>1, <1>2
  <2> QED BY <2>1, InRange
<1>5. ASSUME NEW x \in ToSet(s) \ ToSet(u)
      PROVE  \E i \in 1 .. Len(s) : i < k /\ s[i] = x
  <2>1. PICK i \in 1 .. Len(s) : s[i] = x
    BY <1>5, InRange
  <2>2. CASE i < k
    BY <2>1, <2>2
  <2>3. CASE ~(i < k)
    <3>1. i - k + 1 \in 1 .. Len(u) /\ i - k + 1 + k - 1 = i
      BY <1>1, <2>3, SMT
    <3>2. u[i - k + 1] = x
      BY <1>1, <2>1, <3>1
    <3> QED BY <1>5, <3>1, <3>2, InRange
  <2> QED BY <2>2, <2>3
<1> QED BY <1>3, <1>4, <1>5

\* append_group_chat_raw_message_v1 keeps the row bounded, repeats nothing,
\* adds nothing but the message, and keeps a message it adds.
LEMMA AppendedIs ==
  ASSUME NEW s \in Seq(Msgs), Len(s) <= KeepLast, Injective(s), NEW m \in Msgs
  PROVE  /\ Appended(s, m) \in Seq(Msgs) /\ Len(Appended(s, m)) <= KeepLast
         /\ Injective(Appended(s, m))
         /\ ToSet(Appended(s, m)) \subseteq ToSet(s) \union {m}
         /\ m \notin ToSet(s) => m \in ToSet(Appended(s, m))
<1>1. CASE m \in ToSet(s)
  <2>1. Contains(s, m) /\ Len(s) \in Nat
    BY <1>1, InRange
  <2>2. ~(Len(s) > KeepLast)
    BY <2>1, Bounds, SMT
  <2>3. Appended(s, m) = s
    BY <2>1, <2>2 DEF Appended
  <2> QED BY <1>1, <2>3
<1>2. CASE m \notin ToSet(s)
  <2> DEFINE t == Append(s, m)
             k == Len(t) - KeepLast + 1
  <2>1. /\ t \in Seq(Msgs) /\ Len(t) = Len(s) + 1 /\ t[Len(t)] = m
        /\ \A i \in 1 .. Len(s) : t[i] = s[i]
    BY SMT
  <2>2. Appended(s, m) = IF Len(t) > KeepLast THEN SubSeq(t, k, Len(t)) ELSE t
    BY <1>2, InRange DEF Appended
  <2> HIDE DEF t
  <2>3. /\ Len(s) \in Nat /\ Len(t) \in 1 .. Len(t)
        /\ DOMAIN t = 1 .. Len(t) /\ DOMAIN s = 1 .. Len(s)
    BY <2>1, SMT
  <2>4. Injective(t)
    <3> SUFFICES ASSUME NEW i \in 1 .. Len(t), NEW j \in 1 .. Len(t), t[i] = t[j], i < j
                 PROVE  FALSE
      BY <2>3, SMT DEF Injective
    <3>1. i \in 1 .. Len(s) /\ t[i] = s[i]
      BY <2>1, <2>3, SMT
    <3>2. CASE j = Len(t)
      BY <1>2, <2>1, <3>1, <3>2, InRange
    <3>3. CASE j # Len(t)
      <4>1. j \in 1 .. Len(s) /\ t[j] = s[j]
        BY <2>1, <2>3, <3>3, SMT
      <4>2. DOMAIN s = 1 .. Len(s) /\ s[i] = s[j]
        BY <2>3, <3>1, <4>1
      <4>3. i = j
        BY <3>1, <4>1, <4>2 DEF Injective
      <4> QED BY <4>3, SMT
    <3> QED BY <3>2, <3>3
  <2>5. ToSet(t) \subseteq ToSet(s) \union {m}
    <3> SUFFICES ASSUME NEW i \in 1 .. Len(t)
                 PROVE  t[i] \in ToSet(s) \union {m}
      BY <2>1, InRange
    <3>1. i = Len(t) \/ i \in 1 .. Len(s)
      BY <2>1, <2>3, SMT
    <3> QED BY <2>1, <3>1, InRange
  <2>6. m \in ToSet(t)
    BY <2>1, <2>3, InRange
  <2>7. CASE Len(t) > KeepLast
    <3>1. k \in 1 .. Len(t) + 1 /\ k <= Len(t) /\ Len(t) - k + 1 = KeepLast
      BY <2>3, <2>7, Bounds, SMT
    <3> DEFINE u == SubSeq(t, k, Len(t))
    <3> HIDE DEF k
    <3>2. u \in Seq(Msgs) /\ Suffix(u, t, k)
      BY <2>1, <3>1, SubSeqIsSuffix
    <3>3. Appended(s, m) = u
      BY <2>2, <2>7
    <3> HIDE DEF u
    <3>4. Len(u) = KeepLast
      BY <3>1, <3>2 DEF Suffix
    <3>5. Injective(u) /\ ToSet(u) \subseteq ToSet(t)
      BY <2>1, <2>4, <3>2, SuffixIs
    <3>6. m \in ToSet(u)
      <4> SUFFICES ASSUME m \notin ToSet(u) PROVE FALSE
        OBVIOUS
      <4>1. PICK i \in 1 .. Len(t) : i < k /\ t[i] = m
        BY <2>1, <2>6, <3>2, SuffixIs
      <4>2. i = Len(t)
        BY <2>1, <2>3, <2>4, <4>1 DEF Injective
      <4> QED BY <3>1, <2>3, <4>1, <4>2, SMT
    <3>7. ToSet(u) \subseteq ToSet(s) \union {m}
      BY <2>5, <3>5
    <3>8. Len(u) <= KeepLast
      BY <3>4, Bounds, SMT
    <3> QED BY <3>2, <3>3, <3>5, <3>6, <3>7, <3>8
  <2>8. CASE ~(Len(t) > KeepLast)
    <3>1. Appended(s, m) = t
      BY <2>2, <2>8
    <3>2. Len(t) <= KeepLast
      BY <2>3, <2>8, Bounds, SMT
    <3> QED BY <2>1, <2>4, <2>5, <2>6, <3>1, <3>2
  <2> QED BY <2>7, <2>8
<1> QED BY <1>1, <1>2

\* prune_group_chat_raw_memory_before_v1 takes only messages off the row that
\* were sent before the boundary.
LEMMA PrunedIs ==
  ASSUME TypeOK, NEW s \in Seq(Msgs), Injective(s), NEW t \in Nat
  PROVE  /\ Pruned(s, t) \in Seq(Msgs) /\ Len(Pruned(s, t)) <= Len(s)
         /\ Injective(Pruned(s, t)) /\ ToSet(Pruned(s, t)) \subseteq ToSet(s)
         /\ \A m \in ToSet(s) \ ToSet(Pruned(s, t)) : sent[m] < t
<1> DEFINE kept == {i \in DOMAIN s : sent[s[i]] >= t}
           from == IF kept = {} THEN Len(s) - KeepTail + 1
                   ELSE (CHOOSE i \in kept : \A j \in kept : i <= j) - KeepTail
           k == IF from > 1 THEN from ELSE 1
           u == SubSeq(s, k, Len(s))
<1>1. Pruned(s, t) = u
  BY DEF Pruned
<1>2. /\ DOMAIN s = 1 .. Len(s) /\ Len(s) \in Nat
      /\ \A i \in 1 .. Len(s) : s[i] \in Msgs
  BY SMT
<1>3. k \in 1 .. Len(s) + 1 /\ \A i \in 1 .. Len(s) : i < k => i \notin kept
  <2>1. CASE kept = {}
    <3>1. from = Len(s) - KeepTail + 1
      BY <2>1
    <3> HIDE DEF from, kept
    <3> QED BY <1>2, <2>1, <3>1, Bounds, SMT
  <2>2. CASE kept # {}
    <3> DEFINE first == CHOOSE i \in kept : \A j \in kept : i <= j
    <3>1. kept \in SUBSET Nat /\ kept \subseteq 1 .. Len(s)
      BY <1>2, SMT
    <3>2. from = first - KeepTail
      BY <2>2
    <3> HIDE DEF from, kept
    <3>3. first \in kept /\ \A j \in kept : first <= j
      BY <2>2, <3>1, LeastNumber
    <3> HIDE DEF first
    <3>4. first \in 1 .. Len(s)
      BY <3>1, <3>3
    <3>5. k \in 1 .. Len(s) + 1 /\ k <= first
      BY <1>2, <3>2, <3>4, Bounds, SMT
    <3> HIDE DEF k
    <3> QED BY <1>2, <3>1, <3>3, <3>4, <3>5, SMT
  <2> QED BY <2>1, <2>2
<1> HIDE DEF k
<1>4. u \in Seq(Msgs) /\ Suffix(u, s, k)
  BY <1>3, SubSeqIsSuffix
<1> HIDE DEF u
<1>5. Injective(u) /\ ToSet(u) \subseteq ToSet(s)
  BY <1>4, SuffixIs
<1>6. Len(u) <= Len(s)
  BY <1>2, <1>3, <1>4, SMT DEF Suffix
<1>7. ASSUME NEW m \in ToSet(s) \ ToSet(u)
      PROVE  sent[m] < t
  <2>1. PICK i \in 1 .. Len(s) : i < k /\ s[i] = m
    BY <1>4, <1>7, SuffixIs
  <2>2. i \in DOMAIN s /\ i \notin kept
    BY <1>2, <1>3, <2>1
  <2>3. ~(sent[m] >= t)
    BY <2>1, <2>2
  <2>4. m \in Msgs /\ sent \in [Msgs -> 0 .. Horizon]
    BY <1>2, <2>1, Zenon DEF TypeOK
  <2> QED BY <2>3, <2>4, SMT
<1> QED BY <1>1, <1>4, <1>5, <1>6, <1>7

\* What is read is in the order of sending, and a message of the raw row that
\* is not read has at least ReadLimit later ones.
LEMMA ReadsAre ==
  ASSUME TypeOK, Injective(raw), NEW s \in Reads
  PROVE  /\ s \in Seq(Msgs) /\ ToSet(s) \subseteq ToSet(raw)
         /\ \A i, j \in DOMAIN s : i < j => sent[s[i]] <= sent[s[j]]
         /\ \A m \in ToSet(raw) \ ToSet(s) :
              Cardinality({n \in ToSet(raw) : Before(m, n)}) >= ReadLimit
<1> DEFINE n == IF Len(raw) > ReadLimit THEN ReadLimit ELSE Len(raw)
<1>1. s \in [1 .. n -> ToSet(raw)] /\ Recent(s)
  BY Zenon DEF Reads
<1>2. /\ raw \in Seq(Msgs) /\ DOMAIN raw = 1 .. Len(raw) /\ Len(raw) \in Nat
      /\ raw \in [1 .. Len(raw) -> ToSet(raw)]
  <2>1. raw \in Seq(Msgs) /\ DOMAIN raw = 1 .. Len(raw) /\ Len(raw) \in Nat
    BY SMT DEF TypeOK
  <2>2. raw = [i \in 1 .. Len(raw) |-> raw[i]]
    BY <2>1, SMT
  <2>3. \A i \in 1 .. Len(raw) : raw[i] \in ToSet(raw)
    BY <2>1, InRange
  <2> QED BY <2>1, <2>2, <2>3, Zenon
<1>3. n \in Nat
  BY <1>2, Bounds, SMT
<1>n. (n = ReadLimit) \/ (n = Len(raw))
  OBVIOUS
<1> HIDE DEF n
<1>4. ToSet(raw) \subseteq Msgs
  BY <1>2, InRange
<1>5. s \in Seq(Msgs) /\ DOMAIN s = 1 .. n
  <2>1. s \in [1 .. n -> Msgs]
    BY <1>1, <1>4
  <2> QED BY <1>3, <2>1, SMT
<1>6. ToSet(s) = {s[i] : i \in 1 .. n} /\ ToSet(s) \subseteq ToSet(raw)
  BY <1>1, <1>5, Zenon DEF ToSet
<1>7. \A x \in Msgs : sent[x] \in 0 .. Horizon
  BY Zenon DEF TypeOK
<1>8. \A x \in Msgs : ~Before(x, x)
  <2> SUFFICES ASSUME NEW x \in Msgs, Before(x, x) PROVE FALSE
    OBVIOUS
  <2>1. Precedes(raw, x, x)
    BY <1>7, SMT DEF Before
  <2>2. PICK i \in DOMAIN raw, j \in DOMAIN raw : i < j /\ raw[i] = x /\ raw[j] = x
    BY <2>1 DEF Precedes
  <2>3. i = j
    BY <2>2 DEF Injective
  <2> QED BY <1>2, <2>2, <2>3, SMT
<1>9. \A i, j \in 1 .. n : i < j => Before(s[i], s[j])
  BY <1>1, <1>5 DEF Recent
<1>10. \A i \in 1 .. n : s[i] \in Msgs
  BY <1>1, <1>4
<1>11. \A i, j \in 1 .. n : s[i] = s[j] => i = j
  <2> SUFFICES ASSUME NEW i \in 1 .. n, NEW j \in 1 .. n, s[i] = s[j], i < j PROVE FALSE
    BY <1>3, SMT
  <2> QED BY <1>8, <1>9, <1>10
<1>12. IsFiniteSet(1 .. n) /\ Cardinality(1 .. n) = n
  BY <1>3, FS_Interval, SMT
<1>13. IsFiniteSet(ToSet(s)) /\ Cardinality(ToSet(s)) = n
  <2>1. s \in [1 .. n -> ToSet(s)]
    BY <1>1, <1>6
  <2>2. s \in Surjection(1 .. n, ToSet(s))
    BY <1>6, <2>1, Fun_IsSurj
  <2>3. s \in Injection(1 .. n, ToSet(s))
    BY <1>11, <2>1, Fun_IsInj
  <2> QED BY <1>12, <2>2, <2>3, FS_Surjection
<1>14. IsFiniteSet(ToSet(raw)) /\ Cardinality(ToSet(raw)) <= Len(raw)
  <2>1. IsFiniteSet(1 .. Len(raw)) /\ Cardinality(1 .. Len(raw)) = Len(raw)
    BY <1>2, FS_Interval, SMT
  <2>2. \A x \in ToSet(raw) : \E i \in 1 .. Len(raw) : raw[i] = x
    BY <1>2, InRange
  <2>3. raw \in Surjection(1 .. Len(raw), ToSet(raw))
    BY <1>2, <2>2, Fun_IsSurj
  <2> QED BY <2>1, <2>3, FS_Surjection
<1>15. ASSUME NEW m \in ToSet(raw) \ ToSet(s)
       PROVE  Cardinality({x \in ToSet(raw) : Before(m, x)}) >= ReadLimit
  <2> DEFINE later == {x \in ToSet(raw) : Before(m, x)}
  <2>1. ToSet(s) \subseteq later
    BY <1>1, <1>5, <1>6 DEF Recent
  <2>2. m \in ToSet(raw) /\ m \notin later /\ later \in SUBSET ToSet(raw)
    BY <1>4, <1>8
  <2> HIDE DEF later
  <2>3. /\ IsFiniteSet(later) /\ Cardinality(later) <= Cardinality(ToSet(raw))
        /\ Cardinality(later) # Cardinality(ToSet(raw))
    BY <1>14, <2>2, FS_Subset
  <2>4. n <= Cardinality(later)
    BY <1>13, <2>1, <2>3, FS_Subset
  <2>5. Cardinality(later) \in Nat /\ Cardinality(ToSet(raw)) \in Nat
    BY <1>14, <2>3, FS_CardinalityType
  <2>6. n # Len(raw)
    <3> DEFINE a == Cardinality(later)
               b == Cardinality(ToSet(raw))
               c == Len(raw)
    <3>1. a \in Nat /\ b \in Nat /\ c \in Nat /\ n <= a /\ a <= b /\ a # b /\ b <= c
      BY <1>2, <1>14, <2>3, <2>4, <2>5
    <3> HIDE DEF a, b, c
    <3>2. n # c
      BY <1>3, <3>1, SMT
    <3> QED BY <3>2 DEF c
  <2>7. ReadLimit <= Cardinality(later)
    BY <1>n, <2>4, <2>6
  <2> QED BY <2>5, <2>7, Bounds, SMT DEF later
<1>16. \A i, j \in 1 .. n : i < j => sent[s[i]] <= sent[s[j]]
  <2> SUFFICES ASSUME NEW i \in 1 .. n, NEW j \in 1 .. n, i < j
               PROVE  sent[s[i]] <= sent[s[j]]
    OBVIOUS
  <2>1. sent[s[i]] < sent[s[j]] \/ sent[s[i]] = sent[s[j]]
    BY <1>9 DEF Before
  <2> QED BY <1>7, <1>10, <2>1, SMT
<1> QED BY <1>5, <1>6, <1>15, <1>16
------------------------------------------------------------------------------
(* What a worker has at hand after a step of its own. *)

\* Worker w has this at hand afterwards, and the others what they had.
Becomes(w, pc, id, due, read, lines) ==
  /\ work' \in [Workers -> WorkRecords]
  /\ work'[w].pc = pc /\ work'[w].id = id /\ work'[w].due = due
  /\ work'[w].read = read /\ work'[w].lines = lines
  /\ \A v \in Workers : v # w => work'[v] = work[v]

LEMMA WorkTypes ==
  ASSUME TypeOK
  PROVE  /\ work \in [Workers -> WorkRecords]
         /\ \A w \in Workers : work[w] \in WorkRecords
BY Zenon DEF TypeOK, WorkRecords

LEMMA WorkSet ==
  ASSUME TypeOK, NEW w \in Workers, NEW l \in WorkRecords,
         work' = [work EXCEPT ![w] = l]
  PROVE  Becomes(w, l.pc, l.id, l.due, l.read, l.lines)
<1>1. work \in [Workers -> WorkRecords]
  BY WorkTypes
<1>2. /\ work' \in [Workers -> WorkRecords] /\ work'[w] = l
      /\ \A v \in Workers : v # w => work'[v] = work[v]
  BY <1>1, Zenon
<1> QED BY <1>2 DEF Becomes

LEMMA GotoIs ==
  ASSUME TypeOK, NEW w \in Workers, NEW pc \in Pcs, Goto(w, pc)
  PROVE  Becomes(w, pc, work[w].id, work[w].due, work[w].read, work[w].lines)
<1> DEFINE l == [work[w] EXCEPT !.pc = pc]
<1>1. work[w] \in WorkRecords
  BY WorkTypes
<1>2. /\ l \in WorkRecords /\ l.pc = pc /\ l.id = work[w].id /\ l.due = work[w].due
      /\ l.read = work[w].read /\ l.lines = work[w].lines
  BY <1>1, SMT DEF WorkRecords
<1>3. work' = [work EXCEPT ![w] = l]
  BY DEF Goto
<1> HIDE DEF l
<1>4. Becomes(w, l.pc, l.id, l.due, l.read, l.lines)
  BY <1>2, <1>3, WorkSet
<1> QED BY <1>2, <1>4

LEMMA ProceedIs ==
  ASSUME TypeOK, NEW w \in Workers, NEW pc \in Pcs, NEW lines \in SUBSET Msgs,
         work' = [work EXCEPT ![w].pc = pc, ![w].read = <<>>, ![w].lines = lines]
  PROVE  Becomes(w, pc, work[w].id, work[w].due, <<>>, lines)
<1> DEFINE l == [work[w] EXCEPT !.pc = pc, !.read = <<>>, !.lines = lines]
<1>1. work[w] \in WorkRecords
  BY WorkTypes
<1>2. <<>> \in Seq(Msgs)
  BY SMT
<1>a. l \in WorkRecords
  BY <1>1, <1>2, Zenon DEF WorkRecords
<1>b. /\ l.pc = pc /\ l.id = work[w].id /\ l.due = work[w].due
      /\ l.read = <<>> /\ l.lines = lines
  BY <1>1, SMT DEF WorkRecords
<1>3. /\ l \in WorkRecords /\ l.pc = pc /\ l.id = work[w].id /\ l.due = work[w].due
      /\ l.read = <<>> /\ l.lines = lines
  BY <1>a, <1>b
<1>4. work' = [work EXCEPT ![w] = l]
  BY WorkTypes, Zenon
<1> HIDE DEF l
<1>5. Becomes(w, l.pc, l.id, l.due, l.read, l.lines)
  BY <1>3, <1>4, WorkSet
<1> QED BY <1>3, <1>5

LEMMA IdleIs ==
  ASSUME TypeOK, NEW w \in Workers, work' = [work EXCEPT ![w] = Idle]
  PROVE  Becomes(w, "idle", NoMsg, 0, <<>>, {})
<1>1. Idle \in WorkRecords
  BY Bounds, SMT DEF Idle, WorkRecords, Pcs
<1>2. /\ Idle.pc = "idle" /\ Idle.id = NoMsg /\ Idle.due = 0
      /\ Idle.read = <<>> /\ Idle.lines = {}
  BY DEF Idle
<1>3. Becomes(w, Idle.pc, Idle.id, Idle.due, Idle.read, Idle.lines)
  BY <1>1, WorkSet
<1> QED BY <1>2, <1>3

LEMMA ClaimIs ==
  ASSUME SummaryInv, NEW w \in Workers, Claim(w)
  PROVE  Becomes(w, "claimed", job.id, job.due, <<>>, {})
<1> DEFINE l == [pc |-> "claimed", id |-> job.id, due |-> job.due,
                 read |-> <<>>, lines |-> {}]
<1>1. job.id \in Ids \union {NoMsg} /\ job.due \in 0 .. Horizon
  BY RowFields, Zenon DEF SummaryInv, TypeOK
<1>2. l \in WorkRecords
  BY <1>1, SMT DEF WorkRecords, Pcs
<1>3. work' = [work EXCEPT ![w] = l]
  BY DEF Claim
<1>4. l.pc = "claimed" /\ l.id = job.id /\ l.due = job.due /\ l.read = <<>> /\ l.lines = {}
  OBVIOUS
<1> HIDE DEF l
<1>5. Becomes(w, l.pc, l.id, l.due, l.read, l.lines)
  BY <1>2, <1>3, WorkSet DEF SummaryInv
<1> QED BY <1>4, <1>5

\* list_group_chat_raw_messages: what the worker has read and what it does next.
LEMMA ReadIs ==
  ASSUME TypeOK, Injective(raw), NEW w \in Workers, NEW s \in Reads,
         NEW pc \in {"newer", "read"},
         work' = [work EXCEPT ![w] = [[work[w] EXCEPT !.read = s] EXCEPT !.pc = pc]]
  PROVE  Becomes(w, pc, work[w].id, work[w].due, s, work[w].lines)
<1> DEFINE l == [[work[w] EXCEPT !.read = s] EXCEPT !.pc = pc]
<1>1. work[w] \in WorkRecords /\ s \in Seq(Msgs)
  BY WorkTypes, ReadsAre
<1>2. pc \in Pcs
  BY DEF Pcs
<1>a. l \in WorkRecords
  BY <1>1, <1>2, Zenon DEF WorkRecords
<1>b. /\ l.pc = pc /\ l.id = work[w].id /\ l.due = work[w].due
      /\ l.read = s /\ l.lines = work[w].lines
  BY <1>1, SMT DEF WorkRecords
<1>3. /\ l \in WorkRecords /\ l.pc = pc /\ l.id = work[w].id /\ l.due = work[w].due
      /\ l.read = s /\ l.lines = work[w].lines
  BY <1>a, <1>b
<1> HIDE DEF l
<1>4. Becomes(w, l.pc, l.id, l.due, l.read, l.lines)
  BY <1>3, WorkSet DEF l
<1> QED BY <1>3, <1>4
------------------------------------------------------------------------------
(* The state keeps its type. *)

LEMMA FaultsTyped ==
  ASSUME TypeOK, Fault \/ NoFault
  PROVE  faults' \in 0 .. MaxFaults
BY Bounds, SMT DEF TypeOK, Fault, NoFault, MayFail

\* The row of the job is one the lemmas on rows speak of.
LEMMA RowIsGood ==
  ASSUME TypeOK
  PROVE  GoodRow(job, Workers, Ids) /\ job \in JobRows(Workers, Ids)
BY Zenon DEF TypeOK, GoodRow

LEMMA TypeFrom ==
  ASSUME now' \in 1 .. Horizon, sent' \in [Msgs -> 0 .. Horizon],
         raw' \in Seq(Msgs), Len(raw') <= KeepLast, GoodRow(job', Workers, Ids),
         end' \in 0 .. Horizon, segments' \in Seq([id: Ids, msgs: SUBSET Msgs]),
         work' \in [Workers -> WorkRecords], closed' \in 0 .. Horizon,
         missed' \subseteq Msgs, shared' \in BOOLEAN, faults' \in 0 .. MaxFaults
  PROVE  TypeOK'
BY Zenon DEF TypeOK, WorkRecords, GoodRow

\* The parts of the type, one by one.
LEMMA TypeSays ==
  ASSUME TypeOK
  PROVE  /\ now \in 1 .. Horizon /\ sent \in [Msgs -> 0 .. Horizon]
         /\ raw \in Seq(Msgs) /\ Len(raw) <= KeepLast
         /\ end \in 0 .. Horizon /\ segments \in Seq([id: Ids, msgs: SUBSET Msgs])
         /\ work \in [Workers -> WorkRecords] /\ closed \in 0 .. Horizon
         /\ missed \subseteq Msgs /\ shared \in BOOLEAN /\ faults \in 0 .. MaxFaults
BY Zenon DEF TypeOK, WorkRecords

\* The same of the next state.
LEMMA TypeSaysNext ==
  ASSUME TypeOK'
  PROVE  /\ now' \in 1 .. Horizon /\ sent' \in [Msgs -> 0 .. Horizon]
         /\ raw' \in Seq(Msgs) /\ Len(raw') <= KeepLast
         /\ end' \in 0 .. Horizon /\ segments' \in Seq([id: Ids, msgs: SUBSET Msgs])
         /\ work' \in [Workers -> WorkRecords] /\ closed' \in 0 .. Horizon
         /\ missed' \subseteq Msgs /\ shared' \in BOOLEAN /\ faults' \in 0 .. MaxFaults
BY Zenon DEF TypeOK, WorkRecords

\* The raw row repeats nothing.
LEMMA RawIs ==
  ASSUME SummaryInv
  PROVE  /\ TypeOK /\ Injective(raw) /\ raw \in Seq(Msgs) /\ Len(raw) <= KeepLast
         /\ ToSet(raw) \subseteq Recorded
BY TypeSays, Zenon DEF SummaryInv, RawInv, Injective

\* Evicted messages are messages.
LEMMA EvictedTyped ==
  ASSUME TypeOK
  PROVE  Evicted \subseteq Msgs
<1>1. raw \in Seq(Msgs)
  BY TypeSays
<1> QED BY <1>1, InRange DEF Evicted

\* A message may be scheduled by when the window after it ends in time.
LEMMA ScheduledTyped ==
  ASSUME SummaryInv, NEW m \in Recorded, m \in UserMsgs
  PROVE  GoodRow(Scheduled(job, sent[m], m), Workers, Ids)
<1>1. sent[m] \in 0 .. Horizon /\ sent[m] + Window <= Horizon
  BY TypeSays DEF SummaryInv, TimesInv, Recorded
<1> QED BY <1>1, RowIsGood, ScheduledSays DEF SummaryInv, Ids

LEMMA SendTimeIs ==
  ASSUME SummaryInv, NEW t \in SendTimes
  PROVE  t \in 1 .. Horizon /\ t + Window <= Horizon /\ t <= now
<1>1. now \in 1 .. Horizon
  BY TypeSays DEF SummaryInv
<1>2. t \in 1 .. now /\ t <= Horizon - Window
  BY Zenon DEF SendTimes, Latest
<1> QED BY <1>1, <1>2, Bounds, SMT

LEMMA RecordTyped ==
  ASSUME SummaryInv, RecordInbound \/ RecordAgain \/ RecordOutbound
  PROVE  TypeOK'
<1> USE TypeSays, RawIs
<1>1. CASE RecordInbound
  <2>1. PICK m \in Unrecorded(UserMsgs), t \in SendTimes :
               /\ sent' = [sent EXCEPT ![m] = t]
               /\ raw' = Appended(raw, m)
               /\ job' = Scheduled(job, t, m)
               /\ missed' = missed \union Evicted \union (IF t < closed THEN {m} ELSE {})
               /\ UNCHANGED <<now, end, segments, work, closed, shared, faults>>
    BY <1>1, Zenon DEF RecordInbound
  <2>2. m \in UserMsgs /\ m \in Msgs
    BY Bounds, Zenon DEF Unrecorded
  <2>3. t \in 1 .. Horizon /\ t \in 0 .. Horizon /\ t + Window <= Horizon
    BY SendTimeIs, Bounds, SMT
  <2>4. sent' \in [Msgs -> 0 .. Horizon]
    BY <2>1, <2>3, Zenon
  <2>5. GoodRow(job', Workers, Ids)
    BY <2>1, <2>2, <2>3, RowIsGood, ScheduledSays DEF Ids
  <2>6. raw' \in Seq(Msgs) /\ Len(raw') <= KeepLast
    BY <2>1, <2>2, AppendedIs
  <2>7. missed' \subseteq Msgs
    BY <2>1, <2>2, EvictedTyped
  <2> QED BY <2>1, <2>4, <2>5, <2>6, <2>7, TypeFrom
<1>2. CASE RecordAgain
  <2>1. PICK m \in UserMsgs :
               /\ sent[m] # 0 /\ Fault
               /\ raw' = Appended(raw, m)
               /\ job' = Scheduled(job, sent[m], m)
               /\ missed' = missed \union Evicted
               /\ UNCHANGED <<now, sent, end, segments, work, closed, shared>>
    BY <1>2, Zenon DEF RecordAgain
  <2>2. m \in Msgs /\ m \in Recorded
    BY <2>1, Bounds DEF Recorded
  <2>3. GoodRow(job', Workers, Ids)
    BY <2>1, <2>2, ScheduledTyped
  <2>4. raw' \in Seq(Msgs) /\ Len(raw') <= KeepLast
    BY <2>1, <2>2, AppendedIs
  <2>5. missed' \subseteq Msgs
    BY <2>1, EvictedTyped
  <2>6. faults' \in 0 .. MaxFaults
    BY <2>1, FaultsTyped
  <2> QED BY <2>1, <2>3, <2>4, <2>5, <2>6, TypeFrom
<1>3. CASE RecordOutbound
  <2>1. PICK m \in Unrecorded(OwnMsgs) :
               /\ now <= Latest
               /\ sent' = [sent EXCEPT ![m] = now]
               /\ raw' = Appended(raw, m)
               /\ missed' = missed \union Evicted
               /\ UNCHANGED <<now, job, end, segments, work, closed, shared, faults>>
    BY <1>3, Zenon DEF RecordOutbound
  <2>2. m \in Msgs
    BY Zenon DEF Unrecorded, Msgs
  <2>3. sent' \in [Msgs -> 0 .. Horizon]
    <3>1. now \in 0 .. Horizon
      BY Bounds, SMT
    <3> QED BY <2>1, <3>1, Zenon
  <2>4. raw' \in Seq(Msgs) /\ Len(raw') <= KeepLast
    BY <2>1, <2>2, AppendedIs
  <2>5. missed' \subseteq Msgs
    BY <2>1, EvictedTyped
  <2> QED BY <2>1, <2>3, <2>4, <2>5, RowIsGood, TypeFrom
<1> QED BY <1>1, <1>2, <1>3

LEMMA JobStepTyped ==
  ASSUME SummaryInv, NEW w \in Workers,
         Claim(w) \/ PutOff(w) \/ Release(w) \/ Complete(w) \/ Fail(w)
  PROVE  TypeOK'
<1> USE TypeSays, RawIs
<1>0. GoodRow(job, Workers, Ids) /\ Nobody \notin Workers
  BY RowIsGood, Bounds
<1>1. CASE Claim(w)
  <2>1. work' \in [Workers -> WorkRecords]
    BY <1>1, ClaimIs DEF Becomes
  <2>2. GoodRow(job', Workers, Ids)
    BY <1>0, <1>1, ClaimedSays DEF Claim, GoodRow
  <2>3. faults' \in 0 .. MaxFaults /\ shared' \in BOOLEAN
    BY <1>1, FaultsTyped DEF Claim, Held
  <2>4. UNCHANGED <<now, sent, raw, end, segments, closed, missed>>
    BY <1>1 DEF Claim
  <2> QED BY <2>1, <2>2, <2>3, <2>4, TypeFrom
<1>2. CASE PutOff(w)
  <2>1. work' \in [Workers -> WorkRecords]
    <3>1. Becomes(w, "release", work[w].id, work[w].due, <<>>, {})
      BY <1>2, ProceedIs DEF PutOff, Proceed, Pcs
    <3> QED BY <3>1 DEF Becomes
  <2>2. GoodRow(job', Workers, Ids)
    <3>1. CASE UNCHANGED job
      BY <1>0, <3>1
    <3>2. CASE \E m \in Newest(work[w]) : job' = Scheduled(job, sent[m], m)
      <4>1. PICK m \in Newest(work[w]) : job' = Scheduled(job, sent[m], m)
        BY <3>2
      <4>2. m \in ToSet(work[w].read) /\ m \in UserMsgs
        BY DEF Newest, ReadUsers
      <4>3. m \in Recorded
        BY <4>2 DEF SummaryInv, WorkInv, Fine
      <4> QED BY <4>1, <4>2, <4>3, ScheduledTyped
    <3> QED BY <1>2, <3>1, <3>2 DEF PutOff
  <2>3. faults' \in 0 .. MaxFaults
    BY <1>2, FaultsTyped DEF PutOff
  <2>4. UNCHANGED <<now, sent, raw, end, segments, closed, missed, shared>>
    BY <1>2 DEF PutOff
  <2> QED BY <2>1, <2>2, <2>3, <2>4, TypeFrom
<1>3. CASE Release(w) \/ Complete(w) \/ Fail(w)
  <2>1. work' \in [Workers -> WorkRecords]
    <3>1. Becomes(w, "idle", NoMsg, 0, <<>>, {})
      BY <1>3, IdleIs DEF Release, Complete, Fail
    <3> QED BY <3>1 DEF Becomes
  <2>2. now \in Nat
    BY SMT
  <2>3. GoodRow(job', Workers, Ids)
    <3>1. job' \in {job, Released(job, w), Completed(job, w, work[w].id),
                    Failed(job, w, work[w].id, now)}
      BY <1>3 DEF Release, Complete, Fail
    <3>2. /\ GivenBackBy(Released(job, w), job, w, Workers, Ids)
          /\ GivenBackBy(Completed(job, w, work[w].id), job, w, Workers, Ids)
          /\ GivenBackBy(Failed(job, w, work[w].id, now), job, w, Workers, Ids)
      BY <1>0, <2>2, GivenBack, GivenUp
    <3> QED BY <1>0, <3>1, <3>2 DEF GivenBackBy
  <2>4. faults' \in 0 .. MaxFaults
    BY <1>3, FaultsTyped DEF Release, Complete, Fail
  <2>5. UNCHANGED <<now, sent, raw, end, segments, closed, missed, shared>>
    BY <1>3 DEF Release, Complete, Fail
  <2> QED BY <2>1, <2>3, <2>4, <2>5, TypeFrom
<1> QED BY <1>1, <1>2, <1>3

\* A read ends with what was read and no newer message, with a newer one, or
\* with nothing.
LEMMA ReadCases ==
  ASSUME SummaryInv, NEW w \in Workers, Read(w)
  PROVE  /\ work[w].pc = "claimed" /\ UNCHANGED <<now, sent, raw, job, end, segments, shared>>
         /\ faults' \in 0 .. MaxFaults
         /\ \/ \E s \in Reads :
                 LET l == [work[w] EXCEPT !.read = s] IN
                 /\ ~HasNewer(l)
                 /\ Becomes(w, "read", work[w].id, work[w].due, s, work[w].lines)
                 /\ closed' = IF work[w].due > closed THEN work[w].due ELSE closed
                 /\ missed' = missed \union OutOfReach(work[w].due)
            \/ \E s \in Reads :
                 /\ Becomes(w, "newer", work[w].id, work[w].due, s, work[w].lines)
                 /\ UNCHANGED <<closed, missed>>
            \/ /\ Becomes(w, "failing", work[w].id, work[w].due, work[w].read, work[w].lines)
               /\ UNCHANGED <<closed, missed>>
<1> USE TypeSays, RawIs
<1>1. work[w].pc = "claimed" /\ UNCHANGED <<now, sent, raw, job, end, segments, shared>>
  BY DEF Read, store
<1>2. faults' \in 0 .. MaxFaults
  BY FaultsTyped DEF Read
<1>3. CASE Goto(w, "failing") /\ UNCHANGED <<closed, missed>>
  <2>1. "failing" \in Pcs
    BY DEF Pcs
  <2>2. Becomes(w, "failing", work[w].id, work[w].due, work[w].read, work[w].lines)
    BY <1>3, <2>1, GotoIs
  <2> QED BY <1>1, <1>2, <1>3, <2>2
<1>4. CASE ~(Goto(w, "failing") /\ UNCHANGED <<closed, missed>>)
  <2>1. PICK s \in Reads :
          LET l == [work[w] EXCEPT !.read = s] IN
          /\ work'   = [work EXCEPT ![w] = [l EXCEPT !.pc = IF HasNewer(l) THEN "newer" ELSE "read"]]
          /\ closed' = IF ~HasNewer(l) /\ l.due > closed THEN l.due ELSE closed
          /\ missed' = IF HasNewer(l) THEN missed ELSE missed \union OutOfReach(l.due)
    BY <1>4, Zenon DEF Read
  <2> DEFINE l == [work[w] EXCEPT !.read = s]
  <2>2. l.due = work[w].due
    BY WorkTypes, SMT DEF WorkRecords
  <2>3. CASE HasNewer(l)
    <3>1. work' = [work EXCEPT ![w] = [l EXCEPT !.pc = "newer"]]
      BY <2>1, <2>3
    <3>2. Becomes(w, "newer", work[w].id, work[w].due, s, work[w].lines)
      BY <3>1, ReadIs
    <3>3. UNCHANGED <<closed, missed>>
      BY <2>1, <2>3
    <3> QED BY <1>1, <1>2, <3>2, <3>3
  <2>4. CASE ~HasNewer(l)
    <3>1. work' = [work EXCEPT ![w] = [l EXCEPT !.pc = "read"]]
      BY <2>1, <2>4
    <3>2. Becomes(w, "read", work[w].id, work[w].due, s, work[w].lines)
      BY <3>1, ReadIs
    <3>3. /\ closed' = IF work[w].due > closed THEN work[w].due ELSE closed
          /\ missed' = missed \union OutOfReach(work[w].due)
      BY <2>1, <2>2, <2>4
    <3> QED BY <1>1, <1>2, <2>4, <3>2, <3>3
  <2> QED BY <2>3, <2>4
<1> QED BY <1>3, <1>4

\* get_group_chat_summary_memory ends with the lines for the model, with an
\* anchor that is stored, or with a failure.
LEMMA ReadMemoryCases ==
  ASSUME SummaryInv, NEW w \in Workers, ReadMemory(w)
  PROVE  /\ work[w].pc = "read"
         /\ UNCHANGED <<now, sent, raw, job, end, segments, closed, missed>>
         /\ faults' \in 0 .. MaxFaults /\ shared' \in BOOLEAN /\ (shared => shared')
         /\ \/ \E from \in {0, end}, lines \in SUBSET Msgs :
                 /\ from = end \/ shared'
                 /\ lines \subseteq InSegment(work[w], from)
                 /\ IsTranscript(lines, InSegment(work[w], from), work[w].read)
                 /\ Becomes(w, "asking", work[w].id, work[w].due, <<>>, lines)
            \/ /\ work[w].id \in StoredIds
               /\ Becomes(w, "complete", work[w].id, work[w].due, <<>>, {})
            \/ Becomes(w, "failing", work[w].id, work[w].due, <<>>, {})
<1> USE TypeSays, RawIs
<1>1. /\ work[w].pc = "read"
      /\ UNCHANGED <<now, sent, raw, job, end, segments, closed, missed>>
  BY DEF ReadMemory, store
<1>2. PICK blind \in BOOLEAN :
       LET l      == work[w]
           from   == IF blind THEN 0 ELSE end
           window == InSegment(l, from)
           pc     == IF ~blind /\ l.id \in StoredIds THEN "complete"
                     ELSE IF l.id \in window THEN "asking" ELSE "failing"
       IN  /\ IF blind THEN Fault ELSE NoFault
           /\ shared' = (shared \/ blind)
           /\ IF pc = "asking"
              THEN \E lines \in SUBSET window :
                     /\ IsTranscript(lines, window, l.read)
                     /\ work' = [work EXCEPT ![w].pc = pc, ![w].read = <<>>, ![w].lines = lines]
              ELSE Proceed(w, pc)
  BY Zenon DEF ReadMemory
<1> DEFINE from   == IF blind THEN 0 ELSE end
           window == InSegment(work[w], from)
           pc     == IF ~blind /\ work[w].id \in StoredIds THEN "complete"
                     ELSE IF work[w].id \in window THEN "asking" ELSE "failing"
<1>3. /\ faults' \in 0 .. MaxFaults /\ shared' \in BOOLEAN /\ (shared => shared')
      /\ blind => shared'
  BY <1>2, FaultsTyped
<1>4. from \in {0, end} /\ (from = end \/ shared')
  BY <1>3
<1>5. CASE pc = "asking"
  <2>1. PICK lines \in SUBSET window :
          /\ IsTranscript(lines, window, work[w].read)
          /\ work' = [work EXCEPT ![w].pc = "asking", ![w].read = <<>>, ![w].lines = lines]
    BY <1>2, <1>5, Zenon
  <2>2. window \subseteq Msgs
    <3>1. work[w].read \in Seq(Msgs)
      BY WorkTypes, WorkFields
    <3> QED BY <3>1, InRange DEF InSegment
  <2>3. lines \in SUBSET Msgs
    BY <2>2
  <2>4. Becomes(w, "asking", work[w].id, work[w].due, <<>>, lines)
    BY <2>1, <2>3, ProceedIs DEF Pcs
  <2> HIDE DEF from, pc
  <2> QED BY <1>1, <1>3, <1>4, <2>1, <2>3, <2>4
<1>6. CASE pc # "asking"
  <2>1. Proceed(w, pc) /\ pc \in {"complete", "failing"}
    BY <1>2, <1>6
  <2>2. pc \in Pcs
    BY <2>1 DEF Pcs
  <2>3. pc = "complete" => work[w].id \in StoredIds
    OBVIOUS
  <2> HIDE DEF pc
  <2>4. Becomes(w, pc, work[w].id, work[w].due, <<>>, {})
    BY <2>1, <2>2, ProceedIs DEF Proceed
  <2> QED BY <1>1, <1>3, <2>1, <2>3, <2>4
<1> QED BY <1>5, <1>6

\* The append stores the segment once, and whether the worker hears of it or
\* not, the end has moved to the due time; or nothing happens.
LEMMA StoreCases ==
  ASSUME SummaryInv, NEW w \in Workers, Store(w)
  PROVE  /\ work[w].pc = "asking"
         /\ UNCHANGED <<now, sent, raw, job, closed, missed, shared>>
         /\ faults' \in 0 .. MaxFaults
         /\ \/ /\ segments' = IF work[w].id \in StoredIds THEN segments
                              ELSE Append(segments, [id |-> work[w].id, msgs |-> work[w].lines])
               /\ end' = IF work[w].due > end THEN work[w].due ELSE end
               /\ \E pc \in {"stored", "failing"} :
                    Becomes(w, pc, work[w].id, work[w].due, <<>>, {})
            \/ /\ UNCHANGED <<segments, end>>
               /\ Becomes(w, "failing", work[w].id, work[w].due, <<>>, {})
<1>1. /\ work[w].pc = "asking"
      /\ UNCHANGED <<now, sent, raw, job, closed, missed, shared>>
  BY DEF Store
<1>2. faults' \in 0 .. MaxFaults
  BY FaultsTyped, RawIs DEF Store
<1>3. ASSUME NEW pc \in {"stored", "failing"}, Proceed(w, pc)
      PROVE  Becomes(w, pc, work[w].id, work[w].due, <<>>, {})
  BY <1>3, ProceedIs, RawIs DEF Proceed, Pcs
<1>4. CASE /\ segments' = IF work[w].id \in StoredIds THEN segments
                          ELSE Append(segments, [id |-> work[w].id, msgs |-> work[w].lines])
           /\ end' = IF work[w].due > end THEN work[w].due ELSE end
           /\ \E pc \in {"stored", "failing"} : Proceed(w, pc)
  BY <1>1, <1>2, <1>3, <1>4
<1>5. CASE UNCHANGED <<segments, end>> /\ Proceed(w, "failing")
  BY <1>1, <1>2, <1>3, <1>5
<1>6. \/ /\ segments' = IF work[w].id \in StoredIds THEN segments
                          ELSE Append(segments, [id |-> work[w].id, msgs |-> work[w].lines])
         /\ end' = IF work[w].due > end THEN work[w].due ELSE end
         /\ \E pc \in {"stored", "failing"} : Proceed(w, pc)
      \/ UNCHANGED <<segments, end>> /\ Proceed(w, "failing")
  BY Zenon DEF Store, SegmentEnd
<1> QED BY <1>4, <1>5, <1>6

\* A prune leaves the row or takes messages before the boundary off it.
LEMMA PruneCases ==
  ASSUME SummaryInv, NEW w \in Workers, Prune(w)
  PROVE  /\ work[w].pc = "stored" /\ faults' \in 0 .. MaxFaults
         /\ UNCHANGED <<now, sent, job, end, segments, closed, missed, shared>>
         /\ Becomes(w, "complete", work[w].id, work[w].due, work[w].read, work[w].lines)
         /\ raw' \in Seq(Msgs) /\ Len(raw') <= KeepLast
         /\ Injective(raw') /\ ToSet(raw') \subseteq ToSet(raw)
         /\ \A m \in ToSet(raw) \ ToSet(raw') : sent[m] < work[w].due
<1> USE TypeSays, RawIs
<1>1. /\ work[w].pc = "stored" /\ Goto(w, "complete")
      /\ UNCHANGED <<now, sent, job, end, segments, closed, missed, shared>>
      /\ raw' = raw \/ raw' = Pruned(raw, work[w].due)
      /\ Fault \/ NoFault
  BY DEF Prune, SegmentEnd
<1>2. faults' \in 0 .. MaxFaults
  BY <1>1, FaultsTyped
<1>3. Becomes(w, "complete", work[w].id, work[w].due, work[w].read, work[w].lines)
  BY <1>1, GotoIs DEF Pcs
<1>4. work[w].due \in Nat /\ Len(raw) \in Nat
  <2>1. work[w].due \in 0 .. Horizon
    BY WorkTypes, WorkFields
  <2> QED BY <2>1, Bounds, SMT
<1>5. /\ raw' \in Seq(Msgs) /\ Len(raw') <= Len(raw)
      /\ Injective(raw') /\ ToSet(raw') \subseteq ToSet(raw)
      /\ \A m \in ToSet(raw) \ ToSet(raw') : sent[m] < work[w].due
  <2>1. CASE raw' = raw
    <3>1. Len(raw) <= Len(raw)
      BY <1>4, SMT
    <3> QED BY <2>1, <3>1 DEF Injective
  <2>2. CASE raw' = Pruned(raw, work[w].due)
    <3> DEFINE u == Pruned(raw, work[w].due)
    <3>1. /\ u \in Seq(Msgs) /\ Len(u) <= Len(raw)
          /\ Injective(u) /\ ToSet(u) \subseteq ToSet(raw)
          /\ \A m \in ToSet(raw) \ ToSet(u) : sent[m] < work[w].due
      BY <1>4, PrunedIs
    <3> HIDE DEF u
    <3> QED BY <2>2, <3>1 DEF u
  <2> QED BY <1>1, <2>1, <2>2
<1>6. Len(raw') <= KeepLast
  BY <1>4, <1>5, Bounds, SMT
<1> QED BY <1>1, <1>2, <1>3, <1>5, <1>6

LEMMA CrashIs ==
  ASSUME SummaryInv, NEW w \in Workers, Crash(w)
  PROVE  /\ UNCHANGED <<now, sent, raw, job, end, segments, closed, missed, shared>>
         /\ Becomes(w, "idle", NoMsg, 0, <<>>, {})
         /\ faults' \in 0 .. MaxFaults
BY RawIs, IdleIs, FaultsTyped DEF Crash, store

LEMMA MemoryStepTyped ==
  ASSUME SummaryInv, NEW w \in Workers,
         Read(w) \/ ReadMemory(w) \/ Store(w) \/ Prune(w) \/ Crash(w)
  PROVE  TypeOK'
<1> USE TypeSays, RawIs, RowIsGood
<1>1. CASE Read(w)
  <2>1. /\ UNCHANGED <<now, sent, raw, job, end, segments, shared>>
        /\ faults' \in 0 .. MaxFaults /\ work' \in [Workers -> WorkRecords]
    BY <1>1, ReadCases DEF Becomes
  <2>2. closed' \in 0 .. Horizon /\ missed' \subseteq Msgs
    <3>1. work[w].due \in 0 .. Horizon
      BY WorkTypes, WorkFields
    <3>2. OutOfReach(work[w].due) \subseteq Msgs
      BY InRange DEF OutOfReach
    <3>3. CASE UNCHANGED <<closed, missed>>
      BY <3>3
    <3>4. CASE /\ closed' = IF work[w].due > closed THEN work[w].due ELSE closed
               /\ missed' = missed \union OutOfReach(work[w].due)
      BY <3>1, <3>2, <3>4
    <3> QED BY <1>1, <3>3, <3>4, ReadCases
  <2> QED BY <2>1, <2>2, TypeFrom
<1>2. CASE ReadMemory(w)
  <2>1. work' \in [Workers -> WorkRecords]
    BY <1>2, ReadMemoryCases DEF Becomes
  <2>2. /\ UNCHANGED <<now, sent, raw, job, end, segments, closed, missed>>
        /\ faults' \in 0 .. MaxFaults /\ shared' \in BOOLEAN
    BY <1>2, ReadMemoryCases
  <2> QED BY <2>1, <2>2, TypeFrom
<1>3. CASE Store(w)
  <2>1. work' \in [Workers -> WorkRecords]
    BY <1>3, StoreCases DEF Becomes
  <2>2. /\ UNCHANGED <<now, sent, raw, job, closed, missed, shared>>
        /\ faults' \in 0 .. MaxFaults
    BY <1>3, StoreCases
  <2>3. segments' \in Seq([id: Ids, msgs: SUBSET Msgs]) /\ end' \in 0 .. Horizon
    <3>1. work[w] \in WorkRecords /\ work[w].pc = "asking"
      BY <1>3, WorkTypes DEF Store
    <3>2. work[w].due \in 0 .. Horizon /\ work[w].lines \in SUBSET Msgs
      BY <3>1, WorkFields
    <3>3. work[w].id \in Ids
      BY <3>1 DEF SummaryInv, WorkInv, Fine, Written, Ids
    <3> DEFINE g == [id |-> work[w].id, msgs |-> work[w].lines]
    <3>4. g \in [id: Ids, msgs: SUBSET Msgs]
      BY <3>2, <3>3
    <3> HIDE DEF g
    <3>5. Append(segments, g) \in Seq([id: Ids, msgs: SUBSET Msgs])
      BY <3>4, SMT
    <3>6. segments' = segments \/ segments' = Append(segments, g)
      BY <1>3, StoreCases DEF g
    <3>7. end' \in 0 .. Horizon
      BY <1>3, <3>2, StoreCases
    <3> QED BY <3>5, <3>6, <3>7
  <2> QED BY <2>1, <2>2, <2>3, TypeFrom
<1>4. CASE Prune(w)
  <2>1. work' \in [Workers -> WorkRecords]
    BY <1>4, PruneCases DEF Becomes
  <2>2. /\ UNCHANGED <<now, sent, job, end, segments, closed, missed, shared>>
        /\ faults' \in 0 .. MaxFaults /\ raw' \in Seq(Msgs) /\ Len(raw') <= KeepLast
    BY <1>4, PruneCases
  <2> QED BY <2>1, <2>2, TypeFrom
<1>5. CASE Crash(w)
  <2>1. work' \in [Workers -> WorkRecords]
    BY <1>5, CrashIs DEF Becomes
  <2> QED BY <1>5, <2>1, CrashIs, TypeFrom
<1> QED BY <1>1, <1>2, <1>3, <1>4, <1>5

LEMMA TickTyped ==
  ASSUME SummaryInv, Tick
  PROVE  TypeOK'
<1>1. now' \in 1 .. Horizon
  BY TypeSays, RawIs, Bounds, SMT DEF Tick, NoLater
<1>2. GoodRow(job', Workers, Ids)
  BY RawIs, RowIsGood, AgedSays DEF Tick
<1> QED BY <1>1, <1>2, TypeSays, RawIs, TypeFrom DEF Tick

\* Every step keeps the type.
LEMMA TypesKept ==
  ASSUME SummaryInv, Next
  PROVE  TypeOK'
<1>1. CASE RecordInbound \/ RecordAgain \/ RecordOutbound
  BY <1>1, RecordTyped
<1>2. CASE Tick
  BY <1>2, TickTyped
<1>3. ASSUME NEW w \in Workers, Claim(w) \/ Step(w) \/ Crash(w)
      PROVE  TypeOK'
  BY <1>3, JobStepTyped, MemoryStepTyped DEF Step
<1> QED BY <1>1, <1>2, <1>3 DEF Next
------------------------------------------------------------------------------
(* A step accounts for more messages, never for fewer. *)

Grows ==
  /\ \A m \in Recorded : sent'[m] = sent[m]
  /\ missed \subseteq missed' /\ end <= end' /\ closed <= closed'
  /\ \A i \in DOMAIN segments : i \in DOMAIN segments' /\ segments'[i] = segments[i]
  /\ \A m \in Written' \ Written : m \in missed' \/ sent'[m] >= closed

\* A worker's step changes neither when a message was sent nor what was
\* recorded.
LEMMA SentStays ==
  ASSUME sent' = sent
  PROVE  Recorded' = Recorded /\ Written' = Written
BY DEF Recorded, Written

\* A message that is recorded for the first time changes nothing about others.
LEMMA SentOnce ==
  ASSUME TypeOK, NEW m \in Msgs, sent[m] = 0, NEW t \in 1 .. Horizon,
         sent' = [sent EXCEPT ![m] = t]
  PROVE  /\ \A n \in Recorded : sent'[n] = sent[n] /\ n \in Recorded'
         /\ sent'[m] = t /\ m \in Recorded' /\ Recorded' = Recorded \union {m}
         /\ m \in UserMsgs => m \in Written' /\ Written' = Written \union {m}
         /\ m \notin UserMsgs => Written' = Written
<1>1. sent \in [Msgs -> 0 .. Horizon] /\ UserMsgs \subseteq Msgs
  BY TypeSays, Bounds
<1>2. /\ sent'[m] = t /\ t # 0
      /\ \A n \in Msgs : n # m => sent'[n] = sent[n]
  BY <1>1, SMT
<1>3. \A n \in Recorded : n # m
  BY DEF Recorded
<1> QED BY <1>1, <1>2, <1>3 DEF Recorded, Written

LEMMA GrowsUnlessStored ==
  ASSUME SummaryInv, sent' = sent, UNCHANGED <<end, segments>>,
         missed \subseteq missed', closed <= closed'
  PROVE  Grows
<1>1. end <= end'
  BY TypeSays, RawIs, Bounds, SMT
<1> QED BY <1>1, SentStays DEF Grows

\* What stays is not less.
LEMMA EndsStay ==
  ASSUME SummaryInv
  PROVE  end <= end /\ closed <= closed
BY TypeSays, RawIs, Bounds, SMT

\* What each way of recording a message does.
LEMMA InboundIs ==
  ASSUME SummaryInv, RecordInbound
  PROVE  \E m \in UserMsgs, t \in 1 .. Horizon :
           /\ sent[m] = 0 /\ m \in Msgs /\ t + Window <= Horizon
           /\ sent' = [sent EXCEPT ![m] = t] /\ raw' = Appended(raw, m)
           /\ job' = Scheduled(job, t, m)
           /\ missed' = missed \union Evicted \union (IF t < closed THEN {m} ELSE {})
           /\ UNCHANGED <<now, end, segments, work, closed, shared, faults>>
<1>1. PICK m \in Unrecorded(UserMsgs), t \in SendTimes :
             /\ sent' = [sent EXCEPT ![m] = t]
             /\ raw' = Appended(raw, m)
             /\ job' = Scheduled(job, t, m)
             /\ missed' = missed \union Evicted \union (IF t < closed THEN {m} ELSE {})
             /\ UNCHANGED <<now, end, segments, work, closed, shared, faults>>
  BY Zenon DEF RecordInbound
<1>2. m \in UserMsgs /\ sent[m] = 0 /\ m \in Msgs
  BY Bounds, Zenon DEF Unrecorded
<1>3. t \in 1 .. Horizon /\ t + Window <= Horizon
  BY SendTimeIs
<1> QED BY <1>1, <1>2, <1>3

LEMMA OutboundIs ==
  ASSUME SummaryInv, RecordOutbound
  PROVE  \E m \in OwnMsgs, t \in 1 .. Horizon :
           /\ sent[m] = 0 /\ m \in Msgs /\ m \notin UserMsgs /\ t + Window <= Horizon
           /\ sent' = [sent EXCEPT ![m] = t] /\ raw' = Appended(raw, m)
           /\ missed' = missed \union Evicted
           /\ UNCHANGED <<now, job, end, segments, work, closed, shared, faults>>
<1>1. PICK m \in Unrecorded(OwnMsgs) :
             /\ now <= Latest
             /\ sent' = [sent EXCEPT ![m] = now]
             /\ raw' = Appended(raw, m)
             /\ missed' = missed \union Evicted
             /\ UNCHANGED <<now, job, end, segments, work, closed, shared, faults>>
  BY Zenon DEF RecordOutbound
<1>2. m \in OwnMsgs /\ sent[m] = 0 /\ m \in Msgs /\ m \notin UserMsgs
  <2>1. UserMsgs \intersect OwnMsgs = {}
    BY SummaryAssumption, Zenon DEF SummaryAssumption
  <2> QED BY <2>1, Zenon DEF Unrecorded, Msgs
<1>3. now \in 1 .. Horizon /\ now <= Horizon - Window
  BY <1>1, TypeSays, RawIs DEF Latest
<1>4. now + Window <= Horizon
  BY <1>3, Bounds, SMT
<1> QED BY <1>1, <1>2, <1>3, <1>4

LEMMA AgainIs ==
  ASSUME SummaryInv, RecordAgain
  PROVE  \E m \in Written :
           /\ m \in Msgs /\ raw' = Appended(raw, m) /\ job' = Scheduled(job, sent[m], m)
           /\ missed' = missed \union Evicted
           /\ UNCHANGED <<now, sent, end, segments, work, closed, shared>>
BY Bounds, Zenon DEF RecordAgain, Written

LEMMA RecordGrows ==
  ASSUME SummaryInv, RecordInbound \/ RecordAgain \/ RecordOutbound
  PROVE  Grows
<1> USE RawIs
<1>1. CASE RecordInbound
  <2>1. PICK m \in UserMsgs, t \in 1 .. Horizon :
           /\ sent[m] = 0 /\ m \in Msgs
           /\ sent' = [sent EXCEPT ![m] = t]
           /\ missed' = missed \union Evicted \union (IF t < closed THEN {m} ELSE {})
           /\ UNCHANGED <<end, segments, closed>>
    BY <1>1, InboundIs
  <2>2. /\ \A n \in Recorded : sent'[n] = sent[n]
        /\ sent'[m] = t /\ Written' = Written \union {m}
    BY <2>1, SentOnce
  <2>3. m \in missed' \/ t >= closed
    <3>1. closed \in 0 .. Horizon
      BY TypeSays
    <3>2. t < closed \/ t >= closed
      BY <3>1, Bounds, SMT
    <3> QED BY <2>1, <3>2
  <2> QED BY <2>1, <2>2, <2>3, EndsStay DEF Grows
<1>2. CASE RecordAgain
  BY <1>2, AgainIs, EndsStay, GrowsUnlessStored
<1>3. CASE RecordOutbound
  <2>1. PICK m \in OwnMsgs, t \in 1 .. Horizon :
           /\ sent[m] = 0 /\ m \in Msgs /\ m \notin UserMsgs
           /\ sent' = [sent EXCEPT ![m] = t]
           /\ missed' = missed \union Evicted
           /\ UNCHANGED <<end, segments, closed>>
    BY <1>3, OutboundIs
  <2>2. \A n \in Recorded : sent'[n] = sent[n]
    BY <2>1, SentOnce
  <2>3. Written' = Written
    BY <2>1, SentOnce
  <2> QED BY <2>1, <2>2, <2>3, EndsStay DEF Grows
<1> QED BY <1>1, <1>2, <1>3

\* An append leaves the stored segments in their places.
LEMMA AppendKeeps ==
  ASSUME NEW S, NEW s \in Seq(S), NEW x \in S
  PROVE  /\ \A i \in DOMAIN s : i \in DOMAIN Append(s, x) /\ Append(s, x)[i] = s[i]
         /\ DOMAIN Append(s, x) = DOMAIN s \union {Len(s) + 1} /\ Len(s) + 1 \notin DOMAIN s
         /\ Append(s, x)[Len(s) + 1] = x
<1>1. /\ Append(s, x) \in Seq(S) /\ Len(Append(s, x)) = Len(s) + 1 /\ Len(s) \in Nat
      /\ DOMAIN s = 1 .. Len(s) /\ DOMAIN Append(s, x) = 1 .. Len(s) + 1
      /\ \A i \in 1 .. Len(s) : Append(s, x)[i] = s[i]
      /\ Append(s, x)[Len(s) + 1] = x
  BY SMT
<1>2. 1 .. Len(s) + 1 = 1 .. Len(s) \union {Len(s) + 1} /\ Len(s) + 1 \notin 1 .. Len(s)
  BY <1>1, SMT
<1> QED BY <1>1, <1>2

\* What the append adds.
LEMMA StoredSegments ==
  ASSUME SummaryInv, NEW w \in Workers, work[w].pc = "asking",
         segments' = Append(segments, [id |-> work[w].id, msgs |-> work[w].lines])
  PROVE  /\ \A i \in DOMAIN segments : i \in DOMAIN segments' /\ segments'[i] = segments[i]
         /\ DOMAIN segments' = DOMAIN segments \union {Len(segments) + 1}
         /\ Len(segments) + 1 \notin DOMAIN segments
         /\ segments'[Len(segments) + 1].id = work[w].id
         /\ segments'[Len(segments) + 1].msgs = work[w].lines
<1> DEFINE g == [id |-> work[w].id, msgs |-> work[w].lines]
<1>1. work[w].lines \in SUBSET Msgs /\ work[w].id \in Ids
  BY RawIs, WorkTypes, WorkFields DEF SummaryInv, WorkInv, Fine, Written, Ids
<1>2. g \in [id: Ids, msgs: SUBSET Msgs] /\ g.id = work[w].id /\ g.msgs = work[w].lines
  BY <1>1
<1>3. segments \in Seq([id: Ids, msgs: SUBSET Msgs])
  BY TypeSays, RawIs
<1> HIDE DEF g
<1>4. segments' = Append(segments, g)
  BY DEF g
<1> QED BY <1>2, <1>3, <1>4, AppendKeeps

LEMMA StoreGrows ==
  ASSUME SummaryInv, NEW w \in Workers, Store(w)
  PROVE  Grows
<1> USE RawIs
<1>1. sent' = sent /\ missed' = missed /\ closed' = closed /\ work[w].pc = "asking"
  BY StoreCases
<1>2. \A i \in DOMAIN segments : i \in DOMAIN segments' /\ segments'[i] = segments[i]
  <2>1. \/ segments' = segments
        \/ segments' = Append(segments, [id |-> work[w].id, msgs |-> work[w].lines])
    BY StoreCases
  <2> QED BY <1>1, <2>1, StoredSegments
<1>3. end <= end'
  <2>1. end \in 0 .. Horizon /\ work[w].due \in 0 .. Horizon
    BY TypeSays, WorkTypes, WorkFields
  <2>2. end' = end \/ end' = IF work[w].due > end THEN work[w].due ELSE end
    BY StoreCases
  <2> QED BY <2>1, <2>2, Bounds, SMT
<1> QED BY <1>1, <1>2, <1>3, EndsStay, SentStays DEF Grows

LEMMA StepGrows ==
  ASSUME SummaryInv, Next
  PROVE  Grows
<1>1. CASE RecordInbound \/ RecordAgain \/ RecordOutbound
  BY <1>1, RecordGrows
<1>2. CASE Tick
  BY <1>2, EndsStay, GrowsUnlessStored DEF Tick
<1>3. ASSUME NEW w \in Workers, Claim(w) \/ Step(w) \/ Crash(w)
      PROVE  Grows
  <2>1. CASE Claim(w) \/ PutOff(w) \/ Release(w) \/ Complete(w) \/ Fail(w)
    BY <2>1, EndsStay, GrowsUnlessStored DEF Claim, PutOff, Release, Complete, Fail
  <2>2. CASE ReadMemory(w) \/ Prune(w) \/ Crash(w)
    BY <2>2, EndsStay, GrowsUnlessStored, ReadMemoryCases, PruneCases, CrashIs
  <2>3. CASE Store(w)
    BY <2>3, StoreGrows
  <2>4. CASE Read(w)
    <3>1. sent' = sent /\ UNCHANGED <<end, segments>>
      BY <2>4, ReadCases
    <3>2. missed \subseteq missed' /\ closed <= closed'
      <4>1. \/ UNCHANGED <<closed, missed>>
            \/ /\ closed' = IF work[w].due > closed THEN work[w].due ELSE closed
               /\ missed' = missed \union OutOfReach(work[w].due)
        BY <2>4, ReadCases
      <4>2. closed \in 0 .. Horizon /\ work[w].due \in 0 .. Horizon
        BY TypeSays, RawIs, WorkTypes, WorkFields
      <4>3. CASE UNCHANGED <<closed, missed>>
        BY <4>3, EndsStay
      <4>4. CASE /\ closed' = IF work[w].due > closed THEN work[w].due ELSE closed
                 /\ missed' = missed \union OutOfReach(work[w].due)
        <5>1. closed <= closed'
          BY <4>2, <4>4, Bounds, SMT
        <5> QED BY <4>4, <5>1
      <4> QED BY <4>1, <4>3, <4>4
    <3> QED BY <3>1, <3>2, GrowsUnlessStored
  <2> QED BY <1>3, <2>1, <2>2, <2>3, <2>4 DEF Step
<1> QED BY <1>1, <1>2, <1>3 DEF Next

\* What was recorded stays so.
LEMMA RecordedStays ==
  ASSUME SummaryInv, Grows
  PROVE  Recorded \subseteq Recorded' /\ Written \subseteq Written'
BY Bounds DEF Grows, Recorded, Written

\* The set of a segment's messages is that of messages that were recorded.
LEMMA SegmentsRecorded ==
  ASSUME SummaryInv, NEW i \in DOMAIN segments, NEW n \in segments[i].msgs
  PROVE  n \in Recorded
BY DEF SummaryInv, SegmentsInv

\* A message that is accounted for stays so.
LEMMA AccountedStays ==
  ASSUME SummaryInv, Grows, NEW m \in Written, Accounted(m)
  PROVE  Accounted(m)'
<1>1. m \in Recorded
  BY Bounds DEF Written, Recorded
<1>2. CASE m \in missed
  BY <1>2 DEF Accounted, Grows
<1>3. CASE m \in Summarised
  <2>1. PICK i \in DOMAIN segments : m \in segments[i].msgs
    BY <1>3, Zenon DEF Summarised
  <2>2. i \in DOMAIN segments' /\ m \in segments'[i].msgs
    BY <2>1 DEF Grows
  <2>3. m \in Summarised'
    BY <2>2, Zenon DEF Summarised
  <2> QED BY <2>3 DEF Accounted
<1>4. CASE CrowdedOut(m)
  <2>1. PICK i \in DOMAIN segments : /\ Cardinality(segments[i].msgs) = MaxLines
                                     /\ \A n \in segments[i].msgs : sent[n] >= sent[m]
    BY <1>4 DEF CrowdedOut
  <2>2. i \in DOMAIN segments' /\ segments'[i] = segments[i]
    BY DEF Grows
  <2>3. \A n \in segments'[i].msgs : sent'[n] >= sent'[m]
    BY <1>1, <2>1, <2>2, SegmentsRecorded DEF Grows
  <2>4. CrowdedOut(m)'
    BY <2>1, <2>2, <2>3 DEF CrowdedOut
  <2> QED BY <2>4 DEF Accounted
<1> QED BY <1>2, <1>3, <1>4 DEF Accounted
------------------------------------------------------------------------------
(* The segments, the end and the raw row. *)

\* Only an append moves the end.
LEMMA OnlyStoreEnds ==
  ASSUME SummaryInv, Next
  PROVE  UNCHANGED <<end, segments>> \/ \E w \in Workers : Store(w)
<1>1. ASSUME RecordInbound \/ RecordAgain \/ RecordOutbound \/ Tick
      PROVE  UNCHANGED <<end, segments>>
  BY <1>1, InboundIs, AgainIs, OutboundIs DEF Tick
<1>2. ASSUME NEW w \in Workers, Claim(w) \/ Step(w) \/ Crash(w)
      PROVE  UNCHANGED <<end, segments>> \/ Store(w)
  <2>1. CASE Claim(w) \/ PutOff(w) \/ Release(w) \/ Complete(w) \/ Fail(w)
    BY <2>1 DEF Claim, PutOff, Release, Complete, Fail
  <2>2. CASE Read(w) \/ ReadMemory(w) \/ Prune(w) \/ Crash(w)
    BY <2>2, ReadCases, ReadMemoryCases, PruneCases, CrashIs
  <2> QED BY <1>2, <2>1, <2>2 DEF Step
<1> QED BY <1>1, <1>2, Zenon DEF Next

\* A claim that was taken over is remembered.
LEMMA SharedStays ==
  ASSUME SummaryInv, Next
  PROVE  shared => shared'
<1>1. ASSUME RecordInbound \/ RecordAgain \/ RecordOutbound \/ Tick
      PROVE  shared => shared'
  BY <1>1, InboundIs, AgainIs, OutboundIs DEF Tick
<1>2. ASSUME NEW w \in Workers, Claim(w) \/ Step(w) \/ Crash(w)
      PROVE  shared => shared'
  <2>1. CASE Claim(w) \/ PutOff(w) \/ Release(w) \/ Complete(w) \/ Fail(w)
    BY <2>1 DEF Claim, PutOff, Release, Complete, Fail
  <2>2. CASE Read(w) \/ ReadMemory(w) \/ Store(w) \/ Prune(w) \/ Crash(w)
    BY <2>2, ReadCases, ReadMemoryCases, StoreCases, PruneCases, CrashIs
  <2> QED BY <1>2, <2>1, <2>2 DEF Step
<1> QED BY <1>1, <1>2, Zenon DEF Next

\* Only a message that is recorded for the first time is sent.
LEMMA SentSteps ==
  ASSUME SummaryInv, Next
  PROVE  \/ sent' = sent
         \/ \E m \in Msgs, t \in 1 .. Horizon :
              sent[m] = 0 /\ t + Window <= Horizon /\ sent' = [sent EXCEPT ![m] = t]
<1>1. ASSUME RecordInbound \/ RecordOutbound
      PROVE  \E m \in Msgs, t \in 1 .. Horizon :
               sent[m] = 0 /\ t + Window <= Horizon /\ sent' = [sent EXCEPT ![m] = t]
  BY <1>1, InboundIs, OutboundIs
<1>2. ASSUME RecordAgain \/ Tick
      PROVE  sent' = sent
  BY <1>2, AgainIs DEF Tick
<1>3. ASSUME NEW w \in Workers, Claim(w) \/ Step(w) \/ Crash(w)
      PROVE  sent' = sent
  <2>1. CASE Claim(w) \/ PutOff(w) \/ Release(w) \/ Complete(w) \/ Fail(w)
    BY <2>1 DEF Claim, PutOff, Release, Complete, Fail
  <2>2. CASE Read(w) \/ ReadMemory(w) \/ Store(w) \/ Prune(w) \/ Crash(w)
    BY <2>2, ReadCases, ReadMemoryCases, StoreCases, PruneCases, CrashIs
  <2> QED BY <1>3, <2>1, <2>2 DEF Step
<1> QED BY <1>1, <1>2, <1>3, Zenon DEF Next

\* What the worker that stores has at hand.
LEMMA AskingIs ==
  ASSUME SummaryInv, NEW w \in Workers, work[w].pc = "asking"
  PROVE  /\ Chosen(work[w]) /\ work[w].id \in Written
         /\ sent[work[w].id] + Window <= work[w].due
         /\ work[w].lines \subseteq Recorded
         /\ ~shared => job.by = w /\ \A n \in work[w].lines : sent[n] >= end
BY DEF SummaryInv, WorkInv, Fine, SoleInv

LEMMA TimesKept ==
  ASSUME SummaryInv, Next
  PROVE  TimesInv'
<1>1. \A m \in Recorded' : sent'[m] + Window <= Horizon
  <2>1. CASE sent' = sent
    BY <2>1, SentStays DEF SummaryInv, TimesInv
  <2>2. ASSUME NEW m \in Msgs, NEW t \in 1 .. Horizon, sent[m] = 0,
               t + Window <= Horizon, sent' = [sent EXCEPT ![m] = t]
        PROVE  \A n \in Recorded' : sent'[n] + Window <= Horizon
    <3>1. /\ \A n \in Recorded : sent'[n] = sent[n]
          /\ sent'[m] = t /\ Recorded' = Recorded \union {m}
      BY <2>2, SentOnce, RawIs
    <3> QED BY <2>2, <3>1 DEF SummaryInv, TimesInv
  <2> QED BY <2>1, <2>2, SentSteps
<1>2. end' <= closed'
  <2>1. closed <= closed' /\ end <= closed
    BY StepGrows DEF Grows, SummaryInv, TimesInv
  <2>2. end \in Nat /\ closed \in Nat /\ closed' \in Nat
    <3>1. end \in 0 .. Horizon /\ closed \in 0 .. Horizon
      BY RawIs, TypeSays
    <3>2. closed' \in 0 .. Horizon
      BY TypesKept, TypeSaysNext
    <3> QED BY <3>1, <3>2, Bounds, SMT
  <2>3. CASE UNCHANGED <<end, segments>>
    BY <2>1, <2>2, <2>3, SMT
  <2>4. ASSUME NEW w \in Workers, Store(w)
        PROVE  end' <= closed'
    <3>1. closed' = closed /\ work[w].pc = "asking"
      BY <2>4, StoreCases
    <3>2. work[w].due <= closed
      BY <3>1, AskingIs DEF Chosen
    <3>3. end' = end \/ end' = IF work[w].due > end THEN work[w].due ELSE end
      BY <2>4, StoreCases
    <3> QED BY <2>1, <3>1, <3>2, <3>3
  <2> QED BY <2>3, <2>4, OnlyStoreEnds
<1> QED BY <1>1, <1>2 DEF TimesInv

LEMMA SegmentsKept ==
  ASSUME SummaryInv, Next
  PROVE  SegmentsInv'
<1>1. Grows /\ Recorded \subseteq Recorded' /\ Written \subseteq Written'
  BY StepGrows, RecordedStays
<1>n. /\ end \in Nat /\ end' \in Nat /\ end <= end'
      /\ \A n \in Recorded : sent'[n] = sent[n] /\ sent[n] \in Nat
  <2>1. end \in 0 .. Horizon /\ sent \in [Msgs -> 0 .. Horizon]
    BY RawIs, TypeSays
  <2>2. end' \in 0 .. Horizon
    BY TypesKept, TypeSaysNext
  <2>3. \A n \in Recorded : sent[n] \in 0 .. Horizon
    BY <2>1 DEF Recorded
  <2> QED BY <1>1, <2>1, <2>2, <2>3, Bounds, SMT DEF Grows
<1>2. ASSUME NEW n \in Recorded, sent[n] < end
      PROVE  n \in Recorded' /\ sent'[n] < end'
  BY <1>1, <1>2, <1>n, SMT
<1>3. ASSUME NEW i \in DOMAIN segments
      PROVE  /\ segments'[i].id \in Written' /\ sent'[segments'[i].id] < end'
             /\ \A n \in segments'[i].msgs : n \in Recorded' /\ sent'[n] < end'
  <2>1. /\ segments[i].id \in Written /\ sent[segments[i].id] < end
        /\ \A n \in segments[i].msgs : n \in Recorded /\ sent[n] < end
    BY DEF SummaryInv, SegmentsInv
  <2>2. segments[i].id \in Recorded
    BY <2>1, Bounds DEF Written, Recorded
  <2>3. segments'[i] = segments[i]
    BY <1>1 DEF Grows
  <2> QED BY <1>1, <1>2, <2>1, <2>2, <2>3
<1>4. CASE DOMAIN segments' = DOMAIN segments
  BY <1>3, <1>4 DEF SegmentsInv
<1>5. ASSUME NEW w \in Workers, Store(w), DOMAIN segments' # DOMAIN segments
      PROVE  SegmentsInv'
  <2>1. /\ work[w].pc = "asking" /\ sent' = sent
        /\ segments' = Append(segments, [id |-> work[w].id, msgs |-> work[w].lines])
        /\ end' = IF work[w].due > end THEN work[w].due ELSE end
    BY <1>5, StoreCases
  <2>2. /\ DOMAIN segments' = DOMAIN segments \union {Len(segments) + 1}
        /\ segments'[Len(segments) + 1].id = work[w].id
        /\ segments'[Len(segments) + 1].msgs = work[w].lines
    BY <2>1, StoredSegments
  <2>3. work[w].due \in 0 .. Horizon
    BY RawIs, WorkTypes, WorkFields
  <2>4. work[w].due <= end'
    BY <1>n, <2>1, <2>3, Bounds, SMT
  <2>5. \A n \in work[w].lines : n \in Recorded /\ sent[n] < work[w].due
    BY <2>1, AskingIs DEF Chosen
  <2>6. \A n \in work[w].lines : n \in Recorded' /\ sent'[n] < end'
    BY <1>1, <1>n, <2>3, <2>4, <2>5, SMT
  <2>7. work[w].id \in Written /\ work[w].id \in Recorded
    BY <2>1, AskingIs, Bounds DEF Written, Recorded
  <2>8. sent'[work[w].id] < end'
    BY <1>n, <2>1, <2>3, <2>4, <2>7, AskingIs, Bounds, SMT
  <2> QED BY <1>1, <1>3, <2>2, <2>6, <2>7, <2>8 DEF SegmentsInv
<1> QED BY <1>4, <1>5, OnlyStoreEnds

\* Nothing before the end is left out.
LEMMA SkippedKept ==
  ASSUME SummaryInv, Next
  PROVE  NothingSkipped'
<1>1. Grows
  BY StepGrows
<1>2. ASSUME NEW m \in Written, Accounted(m)
      PROVE  Accounted(m)'
  BY <1>1, <1>2, AccountedStays
<1>3. ASSUME NEW m \in Written, sent[m] < end
      PROVE  Accounted(m)'
  <2>1. Accounted(m)
    BY <1>3, Zenon DEF SummaryInv, NothingSkipped, Written, Accounted
  <2> QED BY <1>2, <2>1
<1>n. /\ end \in 0 .. Horizon /\ closed \in 0 .. Horizon /\ end <= closed
      /\ \A m \in Msgs : sent[m] \in 0 .. Horizon /\ sent'[m] \in 0 .. Horizon
  <2>1. end \in 0 .. Horizon /\ closed \in 0 .. Horizon /\ sent \in [Msgs -> 0 .. Horizon]
    BY RawIs, TypeSays
  <2>2. sent' \in [Msgs -> 0 .. Horizon]
    BY TypesKept, TypeSaysNext
  <2> QED BY <2>1, <2>2 DEF SummaryInv, TimesInv
<1>4. SUFFICES ASSUME NEW m \in UserMsgs, m \in Written', sent'[m] < end'
               PROVE  Accounted(m)'
  BY Zenon DEF NothingSkipped, Accounted, Written
<1>5. CASE m \notin Written
  <2>1. m \in missed' \/ sent'[m] >= closed
    BY <1>1, <1>4, <1>5 DEF Grows
  <2>2. CASE m \in missed'
    BY <2>2 DEF Accounted
  <2>3. CASE sent'[m] >= closed
    <3>1. end' = end
      <4>1. sent' # sent
        BY <1>4, <1>5, SentStays
      <4> QED BY <4>1, OnlyStoreEnds, StoreCases
    <3>2. m \in Msgs
      BY Bounds
    <3> QED BY <1>4, <1>n, <2>3, <3>1, <3>2, Bounds, SMT
  <2> QED BY <2>1, <2>2, <2>3
<1>6. CASE m \in Written
  <2>1. m \in Recorded /\ m \in Msgs
    BY <1>6, Bounds DEF Written, Recorded
  <2>2. sent'[m] = sent[m]
    BY <1>1, <2>1 DEF Grows
  <2>3. CASE UNCHANGED <<end, segments>>
    BY <1>3, <1>4, <1>6, <2>2, <2>3
  <2>4. ASSUME NEW w \in Workers, Store(w), ~(sent[m] < end), ~Accounted(m)
        PROVE  Accounted(m)'
    <3>1. work[w].pc = "asking"
      BY <2>4, StoreCases
    <3>2. end' = IF work[w].due > end THEN work[w].due ELSE end
      BY <1>4, <2>2, <2>4, StoreCases
    <3>3. sent[m] < work[w].due
      BY <1>4, <2>2, <2>4, <3>2
    <3>4. m \in Owed(work[w])
      BY <1>6, <2>4, <3>3 DEF Owed
    <3>5. /\ sent[m] <= sent[work[w].id]
          /\ m \in work[w].lines \/ (/\ Cardinality(work[w].lines) = MaxLines
                                     /\ \A n \in work[w].lines : sent[n] >= sent[m])
      BY <3>1, <3>4, AskingIs DEF Chosen
    <3>6. work[w].id \notin StoredIds
      <4> SUFFICES ASSUME work[w].id \in StoredIds PROVE FALSE
        OBVIOUS
      <4>1. PICK i \in DOMAIN segments : segments[i].id = work[w].id
        BY Zenon DEF StoredIds
      <4>2. sent[work[w].id] < end /\ work[w].id \in Msgs
        BY <4>1, Bounds DEF SummaryInv, SegmentsInv, Written
      <4> QED BY <1>n, <2>1, <2>4, <3>5, <4>2, Bounds, SMT
    <3>7. segments' = Append(segments, [id |-> work[w].id, msgs |-> work[w].lines])
      <4>1. end' # end
        BY <1>4, <2>2, <2>4
      <4> QED BY <2>4, <3>6, <4>1, StoreCases
    <3> DEFINE i == Len(segments) + 1
    <3>8. i \in DOMAIN segments' /\ segments'[i].msgs = work[w].lines
      BY <3>1, <3>7, StoredSegments
    <3> HIDE DEF i
    <3>9. CASE m \in work[w].lines
      <4>1. m \in Summarised'
        BY <3>8, <3>9, Zenon DEF Summarised
      <4> QED BY <4>1 DEF Accounted
    <3>10. CASE /\ Cardinality(work[w].lines) = MaxLines
                /\ \A n \in work[w].lines : sent[n] >= sent[m]
      <4>1. sent' = sent
        BY <2>4, StoreCases
      <4>2. \A n \in segments'[i].msgs : sent'[n] >= sent'[m]
        BY <3>8, <3>10, <4>1
      <4>3. CrowdedOut(m)'
        BY <3>8, <3>10, <4>2 DEF CrowdedOut
      <4> QED BY <4>3 DEF Accounted
    <3> QED BY <3>5, <3>9, <3>10
  <2> QED BY <1>2, <1>3, <1>6, <2>3, <2>4, OnlyStoreEnds
<1> QED BY <1>5, <1>6

\* Two segments share a message only after a claim was taken over.
LEMMA OnceKept ==
  ASSUME SummaryInv, Next
  PROVE  SummarisedOnce'
<1>1. CASE UNCHANGED <<end, segments>>
  BY <1>1, SharedStays DEF SummaryInv, SummarisedOnce
<1>2. ASSUME NEW w \in Workers, Store(w),
             segments' = Append(segments, [id |-> work[w].id, msgs |-> work[w].lines])
      PROVE  SummarisedOnce'
  <2>1. work[w].pc = "asking" /\ shared' = shared
    BY <1>2, StoreCases
  <2> DEFINE k == Len(segments) + 1
  <2>2. /\ \A i \in DOMAIN segments : segments'[i] = segments[i]
        /\ DOMAIN segments' = DOMAIN segments \union {k} /\ k \notin DOMAIN segments
        /\ segments'[k].msgs = work[w].lines
    BY <1>2, <2>1, StoredSegments
  <2> HIDE DEF k
  <2>3. ASSUME ~shared, NEW i \in DOMAIN segments
        PROVE  segments[i].msgs \intersect work[w].lines = {}
    <3> SUFFICES ASSUME NEW n \in segments[i].msgs, n \in work[w].lines PROVE FALSE
      OBVIOUS
    <3>1. sent[n] < end /\ n \in Recorded
      BY DEF SummaryInv, SegmentsInv
    <3>2. sent[n] >= end
      BY <2>1, <2>3, AskingIs
    <3>3. end \in 0 .. Horizon /\ sent[n] \in 0 .. Horizon
      BY <3>1, RawIs, TypeSays DEF Recorded
    <3> QED BY <3>1, <3>2, <3>3, Bounds, SMT
  <2>4. ASSUME ~shared, NEW i \in DOMAIN segments, NEW j \in DOMAIN segments, i # j
        PROVE  segments[i].msgs \intersect segments[j].msgs = {}
    BY <2>4, Zenon DEF SummaryInv, SummarisedOnce
  <2> SUFFICES ASSUME ~shared', NEW i \in DOMAIN segments', NEW j \in DOMAIN segments', i # j
               PROVE  segments'[i].msgs \intersect segments'[j].msgs = {}
    BY Zenon DEF SummarisedOnce
  <2>5. CASE i \in DOMAIN segments /\ j \in DOMAIN segments
    BY <2>1, <2>2, <2>4, <2>5
  <2>6. CASE i \in DOMAIN segments /\ j = k
    BY <2>1, <2>2, <2>3, <2>6
  <2>7. CASE i = k /\ j \in DOMAIN segments
    BY <2>1, <2>2, <2>3, <2>7
  <2> QED BY <2>2, <2>5, <2>6, <2>7
<1>3. ASSUME NEW w \in Workers, Store(w), segments' = segments
      PROVE  SummarisedOnce'
  BY <1>3, StoreCases DEF SummaryInv, SummarisedOnce
<1> QED BY <1>1, <1>2, <1>3, OnlyStoreEnds, StoreCases

\* The raw row keeps whatever nothing accounts for.
LEMMA RawKept ==
  ASSUME SummaryInv, Next
  PROVE  RawInv'
<1> USE RawIs
<1>1. Grows /\ Recorded \subseteq Recorded' /\ Written \subseteq Written'
  BY StepGrows, RecordedStays
<1>2. ASSUME NEW m \in Written, m \notin ToSet(raw)
      PROVE  Accounted(m)'
  <2>1. Accounted(m)
    BY <1>2 DEF SummaryInv, RawInv
  <2> QED BY <1>1, <2>1, AccountedStays
<1>3. ASSUME Injective(raw'), ToSet(raw') \subseteq Recorded',
             \A m \in Written' : m \in ToSet(raw') \/ Accounted(m)'
      PROVE  RawInv'
  BY <1>3, Zenon DEF RawInv, Injective
<1>4. CASE raw' = raw /\ sent' = sent
  <2>1. Written' = Written /\ Injective(raw')
    BY <1>4, SentStays DEF Injective
  <2> QED BY <1>1, <1>2, <1>3, <1>4, <2>1
<1>5. ASSUME NEW m \in Msgs, raw' = Appended(raw, m), m \in Recorded',
             Written' \subseteq Written \union {m}, missed \union Evicted \subseteq missed',
             m \notin ToSet(raw) \/ m \in Written
      PROVE  RawInv'
  <2>1. /\ Injective(raw') /\ ToSet(raw') \subseteq ToSet(raw) \union {m}
        /\ m \notin ToSet(raw) => m \in ToSet(raw')
    BY <1>5, AppendedIs
  <2>2. ToSet(raw') \subseteq Recorded'
    BY <1>1, <1>5, <2>1
  <2>3. ASSUME NEW n \in Written', n \notin ToSet(raw')
        PROVE  Accounted(n)'
    <3>1. CASE n \in ToSet(raw)
      <4>1. n \in missed'
        BY <1>5, <2>3, <3>1 DEF Evicted
      <4> QED BY <4>1 DEF Accounted
    <3>2. CASE n \notin ToSet(raw)
      <4>1. n \in Written
        BY <1>5, <2>1, <2>3, <3>2
      <4> QED BY <1>2, <3>2, <4>1
    <3> QED BY <3>1, <3>2
  <2> QED BY <1>3, <2>1, <2>2, <2>3
<1>6. CASE RecordInbound \/ RecordOutbound
  <2>1. PICK m \in Msgs, t \in 1 .. Horizon :
          /\ sent[m] = 0 /\ sent' = [sent EXCEPT ![m] = t] /\ raw' = Appended(raw, m)
          /\ missed \union Evicted \subseteq missed'
    <3>1. CASE RecordInbound
      BY <3>1, InboundIs
    <3>2. CASE RecordOutbound
      BY <3>2, OutboundIs
    <3> QED BY <1>6, <3>1, <3>2
  <2>2. m \in Recorded' /\ Written' \subseteq Written \union {m}
    BY <2>1, SentOnce
  <2>3. m \notin ToSet(raw)
    BY <2>1 DEF Recorded
  <2> QED BY <1>5, <2>1, <2>2, <2>3
<1>7. CASE RecordAgain
  <2>1. PICK m \in Written :
          /\ m \in Msgs /\ raw' = Appended(raw, m) /\ missed' = missed \union Evicted
          /\ sent' = sent
    BY <1>7, AgainIs
  <2>2. m \in Recorded' /\ Written' = Written
    BY <1>1, <2>1, SentStays DEF Written, Recorded
  <2> QED BY <1>5, <2>1, <2>2
<1>8. ASSUME NEW w \in Workers, Prune(w)
      PROVE  RawInv'
  <2>1. /\ Injective(raw') /\ ToSet(raw') \subseteq ToSet(raw)
        /\ \A m \in ToSet(raw) \ ToSet(raw') : sent[m] < work[w].due
        /\ sent' = sent /\ work[w].pc = "stored"
    BY <1>8, PruneCases
  <2>2. work[w].due <= end
    BY <2>1 DEF SummaryInv, WorkInv, Fine
  <2>3. ASSUME NEW m \in Written, m \in ToSet(raw), m \notin ToSet(raw')
        PROVE  Accounted(m)'
    <3>1. sent[m] < end
      <4>1. /\ sent[m] \in 0 .. Horizon /\ end \in 0 .. Horizon
            /\ work[w].due \in 0 .. Horizon
        BY TypeSays, WorkTypes, WorkFields, Bounds DEF Written
      <4>2. sent[m] < work[w].due
        BY <2>1, <2>3
      <4> QED BY <2>2, <4>1, <4>2, Bounds, SMT
    <3>2. Accounted(m)
      BY <3>1, Zenon DEF SummaryInv, NothingSkipped, Written, Accounted
    <3> QED BY <1>1, <3>2, AccountedStays
  <2>4. Written' = Written
    BY <2>1, SentStays
  <2> QED BY <1>1, <1>2, <1>3, <2>1, <2>3, <2>4
<1>9. CASE Tick
  BY <1>4, <1>9 DEF Tick
<1>10. ASSUME NEW w \in Workers, Claim(w) \/ Step(w) \/ Crash(w)
       PROVE  RawInv'
  <2>1. CASE Claim(w) \/ PutOff(w) \/ Release(w) \/ Complete(w) \/ Fail(w)
    BY <1>4, <2>1 DEF Claim, PutOff, Release, Complete, Fail
  <2>2. CASE Read(w) \/ ReadMemory(w) \/ Store(w) \/ Crash(w)
    BY <1>4, <2>2, ReadCases, ReadMemoryCases, StoreCases, CrashIs
  <2> QED BY <1>8, <1>10, <2>1, <2>2 DEF Step
<1> QED BY <1>6, <1>7, <1>9, <1>10, Zenon DEF Next

------------------------------------------------------------------------------
(* The row of the job. *)

\* A row that keeps its anchor keeps the invariant.
LEMMA RowMoves ==
  ASSUME SummaryInv, sent' = sent, end <= end', SameAnchor(job', job), TypeOK',
         job'.status = "none" <=> job.status = "none",
         job'.status = "done" => job.status = "done" \/ sent[job.id] < end
  PROVE  RowInv'
<1>1. /\ job'.at = job.at /\ job'.id = job.id /\ job'.due >= job.due
      /\ Written' = Written
  BY SentStays DEF SameAnchor
<1>2. /\ job.at \in 0 .. Horizon /\ job.due \in 0 .. Horizon
      /\ end \in 0 .. Horizon
  BY RawIs, RowIsGood, RowFields, TypeSays
<1>3. job'.due \in 0 .. Horizon /\ end' \in 0 .. Horizon
  <2>1. job' \in JobRows(Workers, Ids)
    BY Zenon DEF TypeOK
  <2> QED BY <2>1, RowFields, TypeSaysNext
<1>4. job.status # "none" =>
        /\ job.id \in Written /\ job.at = sent[job.id] /\ job.at + Window <= job.due
        /\ \A m \in Written : sent[m] <= job.at
  BY DEF SummaryInv, RowInv
<1>5. job'.status # "none" => job'.at + Window <= job'.due
  BY <1>1, <1>2, <1>3, <1>4, Bounds, SMT
<1>6. job'.status = "done" => sent'[job'.id] < end'
  <2> SUFFICES ASSUME job'.status = "done" PROVE sent[job.id] < end'
    BY <1>1
  <2>1. sent[job.id] < end
    BY DEF SummaryInv, RowInv
  <2>2. job.id \in Msgs
    BY <1>4, Bounds DEF Written
  <2>3. sent[job.id] \in 0 .. Horizon
    BY <2>2, RawIs, TypeSays
  <2> QED BY <1>2, <1>3, <2>1, <2>3, Bounds, SMT
<1>7. job.status = "none" => Written = {}
  BY DEF SummaryInv, RowInv
<1> QED BY <1>1, <1>4, <1>5, <1>6, <1>7 DEF RowInv

\* A message that is scheduled becomes the anchor unless it is older.
LEMMA RowScheduled ==
  ASSUME SummaryInv, NEW m \in Written', NEW t \in 1 .. Horizon, sent'[m] = t,
         Written \subseteq Written', Written' \subseteq Written \union {m},
         \A n \in Written : sent'[n] = sent[n],
         job' = Scheduled(job, t, m)
  PROVE  RowInv'
<1>1. job \in JobRows(Workers, Ids)
  BY RawIs, RowIsGood
<1>2. job'.status \in {"queued", "running"}
  BY <1>1, ScheduledSays
<1>3. /\ job.status = "none" => Written = {}
      /\ job.status # "none" =>
           /\ job.id \in Written /\ job.at = sent[job.id] /\ job.at + Window <= job.due
           /\ \A n \in Written : sent[n] <= job.at
  BY DEF SummaryInv, RowInv
<1>4. job.at \in 0 .. Horizon /\ \A n \in Written : sent[n] \in 0 .. Horizon
  BY <1>1, RowFields, RawIs, TypeSays, Bounds DEF Written
<1>5. CASE Moves(job, t)
  <2>1. job'.at = t /\ job'.id = m /\ job'.due = t + Window
    BY <1>1, <1>5, ScheduledSays
  <2>2. ASSUME NEW n \in Written'
        PROVE  sent'[n] <= t
    <3>1. CASE n = m
      BY <3>1, SMT
    <3>2. CASE n # m
      <4>1. n \in Written /\ sent'[n] = sent[n]
        BY <3>2
      <4>2. sent[n] <= job.at /\ t >= job.at
        BY <1>3, <1>5, <4>1 DEF Moves
      <4> QED BY <1>4, <4>1, <4>2, Bounds, SMT
    <3> QED BY <3>1, <3>2
  <2>3. t + Window <= t + Window
    BY Bounds, SMT
  <2> QED BY <1>2, <2>1, <2>2, <2>3 DEF RowInv
<1>6. CASE ~Moves(job, t)
  <2>1. job'.at = job.at /\ job'.id = job.id /\ job'.due = job.due /\ job.status # "none"
    BY <1>1, <1>6, ScheduledSays DEF Moves
  <2>2. t <= job.at
    BY <1>4, <1>6, Bounds, SMT DEF Moves
  <2>3. \A n \in Written' : sent'[n] <= job.at
    BY <1>3, <2>1, <2>2
  <2> QED BY <1>2, <1>3, <2>1, <2>3 DEF RowInv
<1> QED BY <1>5, <1>6

LEMMA RowKept ==
  ASSUME SummaryInv, Next
  PROVE  RowInv'
<1> USE RawIs
<1>1. Grows /\ Written \subseteq Written' /\ TypeOK'
  BY StepGrows, RecordedStays, TypesKept
<1>2. job \in JobRows(Workers, Ids) /\ GoodRow(job, Workers, Ids) /\ Nobody \notin Workers
  BY RowIsGood, Bounds
<1>3. \A n \in Written : sent'[n] = sent[n]
  BY <1>1, Bounds DEF Grows, Written, Recorded
<1>4. end <= end'
  BY <1>1 DEF Grows
<1>5. CASE job' = job /\ sent' = sent
  BY <1>1, <1>2, <1>4, <1>5, RowFields, RowMoves
<1>6. CASE RecordInbound
  <2>1. PICK m \in UserMsgs, t \in 1 .. Horizon :
          /\ sent[m] = 0 /\ m \in Msgs
          /\ sent' = [sent EXCEPT ![m] = t]
          /\ job' = Scheduled(job, t, m)
    BY <1>6, InboundIs
  <2>2. sent'[m] = t /\ m \in Written' /\ Written' = Written \union {m}
    BY <2>1, SentOnce
  <2> QED BY <1>1, <1>3, <2>1, <2>2, RowScheduled
<1>7. CASE RecordAgain
  <2>1. PICK m \in Written : job' = Scheduled(job, sent[m], m) /\ sent' = sent
    BY <1>7, AgainIs
  <2>2. sent[m] \in 1 .. Horizon
    <3>1. sent[m] \in 0 .. Horizon /\ sent[m] # 0
      BY TypeSays, Bounds DEF Written
    <3> QED BY <3>1, SMT
  <2> QED BY <1>1, <1>3, <2>1, <2>2, SentStays, RowScheduled
<1>8. CASE RecordOutbound
  <2>1. PICK m \in OwnMsgs, t \in 1 .. Horizon :
           /\ sent[m] = 0 /\ m \in Msgs /\ m \notin UserMsgs
           /\ sent' = [sent EXCEPT ![m] = t] /\ job' = job /\ end' = end
    BY <1>8, OutboundIs
  <2>2. Written' = Written
    BY <2>1, SentOnce
  <2>3. job.status # "none" => job.id \in Written
    BY DEF SummaryInv, RowInv
  <2> QED BY <1>3, <2>1, <2>2, <2>3 DEF SummaryInv, RowInv
<1>9. CASE Tick
  <2>1. job' = Aged(job) /\ sent' = sent
    BY <1>9 DEF Tick
  <2> QED BY <1>1, <1>2, <1>4, <2>1, AgedSays, RowMoves
<1>10. ASSUME NEW w \in Workers, Claim(w)
       PROVE  RowInv'
  <2>1. job' = Claimed(job, w) /\ sent' = sent /\ job.status # "none"
    BY <1>10 DEF Claim, Claimable
  <2> QED BY <1>1, <1>2, <1>4, <2>1, ClaimedSays, RowMoves
<1>11. ASSUME NEW w \in Workers, PutOff(w)
       PROVE  RowInv'
  <2>1. CASE job' = job
    BY <1>5, <1>11, <2>1 DEF PutOff
  <2>2. CASE \E m \in Newest(work[w]) : job' = Scheduled(job, sent[m], m)
    <3>1. PICK m \in Newest(work[w]) : job' = Scheduled(job, sent[m], m)
      BY <2>2
    <3>2. m \in ToSet(work[w].read) /\ m \in UserMsgs
      BY DEF Newest, ReadUsers
    <3>3. m \in Recorded /\ m \in Written
      BY <3>2 DEF SummaryInv, WorkInv, Fine, Recorded, Written
    <3>4. sent[m] \in 1 .. Horizon
      <4>1. sent[m] \in 0 .. Horizon /\ sent[m] # 0
        BY <3>3, TypeSays DEF Recorded
      <4> QED BY <4>1, SMT
    <3>5. sent' = sent
      BY <1>11 DEF PutOff
    <3> QED BY <1>1, <1>3, <3>1, <3>3, <3>4, <3>5, SentStays, RowScheduled
  <2> QED BY <1>11, <2>1, <2>2 DEF PutOff
<1>12. ASSUME NEW w \in Workers, Release(w) \/ Complete(w) \/ Fail(w)
       PROVE  RowInv'
  <2>1. sent' = sent
    BY <1>12 DEF Release, Complete, Fail
  <2>2. CASE job' = job
    BY <1>5, <2>1, <2>2
  <2>3. CASE job' = Released(job, w)
    <3>1. SameAnchor(job', job)
      BY <1>2, <2>3, GivenBack DEF GivenBackBy
    <3>2. /\ job'.status = "done" => job.status = "done"
          /\ job'.status = "none" <=> job.status = "none"
      BY <1>2, <2>3, GivenBack DEF GivenBackBy, SameAnchor
    <3> QED BY <1>1, <1>4, <2>1, <3>1, <3>2, RowMoves
  <2>4. CASE work[w].pc = "complete" /\ job' = Completed(job, w, work[w].id)
    <3>1. sent[work[w].id] < end
      BY <2>4 DEF SummaryInv, WorkInv, Fine
    <3>2. now \in Nat
      BY TypeSays, SMT
    <3> DEFINE r == Completed(job, w, work[w].id)
    <3>3. /\ GivenBackBy(r, job, w, Workers, Ids)
          /\ r.status = "done" => job.status = "done" \/ job.id = work[w].id
      BY <1>2, <3>2, GivenBack
    <3>4. job' = r
      BY <2>4
    <3> HIDE DEF r
    <3> QED BY <1>1, <1>4, <2>1, <3>1, <3>3, <3>4, RowMoves DEF GivenBackBy
  <2>5. CASE job' = Failed(job, w, work[w].id, now)
    <3>1. now \in Nat
      BY TypeSays, SMT
    <3> QED BY <1>1, <1>2, <1>4, <2>1, <2>5, <3>1, GivenUp, RowMoves DEF GivenBackBy, SameAnchor
  <2> QED BY <1>12, <2>2, <2>3, <2>4, <2>5 DEF Release, Complete, Fail
<1>13. ASSUME NEW w \in Workers, Read(w) \/ ReadMemory(w) \/ Store(w) \/ Prune(w) \/ Crash(w)
       PROVE  RowInv'
  BY <1>5, <1>13, ReadCases, ReadMemoryCases, StoreCases, PruneCases, CrashIs
<1>14. ASSUME NEW w \in Workers, Claim(w) \/ Step(w) \/ Crash(w)
       PROVE  RowInv'
  BY <1>10, <1>11, <1>12, <1>13, <1>14 DEF Step
<1> QED BY <1>6, <1>7, <1>8, <1>9, <1>14, Zenon DEF Next

------------------------------------------------------------------------------
(* The workers. *)

\* What a worker knows of the state is about messages and their times.
LEMMA FineTypes ==
  ASSUME SummaryInv, Next
  PROVE  /\ Grows /\ Recorded \subseteq Recorded' /\ Written \subseteq Written'
         /\ \A m \in Recorded : sent'[m] = sent[m] /\ sent[m] \in Nat
         /\ \A m \in Written : m \in Recorded
         /\ \A m \in Recorded' : sent'[m] \in Nat
         /\ end \in Nat /\ end' \in Nat /\ closed \in Nat /\ closed' \in Nat
         /\ end <= end' /\ closed <= closed' /\ closed >= end
         /\ \A w \in Workers : work[w].due \in Nat /\ work[w].read \in Seq(Msgs)
<1>1. Grows /\ Recorded \subseteq Recorded' /\ Written \subseteq Written'
  BY StepGrows, RecordedStays
<1>2. \A m \in Recorded : sent'[m] = sent[m]
  BY <1>1 DEF Grows
<1>3. /\ sent \in [Msgs -> 0 .. Horizon] /\ end \in 0 .. Horizon /\ closed \in 0 .. Horizon
      /\ sent' \in [Msgs -> 0 .. Horizon] /\ end' \in 0 .. Horizon /\ closed' \in 0 .. Horizon
  BY RawIs, TypeSays, TypesKept, TypeSaysNext
<1>4. 0 .. Horizon \subseteq Nat
  BY Bounds, SMT
<1>5. \A m \in Msgs : sent[m] \in Nat /\ sent'[m] \in Nat
  BY <1>3, <1>4
<1>6. end <= end' /\ closed <= closed' /\ closed >= end
  <2>1. end <= end' /\ closed <= closed' /\ end <= closed
    BY <1>1 DEF Grows, SummaryInv, TimesInv
  <2> QED BY <1>3, <1>4, <2>1, SMT
<1>7. \A w \in Workers : work[w].due \in Nat /\ work[w].read \in Seq(Msgs)
  BY <1>4, RawIs, WorkTypes, WorkFields
<1>8. /\ \A m \in Written : m \in Recorded
      /\ \A m \in Recorded : m \in Msgs
      /\ \A m \in Recorded' : m \in Msgs
  BY Bounds DEF Written, Recorded
<1> QED BY <1>1, <1>2, <1>3, <1>4, <1>5, <1>6, <1>7, <1>8

\* What is owed by a due time that was read does not grow.
LEMMA OwedShrinks ==
  ASSUME SummaryInv, Next, NEW due \in Nat, due <= closed,
         NEW m \in Written', sent'[m] < due, ~Accounted(m)'
  PROVE  m \in Written /\ sent'[m] = sent[m] /\ sent[m] < due /\ ~Accounted(m)
<1>1. Grows
  BY StepGrows
<1>2. m \in Written
  <2> SUFFICES ASSUME m \notin Written PROVE FALSE
    OBVIOUS
  <2>1. m \in missed' \/ sent'[m] >= closed
    BY <1>1 DEF Grows
  <2>2. m \notin missed'
    BY DEF Accounted
  <2>3. sent'[m] \in Nat /\ closed \in Nat
    <3>1. m \in Recorded'
      BY Bounds DEF Written, Recorded
    <3> QED BY <3>1, FineTypes
  <2> QED BY <2>1, <2>2, <2>3, SMT
<1>3. m \in Recorded
  BY <1>2, FineTypes
<1> QED BY <1>1, <1>2, <1>3, AccountedStays, FineTypes

\* A worker that takes no step stays right about the state.
LEMMA OthersFine ==
  ASSUME SummaryInv, Next, NEW w \in Workers, work'[w] = work[w]
  PROVE  Fine(work[w])'
<1> USE FineTypes
<1>1. Fine(work[w])
  BY DEF SummaryInv, WorkInv
<1>2. work[w].pc # "idle" => work[w].id \in Written' /\ sent'[work[w].id] + Window <= work[w].due
  BY <1>1 DEF Fine
<1>3. ToSet(work[w].read) \subseteq Recorded' /\ work[w].lines \subseteq Recorded'
  BY <1>1 DEF Fine
<1>4. work[w].pc = "stored" => work[w].due <= end'
  <2> SUFFICES ASSUME work[w].pc = "stored" PROVE work[w].due <= end'
    OBVIOUS
  <2>1. work[w].due <= end /\ work[w].due \in Nat
    BY <1>1 DEF Fine
  <2> QED BY <2>1, SMT
<1>5. work[w].pc \in {"stored", "complete"} => sent'[work[w].id] < end'
  <2> SUFFICES ASSUME work[w].pc \in {"stored", "complete"} PROVE sent'[work[w].id] < end'
    OBVIOUS
  <2>1. sent[work[w].id] < end /\ work[w].id \in Recorded
    BY <1>1 DEF Fine
  <2>2. sent'[work[w].id] = sent[work[w].id] /\ sent[work[w].id] \in Nat
    BY <2>1
  <2> QED BY <2>1, <2>2, SMT
<1>6. ASSUME work[w].due <= closed
      PROVE  work[w].due <= closed'
  <2>1. work[w].due \in Nat
    OBVIOUS
  <2> QED BY <1>6, <2>1, SMT
<1>7. ASSUME work[w].due <= closed, NEW m \in Written', sent'[m] < work[w].due, ~Accounted(m)'
      PROVE  m \in Owed(work[w]) /\ sent'[m] = sent[m]
  <2>1. work[w].due \in Nat
    OBVIOUS
  <2> QED BY <1>7, <2>1, OwedShrinks DEF Owed
<1>8. ASSUME work[w].pc = "read"
      PROVE  Gathered(work[w])'
  <2>1. Gathered(work[w]) /\ work[w].id \in Recorded
    BY <1>1, <1>8 DEF Fine
  <2>2. \A i \in DOMAIN work[w].read : work[w].read[i] \in Recorded
    <3>1. \A i \in DOMAIN work[w].read : work[w].read[i] \in ToSet(work[w].read)
      BY Zenon DEF ToSet
    <3> QED BY <1>1, <3>1 DEF Fine
  <2>3. \A i, j \in DOMAIN work[w].read :
          i < j => sent'[work[w].read[i]] <= sent'[work[w].read[j]]
    BY <2>1, <2>2 DEF Gathered
  <2>4. work[w].due <= closed /\ work[w].due <= closed'
    BY <1>6, <2>1 DEF Gathered
  <2>5. ASSUME NEW m \in Written', sent'[m] < work[w].due, ~Accounted(m)'
        PROVE  m \in ToSet(work[w].read) /\ sent'[m] <= sent'[work[w].id]
    BY <1>7, <2>1, <2>4, <2>5 DEF Gathered
  <2>6. \A m \in Owed(work[w])' : m \in ToSet(work[w].read) /\ sent'[m] <= sent'[work[w].id]
    BY <2>5 DEF Owed
  <2> QED BY <2>3, <2>4, <2>6 DEF Gathered
<1>9. ASSUME work[w].pc = "asking"
      PROVE  Chosen(work[w])'
  <2>1. Chosen(work[w]) /\ work[w].id \in Recorded /\ work[w].lines \subseteq Recorded
    BY <1>1, <1>9 DEF Fine
  <2>2. \A n \in work[w].lines : sent'[n] = sent[n]
    BY <2>1
  <2>3. \A n \in work[w].lines : sent'[n] < work[w].due
    BY <2>1, <2>2 DEF Chosen
  <2>4. work[w].due <= closed /\ work[w].due <= closed'
    BY <1>6, <2>1 DEF Chosen
  <2>5. ASSUME NEW m \in Written', sent'[m] < work[w].due, ~Accounted(m)'
        PROVE  /\ sent'[m] <= sent'[work[w].id]
               /\ m \in work[w].lines \/ (/\ Cardinality(work[w].lines) = MaxLines
                                          /\ \A n \in work[w].lines : sent'[n] >= sent'[m])
    <3>1. m \in Owed(work[w]) /\ sent'[m] = sent[m]
      BY <1>7, <2>4, <2>5
    <3> QED BY <2>1, <2>2, <3>1 DEF Chosen
  <2>6. \A m \in Owed(work[w])' :
               /\ sent'[m] <= sent'[work[w].id]
               /\ m \in work[w].lines \/ (/\ Cardinality(work[w].lines) = MaxLines
                                          /\ \A n \in work[w].lines : sent'[n] >= sent'[m])
    BY <2>5 DEF Owed
  <2> QED BY <2>3, <2>4, <2>6 DEF Chosen
<1> QED BY <1>2, <1>3, <1>4, <1>5, <1>8, <1>9 DEF Fine

\* A worker without a read or a transcript that owes anything.
LEMMA PlainFine ==
  ASSUME SummaryInv, Next, NEW w \in Workers, work[w].pc # "idle",
         NEW pc \in {"claimed", "newer", "release", "failing", "stored", "complete"},
         NEW read, NEW lines, ToSet(read) \subseteq Recorded, lines \subseteq Recorded,
         Becomes(w, pc, work[w].id, work[w].due, read, lines),
         pc = "stored" => work[w].due <= end',
         pc \in {"stored", "complete"} => sent[work[w].id] < end'
  PROVE  Fine(work[w])'
<1> USE FineTypes
<1>1. work[w].id \in Written /\ sent[work[w].id] + Window <= work[w].due
  BY DEF SummaryInv, WorkInv, Fine
<1>2. sent'[work[w].id] = sent[work[w].id] /\ work[w].id \in Written'
  BY <1>1
<1>3. ToSet(read) \subseteq Recorded' /\ lines \subseteq Recorded'
  OBVIOUS
<1> QED BY <1>1, <1>2, <1>3 DEF Fine, Becomes

LEMMA EmptyRead == ToSet(<<>>) = {}
BY SMT DEF ToSet

LEMMA IdleFine ==
  ASSUME SummaryInv, NEW w \in Workers, Becomes(w, "idle", NoMsg, 0, <<>>, {})
  PROVE  Fine(work[w])'
BY EmptyRead DEF Becomes, Fine

LEMMA ClaimFine ==
  ASSUME SummaryInv, Next, NEW w \in Workers, Claim(w)
  PROVE  Fine(work[w])'
<1>1. Becomes(w, "claimed", job.id, job.due, <<>>, {}) /\ sent' = sent
  BY ClaimIs DEF Claim
<1>2. job.id \in Written /\ sent[job.id] + Window <= job.due
  BY DEF Claim, Claimable, SummaryInv, RowInv
<1>3. Written' = Written
  BY <1>1, SentStays
<1> QED BY <1>1, <1>2, <1>3, EmptyRead DEF Becomes, Fine

\* A read that finds no newer message has all that is owed: what it does not
\* reach is missed, and the rest is in the raw row.
LEMMA ReadFine ==
  ASSUME SummaryInv, Next, NEW w \in Workers, Read(w)
  PROVE  Fine(work[w])'
<1> USE FineTypes
<1>1. /\ work[w].pc = "claimed" /\ sent' = sent /\ work[w].pc # "idle"
      /\ UNCHANGED <<raw, end, segments>>
  BY ReadCases
<1>2. /\ ToSet(work[w].read) \subseteq Recorded /\ work[w].lines \subseteq Recorded
      /\ work[w].id \in Written /\ sent[work[w].id] + Window <= work[w].due
  BY <1>1 DEF SummaryInv, WorkInv, Fine
<1>3. CASE Becomes(w, "failing", work[w].id, work[w].due, work[w].read, work[w].lines)
  BY <1>1, <1>2, <1>3, PlainFine
<1>4. ASSUME NEW s \in Reads
      PROVE  /\ ToSet(s) \subseteq Recorded /\ ToSet(s) \subseteq ToSet(raw) /\ s \in Seq(Msgs)
             /\ \A i, j \in DOMAIN s : i < j => sent[s[i]] <= sent[s[j]]
             /\ \A m \in ToSet(raw) \ ToSet(s) :
                  Cardinality({n \in ToSet(raw) : Before(m, n)}) >= ReadLimit
  BY RawIs, ReadsAre
<1>5. ASSUME NEW s \in Reads,
             Becomes(w, "newer", work[w].id, work[w].due, s, work[w].lines)
      PROVE  Fine(work[w])'
  BY <1>1, <1>2, <1>4, <1>5, PlainFine
<1>6. ASSUME NEW s \in Reads, ~HasNewer([work[w] EXCEPT !.read = s]),
             Becomes(w, "read", work[w].id, work[w].due, s, work[w].lines),
             closed' = IF work[w].due > closed THEN work[w].due ELSE closed,
             missed' = missed \union OutOfReach(work[w].due)
      PROVE  Fine(work[w])'
  <2> DEFINE l == [work[w] EXCEPT !.read = s]
             id == work[w].id
             due == work[w].due
  <2>1. l.read = s /\ l.id = id
    BY RawIs, WorkTypes, SMT DEF WorkRecords
  <2>2. \A m \in ToSet(s) : m \in UserMsgs => ~(sent[m] > sent[id])
    BY <1>6, <2>1 DEF HasNewer, ReadUsers
  <2> HIDE DEF l
  <2>3. due <= closed'
    <3>1. due \in Nat /\ closed \in Nat
      OBVIOUS
    <3> QED BY <1>6, <3>1, SMT
  <2>4. ASSUME NEW m \in Written', sent'[m] < due, ~Accounted(m)'
        PROVE  m \in ToSet(s) /\ sent'[m] <= sent'[id]
    <3>1. m \in Written /\ m \in Recorded /\ sent[m] < due /\ m \in UserMsgs
      <4>1. m \in Written
        BY <1>1, SentStays
      <4> QED BY <1>1, <2>4, <4>1 DEF Written
    <3>2. m \in ToSet(raw)
      <4>1. ~Accounted(m)
        BY <2>4, <3>1, AccountedStays
      <4> QED BY <3>1, <4>1 DEF SummaryInv, RawInv
    <3>3. m \notin OutOfReach(due)
      BY <1>6, <2>4 DEF Accounted
    <3>4. m \in ToSet(s)
      BY <1>4, <3>1, <3>2, <3>3 DEF OutOfReach
    <3>5. sent[m] \in Nat /\ sent[id] \in Nat /\ ~(sent[m] > sent[id])
      BY <1>2, <2>2, <3>1, <3>4
    <3> QED BY <1>1, <3>4, <3>5, SMT
  <2>5. \A m \in Owed(work[w])' : m \in ToSet(s) /\ sent'[m] <= sent'[id]
    BY <1>6, <2>4 DEF Owed, Becomes
  <2>6. Gathered(work[w])'
    BY <1>1, <1>4, <1>6, <2>3, <2>5 DEF Gathered, Becomes
  <2>7. Recorded' = Recorded /\ Written' = Written
    BY <1>1, SentStays
  <2>8. /\ work'[w].pc = "read" /\ work'[w].id = id /\ work'[w].due = due
        /\ work'[w].read = s /\ work'[w].lines = work[w].lines
    BY <1>6 DEF Becomes
  <2>9. /\ id \in Written' /\ sent'[id] + Window <= due
        /\ ToSet(s) \subseteq Recorded' /\ work[w].lines \subseteq Recorded'
    BY <1>1, <1>2, <1>4, <2>7
  <2> HIDE DEF id, due
  <2> QED BY <2>6, <2>8, <2>9 DEF Fine
<1> QED BY <1>3, <1>5, <1>6, ReadCases

\* The lines given to the model are the latest of what was read since the end:
\* what is owed is among them, or they are MaxLines and later.
LEMMA ReadMemoryFine ==
  ASSUME SummaryInv, Next, NEW w \in Workers, ReadMemory(w)
  PROVE  Fine(work[w])'
<1> USE FineTypes
<1>1. /\ work[w].pc = "read" /\ work[w].pc # "idle"
      /\ UNCHANGED <<now, sent, raw, job, end, segments, closed, missed>>
  BY ReadMemoryCases
<1>2. /\ Gathered(work[w]) /\ work[w].id \in Written
      /\ ToSet(work[w].read) \subseteq Recorded
      /\ sent[work[w].id] + Window <= work[w].due
  BY <1>1 DEF SummaryInv, WorkInv, Fine
<1>3. CASE Becomes(w, "failing", work[w].id, work[w].due, <<>>, {})
  BY <1>1, <1>3, EmptyRead, PlainFine
<1>4. CASE /\ work[w].id \in StoredIds
           /\ Becomes(w, "complete", work[w].id, work[w].due, <<>>, {})
  <2>1. PICK i \in DOMAIN segments : segments[i].id = work[w].id
    BY <1>4, Zenon DEF StoredIds
  <2>2. sent[work[w].id] < end'
    BY <1>1, <2>1 DEF SummaryInv, SegmentsInv
  <2> QED BY <1>1, <1>4, <2>2, EmptyRead, PlainFine
<1>5. ASSUME NEW from \in {0, end}, NEW lines \in SUBSET Msgs,
             lines \subseteq InSegment(work[w], from),
             IsTranscript(lines, InSegment(work[w], from), work[w].read),
             Becomes(w, "asking", work[w].id, work[w].due, <<>>, lines)
      PROVE  Fine(work[w])'
  <2> DEFINE id == work[w].id
             due == work[w].due
             window == InSegment(work[w], from)
  <2>1. \A n \in lines : n \in ToSet(work[w].read) /\ sent[n] < due /\ n \in Recorded
    BY <1>2, <1>5 DEF InSegment
  <2>2. due <= closed
    BY <1>2 DEF Gathered
  <2>3. Recorded' = Recorded /\ Written' = Written
    BY <1>1, SentStays
  <2>4. ASSUME NEW m \in Written', sent'[m] < due, ~Accounted(m)'
        PROVE  /\ sent'[m] <= sent'[id]
               /\ m \in lines \/ (/\ Cardinality(lines) = MaxLines
                                  /\ \A n \in lines : sent'[n] >= sent'[m])
    <3>1. m \in Written /\ m \in Recorded /\ sent[m] < due /\ ~Accounted(m) /\ m \in UserMsgs
      <4>1. m \in Written
        BY <2>3
      <4>2. ~Accounted(m)
        BY <2>4, <4>1, AccountedStays
      <4> QED BY <1>1, <2>4, <4>1, <4>2 DEF Written
    <3>2. m \in Owed(work[w])
      BY <3>1 DEF Owed
    <3>3. m \in ToSet(work[w].read) /\ sent[m] <= sent[id]
      BY <1>2, <3>2 DEF Gathered
    <3>4. sent[m] >= from
      <4>1. ~(sent[m] < end)
        BY <3>1, Zenon DEF SummaryInv, NothingSkipped, Written, Accounted
      <4>2. sent[m] \in Nat /\ end \in Nat
        BY <3>1
      <4> QED BY <4>1, <4>2, SMT
    <3>5. m \in window
      BY <3>1, <3>3, <3>4 DEF InSegment
    <3>6. ASSUME m \notin lines
          PROVE  /\ Cardinality(lines) = MaxLines
                 /\ \A n \in lines : sent[n] >= sent[m]
      <4>1. /\ Cardinality(lines) = MaxLines
            /\ \A n \in lines : Precedes(work[w].read, m, n)
        BY <1>5, <3>5, <3>6 DEF IsTranscript
      <4>2. ASSUME NEW n \in lines
            PROVE  sent[n] >= sent[m]
        <5>1. PICK i \in DOMAIN work[w].read, j \in DOMAIN work[w].read :
                     i < j /\ work[w].read[i] = m /\ work[w].read[j] = n
          BY <4>1 DEF Precedes
        <5>2. sent[m] <= sent[n]
          BY <1>2, <5>1 DEF Gathered
        <5>3. sent[m] \in Nat /\ sent[n] \in Nat
          BY <2>1, <3>1
        <5> QED BY <5>2, <5>3, SMT
      <4> QED BY <4>1, <4>2
    <3> QED BY <1>1, <3>3, <3>6
  <2>5. /\ work'[w].pc = "asking" /\ work'[w].id = id /\ work'[w].due = due
        /\ work'[w].read = <<>> /\ work'[w].lines = lines
    BY <1>5 DEF Becomes
  <2>6. /\ id \in Written' /\ sent'[id] + Window <= due /\ lines \subseteq Recorded'
        /\ \A n \in lines : sent'[n] < due
        /\ due <= closed'
    BY <1>1, <1>2, <2>1, <2>2, <2>3
  <2> HIDE DEF id, due, window
  <2>7. \A m \in Owed(work[w])' :
           /\ sent'[m] <= sent'[id]
           /\ m \in lines \/ (/\ Cardinality(lines) = MaxLines
                              /\ \A n \in lines : sent'[n] >= sent'[m])
    BY <2>4, <2>5 DEF Owed
  <2>8. Chosen(work[w])'
    BY <2>5, <2>6, <2>7 DEF Chosen
  <2> QED BY <2>5, <2>6, <2>8, EmptyRead DEF Fine
<1> QED BY <1>3, <1>4, <1>5, ReadMemoryCases

LEMMA StoreFine ==
  ASSUME SummaryInv, Next, NEW w \in Workers, Store(w)
  PROVE  Fine(work[w])'
<1>1. work[w].pc = "asking" /\ work[w].pc # "idle"
  BY StoreCases
<1>2. CASE Becomes(w, "failing", work[w].id, work[w].due, <<>>, {})
  BY <1>1, <1>2, EmptyRead, PlainFine
<1>3. CASE /\ end' = IF work[w].due > end THEN work[w].due ELSE end
           /\ Becomes(w, "stored", work[w].id, work[w].due, <<>>, {})
  <2>1. /\ sent[work[w].id] + Window <= work[w].due /\ work[w].due \in Nat
        /\ sent[work[w].id] \in Nat /\ end \in Nat
    BY <1>1, AskingIs, FineTypes
  <2>2. work[w].due <= end'
    BY <1>3, <2>1, SMT
  <2>3. end' \in Nat
    BY FineTypes
  <2>4. sent[work[w].id] < end'
    BY <2>1, <2>2, <2>3, Bounds, SMT
  <2> QED BY <1>1, <1>3, <2>2, <2>4, EmptyRead, PlainFine
<1> QED BY <1>2, <1>3, StoreCases

LEMMA WorkKept ==
  ASSUME SummaryInv, Next
  PROVE  WorkInv'
<1>1. ASSUME work' = work
      PROVE  WorkInv'
  <2>1. \A w \in Workers : Fine(work[w])'
    BY <1>1, OthersFine
  <2> QED BY <2>1 DEF WorkInv
<1>2. ASSUME NEW w \in Workers, Fine(work[w])',
             \A v \in Workers : v # w => work'[v] = work[v]
      PROVE  WorkInv'
  <2>1. \A v \in Workers : Fine(work[v])'
    <3> SUFFICES ASSUME NEW v \in Workers PROVE Fine(work[v])'
      OBVIOUS
    <3>1. CASE v = w
      BY <1>2, <3>1
    <3>2. CASE v # w
      BY <1>2, <3>2, OthersFine
    <3> QED BY <3>1, <3>2
  <2> QED BY <2>1 DEF WorkInv
<1>3. CASE RecordInbound \/ RecordAgain \/ RecordOutbound \/ Tick
  BY <1>1, <1>3, InboundIs, AgainIs, OutboundIs DEF Tick
<1>4. ASSUME NEW w \in Workers, Release(w) \/ Complete(w) \/ Fail(w) \/ Crash(w)
      PROVE  WorkInv'
  <2>1. Becomes(w, "idle", NoMsg, 0, <<>>, {})
    BY <1>4, RawIs, IdleIs, CrashIs DEF Release, Complete, Fail
  <2> QED BY <1>2, <2>1, IdleFine DEF Becomes
<1>5. ASSUME NEW w \in Workers, Claim(w)
      PROVE  WorkInv'
  <2>1. Becomes(w, "claimed", job.id, job.due, <<>>, {})
    BY <1>5, ClaimIs
  <2> QED BY <1>2, <1>5, <2>1, ClaimFine DEF Becomes
<1>6. ASSUME NEW w \in Workers, PutOff(w)
      PROVE  WorkInv'
  <2>1. work[w].pc = "newer" /\ work[w].pc # "idle"
    BY <1>6 DEF PutOff
  <2>2. Becomes(w, "release", work[w].id, work[w].due, <<>>, {})
    BY <1>6, RawIs, ProceedIs DEF PutOff, Proceed, Pcs
  <2> QED BY <1>2, <2>1, <2>2, EmptyRead, PlainFine DEF Becomes
<1>7. ASSUME NEW w \in Workers, Read(w)
      PROVE  WorkInv'
  <2>1. \A v \in Workers : v # w => work'[v] = work[v]
    BY <1>7, ReadCases, Zenon DEF Becomes
  <2> QED BY <1>2, <1>7, <2>1, ReadFine
<1>8. ASSUME NEW w \in Workers, ReadMemory(w)
      PROVE  WorkInv'
  <2>1. \A v \in Workers : v # w => work'[v] = work[v]
    BY <1>8, ReadMemoryCases, Zenon DEF Becomes
  <2> QED BY <1>2, <1>8, <2>1, ReadMemoryFine
<1>9. ASSUME NEW w \in Workers, Store(w)
      PROVE  WorkInv'
  <2>1. \A v \in Workers : v # w => work'[v] = work[v]
    BY <1>9, StoreCases, Zenon DEF Becomes
  <2> QED BY <1>2, <1>9, <2>1, StoreFine
<1>10. ASSUME NEW w \in Workers, Prune(w)
       PROVE  WorkInv'
  <2>1. /\ work[w].pc = "stored" /\ work[w].pc # "idle" /\ end' = end
        /\ Becomes(w, "complete", work[w].id, work[w].due, work[w].read, work[w].lines)
    BY <1>10, PruneCases
  <2>2. /\ sent[work[w].id] < end'
        /\ ToSet(work[w].read) \subseteq Recorded /\ work[w].lines \subseteq Recorded
    BY <2>1 DEF SummaryInv, WorkInv, Fine
  <2> QED BY <1>2, <2>1, <2>2, PlainFine DEF Becomes
<1>11. ASSUME NEW w \in Workers, Claim(w) \/ Step(w) \/ Crash(w)
       PROVE  WorkInv'
  BY <1>4, <1>5, <1>6, <1>7, <1>8, <1>9, <1>10, <1>11 DEF Step
<1> QED BY <1>3, <1>11, Zenon DEF Next

------------------------------------------------------------------------------
(* One worker at a time. *)

\* While no claim was taken over, a worker at work holds the job, so every
\* other one is idle.
LEMMA Alone ==
  ASSUME SummaryInv, ~shared, NEW w \in Workers, work[w].pc # "idle"
  PROVE  job.by = w /\ \A v \in Workers : v # w => work[v].pc = "idle"
BY DEF SummaryInv, SoleInv

\* After a step of the only worker at work.
LEMMA SoleStep ==
  ASSUME SummaryInv, NEW w \in Workers, ~shared,
         \A v \in Workers : v # w => work'[v] = work[v] /\ work[v].pc = "idle",
         work'[w].pc # "idle" => job'.by = w,
         work'[w].pc = "asking" => \A n \in work'[w].lines : sent'[n] >= end'
  PROVE  SoleInv'
<1> SUFFICES ASSUME NEW v \in Workers
             PROVE  /\ work'[v].pc # "idle" => job'.by = v
                    /\ work'[v].pc = "asking" => \A n \in work'[v].lines : sent'[n] >= end'
  BY DEF SoleInv
<1>1. CASE v = w
  BY <1>1
<1>2. CASE v # w
  <2>1. work'[v].pc = "idle"
    BY <1>2
  <2> QED BY <2>1
<1> QED BY <1>1, <1>2

LEMMA SoleKept ==
  ASSUME SummaryInv, Next
  PROVE  SoleInv'
<1> USE FineTypes, RawIs
<1>1. CASE shared'
  BY <1>1 DEF SoleInv
<1>2. ASSUME ~shared', job'.by = job.by, work' = work, end' = end
      PROVE  SoleInv'
  <2>1. ~shared
    BY <1>2, SharedStays
  <2>2. ASSUME NEW w \in Workers, work[w].pc = "asking"
        PROVE  \A n \in work[w].lines : sent'[n] >= end
    BY <2>1, <2>2, AskingIs
  <2> QED BY <1>2, <2>1, <2>2 DEF SummaryInv, SoleInv
<1>3. ASSUME ~shared', RecordInbound \/ RecordAgain \/ RecordOutbound \/ Tick
      PROVE  SoleInv'
  <2>1. job'.by = job.by
    <3>1. CASE RecordInbound \/ RecordAgain
      BY <3>1, InboundIs, AgainIs, RowIsGood, ScheduledSays
    <3>2. CASE RecordOutbound
      BY <3>2, OutboundIs
    <3>3. CASE Tick
      BY <3>3, RowIsGood, AgedSays DEF Tick
    <3> QED BY <1>3, <3>1, <3>2, <3>3
  <2>2. work' = work /\ end' = end
    BY <1>3, InboundIs, AgainIs, OutboundIs DEF Tick
  <2> QED BY <1>2, <1>3, <2>1, <2>2
<1>4. ASSUME ~shared', NEW w \in Workers, Claim(w)
      PROVE  SoleInv'
  <2>1. /\ ~shared /\ ~Held /\ Claimable(job, now) /\ work[w].pc = "idle"
        /\ job' = Claimed(job, w)
    BY <1>4 DEF Claim
  <2>2. ASSUME NEW v \in Workers
        PROVE  work[v].pc = "idle"
    <3> SUFFICES ASSUME work[v].pc # "idle" PROVE FALSE
      OBVIOUS
    <3>1. job.by = v /\ v # Nobody
      BY <2>1, Alone, Bounds
    <3>2. job.status = "running"
      BY <3>1, RowIsGood DEF GoodRow, ClaimIsKnown
    <3> QED BY <2>1, <3>1, <3>2 DEF Held
  <2>3. Becomes(w, "claimed", job.id, job.due, <<>>, {}) /\ job'.by = w
    BY <1>4, <2>1, ClaimIs, RowIsGood, ClaimedSays
  <2> QED BY <2>1, <2>2, <2>3, SoleStep DEF Becomes
<1>5. ASSUME ~shared', NEW w \in Workers, work[w].pc # "idle",
             \A v \in Workers : v # w => work'[v] = work[v],
             work'[w].pc # "idle" => job'.by = job.by,
             work'[w].pc = "asking" => \A n \in work'[w].lines : sent'[n] >= end'
      PROVE  SoleInv'
  <2>1. ~shared
    BY <1>5, SharedStays
  <2> QED BY <1>5, <2>1, Alone, SoleStep
<1>6. ASSUME ~shared', NEW w \in Workers, Release(w) \/ Complete(w) \/ Fail(w) \/ Crash(w)
      PROVE  SoleInv'
  <2>1. Becomes(w, "idle", NoMsg, 0, <<>>, {})
    BY <1>6, IdleIs, CrashIs DEF Release, Complete, Fail
  <2>2. work[w].pc # "idle"
    BY <1>6 DEF Release, Complete, Fail, Crash
  <2> QED BY <1>5, <1>6, <2>1, <2>2 DEF Becomes
<1>7. ASSUME ~shared', NEW w \in Workers, PutOff(w)
      PROVE  SoleInv'
  <2>1. work[w].pc = "newer"
    BY <1>7 DEF PutOff
  <2>2. Becomes(w, "release", work[w].id, work[w].due, <<>>, {})
    BY <1>7, ProceedIs DEF PutOff, Proceed, Pcs
  <2>3. job'.by = job.by
    BY <1>7, RowIsGood, ScheduledSays DEF PutOff
  <2> QED BY <1>5, <1>7, <2>1, <2>2, <2>3 DEF Becomes
<1>8. ASSUME ~shared', NEW w \in Workers, Read(w)
      PROVE  SoleInv'
  <2>1. /\ work[w].pc = "claimed" /\ job' = job
        /\ \A v \in Workers : v # w => work'[v] = work[v]
        /\ work'[w].pc \in {"read", "newer", "failing"}
    BY <1>8, ReadCases, Zenon DEF Becomes
  <2> QED BY <1>5, <1>8, <2>1
<1>9. ASSUME ~shared', NEW w \in Workers, ReadMemory(w)
      PROVE  SoleInv'
  <2>1. work[w].pc = "read" /\ job' = job /\ sent' = sent /\ end' = end
    BY <1>9, ReadMemoryCases
  <2>2. CASE \E pc \in {"complete", "failing"} :
               Becomes(w, pc, work[w].id, work[w].due, <<>>, {})
    BY <1>5, <1>9, <2>1, <2>2 DEF Becomes
  <2>3. ASSUME NEW lines, lines \subseteq InSegment(work[w], end),
               Becomes(w, "asking", work[w].id, work[w].due, <<>>, lines)
        PROVE  SoleInv'
    <3>1. \A n \in lines : sent[n] >= end
      BY <2>3 DEF InSegment
    <3> QED BY <1>5, <1>9, <2>1, <2>3, <3>1 DEF Becomes
  <2>4. \/ \E pc \in {"complete", "failing"} :
             Becomes(w, pc, work[w].id, work[w].due, <<>>, {})
        \/ \E lines : /\ lines \subseteq InSegment(work[w], end)
                      /\ Becomes(w, "asking", work[w].id, work[w].due, <<>>, lines)
    BY <1>9, ReadMemoryCases
  <2> QED BY <2>2, <2>3, <2>4
<1>10. ASSUME ~shared', NEW w \in Workers, Store(w)
       PROVE  SoleInv'
  <2>1. work[w].pc = "asking" /\ job' = job
    BY <1>10, StoreCases
  <2>2. PICK pc \in {"stored", "failing"} :
               Becomes(w, pc, work[w].id, work[w].due, <<>>, {})
    BY <1>10, StoreCases
  <2> QED BY <1>5, <1>10, <2>1, <2>2 DEF Becomes
<1>11. ASSUME ~shared', NEW w \in Workers, Prune(w)
       PROVE  SoleInv'
  <2>1. /\ work[w].pc = "stored" /\ job' = job
        /\ Becomes(w, "complete", work[w].id, work[w].due, work[w].read, work[w].lines)
    BY <1>11, PruneCases
  <2> QED BY <1>5, <1>11, <2>1 DEF Becomes
<1>12. ASSUME ~shared', NEW w \in Workers, Claim(w) \/ Step(w) \/ Crash(w)
       PROVE  SoleInv'
  BY <1>4, <1>6, <1>7, <1>8, <1>9, <1>10, <1>11, <1>12 DEF Step
<1> QED BY <1>1, <1>3, <1>12, Zenon DEF Next
------------------------------------------------------------------------------
(* The theorems. *)

\* Nothing is recorded, stored or claimed at first.
LEMMA InitInv == Init => SummaryInv
<1> SUFFICES ASSUME Init PROVE SummaryInv
  OBVIOUS
<1>1. /\ now = 1 /\ sent = [m \in Msgs |-> 0] /\ raw = <<>> /\ job = NoJob /\ end = 0
      /\ segments = <<>> /\ work = [w \in Workers |-> Idle] /\ closed = 0
      /\ missed = {} /\ shared = FALSE /\ faults = 0
  BY DEF Init
<1>2. /\ 1 \in 1 .. Horizon /\ 0 \in 0 .. Horizon /\ 0 \in 0 .. MaxFaults
      /\ Len(<<>>) <= KeepLast /\ 0 <= 0
  BY Bounds, SMT
<1>3. Idle \in WorkRecords
  BY Bounds, SMT DEF Idle, WorkRecords, Pcs
<1>4. NoJob \in JobRows(Workers, Ids) /\ ClaimIsKnown(NoJob)
  BY ZeroIsFine, SMT DEF NoJob, JobRows, ClaimIsKnown
<1>5. TypeOK
  <2>1. sent \in [Msgs -> 0 .. Horizon]
    BY <1>1, <1>2
  <2>2. <<>> \in Seq(Msgs) /\ <<>> \in Seq([id: Ids, msgs: SUBSET Msgs])
    BY SMT
  <2> QED BY <1>1, <1>2, <1>3, <1>4, <2>1, <2>2, Zenon DEF TypeOK, WorkRecords
<1>6. Recorded = {} /\ Written = {} /\ DOMAIN segments = {} /\ ToSet(raw) = {}
      /\ DOMAIN raw = {}
  <2>1. \A m \in Msgs : sent[m] = 0
    BY <1>1
  <2>2. DOMAIN <<>> = {}
    BY SMT
  <2> QED BY <1>1, <2>1, <2>2, EmptyRead, Bounds DEF Recorded, Written
<1>7. RawInv /\ SegmentsInv
  BY <1>6 DEF RawInv, SegmentsInv
<1>8. RowInv
  BY <1>1, <1>6 DEF RowInv, NoJob
<1>9. \A w \in Workers : work[w] = Idle
  BY <1>1
<1>10. WorkInv /\ SoleInv
  BY <1>9, EmptyRead DEF WorkInv, SoleInv, Fine, Idle
<1>11. TimesInv
  BY <1>1, <1>2, <1>6 DEF TimesInv
<1>12. NothingSkipped /\ SummarisedOnce
  BY <1>6 DEF NothingSkipped, SummarisedOnce, Written
<1> QED BY <1>5, <1>7, <1>8, <1>10, <1>11, <1>12 DEF SummaryInv

LEMMA StutterInv == SummaryInv /\ UNCHANGED vars => SummaryInv'
<1> SUFFICES ASSUME SummaryInv, UNCHANGED vars PROVE SummaryInv'
  OBVIOUS
<1>1. /\ now' = now /\ sent' = sent /\ raw' = raw /\ job' = job /\ end' = end
      /\ segments' = segments /\ work' = work /\ closed' = closed
      /\ missed' = missed /\ shared' = shared /\ faults' = faults
  BY DEF vars, store
<1>2. TypeOK' = TypeOK /\ NothingSkipped' = NothingSkipped /\ SummarisedOnce' = SummarisedOnce
  BY <1>1 DEF TypeOK, NothingSkipped, SummarisedOnce, Summarised, CrowdedOut
<1>3. RawInv' = RawInv /\ SegmentsInv' = SegmentsInv /\ RowInv' = RowInv /\ TimesInv' = TimesInv
  BY <1>1 DEF RawInv, SegmentsInv, RowInv, TimesInv, Accounted, Recorded, Written,
              Summarised, CrowdedOut
<1>4. WorkInv' = WorkInv /\ SoleInv' = SoleInv
  BY <1>1 DEF WorkInv, SoleInv, Fine, Gathered, Chosen, Owed, Accounted, Recorded, Written,
              Summarised, CrowdedOut
<1> QED BY <1>2, <1>3, <1>4 DEF SummaryInv

\* The invariant holds in every reachable state.
LEMMA InvHolds == Spec => []SummaryInv
<1>1. SummaryInv /\ [Next]_vars => SummaryInv'
  <2>1. ASSUME SummaryInv, Next
        PROVE  SummaryInv'
    BY <2>1, TypesKept, RawKept, SegmentsKept, RowKept, WorkKept, SoleKept, TimesKept,
       SkippedKept, OnceKept DEF SummaryInv
  <2> QED BY <2>1, StutterInv
<1> QED BY <1>1, InitInv, PTL DEF Spec

\* The rows of the tables, the workers and the history keep their types, the
\* raw row its bound and a claimed job its worker, whatever arrives, fails or
\* crashes (recorder.py, summary/worker.py and the SQL functions they call).
THEOREM SummaryIsTyped == Spec => []TypeOK
<1>1. SummaryInv => TypeOK
  BY DEF SummaryInv
<1> QED BY <1>1, InvHolds, PTL

\* No takeover, retry, prune or crash between the read, the append and the
\* prune of a worker loses a message of a user: each one before the end of the
\* stored segments is in one of them, unless it came too late, fell out of the
\* raw row or of the reach of a read, or gave way to a full transcript.
THEOREM NothingIsSkipped == Spec => []NothingSkipped
<1>1. SummaryInv => NothingSkipped
  BY DEF SummaryInv
<1> QED BY <1>1, InvHolds, PTL

\* A job that is done leaves no message after the end of the stored segments:
\* completing is for the worker that holds the claim of the newest message, and
\* that worker has moved the end past it.
THEOREM NothingIsForgotten == Spec => []NothingForgotten
<1>1. SummaryInv => NothingForgotten
  <2> SUFFICES ASSUME SummaryInv, NEW m \in UserMsgs, sent[m] # 0, sent[m] >= end,
                      job.status = "done"
               PROVE  FALSE
    BY DEF NothingForgotten
  <2>1. m \in Written
    BY DEF Written
  <2>2. /\ job.id \in Written /\ sent[m] <= sent[job.id] /\ sent[job.id] < end
    BY <2>1 DEF SummaryInv, RowInv
  <2>3. /\ sent[m] \in 0 .. Horizon /\ sent[job.id] \in 0 .. Horizon
        /\ end \in 0 .. Horizon
    BY <2>2, RawIs, TypeSays, Bounds DEF Written
  <2> QED BY <2>2, <2>3, Bounds, SMT
<1> QED BY <1>1, InvHolds, PTL

\* As long as no worker outlived its claim and the memory could be read, two
\* stored segments share no message, whatever is delivered again, retried or
\* interrupted by a crash.
THEOREM NothingIsSummarisedTwice == Spec => []SummarisedOnce
<1>1. SummaryInv => SummarisedOnce
  BY DEF SummaryInv
<1> QED BY <1>1, InvHolds, PTL
==============================================================================
