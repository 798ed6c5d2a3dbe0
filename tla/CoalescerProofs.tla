--------------------------- MODULE CoalescerProofs ---------------------------
(***************************************************************************)
(* For any number of messages, any debounce time and window, and whatever  *)
(* processing does: the coalescer keeps every message once and in order,   *)
(* no message waits longer for its first processing than for the window    *)
(* and for the lock, and the conversation is dealt with as the inbox       *)
(* promises.                                                               *)
(***************************************************************************)
EXTENDS Coalescer, SequenceTheorems, TLAPS

(* The invariant.  The sequences that make up Taken are spoken of one by    *)
(* one: each is increasing, and each ends before the next begins.          *)

Ordered(s, t) == \A x \in Elements(s), y \in Elements(t) : x < y

Writers == Elements(lockQ) \ {Timer}

\* Whoever queues for the lock does so once, messages in their order; a timer
\* that went off is there, and so is the message that waits for a cancelled
\* task.
OrderedQueue(q) ==
    \A i, j \in DOMAIN q : i < j =>
        /\ q[i] # q[j]
        /\ q[i] # Timer /\ q[j] # Timer => q[i] < q[j]

QueueInv ==
    /\ timer = "queued" <=> Timer \in Elements(lockQ)
    /\ OrderedQueue(lockQ)
    /\ cancelling => HasLock

\* Every message that arrived is in one place only, and those that have yet to
\* get the lock are the latest.
PlaceInv ==
    /\ Elements(handled) \cup Elements(inFlight) \cup Elements(pending)
          \cup lost \cup Writers = 1..Len(arrived)
    /\ lost \cap (Elements(handled) \cup Elements(inFlight) \cup Elements(pending)) = {}
    /\ \A w \in Writers :
          \A m \in Elements(handled) \cup Elements(inFlight) \cup Elements(pending) \cup lost :
             m < w

OrderInv ==
    /\ Increasing(handled) /\ Increasing(inFlight) /\ Increasing(pending)
    /\ Ordered(handled, inFlight) /\ Ordered(handled, pending)
    /\ Ordered(inFlight, pending)

\* What is in flight is the batch of the task that is going, or of the one that
\* a message waits for; nothing is pending meanwhile.
TaskInv ==
    /\ hasTask => tasks # <<>>
    /\ Processing => inFlight = Current.batch
    /\ inFlight # <<>> => Processing \/ cancelling
    /\ Processing \/ cancelling => pending = <<>>
    /\ hasTask /\ Current.state = "cancelled" => cancelling
    /\ \A m \in Elements(inFlight) : Tried(m)

\* The timer goes off before the window of the first message ends, and what is
\* pending has a timer.
WaitInv ==
    /\ timer = "sleeping" => due + age <= Window
    /\ pending # <<>> => timer # "none"
    /\ \A m \in Elements(pending) : ~Tried(m) => waited[m] <= age + held[m]
    /\ \A m \in Messages : m > Len(arrived) \/ m \in Writers => waited[m] = held[m]

CoalescerInv == TypeOK /\ QueueInv /\ PlaceInv /\ OrderInv /\ TaskInv /\ WaitInv

-----------------------------------------------------------------------------
(* The elements and the order of a sequence that is put together.          *)

LEMMA ElementsOfNone == Elements(<<>>) = {}
BY DEF Elements

LEMMA ElementsAre ==
    ASSUME NEW S, NEW s \in Seq(S), NEW x
    PROVE  x \in Elements(s) <=> \E i \in 1..Len(s) : x = s[i]
BY DEF Elements

LEMMA ElementsOfOne == \A x : Elements(<<x>>) = {x}
BY SMT DEF Elements

LEMMA ElementsOfConcat ==
    ASSUME NEW S, NEW s \in Seq(S), NEW t \in Seq(S)
    PROVE  Elements(s \o t) = Elements(s) \cup Elements(t)
<1>1. \A u : Elements(u) = Range(u)
  BY DEF Range, Elements
<1> QED BY <1>1, RangeConcatenation

LEMMA ElementsOfAppend ==
    ASSUME NEW S, NEW s \in Seq(S), NEW x \in S
    PROVE  Elements(Append(s, x)) = Elements(s) \cup {x}
<1>1. /\ Append(s, x) \in Seq(S) /\ Len(Append(s, x)) = Len(s) + 1
      /\ \A i \in 1..Len(s) : Append(s, x)[i] = s[i]
      /\ Append(s, x)[Len(s) + 1] = x
  OBVIOUS
<1>2. \A i : i \in 1..Len(s) + 1 <=> i \in 1..Len(s) \/ i = Len(s) + 1
  OBVIOUS
<1> QED BY <1>1, <1>2 DEF Elements

LEMMA ElementsHaveType ==
    ASSUME NEW S, NEW s \in Seq(S)
    PROVE  Elements(s) \subseteq S
BY DEF Elements

LEMMA IncreasingConcat ==
    ASSUME NEW s \in Seq(Nat), NEW t \in Seq(Nat),
           Increasing(s), Increasing(t), Ordered(s, t)
    PROVE  Increasing(s \o t)
<1>1. SUFFICES ASSUME NEW i \in 1..Len(s) + Len(t), NEW j \in 1..Len(s) + Len(t), i < j
               PROVE  (s \o t)[i] < (s \o t)[j]
  BY DEF Increasing
<1>2. CASE j <= Len(s)
  BY <1>1, <1>2 DEF Increasing
<1>3. CASE i > Len(s)
  <2>1. /\ i - Len(s) \in 1..Len(t) /\ j - Len(s) \in 1..Len(t)
        /\ i - Len(s) < j - Len(s)
        /\ (s \o t)[i] = t[i - Len(s)] /\ (s \o t)[j] = t[j - Len(s)]
    BY <1>1, <1>3
  <2> QED BY <2>1 DEF Increasing
<1>4. CASE i <= Len(s) /\ j > Len(s)
  <2>1. /\ j - Len(s) \in 1..Len(t)
        /\ (s \o t)[i] = s[i] /\ (s \o t)[j] = t[j - Len(s)]
    BY <1>1, <1>4
  <2>2. s[i] \in Elements(s) /\ t[j - Len(s)] \in Elements(t)
    BY <2>1, <1>4, <1>1 DEF Elements
  <2> QED BY <2>1, <2>2 DEF Ordered
<1> QED BY <1>1, <1>2, <1>3, <1>4

LEMMA IncreasingAppend ==
    ASSUME NEW s \in Seq(Nat), NEW x \in Nat, Increasing(s),
           \A y \in Elements(s) : y < x
    PROVE  Increasing(Append(s, x))
<1>1. SUFFICES ASSUME NEW i \in 1..Len(s) + 1, NEW j \in 1..Len(s) + 1, i < j
               PROVE  Append(s, x)[i] < Append(s, x)[j]
  BY DEF Increasing
<1>2. CASE j <= Len(s)
  BY <1>1, <1>2 DEF Increasing
<1>3. CASE j = Len(s) + 1
  <2>1. s[i] \in Elements(s)
    BY <1>1, <1>3 DEF Elements
  <2> QED BY <1>1, <1>3, <2>1
<1> QED BY <1>1, <1>2, <1>3

-----------------------------------------------------------------------------
(* The queue for the lock.                                                 *)

LEMMA TailOfQueue ==
    ASSUME NEW q \in Seq(Nat), q # <<>>, OrderedQueue(q)
    PROVE  /\ Tail(q) \in Seq(Nat) /\ OrderedQueue(Tail(q))
           /\ Head(q) \in Elements(q)
           /\ Elements(Tail(q)) = Elements(q) \ {Head(q)}
           /\ \A x \in Elements(Tail(q)) : Head(q) # Timer /\ x # Timer => Head(q) < x
<1>1. /\ Tail(q) \in Seq(Nat) /\ Len(q) \in Nat /\ Len(q) > 0
      /\ Head(q) = q[1] /\ DOMAIN q = 1..Len(q)
      /\ DOMAIN Tail(q) = 1..Len(q) - 1
      /\ \A i \in 1..Len(q) - 1 : Tail(q)[i] = q[i + 1] /\ i + 1 \in 1..Len(q)
  OBVIOUS
<1>2. \A i \in 2..Len(q) : i - 1 \in 1..Len(q) - 1 /\ Tail(q)[i - 1] = q[i]
  BY <1>1
<1>3. OrderedQueue(Tail(q))
  BY <1>1 DEF OrderedQueue
<1>4. \A i \in 2..Len(q) : q[1] # q[i] /\ (q[1] # Timer /\ q[i] # Timer => q[1] < q[i])
  BY <1>1 DEF OrderedQueue
<1>5. \A x : x \in Elements(Tail(q)) <=> \E i \in 2..Len(q) : x = q[i]
  <2>1. ASSUME NEW x, x \in Elements(Tail(q)) PROVE \E i \in 2..Len(q) : x = q[i]
    <3>1. PICK i \in 1..Len(q) - 1 : x = Tail(q)[i]
      BY <1>1, <2>1 DEF Elements
    <3> WITNESS i + 1 \in 2..Len(q)
    <3> QED BY <1>1, <3>1
  <2>2. ASSUME NEW i \in 2..Len(q) PROVE q[i] \in Elements(Tail(q))
    BY <1>1, <1>2, Zenon DEF Elements
  <2> QED BY <2>1, <2>2
<1>6. \A x : x \in Elements(q) <=> x = q[1] \/ \E i \in 2..Len(q) : x = q[i]
  BY <1>1 DEF Elements
<1> QED BY <1>1, <1>3, <1>4, <1>5, <1>6

\* A sequence without its place p.
LEMMA SequenceWithout ==
    ASSUME NEW S, NEW q \in Seq(S), NEW p \in 1..Len(q)
    PROVE  /\ Without(q, p) \in Seq(S) /\ DOMAIN Without(q, p) = 1..Len(q) - 1
           /\ \A i \in 1..Len(q) - 1 :
                 Without(q, p)[i] = q[IF i < p THEN i ELSE i + 1]
<1> DEFINE r == Without(q, p)
           left == SubSeq(q, 1, p - 1)
           right == SubSeq(q, p + 1, Len(q))
<1>1. Len(q) \in Nat /\ p \in Nat /\ \A i \in 1..Len(q) : q[i] \in S
  OBVIOUS
<1>2. /\ left \in Seq(S) /\ Len(left) = p - 1
      /\ \A i \in 1..p - 1 : left[i] = q[i]
  <2>1. \A i \in 1..p - 1 : q[i] \in S
    BY <1>1
  <2> QED BY <1>1, <2>1, SubSeqProperties
<1>3. /\ right \in Seq(S) /\ Len(right) = Len(q) - p
      /\ \A i \in 1..Len(q) - p : right[i] = q[p + i]
  <2>1. \A i \in p + 1..Len(q) : q[i] \in S
    BY <1>1
  <2> QED BY <1>1, <2>1, SubSeqProperties
<1>4. r = left \o right
  BY DEF Without
<1> HIDE DEF left, right, r
<1>5. /\ r \in Seq(S) /\ Len(r) = Len(q) - 1
      /\ \A i \in 1..p - 1 : r[i] = left[i]
      /\ \A i \in p..Len(q) - 1 : r[i] = right[i - (p - 1)]
  <2>1. /\ r \in Seq(S) /\ Len(r) = Len(left) + Len(right)
        /\ \A i \in 1..Len(left) + Len(right) :
              r[i] = IF i <= Len(left) THEN left[i] ELSE right[i - Len(left)]
    BY <1>2, <1>3, <1>4, ConcatProperties
  <2>2. Len(left) = p - 1 /\ Len(right) = Len(q) - p
    BY <1>2, <1>3
  <2>3. \A i \in 1..p - 1 : r[i] = left[i]
    BY <1>1, <2>1, <2>2
  <2>4. \A i \in p..Len(q) - 1 : r[i] = right[i - (p - 1)]
    BY <1>1, <2>1, <2>2
  <2>5. Len(r) = Len(q) - 1
    BY <1>1, <2>1, <2>2
  <2> QED BY <2>1, <2>3, <2>4, <2>5
<1>6. ASSUME NEW i \in 1..Len(q) - 1
      PROVE  r[i] = q[IF i < p THEN i ELSE i + 1]
  <2>1. CASE i < p
    BY <1>1, <1>2, <1>5, <2>1
  <2>2. CASE i >= p
    BY <1>1, <1>3, <1>5, <2>2
  <2> QED BY <2>1, <2>2, <1>1
<1> QED BY <1>1, <1>5, <1>6 DEF r

LEMMA QueueWithout ==
    ASSUME NEW q \in Seq(Nat), OrderedQueue(q), NEW p \in 1..Len(q)
    PROVE  /\ Without(q, p) \in Seq(Nat) /\ OrderedQueue(Without(q, p))
           /\ Elements(Without(q, p)) = Elements(q) \ {q[p]}
<1> DEFINE r == Without(q, p)
           back(i) == IF i < p THEN i ELSE i + 1
<1>1. Len(q) \in Nat /\ DOMAIN q = 1..Len(q) /\ p \in Nat
  OBVIOUS
<1>2. /\ r \in Seq(Nat) /\ DOMAIN r = 1..Len(q) - 1
      /\ \A i \in 1..Len(q) - 1 : r[i] = q[back(i)]
  BY SequenceWithout
<1> HIDE DEF r
<1>3. /\ \A i \in 1..Len(q) - 1 : back(i) \in 1..Len(q) /\ (back(i) < p \/ p < back(i))
      /\ \A i, j \in 1..Len(q) - 1 : i < j => back(i) < back(j)
  BY <1>1
<1>4. ASSUME NEW i \in 1..Len(q), i # p
      PROVE  \E j \in 1..Len(q) - 1 : back(j) = i
  <2>1. CASE i < p
    <3>1. i \in 1..Len(q) - 1 /\ back(i) = i
      BY <1>1, <2>1
    <3> QED BY <3>1
  <2>2. CASE i > p
    <3>1. i - 1 \in 1..Len(q) - 1 /\ back(i - 1) = i
      BY <1>1, <2>2
    <3> QED BY <3>1
  <2> QED BY <1>1, <1>4, <2>1, <2>2
<1> HIDE DEF back
<1>5. OrderedQueue(r)
  <2> SUFFICES ASSUME NEW i \in 1..Len(q) - 1, NEW j \in 1..Len(q) - 1, i < j
               PROVE  r[i] # r[j] /\ (r[i] # Timer /\ r[j] # Timer => r[i] < r[j])
    BY <1>2, Zenon DEF OrderedQueue
  <2> QED BY <1>1, <1>2, <1>3 DEF OrderedQueue
<1>6. ASSUME NEW x \in Elements(r)
      PROVE  x \in Elements(q) /\ x # q[p]
  <2>1. PICK i \in 1..Len(q) - 1 : x = r[i]
    BY <1>2, Zenon DEF Elements
  <2>2. x = q[back(i)] /\ q[back(i)] # q[p] /\ back(i) \in 1..Len(q)
    BY <1>1, <1>2, <1>3, <2>1 DEF OrderedQueue
  <2> QED BY <1>1, <2>2, Zenon DEF Elements
<1>7. ASSUME NEW x \in Elements(q), x # q[p]
      PROVE  x \in Elements(r)
  <2>1. PICK i \in 1..Len(q) : x = q[i] /\ i # p
    BY <1>1, <1>7 DEF Elements
  <2>2. PICK j \in 1..Len(q) - 1 : back(j) = i
    BY <1>4, <2>1
  <2>3. r[j] = x
    BY <1>2, <2>1, <2>2
  <2> QED BY <1>2, <2>3, Zenon DEF Elements
<1> QED BY <1>2, <1>5, <1>6, <1>7 DEF r

LEMMA TimerLeavesQueue ==
    ASSUME NEW q \in Seq(Nat), OrderedQueue(q), Timer \in Elements(q) <=> timer = "queued"
    PROVE  /\ TimerLeaves(q) \in Seq(Nat) /\ OrderedQueue(TimerLeaves(q))
           /\ Elements(TimerLeaves(q)) = Elements(q) \ {Timer}
<1>1. CASE timer = "queued"
  <2> DEFINE p == CHOOSE i \in DOMAIN q : q[i] = Timer
  <2>1. \E i \in DOMAIN q : q[i] = Timer
    BY <1>1 DEF Elements
  <2>2. p \in 1..Len(q) /\ q[p] = Timer
    <3>1. DOMAIN q = 1..Len(q)
      OBVIOUS
    <3> QED BY <2>1, <3>1, Zenon
  <2>3. TimerLeaves(q) = Without(q, p)
    BY <1>1 DEF TimerLeaves
  <2> HIDE DEF p
  <2> QED BY <2>2, <2>3, QueueWithout
<1>2. CASE timer # "queued"
  BY <1>2 DEF TimerLeaves
<1> QED BY <1>1, <1>2

-----------------------------------------------------------------------------
(* What the types say.                                                     *)

TaskRows == [batch : Seq(Messages), replied : BOOLEAN,
             state : {"running", "cancelled", "aborted", "finished", "failed"}]

LEMMA MessagesAreNumbers == Messages \subseteq Nat /\ Messages \cap {Timer} = {} /\ Timer \in Nat
BY BoundAssumption DEF Messages, Timer, BoundAssumption

LEMMA SequencesAreTyped ==
    ASSUME TypeOK
    PROVE  /\ handled \in Seq(Nat) /\ inFlight \in Seq(Nat) /\ pending \in Seq(Nat)
           /\ lockQ \in Seq(Nat) /\ Elements(lockQ) \subseteq Messages \cup {Timer}
           /\ Writers \subseteq Messages
           /\ tasks \in Seq(TaskRows) /\ Len(arrived) \in Nat
           /\ Elements(handled) \subseteq Messages /\ Elements(inFlight) \subseteq Messages
           /\ Elements(pending) \subseteq Messages
<1>1. Seq(Messages) \subseteq Seq(Nat)
  BY MessagesAreNumbers, SeqMonotonic
<1>2. Seq(Messages \cup {Timer}) \subseteq Seq(Nat)
  BY MessagesAreNumbers, SeqMonotonic
<1>3. /\ handled \in Seq(Messages) /\ inFlight \in Seq(Messages) /\ pending \in Seq(Messages)
      /\ lockQ \in Seq(Messages \cup {Timer}) /\ arrived \in Seq(Kinds)
      /\ tasks \in Seq(TaskRows)
  BY DEF TypeOK, TaskRows
<1>4. /\ Elements(handled) \subseteq Messages /\ Elements(inFlight) \subseteq Messages
      /\ Elements(pending) \subseteq Messages /\ Elements(lockQ) \subseteq Messages \cup {Timer}
  BY <1>3, ElementsHaveType
<1> QED BY <1>1, <1>2, <1>3, <1>4 DEF Writers

\* What is in flight and what is pending become one of the two, with the
\* messages of a set that was queuing for the lock.
LEMMA PlacesChange ==
    ASSUME TypeOK, PlaceInv, OrderInv, NEW batch \in Seq(Messages), NEW X \in SUBSET Writers,
           Elements(batch) = Elements(inFlight) \cup Elements(pending) \cup X,
           Increasing(batch), Ordered(handled, batch),
           \/ inFlight' = batch /\ pending' = <<>>
           \/ inFlight' = <<>> /\ pending' = batch,
           Writers' = Writers \ X, \A x \in X, w \in Writers' : x < w,
           UNCHANGED <<arrived, handled, lost>>
    PROVE  PlaceInv' /\ OrderInv'
<1>1. Elements(inFlight') \cup Elements(pending') = Elements(batch)
  BY ElementsOfNone
<1>2. PlaceInv'
  <2>1. \A w \in Writers : \A m \in Elements(handled) \cup lost : m < w
    BY DEF PlaceInv
  <2>2. \A w \in Writers, m \in Elements(inFlight) \cup Elements(pending) : m < w
    BY DEF PlaceInv
  <2>3. Elements(handled') = Elements(handled) /\ lost' = lost /\ Len(arrived') = Len(arrived)
    OBVIOUS
  <2>4. lost \cap X = {}
    <3>1. ASSUME NEW x \in X, x \in lost PROVE FALSE
      <4>1. x < x /\ x \in Nat
        BY <3>1, <2>1, SequencesAreTyped, MessagesAreNumbers
      <4> QED BY <4>1
    <3> QED BY <3>1
  <2> QED BY <1>1, <2>1, <2>2, <2>3, <2>4 DEF PlaceInv
<1>3. OrderInv'
  BY ElementsOfNone DEF OrderInv, Ordered, Increasing
<1> QED BY <1>2, <1>3

\* In flight and pending together are in order, also with a message after them.
LEMMA BatchIsOrdered ==
    ASSUME TypeOK, PlaceInv, OrderInv
    PROVE  LET queue == inFlight \o pending IN
           /\ queue \in Seq(Messages) /\ Increasing(queue) /\ Ordered(handled, queue)
           /\ Elements(queue) = Elements(inFlight) \cup Elements(pending)
           /\ \A m \in Writers :
                 /\ Append(queue, m) \in Seq(Messages)
                 /\ Increasing(Append(queue, m)) /\ Ordered(handled, Append(queue, m))
                 /\ Elements(Append(queue, m)) = Elements(inFlight) \cup Elements(pending) \cup {m}
<1> DEFINE queue == inFlight \o pending
<1>1. /\ inFlight \in Seq(Messages) /\ pending \in Seq(Messages)
      /\ inFlight \in Seq(Nat) /\ pending \in Seq(Nat)
  BY SequencesAreTyped DEF TypeOK
<1>2. queue \in Seq(Messages) /\ queue \in Seq(Nat)
  BY <1>1
<1>3. Elements(queue) = Elements(inFlight) \cup Elements(pending)
  BY <1>1, ElementsOfConcat
<1>4. Increasing(queue)
  BY <1>1, IncreasingConcat DEF OrderInv
<1>5. Ordered(handled, queue)
  BY <1>3 DEF OrderInv, Ordered
<1> HIDE DEF queue
<1>6. ASSUME NEW m \in Writers
      PROVE  /\ Append(queue, m) \in Seq(Messages)
             /\ Increasing(Append(queue, m)) /\ Ordered(handled, Append(queue, m))
             /\ Elements(Append(queue, m)) = Elements(queue) \cup {m}
  <2>1. m \in Messages /\ m \in Nat
    BY SequencesAreTyped, MessagesAreNumbers
  <2>2. Append(queue, m) \in Seq(Messages)
    BY <1>2, <2>1
  <2>3. Elements(Append(queue, m)) = Elements(queue) \cup {m}
    BY <1>2, <2>1, ElementsOfAppend
  <2>4. \A x \in Elements(queue) \cup Elements(handled) : x < m
    BY <1>3 DEF PlaceInv
  <2>5. Increasing(Append(queue, m))
    BY <1>2, <1>4, <2>1, <2>4, IncreasingAppend
  <2>6. Ordered(handled, Append(queue, m))
    BY <1>5, <2>3, <2>4 DEF Ordered
  <2> QED BY <2>2, <2>3, <2>5, <2>6
<1> QED BY <1>2, <1>3, <1>4, <1>5, <1>6 DEF queue

-----------------------------------------------------------------------------
(* The tasks.                                                              *)

\* The last task changes, but for its batch.
LEMMA LastTaskChanges ==
    ASSUME TypeOK, tasks # <<>>, NEW t \in TaskRows, t.batch = Current.batch,
           tasks' = [tasks EXCEPT ![Len(tasks)] = t]
    PROVE  /\ tasks' \in Seq(TaskRows) /\ tasks' # <<>> /\ Current' = t
           /\ \A m : Tried(m)' <=> Tried(m)
<1>1. /\ tasks \in Seq(TaskRows) /\ Len(tasks) \in Nat /\ Len(tasks) \in 1..Len(tasks)
      /\ DOMAIN tasks = 1..Len(tasks)
  BY SequencesAreTyped
<1>2. /\ tasks' \in Seq(TaskRows) /\ Len(tasks') = Len(tasks) /\ DOMAIN tasks' = 1..Len(tasks)
      /\ \A i \in 1..Len(tasks) : tasks'[i] = IF i = Len(tasks) THEN t ELSE tasks[i]
  BY <1>1
<1>3. Current' = t
  BY <1>1, <1>2 DEF Current
<1>4. \A i \in 1..Len(tasks) : tasks'[i].batch = tasks[i].batch
  BY <1>1, <1>2 DEF Current
<1>5. \A m : Tried(m)' <=> Tried(m)
  BY <1>1, <1>2, <1>4, Zenon DEF Tried
<1>6. tasks' # <<>>
  BY <1>1, <1>2
<1> QED BY <1>2, <1>3, <1>5, <1>6

\* A batch is processed: its messages are tried, and it is what is in flight.
LEMMA ProcessStartsTask ==
    ASSUME TypeOK, NEW batch \in Seq(Messages), Process(batch), UNCHANGED handled
    PROVE  /\ tasks' \in Seq(TaskRows)
           /\ TaskInv'
<1> DEFINE t == [batch |-> batch, state |-> "running", replied |-> FALSE]
<1>1. tasks \in Seq(TaskRows) /\ Len(tasks) \in Nat
  BY SequencesAreTyped
<1>2. t \in TaskRows /\ t.batch = batch /\ t.state = "running"
  BY DEF TaskRows
<1>3. tasks' = Append(tasks, t) /\ pending' = <<>> /\ inFlight' = batch /\ hasTask' = TRUE
  BY DEF Process
<1> HIDE DEF t
<1>4. tasks' \in Seq(TaskRows) /\ Len(tasks') = Len(tasks) + 1 /\ tasks'[Len(tasks')] = t
  BY <1>1, <1>2, <1>3
<1>5. Current' = t /\ tasks' # <<>>
  BY <1>1, <1>4 DEF Current
<1>6. \A m \in Elements(inFlight') : Tried(m)'
  <2>1. Len(tasks') \in DOMAIN tasks' /\ tasks'[Len(tasks')].batch = batch
    BY <1>1, <1>2, <1>4
  <2> QED BY <1>3, <2>1, Zenon DEF Tried
<1>7. Processing'
  BY <1>2, <1>3, <1>5 DEF Processing, Going
<1> QED BY <1>2, <1>3, <1>4, <1>5, <1>6, <1>7 DEF TaskInv
-----------------------------------------------------------------------------
(* The lock has been got: the rest of enqueue_message.                     *)

LEMMA HolderLeaves ==
    ASSUME TypeOK, QueueInv, lockQ # <<>>
    PROVE  /\ Tail(lockQ) \in Seq(Nat) /\ OrderedQueue(Tail(lockQ))
           /\ Holder \in Elements(lockQ) /\ Holder \in Messages \cup {Timer}
           /\ Elements(Tail(lockQ)) = Elements(lockQ) \ {Holder}
           /\ \A x \in Elements(Tail(lockQ)) \ {Timer} : Holder # Timer => Holder < x
BY SequencesAreTyped, TailOfQueue DEF QueueInv, Holder

LEMMA SeqFromElements ==
    ASSUME NEW S, NEW q \in Seq(Nat), Elements(q) \subseteq S
    PROVE  q \in Seq(S)
BY DEF Elements

LEMMA WaitIsBounded ==
    ASSUME NEW since \in 0..Window
    PROVE  Wait(since) \in 0..Debounce /\ Wait(since) + since <= Window
BY TimeAssumption DEF TimeAssumption, Wait

LEMMA EnqueueKeeps ==
    ASSUME CoalescerInv, HasLock, ~Processing, NEW active \in BOOLEAN, active => hasTask,
           Enqueue(inFlight \o pending, <<>>, active),
           cancelling' = FALSE, stalled' \in 0..Window,
           UNCHANGED <<arrived, waitVars, historyVars>>
    PROVE  CoalescerInv'
<1> DEFINE queue == inFlight \o pending
           batch == Append(queue, Holder)
           since == IF queue = <<>> /\ ~active THEN stalled ELSE age
<1>1. TypeOK /\ QueueInv /\ PlaceInv /\ OrderInv /\ TaskInv /\ WaitInv
  BY DEF CoalescerInv
<1>2. lockQ # <<>> /\ Holder # Timer
  BY DEF HasLock
<1>3. Holder \in Writers /\ Holder \in Messages
  BY <1>1, <1>2, HolderLeaves DEF Writers
<1>4. /\ batch \in Seq(Messages) /\ Increasing(batch) /\ Ordered(handled, batch)
      /\ Elements(batch) = Elements(inFlight) \cup Elements(pending) \cup {Holder}
      /\ queue \in Seq(Messages) /\ Elements(queue) = Elements(inFlight) \cup Elements(pending)
  BY <1>1, <1>3, BatchIsOrdered
<1>5. since \in 0..Window
  BY <1>1, TimeAssumption DEF TypeOK, TimeAssumption
<1>6. \/ /\ lockQ' = Tail(lockQ) /\ Process(batch) /\ timer' = timer /\ due' = due
      \/ /\ lockQ' = TimerLeaves(Tail(lockQ)) /\ Process(batch)
         /\ timer' = "none" /\ due' = 0
      \/ /\ lockQ' = TimerLeaves(Tail(lockQ)) /\ Hold(batch, since) /\ Wait(since) # 0
         /\ inFlight' = <<>> /\ hasTask' = active
  BY DEF Enqueue
<1> HIDE DEF batch, since
<1>7. \/ inFlight' = batch /\ pending' = <<>>
      \/ inFlight' = <<>> /\ pending' = batch
  BY <1>6 DEF Process, Hold
<1>8. /\ QueueInv' /\ Writers' = Writers \ {Holder}
      /\ lockQ' \in Seq(Messages \cup {Timer})
      /\ \A w \in Writers' : Holder < w
  <2>1. /\ Tail(lockQ) \in Seq(Nat) /\ OrderedQueue(Tail(lockQ))
        /\ Elements(Tail(lockQ)) = Elements(lockQ) \ {Holder}
        /\ \A x \in Elements(Tail(lockQ)) \ {Timer} : Holder < x
    BY <1>1, <1>2, HolderLeaves
  <2>2. Timer \in Elements(Tail(lockQ)) <=> timer = "queued"
    BY <1>1, <1>2, <2>1 DEF QueueInv
  <2>3. /\ TimerLeaves(Tail(lockQ)) \in Seq(Nat) /\ OrderedQueue(TimerLeaves(Tail(lockQ)))
        /\ Elements(TimerLeaves(Tail(lockQ))) = Elements(Tail(lockQ)) \ {Timer}
    BY <2>1, <2>2, TimerLeavesQueue
  <2>4. \/ lockQ' = Tail(lockQ) /\ timer' = timer
        \/ lockQ' = TimerLeaves(Tail(lockQ)) /\ timer' # "queued"
    BY <1>6 DEF Hold
  <2>5. /\ lockQ' \in Seq(Nat) /\ OrderedQueue(lockQ')
        /\ Elements(lockQ') \ {Timer} = Elements(lockQ) \ {Holder, Timer}
        /\ Elements(lockQ') \subseteq Elements(lockQ)
        /\ timer' = "queued" <=> Timer \in Elements(lockQ')
    BY <2>1, <2>2, <2>3, <2>4
  <2>6. lockQ' \in Seq(Messages \cup {Timer})
    BY <2>5, <1>1, SequencesAreTyped, SeqFromElements
  <2>7. QueueInv'
    BY <2>5 DEF QueueInv
  <2>8. Writers' = Writers \ {Holder}
    BY <2>5 DEF Writers
  <2> QED BY <2>1, <2>5, <2>6, <2>7, <2>8 DEF Writers
<1>9. PlaceInv' /\ OrderInv'
  BY <1>1, <1>3, <1>4, <1>7, <1>8, PlacesChange DEF historyVars
<1>10. tasks' \in Seq(TaskRows) /\ TaskInv'
  <2>1. CASE Process(batch)
    BY <1>1, <1>4, <2>1, ProcessStartsTask DEF historyVars
  <2>2. CASE Hold(batch, since) /\ inFlight' = <<>> /\ hasTask' = active
    <3>1. tasks' = tasks /\ tasks \in Seq(TaskRows) /\ Current' = Current
      BY <1>1, <2>2, SequencesAreTyped DEF Hold, Current
    <3>2. ~Processing'
      BY <2>2, <3>1 DEF Processing
    <3>3. hasTask' => hasTask
      BY <2>2
    <3>4. ~(hasTask' /\ Current'.state = "cancelled")
      BY <3>1, <3>2 DEF Processing, Going
    <3> QED BY <1>1, <2>2, <3>1, <3>2, <3>3, <3>4, ElementsOfNone DEF TaskInv
  <2> QED BY <1>6, <2>1, <2>2
<1>11. WaitInv' /\ due' \in 0..Debounce /\ age' \in 0..Window
       /\ timer' \in {"none", "sleeping", "queued"}
  <2>1. \A m \in Messages : m > Len(arrived') \/ m \in Writers' => waited'[m] = held'[m]
    BY <1>1, <1>8 DEF WaitInv, waitVars
  <2>2. age \in 0..Window /\ due \in 0..Debounce /\ Window \in Nat /\ Debounce \in Nat
        /\ timer \in {"none", "sleeping", "queued"}
    BY <1>1, TimeAssumption DEF TypeOK, TimeAssumption
  <2>3. CASE Process(batch)
    <3>1. pending' = <<>> /\ age' = 0
      BY <2>3 DEF Process
    <3>2. batch # <<>>
      BY <1>3, <1>4 DEF batch
    <3>3. \/ timer' = timer /\ due' = due
          \/ timer' = "none" /\ due' = 0
      BY <1>6, <3>1, <3>2 DEF Hold
    <3> QED BY <1>1, <2>1, <2>2, <3>1, <3>3, ElementsOfNone DEF WaitInv
  <2>4. CASE Hold(batch, since)
    <3>1. /\ pending' = batch /\ age' = since /\ timer' = "sleeping" /\ due' = Wait(since)
          /\ tasks' = tasks
      BY <2>4 DEF Hold
    <3>2. \A m : Tried(m)' <=> Tried(m)
      BY <3>1 DEF Tried
    <3>3. ASSUME NEW m \in Elements(batch), ~Tried(m)
          PROVE  waited[m] <= since + held[m]
      <4>1. CASE m = Holder
        <5>1. waited[m] = held[m] /\ held[m] \in Nat
          BY <1>1, <1>3, <4>1, BoundAssumption DEF WaitInv, TypeOK, BoundAssumption
        <5> QED BY <5>1, <1>5
      <4>2. CASE m # Holder
        <5>1. m \in Elements(pending)
          BY <1>1, <1>4, <3>3, <4>2 DEF TaskInv
        <5>2. queue # <<>>
          BY <5>1, <1>4, ElementsOfNone
        <5>3. since = age
          BY <5>2 DEF since
        <5> QED BY <5>1, <5>3, <3>3, <1>1 DEF WaitInv
      <4> QED BY <4>1, <4>2
    <3> QED BY <2>1, <3>1, <3>2, <3>3, <1>5, <2>2, WaitIsBounded DEF WaitInv, waitVars
  <2> QED BY <1>6, <2>3, <2>4
<1>12. TypeOK'
  <2>1. inFlight' \in Seq(Messages) /\ pending' \in Seq(Messages)
    <3>1. batch \in Seq(Messages) /\ <<>> \in Seq(Messages)
      BY <1>4
    <3> QED BY <1>7, <3>1, Zenon
  <2>2. hasTask' \in BOOLEAN
    BY <1>6 DEF Process
  <2> QED BY <1>1, <1>8, <1>10, <1>11, <2>1, <2>2 DEF TypeOK, historyVars, waitVars, TaskRows
<1> QED BY <1>8, <1>9, <1>10, <1>11, <1>12 DEF CoalescerInv

-----------------------------------------------------------------------------
(* The actions, one by one.                                                *)

LEMMA InitKeeps == Init => CoalescerInv
<1> SUFFICES ASSUME Init PROVE CoalescerInv
  OBVIOUS
<1> USE TimeAssumption, BoundAssumption DEF TimeAssumption, BoundAssumption, Init
<1>1. TypeOK
  <2>1. /\ waited \in [Messages -> 0..Window + MaxHeld + 1]
        /\ held \in [Messages -> 0..MaxHeld]
    OBVIOUS
  <2>2. /\ arrived \in Seq(Kinds) /\ lockQ \in Seq(Messages \cup {Timer})
        /\ pending \in Seq(Messages) /\ inFlight \in Seq(Messages) /\ handled \in Seq(Messages)
        /\ tasks \in Seq(TaskRows)
    OBVIOUS
  <2>3. due \in 0..Debounce /\ age \in 0..Window /\ stalled \in 0..Window /\ shutdowns \in 0..MaxShutdowns
    OBVIOUS
  <2> QED BY <2>1, <2>2, <2>3 DEF TypeOK, TaskRows
<1>2. QueueInv
  BY ElementsOfNone DEF QueueInv, OrderedQueue
<1>3. PlaceInv
  BY ElementsOfNone DEF PlaceInv, Writers
<1>4. OrderInv
  BY ElementsOfNone DEF OrderInv, Ordered, Increasing
<1>5. TaskInv
  BY ElementsOfNone DEF TaskInv, Processing
<1>6. WaitInv
  BY ElementsOfNone DEF WaitInv
<1> QED BY <1>1, <1>2, <1>3, <1>4, <1>5, <1>6 DEF CoalescerInv

\* Somebody queues for the lock who does not yet, a message after all others.
LEMMA QueueGrows ==
    ASSUME NEW q \in Seq(Nat), OrderedQueue(q), NEW x \in Nat, x \notin Elements(q),
           x # Timer => \A y \in Elements(q) : y < x
    PROVE  /\ Append(q, x) \in Seq(Nat) /\ OrderedQueue(Append(q, x)) /\ Append(q, x) # <<>>
           /\ Elements(Append(q, x)) = Elements(q) \cup {x}
           /\ q # <<>> => Head(Append(q, x)) = Head(q)
<1>1. /\ Append(q, x) \in Seq(Nat) /\ Len(Append(q, x)) = Len(q) + 1 /\ Len(q) \in Nat
      /\ \A i \in 1..Len(q) : Append(q, x)[i] = q[i]
      /\ Append(q, x)[Len(q) + 1] = x
      /\ q # <<>> => Head(Append(q, x)) = Head(q)
  OBVIOUS
<1>2. \A i \in 1..Len(q) : q[i] \in Elements(q)
  BY DEF Elements
<1>3. OrderedQueue(Append(q, x))
  <2> SUFFICES ASSUME NEW i \in 1..Len(q) + 1, NEW j \in 1..Len(q) + 1, i < j
               PROVE  /\ Append(q, x)[i] # Append(q, x)[j]
                      /\ Append(q, x)[i] # Timer /\ Append(q, x)[j] # Timer
                            => Append(q, x)[i] < Append(q, x)[j]
    <3>1. DOMAIN Append(q, x) = 1..Len(q) + 1
      BY <1>1
    <3> QED BY <3>1, Zenon DEF OrderedQueue
  <2>1. CASE j <= Len(q)
    BY <1>1, <2>1 DEF OrderedQueue
  <2>2. CASE j = Len(q) + 1
    BY <1>1, <1>2, <2>2
  <2> QED BY <1>1, <2>1, <2>2
<1> QED BY <1>1, <1>3, ElementsOfAppend

\* No place and no order changes.
LEMMA PlacesKept ==
    ASSUME PlaceInv, OrderInv,
           UNCHANGED <<arrived, lockQ, pending, inFlight, handled, lost>>
    PROVE  PlaceInv' /\ OrderInv' /\ Writers' = Writers
BY DEF PlaceInv, OrderInv, Writers

LEMMA ArriveKeeps == CoalescerInv /\ Arrive => CoalescerInv'
<1> SUFFICES ASSUME CoalescerInv, Arrive PROVE CoalescerInv'
  OBVIOUS
<1> DEFINE m == Len(arrived) + 1
<1>1. TypeOK /\ QueueInv /\ PlaceInv /\ OrderInv /\ TaskInv /\ WaitInv
  BY DEF CoalescerInv
<1>2. /\ lockQ \in Seq(Nat) /\ Elements(lockQ) \subseteq Messages \cup {Timer}
      /\ Len(arrived) \in Nat /\ Writers \subseteq Messages /\ Messages \subseteq Nat
  BY <1>1, SequencesAreTyped, MessagesAreNumbers
<1>3. arrived' \in Seq(Kinds) /\ Len(arrived') = m
  BY <1>1 DEF Arrive, TypeOK
<1>4. m \in Messages /\ m \in Nat /\ m # Timer
  BY <1>2, BoundAssumption DEF Arrive, Messages, Timer, BoundAssumption
<1>5. \A x \in Elements(lockQ) : x < m
  BY <1>1, <1>2, <1>4 DEF PlaceInv, Writers, Timer
<1>6. m \notin Elements(lockQ)
  BY <1>2, <1>5
<1>7. lockQ' = Append(lockQ, m)
  BY DEF Arrive
<1>8. UNCHANGED <<cancelling, pending, inFlight, hasTask, timer, due, age, stalled, waited,
                  held, tasks, handled, lost, shutdowns>>
  BY DEF Arrive, timeVars, waitVars, historyVars
<1> HIDE DEF m
<1>9. /\ lockQ' \in Seq(Nat) /\ OrderedQueue(lockQ') /\ lockQ' # <<>>
      /\ Elements(lockQ') = Elements(lockQ) \cup {m}
      /\ lockQ # <<>> => Head(lockQ') = Head(lockQ)
  BY <1>1, <1>2, <1>4, <1>5, <1>6, <1>7, QueueGrows DEF QueueInv
<1>10. QueueInv'
  BY <1>1, <1>4, <1>8, <1>9 DEF QueueInv, HasLock, Holder
<1>11. Writers' = Writers \cup {m}
  BY <1>4, <1>9 DEF Writers
<1>12. PlaceInv'
  <2>1. 1..Len(arrived') = 1..Len(arrived) \cup {m}
    BY <1>2, <1>3 DEF m
  <2>2. \A x \in Elements(handled) \cup Elements(inFlight) \cup Elements(pending) \cup lost : x < m
    BY <1>1, <1>2 DEF PlaceInv, m
  <2> QED BY <1>1, <1>8, <1>11, <2>1, <2>2 DEF PlaceInv
<1>13. OrderInv' /\ TaskInv'
  BY <1>1, <1>8 DEF OrderInv, TaskInv, Processing, Going, Current, Tried
<1>14. WaitInv'
  <2>1. ASSUME NEW x \in Messages, x > Len(arrived') \/ x \in Writers'
        PROVE  waited'[x] = held'[x]
    <3>1. x > Len(arrived) \/ x \in Writers
      BY <1>2, <1>3, <1>4, <1>11, <2>1 DEF m
    <3> QED BY <1>1, <1>8, <3>1 DEF WaitInv
  <2>2. \A x : Tried(x)' <=> Tried(x)
    BY <1>8 DEF Tried
  <2> QED BY <1>1, <1>8, <2>1, <2>2 DEF WaitInv
<1>15. TypeOK'
  <2>1. lockQ' \in Seq(Messages \cup {Timer})
    BY <1>2, <1>4, <1>9, SeqFromElements
  <2> QED BY <1>1, <1>3, <1>8, <2>1 DEF TypeOK
<1> QED BY <1>10, <1>12, <1>13, <1>14, <1>15 DEF CoalescerInv

LEMMA JoinKeeps == CoalescerInv /\ Join => CoalescerInv'
<1> SUFFICES ASSUME CoalescerInv, Join PROVE CoalescerInv'
  OBVIOUS
<1>1. inFlight = <<>> /\ hasTask \in BOOLEAN /\ pending \in Seq(Messages)
  BY DEF Join, CoalescerInv, TaskInv, TypeOK
<1>2. inFlight \o pending = pending
  BY <1>1
<1>3. Enqueue(inFlight \o pending, <<>>, hasTask)
  BY <1>1, <1>2 DEF Join
<1>4. /\ HasLock /\ ~Processing /\ cancelling' = FALSE /\ stalled' \in 0..Window
      /\ UNCHANGED <<arrived, waitVars, historyVars>>
  BY DEF Join, CoalescerInv, TypeOK
<1> QED BY <1>1, <1>3, <1>4, EnqueueKeeps

LEMMA ResumeKeeps == CoalescerInv /\ Resume => CoalescerInv'
<1> SUFFICES ASSUME CoalescerInv, Resume PROVE CoalescerInv'
  OBVIOUS
<1>1. HasLock
  BY DEF Resume, CoalescerInv, QueueInv
<1>2. /\ Enqueue(inFlight \o pending, <<>>, FALSE) /\ ~Processing /\ cancelling' = FALSE
      /\ stalled' = 0 /\ UNCHANGED <<arrived, waitVars, historyVars>>
  BY DEF Resume
<1>3. stalled' \in 0..Window
  BY <1>2, TimeAssumption DEF TimeAssumption
<1> QED BY <1>1, <1>2, <1>3, EnqueueKeeps

\* The task that is going changes its state or answers, and nothing else does.
LEMMA TaskStepKeeps ==
    ASSUME CoalescerInv, hasTask, Going(Current),
           NEW t \in TaskRows, t.batch = Current.batch,
           tasks' = [tasks EXCEPT ![Len(tasks)] = t],
           t.state # "aborted" => Going(t),
           t.state \in {"cancelled", "aborted"} => cancelling',
           cancelling => cancelling', cancelling' => HasLock,
           cancelling' \in BOOLEAN,
           UNCHANGED <<arrived, lockQ, pending, inFlight, hasTask, timer, timeVars, historyVars>>
    PROVE  CoalescerInv'
<1>1. TypeOK /\ QueueInv /\ PlaceInv /\ OrderInv /\ TaskInv /\ WaitInv
  BY DEF CoalescerInv
<1>2. tasks # <<>>
  BY <1>1 DEF TaskInv
<1>3. /\ tasks' \in Seq(TaskRows) /\ tasks' # <<>> /\ Current' = t
      /\ \A m : Tried(m)' <=> Tried(m)
  BY <1>1, <1>2, LastTaskChanges
<1>4. PlaceInv' /\ OrderInv' /\ Writers' = Writers
  BY <1>1, PlacesKept DEF historyVars
<1>5. TaskInv'
  <2>1. inFlight = Current.batch /\ pending = <<>>
    BY <1>1 DEF TaskInv, Processing
  <2>2. \A m \in Elements(inFlight') : Tried(m)'
    BY <1>1, <1>3 DEF TaskInv
  <2> QED BY <1>3, <2>1, <2>2 DEF TaskInv, Processing, Going
<1>6. WaitInv'
  BY <1>1, <1>3, <1>4 DEF WaitInv, timeVars, waitVars
<1>7. QueueInv'
  BY <1>1 DEF QueueInv, HasLock, Holder
<1>8. TypeOK'
  BY <1>1, <1>3 DEF TypeOK, TaskRows, timeVars, waitVars, historyVars
<1> QED BY <1>4, <1>5, <1>6, <1>7, <1>8 DEF CoalescerInv

\* The task that is going, with another state or answer.
LEMMA CurrentTaskIsTyped ==
    ASSUME TypeOK, tasks # <<>>
    PROVE  /\ Current \in TaskRows
           /\ \A s \in {"running", "cancelled", "aborted", "finished", "failed"} :
                 /\ [Current EXCEPT !.state = s] \in TaskRows
                 /\ [Current EXCEPT !.state = s].batch = Current.batch
                 /\ [Current EXCEPT !.state = s].state = s
                 /\ [tasks EXCEPT ![Len(tasks)].state = s]
                       = [tasks EXCEPT ![Len(tasks)] = [Current EXCEPT !.state = s]]
           /\ [Current EXCEPT !.replied = TRUE] \in TaskRows
           /\ [Current EXCEPT !.replied = TRUE].batch = Current.batch
           /\ [Current EXCEPT !.replied = TRUE].state = Current.state
           /\ [tasks EXCEPT ![Len(tasks)].replied = TRUE]
                 = [tasks EXCEPT ![Len(tasks)] = [Current EXCEPT !.replied = TRUE]]
<1>1. tasks \in Seq(TaskRows) /\ Len(tasks) \in 1..Len(tasks)
  BY SequencesAreTyped
<1>2. Current \in TaskRows
  BY <1>1 DEF Current
<1> QED BY <1>1, <1>2 DEF TaskRows, Current

LEMMA InterruptKeeps == CoalescerInv /\ Interrupt => CoalescerInv'
<1> SUFFICES ASSUME CoalescerInv, Interrupt PROVE CoalescerInv'
  OBVIOUS
<1> DEFINE t == [Current EXCEPT !.state = "cancelled"]
<1>1. TypeOK /\ TaskInv /\ hasTask /\ Going(Current) /\ tasks # <<>>
  BY DEF CoalescerInv, Interrupt, Processing, TaskInv
<1>2. /\ t \in TaskRows /\ t.batch = Current.batch /\ t.state = "cancelled"
      /\ tasks' = [tasks EXCEPT ![Len(tasks)] = t]
  BY <1>1, CurrentTaskIsTyped DEF Interrupt
<1>3. /\ cancelling' = TRUE /\ HasLock
      /\ UNCHANGED <<arrived, lockQ, pending, inFlight, hasTask, timer, timeVars, historyVars>>
  BY DEF Interrupt
<1> HIDE DEF t
<1> QED BY <1>1, <1>2, <1>3, TaskStepKeeps DEF Going

LEMMA ReplyKeeps == CoalescerInv /\ Reply => CoalescerInv'
<1> SUFFICES ASSUME CoalescerInv, Reply PROVE CoalescerInv'
  OBVIOUS
<1> DEFINE t == [Current EXCEPT !.replied = TRUE]
<1>1. TypeOK /\ TaskInv /\ QueueInv /\ hasTask /\ Going(Current) /\ tasks # <<>>
  BY DEF CoalescerInv, Reply, Undisturbed, Going, TaskInv
<1>2. /\ t \in TaskRows /\ t.batch = Current.batch /\ t.state = Current.state
      /\ tasks' = [tasks EXCEPT ![Len(tasks)] = t]
  BY <1>1, CurrentTaskIsTyped DEF Reply
<1>3. UNCHANGED <<arrived, lockQ, cancelling, pending, inFlight, hasTask, timer, timeVars, historyVars>>
  BY DEF Reply
<1>4. Current.state = "cancelled" => cancelling
  BY <1>1 DEF TaskInv
<1>5. cancelling \in BOOLEAN /\ (cancelling => HasLock)
  BY <1>1 DEF TypeOK, QueueInv
<1> HIDE DEF t
<1> QED BY <1>1, <1>2, <1>3, <1>4, <1>5, TaskStepKeeps DEF Going

LEMMA AbortKeeps == CoalescerInv /\ Abort => CoalescerInv'
<1> SUFFICES ASSUME CoalescerInv, Abort PROVE CoalescerInv'
  OBVIOUS
<1> DEFINE t == [Current EXCEPT !.state = "aborted"]
<1>1. TypeOK /\ TaskInv /\ QueueInv /\ hasTask /\ Going(Current) /\ tasks # <<>>
  BY DEF CoalescerInv, Abort, Going, TaskInv
<1>2. /\ t \in TaskRows /\ t.batch = Current.batch /\ t.state = "aborted"
      /\ tasks' = [tasks EXCEPT ![Len(tasks)] = t]
  BY <1>1, CurrentTaskIsTyped DEF Abort, EndTask
<1>3. UNCHANGED <<arrived, lockQ, cancelling, pending, inFlight, hasTask, timer, timeVars, historyVars>>
  BY DEF Abort
<1>4. cancelling
  BY <1>1 DEF TaskInv, Abort
<1>5. cancelling \in BOOLEAN /\ (cancelling => HasLock)
  BY <1>1 DEF TypeOK, QueueInv
<1> HIDE DEF t
<1> QED BY <1>1, <1>2, <1>3, <1>4, <1>5, TaskStepKeeps

\* The task that is going ends, and its batch is dealt with or given up.
LEMMA BatchEnds ==
    ASSUME CoalescerInv, hasTask, Going(Current),
           NEW s \in {"finished", "failed"}, EndTask(s), inFlight' = <<>>,
           \/ handled' = handled \o inFlight /\ lost' = lost
           \/ handled' = handled /\ lost' = lost \cup Elements(inFlight),
           UNCHANGED <<arrived, lockQ, cancelling, pending, hasTask, timer, timeVars, shutdowns>>
    PROVE  CoalescerInv'
<1> DEFINE t == [Current EXCEPT !.state = s]
<1>1. TypeOK /\ QueueInv /\ PlaceInv /\ OrderInv /\ TaskInv /\ WaitInv
  BY DEF CoalescerInv
<1>2. tasks # <<>> /\ pending = <<>>
  BY <1>1 DEF TaskInv, Processing
<1>3. /\ tasks' \in Seq(TaskRows) /\ tasks' # <<>> /\ Current'.state = s
      /\ \A m : Tried(m)' <=> Tried(m)
  <2>1. t \in TaskRows /\ t.batch = Current.batch /\ t.state = s
    BY <1>1, <1>2, CurrentTaskIsTyped
  <2>2. tasks' = [tasks EXCEPT ![Len(tasks)] = t]
    BY <1>1, <1>2, CurrentTaskIsTyped DEF EndTask
  <2> HIDE DEF t
  <2> QED BY <1>1, <1>2, <2>1, <2>2, LastTaskChanges
<1>4. /\ handled \in Seq(Messages) /\ inFlight \in Seq(Messages)
      /\ handled \in Seq(Nat) /\ inFlight \in Seq(Nat)
      /\ Elements(inFlight) \subseteq Messages /\ lost \subseteq Messages
  BY <1>1, SequencesAreTyped DEF TypeOK
<1>5. /\ handled' \in Seq(Messages) /\ lost' \subseteq Messages /\ Increasing(handled')
      /\ \/ Elements(handled') = Elements(handled) \cup Elements(inFlight) /\ lost' = lost
         \/ Elements(handled') = Elements(handled) /\ lost' = lost \cup Elements(inFlight)
      /\ lost' \cap Elements(handled') = {}
  <2>1. CASE handled' = handled \o inFlight /\ lost' = lost
    <3>1. handled \o inFlight \in Seq(Messages)
      BY <1>4
    <3>2. Increasing(handled \o inFlight)
      BY <1>1, <1>4, IncreasingConcat DEF OrderInv
    <3>3. Elements(handled \o inFlight) = Elements(handled) \cup Elements(inFlight)
      BY <1>4, ElementsOfConcat
    <3> QED BY <1>1, <1>4, <2>1, <3>1, <3>2, <3>3, Zenon DEF PlaceInv
  <2>2. CASE handled' = handled /\ lost' = lost \cup Elements(inFlight)
    <3>1. ASSUME NEW x \in Elements(handled), x \in Elements(inFlight) PROVE FALSE
      <4>1. x < x /\ x \in Nat
        BY <3>1, <1>1, <1>4, MessagesAreNumbers DEF OrderInv, Ordered
      <4> QED BY <4>1
    <3> QED BY <1>1, <1>4, <2>2, <3>1 DEF PlaceInv, OrderInv
  <2> QED BY <2>1, <2>2
<1>6. Writers' = Writers
  BY DEF Writers
<1>7. PlaceInv'
  BY <1>1, <1>2, <1>5, <1>6, ElementsOfNone DEF PlaceInv
<1>8. OrderInv'
  BY <1>2, <1>5, ElementsOfNone DEF OrderInv, Ordered, Increasing
<1>9. TaskInv'
  BY <1>2, <1>3, ElementsOfNone DEF TaskInv, Processing, Going
<1>10. WaitInv'
  BY <1>1, <1>3, <1>6 DEF WaitInv, timeVars, waitVars
<1>11. QueueInv'
  BY <1>1 DEF QueueInv, HasLock, Holder
<1>12. TypeOK'
  BY <1>1, <1>3, <1>5 DEF TypeOK, TaskRows, timeVars, waitVars
<1> QED BY <1>7, <1>8, <1>9, <1>10, <1>11, <1>12 DEF CoalescerInv

LEMMA FinishKeeps == CoalescerInv /\ Finish => CoalescerInv'
<1> SUFFICES ASSUME CoalescerInv, Finish PROVE CoalescerInv'
  OBVIOUS
<1>1. hasTask /\ Going(Current) /\ inFlight = Current.batch
  BY DEF Finish, Undisturbed, Going, CoalescerInv, TaskInv, Processing
<1>2. /\ EndTask("finished") /\ inFlight' = <<>>
      /\ UNCHANGED <<arrived, lockQ, cancelling, pending, hasTask, timer, timeVars, shutdowns>>
  BY DEF Finish
<1>3. \/ handled' = handled \o inFlight /\ lost' = lost
      \/ handled' = handled /\ lost' = lost \cup Elements(inFlight)
  BY <1>1 DEF Finish, Outcome
<1> QED BY <1>1, <1>2, <1>3, BatchEnds

LEMMA FailKeeps == CoalescerInv /\ Fail => CoalescerInv'
<1> SUFFICES ASSUME CoalescerInv, Fail PROVE CoalescerInv'
  OBVIOUS
<1>1. hasTask /\ Going(Current) /\ inFlight = Current.batch
  BY DEF Fail, Undisturbed, Going, CoalescerInv, TaskInv, Processing
<1>2. /\ EndTask("failed") /\ inFlight' = <<>>
      /\ UNCHANGED <<arrived, lockQ, cancelling, pending, hasTask, timer, timeVars, shutdowns>>
      /\ handled' = handled \o inFlight /\ lost' = lost
  BY <1>1 DEF Fail
<1> QED BY <1>1, <1>2, BatchEnds

LEMMA TimerFiresKeeps == CoalescerInv /\ TimerFires => CoalescerInv'
<1> SUFFICES ASSUME CoalescerInv, TimerFires PROVE CoalescerInv'
  OBVIOUS
<1>1. TypeOK /\ QueueInv /\ PlaceInv /\ OrderInv /\ TaskInv /\ WaitInv
  BY DEF CoalescerInv
<1>2. /\ lockQ \in Seq(Nat) /\ Elements(lockQ) \subseteq Messages \cup {Timer} /\ Timer \in Nat
  BY <1>1, SequencesAreTyped, MessagesAreNumbers
<1>3. /\ timer = "sleeping" /\ timer' = "queued" /\ lockQ' = Append(lockQ, Timer)
      /\ UNCHANGED <<arrived, cancelling, pending, inFlight, hasTask, due, age, stalled,
                     waited, held, tasks, handled, lost, shutdowns>>
  BY DEF TimerFires, timeVars, waitVars, historyVars
<1>4. /\ lockQ' \in Seq(Nat) /\ OrderedQueue(lockQ') /\ lockQ' # <<>>
      /\ Elements(lockQ') = Elements(lockQ) \cup {Timer}
      /\ lockQ # <<>> => Head(lockQ') = Head(lockQ)
  BY <1>1, <1>2, <1>3, QueueGrows DEF QueueInv
<1>5. QueueInv'
  BY <1>1, <1>3, <1>4 DEF QueueInv, HasLock, Holder
<1>6. Writers' = Writers
  BY <1>4 DEF Writers
<1>7. PlaceInv' /\ OrderInv'
  BY <1>1, <1>3, <1>6 DEF PlaceInv, OrderInv
<1>8. TaskInv'
  BY <1>1, <1>3 DEF TaskInv, Processing, Going, Current, Tried
<1>9. WaitInv'
  BY <1>1, <1>3, <1>6 DEF WaitInv, Tried
<1>10. TypeOK'
  <2>1. lockQ' \in Seq(Messages \cup {Timer})
    BY <1>2, <1>4, SeqFromElements
  <2> QED BY <1>1, <1>3, <2>1 DEF TypeOK
<1> QED BY <1>5, <1>7, <1>8, <1>9, <1>10 DEF CoalescerInv

LEMMA TimerRunsKeeps == CoalescerInv /\ TimerRuns => CoalescerInv'
<1> SUFFICES ASSUME CoalescerInv, TimerRuns PROVE CoalescerInv'
  OBVIOUS
<1>1. TypeOK /\ QueueInv /\ PlaceInv /\ OrderInv /\ TaskInv /\ WaitInv
  BY DEF CoalescerInv
<1>2. lockQ # <<>> /\ Holder = Timer /\ lockQ' = Tail(lockQ) /\ timer' = "none"
      /\ UNCHANGED <<arrived, cancelling, due, stalled, waited, held, handled, lost, shutdowns>>
  BY DEF TimerRuns, waitVars, historyVars
<1>3. /\ lockQ' \in Seq(Nat) /\ OrderedQueue(lockQ')
      /\ Elements(lockQ') = Elements(lockQ) \ {Timer}
  BY <1>1, <1>2, HolderLeaves
<1>4. ~cancelling
  BY <1>1, <1>2 DEF QueueInv, HasLock
<1>5. QueueInv'
  BY <1>1, <1>2, <1>3, <1>4 DEF QueueInv
<1>6. Writers' = Writers
  BY <1>3 DEF Writers
<1>7. lockQ' \in Seq(Messages \cup {Timer})
  BY <1>1, <1>3, SequencesAreTyped, SeqFromElements
<1>8. CASE pending # <<>> /\ Process(pending)
  <2>1. inFlight = <<>>
    BY <1>1, <1>8 DEF TaskInv
  <2>2. pending \in Seq(Messages)
    BY <1>1 DEF TypeOK
  <2>3. tasks' \in Seq(TaskRows) /\ TaskInv'
    BY <1>1, <1>2, <1>8, <2>2, ProcessStartsTask
  <2>4. pending' = <<>> /\ inFlight' = pending /\ age' = 0 /\ hasTask' = TRUE
    BY <1>8 DEF Process
  <2>5. PlaceInv' /\ OrderInv'
    <3>1. Elements(pending) = Elements(inFlight) \cup Elements(pending) \cup {}
      BY <2>1, ElementsOfNone
    <3>2. {} \in SUBSET Writers /\ Writers' = Writers \ {} /\ \A x \in {}, w \in Writers' : x < w
      BY <1>6
    <3>3. Increasing(pending) /\ Ordered(handled, pending)
      BY <1>1 DEF OrderInv
    <3> QED BY <1>1, <1>2, <2>2, <2>4, <3>1, <3>2, <3>3, PlacesChange
  <2>6. WaitInv'
    BY <1>1, <1>2, <1>6, <2>4, ElementsOfNone DEF WaitInv
  <2>7. TypeOK'
    BY <1>1, <1>2, <1>7, <2>2, <2>3, <2>4, TimeAssumption DEF TypeOK, TaskRows, TimeAssumption
  <2> QED BY <1>5, <2>3, <2>5, <2>6, <2>7 DEF CoalescerInv
<1>9. CASE pending = <<>> /\ UNCHANGED <<pending, inFlight, tasks, hasTask, age>>
  <2>1. PlaceInv' /\ OrderInv'
    BY <1>1, <1>2, <1>6, <1>9 DEF PlaceInv, OrderInv
  <2>2. TaskInv'
    BY <1>1, <1>2, <1>9 DEF TaskInv, Processing, Going, Current, Tried
  <2>3. WaitInv'
    BY <1>1, <1>2, <1>6, <1>9, ElementsOfNone DEF WaitInv
  <2>4. TypeOK'
    BY <1>1, <1>2, <1>7, <1>9 DEF TypeOK
  <2> QED BY <1>5, <2>1, <2>2, <2>3, <2>4 DEF CoalescerInv
<1> QED BY <1>8, <1>9 DEF TimerRuns

\* Time passes only while the timer sleeps, so it ends before the window does.
LEMMA TickKeeps == CoalescerInv /\ Tick => CoalescerInv'
<1> SUFFICES ASSUME CoalescerInv, Tick PROVE CoalescerInv'
  OBVIOUS
<1>1. TypeOK /\ QueueInv /\ PlaceInv /\ OrderInv /\ TaskInv /\ WaitInv
  BY DEF CoalescerInv
<1>2. UNCHANGED <<arrived, lockQ, cancelling, pending, inFlight, hasTask, timer, tasks,
                  handled, lost, shutdowns>>
  BY DEF Tick, historyVars
<1>3. QueueInv' /\ PlaceInv' /\ OrderInv' /\ TaskInv' /\ Writers' = Writers
  BY <1>1, <1>2 DEF QueueInv, HasLock, Holder, PlaceInv, OrderInv, TaskInv, Processing, Going,
                    Current, Tried, Writers
<1>4. /\ due \in 0..Debounce /\ age \in 0..Window /\ Window \in Nat /\ Debounce \in Nat
      /\ waited \in [Messages -> 0..Window + MaxHeld + 1] /\ held \in [Messages -> 0..MaxHeld]
      /\ stalled \in 0..Window /\ MaxHeld \in Nat
  BY <1>1, TimeAssumption, BoundAssumption DEF TypeOK, TimeAssumption, BoundAssumption
<1>5. timer = "sleeping" => due # 0
  BY DEF Tick, Ready
<1>6. due' = (IF timer = "sleeping" THEN due - 1 ELSE due)
      /\ age' = (IF age < Window THEN age + 1 ELSE age)
  BY DEF Tick
<1> DEFINE longer(m) == IF /\ m \in Elements(lockQ) \cup Elements(pending)
                           /\ waited[m] <= Window + MaxHeld
                        THEN waited[m] + 1 ELSE waited[m]
           queued(m) == IF m \in Elements(lockQ) THEN held[m] + 1 ELSE held[m]
<1>7. /\ waited' = [m \in Messages |-> longer(m)] /\ held' = [m \in Messages |-> queued(m)]
      /\ \A m \in Messages \cap Elements(lockQ) : held[m] < MaxHeld
  BY DEF Tick
<1>8. /\ due' \in 0..Debounce /\ age' \in 0..Window /\ stalled' \in 0..Window
      /\ waited' \in [Messages -> 0..Window + MaxHeld + 1]
      /\ held' \in [Messages -> 0..MaxHeld]
  <2>1. due' \in 0..Debounce /\ age' \in 0..Window
    BY <1>4, <1>5, <1>6
  <2>2. stalled' \in 0..Window
    BY <1>4 DEF Tick
  <2>3. \A m \in Messages : longer(m) \in 0..Window + MaxHeld + 1 /\ queued(m) \in 0..MaxHeld
    BY <1>4, <1>7
  <2> QED BY <1>7, <2>1, <2>2, <2>3
<1>9. TypeOK'
  BY <1>1, <1>2, <1>8 DEF TypeOK
<1>10. Elements(pending) \subseteq Messages /\ Writers \subseteq Messages
  BY <1>1, SequencesAreTyped
<1>11. timer' = "sleeping" => due' + age' <= Window
  BY <1>1, <1>2, <1>4, <1>5, <1>6 DEF WaitInv
<1>12. pending # <<>> => timer = "sleeping"
  <2>1. ASSUME pending # <<>>, timer = "queued" PROVE FALSE
    <3>1. lockQ # <<>>
      BY <1>1, <2>1, ElementsOfNone DEF QueueInv
    <3>2. cancelling
      BY <3>1 DEF Tick, Ready
    <3> QED BY <1>1, <2>1, <3>2 DEF TaskInv
  <2> QED BY <1>1, <2>1 DEF WaitInv, TypeOK
<1>13. ASSUME NEW m \in Elements(pending), ~Tried(m)
       PROVE  waited'[m] <= age' + held'[m]
  <2>1. timer = "sleeping" /\ due + age <= Window
    BY <1>1, <1>12, <1>13, ElementsOfNone DEF WaitInv
  <2>2. age < Window
    BY <2>1, <1>4, <1>5
  <2>3. waited[m] <= age + held[m]
    BY <1>1, <1>13 DEF WaitInv
  <2>4. waited'[m] <= waited[m] + 1 /\ held'[m] >= held[m]
    BY <1>4, <1>7, <1>10
  <2>5. waited[m] \in Nat /\ waited'[m] \in Nat /\ held[m] \in Nat /\ held'[m] \in Nat
    BY <1>4, <1>8, <1>10
  <2> QED BY <1>4, <1>6, <2>2, <2>3, <2>4, <2>5
<1>14. ASSUME NEW m \in Messages, m > Len(arrived) \/ m \in Writers
       PROVE  waited'[m] = held'[m]
  <2>1. m \notin Elements(pending)
    <3>1. ASSUME m \in Elements(pending) PROVE FALSE
      <4>1. m \in 1..Len(arrived) /\ Len(arrived) \in Nat /\ (m \in Writers => m < m) /\ m \in Nat
        BY <1>1, <3>1, SequencesAreTyped, MessagesAreNumbers DEF PlaceInv
      <4> QED BY <1>14, <4>1
    <3> QED BY <3>1
  <2>2. waited[m] = held[m] /\ held[m] \in 0..MaxHeld
    BY <1>1, <1>4, <1>14 DEF WaitInv
  <2> QED BY <1>4, <1>7, <2>1, <2>2
<1>15. WaitInv'
  <2>1. \A m : Tried(m)' <=> Tried(m)
    BY <1>2 DEF Tried
  <2> QED BY <1>1, <1>2, <1>3, <1>11, <1>13, <1>14, <2>1 DEF WaitInv
<1> QED BY <1>3, <1>9, <1>15 DEF CoalescerInv

LEMMA ShutdownKeeps == CoalescerInv /\ Shutdown => CoalescerInv'
<1> SUFFICES ASSUME CoalescerInv, Shutdown PROVE CoalescerInv'
  OBVIOUS
<1>1. TypeOK /\ QueueInv /\ PlaceInv /\ OrderInv /\ TaskInv /\ WaitInv
  BY DEF CoalescerInv
<1>2. /\ lockQ' = <<>> /\ pending' = <<>> /\ inFlight' = <<>> /\ hasTask' = FALSE
      /\ timer' = "none" /\ due' = 0 /\ age' = 0
      /\ UNCHANGED <<arrived, cancelling, stalled, waited, held, handled>>
      /\ shutdowns < MaxShutdowns /\ shutdowns' = shutdowns + 1
      /\ Elements(lockQ) \subseteq {Timer}
  BY DEF Shutdown, waitVars
<1>3. ~cancelling
  BY <1>1, <1>2, HolderLeaves DEF QueueInv, HasLock
<1>4. Writers = {} /\ Writers' = {}
  BY <1>2, ElementsOfNone DEF Writers
<1>5. lost' = lost \cup Elements(inFlight) \cup Elements(pending)
  <2>1. inFlight \in Seq(Messages) /\ pending \in Seq(Messages)
    BY <1>1 DEF TypeOK
  <2> QED BY <2>1, ElementsOfConcat DEF Shutdown
<1>6. QueueInv'
  BY <1>2, <1>3, ElementsOfNone DEF QueueInv, OrderedQueue
<1>7. PlaceInv'
  <2>1. ASSUME NEW x \in Elements(handled), x \in Elements(inFlight) \cup Elements(pending)
        PROVE  FALSE
    <3>1. x < x /\ x \in Nat
      BY <2>1, <1>1, SequencesAreTyped, MessagesAreNumbers DEF OrderInv, Ordered
    <3> QED BY <3>1
  <2>2. Elements(handled') = Elements(handled) /\ Len(arrived') = Len(arrived)
    BY <1>2
  <2>3. Elements(inFlight') = {} /\ Elements(pending') = {}
    BY <1>2, ElementsOfNone
  <2> QED BY <1>1, <1>4, <1>5, <2>1, <2>2, <2>3 DEF PlaceInv
<1>8. OrderInv'
  BY <1>1, <1>2, ElementsOfNone DEF OrderInv, Ordered, Increasing
<1>9. TaskInv'
  BY <1>2, <1>3, ElementsOfNone DEF TaskInv, Processing
<1>10. WaitInv'
  BY <1>1, <1>2, <1>4, ElementsOfNone DEF WaitInv
<1>11. TypeOK'
  <2>1. tasks \in Seq(TaskRows)
    BY <1>1, SequencesAreTyped
  <2>2. tasks' = [i \in 1..Len(tasks) |->
                    IF Going(tasks[i]) THEN [tasks[i] EXCEPT !.state = "aborted"] ELSE tasks[i]]
    BY <2>1 DEF Shutdown
  <2>3. ASSUME NEW i \in 1..Len(tasks)
        PROVE  (IF Going(tasks[i]) THEN [tasks[i] EXCEPT !.state = "aborted"] ELSE tasks[i])
                  \in TaskRows
    <3>1. tasks[i] \in TaskRows
      BY <2>1
    <3>2. [tasks[i] EXCEPT !.state = "aborted"] \in TaskRows
      BY <3>1 DEF TaskRows
    <3> QED BY <3>1, <3>2
  <2>4. tasks' \in Seq(TaskRows)
    BY <2>1, <2>2, <2>3
  <2>5. lost' \subseteq Messages
    BY <1>1, <1>5, SequencesAreTyped DEF TypeOK
  <2>6. shutdowns' \in 0..MaxShutdowns
    BY <1>1, <1>2, BoundAssumption DEF TypeOK, BoundAssumption
  <2>7. due' \in 0..Debounce /\ age' \in 0..Window
    BY <1>2, TimeAssumption DEF TimeAssumption
  <2>8. /\ lockQ' \in Seq(Messages \cup {Timer})
        /\ pending' \in Seq(Messages) /\ inFlight' \in Seq(Messages)
    BY <1>2
  <2> QED BY <1>1, <1>2, <2>4, <2>5, <2>6, <2>7, <2>8 DEF TypeOK, TaskRows
<1> QED BY <1>6, <1>7, <1>8, <1>9, <1>10, <1>11 DEF CoalescerInv

LEMMA NothingChanges == CoalescerInv /\ UNCHANGED vars => CoalescerInv'
<1> SUFFICES ASSUME CoalescerInv, UNCHANGED vars PROVE CoalescerInv'
  OBVIOUS
<1> USE DEF vars, timeVars, waitVars, historyVars
<1>1. TypeOK'
  BY DEF CoalescerInv, TypeOK
<1>2. QueueInv' /\ PlaceInv' /\ OrderInv' /\ Writers' = Writers
  BY DEF CoalescerInv, QueueInv, HasLock, Holder, PlaceInv, OrderInv, Writers
<1>3. TaskInv' /\ \A m : Tried(m)' <=> Tried(m)
  BY DEF CoalescerInv, TaskInv, Processing, Going, Current, Tried
<1>4. WaitInv'
  BY <1>2, <1>3 DEF CoalescerInv, WaitInv
<1> QED BY <1>1, <1>2, <1>3, <1>4 DEF CoalescerInv

LEMMA StepsKeep == CoalescerInv /\ [Next]_vars => CoalescerInv'
BY ArriveKeeps, JoinKeeps, InterruptKeeps, ResumeKeeps, TimerFiresKeeps, TimerRunsKeeps,
   ReplyKeeps, FinishKeeps, FailKeeps, AbortKeeps, TickKeeps, ShutdownKeeps, NothingChanges
   DEF Next, TaskStep

LEMMA CoalescerIsCorrect == Spec => []CoalescerInv
BY InitKeeps, StepsKeep, PTL DEF Spec

\* The variables of the coalescer have their types: among others, a debounce
\* timer never outlasts the debounce time and no batch holds what did not arrive.
THEOREM CoalescerIsTyped == Spec => []TypeOK
<1>1. CoalescerInv => TypeOK
  BY DEF CoalescerInv
<1> QED BY <1>1, CoalescerIsCorrect, PTL

LEMMA TakenIs ==
    ASSUME TypeOK
    PROVE  /\ Taken \in Seq(Messages) /\ Taken \in Seq(Nat)
           /\ Taken = handled \o (inFlight \o pending)
           /\ Elements(Taken) = Elements(handled) \cup Elements(inFlight) \cup Elements(pending)
<1>1. handled \in Seq(Messages) /\ inFlight \in Seq(Messages) /\ pending \in Seq(Messages)
  BY DEF TypeOK
<1>2. handled \o inFlight \in Seq(Messages)
  BY <1>1
<1>3. Taken \in Seq(Messages)
  BY <1>1, <1>2 DEF Taken
<1>4. Taken \in Seq(Nat)
  BY <1>3, MessagesAreNumbers, SeqMonotonic
<1>5. Taken = handled \o (inFlight \o pending)
  BY <1>1, ConcatAssociative DEF Taken
<1>6. Elements(Taken) = Elements(handled \o inFlight) \cup Elements(pending)
  BY <1>1, <1>2, ElementsOfConcat DEF Taken
<1>7. Elements(handled \o inFlight) = Elements(handled) \cup Elements(inFlight)
  BY <1>1, ElementsOfConcat
<1> QED BY <1>3, <1>4, <1>5, <1>6, <1>7

\* Every message that enqueue_message took in is, once and in its order, in what
\* has been dealt with, in the batch in flight or in the queue, unless it was
\* given up.
THEOREM CoalescerConserves == Spec => []Conserved
<1>1. ASSUME CoalescerInv PROVE Conserved
  <2>1. TypeOK /\ PlaceInv /\ OrderInv
    BY <1>1 DEF CoalescerInv
  <2>2. Elements(Taken) = Elements(handled) \cup Elements(inFlight) \cup Elements(pending)
    BY <2>1, TakenIs
  <2>3. Writers \subseteq Messages /\ Elements(Taken) \subseteq Messages /\ Messages \subseteq Nat
        /\ Messages \cap {Timer} = {}
    BY <2>1, <2>2, SequencesAreTyped, MessagesAreNumbers
  <2>4. Writers \cap Elements(Taken) = {}
    <3>1. ASSUME NEW x \in Writers, x \in Elements(Taken) PROVE FALSE
      <4>1. x < x /\ x \in Nat
        BY <3>1, <2>1, <2>2, <2>3 DEF PlaceInv
      <4> QED BY <4>1
    <3> QED BY <3>1
  <2>5. Elements(lockQ) \subseteq Writers \cup {Timer} /\ Writers \subseteq Elements(lockQ)
    BY DEF Writers
  <2>6. Elements(Taken) \cup lost \cup Writers = 1..Len(arrived) /\ lost \cap Elements(Taken) = {}
    BY <2>1, <2>2 DEF PlaceInv
  <2>7. Elements(Taken) = Kept
    BY <2>3, <2>4, <2>5, <2>6 DEF Kept
  <2>8. Increasing(Taken)
    <3>1. /\ inFlight \o pending \in Seq(Messages) /\ Increasing(inFlight \o pending)
          /\ Ordered(handled, inFlight \o pending)
      BY <2>1, BatchIsOrdered
    <3>2. inFlight \o pending \in Seq(Nat) /\ handled \in Seq(Nat)
      BY <2>1, <3>1, SequencesAreTyped, MessagesAreNumbers, SeqMonotonic
    <3> QED BY <2>1, <3>1, <3>2, TakenIs, IncreasingConcat DEF OrderInv
  <2> QED BY <2>7, <2>8 DEF Conserved
<1> QED BY <1>1, CoalescerIsCorrect, PTL

\* Before it is processed the first time, no message waits longer than the window
\* and the time it queues for the conversation's lock together, however many
\* follow it and restart the debounce timer.  For a message that never queues
\* behind a call that awaits a cancelled task, this is the window alone.
THEOREM FirstWaitsAreBounded == Spec => []FirstWaitBounded
<1>1. ASSUME CoalescerInv PROVE FirstWaitBounded
  <2>1. TypeOK /\ WaitInv
    BY <1>1 DEF CoalescerInv
  <2>2. age \in 0..Window /\ Window \in Nat
    BY <2>1, TimeAssumption DEF TypeOK, TimeAssumption
  <2>3. \A m \in Messages : waited[m] \in Nat /\ held[m] \in Nat
    BY <2>1, TimeAssumption, BoundAssumption DEF TypeOK, TimeAssumption, BoundAssumption
  <2>4. \A m \in Messages \cap Elements(lockQ) : m \in Writers
    BY MessagesAreNumbers DEF Writers
  <2>5. ASSUME NEW m \in Messages, m \in Elements(lockQ) \cup Elements(pending), ~Tried(m)
        PROVE  waited[m] <= Window + held[m]
    <3>1. waited[m] = held[m] \/ waited[m] <= age + held[m]
      BY <2>1, <2>4, <2>5 DEF WaitInv
    <3> QED BY <2>2, <2>3, <3>1
  <2> QED BY <2>5 DEF FirstWaitBounded
<1> QED BY <1>1, CoalescerIsCorrect, PTL

\* The only way to lose a message of a process that goes on is a processing that
\* swallows its cancellation: where none can, what was in flight always comes
\* back ("restored to pending if cancelled").
THEOREM OnlySwallowedCancelsLose == Spec => [](CancelMayBeLost \/ NothingLost)
<1>1. Init => CancelMayBeLost \/ NothingLost
  BY DEF Init, NothingLost
<1>2. TypeOK /\ (CancelMayBeLost \/ NothingLost) /\ [Next]_vars
         => (CancelMayBeLost \/ NothingLost)'
  <2> SUFFICES ASSUME TypeOK, ~CancelMayBeLost, NothingLost, [Next]_vars
               PROVE  NothingLost'
    OBVIOUS
  <2>1. CASE Shutdown
    BY <2>1, BoundAssumption DEF Shutdown, NothingLost, TypeOK, BoundAssumption
  <2>2. CASE Finish
    BY <2>2 DEF Finish, Undisturbed, Outcome, NothingLost
  <2>3. CASE UNCHANGED <<lost, shutdowns>>
    BY <2>3 DEF NothingLost
  <2> QED BY <2>1, <2>2, <2>3 DEF Next, TaskStep, Arrive, Join, Interrupt, Resume, TimerFires,
               TimerRuns, Reply, Fail, Abort, Tick, vars, historyVars
<1> QED BY <1>1, <1>2, CoalescerIsTyped, PTL DEF Spec

-----------------------------------------------------------------------------
(* The coalescer keeps what the inbox promises.                            *)

Stutters == UNCHANGED <<Taken, handled>>

LEMMA QuietSteps ==
    ASSUME UNCHANGED <<pending, inFlight, handled>> PROVE Stutters
BY DEF Stutters, Taken

LEMMA EnqueueMaps ==
    ASSUME CoalescerInv, CoalescerInv', HasLock, NEW active \in BOOLEAN,
           Enqueue(inFlight \o pending, <<>>, active), UNCHANGED handled
    PROVE  Promise!Receive
<1> DEFINE queue == inFlight \o pending
<1>1. TypeOK /\ QueueInv /\ PlaceInv /\ OrderInv /\ TypeOK'
  BY DEF CoalescerInv
<1>2. Holder \in Writers /\ Holder \in Messages
  BY <1>1, HolderLeaves DEF Writers, HasLock
<1>3. /\ queue \in Seq(Messages) /\ handled \in Seq(Messages)
      /\ Append(queue, Holder) \in Seq(Messages)
  BY <1>1, <1>2, BatchIsOrdered DEF TypeOK
<1>4. inFlight' \o pending' = Append(queue, Holder)
  <2>1. \/ inFlight' = Append(queue, Holder) /\ pending' = <<>>
        \/ inFlight' = <<>> /\ pending' = Append(queue, Holder)
    BY DEF Enqueue, Process, Hold
  <2> QED BY <1>3, <2>1, ConcatEmptySeq
<1>5. Taken = handled \o queue
  BY <1>1, TakenIs
<1>6. Taken' = handled' \o (inFlight' \o pending')
  <2>1. handled' \in Seq(Messages) /\ inFlight' \in Seq(Messages) /\ pending' \in Seq(Messages)
    BY <1>1 DEF TypeOK
  <2> QED BY <2>1, ConcatAssociative DEF Taken
<1> HIDE DEF queue
<1>7. Taken' = Append(Taken, Holder)
  <2>1. /\ Append(queue, Holder) = queue \o <<Holder>>
        /\ Append(Taken, Holder) = Taken \o <<Holder>>
    BY <1>1, <1>2, <1>3, TakenIs, AppendIsConcat
  <2>2. (handled \o queue) \o <<Holder>> = handled \o (queue \o <<Holder>>)
    <3>1. <<Holder>> \in Seq(Messages)
      BY <1>2
    <3> QED BY <1>3, <3>1, ConcatAssociative
  <2> QED BY <1>4, <1>5, <1>6, <2>1, <2>2
<1>8. \A i \in DOMAIN Taken : Taken[i] < Holder
  BY <1>1, <1>2, TakenIs DEF PlaceInv, Elements
<1> QED BY <1>2, <1>7, <1>8 DEF Promise!Receive

\* Everything not yet dealt with is given up.
LEMMA RestGivenUp ==
    ASSUME NEW s \in Seq(Messages), NEW t \in Seq(Messages)
    PROVE  /\ s = SubSeq(s \o t, 1, Len(s)) \o SubSeq(s \o t, Len(s \o t) + 1, Len(s \o t))
           /\ Len(s) \in Len(s)..Len(s \o t)
           /\ Len(s \o t) + 1 \in Len(s) + 1..Len(s \o t) + 1
<1> DEFINE r == s \o t
<1>1. /\ r \in Seq(Messages) /\ Len(r) = Len(s) + Len(t) /\ Len(s) \in Nat /\ Len(t) \in Nat
      /\ \A i \in 1..Len(s) : r[i] = s[i] /\ r[i] \in Messages
  OBVIOUS
<1> HIDE DEF r
<1>2. SubSeq(r, Len(r) + 1, Len(r)) = <<>>
  BY <1>1, SubSeqEmpty
<1>3. SubSeq(r, 1, Len(s)) = s
  <2> DEFINE b == SubSeq(r, 1, Len(s))
  <2>1. /\ b \in Seq(Messages) /\ Len(b) = Len(s)
        /\ \A i \in 1..Len(s) : b[i] = r[i]
    BY <1>1, SubSeqProperties
  <2> HIDE DEF b
  <2>2. b = s
    BY <1>1, <2>1, SeqEqual
  <2> QED BY <2>2 DEF b
<1>4. SubSeq(r, 1, Len(s)) \o SubSeq(r, Len(r) + 1, Len(r)) = s
  BY <1>2, <1>3, ConcatEmptySeq
<1> QED BY <1>1, <1>4 DEF r

LEMMA ShutdownMaps == CoalescerInv /\ Shutdown => Promise!Next
<1> SUFFICES ASSUME CoalescerInv, Shutdown PROVE Promise!Next
  OBVIOUS
<1> DEFINE queue == inFlight \o pending
<1>1. TypeOK /\ handled \in Seq(Messages) /\ queue \in Seq(Messages)
  BY DEF CoalescerInv, TypeOK
<1>2. Taken = handled \o queue
  BY <1>1, TakenIs
<1>3. handled' = handled /\ Taken' = (handled \o <<>>) \o <<>>
  BY DEF Shutdown, Taken
<1>4. Taken' = handled
  BY <1>1, <1>3, ConcatEmptySeq
<1> HIDE DEF queue
<1> QED BY <1>1, <1>2, <1>3, <1>4, RestGivenUp DEF Promise!Next, Promise!GiveUp

LEMMA BatchEndMaps ==
    ASSUME CoalescerInv, hasTask, Going(Current),
           \/ handled' = handled \o inFlight /\ inFlight' = <<>> /\ pending' = pending
           \/ handled' = handled /\ inFlight' = <<>> /\ pending' = pending
    PROVE  Promise!Next \/ Stutters
<1>1. TypeOK /\ pending = <<>> /\ handled \in Seq(Messages) /\ inFlight \in Seq(Messages)
  BY DEF CoalescerInv, TaskInv, Processing, TypeOK
<1>2. Taken = handled \o inFlight /\ Taken \in Seq(Messages)
  BY <1>1, TakenIs, ConcatEmptySeq
<1>3. Taken' = handled'
  <2>1. handled \o inFlight \in Seq(Messages)
    BY <1>1
  <2>2. handled' \in Seq(Messages) /\ inFlight' = <<>> /\ pending' = <<>>
    BY <1>1, <2>1, Zenon
  <2>3. handled' \o <<>> = handled'
    BY <2>2, ConcatEmptySeq
  <2> QED BY <2>2, <2>3 DEF Taken
<1>4. Len(Taken) = Len(handled) + Len(inFlight) /\ Len(handled) \in Nat /\ Len(inFlight) \in Nat
  BY <1>1, <1>2
<1>5. CASE handled' = handled \o inFlight
  <2>1. SubSeq(Taken, 1, Len(Taken)) = Taken
    BY <1>2, SubSeqFull
  <2>2. CASE inFlight = <<>>
    <3>1. handled \o inFlight = handled
      BY <1>1, <2>2, ConcatEmptySeq
    <3> QED BY <1>2, <1>3, <1>5, <3>1 DEF Stutters
  <2>3. CASE inFlight # <<>>
    <3>1. Len(Taken) \in Len(handled) + 1..Len(Taken)
      BY <1>1, <1>4, <2>3
    <3> QED BY <1>2, <1>3, <1>5, <2>1, <3>1 DEF Promise!Next, Promise!Handle
  <2> QED BY <2>2, <2>3
<1>6. CASE handled' = handled
  <2>1. /\ handled = SubSeq(Taken, 1, Len(handled)) \o SubSeq(Taken, Len(Taken) + 1, Len(Taken))
        /\ Len(handled) \in Len(handled)..Len(Taken)
        /\ Len(Taken) + 1 \in Len(handled) + 1..Len(Taken) + 1
    BY <1>1, <1>2, RestGivenUp
  <2>2. Taken' = SubSeq(Taken, 1, Len(handled)) \o SubSeq(Taken, Len(Taken) + 1, Len(Taken))
    BY <1>3, <1>6, <2>1
  <2> QED BY <1>6, <2>1, <2>2 DEF Promise!Next, Promise!GiveUp
<1> QED BY <1>5, <1>6

LEMMA StartMaps == Init => Promise!Init
<1> SUFFICES ASSUME Init PROVE Promise!Init
  OBVIOUS
<1>1. handled = <<>> /\ inFlight = <<>> /\ pending = <<>>
  BY DEF Init
<1>2. <<>> \in Seq(Messages)
  OBVIOUS
<1> QED BY <1>1, <1>2, ConcatEmptySeq DEF Promise!Init, Taken

LEMMA StepsMap == CoalescerInv /\ CoalescerInv' /\ [Next]_vars => Promise!Next \/ Stutters
<1> SUFFICES ASSUME CoalescerInv, CoalescerInv', [Next]_vars
             PROVE  Promise!Next \/ Stutters
  OBVIOUS
<1>1. TypeOK /\ TaskInv /\ QueueInv
  BY DEF CoalescerInv
<1>2. CASE Arrive \/ Interrupt \/ TimerFires \/ Reply \/ Abort \/ Tick \/ UNCHANGED vars
  <2>1. UNCHANGED <<pending, inFlight, handled>>
    BY <1>2 DEF Arrive, Interrupt, TimerFires, Reply, Abort, Tick, vars, historyVars
  <2> QED BY <2>1, QuietSteps
<1>3. CASE Join
  <2>1. inFlight = <<>> /\ hasTask \in BOOLEAN /\ pending \in Seq(Messages)
    BY <1>1, <1>3 DEF Join, TaskInv, TypeOK
  <2>2. Enqueue(inFlight \o pending, <<>>, hasTask)
    <3>1. inFlight \o pending = pending
      BY <2>1
    <3> QED BY <1>3, <2>1, <3>1 DEF Join
  <2>3. HasLock /\ UNCHANGED handled
    BY <1>3 DEF Join, historyVars
  <2> QED BY <2>1, <2>2, <2>3, EnqueueMaps DEF Promise!Next
<1>4. CASE Resume
  <2>1. HasLock /\ Enqueue(inFlight \o pending, <<>>, FALSE) /\ UNCHANGED handled
    BY <1>1, <1>4 DEF Resume, QueueInv, historyVars
  <2> QED BY <2>1, EnqueueMaps DEF Promise!Next
<1>5. CASE TimerRuns
  <2>1. CASE pending # <<>> /\ Process(pending)
    <3>1. inFlight = <<>> /\ inFlight' = pending /\ pending' = <<>> /\ handled' = handled
      BY <1>1, <1>5, <2>1 DEF TaskInv, TimerRuns, QueueInv, HasLock, Process, historyVars
    <3>2. pending \in Seq(Messages) /\ handled \in Seq(Messages) /\ handled \o pending \in Seq(Messages)
      BY <1>1 DEF TypeOK
    <3>3. /\ Taken = (handled \o <<>>) \o pending
          /\ Taken' = (handled \o pending) \o <<>>
      BY <3>1 DEF Taken
    <3>4. handled \o <<>> = handled /\ (handled \o pending) \o <<>> = handled \o pending
      BY <3>2, ConcatEmptySeq
    <3> QED BY <3>1, <3>3, <3>4 DEF Stutters
  <2>2. CASE UNCHANGED <<pending, inFlight>>
    BY <1>5, <2>2, QuietSteps DEF TimerRuns, historyVars
  <2> QED BY <1>5, <2>1, <2>2 DEF TimerRuns
<1>6. CASE Finish
  <2>1. hasTask /\ Going(Current) /\ inFlight = Current.batch
    BY <1>1, <1>6 DEF Finish, Undisturbed, Going, TaskInv, Processing
  <2>2. \/ handled' = handled \o inFlight /\ inFlight' = <<>> /\ pending' = pending
        \/ handled' = handled /\ inFlight' = <<>> /\ pending' = pending
    BY <1>6, <2>1 DEF Finish, Outcome
  <2> QED BY <2>1, <2>2, BatchEndMaps
<1>7. CASE Fail
  <2>1. hasTask /\ Going(Current) /\ inFlight = Current.batch
    BY <1>1, <1>7 DEF Fail, Undisturbed, Going, TaskInv, Processing
  <2>2. handled' = handled \o inFlight /\ inFlight' = <<>> /\ pending' = pending
    BY <1>7, <2>1 DEF Fail
  <2> QED BY <2>1, <2>2, BatchEndMaps
<1>8. CASE Shutdown
  BY <1>8, ShutdownMaps
<1> QED BY <1>2, <1>3, <1>4, <1>5, <1>6, <1>7, <1>8 DEF Next, TaskStep

\* The coalescer implements the inbox: what it has dealt with is at any time a
\* beginning of what it took in, in the order of arrival, and what is given up
\* is one stretch of messages at a time and never one already dealt with.
THEOREM CoalescerImplementsInbox == Spec => InboxSpec
<1>1. CoalescerInv /\ CoalescerInv' /\ [Next]_vars => [Promise!Next]_(Promise!inboxVars)
  BY StepsMap DEF Stutters, Promise!inboxVars
<1> QED BY <1>1, StartMaps, CoalescerIsCorrect, PTL DEF Spec, InboxSpec, Promise!Spec
=============================================================================
