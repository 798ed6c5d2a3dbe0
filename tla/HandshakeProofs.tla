--------------------------- MODULE HandshakeProofs ---------------------------
(* For any people, requests, worker processes and faults: nobody is brought  *)
(* together who did not both agree, a request that is recorded as introduced *)
(* names a chat in which both of its people are, and what was agreed gets    *)
(* one chat unless a fault or another call on it interfered.                 *)
EXTENDS Handshake, FiniteSetTheorems, TLAPS

Pcs  == {"idle", "inviting", "checking", "creating", "refreshing", "gathering",
         "opening", "recording", "adding", "announcing", "marking"}
Hows == {"none", Fresh, "single", "multi", "late", "expand", "existing"}

WorkRows == [pc: Pcs, req: Requests, ids: SUBSET Requests,
             chat: Chats \union {NoChat}, how: Hows, who: SUBSET Users]

Agreed(r, st) == st[r] \in {TA, GC}

\* The two people of a request, or its initiator, are in a chat, unless it was
\* made without somebody.
Together(r, c, mem, sh) == PersonsOf(r) \subseteq mem[c] \/ c \in sh
Hosted(r, c, mem, sh)   == InitiatorOf[r] \in mem[c] \/ c \in sh

(* What a call at v has read goes on holding while other calls go on; the    *)
(* parameters are status, signal, members, via, origin and short.            *)

\* How the call makes the two meet fits its request.
GoodHow(v, sg) ==
  /\ v.how \in {"single", "multi", "late", "expand", "existing"}
  /\ v.how = "single" => sg[v.req] = NoSignal
  /\ v.how = "late"   => v.req \in sg[v.req]
  /\ v.how = "expand" => v.req \notin sg[v.req]

\* All it brings together belongs to one search, or is its own request.
GoodIds(v, sg) ==
  IF v.how = "multi" THEN \A r \in v.ids : sg[r] = sg[v.req] /\ r \in sg[r]
                     ELSE v.ids \subseteq {v.req}

GoodWork(v, st, sg, mem, va, og, sh) ==
  /\ v \in WorkRows
  /\ v.pc \notin {"idle", "inviting"} => Agreed(v.req, st)
  /\ \A r \in v.ids : Agreed(r, st)
  /\ v.chat # NoChat => og[v.chat] # {}
  /\ v.pc = "creating" =>
       /\ v.chat # NoChat /\ v.req \in sg[v.req] => Hosted(v.req, v.chat, mem, sh)
       /\ v.chat = NoChat => \A r \in v.ids : sg[r] = sg[v.req] /\ r \in sg[r]
  /\ v.pc \in {"gathering", "opening", "recording", "adding", "announcing", "marking"} => GoodHow(v, sg)
  /\ v.pc \in {"gathering", "opening", "recording", "marking"} => GoodIds(v, sg)
  /\ v.pc = "checking" => sg[v.req] # NoSignal
  /\ v.pc = "refreshing" => v.req \in sg[v.req]
  /\ v.pc \in {"gathering", "opening"} => v.how \in {"single", "multi"} /\ v.req \in v.ids
  /\ v.pc \in {"adding", "announcing"} => v.how \in {"late", "expand", "existing"}
  /\ v.pc \in {"recording", "adding", "announcing", "marking"} => v.chat # NoChat
  /\ v.pc = "adding" => Hosted(v.req, v.chat, mem, sh)
  /\ v.pc = "announcing" => /\ TargetOf[v.req] \in mem[v.chat] /\ v.req \in va[v.chat]
                            /\ Together(v.req, v.chat, mem, sh)
  /\ v.pc = "recording" => v.who \subseteq mem[v.chat]
  /\ v.pc \in {"recording", "marking"} =>
       \A r \in v.ids : Together(r, v.chat, mem, sh) /\ r \in va[v.chat]

WorkInv ==
  /\ work \in [Workers -> WorkRows]
  /\ \A w \in Workers : GoodWork(work[w], status, signal, members, via, origin, short)

\* A chat that does not exist has no rows, and its people agreed to it.
ChatInv ==
  /\ origin \in [Chats -> SUBSET Requests]
  /\ \A c \in Chats :
       /\ origin[c] = {} => rows[c] = {} /\ via[c] = {}
       /\ rows[c] \subseteq members[c]
       /\ \A r \in via[c] : Agreed(r, status)

\* The chats a request names: of its introduction or of its expansion (guid),
\* and of its multi-match (mguid).
GuidInv ==
  \A r \in Requests :
    /\ status[r] = "none" => guid[r] = NoChat /\ mguid[r] = NoChat /\ signal[r] = NoSignal
    /\ guid[r] # NoChat => origin[guid[r]] # {} /\ Hosted(r, guid[r], members, short)
    /\ mguid[r] # NoChat => /\ r \in signal[r] /\ origin[mguid[r]] # {}
                            /\ Hosted(r, mguid[r], members, short)
    /\ status[r] = GC => guid[r] # NoChat /\ Together(r, guid[r], members, short)

\* A signal group is one search, all of whose requests exist; a request of
\* the group that is not of the search expands the chat of the group.
SignalInv ==
  \A r \in Requests :
    /\ signal[r] # NoSignal =>
         /\ signal[r] \in Batches /\ \A q \in signal[r] : status[q] # "none"
         /\ r \in signal[r] \/ guid[r] # NoChat
    /\ r \in signal[r] /\ guid[r] # NoChat => status[r] = GC
    /\ signal[r] # NoSignal /\ guid[r] # NoChat =>
         \E q \in Requests : signal[q] = signal[r] /\ mguid[q] # NoChat

HandshakeInv == TypeOK /\ WorkInv /\ ChatInv /\ GuidInv /\ SignalInv
------------------------------------------------------------------------------
(* What a call knows is kept.                                                *)

Grows(st, st2, sg, sg2, mem, mem2, va, va2, og, og2, sh, sh2) ==
  /\ sh \subseteq sh2
  /\ \A r \in Requests : Agreed(r, st) => Agreed(r, st2)
  /\ \A r \in Requests : Agreed(r, st) => sg2[r] = sg[r]
  /\ \A c \in Chats : og[c] # {} => /\ og2[c] = og[c] /\ mem[c] \subseteq mem2[c]
                                    /\ va[c] \subseteq va2[c]

\* The state around the calls grows in this step.
StateGrows == Grows(status, status', signal, signal', members, members', via, via', origin, origin', short, short')

LEMMA WorkIsKept ==
  ASSUME NEW st, NEW st2, NEW sg, NEW sg2, NEW mem, NEW mem2, NEW va, NEW va2,
         NEW og, NEW og2, NEW sh, NEW sh2,
         Grows(st, st2, sg, sg2, mem, mem2, va, va2, og, og2, sh, sh2),
         NEW v, GoodWork(v, st, sg, mem, va, og, sh)
  PROVE  GoodWork(v, st2, sg2, mem2, va2, og2, sh2)
<1>1. /\ v \in WorkRows /\ v.req \in Requests /\ v.ids \subseteq Requests
      /\ v.chat # NoChat => v.chat \in Chats /\ og[v.chat] # {}
  BY DEF GoodWork, WorkRows
<1>2. v.pc \notin {"idle", "inviting"} => Agreed(v.req, st) /\ Agreed(v.req, st2) /\ sg2[v.req] = sg[v.req]
  BY <1>1 DEF GoodWork, Grows
<1>3. \A r \in v.ids : Agreed(r, st2) /\ sg2[r] = sg[r]
  BY <1>1 DEF GoodWork, Grows
<1>4. v.chat # NoChat => /\ og2[v.chat] = og[v.chat] /\ mem[v.chat] \subseteq mem2[v.chat]
                         /\ va[v.chat] \subseteq va2[v.chat] /\ sh \subseteq sh2
  BY <1>1 DEF Grows
<1>5. ASSUME v.chat # NoChat
      PROVE  /\ \A r : Together(r, v.chat, mem, sh) => Together(r, v.chat, mem2, sh2)
             /\ \A r : Hosted(r, v.chat, mem, sh) => Hosted(r, v.chat, mem2, sh2)
  BY <1>4, <1>5 DEF Together, Hosted
<1>6. v.pc = "creating" =>
        /\ v.chat # NoChat /\ v.req \in sg2[v.req] => Hosted(v.req, v.chat, mem2, sh2)
        /\ v.chat = NoChat => \A r \in v.ids : sg2[r] = sg2[v.req] /\ r \in sg2[r]
  BY <1>2, <1>3, <1>5 DEF GoodWork
<1>7. /\ v.pc \in {"gathering", "opening", "recording", "adding", "announcing", "marking"} => GoodHow(v, sg2)
      /\ v.pc \in {"gathering", "opening", "recording", "marking"} => GoodIds(v, sg2)
  BY <1>2, <1>3 DEF GoodWork, GoodHow, GoodIds
<1>8. /\ v.pc = "adding" => Hosted(v.req, v.chat, mem2, sh2)
      /\ v.pc = "announcing" => /\ TargetOf[v.req] \in mem2[v.chat] /\ v.req \in va2[v.chat]
                                /\ Together(v.req, v.chat, mem2, sh2)
      /\ v.pc = "recording" => v.who \subseteq mem2[v.chat]
      /\ v.pc \in {"recording", "marking"} =>
           \A r \in v.ids : Together(r, v.chat, mem2, sh2) /\ r \in va2[v.chat]
  BY <1>4, <1>5 DEF GoodWork
<1> QED BY <1>1, <1>2, <1>3, <1>4, <1>6, <1>7, <1>8 DEF GoodWork

\* At most one call goes on, to a good place.
LEMMA WorkersAreKept ==
  ASSUME WorkInv, StateGrows,
         \/ work' = work
         \/ \E w \in Workers, v \in WorkRows :
              /\ GoodWork(v, status', signal', members', via', origin', short')
              /\ work' = [work EXCEPT ![w] = v]
  PROVE  WorkInv'
<1>1. \A u \in Workers : GoodWork(work[u], status', signal', members', via', origin', short')
  BY WorkIsKept DEF WorkInv, StateGrows
<1>2. CASE work' = work
  BY <1>1, <1>2 DEF WorkInv
<1>3. ASSUME NEW w \in Workers, NEW v \in WorkRows, work' = [work EXCEPT ![w] = v],
             GoodWork(v, status', signal', members', via', origin', short')
      PROVE  WorkInv'
  <2>1. work' \in [Workers -> WorkRows]
    BY <1>3 DEF WorkInv
  <2>2. \A u \in Workers : work'[u] = IF u = w THEN v ELSE work[u]
    BY <1>3 DEF WorkInv
  <2>3. \A u \in Workers : GoodWork(work'[u], status', signal', members', via', origin', short')
    BY <1>1, <1>3, <2>2
  <2> QED BY <2>1, <2>3 DEF WorkInv
<1> QED BY <1>2, <1>3
------------------------------------------------------------------------------
(* The steps, grouped by what they change.                                   *)

LEMMA IdleIsGood ==
  /\ Idle \in WorkRows /\ Idle.req \in Requests
  /\ \A st, sg, mem, va, og, sh : GoodWork(Idle, st, sg, mem, va, og, sh)
<1>1. (CHOOSE r \in Requests : TRUE) \in Requests
  BY HandshakeAssumption DEF HandshakeAssumption
<1>2. Idle \in WorkRows
  BY <1>1 DEF Idle, WorkRows, Pcs, Hows
<1>3. \A st, sg, mem, va, og, sh : GoodWork(Idle, st, sg, mem, va, og, sh)
  BY <1>2 DEF Idle, GoodWork
<1> QED BY <1>1, <1>2, <1>3 DEF Idle

\* How a worker's call may go on: not at all, or to a good place.
WorkGoesOn ==
  \/ work' = work
  \/ \E w \in Workers, v \in WorkRows :
       /\ GoodWork(v, status', signal', members', via', origin', short')
       /\ work' = [work EXCEPT ![w] = v]

\* Only a call goes on.
LEMMA CallGoesOn ==
  ASSUME HandshakeInv, invited' \subseteq Requests, failed' \subseteq Requests, WorkGoesOn,
         UNCHANGED <<status, guid, mguid, signal, members, rows, via, origin, short>>
  PROVE  HandshakeInv'
<1>1. StateGrows
  BY DEF StateGrows, Grows
<1>2. WorkInv'
  BY <1>1, WorkersAreKept DEF HandshakeInv, WorkGoesOn
<1>3. \A w \in Workers : work'[w].req \in Requests /\ work'[w].ids \subseteq Requests /\ work'[w].who \subseteq Users
  BY <1>2 DEF WorkInv, WorkRows
<1>4. TypeOK'
  BY <1>3 DEF HandshakeInv, TypeOK
<1>5. ChatInv' /\ GuidInv' /\ SignalInv'
  BY DEF HandshakeInv, ChatInv, GuidInv, SignalInv, Agreed
<1> QED BY <1>2, <1>4, <1>5 DEF HandshakeInv

\* Somebody answers for a request that was not settled before.
LEMMA StatusMoves ==
  ASSUME HandshakeInv, WorkGoesOn, NEW r \in Requests, NEW to \in {PT, CX, TA, TD},
         status[r] \in {PI, PT}, SetStatus(r, to),
         UNCHANGED <<guid, mguid, signal, members, rows, via, origin, short, invited, failed>>
  PROVE  HandshakeInv'
<1>1. /\ status' \in [Requests -> Statuses]
      /\ \A q \in Requests : /\ status[q] \in {TA, GC} => status'[q] \in {TA, GC}
                             /\ status'[q] = "none" <=> status[q] = "none"
                             /\ status'[q] = GC <=> status[q] = GC
  BY DEF HandshakeInv, TypeOK, SetStatus, Statuses, PI, PT, TA, TD, GC, CX
<1>2. StateGrows
  BY <1>1 DEF StateGrows, Grows, Agreed
<1>3. WorkInv'
  BY <1>2, WorkersAreKept DEF HandshakeInv, WorkGoesOn
<1>4. \A w \in Workers : work'[w].req \in Requests /\ work'[w].ids \subseteq Requests /\ work'[w].who \subseteq Users
  BY <1>3 DEF WorkInv, WorkRows
<1>5. TypeOK'
  BY <1>1, <1>4 DEF HandshakeInv, TypeOK
<1>6. \A c \in Chats : via[c] \subseteq Requests
  BY DEF HandshakeInv, TypeOK
<1>7. ChatInv'
  BY <1>1, <1>6 DEF HandshakeInv, ChatInv, Agreed
<1>8. GuidInv'
  BY <1>1 DEF HandshakeInv, GuidInv
<1>9. ASSUME NEW q \in Requests, signal[q] # NoSignal
      PROVE  \A p \in signal[q] : status'[p] # "none"
  BY <1>1, <1>9, HandshakeAssumption DEF HandshakeInv, SignalInv, HandshakeAssumption
<1>10. SignalInv'
  BY <1>1, <1>9 DEF HandshakeInv, SignalInv
<1> QED BY <1>3, <1>5, <1>7, <1>8, <1>10 DEF HandshakeInv

\* One search creates its requests.
LEMMA CreationIsKept ==
  ASSUME HandshakeInv, NEW R \in Batches, NEW multi, R # {}, CreateRequests(R, multi),
         multi \in BOOLEAN
  PROVE  HandshakeInv'
<1>1. R \subseteq Requests
  BY HandshakeAssumption DEF HandshakeAssumption
<1>2. /\ status \in [Requests -> Statuses]
      /\ \A q \in Requests : status'[q] = IF q \in R THEN PI ELSE status[q]
      /\ \A q \in Requests : signal'[q] = IF q \in R /\ multi THEN R ELSE signal[q]
      /\ \A q \in R : status[q] = "none"
      /\ status' \in [Requests -> Statuses]
      /\ signal' \in [Requests -> Batches \union {NoSignal}]
      /\ UNCHANGED <<guid, mguid, members, rows, via, origin, short, work, invited, failed>>
  BY <1>1 DEF CreateRequests, HandshakeInv, TypeOK, Statuses, photon, target, mishaps
<1>3. \A q \in Requests : /\ Agreed(q, status') <=> Agreed(q, status)
                          /\ Agreed(q, status) => signal'[q] = signal[q]
                          /\ status'[q] = GC <=> status[q] = GC
                          /\ status[q] # "none" => status'[q] # "none"
  BY <1>1, <1>2 DEF Agreed, Statuses, PI, PT, TA, TD, GC, CX
<1>4. StateGrows
  BY <1>2, <1>3 DEF StateGrows, Grows
<1>5. WorkInv'
  BY <1>2, <1>4, WorkersAreKept DEF HandshakeInv
<1>6. TypeOK'
  BY <1>2 DEF HandshakeInv, TypeOK
<1>7. ChatInv'
  BY <1>2, <1>3 DEF HandshakeInv, ChatInv, TypeOK
<1>8. \A q \in R : guid[q] = NoChat /\ mguid[q] = NoChat /\ signal[q] = NoSignal
  BY <1>1, <1>2 DEF HandshakeInv, GuidInv
<1>9. ASSUME NEW q \in Requests
      PROVE  /\ status'[q] = "none" => guid'[q] = NoChat /\ mguid'[q] = NoChat /\ signal'[q] = NoSignal
             /\ guid'[q] # NoChat => origin'[guid'[q]] # {} /\ Hosted(q, guid'[q], members', short')
             /\ mguid'[q] # NoChat => /\ q \in signal'[q] /\ origin'[mguid'[q]] # {}
                                      /\ Hosted(q, mguid'[q], members', short')
             /\ status'[q] = GC => guid'[q] # NoChat /\ Together(q, guid'[q], members', short')
  <2>1. CASE q \in R
    BY <1>2, <1>8, <2>1 DEF PI, GC
  <2>2. CASE q \notin R
    BY <1>2, <2>2 DEF HandshakeInv, GuidInv
  <2> QED BY <2>1, <2>2
<1>10. GuidInv'
  BY <1>9 DEF GuidInv
<1>11. ASSUME NEW q \in Requests
       PROVE  /\ signal'[q] # NoSignal =>
                   /\ signal'[q] \in Batches /\ \A p \in signal'[q] : status'[p] # "none"
                   /\ q \in signal'[q] \/ guid'[q] # NoChat
              /\ q \in signal'[q] /\ guid'[q] # NoChat => status'[q] = GC
              /\ signal'[q] # NoSignal /\ guid'[q] # NoChat =>
                   \E p \in Requests : signal'[p] = signal'[q] /\ mguid'[p] # NoChat
  <2>1. CASE q \in R
    BY <1>1, <1>2, <1>8, <2>1 DEF PI, NoSignal
  <2>2. CASE q \notin R
    <3>1. signal'[q] = signal[q] /\ guid'[q] = guid[q] /\ (status'[q] = GC <=> status[q] = GC)
      BY <1>2, <2>2
    <3>2. signal[q] # NoSignal =>
            /\ signal[q] \in Batches /\ \A p \in signal[q] : p \in Requests /\ status[p] # "none"
            /\ q \in signal[q] \/ guid[q] # NoChat
      BY HandshakeAssumption DEF HandshakeAssumption, HandshakeInv, SignalInv
    <3>3. signal[q] # NoSignal => \A p \in signal[q] : status'[p] # "none"
      BY <1>3, <3>2
    <3>4. signal[q] # NoSignal /\ guid[q] # NoChat =>
            \E p \in Requests : signal[p] = signal[q] /\ mguid[p] # NoChat
      BY DEF HandshakeInv, SignalInv
    <3>5. signal[q] # NoSignal /\ guid[q] # NoChat =>
            \E p \in Requests : signal'[p] = signal[q] /\ mguid'[p] # NoChat
      BY <1>2, <1>8, <3>4
    <3> QED BY <3>1, <3>2, <3>3, <3>5 DEF HandshakeInv, SignalInv
  <2> QED BY <2>1, <2>2
<1>12. SignalInv'
  BY <1>11 DEF SignalInv
<1> QED BY <1>5, <1>6, <1>7, <1>10, <1>12 DEF HandshakeInv

\* A group chat asks for one more person.
LEMMA ExpansionIsKept ==
  ASSUME HandshakeInv, NEW r \in Requests, NEW c \in Chats, ExpandGroupChat(r, c)
  PROVE  HandshakeInv'
<1>1. PICK s \in Batches \union {NoSignal} :
        /\ signal' = [signal EXCEPT ![r] = s]
        /\ s # NoSignal => \E q \in Requests : guid[q] = c /\ signal[q] = s
  <2> DEFINE E == {signal[q] : q \in {q \in Requests : guid[q] = c}} \ {NoSignal}
  <2>1. PICK s \in IF E = {} THEN {NoSignal} ELSE E : signal' = [signal EXCEPT ![r] = s]
    BY DEF ExpandGroupChat
  <2>2. s # NoSignal => \E q \in Requests : guid[q] = c /\ signal[q] = s
    BY <2>1
  <2>3. s \in Batches \union {NoSignal}
    BY <2>2 DEF HandshakeInv, TypeOK
  <2> QED BY <2>1, <2>2, <2>3
<1>2. /\ status[r] = "none" /\ {r} \in Batches /\ InitiatorOf[r] \in rows[c]
      /\ \A q \in Requests : status'[q] = IF q = r THEN PI ELSE status[q]
      /\ \A q \in Requests : guid'[q] = IF q = r THEN c ELSE guid[q]
      /\ \A q \in Requests : signal'[q] = IF q = r THEN s ELSE signal[q]
      /\ status' \in [Requests -> Statuses] /\ guid' \in [Requests -> Chats \union {NoChat}]
      /\ signal' \in [Requests -> Batches \union {NoSignal}]
      /\ UNCHANGED <<mguid, members, rows, via, origin, short, work, invited, failed>>
  BY <1>1 DEF ExpandGroupChat, SetStatus, HandshakeInv, TypeOK, Statuses, photon, target
<1>3. /\ guid[r] = NoChat /\ mguid[r] = NoChat /\ signal[r] = NoSignal
      /\ c # NoChat /\ origin[c] # {} /\ Hosted(r, c, members, short)
  BY <1>2 DEF HandshakeInv, GuidInv, ChatInv, Chats, NoChat, Hosted
<1>4. \A q \in Requests : /\ Agreed(q, status') <=> Agreed(q, status)
                          /\ Agreed(q, status) => signal'[q] = signal[q]
                          /\ status'[q] = GC <=> status[q] = GC
                          /\ status[q] # "none" => status'[q] # "none"
  BY <1>2 DEF Agreed, PI, TA, GC
<1>5. StateGrows
  BY <1>2, <1>4 DEF StateGrows, Grows
<1>6. WorkInv'
  BY <1>2, <1>5, WorkersAreKept DEF HandshakeInv
<1>7. TypeOK'
  BY <1>2 DEF HandshakeInv, TypeOK
<1>8. ChatInv'
  BY <1>2, <1>4 DEF HandshakeInv, ChatInv, TypeOK
<1>9. GuidInv'
  BY <1>2, <1>3 DEF HandshakeInv, GuidInv, PI, GC
<1>10. \A q \in Requests : signal[q] # NoSignal => \A p \in signal[q] : p \in Requests /\ p # r
  BY <1>2, HandshakeAssumption DEF HandshakeAssumption, HandshakeInv, SignalInv
<1>11. ASSUME NEW q \in Requests, signal[q] # NoSignal
       PROVE  \A p \in signal[q] : status'[p] # "none"
  BY <1>4, <1>10, <1>11 DEF HandshakeInv, SignalInv
<1>12. ASSUME NEW q \in Requests, signal[q] # NoSignal, guid[q] # NoChat
       PROVE  \E p \in Requests : signal'[p] = signal[q] /\ mguid'[p] # NoChat
  BY <1>2, <1>3, <1>12 DEF HandshakeInv, SignalInv
<1>13. s # NoSignal => /\ s \in Batches /\ r \notin s /\ \A p \in s : status'[p] # "none"
                       /\ \E p \in Requests : signal'[p] = s /\ mguid'[p] # NoChat
  BY <1>1, <1>3, <1>10, <1>11, <1>12
<1>14. r \notin NoSignal
  BY DEF NoSignal
<1>15. SignalInv'
  BY <1>2, <1>3, <1>4, <1>11, <1>12, <1>13, <1>14 DEF HandshakeInv, SignalInv
<1> QED BY <1>6, <1>7, <1>8, <1>9, <1>15 DEF HandshakeInv
------------------------------------------------------------------------------
(* The answers.                                                              *)

LEMMA ConfirmationIsKept ==
  ASSUME HandshakeInv, NEW w \in Workers, NEW r \in Requests, InitiatorConfirms(w, r)
  PROVE  HandshakeInv'
<1> DEFINE v == [Idle EXCEPT !.pc = "inviting", !.req = r]
<1>1. v \in WorkRows
  BY IdleIsGood, Zenon DEF WorkRows, Pcs
<1>2. v.pc = "inviting" /\ v.req = r /\ v.ids = {} /\ v.chat = NoChat
  BY DEF Idle
<1>3. GoodWork(v, status', signal', members', via', origin', short')
  <2> HIDE DEF v
  <2> QED BY <1>1, <1>2 DEF GoodWork
<1>4. WorkGoesOn
  BY <1>1, <1>3 DEF WorkGoesOn, InitiatorConfirms
<1>5. /\ status[r] = PI /\ SetStatus(r, PT)
      /\ UNCHANGED <<guid, mguid, signal, members, rows, via, origin, short, invited, failed>>
  BY DEF InitiatorConfirms, CanMove, photon, target, mishaps
<1> QED BY <1>4, <1>5, StatusMoves

LEMMA AnswersAreKept ==
  ASSUME HandshakeInv, NEW r \in Requests,
         \/ \E tool \in {"cancel", "different"} : InitiatorCancels(r, tool)
         \/ TargetDeclines(r)
  PROVE  HandshakeInv'
<1>1. CASE \E tool \in {"cancel", "different"} : InitiatorCancels(r, tool)
  <2>1. /\ status[r] = PI /\ SetStatus(r, CX) /\ work' = work
        /\ UNCHANGED <<guid, mguid, signal, members, rows, via, origin, short, invited, failed>>
    BY <1>1 DEF InitiatorCancels, CanMove, photon, target, mishaps
  <2> QED BY <2>1, StatusMoves DEF WorkGoesOn
<1>2. CASE TargetDeclines(r)
  <2>1. /\ status[r] = PT /\ SetStatus(r, TD) /\ work' = work
        /\ UNCHANGED <<guid, mguid, signal, members, rows, via, origin, short, invited, failed>>
    BY <1>2 DEF TargetDeclines, CanMove, photon, target, mishaps
  <2> QED BY <2>1, StatusMoves DEF WorkGoesOn
<1> QED BY <1>1, <1>2

LEMMA YesAccepts ==
  ASSUME NEW w \in Workers, NEW r \in Requests, SaysYes(w, r) \/ SaidYes(w, r)
  PROVE  TargetAccepts(w, r)
BY DEF SaysYes, SaidYes

LEMMA AcceptanceIsKept ==
  ASSUME HandshakeInv, NEW w \in Workers, NEW r \in Requests, TargetAccepts(w, r)
  PROVE  HandshakeInv'
<1>1. UNCHANGED <<guid, mguid, signal, members, rows, via, origin, short, invited, failed>>
  BY DEF TargetAccepts, photon
<1>2. CASE /\ CanMove(r, PT, TA) /\ SetStatus(r, TA)
           /\ work' = [work EXCEPT ![w] =
                [Idle EXCEPT !.req = r,
                   !.pc = IF signal[r] = NoSignal THEN "creating" ELSE "checking"]]
  <2> DEFINE pc == IF signal[r] = NoSignal THEN "creating" ELSE "checking"
             v  == [Idle EXCEPT !.req = r, !.pc = pc]
  <2>0. pc \in {"creating", "checking"} /\ pc \in Pcs /\ (pc = "checking" <=> signal[r] # NoSignal)
    BY DEF Pcs
  <2>1. v \in WorkRows
    BY <2>0, IdleIsGood, Zenon DEF WorkRows
  <2>2. v.pc = pc /\ v.req = r /\ v.ids = {} /\ v.chat = NoChat
    BY DEF Idle
  <2>3. Agreed(r, status') /\ signal' = signal
    BY <1>1, <1>2 DEF Agreed, SetStatus, HandshakeInv, TypeOK
  <2>4. GoodWork(v, status', signal', members', via', origin', short')
    <3> HIDE DEF v, pc
    <3> QED BY <2>0, <2>1, <2>2, <2>3 DEF GoodWork
  <2>5. WorkGoesOn
    BY <1>2, <2>1, <2>4 DEF WorkGoesOn
  <2> QED BY <1>1, <1>2, <2>5, StatusMoves DEF CanMove
<1>3. CASE /\ status[r] = TA
           /\ work' = [work EXCEPT ![w] = [Idle EXCEPT !.pc = "creating", !.req = r, !.how = Fresh]]
           /\ UNCHANGED status
  <2> DEFINE v == [Idle EXCEPT !.pc = "creating", !.req = r, !.how = Fresh]
  <2>1. v \in WorkRows
    BY IdleIsGood, Zenon DEF WorkRows, Pcs, Hows
  <2>2. v.pc = "creating" /\ v.req = r /\ v.ids = {} /\ v.chat = NoChat
    BY DEF Idle
  <2>3. Agreed(r, status')
    BY <1>3 DEF Agreed
  <2>4. GoodWork(v, status', signal', members', via', origin', short')
    <3> HIDE DEF v
    <3> QED BY <2>1, <2>2, <2>3 DEF GoodWork
  <2>5. WorkGoesOn
    BY <1>3, <2>1, <2>4 DEF WorkGoesOn
  <2> QED BY <1>1, <1>3, <2>5, CallGoesOn DEF HandshakeInv, TypeOK
<1>4. CASE status[r] \in {TD, GC} /\ UNCHANGED <<status, work>>
  BY <1>1, <1>4, CallGoesOn DEF WorkGoesOn, HandshakeInv, TypeOK
<1> QED BY <1>2, <1>3, <1>4 DEF TargetAccepts
------------------------------------------------------------------------------
(* The calls that only read.                                                 *)

\* What the aggregate over a signal group returns: its requests that were
\* accepted, and a chat of theirs that exists.
LEMMA AggregateIsGood ==
  ASSUME HandshakeInv, NEW r \in Requests, signal[r] # NoSignal,
         NEW c \in Chats \union {NoChat}, ChatOf(signal[r], c)
  PROVE  /\ AcceptedOf(signal[r]) \subseteq Requests
         /\ \A q \in AcceptedOf(signal[r]) : Agreed(q, status) /\ signal[q] = signal[r]
         /\ c # NoChat => origin[c] # {}
         /\ c # NoChat /\ r \in signal[r] => Hosted(r, c, members, short)
         /\ c = NoChat => \A q \in Requests : signal[q] = signal[r] => guid[q] = NoChat /\ q \in signal[q]
<1>1. /\ AcceptedOf(signal[r]) \subseteq Requests
      /\ \A q \in AcceptedOf(signal[r]) : Agreed(q, status) /\ signal[q] = signal[r]
  BY DEF AcceptedOf, Agreed
<1> DEFINE C == {mguid[q] : q \in {q \in Requests : signal[q] = signal[r]}} \ {NoChat}
<1>2. IF C = {} THEN c = NoChat ELSE c \in C
  BY DEF ChatOf
<1>3. ASSUME c # NoChat
      PROVE  origin[c] # {} /\ (r \in signal[r] => Hosted(r, c, members, short))
  <2>1. PICK q \in Requests : signal[q] = signal[r] /\ mguid[q] = c
    BY <1>2, <1>3
  <2>2. q \in signal[r] /\ signal[r] \in Batches /\ origin[c] # {} /\ Hosted(q, c, members, short)
    BY <1>3, <2>1 DEF HandshakeInv, GuidInv, SignalInv
  <2>3. r \in signal[r] => InitiatorOf[q] = InitiatorOf[r]
    BY <2>2, HandshakeAssumption DEF HandshakeAssumption
  <2> QED BY <2>2, <2>3 DEF Hosted
<1>4. ASSUME c = NoChat, NEW q \in Requests, signal[q] = signal[r]
      PROVE  guid[q] = NoChat /\ q \in signal[q]
  <2>1. C = {}
    BY <1>2, <1>4
  <2>2. \A p \in Requests : signal[p] = signal[r] => mguid[p] = NoChat
    BY <2>1
  <2> QED BY <1>4, <2>2 DEF HandshakeInv, SignalInv
<1> QED BY <1>1, <1>3, <1>4

LEMMA CheckIsKept ==
  ASSUME HandshakeInv, NEW w \in Workers, CheckReady(w)
  PROVE  HandshakeInv'
<1> DEFINE o == work[w]
           s == signal[o.req]
<1>1. /\ o \in WorkRows /\ o.req \in Requests /\ s # NoSignal /\ Agreed(o.req, status)
      /\ o.how \in Hows
  BY DEF HandshakeInv, WorkInv, GoodWork, WorkRows, CheckReady
<1>2. /\ UNCHANGED <<status, guid, mguid, signal, members, rows, via, origin, short, invited>>
      /\ failed' = failed \/ failed' = failed \union {o.req}
  BY DEF CheckReady, db, photon, target
<1>3. invited' \subseteq Requests /\ failed' \subseteq Requests
  BY <1>1, <1>2 DEF HandshakeInv, TypeOK
<1>4. CASE work' = [work EXCEPT ![w] = Idle]
  <2>1. WorkGoesOn
    BY <1>4, IdleIsGood DEF WorkGoesOn
  <2> QED BY <1>2, <1>3, <2>1, CallGoesOn
<1>5. ASSUME NEW c \in Chats \union {NoChat}, ChatOf(s, c),
             work' = [work EXCEPT ![w] = [o EXCEPT !.pc = "creating", !.ids = AcceptedOf(s), !.chat = c]]
      PROVE  HandshakeInv'
  <2> DEFINE n == [o EXCEPT !.pc = "creating", !.ids = AcceptedOf(s), !.chat = c]
  <2>1. /\ AcceptedOf(s) \subseteq Requests
        /\ \A q \in AcceptedOf(s) : Agreed(q, status) /\ signal[q] = s
        /\ c # NoChat => origin[c] # {}
        /\ c # NoChat /\ o.req \in s => Hosted(o.req, c, members, short)
        /\ c = NoChat => \A q \in Requests : signal[q] = s => guid[q] = NoChat /\ q \in signal[q]
    BY <1>1, <1>5, AggregateIsGood
  <2>2. /\ n.pc = "creating" /\ n.req = o.req /\ n.ids = AcceptedOf(s) /\ n.chat = c /\ n.how = o.how
        /\ n \in WorkRows
    BY <1>1, <2>1 DEF WorkRows, Pcs
  <2>3. work' = [work EXCEPT ![w] = n]
    BY <1>5
  <2>4. GoodWork(n, status, signal, members, via, origin, short)
    <3> HIDE DEF n
    <3> QED BY <1>1, <2>1, <2>2 DEF GoodWork
  <2>5. WorkGoesOn
    <3> HIDE DEF n
    <3> QED BY <1>2, <2>2, <2>3, <2>4 DEF WorkGoesOn
  <2> QED BY <1>2, <1>3, <2>5, CallGoesOn
<1> QED BY <1>4, <1>5 DEF CheckReady

\* Where a call for a signal group goes on, as a late joiner or with a new chat.
LEMMA RouteIsGood ==
  ASSUME HandshakeInv, NEW v \in WorkRows, NEW ids \in SUBSET Requests,
         NEW c \in Chats \union {NoChat},
         Agreed(v.req, status), v.req \in signal[v.req],
         \A q \in v.ids \union ids : Agreed(q, status),
         c # NoChat => origin[c] # {} /\ Hosted(v.req, c, members, short),
         c = NoChat => \A q \in ids : signal[q] = signal[v.req] /\ q \in signal[q],
         v.chat # NoChat => origin[v.chat] # {}
  PROVE  Route(v, ids, c) \in WorkRows /\ GoodWork(Route(v, ids, c), status, signal, members, via, origin, short)
<1>1. v.req \in Requests /\ v.ids \subseteq Requests /\ v.chat \in Chats \union {NoChat}
  BY DEF WorkRows
<1>2. CASE c # NoChat
  <2> DEFINE n == [v EXCEPT !.pc = "adding", !.how = "late", !.chat = c]
  <2>1. n \in WorkRows
    BY Zenon DEF WorkRows, Pcs, Hows
  <2>2. n.pc = "adding" /\ n.req = v.req /\ n.ids = v.ids /\ n.chat = c /\ n.how = "late"
    BY DEF WorkRows
  <2>3. GoodWork(n, status, signal, members, via, origin, short)
    <3> HIDE DEF n
    <3> QED BY <1>1, <1>2, <2>1, <2>2 DEF GoodWork, GoodHow
  <2>4. Route(v, ids, c) = n
    BY <1>2 DEF Route
  <2> QED BY <2>1, <2>3, <2>4
<1>3. CASE c = NoChat
  <2> DEFINE n == [v EXCEPT !.pc = "gathering", !.how = "multi", !.ids = ids \union {v.req}]
  <2>1. ids \union {v.req} \in SUBSET Requests
    BY <1>1
  <2>2. n \in WorkRows
    BY <2>1, Zenon DEF WorkRows, Pcs, Hows
  <2>3. /\ n.pc = "gathering" /\ n.req = v.req /\ n.ids = ids \union {v.req}
        /\ n.chat = v.chat /\ n.how = "multi"
    BY DEF WorkRows
  <2>4. GoodWork(n, status, signal, members, via, origin, short)
    <3> HIDE DEF n
    <3> QED BY <1>1, <1>3, <2>2, <2>3 DEF GoodWork, GoodHow, GoodIds
  <2>5. Route(v, ids, c) = n
    BY <1>3 DEF Route
  <2> QED BY <2>2, <2>4, <2>5
<1> QED BY <1>2, <1>3

\* What a call holds while it reads, unfolded.
LEMMA ReaderIsGood ==
  ASSUME HandshakeInv, NEW w \in Workers, work[w].pc \in {"creating", "refreshing"}
  PROVE  /\ work[w] \in WorkRows /\ work[w].req \in Requests /\ work[w].ids \in SUBSET Requests
         /\ work[w].chat \in Chats \union {NoChat}
         /\ Agreed(work[w].req, status)
         /\ \A q \in work[w].ids : Agreed(q, status)
         /\ work[w].chat # NoChat => origin[work[w].chat] # {}
         /\ work[w].pc = "refreshing" => work[w].req \in signal[work[w].req]
         /\ work[w].pc = "creating" =>
              LET v == work[w] IN
              /\ v.chat # NoChat /\ v.req \in signal[v.req] => Hosted(v.req, v.chat, members, short)
              /\ v.chat = NoChat => \A r \in v.ids : signal[r] = signal[v.req] /\ r \in signal[r]
BY DEF HandshakeInv, WorkInv, GoodWork, WorkRows

\* A call that joins a chat which exists, where the initiator is.
LEMMA JoiningIsGood ==
  ASSUME NEW v \in WorkRows, NEW how \in {"expand", "existing"}, NEW c \in Chats,
         Agreed(v.req, status), \A q \in v.ids : Agreed(q, status),
         how = "expand" => v.req \notin signal[v.req],
         origin[c] # {}, Hosted(v.req, c, members, short)
  PROVE  LET n == [v EXCEPT !.pc = "adding", !.chat = c, !.how = how]
             m == [v EXCEPT !.pc = "adding", !.how = how, !.chat = c]
         IN  /\ n \in WorkRows /\ GoodWork(n, status, signal, members, via, origin, short)
             /\ m \in WorkRows /\ GoodWork(m, status, signal, members, via, origin, short)
<1> DEFINE n == [v EXCEPT !.pc = "adding", !.chat = c, !.how = how]
           m == [v EXCEPT !.pc = "adding", !.how = how, !.chat = c]
<1>1. "adding" \in Pcs /\ how \in Hows /\ c \in Chats \union {NoChat} /\ c # NoChat
  BY DEF Pcs, Hows, Chats, NoChat
<1>2. n \in WorkRows /\ m \in WorkRows
  BY <1>1, Zenon DEF WorkRows
<1>3. /\ n.pc = "adding" /\ n.req = v.req /\ n.ids = v.ids /\ n.chat = c /\ n.how = how
      /\ m.pc = "adding" /\ m.req = v.req /\ m.ids = v.ids /\ m.chat = c /\ m.how = how
  BY DEF WorkRows
<1>4. GoodWork(n, status, signal, members, via, origin, short) /\ GoodWork(m, status, signal, members, via, origin, short)
  <2> HIDE DEF n, m
  <2> QED BY <1>1, <1>2, <1>3 DEF GoodWork, GoodHow
<1> QED BY <1>2, <1>4

\* A call that is to make a chat for the two of its request.
LEMMA PairIsGood ==
  ASSUME NEW v \in WorkRows, Agreed(v.req, status), signal[v.req] = NoSignal,
         v.chat # NoChat => origin[v.chat] # {}
  PROVE  NewPair(v) \in WorkRows /\ GoodWork(NewPair(v), status, signal, members, via, origin, short)
<1> DEFINE n == [v EXCEPT !.pc = "gathering", !.how = "single", !.ids = {v.req}]
<1>1. {v.req} \in SUBSET Requests /\ "gathering" \in Pcs /\ "single" \in Hows
  BY DEF Pcs, Hows, WorkRows
<1>2. n \in WorkRows
  BY <1>1, Zenon DEF WorkRows
<1>3. /\ n.pc = "gathering" /\ n.req = v.req /\ n.ids = {v.req} /\ n.chat = v.chat /\ n.how = "single"
  BY DEF WorkRows
<1>4. GoodWork(n, status, signal, members, via, origin, short)
  <2> HIDE DEF n
  <2> QED BY <1>1, <1>2, <1>3 DEF GoodWork, GoodHow, GoodIds
<1> QED BY <1>2, <1>4 DEF NewPair

LEMMA StartIsGood ==
  ASSUME HandshakeInv, NEW w \in Workers, NEW tool \in {"dm", "group"}, NEW x,
         work[w].pc = "creating",
         LET v == work[w]  r == v.req IN
         x \in IF guid[r] # NoChat THEN {CarriedChat(v, tool)}
               ELSE IF signal[r] = NoSignal THEN SingleMatch(v)
               ELSE IF v.how = Fresh THEN {[v EXCEPT !.pc = "refreshing"]}
               ELSE {Route(v, v.ids, v.chat)}
  PROVE  x \in WorkRows /\ GoodWork(x, status, signal, members, via, origin, short)
<1> DEFINE v == work[w]
           r == v.req
<1>1. /\ v \in WorkRows /\ r \in Requests /\ v.ids \in SUBSET Requests /\ v.chat \in Chats \union {NoChat}
      /\ Agreed(r, status) /\ \A q \in v.ids : Agreed(q, status)
      /\ v.chat # NoChat => origin[v.chat] # {}
      /\ v.chat # NoChat /\ r \in signal[r] => Hosted(r, v.chat, members, short)
      /\ v.chat = NoChat => \A q \in v.ids : signal[q] = signal[r] /\ q \in signal[q]
  BY ReaderIsGood
<1> HIDE DEF v
<1>2. CASE guid[r] # NoChat
  <2>1. x = CarriedChat(v, tool)
    BY <1>2 DEF v
  <2>2. CASE status[r] = GC
    BY <2>1, <2>2, IdleIsGood DEF CarriedChat
  <2>3. CASE status[r] # GC
    <3> DEFINE how == IF tool = "group" THEN "expand" ELSE "existing"
    <3>1. how \in {"expand", "existing"}
      OBVIOUS
    <3>2. guid[r] \in Chats
      BY <1>1, <1>2 DEF HandshakeInv, TypeOK
    <3>3. origin[guid[r]] # {} /\ Hosted(r, guid[r], members, short)
      BY <1>1, <1>2 DEF HandshakeInv, GuidInv
    <3>4. r \notin signal[r]
      BY <1>1, <1>2, <2>3 DEF HandshakeInv, SignalInv
    <3>5. x = [v EXCEPT !.pc = "adding", !.chat = guid[r], !.how = how]
      BY <2>1, <2>3 DEF CarriedChat
    <3> QED BY <1>1, <3>1, <3>2, <3>3, <3>4, <3>5, JoiningIsGood
  <2> QED BY <2>2, <2>3
<1>3. CASE guid[r] = NoChat /\ signal[r] = NoSignal
  <2>1. x \in SingleMatch(v)
    BY <1>3 DEF v
  <2>2. CASE SharedChats(r) = {}
    <3>1. x = NewPair(v)
      BY <2>1, <2>2 DEF SingleMatch
    <3> QED BY <1>1, <1>3, <3>1, PairIsGood
  <2>3. CASE SharedChats(r) # {}
    <3>1. PICK c \in SharedChats(r) : x = [v EXCEPT !.pc = "adding", !.how = "existing", !.chat = c]
      BY <2>1, <2>3 DEF SingleMatch
    <3>2. c \in Chats /\ PersonsOf(r) \subseteq rows[c] /\ rows[c] \subseteq members[c] /\ origin[c] # {}
      BY <3>1 DEF SharedChats, HandshakeInv, ChatInv, PersonsOf
    <3>3. Hosted(r, c, members, short)
      BY <3>2 DEF PersonsOf, Hosted
    <3> QED BY <1>1, <3>1, <3>2, <3>3, JoiningIsGood
  <2> QED BY <2>2, <2>3
<1>4. CASE guid[r] = NoChat /\ signal[r] # NoSignal
  <2>1. r \in signal[r]
    BY <1>1, <1>4 DEF HandshakeInv, SignalInv
  <2>2. CASE v.how = Fresh
    <3> DEFINE n == [v EXCEPT !.pc = "refreshing"]
    <3>1. x = n
      BY <1>4, <2>2 DEF v
    <3>2. /\ n \in WorkRows
          /\ n.pc = "refreshing" /\ n.req = r /\ n.ids = v.ids /\ n.chat = v.chat
      BY <1>1 DEF WorkRows, Pcs
    <3>3. GoodWork(n, status, signal, members, via, origin, short)
      <4> HIDE DEF n, r
      <4> QED BY <1>1, <2>1, <3>2 DEF GoodWork
    <3> QED BY <3>1, <3>2, <3>3
  <2>3. CASE v.how # Fresh
    <3>1. x = Route(v, v.ids, v.chat)
      BY <1>4, <2>3 DEF v
    <3>2. v.chat # NoChat => origin[v.chat] # {} /\ Hosted(v.req, v.chat, members, short)
      BY <1>1, <2>1
    <3> QED BY <1>1, <2>1, <3>1, <3>2, RouteIsGood
  <2> QED BY <2>2, <2>3
<1> QED BY <1>2, <1>3, <1>4

LEMMA StartIsKept ==
  ASSUME HandshakeInv, NEW w \in Workers, NEW tool \in {"dm", "group"}, StartCreate(w, tool)
  PROVE  HandshakeInv'
<1>1. /\ work[w].pc = "creating"
      /\ UNCHANGED <<status, guid, mguid, signal, members, rows, via, origin, short, invited, failed>>
  BY DEF StartCreate, db, photon, target
<1>2. PICK x :
        /\ work' = [work EXCEPT ![w] = x]
        /\ \/ LET v == work[w]  r == v.req IN
              x \in IF guid[r] # NoChat THEN {CarriedChat(v, tool)}
                    ELSE IF signal[r] = NoSignal THEN SingleMatch(v)
                    ELSE IF v.how = Fresh THEN {[v EXCEPT !.pc = "refreshing"]}
                    ELSE {Route(v, v.ids, v.chat)}
           \/ PairMissed(work[w]) /\ x = NewPair(work[w])
  BY DEF StartCreate
<1>3. ASSUME PairMissed(work[w]), x = NewPair(work[w])
      PROVE  x \in WorkRows /\ GoodWork(x, status, signal, members, via, origin, short)
  BY <1>1, <1>3, ReaderIsGood, PairIsGood DEF PairMissed
<1>4. x \in WorkRows /\ GoodWork(x, status, signal, members, via, origin, short)
  BY <1>1, <1>2, <1>3, StartIsGood
<1>5. WorkGoesOn
  BY <1>1, <1>2, <1>4 DEF WorkGoesOn
<1> QED BY <1>1, <1>5, CallGoesOn DEF HandshakeInv, TypeOK

LEMMA RefreshIsKept ==
  ASSUME HandshakeInv, NEW w \in Workers, Refresh(w)
  PROVE  HandshakeInv'
<1> DEFINE v == work[w]
           s == signal[v.req]
<1>1. /\ v.pc = "refreshing"
      /\ UNCHANGED <<status, guid, mguid, signal, members, rows, via, origin, short, invited, failed>>
  BY DEF Refresh, db, photon, target
<1>2. /\ v \in WorkRows /\ v.req \in Requests /\ v.req \in s /\ s # NoSignal /\ Agreed(v.req, status)
      /\ \A q \in v.ids : Agreed(q, status)
      /\ v.chat # NoChat => origin[v.chat] # {}
  BY <1>1, ReaderIsGood DEF NoSignal
<1>3. PICK n :
        /\ work' = [work EXCEPT ![w] = n]
        /\ \/ \E c \in Chats \union {NoChat} : ChatOf(s, c) /\ n = Route(v, AcceptedOf(s), c)
           \/ n = Route(v, {}, NoChat)
  BY DEF Refresh
<1>4. ASSUME NEW c \in Chats \union {NoChat}, ChatOf(s, c)
      PROVE  /\ Route(v, AcceptedOf(s), c) \in WorkRows
             /\ GoodWork(Route(v, AcceptedOf(s), c), status, signal, members, via, origin, short)
  <2>1. /\ AcceptedOf(s) \in SUBSET Requests
        /\ \A q \in AcceptedOf(s) : Agreed(q, status) /\ signal[q] = s
        /\ c # NoChat => origin[c] # {}
        /\ c # NoChat /\ v.req \in s => Hosted(v.req, c, members, short)
        /\ c = NoChat => \A q \in Requests : signal[q] = s => guid[q] = NoChat /\ q \in signal[q]
    BY <1>2, <1>4, AggregateIsGood
  <2> HIDE DEF v
  <2>2. \A q \in v.ids \union AcceptedOf(s) : Agreed(q, status)
    BY <1>2, <2>1
  <2>3. /\ c # NoChat => origin[c] # {} /\ Hosted(v.req, c, members, short)
        /\ c = NoChat => \A q \in AcceptedOf(s) : signal[q] = signal[v.req] /\ q \in signal[q]
    BY <1>2, <2>1
  <2> QED BY <1>2, <2>1, <2>2, <2>3, RouteIsGood
<1>5. /\ Route(v, {}, NoChat) \in WorkRows
      /\ GoodWork(Route(v, {}, NoChat), status, signal, members, via, origin, short)
  <2> HIDE DEF v
  <2> QED BY <1>2, RouteIsGood
<1>6. n \in WorkRows /\ GoodWork(n, status, signal, members, via, origin, short)
  <2> HIDE DEF v, s
  <2> QED BY <1>3, <1>4, <1>5
<1>7. WorkGoesOn
  BY <1>1, <1>3, <1>6 DEF WorkGoesOn
<1> QED BY <1>1, <1>7, CallGoesOn DEF HandshakeInv, TypeOK
------------------------------------------------------------------------------
(* The calls of Photon, and the participant rows.                            *)

\* The people who are gathered for requests of one initiator.
LEMMA GatheredIsGood ==
  ASSUME HandshakeInv, NEW w \in Workers, work[w].pc \in {"gathering", "opening"}
  PROVE  LET v == work[w] IN
         /\ v.req \in v.ids /\ v.ids \subseteq Requests
         /\ Gathered(v.ids) \subseteq Users
         /\ \A q \in v.ids : PersonsOf(q) \subseteq Gathered(v.ids)
<1> DEFINE v == work[w]
           p == CHOOSE r \in v.ids : TRUE
<1>1. /\ v.req \in Requests /\ v.ids \subseteq Requests /\ v.req \in v.ids
      /\ v.how \in {"single", "multi"} /\ GoodIds(v, signal)
  BY DEF HandshakeInv, WorkInv, GoodWork, WorkRows
<1>2. p \in v.ids /\ p \in Requests
  BY <1>1
<1>3. ASSUME NEW q \in v.ids
      PROVE  InitiatorOf[q] = InitiatorOf[p]
  <2>1. CASE v.how = "multi"
    <3>1. /\ signal[q] = signal[p] /\ q \in signal[p] /\ p \in signal[p] /\ q \in Requests
          /\ signal[p] # NoSignal
      BY <1>1, <1>2, <2>1 DEF GoodIds, NoSignal
    <3>2. signal[p] \in Batches
      BY <1>2, <3>1 DEF HandshakeInv, SignalInv
    <3> HIDE DEF p
    <3> QED BY <1>2, <3>1, <3>2, HandshakeAssumption DEF HandshakeAssumption
  <2>2. CASE v.how # "multi"
    BY <1>1, <1>2, <2>2 DEF GoodIds
  <2> QED BY <2>1, <2>2
<1>4. Gathered(v.ids) = {InitiatorOf[p]} \union {TargetOf[q] : q \in v.ids}
  BY DEF Gathered
<1>5. Gathered(v.ids) \subseteq Users
  <2> HIDE DEF p, v
  <2> QED BY <1>1, <1>2, <1>4, HandshakeAssumption DEF HandshakeAssumption
<1>6. \A q \in v.ids : PersonsOf(q) \subseteq Gathered(v.ids)
  <2> HIDE DEF p, v
  <2> QED BY <1>3, <1>4 DEF PersonsOf
<1> QED BY <1>1, <1>5, <1>6

\* Whom the call can read goes on to the making of the chat.
LEMMA GatheringIsKept ==
  ASSUME HandshakeInv, NEW w \in Workers, Gather(w)
  PROVE  HandshakeInv'
<1> DEFINE v == work[w]
<1>1. /\ v.pc = "gathering"
      /\ UNCHANGED <<status, guid, mguid, signal, members, rows, via, origin, short, invited, failed>>
  BY DEF Gather, db, photon, target
<1>2. PICK who \in SUBSET Gathered(v.ids) :
        work' = [work EXCEPT ![w] = [v EXCEPT !.pc = "opening", !.who = who]]
  BY DEF Gather
<1>3. /\ v \in WorkRows /\ GoodWork(v, status, signal, members, via, origin, short)
      /\ Gathered(v.ids) \subseteq Users
  BY <1>1, GatheredIsGood DEF HandshakeInv, WorkInv
<1> HIDE DEF v
<1> DEFINE n == [v EXCEPT !.pc = "opening", !.who = who]
<1>4. who \in SUBSET Users /\ "opening" \in Pcs
  BY <1>3 DEF Pcs
<1>5. n \in WorkRows
  BY <1>3, <1>4, Zenon DEF WorkRows
<1>6. n.pc = "opening" /\ n.req = v.req /\ n.ids = v.ids /\ n.chat = v.chat /\ n.how = v.how
  BY <1>3 DEF WorkRows
<1>7. GoodWork(n, status, signal, members, via, origin, short)
  <2> HIDE DEF n
  <2> QED BY <1>1, <1>3, <1>5, <1>6 DEF GoodWork, GoodHow, GoodIds
<1>8. WorkGoesOn
  BY <1>1, <1>2, <1>5, <1>7 DEF WorkGoesOn
<1> QED BY <1>1, <1>8, CallGoesOn DEF HandshakeInv, TypeOK

LEMMA CreatingIsKept ==
  ASSUME HandshakeInv, NEW w \in Workers, NEW lost \in BOOLEAN, PhotonCreates(w, lost)
  PROVE  HandshakeInv'
<1> DEFINE v == work[w]
           c == CHOOSE c \in Chats : origin[c] = {}
           n == [v EXCEPT !.pc = "recording", !.chat = c]
<1>1. /\ v.pc = "opening" /\ c \in Chats /\ origin[c] = {}
      /\ members' = [members EXCEPT ![c] = v.who]
      /\ via' = [via EXCEPT ![c] = v.ids]
      /\ origin' = [origin EXCEPT ![c] = KeyOf(v.req)]
      /\ short' = IF v.who = Gathered(v.ids) THEN short ELSE short \union {c}
      /\ work' = work \/ work' = [work EXCEPT ![w] = n]
      /\ UNCHANGED <<status, guid, mguid, signal, rows, invited, failed>>
  BY DEF PhotonCreates, db, target
<1>2. /\ v \in WorkRows /\ v.req \in Requests /\ v.ids \in SUBSET Requests /\ v.who \in SUBSET Users
      /\ Agreed(v.req, status) /\ \A q \in v.ids : Agreed(q, status)
      /\ GoodHow(v, signal) /\ GoodIds(v, signal)
  BY <1>1 DEF HandshakeInv, WorkInv, GoodWork, WorkRows
<1>3. /\ v.req \in v.ids
      /\ \A q \in v.ids : PersonsOf(q) \subseteq Gathered(v.ids)
  BY <1>1, GatheredIsGood
<1> HIDE DEF v, c
<1>4. KeyOf(v.req) \in SUBSET Requests /\ KeyOf(v.req) # {}
  <2>1. signal[v.req] \in Batches \union {NoSignal}
    BY <1>2 DEF HandshakeInv, TypeOK
  <2> QED BY <1>2, <2>1, HandshakeAssumption DEF KeyOf, NoSignal, HandshakeAssumption
<1>5. /\ members' \in [Chats -> SUBSET Users] /\ via' \in [Chats -> SUBSET Requests]
      /\ origin' \in [Chats -> SUBSET Requests] /\ short' \subseteq Chats /\ short \subseteq short'
      /\ \A d \in Chats : d # c => members'[d] = members[d] /\ via'[d] = via[d] /\ origin'[d] = origin[d]
      /\ members'[c] = v.who /\ via'[c] = v.ids /\ origin'[c] # {}
  BY <1>1, <1>2, <1>4 DEF HandshakeInv, TypeOK, ChatInv
<1>6. StateGrows
  BY <1>1, <1>5 DEF StateGrows, Grows
<1>7. n \in WorkRows
  BY <1>1, <1>2, Zenon DEF WorkRows, Pcs
<1>8. /\ n.pc = "recording" /\ n.req = v.req /\ n.ids = v.ids /\ n.chat = c /\ n.how = v.how
      /\ n.who = v.who
  BY <1>2 DEF WorkRows
\* The chat has everybody, or is known to be short of somebody.
<1>9. \A q \in v.ids : Together(q, c, members', short')
  BY <1>1, <1>3, <1>5 DEF Together
<1>10. GoodWork(n, status', signal', members', via', origin', short')
  <2>1. c # NoChat
    BY <1>1 DEF Chats, NoChat
  <2> HIDE DEF n
  <2>2. /\ Agreed(n.req, status') /\ \A q \in n.ids : Agreed(q, status') /\ q \in via'[c]
        /\ GoodHow(n, signal') /\ GoodIds(n, signal')
    BY <1>1, <1>2, <1>5, <1>8 DEF GoodHow, GoodIds
  <2> QED BY <1>5, <1>7, <1>8, <1>9, <2>1, <2>2 DEF GoodWork
<1>11. WorkInv'
  <2> HIDE DEF n
  <2> QED BY <1>1, <1>6, <1>7, <1>10, WorkersAreKept DEF HandshakeInv
<1>12. \A u \in Workers : work'[u].req \in Requests /\ work'[u].ids \subseteq Requests /\ work'[u].who \subseteq Users
  BY <1>11 DEF WorkInv, WorkRows
<1>13. TypeOK'
  BY <1>1, <1>5, <1>12 DEF HandshakeInv, TypeOK
<1>14. rows[c] = {}
  BY <1>1 DEF HandshakeInv, ChatInv
<1>15. ChatInv'
  BY <1>1, <1>2, <1>5, <1>14 DEF HandshakeInv, ChatInv, Agreed
<1>16. \A q \in Requests : guid[q] # c /\ mguid[q] # c
  <2>1. c # NoChat
    BY <1>1 DEF Chats, NoChat
  <2> QED BY <1>1, <2>1 DEF HandshakeInv, GuidInv
<1>17. \A q \in Requests : guid[q] \in Chats \union {NoChat} /\ mguid[q] \in Chats \union {NoChat}
  BY DEF HandshakeInv, TypeOK
<1>18. \A q \in Requests, d \in Chats \ {c} :
         /\ Hosted(q, d, members, short) => Hosted(q, d, members', short')
         /\ Together(q, d, members, short) => Together(q, d, members', short')
  BY <1>5 DEF Hosted, Together
<1>19. GuidInv'
  BY <1>1, <1>5, <1>16, <1>17, <1>18 DEF HandshakeInv, GuidInv
<1>20. SignalInv'
  BY <1>1 DEF HandshakeInv, SignalInv
<1> QED BY <1>11, <1>13, <1>15, <1>19, <1>20 DEF HandshakeInv

\* Participant rows are written for people who are in the chat.
LEMMA RowsGrow ==
  ASSUME HandshakeInv, WorkGoesOn, NEW c \in Chats, NEW S \in SUBSET members[c],
         origin[c] # {}, rows' = [rows EXCEPT ![c] = S],
         UNCHANGED <<status, guid, mguid, signal, members, via, origin, short, invited, failed>>
  PROVE  HandshakeInv'
<1>1. StateGrows
  BY DEF StateGrows, Grows
<1>2. WorkInv'
  BY <1>1, WorkersAreKept DEF HandshakeInv, WorkGoesOn
<1>3. \A w \in Workers : work'[w].req \in Requests /\ work'[w].ids \subseteq Requests /\ work'[w].who \subseteq Users
  BY <1>2 DEF WorkInv, WorkRows
<1>4. members[c] \subseteq Users
  BY DEF HandshakeInv, TypeOK
<1>5. rows' \in [Chats -> SUBSET Users] /\ \A d \in Chats : rows'[d] = IF d = c THEN S ELSE rows[d]
  BY <1>4 DEF HandshakeInv, TypeOK
<1>6. TypeOK'
  BY <1>3, <1>5 DEF HandshakeInv, TypeOK
<1>7. ChatInv'
  BY <1>5 DEF HandshakeInv, ChatInv, Agreed
<1>8. GuidInv' /\ SignalInv'
  BY DEF HandshakeInv, GuidInv, SignalInv
<1> QED BY <1>2, <1>6, <1>7, <1>8 DEF HandshakeInv

\* A call that has one row less to write.
LEMMA RecordedIsGood ==
  ASSUME NEW v \in WorkRows, v.pc = "recording", NEW rest \in SUBSET v.who
  PROVE  LET n == Recorded(v, rest) IN
         /\ n \in WorkRows
         /\ n.pc \in {"recording", "marking"} /\ n.req = v.req /\ n.ids = v.ids /\ n.chat = v.chat
         /\ n.how = v.how /\ n.who \subseteq v.who
<1>1. PICK n : n = Recorded(v, rest)
  OBVIOUS
<1>2. CASE rest = {}
  <2> DEFINE m == [v EXCEPT !.pc = "marking", !.who = {}]
  <2>1. n = m
    BY <1>1, <1>2 DEF Recorded
  <2>2. {} \in SUBSET Users /\ "marking" \in Pcs
    BY DEF Pcs
  <2>3. m \in WorkRows
    BY <2>2, Zenon DEF WorkRows
  <2>4. m.pc = "marking" /\ m.req = v.req /\ m.ids = v.ids /\ m.chat = v.chat /\ m.how = v.how /\ m.who = {}
    BY DEF WorkRows
  <2> QED BY <1>1, <2>1, <2>3, <2>4
<1>3. CASE rest # {}
  <2> DEFINE m == [v EXCEPT !.who = rest]
  <2>1. n = m
    BY <1>1, <1>3 DEF Recorded
  <2>2. rest \in SUBSET Users
    BY DEF WorkRows
  <2>3. m \in WorkRows
    BY <2>2, Zenon DEF WorkRows
  <2>4. m.pc = v.pc /\ m.req = v.req /\ m.ids = v.ids /\ m.chat = v.chat /\ m.how = v.how /\ m.who = rest
    BY DEF WorkRows
  <2> QED BY <1>1, <2>1, <2>3, <2>4
<1> QED BY <1>2, <1>3

LEMMA RecordingIsKept ==
  ASSUME HandshakeInv, NEW w \in Workers, RecordChat(w)
  PROVE  HandshakeInv'
<1> DEFINE v == work[w]
<1>1. /\ v.pc = "recording"
      /\ UNCHANGED <<status, guid, mguid, signal, members, via, origin, short, invited, failed>>
  BY DEF RecordChat, db, photon, target
<1>2. PICK rest \in SUBSET v.who :
        /\ work' = [work EXCEPT ![w] = Recorded(v, rest)]
        /\ rows' = rows \/ \E u \in v.who : rows' = [rows EXCEPT ![v.chat] = @ \union {u}]
  <2>1. ASSUME NEW u \in v.who, work' = [work EXCEPT ![w] = Recorded(v, v.who \ {u})],
               rows' = rows \/ rows' = [rows EXCEPT ![v.chat] = @ \union {u}]
        PROVE  \E rest \in SUBSET v.who :
                 /\ work' = [work EXCEPT ![w] = Recorded(v, rest)]
                 /\ rows' = rows \/ \E x \in v.who : rows' = [rows EXCEPT ![v.chat] = @ \union {x}]
    <3>1. v.who \ {u} \in SUBSET v.who
      OBVIOUS
    <3> QED BY <2>1, <3>1, Zenon
  <2>2. CASE work' = [work EXCEPT ![w] = Recorded(v, {})] /\ rows' = rows
    <3>1. {} \in SUBSET v.who
      OBVIOUS
    <3> QED BY <2>2, <3>1, Zenon
  <2> QED BY <2>1, <2>2 DEF RecordChat
<1>3. /\ v \in WorkRows /\ v.req \in Requests /\ v.ids \in SUBSET Requests /\ v.chat \in Chats
      /\ Agreed(v.req, status) /\ \A q \in v.ids : Agreed(q, status)
      /\ GoodHow(v, signal) /\ GoodIds(v, signal) /\ v.chat # NoChat /\ origin[v.chat] # {}
      /\ v.who \in SUBSET Users /\ v.who \subseteq members[v.chat]
      /\ \A r \in v.ids : Together(r, v.chat, members, short) /\ r \in via[v.chat]
  BY <1>1 DEF HandshakeInv, WorkInv, GoodWork, WorkRows
<1> HIDE DEF v
<1>4. PICK n : n = Recorded(v, rest)
  OBVIOUS
<1>5. /\ n \in WorkRows
      /\ n.pc \in {"recording", "marking"} /\ n.req = v.req /\ n.ids = v.ids /\ n.chat = v.chat
      /\ n.how = v.how /\ n.who \subseteq v.who
  BY <1>1, <1>2, <1>3, <1>4, RecordedIsGood DEF v
<1>6. GoodWork(n, status', signal', members', via', origin', short')
  BY <1>1, <1>3, <1>5 DEF GoodWork, GoodHow, GoodIds
<1>7. WorkGoesOn
  BY <1>2, <1>4, <1>5, <1>6 DEF WorkGoesOn
<1>8. CASE rows' = rows
  BY <1>1, <1>7, <1>8, CallGoesOn DEF HandshakeInv, TypeOK
<1>9. ASSUME NEW u \in v.who, rows' = [rows EXCEPT ![v.chat] = @ \union {u}]
      PROVE  HandshakeInv'
  <2>1. rows[v.chat] \union {u} \in SUBSET members[v.chat]
    BY <1>3 DEF HandshakeInv, ChatInv
  <2> QED BY <1>1, <1>3, <1>7, <1>9, <2>1, RowsGrow
<1> QED BY <1>2, <1>8, <1>9

LEMMA AddingIsKept ==
  ASSUME HandshakeInv, NEW w \in Workers, PhotonAdds(w)
  PROVE  HandshakeInv'
<1> DEFINE v == work[w]
           c == v.chat
           n == [v EXCEPT !.pc = "announcing"]
<1>1. /\ v.pc = "adding" /\ work' = [work EXCEPT ![w] = n]
      /\ members' = [members EXCEPT ![c] = @ \union {TargetOf[v.req]}]
      /\ via' = [via EXCEPT ![c] = @ \union {v.req}]
      /\ UNCHANGED <<status, guid, mguid, signal, rows, origin, short, invited, failed>>
  BY DEF PhotonAdds, db, target, mishaps
<1>2. /\ v \in WorkRows /\ v.req \in Requests /\ v.ids \in SUBSET Requests /\ c \in Chats
      /\ Agreed(v.req, status) /\ \A q \in v.ids : Agreed(q, status)
      /\ GoodHow(v, signal) /\ c # NoChat /\ origin[c] # {} /\ Hosted(v.req, c, members, short)
      /\ v.how \in {"late", "expand", "existing"}
  BY <1>1 DEF HandshakeInv, WorkInv, GoodWork, WorkRows
<1>3. TargetOf[v.req] \in Users
  BY <1>2, HandshakeAssumption DEF HandshakeAssumption
<1> HIDE DEF v
<1>4. /\ members' \in [Chats -> SUBSET Users] /\ via' \in [Chats -> SUBSET Requests]
      /\ \A d \in Chats : members[d] \subseteq members'[d] /\ via[d] \subseteq via'[d]
      /\ \A d \in Chats : d # c => via'[d] = via[d]
      /\ TargetOf[v.req] \in members'[c] /\ via'[c] = via[c] \union {v.req}
  BY <1>1, <1>2, <1>3 DEF HandshakeInv, TypeOK
<1>5. Together(v.req, c, members', short')
  BY <1>1, <1>2, <1>4 DEF Together, Hosted, PersonsOf
<1>6. StateGrows
  BY <1>1, <1>4 DEF StateGrows, Grows
<1>7. /\ n \in WorkRows
      /\ n.pc = "announcing" /\ n.req = v.req /\ n.ids = v.ids /\ n.chat = c /\ n.how = v.how
  BY <1>2 DEF WorkRows, Pcs
<1>8. GoodWork(n, status', signal', members', via', origin', short')
  <2> HIDE DEF n
  <2> QED BY <1>1, <1>2, <1>4, <1>5, <1>7 DEF GoodWork, GoodHow
<1>9. WorkInv'
  BY <1>1, <1>6, <1>7, <1>8, WorkersAreKept DEF HandshakeInv
<1>10. \A u \in Workers : work'[u].req \in Requests /\ work'[u].ids \subseteq Requests /\ work'[u].who \subseteq Users
  BY <1>9 DEF WorkInv, WorkRows
<1>11. TypeOK'
  BY <1>1, <1>4, <1>10 DEF HandshakeInv, TypeOK
<1>12. ChatInv'
  BY <1>1, <1>2, <1>4 DEF HandshakeInv, ChatInv, Agreed
<1>13. \A q \in Requests : guid[q] \in Chats \union {NoChat} /\ mguid[q] \in Chats \union {NoChat}
  BY DEF HandshakeInv, TypeOK
<1>14. \A q \in Requests, d \in Chats :
         /\ Hosted(q, d, members, short) => Hosted(q, d, members', short')
         /\ Together(q, d, members, short) => Together(q, d, members', short')
  BY <1>1, <1>4 DEF Hosted, Together
<1>15. GuidInv'
  BY <1>1, <1>13, <1>14 DEF HandshakeInv, GuidInv
<1>16. SignalInv'
  BY <1>1 DEF HandshakeInv, SignalInv
<1> QED BY <1>9, <1>11, <1>12, <1>15, <1>16 DEF HandshakeInv

LEMMA AnnouncingIsKept ==
  ASSUME HandshakeInv, NEW w \in Workers, Announce(w)
  PROVE  HandshakeInv'
<1> DEFINE v == work[w]
           S == rows[v.chat] \union {TargetOf[v.req]}
           n == [v EXCEPT !.pc = "marking", !.ids = {v.req}]
<1>1. /\ v.pc = "announcing" /\ work' = [work EXCEPT ![w] = n]
      /\ rows' = rows \/ rows' = [rows EXCEPT ![v.chat] = @ \union {TargetOf[v.req]}]
      /\ UNCHANGED <<status, guid, mguid, signal, members, via, origin, short, invited, failed>>
  BY DEF Announce, db, photon, target
<1>2. /\ v \in WorkRows /\ v.req \in Requests /\ v.chat \in Chats
      /\ Agreed(v.req, status)
      /\ GoodHow(v, signal) /\ v.chat # NoChat /\ origin[v.chat] # {}
      /\ v.how \in {"late", "expand", "existing"} /\ TargetOf[v.req] \in members[v.chat]
      /\ Together(v.req, v.chat, members, short) /\ v.req \in via[v.chat]
  BY <1>1 DEF HandshakeInv, WorkInv, GoodWork, WorkRows
<1> HIDE DEF v
<1>3. {v.req} \in SUBSET Requests /\ "marking" \in Pcs
  BY <1>2 DEF Pcs
<1>4. n \in WorkRows
  BY <1>2, <1>3, Zenon DEF WorkRows
<1>5. n.pc = "marking" /\ n.req = v.req /\ n.ids = {v.req} /\ n.chat = v.chat /\ n.how = v.how
  BY <1>2 DEF WorkRows
<1>6. GoodWork(n, status', signal', members', via', origin', short')
  <2> HIDE DEF n
  <2> QED BY <1>1, <1>2, <1>4, <1>5 DEF GoodWork, GoodHow, GoodIds
<1>7. WorkGoesOn
  BY <1>1, <1>4, <1>6 DEF WorkGoesOn
<1>8. CASE rows' = rows
  BY <1>1, <1>7, <1>8, CallGoesOn DEF HandshakeInv, TypeOK
<1>9. CASE rows' = [rows EXCEPT ![v.chat] = @ \union {TargetOf[v.req]}]
  <2>1. S \in SUBSET members[v.chat] /\ rows' = [rows EXCEPT ![v.chat] = S]
    BY <1>2, <1>9 DEF HandshakeInv, ChatInv
  <2> QED BY <1>1, <1>2, <1>7, <2>1, RowsGrow
<1> QED BY <1>1, <1>8, <1>9
------------------------------------------------------------------------------
(* The requests are recorded as introduced, and the faults.                  *)

LEMMA MarkIsKept ==
  ASSUME HandshakeInv, NEW w \in Workers, Mark(w)
  PROVE  HandshakeInv'
<1> DEFINE v == work[w]
<1>1. /\ v.pc = "marking"
      /\ UNCHANGED <<signal, members, rows, via, origin, short, invited, failed>>
  BY DEF Mark, photon, target, mishaps
<1>2. PICK r \in v.ids :
        \/ /\ v.how # "existing" /\ status[r] = TA
           /\ SetStatus(r, GC)
           /\ guid' = [guid EXCEPT ![r] = v.chat]
           /\ mguid' = IF v.how \in {"multi", "late"} THEN [mguid EXCEPT ![r] = v.chat] ELSE mguid
           /\ work' = [work EXCEPT ![w] = IF v.ids = {r} THEN Idle ELSE [v EXCEPT !.ids = @ \ {r}]]
        \/ /\ work' = [work EXCEPT ![w] = Idle]
           /\ UNCHANGED <<status, guid, mguid>>
  BY DEF Mark, CanMove
<1>3. /\ v \in WorkRows /\ v.req \in Requests /\ v.ids \in SUBSET Requests /\ v.chat \in Chats
      /\ Agreed(v.req, status) /\ \A q \in v.ids : Agreed(q, status)
      /\ GoodHow(v, signal) /\ GoodIds(v, signal) /\ v.chat # NoChat /\ origin[v.chat] # {}
      /\ \A q \in v.ids : Together(q, v.chat, members, short) /\ q \in via[v.chat]
  BY <1>1 DEF HandshakeInv, WorkInv, GoodWork, WorkRows
<1> HIDE DEF v
<1>4. CASE work' = [work EXCEPT ![w] = Idle] /\ UNCHANGED <<status, guid, mguid>>
  BY <1>1, <1>4, IdleIsGood, CallGoesOn DEF WorkGoesOn, HandshakeInv, TypeOK
<1>5. ASSUME v.how # "existing", status[r] = TA, SetStatus(r, GC),
             guid' = [guid EXCEPT ![r] = v.chat],
             mguid' = IF v.how \in {"multi", "late"} THEN [mguid EXCEPT ![r] = v.chat] ELSE mguid,
             work' = [work EXCEPT ![w] = IF v.ids = {r} THEN Idle ELSE [v EXCEPT !.ids = @ \ {r}]]
      PROVE  HandshakeInv'
  <2>1. /\ r \in Requests
        /\ status' \in [Requests -> Statuses] /\ guid' \in [Requests -> Chats \union {NoChat}]
        /\ mguid' \in [Requests -> Chats \union {NoChat}]
        /\ \A q \in Requests : status'[q] = IF q = r THEN GC ELSE status[q]
        /\ \A q \in Requests : guid'[q] = IF q = r THEN v.chat ELSE guid[q]
        /\ \A q \in Requests : q # r \/ v.how \notin {"multi", "late"} => mguid'[q] = mguid[q]
        /\ v.how \in {"multi", "late"} => mguid'[r] = v.chat
    BY <1>3, <1>5 DEF SetStatus, HandshakeInv, TypeOK, Statuses
  <2>2. \A q \in Requests : /\ Agreed(q, status) => Agreed(q, status')
                            /\ status[q] # "none" => status'[q] # "none"
    BY <2>1 DEF Agreed, GC
  <2>3. StateGrows
    BY <1>1, <2>2 DEF StateGrows, Grows
  <2>4. WorkGoesOn
    <3>1. CASE v.ids = {r}
      BY <1>5, <3>1, IdleIsGood DEF WorkGoesOn
    <3>2. CASE v.ids # {r}
      <4> DEFINE n == [v EXCEPT !.ids = @ \ {r}]
      <4>1. /\ n \in WorkRows
            /\ n.pc = v.pc /\ n.req = v.req /\ n.ids = v.ids \ {r} /\ n.chat = v.chat /\ n.how = v.how
        BY <1>3 DEF WorkRows
      <4>2. GoodWork(n, status', signal', members', via', origin', short')
        <5> HIDE DEF n
        <5> QED BY <1>1, <1>3, <2>2, <4>1 DEF GoodWork, GoodHow, GoodIds, v
      <4> QED BY <1>5, <3>2, <4>1, <4>2 DEF WorkGoesOn
    <3> QED BY <3>1, <3>2
  <2>5. WorkInv'
    BY <2>3, <2>4, WorkersAreKept DEF HandshakeInv, WorkGoesOn
  <2>6. \A u \in Workers : work'[u].req \in Requests /\ work'[u].ids \subseteq Requests /\ work'[u].who \subseteq Users
    BY <2>5 DEF WorkInv, WorkRows
  <2>7. TypeOK'
    BY <1>1, <2>1, <2>6 DEF HandshakeInv, TypeOK
  <2>8. ChatInv'
    BY <1>1, <2>2 DEF HandshakeInv, ChatInv, TypeOK
  <2>9. Hosted(r, v.chat, members, short) /\ Together(r, v.chat, members, short)
    BY <1>3 DEF PersonsOf, Hosted, Together
  \* Only a request of a search gets the chat of a multi-match.
  <2>10. v.how \in {"multi", "late"} => r \in signal[r]
    BY <1>3 DEF GoodHow, GoodIds
  <2>11. v.how \notin {"multi", "late"} /\ signal[r] # NoSignal => r \notin signal[r]
    BY <1>3, <1>5 DEF GoodHow, GoodIds
  <2>12. GuidInv'
    BY <1>1, <1>3, <2>1, <2>9, <2>10 DEF HandshakeInv, GuidInv, GC
  <2>13. ASSUME NEW q \in Requests, signal[q] # NoSignal
         PROVE  \A p \in signal[q] : status'[p] # "none"
    BY <2>2, <2>13, HandshakeAssumption DEF HandshakeInv, SignalInv, HandshakeAssumption
  <2>14. ASSUME NEW q \in Requests, signal[q] # NoSignal, guid'[q] # NoChat
         PROVE  \E p \in Requests : signal[p] = signal[q] /\ mguid'[p] # NoChat
    <3>1. CASE q = r /\ v.how \in {"multi", "late"}
      BY <1>3, <2>1, <3>1
    <3>2. CASE ~(q = r /\ v.how \in {"multi", "late"})
      <4>1. guid[q] # NoChat
        BY <2>1, <2>11, <2>14, <3>2 DEF HandshakeInv, SignalInv
      <4>2. PICK p \in Requests : signal[p] = signal[q] /\ mguid[p] # NoChat
        BY <2>14, <4>1 DEF HandshakeInv, SignalInv
      <4>3. mguid'[p] # NoChat
        BY <1>3, <2>1, <4>2
      <4> QED BY <4>2, <4>3
    <3> QED BY <3>1, <3>2
  <2>15. ASSUME NEW q \in Requests
         PROVE  /\ signal'[q] # NoSignal =>
                     /\ signal'[q] \in Batches /\ \A p \in signal'[q] : status'[p] # "none"
                     /\ q \in signal'[q] \/ guid'[q] # NoChat
                /\ q \in signal'[q] /\ guid'[q] # NoChat => status'[q] = GC
                /\ signal'[q] # NoSignal /\ guid'[q] # NoChat =>
                     \E p \in Requests : signal'[p] = signal'[q] /\ mguid'[p] # NoChat
    BY <1>1, <1>3, <2>1, <2>13, <2>14 DEF HandshakeInv, SignalInv
  <2>16. SignalInv'
    BY <2>15 DEF SignalInv
  <2> QED BY <2>5, <2>7, <2>8, <2>12, <2>16 DEF HandshakeInv
<1> QED BY <1>2, <1>4, <1>5

LEMMA FaultsAreKept ==
  ASSUME HandshakeInv, NEW w \in Workers,
         SendInvitation(w) \/ CallFails(w) \/ Crash(w) \/ Redeliver(w)
  PROVE  HandshakeInv'
<1>1. /\ UNCHANGED <<status, guid, mguid, signal, members, rows, via, origin, short>>
      /\ work' = work \/ work' = [work EXCEPT ![w] = Idle]
      /\ invited' = invited \/ invited' = invited \union {work[w].req}
      /\ failed' = failed \/ failed' = failed \union {work[w].req}
  <2>1. CASE SendInvitation(w)
    BY <2>1 DEF SendInvitation, db, photon
  <2>2. CASE CallFails(w)
    BY <2>2 DEF CallFails, db, photon, target
  <2>3. CASE Crash(w)
    BY <2>3 DEF Crash, db, photon
  <2>4. CASE Redeliver(w)
    BY <2>4 DEF Redeliver, db, photon
  <2> QED BY <2>1, <2>2, <2>3, <2>4
<1>2. WorkGoesOn
  BY <1>1, IdleIsGood DEF WorkGoesOn
<1>3. invited' \subseteq Requests /\ failed' \subseteq Requests
  BY <1>1 DEF HandshakeInv, TypeOK
<1> QED BY <1>1, <1>2, <1>3, CallGoesOn
------------------------------------------------------------------------------
(* The theorems.                                                             *)

LEMMA StartsRight == Init => HandshakeInv
<1> SUFFICES ASSUME Init PROVE HandshakeInv
  OBVIOUS
<1>1. TypeOK
  BY IdleIsGood DEF Init, TypeOK, Statuses, Idle
<1>2. WorkInv
  BY IdleIsGood DEF Init, WorkInv
<1>3. ChatInv
  BY DEF Init, ChatInv
<1>4. GuidInv /\ SignalInv
  BY DEF Init, GuidInv, SignalInv, NoSignal, GC
<1> QED BY <1>1, <1>2, <1>3, <1>4 DEF HandshakeInv

\* A search creates at least one request.
LEMMA SearchFinds ==
  ASSUME FindMatch \/ FindMultiMatches
  PROVE  \E R \in Batches, multi \in BOOLEAN : R # {} /\ CreateRequests(R, multi)
<1>1. CASE FindMatch
  BY <1>1 DEF FindMatch
<1>2. CASE FindMultiMatches
  <2>1. PICK R \in Batches : Cardinality(R) > 1 /\ CreateRequests(R, TRUE)
    BY <1>2 DEF FindMultiMatches
  <2>2. Cardinality({}) = 0
    BY FS_EmptySet
  <2>3. R # {}
    BY <2>1, <2>2
  <2> QED BY <2>1, <2>3
<1> QED BY <1>1, <1>2

LEMMA StepsAreKept == HandshakeInv /\ [Next]_vars => HandshakeInv'
<1> SUFFICES ASSUME HandshakeInv, [Next]_vars PROVE HandshakeInv'
  OBVIOUS
<1>1. CASE FindMatch \/ FindMultiMatches
  BY <1>1, SearchFinds, CreationIsKept
<1>2. ASSUME NEW r \in Requests, NEW c \in Chats, ExpandGroupChat(r, c)
      PROVE  HandshakeInv'
  BY <1>2, ExpansionIsKept
<1>3. ASSUME NEW r \in Requests,
             \/ \E tool \in {"cancel", "different"} : InitiatorCancels(r, tool)
             \/ TargetDeclines(r)
      PROVE  HandshakeInv'
  BY <1>3, AnswersAreKept
<1>4. ASSUME NEW w \in Workers, NEW r \in Requests,
             InitiatorConfirms(w, r) \/ SaysYes(w, r) \/ SaidYes(w, r)
      PROVE  HandshakeInv'
  BY <1>4, YesAccepts, ConfirmationIsKept, AcceptanceIsKept
<1>5. ASSUME NEW w \in Workers, Step(w) \/ PhotonCreates(w, TRUE)
      PROVE  HandshakeInv'
  <2>1. CASE CheckReady(w) \/ (\E t \in {"dm", "group"} : StartCreate(w, t)) \/ Refresh(w) \/ Gather(w)
    BY <2>1, CheckIsKept, StartIsKept, RefreshIsKept, GatheringIsKept
  <2>2. CASE PhotonCreates(w, FALSE) \/ PhotonCreates(w, TRUE) \/ RecordChat(w)
    BY <2>2, CreatingIsKept, RecordingIsKept
  <2>3. CASE PhotonAdds(w) \/ Announce(w) \/ Mark(w)
    BY <2>3, AddingIsKept, AnnouncingIsKept, MarkIsKept
  <2> QED BY <1>5, <2>1, <2>2, <2>3 DEF Step
<1>6. ASSUME NEW w \in Workers, SendInvitation(w) \/ CallFails(w) \/ Crash(w) \/ Redeliver(w)
      PROVE  HandshakeInv'
  BY <1>6, FaultsAreKept
<1>7. CASE UNCHANGED vars
  BY <1>7, CallGoesOn DEF vars, db, photon, target, mishaps, WorkGoesOn, HandshakeInv, TypeOK
<1> QED BY <1>1, <1>2, <1>3, <1>4, <1>5, <1>6, <1>7 DEF Next

LEMMA HandshakeIsCorrect == Spec => []HandshakeInv
BY StartsRight, StepsAreKept, PTL DEF Spec

\* In every reachable state, rows, chats and calls are what the code takes
\* them to be: statuses of the enum, requests and people that exist.
THEOREM HandshakeIsTyped == Spec => []TypeOK
<1>1. HandshakeInv => TypeOK
  BY DEF HandshakeInv
<1> QED BY <1>1, HandshakeIsCorrect, PTL

\* A request that is recorded as GROUP_CREATED names a chat in which both of
\* its people are, for any number of worker processes, crashes, redeliveries
\* and failed calls between the steps of create_group_chat; only a chat that
\* create_multi_person_group made without somebody it could not read is
\* excepted, whose requests it marks all the same.
THEOREM GroupsAreReal == Spec => []GroupIsReal
<1>1. HandshakeInv => GroupIsReal
  BY DEF HandshakeInv, GuidInv, GroupIsReal, Together
<1> QED BY <1>1, HandshakeIsCorrect, PTL
------------------------------------------------------------------------------
(* The handshake keeps what Introductions promises.                          *)

\* The requests whose people have met in a chat, and whose chat was short.
Met    == {r \in Requests : \E c \in Chats : r \in via[c] /\ PersonsOf(r) \subseteq members[c]}
Missed == {r \in Requests : \E c \in short : r \in via[c]}

\* What a change of some statuses is for Introductions.
LEMMA PhaseMoves ==
  ASSUME NEW R \in SUBSET Requests, R # {}, NEW from, NEW to,
         \A r \in R : status[r] = from,
         \A r \in Requests : status'[r] = IF r \in R THEN to ELSE status[r],
         UNCHANGED <<via, members, short>>
  PROVE  Promise!Become(R, PhaseOf(from), PhaseOf(to))
<1>1. \A r \in R : [q \in Requests |-> PhaseOf(status[q])][r] = PhaseOf(from)
  OBVIOUS
<1>2. [q \in Requests |-> PhaseOf(status'[q])] =
        [q \in Requests |-> IF q \in R THEN PhaseOf(to) ELSE [p \in Requests |-> PhaseOf(status[p])][q]]
  OBVIOUS
<1>3. UNCHANGED <<{r \in Requests : \E c \in Chats : r \in via[c] /\ PersonsOf(r) \subseteq members[c]},
                  {r \in Requests : \E c \in short : r \in via[c]}>>
  OBVIOUS
<1> QED BY <1>1, <1>2, <1>3 DEF Promise!Become

LEMMA PhasesOf ==
  /\ PhaseOf("none") = "none" /\ PhaseOf(PI) = "proposed" /\ PhaseOf(PT) = "invited"
  /\ PhaseOf(TA) = "accepted" /\ PhaseOf(TD) = "declined" /\ PhaseOf(CX) = "withdrawn"
  /\ PhaseOf(GC) = "introduced"
BY DEF PhaseOf, PI, PT, TA, TD, CX, GC

\* Neither the statuses nor the people who were brought together change.
Stutters == UNCHANGED <<status, via, members, short>>

LEMMA StuttersMap ==
  ASSUME Stutters
  PROVE  UNCHANGED <<[r \in Requests |-> PhaseOf(status[r])], Met, Missed>>
BY DEF Stutters, Met, Missed

\* A chat is made for requests that both sides agreed to, or joined for one.
LEMMA MeetingMaps ==
  ASSUME NEW S \in SUBSET Requests, \A r \in S : Agreed(r, status),
         NEW c \in Chats, via' = [via EXCEPT ![c] = @ \union S], status' = status,
         via \in [Chats -> SUBSET Requests], \A d \in Chats : \A r \in via[d] : Agreed(r, status),
         \A d \in Chats : via[d] # {} => members[d] \subseteq members'[d],
         \A d \in Chats : via[d] = {} => d = c \/ via'[d] = {},
         short \subseteq short', short' \subseteq Chats
  PROVE  Promise!Meet
<1>1. \A d \in Chats : /\ via[d] \subseteq via'[d] /\ via'[d] \subseteq Requests
                       /\ \A r \in via'[d] : Agreed(r, status)
  OBVIOUS
<1>2. \A r \in Requests : Agreed(r, status) =>
        [q \in Requests |-> PhaseOf(status[q])][r] \in {"accepted", "introduced"}
  BY PhasesOf DEF Agreed
<1>3. Met \subseteq Met' /\ Met' \subseteq Met \union Promise!Agreed
  BY <1>1, <1>2 DEF Met, Promise!Agreed
<1>4. Missed \subseteq Missed' /\ Missed' \subseteq Missed \union Promise!Agreed
  BY <1>1, <1>2 DEF Missed, Promise!Agreed
<1>5. UNCHANGED [r \in Requests |-> PhaseOf(status[r])]
  OBVIOUS
<1> QED BY <1>3, <1>4, <1>5 DEF Promise!Meet, Met, Missed

LEMMA StartMaps == Init => Promise!Init
<1> SUFFICES ASSUME Init PROVE Promise!Init
  OBVIOUS
<1>1. [r \in Requests |-> PhaseOf(status[r])] = [r \in Requests |-> "none"]
  BY PhasesOf DEF Init
<1>2. Met = {} /\ Missed = {}
  BY DEF Init, Met, Missed
<1> QED BY <1>1, <1>2 DEF Promise!Init, Met, Missed

\* The chats stay as they are.
Unmet == UNCHANGED <<via, members, short>>

LEMMA CreationMaps ==
  ASSUME HandshakeInv,
         \/ FindMatch \/ FindMultiMatches
         \/ \E r \in Requests, c \in Chats : ExpandGroupChat(r, c)
  PROVE  Promise!Next
<1>1. \E R \in SUBSET Requests :
        /\ R # {} /\ \A r \in R : status[r] = "none"
        /\ \A r \in Requests : status'[r] = IF r \in R THEN PI ELSE status[r]
        /\ Unmet
  <2>1. CASE FindMatch \/ FindMultiMatches
    <3>1. PICK R \in Batches, multi \in BOOLEAN : R # {} /\ CreateRequests(R, multi)
      BY <2>1, SearchFinds
    <3>2. R \in SUBSET Requests
      BY HandshakeAssumption DEF HandshakeAssumption
    <3> QED BY <3>1, <3>2 DEF CreateRequests, photon, Unmet
  <2>2. ASSUME NEW r \in Requests, NEW c \in Chats, ExpandGroupChat(r, c)
        PROVE  /\ status[r] = "none" /\ Unmet
               /\ \A q \in Requests : status'[q] = IF q \in {r} THEN PI ELSE status[q]
    BY <2>2 DEF ExpandGroupChat, SetStatus, photon, Unmet, HandshakeInv, TypeOK
  <2>3. CASE \E r \in Requests, c \in Chats : ExpandGroupChat(r, c)
    <3>1. PICK r \in Requests, c \in Chats : ExpandGroupChat(r, c)
      BY <2>3
    <3>2. {r} \in SUBSET Requests /\ {r} # {} /\ \A q \in {r} : status[q] = "none"
      BY <2>2, <3>1
    <3> QED BY <2>2, <3>1, <3>2
  <2> QED BY <2>1, <2>3
<1>2. \E R \in SUBSET Requests : Promise!Become(R, "none", "proposed")
  BY <1>1, PhaseMoves, PhasesOf DEF Unmet
<1> QED BY <1>2 DEF Promise!Next, Promise!Propose

\* One request is answered.
LEMMA AnswerMaps ==
  ASSUME HandshakeInv, NEW r \in Requests, NEW from, NEW to, status[r] = from, SetStatus(r, to),
         Unmet
  PROVE  Promise!Become({r}, PhaseOf(from), PhaseOf(to))
<1>1. \A q \in Requests : status'[q] = IF q \in {r} THEN to ELSE status[q]
  BY DEF SetStatus, HandshakeInv, TypeOK
<1> QED BY <1>1, PhaseMoves DEF Unmet

LEMMA AnswersMap ==
  ASSUME HandshakeInv, NEW r \in Requests,
         \/ \E tool \in {"cancel", "different"} : InitiatorCancels(r, tool)
         \/ TargetDeclines(r)
         \/ \E w \in Workers : InitiatorConfirms(w, r)
         \/ \E w \in Workers : TargetAccepts(w, r)
  PROVE  Promise!Next \/ Stutters
<1>1. CASE \E tool \in {"cancel", "different"} : InitiatorCancels(r, tool)
  <2>1. status[r] = PI /\ SetStatus(r, CX) /\ Unmet
    BY <1>1 DEF InitiatorCancels, CanMove, photon, Unmet
  <2>2. Promise!Become({r}, "proposed", "withdrawn")
    BY <2>1, AnswerMaps, PhasesOf
  <2> QED BY <2>2 DEF Promise!Next, Promise!Withdraw
<1>2. CASE TargetDeclines(r)
  <2>1. status[r] = PT /\ SetStatus(r, TD) /\ Unmet
    BY <1>2 DEF TargetDeclines, CanMove, photon, Unmet
  <2>2. Promise!Become({r}, "invited", "declined")
    BY <2>1, AnswerMaps, PhasesOf
  <2> QED BY <2>2 DEF Promise!Next, Promise!Decline
<1>3. CASE \E w \in Workers : InitiatorConfirms(w, r)
  <2>1. status[r] = PI /\ SetStatus(r, PT) /\ Unmet
    BY <1>3 DEF InitiatorConfirms, CanMove, photon, Unmet
  <2>2. Promise!Become({r}, "proposed", "invited")
    BY <2>1, AnswerMaps, PhasesOf
  <2> QED BY <2>2 DEF Promise!Next, Promise!Confirm
<1>4. CASE \E w \in Workers : TargetAccepts(w, r)
  <2>1. \/ status[r] = PT /\ SetStatus(r, TA) /\ Unmet
        \/ Stutters
    BY <1>4 DEF TargetAccepts, CanMove, photon, Unmet, Stutters
  <2>2. CASE status[r] = PT /\ SetStatus(r, TA) /\ Unmet
    <3>1. Promise!Become({r}, "invited", "accepted")
      BY <2>2, AnswerMaps, PhasesOf
    <3> QED BY <3>1 DEF Promise!Next, Promise!Accept
  <2> QED BY <2>1, <2>2
<1> QED BY <1>1, <1>2, <1>3, <1>4

LEMMA PhotonMaps ==
  ASSUME HandshakeInv, NEW w \in Workers,
         PhotonCreates(w, TRUE) \/ PhotonCreates(w, FALSE) \/ PhotonAdds(w)
  PROVE  Promise!Next
<1>1. /\ via \in [Chats -> SUBSET Requests] /\ members \in [Chats -> SUBSET Users] /\ short \subseteq Chats
      /\ \A d \in Chats : \A r \in via[d] : Agreed(r, status)
      /\ \A d \in Chats : origin[d] = {} => via[d] = {}
  BY DEF HandshakeInv, TypeOK, ChatInv
<1>2. CASE \E lost \in BOOLEAN : PhotonCreates(w, lost)
  <2> DEFINE c == CHOOSE c \in Chats : origin[c] = {}
  <2>1. /\ c \in Chats /\ origin[c] = {} /\ work[w].pc = "opening"
        /\ via' = [via EXCEPT ![c] = work[w].ids] /\ status' = status
        /\ members' = [members EXCEPT ![c] = work[w].who]
        /\ short' = short \/ short' = short \union {c}
    BY <1>2 DEF PhotonCreates, db
  <2>2. work[w].ids \in SUBSET Requests /\ \A r \in work[w].ids : Agreed(r, status)
    BY DEF HandshakeInv, WorkInv, GoodWork, WorkRows
  <2> HIDE DEF c
  <2>3. via[c] = {} /\ via' = [via EXCEPT ![c] = @ \union work[w].ids]
    BY <1>1, <2>1
  <2>4. /\ \A d \in Chats : via[d] # {} => members[d] \subseteq members'[d]
        /\ \A d \in Chats : via[d] = {} => d = c \/ via'[d] = {}
        /\ short \subseteq short' /\ short' \subseteq Chats
    BY <1>1, <2>1, <2>3
  <2>5. Promise!Meet
    BY <1>1, <2>1, <2>2, <2>3, <2>4, MeetingMaps
  <2> QED BY <2>5 DEF Promise!Next
<1>3. CASE PhotonAdds(w)
  <2>1. /\ via' = [via EXCEPT ![work[w].chat] = @ \union {work[w].req}]
        /\ members' = [members EXCEPT ![work[w].chat] = @ \union {TargetOf[work[w].req]}]
        /\ status' = status /\ short' = short /\ work[w].pc = "adding"
    BY <1>3 DEF PhotonAdds, db
  <2>2. /\ {work[w].req} \in SUBSET Requests /\ work[w].chat \in Chats
        /\ Agreed(work[w].req, status)
    BY <2>1 DEF HandshakeInv, WorkInv, GoodWork, WorkRows
  <2>3. /\ \A d \in Chats : via[d] # {} => members[d] \subseteq members'[d]
        /\ \A d \in Chats : via[d] = {} => d = work[w].chat \/ via'[d] = {}
    BY <1>1, <2>1, <2>2
  <2>4. PICK S \in SUBSET Requests, d \in Chats : S = {work[w].req} /\ d = work[w].chat
    BY <2>2
  <2>5. /\ \A r \in S : Agreed(r, status)
        /\ via' = [via EXCEPT ![d] = @ \union S] /\ status' = status
        /\ \A e \in Chats : via[e] = {} => e = d \/ via'[e] = {}
        /\ short \subseteq short' /\ short' \subseteq Chats
    BY <1>1, <2>1, <2>2, <2>3, <2>4
  <2>6. Promise!Meet
    BY <1>1, <2>3, <2>5, MeetingMaps, Zenon
  <2> QED BY <2>6 DEF Promise!Next
<1> QED BY <1>2, <1>3

LEMMA MarkMaps ==
  ASSUME HandshakeInv, NEW w \in Workers, Mark(w)
  PROVE  Promise!Next \/ Stutters
<1> DEFINE v == work[w]
<1>1. v.pc = "marking" /\ Unmet
  BY DEF Mark, photon, Unmet
<1>2. PICK r \in v.ids : (status[r] = TA /\ SetStatus(r, GC)) \/ UNCHANGED status
  BY DEF Mark, CanMove
<1>3. r \in Requests /\ v.chat \in Chats /\ r \in via[v.chat] /\ Together(r, v.chat, members, short)
  BY <1>1 DEF HandshakeInv, WorkInv, GoodWork, WorkRows
<1>4. CASE status[r] = TA /\ SetStatus(r, GC)
  <2>1. Promise!Become({r}, "accepted", "introduced")
    BY <1>1, <1>3, <1>4, AnswerMaps, PhasesOf
  <2>2. r \in Met \union Missed
    BY <1>3 DEF Together, Met, Missed
  <2> QED BY <2>1, <2>2 DEF Promise!Next, Promise!Conclude, Met, Missed
<1>5. CASE UNCHANGED status
  BY <1>1, <1>5 DEF Stutters, Unmet
<1> QED BY <1>2, <1>4, <1>5

LEMMA StepsMap ==
  HandshakeInv /\ [Next]_vars =>
    [Promise!Next]_<<[r \in Requests |-> PhaseOf(status[r])], Met, Missed>>
<1> SUFFICES ASSUME HandshakeInv, [Next]_vars PROVE Promise!Next \/ Stutters
  BY StuttersMap
<1>1. CASE \/ FindMatch \/ FindMultiMatches
           \/ \E r \in Requests, c \in Chats : ExpandGroupChat(r, c)
  BY <1>1, CreationMaps
<1>2. ASSUME NEW r \in Requests,
             \/ \E tool \in {"cancel", "different"} : InitiatorCancels(r, tool)
             \/ TargetDeclines(r)
             \/ \E w \in Workers : InitiatorConfirms(w, r) \/ SaysYes(w, r) \/ SaidYes(w, r)
      PROVE  Promise!Next \/ Stutters
  BY <1>2, YesAccepts, AnswersMap
<1>3. ASSUME NEW w \in Workers,
             \/ SendInvitation(w) \/ CallFails(w) \/ Crash(w) \/ Redeliver(w)
             \/ CheckReady(w) \/ (\E t \in {"dm", "group"} : StartCreate(w, t)) \/ Refresh(w)
             \/ Gather(w) \/ RecordChat(w) \/ Announce(w)
      PROVE  Stutters
  <2>1. CASE SendInvitation(w) \/ CallFails(w)
    BY <2>1 DEF SendInvitation, CallFails, db, photon, Stutters
  <2>2. CASE Crash(w)
    BY <2>2 DEF Crash, db, photon, Stutters
  <2>3. CASE Redeliver(w)
    BY <2>3 DEF Redeliver, db, photon, Stutters
  <2>4. CASE CheckReady(w)
    BY <2>4 DEF CheckReady, db, photon, Stutters
  <2>5. CASE \E t \in {"dm", "group"} : StartCreate(w, t)
    BY <2>5 DEF StartCreate, db, photon, Stutters
  <2>6. CASE Refresh(w)
    BY <2>6 DEF Refresh, db, photon, Stutters
  <2>7. CASE Gather(w)
    BY <2>7 DEF Gather, db, photon, Stutters
  <2>8. CASE RecordChat(w) \/ Announce(w)
    BY <2>8 DEF RecordChat, Announce, db, photon, Stutters
  <2> QED BY <1>3, <2>1, <2>2, <2>3, <2>4, <2>5, <2>6, <2>7, <2>8
<1>4. ASSUME NEW w \in Workers,
             PhotonCreates(w, TRUE) \/ PhotonCreates(w, FALSE) \/ PhotonAdds(w)
      PROVE  Promise!Next
  BY <1>4, PhotonMaps
<1>5. ASSUME NEW w \in Workers, Mark(w)
      PROVE  Promise!Next \/ Stutters
  BY <1>5, MarkMaps
<1>6. CASE UNCHANGED vars
  BY <1>6 DEF vars, db, photon, Stutters
<1> QED BY <1>1, <1>2, <1>3, <1>4, <1>5, <1>6 DEF Next, Step

\* The handshake implements Introductions: nobody is brought together by a
\* request that its initiator did not confirm and its target did not accept,
\* and no request is recorded as introduced before both of its people are in a
\* chat made or joined for it, or before its chat was made without somebody who
\* could not be read, whatever its tool calls read before others wrote.
THEOREM HandshakeImplementsIntroductions == Spec => IntroductionsSpec
BY HandshakeIsCorrect, StartMaps, StepsMap, PTL DEF Spec, IntroductionsSpec, Promise!Spec, Met, Missed
------------------------------------------------------------------------------
(* One chat for what was agreed.  As long as nothing interfered with a key,  *)
(* one call at a time works on it, so what it has read is still true when it *)
(* makes its chat, and the chat is named by a request before the call ends.  *)

\* The call of w is about k.
OnChat(w, k) == work[w].pc \notin {"idle", "inviting"} /\ KeyOf(work[w].req) = k

\* The call has made a chat and is to mark its requests.
Making(v) == v.pc \in {"recording", "marking"} /\ v.how \in {"single", "multi"} /\ v.ids # {}

\* Whoever looks for a chat of k finds one.
Named(k) ==
  \E q \in Requests : KeyOf(q) = k /\ IF signal[q] = NoSignal THEN status[q] = GC ELSE mguid[q] # NoChat

\* What a call that is alone with k may rely on: the requests it gathers are
\* still to be introduced, and there is no chat when it is to make one.
Lone(v, k, st, sg, og) ==
  /\ v.pc # "marking" => st[v.req] = TA
  /\ (v.pc = "creating" /\ v.chat = NoChat) \/ v.pc \in {"gathering", "opening"} \/ Making(v)
       => \A q \in v.ids : st[q] = TA
  /\ (\/ v.pc = "creating" /\ v.chat = NoChat /\ v.how # Fresh /\ sg[v.req] # NoSignal
      \/ v.pc \in {"gathering", "opening"})
       => \A c \in Chats : og[c] # k

LoneInv ==
  \A k \in Keys \ disturbed :
    /\ \A u, w \in Workers : OnChat(u, k) /\ OnChat(w, k) => u = w
    /\ \A w \in Workers : OnChat(w, k) => Lone(work[w], k, status, signal, origin)
    /\ \A c \in Chats : origin[c] = k => Named(k) \/ \E w \in Workers : OnChat(w, k) /\ Making(work[w])
    /\ \A c, d \in Chats : origin[c] = k /\ origin[d] = k => c = d

\* A signal group is not taken for a single match.
PairInv == \A q, r \in Requests : signal[q] # {r}

\* The database around the calls goes on, and no chat is made.
RowsGoOn ==
  /\ disturbed \subseteq disturbed' /\ origin' = origin
  /\ \A q \in Requests :
       /\ status[q] # "none" => signal'[q] = signal[q]
       /\ status[q] = GC => status'[q] = GC
       /\ mguid[q] # NoChat => mguid'[q] # NoChat

AcceptedStay == \A q \in Requests : status[q] = TA => status'[q] = TA

\* The call of w goes on to v, alone if it was alone, and introduces nobody but
\* requests of its own.
LoneGoesOn(w, v) ==
  /\ work' = [work EXCEPT ![w] = v]
  /\ \A q \in Requests : status[q] = TA => status'[q] = TA \/ OnChat(w, KeyOf(q))
  /\ v.pc \notin {"idle", "inviting"} =>
       /\ v.req \in Requests /\ status[v.req] # "none"
       /\ KeyOf(v.req) \notin disturbed' =>
            /\ \A u \in Workers : OnChat(u, KeyOf(v.req)) => u = w
            /\ Lone(v, KeyOf(v.req), status', signal', origin')
  /\ \A k \in Keys : OnChat(w, k) /\ Making(work[w]) =>
       k \in disturbed' \/ (Making(v) /\ v.req = work[w].req) \/ Named(k)'

LEMMA KeysAreKeys ==
  ASSUME HandshakeInv, NEW r \in Requests
  PROVE  KeyOf(r) \in Keys
BY DEF HandshakeInv, TypeOK, KeyOf, Keys

\* What is known of a call.
LEMMA CallsAreKnown ==
  ASSUME HandshakeInv, NEW w \in Workers
  PROVE  /\ work[w] \in WorkRows /\ work[w].req \in Requests /\ work[w].ids \subseteq Requests
         /\ GoodWork(work[w], status, signal, members, via, origin, short)
         /\ work[w].pc \notin {"idle", "inviting"} => status[work[w].req] \in {TA, GC}
         /\ \A q \in work[w].ids : status[q] \in {TA, GC}
BY DEF HandshakeInv, WorkInv, GoodWork, WorkRows, Agreed

\* The requests a call is about to gather or to mark are about the same key.
LEMMA CallsHaveOneKey ==
  ASSUME HandshakeInv, NEW w \in Workers,
         \/ work[w].pc = "creating" /\ work[w].chat = NoChat
         \/ work[w].pc \in {"gathering", "opening", "recording", "marking"},
         NEW q \in work[w].ids
  PROVE  KeyOf(q) = KeyOf(work[w].req)
<1>1. GoodWork(work[w], status, signal, members, via, origin, short)
  BY CallsAreKnown
<1>2. CASE work[w].pc = "creating" /\ work[w].chat = NoChat
  BY <1>1, <1>2 DEF GoodWork, KeyOf, NoSignal
<1>3. CASE work[w].pc \in {"gathering", "opening", "recording", "marking"}
  BY <1>1, <1>3 DEF GoodWork, GoodIds, KeyOf, NoSignal
<1> QED BY <1>2, <1>3

LEMMA NamedStays ==
  ASSUME HandshakeInv, RowsGoOn, NEW k, Named(k)
  PROVE  Named(k)'
<1>1. PICK q \in Requests : KeyOf(q) = k /\ IF signal[q] = NoSignal THEN status[q] = GC ELSE mguid[q] # NoChat
  BY DEF Named
<1>2. status[q] # "none"
  BY <1>1 DEF HandshakeInv, GuidInv, GC
<1>3. signal'[q] = signal[q]
  BY <1>2 DEF RowsGoOn
<1>4. KeyOf(q)' = k
  BY <1>1, <1>3 DEF KeyOf
<1>5. (IF signal[q] = NoSignal THEN status[q] = GC ELSE mguid[q] # NoChat)'
  BY <1>1, <1>3 DEF RowsGoOn
<1> QED BY <1>4, <1>5 DEF Named

\* A step of one call, or of none, keeps what the others rely on.
LEMMA LoneIsKept ==
  ASSUME HandshakeInv, LoneInv, RowsGoOn,
         \/ work' = work /\ AcceptedStay
         \/ \E w \in Workers, v \in WorkRows : LoneGoesOn(w, v)
  PROVE  LoneInv'
<1>1. \A u \in Workers : work[u].pc \notin {"idle", "inviting"} => signal'[work[u].req] = signal[work[u].req]
  BY CallsAreKnown DEF RowsGoOn, TA, GC
<1>2. ASSUME NEW u \in Workers, NEW k \in Keys \ disturbed, OnChat(u, k),
             \A q \in Requests : status[q] = TA /\ KeyOf(q) = k => status'[q] = TA
      PROVE  Lone(work[u], k, status', signal', origin')
  <2>1. Lone(work[u], k, status, signal, origin)
    BY <1>2 DEF LoneInv
  <2>2. signal'[work[u].req] = signal[work[u].req] /\ origin' = origin
    BY <1>1, <1>2 DEF OnChat, RowsGoOn
  <2>3. work[u].req \in Requests /\ work[u].ids \subseteq Requests
    BY CallsAreKnown
  <2>4. work[u].pc # "marking" => status'[work[u].req] = TA
    BY <1>2, <2>1, <2>3 DEF Lone, OnChat
  <2>5. (work[u].pc = "creating" /\ work[u].chat = NoChat) \/ work[u].pc \in {"gathering", "opening"} \/ Making(work[u])
          => \A q \in work[u].ids : status'[q] = TA
    BY <1>2, <2>1, <2>3, CallsHaveOneKey DEF Lone, OnChat, Making
  <2> QED BY <2>1, <2>2, <2>4, <2>5 DEF Lone
<1>3. CASE work' = work /\ AcceptedStay
  <2>1. \A u \in Workers, k \in Keys : OnChat(u, k)' <=> OnChat(u, k)
    BY <1>1, <1>3 DEF OnChat, KeyOf
  <2> SUFFICES ASSUME NEW k \in Keys \ disturbed'
               PROVE  /\ \A u, w \in Workers : OnChat(u, k)' /\ OnChat(w, k)' => u = w
                      /\ \A w \in Workers : OnChat(w, k)' => Lone(work'[w], k, status', signal', origin')
                      /\ \A c \in Chats : origin'[c] = k => Named(k)' \/ \E w \in Workers : OnChat(w, k)' /\ Making(work'[w])
                      /\ \A c, d \in Chats : origin'[c] = k /\ origin'[d] = k => c = d
    BY DEF LoneInv, Keys
  <2>2. k \in Keys \ disturbed /\ origin' = origin
    BY DEF RowsGoOn
  <2>3. \A u, w \in Workers : OnChat(u, k)' /\ OnChat(w, k)' => u = w
    BY <2>1, <2>2 DEF LoneInv
  <2>4. \A w \in Workers : OnChat(w, k)' => Lone(work'[w], k, status', signal', origin')
    BY <1>2, <1>3, <2>1, <2>2 DEF AcceptedStay
  <2>5. \A c \in Chats : origin'[c] = k => Named(k)' \/ \E w \in Workers : OnChat(w, k)' /\ Making(work'[w])
    BY <1>3, <2>1, <2>2, NamedStays DEF LoneInv
  <2>6. \A c, d \in Chats : origin'[c] = k /\ origin'[d] = k => c = d
    BY <2>2 DEF LoneInv
  <2> QED BY <2>3, <2>4, <2>5, <2>6
<1>4. ASSUME NEW w \in Workers, NEW v \in WorkRows, LoneGoesOn(w, v)
      PROVE  LoneInv'
  <2>1. \A u \in Workers : work'[u] = IF u = w THEN v ELSE work[u]
    BY <1>4 DEF LoneGoesOn, HandshakeInv, WorkInv
  <2>2. \A u \in Workers \ {w}, k \in Keys : OnChat(u, k)' <=> OnChat(u, k)
    BY <1>1, <2>1 DEF OnChat, KeyOf
  <2>3. v.pc \notin {"idle", "inviting"} => KeyOf(v.req)' = KeyOf(v.req)
    BY <1>4 DEF LoneGoesOn, RowsGoOn, KeyOf
  <2>4. \A k \in Keys : OnChat(w, k)' <=> v.pc \notin {"idle", "inviting"} /\ KeyOf(v.req) = k
    BY <2>1, <2>3 DEF OnChat, KeyOf
  <2> SUFFICES ASSUME NEW k \in Keys \ disturbed'
               PROVE  /\ \A u, x \in Workers : OnChat(u, k)' /\ OnChat(x, k)' => u = x
                      /\ \A u \in Workers : OnChat(u, k)' => Lone(work'[u], k, status', signal', origin')
                      /\ \A c \in Chats : origin'[c] = k => Named(k)' \/ \E u \in Workers : OnChat(u, k)' /\ Making(work'[u])
                      /\ \A c, d \in Chats : origin'[c] = k /\ origin'[d] = k => c = d
    BY DEF LoneInv, Keys
  <2>5. k \in Keys \ disturbed /\ origin' = origin
    BY DEF RowsGoOn
  <2>6. OnChat(w, k)' => \A u \in Workers : OnChat(u, k) => u = w
    BY <1>4, <2>4 DEF LoneGoesOn
  <2>7. \A u, x \in Workers : OnChat(u, k)' /\ OnChat(x, k)' => u = x
    BY <2>2, <2>5, <2>6 DEF LoneInv
  <2>8. \A u \in Workers : OnChat(u, k)' => Lone(work'[u], k, status', signal', origin')
    <3>1. OnChat(w, k)' => Lone(v, k, status', signal', origin')
      BY <1>4, <2>4 DEF LoneGoesOn
    <3>2. ASSUME NEW u \in Workers \ {w}, OnChat(u, k), NEW q \in Requests, status[q] = TA, KeyOf(q) = k
          PROVE  status'[q] = TA
      BY <1>4, <2>5, <3>2 DEF LoneGoesOn, LoneInv
    <3>3. \A u \in Workers \ {w} : OnChat(u, k) => Lone(work[u], k, status', signal', origin')
      BY <1>2, <2>5, <3>2
    <3> QED BY <2>1, <2>2, <3>1, <3>3
  <2>9. ASSUME NEW u \in Workers, OnChat(u, k), Making(work[u])
        PROVE  Named(k)' \/ (OnChat(u, k)' /\ Making(work'[u]))
    <3>1. CASE u # w
      BY <2>1, <2>2, <2>9, <3>1
    <3>2. CASE u = w
      <4>1. Named(k)' \/ (Making(v) /\ v.req = work[w].req)
        BY <1>4, <2>9, <3>2 DEF LoneGoesOn
      <4>2. Making(v) /\ v.req = work[w].req => v.pc \notin {"idle", "inviting"} /\ KeyOf(v.req) = k
        BY <2>9, <3>2 DEF Making, OnChat
      <4> QED BY <2>1, <2>4, <3>2, <4>1, <4>2
    <3> QED BY <3>1, <3>2
  <2>10. \A c \in Chats : origin'[c] = k => Named(k)' \/ \E u \in Workers : OnChat(u, k)' /\ Making(work'[u])
    BY <2>5, <2>9, NamedStays DEF LoneInv
  <2>11. \A c, d \in Chats : origin'[c] = k /\ origin'[d] = k => c = d
    BY <2>5 DEF LoneInv
  <2> QED BY <2>7, <2>8, <2>10, <2>11
<1> QED BY <1>3, <1>4

\* A call that made no chat, or is disturbed, ends.
LEMMA LoneCallEnds ==
  ASSUME HandshakeInv, LoneInv, RowsGoOn, AcceptedStay, NEW w \in Workers,
         work' = [work EXCEPT ![w] = Idle],
         Making(work[w]) => KeyOf(work[w].req) \in disturbed'
  PROVE  LoneInv'
<1>1. Idle.pc = "idle"
  BY DEF Idle
<1>2. LoneGoesOn(w, Idle)
  BY <1>1 DEF LoneGoesOn, AcceptedStay, OnChat
<1> QED BY <1>2, LoneIsKept, IdleIsGood

\* A call goes on, and relies on no more than before, or is disturbed.
LEMMA LoneCallAdvances ==
  ASSUME HandshakeInv, LoneInv, UNCHANGED <<status, mguid, signal, origin>>, disturbed \subseteq disturbed',
         NEW w \in Workers, NEW v \in WorkRows, work' = [work EXCEPT ![w] = v],
         work[w].pc \notin {"idle", "inviting"}, v.req = work[w].req,
         Making(work[w]) => Making(v),
         KeyOf(v.req) \notin disturbed' =>
           Lone(v, KeyOf(v.req), status, signal, origin)
  PROVE  LoneInv'
<1>1. RowsGoOn
  BY DEF RowsGoOn
<1>2. /\ v.req \in Requests /\ status[v.req] # "none" /\ KeyOf(v.req) \in Keys
      /\ OnChat(w, KeyOf(v.req))
  BY CallsAreKnown, KeysAreKeys DEF OnChat, TA, GC
<1>3. KeyOf(v.req) \notin disturbed => \A u \in Workers : OnChat(u, KeyOf(v.req)) => u = w
  BY <1>2 DEF LoneInv
<1>4. LoneGoesOn(w, v)
  BY <1>2, <1>3 DEF LoneGoesOn
<1> QED BY <1>1, <1>4, LoneIsKept

\* What a call that goes on relies on already.
LEMMA LoneCallRelies ==
  ASSUME HandshakeInv, LoneInv, NEW w \in Workers, work[w].pc \notin {"idle", "inviting"},
         KeyOf(work[w].req) \notin disturbed
  PROVE  Lone(work[w], KeyOf(work[w].req), status, signal, origin)
BY KeysAreKeys, CallsAreKnown DEF LoneInv, OnChat
------------------------------------------------------------------------------
(* The steps around the calls.                                              *)

LEMMA PairStays ==
  ASSUME HandshakeInv, PairInv, [Next]_vars
  PROVE  PairInv'
<1>1. CASE signal' = signal
  BY <1>1 DEF PairInv
<1>2. CASE FindMatch
  <2>1. signal' = [r \in Requests |-> signal[r]]
    BY <1>2 DEF FindMatch, CreateRequests
  <2> QED BY <2>1 DEF PairInv
<1>3. CASE FindMultiMatches
  <2>1. PICK R \in Batches : /\ Cardinality(R) > 1
                             /\ signal' = [r \in Requests |-> IF r \in R THEN R ELSE signal[r]]
    BY <1>3 DEF FindMultiMatches, CreateRequests
  <2>2. ASSUME NEW r PROVE R # {r}
    <3>1. Cardinality({r}) = 1
      BY FS_Singleton
    <3> QED BY <2>1, <3>1
  <2> QED BY <2>1, <2>2 DEF PairInv
<1>4. ASSUME NEW r \in Requests, NEW c \in Chats, ExpandGroupChat(r, c)
      PROVE  PairInv'
  <2> DEFINE E == {signal[q] : q \in {q \in Requests : guid[q] = c}} \ {NoSignal}
  <2>1. PICK s \in IF E = {} THEN {NoSignal} ELSE E : signal' = [signal EXCEPT ![r] = s]
    BY <1>4 DEF ExpandGroupChat
  <2>2. \A q \in Requests : s # {q}
    BY <2>1 DEF PairInv, NoSignal
  <2> QED BY <2>1, <2>2 DEF PairInv, HandshakeInv, TypeOK
<1>5. ASSUME NEW r \in Requests,
             \/ \E tool \in {"cancel", "different"} : InitiatorCancels(r, tool)
             \/ TargetDeclines(r)
             \/ \E w \in Workers : InitiatorConfirms(w, r) \/ SaysYes(w, r) \/ SaidYes(w, r)
      PROVE  signal' = signal
  BY <1>5, YesAccepts DEF InitiatorCancels, TargetDeclines, InitiatorConfirms, TargetAccepts, db
<1>6. ASSUME NEW w \in Workers, Step(w)
      PROVE  signal' = signal
  BY <1>6 DEF Step, CheckReady, StartCreate, Refresh, Gather, PhotonCreates, RecordChat, PhotonAdds,
              Announce, Mark, db
<1>7. ASSUME NEW w \in Workers,
             SendInvitation(w) \/ PhotonCreates(w, TRUE) \/ CallFails(w) \/ Crash(w) \/ Redeliver(w)
      PROVE  signal' = signal
  BY <1>7 DEF SendInvitation, PhotonCreates, CallFails, Crash, Redeliver, db
<1>8. CASE UNCHANGED vars
  BY <1>1, <1>8 DEF vars, db
<1> QED BY <1>1, <1>2, <1>3, <1>4, <1>5, <1>6, <1>7, <1>8 DEF Next

\* Requests are created and answered, and nobody is at work on them yet.
LEMMA LoneThroughAnswers ==
  ASSUME HandshakeInv, LoneInv,
         \/ FindMatch \/ FindMultiMatches
         \/ \E r \in Requests, c \in Chats : ExpandGroupChat(r, c)
         \/ \E r \in Requests, t \in {"cancel", "different"} : InitiatorCancels(r, t)
         \/ \E r \in Requests : TargetDeclines(r)
  PROVE  LoneInv'
<1>1. work' = work /\ UNCHANGED <<mguid, origin, disturbed>>
  BY DEF FindMatch, FindMultiMatches, CreateRequests, ExpandGroupChat, InitiatorCancels,
         TargetDeclines, db, photon, mishaps
<1>2. ASSUME NEW q \in Requests
      PROVE  /\ status[q] # "none" => signal'[q] = signal[q]
             /\ status[q] = GC => status'[q] = GC
             /\ status[q] = TA => status'[q] = TA
  <2>1. CASE FindMatch \/ FindMultiMatches
    <3>1. PICK R \in Batches, multi \in BOOLEAN : CreateRequests(R, multi)
      BY <2>1, SearchFinds
    <3> QED BY <3>1, HandshakeAssumption DEF CreateRequests, HandshakeAssumption, GC, TA
  <2>2. ASSUME NEW r \in Requests, NEW c \in Chats, ExpandGroupChat(r, c)
        PROVE  /\ status[q] # "none" => signal'[q] = signal[q]
               /\ status[q] = GC => status'[q] = GC
               /\ status[q] = TA => status'[q] = TA
    <3>1. status[r] = "none" /\ status' = [status EXCEPT ![r] = PI]
      BY <2>2 DEF ExpandGroupChat, SetStatus
    <3>2. \E s : signal' = [signal EXCEPT ![r] = s]
      BY <2>2 DEF ExpandGroupChat
    <3> QED BY <3>1, <3>2 DEF HandshakeInv, TypeOK, GC, TA
  <2>3. CASE \E r \in Requests, t \in {"cancel", "different"} : InitiatorCancels(r, t)
    BY <2>3 DEF InitiatorCancels, CanMove, SetStatus, HandshakeInv, TypeOK, PI, GC, TA
  <2>4. CASE \E r \in Requests : TargetDeclines(r)
    BY <2>4 DEF TargetDeclines, CanMove, SetStatus, HandshakeInv, TypeOK, PT, GC, TA, db
  <2> QED BY <2>1, <2>2, <2>3, <2>4
<1>3. RowsGoOn /\ AcceptedStay
  BY <1>1, <1>2 DEF RowsGoOn, AcceptedStay
<1> QED BY <1>1, <1>3, LoneIsKept

LEMMA LoneThroughConfirmation ==
  ASSUME HandshakeInv, LoneInv, NEW w \in Workers, NEW r \in Requests, InitiatorConfirms(w, r)
  PROVE  LoneInv'
<1> DEFINE v == [Idle EXCEPT !.pc = "inviting", !.req = r]
<1>1. v \in WorkRows
  BY IdleIsGood, Zenon DEF WorkRows, Pcs
<1>2. v.pc = "inviting"
  BY DEF Idle
<1>3. /\ work[w] = Idle /\ work' = [work EXCEPT ![w] = v] /\ UNCHANGED <<mguid, signal, origin, disturbed>>
      /\ status[r] = PI /\ status' = [status EXCEPT ![r] = PT]
  BY DEF InitiatorConfirms, CanMove, SetStatus, photon, mishaps
<1>4. RowsGoOn /\ AcceptedStay
  BY <1>3 DEF RowsGoOn, AcceptedStay, HandshakeInv, TypeOK, PI, GC, TA
<1>5. ~Making(work[w])
  BY <1>3 DEF Idle, Making
<1>6. LoneGoesOn(w, v)
  <2> HIDE DEF v
  <2> QED BY <1>2, <1>3, <1>4, <1>5 DEF LoneGoesOn, AcceptedStay
<1> QED BY <1>1, <1>4, <1>6, LoneIsKept

LEMMA LoneThroughFaults ==
  ASSUME HandshakeInv, LoneInv, NEW w \in Workers,
         SendInvitation(w) \/ CallFails(w) \/ Crash(w) \/ Redeliver(w)
  PROVE  LoneInv'
<1>1. /\ UNCHANGED <<status, mguid, signal, origin>> /\ disturbed \subseteq disturbed'
      /\ work' = work \/ work' = [work EXCEPT ![w] = Idle]
      /\ work' = work \/ (Making(work[w]) => KeyOf(work[w].req) \in disturbed')
  BY DEF SendInvitation, CallFails, Crash, Redeliver, db, photon, Making
<1>2. RowsGoOn /\ AcceptedStay
  BY <1>1 DEF RowsGoOn, AcceptedStay
<1> QED BY <1>1, <1>2, LoneIsKept, LoneCallEnds
------------------------------------------------------------------------------
(* The calls.                                                                *)

\* A chat of k that no call is to mark is named.
LEMMA LoneFindsChat ==
  ASSUME HandshakeInv, LoneInv, NEW w \in Workers, NEW k \in Keys \ disturbed, OnChat(w, k),
         ~Making(work[w]), NEW c \in Chats, origin[c] = k
  PROVE  Named(k)
BY DEF LoneInv

\* The aggregate over its signal group shows it.
LEMMA LoneSeesChat ==
  ASSUME HandshakeInv, LoneInv, PairInv, NEW w \in Workers, NEW s \in Keys \ disturbed,
         OnChat(w, s), ~Making(work[w]), s # NoSignal, NEW r \in Requests, signal[r] = s,
         ChatOf(s, NoChat), NEW d \in Chats, origin[d] = s
  PROVE  FALSE
<1>1. PICK q \in Requests : KeyOf(q) = s /\ IF signal[q] = NoSignal THEN status[q] = GC ELSE mguid[q] # NoChat
  BY LoneFindsChat DEF Named
<1>2. signal[q] = s /\ mguid[q] # NoChat
  BY <1>1 DEF PairInv, KeyOf
<1>3. {mguid[p] : p \in {p \in Requests : signal[p] = s}} \ {NoChat} = {}
  BY DEF ChatOf
<1> QED BY <1>2, <1>3

LEMMA LoneThroughCheck ==
  ASSUME HandshakeInv, LoneInv, PairInv, NEW w \in Workers, CheckReady(w)
  PROVE  LoneInv'
<1> DEFINE o == work[w]
           s == signal[o.req]
<1>1. /\ o.pc = "checking" /\ UNCHANGED <<status, mguid, signal, origin, disturbed>>
  BY DEF CheckReady, db, photon
<1>2. \/ work' = [work EXCEPT ![w] = Idle]
      \/ \E c \in Chats \union {NoChat} :
           /\ ChatOf(s, c)
           /\ work' = [work EXCEPT ![w] = [o EXCEPT !.pc = "creating", !.ids = AcceptedOf(s), !.chat = c]]
  <2>1. CASE \E c \in Chats \union {NoChat} :
               /\ ChatOf(s, c)
               /\ work' = [work EXCEPT ![w] =
                    IF Ready(s) \/ c # NoChat
                    THEN [o EXCEPT !.pc = "creating", !.ids = AcceptedOf(s), !.chat = c]
                    ELSE Idle]
    BY <2>1
  <2> QED BY <2>1 DEF CheckReady
<1>3. /\ o \in WorkRows /\ o.req \in Requests /\ s # NoSignal /\ KeyOf(o.req) = s
      /\ s \in Keys /\ OnChat(w, s) /\ ~Making(o)
  BY <1>1, CallsAreKnown, KeysAreKeys DEF GoodWork, KeyOf, OnChat, Making
<1>4. AcceptedOf(s) \subseteq Requests /\ \A q \in AcceptedOf(s) : status[q] = TA
  BY DEF AcceptedOf
<1>5. RowsGoOn /\ AcceptedStay
  BY <1>1 DEF RowsGoOn, AcceptedStay
<1>6. CASE work' = [work EXCEPT ![w] = Idle]
  BY <1>3, <1>5, <1>6, LoneCallEnds
<1>7. ASSUME NEW c \in Chats \union {NoChat}, ChatOf(s, c),
             work' = [work EXCEPT ![w] = [o EXCEPT !.pc = "creating", !.ids = AcceptedOf(s), !.chat = c]]
      PROVE  LoneInv'
  <2> DEFINE n == [o EXCEPT !.pc = "creating", !.ids = AcceptedOf(s), !.chat = c]
  <2>1. /\ n.pc = "creating" /\ n.req = o.req /\ n.ids = AcceptedOf(s) /\ n.chat = c /\ n.how = o.how
        /\ n \in WorkRows
    BY <1>3, <1>4 DEF WorkRows, Pcs
  <2>2. ASSUME s \notin disturbed, c = NoChat, NEW d \in Chats, origin[d] = s
        PROVE  FALSE
    BY <1>3, <1>7, <2>2, LoneSeesChat
  <2>3. s \notin disturbed => Lone(n, s, status, signal, origin)
    <3>1. s \notin disturbed => Lone(o, s, status, signal, origin)
      BY <1>1, <1>3, LoneCallRelies
    <3> HIDE DEF n
    <3> QED BY <1>1, <1>4, <2>1, <2>2, <3>1 DEF Lone, Making
  <2>4. work' = [work EXCEPT ![w] = n]
    BY <1>7
  <2> HIDE DEF n
  <2> QED BY <1>1, <1>3, <2>1, <2>3, <2>4, LoneCallAdvances
<1> QED BY <1>2, <1>6, <1>7

\* Where a call for a signal group goes on.
LEMMA LoneRoute ==
  ASSUME HandshakeInv, LoneInv, NEW w \in Workers, NEW ids \in SUBSET Requests,
         NEW c \in Chats \union {NoChat}, UNCHANGED <<status, mguid, signal, origin>>,
         disturbed \subseteq disturbed',
         work[w].pc \in {"creating", "refreshing"},
         work' = [work EXCEPT ![w] = Route(work[w], ids, c)],
         KeyOf(work[w].req) \notin disturbed' /\ c = NoChat =>
           /\ \A q \in ids : status[q] = TA
           /\ \A d \in Chats : origin[d] # KeyOf(work[w].req)
  PROVE  LoneInv'
<1> DEFINE v == work[w]
           k == KeyOf(v.req)
<1>1. v \in WorkRows /\ v.req \in Requests /\ ~Making(v) /\ v.pc \notin {"idle", "inviting", "marking"}
  BY CallsAreKnown DEF Making
<1>2. k \notin disturbed' => status[v.req] = TA
  BY <1>1, LoneCallRelies DEF Lone
<1>3. CASE c # NoChat
  <2> DEFINE n == [v EXCEPT !.pc = "adding", !.how = "late", !.chat = c]
  <2>1. n \in WorkRows
    BY <1>1, Zenon DEF WorkRows, Pcs, Hows
  <2>2. n.pc = "adding" /\ n.req = v.req
    BY <1>1 DEF WorkRows
  <2>3. work' = [work EXCEPT ![w] = n]
    BY <1>3 DEF Route
  <2>4. k \notin disturbed' => Lone(n, k, status, signal, origin)
    <3> HIDE DEF n, k
    <3> QED BY <1>2, <2>2 DEF Lone, Making
  <2> HIDE DEF n
  <2> QED BY <1>1, <2>1, <2>2, <2>3, <2>4, LoneCallAdvances
<1>4. CASE c = NoChat
  <2> DEFINE n == [v EXCEPT !.pc = "gathering", !.how = "multi", !.ids = ids \union {v.req}]
  <2>1. ids \union {v.req} \in SUBSET Requests
    BY <1>1
  <2>2. n \in WorkRows
    BY <1>1, <2>1, Zenon DEF WorkRows, Pcs, Hows
  <2>3. n.pc = "gathering" /\ n.req = v.req /\ n.ids = ids \union {v.req}
    BY <1>1 DEF WorkRows
  <2>4. work' = [work EXCEPT ![w] = n]
    BY <1>4 DEF Route
  <2>5. k \notin disturbed' => Lone(n, k, status, signal, origin)
    <3> HIDE DEF n
    <3> QED BY <1>2, <1>4, <2>3 DEF Lone, Making
  <2> HIDE DEF n
  <2> QED BY <1>1, <2>2, <2>3, <2>4, <2>5, LoneCallAdvances
<1> QED BY <1>3, <1>4

LEMMA LoneThroughRefresh ==
  ASSUME HandshakeInv, LoneInv, PairInv, NEW w \in Workers, Refresh(w)
  PROVE  LoneInv'
<1> DEFINE o == work[w]
           s == signal[o.req]
<1>1. o.pc = "refreshing" /\ UNCHANGED <<status, mguid, signal, origin>>
  BY DEF Refresh, db, photon
<1>2. /\ o.req \in Requests /\ s # NoSignal /\ KeyOf(o.req) = s
      /\ s \in Keys /\ OnChat(w, s) /\ ~Making(o)
  BY <1>1, CallsAreKnown, KeysAreKeys DEF GoodWork, KeyOf, OnChat, Making, NoSignal
<1>3. AcceptedOf(s) \in SUBSET Requests /\ \A q \in AcceptedOf(s) : status[q] = TA
  BY DEF AcceptedOf
<1>4. ASSUME NEW c \in Chats \union {NoChat}, ChatOf(s, c), disturbed' = disturbed,
             work' = [work EXCEPT ![w] = Route(o, AcceptedOf(s), c)]
      PROVE  LoneInv'
  <2>1. ASSUME s \notin disturbed, c = NoChat, NEW d \in Chats, origin[d] = s
        PROVE  FALSE
    BY <1>2, <1>4, <2>1, LoneSeesChat
  <2> QED BY <1>1, <1>2, <1>3, <1>4, <2>1, LoneRoute
<1>5. CASE disturbed' = disturbed \union {s} /\ work' = [work EXCEPT ![w] = Route(o, {}, NoChat)]
  <2>1. {} \in SUBSET Requests /\ NoChat \in Chats \union {NoChat}
    OBVIOUS
  <2> QED BY <1>1, <1>2, <1>5, <2>1, LoneRoute
<1> QED BY <1>4, <1>5 DEF Refresh

\* A call that missed the chat of its pair is disturbed.
LEMMA LoneMissesPair ==
  ASSUME HandshakeInv, LoneInv, NEW w \in Workers, work[w].pc = "creating", PairMissed(work[w]),
         UNCHANGED <<status, mguid, signal, origin>>, work' = [work EXCEPT ![w] = NewPair(work[w])]
  PROVE  LoneInv'
<1>1. PICK n : n = NewPair(work[w])
  OBVIOUS
<1>2. /\ n \in WorkRows /\ n.req = work[w].req
      /\ disturbed' = disturbed \union {KeyOf(work[w].req)}
  <2>1. n \in WorkRows
    BY <1>1, ReaderIsGood, PairIsGood DEF PairMissed
  <2>2. n.req = work[w].req
    BY <1>1, ReaderIsGood DEF NewPair, WorkRows
  <2> QED BY <2>1, <2>2 DEF PairMissed
<1>3. ~Making(work[w])
  BY DEF Making
<1> QED BY <1>1, <1>2, <1>3, LoneCallAdvances

LEMMA LoneThroughStart ==
  ASSUME HandshakeInv, LoneInv, PairInv, NEW w \in Workers, NEW tool \in {"dm", "group"},
         StartCreate(w, tool)
  PROVE  LoneInv'
<1> DEFINE v == work[w]
           r == v.req
           k == KeyOf(r)
<1>1. /\ v.pc = "creating" /\ UNCHANGED <<status, mguid, signal, origin>>
      /\ disturbed \subseteq disturbed'
  BY DEF StartCreate, PairMissed, db, photon
<1> SUFFICES ASSUME ~(PairMissed(v) /\ work' = [work EXCEPT ![w] = NewPair(v)])
             PROVE  LoneInv'
  BY <1>1, LoneMissesPair
<1>2. PICK x :
        /\ x \in IF guid[r] # NoChat THEN {CarriedChat(v, tool)}
                 ELSE IF signal[r] = NoSignal THEN SingleMatch(v)
                 ELSE IF v.how = Fresh THEN {[v EXCEPT !.pc = "refreshing"]}
                 ELSE {Route(v, v.ids, v.chat)}
        /\ work' = [work EXCEPT ![w] = x]
  BY DEF StartCreate
<1>3. /\ v \in WorkRows /\ r \in Requests /\ v.ids \in SUBSET Requests /\ v.chat \in Chats \union {NoChat}
      /\ k \in Keys /\ OnChat(w, k) /\ ~Making(v)
  BY <1>1, CallsAreKnown, KeysAreKeys DEF OnChat, Making, WorkRows
<1>4. x \in WorkRows
  BY <1>1, <1>2, StartIsGood
<1>5. RowsGoOn /\ AcceptedStay
  BY <1>1 DEF RowsGoOn, AcceptedStay
<1>6. k \notin disturbed => Lone(v, k, status, signal, origin) /\ status[r] = TA
  BY <1>1, LoneCallRelies DEF Lone
<1>7. CASE x.pc \in {"adding", "refreshing"} /\ x.req = r
  <2>1. k \notin disturbed => Lone(x, k, status, signal, origin)
    BY <1>6, <1>7 DEF Lone, Making
  <2> QED BY <1>1, <1>2, <1>3, <1>4, <1>7, <2>1, LoneCallAdvances
<1>8. CASE x = Idle
  BY <1>2, <1>3, <1>5, <1>8, LoneCallEnds
<1>9. CASE guid[r] # NoChat
  <2>1. x = CarriedChat(v, tool)
    BY <1>2, <1>9
  <2>2. x = Idle \/ (x.pc = "adding" /\ x.req = r)
    BY <1>3, <2>1 DEF CarriedChat, WorkRows
  <2> QED BY <1>7, <1>8, <2>2
<1>10. CASE guid[r] = NoChat /\ signal[r] = NoSignal
  <2>1. x \in SingleMatch(v)
    BY <1>2, <1>10
  <2>2. CASE SharedChats(r) # {}
    <3>1. PICK c \in SharedChats(r) : x = [v EXCEPT !.pc = "adding", !.how = "existing", !.chat = c]
      BY <2>1, <2>2 DEF SingleMatch
    <3>2. x.pc = "adding" /\ x.req = r
      BY <1>3, <3>1 DEF WorkRows
    <3> QED BY <1>7, <3>2
  <2>3. CASE SharedChats(r) = {}
    <3>1. x = [v EXCEPT !.pc = "gathering", !.how = "single", !.ids = {r}]
      BY <2>1, <2>3 DEF SingleMatch, NewPair
    <3>2. x.pc = "gathering" /\ x.req = r /\ x.ids = {r}
      BY <1>3, <3>1 DEF WorkRows
    <3>3. k = {r}
      BY <1>10 DEF KeyOf
    <3>4. ASSUME k \notin disturbed, NEW c \in Chats, origin[c] = k
          PROVE  FALSE
      <4>1. PICK q \in Requests : KeyOf(q) = k /\ IF signal[q] = NoSignal THEN status[q] = GC ELSE mguid[q] # NoChat
        BY <1>3, <3>4, LoneFindsChat DEF Named
      <4>2. signal[q] = NoSignal /\ q = r
        BY <1>3, <3>3, <4>1 DEF PairInv, KeyOf
      <4> QED BY <1>6, <3>4, <4>1, <4>2 DEF TA, GC
    <3>5. k \notin disturbed => Lone(x, k, status, signal, origin)
      BY <1>6, <3>2, <3>4 DEF Lone, Making
    <3> QED BY <1>1, <1>2, <1>3, <1>4, <3>2, <3>5, LoneCallAdvances
  <2> QED BY <2>2, <2>3
<1>11. CASE guid[r] = NoChat /\ signal[r] # NoSignal
  <2>1. CASE v.how = Fresh
    <3>1. x = [v EXCEPT !.pc = "refreshing"]
      BY <1>2, <1>11, <2>1
    <3>2. x.pc = "refreshing" /\ x.req = r
      BY <1>3, <3>1 DEF WorkRows
    <3> QED BY <1>7, <3>2
  <2>2. CASE v.how # Fresh
    <3>1. x = Route(v, v.ids, v.chat)
      BY <1>2, <1>11, <2>2
    <3>2. k \notin disturbed' /\ v.chat = NoChat =>
            /\ \A q \in v.ids : status[q] = TA
            /\ \A d \in Chats : origin[d] # k
      <4>1. k \notin disturbed' => Lone(v, k, status, signal, origin)
        BY <1>1, <1>6
      <4> HIDE DEF k
      <4> QED BY <1>1, <1>11, <2>2, <4>1 DEF Lone
    <3>3. work' = [work EXCEPT ![w] = Route(v, v.ids, v.chat)] /\ v.pc \in {"creating", "refreshing"}
      BY <1>1, <1>2, <3>1
    <3> QED BY <1>1, <1>3, <3>2, <3>3, LoneRoute
  <2> QED BY <2>1, <2>2
<1> QED BY <1>9, <1>10, <1>11

\* Reading the people of a chat and recording them, adding one and announcing it.
LEMMA LoneThroughCalls ==
  ASSUME HandshakeInv, LoneInv, NEW w \in Workers,
         Gather(w) \/ RecordChat(w) \/ PhotonAdds(w) \/ Announce(w), HandshakeInv'
  PROVE  LoneInv'
<1> DEFINE v == work[w]
           n == work'[w]
           k == KeyOf(v.req)
<1>1. /\ UNCHANGED <<status, mguid, signal, origin, disturbed>>
      /\ v.pc \in {"gathering", "recording", "adding", "announcing"}
  BY DEF Gather, RecordChat, PhotonAdds, Announce, db, photon, mishaps
<1>2. v \in WorkRows /\ GoodWork(v, status, signal, members, via, origin, short)
  BY CallsAreKnown
<1>3. n \in WorkRows
  BY DEF HandshakeInv, WorkInv
<1>4. work \in [Workers -> WorkRows]
  BY DEF HandshakeInv, WorkInv
<1>5. /\ work' = [work EXCEPT ![w] = n]
      /\ n.req = v.req /\ n.how = v.how
      /\ v.pc = "gathering" => n.pc = "opening" /\ n.ids = v.ids
      /\ v.pc = "recording" => n.pc \in {"recording", "marking"} /\ n.ids = v.ids
      /\ v.pc = "adding" => n.pc = "announcing"
      /\ v.pc = "announcing" => n.pc = "marking"
  <2>1. CASE RecordChat(w)
    <3>1. v.pc = "recording"
      BY <2>1 DEF RecordChat
    <3>2. PICK rest \in SUBSET v.who : work' = [work EXCEPT ![w] = Recorded(v, rest)]
      <4>1. {} \in SUBSET v.who /\ \A u : v.who \ {u} \in SUBSET v.who
        OBVIOUS
      <4> QED BY <2>1, <4>1, Zenon DEF RecordChat
    <3>3. n = Recorded(v, rest)
      BY <1>4, <3>2
    <3> HIDE DEF n
    <3> QED BY <1>2, <3>1, <3>2, <3>3, RecordedIsGood
  <2>4. CASE Gather(w)
    <3>1. PICK who \in SUBSET Gathered(v.ids) :
            v.pc = "gathering" /\ work' = [work EXCEPT ![w] = [v EXCEPT !.pc = "opening", !.who = who]]
      BY <2>4 DEF Gather
    <3>2. n = [v EXCEPT !.pc = "opening", !.who = who]
      BY <1>4, <3>1
    <3>3. n.pc = "opening" /\ n.req = v.req /\ n.ids = v.ids /\ n.how = v.how
      BY <1>2, <3>2 DEF WorkRows
    <3> HIDE DEF n
    <3> QED BY <3>1, <3>2, <3>3
  <2>2. CASE PhotonAdds(w)
    BY <1>2, <1>4, <2>2 DEF PhotonAdds, WorkRows
  <2>3. CASE Announce(w)
    BY <1>2, <1>4, <2>3 DEF Announce, WorkRows
  <2> QED BY <2>1, <2>2, <2>3, <2>4
<1>6. Making(v) => Making(n)
  BY <1>1, <1>5 DEF Making
<1>7. k \notin disturbed => Lone(v, k, status, signal, origin)
  BY <1>1, LoneCallRelies
<1>8. v.pc \in {"adding", "announcing"} => v.how \in {"late", "expand", "existing"}
  BY <1>2 DEF GoodWork
<1>9. k \notin disturbed => Lone(n, k, status, signal, origin)
  BY <1>1, <1>5, <1>7, <1>8 DEF Lone, Making
<1> HIDE DEF n
<1> QED BY <1>1, <1>3, <1>5, <1>6, <1>9, LoneCallAdvances

LEMMA LoneThroughAcceptance ==
  ASSUME HandshakeInv, LoneInv, NEW w \in Workers, NEW r \in Requests, TargetAccepts(w, r)
  PROVE  LoneInv'
<1> DEFINE k == KeyOf(r)
<1>1. /\ work[w] = Idle
      /\ disturbed' = IF Busy(k) THEN disturbed \union {k} ELSE disturbed
      /\ UNCHANGED <<mguid, signal, origin>>
  BY DEF TargetAccepts, photon
<1>2. k \in Keys /\ ~Making(work[w])
  BY <1>1, KeysAreKeys DEF Making, Idle
<1>3. k \notin disturbed' => \A u \in Workers : ~OnChat(u, k)
  BY <1>1 DEF Busy, OnChat
<1>4. CASE /\ CanMove(r, PT, TA) /\ SetStatus(r, TA)
           /\ work' = [work EXCEPT ![w] =
                [Idle EXCEPT !.req = r,
                   !.pc = IF signal[r] = NoSignal THEN "creating" ELSE "checking"]]
  <2> DEFINE pc == IF signal[r] = NoSignal THEN "creating" ELSE "checking"
             v  == [Idle EXCEPT !.req = r, !.pc = pc]
  <2>1. pc \in {"creating", "checking"} /\ pc \in Pcs /\ (pc = "checking" <=> signal[r] # NoSignal)
    BY DEF Pcs
  <2>2. v \in WorkRows
    BY <2>1, IdleIsGood, Zenon DEF WorkRows
  <2>3. v.pc = pc /\ v.req = r /\ v.ids = {}
    BY DEF Idle
  <2>4. status[r] = PT /\ status' = [status EXCEPT ![r] = TA]
    BY <1>4 DEF CanMove, SetStatus
  <2>5. status'[r] = TA /\ RowsGoOn /\ AcceptedStay
    BY <1>1, <2>4 DEF RowsGoOn, AcceptedStay, HandshakeInv, TypeOK, PT, GC, TA
  <2>6. Lone(v, k, status', signal', origin')
    <3> HIDE DEF v, k, pc
    <3> QED BY <1>1, <2>1, <2>3, <2>5 DEF Lone, Making
  <2>7. LoneGoesOn(w, v)
    <3> HIDE DEF v
    <3> QED BY <1>2, <1>3, <1>4, <2>3, <2>4, <2>5, <2>6 DEF LoneGoesOn, AcceptedStay, v, PT
  <2> QED BY <2>2, <2>5, <2>7, LoneIsKept
<1>5. CASE /\ status[r] = TA
           /\ work' = [work EXCEPT ![w] = [Idle EXCEPT !.pc = "creating", !.req = r, !.how = Fresh]]
           /\ UNCHANGED status
  <2> DEFINE v == [Idle EXCEPT !.pc = "creating", !.req = r, !.how = Fresh]
  <2>1. v \in WorkRows
    BY IdleIsGood, Zenon DEF WorkRows, Pcs, Hows
  <2>2. v.pc = "creating" /\ v.req = r /\ v.ids = {} /\ v.how = Fresh
    BY DEF Idle
  <2>3. RowsGoOn /\ AcceptedStay
    BY <1>1, <1>5 DEF RowsGoOn, AcceptedStay
  <2>4. Lone(v, k, status', signal', origin')
    <3> HIDE DEF v, k
    <3> QED BY <1>5, <2>2 DEF Lone, Making
  <2>5. LoneGoesOn(w, v)
    <3> HIDE DEF v
    <3> QED BY <1>2, <1>3, <1>5, <2>2, <2>3, <2>4 DEF LoneGoesOn, AcceptedStay, v, TA
  <2> QED BY <2>1, <2>3, <2>5, LoneIsKept
<1>6. CASE UNCHANGED <<status, work>>
  BY <1>1, <1>6, LoneIsKept DEF RowsGoOn, AcceptedStay
<1> QED BY <1>4, <1>5, <1>6 DEF TargetAccepts

\* Marking introduces requests of the call's own key; once the first one is
\* marked the chat is named.
LEMMA LoneThroughMark ==
  ASSUME HandshakeInv, LoneInv, NEW w \in Workers, Mark(w)
  PROVE  LoneInv'
<1> DEFINE v == work[w]
<1>0. PICK k : k = KeyOf(v.req)
  OBVIOUS
<1>1. v.pc = "marking" /\ UNCHANGED <<signal, origin, disturbed>>
  BY DEF Mark, photon, mishaps
<1>2. PICK r \in v.ids :
        IF v.how # "existing" /\ CanMove(r, TA, GC)
        THEN /\ SetStatus(r, GC)
             /\ mguid' = IF v.how \in {"multi", "late"} THEN [mguid EXCEPT ![r] = v.chat] ELSE mguid
             /\ work' = [work EXCEPT ![w] = IF v.ids = {r} THEN Idle ELSE [v EXCEPT !.ids = @ \ {r}]]
        ELSE /\ work' = [work EXCEPT ![w] = Idle]
             /\ UNCHANGED <<status, mguid>>
  BY DEF Mark
<1>3. /\ v \in WorkRows /\ v.req \in Requests /\ v.ids \in SUBSET Requests /\ v.chat \in Chats
      /\ v.chat # NoChat /\ GoodHow(v, signal) /\ GoodIds(v, signal)
      /\ status[v.req] # "none"
  BY <1>1, CallsAreKnown DEF GoodWork, WorkRows, TA, GC
<1>4. k \in Keys /\ OnChat(w, k) /\ KeyOf(r) = k
  BY <1>0, <1>1, <1>3, KeysAreKeys, CallsHaveOneKey DEF OnChat
<1>5. k \notin disturbed => /\ Lone(v, k, status, signal, origin)
                            /\ \A u \in Workers : OnChat(u, k) => u = w
  BY <1>0, <1>1, <1>4, LoneCallRelies DEF LoneInv
<1>6. CASE work' = [work EXCEPT ![w] = Idle] /\ UNCHANGED <<status, mguid>>
           /\ ~(v.how # "existing" /\ CanMove(r, TA, GC))
  <2>1. RowsGoOn /\ AcceptedStay
    BY <1>1, <1>6 DEF RowsGoOn, AcceptedStay
  <2>2. Making(v) => k \in disturbed'
    BY <1>0, <1>1, <1>5, <1>6 DEF Making, Lone, CanMove, ValidStatusTransitions
  <2> QED BY <1>0, <1>6, <2>1, <2>2, LoneCallEnds
<1>7. CASE /\ v.how # "existing" /\ CanMove(r, TA, GC) /\ SetStatus(r, GC)
           /\ mguid' = IF v.how \in {"multi", "late"} THEN [mguid EXCEPT ![r] = v.chat] ELSE mguid
           /\ work' = [work EXCEPT ![w] = IF v.ids = {r} THEN Idle ELSE [v EXCEPT !.ids = @ \ {r}]]
  <2>1. /\ r \in Requests /\ status[r] = TA
        /\ \A q \in Requests : status'[q] = IF q = r THEN GC ELSE status[q]
        /\ \A q \in Requests : mguid[q] # NoChat => mguid'[q] # NoChat
        /\ v.how \in {"multi", "late"} => mguid'[r] = v.chat
    BY <1>3, <1>7 DEF CanMove, SetStatus, HandshakeInv, TypeOK
  <2>2. RowsGoOn
    BY <1>1, <2>1 DEF RowsGoOn
  <2>3. \A q \in Requests : status[q] = TA => status'[q] = TA \/ OnChat(w, KeyOf(q))
    BY <1>4, <2>1
  <2>4. Making(v) => Named(k)'
    <3> SUFFICES ASSUME Making(v) PROVE Named(k)'
      OBVIOUS
    <3>1. KeyOf(r)' = k
      BY <1>1, <1>4 DEF KeyOf
    <3>2. v.how = "single" => signal'[r] = NoSignal /\ status'[r] = GC
      BY <1>1, <1>3, <2>1 DEF GoodHow, GoodIds
    <3>3. v.how = "multi" => signal'[r] # NoSignal /\ mguid'[r] # NoChat
      BY <1>1, <1>3, <2>1 DEF GoodIds, NoSignal
    <3> QED BY <2>1, <3>1, <3>2, <3>3 DEF Named, Making
  <2>5. CASE v.ids = {r}
    <3>1. LoneGoesOn(w, Idle)
      BY <1>0, <1>4, <1>7, <2>3, <2>4, <2>5 DEF LoneGoesOn, OnChat, Idle
    <3> QED BY <2>2, <3>1, LoneIsKept, IdleIsGood
  <2>6. CASE v.ids # {r}
    <3> DEFINE n == [v EXCEPT !.ids = @ \ {r}]
    <3>1. /\ n \in WorkRows
          /\ n.pc = v.pc /\ n.req = v.req /\ n.ids = v.ids \ {r} /\ n.how = v.how
      BY <1>3 DEF WorkRows
    <3>2. k \notin disturbed' => Lone(n, k, status', signal', origin')
      <4> HIDE DEF n
      <4> QED BY <1>1, <1>3, <1>5, <2>1, <3>1 DEF Lone, Making
    <3>3. LoneGoesOn(w, n)
      <4>1. work' = [work EXCEPT ![w] = n]
        BY <1>7, <2>6
      <4> HIDE DEF n
      <4>2. n.req \in Requests /\ status[n.req] # "none" /\ KeyOf(n.req) = k
        BY <1>0, <1>3, <3>1
      <4>3. k \notin disturbed' => \A u \in Workers : OnChat(u, k) => u = w
        BY <1>1, <1>5
      <4>4. \A j \in Keys : OnChat(w, j) /\ Making(work[w]) => Named(j)'
        BY <1>0, <2>4 DEF OnChat
      <4> QED BY <2>3, <3>2, <4>1, <4>2, <4>3, <4>4 DEF LoneGoesOn
    <3> QED BY <2>2, <3>1, <3>3, LoneIsKept
  <2> QED BY <2>5, <2>6
<1> QED BY <1>2, <1>6, <1>7

\* A chat is made where there was none.
LEMMA LoneThroughCreation ==
  ASSUME HandshakeInv, LoneInv, NEW w \in Workers, NEW lost \in BOOLEAN, PhotonCreates(w, lost)
  PROVE  LoneInv'
<1> DEFINE v == work[w]
           c == CHOOSE c \in Chats : origin[c] = {}
<1>0. PICK k0 : k0 = KeyOf(v.req)
  OBVIOUS
<1>1. /\ v.pc = "opening" /\ c \in Chats /\ origin[c] = {}
      /\ origin' = [origin EXCEPT ![c] = k0]
      /\ UNCHANGED <<status, mguid, signal>>
      /\ \/ lost /\ disturbed' = disturbed \union {k0} /\ work' = work
         \/ ~lost /\ disturbed' = disturbed /\ work' = [work EXCEPT ![w] = [v EXCEPT !.pc = "recording", !.chat = c]]
  BY <1>0 DEF PhotonCreates, db
<1>2. /\ v \in WorkRows /\ v.req \in Requests /\ v.how \in {"single", "multi"} /\ v.ids # {}
      /\ k0 \in Keys /\ OnChat(w, k0) /\ ~Making(v)
  BY <1>0, <1>1, CallsAreKnown, KeysAreKeys DEF GoodWork, OnChat, Making
<1>3. /\ work'[w].req = v.req /\ work'[w].pc \in {"opening", "recording"}
      /\ ~lost => Making(work'[w])
      /\ work'[w].pc = "recording" => work'[w].ids = v.ids
      /\ lost => work'[w] = v
      /\ \A u \in Workers \ {w} : work'[u] = work[u]
  <2>1. CASE lost
    BY <1>1, <2>1
  <2>2. CASE ~lost
    <3> DEFINE n == [v EXCEPT !.pc = "recording", !.chat = c]
    <3>1. n.pc = "recording" /\ n.req = v.req /\ n.ids = v.ids /\ n.how = v.how
      BY <1>2 DEF WorkRows
    <3>2. work' = [work EXCEPT ![w] = n]
      BY <1>1, <2>2
    <3> HIDE DEF n
    <3>3. work'[w] = n /\ \A u \in Workers \ {w} : work'[u] = work[u]
      BY <3>2 DEF HandshakeInv, WorkInv
    <3> QED BY <1>2, <2>2, <3>1, <3>3 DEF Making
  <2> QED BY <2>1, <2>2
<1>4. /\ origin'[c] = k0 /\ \A d \in Chats : d # c => origin'[d] = origin[d]
  BY <1>1 DEF HandshakeInv, ChatInv
<1>5. \A u \in Workers, k \in Keys : OnChat(u, k)' <=> OnChat(u, k)
  BY <1>1, <1>2, <1>3 DEF OnChat, KeyOf
<1>6. \A k \in Keys : Named(k)' <=> Named(k)
  BY <1>1 DEF Named, KeyOf
<1> SUFFICES ASSUME NEW k \in Keys \ disturbed'
             PROVE  /\ \A u, x \in Workers : OnChat(u, k)' /\ OnChat(x, k)' => u = x
                    /\ \A u \in Workers : OnChat(u, k)' => Lone(work'[u], k, status', signal', origin')
                    /\ \A d \in Chats : origin'[d] = k => Named(k)' \/ \E u \in Workers : OnChat(u, k)' /\ Making(work'[u])
                    /\ \A d, e \in Chats : origin'[d] = k /\ origin'[e] = k => d = e
  BY DEF LoneInv, Keys
<1>7. k \in Keys \ disturbed
  BY <1>1
<1>8. \A u, x \in Workers : OnChat(u, k)' /\ OnChat(x, k)' => u = x
  BY <1>5, <1>7 DEF LoneInv
<1>9. CASE k = k0
  <2>1. ~lost /\ Making(work'[w]) /\ OnChat(w, k)'
    BY <1>1, <1>2, <1>3, <1>5, <1>9
  <2>2. Lone(v, k, status, signal, origin)
    BY <1>2, <1>7, <1>9 DEF LoneInv
  <2>3. \A d \in Chats : origin[d] # k
    BY <1>1, <2>2 DEF Lone
  <2>4. Lone(work'[w], k, status', signal', origin')
    BY <1>1, <1>3, <2>1, <2>2 DEF Lone, Making
  <2>5. \A u \in Workers : OnChat(u, k)' => Lone(work'[u], k, status', signal', origin')
    BY <1>8, <2>1, <2>4
  <2>6. \A d, e \in Chats : origin'[d] = k /\ origin'[e] = k => d = e
    BY <1>4, <2>3
  <2> QED BY <1>8, <2>1, <2>5, <2>6
<1>10. CASE k # k0
  <2>1. ~OnChat(w, k)
    BY <1>0, <1>10 DEF OnChat
  <2>2. \A d \in Chats : origin'[d] = k => origin[d] = k
    BY <1>4, <1>10
  <2>3. \A u \in Workers : OnChat(u, k)' => work'[u] = work[u] /\ Lone(work[u], k, status, signal, origin)
    BY <1>3, <1>5, <1>7, <2>1 DEF LoneInv
  <2>4. \A u \in Workers : OnChat(u, k)' => Lone(work'[u], k, status', signal', origin')
    BY <1>1, <2>2, <2>3 DEF Lone
  <2>5. \A d \in Chats : origin'[d] = k => Named(k)' \/ \E u \in Workers : OnChat(u, k)' /\ Making(work'[u])
    BY <1>5, <1>6, <1>7, <2>2, <2>3 DEF LoneInv
  <2>6. \A d, e \in Chats : origin'[d] = k /\ origin'[e] = k => d = e
    BY <1>7, <2>2 DEF LoneInv
  <2> QED BY <1>8, <2>4, <2>5, <2>6
<1> QED BY <1>9, <1>10

LEMMA LoneAtStart == Init => LoneInv /\ PairInv
<1> SUFFICES ASSUME Init PROVE LoneInv /\ PairInv
  OBVIOUS
<1>1. \A w \in Workers : work[w].pc = "idle"
  BY DEF Init, Idle
<1>2. \A k \in Keys : k # {}
  BY HandshakeAssumption DEF Keys, HandshakeAssumption
<1>3. LoneInv
  BY <1>1, <1>2 DEF Init, LoneInv, OnChat
<1>4. PairInv
  BY DEF Init, PairInv, NoSignal
<1> QED BY <1>3, <1>4

LEMMA LoneStep == HandshakeInv /\ HandshakeInv' /\ LoneInv /\ PairInv /\ [Next]_vars => LoneInv'
<1> SUFFICES ASSUME HandshakeInv, HandshakeInv', LoneInv, PairInv, [Next]_vars PROVE LoneInv'
  OBVIOUS
<1>1. CASE \/ FindMatch \/ FindMultiMatches
           \/ \E r \in Requests, c \in Chats : ExpandGroupChat(r, c)
           \/ \E r \in Requests, t \in {"cancel", "different"} : InitiatorCancels(r, t)
           \/ \E r \in Requests : TargetDeclines(r)
  BY <1>1, LoneThroughAnswers
<1>2. ASSUME NEW w \in Workers, NEW r \in Requests,
             InitiatorConfirms(w, r) \/ SaysYes(w, r) \/ SaidYes(w, r)
      PROVE  LoneInv'
  BY <1>2, YesAccepts, LoneThroughConfirmation, LoneThroughAcceptance
<1>3. ASSUME NEW w \in Workers, Step(w) \/ PhotonCreates(w, TRUE)
      PROVE  LoneInv'
  <2>1. CASE CheckReady(w) \/ (\E t \in {"dm", "group"} : StartCreate(w, t)) \/ Refresh(w)
    BY <2>1, LoneThroughCheck, LoneThroughStart, LoneThroughRefresh
  <2>2. CASE PhotonCreates(w, FALSE) \/ PhotonCreates(w, TRUE)
    BY <2>2, LoneThroughCreation
  <2>3. CASE Gather(w) \/ RecordChat(w) \/ PhotonAdds(w) \/ Announce(w)
    BY <2>3, LoneThroughCalls
  <2>4. CASE Mark(w)
    BY <2>4, LoneThroughMark
  <2> QED BY <1>3, <2>1, <2>2, <2>3, <2>4 DEF Step
<1>4. ASSUME NEW w \in Workers, SendInvitation(w) \/ CallFails(w) \/ Crash(w) \/ Redeliver(w)
      PROVE  LoneInv'
  BY <1>4, LoneThroughFaults
<1>5. CASE UNCHANGED vars
  BY <1>5, LoneIsKept DEF vars, db, photon, mishaps, RowsGoOn, AcceptedStay
<1> QED BY <1>1, <1>2, <1>3, <1>4, <1>5 DEF Next

\* People get one chat for what they agreed to, however many calls run at the
\* same time for others and whatever fails without hiding a chat: only where a
\* call for the same search or request died or was run twice, lost the answer
\* of Photon, read no chat because its read failed, or failed with the chat
\* made and not marked, or where another such call came in between, may there
\* be a second one (create_group_chat, handshake_manager.py).
THEOREM OneChatForAnAgreement == Spec => []OneChatUnlessDisturbed
<1>1. LoneInv => OneChatUnlessDisturbed
  <2> SUFFICES ASSUME LoneInv, NEW k \in Keys \ disturbed
               PROVE  Cardinality({c \in Chats : origin[c] = k}) <= 1
    BY DEF OneChatUnlessDisturbed
  <2> DEFINE C == {c \in Chats : origin[c] = k}
  <2>1. CASE C = {}
    BY <2>1, FS_EmptySet
  <2>2. CASE C # {}
    <3>1. PICK c \in Chats : C = {c}
      BY <2>2 DEF LoneInv
    <3>2. Cardinality({c}) = 1
      BY FS_Singleton
    <3> QED BY <3>1, <3>2
  <2> QED BY <2>1, <2>2
<1>2. HandshakeInv /\ HandshakeInv' /\ LoneInv /\ PairInv /\ [Next]_vars => LoneInv' /\ PairInv'
  BY LoneStep, PairStays
<1> QED BY <1>1, <1>2, LoneAtStart, HandshakeIsCorrect, PTL DEF Spec
==============================================================================
