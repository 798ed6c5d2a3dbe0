------------------------------ MODULE Handshake ------------------------------
(* The connection handshake: an initiator asks for a match, confirms it, the *)
(* target is invited and accepts or declines, and a group chat brings them   *)
(* together.  Tool calls run in several worker processes over one database;  *)
(* every database call is one step, and so is every call of the Photon chat  *)
(* service.  agents/tools/networking.py, handshake_manager.py,               *)
(* provisioning.py and database/client/connection_requests.py.               *)
EXTENDS Integers, FiniteSets

CONSTANTS
  Users,
  Requests,       \* the connection requests that may be created
  Batches,        \* the sets of requests that one match search creates
  InitiatorOf, TargetOf,   \* the two people of a request
  Workers,        \* tool calls in progress, in any process
  NumChats,       \* bound: chats the Photon server creates
  MaxAnswers,     \* bound: times targets say yes, in all
  MaxFaults,      \* bound: crashes, redeliveries, lost responses, failed reads and calls
  Threshold       \* multi_match_threshold

VARIABLES
  status,         \* connection_requests.status of each request
  guid,           \* group_chat_guid
  mguid,          \* multi_match_chat_guid
  signal,         \* signal_group_id; NoSignal for a single match
  flow,           \* user_networking_states: the flow state and its version
  invited,        \* requests whose invitation reached the target
  inbox,          \* acceptances of each request that are delivered again
  answers,        \* acceptances sent so far
  members,        \* who is in each chat on the Photon server
  rows,           \* group_chat_participants of each chat
  via,            \* history: the requests that brought people into each chat
  origin,         \* history: what each chat was created for
  short,          \* history: chats made without somebody who could not be read
  work,           \* each worker's call: where it is and what it has read
  disturbed,      \* history: what a fault or another call interfered with
  failed,         \* history: requests whose call failed, reported or not
  faults          \* crashes, redeliveries, lost responses, failed reads and calls

ASSUME HandshakeAssumption ==
  /\ Requests # {} /\ Batches \subseteq SUBSET Requests /\ {} \notin Batches
  /\ \A R \in Batches, q, r \in Requests :
       q \in R /\ r \in R => InitiatorOf[q] = InitiatorOf[r]
  /\ InitiatorOf \in [Requests -> Users] /\ TargetOf \in [Requests -> Users]
  /\ NumChats \in Nat

db       == <<status, guid, mguid, signal, flow>>
photon   == <<members, via, origin, short>>
target   == <<invited, inbox, answers>>
mishaps  == <<disturbed, failed, faults>>
vars     == <<db, photon, rows, target, work, mishaps>>

Chats    == 1 .. NumChats
NoChat   == 0
NoSignal == {}
Fresh    == "unread"       \* multi_match_status was not passed to the tool

PI == "pending_initiator_approval"
PT == "pending_target_approval"
TA == "target_accepted"
TD == "target_declined"
GC == "group_created"
CX == "cancelled"
Statuses == {"none", PI, PT, TA, TD, GC, CX}

ValidStatusTransitions ==
  {<<PI, PT>>, <<PI, CX>>, <<PT, TA>>, <<PT, TD>>, <<PT, CX>>, <<TA, GC>>, <<TA, CX>>}

Idle == [pc |-> "idle", req |-> CHOOSE r \in Requests : TRUE, ids |-> {},
         chat |-> NoChat, how |-> "none", who |-> {}]

\* A chat of a multi-match belongs to its signal group, any other to its request.
KeyOf(r) == IF signal[r] = NoSignal THEN {r} ELSE signal[r]
Keys     == {{r} : r \in Requests} \union Batches

\* Something fails, at most MaxFaults times.
Fault == faults < MaxFaults /\ faults' = faults + 1

PersonsOf(r) == {InitiatorOf[r], TargetOf[r]}

Init ==
  /\ status    = [r \in Requests |-> "none"]
  /\ guid      = [r \in Requests |-> NoChat]
  /\ mguid     = [r \in Requests |-> NoChat]
  /\ signal    = [r \in Requests |-> NoSignal]
  /\ flow      = [u \in Users |-> [state |-> "idle", version |-> 0]]
  /\ invited   = {}
  /\ inbox     = [r \in Requests |-> 0]
  /\ answers   = 0
  /\ members   = [c \in Chats |-> {}]
  /\ rows      = [c \in Chats |-> {}]
  /\ via       = [c \in Chats |-> {}]
  /\ origin    = [c \in Chats |-> {}]
  /\ short     = {}
  /\ work      = [w \in Workers |-> Idle]
  /\ disturbed = {}
  /\ failed    = {}
  /\ faults    = 0
------------------------------------------------------------------------------
(* The per-user flow state, agents/state/atomic_state.py. *)

FlowTransitions ==
  {<<"idle", "matching">>, <<"matching", "pending_initiator">>, <<"matching", "idle">>,
   <<"pending_initiator", "pending_target">>, <<"pending_initiator", "cancelled">>,
   <<"pending_initiator", "matching">>, <<"pending_target", "ready">>,
   <<"pending_target", "cancelled">>, <<"ready", "created">>,
   <<"created", "idle">>, <<"cancelled", "idle">>}

Terminal == {"created", "cancelled"}

\* transition_to: an illegal move raises, which the callers swallow.
Moved(f, to) == IF <<f.state, to>> \in FlowTransitions
                THEN [state |-> to, version |-> f.version + 1] ELSE f

\* update_state writes only the successor of the version that is stored.
Stored(old, new) == IF new.version = old.version + 1 THEN new ELSE old

\* create_request: back to idle from a terminal state, then through matching.
FlowAfterCreate(f) ==
  LET g == IF f.state \in Terminal THEN Stored(f, Moved(f, "idle")) ELSE f
      h == IF g.state = "idle" THEN Moved(g, "matching") ELSE g
  IN  Stored(g, Moved(h, "pending_initiator"))

FlowFrom(r, from, to) ==
  LET u == InitiatorOf[r] IN
  flow' = IF flow[u].state \in from
          THEN [flow EXCEPT ![u] = Stored(@, Moved(@, to))] ELSE flow
------------------------------------------------------------------------------
(* update_connection_request_status: the transition is checked against the  *)
(* expected status and written only where the row still has it.             *)

CanMove(r, from, to) == <<from, to>> \in ValidStatusTransitions /\ status[r] = from
SetStatus_EnumMember(r, to) == status' = [status EXCEPT ![r] = <<"ConnectionRequestStatus", to>>]
SetStatus(r, to)     == status' = [status EXCEPT ![r] = to]

\* find_match and find_multi_matches: one search creates its requests, the
\* matches of a multi-match under one signal_group_id.
CreateRequests(R, multi) ==
  LET u == InitiatorOf[CHOOSE r \in R : TRUE] IN
  /\ \A r \in R : status[r] = "none"
  /\ status' = [r \in Requests |-> IF r \in R THEN PI ELSE status[r]]
  /\ signal' = [r \in Requests |-> IF r \in R /\ multi THEN R ELSE signal[r]]
  /\ flow'   = [flow EXCEPT ![u] = FlowAfterCreate(@)]
  /\ UNCHANGED <<guid, mguid, photon, rows, target, work, mishaps>>

FindMatch        == \E r \in Requests : {r} \in Batches /\ CreateRequests({r}, FALSE)
FindMultiMatches == \E R \in Batches : Cardinality(R) > 1 /\ CreateRequests(R, TRUE)

\* find_match of a group chat: a member asks for one more person, who is not
\* in the chat nor invited to it as far as can be read; the request carries the
\* chat and the signal group of an earlier request of that chat.
InvitedTo(c) == {TargetOf[q] : q \in {q \in Requests : guid[q] = c /\ status[q] \in {PI, PT, TA, GC}}}

ExpandGroupChat(r, c) ==
  LET earlier == {signal[q] : q \in {q \in Requests : guid[q] = c}} \ {NoSignal} IN
  /\ status[r] = "none" /\ {r} \in Batches
  /\ InitiatorOf[r] \in rows[c]
  /\ IF TargetOf[r] \in rows[c] \union InvitedTo(c) THEN Fault ELSE UNCHANGED faults
  /\ SetStatus(r, PI)
  /\ guid' = [guid EXCEPT ![r] = c]
  /\ \E s \in IF earlier = {} THEN {NoSignal} ELSE earlier :
       signal' = [signal EXCEPT ![r] = s]
  /\ flow' = [flow EXCEPT ![InitiatorOf[r]] = FlowAfterCreate(@)]
  /\ UNCHANGED <<mguid, photon, rows, target, work, disturbed, failed>>

\* request_different_match and cancel_connection_request.
InitiatorCancels(r, tool) ==
  /\ CanMove(r, PI, CX)
  /\ SetStatus(r, CX)
  /\ IF tool = "cancel" THEN FlowFrom(r, {"pending_initiator", "pending_target", "ready", "matching"}, "cancelled")
     ELSE UNCHANGED flow
  /\ UNCHANGED <<guid, mguid, signal, photon, rows, target, work, mishaps>>

\* confirm_and_send_invitation up to the call of Photon; a request that was
\* confirmed before is reported as such and nothing is sent again.
InitiatorConfirms(w, r) ==
  /\ work[w] = Idle
  /\ CanMove(r, PI, PT)
  /\ SetStatus(r, PT)
  /\ FlowFrom(r, {"pending_initiator"}, "pending_target")
  /\ work' = [work EXCEPT ![w] = [Idle EXCEPT !.pc = "inviting", !.req = r]]
  /\ UNCHANGED <<guid, mguid, signal, photon, rows, target, mishaps>>

SendInvitation(w) ==
  /\ work[w].pc = "inviting"
  /\ \/ invited' = invited \union {work[w].req} /\ UNCHANGED faults
     \/ Fault /\ UNCHANGED invited
  /\ work' = [work EXCEPT ![w] = Idle]
  /\ UNCHANGED <<db, photon, rows, inbox, answers, disturbed, failed>>
------------------------------------------------------------------------------
(* The target answers.  While the answer waits for a worker it changes      *)
(* nothing, so it counts as given when it is handled.                       *)

TargetDeclines(r) ==
  /\ r \in invited
  /\ CanMove(r, PT, TD)
  /\ SetStatus(r, TD)
  /\ FlowFrom(r, {"pending_target"}, "cancelled")
  /\ UNCHANGED <<guid, mguid, signal, photon, rows, target, work, mishaps>>

\* history: another call on the same chat is in progress.
Busy(k) == \E w \in Workers : work[w].pc \notin {"idle", "inviting"} /\ KeyOf(work[w].req) = k

\* target_responds(accept=true): accepted rows are reported without writing.
TargetAccepts(w, r) ==
  /\ work[w] = Idle
  /\ \/ /\ CanMove(r, PT, TA)
        /\ SetStatus(r, TA)
        /\ work' = [work EXCEPT ![w] =
             [Idle EXCEPT !.req = r,
                !.pc = IF signal[r] = NoSignal THEN "creating" ELSE "checking"]]
     \/ /\ status[r] = TA
        /\ work' = [work EXCEPT ![w] = [Idle EXCEPT !.pc = "creating", !.req = r, !.how = Fresh]]
        /\ UNCHANGED status
     \/ status[r] \in {TD, GC} /\ UNCHANGED <<status, work>>
  /\ disturbed' = IF Busy(KeyOf(r)) THEN disturbed \union {KeyOf(r)} ELSE disturbed
  /\ UNCHANGED <<guid, mguid, signal, flow, photon, rows, invited, failed, faults>>

\* A yes to a request that is settled changes nothing.
SaysYes(w, r) ==
  /\ r \in invited /\ answers < MaxAnswers
  /\ status[r] \in {PT, TA}
  /\ answers' = answers + 1 /\ UNCHANGED inbox
  /\ TargetAccepts(w, r)

SaidYes(w, r) ==
  /\ inbox[r] > 0
  /\ inbox' = [inbox EXCEPT ![r] = @ - 1] /\ UNCHANGED answers
  /\ TargetAccepts(w, r)

\* check_multi_match_ready_v1: one aggregate over the rows of a signal group.
AcceptedOf_AlsoPending(s) == {r \in Requests : signal[r] = s /\ status[r] \in {PT, TA}}
AcceptedOf(s) == {r \in Requests : signal[r] = s /\ status[r] = TA}
\* Which of several chats is the greatest is up to their names.
ChatOf_Ungrouped(s, c) == c = NoChat
ChatOf(s, c) == LET C == {mguid[r] : r \in {q \in Requests : signal[q] = s}} \ {NoChat}
                IN  IF C = {} THEN c = NoChat ELSE c \in C
Ready_AllOfThem(s) == \A r \in Requests : signal[r] = s => status[r] = TA
Ready(s)      == Cardinality(AcceptedOf(s)) >= Threshold

\* target_accepts_multi_match, its second half: a group is called for when the
\* threshold is met or the chat exists.  A read that fails answers, without an
\* error, that the group is not ready and has no chat.
CheckReady(w) ==
  LET s == signal[work[w].req] IN
  /\ work[w].pc = "checking"
  /\ \/ /\ \E c \in Chats \union {NoChat} :
             /\ ChatOf(s, c)
             /\ work' = [work EXCEPT ![w] =
                  IF Ready(s) \/ c # NoChat
                  THEN [@ EXCEPT !.pc = "creating", !.ids = AcceptedOf(s), !.chat = c]
                  ELSE Idle]
        /\ UNCHANGED <<failed, faults>>
     \/ /\ Fault /\ failed' = failed \union {work[w].req}
        /\ work' = [work EXCEPT ![w] = Idle]
  /\ UNCHANGED <<db, photon, rows, target, disturbed>>
------------------------------------------------------------------------------
(* create_group_chat. *)

\* A late joiner when the group has a chat, a new chat otherwise.
Route_LateJoinerNotAdded(v, ids, c) ==
  IF c # NoChat THEN [v EXCEPT !.pc = "marking", !.how = "late", !.chat = c, !.ids = {v.req}]
  ELSE [v EXCEPT !.pc = "gathering", !.how = "multi", !.ids = ids \union {v.req}]

Route(v, ids, c) ==
  IF c # NoChat THEN [v EXCEPT !.pc = "adding", !.how = "late", !.chat = c]
  ELSE [v EXCEPT !.pc = "gathering", !.how = "multi", !.ids = ids \union {v.req}]

\* A request that carries a chat: nothing if its target was added before.  The
\* chat tool and the group chat tool differ only in how they mark it.
CarriedChat(v, tool) ==
  IF status[v.req] = GC THEN Idle
  ELSE [v EXCEPT !.pc = "adding", !.chat = guid[v.req],
                 !.how = IF tool = "group" THEN "expand" ELSE "existing"]

\* A single match: the two may share a chat already, otherwise they get one.
SharedChats(r) == {c \in Chats : PersonsOf(r) \subseteq rows[c]}

NewPair(v) == [v EXCEPT !.pc = "gathering", !.how = "single", !.ids = {v.req}]

SingleMatch(v) ==
  IF SharedChats(v.req) = {} THEN {NewPair(v)}
  ELSE {[v EXCEPT !.pc = "adding", !.how = "existing", !.chat = c] : c \in SharedChats(v.req)}

\* A search for a shared chat that fails finds none.
PairMissed(v) ==
  /\ guid[v.req] = NoChat /\ signal[v.req] = NoSignal /\ SharedChats(v.req) # {}
  /\ Fault /\ disturbed' = disturbed \union {KeyOf(v.req)}

StartCreate(w, tool) ==
  LET v == work[w]  r == v.req IN
  /\ v.pc = "creating"
  /\ tool = "group" => guid[r] # NoChat
  /\ \/ /\ \E x \in IF guid[r] # NoChat THEN {CarriedChat(v, tool)}
                     ELSE IF signal[r] = NoSignal THEN SingleMatch(v)
                     ELSE IF v.how = Fresh THEN {[v EXCEPT !.pc = "refreshing"]}
                     ELSE {Route(v, v.ids, v.chat)} :
             work' = [work EXCEPT ![w] = x]
        /\ UNCHANGED <<disturbed, faults>>
     \/ PairMissed(v) /\ work' = [work EXCEPT ![w] = NewPair(v)]
  /\ UNCHANGED <<db, photon, rows, target, failed>>

\* multi_match_status was not passed: it is read again, and a read that fails
\* shows no chat and no other request that was accepted.
Refresh(w) ==
  LET s == signal[work[w].req] IN
  /\ work[w].pc = "refreshing"
  /\ \/ /\ \E c \in Chats \union {NoChat} :
             ChatOf(s, c) /\ work' = [work EXCEPT ![w] = Route(@, AcceptedOf(s), c)]
        /\ UNCHANGED <<disturbed, faults>>
     \/ /\ Fault /\ disturbed' = disturbed \union {s}
        /\ work' = [work EXCEPT ![w] = Route(@, {}, NoChat)]
  /\ UNCHANGED <<db, photon, rows, target, failed>>

\* create_multi_person_group reads the requests again, whatever their status;
\* the initiator is the one of the first.
Gathered(ids) == {InitiatorOf[CHOOSE r \in ids : TRUE]} \union {TargetOf[q] : q \in ids}

\* Whoever cannot be read is left out, as long as two people remain; the two of
\* a single match are both needed.
Gather(w) ==
  LET v == work[w] IN
  /\ v.pc = "gathering"
  /\ \E who \in SUBSET Gathered(v.ids) :
       /\ IF who = Gathered(v.ids) THEN UNCHANGED faults
          ELSE v.how = "multi" /\ (\E u, x \in who : u # x) /\ Fault
       /\ work' = [work EXCEPT ![w] = [v EXCEPT !.pc = "opening", !.who = who]]
  /\ UNCHANGED <<db, photon, rows, target, disturbed, failed>>

\* Photon creates the chat.  The client retries a call whose response was lost,
\* and the chat of the first call stays.
PhotonCreates(w, lost) ==
  LET v == work[w]
      c == CHOOSE c \in Chats : origin[c] = {}
  IN
  /\ v.pc = "opening"
  /\ \E d \in Chats : origin[d] = {}
  /\ members' = [members EXCEPT ![c] = v.who]
  /\ via'     = [via EXCEPT ![c] = v.ids]
  /\ origin'  = [origin EXCEPT ![c] = KeyOf(v.req)]
  /\ short'   = IF v.who = Gathered(v.ids) THEN short ELSE short \union {c}
  /\ IF lost
     THEN Fault /\ disturbed' = disturbed \union {KeyOf(v.req)} /\ UNCHANGED work
     ELSE /\ work' = [work EXCEPT ![w] = [v EXCEPT !.pc = "recording", !.chat = c]]
          /\ UNCHANGED <<disturbed, faults>>
  /\ UNCHANGED <<db, rows, target, failed>>

\* The chat's own record comes first, without which nobody finds the chat, then
\* a row for each of its people, the initiator before the others.  All of it is
\* best effort: a failed write is only logged.
Recorded(v, rest) ==
  IF rest = {} THEN [v EXCEPT !.pc = "marking", !.who = {}] ELSE [v EXCEPT !.who = rest]

NextRow(v) == IF InitiatorOf[v.req] \in v.who THEN InitiatorOf[v.req] ELSE CHOOSE u \in v.who : TRUE

RecordChat(w) ==
  LET v == work[w] IN
  /\ v.pc = "recording"
  /\ \/ /\ \E u \in v.who :
             /\ u = NextRow(v)
             /\ \/ rows' = [rows EXCEPT ![v.chat] = @ \union {u}] /\ UNCHANGED faults
                \/ Fault /\ UNCHANGED rows
             /\ work' = [work EXCEPT ![w] = Recorded(v, v.who \ {u})]
     \/ /\ v.who = members[v.chat]
        /\ Fault /\ UNCHANGED rows
        /\ work' = [work EXCEPT ![w] = Recorded(v, {})]
  /\ UNCHANGED <<db, photon, target, disturbed, failed>>

\* add_participant_to_group: Photon first, then an announcement, then the row,
\* which is best effort too.
PhotonAdds(w) ==
  LET v == work[w] IN
  /\ v.pc = "adding"
  /\ members' = [members EXCEPT ![v.chat] = @ \union {TargetOf[v.req]}]
  /\ via'     = [via EXCEPT ![v.chat] = @ \union {v.req}]
  /\ work'    = [work EXCEPT ![w] = [v EXCEPT !.pc = "announcing"]]
  /\ UNCHANGED <<db, origin, short, rows, target, mishaps>>

Announce(w) ==
  LET v == work[w] IN
  /\ v.pc = "announcing"
  /\ \/ rows' = [rows EXCEPT ![v.chat] = @ \union {TargetOf[v.req]}] /\ UNCHANGED faults
     \/ Fault /\ UNCHANGED rows
  /\ work' = [work EXCEPT ![w] = [v EXCEPT !.pc = "marking", !.ids = {v.req}]]
  /\ UNCHANGED <<db, photon, target, disturbed, failed>>

\* The requests become GROUP_CREATED one after the other.  A row that is no
\* longer TARGET_ACCEPTED ends the call, which leaves the rest as they were;
\* the chat tool never gets to write a request that joined an existing chat,
\* because "datetime" is a local name that is not bound yet.
Mark(w) ==
  LET v == work[w] IN
  /\ v.pc = "marking"
  /\ \E r \in v.ids :
       IF v.how # "existing" /\ CanMove(r, TA, GC)
       THEN /\ SetStatus(r, GC)
            /\ guid'  = [guid EXCEPT ![r] = v.chat]
            /\ mguid' = IF v.how \in {"multi", "late"} THEN [mguid EXCEPT ![r] = v.chat] ELSE mguid
            /\ IF v.how = "single" THEN FlowFrom(r, {"ready"}, "created") ELSE UNCHANGED flow
            /\ work' = [work EXCEPT ![w] = IF v.ids = {r} THEN Idle ELSE [v EXCEPT !.ids = @ \ {r}]]
       ELSE /\ work' = [work EXCEPT ![w] = Idle]
            /\ UNCHANGED <<status, guid, mguid, flow>>
  /\ UNCHANGED <<signal, photon, rows, target, mishaps>>

\* A database or Photon call raises: the tool reports an error, and a chat that
\* it made already is not marked.
CallFails(w) ==
  LET v == work[w] IN
  /\ v.pc \in {"creating", "gathering", "opening", "adding", "announcing", "marking"}
  /\ Fault /\ failed' = failed \union {v.req}
  /\ disturbed' = IF v.pc = "marking" THEN disturbed \union {KeyOf(v.req)} ELSE disturbed
  /\ work' = [work EXCEPT ![w] = Idle]
  /\ UNCHANGED <<db, photon, rows, target>>
------------------------------------------------------------------------------
(* Faults: the process dies in a call, or a rebalance hands its message to   *)
(* another process while it still runs.  A message is redelivered, and the   *)
(* invitation that was not sent yet is lost: the message is the initiator's, *)
(* and its second handling finds the request confirmed.                      *)

Crash(w) ==
  /\ work[w] # Idle
  /\ Fault
  /\ IF work[w].pc = "inviting" THEN UNCHANGED <<inbox, disturbed>>
     ELSE /\ inbox' = [inbox EXCEPT ![work[w].req] = @ + 1]
          /\ disturbed' = disturbed \union {KeyOf(work[w].req)}
  /\ work' = [work EXCEPT ![w] = Idle]
  /\ UNCHANGED <<db, photon, rows, invited, answers, failed>>

Redeliver(w) ==
  /\ work[w].pc \notin {"idle", "inviting"}
  /\ Fault
  /\ inbox' = [inbox EXCEPT ![work[w].req] = @ + 1]
  /\ UNCHANGED <<db, photon, rows, invited, answers, work, disturbed, failed>>
------------------------------------------------------------------------------
Step(w) ==
  \/ CheckReady(w) \/ (\E t \in {"dm", "group"} : StartCreate(w, t)) \/ Refresh(w) \/ Gather(w)
  \/ PhotonCreates(w, FALSE) \/ RecordChat(w) \/ PhotonAdds(w) \/ Announce(w) \/ Mark(w)

Next ==
  \/ FindMatch \/ FindMultiMatches
  \/ \E r \in Requests, c \in Chats : ExpandGroupChat(r, c)
  \/ \E r \in Requests, t \in {"cancel", "different"} : InitiatorCancels(r, t)
  \/ \E r \in Requests : TargetDeclines(r)
  \/ \E w \in Workers, r \in Requests : InitiatorConfirms(w, r) \/ SaysYes(w, r) \/ SaidYes(w, r)
  \/ \E w \in Workers : Step(w) \/ SendInvitation(w) \/ PhotonCreates(w, TRUE)
                        \/ CallFails(w) \/ Crash(w) \/ Redeliver(w)

\* A call that was started ends, and what is delivered again is handled: the
\* event loop and the consumer see to both.
Spec ==
  /\ Init /\ [][Next]_vars
  /\ \A w \in Workers : WF_vars(Step(w) \/ SendInvitation(w))
  /\ WF_vars(\E w \in Workers, r \in Requests : SaidYes(w, r))
------------------------------------------------------------------------------
(* Properties. *)

TypeOK ==
  /\ status \in [Requests -> Statuses]
  /\ guid \in [Requests -> Chats \union {NoChat}]
  /\ mguid \in [Requests -> Chats \union {NoChat}]
  /\ signal \in [Requests -> Batches \union {NoSignal}]
  /\ invited \subseteq Requests
  /\ members \in [Chats -> SUBSET Users]
  /\ rows \in [Chats -> SUBSET Users]
  /\ via \in [Chats -> SUBSET Requests]
  /\ short \subseteq Chats /\ failed \subseteq Requests
  /\ \A w \in Workers : /\ work[w].req \in Requests /\ work[w].ids \subseteq Requests
                        /\ work[w].who \subseteq Users

\* A request that is recorded as introduced names a chat in which both of its
\* people are, whatever calls raced, failed or died on the way there, unless
\* somebody could not be read when that chat was made and was left out of it.
GroupIsReal ==
  \A r \in Requests : status[r] = GC =>
    guid[r] # NoChat /\ (PersonsOf(r) \subseteq members[guid[r]] \/ guid[r] \in short)

\* People get one chat for what they agreed to, unless a call for it died, was
\* run twice, missed its chat in a read that failed, or failed with the chat
\* made and not marked, or another call for it came in between.
OneChatUnlessDisturbed ==
  \A k \in Keys \ disturbed : Cardinality({c \in Chats : origin[c] = k}) <= 1

\* The two are in one chat, or the chat was made without somebody who could not
\* be read, or the call for the request failed, after which only the user can
\* try again.
Settled(r) ==
  r \in failed \/ \E c \in Chats : \/ PersonsOf(r) \subseteq members[c]
                                   \/ c \in short /\ r \in via[c]

\* Accepted introductions take place, although processes die and messages come
\* twice: there is always again a time when each of them is settled.
AcceptedMeet == []<>(\A r \in Requests : status[r] = TA => Settled(r))

\* The rows and the chats together follow the protocol of Introductions.
PhaseOf(s) == CASE s = "none" -> "none" [] s = PI -> "proposed" [] s = PT -> "invited"
                [] s = TA -> "accepted" [] s = TD -> "declined"
                [] s = CX -> "withdrawn" [] s = GC -> "introduced"

Promise == INSTANCE Introductions WITH
  phase  <- [r \in Requests |-> PhaseOf(status[r])],
  met    <- {r \in Requests : \E c \in Chats : r \in via[c] /\ PersonsOf(r) \subseteq members[c]},
  missed <- {r \in Requests : \E c \in short : r \in via[c]}

IntroductionsSpec == Promise!Spec

\* handshake_manager.py:494 says of the last step of group creation: "Uses
\* optimistic locking to prevent duplicate group creation."
NoDuplicateGroup == \A k \in Keys : Cardinality({c \in Chats : origin[c] = k}) <= 1

\* networking.py:2038: "it ensures the invitation is sent immediately after
\* confirmation": a confirmed request whose call ended has been sent.
ConfirmedIsInvited ==
  \A r \in Requests : status[r] = PT =>
    r \in invited \/ \E w \in Workers : work[w].pc = "inviting" /\ work[w].req = r

\* handshake_manager.py:139: "Update initiator's atomic state to
\* PENDING_INITIATOR_APPROVAL", when the request is created.
PendingIsTracked ==
  \A r \in Requests : status[r] = PI => flow[InitiatorOf[r]].state # "idle"

\* networking.py:2641 and :2774 mark a request GROUP_CREATED when its target has
\* joined a chat that was there: once the calls have ended, no undisturbed request
\* on whose behalf somebody came into a chat is still accepted only.
JoinedIsMarked ==
  (\A w \in Workers : work[w] = Idle) =>
    \A r \in Requests :
      status[r] = TA /\ r \notin failed /\ KeyOf(r) \notin disturbed =>
        \A c \in Chats : r \notin via[c]
==============================================================================
