------------------------------- MODULE Inbox -------------------------------
(***************************************************************************)
(* What Franklink promises the members of one conversation, with nothing   *)
(* of how: the messages they write are taken in, and what has been dealt   *)
(* with is at any time a prefix of what was taken in.  Messages are dealt  *)
(* with in order, several at once if need be, each of them once, and none  *)
(* is passed over that has not been given up before (received is what was  *)
(* taken in and not given up).                                             *)
(***************************************************************************)
EXTENDS Naturals, Sequences

CONSTANT Messages           \* numbers, in the order the messages are written in

VARIABLES
    received,               \* the messages taken in, in order
    handled                 \* the messages dealt with, in order

inboxVars == <<received, handled>>

Init ==
    /\ received = <<>>
    /\ handled = <<>>

\* A message is taken in after all those written before it.
Receive ==
    /\ \E m \in Messages :
          /\ \A i \in DOMAIN received : received[i] < m
          /\ received' = Append(received, m)
    /\ UNCHANGED handled

Handle ==
    /\ \E n \in Len(handled)+1..Len(received) :
            handled' = SubSeq(received, 1, n)
    /\ UNCHANGED received

\* Messages that follow each other are given up.
GiveUp ==
    /\ \E n \in Len(handled)..Len(received) : \E k \in n+1..Len(received)+1 :
            received' = SubSeq(received, 1, n)
                          \o SubSeq(received, k, Len(received))
    /\ UNCHANGED handled

Next == Receive \/ Handle \/ GiveUp

Spec == Init /\ [][Next]_inboxVars
=============================================================================
