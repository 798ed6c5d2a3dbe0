---------------------------- MODULE MCChatFollowup ----------------------------
(* Three messages of users, in time or a unit late, and two workers. *)
EXTENDS ChatFollowup

MCMsgs == 1 .. 3
==============================================================================
