---------------------------- MODULE MCChatSummary ----------------------------
(* Three messages of users and one of Frank's: in summaries.cfg one more     *)
(* than the raw row holds, and two more than a worker reads.                 *)
EXTENDS ChatSummary

MCUserMsgs == 1 .. 3
MCOwnMsgs  == {4}
==============================================================================
