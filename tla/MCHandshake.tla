----------------------------- MODULE MCHandshake -----------------------------
(* Uma is matched with Amy and Bob in one search, and Bob asks for Amy,     *)
(* alone or for the chat that Bob is in.                                    *)
EXTENDS Handshake, TLC

CONSTANTS Uma, Amy, Bob, UmaAmy, UmaBob, BobAmy

MCUsers       == {Uma, Amy, Bob}
MCRequests    == {UmaAmy, UmaBob, BobAmy}
MCBatches     == {{UmaAmy, UmaBob}, {BobAmy}}
MCInitiatorOf == (UmaAmy :> Uma) @@ (UmaBob :> Uma) @@ (BobAmy :> Bob)
MCTargetOf    == (UmaAmy :> Amy) @@ (UmaBob :> Bob) @@ (BobAmy :> Amy)
==============================================================================
