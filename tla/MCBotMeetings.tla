--------------------------- MODULE MCBotMeetings ---------------------------
(* Instances of BotMeetings for TLC: what the account of each row logs in as. *)
EXTENDS BotMeetings, TLC

CONSTANTS r1, r2, wx1

TwoRowsOneWxid == r1 :> wx1 @@ r2 :> wx1

Symmetry == Permutations(Tasks)
=============================================================================
