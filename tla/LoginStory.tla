------------------------------ MODULE LoginStory ------------------------------
(***************************************************************************)
(* What a login promises to the bot and to the viewer of its row: it does  *)
(* not try for ever, a code is not shown for ever, and after a failure it  *)
(* starts again.  Only a code on show, or a bot online whose listener      *)
(* gives up, ends for good: a failed login is always tried again.          *)
(***************************************************************************)
VARIABLE story

Init == story = "trying"

\* The cached login is accepted, a code is shown, or neither works.
Decide == story = "trying" /\ story' \in {"online", "code", "failed"}

CodeEnds == story = "code" /\ story' \in {"online", "failed", "ended"}

Retry == story = "failed" /\ story' = "trying"

GoOffline == story = "online" /\ story' = "failed"

GiveUp == story = "online" /\ story' = "ended"

Next == Decide \/ CodeEnds \/ Retry \/ GoOffline \/ GiveUp

Spec ==
    /\ Init
    /\ [][Next]_story
    /\ WF_story(Decide) /\ WF_story(CodeEnds) /\ WF_story(Retry)
=============================================================================
