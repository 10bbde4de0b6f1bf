----------------------------- MODULE ClientTask -----------------------------
(***************************************************************************)
(* What a background task of an LwApiClient promises to the code that      *)
(* starts and stops it: the view BotRuntime takes of the message listener  *)
(* and of the keep-alive.  A task that is asked to stop ends; one that is  *)
(* not may end by itself.                                                  *)
(***************************************************************************)
VARIABLE state

Init == state = "off"

Start == state = "off" /\ state' = "running"
Cancel == state = "running" /\ state' = "cancelling"
EndByItself == state = "running" /\ state' = "off"
End == state = "cancelling" /\ state' = "off"

Next == Start \/ Cancel \/ EndByItself \/ End

Spec == Init /\ [][Next]_state /\ WF_state(End)
=============================================================================
