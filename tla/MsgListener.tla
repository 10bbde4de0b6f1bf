----------------------------- MODULE MsgListener -----------------------------
(***************************************************************************)
(* MsgClient: the task that receives synchronisation messages, over a      *)
(* WebSocket with a bounded number of reconnections or by long polling,    *)
(* and the calls that start and stop it.  An action is the code between    *)
(* two suspension points of the task, or one call.                         *)
(***************************************************************************)
EXTENDS Naturals

CONSTANT MaxReconnect       \* _WS_MAX_RECONNECT_ATTEMPTS

ASSUME MaxReconnectAssumption == MaxReconnect \in Nat \ {0}

VARIABLES
    mode,       \* "websocket" or "poll"
    pc,         \* where the listener task is suspended
    stopEvent,  \* _stop_event
    cancel,     \* CancelledError will be raised when the task resumes
    callback,   \* is _on_ws_exhausted set?
    failures,   \* reconnect_failures
    attempts,   \* connections that failed since the last one that succeeded
    gaveUp      \* the exhaustion callback has been called

lvars == <<mode, pc, stopEvent, cancel, callback, failures, attempts, gaveUp>>

(***************************************************************************)
(* "close" is the end of the connection and of its session before another  *)
(* attempt, "unwind" the same after CancelledError; "poll" is the pending  *)
(* long poll and "pause" the sleep after it.                               *)
(***************************************************************************)
Ended == {"none", "done"}
Steps == {"new", "connect", "receive", "dispatch", "close", "unwind", "sleep",
          "poll", "pause"}

ListenerTypeOK ==
    /\ mode \in {"websocket", "poll"}
    /\ pc \in Ended \cup Steps
    /\ stopEvent \in BOOLEAN /\ cancel \in BOOLEAN
    /\ callback \in BOOLEAN /\ gaveUp \in BOOLEAN
    /\ failures \in 0 .. MaxReconnect
    /\ attempts \in 0 .. MaxReconnect

ListenerInit ==
    /\ mode = "websocket" /\ pc = "none"
    /\ stopEvent = FALSE /\ cancel = FALSE
    /\ callback = FALSE /\ gaveUp = FALSE
    /\ failures = 0 /\ attempts = 0

-----------------------------------------------------------------------------
(* Calls.                                                                  *)

\* A call while the task is not done returns at once.
Start(m, cb) ==
    /\ pc \in Ended
    /\ mode' = m
    /\ pc' = "new"
    /\ stopEvent' = FALSE
    /\ cancel' = FALSE
    /\ callback' = cb
    /\ failures' = 0
    /\ attempts' = 0
    /\ gaveUp' = FALSE

\* Variant: the task is told to stop but not cancelled.
StopNoCancel ==
    /\ callback' = FALSE
    /\ stopEvent' = TRUE
    /\ UNCHANGED <<mode, pc, cancel, failures, attempts, gaveUp>>

Stop ==
    /\ callback' = FALSE
    /\ stopEvent' = TRUE
    /\ cancel' = (pc \in Steps)
    /\ UNCHANGED <<mode, pc, failures, attempts, gaveUp>>

-----------------------------------------------------------------------------
(* The task.                                                               *)

Goto(p) ==
    /\ pc' = p
    /\ UNCHANGED <<mode, stopEvent, cancel, callback, failures, attempts, gaveUp>>

Resumes(p) == pc = p /\ ~cancel

FirstStep ==
    /\ Resumes("new")
    /\ Goto(IF mode = "poll" THEN "poll" ELSE "connect")

Connected ==
    /\ Resumes("connect")
    /\ pc' = "receive"
    /\ failures' = 0
    /\ attempts' = 0
    /\ UNCHANGED <<mode, stopEvent, cancel, callback, gaveUp>>

ConnectFails ==
    /\ Resumes("connect")
    /\ pc' = "close"
    /\ attempts' = attempts + 1
    /\ UNCHANGED <<mode, stopEvent, cancel, callback, failures, gaveUp>>

\* A payload with messages goes to the handler; any other is skipped.
MessageReceived == Resumes("receive") /\ Goto("dispatch")

\* Read timeout, close frame, closed connection or error.
ConnectionLost == Resumes("receive") /\ Goto("close")

HandlerDone ==
    /\ Resumes("dispatch")
    /\ Goto(IF mode = "poll" THEN "pause"
            ELSE IF stopEvent THEN "close" ELSE "receive")

\* Variant: every failure is counted as the first one.
SessionClosedForgets ==
    /\ Resumes("close")
    /\ IF stopEvent THEN Goto("done")
       ELSE /\ failures' = 1
            /\ attempts' = 0
            /\ pc' = IF 1 >= MaxReconnect THEN "done" ELSE "sleep"
            /\ gaveUp' = (1 >= MaxReconnect /\ callback)
            /\ UNCHANGED <<mode, stopEvent, cancel, callback>>

\* A connection that could not be made and one that was lost count alike; at
\* the limit the callback is called and the task ends.
SessionClosed ==
    /\ Resumes("close")
    /\ IF stopEvent THEN Goto("done")
       ELSE /\ failures' = failures + 1
            /\ pc' = IF failures' >= MaxReconnect THEN "done" ELSE "sleep"
            /\ gaveUp' = (failures' >= MaxReconnect /\ callback)
            /\ UNCHANGED <<mode, stopEvent, cancel, callback, attempts>>

Slept ==
    /\ Resumes("sleep")
    /\ Goto(IF stopEvent THEN "done" ELSE "connect")

PollReturns ==
    /\ Resumes("poll")
    /\ \E p \in {"dispatch", "pause"} : Goto(p)

Paused ==
    /\ Resumes("pause")
    /\ Goto(IF stopEvent THEN "done" ELSE "poll")

\* CancelledError: caught around the connection, whose session is then closed,
\* and around the poll; elsewhere it ends the task.
Cancelled ==
    /\ pc \in Steps \ {"unwind"}
    /\ cancel
    /\ cancel' = FALSE
    /\ pc' = IF mode = "websocket" /\ pc \in {"connect", "receive", "dispatch"}
             THEN "unwind" ELSE "done"
    /\ UNCHANGED <<mode, stopEvent, callback, failures, attempts, gaveUp>>

Unwound ==
    /\ pc = "unwind"
    /\ pc' = "done"
    /\ cancel' = FALSE
    /\ UNCHANGED <<mode, stopEvent, callback, failures, attempts, gaveUp>>

ListenerStep ==
    \/ FirstStep \/ Connected \/ ConnectFails \/ MessageReceived
    \/ ConnectionLost \/ HandlerDone \/ SessionClosed \/ Slept
    \/ PollReturns \/ Paused \/ Cancelled \/ Unwound

(***************************************************************************)
(* The event loop: every await ends but that of ws.receive(), where no     *)
(* message need ever come; aiohttp's timeouts bound connecting, closing    *)
(* and polling, and handlers return.                                       *)
(***************************************************************************)
ListenerFairness ==
    /\ WF_lvars(FirstStep \/ HandlerDone \/ SessionClosed \/ Slept
                    \/ PollReturns \/ Paused \/ Cancelled \/ Unwound)
    /\ WF_lvars(Connected \/ ConnectFails)

-----------------------------------------------------------------------------
(* Properties.                                                             *)

\* msg.py:45, 225, 260: the exhaustion callback, which stops the bot for good, is
\* called when _WS_MAX_RECONNECT_ATTEMPTS reconnections failed in a row.
GivesUpAtLimit == gaveUp => attempts >= MaxReconnect

\* After stop() no message reaches the handler any more.
NoDispatchAfterStop ==
    [][stopEvent /\ pc # "dispatch" => pc' # "dispatch"]_lvars

\* A lost connection is made again or the task ends: it never retries for ever
\* without being connected.
ReconnectsOrEnds == (pc = "sleep") ~> (pc \in Ended \cup {"receive"})

ListenerState ==
    IF pc \in Ended THEN "off" ELSE IF stopEvent THEN "cancelling" ELSE "running"
=============================================================================
