------------------------------- MODULE LwClient -------------------------------
(***************************************************************************)
(* One LwApiClient: its message listener and its keep-alive run side by    *)
(* side, are started and stopped by calls in any order while the client is *)
(* open, and are ended by aclose() before the transport goes.              *)
(***************************************************************************)
EXTENDS MsgListener, KeepAlive

VARIABLE closing    \* how far aclose() has come; "closed": the transport is

vars == <<lvars, kvars, closing>>

TypeOK ==
    /\ ListenerTypeOK
    /\ KeepAliveTypeOK
    /\ closing \in {"open", "awaitListener", "awaitKeepalive", "closed"}

Init == ListenerInit /\ KeepAliveInit /\ closing = "open"

-----------------------------------------------------------------------------

ListenerCall ==
    /\ closing = "open"
    /\ \/ \E cb \in BOOLEAN : Start("websocket", cb)
       \/ Start("poll", FALSE)
       \/ Stop
    /\ UNCHANGED <<kvars, closing>>

KeepaliveCall ==
    /\ closing = "open"
    /\ StartKeepalive \/ StopKeepalive \/ Join
    /\ UNCHANGED <<lvars, closing>>

ListenerRuns == ListenerStep /\ UNCHANGED <<kvars, closing>>

WorkerRuns(w) == WorkerStep(w) /\ UNCHANGED <<lvars, closing>>

JoinEnds == Joined /\ UNCHANGED <<lvars, closing>>

\* aclose(): the guard _closed, then msg.stop().
Aclose ==
    /\ closing = "open"
    /\ Settled
    /\ Stop
    /\ closing' = "awaitListener"
    /\ UNCHANGED kvars

\* Variant: the keep-alive is joined without being stopped.
ListenerStoppedJoinOnly ==
    /\ closing = "awaitListener"
    /\ pc \in Ended
    /\ closing' = "awaitKeepalive"
    /\ UNCHANGED <<lvars, kvars>>

\* wait_stop() returns and join_background_tasks() is called.
ListenerStopped ==
    /\ closing = "awaitListener"
    /\ pc \in Ended
    /\ stopMaint' = TRUE
    /\ worker' = Stopped
    /\ closing' = "awaitKeepalive"
    /\ UNCHANGED <<lvars, current, joining>>

\* Variant: the transport is closed without waiting for the keep-alive.
CloseTransportEarly ==
    /\ closing = "awaitListener"
    /\ closing' = "closed"
    /\ UNCHANGED <<lvars, kvars>>

CloseTransport ==
    /\ closing = "awaitKeepalive"
    /\ ~Alive(current)
    /\ closing' = "closed"
    /\ UNCHANGED <<lvars, kvars>>

Next ==
    \/ ListenerCall \/ KeepaliveCall \/ ListenerRuns
    \/ \E w \in Workers : WorkerRuns(w)
    \/ JoinEnds \/ Aclose \/ ListenerStopped \/ CloseTransport

(***************************************************************************)
(* The tasks run as their modules say, and so does aclose() once it is     *)
(* called; nothing is assumed of the calls.                                *)
(***************************************************************************)
Spec ==
    /\ Init
    /\ [][Next]_vars
    /\ ListenerFairness
    /\ KeepAliveFairness
    /\ WF_vars(ListenerStopped) /\ WF_vars(CloseTransport)

-----------------------------------------------------------------------------

\* When the transport is closed the listener has ended, and no keep-alive is
\* left that could send another request.
TransportClosesLast ==
    closing = "closed" =>
        /\ pc \in Ended
        /\ \A w \in DOMAIN worker :
              Alive(w) => worker[w].cancel \/ worker[w].woken

\* aclose() returns.
AcloseReturns == (closing # "open") ~> (closing = "closed")

\* The listener is the task BotRuntime takes it for.
Promise == INSTANCE ClientTask WITH state <- ListenerState
ListenerKeepsPromise == Promise!Spec
=============================================================================
