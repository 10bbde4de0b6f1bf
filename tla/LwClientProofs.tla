---------------------------- MODULE LwClientProofs ----------------------------
(***************************************************************************)
(* Invariance proofs for LwClient, for every limit of reconnections and    *)
(* any number of keep-alive workers.                                       *)
(***************************************************************************)
EXTENDS LwClient, TLAPS

(***************************************************************************)
(* The message listener.  The count of failures is the count of failed     *)
(* connections, plus one after the loss of an established connection; it   *)
(* is below the limit while the listener runs.                             *)
(***************************************************************************)
Counts ==
    /\ gaveUp => pc = "done" /\ attempts >= MaxReconnect - 1
    /\ pc \in Steps => failures < MaxReconnect
    /\ pc \in {"connect", "sleep"} => attempts <= failures /\ failures <= attempts + 1
    /\ pc = "close" => failures <= attempts /\ attempts <= failures + 1
    /\ pc \in {"new", "receive", "dispatch", "poll", "pause"} =>
          failures = 0 /\ attempts = 0

\* A listener told to stop is cancelled, unless it unwinds already.
StopCancels ==
    stopEvent /\ pc \in Steps \ {"unwind"} => cancel

ListenerInv == ListenerTypeOK /\ Counts /\ StopCancels

LEMMA ListenerInitially == ListenerInit => ListenerInv
<1> SUFFICES ASSUME ListenerInit PROVE ListenerInv
  OBVIOUS
<1> USE DEF ListenerInit, Ended, Steps
<1>1. ListenerTypeOK
  <2>1. failures \in 0 .. MaxReconnect /\ attempts \in 0 .. MaxReconnect
    BY MaxReconnectAssumption
  <2> QED
    BY <2>1, Zenon DEF ListenerTypeOK
<1>2. Counts
  BY MaxReconnectAssumption DEF Counts
<1>3. StopCancels
  BY DEF StopCancels
<1> QED
  BY <1>1, <1>2, <1>3 DEF ListenerInv

LEMMA ListenerCalls ==
    ASSUME ListenerInv, NEW m \in {"websocket", "poll"}, NEW cb \in BOOLEAN,
           Start(m, cb) \/ Stop
    PROVE  ListenerInv'
<1> USE DEF ListenerInv, ListenerTypeOK, Ended, Steps
<1>1. CASE Start(m, cb)
  <2>1. ListenerTypeOK'
    <3>1. failures' \in 0 .. MaxReconnect /\ attempts' \in 0 .. MaxReconnect
      BY <1>1, MaxReconnectAssumption DEF Start
    <3> QED
      BY <1>1, <3>1, Zenon DEF Start
  <2>2. Counts'
    BY <1>1, MaxReconnectAssumption DEF Start, Counts
  <2>3. StopCancels'
    BY <1>1 DEF Start, StopCancels
  <2> QED
    BY <2>1, <2>2, <2>3
<1>2. CASE Stop
  <2>1. ListenerTypeOK'
    <3>1. cancel' = TRUE \/ cancel' = FALSE
      BY <1>2 DEF Stop
    <3> QED
      BY <1>2, <3>1, Zenon DEF Stop
  <2>2. Counts'
    BY <1>2 DEF Stop, Counts
  <2>3. StopCancels'
    BY <1>2 DEF Stop, StopCancels
  <2> QED
    BY <2>1, <2>2, <2>3
<1> QED
  BY <1>1, <1>2

LEMMA ListenerSteps ==
    ASSUME ListenerInv, ListenerStep
    PROVE  ListenerInv'
<1> USE MaxReconnectAssumption
    DEF MaxReconnectAssumption, ListenerInv, ListenerTypeOK, Counts,
        StopCancels, Ended, Steps,
        Resumes, Goto
<1>1. CASE FirstStep
  BY <1>1 DEF FirstStep
<1>2. CASE Connected
  BY <1>2 DEF Connected
<1>3. CASE ConnectFails
  BY <1>3 DEF ConnectFails
<1>4. CASE MessageReceived
  BY <1>4 DEF MessageReceived
<1>5. CASE ConnectionLost
  BY <1>5 DEF ConnectionLost
<1>6. CASE HandlerDone
  BY <1>6 DEF HandlerDone
<1>7. CASE SessionClosed
  BY <1>7 DEF SessionClosed
<1>8. CASE Slept
  BY <1>8 DEF Slept
<1>9. CASE PollReturns
  BY <1>9 DEF PollReturns
<1>10. CASE Paused
  BY <1>10 DEF Paused
<1>11. CASE Cancelled
  BY <1>11 DEF Cancelled
<1>12. CASE Unwound
  BY <1>12 DEF Unwound
<1> QED
  BY <1>1, <1>2, <1>3, <1>4, <1>5, <1>6, <1>7, <1>8, <1>9, <1>10, <1>11, <1>12
     DEF ListenerStep

LEMMA ListenerStutters ==
    ASSUME ListenerInv, UNCHANGED lvars
    PROVE  ListenerInv'
  BY DEF ListenerInv, ListenerTypeOK, Counts, StopCancels, lvars

LEMMA ListenerNext == ListenerInv /\ [Next]_vars => ListenerInv'
<1> SUFFICES ASSUME ListenerInv, [Next]_vars PROVE ListenerInv'
  OBVIOUS
<1>1. CASE ListenerCall \/ Aclose
  BY <1>1, ListenerCalls DEF ListenerCall, Aclose
<1>2. CASE ListenerRuns
  BY <1>2, ListenerSteps DEF ListenerRuns
<1>3. CASE UNCHANGED lvars
  BY <1>3, ListenerStutters
<1> QED
  BY <1>1, <1>2, <1>3
     DEF Next, KeepaliveCall, WorkerRuns, JoinEnds, ListenerStopped,
         CloseTransport, vars

LEMMA ListenerInvariant == Spec => []ListenerInv
  BY ListenerInitially, ListenerNext, PTL DEF Spec, Init

\* The least the code does keep of GivesUpAtLimit, which it breaks: when the
\* exhaustion callback is called, all reconnections but one have failed in a row,
\* as the loss of the connection before them was counted like a failed one
\* (_ws_loop).
THEOREM CallbackAfterFailures == Spec => [](gaveUp => attempts >= MaxReconnect - 1)
<1>1. ListenerInv => (gaveUp => attempts >= MaxReconnect - 1)
  BY DEF ListenerInv, Counts
<1> QED
  BY <1>1, ListenerInvariant, PTL

\* After stop() no further message is handed to the message handler.
THEOREM StoppedListenerIsSilent == Spec => NoDispatchAfterStop
<1> DEFINE Silent == stopEvent /\ pc # "dispatch" => pc' # "dispatch"
<1>1. ListenerInv /\ [Next]_vars => [Silent]_lvars
  <2> SUFFICES ASSUME ListenerInv, [Next]_vars, lvars' # lvars, stopEvent,
                      pc # "dispatch"
               PROVE  pc' # "dispatch"
    OBVIOUS
  <2>1. CASE ListenerCall \/ Aclose
    BY <2>1 DEF ListenerCall, Aclose, Start, Stop
  <2>2. CASE ListenerRuns
    BY <2>2
       DEF ListenerRuns, ListenerStep, FirstStep, Connected, ConnectFails,
           MessageReceived, ConnectionLost, HandlerDone, SessionClosed, Slept,
           PollReturns, Paused, Cancelled, Unwound, Resumes, Goto, ListenerInv,
           StopCancels, Steps
  <2> QED
    BY <2>1, <2>2
       DEF Next, KeepaliveCall, WorkerRuns, JoinEnds, ListenerStopped,
           CloseTransport, vars
<1> QED
  BY <1>1, ListenerInvariant, PTL DEF Spec, NoDispatchAfterStop

\* The safety half of ListenerKeepsPromise: the listener starts, is asked to stop
\* and ends as BotRuntime takes it to; above all, one that is asked to stop
\* does not run on: it has to end before it can be started again.
THEOREM ListenerIsClientTask ==
    Spec => Promise!Init /\ [][Promise!Next]_ListenerState
<1>1. Init => Promise!Init
  BY DEF Init, ListenerInit, Promise!Init, ListenerState, Ended
<1>2. ListenerInv /\ [Next]_vars => [Promise!Next]_ListenerState
  <2> SUFFICES ASSUME ListenerInv, [Next]_vars,
                      ListenerState' # ListenerState
               PROVE  Promise!Next
    OBVIOUS
  <2> USE DEF ListenerState, Ended, Steps, ListenerInv, ListenerTypeOK
  <2>1. CASE ListenerCall \/ Aclose
    <3>1. ASSUME NEW m \in {"websocket", "poll"}, NEW cb \in BOOLEAN, Start(m, cb)
          PROVE  Promise!Start
      BY <3>1 DEF Start, Promise!Start
    <3>2. CASE Stop
      <4>1. pc' = pc /\ stopEvent' = TRUE
        BY <3>2 DEF Stop
      <4>2. pc \notin Ended /\ ~stopEvent
        BY <4>1
      <4> QED BY <4>1, <4>2 DEF Promise!Next, Promise!Cancel
    <3> QED BY <2>1, <3>1, <3>2 DEF ListenerCall, Aclose, Promise!Next
  <2>2. CASE ListenerRuns
    <3>1. stopEvent' = stopEvent /\ pc \notin Ended
      BY <2>2
         DEF ListenerRuns, ListenerStep, FirstStep, Connected, ConnectFails,
             MessageReceived, ConnectionLost, HandlerDone, SessionClosed, Slept,
             PollReturns, Paused, Cancelled, Unwound, Resumes, Goto
    <3> QED BY <3>1 DEF Promise!Next, Promise!EndByItself, Promise!End
  <2>3. CASE UNCHANGED lvars
    BY <2>3 DEF lvars
  <2> QED
    BY <2>1, <2>2, <2>3
       DEF Next, KeepaliveCall, WorkerRuns, JoinEnds, ListenerStopped,
           CloseTransport, vars
<1> QED
  BY <1>1, <1>2, ListenerInvariant, PTL DEF Spec

(***************************************************************************)
(* The keep-alive, when every call finds the newest worker past its first  *)
(* step.  A healthy worker is one that was not asked to stop: it is the    *)
(* current one, and the event is set only until its first step.            *)
(***************************************************************************)
Ordered == Eager = FALSE

Stops(r) == r.pc = "done" \/ r.cancel \/ r.woken

OnlyCurrentRuns ==
    \A w \in DOMAIN worker :
        /\ worker[w].woken => worker[w].pc = "wait"
        /\ Stops(worker[w]) \/ (w = current /\ (stopMaint => worker[w].pc = "new"))

KeepAliveInv == KeepAliveTypeOK /\ OnlyCurrentRuns

\* stop_keepalive asks every worker to stop, and none changes its await.
LEMMA StoppedWorkers ==
    ASSUME Ordered, KeepAliveInv, Settled
    PROVE  /\ DOMAIN Stopped = DOMAIN worker
           /\ Stopped \in [DOMAIN worker -> Worker]
           /\ \A w \in DOMAIN worker :
                 /\ Stops(Stopped[w])
                 /\ Stopped[w].pc = worker[w].pc
                 /\ Stopped[w].woken => worker[w].pc = "wait"
<1> USE DEF KeepAliveInv, KeepAliveTypeOK, OnlyCurrentRuns
<1>1. \A w \in DOMAIN worker : worker[w].pc # "new"
  BY DEF Settled, Ordered
<1>2. CASE stopMaint
  BY <1>1, <1>2 DEF Stopped
<1>3. CASE ~stopMaint
  <2> DEFINE Rec(w) ==
        [worker[w] EXCEPT !.woken = @ \/ worker[w].pc = "wait",
                          !.cancel = @ \/ (w = current /\ Alive(w))]
  <2>1. Stopped = [w \in DOMAIN worker |-> Rec(w)]
    BY <1>3 DEF Stopped
  <2>2. ASSUME NEW w \in DOMAIN worker
        PROVE  /\ Rec(w) \in Worker /\ Stops(Rec(w))
               /\ Rec(w).pc = worker[w].pc
               /\ Rec(w).woken => worker[w].pc = "wait"
    BY <2>2 DEF Worker, Stops, Alive
  <2> HIDE DEF Rec
  <2> QED
    BY <2>1, <2>2
<1> QED
  BY <1>2, <1>3

LEMMA KeepAliveInitially == KeepAliveInit => KeepAliveInv
  BY DEF KeepAliveInit, KeepAliveInv, KeepAliveTypeOK, OnlyCurrentRuns

\* The calls that only stop: stop_keepalive, join_background_tasks.
LEMMA StopCalls ==
    ASSUME Ordered, KeepAliveInv, Settled, stopMaint' = TRUE,
           worker' = Stopped, UNCHANGED current,
           joining' \in Workers \cup {NoWorker}
    PROVE  KeepAliveInv'
<1>1. KeepAliveTypeOK'
  BY StoppedWorkers DEF KeepAliveInv, KeepAliveTypeOK
<1>2. ASSUME NEW w \in DOMAIN worker'
      PROVE  Stops(worker'[w]) /\ (worker'[w].woken => worker'[w].pc = "wait")
  BY StoppedWorkers
<1>3. OnlyCurrentRuns'
  BY <1>2 DEF OnlyCurrentRuns, Stops
<1> QED
  BY <1>1, <1>3 DEF KeepAliveInv

LEMMA StartCall ==
    ASSUME Ordered, KeepAliveInv, StartKeepalive
    PROVE  KeepAliveInv'
<1>1. PICK n \in Workers \ DOMAIN worker :
        /\ current' = n
        /\ worker' = [w \in DOMAIN worker \cup {n} |->
                        IF w = n THEN [pc |-> "new", cancel |-> FALSE,
                                       woken |-> FALSE]
                        ELSE Stopped[w]]
  BY DEF StartKeepalive
<1>2. Settled /\ stopMaint' = TRUE /\ joining' = joining
  BY DEF StartKeepalive
<1>3. [pc |-> "new", cancel |-> FALSE, woken |-> FALSE] \in Worker
  BY DEF Worker
<1>4. KeepAliveTypeOK'
  BY <1>1, <1>2, <1>3, StoppedWorkers DEF KeepAliveInv, KeepAliveTypeOK
<1>5. ASSUME NEW w \in DOMAIN worker'
      PROVE  /\ worker'[w].woken => worker'[w].pc = "wait"
             /\ Stops(worker'[w]) \/ (w = current' /\ worker'[w].pc = "new")
  <2>1. CASE w = n
    BY <1>1, <2>1
  <2>2. CASE w # n
    BY <1>1, <1>2, <2>2, StoppedWorkers
  <2> QED
    BY <2>1, <2>2
<1>6. OnlyCurrentRuns'
  BY <1>5 DEF OnlyCurrentRuns, Stops
<1> QED
  BY <1>4, <1>6 DEF KeepAliveInv

LEMMA KeepAliveCalls ==
    ASSUME Ordered, KeepAliveInv, StartKeepalive \/ StopKeepalive \/ Join
    PROVE  KeepAliveInv'
<1>1. CASE StartKeepalive
  BY <1>1, StartCall
<1>2. CASE StopKeepalive
  BY <1>2, StopCalls DEF StopKeepalive, KeepAliveInv, KeepAliveTypeOK
<1>3. CASE Join
  BY <1>3, StopCalls DEF Join, KeepAliveInv, KeepAliveTypeOK, Alive
<1> QED
  BY <1>1, <1>2, <1>3

LEMMA WorkerMoves ==
    ASSUME KeepAliveInv, NEW w \in DOMAIN worker,
           NEW p \in {"wait", "refresh", "done"},
           WorkerGoto(w, p), UNCHANGED <<current, joining>>,
           stopMaint' \in BOOLEAN,
           stopMaint' => stopMaint,
           p # "done" => ~Stops(worker[w]) /\ ~stopMaint'
    PROVE  KeepAliveInv'
<1> DEFINE r == [pc |-> p, cancel |-> FALSE, woken |-> FALSE]
<1>1. worker' = [worker EXCEPT ![w] = r] /\ r \in Worker
  BY DEF WorkerGoto, Worker
<1>2. KeepAliveTypeOK'
  BY <1>1 DEF KeepAliveInv, KeepAliveTypeOK
<1>3. ASSUME NEW v \in DOMAIN worker'
      PROVE  /\ worker'[v].woken => worker'[v].pc = "wait"
             /\ Stops(worker'[v])
                  \/ (v = current' /\ (stopMaint' => worker'[v].pc = "new"))
  <2>1. CASE v # w
    <3>1. worker'[v] = worker[v] /\ v \in DOMAIN worker
      BY <1>1, <2>1 DEF KeepAliveInv, KeepAliveTypeOK
    <3> QED
      BY <3>1 DEF KeepAliveInv, OnlyCurrentRuns
  <2>2. CASE v = w /\ p = "done"
    BY <1>1, <2>2 DEF KeepAliveInv, KeepAliveTypeOK, Stops
  <2>3. CASE v = w /\ p # "done"
    <3>1. w = current /\ ~stopMaint'
      BY <2>3 DEF KeepAliveInv, OnlyCurrentRuns
    <3> QED
      BY <1>1, <2>3, <3>1 DEF KeepAliveInv, KeepAliveTypeOK
  <2> QED
    BY <2>1, <2>2, <2>3
<1>4. OnlyCurrentRuns'
  BY <1>3 DEF OnlyCurrentRuns, Stops
<1> QED
  BY <1>2, <1>4 DEF KeepAliveInv

LEMMA KeepAliveSteps ==
    ASSUME KeepAliveInv, NEW w \in Workers, WorkerStep(w)
    PROVE  KeepAliveInv'
<1> USE DEF KeepAliveInv, KeepAliveTypeOK
<1>1. CASE WorkerFirstStep(w)
  BY <1>1, WorkerMoves DEF WorkerFirstStep, Resumed, OnlyCurrentRuns, Stops
<1>2. CASE WaitEnds(w)
  BY <1>2, WorkerMoves DEF WaitEnds, Resumed, Stops
<1>3. CASE RefreshEnds(w)
  BY <1>3, WorkerMoves DEF RefreshEnds, Resumed, OnlyCurrentRuns, Stops
<1>4. CASE WorkerCancelled(w)
  BY <1>4, WorkerMoves DEF WorkerCancelled, Alive
<1> QED
  BY <1>1, <1>2, <1>3, <1>4 DEF WorkerStep

LEMMA KeepAliveStutters ==
    ASSUME KeepAliveInv, UNCHANGED <<stopMaint, current, worker>>,
           joining' \in Workers \cup {NoWorker}
    PROVE  KeepAliveInv'
  BY DEF KeepAliveInv, KeepAliveTypeOK, OnlyCurrentRuns

(***************************************************************************)
(* The client.  Once aclose() was called no worker is new, so that nothing *)
(* clears the event any more; once it waits for the keep-alive, every      *)
(* worker was asked to stop.                                               *)
(***************************************************************************)
Stages == {"open", "awaitListener", "awaitKeepalive", "closed"}

ClosesInOrder ==
    /\ closing \in Stages
    /\ closing # "open" => \A w \in DOMAIN worker : worker[w].pc # "new"
    /\ closing \in {"awaitKeepalive", "closed"} =>
          /\ pc \in Ended
          /\ stopMaint
          /\ \A w \in DOMAIN worker : Stops(worker[w])

ClientInv == KeepAliveInv /\ ClosesInOrder

LEMMA KeepAliveNext ==
    ASSUME Ordered, ClientInv, [Next]_vars
    PROVE  KeepAliveInv'
<1> USE DEF ClientInv
<1>1. CASE KeepaliveCall
  BY <1>1, KeepAliveCalls DEF KeepaliveCall
<1>2. ASSUME NEW w \in Workers, WorkerRuns(w) PROVE KeepAliveInv'
  BY <1>2, KeepAliveSteps DEF WorkerRuns
<1>3. CASE JoinEnds
  BY <1>3, KeepAliveStutters DEF JoinEnds, Joined
<1>4. CASE ListenerStopped
  <2>1. Settled
    BY <1>4 DEF ListenerStopped, ClosesInOrder, Settled
  <2> QED
    BY <1>4, <2>1, StopCalls DEF ListenerStopped, KeepAliveInv, KeepAliveTypeOK
<1>5. CASE UNCHANGED kvars
  BY <1>5, KeepAliveStutters DEF kvars, KeepAliveInv, KeepAliveTypeOK
<1> QED
  BY <1>1, <1>2, <1>3, <1>4, <1>5
     DEF Next, ListenerCall, ListenerRuns, Aclose, CloseTransport, vars

LEMMA ListenerStepRuns == ASSUME ListenerStep PROVE pc \notin Ended
  BY DEF ListenerStep, FirstStep, Connected, ConnectFails, MessageReceived,
         ConnectionLost, HandlerDone, SessionClosed, Slept, PollReturns, Paused,
         Cancelled, Unwound, Resumes, Steps, Ended

\* While the event is set a worker that is past its first step only ends.
LEMMA WorkerStepEnds ==
    ASSUME KeepAliveInv, NEW w \in Workers, WorkerStep(w), worker[w].pc # "new"
    PROVE  /\ stopMaint' = stopMaint
           /\ w \in DOMAIN worker
           /\ \E p \in {"wait", "refresh", "done"} :
                 WorkerGoto(w, p) /\ (stopMaint => p = "done")
  BY DEF WorkerStep, WorkerFirstStep, WaitEnds, RefreshEnds, WorkerCancelled,
         Resumed, Alive

LEMMA ClosesNext ==
    ASSUME Ordered, ClientInv, [Next]_vars
    PROVE  ClosesInOrder'
<1> USE DEF ClientInv
<1>1. CASE ListenerCall \/ KeepaliveCall
  BY <1>1 DEF ListenerCall, KeepaliveCall, ClosesInOrder
<1>2. CASE ListenerRuns
  BY <1>2, ListenerStepRuns DEF ListenerRuns, kvars, ClosesInOrder, Stops
<1>3. ASSUME NEW w \in Workers, WorkerRuns(w) PROVE ClosesInOrder'
  <2>1. CASE closing = "open"
    BY <1>3, <2>1 DEF WorkerRuns, ClosesInOrder
  <2>2. CASE closing # "open"
    <3>1. w \in DOMAIN worker
      BY <1>3 DEF WorkerRuns, WorkerStep, WorkerFirstStep, WaitEnds, RefreshEnds,
                  WorkerCancelled, Resumed, Alive
    <3>2. PICK p \in {"wait", "refresh", "done"} :
             /\ WorkerGoto(w, p) /\ (stopMaint => p = "done")
             /\ stopMaint' = stopMaint
      BY <1>3, <2>2, <3>1, WorkerStepEnds DEF WorkerRuns, ClosesInOrder
    <3>3. ASSUME NEW v \in DOMAIN worker'
          PROVE  /\ v \in DOMAIN worker
                 /\ worker'[v].pc # "new"
                 /\ stopMaint /\ Stops(worker[v]) => Stops(worker'[v])
      <4>1. v \in DOMAIN worker
        BY <3>2 DEF WorkerGoto
      <4>2. CASE v = w
        BY <3>1, <3>2, <4>2 DEF WorkerGoto, Stops
      <4>3. CASE v # w
        <5>1. worker'[v] = worker[v]
          BY <3>2, <4>1, <4>3 DEF WorkerGoto
        <5> QED
          BY <2>2, <4>1, <5>1 DEF ClosesInOrder
      <4> QED
        BY <4>1, <4>2, <4>3
    <3>4. pc' = pc /\ closing' = closing
      BY <1>3 DEF WorkerRuns, lvars
    <3> QED
      BY <2>2, <3>2, <3>3, <3>4 DEF ClosesInOrder, Stops
  <2> QED
    BY <2>1, <2>2
<1>4. CASE JoinEnds
  BY <1>4 DEF JoinEnds, Joined, lvars, ClosesInOrder, Stops
<1>5. CASE Aclose
  BY <1>5 DEF Aclose, kvars, Settled, Ordered, ClosesInOrder, Stages
<1>6. CASE ListenerStopped
  <2>1. Settled
    BY <1>6 DEF ListenerStopped, ClosesInOrder, Settled
  <2>2. /\ DOMAIN worker' = DOMAIN worker
        /\ \A w \in DOMAIN worker : Stops(worker'[w]) /\ worker'[w].pc = worker[w].pc
    BY <1>6, <2>1, StoppedWorkers DEF ListenerStopped
  <2>3. /\ pc' \in Ended /\ stopMaint' = TRUE /\ closing' = "awaitKeepalive"
        /\ \A w \in DOMAIN worker : worker[w].pc # "new"
    BY <1>6 DEF ListenerStopped, lvars, ClosesInOrder
  <2> QED
    BY <2>2, <2>3 DEF ClosesInOrder, Stages, Stops
<1>7. CASE CloseTransport
  BY <1>7 DEF CloseTransport, lvars, kvars, ClosesInOrder, Stages, Stops
<1>8. CASE UNCHANGED vars
  BY <1>8 DEF vars, lvars, kvars, ClosesInOrder, Stops
<1> QED
  BY <1>1, <1>2, <1>3, <1>4, <1>5, <1>6, <1>7, <1>8 DEF Next

LEMMA ClientInvariant ==
    ASSUME Ordered
    PROVE  Spec => []ClientInv
<1>1. Init => ClientInv
  BY KeepAliveInitially DEF Init, KeepAliveInit, ClientInv, ClosesInOrder, Stages
<1>2. ClientInv /\ [Next]_vars => ClientInv'
  BY KeepAliveNext, ClosesNext DEF ClientInv
<1> QED
  BY <1>1, <1>2, PTL DEF Spec

\* Every reachable state of the client is well typed.
THEOREM TypeCorrect ==
    ASSUME Ordered
    PROVE  Spec => []TypeOK
<1>1. ListenerInv /\ ClientInv => TypeOK
  BY DEF ListenerInv, ClientInv, KeepAliveInv, ClosesInOrder, Stages, TypeOK
<1> QED
  BY <1>1, ListenerInvariant, ClientInvariant, PTL

\* However often the keep-alive is started, stopped and joined, at most one
\* worker goes on refreshing the session.
THEOREM AtMostOneRefresher ==
    ASSUME Ordered
    PROVE  Spec => []OneRefresher
<1>1. ClientInv => OneRefresher
  <2> SUFFICES ASSUME ClientInv, NEW v \in DOMAIN worker, NEW w \in DOMAIN worker,
                      Alive(v), ~worker[v].cancel, ~worker[v].woken,
                      Alive(w), ~worker[w].cancel, ~worker[w].woken
               PROVE  v = w
    BY DEF OneRefresher
  <2>1. ~Stops(worker[v]) /\ ~Stops(worker[w])
    BY DEF Alive, Stops
  <2> QED
    BY <2>1 DEF ClientInv, KeepAliveInv, OnlyCurrentRuns
<1> QED
  BY <1>1, ClientInvariant, PTL

\* aclose() closes the transport only when the listener has ended and every
\* keep-alive worker was told to stop.
THEOREM TransportClosesAfterTasks ==
    ASSUME Ordered
    PROVE  Spec => []TransportClosesLast
<1>1. ClientInv => TransportClosesLast
  BY DEF ClientInv, ClosesInOrder, TransportClosesLast, Alive, Stops
<1> QED
  BY <1>1, ClientInvariant, PTL
=============================================================================
