------------------------------ MODULE KeepAlive ------------------------------
(***************************************************************************)
(* LoginClient's keep-alive: a worker that repeats SecAutoAuth, the event  *)
(* _stop_maint and the calls that start, stop and join the worker.  The    *)
(* worker clears the event in its first step, which runs only after the    *)
(* call that created it has returned to the event loop.                    *)
(***************************************************************************)
EXTENDS Naturals, FiniteSets

CONSTANTS
    Workers,    \* identities of workers; their number bounds the starts
    NoWorker,   \* no worker
    Eager       \* may a call come before the newest worker's first step?

ASSUME WorkerAssumption == NoWorker \notin Workers /\ Eager \in BOOLEAN

VARIABLES
    stopMaint,  \* _stop_maint
    current,    \* _maint_task
    worker,     \* the workers created so far: await, cancel request, wake-up
    joining     \* the worker that join_background_tasks waits for

kvars == <<stopMaint, current, worker, joining>>

Worker == [pc : {"new", "wait", "refresh", "done"},
           cancel : BOOLEAN, woken : BOOLEAN]

KeepAliveTypeOK ==
    /\ stopMaint \in BOOLEAN
    /\ current \in Workers \cup {NoWorker}
    /\ DOMAIN worker \subseteq Workers
    /\ worker \in [DOMAIN worker -> Worker]
    /\ joining \in Workers \cup {NoWorker}

KeepAliveInit ==
    /\ stopMaint = FALSE
    /\ current = NoWorker
    /\ worker = [w \in {} |-> [pc |-> "new", cancel |-> FALSE, woken |-> FALSE]]
    /\ joining = NoWorker

Alive(w) == w \in DOMAIN worker /\ worker[w].pc # "done"

-----------------------------------------------------------------------------
(* Calls.                                                                  *)

\* Does the event loop run the newest worker before the next call?
Settled == Eager \/ \A w \in DOMAIN worker : worker[w].pc # "new"

\* stop_keepalive: nothing when the event is set; else it wakes every worker
\* that waits for the event and cancels the current one.
Stopped ==
    IF stopMaint THEN worker
    ELSE [w \in DOMAIN worker |->
            [worker[w] EXCEPT !.woken = @ \/ worker[w].pc = "wait",
                              !.cancel = @ \/ (w = current /\ Alive(w))]]

StopKeepalive ==
    /\ Settled
    /\ stopMaint' = TRUE
    /\ worker' = Stopped
    /\ UNCHANGED <<current, joining>>

\* Variant: a worker that runs already is not stopped.
StartKeepaliveTwice ==
    /\ Settled
    /\ \E n \in Workers \ DOMAIN worker :
          /\ current' = n
          /\ worker' = [w \in DOMAIN worker \cup {n} |->
                          IF w = n THEN [pc |-> "new", cancel |-> FALSE,
                                         woken |-> FALSE]
                          ELSE worker[w]]
    /\ UNCHANGED <<stopMaint, joining>>

StartKeepalive ==
    /\ Settled
    /\ stopMaint' = TRUE
    /\ \E n \in Workers \ DOMAIN worker :
          /\ current' = n
          /\ worker' = [w \in DOMAIN worker \cup {n} |->
                          IF w = n THEN [pc |-> "new", cancel |-> FALSE,
                                         woken |-> FALSE]
                          ELSE Stopped[w]]
    /\ UNCHANGED joining

\* Variant: the worker is awaited without being stopped.
JoinOnly ==
    /\ Settled
    /\ joining = NoWorker
    /\ joining' = IF Alive(current) THEN current ELSE NoWorker
    /\ UNCHANGED <<stopMaint, worker, current>>

Join ==
    /\ Settled
    /\ joining = NoWorker
    /\ stopMaint' = TRUE
    /\ worker' = Stopped
    /\ joining' = IF Alive(current) THEN current ELSE NoWorker
    /\ UNCHANGED current

Joined ==
    /\ joining # NoWorker
    /\ ~Alive(joining)
    /\ joining' = NoWorker
    /\ UNCHANGED <<stopMaint, current, worker>>

-----------------------------------------------------------------------------
(* The worker.                                                             *)

Resumed(w, p) == w \in DOMAIN worker /\ worker[w].pc = p /\ ~worker[w].cancel

WorkerGoto(w, p) ==
    worker' = [worker EXCEPT ![w] = [pc |-> p, cancel |-> FALSE, woken |-> FALSE]]

WorkerFirstStep(w) ==
    /\ Resumed(w, "new")
    /\ stopMaint' = FALSE
    /\ WorkerGoto(w, "wait")
    /\ UNCHANGED <<current, joining>>

\* The wait ends by the event, or by its timeout: the loop then looks at the
\* event, and at the clock.
WaitEnds(w) ==
    /\ Resumed(w, "wait")
    /\ \/ (worker[w].woken \/ stopMaint) /\ WorkerGoto(w, "done")
       \/ ~worker[w].woken /\ ~stopMaint /\ WorkerGoto(w, "refresh")
    /\ UNCHANGED <<stopMaint, current, joining>>

\* SecAutoAuth answered, or failed; an exception sec_auto_login does not catch
\* ends the worker.
RefreshEnds(w) ==
    /\ Resumed(w, "refresh")
    /\ \/ ~stopMaint /\ WorkerGoto(w, "wait")
       \/ WorkerGoto(w, "done")
    /\ UNCHANGED <<stopMaint, current, joining>>

WorkerCancelled(w) ==
    /\ Alive(w)
    /\ worker[w].cancel
    /\ WorkerGoto(w, "done")
    /\ UNCHANGED <<stopMaint, current, joining>>

WorkerStep(w) ==
    WorkerFirstStep(w) \/ WaitEnds(w) \/ RefreshEnds(w) \/ WorkerCancelled(w)

\* The event loop resumes every worker: its waits and requests have timeouts.
KeepAliveFairness ==
    /\ \A w \in Workers : WF_kvars(WorkerStep(w))
    /\ WF_kvars(Joined)

-----------------------------------------------------------------------------
(* Properties.                                                             *)

\* At most one worker refreshes the session: all others are on their way out.
OneRefresher ==
    \A v, w \in DOMAIN worker :
        /\ Alive(v) /\ ~worker[v].cancel /\ ~worker[v].woken
        /\ Alive(w) /\ ~worker[w].cancel /\ ~worker[w].woken
        => v = w

\* login.py: join_background_tasks stops the worker and waits until it ended.
JoinReturns == (joining # NoWorker) ~> (joining = NoWorker)
=============================================================================
