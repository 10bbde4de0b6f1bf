----------------------------- MODULE BotRuntime -----------------------------
(***************************************************************************)
(* The bot runtime of the account manager: BotService keeps one asyncio    *)
(* task per row of accounts.json; each task logs in, starts the message    *)
(* listener and the keep-alive of its LwApiClient, registers the client,   *)
(* and unwinds all of it when it is cancelled or the listener gives up.    *)
(*                                                                         *)
(* The event loop runs one coroutine at a time, so an action is the code   *)
(* between two suspension points of a coroutine.  task.cancel() raises     *)
(* CancelledError at the next resumption of the task: a step of a bot is   *)
(* either a Resumes step or an Interrupted one.  The exceptions are the    *)
(* awaits of aclose() on the listener and on the keep-alive, which pass    *)
(* the cancellation on to a task that is being cancelled anyway and        *)
(* swallow the CancelledError that comes back.                             *)
(***************************************************************************)
EXTENDS FiniteSets

CONSTANTS
    Slots,      \* rows of accounts.json
    Tasks,      \* identities of bot tasks; their number bounds the starts
    Wxids,      \* WeChat ids
    WxidOf,     \* the id the account of a row logs in as
    NoTask,     \* an absent entry of BotService._tasks
    NoClient,   \* an absent entry of ClientRegistry._by_wxid
    Overlap,    \* may a row be started while its stop request still waits?
    HookFault   \* may reading the list of enabled plugins raise?

ASSUME ConstantAssumption ==
    /\ WxidOf \in [Slots -> Wxids]
    /\ NoTask \notin Tasks
    /\ NoClient \notin [task : Tasks, open : BOOLEAN]
    /\ Overlap \in BOOLEAN
    /\ HookFault \in BOOLEAN

VARIABLES
    tasks,      \* BotService._tasks: row -> task
    bot,        \* the tasks created so far, with their local state
    pending,    \* BotService._login_pending
    registry,   \* ClientRegistry._by_wxid: wxid -> client, and is it open
    botTasks    \* bot_tasks._tasks_by_wxid: wxid -> bots that own a live task

vars == <<tasks, bot, pending, registry, botTasks>>

(***************************************************************************)
(* Where a bot task is suspended.  "announce", "greet" and "notice" are    *)
(* awaits of emit; "gather" is the wait of cancel_tasks_for_wxid;          *)
(* "backoff" is the emit and the sleep after an error.                     *)
(***************************************************************************)
Phases == {"created", "login", "announce", "greet", "onlineHooks", "hold",
           "gather", "offlineHooks", "notice", "backoff",
           "waitListener", "joinKeepalive", "closeTransport", "done"}

\* A task of the client: the listener (MsgClient._task) or the keep-alive.
TaskStates == {"off", "running", "cancelling"}

(***************************************************************************)
(* cancel  : CancelledError will be raised when the task resumes           *)
(* stopped : stop_for_account has cancelled the task (it still waits for   *)
(*           it unless the task is done)                                   *)
(* exit    : how the client's `async with' block is left, once it is:      *)
(*           another round of the loop, `break', or CancelledError         *)
(* gaveUp  : ws_gave_up, with the future `hold' resolved                   *)
(***************************************************************************)
Bot == [slot : Slots, phase : Phases, cancel : BOOLEAN, stopped : BOOLEAN,
        exit : {"loop", "break", "raise"}, gaveUp : BOOLEAN,
        listener : TaskStates, keepalive : TaskStates]

NewBot(s) == [slot |-> s, phase |-> "created", cancel |-> FALSE,
              stopped |-> FALSE, exit |-> "loop", gaveUp |-> FALSE,
              listener |-> "off", keepalive |-> "off"]

Client(t) == [task |-> t, open |-> TRUE]

TypeOK ==
    /\ tasks \in [Slots -> Tasks \cup {NoTask}]
    /\ DOMAIN bot \subseteq Tasks
    /\ bot \in [DOMAIN bot -> Bot]
    /\ pending \subseteq Slots
    /\ registry \in [Wxids -> [task : Tasks, open : BOOLEAN] \cup {NoClient}]
    /\ botTasks \in [Wxids -> SUBSET Tasks]

Init ==
    /\ tasks = [s \in Slots |-> NoTask]
    /\ bot = [t \in {} |-> NewBot(CHOOSE s \in Slots : TRUE)]
    /\ pending = {}
    /\ registry = [w \in Wxids |-> NoClient]
    /\ botTasks = [w \in Wxids |-> {}]

-----------------------------------------------------------------------------

Live(t) == t \in DOMAIN bot /\ bot[t].phase # "done"

Wxid(t) == WxidOf[bot[t].slot]

At(t, p) == t \in DOMAIN bot /\ bot[t].phase = p

\* The task resumes normally from its await, or with CancelledError.
Resumes(t, p) == At(t, p) /\ ~bot[t].cancel
Interrupted(t, p) == At(t, p) /\ bot[t].cancel

Goto(t, p) == bot' = [bot EXCEPT ![t].phase = p]

\* Variant: the keep-alive is cancelled but not waited for.
CloseNextNoJoin(b) ==
    LET waiting == b.listener # "off"
    IN [b EXCEPT !.cancel = FALSE,
                 !.keepalive = IF waiting \/ @ = "off" THEN @ ELSE "cancelling",
                 !.phase = IF waiting THEN "waitListener" ELSE "closeTransport"]

(***************************************************************************)
(* `async with' is left and aclose() runs up to its first suspension: the  *)
(* client is marked closed, the listener is cancelled, and only when there *)
(* is no listener to wait for is the keep-alive cancelled as well.         *)
(***************************************************************************)
CloseNext(b) ==
    LET waiting == b.listener # "off"
    IN [b EXCEPT !.cancel = FALSE,
                 !.keepalive = IF waiting \/ @ = "off" THEN @ ELSE "cancelling",
                 !.phase = IF waiting THEN "waitListener"
                           ELSE IF b.keepalive # "off" THEN "joinKeepalive"
                           ELSE "closeTransport"]

Closing(b, exit) ==
    CloseNext([b EXCEPT !.exit = exit,
                        !.listener = IF @ = "off" THEN @ ELSE "cancelling"])

MarkClosed(t) ==
    [w \in Wxids |->
        IF registry[w] = Client(t) THEN [task |-> t, open |-> FALSE]
                                   ELSE registry[w]]

Aclose(t, exit) ==
    /\ bot' = [bot EXCEPT ![t] = Closing(@, exit)]
    /\ registry' = MarkClosed(t)

\* Where a hook of `phase' p leads: the list of enabled plugins is read first.
Lookup(p) == {p} \cup (IF HookFault THEN {"backoff"} ELSE {})

\* The `finally' of `await hold': notify_bot_offline up to its first suspension.
Offline(t, exit) ==
    /\ botTasks' = [botTasks EXCEPT ![Wxid(t)] = {}]
    /\ \E p \in IF botTasks[Wxid(t)] # {} THEN {"gather"}
                                          ELSE Lookup("offlineHooks") :
          bot' = [bot EXCEPT ![t] = [@ EXCEPT !.phase = p, !.exit = exit,
                                              !.cancel = FALSE]]
    /\ UNCHANGED <<tasks, pending, registry>>

-----------------------------------------------------------------------------
(* Requests to the service.                                                *)

\* Variant: a new bot replaces the one that still runs.
StartOneUnchecked(s) ==
    /\ \E t \in Tasks \ DOMAIN bot :
          /\ tasks' = [tasks EXCEPT ![s] = t]
          /\ bot' = [u \in DOMAIN bot \cup {t} |->
                        IF u = t THEN NewBot(s) ELSE bot[u]]
    /\ UNCHANGED <<pending, registry, botTasks>>

StartOne(s) ==
    /\ tasks[s] = NoTask \/ ~Live(tasks[s])
    /\ Overlap \/ \A u \in DOMAIN bot : bot[u].slot = s => ~Live(u)
    /\ \E t \in Tasks \ DOMAIN bot :
          /\ tasks' = [tasks EXCEPT ![s] = t]
          /\ bot' = [u \in DOMAIN bot \cup {t} |->
                        IF u = t THEN NewBot(s) ELSE bot[u]]
    /\ UNCHANGED <<pending, registry, botTasks>>

StopForAccount(s) ==
    /\ tasks' = [tasks EXCEPT ![s] = NoTask]
    /\ pending' = IF tasks[s] = NoTask THEN pending \ {s} ELSE pending
    /\ bot' = IF tasks[s] # NoTask /\ Live(tasks[s])
              THEN [bot EXCEPT ![tasks[s]] =
                       [@ EXCEPT !.cancel = TRUE, !.stopped = TRUE]]
              ELSE bot
    /\ UNCHANGED <<registry, botTasks>>

-----------------------------------------------------------------------------
(* The steps of a bot task.                                                *)

FirstStep(t) ==
    /\ Resumes(t, "created")
    /\ pending' = pending \cup {bot[t].slot}
    /\ Goto(t, "login")
    /\ UNCHANGED <<tasks, registry, botTasks>>

LoginSucceeds(t) ==
    /\ Resumes(t, "login")
    /\ pending' = pending \ {bot[t].slot}
    /\ Goto(t, "announce")
    /\ UNCHANGED <<tasks, registry, botTasks>>

\* LoginError or any other exception of the login or of saving accounts.json;
\* "notice": the user refused the QR code, the loop is left.
LoginFails(t) ==
    /\ Resumes(t, "login")
    /\ \E p \in {"backoff", "notice"} : Goto(t, p)
    /\ UNCHANGED <<tasks, pending, registry, botTasks>>

\* The timeout of the QR code cancels the task that fetches its states: when it
\* fires while that task waits for a viewer in emit, CancelledError leaves the
\* login as it does for a stop.
LoginTimesOut(t) ==
    /\ Resumes(t, "login")
    /\ Aclose(t, "raise")
    /\ UNCHANGED <<tasks, pending, botTasks>>

StartListening(t) ==
    /\ Resumes(t, "announce")
    /\ bot' = [bot EXCEPT ![t] = [@ EXCEPT !.phase = "greet", !.gaveUp = FALSE,
                                           !.listener = "running",
                                           !.keepalive = "running"]]
    /\ UNCHANGED <<tasks, pending, registry, botTasks>>

\* Variant: a client already registered for the wxid is kept.
RegisterClientOnce(t) ==
    /\ Resumes(t, "greet")
    /\ registry' = [registry EXCEPT ![Wxid(t)] =
                       IF @ = NoClient THEN Client(t) ELSE @]
    /\ \E p \in Lookup("onlineHooks") : Goto(t, p)
    /\ UNCHANGED <<tasks, pending, botTasks>>

RegisterClient(t) ==
    /\ Resumes(t, "greet")
    /\ registry' = [registry EXCEPT ![Wxid(t)] = Client(t)]
    /\ \E p \in Lookup("onlineHooks") : Goto(t, p)
    /\ UNCHANGED <<tasks, pending, botTasks>>

OnlineHooksDone(t) ==
    /\ Resumes(t, "onlineHooks")
    /\ ~bot[t].gaveUp
    /\ Goto(t, "hold")
    /\ UNCHANGED <<tasks, pending, registry, botTasks>>

\* `await hold' returns, at once if it was resolved during the online hooks.
HoldReleased(t) ==
    /\ Resumes(t, "hold") \/ Resumes(t, "onlineHooks")
    /\ bot[t].gaveUp
    /\ Offline(t, "break")

HoldCancelled(t) ==
    /\ Interrupted(t, "hold")
    /\ Offline(t, "raise")

BotTasksGathered(t) ==
    /\ Resumes(t, "gather")
    /\ \E p \in Lookup("offlineHooks") : Goto(t, p)
    /\ UNCHANGED <<tasks, pending, registry, botTasks>>

\* Variant: the loop goes on after the listener gave up.
OfflineHooksDoneNoBreak(t) ==
    /\ Resumes(t, "offlineHooks")
    /\ registry' = [registry EXCEPT ![Wxid(t)] = NoClient]
    /\ bot' = [bot EXCEPT ![t] = IF @.exit = "raise" THEN Closing(@, "raise")
                                                     ELSE Closing(@, "loop")]
    /\ UNCHANGED <<tasks, pending, botTasks>>

\* Variant: the client of a bot that goes offline stays registered.
OfflineHooksDoneStays(t) ==
    /\ Resumes(t, "offlineHooks")
    /\ bot' = [bot EXCEPT ![t] = IF @.exit = "raise"
                                 THEN Closing(@, "raise")
                                 ELSE [@ EXCEPT !.phase = "notice"]]
    /\ registry' = IF bot[t].exit = "raise" THEN MarkClosed(t) ELSE registry
    /\ UNCHANGED <<tasks, pending, botTasks>>

\* unregister_online_client pops by wxid, whoever's client is there; then
\* CancelledError goes on, or `bot_stopped' is emitted.
OfflineHooksDone(t) ==
    /\ Resumes(t, "offlineHooks")
    /\ registry' = [registry EXCEPT ![Wxid(t)] = NoClient]
    /\ bot' = [bot EXCEPT ![t] = IF @.exit = "raise"
                                 THEN Closing(@, "raise")
                                 ELSE [@ EXCEPT !.phase = "notice"]]
    /\ UNCHANGED <<tasks, pending, botTasks>>

NoticeSent(t) ==
    /\ Resumes(t, "notice")
    /\ Aclose(t, "break")
    /\ UNCHANGED <<tasks, pending, botTasks>>

BackoffDone(t) ==
    /\ Resumes(t, "backoff")
    /\ Aclose(t, "loop")
    /\ UNCHANGED <<tasks, pending, botTasks>>

\* Variant: CancelledError is logged and not raised again.
CancelledInBodyCaught(t) ==
    /\ \E p \in {"login", "announce", "greet", "onlineHooks", "gather",
                 "offlineHooks", "notice", "backoff"} : Interrupted(t, p)
    /\ Aclose(t, "loop")
    /\ UNCHANGED <<tasks, pending, botTasks>>

\* CancelledError inside `async with', but not while `hold' is awaited.
CancelledInBody(t) ==
    /\ \E p \in {"login", "announce", "greet", "onlineHooks", "gather",
                 "offlineHooks", "notice", "backoff"} : Interrupted(t, p)
    /\ Aclose(t, "raise")
    /\ UNCHANGED <<tasks, pending, botTasks>>

\* wait_stop swallows a CancelledError, whoever it was meant for.
ListenerAwaited(t) ==
    /\ At(t, "waitListener")
    /\ bot[t].listener = "off"
    /\ bot' = [bot EXCEPT ![t] = CloseNext(@)]
    /\ UNCHANGED <<tasks, pending, registry, botTasks>>

\* So does join_background_tasks.
KeepaliveJoined(t) ==
    /\ At(t, "joinKeepalive")
    /\ bot[t].keepalive = "off"
    /\ bot' = [bot EXCEPT ![t] = CloseNext(@)]
    /\ UNCHANGED <<tasks, pending, registry, botTasks>>

\* The next round of `while True': a new client logs in.
LoopAgain(t) ==
    /\ Resumes(t, "closeTransport")
    /\ bot[t].exit = "loop"
    /\ Goto(t, "login")
    /\ UNCHANGED <<tasks, pending, registry, botTasks>>

\* Variant: the outer `finally' forgets the row's mark.
FinishKeepsPending(t) ==
    /\ \/ Resumes(t, "closeTransport") /\ bot[t].exit # "loop"
       \/ Interrupted(t, "closeTransport")
    /\ Goto(t, "done")
    /\ UNCHANGED <<tasks, pending, registry, botTasks>>

Finish(t) ==
    /\ \/ Resumes(t, "closeTransport") /\ bot[t].exit # "loop"
       \/ Interrupted(t, "closeTransport")
    /\ pending' = pending \ {bot[t].slot}
    /\ Goto(t, "done")
    /\ UNCHANGED <<tasks, registry, botTasks>>

\* A task cancelled before its first step never enters its coroutine.
NeverRun(t) ==
    /\ Interrupted(t, "created")
    /\ Goto(t, "done")
    /\ UNCHANGED <<tasks, pending, registry, botTasks>>

BotStep(t) ==
    \/ FirstStep(t) \/ LoginSucceeds(t) \/ LoginFails(t) \/ LoginTimesOut(t)
    \/ StartListening(t)
    \/ RegisterClient(t) \/ OnlineHooksDone(t) \/ HoldReleased(t)
    \/ HoldCancelled(t) \/ BotTasksGathered(t) \/ OfflineHooksDone(t)
    \/ NoticeSent(t) \/ BackoffDone(t) \/ CancelledInBody(t)
    \/ ListenerAwaited(t) \/ KeepaliveJoined(t) \/ LoopAgain(t) \/ Finish(t)
    \/ NeverRun(t)

-----------------------------------------------------------------------------
(* The tasks of a client, and the tasks plugins hang on its wxid.          *)

\* The WebSocket could not be re-established: on_msg_ws_exhausted.
ListenerExhausted(t) ==
    /\ t \in DOMAIN bot
    /\ bot[t].listener = "running"
    /\ bot' = [bot EXCEPT ![t] = [@ EXCEPT !.listener = "off", !.gaveUp = TRUE]]
    /\ UNCHANGED <<tasks, pending, registry, botTasks>>

ListenerEnds(t) ==
    /\ t \in DOMAIN bot
    /\ bot[t].listener = "cancelling"
    /\ bot' = [bot EXCEPT ![t].listener = "off"]
    /\ UNCHANGED <<tasks, pending, registry, botTasks>>

KeepaliveEnds(t) ==
    /\ t \in DOMAIN bot
    /\ bot[t].keepalive = "cancelling"
    /\ bot' = [bot EXCEPT ![t].keepalive = "off"]
    /\ UNCHANGED <<tasks, pending, registry, botTasks>>

\* A plugin calls spawn_bot_task from its message handler or its online hook.
SpawnBotTask(t) ==
    /\ t \in DOMAIN bot
    /\ bot[t].listener = "running" \/ bot[t].phase = "onlineHooks"
    /\ t \notin botTasks[Wxid(t)]
    /\ botTasks' = [botTasks EXCEPT ![Wxid(t)] = @ \cup {t}]
    /\ UNCHANGED <<tasks, bot, pending, registry>>

BotTaskEnds(t) ==
    /\ \E w \in Wxids :
          /\ t \in botTasks[w]
          /\ botTasks' = [botTasks EXCEPT ![w] = @ \ {t}]
    /\ UNCHANGED <<tasks, bot, pending, registry>>

Background(t) ==
    \/ ListenerExhausted(t) \/ ListenerEnds(t) \/ KeepaliveEnds(t)
    \/ SpawnBotTask(t) \/ BotTaskEnds(t)

Next ==
    \/ \E s \in Slots : StartOne(s) \/ StopForAccount(s)
    \/ \E t \in Tasks : BotStep(t) \/ Background(t)

Spec == Init /\ [][Next]_vars

(***************************************************************************)
(* The event loop resumes every coroutine whose await is over; a cancelled *)
(* listener or keep-alive ends, and so do plugin hooks.  Nothing is        *)
(* assumed of the requests, of the WebSocket or of spawned tasks.          *)
(***************************************************************************)
Fairness == \A t \in Tasks :
    WF_vars(BotStep(t)) /\ WF_vars(ListenerEnds(t)) /\ WF_vars(KeepaliveEnds(t))

FairSpec == Spec /\ Fairness

-----------------------------------------------------------------------------
(* Safety.                                                                 *)

\* start_one and stop_for_account never lose a bot: one that still runs but is
\* no longer in _tasks (so no request can reach it) has been cancelled.
NoLostBot ==
    \A t \in DOMAIN bot :
        Live(t) /\ tasks[bot[t].slot] # t => bot[t].stopped

\* A row is marked as logging in only on behalf of a bot that has yet to log in
\* and has no listener: a mark left behind would lock the row in the web panel.
LoggingIn(t) ==
    /\ bot[t].phase \in {"login", "backoff", "notice", "closeTransport"}
    /\ bot[t].listener = "off"
    /\ bot[t].keepalive = "off"

PendingMeansLoggingIn ==
    \A s \in pending :
        \E t \in DOMAIN bot : bot[t].slot = s /\ LoggingIn(t)

\* aclose() ends the listener and the keep-alive before the connection is
\* closed: no client task survives into the next login or past its bot.
ClientTasksEndFirst ==
    \A t \in DOMAIN bot :
        bot[t].phase \in {"closeTransport", "done", "created", "login", "announce"}
            => bot[t].listener = "off" /\ bot[t].keepalive = "off"

\* While a bot that nobody stops waits for messages, its own open client is the
\* one the registry hands out for its wxid (client_registry.py: None is only
\* for a bot not started or not yet logged in).  It fails when two bots of one
\* wxid have run at once (see BotMeetings).
OnlineIsRegistered ==
    \A t \in DOMAIN bot :
        bot[t].phase = "hold" /\ ~bot[t].stopped
            => registry[Wxid(t)] = Client(t)

\* client_registry.py: the registry maps a wxid to a logged-in client whose
\* messages are being listened to, so never to the client of a bot that ended.
RegisteredBotRuns ==
    \A w \in Wxids : registry[w] # NoClient => Live(registry[w].task)

-----------------------------------------------------------------------------
(* Liveness.                                                               *)

\* Every stop request returns: the task it cancelled ends.
StopCompletes ==
    \A t \in Tasks :
        (t \in DOMAIN bot /\ bot[t].stopped) ~> At(t, "done")

\* When the listener gives up, the bot stops itself.
ExhaustedBotStops ==
    \A t \in Tasks :
        (t \in DOMAIN bot /\ bot[t].gaveUp) ~> At(t, "done")
=============================================================================
