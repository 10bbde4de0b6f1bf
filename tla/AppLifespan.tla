----------------------------- MODULE AppLifespan -----------------------------
(***************************************************************************)
(* The application around the bots: plugin_background_lifespan starts and  *)
(* ends what plugins do for the whole process, requests reach BotService   *)
(* only while the application serves, and web.run_app cancels every task   *)
(* that is left when it is interrupted.  The hooks of BotRuntime are here  *)
(* the calls of each plugin, of which the list of enabled plugins, read    *)
(* anew each time, decides.                                                *)
(*                                                                         *)
(* The order of the list is left out: the plugin that is called next is    *)
(* any of those still to be called.                                        *)
(***************************************************************************)
EXTENDS BotRuntime

CONSTANTS
    Plugins,    \* ids in the registry of plugins
    HooksOf,    \* the optional hooks each of them defines
    Lists       \* the sets of plugins that may be enabled

Hooks == {"ready", "background", "online", "offline"}

ASSUME LifespanAssumption ==
    /\ HooksOf \in [Plugins -> SUBSET Hooks]
    /\ Lists # {} /\ Lists \subseteq SUBSET Plugins

VARIABLES
    app,        \* phase of run_app
    enabled,    \* what load_enabled_ids returns
    ready,      \* plugins whose on_app_ready is not over
    background, \* the task of each plugin's start_background
    hooks,      \* for each bot the plugins still to be called in its phase
    told,       \* for each plugin the bots it was told are online
    cut         \* history: bots whose hooks were not all called

appvars == <<app, enabled, ready, background>>
hookvars == <<hooks, told, cut>>
allvars == <<vars, appvars, hookvars>>

(***************************************************************************)
(* "closing": handlers of requests may still run; "gathering": the tasks   *)
(* of start_background are cancelled; "cancelling": so is everything else. *)
(***************************************************************************)
AppPhases == {"starting", "serving", "closing", "gathering", "cancelling", "exited"}

HookPhases == {"onlineHooks", "offlineHooks"}

AppTypeOK ==
    /\ app \in AppPhases
    /\ enabled \in Lists
    /\ ready \subseteq Plugins
    /\ background \in [Plugins -> {"off", "running", "cancelling"}]
    /\ \A p \in Plugins : background[p] # "off" => "background" \in HooksOf[p]
    /\ \A t \in Tasks : hooks[t] # {} => \E p \in HookPhases : At(t, p)
    /\ told \in [Plugins -> SUBSET DOMAIN bot]
    /\ cut \subseteq DOMAIN bot

\* _enabled_specs, without the plugins that do not define the hook.
Wanted(hook) == {p \in enabled : hook \in HooksOf[p]}

AppInit ==
    /\ Init
    /\ app = "starting"
    /\ enabled \in Lists
    /\ ready = Wanted("ready")
    /\ background = [p \in Plugins |-> "off"]
    /\ hooks = [t \in Tasks |-> {}]
    /\ told = [p \in Plugins |-> {}]
    /\ cut = {}

-----------------------------------------------------------------------------
(* The start of the application.                                           *)

\* An on_app_ready returns, or raises and is logged.
AppReadyReturns ==
    /\ app = "starting"
    /\ \E p \in ready : ready' = ready \ {p}
    /\ UNCHANGED <<vars, app, enabled, background, hookvars>>

\* Variant: every enabled plugin gets a task.
StartBackgroundOfAll ==
    /\ app = "starting" /\ ready = {}
    /\ app' = "serving"
    /\ background' = [p \in Plugins |-> IF p \in enabled THEN "running" ELSE "off"]
    /\ UNCHANGED <<vars, enabled, ready, hookvars>>

\* The list is read again, and the lifespan yields.
StartBackground ==
    /\ app = "starting" /\ ready = {}
    /\ app' = "serving"
    /\ background' = [p \in Plugins |->
                        IF p \in Wanted("background") THEN "running" ELSE "off"]
    /\ UNCHANGED <<vars, enabled, ready, hookvars>>

\* The list cannot be read (HookFault is of later reads): the exception leaves
\* the lifespan and run_app.
StartFails ==
    /\ app = "starting"
    /\ app' = "exited"
    /\ UNCHANGED <<vars, enabled, ready, background, hookvars>>

Request ==
    /\ app = "serving"
    /\ \E s \in Slots : StartOne(s) \/ StopForAccount(s)
    /\ UNCHANGED <<appvars, hookvars>>

\* api_plugins_put, or an edit of plugins.json by hand.
EditPlugins ==
    /\ app # "exited"
    /\ enabled' \in Lists
    /\ UNCHANGED <<vars, app, ready, background, hookvars>>

-----------------------------------------------------------------------------
(* Its end.                                                                *)

\* SIGINT or SIGTERM.
Interrupt ==
    /\ app = "serving"
    /\ app' = "closing"
    /\ UNCHANGED <<vars, enabled, ready, background, hookvars>>

\* aiohttp cancels the handlers that have not returned in time.  The cancel of
\* one that waits in stop_for_account goes on to the bot it waits for.
HandlersCancelled ==
    bot' = [t \in DOMAIN bot |->
              IF Live(t) /\ bot[t].stopped THEN [bot[t] EXCEPT !.cancel = TRUE] ELSE bot[t]]

\* Variant: the tasks of start_background are waited for but not cancelled.
CleanupAwaits ==
    /\ app = "closing"
    /\ app' = "gathering"
    /\ HandlersCancelled
    /\ UNCHANGED <<tasks, pending, registry, botTasks, enabled, ready, background, hookvars>>

\* The lifespan goes on after its yield.
Cleanup ==
    /\ app = "closing"
    /\ app' = "gathering"
    /\ HandlersCancelled
    /\ background' = [p \in Plugins |->
                        IF background[p] = "running" THEN "cancelling" ELSE background[p]]
    /\ UNCHANGED <<tasks, pending, registry, botTasks, enabled, ready, hookvars>>

\* start_background returns or raises (_run_background logs it), or its task
\* was cancelled.
BackgroundReturns(p) ==
    /\ background[p] = "running"
    /\ background' = [background EXCEPT ![p] = "off"]
    /\ UNCHANGED <<vars, app, enabled, ready, hookvars>>

BackgroundCancelled(p) ==
    /\ background[p] = "cancelling"
    /\ background' = [background EXCEPT ![p] = "off"]
    /\ UNCHANGED <<vars, app, enabled, ready, hookvars>>

Cancelled(state) == IF state = "running" THEN "cancelling" ELSE state

\* The gather is over, and run_app cancels all tasks of the event loop: bots,
\* those of their clients, and those plugins spawned.
CancelAll ==
    /\ app = "gathering"
    /\ \A p \in Plugins : background[p] = "off"
    /\ app' = "cancelling"
    /\ bot' = [t \in DOMAIN bot |->
                 IF Live(t) THEN [bot[t] EXCEPT !.cancel = TRUE,
                                                !.listener = Cancelled(@),
                                                !.keepalive = Cancelled(@)]
                            ELSE bot[t]]
    /\ botTasks' = [w \in Wxids |-> {}]
    /\ UNCHANGED <<tasks, pending, registry, enabled, ready, background, hookvars>>

\* It waits for all of them.
Exit ==
    /\ app = "cancelling"
    /\ \A t \in DOMAIN bot : ~Live(t)
    /\ app' = "exited"
    /\ UNCHANGED <<vars, enabled, ready, background, hookvars>>

-----------------------------------------------------------------------------
(* The hooks of a bot.                                                     *)

Told(p, t, hook) ==
    [told EXCEPT ![p] = IF hook = "online" THEN @ \cup {t}
                                           ELSE {u \in @ : Wxid(u) # Wxid(t)}]

\* The next plugin is called, if there is one, up to its first await.
Call(t, todo, hook) ==
    IF todo = {} THEN hooks' = [hooks EXCEPT ![t] = {}] /\ told' = told
    ELSE \E p \in todo :
            hooks' = [hooks EXCEPT ![t] = todo \ {p}] /\ told' = Told(p, t, hook)

\* Reading the list raised: nobody is called.
Skipped(t) == cut' = IF bot'[t].phase = "backoff" THEN cut \cup {t} ELSE cut

\* notify_bot_online, after the client was registered.
HelloBegins(t) ==
    /\ RegisterClient(t)
    /\ Call(t, IF bot'[t].phase = "onlineHooks" THEN Wanted("online") ELSE {}, "online")
    /\ Skipped(t)

\* notify_bot_offline, before or after the wait for the tasks it cancels.
GoodbyeBegins(t) ==
    /\ HoldCancelled(t) \/ BotTasksGathered(t) \/ (hooks[t] = {} /\ HoldReleased(t))
    /\ Call(t, IF bot'[t].phase = "offlineHooks" THEN Wanted("offline") ELSE {}, "offline")
    /\ Skipped(t)

HookOf(t) == IF bot[t].phase = "onlineHooks" THEN "online" ELSE "offline"

\* Variant: a hook that raises ends the loop over the plugins.
HookRaisesOut(t) ==
    /\ \E p \in HookPhases : Resumes(t, p)
    /\ hooks[t] # {}
    /\ \/ hooks' = [hooks EXCEPT ![t] = {}] /\ told' = told
       \/ Call(t, hooks[t], HookOf(t))
    /\ UNCHANGED <<vars, cut>>

\* A hook returns, or raises and is logged.
HookReturns(t) ==
    /\ \E p \in HookPhases : Resumes(t, p)
    /\ hooks[t] # {}
    /\ Call(t, hooks[t], HookOf(t))
    /\ UNCHANGED <<vars, cut>>

HooksDone(t) ==
    /\ hooks[t] = {}
    /\ OnlineHooksDone(t) \/ OfflineHooksDone(t)
    /\ UNCHANGED hookvars

\* CancelledError is no Exception: it leaves the loop over the plugins, and in
\* the online hooks nothing undoes what was done.
HooksCancelled(t) ==
    /\ CancelledInBody(t)
    /\ hooks' = [hooks EXCEPT ![t] = {}]
    /\ cut' = IF bot[t].phase \in HookPhases \cup {"gather"} THEN cut \cup {t} ELSE cut
    /\ told' = told

OtherBotStep(t) ==
    /\ \/ FirstStep(t) \/ LoginSucceeds(t) \/ LoginFails(t) \/ LoginTimesOut(t)
       \/ StartListening(t) \/ NoticeSent(t) \/ BackoffDone(t)
       \/ ListenerAwaited(t) \/ KeepaliveJoined(t) \/ LoopAgain(t) \/ Finish(t)
       \/ NeverRun(t)
    /\ UNCHANGED hookvars

BotActs(t) ==
    /\ \/ HelloBegins(t) \/ GoodbyeBegins(t) \/ HookReturns(t) \/ HooksDone(t)
       \/ HooksCancelled(t) \/ OtherBotStep(t)
    /\ UNCHANGED appvars

ClientActs(t) ==
    /\ Background(t)
    /\ UNCHANGED <<appvars, hookvars>>

AppActs ==
    \/ AppReadyReturns \/ StartBackground \/ StartFails
    \/ Cleanup \/ CancelAll \/ Exit

AppNext ==
    \/ AppActs \/ Request \/ EditPlugins \/ Interrupt
    \/ \E p \in Plugins : BackgroundReturns(p) \/ BackgroundCancelled(p)
    \/ \E t \in Tasks : BotActs(t) \/ ClientActs(t)

AppSpec == AppInit /\ [][AppNext]_allvars

(***************************************************************************)
(* As in BotRuntime; hooks return, a cancelled task of start_background    *)
(* ends, and run_app goes on (it waits a limited time for handlers).       *)
(***************************************************************************)
AppFairness ==
    /\ WF_allvars(AppActs)
    /\ \A p \in Plugins : WF_allvars(BackgroundCancelled(p))
    /\ \A t \in Tasks :
          /\ WF_allvars(BotActs(t))
          /\ WF_allvars(ListenerEnds(t) /\ UNCHANGED <<appvars, hookvars>>)
          /\ WF_allvars(KeepaliveEnds(t) /\ UNCHANGED <<appvars, hookvars>>)

FairAppSpec == AppSpec /\ AppFairness

-----------------------------------------------------------------------------

\* Plugins that stay enabled and want to know of both.
Faithful == {p \in Plugins : {"online", "offline"} \subseteq HooksOf[p]
                               /\ \A l \in Lists : p \in l}

\* lifecycle.py:6: a plugin that was told of a bot going online is told when it
\* went offline, whatever other plugins do in their hooks, unless the bot was
\* cancelled within its hooks, where notify_bot_offline has no second chance.
HelloHasGoodbye ==
    \A t \in DOMAIN bot : bot[t].phase \in {"login", "done"} /\ t \notin cut
        => \A p \in Faithful : t \notin told[p]

\* client_registry.py:16: the registry hands out a closed client only of a bot
\* that was cancelled within its hooks.
ClosedOnlyIfCut ==
    \A w \in Wxids : registry[w] # NoClient /\ ~registry[w].open
        => registry[w].task \in cut

\* Once the application is interrupted it exits: every bot, wherever a first or
\* a second cancellation meets it, ends, and so does every background task.
ExitCompletes == (app = "closing") ~> (app = "exited")
=============================================================================
