-------------------------- MODULE AppLifespanProofs --------------------------
(***************************************************************************)
(* Invariance proofs for AppLifespan: what BotRuntimeProofs shows of the   *)
(* bots, with the application's end, its plugins and their hooks around    *)
(* them.                                                                   *)
(***************************************************************************)
EXTENDS AppLifespan, BotRuntimeProofs

(***************************************************************************)
(* The invariant.                                                          *)
(***************************************************************************)

HooksTyped == hooks \in [Tasks -> SUBSET Plugins]

\* From the registration of a client to the end of the offline hooks.
Held == {"onlineHooks", "hold", "gather", "offlineHooks"}

\* A plugin that knows of a bot is still to be told of its end.
Greeted ==
    \A t \in DOMAIN bot \ cut : \A p \in Faithful :
        t \in told[p] => \/ bot[t].phase \in {"onlineHooks", "hold", "gather"}
                         \/ bot[t].phase = "offlineHooks" /\ p \in hooks[t]

\* A client in the registry is open, and its bot is still to remove it.
Registrations ==
    \A w \in Wxids : \A t \in Tasks :
        registry[w] # NoClient /\ registry[w].task = t =>
            /\ t \in DOMAIN bot /\ Wxid(t) = w
            /\ t \in cut \/ (registry[w].open /\ bot[t].phase \in Held)

AppInv == TypeOK /\ AppTypeOK /\ HooksTyped /\ Greeted /\ Registrations

(***************************************************************************)
(* The steps, seen from the bots: most are steps of BotRuntime; the rest   *)
(* only cancels.                                                           *)
(***************************************************************************)

SameBots ==
    /\ DOMAIN bot' = DOMAIN bot
    /\ \A t \in DOMAIN bot : bot'[t].slot = bot[t].slot /\ bot'[t].phase = bot[t].phase
    /\ registry' = registry

LEMMA CancelledRecord ==
    ASSUME NEW b \in Bot
    PROVE  /\ [b EXCEPT !.cancel = TRUE] \in Bot
           /\ [b EXCEPT !.cancel = TRUE].slot = b.slot
           /\ [b EXCEPT !.cancel = TRUE].phase = b.phase
           /\ [b EXCEPT !.cancel = TRUE, !.listener = Cancelled(@),
                        !.keepalive = Cancelled(@)] \in Bot
           /\ [b EXCEPT !.cancel = TRUE, !.listener = Cancelled(@),
                        !.keepalive = Cancelled(@)].slot = b.slot
           /\ [b EXCEPT !.cancel = TRUE, !.listener = Cancelled(@),
                        !.keepalive = Cancelled(@)].phase = b.phase
BY DEF Bot, Cancelled, TaskStates

LEMMA CancelsKeepBots ==
    ASSUME TypeOK, Cleanup \/ CancelAll
    PROVE  TypeOK' /\ SameBots
<1>1. /\ UNCHANGED <<tasks, pending, registry>> /\ bot \in [DOMAIN bot -> Bot]
  BY DEF TypeOK, Cleanup, CancelAll
<1>2. CASE Cleanup
  <2>1. bot' = [t \in DOMAIN bot |->
                  IF Live(t) /\ bot[t].stopped THEN [bot[t] EXCEPT !.cancel = TRUE] ELSE bot[t]]
    BY <1>2 DEF Cleanup, HandlersCancelled
  <2>2. DOMAIN bot' = DOMAIN bot /\ bot' \in [DOMAIN bot -> Bot]
        /\ \A t \in DOMAIN bot : bot'[t].slot = bot[t].slot /\ bot'[t].phase = bot[t].phase
    BY <1>1, <2>1, CancelledRecord
  <2>3. botTasks' = botTasks
    BY <1>2 DEF Cleanup
  <2> QED BY <1>1, <2>2, <2>3 DEF TypeOK, SameBots
<1>3. CASE CancelAll
  <2>1. bot' = [t \in DOMAIN bot |->
                  IF Live(t) THEN [bot[t] EXCEPT !.cancel = TRUE,
                                                 !.listener = Cancelled(@),
                                                 !.keepalive = Cancelled(@)]
                             ELSE bot[t]]
    BY <1>3 DEF CancelAll
  <2>2. DOMAIN bot' = DOMAIN bot /\ bot' \in [DOMAIN bot -> Bot]
        /\ \A t \in DOMAIN bot : bot'[t].slot = bot[t].slot /\ bot'[t].phase = bot[t].phase
    BY <1>1, <2>1, CancelledRecord
  <2>3. botTasks' \in [Wxids -> SUBSET Tasks]
    BY <1>3 DEF CancelAll
  <2> QED BY <1>1, <2>2, <2>3 DEF TypeOK, SameBots
<1> QED BY <1>2, <1>3

LEMMA BotActsRuns ==
    ASSUME NEW t \in Tasks, BotActs(t)
    PROVE  BotStep(t) \/ (HookReturns(t) /\ UNCHANGED vars)
BY DEF BotActs, HelloBegins, GoodbyeBegins, HookReturns, HooksDone, HooksCancelled,
       OtherBotStep, BotStep

LEMMA AppStepRuns ==
    ASSUME [AppNext]_allvars
    PROVE  [Next]_vars \/ Cleanup \/ CancelAll
<1>1. CASE Request
  BY <1>1 DEF Request, Next
<1>2. ASSUME NEW t \in Tasks, BotActs(t) PROVE [Next]_vars
  BY <1>2, BotActsRuns DEF Next
<1>3. ASSUME NEW t \in Tasks, ClientActs(t) PROVE [Next]_vars
  BY <1>3 DEF ClientActs, Next
<1>4. ASSUME \/ AppReadyReturns \/ StartBackground \/ StartFails \/ Exit
             \/ EditPlugins \/ Interrupt
             \/ \E p \in Plugins : BackgroundReturns(p) \/ BackgroundCancelled(p)
             \/ UNCHANGED allvars
      PROVE  UNCHANGED vars
  BY <1>4 DEF AppReadyReturns, StartBackground, StartFails, Exit, EditPlugins, Interrupt,
              BackgroundReturns, BackgroundCancelled, allvars
<1> QED BY <1>1, <1>2, <1>3, <1>4 DEF AppNext, AppActs

LEMMA BotsTyped == TypeOK /\ [AppNext]_allvars => TypeOK'
BY AppStepRuns, CancelsKeepBots, TypeStep

(***************************************************************************)
(* Type correctness: the application's own state, then that of the hooks.  *)
(***************************************************************************)

AppTyped ==
    /\ app \in AppPhases
    /\ enabled \in Lists
    /\ ready \subseteq Plugins
    /\ background \in [Plugins -> {"off", "running", "cancelling"}]
    /\ \A p \in Plugins : background[p] # "off" => "background" \in HooksOf[p]

CallsTyped ==
    /\ HooksTyped
    /\ \A t \in Tasks : hooks[t] # {} => \E p \in HookPhases : At(t, p)
    /\ told \in [Plugins -> SUBSET DOMAIN bot]
    /\ cut \subseteq DOMAIN bot

LEMMA AppTypeParts == AppTypeOK /\ HooksTyped <=> AppTyped /\ CallsTyped
BY DEF AppTypeOK, AppTyped, CallsTyped

LEMMA WantedType ==
    ASSUME AppTyped, NEW h
    PROVE  Wanted(h) \subseteq Plugins
BY LifespanAssumption DEF AppTyped, LifespanAssumption, Wanted

LEMMA AppTypedStep == AppTyped /\ [AppNext]_allvars => AppTyped'
<1> SUFFICES ASSUME AppTyped, [AppNext]_allvars PROVE AppTyped'
  OBVIOUS
<1> USE DEF AppTyped, AppPhases
<1>1. CASE AppReadyReturns
  BY <1>1 DEF AppReadyReturns
<1>2. CASE StartBackground
  <2>1. \A p \in Wanted("background") : "background" \in HooksOf[p]
    BY DEF Wanted
  <2> QED BY <1>2, <2>1 DEF StartBackground
<1>3. CASE StartFails \/ Exit \/ Interrupt
  BY <1>3 DEF StartFails, Exit, Interrupt
<1>4. CASE EditPlugins
  BY <1>4 DEF EditPlugins
<1>5. CASE Cleanup
  BY <1>5 DEF Cleanup
<1>6. CASE CancelAll
  BY <1>6 DEF CancelAll
<1>7. ASSUME NEW p \in Plugins, BackgroundReturns(p) \/ BackgroundCancelled(p)
      PROVE  AppTyped'
  BY <1>7 DEF BackgroundReturns, BackgroundCancelled
<1>8. ASSUME UNCHANGED appvars PROVE AppTyped'
  BY <1>8 DEF appvars
<1>9. /\ Request => UNCHANGED appvars
      /\ \A t : BotActs(t) \/ ClientActs(t) => UNCHANGED appvars
      /\ UNCHANGED allvars => UNCHANGED appvars
  BY DEF Request, BotActs, ClientActs, allvars
<1> QED BY <1>1, <1>2, <1>3, <1>4, <1>5, <1>6, <1>7, <1>8, <1>9 DEF AppNext, AppActs

(***************************************************************************)
(* Steps that move no bot and call no hook.                                *)
(***************************************************************************)
Settled ==
    /\ DOMAIN bot \subseteq DOMAIN bot'
    /\ \A t \in DOMAIN bot : bot'[t].slot = bot[t].slot /\ bot'[t].phase = bot[t].phase
    /\ registry' = registry
    /\ UNCHANGED hookvars

LEMMA RequestSettles ==
    ASSUME TypeOK, Request
    PROVE  Settled
<1>1. PICK s \in Slots : StartOne(s) \/ StopForAccount(s)
  BY DEF Request
<1>2. registry' = registry
  BY <1>1 DEF StartOne, StopForAccount
<1> QED BY <1>1, <1>2, RequestRecords DEF Settled, Request

LEMMA ClientSettles ==
    ASSUME TypeOK, NEW t \in Tasks, ClientActs(t)
    PROVE  Settled
<1>1. Background(t) /\ UNCHANGED hookvars
  BY DEF ClientActs
<1>2. CASE ListenerExhausted(t) \/ ListenerEnds(t) \/ KeepaliveEnds(t)
  <2>1. Replaces(t) /\ bot'[t].phase = bot[t].phase
    BY <1>2, BackgroundReplaces, BackgroundPhase
  <2>2. registry' = registry
    BY <1>2 DEF ListenerExhausted, ListenerEnds, KeepaliveEnds
  <2>3. /\ DOMAIN bot' = DOMAIN bot /\ bot'[t].slot = bot[t].slot
        /\ \A u \in DOMAIN bot : u # t => bot'[u] = bot[u]
    BY <2>1, ReplacesType
  <2> QED BY <1>1, <2>1, <2>2, <2>3 DEF Settled
<1>3. CASE SpawnBotTask(t) \/ BotTaskEnds(t)
  BY <1>1, <1>3 DEF Settled, SpawnBotTask, BotTaskEnds
<1> QED BY <1>1, <1>2, <1>3 DEF Background

LEMMA AppSettles ==
    ASSUME TypeOK, [AppNext]_allvars, \A t \in Tasks : ~BotActs(t)
    PROVE  Settled
<1>1. CASE Cleanup \/ CancelAll
  <2>1. UNCHANGED hookvars
    BY <1>1 DEF Cleanup, CancelAll
  <2> QED BY <1>1, <2>1, CancelsKeepBots DEF Settled, SameBots
<1>2. ASSUME \/ AppReadyReturns \/ StartBackground \/ StartFails \/ Exit
             \/ EditPlugins \/ Interrupt
             \/ \E p \in Plugins : BackgroundReturns(p) \/ BackgroundCancelled(p)
             \/ UNCHANGED allvars
      PROVE  Settled
  <2>1. UNCHANGED vars /\ UNCHANGED hookvars
    BY <1>2 DEF AppReadyReturns, StartBackground, StartFails, Exit, EditPlugins, Interrupt,
                BackgroundReturns, BackgroundCancelled, allvars
  <2> QED BY <2>1 DEF vars, Settled
<1> QED BY <1>1, <1>2, RequestSettles, ClientSettles DEF AppNext, AppActs

LEMMA SettledKeeps ==
    ASSUME TypeOK, CallsTyped, Greeted, Registrations, Settled
    PROVE  CallsTyped' /\ Greeted' /\ Registrations'
<1>1. /\ UNCHANGED <<hooks, told, cut, registry>>
      /\ DOMAIN bot \subseteq DOMAIN bot'
      /\ \A t \in DOMAIN bot : bot'[t].phase = bot[t].phase /\ Wxid(t)' = Wxid(t)
  BY DEF Settled, hookvars, Wxid
<1>2. CallsTyped'
  BY <1>1 DEF CallsTyped, HooksTyped, At
<1>3. Greeted'
  <2> SUFFICES ASSUME NEW t \in DOMAIN bot' \ cut, NEW p \in Faithful, t \in told[p]
               PROVE  \/ bot'[t].phase \in {"onlineHooks", "hold", "gather"}
                      \/ bot'[t].phase = "offlineHooks" /\ p \in hooks[t]
    BY <1>1 DEF Greeted
  <2>1. t \in DOMAIN bot
    BY DEF CallsTyped, Faithful
  <2> QED BY <1>1, <2>1 DEF Greeted
<1>4. Registrations'
  <2> SUFFICES ASSUME NEW w \in Wxids, NEW t \in Tasks,
                      registry[w] # NoClient, registry[w].task = t
               PROVE  /\ t \in DOMAIN bot' /\ Wxid(t)' = w
                      /\ t \in cut \/ (registry[w].open /\ bot'[t].phase \in Held)
    BY <1>1 DEF Registrations
  <2> QED BY <1>1 DEF Registrations
<1> QED BY <1>2, <1>3, <1>4

(***************************************************************************)
(* Steps of a bot.                                                         *)
(***************************************************************************)

\* Who is still to be called, and who was told, after the next call.
LEMMA CallIs ==
    ASSUME CallsTyped, NEW t \in DOMAIN bot, t \in Tasks, NEW todo, todo \subseteq Plugins,
           NEW h, Call(t, todo, h)
    PROVE  /\ hooks' \in [Tasks -> SUBSET Plugins] /\ hooks'[t] \subseteq todo
           /\ \A u \in Tasks : u # t => hooks'[u] = hooks[u]
           /\ told' \in [Plugins -> SUBSET DOMAIN bot]
           /\ \A p \in Plugins : told'[p] \subseteq told[p] \cup {t}
           /\ h # "online" => \A p \in Plugins :
                 /\ told'[p] \subseteq told[p]
                 /\ p \in todo /\ t \in told'[p] => p \in hooks'[t]
<1>0. hooks \in [Tasks -> SUBSET Plugins] /\ told \in [Plugins -> SUBSET DOMAIN bot]
  BY DEF CallsTyped, HooksTyped
<1>1. CASE todo = {}
  <2>1. hooks' = [hooks EXCEPT ![t] = {}] /\ told' = told
    BY <1>1 DEF Call
  <2> QED BY <1>0, <1>1, <2>1
<1>2. CASE todo # {}
  <2>1. PICK q \in todo : hooks' = [hooks EXCEPT ![t] = todo \ {q}] /\ told' = Told(q, t, h)
    BY <1>2 DEF Call
  <2>2. /\ hooks' \in [Tasks -> SUBSET Plugins] /\ hooks'[t] = todo \ {q}
        /\ \A u \in Tasks : u # t => hooks'[u] = hooks[u]
    BY <1>0, <2>1
  <2>3. PICK now : now = IF h = "online" THEN told[q] \cup {t}
                         ELSE {u \in told[q] : Wxid(u) # Wxid(t)}
    OBVIOUS
  <2>4. told' = [told EXCEPT ![q] = now]
    BY <2>1, <2>3 DEF Told
  <2>5. /\ now \subseteq told[q] \cup {t} /\ now \subseteq DOMAIN bot
        /\ h # "online" => now \subseteq told[q] /\ t \notin now
    BY <1>0, <2>1, <2>3
  <2>6. told' \in [Plugins -> SUBSET DOMAIN bot]
        /\ \A p \in Plugins : told'[p] = IF p = q THEN now ELSE told[p]
    BY <1>0, <2>1, <2>4, <2>5
  <2> QED BY <2>1, <2>2, <2>5, <2>6
<1> QED BY <1>1, <1>2

\* Nobody but t may have been told of, cut, registered or unregistered.
HooksMove(t) ==
    /\ hooks' \in [Tasks -> SUBSET Plugins]
    /\ \A u \in Tasks : u # t => hooks'[u] = hooks[u]
    /\ hooks'[t] # {} => bot'[t].phase \in HookPhases
    /\ told' \in [Plugins -> SUBSET DOMAIN bot]
    /\ \A p \in Plugins : told'[p] \subseteq told[p] \cup {t}
    /\ cut' \in {cut, cut \cup {t}}
    /\ \A p \in Faithful : t \notin cut' /\ t \in told'[p] =>
          \/ bot'[t].phase \in {"onlineHooks", "hold", "gather"}
          \/ bot'[t].phase = "offlineHooks" /\ p \in hooks'[t]

RegistryMoves(t) == \A w \in Wxids : registry'[w] # NoClient =>
    \/ registry'[w].task # t /\ registry'[w] = registry[w]
    \/ /\ registry'[w].task = t /\ w = Wxid(t)
       /\ t \in cut' \/ (registry'[w].open /\ bot'[t].phase \in Held)

LEMMA MovesKeep ==
    ASSUME TypeOK, CallsTyped, Greeted, Registrations, NEW t \in Tasks,
           Replaces(t), HooksMove(t), RegistryMoves(t)
    PROVE  CallsTyped' /\ Greeted' /\ Registrations'
<1>1. /\ t \in DOMAIN bot /\ DOMAIN bot' = DOMAIN bot
      /\ \A u \in DOMAIN bot : u # t => bot'[u] = bot[u]
      /\ \A u \in DOMAIN bot : Wxid(u)' = Wxid(u)
  BY ReplacesType DEF Replaces, Wxid
<1>2. CallsTyped'
  <2>1. \A u \in Tasks : hooks'[u] # {} => \E p \in HookPhases : At(u, p)'
    <3> SUFFICES ASSUME NEW u \in Tasks, hooks'[u] # {}
                 PROVE  \E p \in HookPhases : At(u, p)'
      OBVIOUS
    <3>1. CASE u = t
      BY <1>1, <3>1 DEF HooksMove, At
    <3>2. CASE u # t
      BY <1>1, <3>2 DEF HooksMove, At, CallsTyped
    <3> QED BY <3>1, <3>2
  <2>2. hooks' \in [Tasks -> SUBSET Plugins] /\ told' \in [Plugins -> SUBSET DOMAIN bot']
        /\ cut' \subseteq DOMAIN bot'
    BY <1>1 DEF HooksMove, CallsTyped
  <2> QED BY <2>1, <2>2 DEF CallsTyped, HooksTyped
<1>3. Greeted'
  <2> SUFFICES ASSUME NEW u \in DOMAIN bot' \ cut', NEW p \in Faithful, u \in told'[p]
               PROVE  \/ bot'[u].phase \in {"onlineHooks", "hold", "gather"}
                      \/ bot'[u].phase = "offlineHooks" /\ p \in hooks'[u]
    BY DEF Greeted
  <2>1. CASE u = t
    BY <2>1 DEF HooksMove
  <2>2. CASE u # t
    <3>1. p \in Plugins /\ u \in Tasks /\ u \in DOMAIN bot
      BY <1>1 DEF Faithful, TypeOK
    <3>2. u \in told[p] /\ u \notin cut /\ hooks'[u] = hooks[u] /\ bot'[u] = bot[u]
      BY <1>1, <2>2, <3>1 DEF HooksMove
    <3> QED BY <3>1, <3>2 DEF Greeted
  <2> QED BY <2>1, <2>2
<1>4. Registrations'
  <2> SUFFICES ASSUME NEW w \in Wxids, NEW u \in Tasks,
                      registry'[w] # NoClient, registry'[w].task = u
               PROVE  /\ u \in DOMAIN bot' /\ Wxid(u)' = w
                      /\ u \in cut' \/ (registry'[w].open /\ bot'[u].phase \in Held)
    BY DEF Registrations
  <2>1. CASE u = t
    BY <1>1, <2>1 DEF RegistryMoves
  <2>2. CASE u # t
    <3>1. registry'[w] = registry[w] /\ cut \subseteq cut'
      BY <2>2 DEF RegistryMoves, HooksMove
    <3>2. /\ u \in DOMAIN bot /\ Wxid(u) = w
          /\ u \in cut \/ (registry[w].open /\ bot[u].phase \in Held)
      BY <3>1 DEF Registrations
    <3> QED BY <1>1, <2>2, <3>1, <3>2
  <2> QED BY <2>1, <2>2
<1> QED BY <1>2, <1>3, <1>4

\* aclose() marks the client of a bot as closed: one that no plugin and no
\* registry knows any more, or one of a bot that was cut.
LEMMA ClosedIsCut ==
    ASSUME TypeOK, Registrations, NEW t \in Tasks,
           registry' = registry \/ registry' = MarkClosed(t),
           cut' \in {cut, cut \cup {t}}, t \in cut' \/ bot[t].phase \notin Held
    PROVE  RegistryMoves(t)
<1> SUFFICES ASSUME NEW w \in Wxids, registry'[w] # NoClient
             PROVE  \/ registry'[w].task # t /\ registry'[w] = registry[w]
                    \/ registry'[w].task = t /\ w = Wxid(t) /\ t \in cut'
  BY DEF RegistryMoves
<1>1. registry[w] \in [task : Tasks, open : BOOLEAN] \cup {NoClient}
  BY DEF TypeOK
<1>2. \/ registry'[w] = registry[w]
      \/ registry[w] = Client(t) /\ registry'[w] = [task |-> t, open |-> FALSE]
  BY DEF MarkClosed
<1>3. registry[w] # NoClient
  <2>1. Client(t) \in [task : Tasks, open : BOOLEAN]
    BY DEF Client
  <2>2. Client(t) # NoClient
    BY <2>1, ConstantAssumption DEF ConstantAssumption
  <2> QED BY <1>2, <2>2
<1>4. registry[w].task = t => Wxid(t) = w /\ t \in cut'
  BY <1>3 DEF Registrations
<1> QED BY <1>2, <1>4 DEF Client

LEMMA NotHeldNotTold ==
    ASSUME CallsTyped, Greeted, NEW t \in DOMAIN bot, t \in Tasks, bot[t].phase \notin Held
    PROVE  /\ hooks[t] = {}
           /\ \A p \in Faithful : t \notin cut => t \notin told[p]
<1>1. hooks[t] = {}
  BY DEF CallsTyped, At, HookPhases, Held
<1> QED BY <1>1 DEF Greeted, Held

\* A step that leaves the hooks alone and finds the bot outside of Held.
LEMMA StillMoves ==
    ASSUME TypeOK, CallsTyped, Greeted, Registrations, NEW t \in Tasks,
           t \in DOMAIN bot, bot[t].phase \notin Held,
           UNCHANGED <<hooks, told, cut>>,
           registry' = registry \/ registry' = MarkClosed(t)
    PROVE  HooksMove(t) /\ RegistryMoves(t)
<1>1. RegistryMoves(t)
  BY ClosedIsCut
<1> QED BY <1>1, NotHeldNotTold DEF HooksMove, CallsTyped, HooksTyped

LEMMA OtherMoves ==
    ASSUME TypeOK, CallsTyped, Greeted, Registrations, NEW t \in Tasks, OtherBotStep(t)
    PROVE  Replaces(t) /\ HooksMove(t) /\ RegistryMoves(t)
<1>1. BotStep(t) /\ UNCHANGED <<hooks, told, cut>>
  BY DEF OtherBotStep, BotStep, hookvars
<1>2. t \in DOMAIN bot /\ bot[t].phase \notin Held
  BY DEF OtherBotStep, FirstStep, LoginSucceeds, LoginFails, LoginTimesOut, StartListening,
         NoticeSent, BackoffDone, ListenerAwaited, KeepaliveJoined, LoopAgain, Finish,
         NeverRun, Resumes, Interrupted, At, Held
<1>3. registry' = registry \/ registry' = MarkClosed(t)
  BY DEF OtherBotStep, FirstStep, LoginSucceeds, LoginFails, LoginTimesOut, StartListening,
         NoticeSent, BackoffDone, ListenerAwaited, KeepaliveJoined, LoopAgain, Finish,
         NeverRun, Aclose
<1> QED BY <1>1, <1>2, <1>3, StepReplaces, StillMoves

LEMMA HooksCancelledMoves ==
    ASSUME TypeOK, CallsTyped, Greeted, Registrations, NEW t \in Tasks, HooksCancelled(t)
    PROVE  Replaces(t) /\ HooksMove(t) /\ RegistryMoves(t)
<1>1. /\ CancelledInBody(t) /\ hooks' = [hooks EXCEPT ![t] = {}] /\ told' = told
      /\ cut' = IF bot[t].phase \in HookPhases \cup {"gather"} THEN cut \cup {t} ELSE cut
  BY DEF HooksCancelled
<1>2. Replaces(t)
  BY <1>1, StepReplaces DEF BotStep
<1>3. t \in DOMAIN bot /\ registry' = MarkClosed(t) /\ bot[t].phase # "hold"
  BY <1>1 DEF CancelledInBody, Interrupted, At, Aclose
<1>4. hooks' \in [Tasks -> SUBSET Plugins] /\ hooks'[t] = {}
      /\ \A u \in Tasks : u # t => hooks'[u] = hooks[u]
  BY <1>1 DEF CallsTyped, HooksTyped
<1>5. cut' \in {cut, cut \cup {t}} /\ (t \in cut' \/ bot[t].phase \notin Held)
  BY <1>1, <1>3 DEF Held, HookPhases
<1>6. RegistryMoves(t)
  BY <1>3, <1>5, ClosedIsCut
<1>7. \A p \in Faithful : t \notin cut' => t \notin told[p]
  BY <1>3, <1>5, NotHeldNotTold
<1> QED BY <1>1, <1>2, <1>4, <1>5, <1>6, <1>7 DEF HooksMove, CallsTyped

LEMMA HooksDoneMoves ==
    ASSUME TypeOK, CallsTyped, Greeted, Registrations, NEW t \in Tasks, HooksDone(t)
    PROVE  Replaces(t) /\ HooksMove(t) /\ RegistryMoves(t)
<1>1. /\ hooks[t] = {} /\ UNCHANGED <<hooks, told, cut>>
      /\ OnlineHooksDone(t) \/ OfflineHooksDone(t)
  BY DEF HooksDone, hookvars
<1>2. Replaces(t)
  BY <1>1, StepReplaces DEF BotStep
<1>3. CASE OnlineHooksDone(t)
  <2>1. /\ t \in DOMAIN bot /\ bot[t].phase = "onlineHooks" /\ bot'[t].phase = "hold"
        /\ registry' = registry
    BY <1>3, GotoRecord DEF OnlineHooksDone, Resumes, At
  <2>2. RegistryMoves(t)
    <3> SUFFICES ASSUME NEW w \in Wxids, registry[w] # NoClient, registry[w].task = t
                 PROVE  w = Wxid(t) /\ (t \in cut \/ registry[w].open)
      BY <1>1, <2>1 DEF RegistryMoves, Held
    <3> QED BY DEF Registrations
  <2>3. HooksMove(t)
    BY <1>1, <2>1 DEF HooksMove, CallsTyped, HooksTyped
  <2> QED BY <1>2, <2>2, <2>3
<1>4. CASE OfflineHooksDone(t)
  <2>1. /\ t \in DOMAIN bot /\ bot[t].phase = "offlineHooks"
        /\ registry' = [registry EXCEPT ![Wxid(t)] = NoClient]
    BY <1>4 DEF OfflineHooksDone, Resumes, At
  <2>2. RegistryMoves(t)
    <3> SUFFICES ASSUME NEW w \in Wxids, registry'[w] # NoClient
                 PROVE  registry'[w].task # t /\ registry'[w] = registry[w]
      BY DEF RegistryMoves
    <3>1. w # Wxid(t) /\ registry'[w] = registry[w]
      BY <2>1 DEF TypeOK
    <3> QED BY <3>1 DEF Registrations
  <2>3. \A p \in Faithful : t \notin cut => t \notin told[p]
    BY <1>1, <2>1 DEF Greeted
  <2>4. HooksMove(t)
    BY <1>1, <2>3 DEF HooksMove, CallsTyped, HooksTyped
  <2> QED BY <1>2, <2>2, <2>4
<1> QED BY <1>1, <1>3, <1>4

LEMMA HookReturnsMoves ==
    ASSUME TypeOK, CallsTyped, Greeted, Registrations, NEW t \in Tasks, HookReturns(t)
    PROVE  Replaces(t) /\ HooksMove(t) /\ RegistryMoves(t)
<1>1. /\ UNCHANGED vars /\ cut' = cut /\ t \in DOMAIN bot /\ bot[t].phase \in HookPhases
      /\ Call(t, hooks[t], HookOf(t)) /\ hooks[t] \subseteq Plugins
  BY DEF HookReturns, Resumes, At, CallsTyped, HooksTyped
<1>2. bot' = bot /\ registry' = registry /\ tasks' = tasks
  BY <1>1 DEF vars
<1>3. Replaces(t)
  <2>1. bot' = [bot EXCEPT ![t] = bot[t]] /\ bot[t] \in Bot
    BY <1>1, <1>2 DEF TypeOK
  <2> QED BY <1>1, <1>2, <2>1 DEF Replaces
<1>4. RegistryMoves(t)
  <2> SUFFICES ASSUME NEW w \in Wxids, registry[w] # NoClient, registry[w].task = t
               PROVE  w = Wxid(t) /\ (t \in cut \/ (registry[w].open /\ bot[t].phase \in Held))
    BY <1>1, <1>2 DEF RegistryMoves
  <2> QED BY DEF Registrations
<1>5. /\ hooks' \in [Tasks -> SUBSET Plugins]
      /\ \A u \in Tasks : u # t => hooks'[u] = hooks[u]
      /\ told' \in [Plugins -> SUBSET DOMAIN bot]
      /\ \A p \in Plugins : told'[p] \subseteq told[p] \cup {t}
      /\ HookOf(t) # "online" => \A p \in Plugins :
            /\ told'[p] \subseteq told[p]
            /\ p \in hooks[t] /\ t \in told'[p] => p \in hooks'[t]
  <2>1. PICK todo, h : todo = hooks[t] /\ h = HookOf(t)
    OBVIOUS
  <2>2. Call(t, todo, h) /\ todo \subseteq Plugins
    BY <1>1, <2>1
  <2>3. /\ hooks' \in [Tasks -> SUBSET Plugins] /\ hooks'[t] \subseteq todo
        /\ \A u \in Tasks : u # t => hooks'[u] = hooks[u]
        /\ told' \in [Plugins -> SUBSET DOMAIN bot]
        /\ \A p \in Plugins : told'[p] \subseteq told[p] \cup {t}
        /\ h # "online" => \A p \in Plugins :
              /\ told'[p] \subseteq told[p]
              /\ p \in todo /\ t \in told'[p] => p \in hooks'[t]
    BY <1>1, <2>2, CallIs
  <2> QED BY <2>1, <2>3
<1>6. ASSUME NEW p \in Faithful, t \notin cut, t \in told'[p], bot[t].phase # "onlineHooks"
      PROVE  bot[t].phase = "offlineHooks" /\ p \in hooks'[t]
  <2>1. p \in Plugins /\ HookOf(t) # "online" /\ bot[t].phase = "offlineHooks"
    BY <1>1, <1>6 DEF Faithful, HookOf, HookPhases
  <2>2. t \in told[p]
    BY <1>5, <1>6, <2>1
  <2>3. p \in hooks[t]
    BY <1>1, <1>6, <2>1, <2>2 DEF Greeted
  <2> QED BY <1>5, <1>6, <2>1, <2>3
<1>7. HooksMove(t)
  BY <1>1, <1>2, <1>5, <1>6 DEF HooksMove
<1> QED BY <1>3, <1>4, <1>7

LEMMA HelloMoves ==
    ASSUME TypeOK, AppTyped, CallsTyped, Greeted, Registrations, NEW t \in Tasks,
           HelloBegins(t)
    PROVE  Replaces(t) /\ HooksMove(t) /\ RegistryMoves(t)
<1>1. /\ RegisterClient(t) /\ Skipped(t)
      /\ Call(t, IF bot'[t].phase = "onlineHooks" THEN Wanted("online") ELSE {}, "online")
  BY DEF HelloBegins
<1>2. Replaces(t)
  BY <1>1, StepReplaces DEF BotStep
<1>3. /\ t \in DOMAIN bot /\ bot[t].phase = "greet"
      /\ registry' = [registry EXCEPT ![Wxid(t)] = Client(t)]
      /\ bot'[t].phase \in {"onlineHooks", "backoff"}
  <2>1. PICK p \in Lookup("onlineHooks") : Goto(t, p)
    BY <1>1 DEF RegisterClient
  <2> QED BY <1>1, <2>1, GotoRecord DEF RegisterClient, Resumes, At, Lookup
<1>4. PICK todo : todo = IF bot'[t].phase = "onlineHooks" THEN Wanted("online") ELSE {}
  OBVIOUS
<1>5. todo \subseteq Plugins /\ Call(t, todo, "online")
  BY <1>1, <1>4, WantedType
<1>6. /\ hooks' \in [Tasks -> SUBSET Plugins] /\ hooks'[t] \subseteq todo
      /\ \A u \in Tasks : u # t => hooks'[u] = hooks[u]
      /\ told' \in [Plugins -> SUBSET DOMAIN bot]
      /\ \A p \in Plugins : told'[p] \subseteq told[p] \cup {t}
  BY <1>3, <1>5, CallIs
<1>7. cut' \in {cut, cut \cup {t}} /\ (bot'[t].phase = "backoff" => t \in cut')
  BY <1>1 DEF Skipped
<1>8. HooksMove(t)
  BY <1>3, <1>4, <1>6, <1>7 DEF HooksMove, HookPhases
<1>9. RegistryMoves(t)
  <2> SUFFICES ASSUME NEW w \in Wxids, registry'[w] # NoClient
               PROVE  \/ registry'[w].task # t /\ registry'[w] = registry[w]
                      \/ /\ registry'[w].task = t /\ w = Wxid(t)
                         /\ t \in cut' \/ (registry'[w].open /\ bot'[t].phase \in Held)
    BY DEF RegistryMoves
  <2>1. CASE w = Wxid(t)
    <3>1. registry'[w] = Client(t)
      BY <1>3, <2>1 DEF TypeOK
    <3> QED BY <1>3, <1>7, <2>1, <3>1 DEF Client, Held
  <2>2. CASE w # Wxid(t)
    <3>1. registry'[w] = registry[w]
      BY <1>3, <2>2 DEF TypeOK
    <3> QED BY <2>2, <3>1 DEF Registrations
  <2> QED BY <2>1, <2>2
<1> QED BY <1>2, <1>8, <1>9

LEMMA GoodbyeMoves ==
    ASSUME TypeOK, AppTyped, CallsTyped, Greeted, Registrations, NEW t \in Tasks,
           GoodbyeBegins(t)
    PROVE  Replaces(t) /\ HooksMove(t) /\ RegistryMoves(t)
<1>1. /\ HoldCancelled(t) \/ BotTasksGathered(t) \/ HoldReleased(t)
      /\ Call(t, IF bot'[t].phase = "offlineHooks" THEN Wanted("offline") ELSE {}, "offline")
      /\ Skipped(t)
  BY DEF GoodbyeBegins
<1>2. Replaces(t)
  BY <1>1, StepReplaces DEF BotStep
<1>3. /\ t \in DOMAIN bot /\ bot[t].phase \in Held /\ registry' = registry
      /\ bot'[t].phase \in {"gather", "offlineHooks", "backoff"}
  <2>1. CASE BotTasksGathered(t)
    <3>1. PICK p \in Lookup("offlineHooks") : Goto(t, p)
      BY <2>1 DEF BotTasksGathered
    <3> QED BY <2>1, <3>1, GotoRecord DEF BotTasksGathered, Resumes, At, Lookup, Held
  <2>2. CASE HoldCancelled(t) \/ HoldReleased(t)
    <3>1. t \in DOMAIN bot /\ bot[t].phase \in Held /\ bot[t] \in Bot
      BY <2>2 DEF HoldCancelled, HoldReleased, Resumes, Interrupted, At, Held, TypeOK
    <3>2. PICK e \in {"break", "raise"} : Offline(t, e)
      BY <2>2 DEF HoldCancelled, HoldReleased
    <3>3. PICK p \in {"gather"} \cup Lookup("offlineHooks") :
             bot' = [bot EXCEPT ![t] = [bot[t] EXCEPT !.phase = p, !.exit = e,
                                                      !.cancel = FALSE]]
      BY <3>2 DEF Offline
    <3>4. bot'[t].phase = p
      BY <3>1, <3>3 DEF Bot
    <3> QED BY <3>1, <3>2, <3>4 DEF Offline, Lookup
  <2> QED BY <1>1, <2>1, <2>2
<1>4. PICK todo : todo = IF bot'[t].phase = "offlineHooks" THEN Wanted("offline") ELSE {}
  OBVIOUS
<1>5. todo \subseteq Plugins /\ Call(t, todo, "offline")
  BY <1>1, <1>4, WantedType
<1>6. /\ hooks' \in [Tasks -> SUBSET Plugins] /\ hooks'[t] \subseteq todo
      /\ \A u \in Tasks : u # t => hooks'[u] = hooks[u]
      /\ told' \in [Plugins -> SUBSET DOMAIN bot]
      /\ \A p \in Plugins : told'[p] \subseteq told[p] \cup {t}
      /\ \A p \in Plugins : p \in todo /\ t \in told'[p] => p \in hooks'[t]
  <2>1. PICK h : h = "offline"
    OBVIOUS
  <2>2. Call(t, todo, h) /\ h # "online"
    BY <1>5, <2>1
  <2> QED BY <1>3, <1>5, <2>2, CallIs
<1>7. cut' \in {cut, cut \cup {t}} /\ (bot'[t].phase = "backoff" => t \in cut')
  BY <1>1 DEF Skipped
<1>8. \A p \in Faithful : p \in Plugins /\ p \in Wanted("offline")
  BY DEF AppTyped, Faithful, Wanted
<1>9. HooksMove(t)
  BY <1>3, <1>4, <1>6, <1>7, <1>8 DEF HooksMove, HookPhases
<1>10. RegistryMoves(t)
  <2> SUFFICES ASSUME NEW w \in Wxids, registry[w] # NoClient, registry[w].task = t
               PROVE  w = Wxid(t)
                      /\ (t \in cut' \/ (registry[w].open /\ bot'[t].phase \in Held))
    BY <1>3 DEF RegistryMoves
  <2> QED BY <1>3, <1>7 DEF Registrations, Held
<1> QED BY <1>2, <1>9, <1>10

(***************************************************************************)
(* The invariant holds.                                                    *)
(***************************************************************************)

LEMMA AppStarts == AppInit => AppInv
<1> SUFFICES ASSUME AppInit PROVE AppInv
  OBVIOUS
<1>1. TypeOK
  BY TypeInit DEF AppInit
<1>2. DOMAIN bot = {} /\ registry = [w \in Wxids |-> NoClient]
  BY DEF AppInit, Init
<1>3. AppTyped
  <2>1. Wanted("ready") \subseteq Plugins
    BY LifespanAssumption DEF AppInit, LifespanAssumption, Wanted
  <2> QED BY <2>1 DEF AppInit, AppTyped, AppPhases
<1>4. CallsTyped
  BY <1>2 DEF AppInit, CallsTyped, HooksTyped
<1>5. Greeted /\ Registrations
  BY <1>2 DEF Greeted, Registrations
<1> QED BY <1>1, <1>3, <1>4, <1>5, AppTypeParts DEF AppInv

LEMMA AppSteps == AppInv /\ [AppNext]_allvars => AppInv'
<1> SUFFICES ASSUME AppInv, [AppNext]_allvars PROVE AppInv'
  OBVIOUS
<1>1. TypeOK /\ AppTyped /\ CallsTyped /\ Greeted /\ Registrations
  BY AppTypeParts DEF AppInv
<1>2. TypeOK' /\ AppTyped'
  BY <1>1, BotsTyped, AppTypedStep
<1> DEFINE Kept == CallsTyped' /\ Greeted' /\ Registrations'
<1>3. ASSUME NEW t \in Tasks, BotActs(t) PROVE Kept
  <2>1. Replaces(t) /\ HooksMove(t) /\ RegistryMoves(t)
    BY <1>1, <1>3, HelloMoves, GoodbyeMoves, HookReturnsMoves, HooksDoneMoves,
       HooksCancelledMoves, OtherMoves DEF BotActs
  <2> QED BY <1>1, <2>1, MovesKeep
<1>4. ASSUME \A t \in Tasks : ~BotActs(t) PROVE Kept
  <2>1. Settled
    BY <1>1, <1>4, AppSettles
  <2> QED BY <1>1, <2>1, SettledKeeps
<1> HIDE DEF Kept
<1>5. Kept
  BY <1>3, <1>4
<1> USE DEF Kept
<1>6. AppTypeOK' /\ HooksTyped'
  BY <1>2, <1>5 DEF AppTypeOK, HooksTyped, AppTyped, CallsTyped
<1> QED BY <1>2, <1>5, <1>6 DEF AppInv

LEMMA AppHolds == AppSpec => []AppInv
BY AppStarts, AppSteps, PTL DEF AppSpec

\* The state of the application is of the type it declares; above all, hooks
\* are only called for a bot that is in its hooks.
THEOREM AppTypeCorrect == AppSpec => []AppTypeOK
BY AppHolds, PTL DEF AppInv

\* lifecycle.py:6: a plugin that was told of a bot going online is told when it
\* went offline, unless the bot was cut short within its hooks; whatever
\* requests, other plugins and the end of the application do meanwhile.
THEOREM EveryHelloHasGoodbye == AppSpec => []HelloHasGoodbye
<1>1. AppInv => HelloHasGoodbye
  BY DEF AppInv, Greeted, HelloHasGoodbye
<1> QED BY <1>1, AppHolds, PTL

\* client_registry.py:16: the registry hands out a closed client only of a bot
\* that was cut short within its hooks.
THEOREM ClosedClientsAreCut == AppSpec => []ClosedOnlyIfCut
<1>1. AppInv => ClosedOnlyIfCut
  <2> SUFFICES ASSUME AppInv, NEW w \in Wxids, registry[w] # NoClient, ~registry[w].open
               PROVE  registry[w].task \in cut
    BY DEF ClosedOnlyIfCut
  <2>1. registry[w].task \in Tasks
    BY DEF AppInv, TypeOK
  <2> QED BY <2>1 DEF AppInv, Registrations
<1> QED BY <1>1, AppHolds, PTL
=============================================================================
