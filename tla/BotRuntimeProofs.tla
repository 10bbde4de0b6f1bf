-------------------------- MODULE BotRuntimeProofs --------------------------
(***************************************************************************)
(* Invariance proofs for BotRuntime, for every value of its constants.     *)
(***************************************************************************)
EXTENDS BotMeetings, TLAPS

(***************************************************************************)
(* The records of the bots.                                                *)
(***************************************************************************)

\* Leaving `async with' keeps the row and the stop mark of a bot, puts it in
\* one of the three awaits of aclose(), and reaches the transport only when
\* neither the listener nor the keep-alive runs.
LEMMA CloseNextBot ==
    ASSUME NEW b \in Bot
    PROVE  /\ CloseNext(b) \in Bot
           /\ CloseNext(b).slot = b.slot
           /\ CloseNext(b).stopped = b.stopped
           /\ CloseNext(b).listener = b.listener
           /\ CloseNext(b).phase \in {"waitListener", "joinKeepalive", "closeTransport"}
           /\ CloseNext(b).phase = "closeTransport"
                <=> b.listener = "off" /\ b.keepalive = "off"
           /\ b.keepalive = "off" => CloseNext(b).keepalive = "off"
  BY DEF CloseNext, Bot, Phases, TaskStates

LEMMA ClosingBot ==
    ASSUME NEW b \in Bot, NEW e \in {"loop", "break", "raise"}
    PROVE  /\ Closing(b, e) \in Bot
           /\ Closing(b, e).slot = b.slot
           /\ Closing(b, e).stopped = b.stopped
           /\ Closing(b, e).listener = "off" <=> b.listener = "off"
           /\ Closing(b, e).phase \in {"waitListener", "joinKeepalive", "closeTransport"}
           /\ Closing(b, e).phase = "closeTransport"
                <=> b.listener = "off" /\ b.keepalive = "off"
           /\ b.keepalive = "off" => Closing(b, e).keepalive = "off"
<1> DEFINE c == [b EXCEPT !.exit = e,
                          !.listener = IF @ = "off" THEN @ ELSE "cancelling"]
<1>1. /\ c \in Bot /\ c.slot = b.slot /\ c.stopped = b.stopped
      /\ c.keepalive = b.keepalive
      /\ c.listener = "off" <=> b.listener = "off"
  BY DEF Bot, TaskStates
<1>2. Closing(b, e) = CloseNext(c)
  BY DEF Closing
<1> HIDE DEF c
<1> QED
  BY <1>1, <1>2, CloseNextBot

LEMMA NewBotType == ASSUME NEW s \in Slots PROVE NewBot(s) \in Bot
  BY DEF NewBot, Bot, Phases, TaskStates

LEMMA MarkClosedType ==
    ASSUME TypeOK, NEW t \in Tasks
    PROVE  MarkClosed(t) \in [Wxids -> [task : Tasks, open : BOOLEAN] \cup {NoClient}]
  BY DEF MarkClosed, TypeOK, Client

(***************************************************************************)
(* What a step of a bot, or of a task of its client, does to the table of  *)
(* bots: it replaces one record and keeps that record's row and stop mark. *)
(***************************************************************************)
Replaces(t) ==
    /\ t \in DOMAIN bot
    /\ tasks' = tasks
    /\ \E b \in Bot : /\ b.slot = bot[t].slot
                      /\ b.stopped = bot[t].stopped
                      /\ bot' = [bot EXCEPT ![t] = b]

LEMMA ReplaceBot ==
    ASSUME TypeOK, NEW t \in DOMAIN bot, NEW b \in Bot,
           b.slot = bot[t].slot, b.stopped = bot[t].stopped, tasks' = tasks,
           bot' = [bot EXCEPT ![t] = b]
    PROVE  Replaces(t)
  BY DEF Replaces

LEMMA LookupPhases ==
    ASSUME NEW p \in Phases, NEW q \in Lookup(p)
    PROVE  q \in Phases /\ q \in {p, "backoff"}
  BY DEF Lookup, Phases

\* A bot that moves to another await.
LEMMA GotoReplaces ==
    ASSUME TypeOK, NEW t \in DOMAIN bot, NEW p \in Phases,
           Goto(t, p), tasks' = tasks
    PROVE  Replaces(t)
<1> DEFINE b == [bot[t] EXCEPT !.phase = p]
<1>1. bot[t] \in Bot
  BY DEF TypeOK
<1>2. b \in Bot /\ b.slot = bot[t].slot /\ b.stopped = bot[t].stopped
  BY <1>1 DEF Bot
<1>3. bot' = [bot EXCEPT ![t] = b]
  BY DEF Goto
<1> QED
  BY <1>2, <1>3 DEF Replaces

\* A bot that leaves `async with'.
LEMMA AcloseReplaces ==
    ASSUME TypeOK, NEW t \in DOMAIN bot, NEW e \in {"loop", "break", "raise"},
           Aclose(t, e), tasks' = tasks
    PROVE  Replaces(t)
<1>1. bot[t] \in Bot
  BY DEF TypeOK
<1>2. bot' = [bot EXCEPT ![t] = Closing(bot[t], e)]
  BY DEF Aclose
<1> QED
  BY <1>1, <1>2, ClosingBot DEF Replaces

LEMMA OfflineReplaces ==
    ASSUME TypeOK, NEW t \in DOMAIN bot, NEW e \in {"break", "raise"},
           Offline(t, e)
    PROVE  Replaces(t)
<1>1. PICK p \in {"gather"} \cup Lookup("offlineHooks") :
           bot' = [bot EXCEPT ![t] = [@ EXCEPT !.phase = p, !.exit = e,
                                               !.cancel = FALSE]]
  BY DEF Offline
<1> DEFINE b == [bot[t] EXCEPT !.phase = p, !.exit = e, !.cancel = FALSE]
<1>2. p \in Phases
  BY <1>1 DEF Lookup, Phases
<1>3. bot[t] \in Bot
  BY DEF TypeOK
<1>4. b \in Bot /\ b.slot = bot[t].slot /\ b.stopped = bot[t].stopped
  BY <1>2, <1>3 DEF Bot
<1>5. bot' = [bot EXCEPT ![t] = b] /\ tasks' = tasks
  BY <1>1 DEF Offline
<1> QED
  BY <1>4, <1>5 DEF Replaces

LEMMA StepReplaces ==
    ASSUME TypeOK, NEW t \in Tasks, BotStep(t)
    PROVE  Replaces(t)
<1> USE DEF Resumes, Interrupted, At, Phases
<1>1. CASE FirstStep(t)
  BY <1>1, GotoReplaces DEF FirstStep
<1>2. CASE LoginSucceeds(t)
  BY <1>2, GotoReplaces DEF LoginSucceeds
<1>3. CASE LoginFails(t)
  BY <1>3, GotoReplaces DEF LoginFails
<1>4. CASE StartListening(t)
  <2> DEFINE b == [bot[t] EXCEPT !.phase = "greet", !.gaveUp = FALSE,
                                 !.listener = "running",
                                 !.keepalive = "running"]
  <2>1. t \in DOMAIN bot /\ bot[t] \in Bot
    BY <1>4 DEF StartListening, TypeOK
  <2>2. b \in Bot /\ b.slot = bot[t].slot /\ b.stopped = bot[t].stopped
    BY <2>1 DEF Bot, TaskStates
  <2>3. bot' = [bot EXCEPT ![t] = b] /\ tasks' = tasks
    BY <1>4 DEF StartListening
  <2> QED
    BY <2>1, <2>2, <2>3 DEF Replaces
<1>5. CASE RegisterClient(t)
  BY <1>5, GotoReplaces, LookupPhases DEF RegisterClient
<1>6. CASE OnlineHooksDone(t)
  BY <1>6, GotoReplaces DEF OnlineHooksDone
<1>7. CASE HoldReleased(t)
  BY <1>7, OfflineReplaces DEF HoldReleased
<1>8. CASE HoldCancelled(t)
  BY <1>8, OfflineReplaces DEF HoldCancelled
<1>9. CASE BotTasksGathered(t)
  BY <1>9, GotoReplaces, LookupPhases DEF BotTasksGathered
<1>10. CASE OfflineHooksDone(t)
  <2> DEFINE n == [bot[t] EXCEPT !.phase = "notice"]
  <2>1. t \in DOMAIN bot /\ bot[t] \in Bot
    BY <1>10 DEF OfflineHooksDone, TypeOK
  <2>2. n \in Bot /\ n.slot = bot[t].slot /\ n.stopped = bot[t].stopped
    BY <2>1 DEF Bot
  <2>3. /\ bot' = [bot EXCEPT ![t] = IF bot[t].exit = "raise"
                                      THEN Closing(bot[t], "raise") ELSE n]
        /\ tasks' = tasks
    BY <1>10 DEF OfflineHooksDone
  <2> HIDE DEF n
  <2>4. CASE bot[t].exit = "raise"
    BY <2>1, <2>3, <2>4, ClosingBot DEF Replaces
  <2>5. CASE bot[t].exit # "raise"
    BY <2>1, <2>2, <2>3, <2>5 DEF Replaces
  <2> QED
    BY <2>4, <2>5
<1>11. CASE NoticeSent(t)
  BY <1>11, AcloseReplaces DEF NoticeSent
<1>12. CASE BackoffDone(t)
  BY <1>12, AcloseReplaces DEF BackoffDone
<1>13. CASE CancelledInBody(t) \/ LoginTimesOut(t)
  BY <1>13, AcloseReplaces DEF CancelledInBody, LoginTimesOut
<1>14. CASE ListenerAwaited(t) \/ KeepaliveJoined(t)
  <2>1. /\ t \in DOMAIN bot /\ bot[t] \in Bot /\ tasks' = tasks
        /\ bot' = [bot EXCEPT ![t] = CloseNext(bot[t])]
    BY <1>14 DEF ListenerAwaited, KeepaliveJoined, TypeOK
  <2> QED
    BY <2>1, CloseNextBot DEF Replaces
<1>15. CASE LoopAgain(t)
  BY <1>15, GotoReplaces DEF LoopAgain
<1>16. CASE Finish(t)
  BY <1>16, GotoReplaces DEF Finish
<1>17. CASE NeverRun(t)
  BY <1>17, GotoReplaces DEF NeverRun
<1> QED
  BY <1>1, <1>2, <1>3, <1>4, <1>5, <1>6, <1>7, <1>8, <1>9, <1>10, <1>11,
     <1>12, <1>13, <1>14, <1>15, <1>16, <1>17 DEF BotStep

LEMMA BackgroundReplaces ==
    ASSUME TypeOK, NEW t \in Tasks,
           ListenerExhausted(t) \/ ListenerEnds(t) \/ KeepaliveEnds(t)
    PROVE  Replaces(t)
<1>1. t \in DOMAIN bot /\ bot[t] \in Bot /\ tasks' = tasks
  BY DEF TypeOK, ListenerExhausted, ListenerEnds, KeepaliveEnds
<1>2. CASE ListenerExhausted(t)
  <2> DEFINE b == [bot[t] EXCEPT !.listener = "off", !.gaveUp = TRUE]
  <2>1. b \in Bot /\ b.slot = bot[t].slot /\ b.stopped = bot[t].stopped
    BY <1>1 DEF Bot, TaskStates
  <2>2. bot' = [bot EXCEPT ![t] = b]
    BY <1>2 DEF ListenerExhausted
  <2> QED
    BY <1>1, <2>1, <2>2 DEF Replaces
<1>3. CASE ListenerEnds(t)
  <2> DEFINE b == [bot[t] EXCEPT !.listener = "off"]
  <2>1. b \in Bot /\ b.slot = bot[t].slot /\ b.stopped = bot[t].stopped
    BY <1>1 DEF Bot, TaskStates
  <2>2. bot' = [bot EXCEPT ![t] = b]
    BY <1>3 DEF ListenerEnds
  <2> QED
    BY <1>1, <2>1, <2>2 DEF Replaces
<1>4. CASE KeepaliveEnds(t)
  <2> DEFINE b == [bot[t] EXCEPT !.keepalive = "off"]
  <2>1. b \in Bot /\ b.slot = bot[t].slot /\ b.stopped = bot[t].stopped
    BY <1>1 DEF Bot, TaskStates
  <2>2. bot' = [bot EXCEPT ![t] = b]
    BY <1>4 DEF KeepaliveEnds
  <2> QED
    BY <1>1, <2>1, <2>2 DEF Replaces
<1> QED
  BY <1>2, <1>3, <1>4

LEMMA ReplacesType ==
    ASSUME TypeOK, NEW t, Replaces(t)
    PROVE  /\ DOMAIN bot' = DOMAIN bot
           /\ DOMAIN bot' \subseteq Tasks
           /\ bot' \in [DOMAIN bot' -> Bot]
           /\ tasks' \in [Slots -> Tasks \cup {NoTask}]
           /\ bot'[t].slot = bot[t].slot
           /\ bot'[t].stopped = bot[t].stopped
           /\ \A u \in DOMAIN bot : u # t => bot'[u] = bot[u]
<1>1. PICK b \in Bot : /\ b.slot = bot[t].slot
                       /\ b.stopped = bot[t].stopped
                       /\ bot' = [bot EXCEPT ![t] = b]
  BY DEF Replaces
<1> QED
  BY <1>1 DEF Replaces, TypeOK

LEMMA WxidType == ASSUME TypeOK, NEW t \in DOMAIN bot PROVE Wxid(t) \in Wxids
  BY ConstantAssumption DEF Wxid, TypeOK, Bot

(***************************************************************************)
(* Type correctness.                                                       *)
(***************************************************************************)

LEMMA StartType ==
    ASSUME TypeOK, NEW s \in Slots, StartOne(s)
    PROVE  TypeOK'
<1>1. PICK t \in Tasks \ DOMAIN bot :
          /\ tasks' = [tasks EXCEPT ![s] = t]
          /\ bot' = [u \in DOMAIN bot \cup {t} |->
                        IF u = t THEN NewBot(s) ELSE bot[u]]
  BY DEF StartOne
<1>2. bot' \in [DOMAIN bot \cup {t} -> Bot]
  BY <1>1, NewBotType DEF TypeOK
<1>3. DOMAIN bot' = DOMAIN bot \cup {t}
  BY <1>1
<1> QED
  BY <1>1, <1>2, <1>3 DEF TypeOK, StartOne

LEMMA StopType ==
    ASSUME TypeOK, NEW s \in Slots, StopForAccount(s)
    PROVE  TypeOK'
<1>1. /\ tasks' = [tasks EXCEPT ![s] = NoTask]
      /\ pending' \subseteq pending
      /\ UNCHANGED <<registry, botTasks>>
  BY DEF StopForAccount
<1>2. DOMAIN bot' = DOMAIN bot /\ bot' \in [DOMAIN bot -> Bot]
  <2> DEFINE b(t) == [bot[t] EXCEPT !.cancel = TRUE, !.stopped = TRUE]
  <2>1. CASE tasks[s] # NoTask /\ Live(tasks[s])
    <3>1. tasks[s] \in DOMAIN bot /\ bot[tasks[s]] \in Bot
      BY <2>1 DEF Live, TypeOK
    <3>2. b(tasks[s]) \in Bot
      BY <3>1 DEF Bot
    <3>3. bot' = [bot EXCEPT ![tasks[s]] = b(tasks[s])]
      BY <2>1 DEF StopForAccount
    <3> QED
      BY <3>1, <3>2, <3>3 DEF TypeOK
  <2>2. CASE ~(tasks[s] # NoTask /\ Live(tasks[s]))
    BY <2>2 DEF StopForAccount, TypeOK
  <2> QED
    BY <2>1, <2>2
<1> QED
  BY <1>1, <1>2 DEF TypeOK

\* The shared tables after a step of a bot.
LEMMA StepShared ==
    ASSUME TypeOK, NEW t \in Tasks, BotStep(t)
    PROVE  /\ pending' \subseteq Slots
           /\ registry' \in [Wxids -> [task : Tasks, open : BOOLEAN] \cup {NoClient}]
           /\ botTasks' \in [Wxids -> SUBSET Tasks]
<1>1. t \in DOMAIN bot
  BY StepReplaces DEF Replaces
<1>2. bot[t].slot \in Slots /\ Wxid(t) \in Wxids
  BY <1>1, WxidType DEF TypeOK, Bot
<1>3. pending' \in {pending, pending \cup {bot[t].slot}, pending \ {bot[t].slot}}
  BY DEF BotStep, FirstStep, LoginSucceeds, LoginFails, LoginTimesOut,
         StartListening,
         RegisterClient, OnlineHooksDone, HoldReleased, HoldCancelled, Offline,
         BotTasksGathered, OfflineHooksDone, NoticeSent, BackoffDone,
         CancelledInBody, ListenerAwaited, KeepaliveJoined, LoopAgain, Finish,
         NeverRun
<1>4. \/ registry' = registry
      \/ registry' = MarkClosed(t)
      \/ \E x \in {Client(t), NoClient} :
            registry' = [registry EXCEPT ![Wxid(t)] = x]
  BY DEF BotStep, FirstStep, LoginSucceeds, LoginFails, LoginTimesOut,
         StartListening,
         RegisterClient, OnlineHooksDone, HoldReleased, HoldCancelled, Offline,
         BotTasksGathered, OfflineHooksDone, NoticeSent, BackoffDone, Aclose,
         CancelledInBody, ListenerAwaited, KeepaliveJoined, LoopAgain, Finish,
         NeverRun
<1>5. botTasks' = botTasks \/ botTasks' = [botTasks EXCEPT ![Wxid(t)] = {}]
  BY DEF BotStep, FirstStep, LoginSucceeds, LoginFails, LoginTimesOut,
         StartListening,
         RegisterClient, OnlineHooksDone, HoldReleased, HoldCancelled, Offline,
         BotTasksGathered, OfflineHooksDone, NoticeSent, BackoffDone,
         CancelledInBody, ListenerAwaited, KeepaliveJoined, LoopAgain, Finish,
         NeverRun
<1>6. registry' \in [Wxids -> [task : Tasks, open : BOOLEAN] \cup {NoClient}]
  <2>1. CASE registry' = MarkClosed(t)
    BY <2>1, MarkClosedType
  <2>2. CASE registry' = registry
    BY <2>2 DEF TypeOK
  <2>3. ASSUME NEW x \in {Client(t), NoClient},
               registry' = [registry EXCEPT ![Wxid(t)] = x]
        PROVE  registry' \in [Wxids -> [task : Tasks, open : BOOLEAN] \cup {NoClient}]
    <3>1. Client(t) \in [task : Tasks, open : BOOLEAN]
      BY DEF Client
    <3>2. x \in [task : Tasks, open : BOOLEAN] \cup {NoClient}
      BY <3>1
    <3> QED
      BY <1>2, <2>3, <3>2 DEF TypeOK
  <2> QED
    BY <1>4, <2>1, <2>2, <2>3
<1> QED
  BY <1>2, <1>3, <1>5, <1>6 DEF TypeOK

LEMMA TypeInit == Init => TypeOK
  BY DEF Init, TypeOK

LEMMA TypeStep == TypeOK /\ [Next]_vars => TypeOK'
<1> SUFFICES ASSUME TypeOK, [Next]_vars PROVE TypeOK'
  OBVIOUS
<1>1. ASSUME NEW s \in Slots, StartOne(s) \/ StopForAccount(s) PROVE TypeOK'
  BY <1>1, StartType, StopType
<1>2. ASSUME NEW t \in Tasks, BotStep(t) PROVE TypeOK'
  BY <1>2, StepReplaces, ReplacesType, StepShared DEF TypeOK
<1>3. ASSUME NEW t \in Tasks,
             ListenerExhausted(t) \/ ListenerEnds(t) \/ KeepaliveEnds(t)
      PROVE  TypeOK'
  <2>1. Replaces(t)
    BY <1>3, BackgroundReplaces
  <2>2. UNCHANGED <<pending, registry, botTasks>>
    BY <1>3 DEF ListenerExhausted, ListenerEnds, KeepaliveEnds
  <2> QED
    BY <2>1, <2>2, ReplacesType DEF TypeOK
<1>4. ASSUME NEW t \in Tasks, SpawnBotTask(t) PROVE TypeOK'
  BY <1>4, WxidType DEF SpawnBotTask, TypeOK
<1>5. ASSUME NEW t \in Tasks, BotTaskEnds(t) PROVE TypeOK'
  BY <1>5 DEF BotTaskEnds, TypeOK
<1>6. CASE UNCHANGED vars
  BY <1>6 DEF vars, TypeOK
<1> QED
  BY <1>1, <1>2, <1>3, <1>4, <1>5, <1>6 DEF Next, Background

\* Every reachable state of the bot runtime is well typed.
THEOREM TypeCorrect == Spec => []TypeOK
  BY TypeInit, TypeStep, PTL DEF Spec

(***************************************************************************)
(* No bot is lost.  The invariant is inductive on typed states: StartOne   *)
(* replaces only an entry that is empty or done, StopForAccount removes    *)
(* and cancels in one step, and no other step changes a row's entry or     *)
(* takes a stop mark back.                                                 *)
(***************************************************************************)

\* Only a bot that is not done has steps.
LEMMA StepLive == ASSUME NEW t, BotStep(t) PROVE Live(t)
  BY DEF BotStep, Live, At, Resumes, Interrupted, FirstStep, LoginSucceeds,
         LoginFails, LoginTimesOut, StartListening, RegisterClient,
         OnlineHooksDone, HoldReleased, HoldCancelled, BotTasksGathered, OfflineHooksDone,
         NoticeSent, BackoffDone, CancelledInBody, ListenerAwaited,
         KeepaliveJoined, LoopAgain, Finish, NeverRun

\* The tasks of a client do not move their bot.
LEMMA BackgroundPhase ==
    ASSUME TypeOK, NEW t,
           ListenerExhausted(t) \/ ListenerEnds(t) \/ KeepaliveEnds(t)
    PROVE  bot'[t].phase = bot[t].phase
<1>1. t \in DOMAIN bot /\ bot[t] \in Bot
  BY DEF TypeOK, ListenerExhausted, ListenerEnds, KeepaliveEnds
<1> QED
  BY <1>1 DEF ListenerExhausted, ListenerEnds, KeepaliveEnds, Bot

LEMMA LostReplaces ==
    ASSUME TypeOK, NoLostBot, NEW t, Replaces(t),
           Live(t) \/ bot'[t].phase = bot[t].phase
    PROVE  NoLostBot'
<1> SUFFICES ASSUME NEW u \in DOMAIN bot', bot'[u].phase # "done",
                    tasks'[bot'[u].slot] # u
             PROVE  bot'[u].stopped
  BY DEF NoLostBot, Live
<1>1. u \in DOMAIN bot /\ tasks' = tasks
  BY ReplacesType DEF Replaces
<1>2. bot'[u].slot = bot[u].slot /\ bot'[u].stopped = bot[u].stopped
  BY <1>1, ReplacesType
<1>3. Live(u)
  BY <1>1, ReplacesType DEF Live
<1> QED
  BY <1>1, <1>2, <1>3 DEF NoLostBot

LEMMA LostStart ==
    ASSUME TypeOK, NoLostBot, NEW s \in Slots, StartOne(s)
    PROVE  NoLostBot'
<1>1. PICK t \in Tasks \ DOMAIN bot :
          /\ tasks' = [tasks EXCEPT ![s] = t]
          /\ bot' = [u \in DOMAIN bot \cup {t} |->
                        IF u = t THEN NewBot(s) ELSE bot[u]]
  BY DEF StartOne
<1>2. tasks[s] = NoTask \/ ~Live(tasks[s])
  BY DEF StartOne
<1> SUFFICES ASSUME NEW u \in DOMAIN bot', bot'[u].phase # "done",
                    tasks'[bot'[u].slot] # u
             PROVE  bot'[u].stopped
  BY DEF NoLostBot, Live
<1>3. u # t
  BY <1>1 DEF NewBot, TypeOK
<1>4. u \in DOMAIN bot /\ bot'[u] = bot[u] /\ Live(u)
  BY <1>1, <1>3 DEF Live
<1>5. NoTask # u
  BY <1>4, ConstantAssumption DEF TypeOK
<1>6. bot[u].slot \in Slots
  BY <1>4 DEF TypeOK, Bot
<1>7. tasks[bot[u].slot] # u
  BY <1>1, <1>2, <1>4, <1>5, <1>6 DEF TypeOK
<1> QED
  BY <1>4, <1>7 DEF NoLostBot

LEMMA LostStop ==
    ASSUME TypeOK, NoLostBot, NEW s \in Slots, StopForAccount(s)
    PROVE  NoLostBot'
<1> DEFINE t == tasks[s]
<1>1. tasks' = [tasks EXCEPT ![s] = NoTask]
  BY DEF StopForAccount
<1> SUFFICES ASSUME NEW u \in DOMAIN bot', bot'[u].phase # "done",
                    tasks'[bot'[u].slot] # u
             PROVE  bot'[u].stopped
  BY DEF NoLostBot, Live
<1>2. CASE t # NoTask /\ Live(t)
  <2>1. bot' = [bot EXCEPT ![t] = [bot[t] EXCEPT !.cancel = TRUE, !.stopped = TRUE]]
    BY <1>2 DEF StopForAccount
  <2>2. u \in DOMAIN bot /\ bot[u] \in Bot
    BY <2>1 DEF TypeOK
  <2>3. CASE u = t
    BY <2>1, <2>2, <2>3 DEF Bot
  <2>4. CASE u # t
    <3>1. bot'[u] = bot[u] /\ Live(u)
      BY <2>1, <2>2, <2>4 DEF Live
    <3>2. tasks[bot[u].slot] # u
      BY <1>1, <2>2, <2>4, <3>1 DEF TypeOK, Bot
    <3> QED
      BY <2>2, <3>1, <3>2 DEF NoLostBot
  <2> QED
    BY <2>3, <2>4
<1>3. CASE ~(t # NoTask /\ Live(t))
  <2>1. bot' = bot
    BY <1>3 DEF StopForAccount
  <2>2. Live(u) /\ bot[u] \in Bot /\ u \in Tasks
    BY <2>1 DEF Live, TypeOK
  <2>3. tasks[bot[u].slot] # u
    BY <1>1, <1>3, <2>1, <2>2, ConstantAssumption DEF TypeOK, Bot
  <2> QED
    BY <2>1, <2>2, <2>3 DEF NoLostBot
<1> QED
  BY <1>2, <1>3

LEMMA LostStep == TypeOK /\ NoLostBot /\ [Next]_vars => NoLostBot'
<1> SUFFICES ASSUME TypeOK, NoLostBot, [Next]_vars PROVE NoLostBot'
  OBVIOUS
<1>1. ASSUME NEW s \in Slots, StartOne(s) \/ StopForAccount(s) PROVE NoLostBot'
  BY <1>1, LostStart, LostStop
<1>2. ASSUME NEW t \in Tasks, BotStep(t) PROVE NoLostBot'
  BY <1>2, StepReplaces, StepLive, LostReplaces
<1>3. ASSUME NEW t \in Tasks,
             ListenerExhausted(t) \/ ListenerEnds(t) \/ KeepaliveEnds(t)
      PROVE  NoLostBot'
  BY <1>3, BackgroundReplaces, BackgroundPhase, LostReplaces
<1>4. CASE UNCHANGED <<tasks, bot>>
  BY <1>4 DEF NoLostBot, Live
<1> QED
  BY <1>1, <1>2, <1>3, <1>4 DEF Next, Background, SpawnBotTask, BotTaskEnds, vars

\* start_one and stop_for_account leave no running bot out of _tasks without
\* having cancelled it.
THEOREM NoBotIsLost == Spec => []NoLostBot
<1>1. Init => NoLostBot
  BY DEF Init, NoLostBot
<1> QED
  BY <1>1, LostStep, TypeCorrect, PTL DEF Spec

(***************************************************************************)
(* The order of aclose(), and the marks of rows that log in.  Ended is     *)
(* ClientTasksEndFirst for one record, Entering is LoggingIn for one.      *)
(***************************************************************************)
Ended(b) ==
    b.phase \in {"closeTransport", "done", "created", "login", "announce"}
        => b.listener = "off" /\ b.keepalive = "off"

Entering(b) ==
    /\ b.phase \in {"login", "backoff", "notice", "closeTransport"}
    /\ b.listener = "off"
    /\ b.keepalive = "off"

(***************************************************************************)
(* A step of bot t keeps its record Ended; it leaves its row unmarked, or  *)
(* its record Entering if it was; and it marks no other row.               *)
(***************************************************************************)
Orderly(t) ==
    /\ Ended(bot'[t])
    /\ pending' \subseteq pending \cup {bot[t].slot}
    /\ \/ bot[t].slot \notin pending'
       \/ Entering(bot'[t])
       \/ ~Entering(bot[t]) /\ pending' = pending

LEMMA GotoRecord ==
    ASSUME TypeOK, NEW t \in DOMAIN bot, NEW p, Goto(t, p)
    PROVE  /\ bot'[t].phase = p
           /\ bot'[t].listener = bot[t].listener
           /\ bot'[t].keepalive = bot[t].keepalive
<1>1. bot[t] \in Bot
  BY DEF TypeOK
<1> QED
  BY <1>1 DEF Goto, Bot

LEMMA ClosingOrderly ==
    ASSUME TypeOK, NEW t \in DOMAIN bot, NEW e \in {"loop", "break", "raise"},
           bot' = [bot EXCEPT ![t] = Closing(bot[t], e)], pending' = pending
    PROVE  Orderly(t)
<1>1. bot[t] \in Bot /\ bot'[t] = Closing(bot[t], e)
  BY DEF TypeOK
<1>2. Ended(bot'[t])
  BY <1>1, ClosingBot DEF Ended
<1>3. Entering(bot[t]) => Entering(bot'[t])
  BY <1>1, ClosingBot DEF Entering
<1> QED
  BY <1>2, <1>3 DEF Orderly

LEMMA OfflineOrderly ==
    ASSUME TypeOK, NEW t \in DOMAIN bot, NEW e, Offline(t, e),
           bot[t].phase \in {"hold", "onlineHooks"}
    PROVE  Orderly(t)
<1>1. PICK p \in {"gather"} \cup Lookup("offlineHooks") :
           bot' = [bot EXCEPT ![t] = [bot[t] EXCEPT !.phase = p, !.exit = e,
                                                    !.cancel = FALSE]]
  BY DEF Offline
<1>2. bot[t] \in Bot
  BY DEF TypeOK
<1>3. bot'[t].phase = p
  BY <1>1, <1>2 DEF Bot
<1>4. p \in {"gather", "offlineHooks", "backoff"}
  BY DEF Lookup
<1>5. pending' = pending
  BY DEF Offline
<1> QED
  BY <1>3, <1>4, <1>5 DEF Orderly, Ended, Entering

LEMMA StepOrderly ==
    ASSUME TypeOK, ClientTasksEndFirst, NEW t \in Tasks, BotStep(t)
    PROVE  Orderly(t)
<1> USE DEF Resumes, Interrupted, At
<1>0. t \in DOMAIN bot /\ bot[t] \in Bot /\ Ended(bot[t])
  BY StepLive DEF Live, TypeOK, ClientTasksEndFirst, Ended
<1>1. CASE FirstStep(t)
  BY <1>0, <1>1, GotoRecord DEF FirstStep, Orderly, Ended, Entering
<1>2. CASE LoginSucceeds(t)
  BY <1>0, <1>2, GotoRecord DEF LoginSucceeds, Orderly, Ended
<1>3. CASE LoginFails(t)
  BY <1>0, <1>3, GotoRecord DEF LoginFails, Orderly, Ended, Entering
<1>4. CASE StartListening(t)
  <2>1. bot'[t].phase = "greet" /\ bot[t].phase = "announce" /\ pending' = pending
    BY <1>0, <1>4 DEF StartListening, Bot
  <2> QED
    BY <2>1 DEF Orderly, Ended, Entering
<1>5. CASE RegisterClient(t)
  BY <1>0, <1>5, GotoRecord, LookupPhases
     DEF RegisterClient, Orderly, Ended, Entering, Phases
<1>6. CASE OnlineHooksDone(t)
  BY <1>0, <1>6, GotoRecord DEF OnlineHooksDone, Orderly, Ended, Entering
<1>7. CASE HoldReleased(t) \/ HoldCancelled(t)
  BY <1>0, <1>7, OfflineOrderly DEF HoldReleased, HoldCancelled
<1>8. CASE BotTasksGathered(t)
  BY <1>0, <1>8, GotoRecord, LookupPhases
     DEF BotTasksGathered, Orderly, Ended, Entering, Phases
<1>9. CASE OfflineHooksDone(t)
  <2>1. CASE bot[t].exit = "raise"
    BY <1>0, <1>9, <2>1, ClosingOrderly DEF OfflineHooksDone
  <2>2. CASE bot[t].exit # "raise"
    <3>1. bot' = [bot EXCEPT ![t] = [bot[t] EXCEPT !.phase = "notice"]]
      BY <1>9, <2>2 DEF OfflineHooksDone
    <3>2. /\ bot'[t].phase = "notice" /\ bot[t].phase = "offlineHooks"
          /\ pending' = pending
      BY <1>0, <1>9, <3>1 DEF OfflineHooksDone, Bot
    <3> QED
      BY <3>2 DEF Orderly, Ended, Entering
  <2> QED
    BY <2>1, <2>2
<1>10. CASE NoticeSent(t) \/ BackoffDone(t) \/ CancelledInBody(t)
            \/ LoginTimesOut(t)
  BY <1>0, <1>10, ClosingOrderly
     DEF NoticeSent, BackoffDone, CancelledInBody, LoginTimesOut, Aclose
<1>11. CASE ListenerAwaited(t) \/ KeepaliveJoined(t)
  <2>1. /\ bot'[t] = CloseNext(bot[t]) /\ pending' = pending
        /\ bot[t].phase \in {"waitListener", "joinKeepalive"}
    BY <1>0, <1>11 DEF ListenerAwaited, KeepaliveJoined
  <2>2. Ended(bot'[t])
    BY <1>0, <2>1, CloseNextBot DEF Ended
  <2> QED
    BY <2>1, <2>2 DEF Orderly, Entering
<1>12. CASE LoopAgain(t)
  BY <1>0, <1>12, GotoRecord DEF LoopAgain, Orderly, Ended, Entering
<1>13. CASE Finish(t)
  BY <1>0, <1>13, GotoRecord DEF Finish, Orderly, Ended
<1>14. CASE NeverRun(t)
  BY <1>0, <1>14, GotoRecord DEF NeverRun, Orderly, Ended, Entering
<1> QED
  BY <1>1, <1>2, <1>3, <1>4, <1>5, <1>6, <1>7, <1>8, <1>9, <1>10, <1>11,
     <1>12, <1>13, <1>14 DEF BotStep

LEMMA BackgroundOrderly ==
    ASSUME TypeOK, ClientTasksEndFirst, NEW t,
           ListenerExhausted(t) \/ ListenerEnds(t) \/ KeepaliveEnds(t)
    PROVE  Orderly(t)
<1>1. t \in DOMAIN bot /\ bot[t] \in Bot /\ Ended(bot[t]) /\ pending' = pending
  BY DEF TypeOK, ClientTasksEndFirst, Ended,
         ListenerExhausted, ListenerEnds, KeepaliveEnds
<1>2. bot'[t].phase = bot[t].phase
  BY BackgroundPhase
<1>3. /\ bot'[t].listener \in {bot[t].listener, "off"}
      /\ bot'[t].keepalive \in {bot[t].keepalive, "off"}
  <2>1. CASE ListenerExhausted(t)
    BY <1>1, <2>1 DEF ListenerExhausted, Bot
  <2>2. CASE ListenerEnds(t)
    BY <1>1, <2>2 DEF ListenerEnds, Bot
  <2>3. CASE KeepaliveEnds(t)
    BY <1>1, <2>3 DEF KeepaliveEnds, Bot
  <2> QED
    BY <2>1, <2>2, <2>3
<1> QED
  BY <1>1, <1>2, <1>3 DEF Orderly, Ended, Entering

LEMMA OrderlyKeeps ==
    ASSUME TypeOK, ClientTasksEndFirst, NEW t, Replaces(t), Orderly(t)
    PROVE  /\ ClientTasksEndFirst'
           /\ PendingMeansLoggingIn => PendingMeansLoggingIn'
<1>1. DOMAIN bot' = DOMAIN bot /\ t \in DOMAIN bot
  BY ReplacesType DEF Replaces
<1>2. \A u \in DOMAIN bot : u # t => bot'[u] = bot[u]
  BY ReplacesType
<1>3. ClientTasksEndFirst'
  BY <1>1, <1>2 DEF Orderly, Ended, ClientTasksEndFirst
<1>4. ASSUME PendingMeansLoggingIn, NEW s \in pending'
      PROVE  \E u \in DOMAIN bot' : bot'[u].slot = s /\ Entering(bot'[u])
  <2>1. bot'[t].slot = bot[t].slot
    BY ReplacesType
  <2>2. CASE s = bot[t].slot /\ Entering(bot'[t])
    BY <1>1, <2>1, <2>2
  <2>3. CASE ~(s = bot[t].slot /\ Entering(bot'[t]))
    <3>1. s \in pending
      BY <1>4, <2>3 DEF Orderly
    <3>2. PICK u \in DOMAIN bot : bot[u].slot = s /\ Entering(bot[u])
      BY <1>4, <3>1 DEF PendingMeansLoggingIn, LoggingIn, Entering
    <3>3. u # t
      BY <1>4, <2>3, <3>2 DEF Orderly
    <3> QED
      BY <1>1, <1>2, <3>2, <3>3
  <2> QED
    BY <2>2, <2>3
<1>5. PendingMeansLoggingIn => PendingMeansLoggingIn'
  BY <1>4 DEF PendingMeansLoggingIn, LoggingIn, Entering
<1> QED
  BY <1>3, <1>5

\* A request touches no record but that of a new bot, or the two marks of one.
LEMMA RequestRecords ==
    ASSUME TypeOK, NEW s \in Slots, StartOne(s) \/ StopForAccount(s)
    PROVE  /\ pending' \subseteq pending
           /\ DOMAIN bot \subseteq DOMAIN bot'
           /\ \A u \in DOMAIN bot :
                 /\ bot'[u].slot = bot[u].slot
                 /\ bot'[u].phase = bot[u].phase
                 /\ bot'[u].listener = bot[u].listener
                 /\ bot'[u].keepalive = bot[u].keepalive
           /\ \A u \in DOMAIN bot' \ DOMAIN bot : bot'[u] = NewBot(s)
<1>1. CASE StartOne(s)
  BY <1>1 DEF StartOne
<1>2. CASE StopForAccount(s)
  <2>1. CASE tasks[s] # NoTask /\ Live(tasks[s])
    <3>1. /\ pending' = pending
          /\ bot' = [bot EXCEPT ![tasks[s]] =
                       [bot[tasks[s]] EXCEPT !.cancel = TRUE, !.stopped = TRUE]]
      BY <1>2, <2>1 DEF StopForAccount
    <3>2. bot[tasks[s]] \in Bot
      BY <2>1 DEF Live, TypeOK
    <3> QED
      BY <3>1, <3>2 DEF Bot
  <2>2. CASE ~(tasks[s] # NoTask /\ Live(tasks[s]))
    BY <1>2, <2>2 DEF StopForAccount
  <2> QED
    BY <2>1, <2>2
<1> QED
  BY <1>1, <1>2

LEMMA RequestOrderly ==
    ASSUME TypeOK, ClientTasksEndFirst,
           NEW s \in Slots, StartOne(s) \/ StopForAccount(s)
    PROVE  /\ ClientTasksEndFirst'
           /\ PendingMeansLoggingIn => PendingMeansLoggingIn'
<1>1. ASSUME NEW u \in DOMAIN bot' PROVE Ended(bot'[u])
  <2>1. CASE u \in DOMAIN bot
    BY <2>1, RequestRecords DEF ClientTasksEndFirst, Ended
  <2>2. CASE u \notin DOMAIN bot
    BY <2>2, RequestRecords DEF NewBot, Ended
  <2> QED
    BY <2>1, <2>2
<1>2. ASSUME PendingMeansLoggingIn, NEW r \in pending'
      PROVE  \E u \in DOMAIN bot' : bot'[u].slot = r /\ Entering(bot'[u])
  <2>1. PICK u \in DOMAIN bot : bot[u].slot = r /\ Entering(bot[u])
    BY <1>2, RequestRecords DEF PendingMeansLoggingIn, LoggingIn, Entering
  <2> QED
    BY <2>1, RequestRecords DEF Entering
<1> QED
  BY <1>1, <1>2
     DEF ClientTasksEndFirst, Ended, PendingMeansLoggingIn, LoggingIn, Entering

LEMMA OrderStep ==
    TypeOK /\ ClientTasksEndFirst /\ [Next]_vars
        => /\ ClientTasksEndFirst'
           /\ PendingMeansLoggingIn => PendingMeansLoggingIn'
<1> DEFINE Kept == /\ ClientTasksEndFirst'
                   /\ PendingMeansLoggingIn => PendingMeansLoggingIn'
<1> SUFFICES ASSUME TypeOK, ClientTasksEndFirst, [Next]_vars PROVE Kept
  OBVIOUS
<1>1. ASSUME NEW s \in Slots, StartOne(s) \/ StopForAccount(s) PROVE Kept
  BY <1>1, RequestOrderly
<1>2. ASSUME NEW t \in Tasks, BotStep(t) PROVE Kept
  BY <1>2, StepReplaces, StepOrderly, OrderlyKeeps
<1>3. ASSUME NEW t \in Tasks,
             ListenerExhausted(t) \/ ListenerEnds(t) \/ KeepaliveEnds(t)
      PROVE  Kept
  BY <1>3, BackgroundReplaces, BackgroundOrderly, OrderlyKeeps
<1>4. CASE UNCHANGED <<bot, pending>>
  BY <1>4 DEF ClientTasksEndFirst, PendingMeansLoggingIn, LoggingIn
<1> QED
  BY <1>1, <1>2, <1>3, <1>4 DEF Next, Background, SpawnBotTask, BotTaskEnds, vars

\* aclose() ends the listener and the keep-alive of a client before its
\* connection is closed, on every path out of the main loop.
THEOREM ClientTasksEndBeforeClose == Spec => []ClientTasksEndFirst
<1>1. Init => ClientTasksEndFirst
  BY DEF Init, ClientTasksEndFirst
<1> QED
  BY <1>1, OrderStep, TypeCorrect, PTL DEF Spec

\* A row is marked as logging in only while one of its bots is.
THEOREM PendingIsNeverStale == Spec => []PendingMeansLoggingIn
<1>1. Init => PendingMeansLoggingIn
  BY DEF Init, PendingMeansLoggingIn
<1> QED
  BY <1>1, OrderStep, TypeCorrect, ClientTasksEndBeforeClose, PTL DEF Spec

(***************************************************************************)
(* The registry.  Whoever else registers, closes or unregisters under the  *)
(* wxid of a bot runs while that bot runs, so both have met.  A bot that   *)
(* met nobody is thus alone with its entry from its registration to the    *)
(* end of its wait for messages.                                           *)
(***************************************************************************)
Waiting(t) == bot[t].phase \in {"onlineHooks", "hold"}

RegisteredBy(t) == Waiting(t) => registry[Wxid(t)] = Client(t)

Registered == \A t \in DOMAIN bot \ met : RegisteredBy(t)

\* The bot that steps: it reaches the hooks by registering its client.
LEMMA StepRegisters ==
    ASSUME TypeOK, NEW t \in Tasks, RegisteredBy(t), BotStep(t),
           bot'[t].phase \in {"onlineHooks", "hold"}
    PROVE  registry'[Wxid(t)] = Client(t)
<1> USE DEF Resumes, Interrupted, At
<1>0. t \in DOMAIN bot /\ bot[t] \in Bot /\ Wxid(t) \in Wxids
  BY StepLive, WxidType DEF Live, TypeOK
<1>1. CASE RegisterClient(t)
  BY <1>0, <1>1 DEF RegisterClient, TypeOK
<1>2. CASE OnlineHooksDone(t)
  BY <1>0, <1>2 DEF OnlineHooksDone, RegisteredBy, Waiting
<1>3. CASE \/ FirstStep(t) \/ LoginSucceeds(t) \/ LoginFails(t)
           \/ LoopAgain(t) \/ Finish(t) \/ NeverRun(t)
  BY <1>0, <1>3, GotoRecord
     DEF FirstStep, LoginSucceeds, LoginFails, LoopAgain, Finish, NeverRun
<1>4. CASE StartListening(t)
  BY <1>0, <1>4 DEF StartListening, Bot
<1>5. CASE HoldReleased(t) \/ HoldCancelled(t)
  <2>1. PICK e \in {"break", "raise"}, p \in {"gather"} \cup Lookup("offlineHooks") :
             bot' = [bot EXCEPT ![t] = [bot[t] EXCEPT !.phase = p, !.exit = e,
                                                      !.cancel = FALSE]]
    BY <1>5 DEF HoldReleased, HoldCancelled, Offline
  <2>2. bot'[t].phase = p
    BY <1>0, <2>1 DEF Bot
  <2> QED
    BY <2>2 DEF Lookup
<1>6. CASE BotTasksGathered(t)
  BY <1>0, <1>6, GotoRecord DEF BotTasksGathered, Lookup
<1>7. CASE OfflineHooksDone(t)
  <2>1. \/ bot'[t] = Closing(bot[t], "raise")
        \/ bot'[t] = [bot[t] EXCEPT !.phase = "notice"]
    BY <1>0, <1>7 DEF OfflineHooksDone
  <2> QED
    BY <1>0, <2>1, ClosingBot DEF Bot
<1>8. CASE NoticeSent(t) \/ BackoffDone(t) \/ CancelledInBody(t)
            \/ LoginTimesOut(t)
  <2>1. \E e \in {"loop", "break", "raise"} : bot'[t] = Closing(bot[t], e)
    BY <1>0, <1>8 DEF NoticeSent, BackoffDone, CancelledInBody, LoginTimesOut,
                      Aclose
  <2> QED
    BY <1>0, <2>1, ClosingBot
<1>9. CASE ListenerAwaited(t) \/ KeepaliveJoined(t)
  <2>1. bot'[t] = CloseNext(bot[t])
    BY <1>0, <1>9 DEF ListenerAwaited, KeepaliveJoined
  <2> QED
    BY <1>0, <2>1, CloseNextBot
<1> QED
  BY <1>1, <1>2, <1>3, <1>4, <1>5, <1>6, <1>7, <1>8, <1>9 DEF BotStep

\* A step of one bot changes no entry of another client.
LEMMA StepRegistry ==
    ASSUME TypeOK, NEW t \in Tasks, BotStep(t), NEW w \in Wxids, w # Wxid(t),
           registry[w] # Client(t)
    PROVE  registry'[w] = registry[w]
<1>1. \/ registry' = registry
      \/ registry' = MarkClosed(t)
      \/ \E x \in {Client(t), NoClient} :
            registry' = [registry EXCEPT ![Wxid(t)] = x]
  BY DEF BotStep, FirstStep, LoginSucceeds, LoginFails, LoginTimesOut,
         StartListening,
         RegisterClient, OnlineHooksDone, HoldReleased, HoldCancelled, Offline,
         BotTasksGathered, OfflineHooksDone, NoticeSent, BackoffDone, Aclose,
         CancelledInBody, ListenerAwaited, KeepaliveJoined, LoopAgain, Finish,
         NeverRun
<1> QED
  BY <1>1 DEF MarkClosed, TypeOK

LEMMA RegisteredBotStep ==
    ASSUME TypeOK, NEW t \in Tasks, BotStep(t),
           NEW u \in DOMAIN bot', RegisteredBy(u), Waiting(u)',
           u = t \/ ~Meeting(u)
    PROVE  registry'[Wxid(u)'] = Client(u)
<1>1. Live(t) /\ Replaces(t)
  BY StepLive, StepReplaces
<1>2. u \in DOMAIN bot /\ Wxid(u)' = Wxid(u)
  BY <1>1, ReplacesType DEF Wxid
<1>3. CASE u = t
  BY <1>2, <1>3, StepRegisters DEF Waiting
<1>4. CASE u # t
  <2>1. bot'[u] = bot[u]
    BY <1>1, <1>2, <1>4, ReplacesType
  <2>2. Live(u) /\ registry[Wxid(u)] = Client(u)
    BY <1>2, <2>1 DEF Waiting, Live, RegisteredBy
  <2>3. Wxid(u) # Wxid(t)
    BY <1>1, <1>4, <2>2 DEF Meeting, Live
  <2>4. Client(u) # Client(t)
    BY <1>4 DEF Client
  <2> QED
    BY <1>2, <2>2, <2>3, <2>4, WxidType, StepRegistry
<1> QED
  BY <1>3, <1>4

\* A step leaves a bot registered that meets nobody before it.
LEMMA RegisteredStep ==
    ASSUME TypeOK, [Next]_vars,
           NEW u \in DOMAIN bot', u \in DOMAIN bot => RegisteredBy(u),
           Waiting(u)', ~Meeting(u)
    PROVE  registry'[Wxid(u)'] = Client(u)
<1> DEFINE Goal == registry'[Wxid(u)'] = Client(u)
<1>1. ASSUME NEW s \in Slots, StartOne(s) \/ StopForAccount(s) PROVE Goal
  <2>1. registry' = registry
    BY <1>1 DEF StartOne, StopForAccount
  <2>2. u \in DOMAIN bot
    BY <1>1, RequestRecords DEF NewBot, Waiting
  <2> QED
    BY <1>1, <2>1, <2>2, RequestRecords DEF RegisteredBy, Waiting, Wxid
<1>2. ASSUME NEW t \in Tasks, BotStep(t) PROVE Goal
  <2>1. u \in DOMAIN bot
    BY <1>2, StepReplaces, ReplacesType
  <2> QED
    BY <1>2, <2>1, RegisteredBotStep
<1>3. ASSUME NEW t \in Tasks,
             ListenerExhausted(t) \/ ListenerEnds(t) \/ KeepaliveEnds(t)
      PROVE  Goal
  <2>1. registry' = registry /\ Replaces(t) /\ bot'[t].phase = bot[t].phase
    BY <1>3, BackgroundReplaces, BackgroundPhase
       DEF ListenerExhausted, ListenerEnds, KeepaliveEnds
  <2> QED
    BY <2>1, ReplacesType DEF RegisteredBy, Waiting, Wxid
<1>4. CASE UNCHANGED <<bot, registry>>
  BY <1>4 DEF RegisteredBy, Waiting, Wxid
<1> QED
  BY <1>1, <1>2, <1>3, <1>4 DEF Next, Background, SpawnBotTask, BotTaskEnds, vars

LEMMA MeetStep ==
    ASSUME TypeOK, Company \subseteq met, Registered, [MeetNext]_meetvars
    PROVE  (Company \subseteq met)' /\ Registered'
<1>1. [Next]_vars /\ met \subseteq met'
  BY DEF MeetNext, meetvars
<1>2. (Company \subseteq met)'
  <2>1. CASE MeetNext
    BY <2>1 DEF MeetNext
  <2>2. CASE UNCHANGED meetvars
    BY <2>2 DEF meetvars, vars, Company, Meeting, Live, Wxid
  <2> QED
    BY <2>1, <2>2
<1>3. ASSUME NEW u \in DOMAIN bot', u \notin met', Waiting(u)'
      PROVE  registry'[Wxid(u)'] = Client(u)
  <2>1. u \notin met /\ ~Meeting(u)
    BY <1>1, <1>3 DEF Company, Meeting, Live
  <2> QED
    BY <1>1, <1>3, <2>1, RegisteredStep DEF Registered
<1>4. Registered'
  BY <1>3 DEF Registered, RegisteredBy, Client
<1> QED
  BY <1>2, <1>4

\* However starts overtake stops and whoever logs in as whom: a bot waiting for
\* messages that never ran next to another bot of its wxid is the one that the
\* registry hands out, with its client open.
THEOREM LoneBotsAreRegistered == MeetSpec => []RegisteredUnlessMet
<1> DEFINE I == TypeOK /\ Company \subseteq met /\ Registered
<1>1. MeetInit => I
  BY TypeInit DEF MeetInit, Init, Company, Registered
<1>2. I /\ [MeetNext]_meetvars => I'
  <2>1. [MeetNext]_meetvars => [Next]_vars
    BY DEF MeetNext, meetvars
  <2> QED
    BY <2>1, TypeStep, MeetStep
<1>3. I => RegisteredUnlessMet
  BY DEF Registered, RegisteredBy, Waiting, RegisteredUnlessMet
<1> QED
  BY <1>1, <1>2, <1>3, PTL DEF MeetSpec

=============================================================================
