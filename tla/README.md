# lwapi-py in TLA+

lwapi-py is an asynchronous client of the LwApi service (`lwapi/`) and a web
console (`src/`) that runs one bot per row of `config/accounts.json`. This
directory holds TLA+ modules of the parts that keep state across an `await`,
the TLC configurations that check them, and TLAPS proofs about several of them.
Paths below are relative to the repository; the line-by-line correspondence is
in `PROJECT.json` under `map`.

Everything runs on one asyncio event loop, so the code between two suspension
points is atomic, and **one action is the code between two suspension points of
one coroutine**. What is hard is what happens at the suspension points:
`task.cancel()` raises `CancelledError` at whichever `await` the task is in,
requests of the web console interleave with the bots, and rows of a shared file
are read, changed and written back as a whole.

## The system

| Component | State | Operations | Hard behaviour |
|---|---|---|---|
| `BotService` (`services/bot_service.py`) | `_tasks` (row → task), `_login_pending`, per task: client, `hold`, `ws_gave_up` | `start_one`, `start_all`, `stop_for_account`, the loop `_run_single_bot` | cancellation at every `await`; a start that overtakes a stop; exceptions inside `finally` |
| Client registry (`runtime/client_registry.py`) | wxid → client | register, unregister, lookup | keyed by wxid, shared by old and new bot |
| Bot tasks (`plugins/bot_tasks.py`) | wxid → tasks of plugins | spawn, cancel and gather | tasks spawned before, during and after the cancellation |
| Hooks (`plugins/lifecycle.py`) | background tasks of plugins | notify ready / online / offline, start and cancel background tasks | reading the list of plugins may raise outside the `try`; plugins that raise; a cancellation inside a hook |
| Application (`main.py`, `build` of `web/app.py`) | phase of `web.run_app` | start, serve, exit | the exit cancels handlers, background tasks and bots, some of them twice |
| Message listener (`lwapi/apis/msg.py`) | `_task`, `_stop_event`, `_on_ws_exhausted`, failure count | `start`, `stop`, `wait_stop`, WebSocket loop, polling loop | stop racing a dispatch; who counts as a failure; giving up |
| Keep-alive (`lwapi/apis/login.py`) | `_maint_task`, `_stop_maint` | `start_keepalive`, `stop_keepalive`, `join_background_tasks`, the worker | an event set by the starter and cleared by the worker's first step |
| SDK client (`lwapi/client.py`) | `_closed` | `aclose` | order in which tasks end and the transport closes |
| Event hub (`runtime/account_events.py`) | replay buffer, subscribers per row | `emit`, `register`, `unregister`, `clear_replay` | sends outside the lock, interleaved emitters, broken viewers, a full buffer |
| Account store (`account_loader.py`, account API of `web/app.py`) | `accounts.json`; the list object every bot keeps | create, update, delete, start, stop; what a login writes | stale lists written back; row indices that move; a file that cannot be read or written |
| Remote login (`login_service.py`, QR polling of `login.py`) | generator of QR states | sec auth, QR code, polling | a timeout that fires while the consumer is suspended; retries |
| Relay login (`relay_login_service.py`, `apis/relay.py`) | relay session id | init, biz rounds, polling | expiry in the middle of a round |
| Transport (`lwapi/transport.py`) | connection pool | `post` | maps network errors to exceptions |
| Plugin configuration (`plugins/settings.py`, `config.py`) | two caches over `plugins.json` | read, merge, write | stale caches; unreadable file |
| Message chain, inbox (`plugins/chain.py`, `message_inbox.py`) | SQLite inbox | handler of every batch | failing plugin or inbox; `False` ends the chain |
| AI reply plugin | history per conversation | `handle`, `_reply_task` | concurrent replies over one history |
| Web authentication (`web/auth.py`) | failures per address, with the start of a window | login | the check and the count lie on two sides of an `await`; two functions end a window |
| Panels, registry, API wrappers, models, utilities, build | little or none | | |

How they interact: the web API reads `accounts.json` and calls
`BotService.start_one` with the row and the whole list. The bot creates an
`LwApiClient`, logs in while it emits events to the hub, writes the list back,
starts keep-alive and listener, registers the client, calls the online hooks and
waits for `hold`, which the listener resolves by the exhaustion callback. The
listener calls the message chain, plugins spawn bot tasks and use the registry.
A stop request cancels the bot's task and waits for it; the `async with` of the
client ends listener and keep-alive by `aclose`.

What makes each part correct, in a sentence:

* **runtime**: every running bot can be stopped, every stop returns, an online
  bot that shares its wxid with no other is the one the registry hands out, nothing
  of a client outlives it;
* **application**: it exits when it is interrupted, and plugins hear of the end of
  every bot whose start they heard of;
* **listener**: it gives up neither too early nor never, and is silent after a
  stop; **keep-alive**: one worker at most, a join returns; **client**: the
  transport is the last thing to close;
* **event hub**: a viewer gets the latest events and then every event, once;
* **account store**: a login is not lost and a running bot is found at its row, and
  where this fails it is known by what;
* **web authentication**: an address is refused for wrong tokens of the last window
  and for nothing else;
* **logins**: a code that times out is fetched again, and a confirmed scan is
  not lost; **plugins**: settings are not lost, every plugin in front of the one
  that ends the chain sees every batch.

`PROJECT.json` lists the components with their status and the hazards at their
lines, with the properties that cover each.

## Modules

| Module | What it is |
|---|---|
| `BotRuntime` | `BotService`, the registry, hooks and bot tasks. `bot[t].phase` is the `await` a bot task is suspended in, `cancel` a requested `CancelledError`. A step of a bot is a `Resumes` step or an `Interrupted` one. `Closing`/`CloseNext` are `aclose` |
| `BotMeetings`, `MCBotMeetings` | `BotRuntime` with `met`, the history of the bots that ran next to another bot of their wxid |
| `AppLifespan`, `MCAppLifespan` | the application around `BotRuntime`, which it extends: `plugin_background_lifespan`, the phases of `web.run_app`, and each hook of a bot as the calls of the plugins. `hooks[t]` are the plugins still to be called, `told` and `cut` are history |
| `BotRuntimeProofs` | theorems about `BotRuntime` and `BotMeetings` |
| `ClientTask` | abstract: what `BotRuntime` assumes of a listener or a keep-alive |
| `MsgListener` | `MsgClient`: WebSocket loop (connect, receive, dispatch, close, sleep), polling loop, `start`, `stop` |
| `KeepAlive` | the keep-alive worker and its calls |
| `LwClient` | listener and keep-alive side by side, driven by calls in any order, ended by `aclose`; implements `ClientTask` |
| `AppLifespanProofs` | theorems about it, over those of `BotRuntimeProofs` |
| `LwClientProofs` | theorems about `MsgListener`, `KeepAlive` and `LwClient` |
| `LoginStory` | abstract: what a login promises to the bot and the viewer of its row |
| `RelayClient` | the relay session and its biz rounds: init, retries, expiry, changed key |
| `Login` | both logins of a bot over the SDK and over `RelayClient`, their events and timeouts, the loop around them; implements `LoginStory` |
| `LoginProofs` | theorems about `RelayClient` and `Login` |
| `EventFeed` | abstract: what a viewer of an account is owed |
| `EventHub` | `AccountEventHub` for one row, its emitters and viewers; implements `EventFeed` |
| `EventHubProofs` | its theorems |
| `AccountStore`, `MCAccountStore` | `accounts.json`, the account API and what bots write, with reads and writes that fail |
| `AccountStoreProofs` | its theorems |
| `WebAuth`, `WebAuthProofs` | the count of wrong tokens of one address, and theorems about it |
| `PluginConfig` | `plugins.json`, the caches of `settings.py` and `config.py`, the panel that writes it, edits by hand, reads that fail |
| `MessageInbox` | the inbox table, its lock, the threads of its calls |
| `ReplyChain`, `MCReplyChain` | what a bot does with a batch: inbox, list of plugins, plugins in order, the reply tasks of `ai_reply` and their history; over `PluginConfig` and `MessageInbox` |
| `ReplyChainProofs` | theorems about these three |

Definitions whose comment starts with "Variant:" stand before the definition
they vary. They are plausible mistakes in that piece of code, and no action uses
them: substituted for their original they show that a property can fail.

Abstractions: a message, an account field, an exception text are left out
unless a property tells them apart. An `await` of a request has its outcomes
as a nondeterministic choice. Time is left out, except in `WebAuth`, where it is
counted in steps: a timeout or the end of a sleep may come at any step. In `BotRuntime` the login is one `await`, with the outcomes
that `Login` shows for it (`LoginTimesOut` is the timeout that `login_timeout`
finds); the keep-alive's worker is `off`, `running` or `cancelling`. A file is replaced at once, as
`atomic_write_json` does. In `EventHub` the hub's lock needs no state, since
no coroutine suspends while it holds it. In `AccountStore` a row is marked as
logging in only while its bot runs, so the check of the mark next to the check
of `running` adds nothing except between a stop request and the end of its
task; the model lets a row be edited there.

In `AppLifespan` the order of the list of plugins is left out: the next plugin is any
that is still to be called. `enabled` is what `load_enabled_ids` returns, of which
`PluginConfig` has the details. The list may change between any two reads of it, so
a plugin may miss either hook; `HelloHasGoodbye` speaks of plugins that are always
enabled. `aiohttp` is modelled from how its documentation says `run_app` ends:
handlers that do not return in time are cancelled, the lifespan goes on after its
`yield`, then every other task is cancelled and waited for. Cancelling a handler that
waits in `stop_for_account` cancels the bot it waits for once more.

In `AccountStore` a read that fails is an empty list, as `load_accounts_safe` makes
it; only `api_account_create` goes on with that, and `lost` records the rows it
wrote over until a bot that still has them in its list saves. A write that fails
leaves the list object changed. The names, nicknames, devices and proxies of a row are
left out; that a nickname is saved is kept, as the write of the bot's list that it
is.

`WebAuth` follows one address; addresses do not share anything. `wrong`, the
history, says for each age how many of the wrong tokens since the last right one
are at most that old.

`Login` follows one row with an event hub. `at` is the `await` the bot is in and
`todo` the events that are still to be published before it goes on, each of which
is an `await` of its own. Of the replay buffer only the number of events since
the last `qr_ready` is kept, of a relay session whether it is open and whose code it
shows, with `dropped` as history. LwApi and WeChat may answer anything that the
client distinguishes, but name the session they were asked about; the phone acts
at any time. The return of a round and the next `await` are two actions, between
which only the phone can move. An answer has the nickname and avatar of whoever scanned or
none of them (`Nicks`), anew with every poll; `nick` stands for both, and `named` is
the one a local login published last, since it publishes a status again when that
changes. An online bot ends by an exception (`GoOffline`), after which the loop logs
in again, or because its listener gave up (`GiveUp`), which ends it. Left out are an answer without a wxid, a wxid of
`secautoauth` that differs from the saved one, and a timer of the
generator that fires after its loop was left, in the two turns of the event loop
before it is disarmed.

In `PluginConfig` the settings of a plugin are its key. A cache is empty or holds
the value of the present modification time; a write in the same tick of the clock
does not move that time, which is what `InvalidateOwn` stands for. A file can be
valid, no JSON (which the readers catch) or no UTF-8 (which they do not), and
`hiccup` makes `stat` and `read` fail for the moment, and `_ensure_file` raise, which
looks for the file outside any `try`. (A version of Python whose `Path.exists` answers
such an error with `False` would write the default list over the file instead, which
is not modelled.) In `MessageInbox` a thread
that waits for the lock is not recorded, for it has done nothing. In `ReplyChain`
a plugin other than `ai_reply` is one that returns, raises or returns `False`; a
message of `Self` stands for every message that is not to be answered; the phase
`call` lies between reading the list and calling the next plugin, where no other
coroutine runs, but threads, people with an editor and the file system do. A
reply belongs to the bot that spawned it, and of the bot only its end and its
restart are kept, which are those of `BotRuntime`.

## Runs

| Run | Question | Result |
|---|---|---|
| `app` | the application from start to exit, one row, two starts, no start while a stop waits, two plugins: is an online bot registered, does the registry hand out closed clients, do plugins hear of the end of a bot, do stops return, does an exhausted bot stop, does the exit end? | holds |
| `bot_overlap` | two rows logging in as one wxid, starts overtaking stops, plugin list that cannot be read: is a bot lost, a row left marked, a client task left behind, a bot that met no other of its wxid not the registered one? | holds |
| `client` | six questions about one client (what is left when it closes, what is heard after a stop, what returns and ends), and that its listener is the `ClientTask` of `BotRuntime` | holds |
| `client_gives_up_early` | does the listener give up when as many reconnections failed as its limit says? | violated: the loss of the connection counts as one |
| `login` | both modes: does every login end and is it repeated, in which session is a code polled, as whom does the bot work afterwards, whose nickname does its row get, when does a login stop the bot for good? | holds |
| `login_code_evicted` | does a late viewer get the code? | violated: in remote mode events of the polls push it out of the buffer, in local mode changes of the nickname may |
| `login_timeout` | does only a cancel on the phone end a bot? | violated: a timeout that fires while an event is sent ends it too |
| `hub` | does the hub implement the feed, is each stream in order, is everything owed served or given up, do broken viewers leave? | holds |
| `accounts` | do the row of a running bot and the wxid of its login stay, at its index, when reads and writes may fail? | holds until a delete in front of the row, a save of another list or a create that could not read the file, and through everything else |
| `accounts_row_shift` | is a row deleted while its bot runs? | violated: indices move |
| `replies` | do cached settings agree with the file, does a save keep what it is not about, are counts of the inbox right, is a history made of whole exchanges? | holds |
| `auth` | is an address refused only for cause, is the limit exceeded by no more than the requests under way, does a refusal end? | holds |

**Properties.** Runtime: `NoLostBot`, `PendingMeansLoggingIn`,
`ClientTasksEndFirst`, `OnlineIsRegistered`, `RegisteredUnlessMet` (the registry is
right about every bot that met no other of its wxid), `StopCompletes`,
`ExhaustedBotStops`. Application: `HelloHasGoodbye` (a plugin told of
a bot is told of its end), `ClosedOnlyIfCut` (the registry hands out a closed client
only of a bot cancelled within its hooks), `ExitCompletes`. Client: `GivesUpAtLimit` (the callback, which
ends the bot for good, comes only after `MaxReconnect` failed reconnections in a row;
violated), `NoDispatchAfterStop`, `ReconnectsOrEnds`,
`OneRefresher`, `JoinReturns`, `TransportClosesLast`, `AcloseReturns`,
`ListenerKeepsPromise`. Login: `CodeKeepsItsSession` (a code is polled in the
session that shows it), `OnlineAsScanner` (wxid and header are those of who
confirmed the code), `NicknameOfScanner` (the row's nickname changes only to that of
who scanned it), `EndsByCancel` (a login stops the bot for good only after a cancel on
the phone), `OnlyCancelEnds` and `CodeIsReplayed` (violated), `LoginKeepsPromise`. Hub: `EachStreamInOrder`, `FeedImplemented`,
`NothingStaysOwed`, `BrokenIsUnregistered`. Store: `KeptUnlessMovedOrOverwritten`
(what a running bot has in the file is taken from it by three named steps only),
`NoRunningRowDeleted` (violated). Authentication:
`RefusedForCause`, `TriesAreLimited`, `RefusalEnds`. Plugins: `CachesAgree`, `SavesKeepTheRest`, `CountsAddUp`,
`HistoryIsExchanges`. Each is stated in words above its definition.

**Bounds.** The number of identities (`Tasks`, `Workers`, `Bots`, `Ids`)
bounds the starts; two starts of one row are enough for an old and a new bot to
overlap, two rows for a shared wxid; two workers for a restart. `MaxReconnect = 3`
is the value of the code, and so are the retries of `RelayClient`. `Login` has two
phones, so that the saved wxid and the scanner may differ, and in `login`
four polls and two places stand for the 100 polls of one code and the 48 places of the
buffer: the buffer is full before the polls end, as in the code. The two runs that
look for a short counterexample have five of each, so that the code is lost only after
several polls. The hub is checked with a
buffer of two events, three events (so that it overflows and is read
afterwards), one emitter and two viewers, so that one may break while the other
is served; a row has two bots only while a start overtakes a stop. `accounts.json` has up to three rows,
two wxids and two bots, with one list or with two: a duplicate wxid, a delete in front of a running row, and a row
behind it all occur. The application has a plugin that stays enabled and one that
comes and goes, so that both are called in any order and one may raise first; it is
interrupted with two bots in any pair of phases. Three requests at once, a limit of
three and a window of three steps let the limit be passed while requests wait, and
a window end while a body is read. The plugins are
checked with two peers, so that replies of one and of two conversations overlap, two
messages in one batch or in two, limits of no, one and two exchanges that change
between replies, so that a second exchange overflows one, and two plugins in either
order. Symmetry is used only in runs without liveness properties.

**Switches.** `Overlap` and `HookFault` (`BotRuntime`), `Eager` (`KeepAlive`) and
`Faults` (`AccountStore`) separate what the code guarantees from what it
guarantees only if its callers or its files behave. Set the other way, the property
that depends on a switch is refuted.
`Overlap = FALSE`: no start of a row while a stop of it still waits; the
`OnlineIsRegistered` of `app` needs it.
`HookFault = FALSE`: `plugins.json` can be read when hooks run; `StopCompletes` and
`ExitCompletes` need it, `ClosedOnlyIfCut` does not, since it excepts the bots whose
hooks the fault skips.
`Eager = FALSE`: the event loop runs a new worker before the next call to
`stop_keepalive`, `start_keepalive` or `join_background_tasks`, which is so under
`BotService`, where the listener is stopped and awaited first; with `TRUE`, `JoinReturns` fails,
because a join sees the event set for a worker that has not cleared it yet.
`Faults = TRUE`: reads and writes of `accounts.json` may fail; `accounts` allows it,
`accounts_row_shift` does without.

**Deadlock** is checked for the bots, the hub, the plugins and the authentication, which always have a step left.
`app`, `client`, `accounts` and the logins switch it off: an application that exited,
a closed client with no starts left, a full list with all bots ended and a canceled
bot have nothing to do.

**Fairness.** Weak fairness of each coroutine's steps: the event loop resumes
every coroutine whose `await` is over, and timeouts of `aiohttp` and `httpx` bound
every request, connection and close. No fairness for requests of users, for
plugins that spawn tasks, for the receipt of a message (`ws.receive()` may wait
for ever on a healthy connection) or for the loss of a connection. In
`MsgListener` the outcome of a connection attempt is not chosen fairly: a
connection that always fails is a fair behaviour, and so the limit on failures is
what makes `ReconnectsOrEnds` hold. In `Login` the bot's steps and the passing of
the deadline are fair, the phone is not: a code nobody scans times out. In `EventHub` a send returns or raises
(the heartbeat of the WebSocket closes a dead connection). In `AppLifespan` hooks
of plugins return, background tasks end when they are cancelled, and `run_app` goes on,
since it waits for handlers for a limited time; nobody has to interrupt it. In
`WebAuth` only time has to pass.

## Findings

* `client_gives_up_early`: the listener gives up after one failed reconnection less than
  its limit, its documentation and its log say.
* `accounts_row_shift`: the web panel deletes running rows once indices moved.
* `login_code_evicted`: the replay buffer, which exists to keep the code for a late
  viewer, loses it to the events of the polls.
* `login_timeout`: the timeout of a code ends the bot for good when it fires while
  an event is sent.

Eight more statements are false of the models and have no run of their own. All but
the last are definitions of their modules; for the first four TLC shows how they fail
in the configuration named:

* `StopCompletes` (`app.cfg` with `HookFault = TRUE`): when a stop reaches a bot that
  waits for messages and the plugin list cannot be read, `_enabled_specs`
  (`lifecycle.py:55`, outside its `try`) raises in the `finally` block, its exception
  replaces the `CancelledError`, `except Exception` handles it (`bot_service.py:350`)
  and the bot logs in again for ever, although `bot_service.py:159` says that the loop
  goes on until the task is cancelled.
* `OnlineIsRegistered` (`app.cfg` with `Overlap = TRUE`): `stop_for_account` takes a
  row out of `_tasks` before its bot has ended (`bot_service.py:125`), so a second bot
  of the row may register meanwhile, and the first one, as it unwinds, unregisters it
  (`client_registry.py:34` pops by wxid).
* `NoLoginOverwritten` (`accounts_row_shift.cfg` with two wxids and two bots): bots that
  are started one after the other have a list each, and the login of the second writes
  its own back, without the wxid of the first (`bot_service.py:231`).
* `SavesKeepReadable` (`replies.cfg`): the empty result of a failed read is cached
  (`config.py:40`), and the next save writes it back, although the file could be read
  by then.
* `RegisteredBotRuns` (`BotRuntime`): the registry keeps the closed client of a bot
  that was stopped in its online hooks.
* `RepliesEndWithBot` (`ReplyChain`): a reply that is spawned during the offline
  hooks, after the tasks were cancelled, outlives the bot.
* `AllTextsAnswered` (`ReplyChain`): `ai_reply` returns `False` after its first reply,
  so the other texts of the batch get none, although `lwplugin_ai_reply.py:4` says
  that private texts are answered.
* that a row stays once it is created (`AccountStore`): a bot that was started
  before saves its older list, without the row.

`PROJECT.json` quotes the lines.

## Proofs

All theorems are proved for every value of the constants, from the named assumptions
on them.

`BotRuntimeProofs`, from `ConstantAssumption`:

* `TypeCorrect`, from the lemma that a step of a bot replaces that bot's record alone
  and keeps its row and its mark of a stop (`Replaces`).
* `NoBotIsLost`: `NoLostBot` is inductive on typed states. `StartOne` replaces only an
  entry that is empty or done, `StopForAccount` removes and cancels in one step, and
  by `Replaces` no step of a bot clears `stopped` or starts a done bot again.
* `ClientTasksEndBeforeClose` and `PendingIsNeverStale`: each step of a bot leaves
  listener and keep-alive off in the phases where they must be, and leaves the row's
  mark only with a bot that is logging in (`Orderly`).
* `LoneBotsAreRegistered`: `RegisteredUnlessMet`, with overlapping starts, shared wxids
  and reads that fail. The invariant says that live bots of one wxid are all in `met`,
  and that a bot outside `met` is the registered one from its registration to the end
  of its wait (`Registered`). Only a bot of the same wxid that is live changes the
  entry, and it would have met this one.

`AppLifespanProofs`, from `LifespanAssumption` as well and over the lemmas above.
Every step of the application is one of `BotRuntime` or does no more than cancel bots
(`CancelsKeepBots`), so what holds of the bots alone goes on to hold:

* `AppTypeCorrect`, `EveryHelloHasGoodbye`, `ClosedClientsAreCut`, without an
  assumption on overlap or on reads that fail, from `AppInv`. It adds to the two
  properties that a plugin that was told of a bot is still to be called while the
  offline hooks go on (`Greeted`), and that a client in the registry belongs to a bot
  between its registration and the end of its offline hooks (`Registrations`): the
  registry and `told` are both to be cleared by a bot that is still there to do it.

`LwClientProofs`, from `MaxReconnectAssumption` and `WorkerAssumption`; `TypeCorrect`
and the last two also from `Ordered`, which is `Eager = FALSE`:

* `CallbackAfterFailures`, the bound that the code keeps where `GivesUpAtLimit` fails:
  all reconnections but one have failed. The two counts differ by at most one, and which of them is
  ahead depends on whether the listener is connecting or closing (`Counts`).
* `StoppedListenerIsSilent`: between a stop and the end of the task either the
  `CancelledError` is pending or the task is on its way out (`StopCancels`).
* `ListenerIsClientTask`: the steps of `ListenerKeepsPromise`. Only calls change
  `stopEvent`, and a step of the task can only end it.
* `AtMostOneRefresher`: a worker that is neither cancelled nor woken is the current
  one, and the event is set only until the first step of a worker (`OnlyCurrentRuns`).
* `TransportClosesAfterTasks`: what `aclose` has ended stays ended (`ClosesInOrder`).

`WebAuthProofs`, from `WebAuthAssumption`:

* `TypeCorrect`: every entry that is written has the type (`RecordedType`).
* `TriesStayLimited`: `TriesAreLimited` is inductive on typed states. A request that
  is let in adds one to those under way (`OneIsLetIn`) while the count is below the
  limit, and one that is counted leaves them (`OneIsOver`), so the sum of the two
  grows only below the limit.
* `RefusalsHaveCause`: the count of an entry is at most the number of wrong tokens
  that are no older than its window, and that number grows with the age (`Caused`).

`AccountStoreProofs`, without an assumption on the constants:

* `TypeCorrect`, from `Sound`: ids in a file or a list are different, and the bots know
  a list that has their row.
* `RowsAreKept`: `KeptUnlessMovedOrOverwritten`, an action property. It needs that no
  two live bots have one index, and that the list of a bot names the wxid that the bot
  is logged in with (`Apart`), so that a save of its own list keeps its row.

`LoginProofs`, from `LoginAssumption`. The invariant `IInv` says what the events that
are still to be published imply of phone, code and session, for `todo` is what the
code has decided and not yet told:

* `TypeCorrect`; `Lines` has the shapes of these lists.
* `WorksAsScanner`, `NicknamesAreScanners` and `CancelEnds` (`Scanned`): a login event
  that waits names the user that confirmed, a nickname that waits is that of the user
  that scanned, and an error that ends the bot follows a cancel.
* `CodeStaysInSession` (`Opened`, `InSession`): from the code to the end of its login
  the session shows it, or the server has dropped that session.
* `TellsLoginStory`: the steps of `LoginKeepsPromise`. Every step of the bot, the
  session, the phone and the timeouts is one of `LoginStory` or none.

`EventHubProofs`, from `HubAssumption`:

* `TypeCorrect`. That `Without` removes one viewer and keeps the order of the others
  is proved from the least counterexample (`WithoutIsKept`).
* `StreamsStayInOrder`: an emitter's event is later than all it has sent to the
  viewers it has still to serve (`Emitting`), and what is left of a replay is in order
  and later than what was sent of it (`Replaying`).
* `HubImplementsFeed`: the whole refinement, since `EventFeed` states no fairness. The
  invariant adds that no viewer is owed an event twice, by an emitter and by its
  replay or by two emitters, and that the buffer holds the latest events (`Window`).

`ReplyChainProofs`, the second from `ConfigAssumption`, the last two from
`ChainAssumption`, the others without any. By `ConfigStep` every step is one of
`PluginConfig` or leaves its variables:

* `CachesAreRight`: `CachesAgree` is inductive as it stands. Every step that changes
  the file empties both caches, and a failed read that is cached is recorded in
  `failed`.
* `SavesKeep`: `SavesKeepTheRest`, because by `CachesAgree` a save starts from what
  the file says.
* `CountsAreKept`: `CountsAddUp`, because every step that changes the table takes or
  releases the lock.
* `TypeCorrect`.
* `HistoriesAreExchanges`: a history is some number of exchanges of its peer, at most
  the largest limit (`Remembering`). A reply appends one exchange and keeps the latest
  of an even number of entries, which are whole exchanges again (`LatestExchanges`).
  That a finite set of limits has a largest is proved by its size (`MaxIsOne`).

Induction over data, where it is needed, is done through the least counterexample: a
set of naturals that is not empty has a least element (`LeastNat`), which a fact of
the library about well-founded relations gives without an operator as parameter.

Only model-checked: liveness (`StopCompletes`, `ExhaustedBotStops`, `ExitCompletes`,
`ReconnectsOrEnds`, `JoinReturns`, `AcloseReturns`, `NothingStaysOwed`,
`BrokenIsUnregistered`, `RefusalEnds`), which TLAPS does not reach, and with it the
fairness halves of `ListenerKeepsPromise` and `LoginKeepsPromise`, whose steps are
proved; and the `OnlineIsRegistered` of `app`, which depends on `Overlap = FALSE`, a
habit of users and not of the code. Every other property of a passing run is a
theorem. The type invariants of
`BotRuntime`, `LwClient` and `WebAuth` are proved and not checked by a run.

## Not modelled

The components marked `not_modelled` in `PROJECT.json`, each with its reason.
Of the modelled files: the sending calls of `MsgClient` and `send_text_message`
(requests without state), the pages and listings of the web API and its log files,
the comparison of tokens and the cookie of a session (both without state on the
server), the scan of the plugin directory, which runs once before anything else,
and the cancellation of a web handler while it registers a viewer, which happens only
when the application exits.

## Plan

What is modelled is what the first plan named, and the safety that the code keeps
is proved. Left are the statements above without a run, of which each could have a run
and a finding of its own, and the property that would follow from a repaired
registry, in which `unregister` removes an entry only if it is the caller's:
`OnlineIsRegistered` with `Overlap = TRUE`.
