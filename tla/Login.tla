-------------------------------- MODULE Login --------------------------------
(***************************************************************************)
(* The logins of one bot: the loop of BotService._run_single_bot as far as *)
(* logging in goes, with LoginService (mode "remote": LwApi does the work  *)
(* and is polled by the generator stream_qr_status) and RelayLoginService  *)
(* (mode "local": qr_login_poll makes the rounds of RelayClient).          *)
(*                                                                         *)
(* `at' is where the bot is suspended.  In "emit" it publishes the events  *)
(* of `todo' one by one; what comes next follows from the last of them.    *)
(* In "relay" a round is under way or has just returned.  A phone scans,   *)
(* confirms or cancels the code, which may expire; time is left out, but   *)
(* only so many polls fit into the timeout.                                *)
(***************************************************************************)
EXTENDS RelayClient, Sequences

CONSTANTS
    Users,      \* wxids, each with its phone
    NoOne,      \* no wxid
    MaxPolls,   \* polls of one code in remote mode: timeout / interval
    MaxReplay   \* AccountEventHub.MAX_REPLAY

ASSUME LoginAssumption ==
    /\ NoOne \notin Users
    /\ MaxPolls \in Nat \ {0}
    /\ MaxReplay \in Nat \ {0}

VARIABLES
    mode,       \* login_mode of the row, normalised
    at,         \* where the bot is suspended
    todo,       \* events to publish
    wxid,       \* saved_wxid, also in the row
    header,     \* X-Wxid of the client's requests
    profile,    \* whose nickname the row has
    scan,       \* the code, as the phone and the server have it
    shown,      \* last_status, last_scan_state
    named,      \* last_nick and last_avatar of qr_login_poll
    verified,   \* last_verify_url is set
    polls,      \* of this code
    late,       \* the deadline of qr_login_poll has passed
    sinceQr,    \* events in the replay buffer after the last qr_ready
    byCode      \* history: the last login was by code, not from the cache

bvars == <<todo, wxid, header, profile, scan, shown, named, verified, polls,
           late, sinceQr, byCode>>
vars == <<rvars, mode, at, bvars>>

NoScan == [state |-> "none", by |-> NoOne]
ScanStates == {"none", "waiting", "scanned", "confirming", "confirmed",
               "canceled", "expired"}

Streamed == {"poll", "verify_url", "status", "warning", "confirming", "success", "error"}
Kinds == Streamed \cup {"sec_auto_ok", "qr_ready", "login_saved", "bot_error",
                        "login_interrupted", "login_canceled", "bot_stopped"}
Reasons == {"expired", "canceled", "timeout", "api", "login"}

\* of: the wxid of a login or the code of an error; nick: nickname and avatar.
Event(kind, of, nick) == [ev |-> kind, of |-> of, nick |-> nick]
Plain(kind) == Event(kind, NoOne, NoOne)

TypeOK ==
    /\ RelayTypeOK
    /\ mode \in {"local", "remote"}
    /\ at \in {"start", "relay", "secAuto", "getQr", "check", "sleep", "emit",
               "retrySleep", "online", "ended", "killed", "stopped"}
    /\ todo \in Seq([ev : Kinds, of : Users \cup {NoOne} \cup Reasons,
                     nick : Users \cup {NoOne}])
    /\ (at = "emit") = (todo # <<>>)
    /\ {wxid, header, profile, named} \subseteq Users \cup {NoOne}
    /\ scan \in [state : ScanStates, by : Users \cup {NoOne}]
    /\ shown \in ScanStates
    /\ polls \in 0 .. MaxPolls
    /\ sinceQr \in 0 .. MaxReplay
    /\ {verified, late, byCode} \subseteq BOOLEAN

Init ==
    /\ RelayInit
    /\ mode \in {"local", "remote"}
    /\ at = "start" /\ todo = <<>>
    /\ wxid \in Users \cup {NoOne} /\ profile = wxid /\ header = NoOne
    /\ scan = NoScan /\ shown = "none" /\ named = NoOne /\ verified = FALSE
    /\ polls = 0 /\ late = FALSE /\ byCode = FALSE
    /\ sinceQr = MaxReplay

-----------------------------------------------------------------------------
(* Publishing.                                                             *)

Emit(events) == at' = "emit" /\ todo' = events

\* Variant: an expired code stops the bot as a canceled one does.
NoticeStopsOnExpiry(reason) ==
    Plain(CASE reason \in {"canceled", "expired"} -> "login_canceled"
            [] reason \in {"timeout", "login"} -> "login_interrupted"
            [] OTHER -> "bot_error")

\* How _run_single_bot answers an exception of the login.
Notice(reason) ==
    Plain(CASE reason = "canceled" -> "login_canceled"
            [] reason \in {"expired", "timeout", "login"} -> "login_interrupted"
            [] OTHER -> "bot_error")

\* What is published next once ev has been.
Follow(ev) ==
    CASE ev.ev \in {"success", "sec_auto_ok"} -> <<Plain("login_saved")>>
      [] ev.ev = "error" -> <<Notice(ev.of)>>
      [] OTHER -> <<>>

\* Where the bot goes when nothing is left to publish.
Go(ev) ==
    CASE ev.ev = "qr_ready" /\ mode = "local" -> at' = "relay" /\ Round("qr_check")
      [] ev.ev = "confirming" -> at' = "relay" /\ Round("sec_manual_auth")
      [] OTHER ->
            /\ at' = CASE ev.ev = "qr_ready" -> "check"
                       [] ev.ev = "login_saved" -> "online"
                       [] ev.ev = "login_canceled" -> "ended"
                       [] ev.ev = "bot_stopped" -> "stopped"
                       [] ev.ev \in {"login_interrupted", "bot_error"} -> "retrySleep"
                       [] OTHER -> "sleep"
            /\ UNCHANGED rvars

\* How many places of the buffer the events after qr_ready take.
Later(ev) ==
    IF ev.ev = "qr_ready" THEN 0
    ELSE IF sinceQr < MaxReplay THEN sinceQr + 1 ELSE sinceQr

\* Variant: an answer without a nickname empties the one of the row.
PublishBlanks(ev) ==
    /\ sinceQr' = Later(ev)
    /\ profile' = IF ev.ev \in {"status", "confirming", "success"}
                  THEN ev.nick ELSE profile

\* emit: the buffer keeps the latest MaxReplay events; a nickname goes to the
\* row, which keeps the one it has when the event carries none.
Publish(ev) ==
    /\ sinceQr' = Later(ev)
    /\ profile' = IF ev.nick # NoOne THEN ev.nick ELSE profile

\* Variant: the client keeps the X-Wxid of the cached login.
LoggedInKeepsHeader(ev) ==
    IF ev.ev = "success"
    THEN wxid' = ev.of /\ byCode' = TRUE /\ header' = header
    ELSE byCode' = (byCode /\ ev.ev # "sec_auto_ok") /\ UNCHANGED <<wxid, header>>

LoggedIn(ev) ==
    IF ev.ev = "success"
    THEN wxid' = ev.of /\ header' = ev.of /\ byCode' = TRUE
    ELSE byCode' = (byCode /\ ev.ev # "sec_auto_ok") /\ UNCHANGED <<wxid, header>>

Deliver ==
    /\ at = "emit"
    /\ LET ev == Head(todo)
           rest == Tail(todo) \o Follow(ev)
       IN  /\ Publish(ev)
           /\ LoggedIn(ev)
           /\ todo' = rest
           /\ IF rest = <<>> THEN Go(ev) ELSE UNCHANGED <<rvars, at>>
    /\ UNCHANGED <<mode, scan, shown, named, verified, polls, late>>

\* The timeout around the generator fires while the login awaits emit: it
\* cancels the bot's task, and no `except TimeoutError' is on the way out.
TimeoutInEmit ==
    /\ at = "emit" /\ mode = "remote"
    /\ Head(todo).ev \in Streamed /\ Head(todo).of # "timeout"
    /\ Publish(Head(todo))
    /\ at' = "killed" /\ todo' = <<>>
    /\ UNCHANGED <<rvars, mode, wxid, header, scan, shown, named, verified, polls,
                   late, byCode>>

-----------------------------------------------------------------------------
(* The bot's loop and the cached login.                                    *)

\* A new LwApiClient and, with a saved wxid, its header and a cached login.
Begin ==
    /\ at = "start"
    /\ header' = wxid
    /\ session' = NoSession /\ dropped' = FALSE
    /\ IF mode = "local"
       THEN /\ at' = "relay"
            /\ Call(IF wxid = NoOne THEN "qr_get" ELSE "sec_auto_auth", "initPrepare")
       ELSE /\ at' = IF wxid = NoOne THEN "getQr" ELSE "secAuto"
            /\ UNCHANGED <<step, flow, attempt, result>>
    /\ UNCHANGED <<mode, todo, wxid, profile, scan, shown, named, verified, polls,
                   late, sinceQr, byCode>>

RetryAfterSleep ==
    /\ at = "retrySleep"
    /\ at' = "start"
    /\ UNCHANGED <<rvars, mode, bvars>>

\* The listener has given up (on_msg_ws_exhausted): the bot says so and ends.
GiveUp ==
    /\ at = "online"
    /\ Emit(<<Plain("bot_stopped")>>)
    /\ UNCHANGED <<rvars, mode, wxid, header, profile, scan, shown, named, verified,
                   polls, late, sinceQr, byCode>>

\* The bot's work ends in an exception, which the loop handles.
GoOffline ==
    /\ at = "online"
    /\ Emit(<<Plain("bot_error")>>)
    /\ UNCHANGED <<rvars, mode, wxid, header, profile, scan, shown, named, verified,
                   polls, late, sinceQr, byCode>>

\* sec_auto_login: ApiError and HttpError count as no.
SecAutoLogin ==
    /\ at = "secAuto"
    /\ \/ Emit(<<Plain("sec_auto_ok")>>)
       \/ at' = "getQr" /\ todo' = todo
       \/ Emit(<<Plain("bot_error")>>)
    /\ UNCHANGED <<rvars, mode, wxid, header, profile, scan, shown, named, verified,
                   polls, late, sinceQr, byCode>>

-----------------------------------------------------------------------------
(* Login by code, remote: get_qr_code, _iter_qr_poll, stream_qr_status.    *)

ShowCode ==
    /\ Emit(<<Plain("qr_ready")>>)
    /\ scan' = [NoScan EXCEPT !.state = "waiting"]
    /\ shown' = "none" /\ named' = NoOne /\ verified' = FALSE
    /\ polls' = 0 /\ late' = FALSE
    /\ UNCHANGED <<rvars, mode, wxid, header, profile, sinceQr, byCode>>

GetQrCode ==
    /\ at = "getQr"
    /\ \/ ShowCode
       \/ /\ Emit(<<Plain("bot_error")>>)
          /\ UNCHANGED <<rvars, mode, wxid, header, profile, scan, shown, named, verified,
                         polls, late, sinceQr, byCode>>

\* An answer has the nickname and the avatar of whoever scanned, or lacks them.
Nicks == {NoOne, scan.by}

\* A status that is new; in local mode one with another nickname or avatar, too.
StatusOf(state, nick) ==
    IF state = shown /\ (mode = "local" => nick = named)
    THEN <<>> ELSE <<Event("status", NoOne, nick)>>

Error(code) == <<Event("error", code, NoOne)>>

\* The answer has a status, and perhaps a verifyUrl, which is reported once.
StatusAnswer(state, last) ==
    /\ \E verify \in BOOLEAN, nick \in Nicks :
          /\ verified' = (verified \/ verify)
          /\ Emit(<<Plain("poll")>>
                  \o (IF verify /\ ~verified THEN <<Plain("verify_url")>> ELSE <<>>)
                  \o StatusOf(state, nick) \o last)
    /\ shown' = state

\* Status 2 is a confirmed scan whose login is not through.
Seen == IF scan.state = "confirmed" THEN "confirming" ELSE scan.state

CheckAnswer ==
    \/ /\ scan.state \in {"waiting", "scanned", "confirmed"}
       /\ \E last \in {<<>>, Error("api")} : StatusAnswer(Seen, last)
    \/ scan.state = "canceled" /\ StatusAnswer("canceled", Error("canceled"))
    \/ /\ \/ /\ scan.state = "confirmed"
             /\ \E nick \in Nicks :
                   Emit(<<Plain("poll"), Event("success", scan.by, nick)>>)
          \/ /\ scan.state = "expired"
             /\ Emit(<<Plain("poll")>> \o Error("expired"))
          \/ Emit(<<Plain("warning")>>)
       /\ UNCHANGED <<shown, verified>>

Check ==
    /\ at = "check"
    /\ polls < MaxPolls
    /\ polls' = polls + 1
    /\ CheckAnswer
    /\ UNCHANGED <<rvars, mode, wxid, header, profile, scan, named, late, sinceQr,
                   byCode>>

\* The timeout fires inside the generator, which reports it.
TimeoutInPoll ==
    /\ mode = "remote" /\ at \in {"check", "sleep"}
    /\ Emit(Error("timeout"))
    /\ UNCHANGED <<rvars, mode, wxid, header, profile, scan, shown, named, verified,
                   polls, late, sinceQr, byCode>>

PollAgain ==
    /\ mode = "remote" /\ at = "sleep"
    /\ at' = "check"
    /\ UNCHANGED <<rvars, mode, bvars>>

-----------------------------------------------------------------------------
(* Login by code, local: sec_auto_auth and qr_login_poll.                  *)

RelayRuns ==
    /\ at = "relay" /\ RelayStep
    /\ UNCHANGED <<mode, at, bvars>>

Returned(flows) == at = "relay" /\ step = "idle" /\ flow \in flows

\* sec_auto_auth lets no error through but those of a malformed answer.
SecAutoReturned ==
    /\ Returned({"sec_auto_auth"})
    /\ CASE result = "ok" -> Emit(<<Plain("sec_auto_ok")>>) /\ UNCHANGED rvars
         [] result = "fault" -> Emit(<<Plain("bot_error")>>) /\ UNCHANGED rvars
         [] OTHER ->
               at' = at /\ todo' = todo /\ EnsureInitThenRound("qr_get")
    /\ UNCHANGED <<mode, wxid, header, profile, scan, shown, named, verified, polls,
                   late, sinceQr, byCode>>

\* An exception of a round leaves the generator and the login as it is; a
\* result of another type than the wanted one is an error event.
RoundFailed ==
    /\ Returned({"qr_get", "qr_check", "sec_manual_auth"})
    /\ result # "ok"
    /\ IF result = "error"
       THEN \/ Emit(Error("api"))
            \/ flow = "sec_manual_auth" /\ Emit(Error("login"))
       ELSE Emit(<<Notice(result)>>)
    /\ UNCHANGED <<rvars, mode, wxid, header, profile, scan, shown, named, verified,
                   polls, late, sinceQr, byCode>>

QrReturned ==
    /\ Returned({"qr_get"}) /\ result = "ok"
    /\ ShowCode

\* scanState 2 is reported as "confirming", and then as unknown.
QrCheckAnswer ==
    \E nick \in Nicks :
        \/ /\ scan.state \in {"waiting", "scanned"}
           /\ shown' = scan.state /\ named' = nick
           /\ IF StatusOf(scan.state, nick) = <<>>
              THEN at' = "sleep" /\ todo' = todo
              ELSE Emit(StatusOf(scan.state, nick))
        \/ /\ scan.state = "confirmed"
           /\ shown' = "confirming" /\ named' = nick
           /\ Emit(StatusOf("confirming", nick) \o Error("api"))
        \/ /\ \/ /\ scan.state = "canceled"
                 /\ Emit(StatusOf("canceled", nick) \o Error("canceled"))
              \/ /\ scan.state = "confirmed"
                 /\ Emit(<<Event("confirming", NoOne,
                                IF nick = NoOne THEN named ELSE nick)>>)
              \/ Emit(Error("api"))
           /\ UNCHANGED <<shown, named>>

QrChecked ==
    /\ Returned({"qr_check"}) /\ result = "ok"
    /\ QrCheckAnswer
    /\ UNCHANGED <<rvars, mode, wxid, header, profile, scan, verified, polls, late,
                   sinceQr, byCode>>

ManualAuthReturned ==
    /\ Returned({"sec_manual_auth"}) /\ result = "ok"
    /\ \E nick \in Nicks : Emit(<<Event("success", scan.by, nick)>>)
    /\ UNCHANGED <<rvars, mode, wxid, header, profile, scan, shown, named, verified,
                   polls, late, sinceQr, byCode>>

\* The head of the polling loop: the deadline, or another round.
SleptInPoll ==
    /\ mode = "local" /\ at = "sleep"
    /\ IF late THEN Emit(Error("timeout")) /\ UNCHANGED rvars
               ELSE at' = "relay" /\ todo' = todo /\ Round("qr_check")
    /\ UNCHANGED <<mode, wxid, header, profile, scan, shown, named, verified, polls,
                   late, sinceQr, byCode>>

-----------------------------------------------------------------------------
(* The environment.                                                        *)

PollingLocally ==
    /\ mode = "local"
    /\ \/ at = "sleep"
       \/ at = "relay" /\ flow = "qr_check"
       \/ at = "emit" /\ Head(todo).ev = "status"

DeadlinePasses ==
    /\ PollingLocally /\ ~late
    /\ late' = TRUE
    /\ UNCHANGED <<rvars, mode, at, todo, wxid, header, profile, scan, shown, named,
                   verified, polls, sinceQr, byCode>>

Phone ==
    /\ \/ \E u \in Users :
             scan.state = "waiting" /\ scan' = [state |-> "scanned", by |-> u]
       \/ /\ scan.state = "scanned"
          /\ scan' \in {[scan EXCEPT !.state = s] : s \in {"confirmed", "canceled"}}
       \/ /\ scan.state \in {"waiting", "scanned"}
          /\ scan' = [scan EXCEPT !.state = "expired"]
    /\ at \notin {"online", "ended", "killed", "stopped"}
    /\ UNCHANGED <<rvars, mode, at, todo, wxid, header, profile, shown, named,
                   verified, polls, late, sinceQr, byCode>>

BotStep ==
    \/ Deliver \/ Begin \/ RetryAfterSleep
    \/ SecAutoLogin \/ GetQrCode \/ Check \/ TimeoutInPoll \/ PollAgain
    \/ RelayRuns \/ SecAutoReturned \/ RoundFailed \/ QrReturned \/ QrChecked
    \/ ManualAuthReturned \/ SleptInPoll

Next == BotStep \/ TimeoutInEmit \/ GiveUp \/ GoOffline \/ DeadlinePasses \/ Phone

(***************************************************************************)
(* Requests end, by answer or timeout of the HTTP client, and time passes. *)
(***************************************************************************)
Spec ==
    /\ Init
    /\ [][Next]_vars
    /\ WF_vars(BotStep) /\ WF_vars(DeadlinePasses)
-----------------------------------------------------------------------------

CodeOnShow ==
    \/ at \in {"check", "sleep"}
    \/ at = "relay" /\ flow \in {"qr_check", "sec_manual_auth"}
    \/ /\ at = "emit" /\ Head(todo).ev \in Streamed
       /\ mode = "remote" \/ flow # "qr_get"

Publishing(kinds) == at = "emit" /\ Head(todo).ev \in kinds

Story ==
    CASE CodeOnShow -> "code"
      [] at = "online" \/ Publishing({"login_saved"}) -> "online"
      [] at \in {"ended", "killed", "stopped"}
            \/ Publishing({"login_canceled", "bot_stopped"}) -> "ended"
      [] at = "retrySleep" \/ Publishing({"bot_error", "login_interrupted"}) -> "failed"
      [] OTHER -> "trying"

\* Whatever LwApi, WeChat and the phone do, a login ends, a code is not shown
\* for ever, and a failed login is followed by another (the loop of
\* _run_single_bot, the timeouts of both polls, the retries of biz_round).
Promise == INSTANCE LoginStory WITH story <- Story
LoginKeepsPromise == Promise!Spec

\* A bot that logged in by code works as whoever confirmed it: its requests
\* carry that wxid and the row has it, although both may have been another
\* user's (LoginService.login, RelayLoginService.login).
OnlineAsScanner ==
    at = "online" /\ byCode => wxid = scan.by /\ header = scan.by

\* The nickname of a row is replaced only by that of whoever scanned the code on
\* show, never by none: answers may lack it, or lose it again from one poll to
\* the next (_merge_account_profile, emit of _run_single_bot).
NicknameOfScanner ==
    [][profile' # profile => scan.by # NoOne /\ profile' = scan.by]_vars

\* A login stops its bot for good only if the code was canceled on the phone
\* (exceptions.py:32).  Two other ends are apart: the timeout that kills a bot
\* while it publishes, and the listener of an online bot that gives up.
EndsByCancel == at = "ended" => scan.state = "canceled"

\* exceptions.py:32: after an expired or timed out code a new one is fetched;
\* only a cancel on the phone stops the bot.
OnlyCancelEnds == at \in {"ended", "killed"} => scan.state = "canceled"

\* account_events.py:7: the replay buffer keeps qr_ready for a viewer who
\* comes late.
CodeIsReplayed == CodeOnShow => sinceQr < MaxReplay
=============================================================================
