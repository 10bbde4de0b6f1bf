----------------------------- MODULE RelayClient -----------------------------
(***************************************************************************)
(* The rounds of a RelayClient (lwapi/apis/relay.py): LwApi packs a        *)
(* request, the client posts it to WeChat from its own address and hands   *)
(* the response back.  A round needs a session that has done its           *)
(* handshake (ensure_init); biz_round repeats itself after a new one.      *)
(*                                                                         *)
(* LwApi and WeChat may answer anything at any time; LwApi names a session *)
(* it is asked about by the name it was asked with.                        *)
(***************************************************************************)
EXTENDS Naturals

VARIABLES
    step,       \* the request awaited, or "idle"
    flow,       \* of the round
    attempt,    \* of biz_round's loop
    result,     \* how the last round ended: a result or an exception
    session,    \* _session_id is set; the code on show was fetched in it
    dropped     \* history: Biz/Prepare called the code's session expired

rvars == <<step, flow, attempt, result, session, dropped>>

Flows == {"sec_auto_auth", "qr_get", "qr_check", "sec_manual_auth"}

\* LoginError with reason "expired" and without one, HttpError, ApiError, and
\* what else a malformed answer raises.
Errors == {"expired", "refused", "http", "api", "fault"}

NoSession == [open |-> FALSE, shows |-> FALSE]
NewSession == [open |-> TRUE, shows |-> FALSE]

MaxInitRetry == IF flow = "sec_manual_auth" THEN 3 ELSE 2

RelayTypeOK ==
    /\ step \in {"idle", "initPrepare", "initPost", "initComplete",
                 "bizPrepare", "bizPost", "bizComplete"}
    /\ flow \in Flows
    /\ attempt \in 0 .. MaxInitRetry
    /\ result \in {"none", "ok", "error"} \cup Errors
    /\ session \in {NoSession, NewSession, [NewSession EXCEPT !.shows = TRUE]}
    /\ dropped \in BOOLEAN

RelayInit ==
    /\ step = "idle" /\ flow = "qr_get" /\ attempt = 0 /\ result = "none"
    /\ session = NoSession /\ dropped = FALSE

-----------------------------------------------------------------------------

Call(f, first) ==
    /\ step' = first
    /\ flow' = f
    /\ attempt' = 0
    /\ result' = "none"

Round(f) == Call(f, "bizPrepare") /\ UNCHANGED <<session, dropped>>

\* sec_auto_auth and qr_login_poll: ensure_init before the round.
EnsureInitThenRound(f) ==
    Call(f, "initPrepare") /\ UNCHANGED <<session, dropped>>

Return(r) ==
    /\ step' = "idle"
    /\ result' = r
    /\ UNCHANGED <<flow, attempt>>

GoOn(s) == step' = s /\ UNCHANGED <<flow, attempt, result>>

NeedsSession(s) == IF session'.open THEN GoOn(s) ELSE Return("refused")

\* Variant: a new session is opened for every handshake.
InitPrepareForgets ==
    /\ step = "initPrepare"
    /\ session' = NewSession
    /\ dropped' = dropped
    /\ NeedsSession("bizPrepare") \/ GoOn("initPost")

InitPrepare ==
    /\ step = "initPrepare"
    /\ dropped' = dropped
    /\ \/ session' = session /\ \E e \in {"http", "api", "fault"} : Return(e)
       \/ session' = NoSession /\ Return("expired")
       \/ /\ \/ session' = session
             \/ ~session.open /\ session' = NewSession
          /\ \/ NeedsSession("bizPrepare")
             \/ GoOn("initPost")
             \/ Return("refused")

\* post_wechat of the handshake; its status is handed on whatever it is.
InitPost ==
    /\ step = "initPost"
    /\ UNCHANGED <<session, dropped>>
    /\ NeedsSession("initComplete") \/ \E e \in {"http", "refused", "fault"} : Return(e)

\* `inited' of the answer is not looked at, nor is -1019 told from other codes.
InitComplete ==
    /\ step = "initComplete"
    /\ GoOn("bizPrepare") \/ \E e \in {"http", "api", "fault"} : Return(e)
    /\ UNCHANGED <<session, dropped>>

\* Variant: the retries are not counted.
InitAgainUncounted(e) ==
    /\ step' = "initPrepare"
    /\ UNCHANGED <<flow, attempt, result>>

\* Variant: one attempt too many.
InitAgainOnceMore(e) ==
    IF attempt <= MaxInitRetry
    THEN /\ step' = "initPrepare"
         /\ attempt' = attempt + 1
         /\ UNCHANGED <<flow, result>>
    ELSE Return(e)

\* A handshake and another attempt, or error e if this was the last one.
InitAgain(e) ==
    IF attempt < MaxInitRetry
    THEN /\ step' = "initPrepare"
         /\ attempt' = attempt + 1
         /\ UNCHANGED <<flow, result>>
    ELSE Return(e)

BizPrepare ==
    /\ step = "bizPrepare"
    /\ \/ /\ GoOn("bizPost") \/ InitAgain("refused")
              \/ \E e \in {"http", "api", "refused", "fault"} : Return(e)
          /\ UNCHANGED <<session, dropped>>
       \/ /\ session' = NoSession
          /\ dropped' = (dropped \/ session.shows)
          /\ InitAgain("expired")

BizPost ==
    /\ step = "bizPost"
    /\ GoOn("bizComplete") \/ \E e \in {"http", "refused", "fault"} : Return(e)
    /\ UNCHANGED <<session, dropped>>

\* -2020, needInit and host_redirect repeat the round, -1019 ends it.
BizComplete ==
    /\ step = "bizComplete"
    /\ \/ session' = NoSession /\ dropped' = dropped /\ Return("expired")
       \/ /\ InitAgain("refused") \/ \E e \in {"error", "http", "api", "fault"} : Return(e)
          /\ UNCHANGED <<session, dropped>>
       \/ /\ Return("ok")
          /\ IF flow = "qr_get"
             THEN session' = [session EXCEPT !.shows = TRUE] /\ dropped' = FALSE
             ELSE UNCHANGED <<session, dropped>>

RelayStep ==
    \/ InitPrepare \/ InitPost \/ InitComplete
    \/ BizPrepare \/ BizPost \/ BizComplete

-----------------------------------------------------------------------------

\* A code is polled, and its login completed, in the session in which it was
\* fetched, through every handshake a round repeats (relay.py, biz_round),
\* unless LwApi called that session expired when a round was prepared.
CodeKeepsItsSession ==
    step # "idle" /\ flow \in {"qr_check", "sec_manual_auth"} =>
        session.shows \/ dropped
=============================================================================
