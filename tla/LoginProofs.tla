------------------------------ MODULE LoginProofs ------------------------------
(***************************************************************************)
(* Theorems about Login and RelayClient, from LoginAssumption.             *)
(***************************************************************************)
EXTENDS Login, SequenceTheorems, TLAPS

Ev == [ev : Kinds, of : Users \cup {NoOne} \cup Reasons, nick : Users \cup {NoOne}]

\* Events after which others of the same list follow.
Passing == {"poll", "verify_url", "status"}

(***************************************************************************)
(* The invariant, in five parts.  Lines: who is where, and what lists of   *)
(* events look like.  In local mode a list has one event, or a status and  *)
(* the error it led to.                                                    *)
(***************************************************************************)
Lines ==
    /\ mode = "remote" => step = "idle" /\ at # "relay"
    /\ mode = "local" => at \notin {"secAuto", "getQr", "check"}
    /\ step # "idle" => at = "relay"
    /\ \A i \in 1 .. Len(todo) - 1 : todo[i].ev \in Passing
    /\ \A i \in 1 .. Len(todo) : todo[i].ev \in Streamed \/ Len(todo) = 1
    /\ mode = "local" =>
          /\ \/ Len(todo) <= 1
             \/ Len(todo) = 2 /\ todo[1].ev = "status" /\ todo[2].ev = "error"
          /\ \A i \in 1 .. Len(todo) : todo[i].ev \notin {"poll", "verify_url", "warning"}

\* The bot works as whoever confirmed the code.
Working ==
    /\ scan.state = "confirmed"
    /\ wxid = scan.by /\ header = scan.by

\* What an event that is still to be published says is the case.
True(ev) ==
    /\ ev.nick \in Nicks
    /\ ev.ev = "confirming" => mode = "local"
    /\ ev.ev \in {"confirming", "success"} => scan.state = "confirmed"
    /\ ev.ev = "success" => ev.of = scan.by
    /\ ev.ev = "login_canceled" \/ (ev.ev = "error" /\ ev.of = "canceled")
          => scan.state = "canceled"
    /\ ev.ev = "login_saved" /\ byCode => Working

\* The code, the phone, and what the bot says and knows of them.
Scanned ==
    /\ scan.state = "waiting" => scan.by = NoOne
    /\ scan.state \in {"scanned", "confirmed", "canceled"} => scan.by # NoOne
    /\ named \in Nicks
    /\ at = "relay" /\ flow = "sec_manual_auth" => scan.state = "confirmed"
    /\ \A i \in 1 .. Len(todo) : True(todo[i])
    /\ at = "online" /\ byCode => Working
    /\ at = "ended" => scan.state = "canceled"

\* A handshake fetches a code only with a session.
Opened ==
    flow = "qr_get" /\ step \in {"initComplete", "bizPrepare", "bizPost", "bizComplete"}
        => session.open

Shows == session.shows \/ dropped

\* From the code to the end of its login, wherever the bot is suspended.
InSession ==
    /\ mode = "local" /\ at = "sleep" => Shows
    /\ step # "idle" /\ flow \in {"qr_check", "sec_manual_auth"} => Shows
    /\ at = "relay" /\ step = "idle" /\ result = "ok" /\ flow # "sec_auto_auth" => Shows
    /\ mode = "local" /\ todo # <<>> /\ Head(todo).ev \in {"qr_ready", "confirming"} => Shows
    /\ mode = "local" /\ Len(todo) = 1 /\ Head(todo).ev = "status" => Shows

\* Local mode polls and publishes a code in rounds of qr_check, and a code that
\* could not be fetched ends in an error of the server.
Rounds == mode = "local" =>
    /\ at = "sleep" => flow = "qr_check"
    /\ todo # <<>> =>
          LET ev == Head(todo) IN
          /\ ev.ev \in {"status", "confirming"} => flow = "qr_check"
          /\ ev.ev = "error" /\ flow = "qr_get" => ev.of = "api"

IInv == TypeOK /\ Lines /\ Scanned /\ Opened /\ InSession /\ Rounds

(***************************************************************************)
(* Lists of events.                                                        *)
(***************************************************************************)

LEMMA OneEvent ==
    ASSUME NEW e \in Ev
    PROVE  /\ <<e>> \in Seq(Ev) /\ <<e>> # <<>> /\ Len(<<e>>) = 1
           /\ <<e>>[1] = e /\ Head(<<e>>) = e
OBVIOUS

LEMMA NoEvent == <<>> \in Seq(Ev) /\ Len(<<>>) = 0
OBVIOUS

\* A status and the error it led to.
LEMMA TwoEvents ==
    ASSUME NEW e \in Ev, NEW f \in Ev
    PROVE  /\ <<e>> \o <<f>> \in Seq(Ev) /\ <<e>> \o <<f>> # <<>>
           /\ Len(<<e>> \o <<f>>) = 2 /\ Head(<<e>> \o <<f>>) = e
           /\ (<<e>> \o <<f>>)[1] = e /\ (<<e>> \o <<f>>)[2] = f
           /\ <<>> \o <<f>> = <<f>>
<1> DEFINE s == <<e>>
           t == <<f>>
<1>1. s \in Seq(Ev) /\ t \in Seq(Ev) /\ Len(s) = 1 /\ Len(t) = 1 /\ s[1] = e /\ t[1] = f
  OBVIOUS
<1> HIDE DEF s, t
<1>2. s \o t \in Seq(Ev) /\ Len(s \o t) = 2 /\ <<>> \o t = t
  BY <1>1, ConcatProperties, ConcatEmptySeq
<1>3. (s \o t)[1] = e /\ (s \o t)[2] = f
  <2>1. \A i \in 1 .. Len(s) + Len(t) :
           (s \o t)[i] = IF i <= Len(s) THEN s[i] ELSE t[i - Len(s)]
    BY <1>1, ConcatProperties
  <2>2. 1 \in 1 .. Len(s) + Len(t) /\ 2 \in 1 .. Len(s) + Len(t)
        /\ 1 <= Len(s) /\ ~(2 <= Len(s)) /\ 2 - Len(s) = 1
    BY <1>1
  <2>3. (s \o t)[1] = s[1]
    BY <2>1, <2>2
  <2>4. (s \o t)[2] = t[2 - Len(s)]
    BY <2>1, <2>2
  <2> QED BY <1>1, <2>2, <2>3, <2>4
<1>4. s \o t # <<>> /\ Head(s \o t) = e
  BY <1>2, <1>3, EmptySeq
<1> QED BY <1>2, <1>3, <1>4 DEF s, t

LEMMA EventTypes ==
    /\ \A kind \in Kinds : Plain(kind) \in Ev
    /\ \A kind \in Kinds, u, n \in Users \cup {NoOne} : Event(kind, u, n) \in Ev
    /\ \A code \in Reasons : Event("error", code, NoOne) \in Ev
    /\ \A kind, of, n : /\ Event(kind, of, n).ev = kind /\ Event(kind, of, n).of = of
                        /\ Event(kind, of, n).nick = n
    /\ \A kind : Plain(kind).ev = kind /\ Plain(kind).of = NoOne /\ Plain(kind).nick = NoOne
BY DEF Event, Plain, Ev, Kinds, Streamed

\* Events with a nickname, which come with the code's scan.
LEMMA NamedEvent ==
    ASSUME NEW kind \in {"status", "confirming", "success"},
           NEW of \in Users \cup {NoOne}, NEW nick \in Users \cup {NoOne}
    PROVE  /\ Event(kind, of, nick) \in Ev /\ Event(kind, of, nick).ev = kind
           /\ Event(kind, of, nick).of = of /\ Event(kind, of, nick).nick = nick
BY EventTypes DEF Kinds, Streamed

\* Whoever scanned has a nickname of a user's, and an answer has his or none.
LEMMA NicksType == TypeOK => Nicks \subseteq Users \cup {NoOne} /\ NoOne \in Nicks
BY DEF TypeOK, Nicks

\* A notice is none of the streamed events.
LEMMA NoticeType ==
    ASSUME NEW reason
    PROVE  /\ Notice(reason) \in Ev
           /\ Notice(reason).ev \in {"login_canceled", "login_interrupted", "bot_error"}
           /\ Notice(reason).ev = "login_canceled" <=> reason = "canceled"
BY EventTypes DEF Notice, Kinds, Streamed

\* A list of events as Lines and Scanned want it.
ListOf(s) ==
    /\ s \in Seq(Ev)
    /\ \A i \in 1 .. Len(s) - 1 : s[i].ev \in Passing
    /\ \A i \in 1 .. Len(s) : s[i].ev \in Streamed \/ Len(s) = 1
    /\ \A i \in 1 .. Len(s) : True(s[i])

AllPassing(s) == \A i \in 1 .. Len(s) : s[i].ev \in Passing
AllStreamed(s) == \A i \in 1 .. Len(s) : s[i].ev \in Streamed

LEMMA ListConcat ==
    ASSUME NEW s, ListOf(s), AllPassing(s), NEW t, ListOf(t), AllStreamed(t)
    PROVE  /\ ListOf(s \o t) /\ AllStreamed(s \o t)
           /\ Len(s \o t) = Len(s) + Len(t)
           /\ AllPassing(t) => AllPassing(s \o t)
<1> DEFINE m == Len(s)
           n == Len(t)
<1>1. s \in Seq(Ev) /\ t \in Seq(Ev) /\ m \in Nat /\ n \in Nat
  BY LenProperties DEF ListOf
<1>2. /\ s \o t \in Seq(Ev) /\ Len(s \o t) = m + n
      /\ \A i \in 1 .. m + n : (s \o t)[i] = IF i <= m THEN s[i] ELSE t[i - m]
  BY <1>1, ConcatProperties
<1> HIDE DEF m, n
<1>3. ASSUME NEW i \in 1 .. m + n
      PROVE  \/ i \in 1 .. m /\ (s \o t)[i] = s[i]
             \/ /\ i - m \in 1 .. n /\ (s \o t)[i] = t[i - m]
                /\ i \in 1 .. m + n - 1 => i - m \in 1 .. n - 1
  <2>1. CASE i <= m
    BY <1>1, <1>2, <2>1
  <2>2. CASE ~(i <= m)
    <3>1. i - m \in 1 .. n /\ (i \in 1 .. m + n - 1 => i - m \in 1 .. n - 1)
      BY <1>1, <2>2
    <3> QED BY <1>2, <2>2, <3>1
  <2> QED BY <2>1, <2>2
<1>4. \A i \in 1 .. m + n : True((s \o t)[i])
  BY <1>3 DEF ListOf, m, n
<1>5. \A i \in 1 .. m + n - 1 : (s \o t)[i].ev \in Passing
  <2> SUFFICES ASSUME NEW i \in 1 .. m + n - 1 PROVE (s \o t)[i].ev \in Passing
    OBVIOUS
  <2>1. i \in 1 .. m + n
    BY <1>1
  <2> QED BY <1>3, <2>1 DEF ListOf, AllPassing, m, n
<1>6. AllPassing(t) => \A i \in 1 .. m + n : (s \o t)[i].ev \in Passing
  BY <1>3 DEF AllPassing, m, n
<1>7. \A i \in 1 .. m + n : (s \o t)[i].ev \in Streamed
  <2>1. \A i \in 1 .. m : s[i].ev \in Streamed
    BY DEF AllPassing, Passing, Streamed, m
  <2>2. \A i \in 1 .. n : t[i].ev \in Streamed
    BY DEF AllStreamed, n
  <2> QED BY <1>3, <2>1, <2>2
<1>8. /\ ListOf(s \o t) /\ AllStreamed(s \o t)
      /\ AllPassing(t) => AllPassing(s \o t)
  BY <1>2, <1>4, <1>5, <1>6, <1>7 DEF ListOf, AllPassing, AllStreamed
<1> QED BY <1>2, <1>8 DEF m, n

LEMMA ListOne == ASSUME NEW e \in Ev, True(e) PROVE ListOf(<<e>>)
BY OneEvent DEF ListOf

LEMMA ListNone == ListOf(<<>>) /\ AllPassing(<<>>) /\ AllStreamed(<<>>)
<1>1. \A i \in 1 .. Len(<<>>) : FALSE
  BY NoEvent
<1>2. \A i \in 1 .. Len(<<>>) - 1 : FALSE
  BY NoEvent
<1> QED BY <1>1, <1>2, NoEvent DEF ListOf, AllPassing, AllStreamed

\* Only what True speaks of can make it false.
LEMMA TrueStays ==
    ASSUME UNCHANGED <<mode, scan, byCode, wxid, header>>
    PROVE  \A e : True(e)' <=> True(e)
BY DEF True, Working, Nicks

\* The first event of a list is published: others follow, or what it leads to.
LEMMA DeliverCases ==
    ASSUME TypeOK, Lines, Deliver
    PROVE  /\ Head(todo) = todo[1] /\ todo[1] \in Ev /\ Len(todo) \in Nat /\ Len(todo) >= 1
           /\ \/ /\ Len(todo) > 1 /\ todo[1].ev \in Passing /\ todo' \in Seq(Ev)
                 /\ todo' # <<>> /\ Len(todo') = Len(todo) - 1
                 /\ \A i \in 1 .. Len(todo') : todo'[i] = todo[i + 1]
                 /\ UNCHANGED <<rvars, at>>
              \/ /\ Len(todo) = 1 /\ todo' = Follow(todo[1])
                 /\ IF todo' = <<>> THEN Go(todo[1]) ELSE UNCHANGED <<rvars, at>>
<1>1. todo \in Seq(Ev) /\ todo # <<>> /\ at = "emit"
  BY DEF TypeOK, Ev, Deliver
<1>2. Len(todo) \in Nat \ {0} /\ Head(todo) = todo[1] /\ todo[1] \in Ev
  BY <1>1, EmptySeq, HeadTailProperties, ElementOfSeq
<1>3. \A i \in 1 .. Len(todo) - 1 : todo[i].ev \in Passing
  BY DEF Lines
<1> DEFINE tail == Tail(todo)
           rest == tail \o Follow(todo[1])
<1>4. /\ tail \in Seq(Ev) /\ Len(tail) = Len(todo) - 1
      /\ \A i \in 1 .. Len(tail) : tail[i] = todo[i + 1]
  BY <1>1, HeadTailProperties
<1>5. todo' = rest /\ IF rest = <<>> THEN Go(todo[1]) ELSE UNCHANGED <<rvars, at>>
  BY <1>2 DEF Deliver
<1> HIDE DEF tail
<1>6. CASE Len(todo) = 1
  <2>1. Len(tail) = 0
    BY <1>4, <1>6
  <2>2. tail = <<>>
    BY <1>4, <2>1, EmptySeq
  <2>3. Follow(todo[1]) \in Seq(Ev)
    BY OneEvent, NoEvent, NoticeType, EventTypes DEF Follow, Kinds
  <2>4. rest = Follow(todo[1])
    BY <2>2, <2>3, ConcatEmptySeq
  <2> HIDE DEF rest
  <2> QED BY <1>2, <1>5, <1>6, <2>4
<1>7. CASE Len(todo) # 1
  <2>0. \A n \in Nat \ {0} : n # 1 => n > 1 /\ 1 \in 1 .. n - 1
    OBVIOUS
  <2>1. Len(todo) > 1 /\ 1 \in 1 .. Len(todo) - 1
    BY <1>2, <1>7, <2>0
  <2>2. todo[1].ev \in Passing
    BY <1>3, <2>1
  <2>3. Follow(todo[1]) = <<>>
    BY <2>2 DEF Follow, Passing
  <2>4. rest = tail
    BY <1>4, <2>3, ConcatEmptySeq
  <2>5. Len(tail) # 0
    BY <1>4, <2>1
  <2>6. tail # <<>>
    BY <2>5, NoEvent
  <2> HIDE DEF rest
  <2> QED BY <1>2, <1>4, <1>5, <2>1, <2>2, <2>4, <2>6
<1> QED BY <1>6, <1>7

(***************************************************************************)
(* The rounds of RelayClient.                                              *)
(***************************************************************************)

LEMMA InitAgainType ==
    ASSUME RelayTypeOK, NEW e \in Errors, InitAgain(e), session' = session \/ session' = NoSession,
           dropped' \in BOOLEAN
    PROVE  RelayTypeOK' /\ flow' = flow
<1>1. CASE attempt < MaxInitRetry
  BY <1>1 DEF RelayTypeOK, InitAgain, MaxInitRetry
<1>2. CASE ~(attempt < MaxInitRetry)
  BY <1>2 DEF RelayTypeOK, InitAgain, MaxInitRetry, Return
<1> QED BY <1>1, <1>2

LEMMA RelayTypeStep ==
    ASSUME RelayTypeOK, Opened, RelayStep
    PROVE  RelayTypeOK' /\ flow' = flow
<1> USE DEF RelayTypeOK, Errors, NewSession, NoSession, Return, GoOn, NeedsSession, MaxInitRetry
<1>1. CASE InitPrepare
  BY <1>1 DEF InitPrepare
<1>2. CASE InitPost
  BY <1>2 DEF InitPost
<1>3. CASE InitComplete
  BY <1>3 DEF InitComplete
<1>4. CASE BizPrepare
  BY <1>4, InitAgainType DEF BizPrepare
<1>5. CASE BizPost
  BY <1>5 DEF BizPost
<1>6. CASE BizComplete
  <2>1. CASE InitAgain("refused") /\ UNCHANGED <<session, dropped>>
    BY <2>1, InitAgainType
  <2>2. CASE session' = NoSession /\ dropped' = dropped /\ Return("expired")
    BY <2>2
  <2>3. CASE UNCHANGED <<session, dropped>> /\ \E e \in {"error", "http", "api", "fault"} : Return(e)
    BY <2>3
  <2>4. CASE /\ Return("ok")
             /\ IF flow = "qr_get"
                THEN session' = [session EXCEPT !.shows = TRUE] /\ dropped' = FALSE
                ELSE UNCHANGED <<session, dropped>>
    <3>1. flow' = flow /\ attempt' = attempt /\ step' = "idle" /\ result' = "ok"
      BY <2>4
    <3>2. session' \in {NoSession, NewSession, [NewSession EXCEPT !.shows = TRUE]}
      <4>1. CASE flow = "qr_get"
        <5>1. session.open /\ session' = [session EXCEPT !.shows = TRUE]
          BY <1>6, <2>4, <4>1 DEF Opened, BizComplete
        <5>2. session \in {NewSession, [NewSession EXCEPT !.shows = TRUE]}
          BY <5>1
        <5> QED BY <5>1, <5>2
      <4>2. CASE flow # "qr_get"
        BY <2>4, <4>2
      <4> QED BY <4>1, <4>2
    <3> QED BY <2>4, <3>1, <3>2
  <2> QED BY <1>6, <2>1, <2>2, <2>3, <2>4 DEF BizComplete
<1> QED BY <1>1, <1>2, <1>3, <1>4, <1>5, <1>6 DEF RelayStep

LEMMA RelayStaysOpened ==
    ASSUME RelayTypeOK, Opened, RelayStep
    PROVE  Opened'
BY DEF Opened, RelayTypeOK, Errors, NewSession, NoSession, Return, GoOn, NeedsSession,
       InitAgain, InitPrepare, InitPost, InitComplete, BizPrepare, BizPost, BizComplete,
       RelayStep

\* A round under way goes on with the code's session, or remembers that LwApi
\* dropped it; only an error gives it up.  One that is over with "ok" has, for
\* qr_get, a session with a code.
LEMMA RelayKeepsSession ==
    ASSUME RelayTypeOK, RelayStep
    PROVE  /\ Shows => Shows' \/ (step' = "idle" /\ result' # "ok")
           /\ step' = "idle" /\ result' = "ok" => (flow = "qr_get" => Shows') /\ (Shows => Shows')
<1> USE DEF RelayTypeOK, Errors, NewSession, NoSession, Return, GoOn, NeedsSession, Shows,
            InitAgain
<1>1. CASE InitPrepare
  BY <1>1 DEF InitPrepare
<1>2. CASE InitPost \/ InitComplete \/ BizPost
  BY <1>2 DEF InitPost, InitComplete, BizPost
<1>3. CASE BizPrepare
  BY <1>3 DEF BizPrepare
<1>4. CASE BizComplete
  BY <1>4 DEF BizComplete
<1> QED BY <1>1, <1>2, <1>3, <1>4 DEF RelayStep

LEMMA CallType ==
    ASSUME RelayTypeOK, NEW f \in Flows, NEW first \in {"initPrepare", "bizPrepare"},
           Call(f, first), UNCHANGED <<session, dropped>>
    PROVE  RelayTypeOK'
BY DEF RelayTypeOK, Call, MaxInitRetry

(***************************************************************************)
(* The events of one step that publishes a list.                           *)
(***************************************************************************)

\* What a single event of local mode needs, before it is published.
Fits(e) == mode = "local" =>
    /\ e.ev \notin {"poll", "verify_url", "warning"}
    /\ e.ev \in {"qr_ready", "confirming", "status"} => Shows
    /\ e.ev \in {"status", "confirming"} => flow = "qr_check"
    /\ e.ev = "error" /\ flow = "qr_get" => e.of = "api"

\* The types of what a step that publishes may change, and who scanned.
Typed ==
    /\ scan \in [state : ScanStates, by : Users \cup {NoOne}]
    /\ shown \in ScanStates
    /\ polls \in 0 .. MaxPolls
    /\ {verified, late} \subseteq BOOLEAN
    /\ scan.state = "waiting" => scan.by = NoOne
    /\ scan.state \in {"scanned", "confirmed", "canceled"} => scan.by # NoOne
    /\ named \in Nicks

LEMMA EmitList ==
    ASSUME IInv, step = "idle", Typed', NEW s, ListOf(s)', s # <<>>, Emit(s),
           UNCHANGED <<rvars, mode, wxid, header, profile, sinceQr, byCode>>
    PROVE  /\ TypeOK' /\ Scanned' /\ Opened'
           /\ mode = "remote" => IInv'
<1>1. TypeOK'
  <2>1. named' \in Users \cup {NoOne}
    BY DEF Typed, Nicks
  <2> QED BY <2>1 DEF IInv, TypeOK, RelayTypeOK, MaxInitRetry, Typed, ListOf, Emit, rvars, Ev
<1>2. todo' = s /\ at' = "emit" /\ step' = "idle" /\ mode' = mode
      /\ mode \in {"local", "remote"}
  BY DEF Emit, rvars, IInv, TypeOK
<1>3. Scanned'
  BY <1>2 DEF Scanned, Typed, ListOf
<1>4. Opened'
  BY <1>2 DEF Opened
<1>5. CASE mode = "remote"
  <2>1. Lines'
    BY <1>2, <1>5 DEF Lines, ListOf
  <2>2. InSession' /\ Rounds'
    BY <1>2, <1>5 DEF InSession, Rounds
  <2> QED BY <1>1, <1>3, <1>4, <2>1, <2>2 DEF IInv
<1> QED BY <1>1, <1>3, <1>4, <1>5

LEMMA EmitOne ==
    ASSUME IInv, step = "idle", Typed', NEW e \in Ev, True(e)', Fits(e)', Emit(<<e>>),
           UNCHANGED <<rvars, mode, wxid, header, profile, sinceQr, byCode>>
    PROVE  IInv'
<1> DEFINE s == <<e>>
<1>1. s # <<>> /\ Len(s) = 1 /\ s[1] = e /\ Head(s) = e /\ ListOf(s)'
  BY OneEvent DEF ListOf
<1>2. todo' = s /\ at' = "emit" /\ step' = "idle" /\ mode' = mode
      /\ mode \in {"local", "remote"}
  BY DEF Emit, rvars, IInv, TypeOK
<1> HIDE DEF s
<1>3. TypeOK' /\ Scanned' /\ Opened' /\ (mode = "remote" => IInv')
  BY <1>1, <1>2, EmitList DEF Emit
<1>4. CASE mode = "local"
  <2>1. Lines'
    <3>1. \A i \in 1 .. Len(s) - 1 : s[i].ev \in Passing
      BY <1>1 DEF ListOf
    <3>2. \A i \in 1 .. Len(s) : i = 1
      BY <1>1
    <3>3. \A i \in 1 .. Len(s) : s[i].ev \notin {"poll", "verify_url", "warning"}
      BY <1>1, <1>2, <1>4, <3>2 DEF Fits
    <3>4. at' = "emit" /\ mode' = "local" /\ step' = "idle"
      BY <1>2, <1>4
    <3>5. Len(todo') <= 1
      <4>1. Len(s) = 1 /\ todo' = s
        BY <1>1, <1>2
      <4>2. Len(todo') = 1
        BY <4>1
      <4> QED BY <4>2
    <3>6. /\ \A i \in 1 .. Len(todo') - 1 : todo'[i].ev \in Passing
          /\ \A i \in 1 .. Len(todo') : todo'[i].ev \notin {"poll", "verify_url", "warning"}
      BY <1>2, <3>1, <3>3
    <3>7. \A i \in 1 .. Len(todo') : todo'[i].ev \in Streamed \/ Len(todo') = 1
      BY <1>1, <1>2 DEF ListOf
    <3> QED BY <3>4, <3>5, <3>6, <3>7 DEF Lines, Passing
  <2>2. InSession'
    BY <1>1, <1>2, <1>4 DEF InSession, Fits
  <2>3. Rounds'
    BY <1>1, <1>2, <1>4 DEF Rounds, Fits
  <2> QED BY <1>3, <2>1, <2>2, <2>3 DEF IInv
<1> QED BY <1>2, <1>3, <1>4

\* What StatusAnswer publishes is a list, whatever ends it.
LEMMA StatusAnswerList ==
    ASSUME TypeOK, NEW state, NEW last, ListOf(last), AllStreamed(last), NEW verify \in BOOLEAN,
           NEW nick \in Nicks
    PROVE  LET s == <<Plain("poll")>>
                    \o (IF verify /\ ~verified THEN <<Plain("verify_url")>> ELSE <<>>)
                    \o StatusOf(state, nick) \o last
           IN  ListOf(s) /\ AllStreamed(s) /\ s # <<>>
<1> DEFINE p == <<Plain("poll")>>
           v == IF verify /\ ~verified THEN <<Plain("verify_url")>> ELSE <<>>
           t == StatusOf(state, nick)
           st == Event("status", NoOne, nick)
<1>1. /\ Plain("poll") \in Ev /\ Plain("poll").ev = "poll"
      /\ Plain("verify_url") \in Ev /\ Plain("verify_url").ev = "verify_url"
      /\ st \in Ev /\ st.ev = "status" /\ st.nick = nick
      /\ Plain("poll").nick = NoOne /\ Plain("verify_url").nick = NoOne
  <2>1. nick \in Users \cup {NoOne}
    BY NicksType
  <2>2. st \in Ev /\ st.ev = "status" /\ st.nick = nick
    BY <2>1, NamedEvent
  <2> HIDE DEF st
  <2> QED BY <2>2, EventTypes DEF Kinds, Streamed
<1>2. ASSUME NEW e \in Ev, e.ev \in Passing, True(e)
      PROVE  ListOf(<<e>>) /\ AllPassing(<<e>>) /\ AllStreamed(<<e>>)
  BY <1>2, OneEvent, ListOne DEF AllPassing, AllStreamed, Passing, Streamed
<1>3. True(Plain("poll")) /\ True(Plain("verify_url")) /\ True(st)
  BY <1>1 DEF True, Nicks
<1>4. ListOf(p) /\ AllPassing(p) /\ Len(p) = 1
  BY <1>1, <1>2, <1>3, OneEvent DEF Passing
<1>5. ListOf(v) /\ AllPassing(v) /\ AllStreamed(v)
  BY <1>1, <1>2, <1>3, ListNone DEF Passing
<1>6. ListOf(t) /\ AllPassing(t) /\ AllStreamed(t)
  BY <1>1, <1>2, <1>3, ListNone DEF Passing, StatusOf
<1> HIDE DEF p, v, t
<1>7. ListOf(p \o v) /\ AllPassing(p \o v) /\ Len(p \o v) = 1 + Len(v)
  BY <1>4, <1>5, ListConcat
<1>8. ListOf(p \o v \o t) /\ AllPassing(p \o v \o t) /\ Len(p \o v \o t) = 1 + Len(v) + Len(t)
  BY <1>6, <1>7, ListConcat
<1>9. ListOf(p \o v \o t \o last) /\ AllStreamed(p \o v \o t \o last)
      /\ Len(p \o v \o t \o last) = 1 + Len(v) + Len(t) + Len(last)
  BY <1>8, ListConcat
<1>10. Len(v) \in Nat /\ Len(t) \in Nat /\ Len(last) \in Nat
  BY <1>5, <1>6, LenProperties DEF ListOf
<1>11. Len(p \o v \o t \o last) # 0
  BY <1>9, <1>10
<1>12. p \o v \o t \o last # <<>>
  BY <1>11, NoEvent
<1> QED BY <1>9, <1>12 DEF p, v, t

LEMMA ErrorList ==
    ASSUME NEW code \in Reasons, code = "canceled" => scan.state = "canceled"
    PROVE  ListOf(Error(code)) /\ AllStreamed(Error(code)) /\ Len(Error(code)) = 1
<1>1. /\ Event("error", code, NoOne) \in Ev /\ Event("error", code, NoOne).ev = "error"
      /\ Event("error", code, NoOne).of = code /\ Event("error", code, NoOne).nick = NoOne
  BY EventTypes
<1>2. True(Event("error", code, NoOne))
  BY <1>1 DEF True, Nicks
<1> QED BY <1>1, <1>2, ListOne, OneEvent DEF Error, AllStreamed, Streamed

\* A list stays one where nothing it speaks of changes.
LEMMA ListStays ==
    ASSUME UNCHANGED <<mode, scan, byCode, wxid, header>>
    PROVE  \A s : ListOf(s) => ListOf(s)'
BY TrueStays DEF ListOf

LEMMA CheckStep ==
    ASSUME IInv, Check
    PROVE  IInv' /\ at' = "emit" /\ mode' = "remote" /\ todo' # <<>> /\ AllStreamed(todo)'
<1>1. /\ at = "check" /\ mode = "remote" /\ step = "idle"
      /\ TypeOK /\ Scanned /\ LoginAssumption
  BY LoginAssumption DEF IInv, Lines, TypeOK, Check
<1>2. /\ polls' = polls + 1 /\ polls < MaxPolls
      /\ UNCHANGED <<rvars, mode, wxid, header, profile, scan, named, late, sinceQr, byCode>>
      /\ CheckAnswer
  BY DEF Check
<1> DEFINE Published ==
              IInv' /\ at' = "emit" /\ mode' = "remote" /\ todo' # <<>> /\ AllStreamed(todo)'
<1> SUFFICES Published
  OBVIOUS
<1>3. ASSUME NEW s, ListOf(s), AllStreamed(s), s # <<>>, Emit(s),
             shown' \in ScanStates, verified' \in BOOLEAN
      PROVE  Published
  <2>1. Typed'
    BY <1>1, <1>2, <1>3 DEF Typed, TypeOK, Scanned, LoginAssumption, Nicks
  <2>2. ListOf(s)'
    BY <1>2, <1>3, ListStays
  <2>3. todo' # <<>> /\ AllStreamed(todo)' /\ at' = "emit" /\ mode' = "remote"
    BY <1>1, <1>2, <1>3 DEF Emit, AllStreamed
  <2> QED BY <1>1, <1>2, <1>3, <2>1, <2>2, <2>3, EmitList
<1> HIDE DEF Published
<1>4. ASSUME NEW state \in ScanStates, NEW last, ListOf(last), AllStreamed(last),
             StatusAnswer(state, last)
      PROVE  Published
  <2>1. PICK verify \in BOOLEAN, nick \in Nicks :
           /\ verified' = (verified \/ verify)
           /\ Emit(<<Plain("poll")>>
                   \o (IF verify /\ ~verified THEN <<Plain("verify_url")>> ELSE <<>>)
                   \o StatusOf(state, nick) \o last)
    BY <1>4 DEF StatusAnswer
  <2>2. shown' \in ScanStates /\ verified' \in BOOLEAN
    BY <1>1, <1>4, <2>1 DEF StatusAnswer, TypeOK
  <2> QED BY <1>1, <1>3, <1>4, <2>1, <2>2, StatusAnswerList
<1>5. /\ ListOf(<<>>) /\ AllStreamed(<<>>)
      /\ \A code \in {"api", "expired"} : ListOf(Error(code)) /\ AllStreamed(Error(code))
      /\ scan.state = "canceled" => ListOf(Error("canceled")) /\ AllStreamed(Error("canceled"))
  BY ListNone, ErrorList DEF Reasons
<1>6. CASE /\ scan.state \in {"waiting", "scanned", "confirmed"}
           /\ \E last \in {<<>>, Error("api")} : StatusAnswer(Seen, last)
  <2>1. Seen \in ScanStates
    BY <1>6 DEF Seen, ScanStates
  <2> QED BY <1>4, <1>5, <1>6, <2>1
<1>7. CASE scan.state = "canceled" /\ StatusAnswer("canceled", Error("canceled"))
  BY <1>4, <1>5, <1>7 DEF ScanStates
<1>8. CASE /\ \/ /\ scan.state = "confirmed"
                 /\ \E nick \in Nicks :
                       Emit(<<Plain("poll"), Event("success", scan.by, nick)>>)
              \/ /\ scan.state = "expired"
                 /\ Emit(<<Plain("poll")>> \o Error("expired"))
              \/ Emit(<<Plain("warning")>>)
           /\ UNCHANGED <<shown, verified>>
  <2>1. shown' \in ScanStates /\ verified' \in BOOLEAN
    BY <1>1, <1>8 DEF TypeOK
  <2>2. /\ Plain("poll") \in Ev /\ Plain("poll").ev = "poll"
        /\ Plain("warning") \in Ev /\ Plain("warning").ev = "warning"
        /\ Plain("poll").nick = NoOne /\ Plain("warning").nick = NoOne
    BY EventTypes DEF Kinds, Streamed
  <2>3. True(Plain("poll")) /\ True(Plain("warning"))
    BY <2>2 DEF True, Nicks
  <2>4. /\ ListOf(<<Plain("poll")>>) /\ AllPassing(<<Plain("poll")>>)
        /\ Len(<<Plain("poll")>>) = 1
    BY <2>2, <2>3, ListOne, OneEvent DEF AllPassing, Passing
  <2>5. ASSUME NEW nick \in Nicks, scan.state = "confirmed",
               Emit(<<Plain("poll"), Event("success", scan.by, nick)>>)
        PROVE  Published
    <3> DEFINE f == Event("success", scan.by, nick)
               s == <<Plain("poll"), f>>
    <3>a. f \in Ev /\ f.ev = "success" /\ f.of = scan.by /\ f.nick = nick
      BY <1>1, NicksType, NamedEvent DEF TypeOK
    <3>b. True(f)
      BY <2>5, <3>a DEF True
    <3> HIDE DEF f
    <3>1. s \in Seq(Ev) /\ s # <<>> /\ Len(s) = 2 /\ s[1] = Plain("poll") /\ s[2] = f
      BY <2>2, <3>a
    <3> HIDE DEF s
    <3>2. ListOf(s) /\ AllStreamed(s)
      BY <2>2, <2>3, <3>1, <3>a, <3>b DEF ListOf, AllStreamed, Passing, Streamed
    <3> QED BY <1>3, <2>1, <2>5, <3>1, <3>2 DEF s, f
  <2>6. CASE scan.state = "expired" /\ Emit(<<Plain("poll")>> \o Error("expired"))
    <3> DEFINE p == <<Plain("poll")>>
               s == p \o Error("expired")
    <3>1. ListOf(s) /\ AllStreamed(s) /\ Len(s) = Len(p) + Len(Error("expired")) /\ Len(p) = 1
      BY <1>5, <2>4, ListConcat
    <3>2. Len(Error("expired")) = 1
      BY ErrorList DEF Reasons
    <3> HIDE DEF p, s
    <3>3. Len(s) # 0
      BY <3>1, <3>2
    <3>4. s # <<>>
      BY <3>3, NoEvent
    <3> QED BY <1>3, <2>1, <2>6, <3>1, <3>4 DEF s, p
  <2>7. CASE Emit(<<Plain("warning")>>)
    <3> DEFINE s == <<Plain("warning")>>
    <3>1. ListOf(s) /\ s # <<>> /\ Len(s) = 1 /\ s[1] = Plain("warning")
      BY <2>2, <2>3, ListOne, OneEvent
    <3> HIDE DEF s
    <3>2. AllStreamed(s)
      BY <2>2, <3>1 DEF AllStreamed, Streamed
    <3> QED BY <1>3, <2>1, <2>7, <3>1, <3>2 DEF s
  <2> QED BY <1>8, <2>5, <2>6, <2>7
<1> QED BY <1>2, <1>6, <1>7, <1>8 DEF CheckAnswer

(***************************************************************************)
(* Publishing.                                                             *)
(***************************************************************************)

LEMMA PublishType ==
    ASSUME TypeOK, NEW e \in Ev, True(e), Publish(e), LoggedIn(e), named' = named
    PROVE  /\ {wxid, header, profile, named}' \subseteq Users \cup {NoOne}
           /\ sinceQr' \in 0 .. MaxReplay /\ byCode' \in BOOLEAN
<1>1. MaxReplay \in Nat /\ sinceQr \in 0 .. MaxReplay
  BY LoginAssumption DEF TypeOK
<1>2. sinceQr' \in 0 .. MaxReplay
  BY <1>1 DEF Publish, Later
<1>3. scan.by \in Users \cup {NoOne}
  BY DEF TypeOK
<1>4. e.ev = "success" => e.of \in Users \cup {NoOne}
  BY <1>3 DEF True
<1>5. profile' \in Users \cup {NoOne} /\ named' \in Users \cup {NoOne}
  BY DEF Publish, TypeOK, Ev
<1>6. {wxid, header}' \subseteq Users \cup {NoOne} /\ byCode' \in BOOLEAN
  BY <1>4 DEF LoggedIn, TypeOK
<1> QED BY <1>2, <1>5, <1>6

\* A bot that works as the scanner still does after any event but a login from
\* the cache; a success makes it so.
LEMMA PublishWorks ==
    ASSUME NEW e, True(e), LoggedIn(e), scan' = scan
    PROVE  /\ e.ev = "success" => Working'
           /\ e.ev # "success" => (byCode' => byCode) /\ (Working => Working')
           /\ e.ev = "sec_auto_ok" => byCode' = FALSE
<1>1. e.ev = "success" => Working'
  BY DEF True, LoggedIn, Working
<1>3. e.ev # "success" => (byCode' => byCode) /\ (Working => Working')
  BY DEF LoggedIn, Working
<1>4. e.ev = "sec_auto_ok" => byCode' = FALSE
  BY DEF LoggedIn
<1> QED BY <1>1, <1>3, <1>4

\* What is still to be published stays true.
LEMMA PublishTrue ==
    ASSUME NEW e, True(e), LoggedIn(e), UNCHANGED <<mode, scan>>, e.ev # "success",
           NEW f, True(f)
    PROVE  True(f)'
BY PublishWorks DEF True, Nicks

\* The list goes on.
LEMMA DeliverMore ==
    ASSUME IInv, Deliver, Len(todo) > 1
    PROVE  IInv'
<1> DEFINE e == todo[1]
<1>1. /\ TypeOK /\ Lines /\ Scanned /\ Opened /\ InSession /\ Rounds
      /\ at = "emit" /\ Len(todo) \in Nat /\ MaxReplay \in Nat /\ step = "idle"
  BY DeliverCases, LoginAssumption DEF IInv, Deliver, Lines
<1>2. /\ Head(todo) = e /\ e \in Ev /\ e.ev \in Passing /\ todo' \in Seq(Ev) /\ todo' # <<>>
      /\ Len(todo') = Len(todo) - 1
      /\ \A i \in 1 .. Len(todo') : todo'[i] = todo[i + 1]
      /\ UNCHANGED <<rvars, at>>
  <2>0. \A n \in Nat : n > 1 => n # 1
    OBVIOUS
  <2>1. ~(Len(todo) = 1)
    BY <1>1, <2>0
  <2> QED BY <1>1, <2>1, DeliverCases
<1>3. /\ Publish(e) /\ LoggedIn(e)
      /\ UNCHANGED <<mode, scan, shown, named, verified, polls, late>>
  BY <1>2 DEF Deliver
<1>4. True(e)
  <2>1. 1 \in 1 .. Len(todo)
    BY <1>1
  <2> QED BY <1>1, <2>1 DEF Scanned
<1> HIDE DEF e
<1>5. TypeOK'
  <2>1. RelayTypeOK'
    BY <1>1, <1>2 DEF TypeOK, RelayTypeOK, rvars, MaxInitRetry
  <2>2. /\ {wxid, header, profile, named}' \subseteq Users \cup {NoOne}
        /\ sinceQr' \in 0 .. MaxReplay /\ byCode' \in BOOLEAN
    BY <1>1, <1>2, <1>3, <1>4, PublishType
  <2> QED BY <1>1, <1>2, <1>3, <2>1, <2>2 DEF TypeOK, Ev
<1>6. ASSUME NEW i \in 1 .. Len(todo')
      PROVE  i + 1 \in 1 .. Len(todo) /\ (i \in 1 .. Len(todo') - 1 => i + 1 \in 1 .. Len(todo) - 1)
  BY <1>1, <1>2
<1>7. \A i \in 1 .. Len(todo') - 1 : i \in 1 .. Len(todo')
  BY <1>1, <1>2
<1>8. Scanned'
  <2>1. \A i \in 1 .. Len(todo') : True(todo[i])'
    <3> SUFFICES ASSUME NEW i \in 1 .. Len(todo') PROVE True(todo[i])'
      OBVIOUS
    <3>1. True(todo[i + 1]) /\ todo'[i] = todo[i + 1]
      BY <1>1, <1>2, <1>6 DEF Scanned
    <3>2. e.ev # "success" /\ UNCHANGED <<mode, scan>>
      BY <1>2, <1>3 DEF Passing
    <3>3. \A f : True(f) => True(f)'
      BY <1>1, <1>2, <1>3, <1>4, <3>2, PublishTrue
    <3>4. PICK f : f = todo'[i]
      OBVIOUS
    <3>5. True(f)'
      BY <3>1, <3>3, <3>4
    <3> QED BY <3>4, <3>5 DEF True, Working, Nicks
  <2> QED BY <1>1, <1>2, <1>3, <2>1 DEF Scanned, rvars, Nicks
<1>9. Opened'
  BY <1>1, <1>2 DEF Opened, rvars
<1>10. \A i \in 1 .. Len(todo') - 1 : todo'[i].ev \in Passing
  BY <1>1, <1>2, <1>6, <1>7 DEF Lines
<1>11. CASE mode = "remote"
  <2>1. Lines' /\ InSession' /\ Rounds'
    BY <1>1, <1>2, <1>3, <1>10, <1>11 DEF Lines, InSession, Rounds, rvars
  <2> QED BY <1>5, <1>8, <1>9, <2>1 DEF IInv
<1>12. CASE mode = "local"
  <2>1. Len(todo) = 2 /\ todo[1].ev = "status" /\ todo[2].ev = "error"
    BY <1>1, <1>12 DEF Lines
  <2>2. Len(todo') = 1 /\ todo'[1] = todo[2] /\ Head(todo') = todo[2]
    <3>1. Len(todo') = 1
      BY <1>2, <2>1
    <3>2. 1 \in 1 .. Len(todo') /\ 1 + 1 = 2
      BY <3>1
    <3>3. todo'[1] = todo[1 + 1]
      BY <1>2, <3>2
    <3>4. Head(todo') = todo'[1]
      BY <1>2, HeadTailProperties
    <3> QED BY <3>1, <3>2, <3>3, <3>4
  <2>3. Lines'
    <3>1. \A i \in 1 .. Len(todo') : todo'[i].ev \notin {"poll", "verify_url", "warning"}
      BY <1>1, <1>2, <1>6, <1>12 DEF Lines
    <3>2. Len(todo') <= 1
      BY <2>2
    <3> QED BY <1>1, <1>2, <1>3, <1>10, <1>12, <3>1, <3>2 DEF Lines, rvars
  <2>4. InSession'
    BY <1>1, <1>2, <1>3, <1>12, <2>1, <2>2 DEF InSession, rvars
  <2>5. flow = "qr_check"
    <3>1. todo # <<>>
      BY NoEvent, <2>1
    <3>2. Head(todo).ev = "status"
      BY <1>2, <2>1 DEF e
    <3> QED BY <1>1, <1>12, <3>1, <3>2 DEF Rounds
  <2>6. Rounds'
    BY <1>1, <1>2, <1>3, <1>12, <2>1, <2>2, <2>5 DEF Rounds, rvars
  <2> QED BY <1>5, <1>8, <1>9, <2>3, <2>4, <2>6 DEF IInv
<1> QED BY <1>1, <1>11, <1>12 DEF TypeOK

\* The list ends with an event that leads to another one.
LEMMA DeliverFollow ==
    ASSUME IInv, Deliver, Len(todo) = 1, Follow(todo[1]) # <<>>
    PROVE  IInv'
<1>a. PICK e : e = todo[1]
  OBVIOUS
<1>b. PICK f : f = IF e.ev = "error" THEN Notice(e.of) ELSE Plain("login_saved")
  OBVIOUS
<1>1. /\ TypeOK /\ Lines /\ Scanned /\ Opened /\ InSession /\ Rounds
      /\ at = "emit" /\ step = "idle"
  BY DEF IInv, Deliver, Lines
<1>2. /\ Head(todo) = e /\ e \in Ev /\ todo' = Follow(e)
      /\ UNCHANGED <<rvars, at>>
  <2>1. ~(Len(todo) > 1)
    BY 1 > 1 <=> FALSE
  <2> QED BY <1>a, <1>1, <2>1, DeliverCases
<1>3. /\ Publish(e) /\ LoggedIn(e)
      /\ UNCHANGED <<mode, scan, shown, named, verified, polls, late>>
  BY <1>2 DEF Deliver
<1>4. True(e)
  BY <1>a, <1>1 DEF Scanned
<1>5. e.ev \in {"success", "sec_auto_ok", "error"}
  BY <1>a DEF Follow
<1>6. Follow(e) = <<f>>
  BY <1>b, <1>5 DEF Follow
<1>7. /\ f \in Ev
      /\ f.ev \in {"login_saved", "login_canceled", "login_interrupted", "bot_error"}
      /\ f.ev = "login_canceled" => e.ev = "error" /\ e.of = "canceled"
      /\ f.ev = "login_saved" => e.ev # "error"
  BY <1>b, EventTypes, NoticeType DEF Kinds, Streamed
<1>8. /\ todo' = <<f>> /\ todo' \in Seq(Ev) /\ Len(todo') = 1 /\ todo' # <<>>
      /\ todo'[1] = f /\ Head(todo') = f
  BY <1>2, <1>6, <1>7, OneEvent
<1>9. TypeOK'
  <2>1. RelayTypeOK'
    BY <1>1, <1>2 DEF TypeOK, RelayTypeOK, rvars, MaxInitRetry
  <2>2. /\ {wxid, header, profile, named}' \subseteq Users \cup {NoOne}
        /\ sinceQr' \in 0 .. MaxReplay /\ byCode' \in BOOLEAN
    BY <1>1, <1>2, <1>3, <1>4, PublishType
  <2> QED BY <1>1, <1>2, <1>3, <1>8, <2>1, <2>2 DEF TypeOK, Ev
<1>10. \A i \in 1 .. Len(todo') : i = 1
  BY <1>8
<1>11. Scanned'
  <2>1. True(f)'
    <3>1. f.ev = "login_saved" /\ byCode' => Working'
      BY <1>1, <1>2, <1>3, <1>4, <1>5, <1>7, PublishWorks
    <3>2. f.ev = "login_canceled" => scan'.state = "canceled"
      BY <1>3, <1>4, <1>7 DEF True
    <3>3. f.nick = NoOne
      BY <1>b, EventTypes DEF Notice
    <3> QED BY <1>7, <3>1, <3>2, <3>3 DEF True, Nicks
  <2>2. \A i \in 1 .. Len(todo') : True(todo[i])'
    BY <1>8, <1>10, <2>1 DEF True, Working, Nicks
  <2> QED BY <1>1, <1>2, <1>3, <2>2 DEF Scanned, rvars, Nicks
<1>12. Lines'
  <2>1. \A i \in 1 .. Len(todo') - 1 : FALSE
    BY <1>8
  <2>2. Len(todo') <= 1
    <3>1. Len(todo') = 1
      BY <1>8
    <3> QED BY <3>1
  <2>3. \A i \in 1 .. Len(todo') : todo'[i].ev \notin {"poll", "verify_url", "warning"}
    BY <1>7, <1>8, <1>10
  <2>4. Len(todo') = 1
    BY <1>8
  <2> QED BY <1>1, <1>2, <1>3, <2>1, <2>2, <2>3, <2>4 DEF Lines, rvars
<1>13. Opened' /\ InSession' /\ Rounds'
  BY <1>1, <1>2, <1>3, <1>7, <1>8 DEF Opened, InSession, Rounds, rvars
<1> QED BY <1>9, <1>11, <1>12, <1>13 DEF IInv

\* The list ends, and the bot goes on.
LEMMA DeliverLast ==
    ASSUME IInv, Deliver, Len(todo) = 1, Follow(todo[1]) = <<>>
    PROVE  IInv'
<1> DEFINE e == todo[1]
<1>1. /\ TypeOK /\ Lines /\ Scanned /\ Opened /\ InSession /\ Rounds
      /\ at = "emit" /\ step = "idle" /\ mode \in {"local", "remote"}
      /\ MaxReplay \in Nat
  BY LoginAssumption DEF IInv, Deliver, Lines, TypeOK
<1>2. /\ Head(todo) = e /\ e \in Ev /\ todo' = <<>> /\ Go(e)
  <2>1. ~(Len(todo) > 1)
    BY 1 > 1 <=> FALSE
  <2> QED BY <1>1, <2>1, DeliverCases
<1>3. /\ Publish(e) /\ LoggedIn(e)
      /\ UNCHANGED <<mode, scan, shown, named, verified, polls, late>>
  BY <1>2 DEF Deliver
<1>4. True(e)
  BY <1>1 DEF Scanned
<1>5. e.ev \in Kinds /\ e.ev \notin {"success", "sec_auto_ok", "error"}
  BY <1>2, OneEvent DEF Follow, Ev
<1>6. mode = "local" => e.ev \notin {"poll", "verify_url", "warning"}
  BY <1>1 DEF Lines
<1>7. e.ev = "confirming" => mode = "local" /\ scan.state = "confirmed"
  BY <1>4 DEF True
<1>8. mode = "local" =>
         /\ e.ev \in {"qr_ready", "confirming", "status"} => Shows
         /\ e.ev \in {"status", "confirming"} => flow = "qr_check"
  <2>1. todo # <<>>
    BY EmptySeq
  <2> QED BY <1>1, <1>2, <2>1 DEF InSession, Rounds
<1> HIDE DEF e
<1>9. \/ /\ e.ev = "qr_ready" /\ mode = "local"
         /\ at' = "relay" /\ Round("qr_check")
      \/ e.ev = "confirming" /\ at' = "relay" /\ Round("sec_manual_auth")
      \/ /\ ~(e.ev = "qr_ready" /\ mode = "local") /\ e.ev # "confirming"
         /\ at' \in {"check", "online", "ended", "stopped", "retrySleep", "sleep"}
         /\ at' = "check" => mode = "remote"
         /\ at' = "online" => e.ev = "login_saved"
         /\ at' = "ended" => e.ev = "login_canceled"
         /\ at' = "sleep" => e.ev \in {"poll", "verify_url", "status", "warning"}
         /\ UNCHANGED rvars
  BY <1>1, <1>2, <1>5 DEF Go, Kinds, Streamed
<1>10. TypeOK'
  <2>1. RelayTypeOK'
    <3>1. CASE \E f \in Flows : Round(f)
      BY <1>1, <3>1, CallType DEF Round, TypeOK
    <3>2. CASE UNCHANGED rvars
      BY <1>1, <3>2 DEF TypeOK, RelayTypeOK, rvars, MaxInitRetry
    <3> QED BY <1>9, <3>1, <3>2 DEF Flows
  <2>2. /\ {wxid, header, profile, named}' \subseteq Users \cup {NoOne}
        /\ sinceQr' \in 0 .. MaxReplay /\ byCode' \in BOOLEAN
    BY <1>1, <1>2, <1>3, <1>4, PublishType
  <2>3. at' \in {"relay", "check", "online", "ended", "stopped", "retrySleep", "sleep"}
    BY <1>9
  <2>4. todo' \in Seq(Ev)
    BY <1>2, NoEvent
  <2> QED BY <1>1, <1>2, <1>3, <2>1, <2>2, <2>3, <2>4 DEF TypeOK, Ev
<1>11. Len(todo') = 0
  BY <1>2, NoEvent
<1>12. (\A i \in 1 .. Len(todo') : FALSE) /\ (\A i \in 1 .. Len(todo') - 1 : FALSE)
  BY <1>11
<1>13. Lines'
  <2>1. Len(todo') <= 1
    BY <1>11
  <2>2. mode' = "remote" => step' = "idle" /\ at' # "relay"
    BY <1>1, <1>3, <1>7, <1>9 DEF rvars
  <2>3. step' # "idle" => at' = "relay"
    BY <1>1, <1>9 DEF rvars
  <2>4. mode' = "local" => at' \notin {"secAuto", "getQr", "check"}
    BY <1>3, <1>9
  <2> QED BY <1>12, <2>1, <2>2, <2>3, <2>4 DEF Lines
<1>14. Scanned'
  <2>1. at' = "relay" /\ flow' = "sec_manual_auth" => scan'.state = "confirmed"
    BY <1>3, <1>7, <1>9 DEF Round, Call
  <2>2. at' = "online" /\ byCode' => Working'
    BY <1>1, <1>2, <1>3, <1>4, <1>9, PublishWorks DEF True
  <2>3. at' = "ended" => scan'.state = "canceled"
    BY <1>3, <1>4, <1>9 DEF True
  <2> QED BY <1>1, <1>3, <1>12, <2>1, <2>2, <2>3 DEF Scanned, Nicks
<1>15. Opened'
  BY <1>1, <1>9 DEF Opened, Round, Call, rvars
<1>16. InSession'
  <2>1. Shows' <=> Shows
    BY <1>9 DEF Shows, Round, rvars
  <2>2. todo' = <<>> /\ mode' = mode
    BY <1>2, <1>3
  <2>3. mode = "local" /\ at' = "sleep" => Shows
    BY <1>6, <1>8, <1>9
  <2>4. step' # "idle" /\ flow' \in {"qr_check", "sec_manual_auth"} => Shows
    BY <1>1, <1>7, <1>8, <1>9 DEF Round, Call, rvars
  <2>5. ~(at' = "relay" /\ step' = "idle")
    BY <1>9 DEF Round, Call
  <2>6. Len(todo') # 1
    BY <1>11
  <2> QED BY <2>1, <2>2, <2>3, <2>4, <2>5, <2>6 DEF InSession
<1>17. Rounds'
  <2>1. mode = "local" /\ at' = "sleep" => flow' = "qr_check"
    BY <1>6, <1>8, <1>9 DEF rvars
  <2> QED BY <1>2, <1>3, <2>1 DEF Rounds
<1> QED BY <1>10, <1>13, <1>14, <1>15, <1>16, <1>17 DEF IInv

LEMMA DeliverStep ==
    ASSUME IInv, Deliver
    PROVE  IInv'
<1>1. Len(todo) = 1 \/ Len(todo) > 1
  BY DeliverCases DEF IInv
<1> QED BY <1>1, DeliverMore, DeliverFollow, DeliverLast

\* A step that publishes nothing and is in no round, in remote mode or where
\* local mode has nothing to keep.
LEMMA QuietStep ==
    ASSUME IInv, step = "idle", UNCHANGED <<rvars, mode, scan, header, wxid, byCode,
                                             shown, named, verified, polls, late>>,
           profile' \in Users \cup {NoOne}, sinceQr' \in 0 .. MaxReplay,
           todo' = <<>>, at' \in {"start", "getQr", "check", "killed"},
           mode = "local" => at' \in {"start", "killed"}
    PROVE  IInv'
<1>1. Len(todo') = 0
  BY NoEvent
<1>2. /\ \A i \in 1 .. Len(todo') : FALSE
      /\ \A i \in 1 .. Len(todo') - 1 : FALSE
      /\ Len(todo') <= 1
  BY <1>1
<1>3. TypeOK'
  BY NoEvent DEF IInv, TypeOK, RelayTypeOK, MaxInitRetry, rvars, Ev
<1>4. Lines'
  BY <1>2 DEF IInv, Lines, rvars
<1>5. Scanned'
  BY <1>2 DEF IInv, Scanned, Nicks
<1>6. Opened' /\ InSession' /\ Rounds'
  BY <1>1, <1>2 DEF IInv, Opened, InSession, Rounds, rvars
<1> QED BY <1>3, <1>4, <1>5, <1>6 DEF IInv

LEMMA TimeoutInEmitStep ==
    ASSUME IInv, TimeoutInEmit
    PROVE  IInv'
<1>1. /\ at = "emit" /\ mode = "remote" /\ step = "idle"
      /\ TypeOK /\ Scanned /\ Publish(Head(todo))
  BY DEF IInv, Lines, TimeoutInEmit
<1>2. todo \in Seq(Ev) /\ todo # <<>>
  BY <1>1 DEF TypeOK, Ev
<1>3. 1 \in 1 .. Len(todo) /\ Head(todo) = todo[1]
  <2>1. Len(todo) \in Nat /\ Len(todo) # 0
    BY <1>2, EmptySeq, LenProperties
  <2> QED BY <1>2, <2>1, HeadTailProperties
<1>4. todo[1] \in Ev
  BY <1>2, <1>3, ElementOfSeq
<1>5. profile' \in Users \cup {NoOne}
  BY <1>1, <1>3, <1>4 DEF Publish, TypeOK, Ev
<1>6. sinceQr' \in 0 .. MaxReplay
  <2>1. MaxReplay \in Nat /\ sinceQr \in 0 .. MaxReplay
    BY <1>1, LoginAssumption DEF TypeOK
  <2> QED BY <1>1, <2>1 DEF Publish, Later
<1> QED BY <1>1, <1>5, <1>6, QuietStep DEF TimeoutInEmit

(***************************************************************************)
(* The other steps of the bot.                                             *)
(***************************************************************************)

LEMMA RetryStep ==
    ASSUME IInv, RetryAfterSleep \/ PollAgain
    PROVE  IInv'
<1>1. /\ step = "idle" /\ todo = <<>>
      /\ {wxid, header, profile, named} \subseteq Users \cup {NoOne} /\ sinceQr \in 0 .. MaxReplay
  BY DEF IInv, TypeOK, Lines, RetryAfterSleep, PollAgain
<1> QED BY <1>1, QuietStep DEF RetryAfterSleep, PollAgain, bvars

LEMMA BeginStep ==
    ASSUME IInv, Begin
    PROVE  IInv'
<1>1. /\ TypeOK /\ Lines /\ Scanned /\ at = "start" /\ todo = <<>> /\ step = "idle"
      /\ mode \in {"local", "remote"}
  BY DEF IInv, TypeOK, Lines, Begin
<1>2. /\ header' = wxid /\ session' = NoSession /\ dropped' = FALSE
      /\ UNCHANGED <<mode, todo, wxid, profile, scan, shown, named, verified, polls, late,
                     sinceQr, byCode>>
  BY DEF Begin
<1>3. \/ /\ mode = "local" /\ at' = "relay" /\ step' = "initPrepare"
         /\ flow' \in {"qr_get", "sec_auto_auth"} /\ attempt' = 0 /\ result' = "none"
      \/ /\ mode = "remote" /\ at' \in {"getQr", "secAuto"}
         /\ UNCHANGED <<step, flow, attempt, result>>
  BY <1>1 DEF Begin, Call
<1>4. /\ \A i \in 1 .. Len(todo) : FALSE
      /\ \A i \in 1 .. Len(todo) - 1 : FALSE
      /\ Len(todo) <= 1 /\ Len(todo) # 1
  <2>1. Len(todo) = 0
    BY <1>1, NoEvent
  <2> QED BY <2>1
<1>5. TypeOK'
  <2>1. RelayTypeOK'
    <3>1. attempt' \in 0 .. MaxInitRetry'
      BY <1>1, <1>3 DEF TypeOK, RelayTypeOK, MaxInitRetry
    <3>2. session' \in {NoSession, NewSession, [NewSession EXCEPT !.shows = TRUE]}
      BY <1>2
    <3> QED BY <1>1, <1>2, <1>3, <3>1, <3>2 DEF TypeOK, RelayTypeOK, Flows
  <2>2. header' \in Users \cup {NoOne}
    BY <1>1, <1>2 DEF TypeOK
  <2> QED BY <1>1, <1>2, <1>3, <2>1, <2>2 DEF TypeOK
<1>6. Lines' /\ Opened'
  BY <1>1, <1>2, <1>3, <1>4 DEF Lines, Opened
<1>7. Scanned'
  BY <1>1, <1>2, <1>3, <1>4 DEF Scanned, Nicks
<1>8. InSession' /\ Rounds'
  BY <1>1, <1>2, <1>3, <1>4 DEF InSession, Rounds
<1> QED BY <1>5, <1>6, <1>7, <1>8 DEF IInv

\* What a step leaves to Typed that changes neither the code nor the poll.
LEMMA TypedStays ==
    ASSUME IInv, UNCHANGED <<scan, shown, named, verified, polls, late>>
    PROVE  Typed'
BY DEF IInv, TypeOK, Scanned, Typed, Nicks

\* A plain event of the kinds that say nothing of the code.
LEMMA EmitPlain ==
    ASSUME IInv, step = "idle",
           NEW kind \in {"bot_error", "login_interrupted", "sec_auto_ok", "bot_stopped"},
           Emit(<<Plain(kind)>>),
           UNCHANGED <<rvars, mode, wxid, header, profile, scan, shown, named, verified, polls,
                       late, sinceQr, byCode>>
    PROVE  IInv'
<1>1. PICK e : e = Plain(kind)
  OBVIOUS
<1>2. e \in Ev /\ e.ev = kind /\ e.nick = NoOne
  BY <1>1, EventTypes DEF Kinds
<1>3. Typed'
  BY TypedStays
<1>4. True(e)' /\ Fits(e)'
  BY <1>2 DEF True, Fits, Nicks
<1>5. Emit(<<e>>)
  BY <1>1
<1> QED BY <1>2, <1>3, <1>4, <1>5, EmitOne

LEMMA GoOfflineStep ==
    ASSUME IInv, GoOffline
    PROVE  IInv'
<1>1. step = "idle" /\ Emit(<<Plain("bot_error")>>)
  BY DEF IInv, Lines, GoOffline
<1> QED BY <1>1, EmitPlain DEF GoOffline

LEMMA GiveUpStep ==
    ASSUME IInv, GiveUp
    PROVE  IInv'
<1>1. step = "idle" /\ Emit(<<Plain("bot_stopped")>>)
  BY DEF IInv, Lines, GiveUp
<1> QED BY <1>1, EmitPlain DEF GiveUp

LEMMA SecAutoLoginStep ==
    ASSUME IInv, SecAutoLogin
    PROVE  IInv'
<1>1. step = "idle" /\ mode = "remote" /\ todo = <<>>
      /\ {wxid, header, profile, named} \subseteq Users \cup {NoOne} /\ sinceQr \in 0 .. MaxReplay
  BY DEF IInv, TypeOK, Lines, SecAutoLogin
<1>2. CASE Emit(<<Plain("sec_auto_ok")>>) \/ Emit(<<Plain("bot_error")>>)
  BY <1>1, <1>2, EmitPlain DEF SecAutoLogin
<1>3. CASE at' = "getQr" /\ todo' = todo
  BY <1>1, <1>3, QuietStep DEF SecAutoLogin
<1> QED BY <1>2, <1>3 DEF SecAutoLogin

LEMMA ShowCodeStep ==
    ASSUME IInv, step = "idle", mode = "local" => Shows, ShowCode
    PROVE  IInv'
<1>1. PICK e : e = Plain("qr_ready")
  OBVIOUS
<1>2. e \in Ev /\ e.ev = "qr_ready" /\ e.nick = NoOne
  BY <1>1, EventTypes DEF Kinds
<1>3. /\ scan' = [state |-> "waiting", by |-> NoOne]
      /\ shown' = "none" /\ named' = NoOne /\ verified' = FALSE /\ polls' = 0 /\ late' = FALSE
      /\ UNCHANGED <<rvars, mode, wxid, header, profile, sinceQr, byCode>>
      /\ Emit(<<e>>)
  BY <1>1 DEF ShowCode, NoScan
<1>4. Typed'
  <2>1. scan' \in [state : ScanStates, by : Users \cup {NoOne}]
    BY <1>3 DEF ScanStates
  <2>2. polls' \in 0 .. MaxPolls
    BY <1>3, LoginAssumption
  <2>3. scan'.state = "waiting"
    BY <1>3
  <2> QED BY <1>3, <2>1, <2>2, <2>3 DEF Typed, ScanStates, Nicks
<1>5. True(e)'
  BY <1>2 DEF True, Nicks
<1>6. Fits(e)'
  BY <1>2, <1>3 DEF Fits, Shows, rvars
<1> QED BY <1>2, <1>3, <1>4, <1>5, <1>6, EmitOne

LEMMA GetQrCodeStep ==
    ASSUME IInv, GetQrCode
    PROVE  IInv'
<1>1. step = "idle" /\ mode = "remote"
  BY DEF IInv, Lines, TypeOK, GetQrCode
<1>2. CASE ShowCode
  BY <1>1, <1>2, ShowCodeStep
<1>3. CASE ~ShowCode
  BY <1>1, <1>3, EmitPlain DEF GetQrCode
<1> QED BY <1>2, <1>3

LEMMA EmitError ==
    ASSUME IInv, step = "idle", NEW code \in Reasons, code # "canceled",
           mode = "local" /\ flow = "qr_get" => code = "api",
           Emit(Error(code)),
           UNCHANGED <<rvars, mode, wxid, header, profile, scan, shown, named, verified, polls,
                       late, sinceQr, byCode>>
    PROVE  IInv'
<1>1. PICK e : e = Event("error", code, NoOne)
  OBVIOUS
<1>2. e \in Ev /\ e.ev = "error" /\ e.of = code /\ e.nick = NoOne
  BY <1>1, EventTypes
<1>3. Typed'
  BY TypedStays
<1>4. True(e)' /\ Fits(e)'
  BY <1>2 DEF True, Fits, rvars, Nicks
<1>5. Emit(<<e>>)
  BY <1>1 DEF Error
<1> QED BY <1>2, <1>3, <1>4, <1>5, EmitOne

LEMMA TimeoutInPollStep ==
    ASSUME IInv, TimeoutInPoll
    PROVE  IInv'
<1>1. step = "idle" /\ mode # "local"
  BY DEF IInv, Lines, TimeoutInPoll
<1> QED BY <1>1, EmitError DEF TimeoutInPoll, Reasons

(***************************************************************************)
(* Local mode: rounds and what they return.                                *)
(***************************************************************************)

\* Where nothing is left to publish there is nothing to say of the events.
LEMMA NoTodo ==
    ASSUME todo' = <<>>
    PROVE  /\ \A i \in 1 .. Len(todo') : FALSE
           /\ \A i \in 1 .. Len(todo') - 1 : FALSE
           /\ Len(todo') <= 1 /\ Len(todo') # 1
<1>1. Len(todo') = 0
  BY NoEvent
<1> QED BY <1>1

LEMMA RelayRunsStep ==
    ASSUME IInv, RelayRuns
    PROVE  IInv'
<1>1. /\ TypeOK /\ Lines /\ Scanned /\ Opened /\ InSession /\ Rounds
      /\ at = "relay" /\ todo = <<>> /\ RelayTypeOK /\ RelayStep
      /\ UNCHANGED <<mode, at, bvars>>
  BY DEF IInv, TypeOK, RelayRuns
<1>2. RelayTypeOK' /\ flow' = flow /\ Opened'
  BY <1>1, RelayTypeStep, RelayStaysOpened
<1>3. mode = "local" /\ step # "idle"
  BY <1>1 DEF Lines, TypeOK, RelayStep, InitPrepare, InitPost, InitComplete, BizPrepare,
              BizPost, BizComplete
<1>4. todo' = <<>>
  BY <1>1 DEF bvars
<1>5. TypeOK'
  BY <1>1, <1>2 DEF TypeOK, bvars
<1>6. Lines'
  BY <1>1, <1>3, <1>4, NoTodo DEF Lines
<1>7. Scanned'
  BY <1>1, <1>2, <1>4, NoTodo DEF Scanned, bvars, Working, Nicks
<1>8. InSession'
  <2>1. step' # "idle" /\ flow' \in {"qr_check", "sec_manual_auth"} => Shows'
    BY <1>1, <1>2, <1>3, RelayKeepsSession DEF InSession
  <2>2. step' = "idle" /\ result' = "ok" /\ flow' # "sec_auto_auth" => Shows'
    BY <1>1, <1>2, <1>3, RelayKeepsSession DEF InSession, RelayTypeOK, Flows
  <2> QED BY <1>1, <1>4, <2>1, <2>2, NoTodo DEF InSession
<1>9. Rounds'
  BY <1>1, <1>2, <1>4 DEF Rounds, bvars
<1> QED BY <1>2, <1>5, <1>6, <1>7, <1>8, <1>9 DEF IInv

\* A round begins.
LEMMA RoundStep ==
    ASSUME IInv, step = "idle", mode = "local", at \in {"relay", "sleep"}, at' = "relay",
           todo' = todo, todo = <<>>,
           \/ EnsureInitThenRound("qr_get")
           \/ Round("qr_check") /\ Shows,
           UNCHANGED <<mode, wxid, header, profile, scan, shown, named, verified, polls, late,
                       sinceQr, byCode>>
    PROVE  IInv'
<1>1. TypeOK /\ Lines /\ Scanned
  BY DEF IInv
<1>2. /\ flow' \in {"qr_get", "qr_check"} /\ step' # "idle"
      /\ flow' = "qr_get" => step' = "initPrepare"
      /\ flow' = "qr_check" => Shows
      /\ UNCHANGED <<session, dropped>>
  BY DEF EnsureInitThenRound, Round, Call
<1>3. RelayTypeOK'
  BY <1>1, CallType DEF TypeOK, EnsureInitThenRound, Round, Flows
<1>4. TypeOK'
  BY <1>1, <1>3 DEF TypeOK
<1>5. todo' = <<>>
  OBVIOUS
<1>6. Lines'
  BY <1>5, NoTodo DEF Lines
<1>7. Scanned'
  BY <1>1, <1>2, <1>5, NoTodo DEF Scanned, Nicks
<1>8. Opened'
  BY <1>2 DEF Opened
<1>9. InSession'
  BY <1>2, <1>5, NoTodo DEF InSession, Shows
<1>10. Rounds'
  BY <1>5 DEF Rounds
<1> QED BY <1>4, <1>6, <1>7, <1>8, <1>9, <1>10 DEF IInv

\* In a round the bot publishes nothing, and is in local mode.
LEMMA InRound ==
    ASSUME IInv, at = "relay"
    PROVE  mode = "local" /\ todo = <<>> /\ RelayTypeOK
BY DEF IInv, TypeOK, Lines

LEMMA SecAutoReturnedStep ==
    ASSUME IInv, SecAutoReturned
    PROVE  IInv'
<1>1. /\ at = "relay" /\ step = "idle" /\ mode = "local" /\ todo = <<>>
      /\ UNCHANGED <<mode, wxid, header, profile, scan, shown, named, verified, polls, late,
                     sinceQr, byCode>>
  BY InRound DEF SecAutoReturned, Returned
<1>2. CASE result = "ok"
  BY <1>1, <1>2, EmitPlain DEF SecAutoReturned
<1>3. CASE result = "fault"
  BY <1>1, <1>3, EmitPlain DEF SecAutoReturned
<1>4. CASE result \notin {"ok", "fault"}
  <2>1. at' = at /\ todo' = todo /\ EnsureInitThenRound("qr_get")
    BY <1>4 DEF SecAutoReturned
  <2> QED BY <1>1, <2>1, RoundStep
<1> QED BY <1>2, <1>3, <1>4

LEMMA RoundFailedStep ==
    ASSUME IInv, RoundFailed
    PROVE  IInv'
<1>1. /\ at = "relay" /\ step = "idle" /\ mode = "local" /\ RelayTypeOK
      /\ flow \in {"qr_get", "qr_check", "sec_manual_auth"} /\ result # "ok"
      /\ UNCHANGED <<rvars, mode, wxid, header, profile, scan, shown, named, verified, polls,
                     late, sinceQr, byCode>>
  BY InRound DEF RoundFailed, Returned
<1>3. CASE Emit(Error("api"))
  BY <1>1, <1>3, EmitError DEF Reasons
<1>4. CASE flow = "sec_manual_auth" /\ Emit(Error("login"))
  BY <1>1, <1>4, EmitError DEF Reasons
<1>5. CASE result # "error" /\ Emit(<<Notice(result)>>)
  <2>1. result # "canceled"
    BY <1>1 DEF RelayTypeOK, Errors
  <2>2. \E kind \in {"bot_error", "login_interrupted"} : Notice(result) = Plain(kind)
    BY <2>1 DEF Notice
  <2> QED BY <1>1, <1>5, <2>2, EmitPlain
<1> QED BY <1>3, <1>4, <1>5 DEF RoundFailed

LEMMA QrReturnedStep ==
    ASSUME IInv, QrReturned
    PROVE  IInv'
<1>1. step = "idle" /\ Shows
  BY DEF QrReturned, Returned, IInv, InSession
<1> QED BY <1>1, ShowCodeStep DEF QrReturned

LEMMA ManualAuthReturnedStep ==
    ASSUME IInv, ManualAuthReturned
    PROVE  IInv'
<1>1. /\ at = "relay" /\ step = "idle" /\ flow = "sec_manual_auth" /\ TypeOK
      /\ UNCHANGED <<rvars, mode, wxid, header, profile, scan, shown, named, verified, polls,
                     late, sinceQr, byCode>>
  BY DEF IInv, ManualAuthReturned, Returned
<1>2. scan.state = "confirmed"
  BY <1>1 DEF IInv, Scanned
<1>a. PICK nick \in Nicks : Emit(<<Event("success", scan.by, nick)>>)
  BY DEF ManualAuthReturned
<1>3. PICK e : e = Event("success", scan.by, nick)
  OBVIOUS
<1>4. e \in Ev /\ e.ev = "success" /\ e.of = scan.by /\ e.nick \in Nicks
  <2>1. nick \in Users \cup {NoOne}
    BY <1>1, NicksType
  <2>2. scan.by \in Users \cup {NoOne}
    BY <1>1 DEF TypeOK
  <2> QED BY <1>3, <2>1, <2>2, NamedEvent
<1>5. Typed'
  BY <1>1, TypedStays
<1>6. True(e)' /\ Fits(e)'
  BY <1>1, <1>2, <1>4 DEF True, Fits, Nicks, rvars
<1>7. Emit(<<e>>)
  BY <1>a, <1>3
<1> QED BY <1>1, <1>4, <1>5, <1>6, <1>7, EmitOne

LEMMA SleptInPollStep ==
    ASSUME IInv, SleptInPoll
    PROVE  IInv'
<1>1. /\ mode = "local" /\ at = "sleep" /\ step = "idle" /\ todo = <<>>
      /\ UNCHANGED <<mode, wxid, header, profile, scan, shown, named, verified, polls, late,
                     sinceQr, byCode>>
  BY DEF IInv, TypeOK, Lines, SleptInPoll
<1>2. Shows /\ flow = "qr_check"
  BY <1>1 DEF IInv, InSession, Rounds
<1>3. CASE late
  BY <1>1, <1>2, <1>3, EmitError DEF SleptInPoll, Reasons
<1>4. CASE ~late
  BY <1>1, <1>2, <1>4, RoundStep DEF SleptInPoll
<1> QED BY <1>3, <1>4

\* The status that ends a poll, if it is new, and the error it is reported as.
LEMMA LastStatusStep ==
    ASSUME IInv, step = "idle", mode = "local", flow = "qr_check", Shows,
           NEW state, NEW nick \in Nicks, NEW code \in {"api", "canceled"},
           code = "canceled" => scan.state = "canceled",
           shown' \in ScanStates, named' \in Nicks,
           Emit(StatusOf(state, nick) \o Error(code)),
           UNCHANGED <<rvars, mode, wxid, header, profile, scan, verified, polls, late,
                       sinceQr, byCode>>
    PROVE  IInv'
<1>1. PICK e, f : e = Event("status", NoOne, nick) /\ f = Event("error", code, NoOne)
  OBVIOUS
<1>2. /\ e \in Ev /\ e.ev = "status" /\ e.nick = nick
      /\ f \in Ev /\ f.ev = "error" /\ f.of = code /\ f.nick = NoOne
  <2>1. nick \in Users \cup {NoOne}
    BY NicksType DEF IInv
  <2>2. e \in Ev /\ e.ev = "status" /\ e.nick = nick
    BY <1>1, <2>1, NamedEvent
  <2>3. f \in Ev /\ f.ev = "error" /\ f.of = code /\ f.nick = NoOne
    BY <1>1, EventTypes DEF Reasons
  <2> QED BY <2>2, <2>3
<1>3. True(e)' /\ True(f)'
  BY <1>2 DEF True, Nicks
<1>4. Typed'
  BY DEF IInv, TypeOK, Scanned, Typed, Nicks
<1>5. CASE StatusOf(state, nick) = <<>>
  <2>1. Emit(<<f>>)
    BY <1>1, <1>2, <1>5, TwoEvents DEF Error
  <2>2. Fits(f)'
    BY <1>2 DEF Fits, rvars
  <2> QED BY <1>2, <1>3, <1>4, <2>1, <2>2, EmitOne
<1>6. CASE StatusOf(state, nick) = <<e>>
  <2> DEFINE s == <<e>> \o <<f>>
  <2>1. Emit(s)
    BY <1>1, <1>6 DEF Error
  <2>2. /\ s \in Seq(Ev) /\ s # <<>> /\ Len(s) = 2 /\ Head(s) = e /\ s[1] = e /\ s[2] = f
    BY <1>2, TwoEvents
  <2> HIDE DEF s
  <2>3. /\ \A i \in 1 .. Len(s) : i = 1 \/ i = 2
        /\ \A i \in 1 .. Len(s) - 1 : i = 1
    BY <2>2
  <2>4. ListOf(s)'
    <3>1. \A i \in 1 .. Len(s) : True(s[i])'
      BY <1>3, <2>2, <2>3 DEF True, Working, Nicks
    <3>2. \A i \in 1 .. Len(s) - 1 : s[i].ev \in Passing
      BY <1>2, <2>2, <2>3 DEF Passing
    <3>3. \A i \in 1 .. Len(s) : s[i].ev \in Streamed
      BY <1>2, <2>2, <2>3 DEF Streamed
    <3> QED BY <2>2, <3>1, <3>2, <3>3 DEF ListOf
  <2>5. TypeOK' /\ Scanned' /\ Opened'
    BY <1>4, <2>1, <2>2, <2>4, EmitList
  <2>6. todo' = s /\ at' = "emit" /\ step' = "idle" /\ mode' = "local" /\ flow' = "qr_check"
    BY <2>1 DEF Emit, rvars
  <2>7. Lines'
    <3>1. \A i \in 1 .. Len(s) : s[i].ev \notin {"poll", "verify_url", "warning"}
      BY <1>2, <2>2, <2>3
    <3>2. \A i \in 1 .. Len(s) - 1 : s[i].ev \in Passing
      BY <2>4 DEF ListOf
    <3>3. Len(s) = 2 /\ s[1].ev = "status" /\ s[2].ev = "error"
      BY <1>2, <2>2
    <3>4. \A i \in 1 .. Len(s) : s[i].ev \in Streamed
      BY <1>2, <2>2, <2>3 DEF Streamed
    <3> QED BY <2>6, <3>1, <3>2, <3>3, <3>4 DEF Lines
  <2>8. InSession'
    <3>1. Len(s) # 1
      BY <2>2
    <3> QED BY <1>2, <2>2, <2>6, <3>1 DEF InSession
  <2>9. Rounds'
    BY <1>2, <2>2, <2>6 DEF Rounds
  <2> QED BY <2>5, <2>7, <2>8, <2>9 DEF IInv
<1> QED BY <1>1, <1>5, <1>6 DEF StatusOf

LEMMA QrCheckedStep ==
    ASSUME IInv, QrChecked
    PROVE  IInv'
<1>1. /\ at = "relay" /\ step = "idle" /\ mode = "local" /\ todo = <<>> /\ TypeOK
      /\ flow = "qr_check" /\ result = "ok" /\ QrCheckAnswer
      /\ UNCHANGED <<rvars, mode, wxid, header, profile, scan, verified, polls, late,
                     sinceQr, byCode>>
  BY InRound DEF QrChecked, Returned, IInv
<1>2. Shows /\ named \in Nicks /\ shown \in ScanStates /\ Nicks \subseteq Users \cup {NoOne}
  BY <1>1 DEF IInv, TypeOK, InSession, Scanned, Nicks
<1>3. PICK nick \in Nicks :
        \/ /\ scan.state \in {"waiting", "scanned"}
           /\ shown' = scan.state /\ named' = nick
           /\ IF StatusOf(scan.state, nick) = <<>>
              THEN at' = "sleep" /\ todo' = todo
              ELSE Emit(StatusOf(scan.state, nick))
        \/ /\ scan.state = "confirmed"
           /\ shown' = "confirming" /\ named' = nick
           /\ Emit(StatusOf("confirming", nick) \o Error("api"))
        \/ /\ \/ /\ scan.state = "canceled"
                 /\ Emit(StatusOf("canceled", nick) \o Error("canceled"))
              \/ /\ scan.state = "confirmed"
                 /\ Emit(<<Event("confirming", NoOne,
                                IF nick = NoOne THEN named ELSE nick)>>)
              \/ Emit(Error("api"))
           /\ UNCHANGED <<shown, named>>
  BY <1>1 DEF QrCheckAnswer
<1>4. CASE scan.state \in {"waiting", "scanned"} /\ shown' = scan.state /\ named' = nick
           /\ at' = "sleep" /\ todo' = todo
  <2>1. shown' \in ScanStates /\ named' \in Users \cup {NoOne}
    BY <1>2, <1>4 DEF ScanStates
  <2>2. Lines'
    BY <1>1, <1>4, NoTodo DEF Lines, rvars
  <2>3. TypeOK'
    BY <1>1, <1>4, <2>1 DEF TypeOK, RelayTypeOK, MaxInitRetry, rvars
  <2>4. Scanned'
    BY <1>1, <1>4, NoTodo DEF IInv, Scanned, Nicks
  <2>5. Opened'
    BY <1>1 DEF IInv, Opened, rvars
  <2>6. InSession'
    BY <1>1, <1>2, <1>4, NoTodo DEF InSession, Shows, rvars
  <2>7. Rounds'
    BY <1>1, <1>4 DEF Rounds, rvars
  <2> QED BY <2>2, <2>3, <2>4, <2>5, <2>6, <2>7 DEF IInv
<1>5. CASE scan.state \in {"waiting", "scanned"} /\ shown' = scan.state /\ named' = nick
           /\ StatusOf(scan.state, nick) # <<>> /\ Emit(StatusOf(scan.state, nick))
  <2>1. PICK e : e = Event("status", NoOne, nick)
    OBVIOUS
  <2>2. e \in Ev /\ e.ev = "status" /\ e.nick = nick
    BY <1>2, <2>1, NamedEvent
  <2>3. Emit(<<e>>)
    BY <1>5, <2>1 DEF StatusOf
  <2>4. Typed'
    BY <1>1, <1>5 DEF IInv, Scanned, TypeOK, Typed, ScanStates, Nicks
  <2>5. True(e)'
    BY <1>1, <2>2 DEF True, Nicks
  <2>6. Fits(e)'
    BY <1>1, <1>2, <2>2 DEF Fits, Shows, rvars
  <2> QED BY <1>1, <2>2, <2>3, <2>4, <2>5, <2>6, EmitOne
<1>6. CASE \/ /\ scan.state = "confirmed" /\ shown' = "confirming" /\ named' = nick
              /\ Emit(StatusOf("confirming", nick) \o Error("api"))
           \/ /\ scan.state = "canceled" /\ shown' = shown /\ named' = named
              /\ Emit(StatusOf("canceled", nick) \o Error("canceled"))
  <2>1. shown' \in ScanStates /\ named' \in Nicks
    BY <1>2, <1>6 DEF ScanStates
  <2>2. CASE scan.state = "confirmed" /\ Emit(StatusOf("confirming", nick) \o Error("api"))
    BY <1>1, <1>2, <2>1, <2>2, LastStatusStep
  <2>3. CASE scan.state = "canceled" /\ Emit(StatusOf("canceled", nick) \o Error("canceled"))
    BY <1>1, <1>2, <2>1, <2>3, LastStatusStep
  <2> QED BY <1>6, <2>2, <2>3
<1>7. CASE /\ scan.state = "confirmed" /\ UNCHANGED <<shown, named>>
           /\ Emit(<<Event("confirming", NoOne, IF nick = NoOne THEN named ELSE nick)>>)
  <2>1. PICK n : n = IF nick = NoOne THEN named ELSE nick
    OBVIOUS
  <2>2. PICK e : e = Event("confirming", NoOne, n)
    OBVIOUS
  <2>3. n \in Nicks
    BY <1>2, <2>1
  <2>4. e \in Ev /\ e.ev = "confirming" /\ e.nick = n
    BY <1>2, <2>2, <2>3, NamedEvent
  <2>5. Typed'
    BY <1>1, <1>7, TypedStays
  <2>6. True(e)' /\ Fits(e)'
    BY <1>1, <1>2, <1>7, <2>3, <2>4 DEF True, Fits, Shows, rvars, Nicks
  <2>7. Emit(<<e>>)
    BY <1>7, <2>1, <2>2
  <2> QED BY <1>1, <1>7, <2>4, <2>5, <2>6, <2>7, EmitOne
<1>8. CASE UNCHANGED <<shown, named>> /\ Emit(Error("api"))
  BY <1>1, <1>8, EmitError DEF Reasons
<1> QED BY <1>3, <1>4, <1>5, <1>6, <1>7, <1>8

(***************************************************************************)
(* The environment.                                                        *)
(***************************************************************************)

LEMMA DeadlineStep ==
    ASSUME IInv, DeadlinePasses
    PROVE  IInv'
<1>1. /\ late' = TRUE
      /\ UNCHANGED <<rvars, mode, at, todo, wxid, header, profile, scan, shown, named,
                     verified, polls, sinceQr, byCode>>
  BY DEF DeadlinePasses
<1>2. TypeOK'
  BY <1>1 DEF IInv, TypeOK, RelayTypeOK, MaxInitRetry, rvars
<1>3. Scanned'
  BY <1>1 DEF IInv, Scanned, True, Working, rvars, Nicks
<1>4. Lines' /\ Opened' /\ InSession' /\ Rounds'
  BY <1>1 DEF IInv, Lines, Opened, InSession, Shows, Rounds, rvars
<1> QED BY <1>2, <1>3, <1>4 DEF IInv

\* A code moves on, and is confirmed or canceled by whoever scanned it.
LEMMA PhoneMoves ==
    ASSUME TypeOK, Scanned, Phone
    PROVE  /\ scan' \in [state : ScanStates, by : Users \cup {NoOne}]
           /\ scan.state \in {"waiting", "scanned"}
           /\ scan'.state \in {"scanned", "confirmed", "canceled", "expired"}
           /\ scan'.state \in {"scanned", "confirmed", "canceled"} => scan'.by # NoOne
           /\ at # "ended"
           /\ UNCHANGED <<rvars, mode, at, todo, wxid, header, profile, shown, named, verified,
                          polls, late, sinceQr, byCode>>
<1>1. scan \in [state : ScanStates, by : Users \cup {NoOne}]
      /\ (scan.state = "scanned" => scan.by # NoOne)
  BY DEF TypeOK, Scanned
<1>2. CASE \E u \in Users : scan.state = "waiting" /\ scan' = [state |-> "scanned", by |-> u]
  BY <1>2, LoginAssumption DEF ScanStates, Phone
<1>3. ASSUME NEW s \in {"confirmed", "canceled", "expired"},
             scan' = [scan EXCEPT !.state = s], scan.state \in {"waiting", "scanned"},
             s # "expired" => scan.state = "scanned"
      PROVE  /\ scan' \in [state : ScanStates, by : Users \cup {NoOne}]
             /\ scan'.state = s /\ scan'.by = scan.by
  BY <1>1, <1>3 DEF ScanStates
<1>4. CASE scan.state = "scanned"
           /\ scan' \in {[scan EXCEPT !.state = s] : s \in {"confirmed", "canceled"}}
  BY <1>1, <1>3, <1>4 DEF Phone
<1>5. CASE scan.state \in {"waiting", "scanned"} /\ scan' = [scan EXCEPT !.state = "expired"]
  BY <1>1, <1>3, <1>5 DEF Phone
<1> QED BY <1>2, <1>4, <1>5 DEF Phone

LEMMA PhoneStep ==
    ASSUME IInv, Phone
    PROVE  IInv'
<1>1. TypeOK /\ Lines /\ Scanned /\ Opened /\ InSession /\ Rounds
  BY DEF IInv
<1>2. /\ scan' \in [state : ScanStates, by : Users \cup {NoOne}]
      /\ scan.state \in {"waiting", "scanned"}
      /\ scan'.state \in {"scanned", "confirmed", "canceled", "expired"}
      /\ scan'.state \in {"scanned", "confirmed", "canceled"} => scan'.by # NoOne
      /\ at # "ended"
      /\ UNCHANGED <<rvars, mode, at, todo, wxid, header, profile, shown, named, verified,
                     polls, late, sinceQr, byCode>>
  BY <1>1, PhoneMoves
<1>3. (scan.state = "waiting" /\ scan.by = NoOne) \/ scan'.by = scan.by
  BY <1>1 DEF Phone, TypeOK, Scanned
<1>4. TypeOK'
  BY <1>1, <1>2 DEF TypeOK, RelayTypeOK, MaxInitRetry, rvars
<1>5. Lines' /\ Opened' /\ InSession'
  BY <1>1, <1>2 DEF Lines, Opened, InSession, Shows, rvars
<1>6. Scanned'
  <2>0. Nicks \subseteq Nicks'
    BY <1>1, <1>3 DEF Scanned, Nicks
  <2>1. ~Working /\ ~(scan.state \in {"confirmed", "canceled"})
    BY <1>2 DEF Working
  <2>2. \A i \in 1 .. Len(todo) : True(todo[i])'
    <3> SUFFICES ASSUME NEW i \in 1 .. Len(todo) PROVE True(todo[i])'
      OBVIOUS
    <3>1. True(todo[i])
      BY <1>1 DEF Scanned
    <3> QED BY <1>2, <2>0, <2>1, <3>1 DEF True
  <2> QED BY <1>1, <1>2, <2>0, <2>1, <2>2 DEF Scanned, rvars
<1>7. Rounds'
  BY <1>1, <1>2 DEF Rounds, rvars
<1> QED BY <1>4, <1>5, <1>6, <1>7 DEF IInv

(***************************************************************************)
(* The theorems.                                                           *)
(***************************************************************************)

LEMMA InitInvariant == Init => IInv
<1> SUFFICES ASSUME Init PROVE IInv
  OBVIOUS
<1>0. LoginAssumption
  BY LoginAssumption
<1>1. Len(todo) = 0 /\ todo = <<>> /\ todo \in Seq(Ev)
  BY NoEvent DEF Init
<1>2. /\ \A i \in 1 .. Len(todo) : FALSE
      /\ \A i \in 1 .. Len(todo) - 1 : FALSE
      /\ Len(todo) <= 1 /\ Len(todo) # 1
  BY <1>1
<1>3. RelayTypeOK
  <2>1. MaxInitRetry = 2 /\ RelayInit
    BY DEF Init, RelayInit, MaxInitRetry
  <2>2. attempt \in 0 .. MaxInitRetry
    BY <2>1 DEF RelayInit
  <2>3. session \in {NoSession, NewSession, [NewSession EXCEPT !.shows = TRUE]}
    BY <2>1 DEF RelayInit
  <2> QED BY <2>1, <2>2, <2>3 DEF RelayInit, RelayTypeOK, Flows
<1>4. scan \in [state : ScanStates, by : Users \cup {NoOne}]
  BY DEF Init, NoScan, ScanStates
<1>5. sinceQr \in 0 .. MaxReplay /\ polls \in 0 .. MaxPolls
  BY <1>0 DEF Init, LoginAssumption
<1>6. TypeOK
  BY <1>1, <1>3, <1>4, <1>5 DEF Init, TypeOK, ScanStates, Ev
<1>7. Lines /\ Scanned
  BY <1>1, <1>2 DEF Init, RelayInit, NoScan, Lines, Scanned, Nicks
<1>8. Opened /\ InSession /\ Rounds
  BY <1>1, <1>2 DEF Init, RelayInit, Opened, InSession, Rounds
<1> QED BY <1>6, <1>7, <1>8 DEF IInv

\* A stuttering step leaves the invariant alone.
LEMMA StutterStep ==
    ASSUME IInv, UNCHANGED vars
    PROVE  IInv'
<1>1. UNCHANGED <<rvars, mode, at, todo, wxid, header, profile, scan, shown, named, verified,
                  polls, late, sinceQr, byCode>>
  BY DEF vars, bvars
<1>2. TypeOK' /\ Scanned'
  BY <1>1 DEF IInv, TypeOK, RelayTypeOK, MaxInitRetry, rvars, Scanned, True, Working,
               Nicks
<1>3. Lines' /\ Opened' /\ InSession' /\ Rounds'
  BY <1>1 DEF IInv, Lines, Opened, InSession, Shows, Rounds, rvars
<1> QED BY <1>2, <1>3 DEF IInv

LEMMA NextInvariant == IInv /\ [Next]_vars => IInv'
BY DeliverStep, BeginStep, RetryStep, SecAutoLoginStep, GetQrCodeStep, CheckStep,
   TimeoutInPollStep, RelayRunsStep, SecAutoReturnedStep, RoundFailedStep, QrReturnedStep,
   QrCheckedStep, ManualAuthReturnedStep, SleptInPollStep, TimeoutInEmitStep,
   GiveUpStep, GoOfflineStep, DeadlineStep, PhoneStep, StutterStep
   DEF Next, BotStep

LEMMA Invariant == Spec => []IInv
BY InitInvariant, NextInvariant, PTL DEF Spec

\* Every variable of Login and RelayClient keeps its type (LoginService,
\* RelayLoginService and RelayClient, whatever LwApi, WeChat and the phone do).
THEOREM TypeCorrect == Spec => []TypeOK
<1>1. IInv => TypeOK
  BY DEF IInv
<1> QED BY <1>1, Invariant, PTL

\* A code is polled and its login completed in the session in which it was
\* fetched, unless LwApi called that session expired (biz_round, ensure_init).
THEOREM CodeStaysInSession == Spec => []CodeKeepsItsSession
<1>1. IInv => CodeKeepsItsSession
  BY DEF IInv, InSession, Shows, CodeKeepsItsSession
<1> QED BY <1>1, Invariant, PTL

\* A bot that logged in by code works as whoever confirmed it: the header of its
\* requests and the saved wxid are that user's (LoginService.login and
\* RelayLoginService.login).
THEOREM WorksAsScanner == Spec => []OnlineAsScanner
<1>1. IInv => OnlineAsScanner
  BY DEF IInv, Scanned, Working, OnlineAsScanner
<1> QED BY <1>1, Invariant, PTL

\* What is published first.
LEMMA FirstEvent ==
    ASSUME TypeOK, at = "emit"
    PROVE  1 \in 1 .. Len(todo) /\ Head(todo) = todo[1] /\ todo[1] \in Ev /\ Len(todo) \in Nat
<1>1. todo \in Seq(Ev) /\ todo # <<>>
  BY DEF TypeOK, Ev
<1>2. Len(todo) \in Nat /\ Len(todo) # 0
  BY <1>1, EmptySeq, LenProperties
<1>3. 1 \in 1 .. Len(todo) /\ Len(todo) >= 1
  BY <1>2
<1> QED BY <1>1, <1>2, <1>3, HeadTailProperties, ElementOfSeq

\* The row's nickname is replaced only by that of whoever scanned the code on
\* show: every event that carries one is his, and one without leaves the row's
\* alone (emit of _run_single_bot, _merge_account_profile).
THEOREM NicknamesAreScanners == Spec => NicknameOfScanner
<1> DEFINE Right == profile' # profile => scan.by # NoOne /\ profile' = scan.by
<1>1. ASSUME IInv, Next PROVE Right
  <2>1. ASSUME at = "emit", Publish(Head(todo)) PROVE Right
    <3>1. 1 \in 1 .. Len(todo) /\ Head(todo) = todo[1]
      BY <1>1, <2>1, FirstEvent DEF IInv
    <3>2. True(Head(todo))
      BY <1>1, <3>1 DEF IInv, Scanned
    <3>3. Head(todo).nick \in {NoOne, scan.by}
      BY <3>2 DEF True, Nicks
    <3> QED BY <2>1, <3>3 DEF Publish
  <2>2. CASE Deliver
    BY <2>1, <2>2 DEF Deliver
  <2>3. CASE TimeoutInEmit
    BY <2>1, <2>3 DEF TimeoutInEmit
  <2>4. CASE ~Deliver /\ ~TimeoutInEmit
    <3>1. profile' = profile
      BY <1>1, <2>4
         DEF Next, BotStep, Begin, RetryAfterSleep, SecAutoLogin, GetQrCode, ShowCode, Check,
             TimeoutInPoll, PollAgain, RelayRuns, SecAutoReturned, RoundFailed, QrReturned,
             QrChecked, ManualAuthReturned, SleptInPoll, GiveUp, GoOffline, DeadlinePasses,
             Phone, bvars
    <3> QED BY <3>1
  <2> QED BY <2>2, <2>3, <2>4
<1>2. IInv /\ [Next]_vars => [Right]_vars
  BY <1>1
<1> QED BY <1>2, Invariant, PTL DEF Spec, NicknameOfScanner

\* A login ends its bot for good only after a cancel on the phone: no other answer
\* of LwApi or WeChat leads to login_canceled.  The bot that a timeout kills while
\* it publishes and the one whose listener gives up are other ends (the loop of
\* _run_single_bot).
THEOREM CancelEnds == Spec => []EndsByCancel
<1>1. IInv => EndsByCancel
  BY DEF IInv, Scanned, EndsByCancel
<1> QED BY <1>1, Invariant, PTL

(***************************************************************************)
(* The promise: each step tells on the story of LoginStory, or changes     *)
(* nothing of it.                                                          *)
(***************************************************************************)

Told(before, after) ==
    \/ before = after
    \/ before = "trying" /\ after \in {"online", "code", "failed"}
    \/ before = "code" /\ after \in {"online", "failed", "ended"}
    \/ before = "failed" /\ after = "trying"
    \/ before = "online" /\ after \in {"failed", "ended"}

\* What Story is, by where the bot is and what it publishes.
Tale(a, kind, f, m) ==
    CASE \/ a \in {"check", "sleep"}
         \/ a = "relay" /\ f \in {"qr_check", "sec_manual_auth"}
         \/ a = "emit" /\ kind \in Streamed /\ (m = "remote" \/ f # "qr_get") -> "code"
      [] a = "online" \/ (a = "emit" /\ kind = "login_saved") -> "online"
      [] \/ a \in {"ended", "killed", "stopped"}
         \/ a = "emit" /\ kind \in {"login_canceled", "bot_stopped"} -> "ended"
      [] a = "retrySleep" \/ (a = "emit" /\ kind \in {"bot_error", "login_interrupted"})
            -> "failed"
      [] OTHER -> "trying"

LEMMA StoryIsTale ==
    /\ Story = Tale(at, Head(todo).ev, flow, mode)
    /\ Story' = Tale(at', Head(todo').ev, flow', mode')
BY DEF Story, Tale, CodeOnShow, Publishing

LEMMA TaleOfEmit ==
    ASSUME NEW kind, NEW f, NEW m
    PROVE  /\ kind \in Streamed => Tale("emit", kind, f, m) \in {"code", "trying"}
           /\ kind \in Streamed /\ (m = "remote" \/ f # "qr_get") =>
                  Tale("emit", kind, f, m) = "code"
           /\ kind = "login_saved" => Tale("emit", kind, f, m) = "online"
           /\ kind \in {"login_canceled", "bot_stopped"} => Tale("emit", kind, f, m) = "ended"
           /\ kind \in {"bot_error", "login_interrupted"} => Tale("emit", kind, f, m) = "failed"
           /\ kind \in {"qr_ready", "sec_auto_ok"} => Tale("emit", kind, f, m) = "trying"
BY DEF Tale, Streamed

LEMMA TaleElsewhere ==
    ASSUME NEW kind, NEW f, NEW m
    PROVE  /\ \A a \in {"check", "sleep"} : Tale(a, kind, f, m) = "code"
           /\ f \in {"qr_check", "sec_manual_auth"} => Tale("relay", kind, f, m) = "code"
           /\ f \in {"qr_get", "sec_auto_auth"} => Tale("relay", kind, f, m) = "trying"
           /\ \A a \in {"start", "secAuto", "getQr"} : Tale(a, kind, f, m) = "trying"
           /\ Tale("online", kind, f, m) = "online"
           /\ \A a \in {"ended", "killed", "stopped"} : Tale(a, kind, f, m) = "ended"
           /\ Tale("retrySleep", kind, f, m) = "failed"
BY DEF Tale

\* A single event is published.
LEMMA TaleOfOne ==
    ASSUME NEW e \in Ev, Emit(<<e>>), UNCHANGED <<rvars, mode>>
    PROVE  Story' = Tale("emit", e.ev, flow, mode)
<1>1. Story' = Tale(at', Head(todo').ev, flow', mode')
  BY StoryIsTale
<1> QED BY <1>1, OneEvent DEF Emit, rvars

\* What is published of a code on show belongs to it.
LEMMA DeliverTold ==
    ASSUME IInv, Deliver
    PROVE  Told(Story, Story')
<1>1. /\ TypeOK /\ Lines /\ Scanned /\ Rounds /\ at = "emit" /\ step = "idle"
      /\ flow \in Flows /\ mode \in {"local", "remote"}
  BY DEF IInv, Deliver, Lines, TypeOK, RelayTypeOK
<1>2. PICK e : e = todo[1]
  OBVIOUS
<1>3. /\ 1 \in 1 .. Len(todo) /\ Head(todo) = e /\ e \in Ev /\ Len(todo) \in Nat
      /\ todo # <<>>
  BY <1>1, <1>2, FirstEvent DEF TypeOK
<1>4. /\ Story = Tale("emit", e.ev, flow, mode)
      /\ Story' = Tale(at', Head(todo').ev, flow', mode')
      /\ mode' = mode
  BY <1>1, <1>3, StoryIsTale DEF Deliver
<1>5. mode = "local" =>
         /\ e.ev \notin {"poll", "verify_url", "warning"}
         /\ e.ev \in {"status", "confirming"} => flow = "qr_check"
         /\ e.ev = "error" /\ flow = "qr_get" => e.of = "api"
  BY <1>1, <1>2, <1>3 DEF Lines, Rounds
<1>6. ASSUME Len(todo) > 1 PROVE Told(Story, Story')
  <2>0. \A n \in Nat : n > 1 => ~(n = 1) /\ 2 \in 1 .. n
    OBVIOUS
  <2>1. /\ ~(Len(todo) = 1) /\ 2 \in 1 .. Len(todo)
    BY <1>3, <1>6, <2>0
  <2>2. /\ e.ev \in Passing /\ todo' \in Seq(Ev) /\ todo' # <<>>
        /\ Len(todo') = Len(todo) - 1
        /\ \A i \in 1 .. Len(todo') : todo'[i] = todo[i + 1]
        /\ UNCHANGED <<rvars, at>>
    BY <1>1, <1>2, <2>1, DeliverCases
  <2>3. Head(todo') = todo[2]
    <3>1. 1 \in 1 .. Len(todo') /\ 1 + 1 = 2
      BY <1>3, <1>6, <2>2
    <3>2. todo'[1] = todo[1 + 1]
      BY <2>2, <3>1
    <3> QED BY <2>2, <3>1, <3>2, HeadTailProperties
  <2>4. Head(todo').ev \in Streamed
    BY <1>1, <2>1, <2>3 DEF Lines
  <2>5. mode = "remote" \/ flow # "qr_get"
    BY <1>1, <1>5, <2>2 DEF Passing
  <2>6. Story = "code" /\ Story' = "code"
    BY <1>1, <1>4, <2>2, <2>4, <2>5, TaleOfEmit DEF Passing, Streamed, rvars
  <2> QED BY <2>6 DEF Told
<1>7. ASSUME Len(todo) = 1, Follow(e) # <<>> PROVE Told(Story, Story')
  <2>1. ~(Len(todo) > 1)
    BY <1>7, 1 > 1 <=> FALSE
  <2>2. todo' = Follow(e) /\ UNCHANGED <<rvars, at>>
    BY <1>1, <1>2, <1>7, <2>1, DeliverCases
  <2>3. PICK f : f = IF e.ev = "error" THEN Notice(e.of) ELSE Plain("login_saved")
    OBVIOUS
  <2>4. e.ev \in {"success", "sec_auto_ok", "error"} /\ Follow(e) = <<f>>
    BY <1>7, <2>3 DEF Follow
  <2>5. f \in Ev /\ Head(todo') = f
    <3>1. f \in Ev
      BY <2>3, EventTypes, NoticeType DEF Kinds, Streamed
    <3> QED BY <2>2, <2>4, <3>1, OneEvent
  <2>6. Story' = Tale("emit", f.ev, flow, mode)
    BY <1>1, <1>4, <2>2, <2>5 DEF rvars
  <2>7. CASE e.ev = "error"
    <3>1. f.ev \in {"login_canceled", "login_interrupted", "bot_error"}
          /\ (f.ev = "login_canceled" <=> e.of = "canceled")
      BY <2>3, <2>7, NoticeType
    <3>2. CASE mode = "remote" \/ flow # "qr_get"
      <4>1. Story = "code"
        BY <1>4, <2>7, <3>2, TaleOfEmit DEF Streamed
      <4>2. Story' \in {"ended", "failed"}
        BY <2>6, <3>1, TaleOfEmit
      <4> QED BY <4>1, <4>2 DEF Told
    <3>3. CASE mode = "local" /\ flow = "qr_get"
      <4>1. Story \in {"code", "trying"}
        BY <1>4, <2>7, TaleOfEmit DEF Streamed
      <4>2. Story' = "failed"
        BY <1>5, <2>6, <2>7, <3>1, <3>3, TaleOfEmit
      <4> QED BY <4>1, <4>2 DEF Told
    <3> QED BY <1>1, <3>2, <3>3
  <2>8. CASE e.ev # "error"
    <3>1. Story' = "online"
      BY <2>3, <2>6, <2>8, EventTypes, TaleOfEmit
    <3>2. Story \in {"code", "trying"}
      BY <1>4, <2>4, <2>8, TaleOfEmit DEF Streamed
    <3> QED BY <3>1, <3>2 DEF Told
  <2> QED BY <2>7, <2>8
<1>8. ASSUME Len(todo) = 1, Follow(e) = <<>> PROVE Told(Story, Story')
  <2>1. ~(Len(todo) > 1)
    BY <1>8, 1 > 1 <=> FALSE
  <2>2. Go(e)
    BY <1>1, <1>2, <1>8, <2>1, DeliverCases
  <2>3. e.ev \in Kinds /\ e.ev \notin {"success", "sec_auto_ok", "error"}
    BY <1>3, <1>8, OneEvent DEF Follow, Ev
  <2>4. CASE e.ev = "qr_ready"
    <3>1. at' \in {"relay", "check"} /\ (at' = "relay" => flow' = "qr_check")
      BY <2>2, <2>4 DEF Go, Round, Call
    <3>2. Story = "trying" /\ Story' = "code"
      BY <1>4, <2>4, <3>1, TaleOfEmit, TaleElsewhere
    <3> QED BY <3>2 DEF Told
  <2>5. CASE e.ev = "confirming"
    <3>1. at' = "relay" /\ flow' = "sec_manual_auth"
      BY <2>2, <2>5 DEF Go, Round, Call
    <3>2. Story \in {"code", "trying"} /\ Story' = "code"
      BY <1>4, <2>5, <3>1, TaleOfEmit, TaleElsewhere DEF Streamed
    <3> QED BY <3>2 DEF Told
  <2>6. CASE e.ev = "login_saved"
    <3>1. at' = "online"
      BY <2>2, <2>6 DEF Go
    <3>2. Story = "online" /\ Story' = "online"
      BY <1>4, <2>6, <3>1, TaleOfEmit, TaleElsewhere
    <3> QED BY <3>2 DEF Told
  <2>7. CASE e.ev = "login_canceled"
    <3>1. at' = "ended"
      BY <2>2, <2>7 DEF Go
    <3>2. Story = "ended" /\ Story' = "ended"
      BY <1>4, <2>7, <3>1, TaleOfEmit, TaleElsewhere
    <3> QED BY <3>2 DEF Told
  <2>10. CASE e.ev = "bot_stopped"
    <3>1. at' = "stopped"
      BY <2>2, <2>10 DEF Go
    <3>2. Story = "ended" /\ Story' = "ended"
      BY <1>4, <2>10, <3>1, TaleOfEmit, TaleElsewhere
    <3> QED BY <3>2 DEF Told
  <2>8. CASE e.ev \in {"login_interrupted", "bot_error"}
    <3>1. at' = "retrySleep"
      BY <2>2, <2>8 DEF Go
    <3>2. Story = "failed" /\ Story' = "failed"
      BY <1>4, <2>8, <3>1, TaleOfEmit, TaleElsewhere
    <3> QED BY <3>2 DEF Told
  <2>9. CASE e.ev \in {"poll", "verify_url", "status", "warning"}
    <3>1. at' = "sleep"
      BY <2>2, <2>9 DEF Go
    <3>2. Story \in {"code", "trying"} /\ Story' = "code"
      BY <1>4, <2>9, <3>1, TaleOfEmit, TaleElsewhere DEF Streamed
    <3> QED BY <3>2 DEF Told
  <2> QED BY <2>3, <2>4, <2>5, <2>6, <2>7, <2>8, <2>9, <2>10 DEF Kinds, Streamed
<1>9. Len(todo) > 1 \/ Len(todo) = 1
  <2>1. \A n \in Nat : 1 \in 1 .. n => n > 1 \/ n = 1
    OBVIOUS
  <2> QED BY <1>3, <2>1
<1> QED BY <1>2, <1>6, <1>7, <1>8, <1>9

\* An error of a poll is published of the code on show, a notice ends the try.
LEMMA SingleTale ==
    ASSUME UNCHANGED <<rvars, mode>>
    PROVE  /\ \A code \in Reasons : Emit(Error(code)) => Story' = Tale("emit", "error", flow, mode)
           /\ \A kind \in Kinds : Emit(<<Plain(kind)>>) => Story' = Tale("emit", kind, flow, mode)
           /\ \A kind \in Kinds, u, n \in Users \cup {NoOne} :
                 Emit(<<Event(kind, u, n)>>) => Story' = Tale("emit", kind, flow, mode)
<1>1. \A code \in Reasons : Emit(Error(code)) => Story' = Tale("emit", "error", flow, mode)
  BY TaleOfOne, EventTypes DEF Error
<1>2. \A kind \in Kinds : Emit(<<Plain(kind)>>) => Story' = Tale("emit", kind, flow, mode)
  BY TaleOfOne, EventTypes
<1>3. ASSUME NEW kind \in Kinds, NEW u \in Users \cup {NoOne}, NEW n \in Users \cup {NoOne},
             Emit(<<Event(kind, u, n)>>)
      PROVE  Story' = Tale("emit", kind, flow, mode)
  <2>1. Event(kind, u, n) \in Ev /\ Event(kind, u, n).ev = kind
    BY EventTypes
  <2> QED BY <1>3, <2>1, TaleOfOne
<1> QED BY <1>1, <1>2, <1>3

\* Before a code is shown, and after.
LEMMA OtherTold ==
    ASSUME IInv,
           \/ Begin \/ RetryAfterSleep \/ PollAgain \/ SecAutoLogin \/ GetQrCode
           \/ TimeoutInPoll \/ TimeoutInEmit \/ GoOffline \/ GiveUp
    PROVE  Told(Story, Story')
<1>1. /\ Story = Tale(at, Head(todo).ev, flow, mode)
      /\ Story' = Tale(at', Head(todo').ev, flow', mode')
      /\ TypeOK
  BY StoryIsTale DEF IInv
<1>2. CASE Begin
  <2>1. at = "start" /\ (at' \in {"getQr", "secAuto"}
                         \/ (at' = "relay" /\ flow' \in {"qr_get", "sec_auto_auth"}))
    BY <1>2 DEF Begin, Call
  <2>2. Story = "trying" /\ Story' = "trying"
    BY <1>1, <2>1, TaleElsewhere
  <2> QED BY <2>2 DEF Told
<1>3. CASE RetryAfterSleep
  <2>1. Story = "failed" /\ Story' = "trying"
    BY <1>1, <1>3, TaleElsewhere DEF RetryAfterSleep
  <2> QED BY <2>1 DEF Told
<1>4. CASE PollAgain
  <2>1. Story = "code" /\ Story' = "code"
    BY <1>1, <1>4, TaleElsewhere DEF PollAgain
  <2> QED BY <2>1 DEF Told
<1>5. CASE SecAutoLogin
  <2>1. Story = "trying"
    BY <1>1, <1>5, TaleElsewhere DEF SecAutoLogin
  <2>2. CASE at' = "getQr"
    <3>1. Story' = "trying"
      BY <1>1, <2>2, TaleElsewhere
    <3> QED BY <2>1, <3>1 DEF Told
  <2>3. CASE Emit(<<Plain("sec_auto_ok")>>) \/ Emit(<<Plain("bot_error")>>)
    <3>1. Story' \in {"trying", "failed"}
      BY <1>5, <2>3, SingleTale, TaleOfEmit DEF SecAutoLogin, Kinds
    <3> QED BY <2>1, <3>1 DEF Told
  <2> QED BY <1>5, <2>2, <2>3 DEF SecAutoLogin
<1>6. CASE GetQrCode
  <2>1. Story = "trying"
    BY <1>1, <1>6, TaleElsewhere DEF GetQrCode
  <2>2. /\ Emit(<<Plain("qr_ready")>>) \/ Emit(<<Plain("bot_error")>>)
        /\ UNCHANGED <<rvars, mode>>
    BY <1>6 DEF GetQrCode, ShowCode
  <2>3. Story' \in {"trying", "failed"}
    BY <2>2, SingleTale, TaleOfEmit DEF Kinds
  <2> QED BY <2>1, <2>3 DEF Told
<1>7. CASE TimeoutInPoll
  <2>1. mode = "remote" /\ Story = "code"
    BY <1>1, <1>7, TaleElsewhere DEF TimeoutInPoll
  <2>2. Story' = Tale("emit", "error", flow, mode)
    BY <1>7, SingleTale DEF TimeoutInPoll, Reasons
  <2>3. Story' = "code"
    BY <2>1, <2>2, TaleOfEmit DEF Streamed
  <2> QED BY <2>1, <2>3 DEF Told
<1>8. CASE TimeoutInEmit
  <2>1. Story = "code" /\ Story' = "ended"
    BY <1>1, <1>8, TaleOfEmit, TaleElsewhere DEF TimeoutInEmit
  <2> QED BY <2>1 DEF Told
<1>9. CASE GoOffline
  <2>1. Story = "online"
    BY <1>1, <1>9, TaleElsewhere DEF GoOffline
  <2>2. Story' = "failed"
    BY <1>9, SingleTale, TaleOfEmit DEF GoOffline, Kinds
  <2> QED BY <2>1, <2>2 DEF Told
<1>10. CASE GiveUp
  <2>1. Story = "online"
    BY <1>1, <1>10, TaleElsewhere DEF GiveUp
  <2>2. Story' = "ended"
    BY <1>10, SingleTale, TaleOfEmit DEF GiveUp, Kinds
  <2> QED BY <2>1, <2>2 DEF Told
<1> QED BY <1>2, <1>3, <1>4, <1>5, <1>6, <1>7, <1>8, <1>9, <1>10

\* A poll in remote mode.
LEMMA CheckTold ==
    ASSUME IInv, Check
    PROVE  Told(Story, Story')
<1>1. IInv' /\ at' = "emit" /\ mode' = "remote" /\ todo' # <<>> /\ AllStreamed(todo)'
  BY CheckStep
<1>2. 1 \in 1 .. Len(todo') /\ Head(todo') = todo'[1]
  <2>1. todo' \in Seq(Ev)
    BY <1>1 DEF IInv, TypeOK, Ev
  <2>2. Len(todo') \in Nat /\ Len(todo') # 0
    BY <1>1, <2>1, EmptySeq, LenProperties
  <2> QED BY <1>1, <2>1, <2>2, HeadTailProperties
<1>3. Head(todo').ev \in Streamed
  BY <1>1, <1>2 DEF AllStreamed
<1>4. Story' = "code"
  BY <1>1, <1>3, StoryIsTale, TaleOfEmit
<1>5. Story = "code"
  BY StoryIsTale, TaleElsewhere DEF Check
<1> QED BY <1>4, <1>5 DEF Told

\* Local mode.
LEMMA LocalTold ==
    ASSUME IInv,
           \/ RelayRuns \/ SecAutoReturned \/ RoundFailed \/ QrReturned \/ QrChecked
           \/ ManualAuthReturned \/ SleptInPoll
    PROVE  Told(Story, Story')
<1>1. /\ Story = Tale(at, Head(todo).ev, flow, mode)
      /\ Story' = Tale(at', Head(todo').ev, flow', mode')
      /\ TypeOK
  BY StoryIsTale DEF IInv
<1>2. CASE RelayRuns
  <2>1. at = "relay" /\ at' = "relay" /\ flow' = flow /\ flow \in Flows
    BY <1>1, <1>2, RelayTypeStep DEF IInv, TypeOK, RelayRuns, RelayTypeOK
  <2>2. Story = Story'
    BY <1>1, <2>1, TaleElsewhere DEF Flows
  <2> QED BY <2>2 DEF Told
<1>3. CASE SecAutoReturned
  <2>1. at = "relay" /\ flow = "sec_auto_auth" /\ Story = "trying" /\ mode' = mode
    BY <1>1, <1>3, TaleElsewhere DEF SecAutoReturned, Returned
  <2>2. CASE (Emit(<<Plain("sec_auto_ok")>>) \/ Emit(<<Plain("bot_error")>>)) /\ UNCHANGED rvars
    <3>1. Story' \in {"trying", "failed"}
      BY <2>1, <2>2, SingleTale, TaleOfEmit DEF Kinds
    <3> QED BY <2>1, <3>1 DEF Told
  <2>3. CASE at' = at /\ EnsureInitThenRound("qr_get")
    <3>1. at' = "relay" /\ flow' = "qr_get"
      BY <2>1, <2>3 DEF EnsureInitThenRound, Call
    <3>2. Story' = "trying"
      BY <1>1, <3>1, TaleElsewhere
    <3> QED BY <2>1, <3>2 DEF Told
  <2> QED BY <1>3, <2>2, <2>3 DEF SecAutoReturned
<1>4. CASE RoundFailed
  <2>1. /\ at = "relay" /\ flow \in {"qr_get", "qr_check", "sec_manual_auth"}
        /\ result \in {"none", "error"} \cup Errors /\ UNCHANGED <<rvars, mode>>
    BY <1>1, <1>4 DEF RoundFailed, Returned, TypeOK, RelayTypeOK
  <2>2. Story = IF flow = "qr_get" THEN "trying" ELSE "code"
    BY <1>1, <2>1, TaleElsewhere
  <2>3. CASE Emit(Error("api")) \/ Emit(Error("login"))
    <3>1. Story' = Tale("emit", "error", flow, mode)
      BY <2>1, <2>3, SingleTale DEF Reasons
    <3>2. Story' \in {"code", "trying"} /\ (flow # "qr_get" => Story' = "code")
      BY <3>1, TaleOfEmit DEF Streamed
    <3> QED BY <2>2, <3>2 DEF Told
  <2>4. CASE Emit(<<Notice(result)>>)
    <3>1. result # "canceled"
      BY <2>1 DEF Errors
    <3>2. \E kind \in {"bot_error", "login_interrupted"} : Notice(result) = Plain(kind)
      BY <3>1 DEF Notice
    <3>3. Story' = "failed"
      BY <2>1, <2>4, <3>2, SingleTale, TaleOfEmit DEF Kinds
    <3> QED BY <2>2, <3>3 DEF Told
  <2> QED BY <1>4, <2>3, <2>4 DEF RoundFailed
<1>5. CASE QrReturned
  <2>1. at = "relay" /\ flow = "qr_get" /\ Story = "trying"
    BY <1>1, <1>5, TaleElsewhere DEF QrReturned, Returned
  <2>2. Story' = "trying"
    BY <1>5, SingleTale, TaleOfEmit DEF QrReturned, ShowCode, Kinds
  <2> QED BY <2>1, <2>2 DEF Told
<1>6. CASE QrChecked
  <2>1. /\ at = "relay" /\ flow = "qr_check" /\ Story = "code" /\ QrCheckAnswer
        /\ UNCHANGED <<rvars, mode>> /\ scan.by \in Users \cup {NoOne}
    BY <1>1, <1>6, TaleElsewhere DEF QrChecked, Returned, TypeOK
  <2>2. ASSUME at' = "sleep" PROVE Told(Story, Story')
    <3>1. Story' = "code"
      BY <1>1, <2>2, TaleElsewhere
    <3> QED BY <2>1, <3>1 DEF Told
  <2>3. ASSUME NEW kind \in Streamed, Story' = Tale("emit", kind, flow, mode)
        PROVE  Told(Story, Story')
    <3>1. Story' = "code"
      BY <2>1, <2>3, TaleOfEmit
    <3> QED BY <2>1, <3>1 DEF Told
  <2>4. PICK nick \in Nicks :
           \/ at' = "sleep"
           \/ Emit(Error("api"))
           \/ Emit(<<Event("confirming", NoOne, IF nick = NoOne THEN named ELSE nick)>>)
           \/ /\ StatusOf(scan.state, nick) # <<>>
              /\ Emit(StatusOf(scan.state, nick))
           \/ \E state \in ScanStates, code \in {"api", "canceled"} :
                 Emit(StatusOf(state, nick) \o Error(code))
    BY <2>1 DEF QrCheckAnswer, ScanStates
  <2>5. nick \in Users \cup {NoOne} /\ named \in Users \cup {NoOne}
    BY <1>1, <2>1 DEF Nicks, TypeOK
  <2>6. CASE Emit(Error("api"))
    BY <2>1, <2>3, <2>6, SingleTale DEF Reasons, Streamed
  <2>7. CASE Emit(<<Event("confirming", NoOne, IF nick = NoOne THEN named ELSE nick)>>)
    <3>1. PICK n \in Users \cup {NoOne} : n = IF nick = NoOne THEN named ELSE nick
      BY <2>5
    <3>2. Emit(<<Event("confirming", NoOne, n)>>)
      BY <2>7, <3>1
    <3>3. Story' = Tale("emit", "confirming", flow, mode)
      BY <2>1, <3>2, SingleTale DEF Kinds, Streamed
    <3> QED BY <2>3, <3>3 DEF Streamed
  <2>8. CASE StatusOf(scan.state, nick) # <<>> /\ Emit(StatusOf(scan.state, nick))
    <3>1. Emit(<<Event("status", NoOne, nick)>>)
      BY <2>8 DEF StatusOf
    <3>2. Story' = Tale("emit", "status", flow, mode)
      BY <2>1, <2>5, <3>1, SingleTale DEF Kinds, Streamed
    <3> QED BY <2>3, <3>2 DEF Streamed
  <2>9. ASSUME NEW state \in ScanStates, NEW code \in {"api", "canceled"},
               Emit(StatusOf(state, nick) \o Error(code))
        PROVE  Told(Story, Story')
    <3>1. PICK e, f : e = Event("status", NoOne, nick) /\ f = Event("error", code, NoOne)
      OBVIOUS
    <3>2. e \in Ev /\ e.ev = "status" /\ f \in Ev /\ f.ev = "error"
      BY <2>5, <3>1, EventTypes DEF Kinds, Streamed, Reasons
    <3>3. StatusOf(state, nick) = <<>> \/ StatusOf(state, nick) = <<e>>
      BY <3>1 DEF StatusOf
    <3>4. CASE StatusOf(state, nick) = <<>>
      <4>1. Emit(Error(code))
        BY <2>9, <3>1, <3>2, <3>4, TwoEvents DEF Error
      <4> QED BY <2>1, <2>3, <4>1, SingleTale DEF Reasons, Streamed
    <3>5. CASE StatusOf(state, nick) = <<e>>
      <4>1. Emit(<<e>> \o <<f>>)
        BY <2>9, <3>1, <3>5 DEF Error
      <4>2. Head(todo') = e /\ at' = "emit"
        BY <3>2, <4>1, TwoEvents DEF Emit
      <4>3. Story' = Tale("emit", "status", flow, mode)
        BY <1>1, <2>1, <3>2, <4>2 DEF rvars
      <4> QED BY <2>3, <4>3 DEF Streamed
    <3> QED BY <3>3, <3>4, <3>5
  <2> QED BY <2>2, <2>4, <2>6, <2>7, <2>8, <2>9
<1>7. CASE ManualAuthReturned
  <2>1. at = "relay" /\ flow = "sec_manual_auth" /\ Story = "code"
    BY <1>1, <1>7, TaleElsewhere DEF ManualAuthReturned, Returned
  <2>2. Story' = Tale("emit", "success", flow, mode)
    <3>1. PICK nick \in Nicks : Emit(<<Event("success", scan.by, nick)>>)
      BY <1>7 DEF ManualAuthReturned
    <3>2. scan.by \in Users \cup {NoOne} /\ nick \in Users \cup {NoOne}
      BY <1>1 DEF TypeOK, Nicks
    <3> QED BY <1>7, <3>1, <3>2, SingleTale DEF ManualAuthReturned, Kinds, Streamed
  <2>3. Story' = "code"
    BY <2>1, <2>2, TaleOfEmit DEF Streamed
  <2> QED BY <2>1, <2>3 DEF Told
<1>8. CASE SleptInPoll
  <2>1. mode = "local" /\ at = "sleep" /\ flow = "qr_check" /\ Story = "code" /\ mode' = mode
    BY <1>1, <1>8, TaleElsewhere DEF SleptInPoll, IInv, Rounds
  <2>2. CASE late
    <3>1. Story' = Tale("emit", "error", flow, mode)
      BY <1>8, <2>1, <2>2, SingleTale DEF SleptInPoll, Reasons
    <3>2. Story' = "code"
      BY <2>1, <3>1, TaleOfEmit DEF Streamed
    <3> QED BY <2>1, <3>2 DEF Told
  <2>3. CASE ~late
    <3>1. at' = "relay" /\ flow' = "qr_check"
      BY <1>8, <2>3 DEF SleptInPoll, Round, Call
    <3>2. Story' = "code"
      BY <1>1, <3>1, TaleElsewhere
    <3> QED BY <2>1, <3>2 DEF Told
  <2> QED BY <2>2, <2>3
<1> QED BY <1>2, <1>3, <1>4, <1>5, <1>6, <1>7, <1>8

LEMMA EnvironmentTold ==
    ASSUME DeadlinePasses \/ Phone \/ UNCHANGED vars
    PROVE  Told(Story, Story')
<1>1. UNCHANGED <<at, todo, flow, mode>>
  BY DEF DeadlinePasses, Phone, vars, bvars, rvars
<1>2. Story' = Story
  BY <1>1, StoryIsTale
<1> QED BY <1>2 DEF Told

\* The safety half of LoginKeepsPromise: every step of the bot, the round, the
\* phone and the timeouts is one of LoginStory, or none.  A failed login is
\* tried again; a bot ends by a code on show or, once online, by giving up.
THEOREM TellsLoginStory == Spec => Promise!Init /\ [][Promise!Next]_Story
<1>1. Init => Promise!Init
  BY StoryIsTale, TaleElsewhere DEF Init, Promise!Init
<1>2. IInv /\ [Next]_vars => Told(Story, Story')
  BY DeliverTold, OtherTold, CheckTold, LocalTold, EnvironmentTold DEF Next, BotStep
<1>3. Told(Story, Story') => [Promise!Next]_Story
  BY DEF Told, Promise!Next, Promise!Decide, Promise!CodeEnds, Promise!Retry,
         Promise!GoOffline, Promise!GiveUp
<1>4. IInv /\ [Next]_vars => [Promise!Next]_Story
  BY <1>2, <1>3
<1> QED BY <1>1, <1>4, Invariant, PTL DEF Spec
=============================================================================
