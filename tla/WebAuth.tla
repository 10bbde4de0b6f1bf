------------------------------- MODULE WebAuth -------------------------------
(***************************************************************************)
(* The count of wrong tokens that api_auth_login keeps for one address     *)
(* (each address has its own).  A request is let in or refused when it     *)
(* arrives, and counted after its body was read, so that several that were *)
(* let in may be counted later.  The session is a cookie of the browser:   *)
(* the server keeps nothing of it.                                         *)
(*                                                                         *)
(* Time passes in steps: the age of a window is cut off where it no longer *)
(* matters, one step after its end.                                        *)
(***************************************************************************)
EXTENDS Naturals, FiniteSets

CONSTANTS
    Requests,       \* requests of the address that may be under way at once
    MaxFailures,    \* _MAX_FAILURES
    Window,         \* _FAILURE_WINDOW_SEC, in steps of time
    NoEntry         \* the address is not in _login_failures

ASSUME WebAuthAssumption ==
    /\ MaxFailures \in Nat \ {0}
    /\ Window \in Nat
    /\ IsFiniteSet(Requests)
    /\ NoEntry \notin [count : Nat, age : 0 .. Window + 1]

VARIABLES
    entry,      \* _login_failures[ip], with the age of its window
    request,    \* where each request is
    wrong       \* history: of the wrong tokens of the last Window, since the
                \* last right one, how many are at most of each age

vars == <<entry, request, wrong>>

TypeOK ==
    /\ entry \in [count : Nat, age : 0 .. Window + 1] \cup {NoEntry}
    /\ request \in [Requests -> {"away", "reading", "refused"}]
    /\ wrong \in [0 .. Window -> Nat]

None == [age \in 0 .. Window |-> 0]

Init ==
    /\ entry = NoEntry
    /\ request = [r \in Requests |-> "away"]
    /\ wrong = None

-----------------------------------------------------------------------------

Fresh(count) == [count |-> count, age |-> 0]

Expired == entry # NoEntry /\ entry.age > Window

\* Variant: the limit is one more.
LimitedAbove == entry # NoEntry /\ ~Expired /\ entry.count > MaxFailures

Limited == entry # NoEntry /\ ~Expired /\ entry.count >= MaxFailures

\* The window that is over ends here, whatever the request brings.
LetIn(r) ==
    /\ request[r] # "reading"
    /\ ~Limited
    /\ entry' = IF Expired THEN Fresh(0) ELSE entry
    /\ request' = [request EXCEPT ![r] = "reading"]
    /\ UNCHANGED wrong

\* Variant: a refusal restarts the window.
RefuseAnew(r) ==
    /\ request[r] # "reading"
    /\ Limited
    /\ entry' = [entry EXCEPT !.age = 0]
    /\ request' = [request EXCEPT ![r] = "refused"]
    /\ UNCHANGED wrong

Refuse(r) ==
    /\ request[r] # "reading"
    /\ Limited
    /\ request' = [request EXCEPT ![r] = "refused"]
    /\ UNCHANGED <<entry, wrong>>

\* Variant: a window that is over goes on.
RecordedOn == IF entry = NoEntry THEN Fresh(1) ELSE Fresh(entry.count + 1)

\* What _record_failure writes.
Recorded ==
    IF entry = NoEntry \/ Expired THEN Fresh(1)
    ELSE [entry EXCEPT !.count = @ + 1]

\* A wrong token, or a body that could not be read.
WrongToken(r) ==
    /\ request[r] = "reading"
    /\ entry' = Recorded
    /\ wrong' = [age \in 0 .. Window |-> wrong[age] + 1]
    /\ request' = [request EXCEPT ![r] = "away"]

RightToken(r) ==
    /\ request[r] = "reading"
    /\ entry' = NoEntry
    /\ wrong' = None
    /\ request' = [request EXCEPT ![r] = "away"]

\* JSON that is no object: the handler raises and counts nothing.
NoObject(r) ==
    /\ request[r] = "reading"
    /\ request' = [request EXCEPT ![r] = "away"]
    /\ UNCHANGED <<entry, wrong>>

Tick ==
    /\ entry' = IF entry = NoEntry \/ Expired THEN entry
                ELSE [entry EXCEPT !.age = @ + 1]
    /\ wrong' = [age \in 0 .. Window |-> IF age = 0 THEN 0 ELSE wrong[age - 1]]
    /\ UNCHANGED request

Next ==
    \/ \E r \in Requests :
          \/ LetIn(r) \/ Refuse(r)
          \/ WrongToken(r) \/ RightToken(r) \/ NoObject(r)
    \/ Tick

Spec == Init /\ [][Next]_vars

\* Only time has to pass.
FairSpec == Spec /\ WF_vars(Tick)

-----------------------------------------------------------------------------

\* Nobody is kept out for tokens of an earlier window or from before a right
\* one: while the address is refused, MaxFailures wrong tokens came within the
\* last Window and no right one since.
RefusedForCause == Limited => wrong[Window] >= MaxFailures

\* The check and the count are not one step: in a window no more wrong tokens
\* are counted than MaxFailures and the requests let in with the last of them.
TriesAreLimited ==
    entry # NoEntry =>
        entry.count + Cardinality({r \in Requests : request[r] = "reading"})
            < MaxFailures + Cardinality(Requests)

\* A refusal ends, however often the address tries meanwhile.
RefusalEnds == Limited ~> ~Limited
=============================================================================
