---------------------------- MODULE WebAuthProofs ----------------------------
(* Theorems about WebAuth, from WebAuthAssumption.                          *)
EXTENDS WebAuth, FiniteSetTheorems, TLAPS

Reading == {r \in Requests : request[r] = "reading"}

(***************************************************************************)
(* Types.                                                                  *)
(***************************************************************************)

\* What is written to the table is an entry.
LEMMA RecordedType ==
    ASSUME TypeOK
    PROVE  Recorded \in [count : Nat, age : 0 .. Window + 1]
BY WebAuthAssumption DEF TypeOK, Recorded, Fresh, Expired

\* The table, the requests and the history are well typed in every reachable
\* state: api_auth_login and its helpers keep them so.
THEOREM TypeCorrect == Spec => []TypeOK
<1>1. Init => TypeOK
  BY WebAuthAssumption DEF Init, TypeOK, None
<1>2. TypeOK /\ [Next]_vars => TypeOK'
  <2> SUFFICES ASSUME TypeOK, [Next]_vars PROVE TypeOK'
    OBVIOUS
  <2>1. ASSUME NEW r \in Requests, LetIn(r) PROVE TypeOK'
    BY <2>1, WebAuthAssumption DEF TypeOK, LetIn, Fresh
  <2>2. ASSUME NEW r \in Requests, Refuse(r) PROVE TypeOK'
    BY <2>2 DEF TypeOK, Refuse
  <2>3. ASSUME NEW r \in Requests, WrongToken(r) PROVE TypeOK'
    BY <2>3, RecordedType, WebAuthAssumption DEF TypeOK, WrongToken
  <2>4. ASSUME NEW r \in Requests, RightToken(r) PROVE TypeOK'
    BY <2>4 DEF TypeOK, RightToken, None
  <2>5. ASSUME NEW r \in Requests, NoObject(r) PROVE TypeOK'
    BY <2>5 DEF TypeOK, NoObject
  <2>6. CASE Tick
    <3>1. entry' \in [count : Nat, age : 0 .. Window + 1] \cup {NoEntry}
      BY <2>6, WebAuthAssumption DEF TypeOK, Tick, Expired
    <3>2. wrong' \in [0 .. Window -> Nat]
      BY <2>6, WebAuthAssumption DEF TypeOK, Tick
    <3> QED BY <2>6, <3>1, <3>2 DEF TypeOK, Tick
  <2>7. CASE UNCHANGED vars
    BY <2>7 DEF TypeOK, vars
  <2> QED BY <2>1, <2>2, <2>3, <2>4, <2>5, <2>6, <2>7 DEF Next
<1> QED BY <1>1, <1>2, PTL DEF Spec

(***************************************************************************)
(* The limit.  Letting a request in adds one to those under way, and       *)
(* counting it moves one of them to the count, so that the sum grows only  *)
(* when a request is let in, which it is below the limit.                  *)
(***************************************************************************)

\* The requests under way are finitely many, and not more than there are.
LEMMA ReadingFinite ==
    /\ IsFiniteSet(Reading)
    /\ Cardinality(Reading) \in Nat
    /\ Cardinality(Requests) \in Nat
    /\ Cardinality(Reading) <= Cardinality(Requests)
<1>1. IsFiniteSet(Requests) /\ Reading \subseteq Requests
  BY WebAuthAssumption DEF Reading
<1> QED BY <1>1, FS_Subset, FS_CardinalityType

\* A request that is let in is one of the others before.
LEMMA OneIsLetIn ==
    ASSUME TypeOK, NEW r \in Requests, LetIn(r)
    PROVE  /\ Cardinality(Reading') = Cardinality(Reading) + 1
           /\ Cardinality(Reading') <= Cardinality(Requests)
<1>1. Reading' = Reading \cup {r} /\ r \notin Reading
  BY DEF TypeOK, LetIn, Reading
<1>2. Cardinality(Reading') = Cardinality(Reading) + 1
  BY <1>1, ReadingFinite, FS_AddElement
<1>3. Reading' \subseteq Requests
  BY <1>1 DEF Reading
<1> QED BY <1>2, <1>3, WebAuthAssumption, FS_Subset

\* A request whose body was read is no longer under way.
LEMMA OneIsOver ==
    ASSUME TypeOK, NEW r \in Requests, request[r] = "reading",
           request' = [request EXCEPT ![r] = "away"]
    PROVE  Cardinality(Reading') = Cardinality(Reading) - 1
<1>1. Reading' = Reading \ {r} /\ r \in Reading
  BY DEF TypeOK, Reading
<1> QED BY <1>1, ReadingFinite, FS_RemoveElement

\* api_auth_login counts no more wrong tokens in a window than _MAX_FAILURES
\* and the requests that were let in before the last of these was counted.
THEOREM TriesStayLimited == Spec => []TriesAreLimited
<1> DEFINE Bound == entry # NoEntry =>
        entry.count + Cardinality(Reading) < MaxFailures + Cardinality(Requests)
<1>1. TriesAreLimited <=> Bound
  BY DEF TriesAreLimited, Reading
<1>2. Init => Bound
  BY DEF Init
<1>3. TypeOK /\ Bound /\ [Next]_vars => Bound'
  <2> SUFFICES ASSUME TypeOK, Bound, [Next]_vars PROVE Bound'
    OBVIOUS
  <2> USE WebAuthAssumption, ReadingFinite
  <2>1. ASSUME NEW r \in Requests, LetIn(r) PROVE Bound'
    <3>1. Cardinality(Reading') = Cardinality(Reading) + 1
          /\ Cardinality(Reading') <= Cardinality(Requests)
      BY <2>1, OneIsLetIn
    <3>2. CASE Expired
      BY <2>1, <3>1, <3>2 DEF LetIn, Fresh
    <3>3. CASE ~Expired
      <4>1. entry' = entry /\ (entry # NoEntry => entry.count < MaxFailures)
        BY <2>1, <3>3 DEF LetIn, Limited, TypeOK
      <4> QED BY <3>1, <4>1 DEF TypeOK
    <3> QED BY <3>2, <3>3
  <2>2. ASSUME NEW r \in Requests, Refuse(r) PROVE Bound'
    <3>1. Reading' = Reading /\ entry' = entry
      BY <2>2 DEF Refuse, Reading, TypeOK
    <3> QED BY <3>1
  <2>3. ASSUME NEW r \in Requests, WrongToken(r) PROVE Bound'
    <3>1. Cardinality(Reading') = Cardinality(Reading) - 1
      BY <2>3, OneIsOver DEF WrongToken
    <3>2. CASE entry = NoEntry \/ Expired
      BY <2>3, <3>1, <3>2 DEF WrongToken, Recorded, Fresh
    <3>3. CASE entry # NoEntry /\ ~Expired
      <4>1. entry'.count = entry.count + 1
        BY <2>3, <3>3 DEF WrongToken, Recorded, TypeOK
      <4> QED BY <3>1, <3>3, <4>1 DEF TypeOK
    <3> QED BY <3>2, <3>3
  <2>4. ASSUME NEW r \in Requests, RightToken(r) PROVE Bound'
    BY <2>4 DEF RightToken
  <2>5. ASSUME NEW r \in Requests, NoObject(r) PROVE Bound'
    <3>1. Cardinality(Reading') = Cardinality(Reading) - 1 /\ entry' = entry
      BY <2>5, OneIsOver DEF NoObject
    <3> QED BY <3>1 DEF TypeOK
  <2>6. CASE Tick
    <3>1. Reading' = Reading
      BY <2>6 DEF Tick, Reading
    <3>2. entry' # NoEntry => entry # NoEntry /\ entry'.count = entry.count
      BY <2>6 DEF Tick, TypeOK
    <3> QED BY <3>1, <3>2
  <2>7. CASE UNCHANGED vars
    <3>1. Reading' = Reading /\ entry' = entry
      BY <2>7 DEF vars, Reading
    <3> QED BY <3>1
  <2> QED BY <2>1, <2>2, <2>3, <2>4, <2>5, <2>6, <2>7 DEF Next
<1> QED BY <1>1, <1>2, <1>3, TypeCorrect, PTL DEF Spec

(***************************************************************************)
(* The cause of a refusal.  No token of the count is older than its        *)
(* window, and one that is at most of an age is at most of every later.    *)
(***************************************************************************)

Caused ==
    /\ \A age, later \in 0 .. Window : age <= later => wrong[age] <= wrong[later]
    /\ entry # NoEntry /\ entry.age <= Window => entry.count <= wrong[entry.age]

LEMMA CauseStep == TypeOK /\ Caused /\ [Next]_vars => Caused'
<1> SUFFICES ASSUME TypeOK, Caused, [Next]_vars PROVE Caused'
  OBVIOUS
<1> USE WebAuthAssumption DEF TypeOK
<1>1. ASSUME NEW r \in Requests, LetIn(r) PROVE Caused'
  BY <1>1 DEF Caused, LetIn, Fresh
<1>2. ASSUME NEW r \in Requests, Refuse(r) \/ NoObject(r) PROVE Caused'
  BY <1>2 DEF Caused, Refuse, NoObject
<1>3. ASSUME NEW r \in Requests, WrongToken(r) PROVE Caused'
  BY <1>3 DEF Caused, WrongToken, Recorded, Expired, Fresh
<1>4. ASSUME NEW r \in Requests, RightToken(r) PROVE Caused'
  BY <1>4 DEF Caused, RightToken, None
<1>5. CASE Tick
  <2>1. \A age \in 0 .. Window : wrong'[age] = IF age = 0 THEN 0 ELSE wrong[age - 1]
    BY <1>5 DEF Tick
  <2>2. ASSUME NEW age \in 0 .. Window, NEW later \in 0 .. Window, age <= later
        PROVE  wrong'[age] <= wrong'[later]
    <3>1. CASE age = 0
      BY <2>1, <3>1
    <3>2. CASE age # 0
      <4>1. /\ age - 1 \in 0 .. Window /\ later - 1 \in 0 .. Window
            /\ age - 1 <= later - 1 /\ later # 0
        BY <2>2, <3>2
      <4> QED BY <2>1, <3>2, <4>1 DEF Caused
    <3> QED BY <3>1, <3>2
  <2>3. ASSUME entry' # NoEntry, entry'.age <= Window
        PROVE  entry'.count <= wrong'[entry'.age]
    <3>1. entry # NoEntry /\ ~Expired
      BY <1>5, <2>3 DEF Tick, Expired
    <3>2. entry'.age = entry.age + 1 /\ entry'.count = entry.count
      BY <1>5, <3>1 DEF Tick
    <3>3. entry'.age \in 0 .. Window /\ entry'.age # 0 /\ entry'.age - 1 = entry.age
      BY <2>3, <3>1, <3>2
    <3> QED BY <2>1, <3>1, <3>2, <3>3 DEF Caused, Expired
  <2> QED BY <2>2, <2>3 DEF Caused
<1>6. CASE UNCHANGED vars
  BY <1>6 DEF Caused, vars
<1> QED BY <1>1, <1>2, <1>3, <1>4, <1>5, <1>6 DEF Next

\* An address is refused only for MaxFailures wrong tokens within one window,
\* all since its last right one (_is_rate_limited and _record_failure).
THEOREM RefusalsHaveCause == Spec => []RefusedForCause
<1>1. Init => Caused
  BY WebAuthAssumption DEF Init, Caused, None
<1>2. TypeOK /\ Caused => RefusedForCause
  BY WebAuthAssumption DEF TypeOK, Caused, RefusedForCause, Limited, Expired
<1> QED BY <1>1, <1>2, CauseStep, TypeCorrect, PTL DEF Spec
=============================================================================
