--------------------------- MODULE ReplyChainProofs ---------------------------
(***************************************************************************)
(* Theorems about plugins.json and the inbox, for any plugins, keys, peers *)
(* and messages.                                                           *)
(***************************************************************************)
EXTENDS ReplyChain, SequenceTheorems, FiniteSetTheorems, WellFoundedInduction, TLAPS

\* Whatever touches the configuration, the panel, a chain or a reply, does so
\* by a call of the two modules that own it.
LEMMA ConfigStep == Next => ConfigNext \/ UNCHANGED cvars
<1> USE DEF ConfigNext, Panel
<1>1. Inserted => ConfigNext \/ UNCHANGED cvars
  BY DEF Inserted, LoadEnabledRaises
<1>2. CallAI => ConfigNext \/ UNCHANGED cvars
  BY DEF CallAI, LoadRawRaises
<1>3. ASSUME NEW m \in Messages, ReplyStep(m)
      PROVE  ConfigNext \/ UNCHANGED cvars
  BY <1>3 DEF ReplyStep, ReplyStarts, ModelAnswers, ModelFails, ReplySent, LoadRawRaises
<1>4. ASSUME NEW b \in Batches, Receive(b)
      PROVE  UNCHANGED cvars
  BY <1>4 DEF Receive
<1>5. OtherReturns \/ ClearContext \/ GoOffline \/ Close \/ Restart \/ CallOther
        \/ InsertEnds => UNCHANGED cvars
  BY DEF OtherReturns, ClearContext, GoOffline, Close, Restart, CallOther, InsertEnds
<1> QED
  BY <1>1, <1>2, <1>3, <1>4, <1>5 DEF Next, Coroutine

\* The caches hold what the file says, unless a failed read was cached.
THEOREM CachesAreRight == Spec => []CachesAgree
<1>1. Init => CachesAgree
  BY DEF Init, ConfigInit, CachesAgree
<1>2. CachesAgree /\ [Next]_vars => CachesAgree'
  <2> SUFFICES ASSUME CachesAgree, ConfigNext \/ UNCHANGED cvars
               PROVE  CachesAgree'
    BY ConfigStep DEF vars, cvars
  <2>1. ASSUME NEW l \in Lists, LoadEnabledIds(l)
        PROVE  CachesAgree'
    BY <2>1 DEF LoadEnabledIds, Load, CachesAgree, Parsed, Fails
  <2>2. ASSUME NEW c, LoadRaw(c)
        PROVE  CachesAgree'
    BY <2>2 DEF LoadRaw, Load, CachesAgree, Parsed, Fails
  <2>3. ASSUME NEW data, Write(data)
        PROVE  CachesAgree'
    BY <2>3 DEF Write, Invalidate, CachesAgree
  <2>4. CASE HandEdit
    BY <2>4 DEF HandEdit, CachesAgree
  <2>5. CASE Hiccup
    BY <2>5 DEF Hiccup, CachesAgree
  <2>6. CASE UNCHANGED cvars
    BY <2>6 DEF cvars, CachesAgree
  <2> QED
    BY <2>1, <2>2, <2>3, <2>4, <2>5, <2>6
       DEF ConfigNext, Panel, SaveEnabledIds, SavePluginSettings
<1> QED
  BY <1>1, <1>2, PTL DEF Spec

LEMMA NothingIsContent == Nothing \in Content
  BY ConfigAssumption DEF Nothing, Content

\* What is written is well typed if what it was made from is.
LEMMA WriteKeepsType ==
  ASSUME ConfigTypeOK, NEW data \in Content, Write(data)
  PROVE  ConfigTypeOK'
  BY DEF ConfigTypeOK, Write, Invalidate, Content

LEMMA ListKeepsType ==
  ASSUME NEW data \in Content, NEW l \in Lists
  PROVE  [data EXCEPT !.enabled = l] \in Content
  BY DEF Content

LEMMA KeyKeepsType ==
  ASSUME NEW data \in Content, NEW o \in Owners, NEW patch
  PROVE  [data EXCEPT !.settings[o] = Merged(data.settings[o], patch)] \in Content
  BY DEF Content, Merged

LEMMA ConfigTypes == ConfigTypeOK /\ (ConfigNext \/ UNCHANGED cvars) => ConfigTypeOK'
<1> SUFFICES ASSUME ConfigTypeOK, ConfigNext \/ UNCHANGED cvars
             PROVE  ConfigTypeOK'
  OBVIOUS
<1>1. file \in Content /\ Parsed \in Content /\ Parsed.enabled \in Lists
      /\ \A c \in rawCache : c \in Content
  BY NothingIsContent DEF ConfigTypeOK, Parsed, Content
<1>2. ASSUME NEW l \in Lists, LoadEnabledIds(l)
      PROVE  ConfigTypeOK'
  BY <1>2 DEF LoadEnabledIds, Load, ConfigTypeOK
<1>3. ASSUME NEW c \in {file, Nothing} \cup rawCache, LoadRaw(c)
      PROVE  ConfigTypeOK'
  <2>1. c \in Content
    BY <1>1, NothingIsContent
  <2> QED
    BY <1>3, <2>1 DEF LoadRaw, Load, ConfigTypeOK
<1>4. ASSUME NEW l \in Lists, SaveEnabledIds(l)
      PROVE  ConfigTypeOK'
  BY <1>1, <1>4, ListKeepsType, WriteKeepsType DEF SaveEnabledIds
<1>5. ASSUME NEW o \in Owners, NEW patch, SavePluginSettings(o, patch)
      PROVE  ConfigTypeOK'
  <2>1. PICK data \in Content :
          Write([data EXCEPT !.settings[o] = Merged(data.settings[o], patch)])
    BY <1>1, <1>5, NothingIsContent DEF SavePluginSettings
  <2> QED
    BY <2>1, KeyKeepsType, WriteKeepsType
<1>6. CASE HandEdit
  BY <1>6, ListKeepsType DEF HandEdit, ConfigTypeOK
<1>7. CASE Hiccup
  BY <1>7 DEF Hiccup, ConfigTypeOK
<1>8. CASE UNCHANGED cvars
  BY <1>8 DEF cvars, ConfigTypeOK
<1> QED
  BY <1>2, <1>3, <1>4, <1>5, <1>6, <1>7, <1>8 DEF ConfigNext, Panel

\* A save changes the section it is for and keeps the others, unless reading
\* failed: it starts from the file, or from a cache that agrees with it.
THEOREM SavesKeep == Spec => SavesKeepTheRest
<1> DEFINE Readable == text = "json" /\ ~hiccup /\ ~failed
           IInv == ConfigTypeOK /\ CachesAgree
<1>1. ASSUME IInv, Readable, ConfigNext \/ UNCHANGED cvars
      PROVE  OneThingChanges
  <2>1. file \in Content /\ Parsed = file /\ rawCache \subseteq {file}
    BY <1>1 DEF ConfigTypeOK, CachesAgree, Parsed, Fails
  <2>2. ASSUME NEW l \in Lists, file' = [file EXCEPT !.enabled = l]
        PROVE  OneThingChanges
    BY <2>1, <2>2 DEF OneThingChanges, Content
  <2>3. ASSUME NEW o \in Owners, NEW k, file' = [file EXCEPT !.settings[o] = k]
        PROVE  OneThingChanges
    BY <2>1, <2>3 DEF OneThingChanges, Content
  <2>4. CASE \E l \in Lists : SaveEnabledIds(l)
    BY <2>1, <2>2, <2>4 DEF SaveEnabledIds, Write
  <2>5. CASE \E o \in Owners, patch \in Keys \cup {Mask} : SavePluginSettings(o, patch)
    <3>1. PICK o \in Owners, patch \in Keys \cup {Mask} : SavePluginSettings(o, patch)
      BY <2>5
    <3>2. file' = [file EXCEPT !.settings[o] = Merged(file.settings[o], patch)]
      BY <1>1, <2>1, <3>1 DEF SavePluginSettings, Write
    <3> QED
      BY <2>3, <3>2
  <2>6. CASE HandEdit
    BY <2>2, <2>6 DEF HandEdit, OneThingChanges
  <2>7. CASE file' = file
    BY <2>7 DEF OneThingChanges
  <2> QED
    BY <1>1, <2>4, <2>5, <2>6, <2>7
       DEF ConfigNext, Panel, LoadEnabledIds, LoadRaw, Hiccup, cvars
<1>2. Init => IInv
  BY NothingIsContent DEF Init, ConfigInit, ConfigTypeOK, CachesAgree
<1>3. ConfigTypeOK /\ [Next]_vars => ConfigTypeOK'
  BY ConfigStep, ConfigTypes DEF vars
<1>4. IInv /\ [Next]_vars => [Readable => OneThingChanges]_cvars
  BY <1>1, ConfigStep DEF vars
<1> QED
  BY <1>2, <1>3, <1>4, CachesAreRight, PTL DEF Spec, SavesKeepTheRest

\* Nothing is inserted or deleted between the two statements of a call that
\* holds the lock.
THEOREM CountsAreKept == Spec => []CountsAddUp
<1>1. Init => CountsAddUp
  BY DEF Init, InboxInit, CountsAddUp
<1>2. CountsAddUp /\ [Next]_vars => CountsAddUp'
  <2> SUFFICES ASSUME CountsAddUp, [Next]_vars
               PROVE  CountsAddUp'
    OBVIOUS
  <2>1. CASE InsertEnds
    BY <2>1 DEF InsertEnds, Insert, CountsAddUp
  <2>2. CASE InboxRequest
    BY <2>2 DEF InboxRequest, Counts, QueryReturns, ClearDeletes, CountsAddUp
  <2>3. ASSUME NEW b \in Batches, Receive(b)
        PROVE  CountsAddUp'
    BY <2>3 DEF Receive, StartInsert, CountsAddUp
  <2>4. CASE UNCHANGED ivars
    BY <2>4 DEF ivars, CountsAddUp
  <2>5. ASSUME NEW m \in Messages, ReplyStep(m)
        PROVE  UNCHANGED ivars
    BY <2>5 DEF ReplyStep, ReplyStarts, ModelAnswers, ModelFails, ReplySent, ReplyGoes
  <2>6. Inserted \/ CallAI \/ CallOther \/ OtherReturns \/ ClearContext \/ GoOffline
        \/ Close \/ Restart => UNCHANGED ivars
    BY DEF Inserted, CallAI, CallOther, OtherReturns, ClearContext, GoOffline, Close,
           Restart
  <2> QED
    BY <2>1, <2>2, <2>3, <2>4, <2>5, <2>6 DEF Next, Coroutine, vars
<1> QED
  BY <1>1, <1>2, PTL DEF Spec

(***************************************************************************)
(* The least and the greatest of a set of numbers.                         *)
(***************************************************************************)

LEMMA LeastNat ==
    ASSUME NEW T, T \subseteq Nat, T # {}
    PROVE  \E n \in T : \A m \in T : n <= m
<1>1. IsWellFoundedOn(OpToRel(<, Nat), Nat)
  BY NatLessThanWellFounded, Zenon
<1>2. PICK n \in T : \A m \in T : ~ (<<m, n>> \in OpToRel(<, Nat))
  BY <1>1, WFMin, Zenon
<1>3. \A m \in T : ~ (m < n)
  BY <1>2 DEF OpToRel
<1>4. \A m \in T : n <= m
  BY <1>3
<1> QED BY <1>4

LEMMA MinIsOne ==
    ASSUME NEW T, T \subseteq Nat, T # {}
    PROVE  Min(T) \in T
BY LeastNat DEF Min

\* By induction on the size of the set.
LEMMA MaxIsOne ==
    ASSUME NEW T, T \subseteq Nat, T # {}, IsFiniteSet(T)
    PROVE  Max(T) \in T /\ \A x \in T : x <= Max(T)
<1> DEFINE Greatest(U) == \E x \in U : \A y \in U : x >= y
           Bad == {U \in SUBSET T : U # {} /\ ~Greatest(U)}
           Sizes == {Cardinality(U) : U \in Bad}
<1>1. \A U \in SUBSET T : IsFiniteSet(U) /\ Cardinality(U) \in Nat
  BY FS_Subset, FS_CardinalityType
<1>2. Bad = {}
  <2> SUFFICES ASSUME Bad # {} PROVE FALSE
    OBVIOUS
  <2>1. Sizes \subseteq Nat /\ Sizes # {}
    BY <1>1
  <2>2. PICK U \in Bad : \A V \in Bad : Cardinality(U) <= Cardinality(V)
    <3> HIDE DEF Bad
    <3>1. PICK n \in Sizes : \A m \in Sizes : n <= m
      <4> HIDE DEF Sizes
      <4> QED BY <2>1, LeastNat
    <3> QED BY <3>1
  <2>3. PICK x \in U : x \in Nat
    BY <2>2
  <2>4. PICK V : V = U \ {x}
    OBVIOUS
  <2>5. V \in SUBSET T /\ Cardinality(V) = Cardinality(U) - 1
    BY <1>1, <2>2, <2>3, <2>4, FS_RemoveElement
  <2>6. V \notin Bad
    <3>1. Cardinality(U) \in Nat
      BY <1>1, <2>2
    <3>2. ~(Cardinality(U) <= Cardinality(V))
      BY <2>5, <3>1
    <3> QED BY <2>2, <3>2
  <2>7. CASE V = {}
    <3>1. \A y \in U : y = x
      BY <2>4, <2>7
    <3> QED BY <2>2, <2>3, <3>1
  <2>8. CASE V # {}
    <3>1. PICK y \in V : \A z \in V : y >= z
      BY <2>5, <2>6, <2>8
    <3>2. y \in U /\ y \in Nat /\ U = V \cup {x} /\ U \subseteq Nat
      BY <2>2, <2>3, <2>4, <3>1
    <3>3. CASE x >= y
      <4>1. \A z \in U : x >= z
        BY <2>3, <2>5, <3>1, <3>2, <3>3
      <4> QED BY <2>2, <4>1
    <3>4. CASE ~(x >= y)
      <4>1. \A z \in U : y >= z
        BY <2>3, <2>5, <3>1, <3>2, <3>4
      <4> QED BY <2>2, <3>2, <4>1
    <3> QED BY <3>3, <3>4
  <2> QED BY <2>7, <2>8
<1>3. \E x \in T : \A y \in T : x >= y
  BY <1>2
<1>4. Max(T) \in T /\ \A y \in T : Max(T) >= y
  BY <1>3 DEF Max
<1> QED BY <1>4

(***************************************************************************)
(* Histories, as lists of exchanges.                                       *)
(***************************************************************************)

Entries == [role : {"user", "assistant"}, of : Messages]

\* k exchanges of the peer p, each of them about a message that was received.
Exchanges(h, p, k) ==
    /\ Len(h) = 2 * k
    /\ \A i \in 1 .. k : \E m \in 1 .. Len(sender) :
          /\ sender[m] = p
          /\ h[2 * i - 1] = Turn("user", m) /\ h[2 * i] = Turn("assistant", m)

LEMMA TurnType ==
    ASSUME NEW r \in {"user", "assistant"}, NEW m \in Messages
    PROVE  Turn(r, m) \in Entries /\ Turn(r, m).role = r /\ Turn(r, m).of = m
BY DEF Turn, Entries

\* The last turns of a list of exchanges are a list of exchanges.
LEMMA LatestExchanges ==
    ASSUME NEW g \in Seq(Entries), NEW p, NEW k \in Nat, Exchanges(g, p, k),
           NEW turns \in Nat
    PROVE  /\ Latest(g, 2 * turns) \in Seq(Entries)
           /\ \E j \in Nat : j <= turns /\ Exchanges(Latest(g, 2 * turns), p, j)
<1>1. Len(g) = 2 * k
  BY DEF Exchanges
<1>2. CASE 2 * k > 2 * turns
  <2>1. PICK d \in Nat : k = turns + d
    <3>1. k - turns \in Nat /\ k = turns + (k - turns)
      BY <1>2
    <3> QED BY <3>1
  <2>2. PICK t : t = SubSeq(g, 2 * d + 1, 2 * k)
    OBVIOUS
  <2>3. Latest(g, 2 * turns) = t
    <3>1. Len(g) - 2 * turns + 1 = 2 * d + 1
      BY <1>1, <2>1
    <3> QED BY <1>1, <1>2, <2>2, <3>1 DEF Latest
  <2>4. \A i \in 2 * d + 1 .. 2 * k : g[i] \in Entries
    <3>1. \A i \in 2 * d + 1 .. 2 * k : i \in 1 .. Len(g)
      BY <1>1, <2>1
    <3> QED BY <3>1, ElementOfSeq
  <2>5. /\ t \in Seq(Entries)
        /\ Len(t) = IF 2 * d + 1 <= 2 * k THEN 2 * k - (2 * d + 1) + 1 ELSE 0
        /\ \A i \in 1 .. 2 * k - (2 * d + 1) + 1 : t[i] = g[2 * d + 1 + i - 1]
    <3>1. 2 * d + 1 \in Int /\ 2 * k \in Int
      OBVIOUS
    <3> QED BY <2>2, <2>4, <3>1, SubSeqProperties
  <2>6. Len(t) = 2 * turns /\ \A i \in 1 .. 2 * turns : t[i] = g[2 * d + i]
    <3>1. 2 * k - (2 * d + 1) + 1 = 2 * turns
      BY <2>1
    <3>2. \A i \in 1 .. 2 * turns : 2 * d + 1 + i - 1 = 2 * d + i
      OBVIOUS
    <3>3. ~(2 * d + 1 <= 2 * k) => 2 * turns = 0
      BY <2>1
    <3> QED BY <2>5, <3>1, <3>2, <3>3
  <2>7. Exchanges(t, p, turns)
    <3> SUFFICES ASSUME NEW i \in 1 .. turns
                 PROVE  \E m \in 1 .. Len(sender) :
                           /\ sender[m] = p
                           /\ t[2 * i - 1] = Turn("user", m) /\ t[2 * i] = Turn("assistant", m)
      BY <2>6 DEF Exchanges
    <3>1. /\ d + i \in 1 .. k /\ 2 * i \in 1 .. 2 * turns /\ 2 * i - 1 \in 1 .. 2 * turns
          /\ 2 * d + 2 * i = 2 * (d + i) /\ 2 * d + (2 * i - 1) = 2 * (d + i) - 1
      BY <2>1
    <3>2. t[2 * i] = g[2 * (d + i)] /\ t[2 * i - 1] = g[2 * (d + i) - 1]
      BY <2>6, <3>1
    <3> QED BY <3>1, <3>2 DEF Exchanges
  <2> QED BY <2>3, <2>5, <2>7
<1>3. CASE ~(2 * k > 2 * turns)
  <2>1. Latest(g, 2 * turns) = g /\ k <= turns
    BY <1>1, <1>3 DEF Latest
  <2> QED BY <2>1
<1> QED BY <1>2, <1>3

\* Whatever the limit, a history grows by the whole exchange, or not at all.
LEMMA RememberedExchanges ==
    ASSUME NEW h \in Seq(Entries), NEW p, NEW k \in Nat, Exchanges(h, p, k),
           NEW limit \in Nat, k <= limit, NEW turns \in Nat, turns <= limit,
           NEW m \in Messages, m \in 1 .. Len(sender), sender[m] = p
    PROVE  /\ Remembered(h, m, turns) \in Seq(Entries)
           /\ \E j \in 0 .. limit : Exchanges(Remembered(h, m, turns), p, j)
<1>1. CASE turns = 0
  BY <1>1 DEF Remembered
<1>2. CASE turns # 0
  <2>1. PICK two : two = <<Turn("user", m), Turn("assistant", m)>>
    OBVIOUS
  <2>2. two \in Seq(Entries) /\ Len(two) = 2 /\ two[1] = Turn("user", m)
        /\ two[2] = Turn("assistant", m)
    BY <2>1, TurnType
  <2>3. PICK g : g = h \o two
    OBVIOUS
  <2>4. /\ g \in Seq(Entries) /\ Len(g) = Len(h) + 2
        /\ \A i \in 1 .. Len(h) + 2 : g[i] = IF i <= Len(h) THEN h[i] ELSE two[i - Len(h)]
    <3>1. /\ g \in Seq(Entries) /\ Len(g) = Len(h) + Len(two)
          /\ \A i \in 1 .. Len(h) + Len(two) :
                g[i] = IF i <= Len(h) THEN h[i] ELSE two[i - Len(h)]
      BY <2>2, <2>3, ConcatProperties, Zenon
    <3> QED BY <2>2, <3>1
  <2>5. Len(h) = 2 * k
    BY DEF Exchanges
  <2>6. Exchanges(g, p, k + 1)
    <3>1. Len(g) = 2 * (k + 1)
      BY <2>4, <2>5
    <3> SUFFICES ASSUME NEW i \in 1 .. k + 1
                 PROVE  \E n \in 1 .. Len(sender) :
                           /\ sender[n] = p
                           /\ g[2 * i - 1] = Turn("user", n) /\ g[2 * i] = Turn("assistant", n)
      BY <3>1 DEF Exchanges
    <3>2. CASE i = k + 1
      <4>1. /\ 2 * i \in 1 .. 2 * k + 2 /\ 2 * i - 1 \in 1 .. 2 * k + 2
            /\ ~(2 * i <= 2 * k) /\ ~(2 * i - 1 <= 2 * k)
            /\ 2 * i - 2 * k = 2 /\ 2 * i - 1 - 2 * k = 1
        BY <3>2
      <4>2. g[2 * i] = two[2] /\ g[2 * i - 1] = two[1]
        BY <2>4, <2>5, <4>1
      <4> QED BY <2>2, <4>2
    <3>3. CASE i # k + 1
      <4>1. /\ i \in 1 .. k /\ 2 * i \in 1 .. 2 * k + 2 /\ 2 * i - 1 \in 1 .. 2 * k + 2
            /\ 2 * i <= 2 * k /\ 2 * i - 1 <= 2 * k
        BY <3>3
      <4>2. g[2 * i] = h[2 * i] /\ g[2 * i - 1] = h[2 * i - 1]
        BY <2>4, <2>5, <4>1
      <4> QED BY <4>1, <4>2 DEF Exchanges
    <3> QED BY <3>2, <3>3
  <2>7. Remembered(h, m, turns) = Latest(g, 2 * turns)
    BY <1>2, <2>1, <2>3 DEF Remembered
  <2>8. k + 1 \in Nat
    OBVIOUS
  <2>9. PICK j \in Nat : j <= turns /\ Exchanges(Latest(g, 2 * turns), p, j)
    BY <2>4, <2>6, <2>8, LatestExchanges
  <2>10. Latest(g, 2 * turns) \in Seq(Entries)
    BY <2>4, <2>6, <2>8, LatestExchanges
  <2>11. j \in 0 .. limit
    BY <2>9
  <2> QED BY <2>7, <2>9, <2>10, <2>11
<1> QED BY <1>1, <1>2

(***************************************************************************)
(* The invariant of batches, replies and histories.                        *)
(***************************************************************************)

Received == 1 .. Len(sender)

ChainPhases == {"idle", "insert", "call", "handle"}

Talking ==
    /\ bot \in {"online", "hooks", "closed"}
    /\ sender \in Seq(Peers \cup {Self}) /\ Len(sender) <= MaxMessages
    /\ chain = [phase |-> chain.phase, batch |-> chain.batch, todo |-> chain.todo]
    /\ chain.phase \in ChainPhases /\ chain.batch \subseteq Received
    /\ reply \in [Messages -> ReplyStates]
    /\ \A m \in Messages : reply[m] # "none" => m \in Received /\ sender[m] \in Peers
    /\ history \in [Peers -> Seq(Entries)]

Remembering == \A p \in Peers : \E k \in 0 .. Max(Turns) : Exchanges(history[p], p, k)

ReplyInv == ConfigTypeOK /\ InboxTypeOK /\ Talking /\ Remembering

LEMMA MaxTurns == Max(Turns) \in Nat /\ \A turns \in Turns : turns \in Nat /\ turns <= Max(Turns)
BY MaxIsOne, ChainAssumption DEF ChainAssumption

LEMMA ReceivedType ==
    ASSUME Talking
    PROVE  /\ Len(sender) \in Nat /\ Received \subseteq Messages /\ Messages \subseteq Nat
           /\ \A m \in Received : sender[m] \in Peers \cup {Self}
<1>1. sender \in Seq(Peers \cup {Self}) /\ Len(sender) <= MaxMessages /\ MaxMessages \in Nat
      /\ Messages = 1 .. MaxMessages
  BY ChainAssumption DEF Talking, ChainAssumption
<1>2. Len(sender) \in Nat /\ \A m \in 1 .. Len(sender) : sender[m] \in Peers \cup {Self}
  BY <1>1, LenProperties, ElementOfSeq
<1> QED BY <1>1, <1>2 DEF Received

(***************************************************************************)
(* The inbox.                                                              *)
(***************************************************************************)

LEMMA CountedType ==
    ASSUME InboxTypeOK
    PROVE  Cardinality(inbox) \in 0 .. Cardinality(Messages) /\ 0 \in 0 .. Cardinality(Messages)
<1>1. IsFiniteSet(Messages)
  <2>1. Messages = 1 .. MaxMessages /\ MaxMessages \in Int /\ 1 \in Int
    BY ChainAssumption DEF ChainAssumption
  <2> QED BY <2>1, FS_Interval
<1>2. inbox \in SUBSET Messages
  BY DEF InboxTypeOK
<1>3. /\ Cardinality(Messages) \in Nat /\ IsFiniteSet(inbox)
      /\ Cardinality(inbox) <= Cardinality(Messages)
  BY <1>1, <1>2, FS_Subset, FS_CardinalityType
<1>4. Cardinality(inbox) \in Nat
  BY <1>3, FS_CardinalityType
<1> QED BY <1>3, <1>4

LEMMA InboxTypes ==
    ASSUME InboxTypeOK,
           \/ UNCHANGED ivars \/ InsertEnds \/ InboxRequest
           \/ \E batch \in SUBSET Messages : StartInsert(batch)
    PROVE  InboxTypeOK'
<1>1. CASE UNCHANGED ivars
  BY <1>1 DEF ivars, InboxTypeOK
<1>2. CASE InsertEnds
  <2>1. PICK batch \in inserts : \E rows \in {batch, {}} : Insert(batch, rows)
    BY <1>2 DEF InsertEnds
  <2>2. \A rows \in {batch, {}} : rows \subseteq Messages
    BY <2>1 DEF InboxTypeOK
  <2> QED BY <2>1, <2>2 DEF Insert, InboxTypeOK
<1>3. CASE InboxRequest
  <2>1. inserts' = inserts /\ inbox' \in {inbox, {}} /\ lock' \in {"free", "query", "clear"}
        /\ counted' \in {0, Cardinality(inbox)}
    BY <1>3 DEF InboxRequest, Counts, QueryReturns, ClearDeletes
  <2> QED BY <2>1, CountedType DEF InboxTypeOK
<1>4. ASSUME NEW batch \in SUBSET Messages, StartInsert(batch) PROVE InboxTypeOK'
  BY <1>4 DEF StartInsert, InboxTypeOK
<1> QED BY <1>1, <1>2, <1>3, <1>4

(***************************************************************************)
(* Steps that receive nothing.                                             *)
(***************************************************************************)

ChainFine ==
    /\ chain' = [phase |-> chain'.phase, batch |-> chain'.batch, todo |-> chain'.todo]
    /\ chain'.phase \in ChainPhases /\ chain'.batch \subseteq chain.batch

ReplyFine ==
    /\ reply' \in [Messages -> ReplyStates]
    /\ \A m \in Messages : reply'[m] # "none" =>
          reply[m] # "none" \/ (m \in Received /\ sender[m] \in Peers)

HistoryFine ==
    /\ history' \in [Peers -> Seq(Entries)]
    /\ \A p \in Peers : \E k \in 0 .. Max(Turns) : Exchanges(history'[p], p, k)

LEMMA FineKeeps ==
    ASSUME Talking, Remembering, sender' = sender, bot' \in {"online", "hooks", "closed"},
           ChainFine, ReplyFine, HistoryFine
    PROVE  Talking' /\ Remembering'
<1>1. Received' = Received
  BY DEF Received
<1>2. Talking'
  BY <1>1 DEF Talking, ChainFine, ReplyFine, HistoryFine
<1>3. Remembering'
  BY DEF HistoryFine, Remembering, Exchanges
<1> QED BY <1>2, <1>3

LEMMA StaysFine ==
    ASSUME Talking, Remembering
    PROVE  /\ chain' = chain => ChainFine
           /\ reply' = reply => ReplyFine
           /\ history' = history => HistoryFine
BY DEF Talking, Remembering, ChainFine, ReplyFine, HistoryFine

LEMMA RestFine ==
    ASSUME Talking, NEW todo, Rest(todo) \/ chain' = NoBatch
    PROVE  ChainFine
<1>1. CASE chain' = NoBatch
  BY <1>1 DEF ChainFine, NoBatch, ChainPhases
<1>2. CASE chain' = [chain EXCEPT !.phase = "call", !.todo = todo]
  <2>1. chain = [phase |-> chain.phase, batch |-> chain.batch, todo |-> chain.todo]
    BY DEF Talking
  <2>2. chain' = [phase |-> "call", batch |-> chain.batch, todo |-> todo]
    BY <1>2, <2>1
  <2> QED BY <2>2 DEF ChainFine, ChainPhases
<1> QED BY <1>1, <1>2 DEF Rest

\* A reply is due to a message of the batch that a peer sent.
LEMMA CallAIFine ==
    ASSUME Talking, CallAI
    PROVE  ChainFine /\ ReplyFine
<1>1. \/ Rest(Tail(chain.todo)) /\ reply' = reply
      \/ /\ Answerable # {} /\ chain' = NoBatch
         /\ reply' = [reply EXCEPT ![Min(Answerable)] = "ready"]
  BY DEF CallAI
<1>2. reply' = reply => ReplyFine
  BY DEF Talking, ReplyFine
<1>3. CASE Rest(Tail(chain.todo)) /\ reply' = reply
  <2>1. PICK todo : todo = Tail(chain.todo)
    OBVIOUS
  <2> QED BY <1>2, <1>3, <2>1, RestFine
<1>4. CASE /\ Answerable # {} /\ chain' = NoBatch
           /\ reply' = [reply EXCEPT ![Min(Answerable)] = "ready"]
  <2>1. Answerable \subseteq Received /\ Received \subseteq Messages /\ Messages \subseteq Nat
        /\ \A m \in Answerable : sender[m] \in Peers
    BY ReceivedType DEF Talking, Answerable
  <2>2. PICK first : first = Min(Answerable)
    OBVIOUS
  <2>3. first \in Answerable
    <3>1. PICK some : some = Answerable
      OBVIOUS
    <3>2. Min(some) \in some
      BY <1>4, <2>1, <3>1, MinIsOne
    <3> QED BY <2>2, <3>1, <3>2
  <2>4. first \in Messages /\ reply' = [reply EXCEPT ![first] = "ready"]
    BY <1>4, <2>1, <2>2, <2>3
  <2>5. ReplyFine
    BY <2>1, <2>3, <2>4 DEF Talking, ReplyFine, ReplyStates
  <2>6. ChainFine
    BY <1>4 DEF ChainFine, NoBatch, ChainPhases
  <2> QED BY <2>5, <2>6
<1> QED BY <1>1, <1>3, <1>4

LEMMA ReplyStepFine ==
    ASSUME Talking, Remembering, NEW m \in Messages, ReplyStep(m)
    PROVE  ReplyFine /\ HistoryFine /\ UNCHANGED <<bot, sender, chain>>
<1>1. PICK from \in ReplyStates \ {"none"}, to \in ReplyStates : ReplyGoes(m, from, to)
  BY DEF ReplyStep, ReplyStarts, ModelAnswers, ModelFails, ReplySent, ReplyStates
<1>2. /\ reply[m] = from /\ reply' = [reply EXCEPT ![m] = to]
      /\ UNCHANGED <<bot, sender, chain>>
  BY <1>1 DEF ReplyGoes
<1>3. ReplyFine
  BY <1>1, <1>2 DEF Talking, ReplyFine
<1>4. m \in Received /\ sender[m] \in Peers
  BY <1>1, <1>2 DEF Talking
<1>5. history' = history \/ ModelAnswers(m)
  BY DEF ReplyStep, ReplyStarts, ModelFails, ReplySent
<1>6. CASE ModelAnswers(m)
  <2>1. PICK turns \in Turns :
          history' = [history EXCEPT ![sender[m]] = Remembered(@, m, turns)]
    BY <1>6 DEF ModelAnswers
  <2>2. PICK p, h, limit : p = sender[m] /\ h = history[p] /\ limit = Max(Turns)
    OBVIOUS
  <2>3. h \in Seq(Entries) /\ p \in Peers /\ limit \in Nat /\ turns \in Nat /\ turns <= limit
    BY <1>4, <2>2, MaxTurns DEF Talking
  <2>4. PICK k \in 0 .. limit : Exchanges(h, p, k)
    BY <2>2, <2>3 DEF Remembering
  <2>5. k \in Nat /\ k <= limit /\ m \in 1 .. Len(sender)
    BY <1>4, <2>3 DEF Received
  <2>6. /\ Remembered(h, m, turns) \in Seq(Entries)
        /\ \E j \in 0 .. limit : Exchanges(Remembered(h, m, turns), p, j)
    BY <2>2, <2>3, <2>4, <2>5, RememberedExchanges
  <2>7. /\ history' \in [Peers -> Seq(Entries)]
        /\ \A q \in Peers : history'[q] = IF q = p THEN Remembered(h, m, turns) ELSE history[q]
    BY <2>1, <2>2, <2>3, <2>6 DEF Talking
  <2>8. \A q \in Peers : \E j \in 0 .. Max(Turns) : Exchanges(history'[q], q, j)
    BY <2>2, <2>6, <2>7 DEF Remembering
  <2> QED BY <1>2, <1>3, <2>7, <2>8 DEF HistoryFine
<1>7. CASE history' = history
  BY <1>2, <1>3, <1>7, StaysFine
<1> QED BY <1>5, <1>6, <1>7

LEMMA EmptyHistory ==
    ASSUME Talking
    PROVE  /\ [p \in Peers |-> <<>>] \in [Peers -> Seq(Entries)]
           /\ \A p : Exchanges(<<>>, p, 0) /\ 0 \in 0 .. Max(Turns)
<1>1. Len(<<>>) = 0 /\ <<>> \in Seq(Entries)
  BY EmptySeq
<1>2. 1 .. 0 = {} /\ 2 * 0 = 0
  OBVIOUS
<1> QED BY <1>1, <1>2, MaxTurns DEF Exchanges

(***************************************************************************)
(* A batch is received.                                                    *)
(***************************************************************************)

LEMMA ReceiveKeeps ==
    ASSUME Talking, Remembering, NEW b \in Batches, Receive(b)
    PROVE  /\ Talking' /\ Remembering'
           /\ \E batch \in SUBSET Messages : StartInsert(batch)
<1>1. b \in Seq(Peers \cup {Self}) /\ Len(sender \o b) <= MaxMessages
  <2>1. PICK n \in 0 .. 2 : b \in [1 .. n -> Peers \cup {Self}]
    BY DEF Batches, SeqOf
  <2> QED BY <2>1 DEF Batches
<1>2. PICK old, all : old = Len(sender) /\ all = sender \o b
  OBVIOUS
<1>3. sender \in Seq(Peers \cup {Self}) /\ old \in Nat /\ Received = 1 .. old
  BY <1>2, ReceivedType DEF Talking, Received
<1>4. PICK n : n = Len(all)
  OBVIOUS
<1>5. /\ all \in Seq(Peers \cup {Self}) /\ n \in Nat /\ old <= n /\ n <= MaxMessages
      /\ \A i \in 1 .. old : i \in 1 .. n /\ all[i] = sender[i]
  <2>1. /\ all \in Seq(Peers \cup {Self}) /\ n = old + Len(b) /\ Len(b) \in Nat
        /\ \A i \in 1 .. old + Len(b) : all[i] = IF i <= old THEN sender[i] ELSE b[i - old]
    BY <1>1, <1>2, <1>3, <1>4, ConcatProperties, LenProperties
  <2>2. n \in Nat /\ old <= n /\ n <= MaxMessages
    BY <1>1, <1>2, <1>3, <1>4, <2>1
  <2>3. ASSUME NEW i \in 1 .. old PROVE i \in 1 .. n /\ all[i] = sender[i]
    <3>1. i \in 1 .. old + Len(b) /\ i <= old
      BY <1>3, <2>1
    <3> QED BY <2>1, <3>1
  <2> QED BY <2>1, <2>2, <2>3
<1>6. PICK new : new = old + 1 .. n
  OBVIOUS
<1>7. /\ sender' = all /\ chain' = [phase |-> "insert", batch |-> new, todo |-> <<>>]
      /\ StartInsert(new) /\ UNCHANGED <<bot, reply, history>>
  <2>1. sender' = all
    BY <1>2 DEF Receive
  <2>2. Len(sender') = n
    BY <1>4, <2>1
  <2> QED BY <1>2, <1>6, <2>1, <2>2 DEF Receive
<1>8. Received' = 1 .. n /\ new \subseteq 1 .. n /\ new \subseteq Messages
  BY <1>3, <1>4, <1>5, <1>6, <1>7, ChainAssumption DEF Received, ChainAssumption
<1>9. Talking'
  <2>1. chain' = [phase |-> chain'.phase, batch |-> chain'.batch, todo |-> chain'.todo]
        /\ chain'.phase \in ChainPhases /\ chain'.batch \subseteq Received'
    BY <1>7, <1>8 DEF ChainPhases
  <2>2. \A m \in Messages : reply[m] # "none" => m \in Received' /\ sender'[m] \in Peers
    BY <1>3, <1>5, <1>7, <1>8 DEF Talking
  <2> QED BY <1>4, <1>5, <1>7, <2>1, <2>2 DEF Talking
<1>10. Remembering'
  <2> SUFFICES ASSUME NEW p \in Peers
               PROVE  \E k \in 0 .. Max(Turns) : Exchanges(history[p], p, k)'
    BY <1>7 DEF Remembering, Exchanges
  <2>1. PICK k \in 0 .. Max(Turns) : Exchanges(history[p], p, k)
    BY DEF Remembering
  <2>2. Len(sender') = n /\ history' = history
    BY <1>4, <1>7
  <2>3. Exchanges(history[p], p, k)'
    BY <1>2, <1>5, <1>7, <2>1, <2>2 DEF Exchanges
  <2> QED BY <2>3
<1> QED BY <1>7, <1>8, <1>9, <1>10

(***************************************************************************)
(* The invariant holds.                                                    *)
(***************************************************************************)

LEMMA ReplyStarted == Init => ReplyInv
<1> SUFFICES ASSUME Init PROVE ReplyInv
  OBVIOUS
<1>1. ConfigTypeOK
  BY NothingIsContent DEF Init, ConfigInit, ConfigTypeOK
<1>2. InboxTypeOK
  <2>1. IsFiniteSet(Messages)
    <3>1. Messages = 1 .. MaxMessages /\ MaxMessages \in Int /\ 1 \in Int
      BY ChainAssumption DEF ChainAssumption
    <3> QED BY <3>1, FS_Interval
  <2>2. Cardinality(Messages) \in Nat
    BY <2>1, FS_CardinalityType
  <2> QED BY <2>2 DEF Init, InboxInit, InboxTypeOK
<1>3. Len(<<>>) = 0 /\ <<>> \in Seq(Peers \cup {Self}) /\ <<>> \in Seq(Entries)
  BY EmptySeq
<1>4. Talking
  <2>1. MaxMessages \in Nat
    BY ChainAssumption DEF ChainAssumption
  <2>2. chain = [phase |-> "idle", batch |-> {}, todo |-> <<>>]
    BY DEF Init, NoBatch
  <2>3. /\ chain = [phase |-> chain.phase, batch |-> chain.batch, todo |-> chain.todo]
        /\ chain.phase \in ChainPhases /\ chain.batch \subseteq Received
    BY <2>2 DEF ChainPhases
  <2>4. sender = <<>> /\ Len(sender) <= MaxMessages
    BY <1>3, <2>1 DEF Init
  <2>5. reply \in [Messages -> ReplyStates] /\ history \in [Peers -> Seq(Entries)]
        /\ bot = "online" /\ \A m \in Messages : reply[m] = "none"
    BY <1>3 DEF Init, ReplyStates
  <2> QED BY <1>3, <2>3, <2>4, <2>5 DEF Talking
<1>5. Remembering
  BY <1>4, EmptyHistory DEF Init, Remembering
<1> QED BY <1>1, <1>2, <1>4, <1>5 DEF ReplyInv

LEMMA ReplySteps == ReplyInv /\ [Next]_vars => ReplyInv'
<1> SUFFICES ASSUME ReplyInv, [Next]_vars PROVE ReplyInv'
  OBVIOUS
<1>1. ConfigTypeOK /\ InboxTypeOK /\ Talking /\ Remembering
  BY DEF ReplyInv
<1>2. ConfigTypeOK'
  BY <1>1, ConfigStep, ConfigTypes DEF vars
<1> DEFINE Kept == InboxTypeOK' /\ Talking' /\ Remembering'
<1> SUFFICES Kept
  BY <1>2 DEF ReplyInv
<1>3. UNCHANGED bvars => Talking' /\ Remembering'
  BY <1>1, StaysFine, FineKeeps DEF bvars, Talking
<1>4. ASSUME NEW b \in Batches, Receive(b) PROVE Kept
  BY <1>1, <1>4, ReceiveKeeps, InboxTypes
<1>5. ASSUME UNCHANGED <<ivars, sender>>, bot' \in {"online", "hooks", "closed"},
             ChainFine, ReplyFine, HistoryFine
      PROVE  Kept
  BY <1>1, <1>5, InboxTypes, FineKeeps
<1>6. bot \in {"online", "hooks", "closed"}
  BY <1>1 DEF Talking
<1>7. CASE Inserted
  <2>1. (\E list \in Lists : Rest(list)) \/ chain' = NoBatch
    BY <1>7 DEF Inserted
  <2>2. ChainFine
    BY <1>1, <2>1, RestFine
  <2> QED BY <1>1, <1>5, <1>6, <1>7, <2>2, StaysFine DEF Inserted
<1>8. CASE CallOther
  <2>1. chain' = [phase |-> "handle", batch |-> chain.batch, todo |-> chain.todo]
    BY <1>1, <1>8 DEF CallOther, Talking
  <2>2. ChainFine
    BY <2>1 DEF ChainFine, ChainPhases
  <2> QED BY <1>1, <1>5, <1>6, <1>8, <2>2, StaysFine DEF CallOther
<1>9. CASE OtherReturns
  <2>1. \E todo : Rest(todo)
    BY <1>9 DEF OtherReturns
  <2>2. ChainFine
    BY <1>1, <2>1, RestFine
  <2> QED BY <1>1, <1>5, <1>6, <1>9, <2>2, StaysFine DEF OtherReturns
<1>10. CASE CallAI
  <2>1. ChainFine /\ ReplyFine
    BY <1>1, <1>10, CallAIFine
  <2> QED BY <1>1, <1>5, <1>6, <1>10, <2>1, StaysFine DEF CallAI
<1>11. ASSUME NEW m \in Messages, ReplyStep(m) PROVE Kept
  <2>1. ReplyFine /\ HistoryFine /\ UNCHANGED <<bot, sender, chain>>
    BY <1>1, <1>11, ReplyStepFine
  <2>2. UNCHANGED ivars
    BY <1>11 DEF ReplyStep, ReplyStarts, ModelAnswers, ModelFails, ReplySent, ReplyGoes
  <2> QED BY <1>1, <1>5, <1>6, <2>1, <2>2, StaysFine
<1>12. CASE ClearContext
  <2>1. HistoryFine
    BY <1>1, <1>12, EmptyHistory DEF ClearContext, HistoryFine
  <2> QED BY <1>1, <1>5, <1>6, <1>12, <2>1, StaysFine DEF ClearContext
<1>13. CASE GoOffline
  <2>1. ReplyFine
    <3>1. \A m \in Messages : reply'[m] # "none" => reply[m] # "none"
      BY <1>13 DEF GoOffline, CancelReplies, Running
    <3>2. reply' \in [Messages -> ReplyStates]
      BY <1>1, <1>13 DEF GoOffline, CancelReplies, Talking, ReplyStates
    <3> QED BY <3>1, <3>2 DEF ReplyFine
  <2> QED BY <1>1, <1>5, <1>13, <2>1, StaysFine DEF GoOffline
<1>14. CASE Close
  <2>1. ChainFine
    BY <1>1, <1>14, RestFine DEF Close
  <2> QED BY <1>1, <1>5, <1>14, <2>1, StaysFine DEF Close
<1>15. CASE Restart
  BY <1>1, <1>5, <1>15, StaysFine DEF Restart
<1>16. CASE InsertEnds \/ (InboxRequest /\ UNCHANGED bvars)
  BY <1>1, <1>3, <1>16, InboxTypes DEF InsertEnds
<1>17. CASE UNCHANGED <<ivars, bvars>>
  BY <1>1, <1>3, <1>17, InboxTypes
<1> HIDE DEF Kept
<1> QED
  BY <1>4, <1>7, <1>8, <1>9, <1>10, <1>11, <1>12, <1>13, <1>14, <1>15, <1>16, <1>17
     DEF Next, Coroutine, vars

LEMMA ReplyHolds == Spec => []ReplyInv
BY ReplyStarted, ReplySteps, PTL DEF Spec

\* Configuration, inbox, chain and replies are of the types they declare: above
\* all no row of the inbox and no answer is about a message nobody sent.
THEOREM TypeCorrect == Spec => []TypeOK
<1>1. ReplyInv => TypeOK
  <2> SUFFICES ASSUME ReplyInv PROVE TypeOK
    OBVIOUS
  <2>1. ConfigTypeOK /\ InboxTypeOK /\ Talking
    BY DEF ReplyInv
  <2>2. chain.batch \subseteq Messages
    BY <2>1, ReceivedType DEF Talking
  <2> QED BY <2>1, <2>2 DEF TypeOK, Talking, ChainPhases
<1> QED BY <1>1, ReplyHolds, PTL

\* Two arithmetic facts, of halves.
LEMMA Halves == \A k \in Nat : (2 * k) % 2 = 0 /\ (2 * k) \div 2 = k
OBVIOUS

\* However many replies to one peer run at once, and whatever limit each was
\* started with, a history is a list of whole exchanges of that peer.
THEOREM HistoriesAreExchanges == Spec => []HistoryIsExchanges
<1>1. ReplyInv => HistoryIsExchanges
  <2> SUFFICES ASSUME ReplyInv, NEW p \in Peers
               PROVE  /\ Len(history[p]) % 2 = 0 /\ Len(history[p]) <= 2 * Max(Turns)
                      /\ \A i \in 1 .. Len(history[p]) \div 2 :
                            /\ history[p][2 * i - 1] = Turn("user", history[p][2 * i].of)
                            /\ history[p][2 * i].role = "assistant"
                            /\ sender[history[p][2 * i].of] = p
    BY DEF HistoryIsExchanges
  <2>1. PICK k \in 0 .. Max(Turns) : Exchanges(history[p], p, k)
    BY DEF ReplyInv, Remembering
  <2>2. /\ k \in Nat /\ 2 * k <= 2 * Max(Turns) /\ Len(history[p]) = 2 * k
    BY <2>1, MaxTurns DEF Exchanges
  <2>3. Len(history[p]) % 2 = 0 /\ Len(history[p]) \div 2 = k
    BY <2>2, Halves
  <2>4. ASSUME NEW i \in 1 .. k
        PROVE  /\ history[p][2 * i - 1] = Turn("user", history[p][2 * i].of)
               /\ history[p][2 * i].role = "assistant"
               /\ sender[history[p][2 * i].of] = p
    <3>1. PICK m \in 1 .. Len(sender) :
             /\ sender[m] = p
             /\ history[p][2 * i - 1] = Turn("user", m)
             /\ history[p][2 * i] = Turn("assistant", m)
      BY <2>1, <2>4 DEF Exchanges
    <3>2. history[p][2 * i].of = m /\ history[p][2 * i].role = "assistant"
      BY <3>1 DEF Turn
    <3> QED BY <3>1, <3>2
  <2> QED BY <2>2, <2>3, <2>4
<1> QED BY <1>1, ReplyHolds, PTL
=============================================================================
