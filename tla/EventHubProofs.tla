---------------------------- MODULE EventHubProofs ----------------------------
(***************************************************************************)
(* Theorems about EventHub, for any viewers and bots, any buffer and any   *)
(* number of events: the hub implements EventFeed.                         *)
(***************************************************************************)
EXTENDS EventHub, SequenceTheorems, WellFoundedInduction, TLAPS

(***************************************************************************)
(* The invariant, in five parts.                                           *)
(***************************************************************************)
Emission == [event : Event \cup {0}, todo : Seq(Sockets), stale : SUBSET Sockets]
Record == [event : Event, via : Emitters \cup {"replay"}]

Typed ==
    /\ TypeOK
    /\ emitter \in [Emitters -> Emission]
    /\ backlog \in [Sockets -> Seq(Event)]
    /\ got \in [Sockets -> SUBSET Record]

\* The buffer holds the latest events of the current login.
Window ==
    /\ Len(replay) <= published - cleared
    /\ Len(replay) = MaxReplay \/ Len(replay) = published - cleared
    /\ \A i \in 1 .. Len(replay) : replay[i] = published - Len(replay) + i

\* Nobody knows of a viewer that has not registered.
Newcomers == \A w \in Sockets : stage[w] = "new" =>
    /\ w \notin Range(subs) /\ w \notin broken
    /\ got[w] = {} /\ backlog[w] = <<>>
    /\ \A e \in Emitters : w \notin Range(emitter[e].todo)

\* A viewer that an emitter has still to serve is not sent that event
\* otherwise, nor a later one by that emitter.
Emitting == \A e \in Emitters :
    /\ emitter[e].event = 0 => emitter[e] = Idle
    /\ emitter[e].event <= published
    /\ IsInjective(emitter[e].todo)
    /\ \A f \in Emitters : emitter[f].event = emitter[e].event => f = e \/ emitter[e].event = 0
    /\ \A w \in Range(emitter[e].todo) :
          /\ emitter[e].event \notin Range(backlog[w])
          /\ \A r \in got[w] :
                /\ r.event # emitter[e].event
                /\ r.via = e => r.event < emitter[e].event

\* What is left of a replay is new to its viewer, and in order.
Replaying == \A w \in Sockets :
    /\ \A i, j \in DOMAIN backlog[w] : i < j => backlog[w][i] < backlog[w][j]
    /\ \A n \in Range(backlog[w]) : n <= published
    /\ \A r \in got[w] :
          /\ r.event <= published /\ r.event \notin Range(backlog[w])
          /\ r.via = "replay" => \A n \in Range(backlog[w]) : r.event < n

HInv == Typed /\ Window /\ Newcomers /\ Emitting /\ Replaying

(***************************************************************************)
(* Lists without repetitions.                                              *)
(***************************************************************************)

LEMMA RangeOf ==
    ASSUME NEW S, NEW s \in Seq(S)
    PROVE  /\ Range(s) \subseteq S
           /\ Range(s) = {s[i] : i \in 1 .. Len(s)}
           /\ DOMAIN s = 1 .. Len(s) /\ Len(s) \in Nat
           /\ (Range(s) = {} <=> s = <<>>)
<1>1. DOMAIN s = 1 .. Len(s) /\ Len(s) \in Nat
  BY LenProperties
<1>2. \A i \in 1 .. Len(s) : s[i] \in S
  BY ElementOfSeq
<1>3. Range(s) = {s[i] : i \in 1 .. Len(s)}
  BY <1>1 DEF Range
<1>4. s # <<>> => 1 \in 1 .. Len(s)
  <2>1. s # <<>> => Len(s) # 0
    BY EmptySeq
  <2> QED BY <1>1, <2>1
<1>5. s = <<>> => Range(s) = {}
  <2>1. s = <<>> => Len(s) = 0
    BY EmptySeq
  <2>2. Len(s) = 0 => 1 .. Len(s) = {}
    BY <1>1
  <2> QED BY <1>3, <2>1, <2>2
<1> QED BY <1>1, <1>2, <1>3, <1>4, <1>5

LEMMA AppendNew ==
    ASSUME NEW S, NEW s \in Seq(S), IsInjective(s), NEW x \in S, x \notin Range(s)
    PROVE  /\ Append(s, x) \in Seq(S) /\ IsInjective(Append(s, x))
           /\ Range(Append(s, x)) = Range(s) \cup {x}
<1> DEFINE t == Append(s, x)
           n == Len(s)
<1>1. /\ t \in Seq(S) /\ Len(t) = n + 1
      /\ \A i \in 1 .. n : t[i] = s[i]
      /\ t[n + 1] = x
  BY AppendProperties
<1>2. n \in Nat /\ DOMAIN s = 1 .. n /\ Range(s) = {s[i] : i \in 1 .. n}
  BY RangeOf
<1> HIDE DEF t, n
<1>3. DOMAIN t = 1 .. n + 1 /\ Range(t) = {t[i] : i \in 1 .. n + 1}
  <2>1. Range(t) = {t[i] : i \in 1 .. Len(t)} /\ DOMAIN t = 1 .. Len(t)
    BY <1>1, RangeOf
  <2> QED BY <1>1, <2>1
<1>4. \A i \in 1 .. n + 1 : i \in 1 .. n \/ i = n + 1
  BY <1>2
<1>5. n + 1 \in 1 .. n + 1 /\ \A i \in 1 .. n : i \in 1 .. n + 1
  BY <1>2
<1>6. Range(t) = Range(s) \cup {x}
  BY <1>1, <1>2, <1>3, <1>4, <1>5
<1>7. IsInjective(t)
  <2>1. \A i \in 1 .. n : t[i] # x
    BY <1>1, <1>2
  <2> QED BY <1>1, <1>2, <1>3, <1>4, <2>1 DEF IsInjective
<1> QED BY <1>1, <1>6, <1>7 DEF t

LEMMA TailOf ==
    ASSUME NEW S, NEW s \in Seq(S), s # <<>>
    PROVE  /\ Tail(s) \in Seq(S) /\ Head(s) \in Range(s) /\ Head(s) = s[1]
           /\ Len(s) \in Nat /\ Len(s) >= 1 /\ Len(Tail(s)) = Len(s) - 1
           /\ \A i \in 1 .. Len(Tail(s)) : i + 1 \in 1 .. Len(s) /\ Tail(s)[i] = s[i + 1]
           /\ Range(s) = Range(Tail(s)) \cup {Head(s)}
           /\ IsInjective(s) => IsInjective(Tail(s)) /\ Head(s) \notin Range(Tail(s))
<1> DEFINE t == Tail(s)
           n == Len(s)
<1>1. /\ t \in Seq(S) /\ Len(t) = n - 1 /\ Head(s) = s[1]
      /\ \A i \in 1 .. n - 1 : t[i] = s[i + 1]
  BY HeadTailProperties
<1>2. n \in Nat /\ DOMAIN s = 1 .. n /\ Range(s) = {s[i] : i \in 1 .. n} /\ n # 0
  BY RangeOf, EmptySeq
<1> HIDE DEF t, n
<1>3. DOMAIN t = 1 .. n - 1 /\ Range(t) = {t[i] : i \in 1 .. n - 1}
  <2>1. Range(t) = {t[i] : i \in 1 .. Len(t)} /\ DOMAIN t = 1 .. Len(t)
    BY <1>1, RangeOf
  <2> QED BY <1>1, <2>1
<1>4. /\ 1 \in 1 .. n /\ n >= 1
      /\ \A i \in 1 .. n - 1 : i + 1 \in 1 .. n /\ i + 1 # 1
      /\ \A i \in 1 .. n : i = 1 \/ (i - 1 \in 1 .. n - 1 /\ (i - 1) + 1 = i)
      /\ \A i, j \in 1 .. n - 1 : i + 1 = j + 1 => i = j
  BY <1>2
<1>5. Head(s) \in Range(s)
  BY <1>1, <1>2, <1>4
<1>6. Range(s) = Range(t) \cup {Head(s)}
  <2>1. ASSUME NEW i \in 1 .. n PROVE s[i] \in Range(t) \cup {Head(s)}
    <3>1. CASE i = 1
      BY <1>1, <3>1
    <3>2. CASE i - 1 \in 1 .. n - 1 /\ (i - 1) + 1 = i
      <4>1. t[i - 1] = s[(i - 1) + 1]
        BY <1>1, <3>2
      <4> QED BY <1>3, <3>2, <4>1
    <3> QED BY <1>4, <3>1, <3>2
  <2>2. Range(t) \subseteq Range(s)
    BY <1>1, <1>2, <1>3, <1>4
  <2> QED BY <1>2, <1>5, <2>1, <2>2
<1>7. IsInjective(s) => IsInjective(t) /\ Head(s) \notin Range(t)
  <2> SUFFICES ASSUME IsInjective(s) PROVE IsInjective(t) /\ Head(s) \notin Range(t)
    OBVIOUS
  <2>1. \A i, j \in 1 .. n : s[i] = s[j] => i = j
    BY <1>2 DEF IsInjective
  <2>2. IsInjective(t)
    BY <1>1, <1>3, <1>4, <2>1 DEF IsInjective
  <2>3. \A i \in 1 .. n - 1 : t[i] # Head(s)
    BY <1>1, <1>4, <2>1
  <2> QED BY <1>3, <2>2, <2>3
<1> QED BY <1>1, <1>2, <1>4, <1>5, <1>6, <1>7 DEF t, n

(***************************************************************************)
(* Without, by induction on the length of the list: there is no least      *)
(* length at which a claim fails.                                          *)
(***************************************************************************)

LEMMA LeastNat ==
    ASSUME NEW T, T \subseteq Nat, T # {}
    PROVE  \E n \in T : \A m \in T : n <= m
<1>1. IsWellFoundedOn(OpToRel(<, Nat), Nat)
  BY NatLessThanWellFounded, Zenon
<1>2. PICK n \in T : \A m \in T : ~ (<<m, n>> \in OpToRel(<, Nat))
  BY <1>1, WFMin, Zenon
<1>3. \A m \in T : ~ (m < n)
  BY <1>2 DEF OpToRel
<1>4. \A m \in T : n <= m
  BY <1>3
<1> QED BY <1>4

Kept(s, gone, kept, n) ==
    kept = [i \in 0 .. n |->
              IF i = 0 THEN <<>>
              ELSE IF s[i] \in gone THEN kept[i - 1] ELSE Append(kept[i - 1], s[i])]

LEMMA KeptExists ==
    ASSUME NEW s, NEW gone
    PROVE  \A n \in Nat : \E kept : Kept(s, gone, kept, n)
<1> DEFINE Bad == {n \in Nat : ~ \E kept : Kept(s, gone, kept, n)}
<1> SUFFICES ASSUME Bad # {} PROVE FALSE
  OBVIOUS
<1>0. Bad \subseteq Nat
  OBVIOUS
<1> HIDE DEF Bad
<1>1. PICK n \in Bad : \A m \in Bad : n <= m
  BY <1>0, LeastNat
<1> USE DEF Bad
<1>2. n \in Nat /\ ~ \E kept : Kept(s, gone, kept, n)
  BY <1>1
<1>3. CASE n = 0
  <2>1. Kept(s, gone, [i \in 0 .. 0 |-> <<>>], 0)
    BY DEF Kept
  <2> QED BY <1>2, <1>3, <2>1
<1>4. CASE n # 0
  <2>1. n - 1 \in Nat /\ ~ (n <= n - 1)
    BY <1>2, <1>4
  <2>2. n - 1 \notin Bad
    BY <1>1, <2>1
  <2>3. PICK f : Kept(s, gone, f, n - 1)
    BY <2>1, <2>2
  <2> DEFINE g == [i \in 0 .. n |->
                     IF i = n THEN IF s[n] \in gone THEN f[n - 1] ELSE Append(f[n - 1], s[n])
                     ELSE f[i]]
  <2>4. \A i \in 0 .. n - 1 :
           f[i] = IF i = 0 THEN <<>>
                  ELSE IF s[i] \in gone THEN f[i - 1] ELSE Append(f[i - 1], s[i])
    BY <2>3 DEF Kept
  <2>5. ASSUME NEW i \in 0 .. n
        PROVE  g[i] = IF i = 0 THEN <<>>
                      ELSE IF s[i] \in gone THEN g[i - 1] ELSE Append(g[i - 1], s[i])
    <3>1. CASE i = n
      <4>1. n - 1 \in 0 .. n /\ n - 1 # n
        BY <1>2, <1>4
      <4>2. g[n - 1] = f[n - 1]
        BY <4>1
      <4> QED BY <1>4, <3>1, <4>2
    <3>2. CASE i # n
      <4>1. i \in 0 .. n - 1 /\ (i # 0 => i - 1 \in 0 .. n /\ i - 1 # n)
        BY <1>2, <3>2
      <4>2. g[i] = f[i] /\ (i # 0 => g[i - 1] = f[i - 1])
        BY <3>2, <4>1
      <4> QED BY <2>4, <4>1, <4>2
    <3> QED BY <3>1, <3>2
  <2>6. g = [i \in 0 .. n |-> g[i]]
    OBVIOUS
  <2> HIDE DEF g
  <2>7. Kept(s, gone, g, n)
    BY <2>5, <2>6 DEF Kept
  <2> QED BY <1>2, <2>7
<1> QED BY <1>3, <1>4

LEMMA WithoutIsKept ==
    ASSUME NEW s, NEW gone, Len(s) \in Nat
    PROVE  \E kept : Kept(s, gone, kept, Len(s)) /\ Without(s, gone) = kept[Len(s)]
<1>1. PICK f : Kept(s, gone, f, Len(s))
  BY KeptExists
<1> DEFINE c == CHOOSE kept : Kept(s, gone, kept, Len(s))
<1>2. Kept(s, gone, c, Len(s))
  BY <1>1, Zenon
<1>3. Without(s, gone) = c[Len(s)]
  BY Zenon DEF Without, Kept
<1> QED BY <1>2, <1>3

LEMMA WithoutKeepsOthers ==
    ASSUME NEW S, NEW s \in Seq(S), IsInjective(s), NEW gone
    PROVE  /\ Without(s, gone) \in Seq(S) /\ IsInjective(Without(s, gone))
           /\ Range(Without(s, gone)) = Range(s) \ gone
<1> DEFINE n == Len(s)
<1>1. n \in Nat /\ Range(s) = {s[i] : i \in 1 .. n} /\ DOMAIN s = 1 .. n
      /\ \A i \in 1 .. n : s[i] \in S
  BY RangeOf, ElementOfSeq
<1>2. PICK kept : Kept(s, gone, kept, n) /\ Without(s, gone) = kept[n]
  BY <1>1, WithoutIsKept
<1> HIDE DEF n
<1>3. \A i \in 0 .. n : kept[i] = IF i = 0 THEN <<>>
                                  ELSE IF s[i] \in gone THEN kept[i - 1]
                                       ELSE Append(kept[i - 1], s[i])
  BY <1>2 DEF Kept
<1> DEFINE Fine(m) == /\ kept[m] \in Seq(S) /\ IsInjective(kept[m])
                      /\ Range(kept[m]) = {s[i] : i \in 1 .. m} \ gone
           Bad == {m \in 0 .. n : ~Fine(m)}
<1>4. Bad = {}
  <2> SUFFICES ASSUME Bad # {} PROVE FALSE
    OBVIOUS
  <2>0. Bad \subseteq Nat
    BY <1>1
  <2> HIDE DEF Bad
  <2>1. PICK m \in Bad : \A k \in Bad : m <= k
    BY <2>0, LeastNat
  <2> USE DEF Bad
  <2>2. m \in 0 .. n /\ ~Fine(m)
    BY <2>1
  <2>3. CASE m = 0
    <3>1. kept[m] = <<>>
      BY <1>3, <2>2, <2>3
    <3>2. 1 .. 0 = {} /\ {s[i] : i \in 1 .. m} = {}
      BY <2>3
    <3>3. <<>> \in Seq(S) /\ Range(<<>>) = {} /\ IsInjective(<<>>)
      <4>1. <<>> \in Seq(S) /\ DOMAIN <<>> = {}
        BY EmptySeq
      <4> QED BY <4>1 DEF Range, IsInjective
    <3> QED BY <2>2, <3>1, <3>2, <3>3
  <2>4. CASE m # 0
    <3>1. m - 1 \in 0 .. n /\ ~(m <= m - 1) /\ m \in 1 .. n /\ m \notin 1 .. m - 1
      BY <1>1, <2>2, <2>4
    <3>2. Fine(m - 1)
      BY <2>1, <3>1
    <3>3. 1 .. m = 1 .. m - 1 \cup {m}
      BY <1>1, <3>1
    <3>4. {s[i] : i \in 1 .. m} = {s[i] : i \in 1 .. m - 1} \cup {s[m]}
      BY <3>3
    <3>5. CASE s[m] \in gone
      <4>1. kept[m] = kept[m - 1]
        BY <1>3, <2>4, <3>1, <3>5
      <4> QED BY <2>2, <3>2, <3>4, <3>5, <4>1
    <3>6. CASE s[m] \notin gone
      <4>1. kept[m] = Append(kept[m - 1], s[m])
        BY <1>3, <2>2, <2>4, <3>6
      <4>2. s[m] \notin {s[i] : i \in 1 .. m - 1}
        <5>1. \A i \in 1 .. m - 1 : i \in 1 .. n /\ i # m
          BY <1>1, <3>1
        <5> QED BY <1>1, <3>1, <5>1 DEF IsInjective
      <4>3. s[m] \in S /\ s[m] \notin Range(kept[m - 1])
        BY <1>1, <3>1, <3>2, <4>2
      <4>4. /\ Append(kept[m - 1], s[m]) \in Seq(S) /\ IsInjective(Append(kept[m - 1], s[m]))
            /\ Range(Append(kept[m - 1], s[m])) = Range(kept[m - 1]) \cup {s[m]}
        BY <3>2, <4>3, AppendNew
      <4> QED BY <2>2, <3>2, <3>4, <3>6, <4>1, <4>4
    <3> QED BY <3>5, <3>6
  <2> QED BY <2>3, <2>4
<1>5. Fine(n)
  <2>1. n \in 0 .. n
    BY <1>1
  <2> QED BY <1>4, <2>1
<1> QED BY <1>1, <1>2, <1>5

(***************************************************************************)
(* The parts of the invariant, step by step.                               *)
(***************************************************************************)

\* An event is added to the buffer.
LEMMA WindowGrows ==
    ASSUME Typed, Window, published < MaxEvents, published' = published + 1,
           replay' = Latest(Append(replay, published')), cleared' = cleared
    PROVE  /\ replay' \in Seq(Event) /\ Len(replay') <= MaxReplay
           /\ Window'
           /\ published' \in 0 .. MaxEvents /\ cleared' \in 0 .. published'
<1>1. /\ replay \in Seq(Event) /\ Len(replay) <= MaxReplay
      /\ published \in 0 .. MaxEvents /\ cleared \in 0 .. published
      /\ MaxReplay \in Nat \ {0} /\ MaxEvents \in Nat
  BY HubAssumption DEF Typed, TypeOK, HubAssumption
<1>2. PICK n, c, old : n = published + 1 /\ c = cleared /\ old = replay
  OBVIOUS
<1>3. n \in Event /\ n \in Nat /\ c \in Nat /\ c <= n - 1 /\ n <= MaxEvents /\ published = n - 1
  BY <1>1, <1>2 DEF Event
<1> DEFINE k == Len(old)
           new == Append(old, n)
<1>4. /\ k \in Nat /\ k <= MaxReplay /\ k <= n - 1 - c
      /\ k = MaxReplay \/ k = n - 1 - c
      /\ \A i \in 1 .. k : old[i] = n - 1 - k + i
  BY <1>1, <1>2, <1>3, LenProperties DEF Window
<1>5. /\ new \in Seq(Event) /\ new # <<>> /\ Len(new) = k + 1
      /\ \A i \in 1 .. k : new[i] = old[i]
      /\ new[k + 1] = n
  <2>1. /\ new \in Seq(Event) /\ Len(new) = k + 1
        /\ \A i \in 1 .. k : new[i] = old[i]
        /\ new[k + 1] = n
    BY <1>1, <1>2, <1>3, AppendProperties
  <2>2. k + 1 # 0
    BY <1>4
  <2> HIDE DEF new, k
  <2> QED BY <2>1, <2>2, EmptySeq
<1> HIDE DEF new, k
<1>6. \A i \in 1 .. k + 1 : new[i] = n - (k + 1) + i
  <2> TAKE i \in 1 .. k + 1
  <2>1. CASE i = k + 1
    <3>1. n - (k + 1) + (k + 1) = n
      BY <1>3, <1>4
    <3> QED BY <1>5, <2>1, <3>1
  <2>2. CASE i # k + 1
    <3>1. i \in 1 .. k
      BY <1>4, <2>2
    <3>2. n - 1 - k + i = n - (k + 1) + i
      BY <1>3, <1>4, <3>1
    <3> QED BY <1>4, <1>5, <3>1, <3>2
  <2> QED BY <2>1, <2>2
<1>7. replay' = IF k + 1 > MaxReplay THEN Tail(new) ELSE new
  BY <1>2, <1>5 DEF Latest, new
<1>8. published' = n /\ cleared' = c
  BY <1>2
<1>9. CASE k + 1 > MaxReplay
  <2>1. k = MaxReplay
    BY <1>1, <1>4, <1>9
  <2>2. PICK t : t = Tail(new)
    OBVIOUS
  <2>3. /\ t \in Seq(Event) /\ Len(t) = k
        /\ \A i \in 1 .. k : t[i] = new[i + 1]
    <3>1. /\ t \in Seq(Event) /\ Len(t) = Len(new) - 1
          /\ \A i \in 1 .. Len(t) : t[i] = new[i + 1]
      BY <1>5, <2>2, TailOf
    <3>2. k + 1 - 1 = k
      BY <1>4
    <3>3. Len(t) = k
      <4>1. Len(t) = Len(new) - 1 /\ Len(new) = k + 1
        BY <1>5, <3>1
      <4>2. Len(t) = (k + 1) - 1
        BY <4>1, Zenon
      <4>3. k \in Nat
        BY <1>4
      <4> QED BY <4>2, <4>3
    <3> QED BY <3>1, <3>3
  <2>4. \A i \in 1 .. k : t[i] = n - k + i
    <3> TAKE i \in 1 .. k
    <3>1. i + 1 \in 1 .. k + 1 /\ n - (k + 1) + (i + 1) = n - k + i
      BY <1>3, <1>4
    <3> QED BY <1>6, <2>3, <3>1
  <2>5. k <= n - c
    BY <1>3, <1>4
  <2>6. replay' = t
    BY <1>7, <1>9, <2>2
  <2>7. Window'
    BY <1>8, <2>1, <2>3, <2>4, <2>5, <2>6 DEF Window
  <2> QED BY <1>1, <1>3, <1>4, <1>8, <2>3, <2>6, <2>7
<1>10. CASE ~(k + 1 > MaxReplay)
  <2>1. k + 1 <= MaxReplay /\ k = n - 1 - c
    BY <1>1, <1>4, <1>10
  <2>2. k + 1 = n - c
    BY <1>3, <1>4, <2>1
  <2>3. replay' = new
    BY <1>7, <1>10
  <2>4. k + 1 <= n - c
    BY <1>3, <2>2
  <2>5. Window'
    BY <1>5, <1>6, <1>8, <2>2, <2>3, <2>4 DEF Window
  <2> QED BY <1>1, <1>3, <1>5, <1>8, <2>1, <2>3, <2>5
<1> QED BY <1>9, <1>10

\* The buffer, read as EventFeed does: the latest events of the login.
LEMMA WindowIsLatest ==
    ASSUME Typed, Window
    PROVE  Range(replay) = {n \in cleared + 1 .. published : n + MaxReplay > published}
<1>1. /\ replay \in Seq(Event) /\ Len(replay) <= MaxReplay
      /\ published \in Nat /\ cleared \in 0 .. published
      /\ MaxReplay \in Nat \ {0}
  BY HubAssumption DEF Typed, TypeOK, HubAssumption
<1>2. PICK k : k = Len(replay)
  OBVIOUS
<1>3. /\ k \in Nat /\ k <= published - cleared
      /\ k = MaxReplay \/ k = published - cleared
      /\ Range(replay) = {replay[i] : i \in 1 .. k}
      /\ \A i \in 1 .. k : replay[i] = published - k + i
  BY <1>1, <1>2, RangeOf DEF Window
<1>4. ASSUME NEW i \in 1 .. k
      PROVE  published - k + i \in cleared + 1 .. published
             /\ published - k + i + MaxReplay > published
  <2>1. k <= MaxReplay
    BY <1>1, <1>2
  <2> QED BY <1>1, <1>3, <2>1
<1>5. ASSUME NEW n \in cleared + 1 .. published, n + MaxReplay > published
      PROVE  n - published + k \in 1 .. k /\ n = published - k + (n - published + k)
  <2>1. n - published + k >= 1
    BY <1>1, <1>3, <1>5
  <2> QED BY <1>1, <1>3, <2>1
<1>6. ASSUME NEW n \in cleared + 1 .. published, n + MaxReplay > published
      PROVE  \E i \in 1 .. k : n = replay[i]
  BY <1>3, <1>5, <1>6
<1> QED BY <1>3, <1>4, <1>6

\* What a viewer is owed, element by element, before and after a step.
LEMMA OwedIs ==
    /\ \A w, m : m \in Owed(w) <=>
          \/ m \in Range(backlog[w])
          \/ \E f \in Emitters : w \in Range(emitter[f].todo) /\ m = emitter[f].event
    /\ \A w, m : m \in Owed(w)' <=>
          \/ m \in Range(backlog'[w])
          \/ \E f \in Emitters : w \in Range(emitter'[f].todo) /\ m = emitter'[f].event
BY DEF Owed

LEMMA TypedParts ==
    ASSUME Typed
    PROVE  /\ \A e \in Emitters :
                 /\ emitter[e] \in Emission
                 /\ emitter[e].event \in Event \cup {0}
                 /\ emitter[e].todo \in Seq(Sockets) /\ emitter[e].stale \subseteq broken
                 /\ Range(emitter[e].todo) \subseteq Sockets
           /\ \A w \in Sockets :
                 /\ backlog[w] \in Seq(Event) /\ Range(backlog[w]) \subseteq Event
                 /\ got[w] \subseteq Record
                 /\ \A r \in got[w] : r.event \in Event
           /\ subs \in Seq(Sockets) /\ IsInjective(subs) /\ Range(subs) \subseteq Sockets
           /\ (Range(subs) = {} <=> subs = <<>>)
           /\ published \in 0 .. MaxEvents /\ MaxEvents \in Nat
<1>1. \A e \in Emitters : emitter[e] \in Emission
  BY DEF Typed
<1>2. \A e \in Emitters : emitter[e].todo \in Seq(Sockets)
  BY <1>1 DEF Emission
<1>3. \A e \in Emitters : Range(emitter[e].todo) \subseteq Sockets
  BY <1>2, RangeOf
<1>4. \A w \in Sockets : backlog[w] \in Seq(Event)
  BY DEF Typed
<1>5. \A w \in Sockets : Range(backlog[w]) \subseteq Event
  BY <1>4, RangeOf
<1>6. \A w \in Sockets : got[w] \subseteq Record /\ \A r \in got[w] : r.event \in Event
  BY DEF Typed, Record
<1>7. subs \in Seq(Sockets) /\ IsInjective(subs)
  BY DEF Typed, TypeOK
<1>8. Range(subs) \subseteq Sockets /\ (Range(subs) = {} <=> subs = <<>>)
  BY <1>7, RangeOf
<1> QED BY <1>1, <1>2, <1>3, <1>4, <1>5, <1>6, <1>7, <1>8, HubAssumption
        DEF Typed, TypeOK, Emission, HubAssumption

LEMMA EmptyRange == Range(<<>>) = {} /\ <<>> \in Seq(Sockets) /\ IsInjective(<<>>)
<1>1. <<>> \in Seq(Sockets) /\ DOMAIN <<>> = {}
  BY EmptySeq
<1> QED BY <1>1 DEF Range, IsInjective

LEMMA IdleServesNobody ==
    ASSUME NEW e \in Emitters, emitter[e] = Idle
    PROVE  /\ emitter[e].event = 0 /\ emitter[e].todo = <<>>
           /\ Range(emitter[e].todo) = {}
BY EmptyRange DEF Idle

LEMMA EmitStep ==
    ASSUME HInv, NEW e \in Emitters, Emit(e)
    PROVE  /\ HInv'
           /\ \A w \in Sockets : Owed(w)' = IF w \in Range(subs)
                                            THEN Owed(w) \cup {published'} ELSE Owed(w)
<1>1. /\ Typed /\ Window /\ Newcomers /\ Emitting /\ Replaying
      /\ emitter[e] = Idle /\ published < MaxEvents /\ published' = published + 1
      /\ replay' = Latest(Append(replay, published'))
      /\ UNCHANGED <<subs, cleared, abandoned, stage, backlog, broken, got>>
  BY DEF HInv, Emit
<1>2. PICK n, new : n = published' /\ new = [event |-> n, todo |-> subs, stale |-> {}]
  OBVIOUS
<1>3. n \in Event /\ n = published + 1 /\ n # 0 /\ \A m : m \in Nat /\ m <= published => m < n /\ m # n
  BY <1>1, <1>2, TypedParts DEF Event
<1>4. new \in Emission /\ new.event = n /\ new.todo = subs /\ new.stale = {}
  BY <1>1, <1>2, <1>3, TypedParts DEF Emission
<1>5. emitter' = IF subs = <<>> THEN emitter ELSE [emitter EXCEPT ![e] = new]
  BY <1>2 DEF Emit
<1>6. /\ emitter' \in [Emitters -> Emission]
      /\ \A f \in Emitters : emitter'[f] = IF subs # <<>> /\ f = e THEN new ELSE emitter[f]
  BY <1>1, <1>4, <1>5 DEF Typed
<1>7. /\ replay' \in Seq(Event) /\ Len(replay') <= MaxReplay /\ Window'
      /\ published' \in 0 .. MaxEvents /\ cleared' \in 0 .. published'
  BY <1>1, WindowGrows
<1>8. Typed'
  <2>1. \A f \in Emitters :
           /\ emitter'[f].event \in Event \cup {0}
           /\ emitter'[f].todo \in Seq(Sockets) /\ emitter'[f].stale \subseteq broken
    BY <1>1, <1>4, <1>6, TypedParts DEF Emission
  <2> QED BY <1>1, <1>6, <1>7, <2>1 DEF Typed, TypeOK
<1>9. Newcomers'
  BY <1>1, <1>4, <1>6 DEF Newcomers
<1>10. \A w \in Sockets :
          /\ n \notin Range(backlog[w])
          /\ \A r \in got[w] : r.event < n /\ r.event # n
  BY <1>1, <1>3, TypedParts DEF Replaying, Event
<1>11. \A f \in Emitters : emitter[f].event <= published /\ emitter[f].event # n
  BY <1>1, <1>3, TypedParts DEF Emitting, Event
<1>12. Emitting'
  <2> SUFFICES ASSUME NEW f \in Emitters
               PROVE  /\ emitter'[f].event = 0 => emitter'[f] = Idle
                      /\ emitter'[f].event <= published'
                      /\ IsInjective(emitter'[f].todo)
                      /\ \A g \in Emitters : emitter'[g].event = emitter'[f].event
                            => g = f \/ emitter'[f].event = 0
                      /\ \A w \in Range(emitter'[f].todo) :
                            /\ emitter'[f].event \notin Range(backlog'[w])
                            /\ \A r \in got'[w] :
                                  /\ r.event # emitter'[f].event
                                  /\ r.via = f => r.event < emitter'[f].event
    BY DEF Emitting
  <2>1. CASE subs # <<>> /\ f = e
    <3>1. emitter'[f] = new
      BY <1>6, <2>1
    <3>2. \A g \in Emitters : emitter'[g].event = n => g = f
      BY <1>6, <1>11, <2>1
    <3>3. n <= published' /\ IsInjective(subs) /\ Range(subs) \subseteq Sockets
      BY <1>1, <1>2, <1>3, TypedParts
    <3> QED BY <1>1, <1>3, <1>4, <1>10, <3>1, <3>2, <3>3
  <2>2. CASE ~(subs # <<>> /\ f = e)
    <3>1. emitter'[f] = emitter[f]
      BY <1>6, <2>2
    <3>2. \A g \in Emitters : emitter'[g].event = emitter[f].event
             => g = f \/ emitter[f].event = 0
      BY <1>1, <1>4, <1>6, <1>11 DEF Emitting
    <3>3. emitter[f].event <= published'
      <4>1. /\ emitter[f].event \in Event \cup {0} /\ published \in 0 .. MaxEvents
            /\ MaxEvents \in Nat /\ published' = published + 1
        BY <1>1, TypedParts
      <4>2. emitter[f].event \in Nat /\ published \in Nat
        BY <4>1 DEF Event
      <4>3. emitter[f].event <= published
        BY <1>11
      <4> QED BY <4>1, <4>2, <4>3
    <3> QED BY <1>1, <3>1, <3>2, <3>3 DEF Emitting
  <2> QED BY <2>1, <2>2
<1>13. Replaying'
  <2>1. \A m \in Event : m <= published => m <= published'
    BY <1>1, TypedParts DEF Event
  <2> QED BY <1>1, <2>1, TypedParts DEF Replaying
<1>14. ASSUME NEW w \in Sockets
       PROVE  Owed(w)' = IF w \in Range(subs) THEN Owed(w) \cup {n} ELSE Owed(w)
  <2>1. w \notin Range(emitter[e].todo)
    BY <1>1, IdleServesNobody
  <2>2. w \in Range(subs) => subs # <<>>
    BY EmptyRange
  <2>3. \A m : m \in Owed(w)' <=> m \in Owed(w) \/ (w \in Range(subs) /\ m = n)
    BY <1>1, <1>4, <1>6, <2>1, <2>2, OwedIs
  <2> QED BY <2>3
<1> QED BY <1>2, <1>7, <1>8, <1>9, <1>12, <1>13, <1>14 DEF HInv

\* The next target is served, or found to be broken.
LEMMA SendStep ==
    ASSUME HInv, NEW e \in Emitters, SendNext(e)
    PROVE  /\ HInv'
           /\ \E w \in Sockets :
                 /\ emitter[e].event \in Owed(w) /\ emitter[e].event \in Event
                 /\ \A v \in Sockets : Owed(v)' = IF v = w THEN Owed(v) \ {emitter[e].event}
                                                           ELSE Owed(v)
                 /\ \A r \in got[w] :
                       /\ r.event # emitter[e].event
                       /\ r.via = e => r.event < emitter[e].event
                 /\ got' = IF w \in broken THEN got
                           ELSE [got EXCEPT ![w] =
                                   @ \cup {[event |-> emitter[e].event, via |-> e]}]
                 /\ UNCHANGED <<subs, published, cleared, abandoned, broken>>
<1>1. /\ Typed /\ Window /\ Newcomers /\ Emitting /\ Replaying
      /\ emitter[e].todo # <<>>
      /\ UNCHANGED <<replay, subs, published, cleared, abandoned, stage, backlog, broken>>
  BY DEF HInv, SendNext
<1>2. PICK n, w, rest : n = emitter[e].event /\ w = Head(emitter[e].todo)
                        /\ rest = Tail(emitter[e].todo)
  OBVIOUS
<1>3. /\ emitter[e] \in Emission /\ emitter[e].todo \in Seq(Sockets)
      /\ IsInjective(emitter[e].todo) /\ emitter[e].stale \subseteq broken
      /\ Range(emitter[e].todo) \subseteq Sockets
  BY <1>1, TypedParts DEF Emitting
<1>4. /\ rest \in Seq(Sockets) /\ IsInjective(rest) /\ w \in Sockets
      /\ Range(emitter[e].todo) = Range(rest) \cup {w} /\ w \notin Range(rest)
  BY <1>1, <1>2, <1>3, TailOf
<1>5. n \in Event /\ emitter[e] # Idle
  <2>1. emitter[e] # Idle
    BY <1>1 DEF Idle
  <2> QED BY <1>1, <1>2, <2>1, TypedParts DEF Emitting
<1>6. n # 0 /\ n <= published
  BY <1>1, <1>2, <1>5 DEF Emitting, Event
<1>7. PICK more : more = IF w \in broken THEN emitter[e].stale \cup {w} ELSE emitter[e].stale
  OBVIOUS
<1>8. PICK new : new = [event |-> n, todo |-> rest, stale |-> more]
  OBVIOUS
<1>9. /\ new \in Emission /\ new.event = n /\ new.todo = rest
      /\ new.stale \subseteq broken
  BY <1>1, <1>3, <1>4, <1>5, <1>7, <1>8 DEF Emission
<1>10. /\ emitter' \in [Emitters -> Emission]
       /\ \A f \in Emitters : emitter'[f] = IF f = e THEN new ELSE emitter[f]
  <2>1. emitter' = [emitter EXCEPT ![e].todo = rest, ![e].stale = more]
    BY <1>2, <1>7 DEF SendNext
  <2>2. /\ DOMAIN emitter' = Emitters
        /\ emitter' = [f \in Emitters |-> emitter'[f]]
        /\ \A f \in Emitters : f # e => emitter'[f] = emitter[f]
        /\ emitter'[e] = [[emitter[e] EXCEPT !.todo = rest] EXCEPT !.stale = more]
    BY <1>1, <2>1 DEF Typed
  <2>3. emitter'[e] = new
    BY <1>2, <1>3, <1>8, <2>2 DEF Emission
  <2>4. \A f \in Emitters : emitter'[f] \in Emission
    BY <1>1, <1>9, <2>2, <2>3, TypedParts
  <2> QED BY <2>2, <2>3, <2>4
<1>11. PICK record : record = [event |-> n, via |-> e]
  OBVIOUS
<1>12. record \in Record /\ record.event = n /\ record.via = e /\ record.via # "replay"
  BY <1>5, <1>11, HubAssumption DEF Record, HubAssumption
<1>13. got' = IF w \in broken THEN got ELSE [got EXCEPT ![w] = @ \cup {record}]
  BY <1>2, <1>11 DEF SendNext, Sent
<1>14. /\ got' \in [Sockets -> SUBSET Record]
       /\ \A v \in Sockets : got'[v] = IF v = w /\ w \notin broken THEN got[v] \cup {record}
                                                                   ELSE got[v]
  BY <1>1, <1>4, <1>12, <1>13 DEF Typed
<1>15. Typed'
  <2>1. \A f \in Emitters :
           /\ emitter'[f].event \in Event \cup {0}
           /\ emitter'[f].todo \in Seq(Sockets) /\ emitter'[f].stale \subseteq broken
    BY <1>1, <1>4, <1>5, <1>9, <1>10, TypedParts
  <2>2. \A v \in Sockets : got'[v] \subseteq Record
    BY <1>14
  <2> QED BY <1>1, <1>10, <1>14, <2>1, <2>2 DEF Typed, TypeOK, Record
<1>16. \A f \in Emitters : Range(emitter'[f].todo) \subseteq Range(emitter[f].todo)
  BY <1>4, <1>9, <1>10
<1>17. Newcomers'
  <2>1. stage[w] # "new"
    BY <1>1, <1>4 DEF Newcomers
  <2> QED BY <1>1, <1>14, <1>16, <2>1 DEF Newcomers
<1>18. \A f \in Emitters : emitter'[f].event = emitter[f].event
  BY <1>2, <1>9, <1>10
<1>19. Emitting'
  <2> SUFFICES ASSUME NEW f \in Emitters
               PROVE  /\ emitter'[f].event = 0 => emitter'[f] = Idle
                      /\ emitter'[f].event <= published'
                      /\ IsInjective(emitter'[f].todo)
                      /\ \A g \in Emitters : emitter'[g].event = emitter'[f].event
                            => g = f \/ emitter'[f].event = 0
                      /\ \A v \in Range(emitter'[f].todo) :
                            /\ emitter'[f].event \notin Range(backlog'[v])
                            /\ \A r \in got'[v] :
                                  /\ r.event # emitter'[f].event
                                  /\ r.via = f => r.event < emitter'[f].event
    BY DEF Emitting
  <2>1. /\ emitter'[f].event <= published'
        /\ \A g \in Emitters : emitter'[g].event = emitter'[f].event
                 => g = f \/ emitter'[f].event = 0
    BY <1>1, <1>18 DEF Emitting
  <2>2. IsInjective(emitter'[f].todo) /\ (emitter'[f].event = 0 => emitter'[f] = Idle)
    BY <1>1, <1>4, <1>6, <1>9, <1>10 DEF Emitting
  <2>3. ASSUME NEW v \in Range(emitter'[f].todo)
        PROVE  /\ emitter'[f].event \notin Range(backlog'[v])
               /\ \A r \in got'[v] :
                     /\ r.event # emitter'[f].event
                     /\ r.via = f => r.event < emitter'[f].event
    <3>1. v \in Range(emitter[f].todo) /\ v \in Sockets
      BY <1>1, <1>16, <2>3, TypedParts
    <3>2. /\ emitter[f].event \notin Range(backlog[v])
          /\ \A r \in got[v] :
                /\ r.event # emitter[f].event
                /\ r.via = f => r.event < emitter[f].event
      BY <1>1, <3>1 DEF Emitting
    <3>3. v = w => f # e
      BY <1>4, <1>9, <1>10, <2>3
    <3>4. v = w => emitter[f].event # n
      BY <1>1, <1>2, <1>6, <3>3 DEF Emitting
    <3> QED BY <1>1, <1>12, <1>14, <1>18, <3>1, <3>2, <3>3, <3>4
  <2> QED BY <2>1, <2>2, <2>3
<1>20. /\ n \notin Range(backlog[w])
       /\ \A r \in got[w] : r.event # n /\ (r.via = e => r.event < n)
  <2>1. w \in Range(emitter[e].todo)
    BY <1>4
  <2> QED BY <1>1, <1>2, <2>1 DEF Emitting
<1>21. Replaying'
  <2> SUFFICES ASSUME NEW v \in Sockets
               PROVE  \A r \in got'[v] :
                         /\ r.event <= published /\ r.event \notin Range(backlog[v])
                         /\ r.via = "replay" => \A m \in Range(backlog[v]) : r.event < m
    BY <1>1 DEF Replaying
  <2> QED BY <1>1, <1>6, <1>12, <1>14, <1>20 DEF Replaying
<1>22. ASSUME NEW v \in Sockets
       PROVE  Owed(v)' = IF v = w THEN Owed(v) \ {n} ELSE Owed(v)
  <2>1. CASE v # w
    <3>1. \A f \in Emitters : v \in Range(emitter'[f].todo) <=> v \in Range(emitter[f].todo)
      BY <1>4, <1>9, <1>10, <2>1
    <3>2. \A m : m \in Owed(v)' <=> m \in Owed(v)
      BY <1>1, <1>18, <3>1, OwedIs
    <3> QED BY <2>1, <3>2
  <2>2. CASE v = w
    <3>1. \A f \in Emitters : v \in Range(emitter'[f].todo) <=>
                                 f # e /\ v \in Range(emitter[f].todo)
      BY <1>4, <1>9, <1>10, <2>2
    <3>2. \A f \in Emitters : f # e => emitter[f].event # n
      BY <1>1, <1>2, <1>6 DEF Emitting
    <3>3. \A m : m \in Owed(v)' <=> m \in Owed(v) /\ m # n
      BY <1>1, <1>2, <1>18, <1>20, <2>2, <3>1, <3>2, OwedIs
    <3> QED BY <2>2, <3>3
  <2> QED BY <2>1, <2>2
<1>23. n \in Owed(w)
  BY <1>2, <1>4, OwedIs
<1>24. HInv'
  BY <1>1, <1>15, <1>17, <1>19, <1>21 DEF HInv, Window
<1>25. got' = IF w \in broken THEN got
              ELSE [got EXCEPT ![w] = @ \cup {[event |-> emitter[e].event, via |-> e]}]
  BY <1>2, <1>11, <1>13
<1>26. \A r \in got[w] :
          /\ r.event # emitter[e].event
          /\ r.via = e => r.event < emitter[e].event
  BY <1>2, <1>20
<1>27. \A v \in Sockets : Owed(v)' = IF v = w THEN Owed(v) \ {emitter[e].event} ELSE Owed(v)
  BY <1>2, <1>22
<1> QED BY <1>1, <1>2, <1>4, <1>5, <1>23, <1>24, <1>25, <1>26, <1>27

\* Emitting and Owed, when emitters return and the rest stays.
LEMMA EmitterReturns ==
    ASSUME HInv, NEW e \in Emitters, emitter[e] # Idle,
           emitter' = [emitter EXCEPT ![e] = Idle],
           UNCHANGED <<published, backlog, got>>
    PROVE  /\ emitter' \in [Emitters -> Emission]
           /\ \A f \in Emitters : emitter'[f] = IF f = e THEN Idle ELSE emitter[f]
           /\ Emitting' /\ Replaying'
           /\ emitter[e].event \in 1 .. published
           /\ \A w \in Sockets : Owed(w)' = IF w \in Range(emitter[e].todo)
                                            THEN Owed(w) \ {emitter[e].event} ELSE Owed(w)
<1>1. Typed /\ Emitting /\ Replaying
  BY DEF HInv
<1>2. Idle \in Emission
  BY EmptyRange DEF Idle, Emission
<1>3. /\ emitter' \in [Emitters -> Emission]
      /\ \A f \in Emitters : emitter'[f] = IF f = e THEN Idle ELSE emitter[f]
  BY <1>1, <1>2 DEF Typed
<1>4. Idle.event = 0 /\ Idle.todo = <<>> /\ Range(Idle.todo) = {} /\ IsInjective(Idle.todo)
  BY EmptyRange DEF Idle
<1>5. emitter[e].event \in 1 .. published
  <2>1. /\ emitter[e].event \in Event \cup {0} /\ emitter[e].event # 0
        /\ emitter[e].event <= published
    BY <1>1, TypedParts DEF Emitting
  <2>2. published \in 0 .. MaxEvents /\ MaxEvents \in Nat
    BY <1>1, TypedParts
  <2> QED BY <2>1, <2>2 DEF Event
<1>6. Emitting'
  <2> SUFFICES ASSUME NEW f \in Emitters
               PROVE  /\ emitter'[f].event = 0 => emitter'[f] = Idle
                      /\ emitter'[f].event <= published'
                      /\ IsInjective(emitter'[f].todo)
                      /\ \A g \in Emitters : emitter'[g].event = emitter'[f].event
                            => g = f \/ emitter'[f].event = 0
                      /\ \A w \in Range(emitter'[f].todo) :
                            /\ emitter'[f].event \notin Range(backlog'[w])
                            /\ \A r \in got'[w] :
                                  /\ r.event # emitter'[f].event
                                  /\ r.via = f => r.event < emitter'[f].event
    BY DEF Emitting
  <2>1. CASE f = e
    <3>1. emitter'[f] = Idle /\ 0 <= published
      BY <1>1, <1>3, <2>1, TypedParts
    <3> QED BY <1>4, <3>1
  <2>2. CASE f # e
    <3>1. emitter'[f] = emitter[f]
      BY <1>3, <2>2
    <3>2. \A g \in Emitters : emitter'[g].event = emitter[f].event
             => g = f \/ emitter[f].event = 0
      BY <1>1, <1>3, <1>4 DEF Emitting
    <3> QED BY <1>1, <3>1, <3>2 DEF Emitting
  <2> QED BY <2>1, <2>2
<1>7. Replaying'
  BY <1>1 DEF Replaying
<1>8. ASSUME NEW w \in Sockets
      PROVE  Owed(w)' = IF w \in Range(emitter[e].todo)
                        THEN Owed(w) \ {emitter[e].event} ELSE Owed(w)
  <2>1. \A f \in Emitters : w \in Range(emitter'[f].todo) <=>
                               f # e /\ w \in Range(emitter[f].todo)
    BY <1>3, <1>4
  <2>2. \A f \in Emitters : f # e => emitter'[f].event = emitter[f].event
    BY <1>3
  <2>3. CASE w \notin Range(emitter[e].todo)
    <3>1. \A m : m \in Owed(w)' <=> m \in Owed(w)
      BY <2>1, <2>2, <2>3, OwedIs
    <3> QED BY <2>3, <3>1
  <2>4. CASE w \in Range(emitter[e].todo)
    <3>1. emitter[e].event \notin Range(backlog[w])
      BY <1>1, <2>4 DEF Emitting
    <3>2. \A f \in Emitters : f # e => emitter[f].event # emitter[e].event
      BY <1>1, <1>5 DEF Emitting
    <3>3. \A m : m \in Owed(w)' <=> m \in Owed(w) /\ m # emitter[e].event
      BY <2>1, <2>2, <2>4, <3>1, <3>2, OwedIs
    <3> QED BY <2>4, <3>3
  <2> QED BY <2>3, <2>4
<1> QED BY <1>3, <1>5, <1>6, <1>7, <1>8

\* The broken targets are unregistered, and nobody else.
LEMMA EmitDoneStep ==
    ASSUME HInv, NEW e \in Emitters, EmitDone(e)
    PROVE  /\ HInv'
           /\ \A w \in Sockets : Owed(w)' = Owed(w)
           /\ Range(subs') \subseteq Range(subs) /\ Range(subs) \ broken \subseteq Range(subs')
           /\ UNCHANGED <<published, cleared, abandoned, broken, got>>
<1>1. /\ Typed /\ Window /\ Newcomers /\ Emitting /\ Replaying
      /\ emitter[e] # Idle /\ emitter[e].todo = <<>>
      /\ emitter' = [emitter EXCEPT ![e] = Idle]
      /\ UNCHANGED <<replay, published, cleared, abandoned, stage, backlog, broken, got>>
  BY DEF HInv, EmitDone
<1>2. /\ emitter' \in [Emitters -> Emission]
      /\ \A f \in Emitters : emitter'[f] = IF f = e THEN Idle ELSE emitter[f]
      /\ Emitting' /\ Replaying'
      /\ \A w \in Sockets : Owed(w)' = IF w \in Range(emitter[e].todo)
                                       THEN Owed(w) \ {emitter[e].event} ELSE Owed(w)
  BY <1>1, EmitterReturns
<1>3. Range(emitter[e].todo) = {} /\ Range(Idle.todo) = {} /\ Idle.todo = <<>>
      /\ Idle.stale = {} /\ Idle.event = 0 /\ <<>> \in Seq(Sockets)
  BY <1>1, EmptyRange DEF Idle
<1>4. subs' = Without(subs, emitter[e].stale)
  BY DEF EmitDone
<1>5. /\ subs' \in Seq(Sockets) /\ IsInjective(subs')
      /\ Range(subs') = Range(subs) \ emitter[e].stale
  <2>1. subs \in Seq(Sockets) /\ IsInjective(subs)
    BY <1>1, TypedParts
  <2>2. PICK gone : gone = emitter[e].stale
    OBVIOUS
  <2>3. /\ Without(subs, gone) \in Seq(Sockets) /\ IsInjective(Without(subs, gone))
        /\ Range(Without(subs, gone)) = Range(subs) \ gone
    BY <2>1, WithoutKeepsOthers
  <2> QED BY <1>4, <2>2, <2>3
<1>6. emitter[e].stale \subseteq broken
  BY <1>1, TypedParts
<1>7. Typed'
  <2>1. \A f \in Emitters :
           /\ emitter'[f].event \in Event \cup {0}
           /\ emitter'[f].todo \in Seq(Sockets) /\ emitter'[f].stale \subseteq broken
    BY <1>1, <1>2, <1>3, TypedParts
  <2> QED BY <1>1, <1>2, <1>5, <2>1 DEF Typed, TypeOK
<1>8. Newcomers'
  <2>1. \A f \in Emitters : Range(emitter'[f].todo) \subseteq Range(emitter[f].todo)
    BY <1>2, <1>3
  <2> QED BY <1>1, <1>5, <2>1 DEF Newcomers
<1>9. Window'
  BY <1>1 DEF Window
<1> QED BY <1>1, <1>2, <1>3, <1>5, <1>6, <1>7, <1>8, <1>9 DEF HInv

\* The emitter is cancelled: the viewers it had still to serve lose its event.
LEMMA EmitCancelledStep ==
    ASSUME HInv, NEW e \in Emitters, EmitCancelled(e)
    PROVE  /\ HInv'
           /\ emitter[e].event \in 1 .. published
           /\ abandoned' = abandoned \cup {emitter[e].event}
           /\ \A w \in Sockets : Owed(w)' \in {Owed(w), Owed(w) \ {emitter[e].event}}
           /\ UNCHANGED <<subs, published, cleared, broken, got>>
<1>1. /\ Typed /\ Window /\ Newcomers /\ Emitting /\ Replaying
      /\ emitter[e] # Idle
      /\ emitter' = [emitter EXCEPT ![e] = Idle]
      /\ abandoned' = abandoned \cup {emitter[e].event}
      /\ UNCHANGED <<replay, subs, published, cleared, stage, backlog, broken, got>>
  BY DEF HInv, EmitCancelled
<1>2. /\ emitter' \in [Emitters -> Emission]
      /\ \A f \in Emitters : emitter'[f] = IF f = e THEN Idle ELSE emitter[f]
      /\ Emitting' /\ Replaying'
      /\ emitter[e].event \in 1 .. published
      /\ \A w \in Sockets : Owed(w)' = IF w \in Range(emitter[e].todo)
                                       THEN Owed(w) \ {emitter[e].event} ELSE Owed(w)
  BY <1>1, EmitterReturns
<1>3. /\ Range(Idle.todo) = {} /\ Idle.todo = <<>>
      /\ Idle.stale = {} /\ Idle.event = 0 /\ <<>> \in Seq(Sockets)
  BY EmptyRange DEF Idle
<1>4. emitter[e].event \in Event
  <2>1. emitter[e].event \in Event \cup {0}
    BY <1>1, TypedParts
  <2>2. emitter[e].event # 0
    BY <1>1 DEF Emitting
  <2> QED BY <2>1, <2>2
<1>5. Typed'
  <2>1. \A f \in Emitters :
           /\ emitter'[f].event \in Event \cup {0}
           /\ emitter'[f].todo \in Seq(Sockets) /\ emitter'[f].stale \subseteq broken
    BY <1>1, <1>2, <1>3, TypedParts
  <2> QED BY <1>1, <1>2, <1>4, <2>1 DEF Typed, TypeOK
<1>6. Newcomers'
  <2>1. \A f \in Emitters : Range(emitter'[f].todo) \subseteq Range(emitter[f].todo)
    BY <1>2, <1>3
  <2> QED BY <1>1, <2>1 DEF Newcomers
<1>7. Window'
  BY <1>1 DEF Window
<1> QED BY <1>1, <1>2, <1>5, <1>6, <1>7 DEF HInv

\* Nothing moves but what the invariant reads of the replay buffer, the list
\* of subscribers and the stages.
LEMMA OwedStays ==
    ASSUME UNCHANGED <<emitter, backlog>>
    PROVE  \A w \in Sockets : Owed(w)' = Owed(w)
BY DEF Owed

\* A bot starts its login.
LEMMA ClearReplayStep ==
    ASSUME HInv, ClearReplay
    PROVE  HInv' /\ \A w \in Sockets : Owed(w)' = Owed(w)
<1>1. /\ Typed /\ Window /\ Newcomers /\ Emitting /\ Replaying
      /\ replay' = <<>> /\ cleared' = published
      /\ UNCHANGED <<subs, published, abandoned, emitter, stage, backlog, broken, got>>
  BY DEF HInv, ClearReplay
<1>2. MaxReplay \in Nat /\ published \in 0 .. MaxEvents /\ MaxEvents \in Nat
  BY <1>1, HubAssumption, TypedParts DEF HubAssumption
<1>3. Len(<<>>) = 0 /\ <<>> \in Seq(Event)
  BY EmptySeq
<1>4. Typed'
  <2>1. replay' \in Seq(Event) /\ Len(replay') <= MaxReplay
    BY <1>1, <1>2, <1>3
  <2>2. published' \in 0 .. MaxEvents /\ cleared' \in 0 .. published'
    BY <1>1, <1>2
  <2> QED BY <1>1, <2>1, <2>2 DEF Typed, TypeOK
<1>5. Window'
  <2>1. Len(replay') = 0 /\ published' - cleared' = 0 /\ 1 .. 0 = {}
    BY <1>1, <1>2, <1>3
  <2> QED BY <2>1 DEF Window
<1>6. Newcomers' /\ Emitting' /\ Replaying'
  BY <1>1 DEF Newcomers, Emitting, Replaying
<1> QED BY <1>1, <1>4, <1>5, <1>6, OwedStays DEF HInv

\* A viewer registers, and is owed what the buffer holds.
LEMMA RegisterStep ==
    ASSUME HInv, NEW w \in Sockets, Register(w)
    PROVE  /\ HInv'
           /\ w \notin Range(subs) /\ Range(subs') = Range(subs) \cup {w}
           /\ \A v \in Sockets : Owed(v)' = IF v = w THEN Range(replay) ELSE Owed(v)
           /\ UNCHANGED <<published, cleared, abandoned, broken, got>>
<1>1. /\ Typed /\ Window /\ Newcomers /\ Emitting /\ Replaying
      /\ stage[w] = "new" /\ subs' = Append(subs, w)
      /\ stage' = [stage EXCEPT ![w] = "open"]
      /\ backlog' = [backlog EXCEPT ![w] = replay]
      /\ UNCHANGED <<replay, published, cleared, abandoned, emitter, broken, got>>
  BY DEF HInv, Register
<1>2. /\ w \notin Range(subs) /\ got[w] = {} /\ backlog[w] = <<>>
      /\ \A e \in Emitters : w \notin Range(emitter[e].todo)
  BY <1>1 DEF Newcomers
<1>3. /\ subs' \in Seq(Sockets) /\ IsInjective(subs')
      /\ Range(subs') = Range(subs) \cup {w}
  <2>1. subs \in Seq(Sockets) /\ IsInjective(subs)
    BY <1>1, TypedParts
  <2> QED BY <1>1, <1>2, <2>1, AppendNew
<1>4. replay \in Seq(Event) /\ Range(replay) \subseteq Event
      /\ DOMAIN replay = 1 .. Len(replay) /\ Len(replay) \in Nat
  BY <1>1, RangeOf DEF Typed, TypeOK
<1>5. /\ backlog' \in [Sockets -> Seq(Event)]
      /\ \A v \in Sockets : backlog'[v] = IF v = w THEN replay ELSE backlog[v]
  BY <1>1, <1>4 DEF Typed
<1>6. /\ stage' \in [Sockets -> {"new", "open", "gone"}]
      /\ \A v \in Sockets : stage'[v] = IF v = w THEN "open" ELSE stage[v]
  BY <1>1 DEF Typed, TypeOK
<1>7. Typed'
  <2>1. \A v \in Sockets : backlog'[v] \in Seq(Event)
    BY <1>5
  <2> QED BY <1>1, <1>3, <1>5, <1>6, <2>1 DEF Typed, TypeOK
<1>8. Window'
  BY <1>1 DEF Window
<1>9. Newcomers'
  BY <1>1, <1>3, <1>5, <1>6 DEF Newcomers
<1>10. Emitting'
  <2> SUFFICES ASSUME NEW e \in Emitters, NEW v \in Range(emitter[e].todo)
               PROVE  emitter[e].event \notin Range(backlog'[v])
    BY <1>1 DEF Emitting
  <2>1. v \in Sockets /\ v # w
    BY <1>1, <1>2, TypedParts
  <2> QED BY <1>1, <1>5, <2>1 DEF Emitting
<1>11. published \in Nat /\ cleared \in Nat /\ cleared <= published
       /\ Range(replay) \subseteq cleared + 1 .. published
  <2>1. published \in 0 .. MaxEvents /\ cleared \in 0 .. published /\ MaxEvents \in Nat
    BY <1>1, TypedParts DEF Typed, TypeOK
  <2> QED BY <1>1, <2>1, WindowIsLatest
<1>12. ASSUME NEW i \in DOMAIN replay, NEW j \in DOMAIN replay, i < j
       PROVE  replay[i] < replay[j]
  <2>1. /\ replay[i] = published - Len(replay) + i /\ replay[j] = published - Len(replay) + j
    BY <1>1, <1>4 DEF Window
  <2> QED BY <1>4, <1>11, <1>12, <2>1
<1>13. \A n \in Range(replay) : n <= published
  BY <1>11
<1>14. Replaying'
  <2> SUFFICES ASSUME NEW v \in Sockets
               PROVE  /\ \A i, j \in DOMAIN backlog'[v] : i < j => backlog'[v][i] < backlog'[v][j]
                      /\ \A n \in Range(backlog'[v]) : n <= published
                      /\ \A r \in got[v] :
                            /\ r.event <= published /\ r.event \notin Range(backlog'[v])
                            /\ r.via = "replay" => \A n \in Range(backlog'[v]) : r.event < n
    BY <1>1 DEF Replaying
  <2>1. CASE v = w
    BY <1>2, <1>5, <1>12, <1>13, <2>1
  <2>2. CASE v # w
    BY <1>1, <1>5, <2>2 DEF Replaying
  <2> QED BY <2>1, <2>2
<1>15. ASSUME NEW v \in Sockets
       PROVE  Owed(v)' = IF v = w THEN Range(replay) ELSE Owed(v)
  <2>1. CASE v = w
    <3>1. \A m : m \in Owed(v)' <=> m \in Range(replay)
      BY <1>1, <1>2, <1>5, <2>1, OwedIs
    <3> QED BY <2>1, <3>1
  <2>2. CASE v # w
    <3>1. \A m : m \in Owed(v)' <=> m \in Owed(v)
      BY <1>1, <1>5, <2>2, OwedIs
    <3> QED BY <2>2, <3>1
  <2> QED BY <2>1, <2>2
<1> QED BY <1>1, <1>2, <1>3, <1>7, <1>8, <1>9, <1>10, <1>14, <1>15 DEF HInv

\* The next event of the replay is sent, or the send raises.
LEMMA ReplayNextStep ==
    ASSUME HInv, NEW w \in Sockets, ReplayNext(w)
    PROVE  /\ HInv'
           /\ \E n \in Event :
                 /\ n \in Owed(w)
                 /\ \A v \in Sockets :
                       /\ v # w => Owed(v)' = Owed(v)
                       /\ Owed(v)' \subseteq Owed(v)
                 /\ w \notin broken => Owed(w)' = Owed(w) \ {n}
                 /\ \A r \in got[w] : r.event # n /\ (r.via = "replay" => r.event < n)
                 /\ got' = IF w \in broken THEN got
                           ELSE [got EXCEPT ![w] = @ \cup {[event |-> n, via |-> "replay"]}]
           /\ UNCHANGED <<subs, published, cleared, abandoned, broken>>
<1>1. /\ Typed /\ Window /\ Newcomers /\ Emitting /\ Replaying
      /\ backlog[w] # <<>>
      /\ UNCHANGED <<replay, subs, published, cleared, abandoned, emitter, stage, broken>>
  BY DEF HInv, ReplayNext
<1>2. PICK n, all, rest : n = Head(backlog[w]) /\ all = backlog[w] /\ rest = Tail(backlog[w])
  OBVIOUS
<1>3. all \in Seq(Event) /\ all # <<>> /\ DOMAIN all = 1 .. Len(all)
  BY <1>1, <1>2, TypedParts, RangeOf
<1>4. /\ rest \in Seq(Event) /\ n \in Range(all) /\ n = all[1]
      /\ Len(all) \in Nat /\ Len(all) >= 1 /\ Len(rest) = Len(all) - 1
      /\ \A i \in 1 .. Len(rest) : i + 1 \in 1 .. Len(all) /\ rest[i] = all[i + 1]
      /\ Range(all) = Range(rest) \cup {n}
  BY <1>2, <1>3, TailOf
<1>5. n \in Event /\ n <= published /\ Range(rest) \subseteq Event
  BY <1>1, <1>2, <1>3, <1>4, RangeOf DEF Replaying
<1>6. \A i, j \in 1 .. Len(all) : i < j => all[i] < all[j]
  BY <1>1, <1>2, <1>3 DEF Replaying
<1>7. DOMAIN rest = 1 .. Len(rest) /\ Range(rest) = {rest[i] : i \in 1 .. Len(rest)}
  BY <1>4, RangeOf
<1>8. \A m \in Range(rest) : n < m
  <2>1. \A i \in 1 .. Len(rest) : 1 \in 1 .. Len(all) /\ 1 < i + 1
    BY <1>4
  <2>2. \A i \in 1 .. Len(rest) : n < rest[i]
    BY <1>4, <1>6, <2>1
  <2> QED BY <1>7, <2>2
<1>9. \A i, j \in DOMAIN rest : i < j => rest[i] < rest[j]
  <2>1. \A i, j \in 1 .. Len(rest) : i < j => i + 1 < j + 1
    BY <1>4
  <2> QED BY <1>4, <1>6, <1>7, <2>1
<1>10. n \notin Range(rest)
  <2>1. \A m \in Event : ~(m < m)
    BY HubAssumption DEF Event, HubAssumption
  <2> QED BY <1>5, <1>8, <2>1
<1>11. PICK new : new = IF w \in broken THEN <<>> ELSE rest
  OBVIOUS
<1>12. /\ new \in Seq(Event) /\ Range(new) \subseteq Range(rest)
       /\ \A i, j \in DOMAIN new : i < j => new[i] < new[j]
  <2>1. CASE w \in broken
    <3>1. new = <<>> /\ <<>> \in Seq(Event) /\ DOMAIN <<>> = {}
      BY <1>11, <2>1, EmptySeq
    <3> QED BY <3>1, EmptyRange
  <2>2. CASE w \notin broken
    BY <1>4, <1>9, <1>11, <2>2
  <2> QED BY <2>1, <2>2
<1>13. /\ backlog' \in [Sockets -> Seq(Event)]
       /\ \A v \in Sockets : backlog'[v] = IF v = w THEN new ELSE backlog[v]
  <2>1. backlog' = [backlog EXCEPT ![w] = new]
    BY <1>2, <1>11 DEF ReplayNext
  <2> QED BY <1>1, <1>12, <2>1 DEF Typed
<1>14. PICK record : record = [event |-> n, via |-> "replay"]
  OBVIOUS
<1>15. record \in Record /\ record.event = n /\ record.via = "replay"
       /\ \A e \in Emitters : e # "replay"
  BY <1>5, <1>14, HubAssumption DEF Record, HubAssumption
<1>16. got' = IF w \in broken THEN got ELSE [got EXCEPT ![w] = @ \cup {record}]
  BY <1>2, <1>14 DEF ReplayNext, Sent
<1>17. /\ got' \in [Sockets -> SUBSET Record]
       /\ \A v \in Sockets : got'[v] = IF v = w /\ w \notin broken THEN got[v] \cup {record}
                                                                   ELSE got[v]
  BY <1>1, <1>15, <1>16 DEF Typed
<1>18. Typed'
  <2>1. \A v \in Sockets : backlog'[v] \in Seq(Event) /\ got'[v] \subseteq Record
    BY <1>13, <1>17
  <2> QED BY <1>1, <1>13, <1>17, <2>1 DEF Typed, TypeOK, Record
<1>19. Newcomers'
  <2>1. stage[w] # "new"
    BY <1>1 DEF Newcomers
  <2> QED BY <1>1, <1>13, <1>17, <2>1 DEF Newcomers
<1>20. \A r \in got[w] : r.event \notin Range(all)
                         /\ r.event # n /\ (r.via = "replay" => r.event < n)
  BY <1>1, <1>2, <1>4 DEF Replaying
<1>21. Emitting'
  <2> SUFFICES ASSUME NEW e \in Emitters, NEW v \in Range(emitter[e].todo)
               PROVE  /\ emitter[e].event \notin Range(backlog'[v])
                      /\ \A r \in got'[v] :
                            /\ r.event # emitter[e].event
                            /\ r.via = e => r.event < emitter[e].event
    BY <1>1 DEF Emitting
  <2>1. /\ v \in Sockets /\ emitter[e].event \notin Range(backlog[v])
        /\ \A r \in got[v] :
              /\ r.event # emitter[e].event
              /\ r.via = e => r.event < emitter[e].event
    BY <1>1, TypedParts DEF Emitting
  <2> QED BY <1>2, <1>4, <1>12, <1>13, <1>15, <1>17, <2>1
<1>22. Replaying'
  <2> SUFFICES ASSUME NEW v \in Sockets
               PROVE  /\ \A i, j \in DOMAIN backlog'[v] : i < j => backlog'[v][i] < backlog'[v][j]
                      /\ \A m \in Range(backlog'[v]) : m <= published
                      /\ \A r \in got'[v] :
                            /\ r.event <= published /\ r.event \notin Range(backlog'[v])
                            /\ r.via = "replay" => \A m \in Range(backlog'[v]) : r.event < m
    BY <1>1 DEF Replaying
  <2>1. CASE v # w
    BY <1>1, <1>13, <1>17, <2>1 DEF Replaying
  <2>2. CASE v = w
    <3>1. \A m \in Range(all) : m <= published
      BY <1>1, <1>2 DEF Replaying
    <3>2. \A r \in got[w] : r.event <= published
             /\ (r.via = "replay" => \A m \in Range(all) : r.event < m)
      BY <1>1, <1>2 DEF Replaying
    <3>3. Range(new) \subseteq Range(all) /\ n \notin Range(new) /\ \A m \in Range(new) : n < m
      BY <1>4, <1>8, <1>10, <1>12
    <3>4. backlog'[v] = new /\ \A r \in got'[v] : r \in got[w] \/ r = record
      BY <1>13, <1>17, <2>2
    <3> QED BY <1>5, <1>12, <1>15, <1>20, <3>1, <3>2, <3>3, <3>4
  <2> QED BY <2>1, <2>2
<1>23. \A v \in Sockets : v # w => Owed(v)' = Owed(v)
  <2> TAKE v \in Sockets
  <2> HAVE v # w
  <2>1. \A m : m \in Owed(v)' <=> m \in Owed(v)
    BY <1>1, <1>13, OwedIs
  <2> QED BY <2>1
<1>24. Owed(w)' \subseteq Owed(w) /\ n \in Owed(w)
  <2>1. \A m : m \in Owed(w)' => m \in Owed(w)
    BY <1>1, <1>2, <1>4, <1>12, <1>13, OwedIs
  <2> QED BY <1>2, <1>4, <2>1, OwedIs
<1>25. w \notin broken => Owed(w)' = Owed(w) \ {n}
  <2> HAVE w \notin broken
  <2>1. new = rest
    BY <1>11
  <2>2. \A e \in Emitters : w \in Range(emitter[e].todo) => emitter[e].event # n
    BY <1>1, <1>2, <1>4 DEF Emitting
  <2>3. \A m : m \in Owed(w)' <=> m \in Owed(w) /\ m # n
    <3>1. backlog'[w] = rest
      BY <1>13, <2>1
    <3>2. \A m : m \in Range(rest) <=> m \in Range(backlog[w]) /\ m # n
      BY <1>2, <1>4, <1>10
    <3> QED BY <1>1, <2>2, <3>1, <3>2, OwedIs
  <2> QED BY <2>3
<1>26. HInv'
  BY <1>1, <1>18, <1>19, <1>21, <1>22 DEF HInv, Window
<1>27. \A v \in Sockets : (v # w => Owed(v)' = Owed(v)) /\ Owed(v)' \subseteq Owed(v)
  BY <1>23, <1>24
<1> QED BY <1>1, <1>5, <1>14, <1>16, <1>20, <1>24, <1>25, <1>26, <1>27

LEMMA BreakStep ==
    ASSUME HInv, NEW w \in Sockets, Break(w)
    PROVE  HInv' /\ \A v \in Sockets : Owed(v)' = Owed(v)
<1>1. /\ Typed /\ Window /\ Newcomers /\ Emitting /\ Replaying
      /\ stage[w] = "open" /\ broken' = broken \cup {w}
      /\ UNCHANGED <<replay, subs, published, cleared, abandoned, emitter, stage, backlog, got>>
  BY DEF HInv, Break
<1>2. Typed'
  BY <1>1 DEF Typed, TypeOK
<1>3. Newcomers' /\ Emitting' /\ Replaying' /\ Window'
  BY <1>1 DEF Newcomers, Emitting, Replaying, Window
<1> QED BY <1>1, <1>2, <1>3, OwedStays DEF HInv

\* The handler of a broken connection returns.
LEMMA UnregisterStep ==
    ASSUME HInv, NEW w \in Sockets, Unregister(w)
    PROVE  /\ HInv'
           /\ \A v \in Sockets : Owed(v)' = Owed(v)
           /\ Range(subs') \subseteq Range(subs) /\ Range(subs) \ broken \subseteq Range(subs')
           /\ UNCHANGED <<published, cleared, abandoned, broken, got>>
<1>1. /\ Typed /\ Window /\ Newcomers /\ Emitting /\ Replaying
      /\ w \in broken /\ stage' = [stage EXCEPT ![w] = "gone"]
      /\ subs' = Without(subs, {w})
      /\ UNCHANGED <<replay, published, cleared, abandoned, emitter, backlog, broken, got>>
  BY DEF HInv, Unregister
<1>2. /\ subs' \in Seq(Sockets) /\ IsInjective(subs')
      /\ Range(subs') = Range(subs) \ {w}
  <2>1. subs \in Seq(Sockets) /\ IsInjective(subs)
    BY <1>1, TypedParts
  <2> QED BY <1>1, <2>1, WithoutKeepsOthers
<1>3. /\ stage' \in [Sockets -> {"new", "open", "gone"}]
      /\ \A v \in Sockets : stage'[v] = IF v = w THEN "gone" ELSE stage[v]
  BY <1>1 DEF Typed, TypeOK
<1>4. Typed'
  BY <1>1, <1>2, <1>3 DEF Typed, TypeOK
<1>5. Newcomers'
  BY <1>1, <1>2, <1>3 DEF Newcomers
<1>6. Emitting' /\ Replaying' /\ Window'
  BY <1>1 DEF Emitting, Replaying, Window
<1> QED BY <1>1, <1>2, <1>4, <1>5, <1>6, OwedStays DEF HInv

(***************************************************************************)
(* The invariant holds, and each step is one of the promise.               *)
(***************************************************************************)

LEMMA HubStarts == Init => HInv /\ \A w \in Sockets : Owed(w) = {}
<1> SUFFICES ASSUME Init PROVE HInv /\ \A w \in Sockets : Owed(w) = {}
  OBVIOUS
<1>1. /\ replay = <<>> /\ subs = <<>>
      /\ published = 0 /\ cleared = 0 /\ abandoned = {} /\ broken = {}
      /\ emitter = [e \in Emitters |-> Idle]
      /\ stage = [w \in Sockets |-> "new"]
      /\ backlog = [w \in Sockets |-> <<>>]
      /\ got = [w \in Sockets |-> {}]
  BY DEF Init
<1>2. /\ <<>> \in Seq(Event) /\ <<>> \in Seq(Sockets) /\ Len(<<>>) = 0
      /\ DOMAIN <<>> = {} /\ Range(<<>>) = {} /\ IsInjective(<<>>)
  BY EmptySeq, EmptyRange
<1>3. Idle \in Emission /\ Idle.event = 0 /\ Idle.todo = <<>> /\ Idle.stale = {}
  BY <1>2 DEF Idle, Emission
<1>4. MaxReplay \in Nat /\ MaxEvents \in Nat
  BY HubAssumption DEF HubAssumption
<1>5. Typed
  <2>1. emitter \in [Emitters -> Emission] /\ \A e \in Emitters : emitter[e] = Idle
    BY <1>1, <1>3
  <2>2. backlog \in [Sockets -> Seq(Event)] /\ got \in [Sockets -> SUBSET Record]
        /\ \A w \in Sockets : backlog[w] = <<>> /\ got[w] = {}
    BY <1>1, <1>2
  <2>3. stage \in [Sockets -> {"new", "open", "gone"}]
    BY <1>1
  <2>4. published \in 0 .. MaxEvents /\ cleared \in 0 .. published
    BY <1>1, <1>4
  <2>5. replay \in Seq(Event) /\ Len(replay) <= MaxReplay
    BY <1>1, <1>2, <1>4
  <2> QED BY <1>1, <1>2, <1>3, <2>1, <2>2, <2>3, <2>4, <2>5 DEF Typed, TypeOK
<1>6. Window
  <2>1. 1 .. 0 = {} /\ published - cleared = 0 /\ Len(replay) = 0
    BY <1>1, <1>2
  <2> QED BY <2>1 DEF Window
<1>7. Newcomers
  BY <1>1, <1>2, <1>3 DEF Newcomers
<1>8. Emitting
  BY <1>1, <1>2, <1>3 DEF Emitting
<1>9. Replaying
  BY <1>1, <1>2 DEF Replaying
<1>10. ASSUME NEW w \in Sockets PROVE Owed(w) = {}
  <2>1. \A m : m \notin Owed(w)
    BY <1>1, <1>2, <1>3, OwedIs
  <2> QED BY <2>1
<1> QED BY <1>5, <1>6, <1>7, <1>8, <1>9, <1>10 DEF HInv

LEMMA HubSteps == HInv /\ [Next]_vars => HInv'
<1> SUFFICES ASSUME HInv, [Next]_vars PROVE HInv'
  OBVIOUS
<1>1. ASSUME NEW e \in Emitters, Emit(e) \/ SendNext(e) \/ EmitDone(e) \/ EmitCancelled(e)
      PROVE  HInv'
  BY <1>1, EmitStep, SendStep, EmitDoneStep, EmitCancelledStep
<1>2. CASE ClearReplay
  BY <1>2, ClearReplayStep
<1>3. ASSUME NEW w \in Sockets, Register(w) \/ ReplayNext(w) \/ Break(w) \/ Unregister(w)
      PROVE  HInv'
  BY <1>3, RegisterStep, ReplayNextStep, BreakStep, UnregisterStep
<1>4. CASE UNCHANGED vars
  <2>1. /\ UNCHANGED <<replay, subs, published, cleared, abandoned, emitter, stage>>
        /\ UNCHANGED <<backlog, broken, got>>
    BY <1>4 DEF vars
  <2>2. Typed /\ Window /\ Newcomers /\ Emitting /\ Replaying
    BY DEF HInv
  <2>3. Typed' /\ Window'
    BY <2>1, <2>2 DEF Typed, TypeOK, Window
  <2>4. Newcomers' /\ Emitting' /\ Replaying'
    BY <2>1, <2>2 DEF Newcomers, Emitting, Replaying
  <2> QED BY <2>3, <2>4 DEF HInv
<1> QED BY <1>1, <1>2, <1>3, <1>4 DEF Next

\* The state of the hub is of the type it declares: the buffer never exceeds
\* its limit, nobody is subscribed twice, only broken targets are stale.
THEOREM TypeCorrect == Spec => []TypeOK
<1>1. HInv => TypeOK
  BY DEF HInv, Typed
<1> QED BY <1>1, HubStarts, HubSteps, PTL DEF Spec

\* What got' holds that got does not, when one viewer is sent one event.
LEMMA OneIsNew ==
    ASSUME NEW w \in Sockets, NEW record, got \in [Sockets -> SUBSET Record],
           got' = IF w \in broken THEN got ELSE [got EXCEPT ![w] = @ \cup {record}]
    PROVE  \A v \in Sockets : \A new \in got'[v] \ got[v] : v = w /\ new = record
<1>1. \A v \in Sockets : got'[v] \subseteq IF v = w THEN got[v] \cup {record} ELSE got[v]
  OBVIOUS
<1> QED BY <1>1

LEMMA StreamStep ==
    HInv /\ [Next]_vars =>
        [\A w \in Sockets : \A new \in got'[w] \ got[w] : \A old \in got[w] :
            old.via = new.via => old.event < new.event]_vars
<1> DEFINE InOrder == \A w \in Sockets : \A new \in got'[w] \ got[w] : \A old \in got[w] :
                         old.via = new.via => old.event < new.event
<1> SUFFICES ASSUME HInv, [Next]_vars PROVE InOrder
  OBVIOUS
<1>0. got \in [Sockets -> SUBSET Record]
  BY DEF HInv, Typed
<1>1. CASE got' = got
  BY <1>1
<1>2. ASSUME NEW e \in Emitters, SendNext(e) PROVE InOrder
  <2>1. PICK w \in Sockets :
          /\ \A r \in got[w] : r.via = e => r.event < emitter[e].event
          /\ got' = IF w \in broken THEN got
                    ELSE [got EXCEPT ![w] =
                            @ \cup {[event |-> emitter[e].event, via |-> e]}]
    BY <1>2, SendStep
  <2>2. PICK record : record = [event |-> emitter[e].event, via |-> e]
    OBVIOUS
  <2>3. \A v \in Sockets : \A new \in got'[v] \ got[v] : v = w /\ new = record
    BY <1>0, <2>1, <2>2, OneIsNew
  <2> QED BY <2>1, <2>2, <2>3
<1>3. ASSUME NEW w \in Sockets, ReplayNext(w) PROVE InOrder
  <2>1. PICK n \in Event :
          /\ \A r \in got[w] : r.via = "replay" => r.event < n
          /\ got' = IF w \in broken THEN got
                    ELSE [got EXCEPT ![w] = @ \cup {[event |-> n, via |-> "replay"]}]
    BY <1>3, ReplayNextStep
  <2>2. PICK record : record = [event |-> n, via |-> "replay"]
    OBVIOUS
  <2>3. \A v \in Sockets : \A new \in got'[v] \ got[v] : v = w /\ new = record
    BY <1>0, <2>1, <2>2, OneIsNew
  <2> QED BY <2>1, <2>2, <2>3
<1>4. Next => \/ got' = got
              \/ \E e \in Emitters : SendNext(e)
              \/ \E w \in Sockets : ReplayNext(w)
  BY DEF Next, Emit, EmitDone, EmitCancelled, ClearReplay, Register, Break, Unregister
<1>5. UNCHANGED vars => got' = got
  BY DEF vars
<1> QED BY <1>1, <1>2, <1>3, <1>4, <1>5

\* Whatever bots emit at once and however their sends interleave, what one of
\* them sends to a viewer arrives in the order of publication, and so does the
\* replay.
THEOREM StreamsStayInOrder == Spec => EachStreamInOrder
BY HubStarts, HubSteps, StreamStep, PTL DEF Spec, EachStreamInOrder

(***************************************************************************)
(* The refinement: the feed of EventFeed is read off the hub's state.      *)
(***************************************************************************)

\* One record more is one event more.
LEMMA GotGrows ==
    ASSUME NEW w \in Sockets, NEW n, NEW via, got \in [Sockets -> SUBSET Record],
           w \notin broken,
           got' = IF w \in broken THEN got
                  ELSE [got EXCEPT ![w] = @ \cup {[event |-> n, via |-> via]}]
    PROVE  [v \in Sockets |-> {r.event : r \in got'[v]}]
             = [[v \in Sockets |-> {r.event : r \in got[v]}] EXCEPT ![w] = @ \cup {n}]
<1>1. PICK record : record = [event |-> n, via |-> via]
  OBVIOUS
<1>2. record.event = n
  BY <1>1
<1>3. \A v \in Sockets : got'[v] = IF v = w THEN got[v] \cup {record} ELSE got[v]
  BY <1>1
<1>4. \A v \in Sockets : {r.event : r \in got'[v]} =
         IF v = w THEN {r.event : r \in got[v]} \cup {n} ELSE {r.event : r \in got[v]}
  BY <1>2, <1>3
<1> DEFINE h == [v \in Sockets |-> {r.event : r \in got[v]}]
           k == [v \in Sockets |-> {r.event : r \in got'[v]}]
<1>5. \A v \in Sockets : k[v] = [h EXCEPT ![w] = @ \cup {n}][v]
  BY <1>4
<1>6. DOMAIN k = Sockets /\ DOMAIN [h EXCEPT ![w] = @ \cup {n}] = Sockets
      /\ k = [v \in Sockets |-> k[v]]
  OBVIOUS
<1> QED BY <1>5, <1>6

LEMMA FeedStarts == Init => Feed!Init
<1> SUFFICES ASSUME Init PROVE Feed!Init
  OBVIOUS
<1>1. \A w \in Sockets : Owed(w) = {}
  BY HubStarts
<1>2. [w \in Sockets |-> Owed(w)] = [w \in Sockets |-> {}]
  BY <1>1
<1>3. [w \in Sockets |-> {r.event : r \in got[w]}] = [w \in Sockets |-> {}]
  BY DEF Init
<1>4. Range(subs) = {}
  BY EmptyRange DEF Init
<1> QED BY <1>2, <1>3, <1>4 DEF Init, Feed!Init

LEMMA FeedSteps == HInv /\ [Next]_vars => [Feed!Next]_(Feed!vars)
<1> SUFFICES ASSUME HInv, [Next]_vars PROVE Feed!Next \/ UNCHANGED Feed!vars
  OBVIOUS
<1> DEFINE owed == [w \in Sockets |-> Owed(w)]
           owedNow == [w \in Sockets |-> Owed(w)']
           events == [w \in Sockets |-> {r.event : r \in got[w]}]
           eventsNow == [w \in Sockets |-> {r.event : r \in got'[w]}]
<1>0. got \in [Sockets -> SUBSET Record] /\ Typed /\ Window
  BY DEF HInv, Typed
<1>1. got' = got => eventsNow = events
  OBVIOUS
<1>2. (\A w \in Sockets : Owed(w)' = Owed(w)) => owedNow = owed
  OBVIOUS
<1>3. DOMAIN owed = Sockets /\ DOMAIN owedNow = Sockets
      /\ \A w \in Sockets : owed[w] = Owed(w) /\ owedNow[w] = Owed(w)'
                            /\ events[w] = {r.event : r \in got[w]}
  OBVIOUS
<1> HIDE DEF owed, owedNow, events, eventsNow
<1>4. ASSUME NEW e \in Emitters, Emit(e) PROVE Feed!Next
  <2>1. \A w \in Sockets : Owed(w)' = IF w \in Range(subs) THEN Owed(w) \cup {published'}
                                                          ELSE Owed(w)
    BY <1>4, EmitStep
  <2>2. owedNow = [w \in Sockets |-> IF w \in Range(subs) THEN owed[w] \cup {published'}
                                                          ELSE owed[w]]
    BY <1>3, <2>1 DEF owedNow
  <2>3. published' = published + 1 /\ UNCHANGED <<subs, cleared, abandoned, broken, got>>
    BY <1>4 DEF Emit
  <2>4. eventsNow = events
    BY <1>1, <2>3
  <2>5. Feed!Publish
    BY <2>2, <2>3, <2>4 DEF Feed!Publish, owed, owedNow, events, eventsNow
  <2> QED BY <2>5 DEF Feed!Next
<1>5. ASSUME UNCHANGED <<published, cleared, abandoned, broken, got>>,
             \A w \in Sockets : Owed(w)' = Owed(w),
             Range(subs') \subseteq Range(subs), Range(subs) \ broken \subseteq Range(subs')
      PROVE  Feed!Next
  <2>1. owedNow = owed /\ eventsNow = events
    BY <1>1, <1>2, <1>5
  <2>2. Feed!Forget
    BY <1>3, <1>5, <2>1 DEF Feed!Forget, owed, owedNow, events, eventsNow
  <2> QED BY <2>2 DEF Feed!Next
<1>6. ASSUME NEW w \in Sockets, NEW n \in Event, NEW via,
             n \in Owed(w), w \notin broken,
             \A v \in Sockets : Owed(v)' = IF v = w THEN Owed(v) \ {n} ELSE Owed(v),
             \A r \in got[w] : r.event # n,
             got' = IF w \in broken THEN got
                    ELSE [got EXCEPT ![w] = @ \cup {[event |-> n, via |-> via]}],
             UNCHANGED <<subs, published, cleared, abandoned, broken>>
      PROVE  Feed!Next
  <2>1. eventsNow = [events EXCEPT ![w] = @ \cup {n}]
    BY <1>0, <1>6, GotGrows DEF events, eventsNow
  <2>2. owedNow = [owed EXCEPT ![w] = @ \ {n}]
    BY <1>3, <1>6 DEF owed, owedNow
  <2>3. n \in owed[w] \ events[w]
    BY <1>3, <1>6
  <2>4. Feed!Deliver(w)
    BY <1>6, <2>1, <2>2, <2>3 DEF Feed!Deliver, owed, owedNow, events, eventsNow
  <2> QED BY <2>4 DEF Feed!Next
<1>7. ASSUME NEW w \in Sockets, w \in broken,
             \A v \in Sockets : (v # w => Owed(v)' = Owed(v)) /\ Owed(v)' \subseteq Owed(v),
             UNCHANGED <<subs, published, cleared, abandoned, broken, got>>
      PROVE  Feed!Next
  <2>1. \A v \in Sockets : owedNow[v] \subseteq owed[v] /\ (v \notin broken => owedNow[v] = owed[v])
    BY <1>3, <1>7
  <2>2. eventsNow = events
    BY <1>1, <1>7
  <2>3. Feed!Forget
    BY <1>3, <1>7, <2>1, <2>2 DEF Feed!Forget, owed, owedNow, events, eventsNow
  <2> QED BY <2>3 DEF Feed!Next
<1>8. ASSUME NEW e \in Emitters, SendNext(e) PROVE Feed!Next
  <2>1. PICK w \in Sockets :
          /\ emitter[e].event \in Owed(w) /\ emitter[e].event \in Event
          /\ \A v \in Sockets : Owed(v)' = IF v = w THEN Owed(v) \ {emitter[e].event}
                                                    ELSE Owed(v)
          /\ \A r \in got[w] : r.event # emitter[e].event
          /\ got' = IF w \in broken THEN got
                    ELSE [got EXCEPT ![w] =
                            @ \cup {[event |-> emitter[e].event, via |-> e]}]
          /\ UNCHANGED <<subs, published, cleared, abandoned, broken>>
    BY <1>8, SendStep
  <2>2. PICK n : n = emitter[e].event
    OBVIOUS
  <2>3. CASE w \notin broken
    BY <1>6, <2>1, <2>2, <2>3
  <2>4. CASE w \in broken
    BY <1>7, <2>1, <2>4
  <2> QED BY <2>3, <2>4
<1>9. ASSUME NEW e \in Emitters, EmitDone(e) PROVE Feed!Next
  BY <1>5, <1>9, EmitDoneStep
<1>10. ASSUME NEW e \in Emitters, EmitCancelled(e) PROVE Feed!Next
  <2>1. PICK n \in 1 .. published :
          /\ abandoned' = abandoned \cup {n}
          /\ \A w \in Sockets : Owed(w)' \in {Owed(w), Owed(w) \ {n}}
          /\ UNCHANGED <<subs, published, cleared, broken, got>>
    BY <1>10, EmitCancelledStep
  <2>2. \A w \in Sockets : owedNow[w] \in {owed[w], owed[w] \ {n}}
    BY <1>3, <2>1
  <2>3. eventsNow = events
    BY <1>1, <2>1
  <2>4. Feed!Abandon(n)
    BY <1>3, <2>1, <2>2, <2>3 DEF Feed!Abandon, owed, owedNow, events, eventsNow
  <2> QED BY <2>4 DEF Feed!Next
<1>11. CASE ClearReplay
  <2>1. cleared' = published /\ UNCHANGED <<subs, published, abandoned, broken, got>>
    BY <1>11 DEF ClearReplay
  <2>2. owedNow = owed /\ eventsNow = events
    BY <1>1, <1>2, <1>11, <2>1, ClearReplayStep
  <2>3. Feed!NewLogin
    BY <2>1, <2>2 DEF Feed!NewLogin, owed, owedNow, events, eventsNow
  <2> QED BY <2>3 DEF Feed!Next
<1>12. ASSUME NEW w \in Sockets, Register(w) PROVE Feed!Next
  <2>1. /\ w \notin Range(subs) /\ Range(subs') = Range(subs) \cup {w}
        /\ \A v \in Sockets : Owed(v)' = IF v = w THEN Range(replay) ELSE Owed(v)
        /\ UNCHANGED <<published, cleared, abandoned, broken, got>>
    BY <1>12, RegisterStep
  <2>2. Range(replay) = {n \in cleared + 1 .. published : n + MaxReplay > published}
    BY <1>0, WindowIsLatest
  <2>3. owedNow = [owed EXCEPT ![w] = {n \in cleared + 1 .. published : n + MaxReplay > published}]
    BY <1>3, <2>1, <2>2 DEF owed, owedNow
  <2>4. eventsNow = events
    BY <1>1, <2>1
  <2>5. Feed!Join(w)
    BY <2>1, <2>3, <2>4 DEF Feed!Join, Feed!Latest, owed, owedNow, events, eventsNow
  <2> QED BY <2>5 DEF Feed!Next
<1>13. ASSUME NEW w \in Sockets, ReplayNext(w) PROVE Feed!Next
  <2>1. PICK n \in Event :
          /\ n \in Owed(w)
          /\ \A v \in Sockets :
                /\ v # w => Owed(v)' = Owed(v)
                /\ Owed(v)' \subseteq Owed(v)
          /\ w \notin broken => Owed(w)' = Owed(w) \ {n}
          /\ \A r \in got[w] : r.event # n
          /\ got' = IF w \in broken THEN got
                    ELSE [got EXCEPT ![w] = @ \cup {[event |-> n, via |-> "replay"]}]
    BY <1>13, ReplayNextStep
  <2>2. UNCHANGED <<subs, published, cleared, abandoned, broken>>
    BY <1>13, ReplayNextStep
  <2>3. CASE w \notin broken
    <3>1. \A v \in Sockets : Owed(v)' = IF v = w THEN Owed(v) \ {n} ELSE Owed(v)
      BY <2>1, <2>3
    <3> QED BY <1>6, <2>1, <2>2, <2>3, <3>1
  <2>4. CASE w \in broken
    BY <1>7, <2>1, <2>2, <2>4
  <2> QED BY <2>3, <2>4
<1>14. ASSUME NEW w \in Sockets, Break(w) PROVE Feed!Next
  <2>1. broken' = broken \cup {w} /\ UNCHANGED <<subs, published, cleared, abandoned, got>>
    BY <1>14 DEF Break
  <2>2. owedNow = owed /\ eventsNow = events
    BY <1>1, <1>2, <1>14, <2>1, BreakStep
  <2>3. Feed!Break(w)
    BY <2>1, <2>2 DEF Feed!Break, owed, owedNow, events, eventsNow
  <2> QED BY <2>3 DEF Feed!Next
<1>15. ASSUME NEW w \in Sockets, Unregister(w) PROVE Feed!Next
  BY <1>5, <1>15, UnregisterStep
<1>16. CASE UNCHANGED vars
  <2>1. UNCHANGED <<subs, published, cleared, abandoned, broken, got, emitter, backlog>>
    BY <1>16 DEF vars
  <2>2. owedNow = owed /\ eventsNow = events
    BY <1>1, <1>2, <2>1, OwedStays
  <2> QED BY <2>1, <2>2 DEF Feed!vars, owed, owedNow, events, eventsNow
<1> QED BY <1>4, <1>8, <1>9, <1>10, <1>11, <1>12, <1>13, <1>14, <1>15, <1>16 DEF Next

\* The hub implements what account_events.py promises: a viewer that connects
\* is owed the latest events of the login and every later one, each reaches it
\* at most once, and nothing is dropped but for a broken connection or a
\* cancelled bot.
THEOREM HubImplementsFeed == Spec => FeedImplemented
<1>1. Init => Feed!Init
  BY FeedStarts
<1>2. HInv /\ [Next]_vars => [Feed!Next]_(Feed!vars)
  BY FeedSteps
<1> QED BY <1>1, <1>2, HubStarts, HubSteps, PTL DEF Spec, FeedImplemented, Feed!Spec
=============================================================================
