------------------------------ MODULE EventFeed ------------------------------
(***************************************************************************)
(* What the event hub of one account promises its viewers.  A viewer is    *)
(* owed the latest events of the current login when it connects, and every *)
(* event published from then on; each reaches it once; and nothing owed is *)
(* dropped unless its connection broke or the bot that was publishing it   *)
(* was cancelled.  Events are numbered in the order they are published.    *)
(***************************************************************************)
EXTENDS Naturals

CONSTANTS
    Sockets,
    Keep        \* how many events a new viewer is owed

VARIABLES
    viewers,    \* the connections that follow the account
    lost,       \* the connections that broke
    published,  \* the number of events so far
    cleared,    \* the number of them that belong to earlier logins
    abandoned,  \* the events whose publisher was cancelled
    owed,       \* for each connection the events still to deliver
    got         \* for each connection the events it received

vars == <<viewers, lost, published, cleared, abandoned, owed, got>>

Init ==
    /\ viewers = {} /\ lost = {} /\ abandoned = {}
    /\ published = 0 /\ cleared = 0
    /\ owed = [w \in Sockets |-> {}]
    /\ got = [w \in Sockets |-> {}]

Latest == {n \in cleared + 1 .. published : n + Keep > published}

Join(w) ==
    /\ w \notin viewers
    /\ viewers' = viewers \cup {w}
    /\ owed' = [owed EXCEPT ![w] = Latest]
    /\ UNCHANGED <<lost, published, cleared, abandoned, got>>

Publish ==
    /\ published' = published + 1
    /\ owed' = [w \in Sockets |->
                  IF w \in viewers THEN owed[w] \cup {published'} ELSE owed[w]]
    /\ UNCHANGED <<viewers, lost, cleared, abandoned, got>>

NewLogin ==
    /\ cleared' = published
    /\ UNCHANGED <<viewers, lost, published, abandoned, owed, got>>

Deliver(w) ==
    /\ w \notin lost
    /\ \E n \in owed[w] \ got[w] :
          /\ owed' = [owed EXCEPT ![w] = @ \ {n}]
          /\ got' = [got EXCEPT ![w] = @ \cup {n}]
    /\ UNCHANGED <<viewers, lost, published, cleared, abandoned>>

Break(w) ==
    /\ lost' = lost \cup {w}
    /\ UNCHANGED <<viewers, published, cleared, abandoned, owed, got>>

\* The publisher of n is cancelled before it has served every viewer.
Abandon(n) ==
    /\ abandoned' = abandoned \cup {n}
    /\ \A w \in Sockets : owed'[w] \in {owed[w], owed[w] \ {n}}
    /\ DOMAIN owed' = Sockets
    /\ UNCHANGED <<viewers, lost, published, cleared, got>>

\* Only broken connections are not served, or forgotten.
Forget ==
    /\ viewers \ lost \subseteq viewers' /\ viewers' \subseteq viewers
    /\ \A w \in Sockets :
          /\ owed'[w] \subseteq owed[w]
          /\ w \notin lost => owed'[w] = owed[w]
    /\ DOMAIN owed' = Sockets
    /\ UNCHANGED <<lost, published, cleared, abandoned, got>>

Next ==
    \/ \E w \in Sockets : Join(w) \/ Deliver(w) \/ Break(w)
    \/ Publish \/ NewLogin \/ Forget
    \/ \E n \in 1 .. published : Abandon(n)

Spec == Init /\ [][Next]_vars
=============================================================================
