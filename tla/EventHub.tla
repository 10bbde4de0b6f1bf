------------------------------- MODULE EventHub -------------------------------
(***************************************************************************)
(* AccountEventHub for one row of accounts.json, with the bots that emit   *)
(* and the WebSocket handlers (ws_account) that register and unregister.   *)
(*                                                                         *)
(* The hub's lock is never held across an await, so the code under it is   *)
(* one action; every send_str is an action, after which any other          *)
(* coroutine may run.  A send to a broken connection raises.               *)
(***************************************************************************)
EXTENDS Naturals, SequencesExt

CONSTANTS
    Sockets,    \* connections of viewers
    Emitters,   \* bots of the row: an old one may still emit beside its successor
    MaxReplay,  \* MAX_REPLAY
    MaxEvents   \* bounds the events published

ASSUME HubAssumption ==
    /\ MaxReplay \in Nat \ {0}
    /\ MaxEvents \in Nat
    /\ "replay" \notin Emitters

VARIABLES
    replay,     \* _replay: the latest events
    subs,       \* _subscribers
    published,  \* number of events so far; an event is its number
    cleared,    \* history: the value of `published' at the last clear_replay
    abandoned,  \* history: events whose emitter was cancelled
    emitter,    \* emit() in progress: event, targets to serve, stale
    stage,      \* of ws_account: "new", "open" (registered) or "gone"
    backlog,    \* of register(): events of the snapshot still to send
    broken,     \* connections on which a send raises
    got         \* history: the events each viewer got, and which coroutine sent them

vars == <<replay, subs, published, cleared, abandoned, emitter, stage, backlog,
          broken, got>>

Event == 1 .. MaxEvents
Idle == [event |-> 0, todo |-> <<>>, stale |-> {}]

TypeOK ==
    /\ replay \in Seq(Event) /\ Len(replay) <= MaxReplay
    /\ subs \in Seq(Sockets) /\ IsInjective(subs)
    /\ published \in 0 .. MaxEvents /\ cleared \in 0 .. published
    /\ abandoned \subseteq Event
    /\ \A e \in Emitters :
          /\ emitter[e].event \in Event \cup {0}
          /\ emitter[e].todo \in Seq(Sockets)
          /\ emitter[e].stale \subseteq broken
    /\ stage \in [Sockets -> {"new", "open", "gone"}]
    /\ \A w \in Sockets :
          /\ backlog[w] \in Seq(Event)
          /\ got[w] \subseteq [event : Event, via : Emitters \cup {"replay"}]
    /\ broken \subseteq Sockets

Init ==
    /\ replay = <<>> /\ subs = <<>>
    /\ published = 0 /\ cleared = 0 /\ abandoned = {}
    /\ emitter = [e \in Emitters |-> Idle]
    /\ stage = [w \in Sockets |-> "new"]
    /\ backlog = [w \in Sockets |-> <<>>]
    /\ broken = {}
    /\ got = [w \in Sockets |-> {}]

-----------------------------------------------------------------------------
(* emit, called by a bot.                                                  *)

Latest(s) == IF Len(s) > MaxReplay THEN Tail(s) ELSE s

\* Variant: the buffer is trimmed one event late.
EmitTrimsLate(e) ==
    /\ emitter[e] = Idle
    /\ published < MaxEvents
    /\ published' = published + 1
    /\ replay' = IF Len(replay) > MaxReplay THEN Append(Tail(replay), published')
                                            ELSE Append(replay, published')
    /\ emitter' = IF subs = <<>> THEN emitter
                  ELSE [emitter EXCEPT ![e] =
                          [event |-> published', todo |-> subs, stale |-> {}]]
    /\ UNCHANGED <<subs, cleared, abandoned, stage, backlog, broken, got>>

Emit(e) ==
    /\ emitter[e] = Idle
    /\ published < MaxEvents
    /\ published' = published + 1
    /\ replay' = Latest(Append(replay, published'))
    /\ emitter' = IF subs = <<>> THEN emitter
                  ELSE [emitter EXCEPT ![e] =
                          [event |-> published', todo |-> subs, stale |-> {}]]
    /\ UNCHANGED <<subs, cleared, abandoned, stage, backlog, broken, got>>

Sent(w, n, via) ==
    got' = IF w \in broken THEN got
           ELSE [got EXCEPT ![w] = @ \cup {[event |-> n, via |-> via]}]

\* Variant: the first send that raises ends the loop over the targets.
SendNextStops(e) ==
    /\ emitter[e].todo # <<>>
    /\ LET w == Head(emitter[e].todo) IN
          /\ Sent(w, emitter[e].event, e)
          /\ emitter' = [emitter EXCEPT
                ![e].todo = IF w \in broken THEN <<>> ELSE Tail(@),
                ![e].stale = IF w \in broken THEN @ \cup {w} ELSE @]
    /\ UNCHANGED <<replay, subs, published, cleared, abandoned, stage, backlog,
                   broken>>

\* Variant: a send that raises is tried again.
SendNextRetries(e) ==
    /\ emitter[e].todo # <<>>
    /\ LET w == Head(emitter[e].todo) IN
          /\ Sent(w, emitter[e].event, e)
          /\ emitter' = [emitter EXCEPT
                ![e].todo = IF w \in broken THEN @ ELSE Tail(@)]
    /\ UNCHANGED <<replay, subs, published, cleared, abandoned, stage, backlog,
                   broken>>

SendNext(e) ==
    /\ emitter[e].todo # <<>>
    /\ LET w == Head(emitter[e].todo) IN
          /\ Sent(w, emitter[e].event, e)
          /\ emitter' = [emitter EXCEPT
                ![e].todo = Tail(@),
                ![e].stale = IF w \in broken THEN @ \cup {w} ELSE @]
    /\ UNCHANGED <<replay, subs, published, cleared, abandoned, stage, backlog,
                   broken>>

\* The list without those gone, in its order.
Without(s, gone) ==
    LET kept[i \in 0 .. Len(s)] ==
            IF i = 0 THEN <<>>
            ELSE IF s[i] \in gone THEN kept[i - 1] ELSE Append(kept[i - 1], s[i])
    IN  kept[Len(s)]

\* Every connection on which the send raised is unregistered.
EmitDone(e) ==
    /\ emitter[e] # Idle
    /\ emitter[e].todo = <<>>
    /\ subs' = Without(subs, emitter[e].stale)
    /\ emitter' = [emitter EXCEPT ![e] = Idle]
    /\ UNCHANGED <<replay, published, cleared, abandoned, stage, backlog, broken,
                   got>>

\* The bot is cancelled: CancelledError is no Exception, so it leaves emit and
\* neither the other targets are served nor the stale ones unregistered.
EmitCancelled(e) ==
    /\ emitter[e] # Idle
    /\ emitter' = [emitter EXCEPT ![e] = Idle]
    /\ abandoned' = abandoned \cup {emitter[e].event}
    /\ UNCHANGED <<replay, subs, published, cleared, stage, backlog, broken,
                   got>>

\* A bot starts its login.
ClearReplay ==
    /\ replay' = <<>>
    /\ cleared' = published
    /\ UNCHANGED <<subs, published, abandoned, emitter, stage, backlog, broken,
                   got>>

-----------------------------------------------------------------------------
(* ws_account, the handler of a viewer's connection.                       *)

\* Variant: the newest event of the snapshot is sent first.
RegisterNewestFirst(w) ==
    /\ stage[w] = "new"
    /\ subs' = Append(subs, w)
    /\ stage' = [stage EXCEPT ![w] = "open"]
    /\ backlog' = [backlog EXCEPT ![w] = Reverse(replay)]
    /\ UNCHANGED <<replay, published, cleared, abandoned, emitter, broken,
                   got>>

Register(w) ==
    /\ stage[w] = "new"
    /\ subs' = Append(subs, w)
    /\ stage' = [stage EXCEPT ![w] = "open"]
    /\ backlog' = [backlog EXCEPT ![w] = replay]
    /\ UNCHANGED <<replay, published, cleared, abandoned, emitter, broken,
                   got>>

\* A send that raises ends the replay.
ReplayNext(w) ==
    /\ backlog[w] # <<>>
    /\ Sent(w, Head(backlog[w]), "replay")
    /\ backlog' = [backlog EXCEPT ![w] = IF w \in broken THEN <<>> ELSE Tail(@)]
    /\ UNCHANGED <<replay, subs, published, cleared, abandoned, emitter, stage,
                   broken>>

\* The connection is closed by either side, or its heartbeat fails.
Break(w) ==
    /\ stage[w] = "open"
    /\ broken' = broken \cup {w}
    /\ UNCHANGED <<replay, subs, published, cleared, abandoned, emitter, stage,
                   backlog, got>>

\* Variant: the handler returns without unregistering.
UnregisterSkipped(w) ==
    /\ stage[w] = "open" /\ w \in broken /\ backlog[w] = <<>>
    /\ stage' = [stage EXCEPT ![w] = "gone"]
    /\ UNCHANGED <<replay, subs, published, cleared, abandoned, emitter, backlog,
                   broken, got>>

\* ws.receive() reports the close.
Unregister(w) ==
    /\ stage[w] = "open" /\ w \in broken /\ backlog[w] = <<>>
    /\ stage' = [stage EXCEPT ![w] = "gone"]
    /\ subs' = Without(subs, {w})
    /\ UNCHANGED <<replay, published, cleared, abandoned, emitter, backlog,
                   broken, got>>

Next ==
    \/ \E e \in Emitters : Emit(e) \/ SendNext(e) \/ EmitDone(e) \/ EmitCancelled(e)
    \/ ClearReplay
    \/ \E w \in Sockets : Register(w) \/ ReplayNext(w) \/ Break(w) \/ Unregister(w)

(***************************************************************************)
(* Sends return or raise (the heartbeat closes a dead connection), and     *)
(* ws.receive() reports a close.                                           *)
(***************************************************************************)
Spec ==
    /\ Init
    /\ [][Next]_vars
    /\ \A e \in Emitters : WF_vars(SendNext(e) \/ EmitDone(e))
    /\ \A w \in Sockets : WF_vars(ReplayNext(w)) /\ WF_vars(Unregister(w))

-----------------------------------------------------------------------------

\* What one coroutine sends to a viewer (the replay, or one bot's events)
\* arrives in the order of publication.  A live event may overtake the replay.
EachStreamInOrder ==
    [][\A w \in Sockets : \A new \in got'[w] \ got[w] : \A old \in got[w] :
          old.via = new.via => old.event < new.event]_vars

Owed(w) ==
    Range(backlog[w])
        \cup {emitter[e].event : e \in {f \in Emitters : w \in Range(emitter[f].todo)}}

\* Nothing stays owed: a viewer that blocks or breaks does not keep the others
\* from being served.
NothingStaysOwed ==
    \A w \in Sockets : \A n \in Event : (n \in Owed(w)) ~> (n \notin Owed(w))

\* A broken connection leaves the list of subscribers.
BrokenIsUnregistered ==
    \A w \in Sockets : (w \in broken) ~> (w \notin Range(subs))

\* account_events.py: a viewer that connects after the login began still gets
\* its latest events, and then every event, once each.
Feed == INSTANCE EventFeed WITH
    Keep <- MaxReplay,
    viewers <- Range(subs),
    lost <- broken,
    owed <- [w \in Sockets |-> Owed(w)],
    got <- [w \in Sockets |-> {r.event : r \in got[w]}]
FeedImplemented == Feed!Spec
=============================================================================
