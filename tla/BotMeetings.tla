---------------------------- MODULE BotMeetings ----------------------------
(***************************************************************************)
(* The registry of clients has one entry per wxid and takes whoever writes *)
(* last; unregister pops the entry whoever's it is.  Nothing in the code   *)
(* keeps two bots of one wxid apart: a start may overtake the stop of its  *)
(* row, and two rows may log in as one account.  The history variable of   *)
(* this module remembers which bots ever ran next to another bot of their  *)
(* wxid, so that what the registry owes to all the others can be said.     *)
(***************************************************************************)
EXTENDS BotRuntime

VARIABLE met    \* history: bots that met another live bot of their wxid

meetvars == <<vars, met>>

Meeting(t) ==
    Live(t) /\ \E u \in DOMAIN bot : u # t /\ Live(u) /\ Wxid(u) = Wxid(t)

Company == {t \in DOMAIN bot : Meeting(t)}

MeetInit == Init /\ met = {}

MeetNext == Next /\ met' = met \cup Company'

MeetSpec == MeetInit /\ [][MeetNext]_meetvars

\* A bot waiting for messages that never met another of its wxid is the one the
\* registry hands out, and its client is open: nothing an earlier bot of the
\* wxid left in the registry, and nothing of its unwinding, gets in its way.
\* Stopped or not: the entry goes only when the bot leaves its wait.
RegisteredUnlessMet ==
    \A t \in DOMAIN bot :
        bot[t].phase = "hold" /\ t \notin met => registry[Wxid(t)] = Client(t)
=============================================================================
