---------------------------- MODULE MCAppLifespan ----------------------------
\* Instances of AppLifespan for TLC: a plugin that stays and one that goes.
EXTENDS AppLifespan, TLC

CONSTANTS r1, wx1, p1, p2

OneRowWxid == r1 :> wx1
MCHooksOf == p1 :> {"online", "offline", "background"}
          @@ p2 :> {"ready", "online", "offline"}
MCLists == {{p1, p2}, {p1}}
=============================================================================
