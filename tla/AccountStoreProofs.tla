-------------------------- MODULE AccountStoreProofs --------------------------
(***************************************************************************)
(* Theorems about AccountStore, for any rows, wxids and bots.              *)
(***************************************************************************)
EXTENDS AccountStore, SequenceTheorems, TLAPS

(***************************************************************************)
(* Lists of rows.                                                          *)
(***************************************************************************)

\* A list of rows with different ids, all among `known'.
Good(rows, known) ==
    /\ rows \in Seq(Row)
    /\ \A i \in DOMAIN rows : rows[i].id \in known
    /\ \A i, j \in DOMAIN rows : rows[i].id = rows[j].id => i = j

LEMMA RowsOfMember ==
    ASSUME NEW rows, NEW id
    PROVE  id \in RowsOf(rows) <=> \E i \in DOMAIN rows : rows[i].id = id
BY DEF RowsOf, Range

LEMMA GoodGrows ==
    ASSUME NEW rows, NEW known, NEW more, Good(rows, known), known \subseteq more
    PROVE  Good(rows, more)
BY DEF Good

\* A row with a new id is appended.
LEMMA GoodAppend ==
    ASSUME NEW rows, NEW known, Good(rows, known),
           NEW id \in Ids \ known, NEW wxid \in Wxids \cup {NoWxid}
    PROVE  /\ Good(Append(rows, NewRow(id, wxid)), known \cup {id})
           /\ \A i \in DOMAIN rows :
                 /\ i \in DOMAIN Append(rows, NewRow(id, wxid))
                 /\ Append(rows, NewRow(id, wxid))[i] = rows[i]
<1> DEFINE new == NewRow(id, wxid)
           longer == Append(rows, new)
<1>1. rows \in Seq(Row) /\ new \in Row /\ new.id = id
  BY DEF Good, NewRow, Row
<1>2. /\ longer \in Seq(Row) /\ Len(longer) = Len(rows) + 1
      /\ \A i \in 1 .. Len(rows) : longer[i] = rows[i]
      /\ longer[Len(rows) + 1] = new
  BY <1>1, AppendProperties
<1>3. Len(rows) \in Nat /\ DOMAIN rows = 1 .. Len(rows)
      /\ DOMAIN longer = 1 .. Len(rows) + 1
  BY <1>1, <1>2, LenProperties
<1> QED BY <1>1, <1>2, <1>3 DEF Good

\* A row is replaced by one with the same id.
LEMMA GoodExcept ==
    ASSUME NEW rows, NEW known, Good(rows, known),
           NEW i \in DOMAIN rows, NEW new \in Row, new.id = rows[i].id
    PROVE  /\ Good([rows EXCEPT ![i] = new], known)
           /\ DOMAIN [rows EXCEPT ![i] = new] = DOMAIN rows
           /\ \A j \in DOMAIN rows : [rows EXCEPT ![i] = new][j].id = rows[j].id
<1> DEFINE other == [rows EXCEPT ![i] = new]
<1>1. rows \in Seq(Row) /\ i \in 1 .. Len(rows)
  BY LenProperties DEF Good
<1>2. other \in Seq(Row) /\ DOMAIN other = DOMAIN rows
      /\ \A j \in DOMAIN rows : other[j] = IF j = i THEN new ELSE rows[j]
  BY <1>1, ExceptSeq
<1> QED BY <1>2 DEF Good

\* A row is removed: those in front of it stay where they are.
LEMMA GoodRemove ==
    ASSUME NEW rows, NEW known, Good(rows, known), NEW i \in DOMAIN rows
    PROVE  /\ Good(RemoveAt(rows, i), known)
           /\ \A j \in DOMAIN rows : j < i =>
                 j \in DOMAIN RemoveAt(rows, i) /\ RemoveAt(rows, i)[j] = rows[j]
           /\ \A j \in DOMAIN RemoveAt(rows, i) :
                 \E k \in DOMAIN rows : RemoveAt(rows, i)[j] = rows[k]
<1> DEFINE front == SubSeq(rows, 1, i - 1)
           back == SubSeq(rows, i + 1, Len(rows))
           n == Len(rows)
<1>1. rows \in Seq(Row) /\ n \in Nat /\ DOMAIN rows = 1 .. n /\ i \in 1 .. n
  BY LenProperties DEF Good
<1>2. /\ front \in Seq(Row) /\ Len(front) = i - 1
      /\ \A j \in 1 .. i - 1 : front[j] = rows[j]
  BY <1>1, SubSeqProperties, ElementOfSeq
<1>3. /\ back \in Seq(Row) /\ Len(back) = n - i
      /\ \A j \in 1 .. n - i : back[j] = rows[i + j]
  BY <1>1, SubSeqProperties, ElementOfSeq
<1>0. RemoveAt(rows, i) = front \o back
  BY DEF RemoveAt
<1> HIDE DEF front, back, n
<1>4. /\ front \o back \in Seq(Row)
      /\ Len(front \o back) = n - 1
      /\ \A j \in 1 .. n - 1 :
            (front \o back)[j] = IF j <= i - 1 THEN front[j] ELSE back[j - (i - 1)]
  <2>1. Len(front) + Len(back) = n - 1
    BY <1>1, <1>2, <1>3
  <2>2. /\ front \o back \in Seq(Row)
        /\ Len(front \o back) = Len(front) + Len(back)
        /\ \A j \in 1 .. Len(front) + Len(back) :
              (front \o back)[j] = IF j <= Len(front) THEN front[j]
                                                      ELSE back[j - Len(front)]
    BY <1>2, <1>3, ConcatProperties
  <2> QED BY <1>2, <2>1, <2>2
<1> DEFINE old(j) == IF j < i THEN j ELSE j + 1
<1>5. ASSUME NEW j \in 1 .. n - 1
      PROVE  old(j) \in 1 .. n /\ (front \o back)[j] = rows[old(j)]
  <2>1. CASE j < i
    <3>1. old(j) = j /\ j \in 1 .. i - 1 /\ j \in 1 .. n /\ j <= i - 1
      BY <1>1, <2>1
    <3> HIDE DEF old
    <3> QED BY <1>2, <1>4, <3>1
  <2>2. CASE ~(j < i)
    <3>1. j - (i - 1) \in 1 .. n - i /\ i + (j - (i - 1)) = j + 1 /\ ~(j <= i - 1)
          /\ old(j) = j + 1 /\ j + 1 \in 1 .. n
      BY <1>1, <2>2
    <3>2. (front \o back)[j] = back[j - (i - 1)]
      BY <1>4, <3>1
    <3> HIDE DEF old
    <3> QED BY <1>3, <3>1, <3>2
  <2> QED BY <2>1, <2>2
<1>6. DOMAIN (front \o back) = 1 .. n - 1
  BY <1>1, <1>4, LenProperties
<1>7. \A j, k \in 1 .. n - 1 : old(j) = old(k) => j = k
  BY <1>1
<1>8. \A j \in 1 .. n : j < i => j \in 1 .. n - 1 /\ old(j) = j
  BY <1>1
<1> HIDE DEF old
<1>9. Good(front \o back, known)
  <2>1. \A j \in 1 .. n - 1 : (front \o back)[j].id \in known
    BY <1>1, <1>5 DEF Good
  <2>2. ASSUME NEW j \in 1 .. n - 1, NEW k \in 1 .. n - 1,
               (front \o back)[j].id = (front \o back)[k].id
        PROVE  j = k
    <3>1. rows[old(j)].id = rows[old(k)].id
          /\ old(j) \in DOMAIN rows /\ old(k) \in DOMAIN rows
      BY <1>1, <1>5, <2>2
    <3> QED BY <1>7, <3>1 DEF Good
  <2> QED BY <1>4, <1>6, <2>1, <2>2 DEF Good
<1>10. ASSUME NEW j \in 1 .. n, j < i
       PROVE  j \in 1 .. n - 1 /\ (front \o back)[j] = rows[j]
  BY <1>5, <1>8, <1>10
<1>11. \A j \in 1 .. n - 1 : \E k \in 1 .. n : (front \o back)[j] = rows[k]
  BY <1>5
<1> QED BY <1>0, <1>1, <1>6, <1>9, <1>10, <1>11

(***************************************************************************)
(* Type correctness.                                                       *)
(***************************************************************************)

\* The bot's row is in its list.
Holds(ls, bot) ==
    /\ bot \in Bot
    /\ bot.list \in DOMAIN ls
    /\ bot.idx \in DOMAIN ls[bot.list]
    /\ ls[bot.list][bot.idx].id = bot.id

\* TypeOK does not say that ids are never used again, which keeps those of a
\* list apart, in the file as in the lists that are written back to it.
Sound ==
    /\ created \subseteq Ids /\ lost \subseteq created
    /\ Good(file, created)
    /\ lists \in Seq(Seq(Row))
    /\ \A l \in DOMAIN lists : Good(lists[l], created)
    /\ DOMAIN bots \subseteq Bots
    /\ \A b \in DOMAIN bots : Holds(lists, bots[b])

LEMMA SoundIsTyped == Sound => TypeOK
BY DEF Sound, Good, Holds, TypeOK

\* A list object is added.
LEMMA ListsAppend ==
    ASSUME Sound, NEW rows, Good(rows, created), lists' = Append(lists, rows)
    PROVE  /\ lists' \in Seq(Seq(Row))
           /\ DOMAIN lists' = 1 .. Len(lists) + 1 /\ Len(lists) \in Nat
           /\ \A l \in DOMAIN lists : l \in DOMAIN lists' /\ lists'[l] = lists[l]
           /\ lists'[Len(lists) + 1] = rows
           /\ \A l \in DOMAIN lists' : Good(lists'[l], created)
           /\ \A b \in DOMAIN bots : Holds(lists', bots[b])
<1>1. lists \in Seq(Seq(Row)) /\ rows \in Seq(Row)
  BY DEF Sound, Good
<1>2. /\ Len(lists) \in Nat /\ DOMAIN lists = 1 .. Len(lists)
      /\ lists' \in Seq(Seq(Row)) /\ Len(lists') = Len(lists) + 1
      /\ \A l \in 1 .. Len(lists) : lists'[l] = lists[l]
      /\ lists'[Len(lists) + 1] = rows
  BY <1>1, AppendProperties, LenProperties
<1>3. DOMAIN lists' = 1 .. Len(lists) + 1
  BY <1>2, LenProperties
<1>4. \A l \in DOMAIN lists : l \in DOMAIN lists' /\ lists'[l] = lists[l]
  BY <1>2, <1>3
<1>5. \A l \in DOMAIN lists' : l \in DOMAIN lists \/ l = Len(lists) + 1
  BY <1>2, <1>3
<1>6. \A l \in DOMAIN lists' : Good(lists'[l], created)
  BY <1>2, <1>4, <1>5 DEF Sound
<1>7. \A b \in DOMAIN bots : Holds(lists', bots[b])
  BY <1>4 DEF Sound, Holds
<1> QED BY <1>2, <1>3, <1>4, <1>6, <1>7

\* A row of a list object is changed, all but its id.
LEMMA ListsExcept ==
    ASSUME Sound, NEW l \in DOMAIN lists, NEW i \in DOMAIN lists[l],
           NEW new \in Row, new.id = lists[l][i].id,
           lists' = [lists EXCEPT ![l] = [lists[l] EXCEPT ![i] = new]]
    PROVE  /\ lists' \in Seq(Seq(Row))
           /\ DOMAIN lists' = DOMAIN lists
           /\ lists'[l] = [lists[l] EXCEPT ![i] = new]
           /\ \A k \in DOMAIN lists : k # l => lists'[k] = lists[k]
           /\ \A k \in DOMAIN lists :
                 /\ Good(lists'[k], created)
                 /\ DOMAIN lists'[k] = DOMAIN lists[k]
                 /\ \A j \in DOMAIN lists[k] : lists'[k][j].id = lists[k][j].id
           /\ \A bot : Holds(lists, bot) => Holds(lists', bot)
<1> DEFINE rows == [lists[l] EXCEPT ![i] = new]
<1>1. lists \in Seq(Seq(Row)) /\ l \in 1 .. Len(lists) /\ DOMAIN lists = 1 .. Len(lists)
  BY LenProperties DEF Sound
<1>2. /\ Good(rows, created) /\ DOMAIN rows = DOMAIN lists[l]
      /\ \A j \in DOMAIN lists[l] : rows[j].id = lists[l][j].id
  BY GoodExcept DEF Sound
<1>3. rows \in Seq(Row)
  BY <1>2 DEF Good
<1> HIDE DEF rows
<1>4. /\ lists' \in Seq(Seq(Row)) /\ DOMAIN lists' = DOMAIN lists
      /\ \A k \in DOMAIN lists : lists'[k] = IF k = l THEN rows ELSE lists[k]
  BY <1>1, <1>3, ExceptSeq DEF rows
<1>5. \A k \in DOMAIN lists :
         /\ Good(lists'[k], created)
         /\ DOMAIN lists'[k] = DOMAIN lists[k]
         /\ \A j \in DOMAIN lists[k] : lists'[k][j].id = lists[k][j].id
  BY <1>2, <1>4 DEF Sound
<1>6. \A bot : Holds(lists, bot) => Holds(lists', bot)
  BY <1>4, <1>5 DEF Holds
<1> QED BY <1>4, <1>5, <1>6 DEF rows

(***************************************************************************)
(* What the steps of bots have in common.                                  *)
(***************************************************************************)

\* Bots are started with the present rows, each at an index of its own.
Starts ==
    /\ \A c \in DOMAIN bots' \ DOMAIN bots : bots'[c].idx \notin Running
    /\ DOMAIN bots \subseteq DOMAIN bots' /\ DOMAIN bots' \subseteq DOMAIN bots \cup Bots
    /\ \A c \in DOMAIN bots : bots'[c] = bots[c]
    /\ \A c \in DOMAIN bots' \ DOMAIN bots :
          \E i \in DOMAIN file : bots'[c] = NewBot(file, i)
    /\ \A c, d \in DOMAIN bots' \ DOMAIN bots : bots'[c].idx = bots'[d].idx => c = d
    /\ lists' = Append(lists, file)
    /\ UNCHANGED <<file, created, lost>>

LEMMA StartOneStarts == ASSUME NEW i \in DOMAIN file, StartOne(i) PROVE Starts
<1>1. PICK b \in Bots \ DOMAIN bots :
         bots' = [c \in DOMAIN bots \cup {b} |->
                     IF c = b THEN NewBot(file, i) ELSE bots[c]]
  BY DEF StartOne
<1>2. /\ DOMAIN bots' = DOMAIN bots \cup {b} /\ bots'[b] = NewBot(file, i)
      /\ \A c \in DOMAIN bots : bots'[c] = bots[c]
  BY <1>1
<1>3. bots'[b].idx \notin Running
  BY <1>2 DEF StartOne, NewBot
<1> QED BY <1>2, <1>3 DEF StartOne, Starts

LEMMA StartAllStarts == ASSUME StartAll PROVE Starts
<1>1. PICK started \in [DOMAIN file \ Running -> Bots \ DOMAIN bots] :
         /\ IsInjective(started)
         /\ bots' = [c \in DOMAIN bots \cup Range(started) |->
                       IF c \in DOMAIN bots THEN bots[c]
                       ELSE NewBot(file, CHOOSE i \in DOMAIN started : started[i] = c)]
  BY DEF StartAll
<1>2. DOMAIN bots' = DOMAIN bots \cup Range(started)
      /\ \A c \in DOMAIN bots : bots'[c] = bots[c]
  BY <1>1
<1>3. ASSUME NEW c \in DOMAIN bots' \ DOMAIN bots
      PROVE  \E i \in DOMAIN file \ Running : started[i] = c /\ bots'[c] = NewBot(file, i)
  <2>1. \E i \in DOMAIN started : started[i] = c
    BY <1>2, <1>3 DEF Range
  <2> DEFINE i == CHOOSE i \in DOMAIN started : started[i] = c
  <2>2. i \in DOMAIN started /\ started[i] = c
    BY <2>1
  <2>3. bots'[c] = NewBot(file, i)
    BY <1>1, <1>2, <1>3
  <2> QED BY <1>1, <2>2, <2>3
<1>4. ASSUME NEW c \in DOMAIN bots' \ DOMAIN bots, NEW d \in DOMAIN bots' \ DOMAIN bots,
             bots'[c].idx = bots'[d].idx
      PROVE  c = d
  <2>1. PICK i \in DOMAIN file : started[i] = c /\ bots'[c] = NewBot(file, i)
    BY <1>3
  <2>2. PICK j \in DOMAIN file : started[j] = d /\ bots'[d] = NewBot(file, j)
    BY <1>3
  <2> QED BY <1>4, <2>1, <2>2 DEF NewBot
<1>5. DOMAIN bots' \subseteq DOMAIN bots \cup Bots
  BY <1>1, <1>2 DEF Range
<1>6. \A c \in DOMAIN bots' \ DOMAIN bots : bots'[c].idx \notin Running
  BY <1>3 DEF NewBot
<1> QED BY <1>2, <1>3, <1>4, <1>5, <1>6 DEF StartAll, Starts

\* A bot changes its row in its list to `new' and, unless that fails, writes the
\* list back; what it is logged in as is then `wxid'.
Saves(b, new, wxid) ==
    LET own == bots[b] IN
    /\ lists' = [lists EXCEPT ![own.list] = [lists[own.list] EXCEPT ![own.idx] = new]]
    /\ Write(lists'[own.list]) \/ WriteFails
    /\ created' = created
    /\ DOMAIN bots' = DOMAIN bots
    /\ \A c \in DOMAIN bots : c # b => bots'[c] = bots[c]
    /\ bots'[b] = [bots[b] EXCEPT !.wxid = wxid]

\* A bot that saves its profile writes its list back as it is.
LEMMA ProfileWrites ==
    ASSUME Sound, NEW b, ProfileSaved(b)
    PROVE  /\ b \in DOMAIN bots /\ Live(b) /\ Holds(lists, bots[b])
           /\ Good(lists[bots[b].list], created)
           /\ Write(lists[bots[b].list]) \/ UNCHANGED <<file, lost>>
           /\ UNCHANGED <<created, lists, bots>>
BY DEF Sound, Holds, ProfileSaved, WriteFails, Live

LEMMA LoginSaves ==
    ASSUME Sound, NEW b, NEW wxid \in Wxids, LoginSaved(b, wxid)
    PROVE  \E new \in Row : /\ new.id = bots[b].id /\ new.wxid = wxid
                            /\ \/ Saves(b, new, wxid) /\ Write(lists'[bots[b].list])
                               \/ Saves(b, new, NoWxid) /\ UNCHANGED <<file, lost>>
<1> DEFINE row == lists[bots[b].list][bots[b].idx]
           new == [row EXCEPT !.wxid = wxid]
<1>1. Holds(lists, bots[b]) /\ Good(lists[bots[b].list], created) /\ b \in DOMAIN bots
  BY DEF Sound, LoginSaved, Live, Holds
<1>2. row \in Row /\ row.id = bots[b].id
  BY <1>1, ElementOfSeq, LenProperties DEF Holds, Good
<1>3. new \in Row /\ new.id = bots[b].id /\ new.wxid = wxid
  BY <1>2 DEF Row
<1>4. CASE Write(lists'[bots[b].list]) /\ bots' = [bots EXCEPT ![b].wxid = wxid]
  BY <1>1, <1>3, <1>4 DEF LoginSaved, Saves
<1>5. CASE WriteFails /\ bots' = [bots EXCEPT ![b].wxid = NoWxid]
  <2>1. Saves(b, new, NoWxid)
    BY <1>1, <1>5 DEF LoginSaved, Saves
  <2> QED BY <1>3, <1>5, <2>1 DEF WriteFails
<1> QED BY <1>4, <1>5 DEF LoginSaved

LEMMA StartsSound == ASSUME Sound, Starts PROVE Sound'
<1> USE DEF Starts
<1>1. Good(file, created) /\ Len(lists) \in Nat
  BY LenProperties DEF Sound
<1>2. /\ lists' \in Seq(Seq(Row)) /\ DOMAIN lists' = 1 .. Len(lists) + 1
      /\ lists'[Len(lists) + 1] = file
      /\ \A l \in DOMAIN lists' : Good(lists'[l], created)
      /\ \A b \in DOMAIN bots : Holds(lists', bots[b])
  BY <1>1, ListsAppend
<1>3. ASSUME NEW c \in DOMAIN bots' PROVE Holds(lists', bots'[c])
  <2>1. CASE c \in DOMAIN bots
    BY <1>2, <2>1
  <2>2. CASE c \notin DOMAIN bots
    <3>1. PICK i \in DOMAIN file : bots'[c] = NewBot(file, i)
      BY <2>2
    <3>2. i \in Nat /\ file[i] \in Row
      BY <1>1, LenProperties, ElementOfSeq DEF Good
    <3>3. NewBot(file, i) \in Bot
      BY <1>1, <3>2 DEF NewBot, Bot, Row
    <3> QED BY <1>1, <1>2, <3>1, <3>3 DEF Holds, NewBot
  <2> QED BY <2>1, <2>2
<1> QED BY <1>1, <1>2, <1>3 DEF Sound

LEMMA SavesSound ==
    ASSUME Sound, NEW b \in DOMAIN bots, NEW new \in Row, new.id = bots[b].id,
           NEW wxid \in Wxids \cup {NoWxid}, Saves(b, new, wxid)
    PROVE  Sound'
<1> DEFINE l == bots[b].list
           i == bots[b].idx
<1>1. Holds(lists, bots[b])
  BY DEF Sound
<1>2. l \in DOMAIN lists /\ i \in DOMAIN lists[l] /\ new.id = lists[l][i].id
      /\ lists' = [lists EXCEPT ![l] = [lists[l] EXCEPT ![i] = new]]
  BY <1>1 DEF Holds, Saves
<1> HIDE DEF l, i
<1>3. /\ lists' \in Seq(Seq(Row)) /\ DOMAIN lists' = DOMAIN lists
      /\ \A k \in DOMAIN lists : Good(lists'[k], created)
      /\ \A bot : Holds(lists, bot) => Holds(lists', bot)
  BY <1>2, ListsExcept
<1>4. Good(file', created) /\ lost' \subseteq created /\ created' = created
  BY <1>2, <1>3 DEF Sound, Saves, Write, WriteFails, l
<1>5. Holds(lists', bots'[b])
  <2>1. Holds(lists', bots[b]) /\ bots[b] \in Bot
    BY <1>1, <1>3 DEF Holds
  <2>2. bots'[b] \in Bot /\ bots'[b].list = bots[b].list /\ bots'[b].idx = bots[b].idx
        /\ bots'[b].id = bots[b].id
    BY <2>1 DEF Saves, Bot
  <2> QED BY <2>1, <2>2 DEF Holds
<1>6. \A c \in DOMAIN bots' : Holds(lists', bots'[c])
  BY <1>3, <1>5 DEF Sound, Saves
<1> QED BY <1>3, <1>4, <1>6 DEF Sound, Saves

LEMMA SoundStep == Sound /\ [Next]_vars => Sound'
<1> SUFFICES ASSUME Sound, [Next]_vars PROVE Sound'
  OBVIOUS
<1>1. ASSUME NEW wxid \in Wxids \cup {NoWxid}, Create(wxid) PROVE Sound'
  <2>1. PICK rows \in Readings, id \in Ids \ created :
           /\ created' = created \cup {id}
           /\ file' = Append(rows, NewRow(id, wxid))
           /\ lost' = IF rows = file THEN lost ELSE lost \cup RowsOf(file)
    BY <1>1 DEF Create
  <2>2. Good(rows, created)
    <3>1. rows = file \/ rows = <<>>
      BY <2>1 DEF Readings
    <3>2. Good(<<>>, created)
      BY DEF Good
    <3> QED BY <3>1, <3>2 DEF Sound
  <2>3. Good(file', created')
    BY <2>1, <2>2, GoodAppend
  <2>4. RowsOf(file) \subseteq created
    BY RowsOfMember DEF Sound, Good
  <2>5. \A l \in DOMAIN lists : Good(lists[l], created')
    BY <2>1, GoodGrows DEF Sound
  <2> QED BY <1>1, <2>1, <2>3, <2>4, <2>5 DEF Sound, Create
<1>2. ASSUME NEW i \in DOMAIN file, NEW wxid \in Wxids \cup {NoWxid}, Update(i, wxid)
      PROVE  Sound'
  <2> DEFINE new == [file[i] EXCEPT !.wxid = wxid]
  <2>1. file[i] \in Row
    BY LenProperties, ElementOfSeq DEF Sound, Good
  <2>2. new \in Row /\ new.id = file[i].id /\ file' = [file EXCEPT ![i] = new]
    BY <1>2, <2>1 DEF Row, Update
  <2>3. Good(file', created)
    BY <2>2, GoodExcept DEF Sound
  <2> QED BY <1>2, <2>3 DEF Sound, Update
<1>3. ASSUME NEW i \in DOMAIN file, Delete(i) PROVE Sound'
  <2>1. Good(file', created)
    BY <1>3, GoodRemove DEF Sound, Delete
  <2> QED BY <1>3, <2>1 DEF Sound, Delete
<1>4. ASSUME NEW i \in DOMAIN file, StartOne(i) PROVE Sound'
  BY <1>4, StartOneStarts, StartsSound
<1>5. CASE StartAll
  BY <1>5, StartAllStarts, StartsSound
<1>6. ASSUME NEW b \in DOMAIN bots, Ends(b) PROVE Sound'
  <2>1. \A c \in DOMAIN bots : Holds(lists, bots[c]) => Holds(lists, bots'[c])
    BY <1>6 DEF Ends, Holds, Bot
  <2> QED BY <1>6, <2>1 DEF Sound, Ends
<1>7. ASSUME NEW b \in Bots, BotEnds(b) PROVE Sound'
  BY <1>6, <1>7 DEF BotEnds, Live
<1>8. ASSUME NEW i \in DOMAIN file, StopOne(i) PROVE Sound'
  BY <1>6, <1>8 DEF StopOne
<1>9. ASSUME NEW b \in Bots, ProfileSaved(b) PROVE Sound'
  <2>1. Good(file', created) /\ lost' \subseteq lost
    BY <1>9, ProfileWrites DEF Sound, Write
  <2> QED BY <1>9, <2>1, ProfileWrites DEF Sound
<1>10. ASSUME NEW b \in Bots, NEW wxid \in Wxids, LoginSaved(b, wxid) PROVE Sound'
  <2>1. b \in DOMAIN bots
    BY <1>10 DEF LoginSaved, Live
  <2> QED BY <1>10, <2>1, LoginSaves, SavesSound
<1>11. CASE UNCHANGED vars
  BY <1>11 DEF vars, Sound, Good, Holds
<1> QED BY <1>1, <1>2, <1>3, <1>4, <1>5, <1>7, <1>8, <1>9, <1>10, <1>11 DEF Next

LEMMA SoundInit == Init => Sound
BY DEF Init, Sound, Good

\* The web API and the bots keep accounts.json and the lists of the bots well
\* typed, with different ids, and each bot's row in its list.
THEOREM TypeCorrect == Spec => []TypeOK
<1>1. Spec => []Sound
  BY SoundInit, SoundStep, PTL DEF Spec
<1> QED BY <1>1, SoundIsTyped, PTL

(***************************************************************************)
(* The bots that run have an index each, so that no other one changes the  *)
(* row of a bot in its list, and the list says what the bot is logged in   *)
(* as.  Whoever writes that list writes the row of each of its bots.       *)
(***************************************************************************)
Told(b) ==
    LET own == bots[b] IN
    own.wxid # NoWxid => lists[own.list][own.idx].wxid = own.wxid

Apart ==
    /\ \A b, c \in DOMAIN bots :
          Live(b) /\ Live(c) /\ bots[b].idx = bots[c].idx => b = c
    /\ \A b \in DOMAIN bots : Live(b) => Told(b)

LEMMA StartsApart == ASSUME Sound, Apart, Starts PROVE Apart'
<1> USE DEF Starts
<1>1. /\ \A l \in DOMAIN lists : lists'[l] = lists[l]
      /\ Good(file, created)
  BY ListsAppend DEF Sound
<1>2. ASSUME NEW b \in DOMAIN bots, Live(b)'
      PROVE  Live(b) /\ bots[b].idx \in Running /\ Told(b)'
  <2>1. Live(b) /\ bots[b].list \in DOMAIN lists /\ bots'[b] = bots[b]
    BY <1>2 DEF Live, Sound, Holds
  <2>2. Told(b)
    BY <2>1 DEF Apart
  <2> QED BY <1>1, <2>1, <2>2 DEF Running, Told
<1>3. \A b \in DOMAIN bots' \ DOMAIN bots : Told(b)'
  BY DEF NewBot, Told
<1>4. ASSUME NEW b \in DOMAIN bots', NEW c \in DOMAIN bots',
             Live(b)', Live(c)', bots'[b].idx = bots'[c].idx
      PROVE  b = c
  <2>1. CASE b \in DOMAIN bots /\ c \in DOMAIN bots
    BY <1>2, <1>4, <2>1 DEF Apart
  <2>2. CASE b \in DOMAIN bots' \ DOMAIN bots /\ c \in DOMAIN bots' \ DOMAIN bots
    BY <1>4, <2>2
  <2>3. CASE b \in DOMAIN bots /\ c \notin DOMAIN bots
    BY <1>2, <1>4, <2>3
  <2>4. CASE b \notin DOMAIN bots /\ c \in DOMAIN bots
    BY <1>2, <1>4, <2>4
  <2> QED BY <2>1, <2>2, <2>3, <2>4
<1> QED BY <1>2, <1>3, <1>4 DEF Apart

\* What a save leaves of the lists and of the bots.
LEMMA SavesRows ==
    ASSUME Sound, Apart, NEW b \in DOMAIN bots, Live(b),
           NEW new \in Row, new.id = bots[b].id,
           NEW wxid \in Wxids \cup {NoWxid}, Saves(b, new, wxid),
           wxid # NoWxid => new.wxid = wxid
    PROVE  /\ DOMAIN bots' = DOMAIN bots
           /\ \A c \in DOMAIN bots :
                 /\ Live(c)' <=> Live(c)
                 /\ bots'[c].list = bots[c].list
                 /\ bots'[c].idx = bots[c].idx
                 /\ bots'[c].id = bots[c].id
                 /\ c # b => bots'[c] = bots[c]
                 /\ Holds(lists', bots'[c])
                 /\ Live(c) => Told(c)'
           /\ bots'[b].wxid = wxid
<1> DEFINE l == bots[b].list
           i == bots[b].idx
<1>1. Holds(lists, bots[b])
  BY DEF Sound
<1>2. l \in DOMAIN lists /\ i \in DOMAIN lists[l] /\ new.id = lists[l][i].id
      /\ lists' = [lists EXCEPT ![l] = [lists[l] EXCEPT ![i] = new]]
  BY <1>1 DEF Holds, Saves
<1>3. /\ DOMAIN lists' = DOMAIN lists
      /\ \A k \in DOMAIN lists : k # l => lists'[k] = lists[k]
      /\ lists'[l] = [lists[l] EXCEPT ![i] = new]
      /\ DOMAIN lists'[l] = DOMAIN lists[l]
  <2> HIDE DEF l, i
  <2> QED BY <1>2, ListsExcept
<1>4. lists'[l][i] = new /\ \A j \in DOMAIN lists[l] \ {i} : lists'[l][j] = lists[l][j]
  BY <1>2, <1>3
<1>5. /\ DOMAIN bots' = DOMAIN bots
      /\ \A c \in DOMAIN bots : c # b => bots'[c] = bots[c]
      /\ bots'[b].list = l /\ bots'[b].idx = i /\ bots'[b].id = bots[b].id
      /\ bots'[b].wxid = wxid /\ bots'[b].live = bots[b].live
  BY <1>1 DEF Saves, Holds, Bot
<1>6. \A c \in DOMAIN bots : Live(c)' <=> Live(c)
  BY <1>5 DEF Live
<1>7. \A c \in DOMAIN bots : Holds(lists', bots'[c])
  BY <1>5, SavesSound DEF Sound
<1>8. ASSUME NEW c \in DOMAIN bots, Live(c) PROVE Told(c)'
  <2>1. CASE c = b
    BY <1>4, <1>5, <2>1 DEF Told
  <2>2. CASE c # b
    <3>1. Told(c) /\ bots[c].idx # i /\ bots'[c] = bots[c] /\ Holds(lists, bots[c])
      BY <1>5, <1>8, <2>2 DEF Apart, Sound
    <3>2. lists'[bots[c].list][bots[c].idx] = lists[bots[c].list][bots[c].idx]
      BY <1>3, <1>4, <3>1 DEF Holds
    <3> QED BY <3>1, <3>2 DEF Told
  <2> QED BY <2>1, <2>2
<1> HIDE DEF l, i
<1>9. \A c \in DOMAIN bots : bots'[c].list = bots[c].list /\ bots'[c].idx = bots[c].idx
                                /\ bots'[c].id = bots[c].id
  BY <1>5 DEF l, i
<1> QED BY <1>5, <1>6, <1>7, <1>8, <1>9

LEMMA EndsApart == ASSUME Sound, Apart, NEW b \in DOMAIN bots, Ends(b) PROVE Apart'
<1>1. /\ DOMAIN bots' = DOMAIN bots /\ lists' = lists
      /\ \A c \in DOMAIN bots : Live(c)' => Live(c) /\ bots'[c] = bots[c]
  BY DEF Ends, Live, Sound, Holds, Bot
<1> QED BY <1>1 DEF Apart, Told

LEMMA ApartStep == Sound /\ Apart /\ [Next]_vars => Apart'
<1> SUFFICES ASSUME Sound, Apart, [Next]_vars PROVE Apart'
  OBVIOUS
<1>1. CASE UNCHANGED <<lists, bots>>
  BY <1>1 DEF Apart, Told, Live
<1>2. ASSUME NEW i \in DOMAIN file, StartOne(i) PROVE Apart'
  BY <1>2, StartOneStarts, StartsApart
<1>3. CASE StartAll
  BY <1>3, StartAllStarts, StartsApart
<1>4. ASSUME NEW b \in Bots, BotEnds(b) PROVE Apart'
  BY <1>4, EndsApart DEF BotEnds, Live
<1>5. ASSUME NEW i \in DOMAIN file, StopOne(i) PROVE Apart'
  BY <1>5, EndsApart DEF StopOne
<1>6. ASSUME NEW b \in Bots, NEW wxid \in Wxids, LoginSaved(b, wxid) PROVE Apart'
  <2>1. b \in DOMAIN bots /\ Live(b)
    BY <1>6 DEF LoginSaved, Live
  <2>2. PICK new \in Row, w \in {wxid, NoWxid} :
           new.id = bots[b].id /\ new.wxid = wxid /\ Saves(b, new, w)
    BY <1>6, LoginSaves
  <2>3. /\ DOMAIN bots' = DOMAIN bots
        /\ \A c \in DOMAIN bots : /\ Live(c)' <=> Live(c)
                                  /\ bots'[c].idx = bots[c].idx
                                  /\ Live(c) => Told(c)'
    BY <2>1, <2>2, SavesRows
  <2> QED BY <2>3 DEF Apart
<1> QED
  BY <1>1, <1>2, <1>3, <1>4, <1>5, <1>6
     DEF Next, vars, Create, Update, Delete, ProfileSaved

(***************************************************************************)
(* What a step makes of the row of a bot that runs before and after it.    *)
(***************************************************************************)

\* A list with the bot's row is written, and the list says its wxid.
LEMMA WrittenIsKept ==
    ASSUME NEW b, Told(b)', Holds(lists', bots'[b]), file' = lists'[bots'[b].list]
    PROVE  Kept(b)'
BY DEF Told, Holds, Kept, AtItsIndex

\* The file keeps the row and the bot does not change.
LEMMA SameRowIsKept ==
    ASSUME NEW b, Kept(b), bots'[b] = bots[b],
           bots[b].idx \in DOMAIN file', file'[bots[b].idx] = file[bots[b].idx]
    PROVE  Kept(b)'
BY DEF Kept, AtItsIndex

Excused(b) ==
    \/ Kept(b)'
    \/ bots[b].id \in lost'
    \/ DeletedBefore(bots[b].idx)
    \/ OtherListSaved(b)

LEMMA CreateKeeps ==
    ASSUME Sound, NEW wxid \in Wxids \cup {NoWxid}, Create(wxid),
           NEW b \in DOMAIN bots, Kept(b)
    PROVE  Excused(b)
<1>1. PICK rows \in Readings, id \in Ids \ created :
         /\ file' = Append(rows, NewRow(id, wxid))
         /\ lost' = IF rows = file THEN lost ELSE lost \cup RowsOf(file)
  BY DEF Create
<1>2. CASE rows = file
  <2>1. \A i \in DOMAIN file : i \in DOMAIN file' /\ file'[i] = file[i]
    BY <1>1, <1>2, GoodAppend DEF Sound
  <2> QED BY <2>1, SameRowIsKept DEF Create, Kept, AtItsIndex, Excused
<1>3. CASE rows # file
  <2>1. bots[b].id \in RowsOf(file)
    BY RowsOfMember DEF Kept, AtItsIndex
  <2> QED BY <1>1, <1>3, <2>1 DEF Excused
<1> QED BY <1>2, <1>3

LEMMA DeleteKeeps ==
    ASSUME Sound, NEW i \in DOMAIN file, Delete(i),
           NEW b \in DOMAIN bots, Live(b), Kept(b)
    PROVE  Excused(b)
<1> DEFINE j == bots[b].idx
<1>1. j \in DOMAIN file /\ j # i
  BY DEF Kept, AtItsIndex, Delete, Running
<1>2. i \in Nat /\ j \in Nat
  BY <1>1, LenProperties DEF Sound, Good
<1>3. CASE i < j
  BY <1>3 DEF Excused, DeletedBefore
<1>4. CASE j < i
  <2>1. j \in DOMAIN file' /\ file'[j] = file[j]
    BY <1>1, <1>4, GoodRemove DEF Sound, Delete
  <2> QED BY <2>1, SameRowIsKept DEF Delete, Excused
<1> QED BY <1>1, <1>2, <1>3, <1>4

LEMMA ProfileKeeps ==
    ASSUME Sound, Apart, NEW c, ProfileSaved(c),
           NEW b \in DOMAIN bots, Live(b), Kept(b)
    PROVE  Excused(b)
<1>1. c \in DOMAIN bots /\ UNCHANGED <<lists, bots>>
  BY ProfileWrites
<1>2. CASE bots[c].list # bots[b].list
  BY <1>1, <1>2 DEF Excused, OtherListSaved
<1>3. CASE bots[c].list = bots[b].list /\ Write(lists[bots[c].list])
  <2>1. Told(b)' /\ Holds(lists', bots'[b]) /\ file' = lists'[bots'[b].list]
    BY <1>1, <1>3 DEF Apart, Told, Sound, Write
  <2> QED BY <2>1, WrittenIsKept DEF Excused
<1>4. CASE UNCHANGED file
  BY <1>1, <1>4, SameRowIsKept DEF Excused, Kept, AtItsIndex
<1> QED BY <1>2, <1>3, <1>4, ProfileWrites

LEMMA LoginKeeps ==
    ASSUME Sound, Apart, NEW c, NEW wxid \in Wxids, LoginSaved(c, wxid),
           NEW b \in DOMAIN bots, Live(b), Kept(b)
    PROVE  Excused(b)
<1>1. c \in DOMAIN bots /\ Live(c)
  BY DEF LoginSaved, Live
<1>2. PICK new \in Row, w \in {wxid, NoWxid} :
         /\ new.id = bots[c].id /\ new.wxid = wxid /\ Saves(c, new, w)
         /\ \/ Write(lists'[bots[c].list])
            \/ w = NoWxid /\ UNCHANGED <<file, lost>>
  BY LoginSaves
<1>3. /\ bots'[b].list = bots[b].list /\ bots'[b].idx = bots[b].idx
      /\ bots'[b].id = bots[b].id /\ (b # c => bots'[b] = bots[b])
      /\ Holds(lists', bots'[b]) /\ Told(b)' /\ bots'[c].wxid = w
  BY <1>1, <1>2, SavesRows
<1>4. CASE bots[c].list # bots[b].list
  BY <1>1, <1>4 DEF Excused, OtherListSaved
<1>5. CASE bots[c].list = bots[b].list /\ Write(lists'[bots[c].list])
  <2>1. file' = lists'[bots'[b].list]
    BY <1>3, <1>5 DEF Write
  <2> QED BY <1>3, <2>1, WrittenIsKept DEF Excused
<1>6. CASE w = NoWxid /\ UNCHANGED <<file, lost>>
  BY <1>3, <1>6 DEF Kept, AtItsIndex, Excused
<1> QED BY <1>2, <1>4, <1>5, <1>6

LEMMA StepKeeps ==
    ASSUME Sound, Apart, Next, NEW b \in DOMAIN bots, Live(b), Live(b)', Kept(b)
    PROVE  Excused(b)
<1>1. ASSUME NEW wxid \in Wxids \cup {NoWxid}, Create(wxid) PROVE Excused(b)
  BY <1>1, CreateKeeps
<1>2. ASSUME NEW i \in DOMAIN file, NEW wxid \in Wxids \cup {NoWxid}, Update(i, wxid)
      PROVE  Excused(b)
  <2>1. bots[b].idx # i /\ bots[b].idx \in DOMAIN file
    BY <1>2 DEF Update, Running, Kept, AtItsIndex
  <2>2. bots[b].idx \in DOMAIN file' /\ file'[bots[b].idx] = file[bots[b].idx]
    BY <1>2, <2>1 DEF Update
  <2> QED BY <1>2, <2>2, SameRowIsKept DEF Update, Excused
<1>3. ASSUME NEW i \in DOMAIN file, Delete(i) PROVE Excused(b)
  BY <1>3, DeleteKeeps
<1>4. CASE Starts
  BY <1>4, SameRowIsKept DEF Starts, Excused, Kept, AtItsIndex
<1>5. ASSUME NEW c \in DOMAIN bots, Ends(c) PROVE Excused(b)
  <2>1. bots'[b] = bots[b] /\ file' = file
    BY <1>5 DEF Ends, Live, Sound, Holds, Bot
  <2> QED BY <2>1, SameRowIsKept DEF Excused, Kept, AtItsIndex
<1>6. ASSUME NEW c \in Bots, ProfileSaved(c) PROVE Excused(b)
  BY <1>6, ProfileKeeps
<1>7. ASSUME NEW c \in Bots, NEW wxid \in Wxids, LoginSaved(c, wxid) PROVE Excused(b)
  BY <1>7, LoginKeeps
<1> QED
  BY <1>1, <1>2, <1>3, <1>4, <1>5, <1>6, <1>7, StartOneStarts, StartAllStarts
     DEF Next, StopOne, BotEnds, Live

LEMMA NewBotsKept ==
    ASSUME Sound, Next, NEW b \in DOMAIN bots' \ DOMAIN bots
    PROVE  Kept(b)'
<1>1. ASSUME NEW c, NEW wxid \in Wxids, LoginSaved(c, wxid) PROVE DOMAIN bots' = DOMAIN bots
  BY <1>1 DEF LoginSaved, Write, WriteFails
<1>2. Starts
  BY <1>1, StartOneStarts, StartAllStarts
     DEF Next, Create, Update, Delete, StopOne, BotEnds, Ends, ProfileSaved
<1>3. PICK i \in DOMAIN file : bots'[b] = NewBot(file, i)
  BY <1>2 DEF Starts
<1> QED BY <1>2, <1>3 DEF Starts, NewBot, Kept, AtItsIndex

\* Whatever fails and in whatever order users and bots act: the row of a running
\* bot stays at the bot's index and names the wxid of its login, from one step to
\* the next, but for a create that could not read the file, a delete in front of
\* the row, and a save of another list.  Both violating runs are of these three.
THEOREM RowsAreKept == Spec => KeptUnlessMovedOrOverwritten
<1>1. Init => Apart
  BY DEF Init, Apart
<1>2. Sound /\ Apart /\ [Next]_vars =>
         [/\ \A b \in DOMAIN bots' \ DOMAIN bots : Kept(b)'
          /\ \A b \in DOMAIN bots :
                Live(b) /\ Live(b)' /\ Kept(b) =>
                   \/ Kept(b)'
                   \/ bots[b].id \in lost'
                   \/ DeletedBefore(bots[b].idx)
                   \/ OtherListSaved(b)]_vars
  BY StepKeeps, NewBotsKept DEF Excused
<1> QED
  BY <1>1, <1>2, SoundInit, SoundStep, ApartStep, PTL
     DEF Spec, KeptUnlessMovedOrOverwritten
=============================================================================
