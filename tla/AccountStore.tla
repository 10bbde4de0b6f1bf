----------------------------- MODULE AccountStore -----------------------------
(***************************************************************************)
(* accounts.json: a list of rows which the web API reads, edits and writes *)
(* as a whole, and of which every bot keeps the list object it was started *)
(* with.  A bot that logs in changes its row of that object and writes the *)
(* whole object back.  No handler suspends between reading and writing, so *)
(* each is one action; a file is replaced at once (atomic_write_json).     *)
(* A file that cannot be read is an empty list to the API.                 *)
(* Of a bot only the logins and the end are kept: BotRuntime has the rest. *)
(***************************************************************************)
EXTENDS Naturals, SequencesExt

CONSTANTS
    Ids,        \* identities of rows; their number bounds the rows created
    Wxids,      \* WeChat ids
    NoWxid,     \* the empty wxid of a row that never logged in
    Bots,       \* identities of bots; their number bounds the starts
    Faults      \* may accounts.json fail to be read or written?

ASSUME StoreAssumption ==
    /\ NoWxid \notin Wxids
    /\ Faults \in BOOLEAN

VARIABLES
    file,       \* the rows of accounts.json
    created,    \* the rows created so far
    lists,      \* the list objects bots were started with
    bots,       \* the bots started so far
    lost        \* history: rows a create wrote over unread, and no save put back

vars == <<file, created, lists, bots, lost>>

Row == [id : Ids, wxid : Wxids \cup {NoWxid}]

\* A bot's list and row in it; `wxid' is the one it logged in with.
Bot == [list : Nat, idx : Nat, id : Ids, wxid : Wxids \cup {NoWxid},
        live : BOOLEAN]

TypeOK ==
    /\ file \in Seq(Row)
    /\ \A i, j \in DOMAIN file : file[i].id = file[j].id => i = j
    /\ created \subseteq Ids /\ lost \subseteq created
    /\ lists \in Seq(Seq(Row))
    /\ DOMAIN bots \subseteq Bots
    /\ \A b \in DOMAIN bots :
          /\ bots[b] \in Bot
          /\ bots[b].idx \in DOMAIN lists[bots[b].list]
          /\ lists[bots[b].list][bots[b].idx].id = bots[b].id

Init ==
    /\ file = <<>>
    /\ created = {}
    /\ lists = <<>>
    /\ bots = [b \in {} |-> [live |-> FALSE]]
    /\ lost = {}

-----------------------------------------------------------------------------

Live(b) == b \in DOMAIN bots /\ bots[b].live

\* BotService.running_account_indices.
Running == {bots[b].idx : b \in {c \in DOMAIN bots : Live(c)}}

\* find_duplicate_wxid_index(rows, wxid, exclude_idx=i)
Duplicate(rows, wxid, i) ==
    wxid # NoWxid /\ \E j \in DOMAIN rows \ {i} : rows[j].wxid = wxid

\* load_accounts_safe
Readings == {file} \cup (IF Faults THEN {<<>>} ELSE {})

RowsOf(rows) == {row.id : row \in Range(rows)}

NewRow(id, wxid) == [id |-> id, wxid |-> wxid]

\* Of the handlers only this one goes on when the file could not be read; the
\* others do not find the row, and start_all finds none.
Create(wxid) ==
    /\ \E rows \in Readings, id \in Ids \ created :
          /\ ~Duplicate(rows, wxid, 0)
          /\ created' = created \cup {id}
          /\ file' = Append(rows, NewRow(id, wxid))
          /\ lost' = IF rows = file THEN lost ELSE lost \cup RowsOf(file)
    /\ UNCHANGED <<lists, bots>>

Update(i, wxid) ==
    /\ i \notin Running
    /\ ~Duplicate(file, wxid, i)
    /\ file' = [file EXCEPT ![i].wxid = wxid]
    /\ UNCHANGED <<created, lists, bots, lost>>

\* Variant: a row whose bot runs is deleted.
DeleteUnchecked(i) ==
    /\ file' = RemoveAt(file, i)
    /\ UNCHANGED <<created, lists, bots, lost>>

Delete(i) ==
    /\ i \notin Running
    /\ file' = RemoveAt(file, i)
    /\ UNCHANGED <<created, lists, bots, lost>>

NewBot(rows, i) == [list |-> Len(lists) + 1, idx |-> i, id |-> rows[i].id,
                    wxid |-> NoWxid, live |-> TRUE]

StartOne(i) ==
    /\ i \notin Running
    /\ \E b \in Bots \ DOMAIN bots :
          bots' = [c \in DOMAIN bots \cup {b} |->
                      IF c = b THEN NewBot(file, i) ELSE bots[c]]
    /\ lists' = Append(lists, file)
    /\ UNCHANGED <<file, created, lost>>

\* Variant: every bot of start_all is given the row after its own.
StartAllShifted ==
    /\ \E started \in [DOMAIN file \ Running -> Bots \ DOMAIN bots] :
          /\ IsInjective(started)
          /\ bots' = [c \in DOMAIN bots \cup Range(started) |->
                        IF c \in DOMAIN bots THEN bots[c]
                        ELSE LET i == CHOOSE i \in DOMAIN started : started[i] = c
                             IN [NewBot(file, i) EXCEPT !.idx = i + 1]]
    /\ lists' = Append(lists, file)
    /\ UNCHANGED <<file, created, lost>>

\* start_one for every row, with the same list.
StartAll ==
    /\ DOMAIN file \ Running # {}
    /\ \E started \in [DOMAIN file \ Running -> Bots \ DOMAIN bots] :
          /\ IsInjective(started)
          /\ bots' = [c \in DOMAIN bots \cup Range(started) |->
                        IF c \in DOMAIN bots THEN bots[c]
                        ELSE NewBot(file, CHOOSE i \in DOMAIN started :
                                              started[i] = c)]
    /\ lists' = Append(lists, file)
    /\ UNCHANGED <<file, created, lost>>

Ends(b) ==
    /\ bots' = [bots EXCEPT ![b].live = FALSE]
    /\ UNCHANGED <<file, created, lists, lost>>

\* A stop request for a row that is read cancels the bot at that index, and a
\* cancelled bot writes nothing more.
StopOne(i) == \E b \in DOMAIN bots : Live(b) /\ bots[b].idx = i /\ Ends(b)

\* The bot ends by itself, or with the process.
BotEnds(b) == Live(b) /\ Ends(b)

-----------------------------------------------------------------------------
(* What a bot writes.                                                      *)

Write(rows) == file' = rows /\ lost' = lost \ RowsOf(rows)

WriteFails == Faults /\ UNCHANGED <<file, lost>>

\* A login event brings a nickname or an avatar that is new to the row.  These
\* fields are left out of the rows: what is left is the list written back.
ProfileSaved(b) ==
    /\ Live(b)
    /\ Write(lists[bots[b].list]) \/ WriteFails
    /\ UNCHANGED <<created, lists, bots>>

\* Variant: the list is written before the row is changed.
LoginSavesFirst(b, wxid) ==
    /\ Live(b)
    /\ LET own == bots[b] IN
          /\ lists' = [lists EXCEPT ![own.list][own.idx].wxid = wxid]
          /\ Write(lists[own.list])
    /\ bots' = [bots EXCEPT ![b].wxid = wxid]
    /\ UNCHANGED created

\* Whoever scans the code decides the wxid: no duplicate is looked for.  A write
\* that fails leaves the list changed and the bot not logged in.
LoginSaved(b, wxid) ==
    /\ Live(b)
    /\ LET own == bots[b] IN
          /\ lists' = [lists EXCEPT ![own.list][own.idx].wxid = wxid]
          /\ \/ Write(lists'[own.list]) /\ bots' = [bots EXCEPT ![b].wxid = wxid]
             \/ WriteFails /\ bots' = [bots EXCEPT ![b].wxid = NoWxid]
    /\ UNCHANGED created

Next ==
    \/ \E wxid \in Wxids \cup {NoWxid} :
          Create(wxid) \/ \E i \in DOMAIN file : Update(i, wxid)
    \/ \E i \in DOMAIN file : Delete(i) \/ StartOne(i) \/ StopOne(i)
    \/ StartAll
    \/ \E b \in Bots : BotEnds(b) \/ ProfileSaved(b)
    \/ \E b \in Bots, wxid \in Wxids : LoginSaved(b, wxid)

Spec == Init /\ [][Next]_vars

-----------------------------------------------------------------------------

AtItsIndex(b) ==
    bots[b].idx \in DOMAIN file /\ file[bots[b].idx].id = bots[b].id

\* The row a bot was started for is at the index it is stopped by, and says what
\* the bot is logged in as.
Kept(b) ==
    /\ AtItsIndex(b)
    /\ bots[b].wxid # NoWxid => file[bots[b].idx].wxid = bots[b].wxid

DeletedBefore(i) == \E j \in DOMAIN file : j < i /\ Delete(j)

\* A bot writes back a list object that is not the one of `b'.
OtherListSaved(b) ==
    \E c \in DOMAIN bots :
        /\ bots[c].list # bots[b].list
        /\ ProfileSaved(c) \/ \E wxid \in Wxids : LoginSaved(c, wxid)

\* account_loader.py: bots are known by the index of their row, and a login
\* writes its wxid back to it.  Both hold of a bot from its start, through its
\* own logins, failed writes and all that bots of its list and the API do, until
\* one of three things breaks them: a create that could not read the file, a
\* delete in front of the row, or a save of an older or newer list.
KeptUnlessMovedOrOverwritten ==
    [][/\ \A b \in DOMAIN bots' \ DOMAIN bots : Kept(b)'
       /\ \A b \in DOMAIN bots :
             Live(b) /\ Live(b)' /\ Kept(b) =>
                \/ Kept(b)'
                \/ bots[b].id \in lost'
                \/ DeletedBefore(bots[b].idx)
                \/ OtherListSaved(b)]_vars

\* app.py: a row whose bot runs has to be stopped before it can be deleted.
NoRunningRowDeleted ==
    [][\A i \in DOMAIN file : Delete(i) =>
          \A b \in DOMAIN bots : Live(b) => bots[b].id # file[i].id]_vars

\* account_loader.py: the wxid of a login is written back; the login of another
\* bot does not take it out of the file again while the bot runs.
NoLoginOverwritten ==
    [][\A b, c \in DOMAIN bots : \A wxid \in Wxids :
          b # c /\ Live(b) /\ bots[b].wxid # NoWxid /\ Kept(b) /\ LoginSaved(c, wxid)
              => Kept(b)']_vars
=============================================================================
