----------------------------- MODULE MessageInbox -----------------------------
(***************************************************************************)
(* The inbox of received messages: one SQLite table.  Every call runs in   *)
(* a worker thread (asyncio.to_thread) with a connection of its own and    *)
(* holds one lock over all its statements.  The statements of a call are   *)
(* separate steps: threads run in parallel with the event loop and with    *)
(* each other, and a thread is not stopped when the coroutine that waits   *)
(* for it is cancelled.                                                    *)
(***************************************************************************)
EXTENDS Naturals, FiniteSets

CONSTANT Messages   \* identities of received messages

VARIABLES
    inbox,      \* the messages in the table
    lock,       \* message_inbox._lock: the call of the panel that holds it
    counted,    \* the result of that call's first statement
    inserts     \* batches whose thread has not ended

ivars == <<inbox, lock, counted, inserts>>

\* A thread that waits for the lock has done nothing yet and is not recorded.
InboxTypeOK ==
    /\ inbox \subseteq Messages
    /\ lock \in {"free", "query", "clear"}
    /\ counted \in 0 .. Cardinality(Messages)
    /\ inserts \subseteq SUBSET Messages

InboxInit == inbox = {} /\ lock = "free" /\ counted = 0 /\ inserts = {}

-----------------------------------------------------------------------------

\* append_sync_messages: a thread is started for the batch.
StartInsert(batch) ==
    /\ inserts' = inserts \cup {batch}
    /\ UNCHANGED <<inbox, lock, counted>>

\* Variant: an insert does not take the lock.
InsertUnlocked(batch, rows) ==
    /\ inbox' = inbox \cup rows
    /\ inserts' = inserts \ {batch}
    /\ UNCHANGED <<lock, counted>>

\* The transaction is committed, or fails (the chain logs it), and the lock is
\* released: no other connection sees part of it.
Insert(batch, rows) ==
    /\ lock = "free"
    /\ inbox' = inbox \cup rows
    /\ inserts' = inserts \ {batch}
    /\ UNCHANGED <<lock, counted>>

\* SELECT COUNT(*), the first statement of query_summary, query_list and
\* clear_inbox.
Counts(op) ==
    /\ lock = "free" /\ lock' = op
    /\ counted' = Cardinality(inbox)
    /\ UNCHANGED <<inbox, inserts>>

\* The groups of query_summary, or the page of query_list.
QueryReturns ==
    /\ lock = "query" /\ lock' = "free"
    /\ counted' = 0
    /\ UNCHANGED <<inbox, inserts>>

\* DELETE FROM inbox, and commit.
ClearDeletes ==
    /\ lock = "clear" /\ lock' = "free"
    /\ inbox' = {} /\ counted' = 0
    /\ inserts' = inserts

InboxRequest == Counts("query") \/ QueryReturns \/ Counts("clear") \/ ClearDeletes

-----------------------------------------------------------------------------

\* The total of a summary is the sum of its groups, the total of a list is that
\* of the rows it is a page of, and clear_inbox deletes as many messages as it
\* reports, whatever is received meanwhile (_query_summary_sync,
\* _query_list_sync, _clear_inbox_sync).
CountsAddUp == lock # "free" => Cardinality(inbox) = counted
=============================================================================
