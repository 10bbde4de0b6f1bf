------------------------------ MODULE ReplyChain ------------------------------
(***************************************************************************)
(* What a bot does with a batch of messages: composite_message_handler     *)
(* stores it in the inbox, reads the list of enabled plugins and calls     *)
(* them in order.  The plugin ai_reply answers by a task per message that  *)
(* asks a language model with the history of the conversation.  The        *)
(* listener dispatches one batch at a time; replies run beside it.         *)
(***************************************************************************)
EXTENDS PluginConfig, MessageInbox, FiniteSetsExt, SequencesExt

CONSTANTS
    Peers,          \* who writes to the bot
    Self,           \* the bot, whose own messages come back in batches
    AI,             \* PLUGIN_ID of ai_reply
    MaxMessages,    \* bound on the messages received
    Turns           \* values of the setting max_context_turns

ASSUME ChainAssumption ==
    /\ MaxMessages \in Nat /\ Messages = 1 .. MaxMessages
    /\ Turns \subseteq Nat /\ Turns # {} /\ IsFiniteSet(Turns)
    /\ Self \notin Peers
    /\ AI \in Owners

VARIABLES
    bot,        \* "online", in its offline "hooks", or "closed"
    sender,     \* who sent the messages received so far
    chain,      \* the handling of a batch
    reply,      \* the task that answers a message
    history     \* lwplugin_ai_reply._history

bvars == <<bot, sender, chain, reply, history>>

vars == <<cvars, ivars, bvars>>

\* The chain awaits the "insert" or the "handle" of a plugin, or is about to
\* "call" the next one; no other coroutine runs before it has.
NoBatch == [phase |-> "idle", batch |-> {}, todo |-> <<>>]

ReplyStates == {"none", "ready", "asking", "sending", "ended"}

TypeOK ==
    /\ ConfigTypeOK
    /\ InboxTypeOK
    /\ bot \in {"online", "hooks", "closed"}
    /\ sender \in Seq(Peers \cup {Self}) /\ Len(sender) <= MaxMessages
    /\ chain.phase \in {"idle", "insert", "call", "handle"} /\ chain.batch \subseteq Messages
    /\ reply \in [Messages -> ReplyStates]
    /\ DOMAIN history = Peers

Init ==
    /\ ConfigInit
    /\ InboxInit
    /\ bot = "online"
    /\ sender = <<>>
    /\ chain = NoBatch
    /\ reply = [m \in Messages |-> "none"]
    /\ history = [p \in Peers |-> <<>>]

-----------------------------------------------------------------------------
(* The chain.                                                              *)

Receive(batch) ==
    /\ bot # "closed" /\ chain.phase = "idle"
    /\ sender' = sender \o batch
    /\ LET new == Len(sender) + 1 .. Len(sender')
       IN  /\ chain' = [phase |-> "insert", batch |-> new, todo |-> <<>>]
           /\ StartInsert(new)
    /\ UNCHANGED <<cvars, bot, reply, history>>

\* The plugins still to be called, or the end of the batch.
Rest(todo) ==
    chain' = IF todo = <<>> THEN NoBatch ELSE [chain EXCEPT !.phase = "call", !.todo = todo]

\* The insert is over, whether it succeeded or not, and the list is read; if
\* that raises, the listener logs it and the batch is dropped.
Inserted ==
    /\ chain.phase = "insert" /\ chain.batch \notin inserts
    /\ \/ \E list \in Lists : LoadEnabledIds(list) /\ Rest(list)
       \/ LoadEnabledRaises /\ chain' = NoBatch
    /\ UNCHANGED <<ivars, bot, sender, reply, history>>

Plugin == Head(chain.todo)

CallOther ==
    /\ chain.phase = "call" /\ Plugin # AI
    /\ chain' = [chain EXCEPT !.phase = "handle"]
    /\ UNCHANGED <<cvars, ivars, bot, sender, reply, history>>

\* A plugin returns or raises, or returns False and ends the chain.
OtherReturns ==
    /\ chain.phase = "handle"
    /\ Rest(Tail(chain.todo)) \/ Rest(<<>>)
    /\ UNCHANGED <<cvars, ivars, bot, sender, reply, history>>

\* The texts of the batch that are not the bot's own.
Answerable == {m \in chain.batch : sender[m] # Self}

\* ai_reply.handle, without an await: a task for the first message that can be
\* answered, and False, which ends the chain.  Without a key, nothing.
CallAI ==
    /\ chain.phase = "call" /\ Plugin = AI
    /\ \/ \E data \in {file, Nothing} \cup rawCache :
             /\ LoadRaw(data)
             /\ IF data.settings[AI] = NoKey \/ Answerable = {}
                THEN Rest(Tail(chain.todo)) /\ reply' = reply
                ELSE /\ chain' = NoBatch
                     /\ reply' = [reply EXCEPT ![Min(Answerable)] = "ready"]
       \/ LoadRawRaises /\ Rest(Tail(chain.todo)) /\ reply' = reply
    /\ UNCHANGED <<ivars, bot, sender, history>>

-----------------------------------------------------------------------------
(* The reply to a message.                                                 *)

ReplyGoes(m, from, to) ==
    /\ reply[m] = from
    /\ reply' = [reply EXCEPT ![m] = to]
    /\ UNCHANGED <<ivars, bot, sender, chain>>

\* The settings are read again; without a key there is no request, and an
\* error message is sent or not (reply_on_error).
ReplyStarts(m) ==
    /\ \/ \E data \in {file, Nothing} \cup rawCache :
             /\ LoadRaw(data)
             /\ IF data.settings[AI] = NoKey
                THEN \E to \in {"sending", "ended"} : ReplyGoes(m, "ready", to)
                ELSE ReplyGoes(m, "ready", "asking")
       \/ LoadRawRaises /\ ReplyGoes(m, "ready", "ended")
    /\ history' = history

Turn(role, m) == [role |-> role, of |-> m]

Latest(h, cap) == IF Len(h) > cap THEN SubSeq(h, Len(h) - cap + 1, Len(h)) ELSE h

\* Variant: only the question is cut to the cap.
RememberedCutOnce(h, m, turns) ==
    IF turns = 0 THEN h
    ELSE Append(Latest(Append(h, Turn("user", m)), 2 * turns), Turn("assistant", m))

\* _append_history, of the question and of the answer.
Remembered(h, m, turns) ==
    IF turns = 0 THEN h
    ELSE Latest(h \o <<Turn("user", m), Turn("assistant", m)>>, 2 * turns)

\* The model has answered; from here on there is no await before the send.  The
\* limit is that of the settings the reply started with, which may have changed.
ModelAnswers(m) ==
    /\ ReplyGoes(m, "asking", "sending")
    /\ \E turns \in Turns :
          history' = [history EXCEPT ![sender[m]] = Remembered(@, m, turns)]
    /\ UNCHANGED cvars

ModelFails(m) ==
    /\ \E to \in {"sending", "ended"} : ReplyGoes(m, "asking", to)
    /\ UNCHANGED <<cvars, history>>

ReplySent(m) ==
    /\ ReplyGoes(m, "sending", "ended")
    /\ UNCHANGED <<cvars, history>>

ReplyStep(m) == ReplyStarts(m) \/ ModelAnswers(m) \/ ModelFails(m) \/ ReplySent(m)

\* "Clear context" of the panel: the histories of all conversations.
ClearContext ==
    /\ history' = [p \in Peers |-> <<>>]
    /\ UNCHANGED <<cvars, ivars, bot, sender, chain, reply>>

-----------------------------------------------------------------------------
(* The bot, as far as it matters here.                                     *)

Running == {m \in Messages : reply[m] \notin {"none", "ended"}}

\* cancel_tasks_for_wxid
CancelReplies ==
    reply' = [m \in Messages |-> IF m \in Running THEN "ended" ELSE reply[m]]

\* notify_bot_offline cancels the tasks of the bot; its listener still runs.
GoOffline ==
    /\ bot = "online" /\ bot' = "hooks"
    /\ CancelReplies
    /\ UNCHANGED <<cvars, ivars, sender, chain, history>>

\* aclose cancels the listener and with it the chain; an insert goes on.
Close ==
    /\ bot = "hooks" /\ bot' = "closed"
    /\ chain' = NoBatch
    /\ UNCHANGED <<cvars, ivars, sender, reply, history>>

Restart ==
    /\ bot = "closed" /\ bot' = "online"
    /\ UNCHANGED <<cvars, ivars, sender, chain, reply, history>>

InsertEnds ==
    /\ \E batch \in inserts : \E rows \in {batch, {}} : Insert(batch, rows)
    /\ UNCHANGED <<cvars, bvars>>

Batches == {b \in SeqOf(Peers \cup {Self}, 2) : b # <<>> /\ Len(sender \o b) <= MaxMessages}

Coroutine ==
    \/ \E batch \in Batches : Receive(batch)
    \/ Inserted \/ OtherReturns
    \/ \E m \in Messages : ReplyStep(m)
    \/ ClearContext \/ GoOffline \/ Close \/ Restart
    \/ Panel /\ UNCHANGED <<ivars, bvars>>

Next ==
    \/ chain.phase # "call" /\ Coroutine
    \/ CallAI \/ CallOther
    \/ InsertEnds
    \/ InboxRequest /\ UNCHANGED <<cvars, bvars>>
    \/ (HandEdit \/ Hiccup) /\ UNCHANGED <<ivars, bvars>>

Spec == Init /\ [][Next]_vars

-----------------------------------------------------------------------------

\* The history of a conversation is a list of whole exchanges of that peer,
\* no more of them than the highest limit, question before answer, however many
\* replies to one peer run at once and whatever limit each of them was started
\* with (_append_history, chat_completion).
HistoryIsExchanges ==
    \A p \in Peers :
        LET h == history[p]
        IN  /\ Len(h) % 2 = 0 /\ Len(h) <= 2 * Max(Turns)
            /\ \A i \in 1 .. Len(h) \div 2 :
                  /\ h[2 * i - 1] = Turn("user", h[2 * i].of)
                  /\ h[2 * i].role = "assistant"
                  /\ sender[h[2 * i].of] = p

\* lwplugin_ai_reply.py:4: private texts are answered: all those of a batch of
\* which one is.
AllTextsAnswered ==
    [][reply' # reply /\ chain # NoBatch /\ chain' = NoBatch
        => \A m \in Answerable : reply'[m] # "none"]_vars

\* bot_tasks.py:31: when a bot goes offline all its tasks are cancelled, so no
\* reply of a closed bot runs.
RepliesEndWithBot == bot = "closed" => Running = {}
=============================================================================
