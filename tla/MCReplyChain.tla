----------------------------- MODULE MCReplyChain -----------------------------
\* Another plugin in front of ai_reply, or behind it.
EXTENDS ReplyChain

CONSTANT Other

MCLists == {<<Other, AI>>, <<AI, Other>>}
MCDefault == <<Other, AI>>
Symmetry == Permutations(Peers)
MCMessages == 1 .. MaxMessages
=============================================================================
