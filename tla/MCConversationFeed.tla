------------------------- MODULE MCConversationFeed -------------------------
(* The chat channel with one tab. *)
EXTENDS ConversationFeed
=============================================================================
