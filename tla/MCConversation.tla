--------------------------- MODULE MCConversation ---------------------------
(* Three questions: one the operator gave up on, the one that overlaps with *)
(* its late end, and one asked after both; and one restart of the backend.  *)
EXTENDS Conversation
=============================================================================
