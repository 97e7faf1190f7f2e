--------------------------- MODULE MCKnowledgeHub ---------------------------
(* Instances of KnowledgeHub for TLC. *)
EXTENDS KnowledgeHub
=============================================================================
