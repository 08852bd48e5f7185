--------------------------- MODULE MC_NamespacePlan ---------------------------
(* Arrays over three kinds: the two the parent queries and one it does not. *)
EXTENDS NamespacePlan

MCKinds == {"user", "pid", "net"}
=============================================================================
