-------------------------- MODULE MCMemoryMultipart --------------------------
(***************************************************************************)
(* Small instances of MemoryMultipart.                                     *)
(***************************************************************************)
EXTENDS MCMemoryStore, MemoryMultipart

(* Bodies that a completion assembles: a body for each listed part number. *)
AssembledBodies == Completions \ {<<>>}
=============================================================================
