---------------------------- MODULE MCMemoryStore ----------------------------
(***************************************************************************)
(* Small instances of MemoryStore, and what the documentation says of it.  *)
(***************************************************************************)
EXTENDS MemoryStore, TLC

CONSTANTS b1, b2, k1, k2, v0, v1, v2, c1, c2

Sizes == v0 :> 0 @@ v1 :> 1 @@ v2 :> 2
LengthOf == [v \in Contents |-> Sizes[v]]

ClientSymmetry == Permutations(Clients)

(* A protected object cannot be released before the instant that its       *)
(* retention names (object-lock-server.md).  The clock counts half seconds *)
(* and the retention date whole seconds.                                   *)
NotReleasedEarly ==
    [][\A g \in objects :
          (g.mode # "None" /\ 2 * g.until > now) => Keeps(g)]_vars
=============================================================================
