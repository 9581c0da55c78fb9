-------------------------- MODULE MCBaselineServer --------------------------
(***************************************************************************)
(* BaselineServer on small instances: sessions, and connections, are       *)
(* interchangeable.                                                        *)
(***************************************************************************)
EXTENDS BaselineServer

Symmetry == Permutations(Sessions) \union Permutations(Conns)

=============================================================================
