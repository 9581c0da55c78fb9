-------------------------- MODULE MCServerSessions --------------------------
(***************************************************************************)
(* ServerSessions on small instances.  Sessions are interchangeable, and   *)
(* so are the connections that greet and those that do not.                *)
(***************************************************************************)
EXTENDS ServerSessions

Symmetry ==
  Permutations(Sessions) \union
  {[c \in Conns |-> IF c \in Greets THEN p[c] ELSE q[c]] :
     p \in Permutations(Greets), q \in Permutations(Conns \ Greets)}

=============================================================================
