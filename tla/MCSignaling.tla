---------------------------- MODULE MCSignaling -----------------------------
(***************************************************************************)
(* The signaling endpoint on a small instance.                             *)
(***************************************************************************)
EXTENDS Signaling, TLC

CONSTANTS d1, d2

\* d1 refuses d2; d2 refuses nobody.
MCBlocked == {<<d1, d2>>}

\* Every host announces canWake, as the agents do.
MCWakesFor == [x \in Conn \X Role |-> IF x[2][2] = "host" THEN Group ELSE {}]

Symmetry == Permutations(Conn)

\* out is written by every call and read by none: it tells no two states apart.
WithoutOut == <<slot, session, issued, hooks, socketVars>>
=============================================================================
