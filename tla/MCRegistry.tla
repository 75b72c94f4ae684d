----------------------------- MODULE MCRegistry -----------------------------
(***************************************************************************)
(* The registry on a small instance.                                       *)
(***************************************************************************)
EXTENDS Registry, TLC

\* out is written by every call and read by none: it tells no two states apart.
WithoutOut == <<slot, session, issued, hooks>>

\* Every role announces canWake, the controllers too: a machine may help in both roles.
MCWakesFor == [x \in Conn \X Role |-> Group]

Symmetry == Permutations(Device) \cup Permutations(Conn) \cup Permutations(SessionId)
=============================================================================
