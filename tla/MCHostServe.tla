---------------------------- MODULE MCHostServe -----------------------------
(***************************************************************************)
(* The host process on a small instance.                                   *)
(***************************************************************************)
EXTENDS HostServe, TLC

Symmetry == Permutations(SessionId)

\* Bound of the model: the server is at most this far ahead of the host's reading.
ShortInbox == Len(inbox) <= IF stop THEN 1 ELSE 2

\* Once stop is set nobody looks at rotate any more: it tells no two states apart.
WithoutLateRotate == <<thread, world, inbox, rotate /\ ~stop, decisions, prompts, ghosts>>
=============================================================================
