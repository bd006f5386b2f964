----------------------------- MODULE MCValueInput -----------------------------
(* Every walk over values of two levels and more, under limits that every  *)
(* kind of value can reach.                                                *)
EXTENDS ValueInput

(* Keys are texts, as are the indices on a path. *)
MCKeys == {1, 2}
=============================================================================
