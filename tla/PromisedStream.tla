----------------------------- MODULE PromisedStream -----------------------------
(***************************************************************************)
(* What an iterator promises its user: a fixed sequence of answers, one at *)
(* a time and in order, then nothing more for ever.  A failing item is an  *)
(* answer like any other and does not end the stream.                      *)
(***************************************************************************)
EXTENDS Naturals, Sequences

VARIABLES
  promised,    \* the answers there are; never changes
  delivered,   \* those that were given
  ended        \* the user was told that there are no more

vars == <<promised, delivered, ended>>

Init ==
  /\ delivered = << >>
  /\ ended = FALSE

Deliver ==
  /\ ~ended
  /\ Len(delivered) < Len(promised)
  /\ delivered' = Append(delivered, promised[Len(delivered) + 1])
  /\ UNCHANGED <<promised, ended>>

End ==
  /\ delivered = promised
  /\ ended' = TRUE
  /\ UNCHANGED <<promised, delivered>>

Next == Deliver \/ End

Spec == Init /\ [][Next]_vars
=============================================================================
