----------------------------- MODULE MCDataRoot -----------------------------
(* DataRoot on small instances. *)
EXTENDS DataRoot

\* cr data prune: the manual default, --older-than, --keep-last.
MCSelectors ==
  {[by |-> "retention", bound |-> 0], [by |-> "age", bound |-> 1], [by |-> "last", bound |-> 0],
   [by |-> "last", bound |-> 1]}

=============================================================================
