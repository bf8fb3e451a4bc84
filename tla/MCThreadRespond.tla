-------------------------- MODULE MCThreadRespond --------------------------
EXTENDS ThreadRespond, TLC

CONSTANTS p1, p2

(* Two threads that wait for an answer.                                      *)
Th(resolved, cs) == [resolved |-> resolved, comments |-> cs]
MCBeginnings == {(1 :> Th(FALSE, <<Finding, Person>>)) @@ (2 :> Th(FALSE, <<Finding, Person>>))}

(* Of the first thread the model makes this or that, the second one it answers. *)
MCDecisions == (1 :> {"skip", "resolve"}) @@ (2 :> {"reply"})

MCPeople == {<<1, "person">>, <<1, "own">>, <<2, "settle">>}

Call(dry, rerun, resolve, retry) ==
  [dry |-> dry, rerun |-> rerun, resolve |-> resolve, retry |-> retry]

MCRequests == {Call(FALSE, TRUE, TRUE, FALSE), Call(FALSE, FALSE, FALSE, FALSE),
               Call(TRUE, FALSE, TRUE, FALSE), Call(FALSE, FALSE, TRUE, TRUE)}
=============================================================================
