------------------------------ MODULE Delivery ------------------------------
(***************************************************************************)
(* What the outbox promises about one run: every message reaches the pull  *)
(* request at most once, a message is recorded as posted only after it got *)
(* there, and the run is recorded as successful only when every required   *)
(* message is recorded as posted.                                          *)
(***************************************************************************)
EXTENDS Naturals

CONSTANTS Messages, Required

VARIABLES delivered, acknowledged, verdict

vars == <<delivered, acknowledged, verdict>>

Verdicts == {"running", "success", "incomplete", "failed", "aborted"}

Init ==
  /\ delivered = [m \in Messages |-> 0]
  /\ acknowledged = {}
  /\ verdict = "running"

(* One provider write delivers several messages when it bundles them. *)
Deliver(S) ==
  /\ S # {} /\ \A m \in S : delivered[m] = 0
  /\ delivered' = [m \in Messages |-> IF m \in S THEN 1 ELSE delivered[m]]
  /\ UNCHANGED <<acknowledged, verdict>>

Acknowledge(m) ==
  /\ delivered[m] = 1 /\ m \notin acknowledged
  /\ acknowledged' = acknowledged \cup {m}
  /\ UNCHANGED <<delivered, verdict>>

Conclude(v) ==
  /\ v = "success" => Required \subseteq acknowledged
  /\ verdict' = v
  /\ UNCHANGED <<delivered, acknowledged>>

Next == \/ \E S \in SUBSET Messages : Deliver(S)
        \/ \E m \in Messages : Acknowledge(m)
        \/ \E v \in Verdicts : Conclude(v)

Spec == Init /\ [][Next]_vars

=============================================================================
