------------------------------- MODULE Ledger -------------------------------
(***************************************************************************)
(* What ledger.Store promises the goroutines of one process: a call takes  *)
(* effect as a whole, at one moment between its start and its return, or   *)
(* not at all; one that returns without an error has taken effect, one     *)
(* that returns an error has not.  A crash forgets the calls, never the    *)
(* rows.                                                                   *)
(***************************************************************************)
EXTENDS LedgerRows

CONSTANTS Callers, Requests

VARIABLES rows, call

vars == <<rows, call>>

Idle == [state |-> "idle"]

Init ==
  /\ rows \in Initial
  /\ call = [c \in Callers |-> Idle]

Invoke(c, req) ==
  /\ call[c] = Idle
  /\ call' = [call EXCEPT ![c] = [state |-> "pending", req |-> req]]
  /\ UNCHANGED rows

Done(c, answer) ==
  call' = [call EXCEPT ![c] = [state |-> "done", answer |-> answer]]

Perform(c) ==
  /\ call[c].state = "pending"
  /\ call[c].req.op \notin {"ListRuns", "GetReviewerCohort", "Close"}
  /\ Possible(call[c].req, rows)
  /\ rows' = Meaning(call[c].req, rows)
  /\ Done(c, Ok)

Look(c) ==
  /\ call[c].state = "pending" /\ call[c].req.op = "ListRuns"
  /\ Done(c, Shown(Listing(rows)))
  /\ UNCHANGED rows

(* The one exception: a cohort is read in two queries, its header first. *)
LookAtHeader(c) ==
  /\ call[c].state = "pending" /\ call[c].req.op = "GetReviewerCohort"
  /\ rows.header # 0
  /\ call' = [call EXCEPT ![c] = [state |-> "header", adapter |-> rows.header]]
  /\ UNCHANGED rows

LookAtMembers(c) ==
  /\ call[c].state = "header"
  /\ Done(c, CohortShown(call[c].adapter, rows))
  /\ UNCHANGED rows

Fail(c) ==
  /\ call[c].state \in {"pending", "header"}
  /\ Done(c, Error)
  /\ UNCHANGED rows

(* Close says nothing about rows. *)
Shut(c) ==
  /\ call[c].state = "pending" /\ call[c].req.op = "Close"
  /\ Done(c, Ok)
  /\ UNCHANGED rows

Return(c) ==
  /\ call[c].state = "done"
  /\ call' = [call EXCEPT ![c] = Idle]
  /\ UNCHANGED rows

Crash ==
  /\ call' = [c \in Callers |-> Idle]
  /\ UNCHANGED rows

Next ==
  \/ Crash
  \/ \E c \in Callers :
        \/ \E req \in Requests[c] : Invoke(c, req)
        \/ Perform(c) \/ Look(c) \/ LookAtHeader(c) \/ LookAtMembers(c)
        \/ Fail(c) \/ Shut(c) \/ Return(c)

Spec == Init /\ [][Next]_vars
=============================================================================
