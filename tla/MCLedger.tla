------------------------------ MODULE MCLedger ------------------------------
(* LedgerStore on small instances: two runs of one scope, a planning result *)
(* that grows from one checkpoint to the next, a cohort that is replaced.   *)
EXTENDS LedgerStore, TLC

CONSTANTS c1, c2, c3, r1, r2, s1, f1, f2, a1, a2, n1, g1, g2

MCFindingOf == (a1 :> f1) @@ (a2 :> f2)

\* Nothing yet, and a run that has posted its first action.
MCInitial ==
  {[Empty EXCEPT !.pr = TRUE, !.attempt[r1] = 1, !.session[s1] = r1,
                 !.finding[f1] = [run |-> r1, session |-> s1],
                 !.action[a1] = [run |-> r1, status |-> "posted"],
                 !.header = 1, !.member[g1] = [position |-> 1, session |-> 1]]}

Plan(op, r, fs, as) ==
  [op |-> op, run |-> r, session |-> s1, findings |-> fs, actions |-> as]

RowRequests ==
  {[op |-> "AllocateRun", run |-> r] : r \in {r1, r2}}
  \cup {[op |-> "DeleteRun", run |-> r1],
        [op |-> "CompleteRun", run |-> r1, outcome |-> "comment"],
        [op |-> "InsertSession", run |-> r1, session |-> s1],
        Plan("InsertPlanningResult", r1, <<f1>>, <<a1>>),
        Plan("MergePlanningResult", r1, <<f1, f2>>, <<a1, a2>>),
        Plan("MergePlanningResult", r2, <<f2, f1>>, <<>>),
        [op |-> "UpdatePlannedAction", run |-> r1, action |-> a1, status |-> "posted"],
        [op |-> "UpsertNamedSession", name |-> n1, provider |-> 1],
        [op |-> "DeleteNamedSession", name |-> n1],
        [op |-> "ReplaceReviewerCohort", adapter |-> 2, agents |-> <<g2, g1>>],
        [op |-> "ReplaceReviewerCohort", adapter |-> 1, agents |-> <<g1, g1>>],
        [op |-> "UpdateReviewerCohortSession", agent |-> g1, provider |-> 2],
        [op |-> "DeleteReviewerCohort"],
        [op |-> "GetReviewerCohort"],
        [op |-> "ListRuns"]}

\* One goroutine stores rows, another replaces the cohort the first may read, and
\* the command that owns the store closes it.
MCRequests ==
  (c1 :> RowRequests)
    @@ (c2 :> {[op |-> "ReplaceReviewerCohort", adapter |-> 1, agents |-> <<g1>>]})
    @@ (c3 :> {[op |-> "Close"]})

=============================================================================
