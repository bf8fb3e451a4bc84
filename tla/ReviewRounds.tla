---------------------------- MODULE ReviewRounds ----------------------------
(* The reviews of one pull request, round after round.                      *)
(*                                                                          *)
(* A round selects its reviewers, afresh or from the cohort saved at an     *)
(* earlier round, runs each of them with at most one repair pass for what   *)
(* it left unread, and turns their findings into a verdict and comments.    *)
(* Between rounds the author pushes and agent definitions change; a round   *)
(* may be abandoned anywhere and what it stored is met again.               *)
(*                                                                          *)
(* The models' answers are free within what their decoders accept.  Rounds  *)
(* exclude one another by the lock the gate holds (ReviewGate); the tasks   *)
(* and the delivery inside one are ReviewRun's and Outbox's.                *)
EXTENDS ReviewPlan

CONSTANTS
  Pushes,        \* heads with the catalogs loaded for them
  Proposals,     \* what the orchestrator may answer
  Reports,       \* the findings one pass may return
  MaxRounds,     \* bound: rounds
  MaxNotes       \* bound: findings of a round

ASSUME RoundsAssumption ==
  /\ Pushes \subseteq [head : Heads, catalog : Catalogs]
  /\ \A p \in Proposals : p \in Seq(Assignments)
  /\ \A r \in Reports : r \in Seq(Findings)
  /\ MaxRounds \in Nat /\ MaxNotes \in Nat

VARIABLES
  change,    \* the head and the catalog
  cohort,    \* the saved reviewers; empty when none are saved
  threads,   \* the review's own comments on the host
  round,
  phase,
  stored,    \* the selection stored by this head's run, and whether reviewers began
  sel,       \* the round's assignments
  results,   \* the results of the reviewers that ran
  notes,     \* their findings
  plan,
  read       \* history: files a pass read in this round, with sound tool evidence

vars == <<change, cohort, threads, round, phase, stored, sel, results, notes, plan, read>>

Phases == {"idle", "select", "review", "repair", "post"}
NoSelection == [sel |-> <<>>, begun |-> FALSE]
NoPlan == [event |-> "none", rollup |-> FallbackRollup(<<>>), todo |-> {}]
head == change.head
changed == Changed(head)

Bodies == [text : Texts, headed : BOOLEAN]
Threads == [round : 1..MaxRounds, at : Nat, path : Files, body : Bodies]

TypeOK ==
  /\ change \in Pushes
  /\ cohort \in Seq(Assignments)
  /\ threads \subseteq Threads
  /\ round \in 0..MaxRounds
  /\ phase \in Phases
  /\ stored \in [sel : Seq(Assignments), begun : BOOLEAN]
  /\ sel \in Seq(Assignments)
  /\ results \in Seq(Results)
  /\ notes \in Seq(Findings)
  /\ plan.event \in (IF phase = "post" THEN Events ELSE {"none"})
  /\ plan.todo \subseteq [at : Nat, path : Files, body : Bodies]
  /\ read \subseteq Files

Init ==
  /\ change \in Pushes
  /\ cohort = <<>> /\ threads = {} /\ round = 0 /\ phase = "idle"
  /\ stored = NoSelection /\ sel = <<>> /\ results = <<>> /\ notes = <<>>
  /\ plan = NoPlan /\ read = {}

\* What a round keeps to itself is gone when it ends.
Forget == sel' = <<>> /\ results' = <<>> /\ notes' = <<>> /\ plan' = NoPlan /\ read' = {}

\* The author pushes, or the definitions of the agents change.
Push ==
  /\ phase = "idle"
  /\ change' \in Pushes \ {change}
  /\ stored' = NoSelection
  /\ UNCHANGED <<cohort, threads, round, phase, sel, results, notes, plan, read>>

-----------------------------------------------------------------------------
(* Who reviews.                                                             *)

Starts == phase = "idle" /\ round < MaxRounds /\ round' = round + 1

\* --fresh-session: the saved cohort is deleted before anything else.
BeginFresh ==
  /\ Starts
  /\ cohort' = <<>> /\ phase' = "select"
  /\ UNCHANGED <<change, threads, stored, sel, results, notes, plan, read>>

BeginFirst ==
  /\ Starts
  /\ cohort = <<>> /\ phase' = "select"
  /\ UNCHANGED <<change, cohort, threads, stored, sel, results, notes, plan, read>>

\* The selection of an interrupted run stands once its reviewers began.
BegunWith(reused) ==
  stored.begun /\ Chosen(reused) \cap Chosen(stored.sel) # {}

\* The saved cohort is rebased on the change; the run fails, with nothing
\* done, when it would need a fresh one.
BeginReused ==
  /\ Starts
  /\ cohort # <<>> /\ ~NeedsFresh(cohort, change.catalog, changed)
  /\ LET reused == Reused(cohort, change.catalog, changed)
     IN  sel' = IF BegunWith(reused) THEN stored.sel ELSE reused
  /\ cohort' = Grown(cohort, change.catalog, changed)
  /\ phase' = "review"
  /\ UNCHANGED <<change, threads, stored, results, notes, plan, read>>

\* The decoder takes known agents, and files a model may cite.
ValidProposal(p) ==
  \A i \in DOMAIN p : /\ p[i].agent \in change.catalog.present
                      /\ p[i].files \cup p[i].allowed \subseteq changed \cup Contentless(head)

Selections ==
  IF stored.sel # <<>> THEN {stored.sel}
  ELSE {Adjusted(p, change.catalog, changed) :
          p \in {q \in Proposals : ValidProposal(q) /\ ~Refused(q, change.catalog, changed)}}

\* An agent may be chosen twice; the store then refuses the cohort.
Distinct(s) == \A i, j \in DOMAIN s : s[i].agent = s[j].agent => i = j

Select ==
  /\ phase = "select"
  /\ \E s \in Selections :
       /\ stored' = [stored EXCEPT !.sel = s]
       /\ \/ /\ Distinct(s)
             /\ sel' = s /\ cohort' = s /\ phase' = "review"
          \/ /\ ~Distinct(s)
             /\ phase' = "idle" /\ UNCHANGED <<sel, cohort>>
  /\ UNCHANGED <<change, threads, round, results, notes, plan, read>>

-----------------------------------------------------------------------------
(* The reviewers.  They run concurrently but share nothing: one at a time.  *)

Turn == Len(results) + 1
ScopeOf(i) == Scope(sel[i], changed)

\* What a pass over the files may report of its reading.  A move is assessed
\* for all moved files the pass did not skip, or for none.
Readings(scope) ==
  {[inspected |-> i, skipped |-> s, assessed |-> IF whole THEN (Moves(head) \cap scope) \ s ELSE {},
    failed |-> FALSE, tool |-> tool] :
     i \in SUBSET scope, s \in SUBSET scope, whole \in BOOLEAN, tool \in BOOLEAN}
Disjoint(r) == r.inspected \cap r.skipped = {}

\* A finding is about a file of the assignment, or one without content.
Citable(report, scope) ==
  /\ \A i \in DOMAIN report : report[i].path \in scope \cup Contentless(head)
  /\ Len(notes) + Len(report) <= MaxNotes

Proven(r) == IF r.tool THEN r.inspected \cup r.assessed ELSE {}
Failure == [inspected |-> {}, skipped |-> {}, assessed |-> {}, failed |-> TRUE, tool |-> TRUE]

Review ==
  /\ phase = "review" /\ Turn \in DOMAIN sel
  /\ stored' = [stored EXCEPT !.begun = stored.sel # <<>>]
  /\ \E r \in Readings(ScopeOf(Turn)), report \in Reports :
       /\ Disjoint(r) /\ Citable(report, ScopeOf(Turn))
       /\ results' = Append(results, r)
       /\ notes' = notes \o report
       /\ read' = read \cup Proven(r)
       /\ phase' = IF NeedsRepair(head, ScopeOf(Turn), r) THEN "repair" ELSE "review"
  /\ UNCHANGED <<change, cohort, threads, round, sel, plan>>

\* A failure of one reviewer leaves the others running.
ReviewFails ==
  /\ phase = "review" /\ Turn \in DOMAIN sel
  /\ stored' = [stored EXCEPT !.begun = stored.sel # <<>>]
  /\ results' = Append(results, Failure)
  /\ UNCHANGED <<change, cohort, threads, round, phase, sel, notes, plan, read>>

\* As if the second pass were taken at its word.
CreditedAlways(r) == r

\* A repair that did not prove its tool use inspected nothing; its findings
\* and skips stay.
Credited(r) == IF r.tool THEN r ELSE [r EXCEPT !.inspected = {}, !.assessed = {}]

Repair ==
  LET i == Len(results)
      files == RepairFiles(head, ScopeOf(i), results[i])
  IN  /\ phase = "repair"
      /\ \E r \in Readings(files), report \in Reports :
           /\ Disjoint(r) /\ Citable(report, files)
           /\ results' = [results EXCEPT ![i] = Merged(@, Credited(r))]
           /\ notes' = notes \o report
           /\ read' = read \cup Proven(r)
      /\ phase' = "review"
      /\ UNCHANGED <<change, cohort, threads, round, stored, sel, plan>>

\* The reviewer keeps what its first pass proved, but counts as failed.
Failed(r) == [inspected |-> r.inspected, skipped |-> r.skipped, assessed |-> r.assessed,
              failed |-> TRUE, tool |-> r.tool]

RepairFails ==
  /\ phase = "repair"
  /\ results' = [results EXCEPT ![Len(results)] = Failed(@)]
  /\ phase' = "review"
  /\ UNCHANGED <<change, cohort, threads, round, stored, sel, notes, plan, read>>

-----------------------------------------------------------------------------
(* The verdict.                                                             *)

FellShort(lost) == lost \/ ~CoverageComplete(head, sel, results)

\* An answer that stays invalid after the retry is replaced.  The analysis of
\* a discussion thread may have failed.
Rollup ==
  /\ phase = "review" /\ DOMAIN results = DOMAIN sel
  /\ \E a \in {b \in Rollups(notes) : ValidRollup(notes, b)} \cup {FallbackRollup(notes)},
        lost \in BOOLEAN :
       plan' = [event |-> Verdict(a.event, Ordered(notes, a), FellShort(lost)),
                rollup |-> a, todo |-> Comments(head, threads, Ordered(notes, a))]
  /\ phase' = "post"
  /\ sel' = <<>> /\ results' = <<>>
  /\ UNCHANGED <<change, cohort, threads, round, stored, notes, read>>

Publish ==
  /\ phase = "post"
  /\ \E c \in plan.todo :
       /\ threads' = threads \cup {[round |-> round, at |-> c.at, path |-> c.path, body |-> c.body]}
       /\ plan' = [plan EXCEPT !.todo = @ \ {c}]
  /\ UNCHANGED <<change, cohort, round, phase, stored, sel, results, notes, read>>

Finish ==
  /\ phase = "post" /\ plan.todo = {}
  /\ phase' = "idle" /\ stored' = NoSelection /\ Forget
  /\ UNCHANGED <<change, cohort, threads, round>>

\* A crash, a terminal failure, or a head that moved on: what is stored stays.
Abandon ==
  /\ phase # "idle"
  /\ phase' = "idle" /\ Forget
  /\ UNCHANGED <<change, cohort, threads, round, stored>>

Next ==
  \/ Push \/ BeginFresh \/ BeginFirst \/ BeginReused \/ Select
  \/ Review \/ ReviewFails \/ Repair \/ RepairFails
  \/ Rollup \/ Publish \/ Finish \/ Abandon

Spec == Init /\ [][Next]_vars

-----------------------------------------------------------------------------
(* Properties.                                                              *)

\* README.md:504-511: an agent with required_on_match runs whenever its globs
\* match a changed file, and is assigned every file they match, in a first
\* review and in one that reuses the saved cohort, through narrowing, caps,
\* exclusions, rebasing and joining.
RequiredSeesMatches ==
  phase = "review" =>
    \A a \in Agents : RequiredFiles(change.catalog, a, changed) # {} =>
      \E i \in DOMAIN sel : /\ sel[i].agent = a
                            /\ RequiredFiles(change.catalog, a, changed) \subseteq ScopeOf(i)

\* pipeline.go:3470-3568, reviewplan.go:496-500: a pull request is approved
\* only when every changed file with content to review, lockfiles aside, was
\* read in this round by a pass that proved its use of the diff tool.
ApprovalIsCovered ==
  phase = "post" /\ plan.event = "approve" => Obligations(head) \subseteq read

\* reviewplan.go:627-640: two rounds never open comments that say the same of
\* the same file, whatever became of the round that opened the first.
NoRepeat ==
  \A s, t \in threads :
    s.path = t.path /\ Normal[s.body.text] = Normal[t.body.text] => s.round = t.round

\* contracts.go:636-704, reviewplan.go:555-619: every finding is in the
\* review, or one it was dropped in favour of is.
FindingsAccounted ==
  phase = "post" =>
    LET shown == {plan.rollup.order[k] : k \in DOMAIN plan.rollup.order}
    IN  \A i \in DOMAIN notes :
          i \in shown \/ (i \in DOMAIN plan.rollup.drop /\ plan.rollup.drop[i] \in shown)

\* README.md:692 says a blocking finding always requests changes.
BlockingRequestsChanges ==
  phase = "post" /\ Has(notes, "blocking") => plan.event = "request_changes"
=============================================================================
