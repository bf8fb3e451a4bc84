----------------------------- MODULE LedgerRows -----------------------------
(***************************************************************************)
(* The tables of the ledger and what each method of ledger.Store does to   *)
(* them (internal/ledger): as the SQL statements it runs one after the     *)
(* other (Statements, Refused, After), and as what the method means as a   *)
(* whole (Meaning), which is what its callers count on.                    *)
(***************************************************************************)
EXTENDS Naturals, Sequences, FiniteSets

CONSTANTS
  Runs, Sessions, Findings, Actions,   \* IDs of rows of one resume scope
  Names, Agents,                       \* named sessions, cohort members
  FindingOf,                           \* [Actions -> Findings \cup {None}]
  Initial,                             \* what earlier processes have left
  None

Outcomes == {"incomplete", "approved", "request_changes", "comment", "nothing_to_review",
             "dry_run", "aborted", "failed"}
Statuses == {"pending", "posted", "failed_terminal", "superseded", "planned_only"}

Elements(seq) == {seq[i] : i \in DOMAIN seq}

(* The tables: the attempt of a run is 0 while it has no row, the adapter of *)
(* the cohort's header is 0 while there is no cohort.                       *)
Tables ==
  [pr      : BOOLEAN,
   attempt : [Runs -> Nat],
   outcome : [Runs -> Outcomes \cup {None}],
   session : [Sessions -> Runs \cup {None}],
   finding : [Findings -> [run : Runs, session : Sessions] \cup {None}],
   action  : [Actions -> [run : Runs, status : Statuses] \cup {None}],
   named   : [Names -> Nat],
   header  : Nat,
   member  : [Agents -> [position : Nat, session : Nat] \cup {None}]]

Empty ==
  [pr      |-> FALSE,
   attempt |-> [r \in Runs |-> 0],
   outcome |-> [r \in Runs |-> None],
   session |-> [s \in Sessions |-> None],
   finding |-> [f \in Findings |-> None],
   action  |-> [a \in Actions |-> None],
   named   |-> [n \in Names |-> 0],
   header  |-> 0,
   member  |-> [g \in Agents |-> None]]

(* Every run of the scope has an attempt of its own, and nothing refers to a *)
(* row that is gone.                                                        *)
RowsFit(rows) ==
  /\ \A r1, r2 \in Runs :
        r1 # r2 /\ rows.attempt[r1] # 0 => rows.attempt[r1] # rows.attempt[r2]
  /\ \A r \in Runs : rows.outcome[r] # None => rows.attempt[r] # 0
  /\ \A s \in Sessions : rows.session[s] # None => rows.attempt[rows.session[s]] # 0
  /\ \A f \in Findings : rows.finding[f] # None =>
        /\ rows.attempt[rows.finding[f].run] # 0
        /\ rows.session[rows.finding[f].session] # None
  /\ \A a \in Actions : rows.action[a] # None =>
        /\ rows.attempt[rows.action[a].run] # 0
        /\ FindingOf[a] # None => rows.finding[FindingOf[a]] # None
  /\ \A g \in Agents : rows.member[g] # None => rows.header # 0

ASSUME LedgerAssumption ==
  /\ FindingOf \in [Actions -> Findings \cup {None}]
  /\ None \notin Runs \cup Sessions \cup Findings \cup Actions \cup Names \cup Agents
  /\ None \notin [run : Runs, session : Sessions] \cup [run : Runs, status : Statuses]
                \cup [position : Nat, session : Nat]
  /\ IsFiniteSet(Runs)
  /\ \A rows \in Initial : rows \in Tables /\ RowsFit(rows)

(* The calls of a program: what the parameters' types allow and the checks of *)
(* names let through, an adapter or a provider session never being empty.   *)
Calls ==
  [op : {"AllocateRun", "DeleteRun"}, run : Runs]
  \cup [op : {"CompleteRun"}, run : Runs, outcome : Outcomes]
  \cup [op : {"InsertSession"}, run : Runs, session : Sessions]
  \cup [op : {"InsertPlanningResult", "MergePlanningResult"}, run : Runs,
        session : Sessions, findings : Seq(Findings), actions : Seq(Actions)]
  \cup [op : {"UpdatePlannedAction"}, run : Runs, action : Actions, status : Statuses]
  \cup [op : {"UpsertNamedSession"}, name : Names, provider : Nat \ {0}]
  \cup [op : {"DeleteNamedSession"}, name : Names]
  \cup [op : {"ReplaceReviewerCohort"}, adapter : Nat \ {0}, agents : Seq(Agents)]
  \cup [op : {"UpdateReviewerCohortSession"}, agent : Agents, provider : Nat \ {0}]
  \cup [op : {"DeleteReviewerCohort", "GetReviewerCohort", "ListRuns", "Close"}]

NextAttempt(attempt) ==
  LET taken == {attempt[r] : r \in Runs}
  IN  CHOOSE n \in {a + 1 : a \in taken \cup {0}} : \A a \in taken : a < n

-----------------------------------------------------------------------------
(* Statements.  Each names the row it is about and the values it sets.     *)

Statement(verb, key, run, value) ==
  [verb |-> verb, key |-> key, run |-> run, value |-> value]

(* The INSERT of each element of a slice, in the order of the slice. *)
ForEach(verb, keys, run, value) ==
  [i \in DOMAIN keys |-> Statement(verb, keys[i], run, value)]

InsertMembers(agents) ==
  [i \in DOMAIN agents |-> Statement("insertMember", agents[i], None, i)]

AllocateRun(req) ==
  <<Statement("upsertPR", None, None, 0), Statement("insertRun", req.run, None, 0)>>

DeleteRun(req) == <<Statement("deleteRun", req.run, None, 0)>>

CompleteRun(req) == <<Statement("completeRun", req.run, None, req.outcome)>>

InsertSession(req) == <<Statement("insertSession", req.session, req.run, 0)>>

(* InsertFinding, InsertPlannedAction and InsertPlannedActions are planning  *)
(* results without the other kind of rows.                                  *)
InsertPlanningResult(req) ==
  ForEach("insertFinding", req.findings, req.run, req.session)
    \o ForEach("insertAction", req.actions, req.run, 0)

MergePlanningResult(req) ==
  ForEach("mergeFinding", req.findings, req.run, req.session)
    \o ForEach("mergeAction", req.actions, req.run, 0)

UpdatePlannedAction(req) == <<Statement("updateAction", req.action, req.run, req.status)>>

UpsertNamedSession(req) == <<Statement("upsertNamed", req.name, None, req.provider)>>

DeleteNamedSession(req) == <<Statement("deleteNamed", req.name, None, 0)>>

ReplaceReviewerCohort(req) ==
  <<Statement("upsertCohort", None, None, req.adapter),
    Statement("clearMembers", None, None, 0)>> \o InsertMembers(req.agents)

UpdateReviewerCohortSession(req) ==
  <<Statement("setMember", req.agent, None, req.provider),
    Statement("stampCohort", None, None, 0)>>

DeleteReviewerCohort == <<Statement("deleteCohort", None, None, 0)>>

Statements(req) ==
  CASE req.op = "AllocateRun"           -> AllocateRun(req)
    [] req.op = "DeleteRun"             -> DeleteRun(req)
    [] req.op = "CompleteRun"           -> CompleteRun(req)
    [] req.op = "InsertSession"         -> InsertSession(req)
    [] req.op = "InsertPlanningResult"  -> InsertPlanningResult(req)
    [] req.op = "MergePlanningResult"   -> MergePlanningResult(req)
    [] req.op = "UpdatePlannedAction"   -> UpdatePlannedAction(req)
    [] req.op = "UpsertNamedSession"    -> UpsertNamedSession(req)
    [] req.op = "DeleteNamedSession"    -> DeleteNamedSession(req)
    [] req.op = "ReplaceReviewerCohort" -> ReplaceReviewerCohort(req)
    [] req.op = "UpdateReviewerCohortSession" -> UpdateReviewerCohortSession(req)
    [] req.op = "DeleteReviewerCohort"  -> DeleteReviewerCohort

(* A key that is taken or a reference to a row that is not there. *)
Constrained(s, db) ==
  \/ s.verb = "insertRun" /\ db.attempt[s.key] # 0
  \/ /\ s.verb = "insertSession"
     /\ db.session[s.key] # None \/ db.attempt[s.run] = 0
  \/ /\ s.verb \in {"insertFinding", "mergeFinding"}
     /\ \/ db.attempt[s.run] = 0 \/ db.session[s.value] = None
        \/ s.verb = "insertFinding" /\ db.finding[s.key] # None
     /\ ~(s.verb = "mergeFinding" /\ db.finding[s.key] # None)
  \/ /\ s.verb \in {"insertAction", "mergeAction"}
     /\ \/ db.attempt[s.run] = 0
        \/ FindingOf[s.key] # None /\ db.finding[FindingOf[s.key]] = None
        \/ s.verb = "insertAction" /\ db.action[s.key] # None
     /\ ~(s.verb = "mergeAction" /\ db.action[s.key] # None)
  \/ s.verb = "upsertCohort" /\ ~db.pr
  \/ s.verb = "insertMember" /\ (db.member[s.key] # None \/ db.header = 0)

(* A merged ID that another run already uses. *)
Foreign(s, db) ==
  \/ s.verb = "mergeFinding" /\ db.finding[s.key] # None
       /\ db.finding[s.key].run # s.run
  \/ s.verb = "mergeAction" /\ db.action[s.key] # None
       /\ db.action[s.key].run # s.run

(* ErrNotFound: the statement has affected no row. *)
Affectless(s, db) ==
  \/ s.verb \in {"deleteRun", "completeRun"} /\ db.attempt[s.key] = 0
  \/ /\ s.verb = "updateAction"
     /\ ~(db.action[s.key] # None /\ db.action[s.key].run = s.run)
  \/ s.verb = "deleteNamed" /\ db.named[s.key] = 0
  \/ s.verb = "setMember" /\ db.member[s.key] = None

Refused(s, db) == Constrained(s, db) \/ Foreign(s, db) \/ Affectless(s, db)

(* ON DELETE CASCADE: sessions, findings and actions of the run, findings of *)
(* those sessions, actions about those findings.                            *)
WithoutRun(r, db) ==
  LET session == [s \in Sessions |-> IF db.session[s] = r THEN None ELSE db.session[s]]
      gone(f) == /\ db.finding[f] # None
                 /\ \/ db.finding[f].run = r
                    \/ session[db.finding[f].session] = None
      lost(a) == /\ db.action[a] # None
                 /\ \/ db.action[a].run = r
                    \/ FindingOf[a] # None /\ gone(FindingOf[a])
  IN  [db EXCEPT !.attempt[r] = 0, !.outcome[r] = None, !.session = session,
                 !.finding = [f \in Findings |-> IF gone(f) THEN None ELSE @[f]],
                 !.action = [a \in Actions |-> IF lost(a) THEN None ELSE @[a]]]

After(s, db) ==
  CASE s.verb = "upsertPR"      -> [db EXCEPT !.pr = TRUE]
    [] s.verb = "insertRun"     -> [db EXCEPT !.attempt[s.key] = NextAttempt(db.attempt)]
    [] s.verb = "deleteRun"     -> WithoutRun(s.key, db)
    [] s.verb = "completeRun"   -> [db EXCEPT !.outcome[s.key] = s.value]
    [] s.verb = "insertSession" -> [db EXCEPT !.session[s.key] = s.run]
    [] s.verb \in {"insertFinding", "mergeFinding"} ->
         [db EXCEPT !.finding[s.key] =
            IF @ # None THEN @ ELSE [run |-> s.run, session |-> s.value]]
    [] s.verb \in {"insertAction", "mergeAction"} ->
         [db EXCEPT !.action[s.key] =
            IF @ # None THEN @ ELSE [run |-> s.run, status |-> "pending"]]
    [] s.verb = "updateAction"  -> [db EXCEPT !.action[s.key].status = s.value]
    [] s.verb = "upsertNamed"   -> [db EXCEPT !.named[s.key] = s.value]
    [] s.verb = "deleteNamed"   -> [db EXCEPT !.named[s.key] = 0]
    [] s.verb = "upsertCohort"  -> [db EXCEPT !.header = s.value]
    [] s.verb = "clearMembers"  -> [db EXCEPT !.member = [g \in Agents |-> None]]
    [] s.verb = "insertMember"  ->
         [db EXCEPT !.member[s.key] = [position |-> s.value, session |-> 0]]
    [] s.verb = "setMember"     -> [db EXCEPT !.member[s.key].session = s.value]
    [] s.verb = "stampCohort"   -> db
    [] s.verb = "deleteCohort"  ->
         [db EXCEPT !.header = 0, !.member = [g \in Agents |-> None]]

-----------------------------------------------------------------------------
(* What a method means as a whole, in terms of sets of rows.               *)

(* The rows of a planning result that are not there yet. *)
NewFindings(req, db) == {f \in Elements(req.findings) : db.finding[f] = None}
NewActions(req, db)  == {a \in Elements(req.actions) : db.action[a] = None}

Distinct(seq) == Cardinality(Elements(seq)) = Len(seq)

(* The planning result may be stored: its new rows refer to rows that exist *)
(* or come with it.                                                         *)
Storable(req, db) ==
  /\ NewFindings(req, db) \cup NewActions(req, db) # {} => db.attempt[req.run] # 0
  /\ NewFindings(req, db) # {} => db.session[req.session] # None
  /\ \A a \in NewActions(req, db) :
        FindingOf[a] # None =>
          db.finding[FindingOf[a]] # None \/ FindingOf[a] \in Elements(req.findings)

Stored(req, db) ==
  [db EXCEPT
     !.finding = [f \in Findings |->
        IF f \in NewFindings(req, db)
        THEN [run |-> req.run, session |-> req.session] ELSE @[f]],
     !.action = [a \in Actions |->
        IF a \in NewActions(req, db)
        THEN [run |-> req.run, status |-> "pending"] ELSE @[a]]]

Cohort(agents) ==
  [g \in Agents |->
     IF g \in Elements(agents)
     THEN [position |-> CHOOSE i \in DOMAIN agents : agents[i] = g, session |-> 0]
     ELSE None]

Possible(req, db) ==
  CASE req.op = "AllocateRun"  -> db.attempt[req.run] = 0
    [] req.op \in {"DeleteRun", "CompleteRun"} -> db.attempt[req.run] # 0
    [] req.op = "InsertSession" ->
         db.session[req.session] = None /\ db.attempt[req.run] # 0
    [] req.op = "InsertPlanningResult" ->
         /\ NewFindings(req, db) = Elements(req.findings) /\ Distinct(req.findings)
         /\ NewActions(req, db) = Elements(req.actions) /\ Distinct(req.actions)
         /\ Storable(req, db)
    [] req.op = "MergePlanningResult" ->
         /\ \A f \in Elements(req.findings) \ NewFindings(req, db) :
               db.finding[f].run = req.run
         /\ \A a \in Elements(req.actions) \ NewActions(req, db) :
               db.action[a].run = req.run
         /\ Storable(req, db)
    [] req.op = "UpdatePlannedAction" ->
         db.action[req.action] # None /\ db.action[req.action].run = req.run
    [] req.op = "DeleteNamedSession" -> db.named[req.name] # 0
    [] req.op = "ReplaceReviewerCohort" -> db.pr
    [] req.op = "UpdateReviewerCohortSession" -> db.member[req.agent] # None
    [] OTHER -> TRUE

Meaning(req, db) ==
  CASE req.op = "AllocateRun" ->
         [db EXCEPT !.pr = TRUE, !.attempt[req.run] = NextAttempt(db.attempt)]
    [] req.op = "DeleteRun"    -> WithoutRun(req.run, db)
    [] req.op = "CompleteRun"  -> [db EXCEPT !.outcome[req.run] = req.outcome]
    [] req.op = "InsertSession" -> [db EXCEPT !.session[req.session] = req.run]
    [] req.op \in {"InsertPlanningResult", "MergePlanningResult"} -> Stored(req, db)
    [] req.op = "UpdatePlannedAction" ->
         [db EXCEPT !.action[req.action].status = req.status]
    [] req.op = "UpsertNamedSession" -> [db EXCEPT !.named[req.name] = req.provider]
    [] req.op = "DeleteNamedSession" -> [db EXCEPT !.named[req.name] = 0]
    [] req.op = "ReplaceReviewerCohort" ->
         [db EXCEPT !.header = req.adapter, !.member = Cohort(req.agents)]
    [] req.op = "UpdateReviewerCohortSession" ->
         [db EXCEPT !.member[req.agent].session = req.provider]
    [] req.op = "DeleteReviewerCohort" ->
         [db EXCEPT !.header = 0, !.member = [g \in Agents |-> None]]

(* What ListRuns shows: the runs and their outcomes. *)
Listing(db) == [r \in {x \in Runs : db.attempt[x] # 0} |-> db.outcome[r]]

(* What a call returns. *)
Ok         == [kind |-> "ok"]
Error      == [kind |-> "error"]
Shown(what) == [kind |-> "rows", rows |-> what]

(* The adapter of a cohort and its members, as two queries find them. *)
CohortShown(adapter, db) == [kind |-> "cohort", adapter |-> adapter, member |-> db.member]
=============================================================================
