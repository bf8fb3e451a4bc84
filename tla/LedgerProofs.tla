---------------------------- MODULE LedgerProofs ----------------------------
(***************************************************************************)
(* That the store implements the ledger its callers count on, whatever     *)
(* goroutines call it, with whatever requests, however its queue is sized  *)
(* and wherever it crashes; that its rows stay consistent; that no         *)
(* goroutine sends on the closed channel, and that Close takes the         *)
(* database away only when the writer has answered every accepted write.   *)
(***************************************************************************)
EXTENDS LedgerStore, FiniteSetTheorems, SequenceTheorems, TLAPS

-----------------------------------------------------------------------------
(* Rows.  What the methods mean keeps the rows consistent.                  *)

(* A finite set of numbers has a largest one: take away an element of a     *)
(* smallest set that has none.                                              *)
LEMMA MaxExists ==
  ASSUME NEW S, S \subseteq Nat, IsFiniteSet(S), S # {}
  PROVE  \E m \in S : \A a \in S : a <= m
<1> DEFINE Lacks(T) == T # {} /\ ~(\E m \in T : \A a \in T : a <= m)
           Bad == {T \in SUBSET S : Lacks(T)}
<1> SUFFICES ASSUME Bad # {} PROVE FALSE
  BY DEF Bad
<1>1. FiniteSubsetsOf(S) = SUBSET S
  BY FS_FiniteSubsetsOfFinite
<1>2. IsWellFoundedOn(StrictSubsetOrdering(S), SUBSET S)
  BY <1>1, FS_StrictSubsetOrderingWellFounded
<1>3. PICK T \in Bad : \A U \in Bad : ~ (<<U, T>> \in StrictSubsetOrdering(S))
  <2> HIDE DEF Bad
  <2>1. Bad \subseteq SUBSET S
    BY DEF Bad
  <2> QED BY <2>1, <1>2, WFMin
<1>4. PICK x : x \in T
  BY DEF Bad
<1>5. T \ {x} \notin Bad
  <2>1. <<T \ {x}, T>> \in StrictSubsetOrdering(S)
    BY <1>4 DEF StrictSubsetOrdering, Bad
  <2> QED BY <2>1, <1>3
<1>6. CASE T \ {x} = {}
  <2>1. \A a \in T : a = x /\ a \in Nat
    BY <1>6 DEF Bad
  <2>2. \A a \in T : a <= x
    BY <2>1
  <2> QED BY <2>2, <1>4 DEF Bad
<1>7. CASE T \ {x} # {}
  <2>1. PICK m \in T \ {x} : \A a \in T \ {x} : a <= m
    BY <1>5, <1>7 DEF Bad
  <2>2. m \in Nat /\ x \in Nat /\ T \subseteq Nat
    BY <1>4 DEF Bad
  <2>3. \E n \in T : \A a \in T : a <= n
    <3>1. CASE x <= m
      BY <3>1, <2>1, <2>2
    <3>2. CASE m <= x
      <4>1. \A a \in T : a <= x
        BY <3>2, <2>1, <2>2
      <4> QED BY <4>1, <1>4
    <3> QED BY <3>1, <3>2, <2>2
  <2> QED BY <2>3 DEF Bad
<1> QED BY <1>6, <1>7

(* The attempt that AllocateRun computes is not taken (nextAttempt).        *)
LEMMA NextAttemptIsNew ==
  ASSUME NEW d \in Tables
  PROVE  NextAttempt(d.attempt) \in Nat \ {0} /\ \A r \in Runs : d.attempt[r] < NextAttempt(d.attempt)
<1> DEFINE taken == {d.attempt[r] : r \in Runs}
<1>1. d.attempt \in [Runs -> Nat]
  BY DEF Tables
<1>2. IsFiniteSet(taken)
  <2>1. d.attempt \in Surjection(Runs, taken)
    BY <1>1 DEF Surjection
  <2> QED BY <2>1, FS_Surjection, LedgerAssumption
<1>3. taken \cup {0} \subseteq Nat /\ IsFiniteSet(taken \cup {0})
  BY <1>1, <1>2, FS_AddElement
<1>4. PICK m \in taken \cup {0} : \A a \in taken \cup {0} : a <= m
  BY <1>3, MaxExists
<1>5. m + 1 \in {a + 1 : a \in taken \cup {0}} /\ \A a \in taken : a < m + 1
  <2>1. \A a \in taken : a <= m /\ a \in Nat /\ m \in Nat
    BY <1>3, <1>4
  <2>2. m + 1 \in {a + 1 : a \in taken \cup {0}}
    OBVIOUS
  <2>3. \A a \in taken : a < m + 1
    <3> HIDE DEF taken
    <3> QED BY <2>1
  <2> QED BY <2>2, <2>3
<1>6. NextAttempt(d.attempt) \in {a + 1 : a \in taken \cup {0}} /\ \A a \in taken : a < NextAttempt(d.attempt)
  BY <1>5 DEF NextAttempt
<1> QED BY <1>1, <1>3, <1>6

(* The parameters of each kind of call. *)
LEMMA CallParameters ==
  ASSUME NEW r \in Calls, IsWrite(r)
  PROVE  \/ r \in [op : {"AllocateRun", "DeleteRun"}, run : Runs]
         \/ r \in [op : {"CompleteRun"}, run : Runs, outcome : Outcomes]
         \/ r \in [op : {"InsertSession"}, run : Runs, session : Sessions]
         \/ r \in [op : {"InsertPlanningResult", "MergePlanningResult"}, run : Runs,
                   session : Sessions, findings : Seq(Findings), actions : Seq(Actions)]
         \/ r \in [op : {"UpdatePlannedAction"}, run : Runs, action : Actions, status : Statuses]
         \/ r \in [op : {"UpsertNamedSession"}, name : Names, provider : Nat \ {0}]
         \/ r \in [op : {"DeleteNamedSession"}, name : Names]
         \/ r \in [op : {"ReplaceReviewerCohort"}, adapter : Nat \ {0}, agents : Seq(Agents)]
         \/ r \in [op : {"UpdateReviewerCohortSession"}, agent : Agents, provider : Nat \ {0}]
         \/ r.op = "DeleteReviewerCohort"
  BY DEF Calls, IsWrite, IsRead, IsClose

(* The rows of a cohort are rows of the table.                              *)
LEMMA CohortType ==
  ASSUME NEW agents \in Seq(Agents)
  PROVE  Cohort(agents) \in [Agents -> [position : Nat, session : Nat] \cup {None}]
<1>1. ASSUME NEW g \in Elements(agents)
      PROVE  (CHOOSE i \in DOMAIN agents : agents[i] = g) \in Nat
  <2>1. \E i \in DOMAIN agents : agents[i] = g
    BY DEF Elements
  <2>2. (CHOOSE i \in DOMAIN agents : agents[i] = g) \in DOMAIN agents
    BY <2>1
  <2> QED BY <2>2
<1> QED
  BY <1>1 DEF Cohort

(* What is left of each table when a run and what hangs on it are deleted.  *)
LEMMA WithoutRunRows ==
  ASSUME NEW d \in Tables, NEW r \in Runs, NEW e, e = WithoutRun(r, d)
  PROVE  /\ e \in Tables
         /\ \A x \in Runs : e.attempt[x] = IF x = r THEN 0 ELSE d.attempt[x]
         /\ \A x \in Runs : e.outcome[x] = IF x = r THEN None ELSE d.outcome[x]
         /\ \A s \in Sessions : e.session[s] = IF d.session[s] = r THEN None ELSE d.session[s]
         /\ \A f \in Findings :
               e.finding[f] = IF /\ d.finding[f] # None
                                 /\ d.finding[f].run = r \/ e.session[d.finding[f].session] = None
                              THEN None ELSE d.finding[f]
         /\ \A a \in Actions :
               e.action[a] = IF /\ d.action[a] # None
                                /\ \/ d.action[a].run = r
                                   \/ /\ FindingOf[a] # None /\ d.finding[FindingOf[a]] # None
                                      /\ e.finding[FindingOf[a]] = None
                             THEN None ELSE d.action[a]
         /\ e.header = d.header /\ e.member = d.member
<1> DEFINE session == [s \in Sessions |-> IF d.session[s] = r THEN None ELSE d.session[s]]
           gone(f) == /\ d.finding[f] # None
                      /\ \/ d.finding[f].run = r
                         \/ session[d.finding[f].session] = None
           lost(a) == /\ d.action[a] # None
                      /\ \/ d.action[a].run = r
                         \/ FindingOf[a] # None /\ gone(FindingOf[a])
           finding == [f \in Findings |-> IF gone(f) THEN None ELSE d.finding[f]]
           action == [a \in Actions |-> IF lost(a) THEN None ELSE d.action[a]]
<1>1. e = [pr |-> d.pr, attempt |-> [d.attempt EXCEPT ![r] = 0],
           outcome |-> [d.outcome EXCEPT ![r] = None], session |-> session,
           finding |-> finding, action |-> action,
           named |-> d.named, header |-> d.header, member |-> d.member]
  BY DEF WithoutRun, Tables
<1>2. session \in [Sessions -> Runs \cup {None}]
  BY DEF Tables
<1>3. finding \in [Findings -> [run : Runs, session : Sessions] \cup {None}]
  <2>1. d.finding \in [Findings -> [run : Runs, session : Sessions] \cup {None}]
    BY DEF Tables
  <2> HIDE DEF gone
  <2> QED BY <2>1
<1>4. action \in [Actions -> [run : Runs, status : Statuses] \cup {None}]
  <2>1. d.action \in [Actions -> [run : Runs, status : Statuses] \cup {None}]
    BY DEF Tables
  <2> HIDE DEF lost
  <2> QED BY <2>1
<1>5. e \in Tables
  <2> HIDE DEF session, finding, action
  <2> QED BY <1>1, <1>2, <1>3, <1>4 DEF Tables
<1>6. \A f \in Findings : None # d.finding[f] /\ e.finding[f] = None => gone(f)
  BY <1>1
<1>7. \A x \in Runs :
         /\ e.attempt[x] = IF x = r THEN 0 ELSE d.attempt[x]
         /\ e.outcome[x] = IF x = r THEN None ELSE d.outcome[x]
  BY <1>1 DEF Tables
<1>8. \A s \in Sessions : e.session[s] = IF d.session[s] = r THEN None ELSE d.session[s]
  BY <1>1
<1>9. \A f \in Findings : e.finding[f] = IF gone(f) THEN None ELSE d.finding[f]
  BY <1>1
<1>10. \A a \in Actions : e.action[a] = IF lost(a) THEN None ELSE d.action[a]
  BY <1>1
<1>11. e.session = session /\ e.header = d.header /\ e.member = d.member
  BY <1>1
<1>12. \A f \in Findings :
         gone(f) <=> d.finding[f] # None /\ (d.finding[f].run = r \/ e.session[d.finding[f].session] = None)
  BY <1>11
<1>13. \A a \in Actions : FindingOf[a] # None =>
         (gone(FindingOf[a]) <=> d.finding[FindingOf[a]] # None /\ e.finding[FindingOf[a]] = None)
  BY <1>6, <1>9, LedgerAssumption
<1>14. \A f \in Findings :
         e.finding[f] = IF /\ d.finding[f] # None
                           /\ d.finding[f].run = r \/ e.session[d.finding[f].session] = None
                        THEN None ELSE d.finding[f]
  <2> HIDE DEF gone
  <2> QED BY <1>9, <1>12
<1>15. \A a \in Actions :
         e.action[a] = IF /\ d.action[a] # None
                          /\ \/ d.action[a].run = r
                             \/ /\ FindingOf[a] # None /\ d.finding[FindingOf[a]] # None
                                /\ e.finding[FindingOf[a]] = None
                       THEN None ELSE d.action[a]
  <2> HIDE DEF gone
  <2> QED BY <1>10, <1>13 DEF lost
<1> HIDE DEF session, gone, lost, finding, action
<1> QED
  BY <1>5, <1>7, <1>8, <1>11, <1>14, <1>15

(* ON DELETE CASCADE leaves no reference to a row that is gone.             *)
LEMMA WithoutRunFits ==
  ASSUME NEW d \in Tables, RowsFit(d), NEW r \in Runs
  PROVE  WithoutRun(r, d) \in Tables /\ RowsFit(WithoutRun(r, d))
<1> DEFINE e == WithoutRun(r, d)
<1> HIDE DEF e
<1>1. e = WithoutRun(r, d)
  BY DEF e
<1> QED
  BY <1>1, WithoutRunRows, LedgerAssumption DEF Tables, RowsFit

(* e has the rows of d and those the planning result r adds to them. *)
AddsRows(e, r, d) ==
  /\ e \in Tables
  /\ e.pr = d.pr /\ e.attempt = d.attempt /\ e.outcome = d.outcome /\ e.session = d.session
  /\ e.named = d.named /\ e.header = d.header /\ e.member = d.member
  /\ \A f \in Findings :
        e.finding[f] = IF f \in Elements(r.findings) /\ d.finding[f] = None
                       THEN [run |-> r.run, session |-> r.session] ELSE d.finding[f]
  /\ \A a \in Actions :
        e.action[a] = IF a \in Elements(r.actions) /\ d.action[a] = None
                      THEN [run |-> r.run, status |-> "pending"] ELSE d.action[a]

(* Stored adds the new rows of a planning result and changes no other.      *)
LEMMA StoredRows ==
  ASSUME NEW d \in Tables, NEW r \in Calls,
         r.op \in {"InsertPlanningResult", "MergePlanningResult"}
  PROVE  AddsRows(Stored(r, d), r, d)
<1> DEFINE finding == [f \in Findings |-> IF f \in NewFindings(r, d)
                         THEN [run |-> r.run, session |-> r.session] ELSE d.finding[f]]
           action == [a \in Actions |-> IF a \in NewActions(r, d)
                         THEN [run |-> r.run, status |-> "pending"] ELSE d.action[a]]
<1>1. Stored(r, d) = [pr |-> d.pr, attempt |-> d.attempt, outcome |-> d.outcome, session |-> d.session,
           finding |-> finding, action |-> action,
           named |-> d.named, header |-> d.header, member |-> d.member]
  <2>1. Stored(r, d) = [d EXCEPT !.finding = finding, !.action = action]
    BY DEF Stored
  <2> HIDE DEF finding, action
  <2> QED BY <2>1 DEF Tables
<1>2. r.run \in Runs /\ r.session \in Sessions
  BY DEF Calls
<1>3. finding \in [Findings -> [run : Runs, session : Sessions] \cup {None}]
  BY <1>2 DEF Tables
<1>4. action \in [Actions -> [run : Runs, status : Statuses] \cup {None}]
  BY <1>2 DEF Tables, Statuses
<1>5. Stored(r, d) \in Tables
  <2> HIDE DEF finding, action
  <2> QED BY <1>1, <1>3, <1>4 DEF Tables
<1> QED
  BY <1>1, <1>5 DEF AddsRows, NewFindings, NewActions

(* A planning result that may be stored refers to rows that are there.      *)
LEMMA StoredFits ==
  ASSUME NEW d \in Tables, RowsFit(d), NEW r \in Calls, Possible(r, d),
         r.op \in {"InsertPlanningResult", "MergePlanningResult"}
  PROVE  Stored(r, d) \in Tables /\ RowsFit(Stored(r, d))
<1> DEFINE e == Stored(r, d)
<1> HIDE DEF e
<1>1. e = Stored(r, d)
  BY DEF e
<1>2. Storable(r, d)
  BY DEF Possible
<1>3. r.run \in Runs /\ r.session \in Sessions
  BY DEF Calls
<1>4. \A f \in Elements(r.findings) : f \in Findings
  BY DEF Elements, Calls
<1>5. AddsRows(e, r, d)
  BY <1>1, StoredRows
<1>6. ASSUME NEW f \in Findings, e.finding[f] # None
      PROVE  e.attempt[e.finding[f].run] # 0 /\ e.session[e.finding[f].session] # None
  <2>1. CASE f \in Elements(r.findings) /\ d.finding[f] = None
    BY <2>1, <1>2, <1>5 DEF AddsRows, Storable, NewFindings
  <2>2. CASE ~(f \in Elements(r.findings) /\ d.finding[f] = None)
    BY <2>2, <1>5, <1>6 DEF AddsRows, RowsFit
  <2> QED BY <2>1, <2>2
<1>7. \A f \in Findings : d.finding[f] # None \/ f \in Elements(r.findings) => e.finding[f] # None
  <2>1. [run |-> r.run, session |-> r.session] # None
    BY <1>3, LedgerAssumption
  <2> QED BY <1>5, <2>1 DEF AddsRows
<1>8. ASSUME NEW a \in Actions, e.action[a] # None
      PROVE  /\ e.attempt[e.action[a].run] # 0
             /\ FindingOf[a] # None => e.finding[FindingOf[a]] # None
  <2>1. CASE a \in Elements(r.actions) /\ d.action[a] = None
    BY <2>1, <1>2, <1>5, <1>7, LedgerAssumption DEF AddsRows, Storable, NewActions
  <2>2. CASE ~(a \in Elements(r.actions) /\ d.action[a] = None)
    BY <2>2, <1>5, <1>7, <1>8, LedgerAssumption DEF AddsRows, RowsFit
  <2> QED BY <2>1, <2>2
<1> QED
  BY <1>1, <1>5, <1>6, <1>8 DEF AddsRows, RowsFit

(* Every method that may take effect leaves rows that fit together.         *)
LEMMA MeaningFits ==
  ASSUME NEW d \in Tables, RowsFit(d), NEW r \in Calls, IsWrite(r), Possible(r, d)
  PROVE  Meaning(r, d) \in Tables /\ RowsFit(Meaning(r, d))
<1> DEFINE e == Meaning(r, d)
<1>1. CASE r.op = "AllocateRun"
  <2>1. r.run \in Runs
    BY <1>1 DEF Calls
  <2>2. e = [pr |-> TRUE, attempt |-> [d.attempt EXCEPT ![r.run] = NextAttempt(d.attempt)],
             outcome |-> d.outcome, session |-> d.session, finding |-> d.finding, action |-> d.action,
             named |-> d.named, header |-> d.header, member |-> d.member]
    BY <1>1 DEF Meaning, Tables
  <2>3. NextAttempt(d.attempt) \in Nat \ {0} /\ \A x \in Runs : d.attempt[x] < NextAttempt(d.attempt)
    BY NextAttemptIsNew
  <2>4. e \in Tables
    <3> HIDE DEF e
    <3> QED BY <2>1, <2>2, <2>3 DEF Tables
  <2>5. RowsFit(e)
    <3> HIDE DEF e
    <3> QED BY <2>1, <2>2, <2>3 DEF Tables, RowsFit
  <2> QED BY <2>4, <2>5
<1>2. CASE r.op = "DeleteRun"
  <2>1. r.run \in Runs /\ Meaning(r, d) = WithoutRun(r.run, d)
    BY <1>2 DEF Calls, Meaning
  <2> QED BY <2>1, WithoutRunFits
<1>3. CASE r.op = "CompleteRun"
  <2>1. r.run \in Runs /\ r.outcome \in Outcomes
    BY <1>3 DEF Calls
  <2>2. e = [d EXCEPT !.outcome = [d.outcome EXCEPT ![r.run] = r.outcome]] /\ d.attempt[r.run] # 0
    BY <1>3 DEF Meaning, Tables, Possible
  <2> HIDE DEF e
  <2>3. e \in Tables
    BY <2>1, <2>2 DEF Tables
  <2>4. RowsFit(e)
    BY <2>1, <2>2 DEF Tables, RowsFit
  <2> QED BY <2>3, <2>4 DEF e
<1>4. CASE r.op = "InsertSession"
  <2>1. r.run \in Runs /\ r.session \in Sessions
    BY <1>4 DEF Calls
  <2>2. /\ e = [d EXCEPT !.session = [d.session EXCEPT ![r.session] = r.run]]
        /\ d.attempt[r.run] # 0 /\ d.session[r.session] = None
    BY <1>4 DEF Meaning, Tables, Possible
  <2> HIDE DEF e
  <2>3. e \in Tables
    BY <2>1, <2>2 DEF Tables
  <2>4. RowsFit(e)
    BY <2>1, <2>2, LedgerAssumption DEF Tables, RowsFit
  <2> QED BY <2>3, <2>4 DEF e
<1>5. CASE r.op \in {"InsertPlanningResult", "MergePlanningResult"}
  <2>1. Meaning(r, d) = Stored(r, d)
    BY <1>5 DEF Meaning
  <2> QED BY <1>5, <2>1, StoredFits
<1>6. CASE r.op = "UpdatePlannedAction"
  <2>1. r.action \in Actions /\ r.status \in Statuses
    BY <1>6 DEF Calls
  <2>2. d.action[r.action] # None
    BY <1>6 DEF Possible
  <2>3. d.action[r.action] \in [run : Runs, status : Statuses]
    BY <2>1, <2>2 DEF Tables
  <2>4. e = [d EXCEPT !.action = [d.action EXCEPT ![r.action] =
                                   [run |-> d.action[r.action].run, status |-> r.status]]]
    BY <1>6, <2>1, <2>3 DEF Meaning, Tables
  <2> HIDE DEF e
  <2>5. e \in Tables
    BY <2>1, <2>3, <2>4 DEF Tables
  <2>6. RowsFit(e)
    BY <2>1, <2>2, <2>4 DEF Tables, RowsFit
  <2> QED BY <2>5, <2>6 DEF e
<1>7. CASE r.op \in {"UpsertNamedSession", "DeleteNamedSession"}
  <2>1. PICK n \in Nat : e = [d EXCEPT !.named = [d.named EXCEPT ![r.name] = n]]
    BY <1>7 DEF Meaning, Tables, Calls
  <2>2. r.name \in Names
    BY <1>7 DEF Calls
  <2> HIDE DEF e
  <2>3. e \in Tables
    BY <2>1, <2>2 DEF Tables
  <2>4. RowsFit(e)
    BY <2>1, <2>2 DEF Tables, RowsFit
  <2> QED BY <2>3, <2>4 DEF e
<1>8. CASE r.op = "ReplaceReviewerCohort"
  <2>1. r.adapter \in Nat \ {0} /\ r.agents \in Seq(Agents)
    BY <1>8 DEF Calls
  <2>2. e = [d EXCEPT !.header = r.adapter, !.member = Cohort(r.agents)]
    BY <1>8 DEF Meaning
  <2>3. Cohort(r.agents) \in [Agents -> [position : Nat, session : Nat] \cup {None}]
    BY <2>1, CohortType
  <2> HIDE DEF e
  <2>4. e \in Tables
    BY <2>1, <2>2, <2>3 DEF Tables
  <2>5. RowsFit(e)
    BY <2>1, <2>2 DEF Tables, RowsFit
  <2> QED BY <2>4, <2>5 DEF e
<1>9. CASE r.op = "UpdateReviewerCohortSession"
  <2>1. r.agent \in Agents /\ r.provider \in Nat
    BY <1>9 DEF Calls
  <2>2. d.member[r.agent] # None
    BY <1>9 DEF Possible
  <2>3. d.member[r.agent] \in [position : Nat, session : Nat]
    BY <2>1, <2>2 DEF Tables
  <2>4. e = [d EXCEPT !.member = [d.member EXCEPT ![r.agent] =
                     [position |-> d.member[r.agent].position, session |-> r.provider]]]
    BY <1>9, <2>1, <2>3 DEF Meaning, Tables
  <2> HIDE DEF e
  <2>5. e \in Tables
    BY <2>1, <2>3, <2>4 DEF Tables
  <2>6. RowsFit(e)
    BY <2>1, <2>2, <2>4 DEF Tables, RowsFit
  <2> QED BY <2>5, <2>6 DEF e
<1>10. CASE r.op = "DeleteReviewerCohort"
  <2>1. e = [d EXCEPT !.header = 0, !.member = [g \in Agents |-> None]]
    BY <1>10 DEF Meaning
  <2> HIDE DEF e
  <2>2. e \in Tables
    BY <2>1 DEF Tables
  <2>3. RowsFit(e)
    BY <2>1 DEF Tables, RowsFit
  <2> QED BY <2>2, <2>3 DEF e
<1> QED
  BY <1>1, <1>2, <1>3, <1>4, <1>5, <1>6, <1>7, <1>8, <1>9, <1>10, CallParameters

-----------------------------------------------------------------------------
(* Statements.  Run one after the other, the statements of a method do what *)
(* the method means.                                                        *)

(* The first k elements of a sequence, and the others.                      *)
Prefix(s, k) == [i \in 1..k |-> s[i]]
Suffix(s, k) == [i \in 1..(Len(s) - k) |-> s[i + k]]

(* The planning result up to its k-th row. *)
Upto(r, k) ==
  LET n == IF k <= Len(r.findings) THEN k ELSE Len(r.findings)
  IN  [r EXCEPT !.findings = Prefix(r.findings, n), !.actions = Prefix(r.actions, k - n)]

(* The calls that store planning results.                                   *)
Planning == {"InsertPlanningResult", "MergePlanningResult"}

(* Storing a planning result: its first k rows are a result of their own.   *)
PlanReached(r, k, d, t) == Possible(Upto(r, k), d) /\ t = Stored(Upto(r, k), d)

(* Replacing a cohort: first the header, then no members, then one by one.  *)
CohortReached(r, k, d, t) ==
  /\ k = 0 => t = d
  /\ k > 0 => d.pr
  /\ k = 1 => t = [d EXCEPT !.header = r.adapter]
  /\ \A j \in Nat : k = j + 2 =>
        /\ IsInjective(Prefix(r.agents, j))
        /\ t = [d EXCEPT !.header = r.adapter, !.member = Cohort(Prefix(r.agents, j))]

(* The other calls: only AllocateRun takes two statements that change rows. *)
RowReached(r, k, d, t) ==
  /\ k = 0 => t = d
  /\ k = 1 /\ r.op = "AllocateRun" => t = [d EXCEPT !.pr = TRUE]
  /\ k = 2 \/ (k = 1 /\ r.op # "AllocateRun") => Possible(r, d) /\ t = Meaning(r, d)

(* What the first k statements of a call have made of the rows. *)
Reached(r, k, d, t) ==
  /\ r.op \in Planning => PlanReached(r, k, d, t)
  /\ r.op = "ReplaceReviewerCohort" => CohortReached(r, k, d, t)
  /\ r.op \notin Planning \cup {"ReplaceReviewerCohort"} => RowReached(r, k, d, t)

(* A transaction that has run some of the statements of its call: what is   *)
(* left to run, and what the rows have become in its view.                  *)
Halfway(r, d, t, left) ==
  \E k \in 0..Len(Statements(r)) :
     left = Suffix(Statements(r), k) /\ Reached(r, k, d, t)

(* Tables that have the same rows are the same.                             *)
LEMMA SameRows ==
  ASSUME NEW d \in Tables, NEW e \in Tables,
         d.pr = e.pr, d.header = e.header,
         \A x \in Runs : d.attempt[x] = e.attempt[x] /\ d.outcome[x] = e.outcome[x],
         \A x \in Sessions : d.session[x] = e.session[x],
         \A x \in Findings : d.finding[x] = e.finding[x],
         \A x \in Actions : d.action[x] = e.action[x],
         \A x \in Names : d.named[x] = e.named[x],
         \A x \in Agents : d.member[x] = e.member[x]
  PROVE  d = e
<1>1. /\ d.attempt = e.attempt /\ d.outcome = e.outcome /\ d.session = e.session
      /\ d.finding = e.finding /\ d.action = e.action /\ d.named = e.named /\ d.member = e.member
  BY DEF Tables
<1> QED
  BY <1>1 DEF Tables

(* The elements of a sequence are finitely many.                            *)
LEMMA FiniteElements ==
  ASSUME NEW V, NEW s \in Seq(V)
  PROVE  IsFiniteSet(Elements(s))
<1>1. s \in Surjection(DOMAIN s, Elements(s))
  BY DEF Surjection, Elements
<1>2. IsFiniteSet(DOMAIN s)
  BY FS_Interval
<1> QED BY <1>1, <1>2, FS_Surjection

(* A prefix grows by one element at a time.                                 *)
LEMMA PrefixElements ==
  ASSUME NEW V, NEW s \in Seq(V), NEW k \in 0..Len(s)
  PROVE  /\ Prefix(s, k) \in Seq(V) /\ Len(Prefix(s, k)) = k
         /\ Elements(Prefix(s, 0)) = {}
         /\ k = Len(s) => Prefix(s, k) = s
         /\ k < Len(s) => Elements(Prefix(s, k + 1)) = Elements(Prefix(s, k)) \cup {s[k + 1]}
<1>1. Prefix(s, k) \in Seq(V) /\ Len(Prefix(s, k)) = k
  BY DEF Prefix
<1>2. Elements(Prefix(s, 0)) = {}
  BY DEF Prefix, Elements
<1>3. k = Len(s) => Prefix(s, k) = s
  BY DEF Prefix
<1>4. ASSUME k < Len(s)
      PROVE  Elements(Prefix(s, k + 1)) = Elements(Prefix(s, k)) \cup {s[k + 1]}
  <2>1. \A i \in 1..(k + 1) : i \in 1..k \/ i = k + 1
    OBVIOUS
  <2> QED BY <2>1, <1>4 DEF Prefix, Elements
<1> QED BY <1>1, <1>2, <1>3, <1>4

(* Statements are taken from the front of what is left.                     *)
LEMMA SuffixSteps ==
  ASSUME NEW V, NEW s \in Seq(V), NEW k \in 0..Len(s)
  PROVE  /\ Suffix(s, 0) = s
         /\ Suffix(s, k) = <<>> => k = Len(s)
         /\ Suffix(s, k) # <<>> =>
              k < Len(s) /\ Head(Suffix(s, k)) = s[k + 1] /\ Tail(Suffix(s, k)) = Suffix(s, k + 1)
<1>1. Suffix(s, k) \in Seq(V) /\ Len(Suffix(s, k)) = Len(s) - k
  BY DEF Suffix
<1>2. Suffix(s, 0) = s
  BY DEF Suffix
<1>3. Suffix(s, k) = <<>> => k = Len(s)
  BY <1>1
<1>4. ASSUME Suffix(s, k) # <<>>
      PROVE  k < Len(s) /\ Head(Suffix(s, k)) = s[k + 1] /\ Tail(Suffix(s, k)) = Suffix(s, k + 1)
  <2>1. k < Len(s)
    BY <1>1, <1>4
  <2>2. Head(Suffix(s, k)) = s[k + 1]
    BY <1>1, <2>1 DEF Suffix
  <2>3. Len(Tail(Suffix(s, k))) = Len(s) - (k + 1) /\ Tail(Suffix(s, k)) \in Seq(V)
    BY <1>1, <2>1
  <2>4. Suffix(s, k + 1) \in Seq(V) /\ Len(Suffix(s, k + 1)) = Len(s) - (k + 1)
    BY <2>1 DEF Suffix
  <2>5. \A i \in 1..(Len(s) - (k + 1)) : Tail(Suffix(s, k))[i] = Suffix(s, k + 1)[i]
    BY <1>1, <2>1 DEF Suffix
  <2> QED BY <2>1, <2>2, <2>3, <2>4, <2>5
<1> QED BY <1>2, <1>3, <1>4

(* One more finding, one more action of a planning result. *)
LEMMA OneMoreFinding ==
  ASSUME NEW d \in Tables, NEW q \in Calls, NEW p \in Calls, NEW f \in Findings,
         q.op \in {"InsertPlanningResult", "MergePlanningResult"},
         p.op = q.op, p.run = q.run, p.session = q.session,
         Elements(p.findings) = Elements(q.findings) \cup {f}, Len(p.findings) = Len(q.findings) + 1,
         p.actions = q.actions, Elements(q.actions) = {},
         Possible(q, d), NEW verb, verb = IF q.op = "InsertPlanningResult" THEN "insertFinding" ELSE "mergeFinding",
         NEW s, s = Statement(verb, f, q.run, q.session), ~Refused(s, Stored(q, d))
  PROVE  Possible(p, d) /\ After(s, Stored(q, d)) = Stored(p, d)
<1> DEFINE t == Stored(q, d)
<1> HIDE DEF t
<1>0. q.run \in Runs /\ q.session \in Sessions /\ q.findings \in Seq(Findings) /\ q.actions \in Seq(Actions)
  BY DEF Calls
<1>1. AddsRows(t, q, d) /\ t \in Tables /\ \A a \in Actions : t.action[a] = d.action[a]
  BY StoredRows DEF t, AddsRows
<1>2. After(s, t) = [t EXCEPT !.finding = [t.finding EXCEPT ![f] =
                       IF t.finding[f] # None THEN t.finding[f]
                       ELSE [run |-> q.run, session |-> q.session]]]
  BY <1>1 DEF After, Statement, Tables
<1>3. /\ s.verb = verb /\ s.key = f /\ s.run = q.run /\ s.value = q.session
      /\ ~Constrained(s, t) /\ ~Foreign(s, t)
  BY DEF Refused, Statement, t
<1>4. [run |-> q.run, session |-> q.session] # None
  BY <1>0, LedgerAssumption
<1>5. d.finding[f] = None => d.attempt[q.run] # 0 /\ d.session[q.session] # None
  <2>1. CASE t.finding[f] = None
    BY <1>1, <1>3, <2>1 DEF Constrained, AddsRows
  <2>2. CASE d.finding[f] = None /\ t.finding[f] # None
    <3>1. f \in NewFindings(q, d)
      BY <1>1, <2>2 DEF NewFindings, AddsRows
    <3> QED BY <3>1 DEF Possible, Storable
  <2> QED BY <1>1, <2>1, <2>2 DEF AddsRows
<1>6. NewFindings(p, d) = NewFindings(q, d) \cup {x \in {f} : d.finding[x] = None}
  BY DEF NewFindings
<1>7. NewActions(p, d) = {} /\ NewActions(q, d) = {}
  BY DEF NewActions
<1>8. Storable(p, d)
  BY <1>5, <1>6, <1>7 DEF Possible, Storable
<1>9. Possible(p, d)
  <2>1. CASE q.op = "InsertPlanningResult"
    <3>1. t.finding[f] = None
      BY <1>3, <2>1 DEF Constrained
    <3>2. f \notin Elements(q.findings) /\ d.finding[f] = None
      BY <1>1, <1>4, <3>1 DEF AddsRows
    <3>3. Distinct(p.findings)
      <4>1. IsFiniteSet(Elements(q.findings)) /\ Distinct(q.findings)
        BY <1>0, <2>1, FiniteElements DEF Possible
      <4> QED BY <4>1, <3>2, FS_AddElement DEF Distinct
    <3>4. NewFindings(p, d) = Elements(p.findings)
      BY <2>1, <3>2, <1>6 DEF Possible
    <3> QED BY <2>1, <1>8, <3>3, <3>4 DEF Possible, NewActions
  <2>2. CASE q.op = "MergePlanningResult"
    <3>1. d.finding[f] # None => d.finding[f].run = q.run
      BY <1>1, <1>3, <2>2 DEF Foreign, AddsRows
    <3>2. \A x \in Elements(p.findings) \ NewFindings(p, d) : d.finding[x].run = p.run
      BY <3>1, <2>2, <1>6 DEF Possible
    <3> QED BY <2>2, <1>8, <3>2 DEF Possible, NewActions
  <2> QED BY <2>1, <2>2
<1>10. After(s, t) = Stored(p, d)
  <2>1. After(s, t) \in Tables
    <3>1. (IF t.finding[f] # None THEN t.finding[f] ELSE [run |-> q.run, session |-> q.session])
            \in [run : Runs, session : Sessions] \cup {None}
      BY <1>0, <1>1 DEF Tables
    <3> DEFINE F == [t.finding EXCEPT ![f] =
                       IF t.finding[f] # None THEN t.finding[f]
                       ELSE [run |-> q.run, session |-> q.session]]
    <3>2. F \in [Findings -> [run : Runs, session : Sessions] \cup {None}]
      BY <1>1, <3>1 DEF Tables
    <3> HIDE DEF F
    <3>3. [t EXCEPT !.finding = F] \in Tables
      BY <1>1, <3>2 DEF Tables
    <3> QED BY <1>2, <3>3 DEF F
  <2> DEFINE e == Stored(p, d)
             g == After(s, t)
  <2>2. AddsRows(e, p, d)
    BY StoredRows
  <2>3. /\ g.pr = t.pr /\ g.attempt = t.attempt /\ g.outcome = t.outcome
        /\ g.session = t.session /\ g.named = t.named
        /\ g.header = t.header /\ g.member = t.member /\ g.action = t.action
    BY <1>1, <1>2 DEF Tables
  <2>4. \A x \in Findings : g.finding[x] =
           IF x = f /\ t.finding[x] = None THEN [run |-> q.run, session |-> q.session] ELSE t.finding[x]
    BY <1>1, <1>2 DEF Tables
  <2> HIDE DEF e, g
  <2>5. \A x \in Findings : g.finding[x] = e.finding[x]
    BY <2>2, <2>4, <1>1, <1>4 DEF AddsRows
  <2>6. \A a \in Actions : g.action[a] = e.action[a]
    BY <2>2, <2>3, <1>1 DEF AddsRows
  <2>7. g = e
    <3>1. g \in Tables /\ e \in Tables
      BY <2>1, <2>2 DEF g, AddsRows
    <3>2. /\ g.pr = e.pr /\ g.attempt = e.attempt /\ g.outcome = e.outcome
          /\ g.session = e.session /\ g.named = e.named /\ g.header = e.header /\ g.member = e.member
      BY <2>2, <2>3, <1>1 DEF AddsRows
    <3> QED BY <3>1, <3>2, <2>5, <2>6, SameRows
  <2> QED BY <2>7 DEF e, g
<1> QED BY <1>9, <1>10 DEF t

LEMMA OneMoreAction ==
  ASSUME NEW d \in Tables, NEW q \in Calls, NEW p \in Calls, NEW a \in Actions,
         q.op \in {"InsertPlanningResult", "MergePlanningResult"},
         p.op = q.op, p.run = q.run, p.session = q.session, p.findings = q.findings,
         Elements(p.actions) = Elements(q.actions) \cup {a}, Len(p.actions) = Len(q.actions) + 1,
         Possible(q, d), NEW verb, verb = IF q.op = "InsertPlanningResult" THEN "insertAction" ELSE "mergeAction",
         NEW s, s = Statement(verb, a, q.run, 0), ~Refused(s, Stored(q, d))
  PROVE  Possible(p, d) /\ After(s, Stored(q, d)) = Stored(p, d)
<1> DEFINE t == Stored(q, d)
<1> HIDE DEF t
<1>0. q.run \in Runs /\ q.session \in Sessions /\ q.findings \in Seq(Findings) /\ q.actions \in Seq(Actions)
  BY DEF Calls
<1>1. AddsRows(t, q, d) /\ t \in Tables
  BY StoredRows DEF t, AddsRows
<1>2. After(s, t) = [t EXCEPT !.action = [t.action EXCEPT ![a] =
                       IF t.action[a] # None THEN t.action[a]
                       ELSE [run |-> q.run, status |-> "pending"]]]
  BY <1>1 DEF After, Statement, Tables
<1>3. /\ s.verb = verb /\ s.key = a /\ s.run = q.run
      /\ ~Constrained(s, t) /\ ~Foreign(s, t)
  BY DEF Refused, Statement, t
<1>4. [run |-> q.run, status |-> "pending"] # None
  BY <1>0, LedgerAssumption DEF Statuses
<1>5. d.action[a] = None =>
        /\ d.attempt[q.run] # 0
        /\ FindingOf[a] # None => d.finding[FindingOf[a]] # None \/ FindingOf[a] \in Elements(q.findings)
  <2>1. CASE t.action[a] = None
    BY <1>1, <1>3, <2>1, LedgerAssumption DEF Constrained, AddsRows
  <2>2. CASE d.action[a] = None /\ t.action[a] # None
    <3>1. a \in NewActions(q, d)
      BY <1>1, <2>2 DEF NewActions, AddsRows
    <3> QED BY <3>1 DEF Possible, Storable
  <2> QED BY <1>1, <2>1, <2>2 DEF AddsRows
<1>6. NewActions(p, d) = NewActions(q, d) \cup {x \in {a} : d.action[x] = None}
  BY DEF NewActions
<1>7. NewFindings(p, d) = NewFindings(q, d)
  BY DEF NewFindings
<1>8. Storable(p, d)
  BY <1>5, <1>6, <1>7 DEF Possible, Storable
<1>9. Possible(p, d)
  <2>1. CASE q.op = "InsertPlanningResult"
    <3>1. t.action[a] = None
      BY <1>3, <2>1 DEF Constrained
    <3>2. a \notin Elements(q.actions) /\ d.action[a] = None
      BY <1>1, <1>4, <3>1 DEF AddsRows
    <3>3. Distinct(p.actions)
      <4>1. IsFiniteSet(Elements(q.actions)) /\ Distinct(q.actions)
        BY <1>0, <2>1, FiniteElements DEF Possible
      <4> QED BY <4>1, <3>2, FS_AddElement DEF Distinct
    <3>4. NewActions(p, d) = Elements(p.actions)
      BY <2>1, <3>2, <1>6 DEF Possible
    <3> QED BY <2>1, <1>7, <1>8, <3>3, <3>4 DEF Possible
  <2>2. CASE q.op = "MergePlanningResult"
    <3>1. d.action[a] # None => d.action[a].run = q.run
      BY <1>1, <1>3, <2>2 DEF Foreign, AddsRows
    <3>2. \A x \in Elements(p.actions) \ NewActions(p, d) : d.action[x].run = p.run
      BY <3>1, <2>2, <1>6 DEF Possible
    <3> QED BY <2>2, <1>7, <1>8, <3>2 DEF Possible
  <2> QED BY <2>1, <2>2
<1>10. After(s, t) = Stored(p, d)
  <2>1. After(s, t) \in Tables
    <3>1. (IF t.action[a] # None THEN t.action[a] ELSE [run |-> q.run, status |-> "pending"])
            \in [run : Runs, status : Statuses] \cup {None}
      BY <1>0, <1>1 DEF Tables, Statuses
    <3> DEFINE A == [t.action EXCEPT ![a] =
                       IF t.action[a] # None THEN t.action[a]
                       ELSE [run |-> q.run, status |-> "pending"]]
    <3>2. A \in [Actions -> [run : Runs, status : Statuses] \cup {None}]
      BY <1>1, <3>1 DEF Tables
    <3> HIDE DEF A
    <3>3. [t EXCEPT !.action = A] \in Tables
      BY <1>1, <3>2 DEF Tables
    <3> QED BY <1>2, <3>3 DEF A
  <2> DEFINE e == Stored(p, d)
             g == After(s, t)
  <2>2. AddsRows(e, p, d)
    BY StoredRows
  <2>3. /\ g.pr = t.pr /\ g.attempt = t.attempt /\ g.outcome = t.outcome
        /\ g.session = t.session /\ g.named = t.named
        /\ g.header = t.header /\ g.member = t.member /\ g.finding = t.finding
    BY <1>1, <1>2 DEF Tables
  <2>4. \A x \in Actions : g.action[x] =
           IF x = a /\ t.action[x] = None THEN [run |-> q.run, status |-> "pending"] ELSE t.action[x]
    BY <1>1, <1>2 DEF Tables
  <2> HIDE DEF e, g
  <2>5. \A x \in Actions : g.action[x] = e.action[x]
    BY <2>2, <2>4, <1>1, <1>4 DEF AddsRows
  <2>6. \A x \in Findings : g.finding[x] = e.finding[x]
    BY <2>2, <2>3, <1>1 DEF AddsRows
  <2>7. g = e
    <3>1. g \in Tables /\ e \in Tables
      BY <2>1, <2>2 DEF g, AddsRows
    <3>2. /\ g.pr = e.pr /\ g.attempt = e.attempt /\ g.outcome = e.outcome
          /\ g.session = e.session /\ g.named = e.named /\ g.header = e.header /\ g.member = e.member
      BY <2>2, <2>3, <1>1 DEF AddsRows
    <3> QED BY <3>1, <3>2, <2>5, <2>6, SameRows
  <2> QED BY <2>7 DEF e, g
<1> QED BY <1>9, <1>10 DEF t

(* A planning result of n findings and m actions. *)
Sized(r, n, m) ==
  /\ r \in Calls /\ r.op \in {"InsertPlanningResult", "MergePlanningResult"}
  /\ n \in Nat /\ n = Len(r.findings) /\ m \in Nat /\ m = Len(r.actions)

(* Every planning result has a size.                                        *)
LEMMA PlanSized ==
  ASSUME NEW r \in Calls, r.op \in {"InsertPlanningResult", "MergePlanningResult"}
  PROVE  \E n, m : Sized(r, n, m)
<1>1. r.findings \in Seq(Findings) /\ r.actions \in Seq(Actions)
  BY DEF Calls
<1>2. Len(r.findings) \in Nat /\ Len(r.actions) \in Nat
  BY <1>1, LenProperties
<1> QED BY <1>2 DEF Sized

(* One statement for each element of a list, in its order.                  *)
LEMMA ForEachStatements ==
  ASSUME NEW V, NEW s \in Seq(V), NEW verb, NEW run, NEW value, NEW n \in Nat, n = Len(s)
  PROVE  /\ \E W : ForEach(verb, s, run, value) \in Seq(W)
         /\ Len(ForEach(verb, s, run, value)) = n
         /\ \A k \in 1..n : ForEach(verb, s, run, value)[k] = Statement(verb, s[k], run, value)
<1> DEFINE F == ForEach(verb, s, run, value)
           W == {F[i] : i \in DOMAIN F}
<1>1. DOMAIN F = 1..Len(s) /\ F = [i \in 1..Len(s) |-> F[i]]
  BY DEF ForEach
<1>2. \A k \in 1..Len(s) : F[k] = Statement(verb, s[k], run, value)
  BY DEF ForEach
<1>3. F \in Seq(W) /\ Len(F) = Len(s)
  <2>1. \A i \in 1..Len(s) : F[i] \in W
    BY <1>1
  <2> HIDE DEF F, W
  <2>2. F \in [1..Len(s) -> W]
    BY <1>1, <2>1
  <2> QED BY <1>1, <2>2
<1> QED
  <2> HIDE DEF F, W
  <2>1. /\ \E X : F \in Seq(X)
        /\ Len(F) = n
        /\ \A k \in 1..n : F[k] = Statement(verb, s[k], run, value)
    BY <1>2, <1>3
  <2> QED BY <2>1 DEF F

(* Two sequences one after the other.                                       *)
LEMMA Concatenated ==
  ASSUME NEW V, NEW W, NEW f \in Seq(V), NEW a \in Seq(W)
  PROVE  /\ f \o a \in Seq(V \cup W) /\ Len(f \o a) = Len(f) + Len(a)
         /\ \A k \in 1..Len(f) : (f \o a)[k] = f[k]
         /\ \A k \in 1..Len(a) : (f \o a)[Len(f) + k] = a[k]
<1>1. f \in Seq(V \cup W) /\ a \in Seq(V \cup W)
  OBVIOUS
<1> QED BY <1>1

(* The findings of a planning result come first, its actions after them.    *)
LEMMA PlanStatements ==
  ASSUME NEW r, NEW n, NEW m, Sized(r, n, m)
  PROVE  LET S == Statements(r)
             new == r.op = "InsertPlanningResult"
         IN  /\ \E V : S \in Seq(V)
             /\ Len(S) = n + m
             /\ \A k \in 1..n :
                  S[k] = Statement(IF new THEN "insertFinding" ELSE "mergeFinding",
                                   r.findings[k], r.run, r.session)
             /\ \A k \in 1..m :
                  S[n + k] = Statement(IF new THEN "insertAction" ELSE "mergeAction",
                                       r.actions[k], r.run, 0)
<1> DEFINE S == Statements(r)
           new == r.op = "InsertPlanningResult"
           F == ForEach(IF new THEN "insertFinding" ELSE "mergeFinding", r.findings, r.run, r.session)
           A == ForEach(IF new THEN "insertAction" ELSE "mergeAction", r.actions, r.run, 0)
<1>1. /\ r.findings \in Seq(Findings) /\ r.actions \in Seq(Actions)
      /\ n \in Nat /\ m \in Nat /\ n = Len(r.findings) /\ m = Len(r.actions)
  BY DEF Calls, Sized
<1>2. S = F \o A
  BY DEF Sized, Statements, InsertPlanningResult, MergePlanningResult
<1>3. /\ \E V : F \in Seq(V)
      /\ Len(F) = n
      /\ \A k \in 1..n : F[k] = Statement(IF new THEN "insertFinding" ELSE "mergeFinding",
                                          r.findings[k], r.run, r.session)
  BY <1>1, ForEachStatements
<1>4. /\ \E V : A \in Seq(V)
      /\ Len(A) = m
      /\ \A k \in 1..m : A[k] = Statement(IF new THEN "insertAction" ELSE "mergeAction",
                                          r.actions[k], r.run, 0)
  BY <1>1, ForEachStatements
<1> HIDE DEF F, A
<1>5. /\ \E V : F \o A \in Seq(V)
      /\ Len(F \o A) = n + m
      /\ \A k \in 1..n : (F \o A)[k] = F[k]
      /\ \A k \in 1..m : (F \o A)[n + k] = A[k]
  <2>1. PICK V, W : F \in Seq(V) /\ A \in Seq(W)
    BY <1>3, <1>4
  <2>2. n \in Nat /\ m \in Nat
    BY <1>1
  <2>3. /\ F \o A \in Seq(V \cup W) /\ Len(F \o A) = Len(F) + Len(A)
        /\ \A k \in 1..Len(F) : (F \o A)[k] = F[k]
        /\ \A k \in 1..Len(A) : (F \o A)[Len(F) + k] = A[k]
    BY <2>1, Concatenated
  <2>4. Len(F) = n /\ Len(A) = m
    BY <1>3, <1>4
  <2> QED BY <2>3, <2>4
<1>6. /\ \E V : S \in Seq(V)
      /\ Len(S) = n + m
      /\ \A k \in 1..n : S[k] = F[k]
      /\ \A k \in 1..m : S[n + k] = A[k]
  BY <1>2, <1>5
<1> HIDE DEF S
<1>7. /\ \E V : S \in Seq(V)
      /\ Len(S) = n + m
      /\ \A k \in 1..n :
            S[k] = Statement(IF new THEN "insertFinding" ELSE "mergeFinding",
                             r.findings[k], r.run, r.session)
      /\ \A k \in 1..m :
            S[n + k] = Statement(IF new THEN "insertAction" ELSE "mergeAction",
                                 r.actions[k], r.run, 0)
  BY <1>3, <1>4, <1>6
<1> QED BY <1>7 DEF S

(* The first k rows of a planning result are a planning result.             *)
LEMMA UptoCalls ==
  ASSUME NEW r, NEW n, NEW m, Sized(r, n, m), NEW k \in 0..(n + m)
  PROVE  /\ Upto(r, k) \in Calls
         /\ Upto(r, k).op = r.op /\ Upto(r, k).run = r.run /\ Upto(r, k).session = r.session
         /\ k <= n => Upto(r, k).findings = Prefix(r.findings, k) /\ Upto(r, k).actions = Prefix(r.actions, 0)
         /\ \A j \in Nat : k = n + j =>
              Upto(r, k).findings = r.findings /\ Upto(r, k).actions = Prefix(r.actions, j)
<1> DEFINE j == IF k <= n THEN k ELSE n
           C == [op : {"InsertPlanningResult", "MergePlanningResult"}, run : Runs,
                 session : Sessions, findings : Seq(Findings), actions : Seq(Actions)]
<1>1. r \in C
  BY DEF Calls, Sized
<1>2. r.findings \in Seq(Findings) /\ r.actions \in Seq(Actions)
  BY <1>1
<1>0. n \in Nat /\ m \in Nat
  BY DEF Sized
<1>3. j \in 0..n /\ k - j \in 0..m
  BY <1>0
<1>4. Upto(r, k) = [r EXCEPT !.findings = Prefix(r.findings, j), !.actions = Prefix(r.actions, k - j)]
  BY DEF Upto, Sized
<1>5. Prefix(r.findings, j) \in Seq(Findings) /\ Prefix(r.actions, k - j) \in Seq(Actions)
  <2> HIDE DEF j
  <2>1. j \in 0..Len(r.findings) /\ k - j \in 0..Len(r.actions)
    BY <1>3 DEF Sized
  <2> QED BY <1>2, <2>1, PrefixElements
<1>6. Upto(r, k) \in C /\ Upto(r, k).findings = Prefix(r.findings, j)
      /\ Upto(r, k).actions = Prefix(r.actions, k - j)
      /\ Upto(r, k).op = r.op /\ Upto(r, k).run = r.run /\ Upto(r, k).session = r.session
  <2> HIDE DEF j
  <2> QED BY <1>1, <1>4, <1>5
<1>7. Prefix(r.findings, n) = r.findings
  <2>1. n \in 0..Len(r.findings) /\ n = Len(r.findings)
    BY DEF Sized
  <2> QED BY <2>1, <1>2, PrefixElements
<1>8. Upto(r, k) \in Calls
  BY <1>6 DEF Calls
<1>9. (k <= n => j = k /\ k - j = 0) /\ (\A i \in Nat : k = n + i => j = n /\ k - j = i)
  BY <1>0
<1> QED
  BY <1>6, <1>7, <1>8, <1>9

(* One more element of a list. *)
LEMMA OneMoreElement ==
  ASSUME NEW V, NEW s \in Seq(V), NEW k \in Nat, k < Len(s), NEW i, i = k + 1
  PROVE  /\ s[i] \in V
         /\ Elements(Prefix(s, i)) = Elements(Prefix(s, k)) \cup {s[i]}
         /\ Len(Prefix(s, i)) = Len(Prefix(s, k)) + 1
<1>1. k \in 0..Len(s) /\ k + 1 \in 0..Len(s) /\ k < Len(s)
  OBVIOUS
<1>2. Len(Prefix(s, k)) = k /\ Len(Prefix(s, k + 1)) = k + 1
  BY <1>1, PrefixElements
<1> QED BY <1>1, <1>2, PrefixElements

(* A planning result without rows changes nothing.                          *)
LEMMA PlanBegins ==
  ASSUME NEW d \in Tables, NEW r \in Calls, r.op \in {"InsertPlanningResult", "MergePlanningResult"}
  PROVE  Reached(r, 0, d, d)
<1>1. r.findings \in Seq(Findings) /\ r.actions \in Seq(Actions)
  BY DEF Calls
<1>2. PICK n, m : Sized(r, n, m)
  BY PlanSized
<1> DEFINE q == Upto(r, 0)
<1>3. q \in Calls /\ q.op = r.op /\ q.findings = Prefix(r.findings, 0) /\ q.actions = Prefix(r.actions, 0)
  <2>0. n \in Nat /\ m \in Nat
    BY <1>2 DEF Sized
  <2>1. 0 \in 0..(n + m) /\ 0 <= n
    BY <2>0
  <2> QED BY <1>2, <2>1, UptoCalls
<1> HIDE DEF q
<1>4. /\ Elements(q.findings) = {} /\ Elements(q.actions) = {} /\ Len(q.findings) = 0 /\ Len(q.actions) = 0
  <2>1. \A V : \A s \in Seq(V) : Elements(Prefix(s, 0)) = {} /\ Len(Prefix(s, 0)) = 0
    BY PrefixElements
  <2> QED BY <1>1, <1>3, <2>1
<1>5. Possible(q, d)
  BY <1>3, <1>4, FS_EmptySet DEF Possible, Storable, NewFindings, NewActions, Distinct
<1>6. Stored(q, d) = d
  <2>1. AddsRows(Stored(q, d), q, d)
    BY <1>3, StoredRows
  <2> QED BY <2>1, <1>4, SameRows DEF AddsRows
<1> QED
  BY <1>5, <1>6 DEF Reached, PlanReached, Planning, q

(* The k+1st statement that is not refused stores the k+1st row.            *)
LEMMA PlanGoesOn ==
  ASSUME NEW d \in Tables, NEW r, NEW n, NEW m, Sized(r, n, m),
         NEW k \in 0..(n + m), k < n + m, NEW t, Reached(r, k, d, t),
         NEW s, s = Statements(r)[k + 1], ~Refused(s, t)
  PROVE  Reached(r, k + 1, d, After(s, t))
<1> DEFINE q == Upto(r, k)
           p == Upto(r, k + 1)
<1>1. n \in Nat /\ m \in Nat
  BY DEF Sized
<1>2. /\ r \in Calls /\ r.op \in {"InsertPlanningResult", "MergePlanningResult"}
      /\ r.findings \in Seq(Findings) /\ r.actions \in Seq(Actions)
      /\ n = Len(r.findings) /\ m = Len(r.actions)
  BY DEF Calls, Sized
<1>3. Possible(q, d) /\ t = Stored(q, d)
  <2>1. r.op \in {"InsertPlanningResult", "MergePlanningResult"}
    BY <1>2
  <2>2. PlanReached(r, k, d, t)
    BY <2>1 DEF Reached, Planning
  <2> QED BY <2>2 DEF PlanReached
<1>0. k + 1 \in 0..(n + m)
  BY <1>1
<1>4. q \in Calls /\ p \in Calls /\ q.op = r.op /\ p.op = r.op /\ q.run = r.run /\ p.run = r.run
      /\ q.session = r.session /\ p.session = r.session
  BY <1>0, UptoCalls
<1>5. CASE k < n
  <2>1. k + 1 \in 1..n /\ k \in 0..n /\ k <= n /\ k + 1 <= n
    BY <1>1, <1>5
  <2>2. s = Statement(IF r.op = "InsertPlanningResult" THEN "insertFinding" ELSE "mergeFinding",
                      r.findings[k + 1], r.run, r.session)
    BY <2>1, PlanStatements
  <2>3. /\ q.findings = Prefix(r.findings, k) /\ q.actions = Prefix(r.actions, 0)
        /\ p.findings = Prefix(r.findings, k + 1) /\ p.actions = Prefix(r.actions, 0)
    BY <1>0, <2>1, UptoCalls
  <2>4. /\ Elements(p.findings) = Elements(q.findings) \cup {r.findings[k + 1]}
        /\ Len(p.findings) = Len(q.findings) + 1 /\ r.findings[k + 1] \in Findings
    <3>1. PICK j \in Nat : j = k
      BY <1>1
    <3>2. /\ r.findings[j + 1] \in Findings
          /\ Elements(Prefix(r.findings, j + 1)) = Elements(Prefix(r.findings, j)) \cup {r.findings[j + 1]}
          /\ Len(Prefix(r.findings, j + 1)) = Len(Prefix(r.findings, j)) + 1
      <4>1. j \in Nat /\ j < Len(r.findings)
        BY <1>1, <1>2, <1>5, <3>1
      <4>2. r.findings \in Seq(Findings)
        BY <1>2
      <4> QED BY ONLY <4>1, <4>2, OneMoreElement
    <3> QED BY <3>1, <3>2, <2>3
  <2>5. Elements(q.actions) = {}
    BY <2>3 DEF Prefix, Elements
  <2> HIDE DEF q, p
  <2>6. Possible(p, d) /\ After(s, t) = Stored(p, d)
    BY <1>2, <1>3, <1>4, <2>2, <2>3, <2>4, <2>5, OneMoreFinding
  <2> QED BY <1>2, <2>6 DEF Reached, PlanReached, Planning, p
<1>6. CASE k >= n
  <2>1. PICK j \in 0..m : j = k - n
    <3>1. k - n \in 0..m
      BY <1>1, <1>6
    <3> QED BY <3>1
  <2>2. j < m /\ j + 1 \in 1..m /\ k = n + j /\ k + 1 = n + (j + 1) /\ j \in Nat /\ j + 1 \in Nat
    BY <1>1, <1>6, <2>1
  <2>3. s = Statement(IF r.op = "InsertPlanningResult" THEN "insertAction" ELSE "mergeAction",
                      r.actions[j + 1], r.run, 0)
    BY <2>2, PlanStatements
  <2>4. q.findings = r.findings /\ q.actions = Prefix(r.actions, j)
    BY <2>2, UptoCalls
  <2>5. p.findings = r.findings /\ p.actions = Prefix(r.actions, j + 1)
    BY <1>0, <2>2, UptoCalls
  <2>6. /\ Elements(p.actions) = Elements(q.actions) \cup {r.actions[j + 1]}
        /\ Len(p.actions) = Len(q.actions) + 1 /\ r.actions[j + 1] \in Actions
    <3>1. /\ r.actions[j + 1] \in Actions
          /\ Elements(Prefix(r.actions, j + 1)) = Elements(Prefix(r.actions, j)) \cup {r.actions[j + 1]}
          /\ Len(Prefix(r.actions, j + 1)) = Len(Prefix(r.actions, j)) + 1
      <4>1. j \in Nat /\ j < Len(r.actions)
        BY <1>2, <2>2
      <4>2. r.actions \in Seq(Actions)
        BY <1>2
      <4> QED BY ONLY <4>1, <4>2, OneMoreElement
    <3> QED BY <3>1, <2>4, <2>5
  <2> HIDE DEF q, p
  <2>7. Possible(p, d) /\ After(s, t) = Stored(p, d)
    <3>1. /\ q.op \in {"InsertPlanningResult", "MergePlanningResult"}
          /\ p.op = q.op /\ p.run = q.run /\ p.session = q.session /\ p.findings = q.findings
          /\ Elements(p.actions) = Elements(q.actions) \cup {r.actions[j + 1]}
          /\ Len(p.actions) = Len(q.actions) + 1 /\ r.actions[j + 1] \in Actions
      BY <1>2, <1>4, <2>4, <2>5, <2>6
    <3>2. s = Statement(IF q.op = "InsertPlanningResult" THEN "insertAction" ELSE "mergeAction",
                        r.actions[j + 1], q.run, 0)
      BY <1>4, <2>3
    <3>3. q \in Calls /\ p \in Calls /\ Possible(q, d) /\ ~Refused(s, Stored(q, d))
      BY <1>3, <1>4
    <3>4. Possible(p, d) /\ After(s, Stored(q, d)) = Stored(p, d)
      BY <3>1, <3>2, <3>3, OneMoreAction
    <3> QED BY <1>3, <3>4
  <2> QED BY <1>2, <2>7 DEF Reached, PlanReached, Planning, p
<1> QED
  BY <1>1, <1>5, <1>6

(* All its rows are the planning result.                                    *)
LEMMA PlanEnds ==
  ASSUME NEW d \in Tables, NEW r, NEW n, NEW m, Sized(r, n, m), NEW t, Reached(r, n + m, d, t)
  PROVE  Possible(r, d) /\ t = Meaning(r, d)
<1> DEFINE q == Upto(r, n + m)
<1>1. n \in Nat /\ m \in Nat
  BY DEF Sized
<1>2. /\ r \in Calls /\ r.op \in {"InsertPlanningResult", "MergePlanningResult"}
      /\ r.findings \in Seq(Findings) /\ r.actions \in Seq(Actions)
      /\ n = Len(r.findings) /\ m = Len(r.actions)
  BY DEF Calls, Sized
<1>3. q.findings = r.findings /\ q.actions = r.actions
  <2>1. n + m \in 0..(n + m) /\ m \in 0..m
    BY <1>1
  <2>2. q.findings = r.findings /\ q.actions = Prefix(r.actions, m)
    BY <1>1, <2>1, UptoCalls
  <2>3. Prefix(r.actions, m) = r.actions
    BY <1>2, <2>1, PrefixElements
  <2> QED BY <2>2, <2>3
<1>4. q = r
  <2>1. r \in [op : {"InsertPlanningResult", "MergePlanningResult"}, run : Runs,
               session : Sessions, findings : Seq(Findings), actions : Seq(Actions)]
    BY <1>2 DEF Calls
  <2> QED BY <2>1, <1>3 DEF Upto
<1>5. Possible(q, d) /\ t = Stored(q, d)
  <2>1. r.op \in {"InsertPlanningResult", "MergePlanningResult"}
    BY <1>2
  <2>2. PlanReached(r, n + m, d, t)
    BY <2>1 DEF Reached, Planning
  <2> QED BY <2>2 DEF PlanReached
<1> QED BY <1>2, <1>4, <1>5 DEF Meaning

(* The statements of ReplaceReviewerCohort.                                 *)
LEMMA CohortStatements ==
  ASSUME NEW r \in Calls, r.op = "ReplaceReviewerCohort"
  PROVE  LET S == Statements(r)
         IN  /\ \E V : S \in Seq(V)
             /\ Len(S) = 2 + Len(r.agents)
             /\ S[1] = Statement("upsertCohort", None, None, r.adapter)
             /\ S[2] = Statement("clearMembers", None, None, 0)
             /\ \A k \in 1..Len(r.agents) : S[2 + k] = Statement("insertMember", r.agents[k], None, k)
<1> DEFINE F == <<Statement("upsertCohort", None, None, r.adapter), Statement("clearMembers", None, None, 0)>>
           A == InsertMembers(r.agents)
           V == {F[1], F[2]}
           W == {A[i] : i \in DOMAIN A}
<1>1. r.agents \in Seq(Agents)
  BY DEF Calls
<1>2. DOMAIN A = 1..Len(r.agents) /\ A = [i \in 1..Len(r.agents) |-> A[i]]
  BY <1>1 DEF InsertMembers
<1>3. \A k \in 1..Len(r.agents) : A[k] = Statement("insertMember", r.agents[k], None, k)
  BY <1>1 DEF InsertMembers
<1>4. A \in Seq(W) /\ Len(A) = Len(r.agents)
  <2>1. \A i \in 1..Len(r.agents) : A[i] \in W
    BY <1>2
  <2> HIDE DEF A, W
  <2>2. A \in [1..Len(r.agents) -> W]
    BY <1>2, <2>1
  <2> QED BY <1>1, <1>2, <2>2
<1>5. F \in Seq(V) /\ Len(F) = 2
  OBVIOUS
<1>6. Statements(r) = F \o A
  BY DEF Statements, ReplaceReviewerCohort
<1>7. F[1] = Statement("upsertCohort", None, None, r.adapter) /\ F[2] = Statement("clearMembers", None, None, 0)
  OBVIOUS
<1> HIDE DEF F, A, V, W
<1>8. /\ F \o A \in Seq(V \cup W) /\ Len(F \o A) = Len(F) + Len(A)
      /\ \A k \in 1..Len(F) : (F \o A)[k] = F[k]
      /\ \A k \in 1..Len(A) : (F \o A)[Len(F) + k] = A[k]
  <2>1. F \in Seq(V) /\ A \in Seq(W)
    BY <1>4, <1>5
  <2> QED BY ONLY <2>1, Concatenated
<1>9. (F \o A)[1] = F[1] /\ (F \o A)[2] = F[2]
  BY <1>5, <1>8
<1>10. /\ Len(F \o A) = 2 + Len(r.agents)
       /\ \A k \in 1..Len(r.agents) : (F \o A)[2 + k] = Statement("insertMember", r.agents[k], None, k)
  BY <1>3, <1>4, <1>5, <1>8
<1> QED
  BY <1>6, <1>7, <1>8, <1>9, <1>10

(* The position of a member is its place in the list. *)
LEMMA CohortMembers ==
  ASSUME NEW s \in Seq(Agents), IsInjective(s)
  PROVE  /\ \A i \in DOMAIN s : s[i] \in Agents /\ Cohort(s)[s[i]] = [position |-> i, session |-> 0]
         /\ \A g \in Agents \ Elements(s) : Cohort(s)[g] = None
         /\ DOMAIN Cohort(s) = Agents
<1>1. ASSUME NEW i \in DOMAIN s
      PROVE  s[i] \in Agents /\ Cohort(s)[s[i]] = [position |-> i, session |-> 0]
  <2>1. s[i] \in Agents /\ s[i] \in Elements(s)
    BY DEF Elements
  <2>2. (CHOOSE j \in DOMAIN s : s[j] = s[i]) = i
    BY DEF IsInjective
  <2> QED BY <2>1, <2>2 DEF Cohort
<1> QED
  BY <1>1 DEF Cohort

(* A cohort with one more member at its end.                                *)
LEMMA CohortGrows ==
  ASSUME NEW s \in Seq(Agents), NEW n \in Nat, NEW k \in 0..n, k < n, n = Len(s),
         IsInjective(Prefix(s, k)), s[k + 1] \notin Elements(Prefix(s, k))
  PROVE  /\ IsInjective(Prefix(s, k + 1)) /\ s[k + 1] \in Agents
         /\ Cohort(Prefix(s, k + 1)) =
              [Cohort(Prefix(s, k)) EXCEPT ![s[k + 1]] = [position |-> k + 1, session |-> 0]]
<1> DEFINE p == Prefix(s, k)
           q == Prefix(s, k + 1)
<1>1. k \in Nat /\ k + 1 \in Nat /\ k \in 0..n /\ k + 1 \in 0..n
  OBVIOUS
<1>2. p \in Seq(Agents) /\ q \in Seq(Agents)
  BY <1>1, PrefixElements
<1>3. DOMAIN p = 1..k /\ DOMAIN q = 1..(k + 1) /\ q[k + 1] = s[k + 1] /\ \A i \in 1..k : q[i] = p[i]
  BY <1>1 DEF Prefix
<1>4. s[k + 1] \in Agents
  BY <1>2, <1>3, <1>1
<1>5. \A i \in 1..k : p[i] # s[k + 1]
  BY <1>3 DEF Elements
<1>6. \A i \in 1..(k + 1) : i \in 1..k \/ i = k + 1
  BY <1>1
<1> HIDE DEF p, q
<1>7. IsInjective(q)
  BY <1>3, <1>5, <1>6 DEF IsInjective, p
<1>8. Elements(q) = Elements(p) \cup {s[k + 1]}
  BY <1>1, OneMoreElement DEF p, q
<1>9. Cohort(q)[s[k + 1]] = [position |-> k + 1, session |-> 0]
  BY <1>1, <1>2, <1>3, <1>7, CohortMembers
<1>10. ASSUME NEW g \in Agents, g # s[k + 1]
       PROVE  Cohort(q)[g] = Cohort(p)[g]
  <2>1. CASE g \in Elements(p)
    <3>1. PICK i \in 1..k : g = p[i]
      BY <2>1, <1>3 DEF Elements
    <3>2. i \in DOMAIN q /\ q[i] = g
      BY <3>1, <1>3, <1>1
    <3>3. Cohort(q)[g] = [position |-> i, session |-> 0]
      BY <3>2, <1>2, <1>7, CohortMembers
    <3>4. Cohort(p)[g] = [position |-> i, session |-> 0]
      BY <3>1, <1>2, <1>3, CohortMembers DEF p
    <3> QED BY <3>3, <3>4
  <2>2. CASE g \notin Elements(p)
    BY <2>2, <1>8, <1>10, <1>2, <1>7, CohortMembers DEF p
  <2> QED BY <2>1, <2>2
<1>11. Cohort(q) = [Cohort(p) EXCEPT ![s[k + 1]] = [position |-> k + 1, session |-> 0]]
  <2>1. Cohort(q) = [g \in Agents |-> Cohort(q)[g]] /\ Cohort(p) = [g \in Agents |-> Cohort(p)[g]]
    BY DEF Cohort
  <2> QED BY <2>1, <1>4, <1>9, <1>10
<1> QED BY <1>4, <1>7, <1>11 DEF p, q

(* The next statement of ReplaceReviewerCohort that is not refused.         *)
LEMMA CohortGoesOn ==
  ASSUME NEW d \in Tables, NEW r \in Calls, r.op = "ReplaceReviewerCohort",
         NEW n \in Nat, n = Len(r.agents), NEW k \in Nat, k < n + 2, NEW t, CohortReached(r, k, d, t),
         NEW s, s = Statements(r)[k + 1], ~Refused(s, t)
  PROVE  CohortReached(r, k + 1, d, After(s, t))
<1>1. r.agents \in Seq(Agents) /\ r.adapter \in Nat
  BY DEF Calls
<1>2. CASE k = 0
  <2>1. s = Statement("upsertCohort", None, None, r.adapter) /\ t = d
    <3>1. k + 1 = 1
      BY <1>2
    <3> QED BY <1>2, <3>1, CohortStatements DEF CohortReached
  <2>2. d.pr
    BY <2>1 DEF Refused, Constrained, Statement
  <2>3. After(s, t) = [d EXCEPT !.header = r.adapter]
    BY <2>1 DEF After, Statement
  <2>4. k + 1 = 1 /\ \A j \in Nat : k + 1 # j + 2
    BY <1>2
  <2> QED BY <2>2, <2>3, <2>4 DEF CohortReached
<1>3. CASE k = 1
  <2>1. s = Statement("clearMembers", None, None, 0) /\ t = [d EXCEPT !.header = r.adapter] /\ d.pr
    <3>1. k + 1 = 2 /\ k > 0
      BY <1>3
    <3> QED BY <1>3, <3>1, CohortStatements DEF CohortReached
  <2>2. After(s, t) = [t EXCEPT !.member = [g \in Agents |-> None]]
    BY <2>1 DEF After, Statement
  <2>3. Elements(Prefix(r.agents, 0)) = {} /\ IsInjective(Prefix(r.agents, 0))
    BY DEF Prefix, Elements, IsInjective
  <2>4. Cohort(Prefix(r.agents, 0)) = [g \in Agents |-> None]
    BY <2>3 DEF Cohort
  <2>5. After(s, t) = [d EXCEPT !.header = r.adapter, !.member = Cohort(Prefix(r.agents, 0))]
    BY <2>1, <2>2, <2>4 DEF Tables
  <2>6. k + 1 > 0 /\ k + 1 # 0 /\ k + 1 # 1 /\ \A j \in Nat : k + 1 = j + 2 => j = 0
    BY <1>3
  <2> QED BY <2>1, <2>3, <2>5, <2>6 DEF CohortReached
<1>4. CASE k > 1
  <2>1. PICK j \in Nat : k = j + 2
    <3>1. k - 2 \in Nat /\ k = (k - 2) + 2
      BY <1>4
    <3> QED BY <3>1
  <2>2. j < n /\ j \in 0..n /\ k + 1 > 1 /\ k + 1 # 1 /\ k + 1 # 0
        /\ j + 1 \in 1..n /\ k + 1 = 2 + (j + 1) /\ k > 0 /\ k + 1 > 0
        /\ \A i \in Nat : k + 1 = i + 2 => i = j + 1
    BY <2>1, <1>4
  <2>3. s = Statement("insertMember", r.agents[j + 1], None, j + 1)
    BY <2>2, CohortStatements
  <2>4. d.pr /\ IsInjective(Prefix(r.agents, j))
        /\ t = [d EXCEPT !.header = r.adapter, !.member = Cohort(Prefix(r.agents, j))]
    BY <2>1, <2>2 DEF CohortReached
  <2>5. t.member = Cohort(Prefix(r.agents, j))
    BY <2>4 DEF Tables
  <2>6. t.member[r.agents[j + 1]] = None
    BY <2>3 DEF Refused, Constrained, Statement
  <2>7. Prefix(r.agents, j) \in Seq(Agents)
    <3>1. j \in 0..Len(r.agents)
      BY <2>2
    <3> QED BY <1>1, <3>1, PrefixElements
  <2>8. r.agents[j + 1] \notin Elements(Prefix(r.agents, j))
    <3>1. \A i \in DOMAIN Prefix(r.agents, j) : t.member[Prefix(r.agents, j)[i]] = [position |-> i, session |-> 0]
      BY <2>4, <2>5, <2>7, CohortMembers
    <3>2. \A i \in DOMAIN Prefix(r.agents, j) : [position |-> i, session |-> 0] # None
      <4>1. \A i \in DOMAIN Prefix(r.agents, j) : i \in Nat
        BY <2>7
      <4> QED BY <4>1, LedgerAssumption
    <3> QED BY <3>1, <3>2, <2>6 DEF Elements
  <2>9. /\ IsInjective(Prefix(r.agents, j + 1))
        /\ Cohort(Prefix(r.agents, j + 1)) =
             [Cohort(Prefix(r.agents, j)) EXCEPT ![r.agents[j + 1]] = [position |-> j + 1, session |-> 0]]
    BY <1>1, <2>2, <2>4, <2>8, CohortGrows
  <2>10. After(s, t) = [t EXCEPT !.member = [t.member EXCEPT ![r.agents[j + 1]] = [position |-> j + 1, session |-> 0]]]
    BY <2>3 DEF After, Statement
  <2>11. After(s, t) = [d EXCEPT !.header = r.adapter, !.member = Cohort(Prefix(r.agents, j + 1))]
    BY <2>4, <2>5, <2>9, <2>10 DEF Tables
  <2> QED BY <2>2, <2>4, <2>9, <2>11 DEF CohortReached
<1> QED BY <1>2, <1>3, <1>4

(* All members are the cohort.                                              *)
LEMMA CohortEnds ==
  ASSUME NEW d \in Tables, NEW r \in Calls, r.op = "ReplaceReviewerCohort",
         NEW n \in Nat, n = Len(r.agents), NEW t, CohortReached(r, n + 2, d, t)
  PROVE  Possible(r, d) /\ t = Meaning(r, d)
<1>1. r.agents \in Seq(Agents)
  BY DEF Calls
<1>2. n + 2 > 0
  OBVIOUS
<1>3. d.pr /\ t = [d EXCEPT !.header = r.adapter, !.member = Cohort(Prefix(r.agents, n))]
  BY <1>2 DEF CohortReached
<1>4. Prefix(r.agents, n) = r.agents
  <2>1. n \in 0..n
    OBVIOUS
  <2> QED BY <1>1, <2>1, PrefixElements
<1> QED BY <1>3, <1>4 DEF Possible, Meaning

(* The calls of one statement, or of two of which the last decides. *)
LEMMA OneStatement ==
  ASSUME NEW r \in Calls, IsWrite(r), r.op \notin Planning \cup {"ReplaceReviewerCohort"},
         r.op \notin {"AllocateRun", "UpdateReviewerCohortSession"}
  PROVE  \E s : /\ Statements(r) = <<s>>
                /\ \A d : ~Refused(s, d) => Possible(r, d) /\ After(s, d) = Meaning(r, d)
<1>1. CASE r.op = "DeleteRun"
  <2> DEFINE s == Statement("deleteRun", r.run, None, 0)
  <2>1. Statements(r) = <<s>>
    BY <1>1 DEF Statements, DeleteRun
  <2>2. ASSUME NEW d, ~Refused(s, d) PROVE Possible(r, d)
    BY <1>1, <2>2 DEF Refused, Affectless, Possible, Statement
  <2>3. ASSUME NEW d PROVE After(s, d) = Meaning(r, d)
    BY <1>1 DEF After, Meaning, Statement
  <2> QED BY <2>1, <2>2, <2>3
<1>2. CASE r.op = "CompleteRun"
  <2> DEFINE s == Statement("completeRun", r.run, None, r.outcome)
  <2>1. Statements(r) = <<s>>
    BY <1>2 DEF Statements, CompleteRun
  <2>2. ASSUME NEW d, ~Refused(s, d) PROVE Possible(r, d)
    BY <1>2, <2>2 DEF Refused, Affectless, Possible, Statement
  <2>3. ASSUME NEW d PROVE After(s, d) = Meaning(r, d)
    BY <1>2 DEF After, Meaning, Statement
  <2> QED BY <2>1, <2>2, <2>3
<1>3. CASE r.op = "InsertSession"
  <2> DEFINE s == Statement("insertSession", r.session, r.run, 0)
  <2>1. Statements(r) = <<s>>
    BY <1>3 DEF Statements, InsertSession
  <2>2. ASSUME NEW d, ~Refused(s, d) PROVE Possible(r, d)
    BY <1>3, <2>2 DEF Refused, Constrained, Possible, Statement
  <2>3. ASSUME NEW d PROVE After(s, d) = Meaning(r, d)
    BY <1>3 DEF After, Meaning, Statement
  <2> QED BY <2>1, <2>2, <2>3
<1>4. CASE r.op = "UpdatePlannedAction"
  <2> DEFINE s == Statement("updateAction", r.action, r.run, r.status)
  <2>1. Statements(r) = <<s>>
    BY <1>4 DEF Statements, UpdatePlannedAction
  <2>2. ASSUME NEW d, ~Refused(s, d) PROVE Possible(r, d)
    BY <1>4, <2>2 DEF Refused, Affectless, Possible, Statement
  <2>3. ASSUME NEW d PROVE After(s, d) = Meaning(r, d)
    BY <1>4 DEF After, Meaning, Statement
  <2> QED BY <2>1, <2>2, <2>3
<1>5. CASE r.op = "UpsertNamedSession"
  <2> DEFINE s == Statement("upsertNamed", r.name, None, r.provider)
  <2>1. Statements(r) = <<s>>
    BY <1>5 DEF Statements, UpsertNamedSession
  <2>2. ASSUME NEW d, ~Refused(s, d) PROVE Possible(r, d)
    BY <1>5, <2>2 DEF Possible, Statement
  <2>3. ASSUME NEW d PROVE After(s, d) = Meaning(r, d)
    BY <1>5 DEF After, Meaning, Statement
  <2> QED BY <2>1, <2>2, <2>3
<1>6. CASE r.op = "DeleteNamedSession"
  <2> DEFINE s == Statement("deleteNamed", r.name, None, 0)
  <2>1. Statements(r) = <<s>>
    BY <1>6 DEF Statements, DeleteNamedSession
  <2>2. ASSUME NEW d, ~Refused(s, d) PROVE Possible(r, d)
    BY <1>6, <2>2 DEF Refused, Affectless, Possible, Statement
  <2>3. ASSUME NEW d PROVE After(s, d) = Meaning(r, d)
    BY <1>6 DEF After, Meaning, Statement
  <2> QED BY <2>1, <2>2, <2>3
<1>7. CASE r.op = "DeleteReviewerCohort"
  <2> DEFINE s == Statement("deleteCohort", None, None, 0)
  <2>1. Statements(r) = <<s>>
    BY <1>7 DEF Statements, DeleteReviewerCohort
  <2>2. ASSUME NEW d, ~Refused(s, d) PROVE Possible(r, d)
    BY <1>7, <2>2 DEF Possible, Statement
  <2>3. ASSUME NEW d PROVE After(s, d) = Meaning(r, d)
    BY <1>7 DEF After, Meaning, Statement
  <2> QED BY <2>1, <2>2, <2>3
<1> QED
  BY <1>1, <1>2, <1>3, <1>4, <1>5, <1>6, <1>7, CallParameters DEF Planning

(* How many statements the other calls have.                                *)
LEMMA RowStatements ==
  ASSUME NEW r \in Calls, IsWrite(r), r.op \notin Planning \cup {"ReplaceReviewerCohort"}
  PROVE  LET S == Statements(r)
         IN  /\ \E V : S \in Seq(V)
             /\ Len(S) = IF r.op \in {"AllocateRun", "UpdateReviewerCohortSession"} THEN 2 ELSE 1
<1>1. \A x, y : <<x, y>> \in Seq({x, y}) /\ Len(<<x, y>>) = 2
  OBVIOUS
<1>2. \A x : <<x>> \in Seq({x}) /\ Len(<<x>>) = 1
  OBVIOUS
<1>3. CASE r.op = "AllocateRun"
  BY <1>1, <1>3 DEF Statements, AllocateRun
<1>4. CASE r.op = "UpdateReviewerCohortSession"
  BY <1>1, <1>4 DEF Statements, UpdateReviewerCohortSession
<1>5. CASE r.op \notin {"AllocateRun", "UpdateReviewerCohortSession"}
  <2>1. \E x : Statements(r) = <<x>>
    BY <1>5, OneStatement
  <2> QED BY <1>2, <1>5, <2>1
<1> QED BY <1>3, <1>4, <1>5

(* The next statement of one of the other calls.                            *)
LEMMA RowGoesOn ==
  ASSUME NEW d \in Tables, NEW r \in Calls, IsWrite(r), r.op \notin Planning \cup {"ReplaceReviewerCohort"},
         NEW k \in Nat, k < Len(Statements(r)), NEW t, RowReached(r, k, d, t),
         NEW s, s = Statements(r)[k + 1], ~Refused(s, t)
  PROVE  RowReached(r, k + 1, d, After(s, t))
<1>0. k \in {0, 1}
  BY RowStatements
<1>1. CASE r.op = "AllocateRun"
  <2>1. CASE k = 0
    <3>1. s = Statement("upsertPR", None, None, 0) /\ t = d
      BY <1>1, <2>1 DEF Statements, AllocateRun, RowReached
    <3> QED BY <1>1, <2>1, <3>1 DEF After, Statement, RowReached
  <2>2. CASE k = 1
    <3>1. s = Statement("insertRun", r.run, None, 0) /\ t = [d EXCEPT !.pr = TRUE]
      BY <1>1, <2>2 DEF Statements, AllocateRun, RowReached
    <3>2. t.attempt = d.attempt /\ NextAttempt(t.attempt) = NextAttempt(d.attempt)
      BY <3>1 DEF Tables
    <3>3. After(s, t) = [t EXCEPT !.attempt = [t.attempt EXCEPT ![r.run] = NextAttempt(d.attempt)]]
      BY <3>1, <3>2 DEF After, Statement
    <3>4. After(s, t) = Meaning(r, d)
      BY <1>1, <3>1, <3>2, <3>3 DEF Meaning, Tables
    <3>5. Possible(r, d)
      BY <1>1, <3>1, <3>2 DEF Possible, Refused, Constrained, Statement
    <3> QED BY <2>2, <3>4, <3>5 DEF RowReached
  <2> QED BY <1>0, <2>1, <2>2
<1>2. CASE r.op = "UpdateReviewerCohortSession"
  <2>1. CASE k = 0
    <3>1. s = Statement("setMember", r.agent, None, r.provider) /\ t = d
      BY <1>2, <2>1 DEF Statements, UpdateReviewerCohortSession, RowReached
    <3>2. Possible(r, d)
      BY <1>2, <3>1 DEF Possible, Refused, Affectless, Statement
    <3>3. After(s, t) = Meaning(r, d)
      BY <1>2, <3>1 DEF Meaning, After, Statement
    <3> QED BY <1>2, <2>1, <3>2, <3>3 DEF RowReached
  <2>2. CASE k = 1
    <3>1. s = Statement("stampCohort", None, None, 0) /\ Possible(r, d) /\ t = Meaning(r, d)
      BY <1>2, <2>2 DEF Statements, UpdateReviewerCohortSession, RowReached
    <3>2. After(s, t) = t
      BY <3>1 DEF After, Statement
    <3> QED BY <2>2, <3>1, <3>2 DEF RowReached
  <2> QED BY <1>0, <2>1, <2>2
<1>3. CASE r.op \notin {"AllocateRun", "UpdateReviewerCohortSession"}
  <2>1. k = 0 /\ t = d /\ s = Statements(r)[1]
    BY <1>0, <1>3, RowStatements DEF RowReached
  <2>2. Possible(r, d) /\ After(s, t) = Meaning(r, d)
    BY <1>3, <2>1, OneStatement
  <2> QED BY <1>3, <2>1, <2>2 DEF RowReached
<1> QED BY <1>1, <1>2, <1>3

(* Every write has a list of statements.                                    *)
LEMMA AnyStatements ==
  ASSUME NEW r \in Calls, IsWrite(r)
  PROVE  \E V : Statements(r) \in Seq(V)
<1>1. CASE r.op \in Planning
  <2>1. PICK n, m : Sized(r, n, m)
    BY <1>1, PlanSized DEF Planning
  <2> QED BY <2>1, PlanStatements
<1>2. CASE r.op = "ReplaceReviewerCohort"
  BY <1>2, CohortStatements
<1>3. CASE r.op \notin Planning \cup {"ReplaceReviewerCohort"}
  BY <1>3, RowStatements
<1> QED BY <1>1, <1>2, <1>3

(* No statement has changed nothing, the next one goes on from what the ones *)
(* before it have reached, and all of them do what the method means.        *)
LEMMA ReachedAtFirst ==
  ASSUME NEW d \in Tables, NEW r \in Calls, IsWrite(r)
  PROVE  Reached(r, 0, d, d)
<1>1. CASE r.op \in Planning
  BY <1>1, PlanBegins DEF Planning
<1>2. CASE r.op = "ReplaceReviewerCohort"
  <2>1. ASSUME NEW j \in Nat, 0 = j + 2 PROVE FALSE
    BY <2>1
  <2>2. /\ 0 > 0 => d.pr
        /\ 0 = 1 => d = [d EXCEPT !.header = r.adapter]
    OBVIOUS
  <2>3. CohortReached(r, 0, d, d)
    <3> SUFFICES \A j \in Nat : 0 = j + 2 =>
                   /\ IsInjective(Prefix(r.agents, j))
                   /\ d = [d EXCEPT !.header = r.adapter, !.member = Cohort(Prefix(r.agents, j))]
      BY <2>2 DEF CohortReached
    <3> QED BY <2>1
  <2> QED BY <1>2, <2>3 DEF Reached, Planning
<1>3. CASE r.op \notin Planning \cup {"ReplaceReviewerCohort"}
  <2>1. RowReached(r, 0, d, d)
    BY DEF RowReached
  <2> QED BY <1>3, <2>1 DEF Reached
<1> QED BY <1>1, <1>2, <1>3

LEMMA ReachedNext ==
  ASSUME NEW d \in Tables, NEW r \in Calls, IsWrite(r), NEW t,
         NEW k \in Nat, k < Len(Statements(r)), Reached(r, k, d, t),
         NEW s, s = Statements(r)[k + 1], ~Refused(s, t)
  PROVE  Reached(r, k + 1, d, After(s, t))
<1>1. CASE r.op \in Planning
  <2>1. PICK n, m : Sized(r, n, m)
    BY <1>1, PlanSized DEF Planning
  <2>2. Len(Statements(r)) = n + m /\ n \in Nat /\ m \in Nat
    <3>1. Len(Statements(r)) = n + m
      BY <2>1, PlanStatements
    <3>2. n \in Nat /\ m \in Nat
      BY <2>1 DEF Sized
    <3> QED BY <3>1, <3>2
  <2>3. k \in 0..(n + m) /\ k < n + m
    BY <2>2
  <2> QED BY <2>1, <2>3, PlanGoesOn
<1>2. CASE r.op = "ReplaceReviewerCohort"
  <2>1. r.agents \in Seq(Agents)
    BY <1>2 DEF Calls
  <2>2. PICK n \in Nat : n = Len(r.agents)
    BY <2>1
  <2>3. k < n + 2
    BY <1>2, <2>2, CohortStatements
  <2>4. CohortReached(r, k, d, t)
    BY <1>2 DEF Reached
  <2>5. CohortReached(r, k + 1, d, After(s, t))
    BY <1>2, <2>2, <2>3, <2>4, CohortGoesOn
  <2> QED BY <1>2, <2>5 DEF Reached, Planning
<1>3. CASE r.op \notin Planning \cup {"ReplaceReviewerCohort"}
  <2>1. RowReached(r, k, d, t)
    BY <1>3 DEF Reached
  <2>2. RowReached(r, k + 1, d, After(s, t))
    BY <1>3, <2>1, RowGoesOn
  <2> QED BY <1>3, <2>2 DEF Reached
<1> QED BY <1>1, <1>2, <1>3

LEMMA ReachedAtLast ==
  ASSUME NEW d \in Tables, NEW r \in Calls, IsWrite(r), NEW t, NEW k,
         k = Len(Statements(r)), Reached(r, k, d, t)
  PROVE  Possible(r, d) /\ t = Meaning(r, d)
<1>1. CASE r.op \in Planning
  <2>1. PICK n, m : Sized(r, n, m)
    BY <1>1, PlanSized DEF Planning
  <2>2. k = n + m
    BY <2>1, PlanStatements
  <2> QED BY <2>1, <2>2, PlanEnds
<1>2. CASE r.op = "ReplaceReviewerCohort"
  <2>1. r.agents \in Seq(Agents)
    BY <1>2 DEF Calls
  <2>2. PICK n \in Nat : n = Len(r.agents)
    BY <2>1
  <2>3. k = n + 2
    BY <1>2, <2>2, CohortStatements
  <2>4. CohortReached(r, n + 2, d, t)
    BY <1>2, <2>3 DEF Reached
  <2> QED BY <1>2, <2>2, <2>4, CohortEnds
<1>3. CASE r.op \notin Planning \cup {"ReplaceReviewerCohort"}
  BY <1>3, RowStatements DEF Reached, RowReached
<1> QED BY <1>1, <1>2, <1>3

(* The same, of what is left to run: Begin, Execute and Commit of the writer. *)
LEMMA HalfwayBegins ==
  ASSUME NEW d \in Tables, NEW r \in Calls, IsWrite(r)
  PROVE  Halfway(r, d, d, Statements(r))
<1>1. PICK V : Statements(r) \in Seq(V)
  BY AnyStatements
<1>2. 0 \in 0..Len(Statements(r)) /\ Suffix(Statements(r), 0) = Statements(r)
  BY <1>1, SuffixSteps
<1> QED BY <1>2, ReachedAtFirst DEF Halfway

LEMMA HalfwayGoesOn ==
  ASSUME NEW d \in Tables, NEW r \in Calls, IsWrite(r), NEW t, NEW left,
         Halfway(r, d, t, left), left # <<>>, ~Refused(Head(left), t)
  PROVE  Halfway(r, d, After(Head(left), t), Tail(left))
<1> DEFINE S == Statements(r)
<1>1. PICK V : S \in Seq(V)
  BY AnyStatements
<1>2. PICK k \in 0..Len(S) : left = Suffix(S, k) /\ Reached(r, k, d, t)
  BY DEF Halfway
<1>3. k < Len(S) /\ Head(left) = S[k + 1] /\ Tail(left) = Suffix(S, k + 1)
  BY <1>1, <1>2, SuffixSteps
<1>4. k \in Nat /\ k + 1 \in 0..Len(S)
  BY <1>1, <1>3
<1>5. Reached(r, k + 1, d, After(Head(left), t))
  BY <1>2, <1>3, <1>4, ReachedNext
<1> QED BY <1>3, <1>4, <1>5 DEF Halfway

LEMMA HalfwayEnds ==
  ASSUME NEW d \in Tables, NEW r \in Calls, IsWrite(r), NEW t, Halfway(r, d, t, <<>>)
  PROVE  Possible(r, d) /\ t = Meaning(r, d)
<1>1. PICK V : Statements(r) \in Seq(V)
  BY AnyStatements
<1>2. PICK k \in 0..Len(Statements(r)) : <<>> = Suffix(Statements(r), k) /\ Reached(r, k, d, t)
  BY DEF Halfway
<1>3. k = Len(Statements(r))
  BY <1>1, <1>2, SuffixSteps
<1> QED BY <1>2, <1>3, ReachedAtLast

-----------------------------------------------------------------------------
(* The mutex, the queue and Close.                                          *)

(* The writer owes the caller a result, or has given it.                    *)
Waiting(c) == answer[c] # None \/ serving = c \/ c \in Elements(queue)

(* The mutex is a sender's, and the sealed queue is behind it. *)
Locked ==
  /\ mutex \in Callers \cup {None}
  /\ \A c \in Callers : pc[c] = "send" <=> mutex = c
  /\ closed = sealed
  /\ closed => mutex = None

(* Where an accepted write is. *)
Accepted ==
  /\ queue \in Seq(Callers)
  /\ serving \in Callers \cup {None}
  /\ \A c \in Callers : pc[c] = "wait" => Waiting(c)
  /\ serving # None => writer \in {"begin", "execute", "reply"}
  /\ writer = "reply" => result # None
  /\ writer \in {"receive", "begin", "reply", "done"} => txn = None

(* What Close waits for. *)
Closing ==
  /\ \A c \in Callers : pc[c] \in {"drain", "shut", "note"} => sealed
  /\ \A c \in Callers : pc[c] \in {"shut", "note"} => writer = "done"
  /\ ~open => writer = "done"
  /\ writer = "done" => sealed /\ queue = <<>> /\ serving = None

(* What is true of the mutex, the queue and Close in every reachable state. *)
IInv ==
  /\ pc \in [Callers -> Labels] /\ DOMAIN answer = Callers
  /\ Locked /\ Accepted /\ Closing

-----------------------------------------------------------------------------
(* Sending adds the sender to the queue, receiving takes its head off.      *)
LEMMA ElementsOfAppend ==
  ASSUME NEW s \in Seq(Callers), NEW c \in Callers
  PROVE  Append(s, c) \in Seq(Callers) /\ Elements(Append(s, c)) = Elements(s) \cup {c}
<1>1. Append(s, c) \in Seq(Callers)
  OBVIOUS
<1>2. Len(s) + 1 \in DOMAIN Append(s, c) /\ Append(s, c)[Len(s) + 1] = c
  OBVIOUS
<1>3. \A i \in DOMAIN s : i \in DOMAIN Append(s, c) /\ Append(s, c)[i] = s[i]
  OBVIOUS
<1>4. \A i \in DOMAIN Append(s, c) : i \in DOMAIN s \/ i = Len(s) + 1
  OBVIOUS
<1> QED
  BY <1>1, <1>2, <1>3, <1>4 DEF Elements

LEMMA ElementsOfTail ==
  ASSUME NEW s \in Seq(Callers), s # <<>>
  PROVE  /\ Tail(s) \in Seq(Callers) /\ Head(s) \in Callers
         /\ Elements(s) \subseteq Elements(Tail(s)) \cup {Head(s)}
<1>1. Tail(s) \in Seq(Callers) /\ Head(s) \in Callers
  OBVIOUS
<1>2. ASSUME NEW i \in DOMAIN s
      PROVE  s[i] \in Elements(Tail(s)) \cup {Head(s)}
  <2>1. CASE i = 1
    BY <2>1
  <2>2. CASE i # 1
    <3>1. i - 1 \in DOMAIN Tail(s) /\ Tail(s)[i - 1] = s[i]
      BY <2>2
    <3> QED BY <3>1 DEF Elements
  <2> QED BY <2>1, <2>2
<1> QED
  BY <1>1, <1>2 DEF Elements

(* An empty queue holds nobody.                                             *)
LEMMA NothingQueued == Elements(<<>>) = {}
  BY DEF Elements

(* Open leaves a store that nobody uses. *)
LEMMA InitInv == ASSUME Init PROVE IInv
<1>1. pc \in [Callers -> Labels] /\ DOMAIN answer = Callers
  BY DEF Init, Labels
<1>2. Locked
  BY StoreAssumption DEF Init, Locked
<1>3. Accepted
  BY DEF Init, Accepted
<1>4. Closing
  BY DEF Init, Closing
<1> QED BY <1>1, <1>2, <1>3, <1>4 DEF IInv

(* A crash forgets all of it.                                               *)
LEMMA CrashInv == ASSUME Crash PROVE IInv'
<1>1. (pc \in [Callers -> Labels] /\ DOMAIN answer = Callers)'
  BY DEF Crash, Started, Labels
<1>2. Locked'
  BY StoreAssumption DEF Crash, Started, Locked
<1>3. Accepted'
  BY DEF Crash, Started, Accepted
<1>4. Closing'
  BY DEF Crash, Started, Closing
<1> QED BY <1>1, <1>2, <1>3, <1>4 DEF IInv

-----------------------------------------------------------------------------
(* The steps of a caller keep the invariant.                               *)
LEMMA CallInv ==
  ASSUME IInv, NEW c \in Callers, NEW r \in Requests[c], Call(c, r)
  PROVE  IInv'
  BY StoreAssumption
  DEF Call, IInv, Locked, Accepted, Closing, Waiting, Labels, Go, store, writing

(* A step that only answers a caller that is not waiting for the writer. *)
LEMMA AnswerInv ==
  ASSUME IInv, NEW c \in Callers, NEW v,
         pc[c] \in {"lock", "query", "members", "return"},
         answer' = [answer EXCEPT ![c] = v],
         NEW label \in {"return", "idle"}, pc' = [pc EXCEPT ![c] = label],
         UNCHANGED <<store, writing>>
  PROVE  IInv'
  BY StoreAssumption
  DEF IInv, Locked, Accepted, Closing, Waiting, Labels, store, writing

(* A step that only takes such a caller on.                                 *)
LEMMA MoveInv ==
  ASSUME IInv, NEW c \in Callers, pc[c] \in {"lock", "query"},
         NEW label \in {"query", "members"}, pc' = [pc EXCEPT ![c] = label],
         UNCHANGED <<store, writing, answer>>
  PROVE  IInv'
  BY StoreAssumption
  DEF IInv, Locked, Accepted, Closing, Waiting, Labels, store, writing

(* Every step of a caller.                                                  *)
LEMMA CallerInv ==
  ASSUME IInv, NEW c \in Callers, CallerStep(c)
  PROVE  IInv'
<1> USE StoreAssumption
<1>1. CASE RejectInput(c) \/ MeetClosed(c) \/ Query(c) \/ QueryMembers(c)
           \/ QueryFails(c) \/ CloseAgain(c) \/ Return(c)
  BY <1>1, AnswerInv
  DEF RejectInput, MeetClosed, Query, QueryMembers, QueryFails, CloseAgain, Return, Answer, Go
<1>2. CASE CheckOpen(c) \/ QueryHeader(c)
  BY <1>2, MoveInv DEF CheckOpen, QueryHeader, Go
<1>3. CASE LockToSend(c)
  BY <1>3
  DEF LockToSend, IInv, Locked, Accepted, Closing, Waiting, Labels, Go, writing
<1>4. CASE Send(c)
  <2>1. Elements(queue') = Elements(queue) \cup {c} /\ queue' \in Seq(Callers)
    BY <1>4, ElementsOfAppend DEF Send, IInv, Accepted
  <2>2. writer # "done"
    BY <1>4 DEF Send, IInv, Locked, Closing
  <2> QED
    BY <1>4, <2>1, <2>2
    DEF Send, IInv, Locked, Accepted, Closing, Waiting, Labels, Go, writing
<1>5. CASE SendCancelled(c)
  BY <1>5
  DEF SendCancelled, IInv, Locked, Accepted, Closing, Waiting, Labels, Go, Answer, writing
<1>6. CASE Receive(c)
  BY <1>6
  DEF Receive, IInv, Locked, Accepted, Closing, Waiting, Labels, Go, store, writing
<1>7. CASE CloseFirst(c)
  BY <1>7
  DEF CloseFirst, IInv, Locked, Accepted, Closing, Waiting, Labels, Go, writing
<1>8. CASE Drain(c)
  BY <1>8
  DEF Drain, IInv, Locked, Accepted, Closing, Waiting, Labels, Go, store, writing
<1>9. CASE Shut(c)
  BY <1>9
  DEF Shut, IInv, Locked, Accepted, Closing, Waiting, Labels, Go, writing
<1>10. CASE Note(c)
  BY <1>10
  DEF Note, IInv, Locked, Accepted, Closing, Waiting, Labels, Go, Answer, store, writing
<1> QED
  BY <1>1, <1>2, <1>3, <1>4, <1>5, <1>6, <1>7, <1>8, <1>9, <1>10 DEF CallerStep

-----------------------------------------------------------------------------
(* The steps of the writer keep the invariant. *)
LEMMA RollbackInv ==
  ASSUME IInv, writer \in {"begin", "execute"}, Rollback
  PROVE  IInv'
  BY StoreAssumption DEF Rollback, IInv, Locked, Accepted, Closing, Waiting, Labels, callers, store

(* Every step of the writer.                                                *)
LEMMA WriterInv ==
  ASSUME IInv, WriterStep
  PROVE  IInv'
<1>1. CASE TakeRequest
  <2>1. /\ queue' \in Seq(Callers) /\ serving' \in Callers
        /\ Elements(queue) \subseteq Elements(queue') \cup {serving'}
    BY <1>1, ElementsOfTail DEF TakeRequest, IInv, Accepted
  <2>2. serving = None
    BY <1>1 DEF TakeRequest, IInv, Accepted
  <2>3. \A d \in Callers : Waiting(d) => Waiting(d)'
    BY <1>1, <2>1, <2>2, StoreAssumption DEF TakeRequest, callers, Waiting
  <2> QED
    BY <1>1, <2>1, <2>3
    DEF TakeRequest, IInv, Locked, Accepted, Closing, callers
<1>2. CASE WriterEnds
  BY <1>2, NothingQueued
  DEF WriterEnds, IInv, Locked, Accepted, Closing, Waiting, callers, store
<1>3. CASE Begin
  BY <1>3 DEF Begin, IInv, Locked, Accepted, Closing, Waiting, callers, store
<1>4. CASE Execute
  BY <1>4 DEF Execute, IInv, Locked, Accepted, Closing, Waiting, callers, store
<1>5. CASE Refuse \/ AbandonTxn
  BY <1>5, RollbackInv DEF Refuse, AbandonTxn
<1>6. CASE Commit
  BY <1>6, StoreAssumption DEF Commit, IInv, Locked, Accepted, Closing, Waiting, callers, store
<1>7. CASE Reply
  BY <1>7 DEF Reply, IInv, Locked, Accepted, Closing, Waiting, Answer, store
<1> QED
  BY <1>1, <1>2, <1>3, <1>4, <1>5, <1>6, <1>7 DEF WriterStep

(* Every step keeps the invariant.                                          *)
LEMMA NextInv == ASSUME IInv, [Next]_vars PROVE IInv'
<1>1. CASE StatementFails
  BY <1>1, RollbackInv DEF StatementFails
<1>2. ASSUME NEW c \in Callers, Cancel(c) PROVE IInv'
  BY <1>2 DEF Cancel, IInv, Locked, Accepted, Closing, Waiting, store, writing
<1>3. CASE UNCHANGED vars
  BY <1>3 DEF vars, callers, store, writing, IInv, Locked, Accepted, Closing, Waiting
<1> QED
  BY <1>1, <1>2, <1>3, CrashInv, WriterInv, CallerInv, CallInv DEF Next

-----------------------------------------------------------------------------
(* The invariant of the mutex, the queue and Close holds in every state.    *)
THEOREM Inductive == Spec => []IInv
  BY InitInv, NextInv, PTL DEF Spec

(* Nobody sends on the closed channel, however Close and the writes of any  *)
(* number of goroutines interleave (write, Close).                          *)
THEOREM SenderIsSafe == Spec => []NoPanic
<1>1. ASSUME IInv PROVE NoPanic
  BY <1>1, StoreAssumption DEF IInv, Locked, NoPanic
<1> QED
  BY <1>1, Inductive, PTL

(* Close leaves no accepted write behind without its result (Close, writer). *)
THEOREM CloseDrains == Spec => []DrainedBeforeShut
<1>1. ASSUME IInv PROVE DrainedBeforeShut
  BY <1>1, NothingQueued, StoreAssumption
  DEF IInv, Accepted, Closing, Waiting, DrainedBeforeShut
<1> QED
  BY <1>1, Inductive, PTL

-----------------------------------------------------------------------------
(* The writes: who waits for which, and how far the writer has got.         *)

(* Who has which call, and what it is answered. *)
Handed ==
  /\ \A c \in Callers : answer[c] # None => pc[c] \in {"wait", "return"}
  /\ \A c \in Elements(queue) : pc[c] = "wait" /\ answer[c] = None /\ c # serving
  /\ IsInjective(queue)
  /\ serving # None => pc[serving] = "wait" /\ answer[serving] = None
  /\ writer \in {"begin", "execute", "reply"} => serving # None
  /\ result # None => writer = "reply" /\ result \in {Ok, Error}

(* What a caller has asked for.                                             *)
Asked ==
  /\ DOMAIN req = Callers /\ DOMAIN seen = Callers
  /\ \A c \in Callers : pc[c] # "idle" => req[c] \in Requests[c]
  /\ \A c \in Callers : pc[c] \in {"send", "wait"} => IsWrite(req[c])
  /\ \A c \in Callers : pc[c] = "members" => req[c].op = "GetReviewerCohort"
  /\ \A c \in Callers : pc[c] \in {"drain", "shut", "note"} => IsClose(req[c])

(* How far the writer has got with the call it serves. *)
Working ==
  /\ db \in Tables /\ RowsFit(db)
  /\ writer = "execute" => Halfway(req[serving], db, txn, todo)

(* The invariant of the writes.                                             *)
WInv == Handed /\ Asked /\ Working

(* It holds at first and after a crash.                                     *)
LEMMA InitW == ASSUME Init PROVE WInv
<1>1. Handed
  BY NothingQueued DEF Init, Handed, IsInjective
<1>2. Asked
  BY DEF Init, Asked
<1>3. Working
  BY LedgerAssumption DEF Init, Working
<1> QED BY <1>1, <1>2, <1>3 DEF WInv

LEMMA CrashW == ASSUME WInv, Crash PROVE WInv'
<1>1. Handed'
  BY NothingQueued DEF Crash, Started, Handed, IsInjective
<1>2. Asked'
  BY DEF Crash, Started, Asked
<1>3. Working'
  BY DEF Crash, Started, WInv, Working
<1> QED BY <1>1, <1>2, <1>3 DEF WInv

(* What the writer works on is not a caller's to change. *)
LEMMA WorkingKept ==
  ASSUME IInv, WInv, UNCHANGED <<db, writing>>,
         serving # None => req'[serving] = req[serving]
  PROVE  Working'
<1>1. writer = "execute" => serving # None
  BY DEF WInv, Handed
<1> QED BY <1>1 DEF WInv, Working, writing

(* A new call disturbs nobody.                                              *)
LEMMA CallW ==
  ASSUME IInv, WInv, NEW c \in Callers, NEW r \in Requests[c], Call(c, r)
  PROVE  WInv'
<1>1. c # serving /\ c \notin Elements(queue)
  BY StoreAssumption DEF Call, WInv, Handed
<1>2. Handed'
  BY <1>1, StoreAssumption DEF Call, IInv, WInv, Handed, Labels, Go, store, writing
<1>3. Asked'
  BY StoreAssumption DEF Call, IInv, WInv, Asked, Labels, Go, store, writing
<1>4. Working'
  BY <1>1, WorkingKept DEF Call, WInv, Asked, IInv, Accepted
<1> QED BY <1>2, <1>3, <1>4 DEF WInv

(* A caller that the writer knows nothing of goes on. *)
LEMMA StepW ==
  ASSUME IInv, WInv, NEW c \in Callers, pc[c] # "wait",
         NEW label \in Labels \ {"idle", "wait"}, pc' = [pc EXCEPT ![c] = label],
         label \in {"send"} => IsWrite(req[c]),
         label = "members" => req[c].op = "GetReviewerCohort",
         label \in {"drain", "shut", "note"} => IsClose(req[c]),
         pc[c] # "idle",
         answer'[c] # None => label = "return",
         \A d \in Callers \ {c} : answer'[d] = answer[d],
         DOMAIN seen' = Callers,
         UNCHANGED <<db, queue, req, writing>>
  PROVE  WInv'
<1>1. c # serving /\ c \notin Elements(queue)
  BY StoreAssumption DEF WInv, Handed
<1>2. Handed'
  <2>1. \A d \in Callers : answer'[d] # None => pc'[d] \in {"wait", "return"}
    BY DEF IInv, WInv, Handed
  <2>2. \A d \in Elements(queue) : d \in Callers
    BY DEF IInv, Accepted, Elements
  <2> QED BY <1>1, <2>1, <2>2 DEF IInv, Accepted, WInv, Handed, writing
<1>3. Asked'
  BY DEF IInv, WInv, Asked, Labels
<1>4. Working'
  BY WorkingKept
<1> QED BY <1>2, <1>3, <1>4 DEF WInv

(* The steps of a caller keep it.                                           *)
LEMMA CallerW ==
  ASSUME IInv, WInv, NEW c \in Callers, CallerStep(c)
  PROVE  WInv'
<1> USE StoreAssumption
<1>1. CASE RejectInput(c) \/ MeetClosed(c) \/ Query(c) \/ QueryMembers(c) \/ QueryFails(c) \/ CloseAgain(c)
  <2>1. \A d \in Callers \ {c} : answer'[d] = answer[d]
    BY <1>1 DEF RejectInput, MeetClosed, Query, QueryMembers, QueryFails, CloseAgain, Answer, IInv
  <2>2. /\ pc[c] \notin {"wait", "idle"} /\ pc' = [pc EXCEPT ![c] = "return"]
        /\ UNCHANGED <<db, queue, req, seen, writing>>
    BY <1>1 DEF RejectInput, MeetClosed, Query, QueryMembers, QueryFails, CloseAgain, Go, store
  <2>3. "return" \in Labels \ {"idle", "wait"} /\ DOMAIN seen' = Callers
    BY <2>2 DEF Labels, WInv, Asked
  <2> QED BY <2>1, <2>2, <2>3, StepW
<1>2. CASE LockToSend(c) \/ CheckOpen(c) \/ QueryHeader(c) \/ CloseFirst(c) \/ Drain(c) \/ Shut(c)
  <2>1. /\ pc[c] \notin {"wait", "idle"}
        /\ \E label \in {"send", "query", "members", "drain", "shut", "note"} :
              /\ pc' = [pc EXCEPT ![c] = label]
              /\ label = "send" => IsWrite(req[c])
              /\ label = "members" => req[c].op = "GetReviewerCohort"
              /\ label \in {"drain", "shut", "note"} => IsClose(req[c])
        /\ UNCHANGED <<db, queue, req, answer, writing>>
        /\ DOMAIN seen' = Callers
    BY <1>2 DEF LockToSend, CheckOpen, QueryHeader, CloseFirst, Drain, Shut, Go, store, WInv, Asked
  <2>3. pc[c] \notin {"wait", "return"}
    BY <1>2 DEF LockToSend, CheckOpen, QueryHeader, CloseFirst, Drain, Shut
  <2>2. answer'[c] = None /\ \A d \in Callers \ {c} : answer'[d] = answer[d]
    BY <2>1, <2>3 DEF WInv, Handed
  <2> QED BY <2>1, <2>2, StepW DEF Labels
<1>3. CASE Send(c)
  <2>1. c # serving /\ c \notin Elements(queue) /\ IsWrite(req[c]) /\ answer[c] = None
    BY <1>3 DEF Send, WInv, Handed, Asked
  <2>2. /\ Elements(queue') = Elements(queue) \cup {c} /\ queue \in Seq(Callers)
        /\ queue' = Append(queue, c)
    BY <1>3, ElementsOfAppend DEF Send, IInv, Accepted
  <2>3. IsInjective(queue')
    BY <2>1, <2>2 DEF WInv, Handed, IsInjective, Elements
  <2>4. Handed'
    BY <1>3, <2>1, <2>2, <2>3 DEF Send, IInv, WInv, Handed, Go, writing
  <2>5. Asked'
    BY <1>3, <2>1 DEF Send, IInv, WInv, Asked, Go
  <2>6. Working'
    BY <1>3, WorkingKept DEF Send
  <2> QED BY <2>4, <2>5, <2>6 DEF WInv
<1>4. CASE SendCancelled(c)
  <2>1. /\ pc[c] \notin {"wait", "idle"} /\ pc' = [pc EXCEPT ![c] = "return"]
        /\ \A d \in Callers \ {c} : answer'[d] = answer[d]
        /\ UNCHANGED <<db, queue, req, seen, writing>>
    BY <1>4 DEF SendCancelled, Go, Answer, IInv
  <2>2. "return" \in Labels \ {"idle", "wait"} /\ DOMAIN seen' = Callers
    BY <2>1 DEF Labels, WInv, Asked
  <2> QED BY <2>1, <2>2, StepW
<1>5. CASE Receive(c)
  <2>1. c # serving /\ c \notin Elements(queue)
    BY <1>5 DEF Receive, WInv, Handed
  <2>2. Handed'
    BY <1>5, <2>1 DEF Receive, IInv, WInv, Handed, Go, store, writing
  <2>3. Asked'
    BY <1>5 DEF Receive, IInv, WInv, Asked, Go
  <2>4. Working'
    BY <1>5, WorkingKept DEF Receive
  <2> QED BY <2>2, <2>3, <2>4 DEF WInv
<1>6. CASE Note(c)
  <2>1. /\ pc[c] \notin {"wait", "idle"} /\ pc' = [pc EXCEPT ![c] = "return"]
        /\ \A d \in Callers \ {c} : answer'[d] = answer[d]
        /\ UNCHANGED <<db, queue, req, seen, writing>>
    BY <1>6 DEF Note, Go, Answer, store, IInv
  <2>2. "return" \in Labels \ {"idle", "wait"} /\ DOMAIN seen' = Callers
    BY <2>1 DEF Labels, WInv, Asked
  <2> QED BY <2>1, <2>2, StepW
<1>7. CASE Return(c)
  <2>1. c # serving /\ c \notin Elements(queue)
    BY <1>7 DEF Return, WInv, Handed
  <2>2. Handed'
    BY <1>7, <2>1 DEF Return, IInv, WInv, Handed, Go, Answer, store, writing
  <2>3. Asked'
    BY <1>7 DEF Return, IInv, WInv, Asked, Go
  <2>4. Working'
    BY <1>7, <2>1, WorkingKept DEF Return, WInv, Asked, IInv, Accepted
  <2> QED BY <2>2, <2>3, <2>4 DEF WInv
<1> QED
  BY <1>1, <1>2, <1>3, <1>4, <1>5, <1>6, <1>7 DEF CallerStep

(* A transaction that is given up leaves the rows as they were.             *)
LEMMA RollbackW ==
  ASSUME IInv, WInv, writer \in {"begin", "execute"}, Rollback, UNCHANGED db
  PROVE  WInv'
<1>1. Handed'
  BY StoreAssumption DEF WInv, Handed, Rollback, callers, store
<1>2. Asked'
  BY DEF WInv, Asked, Rollback, callers
<1>3. Working'
  BY DEF WInv, Working, Rollback
<1> QED BY <1>1, <1>2, <1>3 DEF WInv

(* What the writer serves is a write. *)
LEMMA Serves ==
  ASSUME IInv, WInv, serving # None
  PROVE  /\ serving \in Callers /\ pc[serving] = "wait" /\ answer[serving] = None
         /\ req[serving] \in Calls /\ req[serving] \in Requests[serving] /\ IsWrite(req[serving])
  BY StoreAssumption DEF IInv, Accepted, WInv, Handed, Asked

(* What the writer commits is what the method means, and it may take effect: *)
(* no other write has come between its BEGIN and its COMMIT.                *)
LEMMA Commits ==
  ASSUME IInv, WInv, Commit
  PROVE  Possible(req[serving], db) /\ db' = Meaning(req[serving], db)
<1>1. serving # None /\ Halfway(req[serving], db, txn, <<>>)
  BY DEF Commit, WInv, Handed, Working
<1> QED BY <1>1, Serves, HalfwayEnds DEF Commit, WInv, Working

(* The steps of the writer keep it.                                         *)
LEMMA WriterW ==
  ASSUME IInv, WInv, WriterStep
  PROVE  WInv'
<1> USE StoreAssumption
<1>1. CASE TakeRequest
  <2>1. /\ queue \in Seq(Callers) /\ queue # <<>>
        /\ serving' = Head(queue) /\ queue' = Tail(queue) /\ serving = None
    BY <1>1 DEF TakeRequest, IInv, Accepted
  <2>2. /\ Elements(queue') \subseteq Elements(queue) /\ serving' \in Elements(queue)
        /\ serving' \notin Elements(queue') /\ IsInjective(queue')
    <3>1. \A i \in DOMAIN queue' : i \in Nat /\ i + 1 \in DOMAIN queue /\ queue'[i] = queue[i + 1]
      BY <2>1
    <3>2. serving' = queue[1] /\ 1 \in DOMAIN queue
      BY <2>1
    <3>3. \A i, j \in DOMAIN queue : queue[i] = queue[j] => i = j
      BY DEF WInv, Handed, IsInjective
    <3>4. \A i \in DOMAIN queue' : queue'[i] # serving'
      <4> SUFFICES ASSUME NEW i \in DOMAIN queue', queue'[i] = serving' PROVE FALSE
        OBVIOUS
      <4>1. i \in Nat /\ i + 1 \in DOMAIN queue /\ queue[i + 1] = queue[1]
        BY <3>1, <3>2
      <4>2. i + 1 = 1
        BY <4>1, <3>2, <3>3
      <4>3. i >= 1
        BY <2>1
      <4> QED BY <4>1, <4>2, <4>3
    <3>5. IsInjective(queue')
      <4> SUFFICES ASSUME NEW i \in DOMAIN queue', NEW j \in DOMAIN queue', queue'[i] = queue'[j] PROVE i = j
        BY DEF IsInjective
      <4>1. i + 1 = j + 1
        BY <3>1, <3>3
      <4> QED BY <4>1, <3>1
    <3> QED BY <3>1, <3>2, <3>4, <3>5 DEF Elements
  <2>3. Handed'
    BY <1>1, <2>1, <2>2 DEF TakeRequest, WInv, Handed, callers
  <2>4. Asked'
    BY <1>1 DEF TakeRequest, WInv, Asked, callers
  <2>5. Working'
    BY <1>1 DEF TakeRequest, WInv, Working
  <2> QED BY <2>3, <2>4, <2>5 DEF WInv
<1>2. CASE WriterEnds
  BY <1>2 DEF WriterEnds, WInv, Handed, Asked, Working, callers, store
<1>3. CASE Begin
  <2>1. serving # None /\ db \in Tables
    BY <1>3 DEF Begin, WInv, Handed, Working
  <2>2. Working'
    BY <1>3, <2>1, Serves, HalfwayBegins DEF Begin, WInv, Working, callers
  <2>3. Handed' /\ Asked'
    BY <1>3 DEF Begin, WInv, Handed, Asked, callers, store
  <2> QED BY <2>2, <2>3 DEF WInv
<1>4. CASE Execute
  <2>1. serving # None /\ db \in Tables /\ Halfway(req[serving], db, txn, todo)
    BY <1>4 DEF Execute, WInv, Handed, Working
  <2>2. Working'
    BY <1>4, <2>1, Serves, HalfwayGoesOn DEF Execute, WInv, Working, callers
  <2>3. Handed' /\ Asked'
    BY <1>4 DEF Execute, WInv, Handed, Asked, callers, store
  <2> QED BY <2>2, <2>3 DEF WInv
<1>5. CASE Refuse \/ AbandonTxn
  BY <1>5, RollbackW DEF Refuse, AbandonTxn, Rollback
<1>6. CASE Commit
  <2>1. serving # None /\ db \in Tables /\ RowsFit(db)
    BY <1>6 DEF Commit, WInv, Handed, Working
  <2>2. Working'
    BY <1>6, <2>1, Serves, Commits, MeaningFits DEF Commit, WInv, Working
  <2>3. Handed' /\ Asked'
    BY <1>6 DEF Commit, WInv, Handed, Asked, callers, store
  <2> QED BY <2>2, <2>3 DEF WInv
<1>7. CASE Reply
  <2>1. serving # None /\ serving \in Callers
    BY <1>7 DEF Reply, WInv, Handed, IInv, Accepted
  <2>4. \A c \in Elements(queue) : c \in Callers /\ c # serving
    BY <2>1 DEF IInv, Accepted, Elements, WInv, Handed
  <2>5. \A c \in Callers : answer'[c] = IF c = serving THEN result ELSE answer[c]
    BY <1>7 DEF Reply, Answer, IInv
  <2>6. UNCHANGED <<pc, queue>> /\ serving' = None /\ result' = None /\ writer' = "receive"
    BY <1>7 DEF Reply, store
  <2>2. Handed'
    BY <2>1, <2>4, <2>5, <2>6 DEF WInv, Handed
  <2>3. Asked' /\ Working'
    BY <1>7 DEF Reply, WInv, Asked, Working, store
  <2> QED BY <2>2, <2>3 DEF WInv
<1> QED
  BY <1>1, <1>2, <1>3, <1>4, <1>5, <1>6, <1>7 DEF WriterStep

(* Every step keeps it.                                                     *)
LEMMA NextW == ASSUME IInv, WInv, [Next]_vars PROVE WInv'
<1>1. CASE StatementFails
  BY <1>1, RollbackW DEF StatementFails, Rollback
<1>2. ASSUME NEW c \in Callers, Cancel(c) PROVE WInv'
  BY <1>2 DEF Cancel, WInv, Handed, Asked, Working, store, writing
<1>3. CASE UNCHANGED vars
  BY <1>3 DEF vars, callers, store, writing, WInv, Handed, Asked, Working
<1> QED
  BY <1>1, <1>2, <1>3, CrashW, WriterW, CallerW, CallW DEF Next

-----------------------------------------------------------------------------
(* The refinement: what the callers see of each step.                       *)

(* What Progress says in each state of a call. *)
ProgressSays(c) ==
  /\ pc[c] = "idle" => Progress(c) = [state |-> "idle"]
  /\ pc[c] = "members" => Progress(c) = [state |-> "header", adapter |-> seen[c]]
  /\ pc[c] = "return" \/ (pc[c] = "wait" /\ answer[c] # None) =>
        Progress(c) = [state |-> "done", answer |-> answer[c]]
  /\ pc[c] = "wait" /\ answer[c] = None /\ serving = c /\ result # None =>
        Progress(c) = [state |-> "done", answer |-> result]
  /\ /\ pc[c] \notin {"idle", "members", "return"}
     /\ pc[c] = "wait" => answer[c] = None
     /\ pc[c] = "wait" /\ serving = c => result = None
     => Progress(c) = [state |-> "pending", req |-> req[c]]

(* It says so in the state before a step and in the one after it.           *)
LEMMA ProgressKnown == ASSUME NEW c PROVE ProgressSays(c) /\ ProgressSays(c)'
<1>1. ProgressSays(c)
  <2>1. (pc[c] = "idle" => Progress(c) = [state |-> "idle"])
    BY DEF Progress
  <2>2. (pc[c] = "members" => Progress(c) = [state |-> "header", adapter |-> seen[c]])
    BY DEF Progress
  <2>3. (pc[c] = "return" \/ (pc[c] = "wait" /\ answer[c] # None)
           => Progress(c) = [state |-> "done", answer |-> answer[c]])
    BY DEF Progress
  <2>4. (pc[c] = "wait" /\ answer[c] = None /\ serving = c /\ result # None
           => Progress(c) = [state |-> "done", answer |-> result])
    BY DEF Progress
  <2>5. (/\ pc[c] \notin {"idle", "members", "return"}
         /\ pc[c] = "wait" => answer[c] = None
         /\ pc[c] = "wait" /\ serving = c => result = None
         => Progress(c) = [state |-> "pending", req |-> req[c]])
    BY DEF Progress
  <2> QED BY <2>1, <2>2, <2>3, <2>4, <2>5 DEF ProgressSays
<1>2. ProgressSays(c)'
  <2>1. (pc[c] = "idle" => Progress(c) = [state |-> "idle"])'
    BY DEF Progress
  <2>2. (pc[c] = "members" => Progress(c) = [state |-> "header", adapter |-> seen[c]])'
    BY DEF Progress
  <2>3. (pc[c] = "return" \/ (pc[c] = "wait" /\ answer[c] # None)
           => Progress(c) = [state |-> "done", answer |-> answer[c]])'
    BY DEF Progress
  <2>4. (pc[c] = "wait" /\ answer[c] = None /\ serving = c /\ result # None
           => Progress(c) = [state |-> "done", answer |-> result])'
    BY DEF Progress
  <2>5. (/\ pc[c] \notin {"idle", "members", "return"}
         /\ pc[c] = "wait" => answer[c] = None
         /\ pc[c] = "wait" /\ serving = c => result = None
         => Progress(c) = [state |-> "pending", req |-> req[c]])'
    BY DEF Progress
  <2> QED BY <2>1, <2>2, <2>3, <2>4, <2>5 DEF ProgressSays
<1> QED BY <1>1, <1>2

(* The step of one caller is nothing to the others. *)
LEMMA Elsewhere ==
  ASSUME NEW d \in Callers, pc'[d] = pc[d], answer'[d] = answer[d], req'[d] = req[d],
         seen'[d] = seen[d],
         serving' = d /\ result' # None <=> serving = d /\ result # None,
         serving = d => result' = result
  PROVE  Progress(d)' = Progress(d)
  BY DEF Progress

(* One call changes.                                                        *)
LEMMA Shadows ==
  ASSUME NEW c \in Callers, \A d \in Callers \ {c} : Progress(d)' = Progress(d),
         NEW v, Progress(c)' = v
  PROVE  [d \in Callers |-> Progress(d)]' = [[d \in Callers |-> Progress(d)] EXCEPT ![c] = v]
  OBVIOUS

(* No call changes.                                                         *)
LEMMA Stutters ==
  ASSUME \A d \in Callers : Progress(d)' = Progress(d), UNCHANGED db
  PROVE  UNCHANGED Promise!vars
  BY DEF Promise!vars

(* A call fails.                                                            *)
LEMMA Fails ==
  ASSUME NEW c \in Callers, \A d \in Callers \ {c} : Progress(d)' = Progress(d),
         Progress(c).state \in {"pending", "header"},
         Progress(c)' = [state |-> "done", answer |-> Error],
         UNCHANGED db
  PROVE  Promise!Next
<1>1. Promise!Fail(c)
  BY Shadows DEF Promise!Fail, Promise!Done, Promise!Error, Error
<1> QED BY <1>1 DEF Promise!Next

(* The two modules mean the same by what a method means. *)
LEMMA SameListing == \A rows : Promise!Shown(Promise!Listing(rows)) = Shown(Listing(rows))
  BY DEF Promise!Shown, Shown, Promise!Listing, Listing
LEMMA SameCohort == \A adapter, rows : Promise!CohortShown(adapter, rows) = CohortShown(adapter, rows)
  BY DEF Promise!CohortShown, CohortShown
LEMMA SamePossible == \A r, rows : Promise!Possible(r, rows) = Possible(r, rows)
  BY DEF Promise!Possible, Possible, Promise!NewFindings, NewFindings, Promise!NewActions, NewActions,
         Promise!Storable, Storable, Promise!Distinct, Distinct, Promise!Elements, Elements
LEMMA SameMeaning == \A r, rows : Promise!Meaning(r, rows) = Meaning(r, rows)
  BY DEF Promise!Meaning, Meaning, Promise!NewFindings, NewFindings, Promise!NewActions, NewActions,
         Promise!Stored, Stored, Promise!Cohort, Cohort, Promise!Elements, Elements,
         Promise!WithoutRun, WithoutRun, Promise!NextAttempt, NextAttempt

(* What the writer has in its hands shows only in the call it serves. *)
LEMMA NotServed ==
  ASSUME IInv, WInv, NEW c \in Callers, pc[c] # "wait"
  PROVE  serving # c
  BY StoreAssumption DEF WInv, Handed

(* A store that has just been opened is a ledger that nobody calls.         *)
LEMMA InitRefines == ASSUME Init PROVE Promise!Init
<1>1. \A c \in Callers : Progress(c) = [state |-> "idle"]
  BY ProgressKnown DEF Init, ProgressSays
<1> QED BY <1>1 DEF Init, Promise!Init, Promise!Idle

(* A crash of the process is a crash of the ledger.                         *)
LEMMA CrashRefines == ASSUME Crash PROVE Promise!Next
<1>1. \A c \in Callers : Progress(c)' = [state |-> "idle"]
  BY ProgressKnown DEF Crash, Started, ProgressSays
<1>2. Promise!Crash
  BY <1>1 DEF Promise!Crash, Promise!Idle, Crash
<1> QED BY <1>2 DEF Promise!Next

(* A call is an invocation.                                                 *)
LEMMA CallRefines ==
  ASSUME IInv, WInv, NEW c \in Callers, NEW r \in Requests[c], Call(c, r)
  PROVE  Promise!Next
<1>1. \A d \in Callers \ {c} : Progress(d)' = Progress(d)
  BY Elsewhere DEF Call, Go, IInv, WInv, Asked, writing
<1>2. Progress(c) = [state |-> "idle"]
  BY ProgressKnown DEF Call, ProgressSays
<1>3. pc'[c] = "lock" /\ req'[c] = r
  BY DEF Call, Go, IInv, WInv, Asked
<1>4. Progress(c)' = [state |-> "pending", req |-> r]
  BY <1>3, ProgressKnown DEF ProgressSays
<1>5. Promise!Invoke(c, r)
  BY <1>1, <1>2, <1>4, Shadows DEF Promise!Invoke, Promise!Idle, Call
<1> QED BY <1>5 DEF Promise!Next

(* A call that ends without having got to the writer: it is done. *)
LEMMA Ends ==
  ASSUME IInv, WInv, NEW c \in Callers, pc' = [pc EXCEPT ![c] = "return"],
         NEW v, answer' = [answer EXCEPT ![c] = v],
         UNCHANGED <<req, seen, writing>>
  PROVE  /\ \A d \in Callers \ {c} : Progress(d)' = Progress(d)
         /\ Progress(c)' = [state |-> "done", answer |-> v]
<1>1. \A d \in Callers \ {c} : Progress(d)' = Progress(d)
  BY Elsewhere DEF IInv, writing
<1>2. pc'[c] = "return" /\ answer'[c] = v
  BY DEF IInv
<1> QED BY <1>1, <1>2, ProgressKnown DEF ProgressSays

(* A call that has not got to the writer, and has not been answered. *)
LEMMA Pending ==
  ASSUME IInv, WInv, NEW c \in Callers,
         pc[c] \in {"lock", "send", "query", "drain", "shut", "note"}
  PROVE  Progress(c) = [state |-> "pending", req |-> req[c]]
  BY ProgressKnown DEF ProgressSays

(* It goes on: that is nothing to those who count on the ledger. *)
LEMMA Moves ==
  ASSUME IInv, WInv, NEW c \in Callers,
         pc[c] \in {"lock", "send", "query", "drain", "shut", "note"},
         NEW label \in {"send", "wait", "query", "drain", "shut", "note"},
         pc' = [pc EXCEPT ![c] = label],
         UNCHANGED <<db, req, seen, answer, writing>>
  PROVE  UNCHANGED Promise!vars
<1>1. \A d \in Callers \ {c} : Progress(d)' = Progress(d)
  BY Elsewhere DEF IInv, writing
<1>2. serving # c /\ answer[c] = None
  BY NotServed DEF WInv, Handed
<1>3. pc'[c] = label /\ answer'[c] = None /\ serving' # c /\ req'[c] = req[c]
  BY <1>2 DEF IInv, writing
<1>4. Progress(c)' = [state |-> "pending", req |-> req[c]]
  BY <1>3, ProgressKnown DEF ProgressSays
<1> QED BY <1>1, <1>4, Pending, Stutters

(* Every step of a caller is a step of the ledger, or none.                 *)
LEMMA CallerRefines ==
  ASSUME IInv, WInv, NEW c \in Callers, CallerStep(c)
  PROVE  [Promise!Next]_Promise!vars
<1>1. CASE RejectInput(c) \/ MeetClosed(c) \/ SendCancelled(c) \/ QueryFails(c)
  <2>1. /\ pc[c] \in {"lock", "send", "query", "members"}
        /\ pc' = [pc EXCEPT ![c] = "return"] /\ answer' = [answer EXCEPT ![c] = Error]
        /\ UNCHANGED <<db, req, seen, writing>>
    BY <1>1 DEF RejectInput, MeetClosed, SendCancelled, QueryFails, Go, Answer
  <2>2. Progress(c).state \in {"pending", "header"}
    BY <2>1, ProgressKnown DEF ProgressSays
  <2> QED BY <2>1, <2>2, Ends, Fails
<1>2. CASE LockToSend(c) \/ Send(c) \/ CheckOpen(c) \/ CloseFirst(c) \/ Drain(c) \/ Shut(c)
  <2>1. /\ pc[c] \in {"lock", "send", "query", "drain", "shut", "note"}
        /\ \E label \in {"send", "wait", "query", "drain", "shut", "note"} :
              pc' = [pc EXCEPT ![c] = label]
        /\ UNCHANGED <<db, req, seen, answer, writing>>
    BY <1>2 DEF LockToSend, Send, CheckOpen, CloseFirst, Drain, Shut, Go, store
  <2> QED BY <2>1, Moves
<1>3. CASE Receive(c)
  <2>1. \A d \in Callers \ {c} : Progress(d)' = Progress(d)
    BY <1>3, Elsewhere DEF Receive, Go, IInv, writing
  <2>2. Progress(c) = [state |-> "done", answer |-> answer[c]]
    BY <1>3, ProgressKnown DEF Receive, ProgressSays
  <2>3. pc'[c] = "return" /\ answer'[c] = answer[c] /\ UNCHANGED db
    BY <1>3 DEF Receive, Go, IInv
  <2>4. Progress(c)' = [state |-> "done", answer |-> answer[c]]
    BY <2>3, ProgressKnown DEF ProgressSays
  <2> QED BY <2>1, <2>2, <2>3, <2>4, Stutters
<1>4. CASE Query(c)
  <2>1. /\ pc[c] = "query" /\ req[c].op = "ListRuns" /\ pc' = [pc EXCEPT ![c] = "return"]
        /\ answer' = [answer EXCEPT ![c] = Shown(Listing(db))]
        /\ UNCHANGED <<db, req, seen, writing>>
    BY <1>4 DEF Query, Go, Answer
  <2>2. /\ \A d \in Callers \ {c} : Progress(d)' = Progress(d)
        /\ Progress(c)' = [state |-> "done", answer |-> Shown(Listing(db))]
    BY <2>1, Ends
  <2>3. Progress(c) = [state |-> "pending", req |-> req[c]]
    BY <2>1, Pending
  <2>4. Promise!Look(c)
    BY <2>1, <2>2, <2>3, Shadows, SameListing DEF Promise!Look, Promise!Done
  <2> QED BY <2>4 DEF Promise!Next
<1>5. CASE QueryHeader(c)
  <2>1. /\ pc[c] = "query" /\ req[c].op = "GetReviewerCohort" /\ db.header # 0
        /\ pc'[c] = "members" /\ seen'[c] = db.header /\ UNCHANGED db
    BY <1>5 DEF QueryHeader, Go, IInv, WInv, Asked
  <2>2. \A d \in Callers \ {c} : Progress(d)' = Progress(d)
    BY <1>5, Elsewhere DEF QueryHeader, Go, IInv, WInv, Asked, writing
  <2>3. Progress(c)' = [state |-> "header", adapter |-> db.header]
    BY <2>1, ProgressKnown DEF ProgressSays
  <2>4. Progress(c) = [state |-> "pending", req |-> req[c]]
    BY <2>1, Pending
  <2>5. Promise!LookAtHeader(c)
    BY <2>1, <2>2, <2>3, <2>4, Shadows DEF Promise!LookAtHeader
  <2> QED BY <2>5 DEF Promise!Next
<1>6. CASE QueryMembers(c)
  <2>1. /\ pc[c] = "members" /\ pc' = [pc EXCEPT ![c] = "return"]
        /\ answer' = [answer EXCEPT ![c] = CohortShown(seen[c], db)]
        /\ UNCHANGED <<db, req, seen, writing>>
    BY <1>6 DEF QueryMembers, Go, Answer
  <2>2. /\ \A d \in Callers \ {c} : Progress(d)' = Progress(d)
        /\ Progress(c)' = [state |-> "done", answer |-> CohortShown(seen[c], db)]
    BY <2>1, Ends
  <2>3. Progress(c) = [state |-> "header", adapter |-> seen[c]]
    BY <2>1, ProgressKnown DEF ProgressSays
  <2>4. Promise!LookAtMembers(c)
    BY <2>1, <2>2, <2>3, Shadows, SameCohort DEF Promise!LookAtMembers, Promise!Done
  <2> QED BY <2>4 DEF Promise!Next
<1>7. CASE CloseAgain(c) \/ Note(c)
  <2>1. /\ pc[c] \in {"lock", "note"} /\ IsClose(req[c]) /\ pc' = [pc EXCEPT ![c] = "return"]
        /\ answer' = [answer EXCEPT ![c] = Ok]
        /\ UNCHANGED <<db, req, seen, writing>>
    BY <1>7 DEF CloseAgain, Note, Go, Answer, WInv, Asked
  <2>2. /\ \A d \in Callers \ {c} : Progress(d)' = Progress(d)
        /\ Progress(c)' = [state |-> "done", answer |-> Ok]
    BY <2>1, Ends
  <2>3. Progress(c) = [state |-> "pending", req |-> req[c]]
    BY <2>1, Pending
  <2>4. Promise!Shut(c)
    BY <2>1, <2>2, <2>3, Shadows DEF Promise!Shut, Promise!Done, IsClose, Promise!Ok, Ok
  <2> QED BY <2>4 DEF Promise!Next
<1>8. CASE Return(c)
  <2>1. \A d \in Callers \ {c} : Progress(d)' = Progress(d)
    BY <1>8, Elsewhere DEF Return, Go, Answer, IInv, WInv, Asked, writing
  <2>2. Progress(c) = [state |-> "done", answer |-> answer[c]]
    BY <1>8, ProgressKnown DEF Return, ProgressSays
  <2>3. pc'[c] = "idle" /\ UNCHANGED db
    BY <1>8 DEF Return, Go, IInv
  <2>4. Progress(c)' = [state |-> "idle"]
    BY <2>3, ProgressKnown DEF ProgressSays
  <2>5. Promise!Return(c)
    BY <2>1, <2>2, <2>3, <2>4, Shadows DEF Promise!Return, Promise!Idle
  <2> QED BY <2>5 DEF Promise!Next
<1> QED
  BY <1>1, <1>2, <1>3, <1>4, <1>5, <1>6, <1>7, <1>8 DEF CallerStep

(* What the writer serves shows in nobody else's call. *)
LEMMA ServedAlone ==
  ASSUME IInv, WInv, UNCHANGED <<callers, serving>>
  PROVE  \A d \in Callers \ {serving} : Progress(d)' = Progress(d)
  BY Elsewhere DEF callers

(* A write that is given up fails.                                          *)
LEMMA RollbackRefines ==
  ASSUME IInv, WInv, writer \in {"begin", "execute"}, Rollback, UNCHANGED db
  PROVE  Promise!Next
<1>1. serving # None /\ result = None
  BY DEF WInv, Handed
<1>2. PICK c \in Callers : c = serving
  BY <1>1, Serves
<1>3. pc[c] = "wait" /\ answer[c] = None
  BY <1>1, <1>2, Serves
<1>4. Progress(c) = [state |-> "pending", req |-> req[c]]
  BY <1>1, <1>3, ProgressKnown DEF ProgressSays
<1>5. pc'[c] = "wait" /\ answer'[c] = None /\ serving' = c /\ result' = Error
  BY <1>2, <1>3 DEF Rollback, callers
<1>6. Progress(c)' = [state |-> "done", answer |-> Error]
  BY <1>5, ProgressKnown, StoreAssumption DEF ProgressSays
<1>7. \A d \in Callers \ {c} : Progress(d)' = Progress(d)
  BY <1>2, ServedAlone DEF Rollback
<1> QED BY <1>4, <1>6, <1>7, Fails

(* A commit performs the call; the other steps of the writer are none.      *)
LEMMA WriterRefines ==
  ASSUME IInv, WInv, WriterStep
  PROVE  [Promise!Next]_Promise!vars
<1>1. CASE TakeRequest
  <2>1. result = None /\ result' = None /\ UNCHANGED <<db, callers>>
    BY <1>1 DEF TakeRequest, WInv, Handed
  <2>2. \A d \in Callers : Progress(d)' = Progress(d)
    BY <2>1, Elsewhere DEF callers
  <2> QED BY <2>1, <2>2, Stutters
<1>2. CASE WriterEnds \/ Begin \/ Execute
  <2>1. UNCHANGED <<db, callers, serving, result>>
    BY <1>2 DEF WriterEnds, Begin, Execute
  <2>2. \A d \in Callers : Progress(d)' = Progress(d)
    BY <2>1, Elsewhere DEF callers
  <2> QED BY <2>1, <2>2, Stutters
<1>3. CASE Refuse \/ AbandonTxn
  BY <1>3, RollbackRefines DEF Refuse, AbandonTxn, Rollback
<1>4. CASE Commit
  <2>1. serving # None /\ result = None
    BY <1>4 DEF Commit, WInv, Handed
  <2>2. PICK c \in Callers : c = serving
    BY <2>1, Serves
  <2>3. pc[c] = "wait" /\ answer[c] = None /\ IsWrite(req[c])
    BY <2>1, <2>2, Serves
  <2>4. Progress(c) = [state |-> "pending", req |-> req[c]]
    BY <2>1, <2>3, ProgressKnown DEF ProgressSays
  <2>5. pc'[c] = "wait" /\ answer'[c] = None /\ serving' = c /\ result' = Ok
    BY <1>4, <2>2, <2>3 DEF Commit, callers
  <2>6. Progress(c)' = [state |-> "done", answer |-> Ok]
    BY <2>5, ProgressKnown, StoreAssumption DEF ProgressSays
  <2>7. \A d \in Callers \ {c} : Progress(d)' = Progress(d)
    BY <1>4, <2>2, ServedAlone DEF Commit
  <2>8. Possible(req[c], db) /\ db' = Meaning(req[c], db)
    BY <1>4, <2>2, Commits
  <2>9. Promise!Perform(c)
    BY <2>3, <2>4, <2>6, <2>7, <2>8, Shadows, SamePossible, SameMeaning
    DEF Promise!Perform, Promise!Done, IsWrite, IsRead, IsClose, Promise!Ok, Ok
  <2> QED BY <2>9 DEF Promise!Next
<1>5. CASE Reply
  <2>1. serving # None /\ result # None /\ writer = "reply"
    BY <1>5 DEF Reply, WInv, Handed, IInv, Accepted
  <2>2. PICK c \in Callers : c = serving
    BY <2>1, Serves
  <2>3. pc[c] = "wait" /\ answer[c] = None
    BY <2>1, <2>2, Serves
  <2>4. Progress(c) = [state |-> "done", answer |-> result]
    BY <2>1, <2>2, <2>3, ProgressKnown DEF ProgressSays
  <2>5. pc'[c] = "wait" /\ answer'[c] = result /\ UNCHANGED <<db, pc, req, seen>>
    BY <1>5, <2>2, <2>3 DEF Reply, Answer, IInv
  <2>6. Progress(c)' = [state |-> "done", answer |-> result]
    BY <2>1, <2>5, ProgressKnown DEF ProgressSays
  <2>7. serving' = None /\ \A d \in Callers \ {c} : answer'[d] = answer[d]
    BY <1>5, <2>2 DEF Reply, Answer, IInv
  <2>8. \A d \in Callers \ {c} : Progress(d)' = Progress(d)
    BY <2>2, <2>5, <2>7, Elsewhere, StoreAssumption
  <2>9. \A d \in Callers : Progress(d)' = Progress(d)
    BY <2>4, <2>6, <2>8
  <2> QED BY <2>5, <2>9, Stutters
<1> QED
  BY <1>1, <1>2, <1>3, <1>4, <1>5 DEF WriterStep

(* Every step of the store is a step of the ledger, or none.                *)
LEMMA NextRefines == ASSUME IInv, WInv, [Next]_vars PROVE [Promise!Next]_Promise!vars
<1>1. CASE StatementFails
  BY <1>1, RollbackRefines DEF StatementFails, Rollback
<1>2. ASSUME NEW c \in Callers, Cancel(c) PROVE UNCHANGED Promise!vars
  <2>1. UNCHANGED <<db, pc, req, answer, seen, serving, result>>
    BY <1>2 DEF Cancel, writing
  <2>2. \A d \in Callers : Progress(d)' = Progress(d)
    BY <2>1, Elsewhere
  <2> QED BY <2>1, <2>2, Stutters
<1>3. CASE UNCHANGED vars
  <2>1. UNCHANGED <<db, pc, req, answer, seen, serving, result>>
    BY <1>3 DEF vars, callers, writing
  <2>2. \A d \in Callers : Progress(d)' = Progress(d)
    BY <2>1, Elsewhere
  <2> QED BY <2>1, <2>2, Stutters
<1> QED
  BY <1>1, <1>2, <1>3, CrashRefines, WriterRefines, CallerRefines, CallRefines DEF Next

(* The invariant of the writes holds in every state.                        *)
THEOREM WInductive == Spec => []WInv
  BY Inductive, InitW, NextW, PTL DEF Spec
(* The store implements the ledger its callers count on (ledger.Store): each *)
(* write takes effect as a whole at its commit or not at all, an error means *)
(* it has not, and no crash, cancelled context, failing statement or Close  *)
(* makes a difference to that.                                              *)
THEOREM StoreImplementsLedger == Spec => ImplementsLedger
<1>1. IInv /\ WInv /\ [Next]_vars => [Promise!Next]_Promise!vars
  BY NextRefines
<1> QED
  BY <1>1, Inductive, WInductive, InitRefines, PTL DEF Spec, ImplementsLedger, Promise!Spec

(* No sequence of calls, refusals and crashes leaves two runs of a scope with *)
(* one attempt, or a row that refers to one that is gone.                   *)
THEOREM RowsStayConsistent == Spec => []RowsConsistent
<1>1. WInv => RowsConsistent
  BY DEF WInv, Working, RowsConsistent
<1> QED BY <1>1, WInductive, PTL

(* Bounded and typed. *)
Bounded ==
  /\ Len(queue) <= QueueSize
  /\ mutex \in Callers \cup {None}
  /\ closed \in BOOLEAN /\ sealed \in BOOLEAN /\ open \in BOOLEAN
  /\ cancelled \subseteq Callers
  /\ writer \in WriterLabels
  /\ calls \in 0..MaxCalls /\ faults \in 0..MaxFaults

(* Every step keeps them.                                                   *)
LEMMA BoundedNext == ASSUME IInv, Bounded, [Next]_vars PROVE Bounded'
<1> USE StoreAssumption DEF Bounded, WriterLabels
<1>1. CASE Crash
  <2>1. Len(queue') = 0 /\ faults' \in 0..MaxFaults /\ calls' = calls
    BY <1>1 DEF Crash, Started
  <2>2. Len(queue') <= QueueSize
    BY <2>1
  <2> QED BY <1>1, <2>1, <2>2 DEF Crash, Started
<1>2. CASE StatementFails
  BY <1>2 DEF StatementFails, Rollback, callers, store
<1>3. ASSUME NEW c \in Callers, NEW r \in Requests[c], Call(c, r) PROVE Bounded'
  BY <1>3 DEF Call, store, writing
<1>4. ASSUME NEW c \in Callers, Cancel(c) PROVE Bounded'
  BY <1>4 DEF Cancel, store, writing
<1>5. ASSUME NEW c \in Callers, Send(c) PROVE Bounded'
  <2>1. queue \in Seq(Callers) /\ Len(queue) < QueueSize /\ queue' = Append(queue, c)
    BY <1>5 DEF Send, IInv, Accepted
  <2>2. Len(queue') <= QueueSize
    BY <2>1
  <2> QED BY <1>5, <2>2 DEF Send, writing
<1>6. ASSUME NEW c \in Callers, CallerStep(c), ~Send(c) PROVE Bounded'
  <2>1. UNCHANGED <<queue, cancelled, writer, calls, faults>>
    BY <1>6 DEF CallerStep, RejectInput, MeetClosed, LockToSend, SendCancelled, Receive, CheckOpen,
       Query, QueryHeader, QueryMembers, QueryFails, CloseFirst, CloseAgain, Drain, Shut, Note,
       Return, store, writing
  <2>2. /\ mutex' \in Callers \cup {None}
        /\ closed' \in BOOLEAN /\ sealed' \in BOOLEAN /\ open' \in BOOLEAN
    BY <1>6 DEF CallerStep, RejectInput, MeetClosed, LockToSend, SendCancelled, Receive, CheckOpen,
       Query, QueryHeader, QueryMembers, QueryFails, CloseFirst, CloseAgain, Drain, Shut, Note,
       Return, store, writing
  <2> QED BY <2>1, <2>2
<1>7. CASE TakeRequest
  <2>1. queue \in Seq(Callers) /\ queue # <<>> /\ queue' = Tail(queue)
    BY <1>7 DEF TakeRequest, IInv, Accepted
  <2>2. Len(queue) <= QueueSize /\ Len(queue) \in Nat /\ QueueSize \in Nat
    BY <2>1
  <2>3. Len(queue') <= QueueSize
    BY <2>1, <2>2
  <2> QED BY <1>7, <2>3 DEF TakeRequest, callers
<1>8. CASE WriterStep /\ ~TakeRequest
  BY <1>8 DEF WriterStep, WriterEnds, Begin, Execute, Refuse, AbandonTxn, Rollback, Commit, Reply,
     callers, store
<1>9. CASE UNCHANGED vars
  BY <1>9 DEF vars, callers, store, writing
<1> QED
  BY <1>1, <1>2, <1>3, <1>4, <1>5, <1>6, <1>7, <1>8, <1>9 DEF Next

(* The type invariant of the store.                                         *)
THEOREM TypeCorrect == Spec => []TypeOK
<1>1. ASSUME Init PROVE Bounded
  <2>1. Len(queue) = 0
    BY <1>1 DEF Init
  <2>2. Len(queue) <= QueueSize
    BY <2>1, StoreAssumption
  <2>3. calls \in 0..MaxCalls /\ faults \in 0..MaxFaults
    BY <1>1, StoreAssumption DEF Init
  <2> QED BY <1>1, <2>2, <2>3 DEF Init, Bounded, WriterLabels
<1>2. IInv /\ WInv /\ Bounded => TypeOK
  BY DEF IInv, WInv, Bounded, Accepted, Asked, Working, TypeOK
<1> QED BY <1>1, <1>2, Inductive, WInductive, BoundedNext, PTL DEF Spec

=============================================================================
