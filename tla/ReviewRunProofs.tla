-------------------------- MODULE ReviewRunProofs --------------------------
(***************************************************************************)
(* Theorems about the planning passes of a review run, for every catalog,  *)
(* every answer of the models and every number of passes and faults.       *)
(***************************************************************************)
EXTENDS ReviewRun, TLAPS

Values == Nat \cup Reports \cup {"reply", None} \cup (SUBSET Reviewers)
Answering == {"succeeded", "invalid", "failed", "expired", "tried"}
Classes == {"cancelled", "blocking", "stale"}
JobSteps == {"idle", "called", "answered", "stored", "done", "refused"}
Jobs == [at : JobSteps,
         status : Statuses \cup Answering \cup Classes \cup {None},
         value : Values, session : Sessions,
         cause : Answering \cup {None}, cut : BOOLEAN]

(* What a successful call of t may have answered. *)
Worth(t) == IF t = Selection THEN SUBSET Reviewers
                             ELSE Nat \cup Reports \cup {"reply"}

-----------------------------------------------------------------------------
(* The tasks: what is on disk, what is in the ledger, what is in flight.    *)

Shape ==
  /\ meta = [t \in Tasks |-> meta[t]]
  /\ output \in [Tasks -> Values]
  /\ job \in [Tasks -> Jobs]
  /\ rows \subseteq Tasks \X (1..pass)
  /\ pass \in 0..MaxPasses
  /\ pc = "down" => \A t \in Tasks : job[t] = NoJob

(* Metadata is backed by the row and the output it stands for, is the       *)
(* newest word on a settled task, and blames no call that was cut short.    *)
Kept(t) ==
  meta[t] # None =>
    /\ meta[t].status \in Statuses /\ meta[t].session \in Sessions
    /\ meta[t].pass \in 1..pass
    /\ meta[t].status = "succeeded" => output[t] \in Worth(t)
    /\ meta[t].session # None => <<t, meta[t].pass>> \in rows
    /\ meta[t].status = "isolated" => meta[t].cut = FALSE
    /\ meta[t].status # "blocking" =>
         \A p \in 1..MaxPasses : <<t, p>> \in rows => p <= meta[t].pass

(* A call is only in flight for a task that is not settled, its session row *)
(* comes before its files, and a result is handed on as it was stored.      *)
Flying(t) ==
  LET j == job[t] IN
  /\ j.at \in {"called", "answered", "stored"} =>
       meta[t] = None \/ meta[t].status = "blocking"
  /\ j.at \in {"answered", "stored"} =>
       /\ j.status \in Answering
       /\ j.session # None => <<t, pass>> \in rows
       /\ j.cut = TRUE => CtxDone(t) \/ j.status = "expired"
  /\ j.at \in {"answered", "stored", "done"} /\ j.status = "succeeded" =>
       j.value \in Worth(t)
  /\ j.at = "stored" => j.status = "succeeded" /\ output[t] = j.value
  /\ j.at = "done" =>
       /\ j.status \in Statuses /\ meta[t].status = j.status
       /\ j.status = "succeeded" => output[t] = j.value
  /\ j.at = "refused" => j.status \in {"cancelled", "stale"}

TaskInv == Shape /\ \A t \in Tasks : Kept(t) /\ Flying(t)

-----------------------------------------------------------------------------
(* The walk of a pass and the rows it shares with later reviews.            *)

Walk ==
  /\ reply \in {"none", "pending", "posted"}
  /\ outcome \in {"open", "incomplete", "failed", "planned"}
  /\ named \in Sessions /\ orch \in Sessions
  /\ pc \in Phases /\ (pc # "down" => pass > 0)
  /\ DOMAIN sel \subseteq Reviewers
  /\ rpc \in [Reviewers -> {"none", "waiting", "reviewer", "repair", "done", "gone", "error"}]
  /\ firstErr = None \/ firstErr[1] \in Classes
  /\ faults \in 0..MaxFaults
  /\ seen \in Nat /\ discussion \in Nat

Selects(S) == /\ meta[Selection].status = "succeeded"
              /\ output[Selection] \cup Required = S

(* A saved cohort covers the selection stored in the run, and everyone who  *)
(* is about to review.                                                      *)
Covered ==
  /\ cohort # None => /\ DOMAIN cohort \subseteq Reviewers
                      /\ cohort \in [DOMAIN cohort -> Sessions]
  /\ cohort # None /\ meta[Selection] # None =>
       \E S \in SUBSET DOMAIN cohort : Selects(S)
  /\ pc = "selection" => /\ reused = (cohort # None)
                         /\ cohort # None => meta[Selection] # None
  /\ pc = "persist" => cohort = None /\ Selects(DOMAIN sel)
  /\ pc \in {"thread", "checkpoint", "post", "reviewers"} =>
       DOMAIN sel = {} \/ (cohort # None /\ DOMAIN sel \subseteq DOMAIN cohort)
  /\ pc = "reviewers" => \A r \in Reviewers : rpc[r] # "none" => r \in DOMAIN sel

IInv == TaskInv /\ Walk /\ Covered

-----------------------------------------------------------------------------
(* Names and values *)

LEMMA TaskNames ==
  /\ \A t \in Tasks : t[1] # "down" /\ t \in Sessions
  /\ \A r \in Reviewers : /\ Primary(r) \in Tasks /\ Primary(r)[1] = "reviewer"
                          /\ Repair(r) \in Tasks /\ Repair(r)[1] = "repair"
                          /\ Primary(r)[2] = r /\ Repair(r)[2] = r
  /\ {Dossier, Selection, Thread, Rollup} \subseteq Tasks
  /\ Dossier[1] = "dossier" /\ Selection[1] = "selection"
  /\ Thread[1] = "thread" /\ Rollup[1] = "rollup"
BY DEF Tasks, Sessions, Dossier, Selection, Thread, Rollup, Primary, Repair

LEMMA NoneIsNothing ==
  /\ \A t \in Tasks : None \notin Worth(t)
  /\ None \in Sessions /\ None \in Values
  /\ \A r \in Reviewers : Saved(r) \in Sessions
  /\ Saved(None) \in Sessions
<1>1. None \notin SUBSET Reviewers
  BY NoneAssumption
<1>2. \A t \in Tasks : None \notin Worth(t)
  BY <1>1, NoneAssumption DEF Worth
<1>3. None \in Sessions /\ None \in Values
  BY DEF Sessions, Values
<1>4. \A r \in Reviewers \cup {None} : Saved(r) \in Sessions
  BY DEF Sessions, Saved
<1> QED
  BY <1>2, <1>3, <1>4

LEMMA NoJobType == NoJob \in Jobs
BY NoneIsNothing DEF NoJob, Jobs, JobSteps

LEMMA WorthIsValue == \A t \in Tasks : Worth(t) \subseteq Values
BY DEF Worth, Values

(* What a model may answer in this pass is worth storing. *)
LEMMA AnswersWorth ==
  ASSUME seen \in Nat, pass \in Nat, NEW t \in Tasks
  PROVE  Answers(t) \subseteq Worth(t)
<1> USE ReviewRunAssumption
<1>1. FindingIDs \in Nat
  BY DEF FindingIDs
<1>2. CASE t = Dossier
  BY <1>2, TaskNames DEF Answers, Worth
<1>3. CASE t = Selection
  BY <1>3, TaskNames DEF Answers, Worth
<1>4. CASE t = Thread
  BY <1>4, TaskNames DEF Answers, Worth
<1>5. CASE t = Rollup
  BY <1>1, <1>5, TaskNames DEF Answers, Worth
<1>6. ASSUME NEW r \in Reviewers, t = Primary(r) \/ t = Repair(r)
      PROVE  Answers(t) \subseteq Worth(t)
  <2>1. t # Dossier /\ t # Selection /\ t # Thread /\ t # Rollup
    BY <1>6, TaskNames
  <2>2. Answers(t) \subseteq Reports
    BY <1>6, <2>1, TaskNames DEF Answers
  <2> QED
    BY <2>1, <2>2 DEF Worth
<1> QED
  BY <1>2, <1>3, <1>4, <1>5, <1>6 DEF Tasks

LEMMA RunningUp == \A t \in Tasks : Running(t) => pc # "down"
BY TaskNames DEF Running

-----------------------------------------------------------------------------
(* Steps that leave every task alone *)

LEMMA TasksKept ==
  ASSUME TaskInv, UNCHANGED <<files, job, pass>>,
         pc' = "down" => pc = "down",
         dead => dead', firstErr # None => firstErr' # None
  PROVE  TaskInv'
<1>1. Shape'
  BY DEF TaskInv, Shape, files
<1>2. ASSUME NEW t \in Tasks PROVE Kept(t)' /\ Flying(t)'
  <2>1. Kept(t) /\ Flying(t) /\ (CtxDone(t) => CtxDone(t)')
    BY DEF TaskInv, CtxDone
  <2> QED
    BY <2>1 DEF Kept, Flying, files
<1> QED
  BY <1>1, <1>2 DEF TaskInv

LEMMA JobsForgotten ==
  ASSUME Shape, UNCHANGED <<files, pass>>, \A t \in Tasks : Kept(t),
         job' = [t \in Tasks |-> NoJob]
  PROVE  TaskInv'
<1>1. Shape'
  BY NoJobType DEF Shape, files
<1>2. ASSUME NEW t \in Tasks PROVE Kept(t)' /\ Flying(t)'
  BY DEF Kept, Flying, files, NoJob
<1> QED
  BY <1>1, <1>2 DEF TaskInv

LEMMA PassStarted ==
  ASSUME TaskInv, pc = "down", UNCHANGED <<files, job>>, pass' = pass + 1,
         pass' <= MaxPasses
  PROVE  TaskInv'
<1> USE ReviewRunAssumption
<1>1. Shape'
  BY DEF TaskInv, Shape, files
<1>2. ASSUME NEW t \in Tasks PROVE Kept(t)' /\ Flying(t)'
  <2>1. Kept(t) /\ job[t] = NoJob /\ pass \in Nat
    BY DEF TaskInv, Shape
  <2>2. Kept(t)'
    BY <2>1 DEF Kept, files
  <2>3. Flying(t)'
    BY <2>1 DEF Flying, NoJob
  <2> QED
    BY <2>2, <2>3
<1> QED
  BY <1>1, <1>2 DEF TaskInv
-----------------------------------------------------------------------------
(* The steps of one task *)

(* What a task owes to the others: it touches its own entries only. *)
Alone(t) ==
  /\ UNCHANGED <<pc, pass, dead, firstErr>>
  /\ pc # "down"
  /\ meta' = [u \in Tasks |-> meta'[u]] /\ output' \in [Tasks -> Values]
  /\ job' \in [Tasks -> Jobs]
  /\ \A u \in Tasks \ {t} :
       meta'[u] = meta[u] /\ output'[u] = output[u] /\ job'[u] = job[u]
  /\ rows \subseteq rows' /\ rows' \subseteq rows \cup {<<t, pass>>}

LEMMA OneTask ==
  ASSUME TaskInv, NEW t \in Tasks, Alone(t), pass > 0, (Kept(t) /\ Flying(t))'
  PROVE  TaskInv'
<1> USE ReviewRunAssumption
<1>1. Shape'
  BY DEF TaskInv, Shape, Alone
<1>2. ASSUME NEW u \in Tasks \ {t} PROVE Kept(u)' /\ Flying(u)'
  <2>1. \A p : <<u, p>> \in rows' <=> <<u, p>> \in rows
    BY DEF Alone
  <2>2. Kept(u)'
    BY <2>1 DEF TaskInv, Kept, Alone
  <2>3. Flying(u)'
    BY <2>1 DEF TaskInv, Flying, Alone, CtxDone
  <2> QED
    BY <2>2, <2>3
<1> QED
  BY <1>1, <1>2 DEF TaskInv

LEMMA JobChange ==
  ASSUME Shape, NEW t \in Tasks, NEW j \in Jobs, Set(t, j)
  PROVE  /\ job' \in [Tasks -> Jobs] /\ job'[t] = j
         /\ \A u \in Tasks \ {t} : job'[u] = job[u]
BY DEF Shape, Set

LEMMA LoadTask ==
  ASSUME TaskInv, Walk, NEW t \in Tasks, Load(t)
  PROVE  TaskInv'
<1> DEFINE late == CtxDone(t) /\ meta[t].session # None
           j == IF late THEN [NoJob EXCEPT !.at = "refused", !.status = "cancelled"]
                ELSE [NoJob EXCEPT !.at = "done", !.status = meta[t].status,
                                   !.value = output[t], !.session = meta[t].session]
<1>1. Running(t) /\ Reusable(t) /\ Set(t, j) /\ UNCHANGED files
      /\ UNCHANGED <<pc, pass, dead, firstErr>>
  BY DEF Load, Startable, TaskOnly, known, pool
<1>2. Kept(t) /\ Shape /\ meta[t] # None
  BY <1>1 DEF TaskInv, Reusable, Current
<1>3. j \in Jobs
  BY <1>2, NoneIsNothing DEF NoJob, Jobs, JobSteps, Kept, Shape, Classes
<1>4. Alone(t) /\ job'[t] = j
  BY <1>1, <1>2, <1>3, JobChange, RunningUp DEF Alone, files, Shape
<1>5. Kept(t)'
  BY <1>1, <1>2 DEF Kept, files
<1>6. j.at \in {"done", "refused"}
      /\ (j.at = "done" => j.status = meta[t].status /\ j.value = output[t])
      /\ (j.at = "refused" => j.status = "cancelled")
  BY DEF NoJob
<1>7. Flying(t)'
  <2> HIDE DEF j
  <2> QED
    BY <1>1, <1>2, <1>4, <1>6 DEF Flying, Kept, files
<1> QED
  BY <1>1, <1>4, <1>5, <1>7, OneTask, RunningUp DEF Walk

LEMMA RefuseTask ==
  ASSUME TaskInv, Walk, NEW t \in Tasks, Refuse(t)
  PROVE  TaskInv'
<1> DEFINE j == [NoJob EXCEPT !.at = "refused", !.status = "stale"]
<1>1. Running(t) /\ Set(t, j) /\ UNCHANGED files
      /\ UNCHANGED <<pc, pass, dead, firstErr>>
  BY DEF Refuse, Startable, TaskOnly, known, pool
<1>2. Kept(t) /\ Shape
  BY DEF TaskInv
<1>3. j \in Jobs
  BY NoneIsNothing DEF NoJob, Jobs, JobSteps, Classes
<1>4. Alone(t) /\ job'[t] = j
  BY <1>1, <1>2, <1>3, JobChange, RunningUp DEF Alone, files, Shape
<1>5. Kept(t)'
  BY <1>1, <1>2 DEF Kept, files
<1>6. Flying(t)'
  BY <1>4 DEF Flying, NoJob
<1> QED
  BY <1>1, <1>4, <1>5, <1>6, OneTask, RunningUp DEF Walk

LEMMA ReturnLateTask ==
  ASSUME TaskInv, Walk, NEW t \in Tasks, ReturnLate(t)
  PROVE  TaskInv'
<1> DEFINE j == [NoJob EXCEPT !.at = "refused", !.status = "cancelled"]
<1>1. Running(t) /\ Set(t, j) /\ UNCHANGED files
      /\ UNCHANGED <<pc, pass, dead, firstErr>>
  BY DEF ReturnLate, TaskOnly, known, pool
<1>2. Kept(t) /\ Shape
  BY DEF TaskInv
<1>3. j \in Jobs
  BY NoneIsNothing DEF NoJob, Jobs, JobSteps, Classes
<1>4. Alone(t) /\ job'[t] = j
  BY <1>1, <1>2, <1>3, JobChange, RunningUp DEF Alone, files, Shape
<1>5. Kept(t)'
  BY <1>1, <1>2 DEF Kept, files
<1>6. Flying(t)'
  BY <1>4 DEF Flying, NoJob
<1> QED
  BY <1>1, <1>4, <1>5, <1>6, OneTask, RunningUp DEF Walk

LEMMA ResetTask ==
  ASSUME TaskInv, Walk, ResetDossier
  PROVE  TaskInv'
<1>0. Dossier \in Tasks
  BY TaskNames
<1>1. Running(Dossier) /\ job[Dossier].at = "idle" /\ UNCHANGED <<rows, job>>
      /\ UNCHANGED <<pc, pass, dead, firstErr>>
  BY DEF ResetDossier, Startable, TaskOnly, known, pool
<1>2. Shape
  BY DEF TaskInv
<1>3. meta'[Dossier] = None
  BY <1>0, <1>2 DEF ResetDossier, Shape
<1>4. Alone(Dossier)
  BY <1>0, <1>1, <1>2, RunningUp, NoneIsNothing DEF Alone, ResetDossier, Shape
<1>5. Kept(Dossier)' /\ Flying(Dossier)'
  BY <1>1, <1>3 DEF Kept, Flying
<1> QED
  BY <1>0, <1>1, <1>4, <1>5, OneTask, RunningUp DEF Walk

(* A call resumes a session of the run or of the saved cohort. *)
LEMMA SeedSession ==
  ASSUME TaskInv, Walk, Covered, NEW t \in Tasks, Running(t)
  PROVE  Seed(t) \in Sessions
<1>1. CASE t \in {Dossier, Selection, Thread, Rollup}
  BY <1>1, TaskNames, NoneIsNothing DEF Seed, Walk
<1>2. ASSUME NEW r \in Reviewers, t = Primary(r) PROVE Seed(t) \in Sessions
  <2>1. t \notin {Dossier, Selection, Thread, Rollup} /\ t[1] = "reviewer" /\ t[2] = r
    BY <1>2, TaskNames
  <2>2. pc = "reviewers" /\ rpc[r] = "reviewer"
    BY <2>1 DEF Running, Walk, Phases
  <2>3. cohort # None /\ r \in DOMAIN cohort
    BY <2>2 DEF Covered
  <2>4. Seed(t) = cohort[r]
    BY <2>1 DEF Seed
  <2> QED
    BY <2>3, <2>4 DEF Covered
<1>3. ASSUME NEW r \in Reviewers, t = Repair(r) PROVE Seed(t) \in Sessions
  <2>1. t \notin {Dossier, Selection, Thread, Rollup} /\ t[1] = "repair" /\ t[2] = r
    BY <1>3, TaskNames
  <2>2. Seed(t) = job[Primary(r)].session /\ Primary(r) \in Tasks
    BY <2>1, TaskNames DEF Seed
  <2> QED
    BY <2>2 DEF TaskInv, Shape, Jobs
<1> QED
  BY <1>1, <1>2, <1>3 DEF Tasks

LEMMA CallTask ==
  ASSUME TaskInv, Walk, Covered, NEW t \in Tasks, Call(t)
  PROVE  TaskInv'
<1> DEFINE s == IF meta[t] # None /\ meta[t].session # None THEN meta[t].session ELSE Seed(t)
           j == [NoJob EXCEPT !.at = "called", !.session = s]
<1>1. Running(t) /\ Runnable(t) /\ Set(t, j) /\ UNCHANGED files
      /\ UNCHANGED <<pc, pass, dead, firstErr>>
  BY DEF Call, Startable, TaskOnly, known, pool
<1>2. Kept(t) /\ Shape
  BY DEF TaskInv
<1>3. s \in Sessions
  BY <1>1, <1>2, SeedSession DEF Kept
<1>4. j \in Jobs /\ j.at = "called"
  <2> HIDE DEF s
  <2> QED
    BY <1>3, NoneIsNothing DEF NoJob, Jobs, JobSteps
<1> HIDE DEF j
<1>5. Alone(t) /\ job'[t] = j
  BY <1>1, <1>2, <1>4, JobChange, RunningUp DEF Alone, files, Shape
<1>6. Kept(t)'
  BY <1>1, <1>2 DEF Kept, files
<1>7. Flying(t)'
  BY <1>1, <1>4, <1>5 DEF Flying, files, Runnable
<1> QED
  BY <1>1, <1>5, <1>6, <1>7, OneTask, RunningUp DEF Walk

(* The record of a call that came back. *)
Came(t, status, value, session) ==
  [at |-> "answered", status |-> status, value |-> value, session |-> session,
   cause |-> status, cut |-> CtxDone(t) \/ status = "expired"]

(* Whatever came back, its session row came first. *)
LEMMA CameBack ==
  ASSUME TaskInv, Walk, NEW t \in Tasks, Running(t), job[t].at = "called",
         NEW status \in Answering, NEW value \in Values, NEW s \in Sessions,
         Answer(t, status, value, s),
         status = "succeeded" => value \in Worth(t),
         rows' = rows \cup {<<t, pass>>} \/ (s = None /\ rows' = rows),
         UNCHANGED <<meta, output, pc, pass, dead, firstErr>>
  PROVE  TaskInv'
<1> DEFINE j == Came(t, status, value, s)
<1>1. Kept(t) /\ Flying(t) /\ Shape
  BY DEF TaskInv
<1>2. j \in Jobs
  BY DEF Came, Jobs, JobSteps
<1>3. Set(t, j)
  BY DEF Answer, Came
<1>4. /\ j.at = "answered" /\ j.status = status /\ j.value = value /\ j.session = s
      /\ j.cut = TRUE => CtxDone(t) \/ status = "expired"
  BY DEF Came
<1> HIDE DEF j
<1>5. Alone(t) /\ job'[t] = j
  BY <1>1, <1>2, <1>3, JobChange, RunningUp DEF Alone, Shape
<1>6. meta[t] = None \/ meta[t].status = "blocking"
  BY <1>1 DEF Flying
<1>7. Kept(t)'
  BY <1>1, <1>6 DEF Kept
<1>8. Flying(t)'
  BY <1>4, <1>5, <1>6 DEF Flying, CtxDone
<1> QED
  BY <1>5, <1>7, <1>8, OneTask, RunningUp DEF Walk

LEMMA ReportedSession ==
  ASSUME Shape, NEW t \in Tasks, NEW s \in Reported(t)
  PROVE  s \in Sessions
BY TaskNames DEF Reported, Shape, Jobs

LEMMA ReturnTask ==
  ASSUME TaskInv, Walk, NEW t \in Tasks, Return(t)
  PROVE  TaskInv'
<1>1. PICK s \in Reported(t) :
        /\ \/ \E v \in Answers(t) : Answer(t, "succeeded", v, s)
           \/ \E status \in {"invalid", "failed", "expired"} : Answer(t, status, None, s)
        /\ rows' = rows \cup {<<t, pass>>}
  BY DEF Return
<1>2. s \in Sessions
  BY ReportedSession DEF TaskInv
<1>3. /\ Running(t) /\ job[t].at = "called"
      /\ UNCHANGED <<meta, output, pc, pass, dead, firstErr>>
  BY DEF Return, TaskOnly, known, pool
<1>4. Answers(t) \subseteq Worth(t) /\ Worth(t) \subseteq Values
  BY AnswersWorth, WorthIsValue, ReviewRunAssumption DEF Walk, TaskInv, Shape
<1>5. ASSUME NEW v \in Answers(t), Answer(t, "succeeded", v, s) PROVE TaskInv'
  BY <1>1, <1>2, <1>3, <1>4, <1>5, CameBack DEF Answering
<1>6. ASSUME NEW status \in {"invalid", "failed", "expired"}, Answer(t, status, None, s)
      PROVE  TaskInv'
  BY <1>1, <1>2, <1>3, <1>6, CameBack, NoneIsNothing DEF Answering
<1> QED
  BY <1>1, <1>5, <1>6

LEMMA ReturnNothingTask ==
  ASSUME TaskInv, Walk, NEW t \in Tasks, ReturnNothing(t)
  PROVE  TaskInv'
<1>1. /\ Running(t) /\ job[t].at = "called" /\ rows' = rows
      /\ UNCHANGED <<meta, output, pc, pass, dead, firstErr>>
  BY DEF ReturnNothing, TaskOnly, known, pool, files
<1>2. PICK status \in {"failed", "tried", "expired"} : Answer(t, status, None, None)
  BY DEF ReturnNothing
<1> QED
  BY <1>1, <1>2, CameBack, NoneIsNothing DEF Answering

LEMMA WriteOutputTask ==
  ASSUME TaskInv, Walk, NEW t \in Tasks, WriteOutput(t)
  PROVE  TaskInv'
<1> DEFINE j == [job[t] EXCEPT !.at = "stored"]
<1>1. /\ Running(t) /\ job[t].at = "answered" /\ job[t].status = "succeeded"
      /\ output' = [output EXCEPT ![t] = job[t].value] /\ Set(t, j)
      /\ UNCHANGED <<meta, rows, pc, pass, dead, firstErr>>
  BY DEF WriteOutput, TaskOnly, known, pool
<1>2. Kept(t) /\ Flying(t) /\ Shape
  BY DEF TaskInv
<1>3. /\ j \in Jobs /\ j.at = "stored" /\ j.status = job[t].status
      /\ j.value = job[t].value /\ j.session = job[t].session /\ j.cut = job[t].cut
  BY <1>2 DEF Shape, Jobs, JobSteps
<1> HIDE DEF j
<1>4. job[t].value \in Values
  BY <1>2 DEF Shape, Jobs
<1>5. Alone(t) /\ job'[t] = j /\ output'[t] = job[t].value
  BY <1>1, <1>2, <1>3, <1>4, JobChange, RunningUp DEF Alone, Shape
<1>6. Kept(t)'
  BY <1>1, <1>2, <1>5 DEF Kept, Flying
<1>7. Flying(t)'
  BY <1>1, <1>2, <1>3, <1>5 DEF Flying, CtxDone
<1> QED
  BY <1>1, <1>5, <1>6, <1>7, OneTask, RunningUp DEF Walk

LEMMA WriteMetaTask ==
  ASSUME TaskInv, Walk, NEW t \in Tasks, WriteMeta(t)
  PROVE  TaskInv'
<1> DEFINE j == [job[t] EXCEPT !.at = "done", !.status = FinalStatus(t)]
           m == [status |-> FinalStatus(t), input |-> Input(t),
                 session |-> job[t].session, pass |-> pass, cut |-> job[t].cut]
<1>1. /\ Running(t)
      /\ job[t].at = "stored" \/ (job[t].at = "answered" /\ job[t].status # "succeeded")
      /\ meta' = [meta EXCEPT ![t] = m] /\ Set(t, j)
      /\ UNCHANGED <<output, rows, pc, pass, dead, firstErr>>
  BY DEF WriteMeta, TaskOnly, known, pool
<1>2. Kept(t) /\ Flying(t) /\ Shape /\ pass > 0
  BY <1>1, RunningUp DEF TaskInv, Walk
<1>3. /\ FinalStatus(t) \in Statuses
      /\ FinalStatus(t) = "succeeded" => job[t].at = "stored" /\ job[t].status = "succeeded"
      /\ FinalStatus(t) = "isolated" => ~CtxDone(t) /\ job[t].status # "expired"
  BY <1>1 DEF FinalStatus, Statuses
<1>4. /\ m.status = FinalStatus(t) /\ m.session = job[t].session /\ m.pass = pass
      /\ m.cut = job[t].cut
  OBVIOUS
<1>5. /\ j \in Jobs /\ j.at = "done" /\ j.status = FinalStatus(t)
      /\ j.value = job[t].value
  BY <1>2, <1>3 DEF Shape, Jobs, JobSteps
<1>6. job[t].session \in Sessions /\ job[t].cut \in BOOLEAN
  BY <1>2 DEF Shape, Jobs
<1> HIDE DEF j, m
<1>7. Alone(t) /\ job'[t] = j /\ meta'[t] = m
  BY <1>1, <1>2, <1>5, JobChange, RunningUp DEF Alone, Shape
<1>8. Kept(t)'
  <2>1. m.status = "succeeded" => output[t] \in Worth(t)
    BY <1>2, <1>3, <1>4 DEF Flying
  <2>2. m.session # None => <<t, m.pass>> \in rows
    BY <1>1, <1>2, <1>4 DEF Flying
  <2>3. m.status = "isolated" => m.cut = FALSE
    BY <1>1, <1>2, <1>3, <1>4, <1>6 DEF Flying
  <2>4. \A p \in 1..MaxPasses : <<t, p>> \in rows => p <= m.pass
    BY <1>2, <1>4, ReviewRunAssumption DEF Shape
  <2> QED
    BY <1>1, <1>2, <1>3, <1>4, <1>6, <1>7, <2>1, <2>2, <2>3, <2>4, ReviewRunAssumption
       DEF Kept, Shape
<1>9. Flying(t)'
  BY <1>1, <1>2, <1>3, <1>4, <1>5, <1>7 DEF Flying
<1> QED
  BY <1>1, <1>7, <1>8, <1>9, <1>2, OneTask, RunningUp

LEMMA TaskSteps ==
  ASSUME IInv, NEW t \in Tasks, TaskStep(t)
  PROVE  TaskInv'
BY LoadTask, RefuseTask, CallTask, ReturnTask, ReturnNothingTask, ReturnLateTask,
   WriteOutputTask, WriteMetaTask DEF IInv, TaskStep

LEMMA FaultType == faults \in 0..MaxFaults /\ Fault => faults' \in 0..MaxFaults
BY ReviewRunAssumption DEF Fault

(* A task changes neither the walk nor, while a cohort is saved, the        *)
(* selection that the cohort covers.                                        *)
LEMMA WalkAlong ==
  ASSUME Walk, TaskOnly, faults' = faults \/ Fault
  PROVE  Walk'
<1>1. faults' \in 0..MaxFaults
  BY FaultType DEF Walk
<1> QED
  BY <1>1 DEF Walk, TaskOnly, saved, host, known, chosen, pool

LEMMA CoveredAlong ==
  ASSUME Covered, UNCHANGED <<cohort, sel, reused, rpc, pc>>,
         meta'[Selection] = meta[Selection], output'[Selection] = output[Selection]
  PROVE  Covered'
BY DEF Covered, Selects

LEMMA SelectionWritten ==
  ASSUME TaskInv, Walk, Covered, Running(Selection),
         job[Selection].at \in {"answered", "stored"},
         UNCHANGED <<cohort, sel, reused, rpc, pc>>
  PROVE  Covered'
<1>1. pc = "selection"
  BY TaskNames DEF Running, Walk
<1>2. meta[Selection] = None \/ meta[Selection].status = "blocking"
  BY TaskNames DEF TaskInv, Flying
<1>3. cohort = None
  BY <1>1, <1>2 DEF Covered, Selects
<1> QED
  BY <1>1, <1>3 DEF Covered

LEMMA TaskFrame ==
  ASSUME IInv, NEW t \in Tasks, TaskStep(t)
  PROVE  Walk' /\ Covered'
<1>1. TaskOnly /\ (faults' = faults \/ Fault)
  BY DEF TaskStep, Load, Refuse, Call, Return, ReturnNothing, ReturnLate, WriteOutput, WriteMeta
<1>2. UNCHANGED <<cohort, sel, reused, rpc, pc>>
  BY <1>1 DEF TaskOnly, saved, chosen, pool
<1>3. CASE Load(t) \/ Refuse(t) \/ Call(t) \/ Return(t) \/ ReturnNothing(t) \/ ReturnLate(t)
  <2>1. UNCHANGED <<meta, output>>
    BY <1>3 DEF Load, Refuse, Call, Return, ReturnNothing, ReturnLate, files
  <2> QED
    BY <1>1, <1>2, <2>1, WalkAlong, CoveredAlong DEF IInv
<1>4. CASE WriteOutput(t) \/ WriteMeta(t)
  <2>1. Running(t) /\ job[t].at \in {"answered", "stored"}
    BY <1>4 DEF WriteOutput, WriteMeta
  <2>2. CASE t = Selection
    BY <1>1, <1>2, <2>1, <2>2, WalkAlong, SelectionWritten DEF IInv
  <2>3. CASE t # Selection
    <3>1. meta'[Selection] = meta[Selection] /\ output'[Selection] = output[Selection]
      BY <1>4, <2>3, TaskNames DEF WriteOutput, WriteMeta, IInv, TaskInv, Shape
    <3> QED
      BY <1>1, <1>2, <3>1, WalkAlong, CoveredAlong DEF IInv
  <2> QED
    BY <2>2, <2>3
<1> QED
  BY <1>3, <1>4 DEF TaskStep

LEMMA ResetFrame == IInv /\ ResetDossier => Walk' /\ Covered'
<1> SUFFICES ASSUME IInv, ResetDossier PROVE Walk' /\ Covered'
  OBVIOUS
<1>1. TaskOnly /\ faults' = faults
  BY DEF ResetDossier
<1>2. UNCHANGED <<cohort, sel, reused, rpc, pc>>
  BY <1>1 DEF TaskOnly, saved, chosen, pool
<1>3. Dossier # Selection /\ Selection \in Tasks
  BY TaskNames
<1>4. meta'[Selection] = meta[Selection] /\ output'[Selection] = output[Selection]
  BY <1>3 DEF ResetDossier, IInv, TaskInv, Shape
<1> QED
  BY <1>1, <1>2, <1>4, WalkAlong, CoveredAlong DEF IInv

-----------------------------------------------------------------------------
(* The end of a pass *)

LEMMA PassForgotten ==
  ASSUME IInv, Forget, UNCHANGED <<files, pass, cohort, discussion>>, pc' = "down",
         named' \in Sessions, reply' \in {"none", "pending", "posted"},
         outcome' \in {"open", "incomplete", "failed", "planned"},
         faults' \in 0..MaxFaults
  PROVE  IInv'
<1>1. TaskInv'
  BY JobsForgotten DEF IInv, TaskInv, Forget
<1>2. DOMAIN sel' = {}
  BY DEF Forget
<1>3. Walk'
  BY <1>2, NoneIsNothing DEF IInv, Walk, Forget, Phases
<1>4. Covered'
  BY DEF IInv, Covered, Selects, files
<1> QED
  BY <1>1, <1>3, <1>4 DEF IInv

LEMMA OutcomeType ==
  ASSUME Walk, NEW class \in Classes
  PROVE  OutcomeOf(class) \in {"open", "incomplete", "failed", "planned"}
BY DEF OutcomeOf, Classes, Walk

LEMMA PassEnded ==
  ASSUME IInv, NEW class \in Classes, NEW t, EndPass(class, t),
         UNCHANGED <<files, cohort, discussion, faults>>, named' \in Sessions
  PROVE  IInv'
<1> DEFINE c == IF dead THEN "cancelled" ELSE class
<1>1. c \in Classes
  BY DEF Classes
<1>2. pc' = "down" /\ outcome' = OutcomeOf(c) /\ Forget /\ UNCHANGED <<pass, reply>>
  BY DEF EndPass
<1>3. outcome' \in {"open", "incomplete", "failed", "planned"}
  <2> HIDE DEF c
  <2> QED
    BY <1>1, <1>2, OutcomeType DEF IInv
<1> QED
  BY <1>2, <1>3, PassForgotten DEF IInv, Walk

LEMMA BlockedClass == \A t : Blocked(t) \in Classes
BY DEF Blocked, Classes

(* The verdict of a task that ended its pass. *)
LEMMA RefusedClass ==
  ASSUME TaskInv, NEW t \in Tasks, job[t].at = "refused"
  PROVE  job[t].status \in Classes
BY DEF TaskInv, Flying, Classes

LEMMA SessionType == TaskInv => \A t \in Tasks : job[t].session \in Sessions
BY DEF TaskInv, Shape, Jobs

-----------------------------------------------------------------------------
(* The phases *)

LEMMA StepOn ==
  ASSUME TaskInv, UNCHANGED <<files, job, pass, dead, firstErr>>, pc' # "down"
  PROVE  TaskInv'
BY TasksKept

LEMMA StartPassStep == IInv /\ StartPass => IInv'
<1> SUFFICES ASSUME IInv, StartPass PROVE IInv'
  OBVIOUS
<1>1. /\ pc = "down" /\ pass < MaxPasses /\ pass' = pass + 1
      /\ UNCHANGED <<files, saved, host, reply, chosen, orch, job, pool, faults>>
      /\ \/ pc' = "down" /\ outcome' = "failed" /\ seen' = seen
         \/ pc' = "dossier" /\ outcome' = outcome /\ seen' = discussion
  BY DEF StartPass
<1>2. pass \in Nat /\ MaxPasses \in Nat
  BY ReviewRunAssumption DEF IInv, TaskInv, Shape
<1>3. TaskInv'
  BY <1>1, <1>2, PassStarted DEF IInv
<1>4. Walk'
  BY <1>1, <1>2 DEF IInv, Walk, Phases, saved, host, chosen, pool
<1>5. Covered'
  BY <1>1 DEF IInv, Covered, Selects, files, saved
<1> QED
  BY <1>3, <1>4, <1>5 DEF IInv

LEMMA AfterDossierStep == IInv /\ AfterDossier => IInv'
<1> SUFFICES ASSUME IInv, AfterDossier PROVE IInv'
  OBVIOUS
<1>1. UNCHANGED <<files, saved, host, faults>> /\ Dossier \in Tasks
  BY TaskNames DEF AfterDossier
<1>2. CASE Advance("cohort") /\ UNCHANGED <<reply, chosen, orch, job, pool>>
  <2>1. pc = "dossier"
    BY DEF AfterDossier
  <2>2. TaskInv'
    BY <1>1, <1>2, StepOn DEF IInv, Advance, known, pool
  <2>3. Walk'
    BY <1>1, <1>2, <2>1 DEF IInv, Walk, Advance, Phases, saved, host, known, chosen, pool
  <2>4. Covered'
    BY <1>1, <1>2 DEF IInv, Covered, Selects, Advance, files, saved
  <2> QED
    BY <2>2, <2>3, <2>4 DEF IInv
<1>3. ASSUME NEW class \in Classes, EndPass(class, Dossier) PROVE IInv'
  BY <1>1, <1>3, PassEnded DEF IInv, Walk, saved, host
<1> QED
  BY <1>1, <1>2, <1>3, BlockedClass, RefusedClass DEF AfterDossier, IInv

LEMMA NewestHeld ==
  ASSUME TaskInv, Held # {}
  PROVE  Newest \in Held
<1> DEFINE Last(t) == \A u \in Held :
             \/ meta[u].pass < meta[t].pass
             \/ meta[u].pass = meta[t].pass /\ Order(u) <= Order(t)
<1>1. \A t \in Held : meta[t].pass \in Nat /\ Order(t) \in Nat
  <2>1. \A t \in {Selection, Thread, Rollup} : t \in Tasks /\ Order(t) \in Nat
    BY TaskNames DEF Order
  <2>2. ASSUME NEW t \in Tasks, meta[t] # None PROVE meta[t].pass \in Nat
    <3>1. pass \in Nat
      BY ReviewRunAssumption DEF TaskInv, Shape
    <3>2. meta[t].pass \in 1..pass
      BY <2>2 DEF TaskInv, Kept
    <3> QED
      BY <3>1, <3>2
  <2> QED
    BY <2>1, <2>2 DEF Held
<1>2. \E t \in Held : Last(t)
  <2>1. Held \subseteq {Selection, Thread, Rollup}
    BY DEF Held
  <2>2. ASSUME NEW a \in Held, NEW b \in Held, NEW c \in Held, Held = {a, b, c}
        PROVE  \E t \in Held : Last(t)
    BY <1>1, <2>2, SMTT(60)
  <2>3. \E a, b, c \in Held : Held = {a, b, c}
    <3>1. PICK d \in Held : TRUE
      OBVIOUS
    <3> DEFINE Or(t) == IF t \in Held THEN t ELSE d
    <3>2. /\ Or(Selection) \in Held /\ Or(Thread) \in Held /\ Or(Rollup) \in Held
          /\ Held = {Or(Selection), Or(Thread), Or(Rollup)}
      BY <2>1, <3>1
    <3> QED
      BY <3>2
  <2> QED
    BY <2>2, <2>3
<1> QED
  BY <1>2 DEF Newest

LEMMA RestoredSession ==
  ASSUME TaskInv, Walk
  PROVE  Restored \in Sessions
<1>1. CASE Held = {}
  BY <1>1 DEF Restored, Walk
<1>2. CASE Held # {}
  <2>1. Newest \in Held
    BY <1>2, NewestHeld
  <2>2. meta[Newest].session \in Sessions
    BY <2>1, TaskNames DEF Held, TaskInv, Kept
  <2> QED
    BY <1>2, <2>2 DEF Restored
<1> QED
  BY <1>1, <1>2

LEMMA LoadCohortStep == IInv /\ LoadCohort => IInv'
<1> SUFFICES ASSUME IInv, LoadCohort PROVE IInv'
  OBVIOUS
<1>1. /\ pc = "cohort" /\ pc' # "down" /\ pc' \in Phases
      /\ UNCHANGED <<files, host, reply, outcome, known, job, pool, faults>>
  BY DEF LoadCohort, Advance, AfterSelecting, Phases
<1>2. TaskInv'
  BY <1>1, StepOn DEF IInv, known, pool
<1>3. CASE NoCohort
  <2>1. /\ cohort' = None /\ named' \in {None, named} /\ orch' = named'
        /\ reused' = FALSE /\ sel' = sel /\ pc' = "selection"
    BY <1>3 DEF LoadCohort, Advance
  <2>2. Walk'
    BY <1>1, <2>1, NoneIsNothing DEF IInv, Walk, host, known, pool
  <2>3. Covered'
    BY <2>1 DEF Covered
  <2> QED
    BY <1>2, <2>2, <2>3 DEF IInv
<1>4. CASE ~NoCohort
  <2> DEFINE D == Members \cup Required
  <2>1. /\ cohort' = Joined /\ named' = named /\ orch' = Restored /\ reused' = TRUE
        /\ \/ SelectionInRun /\ sel' = sel /\ pc' = "selection"
           \/ sel' = WithRequired(Members, "reused") /\ pc' \in {"thread", "checkpoint"}
    BY <1>4 DEF LoadCohort, Advance, AfterSelecting
  <2>2. /\ cohort # None /\ Members = DOMAIN cohort /\ D \subseteq Reviewers
        /\ cohort \in [DOMAIN cohort -> Sessions]
    BY <1>4, ReviewRunAssumption DEF NoCohort, Members, IInv, Covered
  <2>3. Joined \in [D -> Sessions] /\ DOMAIN Joined = D
    BY <2>2, NoneIsNothing DEF Joined
  <2>4. cohort' # None /\ DOMAIN cohort' = D /\ cohort' \in [D -> Sessions]
    BY <2>1, <2>2, <2>3, NoneAssumption
  <2>5. DOMAIN WithRequired(Members, "reused") = D
    BY DEF WithRequired
  <2>6. Walk'
    BY <1>1, <2>1, <2>2, <2>5, RestoredSession DEF IInv, Walk, host, known, pool
  <2>7. meta[Selection] # None => \E S \in SUBSET D : Selects(S)'
    BY <1>1, <2>2 DEF IInv, Covered, Selects, files
  <2>8. Covered'
    <3> HIDE DEF D
    <3>1. CASE SelectionInRun /\ sel' = sel /\ pc' = "selection"
      BY <1>1, <2>1, <2>2, <2>4, <2>7, <3>1 DEF Covered, files, SelectionInRun, D
    <3>2. CASE sel' = WithRequired(Members, "reused") /\ pc' \in {"thread", "checkpoint"}
      BY <1>1, <2>2, <2>4, <2>5, <2>7, <3>2 DEF Covered, files, D
    <3> QED
      BY <2>1, <3>1, <3>2
  <2> QED
    BY <1>2, <2>6, <2>8 DEF IInv
<1> QED
  BY <1>3, <1>4

(* What a finished selection names is what the run has stored.             *)
LEMMA SelectionDone ==
  ASSUME TaskInv, Done(Selection), job[Selection].status = "succeeded"
  PROVE  /\ job[Selection].value \subseteq Reviewers
         /\ Selects(DOMAIN WithRequired(job[Selection].value, "chosen"))
         /\ DOMAIN WithRequired(job[Selection].value, "chosen") \subseteq Reviewers
<1>1. Flying(Selection)
  BY TaskNames DEF TaskInv
<1>2. DOMAIN WithRequired(job[Selection].value, "chosen") = job[Selection].value \cup Required
  BY DEF WithRequired
<1> QED
  BY <1>1, <1>2, ReviewRunAssumption DEF Flying, Done, Selects, Worth

LEMMA AfterSelectionStep == IInv /\ AfterSelection => IInv'
<1> SUFFICES ASSUME IInv, AfterSelection PROVE IInv'
  OBVIOUS
<1>1. /\ pc = "selection" /\ UNCHANGED <<files, cohort, host, faults>>
      /\ Selection \in Tasks /\ job[Selection].session \in Sessions
  BY TaskNames, SessionType DEF AfterSelection, IInv
<1>2. ASSUME Done(Selection), job[Selection].status = "succeeded",
             Checkpoint(Selection), sel' = WithRequired(job[Selection].value, "chosen"),
             Advance(IF reused THEN AfterSelecting ELSE "persist"),
             UNCHANGED <<reply, reused, selDep, job, pool>>
      PROVE  IInv'
  <2>1. /\ pc' \in {"thread", "checkpoint", "persist"}
        /\ (pc' = "persist") = ~reused
        /\ UNCHANGED <<known, outcome>>
    BY <1>2 DEF Advance, AfterSelecting, IInv, Covered
  <2>2. TaskInv'
    BY <1>1, <1>2, <2>1, StepOn DEF IInv, known, pool
  <2>3. named' \in Sessions /\ orch' \in Sessions
    BY <1>1, <1>2 DEF Checkpoint, IInv, Walk
  <2>4. Selects(DOMAIN sel') /\ DOMAIN sel' \subseteq Reviewers
    BY <1>2, SelectionDone DEF IInv
  <2>5. Walk'
    BY <1>1, <1>2, <2>1, <2>3, <2>4 DEF IInv, Walk, Phases, host, known, pool
  <2>6. cohort # None => DOMAIN sel' \subseteq DOMAIN cohort
    BY <1>1, <2>4 DEF IInv, Covered, Selects
  <2>7. Covered'
    BY <1>1, <1>2, <2>1, <2>4, <2>6 DEF IInv, Covered, Selects, files
  <2> QED
    BY <2>2, <2>5, <2>7 DEF IInv
<1>3. ASSUME NEW class \in Classes, EndPass(class, Selection), named' \in Sessions
      PROVE  IInv'
  BY <1>1, <1>3, PassEnded DEF host
<1>4. "cancelled" \in Classes /\ named \in Sessions
      /\ (KeepNamed(Selection) => named' \in Sessions)
  BY <1>1 DEF Classes, KeepNamed, IInv, Walk
<1> QED
  BY <1>1, <1>2, <1>3, <1>4, BlockedClass, RefusedClass DEF AfterSelection, IInv

LEMMA PersistCohortStep == IInv /\ PersistCohort => IInv'
<1> SUFFICES ASSUME IInv, PersistCohort PROVE IInv'
  OBVIOUS
<1>1. /\ pc = "persist" /\ pc' \in {"thread", "checkpoint"}
      /\ UNCHANGED <<files, named, host, reply, outcome, known, chosen, orch, job, pool, faults>>
      /\ cohort' = IF DOMAIN sel = {} THEN cohort ELSE [r \in DOMAIN sel |-> None]
  BY DEF PersistCohort, Advance, AfterSelecting, Selected
<1>2. TaskInv'
  BY <1>1, StepOn DEF IInv, known, pool
<1>3. Walk'
  BY <1>1 DEF IInv, Walk, Phases, host, known, chosen, pool
<1>4. cohort = None /\ Selects(DOMAIN sel) /\ DOMAIN sel \subseteq Reviewers
  BY <1>1 DEF IInv, Covered, Walk
<1>5. [r \in DOMAIN sel |-> None] \in [DOMAIN sel -> Sessions]
  BY NoneIsNothing
<1>6. DOMAIN sel # {} => cohort' # None /\ DOMAIN cohort' = DOMAIN sel
                         /\ cohort' \in [DOMAIN sel -> Sessions]
  BY <1>1, <1>4, <1>5, NoneAssumption
<1>7. Covered'
  BY <1>1, <1>4, <1>6 DEF Covered, Selects, files, chosen
<1> QED
  BY <1>2, <1>3, <1>7 DEF IInv

LEMMA AfterThreadStep == IInv /\ AfterThread => IInv'
<1> SUFFICES ASSUME IInv, AfterThread PROVE IInv'
  OBVIOUS
<1>1. /\ pc = "thread" /\ UNCHANGED <<files, cohort, host, faults>>
      /\ Thread \in Tasks /\ job[Thread].session \in Sessions
  BY TaskNames, SessionType DEF AfterThread, IInv
<1>2. ASSUME Checkpoint(Thread), Advance("checkpoint"),
             UNCHANGED <<reply, chosen, job, pool>>
      PROVE  IInv'
  <2>1. pc' = "checkpoint" /\ UNCHANGED <<known, outcome>>
    BY <1>2 DEF Advance
  <2>2. TaskInv'
    BY <1>1, <1>2, <2>1, StepOn DEF IInv, known, pool
  <2>3. named' \in Sessions /\ orch' \in Sessions
    BY <1>1, <1>2 DEF Checkpoint, IInv, Walk
  <2>4. Walk'
    BY <1>1, <1>2, <2>1, <2>3 DEF IInv, Walk, Phases, host, known, chosen, pool
  <2>5. Covered'
    BY <1>1, <1>2, <2>1 DEF IInv, Covered, Selects, files, chosen
  <2> QED
    BY <2>2, <2>4, <2>5 DEF IInv
<1>3. ASSUME NEW class \in Classes, EndPass(class, Thread), named' \in Sessions
      PROVE  IInv'
  BY <1>1, <1>3, PassEnded DEF host
<1>4. "cancelled" \in Classes /\ named \in Sessions
      /\ (KeepNamed(Thread) => named' \in Sessions)
  BY <1>1 DEF Classes, KeepNamed, IInv, Walk
<1> QED
  BY <1>1, <1>2, <1>3, <1>4, BlockedClass, RefusedClass DEF AfterThread, IInv

LEMMA AfterRollupStep == IInv /\ AfterRollup => IInv'
<1> SUFFICES ASSUME IInv, AfterRollup PROVE IInv'
  OBVIOUS
<1>1. /\ pc = "rollup" /\ UNCHANGED <<files, cohort, host, faults>>
      /\ Rollup \in Tasks /\ job[Rollup].session \in Sessions
  BY TaskNames, SessionType DEF AfterRollup, IInv
<1>2. ASSUME Checkpoint(Rollup), Advance("plan"), UNCHANGED <<reply, chosen, job, pool>>
      PROVE  IInv'
  <2>1. pc' = "plan" /\ UNCHANGED <<known, outcome>>
    BY <1>2 DEF Advance
  <2>2. TaskInv'
    BY <1>1, <1>2, <2>1, StepOn DEF IInv, known, pool
  <2>3. named' \in Sessions /\ orch' \in Sessions
    BY <1>1, <1>2 DEF Checkpoint, IInv, Walk
  <2>4. Walk'
    BY <1>1, <1>2, <2>1, <2>3 DEF IInv, Walk, Phases, host, known, chosen, pool
  <2>5. Covered'
    BY <1>1, <1>2, <2>1 DEF IInv, Covered, Selects, files, chosen
  <2> QED
    BY <2>2, <2>4, <2>5 DEF IInv
<1>3. ASSUME NEW class \in Classes, EndPass(class, Rollup), named' \in Sessions
      PROVE  IInv'
  BY <1>1, <1>3, PassEnded DEF host
<1>4. "cancelled" \in Classes /\ named \in Sessions
      /\ (KeepNamed(Rollup) => named' \in Sessions)
  BY <1>1 DEF Classes, KeepNamed, IInv, Walk
<1> QED
  BY <1>1, <1>2, <1>3, <1>4, BlockedClass, RefusedClass DEF AfterRollup, IInv

LEMMA PlanReplyStep == IInv /\ PlanReply => IInv'
<1> SUFFICES ASSUME IInv, PlanReply PROVE IInv'
  OBVIOUS
<1>1. /\ pc = "checkpoint" /\ pc' = "post" /\ reply' \in {reply, "pending"}
      /\ UNCHANGED <<files, saved, host, outcome, known, chosen, orch, job, pool, faults>>
  BY DEF PlanReply, Advance
<1>2. TaskInv'
  BY <1>1, StepOn DEF IInv, known, pool
<1>3. Walk'
  BY <1>1 DEF IInv, Walk, Phases, saved, host, known, chosen, pool
<1>4. Covered'
  BY <1>1 DEF IInv, Covered, Selects, files, saved, chosen
<1> QED
  BY <1>2, <1>3, <1>4 DEF IInv

LEMMA DiscussionType ==
  \A d \in Nat : Answered(d) \in Nat /\ Commented(d) \in Nat
BY DEF Answered, Commented, Pending

(* Steps on the host and in the reply's row.                                *)
LEMMA HostStep ==
  ASSUME IInv, UNCHANGED <<files, saved, outcome, pc, known, chosen, orch, job, pool, faults>>,
         discussion' \in Nat, reply' \in {"none", "pending", "posted"}
  PROVE  IInv'
<1>1. TaskInv'
  BY TasksKept DEF IInv, known, pool
<1>2. Walk'
  BY DEF IInv, Walk, saved, known, chosen, pool
<1>3. Covered'
  BY DEF IInv, Covered, Selects, files, saved, chosen, pool
<1> QED
  BY <1>1, <1>2, <1>3 DEF IInv

LEMMA HostSteps == IInv /\ (PostReply \/ MarkPosted \/ Comment) => IInv'
<1> SUFFICES ASSUME IInv, PostReply \/ MarkPosted \/ Comment PROVE IInv'
  OBVIOUS
<1>1. UNCHANGED <<files, saved, outcome, pc, known, chosen, orch, job, pool, faults>>
  BY DEF PostReply, MarkPosted, Comment
<1>2. discussion' \in Nat
  BY DiscussionType DEF PostReply, MarkPosted, Comment, host, IInv, Walk
<1>3. reply' \in {"none", "pending", "posted"}
  BY DEF PostReply, MarkPosted, Comment, IInv, Walk
<1> QED
  BY <1>1, <1>2, <1>3, HostStep

LEMMA StartReviewersStep == IInv /\ StartReviewers => IInv'
<1> SUFFICES ASSUME IInv, StartReviewers PROVE IInv'
  OBVIOUS
<1>1. /\ pc = "post" /\ pc' = "reviewers"
      /\ UNCHANGED <<files, saved, host, reply, outcome, known, chosen, orch, job, firstErr>>
      /\ rpc' = [r \in Reviewers |-> IF r \in DOMAIN sel THEN "waiting" ELSE "none"]
  BY DEF StartReviewers, Advance, Selected
<1>2. TaskInv'
  BY <1>1, StepOn DEF IInv, known
<1>3. faults' \in 0..MaxFaults
  BY FaultType DEF StartReviewers, IInv, Walk
<1>4. Walk'
  BY <1>1, <1>3 DEF IInv, Walk, Phases, saved, host, known, chosen
<1>5. Covered'
  BY <1>1 DEF IInv, Covered, Selects, files, saved, chosen
<1> QED
  BY <1>2, <1>4, <1>5 DEF IInv

LEMMA StopBetweenStep == IInv /\ StopBetween => IInv'
<1>1. "cancelled" \in Classes
  BY DEF Classes
<1> QED
  BY <1>1, PassEnded DEF StopBetween, saved, host, IInv, Walk

-----------------------------------------------------------------------------
(* The reviewers' goroutines *)

(* A goroutine moves; at most its agent's saved session changes.            *)
LEMMA ReviewerMoves ==
  ASSUME IInv, NEW r \in Reviewers, PoolOnly, pc = "reviewers",
         NEW to \in {"waiting", "reviewer", "repair", "done", "gone", "error"},
         Move(r, to), rpc[r] # "none",
         firstErr' = firstErr \/ (firstErr = None /\ firstErr'[1] \in Classes
                                                  /\ firstErr' # None),
         NEW s \in Sessions, cohort' = cohort \/ cohort' = [cohort EXCEPT ![r] = s]
  PROVE  IInv'
<1>1. UNCHANGED <<files, named, host, reply, outcome, pc, known, chosen, orch, job, faults>>
  BY DEF PoolOnly
<1>2. TaskInv'
  BY <1>1, TasksKept DEF IInv, known
<1>3. Walk'
  BY <1>1 DEF IInv, Walk, Move, host, known, chosen
<1>4. /\ cohort # None /\ r \in DOMAIN cohort /\ DOMAIN cohort \subseteq Reviewers
      /\ cohort \in [DOMAIN cohort -> Sessions] /\ r \in DOMAIN sel
  BY DEF IInv, Covered
<1>5. cohort' \in [DOMAIN cohort -> Sessions] /\ DOMAIN cohort' = DOMAIN cohort
  BY <1>4
<1>6. cohort' # None
  BY <1>4, <1>5, NoneAssumption
<1>7. \A q \in Reviewers : rpc'[q] # "none" => q \in DOMAIN sel
  BY <1>4 DEF Move, IInv, Walk, Covered
<1>8. Covered'
  BY <1>1, <1>4, <1>5, <1>6, <1>7 DEF IInv, Covered, Selects, files, chosen
<1> QED
  BY <1>2, <1>3, <1>8 DEF IInv

(* The first error of the batch is kept.                                    *)
LEMMA FirstError ==
  ASSUME Walk, NEW r, NEW class \in Classes, NEW t \in Tasks, Fail(r, class, t)
  PROVE  /\ Move(r, "error")
         /\ firstErr' = firstErr \/ (firstErr = None /\ firstErr'[1] \in Classes
                                                     /\ firstErr' # None)
<1>1. <<class, t>>[1] \in Classes
  OBVIOUS
<1> QED
  BY <1>1 DEF Fail

LEMMA AcquireStep == ASSUME IInv, NEW r \in Reviewers, Acquire(r) PROVE IInv'
<1>1. /\ PoolOnly /\ pc = "reviewers" /\ rpc[r] = "waiting" /\ Move(r, "reviewer")
      /\ cohort' = cohort /\ firstErr' = firstErr
  BY DEF Acquire
<1> QED
  BY <1>1, ReviewerMoves, NoneIsNothing

LEMMA GiveUpStep == ASSUME IInv, NEW r \in Reviewers, GiveUp(r) PROVE IInv'
<1>1. /\ PoolOnly /\ pc = "reviewers" /\ rpc[r] = "waiting" /\ Move(r, "gone")
      /\ cohort' = cohort /\ firstErr' = firstErr
  BY DEF GiveUp
<1> QED
  BY <1>1, ReviewerMoves, NoneIsNothing

LEMMA AfterPrimaryStep == ASSUME IInv, NEW r \in Reviewers, AfterPrimary(r) PROVE IInv'
<1> DEFINE t == Primary(r)
           j == job[t]
<1>1. /\ PoolOnly /\ pc = "reviewers" /\ rpc[r] = "reviewer"
      /\ cohort' = cohort \/ cohort' = [cohort EXCEPT ![r] = j.session]
  BY DEF AfterPrimary
<1>2. t \in Tasks /\ j.session \in Sessions
  BY TaskNames, SessionType DEF IInv
<1>3. ASSUME NEW class \in Classes, Fail(r, class, t) PROVE IInv'
  BY <1>1, <1>2, <1>3, FirstError, ReviewerMoves DEF IInv
<1>4. ASSUME NEW to \in {"repair", "done"}, Move(r, to), firstErr' = firstErr
      PROVE  IInv'
  BY <1>1, <1>2, <1>4, ReviewerMoves
<1>5. \/ j.at = "refused" /\ Fail(r, j.status, t)
      \/ Fail(r, "cancelled", t)
      \/ Fail(r, Blocked(t), t)
      \/ Move(r, IF j.value = "gap" THEN "repair" ELSE "done") /\ firstErr' = firstErr
  BY DEF AfterPrimary
<1>6. "cancelled" \in Classes
  BY DEF Classes
<1> QED
  BY <1>2, <1>3, <1>4, <1>5, <1>6, BlockedClass, RefusedClass DEF IInv

LEMMA AfterRepairStep == ASSUME IInv, NEW r \in Reviewers, AfterRepair(r) PROVE IInv'
<1> DEFINE t == Repair(r)
           j == job[t]
<1>1. PoolOnly /\ pc = "reviewers" /\ rpc[r] = "repair" /\ cohort' = cohort
  BY DEF AfterRepair
<1>2. t \in Tasks
  BY TaskNames
<1>3. ASSUME NEW class \in Classes, Fail(r, class, t) PROVE IInv'
  BY <1>1, <1>2, <1>3, FirstError, ReviewerMoves, NoneIsNothing DEF IInv
<1>4. CASE Move(r, "done") /\ firstErr' = firstErr
  BY <1>1, <1>4, ReviewerMoves, NoneIsNothing
<1>5. \/ j.at = "refused" /\ Fail(r, j.status, t)
      \/ Fail(r, Blocked(t), t)
      \/ Move(r, "done") /\ firstErr' = firstErr
  BY DEF AfterRepair
<1> QED
  BY <1>2, <1>3, <1>4, <1>5, BlockedClass, RefusedClass DEF IInv

LEMMA JoinStep == IInv /\ Join => IInv'
<1> SUFFICES ASSUME IInv, Join PROVE IInv'
  OBVIOUS
<1>1. pc = "reviewers" /\ UNCHANGED <<files, saved, host, faults>>
  BY DEF Join
<1>2. CASE firstErr = None /\ Advance("rollup") /\ UNCHANGED <<reply, chosen, orch, job, pool>>
  <2>1. pc' = "rollup" /\ UNCHANGED <<known, outcome>>
    BY <1>2 DEF Advance
  <2>2. TaskInv'
    BY <1>1, <1>2, <2>1, StepOn DEF IInv, known, pool
  <2>3. Walk'
    BY <1>1, <1>2, <2>1 DEF IInv, Walk, Phases, saved, host, known, chosen, pool
  <2>4. Covered'
    BY <1>1, <2>1 DEF IInv, Covered, Selects, files, saved
  <2> QED
    BY <2>2, <2>3, <2>4 DEF IInv
<1>3. CASE firstErr # None /\ EndPass(firstErr[1], firstErr[2])
  <2>1. firstErr[1] \in Classes /\ named' \in Sessions
    BY <1>1, <1>3 DEF IInv, Walk, saved
  <2> QED
    BY <1>1, <1>3, <2>1, PassEnded DEF saved, host
<1> QED
  BY <1>2, <1>3 DEF Join

LEMMA PublishStep == IInv /\ Publish => IInv'
BY PassForgotten DEF Publish, IInv, Walk, saved, host

LEMMA CrashStep == IInv /\ Crash => IInv'
<1> SUFFICES ASSUME IInv, Crash PROVE IInv'
  OBVIOUS
<1>1. faults' \in 0..MaxFaults
  BY FaultType DEF Crash, IInv, Walk
<1> QED
  BY <1>1, PassForgotten DEF Crash, IInv, Walk, saved, host

LEMMA CancelStep == IInv /\ Cancel => IInv'
<1> SUFFICES ASSUME IInv, Cancel PROVE IInv'
  OBVIOUS
<1>1. /\ dead' = TRUE
      /\ UNCHANGED <<files, saved, host, reply, outcome, pc, pass, seen, chosen, orch, job, pool>>
  BY DEF Cancel
<1>2. faults' \in 0..MaxFaults
  BY FaultType DEF Cancel, IInv, Walk
<1>3. TaskInv'
  BY <1>1, TasksKept DEF IInv, pool
<1>4. Walk'
  BY <1>1, <1>2 DEF IInv, Walk, saved, host, chosen, pool
<1>5. Covered'
  BY <1>1 DEF IInv, Covered, Selects, files, saved, chosen, pool
<1> QED
  BY <1>3, <1>4, <1>5 DEF IInv

-----------------------------------------------------------------------------
(* The theorems *)

LEMMA InitInv == Init => IInv
<1> SUFFICES ASSUME Init PROVE IInv
  OBVIOUS
<1> USE ReviewRunAssumption, NoneIsNothing DEF Init
<1>1. Shape
  BY NoJobType DEF Shape
<1>2. ASSUME NEW t \in Tasks PROVE Kept(t) /\ Flying(t)
  BY DEF Kept, Flying, NoJob
<1>3. PICK S \in Cohorts : /\ cohort = IF S = {} THEN None ELSE [r \in S |-> Saved(r)]
                           /\ named = IF S = {} THEN None ELSE Saved(None)
  BY DEF Init
<1>4. Walk
  <2>1. DOMAIN sel = {}
    OBVIOUS
  <2> QED
    BY <1>3, <2>1 DEF Walk, Phases
<1>5. cohort # None => /\ DOMAIN cohort \subseteq Reviewers
                       /\ cohort \in [DOMAIN cohort -> Sessions]
  BY <1>3
<1>6. Covered
  BY <1>5, TaskNames DEF Covered
<1> QED
  BY <1>1, <1>2, <1>4, <1>6 DEF IInv, TaskInv

LEMMA PhaseSteps == IInv /\ PhaseStep => IInv'
BY ResetTask, ResetFrame, AfterDossierStep, LoadCohortStep, AfterSelectionStep,
   PersistCohortStep, AfterThreadStep, PlanReplyStep, HostSteps, StartReviewersStep,
   StopBetweenStep, JoinStep, AfterRollupStep, PublishStep
   DEF PhaseStep, IInv

LEMMA NextInv == IInv /\ [Next]_vars => IInv'
<1> SUFFICES ASSUME IInv, [Next]_vars PROVE IInv'
  OBVIOUS
<1>1. ASSUME NEW t \in Tasks, TaskStep(t) PROVE IInv'
  BY <1>1, TaskSteps, TaskFrame DEF IInv
<1>2. ASSUME NEW r \in Reviewers, ReviewerStep(r) PROVE IInv'
  BY <1>2, AcquireStep, GiveUpStep, AfterPrimaryStep, AfterRepairStep DEF ReviewerStep
<1>3. CASE UNCHANGED vars
  <2>1. UNCHANGED <<files, saved, outcome, pc, known, chosen, orch, job, pool, faults>>
        /\ discussion' = discussion /\ reply' = reply
    BY <1>3 DEF vars, host
  <2> QED
    BY <2>1, HostStep DEF IInv, Walk
<1> QED
  BY <1>1, <1>2, <1>3, PhaseSteps, StartPassStep, CrashStep, CancelStep, HostSteps
     DEF Next, Step

(* Whatever the models answer, whoever cancels and wherever a pass dies, the *)
(* run stays in the inductive invariant.                                     *)
THEOREM Invariance == Spec => []IInv
BY InitInv, NextInv, PTL DEF Spec

(* The run's artifacts, rows and process state keep their types.             *)
THEOREM TypeCorrect == Spec => []TypeOK
<1>1. IInv => TypeOK
  <2> SUFFICES ASSUME IInv PROVE TypeOK
    OBVIOUS
  <2>1. pass \in 0..MaxPasses /\ pass \in Nat /\ MaxPasses \in Nat
    BY ReviewRunAssumption DEF IInv, TaskInv, Shape
  <2>2. ASSUME NEW t \in Tasks, meta[t] # None
        PROVE  meta[t].status \in Statuses /\ meta[t].session \in Sessions
               /\ meta[t].pass \in 1..MaxPasses
    <3>1. Kept(t)
      BY DEF IInv, TaskInv
    <3> QED
      BY <2>1, <2>2, <3>1 DEF Kept
  <2>3. rows \subseteq Tasks \X (1..MaxPasses)
    <3>1. 1..pass \subseteq 1..MaxPasses
      BY <2>1
    <3> QED
      BY <3>1 DEF IInv, TaskInv, Shape
  <2>4. cohort # None => DOMAIN cohort \subseteq Reviewers /\ Range(cohort) \subseteq Sessions
    BY DEF IInv, Covered, Range
  <2>5. \A t \in Tasks : job[t].at \in JobSteps
    BY DEF IInv, TaskInv, Shape, Jobs
  <2> QED
    BY <2>1, <2>2, <2>3, <2>4, <2>5 DEF TypeOK, IInv, Walk, JobSteps
<1> QED
  BY <1>1, Invariance, PTL

(* Metadata that says a task succeeded is on disk only with its output and   *)
(* its session row (WriteSuccess, LoadStructured).                           *)
THEOREM StoredBacked == Spec => []StoredIsBacked
<1>1. IInv => StoredIsBacked
  BY NoneIsNothing DEF IInv, TaskInv, Kept, StoredIsBacked
<1> QED
  BY <1>1, Invariance, PTL

(* No later pass calls the model again for a task that is settled.           *)
THEOREM NeverPaidTwice == Spec => []PaidOnce
<1>1. IInv => PaidOnce
  BY DEF IInv, TaskInv, Kept, PaidOnce
<1> QED
  BY <1>1, Invariance, PTL

(* A call that was cut short is never recorded as failed for good            *)
(* (failureStatus).                                                          *)
THEOREM CutNotBlamed == Spec => []NotBlamed
<1>1. IInv => NotBlamed
  BY DEF IInv, TaskInv, Kept, NotBlamed
<1> QED
  BY <1>1, Invariance, PTL

(* The saved cohort covers the batch before a reviewer runs, whatever        *)
(* selection or cohort earlier passes left.                                  *)
THEOREM CohortCovers == Spec => []CohortBeforeReviewers
<1>1. IInv => CohortBeforeReviewers
  BY DEF IInv, Covered, CohortBeforeReviewers, Selected
<1> QED
  BY <1>1, Invariance, PTL

------------------------------------------------------------------------------
(***************************************************************************)
(* A batch of reviewers and what is published of it: whose conversation a  *)
(* call continues, and that a planned review is complete.                  *)
(***************************************************************************)
(* The conversations a task may continue. *)
May(t) == IF t[1] \in {"reviewer", "repair"}
            THEN {None, Saved(t[2]), Primary(t[2]), t} ELSE Sessions

Owned ==
  /\ \A t \in Tasks : /\ job[t].session \in May(t)
                      /\ meta[t] # None => meta[t].session \in May(t)
  /\ cohort # None => \A r \in DOMAIN cohort : cohort[r] \in May(Primary(r))

(* Where a task runs: in its phase, or in its reviewer's goroutine. *)
At(t) == \/ pc = t[1]
         \/ pc = "reviewers" /\ t[2] \in Reviewers /\ rpc[t[2]] = t[1]
InFlight(t) == job[t].at \in {"called", "answered", "stored"}
Located == \A t \in Tasks : InFlight(t) => At(t)

Settled(t) == Done(t) /\ job[t].status # "blocking"

(* A goroutine moves on with settled results only, and leaves without one   *)
(* only when the batch is lost.                                             *)
Batched ==
  pc \in {"reviewers", "rollup", "plan"} =>
    \A r \in Reviewers :
      /\ rpc[r] = "repair" => Settled(Primary(r))
      /\ rpc[r] = "done" => /\ Settled(Primary(r))
                            /\ job[Primary(r)].value = "gap" => Settled(Repair(r))
      /\ r \in DOMAIN sel /\ ~dead /\ firstErr = None =>
           rpc[r] \in {"waiting", "reviewer", "repair", "done"}
      /\ pc # "reviewers" => firstErr = None /\ rpc[r] \notin {"waiting", "reviewer", "repair"}

(* A stored rollup answers for the names in the prompt it was asked with.   *)
Ordered ==
  /\ meta[Rollup] # None /\ meta[Rollup].status = "succeeded" =>
       output[Rollup] = meta[Rollup].input[4]
  /\ job[Rollup].at \in {"answered", "stored", "done"} =>
       /\ pc \in {"rollup", "plan"}
       /\ job[Rollup].status = "succeeded" => job[Rollup].value = FindingIDs
  /\ pc = "plan" => Done(Rollup)

Published ==
  /\ plan # None => pc = "down" /\ outcome = "planned"
  /\ AllAccounted /\ RollupNamesPublished

BatchInv == IInv /\ Owned /\ Located /\ Batched /\ Ordered /\ Published

-----------------------------------------------------------------------------
LEMMA TaskPlaces ==
  /\ \A t \in Tasks : t[1] \in {"dossier", "selection", "thread", "rollup", "reviewer", "repair"}
  /\ \A t \in Tasks : /\ t[1] = "dossier" => t = Dossier
                      /\ t[1] = "selection" => t = Selection
                      /\ t[1] = "thread" => t = Thread
                      /\ t[1] = "rollup" => t = Rollup
                      /\ t[1] = "reviewer" => t[2] \in Reviewers /\ t = Primary(t[2])
                      /\ t[1] = "repair" => t[2] \in Reviewers /\ t = Repair(t[2])
BY DEF Tasks, Dossier, Selection, Thread, Rollup, Primary, Repair

LEMMA MayNone == \A t \in Tasks : None \in May(t) /\ t \in May(t)
BY TaskNames, NoneIsNothing DEF May

(* What one step of a task does to its own entries.                         *)
OwnEntries(t) ==
  /\ \A u \in Tasks \ {t} : job'[u] = job[u] /\ meta'[u] = meta[u] /\ output'[u] = output[u]
  /\ ~Done(t) /\ Running(t) /\ TaskOnly

LEMMA TaskEntries ==
  ASSUME IInv, NEW t \in Tasks, TaskStep(t)
  PROVE  OwnEntries(t)
<1>1. ASSUME NEW j, Set(t, j) PROVE \A u \in Tasks \ {t} : job'[u] = job[u]
  BY <1>1 DEF Set, IInv, TaskInv, Shape
<1>2. \A u \in Tasks \ {t} : job'[u] = job[u]
  BY <1>1 DEF TaskStep, Load, Refuse, Call, Return, ReturnNothing, ReturnLate,
     WriteOutput, WriteMeta, Answer
<1>3. \A u \in Tasks \ {t} : meta'[u] = meta[u] /\ output'[u] = output[u]
  BY DEF TaskStep, Load, Refuse, Call, Return, ReturnNothing, ReturnLate,
     WriteOutput, WriteMeta, IInv, TaskInv, Shape, files
<1>4. Running(t) /\ TaskOnly
  BY DEF TaskStep, Load, Refuse, Call, Return, ReturnNothing, ReturnLate,
     WriteOutput, WriteMeta, Startable
<1> QED
  BY <1>2, <1>3, <1>4 DEF OwnEntries, Running

LEMMA SeedMay ==
  ASSUME IInv, Owned, NEW t \in Tasks, Running(t)
  PROVE  Seed(t) \in May(t)
<1>1. CASE t[1] \notin {"reviewer", "repair"}
  BY <1>1, SeedSession DEF May, IInv
<1>2. CASE t[1] = "reviewer"
  <2>1. t[2] \in Reviewers /\ t = Primary(t[2])
        /\ t \notin {Dossier, Selection, Thread, Rollup}
    BY <1>2, TaskPlaces, TaskNames
  <2>2. pc = "reviewers" /\ rpc[t[2]] = "reviewer"
    BY <1>2 DEF Running, IInv, Walk, Phases
  <2>3. cohort # None /\ t[2] \in DOMAIN cohort
    BY <2>1, <2>2 DEF IInv, Covered
  <2>4. Seed(t) = cohort[t[2]]
    BY <1>2, <2>1 DEF Seed
  <2> QED
    BY <2>1, <2>3, <2>4 DEF Owned
<1>3. CASE t[1] = "repair"
  <2>1. t[2] \in Reviewers /\ t \notin {Dossier, Selection, Thread, Rollup}
    BY <1>3, TaskPlaces, TaskNames
  <2>2. Seed(t) = job[Primary(t[2])].session
    BY <1>3, <2>1 DEF Seed
  <2>3. job[Primary(t[2])].session \in May(Primary(t[2]))
    BY <2>1, TaskNames DEF Owned
  <2>4. May(Primary(t[2])) \subseteq May(t)
    BY <1>3, <2>1, TaskNames DEF May
  <2> QED
    BY <2>2, <2>3, <2>4
<1> QED
  BY <1>1, <1>2, <1>3

LEMMA OwnedOne ==
  ASSUME Owned, NEW t \in Tasks, OwnEntries(t), job'[t].session \in May(t),
         meta'[t] # None => meta'[t].session \in May(t)
  PROVE  Owned'
<1>1. cohort' = cohort
  BY DEF OwnEntries, TaskOnly, saved
<1>2. ASSUME NEW u \in Tasks
      PROVE  job'[u].session \in May(u) /\ (meta'[u] # None => meta'[u].session \in May(u))
  <2>1. CASE u = t
    BY <2>1
  <2>2. CASE u # t
    BY <2>2 DEF Owned, OwnEntries
  <2> QED
    BY <2>1, <2>2
<1> QED
  BY <1>1, <1>2 DEF Owned, May

LEMMA OwnedTask ==
  ASSUME IInv, Owned, NEW t \in Tasks, TaskStep(t)
  PROVE  Owned'
<1> USE TaskEntries, OwnedOne, MayNone
<1>1. /\ OwnEntries(t) /\ Running(t)
      /\ job[t].session \in May(t) /\ (meta[t] # None => meta[t].session \in May(t))
      /\ \A j : Set(t, j) => job'[t] = j
  BY DEF OwnEntries, Owned, Set, IInv, TaskInv, Shape
<1>2. CASE Load(t)
  BY <1>1, <1>2 DEF Load, NoJob, files, Reusable, Current
<1>3. CASE Refuse(t) \/ ReturnLate(t)
  BY <1>1, <1>3 DEF Refuse, ReturnLate, NoJob, files
<1>4. CASE Call(t)
  <2>1. Seed(t) \in May(t)
    BY <1>1, SeedMay
  <2> QED
    BY <1>1, <1>4, <2>1 DEF Call, NoJob, files
<1>5. CASE Return(t)
  <2>1. \A s \in Reported(t) : s \in May(t)
    BY <1>1 DEF Reported
  <2>2. PICK s \in Reported(t) : \E status, value : Answer(t, status, value, s)
    BY <1>5 DEF Return
  <2>3. job'[t].session = s /\ meta' = meta
    BY <1>1, <1>5, <2>2 DEF Return, Answer
  <2> QED
    BY <1>1, <2>1, <2>3
<1>6. CASE ReturnNothing(t)
  BY <1>1, <1>6 DEF ReturnNothing, Answer, files
<1>7. CASE WriteOutput(t)
  BY <1>1, <1>7 DEF WriteOutput, IInv, TaskInv, Shape, Jobs
<1>8. CASE WriteMeta(t)
  <2>1. job'[t].session = job[t].session
    BY <1>1, <1>8 DEF WriteMeta, IInv, TaskInv, Shape, Jobs
  <2>2. meta'[t].session = job[t].session
    BY <1>8 DEF WriteMeta, IInv, TaskInv, Shape
  <2> QED
    BY <1>1, <2>1, <2>2
<1> QED
  BY <1>2, <1>3, <1>4, <1>5, <1>6, <1>7, <1>8 DEF TaskStep

(* Steps that call no model: the tasks' entries stay, or the pass forgets   *)
(* its jobs, and a saved session is the primary's own.                      *)
LEMMA OwnedFrame ==
  ASSUME IInv, Owned, meta' = meta,
         job' = job \/ job' = [t \in Tasks |-> NoJob],
         cohort' # None => \A r \in DOMAIN cohort' : cohort'[r] \in May(Primary(r))
  PROVE  Owned'
<1>1. \A t \in Tasks : job'[t].session \in May(t)
  BY MayNone DEF Owned, NoJob
<1> QED
  BY <1>1 DEF Owned, May

LEMMA PhaseFrame ==
  ASSUME IInv, Owned,
         \/ PhaseStep \/ StartPass \/ Crash \/ Cancel \/ Comment
         \/ \E r \in Reviewers : ReviewerStep(r)
  PROVE  /\ ResetDossier \/ (meta' = meta /\ output' = output)
         /\ job' = job \/ job' = [t \in Tasks |-> NoJob]
<1> USE DEF files, Advance, EndPass, Forget
<1>1. CASE ResetDossier
  BY <1>1 DEF ResetDossier
<1>2. CASE AfterDossier \/ LoadCohort \/ AfterSelection \/ PersistCohort \/ AfterThread
  BY <1>2 DEF AfterDossier, LoadCohort, AfterSelection, PersistCohort, AfterThread
<1>3. CASE PlanReply \/ PostReply \/ MarkPosted \/ StartReviewers \/ StopBetween
           \/ Join \/ AfterRollup \/ Publish
  BY <1>3 DEF PlanReply, PostReply, MarkPosted, StartReviewers, StopBetween, Join,
     AfterRollup, Publish
<1>4. CASE StartPass \/ Crash \/ Cancel \/ Comment
  BY <1>4 DEF StartPass, Crash, Cancel, Comment
<1>5. ASSUME NEW r \in Reviewers, ReviewerStep(r) PROVE meta' = meta /\ output' = output /\ job' = job
  BY <1>5 DEF ReviewerStep, Acquire, GiveUp, AfterPrimary, AfterRepair, PoolOnly
<1> QED
  BY <1>1, <1>2, <1>3, <1>4, <1>5 DEF PhaseStep

LEMMA CohortOwned ==
  ASSUME IInv, Owned,
         \/ PhaseStep \/ StartPass \/ Crash \/ Cancel \/ Comment
         \/ \E r \in Reviewers : ReviewerStep(r)
  PROVE  cohort' # None => \A r \in DOMAIN cohort' : cohort'[r] \in May(Primary(r))
<1>1. CASE LoadCohort
  <2>1. CASE NoCohort
    BY <1>1, <2>1 DEF LoadCohort
  <2>2. CASE ~NoCohort
    <3>1. cohort' = Joined /\ cohort # None
      BY <1>1, <2>2 DEF LoadCohort, NoCohort
    <3>2. \A r \in Members \cup Required : Primary(r) \in Tasks
      BY <3>1, TaskNames, ReviewRunAssumption DEF Members, IInv, Covered
    <3> QED
      BY <3>1, <3>2, MayNone DEF Joined, Members, Owned
  <2> QED
    BY <2>1, <2>2
<1>2. CASE PersistCohort
  <2>1. DOMAIN sel \subseteq Reviewers
    BY DEF IInv, Walk
  <2>2. cohort' = cohort \/ cohort' = [r \in DOMAIN sel |-> None]
    BY <1>2 DEF PersistCohort, Selected
  <2> QED
    BY <2>1, <2>2, MayNone, TaskNames DEF Owned
<1>3. ASSUME NEW r \in Reviewers, AfterPrimary(r)
      PROVE  cohort' # None => \A q \in DOMAIN cohort' : cohort'[q] \in May(Primary(q))
  <2>1. cohort' = cohort \/ cohort' = [cohort EXCEPT ![r] = job[Primary(r)].session]
    BY <1>3 DEF AfterPrimary
  <2>2. cohort # None
    BY <1>3 DEF AfterPrimary, IInv, Covered
  <2>3. job[Primary(r)].session \in May(Primary(r))
    BY TaskNames DEF Owned
  <2> QED
    BY <2>1, <2>2, <2>3 DEF Owned
<1>4. ASSUME cohort' = cohort
      PROVE  cohort' # None => \A q \in DOMAIN cohort' : cohort'[q] \in May(Primary(q))
  BY <1>4 DEF Owned
<1>5. CASE \/ ResetDossier \/ AfterDossier \/ AfterSelection \/ AfterThread \/ PlanReply
           \/ PostReply \/ MarkPosted \/ StartReviewers \/ StopBetween \/ Join
           \/ AfterRollup \/ Publish \/ StartPass \/ Crash \/ Cancel \/ Comment
  BY <1>4, <1>5 DEF ResetDossier, AfterDossier, AfterSelection, AfterThread, PlanReply,
     PostReply, MarkPosted, StartReviewers, StopBetween, Join, AfterRollup, Publish,
     StartPass, Crash, Cancel, Comment, TaskOnly, saved
<1>6. ASSUME NEW r \in Reviewers, Acquire(r) \/ GiveUp(r) \/ AfterRepair(r)
      PROVE  cohort' = cohort
  BY <1>6 DEF Acquire, GiveUp, AfterRepair
<1> QED
  BY <1>1, <1>2, <1>3, <1>4, <1>5, <1>6 DEF PhaseStep, ReviewerStep

LEMMA OwnedReset == ASSUME IInv, Owned, ResetDossier PROVE Owned'
<1>1. job' = job /\ cohort' = cohort /\ \A t \in Tasks : meta'[t] \in {None, meta[t]}
  BY TaskNames DEF ResetDossier, TaskOnly, saved, IInv, TaskInv, Shape
<1> QED
  BY <1>1 DEF Owned, May

LEMMA OwnedNext ==
  ASSUME IInv, Owned, Next
  PROVE  Owned'
<1>1. CASE \E t \in Tasks : TaskStep(t)
  BY <1>1, OwnedTask
<1>2. CASE ResetDossier
  BY <1>2, OwnedReset
<1>3. CASE /\ ~ResetDossier
           /\ \/ PhaseStep \/ StartPass \/ Crash \/ Cancel \/ Comment
              \/ \E r \in Reviewers : ReviewerStep(r)
  BY <1>3, PhaseFrame, CohortOwned, OwnedFrame
<1> QED
  BY <1>1, <1>2, <1>3 DEF Next, Step

-----------------------------------------------------------------------------
(* Where the tasks run *)

LEMMA LocatedTask ==
  ASSUME Located, NEW t \in Tasks, OwnEntries(t)
  PROVE  Located'
<1>1. UNCHANGED <<pc, rpc>> /\ At(t)
  BY DEF OwnEntries, TaskOnly, pool, Running, At
<1>2. ASSUME NEW u \in Tasks, InFlight(u)' PROVE At(u)'
  BY <1>1, <1>2 DEF Located, InFlight, OwnEntries, At
<1> QED
  BY <1>2 DEF Located

LEMMA LocatedFrame ==
  ASSUME Located,
         \/ job' = [t \in Tasks |-> NoJob]
         \/ job' = job /\ UNCHANGED <<pc, rpc>>
         \/ job' = job /\ \A t \in Tasks : ~InFlight(t)
  PROVE  Located'
BY DEF Located, InFlight, NoJob, At

LEMMA NothingBetween ==
  ASSUME Located, pc \in {"down", "cohort", "persist", "checkpoint", "post", "plan"}
  PROVE  \A t \in Tasks : ~InFlight(t)
BY TaskPlaces DEF Located, At

LEMMA OnlyThePhase ==
  ASSUME Located, NEW t \in {Dossier, Selection, Thread, Rollup}, pc = t[1], Done(t)
  PROVE  \A u \in Tasks : ~InFlight(u)
BY TaskPlaces, TaskNames DEF Located, At, InFlight, Done

LEMMA LocatedPhases ==
  ASSUME IInv, Located, PhaseStep \/ StartPass \/ Crash \/ Cancel \/ Comment
  PROVE  Located'
<1> USE LocatedFrame, TaskNames
<1>1. CASE ResetDossier
  BY <1>1 DEF ResetDossier, TaskOnly, pool
<1>2. CASE AfterDossier
  BY <1>2, OnlyThePhase DEF AfterDossier, EndPass, Forget
<1>3. CASE AfterSelection
  BY <1>3, OnlyThePhase DEF AfterSelection, EndPass, Forget
<1>4. CASE AfterThread
  <2>1. CASE \E class : EndPass(class, Thread)
    BY <2>1 DEF EndPass, Forget
  <2>2. CASE Done(Thread) /\ job' = job
    BY <1>4, <2>2, OnlyThePhase DEF AfterThread
  <2> QED
    BY <1>4, <2>1, <2>2 DEF AfterThread
<1>5. CASE AfterRollup
  <2>1. CASE \E class : EndPass(class, Rollup)
    BY <2>1 DEF EndPass, Forget
  <2>2. CASE Done(Rollup) /\ job' = job
    BY <1>5, <2>2, OnlyThePhase DEF AfterRollup
  <2> QED
    BY <1>5, <2>1, <2>2 DEF AfterRollup
<1>6. CASE LoadCohort \/ PersistCohort \/ PlanReply \/ StartReviewers \/ StartPass
  BY <1>6, NothingBetween DEF LoadCohort, PersistCohort, PlanReply, StartReviewers, StartPass
<1>7. CASE PostReply \/ MarkPosted \/ Cancel \/ Comment
  BY <1>7 DEF PostReply, MarkPosted, Cancel, Comment, pool
<1>8. CASE StopBetween \/ Publish \/ Crash
  BY <1>8 DEF StopBetween, Publish, Crash, EndPass, Forget
<1>9. CASE Join
  <2>1. \A t \in Tasks : ~InFlight(t)
    BY <1>9, TaskPlaces DEF Join, Located, At, IInv, Walk
  <2> QED
    BY <1>9, <2>1 DEF Join, EndPass, Forget
<1> QED
  BY <1>1, <1>2, <1>3, <1>4, <1>5, <1>6, <1>7, <1>8, <1>9 DEF PhaseStep

LEMMA LocatedReviewers ==
  ASSUME IInv, Located, NEW r \in Reviewers, ReviewerStep(r)
  PROVE  Located'
<1>1. /\ pc = "reviewers" /\ UNCHANGED <<pc, job>>
      /\ \A q \in Reviewers \ {r} : rpc'[q] = rpc[q]
  BY DEF ReviewerStep, Acquire, GiveUp, AfterPrimary, AfterRepair, PoolOnly, Move, Fail,
     IInv, Walk
<1>2. \/ rpc[r] = "waiting"
      \/ rpc[r] = "reviewer" /\ ~InFlight(Primary(r))
      \/ rpc[r] = "repair" /\ ~InFlight(Repair(r))
  BY DEF ReviewerStep, Acquire, GiveUp, AfterPrimary, AfterRepair, InFlight
<1>3. ASSUME NEW t \in Tasks, InFlight(t) PROVE At(t)'
  <2>1. t[2] \in Reviewers /\ rpc[t[2]] = t[1]
    BY <1>1, <1>3, TaskPlaces DEF Located, At
  <2>2. t[2] # r
    BY <1>2, <1>3, <2>1, TaskPlaces
  <2> QED
    BY <1>1, <2>1, <2>2 DEF At
<1> QED
  BY <1>1, <1>3 DEF Located, InFlight

-----------------------------------------------------------------------------
(* The batch *)

LEMMA SettledStays ==
  ASSUME NEW t \in Tasks, OwnEntries(t), NEW u \in Tasks, Settled(u)
  PROVE  Settled(u)' /\ job'[u] = job[u]
BY DEF OwnEntries, Settled, Done

LEMMA BatchedTask ==
  ASSUME Batched, NEW t \in Tasks, OwnEntries(t)
  PROVE  Batched'
<1>1. UNCHANGED <<pc, rpc, firstErr, sel, dead>>
  BY DEF OwnEntries, TaskOnly, pool, chosen, known
<1>2. \A r \in Reviewers : Primary(r) \in Tasks /\ Repair(r) \in Tasks
  BY TaskNames
<1> QED
  BY <1>1, <1>2, SettledStays DEF Batched

LEMMA BatchedPhases ==
  ASSUME IInv, Batched, PhaseStep \/ StartPass \/ Crash \/ Cancel \/ Comment
  PROVE  Batched'
<1>1. CASE ResetDossier \/ PostReply \/ MarkPosted \/ Comment
  <2>1. UNCHANGED <<pc, rpc, firstErr, sel, dead, job>>
    BY <1>1 DEF ResetDossier, PostReply, MarkPosted, Comment, TaskOnly, pool, chosen, known
  <2> QED
    BY <2>1 DEF Batched, Settled, Done
<1>2. CASE Cancel
  <2>1. UNCHANGED <<pc, rpc, firstErr, sel, job>> /\ dead' = TRUE
    BY <1>2 DEF Cancel, pool, chosen
  <2> QED
    BY <2>1 DEF Batched, Settled, Done
<1>3. CASE StartReviewers
  <2>1. pc' = "reviewers" /\ sel' = sel
        /\ rpc' = [r \in Reviewers |-> IF r \in DOMAIN sel THEN "waiting" ELSE "none"]
    BY <1>3 DEF StartReviewers, Advance, chosen, Selected
  <2> QED
    BY <2>1 DEF Batched
<1>4. CASE Join
  <2>1. CASE firstErr = None /\ Advance("rollup") /\ UNCHANGED <<chosen, job, pool>>
    <3>1. pc' = "rollup" /\ UNCHANGED <<rpc, firstErr, sel, dead, job>>
      BY <2>1 DEF Advance, known, chosen, pool
    <3> QED
      BY <1>4, <2>1, <3>1 DEF Join, Batched, Settled, Done
  <2>2. CASE pc' = "down"
    BY <2>2 DEF Batched
  <2> QED
    BY <1>4, <2>1, <2>2 DEF Join, EndPass
<1>5. CASE AfterRollup
  <2>1. CASE Advance("plan") /\ UNCHANGED <<chosen, job, pool>>
    <3>1. pc = "rollup" /\ pc' = "plan" /\ UNCHANGED <<rpc, firstErr, sel, dead, job>>
      BY <1>5, <2>1 DEF AfterRollup, Advance, known, chosen, pool
    <3> QED
      BY <3>1 DEF Batched, Settled, Done
  <2>2. CASE pc' = "down"
    BY <2>2 DEF Batched
  <2> QED
    BY <1>5, <2>1, <2>2 DEF AfterRollup, EndPass
<1>6. CASE \/ AfterDossier \/ LoadCohort \/ AfterSelection \/ PersistCohort \/ AfterThread
           \/ PlanReply \/ StopBetween \/ Publish \/ StartPass \/ Crash
  <2>1. pc' \notin {"reviewers", "rollup", "plan"}
    BY <1>6 DEF AfterDossier, LoadCohort, AfterSelection, PersistCohort, AfterThread,
       PlanReply, StopBetween, Publish, StartPass, Crash, EndPass, Advance, AfterSelecting
  <2> QED
    BY <2>1 DEF Batched
<1> QED
  BY <1>1, <1>2, <1>3, <1>4, <1>5, <1>6 DEF PhaseStep

(* A failure of a reviewer is seen by the batch.                            *)
LEMMA FailSeen ==
  ASSUME NEW r, NEW class \in Classes, NEW t \in Tasks, Fail(r, class, t)
  PROVE  Move(r, "error") /\ firstErr' # None
BY NoneAssumption DEF Fail, Classes

LEMMA BatchedMove ==
  ASSUME IInv, Batched, NEW r \in Reviewers, PoolOnly, pc = "reviewers",
         NEW to, Move(r, to),
         firstErr # None => firstErr' # None,
         to \in {"reviewer", "repair", "done"} \/ dead \/ firstErr' # None,
         to = "repair" => Settled(Primary(r)),
         to = "done" => /\ Settled(Primary(r))
                        /\ job[Primary(r)].value = "gap" => Settled(Repair(r))
  PROVE  Batched'
<1>1. UNCHANGED <<pc, sel, dead, job>>
  BY DEF PoolOnly, known, chosen
<1>2. rpc'[r] = to /\ \A q \in Reviewers \ {r} : rpc'[q] = rpc[q]
  BY DEF Move, IInv, Walk
<1> QED
  BY <1>1, <1>2 DEF Batched, Settled, Done

LEMMA BatchedReviewers ==
  ASSUME IInv, Batched, NEW r \in Reviewers, ReviewerStep(r)
  PROVE  Batched'
<1> DEFINE p == Primary(r)
           q == Repair(r)
<1>0. p \in Tasks /\ q \in Tasks /\ "cancelled" \in Classes
  BY TaskNames DEF Classes
<1>1. CASE Acquire(r)
  BY <1>1, BatchedMove DEF Acquire
<1>2. CASE GiveUp(r)
  BY <1>2, BatchedMove DEF GiveUp, Stopped
<1>3. ASSUME PoolOnly, pc = "reviewers",
             NEW class \in Classes, NEW t \in Tasks, Fail(r, class, t)
      PROVE  Batched'
  BY <1>3, FailSeen, BatchedMove
<1>4. CASE AfterPrimary(r)
  <2>1. PoolOnly /\ pc = "reviewers"
    BY <1>4 DEF AfterPrimary
  <2>2. \/ job[p].at = "refused" /\ Fail(r, job[p].status, p)
        \/ Fail(r, "cancelled", p)
        \/ Fail(r, Blocked(p), p)
        \/ /\ Settled(p) /\ firstErr' = firstErr
           /\ Move(r, IF job[p].value = "gap" THEN "repair" ELSE "done")
    BY <1>4 DEF AfterPrimary, Settled, Done
  <2>3. CASE /\ Settled(p) /\ firstErr' = firstErr
             /\ Move(r, IF job[p].value = "gap" THEN "repair" ELSE "done")
    BY <2>1, <2>3, BatchedMove
  <2> QED
    BY <1>0, <1>3, <2>1, <2>2, <2>3, BlockedClass, RefusedClass DEF IInv
<1>5. CASE AfterRepair(r)
  <2>1. PoolOnly /\ pc = "reviewers" /\ rpc[r] = "repair"
    BY <1>5 DEF AfterRepair
  <2>2. \/ job[q].at = "refused" /\ Fail(r, job[q].status, q)
        \/ Fail(r, Blocked(q), q)
        \/ Settled(q) /\ Move(r, "done") /\ firstErr' = firstErr
    BY <1>5 DEF AfterRepair, Settled, Done
  <2>3. CASE Settled(q) /\ Move(r, "done") /\ firstErr' = firstErr
    <3>1. Settled(p)
      BY <2>1 DEF Batched
    <3> QED
      BY <2>1, <2>3, <3>1, BatchedMove
  <2> QED
    BY <1>0, <1>3, <2>1, <2>2, <2>3, BlockedClass, RefusedClass DEF IInv
<1> QED
  BY <1>1, <1>2, <1>4, <1>5 DEF ReviewerStep

-----------------------------------------------------------------------------
(* The rollup and the names of the findings *)

LEMMA RollupInputNames == Input(Rollup)[4] = FindingIDs
<1>1. Rollup \notin {Dossier, Selection, Thread}
  BY TaskNames
<1>2. Input(Rollup) = RollupInput
  BY <1>1, TaskNames DEF Input
<1> QED
  BY <1>2 DEF RollupInput

(* No other task runs during the rollup, and the rollup is not in the batch. *)
LEMMA NamesStay ==
  ASSUME Walk, OwnEntries(Rollup)
  PROVE  FindingIDs' = FindingIDs
<1>1. UNCHANGED <<rpc, sel, pass>>
  BY DEF OwnEntries, TaskOnly, pool, chosen, known
<1>2. \A r \in Reviewers : /\ job'[Primary(r)] = job[Primary(r)]
                           /\ job'[Repair(r)] = job[Repair(r)]
  BY TaskNames DEF OwnEntries
<1>3. Finished' = Finished /\ Finished \subseteq Reviewers
  BY <1>1 DEF Finished, Selected, Walk
<1>4. \A r \in Reviewers : Done(Repair(r))' = Done(Repair(r))
  BY <1>2 DEF Done
<1>5. BatchTasks' = BatchTasks
  BY <1>3, <1>4 DEF BatchTasks
<1>6. \A t \in BatchTasks : job'[t] = job[t]
  BY <1>2, <1>3 DEF BatchTasks
<1>7. Batch' = Batch
  BY <1>5, <1>6 DEF Batch
<1> QED
  BY <1>1, <1>5, <1>7 DEF FindingIDs

(* A step that runs no task and changes no goroutine keeps the names.       *)
LEMMA NamesKept ==
  ASSUME UNCHANGED <<job, rpc, sel, pass>>
  PROVE  FindingIDs' = FindingIDs
<1>1. BatchTasks' = BatchTasks
  BY DEF BatchTasks, Finished, Selected, Done
<1>2. Batch' = Batch
  BY <1>1 DEF Batch
<1> QED
  BY <1>1, <1>2 DEF FindingIDs

LEMMA OrderedRollup ==
  ASSUME IInv, Ordered, TaskStep(Rollup)
  PROVE  Ordered'
<1> DEFINE t == Rollup
           m == meta[t]
<1>1. t \in Tasks
  BY TaskNames
<1>2. OwnEntries(t) /\ Running(t) /\ TaskOnly
  BY <1>1, TaskEntries DEF OwnEntries
<1>3. FindingIDs' = FindingIDs
  BY <1>2, NamesStay DEF IInv
<1>4. pc = "rollup" /\ pc' = "rollup"
  BY <1>2, TaskNames DEF Running, TaskOnly, IInv, Walk
<1>5. /\ Kept(t) /\ Flying(t) /\ \A j : Set(t, j) => job'[t] = j
      /\ job[t].at \in {"answered", "stored", "done"} =>
           (job[t].status = "succeeded" => job[t].value = FindingIDs)
      /\ m # None /\ m.status = "succeeded" => output[t] = m.input[4]
  BY <1>1, <1>2 DEF Set, IInv, TaskInv, Shape, OwnEntries, Ordered
<1>6. SUFFICES
        /\ meta'[t] # None /\ meta'[t].status = "succeeded" =>
             output'[t] = meta'[t].input[4]
        /\ job'[t].at \in {"answered", "stored", "done"} /\ job'[t].status = "succeeded" =>
             job'[t].value = FindingIDs
  BY <1>3, <1>4 DEF Ordered
<1>7. CASE Load(t)
  <2>1. m # None /\ m.input = Input(t) /\ UNCHANGED <<meta, output>>
    BY <1>7 DEF Load, Reusable, Current, files
  <2>2. \/ job'[t].at = "refused"
        \/ job'[t].status = m.status /\ job'[t].value = output[t]
    BY <1>5, <1>7 DEF Load, NoJob
  <2> QED
    BY <1>5, <2>1, <2>2, RollupInputNames
<1>8. CASE Refuse(t) \/ Call(t) \/ ReturnLate(t)
  BY <1>5, <1>8 DEF Refuse, Call, ReturnLate, NoJob, files
<1>9. CASE Return(t)
  <2>1. PICK s : \/ \E v \in Answers(t) : Answer(t, "succeeded", v, s)
                 \/ \E status \in {"invalid", "failed", "expired"} : Answer(t, status, None, s)
    BY <1>9 DEF Return
  <2>2. Answers(t) = {FindingIDs}
    BY TaskNames DEF Answers
  <2>3. UNCHANGED <<meta, output>>
    BY <1>9 DEF Return
  <2>4. job'[t].status = "succeeded" => job'[t].value = FindingIDs
    BY <1>5, <2>1, <2>2 DEF Answer
  <2> QED
    BY <1>5, <2>3, <2>4
<1>10. CASE ReturnNothing(t)
  BY <1>5, <1>10 DEF ReturnNothing, Answer, files
<1>11. CASE WriteOutput(t)
  <2>1. meta[t] = None \/ meta[t].status = "blocking"
    BY <1>5, <1>11 DEF Flying, WriteOutput
  <2>2. /\ meta' = meta /\ job[t].at = "answered" /\ job[t].status = "succeeded"
        /\ job'[t] = [job[t] EXCEPT !.at = "stored"]
    BY <1>5, <1>11 DEF WriteOutput
  <2>3. job'[t].value = job[t].value
    BY <1>1, <2>2 DEF IInv, TaskInv, Shape, Jobs
  <2> QED
    BY <1>5, <2>1, <2>2, <2>3
<1>12. CASE WriteMeta(t)
  <2>1. /\ meta'[t].status = FinalStatus(t) /\ meta'[t].input = Input(t)
        /\ output' = output
    BY <1>1, <1>12 DEF WriteMeta, IInv, TaskInv, Shape
  <2>2. job'[t].status = FinalStatus(t) /\ job'[t].value = job[t].value
    BY <1>1, <1>5, <1>12 DEF WriteMeta, IInv, TaskInv, Shape, Jobs
  <2>3. FinalStatus(t) = "succeeded" =>
          /\ job[t].at = "stored" /\ job[t].status = "succeeded"
          /\ output[t] = job[t].value
    BY <1>5, <1>12 DEF WriteMeta, FinalStatus, Flying
  <2> QED
    BY <1>5, <2>1, <2>2, <2>3, RollupInputNames
<1> QED
  BY <1>7, <1>8, <1>9, <1>10, <1>11, <1>12 DEF TaskStep

LEMMA OrderedTask ==
  ASSUME IInv, Ordered, NEW t \in Tasks, TaskStep(t)
  PROVE  Ordered'
<1>1. CASE t = Rollup
  BY <1>1, OrderedRollup
<1>2. CASE t # Rollup
  <2>1. OwnEntries(t) /\ Rollup \in Tasks
    BY TaskEntries, TaskNames
  <2>2. UNCHANGED pc /\ pc \notin {"rollup", "plan"}
    BY <1>2, <2>1, TaskPlaces DEF OwnEntries, TaskOnly, Running
  <2>3. /\ job'[Rollup] = job[Rollup] /\ meta'[Rollup] = meta[Rollup]
        /\ output'[Rollup] = output[Rollup]
    BY <1>2, <2>1 DEF OwnEntries
  <2> QED
    BY <2>2, <2>3 DEF Ordered
<1> QED
  BY <1>1, <1>2

(* A step between the tasks: a job that holds a rollup keeps it and its     *)
(* names, or the pass forgets it.                                           *)
LEMMA OrderedFrame ==
  ASSUME Ordered, meta'[Rollup] = meta[Rollup], output'[Rollup] = output[Rollup],
         \/ job'[Rollup] = NoJob /\ pc' # "plan"
         \/ job' = job /\ pc \notin {"rollup", "plan"} /\ pc' # "plan"
         \/ UNCHANGED <<job, rpc, sel, pass>> /\ (pc' = pc \/ (pc' = "plan" /\ Done(Rollup)))
  PROVE  Ordered'
<1>1. CASE job'[Rollup] = NoJob /\ pc' # "plan"
  BY <1>1 DEF Ordered, NoJob
<1>2. CASE job' = job /\ pc \notin {"rollup", "plan"} /\ pc' # "plan"
  BY <1>2 DEF Ordered
<1>3. CASE UNCHANGED <<job, rpc, sel, pass>> /\ (pc' = pc \/ (pc' = "plan" /\ Done(Rollup)))
  BY <1>3, NamesKept DEF Ordered, Done
<1> QED
  BY <1>1, <1>2, <1>3

LEMMA OrderedPhases ==
  ASSUME IInv, Ordered,
         \/ PhaseStep \/ StartPass \/ Crash \/ Cancel \/ Comment
         \/ \E r \in Reviewers : ReviewerStep(r)
  PROVE  Ordered'
<1> USE OrderedFrame
<1>0. Rollup \in Tasks /\ Rollup # Dossier
  BY TaskNames
<1>1. CASE ResetDossier
  <2>1. /\ UNCHANGED <<job, rpc, sel, pass, pc>>
        /\ meta'[Rollup] = meta[Rollup] /\ output'[Rollup] = output[Rollup]
    BY <1>0, <1>1 DEF ResetDossier, TaskOnly, known, chosen, pool, IInv, TaskInv, Shape
  <2> QED
    BY <2>1
<1>2. CASE PostReply \/ MarkPosted \/ Cancel \/ Comment
  <2>1. UNCHANGED <<job, rpc, sel, pass, pc, meta, output>>
    BY <1>2 DEF PostReply, MarkPosted, Cancel, Comment, known, chosen, pool, files
  <2> QED
    BY <2>1
<1>3. CASE \/ AfterDossier \/ LoadCohort \/ AfterSelection \/ PersistCohort \/ AfterThread
           \/ PlanReply \/ StartReviewers \/ StopBetween \/ Join \/ StartPass
           \/ Publish \/ Crash
  <2>1. UNCHANGED <<meta, output>> /\ pc' # "plan"
    BY <1>3 DEF AfterDossier, LoadCohort, AfterSelection, PersistCohort, AfterThread,
       PlanReply, StartReviewers, StopBetween, Join, StartPass, Publish, Crash, EndPass,
       Advance, AfterSelecting, files
  <2>2. \/ job' = [t \in Tasks |-> NoJob]
        \/ job' = job /\ pc \notin {"rollup", "plan"}
    BY <1>3 DEF AfterDossier, LoadCohort, AfterSelection, PersistCohort, AfterThread,
       PlanReply, StartReviewers, StopBetween, Join, StartPass, Publish, Crash, EndPass,
       Forget
  <2> QED
    BY <1>0, <2>1, <2>2
<1>4. CASE AfterRollup
  <2>1. UNCHANGED <<meta, output>> /\ pc = "rollup"
    BY <1>4 DEF AfterRollup, files
  <2>2. \/ job' = [t \in Tasks |-> NoJob] /\ pc' = "down"
        \/ Done(Rollup) /\ pc' = "plan" /\ UNCHANGED <<job, rpc, sel, pass>>
    BY <1>4 DEF AfterRollup, EndPass, Forget, Advance, known, chosen, pool
  <2> QED
    BY <1>0, <2>1, <2>2
<1>5. ASSUME NEW r \in Reviewers, ReviewerStep(r) PROVE Ordered'
  <2>1. UNCHANGED <<meta, output, job, pc>> /\ pc = "reviewers"
    BY <1>5 DEF ReviewerStep, Acquire, GiveUp, AfterPrimary, AfterRepair, PoolOnly, files
  <2> QED
    BY <2>1
<1> QED
  BY <1>1, <1>2, <1>3, <1>4, <1>5 DEF PhaseStep

-----------------------------------------------------------------------------
(* What is published *)

LEMMA PlanStays ==
  ASSUME IInv, Next, plan # None, pc = "down", outcome = "planned"
  PROVE  UNCHANGED <<plan, meta, output, pc, outcome>>
<1>1. \A t \in Tasks : ~TaskStep(t)
  BY TaskEntries, RunningUp DEF OwnEntries
<1>2. \A r \in Reviewers : ~ReviewerStep(r)
  BY DEF ReviewerStep, Acquire, GiveUp, AfterPrimary, AfterRepair
<1>3. ~ResetDossier
  BY TaskNames, RunningUp DEF ResetDossier, Startable
<1>4. ~PhaseStep
  BY <1>3 DEF PhaseStep, AfterDossier, LoadCohort, AfterSelection, PersistCohort, AfterThread,
     PlanReply, PostReply, MarkPosted, StartReviewers, StopBetween, Join, AfterRollup, Publish
<1>5. Comment
  BY <1>1, <1>2, <1>4 DEF Next, Step, StartPass, Crash, Cancel
<1> QED
  BY <1>5 DEF Comment, files

LEMMA OnlyPublish ==
  ASSUME IInv, Next, ~Publish
  PROVE  plan' = plan
<1>1. ASSUME NEW t \in Tasks, TaskStep(t) PROVE plan' = plan
  BY <1>1, TaskEntries DEF OwnEntries, TaskOnly
<1>2. ASSUME NEW r \in Reviewers, ReviewerStep(r) PROVE plan' = plan
  BY <1>2 DEF ReviewerStep, Acquire, GiveUp, AfterPrimary, AfterRepair, PoolOnly
<1>3. CASE PhaseStep
  BY <1>3 DEF PhaseStep, ResetDossier, AfterDossier, LoadCohort, AfterSelection,
     PersistCohort, AfterThread, PlanReply, PostReply, MarkPosted, StartReviewers,
     StopBetween, Join, AfterRollup, TaskOnly, Advance, EndPass
<1>4. CASE StartPass \/ Crash \/ Cancel \/ Comment
  BY <1>4 DEF StartPass, Crash, Cancel, Comment
<1> QED
  BY <1>1, <1>2, <1>3, <1>4 DEF Next, Step

LEMMA PublishComplete ==
  ASSUME IInv, Batched, Ordered, Publish
  PROVE  AllAccounted' /\ RollupNamesPublished'
<1>1. /\ pc = "plan" /\ ~dead /\ UNCHANGED <<meta, output>>
      /\ plan'.selected = DOMAIN sel /\ plan'.tasks = BatchTasks
      /\ plan'.findings = FindingIDs
      /\ plan'.ordered = IF job[Rollup].status = "succeeded" THEN job[Rollup].value
                                                             ELSE FindingIDs
  BY DEF Publish, Selected, files
<1>2. RollupNamesPublished'
  BY <1>1 DEF RollupNamesPublished, Ordered, Done
<1>3. ASSUME NEW r \in DOMAIN sel
      PROVE  /\ Primary(r) \in BatchTasks
             /\ meta[Primary(r)].status \in {"succeeded", "isolated"}
             /\ meta[Primary(r)].status = "succeeded" /\ output[Primary(r)] = "gap" =>
                  /\ Repair(r) \in BatchTasks
                  /\ meta[Repair(r)].status \in {"succeeded", "isolated"}
  <2>1. r \in Reviewers
    BY DEF IInv, Walk
  <2>2. rpc[r] = "done" /\ r \in Finished
    BY <1>1, <2>1 DEF Batched, Finished, Selected
  <2>3. Settled(Primary(r)) /\ (job[Primary(r)].value = "gap" => Settled(Repair(r)))
    BY <1>1, <2>1, <2>2 DEF Batched
  <2>4. \A t \in Tasks : Settled(t) =>
          /\ meta[t].status \in {"succeeded", "isolated"}
          /\ meta[t].status = job[t].status
          /\ job[t].status = "succeeded" => output[t] = job[t].value
    <3> SUFFICES ASSUME NEW t \in Tasks, Settled(t)
                 PROVE  /\ meta[t].status \in {"succeeded", "isolated"}
                        /\ meta[t].status = job[t].status
                        /\ job[t].status = "succeeded" => output[t] = job[t].value
      OBVIOUS
    <3>1. Flying(t) /\ job[t].at = "done" /\ job[t].status # "blocking"
      BY DEF IInv, TaskInv, Settled, Done
    <3>2. job[t].status \in Statuses
      BY <3>1 DEF Flying
    <3> QED
      BY <3>1, <3>2 DEF Flying, Statuses
  <2>5. Primary(r) \in Tasks /\ Repair(r) \in Tasks
    BY <2>1, TaskNames
  <2>6. Primary(r) \in BatchTasks
    BY <2>2 DEF BatchTasks
  <2>7. Settled(Repair(r)) => Repair(r) \in BatchTasks
    BY <2>2 DEF BatchTasks, Settled
  <2> QED
    BY <2>3, <2>4, <2>5, <2>6, <2>7
<1>4. AllAccounted'
  BY <1>1, <1>3 DEF AllAccounted
<1> QED
  BY <1>2, <1>4

LEMMA PublishedNext ==
  ASSUME IInv, Batched, Ordered, Published, Next
  PROVE  Published'
<1>1. CASE plan # None
  <2>1. UNCHANGED <<plan, meta, output, pc, outcome>>
    BY <1>1, PlanStays DEF Published
  <2> QED
    BY <2>1 DEF Published, AllAccounted, RollupNamesPublished
<1>2. CASE plan = None /\ ~Publish
  <2>1. plan' = None
    BY <1>2, OnlyPublish
  <2> QED
    BY <2>1 DEF Published, AllAccounted, RollupNamesPublished
<1>3. CASE Publish
  <2>1. pc' = "down" /\ outcome' = "planned"
    BY <1>3 DEF Publish
  <2> QED
    BY <1>3, <2>1, PublishComplete DEF Published
<1> QED
  BY <1>1, <1>2, <1>3

-----------------------------------------------------------------------------
(* The theorems *)

LEMMA InitBatch == Init => BatchInv
<1> SUFFICES ASSUME Init PROVE BatchInv
  OBVIOUS
<1> USE DEF Init, NoJob
<1>1. IInv
  BY InitInv
<1>2. Owned
  <2>1. \A t \in Tasks : job[t].session \in May(t) /\ meta[t] = None
    BY MayNone
  <2>2. PICK S \in Cohorts : cohort = IF S = {} THEN None ELSE [r \in S |-> Saved(r)]
    OBVIOUS
  <2>3. S \subseteq Reviewers
    BY ReviewRunAssumption
  <2>4. \A r \in S : Saved(r) \in May(Primary(r))
    BY <2>3, TaskNames DEF May
  <2> QED
    BY <2>1, <2>2, <2>4 DEF Owned
<1>3. Located
  BY DEF Located, InFlight
<1>4. Batched
  BY DEF Batched
<1>5. Ordered
  BY TaskNames DEF Ordered
<1>6. Published
  BY DEF Published, AllAccounted, RollupNamesPublished
<1> QED
  BY <1>1, <1>2, <1>3, <1>4, <1>5, <1>6 DEF BatchInv

LEMMA NextBatch == BatchInv /\ [Next]_vars => BatchInv'
<1> SUFFICES ASSUME BatchInv, [Next]_vars PROVE BatchInv'
  OBVIOUS
<1> USE DEF BatchInv
<1>1. IInv'
  BY NextInv
<1>2. CASE UNCHANGED vars
  <2>1. UNCHANGED <<meta, output, cohort, plan, outcome, pc, dead, pass, sel, job, rpc, firstErr>>
    BY <1>2 DEF vars, files, saved, known, chosen, pool
  <2>2. Owned' /\ Located' /\ Batched' /\ Published'
    BY <2>1 DEF Owned, May, Located, InFlight, At, Batched, Settled, Done, Published,
       AllAccounted, RollupNamesPublished
  <2>3. Ordered'
    BY <2>1, OrderedFrame
  <2> QED
    BY <1>1, <2>2, <2>3
<1>3. CASE Next
  <2>1. Owned' /\ Published'
    BY <1>3, OwnedNext, PublishedNext
  <2>2. ASSUME NEW t \in Tasks, TaskStep(t) PROVE Located' /\ Batched' /\ Ordered'
    BY <2>2, TaskEntries, LocatedTask, BatchedTask, OrderedTask
  <2>3. ASSUME NEW r \in Reviewers, ReviewerStep(r) PROVE Located' /\ Batched' /\ Ordered'
    BY <2>3, LocatedReviewers, BatchedReviewers, OrderedPhases
  <2>4. ASSUME PhaseStep \/ StartPass \/ Crash \/ Cancel \/ Comment
        PROVE  Located' /\ Batched' /\ Ordered'
    BY <2>4, LocatedPhases, BatchedPhases, OrderedPhases
  <2>5. Located' /\ Batched' /\ Ordered'
    BY <1>3, <2>2, <2>3, <2>4 DEF Next, Step
  <2> QED
    BY <1>1, <2>1, <2>5
<1> QED
  BY <1>2, <1>3

(* Whatever the order of the reviewers, the cuts and the answers, the batch  *)
(* stays in the inductive invariant.                                         *)
THEOREM BatchInvariance == Spec => []BatchInv
BY InitBatch, NextBatch, PTL DEF Spec

(* The session kept for a reviewer's next review is its own primary's        *)
(* (runReviewer's UpsertSession, repair's resume).                           *)
THEOREM SessionsOwned == Spec => []OwnSession
<1>1. BatchInv => OwnSession
  <2> SUFFICES ASSUME BatchInv, cohort # None, NEW r \in DOMAIN cohort
               PROVE  cohort[r] \in {None, Saved(r), Primary(r)}
    BY DEF OwnSession
  <2>1. cohort[r] \in May(Primary(r)) /\ r \in Reviewers
    BY DEF BatchInv, Owned, IInv, Covered
  <2> QED
    BY <2>1, TaskNames DEF May
<1> QED
  BY <1>1, BatchInvariance, PTL

(* Two calls in flight never resume the same provider conversation.          *)
THEOREM ConversationsApart == Spec => []OneCallPerSession
<1>1. BatchInv => OneCallPerSession
  <2> SUFFICES ASSUME BatchInv, NEW t \in Tasks, NEW u \in Tasks, t # u,
                      job[t].at = "called", job[u].at = "called", job[t].session # None,
                      job[t].session = job[u].session
               PROVE  FALSE
    BY DEF OneCallPerSession
  <2>1. At(t) /\ At(u)
    BY DEF BatchInv, Located, InFlight
  <2>2. t[1] # u[1] \/ t[1] \in {"reviewer", "repair"}
    BY TaskPlaces
  <2>3. /\ t[2] \in Reviewers /\ rpc[t[2]] = t[1] /\ t[1] \in {"reviewer", "repair"}
        /\ u[2] \in Reviewers /\ rpc[u[2]] = u[1] /\ u[1] \in {"reviewer", "repair"}
    BY <2>1, <2>2, TaskPlaces DEF At, BatchInv, IInv, Walk, Phases
  <2>4. t[2] # u[2]
    BY <2>3, TaskPlaces
  <2>5. job[t].session \in {Saved(t[2]), Primary(t[2]), t}
        /\ job[u].session \in {Saved(u[2]), Primary(u[2]), u}
    BY <2>3 DEF BatchInv, Owned, May
  <2> DEFINE Mine(q) == {Saved(q), Primary(q), Repair(q)}
  <2>6. job[t].session \in Mine(t[2]) /\ job[u].session \in Mine(u[2])
    BY <2>3, <2>5, TaskPlaces
  <2>7. \A q \in Reviewers : \A s \in Mine(q) : s[2] = q
    BY DEF Saved, Primary, Repair
  <2> QED
    BY <2>3, <2>4, <2>6, <2>7
<1> QED
  BY <1>1, BatchInvariance, PTL

(* A planned review accounts for every selected reviewer, repairs included   *)
(* (runReviewers, Join).                                                     *)
THEOREM ReviewComplete == Spec => []AllAccounted
<1>1. BatchInv => AllAccounted
  BY DEF BatchInv, Published
<1> QED
  BY <1>1, BatchInvariance, PTL

(* The published order is that of the published findings.                    *)
THEOREM RollupMatches == Spec => []RollupNamesPublished
<1>1. BatchInv => RollupNamesPublished
  BY DEF BatchInv, Published
<1> QED
  BY <1>1, BatchInvariance, PTL
=============================================================================
