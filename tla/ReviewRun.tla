------------------------------ MODULE ReviewRun ------------------------------
(***************************************************************************)
(* The planning half of one live review run: internal/pipeline            *)
(* (executeLLMPhases and what it calls), the durable LLM tasks of           *)
(* internal/llmlifecycle and the saved reviewer cohort, over all the passes *)
(* that an interrupted run needs.                                          *)
(*                                                                         *)
(* A pass is one process: it walks the phases in `pc', and every phase that *)
(* asks a model runs a task through the same lifecycle - load what an       *)
(* earlier pass stored, or call the provider, insert the session row, write *)
(* the output, write the metadata.  Task files, the ledger and the host     *)
(* outlive a pass; everything else is lost with it.                         *)
(*                                                                         *)
(* Abstracted: prompts are the tuple of what they vary with (`Input'), an   *)
(* answer is what later phases tell apart, a provider session is named      *)
(* after the task that opened it, and a successful call reports a session.  *)
(***************************************************************************)
EXTENDS Integers, FiniteSets, Functions

CONSTANTS
    Reviewers,      \* the agents of the catalog
    Required,       \* those with required_on_match globs in the change
    None,
    SlotCounts,     \* what maxConcurrency may be
    Reports,        \* what a reviewer may answer: "clean", "found", "gap"
    Selections,     \* what the selection may answer: sets of agents
    Cohorts,        \* the cohorts an earlier review may have left; {} is none
    Discussions,    \* the discussion states a run may start from
    Renewed,        \* may a resumed call come back with a new session?
    FreshPasses,    \* the passes that may carry --fresh-session
    Cancellable,    \* may a caller cancel the run's context?  cr itself never does
    MaxPasses,      \* bound on the processes that work on the run
    MaxFaults,      \* bound on crashes, cancellations and failed calls
    MaxComments     \* bound on what people add to the discussion

ASSUME ReviewRunAssumption ==
    /\ Required \subseteq Reviewers
    /\ SlotCounts \subseteq Nat \ {0} /\ SlotCounts # {}
    /\ Reports \subseteq {"clean", "found", "gap"}
    /\ Selections \subseteq SUBSET Reviewers /\ Cohorts \subseteq SUBSET Reviewers
    /\ Discussions \subseteq Nat
    /\ {Renewed, Cancellable} \subseteq BOOLEAN /\ FreshPasses \subseteq Nat
    /\ {MaxPasses, MaxFaults, MaxComments} \subseteq Nat

Dossier   == <<"dossier", None>>
Selection == <<"selection", None>>
Thread    == <<"thread", None>>
Rollup    == <<"rollup", None>>
Primary(r) == <<"reviewer", r>>
Repair(r)  == <<"repair", r>>
Tasks == {Dossier, Selection, Thread, Rollup}
            \cup {Primary(r) : r \in Reviewers} \cup {Repair(r) : r \in Reviewers}

Orchestrator == {Dossier, Selection, Thread, Rollup}
Isolating == {"thread", "reviewer", "repair"}
Saved(r)  == <<"saved", r>>
Sessions  == Tasks \cup {Saved(r) : r \in Reviewers \cup {None}} \cup {None}

(* The absent value is no answer of a model, no saved cohort and no error. *)
ASSUME NoneAssumption ==
    /\ None \notin Nat \cup {"reply"} \cup Reports
    /\ \A S \in SUBSET Reviewers : None # S /\ None \notin [S -> Sessions]
    /\ \A class \in {"cancelled", "blocking", "stale"}, t \in Tasks : None # <<class, t>>

VARIABLES
    (* task artifacts and ledger of the run *)
    meta,       \* task -> metadata.json, or None
    output,     \* task -> validated output file, or None
    rows,       \* session rows: <<task, pass>>
    plan,       \* the planning result, or None
    reply,      \* the planned thread reply: "none", "pending", "posted"
    outcome,    \* "open", "incomplete", "failed", "planned"
    (* rows that outlive the run *)
    cohort,     \* saved cohort: agent -> provider session, or None
    named,      \* provider session of the named session, or None
    (* the host *)
    discussion, \* odd while a human reply waits for an answer
    replied,    \* is the planned reply on the host?
    (* the process of the current pass *)
    pc, pass, fresh, slots, seen, dead, error,
    reused, selDep, sel, orch,
    job,        \* task -> its call in this pass
    rpc,        \* agent -> where its goroutine is
    firstErr,
    (* bounds *)
    faults, comments

files == <<meta, output, rows>>
saved == <<cohort, named>>
host  == <<discussion, replied, comments>>
known == <<pass, fresh, slots, seen, dead>>
chosen == <<reused, selDep, sel>>
pool  == <<rpc, firstErr>>
vars  == <<files, saved, host, plan, reply, outcome, pc, known, error, chosen, orch,
           job, pool, faults>>

Statuses == {"succeeded", "isolated", "blocking"}
NoJob == [at |-> "idle", status |-> None, value |-> None, session |-> None,
          cause |-> None, cut |-> FALSE]
Phases == {"down", "dossier", "cohort", "selection", "persist", "thread", "checkpoint",
           "post", "reviewers", "rollup", "plan"}

-----------------------------------------------------------------------------
(* What the phases compute *)

Pending(d) == d % 2 = 1
Answered(d) == IF Pending(d) THEN d + 1 ELSE d
Commented(d) == IF Pending(d) THEN d + 2 ELSE d + 1

Done(t) == job[t].at = "done"
Selected == DOMAIN sel
Finished == {r \in Selected : rpc[r] = "done"}

(* What the reviewers' batch holds: one result per task that ran. *)
BatchTasks == {Primary(r) : r \in Finished}
                 \cup {Repair(r) : r \in {q \in Finished : Done(Repair(q))}}
Batch == {<<t, IF job[t].status = "succeeded" THEN job[t].value ELSE "failed">> :
             t \in BatchTasks}

(* Every decoding of a stored report gives its findings new identities, so the
   findings of a batch are named after the pass that assembled it. *)
FindingIDs == IF \E t \in BatchTasks : <<t, "found">> \in Batch THEN pass ELSE 0

(* The rollup is asked about the batch under the names its findings have now. *)
RollupInput == <<selDep, Batch, job[Thread].status = "isolated", FindingIDs>>

(* What a task's fingerprint covers: prompt variables and dependencies. *)
Input(t) ==
    CASE t = Dossier   -> <<seen>>
      [] t = Selection -> <<seen>>
      [] t = Thread    -> <<seen>>
      [] t = Rollup    -> RollupInput
      [] t[1] = "reviewer" -> <<sel[t[2]], seen, reply, selDep>>
      [] t[1] = "repair"   -> <<seen>>

Answers(t) ==
    CASE t = Dossier   -> {seen}
      [] t = Selection -> Selections
      [] t = Thread    -> {"reply"}
      [] t = Rollup    -> {FindingIDs}
      [] t[1] = "reviewer" -> Reports
      [] t[1] = "repair"   -> Reports \ {"gap"}

(* ensureRequiredOnMatchAgents on a fresh selection, widenRequiredOnMatchAgents
   on a saved cohort: the agent is added when it is missing, and what the
   assignment says of how it got there becomes part of its prompt. *)
WithRequired(base, why) ==
    [r \in base \cup Required |-> IF r \in base THEN why ELSE "required"]

(* The newest orchestrator session of the run's tasks. *)
Order(t) == CASE t = Selection -> 1 [] t = Thread -> 2 [] t = Rollup -> 3
Held == {t \in {Selection, Thread, Rollup} : meta[t] # None /\ meta[t].session # None}
Newest == CHOOSE t \in Held : \A u \in Held :
             \/ meta[u].pass < meta[t].pass
             \/ meta[u].pass = meta[t].pass /\ Order(u) <= Order(t)
Restored == IF Held = {} THEN named ELSE meta[Newest].session

(* The session a first call of t resumes. *)
SeedFromOrchestrator(t) ==
    CASE t \in Orchestrator \ {Dossier} -> orch
      [] t = Dossier -> None
      [] t[1] = "reviewer" -> IF cohort[t[2]] = None THEN orch ELSE cohort[t[2]]
      [] t[1] = "repair"   -> job[Primary(t[2])].session

Seed(t) == CASE t \in {Selection, Thread, Rollup} -> orch
             [] t = Dossier -> None
             [] t[1] = "reviewer" -> cohort[t[2]]
             [] t[1] = "repair"   -> job[Primary(t[2])].session

CtxDone(t) == dead \/ (t \notin Orchestrator /\ firstErr # None)
StoppedByAnyFailure ==
    dead \/ firstErr # None \/ \E r \in Reviewers : job[Primary(r)].status = "isolated"
Stopped == dead \/ firstErr # None
SlotsEverTaken == {r \in Reviewers : rpc[r] \notin {"none", "waiting"}}
Busy == {r \in Reviewers : rpc[r] \in {"reviewer", "repair"}}
FreeSlot == Cardinality(Busy) < slots

(* Where the thread analysis starts: only threads that wait for an answer. *)
AfterSelecting == IF Pending(seen) THEN "thread" ELSE "checkpoint"

-----------------------------------------------------------------------------
(* The end of a pass *)

Forget ==
    /\ dead' = FALSE
    /\ job' = [t \in Tasks |-> NoJob]
    /\ rpc' = [r \in Reviewers |-> "none"]
    /\ firstErr' = None
    /\ sel' = << >>
    /\ reused' = FALSE
    /\ selDep' = FALSE
    /\ orch' = None
    /\ fresh' = FALSE
    /\ slots' = slots
    /\ seen' = 0

OutcomeOf(class) ==
    CASE class = "cancelled" -> outcome
      [] class = "blocking"  -> "incomplete"
      [] class = "stale"     -> IF pass > 1 THEN "incomplete" ELSE "failed"

(* A deadline counts as a cancellation: the error says so. *)
Blocked(t) == IF job[t].cause = "expired" THEN "cancelled" ELSE "blocking"

EndPass(class, t) ==
    LET seenClass == IF dead THEN "cancelled" ELSE class IN
    /\ pc' = "down"
    /\ error' = <<seenClass, t>>
    /\ outcome' = OutcomeOf(seenClass)
    /\ Forget
    /\ UNCHANGED <<pass, plan, reply>>

Advance(phase) ==
    /\ pc' = phase
    /\ UNCHANGED <<known, error, plan, outcome>>

Fault ==
    /\ faults < MaxFaults
    /\ faults' = faults + 1

-----------------------------------------------------------------------------
(* One durable task: llmlifecycle.RunStructured *)

Running(t) ==
    /\ ~Done(t) /\ job[t].at # "refused"
    /\ \/ pc = t[1]
       \/ pc = "reviewers" /\ t[2] \in Reviewers /\ rpc[t[2]] = t[1]

(* AnalyzeThreads looks at its context before it takes up a thread. *)
Startable(t) == Running(t) /\ job[t].at = "idle" /\ ~(t = Thread /\ dead)

Current(t) == meta[t] # None /\ meta[t].input = Input(t)
Reusable(t) == Current(t) /\ meta[t].status \in {"succeeded", "isolated"}
RunnableIfCurrent(t) == meta[t] = None \/ Current(t)
Runnable(t) == meta[t] = None \/ (Current(t) /\ meta[t].status = "blocking")

Set(t, j) == job' = [job EXCEPT ![t] = j]
TaskOnly == UNCHANGED <<saved, host, plan, reply, outcome, pc, known, error, chosen, orch, pool>>

(* A matching task is loaded, not run again; its session row is read from the
   ledger, which a finished context refuses. *)
Load(t) ==
    /\ Startable(t)
    /\ Reusable(t)
    /\ Set(t, IF CtxDone(t) /\ meta[t].session # None
                THEN [NoJob EXCEPT !.at = "refused", !.status = "cancelled"]
                ELSE [NoJob EXCEPT !.at = "done", !.status = meta[t].status,
                                   !.value = output[t], !.session = meta[t].session])
    /\ TaskOnly /\ UNCHANGED <<files, faults>>

(* ValidateMetadata refuses a task whose inputs are no longer those of the
   request; only the dossier summary forgets it and starts over. *)
Refuse(t) ==
    /\ Startable(t)
    /\ t # Dossier /\ meta[t] # None /\ ~Current(t)
    /\ Set(t, [NoJob EXCEPT !.at = "refused", !.status = "stale"])
    /\ TaskOnly /\ UNCHANGED <<files, faults>>

ResetDossier ==
    /\ Startable(Dossier)
    /\ meta[Dossier] # None /\ ~Current(Dossier)
    /\ meta' = [meta EXCEPT ![Dossier] = None]
    /\ output' = [output EXCEPT ![Dossier] = None]
    /\ TaskOnly /\ UNCHANGED <<rows, job, faults>>

(* A failed_blocking task is called again, in its own session if it has one. *)
Call(t) ==
    /\ Startable(t)
    /\ Runnable(t)
    /\ Set(t, [NoJob EXCEPT !.at = "called",
                  !.session = IF meta[t] # None /\ meta[t].session # None
                                THEN meta[t].session ELSE Seed(t)])
    /\ TaskOnly /\ UNCHANGED <<files, faults>>

(* The session a call reports: the one it resumed, or a new one. *)
Reported(t) ==
    IF job[t].session = None \/ Renewed THEN {t, job[t].session} \ {None}
                                        ELSE {job[t].session}

Answer(t, status, value, session) ==
    Set(t, [at |-> "answered", status |-> status, value |-> value, session |-> session,
            cause |-> status, cut |-> CtxDone(t) \/ status = "expired"])

(* The provider answers and InsertSession records the session row. *)
Return(t) ==
    /\ Running(t) /\ job[t].at = "called" /\ ~CtxDone(t)
    /\ \E s \in Reported(t) :
          /\ \/ \E v \in Answers(t) : Answer(t, "succeeded", v, s) /\ UNCHANGED faults
             \/ \E status \in {"invalid", "failed", "expired"} : Answer(t, status, None, s) /\ Fault
          /\ rows' = rows \cup {<<t, pass>>}
    /\ TaskOnly /\ UNCHANGED <<meta, output>>

(* The provider fails before it names a session; "tried" if a first answer was
   already rejected, "expired" if the call's own deadline ended it. *)
ReturnNothing(t) ==
    /\ Running(t) /\ job[t].at = "called"
    /\ \E status \in {"failed", "tried", "expired"} : Answer(t, status, None, None)
    /\ IF CtxDone(t) THEN UNCHANGED faults ELSE Fault
    /\ TaskOnly /\ UNCHANGED files

(* An answer that arrives after the context is done is lost: InsertSession
   refuses it and no metadata is written. *)
ReturnLate(t) ==
    /\ Running(t) /\ job[t].at = "called" /\ CtxDone(t)
    /\ Set(t, [NoJob EXCEPT !.at = "refused", !.status = "cancelled"])
    /\ TaskOnly /\ UNCHANGED <<files, faults>>

(* WriteSuccess: the output first, then the metadata that vouches for it. *)
WriteOutput(t) ==
    /\ Running(t) /\ job[t].at = "answered" /\ job[t].status = "succeeded"
    /\ output' = [output EXCEPT ![t] = job[t].value]
    /\ Set(t, [job[t] EXCEPT !.at = "stored"])
    /\ TaskOnly /\ UNCHANGED <<meta, rows, faults>>

(* failureStatus: a reviewer or thread keeps its failure to itself when the
   caller was still there to see it, no deadline ended it and the task was
   really tried. *)
FinalStatusWhoeverWaits(t) ==
    IF job[t].status = "succeeded" THEN "succeeded"
    ELSE IF t[1] \in Isolating /\ (job[t].status \in {"invalid", "tried"} \/ job[t].session # None)
           THEN "isolated" ELSE "blocking"

FinalStatus(t) ==
    IF job[t].status = "succeeded" THEN "succeeded"
    ELSE IF /\ t[1] \in Isolating /\ ~CtxDone(t) /\ job[t].status # "expired"
            /\ job[t].status \in {"invalid", "tried"} \/ job[t].session # None
           THEN "isolated" ELSE "blocking"

WriteMeta(t) ==
    /\ Running(t)
    /\ \/ job[t].at = "stored"
       \/ job[t].at = "answered" /\ job[t].status # "succeeded"
    /\ meta' = [meta EXCEPT ![t] =
          [status |-> FinalStatus(t), input |-> Input(t), session |-> job[t].session,
           pass |-> pass, cut |-> job[t].cut]]
    /\ Set(t, [job[t] EXCEPT !.at = "done", !.status = FinalStatus(t)])
    /\ TaskOnly /\ UNCHANGED <<output, rows, faults>>

-----------------------------------------------------------------------------
(* The phases of a pass *)

(* planOrResume: a resumed run whose session rows no task metadata explains is
   given up, unless a checkpointed reply proves how far planning came. *)
Unexplained == rows # {} /\ \A t \in Tasks : meta[t] = None

StartPass ==
    /\ pc = "down" /\ outcome \in {"open", "incomplete"} /\ pass < MaxPasses
    /\ pass' = pass + 1
    /\ error' = None
    /\ IF pass > 0 /\ reply = "none" /\ Unexplained
         THEN outcome' = "failed" /\ UNCHANGED <<pc, fresh, seen>>
         ELSE /\ pc' = "dossier"
              /\ seen' = discussion
              /\ fresh' \in {FALSE, pass' \in FreshPasses}
              /\ UNCHANGED outcome
    /\ UNCHANGED <<files, saved, host, plan, reply, slots, dead, chosen, orch, job, pool,
                   faults>>

AfterDossier ==
    /\ pc = "dossier"
    /\ \/ /\ Done(Dossier) /\ job[Dossier].status = "succeeded"
          /\ Advance("cohort")
          /\ UNCHANGED <<reply, chosen, orch, job, pool>>
       \/ job[Dossier].at = "refused" /\ EndPass(job[Dossier].status, Dossier)
       \/ Done(Dossier) /\ job[Dossier].status = "blocking" /\ EndPass(Blocked(Dossier), Dossier)
    /\ UNCHANGED <<files, saved, host, faults>>

(* prepareNamedSession, loadReviewerCohort, restoreOrchestratorSessionFromRun.
   A saved cohort replaces the selection unless this run already selected and
   reviewed; the members' sessions are kept and required agents join. *)
NoCohort == fresh \/ cohort = None
Members == DOMAIN cohort
SelectionInRun == meta[Selection] # None
ReviewerInRun == \E r \in Members \cup Required : meta[Primary(r)] # None

Joined == [r \in Members \cup Required |-> IF r \in Members THEN cohort[r] ELSE None]

LoadCohort ==
    /\ pc = "cohort" /\ ~dead
    /\ IF NoCohort
         THEN /\ cohort' = None
              /\ named' = IF fresh THEN None ELSE named
              /\ reused' = FALSE /\ selDep' = TRUE /\ sel' = sel
              /\ orch' = named'
              /\ Advance("selection")
         ELSE /\ cohort' = Joined
              /\ named' = named
              /\ reused' = TRUE /\ selDep' = SelectionInRun
              /\ orch' = Restored
              /\ IF SelectionInRun /\ ReviewerInRun
                   THEN sel' = sel /\ Advance("selection")
                   ELSE sel' = WithRequired(Members, "reused") /\ Advance(AfterSelecting)
    /\ UNCHANGED <<files, host, reply, job, pool, faults>>

(* checkpointSessionID: the named session follows the orchestrator. *)
Checkpoint(t) ==
    LET s == job[t].session IN
    IF s = None THEN UNCHANGED <<named, orch>> ELSE named' = s /\ orch' = s
Unsaved(t) == Done(t) /\ dead /\ job[t].session # None
KeepNamed(t) == named' = IF job[t].session = None \/ dead THEN named ELSE job[t].session

AfterSelection ==
    /\ pc = "selection"
    /\ \/ /\ Done(Selection) /\ job[Selection].status = "succeeded" /\ ~Unsaved(Selection)
          /\ Checkpoint(Selection)
          /\ sel' = WithRequired(job[Selection].value, "chosen")
          /\ Advance(IF reused THEN AfterSelecting ELSE "persist")
          /\ UNCHANGED <<reply, reused, selDep, job, pool>>
       \/ /\ Unsaved(Selection)
          /\ EndPass("cancelled", Selection) /\ UNCHANGED named
       \/ /\ job[Selection].at = "refused"
          /\ EndPass(job[Selection].status, Selection) /\ UNCHANGED named
       \/ /\ Done(Selection) /\ job[Selection].status = "blocking"
          /\ EndPass(Blocked(Selection), Selection) /\ KeepNamed(Selection)
    /\ UNCHANGED <<files, cohort, host, faults>>

PersistCohort ==
    /\ pc = "persist" /\ ~dead
    /\ cohort' = IF Selected = {} THEN cohort ELSE [r \in Selected |-> None]
    /\ Advance(AfterSelecting)
    /\ UNCHANGED <<files, named, host, reply, chosen, orch, job, pool, faults>>

AfterThread ==
    /\ pc = "thread"
    /\ \/ /\ Done(Thread) /\ job[Thread].status \in {"succeeded", "isolated"}
          /\ ~Unsaved(Thread)
          /\ Checkpoint(Thread)
          /\ Advance("checkpoint")
          /\ UNCHANGED <<reply, chosen, job, pool>>
       \/ /\ Unsaved(Thread)
          /\ EndPass("cancelled", Thread) /\ UNCHANGED named
       \/ /\ job[Thread].at = "idle" /\ dead
          /\ EndPass("cancelled", Thread) /\ UNCHANGED named
       \/ /\ job[Thread].at = "refused"
          /\ EndPass(job[Thread].status, Thread) /\ UNCHANGED named
       \/ /\ Done(Thread) /\ job[Thread].status = "blocking"
          /\ EndPass(Blocked(Thread), Thread) /\ KeepNamed(Thread)
    /\ UNCHANGED <<files, cohort, host, faults>>

(* checkpointThreadResponses: the reply is planned once, posted at once, and a
   failure to post it only warns. *)
PlanReply ==
    /\ pc = "checkpoint" /\ ~dead
    /\ reply' = IF reply = "none" /\ Done(Thread) /\ job[Thread].status = "succeeded"
                  THEN "pending" ELSE reply
    /\ Advance("post")
    /\ UNCHANGED <<files, saved, host, chosen, orch, job, pool, faults>>

PostReply ==
    /\ pc = "post" /\ ~dead /\ reply = "pending" /\ ~replied
    /\ replied' = TRUE
    /\ discussion' = Answered(discussion)
    /\ UNCHANGED <<files, saved, plan, reply, outcome, pc, known, error, chosen, orch, job,
                   pool, faults, comments>>

MarkPosted ==
    /\ pc = "post" /\ ~dead /\ reply = "pending" /\ replied
    /\ reply' = "posted"
    /\ UNCHANGED <<files, saved, host, plan, outcome, pc, known, error, chosen, orch, job,
                   pool, faults>>

StartReviewers ==
    /\ pc = "post" /\ ~dead
    /\ \/ reply # "pending" /\ UNCHANGED faults
       \/ reply = "pending" /\ Fault
    /\ rpc' = [r \in Reviewers |-> IF r \in Selected THEN "waiting" ELSE "none"]
    /\ Advance("reviewers")
    /\ UNCHANGED <<files, saved, host, reply, chosen, orch, job, firstErr>>

(* A context that is done stops the run at its next ledger call. *)
StopBetween ==
    /\ dead /\ pc \in {"cohort", "persist", "checkpoint", "post", "plan"}
    /\ EndPass("cancelled", None)
    /\ UNCHANGED <<files, saved, host, faults>>

-----------------------------------------------------------------------------
(* The reviewers' goroutines: runReviewers and runReviewer *)

PoolOnly == UNCHANGED <<files, named, host, plan, reply, outcome, pc, known, error, chosen,
                        orch, job, faults>>
Move(r, to) == rpc' = [rpc EXCEPT ![r] = to]

Acquire(r) ==
    /\ pc = "reviewers" /\ rpc[r] = "waiting" /\ FreeSlot
    /\ Move(r, "reviewer")
    /\ PoolOnly /\ UNCHANGED <<cohort, firstErr>>

(* A goroutine still waiting when the batch stops leaves without a trace. *)
GiveUp(r) ==
    /\ pc = "reviewers" /\ rpc[r] = "waiting" /\ Stopped
    /\ Move(r, "gone")
    /\ PoolOnly /\ UNCHANGED <<cohort, firstErr>>

(* The first error cancels the batch. *)
Fail(r, class, t) ==
    /\ Move(r, "error")
    /\ firstErr' = IF firstErr = None THEN <<class, t>> ELSE firstErr

AfterPrimary(r) ==
    LET t == Primary(r)
        j == job[t]
    IN
    /\ pc = "reviewers" /\ rpc[r] = "reviewer" /\ j.at \in {"done", "refused"}
    /\ IF j.session # None /\ ~CtxDone(t)
         THEN cohort' = [cohort EXCEPT ![r] = j.session]
         ELSE UNCHANGED cohort
    /\ \/ j.at = "refused" /\ Fail(r, j.status, t)
       \/ j.at = "done" /\ j.session # None /\ CtxDone(t) /\ Fail(r, "cancelled", t)
       \/ /\ j.at = "done" /\ j.status = "blocking" /\ (j.session = None \/ ~CtxDone(t))
          /\ Fail(r, Blocked(t), t)
       \/ /\ j.at = "done" /\ j.status # "blocking" /\ (j.session = None \/ ~CtxDone(t))
          /\ Move(r, IF j.value = "gap" THEN "repair" ELSE "done")
          /\ UNCHANGED firstErr
    /\ PoolOnly

AfterRepair(r) ==
    LET t == Repair(r)
        j == job[t]
    IN
    /\ pc = "reviewers" /\ rpc[r] = "repair" /\ j.at \in {"done", "refused"}
    /\ IF j.at = "refused" \/ j.status = "blocking"
         THEN Fail(r, IF j.at = "refused" THEN j.status ELSE Blocked(t), t)
         ELSE Move(r, "done") /\ UNCHANGED firstErr
    /\ PoolOnly /\ UNCHANGED cohort

Join ==
    /\ pc = "reviewers"
    /\ \A r \in Reviewers : rpc[r] \notin {"waiting", "reviewer", "repair"}
    /\ \/ /\ firstErr = None
          /\ Advance("rollup")
          /\ UNCHANGED <<reply, chosen, orch, job, pool>>
       \/ firstErr # None /\ EndPass(firstErr[1], firstErr[2])
    /\ UNCHANGED <<files, saved, host, faults>>

-----------------------------------------------------------------------------
(* The end of planning *)

(* A rollup that stays invalid after its retry does not stop the review: the
   findings are planned without deduplication. *)
AfterRollup ==
    /\ pc = "rollup"
    /\ \/ /\ Done(Rollup) /\ ~Unsaved(Rollup)
          /\ job[Rollup].status = "succeeded" \/ job[Rollup].cause = "invalid"
          /\ Checkpoint(Rollup)
          /\ Advance("plan")
          /\ UNCHANGED <<reply, chosen, job, pool>>
       \/ /\ Unsaved(Rollup)
          /\ EndPass("cancelled", Rollup) /\ UNCHANGED named
       \/ /\ job[Rollup].at = "refused"
          /\ EndPass(job[Rollup].status, Rollup) /\ UNCHANGED named
       \/ /\ Done(Rollup) /\ job[Rollup].status = "blocking" /\ job[Rollup].cause # "invalid"
          /\ EndPass(Blocked(Rollup), Rollup) /\ KeepNamed(Rollup)
    /\ UNCHANGED <<files, cohort, host, faults>>

(* persistExecutionResult: findings and actions in one transaction; the
   checkpointed reply keeps its row. *)
Publish ==
    /\ pc = "plan" /\ ~dead
    /\ plan' = [selected |-> Selected, tasks |-> BatchTasks, findings |-> FindingIDs,
                ordered |-> IF job[Rollup].status = "succeeded" THEN job[Rollup].value
                                                               ELSE FindingIDs]
    /\ outcome' = "planned"
    /\ pc' = "down"
    /\ Forget
    /\ UNCHANGED <<files, saved, host, reply, pass, error, faults>>

-----------------------------------------------------------------------------
(* What happens to a pass, and to the pull request *)

Crash ==
    /\ pc # "down" /\ Fault
    /\ pc' = "down"
    /\ Forget
    /\ UNCHANGED <<files, saved, host, plan, reply, outcome, pass, error>>

Cancel ==
    /\ Cancellable /\ pc # "down" /\ ~dead /\ Fault
    /\ dead' = TRUE
    /\ UNCHANGED <<files, saved, host, plan, reply, outcome, pc, pass, fresh, slots, seen, error,
                   chosen, orch, job, pool>>

(* A pass reads the discussion when it starts and changes it when it posts, so
   it is enough that people write between passes and just before the post; what
   they wrote before the first pass is the initial discussion. *)
Comment ==
    /\ pc \in {"down", "post"} /\ pass > 0 /\ comments < MaxComments
    /\ comments' = comments + 1
    /\ discussion' = Commented(discussion)
    /\ UNCHANGED <<files, saved, replied, plan, reply, outcome, pc, known, error, chosen, orch,
                   job, pool, faults>>

-----------------------------------------------------------------------------
Init ==
    /\ meta = [t \in Tasks |-> None]
    /\ output = [t \in Tasks |-> None]
    /\ rows = {}
    /\ plan = None
    /\ reply = "none"
    /\ outcome = "open"
    /\ \E S \in Cohorts :
          /\ cohort = IF S = {} THEN None ELSE [r \in S |-> Saved(r)]
          /\ named = IF S = {} THEN None ELSE Saved(None)
    /\ discussion \in Discussions
    /\ replied = FALSE
    /\ pc = "down" /\ pass = 0 /\ fresh = FALSE /\ slots \in SlotCounts /\ seen = 0 /\ dead = FALSE
    /\ error = None
    /\ reused = FALSE /\ selDep = FALSE /\ sel = << >> /\ orch = None
    /\ job = [t \in Tasks |-> NoJob]
    /\ rpc = [r \in Reviewers |-> "none"]
    /\ firstErr = None
    /\ faults = 0 /\ comments = 0

TaskStep(t) ==
    \/ Load(t) \/ Refuse(t) \/ Call(t) \/ Return(t) \/ ReturnNothing(t) \/ ReturnLate(t)
    \/ WriteOutput(t) \/ WriteMeta(t)

ReviewerStep(r) == Acquire(r) \/ GiveUp(r) \/ AfterPrimary(r) \/ AfterRepair(r)

PhaseStep ==
    \/ ResetDossier \/ AfterDossier \/ LoadCohort \/ AfterSelection \/ PersistCohort
    \/ AfterThread \/ PlanReply \/ PostReply \/ MarkPosted \/ StartReviewers
    \/ StopBetween \/ Join \/ AfterRollup \/ Publish

Step == PhaseStep \/ (\E t \in Tasks : TaskStep(t)) \/ (\E r \in Reviewers : ReviewerStep(r))

Next == Step \/ StartPass \/ Crash \/ Cancel \/ Comment

Spec == Init /\ [][Next]_vars

(* A live process keeps running: every blocking call it makes returns. *)
FairSpec == Spec /\ WF_vars(Step)

-----------------------------------------------------------------------------
(* Type correctness of the run's artifacts, rows and process state. *)
TypeOK ==
    /\ \A t \in Tasks : meta[t] # None =>
          meta[t].status \in Statuses /\ meta[t].session \in Sessions
             /\ meta[t].pass \in 1..MaxPasses
    /\ rows \subseteq Tasks \X (1..MaxPasses)
    /\ reply \in {"none", "pending", "posted"}
    /\ outcome \in {"open", "incomplete", "failed", "planned"}
    /\ cohort # None => DOMAIN cohort \subseteq Reviewers /\ Range(cohort) \subseteq Sessions
    /\ {named, orch} \subseteq Sessions
    /\ pc \in Phases /\ pass \in 0..MaxPasses /\ DOMAIN sel \subseteq Reviewers
    /\ \A t \in Tasks :
          job[t].at \in {"idle", "called", "answered", "stored", "done", "refused"}
    /\ \A r \in Reviewers :
          rpc[r] \in {"none", "waiting", "reviewer", "repair", "done", "gone", "error"}
    /\ faults \in 0..MaxFaults

(* Metadata that says a task succeeded is only ever on disk together with the
   output it vouches for and the session row it points to, wherever a crash or
   a cancellation cut the pass: a resumed pass never finds a success it cannot
   load (LoadStructured's "read task output" and "points to a missing ledger
   session" errors). *)
StoredIsBacked ==
    \A t \in Tasks : meta[t] # None =>
        /\ meta[t].status = "succeeded" => output[t] # None
        /\ meta[t].session # None => <<t, meta[t].pass>> \in rows

(* A result that was stored is never paid for again, in whichever pass and after
   whatever cut the pass that stored it: no later session row of that task. *)
PaidOnce ==
    \A t \in Tasks : meta[t] # None /\ meta[t].status # "blocking" =>
        \A p \in 1..MaxPasses : <<t, p>> \in rows => p <= meta[t].pass

(* A review is only planned when every selected reviewer is accounted for by a
   stored result of its own, a repair that was due included - although a
   goroutine that waits for a slot leaves without an error when the batch is
   cancelled. *)
AllAccounted ==
    plan # None => \A r \in plan.selected :
        /\ Primary(r) \in plan.tasks
        /\ meta[Primary(r)].status \in {"succeeded", "isolated"}
        /\ meta[Primary(r)].status = "succeeded" /\ output[Primary(r)] = "gap" =>
              Repair(r) \in plan.tasks
                 /\ meta[Repair(r)].status \in {"succeeded", "isolated"}

(* The rollup that is published orders the findings that are published with it,
   although each pass names the findings anew. *)
RollupNamesPublished == plan # None => plan.ordered = plan.findings

(* A task is only kept as failed for good if its own call failed: a call that
   was cut short because the run was cancelled or because a sibling failed is
   retried by the next pass. *)
NotBlamed == \A t \in Tasks : meta[t] # None /\ meta[t].status = "isolated" => ~meta[t].cut

(* The session kept for a reviewer's next review is its own primary's: never a
   repair's, never another agent's. *)
OwnSession ==
    cohort # None => \A r \in DOMAIN cohort : cohort[r] \in {None, Saved(r), Primary(r)}

(* Two calls in flight never resume the same provider conversation. *)
OneCallPerSession ==
    \A t, u \in Tasks :
        t # u /\ job[t].at = "called" /\ job[u].at = "called" /\ job[t].session # None
            => job[t].session # job[u].session

(* The saved cohort covers every reviewer of the batch before one of them runs,
   so that recording its session never fails the review. *)
CohortBeforeReviewers ==
    pc = "reviewers" => Selected = {} \/ (cohort # None /\ Selected \subseteq DOMAIN cohort)

(* A pass always ends: no reviewer waits for a slot that is never freed, and no
   outcome of a task leaves a phase without a way on. *)
PassEnds == []<>(pc = "down")

(* What docs/llm-task-artifacts.md says of resuming: a durable blocking failure
   or an interruption leaves only the failed task and downstream work to run
   again.  So a rollup is never refused as stale on its own pull request. *)
RollupResumes == error = <<"stale", Rollup>> => comments > 0

(* What docs/review-lifecycle.md says of an interruption after early thread
   actions: recovery continues the remaining planning phases.  So nothing is
   refused as stale because the run's own reply is on the thread. *)
OwnReplyResumes == error # None /\ error[1] = "stale" => comments > 0
=============================================================================
