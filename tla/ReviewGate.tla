----------------------------- MODULE ReviewGate -----------------------------
(***************************************************************************)
(* The gate of cr review: concurrent invocations on one pull request, for  *)
(* one profile and posting identity (internal/gate, gateio, reviewrun).    *)
(* They share the ledger, the pull request and one advisory lock per       *)
(* scope, a pair of head and base commit.  The pull request moves under    *)
(* them, processes die, ledger rows are pruned, and cr respond and dry     *)
(* runs add rows of their own to the same table.                           *)
(*                                                                         *)
(* Delivery of one planned action is one step here; module Outbox models   *)
(* what that step consists of.                                             *)
(***************************************************************************)
EXTENDS Naturals, Sequences, FiniteSets

CONSTANTS
  Procs,      \* cr review processes
  None,       \* "nobody"
  Scopes,     \* pairs of head and base commit the pull request goes through
  HeadOf,     \* [Scopes -> head commits]
  BaseOf,     \* [Scopes -> base commits]
  Commands,   \* subset of {"review", "rerun", "retry"}: the flags in use
  Events,     \* outcomes the planner may reach
  Responses,  \* how cr respond may leave its reply: posted, pending, failed
  Overlap,    \* a process may start while another one is at work
  Prunes,     \* cr data prune and retention delete rows
  MaxRuns,    \* bound: runs ever allocated with a fresh ID
  MaxMoves,   \* bound: moves of the pull request
  MaxFaults,  \* bound: crashes, refusals, failed plans, pruned rows
  MaxExtras   \* bound: comments by people, dry runs and response runs

RunIds == 1..MaxRuns
NoRun == 0

ASSUME GateAssumption ==
  /\ None \notin Procs
  /\ Scopes # {}
  /\ \A s, t \in Scopes : HeadOf[s] = HeadOf[t] /\ BaseOf[s] = BaseOf[t] => s = t
  /\ Commands \subseteq {"review", "rerun", "retry"}
  /\ Events \subseteq {"approve", "comment", "request_changes", "nothing"}
  /\ Responses \subseteq {"posted", "pending", "failed"}
  /\ Overlap \in BOOLEAN
  /\ Prunes \in BOOLEAN
  /\ MaxRuns \in Nat /\ MaxMoves \in Nat /\ MaxFaults \in Nat /\ MaxExtras \in Nat

VARIABLES
  (* the ledger and the lock files *)
  runs, nextRun, lock,
  (* the pull request: its current scope and what was posted on it, in order *)
  pr, posts,
  (* the processes: where each one is and what it has read *)
  pc, job,
  (* what was used up of the bounds *)
  moves, faults, extras

vars == <<runs, nextRun, lock, pr, posts, pc, job, moves, faults, extras>>
budget == <<moves, faults, extras>>

-----------------------------------------------------------------------------
(* Rows of the ledger.  A row's kind is what it was allocated for; retried is *)
(* the history of its posting: the user asked for it with --retry-posts.     *)

States == {"absent", "running", "incomplete", "done", "failed", "aborted", "dry_run"}
ActKinds == {"reply", "rollup", "submit"}
ActStates == {"none", "pending", "posted", "failed"}

NoActs == [k \in ActKinds |-> "none"]

Exists(r) == runs[r].state # "absent"
InScope(s) == {r \in RunIds : Exists(r) /\ runs[r].scope = s}

(* Rows for the same head and another base. *)
StaleRows(s) == {r \in RunIds : /\ Exists(r)
                                /\ HeadOf[runs[r].scope] = HeadOf[s]
                                /\ runs[r].scope # s}

Acts(r, st) == {k \in ActKinds : runs[r].acts[k] = st}

Resumable(r) == runs[r].live /\ runs[r].state \in {"running", "incomplete"}

RetryEligible(r) == /\ runs[r].live
                    /\ Acts(r, "pending") \cup Acts(r, "failed") # {}
                    /\ runs[r].state \notin {"absent", "aborted", "dry_run"}

(* r has the latest attempt among the runs of S. *)
Latest(r, S) == r \in S /\ \A q \in S : runs[q].attempt <= runs[r].attempt

(* One more than the highest attempt of the scope: a repaired row is given a *)
(* new attempt, so there are at most as many as rows and faults.            *)
NextAttempt(s) ==
  1 + Cardinality({a \in 1..(MaxRuns + MaxFaults) :
                     \E r \in InScope(s) : a <= runs[r].attempt})

(* The verdict of a plan: the submit's event, or a rollup that needs none. *)
Derivable(r) == \/ runs[r].acts["submit"] # "none"
                \/ runs[r].acts["rollup"] # "none" /\ runs[r].acts["reply"] = "none"

CheckpointOnly(r) == \A k \in ActKinds \ {"reply"} : runs[r].acts[k] = "none"

FinalState(r) == IF Acts(r, "failed") # {} THEN "failed"
                 ELSE IF Acts(r, "pending") # {} THEN "incomplete" ELSE "done"

-----------------------------------------------------------------------------
(* What a process sees of the pull request: the comments (replies, rollups, *)
(* the author's requests) posted before its last read of the comments, and  *)
(* the reviews posted before its last read of the reviews.                  *)

Comments(p) == {i \in 1..job[p].com : posts[i].kind \in {"reply", "rollup", "ask"}}
Reviews(p)  == {i \in 1..job[p].rev : posts[i].kind \in {"submit", "manual"}}

Newest(S) == CHOOSE i \in S : \A j \in S : j <= i

ActiveApproval(reviews) ==
  reviews # {} /\ posts[Newest(reviews)].event = "approve"

VerdictsUpTo(n) == {i \in 1..n : posts[i].kind \in {"submit", "manual"}}

Markers(p) == {i \in Comments(p) : posts[i].kind # "ask"}
                \cup {i \in Reviews(p) : posts[i].kind = "submit"}

(* An author's request newer than every marker, once there is a marker. *)
OverrideAsked(p) ==
  /\ Markers(p) # {}
  /\ \E i \in Comments(p) : posts[i].kind = "ask" /\ i > Newest(Markers(p))

(* Mutant: the ledger is believed rather than the markers. *)
SubmitsInLedger(p, s) == {i \in Reviews(p) : /\ posts[i].kind = "submit"
                                            /\ posts[i].scope = s
                                            /\ Exists(posts[i].run)}

Submits(p, s) == {i \in Reviews(p) : posts[i].kind = "submit" /\ posts[i].scope = s}
Rollups(p, s) == {i \in Comments(p) : posts[i].kind = "rollup" /\ posts[i].scope = s}

(* Mutant: every comment asks for a new review, the tool's own included. *)
DemotedByOwn(p, s) == posts[Newest(Reviews(p))].event = "comment"

(* The latest verdict is a comment without a marker for this scope. *)
Demoted(p, s) ==
  LET last == Newest(Reviews(p))
  IN posts[last].event = "comment" /\ last \notin Submits(p, s)

(* classifyMarkers and summarizePRFromHost. *)
Summary(p) ==
  LET s == job[p].scope
      noDiff  == {i \in Rollups(p, s) : posts[i].event = "nothing"}
      partial == {i \in Rollups(p, s) \ noDiff :
                    \A j \in Submits(p, s) : posts[j].run # posts[i].run}
  IN IF Submits(p, s) # {}
     THEN [state |-> IF Demoted(p, s) THEN "fresh" ELSE "complete", at |-> 0]
     ELSE IF noDiff # {} THEN [state |-> "complete", at |-> 0]
     ELSE IF partial # {} THEN [state |-> "partial", at |-> Newest(partial)]
     ELSE [state |-> "fresh", at |-> 0]

(* decidePR, the last part of the gate's decision. *)
Decision(p) ==
  LET sum == Summary(p)
      run == posts[sum.at].run
  IN CASE sum.state = "fresh"    -> "fresh"
       [] sum.state = "complete" -> "early_exit"
       [] sum.state = "partial"  ->
            IF ~Exists(run) THEN "repair"
            ELSE IF Resumable(run) THEN "error_inconsistent"
            ELSE IF runs[run].state = "failed" THEN "error_partial_failed"
            ELSE IF runs[run].state = "aborted" THEN "fresh"
            ELSE "error_unsupported"

-----------------------------------------------------------------------------
(* Steps of a process. *)

IdleJob == [cmd |-> "none", scope |-> CHOOSE s \in Scopes : TRUE, hand |-> NoRun,
            rev |-> 0, com |-> 0, loops |-> 0, stale |-> {}, open |-> {},
            doomed |-> {}, todo |-> {}]

At(p, l) == pc[p] = l
Goto(p, l) == pc' = [pc EXCEPT ![p] = l]

(* Mutant: the lock outlives the process. *)
ExitKeepingLock(p) ==
  /\ pc' = [pc EXCEPT ![p] = "idle"]
  /\ job' = [job EXCEPT ![p] = IdleJob]
  /\ UNCHANGED lock

(* Leaving releases every lock of the process: deferred releases on return, *)
(* the operating system when it dies.                                       *)
Exit(p) ==
  /\ pc' = [pc EXCEPT ![p] = "idle"]
  /\ job' = [job EXCEPT ![p] = IdleJob]
  /\ lock' = [s \in Scopes |-> IF lock[s] = p THEN None ELSE lock[s]]

ReleaseStale(p) ==
  lock' = [s \in Scopes |-> IF lock[s] = p /\ s # job[p].scope THEN None ELSE lock[s]]

SetState(r, st) == runs' = [runs EXCEPT ![r].state = st]
SetAct(r, k, st) == runs' = [runs EXCEPT ![r].acts[k] = st]

Row(s, live, kind, state, acts, event) ==
  [scope |-> s, attempt |-> NextAttempt(s), live |-> live, kind |-> kind,
   state |-> state, acts |-> acts, event |-> event, retried |-> FALSE]

NewRun(row) == /\ nextRun <= MaxRuns
               /\ runs' = [runs EXCEPT ![nextRun] = row]
               /\ nextRun' = nextRun + 1

Post(kind, r, s, event) ==
  posts' = Append(posts, [kind |-> kind, run |-> r, scope |-> s, event |-> event,
                          by |-> IF r = NoRun THEN "person" ELSE runs'[r].kind])

(* A marker names the action besides the run: what a repair plans is not    *)
(* recognised in what the run posted before its row was lost.               *)
OnHost(r, k) == \E i \in 1..Len(posts) :
  posts[i].run = r /\ posts[i].kind = k /\ posts[i].by = runs[r].kind

Fault == faults < MaxFaults /\ faults' = faults + 1 /\ UNCHANGED <<moves, extras>>
Extra == extras < MaxExtras /\ extras' = extras + 1 /\ UNCHANGED <<moves, faults>>

Init ==
  /\ runs = [r \in RunIds |-> [scope |-> CHOOSE s \in Scopes : TRUE, attempt |-> 0,
                               live |-> FALSE, kind |-> "review",
                               state |-> "absent", acts |-> NoActs,
                               event |-> "comment", retried |-> FALSE]]
  /\ nextRun = 1
  /\ lock = [s \in Scopes |-> None]
  /\ pr \in Scopes
  /\ posts = <<>>
  /\ pc = [p \in Procs |-> "idle"]
  /\ job = [p \in Procs |-> IdleJob]
  /\ moves = 0 /\ faults = 0 /\ extras = 0

-----------------------------------------------------------------------------
(* Up to the lock. *)

(* GetPR: the invocation is about the scope the pull request has now. *)
Start(p, c) ==
  /\ At(p, "idle")
  /\ Overlap \/ \A q \in Procs : At(q, "idle")
  /\ job' = [job EXCEPT ![p] = [IdleJob EXCEPT !.cmd = c, !.scope = pr]]
  /\ Goto(p, IF c = "review" THEN "precheck" ELSE "lock")
  /\ UNCHANGED <<runs, nextRun, lock, pr, posts, budget>>

(* An approval by the posting identity ends the invocation. *)
Precheck(p) ==
  /\ At(p, "precheck")
  /\ IF ActiveApproval(VerdictsUpTo(Len(posts)))
     THEN Exit(p)
     ELSE /\ job' = [job EXCEPT ![p].rev = Len(posts)]
          /\ Goto(p, "lock")
          /\ UNCHANGED lock
  /\ UNCHANGED <<runs, nextRun, pr, posts, budget>>

(* The lock is not waited for. *)
Acquire(p) ==
  /\ At(p, "lock")
  /\ IF lock[job[p].scope] # None
     THEN Exit(p)
     ELSE /\ lock' = [lock EXCEPT ![job[p].scope] = p]
          /\ Goto(p, IF job[p].cmd = "review" THEN "host" ELSE "local")
          /\ UNCHANGED job
  /\ UNCHANGED <<runs, nextRun, pr, posts, budget>>

-----------------------------------------------------------------------------
(* The gate, under the lock of its scope. *)

(* Comments are read now; reviews only after a first round of the loop, the *)
(* first round uses those read before the lock was taken.                   *)
ReadHost(p) ==
  /\ At(p, "host")
  /\ LET again == job[p].loops > 0 IN
     IF again /\ ActiveApproval(VerdictsUpTo(Len(posts)))
     THEN Exit(p)
     ELSE /\ job' = [job EXCEPT ![p].com = Len(posts),
                                ![p].rev = IF again THEN Len(posts) ELSE @]
          /\ Goto(p, "override")
          /\ UNCHANGED lock
  /\ UNCHANGED <<runs, nextRun, pr, posts, budget>>

(* No request, a classifier that fails or one that says no. *)
NoOverride(p) ==
  /\ At(p, "override")
  /\ Goto(p, "local")
  /\ UNCHANGED <<runs, nextRun, lock, pr, posts, job, budget>>

(* The override's run is allocated beside the runs of the scope. *)
AllocateOverride(p) ==
  /\ At(p, "override") /\ OverrideAsked(p)
  /\ IF pr # job[p].scope
     THEN Exit(p) /\ UNCHANGED <<runs, nextRun>>
     ELSE /\ NewRun(Row(job[p].scope, TRUE, "override", "running", NoActs, "approve"))
          /\ job' = [job EXCEPT ![p].hand = nextRun]
          /\ Goto(p, "insert")
          /\ UNCHANGED lock
  /\ UNCHANGED <<pr, posts, budget>>

(* buildLocalState and the part of the decision that needs nothing else. *)
LocalReview(p) ==
  /\ At(p, "local") /\ job[p].cmd = "review"
  /\ LET s == job[p].scope
         stale == StaleRows(s)
     IN /\ \A r \in InScope(s) : ~Resumable(r)
        /\ IF job[p].loops > Cardinality(stale) + 2
           THEN Exit(p)
           ELSE /\ job' = [job EXCEPT ![p].stale = stale,
                                      ![p].open = {r \in stale : Resumable(r)}]
                /\ Goto(p, "probe")
                /\ UNCHANGED lock
  /\ UNCHANGED <<runs, nextRun, pr, posts, budget>>

(* A run of the scope that is still open is resumed, unless the base moved. *)
LocalResume(p, r) ==
  /\ At(p, "local") /\ job[p].cmd = "review"
  /\ Latest(r, {q \in InScope(job[p].scope) : Resumable(q)})
  /\ IF BaseOf[pr] # BaseOf[job[p].scope]
     THEN SetState(r, "aborted") /\ Exit(p)
     ELSE /\ job' = [job EXCEPT ![p].hand = r]
          /\ Goto(p, "chosen")
          /\ UNCHANGED <<runs, lock>>
  /\ UNCHANGED <<nextRun, pr, posts, budget>>

(* --rerun supersedes the open runs of its scope and allocates a new one. *)
LocalRerun(p) ==
  /\ At(p, "local") /\ job[p].cmd = "rerun"
  /\ IF BaseOf[pr] # BaseOf[job[p].scope]
     THEN Exit(p)
     ELSE /\ job' = [job EXCEPT ![p].doomed =
                       {r \in InScope(job[p].scope) : Resumable(r)}]
          /\ Goto(p, "supersede")
          /\ UNCHANGED lock
  /\ UNCHANGED <<runs, nextRun, pr, posts, budget>>

(* --retry-posts: required actions that failed are pending again. *)
LocalRetry(p, r) ==
  /\ At(p, "local") /\ job[p].cmd = "retry"
  /\ Latest(r, {q \in InScope(job[p].scope) : RetryEligible(q)})
  /\ IF pr # job[p].scope
     THEN SetState(r, "aborted") /\ Exit(p)
     ELSE IF ~Derivable(r)
     THEN Exit(p) /\ UNCHANGED runs
     ELSE /\ runs' = [runs EXCEPT ![r].retried = TRUE,
                                  ![r].acts = [k \in ActKinds |->
                                     IF @[k] = "failed" THEN "pending" ELSE @[k]]]
          /\ job' = [job EXCEPT ![p].hand = r,
                                ![p].todo = Acts(r, "pending") \cup Acts(r, "failed")]
          /\ Goto(p, "post")
          /\ UNCHANGED lock
  /\ UNCHANGED <<nextRun, pr, posts, budget>>

NothingToRetry(p) ==
  /\ At(p, "local") /\ job[p].cmd = "retry"
  /\ \A r \in InScope(job[p].scope) : ~RetryEligible(r)
  /\ Exit(p)
  /\ UNCHANGED <<runs, nextRun, pr, posts, budget>>

(* Each stale row's lock is tried in turn, latest attempt first: the lock of *)
(* a scope is taken for the first of its rows and is then held for the rest. *)
FirstOfItsScope(r, S) ==
  \A q \in S : runs[q].scope = runs[r].scope => runs[q].attempt <= runs[r].attempt

(* Mutant: a run is taken for dead without its lock. *)
ProbeNothing(p) ==
  /\ At(p, "probe")
  /\ job' = [job EXCEPT ![p].doomed = {r \in job[p].open : FirstOfItsScope(r, job[p].stale)}]
  /\ Goto(p, "decide")
  /\ UNCHANGED <<runs, nextRun, lock, pr, posts, budget>>

Probe(p) ==
  /\ At(p, "probe")
  /\ LET free == {r \in job[p].stale : lock[runs[r].scope] = None}
     IN /\ lock' = [s \in Scopes |-> IF \E r \in free : runs[r].scope = s
                                     THEN p ELSE lock[s]]
        /\ job' = [job EXCEPT ![p].doomed =
                     {r \in free \cap job[p].open : FirstOfItsScope(r, job[p].stale)}]
  /\ Goto(p, "decide")
  /\ UNCHANGED <<runs, nextRun, pr, posts, budget>>

DecideAbort(p) ==
  /\ At(p, "decide") /\ job[p].doomed # {}
  /\ Goto(p, "reap")
  /\ UNCHANGED <<runs, nextRun, lock, pr, posts, job, budget>>

(* CompleteRun, one run after the other; it fails when the row is gone. *)
Doom(p, r) ==
  /\ r \in job[p].doomed
  /\ IF Exists(r)
     THEN /\ SetState(r, "aborted")
          /\ job' = [job EXCEPT ![p].doomed = @ \ {r}]
          /\ UNCHANGED <<pc, lock>>
     ELSE Exit(p) /\ UNCHANGED runs
  /\ UNCHANGED <<nextRun, pr, posts, budget>>

AbortStale(p, r) == At(p, "reap") /\ Doom(p, r)

Supersede(p, r) == At(p, "supersede") /\ Doom(p, r)

(* The stale locks are released and the gate starts over. *)
StaleAborted(p) ==
  /\ At(p, "reap") /\ job[p].doomed = {}
  /\ ReleaseStale(p)
  /\ job' = [job EXCEPT ![p].loops = @ + 1, ![p].stale = {}, ![p].open = {}]
  /\ Goto(p, "host")
  /\ UNCHANGED <<runs, nextRun, pr, posts, budget>>

DecideExit(p) ==
  /\ At(p, "decide") /\ job[p].doomed = {}
  /\ Decision(p) \notin {"fresh", "repair"}
  /\ Exit(p)
  /\ UNCHANGED <<runs, nextRun, pr, posts, budget>>

(* The run of a new review, asked for with or without --rerun. *)
AllocateFresh(p, kind) ==
  /\ NewRun(Row(job[p].scope, TRUE, kind, "running", NoActs, "comment"))
  /\ ReleaseStale(p)
  /\ job' = [job EXCEPT ![p].hand = nextRun, ![p].stale = {}, ![p].open = {}]
  /\ Goto(p, "chosen")

(* The base is looked at once more, the head is not. *)
DecideFresh(p) ==
  /\ At(p, "decide") /\ job[p].doomed = {}
  /\ Decision(p) = "fresh"
  /\ IF BaseOf[pr] # BaseOf[job[p].scope]
     THEN Exit(p) /\ UNCHANGED <<runs, nextRun>>
     ELSE AllocateFresh(p, "review")
  /\ UNCHANGED <<pr, posts, budget>>

Superseded(p) ==
  /\ At(p, "supersede") /\ job[p].doomed = {}
  /\ AllocateFresh(p, "rerun")
  /\ UNCHANGED <<pr, posts, budget>>

(* The row of a partial review is gone: it is allocated again under its ID. *)
DecideRepair(p, i) ==
  LET r == posts[i].run IN
  /\ At(p, "decide") /\ job[p].doomed = {}
  /\ Decision(p) = "repair"
  /\ i \in Rollups(p, job[p].scope) /\ i = Summary(p).at
  /\ IF pr # job[p].scope
     THEN Exit(p) /\ UNCHANGED runs
     ELSE /\ runs' = [runs EXCEPT ![r] = Row(job[p].scope, TRUE, "repair", "running",
                                             NoActs, posts[i].event)]
          /\ ReleaseStale(p)
          /\ job' = [job EXCEPT ![p].hand = r, ![p].stale = {}, ![p].open = {}]
          /\ Goto(p, "insert")
  /\ UNCHANGED <<nextRun, pr, posts, budget>>

(* An override or a repair plans one action: the verdict. *)
InsertSubmit(p) ==
  /\ At(p, "insert") /\ Exists(job[p].hand)
  /\ SetAct(job[p].hand, "submit", "pending")
  /\ job' = [job EXCEPT ![p].todo = {"submit"}]
  /\ Goto(p, "post")
  /\ UNCHANGED <<nextRun, lock, pr, posts, budget>>

InsertFails(p) ==
  /\ At(p, "insert") /\ Exists(job[p].hand)
  /\ Fault
  /\ SetState(job[p].hand, "absent")
  /\ Exit(p)
  /\ UNCHANGED <<nextRun, pr, posts>>

-----------------------------------------------------------------------------
(* The run in hand: planning, the last look at the pull request, posting. *)

(* A stored plan is kept; without a verdict in it the run has failed. *)
KeepPlan(p) ==
  LET r == job[p].hand IN
  /\ At(p, "chosen") /\ Exists(r) /\ ~CheckpointOnly(r)
  /\ IF Derivable(r)
     THEN Goto(p, "premises") /\ UNCHANGED <<runs, job, lock>>
     ELSE SetState(r, "failed") /\ Exit(p)
  /\ UNCHANGED <<nextRun, pr, posts, budget>>

(* Otherwise the planner runs, under the active-runs lock. *)
EnterPlanner(p) ==
  /\ At(p, "chosen") /\ Exists(job[p].hand) /\ CheckpointOnly(job[p].hand)
  /\ Goto(p, "plan")
  /\ UNCHANGED <<runs, nextRun, lock, pr, posts, job, budget>>

(* Replies to threads are planned before the reviewers start, then the pull *)
(* request is looked at; a look that fails leaves them to the final posting.*)
CheckpointLook(p) ==
  LET r == job[p].hand IN
  /\ At(p, "plan") /\ Exists(r)
  /\ \/ runs[r].acts["reply"] = "pending" /\ UNCHANGED budget
     \/ runs[r].acts["reply"] = "none" /\ Extra
  /\ \/ /\ pr # job[p].scope
        /\ runs' = [runs EXCEPT ![r].state = "aborted", ![r].acts["reply"] = "pending"]
        /\ Exit(p)
     \/ /\ pr = job[p].scope
        /\ SetAct(r, "reply", "pending") /\ Goto(p, "checkpoint")
        /\ UNCHANGED <<job, lock>>
     \/ /\ SetAct(r, "reply", "pending") /\ Goto(p, "reviewers")
        /\ UNCHANGED <<job, lock>>
  /\ UNCHANGED <<nextRun, pr, posts>>

(* The comments are read, the limiter is waited for and the reply is sent,  *)
(* wherever the pull request is by now.  What fails is left to the final    *)
(* posting.                                                                 *)
Checkpoint(p) ==
  LET r == job[p].hand IN
  /\ At(p, "checkpoint") /\ Exists(r)
  /\ \/ /\ SetAct(r, "reply", "posted")
        /\ IF OnHost(r, "reply") THEN UNCHANGED posts
                                 ELSE Post("reply", r, job[p].scope, "none")
     \/ UNCHANGED <<runs, posts>>
  /\ Goto(p, "reviewers")
  /\ UNCHANGED <<nextRun, lock, pr, job, budget>>

NoThreads(p) ==
  /\ At(p, "plan") /\ Exists(job[p].hand)
  /\ runs[job[p].hand].acts["reply"] # "pending"
  /\ Goto(p, "reviewers")
  /\ UNCHANGED <<runs, nextRun, lock, pr, posts, job, budget>>

(* The rollup and the verdict are added to the replies. *)
Plan(p, e) ==
  LET r == job[p].hand IN
  /\ At(p, "reviewers") /\ Exists(r)
  /\ runs' = [runs EXCEPT
                ![r].event = e,
                ![r].acts = [k \in ActKinds |->
                   IF k = "rollup" \/ (k = "submit" /\ e # "nothing")
                   THEN "pending" ELSE @[k]]]
  /\ Goto(p, "premises")
  /\ UNCHANGED <<nextRun, lock, pr, posts, job, budget>>

PlanFails(p, st) ==
  /\ pc[p] \in {"plan", "checkpoint", "reviewers"} /\ Exists(job[p].hand)
  /\ st \in {"failed", "incomplete"}
  /\ Fault
  /\ SetState(job[p].hand, st)
  /\ Exit(p)
  /\ UNCHANGED <<nextRun, pr, posts>>

(* Mutant: the run is posted whatever became of the pull request. *)
PremisesIgnored(p) ==
  /\ At(p, "premises") /\ Exists(job[p].hand)
  /\ job' = [job EXCEPT ![p].todo = Acts(job[p].hand, "pending")]
  /\ Goto(p, "post")
  /\ UNCHANGED <<runs, nextRun, lock, pr, posts, budget>>

Premises(p) ==
  /\ At(p, "premises") /\ Exists(job[p].hand)
  /\ IF pr # job[p].scope
     THEN SetState(job[p].hand, "aborted") /\ Exit(p)
     ELSE /\ job' = [job EXCEPT ![p].todo = Acts(job[p].hand, "pending")]
          /\ Goto(p, "post")
          /\ UNCHANGED <<runs, lock>>
  /\ UNCHANGED <<nextRun, pr, posts, budget>>

(* Replies before the rollup, the rollup before the verdict. *)
NextAct(p, k) ==
  /\ At(p, "post") /\ Exists(job[p].hand)
  /\ k \in job[p].todo
  /\ k = "rollup" => "reply" \notin job[p].todo
  /\ k = "submit" => job[p].todo = {"submit"}

PostAct(p, k) ==
  LET r == job[p].hand IN
  /\ NextAct(p, k)
  /\ SetAct(r, k, "posted")
  /\ IF OnHost(r, k) THEN UNCHANGED posts
                     ELSE Post(k, r, job[p].scope, runs[r].event)
  /\ job' = [job EXCEPT ![p].todo = @ \ {k}]
  /\ UNCHANGED <<nextRun, lock, pr, pc, budget>>

PostFails(p, k, st) ==
  /\ NextAct(p, k) /\ ~OnHost(job[p].hand, k)
  /\ st \in {"pending", "failed"}
  /\ Fault
  /\ SetAct(job[p].hand, k, st)
  /\ job' = [job EXCEPT ![p].todo = @ \ {k}]
  /\ UNCHANGED <<nextRun, lock, pr, posts, pc>>

(* The host refuses a verdict on a head that is not the current one. *)
PostStaleSHA(p) ==
  /\ NextAct(p, "submit") /\ ~OnHost(job[p].hand, "submit")
  /\ HeadOf[pr] # HeadOf[job[p].scope]
  /\ SetState(job[p].hand, "aborted")
  /\ Exit(p)
  /\ UNCHANGED <<nextRun, pr, posts, budget>>

(* The process dies after the host took the write, an early reply included. *)
PostThenCrash(p, k) ==
  /\ \/ NextAct(p, k)
     \/ At(p, "checkpoint") /\ Exists(job[p].hand) /\ k = "reply"
  /\ ~OnHost(job[p].hand, k)
  /\ Fault
  /\ UNCHANGED runs
  /\ Post(k, job[p].hand, job[p].scope, runs[job[p].hand].event)
  /\ Exit(p)
  /\ UNCHANGED <<nextRun, pr>>

Finish(p) ==
  /\ At(p, "post") /\ job[p].todo = {} /\ Exists(job[p].hand)
  /\ SetState(job[p].hand, FinalState(job[p].hand))
  /\ Exit(p)
  /\ UNCHANGED <<nextRun, pr, posts, budget>>

(* The row was deleted: the next update of it fails. *)
RunGone(p) ==
  /\ pc[p] \in {"insert", "chosen", "plan", "checkpoint", "reviewers", "premises", "post"}
  /\ ~Exists(job[p].hand)
  /\ Exit(p)
  /\ UNCHANGED <<runs, nextRun, pr, posts, budget>>

(* A kill or a cancelled context, anywhere. *)
Crash(p) ==
  /\ ~At(p, "idle")
  /\ Fault
  /\ Exit(p)
  /\ UNCHANGED <<runs, nextRun, pr, posts>>

-----------------------------------------------------------------------------
(* The environment. *)

Move(s) ==
  /\ moves < MaxMoves /\ s # pr
  /\ pr' = s
  /\ moves' = moves + 1
  /\ UNCHANGED <<runs, nextRun, lock, posts, pc, job, faults, extras>>

(* The author asks for an approval. *)
Ask ==
  /\ Extra
  /\ Post("ask", NoRun, pr, "none")
  /\ UNCHANGED <<runs, nextRun, lock, pr, pc, job>>

(* A person reviews under the posting identity. *)
ManualReview ==
  /\ Extra
  /\ Post("manual", NoRun, pr, "comment")
  /\ UNCHANGED <<runs, nextRun, lock, pr, pc, job>>

(* A dry run takes no lock; its row shares the numbering of attempts. *)
DryRun ==
  /\ Extra
  /\ NewRun(Row(pr, FALSE, "review", "dry_run", NoActs, "comment"))
  /\ UNCHANGED <<lock, pr, posts, pc, job>>

(* cr respond holds the scope's lock from start to end; what it leaves is a *)
(* row with its reply posted, open or failed.                               *)
Respond(st) ==
  /\ Extra
  /\ lock[pr] = None
  /\ NewRun(Row(pr, TRUE, "response",
                CASE st = "posted" -> "done" [] st = "failed" -> "failed"
                  [] OTHER -> "incomplete",
                [NoActs EXCEPT !["reply"] = st], "comment"))
  /\ IF st = "posted" THEN Post("reply", nextRun, pr, "none") ELSE UNCHANGED posts
  /\ UNCHANGED <<lock, pr, pc, job>>

(* Deleting runs takes the active-runs lock exclusively; the planner holds  *)
(* it shared, the gate and the posting do not.                              *)
Prune(r) ==
  /\ Prunes /\ Exists(r)
  /\ \A p \in Procs : pc[p] \notin {"plan", "checkpoint", "reviewers"}
  /\ Fault
  /\ SetState(r, "absent")
  /\ UNCHANGED <<nextRun, lock, pr, posts, pc, job>>

-----------------------------------------------------------------------------
Gate(p) ==
  \/ Precheck(p) \/ Acquire(p) \/ ReadHost(p) \/ NoOverride(p) \/ AllocateOverride(p)
  \/ LocalReview(p) \/ LocalRerun(p) \/ NothingToRetry(p)
  \/ \E r \in RunIds : \/ LocalResume(p, r) \/ LocalRetry(p, r)
                       \/ AbortStale(p, r) \/ Supersede(p, r)
  \/ Probe(p) \/ DecideAbort(p) \/ StaleAborted(p) \/ DecideExit(p)
  \/ DecideFresh(p) \/ Superseded(p) \/ InsertSubmit(p)
  \/ \E i \in 1..Len(posts) : DecideRepair(p, i)

Work(p) ==
  \/ KeepPlan(p) \/ EnterPlanner(p) \/ CheckpointLook(p) \/ Checkpoint(p) \/ NoThreads(p)
  \/ \E e \in Events : Plan(p, e)
  \/ Premises(p) \/ \E k \in ActKinds : PostAct(p, k)
  \/ PostStaleSHA(p) \/ Finish(p) \/ RunGone(p)

Fail(p) ==
  \/ InsertFails(p) \/ Crash(p)
  \/ \E st \in States : PlanFails(p, st)
  \/ \E k \in ActKinds : \/ PostThenCrash(p, k)
                         \/ \E st \in ActStates : PostFails(p, k, st)

Environment ==
  \/ \E s \in Scopes : Move(s)
  \/ Ask \/ ManualReview \/ DryRun
  \/ \E st \in Responses : Respond(st)
  \/ \E r \in RunIds : Prune(r)

Next ==
  \/ \E p \in Procs : Gate(p) \/ Work(p) \/ Fail(p) \/ \E c \in Commands : Start(p, c)
  \/ Environment

Spec == Init /\ [][Next]_vars

(* A process that is at work goes on: nothing in it waits for another one,  *)
(* each pass of the gate's loop is bounded.  That cr review is invoked      *)
(* again and again is the assumption under which a review is promised.      *)
Fairness ==
  /\ \A p \in Procs : WF_vars(Gate(p) \/ Work(p))
  /\ \A p \in Procs : WF_vars(Start(p, "review"))

LiveSpec == Spec /\ Fairness

-----------------------------------------------------------------------------
(* Invariants. *)

Verdicts == {"approve", "comment", "request_changes", "nothing"}

RunType == [scope : Scopes, attempt : Nat, live : BOOLEAN,
            kind : {"review", "rerun", "response", "repair", "override"},
            state : States, acts : [ActKinds -> ActStates], event : Verdicts,
            retried : BOOLEAN]

Labels == {"idle", "precheck", "lock", "host", "override", "local", "probe", "decide",
           "reap", "supersede", "insert", "chosen", "plan", "checkpoint", "reviewers",
           "premises", "post"}

JobType == [cmd : Commands \cup {"none"}, scope : Scopes, hand : RunIds \cup {NoRun},
            rev : Nat, com : Nat, loops : Nat, stale : SUBSET RunIds,
            open : SUBSET RunIds, doomed : SUBSET RunIds, todo : SUBSET ActKinds]

RunPost == [kind : ActKinds, run : RunIds, scope : Scopes, event : Verdicts \cup {"none"},
            by : {"review", "rerun", "response", "repair", "override"}]

PersonPost == [kind : {"ask", "manual"}, run : {NoRun}, scope : Scopes,
               event : {"comment", "none"}, by : {"person"}]

(* Every variable has its type. *)
TypeOK ==
  /\ runs \in [RunIds -> RunType]
  /\ nextRun \in 1..(MaxRuns + 1)
  /\ lock \in [Scopes -> Procs \cup {None}]
  /\ pr \in Scopes
  /\ posts \in Seq(RunPost \cup PersonPost)
  /\ pc \in [Procs -> Labels]
  /\ job \in [Procs -> JobType]
  /\ moves \in 0..MaxMoves /\ faults \in 0..MaxFaults /\ extras \in 0..MaxExtras

Hand(p) == job[p].hand

(* A run is worked on by one process at most, whatever the two were invoked *)
(* with and however the pull request moved (runlock, gateio.Evaluate).      *)
RunExclusive ==
  \A p, q \in Procs : Hand(p) # NoRun /\ Hand(p) = Hand(q) => p = q

(* A run is worked on under the lock of its own scope. *)
HandUnderLock ==
  \A p \in Procs : Hand(p) # NoRun =>
    /\ lock[job[p].scope] = p
    /\ Exists(Hand(p)) => runs[Hand(p)].scope = job[p].scope /\ runs[Hand(p)].live

(* The decision for p is due and the stale runs are dealt with. *)
Deciding(p) == At(p, "decide") /\ job[p].doomed = {}

SubmitsOnHost(s) == {i \in 1..Len(posts) : posts[i].kind = "submit" /\ posts[i].scope = s}

(* A verdict for the scope is on the host and no person commented since. *)
CompleteOnHost(s) ==
  /\ SubmitsOnHost(s) # {}
  /\ LET last == Newest(VerdictsUpTo(Len(posts)))
     IN posts[last].event # "comment" \/ last \in SubmitsOnHost(s)

(* Complete markers for the current head and base end the invocation early: *)
(* no second review of what is reviewed.                                    *)
CompleteExitsEarly ==
  \A p \in Procs : Deciding(p) /\ CompleteOnHost(job[p].scope) =>
    Decision(p) = "early_exit"

(* Verdict j repeats verdict i: same scope, and neither a person's comment  *)
(* nor a verdict for another scope lies between them.                       *)
Repeats(j, i) ==
  /\ i < j /\ posts[i].scope = posts[j].scope
  /\ \A k \in i + 1 .. j - 1 :
       /\ posts[k].kind # "manual"
       /\ posts[k].kind = "submit" => posts[k].scope = posts[i].scope

(* A scope that has its verdict gets no second one: complete markers end    *)
(* cr review early.                                                         *)
ReviewedOnce ==
  \A s \in Scopes : \A i, j \in SubmitsOnHost(s) :
    posts[j].by # "override" => ~Repeats(j, i)

(* The same for what cr review posts unasked.  A --rerun is meant to review *)
(* again, --retry-posts to post what a run planned whatever came after it;  *)
(* an override or a response is a second row of its scope that may be left  *)
(* open, and an open row is resumed before the markers are looked at.       *)
Unasked(i) == /\ posts[i].kind = "submit" /\ posts[i].by \in {"review", "repair"}
              /\ ~runs[posts[i].run].retried

OwnRunsReviewOnce ==
  \A i, j \in 1..Len(posts) : Unasked(i) /\ Unasked(j) => ~Repeats(j, i)

(* Once the stale runs are dealt with, each one that is still open is held  *)
(* by another live process.                                                 *)
OpenStaleReaped ==
  \A p \in Procs : Deciding(p) =>
    \A r \in job[p].open : lock[runs[r].scope] \notin {None, p}

-----------------------------------------------------------------------------
(* Action properties. *)

(* While a process has a run in hand, nobody else changes or deletes it. *)
HandIsMine ==
  [][\A p \in Procs : Hand(p) # NoRun /\ UNCHANGED <<pc[p], job[p]>> =>
        UNCHANGED runs[Hand(p)]]_vars

(* What has been aborted stays as it is: not resumed, retried or posted. *)
AbortedIsFinal ==
  [][\A r \in RunIds : runs[r].state = "aborted" =>
        runs'[r] = runs[r] \/ runs'[r].state = "absent"]_vars

(* The pull request is elsewhere and nobody is between a look at it and the *)
(* posting that look allows, the early one of replies included.             *)
Left(s) ==
  /\ pr # s
  /\ \A p \in Procs : job[p].scope = s => pc[p] \notin {"insert", "checkpoint", "post"}

(* From then on nothing is posted for the scope, unless the pull request    *)
(* comes back: planning, early replies, resuming, retrying, repairing and   *)
(* overriding all look again before they post.  Whoever has looked already  *)
(* posts what it was about to, wherever the pull request has gone since.    *)
NothingPostedOnceLeft ==
  [][\A s \in Scopes : Left(s) /\ pr' # s =>
        /\ Left(s)'
        /\ \A i \in Len(posts) + 1 .. Len(posts') :
              posts'[i].scope = s => posts'[i].kind \notin ActKinds]_vars

-----------------------------------------------------------------------------
(* Liveness. *)

(* The scope has its verdict, or the latest run failed between rollup and   *)
(* verdict: the gate then asks the user for --retry-posts or --rerun.       *)
Reviewed(s) ==
  \E i \in 1..Len(posts) :
    \/ posts[i].kind = "submit" /\ (posts[i].scope = s \/ posts[i].event = "approve")
    \/ posts[i].kind = "rollup" /\ posts[i].scope = s /\ posts[i].event = "nothing"

LeftToUser(s) ==
  \E r \in RunIds : runs[r].state = "failed" /\ runs[r].scope = s /\ OnHost(r, "rollup")

(* When the pull request has stopped moving and cr review is invoked again  *)
(* and again, its scope is reviewed: no crash, however placed, leaves a     *)
(* lock or a row behind that keeps every later invocation out.              *)
EventuallyReviewed == \A s \in Scopes : <>[](pr = s) => <>(Reviewed(s) \/ LeftToUser(s))

=============================================================================
