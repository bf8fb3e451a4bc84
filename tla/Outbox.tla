------------------------------- MODULE Outbox -------------------------------
(***************************************************************************)
(* The outbox: how the planned actions of one live review run reach the    *)
(* pull request (internal/outbox).  The ledger rows of the run, one        *)
(* posting process at a time (the gate's run lock excludes a second one)   *)
(* and the host's view of the pull request are the state.                  *)
(*                                                                         *)
(* Every persisted update and every provider call is a step of its own, so *)
(* that a crash, a cancelled context or a failing ledger write may fall    *)
(* between any two of them.  A send that reports a retryable failure may   *)
(* have landed, may never land, or may still be processed by the host (it  *)
(* is then in "late").                                                     *)
(***************************************************************************)
EXTENDS Naturals, FiniteSets

CONSTANTS
  Actions,             \* action IDs of the run's final plan
  Threads,             \* discussion threads of the pull request
  None,                \* "no current action"
  Kind,                \* [Actions -> Kinds]
  Thread,              \* [Actions -> Threads]; read for thread kinds only
  Rank,                \* [Actions -> Nat]; the order of the action IDs
  Required,            \* actions with the Required flag
  Malformed,           \* actions whose payload may fail local validation
  Bundle,              \* ProviderCaps.BundleInlineOnSubmit
  WriteRetry,          \* Options.WriteRetry # nil and ProviderCaps.WriteSettle > 0
  MaxSends,            \* WriteRetry.MaxAttempts
  PermissionAdvisory,  \* Request.ResolveThreadPermissionAdvisory
  SettledStart,        \* an invocation starts only after earlier writes settled
  MaxFaults            \* bound: failures injected in one behaviour

Kinds == {"thread_reply", "resolve_thread", "inline_comment",
          "rollup_comment", "submit_review"}

ASSUME OutboxAssumption ==
  /\ None \notin Actions
  /\ Kind \in [Actions -> Kinds]
  /\ Thread \in [Actions -> Threads]
  /\ Rank \in [Actions -> Nat]
  /\ \A a, b \in Actions : Rank[a] = Rank[b] => a = b
  /\ Required \subseteq Actions
  /\ Malformed \subseteq Actions
  /\ \A a, b \in Actions :
        Kind[a] = "submit_review" /\ Kind[b] = "submit_review" => a = b
  /\ Bundle \in BOOLEAN
  /\ WriteRetry \in BOOLEAN
  /\ PermissionAdvisory \in BOOLEAN
  /\ SettledStart \in BOOLEAN
  /\ MaxSends \in Nat \ {0}
  /\ MaxFaults \in Nat

VARIABLES
  (* the ledger: rows of planned_actions (malformed: the rows whose payload
     fails local validation) and the run's outcome *)
  planned, malformed, status, class, attempts, outcome,
  (* the posting process; all of it is lost in a crash *)
  pc, mode, why, todo, cur, bundle, sends, spent, err, seen, seenResolved,
  (* the host *)
  copies, resolved, late,
  (* failures injected so far *)
  faults

ledgerVars == <<planned, malformed, status, class, attempts, outcome>>
hostVars   == <<copies, resolved, late>>
viewVars   == <<seen, seenResolved>>
procVars   == <<pc, mode, why, todo, cur, bundle, sends, spent, err, seen,
                seenResolved>>
vars       == <<ledgerVars, procVars, hostVars, faults>>

-----------------------------------------------------------------------------
(* Classification of actions and of provider errors. *)

Statuses == {"pending", "posted", "failed_terminal"}
Classes  == {"none", "terminal", "auth", "advisory"}
Outcomes == {"running", "success", "incomplete", "failed", "aborted"}

CheckpointAction(a) == Kind[a] \in {"thread_reply", "resolve_thread"}
Inline(a)  == Kind[a] = "inline_comment"
Submit(a)  == Kind[a] = "submit_review"
Resolve(a) == Kind[a] = "resolve_thread"
InThread(a) == Kind[a] \in {"thread_reply", "inline_comment"}

KindOrder(a) == CASE Kind[a] = "thread_reply"   -> 0
                  [] Kind[a] = "resolve_thread" -> 1
                  [] Kind[a] = "inline_comment" -> 2
                  [] Kind[a] = "rollup_comment" -> 3
                  [] Kind[a] = "submit_review"  -> 4

Before(a, b) == \/ KindOrder(a) < KindOrder(b)
                \/ KindOrder(a) = KindOrder(b) /\ Rank[a] < Rank[b]

(* a is the member of S that sortActions puts first. *)
First(a, S) == a \in S /\ \A b \in S \ {a} : Before(a, b)

(* "retryable" is ErrRetryable; "retry_after_long" is ErrRetryable with a
   Retry-After beyond WriteRetry.MaxWait. *)
RetryableErrs == {"retryable", "retry_after_long"}
AuthErrs      == {"auth", "permission"}
Errs == RetryableErrs \cup AuthErrs
          \cup {"terminal", "conflict", "stale_sha", "unsupported"}

(* The refusals the host can answer to a send of a: nothing was applied. *)
Refusals(a) ==
  AuthErrs \cup {"terminal", "conflict"}
    \cup (IF Inline(a) \/ Submit(a) THEN {"stale_sha"} ELSE {})
    \cup (IF Resolve(a) THEN {"unsupported"} ELSE {})

AdvisoryError(a, e) ==
  Resolve(a) /\ (e = "unsupported" \/ (PermissionAdvisory /\ e = "permission"))

FailureClass(e) == IF e \in AuthErrs THEN "auth" ELSE "terminal"

Pending(a) == a \in planned /\ status[a] = "pending"

ReplyPosted(a) ==
  \E r \in planned : /\ Kind[r] = "thread_reply"
                     /\ Thread[r] = Thread[a]
                     /\ status[r] = "posted"

(* The marker of a, or a's resolved thread, is in the state last read. *)
Matches(a) == IF Resolve(a)
              THEN Thread[a] \in seenResolved /\ ReplyPosted(a)
              ELSE a \in seen

PendingInlines == {a \in planned : Inline(a) /\ Pending(a)}

BadPayload(a) ==
  \/ a \in malformed
  \/ Bundle /\ Submit(a) /\ PendingInlines \cap malformed # {}

BundledWith(a) == IF Bundle /\ Submit(a) THEN PendingInlines ELSE {}

Eligible(a) ==
  /\ Pending(a)
  /\ ~(Bundle /\ Inline(a))
  /\ mode = "checkpoint" =>
       CheckpointAction(a) /\ (Resolve(a) => ReplyPosted(a))

AdvisoryPending(a) ==
  Resolve(a) /\ status[a] = "pending" /\ class[a] = "advisory"

FinalOutcome ==
  LET required == Required \cap planned IN
  IF \E a \in required : status[a] = "failed_terminal" THEN "failed"
  ELSE IF \E a \in required : status[a] = "pending" /\ ~AdvisoryPending(a)
       THEN "incomplete"
       ELSE "success"

-----------------------------------------------------------------------------
(* Ledger rows and host effects of one step. *)

MarkPosted(a) == /\ status' = [status EXCEPT ![a] = "posted"]
                 /\ class'  = [class EXCEPT ![a] = "none"]

RecordPending(a, c) == /\ status' = [status EXCEPT ![a] = "pending"]
                       /\ class'  = [class EXCEPT ![a] = c]

MarkFailed(a, c) == /\ status' = [status EXCEPT ![a] = "failed_terminal"]
                    /\ class'  = [class EXCEPT ![a] = c]

(* What one provider write carries: its action and, for a bundling submit,
   the inline comments planned into the same request. *)
Write == [act : Actions, try : Nat, acts : SUBSET Actions]
CurrentWrite == [act |-> cur, try |-> attempts[cur], acts |-> {cur} \cup bundle]

Lands(w) ==
  /\ copies' = [a \in Actions |-> IF a \in w.acts /\ ~Resolve(a)
                                  THEN copies[a] + 1 ELSE copies[a]]
  /\ resolved' = resolved \cup
                   {Thread[a] : a \in {b \in Actions : b \in w.acts /\ Resolve(b)}}

Fault == faults < MaxFaults /\ faults' = faults + 1

(* The outbox returns to its caller and forgets what it read and planned. *)
Return ==
  /\ pc' = "idle" /\ why' = "start"
  /\ todo' = {} /\ cur' = None /\ bundle' = {} /\ sends' = 0
  /\ spent' = FALSE /\ err' = "none" /\ seen' = {} /\ seenResolved' = {}

Goto(p, w) == pc' = p /\ why' = w

-----------------------------------------------------------------------------
Init ==
  /\ planned = {}
  /\ malformed \in SUBSET Malformed
  /\ status = [a \in Actions |-> "pending"]
  /\ class = [a \in Actions |-> "none"]
  /\ attempts = [a \in Actions |-> 0]
  /\ outcome = "running"
  /\ pc = "idle" /\ mode = "none" /\ why = "start"
  /\ todo = {} /\ cur = None /\ bundle = {} /\ sends = 0
  /\ spent = FALSE /\ err = "none" /\ seen = {} /\ seenResolved = {}
  /\ copies = [a \in Actions |-> 0]
  /\ resolved = {}
  /\ late = {}
  /\ faults = 0

(* The planner persists the thread actions before the reviewers run, once. *)
PersistCheckpoint ==
  /\ pc = "idle" /\ outcome = "running"
  /\ planned = {}
  /\ planned' = {a \in Actions : CheckpointAction(a)}
  /\ UNCHANGED <<malformed, status, class, attempts, outcome, procVars,
                 hostVars, faults>>

(* Final planning keeps the checkpoint rows and adds the rest atomically;
   this process has posted the checkpoint before it, if there is one. *)
PersistPlan ==
  /\ pc = "idle" /\ outcome = "running"
  /\ planned # Actions
  /\ planned = {} \/ mode = "checkpoint"
  /\ planned' = Actions
  /\ UNCHANGED <<malformed, status, class, attempts, outcome, procVars,
                 hostVars, faults>>

Start(m) ==
  /\ SettledStart => late = {}
  /\ mode' = m
  /\ Goto("threads", "start")
  /\ UNCHANGED <<todo, cur, bundle, sends, spent, err, seen, seenResolved,
                 hostVars, faults>>

(* Once per process: before the reviewers run, or again after a crash. *)
StartCheckpoint ==
  /\ pc = "idle" /\ outcome = "running"
  /\ mode = "none"
  /\ planned # {} /\ \A a \in planned : CheckpointAction(a)
  /\ Start("checkpoint")
  /\ UNCHANGED ledgerVars

(* Mutant: an incomplete run is not taken up again. *)
StartPostOnce ==
  /\ pc = "idle" /\ outcome = "running"
  /\ planned = Actions
  /\ \E a \in planned : Pending(a)
  /\ Start("post")
  /\ UNCHANGED ledgerVars

StartPost ==
  /\ pc = "idle" /\ outcome \in {"running", "incomplete"}
  /\ planned = Actions
  /\ \E a \in planned : Pending(a)
  /\ Start("post")
  /\ UNCHANGED ledgerVars

(* Nothing is pending any more (a crash fell before CompleteRun). *)
PostNothingPending ==
  /\ pc = "idle" /\ outcome \in {"running", "incomplete"}
  /\ planned = Actions
  /\ \A a \in planned : ~Pending(a)
  /\ outcome' = FinalOutcome
  /\ UNCHANGED <<planned, malformed, status, class, attempts, procVars,
                 hostVars, faults>>

(* cr review --retry-posts: required terminal failures are pending again. *)
RetryPosts ==
  /\ pc = "idle" /\ outcome \in Outcomes \ {"aborted"}
  /\ planned = Actions
  /\ \E a \in Required : status[a] \in {"pending", "failed_terminal"}
  /\ LET reset == {a \in Required : status[a] = "failed_terminal"} IN
       /\ status' = [a \in Actions |-> IF a \in reset THEN "pending" ELSE status[a]]
       /\ class'  = [a \in Actions |-> IF a \in reset THEN "none" ELSE class[a]]
  /\ Start("post")
  /\ UNCHANGED <<planned, malformed, attempts, outcome>>

(* continueRun rechecks head and base just before posting. *)
AbortIfMoved ==
  /\ pc = "idle" /\ outcome \in {"running", "incomplete"}
  /\ Fault
  /\ outcome' = "aborted"
  /\ UNCHANGED <<planned, malformed, status, class, attempts, procVars,
                 hostVars>>

-----------------------------------------------------------------------------
(* readHostState: threads first, then issue comments and reviews. *)

ReadThreads ==
  /\ pc = "threads"
  /\ seen' = {a \in planned : InThread(a) /\ copies[a] > 0}
  /\ seenResolved' = resolved
  /\ pc' = "reviews"
  /\ UNCHANGED <<ledgerVars, mode, why, todo, cur, bundle, sends, spent, err,
                 hostVars, faults>>

ReadReviews ==
  /\ pc = "reviews"
  /\ seen' = seen \cup {a \in planned : ~InThread(a) /\ copies[a] > 0}
  /\ pc' = CASE why = "start"    -> "reconcile"
             [] why = "recover"  -> "check"
             [] why = "conflict" -> "judge"
  /\ UNCHANGED <<ledgerVars, mode, why, todo, cur, bundle, sends, spent, err,
                 seenResolved, hostVars, faults>>

ReadFailsAtStart ==
  /\ pc \in {"threads", "reviews"} /\ why = "start"
  /\ Fault
  /\ Return
  /\ UNCHANGED <<ledgerVars, mode, hostVars>>

(* The write stays pending rather than being sent unverified. *)
ReadFailsInRecovery ==
  /\ pc \in {"threads", "reviews"} /\ why = "recover"
  /\ Fault
  /\ Goto("record", "dispatch")
  /\ spent' = TRUE
  /\ UNCHANGED <<ledgerVars, mode, todo, cur, bundle, sends, err, viewVars,
                 hostVars>>

ReadFailsAfterConflict ==
  /\ pc \in {"threads", "reviews"} /\ why = "conflict"
  /\ Fault
  /\ RecordPending(cur, "none")
  /\ Return
  /\ UNCHANGED <<planned, malformed, attempts, outcome, mode, hostVars>>

-----------------------------------------------------------------------------
(* First pass: rows whose marker is already on the pull request. *)

InScope(a) == Pending(a) /\ (mode = "checkpoint" => CheckpointAction(a))

ReconcileHit(a) ==
  /\ pc = "reconcile"
  /\ First(a, {b \in planned : InScope(b) /\ Matches(b)})
  /\ MarkPosted(a)
  /\ UNCHANGED <<planned, malformed, attempts, outcome, procVars, hostVars,
                 faults>>

(* Mutant: the second pass starts without finishing the first. *)
ReconcileSkipped ==
  /\ pc = "reconcile"
  /\ todo' = {a \in planned : InScope(a)}
  /\ Goto("dispatch", "dispatch")
  /\ UNCHANGED <<ledgerVars, mode, cur, bundle, sends, spent, err, viewVars,
                 hostVars, faults>>

ReconcileDone ==
  /\ pc = "reconcile"
  /\ \A a \in planned : InScope(a) => ~Matches(a)
  /\ todo' = {a \in planned : InScope(a)}
  /\ Goto("dispatch", "dispatch")
  /\ UNCHANGED <<ledgerVars, mode, cur, bundle, sends, spent, err, viewVars,
                 hostVars, faults>>

-----------------------------------------------------------------------------
(* Second pass: one action after the other, in canonical order. *)

NextUp(a) == pc = "dispatch" /\ First(a, {b \in todo : Eligible(b)})

PlanFails(a) ==
  /\ NextUp(a) /\ BadPayload(a)
  /\ IF mode = "checkpoint" THEN RecordPending(a, "none")
                            ELSE MarkFailed(a, "terminal")
  /\ todo' = todo \ {a}
  /\ UNCHANGED <<planned, malformed, attempts, outcome, pc, mode, why, cur,
                 bundle, sends, spent, err, viewVars, hostVars, faults>>

LimiterFails(a) ==
  /\ NextUp(a) /\ ~BadPayload(a)
  /\ Fault
  /\ RecordPending(a, "none")
  /\ \/ mode = "post" /\ Return
     \/ /\ mode = "checkpoint"
        /\ todo' = todo \ {a}
        /\ UNCHANGED <<pc, why, cur, bundle, sends, spent, err, viewVars>>
  /\ UNCHANGED <<planned, malformed, attempts, outcome, mode, hostVars>>

(* The attempt is in the ledger before the request leaves. *)
Attempt(a) ==
  /\ NextUp(a) /\ ~BadPayload(a)
  /\ attempts' = [attempts EXCEPT ![a] = @ + 1]
  /\ todo' = todo \ {a}
  /\ cur' = a
  /\ bundle' = BundledWith(a)
  /\ sends' = 1
  /\ pc' = "send"
  /\ UNCHANGED <<planned, malformed, status, class, outcome, mode, why, spent,
                 err, viewVars, hostVars, faults>>

(* Mutant: an outage does not end the retries of later actions. *)
AfterSendUnbudgeted(e) ==
  IF mode = "post" /\ WriteRetry
  THEN IF e = "retryable" /\ sends < MaxSends
       THEN pc' = "recover" /\ UNCHANGED spent
       ELSE pc' = "record" /\ spent' = (e \in RetryableErrs)
  ELSE pc' = "record" /\ UNCHANGED spent

(* Where a send that ended with e goes next. *)
AfterSend(e) ==
  IF mode = "post" /\ WriteRetry /\ ~spent
  THEN IF e = "retryable" /\ sends < MaxSends
       THEN pc' = "recover" /\ UNCHANGED spent
       ELSE pc' = "record" /\ spent' = (e \in RetryableErrs)
  ELSE pc' = "record" /\ UNCHANGED spent

SendAccepted ==
  /\ pc = "send"
  /\ Lands(CurrentWrite)
  /\ err' = "none"
  /\ pc' = "record"
  /\ UNCHANGED <<ledgerVars, mode, why, todo, cur, bundle, sends, spent,
                 viewVars, late, faults>>

SendRefused(e) ==
  /\ pc = "send" /\ e \in Refusals(cur)
  /\ Fault
  /\ err' = e
  /\ AfterSend(e)
  /\ UNCHANGED <<ledgerVars, mode, why, todo, cur, bundle, sends, viewVars,
                 hostVars>>

(* 5xx, 429 or a broken connection: landed, lost, or still being processed. *)
SendUnclear(e) ==
  /\ pc = "send" /\ e \in RetryableErrs
  /\ Fault
  /\ err' = e
  /\ AfterSend(e)
  /\ \/ Lands(CurrentWrite) /\ UNCHANGED late
     \/ UNCHANGED hostVars
     \/ late' = late \cup {CurrentWrite} /\ UNCHANGED <<copies, resolved>>
  /\ UNCHANGED <<ledgerVars, mode, why, todo, cur, bundle, sends, viewVars>>

-----------------------------------------------------------------------------
(* recoverWrite: wait, look for the marker, resend when it is absent. *)

RecoverWait ==
  /\ pc = "recover"
  /\ RecordPending(cur, "none")
  /\ pc' = "sleep"
  /\ UNCHANGED <<planned, malformed, attempts, outcome, mode, why, todo, cur,
                 bundle, sends, spent, err, viewVars, hostVars, faults>>

(* Mutant: the check is made at once, without the settle wait. *)
WakeAtOnce ==
  /\ pc = "sleep"
  /\ Goto("threads", "recover")
  /\ UNCHANGED <<ledgerVars, mode, todo, cur, bundle, sends, spent, err,
                 viewVars, hostVars, faults>>

(* WriteSettle is how long the host may still process a failed write. *)
Wake ==
  /\ pc = "sleep"
  /\ late = {}
  /\ Goto("threads", "recover")
  /\ UNCHANGED <<ledgerVars, mode, todo, cur, bundle, sends, spent, err,
                 viewVars, hostVars, faults>>

RecoveredByMarker ==
  /\ pc = "check" /\ Matches(cur)
  /\ err' = "none"
  /\ Goto("record", "dispatch")
  /\ UNCHANGED <<ledgerVars, mode, todo, cur, bundle, sends, spent, viewVars,
                 hostVars, faults>>

RecoveryLimiterFails ==
  /\ pc = "check" /\ ~Matches(cur)
  /\ Fault
  /\ Goto("record", "dispatch")
  /\ spent' = TRUE
  /\ UNCHANGED <<ledgerVars, mode, todo, cur, bundle, sends, err, viewVars,
                 hostVars>>

Resend ==
  /\ pc = "check" /\ ~Matches(cur)
  /\ attempts' = [attempts EXCEPT ![cur] = @ + 1]
  /\ sends' = sends + 1
  /\ Goto("send", "dispatch")
  /\ UNCHANGED <<planned, malformed, status, class, outcome, mode, todo, cur,
                 bundle, spent, err, viewVars, hostVars, faults>>

-----------------------------------------------------------------------------
(* Recording the result of the current action. *)

(* The action is done; bundled inline comments are marked one by one. *)
NextAction(b) ==
  /\ cur' = None /\ sends' = 0 /\ err' = "none"
  /\ bundle' = b
  /\ Goto(IF b = {} THEN "dispatch" ELSE "bundle", "dispatch")
  /\ UNCHANGED <<mode, todo, spent, viewVars>>

RecordPosted ==
  /\ pc = "record" /\ err = "none"
  /\ MarkPosted(cur)
  /\ NextAction(bundle)
  /\ UNCHANGED <<planned, malformed, attempts, outcome, hostVars, faults>>

MarkBundled(a) ==
  /\ pc = "bundle" /\ First(a, bundle)
  /\ MarkPosted(a)
  /\ NextAction(bundle \ {a})
  /\ UNCHANGED <<planned, malformed, attempts, outcome, hostVars, faults>>

RecordCheckpointError ==
  /\ pc = "record" /\ err # "none" /\ mode = "checkpoint"
  /\ RecordPending(cur, "none")
  /\ NextAction({})
  /\ UNCHANGED <<planned, malformed, attempts, outcome, hostVars, faults>>

RecordStaleSHA ==
  /\ pc = "record" /\ err = "stale_sha" /\ mode = "post"
  /\ RecordPending(cur, "none")
  /\ pc' = "abort"
  /\ UNCHANGED <<planned, malformed, attempts, outcome, mode, why, todo, cur,
                 bundle, sends, spent, err, viewVars, hostVars, faults>>

CompleteAborted ==
  /\ pc = "abort"
  /\ outcome' = "aborted"
  /\ Return
  /\ UNCHANGED <<planned, malformed, status, class, attempts, mode, hostVars,
                 faults>>

RecordAdvisory ==
  /\ pc = "record" /\ mode = "post" /\ AdvisoryError(cur, err)
  /\ RecordPending(cur, "advisory")
  /\ NextAction({})
  /\ UNCHANGED <<planned, malformed, attempts, outcome, hostVars, faults>>

ReadAfterConflict ==
  /\ pc = "record" /\ err = "conflict" /\ mode = "post"
  /\ Goto("threads", "conflict")
  /\ UNCHANGED <<ledgerVars, mode, todo, cur, bundle, sends, spent, err,
                 viewVars, hostVars, faults>>

ConflictReconciled ==
  /\ pc = "judge" /\ Matches(cur)
  /\ MarkPosted(cur)
  /\ NextAction(BundledWith(cur) \cap seen)
  /\ UNCHANGED <<planned, malformed, attempts, outcome, hostVars, faults>>

ConflictFails ==
  /\ pc = "judge" /\ ~Matches(cur)
  /\ MarkFailed(cur, "terminal")
  /\ NextAction({})
  /\ UNCHANGED <<planned, malformed, attempts, outcome, hostVars, faults>>

RecordRetryable ==
  /\ pc = "record" /\ err \in RetryableErrs /\ mode = "post"
  /\ RecordPending(cur, "none")
  /\ NextAction({})
  /\ UNCHANGED <<planned, malformed, attempts, outcome, hostVars, faults>>

RecordFailed ==
  /\ pc = "record" /\ mode = "post"
  /\ err \in AuthErrs \cup {"terminal"}
  /\ ~AdvisoryError(cur, err)
  /\ MarkFailed(cur, FailureClass(err))
  /\ NextAction({})
  /\ UNCHANGED <<planned, malformed, attempts, outcome, hostVars, faults>>

(* Post completes the run; a checkpoint leaves it open. *)
DispatchDone ==
  /\ pc = "dispatch" /\ \A a \in todo : ~Eligible(a)
  /\ outcome' = IF mode = "post" THEN FinalOutcome ELSE outcome
  /\ Return
  /\ UNCHANGED <<planned, malformed, status, class, attempts, mode, hostVars,
                 faults>>

-----------------------------------------------------------------------------
(* The environment. *)

(* A kill, a cancelled context or a ledger write that fails: the process is
   gone, the ledger and the pull request stay. *)
Crash ==
  /\ pc # "idle" \/ mode # "none"
  /\ Fault
  /\ Return
  /\ mode' = "none"
  /\ UNCHANGED <<ledgerVars, hostVars>>

LateWriteLands(w) ==
  /\ w \in late
  /\ Lands(w)
  /\ late' = late \ {w}
  /\ UNCHANGED <<ledgerVars, procVars, faults>>

LateWriteLost(w) ==
  /\ w \in late
  /\ late' = late \ {w}
  /\ UNCHANGED <<ledgerVars, procVars, copies, resolved, faults>>

HumanResolves(t) ==
  /\ t \notin resolved
  /\ Fault
  /\ resolved' = resolved \cup {t}
  /\ UNCHANGED <<ledgerVars, procVars, copies, late>>

-----------------------------------------------------------------------------
Invoke == PersistCheckpoint \/ PersistPlan \/ StartCheckpoint \/ StartPost
            \/ PostNothingPending \/ RetryPosts \/ AbortIfMoved

ReadSteps == ReadThreads \/ ReadReviews \/ ReadFailsAtStart
               \/ ReadFailsInRecovery \/ ReadFailsAfterConflict

PassSteps == \/ ReconcileDone \/ DispatchDone
             \/ \E a \in Actions : \/ ReconcileHit(a) \/ PlanFails(a)
                                   \/ LimiterFails(a) \/ Attempt(a)
                                   \/ MarkBundled(a)

SendSteps == \/ SendAccepted
             \/ \E e \in Errs : SendRefused(e) \/ SendUnclear(e)

RecoverySteps == RecoverWait \/ Wake \/ RecoveredByMarker
                   \/ RecoveryLimiterFails \/ Resend

RecordSteps == \/ RecordPosted \/ RecordCheckpointError \/ RecordStaleSHA
               \/ CompleteAborted \/ RecordAdvisory \/ ReadAfterConflict
               \/ ConflictReconciled \/ ConflictFails \/ RecordRetryable
               \/ RecordFailed

Process == ReadSteps \/ PassSteps \/ SendSteps \/ RecoverySteps \/ RecordSteps

HostSteps == \E w \in late : LateWriteLands(w) \/ LateWriteLost(w)

Humans == \E t \in Threads : HumanResolves(t)

Next == Invoke \/ Process \/ HostSteps \/ Humans \/ Crash

Spec == Init /\ [][Next]_vars

(* The process keeps running, the host stops processing what it accepted,  *)
(* and somebody runs cr review again while the run is still open.          *)
Resume == PersistCheckpoint \/ PersistPlan \/ StartCheckpoint \/ StartPost
            \/ PostNothingPending

FairSpec == /\ Spec
            /\ WF_vars(Process)
            /\ WF_vars(HostSteps)
            /\ WF_vars(Resume)

-----------------------------------------------------------------------------
(* Types. *)

Pcs == {"idle", "threads", "reviews", "reconcile", "dispatch", "send",
        "recover", "sleep", "check", "record", "judge", "bundle", "abort"}

(* Every variable has its type. *)
TypeOK ==
  /\ planned \subseteq Actions
  /\ malformed \subseteq Malformed
  /\ status \in [Actions -> Statuses]
  /\ class \in [Actions -> Classes]
  /\ attempts \in [Actions -> Nat]
  /\ outcome \in Outcomes
  /\ pc \in Pcs
  /\ mode \in {"none", "post", "checkpoint"}
  /\ why \in {"start", "dispatch", "recover", "conflict"}
  /\ todo \subseteq planned
  /\ cur \in planned \cup {None}
  /\ bundle \subseteq planned
  /\ sends \in Nat
  /\ spent \in BOOLEAN
  /\ err \in Errs \cup {"none"}
  /\ seen \subseteq Actions
  /\ seenResolved \subseteq Threads
  /\ copies \in [Actions -> Nat]
  /\ resolved \subseteq Threads
  /\ late \subseteq Write
  /\ faults \in Nat

-----------------------------------------------------------------------------
(* Safety. *)

OnHost(a) == IF Resolve(a) THEN Thread[a] \in resolved ELSE copies[a] > 0

(* A row says "posted" only when its comment, verdict or resolution is on  *)
(* the pull request, whether it was posted, reconciled or bundled.         *)
PostedIsOnHost ==
  \A a \in Actions : status[a] = "posted" => OnHost(a)

(* No comment and no verdict is on the pull request twice, provided an     *)
(* invocation starts only once the host has settled earlier writes.        *)
NoDuplicate ==
  SettledStart => \A a \in Actions : copies[a] <= 1

(* recoverWrite resends an action only while it is neither on the pull     *)
(* request nor still being processed by the host.                          *)
ResendOnlyIfAbsent ==
  pc = "send" /\ sends > 1 /\ ~Resolve(cur)
    => ~OnHost(cur) /\ \A w \in late : cur \notin w.acts

(* One action gets at most MaxSends sends, and once one action has used up *)
(* its sends, every later action of the pass gets a single one.            *)
OutageBudget ==
  /\ sends <= MaxSends
  /\ pc = "send" /\ spent => sends = 1

(* A checkpoint resolves a thread only after its reply is on the thread.   *)
CheckpointResolvesAnswered ==
  pc = "send" /\ mode = "checkpoint" /\ Resolve(cur)
    => \E r \in Actions : /\ Kind[r] = "thread_reply"
                          /\ Thread[r] = Thread[cur]
                          /\ OnHost(r)

(* On a bundling host no inline comment is left behind: once the verdict is *)
(* on the pull request, so is every inline comment still to be reconciled.  *)
VerdictCarriesInlines ==
  \A s, a \in planned :
     Bundle /\ Submit(s) /\ copies[s] > 0 /\ Inline(a) /\ Pending(a)
       => copies[a] > 0

(* A run recorded as successful has every required comment and its verdict *)
(* on the pull request.                                                    *)
SuccessIsDelivered ==
  outcome = "success" =>
    \A a \in Required : ~Resolve(a) => OnHost(a)

(* No step takes back a posted row, and none drops the record of an attempt. *)
LedgerMovesForward ==
  [][\A a \in Actions : /\ status[a] = "posted" => status'[a] = "posted"
                        /\ attempts'[a] >= attempts[a]]_vars

-----------------------------------------------------------------------------
(* What the documentation says beyond that; see the findings. *)

(* "a resolution is not sent until its reply is posted or reconciled" *)
ResolutionAfterReply ==
  pc = "send" /\ Resolve(cur) =>
    \/ ReplyPosted(cur)
    \/ \A r \in planned : Kind[r] = "thread_reply" => Thread[r] # Thread[cur]

(* "Whatever is left stays pending, the run exits 5, and the next cr review *)
(* reconciles it": a finished successful run has nothing left pending.     *)
PendingKeepsRunOpen ==
  outcome = "success" /\ pc = "idle" =>
    \A a \in planned : Pending(a) => AdvisoryPending(a)

-----------------------------------------------------------------------------
(* Liveness. *)

(* With finitely many failures and with cr review run again while the run  *)
(* is open, the run settles for good.                                      *)
RunSettles == <>[](outcome \in {"success", "failed", "aborted"})

-----------------------------------------------------------------------------
(* The outbox implements at-most-once delivery with a sound verdict. *)

Messages == {a \in Actions : ~Resolve(a)}

Contract == INSTANCE Delivery WITH
  Messages     <- Messages,
  Required     <- Required \cap Messages,
  delivered    <- [a \in Messages |-> copies[a]],
  acknowledged <- {a \in Messages : status[a] = "posted"},
  verdict      <- outcome

ImplementsDelivery == Contract!Spec

=============================================================================
