--------------------------- MODULE ThreadRespond ---------------------------
(***************************************************************************)
(* cr respond (internal/threadrespond): a process reads the threads of a   *)
(* pull request, asks the model about each finding of ours that a person   *)
(* has replied to, stores the answers as planned actions of a run, and     *)
(* posts them.  A later invocation takes an unfinished run up again, with  *)
(* the analyses and the actions it has stored, unless the threads say      *)
(* something else by now; --rerun starts another run beside it, and        *)
(* --retry-posts posts what an earlier run has planned.                    *)
(*                                                                         *)
(* All processes are of one profile and posting identity.  The lock's path *)
(* and the rows name both (threadrespond.go:683-695, 537-552), so that two *)
(* profiles on one pull request exclude each other by nothing; each would  *)
(* have locks and runs of its own, and the threads in common.              *)
(*                                                                         *)
(* Any process may die at any step, people write to the threads and push   *)
(* to the branch at any time.  A pass over the actions is what Outbox      *)
(* describes in detail; here each action is one step of it.                *)
(***************************************************************************)
EXTENDS Naturals, Sequences, FiniteSets

CONSTANTS
  Procs,
  Threads,        \* numbered in the order of Normalize: path, line, ID
  Beginnings,     \* what the threads may look like at first
  Decisions,      \* what the model may decide, by thread
  People,         \* what people may do: pairs of a thread and a deed
  Requests,       \* the ways cr respond may be called when nobody is waiting
  LockAttempts,   \* lockPRAttempts
  None,
  MaxUpsets       \* bound: deeds, pushes, faults and calls that nobody waits for

ASSUME RespondAssumption ==
  /\ Threads \subseteq Nat /\ IsFiniteSet(Threads)
  /\ Beginnings \subseteq [Threads -> [resolved : BOOLEAN,
                                      comments : Seq([by : {"cr", "person", "own"}, run : {0}])]]
  /\ Decisions \in [Threads -> SUBSET {"skip", "reply", "resolve"}]
  /\ People \subseteq Threads \X {"person", "own", "settle"}
  /\ Requests \subseteq [dry : BOOLEAN, rerun : BOOLEAN, resolve : BOOLEAN, retry : BOOLEAN]
  /\ LockAttempts \in Nat \ {0}
  /\ None \notin Procs
  /\ MaxUpsets \in Nat

VARIABLES
  head,       \* the pull request's premises: head and base
  thread,     \* the threads on the host
  runs,       \* rows, planned actions and task artifacts of the runs, by attempt
  lock,       \* who has the live-run lock of which premises
  pc, req,    \* of each process: where it is, how it was called
  work,       \* what it has read
  upsets      \* how many of what is bounded there have been

respondVars == <<head, thread, runs, lock, pc, req, work, upsets>>

Plain == [dry |-> FALSE, rerun |-> FALSE, resolve |-> TRUE, retry |-> FALSE]
Idle  == [head |-> 0, tries |-> 0, seen |-> None, run |-> 0, ask |-> {}, post |-> {}]

Labels == {"idle", "read", "lock", "recheck", "list", "find", "allocate", "mark", "load",
           "analyse", "finish", "retry", "premises", "reconcile", "send"}

Comment(by, run) == [by |-> by, run |-> run]
Person  == Comment("person", 0)
Finding == Comment("cr", 0)

(* A comment of the posting identity counts as ours by its marker, and as   *)
(* nobody's without one (a person may use the same account).                *)
NewestOurs(cs) ==
  CHOOSE i \in 0..Len(cs) :
    /\ i # 0 => cs[i].by = "cr"
    /\ \A j \in i + 1 .. Len(cs) : cs[j].by # "cr"

PersonAfter(cs, i) == \E j \in i + 1 .. Len(cs) : cs[j].by = "person"

(* Ours, unresolved, and a person has had the last word. *)
Eligible(th) ==
  /\ ~th.resolved
  /\ NewestOurs(th.comments) # 0 /\ PersonAfter(th.comments, NewestOurs(th.comments))

(* A task is stored under its thread, with the fingerprint of its prompt: a  *)
(* prompt holds the whole thread.                                           *)
Task(input, decision) == [input |-> input, decision |-> decision]   \* "failed": failed_blocking

NoActions == [reply |-> "none", resolve |-> "none"]
Fresh(h, dry) == [head |-> h, dry |-> dry, marked |-> FALSE, outcome |-> None,
                  tasks |-> [t \in Threads |-> None], acts |-> [t \in Threads |-> NoActions]]

Kinds == {"reply", "resolve"}
Statuses == {"none", "planned_only", "pending", "posted", "failed"}
Outcomes == {None, "incomplete", "failed", "aborted", "dry_run", "nothing_to_review", "comment"}

Actions(run, S) == {a \in Kinds \X Threads : run.acts[a[2]][a[1]] \in S}
Planned(run)    == Actions(run, Statuses \ {"none"})
Pending(run)    == Actions(run, {"pending"})

Run(p) == runs[work[p].run]

RespondTypeOK ==
  /\ head \in 0..MaxUpsets
  /\ thread \in [Threads -> [resolved : BOOLEAN, comments : Seq([by : {"cr", "person", "own"}, run : 0..Len(runs)])]]
  /\ \A i \in DOMAIN runs :
       /\ runs[i].head \in 0..head /\ runs[i].dry \in BOOLEAN /\ runs[i].marked \in BOOLEAN
       /\ runs[i].outcome \in Outcomes
       /\ \A t \in Threads : runs[i].tasks[t] = None \/ runs[i].tasks[t].decision \in Decisions[t] \cup {"failed"}
       /\ runs[i].acts \in [Threads -> [Kinds -> Statuses]]
  /\ lock \in [0..MaxUpsets -> Procs \cup {None}]
  /\ pc \in [Procs -> Labels] /\ req \in [Procs -> Requests \cup {Plain}]
  /\ \A p \in Procs : work[p].run \in 0..Len(runs) /\ work[p].tries \in 0..LockAttempts
  /\ upsets \in 0..MaxUpsets

RespondInit ==
  /\ head = 0 /\ thread \in Beginnings /\ runs = <<>>
  /\ lock = [h \in 0..MaxUpsets |-> None]
  /\ pc = [p \in Procs |-> "idle"] /\ req = [p \in Procs |-> Plain] /\ work = [p \in Procs |-> Idle]
  /\ upsets = 0

-----------------------------------------------------------------------------
(* What surrounds the processes. *)

Upset == upsets < MaxUpsets /\ upsets' = upsets + 1

(* A comment, under a name of their own or under the posting identity's, or  *)
(* the button that resolves and reopens a thread.                           *)
Deed(t, by) ==
  /\ Upset
  /\ thread' = IF by = "settle" THEN [thread EXCEPT ![t].resolved = ~@]
                                ELSE [thread EXCEPT ![t].comments = Append(@, Comment(by, 0))]
  /\ UNCHANGED <<head, runs, lock, pc, req, work>>

Push ==
  /\ Upset /\ head' = head + 1
  /\ UNCHANGED <<thread, runs, lock, pc, req, work>>

(* A thread waits until it is answered, or a live run has found that what it *)
(* says now needs no answer.                                                *)
Waiting(t) ==
  /\ Eligible(thread[t])
  /\ \A i \in DOMAIN runs : ~runs[i].dry => runs[i].tasks[t] # Task(thread[t].comments, "skip")

-----------------------------------------------------------------------------
(* Steps shared by the operations. *)

Goto(p, l) == pc' = [pc EXCEPT ![p] = l]
Released(p) == [h \in DOMAIN lock |-> IF lock[h] = p THEN None ELSE lock[h]]

End(p) ==
  /\ Goto(p, "idle")
  /\ req' = [req EXCEPT ![p] = Plain] /\ work' = [work EXCEPT ![p] = Idle]
  /\ lock' = Released(p)

Completed(p, outcome) == runs' = [runs EXCEPT ![work[p].run].outcome = outcome]

(* Mutant: whatever ends with an error may be taken up again. *)
EndsOpen(p) ==
  /\ End(p)
  /\ IF req[p].retry THEN UNCHANGED runs ELSE Completed(p, "incomplete")

(* completeFailedOnError: a fresh or resumed run that ends with an error is  *)
(* failed; --retry-posts leaves its run as it was.                          *)
EndsInError(p) ==
  /\ End(p)
  /\ IF req[p].retry THEN UNCHANGED runs ELSE Completed(p, "failed")

-----------------------------------------------------------------------------
(* readPRWithOptionalLock *)

(* Somebody waits, and nobody else is at work: other calls are counted.      *)
Wanted == (\E t \in Threads : Waiting(t)) /\ \A q \in Procs : pc[q] = "idle"

Invoke(p, r) ==
  /\ pc[p] = "idle"
  /\ \/ r = Plain /\ Wanted /\ UNCHANGED upsets
     \/ r \in Requests \cup {Plain} /\ Upset
  /\ \E i \in IF r.retry THEN DOMAIN runs ELSE {0} : work' = [work EXCEPT ![p].run = i]
  /\ req' = [req EXCEPT ![p] = r] /\ Goto(p, "read")
  /\ UNCHANGED <<head, thread, runs, lock>>

(* A dry run takes no lock. *)
ReadPR(p) ==
  /\ pc[p] = "read"
  /\ work' = [work EXCEPT ![p].head = head]
  /\ Goto(p, IF req[p].dry THEN "list" ELSE "lock")
  /\ UNCHANGED <<head, thread, runs, lock, req, upsets>>

Lock(p) ==
  /\ pc[p] = "lock" /\ lock[work[p].head] = None
  /\ lock' = [lock EXCEPT ![work[p].head] = p]
  /\ Goto(p, "recheck")
  /\ UNCHANGED <<head, thread, runs, req, work, upsets>>

Busy(p) ==
  /\ pc[p] = "lock" /\ lock[work[p].head] # None
  /\ End(p)
  /\ UNCHANGED <<head, thread, runs, upsets>>

Recheck(p) ==
  /\ pc[p] = "recheck" /\ head = work[p].head
  /\ Goto(p, IF req[p].retry THEN "retry" ELSE "list")
  /\ UNCHANGED <<head, thread, runs, lock, req, work, upsets>>

MovedBeforeLock(p) ==
  /\ pc[p] = "recheck" /\ head # work[p].head
  /\ IF work[p].tries + 1 < LockAttempts
     THEN /\ Goto(p, "read") /\ lock' = Released(p)
          /\ work' = [work EXCEPT ![p].tries = @ + 1, ![p].head = 0] /\ UNCHANGED req
     ELSE End(p)
  /\ UNCHANGED <<head, thread, runs, upsets>>

-----------------------------------------------------------------------------
(* fresh: the threads, the run, the answers *)

List(p) ==
  /\ pc[p] = "list"
  /\ work' = [work EXCEPT ![p].seen = [t \in {t \in Threads : Eligible(thread[t])} |-> thread[t].comments]]
  /\ Goto(p, "find")
  /\ UNCHANGED <<head, thread, runs, lock, req, upsets>>

(* Runs of another kind, and those that died before they were marked, do not *)
(* count.                                                                   *)
Resumable(p) ==
  {i \in DOMAIN runs :
     /\ runs[i].head = work[p].head /\ runs[i].dry = req[p].dry /\ runs[i].marked
     /\ runs[i].outcome \in {None, "incomplete"}}

Resume(p) ==
  /\ pc[p] = "find" /\ ~req[p].rerun
  /\ \E i \in Resumable(p) :
       /\ \A j \in Resumable(p) : j <= i
       /\ work' = [work EXCEPT ![p].run = i]
  /\ Goto(p, "load")
  /\ UNCHANGED <<head, thread, runs, lock, req, upsets>>

Allocate(p) ==
  /\ pc[p] = "find" /\ (req[p].rerun \/ Resumable(p) = {})
  /\ runs' = Append(runs, Fresh(work[p].head, req[p].dry))
  /\ work' = [work EXCEPT ![p].run = Len(runs) + 1]
  /\ Goto(p, "mark")
  /\ UNCHANGED <<head, thread, lock, req, upsets>>

Mark(p) ==
  /\ pc[p] = "mark"
  /\ runs' = [runs EXCEPT ![work[p].run].marked = TRUE]
  /\ Goto(p, "load")
  /\ UNCHANGED <<head, thread, lock, req, work, upsets>>

(* Actions that a run has stored are posted as they are, if the options still *)
(* allow them and the threads they belong to still say what was asked about. *)
StillAllowed(p) == req[p].resolve \/ \A t \in Threads : Run(p).acts[t].resolve = "none"

(* Mutant: a thread that is not listed any more is passed over. *)
SameListedThreads(p) ==
  \A a \in Actions(Run(p), {"pending", "posted", "failed"}) :
    a[2] \in DOMAIN work[p].seen => Run(p).tasks[a[2]].input = work[p].seen[a[2]]

SameThreads(p) ==
  \A a \in Actions(Run(p), {"pending", "posted", "failed"}) :
    /\ a[2] \in DOMAIN work[p].seen
    /\ Run(p).tasks[a[2]].input = work[p].seen[a[2]]

LoadActions(p) ==
  /\ pc[p] = "load" /\ Planned(Run(p)) # {}
  /\ StillAllowed(p) /\ SameThreads(p)
  /\ Goto(p, IF req[p].dry THEN "finish" ELSE "premises")
  /\ UNCHANGED <<head, thread, runs, lock, req, work, upsets>>

Refuse(p) ==
  /\ pc[p] = "load" /\ Planned(Run(p)) # {}
  /\ ~StillAllowed(p) \/ ~SameThreads(p)
  /\ EndsInError(p)
  /\ UNCHANGED <<head, thread, upsets>>

StartAnalysis(p) ==
  /\ pc[p] = "load" /\ Planned(Run(p)) = {}
  /\ work' = [work EXCEPT ![p].ask = DOMAIN work[p].seen]
  /\ Goto(p, "analyse")
  /\ UNCHANGED <<head, thread, runs, lock, req, upsets>>

(* The threads are analysed in order; a task that has failed is asked again. *)
Turn(p, t) ==
  /\ pc[p] = "analyse"
  /\ t \in work[p].ask /\ \A u \in work[p].ask : t <= u

SameInput(p, t) == Run(p).tasks[t] # None => Run(p).tasks[t].input = work[p].seen[t]
Answered(p, t)  == Run(p).tasks[t] # None /\ Run(p).tasks[t].decision # "failed"

Reuse(p, t) ==
  /\ Turn(p, t) /\ SameInput(p, t) /\ Answered(p, t)
  /\ work' = [work EXCEPT ![p].ask = @ \ {t}]
  /\ UNCHANGED <<head, thread, runs, lock, pc, req, upsets>>

Analyse(p, t) ==
  /\ Turn(p, t) /\ SameInput(p, t) /\ ~Answered(p, t)
  /\ \E d \in Decisions[t] :
       runs' = [runs EXCEPT ![work[p].run].tasks[t] = Task(work[p].seen[t], d)]
  /\ work' = [work EXCEPT ![p].ask = @ \ {t}]
  /\ UNCHANGED <<head, thread, lock, pc, req, upsets>>

AnalysisFails(p, t) ==
  /\ Turn(p, t) /\ SameInput(p, t) /\ ~Answered(p, t) /\ Upset
  /\ runs' = [runs EXCEPT ![work[p].run].tasks[t] = Task(work[p].seen[t], "failed"),
                          ![work[p].run].outcome = "incomplete"]
  /\ End(p)
  /\ UNCHANGED <<head, thread>>

Stale(p, t) ==
  /\ Turn(p, t) /\ ~SameInput(p, t)
  /\ EndsInError(p)
  /\ UNCHANGED <<head, thread, upsets>>

(* Every thread that the model would answer gets a reply, and is resolved    *)
(* where both the model and the options say so.  One transaction.            *)
Plan(p) ==
  /\ pc[p] = "analyse" /\ work[p].ask = {}
  /\ LET new  == IF req[p].dry THEN "planned_only" ELSE "pending"
         says(t, S) == t \in DOMAIN work[p].seen /\ Run(p).tasks[t].decision \in S
     IN runs' = [runs EXCEPT ![work[p].run].acts =
          [t \in Threads |->
             [reply   |-> IF says(t, {"reply", "resolve"}) THEN new ELSE "none",
              resolve |-> IF says(t, {"resolve"}) /\ req[p].resolve THEN new ELSE "none"]]]
  /\ Goto(p, IF req[p].dry \/ Planned(runs'[work[p].run]) = {} THEN "finish" ELSE "premises")
  /\ UNCHANGED <<head, thread, lock, req, work, upsets>>

(* A dry run, or one with nothing to say, is over. *)
FinishRun(p) ==
  /\ pc[p] = "finish"
  /\ Completed(p, IF req[p].dry THEN "dry_run" ELSE "nothing_to_review")
  /\ End(p)
  /\ UNCHANGED <<head, thread, upsets>>

-----------------------------------------------------------------------------
(* retry: the head must be the run's; what failed for good is pending again.  *)

RetryRun(p) ==
  /\ pc[p] = "retry" /\ Run(p).head = work[p].head /\ ~Run(p).dry
  /\ runs' = [runs EXCEPT ![work[p].run].acts =
       [t \in Threads |-> [k \in Kinds |-> IF @[t][k] = "failed" THEN "pending" ELSE @[t][k]]]]
  /\ Goto(p, "premises")
  /\ UNCHANGED <<head, thread, lock, req, work, upsets>>

RefuseRetry(p) ==
  /\ pc[p] = "retry" /\ (Run(p).head # work[p].head \/ Run(p).dry)
  /\ End(p)
  /\ UNCHANGED <<head, thread, runs, upsets>>

-----------------------------------------------------------------------------
(* abortIfMoved and outbox.Post *)

Unmoved(p) ==
  /\ pc[p] = "premises" /\ head = Run(p).head
  /\ Goto(p, "reconcile")
  /\ UNCHANGED <<head, thread, runs, lock, req, work, upsets>>

Moved(p) ==
  /\ pc[p] = "premises" /\ head # Run(p).head
  /\ Completed(p, "aborted") /\ End(p)
  /\ UNCHANGED <<head, thread, upsets>>

(* The pull request, or what has been posted on it, cannot be read: before the *)
(* first write, or again after a write that met a conflict.                  *)
ReadFails(p) ==
  /\ \/ pc[p] = "premises"
     \/ pc[p] = "reconcile" /\ Pending(Run(p)) # {}
     \/ pc[p] = "send" /\ work[p].post # {}
  /\ Upset /\ EndsInError(p)
  /\ UNCHANGED <<head, thread>>

(* A reply is known by its marker; a resolution only by the thread, so that it *)
(* counts as ours where our reply is posted.                                 *)
OnHost(t, i) == \E c \in DOMAIN thread[t].comments :
                  thread[t].comments[c].by = "cr" /\ thread[t].comments[c].run = i

Reconciled(run, i) ==
  [t \in Threads |->
     LET reply == IF run.acts[t].reply = "pending" /\ OnHost(t, i) THEN "posted" ELSE run.acts[t].reply
         ours  == run.acts[t].resolve = "pending" /\ thread[t].resolved /\ reply = "posted"
     IN [reply |-> reply, resolve |-> IF ours THEN "posted" ELSE run.acts[t].resolve]]

Reconcile(p) ==
  /\ pc[p] = "reconcile"
  /\ runs' = [runs EXCEPT ![work[p].run].acts = Reconciled(Run(p), work[p].run)]
  /\ work' = [work EXCEPT ![p].post = Pending(runs'[work[p].run])]
  /\ Goto(p, "send")
  /\ UNCHANGED <<head, thread, lock, req, upsets>>

(* Replies go before resolutions, among themselves in the order of their random *)
(* IDs.  A write may be refused for now or for good, or be applied without   *)
(* the answer reaching us.                                                   *)
Applied(a, i) ==
  IF a[1] = "reply"
  THEN [thread EXCEPT ![a[2]].comments = Append(@, Comment("cr", i))]
  ELSE [thread EXCEPT ![a[2]].resolved = TRUE]

Recorded(p, a, s) == runs' = [runs EXCEPT ![work[p].run].acts[a[2]][a[1]] = s]

Send(p, a) ==
  /\ pc[p] = "send" /\ a \in work[p].post
  /\ a[1] = "resolve" => \A b \in work[p].post : b[1] = "resolve"
  /\ \/ thread' = Applied(a, work[p].run) /\ Recorded(p, a, "posted") /\ UNCHANGED upsets
     \/ Upset /\ thread' = Applied(a, work[p].run) /\ UNCHANGED runs
     \/ Upset /\ UNCHANGED <<thread, runs>>
     \/ Upset /\ UNCHANGED thread /\ Recorded(p, a, "failed")
  /\ work' = [work EXCEPT ![p].post = @ \ {a}]
  /\ UNCHANGED <<head, lock, pc, req>>

(* finalOutcome; a run that was retried without any action is nothing_to_review. *)
Verdict(run) ==
  CASE Actions(run, {"failed"}) # {} -> "failed"
    [] Pending(run) # {} -> "incomplete"
    [] Planned(run) = {} -> "nothing_to_review"
    [] OTHER -> "comment"

Complete(p) ==
  /\ pc[p] = "send" /\ work[p].post = {}
  /\ Completed(p, Verdict(Run(p))) /\ End(p)
  /\ UNCHANGED <<head, thread, upsets>>

(* A process that dies, or whose context is cancelled, leaves its run open.  *)
Crash(p) ==
  /\ pc[p] # "idle" /\ Upset /\ End(p)
  /\ UNCHANGED <<head, thread, runs>>

-----------------------------------------------------------------------------

Step(p) ==
  \/ ReadPR(p) \/ Lock(p) \/ Busy(p) \/ Recheck(p) \/ MovedBeforeLock(p)
  \/ List(p) \/ Resume(p) \/ Allocate(p) \/ Mark(p)
  \/ LoadActions(p) \/ Refuse(p) \/ StartAnalysis(p)
  \/ \E t \in Threads : Reuse(p, t) \/ Analyse(p, t) \/ AnalysisFails(p, t) \/ Stale(p, t)
  \/ Plan(p) \/ FinishRun(p)
  \/ RetryRun(p) \/ RefuseRetry(p)
  \/ Unmoved(p) \/ Moved(p) \/ ReadFails(p) \/ Reconcile(p)
  \/ \E a \in Kinds \X Threads : Send(p, a)
  \/ Complete(p)

RespondNext ==
  \/ \E d \in People : Deed(d[1], d[2])
  \/ Push
  \/ \E p \in Procs :
       \/ \E r \in Requests \cup {Plain} : Invoke(p, r)
       \/ Step(p)
       \/ Crash(p)

RespondSpec == RespondInit /\ [][RespondNext]_respondVars

(* A process that runs takes its steps; who waits for an answer runs cr      *)
(* respond again.                                                           *)
LiveSpec ==
  /\ RespondSpec
  /\ \A p \in Procs : WF_respondVars(Step(p)) /\ WF_respondVars(Invoke(p, Plain))

-----------------------------------------------------------------------------
(* A reply of run i lands on a thread where no person's comment that the      *)
(* run has read is without an answer of ours.                               *)
Unasked(t, i) ==
  LET cs == thread[t].comments
      n  == NewestOurs(cs)
  IN /\ thread'[t].comments = Append(cs, Comment("cr", i))
     /\ \A k \in n + 1 .. Len(runs[i].tasks[t].input) : cs[k].by # "person"
     /\ cs[n].run # 0 => runs[cs[n].run].head = runs[i].head
     /\ \A p \in Procs : pc[p] = "send" /\ work[p].run = i => ~req[p].retry

(* Nobody is answered twice, or with what was written about an earlier state  *)
(* of the thread that we have answered since: whichever runs were left with  *)
(* their analyses or answers, and whoever has gone on beside them (--rerun,  *)
(* another process, a person) before one is taken up                         *)
(* (threadrespond.go:168, :454).  Two exceptions are the code's own: runs    *)
(* for two heads do not exclude each other, and --retry-posts posts what was *)
(* planned whatever has been said since.                                     *)
AnsweredOnce == [][\A t \in Threads : \A i \in DOMAIN runs : ~Unasked(t, i)]_respondVars

(* However runs were cut, refused or made stale, whoever waits is answered in *)
(* the end: a run that cannot go on must not be found again                  *)
(* (threadrespond.go:559, completeFailedOnError).                            *)
EventuallyAnswered == <>[](\A t \in Threads : ~Waiting(t))

(* docs/llm-task-artifacts.md: where a run has planned its actions, a rerun   *)
(* continues with posting them.  It does not once one of its own replies is  *)
(* on the host: the thread is not eligible any more.                         *)
OwnReplyResumes ==
  [][\A p \in Procs : Refuse(p) /\ StillAllowed(p) =>
       \E a \in Actions(Run(p), {"pending", "posted", "failed"}) :
         LET asked == Run(p).tasks[a[2]].input
         IN thread[a[2]].comments \notin {asked, Append(asked, Comment("cr", work[p].run))}]_respondVars

(* A comment of a person is not followed by a reply of ours that does not     *)
(* know it: the thread then counts as answered.                              *)
NoRemarkBuried ==
  [][\A t \in Threads : \A i \in DOMAIN runs :
       thread'[t].comments = Append(thread[t].comments, Comment("cr", i)) =>
         \A k \in Len(runs[i].tasks[t].input) + 1 .. Len(thread[t].comments) :
           thread[t].comments[k].by # "person"]_respondVars

=============================================================================
