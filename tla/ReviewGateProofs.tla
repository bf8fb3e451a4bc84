-------------------------- MODULE ReviewGateProofs --------------------------
(***************************************************************************)
(* Theorems about the gate, for every number of processes, scopes and runs *)
(* and every bound on moves, faults and extras.                            *)
(*                                                                         *)
(* The argument is the one the code rests on: a process has a run in hand  *)
(* only while it holds the lock of the run's scope, a row keeps its scope  *)
(* for good, and only the holder of that lock updates it.                  *)
(***************************************************************************)
EXTENDS ReviewGate, FiniteSetTheorems, TLAPS

Handling == {"insert", "chosen", "plan", "checkpoint", "reviewers", "premises", "post"}
Locking == Labels \ {"idle", "precheck", "lock"}

(* Row r was allocated, for a review that posts. *)
Allocated(r) == r \in RunIds /\ r < nextRun

ProcInv(p) ==
  /\ pc[p] \in Locking => lock[job[p].scope] = p
  /\ Hand(p) # NoRun <=> pc[p] \in Handling
  /\ Hand(p) # NoRun => /\ Allocated(Hand(p))
                        /\ runs[Hand(p)].scope = job[p].scope
                        /\ runs[Hand(p)].live
                        /\ runs[Hand(p)].state # "aborted"
  /\ \A r \in job[p].stale : Allocated(r)
  /\ \A r \in job[p].doomed : Allocated(r) /\ lock[runs[r].scope] = p

RowInv == \A r \in RunIds : Exists(r) => r < nextRun

PostInv ==
  \A i \in 1..Len(posts) : posts[i].kind \in ActKinds =>
    /\ Allocated(posts[i].run)
    /\ runs[posts[i].run].scope = posts[i].scope
    /\ runs[posts[i].run].live
    /\ posts[i].kind = "rollup" => posts[i].event \in Verdicts

IInv == TypeOK /\ RowInv /\ PostInv /\ \A p \in Procs : ProcInv(p)

-----------------------------------------------------------------------------
(* What a step of p, or of the environment when p is None, does to the     *)
(* ledger, the locks and the processes.                                    *)

AbortedKept ==
  \A r \in RunIds : runs[r].state = "aborted" =>
    runs'[r] = runs[r] \/ runs'[r].state = "absent"

(* Rows of scopes that p has not locked may be pruned, no more. *)
RowsStep(p) ==
  /\ runs' \in [RunIds -> RunType]
  /\ nextRun' \in 1..(MaxRuns + 1)
  /\ nextRun <= nextRun'
  /\ RowInv'
  /\ AbortedKept
  /\ \A r \in RunIds : r < nextRun =>
       /\ runs'[r].scope = runs[r].scope
       /\ runs'[r].live = runs[r].live
       /\ \/ lock[runs[r].scope] = p
          \/ runs'[r] = runs[r]
          \/ Prunes /\ runs'[r].state = "absent"

PostsStep == posts' \in Seq(RunPost \cup PersonPost) /\ PostInv'

LockStep(p) ==
  /\ lock' \in [Scopes -> Procs \cup {None}]
  /\ \A s \in Scopes : lock[s] \notin {p, None} => lock'[s] = lock[s]

Others(p) ==
  /\ pc' \in [Procs -> Labels]
  /\ job' \in [Procs -> JobType]
  /\ \A q \in Procs \ {p} : pc'[q] = pc[q] /\ job'[q] = job[q]

Rest == /\ pr' \in Scopes
        /\ moves' \in 0..MaxMoves /\ faults' \in 0..MaxFaults /\ extras' \in 0..MaxExtras

(* A process that updates a row goes on: its next step is another one. *)
GoesOn(p) == runs' = runs \/ pc'[p] # pc[p] \/ job'[p] # job[p]

Frame(p) == RowsStep(p) /\ PostsStep /\ LockStep(p) /\ Others(p) /\ Rest

Step(p) == Frame(p) /\ ProcInv(p)' /\ GoesOn(p)

(* What others have in hand, or are about to abort, a step of p leaves alone. *)
LEMMA FrameKeeps ==
  ASSUME IInv, NEW p, Frame(p), NEW q \in Procs, q # p
  PROVE  ProcInv(q)'
<1> USE GateAssumption
<1>1. pc'[q] = pc[q] /\ job'[q] = job[q] /\ ProcInv(q)
  BY DEF IInv, Frame, Others
<1>2. job[q] \in JobType /\ q # None
  BY DEF IInv, TypeOK
<1>3. ASSUME NEW r, Allocated(r)
      PROVE  /\ Allocated(r)'
             /\ runs'[r].scope = runs[r].scope
             /\ runs'[r].live = runs[r].live
             /\ runs[r].scope \in Scopes
  <2>1. r \in RunIds /\ r < nextRun /\ nextRun <= nextRun'
    BY <1>3 DEF Frame, RowsStep, Allocated
  <2>2. nextRun \in Nat /\ nextRun' \in Nat /\ r \in Nat
    BY <2>1 DEF Frame, RowsStep, IInv, TypeOK, RunIds
  <2>3. runs[r] \in RunType
    BY <2>1 DEF IInv, TypeOK
  <2>4. runs'[r].scope = runs[r].scope /\ runs'[r].live = runs[r].live
    BY <2>1 DEF Frame, RowsStep
  <2> QED
    BY <2>1, <2>2, <2>3, <2>4 DEF Allocated, RunType
<1>4. ASSUME NEW s \in Scopes, lock[s] = q PROVE lock'[s] = q
  BY <1>2, <1>4 DEF Frame, LockStep
<1>5. pc'[q] \in Locking => lock'[job'[q].scope] = q
  BY <1>1, <1>2, <1>4 DEF ProcInv, JobType
<1>6. \A r \in job'[q].doomed : Allocated(r)' /\ lock'[runs'[r].scope] = q
  BY <1>1, <1>3, <1>4 DEF ProcInv
<1>7. Hand(q)' = Hand(q)
  BY <1>1 DEF Hand
<1>8. ASSUME Hand(q) # NoRun
      PROVE  /\ Allocated(Hand(q))'
             /\ runs'[Hand(q)'].scope = job[q].scope
             /\ runs'[Hand(q)'].live
             /\ runs'[Hand(q)'].state # "aborted"
  <2>1. /\ Allocated(Hand(q)) /\ runs[Hand(q)].scope = job[q].scope
        /\ runs[Hand(q)].live /\ runs[Hand(q)].state # "aborted"
        /\ lock[job[q].scope] = q
    BY <1>1, <1>8 DEF ProcInv, Locking, Handling, Labels
  <2>2. runs'[Hand(q)] = runs[Hand(q)] \/ runs'[Hand(q)].state = "absent"
    BY <2>1 DEF Frame, RowsStep, Allocated
  <2>3. /\ runs'[Hand(q)].scope = runs[Hand(q)].scope
        /\ runs'[Hand(q)].live = runs[Hand(q)].live
    BY <1>3, <2>1
  <2>4. Allocated(Hand(q))'
    BY <1>3, <1>7, <2>1 DEF Allocated
  <2> QED
    BY <1>7, <2>1, <2>2, <2>3, <2>4
<1>9. \A r \in job'[q].stale : Allocated(r)'
  BY <1>1, <1>3 DEF ProcInv
<1> QED
  BY <1>1, <1>5, <1>6, <1>7, <1>8, <1>9 DEF ProcInv

LEMMA StepInv == ASSUME IInv, NEW p \in Procs, Step(p) PROVE IInv'
<1>1. \A q \in Procs : ProcInv(q)'
  BY FrameKeeps DEF Step
<1>2. TypeOK'
  BY DEF Step, Frame, RowsStep, PostsStep, LockStep, Others, Rest, TypeOK
<1> QED
  BY <1>1, <1>2 DEF Step, Frame, RowsStep, PostsStep, IInv

LEMMA FrameInv == ASSUME IInv, Frame(None) PROVE IInv'
<1>1. \A q \in Procs : ProcInv(q)'
  BY FrameKeeps, GateAssumption
<1>2. TypeOK'
  BY DEF Frame, RowsStep, PostsStep, LockStep, Others, Rest, TypeOK
<1> QED
  BY <1>1, <1>2 DEF Frame, RowsStep, PostsStep, IInv

-----------------------------------------------------------------------------
(* The parts steps are made of: rows. *)

LEMMA IdleJobType == IdleJob \in JobType
<1>1. (CHOOSE s \in Scopes : TRUE) \in Scopes
  BY GateAssumption
<1> QED
  BY <1>1 DEF IdleJob, JobType, NoRun

LEMMA RowsSame ==
  ASSUME IInv, NEW p, UNCHANGED <<runs, nextRun>>
  PROVE  RowsStep(p)
<1>1. RowInv' /\ AbortedKept
  BY DEF IInv, RowInv, Exists, AbortedKept
<1> QED
  BY <1>1 DEF RowsStep, IInv, TypeOK

(* The update of an allocated row under the lock of its scope. *)
LEMMA RowUpdated ==
  ASSUME IInv, NEW p, NEW r, Allocated(r), lock[runs[r].scope] = p,
         NEW row \in RunType, row.scope = runs[r].scope, row.live = runs[r].live,
         runs[r].state = "aborted" => row = runs[r] \/ row.state = "absent",
         runs' = [runs EXCEPT ![r] = row], UNCHANGED nextRun
  PROVE  RowsStep(p)
<1>1. r \in RunIds /\ r < nextRun /\ runs \in [RunIds -> RunType]
  BY DEF Allocated, IInv, TypeOK
<1>2. RowInv'
  BY <1>1 DEF IInv, RowInv, Exists
<1>3. AbortedKept
  BY <1>1 DEF AbortedKept
<1>4. nextRun' \in 1..(MaxRuns + 1) /\ nextRun <= nextRun'
  BY DEF IInv, TypeOK
<1> QED
  BY <1>1, <1>2, <1>3, <1>4 DEF RowsStep

LEMMA StateSet ==
  ASSUME IInv, NEW p, NEW r, Allocated(r), lock[runs[r].scope] = p,
         NEW st \in States, runs[r].state = "aborted" => st \in {"aborted", "absent"},
         SetState(r, st), UNCHANGED nextRun
  PROVE  RowsStep(p)
<1> DEFINE row == [runs[r] EXCEPT !.state = st]
<1>1. r \in RunIds /\ runs \in [RunIds -> RunType]
  BY DEF Allocated, IInv, TypeOK
<1>2. runs' = [runs EXCEPT ![r] = row]
  BY DEF SetState
<1>3. runs[r] \in RunType
  BY <1>1
<1>4. /\ row \in RunType /\ row.scope = runs[r].scope /\ row.live = runs[r].live
      /\ row.state = st
  BY <1>3 DEF RunType
<1>5. runs[r].state = "aborted" /\ st = "aborted" => row = runs[r]
  BY <1>3 DEF RunType
<1> HIDE DEF row
<1> QED
  BY <1>2, <1>4, <1>5, RowUpdated

LEMMA NextAttemptType == ASSUME NEW s PROVE NextAttempt(s) \in Nat
<1> DEFINE A == {a \in 1..(MaxRuns + MaxFaults) :
                   \E r \in InScope(s) : a <= runs[r].attempt}
<1>1. IsFiniteSet(1..(MaxRuns + MaxFaults))
  BY GateAssumption, FS_Interval
<1>2. A \in SUBSET (1..(MaxRuns + MaxFaults))
  OBVIOUS
<1>3. IsFiniteSet(A)
  BY <1>1, <1>2, FS_Subset
<1>4. Cardinality(A) \in Nat
  BY <1>3, FS_CardinalityType
<1> QED
  BY <1>4 DEF NextAttempt

LEMMA NoActsType == NoActs \in [ActKinds -> ActStates]
  BY DEF NoActs, ActStates

(* The row of a run that starts out. *)
Running(row, s) == row \in RunType /\ row.scope = s /\ row.live = TRUE /\ row.state = "running"

LEMMA RunningRow ==
  \A s \in Scopes, kind \in {"review", "rerun", "repair", "override"}, event \in Verdicts :
    Running(Row(s, TRUE, kind, "running", NoActs, event), s)
<1> SUFFICES ASSUME NEW s \in Scopes, NEW kind \in {"review", "rerun", "repair", "override"},
                    NEW event \in Verdicts
             PROVE  Running(Row(s, TRUE, kind, "running", NoActs, event), s)
  OBVIOUS
<1>1. "running" \in States /\ TRUE \in BOOLEAN /\ NextAttempt(s) \in Nat
  BY NextAttemptType DEF States
<1> QED
  BY <1>1, NoActsType DEF Row, RunType, Running

(* A row is allocated: the rows there are stay as they are. *)
LEMMA RowAllocated ==
  ASSUME IInv, NEW p, NEW row \in RunType, NewRun(row)
  PROVE  /\ RowsStep(p)
         /\ nextRun < nextRun'
         /\ nextRun \in RunIds /\ runs[nextRun].state = "absent"
         /\ nextRun' = nextRun + 1
         /\ runs'[nextRun] = row
<1>1. /\ nextRun \in RunIds /\ nextRun' = nextRun + 1
      /\ runs' = [runs EXCEPT ![nextRun] = row]
      /\ runs \in [RunIds -> RunType] /\ MaxRuns \in Nat
  BY GateAssumption DEF NewRun, IInv, TypeOK, RunIds
<1>2. runs' \in [RunIds -> RunType] /\ runs'[nextRun] = row
  BY <1>1
<1>3. nextRun' \in 1..(MaxRuns + 1) /\ nextRun <= nextRun'
  BY <1>1 DEF RunIds
<1>4. runs[nextRun].state = "absent"
  BY <1>1 DEF IInv, RowInv, Exists, RunIds
<1>5. RowInv'
  BY <1>1 DEF IInv, RowInv, Exists, RunIds
<1>6. AbortedKept
  BY <1>1, <1>4 DEF AbortedKept
<1>7. \A r \in RunIds : r < nextRun => runs'[r] = runs[r]
  BY <1>1 DEF RunIds
<1> QED
  BY <1>1, <1>2, <1>3, <1>4, <1>5, <1>6, <1>7 DEF RowsStep, Allocated, RunIds

(* What is known of the row a process has in hand. *)
LEMMA HandFacts ==
  ASSUME IInv, NEW p \in Procs, pc[p] \in Handling
  PROVE  /\ Allocated(job[p].hand) /\ job[p].hand \in RunIds
         /\ runs[job[p].hand] \in RunType
         /\ runs[job[p].hand].scope = job[p].scope
         /\ runs[job[p].hand].live /\ runs[job[p].hand].state # "aborted"
         /\ lock[job[p].scope] = p
         /\ job[p].hand # NoRun /\ job[p] \in JobType /\ job[p].scope \in Scopes
<1>1. job[p] \in JobType /\ ProcInv(p) /\ runs \in [RunIds -> RunType]
  BY DEF IInv, TypeOK
<1> QED
  BY <1>1 DEF ProcInv, Hand, Handling, Locking, Labels, Allocated, JobType

(* The process holds the lock of its scope. *)
LEMMA LockFacts ==
  ASSUME IInv, NEW p \in Procs, pc[p] \in Locking
  PROVE  /\ job[p] \in JobType /\ job[p].scope \in Scopes
         /\ lock[job[p].scope] = p
         /\ \A r \in InScope(job[p].scope) :
              /\ Allocated(r) /\ lock[runs[r].scope] = p
              /\ runs[r].scope = job[p].scope /\ runs[r] \in RunType
<1>1. job[p] \in JobType /\ ProcInv(p) /\ runs \in [RunIds -> RunType] /\ RowInv
  BY DEF IInv, TypeOK
<1> QED
  BY <1>1 DEF ProcInv, JobType, InScope, RowInv, Allocated

-----------------------------------------------------------------------------
(* Posts. *)

LEMMA PostsKept ==
  ASSUME IInv, NEW p, RowsStep(p), NEW i \in 1..Len(posts),
         posts[i].kind \in ActKinds
  PROVE  /\ posts[i].run \in RunIds /\ posts[i].run < nextRun'
         /\ runs'[posts[i].run].scope = posts[i].scope
         /\ runs'[posts[i].run].live
         /\ posts[i].kind = "rollup" => posts[i].event \in Verdicts
<1>1. /\ Allocated(posts[i].run)
      /\ runs[posts[i].run].scope = posts[i].scope /\ runs[posts[i].run].live
      /\ posts[i].kind = "rollup" => posts[i].event \in Verdicts
  BY DEF IInv, PostInv
<1>2. posts[i].run \in RunIds /\ posts[i].run < nextRun
  BY <1>1 DEF Allocated
<1>3. nextRun \in Nat /\ nextRun' \in Nat /\ nextRun <= nextRun' /\ posts[i].run \in Nat
  BY <1>2 DEF RowsStep, IInv, TypeOK, RunIds
<1>4. /\ runs'[posts[i].run].scope = runs[posts[i].run].scope
      /\ runs'[posts[i].run].live = runs[posts[i].run].live
  BY <1>2 DEF RowsStep
<1> QED
  BY <1>1, <1>2, <1>3, <1>4

LEMMA PostsSame ==
  ASSUME IInv, NEW p, RowsStep(p), UNCHANGED posts
  PROVE  PostsStep
<1>1. PostInv'
  BY PostsKept DEF PostInv, Allocated
<1> QED
  BY <1>1 DEF PostsStep, IInv, TypeOK

LEMMA RunPosted ==
  ASSUME IInv, NEW p, RowsStep(p), NEW kind \in ActKinds, NEW r \in RunIds,
         r < nextRun', NEW s \in Scopes, runs'[r].scope = s, runs'[r].live,
         NEW event \in Verdicts \cup {"none"},
         kind = "rollup" => event \in Verdicts, Post(kind, r, s, event)
  PROVE  PostsStep
<1> DEFINE new == [kind |-> kind, run |-> r, scope |-> s, event |-> event,
                   by |-> IF r = NoRun THEN "person" ELSE runs'[r].kind]
<1>1. posts' = Append(posts, new) /\ posts \in Seq(RunPost \cup PersonPost)
  BY DEF Post, IInv, TypeOK
<1>2. runs'[r] \in RunType /\ r # NoRun
  BY DEF RowsStep, RunIds, NoRun
<1>3. new \in RunPost
  BY <1>2 DEF RunPost, RunType
<1>4. /\ new.kind = kind /\ new.run = r /\ new.scope = s /\ new.event = event
  OBVIOUS
<1> HIDE DEF new
<1>5. posts' \in Seq(RunPost \cup PersonPost) /\ Len(posts') = Len(posts) + 1
      /\ Len(posts) \in Nat /\ posts'[Len(posts) + 1] = new
      /\ \A i \in 1..Len(posts) : posts'[i] = posts[i]
  BY <1>1, <1>3
<1>6. ASSUME NEW i \in 1..Len(posts'), posts'[i].kind \in ActKinds
      PROVE  /\ posts'[i].run \in RunIds /\ posts'[i].run < nextRun'
             /\ runs'[posts'[i].run].scope = posts'[i].scope
             /\ runs'[posts'[i].run].live
             /\ posts'[i].kind = "rollup" => posts'[i].event \in Verdicts
  <2>1. CASE i \in 1..Len(posts)
    BY <1>5, <1>6, <2>1, PostsKept
  <2>2. CASE i = Len(posts) + 1
    BY <1>4, <1>5, <2>2
  <2> QED
    BY <1>5, <2>1, <2>2
<1> QED
  BY <1>5, <1>6 DEF PostsStep, PostInv, Allocated

LEMMA PersonPosted ==
  ASSUME IInv, NEW p, RowsStep(p), NEW kind \in {"ask", "manual"},
         NEW s \in Scopes, NEW event \in {"comment", "none"},
         Post(kind, NoRun, s, event)
  PROVE  PostsStep
<1> DEFINE new == [kind |-> kind, run |-> NoRun, scope |-> s, event |-> event,
                   by |-> IF NoRun = NoRun THEN "person" ELSE runs'[NoRun].kind]
<1>1. posts' = Append(posts, new) /\ posts \in Seq(RunPost \cup PersonPost)
  BY DEF Post, IInv, TypeOK
<1>2. new \in PersonPost /\ new.kind \notin ActKinds
  BY DEF PersonPost, ActKinds
<1> HIDE DEF new
<1>3. posts' \in Seq(RunPost \cup PersonPost) /\ Len(posts') = Len(posts) + 1
      /\ Len(posts) \in Nat /\ posts'[Len(posts) + 1] = new
      /\ \A i \in 1..Len(posts) : posts'[i] = posts[i]
  BY <1>1, <1>2
<1>4. ASSUME NEW i \in 1..Len(posts'), posts'[i].kind \in ActKinds
      PROVE  i \in 1..Len(posts) /\ posts'[i] = posts[i]
  BY <1>2, <1>3, <1>4
<1> QED
  BY <1>3, <1>4, PostsKept DEF PostsStep, PostInv, Allocated

-----------------------------------------------------------------------------
(* The process itself: it leaves, or it goes on at l with j. *)

LEMMA Leaves ==
  ASSUME IInv, NEW p \in Procs, RowsStep(p), PostsStep, Rest, Exit(p),
         pc[p] # "idle"
  PROVE  Step(p)
<1>1. pc \in [Procs -> Labels] /\ job \in [Procs -> JobType]
      /\ lock \in [Scopes -> Procs \cup {None}]
  BY DEF IInv, TypeOK
<1>2. pc'[p] = "idle" /\ job'[p] = IdleJob /\ "idle" \in Labels
  BY <1>1 DEF Exit, Labels
<1>3. Others(p)
  BY <1>1, <1>2, IdleJobType DEF Exit, Others
<1>4. LockStep(p)
  BY <1>1 DEF Exit, LockStep
<1>5. ProcInv(p)'
  BY <1>2 DEF ProcInv, Hand, IdleJob, Locking, Handling, NoRun
<1> QED
  BY <1>2, <1>3, <1>4, <1>5 DEF Step, Frame, GoesOn

(* ProcInv for the next state, at label l with job j. *)
Arrives(p, l, j) ==
  /\ l \in Locking => lock'[j.scope] = p
  /\ j.hand # NoRun <=> l \in Handling
  /\ j.hand # NoRun => /\ j.hand \in RunIds /\ j.hand < nextRun'
                       /\ runs'[j.hand].scope = j.scope
                       /\ runs'[j.hand].live
                       /\ runs'[j.hand].state # "aborted"
  /\ \A r \in j.stale : r \in RunIds /\ r < nextRun'
  /\ \A r \in j.doomed : /\ r \in RunIds /\ r < nextRun'
                         /\ lock'[runs'[r].scope] = p

LEMMA Proceeds ==
  ASSUME IInv, NEW p \in Procs, RowsStep(p), PostsStep, LockStep(p), Rest,
         NEW l \in Labels, Goto(p, l),
         NEW j \in JobType, job' = [job EXCEPT ![p] = j],
         Arrives(p, l, j), pc[p] # l \/ job[p] # j \/ runs' = runs
  PROVE  Step(p)
<1>1. pc \in [Procs -> Labels] /\ job \in [Procs -> JobType]
  BY DEF IInv, TypeOK
<1>2. pc'[p] = l /\ job'[p] = j
  BY <1>1 DEF Goto
<1>3. Others(p)
  BY <1>1, <1>2 DEF Goto, Others
<1>4. ProcInv(p)'
  BY <1>2 DEF ProcInv, Hand, Arrives, Allocated
<1> QED
  BY <1>2, <1>3, <1>4 DEF Step, Frame, GoesOn

LEMMA LockSame == ASSUME IInv, NEW p, UNCHANGED lock PROVE LockStep(p)
  BY DEF IInv, TypeOK, LockStep

LEMMA JobSame ==
  ASSUME IInv, NEW p \in Procs, UNCHANGED job
  PROVE  job[p] \in JobType /\ job' = [job EXCEPT ![p] = job[p]]
  BY DEF IInv, TypeOK

LEMMA AllocatedKept ==
  ASSUME IInv, NEW p, RowsStep(p), NEW r, Allocated(r)
  PROVE  /\ r \in RunIds /\ r < nextRun'
         /\ runs'[r].scope = runs[r].scope /\ runs'[r].live = runs[r].live
<1>1. r \in RunIds /\ r < nextRun
  BY DEF Allocated
<1>2. nextRun \in Nat /\ nextRun' \in Nat /\ nextRun <= nextRun' /\ r \in Nat
  BY <1>1 DEF RowsStep, IInv, TypeOK, RunIds
<1> QED
  BY <1>1, <1>2 DEF RowsStep

(* What a job names besides the run in hand stays good while the locks do. *)
LEMMA JobKept ==
  ASSUME IInv, NEW p \in Procs, RowsStep(p), UNCHANGED lock
  PROVE  /\ \A r \in job[p].stale : r \in RunIds /\ r < nextRun'
         /\ \A r \in job[p].doomed : /\ r \in RunIds /\ r < nextRun'
                                     /\ lock'[runs'[r].scope] = p
<1>1. ASSUME NEW r, Allocated(r)
      PROVE  r \in RunIds /\ r < nextRun' /\ runs'[r].scope = runs[r].scope
  BY <1>1, AllocatedKept
<1>2. /\ \A r \in job[p].stale : Allocated(r)
      /\ \A r \in job[p].doomed : Allocated(r) /\ lock[runs[r].scope] = p
  BY DEF IInv, ProcInv
<1> QED
  BY <1>1, <1>2

(* The process goes on with the run it has in hand. *)
LEMMA KeepsHand ==
  ASSUME IInv, NEW p \in Procs, RowsStep(p), UNCHANGED lock,
         pc[p] \in Handling, NEW l \in Handling,
         NEW j, j.hand = job[p].hand, j.scope = job[p].scope,
         j.stale = job[p].stale, j.doomed = job[p].doomed,
         runs'[job[p].hand].state # "aborted"
  PROVE  Arrives(p, l, j) /\ l \in Labels
<1>1. Handling \subseteq Locking /\ Handling \subseteq Labels
  BY DEF Handling, Locking, Labels
<1>2. Allocated(job[p].hand) /\ runs[job[p].hand].live
      /\ runs[job[p].hand].scope = job[p].scope
  BY HandFacts
<1>3. /\ job[p].hand \in RunIds /\ job[p].hand < nextRun'
      /\ runs'[job[p].hand].scope = job[p].scope /\ runs'[job[p].hand].live
  BY <1>2, AllocatedKept
<1>4. lock'[j.scope] = p /\ j.hand # NoRun
  BY HandFacts
<1>5. /\ \A r \in j.stale : r \in RunIds /\ r < nextRun'
      /\ \A r \in j.doomed : /\ r \in RunIds /\ r < nextRun'
                             /\ lock'[runs'[r].scope] = p
  BY JobKept
<1> QED
  BY <1>1, <1>3, <1>4, <1>5 DEF Arrives

(* The process goes on without a run. *)
LEMMA StillChoosing ==
  ASSUME IInv, NEW p \in Procs, RowsStep(p), UNCHANGED lock,
         pc[p] \in Locking \ Handling, NEW l \in Locking \ Handling,
         NEW j, j.hand = NoRun, j.scope = job[p].scope,
         j.stale = job[p].stale, j.doomed \subseteq job[p].doomed
  PROVE  Arrives(p, l, j) /\ l \in Labels
<1>1. l \in Labels /\ lock'[j.scope] = p
  BY LockFacts DEF Locking
<1>2. /\ \A r \in j.stale : r \in RunIds /\ r < nextRun'
      /\ \A r \in j.doomed : /\ r \in RunIds /\ r < nextRun'
                             /\ lock'[runs'[r].scope] = p
  BY JobKept
<1> QED
  BY <1>1, <1>2 DEF Arrives

(* Outside Handling a process has no run in hand. *)
LEMMA NoHand ==
  ASSUME IInv, NEW p \in Procs, pc[p] \notin Handling
  PROVE  job[p].hand = NoRun
  BY DEF IInv, ProcInv, Hand

LEMMA BudgetSame == ASSUME IInv, UNCHANGED <<pr, budget>> PROVE Rest
  BY DEF IInv, TypeOK, Rest, budget

LEMMA BudgetFault == ASSUME IInv, Fault, UNCHANGED pr PROVE Rest
  BY GateAssumption DEF IInv, TypeOK, Rest, Fault

LEMMA BudgetExtra == ASSUME IInv, Extra, UNCHANGED pr PROVE Rest
  BY GateAssumption DEF IInv, TypeOK, Rest, Extra

LEMMA IdleHolds ==
  ASSUME IInv, NEW p \in Procs
  PROVE  /\ job[p] \in JobType /\ pc[p] \in Labels
         /\ pr \in Scopes /\ Len(posts) \in Nat
  BY DEF IInv, TypeOK

-----------------------------------------------------------------------------
(* The steps of a process up to the choice of a run. *)

LEMMA StartStep ==
  ASSUME IInv, NEW p \in Procs, NEW c \in Commands, Start(p, c)
  PROVE  Step(p)
<1> DEFINE j == [IdleJob EXCEPT !.cmd = c, !.scope = pr]
           l == IF c = "review" THEN "precheck" ELSE "lock"
<1>1. RowsStep(p) /\ PostsStep /\ LockStep(p) /\ Rest
  BY RowsSame, PostsSame, LockSame, BudgetSame DEF Start
<1>2. j \in JobType /\ j.hand = NoRun /\ j.stale = {} /\ j.doomed = {}
  BY IdleJobType, IdleHolds DEF JobType, IdleJob
<1>3. l \in Labels /\ l \notin Locking /\ l \notin Handling
  BY DEF Labels, Locking, Handling
<1>4. Goto(p, l) /\ job' = [job EXCEPT ![p] = j] /\ runs' = runs
  BY DEF Start
<1> HIDE DEF j, l
<1>5. Arrives(p, l, j)
  BY <1>2, <1>3 DEF Arrives
<1> QED
  BY <1>1, <1>2, <1>3, <1>4, <1>5, Proceeds

LEMMA PrecheckStep == ASSUME IInv, NEW p \in Procs, Precheck(p) PROVE Step(p)
<1> DEFINE j == [job[p] EXCEPT !.rev = Len(posts)]
<1>1. RowsStep(p) /\ PostsStep /\ Rest /\ pc[p] = "precheck"
  BY RowsSame, PostsSame, BudgetSame DEF Precheck, At
<1>2. CASE Exit(p)
  BY <1>1, <1>2, Leaves
<1>3. CASE /\ job' = [job EXCEPT ![p].rev = Len(posts)]
           /\ Goto(p, "lock") /\ UNCHANGED lock
  <2>1. j \in JobType /\ j.hand = job[p].hand /\ j.stale = job[p].stale
        /\ j.doomed = job[p].doomed
    BY IdleHolds DEF JobType
  <2>2. "lock" \in Labels \ (Locking \cup Handling) /\ job[p].hand = NoRun
    BY <1>1, NoHand DEF Labels, Locking, Handling
  <2>3. job' = [job EXCEPT ![p] = j] /\ runs' = runs
    BY <1>3 DEF Precheck
  <2> HIDE DEF j
  <2>4. Arrives(p, "lock", j)
    BY <1>1, <1>3, <2>1, <2>2, JobKept DEF Arrives
  <2> QED
    BY <1>1, <1>3, <2>1, <2>2, <2>3, <2>4, LockSame, Proceeds
<1> QED
  BY <1>2, <1>3 DEF Precheck

LEMMA AcquireStep == ASSUME IInv, NEW p \in Procs, Acquire(p) PROVE Step(p)
<1> DEFINE l == IF job[p].cmd = "review" THEN "host" ELSE "local"
           s == job[p].scope
<1>1. RowsStep(p) /\ PostsStep /\ Rest /\ pc[p] = "lock"
  BY RowsSame, PostsSame, BudgetSame DEF Acquire, At
<1>2. CASE Exit(p)
  BY <1>1, <1>2, Leaves
<1>3. CASE /\ lock[s] = None
           /\ lock' = [lock EXCEPT ![s] = p] /\ Goto(p, l) /\ UNCHANGED job
  <2>1. s \in Scopes /\ lock \in [Scopes -> Procs \cup {None}]
    BY IdleHolds DEF JobType, IInv, TypeOK
  <2>2. lock'[s] = p /\ \A t \in Scopes : lock[t] = p => lock'[t] = p
    BY <1>3, <2>1
  <2>3. LockStep(p)
    BY <1>3, <2>1 DEF LockStep
  <2>4. l \in Labels \ Handling /\ job[p].hand = NoRun
    BY <1>1, NoHand DEF Labels, Handling
  <2>5. ASSUME NEW r \in job[p].doomed
        PROVE  r \in RunIds /\ r < nextRun' /\ lock'[runs'[r].scope] = p
    <3>1. Allocated(r) /\ lock[runs[r].scope] = p
      BY DEF IInv, ProcInv
    <3>2. runs[r].scope \in Scopes
      BY <3>1 DEF Allocated, IInv, TypeOK, RunType
    <3> QED
      BY <1>1, <2>2, <3>1, <3>2, AllocatedKept
  <2>6. \A r \in job[p].stale : r \in RunIds /\ r < nextRun'
    BY <1>1, AllocatedKept DEF IInv, ProcInv
  <2>7. job' = [job EXCEPT ![p] = job[p]] /\ job[p] \in JobType /\ runs' = runs
    BY <1>3, JobSame DEF Acquire
  <2> HIDE DEF l
  <2>8. Arrives(p, l, job[p])
    BY <2>2, <2>4, <2>5, <2>6 DEF Arrives
  <2> QED
    BY <1>1, <1>3, <2>3, <2>4, <2>7, <2>8, Proceeds
<1> QED
  BY <1>2, <1>3 DEF Acquire

(* A step that reads, or notes what it will abort, and goes on choosing. *)
LEMMA Chooses ==
  ASSUME IInv, NEW p \in Procs, UNCHANGED <<runs, nextRun, lock, pr, posts, budget>>,
         pc[p] \in Locking \ Handling, NEW l \in Locking \ Handling, Goto(p, l),
         NEW j \in JobType, job' = [job EXCEPT ![p] = j],
         j.hand = NoRun, j.scope = job[p].scope,
         \A r \in j.stale : Allocated(r),
         \A r \in j.doomed : Allocated(r) /\ lock[runs[r].scope] = p
  PROVE  Step(p)
<1>1. RowsStep(p) /\ PostsStep /\ LockStep(p) /\ Rest /\ runs' = runs
  BY RowsSame, PostsSame, LockSame, BudgetSame
<1>2. lock'[j.scope] = p /\ l \in Labels
  BY LockFacts DEF Locking
<1>3. Arrives(p, l, j)
  BY <1>2 DEF Arrives, Allocated
<1> QED
  BY <1>1, <1>2, <1>3, Proceeds

LEMMA ReadHostStep == ASSUME IInv, NEW p \in Procs, ReadHost(p) PROVE Step(p)
<1> DEFINE j == [job[p] EXCEPT !.com = Len(posts),
                               !.rev = IF job[p].loops > 0 THEN Len(posts) ELSE @]
<1>1. pc[p] = "host"
  BY DEF ReadHost, At
<1>2. CASE Exit(p)
  BY <1>1, <1>2, RowsSame, PostsSame, BudgetSame, Leaves DEF ReadHost
<1>3. CASE job' = [job EXCEPT ![p] = j] /\ Goto(p, "override") /\ UNCHANGED lock
  <2>1. j \in JobType /\ j.hand = job[p].hand /\ j.stale = job[p].stale
        /\ j.doomed = job[p].doomed /\ j.scope = job[p].scope
    BY IdleHolds DEF JobType
  <2>2. /\ pc[p] \in Locking \ Handling /\ "override" \in Locking \ Handling
        /\ job[p].hand = NoRun
    BY <1>1, NoHand DEF Labels, Locking, Handling
  <2> HIDE DEF j
  <2>3. UNCHANGED <<runs, nextRun, lock, pr, posts, budget>>
    BY <1>3 DEF ReadHost
  <2>4. /\ \A r \in j.stale : Allocated(r)
        /\ \A r \in j.doomed : Allocated(r) /\ lock[runs[r].scope] = p
    BY <2>1 DEF IInv, ProcInv
  <2> QED
    BY <1>3, <2>1, <2>2, <2>3, <2>4, Chooses
<1> QED
  BY <1>2, <1>3 DEF ReadHost

LEMMA NoOverrideStep == ASSUME IInv, NEW p \in Procs, NoOverride(p) PROVE Step(p)
<1>1. /\ pc[p] \in Locking \ Handling /\ "local" \in Locking \ Handling
      /\ Goto(p, "local") /\ job[p].hand = NoRun
      /\ UNCHANGED <<runs, nextRun, lock, pr, posts, budget>>
  BY NoHand DEF NoOverride, At, Labels, Locking, Handling
<1>2. job[p] \in JobType /\ job' = [job EXCEPT ![p] = job[p]]
  BY JobSame DEF NoOverride
<1>3. /\ \A r \in job[p].stale : Allocated(r)
      /\ \A r \in job[p].doomed : Allocated(r) /\ lock[runs[r].scope] = p
  BY DEF IInv, ProcInv
<1> QED
  BY <1>1, <1>2, <1>3, Chooses

LEMMA LocalReviewStep == ASSUME IInv, NEW p \in Procs, LocalReview(p) PROVE Step(p)
<1> DEFINE stale == StaleRows(job[p].scope)
           j == [job[p] EXCEPT !.stale = stale,
                               !.open = {r \in stale : Resumable(r)}]
<1>1. pc[p] = "local"
  BY DEF LocalReview, At
<1>2. CASE Exit(p)
  BY <1>1, <1>2, RowsSame, PostsSame, BudgetSame, Leaves DEF LocalReview
<1>3. CASE job' = [job EXCEPT ![p] = j] /\ Goto(p, "probe") /\ UNCHANGED lock
  <2>1. stale \subseteq RunIds /\ \A r \in stale : Allocated(r)
    BY DEF StaleRows, Allocated, IInv, RowInv
  <2>2. j \in JobType /\ j.hand = job[p].hand /\ j.stale = stale
        /\ j.doomed = job[p].doomed /\ j.scope = job[p].scope
    BY <2>1, IdleHolds DEF JobType
  <2>3. /\ pc[p] \in Locking \ Handling /\ "probe" \in Locking \ Handling
        /\ job[p].hand = NoRun
    BY <1>1, NoHand DEF Labels, Locking, Handling
  <2> HIDE DEF j, stale
  <2>4. UNCHANGED <<runs, nextRun, lock, pr, posts, budget>>
    BY <1>3 DEF LocalReview
  <2>5. \A r \in j.doomed : Allocated(r) /\ lock[runs[r].scope] = p
    BY <2>2 DEF IInv, ProcInv
  <2> QED
    BY <1>3, <2>1, <2>2, <2>3, <2>4, <2>5, Chooses
<1> QED
  BY <1>2, <1>3 DEF LocalReview

LEMMA LocalRerunStep == ASSUME IInv, NEW p \in Procs, LocalRerun(p) PROVE Step(p)
<1> DEFINE doomed == {r \in InScope(job[p].scope) : Resumable(r)}
           j == [job[p] EXCEPT !.doomed = doomed]
<1>1. pc[p] = "local"
  BY DEF LocalRerun, At
<1>2. CASE Exit(p)
  BY <1>1, <1>2, RowsSame, PostsSame, BudgetSame, Leaves DEF LocalRerun
<1>3. CASE job' = [job EXCEPT ![p] = j] /\ Goto(p, "supersede") /\ UNCHANGED lock
  <2>1. /\ pc[p] \in Locking \ Handling /\ "supersede" \in Locking \ Handling
        /\ job[p].hand = NoRun
    BY <1>1, NoHand DEF Labels, Locking, Handling
  <2>2. doomed \subseteq RunIds
        /\ \A r \in doomed : Allocated(r) /\ lock[runs[r].scope] = p
    BY <2>1, LockFacts DEF InScope
  <2>3. j \in JobType /\ j.hand = job[p].hand /\ j.stale = job[p].stale
        /\ j.doomed = doomed /\ j.scope = job[p].scope
    BY <2>2, IdleHolds DEF JobType
  <2> HIDE DEF j, doomed
  <2>4. UNCHANGED <<runs, nextRun, lock, pr, posts, budget>>
    BY <1>3 DEF LocalRerun
  <2>5. \A r \in j.stale : Allocated(r)
    BY <2>3 DEF IInv, ProcInv
  <2> QED
    BY <1>3, <2>1, <2>2, <2>3, <2>4, <2>5, Chooses
<1> QED
  BY <1>2, <1>3 DEF LocalRerun

LEMMA NothingToRetryStep ==
  ASSUME IInv, NEW p \in Procs, NothingToRetry(p) PROVE Step(p)
  BY RowsSame, PostsSame, BudgetSame, Leaves DEF NothingToRetry, At

(* The stale rows' locks: one that is free is taken, none is given away. *)
LEMMA ProbeStep == ASSUME IInv, NEW p \in Procs, Probe(p) PROVE Step(p)
<1> DEFINE free == {r \in job[p].stale : lock[runs[r].scope] = None}
           doomed == {r \in free \cap job[p].open : FirstOfItsScope(r, job[p].stale)}
           j == [job[p] EXCEPT !.doomed = doomed]
<1>1. /\ pc[p] = "probe" /\ Goto(p, "decide") /\ job' = [job EXCEPT ![p] = j]
      /\ lock' = [s \in Scopes |-> IF \E r \in free : runs[r].scope = s
                                   THEN p ELSE lock[s]]
      /\ UNCHANGED <<runs, nextRun, pr, posts, budget>>
  BY DEF Probe, At
<1>2. RowsStep(p) /\ PostsStep /\ Rest
  BY <1>1, RowsSame, PostsSame, BudgetSame
<1>3. /\ pc[p] \in Locking \ Handling /\ "decide" \in Labels \ Handling
      /\ job[p].hand = NoRun
  BY <1>1, NoHand DEF Labels, Locking, Handling
<1>4. /\ lock \in [Scopes -> Procs \cup {None}] /\ None \notin Procs
      /\ runs \in [RunIds -> RunType]
  BY GateAssumption DEF IInv, TypeOK
<1>5. \A r \in job[p].stale : Allocated(r)
  BY DEF IInv, ProcInv
<1>6. \A r \in free : lock[runs[r].scope] = None /\ runs[r].scope \in Scopes
  BY <1>4, <1>5 DEF Allocated, RunType
<1>7. free \subseteq job[p].stale /\ doomed \subseteq free /\ free \subseteq RunIds
  BY <1>5 DEF Allocated
<1>8. j \in JobType /\ j.hand = job[p].hand /\ j.stale = job[p].stale
      /\ j.doomed = doomed /\ j.scope = job[p].scope
  BY <1>7, IdleHolds DEF JobType
<1> HIDE DEF free, doomed, j
<1>9. LockStep(p)
  BY <1>1, <1>4, <1>6 DEF LockStep
<1>10. lock'[j.scope] = p
  BY <1>1, <1>3, <1>8, LockFacts
<1>11. \A r \in j.doomed : r \in RunIds /\ r < nextRun' /\ lock'[runs'[r].scope] = p
  BY <1>1, <1>5, <1>6, <1>7, <1>8 DEF Allocated
<1>12. Arrives(p, "decide", j)
  BY <1>1, <1>3, <1>5, <1>8, <1>10, <1>11 DEF Arrives, Allocated
<1> QED
  BY <1>1, <1>2, <1>3, <1>8, <1>9, <1>12, Proceeds

LEMMA DecideAbortStep == ASSUME IInv, NEW p \in Procs, DecideAbort(p) PROVE Step(p)
<1>1. /\ pc[p] \in Locking \ Handling /\ "reap" \in Locking \ Handling
      /\ Goto(p, "reap") /\ job[p].hand = NoRun
      /\ UNCHANGED <<runs, nextRun, lock, pr, posts, budget>>
  BY NoHand DEF DecideAbort, At, Labels, Locking, Handling
<1>2. job[p] \in JobType /\ job' = [job EXCEPT ![p] = job[p]]
  BY JobSame DEF DecideAbort
<1>3. /\ \A r \in job[p].stale : Allocated(r)
      /\ \A r \in job[p].doomed : Allocated(r) /\ lock[runs[r].scope] = p
  BY DEF IInv, ProcInv
<1> QED
  BY <1>1, <1>2, <1>3, Chooses

(* A run is aborted under the lock of its own scope. *)
LEMMA DoomStep ==
  ASSUME IInv, NEW p \in Procs, pc[p] \in {"reap", "supersede"},
         NEW r \in RunIds, Doom(p, r)
  PROVE  Step(p)
<1> DEFINE j == [job[p] EXCEPT !.doomed = @ \ {r}]
<1>1. /\ r \in job[p].doomed /\ Allocated(r) /\ lock[runs[r].scope] = p
      /\ UNCHANGED <<nextRun, pr, posts, budget>> /\ Rest
  BY BudgetSame DEF Doom, IInv, ProcInv
<1>2. CASE Exit(p) /\ UNCHANGED runs
  BY <1>1, <1>2, RowsSame, PostsSame, Leaves
<1>3. CASE SetState(r, "aborted") /\ job' = [job EXCEPT ![p] = j] /\ UNCHANGED <<pc, lock>>
  <2>1. RowsStep(p)
    BY <1>1, <1>3, StateSet DEF States
  <2>2. PostsStep /\ LockStep(p)
    BY <1>1, <1>3, <2>1, PostsSame, LockSame
  <2>3. pc[p] \in Locking \ Handling /\ job[p].hand = NoRun
    BY NoHand DEF Labels, Locking, Handling
  <2>4. j \in JobType /\ j.hand = NoRun /\ j.stale = job[p].stale
        /\ j.doomed = job[p].doomed \ {r} /\ j.scope = job[p].scope
    BY <2>3, IdleHolds DEF JobType
  <2> HIDE DEF j
  <2>5. j # job[p]
    BY <1>1, <2>4
  <2>6. Goto(p, pc[p]) /\ pc[p] \in Labels
    BY <1>3 DEF Goto, IInv, TypeOK
  <2>7. Arrives(p, pc[p], j)
    BY <1>3, <2>1, <2>3, <2>4, StillChoosing
  <2> QED
    BY <1>1, <1>3, <2>1, <2>2, <2>4, <2>5, <2>6, <2>7, Proceeds
<1> QED
  BY <1>2, <1>3 DEF Doom

LEMMA StaleReleased ==
  ASSUME IInv, NEW p \in Procs, pc[p] \in Locking, ReleaseStale(p)
  PROVE  LockStep(p) /\ lock'[job[p].scope] = p
<1>1. lock \in [Scopes -> Procs \cup {None}]
  BY DEF IInv, TypeOK
<1> QED
  BY <1>1, LockFacts DEF ReleaseStale, LockStep

LEMMA StaleAbortedStep == ASSUME IInv, NEW p \in Procs, StaleAborted(p) PROVE Step(p)
<1> DEFINE j == [job[p] EXCEPT !.loops = @ + 1, !.stale = {}, !.open = {}]
<1>1. /\ pc[p] = "reap" /\ job[p].doomed = {} /\ ReleaseStale(p)
      /\ Goto(p, "host") /\ job' = [job EXCEPT ![p] = j]
      /\ UNCHANGED <<runs, nextRun, pr, posts, budget>>
  BY DEF StaleAborted, At
<1>2. RowsStep(p) /\ PostsStep /\ Rest
  BY <1>1, RowsSame, PostsSame, BudgetSame
<1>3. /\ pc[p] \in Locking \ Handling /\ "host" \in Labels \ Handling
      /\ job[p].hand = NoRun
  BY <1>1, NoHand DEF Labels, Locking, Handling
<1>4. j \in JobType /\ j.hand = NoRun /\ j.stale = {} /\ j.doomed = {}
      /\ j.scope = job[p].scope
  <2> DEFINE n == job[p].loops + 1
  <2>1. job[p].loops \in Nat
    BY IdleHolds DEF JobType
  <2>2. n \in Nat
    BY <2>1
  <2> HIDE DEF n
  <2>3. [job[p] EXCEPT !.loops = n, !.stale = {}, !.open = {}] \in JobType
    BY <2>2, IdleHolds DEF JobType
  <2> QED
    BY <1>1, <1>3, <2>3, IdleHolds DEF n, JobType
<1> HIDE DEF j
<1>5. LockStep(p) /\ lock'[j.scope] = p
  BY <1>1, <1>3, <1>4, StaleReleased
<1>6. Arrives(p, "host", j)
  BY <1>3, <1>4, <1>5 DEF Arrives
<1> QED
  BY <1>1, <1>2, <1>3, <1>4, <1>5, <1>6, Proceeds

LEMMA DecideExitStep == ASSUME IInv, NEW p \in Procs, DecideExit(p) PROVE Step(p)
  BY RowsSame, PostsSame, BudgetSame, Leaves DEF DecideExit, At

-----------------------------------------------------------------------------
(* A run is taken in hand. *)

LEMMA LocalResumeStep ==
  ASSUME IInv, NEW p \in Procs, NEW r \in RunIds, LocalResume(p, r) PROVE Step(p)
<1> DEFINE j == [job[p] EXCEPT !.hand = r]
<1>1. /\ pc[p] = "local" /\ r \in InScope(job[p].scope)
      /\ runs[r].live /\ runs[r].state \in {"running", "incomplete"}
      /\ UNCHANGED <<nextRun, pr, posts, budget>> /\ Rest
  BY BudgetSame DEF LocalResume, At, Latest, Resumable
<1>2. /\ pc[p] \in Locking \ Handling /\ "chosen" \in Labels \cap Handling
  BY <1>1 DEF Labels, Locking, Handling
<1>3. /\ Allocated(r) /\ lock[runs[r].scope] = p /\ lock[job[p].scope] = p
      /\ runs[r].scope = job[p].scope
  BY <1>1, <1>2, LockFacts
<1>4. CASE SetState(r, "aborted") /\ Exit(p)
  <2>1. RowsStep(p)
    BY <1>1, <1>3, <1>4, StateSet DEF States
  <2> QED
    BY <1>1, <1>4, <2>1, PostsSame, Leaves
<1>5. CASE /\ job' = [job EXCEPT ![p].hand = r] /\ Goto(p, "chosen")
           /\ UNCHANGED <<runs, lock>>
  <2>1. RowsStep(p) /\ PostsStep /\ LockStep(p)
    BY <1>1, <1>5, RowsSame, PostsSame, LockSame
  <2>2. j \in JobType /\ j.hand = r /\ j.stale = job[p].stale
        /\ j.doomed = job[p].doomed /\ j.scope = job[p].scope
    BY IdleHolds DEF JobType
  <2>3. job' = [job EXCEPT ![p] = j] /\ r # NoRun /\ r < nextRun'
    BY <1>1, <1>3, <1>5 DEF RunIds, NoRun, Allocated
  <2> HIDE DEF j
  <2>4. Arrives(p, "chosen", j)
    BY <1>1, <1>2, <1>3, <1>5, <2>1, <2>2, <2>3, JobKept DEF Arrives
  <2> QED
    BY <1>1, <1>2, <1>5, <2>1, <2>2, <2>3, <2>4, Proceeds
<1> QED
  BY <1>4, <1>5 DEF LocalResume

LEMMA LocalRetryStep ==
  ASSUME IInv, NEW p \in Procs, NEW r \in RunIds, LocalRetry(p, r) PROVE Step(p)
<1> DEFINE todo == Acts(r, "pending") \cup Acts(r, "failed")
           j == [job[p] EXCEPT !.hand = r, !.todo = todo]
           acts == [k \in ActKinds |-> IF runs[r].acts[k] = "failed" THEN "pending"
                                       ELSE runs[r].acts[k]]
<1>1. /\ pc[p] = "local" /\ r \in InScope(job[p].scope)
      /\ runs[r].live /\ runs[r].state # "aborted"
      /\ UNCHANGED <<nextRun, pr, posts, budget>> /\ Rest
  BY BudgetSame DEF LocalRetry, At, Latest, RetryEligible
<1>2. /\ pc[p] \in Locking \ Handling /\ "post" \in Labels \cap Handling
  BY <1>1 DEF Labels, Locking, Handling
<1>3. /\ Allocated(r) /\ lock[runs[r].scope] = p /\ lock[job[p].scope] = p
      /\ runs[r].scope = job[p].scope /\ runs[r] \in RunType
  BY <1>1, <1>2, LockFacts
<1>4. CASE SetState(r, "aborted") /\ Exit(p)
  <2>1. RowsStep(p)
    BY <1>1, <1>3, <1>4, StateSet DEF States
  <2> QED
    BY <1>1, <1>4, <2>1, PostsSame, Leaves
<1>5. CASE Exit(p) /\ UNCHANGED runs
  BY <1>1, <1>5, RowsSame, PostsSame, Leaves
<1>6. CASE /\ runs' = [runs EXCEPT ![r].retried = TRUE,
                                   ![r].acts = [k \in ActKinds |->
                                      IF @[k] = "failed" THEN "pending" ELSE @[k]]]
           /\ job' = [job EXCEPT ![p].hand = r, ![p].todo = todo]
           /\ Goto(p, "post") /\ UNCHANGED lock
  <2>1. acts \in [ActKinds -> ActStates]
    BY <1>3 DEF RunType, ActStates
  <2> DEFINE row == [runs[r] EXCEPT !.retried = TRUE, !.acts = acts]
  <2>2. runs' = [runs EXCEPT ![r] = row]
    BY <1>6
  <2> HIDE DEF acts
  <2>3. /\ row \in RunType /\ row.scope = runs[r].scope
        /\ row.live = runs[r].live /\ row.state = runs[r].state
    BY <1>3, <2>1 DEF RunType
  <2> HIDE DEF row
  <2>4. RowsStep(p)
    BY <1>1, <1>3, <2>2, <2>3, RowUpdated
  <2>5. /\ runs'[r].scope = job[p].scope /\ runs'[r].live
        /\ runs'[r].state # "aborted" /\ r < nextRun'
    BY <1>1, <1>3, <2>2, <2>3 DEF IInv, TypeOK, Allocated
  <2>6. PostsStep /\ LockStep(p)
    BY <1>1, <1>6, <2>4, PostsSame, LockSame
  <2>7. j \in JobType /\ j.hand = r /\ j.stale = job[p].stale
        /\ j.doomed = job[p].doomed /\ j.scope = job[p].scope
    BY IdleHolds DEF JobType, Acts
  <2>8. job' = [job EXCEPT ![p] = j] /\ r # NoRun
    <3> HIDE DEF todo
    <3>1. job \in [Procs -> JobType]
      BY DEF IInv, TypeOK
    <3>2. job' = [job EXCEPT ![p] = j]
      BY <1>6, <3>1
    <3> QED
      BY <3>2 DEF RunIds, NoRun
  <2> HIDE DEF j
  <2>9. /\ \A q \in j.stale : q \in RunIds /\ q < nextRun'
        /\ \A q \in j.doomed : /\ q \in RunIds /\ q < nextRun'
                               /\ lock'[runs'[q].scope] = p
    BY <1>6, <2>4, <2>7, JobKept
  <2>10. Arrives(p, "post", j)
    BY ONLY <1>2, <1>3, <1>6, <2>5, <2>7, <2>8, <2>9, r \in RunIds DEF Arrives
  <2> QED
    BY <1>1, <1>2, <1>6, <2>4, <2>6, <2>7, <2>8, <2>10, Proceeds
<1> QED
  BY <1>4, <1>5, <1>6 DEF LocalRetry

(* A new run is in hand, allocated for the scope whose lock is held. *)
LEMMA Takes ==
  ASSUME IInv, NEW p \in Procs, RowsStep(p), PostsStep, LockStep(p), Rest,
         pc[p] \in Locking \ Handling, NEW l \in Handling, Goto(p, l),
         NEW j \in JobType, job' = [job EXCEPT ![p] = j],
         j.scope = job[p].scope, j.hand \in RunIds, j.hand < nextRun',
         runs'[j.hand].scope = job[p].scope, runs'[j.hand].live,
         runs'[j.hand].state # "aborted", lock'[job[p].scope] = p,
         j.stale \subseteq job[p].stale,
         \A r \in j.doomed : /\ r \in RunIds /\ r < nextRun'
                             /\ lock'[runs'[r].scope] = p
  PROVE  Step(p)
<1>1. \A r \in j.stale : r \in RunIds /\ r < nextRun'
  BY AllocatedKept DEF IInv, ProcInv
<1>2. l \in Labels /\ l # pc[p] /\ j.hand # NoRun
  BY DEF Handling, Labels, RunIds, NoRun
<1>3. Arrives(p, l, j)
  BY <1>1, <1>2 DEF Arrives
<1> QED
  BY <1>2, <1>3, Proceeds

LEMMA AllocateFreshStep ==
  ASSUME IInv, NEW p \in Procs, pc[p] \in Locking \ Handling, job[p].doomed = {},
         NEW kind \in {"review", "rerun"},
         AllocateFresh(p, kind), UNCHANGED <<pr, posts, budget>>
  PROVE  Step(p)
<1> DEFINE row == Row(job[p].scope, TRUE, kind, "running", NoActs, "comment")
           j == [job[p] EXCEPT !.hand = nextRun, !.stale = {}, !.open = {}]
<1>1. row \in RunType /\ row.scope = job[p].scope /\ row.live = TRUE
      /\ row.state = "running"
  <2> DEFINE s == job[p].scope
  <2>1. s \in Scopes /\ "comment" \in Verdicts
        /\ kind \in {"review", "rerun", "repair", "override"}
    BY LockFacts DEF Verdicts
  <2> HIDE DEF s
  <2>2. Running(Row(s, TRUE, kind, "running", NoActs, "comment"), s)
    BY <2>1, RunningRow
  <2> QED
    BY <2>2 DEF s, Running
<1> HIDE DEF row
<1>2. NewRun(row) /\ ReleaseStale(p) /\ Goto(p, "chosen")
      /\ job' = [job EXCEPT ![p].hand = nextRun, ![p].stale = {}, ![p].open = {}]
  BY DEF AllocateFresh, row
<1>3. /\ RowsStep(p) /\ nextRun < nextRun' /\ nextRun \in RunIds
      /\ runs'[nextRun] = row
  BY <1>1, <1>2, RowAllocated
<1>4. PostsStep /\ LockStep(p) /\ lock'[job[p].scope] = p /\ Rest
  BY <1>2, <1>3, PostsSame, StaleReleased, BudgetSame
<1>5. j \in JobType /\ j.hand = nextRun /\ j.stale = {} /\ j.doomed = {}
      /\ j.scope = job[p].scope
  BY <1>3, IdleHolds DEF JobType
<1>6. job' = [job EXCEPT ![p] = j]
  BY <1>2 DEF IInv, TypeOK
<1> HIDE DEF j
<1> QED
  BY <1>1, <1>2, <1>3, <1>4, <1>5, <1>6, Takes DEF Handling

LEMMA DecideFreshStep == ASSUME IInv, NEW p \in Procs, DecideFresh(p) PROVE Step(p)
<1>1. pc[p] = "decide" /\ job[p].doomed = {} /\ UNCHANGED <<pr, posts, budget>>
  BY DEF DecideFresh, At
<1>2. pc[p] \in Locking \ Handling
  BY <1>1 DEF Labels, Locking, Handling
<1>3. CASE Exit(p) /\ UNCHANGED <<runs, nextRun>>
  BY <1>1, <1>3, RowsSame, PostsSame, BudgetSame, Leaves
<1>4. CASE AllocateFresh(p, "review")
  BY <1>1, <1>2, <1>4, AllocateFreshStep
<1> QED
  BY <1>3, <1>4 DEF DecideFresh

LEMMA SupersededStep == ASSUME IInv, NEW p \in Procs, Superseded(p) PROVE Step(p)
<1>1. /\ pc[p] = "supersede" /\ job[p].doomed = {} /\ AllocateFresh(p, "rerun")
      /\ UNCHANGED <<pr, posts, budget>>
  BY DEF Superseded, At
<1>2. pc[p] \in Locking \ Handling
  BY <1>1 DEF Labels, Locking, Handling
<1> QED
  BY <1>1, <1>2, AllocateFreshStep

LEMMA AllocateOverrideStep ==
  ASSUME IInv, NEW p \in Procs, AllocateOverride(p) PROVE Step(p)
<1> DEFINE row == Row(job[p].scope, TRUE, "override", "running", NoActs, "approve")
           j == [job[p] EXCEPT !.hand = nextRun]
<1>1. pc[p] = "override" /\ UNCHANGED <<pr, posts, budget>> /\ Rest
  BY BudgetSame DEF AllocateOverride, At
<1>2. pc[p] \in Locking \ Handling
  BY <1>1 DEF Labels, Locking, Handling
<1>3. CASE Exit(p) /\ UNCHANGED <<runs, nextRun>>
  BY <1>1, <1>3, RowsSame, PostsSame, Leaves
<1>4. CASE /\ NewRun(row) /\ job' = [job EXCEPT ![p].hand = nextRun]
           /\ Goto(p, "insert") /\ UNCHANGED lock
  <2>1. row \in RunType /\ row.scope = job[p].scope /\ row.live = TRUE
        /\ row.state = "running"
    <3>1. job[p].scope \in Scopes /\ "approve" \in Verdicts
      BY <1>2, LockFacts DEF Verdicts
    <3> QED
      BY <3>1, RunningRow DEF Running
  <2> HIDE DEF row
  <2>2. /\ RowsStep(p) /\ nextRun < nextRun' /\ nextRun \in RunIds
        /\ runs'[nextRun] = row
    BY <1>4, <2>1, RowAllocated
  <2>3. PostsStep /\ LockStep(p) /\ lock'[job[p].scope] = p
    BY <1>1, <1>2, <1>4, <2>2, PostsSame, LockSame, LockFacts
  <2>4. j \in JobType /\ j.hand = nextRun /\ j.stale = job[p].stale
        /\ j.doomed = job[p].doomed /\ j.scope = job[p].scope
    BY <2>2, IdleHolds DEF JobType
  <2>5. job' = [job EXCEPT ![p] = j]
    BY <1>4
  <2> HIDE DEF j
  <2>6. \A r \in j.doomed : /\ r \in RunIds /\ r < nextRun'
                            /\ lock'[runs'[r].scope] = p
    BY <1>4, <2>2, <2>4, JobKept
  <2> QED
    BY <1>1, <1>2, <1>4, <2>1, <2>2, <2>3, <2>4, <2>5, <2>6, Takes DEF Handling
<1> QED
  BY <1>3, <1>4 DEF AllocateOverride

(* Only the row of a marker whose run is gone is allocated again. *)
LEMMA RepairOfAbsent ==
  ASSUME NEW p, Decision(p) = "repair"
  PROVE  ~Exists(posts[Summary(p).at].run)
<1> DEFINE sum == Summary(p)
           run == posts[sum.at].run
<1>1. sum.state \in {"fresh", "complete", "partial"}
  BY DEF Summary
<1> HIDE DEF sum
<1>2. sum.state = "fresh" => Decision(p) = "fresh"
  BY DEF Decision, sum
<1>3. sum.state = "complete" => Decision(p) = "early_exit"
  BY DEF Decision, sum
<1>4. sum.state = "partial" /\ Exists(run) => Decision(p) # "repair"
  <2> HIDE DEF run
  <2>1. ASSUME sum.state = "partial", Exists(run)
        PROVE  Decision(p) =
                 IF Resumable(run) THEN "error_inconsistent"
                 ELSE IF runs[run].state = "failed" THEN "error_partial_failed"
                 ELSE IF runs[run].state = "aborted" THEN "fresh"
                 ELSE "error_unsupported"
    BY <2>1 DEF Decision, run, sum
  <2> QED
    BY <2>1
<1> QED
  BY <1>1, <1>2, <1>3, <1>4 DEF sum

LEMMA DecideRepairStep ==
  ASSUME IInv, NEW p \in Procs, NEW i \in 1..Len(posts), DecideRepair(p, i)
  PROVE  Step(p)
<1> DEFINE r == posts[i].run
           row == Row(job[p].scope, TRUE, "repair", "running", NoActs, posts[i].event)
           j == [job[p] EXCEPT !.hand = r, !.stale = {}, !.open = {}]
<1>1. /\ pc[p] = "decide" /\ job[p].doomed = {}
      /\ posts[i].kind = "rollup" /\ posts[i].scope = job[p].scope
      /\ Decision(p) = "repair" /\ i = Summary(p).at
      /\ UNCHANGED <<nextRun, pr, posts, budget>> /\ Rest
  BY BudgetSame DEF DecideRepair, At, Rollups
<1>2. pc[p] \in Locking \ Handling
  BY <1>1 DEF Labels, Locking, Handling
<1>3. /\ Allocated(r) /\ runs[r].scope = job[p].scope /\ runs[r].live
      /\ posts[i].event \in Verdicts
  BY <1>1 DEF IInv, PostInv, ActKinds
<1>4. runs[r].state = "absent"
  BY <1>1, RepairOfAbsent DEF Exists
<1>5. CASE Exit(p) /\ UNCHANGED runs
  BY <1>1, <1>5, RowsSame, PostsSame, Leaves
<1>6. CASE /\ runs' = [runs EXCEPT ![r] = row]
           /\ ReleaseStale(p)
           /\ job' = [job EXCEPT ![p].hand = r, ![p].stale = {}, ![p].open = {}]
           /\ Goto(p, "insert")
  <2>1. row \in RunType /\ row.scope = job[p].scope /\ row.live = TRUE
        /\ row.state = "running"
    <3> DEFINE e == posts[i].event
    <3>1. job[p].scope \in Scopes /\ e \in Verdicts
      BY <1>2, <1>3, LockFacts
    <3> HIDE DEF e
    <3>2. LET new == Row(job[p].scope, TRUE, "repair", "running", NoActs, e)
          IN  /\ new \in RunType /\ new.scope = job[p].scope /\ new.live = TRUE
              /\ new.state = "running"
      BY <3>1, RunningRow DEF Running
    <3> QED
      BY <3>2 DEF e
  <2> HIDE DEF row
  <2>2. lock[runs[r].scope] = p /\ r \in RunIds /\ r < nextRun'
    BY <1>1, <1>2, <1>3, LockFacts DEF Allocated
  <2>3. row.live = runs[r].live
    BY <1>3, <2>1, <2>2 DEF IInv, TypeOK, RunType
  <2>4. RowsStep(p)
    BY <1>1, <1>3, <1>4, <1>6, <2>1, <2>2, <2>3, RowUpdated
  <2>5. runs'[r] = row
    BY <1>6, <2>2 DEF IInv, TypeOK
  <2>6. PostsStep /\ LockStep(p) /\ lock'[job[p].scope] = p
    BY <1>1, <1>2, <1>6, <2>4, PostsSame, StaleReleased
  <2>7. j \in JobType /\ j.hand = r /\ j.stale = {} /\ j.doomed = {}
        /\ j.scope = job[p].scope
    <3> HIDE DEF r
    <3> QED
      BY <1>1, <2>2, IdleHolds DEF JobType
  <2>8. job' = [job EXCEPT ![p] = j]
    <3> HIDE DEF r
    <3> QED
      BY <1>6 DEF IInv, TypeOK
  <2> HIDE DEF j, r
  <2>9. /\ j.hand \in RunIds /\ j.hand < nextRun'
        /\ runs'[j.hand].scope = job[p].scope /\ runs'[j.hand].live
        /\ runs'[j.hand].state # "aborted" /\ j.stale \subseteq job[p].stale
        /\ \A q \in j.doomed : /\ q \in RunIds /\ q < nextRun'
                               /\ lock'[runs'[q].scope] = p
    BY <2>1, <2>2, <2>5, <2>7
  <2> QED
    BY <1>1, <1>2, <1>6, <2>4, <2>6, <2>7, <2>8, <2>9, Takes DEF Handling
<1> QED
  BY <1>5, <1>6 DEF DecideRepair

-----------------------------------------------------------------------------
(* The run in hand. *)

(* The process goes on with its run, with todo left to post. *)
LEMMA Works ==
  ASSUME IInv, NEW p \in Procs, RowsStep(p), PostsStep, Rest, UNCHANGED lock,
         pc[p] \in Handling, NEW l \in Handling, Goto(p, l),
         NEW todo \in SUBSET ActKinds, job' = [job EXCEPT ![p].todo = todo],
         runs'[job[p].hand].state # "aborted",
         pc[p] # l \/ job[p].todo # todo \/ runs' = runs
  PROVE  Step(p)
<1> DEFINE j == [job[p] EXCEPT !.todo = todo]
<1>1. /\ j \in JobType /\ j.hand = job[p].hand /\ j.scope = job[p].scope
      /\ j.stale = job[p].stale /\ j.doomed = job[p].doomed /\ j.todo = todo
  BY IdleHolds DEF JobType
<1>2. job' = [job EXCEPT ![p] = j]
  OBVIOUS
<1> HIDE DEF j
<1>3. Arrives(p, l, j) /\ l \in Labels
  BY <1>1, KeepsHand
<1>4. pc[p] # l \/ job[p] # j \/ runs' = runs
  BY <1>1
<1> QED
  BY <1>1, <1>2, <1>3, <1>4, LockSame, Proceeds

LEMMA TodoSame ==
  ASSUME IInv, NEW p \in Procs, UNCHANGED job
  PROVE  job[p].todo \in SUBSET ActKinds /\ job' = [job EXCEPT ![p].todo = job[p].todo]
<1>1. job \in [Procs -> JobType]
  BY DEF IInv, TypeOK
<1>2. job[p].todo \in SUBSET ActKinds
  BY <1>1 DEF JobType
<1>3. [job[p] EXCEPT !.todo = job[p].todo] = job[p]
  BY <1>1 DEF JobType
<1> QED
  BY <1>1, <1>2, <1>3

LEMMA HandState ==
  ASSUME IInv, NEW p \in Procs, pc[p] \in Handling, NEW st \in States,
         SetState(job[p].hand, st), UNCHANGED nextRun
  PROVE  RowsStep(p)
  BY HandFacts, StateSet

(* The run in hand, with other actions or another event. *)
LEMMA HandRow ==
  ASSUME IInv, NEW p \in Procs, pc[p] \in Handling, NEW row \in RunType,
         row.scope = runs[job[p].hand].scope, row.live = runs[job[p].hand].live,
         row.state = runs[job[p].hand].state,
         runs' = [runs EXCEPT ![job[p].hand] = row], UNCHANGED nextRun
  PROVE  /\ RowsStep(p)
         /\ job[p].hand \in RunIds /\ job[p].hand < nextRun'
         /\ runs'[job[p].hand].scope = job[p].scope
         /\ runs'[job[p].hand].live
         /\ runs'[job[p].hand].state # "aborted"
<1> DEFINE r == job[p].hand
<1>1. /\ Allocated(r) /\ r \in RunIds /\ lock[runs[r].scope] = p
      /\ runs[r].scope = job[p].scope /\ runs[r].live /\ runs[r].state # "aborted"
  BY HandFacts
<1>2. runs'[r] = row
  BY <1>1 DEF IInv, TypeOK
<1>3. RowsStep(p)
  BY <1>1, RowUpdated
<1> QED
  BY <1>1, <1>2, <1>3, AllocatedKept

LEMMA HandAct ==
  ASSUME IInv, NEW p \in Procs, pc[p] \in Handling, NEW k \in ActKinds,
         NEW st \in ActStates, SetAct(job[p].hand, k, st), UNCHANGED nextRun
  PROVE  /\ RowsStep(p)
         /\ job[p].hand \in RunIds /\ job[p].hand < nextRun'
         /\ runs'[job[p].hand].scope = job[p].scope
         /\ runs'[job[p].hand].live
         /\ runs'[job[p].hand].state # "aborted"
<1> DEFINE r == job[p].hand
           acts == [runs[r].acts EXCEPT ![k] = st]
           row == [runs[r] EXCEPT !.acts = acts]
<1>1. runs[r] \in RunType
  BY HandFacts
<1>2. acts \in [ActKinds -> ActStates]
  BY <1>1 DEF RunType
<1>3. runs' = [runs EXCEPT ![r] = row]
  BY DEF SetAct
<1> HIDE DEF acts
<1>4. /\ row \in RunType /\ row.scope = runs[r].scope /\ row.live = runs[r].live
      /\ row.state = runs[r].state
  BY <1>1, <1>2 DEF RunType
<1> HIDE DEF row
<1> QED
  BY <1>3, <1>4, HandRow

LEMMA HandSame ==
  ASSUME IInv, NEW p \in Procs, pc[p] \in Handling, UNCHANGED <<runs, nextRun>>
  PROVE  /\ RowsStep(p)
         /\ job[p].hand \in RunIds /\ job[p].hand < nextRun'
         /\ runs'[job[p].hand].scope = job[p].scope
         /\ runs'[job[p].hand].live
         /\ runs'[job[p].hand].state # "aborted"
  BY RowsSame, HandFacts DEF Allocated

(* What is posted for the run in hand. *)
LEMMA HandPosted ==
  ASSUME IInv, NEW p \in Procs, pc[p] \in Handling, RowsStep(p),
         job[p].hand \in RunIds, job[p].hand < nextRun',
         runs'[job[p].hand].scope = job[p].scope, runs'[job[p].hand].live,
         NEW kind \in ActKinds, NEW event \in Verdicts \cup {"none"},
         kind = "rollup" => event \in Verdicts,
         Post(kind, job[p].hand, job[p].scope, event)
  PROVE  PostsStep
<1>1. job[p].scope \in Scopes
  BY HandFacts
<1> QED
  BY <1>1, RunPosted

LEMMA InsertSubmitStep == ASSUME IInv, NEW p \in Procs, InsertSubmit(p) PROVE Step(p)
<1>1. /\ pc[p] \in Handling /\ pc[p] # "post" /\ "post" \in Handling
      /\ "submit" \in ActKinds /\ "pending" \in ActStates /\ {"submit"} \in SUBSET ActKinds
      /\ Rest
  BY BudgetSame DEF InsertSubmit, At, Handling, ActKinds, ActStates
<1>2. RowsStep(p) /\ runs'[job[p].hand].state # "aborted"
  BY <1>1, HandAct DEF InsertSubmit
<1>3. PostsStep
  BY <1>2, PostsSame DEF InsertSubmit
<1> QED
  BY <1>1, <1>2, <1>3, Works DEF InsertSubmit

LEMMA InsertFailsStep == ASSUME IInv, NEW p \in Procs, InsertFails(p) PROVE Step(p)
<1>1. pc[p] \in Handling /\ pc[p] # "idle" /\ "absent" \in States
  BY DEF InsertFails, At, Handling, States
<1>2. RowsStep(p)
  BY <1>1, HandState DEF InsertFails
<1> QED
  BY <1>1, <1>2, PostsSame, BudgetFault, Leaves DEF InsertFails

LEMMA KeepPlanStep == ASSUME IInv, NEW p \in Procs, KeepPlan(p) PROVE Step(p)
<1>1. /\ pc[p] \in Handling /\ pc[p] # "idle" /\ pc[p] # "premises"
      /\ "premises" \in Handling /\ "failed" \in States /\ Rest
  BY BudgetSame DEF KeepPlan, At, Handling, States
<1>2. CASE SetState(job[p].hand, "failed") /\ Exit(p)
  <2>1. RowsStep(p)
    BY <1>1, <1>2, HandState DEF KeepPlan
  <2> QED
    BY <1>1, <1>2, <2>1, PostsSame, Leaves DEF KeepPlan
<1>3. CASE Goto(p, "premises") /\ UNCHANGED <<runs, job, lock>>
  <2>1. RowsStep(p) /\ runs'[job[p].hand].state # "aborted"
    BY <1>1, <1>3, HandSame DEF KeepPlan
  <2>2. PostsStep
    BY <2>1, PostsSame DEF KeepPlan
  <2> QED
    BY <1>1, <1>3, <2>1, <2>2, TodoSame, Works
<1> QED
  BY <1>2, <1>3 DEF KeepPlan

(* The steps that change nothing but the label. *)
LEMMA Walks ==
  ASSUME IInv, NEW p \in Procs, pc[p] \in Handling, NEW l \in Handling, Goto(p, l),
         UNCHANGED <<runs, nextRun, lock, pr, posts, job, budget>>
  PROVE  Step(p)
<1>1. RowsStep(p) /\ runs'[job[p].hand].state # "aborted"
  BY HandSame
<1>2. PostsStep /\ Rest
  BY <1>1, PostsSame, BudgetSame
<1> QED
  BY <1>1, <1>2, TodoSame, Works

LEMMA EnterPlannerStep == ASSUME IInv, NEW p \in Procs, EnterPlanner(p) PROVE Step(p)
  BY Walks DEF EnterPlanner, At, Handling

LEMMA NoThreadsStep == ASSUME IInv, NEW p \in Procs, NoThreads(p) PROVE Step(p)
  BY Walks DEF NoThreads, At, Handling

(* The row in hand is aborted with its reply planned and not posted. *)
LEMMA HandAborted ==
  ASSUME IInv, NEW p \in Procs, pc[p] \in Handling,
         runs' = [runs EXCEPT ![job[p].hand].state = "aborted",
                              ![job[p].hand].acts["reply"] = "pending"]
  PROVE  \E row \in RunType :
           /\ row.scope = runs[job[p].hand].scope /\ row.live = runs[job[p].hand].live
           /\ row.kind = runs[job[p].hand].kind
           /\ row.retried = runs[job[p].hand].retried
           /\ row.state = "aborted" /\ runs' = [runs EXCEPT ![job[p].hand] = row]
<1> DEFINE r == job[p].hand
           acts == [runs[r].acts EXCEPT !["reply"] = "pending"]
           row == [runs[r] EXCEPT !.state = "aborted", !.acts = acts]
<1>1. runs[r] \in RunType /\ r \in RunIds /\ runs \in [RunIds -> RunType]
  BY HandFacts DEF IInv, TypeOK
<1>2. acts \in [ActKinds -> ActStates]
  BY <1>1 DEF RunType, ActStates
<1>3. runs' = [runs EXCEPT ![r] = row]
  BY <1>1 DEF RunType
<1> HIDE DEF acts
<1>4. /\ row \in RunType /\ row.scope = runs[r].scope /\ row.live = runs[r].live
      /\ row.kind = runs[r].kind /\ row.retried = runs[r].retried
      /\ row.state = "aborted"
  BY <1>1, <1>2 DEF RunType, States
<1> QED
  BY <1>3, <1>4

LEMMA CheckpointLookStep ==
  ASSUME IInv, NEW p \in Procs, CheckpointLook(p) PROVE Step(p)
<1> DEFINE r == job[p].hand
<1>1. /\ pc[p] \in Handling /\ pc[p] = "plan"
      /\ "checkpoint" \in Handling /\ "reviewers" \in Handling
      /\ "reply" \in ActKinds /\ "pending" \in ActStates
  BY DEF CheckpointLook, At, Handling, ActKinds, ActStates
<1>2. Rest /\ UNCHANGED <<nextRun, posts>>
  BY BudgetSame, BudgetExtra DEF CheckpointLook
<1>3. CASE /\ runs' = [runs EXCEPT ![r].state = "aborted", ![r].acts["reply"] = "pending"]
           /\ Exit(p)
  <2>1. PICK row \in RunType : /\ row.scope = runs[r].scope /\ row.live = runs[r].live
                               /\ runs' = [runs EXCEPT ![r] = row]
    BY <1>1, <1>3, HandAborted
  <2>2. Allocated(r) /\ lock[runs[r].scope] = p /\ runs[r].state # "aborted"
    BY <1>1, HandFacts
  <2>3. RowsStep(p)
    BY <1>2, <2>1, <2>2, RowUpdated
  <2> QED
    BY <1>1, <1>2, <1>3, <2>3, PostsSame, Leaves
<1>4. ASSUME NEW l \in {"checkpoint", "reviewers"}, SetAct(r, "reply", "pending"),
             Goto(p, l), UNCHANGED <<job, lock>>
      PROVE  Step(p)
  <2>1. RowsStep(p) /\ runs'[r].state # "aborted"
    BY <1>1, <1>2, <1>4, HandAct
  <2>2. PostsStep
    BY <1>2, <2>1, PostsSame
  <2>3. l \in Handling /\ pc[p] # l
    BY <1>1
  <2>4. job[p].todo \in SUBSET ActKinds /\ job' = [job EXCEPT ![p].todo = job[p].todo]
    BY <1>4, TodoSame
  <2> HIDE DEF r
  <2> QED
    BY <1>1, <1>2, <1>4, <2>1, <2>2, <2>3, <2>4, Works DEF r
<1> QED
  BY <1>3, <1>4 DEF CheckpointLook

LEMMA CheckpointStep == ASSUME IInv, NEW p \in Procs, Checkpoint(p) PROVE Step(p)
<1> DEFINE r == job[p].hand
<1>1. /\ pc[p] \in Handling /\ pc[p] # "reviewers" /\ "reviewers" \in Handling
      /\ "reply" \in ActKinds /\ "posted" \in ActStates
  BY DEF Checkpoint, At, Handling, ActKinds, ActStates
<1>2. Rest /\ UNCHANGED <<nextRun, job, lock>> /\ Goto(p, "reviewers")
  BY BudgetSame DEF Checkpoint
<1>3. /\ SetAct(r, "reply", "posted") \/ UNCHANGED runs
      /\ UNCHANGED posts \/ Post("reply", r, job[p].scope, "none")
  BY DEF Checkpoint
<1>4. /\ RowsStep(p) /\ r \in RunIds /\ r < nextRun'
      /\ runs'[r].scope = job[p].scope /\ runs'[r].live
      /\ runs'[r].state # "aborted"
  BY <1>1, <1>2, <1>3, HandAct, HandSame
<1>5. PostsStep
  BY <1>1, <1>3, <1>4, PostsSame, HandPosted
<1> QED
  BY <1>1, <1>2, <1>4, <1>5, TodoSame, Works

LEMMA PlanStep ==
  ASSUME IInv, NEW p \in Procs, NEW e \in Events, Plan(p, e) PROVE Step(p)
<1> DEFINE r == job[p].hand
           acts == [k \in ActKinds |->
                      IF k = "rollup" \/ (k = "submit" /\ e # "nothing")
                      THEN "pending" ELSE runs[r].acts[k]]
           row == [runs[r] EXCEPT !.event = e, !.acts = acts]
<1>1. /\ pc[p] \in Handling /\ pc[p] # "premises" /\ "premises" \in Handling
      /\ e \in Verdicts /\ Goto(p, "premises") /\ Rest
      /\ UNCHANGED <<nextRun, lock, posts, job>>
  BY BudgetSame, GateAssumption DEF Plan, At, Handling, Verdicts
<1>2. runs[r] \in RunType /\ r \in RunIds /\ runs \in [RunIds -> RunType]
  BY <1>1, HandFacts DEF IInv, TypeOK
<1>3. acts \in [ActKinds -> ActStates]
  BY <1>2 DEF RunType, ActStates
<1>4. runs' = [runs EXCEPT ![r] = row]
  BY <1>2 DEF Plan
<1> HIDE DEF acts
<1>5. /\ row \in RunType /\ row.scope = runs[r].scope /\ row.live = runs[r].live
      /\ row.state = runs[r].state
  BY <1>1, <1>2, <1>3 DEF RunType
<1> HIDE DEF row
<1>6. RowsStep(p) /\ runs'[r].state # "aborted"
  BY <1>1, <1>4, <1>5, HandRow
<1>7. PostsStep
  BY <1>1, <1>6, PostsSame
<1> QED
  BY <1>1, <1>6, <1>7, TodoSame, Works

LEMMA PlanFailsStep ==
  ASSUME IInv, NEW p \in Procs, NEW st \in States, PlanFails(p, st) PROVE Step(p)
<1>1. pc[p] \in Handling /\ pc[p] # "idle"
  BY DEF PlanFails, Handling
<1>2. RowsStep(p)
  BY <1>1, HandState DEF PlanFails
<1> QED
  BY <1>1, <1>2, PostsSame, BudgetFault, Leaves DEF PlanFails

LEMMA PremisesStep == ASSUME IInv, NEW p \in Procs, Premises(p) PROVE Step(p)
<1> DEFINE todo == Acts(job[p].hand, "pending")
<1>1. /\ pc[p] \in Handling /\ pc[p] # "idle" /\ pc[p] # "post"
      /\ "post" \in Handling /\ "aborted" \in States /\ Rest
      /\ todo \in SUBSET ActKinds /\ UNCHANGED <<nextRun, posts>>
  BY BudgetSame DEF Premises, At, Handling, States, Acts
<1> HIDE DEF todo
<1>2. CASE SetState(job[p].hand, "aborted") /\ Exit(p)
  <2>1. RowsStep(p)
    BY <1>1, <1>2, HandState
  <2> QED
    BY <1>1, <1>2, <2>1, PostsSame, Leaves
<1>3. CASE /\ job' = [job EXCEPT ![p].todo = todo] /\ Goto(p, "post")
           /\ UNCHANGED <<runs, lock>>
  <2>1. RowsStep(p) /\ runs'[job[p].hand].state # "aborted"
    BY <1>1, <1>3, HandSame
  <2>2. PostsStep
    BY <1>1, <2>1, PostsSame
  <2> QED
    BY <1>1, <1>3, <2>1, <2>2, Works
<1> QED
  BY <1>2, <1>3 DEF Premises, todo

LEMMA PostActStep ==
  ASSUME IInv, NEW p \in Procs, NEW k \in ActKinds, PostAct(p, k) PROVE Step(p)
<1> DEFINE r == job[p].hand
           todo == job[p].todo \ {k}
<1>1. /\ pc[p] = "post" /\ pc[p] \in Handling /\ k \in job[p].todo
      /\ "posted" \in ActStates /\ SetAct(r, k, "posted") /\ Rest
      /\ UNCHANGED <<nextRun, lock, pc>> /\ job' = [job EXCEPT ![p].todo = todo]
  BY BudgetSame DEF PostAct, NextAct, At, Handling, ActStates
<1>2. /\ RowsStep(p) /\ r \in RunIds /\ r < nextRun'
      /\ runs'[r].scope = job[p].scope /\ runs'[r].live
      /\ runs'[r].state # "aborted"
  BY <1>1, HandAct
<1>3. PostsStep
  <2>1. runs[r].event \in Verdicts
    BY <1>1, HandFacts DEF RunType
  <2>2. UNCHANGED posts \/ Post(k, r, job[p].scope, runs[r].event)
    BY DEF PostAct
  <2> QED
    BY <1>1, <1>2, <2>1, <2>2, PostsSame, HandPosted
<1>4. todo \in SUBSET ActKinds /\ todo # job[p].todo
  BY <1>1, IdleHolds DEF JobType
<1>5. Goto(p, "post")
  BY <1>1 DEF Goto, IInv, TypeOK
<1> QED
  BY <1>1, <1>2, <1>3, <1>4, <1>5, Works

LEMMA PostFailsStep ==
  ASSUME IInv, NEW p \in Procs, NEW k \in ActKinds, NEW st \in ActStates,
         PostFails(p, k, st)
  PROVE  Step(p)
<1> DEFINE r == job[p].hand
           todo == job[p].todo \ {k}
<1>1. /\ pc[p] = "post" /\ pc[p] \in Handling /\ k \in job[p].todo
      /\ SetAct(r, k, st) /\ Rest
      /\ UNCHANGED <<nextRun, lock, pc, posts>> /\ job' = [job EXCEPT ![p].todo = todo]
  BY BudgetFault DEF PostFails, NextAct, At, Handling
<1>2. RowsStep(p) /\ runs'[r].state # "aborted"
  BY <1>1, HandAct
<1>3. PostsStep
  BY <1>1, <1>2, PostsSame
<1>4. todo \in SUBSET ActKinds /\ todo # job[p].todo
  BY <1>1, IdleHolds DEF JobType
<1>5. Goto(p, "post")
  BY <1>1 DEF Goto, IInv, TypeOK
<1> QED
  BY <1>1, <1>2, <1>3, <1>4, <1>5, Works

LEMMA PostStaleSHAStep == ASSUME IInv, NEW p \in Procs, PostStaleSHA(p) PROVE Step(p)
<1>1. pc[p] \in Handling /\ pc[p] # "idle" /\ "aborted" \in States
  BY DEF PostStaleSHA, NextAct, At, Handling, States
<1>2. RowsStep(p)
  BY <1>1, HandState DEF PostStaleSHA
<1> QED
  BY <1>1, <1>2, PostsSame, BudgetSame, Leaves DEF PostStaleSHA

LEMMA PostThenCrashStep ==
  ASSUME IInv, NEW p \in Procs, NEW k \in ActKinds, PostThenCrash(p, k)
  PROVE  Step(p)
<1>1. /\ pc[p] \in Handling /\ pc[p] # "idle" /\ UNCHANGED <<runs, nextRun>>
      /\ Exit(p) /\ Post(k, job[p].hand, job[p].scope, runs[job[p].hand].event)
  BY DEF PostThenCrash, NextAct, At, Handling
<1>2. /\ RowsStep(p) /\ job[p].hand \in RunIds /\ job[p].hand < nextRun'
      /\ runs'[job[p].hand].scope = job[p].scope /\ runs'[job[p].hand].live
  BY <1>1, HandSame
<1>3. runs[job[p].hand].event \in Verdicts
  BY <1>1, HandFacts DEF RunType
<1>4. PostsStep
  BY <1>1, <1>2, <1>3, HandPosted
<1> QED
  BY <1>1, <1>2, <1>4, BudgetFault, Leaves DEF PostThenCrash

LEMMA FinishStep == ASSUME IInv, NEW p \in Procs, Finish(p) PROVE Step(p)
<1>1. /\ pc[p] \in Handling /\ pc[p] # "idle" /\ FinalState(job[p].hand) \in States
  BY DEF Finish, At, Handling, States, FinalState
<1>2. RowsStep(p)
  BY <1>1, HandState DEF Finish
<1> QED
  BY <1>1, <1>2, PostsSame, BudgetSame, Leaves DEF Finish

LEMMA RunGoneStep == ASSUME IInv, NEW p \in Procs, RunGone(p) PROVE Step(p)
  BY RowsSame, PostsSame, BudgetSame, Leaves DEF RunGone

LEMMA CrashStep == ASSUME IInv, NEW p \in Procs, Crash(p) PROVE Step(p)
  BY RowsSame, PostsSame, BudgetFault, Leaves DEF Crash, At

-----------------------------------------------------------------------------
(* The environment. *)

LEMMA OthersSame ==
  ASSUME IInv, UNCHANGED <<pc, job>> PROVE Others(None)
  BY DEF IInv, TypeOK, Others

LEMMA MoveStep == ASSUME IInv, NEW s \in Scopes, Move(s) PROVE Frame(None)
<1>1. Rest
  BY GateAssumption DEF Move, Rest, IInv, TypeOK
<1> QED
  BY <1>1, RowsSame, PostsSame, LockSame, OthersSame DEF Move, Frame

LEMMA AskStep == ASSUME IInv, Ask PROVE Frame(None)
<1>1. RowsStep(None) /\ LockStep(None) /\ Others(None) /\ Rest
  BY RowsSame, LockSame, OthersSame, BudgetExtra DEF Ask
<1>2. PostsStep
  BY <1>1, PersonPosted DEF Ask, IInv, TypeOK
<1> QED
  BY <1>1, <1>2 DEF Frame

LEMMA ManualReviewStep == ASSUME IInv, ManualReview PROVE Frame(None)
<1>1. RowsStep(None) /\ LockStep(None) /\ Others(None) /\ Rest
  BY RowsSame, LockSame, OthersSame, BudgetExtra DEF ManualReview
<1>2. PostsStep
  BY <1>1, PersonPosted DEF ManualReview, IInv, TypeOK
<1> QED
  BY <1>1, <1>2 DEF Frame

LEMMA DryRunStep == ASSUME IInv, DryRun PROVE Frame(None)
<1> DEFINE row == Row(pr, FALSE, "review", "dry_run", NoActs, "comment")
<1>1. row \in RunType
  <2>1. pr \in Scopes /\ "dry_run" \in States /\ "comment" \in Verdicts
        /\ NextAttempt(pr) \in Nat
    BY NextAttemptType DEF States, Verdicts, IInv, TypeOK
  <2> QED
    BY <2>1, NoActsType DEF Row, RunType
<1> HIDE DEF row
<1>2. NewRun(row) /\ UNCHANGED <<lock, pr, posts, pc, job>> /\ Rest
  BY BudgetExtra DEF DryRun, row
<1>3. RowsStep(None)
  BY <1>1, <1>2, RowAllocated
<1> QED
  BY <1>2, <1>3, PostsSame, LockSame, OthersSame DEF Frame

LEMMA RespondStep ==
  ASSUME IInv, NEW st \in Responses, Respond(st) PROVE Frame(None)
<1> DEFINE state == CASE st = "posted" -> "done" [] st = "failed" -> "failed"
                      [] OTHER -> "incomplete"
           acts == [NoActs EXCEPT !["reply"] = st]
           row == Row(pr, TRUE, "response", state, acts, "comment")
<1>1. /\ pr \in Scopes /\ state \in States /\ "comment" \in Verdicts
      /\ NextAttempt(pr) \in Nat /\ acts \in [ActKinds -> ActStates]
  BY GateAssumption, NextAttemptType, NoActsType
     DEF States, Verdicts, ActStates, ActKinds, IInv, TypeOK
<1>2. /\ NewRun(row) /\ UNCHANGED <<lock, pr, pc, job>> /\ Rest
      /\ \/ Post("reply", nextRun, pr, "none")
         \/ UNCHANGED posts
  BY BudgetExtra DEF Respond
<1> HIDE DEF state, acts
<1>3. row \in RunType /\ row.scope = pr /\ row.live = TRUE
  BY <1>1 DEF Row, RunType
<1> HIDE DEF row
<1>4. /\ RowsStep(None) /\ nextRun \in RunIds /\ nextRun < nextRun'
      /\ runs'[nextRun] = row
  BY <1>2, <1>3, RowAllocated
<1>5. PostsStep
  <2>1. CASE UNCHANGED posts
    BY <1>4, <2>1, PostsSame
  <2>2. CASE Post("reply", nextRun, pr, "none")
    <3>1. runs'[nextRun].scope = pr /\ runs'[nextRun].live
      BY <1>3, <1>4
    <3>2. "reply" \in ActKinds /\ "none" \in Verdicts \cup {"none"}
      BY DEF ActKinds
    <3> QED
      BY <1>1, <1>4, <2>2, <3>1, <3>2, RunPosted
  <2> QED
    BY <1>2, <2>1, <2>2
<1> QED
  BY <1>2, <1>4, <1>5, LockSame, OthersSame DEF Frame

LEMMA PruneStep == ASSUME IInv, NEW r \in RunIds, Prune(r) PROVE Frame(None)
<1> DEFINE row == [runs[r] EXCEPT !.state = "absent"]
<1>1. /\ Prunes /\ runs' = [runs EXCEPT ![r] = row] /\ Rest
      /\ UNCHANGED <<nextRun, lock, posts, pc, job>>
  BY BudgetFault DEF Prune, SetState
<1>2. runs \in [RunIds -> RunType] /\ runs[r] \in RunType
  BY DEF IInv, TypeOK
<1>3. /\ row \in RunType /\ row.scope = runs[r].scope /\ row.live = runs[r].live
      /\ row.state = "absent"
  BY <1>2 DEF RunType, States
<1> HIDE DEF row
<1>4. RowInv' /\ AbortedKept
  BY <1>1, <1>2, <1>3 DEF IInv, RowInv, Exists, AbortedKept
<1>5. RowsStep(None)
  BY <1>1, <1>2, <1>3, <1>4 DEF RowsStep, IInv, TypeOK
<1> QED
  BY <1>1, <1>5, PostsSame, LockSame, OthersSame DEF Frame

-----------------------------------------------------------------------------
(* The theorems. *)

LEMMA InitInv == Init => IInv
<1> SUFFICES ASSUME Init PROVE IInv
  OBVIOUS
<1> USE GateAssumption
<1>1. (CHOOSE s \in Scopes : TRUE) \in Scopes
  OBVIOUS
<1>2. runs \in [RunIds -> RunType]
  <2>1. [scope |-> CHOOSE s \in Scopes : TRUE, attempt |-> 0, live |-> FALSE,
         kind |-> "review", state |-> "absent", acts |-> NoActs,
         event |-> "comment", retried |-> FALSE] \in RunType
    BY <1>1, NoActsType DEF RunType, States, Verdicts
  <2> QED
    BY <2>1 DEF Init
<1>3. job \in [Procs -> JobType] /\ pc \in [Procs -> Labels]
  BY IdleJobType DEF Init, Labels
<1>4. TypeOK
  BY <1>2, <1>3 DEF Init, TypeOK
<1>5. RowInv /\ PostInv
  BY DEF Init, RowInv, Exists, PostInv
<1>6. \A p \in Procs : ProcInv(p)
  BY DEF Init, ProcInv, Hand, IdleJob, Locking, Handling, NoRun
<1> QED
  BY <1>4, <1>5, <1>6 DEF IInv

(* A step of a process leaves the others what they have. *)
LEMMA ProcessStep ==
  ASSUME IInv, NEW p \in Procs,
         Gate(p) \/ Work(p) \/ Fail(p) \/ \E c \in Commands : Start(p, c)
  PROVE  Step(p)
<1>1. CASE Gate(p)
  <2>1. ASSUME NEW r \in RunIds, AbortStale(p, r) \/ Supersede(p, r) PROVE Step(p)
    BY <2>1, DoomStep DEF AbortStale, Supersede, At
  <2> QED
    BY <1>1, <2>1, PrecheckStep, AcquireStep, ReadHostStep, NoOverrideStep,
       AllocateOverrideStep, LocalReviewStep, LocalRerunStep, NothingToRetryStep,
       LocalResumeStep, LocalRetryStep, ProbeStep, DecideAbortStep,
       StaleAbortedStep, DecideExitStep, DecideFreshStep, SupersededStep,
       InsertSubmitStep, DecideRepairStep DEF Gate
<1>2. CASE Work(p)
  BY <1>2, KeepPlanStep, EnterPlannerStep, CheckpointLookStep, CheckpointStep,
     NoThreadsStep, PlanStep,
     PremisesStep, PostActStep, PostStaleSHAStep, FinishStep, RunGoneStep DEF Work
<1>3. CASE Fail(p)
  BY <1>3, InsertFailsStep, CrashStep, PlanFailsStep, PostThenCrashStep,
     PostFailsStep DEF Fail
<1> QED
  BY <1>1, <1>2, <1>3, StartStep

(* Every step is a step of a process or of the environment. *)
LEMMA NextStep ==
  ASSUME IInv, Next
  PROVE  (\E p \in Procs : Step(p)) \/ (Frame(None) /\ UNCHANGED <<pc, job>>)
<1>1. ASSUME Environment PROVE Frame(None) /\ UNCHANGED <<pc, job>>
  <2>1. Frame(None)
    BY <1>1, MoveStep, AskStep, ManualReviewStep, DryRunStep, RespondStep, PruneStep
       DEF Environment
  <2>2. UNCHANGED <<pc, job>>
    BY <1>1 DEF Environment, Move, Ask, ManualReview, DryRun, Respond, Prune
  <2> QED
    BY <2>1, <2>2
<1> QED
  BY <1>1, ProcessStep DEF Next

LEMMA NextInv == IInv /\ [Next]_vars => IInv'
<1> SUFFICES ASSUME IInv, [Next]_vars PROVE IInv'
  OBVIOUS
<1>1. CASE Next
  BY <1>1, NextStep, StepInv, FrameInv
<1>2. CASE UNCHANGED vars
  BY <1>2 DEF vars, IInv, TypeOK, RowInv, PostInv, ProcInv, Hand, Allocated, Exists
<1> QED
  BY <1>1, <1>2

(* What holds of every reachable state: types, allocated rows, what the     *)
(* posts say of their runs, and each process's run, locks and prey.         *)
THEOREM Invariance == Spec => []IInv
  BY InitInv, NextInv, PTL DEF Spec

(* Every variable keeps its type, whatever the bounds. *)
THEOREM TypeCorrect == Spec => []TypeOK
<1>1. IInv => TypeOK
  BY DEF IInv
<1> QED
  BY <1>1, Invariance, PTL

(* A process works on a run only under the lock of the run's own scope, and *)
(* the run is one that posts (gateio.Evaluate, reviewrun.Run).              *)
THEOREM HandsUnderLock == Spec => []HandUnderLock
<1>1. IInv => HandUnderLock
  <2> SUFFICES ASSUME IInv, NEW p \in Procs, Hand(p) # NoRun
               PROVE  /\ lock[job[p].scope] = p
                      /\ runs[Hand(p)].scope = job[p].scope /\ runs[Hand(p)].live
    BY DEF HandUnderLock
  <2>1. pc[p] \in Handling
    BY DEF IInv, ProcInv
  <2> QED
    BY <2>1, HandFacts DEF Hand
<1> QED
  BY <1>1, Invariance, PTL

(* Two processes never work on the same run: it has one scope, and that     *)
(* scope has one lock.                                                      *)
THEOREM RunsExclusive == Spec => []RunExclusive
<1>1. IInv => RunExclusive
  <2> SUFFICES ASSUME IInv, NEW p \in Procs, NEW q \in Procs,
                      Hand(p) # NoRun, Hand(p) = Hand(q)
               PROVE  p = q
    BY DEF RunExclusive
  <2>1. pc[p] \in Handling /\ pc[q] \in Handling
    BY DEF IInv, ProcInv
  <2>2. job[p].scope = job[q].scope
    BY <2>1, HandFacts DEF Hand
  <2> QED
    BY <2>1, <2>2, HandFacts
<1> QED
  BY <1>1, Invariance, PTL

(* An aborted run is not taken up, updated or finished by any command.      *)
THEOREM AbortedStay == Spec => AbortedIsFinal
<1>1. IInv /\ [Next]_vars => [AbortedKept]_vars
  <2> SUFFICES ASSUME IInv, Next PROVE AbortedKept
    OBVIOUS
  <2> QED
    BY NextStep DEF Step, Frame, RowsStep
<1> QED
  BY <1>1, Invariance, PTL DEF Spec, AbortedIsFinal, AbortedKept

(* The action HandIsMine is about. *)
MineKept ==
  \A p \in Procs : Hand(p) # NoRun /\ UNCHANGED <<pc[p], job[p]>> =>
     UNCHANGED runs[Hand(p)]

(* A row in hand changes by the steps of the process that has it and by no  *)
(* other, as long as no row is deleted: deleting takes no scope's lock.     *)
THEOREM HandsAreMine == ASSUME Prunes = FALSE PROVE Spec => HandIsMine
<1>1. ASSUME IInv, NEW q, Frame(q), NEW p \in Procs, p # q,
             Hand(p) # NoRun, UNCHANGED job[p]
      PROVE  UNCHANGED runs[Hand(p)]
  <2>1. pc[p] \in Handling
    BY <1>1 DEF IInv, ProcInv
  <2>2. /\ Allocated(Hand(p)) /\ lock[runs[Hand(p)].scope] # q
    BY <1>1, <2>1, HandFacts DEF Hand
  <2>3. runs'[Hand(p)] = runs[Hand(p)]
    BY <1>1, <2>2 DEF Frame, RowsStep, Allocated
  <2>4. Hand(p)' = Hand(p)
    BY <1>1 DEF Hand
  <2> QED
    BY <2>3, <2>4
<1>2. IInv /\ [Next]_vars => [MineKept]_vars
  <2> SUFFICES ASSUME IInv, Next, NEW p \in Procs,
                      Hand(p) # NoRun, UNCHANGED <<pc[p], job[p]>>
               PROVE  UNCHANGED runs[Hand(p)]
    BY DEF MineKept
  <2>1. CASE Frame(None)
    BY <1>1, <2>1, GateAssumption
  <2>2. ASSUME NEW q \in Procs, Step(q) PROVE UNCHANGED runs[Hand(p)]
    <3>1. CASE p # q
      BY <1>1, <2>2, <3>1 DEF Step
    <3>2. CASE p = q
      BY <2>2, <3>2 DEF Step, GoesOn, Hand
    <3> QED
      BY <3>1, <3>2
  <2> QED
    BY <2>1, <2>2, NextStep
<1> QED
  BY <1>2, Invariance, PTL DEF Spec, HandIsMine, MineKept

-----------------------------------------------------------------------------
(* Nothing is posted for a scope the pull request has left: a process gets  *)
(* to the labels it posts from, the thread checkpoint's included, by a look *)
(* at the pull request only.                                                *)

Behind(p, s) == job[p].scope = s => pc[p] \notin {"insert", "checkpoint", "post"}

Silent(s) == \A i \in Len(posts) + 1 .. Len(posts') :
               posts'[i].scope = s => posts'[i].kind \notin ActKinds

LEMMA PostsOnly ==
  ASSUME IInv, NEW kind, NEW r, NEW t, NEW event, Post(kind, r, t, event),
         NEW s, t # s \/ kind \notin ActKinds
  PROVE  Silent(s)
<1> DEFINE new == [kind |-> kind, run |-> r, scope |-> t, event |-> event,
                   by |-> IF r = NoRun THEN "person" ELSE runs'[r].kind]
<1>1. posts' = Append(posts, new) /\ posts \in Seq(RunPost \cup PersonPost)
  BY DEF Post, IInv, TypeOK
<1>2. new.kind = kind /\ new.scope = t
  OBVIOUS
<1> HIDE DEF new
<1>3. /\ Len(posts) \in Nat /\ Len(posts') = Len(posts) + 1
      /\ posts'[Len(posts) + 1] = new
  BY <1>1
<1>4. \A i \in Len(posts) + 1 .. Len(posts') : i = Len(posts) + 1
  BY <1>3
<1> QED
  BY <1>2, <1>3, <1>4 DEF Silent

LEMMA PostsNothing == ASSUME IInv, UNCHANGED posts, NEW s PROVE Silent(s)
<1>1. Len(posts) \in Nat /\ Len(posts') = Len(posts)
  BY DEF IInv, TypeOK
<1> QED
  BY <1>1 DEF Silent

LEMMA ExitBehind == ASSUME IInv, NEW p \in Procs, Exit(p), NEW s PROVE Behind(p, s)'
<1>1. pc'[p] = "idle"
  BY DEF Exit, IInv, TypeOK
<1> QED
  BY <1>1 DEF Behind

LEMMA GotoBehind ==
  ASSUME IInv, NEW p \in Procs, NEW l, Goto(p, l), NEW s,
         l \notin {"insert", "checkpoint", "post"}
  PROVE  Behind(p, s)'
<1>1. pc'[p] = l
  BY DEF Goto, IInv, TypeOK
<1> QED
  BY <1>1 DEF Behind

(* The job changes and its scope does not. *)
LEMMA ScopeBehind ==
  ASSUME IInv, NEW p \in Procs, NEW j, job' = [job EXCEPT ![p] = j],
         j.scope = job[p].scope, NEW s, job[p].scope # s
  PROVE  Behind(p, s)'
<1>1. job'[p] = j
  BY DEF IInv, TypeOK
<1> QED
  BY <1>1 DEF Behind

LEMMA GateSilent ==
  ASSUME IInv, NEW p \in Procs, Gate(p), NEW s, pr # s, Behind(p, s)
  PROVE  Behind(p, s)' /\ Silent(s)
<1>1. UNCHANGED posts
  BY DEF Gate, Precheck, Acquire, ReadHost, NoOverride, AllocateOverride, LocalReview,
         LocalRerun, NothingToRetry, LocalResume, LocalRetry, AbortStale, Supersede,
         Doom, Probe, DecideAbort, StaleAborted, DecideExit, DecideFresh, Superseded,
         InsertSubmit, DecideRepair
<1>2. Silent(s)
  BY <1>1, PostsNothing
<1> SUFFICES Behind(p, s)'
  BY <1>2
<1>3. job[p] \in JobType /\ job \in [Procs -> JobType]
  BY DEF IInv, TypeOK
<1>4. CASE Precheck(p) \/ Acquire(p) \/ ReadHost(p)
  BY <1>4, ExitBehind, GotoBehind DEF Precheck, Acquire, ReadHost
<1>5. CASE NoOverride(p) \/ LocalReview(p) \/ LocalRerun(p) \/ NothingToRetry(p)
  BY <1>5, ExitBehind, GotoBehind DEF NoOverride, LocalReview, LocalRerun, NothingToRetry
<1>6. CASE AllocateOverride(p)
  <2>1. CASE Exit(p)
    BY <2>1, ExitBehind
  <2>2. CASE pr = job[p].scope /\ job' = [job EXCEPT ![p].hand = nextRun]
    <3> DEFINE j == [job[p] EXCEPT !.hand = nextRun]
    <3>1. job' = [job EXCEPT ![p] = j] /\ j.scope = job[p].scope
      BY <1>3, <2>2 DEF JobType
    <3> QED
      BY <2>2, <3>1, ScopeBehind
  <2> QED
    BY <1>6, <2>1, <2>2 DEF AllocateOverride
<1>7. ASSUME NEW r \in RunIds, LocalResume(p, r) PROVE Behind(p, s)'
  BY <1>7, ExitBehind, GotoBehind DEF LocalResume
<1>8. ASSUME NEW r \in RunIds, LocalRetry(p, r) PROVE Behind(p, s)'
  <2> DEFINE todo == Acts(r, "pending") \cup Acts(r, "failed")
  <2>1. CASE Exit(p)
    BY <2>1, ExitBehind
  <2>2. CASE pr = job[p].scope /\ job' = [job EXCEPT ![p].hand = r, ![p].todo = todo]
    <3> HIDE DEF todo
    <3> DEFINE j == [job[p] EXCEPT !.hand = r, !.todo = todo]
    <3>1. job' = [job EXCEPT ![p] = j] /\ j.scope = job[p].scope
      BY <1>3, <2>2 DEF JobType
    <3> QED
      BY <2>2, <3>1, ScopeBehind
  <2> QED
    BY <1>8, <2>1, <2>2 DEF LocalRetry
<1>9. ASSUME NEW r \in RunIds, AbortStale(p, r) \/ Supersede(p, r) PROVE Behind(p, s)'
  <2>1. CASE Exit(p)
    BY <2>1, ExitBehind
  <2>2. CASE UNCHANGED pc
    BY <1>9, <2>2 DEF AbortStale, Supersede, At, Behind
  <2> QED
    BY <1>9, <2>1, <2>2 DEF AbortStale, Supersede, Doom
<1>10. CASE Probe(p) \/ DecideAbort(p) \/ StaleAborted(p) \/ DecideExit(p)
  BY <1>10, ExitBehind, GotoBehind DEF Probe, DecideAbort, StaleAborted, DecideExit
<1>11. CASE DecideFresh(p) \/ Superseded(p)
  <2>1. Exit(p) \/ Goto(p, "chosen")
    BY <1>11 DEF DecideFresh, Superseded, AllocateFresh
  <2> QED
    BY <2>1, ExitBehind, GotoBehind
<1>12. CASE InsertSubmit(p)
  <2> DEFINE j == [job[p] EXCEPT !.todo = {"submit"}]
  <2>1. job' = [job EXCEPT ![p] = j] /\ j.scope = job[p].scope
    BY <1>3, <1>12 DEF InsertSubmit, JobType
  <2>2. job[p].scope # s
    BY <1>12 DEF InsertSubmit, At, Behind
  <2> QED
    BY <2>1, <2>2, ScopeBehind
<1>13. ASSUME NEW i \in 1..Len(posts), DecideRepair(p, i) PROVE Behind(p, s)'
  <2> DEFINE r == posts[i].run
  <2> HIDE DEF r
  <2>1. CASE Exit(p)
    BY <2>1, ExitBehind
  <2>2. CASE /\ pr = job[p].scope
             /\ job' = [job EXCEPT ![p].hand = r, ![p].stale = {}, ![p].open = {}]
    <3> DEFINE j == [job[p] EXCEPT !.hand = r, !.stale = {}, !.open = {}]
    <3>1. job' = [job EXCEPT ![p] = j] /\ j.scope = job[p].scope
      BY <1>3, <2>2 DEF JobType
    <3> QED
      BY <2>2, <3>1, ScopeBehind
  <2> QED
    BY <1>13, <2>1, <2>2 DEF DecideRepair, r
<1> QED
  BY <1>4, <1>5, <1>6, <1>7, <1>8, <1>9, <1>10, <1>11, <1>12, <1>13 DEF Gate

LEMMA WorkSilent ==
  ASSUME IInv, NEW p \in Procs, Work(p), NEW s, pr # s, Behind(p, s)
  PROVE  Behind(p, s)' /\ Silent(s)
<1>1. CASE KeepPlan(p) \/ EnterPlanner(p) \/ NoThreads(p)
  BY <1>1, ExitBehind, GotoBehind, PostsNothing DEF KeepPlan, EnterPlanner, NoThreads
<1>2. CASE CheckpointLook(p) \/ Checkpoint(p)
  <2>1. CASE Exit(p) /\ UNCHANGED posts
    BY <2>1, ExitBehind, PostsNothing
  <2>2. CASE Goto(p, "reviewers") /\ UNCHANGED posts
    BY <2>2, GotoBehind, PostsNothing
  <2>3. CASE pr = job[p].scope /\ UNCHANGED <<posts, job>>
    BY <2>3, PostsNothing DEF Behind
  <2>4. CASE Checkpoint(p)
    <3>1. job[p].scope # s /\ Goto(p, "reviewers")
      BY <2>4 DEF Checkpoint, At, Behind
    <3>2. UNCHANGED posts \/ Post("reply", job[p].hand, job[p].scope, "none")
      BY <2>4 DEF Checkpoint
    <3> QED
      BY <3>1, <3>2, GotoBehind, PostsNothing, PostsOnly
  <2> QED
    BY <1>2, <2>1, <2>2, <2>3, <2>4 DEF CheckpointLook
<1>3. ASSUME NEW e \in Events, Plan(p, e) PROVE Behind(p, s)' /\ Silent(s)
  BY <1>3, GotoBehind, PostsNothing DEF Plan
<1>4. CASE Premises(p)
  <2> DEFINE todo == Acts(job[p].hand, "pending")
             j == [job[p] EXCEPT !.todo = todo]
  <2>1. Silent(s)
    BY <1>4, PostsNothing DEF Premises
  <2>2. CASE Exit(p)
    BY <2>1, <2>2, ExitBehind
  <2>3. CASE pr = job[p].scope /\ job' = [job EXCEPT ![p].todo = todo]
    <3> HIDE DEF todo
    <3>1. job' = [job EXCEPT ![p] = j] /\ j.scope = job[p].scope
      BY <2>3 DEF IInv, TypeOK, JobType
    <3> QED
      BY <2>1, <2>3, <3>1, ScopeBehind
  <2> QED
    BY <1>4, <2>2, <2>3 DEF Premises
<1>5. ASSUME NEW k \in ActKinds, PostAct(p, k) PROVE Behind(p, s)' /\ Silent(s)
  <2> DEFINE j == [job[p] EXCEPT !.todo = @ \ {k}]
  <2>1. job[p].scope # s
    BY <1>5 DEF PostAct, NextAct, At, Behind
  <2>2. job' = [job EXCEPT ![p] = j] /\ j.scope = job[p].scope
    BY <1>5 DEF PostAct, IInv, TypeOK, JobType
  <2>3. UNCHANGED posts \/ Post(k, job[p].hand, job[p].scope, runs[job[p].hand].event)
    BY <1>5 DEF PostAct
  <2> QED
    BY <2>1, <2>2, <2>3, ScopeBehind, PostsNothing, PostsOnly
<1>6. CASE PostStaleSHA(p) \/ Finish(p) \/ RunGone(p)
  BY <1>6, ExitBehind, PostsNothing DEF PostStaleSHA, Finish, RunGone
<1> QED
  BY <1>1, <1>2, <1>3, <1>4, <1>5, <1>6 DEF Work

LEMMA FailSilent ==
  ASSUME IInv, NEW p \in Procs, Fail(p), NEW s, pr # s, Behind(p, s)
  PROVE  Behind(p, s)' /\ Silent(s)
<1>1. CASE InsertFails(p) \/ Crash(p) \/ \E st \in States : PlanFails(p, st)
  BY <1>1, ExitBehind, PostsNothing DEF InsertFails, Crash, PlanFails
<1>2. ASSUME NEW k \in ActKinds, PostThenCrash(p, k) PROVE Behind(p, s)' /\ Silent(s)
  <2>1. job[p].scope # s
    BY <1>2 DEF PostThenCrash, NextAct, At, Behind
  <2> QED
    BY <1>2, <2>1, ExitBehind, PostsOnly DEF PostThenCrash
<1>3. ASSUME NEW k \in ActKinds, NEW st \in ActStates, PostFails(p, k, st)
      PROVE  Behind(p, s)' /\ Silent(s)
  <2> DEFINE j == [job[p] EXCEPT !.todo = @ \ {k}]
  <2>1. job[p].scope # s /\ UNCHANGED posts
    BY <1>3 DEF PostFails, NextAct, At, Behind
  <2>2. job' = [job EXCEPT ![p] = j] /\ j.scope = job[p].scope
    BY <1>3 DEF PostFails, IInv, TypeOK, JobType
  <2> QED
    BY <2>1, <2>2, ScopeBehind, PostsNothing
<1> QED
  BY <1>1, <1>2, <1>3 DEF Fail

LEMMA EnvironmentSilent ==
  ASSUME IInv, Environment, NEW s, pr # s
  PROVE  Silent(s)
<1>1. CASE Ask
  BY <1>1, PostsOnly DEF Ask, ActKinds
<1>2. CASE ManualReview
  BY <1>2, PostsOnly DEF ManualReview, ActKinds
<1>3. ASSUME NEW st \in Responses, Respond(st) PROVE Silent(s)
  BY <1>3, PostsOnly, PostsNothing DEF Respond
<1>4. CASE DryRun \/ \E t \in Scopes : Move(t)
  BY <1>4, PostsNothing DEF DryRun, Move
<1>5. CASE \E r \in RunIds : Prune(r)
  BY <1>5, PostsNothing DEF Prune
<1> QED
  BY <1>1, <1>2, <1>3, <1>4, <1>5 DEF Environment

(* The action NothingPostedOnceLeft is about. *)
SilentOnceLeft == \A s \in Scopes : Left(s) /\ pr' # s =>
  /\ Left(s)'
  /\ \A i \in Len(posts) + 1 .. Len(posts') :
       posts'[i].scope = s => posts'[i].kind \notin ActKinds

(* Once the pull request is elsewhere and no process is past its last look, *)
(* no reply, rollup or verdict appears for the scope unless the pull        *)
(* request comes back (reviewrun.abortIfMoved, gateio's premises, the look  *)
(* of the thread checkpoint).  A process that has looked already is not     *)
(* covered: what it was about to post, an early reply included, may land    *)
(* after the pull request has left.                                         *)
THEOREM LeftIsSilent == Spec => NothingPostedOnceLeft
<1>1. IInv /\ [Next]_vars => [SilentOnceLeft]_vars
  <2> SUFFICES ASSUME IInv, Next, NEW s \in Scopes, Left(s), pr' # s
               PROVE  Left(s)' /\ Silent(s)
    BY DEF SilentOnceLeft, Silent
  <2>1. pr # s /\ \A p \in Procs : Behind(p, s)
    BY DEF Left, Behind
  <2>2. ASSUME NEW p \in Procs, Gate(p) \/ Work(p) \/ Fail(p)
        PROVE  Behind(p, s)' /\ Silent(s)
    BY <2>1, <2>2, GateSilent, WorkSilent, FailSilent
  <2>3. ASSUME NEW p \in Procs, NEW c \in Commands, Start(p, c)
        PROVE  Behind(p, s)' /\ Silent(s)
    BY <2>3, GotoBehind, PostsNothing DEF Start
  <2>4. ASSUME NEW p \in Procs, Others(p), Behind(p, s)'
        PROVE  Left(s)'
    BY <2>1, <2>4 DEF Left, Behind, Others
  <2>5. ASSUME NEW p \in Procs,
               Gate(p) \/ Work(p) \/ Fail(p) \/ \E c \in Commands : Start(p, c)
        PROVE  Others(p)
    BY <2>5, ProcessStep DEF Step, Frame
  <2>6. ASSUME Environment PROVE Left(s)' /\ Silent(s)
    <3>1. UNCHANGED <<pc, job>>
      BY <2>6 DEF Environment, Move, Ask, ManualReview, DryRun, Respond, Prune
    <3> QED
      BY <2>1, <2>6, <3>1, EnvironmentSilent DEF Left
  <2> QED
    BY <2>2, <2>3, <2>4, <2>5, <2>6 DEF Next
<1> QED
  BY <1>1, Invariance, PTL DEF Spec, NothingPostedOnceLeft, SilentOnceLeft

-----------------------------------------------------------------------------
(* One process at a time.  What it read of the reviews before it took the   *)
(* lock then still holds every verdict of the tool: nobody but a person     *)
(* reviews while it is at work.                                             *)

Gating == {"host", "override", "probe", "decide", "reap"}

Alone == \A p, q \in Procs : pc[p] # "idle" /\ pc[q] # "idle" => p = q

SeesVerdicts(p) ==
  /\ job[p].rev <= Len(posts)
  /\ \A i \in 1..Len(posts) : posts[i].kind = "submit" => i <= job[p].rev

Looks(p) ==
  /\ pc[p] \in Gating => job[p].cmd = "review"
  /\ pc[p] \in Gating \cup {"lock", "local"} /\ job[p].cmd = "review" => SeesVerdicts(p)

(* Under the posting identity people comment, and do not approve. *)
PeopleComment ==
  \A i \in 1..Len(posts) : posts[i].kind = "manual" => posts[i].event = "comment"

AloneInv == Alone /\ PeopleComment /\ \A p \in Procs : Looks(p)

(* One more post, and the others where they were. *)
Added(kind, r, s) ==
  /\ Len(posts) \in Nat /\ Len(posts') = Len(posts) + 1
  /\ \A i \in 1..Len(posts) : posts'[i] = posts[i]
  /\ LET new == posts'[Len(posts) + 1]
     IN /\ new.kind = kind /\ new.run = r /\ new.scope = s
        /\ kind = "manual" => new.event = "comment"

LEMMA PostAdded ==
  ASSUME IInv, NEW kind, NEW r, NEW s, NEW event, Post(kind, r, s, event),
         kind = "manual" => event = "comment"
  PROVE  /\ Added(kind, r, s)
         /\ posts'[Len(posts) + 1].by = IF r = NoRun THEN "person" ELSE runs'[r].kind
<1> DEFINE new == [kind |-> kind, run |-> r, scope |-> s, event |-> event,
                   by |-> IF r = NoRun THEN "person" ELSE runs'[r].kind]
<1>1. posts' = Append(posts, new) /\ posts \in Seq(RunPost \cup PersonPost)
  BY DEF Post, IInv, TypeOK
<1>2. /\ new.kind = kind /\ new.run = r /\ new.scope = s /\ new.event = event
      /\ new.by = IF r = NoRun THEN "person" ELSE runs'[r].kind
  OBVIOUS
<1> HIDE DEF new
<1>3. /\ Len(posts) \in Nat /\ Len(posts') = Len(posts) + 1
      /\ posts'[Len(posts) + 1] = new
      /\ \A i \in 1..Len(posts) : posts'[i] = posts[i]
  BY <1>1
<1> QED
  BY <1>2, <1>3 DEF Added

(* What a step adds to the pull request: nothing, or a post of some kind. *)
Adds(kinds) == UNCHANGED posts \/ \E kind \in kinds : \E r, s : Added(kind, r, s)

LEMMA GateAdds == ASSUME NEW p, Gate(p) PROVE UNCHANGED posts
  BY DEF Gate, Precheck, Acquire, ReadHost, NoOverride, AllocateOverride, LocalReview,
         LocalRerun, NothingToRetry, LocalResume, LocalRetry, AbortStale, Supersede,
         Doom, Probe, DecideAbort, StaleAborted, DecideExit, DecideFresh, Superseded,
         InsertSubmit, DecideRepair

LEMMA Exits ==
  ASSUME IInv, NEW p \in Procs, Exit(p)
  PROVE  pc'[p] = "idle" /\ job'[p] = IdleJob
  BY DEF Exit, IInv, TypeOK

LEMMA GoesTo ==
  ASSUME IInv, NEW p \in Procs, NEW l, Goto(p, l)
  PROVE  pc'[p] = l
  BY DEF Goto, IInv, TypeOK

(* Work on a run stays with the run, and posts for it or not at all. *)
LEMMA WorkAdds ==
  ASSUME IInv, NEW p \in Procs, Work(p)
  PROVE  Adds(ActKinds) /\ pc'[p] \in Handling \cup {"idle"}
<1>1. CASE KeepPlan(p) \/ EnterPlanner(p) \/ NoThreads(p)
  BY <1>1, Exits, GoesTo DEF KeepPlan, EnterPlanner, NoThreads, Adds, Handling
<1>2. CASE CheckpointLook(p) \/ Checkpoint(p)
  <2>1. CASE Exit(p) /\ UNCHANGED posts
    BY <2>1, Exits DEF Adds
  <2>2. CASE /\ Goto(p, "reviewers") \/ Goto(p, "checkpoint")
             /\ UNCHANGED posts \/ Post("reply", job[p].hand, job[p].scope, "none")
    BY <2>2, GoesTo, PostAdded DEF Adds, ActKinds, Handling
  <2> QED
    BY <1>2, <2>1, <2>2 DEF CheckpointLook, Checkpoint
<1>3. ASSUME NEW e \in Events, Plan(p, e) PROVE Adds(ActKinds) /\ pc'[p] \in Handling
  BY <1>3, GoesTo DEF Plan, Adds, Handling
<1>4. CASE Premises(p)
  BY <1>4, Exits, GoesTo DEF Premises, Adds, Handling
<1>5. ASSUME NEW k \in ActKinds, PostAct(p, k) PROVE Adds(ActKinds) /\ pc'[p] \in Handling
  <2>1. UNCHANGED posts \/ Post(k, job[p].hand, job[p].scope, runs[job[p].hand].event)
    BY <1>5 DEF PostAct
  <2>2. k # "manual"
    BY DEF ActKinds
  <2>3. Adds(ActKinds)
    BY <2>1, <2>2, PostAdded DEF Adds
  <2> QED
    BY <1>5, <2>3 DEF PostAct, NextAct, At, Handling
<1>6. CASE PostStaleSHA(p) \/ Finish(p) \/ RunGone(p)
  BY <1>6, Exits DEF PostStaleSHA, Finish, RunGone, Adds
<1> QED
  BY <1>1, <1>2, <1>3, <1>4, <1>5, <1>6 DEF Work

LEMMA FailAdds ==
  ASSUME IInv, NEW p \in Procs, Fail(p)
  PROVE  Adds(ActKinds) /\ pc'[p] \in Handling \cup {"idle"}
<1>1. CASE InsertFails(p) \/ Crash(p) \/ \E st \in States : PlanFails(p, st)
  BY <1>1, Exits DEF InsertFails, Crash, PlanFails, Adds
<1>2. ASSUME NEW k \in ActKinds, PostThenCrash(p, k)
      PROVE  Adds(ActKinds) /\ pc'[p] = "idle"
  <2>1. Post(k, job[p].hand, job[p].scope, runs[job[p].hand].event) /\ k # "manual"
    BY <1>2 DEF PostThenCrash, ActKinds
  <2>2. Adds(ActKinds)
    BY <2>1, PostAdded DEF Adds
  <2> QED
    BY <1>2, <2>2, Exits DEF PostThenCrash
<1>3. ASSUME NEW k \in ActKinds, NEW st \in ActStates, PostFails(p, k, st)
      PROVE  Adds(ActKinds) /\ pc'[p] \in Handling
  BY <1>3 DEF PostFails, NextAct, At, Adds, Handling
<1> QED
  BY <1>1, <1>2, <1>3 DEF Fail

LEMMA EnvironmentAdds ==
  ASSUME IInv, Environment
  PROVE  Adds({"ask", "manual", "reply"}) /\ UNCHANGED <<pc, job>>
<1>1. UNCHANGED <<pc, job>>
  BY DEF Environment, Move, Ask, ManualReview, DryRun, Respond, Prune
<1>2. CASE Ask
  BY <1>2, PostAdded DEF Ask, Adds
<1>3. CASE ManualReview
  BY <1>3, PostAdded DEF ManualReview, Adds
<1>4. ASSUME NEW st \in Responses, Respond(st) PROVE Adds({"ask", "manual", "reply"})
  <2>1. UNCHANGED posts \/ Post("reply", nextRun, pr, "none")
    BY <1>4 DEF Respond
  <2> QED
    BY <2>1, PostAdded DEF Adds
<1>5. CASE DryRun \/ (\E t \in Scopes : Move(t)) \/ \E r \in RunIds : Prune(r)
  BY <1>5 DEF DryRun, Move, Prune, Adds
<1> QED
  BY <1>1, <1>2, <1>3, <1>4, <1>5 DEF Environment

LEMMA StillPeople ==
  ASSUME IInv, PeopleComment, NEW kinds, Adds(kinds) PROVE PeopleComment'
<1>1. CASE UNCHANGED posts
  BY <1>1 DEF PeopleComment
<1>2. ASSUME NEW kind, NEW r, NEW s, Added(kind, r, s) PROVE PeopleComment'
  BY <1>2 DEF PeopleComment, Added
<1> QED
  BY <1>1, <1>2 DEF Adds

LEMMA StillSees ==
  ASSUME IInv, NEW p \in Procs, SeesVerdicts(p), UNCHANGED job[p],
         Adds({"ask", "manual", "reply"})
  PROVE  SeesVerdicts(p)'
<1>1. job[p].rev \in Nat
  BY DEF IInv, TypeOK, JobType
<1>2. CASE UNCHANGED posts
  BY <1>2 DEF SeesVerdicts
<1>3. ASSUME NEW kind \in {"ask", "manual", "reply"}, NEW r, NEW s, Added(kind, r, s)
      PROVE  SeesVerdicts(p)'
  BY <1>1, <1>3 DEF SeesVerdicts, Added
<1> QED
  BY <1>2, <1>3 DEF Adds

(* A step of the gate that goes on looking, with what it read or all there is. *)
LEMMA StillLooks ==
  ASSUME IInv, NEW p \in Procs, UNCHANGED posts, Looks(p),
         pc[p] \in Gating \cup {"lock", "local"}, job[p].cmd = "review",
         job'[p].cmd = job[p].cmd, job'[p].rev \in {job[p].rev, Len(posts)}
  PROVE  Looks(p)'
<1>1. SeesVerdicts(p) /\ Len(posts) \in Nat
  BY DEF Looks, IInv, TypeOK
<1>2. SeesVerdicts(p)'
  BY <1>1 DEF SeesVerdicts
<1> QED
  BY <1>2 DEF Looks

LEMMA LooksAway ==
  ASSUME NEW p, pc'[p] \notin Gating \cup {"lock", "local"} PROVE Looks(p)'
  BY DEF Looks

LEMMA GateLooks ==
  ASSUME IInv, NEW p \in Procs, Looks(p), Gate(p) PROVE Looks(p)'
<1> DEFINE Away == pc'[p] \notin Gating \cup {"lock", "local"}
           On == /\ pc[p] \in Gating \cup {"lock", "local"} /\ job[p].cmd = "review"
                 /\ job'[p].cmd = job[p].cmd
                 /\ job'[p].rev \in {job[p].rev, Len(posts)}
<1>1. UNCHANGED posts
  BY GateAdds
<1>2. job[p] \in JobType /\ job \in [Procs -> JobType]
  BY DEF IInv, TypeOK
<1>3. pc[p] \in Gating => job[p].cmd = "review"
  BY DEF Looks
<1>4. Exit(p) => Away
  BY Exits DEF Gating
<1>5. CASE Precheck(p)
  <2>1. CASE job' = [job EXCEPT ![p].rev = Len(posts)] /\ Goto(p, "lock")
    <3>1. job'[p].rev = Len(posts) /\ Len(posts) \in Nat
      BY <1>2, <2>1 DEF JobType, IInv, TypeOK
    <3>2. SeesVerdicts(p)' /\ pc'[p] = "lock"
      BY <1>1, <2>1, <3>1, GoesTo DEF SeesVerdicts
    <3> QED
      BY <3>2 DEF Looks, Gating
  <2> QED
    BY <1>4, <1>5, <2>1, LooksAway DEF Precheck
<1>6. CASE Acquire(p)
  <2>1. CASE UNCHANGED job /\ Goto(p, IF job[p].cmd = "review" THEN "host" ELSE "local")
    <3>1. pc[p] = "lock" /\ pc'[p] = IF job[p].cmd = "review" THEN "host" ELSE "local"
      BY <1>6, <2>1, GoesTo DEF Acquire, At
    <3>2. CASE job[p].cmd = "review"
      BY <1>1, <2>1, <3>1, <3>2, StillLooks
    <3>3. CASE job[p].cmd # "review"
      BY <2>1, <3>1, <3>3 DEF Looks, Gating
    <3> QED
      BY <3>2, <3>3
  <2> QED
    BY <1>4, <1>6, <2>1, LooksAway DEF Acquire
<1>7. CASE ReadHost(p) \/ LocalReview(p) \/ NoOverride(p)
  <2>1. Away \/ On
    <3>1. CASE ReadHost(p)
      BY <1>2, <1>3, <1>4, <3>1 DEF ReadHost, At, Gating, JobType
    <3>2. CASE LocalReview(p)
      BY <1>2, <1>4, <3>2 DEF LocalReview, At, JobType
    <3>3. CASE NoOverride(p)
      BY <1>3, <3>3 DEF NoOverride, At, Gating
    <3> QED
      BY <1>7, <3>1, <3>2, <3>3
  <2> QED
    BY <1>1, <2>1, StillLooks, LooksAway
<1>8. CASE Probe(p) \/ DecideAbort(p) \/ StaleAborted(p) \/ \E r \in RunIds : AbortStale(p, r)
  <2>1. Away \/ On
    <3>1. CASE Probe(p)
      BY <1>2, <1>3, <3>1 DEF Probe, At, Gating, JobType
    <3>2. CASE DecideAbort(p) \/ StaleAborted(p)
      BY <1>2, <1>3, <3>2 DEF DecideAbort, StaleAborted, At, Gating, JobType
    <3>3. ASSUME NEW r \in RunIds, AbortStale(p, r) PROVE Away \/ On
      BY <1>2, <1>3, <1>4, <3>3 DEF AbortStale, Doom, At, Gating, JobType
    <3> QED
      BY <1>8, <3>1, <3>2, <3>3
  <2> QED
    BY <1>1, <2>1, StillLooks, LooksAway
<1>9. CASE AllocateOverride(p) \/ LocalRerun(p) \/ NothingToRetry(p) \/ DecideExit(p)
  BY <1>4, <1>9, GoesTo, LooksAway
     DEF AllocateOverride, LocalRerun, NothingToRetry, DecideExit, Gating
<1>10. ASSUME NEW r \in RunIds, LocalResume(p, r) \/ LocalRetry(p, r) \/ Supersede(p, r)
       PROVE  Looks(p)'
  <2>1. CASE Supersede(p, r)
    BY <1>4, <2>1, LooksAway DEF Supersede, Doom, At, Gating
  <2> QED
    BY <1>4, <1>10, <2>1, GoesTo, LooksAway DEF LocalResume, LocalRetry, Gating
<1>11. CASE DecideFresh(p) \/ Superseded(p) \/ InsertSubmit(p)
  BY <1>4, <1>11, GoesTo, LooksAway
     DEF DecideFresh, Superseded, AllocateFresh, InsertSubmit, Gating
<1>12. ASSUME NEW i \in 1..Len(posts), DecideRepair(p, i) PROVE Looks(p)'
  BY <1>4, <1>12, GoesTo, LooksAway DEF DecideRepair, Gating
<1> QED
  BY <1>5, <1>6, <1>7, <1>8, <1>9, <1>10, <1>11, <1>12 DEF Gate

LEMMA NotIdle ==
  ASSUME NEW p \in Procs, Gate(p) \/ Work(p) \/ Fail(p) PROVE pc[p] # "idle"
  BY DEF Gate, Work, Fail, At, Precheck, Acquire, ReadHost, NoOverride,
         AllocateOverride, LocalReview, LocalRerun, NothingToRetry, LocalResume,
         LocalRetry, AbortStale, Supersede, Probe, DecideAbort, StaleAborted,
         DecideExit, DecideFresh, Superseded, InsertSubmit, DecideRepair, KeepPlan,
         EnterPlanner, CheckpointLook, Checkpoint, NoThreads, Plan, Premises, PostAct,
         NextAct,
         PostStaleSHA, Finish, RunGone, InsertFails, Crash, PlanFails,
         PostThenCrash, PostFails

(* While one process is at work no other one starts. *)
LEMMA AloneStep ==
  ASSUME Overlap = FALSE, IInv, AloneInv, Next PROVE AloneInv'
<1>1. ASSUME NEW p \in Procs, Others(p), \A q \in Procs \ {p} : pc[q] = "idle", Looks(p)',
             NEW kinds, Adds(kinds)
      PROVE  AloneInv'
  <2>1. \A q \in Procs \ {p} : pc'[q] = "idle"
    BY <1>1 DEF Others
  <2>2. Alone' /\ \A q \in Procs : Looks(q)'
    BY <1>1, <2>1 DEF Alone, Looks, Gating
  <2> QED
    BY <1>1, <2>2, StillPeople DEF AloneInv
<1>2. ASSUME NEW p \in Procs, Gate(p) \/ Work(p) \/ Fail(p) PROVE AloneInv'
  <2>1. Others(p)
    BY <1>2, ProcessStep DEF Step, Frame
  <2>2. pc[p] # "idle"
    BY <1>2, NotIdle
  <2>3. \A q \in Procs \ {p} : pc[q] = "idle"
    BY <2>2 DEF AloneInv, Alone
  <2>4. CASE Gate(p)
    <3>1. Looks(p)' /\ Adds({})
      BY <2>4, GateLooks, GateAdds DEF AloneInv, Adds
    <3> QED
      BY <1>1, <2>1, <2>3, <3>1
  <2>5. CASE Work(p) \/ Fail(p)
    <3>1. Adds(ActKinds) /\ pc'[p] \in Handling \cup {"idle"}
      BY <2>5, WorkAdds, FailAdds
    <3>2. Looks(p)'
      BY <3>1, LooksAway DEF Handling, Gating
    <3> QED
      BY <1>1, <2>1, <2>3, <3>1, <3>2
  <2> QED
    BY <1>2, <2>4, <2>5
<1>3. ASSUME NEW p \in Procs, NEW c \in Commands, Start(p, c) PROVE AloneInv'
  <2>1. Others(p)
    BY <1>3, ProcessStep DEF Step, Frame
  <2>2. \A q \in Procs : pc[q] = "idle"
    BY <1>3 DEF Start, At
  <2>3. Adds({})
    BY <1>3 DEF Start, Adds
  <2>4. job'[p].cmd = c /\ pc'[p] = IF c = "review" THEN "precheck" ELSE "lock"
    BY <1>3, GoesTo DEF Start, IdleJob, IInv, TypeOK
  <2>5. Looks(p)'
    BY <2>4 DEF Looks, Gating
  <2> QED
    BY <1>1, <2>1, <2>2, <2>3, <2>5
<1>4. CASE Environment
  <2>1. Adds({"ask", "manual", "reply"}) /\ UNCHANGED <<pc, job>>
    BY <1>4, EnvironmentAdds
  <2>2. PeopleComment' /\ Alone'
    BY <2>1, StillPeople DEF AloneInv, Alone
  <2>3. ASSUME NEW p \in Procs PROVE Looks(p)'
    <3>1. SeesVerdicts(p) => SeesVerdicts(p)'
      BY <2>1, StillSees
    <3> QED
      BY <2>1, <3>1 DEF AloneInv, Looks
  <2> QED
    BY <2>2, <2>3 DEF AloneInv
<1> QED
  BY <1>2, <1>3, <1>4 DEF Next

LEMMA OneAtATime == ASSUME Overlap = FALSE PROVE Spec => []AloneInv
<1>1. Init => AloneInv
  BY DEF Init, AloneInv, Alone, PeopleComment, Looks, Gating
<1>2. IInv /\ AloneInv /\ [Next]_vars => AloneInv'
  <2> SUFFICES ASSUME IInv, AloneInv, [Next]_vars PROVE AloneInv'
    OBVIOUS
  <2>1. CASE UNCHANGED vars
    BY <2>1 DEF vars, AloneInv, Alone, PeopleComment, Looks, SeesVerdicts
  <2> QED
    BY <2>1, AloneStep
<1> QED
  BY <1>1, <1>2, Invariance, PTL DEF Spec

-----------------------------------------------------------------------------
(* What a process that is alone decides from is what is on the host. *)

(* A set of positions has a newest one: take away from a smallest set that  *)
(* has none.                                                                *)
LEMMA NewestExists ==
  ASSUME NEW n \in Nat, NEW S, S \subseteq 1..n, S # {}
  PROVE  Newest(S) \in S /\ \A i \in S : i <= Newest(S)
<1> DEFINE Ages == {n - i : i \in S}
<1>1. Ages \subseteq Nat /\ Ages # {}
  <2>1. \A i \in S : n - i \in Nat /\ n - i \in Ages
    OBVIOUS
  <2> QED
    BY <2>1
<1>2. PICK a \in Ages : \A b \in Ages : ~(<<b, a>> \in OpToRel(<, Nat))
  <2> HIDE DEF Ages
  <2> QED
    BY <1>1, NatLessThanWellFounded, WFMin
<1>3. PICK m \in S : a = n - m
  BY <1>2
<1>4. \A i \in S : ~(n - i < n - m)
  BY <1>1, <1>2, <1>3 DEF OpToRel
<1>5. \A i \in S : i <= m
  BY <1>4
<1> QED
  BY <1>5 DEF Newest

LEMMA SeesSubmits ==
  ASSUME IInv, AloneInv, NEW p \in Procs, pc[p] = "decide"
  PROVE  /\ job[p].rev \in Nat /\ Len(posts) \in Nat /\ job[p].rev <= Len(posts)
         /\ \A s : Submits(p, s) = SubmitsOnHost(s)
         /\ Reviews(p) \subseteq VerdictsUpTo(Len(posts))
         /\ \A i \in VerdictsUpTo(Len(posts)) \ Reviews(p) :
              i > job[p].rev /\ posts[i].kind = "manual" /\ posts[i].event = "comment"
<1>1. SeesVerdicts(p)
  BY DEF AloneInv, Looks, Gating
<1>2. job[p].rev \in Nat /\ Len(posts) \in Nat /\ job[p].rev <= Len(posts)
  BY <1>1 DEF SeesVerdicts, IInv, TypeOK, JobType
<1>3. \A s : Submits(p, s) = SubmitsOnHost(s)
  BY <1>1, <1>2 DEF SeesVerdicts, Submits, SubmitsOnHost, Reviews
<1>4. Reviews(p) \subseteq VerdictsUpTo(Len(posts))
  BY <1>2 DEF Reviews, VerdictsUpTo
<1>5. ASSUME NEW i \in VerdictsUpTo(Len(posts)) \ Reviews(p)
      PROVE  i > job[p].rev /\ posts[i].kind = "manual" /\ posts[i].event = "comment"
  <2>1. i \in 1..Len(posts) /\ posts[i].kind \in {"submit", "manual"} /\ ~(i <= job[p].rev)
    BY <1>2 DEF Reviews, VerdictsUpTo
  <2> QED
    BY <1>1, <1>2, <2>1 DEF SeesVerdicts, AloneInv, PeopleComment
<1> QED
  BY <1>2, <1>3, <1>4, <1>5

(* A comment as the last verdict is by a person, or for another scope, and  *)
(* it came after every verdict of this one.                                 *)
LEMMA DemotedBy ==
  ASSUME IInv, NEW p \in Procs, NEW s, Submits(p, s) # {}
  PROVE  LET last == Newest(Reviews(p))
         IN /\ last \in Reviews(p)
            /\ \A i \in Reviews(p) : i <= last
            /\ Demoted(p, s) => \A i \in Submits(p, s) : i < last
<1> DEFINE last == Newest(Reviews(p))
<1>1. job[p].rev \in Nat
  BY DEF IInv, TypeOK, JobType
<1>2. Reviews(p) \subseteq 1..job[p].rev /\ Reviews(p) # {} /\ Submits(p, s) \subseteq Reviews(p)
  BY DEF Reviews, Submits
<1>3. last \in Reviews(p) /\ \A i \in Reviews(p) : i <= last
  BY <1>1, <1>2, NewestExists
<1>4. Demoted(p, s) => last \notin Submits(p, s)
  BY DEF Demoted
<1> HIDE DEF last
<1>5. Demoted(p, s) => \A i \in Submits(p, s) : i < last
  BY <1>1, <1>2, <1>3, <1>4
<1> QED
  BY <1>3, <1>5 DEF last

(* The parts of a decision. *)
LEMMA DecisionOf ==
  ASSUME NEW p
  PROVE  LET s == job[p].scope
         IN /\ Submits(p, s) # {} /\ ~Demoted(p, s) => Decision(p) = "early_exit"
            /\ Submits(p, s) # {} /\ Demoted(p, s) => Decision(p) = "fresh"
            /\ Decision(p) = "repair" => Submits(p, s) = {}
<1> DEFINE sum == Summary(p)
           s == job[p].scope
<1>1. Submits(p, s) # {} => sum.state = IF Demoted(p, s) THEN "fresh" ELSE "complete"
  BY DEF Summary
<1> HIDE DEF sum
<1>2. sum.state = "fresh" => Decision(p) = "fresh"
  BY DEF Decision, sum
<1>3. sum.state = "complete" => Decision(p) = "early_exit"
  BY DEF Decision, sum
<1> QED
  BY <1>1, <1>2, <1>3

(* Complete markers for the current head and base end cr review early, for  *)
(* invocations that do not overlap: what was read before the lock is still  *)
(* all there is (gate.summarizePRFromHost, decidePR).                       *)
THEOREM CompleteEndsEarly ==
  ASSUME Overlap = FALSE PROVE Spec => []CompleteExitsEarly
<1>1. IInv /\ AloneInv => CompleteExitsEarly
  <2> SUFFICES ASSUME IInv, AloneInv, NEW p \in Procs, Deciding(p),
                      CompleteOnHost(job[p].scope)
               PROVE  Decision(p) = "early_exit"
    BY DEF CompleteExitsEarly
  <2> DEFINE s == job[p].scope
             all == VerdictsUpTo(Len(posts))
             last == Newest(all)
             seen == Newest(Reviews(p))
  <2>1. /\ job[p].rev \in Nat /\ Len(posts) \in Nat
        /\ Submits(p, s) = SubmitsOnHost(s) /\ Reviews(p) \subseteq all
        /\ \A i \in all \ Reviews(p) :
             i > job[p].rev /\ posts[i].kind = "manual" /\ posts[i].event = "comment"
    BY SeesSubmits DEF Deciding, At
  <2>2. SubmitsOnHost(s) # {} /\ (posts[last].event # "comment" \/ last \in SubmitsOnHost(s))
    BY DEF CompleteOnHost
  <2>3. all \subseteq 1..Len(posts) /\ all # {} /\ SubmitsOnHost(s) \subseteq all
    BY <2>2 DEF VerdictsUpTo, SubmitsOnHost
  <2>4. last \in all /\ \A i \in all : i <= last
    BY <2>1, <2>3, NewestExists
  <2>5. seen \in Reviews(p) /\ \A i \in Reviews(p) : i <= seen
    BY <2>1, <2>2, DemotedBy
  <2>6. last \in Reviews(p)
    BY <2>1, <2>2, <2>4 DEF SubmitsOnHost
  <2> HIDE DEF all, last, seen
  <2>7. last = seen
    <3>1. last \in Nat /\ seen \in Nat /\ last <= seen /\ seen <= last
      BY <2>1, <2>3, <2>4, <2>5, <2>6
    <3> QED
      BY <3>1
  <2>8. ~Demoted(p, s)
    BY <2>1, <2>2, <2>7 DEF Demoted, seen
  <2> QED
    BY <2>1, <2>2, <2>8, DecisionOf
<1> QED
  BY <1>1, Invariance, OneAtATime, PTL

-----------------------------------------------------------------------------
(* A second verdict.  What matters are the rows of cr review that may still *)
(* post one unasked: a scope has one of them at most, and for that one      *)
(* every verdict of its scope is history, if its own is not there already.  *)

Open == {"running", "incomplete"}
Own == {"review", "repair"}

Owns(r) == runs[r].kind \in Own /\ ~runs[r].retried
OpenOwn(r) == Resumable(r) /\ Owns(r)

(* A person's comment or a verdict for another scope came after post i. *)
Broken(i) == \E k \in i + 1 .. Len(posts) :
  posts[k].kind = "manual" \/ (posts[k].kind = "submit" /\ posts[k].scope # posts[i].scope)

History(s) == \A i \in 1..Len(posts) : Unasked(i) /\ posts[i].scope = s => Broken(i)

OneOpen ==
  \A r, q \in RunIds : OpenOwn(r) /\ OpenOwn(q) /\ runs[r].scope = runs[q].scope => r = q

OpenIsNew == \A r \in RunIds : OpenOwn(r) => OnHost(r, "submit") \/ History(runs[r].scope)

ByKind ==
  \A i \in 1..Len(posts) : posts[i].kind = "submit" => posts[i].by = runs[posts[i].run].kind

OwnLedger == OneOpen /\ OpenIsNew /\ ByKind /\ OwnRunsReviewOnce

(* The scope is looked at, and what is decided for it finds no open row. *)
NoneOpen(p) == pc[p] \in {"probe", "decide"} =>
  \A r \in RunIds : OpenOwn(r) => runs[r].scope # job[p].scope

(* What cr review works on unasked was not finished when it was taken up.   *)
Unfinished(r) == Owns(r) /\ Exists(r) => runs[r].state \in Open

HandOpen(p) == Hand(p) # NoRun => Unfinished(Hand(p))

OwnProc(p) == NoneOpen(p) /\ HandOpen(p)

OwnInv == OwnLedger /\ \A p \in Procs : OwnProc(p)

(* No row becomes one that may post unasked. *)
RowsQuiet ==
  /\ \A r \in RunIds : OpenOwn(r)' => OpenOwn(r)
  /\ \A r \in RunIds : r < nextRun =>
       runs'[r].kind = runs[r].kind /\ (runs[r].retried => runs'[r].retried)

LEMMA QuietSame == ASSUME UNCHANGED runs PROVE RowsQuiet
  BY DEF RowsQuiet, OpenOwn, Resumable, Owns

LEMMA QuietRow ==
  ASSUME IInv, NEW r \in RunIds, NEW row, runs' = [runs EXCEPT ![r] = row],
         row.kind = runs[r].kind, row.live = runs[r].live,
         runs[r].retried => row.retried,
         row.state \in Open => runs[r].state \in Open \/ ~(row.kind \in Own /\ ~row.retried)
  PROVE  RowsQuiet
<1>1. runs \in [RunIds -> RunType]
  BY DEF IInv, TypeOK
<1>2. runs'[r] = row /\ \A q \in RunIds \ {r} : runs'[q] = runs[q]
  BY <1>1
<1>3. ASSUME NEW q \in RunIds, OpenOwn(q)' PROVE OpenOwn(q)
  <2>1. CASE q = r
    <3>1. row.live /\ row.state \in Open /\ row.kind \in Own /\ ~row.retried
      BY <1>2, <1>3, <2>1 DEF OpenOwn, Resumable, Owns, Open
    <3> QED
      BY <2>1, <3>1 DEF OpenOwn, Resumable, Owns, Open
  <2>2. CASE q # r
    BY <1>2, <1>3, <2>2 DEF OpenOwn, Resumable, Owns
  <2> QED
    BY <2>1, <2>2
<1> QED
  BY <1>2, <1>3 DEF RowsQuiet

LEMMA QuietState ==
  ASSUME IInv, NEW r \in RunIds, NEW st, SetState(r, st),
         st \in Open /\ Owns(r) => runs[r].state \in Open
  PROVE  RowsQuiet
<1> DEFINE row == [runs[r] EXCEPT !.state = st]
<1>1. runs[r] \in RunType /\ runs' = [runs EXCEPT ![r] = row]
  BY DEF IInv, TypeOK, SetState
<1>2. /\ row.kind = runs[r].kind /\ row.live = runs[r].live /\ row.state = st
      /\ row.retried = runs[r].retried
  BY <1>1 DEF RunType
<1> HIDE DEF row
<1> QED
  BY <1>1, <1>2, QuietRow DEF Owns

LEMMA QuietAct ==
  ASSUME IInv, NEW r \in RunIds, NEW k, NEW st, SetAct(r, k, st)
  PROVE  /\ RowsQuiet
         /\ runs'[r].kind = runs[r].kind /\ runs'[r].state = runs[r].state
         /\ runs'[r].retried = runs[r].retried
<1> DEFINE acts == [runs[r].acts EXCEPT ![k] = st]
           row == [runs[r] EXCEPT !.acts = acts]
<1>1. runs \in [RunIds -> RunType] /\ runs' = [runs EXCEPT ![r] = row]
  BY DEF IInv, TypeOK, SetAct
<1> HIDE DEF acts
<1>2. /\ row.kind = runs[r].kind /\ row.live = runs[r].live /\ row.state = runs[r].state
      /\ row.retried = runs[r].retried
  BY <1>1 DEF RunType
<1> HIDE DEF row
<1>3. runs'[r] = row
  BY <1>1
<1> QED
  BY <1>1, <1>2, <1>3, QuietRow

LEMMA QuietNew ==
  ASSUME IInv, NEW row, NewRun(row), row.live /\ row.state \in Open => row.kind \notin Own
  PROVE  RowsQuiet /\ nextRun \in RunIds /\ runs'[nextRun] = row
<1>1. nextRun \in RunIds /\ runs' = [runs EXCEPT ![nextRun] = row] /\ runs \in [RunIds -> RunType]
  BY GateAssumption DEF NewRun, IInv, TypeOK, RunIds
<1>2. runs'[nextRun] = row /\ \A q \in RunIds \ {nextRun} : runs'[q] = runs[q]
  BY <1>1
<1>3. \A r \in RunIds : r < nextRun => r # nextRun
  BY <1>1 DEF RunIds
<1>4. ASSUME NEW q \in RunIds, OpenOwn(q)' PROVE OpenOwn(q)
  BY <1>2, <1>4 DEF OpenOwn, Resumable, Owns, Open
<1> QED
  BY <1>1, <1>2, <1>3, <1>4 DEF RowsQuiet

(* What was posted stays, in its order. *)
Grows ==
  /\ Len(posts) \in Nat /\ Len(posts') \in Nat /\ Len(posts) <= Len(posts')
  /\ \A i \in 1..Len(posts) : posts'[i] = posts[i]

LEMMA AddsGrow == ASSUME IInv, NEW kinds, Adds(kinds) PROVE Grows
<1>1. Len(posts) \in Nat
  BY DEF IInv, TypeOK
<1> QED
  BY <1>1 DEF Adds, Added, Grows

(* What is carried over to the next state about the posts there are. *)
LEMMA Carried ==
  ASSUME IInv, NEW q, RowsStep(q), RowsQuiet, Grows
  PROVE  /\ \A i \in 1..Len(posts) : Unasked(i)' => Unasked(i)
         /\ \A i \in 1..Len(posts) : Broken(i) => Broken(i)'
         /\ \A r \in RunIds : OpenOwn(r)' => runs'[r].scope = runs[r].scope
         /\ \A r \in RunIds : OpenOwn(r)' /\ OnHost(r, "submit") => OnHost(r, "submit")'
         /\ \A i \in 1..Len(posts) : ByKind /\ posts'[i].kind = "submit" =>
              posts'[i].by = runs'[posts'[i].run].kind
         /\ \A i, j \in 1..Len(posts) : Repeats(j, i)' => Repeats(j, i)
<1>1. ASSUME NEW i \in 1..Len(posts), posts[i].kind = "submit"
      PROVE  posts[i].run \in RunIds /\ posts[i].run < nextRun
  BY <1>1 DEF IInv, PostInv, ActKinds, Allocated
<1>2. ASSUME NEW i \in 1..Len(posts), Unasked(i)' PROVE Unasked(i)
  <2>1. posts'[i] = posts[i]
    BY DEF Grows
  <2>2. posts[i].kind = "submit" /\ posts[i].by \in Own /\ ~runs'[posts[i].run].retried
    BY <1>2, <2>1 DEF Unasked, Own
  <2>3. ~runs[posts[i].run].retried
    BY <1>1, <2>2 DEF RowsQuiet
  <2> QED
    BY <2>2, <2>3 DEF Unasked, Own
<1>3. ASSUME NEW i \in 1..Len(posts), Broken(i) PROVE Broken(i)'
  <2>1. PICK k \in i + 1 .. Len(posts) :
          posts[k].kind = "manual" \/ (posts[k].kind = "submit" /\ posts[k].scope # posts[i].scope)
    BY <1>3 DEF Broken
  <2>2. k \in 1..Len(posts) /\ k \in i + 1 .. Len(posts')
    BY DEF Grows
  <2>3. posts'[k] = posts[k] /\ posts'[i] = posts[i]
    BY <2>2 DEF Grows
  <2> QED
    BY <2>1, <2>2, <2>3 DEF Broken
<1>4. ASSUME NEW r \in RunIds, OpenOwn(r)'
      PROVE  runs'[r].scope = runs[r].scope /\ runs'[r].kind = runs[r].kind
  <2>1. OpenOwn(r)
    BY <1>4 DEF RowsQuiet
  <2>2. r < nextRun
    BY <2>1 DEF OpenOwn, Resumable, Exists, IInv, RowInv
  <2> QED
    BY <2>2 DEF RowsQuiet, RowsStep
<1>5. ASSUME NEW r \in RunIds, OpenOwn(r)', OnHost(r, "submit") PROVE OnHost(r, "submit")'
  <2>1. PICK i \in 1..Len(posts) :
          posts[i].run = r /\ posts[i].kind = "submit" /\ posts[i].by = runs[r].kind
    BY <1>5 DEF OnHost
  <2>2. i \in 1..Len(posts') /\ posts'[i] = posts[i]
    BY DEF Grows
  <2> QED
    BY <1>4, <1>5, <2>1, <2>2 DEF OnHost
<1>6. ASSUME NEW i \in 1..Len(posts), ByKind, posts'[i].kind = "submit"
      PROVE  posts'[i].by = runs'[posts'[i].run].kind
  <2>1. posts'[i] = posts[i]
    BY DEF Grows
  <2>2. posts[i].by = runs[posts[i].run].kind
    BY <1>6, <2>1 DEF ByKind
  <2> QED
    BY <1>1, <1>6, <2>1, <2>2 DEF RowsQuiet
<1>7. ASSUME NEW i \in 1..Len(posts), NEW j \in 1..Len(posts), Repeats(j, i)'
      PROVE  Repeats(j, i)
  <2>1. \A k \in 1..Len(posts) : posts'[k] = posts[k]
    BY DEF Grows
  <2>2. \A k \in i + 1 .. j - 1 : k \in 1..Len(posts)
    BY DEF Grows
  <2> QED
    BY <1>7, <2>1, <2>2 DEF Repeats
<1> QED
  BY <1>2, <1>3, <1>4, <1>5, <1>6, <1>7

(* Any other step of the ledger and the pull request than a verdict. *)
LEMMA QuietLedger ==
  ASSUME IInv, NEW q, RowsStep(q), RowsQuiet, OwnLedger,
         NEW kinds, "submit" \notin kinds, Adds(kinds)
  PROVE  OwnLedger'
<1>1. Grows
  BY AddsGrow
<1>2. ASSUME NEW i \in 1..Len(posts'), posts'[i].kind = "submit" PROVE i \in 1..Len(posts)
  <2>1. CASE UNCHANGED posts
    BY <2>1
  <2>2. ASSUME NEW kind \in kinds, NEW r, NEW s, Added(kind, r, s)
        PROVE  i \in 1..Len(posts)
    BY <1>2, <2>2 DEF Added
  <2> QED
    BY <2>1, <2>2 DEF Adds
<1>3. ASSUME NEW s, History(s) PROVE History(s)'
  <2> SUFFICES ASSUME NEW i \in 1..Len(posts'), Unasked(i)', posts'[i].scope = s
               PROVE  Broken(i)'
    BY DEF History
  <2>1. i \in 1..Len(posts) /\ posts'[i] = posts[i]
    BY <1>1, <1>2 DEF Unasked, Grows
  <2> QED
    BY <1>1, <1>3, <2>1, Carried DEF History
<1>4. OneOpen'
  BY <1>1, Carried DEF OwnLedger, OneOpen, RowsQuiet
<1>5. OpenIsNew'
  <2> SUFFICES ASSUME NEW r \in RunIds, OpenOwn(r)'
               PROVE  (OnHost(r, "submit") \/ History(runs[r].scope))'
    BY DEF OpenIsNew
  <2>1. OnHost(r, "submit") \/ History(runs[r].scope)
    BY DEF OwnLedger, OpenIsNew, RowsQuiet
  <2>2. runs'[r].scope = runs[r].scope /\ (OnHost(r, "submit") => OnHost(r, "submit")')
    BY <1>1, Carried
  <2>3. History(runs[r].scope) => History(runs[r].scope)'
    <3>1. PICK s : s = runs[r].scope
      OBVIOUS
    <3>2. History(s) => History(s)'
      BY <1>3
    <3> QED
      BY <2>2, <3>1, <3>2 DEF History
  <2> QED
    BY <2>1, <2>2, <2>3
<1>6. ByKind'
  BY <1>1, <1>2, Carried DEF OwnLedger, ByKind
<1>7. OwnRunsReviewOnce'
  <2> SUFFICES ASSUME NEW i \in 1..Len(posts'), NEW j \in 1..Len(posts'),
                      Unasked(i)', Unasked(j)', Repeats(j, i)'
               PROVE  FALSE
    BY DEF OwnRunsReviewOnce
  <2>1. i \in 1..Len(posts) /\ j \in 1..Len(posts)
    BY <1>2 DEF Unasked
  <2>2. Unasked(i) /\ Unasked(j) /\ Repeats(j, i)
    BY <1>1, <2>1, Carried
  <2> QED
    BY <2>1, <2>2 DEF OwnLedger, OwnRunsReviewOnce
<1> QED
  BY <1>4, <1>5, <1>6, <1>7 DEF OwnLedger

(* The verdict of the run in hand: unasked, it is the first of its scope or *)
(* the others are history.                                                  *)
LEMMA VerdictLedger ==
  ASSUME IInv, NEW q, RowsStep(q), RowsQuiet, OwnLedger,
         NEW r \in RunIds, r < nextRun, Exists(r), runs[r].live, Unfinished(r),
         ~OnHost(r, "submit"), Added("submit", r, runs[r].scope),
         posts'[Len(posts) + 1].by = runs'[r].kind
  PROVE  OwnLedger'
<1>0. PICK n, s : n = Len(posts) + 1 /\ s = runs[r].scope
  OBVIOUS
<1>1. Grows /\ n \in Nat /\ Len(posts') = n /\ 1..Len(posts') = (1..Len(posts)) \cup {n}
  BY <1>0 DEF Added, Grows
<1>2. /\ posts'[n].kind = "submit" /\ posts'[n].run = r /\ posts'[n].scope = s
      /\ posts'[n].by = runs'[r].kind
  BY <1>0 DEF Added
<1>3. runs'[r].kind = runs[r].kind /\ (runs[r].retried => runs'[r].retried)
  BY DEF RowsQuiet
<1>4. n \in 1..Len(posts') /\ OnHost(r, "submit")'
  BY <1>1, <1>2 DEF OnHost
<1>5. Unasked(n)' => OpenOwn(r)
  BY <1>2, <1>3 DEF Unasked, Own, Owns, Unfinished, OpenOwn, Resumable, Open
<1>6. Unasked(n)' => History(s)
  BY <1>0, <1>5 DEF OwnLedger, OpenIsNew
<1>7. ASSUME NEW t, History(t), ~Unasked(n)' \/ t # s PROVE History(t)'
  <2> SUFFICES ASSUME NEW i \in 1..Len(posts'), Unasked(i)', posts'[i].scope = t
               PROVE  Broken(i)'
    BY DEF History
  <2>1. i \in 1..Len(posts)
    BY <1>1, <1>2, <1>7
  <2>2. posts'[i] = posts[i]
    BY <2>1 DEF Added
  <2> QED
    BY <1>1, <1>7, <2>1, <2>2, Carried DEF History
<1>8. OneOpen'
  BY <1>1, Carried DEF OwnLedger, OneOpen, RowsQuiet
<1>9. OpenIsNew'
  <2> SUFFICES ASSUME NEW q1 \in RunIds, OpenOwn(q1)'
               PROVE  (OnHost(q1, "submit") \/ History(runs[q1].scope))'
    BY DEF OpenIsNew
  <2>1. OpenOwn(q1) /\ (OnHost(q1, "submit") \/ History(runs[q1].scope))
    BY DEF OwnLedger, OpenIsNew, RowsQuiet
  <2>2. /\ runs'[q1].scope = runs[q1].scope
        /\ OnHost(q1, "submit") => OnHost(q1, "submit")'
    BY <1>1, Carried
  <2>3. CASE Unasked(n)' /\ runs[q1].scope = s
    <3>1. q1 = r
      BY <1>0, <1>5, <2>1, <2>3 DEF OwnLedger, OneOpen
    <3> QED
      BY <1>4, <3>1
  <2>4. CASE ~Unasked(n)' \/ runs[q1].scope # s
    <3>1. PICK t : t = runs[q1].scope
      OBVIOUS
    <3>2. History(t) => History(t)'
      BY <1>7, <2>4, <3>1
    <3> QED
      BY <2>1, <2>2, <3>1, <3>2 DEF History
  <2> QED
    BY <2>3, <2>4
<1>10. ByKind'
  <2> SUFFICES ASSUME NEW i \in 1..Len(posts'), posts'[i].kind = "submit"
               PROVE  posts'[i].by = runs'[posts'[i].run].kind
    BY DEF ByKind
  <2>1. CASE i = n
    BY <1>2, <2>1
  <2>2. CASE i \in 1..Len(posts)
    BY <1>1, <2>2, Carried DEF OwnLedger
  <2> QED
    BY <1>1, <2>1, <2>2
<1>11. OwnRunsReviewOnce'
  <2> SUFFICES ASSUME NEW i \in 1..Len(posts'), NEW j \in 1..Len(posts'),
                      Unasked(i)', Unasked(j)', Repeats(j, i)'
               PROVE  FALSE
    BY DEF OwnRunsReviewOnce
  <2>1. i < j /\ i \in 1..Len(posts)
    BY <1>1 DEF Repeats
  <2>2. Unasked(i) /\ posts'[i] = posts[i]
    BY <1>1, <2>1, Carried DEF Grows
  <2>3. CASE j \in 1..Len(posts)
    <3>1. Unasked(j) /\ Repeats(j, i)
      BY <1>1, <2>1, <2>3, Carried
    <3> QED
      BY <2>1, <2>2, <2>3, <3>1 DEF OwnLedger, OwnRunsReviewOnce
  <2>4. CASE j = n
    <3>1. posts[i].scope = s
      BY <1>2, <2>2, <2>4 DEF Repeats
    <3>2. Broken(i)
      BY <1>6, <2>1, <2>2, <2>4, <3>1 DEF History
    <3>3. PICK k \in i + 1 .. Len(posts) :
            posts[k].kind = "manual" \/ (posts[k].kind = "submit" /\ posts[k].scope # posts[i].scope)
      BY <3>2 DEF Broken
    <3>4. k \in 1..Len(posts) /\ k \in i + 1 .. j - 1
      BY <1>0, <1>1, <2>1, <2>4, <3>3
    <3>5. posts'[k] = posts[k]
      BY <3>4 DEF Added
    <3> QED
      BY <2>2, <3>3, <3>4, <3>5 DEF Repeats
  <2> QED
    BY <1>1, <2>3, <2>4
<1> QED
  BY <1>8, <1>9, <1>10, <1>11 DEF OwnLedger

(* A row of cr review is allocated, or allocated again under its ID.        *)
LEMMA OpenedLedger ==
  ASSUME IInv, OwnLedger, NEW r \in RunIds, NEW s, UNCHANGED posts,
         \A q \in RunIds \ {r} : runs'[q] = runs[q], runs'[r].scope = s,
         \A i \in 1..Len(posts) : posts[i].kind = "submit" => posts[i].run # r,
         \A q \in RunIds : OpenOwn(q) => runs[q].scope # s,
         History(s)
  PROVE  OwnLedger'
<1>1. ASSUME NEW q \in RunIds, q # r
      PROVE  /\ OpenOwn(q)' <=> OpenOwn(q)
             /\ OnHost(q, "submit")' <=> OnHost(q, "submit")
             /\ runs'[q].scope = runs[q].scope
  <2>1. runs'[q] = runs[q]
    BY <1>1
  <2> QED
    BY <2>1 DEF OpenOwn, Resumable, Owns, OnHost
<1>2. ASSUME NEW i \in 1..Len(posts) PROVE Unasked(i)' <=> Unasked(i)
  <2>1. CASE posts[i].kind = "submit"
    <3>1. posts[i].run \in RunIds \ {r}
      BY <2>1 DEF IInv, PostInv, ActKinds, Allocated
    <3>2. runs'[posts[i].run] = runs[posts[i].run]
      BY <3>1
    <3> QED
      BY <3>2 DEF Unasked
  <2>2. CASE posts[i].kind # "submit"
    BY <2>2 DEF Unasked
  <2> QED
    BY <2>1, <2>2
<1>3. ASSUME NEW t, History(t) PROVE History(t)'
  BY <1>2, <1>3 DEF History, Broken
<1>4. OneOpen'
  <2> SUFFICES ASSUME NEW q \in RunIds, NEW u \in RunIds, OpenOwn(q)', OpenOwn(u)',
                      runs'[q].scope = runs'[u].scope
               PROVE  q = u
    BY DEF OneOpen
  <2>1. CASE q # r /\ u # r
    BY <1>1, <2>1 DEF OwnLedger, OneOpen
  <2>2. CASE q = r /\ u # r
    BY <1>1, <2>2
  <2>3. CASE q # r /\ u = r
    BY <1>1, <2>3
  <2> QED
    BY <2>1, <2>2, <2>3
<1>5. OpenIsNew'
  <2> SUFFICES ASSUME NEW q \in RunIds, OpenOwn(q)'
               PROVE  (OnHost(q, "submit") \/ History(runs[q].scope))'
    BY DEF OpenIsNew
  <2>1. CASE q = r
    BY <1>3, <2>1 DEF History
  <2>2. CASE q # r
    <3>1. /\ OnHost(q, "submit") \/ History(runs[q].scope)
          /\ runs'[q].scope = runs[q].scope
          /\ OnHost(q, "submit")' <=> OnHost(q, "submit")
      BY <1>1, <2>2 DEF OwnLedger, OpenIsNew
    <3>2. PICK t : t = runs[q].scope
      OBVIOUS
    <3>3. History(t) => History(t)'
      BY <1>3
    <3> QED
      BY <3>1, <3>2, <3>3 DEF History
  <2> QED
    BY <2>1, <2>2
<1>6. ByKind'
  <2> SUFFICES ASSUME NEW i \in 1..Len(posts), posts[i].kind = "submit"
               PROVE  posts[i].by = runs'[posts[i].run].kind
    BY DEF ByKind
  <2>1. posts[i].run \in RunIds \ {r}
    BY DEF IInv, PostInv, ActKinds, Allocated
  <2>2. runs'[posts[i].run] = runs[posts[i].run]
    BY <2>1
  <2> QED
    BY <2>2 DEF OwnLedger, ByKind
<1>7. OwnRunsReviewOnce'
  BY <1>2 DEF OwnLedger, OwnRunsReviewOnce, Repeats
<1> QED
  BY <1>4, <1>5, <1>6, <1>7 DEF OwnLedger

(* The processes: a step that leaves the choice of a run, or has none yet. *)
LEMMA NothingHeld ==
  ASSUME NEW p \in Procs, ProcInv(p)', pc'[p] \notin Handling PROVE HandOpen(p)'
  BY DEF ProcInv, HandOpen, Hand

LEMMA ChoiceOver ==
  ASSUME NEW p \in Procs, pc'[p] \notin {"probe", "decide"} PROVE NoneOpen(p)'
  BY DEF NoneOpen

LEMMA StillNoneOpen ==
  ASSUME IInv, NEW q, RowsStep(q), RowsQuiet, NEW p \in Procs, NoneOpen(p),
         pc[p] \in {"probe", "decide"}, job'[p].scope = job[p].scope
  PROVE  NoneOpen(p)'
<1>1. ASSUME NEW r \in RunIds, OpenOwn(r)' PROVE runs'[r].scope # job'[p].scope
  <2>1. OpenOwn(r) /\ r < nextRun
    BY <1>1 DEF RowsQuiet, OpenOwn, Resumable, IInv, RowInv, Exists
  <2>2. runs'[r].scope = runs[r].scope
    BY <2>1 DEF RowsStep
  <2> QED
    BY <2>1, <2>2 DEF NoneOpen
<1> QED
  BY <1>1 DEF NoneOpen

(* The run in hand keeps its state, or is not one that posts unasked. *)
LEMMA HandOn ==
  ASSUME NEW p \in Procs, NEW r, job'[p].hand = r,
         runs'[r].state \in Open \/ runs'[r].retried \/ runs'[r].kind \notin Own
  PROVE  HandOpen(p)'
  BY DEF HandOpen, Hand, Unfinished, Owns

LEMMA HandSameOpen ==
  ASSUME IInv, NEW p \in Procs, HandOpen(p), pc[p] \in Handling,
         job'[p].hand = job[p].hand, Exists(job[p].hand),
         runs'[job[p].hand].kind = runs[job[p].hand].kind,
         runs'[job[p].hand].state = runs[job[p].hand].state,
         runs'[job[p].hand].retried = runs[job[p].hand].retried
  PROVE  HandOpen(p)'
<1>1. job[p].hand # NoRun
  BY HandFacts
<1> QED
  BY <1>1 DEF HandOpen, Hand, Unfinished, Owns, Exists

(* The gate, but for what it allocates to review. *)
LEMMA GateQuiet ==
  ASSUME IInv, AloneInv, NEW p \in Procs, OwnProc(p), Step(p), Gate(p)
  PROVE  \/ RowsQuiet /\ OwnProc(p)'
         \/ DecideFresh(p)
         \/ \E i \in 1..Len(posts) : DecideRepair(p, i)
<1> DEFINE Goal == RowsQuiet /\ OwnProc(p)'
<1>1. ProcInv(p)' /\ RowsStep(p) /\ NoneOpen(p) /\ HandOpen(p)
  BY DEF Step, Frame, OwnProc
<1>2. job[p] \in JobType /\ job \in [Procs -> JobType]
  BY DEF IInv, TypeOK
<1>3. pc'[p] \notin Handling \cup {"probe", "decide"} => OwnProc(p)'
  BY <1>1, NothingHeld, ChoiceOver DEF OwnProc
<1>4. Exit(p) => OwnProc(p)'
  BY <1>3, Exits DEF Handling
<1>5. CASE Precheck(p) \/ Acquire(p) \/ ReadHost(p) \/ NoOverride(p)
  <2>1. pc'[p] \notin Handling \cup {"probe", "decide"}
    BY <1>5, Exits, GoesTo DEF Precheck, Acquire, ReadHost, NoOverride, Handling
  <2>2. UNCHANGED runs
    BY <1>5 DEF Precheck, Acquire, ReadHost, NoOverride
  <2> QED
    BY <1>3, <2>1, <2>2, QuietSame
<1>6. CASE LocalRerun(p) \/ NothingToRetry(p) \/ DecideAbort(p) \/ StaleAborted(p) \/ DecideExit(p)
  <2>1. pc'[p] \notin Handling \cup {"probe", "decide"}
    BY <1>6, Exits, GoesTo
       DEF LocalRerun, NothingToRetry, DecideAbort, StaleAborted, DecideExit, Handling
  <2>2. UNCHANGED runs
    BY <1>6 DEF LocalRerun, NothingToRetry, DecideAbort, StaleAborted, DecideExit
  <2> QED
    BY <1>3, <2>1, <2>2, QuietSame
<1>7. CASE AllocateOverride(p)
  <2>1. CASE Exit(p) /\ UNCHANGED runs
    BY <1>4, <2>1, QuietSame
  <2>2. CASE /\ NewRun(Row(job[p].scope, TRUE, "override", "running", NoActs, "approve"))
             /\ job' = [job EXCEPT ![p].hand = nextRun]
             /\ Goto(p, "insert")
    <3> DEFINE row == Row(job[p].scope, TRUE, "override", "running", NoActs, "approve")
    <3>1. row.kind \notin Own
      BY DEF Row, Own
    <3>2. job'[p].hand = nextRun
      BY <1>2, <2>2 DEF JobType
    <3> HIDE DEF row
    <3>3. RowsQuiet /\ runs'[nextRun].kind \notin Own
      BY <2>2, <3>1, QuietNew DEF row
    <3>4. HandOpen(p)'
      BY <3>2, <3>3, HandOn
    <3>5. NoneOpen(p)'
      BY <2>2, GoesTo, ChoiceOver
    <3> QED
      BY <3>3, <3>4, <3>5 DEF OwnProc
  <2> QED
    BY <1>7, <2>1, <2>2 DEF AllocateOverride
<1>8. CASE LocalReview(p)
  <2>1. UNCHANGED runs
    BY <1>8 DEF LocalReview
  <2>2. CASE Exit(p)
    BY <1>4, <2>1, <2>2, QuietSame
  <2>3. CASE ~Exit(p)
    <3>1. /\ pc'[p] = "probe" /\ job'[p].scope = job[p].scope
          /\ \A r \in InScope(job[p].scope) : ~Resumable(r)
      BY <1>2, <1>8, <2>3, GoesTo DEF LocalReview, JobType
    <3>2. NoneOpen(p)'
      BY <2>1, <3>1 DEF NoneOpen, OpenOwn, InScope, Resumable, Owns, Exists
    <3>3. HandOpen(p)'
      BY <1>1, <3>1, NothingHeld DEF Handling
    <3> QED
      BY <2>1, <3>2, <3>3, QuietSame DEF OwnProc
  <2> QED
    BY <2>2, <2>3
<1>9. CASE Probe(p)
  <2>1. /\ UNCHANGED runs /\ pc[p] = "probe" /\ pc'[p] = "decide"
        /\ job'[p].scope = job[p].scope
    BY <1>2, <1>9, GoesTo DEF Probe, At, JobType
  <2>2. RowsQuiet
    BY <2>1, QuietSame
  <2>3. NoneOpen(p)' /\ HandOpen(p)'
    BY <1>1, <2>1, <2>2, StillNoneOpen, NothingHeld DEF Handling
  <2> QED
    BY <2>2, <2>3 DEF OwnProc
<1>10. ASSUME NEW r \in RunIds, LocalResume(p, r) PROVE Goal
  <2>1. CASE SetState(r, "aborted") /\ Exit(p)
    BY <1>4, <2>1, QuietState DEF Open
  <2>2. CASE /\ job' = [job EXCEPT ![p].hand = r] /\ Goto(p, "chosen")
             /\ UNCHANGED runs
    <3>1. runs[r].state \in Open
      BY <1>10 DEF LocalResume, Latest, Resumable, Open
    <3>2. job'[p].hand = r /\ pc'[p] = "chosen"
      BY <1>2, <2>2, GoesTo DEF JobType
    <3>3. HandOpen(p)'
      BY <2>2, <3>1, <3>2, HandOn
    <3> QED
      BY <2>2, <3>2, <3>3, QuietSame, ChoiceOver DEF OwnProc
  <2> QED
    BY <1>10, <2>1, <2>2 DEF LocalResume
<1>11. ASSUME NEW r \in RunIds, LocalRetry(p, r) PROVE Goal
  <2>1. CASE SetState(r, "aborted") /\ Exit(p)
    BY <1>4, <2>1, QuietState DEF Open
  <2>2. CASE Exit(p) /\ UNCHANGED runs
    BY <1>4, <2>2, QuietSame
  <2>3. CASE ~Exit(p)
    <3> DEFINE acts == [k \in ActKinds |-> IF runs[r].acts[k] = "failed" THEN "pending"
                                           ELSE runs[r].acts[k]]
               todo == Acts(r, "pending") \cup Acts(r, "failed")
               row == [runs[r] EXCEPT !.retried = TRUE, !.acts = acts]
    <3>1. /\ runs' = [runs EXCEPT ![r] = row]
          /\ job' = [job EXCEPT ![p].hand = r, ![p].todo = todo]
          /\ Goto(p, "post")
      BY <1>11, <2>3 DEF LocalRetry
    <3> HIDE DEF acts, todo
    <3>2. runs \in [RunIds -> RunType]
      BY DEF IInv, TypeOK
    <3>3. row.kind = runs[r].kind /\ row.live = runs[r].live /\ row.retried = TRUE
      BY <3>2 DEF RunType
    <3> HIDE DEF row
    <3>4. RowsQuiet
      BY <3>1, <3>3, QuietRow
    <3>5. runs'[r].retried = TRUE
      BY <3>1, <3>2, <3>3
    <3>6. job'[p].hand = r /\ pc'[p] = "post"
      BY <1>2, <3>1, GoesTo DEF JobType
    <3>7. HandOpen(p)' /\ NoneOpen(p)'
      BY <3>5, <3>6, HandOn, ChoiceOver
    <3> QED
      BY <3>4, <3>7 DEF OwnProc
  <2>4. ~(Exit(p) /\ Goto(p, "post"))
    BY Exits, GoesTo
  <2> QED
    BY <1>11, <2>1, <2>2, <2>3, <2>4 DEF LocalRetry
<1>12. ASSUME NEW r \in RunIds, AbortStale(p, r) \/ Supersede(p, r) PROVE Goal
  <2>1. CASE Exit(p) /\ UNCHANGED runs
    BY <1>4, <2>1, QuietSame
  <2>2. CASE SetState(r, "aborted") /\ UNCHANGED pc
    <3>1. pc'[p] \in {"reap", "supersede"}
      BY <1>12, <2>2 DEF AbortStale, Supersede, At
    <3>2. RowsQuiet
      BY <2>2, QuietState DEF Open
    <3> QED
      BY <1>3, <3>1, <3>2 DEF Handling
  <2> QED
    BY <1>12, <2>1, <2>2 DEF AbortStale, Supersede, Doom
<1>13. CASE Superseded(p)
  <2> DEFINE row == Row(job[p].scope, TRUE, "rerun", "running", NoActs, "comment")
  <2>1. row.kind \notin Own
    BY DEF Row, Own
  <2>2. NewRun(row) /\ pc'[p] = "chosen" /\ job'[p].hand = nextRun
    BY <1>2, <1>13, GoesTo DEF Superseded, AllocateFresh, JobType
  <2> HIDE DEF row
  <2>3. RowsQuiet /\ runs'[nextRun].kind \notin Own
    BY <2>1, <2>2, QuietNew
  <2>4. HandOpen(p)' /\ NoneOpen(p)'
    BY <2>2, <2>3, HandOn, ChoiceOver
  <2> QED
    BY <2>3, <2>4 DEF OwnProc
<1>14. CASE InsertSubmit(p)
  <2>1. pc[p] \in Handling /\ job'[p].hand = job[p].hand /\ Exists(job[p].hand)
        /\ pc'[p] = "post" /\ SetAct(job[p].hand, "submit", "pending")
    BY <1>2, <1>14, GoesTo DEF InsertSubmit, At, Handling, JobType
  <2>2. job[p].hand \in RunIds
    BY <2>1, HandFacts
  <2>3. /\ RowsQuiet
        /\ runs'[job[p].hand].kind = runs[job[p].hand].kind
        /\ runs'[job[p].hand].state = runs[job[p].hand].state
        /\ runs'[job[p].hand].retried = runs[job[p].hand].retried
    BY <2>1, <2>2, QuietAct
  <2>4. HandOpen(p)' /\ NoneOpen(p)'
    BY <1>1, <2>1, <2>3, HandSameOpen, ChoiceOver
  <2> QED
    BY <2>3, <2>4 DEF OwnProc
<1> QED
  BY <1>5, <1>6, <1>7, <1>8, <1>9, <1>10, <1>11, <1>12, <1>13, <1>14 DEF Gate

(* The work on a run: of its steps only the verdict's is not a quiet one. *)
Quietly(p) == /\ RowsQuiet /\ OwnProc(p)'
              /\ \E kinds : "submit" \notin kinds /\ Adds(kinds)

(* The row in hand gets a state that an open row of cr review may have. *)
LEMMA HandQuiet ==
  ASSUME IInv, NEW p \in Procs, HandOpen(p), pc[p] \in Handling,
         NEW st, SetState(job[p].hand, st), st \notin Open \/ Exists(job[p].hand)
  PROVE  RowsQuiet
<1>1. job[p].hand \in RunIds /\ job[p].hand # NoRun
  BY HandFacts
<1>2. Exists(job[p].hand) /\ Owns(job[p].hand) => runs[job[p].hand].state \in Open
  BY <1>1 DEF HandOpen, Hand, Unfinished
<1> QED
  BY <1>1, <1>2, QuietState

LEMMA LeavesQuietly ==
  ASSUME IInv, NEW p \in Procs, Step(p), Exit(p), RowsQuiet, UNCHANGED posts
  PROVE  Quietly(p)
<1>1. pc'[p] = "idle" /\ ProcInv(p)'
  BY Exits DEF Step
<1>2. OwnProc(p)'
  BY <1>1, NothingHeld, ChoiceOver DEF OwnProc, Handling
<1>3. "submit" \notin {} /\ Adds({})
  BY DEF Adds
<1> QED
  BY <1>2, <1>3 DEF Quietly

(* It goes on with the run it has, whose actions alone may change. *)
LEMMA GoesOnQuietly ==
  ASSUME IInv, NEW p \in Procs, HandOpen(p), pc[p] \in Handling, pc'[p] \in Handling,
         job'[p].hand = job[p].hand, Exists(job[p].hand), RowsQuiet,
         runs'[job[p].hand].kind = runs[job[p].hand].kind,
         runs'[job[p].hand].state = runs[job[p].hand].state,
         runs'[job[p].hand].retried = runs[job[p].hand].retried
  PROVE  OwnProc(p)'
<1>1. NoneOpen(p)'
  BY ChoiceOver DEF Handling
<1> QED
  BY <1>1, HandSameOpen DEF OwnProc

LEMMA WorkQuiet ==
  ASSUME IInv, NEW p \in Procs, HandOpen(p), Step(p), Work(p),
         ~ \E k \in ActKinds : PostAct(p, k)
  PROVE  Quietly(p)
<1> DEFINE r == job[p].hand
<1>1. job[p] \in JobType /\ job \in [Procs -> JobType]
  BY DEF IInv, TypeOK
<1>2. CASE KeepPlan(p) \/ EnterPlanner(p) \/ NoThreads(p)
  <2>1. pc[p] \in Handling /\ Exists(job[p].hand) /\ UNCHANGED posts
    BY <1>2 DEF KeepPlan, EnterPlanner, NoThreads, At, Handling
  <2>2. CASE SetState(r, "failed") /\ Exit(p)
    <3>1. RowsQuiet
      BY <2>1, <2>2, HandQuiet DEF Open
    <3> QED
      BY <2>1, <2>2, <3>1, LeavesQuietly
  <2>3. CASE UNCHANGED <<runs, job>> /\ pc'[p] \in Handling
    <3>1. RowsQuiet /\ Adds({})
      BY <2>1, <2>3, QuietSame DEF Adds
    <3>2. OwnProc(p)'
      BY <2>1, <2>3, <3>1, GoesOnQuietly
    <3> QED
      BY <3>1, <3>2 DEF Quietly
  <2>4. (SetState(r, "failed") /\ Exit(p)) \/ (UNCHANGED <<runs, job>> /\ pc'[p] \in Handling)
    BY <1>2, GoesTo DEF KeepPlan, EnterPlanner, NoThreads, Handling
  <2> QED
    BY <2>2, <2>3, <2>4
<1>3. CASE CheckpointLook(p) \/ Checkpoint(p)
  <2>1. pc[p] \in Handling /\ Exists(r) /\ r \in RunIds
    <3>1. pc[p] \in Handling /\ Exists(r)
      BY <1>3 DEF CheckpointLook, Checkpoint, At, Handling
    <3> QED
      BY <3>1, HandFacts
  <2>2. CASE /\ runs' = [runs EXCEPT ![r].state = "aborted", ![r].acts["reply"] = "pending"]
             /\ Exit(p) /\ UNCHANGED posts
    <3>1. PICK row \in RunType :
            /\ row.live = runs[r].live /\ row.kind = runs[r].kind
            /\ row.retried = runs[r].retried /\ row.state = "aborted"
            /\ runs' = [runs EXCEPT ![r] = row]
      BY <2>1, <2>2, HandAborted
    <3>2. RowsQuiet
      BY <2>1, <3>1, QuietRow DEF Open
    <3> QED
      BY <2>2, <3>2, LeavesQuietly
  <2>3. ASSUME UNCHANGED runs \/ (\E st : SetAct(r, "reply", st)), UNCHANGED job,
               Goto(p, "reviewers") \/ Goto(p, "checkpoint"),
               UNCHANGED posts \/ Post("reply", r, job[p].scope, "none")
        PROVE  Quietly(p)
    <3>1. pc'[p] \in Handling
      BY <2>3, GoesTo DEF Handling
    <3>2. /\ RowsQuiet /\ runs'[r].kind = runs[r].kind /\ runs'[r].state = runs[r].state
          /\ runs'[r].retried = runs[r].retried
      BY <2>1, <2>3, QuietSame, QuietAct
    <3>3. "submit" \notin {"reply"} /\ Adds({"reply"})
      BY <2>3, PostAdded DEF Adds
    <3>4. OwnProc(p)'
      BY <2>1, <2>3, <3>1, <3>2, GoesOnQuietly
    <3> QED
      BY <3>2, <3>3, <3>4 DEF Quietly
  <2> QED
    BY <1>3, <2>2, <2>3 DEF CheckpointLook, Checkpoint
<1>4. ASSUME NEW e \in Events, Plan(p, e) PROVE Quietly(p)
  <2> DEFINE acts == [k \in ActKinds |->
                        IF k = "rollup" \/ (k = "submit" /\ e # "nothing")
                        THEN "pending" ELSE runs[r].acts[k]]
             row == [runs[r] EXCEPT !.event = e, !.acts = acts]
  <2>1. /\ pc[p] \in Handling /\ Exists(r) /\ pc'[p] \in Handling
        /\ UNCHANGED <<posts, job>> /\ runs' = [runs EXCEPT ![r] = row]
    BY <1>4, GoesTo DEF Plan, At, Handling
  <2> HIDE DEF acts
  <2>2. r \in RunIds /\ runs \in [RunIds -> RunType]
    BY <2>1, HandFacts DEF IInv, TypeOK
  <2>3. /\ row.kind = runs[r].kind /\ row.live = runs[r].live
        /\ row.state = runs[r].state /\ row.retried = runs[r].retried
    BY <2>2 DEF RunType
  <2> HIDE DEF row
  <2>4. runs'[r] = row
    BY <2>1, <2>2
  <2>5. RowsQuiet /\ Adds({})
    BY <2>1, <2>2, <2>3, QuietRow DEF Adds
  <2>6. OwnProc(p)'
    BY <2>1, <2>3, <2>4, <2>5, GoesOnQuietly
  <2> QED
    BY <2>5, <2>6 DEF Quietly
<1>5. CASE Premises(p)
  <2>1. pc[p] \in Handling /\ Exists(job[p].hand) /\ UNCHANGED posts
    BY <1>5 DEF Premises, At, Handling
  <2>2. CASE SetState(r, "aborted") /\ Exit(p)
    <3>1. RowsQuiet
      BY <2>1, <2>2, HandQuiet DEF Open
    <3> QED
      BY <2>1, <2>2, <3>1, LeavesQuietly
  <2>3. CASE /\ job' = [job EXCEPT ![p].todo = Acts(r, "pending")]
             /\ Goto(p, "post") /\ UNCHANGED runs
    <3>1. job'[p].hand = r /\ pc'[p] \in Handling
      BY <1>1, <2>3, GoesTo DEF JobType, Handling
    <3>2. RowsQuiet /\ Adds({})
      BY <2>1, <2>3, QuietSame DEF Adds
    <3>3. OwnProc(p)'
      BY <2>1, <2>3, <3>1, <3>2, GoesOnQuietly
    <3> QED
      BY <3>2, <3>3 DEF Quietly
  <2> QED
    BY <1>5, <2>2, <2>3 DEF Premises
<1>6. CASE PostStaleSHA(p) \/ Finish(p) \/ RunGone(p)
  <2>1. pc[p] \in Handling /\ UNCHANGED posts /\ Exit(p)
    BY <1>6 DEF PostStaleSHA, NextAct, Finish, RunGone, At, Handling
  <2>2. RowsQuiet
    <3>1. CASE PostStaleSHA(p)
      BY <2>1, <3>1, HandQuiet DEF PostStaleSHA, Open
    <3>2. CASE Finish(p)
      BY <2>1, <3>2, HandQuiet DEF Finish
    <3>3. CASE RunGone(p)
      BY <3>3, QuietSame DEF RunGone
    <3> QED
      BY <1>6, <3>1, <3>2, <3>3
  <2> QED
    BY <2>1, <2>2, LeavesQuietly
<1> QED
  BY <1>2, <1>3, <1>4, <1>5, <1>6 DEF Work

LEMMA FailQuiet ==
  ASSUME IInv, NEW p \in Procs, HandOpen(p), Step(p), Fail(p),
         ~ \E k \in ActKinds : PostThenCrash(p, k)
  PROVE  Quietly(p)
<1>1. CASE InsertFails(p)
  <2>1. RowsQuiet
    BY <1>1, HandQuiet DEF InsertFails, At, Handling, Open
  <2> QED
    BY <1>1, <2>1, LeavesQuietly DEF InsertFails
<1>2. CASE Crash(p)
  BY <1>2, QuietSame, LeavesQuietly DEF Crash
<1>3. ASSUME NEW st \in States, PlanFails(p, st) PROVE Quietly(p)
  <2>1. RowsQuiet
    BY <1>3, HandQuiet DEF PlanFails, Handling
  <2> QED
    BY <1>3, <2>1, LeavesQuietly DEF PlanFails
<1>4. ASSUME NEW k \in ActKinds, NEW st \in ActStates, PostFails(p, k, st)
      PROVE  Quietly(p)
  <2> DEFINE r == job[p].hand
  <2>1. job[p] \in JobType /\ job \in [Procs -> JobType]
    BY DEF IInv, TypeOK
  <2>2. /\ pc[p] \in Handling /\ UNCHANGED <<pc, posts>> /\ Exists(r)
        /\ job'[p].hand = r /\ SetAct(r, k, st)
    BY <1>4, <2>1 DEF PostFails, NextAct, At, Handling, JobType
  <2>3. r \in RunIds
    BY <2>2, HandFacts
  <2>4. /\ RowsQuiet /\ runs'[r].kind = runs[r].kind /\ runs'[r].state = runs[r].state
        /\ runs'[r].retried = runs[r].retried
    BY <2>2, <2>3, QuietAct
  <2>5. OwnProc(p)' /\ Adds({})
    BY <2>2, <2>4, GoesOnQuietly DEF Adds
  <2> QED
    BY <2>4, <2>5 DEF Quietly
<1> QED
  BY <1>1, <1>2, <1>3, <1>4 DEF Fail

(* What is posted for the run in hand, the verdict included. *)
LEMMA PostsOwn ==
  ASSUME IInv, OwnLedger, NEW p \in Procs, OwnProc(p), Step(p),
         NEW k \in ActKinds, PostAct(p, k) \/ PostThenCrash(p, k)
  PROVE  OwnLedger' /\ OwnProc(p)'
<1> DEFINE r == job[p].hand
           Posted == ~OnHost(r, k) /\ Post(k, r, job[p].scope, runs[r].event)
<1>1. job[p] \in JobType /\ job \in [Procs -> JobType] /\ RowsStep(p) /\ ProcInv(p)'
  BY DEF IInv, TypeOK, Step, Frame
<1>2. pc[p] \in Handling /\ Exists(r)
  BY DEF PostAct, PostThenCrash, NextAct, At, Handling
<1>3. /\ r \in RunIds /\ r < nextRun /\ runs[r].live /\ job[p].scope = runs[r].scope
      /\ r # NoRun
  BY <1>2, HandFacts DEF Allocated
<1>4. HandOpen(p) /\ Unfinished(r)
  BY <1>3 DEF OwnProc, HandOpen, Hand
<1>5. RowsQuiet /\ OwnProc(p)'
  <2>1. CASE PostAct(p, k)
    <3>1. /\ RowsQuiet /\ runs'[r].kind = runs[r].kind /\ runs'[r].state = runs[r].state
          /\ runs'[r].retried = runs[r].retried
      BY <1>3, <2>1, QuietAct DEF PostAct
    <3>2. job'[p].hand = r /\ pc' = pc
      BY <1>1, <2>1 DEF PostAct, JobType
    <3> QED
      BY <1>2, <1>4, <3>1, <3>2, GoesOnQuietly
  <2>2. CASE PostThenCrash(p, k)
    <3>1. RowsQuiet /\ pc'[p] = "idle"
      BY <2>2, QuietSame, Exits DEF PostThenCrash
    <3> QED
      BY <1>1, <3>1, NothingHeld, ChoiceOver DEF OwnProc, Handling
  <2> QED
    BY <2>1, <2>2
<1>6. UNCHANGED posts \/ Posted
  BY DEF PostAct, PostThenCrash
<1>7. k # "manual"
  BY DEF ActKinds
<1>8. CASE UNCHANGED posts
  <2>1. Adds({})
    BY <1>8 DEF Adds
  <2> QED
    BY <1>1, <1>5, <2>1, QuietLedger
<1>9. CASE Posted /\ k # "submit"
  <2>1. Adds({k})
    BY <1>7, <1>9, PostAdded DEF Adds
  <2> QED
    BY <1>1, <1>5, <1>9, <2>1, QuietLedger
<1>10. CASE Posted /\ k = "submit"
  <2>1. /\ Added("submit", r, runs[r].scope)
        /\ posts'[Len(posts) + 1].by = runs'[r].kind
    BY <1>3, <1>7, <1>10, PostAdded
  <2> QED
    BY <1>1, <1>2, <1>3, <1>4, <1>5, <1>10, <2>1, VerdictLedger
<1> QED
  BY <1>6, <1>8, <1>9, <1>10

(* What cr review decides to review afresh has no verdict but history. *)
LEMMA FreshIsNew ==
  ASSUME IInv, AloneInv, NEW p \in Procs, pc[p] = "decide", Decision(p) = "fresh"
  PROVE  History(job[p].scope)
<1> DEFINE s == job[p].scope
           last == Newest(Reviews(p))
<1> SUFFICES ASSUME NEW i \in 1..Len(posts), Unasked(i), posts[i].scope = s
             PROVE  Broken(i)
  BY DEF History
<1>1. /\ Len(posts) \in Nat /\ Submits(p, s) = SubmitsOnHost(s)
      /\ Reviews(p) \subseteq VerdictsUpTo(Len(posts))
  BY SeesSubmits
<1>2. i \in Submits(p, s)
  BY <1>1 DEF SubmitsOnHost, Unasked
<1>3. Demoted(p, s)
  BY <1>2, DecisionOf
<1>4. last \in Reviews(p) /\ \A j \in Submits(p, s) : j < last
  BY <1>2, <1>3, DemotedBy
<1> HIDE DEF last
<1>5. last \in 1..Len(posts) /\ posts[last].kind \in {"submit", "manual"} /\ i < last
  BY <1>1, <1>2, <1>4 DEF VerdictsUpTo
<1>6. posts[last].kind = "submit" => posts[last].scope # s
  BY <1>1, <1>4, <1>5 DEF SubmitsOnHost
<1> QED
  BY <1>1, <1>5, <1>6 DEF Broken

LEMMA FreshOwn ==
  ASSUME IInv, AloneInv, OwnLedger, NEW p \in Procs, OwnProc(p), Step(p), DecideFresh(p)
  PROVE  OwnLedger' /\ OwnProc(p)'
<1>1. /\ ProcInv(p)' /\ RowsStep(p) /\ UNCHANGED posts /\ pc[p] = "decide"
      /\ job[p] \in JobType /\ job \in [Procs -> JobType]
  BY DEF Step, Frame, DecideFresh, At, IInv, TypeOK
<1>2. CASE Exit(p) /\ UNCHANGED runs
  <2>1. RowsQuiet /\ Adds({})
    BY <1>1, <1>2, QuietSame DEF Adds
  <2>2. OwnProc(p)'
    BY <1>1, <1>2, Exits, NothingHeld, ChoiceOver DEF OwnProc, Handling
  <2> QED
    BY <1>1, <2>1, <2>2, QuietLedger
<1>3. CASE AllocateFresh(p, "review")
  <2> DEFINE row == Row(job[p].scope, TRUE, "review", "running", NoActs, "comment")
  <2>1. row.scope = job[p].scope /\ row.state \in Open
    BY DEF Row, Open
  <2>2. NewRun(row) /\ pc'[p] = "chosen" /\ job'[p].hand = nextRun
    BY <1>1, <1>3, GoesTo DEF AllocateFresh, JobType
  <2> HIDE DEF row
  <2>3. /\ nextRun \in RunIds /\ runs \in [RunIds -> RunType]
        /\ runs' = [runs EXCEPT ![nextRun] = row]
    BY <2>2, GateAssumption DEF NewRun, IInv, TypeOK, RunIds
  <2>4. /\ runs'[nextRun] = row
        /\ \A q \in RunIds \ {nextRun} : runs'[q] = runs[q]
    BY <2>3
  <2>5. ASSUME NEW i \in 1..Len(posts), posts[i].kind = "submit"
        PROVE  posts[i].run # nextRun
    BY <2>3, <2>5 DEF IInv, PostInv, ActKinds, Allocated, RunIds
  <2>6. \A q \in RunIds : OpenOwn(q) => runs[q].scope # job[p].scope
    BY <1>1 DEF OwnProc, NoneOpen
  <2>7. History(job[p].scope)
    BY <1>1, FreshIsNew DEF DecideFresh
  <2>8. OwnLedger'
    <3>1. PICK r, s : r = nextRun /\ s = job[p].scope
      OBVIOUS
    <3> QED
      BY <1>1, <2>1, <2>3, <2>4, <2>5, <2>6, <2>7, <3>1, OpenedLedger
  <2>9. HandOpen(p)' /\ NoneOpen(p)'
    BY <2>1, <2>2, <2>4, HandOn, ChoiceOver
  <2> QED
    BY <2>8, <2>9 DEF OwnProc
<1> QED
  BY <1>2, <1>3 DEF DecideFresh

LEMMA RepairOwn ==
  ASSUME IInv, AloneInv, OwnLedger, NEW p \in Procs, OwnProc(p), Step(p),
         NEW i \in 1..Len(posts), DecideRepair(p, i)
  PROVE  OwnLedger' /\ OwnProc(p)'
<1>0. PICK r, s : r = posts[i].run /\ s = job[p].scope
  OBVIOUS
<1>1. /\ ProcInv(p)' /\ RowsStep(p) /\ UNCHANGED posts /\ pc[p] = "decide"
      /\ job[p] \in JobType /\ job \in [Procs -> JobType]
  BY DEF Step, Frame, DecideRepair, At, IInv, TypeOK
<1>2. CASE Exit(p) /\ UNCHANGED runs
  <2>1. RowsQuiet /\ Adds({})
    BY <1>1, <1>2, QuietSame DEF Adds
  <2>2. OwnProc(p)'
    BY <1>1, <1>2, Exits, NothingHeld, ChoiceOver DEF OwnProc, Handling
  <2> QED
    BY <1>1, <2>1, <2>2, QuietLedger
<1>3. CASE ~(Exit(p) /\ UNCHANGED runs)
  <2> DEFINE row == Row(s, TRUE, "repair", "running", NoActs, posts[i].event)
  <2>1. row.scope = s /\ row.state \in Open
    BY DEF Row, Open
  <2>2. /\ runs' = [runs EXCEPT ![r] = row] /\ Goto(p, "insert")
        /\ job' = [job EXCEPT ![p].hand = r, ![p].stale = {}, ![p].open = {}]
    BY <1>0, <1>3 DEF DecideRepair
  <2> HIDE DEF row
  <2>3. pc'[p] = "insert" /\ job'[p].hand = r
    BY <1>1, <2>2, GoesTo DEF JobType
  <2>4. r \in RunIds /\ runs[r].scope = s
    <3>1. posts[i].kind = "rollup" /\ posts[i].scope = s
      BY <1>0 DEF DecideRepair, Rollups
    <3> QED
      BY <1>0, <3>1 DEF IInv, PostInv, ActKinds, Allocated
  <2>5. runs'[r] = row /\ \A q \in RunIds \ {r} : runs'[q] = runs[q]
    BY <2>2, <2>4 DEF IInv, TypeOK
  <2>6. SubmitsOnHost(s) = {}
    BY <1>0, <1>1, SeesSubmits, DecisionOf DEF DecideRepair
  <2>7. ASSUME NEW j \in 1..Len(posts), posts[j].kind = "submit" PROVE posts[j].run # r
    <3>1. posts[j].scope # s
      BY <2>6, <2>7 DEF SubmitsOnHost
    <3> QED
      BY <2>4, <2>7, <3>1 DEF IInv, PostInv, ActKinds
  <2>8. \A q \in RunIds : OpenOwn(q) => runs[q].scope # s
    BY <1>0, <1>1 DEF OwnProc, NoneOpen
  <2>9. History(s)
    BY <2>6 DEF History, Unasked, SubmitsOnHost
  <2>10. OwnLedger'
    BY <1>1, <2>1, <2>4, <2>5, <2>7, <2>8, <2>9, OpenedLedger
  <2>11. HandOpen(p)' /\ NoneOpen(p)'
    BY <2>1, <2>3, <2>5, HandOn, ChoiceOver
  <2> QED
    BY <2>10, <2>11 DEF OwnProc
<1> QED
  BY <1>2, <1>3

(* Comments, rows of others and pruned rows. *)
LEMMA EnvironmentOwn ==
  ASSUME IInv, OwnInv, Environment
  PROVE  OwnInv'
<1>1. Frame(None) /\ UNCHANGED <<pc, job>>
  BY EnvironmentAdds, MoveStep, AskStep, ManualReviewStep, DryRunStep, RespondStep, PruneStep
     DEF Environment
<1>2. RowsQuiet
  <2>1. CASE Ask \/ ManualReview \/ \E s \in Scopes : Move(s)
    BY <2>1, QuietSame DEF Ask, ManualReview, Move
  <2>2. CASE DryRun
    <3> DEFINE row == Row(pr, FALSE, "review", "dry_run", NoActs, "comment")
    <3>1. NewRun(row) /\ ~row.live
      BY <2>2 DEF DryRun, Row
    <3> HIDE DEF row
    <3> QED
      BY <3>1, QuietNew
  <2>3. ASSUME NEW st \in Responses, Respond(st) PROVE RowsQuiet
    <3>1. PICK row : NewRun(row) /\ row.kind = "response"
      BY <2>3 DEF Respond, Row
    <3> QED
      BY <3>1, QuietNew DEF Own
  <2>4. ASSUME NEW r \in RunIds, Prune(r) PROVE RowsQuiet
    BY <2>4, QuietState DEF Prune, Open
  <2> QED
    BY <2>1, <2>2, <2>3, <2>4 DEF Environment
<1>3. RowsStep(None) /\ Adds({"ask", "manual", "reply"})
  BY <1>1, EnvironmentAdds DEF Frame
<1>4. OwnLedger'
  BY <1>2, <1>3, QuietLedger DEF OwnInv
<1>5. ASSUME NEW p \in Procs PROVE OwnProc(p)'
  <2>1. OwnProc(p) /\ pc'[p] = pc[p] /\ job'[p] = job[p]
    BY <1>1 DEF OwnInv
  <2>2. NoneOpen(p)'
    BY <1>2, <1>3, <2>1, StillNoneOpen, ChoiceOver DEF OwnProc
  <2>3. HandOpen(p)'
    <3>1. CASE pc[p] \notin Handling
      BY <2>1, <3>1, NoHand DEF HandOpen, Hand
    <3>2. CASE pc[p] \in Handling
      <4>1. /\ job[p].hand \in RunIds /\ job[p].hand < nextRun
            /\ lock[runs[job[p].hand].scope] # None
        BY <3>2, HandFacts, GateAssumption DEF Allocated
      <4>2. runs'[job[p].hand] = runs[job[p].hand] \/ runs'[job[p].hand].state = "absent"
        BY <1>3, <4>1 DEF RowsStep
      <4> QED
        BY <2>1, <4>2 DEF OwnProc, HandOpen, Hand, Unfinished, Owns, Exists
    <3> QED
      BY <3>1, <3>2
  <2> QED
    BY <2>2, <2>3 DEF OwnProc
<1> QED
  BY <1>4, <1>5 DEF OwnInv

LEMMA OwnStep ==
  ASSUME Overlap = FALSE, IInv, AloneInv, OwnInv, Next PROVE OwnInv'
<1>1. ASSUME NEW p \in Procs, Step(p), OwnLedger', OwnProc(p)',
             \A q \in Procs \ {p} : pc[q] = "idle"
      PROVE  OwnInv'
  <2>1. ASSUME NEW q \in Procs, q # p PROVE OwnProc(q)'
    <3>1. pc'[q] = "idle" /\ job'[q] = job[q] /\ Hand(q) = NoRun
      BY <1>1, <2>1, NoHand DEF Step, Frame, Others, Hand, Handling
    <3> QED
      BY <3>1, ChoiceOver DEF OwnProc, HandOpen, Hand
  <2> QED
    BY <1>1, <2>1 DEF OwnInv
<1>2. ASSUME NEW p \in Procs, Gate(p) \/ Work(p) \/ Fail(p) PROVE OwnInv'
  <2>1. Step(p) /\ RowsStep(p) /\ ProcInv(p)' /\ OwnLedger /\ OwnProc(p) /\ HandOpen(p)
    BY <1>2, ProcessStep DEF Step, Frame, OwnInv, OwnProc
  <2>2. \A q \in Procs \ {p} : pc[q] = "idle"
    BY <1>2, NotIdle DEF AloneInv, Alone
  <2>3. CASE Quietly(p)
    <3>1. OwnLedger' /\ OwnProc(p)'
      BY <2>1, <2>3, QuietLedger DEF Quietly
    <3> QED
      BY <1>1, <2>1, <2>2, <3>1
  <2>4. CASE RowsQuiet /\ OwnProc(p)' /\ Gate(p)
    <3>1. Adds({})
      BY <2>4, GateAdds DEF Adds
    <3>2. OwnLedger'
      BY <2>1, <2>4, <3>1, QuietLedger
    <3> QED
      BY <1>1, <2>1, <2>2, <2>4, <3>2
  <2>5. CASE OwnLedger' /\ OwnProc(p)'
    BY <1>1, <2>1, <2>2, <2>5
  <2>6. ASSUME NEW k \in ActKinds, PostAct(p, k) \/ PostThenCrash(p, k)
        PROVE  OwnLedger' /\ OwnProc(p)'
    BY <2>1, <2>6, PostsOwn
  <2>7. CASE Gate(p)
    BY <2>1, <2>4, <2>5, <2>7, GateQuiet, FreshOwn, RepairOwn
  <2>8. CASE Work(p)
    BY <2>1, <2>3, <2>5, <2>6, <2>8, WorkQuiet
  <2>9. CASE Fail(p)
    BY <2>1, <2>3, <2>5, <2>6, <2>9, FailQuiet
  <2> QED
    BY <1>2, <2>7, <2>8, <2>9
<1>3. ASSUME NEW p \in Procs, NEW c \in Commands, Start(p, c) PROVE OwnInv'
  <2>1. Step(p) /\ RowsStep(p) /\ ProcInv(p)'
    BY <1>3, ProcessStep DEF Step, Frame
  <2>2. /\ \A q \in Procs : pc[q] = "idle"
        /\ pc'[p] \in {"precheck", "lock"} /\ UNCHANGED <<runs, posts>>
    BY <1>3, GoesTo DEF Start, At
  <2>3. RowsQuiet /\ Adds({})
    BY <2>2, QuietSame DEF Adds
  <2>4. OwnLedger'
    BY <2>1, <2>3, QuietLedger DEF OwnInv
  <2>5. OwnProc(p)'
    BY <2>1, <2>2, NothingHeld, ChoiceOver DEF OwnProc, Handling
  <2> QED
    BY <1>1, <2>1, <2>2, <2>4, <2>5
<1> QED
  BY <1>2, <1>3, EnvironmentOwn DEF Next

(* Of what cr review posts unasked, a scope gets one verdict: no step of    *)
(* another kind of run, no crash and no pruned row makes it review again    *)
(* what is reviewed (gate.decideLocal, decidePR; outbox's marker check).    *)
THEOREM OwnRunsPostOnce ==
  ASSUME Overlap = FALSE PROVE Spec => []OwnRunsReviewOnce
<1>1. Init => OwnInv
  <2> SUFFICES ASSUME Init PROVE OwnInv
    OBVIOUS
  <2>1. \A r \in RunIds : ~OpenOwn(r)
    BY DEF Init, OpenOwn, Resumable
  <2>2. posts = <<>> /\ 1..Len(posts) = {}
    BY DEF Init
  <2>3. OwnLedger
    BY <2>1, <2>2 DEF OwnLedger, OneOpen, OpenIsNew, ByKind, OwnRunsReviewOnce
  <2>4. \A p \in Procs : OwnProc(p)
    BY <2>1 DEF Init, OwnProc, NoneOpen, HandOpen, Hand, IdleJob
  <2> QED
    BY <2>3, <2>4 DEF OwnInv
<1>2. IInv /\ AloneInv /\ OwnInv /\ [Next]_vars => OwnInv'
  <2> SUFFICES ASSUME IInv, AloneInv, OwnInv, UNCHANGED vars PROVE OwnInv'
    BY OwnStep
  <2> QED
    BY DEF vars, OwnInv, OwnLedger, OneOpen, OpenIsNew, ByKind, OwnRunsReviewOnce, OwnProc,
       NoneOpen, HandOpen, Hand, Unfinished, OpenOwn, Owns, Resumable, Exists, History,
       Unasked, Broken, OnHost, Repeats
<1>3. OwnInv => OwnRunsReviewOnce
  BY DEF OwnInv, OwnLedger
<1> QED
  BY <1>1, <1>2, <1>3, Invariance, OneAtATime, PTL DEF Spec

=============================================================================
