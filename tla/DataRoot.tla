------------------------------ MODULE DataRoot ------------------------------
(***************************************************************************)
(* Several cr processes on one data root.  A live review, a dry run and a  *)
(* response run each own a row of the ledger and an artifact directory; a  *)
(* retention pass (the one before each review, or `cr data prune`) deletes *)
(* rows and then directories, and sweeps directories without a row; `cr    *)
(* data purge` removes the whole root.  One advisory lock file orders      *)
(* them: the runs take it shared, and go on without it when they cannot;   *)
(* retention and purge take it exclusively, and give up when they cannot.  *)
(*                                                                         *)
(* A lock belongs to the file that was opened, not to its path: once the   *)
(* purge has removed the file, the next process locks another one.  So it  *)
(* is with the database.                                                   *)
(***************************************************************************)
EXTENDS Naturals, FiniteSets

CONSTANTS
  Live, Dry, Respond,   \* processes: cr review, cr review --dry-run, cr respond
  Pruners, Purgers,     \* processes: cr data prune, cr data purge --yes
  Selectors,            \* the selections cr data prune is called with
  LiveRetention, DryRunRetention, OrphanGrace,
  MaxRuns,              \* bound: run IDs of one behaviour
  MaxTime,              \* bound: of the clock
  MaxStarts,            \* bound: invocations
  MaxFiles              \* bound: generations of lock file and database

None == 0   \* no run, no file, no directory

Reviewers == Live \cup Dry
Runners   == Reviewers \cup Respond
Processes == Runners \cup Pruners \cup Purgers
Runs      == 1..MaxRuns
Files     == 1..MaxFiles

ASSUME DataRootAssumption ==
  /\ {LiveRetention, DryRunRetention} \subseteq Nat /\ OrphanGrace \in Nat \ {0}
  /\ {MaxRuns, MaxTime, MaxStarts, MaxFiles} \subseteq Nat \ {0} /\ MaxFiles > 1
  /\ \A s \in Selectors : s.by \in {"retention", "age", "last"} /\ s.bound \in Nat
                           /\ (s.by = "age" => s.bound # 0)
  /\ Live \cap (Dry \cup Respond \cup Pruners \cup Purgers) = {}
  /\ Dry \cap (Respond \cup Pruners \cup Purgers) = {}
  /\ Respond \cap (Pruners \cup Purgers) = {} /\ Pruners \cap Purgers = {}

VARIABLES
  now,
  fresh,         \* run IDs handed out
  starts,        \* invocations so far
  lockfile,      \* the file at locks/active-runs.lock
  database,      \* the file at ledger.db
  rows,          \* of each database file, its table runs
  dirs,          \* of each run, 1 + the time its directory was last changed, or None
  files,         \* files created so far
  pc,
  handle,        \* of each process, the database it has opened
  fd, held,      \* of each process, the lock file it has opened, and how it holds it
  run, owner,    \* of each runner, the run in hand; whether it has its row
  secured,       \* whether it has got the lock for it (a history variable)
  marked,        \* the runs whose directory carries its marker
  todo,          \* the runs a retention pass has selected, then the orphans it found
  listed,        \* the runs a retention pass has reloaded
  doomed         \* the run whose row it has just deleted

tree == <<lockfile, database, dirs, marked, files>>
pass == <<todo, listed, doomed>>
hand == <<run, owner, secured>>
vars == <<now, fresh, starts, tree, rows, pc, handle, fd, held, hand, pass>>

Labels == {"idle", "openLock", "flock", "list", "delete", "remove", "reload", "walk",
           "sweep", "gate", "share", "flockShared", "find", "setUp", "allocate", "mark",
           "work", "post", "purge"}

Row == [run : Runs, kind : {"live", "dry", "respond"}, started : 0..MaxTime, open : BOOLEAN]

TypeOK ==
  /\ now \in 0..MaxTime /\ fresh \in 0..MaxRuns /\ starts \in 0..MaxStarts
  /\ lockfile \in Files \cup {None} /\ database \in Files \cup {None}
  /\ rows \in [Files -> SUBSET Row]
  /\ dirs \in [Runs -> 0..(MaxTime + 1)] /\ files \in Files
  /\ pc \in [Processes -> Labels]
  /\ handle \in [Processes -> Files \cup {None}]
  /\ fd \in [Processes -> Files \cup {None}]
  /\ held \in [Processes -> {"no", "shared", "exclusive"}]
  /\ run \in [Processes -> Runs \cup {None}]
  /\ owner \in [Processes -> BOOLEAN] /\ secured \in [Processes -> BOOLEAN]
  /\ marked \subseteq Runs
  /\ todo \in [Processes -> SUBSET Runs] /\ listed \in [Processes -> SUBSET Runs]
  /\ doomed \in [Processes -> Runs \cup {None}]

-----------------------------------------------------------------------------
(* The tables and the tree. *)

Kind(p) == IF p \in Live THEN "live" ELSE IF p \in Dry THEN "dry" ELSE "respond"

Retention == [by |-> "retention", bound |-> 0]

\* emptyLifecycleStore: without a database there are no rows.
Table(p) == IF handle[p] = None THEN {} ELSE rows[handle[p]]

RunsOf(table) == {row.run : row \in table}
HasRow(p, r)  == r \in RunsOf(Table(p))

Change(p, table) == rows' = [rows EXCEPT ![handle[p]] = table]
Touch(r)         == dirs' = [dirs EXCEPT ![r] = now + 1]
RemoveTree(r)    == dirs' = [dirs EXCEPT ![r] = None] /\ marked' = marked \ {r}
Spare            == UNCHANGED <<dirs, marked>>

Step(p, label) == pc' = [pc EXCEPT ![p] = label]
Goto(p, label) ==
  /\ Step(p, label)
  /\ handle' = [handle EXCEPT ![p] = IF label = "idle" THEN None ELSE @]

PostMode(row) == IF row.kind = "dry" THEN "dry" ELSE "live"

\* selectRuns: strictly older than the bound.
Older(row, age) == row.started + age < now

\* selectKeepLast: newest first, the run ID breaking ties, counted per post mode.
Newer(a, b) == a.started > b.started \/ (a.started = b.started /\ a.run < b.run)
AtLeastNewer(table, row, keep) ==
  Cardinality({b \in table : PostMode(b) = PostMode(row) /\ Newer(b, row)}) >= keep

Selected(table, s) ==
  {row \in table :
     CASE s.by = "age"  -> Older(row, s.bound)
       [] s.by = "last" -> AtLeastNewer(table, row, s.bound)
       [] OTHER         -> Older(row, IF PostMode(row) = "dry" THEN DryRunRetention
                                                               ELSE LiveRetention)}

\* The sweep without the grace.
OrphanAtOnce(r, referenced) == dirs[r] # None /\ r \notin referenced

\* orphanItems: no row names it, and it is not younger than the grace.
Orphan(r, referenced) ==
  dirs[r] # None /\ r \notin referenced /\ dirs[r] + OrphanGrace <= now + 1

-----------------------------------------------------------------------------
(* runlock: open (and create) the file, then try to lock what was opened.  *)

OpenLock(p, from, to) ==
  /\ pc[p] = from
  /\ Goto(p, to)
  /\ IF lockfile = None
       THEN /\ files < MaxFiles
            /\ files' = files + 1 /\ lockfile' = files + 1
            /\ fd' = [fd EXCEPT ![p] = files + 1]
       ELSE fd' = [fd EXCEPT ![p] = lockfile] /\ UNCHANGED <<files, lockfile>>
  /\ UNCHANGED <<now, fresh, starts, database, dirs, marked, rows, held, hand, pass>>

Holders(file, how) == {q \in Processes : fd[q] = file /\ held[q] = how}

SharedFree(p) == Holders(fd[p], "exclusive") = {}

\* An exclusive lock that does not mind the runs.
ExclusiveAmongPrunes(p) == SharedFree(p)

ExclusiveFree(p) == SharedFree(p) /\ Holders(fd[p], "shared") = {}

Hold(p, how) == held' = [held EXCEPT ![p] = how] /\ UNCHANGED fd
Unlock(p)    == held' = [held EXCEPT ![p] = "no"] /\ fd' = [fd EXCEPT ![p] = None]

-----------------------------------------------------------------------------
(* A process starts: a review or a response run opens the ledger, and      *)
(* creates it; a command takes it as it finds it.                          *)

\* What follows a retention pass, or its being skipped.
AfterPrune(p) ==
  CASE p \in Live -> "gate" [] p \in Dry -> "share" [] OTHER -> "idle"

\* data.retention.enforcement is at_write, or manual_only.
FirstSteps(p) ==
  CASE p \in Respond   -> {"share"}
    [] p \in Reviewers -> {"openLock", AfterPrune(p)}
    [] OTHER           -> {"openLock"}

\* acquireDataLock: without a data root a command has nothing to do.
Rooted == {lockfile, database} \cup {dirs[r] : r \in Runs} # {None}

Begin == starts < MaxStarts /\ starts' = starts + 1

Start(p) ==
  /\ pc[p] = "idle" /\ p \notin Purgers /\ Begin
  /\ IF p \in Runners /\ database = None
       THEN /\ files < MaxFiles
            /\ files' = files + 1 /\ database' = files + 1
            /\ handle' = [handle EXCEPT ![p] = files + 1]
       ELSE handle' = [handle EXCEPT ![p] = database] /\ UNCHANGED <<files, database>>
  /\ \E label \in FirstSteps(p) : Step(p, label)
  /\ p \in Runners \/ Rooted
  /\ UNCHANGED <<now, fresh, lockfile, dirs, marked, rows, fd, held, hand, todo, listed, doomed>>

OpenExclusive(p) == p \notin Respond /\ OpenLock(p, "openLock", "flock")

\* PruneGuarded skips when the lock is held; cr data prune and purge refuse.
FlockExclusive(p) ==
  /\ pc[p] = "flock"
  /\ IF ExclusiveFree(p)
       THEN Hold(p, "exclusive") /\ Goto(p, IF p \in Purgers THEN "purge" ELSE "list")
       ELSE Unlock(p) /\ Goto(p, AfterPrune(p))
  /\ UNCHANGED <<now, fresh, starts, tree, rows, hand, pass>>

-----------------------------------------------------------------------------
(* Prune. *)

ListRuns(p) ==
  /\ pc[p] = "list"
  /\ \E s \in (IF p \in Pruners THEN Selectors ELSE {Retention}) :
       todo' = [todo EXCEPT ![p] = RunsOf(Selected(Table(p), s))]
  /\ Goto(p, "delete")
  /\ UNCHANGED <<now, fresh, starts, tree, rows, fd, held, hand, listed, doomed>>

\* The row goes first.  A row that is not there any more ends the pass, and the command
\* or the review with it.
DeleteRun(p) ==
  /\ pc[p] = "delete"
  /\ \E r \in todo[p] :
       IF HasRow(p, r)
         THEN /\ Change(p, {row \in Table(p) : row.run # r})
              /\ todo' = [todo EXCEPT ![p] = @ \ {r}]
              /\ doomed' = [doomed EXCEPT ![p] = r]
              /\ Goto(p, "remove") /\ UNCHANGED <<fd, held>>
         ELSE /\ todo' = [todo EXCEPT ![p] = {}]
              /\ Unlock(p) /\ Goto(p, "idle") /\ UNCHANGED <<rows, doomed>>
  /\ UNCHANGED <<now, fresh, starts, tree, hand, listed>>

\* Its directory follows; a failure is a warning, and leaves the directory behind.
RemoveArtifacts(p) ==
  /\ pc[p] = "remove"
  /\ RemoveTree(doomed[p]) \/ Spare
  /\ doomed' = [doomed EXCEPT ![p] = None]
  /\ Goto(p, "delete")
  /\ UNCHANGED <<now, fresh, starts, lockfile, database, files, rows, fd, held, hand,
                 todo, listed>>

Reload(p) ==
  /\ pc[p] = "delete" /\ todo[p] = {}
  /\ listed' = [listed EXCEPT ![p] = RunsOf(Table(p))]
  /\ Goto(p, "walk")
  /\ UNCHANGED <<now, fresh, starts, tree, rows, fd, held, hand, todo, doomed>>

Walk(p) ==
  /\ pc[p] = "walk"
  /\ todo' = [todo EXCEPT ![p] = {r \in Runs : Orphan(r, listed[p])}]
  /\ listed' = [listed EXCEPT ![p] = {}]
  /\ Goto(p, "sweep")
  /\ UNCHANGED <<now, fresh, starts, tree, rows, fd, held, hand, doomed>>

Sweep(p) ==
  /\ pc[p] = "sweep"
  /\ \E r \in todo[p] :
       /\ todo' = [todo EXCEPT ![p] = @ \ {r}]
       /\ RemoveTree(r) \/ Spare
  /\ UNCHANGED <<now, fresh, starts, lockfile, database, files, rows, pc, handle, fd, held, hand,
                 listed, doomed>>

EndPrune(p) ==
  /\ pc[p] = "sweep" /\ todo[p] = {}
  /\ Unlock(p) /\ Goto(p, AfterPrune(p))
  /\ UNCHANGED <<now, fresh, starts, tree, rows, hand, pass>>

-----------------------------------------------------------------------------
(* Runs. *)

OpenShared(p) == p \in Runners /\ OpenLock(p, "share", "flockShared")

\* The run goes on without the lock when a prune holds it.
FlockShared(p) ==
  /\ pc[p] = "flockShared"
  /\ IF SharedFree(p)
       THEN Hold(p, "shared") /\ secured' = [secured EXCEPT ![p] = TRUE]
       ELSE Unlock(p) /\ UNCHANGED secured
  /\ Goto(p, IF p \in Live THEN "setUp" ELSE "find")
  /\ UNCHANGED <<now, fresh, starts, tree, rows, run, owner, pass>>

NewRow(p, r) == [run |-> r, kind |-> Kind(p), started |-> now, open |-> TRUE]

Take(p, r, has) == run' = [run EXCEPT ![p] = r] /\ owner' = [owner EXCEPT ![p] = has]

\* The lock on the pull request keeps a live review and a response run apart from others
\* of their kind; a dry run has none.
Free(p, r) == p \in Dry \/ \A q \in Runners : run[q] # r

Resumable(p) ==
  {row.run : row \in {row \in Table(p) : row.open /\ row.kind = Kind(p) /\ Free(p, row.run)}}

\* The gate resumes a run of this head, or allocates one; both before the lock is asked for.
Gate(p) ==
  /\ p \in Live /\ pc[p] = "gate"
  /\ \/ \E r \in Resumable(p) : Take(p, r, TRUE) /\ UNCHANGED <<fresh, rows>>
     \/ /\ fresh < MaxRuns /\ fresh' = fresh + 1
        /\ Take(p, fresh + 1, TRUE)
        /\ Change(p, Table(p) \cup {NewRow(p, fresh + 1)})
  /\ Goto(p, "share")
  /\ UNCHANGED <<now, starts, tree, fd, held, secured, pass>>

\* A dry run and a response run look for a run to resume under the lock, by its marker;
\* --rerun does not look.
Find(p) ==
  /\ pc[p] = "find"
  /\ \/ \E r \in Resumable(p) \cap marked :
          /\ Take(p, r, TRUE) /\ UNCHANGED fresh
          /\ Goto(p, IF p \in Dry THEN "setUp" ELSE "work")
     \/ /\ fresh < MaxRuns /\ fresh' = fresh + 1
        /\ Take(p, fresh + 1, FALSE)
        /\ Goto(p, IF p \in Dry THEN "setUp" ELSE "allocate")
  /\ UNCHANGED <<now, starts, tree, rows, fd, held, secured, pass>>

\* The directories of a fresh dry run are there before its row.
SetUp(p) ==
  /\ pc[p] = "setUp"
  /\ IF dirs[run[p]] = None THEN Touch(run[p]) ELSE UNCHANGED dirs
  /\ Goto(p, IF owner[p] THEN "work" ELSE "allocate")
  /\ UNCHANGED <<now, fresh, starts, lockfile, database, marked, files, rows, fd, held,
                 hand, pass>>

AllocateRun(p) ==
  /\ pc[p] = "allocate"
  /\ Change(p, Table(p) \cup {NewRow(p, run[p])})
  /\ owner' = [owner EXCEPT ![p] = TRUE]
  /\ Goto(p, "mark")
  /\ UNCHANGED <<now, fresh, starts, tree, fd, held, run, secured, pass>>

WriteMarker(p) ==
  /\ pc[p] = "mark"
  /\ Touch(run[p]) /\ marked' = marked \cup {run[p]}
  /\ Goto(p, "work")
  /\ UNCHANGED <<now, fresh, starts, lockfile, database, files, rows, fd, held, hand, pass>>

\* CompleteRun, where the row is still there, or an end that leaves the run to be resumed.
Settle(p) ==
  \/ UNCHANGED rows
  \/ /\ HasRow(p, run[p])
     /\ Change(p, {[row EXCEPT !.open = @ /\ row.run # run[p]] : row \in Table(p)})

LetGo(p) ==
  /\ run' = [run EXCEPT ![p] = None] /\ owner' = [owner EXCEPT ![p] = FALSE]
  /\ secured' = [secured EXCEPT ![p] = FALSE]

\* Planning.  A directory that is gone comes back with the next file written, without its
\* marker.  The lock goes when the plan is made: a live review posts without it.
Work(p) ==
  /\ pc[p] = "work"
  /\ dirs' = IF dirs[run[p]] = None THEN [dirs EXCEPT ![run[p]] = now + 1] ELSE dirs
  /\ \/ /\ p \notin Dry /\ Goto(p, "post")
        /\ IF p \in Live THEN Unlock(p) ELSE UNCHANGED <<fd, held>>
        /\ UNCHANGED <<rows, hand>>
     \/ Settle(p) /\ Unlock(p) /\ LetGo(p) /\ Goto(p, "idle")
  /\ UNCHANGED <<now, fresh, starts, lockfile, database, marked, files, pass>>

\* The outbox, whose progress is the subject of Outbox.
Post(p) ==
  /\ pc[p] = "post"
  /\ Settle(p) /\ Unlock(p) /\ LetGo(p) /\ Goto(p, "idle")
  /\ UNCHANGED <<now, fresh, starts, tree, pass>>

-----------------------------------------------------------------------------
(* Purge: without the ledger, part by part, the lock file among them.  An  *)
(* error ends it early.                                                    *)

StartPurge(p) ==
  /\ pc[p] = "idle" /\ p \in Purgers /\ Begin
  /\ Rooted
  /\ Goto(p, "openLock")
  /\ UNCHANGED <<now, fresh, tree, rows, fd, held, hand, pass>>

PurgePart(p) ==
  /\ pc[p] = "purge"
  /\ \/ lockfile # None /\ lockfile' = None /\ UNCHANGED <<database, dirs, marked>>
     \/ database # None /\ database' = None /\ UNCHANGED <<lockfile, dirs, marked>>
     \/ \E r \in Runs : /\ dirs[r] # None /\ RemoveTree(r)
                       /\ UNCHANGED <<lockfile, database>>
  /\ UNCHANGED <<now, fresh, starts, files, rows, pc, handle, fd, held, hand, pass>>

EndPurge(p) ==
  /\ pc[p] = "purge"
  /\ Unlock(p) /\ Goto(p, "idle")
  /\ UNCHANGED <<now, fresh, starts, tree, rows, hand, pass>>

-----------------------------------------------------------------------------
\* The kernel releases what a dead process held.
Crash(p) ==
  /\ pc[p] # "idle"
  /\ Goto(p, "idle") /\ Unlock(p) /\ LetGo(p)
  /\ todo' = [todo EXCEPT ![p] = {}] /\ listed' = [listed EXCEPT ![p] = {}]
  /\ doomed' = [doomed EXCEPT ![p] = None]
  /\ UNCHANGED <<now, fresh, starts, tree, rows>>

\* Assumed: a directory is younger than the grace until its run has a row, and a sweep
\* walks the tree within the grace after it has read the ledger.
SetUpWithinGrace ==
  /\ \A p \in Dry : pc[p] = "allocate" /\ dirs[run[p]] # None
                    => now + 1 < dirs[run[p]] + OrphanGrace - 1
  /\ \A p \in Processes : pc[p] # "walk"

Tick ==
  /\ now < MaxTime /\ SetUpWithinGrace
  /\ now' = now + 1
  /\ UNCHANGED <<fresh, starts, tree, rows, pc, handle, fd, held, hand, pass>>

Init ==
  /\ now = 0 /\ fresh = 0 /\ starts = 0
  /\ lockfile = 1 /\ database = 2 /\ files = 2
  /\ rows = [f \in Files |-> {}]
  /\ dirs = [r \in Runs |-> None] /\ marked = {}
  /\ pc = [p \in Processes |-> "idle"]
  /\ handle = [p \in Processes |-> None] /\ fd = [p \in Processes |-> None]
  /\ held = [p \in Processes |-> "no"]
  /\ run = [p \in Processes |-> None] /\ owner = [p \in Processes |-> FALSE]
  /\ secured = [p \in Processes |-> FALSE]
  /\ todo = [p \in Processes |-> {}] /\ listed = [p \in Processes |-> {}]
  /\ doomed = [p \in Processes |-> None]

Prune(p) == ListRuns(p) \/ DeleteRun(p) \/ RemoveArtifacts(p) \/ Reload(p) \/ Walk(p)
            \/ Sweep(p) \/ EndPrune(p)

Next ==
  \/ Tick
  \/ \E p \in Processes :
       \/ Start(p) \/ OpenExclusive(p) \/ FlockExclusive(p) \/ Prune(p)
       \/ Gate(p) \/ OpenShared(p) \/ FlockShared(p) \/ Find(p) \/ SetUp(p)
       \/ AllocateRun(p) \/ WriteMarker(p) \/ Work(p) \/ Post(p)
       \/ StartPurge(p) \/ PurgePart(p) \/ EndPurge(p) \/ Crash(p)

Spec == Init /\ [][Next]_vars

-----------------------------------------------------------------------------
(* Properties. *)

\* No purge has taken the lock file or the database away.
NeverPurged == lockfile = 1 /\ database = 2

(* A dry run or a response run that has got the lock keeps its row and its *)
(* directory until it ends, whatever retention passes start and crash      *)
(* meanwhile (pipeline.execute and threadrespond.Run hold the active-runs  *)
(* lock, and look for the run to resume under it).                         *)
GuardedRunKept ==
  NeverPurged => \A p \in Dry \cup Respond :
    /\ secured[p] /\ owner[p] => HasRow(p, run[p])
    /\ secured[p] /\ pc[p] \in {"work", "post"} => dirs[run[p]] # None

(* Retention removes a directory only when the ledger has no row for it    *)
(* and no run, with the lock or without it, is being set up in it (Prune   *)
(* deletes rows before directories; orphanItems and OrphanGrace).          *)
SweepSparesRuns ==
  [][\A r \in Runs :
       /\ dirs[r] # None /\ dirs'[r] = None
       /\ NeverPurged /\ \A p \in Purgers : pc[p] # "purge"
       => /\ r \notin RunsOf(rows[database])
          /\ \A p \in Dry : ~(run[p] = r /\ pc[p] = "allocate")]_vars

(* What the comment at pipeline.execute says of the lock: no instance      *)
(* prunes a run that has got it, for the whole run.                        *)
WholeRunGuarded ==
  [][\A p \in Live : secured[p] /\ HasRow(p, run[p])
                    => HasRow(p, run[p])' \/ run'[p] = None]_vars

=============================================================================
