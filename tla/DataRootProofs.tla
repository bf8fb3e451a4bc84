--------------------------- MODULE DataRootProofs ---------------------------
(***************************************************************************)
(* A run that holds the active-runs lock keeps its row and its directory,  *)
(* for any number of processes and of runs.  The argument: as long as the  *)
(* lock file is the first one, whoever holds it, and whoever prunes or     *)
(* purges, has locked that same file; so nobody does while a run has it    *)
(* shared; and a run looks for its row only once it has the lock.  And a   *)
(* retention pass removes only what has no row and will not get one.       *)
(***************************************************************************)
EXTENDS DataRoot, TLAPS

Destroying == {"list", "delete", "remove", "reload", "walk", "sweep", "purge"}
InHand     == {"setUp", "allocate", "mark", "work", "post"}
Guarded    == Dry \cup Respond

\* A process in the middle of a run has one.
WithRun(p) == InHand \cup IF p \in Live THEN {"share", "flockShared"} ELSE {}

Typed ==
  /\ TypeOK /\ files >= 2
  /\ \A p \in Processes : pc[p] \in WithRun(p) => run[p] \in Runs

\* Before the first purge every process has the first lock file and the first database.
SameFile ==
  NeverPurged => \A p \in Processes :
    /\ fd[p] \in {None, 1} /\ handle[p] \in {None, 2}
    /\ p \notin Purgers /\ pc[p] # "idle" => handle[p] = 2

\* Whoever deletes has the lock exclusively, and nobody else then has that file.
Exclusion ==
  \A p \in Processes :
    /\ pc[p] \in Destroying => held[p] = "exclusive"
    /\ pc[p] \in {"idle", "openLock", "flock", "gate", "share", "flockShared"} => held[p] = "no"
    /\ held[p] # "no" \/ pc[p] \in {"flock", "flockShared"} => fd[p] # None
    /\ held[p] = "exclusive"
       => \A q \in Processes \ {p} : held[q] # "no" => fd[q] # fd[p]

\* A run that has got the lock still has it, and has no row before it looks for one.
HandOnlyUnderLock ==
  \A p \in Guarded :
    /\ secured[p] => held[p] = "shared" /\ pc[p] \in InHand \cup {"find"}
    /\ owner[p] => pc[p] \in InHand

MarkedIsThere == \A r \in marked \cap Runs : dirs[r] # None

IInv == Typed /\ SameFile /\ Exclusion /\ HandOnlyUnderLock
        /\ MarkedIsThere /\ GuardedRunKept

-----------------------------------------------------------------------------
LEMMA Disjoint ==
  /\ \A p \in Live : p \notin Dry /\ p \notin Respond
  /\ \A p \in Dry : p \notin Respond
  BY DataRootAssumption

LEMMA Bounds ==
  /\ MaxRuns \in Nat /\ MaxTime \in Nat /\ MaxFiles \in Nat /\ MaxStarts \in Nat
  /\ MaxFiles > 1
  BY DataRootAssumption

LEMMA TypeInit == Init => Typed
  BY Bounds DEF Init, Typed, InHand, WithRun, TypeOK, Files, Runs, None, Labels, Row

LEMMA TypeNext == Typed /\ [Next]_vars => Typed'
<1> SUFFICES ASSUME Typed, [Next]_vars PROVE Typed'
  OBVIOUS
<1> USE DEF Typed, TypeOK, InHand, WithRun, pass, hand, tree
<1>0. files \in Nat /\ (files < MaxFiles => files + 1 \in Files /\ files + 1 >= 2)
  BY SMTT(30), Bounds DEF Files
<1>00. starts < MaxStarts /\ starts' = starts + 1 => starts' \in 0..MaxStarts
  BY Bounds
<1>01. fresh < MaxRuns => fresh + 1 \in Runs /\ fresh + 1 \in 0..MaxRuns
  BY Bounds DEF Runs
<1>02. now + 1 \in 0..(MaxTime + 1) /\ None \in 0..(MaxTime + 1)
  BY Bounds DEF None
<1>1. CASE UNCHANGED vars
  BY <1>1 DEF vars
<1>2. CASE Tick
  <2>1. now' \in 0..MaxTime
    BY <1>2, Bounds DEF Tick
  <2> QED
    BY <1>2, <2>1 DEF Tick
<1>3. ASSUME NEW p \in Processes, Start(p) PROVE Typed'
  <2>1. FirstSteps(p) \subseteq Labels \ WithRun(p)
    BY Disjoint, <1>3 DEF FirstSteps, AfterPrune, Labels, Reviewers
  <2>2. PICK label \in FirstSteps(p) : pc' = [pc EXCEPT ![p] = label]
    BY <1>3 DEF Start, Step
  <2>3. files' \in Files /\ files' >= 2 /\ database' \in Files \cup {None}
        /\ handle' \in [Processes -> Files \cup {None}]
    BY <1>0, <1>3 DEF Start
  <2> QED
    BY <1>00, <1>3, <2>1, <2>2, <2>3 DEF Start, Begin
<1>4. ASSUME NEW p \in Processes, NEW a \in Labels, NEW b \in Labels \ InHand,
             OpenLock(p, a, b), b \in WithRun(p) => a \in WithRun(p)
      PROVE  Typed'
  <2>1. files' \in Files /\ files' >= 2 /\ lockfile' \in Files \cup {None}
        /\ fd' \in [Processes -> Files \cup {None}]
    BY <1>0, <1>4 DEF OpenLock
  <2>2. pc' \in [Processes -> Labels] /\ handle' \in [Processes -> Files \cup {None}]
        /\ \A q \in Processes : pc'[q] \in WithRun(q) => pc[q] \in WithRun(q)
    BY <1>4 DEF OpenLock, Goto, Step
  <2> QED
    BY <1>4, <2>1, <2>2 DEF OpenLock
<1>5. ASSUME NEW p \in Processes, OpenExclusive(p) \/ OpenShared(p)
      PROVE  Typed'
  BY <1>4, <1>5 DEF OpenExclusive, OpenShared, Labels
<1>6. ASSUME NEW p \in Processes, FlockExclusive(p) PROVE Typed'
  BY Disjoint, <1>6 DEF FlockExclusive, Hold, Unlock, Goto, Step, AfterPrune, Labels
<1>7. ASSUME NEW p \in Processes, FlockShared(p) PROVE Typed'
  <2>1. secured' \in [Processes -> BOOLEAN]
    BY <1>7 DEF FlockShared
  <2>2. fd' \in [Processes -> Files \cup {None}]
        /\ held' \in [Processes -> {"no", "shared", "exclusive"}]
    BY <1>7 DEF FlockShared, Hold, Unlock
  <2>3. pc' \in [Processes -> Labels] /\ handle' \in [Processes -> Files \cup {None}]
        /\ \A q \in Processes : pc'[q] \in WithRun(q) => pc[q] \in WithRun(q) \/ q = p
    BY <1>7 DEF FlockShared, Goto, Step, Labels
  <2> QED
    <3>1. p \in Live => run[p] \in Runs
      BY <1>7 DEF FlockShared
    <3>2. p \notin Live => pc'[p] = "find"
      BY <1>7 DEF FlockShared, Goto, Step
    <3> QED
      BY <1>7, <2>1, <2>2, <2>3, <3>1, <3>2 DEF FlockShared
<1>8. ASSUME NEW p \in Processes, ListRuns(p) PROVE Typed'
  <2>1. Table(p) \subseteq Row
    BY DEF Table
  <2>2. \A s : RunsOf(Selected(Table(p), s)) \subseteq Runs
    BY <2>1 DEF RunsOf, Selected, Row
  <2>3. todo' \in [Processes -> SUBSET Runs]
    BY <1>8, <2>2 DEF ListRuns
  <2> QED
    BY <1>8, <2>3 DEF ListRuns, Goto, Step, Labels
<1>9. ASSUME NEW p \in Processes, DeleteRun(p) PROVE Typed'
  <2>1. \A r : {row \in Table(p) : row.run # r} \subseteq Row
    BY DEF Table
  <2>2. rows' \in [Files -> SUBSET Row]
    <3>1. CASE UNCHANGED rows
      BY <3>1
    <3>2. CASE \E r \in todo[p] : rows' = [rows EXCEPT ![handle[p]] = {row \in Table(p) : row.run # r}]
      <4>1. PICK r \in todo[p] : rows' = [rows EXCEPT ![handle[p]] = {row \in Table(p) : row.run # r}]
        BY <3>2
      <4>2. {row \in Table(p) : row.run # r} \in SUBSET Row
        BY <2>1
      <4> QED
        BY <4>1, <4>2
    <3> QED
      BY <1>9, <3>1, <3>2 DEF DeleteRun, Change
  <2>3. todo' \in [Processes -> SUBSET Runs] /\ doomed' \in [Processes -> Runs \cup {None}]
    BY <1>9 DEF DeleteRun
  <2>4. pc' \in [Processes -> Labels] /\ handle' \in [Processes -> Files \cup {None}]
        /\ \A q \in Processes : pc'[q] \in WithRun(q) => pc[q] \in WithRun(q)
    BY <1>9 DEF DeleteRun, Goto, Step, Labels
  <2>5. fd' \in [Processes -> Files \cup {None}]
        /\ held' \in [Processes -> {"no", "shared", "exclusive"}]
    BY <1>9 DEF DeleteRun, Unlock
  <2> QED
    BY <1>9, <2>2, <2>3, <2>4, <2>5 DEF DeleteRun
<1>10. ASSUME NEW p \in Processes, RemoveArtifacts(p) \/ Sweep(p)
       PROVE  Typed'
  <2>1. dirs' \in [Runs -> 0..(MaxTime + 1)] /\ marked' \subseteq Runs
    BY <1>02, <1>10 DEF RemoveArtifacts, Sweep, RemoveTree, Spare
  <2> QED
    BY <1>10, <2>1 DEF RemoveArtifacts, Sweep, Goto, Step, Labels
<1>11. ASSUME NEW p \in Processes, Reload(p) PROVE Typed'
  <2>1. RunsOf(Table(p)) \subseteq Runs
    BY DEF Table, RunsOf, Row
  <2> QED
    BY <1>11, <2>1 DEF Reload, Goto, Step, Labels
<1>12. ASSUME NEW p \in Processes, Walk(p) PROVE Typed'
  BY <1>12 DEF Walk, Goto, Step, Labels
<1>13. ASSUME NEW p \in Processes, EndPrune(p) PROVE Typed'
  BY Disjoint, <1>13 DEF EndPrune, Unlock, Goto, Step, AfterPrune, Labels
<1>14. ASSUME NEW p \in Processes, NEW r \in Runs
       PROVE  Table(p) \cup {NewRow(p, r)} \subseteq Row
  <2>1. NewRow(p, r) \in Row
    BY DEF NewRow, Row, Kind
  <2> QED
    BY <2>1 DEF Table
<1>15. ASSUME NEW p \in Processes PROVE Resumable(p) \subseteq Runs
  BY DEF Resumable, Table, Row
<1>16. ASSUME NEW p \in Processes, Gate(p) PROVE Typed'
  <2>1. CASE fresh < MaxRuns /\ fresh' = fresh + 1 /\ Take(p, fresh + 1, TRUE)
             /\ Change(p, Table(p) \cup {NewRow(p, fresh + 1)})
    <3>1. fresh + 1 \in Runs /\ fresh' \in 0..MaxRuns
      BY <1>01, <2>1
    <3>2. rows' \in [Files -> SUBSET Row]
      BY <1>14, <2>1, <3>1 DEF Change
    <3>3. run' \in [Processes -> Runs \cup {None}] /\ owner' \in [Processes -> BOOLEAN]
          /\ run'[p] \in Runs
          /\ \A q \in Processes : run[q] \in Runs => run'[q] \in Runs
      BY <2>1, <3>1 DEF Take
    <3>4. pc' \in [Processes -> Labels] /\ handle' \in [Processes -> Files \cup {None}]
          /\ \A q \in Processes \ {p} : pc'[q] = pc[q]
      BY <1>16 DEF Gate, Goto, Step, Labels
    <3> QED
      BY <1>16, <2>1, <3>1, <3>2, <3>3, <3>4 DEF Gate
  <2>2. CASE \E r \in Resumable(p) : Take(p, r, TRUE) /\ UNCHANGED <<fresh, rows>>
    <3>1. run' \in [Processes -> Runs \cup {None}] /\ owner' \in [Processes -> BOOLEAN]
          /\ run'[p] \in Runs
          /\ \A q \in Processes : run[q] \in Runs => run'[q] \in Runs
      BY <1>15, <2>2 DEF Take
    <3> QED
      BY <1>16, <2>2, <3>1 DEF Gate, Goto, Step, Labels
  <2> QED
    BY <1>16, <2>1, <2>2 DEF Gate
<1>17. ASSUME NEW p \in Processes, Find(p) PROVE Typed'
  <2>1. CASE fresh < MaxRuns /\ fresh' = fresh + 1 /\ Take(p, fresh + 1, FALSE)
             /\ Goto(p, IF p \in Dry THEN "setUp" ELSE "allocate")
    <3>1. fresh + 1 \in Runs /\ fresh' \in 0..MaxRuns
      BY <1>01, <2>1
    <3>2. run' = [run EXCEPT ![p] = fresh + 1] /\ owner' = [owner EXCEPT ![p] = FALSE]
      BY <2>1 DEF Take
    <3>3. pc' \in [Processes -> Labels] /\ handle' \in [Processes -> Files \cup {None}]
          /\ \A q \in Processes \ {p} : pc'[q] = pc[q]
      BY <2>1 DEF Goto, Step, Labels
    <3> QED
      BY <1>17, <3>1, <3>2, <3>3 DEF Find
  <2>2. CASE \E r \in Resumable(p) \cap marked :
                /\ Take(p, r, TRUE) /\ UNCHANGED fresh
                /\ Goto(p, IF p \in Dry THEN "setUp" ELSE "work")
    <3>1. PICK r \in Runs : run' = [run EXCEPT ![p] = r] /\ owner' = [owner EXCEPT ![p] = TRUE]
      BY <1>15, <2>2 DEF Take
    <3>2. pc' \in [Processes -> Labels] /\ handle' \in [Processes -> Files \cup {None}]
          /\ \A q \in Processes \ {p} : pc'[q] = pc[q]
      BY <2>2 DEF Goto, Step, Labels
    <3> QED
      BY <1>17, <2>2, <3>1, <3>2 DEF Find
  <2> QED
    BY <1>17, <2>1, <2>2 DEF Find
<1>18. ASSUME NEW r \in Runs, Touch(r) \/ UNCHANGED dirs
       PROVE  dirs' \in [Runs -> 0..(MaxTime + 1)]
  BY <1>02, <1>18 DEF Touch
<1>19. ASSUME NEW p \in Processes, SetUp(p) PROVE Typed'
  <2>1. run[p] \in Runs
    BY <1>19 DEF SetUp, Labels
  <2>2. dirs' \in [Runs -> 0..(MaxTime + 1)]
    BY <1>18, <1>19, <2>1 DEF SetUp
  <2> QED
    BY <1>19, <2>1, <2>2 DEF SetUp, Goto, Step, Labels
<1>20. ASSUME NEW p \in Processes, AllocateRun(p) PROVE Typed'
  <2>1. run[p] \in Runs
    BY <1>20 DEF AllocateRun, Labels
  <2>2. rows' \in [Files -> SUBSET Row]
    BY <1>14, <1>20, <2>1 DEF AllocateRun, Change
  <2> QED
    BY <1>20, <2>1, <2>2 DEF AllocateRun, Goto, Step, Labels
<1>21. ASSUME NEW p \in Processes, WriteMarker(p) PROVE Typed'
  <2>1. run[p] \in Runs
    BY <1>21 DEF WriteMarker, Labels
  <2>2. dirs' \in [Runs -> 0..(MaxTime + 1)]
    BY <1>18, <1>21, <2>1 DEF WriteMarker
  <2> QED
    BY <1>21, <2>1, <2>2 DEF WriteMarker, Goto, Step, Labels
<1>22. ASSUME NEW p \in Processes, Settle(p) PROVE rows' \in [Files -> SUBSET Row]
  <2>1. ASSUME NEW row \in Row PROVE [row EXCEPT !.open = @ /\ row.run # run[p]] \in Row
    BY <2>1 DEF Row
  <2>2. {[row EXCEPT !.open = @ /\ row.run # run[p]] : row \in Table(p)} \subseteq Row
    BY <2>1 DEF Table
  <2> QED
    BY <1>22, <2>2 DEF Settle, Change
<1>23. ASSUME NEW p \in Processes, LetGo(p), Unlock(p), Goto(p, "idle")
       PROVE  /\ run' \in [Processes -> Runs \cup {None}] /\ owner' \in [Processes -> BOOLEAN]
              /\ secured' \in [Processes -> BOOLEAN]
              /\ fd' \in [Processes -> Files \cup {None}]
              /\ held' \in [Processes -> {"no", "shared", "exclusive"}]
              /\ pc' \in [Processes -> Labels]
              /\ handle' \in [Processes -> Files \cup {None}]
              /\ \A q \in Processes : pc'[q] \in WithRun(q) => run'[q] \in Runs
  BY <1>23 DEF LetGo, Unlock, Goto, Step, Labels
<1>24. ASSUME NEW p \in Processes, Work(p) PROVE Typed'
  <2>1. dirs' \in [Runs -> 0..(MaxTime + 1)]
    BY <1>02, <1>24 DEF Work
  <2>2. CASE Settle(p) /\ Unlock(p) /\ LetGo(p) /\ Goto(p, "idle")
    BY <1>22, <1>23, <1>24, <2>1, <2>2 DEF Work
  <2>3. CASE /\ p \notin Dry /\ Goto(p, "post") /\ UNCHANGED <<rows, hand>>
             /\ IF p \in Live THEN Unlock(p) ELSE UNCHANGED <<fd, held>>
    <3>1. run[p] \in Runs
      BY <1>24 DEF Work, Labels
    <3>2. fd' \in [Processes -> Files \cup {None}]
          /\ held' \in [Processes -> {"no", "shared", "exclusive"}]
      BY <2>3 DEF Unlock
    <3> QED
      BY <1>24, <2>1, <2>3, <3>1, <3>2 DEF Work, Goto, Step, Labels
  <2> QED
    BY <1>24, <2>2, <2>3 DEF Work
<1>25. ASSUME NEW p \in Processes, Post(p) PROVE Typed'
  BY <1>22, <1>23, <1>25 DEF Post
<1>26. ASSUME NEW p \in Processes, StartPurge(p) PROVE Typed'
  BY <1>00, <1>26 DEF StartPurge, Begin, Goto, Step, Labels
<1>27. ASSUME NEW p \in Processes, PurgePart(p) PROVE Typed'
  <2>1. dirs' \in [Runs -> 0..(MaxTime + 1)] /\ marked' \subseteq Runs
    BY <1>02, <1>27 DEF PurgePart, RemoveTree
  <2> QED
    BY <1>27, <2>1 DEF PurgePart
<1>28. ASSUME NEW p \in Processes, EndPurge(p) PROVE Typed'
  BY <1>28 DEF EndPurge, Unlock, Goto, Step, Labels
<1>29. ASSUME NEW p \in Processes, Crash(p) PROVE Typed'
  BY <1>23, <1>29 DEF Crash
<1> QED
  BY <1>1, <1>2, <1>3, <1>5, <1>6, <1>7, <1>8, <1>9, <1>10, <1>11, <1>12, <1>13, <1>16, <1>17,
     <1>19, <1>20, <1>21, <1>24, <1>25, <1>26, <1>27, <1>28, <1>29 DEF Next, Prune

-----------------------------------------------------------------------------
(* A step of one process, and what it leaves of the others.                *)

Acts(p) ==
  \/ Start(p) \/ OpenExclusive(p) \/ FlockExclusive(p) \/ Prune(p)
  \/ Gate(p) \/ OpenShared(p) \/ FlockShared(p) \/ Find(p) \/ SetUp(p)
  \/ AllocateRun(p) \/ WriteMarker(p) \/ Work(p) \/ Post(p)
  \/ StartPurge(p) \/ PurgePart(p) \/ EndPurge(p) \/ Crash(p)

LEMMA NextActs == Next => Tick \/ \E p \in Processes : Acts(p)
  BY Zenon DEF Next, Acts

LEMMA Frame ==
  ASSUME Typed, NEW p \in Processes, Acts(p), NEW q \in Processes, q # p
  PROVE  /\ pc'[q] = pc[q] /\ handle'[q] = handle[q] /\ fd'[q] = fd[q] /\ held'[q] = held[q]
         /\ run'[q] = run[q] /\ owner'[q] = owner[q] /\ secured'[q] = secured[q]
<1> USE DEF Typed, TypeOK, pass, hand, tree, Goto, Step
<1>1. CASE Start(p) \/ OpenExclusive(p) \/ FlockExclusive(p)
  BY <1>1 DEF Start, OpenExclusive, OpenLock, FlockExclusive, Hold, Unlock
<1>2. CASE Prune(p)
  BY <1>2 DEF Prune, ListRuns, DeleteRun, RemoveArtifacts, Reload, Walk, Sweep, EndPrune, Unlock
<1>3. CASE Gate(p) \/ OpenShared(p) \/ FlockShared(p)
  BY <1>3 DEF Gate, OpenShared, OpenLock, FlockShared, Hold, Unlock, Take
<1>4. CASE Find(p) \/ SetUp(p) \/ AllocateRun(p) \/ WriteMarker(p)
  BY <1>4 DEF Find, SetUp, AllocateRun, WriteMarker, Take
<1>5. CASE Work(p) \/ Post(p)
  BY <1>5 DEF Work, Post, Unlock, LetGo
<1>6. CASE StartPurge(p) \/ PurgePart(p) \/ EndPurge(p) \/ Crash(p)
  BY <1>6 DEF StartPurge, PurgePart, EndPurge, Crash, Unlock, LetGo
<1> QED
  BY <1>1, <1>2, <1>3, <1>4, <1>5, <1>6 DEF Acts

\* The lock file and the database are replaced by new files only.
LEMMA NoReturn ==
  ASSUME Typed, NEW p \in Processes, Acts(p), NeverPurged'
  PROVE  NeverPurged
<1> USE DEF Typed, TypeOK, tree, NeverPurged, None
<1>1. files + 1 # 1 /\ files + 1 # 2
  BY Bounds DEF Files
<1>2. CASE Start(p) \/ OpenExclusive(p) \/ FlockExclusive(p)
  BY <1>1, <1>2 DEF Start, OpenExclusive, OpenLock, FlockExclusive
<1>3. CASE Prune(p)
  BY <1>3 DEF Prune, ListRuns, DeleteRun, RemoveArtifacts, Reload, Walk, Sweep, EndPrune
<1>4. CASE Gate(p) \/ OpenShared(p) \/ FlockShared(p)
  BY <1>1, <1>4 DEF Gate, OpenShared, OpenLock, FlockShared
<1>5. CASE Find(p) \/ SetUp(p) \/ AllocateRun(p) \/ WriteMarker(p) \/ Work(p) \/ Post(p)
  BY <1>5 DEF Find, SetUp, AllocateRun, WriteMarker, Work, Post
<1>6. CASE StartPurge(p) \/ PurgePart(p) \/ EndPurge(p) \/ Crash(p)
  BY <1>6 DEF StartPurge, PurgePart, EndPurge, Crash
<1> QED
  BY <1>2, <1>3, <1>4, <1>5, <1>6 DEF Acts

\* What a process may have opened after its own step.
LEMMA OwnFiles ==
  ASSUME Typed, NEW p \in Processes, Acts(p)
  PROVE  /\ fd'[p] \in {None, fd[p], lockfile'}
         /\ handle'[p] \in {None, handle[p], database'}
         /\ p \notin Purgers /\ pc'[p] # "idle"
            => \/ handle'[p] = database' 
               \/ handle'[p] = handle[p] /\ pc[p] # "idle"
<1> USE DEF Typed, TypeOK, pass, hand, tree, Goto, Step
<1>1. CASE Start(p)
  BY <1>1 DEF Start
<1>2. CASE OpenExclusive(p) \/ OpenShared(p)
  BY <1>2 DEF OpenExclusive, OpenShared, OpenLock
<1>3. CASE FlockExclusive(p) \/ FlockShared(p)
  BY <1>3 DEF FlockExclusive, FlockShared, Hold, Unlock
<1>4. CASE Prune(p)
  BY <1>4 DEF Prune, ListRuns, DeleteRun, RemoveArtifacts, Reload, Walk, Sweep, EndPrune, Unlock
<1>5. CASE Gate(p) \/ Find(p) \/ SetUp(p) \/ AllocateRun(p) \/ WriteMarker(p)
  BY <1>5 DEF Gate, Find, SetUp, AllocateRun, WriteMarker
<1>6. CASE Work(p) \/ Post(p)
  BY <1>6 DEF Work, Post, Unlock
<1>7. CASE StartPurge(p)
  BY <1>7 DEF StartPurge
<1>8. CASE PurgePart(p) \/ EndPurge(p) \/ Crash(p)
  BY <1>8 DEF PurgePart, EndPurge, Crash, Unlock
<1> QED
  BY <1>1, <1>2, <1>3, <1>4, <1>5, <1>6, <1>7, <1>8 DEF Acts

LEMMA SameFileStep ==
  ASSUME Typed, SameFile, NEW p \in Processes, Acts(p)
  PROVE  SameFile'
<1> SUFFICES ASSUME NeverPurged', NEW q \in Processes
             PROVE  /\ fd'[q] \in {None, 1} /\ handle'[q] \in {None, 2}
                    /\ q \notin Purgers /\ pc'[q] # "idle" => handle'[q] = 2
  BY DEF SameFile
<1>1. NeverPurged
  BY NoReturn
<1>2. fd[q] \in {None, 1} /\ handle[q] \in {None, 2}
      /\ (q \notin Purgers /\ pc[q] # "idle" => handle[q] = 2)
  BY <1>1 DEF SameFile
<1>3. lockfile' = 1 /\ database' = 2
  BY DEF NeverPurged
<1>4. CASE q = p
  BY <1>2, <1>3, <1>4, OwnFiles
<1>5. CASE q # p
  BY <1>2, <1>5, Frame
<1> QED
  BY <1>4, <1>5

\* How a step changes what its own process holds.
Lets(p)  == held'[p] = "no" /\ pc'[p] \notin Destroying
            /\ (pc'[p] \in {"flock", "flockShared"} => fd'[p] # None)
Keeps(p) == /\ held'[p] = held[p] /\ fd'[p] = fd[p]
            /\ pc[p] \in {"list", "delete", "remove", "reload", "walk", "sweep", "purge", "find",
                          "setUp", "allocate", "mark", "work", "post"}
            /\ (pc'[p] \in Destroying => pc[p] \in Destroying)
            /\ pc'[p] \notin {"idle", "openLock", "flock", "gate", "share", "flockShared"}
Gets(p)  == /\ held'[p] = "exclusive" /\ fd'[p] = fd[p] /\ pc[p] = "flock" /\ ExclusiveFree(p)
            /\ pc'[p] \in Destroying
Joins(p) == /\ held'[p] = "shared" /\ fd'[p] = fd[p] /\ pc[p] = "flockShared" /\ SharedFree(p)
            /\ pc'[p] \in {"setUp", "find"}

LEMMA OwnLock ==
  ASSUME Typed, Exclusion, NEW p \in Processes, Acts(p)
  PROVE  Lets(p) \/ Keeps(p) \/ Gets(p) \/ Joins(p)
<1> USE DEF Typed, TypeOK, pass, hand, tree, Goto, Step, Destroying
<1>1. CASE Start(p) \/ StartPurge(p)
  BY <1>1 DEF Start, StartPurge, FirstSteps, AfterPrune, Lets, Exclusion
<1>2. CASE OpenExclusive(p) \/ OpenShared(p)
  <2>1. fd'[p] # None
    BY <1>2, Bounds DEF OpenExclusive, OpenShared, OpenLock, Files, None
  <2> QED
    BY <1>2, <2>1 DEF OpenExclusive, OpenShared, OpenLock, Lets, Exclusion
<1>3. CASE FlockExclusive(p)
  BY <1>3 DEF FlockExclusive, Hold, Unlock, Lets, Gets, AfterPrune
<1>4. CASE FlockShared(p)
  BY <1>4 DEF FlockShared, Hold, Unlock, Lets, Joins
<1>5. CASE ListRuns(p) \/ RemoveArtifacts(p) \/ Reload(p) \/ Walk(p) \/ Sweep(p)
  BY <1>5 DEF ListRuns, RemoveArtifacts, Reload, Walk, Sweep, Keeps
<1>6. CASE DeleteRun(p) \/ EndPrune(p)
  BY <1>6 DEF DeleteRun, EndPrune, Unlock, AfterPrune, Lets, Keeps
<1>7. CASE Gate(p)
  BY <1>7 DEF Gate, Lets, Exclusion
<1>8. CASE Find(p) \/ SetUp(p) \/ AllocateRun(p) \/ WriteMarker(p)
  BY <1>8 DEF Find, SetUp, AllocateRun, WriteMarker, Keeps
<1>9. CASE Work(p) \/ Post(p) \/ EndPurge(p) \/ Crash(p)
  BY <1>9 DEF Work, Post, EndPurge, Crash, Unlock, Lets, Keeps
<1>10. CASE PurgePart(p)
  BY <1>10 DEF PurgePart, Keeps
<1> QED
  BY <1>1, <1>2, <1>3, <1>4, <1>5, <1>6, <1>7, <1>8, <1>9, <1>10 DEF Acts, Prune

LEMMA ExclusionStep ==
  ASSUME Typed, Exclusion, NEW p \in Processes, Acts(p)
  PROVE  Exclusion'
<1> USE DEF Destroying
<1>1. Lets(p) \/ Keeps(p) \/ Gets(p) \/ Joins(p)
  BY OwnLock
<1>2. \A q \in Processes \ {p} : /\ pc'[q] = pc[q] /\ fd'[q] = fd[q] /\ held'[q] = held[q]
  BY Frame
<1>3. /\ pc'[p] \in Destroying => held'[p] = "exclusive"
      /\ pc'[p] \in {"idle", "openLock", "flock", "gate", "share", "flockShared"}
         => held'[p] = "no"
      /\ held'[p] # "no" \/ pc'[p] \in {"flock", "flockShared"} => fd'[p] # None
  BY <1>1 DEF Lets, Keeps, Gets, Joins, Exclusion
<1>4. held'[p] = "exclusive"
      => \A q \in Processes \ {p} : held'[q] # "no" => fd'[q] # fd'[p]
  <2>1. CASE Gets(p)
    BY <1>2, <2>1 DEF Gets, ExclusiveFree, SharedFree, Holders, Typed, TypeOK
  <2>2. CASE Lets(p) \/ Keeps(p) \/ Joins(p)
    BY <1>2, <2>2 DEF Lets, Keeps, Joins, Exclusion
  <2> QED
    BY <1>1, <2>1, <2>2
<1>5. ASSUME NEW q \in Processes \ {p}, held'[q] = "exclusive", held'[p] # "no"
      PROVE  fd'[p] # fd'[q]
  <2>1. CASE Gets(p) \/ Joins(p)
    BY <1>2, <1>5, <2>1 DEF Gets, Joins, ExclusiveFree, SharedFree, Holders
  <2>2. CASE Lets(p) \/ Keeps(p)
    BY <1>2, <1>5, <2>2 DEF Lets, Keeps, Exclusion
  <2> QED
    BY <1>1, <2>1, <2>2
<1>6. ASSUME NEW q \in Processes \ {p}
      PROVE  /\ pc'[q] \in Destroying => held'[q] = "exclusive"
             /\ pc'[q] \in {"idle", "openLock", "flock", "gate", "share", "flockShared"}
                => held'[q] = "no"
             /\ held'[q] # "no" \/ pc'[q] \in {"flock", "flockShared"} => fd'[q] # None
             /\ held'[q] = "exclusive"
                => \A o \in Processes \ {q} : held'[o] # "no" => fd'[o] # fd'[q]
  BY <1>2, <1>5, <1>6 DEF Exclusion
<1> QED
  BY <1>3, <1>4, <1>6 DEF Exclusion

LEMMA HandStep ==
  ASSUME Typed, Exclusion, HandOnlyUnderLock, NEW p \in Processes, Acts(p)
  PROVE  HandOnlyUnderLock'
<1> USE DEF InHand
<1> SUFFICES ASSUME NEW q \in Guarded
             PROVE  /\ secured'[q] => held'[q] = "shared" /\ pc'[q] \in InHand \cup {"find"}
                    /\ owner'[q] => pc'[q] \in InHand
  BY DEF HandOnlyUnderLock
<1>0. q \in Processes
  BY DEF Guarded, Processes, Runners, Reviewers
<1>1. /\ secured[q] => held[q] = "shared" /\ pc[q] \in InHand \cup {"find"}
      /\ owner[q] => pc[q] \in InHand
  BY DEF HandOnlyUnderLock
<1>2. CASE q # p
  BY <1>0, <1>1, <1>2, Frame
<1>3. CASE q = p
  <2> USE DEF Typed, TypeOK, pass, hand, tree, Goto, Step
  <2>0. p \notin Live /\ p \notin Pruners /\ p \notin Purgers
    BY <1>3, DataRootAssumption DEF Guarded
  <2>1. CASE Start(p) \/ OpenExclusive(p) \/ FlockExclusive(p) \/ OpenShared(p)
    BY <1>1, <1>3, <2>1 DEF Start, OpenExclusive, FlockExclusive, OpenShared, OpenLock
  <2>2. CASE Prune(p)
    BY <1>1, <1>3, <2>2 DEF Prune, ListRuns, DeleteRun, RemoveArtifacts, Reload, Walk, Sweep,
                            EndPrune
  <2>3. CASE Gate(p) \/ StartPurge(p) \/ PurgePart(p) \/ EndPurge(p)
    BY <1>1, <1>3, <2>0, <2>3 DEF Gate, StartPurge, PurgePart, EndPurge
  <2>4. CASE FlockShared(p)
    BY <1>1, <1>3, <2>0, <2>4 DEF FlockShared, Hold
  <2>5. CASE Find(p)
    BY <1>1, <1>3, <2>5 DEF Find, Take
  <2>6. CASE SetUp(p) \/ AllocateRun(p) \/ WriteMarker(p)
    BY <1>1, <1>3, <2>6 DEF SetUp, AllocateRun, WriteMarker
  <2>7. CASE Work(p)
    BY <1>1, <1>3, <2>0, <2>7 DEF Work, LetGo
  <2>8. CASE Post(p) \/ Crash(p)
    BY <1>1, <1>3, <2>8 DEF Post, Crash, LetGo
  <2> QED
    BY <2>1, <2>2, <2>3, <2>4, <2>5, <2>6, <2>7, <2>8 DEF Acts
<1> QED
  BY <1>2, <1>3

LEMMA MarkedStep ==
  ASSUME Typed, MarkedIsThere, NEW p \in Processes, Acts(p)
  PROVE  MarkedIsThere'
<1> USE DEF Typed, TypeOK, MarkedIsThere, tree, RemoveTree, Spare, Touch, None
<1>1. now + 1 # 0
  BY Bounds
<1>2. CASE Start(p) \/ OpenExclusive(p) \/ FlockExclusive(p) \/ OpenShared(p)
  BY <1>2 DEF Start, OpenExclusive, FlockExclusive, OpenShared, OpenLock
<1>3. CASE Prune(p)
  BY <1>3 DEF Prune, ListRuns, DeleteRun, RemoveArtifacts, Reload, Walk, Sweep, EndPrune
<1>4. CASE Gate(p) \/ FlockShared(p) \/ Find(p) \/ AllocateRun(p) \/ Post(p)
  BY <1>4 DEF Gate, FlockShared, Find, AllocateRun, Post
<1>5. CASE SetUp(p) \/ WriteMarker(p) \/ Work(p)
  BY <1>1, <1>5 DEF SetUp, WriteMarker, Work
<1>6. CASE StartPurge(p) \/ PurgePart(p) \/ EndPurge(p) \/ Crash(p)
  BY <1>6 DEF StartPurge, PurgePart, EndPurge, Crash
<1> QED
  BY <1>2, <1>3, <1>4, <1>5, <1>6 DEF Acts

-----------------------------------------------------------------------------
(* Only who destroys takes a row or a directory away. *)

LEMMA MoreRows ==
  ASSUME Typed, NEW f \in Files, NEW p \in Processes,
         UNCHANGED rows \/ Settle(p) \/ \E row : Change(p, Table(p) \cup {row})
  PROVE  RunsOf(rows[f]) \subseteq RunsOf(rows'[f])
<1> USE DEF Typed, TypeOK
<1>1. CASE UNCHANGED rows
  BY <1>1
<1>2. CASE handle[p] # f \/ handle[p] = None
  BY <1>2, Bounds DEF Settle, Change, Files, None
<1>3. CASE handle[p] = f /\ f # None
  <2>1. Table(p) = rows[f]
    BY <1>3 DEF Table
  <2>2. ASSUME NEW row, Change(p, Table(p) \cup {row})
        PROVE  RunsOf(rows[f]) \subseteq RunsOf(rows'[f])
    BY <1>3, <2>1, <2>2 DEF Change, RunsOf
  <2>3. ASSUME Change(p, {[row EXCEPT !.open = @ /\ row.run # run[p]] : row \in Table(p)})
        PROVE  RunsOf(rows[f]) \subseteq RunsOf(rows'[f])
    <3>1. rows'[f] = {[row EXCEPT !.open = @ /\ row.run # run[p]] : row \in rows[f]}
      BY <1>3, <2>1, <2>3 DEF Change
    <3>2. ASSUME NEW row \in rows[f]
          PROVE  [row EXCEPT !.open = @ /\ row.run # run[p]].run = row.run
      BY DEF Row
    <3>3. ASSUME NEW row \in rows[f] PROVE row.run \in RunsOf(rows'[f])
      <4>1. [row EXCEPT !.open = @ /\ row.run # run[p]] \in rows'[f]
        BY <3>1
      <4> QED
        BY <3>2, <4>1 DEF RunsOf
    <3> QED
      BY <3>3 DEF RunsOf
  <2> QED
    BY <1>1, <2>2, <2>3 DEF Settle
<1> QED
  BY <1>2, <1>3, Bounds DEF Files, None

LEMMA RowsStay ==
  ASSUME Typed, NEW f \in Files, NEW p \in Processes, Acts(p), pc[p] \notin Destroying
  PROVE  RunsOf(rows[f]) \subseteq RunsOf(rows'[f])
<1> USE DEF Destroying
<1> SUFFICES UNCHANGED rows \/ Settle(p) \/ \E row : Change(p, Table(p) \cup {row})
  BY MoreRows
<1>1. CASE Start(p) \/ OpenExclusive(p) \/ FlockExclusive(p) \/ OpenShared(p) \/ FlockShared(p)
  BY <1>1 DEF Start, OpenExclusive, FlockExclusive, OpenShared, OpenLock, FlockShared
<1>2. CASE Prune(p) \/ PurgePart(p) \/ EndPurge(p)
  BY <1>2 DEF Prune, ListRuns, DeleteRun, RemoveArtifacts, Reload, Walk, Sweep, EndPrune,
              PurgePart, EndPurge
<1>3. CASE Gate(p) \/ AllocateRun(p)
  BY <1>3 DEF Gate, AllocateRun
<1>4. CASE Find(p) \/ SetUp(p) \/ WriteMarker(p) \/ Work(p) \/ Post(p) \/ StartPurge(p)
           \/ Crash(p)
  BY <1>4 DEF Find, SetUp, WriteMarker, Work, Post, StartPurge, Crash
<1> QED
  BY <1>1, <1>2, <1>3, <1>4 DEF Acts

LEMMA DirsStay ==
  ASSUME Typed, NEW r \in Runs, dirs[r] # None, NEW p \in Processes, Acts(p),
         pc[p] \notin Destroying
  PROVE  dirs'[r] # None
<1> USE DEF Typed, TypeOK, Destroying, tree, Touch, None
<1>1. now + 1 # 0
  BY Bounds
<1>2. CASE Start(p) \/ OpenExclusive(p) \/ FlockExclusive(p) \/ OpenShared(p) \/ FlockShared(p)
  BY <1>2 DEF Start, OpenExclusive, FlockExclusive, OpenShared, OpenLock, FlockShared
<1>3. CASE Prune(p) \/ PurgePart(p) \/ EndPurge(p)
  BY <1>3 DEF Prune, ListRuns, DeleteRun, RemoveArtifacts, Reload, Walk, Sweep, EndPrune,
              PurgePart, EndPurge
<1>4. CASE Gate(p) \/ Find(p) \/ AllocateRun(p) \/ Post(p) \/ StartPurge(p) \/ Crash(p)
  BY <1>4 DEF Gate, Find, AllocateRun, Post, StartPurge, Crash
<1>5. CASE SetUp(p) \/ WriteMarker(p) \/ Work(p)
  BY <1>1, <1>5 DEF SetUp, WriteMarker, Work
<1> QED
  BY <1>2, <1>3, <1>4, <1>5 DEF Acts

\* While a run holds the lock, whoever takes a step destroys nothing.
LEMMA NobodyDestroys ==
  ASSUME SameFile, Exclusion, NeverPurged, NEW p \in Processes, NEW q \in Processes,
         held[q] = "shared"
  PROVE  pc[p] \notin Destroying
<1>1. CASE p = q
  BY <1>1 DEF Exclusion
<1>2. CASE p # q
  BY <1>2 DEF SameFile, Exclusion
<1> QED
  BY <1>1, <1>2

LEMMA GuardedStep ==
  ASSUME IInv, NEW p \in Processes, Acts(p)
  PROVE  GuardedRunKept'
<1> USE DEF IInv, InHand
<1> SUFFICES ASSUME NeverPurged', NEW q \in Guarded, secured'[q]
             PROVE  /\ owner'[q] => HasRow(q, run[q])'
                    /\ pc'[q] \in {"work", "post"} => dirs'[run'[q]] # None
  BY DEF GuardedRunKept, Guarded
<1>0. q \in Processes /\ q \notin Purgers
  BY DataRootAssumption DEF Guarded, Processes, Runners, Reviewers
<1>1. NeverPurged
  BY NoReturn
<1>2. HandOnlyUnderLock' /\ SameFile' /\ Typed'
  BY HandStep, SameFileStep, TypeNext, <1>0 DEF Next, Acts
<1>3. held'[q] = "shared" /\ pc'[q] \in InHand \cup {"find"} /\ handle'[q] = 2
  BY <1>0, <1>2 DEF HandOnlyUnderLock, SameFile
<1>4. secured[q] => /\ held[q] = "shared" /\ pc[q] \in InHand \cup {"find"} /\ handle[q] = 2
                    /\ owner[q] => run[q] \in RunsOf(rows[2])
                    /\ pc[q] \in {"work", "post"} => dirs[run[q]] # None
  <2>1. secured[q] => /\ held[q] = "shared" /\ pc[q] \in InHand \cup {"find"} /\ handle[q] = 2
    BY <1>0, <1>1 DEF HandOnlyUnderLock, SameFile
  <2> QED
    BY <1>1, <2>1 DEF GuardedRunKept, Guarded, HasRow, Table, None
<1>5. 2 \in Files
  BY Bounds DEF Files
<1>6. HasRow(q, run[q])' <=> run'[q] \in RunsOf(rows'[2])
  BY <1>3 DEF HasRow, Table, None
<1>7. secured[q] => /\ RunsOf(rows[2]) \subseteq RunsOf(rows'[2])
                    /\ \A r \in Runs : dirs[r] # None => dirs'[r] # None
  BY <1>0, <1>1, <1>4, <1>5, NobodyDestroys, RowsStay, DirsStay
<1>8. pc[q] \in {"work", "post"} => run[q] \in Runs
  BY <1>0 DEF Typed, WithRun
<1>9. CASE q # p
  BY <1>0, <1>4, <1>6, <1>7, <1>8, <1>9, Frame
<1>10. CASE q = p
  <2> USE DEF Typed, TypeOK, pass, hand, tree, Goto, Step
  <2>0. p \notin Live /\ p \notin Pruners /\ p \notin Purgers
    BY <1>10, DataRootAssumption DEF Guarded
  <2>1. CASE \/ Start(p) \/ OpenExclusive(p) \/ FlockExclusive(p) \/ Prune(p) \/ OpenShared(p)
             \/ Gate(p) \/ StartPurge(p) \/ PurgePart(p) \/ EndPurge(p)
    <3>1. pc[p] \notin InHand \cup {"find"}
      BY <2>1 DEF Start, OpenExclusive, FlockExclusive, Prune, ListRuns, DeleteRun,
                  RemoveArtifacts, Reload, Walk, Sweep, EndPrune, OpenShared, OpenLock, Gate,
                  StartPurge, PurgePart, EndPurge
    <3>2. secured'[p] = secured[p]
      BY <2>1 DEF Start, OpenExclusive, FlockExclusive, Prune, ListRuns, DeleteRun,
                  RemoveArtifacts, Reload, Walk, Sweep, EndPrune, OpenShared, OpenLock, Gate,
                  StartPurge, PurgePart, EndPurge
    <3> QED
      BY <1>4, <1>10, <3>1, <3>2
  <2>2. CASE FlockShared(p)
    BY <1>10, <2>0, <2>2 DEF FlockShared, HandOnlyUnderLock
  <2>3. CASE Find(p)
    <3>1. CASE \E r \in Resumable(p) \cap marked :
                 /\ Take(p, r, TRUE) /\ UNCHANGED fresh
                 /\ Goto(p, IF p \in Dry THEN "setUp" ELSE "work")
      <4>1. PICK r \in Resumable(p) \cap marked : run' = [run EXCEPT ![p] = r]
        BY <3>1 DEF Take
      <4>2. UNCHANGED <<rows, dirs, secured, handle>>
        BY <2>3, <3>1 DEF Find
      <4>3. r \in RunsOf(rows[2])
        BY <1>3, <1>10, <4>1, <4>2 DEF Resumable, RunsOf, Table, None
      <4>4. dirs[r] # None
        BY <4>1 DEF MarkedIsThere
      <4> QED
        BY <1>6, <1>10, <4>1, <4>2, <4>3, <4>4
    <3>2. CASE Take(p, fresh + 1, FALSE)
               /\ Goto(p, IF p \in Dry THEN "setUp" ELSE "allocate")
      BY <1>10, <3>2 DEF Take
    <3> QED
      BY <2>3, <3>1, <3>2 DEF Find
  <2>4. CASE SetUp(p)
    BY <1>4, <1>6, <1>7, <1>10, <2>4, Bounds DEF SetUp, Touch, None, WithRun
  <2>5. CASE AllocateRun(p)
    <3>1. NewRow(p, run[p]) \in rows'[2] /\ run'[p] = run[p]
      BY <1>3, <1>5, <1>10, <2>5 DEF AllocateRun, Change
    <3>2. pc'[p] = "mark"
      BY <2>5 DEF AllocateRun
    <3> QED
      BY <1>6, <1>10, <3>1, <3>2 DEF RunsOf, NewRow
  <2>6. CASE WriteMarker(p)
    BY <1>4, <1>6, <1>7, <1>10, <2>6, Bounds DEF WriteMarker, Touch, None, WithRun
  <2>7. CASE Work(p)
    <3>1. secured'[p] => secured[p] /\ run'[p] = run[p] /\ owner'[p] = owner[p]
      BY <2>7 DEF Work, LetGo
    <3>2. dirs'[run[p]] # None
      BY <2>7, Bounds DEF Work, None, WithRun
    <3> QED
      BY <1>4, <1>6, <1>7, <1>10, <3>1, <3>2
  <2>8. CASE Post(p) \/ Crash(p)
    BY <1>10, <2>8 DEF Post, Crash, LetGo
  <2> QED
    BY <2>1, <2>2, <2>3, <2>4, <2>5, <2>6, <2>7, <2>8 DEF Acts
<1> QED
  BY <1>9, <1>10

LEMMA InvInit == Init => IInv
<1> SUFFICES ASSUME Init PROVE IInv
  OBVIOUS
<1>1. Typed
  BY TypeInit
<1>2. SameFile /\ Exclusion /\ HandOnlyUnderLock /\ MarkedIsThere /\ GuardedRunKept
  BY DEF Init, SameFile, Exclusion, HandOnlyUnderLock, MarkedIsThere, GuardedRunKept, Guarded,
         Processes, Runners, Reviewers, Destroying, NeverPurged, None
<1> QED
  BY <1>1, <1>2 DEF IInv

LEMMA InvNext == IInv /\ [Next]_vars => IInv'
<1> SUFFICES ASSUME IInv, [Next]_vars PROVE IInv'
  OBVIOUS
<1>1. Typed'
  BY TypeNext DEF IInv
<1>2. CASE UNCHANGED vars \/ Tick
  <2>1. /\ UNCHANGED <<lockfile, database, dirs, marked, rows, pc, handle, fd, held, run, owner,
                       secured>>
    BY <1>2 DEF vars, Tick, tree, hand, pass
  <2> QED
    BY <1>1, <2>1 DEF IInv, SameFile, Exclusion, HandOnlyUnderLock, MarkedIsThere,
                      GuardedRunKept, NeverPurged, HasRow, Table
<1>3. ASSUME NEW p \in Processes, Acts(p) PROVE IInv'
  BY <1>1, <1>3, SameFileStep, ExclusionStep, HandStep, MarkedStep, GuardedStep DEF IInv
<1> QED
  BY <1>2, <1>3, NextActs

-----------------------------------------------------------------------------
(* What a retention pass removes.  A run is unborn from the time it is     *)
(* given its ID until it has its row.  An unborn run has its ID for itself *)
(* and, but for a dry run's young directory, nothing else; so what a pass  *)
(* finds deleted, or old and without a row, stays without a row.           *)

Passing == {"list", "delete", "remove", "reload", "walk", "sweep"}

Young(r)  == dirs[r] = None \/ now + 1 < dirs[r] + OrphanGrace
Unborn(p) == run[p] # None /\ ~owner[p]

Recorded(r) == \E f \in Files : r \in RunsOf(rows[f])

\* A run ID that is still to be handed out names nothing.
FreshIsNew ==
  \A r \in Runs : r > fresh =>
    dirs[r] = None /\ ~Recorded(r) /\ \A q \in Processes : run[q] # r

UnbornIsAlone ==
  \A p \in Processes :
    /\ pc[p] = "allocate" => ~owner[p]
    /\ Unborn(p) =>
         /\ pc[p] \in {"setUp", "allocate"} /\ (pc[p] = "setUp" => p \in Dry)
         /\ ~Recorded(run[p])
         /\ \A q \in Processes \ {p} : run[q] # run[p]
         /\ pc[p] = "setUp" \/ p \notin Dry => dirs[run[p]] = None
         /\ Young(run[p])

OnlyPurgersPurge ==
  \A p \in Processes : pc[p] \notin IF p \in Purgers THEN Passing ELSE {"purge"}

\* What has got a row since the pass read the table is too young for it.
NewRowsAreYoung ==
  NeverPurged => \A p \in Processes : pc[p] = "walk" =>
    \A r \in RunsOf(rows[2]) \ listed[p] : Young(r)

\* A run without a row, that will not get one.
Gone(r) ==
  /\ r \in Runs /\ r <= fresh /\ r \notin RunsOf(rows[2])
  /\ \A q \in Processes : run[q] = r => owner[q]

RemovesTheGone ==
  NeverPurged => \A p \in Processes :
    /\ pc[p] = "remove" => Gone(doomed[p])
    /\ pc[p] = "sweep"  => \A r \in todo[p] : Gone(r)

SInv == IInv /\ FreshIsNew /\ UnbornIsAlone /\ OnlyPurgersPurge
        /\ NewRowsAreYoung /\ RemovesTheGone

\* A step's effect on the tables: a new row is a live run's, with its ID, or an unborn run's.
LEMMA RowsEffect ==
  ASSUME Typed, NEW p \in Processes, Acts(p), NEW f \in Files, NEW r \in RunsOf(rows'[f])
  PROVE  \/ r \in RunsOf(rows[f])
         \/ r = fresh + 1 /\ fresh' = fresh + 1 /\ UNCHANGED dirs
         \/ r = run[p] /\ pc[p] = "allocate"
<1> USE DEF Typed, TypeOK
<1>0. PICK row \in rows'[f] : row.run = r
  BY DEF RunsOf
<1>1. CASE UNCHANGED rows
  BY <1>0, <1>1 DEF RunsOf
<1>2. ASSUME NEW new, rows' = [rows EXCEPT ![handle[p]] = Table(p) \cup {new}]
      PROVE  r \in RunsOf(rows[f]) \/ r = new.run
  <2>1. row \in rows[f] \/ row = new
    BY <1>0, <1>2 DEF Table
  <2> QED
    BY <1>0, <2>1 DEF RunsOf
<1>3. CASE Settle(p)
  <2>1. ASSUME rows' = [rows EXCEPT ![handle[p]] =
                          {[x EXCEPT !.open = @ /\ x.run # run[p]] : x \in Table(p)}]
        PROVE  r \in RunsOf(rows[f])
    <3>1. CASE row \in rows[f]
      BY <1>0, <3>1 DEF RunsOf
    <3>2. CASE row \notin rows[f]
      <4>1. row \in {[x EXCEPT !.open = @ /\ x.run # run[p]] : x \in Table(p)}
            /\ handle[p] = f
        BY <1>0, <2>1, <3>2
      <4>2. PICK x \in Table(p) : row = [x EXCEPT !.open = @ /\ x.run # run[p]]
        BY <4>1
      <4>3. x \in rows[f]
        BY <4>1, <4>2 DEF Table
      <4>4. x \in Row
        BY <4>3
      <4>5. row.run = x.run
        BY <4>2, <4>4 DEF Row
      <4> QED
        BY <1>0, <4>3, <4>5 DEF RunsOf
    <3> QED
      BY <3>1, <3>2
  <2> QED
    BY <1>1, <1>3, <2>1 DEF Settle, Change
<1>4. CASE Start(p) \/ OpenExclusive(p) \/ FlockExclusive(p) \/ OpenShared(p) \/ FlockShared(p)
  BY <1>1, <1>4 DEF Start, OpenExclusive, FlockExclusive, OpenShared, OpenLock, FlockShared
<1>5. CASE DeleteRun(p)
  <2>1. CASE UNCHANGED rows
    BY <1>1, <2>1
  <2>2. ASSUME NEW d, rows' = [rows EXCEPT ![handle[p]] = {x \in Table(p) : x.run # d}]
        PROVE  r \in RunsOf(rows[f])
    <3>1. row \in rows[f]
      BY <1>0, <2>2 DEF Table
    <3> QED
      BY <1>0, <3>1 DEF RunsOf
  <2>3. PICK d \in todo[p] :
          UNCHANGED rows \/ rows' = [rows EXCEPT ![handle[p]] = {x \in Table(p) : x.run # d}]
    BY <1>5 DEF DeleteRun, Change
  <2> QED
    BY <2>1, <2>2, <2>3
<1>6. CASE ListRuns(p) \/ RemoveArtifacts(p) \/ Reload(p) \/ Walk(p) \/ Sweep(p) \/ EndPrune(p)
  BY <1>1, <1>6 DEF ListRuns, RemoveArtifacts, Reload, Walk, Sweep, EndPrune
<1>7. CASE Gate(p)
  <2>1. CASE fresh' = fresh + 1 /\ Change(p, Table(p) \cup {NewRow(p, fresh + 1)})
    <3>1. NewRow(p, fresh + 1).run = fresh + 1
      BY DEF NewRow
    <3>2. rows' = [rows EXCEPT ![handle[p]] = Table(p) \cup {NewRow(p, fresh + 1)}]
      BY <2>1 DEF Change
    <3>3. r \in RunsOf(rows[f]) \/ r = fresh + 1
      BY <1>2, <3>1, <3>2
    <3> QED
      BY <1>7, <2>1, <3>3 DEF Gate, tree
  <2> QED
    BY <1>1, <1>7, <2>1 DEF Gate
<1>8. CASE AllocateRun(p)
  <2>1. NewRow(p, run[p]).run = run[p]
    BY DEF NewRow
  <2>2. rows' = [rows EXCEPT ![handle[p]] = Table(p) \cup {NewRow(p, run[p])}]
    BY <1>8 DEF AllocateRun, Change
  <2> QED
    BY <1>2, <1>8, <2>1, <2>2 DEF AllocateRun
<1>9. CASE Find(p) \/ SetUp(p) \/ WriteMarker(p) \/ StartPurge(p) \/ PurgePart(p)
           \/ EndPurge(p) \/ Crash(p)
  BY <1>1, <1>9 DEF Find, SetUp, WriteMarker, StartPurge, PurgePart, EndPurge, Crash
<1>10. CASE Work(p) \/ Post(p)
  BY <1>1, <1>3, <1>10 DEF Work, Post
<1> QED
  BY <1>4, <1>5, <1>6, <1>7, <1>8, <1>9, <1>10 DEF Acts, Prune

\* On the directories: a process touches the run it has in hand, and a pass removes what it
\* has settled on.
LEMMA DirsEffect ==
  ASSUME Typed, NEW p \in Processes, Acts(p), NEW r \in Runs, dirs'[r] # dirs[r]
  PROVE  \/ /\ dirs'[r] = now + 1 /\ r = run[p] /\ pc[p] \in {"setUp", "mark", "work"}
         \/ /\ dirs'[r] = None
            /\ \/ pc[p] = "remove" /\ r = doomed[p]
               \/ pc[p] = "sweep" /\ r \in todo[p]
               \/ pc[p] = "purge"
<1> USE DEF Typed, TypeOK, tree, Touch, RemoveTree, Spare
<1>1. CASE Start(p) \/ OpenExclusive(p) \/ FlockExclusive(p) \/ OpenShared(p) \/ FlockShared(p)
  BY <1>1 DEF Start, OpenExclusive, FlockExclusive, OpenShared, OpenLock, FlockShared
<1>2. CASE RemoveArtifacts(p) \/ Sweep(p) \/ PurgePart(p)
  BY <1>2 DEF RemoveArtifacts, Sweep, PurgePart
<1>3. CASE ListRuns(p) \/ DeleteRun(p) \/ Reload(p) \/ Walk(p) \/ EndPrune(p) \/ EndPurge(p)
  BY <1>3 DEF ListRuns, DeleteRun, Reload, Walk, EndPrune, EndPurge
<1>4. CASE Gate(p) \/ Find(p) \/ AllocateRun(p) \/ Post(p) \/ StartPurge(p) \/ Crash(p)
  BY <1>4 DEF Gate, Find, AllocateRun, Post, StartPurge, Crash
<1>5. CASE SetUp(p) \/ WriteMarker(p) \/ Work(p)
  BY <1>5 DEF SetUp, WriteMarker, Work
<1> QED
  BY <1>1, <1>2, <1>3, <1>4, <1>5 DEF Acts, Prune

\* On the run in hand.
Same(p)    == run'[p] = run[p] /\ owner'[p] = owner[p] /\ fresh' = fresh
Drops(p)   == run'[p] = None /\ ~owner'[p] /\ fresh' = fresh
Resumes(p) == owner'[p] /\ Recorded(run'[p]) /\ fresh' = fresh
Starts(p)  == /\ run'[p] = fresh + 1 /\ fresh' = fresh + 1 /\ UNCHANGED dirs
              /\ owner'[p] \/ /\ UNCHANGED rows
                              /\ pc'[p] = IF p \in Dry THEN "setUp" ELSE "allocate"
Books(p)   == pc[p] = "allocate" /\ run'[p] = run[p] /\ owner'[p] /\ fresh' = fresh

LEMMA ResumableIsRecorded ==
  ASSUME Typed, NEW p \in Processes, NEW r \in Resumable(p)
  PROVE  Recorded(r)
<1>1. handle[p] \in Files /\ r \in RunsOf(rows[handle[p]])
  BY DEF Resumable, Table, RunsOf, Typed, TypeOK
<1> QED
  BY <1>1 DEF Recorded

LEMMA RunEffect ==
  ASSUME Typed, NEW p \in Processes, Acts(p)
  PROVE  Same(p) \/ Drops(p) \/ Resumes(p) \/ Starts(p) \/ Books(p)
<1> USE DEF Typed, TypeOK, hand, pass, tree
<1>1. CASE Start(p) \/ OpenExclusive(p) \/ FlockExclusive(p) \/ OpenShared(p) \/ FlockShared(p)
  BY <1>1 DEF Start, OpenExclusive, FlockExclusive, OpenShared, OpenLock, FlockShared, Same
<1>2. CASE Prune(p)
  BY <1>2 DEF Prune, ListRuns, DeleteRun, RemoveArtifacts, Reload, Walk, Sweep, EndPrune, Same
<1>3. CASE Gate(p)
  <2>1. CASE \E r \in Resumable(p) : Take(p, r, TRUE) /\ UNCHANGED <<fresh, rows>>
    BY <2>1, ResumableIsRecorded DEF Take, Resumes
  <2>2. CASE fresh' = fresh + 1 /\ Take(p, fresh + 1, TRUE)
    BY <1>3, <2>2 DEF Gate, Take, Starts
  <2> QED
    BY <1>3, <2>1, <2>2 DEF Gate
<1>4. CASE Find(p)
  <2>1. CASE \E r \in Resumable(p) \cap marked : Take(p, r, TRUE) /\ UNCHANGED fresh
    BY <2>1, ResumableIsRecorded DEF Take, Resumes
  <2>2. CASE fresh' = fresh + 1 /\ Take(p, fresh + 1, FALSE)
             /\ Goto(p, IF p \in Dry THEN "setUp" ELSE "allocate")
    BY <1>4, <2>2 DEF Find, Take, Goto, Step, Starts
  <2> QED
    BY <1>4, <2>1, <2>2 DEF Find
<1>5. CASE AllocateRun(p)
  BY <1>5 DEF AllocateRun, Books
<1>6. CASE SetUp(p) \/ WriteMarker(p) \/ StartPurge(p) \/ PurgePart(p) \/ EndPurge(p)
  BY <1>6 DEF SetUp, WriteMarker, StartPurge, PurgePart, EndPurge, Same
<1>7. CASE Work(p) \/ Post(p) \/ Crash(p)
  BY <1>7 DEF Work, Post, Crash, LetGo, Drops, Same
<1> QED
  BY <1>1, <1>2, <1>3, <1>4, <1>5, <1>6, <1>7 DEF Acts

\* On the clock, and on what another process has selected.
LEMMA PassFrame ==
  ASSUME Typed, NEW p \in Processes, Acts(p)
  PROVE  /\ now' = now
         /\ \A q \in Processes \ {p} :
              todo'[q] = todo[q] /\ listed'[q] = listed[q] /\ doomed'[q] = doomed[q]
<1> USE DEF Typed, TypeOK, pass
<1>1. CASE Start(p) \/ OpenExclusive(p) \/ FlockExclusive(p) \/ OpenShared(p) \/ FlockShared(p)
  BY <1>1 DEF Start, OpenExclusive, FlockExclusive, OpenShared, OpenLock, FlockShared
<1>2. CASE Prune(p)
  BY <1>2 DEF Prune, ListRuns, DeleteRun, RemoveArtifacts, Reload, Walk, Sweep, EndPrune
<1>3. CASE Gate(p) \/ Find(p) \/ AllocateRun(p) \/ Post(p) \/ SetUp(p) \/ WriteMarker(p)
           \/ Work(p)
  BY <1>3 DEF Gate, Find, AllocateRun, Post, SetUp, WriteMarker, Work
<1>4. CASE StartPurge(p) \/ PurgePart(p) \/ EndPurge(p) \/ Crash(p)
  BY <1>4 DEF StartPurge, PurgePart, EndPurge, Crash
<1> QED
  BY <1>1, <1>2, <1>3, <1>4 DEF Acts

LEMMA Numbers ==
  ASSUME Typed
  PROVE  /\ fresh \in Nat /\ now \in Nat /\ OrphanGrace \in Nat \ {0}
         /\ \A r \in Runs : r \in Nat \ {0} /\ dirs[r] \in Nat
  BY Bounds, DataRootAssumption DEF Typed, TypeOK, Runs

LEMMA FreshStep ==
  ASSUME Typed, FreshIsNew, NEW p \in Processes, Acts(p)
  PROVE  FreshIsNew'
<1> SUFFICES ASSUME NEW r \in Runs, r > fresh'
             PROVE  dirs'[r] = None /\ ~Recorded(r)' /\ \A q \in Processes : run'[q] # r
  BY DEF FreshIsNew
<1>1. Same(p) \/ Drops(p) \/ Resumes(p) \/ Starts(p) \/ Books(p)
  BY RunEffect
<1>2. fresh' \in {fresh, fresh + 1} /\ fresh \in Nat /\ r \in Nat \ {0}
  BY <1>1, Numbers DEF Same, Drops, Resumes, Starts, Books
<1>3. r > fresh /\ (r # fresh + 1 \/ fresh' = fresh)
  BY <1>2
<1>4. dirs[r] = None /\ ~Recorded(r) /\ \A q \in Processes : run[q] # r
  BY <1>3 DEF FreshIsNew
<1>5. dirs'[r] = None
  BY <1>4, DirsEffect
<1>6. ~Recorded(r)'
  <2>1. ASSUME NEW f \in Files, r \in RunsOf(rows'[f]) PROVE FALSE
    BY <1>2, <1>3, <1>4, <2>1, RowsEffect DEF Recorded
  <2> QED
    BY <2>1 DEF Recorded
<1>7. ASSUME NEW q \in Processes PROVE run'[q] # r
  <2>1. CASE q # p
    BY <1>4, <2>1, Frame
  <2>2. CASE q = p
    BY <1>1, <1>2, <1>3, <1>4, <2>2 DEF Same, Drops, Resumes, Starts, Books, None
  <2> QED
    BY <2>1, <2>2
<1> QED
  BY <1>5, <1>6, <1>7

\* A directory is young when it is touched, and no step but the clock's ages it.
LEMMA YoungStep ==
  ASSUME Typed, NEW p \in Processes, Acts(p), NEW r \in Runs, Young(r)
  PROVE  Young(r)'
<1>1. now' = now /\ now \in Nat /\ OrphanGrace \in Nat \ {0}
  BY PassFrame, Numbers
<1>2. dirs'[r] = dirs[r] \/ dirs'[r] = None \/ dirs'[r] = now + 1
  BY DirsEffect
<1> QED
  BY <1>1, <1>2 DEF Young

\* An unborn run's own next step sets it up, or ends it.
LEMMA UnbornSetsUp ==
  ASSUME Typed, UnbornIsAlone, NEW p \in Processes, Acts(p), Unborn(p), Same(p)
  PROVE  SetUp(p)
<1> USE DEF Unborn, Same, UnbornIsAlone
<1>1. pc[p] \in {"setUp", "allocate"}
  OBVIOUS
<1>2. CASE Start(p) \/ OpenExclusive(p) \/ FlockExclusive(p) \/ OpenShared(p) \/ FlockShared(p)
  BY <1>1, <1>2 DEF Start, OpenExclusive, FlockExclusive, OpenShared, OpenLock, FlockShared
<1>3. CASE Prune(p)
  BY <1>1, <1>3 DEF Prune, ListRuns, DeleteRun, RemoveArtifacts, Reload, Walk, Sweep, EndPrune
<1>4. CASE Gate(p) \/ Find(p) \/ WriteMarker(p) \/ Work(p) \/ Post(p)
  BY <1>1, <1>4 DEF Gate, Find, WriteMarker, Work, Post
<1>5. CASE AllocateRun(p)
  BY <1>1, <1>5 DEF AllocateRun, Typed, TypeOK
<1>6. CASE StartPurge(p) \/ PurgePart(p) \/ EndPurge(p)
  BY <1>1, <1>6 DEF StartPurge, PurgePart, EndPurge
<1>7. CASE Crash(p)
  BY <1>7 DEF Crash, LetGo, Typed, TypeOK
<1> QED
  BY <1>2, <1>3, <1>4, <1>5, <1>6, <1>7 DEF Acts

LEMMA UnbornStep ==
  ASSUME Typed, FreshIsNew, UnbornIsAlone, NEW p \in Processes, Acts(p)
  PROVE  UnbornIsAlone'
<1> SUFFICES ASSUME NEW q \in Processes
             PROVE  /\ pc'[q] = "allocate" => ~owner'[q]
                    /\ Unborn(q)' =>
                         /\ pc'[q] \in {"setUp", "allocate"} /\ (pc'[q] = "setUp" => q \in Dry)
                         /\ ~Recorded(run[q])'
                         /\ \A o \in Processes \ {q} : run'[o] # run'[q]
                         /\ pc'[q] = "setUp" \/ q \notin Dry => dirs'[run'[q]] = None
                         /\ Young(run[q])'
  BY DEF UnbornIsAlone
<1>1. Same(p) \/ Drops(p) \/ Resumes(p) \/ Starts(p) \/ Books(p)
  BY RunEffect
<1>2. pc'[q] = "allocate" => ~owner'[q]
  <2>1. CASE q # p
    BY <2>1, Frame DEF UnbornIsAlone
  <2>2. CASE q = p
    <3> USE DEF Typed, TypeOK, Goto, Step, hand, pass, tree
    <3>1. CASE Start(p) \/ OpenExclusive(p) \/ FlockExclusive(p) \/ OpenShared(p) \/ FlockShared(p)
      BY <2>2, <3>1, Disjoint DEF Start, OpenExclusive, FlockExclusive, OpenShared, OpenLock, FlockShared,
                        FirstSteps, AfterPrune
    <3>2. CASE Prune(p)
      BY <2>2, <3>2 DEF Prune, ListRuns, DeleteRun, RemoveArtifacts, Reload, Walk, Sweep, EndPrune,
                        AfterPrune
    <3>3. CASE Gate(p) \/ AllocateRun(p) \/ WriteMarker(p) \/ Work(p) \/ Post(p)
      BY <2>2, <3>3 DEF Gate, AllocateRun, WriteMarker, Work, Post
    <3>4. CASE Find(p)
      BY <2>2, <3>4 DEF Find, Take
    <3>5. CASE SetUp(p)
      BY <2>2, <3>5 DEF SetUp
    <3>6. CASE StartPurge(p) \/ PurgePart(p) \/ EndPurge(p) \/ Crash(p)
      BY <2>2, <3>6 DEF StartPurge, PurgePart, EndPurge, Crash
    <3> QED
      BY <3>1, <3>2, <3>3, <3>4, <3>5, <3>6 DEF Acts
  <2> QED
    BY <2>1, <2>2
<1> SUFFICES ASSUME Unborn(q)'
             PROVE  /\ pc'[q] \in {"setUp", "allocate"} /\ (pc'[q] = "setUp" => q \in Dry)
                    /\ ~Recorded(run[q])'
                    /\ \A o \in Processes \ {q} : run'[o] # run'[q]
                    /\ pc'[q] = "setUp" \/ q \notin Dry => dirs'[run'[q]] = None
                    /\ Young(run[q])'
  BY <1>2
<1>3. CASE q = p /\ Same(p)
  <2>1. Unborn(p)
    BY <1>3 DEF Unborn, Same
  <2>2. SetUp(p)
    BY <1>3, <2>1, UnbornSetsUp
  <2>3. run' = run /\ owner' = owner /\ rows' = rows /\ pc[p] = "setUp" /\ ~owner[p]
        /\ pc'[p] = "allocate"
    BY <2>1, <2>2 DEF SetUp, hand, Unborn, Goto, Step, Typed, TypeOK
  <2>4. run[p] \in Runs
    BY <2>3 DEF Typed, InHand, WithRun
  <2>5. p \in Dry /\ Young(run[p]) /\ ~Recorded(run[p])
        /\ \A o \in Processes \ {p} : run[o] # run[p]
    BY <2>1, <2>3 DEF UnbornIsAlone
  <2>6. Young(run[p])'
    <3>1. ASSUME NEW r \in Runs, r = run[p] PROVE Young(r)'
      BY <2>5, <3>1, YoungStep
    <3>2. PICK r \in Runs : r = run[p]
      BY <2>4
    <3> QED
      BY <2>3, <3>1, <3>2 DEF Young
  <2> QED
    BY <1>3, <2>3, <2>5, <2>6 DEF Recorded
<1>4. CASE q = p /\ Starts(p)
  <2>1. ~owner'[p] /\ run'[p] = fresh + 1 /\ fresh' = fresh + 1 /\ dirs' = dirs /\ rows' = rows
        /\ pc'[p] = IF p \in Dry THEN "setUp" ELSE "allocate"
    BY <1>4 DEF Starts, Unborn
  <2>2. fresh + 1 \in Runs
    BY <2>1, TypeNext, Numbers, <1>4 DEF Typed, TypeOK, Next, Acts, None
  <2>3. dirs[fresh + 1] = None /\ ~Recorded(fresh + 1)
        /\ \A o \in Processes : run[o] # fresh + 1
    BY <2>2, Numbers DEF FreshIsNew
  <2> QED
    BY <1>4, <2>1, <2>3, Frame DEF Recorded, Young
<1>5. CASE q = p /\ ~Same(p) /\ ~Starts(p)
  BY <1>1, <1>5 DEF Drops, Resumes, Books, Unborn
<1>6. CASE q # p
  <2>1. run'[q] = run[q] /\ owner'[q] = owner[q] /\ pc'[q] = pc[q]
    BY <1>6, Frame
  <2>2. Unborn(q)
    BY <2>1 DEF Unborn
  <2>3. /\ pc[q] \in {"setUp", "allocate"} /\ (pc[q] = "setUp" => q \in Dry)
        /\ ~Recorded(run[q])
        /\ \A o \in Processes \ {q} : run[o] # run[q]
        /\ pc[q] = "setUp" \/ q \notin Dry => dirs[run[q]] = None
        /\ Young(run[q])
    BY <2>2 DEF UnbornIsAlone
  <2>4. PICK r \in Runs : r = run[q]
    BY <2>3 DEF Typed, InHand, WithRun
  <2>5. r # fresh + 1 /\ r # run[p]
    BY <1>6, <2>3, <2>4, Numbers DEF FreshIsNew
  <2>6. ~Recorded(r)'
    BY <2>3, <2>4, <2>5, RowsEffect DEF Recorded
  <2>7. \A o \in Processes \ {q} : run'[o] # r
    <3>1. run'[p] # r
      BY <1>1, <2>3, <2>4, <2>5 DEF Same, Drops, Resumes, Starts, Books, None, Runs
    <3> QED
      BY <2>3, <2>4, <3>1, Frame
  <2>8. dirs[r] = None => dirs'[r] = None
    BY <2>5, DirsEffect
  <2>9. Young(r)'
    BY <2>3, <2>4, YoungStep
  <2> QED
    BY <2>1, <2>3, <2>4, <2>6, <2>7, <2>8, <2>9 DEF Recorded, Young
<1> QED
  BY <1>3, <1>4, <1>5, <1>6

LEMMA PurgersStep ==
  ASSUME Typed, OnlyPurgersPurge, NEW p \in Processes, Acts(p)
  PROVE  OnlyPurgersPurge'
<1> SUFFICES ASSUME NEW q \in Processes
             PROVE  pc'[q] \notin IF q \in Purgers THEN Passing ELSE {"purge"}
  BY DEF OnlyPurgersPurge
<1>0. pc[q] \notin IF q \in Purgers THEN Passing ELSE {"purge"}
  BY DEF OnlyPurgersPurge
<1>1. CASE q # p
  BY <1>0, <1>1, Frame
<1>2. CASE q = p
  <2> USE DEF Typed, TypeOK, Goto, Step, Passing
  <2>0. p \in Purgers => p \notin Reviewers /\ p \notin Respond
    BY DataRootAssumption DEF Reviewers
  <2>1. CASE Start(p) \/ OpenExclusive(p) \/ OpenShared(p)
    BY <1>0, <1>2, <2>1 DEF Start, OpenExclusive, OpenShared, OpenLock, FirstSteps, AfterPrune
  <2>2. CASE FlockExclusive(p) \/ FlockShared(p)
    BY <1>0, <1>2, <2>0, <2>2, Disjoint DEF FlockExclusive, FlockShared, AfterPrune
  <2>3. CASE Prune(p)
    BY <1>0, <1>2, <2>3 DEF Prune, ListRuns, DeleteRun, RemoveArtifacts, Reload, Walk, Sweep,
                            EndPrune, AfterPrune
  <2>4. CASE Gate(p) \/ Find(p) \/ SetUp(p) \/ AllocateRun(p) \/ WriteMarker(p) \/ Work(p)
             \/ Post(p)
    BY <1>2, <2>4 DEF Gate, Find, SetUp, AllocateRun, WriteMarker, Work, Post
  <2>5. CASE StartPurge(p) \/ PurgePart(p) \/ EndPurge(p) \/ Crash(p)
    BY <1>0, <1>2, <2>5 DEF StartPurge, PurgePart, EndPurge, Crash
  <2> QED
    BY <2>1, <2>2, <2>3, <2>4, <2>5 DEF Acts
<1> QED
  BY <1>1, <1>2

\* How a process comes to walk, to remove and to sweep.
LEMMA PassEffect ==
  ASSUME Typed, NEW p \in Processes, Acts(p)
  PROVE  /\ pc'[p] = "walk" => /\ pc[p] = "delete" /\ UNCHANGED rows
                               /\ listed'[p] = RunsOf(Table(p))
         /\ pc'[p] = "remove" => /\ pc[p] = "delete" /\ HasRow(p, doomed'[p])
                                 /\ UNCHANGED <<fresh, run, owner>>
                                 /\ rows' = [rows EXCEPT ![handle[p]] =
                                               {row \in Table(p) : row.run # doomed'[p]}]
         /\ pc'[p] = "sweep" =>
              /\ UNCHANGED rows
              /\ \/ pc[p] = "walk" /\ todo'[p] = {r \in Runs : Orphan(r, listed[p])}
                 \/ pc[p] = "sweep" /\ todo'[p] \subseteq todo[p]
<1> USE DEF Typed, TypeOK, Goto, Step, hand
<1>1. CASE Start(p) \/ OpenExclusive(p) \/ FlockExclusive(p) \/ OpenShared(p) \/ FlockShared(p)
  BY <1>1 DEF Start, OpenExclusive, FlockExclusive, OpenShared, OpenLock, FlockShared,
              FirstSteps, AfterPrune
<1>2. CASE DeleteRun(p)
  BY <1>2 DEF DeleteRun, Change
<1>3. CASE ListRuns(p) \/ RemoveArtifacts(p) \/ Reload(p)
  BY <1>3 DEF ListRuns, RemoveArtifacts, Reload
<1>4. CASE Walk(p) \/ Sweep(p) \/ EndPrune(p)
  BY <1>4 DEF Walk, Sweep, EndPrune, AfterPrune
<1>5. CASE Gate(p) \/ Find(p) \/ SetUp(p) \/ AllocateRun(p) \/ WriteMarker(p) \/ Work(p)
           \/ Post(p)
  BY <1>5 DEF Gate, Find, SetUp, AllocateRun, WriteMarker, Work, Post
<1>6. CASE StartPurge(p) \/ PurgePart(p) \/ EndPurge(p) \/ Crash(p)
  BY <1>6 DEF StartPurge, PurgePart, EndPurge, Crash
<1> QED
  BY <1>1, <1>2, <1>3, <1>4, <1>5, <1>6 DEF Acts, Prune

\* A pass works on the first database as long as it is there.
LEMMA PassOnDatabase ==
  ASSUME SameFile, OnlyPurgersPurge, NeverPurged, NEW p \in Processes, pc[p] \in Passing
  PROVE  Table(p) = rows[2] /\ handle[p] = 2
<1>1. p \notin Purgers
  BY DEF OnlyPurgersPurge, Passing
<1>2. handle[p] = 2
  BY <1>1 DEF SameFile, Passing
<1> QED
  BY <1>2 DEF Table, None

LEMMA NewRowsStep ==
  ASSUME Typed, SameFile, FreshIsNew, UnbornIsAlone, OnlyPurgersPurge, NewRowsAreYoung,
         NEW p \in Processes, Acts(p)
  PROVE  NewRowsAreYoung'
<1> SUFFICES ASSUME NeverPurged', NEW q \in Processes, pc'[q] = "walk",
                    NEW r \in RunsOf(rows'[2]), r \notin listed'[q]
             PROVE  Young(r)'
  BY DEF NewRowsAreYoung
<1>0. NeverPurged /\ 2 \in Files
  BY NoReturn, Bounds DEF Files
<1>1. q # p
  <2> SUFFICES ASSUME q = p PROVE FALSE
    OBVIOUS
  <2>1. pc[p] = "delete" /\ rows' = rows /\ listed'[p] = RunsOf(Table(p))
    BY PassEffect
  <2> QED
    BY <1>0, <2>1, PassOnDatabase DEF Passing
<1>2. pc[q] = "walk" /\ listed'[q] = listed[q]
  BY <1>1, Frame, PassFrame
<1>3. \/ r \in RunsOf(rows[2])
      \/ r = fresh + 1 /\ fresh' = fresh + 1 /\ UNCHANGED dirs
      \/ r = run[p] /\ pc[p] = "allocate"
  BY <1>0, RowsEffect
<1>4. r \in Runs
  BY <1>0, TypeNext DEF Next, Acts, Typed, TypeOK, RunsOf, Row
<1>5. CASE r \in RunsOf(rows[2])
  BY <1>0, <1>2, <1>4, <1>5, YoungStep DEF NewRowsAreYoung
<1>6. CASE r = fresh + 1 /\ UNCHANGED dirs
  <2>1. dirs[r] = None
    BY <1>4, <1>6, Numbers DEF FreshIsNew
  <2> QED
    BY <1>6, <2>1 DEF Young
<1>7. CASE r = run[p] /\ pc[p] = "allocate"
  <2>1. Unborn(p)
    BY <1>4, <1>7 DEF UnbornIsAlone, Unborn, None, Runs
  <2>2. Young(r)
    BY <1>7, <2>1 DEF UnbornIsAlone
  <2> QED
    BY <1>4, <2>2, YoungStep
<1> QED
  BY <1>3, <1>5, <1>6, <1>7

\* The dead stay dead.
LEMMA GoneStep ==
  ASSUME Typed, UnbornIsAlone, NEW p \in Processes, Acts(p), NEW r \in Runs, Gone(r)
  PROVE  Gone(r)'
<1>1. Same(p) \/ Drops(p) \/ Resumes(p) \/ Starts(p) \/ Books(p)
  BY RunEffect
<1>2. r <= fresh' /\ r # fresh + 1 /\ r # None
  BY <1>1, Numbers DEF Gone, Same, Drops, Resumes, Starts, Books, None
<1>3. r \notin RunsOf(rows'[2])
  <2>1. 2 \in Files
    BY Bounds DEF Files
  <2>2. ~(r = run[p] /\ pc[p] = "allocate")
    BY DEF Gone, UnbornIsAlone
  <2> QED
    BY <1>2, <2>1, <2>2, RowsEffect DEF Gone
<1>4. ASSUME NEW q \in Processes, run'[q] = r PROVE owner'[q]
  <2>1. CASE q # p
    BY <1>4, <2>1, Frame DEF Gone
  <2>2. CASE q = p
    BY <1>1, <1>2, <1>4, <2>2 DEF Gone, Same, Drops, Resumes, Starts, Books
  <2> QED
    BY <2>1, <2>2
<1> QED
  BY <1>2, <1>3, <1>4 DEF Gone

\* A run without a row that is in nobody's hand, or in the hand of one who has had it.
LEMMA RowlessIsGone ==
  ASSUME Typed, FreshIsNew, UnbornIsAlone, NEW r \in Runs,
         r \notin RunsOf(rows[2]), dirs[r] # None, ~Young(r)
  PROVE  Gone(r)
<1>1. r <= fresh
  BY Numbers DEF FreshIsNew
<1>2. ASSUME NEW q \in Processes, run[q] = r PROVE owner[q]
  BY <1>2 DEF UnbornIsAlone, Unborn, None, Runs
<1> QED
  BY <1>1, <1>2 DEF Gone

LEMMA RemovesStep ==
  ASSUME Typed, SameFile, FreshIsNew, UnbornIsAlone, OnlyPurgersPurge, NewRowsAreYoung,
         RemovesTheGone, NEW p \in Processes, Acts(p)
  PROVE  RemovesTheGone'
<1> SUFFICES ASSUME NeverPurged', NEW q \in Processes
             PROVE  /\ pc'[q] = "remove" => Gone(doomed[q])'
                    /\ pc'[q] = "sweep"  => \A r \in todo'[q] : Gone(r)'
  BY DEF RemovesTheGone
<1>0. NeverPurged /\ 2 \in Files /\ Typed'
  BY NoReturn, Bounds, TypeNext DEF Files, Next, Acts
<1>1. CASE q # p
  <2>1. /\ pc'[q] = pc[q] /\ doomed'[q] = doomed[q] /\ todo'[q] = todo[q]
    BY <1>1, Frame, PassFrame
  <2>2. ASSUME pc[q] = "remove" PROVE Gone(doomed[q])'
    <3>1. PICK r \in Runs : r = doomed[q]
      BY <1>0, <2>2 DEF RemovesTheGone, Gone
    <3>2. Gone(r)'
      BY <1>0, <2>2, <3>1, GoneStep DEF RemovesTheGone
    <3> QED
      BY <2>1, <3>1, <3>2 DEF Gone
  <2>3. ASSUME pc[q] = "sweep", NEW r \in todo[q] PROVE Gone(r)'
    BY <1>0, <2>3, GoneStep DEF RemovesTheGone, Typed, TypeOK
  <2> QED
    BY <2>1, <2>2, <2>3
<1>2. CASE q = p
  <2>1. ASSUME pc'[p] = "remove" PROVE Gone(doomed[p])'
    <3>1. /\ pc[p] = "delete" /\ HasRow(p, doomed'[p]) /\ UNCHANGED <<fresh, run, owner>>
          /\ rows' = [rows EXCEPT ![handle[p]] = {row \in Table(p) : row.run # doomed'[p]}]
      BY <2>1, PassEffect
    <3>2. Table(p) = rows[2] /\ handle[p] = 2
      BY <1>0, <3>1, PassOnDatabase DEF Passing
    <3>3. doomed'[p] \in RunsOf(rows[2]) /\ Recorded(doomed'[p])
      BY <1>0, <3>1, <3>2 DEF HasRow, Recorded
    <3>4. doomed'[p] \in Runs
      BY <1>0, <3>3 DEF RunsOf, Row, Typed, TypeOK
    <3>5. doomed'[p] <= fresh
      BY <3>3, <3>4, Numbers DEF FreshIsNew
    <3>6. \A o \in Processes : run[o] = doomed'[p] => owner[o]
      BY <3>3, <3>4 DEF UnbornIsAlone, Unborn, None, Runs
    <3>7. doomed'[p] \notin RunsOf(rows'[2])
      <4>1. rows'[2] = {row \in rows[2] : row.run # doomed'[p]}
        BY <1>0, <3>1, <3>2 DEF Typed, TypeOK
      <4> QED
        BY <4>1 DEF RunsOf
    <3> QED
      BY <3>1, <3>4, <3>5, <3>6, <3>7 DEF Gone
  <2>2. ASSUME pc'[p] = "sweep", NEW r \in todo'[p] PROVE Gone(r)'
    <3>1. r \in Runs
      BY <1>0 DEF Typed, TypeOK
    <3>2. CASE pc[p] = "sweep" /\ todo'[p] \subseteq todo[p]
      BY <1>0, <2>2, <3>1, <3>2, GoneStep DEF RemovesTheGone
    <3>3. CASE pc[p] = "walk" /\ todo'[p] = {x \in Runs : Orphan(x, listed[p])}
      <4>1. dirs[r] # None /\ r \notin listed[p] /\ ~Young(r)
        BY <2>2, <3>1, <3>3, Numbers DEF Orphan, Young
      <4>2. r \notin RunsOf(rows[2])
        BY <1>0, <3>3, <4>1 DEF NewRowsAreYoung
      <4> QED
        BY <3>1, <4>1, <4>2, RowlessIsGone, GoneStep
    <3> QED
      BY <2>2, <3>2, <3>3, PassEffect
  <2> QED
    BY <1>2, <2>1, <2>2
<1> QED
  BY <1>1, <1>2

\* The clock stands still for a walk, and for a dry run whose directory would grow old.
LEMMA ClockStep ==
  ASSUME SInv, Tick
  PROVE  SInv'
<1> USE DEF SInv
<1>0. IInv'
  BY InvNext DEF Next
<1>1. /\ UNCHANGED <<fresh, lockfile, database, rows, dirs, pc, run, owner, todo, listed, doomed>>
      /\ now' = now + 1 /\ SetUpWithinGrace
  BY DEF Tick, tree, hand, pass
<1>2. ASSUME NEW p \in Processes, Unborn(p) PROVE Young(run[p])'
  <2>1. Young(run[p]) /\ pc[p] \in {"setUp", "allocate"}
        /\ (pc[p] = "setUp" \/ p \notin Dry => dirs[run[p]] = None)
    BY <1>2 DEF UnbornIsAlone
  <2>2. CASE dirs[run[p]] = None
    BY <1>1, <2>2 DEF Young
  <2>3. CASE dirs[run[p]] # None
    <3>1. p \in Dry /\ pc[p] = "allocate" /\ run[p] \in Runs
      BY <2>1, <2>3 DEF IInv, Typed, InHand, WithRun
    <3>2. now + 1 < dirs[run[p]] + OrphanGrace - 1
      BY <1>1, <2>3, <3>1 DEF SetUpWithinGrace
    <3>3. now \in Nat /\ OrphanGrace \in Nat /\ dirs[run[p]] \in Nat
      BY <3>1, Numbers DEF IInv
    <3>4. now' + 1 < dirs[run[p]] + OrphanGrace
      BY <1>1, <3>2, <3>3
    <3> QED
      BY <1>1, <3>4 DEF Young
  <2> QED
    BY <2>2, <2>3
<1>3. FreshIsNew'
  BY <1>1 DEF FreshIsNew, Recorded
<1>4. UnbornIsAlone'
  BY <1>1, <1>2 DEF UnbornIsAlone, Unborn, Recorded
<1>5. NewRowsAreYoung'
  BY <1>1 DEF NewRowsAreYoung, SetUpWithinGrace
<1>6. OnlyPurgersPurge' /\ RemovesTheGone'
  BY <1>1 DEF OnlyPurgersPurge, RemovesTheGone, Gone, NeverPurged
<1> QED
  BY <1>0, <1>3, <1>4, <1>5, <1>6

LEMMA SInvInit == Init => SInv
<1> SUFFICES ASSUME Init PROVE SInv
  OBVIOUS
<1>1. FreshIsNew
  BY DEF Init, FreshIsNew, Recorded, RunsOf, None, Runs
<1>2. \A p \in Processes : pc[p] = "idle" /\ run[p] = None
  BY DEF Init
<1>3. UnbornIsAlone /\ NewRowsAreYoung /\ RemovesTheGone
  BY <1>2 DEF UnbornIsAlone, Unborn, NewRowsAreYoung, RemovesTheGone
<1>4. OnlyPurgersPurge
  BY <1>2 DEF OnlyPurgersPurge, Passing
<1> QED
  BY <1>1, <1>3, <1>4, InvInit DEF SInv

LEMMA SInvNext == SInv /\ [Next]_vars => SInv'
<1> SUFFICES ASSUME SInv, [Next]_vars PROVE SInv'
  OBVIOUS
<1>0. IInv'
  BY InvNext DEF SInv
<1>1. CASE UNCHANGED vars
  BY <1>0, <1>1 DEF vars, tree, hand, pass, SInv, FreshIsNew, UnbornIsAlone, Unborn, Recorded,
                    Young, OnlyPurgersPurge, NewRowsAreYoung, RemovesTheGone, Gone, NeverPurged
<1>2. CASE Tick
  BY <1>2, ClockStep
<1>3. ASSUME NEW p \in Processes, Acts(p) PROVE SInv'
  BY <1>0, <1>3, FreshStep, UnbornStep, PurgersStep, NewRowsStep, RemovesStep DEF SInv, IInv
<1> QED
  BY <1>1, <1>2, <1>3, NextActs

\* A directory that goes, but by a purge, is a deleted run's or an orphan's.
LEMMA SweptIsGone ==
  ASSUME SInv, [Next]_vars, NeverPurged, \A p \in Purgers : pc[p] # "purge",
         NEW r \in Runs, dirs[r] # None, dirs'[r] = None
  PROVE  /\ r \notin RunsOf(rows[database])
         /\ \A p \in Dry : ~(run[p] = r /\ pc[p] = "allocate")
<1>1. PICK p \in Processes : Acts(p)
  BY NextActs DEF vars, tree, Tick
<1>2. \/ pc[p] = "remove" /\ r = doomed[p]
      \/ pc[p] = "sweep" /\ r \in todo[p]
      \/ pc[p] = "purge"
  BY <1>1, DirsEffect, Numbers DEF SInv, IInv, None
<1>3. Gone(r)
  <2>1. pc[p] # "purge"
    BY DEF SInv, OnlyPurgersPurge
  <2> QED
    BY <1>2, <2>1 DEF SInv, RemovesTheGone
<1>4. r \notin RunsOf(rows[database])
  BY <1>3 DEF Gone, NeverPurged
<1>5. ASSUME NEW d \in Dry, run[d] = r, pc[d] = "allocate" PROVE FALSE
  BY <1>3, <1>5 DEF Gone, SInv, UnbornIsAlone, Processes, Runners, Reviewers
<1> QED
  BY <1>4, <1>5

(* Every state has the types of TypeOK, for any processes and any number   *)
(* of runs and invocations.                                                *)
THEOREM TypeCorrect == Spec => []TypeOK
<1>1. Typed => TypeOK
  BY DEF Typed
<1> QED
  BY <1>1, TypeInit, TypeNext, PTL DEF Spec

(* A dry run or a response run that has got the active-runs lock keeps its *)
(* row and its directory until it ends, however many other runs, retention *)
(* passes and purges start, race and crash, as long as no purge has taken  *)
(* the lock file or the database away.                                     *)
THEOREM LockedRunKept == Spec => []GuardedRunKept
<1>1. IInv => GuardedRunKept
  BY DEF IInv
<1> QED
  BY <1>1, InvInit, InvNext, PTL DEF Spec

(* Retention removes a directory only when the ledger has no row for it    *)
(* and no dry run is about to give it one, whatever runs start, resume and *)
(* crash between the deletion of the rows, the reading of the table and    *)
(* the sweep; assumed is what the grace is for: a directory does not reach *)
(* it before its run has a row, nor a sweep between its reads.             *)
THEOREM RetentionSparesRuns == Spec => SweepSparesRuns
<1>1. SInv /\ [Next]_vars
      => [\A r \in Runs :
            /\ dirs[r] # None /\ dirs'[r] = None
            /\ NeverPurged /\ \A p \in Purgers : pc[p] # "purge"
            => /\ r \notin RunsOf(rows[database])
               /\ \A p \in Dry : ~(run[p] = r /\ pc[p] = "allocate")]_vars
  BY SweptIsGone
<1> QED
  BY <1>1, SInvInit, SInvNext, PTL DEF Spec, SweepSparesRuns
=============================================================================
