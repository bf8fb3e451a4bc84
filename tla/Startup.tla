------------------------------ MODULE Startup ------------------------------
(***************************************************************************)
(* How a cr process comes by its ledger.  A command that writes review     *)
(* state first moves what an old release left below <root>/codereview into *)
(* the root: it renames that directory to codereview.migrating, looks      *)
(* whether an entry's name is taken in the root, and renames the entries   *)
(* one after the other.  No lock is held.  It then opens (or creates)      *)
(* ledger.db and brings its schema to the version the binary knows, one    *)
(* transaction per version.  A command that only reads does not migrate    *)
(* the directory and does not create the database.                         *)
(*                                                                         *)
(* Processes of several releases start at the same time, and any of them   *)
(* may die at any point.                                                   *)
(***************************************************************************)
EXTENDS Naturals, Sequences, Functions

CONSTANTS
  Processes,
  Version,        \* of each process, the schema version its release knows
  LastEntry,      \* entries are numbered in the order of their names; ledger.db is 1
  Directories,    \* those of them that are directories
  MaxStarts       \* bound: invocations

Entries   == 1..LastEntry
LedgerDb  == 1
Databases == {"legacy", "own"}
NoDb      == "none"

ASSUME StartupAssumption ==
  /\ LastEntry \in Nat \ {0} /\ MaxStarts \in Nat
  /\ Directories \subseteq Entries \ {LedgerDb}
  /\ Version \in [Processes -> Nat \ {0}]

VARIABLES
  place,      \* where each entry of the old release is, "none" if it had none
  staged,     \* codereview.migrating exists
  nested,     \* codereview exists
  own,        \* entries of the root that did not come from the old release
  early,      \* those of them that were there at first
  version,    \* schema version of either database
  applied,    \* the migrations either database has had (a history variable)
  pc, todo,   \* of each process: where it is, the entries it still has to see to
  names,      \* what ReadDir has told it
  handle,     \* the database it has opened
  current,    \* the schema version it has read last
  command,    \* review migrates and creates, prune migrates, show does neither
  alone,      \* nobody else has run since it began
  starts

tree  == <<place, staged, nested, own, early>>
hold  == <<todo, names, handle, current, command>>
startupVars  == <<tree, version, applied, pc, hold, alone, starts>>

Newest == CHOOSE v \in Range(Version) : \A w \in Range(Version) : w <= v

Commands == {"review", "prune", "show"}

Labels == {"idle", "statStaging", "statConflict", "statLegacy", "stage", "readDir", "check",
           "move", "removeDir", "open", "ensureMeta", "apply", "use"}

StartupTypeOK ==
  /\ place \in [Entries -> {"none", "legacy", "staging", "root"}]
  /\ staged \in BOOLEAN /\ nested \in BOOLEAN
  /\ own \subseteq Entries /\ early \subseteq Entries
  /\ version \in [Databases -> 0..Newest]
  /\ applied \in [Databases -> Seq(Nat)]
  /\ pc \in [Processes -> Labels]
  /\ todo \in [Processes -> SUBSET Entries] /\ names \in [Processes -> SUBSET Entries]
  /\ handle \in [Processes -> Databases \cup {NoDb}]
  /\ current \in [Processes -> Nat]
  /\ command \in [Processes -> Commands] /\ alone \in [Processes -> BOOLEAN]
  /\ starts \in 0..MaxStarts

Old        == {e \in Entries : place[e] # "none"}
At(where)  == {e \in Entries : place[e] = where}
InRoot     == At("root") \cup own
Earliest(set) == CHOOSE e \in set : \A f \in set : e <= f

\* The legacy database has been used before; one of the root may have been.
StartupInit ==
  /\ \E old \in SUBSET Entries \ {{}}, mine \in SUBSET Entries :
       /\ place = [e \in Entries |-> IF e \in old THEN "legacy" ELSE "none"]
       /\ own = mine /\ early = mine
  /\ staged = FALSE /\ nested = TRUE
  /\ \E v \in {1, 2} : version = [d \in Databases |-> IF d = "legacy" THEN 1 ELSE v]
  /\ applied = [d \in Databases |-> [i \in 1..version[d] |-> i]]
  /\ pc = [p \in Processes |-> "idle"]
  /\ todo = [p \in Processes |-> {}] /\ names = [p \in Processes |-> {}]
  /\ handle = [p \in Processes |-> NoDb] /\ current = [p \in Processes |-> 0]
  /\ command = [p \in Processes |-> "show"] /\ alone = [p \in Processes |-> FALSE]
  /\ starts = 0

Goto(p, label) == pc' = [pc EXCEPT ![p] = label]

Start(p) ==
  /\ pc[p] = "idle" /\ starts < MaxStarts
  /\ starts' = starts + 1
  /\ \E c \in Commands :
       /\ command' = [command EXCEPT ![p] = c]
       /\ Goto(p, IF c = "show" THEN "open" ELSE "statStaging")
  /\ alone' = [q \in Processes |-> q = p /\ \A r \in Processes : pc[r] = "idle"]
  /\ UNCHANGED <<tree, version, applied, todo, names, handle, current>>

\* The command fails, is done, or dies: what it had in hand is gone.
End(p) ==
  /\ Goto(p, "idle")
  /\ handle' = [handle EXCEPT ![p] = NoDb] /\ current' = [current EXCEPT ![p] = 0]
  /\ todo' = [todo EXCEPT ![p] = {}] /\ names' = [names EXCEPT ![p] = {}]
  /\ UNCHANGED command

-----------------------------------------------------------------------------
(* migrateLegacyRoot. *)

\* Taking a staged directory for one that somebody else is moving.
StatStagingOnce(p) ==
  /\ pc[p] = "statStaging"
  /\ Goto(p, IF staged THEN "open" ELSE "statLegacy")
  /\ UNCHANGED hold

StatStaging(p) ==
  /\ pc[p] = "statStaging"
  /\ Goto(p, IF staged THEN "statConflict" ELSE "statLegacy")
  /\ UNCHANGED hold

\* A staged directory and a new nested one: refuse.
StatConflict(p) ==
  /\ pc[p] = "statConflict"
  /\ IF nested THEN End(p) ELSE Goto(p, "readDir") /\ UNCHANGED hold

StatLegacy(p) ==
  /\ pc[p] = "statLegacy"
  /\ Goto(p, IF nested THEN "stage" ELSE "open")
  /\ UNCHANGED hold

\* A missing source, or a target that is a directory, fails the rename.
Stage(p) ==
  /\ pc[p] = "stage"
  /\ IF nested /\ ~staged
       THEN /\ nested' = FALSE /\ staged' = TRUE
            /\ place' = [e \in Entries |-> IF place[e] = "legacy" THEN "staging" ELSE place[e]]
            /\ Goto(p, "readDir")
            /\ UNCHANGED <<own, early, hold>>
       ELSE End(p) /\ UNCHANGED tree

ReadDir(p) ==
  /\ pc[p] = "readDir"
  /\ IF staged
       THEN /\ names' = [names EXCEPT ![p] = At("staging")]
            /\ todo' = [todo EXCEPT ![p] = At("staging")]
            /\ Goto(p, IF At("staging") = {} THEN "removeDir" ELSE "check")
            /\ UNCHANGED <<handle, current, command>>
       ELSE End(p)

Done(p, again, label) ==
  LET left == todo[p] \ {Earliest(todo[p])} IN
  /\ todo' = [todo EXCEPT ![p] = IF left = {} THEN again ELSE left]
  /\ Goto(p, IF left = {} THEN label ELSE pc[p])
  /\ UNCHANGED <<names, handle, current, command>>

\* Looking at the first target only.
CheckFirst(p) ==
  /\ pc[p] = "check"
  /\ IF Earliest(todo[p]) \in InRoot THEN End(p)
     ELSE /\ todo' = [todo EXCEPT ![p] = names[p]]
          /\ Goto(p, "move")
          /\ UNCHANGED <<names, handle, current, command>>

\* Lstat of one target.
Check(p) ==
  /\ pc[p] = "check"
  /\ IF Earliest(todo[p]) \in InRoot THEN End(p) ELSE Done(p, names[p], "move")

\* A file replaces a file of its name; a directory that is in the way fails the rename.
Move(p) ==
  LET e == Earliest(todo[p]) IN
  /\ pc[p] = "move"
  /\ IF place[e] # "staging" \/ (e \in own /\ e \in Directories)
       THEN End(p) /\ UNCHANGED tree
       ELSE /\ place' = [place EXCEPT ![e] = "root"]
            /\ own' = own \ {e}
            /\ Done(p, {}, "removeDir")
            /\ UNCHANGED <<staged, nested, early>>

\* Only an empty directory can be removed; one that is gone already will do.
RemoveDir(p) ==
  /\ pc[p] = "removeDir"
  /\ IF At("staging") # {}
       THEN End(p) /\ UNCHANGED tree
       ELSE /\ staged' = FALSE
            /\ Goto(p, "open")
            /\ UNCHANGED <<place, nested, own, early, hold>>

-----------------------------------------------------------------------------
(* ledger.Open and dbmig.Apply. *)

Open(p) ==
  /\ pc[p] = "open"
  /\ IF LedgerDb \notin InRoot /\ command[p] # "review"
       THEN End(p) /\ UNCHANGED <<tree, version, applied>>
       ELSE LET db == IF place[LedgerDb] = "root" THEN "legacy" ELSE "own" IN
            /\ handle' = [handle EXCEPT ![p] = db]
            /\ own' = IF db = "own" THEN own \cup {LedgerDb} ELSE own
            /\ IF LedgerDb \in InRoot
                 THEN UNCHANGED <<version, applied>>
                 ELSE /\ version' = [version EXCEPT !.own = 0]
                      /\ applied' = [applied EXCEPT !.own = <<>>]
            /\ Goto(p, "ensureMeta")
            /\ UNCHANGED <<place, staged, nested, early, todo, names, current, command>>

\* What follows from the version that was read.
Judge(p, v) ==
  IF v > Version[p] THEN End(p)
  ELSE /\ current' = [current EXCEPT ![p] = v]
       /\ Goto(p, IF v = Version[p] THEN "use" ELSE "apply")
       /\ UNCHANGED <<todo, names, handle, command>>

EnsureMeta(p) ==
  /\ pc[p] = "ensureMeta"
  /\ Judge(p, version[handle[p]])

\* Trusting the version of ensureMeta instead of reading it again.
ApplyBlindly(p) ==
  LET next == current[p] + 1 IN
  /\ pc[p] = "apply"
  /\ version' = [version EXCEPT ![handle[p]] = next]
  /\ applied' = [applied EXCEPT ![handle[p]] = Append(@, next)]
  /\ Judge(p, next)

\* One immediate transaction: another process may have applied it since.
ApplyMigration(p) ==
  LET db == handle[p]  next == current[p] + 1 IN
  /\ pc[p] = "apply"
  /\ IF version[db] >= next
       THEN Judge(p, version[db]) /\ UNCHANGED <<version, applied>>
       ELSE /\ version' = [version EXCEPT ![db] = next]
            /\ applied' = [applied EXCEPT ![db] = Append(@, next)]
            /\ Judge(p, next)

\* The command at work makes its directories (MkdirAll).
Work(p) ==
  /\ pc[p] = "use" /\ command[p] = "review"
  /\ \E e \in Directories \ InRoot : own' = own \cup {e}
  /\ UNCHANGED <<place, staged, nested, early, version, applied, pc, hold, alone, starts>>

Leave(p) == pc[p] = "use" /\ End(p) /\ UNCHANGED <<tree, version, applied, alone, starts>>

\* A failing call or statement ends the command like a crash does: nothing of it stays.
Crash(p) == /\ pc[p] \notin {"idle", "use"} /\ End(p)
            /\ UNCHANGED <<tree, version, applied, alone, starts>>

Look(p) == /\ StatStaging(p) \/ StatConflict(p) \/ StatLegacy(p) \/ ReadDir(p) \/ Check(p)
              \/ EnsureMeta(p)
           /\ UNCHANGED <<tree, version, applied, alone, starts>>
Change(p) == /\ Stage(p) \/ Move(p) \/ RemoveDir(p)
             /\ UNCHANGED <<version, applied, alone, starts>>

StartupNext == \E p \in Processes :
  \/ Start(p) \/ Look(p) \/ Change(p) \/ Work(p) \/ Leave(p) \/ Crash(p)
  \/ Open(p) /\ UNCHANGED <<alone, starts>>
  \/ ApplyMigration(p) /\ UNCHANGED <<tree, alone, starts>>

StartupSpec == StartupInit /\ [][StartupNext]_startupVars

-----------------------------------------------------------------------------
(* Properties.                                                             *)

(* A writing command that meets nobody else on its way to the database     *)
(* finds the whole old state in the root, whatever earlier starts had left *)
(* half moved when they died.                                              *)
AloneFindsAll ==
  \A p \in Processes : pc[p] = "open" /\ command[p] # "show" /\ alone[p] => Old \subseteq At("root")

(* What the root had of its own before any of these commands ran is never  *)
(* replaced by an entry of the old release.                                *)
EarlyKept == early \subseteq own

(* Each migration is run once on each database, in the order of versions,  *)
(* whichever processes of whichever releases share the work.               *)
MigratedInOrder == \A d \in Databases : applied[d] = [i \in 1..version[d] |-> i]

(* README: commands that write review state migrate the legacy entries     *)
(* into the root.  With two of them at once one may come to the database   *)
(* while the entries are on their way, or stuck there.                     *)
WritersFindAll ==
  \A p \in Processes : pc[p] = "open" /\ command[p] # "show" => Old \subseteq At("root")

=============================================================================
