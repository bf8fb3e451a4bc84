---------------------------- MODULE ReviewScope ----------------------------
(* Who reviews what.                                                        *)
(*                                                                          *)
(* The orchestrator model proposes reviewers with assignments of changed    *)
(* files; the pipeline adjusts the proposal to the catalog (required        *)
(* reviewers, caps, exclusions, files left over), or rebases the cohort     *)
(* saved at the pull request's first review onto the present change.  This  *)
(* module holds those adjustments as operators on sequences of assignments, *)
(* and the accounting of what the reviewers then read.                      *)
(*                                                                          *)
(* An assignment is a record of an agent, its files and its allowed files.  *)
(* With neither, the agent is broad: it is assigned the whole change.       *)
EXTENDS Naturals, Sequences, FiniteSets

CONSTANTS
  Files,             \* paths of the repository
  Lockfiles,         \* those with the base name of a generated lockfile
  Agents,            \* reviewers any catalog may hold
  Order,             \* a sequence of them: the order of catalogs
  Repo,              \* reviewers defined in the reviewed repository itself
  Globless,          \* reviewers that declare no file_globs
  Include,           \* the files an agent's include globs match
  Exclude,           \* the files its exclusion globs match
  MaxAgents,         \* --max-agents, 0 when it is not given
  DefaultMaxAgents   \* the limit on optional reviewers without the flag

ASSUME ScopeAssumption ==
  /\ Lockfiles \subseteq Files
  /\ Repo \subseteq Agents /\ Globless \subseteq Agents
  /\ Order \in Seq(Agents) /\ \A a \in Agents : \E i \in DOMAIN Order : Order[i] = a
  /\ Include \in [Agents -> SUBSET Files] /\ Exclude \in [Agents -> SUBSET Files]
  /\ MaxAgents \in Nat /\ DefaultMaxAgents \in Nat

-----------------------------------------------------------------------------
(* The change.  A head says of each path how the pull request changes it.   *)

\* A "moved" path has the old content under a new name, a "binary" one no text
\* to inspect, an "empty" one was added without content.
Kinds == {"same", "edited", "moved", "binary", "gone", "empty"}
Heads == [Files -> Kinds]

Changed(h) == {f \in Files : h[f] \in {"edited", "moved", "binary"}}
Contentless(h) == {f \in Files : h[f] \in {"gone", "empty"}}
Moves(h) == {f \in Files : h[f] = "moved"}
\* Generated lockfiles are no coverage obligation.
Reviewable(S) == S \ Lockfiles
Obligations(h) == Reviewable(Changed(h)) \ Contentless(h)

-----------------------------------------------------------------------------
(* The catalog: the agents present and those marked required_on_match.      *)

Catalogs == {c \in [present : SUBSET Agents, required : SUBSET Agents] :
               c.required \subseteq c.present}

\* The entries of a sequence at some of its positions, in their order.  (What
\* SelectSeq gives, said without its recursion.)
Rank(K, i) == Cardinality({j \in K : j <= i})
EntriesAt(s, K) == [k \in 1..Cardinality(K) |-> s[CHOOSE i \in K : Rank(K, i) = k]]
Where(s, Test(_)) == EntriesAt(s, {i \in DOMAIN s : Test(s[i])})
InCatalog(c) == Where(Order, LAMBDA a : a \in c.present)

Matches(a, f) == f \in Include[a] \ Exclude[a]
HasExclusions(a) == Exclude[a] # {}
RequiredFiles(c, a, changed) == {f \in changed : a \in c.required /\ Matches(a, f)}
IsRequired(c, a, changed) == a \in c.present /\ (a \in Repo \/ RequiredFiles(c, a, changed) # {})
\* An agent of the catalog could review the file.
Coverable(c, f) == \E a \in c.present : a \in Globless \/ Matches(a, f)

-----------------------------------------------------------------------------
(* Assignments.                                                             *)

Assignments == [agent : Agents, files : SUBSET Files, allowed : SUBSET Files]
Broad(s) == s.files = {} /\ s.allowed = {}
Scope(s, changed) == CASE s.allowed # {} -> s.allowed
                       [] s.allowed = {} /\ s.files # {} -> s.files
                       [] OTHER -> changed
Covered(sel, changed) == UNION {Scope(sel[i], changed) : i \in DOMAIN sel}
Chosen(sel) == {sel[i].agent : i \in DOMAIN sel}

\* The first entry of a sequence for which the test holds; 0 for none.
First(sel, Test(_)) ==
  LET hits == {i \in DOMAIN sel : Test(sel[i])}
  IN  IF hits = {} THEN 0 ELSE CHOOSE i \in hits : \A j \in hits : i <= j

EachEntry(sel, Op(_, _)) == [i \in DOMAIN sel |-> Op(i, sel[i])]

\* Contentless paths leave explicit assignments; a reviewer with nothing else
\* to read goes with them.
FilterAssignments(sel, changed) ==
  LET Cut(s) == [s EXCEPT !.files = @ \cap changed, !.allowed = @ \cap changed]
      Keeps(s) == Broad(s) \/ ~Broad(Cut(s))
      kept == Where(sel, Keeps)
  IN  IF changed = {} THEN <<>> ELSE [i \in DOMAIN kept |-> Cut(kept[i])]

\* What required_on_match adds: one assignment for each matching agent that
\* the sequence lacks, in the catalog's order.
Newcomers(sel, c, changed) ==
  LET missing == Where(InCatalog(c), LAMBDA a : RequiredFiles(c, a, changed) # {}
                                                    /\ a \notin Chosen(sel))
  IN  [i \in DOMAIN missing |->
         [agent |-> missing[i], files |-> RequiredFiles(c, missing[i], changed),
          allowed |-> RequiredFiles(c, missing[i], changed)]]

\* A fresh selection narrows a required reviewer to exactly its matches.
EnsureRequired(sel, c, changed) ==
  LET Narrow(i, s) ==
        LET matched == RequiredFiles(c, s.agent, changed)
        IN  IF matched # {} /\ i = First(sel, LAMBDA e : e.agent = s.agent)
            THEN [s EXCEPT !.files = matched, !.allowed = matched] ELSE s
  IN  EachEntry(sel, Narrow) \o Newcomers(sel, c, changed)

\* As if a member that is required had all it needs.
WidenNewcomers(sel, c, changed) == sel \o Newcomers(sel, c, changed)

\* A reused cohort keeps what a required reviewer holds and adds its matches.
WidenRequired(sel, c, changed) ==
  LET Widen(i, s) ==
        LET matched == RequiredFiles(c, s.agent, changed)
        IN  IF matched = {} \/ Broad(s) \/ i # First(sel, LAMBDA e : e.agent = s.agent) THEN s
            ELSE [s EXCEPT !.files = @ \cup matched,
                           !.allowed = IF @ = {} THEN @ ELSE @ \cup matched]
  IN  EachEntry(sel, Widen) \o Newcomers(sel, c, changed)

RequiredPart(sel, c, changed) == Where(sel, LAMBDA s : IsRequired(c, s.agent, changed))
SharedPart(sel, c, changed) == Where(sel, LAMBDA s : ~IsRequired(c, s.agent, changed))
TooManyRequired(sel, c, changed) ==
  MaxAgents > 0 /\ Len(RequiredPart(sel, c, changed)) > MaxAgents

\* --max-agents caps all reviewers, its default the optional ones only; the
\* required ones go first when anything is cut.
CapAgents(sel, c, changed) ==
  LET required == RequiredPart(sel, c, changed)
      shared == SharedPart(sel, c, changed)
  IN  CASE MaxAgents > 0 /\ Len(sel) > MaxAgents -> SubSeq(required \o shared, 1, MaxAgents)
        [] MaxAgents = 0 /\ Len(shared) > DefaultMaxAgents ->
             required \o SubSeq(shared, 1, DefaultMaxAgents)
        [] OTHER -> sel

\* Exclusions hold for assignments, too: a broad reviewer with exclusions is
\* given the files it may read, and one left with none is dropped.
Reconcile(sel, c, changed) ==
  LET Allowed(s) == {f \in changed : Matches(s.agent, f)}
      Bound(s) == s.agent \in c.present /\ HasExclusions(s.agent)
      files(s) == s.files \cap Allowed(s)
      allowed(s) == s.allowed \cap Allowed(s)
      Cut(s) ==
        CASE ~Bound(s) -> s
          [] Bound(s) /\ Broad(s) -> [s EXCEPT !.files = Allowed(s), !.allowed = Allowed(s)]
          [] OTHER -> [s EXCEPT !.files = files(s),
                                !.allowed = IF allowed(s) = {} THEN files(s) ELSE allowed(s)]
      kept == Where(sel, LAMBDA s : Bound(s) => ~Broad(Cut(s)))
  IN  [i \in DOMAIN kept |-> Cut(kept[i])]

\* Every file no scope holds goes to the first reviewer whose globs match it.
CoverLeftovers(sel, c, changed) ==
  LET base == Reconcile(sel, c, changed)
      left == Reviewable(changed) \ Covered(base, changed)
      Gets(i) == {f \in left : i = First(base, LAMBDA s : s.agent \in c.present /\ Matches(s.agent, f))}
      Extend(i, s) == [s EXCEPT !.files = IF @ = {} THEN @ ELSE @ \cup Gets(i),
                                !.allowed = IF @ = {} THEN @ ELSE @ \cup Gets(i)]
  IN  EachEntry(base, Extend)

\* What a fresh selection makes of the orchestrator's proposal.
Adjusted(proposal, c, changed) ==
  LET required == EnsureRequired(FilterAssignments(proposal, changed), c, changed)
  IN  CoverLeftovers(CapAgents(required, c, changed), c, changed)
Refused(proposal, c, changed) ==
  TooManyRequired(EnsureRequired(FilterAssignments(proposal, changed), c, changed), c, changed)

-----------------------------------------------------------------------------
(* The saved cohort: the reviewers of the first review with their           *)
(* assignments.  A broad member is saved without files.                     *)

\* The files a member brings along from its saved assignment.
Brought(m, changed) ==
  {f \in (IF m.allowed # {} THEN m.allowed ELSE m.files) \cap changed :
     HasExclusions(m.agent) => Matches(m.agent, f)}
Takes(m, f) == (Broad(m) /\ ~HasExclusions(m.agent)) \/ Matches(m.agent, f)

Rebase(cohort, c, changed) ==
  LET brought == UNION {Brought(cohort[i], changed) : i \in DOMAIN cohort}
      Gets(i) == {f \in changed \ brought : i = First(cohort, LAMBDA m : Takes(m, f))}
      files == [i \in DOMAIN cohort |-> Brought(cohort[i], changed) \cup Gets(i)]
      Rebased(i, m) ==
        [agent |-> m.agent, files |-> files[i],
         allowed |-> IF Broad(m) /\ ~HasExclusions(m.agent) THEN {} ELSE files[i]]
  IN  CoverLeftovers(Where(EachEntry(cohort, Rebased), LAMBDA s : s.files # {}), c, changed)

\* The cohort's reviewers on this change, with the required ones that join.
Reused(cohort, c, changed) ==
  CoverLeftovers(WidenRequired(Rebase(cohort, c, changed), c, changed), c, changed)
Joining(cohort, c, changed) ==
  Where(Reused(cohort, c, changed), LAMBDA s : s.agent \notin Chosen(cohort))

\* Files the reused reviewers leave out though some agent could review them.
CoverageGap(cohort, c, changed) ==
  {f \in Reviewable(changed) \ Covered(Reused(cohort, c, changed), changed) : Coverable(c, f)}

\* The cohort cannot be reused: the user is told to pass --fresh-session.
NeedsFresh(cohort, c, changed) ==
  \/ ~(Chosen(cohort) \subseteq c.present)
  \/ MaxAgents > 0 /\ Len(cohort) > MaxAgents
  \/ /\ Joining(cohort, c, changed) # <<>>
     /\ MaxAgents > 0 /\ Len(cohort) + Len(Joining(cohort, c, changed)) > MaxAgents
  \/ CoverageGap(cohort, c, changed) # {}

Grown(cohort, c, changed) == cohort \o Joining(cohort, c, changed)

-----------------------------------------------------------------------------
(* What a reviewer read.  A result holds the files its passes inspected,    *)
(* those they skipped, and the moved files whose effect on other paths they *)
(* assessed; a failed reviewer and one whose tool evidence does not hold    *)
(* say so.                                                                  *)

Results == [inspected : SUBSET Files, skipped : SUBSET Files, assessed : SUBSET Files,
            failed : BOOLEAN, tool : BOOLEAN]

Missing(scope, r) == scope \ (r.inspected \cup (r.assessed \ r.skipped))

\* What the focused second pass is asked to read.
RepairFiles(h, scope, r) == Reviewable(Missing(scope, r)) \cap {f \in Files : h[f] \in {"edited", "moved"}}
NeedsRepair(h, scope, r) == ~r.failed /\ r.tool /\ RepairFiles(h, scope, r) # {}

Merged(r, repair) ==
  [inspected |-> r.inspected \cup repair.inspected,
   skipped |-> (r.skipped \ (repair.inspected \cup repair.assessed)) \cup repair.skipped,
   assessed |-> r.assessed \cup repair.assessed,
   failed |-> r.failed, tool |-> r.tool]

CoverageScope(h, s) == Reviewable(Scope(s, Obligations(h))) \ Contentless(h)

\* The reviewer met its obligation.
Complete(h, s, r) ==
  LET scope == CoverageScope(h, s)
  IN  ~r.failed /\ r.tool /\ r.skipped \cap scope = {} /\ Missing(scope, r) = {}

Unassigned(h, sel) ==
  Obligations(h) \ UNION {CoverageScope(h, sel[i]) : i \in DOMAIN sel}

\* The rollup may approve: no reviewer fell short, and no file was left over.
CoverageComplete(h, sel, results) ==
  /\ \A i \in DOMAIN sel : Complete(h, sel[i], results[i])
  /\ Unassigned(h, sel) = {}
=============================================================================
