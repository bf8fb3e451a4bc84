---------------------------- MODULE InitSession ----------------------------
(***************************************************************************)
(* `cr init` at a terminal.  The user stages edits on a copy of the        *)
(* configuration: profiles, repository accesses, reviewer entities, LLM    *)
(* runtimes, their deletions and the undoing of those.  On Save the        *)
(* session works out which credentials the touched profiles need, asks for *)
(* those it lacks, writes them to the credential store, saves the          *)
(* configuration, and removes the keys of a reviewer whose kind of         *)
(* credential has changed.  Meanwhile another command saves the            *)
(* configuration or writes a credential.                                   *)
(***************************************************************************)
EXTENDS ConfigFile, Sequences

CONSTANTS
  FirstConfigs,   \* what the file may contain at first; None is no file
  FirstKeys,      \* what the credential store contains at first
  MaxEdits,       \* bound: edits and deletions that are staged
  Faults          \* TRUE: a call may fail and the session may be killed

Savers == {"init", "other"}

\* A file has what the types of the configuration say; None is no name and no contents.
ASSUME InitSessionAssumption ==
  /\ FirstConfigs \subseteq Config \cup {None}
  /\ None \notin Savers /\ None \notin EntityNames
  /\ None \notin EntityValues /\ None \notin LLMs

VARIABLES
  disk,          \* the configuration file, or None
  store,         \* the keys in the credential store
  lock,          \* who has the lock of the configuration file, or None
  pc,
  base, draft,   \* of each saver, what it has loaded and what it will save
  \* The session of cr init.
  cfg, active, touched, writes, overwrite, satisfied,
  pending,       \* the deletions that can be undone
  edits,
  \* Its plan: what it must have, what is settled, what it will write and remove.
  entries, settled, planned, forced, stale, written,
  \* History: that init has saved; the deletions not undone, latest first.
  saved, trail

session == <<cfg, active, touched, writes, overwrite, satisfied, pending, edits, trail>>
plan    == <<entries, settled, planned, forced, stale, written>>
world   == <<disk, store, lock, base, draft>>
sessionVars == <<world, pc, session, plan, saved>>

Labels == {"idle", "menu", "ask", "apply", "write", "acquire", "check", "rename", "clean", "done"}
Pairs  == Credentials \X Keys
Kinds  == {"profile", "access", "entity", "runtime"}

SessionTypeOK ==
  /\ disk \in {None} \cup Config
  /\ store \subseteq Pairs /\ lock \in Savers \cup {None}
  /\ pc \in [Savers -> Labels]
  /\ base \in [Savers -> {None} \cup Config] /\ draft \in [Savers -> {None} \cup Config]
  /\ cfg \in Config
  /\ active \in {None} \cup [name : Profiles, profile : Profile]
  /\ touched \in Maps(Profiles, Profiles \cup {None}) /\ DOMAIN touched \subseteq DOMAIN cfg.profile
  /\ writes \subseteq Pairs /\ overwrite \subseteq Credentials /\ satisfied \subseteq Credentials
  /\ DOMAIN pending = Kinds
  /\ edits \in 0..MaxEdits
  /\ settled \subseteq entries
  /\ planned \subseteq Pairs /\ forced \subseteq Credentials /\ stale \subseteq Pairs
  /\ written \subseteq Credentials /\ saved \in BOOLEAN

Loaded(s) == IF base[s] = None THEN EmptyConfig ELSE base[s]
First(set) == CHOOSE p \in set : \A q \in set : p <= q

Workspace(c, name) == [name |-> name, profile |-> c.profile[name]]

\* rebuildInteractiveInitWorkspace for preferredInteractiveInitProfile.
Rebuilt(c) ==
  IF DOMAIN c.profile = {} THEN None
  ELSE IF active # None /\ active.name \in DOMAIN c.profile THEN Workspace(c, active.name)
  ELSE Workspace(c, First(DOMAIN c.profile))

NothingPending == [kind \in Kinds |-> Nothing]

SessionInit ==
  /\ disk \in FirstConfigs /\ store = FirstKeys /\ lock = None
  /\ pc = [s \in Savers |-> IF s = "init" THEN "menu" ELSE "idle"]
  /\ base = [s \in Savers |-> IF s = "init" THEN disk ELSE None]
  /\ draft = [s \in Savers |-> None]
  /\ cfg = IF disk = None THEN EmptyConfig ELSE disk
  /\ active = IF 1 \in DOMAIN cfg.profile THEN Workspace(cfg, 1) ELSE None
  /\ touched = Nothing /\ writes = {} /\ overwrite = {} /\ satisfied = {}
  /\ pending = NothingPending
  /\ edits = 0 /\ trail = <<>>
  /\ entries = {} /\ settled = {} /\ planned = {} /\ forced = {} /\ stale = {}
  /\ written = {} /\ saved = FALSE

Goto(s, label) == pc' = [pc EXCEPT ![s] = label]

-----------------------------------------------------------------------------
(* Staging.                                                                *)

InMenu == pc["init"] = "menu"

\* An edit that is refused ends the session, and nothing of it is kept.
Abandon ==
  /\ InMenu
  /\ Goto("init", "done")
  /\ UNCHANGED <<world, session, plan, saved>>

StageEdit ==
  /\ InMenu /\ edits < MaxEdits
  /\ edits' = edits + 1 /\ trail' = <<>>
  /\ UNCHANGED <<world, pc, plan, saved, pending>>

Staged(credential, keys) == {w \in writes : w[1] = credential /\ w[2] \in keys}
StagedKeys(ref) == {w[2] : w \in {x \in writes : x[1] = ref.cred}}

\* mergeGitCredentialDraftWrites, mergeReviewerCredentialDraftWrites.  The editor
\* lets a draft pass only when its key is stored, staged, written or kept by name.
MergeWrites(value, keepsName) ==
  LET mine == <<value.cred, Key(value.mode)>>
      had  == Staged(value.cred, Keys) # {}
      kept == (writes \ Staged(value.cred, Keys)) \cup Staged(value.cred, {Key(value.mode)})
  IN
  /\ \E new \in BOOLEAN :
       /\ new \/ keepsName \/ mine \in store \cup writes
       /\ writes' = IF new THEN kept \cup {mine} ELSE kept
       /\ overwrite' = IF new /\ (keepsName \/ mine \in store) THEN overwrite \cup {value.cred}
                       ELSE IF new \/ ~had THEN overwrite \ {value.cred} ELSE overwrite
  /\ satisfied' = satisfied \cup {value.cred}

KeepsName(parts, name, value) == name \in DOMAIN parts /\ parts[name].cred = value.cred

\* stageStandaloneInteractiveInitRepositoryAccess.
StageAccess(name, value) ==
  LET working == [cfg EXCEPT !.access = With(@, name, value)] IN
  /\ StageEdit
  /\ Valid(working)
  /\ cfg' = Normalized(working)
  /\ active' = Rebuilt(Normalized(working))
  /\ MergeWrites(value, KeepsName(cfg.access, name, value))
  /\ UNCHANGED touched

\* ValidatePlannedWriteKeys for every credential a profile refers to.
WritesFit(profile, pairs) ==
  \A ref \in CredentialRefs(profile) : \A w \in pairs : w[1] = ref.cred => w[2] = Key(ref.mode)

\* stageStandaloneInteractiveInitReviewerEntity; the workspace is only planned again.
StageEntity(name, value) ==
  LET working == [cfg EXCEPT !.entity = With(@, name, value)] IN
  /\ StageEdit
  /\ GloballyValid(working)
  /\ cfg' = Normalized(working)
  /\ MergeWrites(value, KeepsName(cfg.entity, name, value))
  /\ active # None => WritesFit(active.profile, writes')
  /\ UNCHANGED <<active, touched>>

\* stageStandaloneInteractiveInitLLMRuntime.
StageRuntime(name, llm) ==
  LET working == [cfg EXCEPT !.runtime = With(@, name, llm)] IN
  /\ StageEdit
  /\ active = None
  /\ GloballyValid(working)
  /\ cfg' = Normalized(working)
  /\ UNCHANGED <<active, touched, writes, overwrite, satisfied>>

Blank == [access |-> None, git |-> None, reviewer |-> None, creds |-> None,
          runtime |-> None, llm |-> None]

\* materializeProfileRepositoryAccess, -ReviewerEntity, -LLMRuntime: parts with the
\* wanted contents are used, the profile's own access first; the others are added,
\* an LLM runtime under the name the profile had.
AccessFor(c, profile, git) ==
  IF profile.access \in NamesOf(c.access, git) THEN {profile.access}
  ELSE IF NamesOf(c.access, git) # {} THEN {CHOOSE n \in NamesOf(c.access, git) : TRUE}
  ELSE AccessNames \ DOMAIN c.access

EntityFor(c, creds) ==
  IF creds = None THEN {None}
  ELSE IF NamesOf(c.entity, creds) # {} THEN {CHOOSE n \in NamesOf(c.entity, creds) : TRUE}
  ELSE EntityNames \ DOMAIN c.entity

RuntimeFor(c, profile, llm) ==
  IF NamesOf(c.runtime, llm) # {} THEN {CHOOSE n \in NamesOf(c.runtime, llm) : TRUE}
  ELSE IF profile.runtime # None THEN {profile.runtime}
  ELSE RuntimeNames \ DOMAIN c.runtime

Furnished(c, name, git, creds, llm, a, e, r) ==
  [c EXCEPT
     !.access  = With(@, a, git),
     !.entity  = IF e = None THEN @ ELSE With(@, e, creds),
     !.runtime = With(@, r, llm),
     !.profile = With(@, name, [access |-> a, git |-> git, reviewer |-> e, creds |-> creds,
                                runtime |-> r, llm |-> llm])]

Materialized(c, name, previous, git, creds, llm) ==
  {Furnished(c, name, git, creds, llm, a, e, r)
     : a \in AccessFor(c, previous, git), e \in EntityFor(c, creds),
       r \in RuntimeFor(c, previous, llm)}

\* configedit.RenameProfile.
Renamed(c, from, to) ==
  IF from = to THEN c
  ELSE [c EXCEPT !.profile = Without(With(@, to, @[from]), from),
                 !.routes = IF from \in @ THEN (@ \ {from}) \cup {to} ELSE @]

\* recordTouchedProfile: the name under which the profile was loaded.
Touch(name, original) ==
  LET known  == IF original # None THEN Find(touched, original, original) ELSE None
      loaded == IF known = None /\ name \in DOMAIN Loaded("init").profile THEN name ELSE known
      others == IF original \notin {None, name} THEN Without(touched, original) ELSE touched
  IN touched' = With(others, name, loaded)

\* applyInteractiveInitProfileDraft: a new profile, or one edited and perhaps renamed.
EditProfile(original, name, git, creds, llm, routed) ==
  LET previous == IF original = None THEN Blank ELSE cfg.profile[original]
      renamed  == IF original = None THEN cfg ELSE Renamed(cfg, original, name)
  IN
  /\ StageEdit
  /\ original \in DOMAIN cfg.profile \cup {None}
  /\ name = original \/ name \notin DOMAIN cfg.profile
  /\ \E working \in Materialized(renamed, name, previous, git, creds, llm) :
       LET next == [working EXCEPT !.routes = IF routed THEN @ \cup {name} ELSE @ \ {name}] IN
       /\ Valid(working) /\ Valid(next)
       /\ cfg' = next
       /\ active' = Workspace(next, name)
  /\ Touch(name, original)
  /\ UNCHANGED <<writes, overwrite, satisfied>>

\* editInteractiveInitLLMRuntimeStep for the profile of the workspace.
EditRuntime(llm) ==
  /\ StageEdit
  /\ active # None
  /\ LET p == active.name IN
     \E working \in Materialized(cfg, p, cfg.profile[p], active.profile.git,
                                 active.profile.creds, llm) :
       /\ Valid(working)
       /\ cfg' = working
       /\ active' = Workspace(working, p)
       /\ IF working.profile[p] # active.profile THEN Touch(p, p) ELSE UNCHANGED touched
  /\ UNCHANGED <<writes, overwrite, satisfied>>

-----------------------------------------------------------------------------
(* Deleting, and undoing a deletion: the details that come with a name     *)
(* hold what to put back.                                                  *)

StageDeletion(kind, name, traced, details) ==
  /\ InMenu /\ edits < MaxEdits
  /\ name \notin DOMAIN pending[kind]
  /\ edits' = edits + 1
  /\ pending' = [pending EXCEPT ![kind] = With(@, name, details)]
  /\ trail' = IF traced
              THEN <<[kind |-> kind, name |-> name, cfg |-> cfg, touched |-> touched]>> \o trail
              ELSE <<>>
  /\ UNCHANGED <<world, pc, plan, saved, writes, overwrite, satisfied>>

IsLatest(kind, name) == trail # <<>> /\ Head(trail).kind = kind /\ Head(trail).name = name

StageUndo(kind, name) ==
  /\ InMenu
  /\ name \in DOMAIN pending[kind]
  /\ pending' = [pending EXCEPT ![kind] = Without(@, name)]
  /\ trail' = IF IsLatest(kind, name) THEN Tail(trail) ELSE <<>>
  /\ UNCHANGED <<world, pc, plan, saved, edits, writes, overwrite, satisfied>>

Detail(kind, name) == pending[kind][name]

DeleteProfile(p) ==
  LET next == [cfg EXCEPT !.profile = Without(@, p), !.routes = @ \ {p}] IN
  /\ p \in DOMAIN cfg.profile
  /\ StageDeletion("profile", p, TRUE,
       [profile |-> cfg.profile[p], routed |-> p \in cfg.routes,
        had |-> p \in DOMAIN touched, original |-> Find(touched, p, None)])
  /\ cfg' = next
  /\ touched' = Without(touched, p)
  /\ active' = Rebuilt(next)

\* Changed for a test of UndoneInReverse: the profile comes back without its route.
UndoProfileOnly(p) ==
  LET gone == Detail("profile", p)
      next == [cfg EXCEPT !.profile = With(@, p, gone.profile)]
  IN
  /\ StageUndo("profile", p)
  /\ cfg' = next
  /\ touched' = IF gone.had THEN With(touched, p, gone.original) ELSE touched
  /\ active' = IF active = None THEN Workspace(next, p) ELSE active

UndoProfile(p) ==
  LET gone == Detail("profile", p)
      next == [cfg EXCEPT !.profile = With(@, p, gone.profile),
                          !.routes  = IF gone.routed THEN @ \cup {p} ELSE @]
  IN
  /\ StageUndo("profile", p)
  /\ cfg' = next
  /\ touched' = IF gone.had THEN With(touched, p, gone.original) ELSE touched
  /\ active' = IF active = None THEN Workspace(next, p) ELSE active

\* An access that a profile names cannot be deleted: that would end the session.
DeleteAccess(a) ==
  LET working == [cfg EXCEPT !.access = Without(@, a)] IN
  /\ a \in DOMAIN cfg.access
  /\ GloballyValid(working)
  /\ StageDeletion("access", a, TRUE, [value |-> cfg.access[a]])
  /\ cfg' = Normalized(working)
  /\ active' = Rebuilt(Normalized(working))
  /\ UNCHANGED touched

UndoAccess(a) ==
  LET working == [cfg EXCEPT !.access = With(@, a, Detail("access", a).value)] IN
  /\ StageUndo("access", a)
  /\ GloballyValid(working)
  /\ cfg' = Normalized(working)
  /\ active' = Rebuilt(Normalized(working))
  /\ UNCHANGED touched

\* Profiles whose reviewer goes are left to review as the Git identity.
DeleteEntity(e) ==
  LET now      == Normalized(cfg)
      affected == {p \in DOMAIN now.profile : now.profile[p].reviewer = e}
      next     == [now EXCEPT
                     !.entity  = Without(@, e),
                     !.profile = [p \in DOMAIN @ |-> IF p \in affected
                                    THEN [@[p] EXCEPT !.reviewer = None, !.creds = None]
                                    ELSE @[p]]]
  IN
  /\ e \in DOMAIN now.entity \/ affected # {}
  /\ StageDeletion("entity", e, TRUE,
       [value |-> Find(now.entity, e, None), affected |-> [p \in affected |-> now.profile[p].creds]])
  /\ cfg' = next
  /\ active' = Rebuilt(next)
  /\ UNCHANGED touched

\* Only a profile that still reviews as its Git identity gets its reviewer back.
UndoEntity(e) ==
  LET gone == Detail("entity", e)
      back == {p \in DOMAIN gone.affected \cap DOMAIN cfg.profile : cfg.profile[p].reviewer = None}
      next == [cfg EXCEPT
                 !.entity  = IF gone.value = None THEN @ ELSE With(@, e, gone.value),
                 !.profile = [p \in DOMAIN @ |-> IF p \in back
                                THEN [@[p] EXCEPT !.reviewer = e, !.creds = gone.affected[p]]
                                ELSE @[p]]]
  IN
  /\ StageUndo("entity", e)
  /\ cfg' = next
  /\ active' = Rebuilt(next)
  /\ UNCHANGED touched

\* buildInitLLMRuntimeInventory: contents that only profiles hold whose runtime is gone
\* get a name that is made up for them; other such profiles count as using a runtime
\* with their contents.
Orphans(c) ==
  {c.profile[p].llm : p \in {p \in DOMAIN c.profile : c.profile[p].runtime \notin DOMAIN c.runtime}}
    \ {c.runtime[r] : r \in DOMAIN c.runtime}

MadeUp(c) ==
  {names \in [Orphans(c) -> RuntimeNames \ DOMAIN c.runtime] :
     \A v, w \in Orphans(c) : names[v] = names[w] => v = w}

RuntimeOf(c, names, profile) ==
  IF profile.runtime \in DOMAIN c.runtime THEN profile.runtime
  ELSE IF profile.llm \in Orphans(c) THEN names[profile.llm]
  ELSE CHOOSE r \in NamesOf(c.runtime, profile.llm) : TRUE

\* Profiles that use the runtime change to another with the wanted contents, which is
\* added if there is none, under a name that may be the deleted one or one that a profile
\* whose runtime is gone still bears.  A made-up name brings no contents with it.
DeleteRuntime(r, llm) ==
  LET now      == Normalized(cfg)
      others   == Without(now.runtime, r)
      Affected(names) == {p \in DOMAIN now.profile : RuntimeOf(now, names, now.profile[p]) = r}
      Matching(names) == NamesOf(others, llm) \cup
                         {names[v] : v \in Orphans(now) \cap {llm}}
      Replaced(affected, added, by, copy) ==
        [now EXCEPT
           !.runtime = IF added THEN With(others, by, llm) ELSE others,
           !.profile = [p \in DOMAIN @ |-> IF p \in affected
                          THEN [@[p] EXCEPT !.runtime = by, !.llm = copy] ELSE @[p]]]
  IN
  /\ llm # Find(now.runtime, r, None)
  /\ \E names \in MadeUp(now) :
     LET affected == Affected(names)
         added    == Matching(names) = {}
     IN
     /\ llm \in Orphans(now) => names[llm] # r
     /\ r \in DOMAIN now.runtime \/ affected # {}
     /\ \E by \in IF added THEN RuntimeNames \ DOMAIN others ELSE Matching(names) :
        LET copy == IF added \/ by \in DOMAIN others THEN llm ELSE None
            next == Replaced(affected, added, by, copy)
        IN
        /\ StageDeletion("runtime", r,
             by # r /\ (added => \A p \in DOMAIN now.profile : now.profile[p].runtime # by),
             [value |-> Find(now.runtime, r, None), by |-> by, added |-> added, copy |-> copy,
              affected |-> [p \in affected |-> now.profile[p]]])
        /\ cfg' = next
        /\ active' = Rebuilt(next)
  /\ UNCHANGED touched

\* Only a profile that still has what the deletion gave it gets its runtime back.
UndoRuntime(r) ==
  LET gone == Detail("runtime", r)
      back == {p \in DOMAIN gone.affected \cap DOMAIN cfg.profile : cfg.profile[p].llm = gone.copy}
      profile == [p \in DOMAIN cfg.profile |->
                    IF p \in back
                    THEN [cfg.profile[p] EXCEPT !.runtime = gone.affected[p].runtime,
                                                !.llm = gone.affected[p].llm]
                    ELSE cfg.profile[p]]
      restored == IF gone.value = None THEN cfg.runtime ELSE With(cfg.runtime, r, gone.value)
      unused   == gone.added /\ \A p \in DOMAIN profile : profile[p].runtime # gone.by
      next == [cfg EXCEPT !.profile = profile,
                          !.runtime = IF unused THEN Without(restored, gone.by) ELSE restored]
  IN
  /\ StageUndo("runtime", r)
  /\ cfg' = next
  /\ active' = Rebuilt(next)
  /\ UNCHANGED touched

-----------------------------------------------------------------------------
(* Planning and asking.                                                    *)

Changed == cfg # Loaded("init") \/ writes # {} \/ overwrite # {} \/ satisfied # {}
CanSave == active # None \/ (Changed /\ Valid(cfg))

RefsOf(p) == CredentialRefs(cfg.profile[p])

\* PlanWithConfig for the profile as it was loaded, under the name it had.
PreviousRef(p, purpose) ==
  LET loaded == IF touched[p] = None THEN p ELSE touched[p]
      refs   == IF loaded \in DOMAIN Loaded("init").profile
                THEN {r \in CredentialRefs(Loaded("init").profile[loaded]) : r.purpose = purpose}
                ELSE {}
  IN IF refs = {} THEN None ELSE CHOOSE r \in refs : TRUE

AccessRefs == {[purpose |-> "git", cred |-> v.cred, mode |-> v.mode]
                 : v \in {cfg.access[a] : a \in DOMAIN cfg.access}}
EntityRefs == {[purpose |-> "reviewer", cred |-> v.cred, mode |-> v.mode]
                 : v \in {cfg.entity[e] : e \in DOMAIN cfg.entity}}

\* Of the profiles that need one credential the first by name says what it was.
EntryOf(ref) ==
  LET needing == {p \in DOMAIN touched : ref \in RefsOf(p)} IN
  [ref |-> ref, prev |-> IF needing = {} THEN None ELSE PreviousRef(First(needing), ref.purpose)]

\* buildInteractiveInitSessionPlan; a refused plan ends the session.
PlanIsValid == \A p \in DOMAIN touched : p \in DOMAIN cfg.profile /\ WritesFit(cfg.profile[p], writes)

SessionPlan ==
  LET refs == UNION {RefsOf(p) : p \in DOMAIN touched}
              \cup {r \in AccessRefs : StagedKeys(r) # {}} \cup EntityRefs
  IN {EntryOf(r) : r \in refs}

\* refreshInteractiveCredentialPlan and loadInteractiveCredentialPlanState: what is
\* written, accepted or stored needs no question.
Asks(entry, keys) ==
  LET k == Key(entry.ref.mode) IN
  IF keys # {} THEN k \notin keys
  ELSE /\ entry.ref.cred \notin satisfied
       /\ entry.prev # entry.ref
       /\ <<entry.ref.cred, k>> \notin store

Save ==
  /\ InMenu /\ CanSave /\ PlanIsValid
  /\ LET creds == {e.ref.cred : e \in SessionPlan} IN
     /\ entries' = SessionPlan
     /\ planned' = {w \in writes : w[1] \in creds}
     /\ forced' = overwrite \cap creds
  /\ settled' = IF active = None THEN SessionPlan
                ELSE {e \in SessionPlan : ~Asks(e, StagedKeys(e.ref))}
  /\ Goto("init", IF active = None THEN "apply" ELSE "ask")
  /\ UNCHANGED <<world, session, stale, written, saved>>

RefusePlan ==
  /\ InMenu /\ CanSave /\ ~PlanIsValid
  /\ Goto("init", "done")
  /\ UNCHANGED <<world, session, plan, saved>>

\* collectInteractiveInitSecrets, one credential at a time.
Ask(entry) ==
  LET key == <<entry.ref.cred, Key(entry.ref.mode)>> IN
  /\ pc["init"] = "ask" /\ entry \in entries \ settled
  /\ settled' = settled \cup {entry}
  /\ \/ UNCHANGED <<planned, forced>>                    \* left for later, or kept
     \/ /\ planned' = planned \cup {key}
        /\ forced' = IF key \in store THEN forced \cup {entry.ref.cred} ELSE forced
  /\ UNCHANGED <<world, pc, session, entries, stale, written, saved>>

\* Back forgets the plan; the session is as it was.
GoBack ==
  /\ pc["init"] = "ask"
  /\ Goto("init", "menu")
  /\ entries' = {} /\ settled' = {} /\ planned' = {} /\ forced' = {}
  /\ UNCHANGED <<world, session, stale, written, saved>>

ChooseSave ==
  /\ pc["init"] = "ask" /\ settled = entries
  /\ Goto("init", "apply")
  /\ UNCHANGED <<world, session, plan, saved>>

-----------------------------------------------------------------------------
(* Applying the plan.                                                      *)

\* GroupStaleReviewerCredentialCleanupsByStore.
ReviewerRefs(c) == {r \in UNION {CredentialRefs(c.profile[p]) : p \in DOMAIN c.profile}
                      : r.purpose = "reviewer"}

ChangedInPlace == {e \in entries : /\ e.ref.purpose = "reviewer" /\ e.prev # None
                                   /\ e.prev.cred = e.ref.cred /\ e.prev.mode # e.ref.mode}

\* Changed for a test of ReviewerKeysSpared: keys the loaded configuration needs are kept.
StaleKeysAsLoaded ==
  {w \in {e.ref.cred : e \in ChangedInPlace} \X Keys :
     LET users == {r \in ReviewerRefs(Loaded("init")) : r.cred = w[1]} IN
     users # {} /\ w[2] \notin {Key(r.mode) : r \in users}}

StaleKeys ==
  {w \in {e.ref.cred : e \in ChangedInPlace} \X Keys :
     LET users == {r \in ReviewerRefs(cfg) : r.cred = w[1]} IN
     users # {} /\ w[2] \notin {Key(r.mode) : r \in users}}

\* preflightNoOverwrite comes before any write.
BeginWrites ==
  /\ pc["init"] = "apply"
  /\ IF Valid(cfg) /\ \A w \in planned : w[1] \in forced \/ w \notin store
     THEN Goto("init", "write") /\ stale' = StaleKeys
     ELSE Goto("init", "done") /\ UNCHANGED stale
  /\ UNCHANGED <<world, session, entries, settled, planned, forced, written, saved>>

\* SetBundle: one credential, all its keys or none.
WriteBundle(credential) ==
  LET bundle == {w \in planned : w[1] = credential} IN
  /\ pc["init"] = "write"
  /\ bundle # {} /\ credential \notin written
  /\ IF credential \in forced \/ bundle \cap store = {}
     THEN /\ store' = store \cup bundle /\ written' = written \cup {credential}
          /\ UNCHANGED pc
     ELSE Goto("init", "done") /\ UNCHANGED <<store, written>>
  /\ UNCHANGED <<disk, lock, base, draft, session, entries, settled, planned, forced, stale, saved>>

\* Changed for a test of StoredBeforeSaved: the configuration does not wait for them all.
WrittenInPart ==
  /\ pc["init"] = "write"
  /\ draft' = [draft EXCEPT !["init"] = cfg]
  /\ Goto("init", "acquire")
  /\ UNCHANGED <<disk, store, lock, base, session, plan, saved>>

Written ==
  /\ pc["init"] = "write"
  /\ {w[1] : w \in planned} = written
  /\ draft' = [draft EXCEPT !["init"] = cfg]
  /\ Goto("init", "acquire")
  /\ UNCHANGED <<disk, store, lock, base, session, plan, saved>>

\* Changed for a test of NoLostUpdate: nobody waits for the lock.
AcquireHeld(s) ==
  /\ pc[s] = "acquire"
  /\ lock' = s
  /\ Goto(s, "check")
  /\ UNCHANGED <<disk, store, base, draft, session, plan, saved>>

\* Save, by either: the lock, the comparison with what was loaded, the rename.
Acquire(s) ==
  /\ pc[s] = "acquire" /\ lock = None
  /\ lock' = s
  /\ Goto(s, "check")
  /\ UNCHANGED <<disk, store, base, draft, session, plan, saved>>

AcquireTimesOut(s) ==
  /\ pc[s] = "acquire" /\ lock # None
  /\ Goto(s, "done")
  /\ UNCHANGED <<world, session, plan, saved>>

Check(s) ==
  /\ pc[s] = "check"
  /\ IF base[s] = None \/ disk = base[s]
     THEN Goto(s, "rename") /\ UNCHANGED lock
     ELSE Goto(s, "done") /\ lock' = None
  /\ UNCHANGED <<disk, store, base, draft, session, plan, saved>>

Rename(s) ==
  /\ pc[s] = "rename"
  /\ disk' = Normalized(draft[s])
  /\ lock' = None
  /\ Goto(s, IF s = "init" THEN "clean" ELSE "done")
  /\ saved' = (saved \/ s = "init")
  /\ UNCHANGED <<store, base, draft, session, plan>>

\* applyStaleReviewerCredentialCleanups, one key at a time.
Clean ==
  /\ pc["init"] = "clean"
  /\ \E w \in stale \cap store : store' = store \ {w}
  /\ UNCHANGED <<disk, lock, base, draft, pc, session, plan, saved>>

Cleaned ==
  /\ pc["init"] = "clean" /\ stale \cap store = {}
  /\ Goto("init", "done")
  /\ UNCHANGED <<world, session, plan, saved>>

\* A call fails or the process is killed; its lock goes with it.
Break(s) ==
  /\ Faults /\ pc[s] \in {"write", "acquire", "check", "rename", "clean"}
  /\ Goto(s, "done")
  /\ lock' = IF lock = s THEN None ELSE lock
  /\ UNCHANGED <<disk, store, base, draft, session, plan, saved>>

-----------------------------------------------------------------------------
(* The other command: `cr config route set` and `unset`, or                *)
(* `cr set-credential`.                                                    *)

OthersTurn == pc["other"] = "idle" /\ ~InMenu

LoadForRoute(p) ==
  /\ OthersTurn /\ disk # None
  /\ p \in DOMAIN disk.profile
  /\ base' = [base EXCEPT !["other"] = disk]
  /\ draft' = [draft EXCEPT !["other"] =
                 [disk EXCEPT !.routes = IF p \in @ THEN @ \ {p} ELSE @ \cup {p}]]
  /\ Goto("other", "acquire")
  /\ UNCHANGED <<disk, store, lock, session, plan, saved>>

SetCredential(w) ==
  /\ OthersTurn
  /\ store' = store \cup {w}
  /\ Goto("other", "done")
  /\ UNCHANGED <<disk, lock, base, draft, session, plan, saved>>

-----------------------------------------------------------------------------
Edit ==
  \/ Abandon
  \/ \E a \in AccessNames, v \in AccessValues : StageAccess(a, v)
  \/ \E e \in EntityNames, v \in EntityValues : StageEntity(e, v)
  \/ \E r \in RuntimeNames, v \in LLMs : StageRuntime(r, v)
  \/ \E original \in Profiles \cup {None}, name \in Profiles, git \in AccessValues,
        creds \in EntityValues \cup {None}, llm \in LLMs, routed \in BOOLEAN :
       EditProfile(original, name, git, creds, llm, routed)
  \/ \E v \in LLMs : EditRuntime(v)
  \/ \E p \in Profiles : DeleteProfile(p) \/ UndoProfile(p)
  \/ \E a \in AccessNames : DeleteAccess(a) \/ UndoAccess(a)
  \/ \E e \in EntityNames : DeleteEntity(e) \/ UndoEntity(e)
  \/ \E r \in RuntimeNames : (\E v \in LLMs : DeleteRuntime(r, v)) \/ UndoRuntime(r)

Apply ==
  \/ Save \/ RefusePlan \/ GoBack \/ ChooseSave \/ BeginWrites \/ Written \/ Clean \/ Cleaned
  \/ \E e \in entries : Ask(e)
  \/ \E c \in Credentials : WriteBundle(c)
  \/ \E s \in Savers : Acquire(s) \/ AcquireTimesOut(s) \/ Check(s) \/ Rename(s) \/ Break(s)

Other ==
  \/ \E p \in Profiles : LoadForRoute(p)
  \/ \E w \in Pairs : SetCredential(w)

SessionNext == Edit \/ Apply \/ Other

SessionSpec == SessionInit /\ [][SessionNext]_sessionVars

-----------------------------------------------------------------------------
(* Properties.                                                             *)

\* Deletions undone latest first leave the session as it was before each of them: its
\* profiles with their parts, their routes and the record of what was touched.  (Two
\* deletions of an LLM runtime are not traced: one whose replacement takes over its name,
\* which undoing does not bring back unless a profile uses it, and one whose replacement
\* is added under a name that a profile still bears though that runtime is gone, which
\* undoing then leaves.)  undoInteractiveInit*Delete.
UndoneInReverse ==
  [][\A kind \in Kinds : \A name \in DOMAIN pending[kind] :
       IsLatest(kind, name) /\ name \notin DOMAIN pending'[kind] =>
         Normalized(cfg') = Normalized(Head(trail).cfg) /\ touched' = Head(trail).touched]_sessionVars

\* The cleanup after a save removes no key that a reviewer of a saved profile needs,
\* of all profiles and not of the touched ones only: StaleReviewerCredentialKeys.
\* (A profile whose copies are out of date when the session is saved is left out.)
ReviewerKeysSpared ==
  [][pc["init"] = "clean" =>
       \A w \in (store \ store') : \A p \in DOMAIN cfg.profile :
         LET profile == cfg.profile[p] IN
         profile = Refreshed(cfg, profile) /\ profile.creds # None
           => w # <<profile.creds.cred, Key(profile.creds.mode)>>]_sessionVars

\* When init has saved the configuration, every secret it was given for it is stored,
\* whatever failed or was written meanwhile: applyInitApplicationPlan's order.
StoredBeforeSaved == saved => planned \ stale \subseteq store

\* No save replaces a configuration its writer has not read, if it had read one:
\* the digest is compared under the lock.
NoLostUpdate ==
  [][disk' # disk => \E s \in Savers : pc[s] = "rename" /\ base[s] \in {None, disk}]_sessionVars

\* "protects keys used by every active profile" (credentials/planning.go:233): the
\* cleanup removes no key that a saved profile's reviewer or repository access needs.
KeysInUseSpared ==
  [][pc["init"] = "clean" =>
       \A w \in (store \ store') : \A p \in DOMAIN cfg.profile :
         LET profile == cfg.profile[p] IN
         profile = Refreshed(cfg, profile)
           => w \notin {<<r.cred, Key(r.mode)>> : r \in CredentialRefs(profile)}]_sessionVars

=============================================================================
