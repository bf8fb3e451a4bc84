----------------------------- MODULE ConfigFile -----------------------------
(***************************************************************************)
(* What cr's configuration file says, as far as its parts refer to each    *)
(* other: repository accesses, reviewer entities and LLM runtimes under    *)
(* their names, profiles that name one of each, and the profiles that have *)
(* a repository route.  A profile also carries copies of what its names    *)
(* stand for; normalisation brings the copies up to date, and nothing else *)
(* does.  One Git host and one credential store.                           *)
(***************************************************************************)
EXTENDS Naturals, FiniteSets

CONSTANTS
  Profiles,                                  \* numbers, in the order of the names
  AccessNames, EntityNames, RuntimeNames,
  AccessValues, EntityValues,                \* records [cred, mode]
  LLMs,                                      \* contents of an LLM runtime
  None

ASSUME ConfigFileAssumption ==
  /\ Profiles \subseteq Nat
  /\ \A v \in AccessValues \cup EntityValues : v.mode \in {"pat", "github_app"}

Credentials == {v.cred : v \in AccessValues \cup EntityValues}
Keys        == {"git_token", "github_app_private_key"}

\* KeySpecsForPurpose: each mode has one key, and it is required.
Key(mode) == IF mode = "pat" THEN "git_token" ELSE "github_app_private_key"

\* Maps with some of the names.
Maps(names, values) == UNION {[set -> values] : set \in SUBSET names}
Without(f, x)  == [y \in DOMAIN f \ {x} |-> f[y]]
With(f, x, v)  == [y \in DOMAIN f \cup {x} |-> IF y = x THEN v ELSE f[y]]
Find(f, x, otherwise) == IF x \in DOMAIN f THEN f[x] ELSE otherwise
NamesOf(f, v)  == {x \in DOMAIN f : f[x] = v}
Nothing        == [x \in {} |-> None]

Profile ==
  [access : AccessNames, git : AccessValues,
   reviewer : EntityNames \cup {None}, creds : EntityValues \cup {None},
   runtime : RuntimeNames, llm : LLMs \cup {None}]

Config ==
  [access : Maps(AccessNames, AccessValues), entity : Maps(EntityNames, EntityValues),
   runtime : Maps(RuntimeNames, LLMs), profile : Maps(Profiles, Profile),
   routes : SUBSET Profiles]

EmptyConfig ==
  [access |-> Nothing, entity |-> Nothing, runtime |-> Nothing, profile |-> Nothing, routes |-> {}]

\* resolveProfileRuntimeFields: a name without its part leaves the old copy.
Refreshed(c, profile) ==
  [profile EXCEPT
     !.git   = Find(c.access, profile.access, @),
     !.creds = IF profile.reviewer = None THEN None ELSE Find(c.entity, profile.reviewer, @),
     !.llm   = Find(c.runtime, profile.runtime, @)]

Normalized(c) == [c EXCEPT !.profile = [p \in DOMAIN @ |-> Refreshed(c, @[p])]]

ValidProfile(c, profile) ==
  /\ profile.access \in DOMAIN c.access
  /\ profile.runtime \in DOMAIN c.runtime
  /\ profile.reviewer # None =>
       /\ profile.reviewer \in DOMAIN c.entity
       /\ c.entity[profile.reviewer].cred # profile.git.cred

Valid(c) ==
  LET n == Normalized(c) IN
  /\ \A p \in DOMAIN n.profile : ValidProfile(n, n.profile[p])
  /\ n.routes \subseteq DOMAIN n.profile

\* Some edits of cr init are judged by this weaker condition.
GloballyValid(c) == DOMAIN c.profile = {} \/ Valid(c)

\* CredentialRefs: what a profile's copies say it needs, but for its LLM.
CredentialRefs(profile) ==
  {[purpose |-> "git", cred |-> profile.git.cred, mode |-> profile.git.mode]} \cup
  (IF profile.creds = None THEN {}
   ELSE {[purpose |-> "reviewer", cred |-> profile.creds.cred, mode |-> profile.creds.mode]})

=============================================================================
