--------------------------- MODULE MCInitSession ---------------------------
EXTENDS InitSession

CONSTANTS a1, a2, e1, r1, r2, v1, v2, c1, c2

Pat(c) == [cred |-> c, mode |-> "pat"]
App(c) == [cred |-> c, mode |-> "github_app"]

MCAccessValues == {Pat(c1), Pat(c2)}
MCEntityValues == {Pat(c2), App(c2)}

Of(git, a, e, creds) == [access |-> a, git |-> git, reviewer |-> e, creds |-> creds,
                         runtime |-> r1, llm |-> v1]

Parts == [access |-> [a \in {a1, a2} |-> IF a = a1 THEN Pat(c1) ELSE Pat(c2)],
          entity |-> [e \in {e1} |-> Pat(c2)], runtime |-> [r \in {r1} |-> v1],
          profile |-> Nothing, routes |-> {}]

\* One profile with a reviewer and one without; and nothing at all.
MCFirstConfigs ==
  {None,
   [Parts EXCEPT !.profile = [p \in {1, 2} |-> IF p = 1 THEN Of(Pat(c1), a1, e1, Pat(c2))
                                                        ELSE Of(Pat(c2), a2, None, None)],
                 !.routes = {1}]}
MCFirstKeys == {<<c1, "git_token">>, <<c2, "git_token">>}

\* For three edits: the two profiles share their access, with a second name for it, and
\* their runtime; every key is stored, so that no edit waits for a secret.
MCAccesses == {Pat(c1)}
MCEntities == {Pat(c2)}
MCAllKeys  == Credentials \X Keys
MCConfigs  == {[access |-> [a \in {a1, a2} |-> Pat(c1)],
                entity |-> [e \in {e1} |-> Pat(c2)], runtime |-> [r \in {r1} |-> v1],
                profile |-> [p \in {1, 2} |-> IF p = 1 THEN Of(Pat(c1), a1, e1, Pat(c2))
                                                        ELSE Of(Pat(c1), a1, None, None)],
                routes |-> {1}]}

=============================================================================
