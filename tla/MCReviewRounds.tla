--------------------------- MODULE MCReviewRounds ---------------------------
EXTENDS ReviewRounds, TLC

CONSTANTS m, n, k,        \* two sources and a lockfile
          ra, rb, rc,     \* reviewers
          t, u            \* texts

MCOrder == <<ra, rb, rc>>
\* ra must see m and n; rb takes anything; rc takes what is not n.
MCInclude == (ra :> {m, n}) @@ (rb :> {}) @@ (rc :> {m, n, k})
MCExclude == (ra :> {}) @@ (rb :> {}) @@ (rc :> {n})
MCNormal == (t :> t) @@ (u :> t)

Cat(present, required) == [present |-> present, required |-> required]
At(a, b, c) == (m :> a) @@ (n :> b) @@ (k :> c)
MCPushes ==
  {[head |-> At("edited", "same", "edited"), catalog |-> Cat({ra, rb, rc}, {})],
   [head |-> At("edited", "edited", "same"), catalog |-> Cat({ra, rb, rc}, {ra})],
   [head |-> At("moved", "gone", "same"), catalog |-> Cat({ra, rb, rc}, {})]}

Part(a, files, allowed) == [agent |-> a, files |-> files, allowed |-> allowed]
MCProposals ==
  {<<Part(rb, {}, {})>>,
   <<Part(rc, {}, {})>>,
   <<Part(rb, {}, {}), Part(ra, {m}, {})>>,
   <<Part(rb, {n}, {n}), Part(rc, {}, {})>>,
   <<Part(rb, {n}, {}), Part(rb, {}, {})>>}

Note(path, text, line, severity) ==
  [path |-> path, text |-> text, line |-> line, severity |-> severity]
MCReports ==
  {<<>>, <<Note(m, t, TRUE, "blocking")>>, <<Note(m, u, FALSE, "major")>>}
=============================================================================
