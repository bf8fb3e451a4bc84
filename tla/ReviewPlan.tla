----------------------------- MODULE ReviewPlan -----------------------------
(* What a review says.                                                      *)
(*                                                                          *)
(* The rollup model orders and deduplicates the reviewers' findings and     *)
(* proposes an event.  The plan takes its order, but decides the event from *)
(* the severities and the review policy, withholds an approval the coverage *)
(* does not bear out, and chooses which findings become comments of their   *)
(* own: those that anchor in the diff, that no earlier review raised, and   *)
(* that the cap on inline comments leaves room for.                         *)
EXTENDS ReviewScope

CONSTANTS
  Texts,             \* what a finding may say
  Normal,            \* a text in lower case with its white space folded
  Native,            \* the host has comments on a whole file
  MaxInline,         \* inline comments a review may post
  MajorRequests,     \* a major finding requests changes
  OwnPullRequest,    \* the posting identity is the author
  AllowSelfApprove   \* --allow-self-approve or the profile's policy

ASSUME PlanAssumption ==
  /\ Normal \in [Texts -> Texts]
  /\ MaxInline \in Nat \ {0}
  /\ {Native, MajorRequests, OwnPullRequest, AllowSelfApprove} \subseteq BOOLEAN

Severities == <<"blocking", "major", "minor", "nits">>
\* A finding is anchored to a line in a hunk of its file, or to the file.
Findings == [path : Files, text : Texts, line : BOOLEAN,
             severity : {Severities[i] : i \in DOMAIN Severities}]
Events == {"approve", "comment", "request_changes"}

Has(fs, severity) == \E i \in DOMAIN fs : fs[i].severity = severity

-----------------------------------------------------------------------------
(* The rollup model's answer: which findings it drops in favour of which,   *)
(* and the order of the others.  Findings are named by their position.      *)

Orders(n) == UNION {[1..k -> 1..n] : k \in 0..n}
Rollups(fs) == [event : Events, order : Orders(Len(fs)),
                drop : UNION {[D -> DOMAIN fs] : D \in SUBSET DOMAIN fs}]

\* As if dropping were not followed along.
ValidUnchained(fs, a) ==
  /\ \A i \in DOMAIN a.drop : a.drop[i] # i
  /\ \A j, k \in DOMAIN a.order : a.order[j] = a.order[k] => j = k
  /\ {a.order[k] : k \in DOMAIN a.order} = DOMAIN fs \ DOMAIN a.drop

\* A finding kept is not itself dropped, and each is ordered once or dropped.
ValidRollup(fs, a) ==
  /\ \A i \in DOMAIN a.drop : a.drop[i] # i /\ a.drop[i] \notin DOMAIN a.drop
  /\ \A j, k \in DOMAIN a.order : a.order[j] = a.order[k] => j = k
  /\ {a.order[k] : k \in DOMAIN a.order} = DOMAIN fs \ DOMAIN a.drop

\* Without a valid answer every finding is kept, the severest first.
FallbackRollup(fs) ==
  LET At(s) == Where([i \in DOMAIN fs |-> i], LAMBDA i : fs[i].severity = s)
  IN  [event |-> "none", drop |-> <<>>,
       order |-> At("blocking") \o At("major") \o At("minor") \o At("nits")]

Ordered(fs, a) == [k \in DOMAIN a.order |-> fs[a.order[k]]]

-----------------------------------------------------------------------------
(* The event.                                                               *)

EventForFindings(fs) ==
  CASE Has(fs, "blocking") \/ (Has(fs, "major") /\ MajorRequests) -> "request_changes"
    [] ~Has(fs, "blocking") /\ Has(fs, "major") /\ ~MajorRequests -> "comment"
    [] OTHER -> IF OwnPullRequest /\ ~AllowSelfApprove THEN "comment" ELSE "approve"

\* The model's proposal can only soften what major findings alone request.
EffectiveEvent(proposed, fs) ==
  IF EventForFindings(fs) = "request_changes" /\ proposed = "comment" /\ ~Has(fs, "blocking")
  THEN "comment" ELSE EventForFindings(fs)

\* An approval is withheld when part of the change was not reviewed.
Verdict(proposed, fs, fellShort) ==
  IF EffectiveEvent(proposed, fs) = "approve" /\ fellShort THEN "comment"
  ELSE EffectiveEvent(proposed, fs)

-----------------------------------------------------------------------------
(* The comments.                                                            *)

Anchor(h, f) ==
  CASE h[f.path] \in {"same", "gone", "binary"} -> "rollup_only"
    [] h[f.path] = "edited" /\ f.line -> "inline"
    [] h[f.path] \in {"edited", "moved", "empty"} /\ ~(h[f.path] = "edited" /\ f.line) ->
         IF Native THEN "file" ELSE IF h[f.path] = "edited" THEN "fallback" ELSE "rollup_only"

\* The text as posted: a file-level note on a host without such comments is
\* headed by its path.
Body(h, f) == [text |-> f.text, headed |-> Anchor(h, f) = "fallback"]

\* As if the heading of a file-level note were part of its text.
KeyAsPosted(path, body) == <<path, Normal[body.text], body.headed>>

\* What makes two comments the same: their file, and their text with every
\* decoration taken off again.
KeyOf(path, body) == <<path, Normal[body.text]>>
Raised(threads) == {KeyOf(t.path, t.body) : t \in threads}

Postable(h, threads, f) ==
  Anchor(h, f) # "rollup_only" /\ KeyOf(f.path, Body(h, f)) \notin Raised(threads)

\* The comments of a plan, each at the position of its finding.
Comments(h, threads, fs) ==
  LET can == {k \in DOMAIN fs : Postable(h, threads, fs[k])}
      fits == {k \in can : Cardinality({j \in can : j <= k}) <= MaxInline}
  IN  {[at |-> k, path |-> fs[k].path, body |-> Body(h, fs[k])] : k \in fits}
=============================================================================
