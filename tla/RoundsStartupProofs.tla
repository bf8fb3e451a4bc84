------------------------ MODULE RoundsStartupProofs ------------------------
(* Whatever the catalogs, the proposals of the orchestrator, the findings   *)
(* and the number of rounds are: required reviewers see what they match, an *)
(* approval was read, no finding gets lost, and no round repeats another.   *)
(*                                                                          *)
(* The proofs of approvals and comments do not look at how the reviewers    *)
(* were chosen: what they are held to is judged after they ran, by          *)
(* CoverageComplete, and what they say is compared with the comments on the *)
(* host when the plan is made.  That the required ones see their matches is *)
(* proved operator by operator: narrowing, capping, cutting by exclusions,  *)
(* handing out leftovers, rebasing and widening each keep it.               *)
(*                                                                          *)
(* The last part, from "How a process comes by its database" on, is about   *)
(* Startup, which every such round of review has behind it: two renames     *)
(* that nobody takes back, looks before them that stay true of what was     *)
(* there first, and a version that is read again before each migration.     *)
EXTENDS ReviewRounds, Startup, FiniteSetTheorems, WellFoundedInduction, TLAPS

-----------------------------------------------------------------------------
(* Sequences of unknown elements.                                           *)

IsSeq(s) == \E S : s \in Seq(S)

\* Appending keeps the elements and adds one at the end.
LEMMA AppendAny ==
  ASSUME NEW s, IsSeq(s), NEW e
  PROVE  /\ IsSeq(Append(s, e))
         /\ DOMAIN Append(s, e) = DOMAIN s \cup {Len(s) + 1}
         /\ \A i \in DOMAIN s : Append(s, e)[i] = s[i]
         /\ Append(s, e)[Len(s) + 1] = e
         /\ Len(Append(s, e)) = Len(s) + 1
         /\ Append(s, e) # <<>>
<1>1. PICK S : s \in Seq(S)
  BY DEF IsSeq
<1>2. s \in Seq(S \cup {e}) /\ e \in S \cup {e}
  BY <1>1
<1>3. Append(s, e) \in Seq(S \cup {e})
  BY <1>2
<1>4. QED
  BY <1>2, <1>3 DEF IsSeq

\* Replacing an element keeps the others.
LEMMA ReplaceAny ==
  ASSUME NEW s, IsSeq(s), NEW i \in DOMAIN s, NEW e
  PROVE  /\ IsSeq([s EXCEPT ![i] = e])
         /\ DOMAIN [s EXCEPT ![i] = e] = DOMAIN s
         /\ [s EXCEPT ![i] = e][i] = e
         /\ \A j \in DOMAIN s \ {i} : [s EXCEPT ![i] = e][j] = s[j]
<1>1. PICK S : s \in Seq(S)
  BY DEF IsSeq
<1>2. s \in Seq(S \cup {e})
  BY <1>1
<1>3. [s EXCEPT ![i] = e] \in Seq(S \cup {e})
  BY <1>2
<1>4. QED
  BY <1>2, <1>3 DEF IsSeq

-----------------------------------------------------------------------------
(* Approvals.                                                               *)

\* A record with the fields of a result.
IsResult(r) ==
  r = [inspected |-> r.inspected, skipped |-> r.skipped, assessed |-> r.assessed,
       failed |-> r.failed, tool |-> r.tool]

\* The plan is a record of its three fields.
IsPlan == plan = [event |-> plan.event, rollup |-> plan.rollup, todo |-> plan.todo]

LEMMA PlanInit == Init => IsPlan
BY DEF Init, NoPlan, IsPlan

LEMMA PlanNext == IsPlan /\ [Next]_vars => IsPlan'
<1> SUFFICES ASSUME IsPlan, [Next]_vars PROVE IsPlan'
  OBVIOUS
<1>1. CASE Push \/ BeginFresh \/ BeginFirst \/ BeginReused \/ Select
  BY <1>1 DEF Push, BeginFresh, BeginFirst, BeginReused, Select, IsPlan
<1>2. CASE Review \/ ReviewFails \/ Repair \/ RepairFails
  BY <1>2 DEF Review, ReviewFails, Repair, RepairFails, IsPlan
<1>3. CASE Rollup
  <2>1. PICK event, a, cs : plan' = [event |-> event, rollup |-> a, todo |-> cs]
    BY <1>3 DEF Rollup
  <2>2. QED
    BY <2>1 DEF IsPlan
<1>4. CASE Publish
  <2>1. PICK c \in plan.todo : plan' = [plan EXCEPT !.todo = @ \ {c}]
    BY <1>4 DEF Publish
  <2>2. plan' = [event |-> plan.event, rollup |-> plan.rollup, todo |-> plan.todo \ {c}]
    BY <2>1 DEF IsPlan
  <2>3. QED
    BY <2>2 DEF IsPlan
<1>5. CASE Finish \/ Abandon
  BY <1>5 DEF Finish, Abandon, Forget, NoPlan, IsPlan
<1>6. CASE UNCHANGED vars
  BY <1>6 DEF vars, IsPlan
<1>7. QED
  BY <1>1, <1>2, <1>3, <1>4, <1>5, <1>6 DEF Next

\* What a result counts as read was read; a repair follows a proven pass.
ReadInv ==
  /\ IsSeq(results)
  /\ \A i \in DOMAIN results : IsResult(results[i]) /\ Proven(results[i]) \subseteq read
  /\ phase = "repair" => Len(results) \in DOMAIN results /\ results[Len(results)].tool
  /\ ApprovalIsCovered

\* Complete coverage means each obligation was read by a reviewer that had it.
LEMMA CompleteIsRead ==
  ASSUME ReadInv, DOMAIN results = DOMAIN sel, CoverageComplete(head, sel, results)
  PROVE  Obligations(head) \subseteq read
<1> SUFFICES ASSUME NEW f \in Obligations(head) PROVE f \in read
  OBVIOUS
<1>1. PICK i \in DOMAIN sel : f \in CoverageScope(head, sel[i])
  BY DEF CoverageComplete, Unassigned
<1>2. Complete(head, sel[i], results[i])
  BY <1>1 DEF CoverageComplete
<1>3. f \in results[i].inspected \cup results[i].assessed /\ results[i].tool
  BY <1>1, <1>2 DEF Complete, Missing
<1>4. Proven(results[i]) \subseteq read
  BY <1>1 DEF ReadInv
<1>5. QED
  BY <1>3, <1>4 DEF Proven

\* A plan approves only on complete coverage.
LEMMA ApprovalNeedsCoverage ==
  ASSUME NEW proposed, NEW fs, NEW lost, Verdict(proposed, fs, FellShort(lost)) = "approve"
  PROVE  CoverageComplete(head, sel, results)
<1>1. CASE FellShort(lost)
  <2>1. Verdict(proposed, fs, FellShort(lost)) # "approve"
    BY <1>1 DEF Verdict
  <2>2. QED
    BY <2>1
<1>2. CASE ~FellShort(lost)
  BY <1>2 DEF FellShort
<1>3. QED
  BY <1>1, <1>2

\* A second pass adds only what it proved.
LEMMA MergedIsProven ==
  ASSUME NEW p, NEW r, IsResult(p), IsResult(r), p.tool
  PROVE  /\ IsResult(Merged(p, Credited(r)))
         /\ Proven(Merged(p, Credited(r))) = Proven(p) \cup Proven(r)
<1> DEFINE c == Credited(r)
           e == Merged(p, c)
<1>1. /\ IsResult(c)
      /\ c.inspected = (IF r.tool THEN r.inspected ELSE {})
      /\ c.assessed = (IF r.tool THEN r.assessed ELSE {})
  BY DEF IsResult, Credited
<1>2. e = [inspected |-> p.inspected \cup c.inspected,
           skipped |-> (p.skipped \ (c.inspected \cup c.assessed)) \cup c.skipped,
           assessed |-> p.assessed \cup c.assessed,
           failed |-> p.failed, tool |-> p.tool]
  BY DEF Merged
<1>3. IsResult(e) /\ e.tool
  <2> HIDE DEF c
  <2>1. QED
    BY <1>2 DEF IsResult
<1>4. Proven(e) = p.inspected \cup c.inspected \cup (p.assessed \cup c.assessed)
  <2>1. e.inspected = p.inspected \cup c.inspected /\ e.assessed = p.assessed \cup c.assessed
    <3> HIDE DEF c
    <3>1. QED
      BY <1>2
  <2>2. QED
    BY <1>3, <2>1 DEF Proven
<1>5. Proven(p) = p.inspected \cup p.assessed /\ Proven(r) = c.inspected \cup c.assessed
  BY <1>1 DEF Proven
<1>6. QED
  BY <1>3, <1>4, <1>5

\* A repair that failed takes nothing back.
LEMMA FailedIsProven ==
  ASSUME NEW p
  PROVE  IsResult(Failed(p)) /\ Proven(Failed(p)) = Proven(p)
BY DEF IsResult, Proven, Failed

LEMMA ReadingsAreResults ==
  ASSUME NEW scope, NEW r \in Readings(scope)
  PROVE  IsResult(r)
BY DEF Readings, IsResult

LEMMA ReadInit == Init => ReadInv
<1> SUFFICES ASSUME Init PROVE ReadInv
  OBVIOUS
<1>1. results = <<>> /\ phase = "idle"
  BY DEF Init
<1>2. IsSeq(results)
  <2>1. <<>> \in Seq({})
    OBVIOUS
  <2>2. QED
    BY <1>1, <2>1 DEF IsSeq
<1>3. DOMAIN results = {}
  BY <1>1
<1>4. QED
  BY <1>1, <1>2, <1>3 DEF ReadInv, ApprovalIsCovered

LEMMA ReadNext == IsPlan /\ ReadInv /\ [Next]_vars => ReadInv'
<1> SUFFICES ASSUME IsPlan, ReadInv, [Next]_vars PROVE ReadInv'
  OBVIOUS
<1>1. IsSeq(results)
  BY DEF ReadInv
<1>a. ASSUME UNCHANGED <<results, read>>, phase' # "repair", phase' # "post"
      PROVE  ReadInv'
  BY <1>a DEF ReadInv, ApprovalIsCovered, IsSeq, Proven
<1>b. ASSUME results' = <<>>, phase' = "idle"
      PROVE  ReadInv'
  <2>1. <<>> \in Seq({}) /\ DOMAIN <<>> = {}
    OBVIOUS
  <2>2. QED
    BY <1>b, <2>1 DEF ReadInv, ApprovalIsCovered, IsSeq
<1>2. CASE Push
  BY <1>2, <1>a DEF Push
<1>3. CASE BeginFresh
  BY <1>3, <1>a DEF BeginFresh
<1>4. CASE BeginFirst
  BY <1>4, <1>a DEF BeginFirst
<1>5. CASE BeginReused
  BY <1>5, <1>a DEF BeginReused
<1>6. CASE Select
  <2>1. UNCHANGED <<results, read>> /\ phase' \in {"review", "idle"}
    BY <1>6 DEF Select
  <2>2. QED
    BY <2>1, <1>a
<1>7. CASE Review
  <2>1. PICK r \in Readings(ScopeOf(Turn)) :
          /\ results' = Append(results, r)
          /\ read' = read \cup Proven(r)
          /\ phase' = IF NeedsRepair(head, ScopeOf(Turn), r) THEN "repair" ELSE "review"
    BY <1>7 DEF Review
  <2>2. IsResult(r)
    BY ReadingsAreResults
  <2>3. /\ IsSeq(results')
        /\ DOMAIN results' = DOMAIN results \cup {Len(results) + 1}
        /\ \A i \in DOMAIN results : results'[i] = results[i]
        /\ results'[Len(results) + 1] = r
        /\ Len(results') = Len(results) + 1
    BY <2>1, <1>1, AppendAny
  <2>4. \A i \in DOMAIN results' : IsResult(results'[i]) /\ Proven(results'[i]) \subseteq read'
    BY <2>1, <2>2, <2>3 DEF ReadInv
  <2>5. phase' = "repair" => Len(results') \in DOMAIN results' /\ results'[Len(results')].tool
    BY <2>1, <2>3 DEF NeedsRepair
  <2>6. phase' # "post"
    BY <2>1
  <2>7. QED
    BY <2>3, <2>4, <2>5, <2>6 DEF ReadInv, ApprovalIsCovered, Proven
<1>8. CASE ReviewFails
  <2>1. results' = Append(results, Failure) /\ read' = read /\ phase' = "review"
    BY <1>8 DEF ReviewFails
  <2>2. IsResult(Failure) /\ Proven(Failure) = {}
    BY DEF IsResult, Failure, Proven
  <2>3. /\ IsSeq(results')
        /\ DOMAIN results' = DOMAIN results \cup {Len(results) + 1}
        /\ \A i \in DOMAIN results : results'[i] = results[i]
        /\ results'[Len(results) + 1] = Failure
    BY <2>1, <1>1, AppendAny
  <2>4. \A i \in DOMAIN results' : IsResult(results'[i]) /\ Proven(results'[i]) \subseteq read'
    BY <2>1, <2>2, <2>3 DEF ReadInv
  <2>5. QED
    BY <2>1, <2>3, <2>4 DEF ReadInv, ApprovalIsCovered, Proven
<1>9. CASE Repair
  <2> DEFINE i == Len(results)
  <2>1. PICK r \in Readings(RepairFiles(head, ScopeOf(i), results[i])) :
          /\ results' = [results EXCEPT ![i] = Merged(@, Credited(r))]
          /\ read' = read \cup Proven(r)
    BY <1>9 DEF Repair
  <2>2. phase' = "review" /\ i \in DOMAIN results /\ results[i].tool
    BY <1>9 DEF Repair, ReadInv
  <2>3. IsResult(r) /\ IsResult(results[i]) /\ Proven(results[i]) \subseteq read
    BY <2>2, ReadingsAreResults DEF ReadInv
  <2> DEFINE e == Merged(results[i], Credited(r))
  <2>4. IsResult(e) /\ Proven(e) = Proven(results[i]) \cup Proven(r)
    BY <2>2, <2>3, MergedIsProven
  <2>5. results' = [results EXCEPT ![i] = e]
    BY <2>1
  <2>6. /\ IsSeq(results') /\ DOMAIN results' = DOMAIN results /\ results'[i] = e
        /\ \A j \in DOMAIN results \ {i} : results'[j] = results[j]
    <3> HIDE DEF e, i
    <3>1. QED
      BY <2>2, <2>5, <1>1, ReplaceAny
  <2>7. \A j \in DOMAIN results' : IsResult(results'[j]) /\ Proven(results'[j]) \subseteq read'
    <3> HIDE DEF e, i
    <3> SUFFICES ASSUME NEW j \in DOMAIN results'
                 PROVE  IsResult(results'[j]) /\ Proven(results'[j]) \subseteq read'
      OBVIOUS
    <3>1. CASE j = i
      BY <3>1, <2>1, <2>3, <2>4, <2>6
    <3>2. CASE j # i
      <4>1. results'[j] = results[j] /\ j \in DOMAIN results
        BY <3>2, <2>6
      <4>2. QED
        BY <4>1, <2>1 DEF ReadInv
    <3>3. QED
      BY <3>1, <3>2
  <2>8. QED
    BY <2>2, <2>6, <2>7 DEF ReadInv, ApprovalIsCovered, Proven
<1>10. CASE RepairFails
  <2> DEFINE i == Len(results)
             e == Failed(results[i])
  <2>1. /\ results' = [results EXCEPT ![i] = e] /\ read' = read
        /\ phase' = "review" /\ i \in DOMAIN results
    BY <1>10 DEF RepairFails, ReadInv
  <2>2. IsResult(results[i]) /\ Proven(results[i]) \subseteq read
    BY <2>1 DEF ReadInv
  <2>3. IsResult(e) /\ Proven(e) = Proven(results[i])
    BY <2>2, FailedIsProven
  <2>4. /\ IsSeq(results') /\ DOMAIN results' = DOMAIN results /\ results'[i] = e
        /\ \A j \in DOMAIN results \ {i} : results'[j] = results[j]
    <3> HIDE DEF e, i
    <3>1. QED
      BY <2>1, <1>1, ReplaceAny
  <2>5. \A j \in DOMAIN results' : IsResult(results'[j]) /\ Proven(results'[j]) \subseteq read'
    <3> HIDE DEF e, i
    <3> SUFFICES ASSUME NEW j \in DOMAIN results'
                 PROVE  IsResult(results'[j]) /\ Proven(results'[j]) \subseteq read'
      OBVIOUS
    <3>1. CASE j = i
      BY <3>1, <2>1, <2>2, <2>3, <2>4
    <3>2. CASE j # i
      <4>1. results'[j] = results[j] /\ j \in DOMAIN results
        BY <3>2, <2>4
      <4>2. QED
        BY <4>1, <2>1 DEF ReadInv
    <3>3. QED
      BY <3>1, <3>2
  <2>6. QED
    BY <2>1, <2>4, <2>5 DEF ReadInv, ApprovalIsCovered, Proven
<1>11. CASE Rollup
  <2>1. PICK a \in {b \in Rollups(notes) : ValidRollup(notes, b)} \cup {FallbackRollup(notes)},
             lost \in BOOLEAN :
          plan' = [event |-> Verdict(a.event, Ordered(notes, a), FellShort(lost)),
                   rollup |-> a, todo |-> Comments(head, threads, Ordered(notes, a))]
    BY <1>11 DEF Rollup
  <2>2. /\ DOMAIN results = DOMAIN sel /\ results' = <<>> /\ read' = read
        /\ change' = change /\ phase' = "post"
    BY <1>11 DEF Rollup
  <2>3. ApprovalIsCovered'
    <3>1. CASE plan'.event = "approve"
      <4>1. CoverageComplete(head, sel, results)
        BY <3>1, <2>1, ApprovalNeedsCoverage
      <4>2. Obligations(head) \subseteq read
        BY <4>1, <2>2, CompleteIsRead
      <4>3. QED
        BY <4>2, <2>2 DEF ApprovalIsCovered, head
    <3>2. CASE plan'.event # "approve"
      BY <3>2 DEF ApprovalIsCovered
    <3>3. QED
      BY <3>1, <3>2
  <2>4. <<>> \in Seq({}) /\ DOMAIN <<>> = {}
    OBVIOUS
  <2>5. QED
    BY <2>2, <2>3, <2>4 DEF ReadInv, IsSeq
<1>12. CASE Publish
  <2>1. /\ UNCHANGED <<results, read, change, phase>> /\ phase = "post"
        /\ \E c \in plan.todo : plan' = [plan EXCEPT !.todo = @ \ {c}]
    BY <1>12 DEF Publish
  <2>2. plan'.event = "approve" => plan.event = "approve"
    BY <2>1 DEF IsPlan
  <2>3. ApprovalIsCovered'
    BY <2>1, <2>2 DEF ReadInv, ApprovalIsCovered, head
  <2>4. QED
    BY <2>1, <2>3 DEF ReadInv, IsSeq, Proven
<1>13. CASE Finish
  BY <1>13, <1>b DEF Finish, Forget
<1>14. CASE Abandon
  BY <1>14, <1>b DEF Abandon, Forget
<1>15. CASE UNCHANGED vars
  BY <1>15 DEF vars, ReadInv, ApprovalIsCovered, IsSeq, Proven, head
<1>16. QED
  BY <1>2, <1>3, <1>4, <1>5, <1>6, <1>7, <1>8, <1>9, <1>10, <1>11, <1>12, <1>13, <1>14, <1>15 DEF Next

\* pipeline.go:3470-3568: whatever the reviewers were assigned and answered,
\* an approval means that every file it owed a reading was read, by a pass
\* with sound tool evidence.
THEOREM ApprovalsAreCovered == Spec => []ApprovalIsCovered
<1>1. ReadInv => ApprovalIsCovered
  BY DEF ReadInv
<1>2. QED
  BY PlanInit, PlanNext, ReadInit, ReadNext, <1>1, PTL DEF Spec

-----------------------------------------------------------------------------
(* Comments.                                                                *)

SameNote(s, t) == s.path = t.path /\ Normal[s.body.text] = Normal[t.body.text]

\* What is left to post repeats nothing of another round.
RepeatInv ==
  /\ NoRepeat
  /\ phase = "post" => \A c \in plan.todo : \A t \in threads : t.round # round => ~SameNote(c, t)

\* A plan's comments are none of those on the host.
LEMMA CommentsAreNew ==
  ASSUME NEW h, NEW ts, NEW fs, NEW c \in Comments(h, ts, fs), NEW t \in ts
  PROVE  ~SameNote(c, t)
<1>1. PICK k \in DOMAIN fs :
        Postable(h, ts, fs[k]) /\ c = [at |-> k, path |-> fs[k].path, body |-> Body(h, fs[k])]
  BY DEF Comments
<1>2. KeyOf(fs[k].path, Body(h, fs[k])) \notin Raised(ts)
  BY <1>1 DEF Postable
<1>3. KeyOf(t.path, t.body) # KeyOf(c.path, c.body)
  BY <1>1, <1>2 DEF Raised
<1>4. QED
  BY <1>3 DEF KeyOf, SameNote

LEMMA RepeatNext == RepeatInv /\ [Next]_vars => RepeatInv'
<1> SUFFICES ASSUME RepeatInv, [Next]_vars PROVE RepeatInv'
  OBVIOUS
<1>a. ASSUME threads' = threads, phase' # "post"
      PROVE  RepeatInv'
  BY <1>a DEF RepeatInv, NoRepeat
<1>1. CASE Push \/ BeginFresh \/ BeginFirst \/ BeginReused
  BY <1>1, <1>a DEF Push, BeginFresh, BeginFirst, BeginReused
<1>2. CASE Select
  <2>1. threads' = threads /\ phase' \in {"review", "idle"}
    BY <1>2 DEF Select
  <2>2. QED
    BY <2>1, <1>a
<1>3. CASE Review
  <2>1. threads' = threads /\ phase' \in {"review", "repair"}
    BY <1>3 DEF Review
  <2>2. QED
    BY <2>1, <1>a
<1>4. CASE ReviewFails \/ Repair \/ RepairFails
  <2>1. threads' = threads /\ phase' = "review"
    BY <1>4 DEF ReviewFails, Repair, RepairFails
  <2>2. QED
    BY <2>1, <1>a
<1>5. CASE Rollup
  <2>1. PICK a : plan'.todo = Comments(head, threads, Ordered(notes, a))
    BY <1>5 DEF Rollup
  <2>2. threads' = threads
    BY <1>5 DEF Rollup
  <2>3. \A c \in plan'.todo : \A t \in threads' : ~SameNote(c, t)
    BY <2>1, <2>2, CommentsAreNew
  <2>4. NoRepeat'
    BY <2>2 DEF RepeatInv, NoRepeat
  <2>5. QED
    BY <2>3, <2>4 DEF RepeatInv, SameNote
<1>6. CASE Publish
  <2>1. PICK c \in plan.todo :
          /\ threads' = threads \cup {[round |-> round, at |-> c.at, path |-> c.path, body |-> c.body]}
          /\ plan' = [plan EXCEPT !.todo = @ \ {c}]
    BY <1>6 DEF Publish
  <2>2. phase = "post" /\ phase' = "post" /\ round' = round
    BY <1>6 DEF Publish
  <2> DEFINE new == [round |-> round, at |-> c.at, path |-> c.path, body |-> c.body]
  <2>3. \A t \in threads : t.round # round => ~SameNote(c, t) /\ ~SameNote(new, t) /\ ~SameNote(t, new)
    BY <2>2 DEF RepeatInv, SameNote
  <2>4. \A s, t \in threads : SameNote(s, t) => s.round = t.round
    BY DEF RepeatInv, NoRepeat, SameNote
  <2>5. threads' = threads \cup {new} /\ new.round = round
    BY <2>1
  <2>6. \A s, t \in threads' : SameNote(s, t) => s.round = t.round
    <3> HIDE DEF new
    <3>1. QED
      BY <2>3, <2>4, <2>5
  <2>7. plan'.todo \subseteq plan.todo
    BY <2>1
  <2>8. \A d \in plan'.todo : \A t \in threads' : t.round # round => ~SameNote(d, t)
    <3> HIDE DEF new
    <3>1. QED
      BY <2>2, <2>5, <2>7 DEF RepeatInv
  <2>9. QED
    BY <2>2, <2>6, <2>8 DEF RepeatInv, NoRepeat, SameNote
<1>7. CASE Finish \/ Abandon
  BY <1>7, <1>a DEF Finish, Abandon
<1>8. CASE UNCHANGED vars
  BY <1>8 DEF vars, RepeatInv, NoRepeat, SameNote
<1>9. QED
  BY <1>1, <1>2, <1>3, <1>4, <1>5, <1>6, <1>7, <1>8 DEF Next

\* reviewplan.go:627-640: two rounds never open comments that say the same of
\* the same file, though rounds are abandoned half-way through posting.
THEOREM RoundsDoNotRepeat == Spec => []NoRepeat
<1>1. Init => RepeatInv
  BY DEF Init, RepeatInv, NoRepeat
<1>2. RepeatInv => NoRepeat
  BY DEF RepeatInv
<1>3. QED
  BY <1>1, <1>2, RepeatNext, PTL DEF Spec

-----------------------------------------------------------------------------
(* Positions and entries.                                                   *)

\* A function on the first numbers is a sequence.
LEMMA SeqOf ==
  ASSUME NEW S, NEW n \in Nat, NEW f, f = [i \in 1..n |-> f[i]], \A i \in 1..n : f[i] \in S
  PROVE  f \in Seq(S) /\ DOMAIN f = 1..n /\ Len(f) = n
<1>1. f \in [1..n -> S]
  OBVIOUS
<1> QED BY <1>1

\* Replacing an element by one of the set keeps the sequence over it.
LEMMA ReplaceIn ==
  ASSUME NEW S, NEW s \in Seq(S), NEW i \in DOMAIN s, NEW e \in S
  PROVE  [s EXCEPT ![i] = e] \in Seq(S)
OBVIOUS

\* Ranking numbers the members of a set of positions from one.
LEMMA Ranked ==
  ASSUME NEW n \in Nat, NEW K \in SUBSET (1..n)
  PROVE  /\ IsFiniteSet(K) /\ Cardinality(K) \in Nat
         /\ \A i \in K : /\ Rank(K, i) \in 1..Cardinality(K)
                         /\ \A j \in K : Rank(K, j) = Rank(K, i) => j = i
         /\ \A k \in 1..Cardinality(K) : \E i \in K : Rank(K, i) = k
<1>1. IsFiniteSet(1..n)
  BY FS_Interval
<1>2. IsFiniteSet(K) /\ Cardinality(K) \in Nat
  BY <1>1, FS_Subset, FS_CardinalityType
<1> DEFINE Upto(i) == {j \in K : j <= i}
           f == [i \in K |-> Rank(K, i)]
           N == 1..Cardinality(K)
<1>3. \A i \in K : IsFiniteSet(Upto(i)) /\ Cardinality(Upto(i)) \in Nat /\ Cardinality(Upto(i)) <= Cardinality(K)
  <2> SUFFICES ASSUME NEW i \in K PROVE IsFiniteSet(Upto(i)) /\ Cardinality(Upto(i)) \in Nat /\ Cardinality(Upto(i)) <= Cardinality(K)
    OBVIOUS
  <2>1. Upto(i) \in SUBSET K
    OBVIOUS
  <2> HIDE DEF Upto
  <2> QED BY <1>2, <2>1, FS_Subset, FS_CardinalityType
<1>4. \A i \in K : Rank(K, i) = Cardinality(Upto(i))
  BY DEF Rank
<1>5. \A i \in K : Rank(K, i) \in N
  <2> SUFFICES ASSUME NEW i \in K PROVE Rank(K, i) \in N
    OBVIOUS
  <2>1. Upto(i) # {}
    <3>1. i \in Upto(i)
      OBVIOUS
    <3> QED BY <3>1
  <2>2. Cardinality(Upto(i)) # 0
    <3> HIDE DEF Upto
    <3> QED BY <1>3, <2>1, FS_EmptySet
  <2> HIDE DEF Upto
  <2> QED BY <1>2, <1>3, <1>4, <2>2
<1>6. \A i, j \in K : Rank(K, j) = Rank(K, i) => j = i
  <2>1. ASSUME NEW i \in K, NEW j \in K, i < j PROVE Rank(K, i) # Rank(K, j)
    <3>0. \A m \in K : m \in Int
      OBVIOUS
    <3>1. Upto(i) \in SUBSET Upto(j) /\ j \in Upto(j) /\ j \notin Upto(i)
      <4>1. \A m \in K : m <= i => m <= j
        BY <2>1, <3>0
      <4>2. j <= j /\ ~(j <= i)
        BY <2>1, <3>0
      <4> QED BY <4>1, <4>2
    <3>2. Upto(i) # Upto(j)
      BY <3>1
    <3> HIDE DEF Upto
    <3> QED BY <1>3, <1>4, <3>1, <3>2, FS_Subset
  <2>2. \A i, j \in K : i < j \/ j < i \/ i = j
    OBVIOUS
  <2> QED BY <2>1, <2>2
<1>7. f \in Injection(K, N)
  BY <1>5, <1>6 DEF Injection, IsInjective
<1>8. IsFiniteSet(N) /\ Cardinality(N) = Cardinality(K)
  BY <1>2, FS_Interval
<1>9. f \in Surjection(K, N)
  <2> HIDE DEF f, N
  <2> QED BY <1>7, <1>8, FS_Injection
<1>10. \A k \in N : \E i \in K : Rank(K, i) = k
  BY <1>9 DEF Surjection
<1> QED BY <1>2, <1>5, <1>6, <1>10

\* The entries at a set of positions: those of the set, all of them, no others.
LEMMA EntriesAre ==
  ASSUME NEW S, NEW s \in Seq(S), NEW K \in SUBSET DOMAIN s
  PROVE  /\ IsFiniteSet(K) /\ Cardinality(K) \in Nat
         /\ EntriesAt(s, K) \in Seq(S) /\ Len(EntriesAt(s, K)) = Cardinality(K)
         /\ \A k \in DOMAIN EntriesAt(s, K) : \E i \in K : EntriesAt(s, K)[k] = s[i]
         /\ \A i \in K : \E k \in DOMAIN EntriesAt(s, K) : EntriesAt(s, K)[k] = s[i]
<1>1. Len(s) \in Nat /\ DOMAIN s = 1..Len(s)
  OBVIOUS
<1>2. IsFiniteSet(K) /\ Cardinality(K) \in Nat
  BY <1>1, Ranked
<1> DEFINE at(k) == CHOOSE i \in K : Rank(K, i) = k
           N == 1..Cardinality(K)
           e == [k \in N |-> s[at(k)]]
<1>3. \A k \in N : at(k) \in K /\ Rank(K, at(k)) = k
  BY <1>1, Ranked
<1>4. \A i \in K : Rank(K, i) \in N /\ at(Rank(K, i)) = i
  BY <1>1, <1>3, Ranked
<1>5. EntriesAt(s, K) = e
  BY DEF EntriesAt
<1>6. \A i \in K : s[i] \in S
  BY <1>1
<1> HIDE DEF at
<1>7. e \in [N -> S]
  BY <1>3, <1>6
<1>8. e \in Seq(S) /\ Len(e) = Cardinality(K) /\ DOMAIN e = N
  <2> HIDE DEF e
  <2> QED BY <1>2, <1>7
<1>9. \A k \in DOMAIN e : \E i \in K : e[k] = s[i]
  BY <1>3
<1>10. \A i \in K : \E k \in DOMAIN e : e[k] = s[i]
  BY <1>4
<1> HIDE DEF e
<1> QED BY <1>2, <1>5, <1>8, <1>9, <1>10

\* A set of positions has a least member.
LEMMA Smallest ==
  ASSUME NEW n \in Nat, NEW H \in SUBSET (1..n), H # {}
  PROVE  \E i \in H : \A j \in H : i <= j
<1>1. Cardinality(H) # 0 /\ Cardinality(H) \in Nat
  BY Ranked, FS_EmptySet
<1>2. PICK i \in H : Rank(H, i) = 1
  BY <1>1, Ranked
<1> DEFINE U == {j \in H : j <= i}
<1>3. IsFiniteSet(U) /\ Cardinality(U) = 1
  <2>1. U \in SUBSET H
    OBVIOUS
  <2> QED BY <1>2, <2>1, Ranked, FS_Subset DEF Rank
<1>4. \A j \in H : j \in Int
  OBVIOUS
<1>5. i \in U
  BY <1>4
<1>6. \A j \in U : j = i
  <2> HIDE DEF U
  <2> QED BY <1>3, <1>5, FS_Singleton
<1> QED BY <1>4, <1>6

\* An element occurs in a sequence.
Holds(s, x) == \E k \in DOMAIN s : s[k] = x

\* A concatenation holds what either part does.
LEMMA JoinHolds ==
  ASSUME NEW S, NEW s \in Seq(S), NEW t \in Seq(S)
  PROVE  /\ s \o t \in Seq(S)
         /\ \A x : Holds(s, x) \/ Holds(t, x) => Holds(s \o t, x)
<1>1. /\ s \o t \in Seq(S)
      /\ \A k \in DOMAIN s : k \in DOMAIN (s \o t) /\ (s \o t)[k] = s[k]
      /\ \A k \in DOMAIN t : Len(s) + k \in DOMAIN (s \o t) /\ (s \o t)[Len(s) + k] = t[k]
  OBVIOUS
<1> QED BY <1>1 DEF Holds

-----------------------------------------------------------------------------
(* Choosing reviewers.                                                      *)

\* An entry of the agent has in its scope all the files it matches.
SeesIn(sq, a, c, ch) ==
  \E i \in DOMAIN sq : sq[i].agent = a /\ RequiredFiles(c, a, ch) \subseteq Scope(sq[i], ch)

\* README.md:504-511: every required reviewer sees its matches.
Sees(sq, c, ch) == \A a \in Agents : RequiredFiles(c, a, ch) # {} => SeesIn(sq, a, c, ch)

\* The first entry of an agent.
FirstOf(sq, a) == First(sq, LAMBDA e : e.agent = a)

\* The first entry of an agent that has one is an entry of it.
LEMMA FirstIs ==
  ASSUME NEW sq \in Seq(Assignments), NEW a, NEW i \in DOMAIN sq, sq[i].agent = a
  PROVE  FirstOf(sq, a) \in DOMAIN sq /\ sq[FirstOf(sq, a)].agent = a
<1> DEFINE H == {j \in DOMAIN sq : sq[j].agent = a}
<1>1. H \in SUBSET (1..Len(sq)) /\ Len(sq) \in Nat /\ H # {}
  OBVIOUS
<1>2. \E j \in H : \A k \in H : j <= k
  <2> HIDE DEF H
  <2> QED BY <1>1, Smallest
<1>3. FirstOf(sq, a) = CHOOSE j \in H : \A k \in H : j <= k
  BY <1>1 DEF FirstOf, First
<1> QED BY <1>2, <1>3

\* Taking contentless paths out leaves assignments.
LEMMA FilterIs ==
  ASSUME NEW sq \in Seq(Assignments), NEW ch \in SUBSET Files
  PROVE  FilterAssignments(sq, ch) \in Seq(Assignments)
<1> DEFINE Cut(s) == [s EXCEPT !.files = @ \cap ch, !.allowed = @ \cap ch]
           K == {i \in DOMAIN sq : Broad(sq[i]) \/ ~Broad(Cut(sq[i]))}
           kept == EntriesAt(sq, K)
           f == [i \in DOMAIN kept |-> Cut(kept[i])]
<1>1. FilterAssignments(sq, ch) = IF ch = {} THEN <<>> ELSE f
  BY DEF FilterAssignments, Where
<1>2. kept \in Seq(Assignments)
  <2>1. K \in SUBSET DOMAIN sq
    OBVIOUS
  <2> HIDE DEF K
  <2> QED BY <2>1, EntriesAre
<1>3. \A s \in Assignments : Cut(s) \in Assignments
  BY DEF Assignments
<1>4. f \in Seq(Assignments)
  <2> HIDE DEF kept, Cut
  <2>1. DOMAIN kept = 1..Len(kept) /\ Len(kept) \in Nat /\ \A i \in DOMAIN kept : kept[i] \in Assignments
    BY <1>2
  <2>2. f = [i \in 1..Len(kept) |-> f[i]] /\ \A i \in 1..Len(kept) : f[i] \in Assignments
    BY <1>3, <2>1
  <2> HIDE DEF f
  <2> QED BY <2>1, <2>2, SeqOf
<1>5. <<>> \in Seq(Assignments)
  OBVIOUS
<1> QED BY <1>1, <1>4, <1>5

\* Every required reviewer the sequence lacks joins, with its matches.
LEMMA NewcomersAre ==
  ASSUME NEW sq \in Seq(Assignments), NEW c \in Catalogs, NEW ch \in SUBSET Files
  PROVE  /\ Newcomers(sq, c, ch) \in Seq(Assignments)
         /\ \A a \in Agents : RequiredFiles(c, a, ch) # {} /\ a \notin Chosen(sq) =>
              \E i \in DOMAIN Newcomers(sq, c, ch) :
                 Newcomers(sq, c, ch)[i] = [agent |-> a, files |-> RequiredFiles(c, a, ch), allowed |-> RequiredFiles(c, a, ch)]
<1> DEFINE C == {i \in DOMAIN Order : Order[i] \in c.present}
           cat == EntriesAt(Order, C)
           M == {i \in DOMAIN cat : RequiredFiles(c, cat[i], ch) # {} /\ cat[i] \notin Chosen(sq)}
           missing == EntriesAt(cat, M)
           Entry(a) == [agent |-> a, files |-> RequiredFiles(c, a, ch), allowed |-> RequiredFiles(c, a, ch)]
           f == [i \in DOMAIN missing |-> Entry(missing[i])]
<1>1. Newcomers(sq, c, ch) = f
  BY DEF Newcomers, InCatalog, Where
<1>2. C \in SUBSET DOMAIN Order /\ M \in SUBSET DOMAIN cat
  OBVIOUS
<1>3. Order \in Seq(Agents) /\ \A a \in Agents : \E i \in DOMAIN Order : Order[i] = a
  BY ScopeAssumption
<1>4. cat \in Seq(Agents) /\ \A i \in C : \E k \in DOMAIN cat : cat[k] = Order[i]
  <2> HIDE DEF C
  <2> QED BY <1>2, <1>3, EntriesAre
<1>5. \A a \in c.present : a \in Agents => \E k \in DOMAIN cat : cat[k] = a
  <2> HIDE DEF cat
  <2> QED BY <1>3, <1>4
<1>6. missing \in Seq(Agents) /\ \A i \in M : \E k \in DOMAIN missing : missing[k] = cat[i]
  <2> HIDE DEF M, cat
  <2> QED BY <1>2, <1>4, EntriesAre
<1>7. \A a \in Agents : Entry(a) \in Assignments
  BY DEF Assignments, RequiredFiles
<1>8. DOMAIN missing = 1..Len(missing) /\ Len(missing) \in Nat /\ \A i \in DOMAIN missing : missing[i] \in Agents
  <2> HIDE DEF missing
  <2> QED BY <1>6
<1>9. f \in Seq(Assignments) /\ DOMAIN f = DOMAIN missing
  <2> HIDE DEF missing, Entry
  <2>1. f = [i \in 1..Len(missing) |-> f[i]] /\ \A i \in 1..Len(missing) : f[i] \in Assignments
    BY <1>7, <1>8
  <2> HIDE DEF f
  <2> QED BY <1>8, <2>1, SeqOf
<1>10. ASSUME NEW a \in Agents, RequiredFiles(c, a, ch) # {}, a \notin Chosen(sq)
       PROVE  \E i \in DOMAIN f : f[i] = Entry(a)
  <2>1. a \in c.present
    BY <1>10 DEF RequiredFiles, Catalogs
  <2>2. PICK k \in DOMAIN cat : cat[k] = a
    BY <1>5, <2>1
  <2>3. k \in M
    <3> HIDE DEF cat
    <3> QED BY <1>10, <2>2
  <2>4. PICK j \in DOMAIN missing : missing[j] = a
    <3> HIDE DEF M, missing, cat
    <3> QED BY <1>6, <2>2, <2>3
  <2> HIDE DEF missing, Entry
  <2> QED BY <1>9, <2>4
<1> HIDE DEF f
<1> QED BY <1>1, <1>9, <1>10

\* Narrowing the required reviewers, and adding them, shows them their matches.
LEMMA EnsureSees ==
  ASSUME NEW sq \in Seq(Assignments), NEW c \in Catalogs, NEW ch \in SUBSET Files
  PROVE  EnsureRequired(sq, c, ch) \in Seq(Assignments) /\ Sees(EnsureRequired(sq, c, ch), c, ch)
<1> DEFINE R(a) == RequiredFiles(c, a, ch)
           Narrow(i, s) == IF R(s.agent) # {} /\ i = FirstOf(sq, s.agent)
                           THEN [s EXCEPT !.files = R(s.agent), !.allowed = R(s.agent)] ELSE s
           f == [i \in DOMAIN sq |-> Narrow(i, sq[i])]
           n == Newcomers(sq, c, ch)
<1>1. EnsureRequired(sq, c, ch) = f \o n
  BY DEF EnsureRequired, EachEntry, FirstOf
<1>2. DOMAIN sq = 1..Len(sq) /\ Len(sq) \in Nat /\ \A i \in DOMAIN sq : sq[i] \in Assignments
  OBVIOUS
<1>3. \A i : \A s \in Assignments : Narrow(i, s) \in Assignments
  BY DEF Assignments, RequiredFiles
<1>4. f \in Seq(Assignments) /\ DOMAIN f = DOMAIN sq
  <2> HIDE DEF Narrow
  <2>1. f = [i \in 1..Len(sq) |-> f[i]] /\ \A i \in 1..Len(sq) : f[i] \in Assignments
    BY <1>2, <1>3
  <2> HIDE DEF f
  <2> QED BY <1>2, <2>1, SeqOf
<1>5. n \in Seq(Assignments)
  BY NewcomersAre
<1>6. /\ f \o n \in Seq(Assignments)
      /\ \A i \in DOMAIN f : i \in DOMAIN (f \o n) /\ (f \o n)[i] = f[i]
      /\ \A i \in DOMAIN n : Len(f) + i \in DOMAIN (f \o n) /\ (f \o n)[Len(f) + i] = n[i]
  <2> HIDE DEF f, n
  <2> QED BY <1>4, <1>5
<1>7. ASSUME NEW a \in Agents, R(a) # {} PROVE SeesIn(f \o n, a, c, ch)
  <2>1. CASE a \in Chosen(sq)
    <3>1. PICK j \in DOMAIN sq : sq[j].agent = a
      BY <2>1 DEF Chosen
    <3> DEFINE i == FirstOf(sq, a)
    <3>2. i \in DOMAIN sq /\ sq[i].agent = a
      BY <3>1, FirstIs
    <3>3. f[i].agent = a /\ f[i].files = R(a) /\ f[i].allowed = R(a)
      <4>1. f[i] = Narrow(i, sq[i])
        BY <3>2
      <4>2. f[i] = [sq[i] EXCEPT !.files = R(a), !.allowed = R(a)]
        BY <1>7, <3>2, <4>1
      <4>3. sq[i] \in Assignments
        BY <3>2
      <4> HIDE DEF f, i, R
      <4> QED BY <3>2, <4>2, <4>3 DEF Assignments
    <3>4. Scope(f[i], ch) = R(a)
      <4> HIDE DEF f, i, R
      <4> QED BY <1>7, <3>3 DEF Scope
    <3> HIDE DEF f, i, n
    <3> QED BY <1>4, <1>6, <3>2, <3>3, <3>4 DEF SeesIn
  <2>2. CASE a \notin Chosen(sq)
    <3>1. PICK i \in DOMAIN n : n[i] = [agent |-> a, files |-> R(a), allowed |-> R(a)]
      BY <1>7, <2>2, NewcomersAre
    <3>2. n[i].agent = a /\ Scope(n[i], ch) = R(a)
      <4> HIDE DEF n, R
      <4> QED BY <1>7, <3>1 DEF Scope
    <3> HIDE DEF f, n
    <3> QED BY <1>6, <3>1, <3>2 DEF SeesIn
  <2> QED BY <2>1, <2>2
<1> HIDE DEF f, n
<1> QED BY <1>1, <1>6, <1>7 DEF Sees

\* A cap that does not refuse the selection drops no required reviewer.
LEMMA CapSees ==
  ASSUME NEW sq \in Seq(Assignments), NEW c \in Catalogs, NEW ch \in SUBSET Files,
         ~TooManyRequired(sq, c, ch), Sees(sq, c, ch)
  PROVE  CapAgents(sq, c, ch) \in Seq(Assignments) /\ Sees(CapAgents(sq, c, ch), c, ch)
<1> DEFINE K == {i \in DOMAIN sq : IsRequired(c, sq[i].agent, ch)}
           L == {i \in DOMAIN sq : ~IsRequired(c, sq[i].agent, ch)}
           r == EntriesAt(sq, K)
           s == EntriesAt(sq, L)
           n == Len(sq)
<1>1. RequiredPart(sq, c, ch) = r /\ SharedPart(sq, c, ch) = s
  BY DEF RequiredPart, SharedPart, Where
<1>2. K \in SUBSET DOMAIN sq /\ L \in SUBSET DOMAIN sq /\ K \cup L = DOMAIN sq /\ K \cap L = {}
  OBVIOUS
<1>3. n \in Nat /\ DOMAIN sq = 1..n
  OBVIOUS
<1>4. \A a \in Agents : RequiredFiles(c, a, ch) # {} =>
        \E i \in K : sq[i].agent = a /\ RequiredFiles(c, a, ch) \subseteq Scope(sq[i], ch)
  <2> SUFFICES ASSUME NEW a \in Agents, RequiredFiles(c, a, ch) # {}
               PROVE  \E i \in K : sq[i].agent = a /\ RequiredFiles(c, a, ch) \subseteq Scope(sq[i], ch)
    OBVIOUS
  <2>1. IsRequired(c, a, ch)
    BY DEF IsRequired, RequiredFiles, Catalogs
  <2>2. PICK i \in DOMAIN sq : sq[i].agent = a /\ RequiredFiles(c, a, ch) \subseteq Scope(sq[i], ch)
    BY DEF Sees, SeesIn
  <2>3. i \in K
    BY <2>1, <2>2
  <2> HIDE DEF K
  <2> QED BY <2>2, <2>3
<1> HIDE DEF K, L
<1>5. /\ r \in Seq(Assignments) /\ Len(r) = Cardinality(K) /\ IsFiniteSet(K) /\ Cardinality(K) \in Nat
      /\ \A i \in K : \E k \in DOMAIN r : r[k] = sq[i]
  BY <1>2, EntriesAre
<1>6. s \in Seq(Assignments) /\ Len(s) = Cardinality(L) /\ IsFiniteSet(L) /\ Cardinality(L) \in Nat
  BY <1>2, EntriesAre
<1>7. Len(r) + Len(s) = n
  <2>1. Cardinality(K \cup L) = Cardinality(K) + Cardinality(L) - Cardinality(K \cap L)
    BY <1>5, <1>6, FS_Union
  <2>2. Cardinality(K \cap L) = 0 /\ Cardinality(K \cup L) = n
    <3>1. Cardinality(1..n) = n
      <4> HIDE DEF n
      <4> QED BY <1>3, FS_Interval
    <3> QED BY <3>1, <1>2, <1>3, FS_EmptySet
  <2> HIDE DEF r, s, n
  <2> QED BY <2>1, <2>2, <1>5, <1>6
<1>8. \A a \in Agents : RequiredFiles(c, a, ch) # {} => SeesIn(r, a, c, ch)
  <2> HIDE DEF r
  <2> QED BY <1>4, <1>5 DEF SeesIn
<1>9. ASSUME NEW t \in Seq(Assignments), \A k \in DOMAIN r : k \in DOMAIN t /\ t[k] = r[k]
      PROVE  Sees(t, c, ch)
  <2> HIDE DEF r
  <2> QED BY <1>8, <1>9 DEF Sees, SeesIn
<1>10. MaxAgents \in Nat /\ DefaultMaxAgents \in Nat
  BY ScopeAssumption
<1>11. CASE MaxAgents > 0 /\ n > MaxAgents
  <2> DEFINE t == SubSeq(r \o s, 1, MaxAgents)
  <2>1. CapAgents(sq, c, ch) = t
    <3> HIDE DEF r, s
    <3>1. CapAgents(sq, c, ch) = CASE MaxAgents > 0 /\ n > MaxAgents -> t
                                   [] MaxAgents = 0 /\ Len(s) > DefaultMaxAgents -> r \o SubSeq(s, 1, DefaultMaxAgents)
                                   [] OTHER -> sq
      BY ONLY <1>1 DEF CapAgents
    <3>2. MaxAgents # 0
      BY ONLY <1>11, <1>10
    <3> HIDE DEF t, n
    <3> QED BY ONLY <3>1, <3>2, <1>11
  <2>2. Len(r) <= MaxAgents
    BY <1>1, <1>5, <1>10, <1>11 DEF TooManyRequired
  <2>3. t \in Seq(Assignments) /\ \A k \in DOMAIN r : k \in DOMAIN t /\ t[k] = r[k]
    <3> HIDE DEF r, s, n
    <3>1. r \o s \in Seq(Assignments) /\ Len(r \o s) = n /\ (\A k \in 1..Len(r) : (r \o s)[k] = r[k]) /\ DOMAIN r = 1..Len(r) /\ Len(r) \in Nat
      <4>1. r \in Seq(Assignments) /\ s \in Seq(Assignments) /\ Len(r) + Len(s) = n
        BY <1>5, <1>6, <1>7
      <4> QED BY ONLY <4>1
    <3>2. t \in Seq(Assignments) /\ Len(t) = MaxAgents /\ DOMAIN t = 1..MaxAgents /\ \A k \in 1..MaxAgents : t[k] = (r \o s)[k]
      BY <3>1, <1>3, <1>10, <1>11
    <3> HIDE DEF t
    <3> QED BY <3>1, <3>2, <2>2, <1>10
  <2> HIDE DEF t, r, s, n
  <2> QED BY <2>1, <2>3, <1>9
<1>12. CASE MaxAgents = 0 /\ Len(s) > DefaultMaxAgents
  <2> DEFINE u == SubSeq(s, 1, DefaultMaxAgents)
             t == r \o u
  <2>1. CapAgents(sq, c, ch) = t
    <3> HIDE DEF r, s
    <3> QED BY ONLY <1>1, <1>12, <1>10 DEF CapAgents
  <2>2. u \in Seq(Assignments)
    <3> HIDE DEF s
    <3> QED BY <1>6, <1>10, <1>12
  <2>3. t \in Seq(Assignments) /\ \A k \in DOMAIN r : k \in DOMAIN t /\ t[k] = r[k]
    <3> HIDE DEF u, r
    <3> QED BY <2>2, <1>5
  <2> HIDE DEF t, r, s, n
  <2> QED BY <2>1, <2>3, <1>9
<1>13. CASE ~(MaxAgents > 0 /\ n > MaxAgents) /\ ~(MaxAgents = 0 /\ Len(s) > DefaultMaxAgents)
  <2>1. CapAgents(sq, c, ch) = sq
    BY <1>1, <1>13, <1>10 DEF CapAgents
  <2> QED BY <2>1
<1> QED BY <1>11, <1>12, <1>13

\* Exclusions cut no file a required reviewer matches.
LEMMA ReconcileIs ==
  ASSUME NEW sq \in Seq(Assignments), NEW c \in Catalogs, NEW ch \in SUBSET Files
  PROVE  /\ Reconcile(sq, c, ch) \in Seq(Assignments)
         /\ Sees(sq, c, ch) => Sees(Reconcile(sq, c, ch), c, ch)
<1> DEFINE Allowed(s) == {f \in ch : Matches(s.agent, f)}
           Bound(s) == s.agent \in c.present /\ HasExclusions(s.agent)
           Cut(s) ==
             CASE ~Bound(s) -> s
               [] Bound(s) /\ Broad(s) -> [s EXCEPT !.files = Allowed(s), !.allowed = Allowed(s)]
               [] OTHER -> [s EXCEPT !.files = s.files \cap Allowed(s),
                                     !.allowed = IF s.allowed \cap Allowed(s) = {} THEN s.files \cap Allowed(s)
                                                 ELSE s.allowed \cap Allowed(s)]
           K == {i \in DOMAIN sq : Bound(sq[i]) => ~Broad(Cut(sq[i]))}
           kept == EntriesAt(sq, K)
           f == [i \in DOMAIN kept |-> Cut(kept[i])]
<1>1. Reconcile(sq, c, ch) = f
  BY DEF Reconcile, Where
<1>2. K \in SUBSET DOMAIN sq
  OBVIOUS
<1>3. kept \in Seq(Assignments) /\ \A i \in K : \E k \in DOMAIN kept : kept[k] = sq[i]
  <2> HIDE DEF K
  <2> QED BY <1>2, EntriesAre
<1>4. \A s \in Assignments : Cut(s) \in Assignments
  <2> SUFFICES ASSUME NEW s \in Assignments PROVE Cut(s) \in Assignments
    OBVIOUS
  <2>1. Allowed(s) \in SUBSET Files
    OBVIOUS
  <2> HIDE DEF Allowed, Bound
  <2> QED BY <2>1 DEF Assignments
<1>5. DOMAIN kept = 1..Len(kept) /\ Len(kept) \in Nat /\ \A i \in DOMAIN kept : kept[i] \in Assignments
  <2> HIDE DEF kept
  <2>1. kept \in Seq(Assignments)
    BY <1>3
  <2> QED BY ONLY <2>1
<1>6. f \in Seq(Assignments) /\ DOMAIN f = DOMAIN kept
  <2> HIDE DEF kept, Cut
  <2>1. f = [i \in 1..Len(kept) |-> f[i]] /\ \A i \in 1..Len(kept) : f[i] \in Assignments
    BY <1>4, <1>5
  <2> HIDE DEF f
  <2> QED BY <1>5, <2>1, SeqOf
<1>7. ASSUME NEW a \in Agents, RequiredFiles(c, a, ch) # {}, NEW s \in Assignments, s.agent = a,
             RequiredFiles(c, a, ch) \subseteq Scope(s, ch)
      PROVE  Cut(s).agent = a /\ RequiredFiles(c, a, ch) \subseteq Scope(Cut(s), ch) /\ (Bound(s) => ~Broad(Cut(s)))
  <2> DEFINE R == RequiredFiles(c, a, ch)
             A == Allowed(s)
  <2>1. R \subseteq A /\ R # {}
    BY <1>7 DEF RequiredFiles
  <2>2. s = [agent |-> a, files |-> s.files, allowed |-> s.allowed]
    BY <1>7 DEF Assignments
  <2> HIDE DEF R, A
  <2>3. R \subseteq Scope(s, ch)
    BY <1>7 DEF R
  <2>4. CASE ~Bound(s)
    <3>1. Cut(s) = s
      BY <2>4
    <3> HIDE DEF Cut
    <3> QED BY <3>1, <2>3, <2>4, <1>7 DEF R
  <2>5. CASE Bound(s) /\ Broad(s)
    <3>1. Cut(s) = [s EXCEPT !.files = A, !.allowed = A]
      BY <2>5 DEF A
    <3>2. Cut(s).agent = a /\ Cut(s).files = A /\ Cut(s).allowed = A
      <4> HIDE DEF Cut
      <4> QED BY <3>1, <2>2
    <3> HIDE DEF Cut
    <3> QED BY <3>2, <2>1 DEF Scope, Broad, R
  <2>6. CASE Bound(s) /\ ~Broad(s)
    <3> DEFINE F == s.files \cap A
               B == IF s.allowed \cap A = {} THEN s.files \cap A ELSE s.allowed \cap A
    <3>1. Cut(s) = [s EXCEPT !.files = F, !.allowed = B]
      BY <2>6 DEF A
    <3>2. Cut(s).agent = a /\ Cut(s).files = F /\ Cut(s).allowed = B
      <4> HIDE DEF Cut, F, B
      <4> QED BY <3>1, <2>2
    <3>3. R \subseteq B
      <4>1. CASE s.allowed # {}
        BY <4>1, <2>1, <2>3 DEF Scope
      <4>2. CASE s.allowed = {}
        BY <4>2, <2>1, <2>3, <2>6 DEF Scope, Broad
      <4> QED BY <4>1, <4>2
    <3> HIDE DEF Cut, B
    <3> QED BY <3>2, <3>3, <2>1 DEF Scope, Broad, R
  <2> QED BY <2>4, <2>5, <2>6
<1>8. ASSUME Sees(sq, c, ch), NEW a \in Agents, RequiredFiles(c, a, ch) # {}
      PROVE  SeesIn(f, a, c, ch)
  <2>1. PICK i \in DOMAIN sq : sq[i].agent = a /\ RequiredFiles(c, a, ch) \subseteq Scope(sq[i], ch)
    BY <1>8 DEF Sees, SeesIn
  <2>2. sq[i] \in Assignments
    BY <2>1
  <2>3. /\ Cut(sq[i]).agent = a /\ RequiredFiles(c, a, ch) \subseteq Scope(Cut(sq[i]), ch)
        /\ (Bound(sq[i]) => ~Broad(Cut(sq[i])))
    <3> HIDE DEF Cut, Bound
    <3> QED BY <1>7, <1>8, <2>1, <2>2
  <2>4. i \in K
    <3> HIDE DEF Cut, Bound
    <3> QED BY <2>3
  <2>5. PICK k \in DOMAIN kept : kept[k] = sq[i]
    <3> HIDE DEF K, kept
    <3> QED BY <2>4, <1>3
  <2> HIDE DEF kept, Cut
  <2>6. f[k] = Cut(sq[i]) /\ k \in DOMAIN f
    BY <2>5
  <2> HIDE DEF f
  <2> QED BY <2>3, <2>6 DEF SeesIn
<1> HIDE DEF f
<1> QED BY <1>1, <1>6, <1>8 DEF Sees

\* Files left over go to reviewers; nobody loses any.
LEMMA CoverSees ==
  ASSUME NEW sq \in Seq(Assignments), NEW c \in Catalogs, NEW ch \in SUBSET Files
  PROVE  /\ CoverLeftovers(sq, c, ch) \in Seq(Assignments)
         /\ Sees(sq, c, ch) => Sees(CoverLeftovers(sq, c, ch), c, ch)
<1> DEFINE base == Reconcile(sq, c, ch)
           left == Reviewable(ch) \ Covered(base, ch)
           Gets(i) == {f \in left : i = First(base, LAMBDA s : s.agent \in c.present /\ Matches(s.agent, f))}
           Extend(i, s) == [s EXCEPT !.files = IF @ = {} THEN @ ELSE @ \cup Gets(i),
                                     !.allowed = IF @ = {} THEN @ ELSE @ \cup Gets(i)]
           g == [i \in DOMAIN base |-> Extend(i, base[i])]
<1>1. CoverLeftovers(sq, c, ch) = g
  BY DEF CoverLeftovers, EachEntry
<1>2. base \in Seq(Assignments) /\ (Sees(sq, c, ch) => Sees(base, c, ch))
  BY ReconcileIs
<1>3. DOMAIN base = 1..Len(base) /\ Len(base) \in Nat /\ \A i \in DOMAIN base : base[i] \in Assignments
  <2> HIDE DEF base
  <2> QED BY <1>2
<1>4. \A i : Gets(i) \subseteq Files
  <2>1. left \subseteq Files
    <3> HIDE DEF base
    <3> QED BY DEF Reviewable
  <2> HIDE DEF left
  <2> QED BY <2>1
<1> HIDE DEF Gets, base
<1>5. ASSUME NEW i, NEW s \in Assignments
      PROVE  /\ Extend(i, s) \in Assignments /\ Extend(i, s).agent = s.agent
             /\ Scope(s, ch) \subseteq Scope(Extend(i, s), ch)
  <2> DEFINE F == IF s.files = {} THEN s.files ELSE s.files \cup Gets(i)
             B == IF s.allowed = {} THEN s.allowed ELSE s.allowed \cup Gets(i)
  <2>1. Extend(i, s) = [s EXCEPT !.files = F, !.allowed = B]
    OBVIOUS
  <2>2. s.files \in SUBSET Files /\ s.allowed \in SUBSET Files
        /\ s = [agent |-> s.agent, files |-> s.files, allowed |-> s.allowed] /\ s.agent \in Agents
    BY DEF Assignments
  <2>3. F \in SUBSET Files /\ B \in SUBSET Files
    BY <1>4, <2>2
  <2>4. Extend(i, s) = [agent |-> s.agent, files |-> F, allowed |-> B]
    <3> HIDE DEF F, B, Extend
    <3> QED BY <2>1, <2>2
  <2>5. Scope(s, ch) \subseteq Scope([agent |-> s.agent, files |-> F, allowed |-> B], ch)
    <3>1. CASE s.allowed # {}
      BY <3>1 DEF Scope
    <3>2. CASE s.allowed = {}
      <4>1. B = {}
        BY <3>2
      <4>2. CASE s.files = {}
        BY <3>2, <4>1, <4>2 DEF Scope
      <4>3. CASE s.files # {}
        BY <3>2, <4>1, <4>3 DEF Scope
      <4> QED BY <4>2, <4>3
    <3> QED BY <3>1, <3>2
  <2> HIDE DEF F, B, Extend
  <2> QED BY <2>2, <2>3, <2>4, <2>5 DEF Assignments
<1>6. g \in Seq(Assignments) /\ DOMAIN g = DOMAIN base
  <2> HIDE DEF Extend
  <2>1. g = [i \in 1..Len(base) |-> g[i]] /\ \A i \in 1..Len(base) : g[i] \in Assignments
    BY <1>3, <1>5
  <2> HIDE DEF g
  <2> QED BY <1>3, <2>1, SeqOf
<1>7. ASSUME Sees(base, c, ch) PROVE Sees(g, c, ch)
  <2> HIDE DEF Extend
  <2>1. \A i \in DOMAIN base : i \in DOMAIN g /\ g[i].agent = base[i].agent /\ Scope(base[i], ch) \subseteq Scope(g[i], ch)
    BY <1>3, <1>5
  <2> HIDE DEF g
  <2> QED BY <1>7, <2>1 DEF Sees, SeesIn
<1> HIDE DEF g
<1> QED BY <1>1, <1>2, <1>6, <1>7

\* A fresh selection shows the required reviewers their matches.
LEMMA AdjustedSees ==
  ASSUME NEW p \in Seq(Assignments), NEW c \in Catalogs, NEW ch \in SUBSET Files, ~Refused(p, c, ch)
  PROVE  Adjusted(p, c, ch) \in Seq(Assignments) /\ Sees(Adjusted(p, c, ch), c, ch)
<1> DEFINE q == FilterAssignments(p, ch)
           r == EnsureRequired(q, c, ch)
           s == CapAgents(r, c, ch)
<1>1. Adjusted(p, c, ch) = CoverLeftovers(s, c, ch) /\ ~TooManyRequired(r, c, ch)
  BY DEF Adjusted, Refused
<1>2. q \in Seq(Assignments)
  BY FilterIs
<1> HIDE DEF q
<1>3. r \in Seq(Assignments) /\ Sees(r, c, ch)
  BY <1>2, EnsureSees
<1> HIDE DEF r
<1>4. s \in Seq(Assignments) /\ Sees(s, c, ch)
  BY <1>1, <1>3, CapSees
<1> HIDE DEF s
<1> QED BY <1>1, <1>4, CoverSees

\* So does widening a cohort, and adding to it.
LEMMA WidenSees ==
  ASSUME NEW sq \in Seq(Assignments), NEW c \in Catalogs, NEW ch \in SUBSET Files
  PROVE  WidenRequired(sq, c, ch) \in Seq(Assignments) /\ Sees(WidenRequired(sq, c, ch), c, ch)
<1> DEFINE R(a) == RequiredFiles(c, a, ch)
           Widen(i, s) == IF R(s.agent) = {} \/ Broad(s) \/ i # FirstOf(sq, s.agent) THEN s
                          ELSE [s EXCEPT !.files = @ \cup R(s.agent),
                                         !.allowed = IF @ = {} THEN @ ELSE @ \cup R(s.agent)]
           f == [i \in DOMAIN sq |-> Widen(i, sq[i])]
           n == Newcomers(sq, c, ch)
<1>1. WidenRequired(sq, c, ch) = f \o n
  BY DEF WidenRequired, EachEntry, FirstOf
<1>2. DOMAIN sq = 1..Len(sq) /\ Len(sq) \in Nat /\ \A i \in DOMAIN sq : sq[i] \in Assignments
  OBVIOUS
<1>3. \A i : \A s \in Assignments : Widen(i, s) \in Assignments
  BY DEF Assignments, RequiredFiles
<1>4. f \in Seq(Assignments) /\ DOMAIN f = DOMAIN sq
  <2> HIDE DEF Widen
  <2>1. f = [i \in 1..Len(sq) |-> f[i]] /\ \A i \in 1..Len(sq) : f[i] \in Assignments
    BY <1>2, <1>3
  <2> HIDE DEF f
  <2> QED BY <1>2, <2>1, SeqOf
<1>5. n \in Seq(Assignments)
  BY NewcomersAre
<1>6. /\ f \o n \in Seq(Assignments)
      /\ \A i \in DOMAIN f : i \in DOMAIN (f \o n) /\ (f \o n)[i] = f[i]
      /\ \A i \in DOMAIN n : Len(f) + i \in DOMAIN (f \o n) /\ (f \o n)[Len(f) + i] = n[i]
  <2> HIDE DEF f, n
  <2> QED BY <1>4, <1>5
<1>7. ASSUME NEW a \in Agents, R(a) # {} PROVE SeesIn(f \o n, a, c, ch)
  <2>1. CASE a \in Chosen(sq)
    <3>1. PICK j \in DOMAIN sq : sq[j].agent = a
      BY <2>1 DEF Chosen
    <3> DEFINE i == FirstOf(sq, a)
    <3>2. i \in DOMAIN sq /\ sq[i].agent = a
      BY <3>1, FirstIs
    <3>3. f[i] = Widen(i, sq[i]) /\ sq[i] \in Assignments
      <4>1. f[i] = Widen(i, sq[i])
        <5> HIDE DEF Widen, i
        <5> QED BY <3>2
      <4>2. sq[i] \in Assignments
        <5> HIDE DEF i
        <5> QED BY <1>2, <3>2
      <4> QED BY ONLY <4>1, <4>2
    <3>4. R(a) \subseteq ch
      BY DEF RequiredFiles
    <3>5. f[i].agent = a /\ R(a) \subseteq Scope(f[i], ch)
      <4>1. CASE Broad(sq[i])
        <5>1. f[i] = sq[i]
          BY <3>3, <4>1
        <5> HIDE DEF f, i, R
        <5> QED BY <3>2, <3>4, <4>1, <5>1 DEF Scope, Broad
      <4>2. CASE ~Broad(sq[i])
        <5> DEFINE F == sq[i].files \cup R(a)
                   B == IF sq[i].allowed = {} THEN sq[i].allowed ELSE sq[i].allowed \cup R(a)
        <5>1. f[i] = [sq[i] EXCEPT !.files = F, !.allowed = B]
          BY <1>7, <3>2, <3>3, <4>2
        <5> HIDE DEF f, i, R
        <5>2. f[i].agent = a /\ f[i].files = F /\ f[i].allowed = B
          <6> HIDE DEF F, B
          <6> QED BY <3>2, <3>3, <5>1 DEF Assignments
        <5> QED BY <1>7, <5>2 DEF Scope
      <4> QED BY <4>1, <4>2
    <3> HIDE DEF f, i, n
    <3> QED BY <1>4, <1>6, <3>2, <3>5 DEF SeesIn
  <2>2. CASE a \notin Chosen(sq)
    <3>1. PICK i \in DOMAIN n : n[i] = [agent |-> a, files |-> R(a), allowed |-> R(a)]
      BY <1>7, <2>2, NewcomersAre
    <3>2. n[i].agent = a /\ Scope(n[i], ch) = R(a)
      <4> HIDE DEF n, R
      <4> QED BY <1>7, <3>1 DEF Scope
    <3> HIDE DEF f, n
    <3> QED BY <1>6, <3>1, <3>2 DEF SeesIn
  <2> QED BY <2>1, <2>2
<1> HIDE DEF f, n
<1> QED BY <1>1, <1>6, <1>7 DEF Sees

\* Rebasing a cohort leaves assignments.
LEMMA RebaseIs ==
  ASSUME NEW sq \in Seq(Assignments), NEW c \in Catalogs, NEW ch \in SUBSET Files
  PROVE  Rebase(sq, c, ch) \in Seq(Assignments)
<1> DEFINE brought == UNION {Brought(sq[i], ch) : i \in DOMAIN sq}
           Gets(i) == {f \in ch \ brought : i = First(sq, LAMBDA m : Takes(m, f))}
           files == [i \in DOMAIN sq |-> Brought(sq[i], ch) \cup Gets(i)]
           Rebased(i, m) == [agent |-> m.agent, files |-> files[i],
                             allowed |-> IF Broad(m) /\ ~HasExclusions(m.agent) THEN {} ELSE files[i]]
           e == [i \in DOMAIN sq |-> Rebased(i, sq[i])]
           K == {i \in DOMAIN e : e[i].files # {}}
<1>1. Rebase(sq, c, ch) = CoverLeftovers(EntriesAt(e, K), c, ch)
  BY DEF Rebase, EachEntry, Where
<1>2. DOMAIN sq = 1..Len(sq) /\ Len(sq) \in Nat /\ \A i \in DOMAIN sq : sq[i] \in Assignments
  OBVIOUS
<1>3. \A i \in DOMAIN sq : files[i] \in SUBSET Files
  <2> SUFFICES ASSUME NEW i \in DOMAIN sq PROVE files[i] \in SUBSET Files
    OBVIOUS
  <2>1. Brought(sq[i], ch) \subseteq ch
    BY DEF Brought
  <2>2. Gets(i) \subseteq ch
    OBVIOUS
  <2> HIDE DEF Gets
  <2> QED BY <2>1, <2>2
<1> HIDE DEF files
<1>4. e \in Seq(Assignments)
  <2>1. \A i \in DOMAIN sq : Rebased(i, sq[i]) \in Assignments
    BY <1>2, <1>3 DEF Assignments
  <2> HIDE DEF Rebased
  <2>2. e = [i \in 1..Len(sq) |-> e[i]] /\ \A i \in 1..Len(sq) : e[i] \in Assignments
    BY <1>2, <2>1
  <2> HIDE DEF e
  <2> QED BY <1>2, <2>2, SeqOf
<1>5. K \in SUBSET DOMAIN e
  OBVIOUS
<1> HIDE DEF e, K
<1>6. EntriesAt(e, K) \in Seq(Assignments)
  BY <1>4, <1>5, EntriesAre
<1> QED BY <1>1, <1>6, CoverSees

\* A reused cohort shows the required reviewers their matches.
LEMMA ReusedSees ==
  ASSUME NEW sq \in Seq(Assignments), NEW c \in Catalogs, NEW ch \in SUBSET Files
  PROVE  Reused(sq, c, ch) \in Seq(Assignments) /\ Sees(Reused(sq, c, ch), c, ch)
BY RebaseIs, WidenSees, CoverSees DEF Reused

\* A cohort grows by assignments.
LEMMA GrownIs ==
  ASSUME NEW sq \in Seq(Assignments), NEW c \in Catalogs, NEW ch \in SUBSET Files
  PROVE  Grown(sq, c, ch) \in Seq(Assignments)
<1> DEFINE t == Reused(sq, c, ch)
           K == {i \in DOMAIN t : t[i].agent \notin Chosen(sq)}
<1>1. t \in Seq(Assignments)
  BY ReusedSees
<1>2. Joining(sq, c, ch) = EntriesAt(t, K)
  BY DEF Joining, Where
<1>3. K \in SUBSET DOMAIN t
  OBVIOUS
<1> HIDE DEF t, K
<1>4. Joining(sq, c, ch) \in Seq(Assignments)
  BY <1>1, <1>2, <1>3, EntriesAre
<1> QED BY <1>4 DEF Grown

-----------------------------------------------------------------------------
(* Rollups.                                                                 *)

\* The positions of the findings of one severity, in their order.
Positions(fs, v) ==
  EntriesAt([i \in DOMAIN fs |-> i], {i \in DOMAIN fs : fs[i].severity = v})

\* Every finding of the severity is there.
LEMMA PositionsAre ==
  ASSUME NEW fs \in Seq(Findings), NEW v
  PROVE  /\ Positions(fs, v) \in Seq(DOMAIN fs)
         /\ \A i \in DOMAIN fs : fs[i].severity = v => Holds(Positions(fs, v), i)
<1> DEFINE s == [i \in DOMAIN fs |-> i]
           K == {i \in DOMAIN fs : fs[i].severity = v}
           D == DOMAIN fs
<1>1. s \in Seq(D) /\ DOMAIN s = D /\ \A i \in D : s[i] = i
  <2>1. D = 1..Len(fs) /\ Len(fs) \in Nat
    OBVIOUS
  <2>2. s \in [1..Len(fs) -> D]
    BY <2>1
  <2> HIDE DEF D
  <2> QED BY <2>1, <2>2
<1>2. K \in SUBSET DOMAIN s
  OBVIOUS
<1>3. Positions(fs, v) = EntriesAt(s, K)
  BY DEF Positions
<1>4. \A i \in D : fs[i].severity = v => i \in K
  OBVIOUS
<1> HIDE DEF s, K
<1>5. EntriesAt(s, K) \in Seq(D) /\ \A i \in K : \E k \in DOMAIN EntriesAt(s, K) : EntriesAt(s, K)[k] = s[i]
  BY <1>1, <1>2, EntriesAre
<1> QED BY <1>1, <1>2, <1>3, <1>4, <1>5 DEF Holds

\* The fallback keeps every finding.
LEMMA FallbackIs ==
  ASSUME NEW fs \in Seq(Findings)
  PROVE  /\ FallbackRollup(fs).order \in Seq(DOMAIN fs)
         /\ \A i \in DOMAIN fs : Holds(FallbackRollup(fs).order, i)
<1> DEFINE D == DOMAIN fs
           b == Positions(fs, "blocking")
           j == Positions(fs, "major")
           m == Positions(fs, "minor")
           n == Positions(fs, "nits")
<1>1. FallbackRollup(fs).order = b \o j \o m \o n
  <2>1. \A v : {i \in DOMAIN [k \in DOMAIN fs |-> k] : fs[[k \in DOMAIN fs |-> k][i]].severity = v}
                 = {i \in DOMAIN fs : fs[i].severity = v}
    OBVIOUS
  <2> QED BY <2>1 DEF FallbackRollup, Where, Positions
<1>2. /\ b \in Seq(D) /\ j \in Seq(D) /\ m \in Seq(D) /\ n \in Seq(D)
      /\ \A i \in D : /\ fs[i].severity = "blocking" => Holds(b, i)
                      /\ fs[i].severity = "major" => Holds(j, i)
                      /\ fs[i].severity = "minor" => Holds(m, i)
                      /\ fs[i].severity = "nits" => Holds(n, i)
  BY PositionsAre
<1>3. \A i \in D : fs[i].severity \in {"blocking", "major", "minor", "nits"}
  <2>1. \A i \in D : fs[i] \in Findings
    OBVIOUS
  <2>2. {Severities[i] : i \in DOMAIN Severities} = {"blocking", "major", "minor", "nits"}
    BY DEF Severities
  <2> QED BY <2>1, <2>2 DEF Findings
<1> HIDE DEF b, j, m, n, D
<1>4. b \o j \in Seq(D) /\ \A x : Holds(b, x) \/ Holds(j, x) => Holds(b \o j, x)
  BY <1>2, JoinHolds
<1>5. b \o j \o m \in Seq(D) /\ \A x : Holds(b \o j, x) \/ Holds(m, x) => Holds(b \o j \o m, x)
  BY <1>2, <1>4, JoinHolds
<1>6. b \o j \o m \o n \in Seq(D) /\ \A x : Holds(b \o j \o m, x) \/ Holds(n, x) => Holds(b \o j \o m \o n, x)
  BY <1>2, <1>5, JoinHolds
<1>7. \A i \in D : Holds(b \o j \o m \o n, i)
  BY <1>2, <1>3, <1>4, <1>5, <1>6
<1> QED BY <1>1, <1>6, <1>7 DEF D

\* The rollups a plan may be made of.
Answers(fs) == {b \in Rollups(fs) : ValidRollup(fs, b)} \cup {FallbackRollup(fs)}

\* A finding is ordered, or dropped in favour of one that is.
Accounted(fs, a) ==
  LET shown == {a.order[k] : k \in DOMAIN a.order}
  IN  \A i \in DOMAIN fs : i \in shown \/ (i \in DOMAIN a.drop /\ a.drop[i] \in shown)

\* Every rollup a plan may be made of accounts for every finding.
LEMMA AnswerIs ==
  ASSUME NEW fs \in Seq(Findings), NEW a \in Answers(fs)
  PROVE  a.order \in Seq(DOMAIN fs) /\ Accounted(fs, a)
<1>1. CASE a \in Rollups(fs) /\ ValidRollup(fs, a)
  <2>1. a.order \in Seq(DOMAIN fs)
    <3>1. PICK k \in 0..Len(fs) : a.order \in [1..k -> 1..Len(fs)]
      BY <1>1 DEF Rollups, Orders
    <3>2. DOMAIN fs = 1..Len(fs)
      OBVIOUS
    <3> QED BY <3>1, <3>2
  <2>2. PICK D \in SUBSET DOMAIN fs : a.drop \in [D -> DOMAIN fs]
    BY <1>1 DEF Rollups
  <2>3. Accounted(fs, a)
    BY <1>1, <2>2 DEF ValidRollup, Accounted
  <2> QED BY <2>1, <2>3
<1>2. CASE a = FallbackRollup(fs)
  BY <1>2, FallbackIs DEF Accounted, Holds
<1> QED BY <1>1, <1>2 DEF Answers

\* The findings in the order of a rollup are findings.
LEMMA OrderedIs ==
  ASSUME NEW fs \in Seq(Findings), NEW a \in Answers(fs)
  PROVE  Ordered(fs, a) \in Seq(Findings)
<1>1. a.order \in Seq(DOMAIN fs)
  BY AnswerIs
<1> DEFINE f == Ordered(fs, a)
<1>2. f = [k \in DOMAIN a.order |-> fs[a.order[k]]]
  BY DEF Ordered
<1>3. DOMAIN a.order = 1..Len(a.order) /\ Len(a.order) \in Nat /\ \A k \in DOMAIN a.order : a.order[k] \in DOMAIN fs
  BY <1>1
<1>4. \A i \in DOMAIN fs : fs[i] \in Findings
  OBVIOUS
<1> HIDE DEF f
<1>5. f = [k \in 1..Len(a.order) |-> f[k]] /\ \A k \in 1..Len(a.order) : f[k] \in Findings
  BY <1>2, <1>3, <1>4
<1>6. f \in Seq(Findings)
  BY <1>3, <1>5, SeqOf
<1> QED BY <1>6 DEF f

\* The comments of a plan are comments on the files.
LEMMA CommentsAre ==
  ASSUME NEW h \in Heads, NEW ts, NEW fs \in Seq(Findings)
  PROVE  Comments(h, ts, fs) \subseteq [at : Nat, path : Files, body : Bodies]
<1> SUFFICES ASSUME NEW c \in Comments(h, ts, fs) PROVE c \in [at : Nat, path : Files, body : Bodies]
  OBVIOUS
<1>1. PICK k \in DOMAIN fs : c = [at |-> k, path |-> fs[k].path, body |-> Body(h, fs[k])]
  BY DEF Comments
<1>2. k \in Nat /\ fs[k] \in Findings
  OBVIOUS
<1>3. fs[k].path \in Files /\ fs[k].text \in Texts
  BY <1>2 DEF Findings
<1>4. Body(h, fs[k]) \in Bodies
  BY <1>3 DEF Body, Bodies
<1> QED BY <1>1, <1>2, <1>3, <1>4

\* A verdict is an event of a review.
LEMMA VerdictIs ==
  ASSUME NEW e, NEW fs, NEW short
  PROVE  Verdict(e, fs, short) \in Events
<1>1. EventForFindings(fs) \in Events
  <2>1. CASE Has(fs, "blocking") \/ (Has(fs, "major") /\ MajorRequests)
    <3>1. EventForFindings(fs) = "request_changes"
      BY <2>1 DEF EventForFindings
    <3> QED BY <3>1 DEF Events
  <2>2. CASE ~Has(fs, "blocking") /\ Has(fs, "major") /\ ~MajorRequests
    <3>1. EventForFindings(fs) = "comment"
      BY <2>2 DEF EventForFindings
    <3> QED BY <3>1 DEF Events
  <2>3. CASE ~Has(fs, "blocking") /\ ~Has(fs, "major")
    <3>1. EventForFindings(fs) = IF OwnPullRequest /\ ~AllowSelfApprove THEN "comment" ELSE "approve"
      BY <2>3 DEF EventForFindings
    <3> QED BY <3>1 DEF Events
  <2> QED BY <2>1, <2>2, <2>3
<1> QED BY <1>1 DEF Verdict, EffectiveEvent, Events

-----------------------------------------------------------------------------
(* The rounds.                                                              *)

\* The types, what an earlier phase leaves to a later one, and the reviewers'
\* scopes: of those at work, and of the stored selection, which a later round
\* of the same head takes over.
SelInv ==
  /\ TypeOK
  /\ phase # "idle" => round \in 1..MaxRounds
  /\ phase = "repair" => Len(results) \in DOMAIN results
  /\ phase \in {"review", "repair"} => Sees(sel, change.catalog, changed)
  /\ stored.sel # <<>> => Sees(stored.sel, change.catalog, changed)
  /\ phase = "post" => Accounted(notes, plan.rollup)
  /\ IsPlan

\* The constants a change is made of.
LEMMA ChangeIs ==
  ASSUME change \in Pushes
  PROVE  /\ change.catalog \in Catalogs /\ head \in Heads
         /\ changed \in SUBSET Files
BY RoundsAssumption DEF head, changed, Changed

\* It holds at the start.
LEMMA SelInit == Init => SelInv
<1> SUFFICES ASSUME Init PROVE SelInv
  OBVIOUS
<1>1. <<>> \in Seq(Assignments) /\ <<>> \in Seq(Results) /\ <<>> \in Seq(Findings)
  OBVIOUS
<1>2. 0 \in 0..MaxRounds
  BY RoundsAssumption
<1>3. stored \in [sel : Seq(Assignments), begun : BOOLEAN] /\ stored.sel = <<>>
  BY <1>1 DEF Init, NoSelection
<1>4. plan.event = "none" /\ plan.todo = {} /\ IsPlan
  BY DEF Init, NoPlan, IsPlan
<1>5. TypeOK
  BY <1>1, <1>2, <1>3, <1>4 DEF Init, TypeOK, Phases
<1> QED BY <1>3, <1>4, <1>5 DEF Init, SelInv

\* A selection is whole, and the required reviewers see their matches.
LEMMA SelectionsSee ==
  ASSUME SelInv, NEW s \in Selections
  PROVE  s \in Seq(Assignments) /\ Sees(s, change.catalog, changed)
<1>1. CASE stored.sel # <<>>
  <2>1. s = stored.sel
    BY <1>1 DEF Selections
  <2>2. stored.sel \in Seq(Assignments)
    BY DEF SelInv, TypeOK
  <2> QED BY <1>1, <2>1, <2>2 DEF SelInv
<1>2. CASE stored.sel = <<>>
  <2>1. PICK c, ch : c = change.catalog /\ ch = changed
    OBVIOUS
  <2>2. c \in Catalogs /\ ch \in SUBSET Files
    BY <2>1, ChangeIs DEF SelInv, TypeOK
  <2>3. PICK p \in Proposals : ~Refused(p, c, ch) /\ s = Adjusted(p, c, ch)
    BY <1>2, <2>1 DEF Selections
  <2>4. p \in Seq(Assignments)
    BY RoundsAssumption
  <2> QED BY <2>1, <2>2, <2>3, <2>4, AdjustedSees
<1> QED BY <1>1, <1>2

\* The same of the cohort and the change at hand.
LEMMA ReusedIs ==
  ASSUME SelInv
  PROVE  LET s == Reused(cohort, change.catalog, changed)
         IN  /\ s \in Seq(Assignments) /\ Sees(s, change.catalog, changed)
             /\ Grown(cohort, change.catalog, changed) \in Seq(Assignments)
<1>1. PICK c, ch, q : c = change.catalog /\ ch = changed /\ q = cohort
  OBVIOUS
<1>2. c \in Catalogs /\ ch \in SUBSET Files /\ q \in Seq(Assignments)
  BY <1>1, ChangeIs DEF SelInv, TypeOK
<1> QED BY <1>1, <1>2, ReusedSees, GrownIs

\* What a pass reports is a result of its files.
LEMMA ReadingsIs ==
  ASSUME SelInv, NEW scope \in SUBSET Files, NEW r \in Readings(scope)
  PROVE  r \in Results /\ Proven(r) \subseteq Files
<1>1. PICK i \in SUBSET scope, k \in SUBSET scope, whole \in BOOLEAN, tool \in BOOLEAN :
        r = [inspected |-> i, skipped |-> k,
             assessed |-> IF whole THEN (Moves(head) \cap scope) \ k ELSE {},
             failed |-> FALSE, tool |-> tool]
  BY DEF Readings
<1>2. (IF whole THEN (Moves(head) \cap scope) \ k ELSE {}) \in SUBSET Files
  OBVIOUS
<1>3. r \in Results
  BY <1>1, <1>2 DEF Results
<1> QED BY <1>3 DEF Results, Proven

\* A reviewer's scope is made of files.
LEMMA ScopeIs ==
  ASSUME SelInv, NEW i \in DOMAIN sel
  PROVE  ScopeOf(i) \in SUBSET Files
<1>1. sel[i] \in Assignments
  BY DEF SelInv, TypeOK
<1>2. changed \in SUBSET Files
  BY ChangeIs DEF SelInv, TypeOK
<1>3. CASE sel[i].allowed # {}
  BY <1>1, <1>3 DEF ScopeOf, Scope, Assignments
<1>4. CASE sel[i].allowed = {} /\ sel[i].files # {}
  BY <1>1, <1>4 DEF ScopeOf, Scope, Assignments
<1>5. CASE sel[i].allowed = {} /\ sel[i].files = {}
  BY <1>2, <1>5 DEF ScopeOf, Scope
<1> QED BY <1>3, <1>4, <1>5

\* The result after a repair is a result.
LEMMA MergedIs ==
  ASSUME NEW p \in Results, NEW r \in Results
  PROVE  Merged(p, Credited(r)) \in Results
<1>1. Credited(r) \in Results
  BY DEF Credited, Results
<1> HIDE DEF Credited
<1> QED BY <1>1 DEF Merged, Results

\* So are those of a reviewer that failed.
LEMMA FailureIs ==
  /\ Failure \in Results
  /\ \A r \in Results : Failed(r) \in Results
<1>1. Failure \in Results
  BY DEF Failure, Results
<1>2. \A r \in Results : Failed(r) \in Results
  BY DEF Failed, Results
<1> QED BY <1>1, <1>2

\* Every step keeps the invariant.
LEMMA SelNext == SelInv /\ [Next]_vars => SelInv'
<1> SUFFICES ASSUME SelInv, [Next]_vars PROVE SelInv'
  OBVIOUS
<1>0. TypeOK /\ IsPlan
  BY DEF SelInv
<1>e. <<>> \in Seq(Assignments) /\ <<>> \in Seq(Results) /\ <<>> \in Seq(Findings)
  OBVIOUS
<1>n. MaxRounds \in Nat
  BY RoundsAssumption
<1>p. IsPlan'
  BY <1>0, PlanNext
<1>f. ASSUME Forget PROVE /\ sel' \in Seq(Assignments) /\ results' \in Seq(Results) /\ notes' \in Seq(Findings)
                          /\ plan'.event = "none" /\ plan'.todo = {} /\ read' = {}
  BY <1>e, <1>f DEF Forget, NoPlan
<1>1. CASE Push
  <2>1. stored' \in [sel : Seq(Assignments), begun : BOOLEAN] /\ stored'.sel = <<>>
    BY <1>1, <1>e DEF Push, NoSelection
  <2>2. TypeOK'
    BY <1>0, <1>1, <2>1 DEF Push, TypeOK
  <2> QED BY <1>1, <1>p, <2>1, <2>2 DEF Push, SelInv
<1>2. CASE BeginFresh \/ BeginFirst
  <2>1. round' \in 1..MaxRounds
    BY <1>0, <1>2, <1>n DEF BeginFresh, BeginFirst, Starts, TypeOK
  <2>2. /\ phase = "idle" /\ phase' = "select" /\ cohort' \in Seq(Assignments)
        /\ UNCHANGED <<change, threads, stored, sel, results, notes, plan, read>>
    BY <1>0, <1>2, <1>e DEF BeginFresh, BeginFirst, Starts, TypeOK
  <2>3. TypeOK'
    BY <1>0, <2>1, <2>2 DEF TypeOK, Phases
  <2> QED BY <1>p, <2>1, <2>2, <2>3 DEF SelInv, changed, head
<1>3. CASE BeginReused
  <2>1. round' \in 1..MaxRounds /\ phase = "idle"
    BY <1>0, <1>3, <1>n DEF BeginReused, Starts, TypeOK
  <2> DEFINE reused == Reused(cohort, change.catalog, changed)
  <2>2. /\ reused \in Seq(Assignments) /\ Sees(reused, change.catalog, changed)
        /\ Grown(cohort, change.catalog, changed) \in Seq(Assignments)
    BY ReusedIs
  <2>3. /\ sel' = IF BegunWith(reused) THEN stored.sel ELSE reused
        /\ cohort' = Grown(cohort, change.catalog, changed) /\ phase' = "review"
        /\ UNCHANGED <<change, threads, stored, results, notes, plan, read>>
    BY <1>3 DEF BeginReused
  <2> HIDE DEF reused
  <2>4. BegunWith(reused) => stored.sel # <<>>
    BY DEF BegunWith, Chosen
  <2>5. stored.sel \in Seq(Assignments)
    BY <1>0 DEF TypeOK
  <2>6. sel' \in Seq(Assignments) /\ Sees(sel', change.catalog, changed)
    BY <2>2, <2>3, <2>4, <2>5 DEF SelInv
  <2>7. TypeOK'
    BY <1>0, <2>1, <2>2, <2>3, <2>6 DEF TypeOK, Phases
  <2>8. changed' = changed /\ change'.catalog = change.catalog
    BY <2>3 DEF changed, head
  <2> QED BY <1>p, <2>1, <2>3, <2>6, <2>7, <2>8 DEF SelInv
<1>4. CASE Select
  <2>1. PICK s \in Selections :
          /\ stored' = [stored EXCEPT !.sel = s]
          /\ \/ sel' = s /\ cohort' = s /\ phase' = "review"
             \/ phase' = "idle" /\ UNCHANGED <<sel, cohort>>
    BY <1>4 DEF Select
  <2>2. phase = "select" /\ UNCHANGED <<change, threads, round, results, notes, plan, read>>
    BY <1>4 DEF Select
  <2>3. s \in Seq(Assignments) /\ Sees(s, change.catalog, changed)
    BY SelectionsSee
  <2>4. stored' \in [sel : Seq(Assignments), begun : BOOLEAN] /\ stored'.sel = s
    BY <1>0, <2>1, <2>3 DEF TypeOK
  <2>5. TypeOK'
    BY <1>0, <2>1, <2>2, <2>3, <2>4 DEF TypeOK, Phases
  <2>6. changed' = changed /\ change'.catalog = change.catalog /\ round \in 1..MaxRounds
    BY <2>2 DEF changed, head, SelInv
  <2> QED BY <1>p, <2>1, <2>2, <2>3, <2>4, <2>5, <2>6 DEF SelInv
<1>b. ASSUME stored' = [stored EXCEPT !.begun = stored.sel # <<>>]
      PROVE  stored' \in [sel : Seq(Assignments), begun : BOOLEAN] /\ stored'.sel = stored.sel
  BY <1>0, <1>b DEF TypeOK
<1>5. CASE Review
  <2>1. PICK r \in Readings(ScopeOf(Turn)), report \in Reports :
          /\ results' = Append(results, r)
          /\ notes' = notes \o report
          /\ read' = read \cup Proven(r)
          /\ phase' \in {"repair", "review"}
    BY <1>5 DEF Review
  <2>2. /\ phase = "review" /\ Turn \in DOMAIN sel
        /\ stored' = [stored EXCEPT !.begun = stored.sel # <<>>]
        /\ UNCHANGED <<change, cohort, threads, round, sel, plan>>
    BY <1>5 DEF Review
  <2>3. r \in Results /\ Proven(r) \subseteq Files
    BY <2>2, ScopeIs, ReadingsIs
  <2>4. report \in Seq(Findings)
    BY RoundsAssumption
  <2>5. results' \in Seq(Results) /\ Len(results') \in DOMAIN results'
    BY <1>0, <2>1, <2>3 DEF TypeOK
  <2>6. notes' \in Seq(Findings) /\ read' \subseteq Files
    BY <1>0, <2>1, <2>3, <2>4 DEF TypeOK
  <2>7. TypeOK'
    BY <1>0, <1>b, <2>1, <2>2, <2>5, <2>6 DEF TypeOK, Phases
  <2>8. changed' = changed /\ change'.catalog = change.catalog
    BY <2>2 DEF changed, head
  <2>9. round \in 1..MaxRounds
    BY <2>2 DEF SelInv
  <2> QED BY <1>b, <1>p, <2>1, <2>2, <2>5, <2>7, <2>8, <2>9 DEF SelInv
<1>6. CASE ReviewFails
  <2>1. /\ phase = "review" /\ results' = Append(results, Failure)
        /\ stored' = [stored EXCEPT !.begun = stored.sel # <<>>]
        /\ UNCHANGED <<change, cohort, threads, round, phase, sel, notes, plan, read>>
    BY <1>6 DEF ReviewFails
  <2>2. results' \in Seq(Results)
    BY <1>0, <2>1, FailureIs DEF TypeOK
  <2>3. TypeOK'
    BY <1>0, <1>b, <2>1, <2>2 DEF TypeOK
  <2>4. changed' = changed /\ change'.catalog = change.catalog
    BY <2>1 DEF changed, head
  <2> QED BY <1>b, <1>p, <2>1, <2>3, <2>4 DEF SelInv
<1>7. CASE Repair
  <2> DEFINE i == Len(results)
             files == RepairFiles(head, ScopeOf(i), results[i])
  <2>1. PICK r \in Readings(files), report \in Reports :
          /\ results' = [results EXCEPT ![i] = Merged(@, Credited(r))]
          /\ notes' = notes \o report
          /\ read' = read \cup Proven(r)
    BY <1>7 DEF Repair
  <2>2. /\ phase = "repair" /\ phase' = "review"
        /\ UNCHANGED <<change, cohort, threads, round, stored, sel, plan>>
    BY <1>7 DEF Repair
  <2>3. files \in SUBSET Files
    BY DEF RepairFiles
  <2> HIDE DEF files
  <2>4. r \in Results /\ Proven(r) \subseteq Files
    BY <2>3, ReadingsIs
  <2>5. report \in Seq(Findings)
    BY RoundsAssumption
  <2>6. i \in DOMAIN results /\ results[i] \in Results
    BY <2>2 DEF SelInv, TypeOK
  <2>7. Merged(results[i], Credited(r)) \in Results
    BY <2>4, <2>6, MergedIs
  <2>8. results' = [results EXCEPT ![i] = Merged(results[i], Credited(r))]
    BY <2>1
  <2>9. results' \in Seq(Results)
    <3>1. results \in Seq(Results)
      BY <1>0 DEF TypeOK
    <3> HIDE DEF i
    <3> QED BY <2>6, <2>7, <2>8, <3>1, ReplaceIn
  <2>10. notes' \in Seq(Findings) /\ read' \subseteq Files
    BY <1>0, <2>1, <2>4, <2>5 DEF TypeOK
  <2>11. TypeOK'
    BY <1>0, <2>2, <2>9, <2>10 DEF TypeOK, Phases
  <2>12. changed' = changed /\ change'.catalog = change.catalog
    BY <2>2 DEF changed, head
  <2> QED BY <1>p, <2>2, <2>11, <2>12 DEF SelInv
<1>8. CASE RepairFails
  <2> DEFINE i == Len(results)
  <2>1. /\ phase = "repair" /\ phase' = "review"
        /\ results' = [results EXCEPT ![i] = Failed(results[i])]
        /\ UNCHANGED <<change, cohort, threads, round, stored, sel, notes, plan, read>>
    BY <1>8 DEF RepairFails
  <2>2. i \in DOMAIN results /\ results[i] \in Results
    BY <2>1 DEF SelInv, TypeOK
  <2>3. results' \in Seq(Results)
    <3>1. Failed(results[i]) \in Results /\ results \in Seq(Results)
      BY <1>0, <2>2, FailureIs DEF TypeOK
    <3> HIDE DEF i
    <3> QED BY <2>1, <2>2, <3>1, ReplaceIn
  <2>4. TypeOK'
    BY <1>0, <2>1, <2>3 DEF TypeOK, Phases
  <2>5. changed' = changed /\ change'.catalog = change.catalog
    BY <2>1 DEF changed, head
  <2> QED BY <1>p, <2>1, <2>4, <2>5 DEF SelInv
<1>9. CASE Rollup
  <2>1. PICK a \in Answers(notes), lost \in BOOLEAN :
          plan' = [event |-> Verdict(a.event, Ordered(notes, a), FellShort(lost)),
                   rollup |-> a, todo |-> Comments(head, threads, Ordered(notes, a))]
    BY <1>9 DEF Rollup, Answers
  <2>2. /\ phase = "review" /\ phase' = "post" /\ sel' = <<>> /\ results' = <<>>
        /\ UNCHANGED <<change, cohort, threads, round, stored, notes, read>>
    BY <1>9 DEF Rollup
  <2>3. notes \in Seq(Findings) /\ head \in Heads
    BY <1>0, ChangeIs DEF TypeOK
  <2>4. plan'.event \in Events /\ plan'.rollup = a /\ plan'.todo = Comments(head, threads, Ordered(notes, a))
    BY <2>1, VerdictIs
  <2>5. plan'.todo \subseteq [at : Nat, path : Files, body : Bodies]
    <3>1. PICK h, ts, fs : h = head /\ ts = threads /\ fs = notes
      OBVIOUS
    <3>2. h \in Heads /\ fs \in Seq(Findings) /\ a \in Answers(fs)
      BY <2>3, <3>1
    <3>3. Ordered(fs, a) \in Seq(Findings)
      BY <3>2, OrderedIs
    <3> QED BY <2>4, <3>1, <3>2, <3>3, CommentsAre
  <2>6. Accounted(notes, a)
    BY <2>3, AnswerIs
  <2>7. TypeOK'
    BY <1>0, <1>e, <2>2, <2>4, <2>5 DEF TypeOK, Phases
  <2>8. changed' = changed /\ change'.catalog = change.catalog /\ round \in 1..MaxRounds
    BY <2>2 DEF changed, head, SelInv
  <2> QED BY <1>p, <2>2, <2>4, <2>6, <2>7, <2>8 DEF SelInv
<1>10. CASE Publish
  <2>1. PICK c \in plan.todo :
          /\ threads' = threads \cup {[round |-> round, at |-> c.at, path |-> c.path, body |-> c.body]}
          /\ plan' = [plan EXCEPT !.todo = @ \ {c}]
    BY <1>10 DEF Publish
  <2>2. phase = "post" /\ UNCHANGED <<change, cohort, round, phase, stored, sel, results, notes, read>>
    BY <1>10 DEF Publish
  <2>3. plan'.event = plan.event /\ plan'.rollup = plan.rollup /\ plan'.todo \subseteq plan.todo
    BY <1>0, <2>1 DEF IsPlan
  <2>4. c \in [at : Nat, path : Files, body : Bodies] /\ round \in 1..MaxRounds
    BY <1>0, <2>2 DEF TypeOK, SelInv
  <2>5. threads' \subseteq Threads
    BY <1>0, <2>1, <2>4 DEF TypeOK, Threads
  <2>6. TypeOK'
    BY <1>0, <2>2, <2>3, <2>5 DEF TypeOK
  <2>7. changed' = changed /\ change'.catalog = change.catalog
    BY <2>2 DEF changed, head
  <2> QED BY <1>p, <2>2, <2>3, <2>4, <2>6, <2>7 DEF SelInv
<1>11. CASE Finish
  <2>1. stored' \in [sel : Seq(Assignments), begun : BOOLEAN] /\ stored'.sel = <<>>
    BY <1>11, <1>e DEF Finish, NoSelection
  <2>2. Forget /\ phase' = "idle" /\ UNCHANGED <<change, cohort, threads, round>>
    BY <1>11 DEF Finish
  <2>3. TypeOK'
    BY <1>0, <1>f, <2>1, <2>2 DEF TypeOK, Phases
  <2> QED BY <1>p, <2>1, <2>2, <2>3 DEF SelInv
<1>12. CASE Abandon
  <2>1. Forget /\ phase' = "idle" /\ UNCHANGED <<change, cohort, threads, round, stored>>
    BY <1>12 DEF Abandon
  <2>2. TypeOK'
    BY <1>0, <1>f, <2>1 DEF TypeOK, Phases
  <2>3. changed' = changed /\ change'.catalog = change.catalog
    BY <2>1 DEF changed, head
  <2> QED BY <1>p, <2>1, <2>2, <2>3 DEF SelInv
<1>13. CASE UNCHANGED vars
  BY <1>13 DEF vars, SelInv, TypeOK, IsPlan, changed, head
<1> QED BY <1>1, <1>2, <1>3, <1>4, <1>5, <1>6, <1>7, <1>8, <1>9, <1>10, <1>11, <1>12, <1>13 DEF Next

\* The variables keep their types, whatever the decoders let through.
THEOREM RoundsTypeCorrect == Spec => []TypeOK
<1>1. SelInv => TypeOK
  BY DEF SelInv
<1> QED BY SelInit, SelNext, <1>1, PTL DEF Spec

\* README.md:504-511: whoever proposes whom, whatever the caps, the exclusions
\* and the cohort of an earlier round, a required reviewer is at work whenever
\* its globs match a changed file, and all it matches is in its scope.
THEOREM RequiredSeeTheirMatches == Spec => []RequiredSeesMatches
<1>1. SelInv => RequiredSeesMatches
  BY DEF SelInv, RequiredSeesMatches, Sees, SeesIn, ScopeOf
<1> QED BY SelInit, SelNext, <1>1, PTL DEF Spec

\* contracts.go:636-704, reviewplan.go:555-619: no finding of a reviewer gets
\* lost between the rollup's answer, or its replacement, and the plan.
THEOREM NoFindingIsLost == Spec => []FindingsAccounted
<1>1. SelInv => FindingsAccounted
  BY DEF SelInv, FindingsAccounted, Accounted
<1> QED BY SelInit, SelNext, <1>1, PTL DEF Spec

-----------------------------------------------------------------------------
(* How a process comes by its database (Startup).                          *)

Moving == {"readDir", "check", "move", "removeDir"}

Placed ==
  /\ place \in [Entries -> {"none", "legacy", "staging", "root"}]
  /\ staged \in BOOLEAN /\ nested \in BOOLEAN
  /\ own \subseteq Entries /\ early \subseteq Entries

Held ==
  /\ pc \in [Processes -> Labels]
  /\ todo \in [Processes -> SUBSET Entries] /\ names \in [Processes -> SUBSET Entries]
  /\ handle \in [Processes -> Databases \cup {NoDb}]
  /\ current \in [Processes -> Nat]
  /\ command \in [Processes -> Commands] /\ alone \in [Processes -> BOOLEAN]

Migrated ==
  /\ version \in [Databases -> Nat]
  /\ applied \in [Databases -> Seq(Nat)]

Handled ==
  \A p \in Processes : pc[p] \in {"ensureMeta", "apply"} => handle[p] \in Databases

Types == Placed /\ Held /\ Migrated /\ Handled

\* The old directory is staged whole, and the staged one goes when it is empty.
Shifted ==
  /\ ~nested => At("legacy") = {}
  /\ ~staged => At("staging") = {}
  /\ \A p \in Processes : pc[p] \in Moving => ~nested

\* What is looked at before the first move, and moved, is nobody's of the root.
Spared ==
  /\ EarlyKept
  /\ \A p \in Processes :
       /\ pc[p] = "check" => /\ todo[p] \subseteq names[p] /\ todo[p] # {}
                             /\ (names[p] \ todo[p]) \cap early = {}
       /\ pc[p] = "move" => todo[p] \cap early = {} /\ todo[p] # {}

\* An opened database stays the file at ledger.db, and its version grows.
Opened ==
  \A p \in Processes :
    /\ handle[p] = "own" => LedgerDb \in InRoot
    /\ pc[p] = "apply" => current[p] <= version[handle[p]]

\* Who is alone has looked, and nobody has moved anything since.
Unmet ==
  \A p \in Processes : alone[p] =>
    /\ \A q \in Processes \ {p} : pc[q] = "idle"
    /\ pc[p] = "statLegacy" => ~staged
    /\ pc[p] = "stage" => ~staged
    /\ command[p] # "show" /\ pc[p] = "open" => ~nested /\ ~staged

StartupInv == Types /\ Shifted /\ Spared /\ Opened /\ Unmet /\ MigratedInOrder

LEMMA FirstIn ==
  ASSUME NEW S, S \subseteq Entries, S # {}
  PROVE  Earliest(S) \in S
<1>1. Entries \subseteq Nat
  BY StartupAssumption DEF Entries
<1>2. PICK m \in S : \A e \in S : ~(<<e, m>> \in OpToRel(<, Nat))
  BY <1>1, NatLessThanWellFounded, WFMin
<1>3. \A e \in S : ~(e < m)
  BY <1>1, <1>2 DEF OpToRel
<1>4. \A e \in S : m <= e
  BY <1>1, <1>3
<1> QED
  BY <1>4 DEF Earliest

StartupActs(p) ==
  \/ Start(p) \/ Look(p) \/ Change(p)
  \/ Work(p) \/ Leave(p) \/ Crash(p)
  \/ Open(p) /\ UNCHANGED <<alone, starts>>
  \/ ApplyMigration(p) /\ UNCHANGED <<tree, alone, starts>>

\* What a step leaves of the other processes.
LEMMA OthersKept ==
  ASSUME Types, NEW p \in Processes, StartupActs(p), NEW q \in Processes, q # p
  PROVE  /\ pc'[q] = pc[q] /\ todo'[q] = todo[q] /\ names'[q] = names[q]
         /\ handle'[q] = handle[q] /\ current'[q] = current[q] /\ command'[q] = command[q]
         /\ alone'[q] => alone[q]
<1> USE DEF Types, Held, hold, Goto
<1>1. CASE Start(p)
  BY <1>1 DEF Start
<1>2. CASE Look(p)
  BY <1>2 DEF Look, StatStaging, StatConflict, StatLegacy, ReadDir, Check,
              Done, EnsureMeta, Judge, End
<1>3. CASE Change(p)
  BY <1>3 DEF Change, Stage, Move, RemoveDir, Done, End
<1>4. CASE Work(p) \/ Leave(p) \/ Crash(p)
  BY <1>4, StartupAssumption DEF Work, Leave, Crash, End
<1>5. CASE Open(p) /\ UNCHANGED <<alone, starts>>
  BY <1>5 DEF Open, End
<1>6. CASE ApplyMigration(p) /\ UNCHANGED <<tree, alone, starts>>
  BY <1>6 DEF ApplyMigration, Judge, End
<1> QED
  BY <1>1, <1>2, <1>3, <1>4, <1>5, <1>6 DEF StartupActs

LEMMA PlacedStep ==
  ASSUME Types, NEW p \in Processes, StartupActs(p)
  PROVE  Placed'
<1> USE DEF Types, Placed, tree
<1>1. CASE UNCHANGED tree
  BY <1>1
<1>2. CASE Start(p) \/ Look(p) \/ Leave(p) \/ Crash(p)
  BY <1>1, <1>2 DEF Start, Look, Leave, Crash
<1>3. CASE Stage(p) \/ Move(p) \/ RemoveDir(p)
  BY <1>3 DEF Stage, Move, RemoveDir
<1>4. CASE Work(p)
  BY <1>4, StartupAssumption DEF Work
<1>5. CASE Open(p)
  <2>1. LedgerDb \in Entries
    BY StartupAssumption DEF LedgerDb, Entries
  <2> QED
    BY <1>5, <2>1 DEF Open
<1>6. CASE UNCHANGED <<tree, alone, starts>>
  BY <1>1, <1>6
<1> QED
  BY <1>2, <1>3, <1>4, <1>5, <1>6 DEF StartupActs, Change

LEMMA HeldStep ==
  ASSUME Types, NEW p \in Processes, StartupActs(p)
  PROVE  Held'
<1> USE DEF Types, Held, hold, Goto, Labels
<1>1. CASE Start(p)
  <2>1. PICK c \in Commands : /\ command' = [command EXCEPT ![p] = c]
                              /\ pc' = [pc EXCEPT ![p] = IF c = "show" THEN "open" ELSE "statStaging"]
    BY <1>1 DEF Start
  <2> QED
    BY <1>1, <2>1 DEF Start
<1>2. ASSUME End(p), alone' = alone PROVE Held'
  BY <1>2 DEF End
<1>3. ASSUME NEW label \in Labels, Goto(p, label), UNCHANGED hold, alone' = alone PROVE Held'
  BY <1>3
<1>4. ASSUME NEW again \in SUBSET Entries, NEW label \in Labels, Done(p, again, label), alone' = alone
      PROVE  Held'
  BY <1>4 DEF Done
<1>5. ASSUME NEW v \in Nat, Judge(p, v), alone' = alone PROVE Held'
  BY <1>2, <1>5 DEF Judge
<1>6. CASE Look(p)
  <2>0. alone' = alone
    BY <1>6 DEF Look
  <2>1. CASE StatStaging(p) \/ StatConflict(p) \/ StatLegacy(p)
    BY <1>2, <1>3, <2>0, <2>1 DEF StatStaging, StatConflict, StatLegacy
  <2>2. CASE ReadDir(p)
    BY <1>2, <2>0, <2>2 DEF ReadDir, At
  <2>3. CASE Check(p)
    BY <1>2, <1>4, <2>0, <2>3 DEF Check
  <2>4. CASE EnsureMeta(p)
    <3>1. handle[p] \in Databases
      BY <2>4 DEF EnsureMeta, Handled
    <3> QED
      BY <1>5, <2>0, <2>4, <3>1 DEF EnsureMeta, Migrated
  <2> QED
    BY <1>6, <2>1, <2>2, <2>3, <2>4 DEF Look
<1>7. CASE Change(p)
  <2>0. alone' = alone
    BY <1>7 DEF Change
  <2>1. CASE Stage(p)
    BY <1>2, <1>3, <2>0, <2>1 DEF Stage
  <2>2. CASE Move(p)
    <3>1. End(p) \/ Done(p, {}, "removeDir")
      BY <2>2 DEF Move
    <3> QED
      BY <1>2, <1>4, <2>0, <3>1
  <2>3. CASE RemoveDir(p)
    BY <1>2, <1>3, <2>0, <2>3 DEF RemoveDir
  <2> QED
    BY <1>7, <2>1, <2>2, <2>3 DEF Change
<1>8. CASE Work(p) \/ Leave(p) \/ Crash(p)
  BY <1>2, <1>8 DEF Work, Leave, Crash
<1>9. CASE Open(p) /\ UNCHANGED <<alone, starts>>
  <2>1. CASE End(p)
    BY <1>2, <1>9, <2>1
  <2>2. CASE ~End(p)
    <3>1. \E db \in Databases : handle' = [handle EXCEPT ![p] = db]
      BY <1>9, <2>2 DEF Open, Databases
    <3> QED
      BY <1>9, <2>2, <3>1 DEF Open
  <2> QED
    BY <2>1, <2>2
<1>10. CASE ApplyMigration(p) /\ UNCHANGED <<tree, alone, starts>>
  <2>1. handle[p] \in Databases /\ version[handle[p]] \in Nat /\ current[p] + 1 \in Nat
    BY <1>10 DEF ApplyMigration, Migrated, Handled
  <2>2. Judge(p, version[handle[p]]) \/ Judge(p, current[p] + 1)
    BY <1>10 DEF ApplyMigration
  <2> QED
    BY <1>5, <1>10, <2>1, <2>2
<1> QED
  BY <1>1, <1>6, <1>7, <1>8, <1>9, <1>10 DEF StartupActs

LEMMA MigratedStep ==
  ASSUME Types, NEW p \in Processes, StartupActs(p)
  PROVE  Migrated'
<1> USE DEF Types, Migrated
<1>1. CASE UNCHANGED <<version, applied>>
  BY <1>1
<1>2. CASE Start(p) \/ Look(p) \/ Change(p) \/ Work(p) \/ Leave(p)
        \/ Crash(p)
  BY <1>1, <1>2 DEF Start, Look, Change, Work, Leave, Crash
<1>3. CASE Open(p)
  <2>1. <<>> \in Seq(Nat) /\ 0 \in Nat
    OBVIOUS
  <2>2. \/ UNCHANGED <<version, applied>>
        \/ version' = [version EXCEPT !.own = 0] /\ applied' = [applied EXCEPT !.own = <<>>]
    BY <1>3 DEF Open
  <2> QED
    BY <1>1, <2>1, <2>2
<1>4. CASE ApplyMigration(p)
  <2>1. handle[p] \in Databases /\ current[p] + 1 \in Nat
    BY <1>4 DEF ApplyMigration, Held, Handled
  <2>2. Append(applied[handle[p]], current[p] + 1) \in Seq(Nat)
    BY <2>1
  <2> QED
    BY <1>1, <1>4, <2>1, <2>2 DEF ApplyMigration
<1> QED
  BY <1>2, <1>3, <1>4 DEF StartupActs

LEMMA HandledStep ==
  ASSUME Types, NEW p \in Processes, StartupActs(p)
  PROVE  Handled'
<1> USE DEF Types, Held, Handled, Goto
<1>0. \A q \in Processes \ {p} : pc'[q] = pc[q] /\ handle'[q] = handle[q]
  BY OthersKept
<1>1. ASSUME pc'[p] \notin {"ensureMeta", "apply"} PROVE Handled'
  BY <1>0, <1>1
<1>2. CASE Start(p)
  BY <1>1, <1>2 DEF Start
<1>3. CASE Look(p)
  <2>1. CASE StatStaging(p) \/ StatConflict(p) \/ StatLegacy(p) \/ ReadDir(p)
    BY <1>1, <2>1 DEF StatStaging, StatConflict, StatLegacy, ReadDir, End
  <2>2. CASE Check(p)
    BY <1>1, <2>2 DEF Check, Done, End
  <2>3. CASE EnsureMeta(p)
    BY <1>0, <2>3 DEF EnsureMeta, Judge, End
  <2> QED
    BY <1>3, <2>1, <2>2, <2>3 DEF Look
<1>4. CASE Change(p) \/ Leave(p) \/ Crash(p)
  BY <1>1, <1>4 DEF Change, Stage, Move, RemoveDir, Done, Leave, Crash,
                    End
<1>5. CASE Work(p)
  BY <1>5 DEF Work, hold
<1>6. CASE Open(p)
  BY <1>0, <1>6 DEF Open, End, Databases
<1>7. CASE ApplyMigration(p)
  BY <1>0, <1>7 DEF ApplyMigration, Judge, End
<1> QED
  BY <1>2, <1>3, <1>4, <1>5, <1>6, <1>7 DEF StartupActs

\* The old directory is moved in two renames, and neither goes back.
LEMMA ShiftedStep ==
  ASSUME Types, Shifted, NEW p \in Processes, StartupActs(p)
  PROVE  Shifted'
<1> USE DEF Types, Placed, Held, Shifted, At, Moving, Goto
<1>0. \A q \in Processes \ {p} : pc'[q] = pc[q]
  BY OthersKept
<1>1. ASSUME UNCHANGED tree, pc'[p] \in Moving => pc[p] \in Moving \/ ~nested
      PROVE  Shifted'
  BY <1>0, <1>1 DEF tree
<1>2. CASE Start(p)
  BY <1>1, <1>2 DEF Start
<1>3. CASE Look(p)
  <2>1. UNCHANGED tree
    BY <1>3 DEF Look
  <2>2. CASE StatStaging(p) \/ StatConflict(p) \/ StatLegacy(p) \/ ReadDir(p)
    BY <1>1, <2>1, <2>2 DEF StatStaging, StatConflict, StatLegacy, ReadDir, End
  <2>3. CASE Check(p) \/ EnsureMeta(p)
    BY <1>1, <2>1, <2>3 DEF Check, Done, EnsureMeta, Judge, End
  <2> QED
    BY <1>3, <2>2, <2>3 DEF Look
<1>4. CASE Stage(p)
  <2>1. CASE nested /\ ~staged
    BY <1>0, <1>4, <2>1 DEF Stage
  <2>2. CASE ~(nested /\ ~staged)
    BY <1>1, <1>4, <2>2 DEF Stage, End
  <2> QED
    BY <2>1, <2>2
<1>5. CASE Move(p)
  <2>1. CASE End(p) /\ UNCHANGED tree
    BY <1>1, <1>5, <2>1 DEF End
  <2>2. CASE ~(End(p) /\ UNCHANGED tree)
    <3>1. /\ pc[p] = "move" /\ place' = [place EXCEPT ![Earliest(todo[p])] = "root"]
          /\ UNCHANGED <<staged, nested>>
      BY <1>5, <2>2 DEF Move
    <3> QED
      BY <1>0, <3>1
  <2> QED
    BY <2>1, <2>2
<1>6. CASE RemoveDir(p)
  BY <1>0, <1>1, <1>6 DEF RemoveDir, End, tree
<1>7. CASE Work(p) \/ Leave(p) \/ Crash(p)
  BY <1>0, <1>1, <1>7 DEF Work, Leave, Crash, End
<1>8. CASE Open(p)
  BY <1>0, <1>1, <1>8 DEF Open, End, tree
<1>9. CASE ApplyMigration(p) /\ UNCHANGED <<tree, alone, starts>>
  BY <1>1, <1>9 DEF ApplyMigration, Judge, End
<1> QED
  BY <1>2, <1>3, <1>4, <1>5, <1>6, <1>7, <1>8, <1>9 DEF StartupActs, Change
LEMMA SparedStep ==
  ASSUME Types, Spared, NEW p \in Processes, StartupActs(p)
  PROVE  Spared'
<1> USE DEF Types, Placed, Held, Spared, EarlyKept, Goto
<1>0. \A q \in Processes \ {p} : pc'[q] = pc[q] /\ todo'[q] = todo[q] /\ names'[q] = names[q]
  BY OthersKept
<1>1. ASSUME early' = early, own \subseteq own', pc'[p] \notin {"check", "move"} PROVE Spared'
  BY <1>0, <1>1
<1>2. CASE Start(p)
  BY <1>1, <1>2 DEF Start, tree
<1>3. CASE Look(p)
  <2>0. UNCHANGED tree
    BY <1>3 DEF Look
  <2>1. CASE StatStaging(p) \/ StatConflict(p) \/ StatLegacy(p)
    BY <1>1, <2>0, <2>1 DEF StatStaging, StatConflict, StatLegacy, End, tree
  <2>2. CASE ReadDir(p)
    BY <1>0, <2>0, <2>2 DEF ReadDir, End, tree
  <2>3. CASE Check(p)
    <3>1. CASE End(p)
      BY <1>1, <2>0, <3>1 DEF End, tree
    <3>2. CASE ~End(p)
      <4>1. Earliest(todo[p]) \notin early /\ Done(p, names[p], "move") /\ pc[p] = "check"
        BY <2>3, <3>2 DEF Check, InRoot
      <4>2. todo[p] \subseteq names[p] /\ todo[p] # {} /\ (names[p] \ todo[p]) \cap early = {}
        BY <4>1
      <4>3. CASE todo[p] \ {Earliest(todo[p])} = {}
        <5>1. pc'[p] = "move" /\ todo'[p] = names[p]
          BY <4>1, <4>3 DEF Done
        <5>2. names[p] \cap early = {}
          BY <4>1, <4>2, <4>3
        <5> QED
          BY <1>0, <2>0, <4>2, <5>1, <5>2 DEF tree
      <4>4. CASE todo[p] \ {Earliest(todo[p])} # {}
        <5>1. pc'[p] = "check" /\ todo'[p] = todo[p] \ {Earliest(todo[p])} /\ names'[p] = names[p]
          BY <4>1, <4>4 DEF Done
        <5> QED
          BY <1>0, <2>0, <4>1, <4>2, <4>4, <5>1 DEF tree
      <4> QED
        BY <4>3, <4>4
    <3> QED
      BY <3>1, <3>2
  <2>4. CASE EnsureMeta(p)
    BY <1>1, <2>0, <2>4 DEF EnsureMeta, Judge, End, tree
  <2> QED
    BY <1>3, <2>1, <2>2, <2>3, <2>4 DEF Look
<1>4. CASE Stage(p) \/ RemoveDir(p)
  BY <1>1, <1>4 DEF Stage, RemoveDir, End, tree
<1>5. CASE Move(p)
  <2>1. CASE End(p) /\ UNCHANGED tree
    BY <1>1, <2>1 DEF End, tree
  <2>2. CASE ~(End(p) /\ UNCHANGED tree)
    <3>1. /\ pc[p] = "move" /\ own' = own \ {Earliest(todo[p])} /\ early' = early
          /\ Done(p, {}, "removeDir")
      BY <1>5, <2>2 DEF Move
    <3>2. Earliest(todo[p]) \in todo[p] /\ todo[p] \cap early = {}
      BY <3>1, FirstIn
    <3>3. \/ pc'[p] = "removeDir"
          \/ pc'[p] = "move" /\ todo'[p] # {} /\ todo'[p] = todo[p] \ {Earliest(todo[p])}
      BY <3>1 DEF Done
    <3> QED
      BY <1>0, <3>1, <3>2, <3>3
  <2> QED
    BY <2>1, <2>2
<1>6. CASE Work(p)
  BY <1>6 DEF Work, hold
<1>7. CASE Leave(p) \/ Crash(p)
  BY <1>1, <1>7 DEF Leave, Crash, End, tree
<1>8. CASE Open(p)
  BY <1>1, <1>8 DEF Open, End, tree
<1>9. CASE ApplyMigration(p) /\ UNCHANGED <<tree, alone, starts>>
  BY <1>1, <1>9 DEF ApplyMigration, Judge, End, tree
<1> QED
  BY <1>2, <1>3, <1>4, <1>5, <1>6, <1>7, <1>8, <1>9 DEF StartupActs, Change

\* ledger.db stays in the root once it is there, though a rename may replace the file.
LEMMA LedgerStays ==
  ASSUME Types, NEW p \in Processes, StartupActs(p)
  PROVE  LedgerDb \in InRoot => LedgerDb \in InRoot'
<1> USE DEF Types, Placed, InRoot, At
<1>1. CASE UNCHANGED <<place, own>>
  BY <1>1
<1>2. CASE Start(p) \/ Look(p) \/ Leave(p) \/ Crash(p)
        \/ UNCHANGED <<tree, alone, starts>>
  BY <1>1, <1>2 DEF Start, Look, Leave, Crash, tree
<1>3. CASE Stage(p) \/ RemoveDir(p)
  BY <1>3 DEF Stage, RemoveDir, tree
<1>4. CASE Move(p)
  BY <1>1, <1>4 DEF Move, tree
<1>5. CASE Work(p) \/ Open(p)
  BY <1>1, <1>5 DEF Work, Open, tree
<1> QED
  BY <1>2, <1>3, <1>4, <1>5 DEF StartupActs, Change

LEMMA OpenedStep ==
  ASSUME Types, Opened, NEW p \in Processes, StartupActs(p)
  PROVE  Opened'
<1> USE DEF Types, Held, Opened, Goto
<1>0. \A q \in Processes \ {p} :
        pc'[q] = pc[q] /\ handle'[q] = handle[q] /\ current'[q] = current[q]
  BY OthersKept
<1>1. LedgerDb \in InRoot => LedgerDb \in InRoot'
  BY LedgerStays
<1>2. \A q \in Processes : pc[q] = "apply" =>
        /\ handle[q] \in Databases /\ version[handle[q]] \in Nat /\ current[q] \in Nat
        /\ current[q] <= version[handle[q]]
  BY DEF Handled, Migrated
<1>3. ASSUME UNCHANGED version, pc'[p] # "apply", handle'[p] # "own" \/ handle'[p] = handle[p]
      PROVE  Opened'
  BY <1>0, <1>1, <1>3
<1>4. CASE Start(p)
  BY <1>3, <1>4 DEF Start
<1>5. CASE Look(p)
  <2>0. UNCHANGED version
    BY <1>5 DEF Look
  <2>1. CASE StatStaging(p) \/ StatConflict(p) \/ StatLegacy(p) \/ ReadDir(p)
          \/ Check(p)
    BY <1>3, <2>0, <2>1 DEF StatStaging, StatConflict, StatLegacy, ReadDir,
                            Check, Done, End, hold, NoDb
  <2>2. CASE EnsureMeta(p)
    <3>1. CASE pc'[p] = "apply"
      <4>1. current'[p] = version[handle[p]] /\ handle'[p] = handle[p]
        BY <2>2, <3>1 DEF EnsureMeta, Judge, End
      <4>2. version[handle[p]] \in Nat
        BY <2>2 DEF EnsureMeta, Handled, Migrated
      <4> QED
        BY <1>0, <1>1, <2>0, <4>1, <4>2
    <3>2. CASE pc'[p] # "apply"
      BY <1>3, <2>0, <2>2, <3>2 DEF EnsureMeta, Judge, End, NoDb
    <3> QED
      BY <3>1, <3>2
  <2> QED
    BY <1>5, <2>1, <2>2 DEF Look
<1>6. CASE Change(p) \/ Leave(p) \/ Crash(p)
  BY <1>3, <1>6 DEF Change, Stage, Move, RemoveDir, Done, Leave, Crash,
                    End, hold, NoDb
<1>7. CASE Work(p)
  BY <1>0, <1>1, <1>7 DEF Work, hold
<1>8. CASE Open(p)
  <2>1. CASE End(p) /\ UNCHANGED <<version, applied>>
    BY <1>3, <2>1 DEF End, NoDb
  <2>2. CASE ~(End(p) /\ UNCHANGED <<version, applied>>)
    <3>1. /\ pc'[p] = "ensureMeta"
          /\ handle'[p] = IF place[LedgerDb] = "root" THEN "legacy" ELSE "own"
          /\ place[LedgerDb] # "root" => LedgerDb \in own'
          /\ LedgerDb \in InRoot => UNCHANGED version
          /\ version' = version \/ version' = [version EXCEPT !.own = 0]
      BY <1>8, <2>2 DEF Open
    <3>2. LedgerDb \in InRoot' \/ handle'[p] # "own"
      BY <3>1 DEF InRoot
    <3>3. ASSUME NEW q \in Processes \ {p}, pc[q] = "apply"
          PROVE  version'[handle[q]] = version[handle[q]]
      <4>1. handle[q] = "own" => UNCHANGED version
        BY <3>1
      <4>2. handle[q] \in Databases
        BY <1>2, <3>3
      <4> QED
        BY <3>1, <4>1, <4>2 DEF Migrated, Databases
    <3> QED
      BY <1>0, <1>1, <3>1, <3>2, <3>3
  <2> QED
    BY <2>1, <2>2
<1>9. CASE ApplyMigration(p) /\ UNCHANGED <<tree, alone, starts>>
  <2>0. /\ pc[p] = "apply" /\ handle[p] \in Databases /\ version[handle[p]] \in Nat
        /\ current[p] \in Nat
    BY <1>2, <1>9 DEF ApplyMigration
  <2>1. \A d \in Databases : version'[d] \in Nat /\ version[d] \in Nat /\ version[d] <= version'[d]
    BY <1>9, <2>0 DEF ApplyMigration, Migrated
  <2>2. pc'[p] = "apply" => handle'[p] = handle[p] /\ current'[p] = version'[handle[p]]
    BY <1>9, <2>0 DEF ApplyMigration, Judge, End, Migrated
  <2>3. handle'[p] \in {handle[p], NoDb}
    BY <1>9 DEF ApplyMigration, Judge, End
  <2>4. pc'[p] = "apply" => current'[p] <= version'[handle'[p]]
    BY <2>0, <2>1, <2>2
  <2>5. ASSUME NEW q \in Processes \ {p}, pc[q] = "apply"
        PROVE  current[q] <= version'[handle[q]]
    BY <1>2, <2>1, <2>5
  <2> QED
    BY <1>0, <1>1, <2>3, <2>4, <2>5 DEF NoDb
<1> QED
  BY <1>4, <1>5, <1>6, <1>7, <1>8, <1>9 DEF StartupActs

LEMMA OrderStep ==
  ASSUME Types, Opened, MigratedInOrder, NEW p \in Processes, StartupActs(p)
  PROVE  MigratedInOrder'
<1> USE DEF Types, Migrated, MigratedInOrder
<1>1. CASE UNCHANGED <<version, applied>>
  BY <1>1
<1>2. CASE Start(p) \/ Look(p) \/ Change(p) \/ Work(p) \/ Leave(p)
        \/ Crash(p)
  BY <1>1, <1>2 DEF Start, Look, Change, Work, Leave, Crash
<1>3. CASE Open(p)
  <2>1. <<>> = [i \in 1..0 |-> i]
    OBVIOUS
  <2>2. CASE version' = [version EXCEPT !.own = 0] /\ applied' = [applied EXCEPT !.own = <<>>]
    BY <2>1, <2>2
  <2> QED
    BY <1>1, <1>3, <2>2 DEF Open
<1>4. CASE ApplyMigration(p)
  <2>1. /\ handle[p] \in Databases /\ version[handle[p]] \in Nat /\ current[p] \in Nat
        /\ current[p] <= version[handle[p]]
    BY <1>4 DEF ApplyMigration, Held, Handled, Opened
  <2>2. CASE version[handle[p]] >= current[p] + 1
    BY <1>1, <1>4, <2>2 DEF ApplyMigration
  <2>3. CASE ~(version[handle[p]] >= current[p] + 1)
    <3> DEFINE n == version[handle[p]]
    <3>1. n = current[p]
      BY <2>1, <2>3
    <3>2. /\ version' = [version EXCEPT ![handle[p]] = n + 1]
          /\ applied' = [applied EXCEPT ![handle[p]] = Append(@, n + 1)]
      BY <1>4, <2>3, <3>1 DEF ApplyMigration
    <3>3. Append([i \in 1..n |-> i], n + 1) = [i \in 1..(n + 1) |-> i]
      BY <2>1
    <3> QED
      BY <2>1, <3>2, <3>3
  <2> QED
    BY <2>2, <2>3
<1> QED
  BY <1>2, <1>3, <1>4 DEF StartupActs
\* Who starts while nobody is at work stays alone until the next start.
LEMMA UnmetStep ==
  ASSUME Types, Shifted, Unmet, NEW p \in Processes, StartupActs(p)
  PROVE  Unmet'
<1> USE DEF Types, Placed, Held, Goto
<1>0. \A q \in Processes \ {p} : pc'[q] = pc[q] /\ command'[q] = command[q]
                                 /\ (alone'[q] => alone[q])
  BY OthersKept
<1>1. CASE Start(p)
  <2>1. alone' = [q \in Processes |-> q = p /\ \A r \in Processes : pc[r] = "idle"]
    BY <1>1 DEF Start
  <2>2. \/ pc'[p] = "statStaging"
        \/ pc'[p] = "open" /\ command'[p] = "show"
    BY <1>1 DEF Start
  <2> QED
    BY <1>0, <2>1, <2>2 DEF Unmet
<1>2. CASE ~Start(p)
  <2>1. alone' = alone /\ pc[p] # "idle"
    BY <1>2 DEF StartupActs, Look, StatStaging, StatConflict, StatLegacy, ReadDir,
                Check, EnsureMeta,
                Change, Stage, Move, RemoveDir, Work, Leave, Crash,
                Open, ApplyMigration
  <2>2. \A q \in Processes \ {p} : ~alone[q]
    BY <2>1 DEF Unmet
  <2> SUFFICES ASSUME alone[p]
               PROVE  /\ pc'[p] = "statLegacy" => ~staged'
                      /\ pc'[p] = "stage" => ~staged'
                      /\ command'[p] # "show" /\ pc'[p] = "open" => ~nested' /\ ~staged'
    BY <1>0, <2>1, <2>2 DEF Unmet
  <2>3. /\ pc[p] = "statLegacy" => ~staged
        /\ pc[p] = "stage" => ~staged
        /\ command[p] # "show" /\ pc[p] = "open" => ~nested /\ ~staged
    BY DEF Unmet
  <2>4. CASE Look(p)
    <3>0. UNCHANGED tree
      BY <2>4 DEF Look
    <3>1. CASE StatStaging(p)
      BY <3>0, <3>1 DEF StatStaging, tree
    <3>3. CASE StatConflict(p) \/ ReadDir(p)
      BY <3>3 DEF StatConflict, ReadDir, End
    <3>4. CASE StatLegacy(p)
      <4>1. pc'[p] = (IF nested THEN "stage" ELSE "open") /\ pc[p] = "statLegacy"
        BY <3>4 DEF StatLegacy
      <4> QED
        BY <2>3, <3>0, <4>1 DEF tree
    <3>2. CASE Check(p) \/ EnsureMeta(p)
      BY <3>2 DEF Check, Done, EnsureMeta, Judge, End
    <3> QED
      BY <2>4, <3>1, <3>2, <3>3, <3>4 DEF Look
  <2>5. CASE Stage(p) \/ Move(p)
    BY <2>5 DEF Stage, Move, Done, End
  <2>6. CASE RemoveDir(p)
    BY <2>6 DEF RemoveDir, End, Shifted, Moving
  <2>7. CASE Work(p) \/ Leave(p) \/ Crash(p)
    BY <2>7 DEF Work, Leave, Crash, End
  <2>8. CASE Open(p) \/ ApplyMigration(p)
    BY <2>8 DEF Open, ApplyMigration, Judge, End
  <2> QED
    BY <1>2, <2>4, <2>5, <2>6, <2>7, <2>8 DEF StartupActs, Change
<1> QED
  BY <1>1, <1>2

LEMMA StartupBegins == StartupInit => StartupInv
<1> SUFFICES ASSUME StartupInit PROVE StartupInv
  OBVIOUS
<1>1. Placed
  BY DEF StartupInit, Placed
<1>2. Held /\ Handled
  BY DEF StartupInit, Held, Handled, Labels, Commands
<1>3. Migrated /\ MigratedInOrder
  <2>1. PICK v \in {1, 2} : version = [d \in Databases |-> IF d = "legacy" THEN 1 ELSE v]
    BY DEF StartupInit
  <2>2. \A d \in Databases : version[d] \in Nat
    BY <2>1
  <2>3. \A n \in Nat : [i \in 1..n |-> i] \in Seq(Nat)
    OBVIOUS
  <2> QED
    BY <2>1, <2>2, <2>3 DEF StartupInit, Migrated, MigratedInOrder
<1>4. Shifted
  BY DEF StartupInit, Shifted, At, Moving
<1>5. Spared /\ Opened /\ Unmet
  BY DEF StartupInit, Spared, EarlyKept, Opened, Unmet, NoDb
<1> QED
  BY <1>1, <1>2, <1>3, <1>4, <1>5 DEF StartupInv, Types

LEMMA StartupGoesOn ==
  ASSUME StartupInv, [StartupNext]_startupVars
  PROVE  StartupInv'
<1>1. CASE UNCHANGED startupVars
  BY <1>1 DEF startupVars, tree, hold, StartupInv, Types, Placed, Held, Migrated, Handled,
              Shifted, Spared,
              EarlyKept, Opened, Unmet, MigratedInOrder, At, InRoot
<1>2. ASSUME NEW p \in Processes, StartupActs(p) PROVE StartupInv'
  <2>1. Types'
    BY <1>2, PlacedStep, HeldStep, MigratedStep, HandledStep DEF StartupInv, Types
  <2> QED
    BY <1>2, <2>1, ShiftedStep, SparedStep, OpenedStep, UnmetStep, OrderStep DEF StartupInv
<1> QED
  BY <1>1, <1>2 DEF StartupNext, StartupActs

(* A writing command that meets nobody on its way to the database finds    *)
(* the whole old state in the root, wherever earlier starts have died in   *)
(* migrateLegacyRoot, for any entries and any number of processes.         *)
THEOREM WholeWhenAlone == StartupSpec => []AloneFindsAll
<1>0. StartupInv /\ [StartupNext]_startupVars => StartupInv'
  BY StartupGoesOn
<1>1. StartupInv => AloneFindsAll
  <2> SUFFICES ASSUME StartupInv, NEW p \in Processes,
                      pc[p] = "open", command[p] # "show", alone[p]
               PROVE  Old \subseteq At("root")
    BY DEF AloneFindsAll
  <2>1. At("legacy") = {} /\ At("staging") = {}
    BY DEF StartupInv, Unmet, Shifted
  <2> QED
    BY <2>1 DEF StartupInv, Types, Placed, At, Old
<1> QED
  BY <1>1, <1>0, StartupBegins, PTL DEF StartupSpec

(* What the root had of its own is not replaced by an entry of the old     *)
(* release, though names are looked at before the first rename and others  *)
(* move entries meanwhile.                                                 *)
THEOREM RootSpared == StartupSpec => []EarlyKept
<1>0. StartupInv /\ [StartupNext]_startupVars => StartupInv'
  BY StartupGoesOn
<1>1. StartupInv => EarlyKept
  BY DEF StartupInv, Spared
<1> QED
  BY <1>1, <1>0, StartupBegins, PTL DEF StartupSpec

(* Each migration runs once on each database and in the order of versions, *)
(* however many processes of however many releases share the work and die  *)
(* between two (dbmig.Apply reads the version again in its transaction).   *)
THEOREM MigrationsInOrder == StartupSpec => []MigratedInOrder
<1>0. StartupInv /\ [StartupNext]_startupVars => StartupInv'
  BY StartupGoesOn
<1>1. StartupInv => MigratedInOrder
  BY DEF StartupInv
<1> QED
  BY <1>1, <1>0, StartupBegins, PTL DEF StartupSpec

=============================================================================
