---------------------------- MODULE OutboxProofs ----------------------------
(***************************************************************************)
(* Theorems about the outbox, for every plan, host and number of failures. *)
(***************************************************************************)
EXTENDS Outbox, TLAPS

(* The process has taken up an action and is not done with it. *)
Working == \/ pc \in {"send", "recover", "sleep", "check", "record", "judge",
                      "abort"}
           \/ pc \in {"threads", "reviews"} /\ why # "start"

(* The process is between a failed send and its resend. *)
Recovering == \/ pc \in {"recover", "sleep", "check"}
              \/ pc \in {"threads", "reviews"} /\ why = "recover"

Control ==
  /\ pc \in {"threads", "reviews"} => why # "dispatch"
  /\ Working => cur \in planned
  /\ Recovering => err \in RetryableErrs
  /\ mode = "post" => planned = Actions

Rows ==
  /\ planned # Actions => \A a \in planned : CheckpointAction(a)
  /\ \A a \in Actions : copies[a] > 0 => a \in planned
  /\ \A w \in late : w.acts \subseteq planned
  /\ Bundle => \A a \in Actions : Inline(a) => status[a] # "failed_terminal"
  /\ Working => status[cur] = "pending" /\ ~(Bundle /\ Inline(cur))

Bundling ==
  /\ \A b \in bundle : Bundle /\ Inline(b)
  /\ Working /\ bundle # {} => Submit(cur)
  /\ Working /\ Submit(cur) /\ Bundle => PendingInlines \subseteq bundle
  /\ \A w \in late : \A s \in w.acts :
       Bundle /\ Submit(s) => PendingInlines \subseteq w.acts
  /\ VerdictCarriesInlines

View ==
  /\ \A a \in seen : copies[a] > 0
  /\ seenResolved \subseteq resolved

Done ==
  /\ pc = "record" /\ err = "none" =>
       OnHost(cur) /\ \A b \in bundle : OnHost(b)
  /\ pc = "bundle" => \A b \in bundle : OnHost(b)

Settled ==
  outcome = "success" =>
    \A a \in Required : ~Resolve(a) => status[a] = "posted"

TypeInv == TypeOK /\ Control

IInv == TypeInv /\ Rows /\ Bundling /\ View /\ Done /\ PostedIsOnHost /\ Settled

-----------------------------------------------------------------------------
(* Type correctness.  It rests on Control: an action is chosen from the    *)
(* planned rows, and a reading process knows what it reads for.            *)

LEMMA InitType == Init => TypeInv
<1> SUFFICES ASSUME Init PROVE TypeInv
  OBVIOUS
<1>1. TypeOK
  BY DEF Init, TypeOK, Statuses, Classes, Outcomes, Pcs
<1>2. Control
  BY DEF Init, Control, Working, Recovering
<1> QED
  BY <1>1, <1>2 DEF TypeInv

LEMMA FaultType == TypeOK /\ Fault => faults' \in Nat
BY OutboxAssumption DEF TypeOK, Fault

(* Returning keeps the types of the process. *)
LEMMA ReturnType ==
  ASSUME Return, planned' \subseteq Actions
  PROVE  /\ pc' = "idle" /\ why' = "start"
         /\ todo' \subseteq planned' /\ cur' \in planned' \cup {None}
         /\ bundle' \subseteq planned' /\ sends' \in Nat /\ spent' \in BOOLEAN
         /\ err' = "none" /\ seen' \subseteq Actions
         /\ seenResolved' \subseteq Threads
BY DEF Return

LEMMA FinalOutcomeType == FinalOutcome \in Outcomes
BY DEF FinalOutcome, Outcomes

LEMMA FailureClassType == \A e : FailureClass(e) \in Classes
BY DEF FailureClass, Classes

(* A write that lands keeps the host's types. *)
LEMMA LandsType ==
  ASSUME TypeOK, NEW w, w.acts \subseteq Actions, Lands(w)
  PROVE  copies' \in [Actions -> Nat] /\ resolved' \subseteq Threads
<1>1. copies' \in [Actions -> Nat]
  BY DEF TypeOK, Lands
<1>2. \A a \in Actions : Thread[a] \in Threads
  BY OutboxAssumption
<1> QED
  BY <1>1, <1>2 DEF TypeOK, Lands

LEMMA NextType == TypeInv /\ [Next]_vars => TypeInv'
<1> SUFFICES ASSUME TypeInv, [Next]_vars PROVE TypeInv'
  OBVIOUS
<1> USE OutboxAssumption
        DEF TypeInv, Control, Working, Recovering, TypeOK, Statuses, Classes,
            Outcomes, Pcs, ledgerVars, hostVars, viewVars, procVars
<1>1. CASE PersistCheckpoint
  BY <1>1 DEF PersistCheckpoint
<1>2. CASE PersistPlan
  BY <1>2 DEF PersistPlan
<1>3. CASE StartCheckpoint
  BY <1>3 DEF StartCheckpoint, Start, Goto
<1>4. CASE StartPost
  BY <1>4 DEF StartPost, Start, Goto
<1>5. CASE PostNothingPending
  BY <1>5, FinalOutcomeType DEF PostNothingPending
<1>6. CASE RetryPosts
  BY <1>6 DEF RetryPosts, Start, Goto
<1>7. CASE AbortIfMoved
  BY <1>7 DEF AbortIfMoved, Fault
<1>8. CASE ReadThreads
  BY <1>8 DEF ReadThreads
<1>9. CASE ReadReviews
  BY <1>9 DEF ReadReviews
<1>10. CASE ReadFailsAtStart
  BY <1>10, FaultType, ReturnType DEF ReadFailsAtStart
<1>11. CASE ReadFailsInRecovery
  BY <1>11 DEF ReadFailsInRecovery, Fault, Goto
<1>12. CASE ReadFailsAfterConflict
  BY <1>12, FaultType, ReturnType DEF ReadFailsAfterConflict, RecordPending
<1>13. CASE ReconcileDone
  BY <1>13 DEF ReconcileDone, Goto
<1>14. CASE DispatchDone
  BY <1>14, FinalOutcomeType DEF DispatchDone, Return
<1>15. CASE SendAccepted
  BY <1>15, LandsType DEF SendAccepted, CurrentWrite
<1>16. CASE RecoverWait
  BY <1>16 DEF RecoverWait, RecordPending
<1>17. CASE Wake
  BY <1>17 DEF Wake, Goto
<1>18. CASE RecoveredByMarker
  BY <1>18 DEF RecoveredByMarker, Goto
<1>19. CASE RecoveryLimiterFails
  BY <1>19 DEF RecoveryLimiterFails, Fault, Goto
<1>20. CASE Resend
  BY <1>20 DEF Resend, Goto
<1>21. CASE RecordPosted
  BY <1>21 DEF RecordPosted, MarkPosted, NextAction, Goto
<1>22. CASE RecordCheckpointError
  BY <1>22 DEF RecordCheckpointError, RecordPending, NextAction, Goto
<1>23. CASE RecordStaleSHA
  BY <1>23 DEF RecordStaleSHA, RecordPending
<1>24. CASE CompleteAborted
  BY <1>24 DEF CompleteAborted, Return
<1>25. CASE RecordAdvisory
  BY <1>25 DEF RecordAdvisory, RecordPending, NextAction, Goto
<1>26. CASE ReadAfterConflict
  BY <1>26 DEF ReadAfterConflict, Goto
<1>27. CASE ConflictReconciled
  BY <1>27 DEF ConflictReconciled, MarkPosted, NextAction, Goto, BundledWith, PendingInlines
<1>28. CASE ConflictFails
  BY <1>28 DEF ConflictFails, MarkFailed, NextAction, Goto
<1>29. CASE RecordRetryable
  BY <1>29 DEF RecordRetryable, RecordPending, NextAction, Goto
<1>30. CASE RecordFailed
  BY <1>30, FailureClassType DEF RecordFailed, MarkFailed, NextAction, Goto
<1>31. CASE Crash
  BY <1>31, FaultType, ReturnType DEF Crash
<1>32. ASSUME NEW a \in Actions, ReconcileHit(a) PROVE TypeInv'
  BY <1>32 DEF ReconcileHit, MarkPosted, First
<1>33. ASSUME NEW a \in Actions, PlanFails(a) PROVE TypeInv'
  BY <1>33 DEF PlanFails, NextUp, First, RecordPending, MarkFailed
<1>34. ASSUME NEW a \in Actions, LimiterFails(a) PROVE TypeInv'
  <2>1. CASE mode = "post"
    BY <1>34, <2>1, FaultType, ReturnType DEF LimiterFails, RecordPending
  <2>2. CASE mode # "post"
    BY <1>34, <2>2, FaultType
       DEF LimiterFails, NextUp, First, RecordPending
  <2> QED
    BY <2>1, <2>2
<1>35. ASSUME NEW a \in Actions, Attempt(a) PROVE TypeInv'
  BY <1>35 DEF Attempt, NextUp, First, BundledWith, PendingInlines
<1>36. ASSUME NEW a \in Actions, MarkBundled(a) PROVE TypeInv'
  BY <1>36 DEF MarkBundled, First, MarkPosted, NextAction, Goto
<1>37. ASSUME NEW e \in Errs, SendRefused(e) PROVE TypeInv'
  <2>1. pc' = "recover" => e \in RetryableErrs
    BY <1>37 DEF SendRefused, AfterSend, RetryableErrs
  <2> QED
    BY <1>37, <2>1, FaultType DEF SendRefused, AfterSend
<1>38. ASSUME NEW e \in Errs, SendUnclear(e) PROVE TypeInv'
  BY <1>38, LandsType DEF SendUnclear, AfterSend, Fault, CurrentWrite, Write
<1>39. ASSUME NEW w \in late, LateWriteLands(w) PROVE TypeInv'
  BY <1>39, LandsType DEF LateWriteLands, Write
<1>40. ASSUME NEW w \in late, LateWriteLost(w) PROVE TypeInv'
  BY <1>40 DEF LateWriteLost
<1>41. ASSUME NEW t \in Threads, HumanResolves(t) PROVE TypeInv'
  BY <1>41 DEF HumanResolves, Fault
<1>42. CASE UNCHANGED vars
  BY <1>42 DEF vars
<1> QED
  BY <1>1, <1>2, <1>3, <1>4, <1>5, <1>6, <1>7, <1>8, <1>9, <1>10, <1>11, <1>12, <1>13, <1>14, <1>15, <1>16, <1>17, <1>18, <1>19, <1>20, <1>21, <1>22, <1>23, <1>24, <1>25, <1>26, <1>27, <1>28, <1>29, <1>30, <1>31, <1>32, <1>33, <1>34, <1>35, <1>36, <1>37, <1>38, <1>39, <1>40, <1>41, <1>42
     DEF Next, Invoke, Process, ReadSteps, PassSteps, SendSteps, RecoverySteps,
         RecordSteps, HostSteps, Humans

(* In every reachable state every variable has its type. *)
THEOREM TypeCorrect == Spec => []TypeOK
<1>1. TypeInv => TypeOK
  BY DEF TypeInv
<1> QED
  BY <1>1, InitType, NextType, PTL DEF Spec

LEMMA SuccessMeans ==
  ASSUME TypeOK, planned = Actions, FinalOutcome = "success"
  PROVE  \A a \in Required : ~Resolve(a) => status[a] = "posted"
BY OutboxAssumption DEF TypeOK, FinalOutcome, AdvisoryPending, Statuses

LEMMA NextInv == IInv /\ [Next]_vars => IInv'
<1> SUFFICES ASSUME IInv, [Next]_vars PROVE IInv'
  OBVIOUS
<1>0. TypeInv' /\ TypeOK' /\ Control'
  BY NextType DEF IInv, TypeInv
<1> USE OutboxAssumption, <1>0
        DEF IInv, TypeInv, TypeOK, Control, Working, Recovering, Rows, Bundling, View, Done, PostedIsOnHost, Settled,
            OnHost, VerdictCarriesInlines, Pending, PendingInlines, Resolve, Inline, Submit,CheckpointAction, RetryableErrs,
            ledgerVars, hostVars, viewVars, procVars
<1>1. CASE PersistCheckpoint
  BY <1>1 DEF PersistCheckpoint
<1>2. CASE PersistPlan
  BY <1>2 DEF PersistPlan
<1>3. CASE StartCheckpoint
  BY <1>3 DEF StartCheckpoint, Start, Goto
<1>4. CASE StartPost
  BY <1>4 DEF StartPost, Start, Goto
<1>5. CASE PostNothingPending
  BY <1>5, SuccessMeans DEF PostNothingPending
<1>6. CASE RetryPosts
  BY <1>6 DEF RetryPosts, Start, Goto
<1>7. CASE AbortIfMoved
  BY <1>7 DEF AbortIfMoved
<1>8. CASE ReadThreads
  BY <1>8 DEF ReadThreads, InThread
<1>9. CASE ReadReviews
  BY <1>9 DEF ReadReviews
<1>10. CASE ReadFailsAtStart
  BY <1>10 DEF ReadFailsAtStart, Return
<1>11. CASE ReadFailsInRecovery
  BY <1>11 DEF ReadFailsInRecovery, Goto
<1>12. CASE ReadFailsAfterConflict
  BY <1>12 DEF ReadFailsAfterConflict, Return, RecordPending
<1>13. CASE ReconcileDone
  BY <1>13 DEF ReconcileDone, Goto
<1>14. CASE DispatchDone
  BY <1>14, SuccessMeans DEF DispatchDone, Return
<1>15. CASE SendAccepted
  BY <1>15 DEF SendAccepted, Lands, CurrentWrite
<1>16. CASE RecoverWait
  BY <1>16 DEF RecoverWait, RecordPending
<1>17. CASE Wake
  BY <1>17 DEF Wake, Goto
<1>18. CASE RecoveredByMarker
  <2>1. OnHost(cur)
    BY <1>18 DEF RecoveredByMarker, Matches
  <2>2. ASSUME NEW b \in bundle PROVE OnHost(b)
    <3>1. Submit(cur) /\ copies[cur] > 0 /\ Bundle /\ Inline(b) /\ b \in Actions
      BY <1>18, <2>1 DEF RecoveredByMarker
    <3>2. CASE status[b] = "pending"
      BY <1>18, <3>1, <3>2 DEF RecoveredByMarker
    <3>3. CASE status[b] = "posted"
      BY <3>1, <3>3
    <3> QED
      BY <3>1, <3>2, <3>3 DEF Statuses
  <2> QED
    BY <1>18, <2>1, <2>2 DEF RecoveredByMarker, Goto
<1>19. CASE RecoveryLimiterFails
  BY <1>19 DEF RecoveryLimiterFails, Goto
<1>20. CASE Resend
  BY <1>20 DEF Resend, Goto
<1>21. CASE RecordPosted
  BY <1>21 DEF RecordPosted, MarkPosted, NextAction, Goto
<1>22. CASE RecordCheckpointError
  BY <1>22 DEF RecordCheckpointError, RecordPending, NextAction, Goto
<1>23. CASE RecordStaleSHA
  BY <1>23 DEF RecordStaleSHA, RecordPending
<1>24. CASE CompleteAborted
  BY <1>24 DEF CompleteAborted, Return
<1>25. CASE RecordAdvisory
  BY <1>25 DEF RecordAdvisory, RecordPending, NextAction, Goto
<1>26. CASE ReadAfterConflict
  BY <1>26 DEF ReadAfterConflict, Goto
<1>27. CASE ConflictReconciled
  BY <1>27 DEF ConflictReconciled, Matches, MarkPosted, NextAction, Goto, BundledWith
<1>28. CASE ConflictFails
  BY <1>28 DEF ConflictFails, MarkFailed, NextAction, Goto
<1>29. CASE RecordRetryable
  BY <1>29 DEF RecordRetryable, RecordPending, NextAction, Goto
<1>30. CASE RecordFailed
  BY <1>30 DEF RecordFailed, MarkFailed, NextAction, Goto
<1>31. CASE Crash
  BY <1>31 DEF Crash, Return
<1>32. ASSUME NEW a \in Actions, ReconcileHit(a) PROVE IInv'
  BY <1>32 DEF ReconcileHit, Matches, MarkPosted, First, InScope
<1>33. ASSUME NEW a \in Actions, PlanFails(a) PROVE IInv'
  BY <1>33 DEF PlanFails, NextUp, First, Eligible, RecordPending, MarkFailed
<1>34. ASSUME NEW a \in Actions, LimiterFails(a) PROVE IInv'
  BY <1>34 DEF LimiterFails, NextUp, First, Eligible, RecordPending, Return
<1>35. ASSUME NEW a \in Actions, Attempt(a) PROVE IInv'
  BY <1>35 DEF Attempt, NextUp, First, Eligible, BundledWith
<1>36. ASSUME NEW a \in Actions, MarkBundled(a) PROVE IInv'
  BY <1>36 DEF MarkBundled, First, MarkPosted, NextAction, Goto
<1>37. ASSUME NEW e \in Errs, SendRefused(e) PROVE IInv'
  <2>1. e # "none"
    BY DEF Errs, AuthErrs
  <2> QED
    BY <1>37, <2>1 DEF SendRefused, AfterSend
<1>38. ASSUME NEW e \in Errs, SendUnclear(e) PROVE IInv'
  BY <1>38 DEF SendUnclear, AfterSend, Lands, CurrentWrite
<1>39. ASSUME NEW w \in late, LateWriteLands(w) PROVE IInv'
  BY <1>39 DEF LateWriteLands, Lands
<1>40. ASSUME NEW w \in late, LateWriteLost(w) PROVE IInv'
  BY <1>40 DEF LateWriteLost
<1>41. ASSUME NEW t \in Threads, HumanResolves(t) PROVE IInv'
  BY <1>41 DEF HumanResolves
<1>42. CASE UNCHANGED vars
  BY <1>42 DEF vars
<1> QED
  BY <1>1, <1>2, <1>3, <1>4, <1>5, <1>6, <1>7, <1>8, <1>9, <1>10, <1>11, <1>12, <1>13, <1>14, <1>15, <1>16, <1>17, <1>18, <1>19, <1>20, <1>21, <1>22, <1>23, <1>24, <1>25, <1>26, <1>27, <1>28, <1>29, <1>30, <1>31, <1>32, <1>33, <1>34, <1>35, <1>36, <1>37, <1>38, <1>39, <1>40, <1>41, <1>42
     DEF Next, Invoke, Process, ReadSteps, PassSteps, SendSteps, RecoverySteps,
         RecordSteps, HostSteps, Humans

LEMMA InitInv == Init => IInv
<1> SUFFICES ASSUME Init PROVE IInv
  OBVIOUS
<1> USE OutboxAssumption DEF Init
<1>1. Rows
  BY DEF Rows, Working
<1>2. Bundling
  BY DEF Bundling, Working, VerdictCarriesInlines
<1>3. View /\ Done /\ PostedIsOnHost /\ Settled
  BY DEF View, Done, PostedIsOnHost, Settled
<1> QED
  BY <1>1, <1>2, <1>3, InitType DEF IInv

LEMMA Invariance == Spec => []IInv
BY InitInv, NextInv, PTL DEF Spec

(* A posted row is on the pull request. *)
THEOREM PostedRows == Spec => []PostedIsOnHost
<1>1. IInv => PostedIsOnHost
  BY DEF IInv
<1> QED
  BY <1>1, Invariance, PTL

(* A verdict on a bundling host is never there without the inline comments *)
(* that are still to be reconciled.                                        *)
THEOREM CompleteVerdict == Spec => []VerdictCarriesInlines
<1>1. IInv => VerdictCarriesInlines
  BY DEF IInv, Bundling
<1> QED
  BY <1>1, Invariance, PTL

(* A successful run has delivered everything it was required to. *)
THEOREM SoundSuccess == Spec => []SuccessIsDelivered
<1>1. IInv => SuccessIsDelivered
  BY OutboxAssumption DEF IInv, Settled, PostedIsOnHost, SuccessIsDelivered
<1> QED
  BY <1>1, Invariance, PTL

-----------------------------------------------------------------------------
(* Retries and repeated invocations: nothing posted is taken back, nothing *)
(* is posted twice, and the outbox implements its delivery contract.        *)


(* a is neither on the pull request nor on its way to it. *)
Absent(a) == copies[a] = 0 /\ \A w \in late : a \notin w.acts

(* The process reads, or has just read, while nothing is on its way. *)
Quiet == \/ pc \in {"threads", "reviews"} /\ why # "conflict"
         \/ pc \in {"reconcile", "check"}

Single ==
  /\ \A a \in Actions : copies[a] <= 1
  /\ \A w \in late : \A a \in w.acts : Resolve(a) \/ copies[a] = 0
  /\ \A v, w \in late : \A a \in v.acts \cap w.acts : Resolve(a) \/ v = w

Knowledge ==
  /\ Quiet => late = {}
  /\ pc = "reviews" /\ why # "conflict" =>
       \A a \in planned : InThread(a) /\ copies[a] > 0 => a \in seen
  /\ pc \in {"reconcile", "check"} =>
       \A a \in planned : copies[a] > 0 => a \in seen

(* What the pass has still to send is absent, and so is what it is sending. *)
Ahead ==
  /\ Working => cur \notin todo
  /\ \A a \in todo : Resolve(a) \/ (Bundle /\ Inline(a)) \/ Absent(a)
  /\ \A s \in todo : Bundle /\ Submit(s) => \A a \in PendingInlines : Absent(a)
  /\ pc = "send" => \A a \in {cur} \cup bundle : Resolve(a) \/ Absent(a)

(* Bundled inline comments arrive with the verdict and in no other way. *)
Together ==
  Bundle => /\ \A a \in Actions : Inline(a) /\ copies[a] > 0 =>
                   \E s \in Actions : Submit(s) /\ copies[s] > 0
            /\ \A w \in late : \A a \in w.acts : Inline(a) =>
                   \E s \in w.acts : Submit(s)
            /\ \A w \in late : (\E a \in w.acts : Resolve(a)) =>
                   \A a \in w.acts : Resolve(a)

NoResolveCopies == \A a \in Actions : Resolve(a) => copies[a] = 0

Once == Single /\ Knowledge /\ Ahead /\ Together /\ NoResolveCopies

LEMMA NextOnce == SettledStart /\ IInv /\ Once /\ [Next]_vars => Once'
<1> SUFFICES ASSUME SettledStart, IInv, Once, [Next]_vars PROVE Once'
  OBVIOUS
<1>0. TypeOK' /\ Control'
  BY NextType DEF IInv, TypeInv
<1> USE OutboxAssumption, <1>0
        DEF IInv, TypeInv, TypeOK, Control, Working, Recovering, Rows, Bundling,
            View, Once, Single, Knowledge, Ahead, Together, NoResolveCopies,
            Absent, Quiet, Pending, PendingInlines, Resolve, Inline, Submit,
            CheckpointAction, InThread,
            ledgerVars, hostVars, viewVars, procVars
<1>1. CASE PersistCheckpoint
  BY <1>1 DEF PersistCheckpoint
<1>2. CASE PersistPlan
  BY <1>2 DEF PersistPlan
<1>3. CASE StartCheckpoint
  BY <1>3 DEF StartCheckpoint, Start, Goto
<1>4. CASE StartPost
  BY <1>4 DEF StartPost, Start, Goto
<1>5. CASE PostNothingPending
  BY <1>5 DEF PostNothingPending
<1>6. CASE RetryPosts
  BY <1>6 DEF RetryPosts, Start, Goto
<1>7. CASE AbortIfMoved
  BY <1>7 DEF AbortIfMoved
<1>8. CASE ReadThreads
  BY <1>8 DEF ReadThreads, InThread
<1>9. CASE ReadReviews
  BY <1>9 DEF ReadReviews
<1>10. CASE ReadFailsAtStart
  BY <1>10 DEF ReadFailsAtStart, Return
<1>11. CASE ReadFailsInRecovery
  BY <1>11 DEF ReadFailsInRecovery, Goto
<1>12. CASE ReadFailsAfterConflict
  BY <1>12 DEF ReadFailsAfterConflict, Return, RecordPending
<1>13. CASE ReconcileDone
  BY <1>13 DEF ReconcileDone, Goto, InScope, Matches
<1>14. CASE DispatchDone
  BY <1>14 DEF DispatchDone, Return
<1>15. CASE SendAccepted
  BY <1>15 DEF SendAccepted, Lands, CurrentWrite
<1>16. CASE RecoverWait
  BY <1>16 DEF RecoverWait, RecordPending
<1>17. CASE Wake
  BY <1>17 DEF Wake, Goto
<1>18. CASE RecoveredByMarker
  BY <1>18 DEF RecoveredByMarker, Goto, Matches
<1>19. CASE RecoveryLimiterFails
  BY <1>19 DEF RecoveryLimiterFails, Goto
<1>20. CASE Resend
  <2>1. Absent(cur) \/ Resolve(cur)
    BY <1>20 DEF Resend, Matches
  <2>2. ASSUME NEW b \in bundle PROVE Absent(b)
    <3>1. Submit(cur) /\ Bundle /\ Inline(b) /\ b \in Actions /\ cur \in Actions
      BY <1>20 DEF Resend
    <3>2. copies[b] = 0
      BY <2>1, <3>1
    <3> QED
      BY <1>20, <3>2 DEF Resend
  <2> QED
    BY <1>20, <2>1, <2>2 DEF Resend, Goto
<1>21. CASE RecordPosted
  BY <1>21 DEF RecordPosted, MarkPosted, NextAction, Goto
<1>22. CASE RecordCheckpointError
  BY <1>22 DEF RecordCheckpointError, RecordPending, NextAction, Goto
<1>23. CASE RecordStaleSHA
  BY <1>23 DEF RecordStaleSHA, RecordPending
<1>24. CASE CompleteAborted
  BY <1>24 DEF CompleteAborted, Return
<1>25. CASE RecordAdvisory
  BY <1>25 DEF RecordAdvisory, RecordPending, NextAction, Goto
<1>26. CASE ReadAfterConflict
  BY <1>26 DEF ReadAfterConflict, Goto
<1>27. CASE ConflictReconciled
  BY <1>27 DEF ConflictReconciled, Matches, MarkPosted, NextAction, Goto, BundledWith
<1>28. CASE ConflictFails
  BY <1>28 DEF ConflictFails, MarkFailed, NextAction, Goto
<1>29. CASE RecordRetryable
  BY <1>29 DEF RecordRetryable, RecordPending, NextAction, Goto
<1>30. CASE RecordFailed
  BY <1>30 DEF RecordFailed, MarkFailed, NextAction, Goto
<1>31. CASE Crash
  BY <1>31 DEF Crash, Return
<1>32. ASSUME NEW a \in Actions, ReconcileHit(a) PROVE Once'
  BY <1>32 DEF ReconcileHit, Matches, MarkPosted, First, InScope
<1>33. ASSUME NEW a \in Actions, PlanFails(a) PROVE Once'
  BY <1>33 DEF PlanFails, NextUp, First, Eligible, RecordPending, MarkFailed
<1>34. ASSUME NEW a \in Actions, LimiterFails(a) PROVE Once'
  BY <1>34 DEF LimiterFails, NextUp, First, Eligible, RecordPending, Return
<1>35. ASSUME NEW a \in Actions, Attempt(a) PROVE Once'
  BY <1>35 DEF Attempt, NextUp, First, Eligible, BundledWith
<1>36. ASSUME NEW a \in Actions, MarkBundled(a) PROVE Once'
  BY <1>36 DEF MarkBundled, First, MarkPosted, NextAction, Goto
<1>37. ASSUME NEW e \in Errs, SendRefused(e) PROVE Once'
  BY <1>37 DEF SendRefused, AfterSend
<1>38. ASSUME NEW e \in Errs, SendUnclear(e) PROVE Once'
  <2>1. CASE late' = late
    BY <1>38, <2>1 DEF SendUnclear, AfterSend, Lands, CurrentWrite
  <2>2. CASE late' = late \cup {CurrentWrite} /\ UNCHANGED <<copies, resolved>>
    <3>1. \A a \in CurrentWrite.acts : Resolve(a) \/ Absent(a)
      BY <1>38 DEF SendUnclear, CurrentWrite
    <3>2. Single'
      BY <2>2, <3>1
    <3>3. Knowledge'
      BY <1>38, <2>2 DEF SendUnclear, AfterSend
    <3>4. Ahead'
      BY <1>38, <2>2, <3>1 DEF SendUnclear, AfterSend, CurrentWrite
    <3>5. Together' /\ NoResolveCopies'
      BY <1>38, <2>2 DEF SendUnclear, CurrentWrite
    <3> QED
      BY <3>2, <3>3, <3>4, <3>5
  <2> QED
    BY <1>38, <2>1, <2>2 DEF SendUnclear, Lands
<1>39. ASSUME NEW w \in late, LateWriteLands(w) PROVE Once'
  BY <1>39 DEF LateWriteLands, Lands
<1>40. ASSUME NEW w \in late, LateWriteLost(w) PROVE Once'
  BY <1>40 DEF LateWriteLost
<1>41. ASSUME NEW t \in Threads, HumanResolves(t) PROVE Once'
  BY <1>41 DEF HumanResolves
<1>42. CASE UNCHANGED vars
  BY <1>42 DEF vars
<1> QED
  BY <1>1, <1>2, <1>3, <1>4, <1>5, <1>6, <1>7, <1>8, <1>9, <1>10, <1>11, <1>12, <1>13, <1>14, <1>15, <1>16, <1>17, <1>18, <1>19, <1>20, <1>21, <1>22, <1>23, <1>24, <1>25, <1>26, <1>27, <1>28, <1>29, <1>30, <1>31, <1>32, <1>33, <1>34, <1>35, <1>36, <1>37, <1>38, <1>39, <1>40, <1>41, <1>42
     DEF Next, Invoke, Process, ReadSteps, PassSteps, SendSteps, RecoverySteps,
         RecordSteps, HostSteps, Humans
LEMMA InitOnce == Init => Once
BY OutboxAssumption
   DEF Init, Once, Single, Knowledge, Quiet, Ahead, Working, Together,
       NoResolveCopies

(* Nothing is posted twice when invocations wait for the host to settle. *)
THEOREM AtMostOnce == Spec => []NoDuplicate
<1>1. CASE SettledStart
  <2>1. Spec => []Once
    BY <1>1, InitOnce, NextOnce, Invariance, PTL DEF Spec
  <2>2. Once => NoDuplicate
    BY DEF Once, Single, NoDuplicate
  <2> QED
    BY <2>1, <2>2, PTL
<1>2. CASE ~SettledStart
  <2>1. NoDuplicate
    BY <1>2 DEF NoDuplicate
  <2> QED
    BY <2>1, PTL
<1> QED
  BY <1>1, <1>2

-----------------------------------------------------------------------------
(* Posted rows and attempts are never taken back.  It rests on IInv: the    *)
(* action being worked on is still pending.                                *)

Forward == \A a \in Actions : /\ status[a] = "posted" => status'[a] = "posted"
                              /\ attempts'[a] >= attempts[a]

LEMMA NextForward == IInv /\ [Next]_vars => Forward
<1> SUFFICES ASSUME IInv, [Next]_vars PROVE Forward
  OBVIOUS
<1> USE DEF Forward, IInv, TypeInv, TypeOK, Control, Rows, Working,
            ledgerVars, MarkPosted, RecordPending, MarkFailed
<1>1. CASE Invoke
  BY <1>1 DEF Invoke, PersistCheckpoint, PersistPlan, StartCheckpoint,
     StartPost, PostNothingPending, RetryPosts, AbortIfMoved
<1>2. CASE ReadSteps
  BY <1>2 DEF ReadSteps, ReadThreads, ReadReviews, ReadFailsAtStart,
     ReadFailsInRecovery, ReadFailsAfterConflict
<1>3. CASE SendSteps
  BY <1>3 DEF SendSteps, SendAccepted, SendRefused, SendUnclear
<1>4. CASE RecoverySteps
  BY <1>4 DEF RecoverySteps, RecoverWait, Wake, RecoveredByMarker,
     RecoveryLimiterFails, Resend
<1>5. CASE RecordSteps
  BY <1>5 DEF RecordSteps, RecordPosted, RecordCheckpointError,
     RecordStaleSHA, CompleteAborted, RecordAdvisory, ReadAfterConflict,
     ConflictReconciled, ConflictFails, RecordRetryable, RecordFailed
<1>6. CASE PassSteps
  <2>1. CASE ReconcileDone \/ DispatchDone
    BY <2>1 DEF ReconcileDone, DispatchDone
  <2>2. ASSUME NEW a \in Actions, ReconcileHit(a) \/ MarkBundled(a) PROVE Forward
    BY <2>2 DEF ReconcileHit, MarkBundled
  <2>3. ASSUME NEW a \in Actions, PlanFails(a) \/ LimiterFails(a) \/ Attempt(a)
        PROVE  Forward
    <3>1. status[a] = "pending"
      BY <2>3 DEF PlanFails, LimiterFails, Attempt, NextUp, First, Eligible, Pending
    <3> QED
      BY <2>3, <3>1 DEF PlanFails, LimiterFails, Attempt
  <2> QED
    BY <1>6, <2>1, <2>2, <2>3 DEF PassSteps
<1>7. CASE HostSteps \/ Humans \/ Crash \/ UNCHANGED vars
  BY <1>7 DEF HostSteps, LateWriteLands, LateWriteLost, Humans, HumanResolves,
              Crash, vars
<1> QED
  BY <1>1, <1>2, <1>3, <1>4, <1>5, <1>6, <1>7 DEF Next, Process

(* No step takes back a posted row or the record of an attempt. *)
THEOREM ForwardOnly == Spec => LedgerMovesForward
<1>1. IInv /\ [Next]_vars =>
        [\A a \in Actions : /\ status[a] = "posted" => status'[a] = "posted"
                            /\ attempts'[a] >= attempts[a]]_vars
  BY NextForward DEF Forward
<1> QED
  BY <1>1, Invariance, PTL DEF Spec, LedgerMovesForward

-----------------------------------------------------------------------------
(* Retries: how often a write is sent, and after which check. *)

Rechecked ==
  /\ Recovering /\ pc \notin {"recover", "sleep"} => late = {}
  /\ pc = "reviews" /\ why = "recover" =>
       \A a \in planned : InThread(a) /\ copies[a] > 0 => a \in seen
  /\ pc = "check" => \A a \in planned : copies[a] > 0 => a \in seen
  /\ pc = "send" /\ sends > 1 /\ ~Resolve(cur) => copies[cur] = 0 /\ late = {}

Budgeted ==
  /\ Recovering => sends < MaxSends /\ ~spent /\ mode = "post"
  /\ sends <= MaxSends
  /\ pc = "send" /\ (spent \/ mode = "checkpoint") => sends = 1

Answered ==
  pc = "send" /\ mode = "checkpoint" /\ Resolve(cur) => ReplyPosted(cur)

Discipline == Rechecked /\ Budgeted /\ Answered

LEMMA NextDiscipline == IInv /\ Discipline /\ [Next]_vars => Discipline'
<1> SUFFICES ASSUME IInv, Discipline, [Next]_vars PROVE Discipline'
  OBVIOUS
<1>0. TypeOK' /\ Control'
  BY NextType DEF IInv, TypeInv
<1> USE OutboxAssumption, <1>0
        DEF IInv, TypeInv, TypeOK, Control, Working, Recovering, Discipline,
            Rechecked, Budgeted, Answered, ReplyPosted, InThread, Resolve,
            ledgerVars, hostVars, viewVars, procVars
<1>1. CASE PersistCheckpoint
  BY <1>1 DEF PersistCheckpoint
<1>2. CASE PersistPlan
  BY <1>2 DEF PersistPlan
<1>3. CASE StartCheckpoint
  BY <1>3 DEF StartCheckpoint, Start, Goto
<1>4. CASE StartPost
  BY <1>4 DEF StartPost, Start, Goto
<1>5. CASE PostNothingPending
  BY <1>5 DEF PostNothingPending
<1>6. CASE RetryPosts
  BY <1>6 DEF RetryPosts, Start, Goto
<1>7. CASE AbortIfMoved
  BY <1>7 DEF AbortIfMoved
<1>8. CASE ReadThreads
  BY <1>8 DEF ReadThreads, InThread
<1>9. CASE ReadReviews
  BY <1>9 DEF ReadReviews
<1>10. CASE ReadFailsAtStart
  BY <1>10 DEF ReadFailsAtStart, Return
<1>11. CASE ReadFailsInRecovery
  BY <1>11 DEF ReadFailsInRecovery, Goto
<1>12. CASE ReadFailsAfterConflict
  BY <1>12 DEF ReadFailsAfterConflict, Return, RecordPending
<1>13. CASE ReconcileDone
  BY <1>13 DEF ReconcileDone, Goto
<1>14. CASE DispatchDone
  BY <1>14 DEF DispatchDone, Return
<1>15. CASE SendAccepted
  BY <1>15 DEF SendAccepted, Lands, CurrentWrite
<1>16. CASE RecoverWait
  BY <1>16 DEF RecoverWait, RecordPending
<1>17. CASE Wake
  BY <1>17 DEF Wake, Goto
<1>18. CASE RecoveredByMarker
  BY <1>18 DEF RecoveredByMarker, Goto, Matches
<1>19. CASE RecoveryLimiterFails
  BY <1>19 DEF RecoveryLimiterFails, Goto
<1>20. CASE Resend
  BY <1>20 DEF Resend, Goto, Matches
<1>21. CASE RecordPosted
  BY <1>21 DEF RecordPosted, MarkPosted, NextAction, Goto
<1>22. CASE RecordCheckpointError
  BY <1>22 DEF RecordCheckpointError, RecordPending, NextAction, Goto
<1>23. CASE RecordStaleSHA
  BY <1>23 DEF RecordStaleSHA, RecordPending
<1>24. CASE CompleteAborted
  BY <1>24 DEF CompleteAborted, Return
<1>25. CASE RecordAdvisory
  BY <1>25 DEF RecordAdvisory, RecordPending, NextAction, Goto
<1>26. CASE ReadAfterConflict
  BY <1>26 DEF ReadAfterConflict, Goto
<1>27. CASE ConflictReconciled
  BY <1>27 DEF ConflictReconciled, Matches, MarkPosted, NextAction, Goto, BundledWith
<1>28. CASE ConflictFails
  BY <1>28 DEF ConflictFails, MarkFailed, NextAction, Goto
<1>29. CASE RecordRetryable
  BY <1>29 DEF RecordRetryable, RecordPending, NextAction, Goto
<1>30. CASE RecordFailed
  BY <1>30 DEF RecordFailed, MarkFailed, NextAction, Goto
<1>31. CASE Crash
  BY <1>31 DEF Crash, Return
<1>32. ASSUME NEW a \in Actions, ReconcileHit(a) PROVE Discipline'
  BY <1>32 DEF ReconcileHit, Matches, MarkPosted, First, InScope
<1>33. ASSUME NEW a \in Actions, PlanFails(a) PROVE Discipline'
  BY <1>33 DEF PlanFails, NextUp, First, Eligible, RecordPending, MarkFailed
<1>34. ASSUME NEW a \in Actions, LimiterFails(a) PROVE Discipline'
  BY <1>34 DEF LimiterFails, NextUp, First, Eligible, RecordPending, Return
<1>35. ASSUME NEW a \in Actions, Attempt(a) PROVE Discipline'
  BY <1>35 DEF Attempt, NextUp, First, Eligible, BundledWith
<1>36. ASSUME NEW a \in Actions, MarkBundled(a) PROVE Discipline'
  BY <1>36 DEF MarkBundled, First, MarkPosted, NextAction, Goto
<1>37. ASSUME NEW e \in Errs, SendRefused(e) PROVE Discipline'
  BY <1>37 DEF SendRefused, AfterSend
<1>38. ASSUME NEW e \in Errs, SendUnclear(e) PROVE Discipline'
  BY <1>38 DEF SendUnclear, AfterSend, Lands, CurrentWrite
<1>39. ASSUME NEW w \in late, LateWriteLands(w) PROVE Discipline'
  BY <1>39 DEF LateWriteLands, Lands
<1>40. ASSUME NEW w \in late, LateWriteLost(w) PROVE Discipline'
  BY <1>40 DEF LateWriteLost
<1>41. ASSUME NEW t \in Threads, HumanResolves(t) PROVE Discipline'
  BY <1>41 DEF HumanResolves
<1>42. CASE UNCHANGED vars
  BY <1>42 DEF vars
<1> QED
  BY <1>1, <1>2, <1>3, <1>4, <1>5, <1>6, <1>7, <1>8, <1>9, <1>10, <1>11, <1>12, <1>13, <1>14, <1>15, <1>16, <1>17, <1>18, <1>19, <1>20, <1>21, <1>22, <1>23, <1>24, <1>25, <1>26, <1>27, <1>28, <1>29, <1>30, <1>31, <1>32, <1>33, <1>34, <1>35, <1>36, <1>37, <1>38, <1>39, <1>40, <1>41, <1>42
     DEF Next, Invoke, Process, ReadSteps, PassSteps, SendSteps, RecoverySteps,
         RecordSteps, HostSteps, Humans

LEMMA InitDiscipline == Init => Discipline
BY OutboxAssumption
   DEF Init, Discipline, Rechecked, Budgeted, Answered, Recovering

LEMMA Disciplined == Spec => []Discipline
BY InitDiscipline, NextDiscipline, Invariance, PTL DEF Spec

(* A write is resent only while it is certain not to have arrived. *)
THEOREM SafeResend == Spec => []ResendOnlyIfAbsent
<1>1. Discipline => ResendOnlyIfAbsent
  BY DEF Discipline, Rechecked, ResendOnlyIfAbsent, OnHost
<1> QED
  BY <1>1, Disciplined, PTL

(* No write exceeds its sends, and an outage ends the resending. *)
THEOREM BoundedResends == Spec => []OutageBudget
<1>1. Discipline => OutageBudget
  BY DEF Discipline, Budgeted, OutageBudget
<1> QED
  BY <1>1, Disciplined, PTL

(* A checkpoint resolves only threads whose reply is on the pull request. *)
THEOREM AnsweredFirst == Spec => []CheckpointResolvesAnswered
<1>1. IInv /\ Discipline => CheckpointResolvesAnswered
  BY OutboxAssumption
     DEF IInv, TypeInv, TypeOK, Discipline, Answered, ReplyPosted,
         PostedIsOnHost, CheckpointResolvesAnswered
<1> QED
  BY <1>1, Invariance, Disciplined, PTL

-----------------------------------------------------------------------------
(* Refinement: every step of the outbox is a step of its contract or       *)
(* leaves the contract's state alone.                                      *)

LEMMA InitRefines == Init => Contract!Init
BY OutboxAssumption
   DEF Init, Contract!Init, Messages

(* A write that lands delivers what it carries. *)
LEMMA LandsRefines ==
  ASSUME TypeOK, NEW w, w.acts \subseteq Actions, Lands(w),
         \A a \in w.acts : Resolve(a) \/ copies[a] = 0,
         UNCHANGED <<status, outcome>>
  PROVE  Contract!Next \/ UNCHANGED Contract!vars
<1> DEFINE S == {a \in w.acts : ~Resolve(a)}
<1>1. CASE S = {}
  <2>1. \A a \in Messages : copies'[a] = copies[a]
    BY <1>1 DEF Lands, Messages, TypeOK
  <2> QED
    BY <2>1 DEF Contract!vars, Messages
<1>2. CASE S # {}
  <2>1. S \subseteq Messages /\ \A a \in S : copies[a] = 0
    BY DEF Messages
  <2>2. \A a \in Messages : copies'[a] = IF a \in S THEN 1 ELSE copies[a]
    BY <2>1 DEF Lands, Messages, TypeOK
  <2>3. Contract!Deliver(S)
    BY <1>2, <2>1, <2>2 DEF Contract!Deliver, Messages
  <2> QED
    BY <2>1, <2>3 DEF Contract!Next
<1> QED
  BY <1>1, <1>2

(* Marking a row that is on the pull request acknowledges it. *)
LEMMA MarkRefines ==
  ASSUME TypeOK, Once, NEW a \in Actions, OnHost(a), MarkPosted(a),
         UNCHANGED <<copies, outcome>>
  PROVE  Contract!Next \/ UNCHANGED Contract!vars
<1>1. CASE Resolve(a) \/ status[a] = "posted"
  BY <1>1 DEF MarkPosted, Contract!vars, Messages, TypeOK
<1>2. CASE ~Resolve(a) /\ status[a] # "posted"
  <2>1. a \in Messages /\ copies[a] = 1
    BY <1>2 DEF Messages, OnHost, Once, Single, TypeOK
  <2>2. {b \in Messages : status'[b] = "posted"}
          = {b \in Messages : status[b] = "posted"} \cup {a}
    BY <2>1 DEF MarkPosted, TypeOK, Messages
  <2>3. Contract!Acknowledge(a)
    BY <1>2, <2>1, <2>2 DEF Contract!Acknowledge
  <2> QED
    BY <2>1, <2>3 DEF Contract!Next
<1> QED
  BY <1>1, <1>2

(* Rows that are not posted may change as long as they do not become so. *)
LEMMA RowsRefine ==
  ASSUME TypeOK, UNCHANGED <<copies, outcome>>,
         \A a \in Actions : status'[a] = "posted" <=> status[a] = "posted"
  PROVE  UNCHANGED Contract!vars
BY DEF Contract!vars, Messages

(* Completing a run concludes with what its rows say. *)
LEMMA CompleteRefines ==
  ASSUME TypeOK, planned = Actions, UNCHANGED <<copies, status>>,
         outcome' = FinalOutcome
  PROVE  Contract!Next
<1>1. outcome' = "success" =>
        Required \cap Messages \subseteq {a \in Messages : status[a] = "posted"}
  BY SuccessMeans DEF Messages
<1>2. outcome' \in Contract!Verdicts
  BY FinalOutcomeType DEF Outcomes, Contract!Verdicts
<1>3. Contract!Conclude(outcome')
  BY <1>1 DEF Contract!Conclude
<1> QED
  BY <1>2, <1>3 DEF Contract!Next

LEMMA NextRefines ==
  ASSUME IInv, Once, [Next]_vars
  PROVE  Contract!Next \/ UNCHANGED Contract!vars
<1> USE DEF IInv, TypeInv
<1>1. CASE Invoke
  <2>1. CASE PersistCheckpoint \/ PersistPlan \/ StartCheckpoint \/ StartPost
    BY <2>1 DEF PersistCheckpoint, PersistPlan, StartCheckpoint, StartPost,
                Start, ledgerVars, hostVars, Contract!vars
  <2>2. CASE PostNothingPending
    BY <2>2, CompleteRefines DEF PostNothingPending, hostVars
  <2>3. CASE RetryPosts
    BY <2>3, RowsRefine DEF RetryPosts, Start, hostVars, TypeOK
  <2>4. CASE AbortIfMoved
    <3>1. Contract!Conclude("aborted")
      BY <2>4 DEF AbortIfMoved, Contract!Conclude, hostVars
    <3> QED
      BY <3>1 DEF Contract!Next, Contract!Verdicts
  <2> QED
    BY <1>1, <2>1, <2>2, <2>3, <2>4 DEF Invoke
<1>2. CASE ReadSteps
  <2>1. CASE ReadFailsAfterConflict
    BY <2>1, RowsRefine
       DEF ReadFailsAfterConflict, RecordPending, Rows, Control, Working, TypeOK,
           hostVars
  <2>2. CASE ReadThreads \/ ReadReviews \/ ReadFailsAtStart \/ ReadFailsInRecovery
    BY <2>2 DEF ReadThreads, ReadReviews, ReadFailsAtStart, ReadFailsInRecovery,
                ledgerVars, hostVars, Contract!vars
  <2> QED
    BY <1>2, <2>1, <2>2 DEF ReadSteps
<1>3. CASE PassSteps
  <2>1. CASE ReconcileDone
    BY <2>1 DEF ReconcileDone, ledgerVars, hostVars, Contract!vars
  <2>2. CASE DispatchDone
    <3>1. CASE mode = "post"
      BY <2>2, <3>1, CompleteRefines DEF DispatchDone, hostVars, Control
    <3>2. CASE mode # "post"
      BY <2>2, <3>2 DEF DispatchDone, hostVars, Contract!vars
    <3> QED
      BY <3>1, <3>2
  <2>3. ASSUME NEW a \in Actions, ReconcileHit(a)
        PROVE  Contract!Next \/ UNCHANGED Contract!vars
    <3>1. OnHost(a)
      BY <2>3 DEF ReconcileHit, First, Matches, View, OnHost
    <3> QED
      BY <2>3, <3>1, MarkRefines DEF ReconcileHit, hostVars
  <2>4. ASSUME NEW a \in Actions, MarkBundled(a)
        PROVE  Contract!Next \/ UNCHANGED Contract!vars
    <3>1. OnHost(a)
      BY <2>4 DEF MarkBundled, First, Done
    <3> QED
      BY <2>4, <3>1, MarkRefines DEF MarkBundled, hostVars
  <2>5. ASSUME NEW a \in Actions, PlanFails(a) \/ LimiterFails(a) \/ Attempt(a)
        PROVE  UNCHANGED Contract!vars
    <3>1. status[a] = "pending"
      BY <2>5 DEF PlanFails, LimiterFails, Attempt, NextUp, First, Eligible, Pending
    <3> QED
      BY <2>5, <3>1, RowsRefine
         DEF PlanFails, LimiterFails, Attempt, RecordPending, MarkFailed, TypeOK,
             hostVars
  <2> QED
    BY <1>3, <2>1, <2>2, <2>3, <2>4, <2>5 DEF PassSteps
<1>4. CASE SendSteps
  <2>0. pc = "send" =>
          /\ CurrentWrite.acts \subseteq Actions
          /\ \A a \in CurrentWrite.acts : Resolve(a) \/ copies[a] = 0
    BY DEF CurrentWrite, Control, Working, TypeOK, Once, Ahead, Absent
  <2>1. CASE SendAccepted
    BY <2>0, <2>1, LandsRefines DEF SendAccepted, ledgerVars
  <2>2. ASSUME NEW e \in Errs, SendRefused(e) PROVE UNCHANGED Contract!vars
    BY <2>2 DEF SendRefused, ledgerVars, hostVars, Contract!vars
  <2>3. ASSUME NEW e \in Errs, SendUnclear(e)
        PROVE  Contract!Next \/ UNCHANGED Contract!vars
    <3>1. CASE Lands(CurrentWrite)
      BY <2>0, <2>3, <3>1, LandsRefines DEF SendUnclear, ledgerVars
    <3>2. CASE UNCHANGED copies
      BY <2>3, <3>2 DEF SendUnclear, ledgerVars, Contract!vars
    <3> QED
      BY <2>3, <3>1, <3>2 DEF SendUnclear, hostVars
  <2> QED
    BY <1>4, <2>1, <2>2, <2>3 DEF SendSteps
<1>5. CASE RecoverySteps
  <2>1. CASE RecoverWait
    BY <2>1, RowsRefine
       DEF RecoverWait, RecordPending, Rows, Control, Working, TypeOK, hostVars
  <2>2. CASE Wake \/ RecoveredByMarker \/ RecoveryLimiterFails \/ Resend
    BY <2>2 DEF Wake, RecoveredByMarker, RecoveryLimiterFails, Resend,
                ledgerVars, hostVars, Contract!vars
  <2> QED
    BY <1>5, <2>1, <2>2 DEF RecoverySteps
<1>6. CASE RecordSteps
  <2>1. CASE RecordPosted
    <3>1. OnHost(cur) /\ cur \in Actions
      BY <2>1 DEF RecordPosted, Done, Control, Working, TypeOK
    <3> QED
      BY <2>1, <3>1, MarkRefines DEF RecordPosted, hostVars
  <2>2. CASE ConflictReconciled
    <3>1. OnHost(cur) /\ cur \in Actions
      BY <2>2 DEF ConflictReconciled, Matches, View, OnHost, Control, Working,
                  TypeOK
    <3> QED
      BY <2>2, <3>1, MarkRefines DEF ConflictReconciled, hostVars
  <2>3. CASE CompleteAborted
    <3>1. Contract!Conclude("aborted")
      BY <2>3 DEF CompleteAborted, Contract!Conclude, hostVars
    <3> QED
      BY <3>1 DEF Contract!Next, Contract!Verdicts
  <2>4. CASE ReadAfterConflict
    BY <2>4 DEF ReadAfterConflict, ledgerVars, hostVars, Contract!vars
  <2>5. CASE \/ RecordCheckpointError \/ RecordStaleSHA \/ RecordAdvisory
             \/ ConflictFails \/ RecordRetryable \/ RecordFailed
    <3>1. cur \in Actions /\ status[cur] = "pending"
      BY <2>5 DEF RecordCheckpointError, RecordStaleSHA, RecordAdvisory,
                  ConflictFails, RecordRetryable, RecordFailed, Control, Rows,
                  Working, TypeOK
    <3> QED
      BY <2>5, <3>1, RowsRefine
         DEF RecordCheckpointError, RecordStaleSHA, RecordAdvisory, ConflictFails,
             RecordRetryable, RecordFailed, RecordPending, MarkFailed, TypeOK,
             hostVars
  <2> QED
    BY <1>6, <2>1, <2>2, <2>3, <2>4, <2>5 DEF RecordSteps
<1>7. CASE HostSteps
  <2>1. ASSUME NEW w \in late, LateWriteLands(w)
        PROVE  Contract!Next \/ UNCHANGED Contract!vars
    <3>1. /\ w.acts \subseteq Actions
          /\ \A a \in w.acts : Resolve(a) \/ copies[a] = 0
      BY DEF TypeOK, Write, Once, Single
    <3> QED
      BY <2>1, <3>1, LandsRefines DEF LateWriteLands, ledgerVars
  <2>2. ASSUME NEW w \in late, LateWriteLost(w) PROVE UNCHANGED Contract!vars
    BY <2>2 DEF LateWriteLost, ledgerVars, Contract!vars
  <2> QED
    BY <1>7, <2>1, <2>2 DEF HostSteps
<1>8. CASE Humans \/ Crash \/ UNCHANGED vars
  BY <1>8 DEF Humans, HumanResolves, Crash, vars, ledgerVars, hostVars,
              Contract!vars
<1> QED
  BY <1>1, <1>2, <1>3, <1>4, <1>5, <1>6, <1>7, <1>8 DEF Next, Process

(* The outbox implements its delivery contract. *)
THEOREM OutboxImplementsDelivery ==
  ASSUME SettledStart PROVE Spec => ImplementsDelivery
<1>1. Spec => []Once
  BY SettledStart, InitOnce, NextOnce, Invariance, PTL DEF Spec
<1>2. IInv /\ Once /\ [Next]_vars => [Contract!Next]_Contract!vars
  BY NextRefines
<1> QED
  BY <1>1, <1>2, Invariance, InitRefines, PTL
     DEF Spec, ImplementsDelivery, Contract!Spec

=============================================================================
