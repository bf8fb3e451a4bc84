------------------------- MODULE ClientInitProofs -------------------------
(***************************************************************************)
(* A call of the GitHub client ends in time and never sends a token that   *)
(* has expired, for every policy and any number of callers (GitHubClient). *)
(* The argument counts time twice: a loop that has run for a while carries *)
(* a token that has lost as much of its life, and a sleep is only begun if *)
(* the loop is still within its budget when it ends.                       *)
(*                                                                         *)
(* From "Saving" on, cr init (InitSession): what a save puts in order, what*)
(* it overwrites and removes, and that deletions are undone, for any       *)
(* configuration, any names and any edits.                                 *)
(***************************************************************************)
EXTENDS GitHubClient, InitSession, SequenceTheorems, WellFoundedInduction, TLAPS

InTime(rec) ==
  rec.at \in Loops =>
    /\ rec.tries <= MaxAttempts
    /\ rec.ph = "go" => rec.elapsed <= MaxElapsed
    /\ rec.ph = "flight" => rec.clock <= AttemptTime /\ rec.elapsed <= MaxElapsed + rec.clock
    /\ rec.ph = "asleep" => rec.tries < MaxAttempts /\ rec.elapsed + rec.clock <= MaxElapsed

\* What the token has lost, the loop has spent; git is started at once.
Covered(rec) ==
  /\ rec.at = "api" => rec.held + rec.elapsed > Skew
  /\ rec.at = "git" /\ rec.ph = "go" => rec.held > Skew

Sound(rec) == rec \in CallType /\ InTime(rec) /\ Covered(rec)

IInv == TypeOK /\ \A c \in Callers : Sound(call[c])

-----------------------------------------------------------------------------
(* What the operators on calls return. *)

LEMMA IdleSound == Sound(Idle)
  BY PolicyAssumption DEF Sound, Idle, CallType, InTime, Covered, Ops, Loops

\* Each field may be given a value of its type.
LEMMA Fields ==
  ASSUME NEW rec \in CallType
  PROVE  /\ \A v \in Ops : [rec EXCEPT !.op = v] \in CallType
         /\ \A v \in {"idle", "lock", "git"} \cup Loops : [rec EXCEPT !.at = v] \in CallType
         /\ \A v \in {"go", "flight", "asleep"} : [rec EXCEPT !.ph = v] \in CallType
         /\ \A v \in Nat \ {0} : /\ [rec EXCEPT !.page = v] \in CallType
                                /\ [rec EXCEPT !.tries = v] \in CallType
         /\ \A v \in Nat : /\ [rec EXCEPT !.elapsed = v] \in CallType
                          /\ [rec EXCEPT !.clock = v] \in CallType
                          /\ [rec EXCEPT !.held = v] \in CallType
         /\ \A v \in BOOLEAN : [rec EXCEPT !.over = v] \in CallType
  BY DEF CallType

LEMMA LoopType ==
  ASSUME NEW rec \in CallType, NEW step \in {"git"} \cup Loops
  PROVE  /\ Loop(rec, step) \in CallType
         /\ Loop(rec, step).at = step /\ Loop(rec, step).ph = "go"
         /\ Loop(rec, step).tries = 1 /\ Loop(rec, step).elapsed = 0
         /\ Loop(rec, step).held = rec.held
<1> DEFINE r1 == [rec EXCEPT !.at = step]
           r2 == [r1 EXCEPT !.ph = "go"]
           r3 == [r2 EXCEPT !.tries = 1]
           r4 == [r3 EXCEPT !.elapsed = 0]
           r5 == [r4 EXCEPT !.clock = 0]
<1>1. r1 \in CallType /\ r1.at = step /\ r1.held = rec.held
  BY Fields DEF CallType
<1> HIDE DEF r1
<1>2. r2 \in CallType /\ r2.at = step /\ r2.held = rec.held /\ r2.ph = "go"
  BY <1>1, Fields DEF CallType
<1> HIDE DEF r2
<1>3. r3 \in CallType /\ r3.at = step /\ r3.held = rec.held /\ r3.ph = "go" /\ r3.tries = 1
  BY <1>2, Fields DEF CallType
<1> HIDE DEF r3
<1>4. /\ r4 \in CallType /\ r4.at = step /\ r4.held = rec.held /\ r4.ph = "go" /\ r4.tries = 1
      /\ r4.elapsed = 0
  BY <1>3, Fields DEF CallType
<1> HIDE DEF r4
<1>5. /\ r5 \in CallType /\ r5.at = step /\ r5.held = rec.held /\ r5.ph = "go" /\ r5.tries = 1
      /\ r5.elapsed = 0
  BY <1>4, Fields DEF CallType
<1>6. Loop(rec, step) = r5
  BY DEF Loop, r1, r2, r3, r4
<1> QED
  BY <1>5, <1>6

\* A loop that begins is within every bound; its token is a fresh one.
LEMMA LoopSound ==
  ASSUME NEW rec \in CallType, NEW step \in {"git"} \cup Loops,
         step \in {"api", "git"} => rec.held > Skew
  PROVE  Sound(Loop(rec, step))
<1> DEFINE new == Loop(rec, step)
<1>1. /\ new \in CallType /\ new.at = step /\ new.ph = "go" /\ new.tries = 1
      /\ new.elapsed = 0 /\ new.held = rec.held
  BY LoopType
<1> HIDE DEF new
<1>2. Sound(new)
  BY <1>1, PolicyAssumption DEF Sound, InTime, Covered, CallType, Loops
<1> QED
  BY <1>2 DEF new

\* A call that gets a fresh token may begin.
LEMMA WithTokenSound ==
  ASSUME NEW rec \in CallType, NEW life \in Nat, life > Skew
  PROVE  Sound(WithToken(rec, life))
<1> DEFINE with == [rec EXCEPT !.held = life]
<1>1. with \in CallType /\ with.held > Skew
  BY DEF CallType
<1>2. WithToken(rec, life) \in {Loop(with, "git"), Loop(with, "api")}
  BY DEF WithToken
<1> HIDE DEF with
<1> QED
  BY <1>1, <1>2, LoopSound DEF Loops

LEMMA WaitingSound ==
  ASSUME NEW rec \in CallType
  PROVE  Sound(Waiting(rec))
<1> DEFINE r1 == [rec EXCEPT !.at = "lock"]
           r2 == [r1 EXCEPT !.ph = "go"]
           r3 == [r2 EXCEPT !.clock = 0]
           r4 == [r3 EXCEPT !.elapsed = 0]
<1>1. r1 \in CallType /\ r1.at = "lock"
  BY Fields DEF CallType
<1> HIDE DEF r1
<1>2. r2 \in CallType /\ r2.at = "lock"
  BY <1>1, Fields DEF CallType
<1> HIDE DEF r2
<1>3. r3 \in CallType /\ r3.at = "lock"
  BY <1>2, Fields DEF CallType
<1> HIDE DEF r3
<1>4. r4 \in CallType /\ r4.at = "lock"
  BY <1>3, Fields DEF CallType
<1>5. Waiting(rec) = r4
  BY DEF Waiting, r1, r2, r3
<1> QED
  BY <1>4, <1>5 DEF Sound, InTime, Covered, Loops

\* Time passes for a call on which nothing is due.
LEMMA OlderSound ==
  ASSUME NEW rec, Sound(rec),
         rec.at \in Loops => /\ rec.ph \in {"flight", "asleep"}
                             /\ rec.ph = "flight" => rec.clock < AttemptTime
                             /\ rec.ph = "asleep" => rec.clock > 0,
         ~(rec.at = "git" /\ rec.ph = "go")
  PROVE  Sound(Older(rec))
<1>1. rec \in CallType /\ InTime(rec) /\ Covered(rec)
  BY DEF Sound
<1> DEFINE h == Down(rec.held)
           e == IF rec.at \in Loops THEN rec.elapsed + 1 ELSE rec.elapsed
           k == IF rec.ph = "asleep" THEN Down(rec.clock)
                ELSE IF rec.ph = "flight" /\ rec.at # "git" THEN rec.clock + 1
                ELSE rec.clock
           r1 == [rec EXCEPT !.held = h]
           r2 == [r1 EXCEPT !.elapsed = e]
           r3 == [r2 EXCEPT !.clock = k]
<1>2. Older(rec) = r3
  BY DEF Older
<1>3. /\ h \in Nat /\ e \in Nat /\ k \in Nat
      /\ rec.held - 1 <= h
      /\ rec.at \in Loops => e = rec.elapsed + 1
      /\ rec.at \in Loops /\ rec.ph = "asleep" => k = rec.clock - 1
      /\ rec.at \in Loops /\ rec.ph = "flight" => k = rec.clock + 1
  BY <1>1 DEF Down, CallType, Loops
<1> HIDE DEF h, e, k
<1>4. /\ r1 \in CallType /\ r1.held = h
      /\ r1.at = rec.at /\ r1.ph = rec.ph /\ r1.tries = rec.tries
  BY <1>1, <1>3, Fields DEF CallType
<1> HIDE DEF r1
<1>5. /\ r2 \in CallType /\ r2.held = h /\ r2.elapsed = e
      /\ r2.at = rec.at /\ r2.ph = rec.ph /\ r2.tries = rec.tries
  BY <1>3, <1>4, Fields DEF CallType
<1> HIDE DEF r2
<1>6. /\ r3 \in CallType /\ r3.held = h /\ r3.elapsed = e /\ r3.clock = k
      /\ r3.at = rec.at /\ r3.ph = rec.ph /\ r3.tries = rec.tries
  BY <1>3, <1>5, Fields DEF CallType
<1> HIDE DEF r3
<1>7. InTime(r3)
  BY <1>1, <1>3, <1>6, PolicyAssumption DEF InTime, CallType
<1>8. Covered(r3)
  BY <1>1, <1>3, <1>6, PolicyAssumption DEF Covered, CallType, Loops
<1> QED
  BY <1>2, <1>6, <1>7, <1>8 DEF Sound

\* A step of one call leaves the others as they are.
LEMMA BecomesSound ==
  ASSUME NEW c \in Callers, NEW rec, IInv, Becomes(c, rec), Sound(rec)
  PROVE  call' \in [Callers -> CallType] /\ \A d \in Callers : Sound(call'[d])
  BY DEF IInv, TypeOK, Becomes, Sound

-----------------------------------------------------------------------------
(* Every step keeps the invariant. *)

\* A sleep is begun only if the loop has an attempt left and is within its
\* budget when the sleep ends.
LEMMA FailedSound ==
  ASSUME NEW c \in Callers, NEW hint \in Hints, IInv, Failed(c, hint)
  PROVE  \/ Return(c)
         \/ /\ UNCHANGED mu
            /\ \E d \in Nat : /\ Becomes(c, [call[c] EXCEPT !.ph = "asleep", !.clock = d])
                              /\ call[c].tries < MaxAttempts
                              /\ call[c].elapsed + d <= MaxElapsed
<1>1. PICK j \in 1..MaxDelay :
        LET d == Delay(j, hint) IN
        IF GivesUp(c, d, hint)
        THEN Return(c)
        ELSE Becomes(c, [call[c] EXCEPT !.ph = "asleep", !.clock = d]) /\ UNCHANGED mu
  BY DEF Failed, Jitter
<1>2. Delay(j, hint) \in Nat
  BY PolicyAssumption DEF Delay, Hints, NoWait
<1>3. CASE GivesUp(c, Delay(j, hint), hint)
  BY <1>1, <1>3
<1>4. CASE ~GivesUp(c, Delay(j, hint), hint)
  <2>1. call[c].tries \in Nat /\ call[c].elapsed \in Nat
    BY DEF IInv, TypeOK, CallType
  <2>2. call[c].tries < MaxAttempts /\ call[c].elapsed + Delay(j, hint) <= MaxElapsed
    BY <1>2, <1>4, <2>1, PolicyAssumption DEF GivesUp, OverBudget
  <2> QED
    BY <1>1, <1>2, <1>4, <2>2
<1> QED
  BY <1>3, <1>4

LEMMA Positive == ASSUME NEW n, NEW d \in 1..n  PROVE d \in Nat
  OBVIOUS

\* Two fields of a call change.
LEMMA PhaseSound ==
  ASSUME NEW rec, Sound(rec), NEW d \in Nat
  PROVE  /\ rec.at \notin {"idle", "lock"} /\ rec.ph = "go"
              => Sound([rec EXCEPT !.ph = "flight", !.clock = 0])
         /\ rec.at \notin Loops \/ (rec.tries < MaxAttempts /\ rec.elapsed + d <= MaxElapsed)
              => Sound([rec EXCEPT !.ph = "asleep", !.clock = d])
         /\ rec.at \in Loops /\ rec.ph = "asleep"
              => Sound([rec EXCEPT !.ph = "go", !.tries = @ + 1])
         /\ Sound([rec EXCEPT !.over = TRUE])
<1>1. rec \in CallType /\ InTime(rec) /\ Covered(rec)
  BY DEF Sound
<1> DEFINE f1 == [rec EXCEPT !.ph = "flight"]  f2 == [f1 EXCEPT !.clock = 0]
           s1 == [rec EXCEPT !.ph = "asleep"]  s2 == [s1 EXCEPT !.clock = d]
           g1 == [rec EXCEPT !.ph = "go"]      g2 == [g1 EXCEPT !.tries = rec.tries + 1]
           o1 == [rec EXCEPT !.over = TRUE]
<1>2. ASSUME rec.at \notin {"idle", "lock"}, rec.ph = "go"
      PROVE  Sound(f2)
  <2>1. /\ f1 \in CallType /\ f1.at = rec.at /\ f1.ph = "flight"
        /\ f1.tries = rec.tries /\ f1.elapsed = rec.elapsed /\ f1.held = rec.held
    BY <1>1, Fields DEF CallType
  <2> HIDE DEF f1
  <2>2. /\ f2 \in CallType /\ f2.at = rec.at /\ f2.ph = "flight" /\ f2.clock = 0
        /\ f2.tries = rec.tries /\ f2.elapsed = rec.elapsed /\ f2.held = rec.held
    BY <2>1, Fields DEF CallType
  <2> HIDE DEF f2
  <2> QED
    BY <1>1, <1>2, <2>2, PolicyAssumption DEF Sound, InTime, Covered, CallType
<1>3. ASSUME rec.at \notin Loops \/ (rec.tries < MaxAttempts /\ rec.elapsed + d <= MaxElapsed)
      PROVE  Sound(s2)
  <2>1. /\ s1 \in CallType /\ s1.at = rec.at /\ s1.ph = "asleep"
        /\ s1.tries = rec.tries /\ s1.elapsed = rec.elapsed /\ s1.held = rec.held
    BY <1>1, Fields DEF CallType
  <2> HIDE DEF s1
  <2>2. /\ s2 \in CallType /\ s2.at = rec.at /\ s2.ph = "asleep" /\ s2.clock = d
        /\ s2.tries = rec.tries /\ s2.elapsed = rec.elapsed /\ s2.held = rec.held
    BY <2>1, Fields DEF CallType
  <2> HIDE DEF s2
  <2> QED
    BY <1>1, <1>3, <2>2, PolicyAssumption DEF Sound, InTime, Covered, CallType
<1>4. ASSUME rec.at \in Loops, rec.ph = "asleep"
      PROVE  Sound(g2)
  <2>1. /\ g1 \in CallType /\ g1.at = rec.at /\ g1.ph = "go"
        /\ g1.tries = rec.tries /\ g1.elapsed = rec.elapsed /\ g1.held = rec.held
    BY <1>1, Fields DEF CallType
  <2> HIDE DEF g1
  <2>2. /\ g2 \in CallType /\ g2.at = rec.at /\ g2.ph = "go"
        /\ g2.tries = rec.tries + 1 /\ g2.elapsed = rec.elapsed /\ g2.held = rec.held
    BY <1>1, <2>1, Fields DEF CallType
  <2> HIDE DEF g2
  <2> QED
    BY <1>1, <1>4, <2>2, PolicyAssumption DEF Sound, InTime, Covered, CallType, Loops
<1>5. Sound(o1)
  <2>1. o1 \in CallType
    BY <1>1, Fields
  <2>2. /\ o1.at = rec.at /\ o1.ph = rec.ph /\ o1.clock = rec.clock
        /\ o1.tries = rec.tries /\ o1.elapsed = rec.elapsed /\ o1.held = rec.held
    BY <1>1 DEF CallType
  <2> HIDE DEF o1
  <2> QED
    BY <1>1, <2>1, <2>2 DEF Sound, InTime, Covered
<1>6. /\ f2 = [rec EXCEPT !.ph = "flight", !.clock = 0]
      /\ s2 = [rec EXCEPT !.ph = "asleep", !.clock = d]
      /\ g2 = [rec EXCEPT !.ph = "go", !.tries = @ + 1]
  OBVIOUS
<1> HIDE DEF f2, s2, g2
<1> QED
  BY <1>2, <1>3, <1>4, <1>5, <1>6

LEMMA InvInit == Init => IInv
<1>1. Idle \in CallType
  BY IdleSound DEF Sound
<1> SUFFICES ASSUME Init  PROVE IInv
  OBVIOUS
<1>2. call \in [Callers -> CallType] /\ \A c \in Callers : Sound(call[c])
  BY <1>1, IdleSound DEF Init
<1>3. built \in BOOLEAN /\ left \in Nat /\ initLeft \in Nat /\ mu \in Callers \cup {Nobody}
  BY DEF Init
<1> QED
  BY <1>2, <1>3 DEF IInv, TypeOK

LEMMA TickSound == IInv /\ Tick => IInv'
<1> SUFFICES ASSUME IInv, Tick  PROVE IInv'
  OBVIOUS
<1>1. ASSUME NEW c \in Callers PROVE Sound(Older(call[c]))
  <2>1. Sound(call[c]) /\ call[c] \in CallType /\ ~Urgent(c)
    BY DEF IInv, Sound, Tick
  <2>2. call[c].at \in Loops => /\ call[c].ph \in {"flight", "asleep"}
                                /\ call[c].ph = "flight" => call[c].clock < AttemptTime
                                /\ call[c].ph = "asleep" => call[c].clock > 0
    BY <2>1, PolicyAssumption DEF Urgent, At, InFlight, CallType, Loops
  <2>3. ~(call[c].at = "git" /\ call[c].ph = "go")
    BY <2>1 DEF Urgent, At
  <2> QED
    BY <2>1, <2>2, <2>3, OlderSound
<1>2. left' \in Nat /\ initLeft' \in Nat /\ built' \in BOOLEAN /\ mu' \in Callers \cup {Nobody}
  BY DEF Tick, IInv, TypeOK, Down
<1>3. call' \in [Callers -> CallType] /\ \A c \in Callers : Sound(call'[c])
  BY <1>1 DEF Tick, Sound
<1> QED
  BY <1>2, <1>3 DEF IInv, TypeOK

\* A step of one caller gives it a sound call.
LEMMA CallerSound ==
  ASSUME NEW c \in Callers, IInv,
         \/ \E op \in Ops : Begin(c, op)
         \/ TakeToken(c) \/ Step(c) \/ Cancel(c)
  PROVE  IInv'
<1> DEFINE rec == call[c]
           Rest == /\ built' \in BOOLEAN /\ left' \in Nat /\ initLeft' \in Nat
                   /\ mu' \in Callers \cup {Nobody}
<1>1. /\ Sound(rec) /\ rec \in CallType /\ rec.page \in Nat \ {0}
      /\ built \in BOOLEAN /\ left \in Nat /\ initLeft \in Nat /\ mu \in Callers \cup {Nobody}
      /\ Lifetime \in Nat /\ Skew \in Nat /\ AttemptTime \in Nat /\ InitTimeout \in Nat
  BY PolicyAssumption DEF IInv, TypeOK, Sound, CallType
<1>2. SUFFICES Rest /\ \E new : Sound(new) /\ Becomes(c, new)
  <2>1. PICK new : Sound(new) /\ Becomes(c, new)
    BY <1>2
  <2> QED
    BY <1>2, <2>1, BecomesSound DEF IInv, TypeOK
<1>3. ASSUME Return(c), UNCHANGED <<built, left, initLeft>>
      PROVE  Rest /\ \E new : Sound(new) /\ Becomes(c, new)
  BY <1>1, <1>3, IdleSound DEF Return
<1>4. ASSUME NEW op \in Ops, Begin(c, op)
      PROVE  Rest /\ \E new : Sound(new) /\ Becomes(c, new)
  <2> DEFINE first == [Idle EXCEPT !.op = op]
  <2>1. first \in CallType
    BY IdleSound, Fields DEF Sound
  <2>2. Becomes(c, Loop(first, "lookup")) \/ Becomes(c, Waiting(first))
    BY <1>4 DEF Begin
  <2> HIDE DEF first
  <2>3. Sound(Loop(first, "lookup")) /\ Sound(Waiting(first))
    BY <2>1, LoopSound, WaitingSound DEF Loops
  <2>4. Rest
    BY <1>1, <1>4 DEF Begin
  <2> QED
    BY <2>2, <2>3, <2>4
<1>5. ASSUME TakeToken(c)
      PROVE  Rest /\ \E new : Sound(new) /\ Becomes(c, new)
  <2>1. Rest
    BY <1>1, <1>5 DEF TakeToken
  <2>2. CASE Fresh
    <3>1. Sound(WithToken(rec, left))
      BY <1>1, <2>2, WithTokenSound DEF Fresh
    <3> QED
      BY <1>5, <2>1, <2>2, <3>1 DEF TakeToken
  <2>3. CASE ~Fresh
    <3>1. Sound(Loop(rec, "lookup"))
      BY <1>1, LoopSound DEF Loops
    <3> QED
      BY <1>5, <2>1, <2>3, <3>1 DEF TakeToken
  <2> QED
    BY <2>2, <2>3
<1>6. ASSUME LookedUp(c)
      PROVE  Rest /\ \E new : Sound(new) /\ Becomes(c, new)
  <2>1. Sound(Loop(rec, "mint"))
    BY <1>1, LoopSound DEF Loops
  <2> QED
    BY <1>1, <1>6, <2>1 DEF LookedUp
<1>7. ASSUME Minted(c)
      PROVE  Rest /\ \E new : Sound(new) /\ Becomes(c, new)
  <2>1. PICK age \in 0..rec.clock :
          /\ left' = Lifetime - age
          /\ Becomes(c, IF rec.op = "new" THEN Idle ELSE WithToken(rec, left'))
    BY <1>7 DEF Minted
  <2>2. rec.clock \in Nat /\ rec.clock <= AttemptTime
    BY <1>1, <1>7 DEF Minted, At, InFlight, Sound, InTime, Loops, CallType
  <2>3. left' \in Nat /\ left' > Skew
    BY <1>1, <2>1, <2>2, TokenAssumption
  <2>4. Rest
    BY <1>1, <1>7, <2>3 DEF Minted
  <2>5. Sound(Idle) /\ Sound(WithToken(rec, left'))
    BY <1>1, <2>3, IdleSound, WithTokenSound
  <2> QED
    BY <2>1, <2>4, <2>5
<1>8. ASSUME Send(c)
      PROVE  Rest /\ \E new : Sound(new) /\ Becomes(c, new)
  <2>1. Sound([rec EXCEPT !.ph = "flight", !.clock = 0])
    BY <1>1, <1>8, PhaseSound DEF Send
  <2> QED
    BY <1>1, <1>8, <2>1 DEF Send
<1>9. ASSUME Answered(c) \/ Refused(c) \/ SleepCut(c)
      PROVE  Rest /\ \E new : Sound(new) /\ Becomes(c, new)
  BY <1>3, <1>9 DEF Answered, Refused, SleepCut
<1>10. ASSUME NextPage(c) \/ FetchAgain(c)
       PROVE  Rest /\ \E new : Sound(new) /\ Becomes(c, new)
  <2> DEFINE new == [rec EXCEPT !.page = rec.page + 1]
  <2>1. Becomes(c, Waiting(new))
    BY <1>10 DEF NextPage, FetchAgain
  <2>2. rec.page + 1 \in Nat \ {0}
    BY <1>1
  <2>3. new \in CallType
    BY <1>1, <2>2, Fields
  <2> HIDE DEF new
  <2>4. Sound(Waiting(new))
    BY <2>3, WaitingSound
  <2>5. Rest
    BY <1>1, <1>10 DEF NextPage, FetchAgain
  <2> QED
    BY <2>1, <2>4, <2>5
<1>11. ASSUME NEW hint \in Hints, Failed(c, hint)
       PROVE  Rest /\ \E new : Sound(new) /\ Becomes(c, new)
  <2>1. UNCHANGED <<built, left, initLeft>>
    BY <1>11 DEF Failed
  <2>2. CASE Return(c)
    BY <1>3, <2>1, <2>2
  <2>3. CASE ~Return(c)
    <3>1. PICK d \in Nat : /\ Becomes(c, [rec EXCEPT !.ph = "asleep", !.clock = d])
                           /\ rec.tries < MaxAttempts /\ rec.elapsed + d <= MaxElapsed
                           /\ UNCHANGED mu
      BY <1>11, <2>3, FailedSound
    <3>2. Sound([rec EXCEPT !.ph = "asleep", !.clock = d])
      BY <1>1, <3>1, PhaseSound
    <3> QED
      BY <1>1, <2>1, <3>1, <3>2
  <2> QED
    BY <2>2, <2>3
<1>12. ASSUME Wake(c)
       PROVE  Rest /\ \E new : Sound(new) /\ Becomes(c, new)
  <2>1. Sound([rec EXCEPT !.ph = "go", !.tries = @ + 1])
    BY <1>1, <1>12, PhaseSound DEF Wake
  <2> QED
    BY <1>1, <1>12, <2>1 DEF Wake
<1>13. ASSUME FetchFailed(c)
       PROVE  Rest /\ \E new : Sound(new) /\ Becomes(c, new)
  <2>1. UNCHANGED <<built, left, initLeft>> /\ rec.at \notin Loops
    BY <1>13 DEF FetchFailed, At, Loops
  <2>2. CASE Return(c)
    BY <1>3, <2>1, <2>2
  <2>3. CASE ~Return(c)
    <3>1. PICK d \in 1..FetchDelay * 2 ^ (rec.page - 1) :
            Becomes(c, [rec EXCEPT !.ph = "asleep", !.clock = d]) /\ UNCHANGED mu
      BY <1>13, <2>3, Zenon DEF FetchFailed, Jitter
    <3>2. d \in Nat
      BY <3>1, Positive
    <3>3. Sound([rec EXCEPT !.ph = "asleep", !.clock = d])
      BY <1>1, <2>1, <3>2, PhaseSound
    <3> QED
      BY <1>1, <2>1, <3>1, <3>3
  <2> QED
    BY <2>2, <2>3
<1>14. ASSUME Cancel(c)
       PROVE  Rest /\ \E new : Sound(new) /\ Becomes(c, new)
  <2>1. Sound([rec EXCEPT !.over = TRUE])
    BY <1>1, PhaseSound
  <2> QED
    BY <1>1, <1>14, <2>1 DEF Cancel
<1> QED
  BY <1>4, <1>5, <1>6, <1>7, <1>8, <1>9, <1>10, <1>11, <1>12, <1>13, <1>14 DEF Step

LEMMA InvNext == IInv /\ [Next]_vars => IInv'
<1> SUFFICES ASSUME IInv, [Next]_vars  PROVE IInv'
  OBVIOUS
<1>1. CASE UNCHANGED vars
  BY <1>1 DEF vars, IInv, TypeOK
<1>2. CASE Tick
  BY <1>2, TickSound
<1>3. ASSUME NEW c \in Callers,
             \/ \E op \in Ops : Begin(c, op)
             \/ TakeToken(c) \/ Step(c) \/ Cancel(c)
      PROVE  IInv'
  BY <1>3, CallerSound
<1> QED
  BY <1>1, <1>2, <1>3 DEF Next

LEMMA Invariance == Spec => []IInv
  BY InvInit, InvNext, PTL DEF Spec

-----------------------------------------------------------------------------
(* The theorems. *)

(* Every reachable state is well typed, whatever the policy. *)
THEOREM TypeCorrect == Spec => []TypeOK
<1>1. IInv => TypeOK
  BY DEF IInv
<1> QED
  BY <1>1, Invariance, PTL

(* A token is judged before the loop that sends it; it outlives the loop,  *)
(* however attempts, waits and the refreshes of others fall.               *)
THEOREM TokensAlive == Spec => []TokenAlive
<1>1. ASSUME IInv, NEW c \in Callers, call[c].at \in {"api", "git"}, call[c].ph = "go"
      PROVE  call[c].held > 0
  <2>1. Sound(call[c]) /\ call[c] \in CallType
    BY <1>1 DEF IInv, Sound
  <2> QED
    BY <1>1, <2>1, PolicyAssumption, TokenAssumption
    DEF Sound, InTime, Covered, CallType, Loops
<1>2. IInv => TokenAlive
  BY <1>1 DEF TokenAlive
<1> QED
  BY <1>2, Invariance, PTL

(* No loop makes more attempts than the policy allows or goes on for more  *)
(* than one attempt after its total time.                                  *)
THEOREM LoopsEndInTime == Spec => []EndsInTime
<1>1. ASSUME IInv, NEW c \in Callers, call[c].at \in Loops
      PROVE  call[c].tries <= MaxAttempts /\ call[c].elapsed <= MaxElapsed + AttemptTime
  <2>1. Sound(call[c]) /\ call[c] \in CallType
    BY <1>1 DEF IInv, Sound
  <2> QED
    BY <1>1, <2>1, PolicyAssumption DEF Sound, InTime, CallType
<1>2. IInv => EndsInTime
  BY <1>1 DEF EndsInTime
<1> QED
  BY <1>2, Invariance, PTL

-----------------------------------------------------------------------------
(* Saving.                                                                 *)

Saving == {"write", "acquire", "check", "rename", "clean"}

(* Who compares and renames has the lock, and nobody renames over what he    *)
(* has not read; secrets come first, and what is stale no reviewer needs.    *)
SaveInv ==
  /\ pc \in [Savers -> Labels] /\ DOMAIN base = Savers
  /\ \A s \in Savers : pc[s] \in {"check", "rename"} => lock = s
  /\ \A s \in Savers : pc[s] = "rename" => base[s] \in {None, disk}
  /\ pc["init"] \in {"menu", "ask", "apply"} => written = {}
  /\ pc["init"] = "write" => \A w \in planned : w[1] \in written => w \in store
  /\ pc["init"] \in {"acquire", "check", "rename"} => planned \subseteq store
  /\ pc["init"] = "clean" \/ saved => planned \ stale \subseteq store
  /\ saved => pc["init"] \in {"clean", "done"}
  /\ pc["init"] \in Saving =>
       \A w \in stale, r \in ReviewerRefs(cfg) : r.cred = w[1] => w[2] # Key(r.mode)

LEMMA InitSaves == SessionInit => SaveInv
BY InitSessionAssumption DEF SessionInit, SaveInv, Savers, Labels, Saving

LEMMA GotoIs ==
  ASSUME SaveInv, NEW s \in Savers, NEW l \in Labels, Goto(s, l)
  PROVE  /\ pc' \in [Savers -> Labels] /\ pc'[s] = l
         /\ \A q \in Savers \ {s} : pc'[q] = pc[q]
BY DEF SaveInv, Goto

(* Staging saves nothing and writes no key; only giving up moves on.         *)
Stays == pc["init"] = "menu" /\ UNCHANGED <<world, plan, saved>> /\ UNCHANGED pc

LEMMA EditIs ==
  ASSUME Edit
  PROVE  /\ pc["init"] = "menu" /\ UNCHANGED <<world, plan, saved>>
         /\ UNCHANGED pc \/ Goto("init", "done")
<1>1. CASE Abandon
  BY <1>1 DEF Abandon, InMenu
<1>2. StageEdit => Stays
  BY DEF StageEdit, InMenu, Stays
<1>3. ASSUME NEW kind, NEW name, NEW traced, NEW details, StageDeletion(kind, name, traced, details)
      PROVE  Stays
  BY <1>3 DEF StageDeletion, InMenu, Stays
<1>4. ASSUME NEW kind, NEW name, StageUndo(kind, name)
      PROVE  Stays
  BY <1>4 DEF StageUndo, InMenu, Stays
<1>5. ASSUME NEW n, NEW v, StageAccess(n, v) \/ StageEntity(n, v) \/ StageRuntime(n, v)
      PROVE  Stays
  BY <1>2, <1>5 DEF StageAccess, StageEntity, StageRuntime
<1>6. ASSUME NEW o, NEW n, NEW g, NEW c, NEW l, NEW r, EditProfile(o, n, g, c, l, r)
      PROVE  Stays
  BY <1>2, <1>6 DEF EditProfile
<1>7. ASSUME NEW l, EditRuntime(l)
      PROVE  Stays
  BY <1>2, <1>7 DEF EditRuntime
<1>8. ASSUME NEW n, DeleteProfile(n) \/ DeleteAccess(n) \/ DeleteEntity(n)
      PROVE  Stays
  <2>1. PICK kind \in Kinds, traced \in BOOLEAN : \E details : StageDeletion(kind, n, traced, details)
    BY <1>8 DEF DeleteProfile, DeleteAccess, DeleteEntity, Kinds
  <2> QED
    BY <1>3, <2>1
<1>9. ASSUME NEW n, UndoProfile(n) \/ UndoAccess(n) \/ UndoEntity(n) \/ UndoRuntime(n)
      PROVE  Stays
  BY <1>4, <1>9 DEF UndoProfile, UndoAccess, UndoEntity, UndoRuntime
<1>10. ASSUME NEW n, NEW v, DeleteRuntime(n, v)
      PROVE  Stays
  <2>1. PICK traced : \E details : StageDeletion("runtime", n, traced, details)
    BY <1>10 DEF DeleteRuntime
  <2> QED
    BY <1>3, <2>1
<1> QED
  BY <1>1, <1>5, <1>6, <1>7, <1>8, <1>9, <1>10 DEF Edit, Stays

LEMMA EditSaves ==
  ASSUME SaveInv, Edit
  PROVE  SaveInv'
<1>1. /\ pc["init"] = "menu" /\ UNCHANGED <<world, plan, saved>>
      /\ UNCHANGED pc \/ Goto("init", "done")
  BY EditIs
<1>2. UNCHANGED pc \/ Goto("init", "done")
  BY <1>1
<1>3. UNCHANGED <<disk, store, lock, base, stale, planned, written, saved>>
  BY <1>1 DEF world, plan
<1>4. CASE UNCHANGED pc
  BY <1>1, <1>3, <1>4 DEF SaveInv, Saving
<1>5. CASE Goto("init", "done")
  <2>1. /\ pc' \in [Savers -> Labels] /\ pc'["init"] = "done"
        /\ \A q \in Savers \ {"init"} : pc'[q] = pc[q]
    BY <1>5, GotoIs DEF Savers, Labels
  <2>2. ~saved
    BY <1>1 DEF SaveInv
  <2> QED
    BY <1>1, <1>3, <2>1, <2>2 DEF SaveInv, Saving
<1> QED
  BY <1>2, <1>4, <1>5

(* A step that moves the pc of one saver and touches nothing else.           *)
LEMMA OneMove ==
  ASSUME SaveInv, NEW s \in Savers, NEW l \in Labels, Goto(s, l),
         UNCHANGED <<disk, base, planned, stale, saved, store, cfg, written>>
  PROVE  /\ pc' \in [Savers -> Labels] /\ DOMAIN base' = Savers /\ pc'[s] = l
         /\ \A q \in Savers \ {s} : pc'[q] = pc[q]
         /\ \A q \in Savers \ {s} : pc'[q] = "rename" => base'[q] \in {None, disk'}
BY GotoIs DEF SaveInv

LEMMA PlanSaves ==
  ASSUME SaveInv, Save \/ RefusePlan \/ GoBack \/ ChooseSave \/ \E e \in entries : Ask(e)
  PROVE  SaveInv'
<1>1. /\ pc["init"] \in {"menu", "ask"}
      /\ UNCHANGED <<disk, store, lock, base, stale, written, saved>>
  BY DEF Save, RefusePlan, GoBack, ChooseSave, Ask, InMenu, world, plan
<1>2. \/ UNCHANGED pc
      \/ \E l \in {"menu", "ask", "apply", "done"} : Goto("init", l)
  BY DEF Save, RefusePlan, GoBack, ChooseSave, Ask
<1>3. ~saved
  BY <1>1 DEF SaveInv
<1>4. CASE UNCHANGED pc
  BY <1>1, <1>3, <1>4 DEF SaveInv, Saving
<1>5. ASSUME NEW l \in {"menu", "ask", "apply", "done"}, Goto("init", l)
      PROVE  SaveInv'
  <2>1. /\ pc' \in [Savers -> Labels] /\ pc'["init"] = l
        /\ \A q \in Savers \ {"init"} : pc'[q] = pc[q]
    BY <1>5, GotoIs DEF Savers, Labels
  <2> QED
    BY <1>1, <1>3, <2>1 DEF SaveInv, Saving
<1> QED
  BY <1>2, <1>4, <1>5

LEMMA BeginSaves ==
  ASSUME SaveInv, BeginWrites
  PROVE  SaveInv'
<1>1. pc["init"] = "apply" /\ written = {} /\ ~saved
  BY DEF BeginWrites, SaveInv
<1>2. UNCHANGED <<disk, store, lock, base, planned, written, saved, cfg>>
  BY DEF BeginWrites, world, session
<1>3. CASE Goto("init", "write") /\ stale' = StaleKeys
  <2>1. /\ pc' \in [Savers -> Labels] /\ pc'["init"] = "write"
        /\ \A q \in Savers \ {"init"} : pc'[q] = pc[q]
    BY <1>3, GotoIs DEF Savers, Labels
  <2>2. \A w \in stale', r \in ReviewerRefs(cfg) : r.cred = w[1] => w[2] # Key(r.mode)
    BY <1>3 DEF StaleKeys
  <2>3. ReviewerRefs(cfg)' = ReviewerRefs(cfg)
    BY <1>2 DEF ReviewerRefs
  <2> QED
    BY <1>1, <1>2, <2>1, <2>2, <2>3 DEF SaveInv, Saving
<1>4. CASE Goto("init", "done") /\ UNCHANGED stale
  <2>1. /\ pc' \in [Savers -> Labels] /\ pc'["init"] = "done"
        /\ \A q \in Savers \ {"init"} : pc'[q] = pc[q]
    BY <1>4, GotoIs DEF Savers, Labels
  <2> QED
    BY <1>1, <1>2, <2>1 DEF SaveInv, Saving
<1> QED
  BY <1>3, <1>4 DEF BeginWrites

LEMMA WriteSaves ==
  ASSUME SaveInv, (\E c \in Credentials : WriteBundle(c)) \/ Written
  PROVE  SaveInv'
<1>1. pc["init"] = "write" /\ ~saved
  BY DEF WriteBundle, Written, SaveInv
<1>2. UNCHANGED <<disk, lock, base, planned, stale, saved, cfg>>
  BY DEF WriteBundle, Written, session, plan
<1>3. ReviewerRefs(cfg)' = ReviewerRefs(cfg)
  BY <1>2 DEF ReviewerRefs
<1>4. ASSUME NEW c \in Credentials, WriteBundle(c)
      PROVE  SaveInv'
  <2> DEFINE bundle == {w \in planned : w[1] = c}
  <2>1. CASE store' = store \cup bundle /\ written' = written \cup {c} /\ UNCHANGED pc
    BY <1>1, <1>2, <1>3, <2>1 DEF SaveInv, Saving
  <2>2. CASE Goto("init", "done") /\ UNCHANGED <<store, written>>
    <3>1. /\ pc' \in [Savers -> Labels] /\ pc'["init"] = "done"
          /\ \A q \in Savers \ {"init"} : pc'[q] = pc[q]
      BY <2>2, GotoIs DEF Savers, Labels
    <3> QED
      BY <1>1, <1>2, <2>2, <3>1 DEF SaveInv, Saving
  <2> QED
    BY <1>4, <2>1, <2>2 DEF WriteBundle
<1>5. CASE Written
  <2>1. /\ pc' \in [Savers -> Labels] /\ pc'["init"] = "acquire"
        /\ \A q \in Savers \ {"init"} : pc'[q] = pc[q]
    BY <1>5, GotoIs DEF Savers, Labels, Written
  <2>2. planned \subseteq store
    BY <1>1, <1>5 DEF SaveInv, Written
  <2>3. UNCHANGED <<store, written>>
    BY <1>5 DEF Written, plan
  <2> QED
    BY <1>1, <1>2, <1>3, <2>1, <2>2, <2>3 DEF SaveInv, Saving
<1> QED
  BY <1>4, <1>5

LEMMA SaverSaves ==
  ASSUME SaveInv, NEW s \in Savers, Acquire(s) \/ AcquireTimesOut(s) \/ Check(s) \/ Rename(s) \/ Break(s)
  PROVE  SaveInv'
<1> USE InitSessionAssumption
<1>1. UNCHANGED <<store, base, planned, stale, written, cfg>>
  BY DEF Acquire, AcquireTimesOut, Check, Rename, Break, world, session, plan
<1>2. ReviewerRefs(cfg)' = ReviewerRefs(cfg)
  BY <1>1 DEF ReviewerRefs
<1>3. pc[s] \notin {"menu", "ask", "apply", "done", "idle"}
  BY DEF Acquire, AcquireTimesOut, Check, Rename, Break
<1>9. ASSUME NEW l \in Labels, pc' \in [Savers -> Labels], pc'[s] = l, l \notin {"write", "clean"},
             \A q \in Savers \ {s} : pc'[q] = pc[q],
             \A q \in Savers : pc'[q] \in {"check", "rename"} => lock' = q,
             l = "rename" => base[s] \in {None, disk},
             pc[s] \notin {"clean", "done"} \/ l = "done",
             l \in {"acquire", "check", "rename"} => pc[s] \in {"acquire", "check", "rename"},
             pc[s] \notin {"menu", "ask", "apply", "done", "idle"},
             l \notin {"menu", "ask", "apply"}, UNCHANGED <<disk, saved>>
      PROVE  SaveInv'
  <2>1. \A q \in Savers : pc'[q] = "rename" => base'[q] \in {None, disk'}
    BY <1>1, <1>9 DEF SaveInv
  <2>2. CASE s = "init"
    <3>1. saved => l = "done"
      BY <1>9, <2>2 DEF SaveInv
    <3>2. pc'["init"] \in Saving => pc["init"] \in Saving
      BY <1>9, <2>2 DEF SaveInv, Saving
    <3>3. \A w \in stale, r \in ReviewerRefs(cfg) :
            pc'["init"] \in Saving /\ r.cred = w[1] => w[2] # Key(r.mode)
      BY <3>2 DEF SaveInv
    <3>4. l \in {"acquire", "check", "rename"} => planned \subseteq store
      BY <1>9, <2>2 DEF SaveInv
    <3>5. saved => planned \ stale \subseteq store
      BY DEF SaveInv
    <3>6. DOMAIN base = Savers
      BY DEF SaveInv
    <3> HIDE DEF Saving
    <3> QED
      BY <1>1, <1>2, <1>9, <2>1, <2>2, <3>1, <3>3, <3>4, <3>5, <3>6 DEF SaveInv
  <2>3. CASE s = "other"
    <3>1. pc'["init"] = pc["init"]
      BY <1>9, <2>3 DEF Savers
    <3> HIDE DEF Saving
    <3> QED
      BY <1>1, <1>2, <1>9, <2>1, <3>1 DEF SaveInv
  <2> QED
    BY <2>2, <2>3 DEF Savers
<1>4. CASE Acquire(s)
  <2>1. /\ pc' \in [Savers -> Labels] /\ pc'[s] = "check"
        /\ \A q \in Savers \ {s} : pc'[q] = pc[q]
    BY <1>4, GotoIs DEF Labels, Acquire
  <2>2. \A q \in Savers : pc[q] \notin {"check", "rename"}
    BY <1>4 DEF SaveInv, Acquire
  <2>3. pc[s] = "acquire" /\ lock' = s /\ UNCHANGED <<disk, saved>>
    BY <1>4 DEF Acquire
  <2>4. ~saved \/ s = "other"
    BY <2>3 DEF SaveInv, Savers
  <2> QED
    BY <1>1, <1>2, <1>9, <2>1, <2>2, <2>3, <2>4
<1>5. CASE AcquireTimesOut(s)
  <2>1. /\ pc' \in [Savers -> Labels] /\ pc'[s] = "done"
        /\ \A q \in Savers \ {s} : pc'[q] = pc[q]
    BY <1>5, GotoIs DEF Labels, AcquireTimesOut
  <2>2. pc[s] = "acquire" /\ UNCHANGED <<disk, lock, saved>>
    BY <1>5 DEF AcquireTimesOut, world
  <2>3. \A q \in Savers \ {s} : pc[q] \in {"check", "rename"} => lock' = q
    BY <2>2 DEF SaveInv
  <2> QED
    BY <1>1, <1>2, <1>3, <1>9, <2>1, <2>2, <2>3
<1>6. CASE Check(s)
  <2>1. pc[s] = "check" /\ lock = s /\ UNCHANGED <<disk, saved>>
    BY <1>6 DEF Check, SaveInv
  <2>2. CASE base[s] \in {None, disk} /\ Goto(s, "rename") /\ UNCHANGED lock
    <3>1. /\ pc' \in [Savers -> Labels] /\ pc'[s] = "rename"
          /\ \A q \in Savers \ {s} : pc'[q] = pc[q]
      BY <2>2, GotoIs DEF Labels
    <3>2. \A q \in Savers \ {s} : pc[q] \notin {"check", "rename"}
      BY <2>1 DEF SaveInv
    <3> QED
      BY <1>1, <1>2, <1>3, <1>9, <2>1, <2>2, <3>1, <3>2
  <2>3. CASE Goto(s, "done") /\ lock' = None
    <3>1. /\ pc' \in [Savers -> Labels] /\ pc'[s] = "done"
          /\ \A q \in Savers \ {s} : pc'[q] = pc[q]
      BY <2>3, GotoIs DEF Labels
    <3>2. \A q \in Savers \ {s} : pc[q] \notin {"check", "rename"}
      BY <2>1 DEF SaveInv
    <3> QED
      BY <1>1, <1>2, <1>3, <1>9, <2>1, <2>3, <3>1, <3>2
  <2> QED
    BY <1>6, <2>2, <2>3 DEF Check
<1>7. CASE Rename(s)
  <2>1. pc[s] = "rename" /\ lock = s /\ lock' = None /\ saved' = (saved \/ s = "init")
    BY <1>7 DEF Rename, SaveInv
  <2> DEFINE l == IF s = "init" THEN "clean" ELSE "done"
  <2>2. /\ pc' \in [Savers -> Labels] /\ pc'[s] = l
        /\ \A q \in Savers \ {s} : pc'[q] = pc[q]
    <3>1. Goto(s, l) /\ l \in Labels
      BY <1>7 DEF Rename, Labels
    <3> HIDE DEF l
    <3> QED
      BY <3>1, GotoIs
  <2>3. \A q \in Savers \ {s} : pc[q] \notin {"check", "rename"}
    BY <2>1 DEF SaveInv
  <2>4. CASE s = "init"
    <3>1. planned \subseteq store
      BY <2>1, <2>4 DEF SaveInv
    <3> QED
      BY <1>1, <1>2, <2>1, <2>2, <2>3, <2>4, <3>1 DEF SaveInv, Saving
  <2>5. CASE s = "other"
    BY <1>1, <1>2, <2>1, <2>2, <2>3, <2>5 DEF SaveInv, Saving, Savers
  <2> QED
    BY <2>4, <2>5 DEF Savers
<1>8. CASE Break(s)
  <2>1. /\ pc' \in [Savers -> Labels] /\ pc'[s] = "done"
        /\ \A q \in Savers \ {s} : pc'[q] = pc[q]
    BY <1>8, GotoIs DEF Labels, Break
  <2>2. UNCHANGED <<disk, saved>> /\ lock' = IF lock = s THEN None ELSE lock
    BY <1>8 DEF Break
  <2>3. \A q \in Savers \ {s} : pc[q] \in {"check", "rename"} => lock' = q
    BY <2>2 DEF SaveInv
  <2> QED
    BY <1>1, <1>2, <1>3, <1>9, <2>1, <2>2, <2>3
<1> QED
  BY <1>4, <1>5, <1>6, <1>7, <1>8

LEMMA CleanSaves ==
  ASSUME SaveInv, Clean \/ Cleaned
  PROVE  SaveInv'
<1>1. UNCHANGED <<disk, lock, base, planned, stale, written, cfg, saved>> /\ pc["init"] = "clean"
  BY DEF Clean, Cleaned, world, session, plan
<1>2. ReviewerRefs(cfg)' = ReviewerRefs(cfg)
  BY <1>1 DEF ReviewerRefs
<1>3. planned \ stale \subseteq store
  BY <1>1 DEF SaveInv
<1>4. CASE Clean
  <2>1. UNCHANGED pc /\ planned \ stale \subseteq store'
    BY <1>3, <1>4 DEF Clean
  <2> QED
    BY <1>1, <1>2, <2>1 DEF SaveInv, Saving
<1>5. CASE Cleaned
  <2>1. /\ pc' \in [Savers -> Labels] /\ pc'["init"] = "done"
        /\ \A q \in Savers \ {"init"} : pc'[q] = pc[q]
    BY <1>5, GotoIs DEF Labels, Cleaned, Savers
  <2>2. UNCHANGED store
    BY <1>5 DEF Cleaned, world
  <2> QED
    BY <1>1, <1>3, <2>1, <2>2 DEF SaveInv, Saving
<1> QED
  BY <1>4, <1>5

LEMMA OtherSaves ==
  ASSUME SaveInv, Other
  PROVE  SaveInv'
<1>1. /\ UNCHANGED <<disk, lock, planned, stale, written, cfg, saved>>
      /\ pc["other"] = "idle" /\ store \subseteq store'
  BY DEF Other, LoadForRoute, SetCredential, OthersTurn, session, plan
<1>2. ReviewerRefs(cfg)' = ReviewerRefs(cfg)
  BY <1>1 DEF ReviewerRefs
<1>3. PICK l \in {"acquire", "done"} : Goto("other", l)
  BY DEF Other, LoadForRoute, SetCredential
<1>4. /\ pc' \in [Savers -> Labels] /\ pc'["other"] = l
      /\ \A q \in Savers \ {"other"} : pc'[q] = pc[q]
  BY <1>3, GotoIs DEF Labels, Savers
<1>5. base'["init"] = base["init"] /\ DOMAIN base' = Savers
  BY DEF Other, LoadForRoute, SetCredential, SaveInv, Savers
<1> QED
  BY <1>1, <1>2, <1>4, <1>5 DEF SaveInv, Saving, Savers

LEMMA NextSaves ==
  ASSUME SaveInv, [SessionNext]_sessionVars
  PROVE  SaveInv'
<1>1. CASE UNCHANGED sessionVars
  BY <1>1 DEF SaveInv, sessionVars, world, session, plan, ReviewerRefs
<1> QED
  BY <1>1, EditSaves, PlanSaves, BeginSaves, WriteSaves, SaverSaves, CleanSaves, OtherSaves
     DEF SessionNext, Apply

LEMMA SpecSaves == SessionSpec => []SaveInv
<1>1. SaveInv /\ [SessionNext]_sessionVars => SaveInv'
  BY NextSaves
<1> QED
  BY InitSaves, <1>1, PTL DEF SessionSpec

(* Once init has saved the configuration, each secret it was to write for it *)
(* is in the store, whatever failed, and whatever the other command wrote.   *)
THEOREM SecretsComeFirst == SessionSpec => []StoredBeforeSaved
<1>1. SaveInv => StoredBeforeSaved
  BY DEF SaveInv, StoredBeforeSaved
<1> QED
  BY <1>1, SpecSaves, PTL

(* Neither init nor the other command renames its file over a configuration  *)
(* that it has not read, if it had read one when it began.                   *)
THEOREM SavesAreCompared == SessionSpec => NoLostUpdate
<1>1. SaveInv /\ [SessionNext]_sessionVars =>
        [disk' # disk => \E s \in Savers : pc[s] = "rename" /\ base[s] \in {None, disk}]_sessionVars
  <2> SUFFICES ASSUME SaveInv, SessionNext, disk' # disk
               PROVE  \E s \in Savers : pc[s] = "rename" /\ base[s] \in {None, disk}
    OBVIOUS
  <2>1. ASSUME Edit PROVE FALSE
    BY <2>1, EditIs DEF world
  <2>2. ASSUME Other PROVE FALSE
    BY <2>2 DEF Other, LoadForRoute, SetCredential
  <2>3. PICK s \in Savers : Rename(s)
    BY <2>1, <2>2 DEF SessionNext, Apply, Save, RefusePlan, GoBack, ChooseSave, BeginWrites, Written, Clean, Cleaned,
       Ask, WriteBundle, Acquire, AcquireTimesOut, Check, Break, world
  <2> QED
    BY <2>3 DEF Rename, SaveInv
<1> QED
  BY <1>1, SpecSaves, PTL DEF SessionSpec, NoLostUpdate

(* What the cleanup after a save removes, no reviewer of a saved profile     *)
(* needs: it weighs all profiles, not only those that were touched.          *)
THEOREM CleanupSpares == SessionSpec => ReviewerKeysSpared
<1> DEFINE Spared == pc["init"] = "clean" =>
             \A w \in (store \ store') : \A p \in DOMAIN cfg.profile :
               LET profile == cfg.profile[p] IN
               profile = Refreshed(cfg, profile) /\ profile.creds # None
                 => w # <<profile.creds.cred, Key(profile.creds.mode)>>
<1>1. SaveInv /\ [SessionNext]_sessionVars => [Spared]_sessionVars
  <2> SUFFICES ASSUME SaveInv, SessionNext, pc["init"] = "clean", NEW w \in store \ store',
                      NEW p \in DOMAIN cfg.profile, cfg.profile[p].creds # None,
                      w = <<cfg.profile[p].creds.cred, Key(cfg.profile[p].creds.mode)>>
               PROVE  FALSE
    OBVIOUS
  <2>1. ~Edit /\ ~Other
    BY EditIs DEF Other, LoadForRoute, SetCredential
  <2>2. Clean
    BY <2>1 DEF SessionNext, Apply, Save, RefusePlan, GoBack, ChooseSave, BeginWrites, Written, Cleaned, Ask, InMenu,
       WriteBundle, Acquire, AcquireTimesOut, Check, Rename, Break, world
  <2>3. w \in stale
    BY <2>2 DEF Clean
  <2> DEFINE creds == cfg.profile[p].creds
             ref   == [purpose |-> "reviewer", cred |-> creds.cred, mode |-> creds.mode]
  <2>4. ref \in CredentialRefs(cfg.profile[p])
    BY DEF CredentialRefs
  <2>5. ref \in ReviewerRefs(cfg)
    BY <2>4 DEF ReviewerRefs
  <2> QED
    BY <2>3, <2>5 DEF SaveInv, Saving
<1> QED
  BY <1>1, SpecSaves, PTL DEF SessionSpec, ReviewerKeysSpared

-----------------------------------------------------------------------------
(* Maps and configurations.                                                *)

IsMap(f) == f = [x \in DOMAIN f |-> f[x]]

LEMMA MapsAre ==
  ASSUME NEW names, NEW values, NEW f
  PROVE  f \in Maps(names, values) <=>
           IsMap(f) /\ DOMAIN f \subseteq names /\ \A x \in DOMAIN f : f[x] \in values
<1>1. ASSUME f \in Maps(names, values)
      PROVE  IsMap(f) /\ DOMAIN f \subseteq names /\ \A x \in DOMAIN f : f[x] \in values
  <2>1. PICK set \in SUBSET names : f \in [set -> values]
    BY <1>1 DEF Maps
  <2> QED
    BY <2>1 DEF IsMap
<1>2. ASSUME IsMap(f), DOMAIN f \subseteq names, \A x \in DOMAIN f : f[x] \in values
      PROVE  f \in Maps(names, values)
  <2>1. f \in [DOMAIN f -> values] /\ DOMAIN f \in SUBSET names
    BY <1>2 DEF IsMap
  <2> QED
    BY <2>1 DEF Maps
<1> QED
  BY <1>1, <1>2

LEMMA WithIs ==
  ASSUME NEW f, NEW x, NEW v
  PROVE  /\ IsMap(With(f, x, v)) /\ DOMAIN With(f, x, v) = DOMAIN f \cup {x}
         /\ With(f, x, v)[x] = v
         /\ \A y \in DOMAIN f \ {x} : With(f, x, v)[y] = f[y]
BY DEF With, IsMap

LEMMA WithoutIs ==
  ASSUME NEW f, NEW x
  PROVE  /\ IsMap(Without(f, x)) /\ DOMAIN Without(f, x) = DOMAIN f \ {x}
         /\ \A y \in DOMAIN f \ {x} : Without(f, x)[y] = f[y]
BY DEF Without, IsMap

LEMMA MapsEqual ==
  ASSUME NEW f, NEW g, IsMap(f), IsMap(g), DOMAIN f = DOMAIN g, \A x \in DOMAIN f : f[x] = g[x]
  PROVE  f = g
BY DEF IsMap

(* What is taken out and put back leaves the map as it was.                  *)
LEMMA PutBack ==
  ASSUME NEW f, IsMap(f), NEW x
  PROVE  /\ x \in DOMAIN f => With(Without(f, x), x, f[x]) = f
         /\ x \notin DOMAIN f => Without(f, x) = f
<1>1. ASSUME x \in DOMAIN f PROVE With(Without(f, x), x, f[x]) = f
  <2> DEFINE w == Without(f, x)
             b == With(w, x, f[x])
  <2>1. DOMAIN w = DOMAIN f \ {x} /\ \A y \in DOMAIN f \ {x} : w[y] = f[y]
    BY WithoutIs
  <2>2. /\ IsMap(b) /\ DOMAIN b = DOMAIN w \cup {x} /\ b[x] = f[x]
        /\ \A y \in DOMAIN w \ {x} : b[y] = w[y]
    <3> HIDE DEF w
    <3> QED
      BY DEF With, IsMap
  <2> HIDE DEF w, b
  <2>3. DOMAIN b = DOMAIN f /\ \A y \in DOMAIN b : b[y] = f[y]
    BY <1>1, <2>1, <2>2
  <2>4. b = f
    BY <2>2, <2>3, MapsEqual
  <2> QED
    BY <2>4 DEF b, w
<1>2. ASSUME x \notin DOMAIN f PROVE Without(f, x) = f
  <2> DEFINE w == Without(f, x)
  <2>1. IsMap(w) /\ DOMAIN w = DOMAIN f \ {x} /\ \A y \in DOMAIN f \ {x} : w[y] = f[y]
    BY WithoutIs
  <2> HIDE DEF w
  <2>2. w = f
    BY <1>2, <2>1, MapsEqual
  <2> QED
    BY <2>2 DEF w
<1> QED
  BY <1>1, <1>2

LEMMA MapsWith ==
  ASSUME NEW names, NEW values, NEW f \in Maps(names, values), NEW x \in names, NEW v \in values
  PROVE  With(f, x, v) \in Maps(names, values)
<1> DEFINE w == With(f, x, v)
<1>1. /\ IsMap(w) /\ DOMAIN w = DOMAIN f \cup {x} /\ w[x] = v
      /\ \A y \in DOMAIN f \ {x} : w[y] = f[y]
  BY DEF With, IsMap
<1>2. DOMAIN f \subseteq names /\ \A y \in DOMAIN f : f[y] \in values
  BY MapsAre
<1> HIDE DEF w
<1>3. w \in Maps(names, values)
  BY <1>1, <1>2, MapsAre
<1> QED
  BY <1>3 DEF w

LEMMA MapsWithout ==
  ASSUME NEW names, NEW values, NEW f \in Maps(names, values), NEW x
  PROVE  Without(f, x) \in Maps(names, values)
<1> DEFINE w == Without(f, x)
<1>1. IsMap(w) /\ DOMAIN w = DOMAIN f \ {x} /\ \A y \in DOMAIN f \ {x} : w[y] = f[y]
  BY WithoutIs
<1>2. DOMAIN f \subseteq names /\ \A y \in DOMAIN f : f[y] \in values
  BY MapsAre
<1> HIDE DEF w
<1>3. w \in Maps(names, values)
  BY <1>1, <1>2, MapsAre
<1> QED
  BY <1>3 DEF w

LEMMA ConfigIs ==
  ASSUME NEW c \in Config
  PROVE  /\ c.access \in Maps(AccessNames, AccessValues)
         /\ c.entity \in Maps(EntityNames, EntityValues)
         /\ c.runtime \in Maps(RuntimeNames, LLMs)
         /\ c.profile \in Maps(Profiles, Profile)
         /\ c.routes \subseteq Profiles
         /\ DOMAIN c.access \subseteq AccessNames /\ \A x \in DOMAIN c.access : c.access[x] \in AccessValues
         /\ DOMAIN c.entity \subseteq EntityNames /\ \A x \in DOMAIN c.entity : c.entity[x] \in EntityValues
         /\ DOMAIN c.runtime \subseteq RuntimeNames /\ \A x \in DOMAIN c.runtime : c.runtime[x] \in LLMs
         /\ DOMAIN c.profile \subseteq Profiles /\ \A x \in DOMAIN c.profile : c.profile[x] \in Profile
BY MapsAre DEF Config

LEMMA ProfileIs ==
  ASSUME NEW f \in Profile
  PROVE  /\ f.access \in AccessNames /\ f.git \in AccessValues /\ f.reviewer \in EntityNames \cup {None}
         /\ f.creds \in EntityValues \cup {None} /\ f.runtime \in RuntimeNames
         /\ f.llm \in LLMs \cup {None}
BY DEF Profile

LEMMA RefreshedIs ==
  ASSUME NEW c \in Config, NEW f \in Profile
  PROVE  /\ Refreshed(c, f) \in Profile
         /\ Refreshed(c, f).access = f.access /\ Refreshed(c, f).reviewer = f.reviewer
         /\ Refreshed(c, f).runtime = f.runtime
         /\ Refreshed(c, f).git = Find(c.access, f.access, f.git)
         /\ Refreshed(c, f).creds = IF f.reviewer = None THEN None ELSE Find(c.entity, f.reviewer, f.creds)
         /\ Refreshed(c, f).llm = Find(c.runtime, f.runtime, f.llm)
<1>1. /\ Refreshed(c, f).access = f.access /\ Refreshed(c, f).reviewer = f.reviewer
      /\ Refreshed(c, f).runtime = f.runtime
      /\ Refreshed(c, f).git = Find(c.access, f.access, f.git)
      /\ Refreshed(c, f).creds = IF f.reviewer = None THEN None ELSE Find(c.entity, f.reviewer, f.creds)
      /\ Refreshed(c, f).llm = Find(c.runtime, f.runtime, f.llm)
  BY DEF Refreshed, Profile
<1>2. /\ Find(c.access, f.access, f.git) \in AccessValues
      /\ Find(c.entity, f.reviewer, f.creds) \in EntityValues \cup {None}
      /\ Find(c.runtime, f.runtime, f.llm) \in LLMs \cup {None}
  BY ConfigIs, ProfileIs DEF Find
<1>3. Refreshed(c, f) \in Profile
  BY <1>2 DEF Refreshed, Profile
<1> QED
  BY <1>1, <1>3

LEMMA NormalizedIs ==
  ASSUME NEW c \in Config
  PROVE  /\ Normalized(c) \in Config
         /\ Normalized(c).access = c.access /\ Normalized(c).entity = c.entity
         /\ Normalized(c).runtime = c.runtime /\ Normalized(c).routes = c.routes
         /\ DOMAIN Normalized(c).profile = DOMAIN c.profile
         /\ \A p \in DOMAIN c.profile : Normalized(c).profile[p] = Refreshed(c, c.profile[p])
<1> DEFINE parts == [p \in DOMAIN c.profile |-> Refreshed(c, c.profile[p])]
<1>1. parts \in Maps(Profiles, Profile)
  BY ConfigIs, RefreshedIs, MapsAre DEF IsMap
<1>2. Normalized(c) = [c EXCEPT !.profile = parts]
  BY DEF Normalized
<1> HIDE DEF parts
<1>3. Normalized(c) \in Config
  BY <1>1, <1>2 DEF Config
<1>4. /\ Normalized(c).access = c.access /\ Normalized(c).entity = c.entity
      /\ Normalized(c).runtime = c.runtime /\ Normalized(c).routes = c.routes
      /\ Normalized(c).profile = parts
  BY <1>2 DEF Config
<1> QED
  BY <1>3, <1>4 DEF parts

(* Two profiles with the same parts, and two configurations with the same.   *)
LEMMA ProfilesEqual ==
  ASSUME NEW f \in Profile, NEW g \in Profile,
         f.access = g.access, f.git = g.git, f.reviewer = g.reviewer, f.creds = g.creds,
         f.runtime = g.runtime, f.llm = g.llm
  PROVE  f = g
BY DEF Profile

LEMMA ConfigsEqual ==
  ASSUME NEW c \in Config, NEW d \in Config,
         c.access = d.access, c.entity = d.entity, c.runtime = d.runtime, c.routes = d.routes,
         c.profile = d.profile
  PROVE  c = d
BY DEF Config

-----------------------------------------------------------------------------
(* Likeness: the same but for copies that one has refreshed.               *)

LikeProfile(f, g, h) ==
  /\ f.access = g.access /\ f.reviewer = g.reviewer /\ f.runtime = g.runtime
  /\ f.git \in {g.git, h.git} /\ f.creds \in {g.creds, h.creds} /\ f.llm \in {g.llm, h.llm}

Like(c, d) ==
  /\ c.access = d.access /\ c.entity = d.entity /\ c.runtime = d.runtime /\ c.routes = d.routes
  /\ DOMAIN c.profile = DOMAIN d.profile
  /\ \A p \in DOMAIN d.profile :
       LikeProfile(c.profile[p], d.profile[p], Refreshed(d, d.profile[p]))

LEMMA LikeItself == ASSUME NEW c PROVE Like(c, c)
BY DEF Like, LikeProfile

(* Like profiles have like refreshed copies.                                 *)
LEMMA LikeRefreshed ==
  ASSUME NEW c \in Config, NEW d \in Config, Like(c, d), NEW p \in DOMAIN d.profile
  PROVE  Refreshed(c, c.profile[p]) = Refreshed(d, d.profile[p])
<1> DEFINE f == c.profile[p]
           g == d.profile[p]
<1>1. f \in Profile /\ g \in Profile
  BY ConfigIs DEF Like
<1>2. LikeProfile(f, g, Refreshed(d, g)) /\ c.access = d.access /\ c.entity = d.entity
      /\ c.runtime = d.runtime
  BY DEF Like
<1> HIDE DEF f, g
<1>3. /\ Refreshed(d, g) \in Profile
      /\ Refreshed(d, g).access = g.access /\ Refreshed(d, g).reviewer = g.reviewer
      /\ Refreshed(d, g).runtime = g.runtime
      /\ Refreshed(d, g).git = Find(d.access, g.access, g.git)
      /\ Refreshed(d, g).creds = IF g.reviewer = None THEN None ELSE Find(d.entity, g.reviewer, g.creds)
      /\ Refreshed(d, g).llm = Find(d.runtime, g.runtime, g.llm)
  BY <1>1, RefreshedIs
<1>4. /\ Refreshed(c, f) \in Profile
      /\ Refreshed(c, f).access = f.access /\ Refreshed(c, f).reviewer = f.reviewer
      /\ Refreshed(c, f).runtime = f.runtime
      /\ Refreshed(c, f).git = Find(c.access, f.access, f.git)
      /\ Refreshed(c, f).creds = IF f.reviewer = None THEN None ELSE Find(c.entity, f.reviewer, f.creds)
      /\ Refreshed(c, f).llm = Find(c.runtime, f.runtime, f.llm)
  BY <1>1, RefreshedIs
<1>5. Refreshed(c, f).git = Refreshed(d, g).git
  BY <1>2, <1>3, <1>4 DEF Find, LikeProfile
<1>6. Refreshed(c, f).creds = Refreshed(d, g).creds
  BY <1>2, <1>3, <1>4 DEF Find, LikeProfile
<1>7. Refreshed(c, f).llm = Refreshed(d, g).llm
  BY <1>2, <1>3, <1>4 DEF Find, LikeProfile
<1>8. Refreshed(c, f) = Refreshed(d, g)
  BY <1>2, <1>3, <1>4, <1>5, <1>6, <1>7, ProfilesEqual DEF LikeProfile
<1> QED
  BY <1>8 DEF f, g

(* Like configurations are the same when they are normalised.                *)
LEMMA LikeNormal ==
  ASSUME NEW c \in Config, NEW d \in Config, Like(c, d)
  PROVE  Normalized(c) = Normalized(d)
<1>1. DOMAIN c.profile = DOMAIN d.profile /\ c.access = d.access /\ c.entity = d.entity
      /\ c.runtime = d.runtime /\ c.routes = d.routes
  BY DEF Like
<1>2. \A p \in DOMAIN d.profile : Normalized(c).profile[p] = Normalized(d).profile[p]
  BY <1>1, LikeRefreshed, NormalizedIs
<1>3. IsMap(Normalized(c).profile) /\ IsMap(Normalized(d).profile)
  BY NormalizedIs, ConfigIs, MapsAre
<1>4. Normalized(c).profile = Normalized(d).profile
  <2> DEFINE m == Normalized(c).profile
             n == Normalized(d).profile
  <2>1. DOMAIN m = DOMAIN n /\ IsMap(m) /\ IsMap(n) /\ \A p \in DOMAIN m : m[p] = n[p]
    BY <1>1, <1>2, <1>3, NormalizedIs
  <2> HIDE DEF m, n
  <2>2. m = n
    BY <2>1, MapsEqual
  <2> QED
    BY <2>2 DEF m, n
<1> QED
  BY <1>1, <1>4, NormalizedIs, ConfigsEqual

LEMMA LikeTrans ==
  ASSUME NEW b \in Config, NEW c \in Config, NEW d \in Config, Like(b, c), Like(c, d)
  PROVE  Like(b, d)
<1>1. ASSUME NEW p \in DOMAIN d.profile
      PROVE  LikeProfile(b.profile[p], d.profile[p], Refreshed(d, d.profile[p]))
  <2>1. LikeProfile(c.profile[p], d.profile[p], Refreshed(d, d.profile[p]))
    BY DEF Like
  <2>2. p \in DOMAIN c.profile /\ Refreshed(c, c.profile[p]) = Refreshed(d, d.profile[p])
    BY LikeRefreshed DEF Like
  <2>3. LikeProfile(b.profile[p], c.profile[p], Refreshed(d, d.profile[p]))
    BY <2>2 DEF Like
  <2> QED
    BY <2>1, <2>3 DEF LikeProfile
<1> QED
  BY <1>1 DEF Like

-----------------------------------------------------------------------------
(* What a deletion does to a configuration, and what it keeps to undo it.  *)

ProfileGone(p, gone, c, n) ==
  /\ p \in DOMAIN c.profile
  /\ gone.profile = c.profile[p] /\ gone.routed = (p \in c.routes)
  /\ n = [c EXCEPT !.profile = Without(@, p), !.routes = @ \ {p}]

AccessGone(a, gone, c, n) ==
  /\ a \in DOMAIN c.access /\ gone.value = c.access[a]
  /\ \A p \in DOMAIN c.profile : c.profile[p].access \in DOMAIN c.access \ {a}
  /\ n = Normalized([c EXCEPT !.access = Without(@, a)])

EntityGone(e, gone, c, n) ==
  LET now == Normalized(c) IN
  /\ e \in EntityNames
  /\ gone.value = Find(c.entity, e, None)
  /\ DOMAIN gone.affected = {p \in DOMAIN c.profile : c.profile[p].reviewer = e}
  /\ \A p \in DOMAIN gone.affected : gone.affected[p] = now.profile[p].creds
  /\ n = [now EXCEPT
            !.entity  = Without(@, e),
            !.profile = [p \in DOMAIN @ |-> IF p \in DOMAIN gone.affected
                           THEN [@[p] EXCEPT !.reviewer = None, !.creds = None]
                           ELSE @[p]]]

(* A replacement that was added has a name of its own: not the deleted one,  *)
(* and none that a profile bears.                                            *)
RuntimeGone(r, gone, c, n) ==
  LET now    == Normalized(c)
      others == Without(c.runtime, r)
  IN
  /\ gone.value = Find(c.runtime, r, None) /\ gone.by # r
  /\ DOMAIN gone.affected \subseteq DOMAIN c.profile
  /\ \A p \in DOMAIN gone.affected : gone.affected[p] = now.profile[p]
  /\ r \in DOMAIN c.runtime =>
       \A p \in DOMAIN c.profile : c.profile[p].runtime = r => p \in DOMAIN gone.affected
  /\ gone.added => /\ gone.by \notin DOMAIN c.runtime
                   /\ \A p \in DOMAIN c.profile : c.profile[p].runtime # gone.by
  /\ ~gone.added /\ gone.by \in DOMAIN c.runtime => gone.copy = c.runtime[gone.by]
  /\ n = [now EXCEPT
            !.runtime = IF gone.added THEN With(others, gone.by, gone.copy) ELSE others,
            !.profile = [p \in DOMAIN @ |-> IF p \in DOMAIN gone.affected
                           THEN [@[p] EXCEPT !.runtime = gone.by, !.llm = gone.copy]
                           ELSE @[p]]]

(* What undoing it makes of a configuration.                                 *)
ProfileBack(p, gone, c) ==
  [c EXCEPT !.profile = With(@, p, gone.profile),
            !.routes  = IF gone.routed THEN @ \cup {p} ELSE @]

AccessBack(a, gone, c) == Normalized([c EXCEPT !.access = With(@, a, gone.value)])

EntityBack(e, gone, c) ==
  LET back == {p \in DOMAIN gone.affected \cap DOMAIN c.profile : c.profile[p].reviewer = None} IN
  [c EXCEPT !.entity  = IF gone.value = None THEN @ ELSE With(@, e, gone.value),
            !.profile = [p \in DOMAIN @ |-> IF p \in back
                           THEN [@[p] EXCEPT !.reviewer = e, !.creds = gone.affected[p]]
                           ELSE @[p]]]

RuntimeBack(r, gone, c) ==
  LET back == {p \in DOMAIN gone.affected \cap DOMAIN c.profile : c.profile[p].llm = gone.copy}
      profile == [p \in DOMAIN c.profile |->
                    IF p \in back
                    THEN [c.profile[p] EXCEPT !.runtime = gone.affected[p].runtime,
                                              !.llm = gone.affected[p].llm]
                    ELSE c.profile[p]]
      restored == IF gone.value = None THEN c.runtime ELSE With(c.runtime, r, gone.value)
      unused   == gone.added /\ \A p \in DOMAIN profile : profile[p].runtime # gone.by
  IN [c EXCEPT !.profile = profile,
               !.runtime = IF unused THEN Without(restored, gone.by) ELSE restored]

LEMMA ProfileComesBack ==
  ASSUME NEW c \in Config, NEW d \in Config, NEW n \in Config, NEW p, NEW gone,
         ProfileGone(p, gone, d, n), Like(c, n)
  PROVE  Like(ProfileBack(p, gone, c), d)
<1> DEFINE b == ProfileBack(p, gone, c)
<1>1. /\ n.access = d.access /\ n.entity = d.entity /\ n.runtime = d.runtime
      /\ n.profile = Without(d.profile, p) /\ n.routes = d.routes \ {p}
      /\ p \in DOMAIN d.profile /\ gone.profile = d.profile[p]
      /\ gone.routed <=> p \in d.routes
  <2>1. n = [d EXCEPT !.profile = Without(@, p), !.routes = @ \ {p}]
    BY DEF ProfileGone
  <2>2. p \in DOMAIN d.profile /\ gone.profile = d.profile[p]
    BY DEF ProfileGone
  <2>3. gone.routed <=> p \in d.routes
    BY Zenon DEF ProfileGone
  <2> QED
    BY <2>1, <2>2, <2>3 DEF Config
<1>2. /\ DOMAIN n.profile = DOMAIN d.profile \ {p}
      /\ \A q \in DOMAIN d.profile \ {p} : n.profile[q] = d.profile[q]
  <2>1. n.profile = Without(d.profile, p)
    BY <1>1
  <2> QED
    BY <2>1 DEF Without
<1>3. /\ c.access = d.access /\ c.entity = d.entity /\ c.runtime = d.runtime
      /\ c.routes = d.routes \ {p} /\ DOMAIN c.profile = DOMAIN d.profile \ {p}
  BY <1>1, <1>2 DEF Like
<1>4. /\ b.access = c.access /\ b.entity = c.entity /\ b.runtime = c.runtime
      /\ b.profile = With(c.profile, p, d.profile[p])
      /\ b.routes = IF p \in d.routes THEN c.routes \cup {p} ELSE c.routes
  BY <1>1 DEF ProfileBack, Config
<1>5. /\ DOMAIN b.profile = DOMAIN d.profile /\ b.profile[p] = d.profile[p]
      /\ \A q \in DOMAIN d.profile \ {p} : b.profile[q] = c.profile[q]
  BY <1>1, <1>3, <1>4 DEF With
<1>6. b.routes = d.routes
  BY <1>3, <1>4
<1> HIDE DEF b
<1>7. ASSUME NEW q \in DOMAIN d.profile
      PROVE  LikeProfile(b.profile[q], d.profile[q], Refreshed(d, d.profile[q]))
  <2>1. CASE q = p
    BY <1>5, <2>1 DEF LikeProfile
  <2>2. CASE q # p
    <3>1. LikeProfile(c.profile[q], d.profile[q], Refreshed(n, d.profile[q]))
      BY <1>2, <2>2 DEF Like
    <3>2. d.profile[q] \in Profile
      BY ConfigIs
    <3>3. Refreshed(n, d.profile[q]) = Refreshed(d, d.profile[q])
      BY <1>1 DEF Refreshed
    <3> QED
      BY <1>5, <2>2, <3>1, <3>3
  <2> QED
    BY <2>1, <2>2
<1>8. Like(b, d)
  BY <1>3, <1>4, <1>5, <1>6, <1>7 DEF Like
<1> QED
  BY <1>8 DEF b

LEMMA AccessComesBack ==
  ASSUME NEW c \in Config, NEW d \in Config, NEW n \in Config, NEW a, NEW gone,
         AccessGone(a, gone, d, n), Like(c, n)
  PROVE  Like(AccessBack(a, gone, c), d)
<1> DEFINE m == [d EXCEPT !.access = Without(@, a)]
           k == [c EXCEPT !.access = With(@, a, gone.value)]
           b == AccessBack(a, gone, c)
<1>1. a \in DOMAIN d.access /\ gone.value = d.access[a] /\ IsMap(d.access)
  BY ConfigIs, MapsAre DEF AccessGone
<1>2. m \in Config
  BY ConfigIs, MapsWithout DEF Config
<1>3. m.access = Without(d.access, a) /\ m.entity = d.entity /\ m.runtime = d.runtime
      /\ m.profile = d.profile /\ m.routes = d.routes
  BY DEF Config
<1>4. n = Normalized(m)
  BY DEF AccessGone
<1> HIDE DEF m
<1>5. /\ n.access = m.access /\ n.entity = d.entity /\ n.runtime = d.runtime /\ n.routes = d.routes
      /\ DOMAIN n.profile = DOMAIN d.profile
      /\ \A p \in DOMAIN d.profile : n.profile[p] = Refreshed(m, d.profile[p])
  BY <1>2, <1>3, <1>4, NormalizedIs
<1>6. /\ c.access = Without(d.access, a) /\ c.entity = d.entity /\ c.runtime = d.runtime
      /\ c.routes = d.routes /\ DOMAIN c.profile = DOMAIN d.profile
  BY <1>3, <1>5 DEF Like
<1>7. k \in Config
  <2>1. a \in AccessNames /\ gone.value \in AccessValues
    BY <1>1, ConfigIs
  <2>2. With(c.access, a, gone.value) \in Maps(AccessNames, AccessValues)
    BY <2>1, ConfigIs, MapsWith
  <2> QED
    BY <2>2 DEF Config
<1>8. k.access = d.access /\ k.entity = d.entity /\ k.runtime = d.runtime
      /\ k.profile = c.profile /\ k.routes = d.routes
  BY <1>1, <1>6, PutBack DEF Config
<1>9. b = Normalized(k)
  BY DEF AccessBack
<1> HIDE DEF k, b
<1>10. /\ b.access = d.access /\ b.entity = d.entity /\ b.runtime = d.runtime /\ b.routes = d.routes
       /\ DOMAIN b.profile = DOMAIN d.profile
       /\ \A p \in DOMAIN d.profile : b.profile[p] = Refreshed(k, c.profile[p])
  BY <1>6, <1>7, <1>8, <1>9, NormalizedIs
<1>11. ASSUME NEW p \in DOMAIN d.profile
       PROVE  LikeProfile(b.profile[p], d.profile[p], Refreshed(d, d.profile[p]))
  <2> DEFINE f == c.profile[p]
             g == d.profile[p]
             h == n.profile[p]
             t == Refreshed(n, h)
  <2>1. f \in Profile /\ g \in Profile /\ h \in Profile /\ g.access \in DOMAIN d.access
    BY <1>5, <1>6, ConfigIs DEF AccessGone
  <2>2. h = Refreshed(m, g) /\ b.profile[p] = Refreshed(k, f)
    BY <1>5, <1>10
  <2>3. LikeProfile(f, h, t)
    BY <1>5 DEF Like
  <2> HIDE DEF f, g, h
  <2>4. /\ Refreshed(m, g).access = g.access /\ Refreshed(m, g).reviewer = g.reviewer
        /\ Refreshed(m, g).runtime = g.runtime
        /\ Refreshed(m, g).creds = IF g.reviewer = None THEN None ELSE Find(d.entity, g.reviewer, g.creds)
        /\ Refreshed(m, g).llm = Find(d.runtime, g.runtime, g.llm)
    BY <1>2, <1>3, <2>1, RefreshedIs
  <2>5. /\ Refreshed(d, g).access = g.access /\ Refreshed(d, g).reviewer = g.reviewer
        /\ Refreshed(d, g).runtime = g.runtime
        /\ Refreshed(d, g).git = Find(d.access, g.access, g.git)
        /\ Refreshed(d, g).creds = IF g.reviewer = None THEN None ELSE Find(d.entity, g.reviewer, g.creds)
        /\ Refreshed(d, g).llm = Find(d.runtime, g.runtime, g.llm)
    BY <2>1, RefreshedIs
  <2>6. /\ t.creds = IF h.reviewer = None THEN None ELSE Find(d.entity, h.reviewer, h.creds)
        /\ t.llm = Find(d.runtime, h.runtime, h.llm)
    BY <1>5, <2>1, RefreshedIs
  <2>7. /\ Refreshed(k, f).access = f.access /\ Refreshed(k, f).reviewer = f.reviewer
        /\ Refreshed(k, f).runtime = f.runtime
        /\ Refreshed(k, f).git = Find(d.access, f.access, f.git)
        /\ Refreshed(k, f).creds = IF f.reviewer = None THEN None ELSE Find(d.entity, f.reviewer, f.creds)
        /\ Refreshed(k, f).llm = Find(d.runtime, f.runtime, f.llm)
    BY <1>7, <1>8, <2>1, RefreshedIs
  <2> HIDE DEF t
  <2>8. f.access = g.access /\ f.reviewer = g.reviewer /\ f.runtime = g.runtime
    BY <2>2, <2>3, <2>4 DEF LikeProfile
  <2>9. Refreshed(k, f).git = Refreshed(d, g).git
    BY <2>1, <2>5, <2>7, <2>8 DEF Find
  <2>10. Refreshed(k, f).creds = Refreshed(d, g).creds
    BY <2>2, <2>3, <2>4, <2>5, <2>6, <2>7, <2>8 DEF Find, LikeProfile
  <2>11. Refreshed(k, f).llm = Refreshed(d, g).llm
    BY <2>2, <2>3, <2>4, <2>5, <2>6, <2>7, <2>8 DEF Find, LikeProfile
  <2>12. LikeProfile(b.profile[p], g, Refreshed(d, g))
    BY <2>2, <2>7, <2>8, <2>9, <2>10, <2>11 DEF LikeProfile
  <2> QED
    BY <2>12 DEF g
<1>12. Like(b, d)
  BY <1>10, <1>11 DEF Like
<1> QED
  BY <1>12 DEF b

LEMMA EntityComesBack ==
  ASSUME NEW c \in Config, NEW d \in Config, NEW n \in Config, NEW e, NEW gone,
         EntityGone(e, gone, d, n), Like(c, n)
  PROVE  Like(EntityBack(e, gone, c), d)
<1> USE InitSessionAssumption
<1> DEFINE b    == EntityBack(e, gone, c)
           now  == Normalized(d)
           kept == Without(d.entity, e)
<1>1. /\ e \in EntityNames /\ e # None /\ gone.value = Find(d.entity, e, None) /\ IsMap(d.entity)
      /\ DOMAIN gone.affected = {p \in DOMAIN d.profile : d.profile[p].reviewer = e}
      /\ \A p \in DOMAIN gone.affected : gone.affected[p] = now.profile[p].creds
  BY ConfigIs, MapsAre DEF EntityGone
<1>2. /\ now \in Config /\ now.access = d.access /\ now.entity = d.entity
      /\ now.runtime = d.runtime /\ now.routes = d.routes
      /\ DOMAIN now.profile = DOMAIN d.profile
      /\ \A p \in DOMAIN d.profile : now.profile[p] = Refreshed(d, d.profile[p])
  BY NormalizedIs
<1>3. n = [now EXCEPT
             !.entity  = Without(@, e),
             !.profile = [p \in DOMAIN @ |-> IF p \in DOMAIN gone.affected
                            THEN [@[p] EXCEPT !.reviewer = None, !.creds = None]
                            ELSE @[p]]]
  BY DEF EntityGone
<1> HIDE DEF now
<1>4. /\ n.access = d.access /\ n.entity = kept /\ n.runtime = d.runtime /\ n.routes = d.routes
      /\ DOMAIN n.profile = DOMAIN d.profile
      /\ \A p \in DOMAIN d.profile :
           n.profile[p] = IF p \in DOMAIN gone.affected
                          THEN [now.profile[p] EXCEPT !.reviewer = None, !.creds = None]
                          ELSE now.profile[p]
  BY <1>2, <1>3 DEF Config
<1>5. /\ c.access = d.access /\ c.entity = kept /\ c.runtime = d.runtime
      /\ c.routes = d.routes /\ DOMAIN c.profile = DOMAIN d.profile
  BY <1>4 DEF Like
<1>6. \A p \in DOMAIN d.profile :
        /\ c.profile[p] \in Profile /\ d.profile[p] \in Profile
        /\ now.profile[p] \in Profile /\ n.profile[p] \in Profile
  BY <1>2, <1>4, <1>5, ConfigIs
<1>7. /\ b.access = d.access /\ b.runtime = d.runtime /\ b.routes = d.routes
      /\ b.entity = IF gone.value = None THEN kept ELSE With(kept, e, gone.value)
      /\ DOMAIN b.profile = DOMAIN d.profile
      /\ \A p \in DOMAIN d.profile :
           b.profile[p] = IF p \in DOMAIN gone.affected /\ c.profile[p].reviewer = None
                          THEN [c.profile[p] EXCEPT !.reviewer = e, !.creds = gone.affected[p]]
                          ELSE c.profile[p]
  BY <1>1, <1>5 DEF EntityBack, Config
<1>8. b.entity = d.entity
  <2>1. CASE e \in DOMAIN d.entity
    <3>1. gone.value = d.entity[e] /\ gone.value # None
      BY <1>1, <2>1, ConfigIs DEF Find
    <3>2. b.entity = With(Without(d.entity, e), e, d.entity[e])
      BY <1>7, <3>1
    <3> QED
      BY <1>1, <2>1, <3>2, PutBack
  <2>2. CASE e \notin DOMAIN d.entity
    <3>1. gone.value = None
      BY <1>1, <2>2 DEF Find
    <3> QED
      BY <1>1, <1>7, <2>2, <3>1, PutBack
  <2> QED
    BY <2>1, <2>2
<1>9. /\ DOMAIN kept = DOMAIN d.entity \ {e}
      /\ \A x \in DOMAIN d.entity \ {e} : kept[x] = d.entity[x]
  BY WithoutIs
<1> HIDE DEF b, kept
<1>10. ASSUME NEW p \in DOMAIN d.profile
       PROVE  LikeProfile(b.profile[p], d.profile[p], Refreshed(d, d.profile[p]))
  <2> DEFINE f == c.profile[p]
             g == d.profile[p]
             h == n.profile[p]
             w == now.profile[p]
             t == Refreshed(n, h)
  <2>1. f \in Profile /\ g \in Profile /\ h \in Profile /\ w \in Profile
    BY <1>6
  <2>2. /\ w = Refreshed(d, g) /\ LikeProfile(f, h, t)
        /\ h = IF p \in DOMAIN gone.affected THEN [w EXCEPT !.reviewer = None, !.creds = None] ELSE w
        /\ b.profile[p] = IF p \in DOMAIN gone.affected /\ f.reviewer = None
                          THEN [f EXCEPT !.reviewer = e, !.creds = gone.affected[p]]
                          ELSE f
        /\ p \in DOMAIN gone.affected <=> g.reviewer = e
        /\ p \in DOMAIN gone.affected => gone.affected[p] = w.creds
    BY <1>1, <1>2, <1>4, <1>7 DEF Like
  <2> HIDE DEF f, g, h, w
  <2>3. /\ w.access = g.access /\ w.reviewer = g.reviewer /\ w.runtime = g.runtime
        /\ w.git = Find(d.access, g.access, g.git)
        /\ w.creds = IF g.reviewer = None THEN None ELSE Find(d.entity, g.reviewer, g.creds)
        /\ w.llm = Find(d.runtime, g.runtime, g.llm)
    BY <2>1, <2>2, RefreshedIs
  <2>4. /\ t.git = Find(d.access, h.access, h.git)
        /\ t.creds = IF h.reviewer = None THEN None ELSE Find(kept, h.reviewer, h.creds)
        /\ t.llm = Find(d.runtime, h.runtime, h.llm)
    <3>1. n.access = d.access /\ n.entity = kept /\ n.runtime = d.runtime
      BY <1>4
    <3>2. /\ t.git = Find(n.access, h.access, h.git)
          /\ t.creds = IF h.reviewer = None THEN None ELSE Find(n.entity, h.reviewer, h.creds)
          /\ t.llm = Find(n.runtime, h.runtime, h.llm)
      BY <2>1, RefreshedIs
    <3> QED
      BY <3>1, <3>2
  <2> HIDE DEF t
  <2>5. /\ h.access = g.access /\ h.runtime = g.runtime /\ h.git = w.git /\ h.llm = w.llm
        /\ g.reviewer = e => h.reviewer = None /\ h.creds = None
        /\ g.reviewer # e => h.reviewer = g.reviewer /\ h.creds = w.creds
    BY <2>1, <2>2, <2>3 DEF Profile
  <2>6. f.git = w.git
    BY <2>2, <2>3, <2>4, <2>5 DEF Find, LikeProfile
  <2>7. f.llm = w.llm
    BY <2>2, <2>3, <2>4, <2>5 DEF Find, LikeProfile
  <2>8. g.reviewer # e => f.creds = w.creds
    BY <1>9, <2>2, <2>3, <2>4, <2>5 DEF Find, LikeProfile
  <2>9. CASE g.reviewer = e
    <3>1. f.reviewer = None
      BY <2>2, <2>5, <2>9 DEF LikeProfile
    <3>2. b.profile[p] = [f EXCEPT !.reviewer = e, !.creds = w.creds]
      BY <2>2, <2>9, <3>1
    <3>3. /\ b.profile[p].access = f.access /\ b.profile[p].git = f.git
          /\ b.profile[p].reviewer = e /\ b.profile[p].creds = w.creds
          /\ b.profile[p].runtime = f.runtime /\ b.profile[p].llm = f.llm
      BY <2>1, <3>2 DEF Profile
    <3> QED
      BY <2>2, <2>3, <2>5, <2>6, <2>7, <2>9, <3>3 DEF LikeProfile, g, w
  <2>10. CASE g.reviewer # e
    <3>1. b.profile[p] = f
      BY <2>2, <2>10
    <3> QED
      BY <2>2, <2>3, <2>5, <2>6, <2>7, <2>8, <2>10, <3>1 DEF LikeProfile, g, w
  <2> QED
    BY <2>9, <2>10
<1>11. Like(b, d)
  BY <1>7, <1>8, <1>10 DEF Like
<1> QED
  BY <1>11 DEF b

LEMMA RuntimeComesBack ==
  ASSUME NEW c \in Config, NEW d \in Config, NEW n \in Config, NEW r, NEW gone,
         RuntimeGone(r, gone, d, n), Like(c, n)
  PROVE  Like(RuntimeBack(r, gone, c), d)
<1> USE InitSessionAssumption
<1> DEFINE b    == RuntimeBack(r, gone, c)
           now  == Normalized(d)
           kept == Without(d.runtime, r)
           rest == IF gone.added THEN With(kept, gone.by, gone.copy) ELSE kept
           lost == DOMAIN gone.affected
<1>1. /\ gone.value = Find(d.runtime, r, None) /\ gone.by # r /\ IsMap(d.runtime)
      /\ lost \subseteq DOMAIN d.profile
      /\ \A p \in lost : gone.affected[p] = now.profile[p]
      /\ r \in DOMAIN d.runtime => \A p \in DOMAIN d.profile : d.profile[p].runtime = r => p \in lost
  BY ConfigIs, MapsAre DEF RuntimeGone
<1>2. /\ gone.added => gone.by \notin DOMAIN d.runtime
      /\ gone.added => \A p \in DOMAIN d.profile : d.profile[p].runtime # gone.by
      /\ ~gone.added /\ gone.by \in DOMAIN d.runtime => gone.copy = d.runtime[gone.by]
  BY DEF RuntimeGone
<1>3. /\ now \in Config /\ now.access = d.access /\ now.entity = d.entity
      /\ now.runtime = d.runtime /\ now.routes = d.routes
      /\ DOMAIN now.profile = DOMAIN d.profile
      /\ \A p \in DOMAIN d.profile : now.profile[p] = Refreshed(d, d.profile[p])
  BY NormalizedIs
<1>4. n = [now EXCEPT
             !.runtime = rest,
             !.profile = [p \in DOMAIN @ |-> IF p \in lost
                            THEN [@[p] EXCEPT !.runtime = gone.by, !.llm = gone.copy]
                            ELSE @[p]]]
  BY DEF RuntimeGone
<1> HIDE DEF now, rest
<1>5. /\ n.access = d.access /\ n.entity = d.entity /\ n.runtime = rest /\ n.routes = d.routes
      /\ DOMAIN n.profile = DOMAIN d.profile
      /\ \A p \in DOMAIN d.profile :
           n.profile[p] = IF p \in lost
                          THEN [now.profile[p] EXCEPT !.runtime = gone.by, !.llm = gone.copy]
                          ELSE now.profile[p]
  BY <1>3, <1>4 DEF Config
<1>6. /\ c.access = d.access /\ c.entity = d.entity /\ c.runtime = rest
      /\ c.routes = d.routes /\ DOMAIN c.profile = DOMAIN d.profile
  BY <1>5 DEF Like
<1>7. \A p \in DOMAIN d.profile :
        /\ c.profile[p] \in Profile /\ d.profile[p] \in Profile
        /\ now.profile[p] \in Profile /\ n.profile[p] \in Profile
  BY <1>3, <1>5, <1>6, ConfigIs
<1> DEFINE restored == IF gone.value = None THEN c.runtime ELSE With(c.runtime, r, gone.value)
           unused   == gone.added /\ \A p \in DOMAIN d.profile : b.profile[p].runtime # gone.by
<1>8. /\ b.access = d.access /\ b.entity = d.entity /\ b.routes = d.routes
      /\ DOMAIN b.profile = DOMAIN d.profile
      /\ \A p \in DOMAIN d.profile :
           b.profile[p] = IF p \in lost /\ c.profile[p].llm = gone.copy
                          THEN [c.profile[p] EXCEPT !.runtime = gone.affected[p].runtime,
                                                    !.llm = gone.affected[p].llm]
                          ELSE c.profile[p]
  BY <1>6 DEF RuntimeBack, Config
<1>9. b.runtime = IF unused THEN Without(restored, gone.by) ELSE restored
  <2> DEFINE back == {p \in lost \cap DOMAIN c.profile : c.profile[p].llm = gone.copy}
             profile == [p \in DOMAIN c.profile |->
                    IF p \in back
                    THEN [c.profile[p] EXCEPT !.runtime = gone.affected[p].runtime,
                                              !.llm = gone.affected[p].llm]
                    ELSE c.profile[p]]
             idle == gone.added /\ \A p \in DOMAIN profile : profile[p].runtime # gone.by
  <2>1. b = [c EXCEPT !.profile = profile,
                      !.runtime = IF idle THEN Without(restored, gone.by) ELSE restored]
    BY DEF RuntimeBack
  <2>2. DOMAIN profile = DOMAIN d.profile
    BY <1>6
  <2> HIDE DEF profile, restored
  <2>3. b.profile = profile /\ b.runtime = IF idle THEN Without(restored, gone.by) ELSE restored
    BY <2>1 DEF Config
  <2> QED
    BY <2>2, <2>3
<1>10. /\ DOMAIN kept = DOMAIN d.runtime \ {r} /\ IsMap(kept)
       /\ \A x \in DOMAIN d.runtime \ {r} : kept[x] = d.runtime[x]
  BY WithoutIs
<1>11. /\ DOMAIN rest = IF gone.added THEN DOMAIN kept \cup {gone.by} ELSE DOMAIN kept
       /\ gone.added => rest[gone.by] = gone.copy
       /\ \A x \in DOMAIN kept : ~gone.added \/ x # gone.by => rest[x] = kept[x]
  BY DEF rest, With
<1> HIDE DEF b, kept
<1>12. ASSUME NEW p \in DOMAIN d.profile
       PROVE  /\ LikeProfile(b.profile[p], d.profile[p], Refreshed(d, d.profile[p]))
              /\ gone.added => b.profile[p].runtime # gone.by
  <2> DEFINE f == c.profile[p]
             g == d.profile[p]
             h == n.profile[p]
             w == now.profile[p]
             t == Refreshed(n, h)
  <2>1. f \in Profile /\ g \in Profile /\ h \in Profile /\ w \in Profile
    BY <1>7
  <2>2. /\ w = Refreshed(d, g) /\ LikeProfile(f, h, t)
        /\ h = IF p \in lost THEN [w EXCEPT !.runtime = gone.by, !.llm = gone.copy] ELSE w
        /\ b.profile[p] = IF p \in lost /\ f.llm = gone.copy
                          THEN [f EXCEPT !.runtime = gone.affected[p].runtime,
                                         !.llm = gone.affected[p].llm]
                          ELSE f
        /\ p \in lost => gone.affected[p] = w
        /\ r \in DOMAIN d.runtime /\ g.runtime = r => p \in lost
        /\ gone.added => g.runtime # gone.by
    BY <1>1, <1>2, <1>3, <1>5, <1>8 DEF Like
  <2> HIDE DEF f, g, h, w
  <2>3. /\ w.access = g.access /\ w.reviewer = g.reviewer /\ w.runtime = g.runtime
        /\ w.git = Find(d.access, g.access, g.git)
        /\ w.creds = IF g.reviewer = None THEN None ELSE Find(d.entity, g.reviewer, g.creds)
        /\ w.llm = Find(d.runtime, g.runtime, g.llm)
    BY <2>1, <2>2, RefreshedIs
  <2>4. /\ t.git = Find(d.access, h.access, h.git)
        /\ t.creds = IF h.reviewer = None THEN None ELSE Find(d.entity, h.reviewer, h.creds)
        /\ t.llm = Find(rest, h.runtime, h.llm)
    <3>1. n.access = d.access /\ n.entity = d.entity /\ n.runtime = rest
      BY <1>5
    <3>2. /\ t.git = Find(n.access, h.access, h.git)
          /\ t.creds = IF h.reviewer = None THEN None ELSE Find(n.entity, h.reviewer, h.creds)
          /\ t.llm = Find(n.runtime, h.runtime, h.llm)
      BY <2>1, RefreshedIs
    <3> QED
      BY <3>1, <3>2
  <2> HIDE DEF t
  <2>5. /\ h.access = g.access /\ h.reviewer = g.reviewer /\ h.git = w.git /\ h.creds = w.creds
        /\ p \in lost => h.runtime = gone.by /\ h.llm = gone.copy
        /\ p \notin lost => h.runtime = g.runtime /\ h.llm = w.llm
    BY <2>1, <2>2, <2>3 DEF Profile
  <2>6. f.git = w.git
    BY <2>2, <2>3, <2>4, <2>5 DEF Find, LikeProfile
  <2>7. f.creds = w.creds
    BY <2>2, <2>3, <2>4, <2>5 DEF Find, LikeProfile
  <2>8. CASE p \in lost
    <3>1. t.llm = gone.copy
      BY <1>1, <1>2, <1>10, <1>11, <2>4, <2>5, <2>8 DEF Find
    <3>2. f.llm = gone.copy
      BY <2>2, <2>5, <2>8, <3>1 DEF LikeProfile
    <3>3. b.profile[p] = [f EXCEPT !.runtime = w.runtime, !.llm = w.llm]
      BY <2>2, <2>8, <3>2
    <3>4. /\ b.profile[p].access = f.access /\ b.profile[p].git = f.git
          /\ b.profile[p].reviewer = f.reviewer /\ b.profile[p].creds = f.creds
          /\ b.profile[p].runtime = w.runtime /\ b.profile[p].llm = w.llm
      BY <2>1, <3>3 DEF Profile
    <3> QED
      BY <2>2, <2>3, <2>5, <2>6, <2>7, <3>4 DEF LikeProfile, g, w
  <2>9. CASE p \notin lost
    <3>1. b.profile[p] = f
      BY <2>2, <2>9
    <3>2. f.runtime = g.runtime
      BY <2>2, <2>5, <2>9 DEF LikeProfile
    <3>3. t.llm = w.llm
      <4>1. t.llm = Find(rest, g.runtime, w.llm)
        BY <2>4, <2>5, <2>9
      <4>2. CASE g.runtime \in DOMAIN rest
        <5>1. g.runtime \in DOMAIN kept /\ rest[g.runtime] = kept[g.runtime]
          BY <1>11, <2>2, <4>2
        <5> QED
          BY <1>10, <2>3, <4>1, <4>2, <5>1 DEF Find
      <4> QED
        BY <4>1, <4>2 DEF Find
    <3>4. f.llm = w.llm
      BY <2>2, <2>5, <2>9, <3>3 DEF LikeProfile
    <3> QED
      BY <2>2, <2>3, <2>5, <2>6, <2>7, <3>1, <3>2, <3>4 DEF LikeProfile, g, w
  <2> QED
    BY <2>8, <2>9
<1>13. b.runtime = d.runtime
  <2>1. restored = IF gone.value = None THEN rest ELSE With(rest, r, gone.value)
    BY <1>6
  <2>2. IF r \in DOMAIN d.runtime THEN gone.value = d.runtime[r] /\ gone.value # None
                                  ELSE gone.value = None
    BY <1>1, ConfigIs DEF Find
  <2>3. /\ r \notin DOMAIN rest
        /\ restored = IF r \in DOMAIN d.runtime THEN With(rest, r, d.runtime[r]) ELSE rest
    BY <1>1, <1>10, <1>11, <2>1, <2>2
  <2>4. IsMap(rest)
    BY <1>10, WithIs DEF rest, With, IsMap
  <2>5. /\ IsMap(restored) /\ DOMAIN restored = DOMAIN rest \cup (DOMAIN d.runtime \cap {r})
        /\ r \in DOMAIN d.runtime => restored[r] = d.runtime[r]
        /\ \A x \in DOMAIN rest : restored[x] = rest[x]
    BY <2>3, <2>4 DEF With, IsMap
  <2> HIDE DEF restored
  <2>6. b.runtime = IF gone.added THEN Without(restored, gone.by) ELSE restored
    BY <1>9, <1>12
  <2>7. CASE gone.added
    <3>1. /\ IsMap(b.runtime) /\ DOMAIN b.runtime = DOMAIN restored \ {gone.by}
          /\ \A x \in DOMAIN restored \ {gone.by} : b.runtime[x] = restored[x]
      BY <2>6, <2>7 DEF Without, IsMap
    <3>2. DOMAIN b.runtime = DOMAIN d.runtime
      BY <1>1, <1>2, <1>10, <1>11, <2>5, <2>7, <3>1
    <3>3. \A x \in DOMAIN b.runtime : b.runtime[x] = d.runtime[x]
      BY <1>1, <1>2, <1>10, <1>11, <2>5, <2>7, <3>1
    <3> QED
      BY <1>1, <3>1, <3>2, <3>3, MapsEqual
  <2>8. CASE ~gone.added
    <3>1. b.runtime = restored
      BY <2>6, <2>8
    <3>2. DOMAIN restored = DOMAIN d.runtime /\ \A x \in DOMAIN restored : restored[x] = d.runtime[x]
      BY <1>1, <1>10, <1>11, <2>5, <2>8
    <3> QED
      BY <1>1, <2>5, <3>1, <3>2, MapsEqual
  <2> QED
    BY <2>7, <2>8
<1>14. Like(b, d)
  BY <1>8, <1>12, <1>13 DEF Like
<1> QED
  BY <1>14 DEF b

-----------------------------------------------------------------------------
(* Staging keeps the configuration well formed.                            *)

LEMMA FirstIs ==
  ASSUME NEW set \in SUBSET Nat, set # {}
  PROVE  First(set) \in set
<1> DEFINE R == OpToRel(<, Nat)
<1>1. IsWellFoundedOn(R, Nat)
  BY NatLessThanWellFounded
<1> HIDE DEF R
<1>2. PICK p \in set : \A q \in set : ~(<<q, p>> \in R)
  BY <1>1, WFMin
<1>3. \A q \in set : p <= q
  <2> TAKE q \in set
  <2>1. ~(q < p)
    BY <1>2 DEF R, OpToRel
  <2> QED
    BY <2>1
<1> QED
  BY <1>3 DEF First

Fits(workspace, c) ==
  \/ workspace = None
  \/ workspace \in [name : Profiles, profile : Profile] /\ workspace.name \in DOMAIN c.profile

LEMMA WorkspaceFits ==
  ASSUME NEW c \in Config, NEW p \in DOMAIN c.profile
  PROVE  Fits(Workspace(c, p), c)
BY ConfigIs DEF Workspace, Fits

LEMMA RebuiltFits ==
  ASSUME NEW c \in Config
  PROVE  Fits(Rebuilt(c), c)
<1>1. DOMAIN c.profile # {} => First(DOMAIN c.profile) \in DOMAIN c.profile
  BY ConfigIs, FirstIs, ConfigFileAssumption
<1> QED
  BY <1>1, WorkspaceFits DEF Rebuilt, Fits

LEMMA MaterializedIn ==
  ASSUME NEW c \in Config, NEW name \in Profiles, NEW previous \in Profile \cup {Blank},
         NEW git \in AccessValues, NEW creds \in EntityValues \cup {None}, NEW llm \in LLMs,
         NEW d \in Materialized(c, name, previous, git, creds, llm)
  PROVE  d \in Config /\ name \in DOMAIN d.profile
<1> USE InitSessionAssumption
<1> DEFINE as == AccessFor(c, previous, git)
           es == EntityFor(c, creds)
           rs == RuntimeFor(c, previous, llm)
<1>0. d \in {Furnished(c, name, git, creds, llm, a, e, r) : a \in as, e \in es, r \in rs}
  BY DEF Materialized
<1>1. PICK a \in as, e \in es, r \in rs : d = Furnished(c, name, git, creds, llm, a, e, r)
  BY <1>0
<1>2. a \in AccessNames
  BY ConfigIs DEF AccessFor, NamesOf
<1>3. e \in EntityNames \cup {None} /\ (e # None => creds \in EntityValues)
  BY ConfigIs DEF EntityFor, NamesOf
<1>4. r \in RuntimeNames
  BY ConfigIs, ProfileIs DEF RuntimeFor, NamesOf, Blank
<1> DEFINE f == [access |-> a, git |-> git, reviewer |-> e, creds |-> creds,
                 runtime |-> r, llm |-> llm]
<1>5. f \in Profile
  BY <1>2, <1>3, <1>4 DEF Profile
<1> HIDE DEF f
<1>6. With(c.access, a, git) \in Maps(AccessNames, AccessValues)
  BY <1>2, ConfigIs, MapsWith
<1>7. (IF e = None THEN c.entity ELSE With(c.entity, e, creds)) \in Maps(EntityNames, EntityValues)
  BY <1>3, ConfigIs, MapsWith
<1>8. With(c.runtime, r, llm) \in Maps(RuntimeNames, LLMs)
  BY <1>4, ConfigIs, MapsWith
<1>9. With(c.profile, name, f) \in Maps(Profiles, Profile) /\ name \in DOMAIN With(c.profile, name, f)
  <2>1. With(c.profile, name, f) \in Maps(Profiles, Profile)
    BY <1>5, ConfigIs, MapsWith
  <2> QED
    BY <2>1 DEF With
<1>10. d = [c EXCEPT
              !.access  = With(@, a, git),
              !.entity  = IF e = None THEN @ ELSE With(@, e, creds),
              !.runtime = With(@, r, llm),
              !.profile = With(@, name, f)]
  BY <1>1 DEF f, Furnished
<1>11. /\ d.access = With(c.access, a, git)
       /\ d.entity = IF e = None THEN c.entity ELSE With(c.entity, e, creds)
       /\ d.runtime = With(c.runtime, r, llm)
       /\ d.profile = With(c.profile, name, f)
       /\ d = [access |-> d.access, entity |-> d.entity, runtime |-> d.runtime,
               profile |-> d.profile, routes |-> c.routes]
  BY <1>10 DEF Config
<1> QED
  BY <1>6, <1>7, <1>8, <1>9, <1>11, ConfigIs DEF Config

LEMMA RenamedIn ==
  ASSUME NEW c \in Config, NEW from \in DOMAIN c.profile, NEW to \in Profiles
  PROVE  Renamed(c, from, to) \in Config
<1>1. c.profile[from] \in Profile /\ from \in Profiles
  BY ConfigIs
<1>2. With(c.profile, to, c.profile[from]) \in Maps(Profiles, Profile)
  BY <1>1, ConfigIs, MapsWith
<1>3. Without(With(c.profile, to, c.profile[from]), from) \in Maps(Profiles, Profile)
  BY <1>2, MapsWithout
<1>4. (IF from \in c.routes THEN (c.routes \ {from}) \cup {to} ELSE c.routes) \in SUBSET Profiles
  BY ConfigIs
<1> QED
  BY <1>3, <1>4 DEF Renamed, Config

LEMMA TouchIn ==
  ASSUME touched \in Maps(Profiles, Profiles \cup {None}),
         NEW name \in Profiles, NEW original \in Profiles \cup {None}, Touch(name, original)
  PROVE  touched' \in Maps(Profiles, Profiles \cup {None})
<1> DEFINE known  == IF original # None THEN Find(touched, original, original) ELSE None
           loaded == IF known = None /\ name \in DOMAIN Loaded("init").profile THEN name ELSE known
           others == IF original \notin {None, name} THEN Without(touched, original) ELSE touched
<1>1. known \in Profiles \cup {None}
  BY MapsAre DEF Find
<1>2. others \in Maps(Profiles, Profiles \cup {None})
  BY MapsWithout
<1>3. touched' = With(others, name, loaded)
  BY DEF Touch
<1>4. loaded \in Profiles \cup {None}
  BY <1>1
<1> HIDE DEF known, loaded, others
<1> QED
  BY <1>2, <1>3, <1>4, MapsWith

-----------------------------------------------------------------------------
(* What a session holds.                                                   *)

Names == Profiles \cup AccessNames \cup EntityNames \cup RuntimeNames

Touches == Maps(Profiles, Profiles \cup {None})

(* What is kept of a deletion, so far as its undoing puts it back.           *)
Held(kind, name, gone) ==
  /\ name \in Names
  /\ kind = "profile" => name \in Profiles /\ gone.profile \in Profile /\ gone.original \in Profiles \cup {None}
  /\ kind = "access" => name \in AccessNames /\ gone.value \in AccessValues
  /\ kind = "entity" => /\ name \in EntityNames /\ gone.value \in EntityValues \cup {None}
                        /\ \A p \in DOMAIN gone.affected : gone.affected[p] \in EntityValues \cup {None}
  /\ kind = "runtime" => /\ name \in RuntimeNames /\ gone.value \in LLMs \cup {None}
                         /\ \A p \in DOMAIN gone.affected : gone.affected[p] \in Profile

Steps == [kind : Kinds, name : Names, cfg : Config, touched : Touches]

Formed == cfg \in Config /\ Fits(active, cfg) /\ touched \in Touches

LEMMA StagingForms ==
  ASSUME Formed,
         \/ \E a \in AccessNames, v \in AccessValues : StageAccess(a, v)
         \/ \E e \in EntityNames, v \in EntityValues : StageEntity(e, v)
         \/ \E r \in RuntimeNames, v \in LLMs : StageRuntime(r, v)
  PROVE  Formed'
<1>1. ASSUME NEW a \in AccessNames, NEW v \in AccessValues, StageAccess(a, v)
      PROVE  Formed'
  <2> DEFINE w == [cfg EXCEPT !.access = With(@, a, v)]
  <2>1. w \in Config
    <3>1. With(cfg.access, a, v) \in Maps(AccessNames, AccessValues)
      BY ConfigIs, MapsWith DEF Formed
    <3> QED
      BY <3>1 DEF Formed, Config
  <2>2. cfg' = Normalized(w) /\ active' = Rebuilt(Normalized(w)) /\ touched' = touched
    BY <1>1 DEF StageAccess
  <2> HIDE DEF w
  <2> QED
    BY <2>1, <2>2, NormalizedIs, RebuiltFits DEF Formed
<1>2. ASSUME NEW e \in EntityNames, NEW v \in EntityValues, StageEntity(e, v)
      PROVE  Formed'
  <2> DEFINE w == [cfg EXCEPT !.entity = With(@, e, v)]
  <2>1. w \in Config /\ w.profile = cfg.profile
    <3>1. With(cfg.entity, e, v) \in Maps(EntityNames, EntityValues)
      BY ConfigIs, MapsWith DEF Formed
    <3> QED
      BY <3>1 DEF Formed, Config
  <2>2. cfg' = Normalized(w) /\ active' = active /\ touched' = touched
    BY <1>2 DEF StageEntity
  <2> HIDE DEF w
  <2> QED
    BY <2>1, <2>2, NormalizedIs DEF Formed, Fits
<1>3. ASSUME NEW r \in RuntimeNames, NEW v \in LLMs, StageRuntime(r, v)
      PROVE  Formed'
  <2> DEFINE w == [cfg EXCEPT !.runtime = With(@, r, v)]
  <2>1. w \in Config /\ w.profile = cfg.profile
    <3>1. With(cfg.runtime, r, v) \in Maps(RuntimeNames, LLMs)
      BY ConfigIs, MapsWith DEF Formed
    <3> QED
      BY <3>1 DEF Formed, Config
  <2>2. cfg' = Normalized(w) /\ active' = active /\ touched' = touched
    BY <1>3 DEF StageRuntime
  <2> HIDE DEF w
  <2> QED
    BY <2>1, <2>2, NormalizedIs DEF Formed, Fits
<1> QED
  BY <1>1, <1>2, <1>3

LEMMA EditForms ==
  ASSUME Formed, NEW original \in Profiles \cup {None}, NEW name \in Profiles,
         NEW git \in AccessValues, NEW creds \in EntityValues \cup {None}, NEW llm \in LLMs,
         NEW routed \in BOOLEAN, EditProfile(original, name, git, creds, llm, routed)
  PROVE  Formed'
<1> DEFINE previous == IF original = None THEN Blank ELSE cfg.profile[original]
           renamed  == IF original = None THEN cfg ELSE Renamed(cfg, original, name)
<1>1. PICK working \in Materialized(renamed, name, previous, git, creds, llm) :
        LET next == [working EXCEPT !.routes = IF routed THEN @ \cup {name} ELSE @ \ {name}] IN
        cfg' = next /\ active' = Workspace(next, name)
  BY DEF EditProfile
<1>2. original \in DOMAIN cfg.profile \cup {None} /\ Touch(name, original)
  BY DEF EditProfile
<1>3. previous \in Profile \cup {Blank} /\ renamed \in Config
  BY <1>2, RenamedIn, ConfigIs DEF Formed
<1> HIDE DEF previous, renamed
<1>4. working \in Config /\ name \in DOMAIN working.profile
  BY <1>1, <1>3, MaterializedIn
<1> DEFINE routes == IF routed THEN working.routes \cup {name} ELSE working.routes \ {name}
           next   == [working EXCEPT !.routes = routes]
<1>5. routes \in SUBSET Profiles
  BY <1>4, ConfigIs
<1>6. cfg' = next /\ active' = Workspace(next, name)
  BY <1>1
<1> HIDE DEF routes
<1>7. next \in Config /\ next.profile = working.profile
  BY <1>4, <1>5 DEF Config
<1> HIDE DEF next
<1>8. touched' \in Touches
  BY <1>2, TouchIn DEF Formed, Touches
<1> QED
  BY <1>4, <1>6, <1>7, <1>8, WorkspaceFits DEF Formed

LEMMA RuntimeForms ==
  ASSUME Formed, NEW llm \in LLMs, EditRuntime(llm)
  PROVE  Formed'
<1> DEFINE p == active.name
<1>1. /\ p \in Profiles /\ p \in DOMAIN cfg.profile /\ cfg.profile[p] \in Profile
      /\ active.profile \in Profile
  BY ConfigIs DEF Formed, Fits, EditRuntime
<1>2. PICK working \in Materialized(cfg, p, cfg.profile[p], active.profile.git,
                                    active.profile.creds, llm) :
        /\ cfg' = working /\ active' = Workspace(working, p)
        /\ Touch(p, p) \/ UNCHANGED touched
  BY DEF EditRuntime
<1>3. active.profile.git \in AccessValues /\ active.profile.creds \in EntityValues \cup {None}
  BY <1>1, ProfileIs
<1> DEFINE git == active.profile.git
           creds == active.profile.creds
           previous == cfg.profile[p]
<1>5. working \in Materialized(cfg, p, previous, git, creds, llm)
  BY <1>2
<1>6. previous \in Profile \cup {Blank} /\ git \in AccessValues /\ creds \in EntityValues \cup {None}
      /\ p \in Profiles
  BY <1>1, <1>3
<1> HIDE DEF git, creds, previous, p
<1>4. working \in Config /\ p \in DOMAIN working.profile
  BY <1>5, <1>6, MaterializedIn DEF Formed
<1>7. touched' \in Touches
  BY <1>2, <1>6, TouchIn DEF Formed, Touches
<1> QED
  BY <1>2, <1>4, <1>7, WorkspaceFits DEF Formed

-----------------------------------------------------------------------------
(* Deleting.                                                               *)

Gone(kind, name, gone, c, n) ==
  \/ kind = "profile" /\ ProfileGone(name, gone, c, n)
  \/ kind = "access" /\ AccessGone(name, gone, c, n)
  \/ kind = "entity" /\ EntityGone(name, gone, c, n)
  \/ kind = "runtime" /\ RuntimeGone(name, gone, c, n)

(* The record of what was touched, before and after.                         *)
Leaves(kind, name, gone, before, after) ==
  IF kind = "profile"
  THEN /\ gone.had <=> name \in DOMAIN before
       /\ gone.original = Find(before, name, None)
       /\ after = Without(before, name)
  ELSE after = before

Deletes(kind, name) ==
  \E gone, traced :
    /\ StageDeletion(kind, name, traced, gone) /\ Held(kind, name, gone)
    /\ traced => /\ Gone(kind, name, gone, cfg, cfg')
                 /\ Leaves(kind, name, gone, touched, touched')

LEMMA ProfileDeleted ==
  ASSUME Formed, NEW p \in Profiles, DeleteProfile(p)
  PROVE  Formed' /\ Deletes("profile", p)
<1> DEFINE next == [cfg EXCEPT !.profile = Without(@, p), !.routes = @ \ {p}]
           gone == [profile |-> cfg.profile[p], routed |-> p \in cfg.routes,
                    had |-> p \in DOMAIN touched, original |-> Find(touched, p, None)]
<1>1. /\ p \in DOMAIN cfg.profile /\ cfg' = next /\ touched' = Without(touched, p)
      /\ active' = Rebuilt(next) /\ StageDeletion("profile", p, TRUE, gone)
  BY DEF DeleteProfile
<1>2. next \in Config
  BY ConfigIs, MapsWithout DEF Formed, Config
<1>3. touched' \in Touches
  BY <1>1, MapsWithout DEF Formed, Touches
<1>4. ProfileGone(p, gone, cfg, next)
  BY <1>1 DEF ProfileGone
<1>5. Held("profile", p, gone)
  <2>1. gone.profile \in Profile
    BY <1>1, ConfigIs DEF Formed
  <2>2. gone.original \in Profiles \cup {None}
    BY MapsAre DEF Formed, Touches, Find
  <2> HIDE DEF gone
  <2> QED
    BY <2>1, <2>2 DEF Held, Names
<1>6. Leaves("profile", p, gone, touched, touched')
  BY <1>1 DEF Leaves
<1> HIDE DEF next, gone
<1>7. Formed'
  BY <1>1, <1>2, <1>3, RebuiltFits DEF Formed
<1>8. Gone("profile", p, gone, cfg, cfg')
  BY <1>1, <1>4 DEF Gone
<1> QED
  BY <1>1, <1>5, <1>6, <1>7, <1>8 DEF Deletes

LEMMA AccessDeleted ==
  ASSUME Formed, NEW a \in AccessNames, DeleteAccess(a)
  PROVE  Formed' /\ Deletes("access", a)
<1> DEFINE w    == [cfg EXCEPT !.access = Without(@, a)]
           gone == [value |-> cfg.access[a]]
<1>1. /\ a \in DOMAIN cfg.access /\ GloballyValid(w) /\ cfg' = Normalized(w)
      /\ active' = Rebuilt(Normalized(w)) /\ touched' = touched
      /\ StageDeletion("access", a, TRUE, gone)
  BY DEF DeleteAccess
<1>2. w \in Config /\ w.profile = cfg.profile /\ w.access = Without(cfg.access, a)
  BY ConfigIs, MapsWithout DEF Formed, Config
<1>3. \A p \in DOMAIN cfg.profile : cfg.profile[p].access \in DOMAIN cfg.access \ {a}
  <2> SUFFICES ASSUME NEW p \in DOMAIN cfg.profile
               PROVE  cfg.profile[p].access \in DOMAIN cfg.access \ {a}
    OBVIOUS
  <2> HIDE DEF w
  <2>1. Valid(w)
    BY <1>1, <1>2 DEF GloballyValid
  <2>2. /\ DOMAIN Normalized(w).profile = DOMAIN cfg.profile /\ Normalized(w).access = w.access
        /\ Normalized(w).profile[p] = Refreshed(w, cfg.profile[p])
    BY <1>2, NormalizedIs
  <2>3. Refreshed(w, cfg.profile[p]).access = cfg.profile[p].access
    BY <1>2, ConfigIs, RefreshedIs DEF Formed
  <2>4. Normalized(w).profile[p].access \in DOMAIN Normalized(w).access
    BY <2>1, <2>2 DEF Valid, ValidProfile
  <2>5. DOMAIN w.access = DOMAIN cfg.access \ {a}
    BY <1>2, WithoutIs
  <2> QED
    BY <2>2, <2>3, <2>4, <2>5
<1>4. AccessGone(a, gone, cfg, cfg')
  BY <1>1, <1>3 DEF AccessGone
<1>5. Held("access", a, gone)
  BY <1>1, ConfigIs DEF Held, Names, Formed
<1>6. Leaves("access", a, gone, touched, touched')
  BY <1>1 DEF Leaves
<1> HIDE DEF w, gone
<1>7. Formed'
  BY <1>1, <1>2, NormalizedIs, RebuiltFits DEF Formed
<1>8. Gone("access", a, gone, cfg, cfg')
  BY <1>4 DEF Gone
<1> QED
  BY <1>1, <1>5, <1>6, <1>7, <1>8 DEF Deletes

LEMMA EntityDeleted ==
  ASSUME Formed, NEW e \in EntityNames, DeleteEntity(e)
  PROVE  Formed' /\ Deletes("entity", e)
<1> USE InitSessionAssumption
<1> DEFINE now      == Normalized(cfg)
           affected == {p \in DOMAIN now.profile : now.profile[p].reviewer = e}
           parts    == [p \in DOMAIN now.profile |->
                          IF p \in affected
                          THEN [now.profile[p] EXCEPT !.reviewer = None, !.creds = None]
                          ELSE now.profile[p]]
           kept     == Without(now.entity, e)
           next     == [now EXCEPT !.entity = kept, !.profile = parts]
           gone     == [value |-> Find(now.entity, e, None),
                        affected |-> [p \in affected |-> now.profile[p].creds]]
<1>1. /\ cfg' = next /\ active' = Rebuilt(next) /\ touched' = touched
      /\ StageDeletion("entity", e, TRUE, gone)
  BY DEF DeleteEntity
<1>2. /\ now \in Config /\ now.entity = cfg.entity /\ DOMAIN now.profile = DOMAIN cfg.profile
      /\ \A p \in DOMAIN cfg.profile : now.profile[p] = Refreshed(cfg, cfg.profile[p])
  BY NormalizedIs DEF Formed
<1> HIDE DEF now
<1>3. next \in Config
  <2>1. kept \in Maps(EntityNames, EntityValues)
    BY <1>2, ConfigIs, MapsWithout
  <2>2. \A p \in DOMAIN now.profile : parts[p] \in Profile
    <3>1. \A p \in DOMAIN now.profile : now.profile[p] \in Profile
      BY <1>2, ConfigIs
    <3>2. \A f \in Profile : [f EXCEPT !.reviewer = None, !.creds = None] \in Profile
      BY DEF Profile
    <3> HIDE DEF affected
    <3> QED
      BY <3>1, <3>2
  <2>3. IsMap(parts) /\ DOMAIN parts = DOMAIN now.profile /\ DOMAIN now.profile \subseteq Profiles
    BY <1>2, ConfigIs DEF IsMap
  <2> HIDE DEF parts, kept
  <2>4. parts \in Maps(Profiles, Profile)
    BY <2>2, <2>3, MapsAre
  <2> QED
    BY <1>2, <2>1, <2>4 DEF Config
<1>4. \A p \in DOMAIN cfg.profile : now.profile[p].reviewer = cfg.profile[p].reviewer
  BY <1>2, ConfigIs, RefreshedIs DEF Formed
<1>5. EntityGone(e, gone, cfg, next)
  <2>1. affected = {p \in DOMAIN cfg.profile : cfg.profile[p].reviewer = e}
    BY <1>2, <1>4
  <2>2. DOMAIN gone.affected = affected /\ gone.value = Find(cfg.entity, e, None)
        /\ \A p \in affected : gone.affected[p] = now.profile[p].creds
    BY <1>2
  <2> HIDE DEF affected, gone
  <2>3. next = [Normalized(cfg) EXCEPT
            !.entity  = Without(@, e),
            !.profile = [p \in DOMAIN @ |-> IF p \in DOMAIN gone.affected
                           THEN [@[p] EXCEPT !.reviewer = None, !.creds = None]
                           ELSE @[p]]]
    BY <2>2 DEF now
  <2> HIDE DEF next
  <2> QED
    BY <2>1, <2>2, <2>3 DEF EntityGone, now
<1>6. Held("entity", e, gone)
  <2>1. gone.value \in EntityValues \cup {None}
    BY <1>2, ConfigIs DEF Find
  <2>2. \A p \in DOMAIN gone.affected : gone.affected[p] \in EntityValues \cup {None}
    BY <1>2, ConfigIs, ProfileIs
  <2> HIDE DEF gone
  <2> QED
    BY <2>1, <2>2 DEF Held, Names
<1>7. Leaves("entity", e, gone, touched, touched')
  BY <1>1 DEF Leaves
<1> HIDE DEF next, gone
<1>8. Formed'
  BY <1>1, <1>3, RebuiltFits DEF Formed
<1>9. Gone("entity", e, gone, cfg, cfg')
  BY <1>1, <1>5 DEF Gone
<1> QED
  BY <1>1, <1>6, <1>7, <1>8, <1>9 DEF Deletes

LEMMA RuntimeDeleted ==
  ASSUME Formed, NEW r \in RuntimeNames, NEW llm \in LLMs, DeleteRuntime(r, llm)
  PROVE  Formed' /\ Deletes("runtime", r)
<1> USE InitSessionAssumption
<1> DEFINE now    == Normalized(cfg)
           others == Without(now.runtime, r)
<1>1. PICK names \in MadeUp(now) :
        LET affected == {p \in DOMAIN now.profile : RuntimeOf(now, names, now.profile[p]) = r}
            matching == NamesOf(others, llm) \cup {names[v] : v \in Orphans(now) \cap {llm}}
            added    == matching = {}
        IN
        \E by \in IF added THEN RuntimeNames \ DOMAIN others ELSE matching :
          LET copy == IF added \/ by \in DOMAIN others THEN llm ELSE None
              next == [now EXCEPT
                 !.runtime = IF added THEN With(others, by, llm) ELSE others,
                 !.profile = [p \in DOMAIN @ |-> IF p \in affected
                                THEN [@[p] EXCEPT !.runtime = by, !.llm = copy] ELSE @[p]]]
          IN
          /\ StageDeletion("runtime", r,
               by # r /\ (added => \A p \in DOMAIN now.profile : now.profile[p].runtime # by),
               [value |-> Find(now.runtime, r, None), by |-> by, added |-> added, copy |-> copy,
                affected |-> [p \in affected |-> now.profile[p]]])
          /\ cfg' = next
          /\ active' = Rebuilt(next)
  BY DEF DeleteRuntime
<1>2. touched' = touched
  BY DEF DeleteRuntime
<1> DEFINE affected == {p \in DOMAIN now.profile : RuntimeOf(now, names, now.profile[p]) = r}
           matching == NamesOf(others, llm) \cup {names[v] : v \in Orphans(now) \cap {llm}}
           added    == matching = {}
<1>3. PICK by \in IF added THEN RuntimeNames \ DOMAIN others ELSE matching :
          LET copy == IF added \/ by \in DOMAIN others THEN llm ELSE None
              next == [now EXCEPT
                 !.runtime = IF added THEN With(others, by, llm) ELSE others,
                 !.profile = [p \in DOMAIN @ |-> IF p \in affected
                                THEN [@[p] EXCEPT !.runtime = by, !.llm = copy] ELSE @[p]]]
          IN
          /\ StageDeletion("runtime", r,
               by # r /\ (added => \A p \in DOMAIN now.profile : now.profile[p].runtime # by),
               [value |-> Find(now.runtime, r, None), by |-> by, added |-> added, copy |-> copy,
                affected |-> [p \in affected |-> now.profile[p]]])
          /\ cfg' = next
          /\ active' = Rebuilt(next)
  BY <1>1
<1> DEFINE copy   == IF added \/ by \in DOMAIN others THEN llm ELSE None
           parts  == [p \in DOMAIN now.profile |->
                        IF p \in affected THEN [now.profile[p] EXCEPT !.runtime = by, !.llm = copy]
                                          ELSE now.profile[p]]
           rest   == IF added THEN With(others, by, llm) ELSE others
           next   == [now EXCEPT !.runtime = rest, !.profile = parts]
           traced == by # r /\ (added => \A p \in DOMAIN now.profile : now.profile[p].runtime # by)
           gone   == [value |-> Find(now.runtime, r, None), by |-> by, added |-> added, copy |-> copy,
                      affected |-> [p \in affected |-> now.profile[p]]]
<1>4. cfg' = next /\ active' = Rebuilt(next) /\ StageDeletion("runtime", r, traced, gone)
  BY <1>3
<1>5. /\ now \in Config /\ now.runtime = cfg.runtime /\ DOMAIN now.profile = DOMAIN cfg.profile
      /\ \A p \in DOMAIN cfg.profile : now.profile[p] = Refreshed(cfg, cfg.profile[p])
  BY NormalizedIs DEF Formed
<1>6. \A p \in DOMAIN cfg.profile : now.profile[p].runtime = cfg.profile[p].runtime
  BY <1>5, ConfigIs, RefreshedIs DEF Formed
<1>7. /\ others \in Maps(RuntimeNames, LLMs) /\ DOMAIN others = DOMAIN cfg.runtime \ {r}
      /\ \A x \in DOMAIN others : others[x] = cfg.runtime[x]
  <2>1. others = Without(cfg.runtime, r) /\ cfg.runtime \in Maps(RuntimeNames, LLMs)
    BY <1>5, ConfigIs DEF Formed
  <2>2. Without(cfg.runtime, r) \in Maps(RuntimeNames, LLMs)
    BY <2>1, MapsWithout
  <2>3. /\ DOMAIN Without(cfg.runtime, r) = DOMAIN cfg.runtime \ {r}
        /\ \A x \in DOMAIN cfg.runtime \ {r} : Without(cfg.runtime, r)[x] = cfg.runtime[x]
    BY WithoutIs
  <2> HIDE DEF others
  <2> QED
    BY <2>1, <2>2, <2>3
<1> HIDE DEF now, others
<1>8. \A x \in matching : x \in RuntimeNames /\ (x \in DOMAIN cfg.runtime => x \in DOMAIN others /\ others[x] = llm)
  <2>1. names \in [Orphans(now) -> RuntimeNames \ DOMAIN cfg.runtime]
    BY <1>1, <1>5 DEF MadeUp
  <2>2. DOMAIN others \subseteq RuntimeNames
    BY <1>7, MapsAre
  <2> QED
    BY <2>1, <2>2 DEF NamesOf
<1>9. by \in RuntimeNames /\ copy \in LLMs \cup {None}
  BY <1>8
<1>10. affected \subseteq DOMAIN cfg.profile
       /\ \A p \in DOMAIN cfg.profile : cfg.profile[p].runtime = r /\ r \in DOMAIN cfg.runtime => p \in affected
  BY <1>5, <1>6 DEF RuntimeOf
<1>11. added => by \notin DOMAIN others /\ copy = llm
  OBVIOUS
<1>12. ~added /\ by \in DOMAIN cfg.runtime => copy = cfg.runtime[by]
  BY <1>7, <1>8
<1> HIDE DEF affected, matching, copy
<1>13. next \in Config
  <2>1. rest \in Maps(RuntimeNames, LLMs)
    BY <1>7, <1>9, MapsWith
  <2>2. \A p \in DOMAIN now.profile : parts[p] \in Profile
    <3>1. \A p \in DOMAIN now.profile : now.profile[p] \in Profile
      BY <1>5, ConfigIs
    <3>2. \A f \in Profile : [f EXCEPT !.runtime = by, !.llm = copy] \in Profile
      BY <1>9 DEF Profile
    <3> QED
      BY <3>1, <3>2
  <2>3. IsMap(parts) /\ DOMAIN parts = DOMAIN now.profile /\ DOMAIN now.profile \subseteq Profiles
    BY <1>5, ConfigIs DEF IsMap
  <2> HIDE DEF parts, rest
  <2>4. parts \in Maps(Profiles, Profile)
    BY <2>2, <2>3, MapsAre
  <2> QED
    BY <1>5, <2>1, <2>4 DEF Config
<1>14. ASSUME traced
       PROVE  RuntimeGone(r, gone, cfg, next)
  <2>1. /\ gone.value = Find(cfg.runtime, r, None) /\ gone.by = by /\ gone.copy = copy
        /\ DOMAIN gone.affected = affected /\ \A p \in affected : gone.affected[p] = now.profile[p]
    BY <1>5
  <2>2. gone.added <=> added
    OBVIOUS
  <2>3. by # r /\ (added => \A p \in DOMAIN cfg.profile : cfg.profile[p].runtime # by)
    BY <1>5, <1>6, <1>14
  <2> HIDE DEF added
  <2>4. next = [now EXCEPT
            !.runtime = IF gone.added THEN With(others, gone.by, gone.copy) ELSE others,
            !.profile = [p \in DOMAIN @ |-> IF p \in DOMAIN gone.affected
                           THEN [@[p] EXCEPT !.runtime = gone.by, !.llm = gone.copy]
                           ELSE @[p]]]
    <3>1. rest = IF gone.added THEN With(others, gone.by, gone.copy) ELSE others
      BY <1>11, <2>1, <2>2
    <3>2. parts = [p \in DOMAIN now.profile |-> IF p \in DOMAIN gone.affected
                           THEN [now.profile[p] EXCEPT !.runtime = gone.by, !.llm = gone.copy]
                           ELSE now.profile[p]]
      BY <2>1
    <3> HIDE DEF rest, parts, gone
    <3> QED
      BY <3>1, <3>2
  <2>5. others = Without(cfg.runtime, r)
    BY <1>5 DEF others
  <2>6. DOMAIN others = DOMAIN cfg.runtime \ {r}
    BY <1>7
  <2> HIDE DEF next, gone
  <2> DEFINE n == next
  <2>7. n = [Normalized(cfg) EXCEPT
            !.runtime = IF gone.added THEN With(Without(cfg.runtime, r), gone.by, gone.copy)
                                      ELSE Without(cfg.runtime, r),
            !.profile = [p \in DOMAIN @ |-> IF p \in DOMAIN gone.affected
                           THEN [@[p] EXCEPT !.runtime = gone.by, !.llm = gone.copy]
                           ELSE @[p]]]
    BY <2>4, <2>5 DEF now
  <2>8. /\ gone.value = Find(cfg.runtime, r, None) /\ gone.by # r
        /\ DOMAIN gone.affected \subseteq DOMAIN cfg.profile
        /\ \A p \in DOMAIN gone.affected : gone.affected[p] = Normalized(cfg).profile[p]
        /\ r \in DOMAIN cfg.runtime =>
             \A p \in DOMAIN cfg.profile : cfg.profile[p].runtime = r => p \in DOMAIN gone.affected
    BY <1>10, <2>1, <2>3 DEF now
  <2>9. gone.added => /\ gone.by \notin DOMAIN cfg.runtime
                      /\ \A p \in DOMAIN cfg.profile : cfg.profile[p].runtime # gone.by
    BY <1>11, <2>1, <2>2, <2>3, <2>6
  <2>10. ~gone.added /\ gone.by \in DOMAIN cfg.runtime => gone.copy = cfg.runtime[gone.by]
    BY <1>12, <2>1, <2>2
  <2> QED
    BY <2>7, <2>8, <2>9, <2>10 DEF RuntimeGone
<1>15. Held("runtime", r, gone)
  <2>1. gone.value \in LLMs \cup {None}
    BY <1>5, ConfigIs DEF Find
  <2>2. \A p \in DOMAIN gone.affected : gone.affected[p] \in Profile
    BY <1>5, <1>10, ConfigIs
  <2> HIDE DEF gone
  <2> QED
    BY <2>1, <2>2 DEF Held, Names
<1>16. Leaves("runtime", r, gone, touched, touched')
  BY <1>2 DEF Leaves
<1> HIDE DEF next, gone, traced
<1>17. Formed'
  BY <1>2, <1>4, <1>13, RebuiltFits DEF Formed
<1>18. traced => Gone("runtime", r, gone, cfg, cfg')
  BY <1>4, <1>14 DEF Gone
<1> QED
  BY <1>4, <1>15, <1>16, <1>17, <1>18 DEF Deletes

-----------------------------------------------------------------------------
(* Undoing.                                                                *)

Undoes(kind, name) ==
  LET gone == pending[kind][name] IN
  /\ StageUndo(kind, name)
  /\ \A c \in Config, n \in Config : Gone(kind, name, gone, c, n) /\ Like(cfg, n) => Like(cfg', c)
  /\ \A before \in Touches : Leaves(kind, name, gone, before, touched) => touched' = before

LEMMA ProfileUndone ==
  ASSUME Formed, NEW p \in Profiles, UndoProfile(p), Held("profile", p, pending["profile"][p])
  PROVE  Formed' /\ Undoes("profile", p)
<1> DEFINE gone == pending["profile"][p]
           next == ProfileBack(p, gone, cfg)
<1>1. /\ StageUndo("profile", p) /\ cfg' = next
      /\ touched' = IF gone.had THEN With(touched, p, gone.original) ELSE touched
      /\ active' = IF active = None THEN Workspace(next, p) ELSE active
  BY DEF UndoProfile, Detail, ProfileBack
<1>2. gone.profile \in Profile /\ gone.original \in Profiles \cup {None}
  BY DEF Held
<1> HIDE DEF gone
<1>3. With(cfg.profile, p, gone.profile) \in Maps(Profiles, Profile)
  BY <1>2, ConfigIs, MapsWith DEF Formed
<1>4. /\ next \in Config /\ next.profile = With(cfg.profile, p, gone.profile)
  BY <1>3, ConfigIs DEF Formed, Config, ProfileBack
<1>5. DOMAIN next.profile = DOMAIN cfg.profile \cup {p}
  BY <1>4 DEF With
<1> HIDE DEF next
<1>6. Fits(active', next)
  <2>1. Fits(Workspace(next, p), next)
    BY <1>4, <1>5, WorkspaceFits
  <2> QED
    BY <1>1, <1>5, <2>1 DEF Formed, Fits
<1>7. touched' \in Touches
  BY <1>1, <1>2, MapsWith DEF Formed, Touches
<1>8. ASSUME NEW c \in Config, NEW n \in Config, Gone("profile", p, gone, c, n), Like(cfg, n)
      PROVE  Like(cfg', c)
  BY <1>1, <1>8, ProfileComesBack DEF Gone, next, Formed
<1>9. ASSUME NEW before \in Touches, Leaves("profile", p, gone, before, touched)
      PROVE  touched' = before
  <2>1. /\ gone.had <=> p \in DOMAIN before
        /\ gone.original = Find(before, p, None)
        /\ touched = Without(before, p)
    BY <1>9 DEF Leaves
  <2>2. IsMap(before)
    BY MapsAre DEF Touches
  <2> QED
    BY <1>1, <2>1, <2>2, PutBack DEF Find
<1> QED
  BY <1>1, <1>4, <1>6, <1>7, <1>8, <1>9 DEF Formed, Undoes, gone

LEMMA AccessUndone ==
  ASSUME Formed, NEW a \in AccessNames, UndoAccess(a), Held("access", a, pending["access"][a])
  PROVE  Formed' /\ Undoes("access", a)
<1> DEFINE gone == pending["access"][a]
           w    == [cfg EXCEPT !.access = With(@, a, gone.value)]
<1>1. /\ StageUndo("access", a) /\ cfg' = Normalized(w)
      /\ active' = Rebuilt(Normalized(w)) /\ touched' = touched
  BY DEF UndoAccess, Detail
<1>2. gone.value \in AccessValues
  BY DEF Held
<1> HIDE DEF gone
<1>3. cfg' = AccessBack(a, gone, cfg)
  BY <1>1 DEF AccessBack
<1>4. w \in Config
  <2>1. With(cfg.access, a, gone.value) \in Maps(AccessNames, AccessValues)
    BY <1>2, ConfigIs, MapsWith DEF Formed
  <2> QED
    BY <2>1 DEF Formed, Config
<1> HIDE DEF w
<1>5. Formed'
  BY <1>1, <1>4, NormalizedIs, RebuiltFits DEF Formed
<1>6. ASSUME NEW c \in Config, NEW n \in Config, Gone("access", a, gone, c, n), Like(cfg, n)
      PROVE  Like(cfg', c)
  BY <1>3, <1>6, AccessComesBack DEF Gone, Formed
<1>7. ASSUME NEW before \in Touches, Leaves("access", a, gone, before, touched)
      PROVE  touched' = before
  BY <1>1, <1>7 DEF Leaves
<1> QED
  BY <1>1, <1>5, <1>6, <1>7 DEF Undoes, gone

LEMMA EntityUndone ==
  ASSUME Formed, NEW e \in EntityNames, UndoEntity(e), Held("entity", e, pending["entity"][e])
  PROVE  Formed' /\ Undoes("entity", e)
<1> DEFINE gone  == pending["entity"][e]
           back  == {p \in DOMAIN gone.affected \cap DOMAIN cfg.profile : cfg.profile[p].reviewer = None}
           parts == [p \in DOMAIN cfg.profile |->
                       IF p \in back
                       THEN [cfg.profile[p] EXCEPT !.reviewer = e, !.creds = gone.affected[p]]
                       ELSE cfg.profile[p]]
           kept  == IF gone.value = None THEN cfg.entity ELSE With(cfg.entity, e, gone.value)
           next  == [cfg EXCEPT !.entity = kept, !.profile = parts]
<1>1. /\ StageUndo("entity", e) /\ cfg' = next /\ active' = Rebuilt(next) /\ touched' = touched
  BY DEF UndoEntity, Detail
<1>2. /\ gone.value \in EntityValues \cup {None}
      /\ \A p \in DOMAIN gone.affected : gone.affected[p] \in EntityValues \cup {None}
  BY DEF Held
<1> HIDE DEF gone
<1>3. cfg' = EntityBack(e, gone, cfg)
  BY <1>1 DEF EntityBack
<1>4. next \in Config
  <2>1. kept \in Maps(EntityNames, EntityValues)
    BY <1>2, ConfigIs, MapsWith DEF Formed
  <2>2. \A p \in DOMAIN cfg.profile : parts[p] \in Profile
    <3>1. \A p \in DOMAIN cfg.profile : cfg.profile[p] \in Profile
      BY ConfigIs DEF Formed
    <3>2. \A f \in Profile, v \in EntityValues \cup {None} : [f EXCEPT !.reviewer = e, !.creds = v] \in Profile
      BY DEF Profile
    <3> QED
      BY <1>2, <3>1, <3>2
  <2>3. IsMap(parts) /\ DOMAIN parts = DOMAIN cfg.profile /\ DOMAIN cfg.profile \subseteq Profiles
    BY ConfigIs DEF IsMap, Formed
  <2> HIDE DEF parts, kept
  <2>4. parts \in Maps(Profiles, Profile)
    BY <2>2, <2>3, MapsAre
  <2> QED
    BY <2>1, <2>4 DEF Config, Formed
<1> HIDE DEF next
<1>5. Formed'
  BY <1>1, <1>4, RebuiltFits DEF Formed
<1>6. ASSUME NEW c \in Config, NEW n \in Config, Gone("entity", e, gone, c, n), Like(cfg, n)
      PROVE  Like(cfg', c)
  BY <1>3, <1>6, EntityComesBack DEF Gone, Formed
<1>7. ASSUME NEW before \in Touches, Leaves("entity", e, gone, before, touched)
      PROVE  touched' = before
  BY <1>1, <1>7 DEF Leaves
<1> QED
  BY <1>1, <1>5, <1>6, <1>7 DEF Undoes, gone

LEMMA RuntimeUndone ==
  ASSUME Formed, NEW r \in RuntimeNames, UndoRuntime(r), Held("runtime", r, pending["runtime"][r])
  PROVE  Formed' /\ Undoes("runtime", r)
<1> DEFINE gone  == pending["runtime"][r]
           back  == {p \in DOMAIN gone.affected \cap DOMAIN cfg.profile : cfg.profile[p].llm = gone.copy}
           parts == [p \in DOMAIN cfg.profile |->
                       IF p \in back
                       THEN [cfg.profile[p] EXCEPT !.runtime = gone.affected[p].runtime,
                                                   !.llm = gone.affected[p].llm]
                       ELSE cfg.profile[p]]
           restored == IF gone.value = None THEN cfg.runtime ELSE With(cfg.runtime, r, gone.value)
           unused   == gone.added /\ \A p \in DOMAIN parts : parts[p].runtime # gone.by
           kept     == IF unused THEN Without(restored, gone.by) ELSE restored
           next     == [cfg EXCEPT !.profile = parts, !.runtime = kept]
<1>1. /\ StageUndo("runtime", r) /\ cfg' = next /\ active' = Rebuilt(next) /\ touched' = touched
  BY DEF UndoRuntime, Detail
<1>2. /\ gone.value \in LLMs \cup {None}
      /\ \A p \in DOMAIN gone.affected : gone.affected[p] \in Profile
  BY DEF Held
<1> HIDE DEF gone
<1>3. cfg' = RuntimeBack(r, gone, cfg)
  BY <1>1 DEF RuntimeBack
<1>4. next \in Config
  <2>1. restored \in Maps(RuntimeNames, LLMs)
    BY <1>2, ConfigIs, MapsWith DEF Formed
  <2> HIDE DEF unused, restored
  <2>2. kept \in Maps(RuntimeNames, LLMs)
    BY <2>1, MapsWithout
  <2>3. \A p \in DOMAIN cfg.profile : parts[p] \in Profile
    <3>1. \A p \in DOMAIN cfg.profile : cfg.profile[p] \in Profile
      BY ConfigIs DEF Formed
    <3>2. \A f \in Profile, g \in Profile : [f EXCEPT !.runtime = g.runtime, !.llm = g.llm] \in Profile
      BY DEF Profile
    <3> QED
      BY <1>2, <3>1, <3>2
  <2>4. IsMap(parts) /\ DOMAIN parts = DOMAIN cfg.profile /\ DOMAIN cfg.profile \subseteq Profiles
    BY ConfigIs DEF IsMap, Formed
  <2> HIDE DEF parts, kept
  <2>5. parts \in Maps(Profiles, Profile)
    BY <2>3, <2>4, MapsAre
  <2> QED
    BY <2>2, <2>5 DEF Config, Formed
<1> HIDE DEF next
<1>5. Formed'
  BY <1>1, <1>4, RebuiltFits DEF Formed
<1>6. ASSUME NEW c \in Config, NEW n \in Config, Gone("runtime", r, gone, c, n), Like(cfg, n)
      PROVE  Like(cfg', c)
  BY <1>3, <1>6, RuntimeComesBack DEF Gone, Formed
<1>7. ASSUME NEW before \in Touches, Leaves("runtime", r, gone, before, touched)
      PROVE  touched' = before
  BY <1>1, <1>7 DEF Leaves
<1> QED
  BY <1>1, <1>5, <1>6, <1>7 DEF Undoes, gone

-----------------------------------------------------------------------------
(* The trail of deletions.                                                 *)

(* The configuration and the record that the i-th latest deletion left.      *)
LeftCfg(i)     == IF i = 1 THEN cfg ELSE trail[i - 1].cfg
LeftTouched(i) == IF i = 1 THEN touched ELSE trail[i - 1].touched

(* Undoing a deletion from c and t gives back what it was made on: c is what *)
(* the deletion left, but for copies that have been refreshed since.        *)
Link(step, gone, c, t) ==
  /\ \E n \in Config : Gone(step.kind, step.name, gone, step.cfg, n) /\ Like(c, n)
  /\ Leaves(step.kind, step.name, gone, step.touched, t)

Keeps ==
  /\ IsMap(pending) /\ DOMAIN pending = Kinds
  /\ \A kind \in Kinds : \A name \in DOMAIN pending[kind] : Held(kind, name, pending[kind][name])

(* The deletions that are traced are pending, each once, and each leads to   *)
(* what the next one was made on.                                           *)
Chained ==
  /\ trail \in Seq(Steps)
  /\ \A i \in 1..Len(trail) : trail[i].name \in DOMAIN pending[trail[i].kind]
  /\ \A i, j \in 1..Len(trail) :
       i # j => trail[i].kind # trail[j].kind \/ trail[i].name # trail[j].name
  /\ \A i \in 1..Len(trail) :
       Link(trail[i], pending[trail[i].kind][trail[i].name], LeftCfg(i), LeftTouched(i))

UndoInv == Formed /\ Keeps /\ Chained

LEMMA NoTrail ==
  ASSUME trail = <<>>
  PROVE  Chained
BY DEF Chained

LEMMA InitChained == SessionInit => UndoInv
<1> SUFFICES ASSUME SessionInit PROVE UndoInv
  OBVIOUS
<1>1. Nothing \in Touches /\ \A names, values : Nothing \in Maps(names, values)
  <2>1. DOMAIN Nothing = {} /\ IsMap(Nothing)
    BY DEF Nothing, IsMap
  <2> QED
    BY <2>1, MapsAre DEF Touches
<1>2. cfg \in Config
  <2>1. EmptyConfig \in Config
    BY <1>1 DEF EmptyConfig, Config
  <2> QED
    BY <2>1, InitSessionAssumption DEF SessionInit
<1>3. Fits(active, cfg)
  BY <1>2, WorkspaceFits DEF SessionInit, Fits
<1>4. Keeps
  BY DEF SessionInit, Keeps, NothingPending, Nothing, IsMap
<1>5. Chained
  BY NoTrail DEF SessionInit
<1> QED
  BY <1>1, <1>2, <1>3, <1>4, <1>5 DEF UndoInv, Formed, SessionInit

(* What a step of the session is, seen from the trail.                       *)
LEMMA SessionSteps ==
  ASSUME UndoInv, [SessionNext]_sessionVars
  PROVE  \/ UNCHANGED session
         \/ Formed' /\ trail' = <<>> /\ pending' = pending
         \/ \E kind \in Kinds, name \in Names : Formed' /\ Deletes(kind, name)
         \/ \E kind \in Kinds, name \in Names : Formed' /\ Undoes(kind, name)
<1> USE DEF UndoInv
<1>1. CASE UNCHANGED sessionVars
  BY <1>1 DEF sessionVars
<1>2. CASE Other
  BY <1>2 DEF Other, LoadForRoute, SetCredential
<1>3. CASE Apply
  BY <1>3 DEF Apply, Save, RefusePlan, GoBack, ChooseSave, BeginWrites, Written, Clean, Cleaned, Ask, WriteBundle,
     Acquire, AcquireTimesOut, Check, Rename, Break
<1>4. CASE Edit
  <2>1. StageEdit => trail' = <<>> /\ pending' = pending
    BY DEF StageEdit
  <2>2. CASE Abandon
    BY <2>2 DEF Abandon
  <2>3. CASE \/ \E a \in AccessNames, v \in AccessValues : StageAccess(a, v)
             \/ \E e \in EntityNames, v \in EntityValues : StageEntity(e, v)
             \/ \E r \in RuntimeNames, v \in LLMs : StageRuntime(r, v)
    <3>1. StageEdit
      BY <2>3 DEF StageAccess, StageEntity, StageRuntime
    <3>2. Formed'
      BY <2>3, StagingForms
    <3> QED
      BY <2>1, <3>1, <3>2
  <2>4. CASE \E original \in Profiles \cup {None}, name \in Profiles, git \in AccessValues,
               creds \in EntityValues \cup {None}, llm \in LLMs, routed \in BOOLEAN :
               EditProfile(original, name, git, creds, llm, routed)
    <3>1. PICK original \in Profiles \cup {None}, name \in Profiles, git \in AccessValues,
               creds \in EntityValues \cup {None}, llm \in LLMs, routed \in BOOLEAN :
               EditProfile(original, name, git, creds, llm, routed)
      BY <2>4
    <3>2. StageEdit
      BY <3>1 DEF EditProfile
    <3>3. Formed'
      BY <3>1, EditForms
    <3> QED
      BY <2>1, <3>2, <3>3
  <2>5. CASE \E v \in LLMs : EditRuntime(v)
    BY <2>1, <2>5, RuntimeForms DEF EditRuntime
  <2>6. ASSUME NEW p \in Profiles, DeleteProfile(p) PROVE Formed' /\ Deletes("profile", p)
    BY <2>6, ProfileDeleted
  <2>7. ASSUME NEW a \in AccessNames, DeleteAccess(a) PROVE Formed' /\ Deletes("access", a)
    BY <2>7, AccessDeleted
  <2>8. ASSUME NEW e \in EntityNames, DeleteEntity(e) PROVE Formed' /\ Deletes("entity", e)
    BY <2>8, EntityDeleted
  <2>9. ASSUME NEW r \in RuntimeNames, NEW v \in LLMs, DeleteRuntime(r, v)
        PROVE  Formed' /\ Deletes("runtime", r)
    BY <2>9, RuntimeDeleted
  <2>10. ASSUME NEW p \in Profiles, UndoProfile(p) PROVE Formed' /\ Undoes("profile", p)
    <3>1. p \in DOMAIN pending["profile"]
      BY <2>10 DEF UndoProfile, StageUndo
    <3> QED
      BY <2>10, <3>1, ProfileUndone DEF Keeps, Kinds
  <2>11. ASSUME NEW a \in AccessNames, UndoAccess(a) PROVE Formed' /\ Undoes("access", a)
    <3>1. a \in DOMAIN pending["access"]
      BY <2>11 DEF UndoAccess, StageUndo
    <3> QED
      BY <2>11, <3>1, AccessUndone DEF Keeps, Kinds
  <2>12. ASSUME NEW e \in EntityNames, UndoEntity(e) PROVE Formed' /\ Undoes("entity", e)
    <3>1. e \in DOMAIN pending["entity"]
      BY <2>12 DEF UndoEntity, StageUndo
    <3> QED
      BY <2>12, <3>1, EntityUndone DEF Keeps, Kinds
  <2>13. ASSUME NEW r \in RuntimeNames, UndoRuntime(r) PROVE Formed' /\ Undoes("runtime", r)
    <3>1. r \in DOMAIN pending["runtime"]
      BY <2>13 DEF UndoRuntime, StageUndo
    <3> QED
      BY <2>13, <3>1, RuntimeUndone DEF Keeps, Kinds
  <2>14. {"profile", "access", "entity", "runtime"} \subseteq Kinds
    BY DEF Kinds
  <2>15. CASE \E p \in Profiles : DeleteProfile(p) \/ UndoProfile(p)
    BY <2>6, <2>10, <2>14, <2>15 DEF Names
  <2>16. CASE \E a \in AccessNames : DeleteAccess(a) \/ UndoAccess(a)
    BY <2>7, <2>11, <2>14, <2>16 DEF Names
  <2>17. CASE \E e \in EntityNames : DeleteEntity(e) \/ UndoEntity(e)
    BY <2>8, <2>12, <2>14, <2>17 DEF Names
  <2>18. CASE \E r \in RuntimeNames : (\E v \in LLMs : DeleteRuntime(r, v)) \/ UndoRuntime(r)
    BY <2>9, <2>13, <2>14, <2>18 DEF Names
  <2> QED
    BY <1>4, <2>2, <2>3, <2>4, <2>5, <2>15, <2>16, <2>17, <2>18 DEF Edit
<1> QED
  BY <1>1, <1>2, <1>3, <1>4 DEF SessionNext

LEMMA DeletionChains ==
  ASSUME UndoInv, NEW kind \in Kinds, NEW name \in Names, Formed', Deletes(kind, name)
  PROVE  UndoInv'
<1>1. PICK gone, traced :
        /\ StageDeletion(kind, name, traced, gone) /\ Held(kind, name, gone)
        /\ traced => Gone(kind, name, gone, cfg, cfg') /\ Leaves(kind, name, gone, touched, touched')
  BY DEF Deletes
<1>2. name \notin DOMAIN pending[kind] /\ pending' = [pending EXCEPT ![kind] = With(@, name, gone)]
  BY <1>1 DEF StageDeletion
<1>3. /\ IsMap(pending') /\ DOMAIN pending' = Kinds
      /\ pending'[kind] = With(pending[kind], name, gone)
      /\ \A k \in Kinds \ {kind} : pending'[k] = pending[k]
  BY <1>2 DEF UndoInv, Keeps, IsMap
<1>4. /\ DOMAIN pending'[kind] = DOMAIN pending[kind] \cup {name} /\ pending'[kind][name] = gone
      /\ \A x \in DOMAIN pending[kind] : pending'[kind][x] = pending[kind][x]
  BY <1>2, <1>3 DEF With
<1>5. Keeps'
  <2> SUFFICES ASSUME NEW k \in Kinds, NEW x \in DOMAIN pending'[k]
               PROVE  Held(k, x, pending'[k][x])
    BY <1>3 DEF Keeps, Held, Names
  <2> QED
    BY <1>1, <1>3, <1>4 DEF UndoInv, Keeps
<1>6. \A k \in Kinds : \A x \in DOMAIN pending[k] :
        x \in DOMAIN pending'[k] /\ pending'[k][x] = pending[k][x]
  BY <1>3, <1>4
<1> DEFINE step == [kind |-> kind, name |-> name, cfg |-> cfg, touched |-> touched]
<1>7. CASE traced
  <2>1. trail' = <<step>> \o trail
    BY <1>1, <1>7 DEF StageDeletion
  <2>2. step \in Steps
    BY DEF Steps, UndoInv, Formed
  <2>3. /\ step.kind = kind /\ step.name = name /\ step.cfg = cfg /\ step.touched = touched
    OBVIOUS
  <2> HIDE DEF step
  <2>4. trail \in Seq(Steps)
    BY DEF UndoInv, Chained
  <2>5. /\ trail' \in Seq(Steps) /\ Len(trail') = Len(trail) + 1 /\ Len(trail) \in Nat
        /\ trail'[1] = step /\ \A i \in 2..Len(trail') : trail'[i] = trail[i - 1]
    BY <2>1, <2>2, <2>4
  <2>6. \A i \in 1..Len(trail) : trail[i] \in Steps
    BY <2>4
  <2>7. \A i \in 1..Len(trail) : /\ trail[i].kind \in Kinds
                                 /\ trail[i].name \in DOMAIN pending[trail[i].kind]
    BY <2>6 DEF Steps, UndoInv, Chained
  <2>8. \A i \in 1..Len(trail') : trail'[i].name \in DOMAIN pending'[trail'[i].kind]
    <3> SUFFICES ASSUME NEW i \in 1..Len(trail') PROVE trail'[i].name \in DOMAIN pending'[trail'[i].kind]
      OBVIOUS
    <3>1. CASE i = 1
      BY <1>4, <2>3, <2>5, <3>1
    <3>2. CASE i # 1
      <4>1. i - 1 \in 1..Len(trail) /\ trail'[i] = trail[i - 1]
        BY <2>5, <3>2
      <4> QED
        BY <1>6, <2>7, <4>1
    <3> QED
      BY <3>1, <3>2
  <2>9. \A i \in 1..Len(trail) : trail[i].kind # kind \/ trail[i].name # name
    BY <1>2, <2>7
  <2>10. ASSUME NEW i \in 1..Len(trail'), NEW j \in 1..Len(trail'), i # j
         PROVE  trail'[i].kind # trail'[j].kind \/ trail'[i].name # trail'[j].name
    <3>1. \A k \in 1..Len(trail') : k = 1 \/ (k - 1 \in 1..Len(trail) /\ trail'[k] = trail[k - 1])
      BY <2>5
    <3>2. CASE i = 1
      BY <2>3, <2>5, <2>9, <2>10, <3>1, <3>2
    <3>3. CASE j = 1
      BY <2>3, <2>5, <2>9, <2>10, <3>1, <3>3
    <3>4. CASE i # 1 /\ j # 1
      <4>1. i - 1 \in 1..Len(trail) /\ j - 1 \in 1..Len(trail) /\ i - 1 # j - 1
        BY <2>10, <3>1, <3>4
      <4> QED
        BY <3>1, <3>4, <4>1 DEF UndoInv, Chained
    <3> QED
      BY <3>2, <3>3, <3>4
  <2>11. ASSUME NEW i \in 1..Len(trail')
         PROVE  Link(trail'[i], pending'[trail'[i].kind][trail'[i].name], LeftCfg(i)', LeftTouched(i)')
    <3>1. CASE i = 1
      <4>1. Gone(kind, name, gone, cfg, cfg') /\ Leaves(kind, name, gone, touched, touched')
        BY <1>1, <1>7
      <4>2. cfg' \in Config /\ Like(cfg', cfg')
        BY LikeItself DEF Formed
      <4>3. Link(step, gone, cfg', touched')
        BY <2>3, <4>1, <4>2 DEF Link
      <4>4. LeftCfg(i)' = cfg' /\ LeftTouched(i)' = touched'
        BY <3>1 DEF LeftCfg, LeftTouched
      <4> QED
        BY <1>4, <2>3, <2>5, <3>1, <4>3, <4>4
    <3>2. CASE i # 1
      <4> DEFINE k == i - 1
      <4>1. k \in 1..Len(trail) /\ trail'[i] = trail[k]
        BY <2>5, <3>2
      <4>2. LeftCfg(i)' = LeftCfg(k) /\ LeftTouched(i)' = LeftTouched(k)
        <5>1. CASE k = 1
          <6>1. i = 2 /\ trail'[1] = step
            BY <2>5, <5>1
          <6>2. LeftCfg(i)' = trail'[1].cfg /\ LeftTouched(i)' = trail'[1].touched
            BY <6>1 DEF LeftCfg, LeftTouched
          <6>3. LeftCfg(k) = cfg /\ LeftTouched(k) = touched
            BY <5>1 DEF LeftCfg, LeftTouched
          <6> QED
            BY <2>3, <6>1, <6>2, <6>3
        <5>2. CASE k # 1
          <6>1. trail'[i - 1] = trail[k - 1]
            BY <2>5, <4>1, <5>2
          <6> QED
            BY <3>2, <5>2, <6>1 DEF LeftCfg, LeftTouched
        <5> QED
          BY <5>1, <5>2
      <4>3. Link(trail[k], pending[trail[k].kind][trail[k].name], LeftCfg(k), LeftTouched(k))
        BY <4>1 DEF UndoInv, Chained
      <4>4. pending'[trail[k].kind][trail[k].name] = pending[trail[k].kind][trail[k].name]
        BY <1>6, <2>7, <4>1
      <4> HIDE DEF k
      <4> QED
        BY <4>1, <4>2, <4>3, <4>4
    <3> QED
      BY <3>1, <3>2
  <2>12. Chained'
    BY <2>5, <2>8, <2>10, <2>11 DEF Chained
  <2> QED
    BY <1>5, <2>12 DEF UndoInv
<1>8. CASE ~traced
  <2>1. trail' = <<>>
    BY <1>1, <1>8 DEF StageDeletion
  <2>2. Chained'
    BY <2>1 DEF Chained
  <2> QED
    BY <1>5, <2>2 DEF UndoInv
<1> QED
  BY <1>7, <1>8

(* Undoing the latest deletion leaves the session as it was before it.       *)
LEMMA LatestUndone ==
  ASSUME UndoInv, NEW kind \in Kinds, NEW name \in Names, Undoes(kind, name), IsLatest(kind, name)
  PROVE  Like(cfg', trail[1].cfg) /\ touched' = trail[1].touched
<1>1. /\ trail \in Seq(Steps) /\ trail # <<>> /\ Head(trail).kind = kind /\ Head(trail).name = name
  BY DEF IsLatest, UndoInv, Chained
<1>2. 1 \in 1..Len(trail) /\ Head(trail) = trail[1] /\ trail[1] \in Steps
  BY <1>1
<1>3. Link(trail[1], pending[kind][name], cfg, touched)
  BY <1>1, <1>2 DEF UndoInv, Chained, LeftCfg, LeftTouched
<1>4. trail[1].cfg \in Config /\ trail[1].touched \in Touches
  BY <1>2 DEF Steps
<1>5. PICK n \in Config : Gone(kind, name, pending[kind][name], trail[1].cfg, n) /\ Like(cfg, n)
  BY <1>1, <1>2, <1>3 DEF Link
<1>6. Leaves(kind, name, pending[kind][name], trail[1].touched, touched)
  BY <1>1, <1>2, <1>3 DEF Link
<1>7. Like(cfg', trail[1].cfg)
  BY <1>4, <1>5 DEF Undoes
<1>8. touched' = trail[1].touched
  BY <1>4, <1>6 DEF Undoes
<1> QED
  BY <1>7, <1>8

LEMMA UndoingChains ==
  ASSUME UndoInv, NEW kind \in Kinds, NEW name \in Names, Formed', Undoes(kind, name)
  PROVE  UndoInv'
<1>1. StageUndo(kind, name)
  BY DEF Undoes
<1>2. name \in DOMAIN pending[kind] /\ pending' = [pending EXCEPT ![kind] = Without(@, name)]
  BY <1>1 DEF StageUndo
<1>3. /\ IsMap(pending') /\ DOMAIN pending' = Kinds
      /\ pending'[kind] = Without(pending[kind], name)
      /\ \A k \in Kinds \ {kind} : pending'[k] = pending[k]
  BY <1>2 DEF UndoInv, Keeps, IsMap
<1>4. /\ DOMAIN pending'[kind] = DOMAIN pending[kind] \ {name}
      /\ \A x \in DOMAIN pending[kind] \ {name} : pending'[kind][x] = pending[kind][x]
  BY <1>3 DEF Without
<1>5. Keeps'
  <2> SUFFICES ASSUME NEW k \in Kinds, NEW x \in DOMAIN pending'[k]
               PROVE  Held(k, x, pending'[k][x])
    BY <1>3 DEF Keeps, Held, Names
  <2> QED
    BY <1>3, <1>4 DEF UndoInv, Keeps
<1>6. \A k \in Kinds : \A x \in DOMAIN pending[k] : k # kind \/ x # name =>
        x \in DOMAIN pending'[k] /\ pending'[k][x] = pending[k][x]
  BY <1>3, <1>4
<1>7. CASE IsLatest(kind, name)
  <2>1. /\ trail \in Seq(Steps) /\ trail # <<>> /\ Head(trail).kind = kind /\ Head(trail).name = name
        /\ trail' = Tail(trail)
    BY <1>1, <1>7 DEF IsLatest, UndoInv, Chained, StageUndo
  <2>2. /\ trail' \in Seq(Steps) /\ Len(trail) \in Nat /\ Len(trail') = Len(trail) - 1 /\ Len(trail) >= 1
        /\ trail[1].kind = kind /\ trail[1].name = name
        /\ \A i \in 1..Len(trail') : i + 1 \in 1..Len(trail) /\ trail'[i] = trail[i + 1]
    BY <2>1
  <2>3. \A i \in 1..Len(trail) : trail[i] \in Steps
    BY <2>1
  <2>4. \A i \in 1..Len(trail') :
          /\ trail[i + 1].kind \in Kinds /\ trail[i + 1].name \in DOMAIN pending[trail[i + 1].kind]
          /\ trail[i + 1].kind # kind \/ trail[i + 1].name # name
    <3> SUFFICES ASSUME NEW i \in 1..Len(trail')
                 PROVE  /\ trail[i + 1].kind \in Kinds
                        /\ trail[i + 1].name \in DOMAIN pending[trail[i + 1].kind]
                        /\ trail[i + 1].kind # kind \/ trail[i + 1].name # name
      OBVIOUS
    <3>1. i + 1 \in 1..Len(trail) /\ 1 \in 1..Len(trail) /\ i + 1 # 1
      BY <2>2
    <3> QED
      BY <2>2, <2>3, <3>1 DEF UndoInv, Chained, Steps
  <2>5. \A i \in 1..Len(trail') : trail'[i].name \in DOMAIN pending'[trail'[i].kind]
    BY <1>6, <2>2, <2>4
  <2>6. ASSUME NEW i \in 1..Len(trail'), NEW j \in 1..Len(trail'), i # j
        PROVE  trail'[i].kind # trail'[j].kind \/ trail'[i].name # trail'[j].name
    <3>1. i + 1 \in 1..Len(trail) /\ j + 1 \in 1..Len(trail) /\ i + 1 # j + 1
      BY <2>2, <2>6
    <3> QED
      BY <2>2, <3>1 DEF UndoInv, Chained
  <2>7. Like(cfg', trail[1].cfg) /\ touched' = trail[1].touched
    BY <1>7, LatestUndone
  <2>8. ASSUME NEW i \in 1..Len(trail')
        PROVE  Link(trail'[i], pending'[trail'[i].kind][trail'[i].name], LeftCfg(i)', LeftTouched(i)')
    <3> DEFINE k == i + 1
    <3>1. k \in 1..Len(trail) /\ trail'[i] = trail[k] /\ k # 1 /\ k - 1 = i /\ i \in 1..Len(trail)
      BY <2>2
    <3>2. Link(trail[k], pending[trail[k].kind][trail[k].name], trail[i].cfg, trail[i].touched)
      BY <3>1 DEF UndoInv, Chained, LeftCfg, LeftTouched
    <3>3. pending'[trail[k].kind][trail[k].name] = pending[trail[k].kind][trail[k].name]
      BY <1>6, <2>4
    <3> DEFINE gone == pending[trail[k].kind][trail[k].name]
    <3>4. CASE i = 1
      <4>1. LeftCfg(i)' = cfg' /\ LeftTouched(i)' = touched'
        BY <3>4 DEF LeftCfg, LeftTouched
      <4>2. PICK n \in Config : /\ Gone(trail[k].kind, trail[k].name, gone, trail[k].cfg, n)
                                /\ Like(trail[1].cfg, n)
        BY <3>2, <3>4 DEF Link
      <4>3. Leaves(trail[k].kind, trail[k].name, gone, trail[k].touched, touched')
        BY <2>7, <3>2, <3>4 DEF Link
      <4>4. Like(cfg', n)
        <5>1. cfg' \in Config /\ trail[1].cfg \in Config
          BY <2>3, <3>1, <3>4 DEF Formed, Steps
        <5> QED
          BY <2>7, <4>2, <5>1, LikeTrans
      <4> HIDE DEF gone, k
      <4>5. Link(trail[k], gone, cfg', touched')
        BY <4>2, <4>3, <4>4 DEF Link
      <4> QED
        BY <3>1, <3>3, <4>1, <4>5 DEF gone
    <3>5. CASE i # 1
      <4>1. trail'[i - 1] = trail[i]
        <5>1. i - 1 \in 1..Len(trail') /\ (i - 1) + 1 = i
          BY <2>2, <3>5
        <5> QED
          BY <2>2, <5>1
      <4>2. LeftCfg(i)' = trail[i].cfg /\ LeftTouched(i)' = trail[i].touched
        BY <3>5, <4>1 DEF LeftCfg, LeftTouched
      <4> HIDE DEF gone, k
      <4> QED
        BY <3>1, <3>2, <3>3, <4>2
    <3> QED
      BY <3>4, <3>5
  <2>9. Chained'
    BY <2>2, <2>5, <2>6, <2>8 DEF Chained
  <2> QED
    BY <1>5, <2>9 DEF UndoInv
<1>8. CASE ~IsLatest(kind, name)
  <2>1. trail' = <<>>
    BY <1>1, <1>8 DEF StageUndo
  <2>2. Chained'
    BY <2>1 DEF Chained
  <2> QED
    BY <1>5, <2>2 DEF UndoInv
<1> QED
  BY <1>7, <1>8

LEMMA NextChains ==
  ASSUME UndoInv, [SessionNext]_sessionVars
  PROVE  UndoInv'
<1>1. CASE UNCHANGED session
  BY <1>1 DEF session, UndoInv, Formed, Fits, Keeps, Held, Chained, Link, LeftCfg, LeftTouched
<1>2. CASE Formed' /\ trail' = <<>> /\ pending' = pending
  BY <1>2 DEF UndoInv, Keeps, Chained
<1> QED
  BY <1>1, <1>2, SessionSteps, DeletionChains, UndoingChains

(* The deletions that cr init has staged, undone latest first, leave the     *)
(* session as it was before each of them: every part, the copies in every    *)
(* profile, the routes, and which profiles were touched.                     *)
THEOREM DeletionsUndone == SessionSpec => UndoneInReverse
<1> DEFINE Restored ==
      \A kind \in Kinds : \A name \in DOMAIN pending[kind] :
        IsLatest(kind, name) /\ name \notin DOMAIN pending'[kind] =>
          Normalized(cfg') = Normalized(Head(trail).cfg) /\ touched' = Head(trail).touched
<1>1. UndoInv /\ [SessionNext]_sessionVars => [Restored]_sessionVars
  <2> SUFFICES ASSUME UndoInv, [SessionNext]_sessionVars, NEW kind \in Kinds, NEW name \in DOMAIN pending[kind],
                      IsLatest(kind, name), name \notin DOMAIN pending'[kind]
               PROVE  Normalized(cfg') = Normalized(Head(trail).cfg) /\ touched' = Head(trail).touched
    OBVIOUS
  <2>1. pending' # pending
    OBVIOUS
  <2>2. ASSUME NEW k \in Kinds, NEW x \in Names, Deletes(k, x)
        PROVE  FALSE
    <3>1. PICK gone : pending' = [pending EXCEPT ![k] = With(@, x, gone)]
      BY <2>2 DEF Deletes, StageDeletion
    <3>2. DOMAIN pending[kind] \subseteq DOMAIN pending'[kind]
      BY <3>1 DEF UndoInv, Keeps, With
    <3> QED
      BY <3>2
  <2>3. PICK k \in Kinds, x \in Names : Formed' /\ Undoes(k, x)
    BY <2>1, <2>2, SessionSteps DEF session
  <2>4. k = kind /\ x = name
    <3>1. pending' = [pending EXCEPT ![k] = Without(@, x)]
      BY <2>3 DEF Undoes, StageUndo
    <3> QED
      BY <3>1 DEF UndoInv, Keeps, Without
  <2>5. Like(cfg', trail[1].cfg) /\ touched' = trail[1].touched
    BY <2>3, <2>4, LatestUndone
  <2>6. trail \in Seq(Steps) /\ trail # <<>>
    BY DEF UndoInv, Chained, IsLatest
  <2>7. Head(trail) = trail[1] /\ trail[1] \in Steps
    BY <2>6
  <2>8. cfg' \in Config /\ trail[1].cfg \in Config
    BY <2>3, <2>7 DEF Formed, Steps
  <2> QED
    BY <2>5, <2>7, <2>8, LikeNormal
<1>2. UndoInv /\ [SessionNext]_sessionVars => UndoInv'
  BY NextChains
<1> QED
  BY InitChained, <1>1, <1>2, PTL DEF SessionSpec, UndoneInReverse

=============================================================================
