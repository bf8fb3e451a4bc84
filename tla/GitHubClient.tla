---------------------------- MODULE GitHubClient ----------------------------
(* The GitHub client under gitprovider and gitexec, for a GitHub App: calls *)
(* that read page by page, calls that write, git fetches, the installation  *)
(* token they share, and the retries.  The clocks are what the code         *)
(* compares: time since a loop began, time left of a sleep and of a token.  *)
(* One unit of time stands for whatever the policy is given in.             *)
EXTENDS Integers

CONSTANTS
  Callers,        \* goroutines that use one client
  Nobody,
  MaxAttempts,    \* RetryPolicy: attempts of one request
  BaseDelay,      \* first backoff
  MaxDelay,       \* longest backoff
  MaxWait,        \* longest wait of the host's that is sat through
  MaxElapsed,     \* time after which no attempt is made any more
  RateLimitWait,  \* assumed for a rate limit that names no wait
  AttemptTime,    \* timeout of the HTTP client
  InitTimeout,    \* deadline of the client's construction
  Skew,           \* a token with less left than this is replaced
  FetchAttempts,  \* attempts of a git fetch
  FetchDelay,     \* its first backoff
  Lifetime,       \* external: life of an installation token at the host
  Waits,          \* external: waits the host asks for
  MaxPages        \* bound: pages of one listing

ASSUME PolicyAssumption ==
  /\ MaxAttempts \in Nat \ {0} /\ FetchAttempts \in Nat \ {0} /\ MaxPages \in Nat \ {0}
  /\ BaseDelay \in Nat \ {0} /\ MaxDelay \in Nat \ {0} /\ FetchDelay \in Nat \ {0}
  /\ MaxWait \in Nat /\ MaxElapsed \in Nat /\ RateLimitWait \in Nat
  /\ AttemptTime \in Nat /\ InitTimeout \in Nat /\ Skew \in Nat /\ Lifetime \in Nat
  /\ Waits \subseteq Nat
  /\ Nobody \notin Callers

\* Five minutes each; GitHub's tokens live for an hour.
ASSUME TokenAssumption == MaxElapsed <= Skew /\ Skew + AttemptTime < Lifetime

VARIABLES
  built,     \* the client has its first token
  left,      \* life left of the stored token
  mu,        \* the caller that holds the mutex of the token
  initLeft,  \* time left for the construction
  call       \* what each caller is doing

vars == <<built, left, mu, initLeft, call>>

-----------------------------------------------------------------------------
(* Calls. *)

Ops   == {"new", "read", "write", "fetch"}
Loops == {"lookup", "mint", "api"}     \* requests that are repeated by retrier.repeat

\* page counts the pages of a listing, and the attempts of a fetch.  clock is
\* the age of the attempt in flight, or what is left of a sleep; held the life
\* left of the token the call carries; over says that its context is cancelled.
Idle == [op |-> "read", at |-> "idle", ph |-> "go", page |-> 1, tries |-> 1,
         elapsed |-> 0, clock |-> 0, held |-> 0, over |-> FALSE]

At(c, step)     == call[c].at = step
InFlight(c)     == call[c].ph = "flight"
Becomes(c, rec) == call' = [call EXCEPT ![c] = rec]

Ended(c) == call[c].over \/ (call[c].op = "new" /\ initLeft = 0)

\* The first attempt of a request; the token it carries is not taken again.
Loop(rec, step) ==
  [rec EXCEPT !.at = step, !.ph = "go", !.tries = 1, !.elapsed = 0, !.clock = 0]

WithToken(rec, life) ==
  Loop([rec EXCEPT !.held = life], IF rec.op = "fetch" THEN "git" ELSE "api")

Waiting(rec) == [rec EXCEPT !.at = "lock", !.ph = "go", !.clock = 0, !.elapsed = 0]

\* Mutant: the mutex is kept.
ReturnHolding(c) == Becomes(c, Idle) /\ UNCHANGED mu

\* The call returns, and lets go of the mutex.
Return(c) == Becomes(c, Idle) /\ mu' = IF mu = c THEN Nobody ELSE mu

-----------------------------------------------------------------------------
(* The retry policy. *)

NoWait == -1
Hints  == Waits \cup {RateLimitWait, NoWait}

Capped(d, cap) == IF d > cap THEN cap ELSE d

Backoff(tries) == Capped(BaseDelay * 2 ^ (tries - 1), MaxDelay)

\* Half of the backoff at least, all of it at most.
Jitter(d, cap) == {j \in 1..cap : d \div 2 <= j /\ j <= d}

Delay(j, hint) == IF hint > j THEN hint ELSE j

\* One attempt, whatever comes of it: retrySafeOperation.
Once(c) == At(c, "api") /\ call[c].op = "write"

\* Mutant: the wait is left out of the total.
OverBudgetAtFailure(c, d) == call[c].elapsed > MaxElapsed

OverBudget(c, d) == call[c].elapsed + d > MaxElapsed

GivesUp(c, d, hint) ==
  \/ Once(c) \/ Ended(c)
  \/ call[c].tries >= MaxAttempts
  \/ hint > MaxWait
  \/ OverBudget(c, d)
  \/ call[c].op = "new" /\ d > initLeft

-----------------------------------------------------------------------------
(* A call gets its token. *)

\* Mutant: fresh as long as it lives.
FreshAtAll == left > 0

Fresh == left > Skew

\* The constructor refreshes without a look at the token; every other call is
\* made with a client that is there.
Begin(c, op) ==
  /\ At(c, "idle")
  /\ IF op = "new"
     THEN /\ ~built /\ mu = Nobody
          /\ mu' = c /\ initLeft' = InitTimeout
          /\ Becomes(c, Loop([Idle EXCEPT !.op = op], "lookup"))
     ELSE /\ built
          /\ Becomes(c, Waiting([Idle EXCEPT !.op = op]))
          /\ UNCHANGED <<mu, initLeft>>
  /\ UNCHANGED <<built, left>>

\* Under the mutex, which is waited for even if the context has ended.
TakeToken(c) ==
  /\ At(c, "lock") /\ mu = Nobody
  /\ IF Fresh
     THEN Becomes(c, WithToken(call[c], left)) /\ UNCHANGED mu
     ELSE Becomes(c, Loop(call[c], "lookup")) /\ mu' = c
  /\ UNCHANGED <<built, left, initLeft>>

LookedUp(c) ==
  /\ At(c, "lookup") /\ InFlight(c) /\ ~Ended(c)
  /\ Becomes(c, Loop(call[c], "mint"))
  /\ UNCHANGED <<built, left, mu, initLeft>>

\* The host made the token while the request was on its way.
Minted(c) ==
  /\ At(c, "mint") /\ InFlight(c) /\ ~Ended(c)
  /\ \E age \in 0..call[c].clock :
       /\ left' = Lifetime - age
       /\ Becomes(c, IF call[c].op = "new" THEN Idle ELSE WithToken(call[c], left'))
  /\ mu' = Nobody
  /\ built' = TRUE
  /\ UNCHANGED initLeft

-----------------------------------------------------------------------------
(* Requests. *)

Send(c) ==
  /\ call[c].at \notin {"idle", "lock"} /\ call[c].ph = "go"
  /\ Becomes(c, [call[c] EXCEPT !.ph = "flight", !.clock = 0])
  /\ UNCHANGED <<built, left, mu, initLeft>>

Answered(c) ==
  /\ call[c].at \in {"api", "git"} /\ InFlight(c) /\ ~Ended(c)
  /\ Return(c)
  /\ UNCHANGED <<built, left, initLeft>>

\* The answer names another page, which is asked for like the first.
NextPage(c) ==
  /\ At(c, "api") /\ call[c].op = "read" /\ InFlight(c) /\ ~Ended(c)
  /\ call[c].page < MaxPages
  /\ Becomes(c, Waiting([call[c] EXCEPT !.page = @ + 1]))
  /\ UNCHANGED <<built, left, mu, initLeft>>

\* A failure that another attempt cannot mend.
Refused(c) ==
  /\ InFlight(c)
  /\ Return(c)
  /\ UNCHANGED <<built, left, initLeft>>

\* 5xx, a rate limit, a broken connection, the timeout.
Failed(c, hint) ==
  /\ call[c].at \in Loops /\ InFlight(c)
  /\ \E j \in Jitter(Backoff(call[c].tries), MaxDelay) :
       LET d == Delay(j, hint) IN
       IF GivesUp(c, d, hint)
       THEN Return(c)
       ELSE Becomes(c, [call[c] EXCEPT !.ph = "asleep", !.clock = d]) /\ UNCHANGED mu
  /\ UNCHANGED <<built, left, initLeft>>

Wake(c) ==
  /\ call[c].at \in Loops /\ call[c].ph = "asleep" /\ call[c].clock = 0
  /\ Becomes(c, [call[c] EXCEPT !.ph = "go", !.tries = @ + 1])
  /\ UNCHANGED <<built, left, mu, initLeft>>

SleepCut(c) ==
  /\ call[c].ph = "asleep" /\ Ended(c)
  /\ Return(c)
  /\ UNCHANGED <<built, left, initLeft>>

-----------------------------------------------------------------------------
(* git fetch: each attempt asks for the token. *)

FetchFailed(c) ==
  /\ At(c, "git") /\ InFlight(c)
  /\ IF Ended(c) \/ call[c].page >= FetchAttempts
     THEN Return(c)
     ELSE LET backoff == FetchDelay * 2 ^ (call[c].page - 1) IN
          /\ \E d \in Jitter(backoff, backoff) :
               Becomes(c, [call[c] EXCEPT !.ph = "asleep", !.clock = d])
          /\ UNCHANGED mu
  /\ UNCHANGED <<built, left, initLeft>>

FetchAgain(c) ==
  /\ At(c, "git") /\ call[c].ph = "asleep" /\ call[c].clock = 0
  /\ Becomes(c, Waiting([call[c] EXCEPT !.page = @ + 1]))
  /\ UNCHANGED <<built, left, mu, initLeft>>

-----------------------------------------------------------------------------
(* Time and cancellation. *)

Cancel(c) ==
  /\ ~At(c, "idle") /\ ~call[c].over
  /\ Becomes(c, [call[c] EXCEPT !.over = TRUE])
  /\ UNCHANGED <<built, left, mu, initLeft>>

\* What is done before time goes on.  No timeout bounds git.
Urgent(c) ==
  \/ At(c, "lock") /\ mu = Nobody
  \/ call[c].at \notin {"idle", "lock"} /\ call[c].ph = "go"
  \/ InFlight(c) /\ (Ended(c) \/ (~At(c, "git") /\ call[c].clock >= AttemptTime))
  \/ call[c].ph = "asleep" /\ (Ended(c) \/ call[c].clock = 0)

Down(t) == IF t > 0 THEN t - 1 ELSE 0

Older(rec) ==
  [rec EXCEPT !.held = Down(@),
              !.elapsed = IF rec.at \in Loops THEN @ + 1 ELSE @,
              !.clock = IF rec.ph = "asleep" THEN Down(@)
                        ELSE IF rec.ph = "flight" /\ rec.at # "git" THEN @ + 1
                        ELSE @]

Tick ==
  /\ \A c \in Callers : ~Urgent(c)
  /\ left' = Down(left)
  /\ initLeft' = Down(initLeft)
  /\ call' = [c \in Callers |-> Older(call[c])]
  /\ UNCHANGED <<built, mu>>

-----------------------------------------------------------------------------

Init ==
  /\ built = FALSE /\ left = 0 /\ mu = Nobody /\ initLeft = 0
  /\ call = [c \in Callers |-> Idle]

Step(c) ==
  \/ LookedUp(c) \/ Minted(c) \/ Send(c) \/ Answered(c) \/ NextPage(c) \/ Refused(c)
  \/ \E hint \in Hints : Failed(c, hint)
  \/ Wake(c) \/ SleepCut(c) \/ FetchFailed(c) \/ FetchAgain(c)

Next ==
  \/ \E c \in Callers : \/ \E op \in Ops : Begin(c, op)
                        \/ TakeToken(c) \/ Step(c) \/ Cancel(c)
  \/ Tick

Spec == Init /\ [][Next]_vars

(* Goroutines run and requests are answered or time out, git ends; time     *)
(* goes on, since calls take some; and Go hands its mutex to a goroutine    *)
(* that has been waiting (sync.Mutex's starvation mode).                    *)
Fairness ==
  /\ \A c \in Callers : WF_vars(Step(c)) /\ SF_vars(TakeToken(c))
  /\ SF_vars(Tick)

FairSpec == Spec /\ Fairness

-----------------------------------------------------------------------------
(* Properties. *)

CallType ==
  [op : Ops, at : {"idle", "lock", "git"} \cup Loops, ph : {"go", "flight", "asleep"},
   page : Nat \ {0}, tries : Nat \ {0}, elapsed : Nat, clock : Nat, held : Nat,
   over : BOOLEAN]

TypeOK ==
  /\ built \in BOOLEAN /\ left \in Nat /\ initLeft \in Nat
  /\ mu \in Callers \cup {Nobody}
  /\ call \in [Callers -> CallType]

(* No request and no fetch is sent with a token that has expired, though a  *)
(* token is looked at once and the request may be repeated for minutes.     *)
TokenAlive ==
  \A c \in Callers :
    call[c].at \in {"api", "git"} /\ call[c].ph = "go" => call[c].held > 0

(* Attempts, waits and timeouts together: a request is given up after       *)
(* MaxAttempts, and no later than one attempt after MaxElapsed.             *)
EndsInTime ==
  \A c \in Callers : call[c].at \in Loops =>
    /\ call[c].tries <= MaxAttempts
    /\ call[c].elapsed <= MaxElapsed + AttemptTime

(* Every call ends, also the one that waits for another's refresh.          *)
CallsEnd == \A c \in Callers : ~At(c, "idle") ~> At(c, "idle")

=============================================================================
