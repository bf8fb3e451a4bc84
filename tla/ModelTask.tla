------------------------------ MODULE ModelTask ------------------------------
(***************************************************************************)
(* One task given to a model through a command line tool: the child        *)
(* process and the goroutine that reads it (llm/subprocess.go), the four   *)
(* ways an adapter drives it -- Pi's RPC stream (llmadapters/pi_rpc.go),   *)
(* Codex's JSON lines, Claude in the foreground and Claude as a background *)
(* job (llmadapters/subprocess.go) -- and the foreground retry of a        *)
(* background job whose transport failed.                                  *)
(*                                                                         *)
(* The child, a worker that left its process group and the Claude job      *)
(* service are external: they take any step they can, at any time, or      *)
(* none.  Time is a set of events: the task's budget runs out, the grace   *)
(* of a timer passes, and the goroutine of a timer runs some time after.   *)
(***************************************************************************)
EXTENDS Naturals, Sequences

CONSTANTS
    Adapters,   \* adapters to run: subset of {"pi", "codex", "claude_fg", "claude"}
    MaxLines    \* bound: lines a child writes to its standard output

ASSUME AdaptersAssumption == Adapters \subseteq {"pi", "codex", "claude_fg", "claude"}
ASSUME LinesAssumption == MaxLines \in Nat

VARIABLES
    kind,       \* the adapter, and for Claude the transport it was told to use
    attempt,    \* 1, or 2 once the foreground retry runs
    over,       \* the task's budget is spent
    caller,     \* the caller's context has ended
    child,      \* the child process, its pipe and its context
    read,       \* the goroutine that reads the child and judges the run
    watch,      \* Pi's settlement watch
    job,        \* Claude's background job
    first,      \* result of the background attempt while the retry runs
    out         \* what the caller got

vars == <<kind, attempt, over, caller, child, read, watch, job, first, out>>

\* What a line of output means to its reader.  "refused" stands for a line
\* that fails the run on sight: malformed, a tool call that is not allowed, a
\* refused prompt, a prompt handled without a run.
PiLines == {"refused", "huge", "working", "answer", "failure", "boundary", "settled"}
CodexLines == {"refused", "huge", "working", "answer"}
LinesOf == [k \in {"pi", "codex", "claude_fg", "claude"} |->
              CASE k = "pi" -> PiLines [] k = "codex" -> CodexLines [] OTHER -> {}]

Transport ==
    IF kind = "claude" /\ attempt = 1 THEN "bg"
    ELSE IF kind \in {"claude", "claude_fg"} THEN "fg" ELSE kind

TransportErrors == {"transport", "notstarted"}
NoResult == [err |-> "none", session |-> 0, named |-> FALSE]
NoOut == [ok |-> FALSE, by |-> 0, err |-> "none", session |-> 0]

Errors == {"none", "launch", "read", "refused", "huge", "incompatible", "final", "empty",
           "unsettled", "exit", "cancelled", "deadline", "model"} \cup TransportErrors

ChildType == [st : {"none", "run", "exit0", "exit1", "killed"}, ctx : {"live", "cancelled", "deadline"},
              helper : BOOLEAN, open : BOOLEAN, pipe : Seq(PiLines), wrote : 0 .. MaxLines,
              said : {"nothing", "answer", "failure"}, settled : BOOLEAN,
              file : {"none", "blank", "full"}, id : BOOLEAN]
\* "held": a descendant of the stop or rm command that runs keeps its output open.
ReadType == [pc : {"idle", "scan", "handle", "wait", "judge", "poll", "session", "result", "stop", "rm", "finished"},
             line : PiLines \cup {"none"}, final : {"nothing", "answer", "failure"},
             settled : BOOLEAN, err : Errors, failed : BOOLEAN, seen : BOOLEAN,
             saw : {"nothing", "done"}, sid : BOOLEAN, session : {0, 1, 2}, held : BOOLEAN]
\* "fired": the timer's goroutine has been started and has not marked the watch yet.
WatchType == [armed : BOOLEAN, fired : BOOLEAN, expired : BOOLEAN]
JobType == [worker : {"none", "on", "gone"}, st : {"absent", "created", "working", "idle", "done", "over"},
            session : BOOLEAN, file : {"none", "blank", "full"}, grace : BOOLEAN,
            stopped : {"no", "yes", "failed"}]
FirstType == [err : Errors, session : {0, 1, 2}, named : BOOLEAN]
OutType == [ok : BOOLEAN, by : {0, 1, 2}, err : Errors, session : {0, 1, 2}]

TypeOK ==
    /\ kind \in Adapters /\ attempt \in {1, 2} /\ over \in BOOLEAN /\ caller \in BOOLEAN
    /\ child \in ChildType /\ read \in ReadType /\ watch \in WatchType /\ job \in JobType
    /\ first \in FirstType /\ out \in OutType

Reading(pc) == [pc |-> pc, line |-> "none", final |-> "nothing", settled |-> FALSE,
                err |-> "none", failed |-> FALSE, seen |-> FALSE, saw |-> "nothing",
                sid |-> FALSE, session |-> 0, held |-> FALSE]

Child(st, ctx, helper) ==
    [st |-> st, ctx |-> ctx, helper |-> helper, open |-> st = "run", pipe |-> <<>>, wrote |-> 0,
     said |-> "nothing", settled |-> FALSE, file |-> "none", id |-> FALSE]

Init ==
    /\ kind \in Adapters
    /\ attempt = 1
    /\ over = FALSE /\ caller = FALSE
    /\ child = Child("none", "live", FALSE)
    /\ read = Reading("idle")
    /\ watch = [armed |-> FALSE, fired |-> FALSE, expired |-> FALSE]
    /\ job = [worker |-> "none", st |-> "absent", session |-> FALSE, file |-> "none",
              grace |-> FALSE, stopped |-> "no"]
    /\ first = NoResult
    /\ out = NoOut

\* -------------------------------------------------------- process, context

\* The adapter starts the child.  A child may leave a worker outside its
\* process group that keeps its pipes open.  A context that ended before the
\* start, like any other failure of the launch, starts nothing.
Launch ==
    /\ read.pc = "idle" /\ out = NoOut
    /\ ~over /\ ~caller
    /\ \E helper \in BOOLEAN : child' = Child("run", "live", helper)
    /\ read' = Reading("scan")
    /\ UNCHANGED <<kind, attempt, over, caller, watch, job, first, out>>

\* The first failure of the background attempt is what a retry that could not
\* start reports.
LaunchFails ==
    /\ read.pc = "idle" /\ out = NoOut
    /\ out' = [ok |-> FALSE, by |-> IF attempt = 2 THEN 1 ELSE 0,
               err |-> IF attempt = 2 THEN first.err ELSE "launch",
               session |-> IF attempt = 2 THEN first.session ELSE 0]
    /\ UNCHANGED <<kind, attempt, over, caller, child, read, watch, job, first>>

\* A context keeps the reason it ended for.
Ended(ctx, reason) == IF ctx = "live" THEN reason ELSE ctx

BudgetEnds ==
    /\ out = NoOut /\ ~over
    /\ over' = TRUE
    /\ child' = [child EXCEPT !.ctx = Ended(@, "deadline")]
    /\ UNCHANGED <<kind, attempt, caller, read, watch, job, first, out>>

CallerCancels ==
    /\ out = NoOut /\ ~caller
    /\ caller' = TRUE
    /\ child' = [child EXCEPT !.ctx = Ended(@, "cancelled")]
    /\ UNCHANGED <<kind, attempt, over, read, watch, job, first, out>>

\* The end of the context kills the process group, or failing that the child.
Kill ==
    /\ child.st = "run" /\ child.ctx # "live"
    /\ child' = [child EXCEPT !.st = "killed"]
    /\ UNCHANGED <<kind, attempt, over, caller, read, watch, job, first, out>>

\* Mutant: the pipes are closed only where no worker holds them.
ClosePipesOfGroup ==
    /\ child.open /\ child.ctx # "live" /\ ~child.helper
    /\ child' = [child EXCEPT !.open = FALSE]
    /\ UNCHANGED <<kind, attempt, over, caller, read, watch, job, first, out>>

\* The grace after the end of the context closes the read ends of the pipes.
ClosePipes ==
    /\ child.open /\ child.ctx # "live"
    /\ child' = [child EXCEPT !.open = FALSE]
    /\ UNCHANGED <<kind, attempt, over, caller, read, watch, job, first, out>>

Process == BudgetEnds \/ CallerCancels \/ Kill \/ ClosePipes

\* ------------------------------------------------------- child, job service

\* Nothing is read after a line that ends the reading.
Ending == {"refused", "huge", "settled"}

Say(line) ==
    /\ child.st = "run" /\ child.wrote < MaxLines
    /\ line \in LinesOf[kind]
    /\ child' = [child EXCEPT !.pipe = Append(@, line),
                              !.wrote = IF line \in Ending THEN MaxLines ELSE @ + 1,
                              !.said = IF line \in {"answer", "failure"} THEN line ELSE @,
                              !.settled = line = "settled"]
    /\ UNCHANGED <<kind, attempt, over, caller, read, watch, job, first, out>>

\* A Claude child writes the result file into its scratch directory; the
\* child that only hands the task to the job service does not.
WriteFile ==
    /\ child.st = "run" /\ Transport = "fg" /\ child.file = "none"
    /\ \E f \in {"blank", "full"} : child' = [child EXCEPT !.file = f]
    /\ UNCHANGED <<kind, attempt, over, caller, read, watch, job, first, out>>

\* The child ends on its own.  The one that starts a background job prints
\* the job's id, which the adapter may not be able to read.
Exit ==
    /\ child.st = "run"
    /\ \E st \in {"exit0", "exit1"}, id \in BOOLEAN :
         /\ id => Transport = "bg"
         /\ child' = [child EXCEPT !.st = st, !.id = id]
    /\ UNCHANGED <<kind, attempt, over, caller, read, watch, job, first, out>>

HelperEnds ==
    /\ child.helper /\ out = NoOut
    /\ child' = [child EXCEPT !.helper = FALSE]
    /\ UNCHANGED <<kind, attempt, over, caller, read, watch, job, first, out>>

\* The service has the job as soon as the child has handed it over, and may
\* record it, and give it a session, before or after a worker runs it.
Handed == kind = "claude" /\ attempt = 1 /\ child.st # "none"

Record ==
    /\ Handed \/ job.worker = "on"
    /\ job.st = "absent" /\ job.stopped # "yes"
    /\ \E s \in BOOLEAN : job' = [job EXCEPT !.st = "created", !.session = s]
    /\ UNCHANGED <<kind, attempt, over, caller, child, read, watch, first, out>>

WorkerStarts ==
    /\ kind = "claude" /\ child.st # "none" /\ (attempt = 1 => Handed)
    /\ job.worker = "none" /\ job.st \in {"absent", "created"} /\ job.stopped # "yes"
    /\ job' = [job EXCEPT !.worker = "on"]
    /\ UNCHANGED <<kind, attempt, over, caller, child, read, watch, first, out>>

\* The worker shows in the job's state, publishes its session and writes the
\* result, each when it pleases.
WorkerReports ==
    /\ job.worker = "on" /\ job.st \in {"created", "working", "idle"}
    /\ \E st \in {"working", "idle"}, s \in BOOLEAN :
         /\ job.session => s
         /\ job' = [job EXCEPT !.st = st, !.session = s]
    /\ job' # job
    /\ UNCHANGED <<kind, attempt, over, caller, child, read, watch, first, out>>

WorkerWrites ==
    /\ job.worker = "on" /\ job.file = "none"
    /\ \E f \in {"blank", "full"} : job' = [job EXCEPT !.file = f]
    /\ UNCHANGED <<kind, attempt, over, caller, child, read, watch, first, out>>

\* "done", or "over": failed, waiting, stopped, blocked.  A worker that waits
\* or is blocked is still there.
JobEnds ==
    /\ job.st \in {"created", "working", "idle"}
    /\ \E st \in {"done", "over"}, w \in {job.worker, "gone"} :
         /\ st = "done" => job.worker # "none" /\ w = "gone"
         /\ job' = [job EXCEPT !.st = st, !.worker = w]
    /\ UNCHANGED <<kind, attempt, over, caller, child, read, watch, first, out>>

\* A job that is done may publish its session late.
SessionLate ==
    /\ job.st = "done" /\ ~job.session
    /\ job' = [job EXCEPT !.session = TRUE]
    /\ UNCHANGED <<kind, attempt, over, caller, child, read, watch, first, out>>

\* Once the caller has its answer the job is not followed any further.
Service ==
    /\ out = NoOut
    /\ Record \/ WorkerStarts \/ WorkerReports \/ WorkerWrites \/ JobEnds \/ SessionLate

ChildStep ==
    \/ \E line \in PiLines : Say(line)
    \/ WriteFile \/ Exit \/ HelperEnds

\* ------------------------------------------------------------- the reader

\* EOF needs every writer gone, a worker outside the group included.
Eof == child.pipe = <<>> /\ child.st # "run" /\ ~child.helper

\* Scanning ends: the reader goes on to wait for the child.
ScanEnds(err) == [read EXCEPT !.pc = "wait", !.err = err]

\* Lines matter to Pi and Codex.  Pi looks at its watch once a line is there,
\* and stops the timer in a later step: the timer may fire in between.
TakeLine ==
    /\ read.pc = "scan" /\ child.pipe # <<>> /\ ~watch.expired
    /\ read' = [read EXCEPT !.pc = "handle", !.line = Head(child.pipe)]
    /\ child' = [child EXCEPT !.pipe = Tail(@)]
    /\ UNCHANGED <<kind, attempt, over, caller, watch, job, first, out>>

Quiet ==
    /\ read.pc = "scan" /\ watch.expired
    /\ \/ child.pipe # <<>> \/ Eof \/ ~child.open
    /\ read' = ScanEnds("incompatible")
    /\ UNCHANGED <<kind, attempt, over, caller, child, watch, job, first, out>>

\* Nothing more to read, or the read end was closed under the reader.
ScanDone ==
    /\ read.pc = "scan" /\ ~watch.expired
    /\ \/ Eof /\ read' = ScanEnds("none")
       \/ ~child.open /\ read' = ScanEnds("read")
    /\ UNCHANGED <<kind, attempt, over, caller, child, watch, job, first, out>>

\* Mutant: a failed message leaves the answer before it in place.
LastAnswer(line) == IF line = "answer" THEN line ELSE read.final

\* The last completed assistant message stands for the answer.
LastMessage(line) == IF line \in {"answer", "failure"} THEN line ELSE read.final

\* What a settled run answers with.
FinalError(final) == IF final = "failure" THEN "final" ELSE "none"

\* Stopping the watch drops its timer; one that fired is past stopping.
Stopped(w) == [w EXCEPT !.armed = FALSE]

Handle ==
    /\ read.pc = "handle"
    /\ CASE read.line = "refused" ->
              /\ read' = ScanEnds("refused")
              /\ child' = [child EXCEPT !.ctx = Ended(@, "cancelled")]
         [] read.line = "huge" -> read' = ScanEnds("huge") /\ child' = child
         [] read.line = "settled" ->
              /\ read' = [ScanEnds(FinalError(read.final)) EXCEPT !.settled = TRUE]
              /\ child' = child
         [] OTHER ->
              /\ read' = [read EXCEPT !.pc = "scan", !.line = "none", !.session = attempt,
                                      !.final = LastMessage(read.line)]
              /\ child' = child
    /\ watch' = [Stopped(watch) EXCEPT !.armed = @ \/ read.line = "boundary"]
    /\ UNCHANGED <<kind, attempt, over, caller, job, first, out>>

\* The settlement timer fires.  Its goroutine marks the watch, then cancels
\* the process, each when it comes to it.
TimerFires ==
    /\ watch.armed /\ read.pc \in {"scan", "handle"}
    /\ watch' = [watch EXCEPT !.armed = FALSE, !.fired = TRUE]
    /\ UNCHANGED <<kind, attempt, over, caller, child, read, job, first, out>>

TimerExpires ==
    /\ watch.fired /\ ~watch.expired
    /\ watch' = [watch EXCEPT !.expired = TRUE]
    /\ UNCHANGED <<kind, attempt, over, caller, child, read, job, first, out>>

TimerCancels ==
    /\ watch.expired /\ child.ctx = "live"
    /\ child' = [child EXCEPT !.ctx = "cancelled"]
    /\ UNCHANGED <<kind, attempt, over, caller, read, watch, job, first, out>>

\* Wait returns once the child is gone, and closes the pipes; a child that
\* ended well while its context was ending may be reported either way.
WaitChild ==
    /\ read.pc = "wait" /\ child.st # "run"
    /\ \E failed \in BOOLEAN :
         /\ child.st # "exit0" => failed
         /\ child.ctx = "live" /\ child.st = "exit0" => ~failed
         /\ read' = [read EXCEPT !.pc = "judge", !.failed = failed]
    /\ child' = [child EXCEPT !.open = FALSE]
    /\ UNCHANGED <<kind, attempt, over, caller, watch, job, first, out>>

\* -------------------------------------------------- judging a finished child

\* Mutant: the context is asked before what the reading came to.
PiVerdictContextFirst ==
    IF child.ctx # "live" THEN child.ctx
    ELSE IF read.err # "none" THEN read.err
    ELSE IF read.failed THEN "exit"
    ELSE IF read.settled THEN IF read.final = "nothing" THEN "empty" ELSE "none"
    ELSE "unsettled"

\* In the order each run function asks.
PiVerdict ==
    IF read.err # "none" THEN read.err
    ELSE IF child.ctx = "deadline" THEN "deadline"
    ELSE IF read.settled THEN
        IF read.failed THEN "exit" ELSE IF read.final = "nothing" THEN "empty" ELSE "none"
    ELSE IF child.ctx # "live" THEN child.ctx
    ELSE IF read.failed THEN "exit" ELSE "unsettled"

\* The three questions the other run functions begin with.
Finished(otherwise) ==
    IF read.err # "none" THEN read.err
    ELSE IF child.ctx # "live" THEN child.ctx
    ELSE IF read.failed THEN "exit" ELSE otherwise

CodexVerdict == Finished(IF read.final = "nothing" THEN "empty" ELSE "none")

ForegroundVerdict == Finished(IF child.file = "full" THEN "none" ELSE "model")

\* Of the child that hands the task to the job service; "none" goes on to the job.
HandoverVerdict == Finished(IF child.id THEN "none" ELSE "transport")

\* Finishing cancels the context, closes what is open and removes the scratch
\* directory before it publishes the result.
Finish(err, session) ==
    /\ read' = [read EXCEPT !.pc = "finished", !.err = err, !.session = session]
    /\ child' = [child EXCEPT !.ctx = Ended(@, "cancelled")]

Judge ==
    /\ read.pc = "judge"
    /\ \/ /\ Transport = "pi" /\ Finish(PiVerdict, read.session)
       \/ /\ Transport = "codex" /\ Finish(CodexVerdict, read.session)
       \/ /\ Transport = "fg"
          /\ \E told \in BOOLEAN :
               Finish(ForegroundVerdict,
                      IF told /\ ForegroundVerdict \in {"none", "model"} THEN attempt ELSE 0)
       \/ /\ Transport = "bg" /\ HandoverVerdict # "none"
          /\ Finish(HandoverVerdict, 0)
       \/ /\ Transport = "bg" /\ HandoverVerdict = "none"
          /\ read' = [read EXCEPT !.pc = "poll"] /\ child' = child
    /\ UNCHANGED <<kind, attempt, over, caller, watch, job, first, out>>

\* ------------------------------------------------------- the background job

GraceEnds ==
    /\ read.pc = "poll" /\ ~job.grace
    /\ job' = [job EXCEPT !.grace = TRUE]
    /\ UNCHANGED <<kind, attempt, over, caller, child, read, watch, first, out>>

\* Once the outcome is known the adapter cleans up: a job that failed is
\* stopped, every job it could name is removed.  Each is a run of claude under
\* a limit of its own, ten seconds, whatever became of the task's context; the
\* limit ends the command, not a descendant that keeps its output open.
CleanUp(to, err, session) ==
    \E held \in BOOLEAN :
        read' = [read EXCEPT !.pc = to, !.err = err, !.session = session, !.held = held]

SessionOf == IF job.session THEN 1 ELSE 0

Ready == job.st = "done" \/ (job.st = "idle" /\ job.file # "none")
NoWorker == job.st = "created"

\* One look at the job's state file; a file half written is not readable.
PollState ==
    /\ read.pc = "poll" /\ job.st # "absent"
    /\ CASE Ready -> read' = [read EXCEPT !.pc = "session", !.saw = "done", !.sid = job.session]
         [] ~Ready /\ job.st = "over" -> CleanUp("stop", "transport", SessionOf)
         [] ~Ready /\ NoWorker /\ job.grace -> CleanUp("stop", "notstarted", 0)
         [] OTHER -> read' = [read EXCEPT !.seen = TRUE, !.sid = job.session]
    /\ UNCHANGED <<kind, attempt, over, caller, child, watch, job, first, out>>

PollNothing ==
    /\ read.pc = "poll" /\ ~read.seen /\ job.grace
    /\ CleanUp("stop", "notstarted", 0)
    /\ UNCHANGED <<kind, attempt, over, caller, child, watch, job, first, out>>

PollTimeout ==
    /\ read.pc = "poll" /\ child.ctx # "live"
    /\ CleanUp("stop", child.ctx, IF read.sid THEN 1 ELSE 0)
    /\ UNCHANGED <<kind, attempt, over, caller, child, watch, job, first, out>>

\* A finished job is given a grace to publish its session.
AwaitSession ==
    /\ read.pc = "session"
    /\ \E known \in BOOLEAN :
         /\ read.sid => known
         /\ known => read.sid \/ job.session
         /\ read' = [read EXCEPT !.pc = "result", !.sid = known]
    /\ UNCHANGED <<kind, attempt, over, caller, child, watch, job, first, out>>

\* The result first, the session second.
ResultVerdict(file, sid) ==
    CASE file = "full" -> "none"
      [] file = "none" /\ ~sid -> "transport"
      [] OTHER -> "model"

ReadResult ==
    /\ read.pc = "result"
    /\ LET err == ResultVerdict(job.file, read.sid)
       IN  CleanUp(IF err = "none" THEN "rm" ELSE "stop", err, IF read.sid THEN 1 ELSE 0)
    /\ UNCHANGED <<kind, attempt, over, caller, child, watch, job, first, out>>

\* Mutant: a job that never started is not stopped.
StopStartedJob ==
    /\ read.pc = "stop" /\ ~read.held
    /\ \/ read.err # "notstarted" /\ job' = [job EXCEPT !.stopped = "yes", !.worker = "gone"]
       \/ read.err # "notstarted" /\ job' = [job EXCEPT !.stopped = "failed"]
       \/ read.err = "notstarted" /\ job' = job
    /\ CleanUp("rm", read.err, read.session)
    /\ UNCHANGED <<kind, attempt, over, caller, child, watch, first, out>>

\* Stopping the job, which may fail and then only warns.
StopJob ==
    /\ read.pc = "stop" /\ ~read.held
    /\ \/ job' = [job EXCEPT !.stopped = "yes", !.worker = "gone"]
       \/ job' = [job EXCEPT !.stopped = "failed"]
    /\ CleanUp("rm", read.err, read.session)
    /\ UNCHANGED <<kind, attempt, over, caller, child, watch, first, out>>

\* Removing the job, and the stale ones of earlier days, of which nothing is
\* read again.
RemoveJob ==
    /\ read.pc = "rm" /\ ~read.held
    /\ Finish(read.err, read.session)
    /\ UNCHANGED <<kind, attempt, over, caller, watch, job, first, out>>

\* The descendant ends or closes the command's output, when it pleases.
DescendantLetsGo ==
    /\ read.held
    /\ read' = [read EXCEPT !.held = FALSE]
    /\ UNCHANGED <<kind, attempt, over, caller, child, watch, job, first, out>>

\* ---------------------------------------------------------------- the caller

\* A result that comes after the caller's context ended is not used.
Reported == IF read.err = "none" /\ caller THEN "cancelled" ELSE read.err

Retryable(err) == Transport = "bg" /\ err \in TransportErrors /\ ~caller

\* The one retry: the same request in the foreground, on what is left of the
\* task's budget, in a scratch directory of its own.
Retry ==
    /\ read.pc = "finished" /\ out = NoOut
    /\ Retryable(read.err)
    /\ attempt' = attempt + 1
    /\ first' = [err |-> read.err, session |-> read.session, named |-> child.id]
    /\ read' = Reading("idle")
    /\ child' = Child("none", "live", FALSE)
    /\ UNCHANGED <<kind, over, caller, watch, job, out>>

\* Mutant: the background job's session is reported whoever answered.
AnswerOfPrimary(won) ==
    [ok |-> won /\ Reported = "none", by |-> IF won THEN attempt ELSE 1,
     err |-> IF won THEN Reported ELSE first.err,
     session |-> IF first.session # 0 THEN first.session ELSE read.session]

\* The session reported is that of the stream whose response is returned, and
\* a retry that failed leaves the first failure to report.
Answer(won) ==
    IF won THEN [ok |-> Reported = "none", by |-> attempt, err |-> Reported, session |-> read.session]
    ELSE [ok |-> FALSE, by |-> 1, err |-> first.err, session |-> first.session]

Return ==
    /\ read.pc = "finished" /\ out = NoOut
    /\ ~Retryable(read.err)
    /\ out' = Answer(attempt = 1 \/ Reported = "none")
    /\ UNCHANGED <<kind, attempt, over, caller, child, read, watch, job, first>>

Reader ==
    \/ TakeLine \/ Quiet \/ ScanDone \/ Handle \/ WaitChild \/ Judge
    \/ PollTimeout \/ AwaitSession \/ ReadResult \/ StopJob \/ RemoveJob

Code ==
    \/ Launch \/ LaunchFails
    \/ Reader
    \/ PollState \/ PollNothing
    \/ Retry \/ Return

Next ==
    \/ Code \/ Process \/ TimerFires \/ TimerExpires \/ TimerCancels \/ GraceEnds
    \/ ChildStep \/ Service \/ DescendantLetsGo

\* The adapter's goroutines run, the operating system kills, closes and reaps,
\* the budget of a task (fourteen minutes unless set) runs out, and so do the
\* ten seconds of a command that cleans up.  Nothing is assumed of the child,
\* of the worker it left behind, of the job service, or of what such a command
\* leaves behind.
Fairness ==
    /\ WF_vars(Launch \/ LaunchFails)
    /\ WF_vars(Reader)
    /\ WF_vars(Retry \/ Return)
    /\ WF_vars(BudgetEnds)
    /\ WF_vars(Kill)
    /\ WF_vars(ClosePipes)

Spec == Init /\ [][Next]_vars /\ Fairness

------------------------------------------------------------------------------
\* Every task ends: a child that hangs, a worker that left the process group
\* and holds its pipes, or a background job that never says it is done costs
\* at most the task's budget and the commands that clean up
\* (llm/subprocess.go:29-35, 121-125).  One thing alone can keep it: a
\* descendant of a claude stop or claude rm that never closes the output it
\* was given, for which these commands have no limit (subprocess.go:1862-1878).
TaskEnds == <>(out # NoOut) \/ <>[](read.held)

\* The retry of a background job is not run beside the worker it replaces,
\* but where cr could not name the job or the service would not stop it
\* (subprocess.go:498-530, 1828-1845).
RetryAlone ==
    attempt = 2 /\ child.st = "run" /\ job.worker = "on"
        => ~first.named \/ job.stopped = "failed"

\* The session reported is that of the stream whose answer or error is
\* reported, or none: a resume never asks for the session of a job that the
\* retry replaced, nor for one of a retry whose failure is not the one
\* reported (subprocess.go:485-496, 498-530).
SessionOfItsAnswer == out.session \in {0, out.by}

\* Pi's answer is the last message it completed before it settled, and never
\* text of an earlier turn or of a failed attempt (pi_rpc.go:662-690).
OnlyTheFinalAnswer ==
    kind = "pi" /\ out.ok => child.settled /\ child.said = "answer"

\* A run that fails for a reason of its own is never reported as interrupted.
\* It cancels its own context when it refuses a line, when its watch expires
\* and when it finishes, and a context error is taken for an interruption that
\* no reviewer of a review may be charged with (llmlifecycle/lifecycle.go:476-484):
\* the caller is named only where it cancelled, the budget only where it ran
\* out.  The one exception is a settlement watch that expires after the reader
\* has looked at it for the last time (pi_rpc.go:654, 604).
InterruptionsAreReal ==
    /\ out.err = "cancelled" => caller \/ watch.expired
    /\ out.err = "deadline" => over

\* ------------------------------------------------ what the code does not keep
\* Three more formulas, true to the comments they cite and not true of the
\* code.

\* However claude's cleanup commands fare, the task ends (llm/subprocess.go:29-35
\* of the child itself): no limit binds a descendant that holds their output.
EveryTaskEnds == <>(out # NoOut)

\* A job no worker ever ran is reported without its session
\* (subprocess.go:93-96): it is reported with it when the budget ends first
\* (1655-1666), or the service gives the job up (1591-1593, 1638-1644).
NoSessionWithoutWorker ==
    kind = "claude" /\ out.by = 1 /\ job.worker = "none" => out.session = 0

\* The settlement watch fails a run that goes quiet after a boundary
\* (pi_rpc.go:692-693): one that has written a line the reader holds, or has
\* not come to yet, has not gone quiet.
ExpiresOnQuiet ==
    [][~watch.expired /\ watch'.expired => read.pc = "scan" /\ child.pipe = <<>>]_vars
==============================================================================
