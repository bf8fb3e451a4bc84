------------------------- MODULE TaskRespondProofs -------------------------
(***************************************************************************)
(* Theorems about one task given to a model (ModelTask), for every set of  *)
(* adapters, every number of lines a child writes and every schedule of    *)
(* the child, its reader, the timers and the job service; and, from        *)
(* "Answers to discussions" on, about cr respond (ThreadRespond), which    *)
(* gives the model such tasks: nobody is answered twice, for any threads,  *)
(* processes, calls and upsets.                                            *)
(***************************************************************************)
EXTENDS ModelTask, ThreadRespond, SequenceTheorems, FiniteSetTheorems, WellFoundedInduction, TLAPS

\* The lines that complete a message.
Messages == {"answer", "failure"}
\* The labels at which the child is gone; those at which its job is followed.
Judged == {"judge", "poll", "session", "result", "stop", "rm", "finished"}
JobLabels == {"poll", "session", "result"}

\* What a label says: a retry is Claude's, a reader that has begun has a
\* child, errors appear where they are raised, and an answer is the one of the
\* attempt that is current.
Control ==
  /\ attempt = 2 => kind = "claude"
  /\ read.pc = "idle" <=> child.st = "none"
  /\ read.pc \in Judged => child.st # "run"
  /\ read.pc \in JobLabels \cup {"stop", "rm"} => kind = "claude" /\ attempt = 1
  /\ read.pc \in {"idle", "scan", "handle", "wait", "judge"} => read.err \notin TransportErrors
  /\ read.pc \in JobLabels => read.err = "none"
  /\ read.pc \in {"idle", "scan", "handle"} => read.err = "none" /\ ~read.settled
  /\ read.session \in {0, attempt} /\ first.session \in {0, 1} /\ out.session \in {0, out.by}
  /\ out.ok => read.pc = "finished" /\ read.err = "none" /\ out.by = attempt /\ out.session = read.session

\* A stopped job has no worker; the adapter gives a named job up only once it
\* has tried to stop it, and a retry knows that of the first attempt.
Retired ==
  /\ job.stopped = "yes" => job.worker = "gone"
  /\ read.pc \in {"rm", "finished"} /\ kind = "claude" /\ attempt = 1 /\ read.err \in TransportErrors =>
        ~child.id \/ job.stopped # "no"
  /\ attempt = 2 => ~first.named \/ job.stopped # "no"

\* What the reader will hold as the last message once the line in hand is dealt
\* with.
Heard == IF read.pc = "handle" THEN LastMessage(read.line) ELSE read.final
\* The i-th line in the pipe completes no message.
Silent(i) == child.pipe[i] \notin Messages

\* "settled" is the last line ever written; the last message said is the last
\* one in the pipe, or with none there the one the reader has heard.
Piped ==
  /\ child.settled => child.wrote = MaxLines
  /\ \A i \in DOMAIN child.pipe : child.pipe[i] = "settled" => i = Len(child.pipe) /\ child.settled
  /\ read.pc = "handle" /\ read.line = "settled" => child.pipe = <<>> /\ child.settled
  /\ read.pc \in {"idle", "scan", "handle"} =>
       /\ (\A i \in DOMAIN child.pipe : Silent(i)) => child.said = Heard
       /\ \A i \in DOMAIN child.pipe :
             ~Silent(i) /\ (\A j \in DOMAIN child.pipe : j > i => Silent(j)) => child.said = child.pipe[i]

\* A settled reader has heard the child out; an answer of Pi is the last thing
\* a settled child said.
Final ==
  /\ read.settled /\ read.pc # "finished" =>
       child.settled /\ child.said = read.final /\ (read.err = "none" => read.final # "failure")
  /\ kind = "pi" /\ read.pc = "finished" /\ read.err = "none" => child.settled /\ child.said = "answer"

\* An end for which the caller, the watch or the budget may be named.
Owed(err) ==
  /\ err = "cancelled" => caller \/ watch.expired
  /\ err = "deadline" => over

\* Why a context has ended: for what can be named, but for a run that cancelled
\* itself, which has an error of its own or is finished.  No error says
\* otherwise, and the failure a retry keeps is none of these.
Causes ==
  /\ child.ctx = "deadline" => over
  /\ child.ctx = "cancelled" => caller \/ watch.expired \/ read.err = "refused" \/ read.pc = "finished"
  /\ Owed(read.err) /\ Owed(out.err)
  /\ first.err \in TransportErrors \cup {"none"}

\* The inductive invariant.
Inv == TypeOK /\ Control /\ Retired /\ Piped /\ Final /\ Causes

(* The initial states. *)
LEMMA InitInv == ASSUME Init PROVE Inv
<1>1. TypeOK
  <2>1. <<>> \in Seq(PiLines) /\ 0 \in 0 .. MaxLines
    BY LinesAssumption
  <2>2. child \in ChildType
    BY <2>1 DEF Init, ChildType, Child
  <2>3. read \in ReadType /\ job \in JobType /\ watch \in WatchType
    BY DEF Init, ReadType, Reading, JobType, WatchType, Errors
  <2>4. first \in FirstType /\ out \in OutType
    BY DEF Init, FirstType, OutType, NoResult, NoOut, Errors
  <2> QED BY <2>2, <2>3, <2>4 DEF Init, TypeOK
<1>2. Control /\ Retired /\ Final /\ Causes
  BY DEF Init, Control, Retired, Final, Causes, Owed, Child, Reading, NoResult, NoOut, TransportErrors, Judged, JobLabels
<1>3. Piped
  BY DEF Init, Piped, Heard, Child, Reading
<1> QED BY <1>1, <1>2, <1>3 DEF Inv

(* A step of the child, the system or the job service that writes no line and
   stops no job keeps the invariant, whatever else it does (subprocess.go). *)
LEMMA Kept ==
  ASSUME Inv, UNCHANGED <<kind, attempt, read, watch, first, out>>,
         child' \in ChildType, job' \in JobType, over' \in BOOLEAN, caller' \in BOOLEAN,
         over => over', caller => caller',
         child'.ctx = child.ctx \/ (child'.ctx = "cancelled" /\ (caller' \/ watch.expired))
           \/ (child'.ctx = "deadline" /\ over'),
         child'.pipe = child.pipe, child'.said = child.said, child'.settled = child.settled,
         child'.wrote = child.wrote,
         child'.st # child.st \/ child'.id # child.id => child.st = "run" /\ child'.st \notin {"none", "run"},
         job'.stopped = job.stopped,
         job'.stopped = "yes" => job'.worker = job.worker
  PROVE  Inv'
<1>1. TypeOK'
  BY DEF Inv, TypeOK
<1>2. Control'
  BY DEF Inv, Control, Judged
<1>3. Retired' /\ Causes' /\ Final'
  BY DEF Inv, Control, Retired, Judged, Causes, Owed, Final
<1>4. Piped'
  BY DEF Inv, Piped, Heard, Silent, LastMessage
<1> QED BY <1>1, <1>2, <1>3, <1>4 DEF Inv

(* The budget, the caller, the kill, the grace of the pipes and the cancel of
   the settlement watch (llm/subprocess.go, pi_rpc.go). *)
LEMMA ProcessInv ==
  ASSUME Inv, Process \/ TimerCancels
  PROVE  Inv'
<1>0. child \in ChildType /\ job \in JobType
  BY DEF Inv, TypeOK
<1>1. CASE BudgetEnds
  <2>1. child' \in ChildType /\ child' = [child EXCEPT !.ctx = child'.ctx] /\ UNCHANGED <<kind, attempt, read, watch, first, out, caller, job>> /\ over' = TRUE
        /\ child'.ctx \in {child.ctx, "deadline"}
    BY <1>0, <1>1 DEF BudgetEnds, Ended, ChildType
  <2> QED BY <1>0, <2>1, Kept DEF Inv, TypeOK, ChildType
<1>2. CASE CallerCancels
  <2>1. child' \in ChildType /\ child' = [child EXCEPT !.ctx = child'.ctx] /\ UNCHANGED <<kind, attempt, read, watch, first, out, over, job>> /\ caller' = TRUE
        /\ child'.ctx \in {child.ctx, "cancelled"}
    BY <1>0, <1>2 DEF CallerCancels, Ended, ChildType
  <2> QED BY <1>0, <2>1, Kept DEF Inv, TypeOK, ChildType
<1>3. CASE TimerCancels
  <2>1. child' \in ChildType /\ child' = [child EXCEPT !.ctx = child'.ctx] /\ UNCHANGED <<kind, attempt, read, watch, first, out, over, job, caller>>
        /\ child'.ctx = "cancelled" /\ watch.expired
    BY <1>0, <1>3 DEF TimerCancels, ChildType
  <2> QED BY <1>0, <2>1, Kept DEF Inv, TypeOK, ChildType
<1>4. CASE Kill
  <2>1. child' \in ChildType /\ child.st = "run" /\ child' = [child EXCEPT !.st = "killed"] /\ UNCHANGED <<kind, attempt, read, watch, first, out, over, job, caller>>
    BY <1>0, <1>4 DEF Kill, ChildType
  <2> QED BY <1>0, <2>1, Kept DEF Inv, TypeOK, ChildType
<1>5. CASE ClosePipes
  <2>1. child' \in ChildType /\ child' = [child EXCEPT !.open = FALSE] /\ UNCHANGED <<kind, attempt, read, watch, first, out, over, job, caller>>
    BY <1>0, <1>5 DEF ClosePipes, ChildType
  <2> QED BY <1>0, <2>1, Kept DEF Inv, TypeOK, ChildType
<1> QED BY <1>1, <1>2, <1>3, <1>4, <1>5 DEF Process

(* The job service and the grace given to a job that has not started. *)
LEMMA ServiceInv ==
  ASSUME Inv, Service \/ GraceEnds
  PROVE  Inv'
<1>0. child \in ChildType /\ job \in JobType
  BY DEF Inv, TypeOK
<1>1. UNCHANGED <<kind, attempt, over, caller, child, read, watch, first, out>>
  BY DEF Service, GraceEnds, Record, WorkerStarts, WorkerReports, WorkerWrites, JobEnds, SessionLate
<1>2. job' \in JobType /\ job'.stopped = job.stopped
  BY <1>0 DEF Service, GraceEnds, Record, WorkerStarts, WorkerReports, WorkerWrites, JobEnds, SessionLate, JobType
<1>3. job'.stopped = "yes" => job'.worker = job.worker
  BY <1>0 DEF Inv, Retired, Service, GraceEnds, Record, WorkerStarts, WorkerReports, WorkerWrites, JobEnds, SessionLate, JobType
<1> QED BY <1>0, <1>1, <1>2, <1>3, Kept DEF Inv, TypeOK

(* The child writes a line, writes its result file or ends: a line that is a
   message becomes the last thing said, and nothing follows "settled". *)
LEMMA ChildInv ==
  ASSUME Inv, ChildStep
  PROVE  Inv'
<1>0. child \in ChildType /\ job \in JobType /\ child.pipe \in Seq(PiLines) /\ TypeOK
  BY DEF Inv, TypeOK, ChildType
<1>1. CASE WriteFile
  <2>1. child' \in ChildType /\ child' = [child EXCEPT !.file = child'.file] /\ UNCHANGED <<kind, attempt, read, watch, first, out, over, job, caller>>
    BY <1>0, <1>1 DEF WriteFile, ChildType
  <2> QED BY <1>0, <2>1, Kept DEF TypeOK, ChildType
<1>2. CASE Exit
  <2>1. child' \in ChildType /\ child.st = "run" /\ child'.st \in {"exit0", "exit1"} /\ child' = [child EXCEPT !.st = child'.st, !.id = child'.id] /\ UNCHANGED <<kind, attempt, read, watch, first, out, over, job, caller>>
    BY <1>0, <1>2 DEF Exit, ChildType
  <2> QED BY <1>0, <2>1, Kept DEF TypeOK, ChildType
<1>3. CASE HelperEnds
  <2>1. child' \in ChildType /\ child' = [child EXCEPT !.helper = child'.helper] /\ UNCHANGED <<kind, attempt, read, watch, first, out, over, job, caller>>
    BY <1>0, <1>3 DEF HelperEnds, ChildType
  <2> QED BY <1>0, <2>1, Kept DEF TypeOK, ChildType
<1>4. ASSUME NEW line \in PiLines, Say(line) PROVE Inv'
  <2> DEFINE p == Append(child.pipe, line)
             w == IF line \in Ending THEN MaxLines ELSE child.wrote + 1
             said == IF line \in Messages THEN line ELSE child.said
  <2>1. /\ child.st = "run" /\ child.wrote < MaxLines
        /\ child' = [child EXCEPT !.pipe = p, !.wrote = w, !.said = said, !.settled = (line = "settled")]
        /\ UNCHANGED <<kind, attempt, over, caller, read, watch, job, first, out>>
    BY <1>4 DEF Say, Messages
  <2>2. /\ p \in Seq(PiLines) /\ Len(p) = Len(child.pipe) + 1 /\ p[Len(p)] = line
        /\ (\A i \in DOMAIN child.pipe : p[i] = child.pipe[i])
        /\ DOMAIN p = DOMAIN child.pipe \cup {Len(p)} /\ Len(p) \notin DOMAIN child.pipe
        /\ \A i \in DOMAIN child.pipe : i < Len(p)
    BY <1>0
  <2>3. w \in 0 .. MaxLines
    BY <1>0, <2>1, LinesAssumption DEF ChildType
  <2>4. said \in {"nothing", "answer", "failure"} /\ (line = "settled") \in BOOLEAN
    BY <1>0 DEF ChildType, Messages
  <2>5. Len(p) \in Nat /\ \A i \in DOMAIN p : i \in Nat /\ i <= Len(p)
    BY <2>2
  <2> HIDE DEF p, w, said
  <2>6. /\ child' \in ChildType /\ child'.pipe = p /\ child'.wrote = w /\ child'.said = said
        /\ child'.settled = (line = "settled") /\ child'.st = child.st /\ child'.id = child.id
    BY <1>0, <2>1, <2>2, <2>3, <2>4 DEF ChildType
  <2>7. read.pc \notin Judged /\ read.pc # "idle"
    BY <2>1 DEF Inv, Control
  <2>8. ~child.settled /\ ~read.settled
    <3>1. child.wrote # MaxLines
      BY <1>0, <2>1, LinesAssumption DEF ChildType
    <3> QED BY <3>1, <2>7 DEF Inv, Piped, Final, Judged
  <2>9. Piped'
    <3>1. (child.settled => child.wrote = MaxLines)'
      BY <2>6 DEF w, Ending
    <3>2. (\A i \in DOMAIN child.pipe : child.pipe[i] = "settled" => i = Len(child.pipe) /\ child.settled)'
      <4>1. \A i \in DOMAIN child.pipe : p[i] # "settled"
        BY <2>2, <2>8 DEF Inv, Piped
      <4>2. ASSUME NEW i \in DOMAIN p, p[i] = "settled" PROVE i = Len(p) /\ line = "settled"
        <5>1. i \in DOMAIN child.pipe \/ i = Len(p)
          BY ONLY <2>2, i \in DOMAIN p
        <5>2. i \notin DOMAIN child.pipe
          BY <4>1, <4>2
        <5> QED BY ONLY <5>1, <5>2, <4>2, <2>2
      <4> QED BY <4>2, <2>6
    <3>3. (read.pc = "handle" /\ read.line = "settled" => child.pipe = <<>> /\ child.settled)'
      BY <2>1, <2>8 DEF Inv, Piped
    <3>4. (read.pc \in {"idle", "scan", "handle"} =>
            /\ (\A i \in DOMAIN child.pipe : Silent(i)) => child.said = Heard
            /\ \A i \in DOMAIN child.pipe :
                  ~Silent(i) /\ (\A j \in DOMAIN child.pipe : j > i => Silent(j)) => child.said = child.pipe[i])'
      <4> SUFFICES ASSUME read.pc \in {"idle", "scan", "handle"}
                   PROVE /\ (\A i \in DOMAIN p : p[i] \notin Messages) => said = Heard
                         /\ \A i \in DOMAIN p :
                              p[i] \in Messages /\ (\A j \in DOMAIN p : j > i => p[j] \notin Messages) => said = p[i]
        BY <2>1, <2>6 DEF Heard, Silent, LastMessage
      <4>1. CASE line \in Messages
        <5>1. p[Len(p)] \in Messages /\ Len(p) \in DOMAIN p
          BY <2>2, <4>1
        <5>2. ASSUME NEW i \in DOMAIN p, \A j \in DOMAIN p : j > i => p[j] \notin Messages PROVE i = Len(p)
          BY <5>1, <5>2, <2>5
        <5> QED BY <5>1, <5>2, <4>1, <2>2 DEF said
      <4>2. CASE line \notin Messages
        <5>1. (\A i \in DOMAIN p : p[i] \notin Messages) => \A i \in DOMAIN child.pipe : Silent(i)
          BY <2>2 DEF Silent
        <5>2. ASSUME NEW i \in DOMAIN p, p[i] \in Messages, \A j \in DOMAIN p : j > i => p[j] \notin Messages
              PROVE  child.said = p[i]
          <6>1. i \in DOMAIN child.pipe
            <7>1. p[Len(p)] \notin Messages
              BY <2>2, <4>2
            <7>2. i # Len(p)
              BY <7>1, <5>2
            <7> QED BY ONLY <7>2, <2>2, i \in DOMAIN p
          <6>2. ~Silent(i) /\ \A j \in DOMAIN child.pipe : j > i => Silent(j)
            BY <2>2, <5>2, <6>1 DEF Silent
          <6> QED BY <6>1, <6>2, <2>2 DEF Inv, Piped
        <5>3. said = child.said
          BY <4>2 DEF said
        <5> QED BY <5>1, <5>2, <5>3 DEF Inv, Piped
      <4> QED BY <4>1, <4>2
    <3> QED BY <3>1, <3>2, <3>3, <3>4 DEF Piped
  <2>10. TypeOK'
    BY <1>0, <2>1, <2>6 DEF TypeOK
  <2>11. Control' /\ Retired' /\ Causes'
    BY <2>1, <2>6 DEF Inv, Control, Retired, Causes, Owed
  <2>12. Final'
    BY <2>1, <2>7, <2>8 DEF Inv, Final, Judged
  <2> QED BY <2>9, <2>10, <2>11, <2>12 DEF Inv
<1> QED BY <1>1, <1>2, <1>3, <1>4 DEF ChildStep

(* An attempt starts with an empty pipe and nothing heard, or reports that it
   could not start. *)
LEMMA StartInv ==
  ASSUME Inv, Launch \/ LaunchFails
  PROVE  Inv'
<1>0. TypeOK /\ Control /\ Retired /\ Piped /\ Final /\ Causes
  BY DEF Inv
<1>1. CASE Launch
  <2>1. PICK helper \in BOOLEAN : child' = Child("run", "live", helper)
    BY <1>1 DEF Launch
  <2>2. /\ read.pc = "idle" /\ out = NoOut /\ read' = Reading("scan")
        /\ UNCHANGED <<kind, attempt, over, caller, watch, job, first, out>>
    BY <1>1 DEF Launch
  <2>3. child' \in ChildType /\ read' \in ReadType
    <3>1. <<>> \in Seq(PiLines) /\ 0 \in 0 .. MaxLines
      BY LinesAssumption
    <3> QED BY <3>1, <2>1, <2>2 DEF Child, ChildType, Reading, ReadType, Errors
  <2>4. TypeOK'
    BY <1>0, <2>2, <2>3 DEF TypeOK
  <2>5. Control' /\ Retired' /\ Causes' /\ Final'
    <3>1. child'.ctx = "live" /\ read'.err = "none"
      BY <2>1, <2>2 DEF Child, Reading
    <3>2. Causes'
      BY <1>0, <2>2, <3>1 DEF Causes, Owed
    <3> QED BY <1>0, <2>1, <2>2, <3>2 DEF Control, Retired, Final, Child, Reading, NoOut, Judged, JobLabels, TransportErrors
  <2>6. Piped'
    BY <1>0, <2>1, <2>2 DEF Piped, Heard, Child, Reading
  <2> QED BY <2>4, <2>5, <2>6 DEF Inv
<1>2. CASE LaunchFails
  <2>1. /\ UNCHANGED <<kind, attempt, over, caller, child, read, watch, job, first>>
        /\ out' = [ok |-> FALSE, by |-> IF attempt = 2 THEN 1 ELSE 0,
                   err |-> IF attempt = 2 THEN first.err ELSE "launch",
                   session |-> IF attempt = 2 THEN first.session ELSE 0]
    BY <1>2 DEF LaunchFails
  <2>2. out' \in OutType
    BY <1>0, <2>1 DEF TypeOK, FirstType, OutType, Errors
  <2>3. TypeOK'
    BY <1>0, <2>1, <2>2 DEF TypeOK
  <2>4. Control' /\ Retired'
    BY <1>0, <2>1 DEF Control, Retired
  <2>5. Piped' /\ Final' /\ Causes'
    BY <2>1 DEF Inv, Piped, Final, Causes, Owed, Heard, LastMessage, Silent, TransportErrors
  <2> QED BY <2>3, <2>4, <2>5 DEF Inv
<1> QED BY <1>1, <1>2

(* Taking the head of the pipe moves what it says from the pipe to the reader. *)
LEMMA TakeLineInv ==
  ASSUME Inv, TakeLine
  PROVE  Inv'
<1> DEFINE p == child.pipe
           q == Tail(child.pipe)
           h == Head(child.pipe)
<1>0. TypeOK /\ Control /\ Retired /\ Piped /\ Final /\ Causes
  BY DEF Inv
<1>1. /\ read.pc = "scan" /\ p # <<>>
      /\ read' = [read EXCEPT !.pc = "handle", !.line = h]
      /\ child' = [child EXCEPT !.pipe = q]
      /\ UNCHANGED <<kind, attempt, over, caller, watch, job, first, out>>
  BY DEF TakeLine
<1>2. p \in Seq(PiLines) /\ child \in ChildType /\ read \in ReadType
  BY <1>0 DEF TypeOK, ChildType
<1>3. /\ q \in Seq(PiLines) /\ h \in PiLines /\ h = p[1] /\ Len(q) = Len(p) - 1 /\ Len(p) \in Nat /\ 1 \in DOMAIN p
      /\ (\A i \in DOMAIN q : i \in Nat /\ i + 1 \in DOMAIN p /\ q[i] = p[i + 1])
      /\ (\A j \in DOMAIN p : j \in Nat /\ (j = 1 \/ (j > 1 /\ j - 1 \in DOMAIN q)))
      /\ (Len(p) = 1 => q = <<>>)
  <2>1. h \in PiLines /\ h = p[1] /\ Len(p) \in Nat /\ 1 \in DOMAIN p
    BY <1>1, <1>2
  <2>2. q \in Seq(PiLines) /\ Len(q) = Len(p) - 1
    BY <1>1, <1>2
  <2>3. \A i \in DOMAIN q : i \in Nat /\ i + 1 \in DOMAIN p /\ q[i] = p[i + 1]
    BY <1>1, <1>2
  <2>4. \A j \in DOMAIN p : j \in Nat /\ (j = 1 \/ (j > 1 /\ j - 1 \in DOMAIN q))
    BY <1>1, <1>2
  <2>5. Len(p) = 1 => q = <<>>
    <3>1. \A r \in Seq(PiLines) : Len(r) = 0 => r = <<>>
      OBVIOUS
    <3>2. ASSUME Len(p) = 1 PROVE q = <<>>
      <4>1. Len(q) = 0
        BY ONLY <2>2, <3>2
      <4> QED BY ONLY <4>1, <2>2, <3>1
    <3> QED BY <3>2
  <2> QED BY <2>1, <2>2, <2>3, <2>4, <2>5
<1>4. child'.pipe = q /\ read'.pc = "handle" /\ read'.line = h /\ read'.final = read.final
      /\ child'.said = child.said /\ child'.settled = child.settled /\ child'.wrote = child.wrote
      /\ child' \in ChildType /\ read' \in ReadType
  BY <1>1, <1>2, <1>3 DEF ChildType, ReadType
<1>5. TypeOK'
  BY <1>0, <1>1, <1>4 DEF TypeOK
<1>6. Control' /\ Retired' /\ Final' /\ Causes'
  BY <1>0, <1>1, <1>2 DEF Control, Retired, Final, Causes, Owed, Judged, JobLabels, ReadType, ChildType
<1> HIDE DEF p, q, h
<1>7. \A i \in DOMAIN p : p[i] = "settled" => i = Len(p) /\ child.settled
  BY <1>0 DEF Piped, p
<1>8. \A i \in DOMAIN q : q[i] = "settled" => i = Len(q) /\ child.settled
  <2> SUFFICES ASSUME NEW i \in DOMAIN q, q[i] = "settled" PROVE i = Len(q) /\ child.settled
    OBVIOUS
  <2>1. i + 1 = Len(p) /\ child.settled
    BY <1>3, <1>7
  <2> QED BY <2>1, <1>3
<1>9. h = "settled" => q = <<>> /\ child.settled
  BY <1>3, <1>7
<1>10. (\A i \in DOMAIN q : q[i] \notin Messages) => child.said = IF h \in Messages THEN h ELSE read.final
  <2> SUFFICES ASSUME \A i \in DOMAIN q : q[i] \notin Messages
               PROVE  child.said = IF h \in Messages THEN h ELSE read.final
    OBVIOUS
  <2>1. \A j \in DOMAIN p : j > 1 => p[j] \notin Messages
    <3> SUFFICES ASSUME NEW j \in DOMAIN p, j > 1 PROVE p[j] \notin Messages
      OBVIOUS
    <3>1. PICK i \in Nat : i = j - 1
      BY <1>3
    <3>2. i \in DOMAIN q /\ j = i + 1
      BY <1>3, <3>1
    <3> QED BY <3>2, <1>3
  <2>2. CASE h \in Messages
    BY <2>1, <2>2, <1>0, <1>1, <1>3 DEF Piped, Silent, p
  <2>3. CASE h \notin Messages
    <3>1. \A j \in DOMAIN p : p[j] \notin Messages
      BY <2>1, <2>3, <1>3
    <3> QED BY <3>1, <2>3, <1>0, <1>1 DEF Piped, Silent, Heard, p
  <2> QED BY <2>2, <2>3
<1>11. ASSUME NEW i \in DOMAIN q, q[i] \in Messages, \A j \in DOMAIN q : j > i => q[j] \notin Messages
       PROVE  child.said = q[i]
  <2>1. PICK k \in Nat : k = i + 1
    BY <1>3
  <2>2. k \in DOMAIN p /\ p[k] = q[i]
    BY <1>3, <2>1
  <2>3. \A j \in DOMAIN p : j > k => p[j] \notin Messages
    <3> SUFFICES ASSUME NEW j \in DOMAIN p, j > k PROVE p[j] \notin Messages
      OBVIOUS
    <3>1. PICK m \in Nat : m = j - 1
      BY <1>3, <2>1
    <3>2. m \in DOMAIN q /\ j = m + 1 /\ m > i
      BY <1>3, <2>1, <3>1
    <3> QED BY <3>2, <1>3, <1>11
  <2> QED BY <2>2, <2>3, <1>0, <1>1, <1>11 DEF Piped, Silent, p
<1>12. Piped'
  <2>1. Heard' = IF h \in Messages THEN h ELSE read.final
    BY <1>4 DEF Heard, LastMessage, Messages
  <2>2. \A i : Silent(i)' <=> q[i] \notin Messages
    BY <1>4 DEF Silent
  <2> QED BY <1>0, <1>4, <1>8, <1>9, <1>10, <1>11, <2>1, <2>2 DEF Piped
<1> QED BY <1>5, <1>6, <1>12 DEF Inv

(* Dealing with a line: one that fails the run, the settled one, any other. *)
LEMMA HandleInv ==
  ASSUME Inv, Handle
  PROVE  Inv'
<1>0. TypeOK /\ Control /\ Retired /\ Piped /\ Final /\ Causes
      /\ child \in ChildType /\ read \in ReadType /\ watch \in WatchType /\ attempt \in {1, 2}
  BY DEF Inv, TypeOK
<1>1. /\ read.pc = "handle"
      /\ watch' = [watch EXCEPT !.armed = (read.line = "boundary")]
      /\ UNCHANGED <<kind, attempt, over, caller, job, first, out>>
  BY <1>0 DEF Handle, Stopped, WatchType
<1>2. watch' \in WatchType
  BY <1>0, <1>1 DEF WatchType
<1>3. CASE read.line \in {"refused", "huge"}
  <2>1. PICK err \in {"refused", "huge"} : read' = [read EXCEPT !.pc = "wait", !.err = err]
    BY <1>3 DEF Handle, ScanEnds
  <2>2. PICK ctx \in {"live", "cancelled", "deadline"} : child' = [child EXCEPT !.ctx = ctx]
    <3>1. child = [child EXCEPT !.ctx = child.ctx] /\ child.ctx \in {"live", "cancelled", "deadline"}
      BY <1>0 DEF ChildType
    <3>2. \/ child' = child
          \/ child' = [child EXCEPT !.ctx = Ended(child.ctx, "cancelled")]
      BY <1>3 DEF Handle
    <3> QED BY <3>1, <3>2 DEF Ended
  <2>3. child' \in ChildType /\ read' \in ReadType
    BY <1>0, <2>1, <2>2 DEF ChildType, ReadType, Errors
  <2>4. TypeOK'
    BY <1>0, <1>1, <1>2, <2>3 DEF TypeOK
  <2>5. Control'
    BY <1>0, <1>1, <2>1, <2>2 DEF Control, Judged, JobLabels, TransportErrors, ReadType, ChildType
  <2>6. Retired' /\ Final'
    BY <1>0, <1>1, <1>3, <2>1, <2>2 DEF Control, Retired, Final, ReadType, ChildType
  <2>8. Causes'
    <3>1. \/ child' = child
          \/ read'.err = "refused" /\ child'.ctx \in {child.ctx, "cancelled"}
      BY <1>0, <1>3 DEF Handle, ScanEnds, Ended, ReadType, ChildType
    <3>2. read'.err \in {"refused", "huge"} /\ watch'.expired = watch.expired /\ read.err = "none" /\ read.pc # "finished"
      BY <1>0, <1>1, <2>1 DEF ReadType, WatchType, Control
    <3>3. (child.ctx = "deadline" => over) /\ (child.ctx = "cancelled" => caller \/ watch.expired)
      BY <1>0, <3>2 DEF Causes
    <3> QED BY <1>0, <1>1, <3>1, <3>2, <3>3 DEF Causes, Owed
  <2>7. Piped'
    BY <1>0, <2>1, <2>2 DEF Piped, ReadType, ChildType
  <2> QED BY <2>4, <2>5, <2>6, <2>7, <2>8 DEF Inv
<1>4. CASE read.line = "settled"
  <2>1. /\ read' = [read EXCEPT !.pc = "wait", !.err = FinalError(read.final), !.settled = TRUE]
        /\ child' = child
    BY <1>4 DEF Handle, ScanEnds
  <2>2. child.pipe = <<>> /\ child.settled /\ child.said = read.final
    <3>1. child.pipe = <<>> /\ child.settled
      BY <1>0, <1>1, <1>4 DEF Piped
    <3>2. child.said = Heard
      BY <1>0, <1>1, <3>1 DEF Piped
    <3> QED BY <3>1, <3>2, <1>1, <1>4 DEF Heard, LastMessage
  <2>3. FinalError(read.final) \in {"final", "none"} /\ (FinalError(read.final) = "none" => read.final # "failure")
    BY DEF FinalError
  <2>4. read' \in ReadType
    BY <1>0, <2>1, <2>3 DEF ReadType, Errors
  <2>5. TypeOK'
    BY <1>0, <1>1, <1>2, <2>1, <2>4 DEF TypeOK
  <2>6. Control'
    BY <1>0, <1>1, <2>1, <2>3 DEF Control, Judged, JobLabels, TransportErrors, ReadType
  <2>7. Retired' /\ Causes'
    <3>1. /\ read'.err \in {"final", "none"} /\ read'.pc = "wait"
          /\ watch'.expired = watch.expired /\ read.err = "none" /\ read.pc # "finished"
      BY <1>0, <1>1, <2>1, <2>3 DEF ReadType, WatchType, Control
    <3>2. Causes'
      BY <1>0, <1>1, <2>1, <3>1 DEF Causes, Owed
    <3> QED BY <1>0, <1>1, <2>1, <3>1, <3>2 DEF Retired
  <2>8. Final'
    BY <1>0, <2>1, <2>2, <2>3 DEF Final, ReadType
  <2>9. Piped'
    BY <1>0, <2>1 DEF Piped, ReadType
  <2> QED BY <2>5, <2>6, <2>7, <2>8, <2>9 DEF Inv
<1>5. CASE read.line \notin {"refused", "huge", "settled"}
  <2>1. /\ read' = [read EXCEPT !.pc = "scan", !.line = "none", !.session = attempt,
                                !.final = LastMessage(read.line)]
        /\ child' = child
    BY <1>5 DEF Handle
  <2>2. LastMessage(read.line) \in {"nothing", "answer", "failure"}
    BY <1>0 DEF LastMessage, ReadType
  <2>3. read' \in ReadType
    <3>1. attempt \in {0, 1, 2} /\ "none" \in PiLines \cup {"none"}
      BY <1>0
    <3> DEFINE f == LastMessage(read.line)
    <3>2. read' = [read EXCEPT !.pc = "scan", !.line = "none", !.session = attempt, !.final = f]
      BY <2>1
    <3>3. f \in {"nothing", "answer", "failure"}
      BY <2>2
    <3> HIDE DEF f
    <3> QED BY <1>0, <3>1, <3>2, <3>3 DEF ReadType
  <2>4. TypeOK'
    BY <1>0, <1>1, <1>2, <2>1, <2>3 DEF TypeOK
  <2>5. Control'
    BY <1>0, <1>1, <2>1 DEF Control, Judged, JobLabels, ReadType
  <2>6. Retired' /\ Causes' /\ Final'
    BY <1>0, <1>1, <2>1 DEF Control, Retired, Causes, Owed, Final, ReadType
  <2>7. Heard' = Heard /\ \A i : Silent(i)' <=> Silent(i)
    BY <1>0, <1>1, <2>1 DEF Heard, Silent, ReadType
  <2>8. Piped'
    BY <1>0, <1>1, <2>1, <2>7 DEF Piped, ReadType
  <2> QED BY <2>4, <2>5, <2>6, <2>8 DEF Inv
<1> QED BY <1>3, <1>4, <1>5

(* Past the reading nothing is asked of the pipe any more. *)
LEMMA PipeKept ==
  ASSUME Piped, UNCHANGED <<kind>>, child'.pipe = child.pipe, child'.settled = child.settled,
         child'.wrote = child.wrote, read'.pc \notin {"idle", "scan", "handle"}
  PROVE  Piped'
BY DEF Piped

(* The reading ends: expired, end of output, closed pipe. *)
LEMMA ScanEndsInv ==
  ASSUME Inv, Quiet \/ ScanDone
  PROVE  Inv'
<1>0. TypeOK /\ Control /\ Retired /\ Piped /\ Final /\ Causes /\ child \in ChildType /\ read \in ReadType
  BY DEF Inv, TypeOK
<1>1. PICK err \in {"incompatible", "none", "read"} :
        /\ read' = [read EXCEPT !.pc = "wait", !.err = err]
        /\ read.pc = "scan" /\ UNCHANGED <<kind, attempt, over, caller, child, watch, job, first, out>>
  BY DEF Quiet, ScanDone, ScanEnds
<1>2. TypeOK'
  BY <1>0, <1>1 DEF TypeOK, ReadType, Errors
<1>3. Control'
  BY <1>0, <1>1 DEF Control, Judged, JobLabels, TransportErrors, ReadType
<1>4. Retired' /\ Final' /\ Causes'
  BY <1>0, <1>1 DEF Retired, Control, Final, Causes, Owed, ReadType
<1>5. Piped'
  BY <1>0, <1>1, PipeKept DEF ReadType
<1> QED BY <1>2, <1>3, <1>4, <1>5 DEF Inv

(* The child is reaped. *)
LEMMA WaitInv ==
  ASSUME Inv, WaitChild
  PROVE  Inv'
<1>0. TypeOK /\ Control /\ Retired /\ Piped /\ Final /\ Causes /\ child \in ChildType /\ read \in ReadType
  BY DEF Inv, TypeOK
<1>1. PICK failed \in BOOLEAN : read' = [read EXCEPT !.pc = "judge", !.failed = failed]
  BY DEF WaitChild
<1>2. /\ read.pc = "wait" /\ child.st # "run" /\ child' = [child EXCEPT !.open = FALSE]
      /\ UNCHANGED <<kind, attempt, over, caller, watch, job, first, out>>
  BY DEF WaitChild
<1>3. child' \in ChildType /\ read' \in ReadType
  BY <1>0, <1>1, <1>2 DEF ChildType, ReadType
<1>4. TypeOK'
  BY <1>0, <1>2, <1>3 DEF TypeOK
<1>5. Control'
  BY <1>0, <1>1, <1>2 DEF Control, Judged, JobLabels, ReadType, ChildType
<1>6. Retired' /\ Final' /\ Causes'
  BY <1>0, <1>1, <1>2 DEF Retired, Control, Final, Causes, Owed, ReadType, ChildType
<1>7. Piped'
  BY <1>0, <1>1, <1>2, PipeKept DEF ReadType, ChildType
<1> QED BY <1>4, <1>5, <1>6, <1>7 DEF Inv

(* What a verdict must satisfy for the task to finish with it: no named job given
   up unless stopping was tried, an answer of Pi only from a settled child, and
   the caller, the watch or the budget named only with reason. *)
LEMMA FinishInv ==
  ASSUME Inv, NEW err \in Errors, NEW session \in {0, 1, 2}, Finish(err, session),
         UNCHANGED <<kind, attempt, over, caller, watch, first, out>>, job' \in JobType,
         job'.stopped = "yes" => job'.worker = "gone",
         attempt = 2 => job' = job,
         read.pc \in Judged \ {"finished"}, session \in {0, attempt},
         Owed(err),
         kind = "claude" /\ attempt = 1 /\ err \in TransportErrors => ~child.id \/ job'.stopped # "no",
         kind = "pi" /\ err = "none" => child.settled /\ child.said = "answer"
  PROVE  Inv'
<1>0. TypeOK /\ Control /\ Retired /\ Piped /\ Final /\ Causes /\ child \in ChildType /\ read \in ReadType
  BY DEF Inv, TypeOK
<1>1. PICK ctx \in {"live", "cancelled", "deadline"} : child' = [child EXCEPT !.ctx = ctx]
  BY <1>0 DEF Finish, Ended, ChildType
<1>2. read' = [read EXCEPT !.pc = "finished", !.err = err, !.session = session]
  BY DEF Finish
<1>3. child' \in ChildType /\ read' \in ReadType
  BY <1>0, <1>1, <1>2 DEF ChildType, ReadType
<1>4. TypeOK'
  BY <1>0, <1>3 DEF TypeOK
<1>5. Control'
  BY <1>0, <1>1, <1>2 DEF Control, Judged, JobLabels, ReadType, ChildType
<1>6. Retired'
  BY <1>0, <1>1, <1>2 DEF Retired, ReadType, ChildType
<1>7. Final'
  BY <1>0, <1>1, <1>2 DEF Final, ReadType, ChildType
<1>9. Causes'
  <2>1. child'.ctx \in {child.ctx, "cancelled"} /\ read'.err = err /\ read'.pc = "finished"
    BY <1>0, <1>2 DEF Finish, Ended, ChildType, ReadType
  <2> QED BY <1>0, <2>1 DEF Causes, Owed
<1>8. Piped'
  BY <1>0, <1>1, <1>2, PipeKept DEF ReadType, ChildType
<1> QED BY <1>4, <1>5, <1>6, <1>7, <1>8, <1>9 DEF Inv

(* A reader that met no error of its own may name the end of its context. *)
LEMMA OwedVerdict ==
  ASSUME Inv, read.pc = "judge"
  PROVE  Owed(read.err) /\ (read.err = "none" => Owed(child.ctx))
         /\ \A err \in Errors \ {"cancelled", "deadline"} : Owed(err)
BY DEF Inv, Causes, Owed

(* Pi answers only with what a settled child said last (pi_rpc.go run). *)
LEMMA PiVerdictIs ==
  ASSUME Inv, read.pc = "judge"
  PROVE  /\ PiVerdict \in Errors \ TransportErrors
         /\ PiVerdict = "none" => child.settled /\ child.said = "answer"
         /\ Owed(PiVerdict)
<1>0. child \in ChildType /\ read \in ReadType /\ Control /\ Final /\ Causes
  BY DEF Inv, TypeOK
<1>1. read.err \in Errors \ TransportErrors
  BY <1>0 DEF Control, ReadType
<1>2. PiVerdict \in {read.err, child.ctx, "deadline", "exit", "empty", "none", "unsettled"}
  BY DEF PiVerdict
<1>3. child.ctx = "live" => PiVerdict # "live"
  BY <1>0, <1>1 DEF PiVerdict, Errors, TransportErrors
<1>4. PiVerdict \in Errors \ TransportErrors
  BY <1>0, <1>1, <1>2, <1>3 DEF Errors, TransportErrors, ChildType
<1>5. ASSUME PiVerdict = "none" PROVE child.settled /\ child.said = "answer"
  <2>0. child.ctx \in {"live", "cancelled", "deadline"} /\ read.settled \in BOOLEAN /\ read.failed \in BOOLEAN
    BY <1>0 DEF ChildType, ReadType
  <2>1. read.err = "none"
    BY <1>5 DEF PiVerdict
  <2>2. child.ctx # "deadline"
    BY <1>5, <2>1 DEF PiVerdict
  <2>3. read.settled
    BY <1>5, <2>0, <2>1, <2>2 DEF PiVerdict
  <2>4. read.final # "nothing"
    BY <1>5, <2>0, <2>1, <2>2, <2>3 DEF PiVerdict
  <2> QED BY <2>1, <2>3, <2>4, <1>0 DEF Final, ReadType
<1>6. Owed(PiVerdict)
  <2>1. PiVerdict \in {"exit", "empty", "none", "unsettled"}
          \/ PiVerdict = read.err \/ (read.err = "none" /\ PiVerdict = child.ctx)
    BY DEF PiVerdict
  <2> QED BY <2>1, OwedVerdict DEF Errors
<1> QED BY <1>4, <1>5, <1>6

(* The transport is blamed only when the child named no job. *)
LEMMA VerdictsAre ==
  ASSUME Inv, read.pc = "judge"
  PROVE  /\ CodexVerdict \in Errors \ TransportErrors
         /\ ForegroundVerdict \in Errors \ TransportErrors
         /\ HandoverVerdict \in Errors \ {"notstarted"}
         /\ HandoverVerdict = "transport" => ~child.id
         /\ HandoverVerdict = "none" => read.err = "none"
         /\ Owed(CodexVerdict) /\ Owed(ForegroundVerdict) /\ Owed(HandoverVerdict)
<1>0. child \in ChildType /\ read \in ReadType /\ Control
  BY DEF Inv, TypeOK
<1>1. read.err \in Errors \ TransportErrors
  BY <1>0 DEF Control, ReadType
<1>2. child.ctx \in {"live", "cancelled", "deadline"}
  BY <1>0 DEF ChildType
<1>3. CodexVerdict \in Errors \ TransportErrors
  BY <1>1, <1>2 DEF CodexVerdict, Finished, Errors, TransportErrors
<1>4. ForegroundVerdict \in Errors \ TransportErrors
  BY <1>1, <1>2 DEF ForegroundVerdict, Finished, Errors, TransportErrors
<1>5. HandoverVerdict \in Errors \ {"notstarted"}
  BY <1>1, <1>2 DEF HandoverVerdict, Finished, Errors, TransportErrors
<1>6. HandoverVerdict = "transport" => ~child.id
  BY <1>1, <1>2 DEF HandoverVerdict, Finished, Errors, TransportErrors
<1>7. HandoverVerdict = "none" => read.err = "none"
  BY <1>1, <1>2 DEF HandoverVerdict, Finished, Errors, TransportErrors
<1>8. \A other \in Errors \ {"cancelled", "deadline"} : Owed(Finished(other))
  BY OwedVerdict DEF Finished, Errors
<1>9. Owed(CodexVerdict) /\ Owed(ForegroundVerdict) /\ Owed(HandoverVerdict)
  BY <1>8 DEF CodexVerdict, ForegroundVerdict, HandoverVerdict, Errors, TransportErrors
<1> QED BY <1>3, <1>4, <1>5, <1>6, <1>7, <1>9

(* The verdict on a child that ended. *)
LEMMA JudgeInv ==
  ASSUME Inv, Judge
  PROVE  Inv'
<1>0. /\ TypeOK /\ Control /\ Retired /\ Piped /\ Final /\ Causes /\ read \in ReadType /\ job \in JobType
      /\ read.pc = "judge" /\ read.pc \in Judged \ {"finished"}
      /\ UNCHANGED <<kind, attempt, over, caller, watch, first, out>> /\ job' = job
      /\ attempt \in {1, 2} /\ kind \in {"pi", "codex", "claude_fg", "claude"}
  BY AdaptersAssumption DEF Inv, TypeOK, Judge, Judged
<1>1. read.session \in {0, 1, 2} /\ read.session \in {0, attempt} /\ (job'.stopped = "yes" => job'.worker = "gone")
  BY <1>0 DEF Control, ReadType, Retired
<1>2. CASE Transport = "pi" /\ Finish(PiVerdict, read.session)
  BY <1>0, <1>1, <1>2, PiVerdictIs, FinishInv DEF TransportErrors
<1>3. CASE Transport = "codex" /\ Finish(CodexVerdict, read.session)
  <2>1. kind = "codex"
    BY <1>0, <1>3 DEF Transport
  <2> QED BY <1>0, <1>1, <1>3, <2>1, VerdictsAre, FinishInv DEF TransportErrors
<1>4. CASE Transport = "fg" /\ \E told \in BOOLEAN :
               Finish(ForegroundVerdict,
                      IF told /\ ForegroundVerdict \in {"none", "model"} THEN attempt ELSE 0)
  <2>1. PICK session \in {0, attempt} : Finish(ForegroundVerdict, session)
    BY <1>4
  <2>2. kind # "pi"
    BY <1>0, <1>4 DEF Transport
  <2> QED BY <1>0, <1>1, <2>1, <2>2, VerdictsAre, FinishInv DEF TransportErrors
<1>5. CASE Transport = "bg" /\ HandoverVerdict # "none" /\ Finish(HandoverVerdict, 0)
  <2>1. kind # "pi"
    BY <1>0, <1>5 DEF Transport
  <2> QED BY <1>0, <1>1, <1>5, <2>1, VerdictsAre, FinishInv DEF TransportErrors
<1>6. CASE Transport = "bg" /\ HandoverVerdict = "none" /\ read' = [read EXCEPT !.pc = "poll"] /\ child' = child
  <2>1. kind = "claude" /\ attempt = 1 /\ read.err = "none"
    BY <1>0, <1>6, VerdictsAre DEF Transport, Inv
  <2>2. TypeOK'
    BY <1>0, <1>6 DEF TypeOK, ReadType
  <2>3. Control'
    BY <1>0, <1>6, <2>1 DEF Control, Judged, JobLabels, ReadType
  <2>4. Retired' /\ Final' /\ Causes'
    BY <1>0, <1>6 DEF Retired, Final, Causes, Owed, ReadType
  <2>5. Piped'
    BY <1>0, <1>6, PipeKept DEF ReadType
  <2> QED BY <2>2, <2>3, <2>4, <2>5 DEF Inv
<1> QED BY <1>2, <1>3, <1>4, <1>5, <1>6 DEF Judge

(* Cleaning up after a job: a transport error comes to the removal only past
   the stop. *)
LEMMA CleanUpInv ==
  ASSUME Inv, NEW to \in {"stop", "rm"}, NEW err \in Errors, NEW session \in {0, 1},
         CleanUp(to, err, session), Owed(err),
         UNCHANGED <<kind, attempt, over, caller, child, watch, first, out>>, job' \in JobType,
         job'.stopped = "yes" => job'.worker = "gone",
         read.pc \in JobLabels \cup {"stop"}, read.err = "none" \/ err = read.err,
         to = "rm" /\ err \in TransportErrors => job'.stopped # "no"
  PROVE  Inv'
<1>0. /\ TypeOK /\ Control /\ Retired /\ Piped /\ Final /\ Causes /\ read \in ReadType /\ child \in ChildType
      /\ attempt = 1 /\ kind = "claude" /\ child.st # "run" /\ child.st # "none" /\ read.pc # "finished"
  BY DEF Inv, TypeOK, Control, Judged, JobLabels
<1>1. PICK held \in BOOLEAN :
        read' = [read EXCEPT !.pc = to, !.err = err, !.session = session, !.held = held]
  BY DEF CleanUp
<1>2. read' \in ReadType /\ read'.pc = to /\ read'.err = err /\ read'.session = session
      /\ read'.settled = read.settled /\ read'.final = read.final
  BY <1>0, <1>1 DEF ReadType
<1>3. TypeOK'
  BY <1>0, <1>2 DEF TypeOK
<1>4. Control'
  BY <1>0, <1>2 DEF Control, Judged, JobLabels
<1>5. Retired'
  BY <1>0, <1>2 DEF Retired
<1>6. Final' /\ Causes'
  BY <1>0, <1>2 DEF Final, Causes, Owed
<1>7. Piped'
  BY <1>0, <1>2, PipeKept
<1> QED BY <1>3, <1>4, <1>5, <1>6, <1>7 DEF Inv

(* Following a job: a look at its state, the graces and the deadline. *)
LEMMA FollowInv ==
  ASSUME Inv, PollState \/ PollNothing \/ PollTimeout \/ AwaitSession
  PROVE  Inv'
<1>0. /\ TypeOK /\ Control /\ Retired /\ Piped /\ Final /\ Causes /\ read \in ReadType /\ job \in JobType /\ child \in ChildType
      /\ UNCHANGED <<kind, attempt, over, caller, child, watch, job, first, out>>
      /\ read.pc \in {"poll", "session"} /\ attempt = 1 /\ kind = "claude" /\ read.err = "none" /\ child.st # "run" /\ child.st # "none"
  BY DEF Inv, TypeOK, PollState, PollNothing, PollTimeout, AwaitSession, Control, Judged, JobLabels
<1>1. ASSUME NEW err \in {"transport", "notstarted", "cancelled", "deadline"}, NEW session \in {0, 1},
             CleanUp("stop", err, session), Owed(err)
      PROVE  Inv'
  <2>1. job' \in JobType /\ (job'.stopped = "yes" => job'.worker = "gone") /\ err \in Errors
        /\ read.pc \in JobLabels \cup {"stop"}
    BY <1>0 DEF Retired, Errors, TransportErrors, JobLabels
  <2> QED BY <1>0, <1>1, <2>1, CleanUpInv
<1>2. CASE \E at \in JobLabels, seen \in BOOLEAN, saw \in {"nothing", "done"}, sid \in BOOLEAN :
             read' = [read EXCEPT !.pc = at, !.seen = seen, !.saw = saw, !.sid = sid]
  <2>1. PICK at \in JobLabels, seen \in BOOLEAN, saw \in {"nothing", "done"}, sid \in BOOLEAN :
             read' = [read EXCEPT !.pc = at, !.seen = seen, !.saw = saw, !.sid = sid]
    BY <1>2
  <2>2. TypeOK'
    BY <1>0, <2>1 DEF TypeOK, ReadType, JobLabels
  <2>3. Control'
    BY <1>0, <2>1 DEF Control, Judged, JobLabels, ReadType
  <2>4. Retired' /\ Causes' /\ Final'
    BY <1>0, <2>1 DEF Retired, Causes, Owed, Final, ReadType, JobLabels
  <2>5. Piped'
    BY <1>0, <2>1, PipeKept DEF ReadType, JobLabels
  <2> QED BY <2>2, <2>3, <2>4, <2>5 DEF Inv
<1>3. CASE PollState
  <2>1. SessionOf \in {0, 1} /\ job.session \in BOOLEAN /\ "session" \in JobLabels
    BY <1>0 DEF SessionOf, JobType, JobLabels
  <2>2. /\ read = [read EXCEPT !.pc = read.pc, !.seen = read.seen, !.saw = read.saw, !.sid = read.sid]
        /\ read.pc \in JobLabels /\ read.seen \in BOOLEAN /\ read.saw \in {"nothing", "done"}
    BY <1>0 DEF ReadType, JobLabels
  <2>3. \/ read' = [read EXCEPT !.pc = "session", !.saw = "done", !.sid = job.session]
        \/ CleanUp("stop", "transport", SessionOf)
        \/ CleanUp("stop", "notstarted", 0)
        \/ read' = [read EXCEPT !.seen = TRUE, !.sid = job.session]
    BY <1>3 DEF PollState
  <2>4. CASE read' = [read EXCEPT !.pc = "session", !.saw = "done", !.sid = job.session]
    <3>1. read' = [read EXCEPT !.pc = "session", !.seen = read.seen, !.saw = "done", !.sid = job.session]
      BY <1>0, <2>4 DEF ReadType
    <3> QED BY <3>1, <2>1, <2>2, <1>2
  <2>5. CASE read' = [read EXCEPT !.seen = TRUE, !.sid = job.session]
    <3>1. read' = [read EXCEPT !.pc = read.pc, !.seen = TRUE, !.saw = read.saw, !.sid = job.session]
      BY <1>0, <2>5 DEF ReadType
    <3> QED BY <3>1, <2>1, <2>2, <1>2
  <2> QED BY <2>1, <2>3, <2>4, <2>5, <1>1 DEF Owed
<1>4. CASE PollNothing
  BY <1>1, <1>4 DEF PollNothing, Owed
<1>5. CASE PollTimeout
  <2>1. child.ctx \in {"cancelled", "deadline"} /\ (IF read.sid THEN 1 ELSE 0) \in {0, 1}
    BY <1>0, <1>5 DEF PollTimeout, ChildType
  <2>2. Owed(child.ctx)
    BY <1>0, <1>5 DEF Causes, Owed, PollTimeout
  <2> QED BY <1>1, <1>5, <2>1, <2>2 DEF PollTimeout
<1>6. CASE AwaitSession
  <2>1. PICK known \in BOOLEAN : read' = [read EXCEPT !.pc = "result", !.sid = known]
    BY <1>6 DEF AwaitSession
  <2>2. read' = [read EXCEPT !.pc = "result", !.seen = read.seen, !.saw = read.saw, !.sid = known]
        /\ read.seen \in BOOLEAN /\ read.saw \in {"nothing", "done"} /\ "result" \in JobLabels
    BY <1>0, <2>1 DEF ReadType, JobLabels
  <2> QED BY <1>2, <2>2
<1> QED BY <1>3, <1>4, <1>5, <1>6

(* The result of a finished job is read, or found missing. *)
LEMMA ReadResultInv ==
  ASSUME Inv, ReadResult
  PROVE  Inv'
<1> DEFINE err == ResultVerdict(job.file, read.sid)
           session == IF read.sid THEN 1 ELSE 0
<1>0. /\ job \in JobType /\ Retired /\ read.pc = "result" /\ read.err = "none"
      /\ UNCHANGED <<kind, attempt, over, caller, child, watch, job, first, out>>
  BY DEF Inv, TypeOK, ReadResult, Control, JobLabels
<1>1. err \in {"none", "transport", "model"} /\ session \in {0, 1}
  BY DEF ResultVerdict
<1>2. CleanUp(IF err = "none" THEN "rm" ELSE "stop", err, session)
  BY DEF ReadResult
<1> HIDE DEF err, session
<1>3. Owed(err) /\ err \in Errors
  BY <1>1 DEF Owed, Errors, TransportErrors
<1>4. (IF err = "none" THEN "rm" ELSE "stop") = "rm" => err \notin TransportErrors
  BY DEF TransportErrors
<1> QED BY <1>0, <1>1, <1>2, <1>3, <1>4, CleanUpInv DEF JobLabels, Retired

(* A failed job is stopped before it is removed. *)
LEMMA StopInv ==
  ASSUME Inv, StopJob
  PROVE  Inv'
<1>0. /\ read \in ReadType /\ job \in JobType /\ Retired /\ Control /\ Causes
      /\ read.pc = "stop" /\ attempt = 1
      /\ UNCHANGED <<kind, attempt, over, caller, child, watch, first, out>>
      /\ CleanUp("rm", read.err, read.session)
  BY DEF Inv, TypeOK, StopJob, Control
<1>1. /\ job' \in JobType /\ job'.stopped # "no" /\ (job'.stopped = "yes" => job'.worker = "gone")
  BY <1>0 DEF StopJob, JobType
<1>2. read.err \in Errors /\ read.session \in {0, 1} /\ Owed(read.err)
  BY <1>0 DEF ReadType, Control, Causes
<1> QED BY <1>0, <1>1, <1>2, CleanUpInv

(* A job is removed before the task finishes. *)
LEMMA RemoveInv ==
  ASSUME Inv, RemoveJob
  PROVE  Inv'
<1>0. /\ read \in ReadType /\ job \in JobType /\ Retired /\ Control /\ Causes
      /\ read.pc = "rm" /\ read.pc \in Judged \ {"finished"} /\ attempt = 1 /\ kind = "claude"
      /\ UNCHANGED <<kind, attempt, over, caller, watch, job, first, out>>
      /\ Finish(read.err, read.session)
  BY DEF Inv, TypeOK, RemoveJob, Control, Judged
<1>1. read.err \in Errors /\ read.session \in {0, 1, 2} /\ read.session \in {0, attempt} /\ Owed(read.err)
  BY <1>0 DEF ReadType, Control, Causes
<1>2. read.err \in TransportErrors => ~child.id \/ job.stopped # "no"
  BY <1>0 DEF Retired
<1> QED BY <1>0, <1>1, <1>2, FinishInv DEF Retired

(* A descendant of a command that cleans up lets go of its output. *)
LEMMA LetsGoInv ==
  ASSUME Inv, DescendantLetsGo
  PROVE  Inv'
<1>1. read' = [read EXCEPT !.held = FALSE] /\ UNCHANGED <<kind, attempt, over, caller, child, watch, job, first, out>>
  BY DEF DescendantLetsGo
<1>2. read \in ReadType
  BY DEF Inv, TypeOK
<1>3. TypeOK'
  BY <1>1, <1>2 DEF Inv, TypeOK, ReadType
<1>4. Control' /\ Retired' /\ Final' /\ Causes'
  BY <1>1, <1>2 DEF Inv, Control, Retired, Final, Causes, Owed, ReadType
<1>5. Piped'
  BY <1>1, <1>2 DEF Inv, Piped, Heard, LastMessage, Silent, ReadType
<1> QED BY <1>3, <1>4, <1>5 DEF Inv

(* The retry begins with a child of its own; what was tried on the job of the
   first attempt stays on record. *)
LEMMA RetryInv ==
  ASSUME Inv, Retry
  PROVE  Inv'
<1>0. /\ TypeOK /\ Control /\ Retired /\ Piped /\ Final /\ read \in ReadType /\ child \in ChildType
      /\ read.pc = "finished" /\ out = NoOut /\ attempt \in {1, 2}
      /\ UNCHANGED <<kind, over, caller, watch, job, out>>
      /\ first' = [err |-> read.err, session |-> read.session, named |-> child.id]
      /\ read' = Reading("idle") /\ child' = Child("none", "live", FALSE)
  BY DEF Inv, TypeOK, Retry
<1>1. kind = "claude" /\ attempt = 1 /\ attempt' = 2 /\ read.err \in TransportErrors
  BY <1>0, AdaptersAssumption DEF TypeOK, Retry, Retryable, Transport
<1>2. child' \in ChildType /\ read' \in ReadType /\ first' \in FirstType
  <2>1. <<>> \in Seq(PiLines) /\ 0 \in 0 .. MaxLines
    BY LinesAssumption
  <2>2. child' \in ChildType
    BY <1>0, <2>1 DEF Child, ChildType
  <2>3. read' \in ReadType
    BY <1>0 DEF Reading, ReadType, Errors
  <2>4. first' \in FirstType
    BY <1>0 DEF FirstType, ReadType, ChildType
  <2> QED BY <2>2, <2>3, <2>4
<1>3. TypeOK'
  BY <1>0, <1>1, <1>2 DEF TypeOK
<1>4. Control'
  BY <1>0, <1>1 DEF Control, Child, Reading, NoOut, Judged, JobLabels, TransportErrors
<1>5. Retired'
  <2>1. ~first'.named \/ job'.stopped # "no"
    BY <1>0, <1>1 DEF Retired
  <2> QED BY <2>1, <1>0 DEF Retired, Reading
<1>6. Final' /\ Causes'
  BY <1>0, <1>1 DEF Final, Causes, Owed, Reading, Child, NoOut
<1>7. Piped'
  BY <1>0 DEF Piped, Heard, Child, Reading
<1> QED BY <1>3, <1>4, <1>5, <1>6, <1>7 DEF Inv

(* The caller gets the current attempt's answer or the first one's failure. *)
LEMMA ReturnInv ==
  ASSUME Inv, Return
  PROVE  Inv'
<1> DEFINE won == attempt = 1 \/ Reported = "none"
<1>0. /\ TypeOK /\ Control /\ Retired /\ Causes /\ read \in ReadType /\ first \in FirstType /\ attempt \in {1, 2}
      /\ read.pc = "finished" /\ out' = Answer(won)
      /\ UNCHANGED <<kind, attempt, over, caller, child, read, watch, job, first>>
  BY DEF Inv, TypeOK, Return
<1>1. Reported \in Errors /\ (Reported = "none" => read.err = "none") /\ Owed(Reported)
  BY <1>0 DEF Reported, ReadType, Errors, Causes, Owed
<1> HIDE DEF won
<1>2. out' \in OutType
  BY <1>0, <1>1 DEF Answer, OutType, ReadType, FirstType
<1>3. TypeOK'
  BY <1>0, <1>2 DEF TypeOK
<1>4. Control'
  <2>1. out'.ok => read.err = "none" /\ out'.by = attempt /\ out'.session = read.session
    BY <1>0, <1>1 DEF Answer
  <2>2. out'.session \in {0, out'.by}
    BY <1>0 DEF Answer, Control
  <2> QED BY <1>0, <2>1, <2>2 DEF Control
<1>5. Causes'
  <2>1. Owed(out'.err)
    BY <1>0, <1>1 DEF Answer, Causes, Owed, TransportErrors
  <2> QED BY <1>0, <2>1 DEF Causes, Owed
<1>6. Piped' /\ Final' /\ Retired'
  BY <1>0 DEF Inv, Piped, Final, Retired, Heard, LastMessage, Silent
<1> QED BY <1>3, <1>4, <1>5, <1>6 DEF Inv

(* The settlement timer fires, and marks the watch. *)
LEMMA FiresInv ==
  ASSUME Inv, TimerFires \/ TimerExpires
  PROVE  Inv'
<1>1. UNCHANGED <<kind, attempt, over, caller, child, read, job, first, out>>
      /\ watch' \in WatchType /\ (watch.expired => watch'.expired)
  BY DEF TimerFires, TimerExpires, Inv, TypeOK, WatchType
<1> QED BY <1>1 DEF Inv, TypeOK, Control, Retired, Piped, Final, Causes, Owed, Heard, LastMessage, Silent

(* Every step keeps the invariant. *)
LEMMA NextInv ==
  ASSUME Inv, [Next]_vars
  PROVE  Inv'
<1>1. CASE UNCHANGED vars
  BY <1>1 DEF vars, Inv, TypeOK, Control, Retired, Piped, Final, Causes, Owed, Heard, LastMessage, Silent
<1>2. CASE Reader
  BY <1>2, TakeLineInv, ScanEndsInv, HandleInv, WaitInv, JudgeInv, FollowInv, ReadResultInv, StopInv, RemoveInv DEF Reader
<1>3. CASE Code
  BY <1>2, <1>3, StartInv, FollowInv, RetryInv, ReturnInv DEF Code
<1> QED BY <1>1, <1>3, ProcessInv, FiresInv, ServiceInv, ChildInv, LetsGoInv DEF Next

(* The inductive invariant of a task, for every set of adapters and every
   number of lines (llm/subprocess.go, llmadapters/subprocess.go, pi_rpc.go). *)
THEOREM InvHolds == Spec => []Inv
<1>1. Init => Inv
  BY InitInv
<1>2. Inv /\ [Next]_vars => Inv'
  BY NextInv
<1> QED BY <1>1, <1>2, PTL DEF Spec

(* Every variable keeps its type. *)
THEOREM TypeCorrect == Spec => []TypeOK
<1>1. Inv => TypeOK
  BY DEF Inv
<1> QED BY <1>1, InvHolds, PTL

(* The foreground retry never runs beside a worker of the background job that
   could have been named and stopped (subprocess.go:498-530, 1828-1845). *)
THEOREM RetryIsAlone == Spec => []RetryAlone
<1>1. Inv => RetryAlone
  BY DEF Inv, TypeOK, JobType, Retired, RetryAlone
<1> QED BY <1>1, InvHolds, PTL

(* Whatever is reported, answer or error, comes with the session of the stream
   it is the report of or with none, whichever attempt ran last and however it
   ended (subprocess.go:485-496, 498-530). *)
THEOREM SessionsOfAnswers == Spec => []SessionOfItsAnswer
<1>1. Inv => SessionOfItsAnswer
  BY DEF Inv, Control, SessionOfItsAnswer
<1> QED BY <1>1, InvHolds, PTL

(* Pi answers with the last message of a run that settled, however many lines
   and messages came before it and whenever they are read (pi_rpc.go:662-690). *)
THEOREM FinalAnswerOnly == Spec => []OnlyTheFinalAnswer
<1>1. Inv => OnlyTheFinalAnswer
  BY DEF Inv, Control, Final, OnlyTheFinalAnswer
<1> QED BY <1>1, InvHolds, PTL

(* A run that cancels itself is never reported as one the caller or the budget
   ended, but for a watch that expires when nobody looks at it any more, in
   whatever order the line it refuses, its watch, the budget, the caller and
   the end of its child come (pi_rpc.go:557-585, 598-661). *)
THEOREM NoFalseInterruption == Spec => []InterruptionsAreReal
<1>1. Inv => InterruptionsAreReal
  BY DEF Inv, Causes, Owed, InterruptionsAreReal
<1> QED BY <1>1, InvHolds, PTL

-----------------------------------------------------------------------------
(* Answers to discussions (ThreadRespond).                                 *)

(* Types: those of RespondTypeOK, with numbers in place of what is counted.  *)

CommentType == [by : {"cr", "person", "own"}, run : Nat]
TaskType    == [input : Seq(CommentType), decision : {"skip", "reply", "resolve", "failed"}]
ActsType    == [Threads -> [Kinds -> Statuses]]
RunType     == [head : 0..MaxUpsets, dry : BOOLEAN, marked : BOOLEAN, outcome : Outcomes,
                tasks : [Threads -> {None} \cup TaskType], acts : ActsType]
SeenType    == UNION {[S -> Seq(CommentType)] : S \in SUBSET Threads}
WorkType     == [head : 0..MaxUpsets, tries : Nat, seen : {None} \cup SeenType, run : Nat,
                ask : SUBSET Threads, post : SUBSET (Kinds \X Threads)]

Types ==
  /\ head \in 0..MaxUpsets /\ upsets \in 0..MaxUpsets /\ head <= upsets
  /\ thread \in [Threads -> [resolved : BOOLEAN, comments : Seq(CommentType)]]
  /\ runs \in Seq(RunType)
  /\ lock \in [0..MaxUpsets -> Procs \cup {None}]
  /\ pc \in [Procs -> Labels] /\ req \in [Procs -> Requests \cup {Plain}]
  /\ work \in [Procs -> WorkType]

(* A process knows its run from here to there, and its threads. *)
WithRun  == {"mark", "load", "analyse", "finish", "premises", "reconcile", "send"}
Listed   == {"find"} \cup WithRun
Writing  == {"premises", "reconcile", "send"}
LockHeld == {"recheck", "list", "retry"} \cup Listed

(* What a process has read of a thread: its beginning, where a person had the *)
(* last word after something of ours.                                       *)
Asked(cs) ==
  \E m \in 1..Len(cs) :
    /\ cs[m].by = "cr"
    /\ \A j \in m + 1 .. Len(cs) : cs[j].by # "cr"
    /\ \E j \in m + 1 .. Len(cs) : cs[j].by = "person"

StartOf(s, cs) == Len(s) <= Len(cs) /\ \A k \in 1..Len(s) : s[k] = cs[k]

(* What is ours beyond it is of a run for other premises, or the reply that  *)
(* the process itself has just sent.                                        *)
Beyond(p, t) ==
  \A k \in Len(work[p].seen[t]) + 1 .. Len(thread[t].comments) :
    LET c == thread[t].comments[k] IN
    c.by = "cr" =>
      /\ c.run \in DOMAIN runs
      /\ runs[c.run].head = work[p].head => pc[p] = "send" /\ <<"reply", t>> \notin work[p].post

Snapshot(p) ==
  /\ work[p].seen \in SeenType
  /\ \A t \in DOMAIN work[p].seen :
       /\ Asked(work[p].seen[t])
       /\ StartOf(work[p].seen[t], thread[t].comments)
       /\ ~req[p].dry => Beyond(p, t)

AsSeen(p, t) == t \in DOMAIN work[p].seen /\ Run(p).tasks[t].input = work[p].seen[t]

ByRetry(p) == req[p].retry /\ ~req[p].dry

(* What a process knows where it stands: who writes for premises holds their  *)
(* lock, its run is one for them, what it has read of a thread still begins *)
(* the thread and nothing of ours for those premises stands beyond it, and  *)
(* what it is about to send was asked about what it has read.               *)
ProcInv(p) ==
  /\ pc[p] \in {"lock", "recheck", "retry"} \cup Writing => ~req[p].dry
  /\ pc[p] = "retry" => req[p].retry
  /\ pc[p] \in {"list", "find", "mark", "load", "analyse", "finish"} => ~ByRetry(p)
  /\ pc[p] \in LockHeld /\ ~req[p].dry => lock[work[p].head] = p
  /\ pc[p] = "retry" \/ (ByRetry(p) /\ pc[p] \in {"read", "lock", "recheck"}) => work[p].run \in DOMAIN runs
  /\ pc[p] \in WithRun =>
       work[p].run \in DOMAIN runs /\ Run(p).head = work[p].head /\ Run(p).dry = req[p].dry
  /\ pc[p] \in Listed /\ ~ByRetry(p) => Snapshot(p)
  /\ pc[p] = "analyse" =>
       /\ work[p].ask \subseteq DOMAIN work[p].seen
       /\ ~req[p].dry => \A t \in DOMAIN work[p].seen \ work[p].ask : AsSeen(p, t)
  /\ pc[p] \in {"premises", "reconcile"} /\ ~ByRetry(p) => \A a \in Pending(Run(p)) : AsSeen(p, a[2])
  /\ pc[p] = "send" /\ ~ByRetry(p) => \A a \in work[p].post : AsSeen(p, a[2])

RespondInv == Types /\ \A p \in Procs : ProcInv(p)

-----------------------------------------------------------------------------
(* Sequences.                                                              *)

LEMMA MaxExists ==
  ASSUME NEW S, S \subseteq Nat, IsFiniteSet(S), S # {}
  PROVE  \E m \in S : \A a \in S : a <= m
<1> DEFINE Lacks(T) == T # {} /\ ~(\E m \in T : \A a \in T : a <= m)
           Bad == {T \in SUBSET S : Lacks(T)}
<1> SUFFICES ASSUME Bad # {} PROVE FALSE
  BY DEF Bad
<1>1. FiniteSubsetsOf(S) = SUBSET S
  BY FS_FiniteSubsetsOfFinite
<1>2. IsWellFoundedOn(StrictSubsetOrdering(S), SUBSET S)
  BY <1>1, FS_StrictSubsetOrderingWellFounded
<1>3. PICK T \in Bad : \A U \in Bad : ~ (<<U, T>> \in StrictSubsetOrdering(S))
  <2> HIDE DEF Bad
  <2>1. Bad \subseteq SUBSET S
    BY DEF Bad
  <2> QED BY <2>1, <1>2, WFMin
<1>4. PICK x : x \in T
  BY DEF Bad
<1>5. T \ {x} \notin Bad
  <2>1. <<T \ {x}, T>> \in StrictSubsetOrdering(S)
    BY <1>4 DEF StrictSubsetOrdering, Bad
  <2> QED BY <2>1, <1>3
<1>6. CASE T \ {x} = {}
  <2>1. \A a \in T : a = x /\ a \in Nat
    BY <1>6 DEF Bad
  <2>2. \A a \in T : a <= x
    BY <2>1
  <2> QED BY <2>2, <1>4 DEF Bad
<1>7. CASE T \ {x} # {}
  <2>1. PICK m \in T \ {x} : \A a \in T \ {x} : a <= m
    BY <1>5, <1>7 DEF Bad
  <2>2. m \in Nat /\ x \in Nat /\ T \subseteq Nat
    BY <1>4 DEF Bad
  <2>3. \E n \in T : \A a \in T : a <= n
    <3>1. CASE x <= m
      BY <3>1, <2>1, <2>2
    <3>2. CASE m <= x
      <4>1. \A a \in T : a <= x
        BY <3>2, <2>1, <2>2
      <4> QED BY <4>1, <1>4
    <3> QED BY <3>1, <3>2, <2>2
  <2> QED BY <2>3 DEF Bad
<1> QED BY <1>6, <1>7

(* The newest comment of ours is what its name says.                       *)
LEMMA NewestOursIs ==
  ASSUME NEW cs \in Seq(CommentType)
  PROVE  /\ NewestOurs(cs) \in 0..Len(cs)
         /\ NewestOurs(cs) # 0 => cs[NewestOurs(cs)].by = "cr"
         /\ \A j \in NewestOurs(cs) + 1 .. Len(cs) : cs[j].by # "cr"
<1> DEFINE S == {i \in 0..Len(cs) : i # 0 => cs[i].by = "cr"}
<1>1. Len(cs) \in Nat
  OBVIOUS
<1>2. S \subseteq Nat /\ S # {}
  <2>1. 0 \in S
    BY <1>1
  <2> QED BY <2>1, <1>1
<1>3. IsFiniteSet(S)
  <2>1. IsFiniteSet(0..Len(cs))
    BY <1>1, FS_Interval
  <2> QED BY <2>1, FS_Subset
<1>4. PICK m \in S : \A a \in S : a <= m
  BY <1>2, <1>3, MaxExists
<1>5. \A j \in m + 1 .. Len(cs) : cs[j].by # "cr"
  <2> SUFFICES ASSUME NEW j \in m + 1 .. Len(cs), cs[j].by = "cr"  PROVE FALSE
    OBVIOUS
  <2>1. j \in 0..Len(cs) /\ m \in Nat /\ j > m
    BY <1>1, <1>2
  <2>2. j \in S
    BY <2>1
  <2> QED BY <2>1, <2>2, <1>4
<1>6. \E i \in 0..Len(cs) : /\ i # 0 => cs[i].by = "cr"
                            /\ \A j \in i + 1 .. Len(cs) : cs[j].by # "cr"
  BY <1>4, <1>5
<1> QED BY <1>6 DEF NewestOurs

(* An eligible thread is one in which a person has the last word on ours.   *)
LEMMA EligibleAsked ==
  ASSUME NEW th \in [resolved : BOOLEAN, comments : Seq(CommentType)], Eligible(th)
  PROVE  Asked(th.comments)
<1> DEFINE cs == th.comments
<1>1. cs \in Seq(CommentType)
  OBVIOUS
<1> HIDE DEF cs
<1>2. NewestOurs(cs) # 0 /\ PersonAfter(cs, NewestOurs(cs))
  BY DEF Eligible, cs
<1>3. NewestOurs(cs) \in 1..Len(cs)
  BY <1>1, <1>2, NewestOursIs
<1>4. Asked(cs)
  BY <1>1, <1>2, <1>3, NewestOursIs DEF Asked, PersonAfter
<1> QED BY <1>4 DEF cs

LEMMA StartOfItself == \A cs : StartOf(cs, cs)
BY DEF StartOf

LEMMA StartOfAppended ==
  ASSUME NEW cs \in Seq(CommentType), NEW c \in CommentType
  PROVE  /\ Append(cs, c) \in Seq(CommentType)
         /\ StartOf(cs, Append(cs, c))
         /\ Len(Append(cs, c)) = Len(cs) + 1
         /\ Append(cs, c)[Len(cs) + 1] = c
BY DEF StartOf

LEMMA RunChanged ==
  ASSUME runs \in Seq(RunType), NEW i \in DOMAIN runs, NEW r \in RunType,
         runs' = [runs EXCEPT ![i] = r]
  PROVE  /\ runs' \in Seq(RunType) /\ Len(runs') = Len(runs) /\ DOMAIN runs' = DOMAIN runs
         /\ runs'[i] = r
         /\ \A j \in DOMAIN runs : j # i => runs'[j] = runs[j]
<1>1. i \in 1..Len(runs)
  OBVIOUS
<1>2. runs' \in Seq(RunType) /\ Len(runs') = Len(runs)
  BY <1>1, ExceptSeq
<1> QED BY <1>1, <1>2

LEMMA RunAppended ==
  ASSUME runs \in Seq(RunType), NEW r \in RunType, runs' = Append(runs, r)
  PROVE  /\ runs' \in Seq(RunType) /\ Len(runs') = Len(runs) + 1 /\ Len(runs) + 1 \in DOMAIN runs'
         /\ runs'[Len(runs) + 1] = r
         /\ \A j \in DOMAIN runs : j \in DOMAIN runs' /\ runs'[j] = runs[j]
OBVIOUS

-----------------------------------------------------------------------------
(* What a step of q does to the others.                                    *)

RunsFrame(q) ==
  \A i \in DOMAIN runs :
    /\ i \in DOMAIN runs' /\ runs'[i].head = runs[i].head /\ runs'[i].dry = runs[i].dry
    /\ runs'[i] = runs[i] \/ runs[i].dry \/ lock[runs[i].head] = q

ThreadsFrame(q) ==
  \A t \in Threads :
    /\ StartOf(thread[t].comments, thread'[t].comments)
    /\ \A k \in Len(thread[t].comments) + 1 .. Len(thread'[t].comments) :
         LET c == thread'[t].comments[k] IN
         c.by = "cr" => c.run \in DOMAIN runs /\ lock[runs[c.run].head] = q

OthersFrame(q) ==
  \A p \in Procs \ {q} :
    /\ pc'[p] = pc[p] /\ req'[p] = req[p] /\ work'[p] = work[p]
    /\ \A h \in 0..MaxUpsets : lock[h] = p => lock'[h] = p

Frame(q) == RunsFrame(q) /\ ThreadsFrame(q) /\ OthersFrame(q)

(* What p has read stays the beginning of the thread, and only the holder of *)
(* a lock writes for its premises.                                          *)
LEMMA SnapshotKept ==
  ASSUME Types, Types', NEW q, NEW p \in Procs \ {q}, Frame(q),
         ~req[p].dry => lock[work[p].head] = p, Snapshot(p)
  PROVE  Snapshot(p)'
<1>1. work'[p] = work[p] /\ req'[p] = req[p] /\ pc'[p] = pc[p]
  BY DEF Frame, OthersFrame
<1>2. work'[p].seen \in SeenType
  BY <1>1 DEF Snapshot
<1> SUFFICES ASSUME NEW t \in DOMAIN work[p].seen
             PROVE  /\ StartOf(work[p].seen[t], thread'[t].comments)
                    /\ ~req[p].dry => Beyond(p, t)'
  BY <1>1, <1>2 DEF Snapshot
<1> DEFINE s == work[p].seen[t]
           old == thread[t].comments
           new == thread'[t].comments
<1>3. t \in Threads /\ s \in Seq(CommentType)
  BY DEF Snapshot, SeenType
<1>4. old \in Seq(CommentType) /\ new \in Seq(CommentType)
  BY <1>3 DEF Types
<1>5. StartOf(s, old) /\ StartOf(old, new)
  BY <1>3 DEF Snapshot, Frame, ThreadsFrame
<1>6. StartOf(s, new)
  <2> HIDE DEF s, old, new
  <2>1. Len(s) \in Nat /\ Len(old) \in Nat /\ Len(new) \in Nat
    BY <1>3, <1>4
  <2> QED BY <2>1, <1>5 DEF StartOf
<1>7. ASSUME ~req[p].dry  PROVE Beyond(p, t)'
  <2> SUFFICES ASSUME NEW k \in Len(s) + 1 .. Len(new), new[k].by = "cr"
               PROVE  /\ new[k].run \in DOMAIN runs'
                      /\ runs'[new[k].run].head = work[p].head => pc[p] = "send" /\ <<"reply", t>> \notin work[p].post
    BY <1>1 DEF Beyond
  <2>1. Len(s) \in Nat /\ Len(old) \in Nat /\ Len(new) \in Nat
    BY <1>3, <1>4
  <2>2. CASE k <= Len(old)
    <3>1. k \in Len(s) + 1 .. Len(old) /\ k \in 1..Len(old)
      BY <2>1, <2>2
    <3>2. old[k] = new[k]
      BY <3>1, <1>5 DEF StartOf
    <3>3. /\ new[k].run \in DOMAIN runs
          /\ runs[new[k].run].head = work[p].head => pc[p] = "send" /\ <<"reply", t>> \notin work[p].post
      BY <3>1, <3>2, <1>7 DEF Snapshot, Beyond
    <3> QED BY <3>3 DEF Frame, RunsFrame
  <2>3. CASE k > Len(old)
    <3>1. k \in Len(old) + 1 .. Len(new)
      BY <2>1, <2>3
    <3>2. new[k].run \in DOMAIN runs /\ lock[runs[new[k].run].head] = q
      BY <3>1, <1>3 DEF Frame, ThreadsFrame
    <3>3. new[k].run \in DOMAIN runs' /\ runs'[new[k].run].head = runs[new[k].run].head
      BY <3>2 DEF Frame, RunsFrame
    <3>4. runs[new[k].run].head # work[p].head
      BY <3>2, <1>7
    <3> QED BY <3>3, <3>4
  <2> QED BY <2>1, <2>2, <2>3
<1> QED BY <1>6, <1>7

LEMMA FrameKeeps ==
  ASSUME Types, Types', NEW q, NEW p \in Procs \ {q}, Frame(q), ProcInv(p)
  PROVE  ProcInv(p)'
<1>1. work'[p] = work[p] /\ req'[p] = req[p] /\ pc'[p] = pc[p]
  BY DEF Frame, OthersFrame
<1>2. /\ work[p].head \in 0..MaxUpsets
      /\ lock[work[p].head] = p => lock'[work[p].head] = p
  BY DEF Types, WorkType, Frame, OthersFrame
<1>3. work[p].run \in DOMAIN runs =>
        /\ work[p].run \in DOMAIN runs' /\ runs'[work[p].run].head = runs[work[p].run].head
        /\ runs'[work[p].run].dry = runs[work[p].run].dry
  BY DEF Frame, RunsFrame
<1>4. ASSUME pc[p] \in WithRun, ~req[p].dry
      PROVE  runs'[work[p].run] = runs[work[p].run]
  <2>1. work[p].run \in DOMAIN runs /\ Run(p).head = work[p].head /\ ~Run(p).dry /\ lock[work[p].head] = p
    BY <1>4 DEF ProcInv, LockHeld, Listed
  <2> QED BY <2>1 DEF Frame, RunsFrame, Run
<1>5. ASSUME pc[p] \in Listed, ~ByRetry(p)  PROVE Snapshot(p)'
  <2>1. Snapshot(p)
    BY <1>5 DEF ProcInv
  <2>2. ~req[p].dry => lock[work[p].head] = p
    BY <1>5 DEF ProcInv, LockHeld
  <2> QED BY <2>1, <2>2, SnapshotKept
<1>6. /\ pc[p] \in {"lock", "recheck", "retry"} \cup Writing => ~req[p].dry
      /\ pc[p] = "retry" => req[p].retry
      /\ pc[p] \in {"list", "find", "mark", "load", "analyse", "finish"} => ~ByRetry(p)
      /\ pc[p] \in LockHeld /\ ~req[p].dry => lock'[work[p].head] = p
  BY <1>2 DEF ProcInv
<1>7. /\ pc[p] = "retry" \/ (ByRetry(p) /\ pc[p] \in {"read", "lock", "recheck"}) => work[p].run \in DOMAIN runs'
      /\ pc[p] \in WithRun => /\ work[p].run \in DOMAIN runs' /\ runs'[work[p].run].head = work[p].head
                              /\ runs'[work[p].run].dry = req[p].dry
  BY <1>3 DEF ProcInv, Run
<1>8. /\ pc[p] = "analyse" =>
           /\ work[p].ask \subseteq DOMAIN work[p].seen
           /\ ~req[p].dry => \A t \in DOMAIN work[p].seen \ work[p].ask :
                               runs'[work[p].run].tasks[t].input = work[p].seen[t]
      /\ pc[p] \in {"premises", "reconcile"} /\ ~ByRetry(p) =>
           \A a \in Pending(runs'[work[p].run]) :
             a[2] \in DOMAIN work[p].seen /\ runs'[work[p].run].tasks[a[2]].input = work[p].seen[a[2]]
      /\ pc[p] = "send" /\ ~ByRetry(p) =>
           \A a \in work[p].post :
             a[2] \in DOMAIN work[p].seen /\ runs'[work[p].run].tasks[a[2]].input = work[p].seen[a[2]]
  <2>1. pc[p] \in {"analyse"} \cup Writing => pc[p] \in WithRun
    BY DEF WithRun, Writing
  <2>2. pc[p] \in Writing => ~req[p].dry
    BY DEF ProcInv
  <2> QED BY <2>1, <2>2, <1>4 DEF ProcInv, AsSeen, Run, Writing
<1> QED BY <1>1, <1>5, <1>6, <1>7, <1>8 DEF ProcInv, ByRetry, AsSeen, Run, Pending, Actions

-----------------------------------------------------------------------------
(* The steps of a process.                                                 *)

RunKept(p) == Types' /\ Frame(p) /\ ProcInv(p)'

LEMMA IdleKept ==
  ASSUME NEW p \in Procs, pc'[p] = "idle"
  PROVE  ProcInv(p)'
BY DEF ProcInv, Listed, WithRun, Writing, LockHeld

LEMMA ThreadsUnchanged ==
  ASSUME Types, NEW q, UNCHANGED thread
  PROVE  ThreadsFrame(q)
<1> SUFFICES ASSUME NEW t \in Threads
             PROVE  Len(thread[t].comments) + 1 .. Len(thread[t].comments) = {}
  BY StartOfItself DEF ThreadsFrame
<1>1. Len(thread[t].comments) \in Nat
  BY DEF Types
<1> QED BY <1>1

LEMMA RunsUnchanged == ASSUME NEW q, UNCHANGED runs  PROVE RunsFrame(q)
BY DEF RunsFrame

(* A process that ends leaves the others alone.                            *)
LEMMA RunEnded ==
  ASSUME Types, NEW p \in Procs, End(p)
  PROVE  /\ pc'[p] = "idle" /\ OthersFrame(p)
         /\ lock' \in [0..MaxUpsets -> Procs \cup {None}]
         /\ pc' \in [Procs -> Labels] /\ req' \in [Procs -> Requests \cup {Plain}]
         /\ work' \in [Procs -> WorkType]
<1>1. MaxUpsets \in Nat
  BY RespondAssumption
<1>2. Idle \in WorkType
  BY <1>1 DEF Idle, WorkType
<1>3. "idle" \in Labels
  BY DEF Labels
<1>4. pc' = [pc EXCEPT ![p] = "idle"] /\ req' = [req EXCEPT ![p] = Plain] /\ work' = [work EXCEPT ![p] = Idle]
  BY DEF End, Goto
<1>5. \A h \in 0..MaxUpsets : lock'[h] = IF lock[h] = p THEN None ELSE lock[h]
  BY DEF End, Released, Types
<1>6. lock' \in [0..MaxUpsets -> Procs \cup {None}]
  BY DEF End, Released, Types
<1>7. pc' \in [Procs -> Labels] /\ req' \in [Procs -> Requests \cup {Plain}] /\ work' \in [Procs -> WorkType]
  BY <1>2, <1>3, <1>4 DEF Types
<1>8. OthersFrame(p)
  BY <1>4, <1>5 DEF OthersFrame, Types
<1> QED BY <1>4, <1>6, <1>7, <1>8 DEF Types

LEMMA OutcomeTyped ==
  ASSUME NEW r \in RunType, NEW o \in Outcomes
  PROVE  [r EXCEPT !.outcome = o] \in RunType
BY DEF RunType

(* A process that writes to its run writes under the lock of its premises.  *)
LEMMA RunWritten ==
  ASSUME Types, NEW p \in Procs, ProcInv(p),
         pc[p] \in WithRun \/ (pc[p] = "retry" /\ Run(p).head = work[p].head),
         NEW r \in RunType, r.head = Run(p).head, r.dry = Run(p).dry,
         runs' = [runs EXCEPT ![work[p].run] = r]
  PROVE  /\ runs' \in Seq(RunType) /\ RunsFrame(p)
         /\ work[p].run \in DOMAIN runs /\ DOMAIN runs' = DOMAIN runs /\ runs'[work[p].run] = r
<1>1. work[p].run \in DOMAIN runs /\ runs \in Seq(RunType)
  BY DEF ProcInv, Types
<1>2. /\ runs' \in Seq(RunType) /\ DOMAIN runs' = DOMAIN runs /\ runs'[work[p].run] = r
      /\ \A j \in DOMAIN runs : j # work[p].run => runs'[j] = runs[j]
  BY <1>1, RunChanged
<1>3. Run(p).dry \/ lock[Run(p).head] = p
  BY DEF ProcInv, LockHeld, Listed
<1>4. RunsFrame(p)
  BY <1>1, <1>2, <1>3 DEF RunsFrame, Run
<1> QED BY <1>1, <1>2, <1>4

(* A step of its own that writes to no thread keeps what p knows of them.    *)
LEMMA OwnSnapshot ==
  ASSUME Types, NEW p \in Procs, Snapshot(p), RunsFrame(p), UNCHANGED thread,
         work'[p].seen = work[p].seen, work'[p].head = work[p].head, req'[p] = req[p],
         pc[p] = "send" => pc'[p] = "send" /\ work'[p].post \subseteq work[p].post
  PROVE  Snapshot(p)'
<1> SUFFICES ASSUME NEW t \in DOMAIN work[p].seen, ~req[p].dry, Beyond(p, t)
             PROVE  Beyond(p, t)'
  BY DEF Snapshot
<1> SUFFICES ASSUME NEW k \in Len(work[p].seen[t]) + 1 .. Len(thread[t].comments),
                    thread[t].comments[k].by = "cr"
             PROVE  LET c == thread[t].comments[k] IN
                    /\ c.run \in DOMAIN runs'
                    /\ runs'[c.run].head = work[p].head => pc'[p] = "send" /\ <<"reply", t>> \notin work'[p].post
  BY DEF Beyond
<1>1. LET c == thread[t].comments[k] IN
      /\ c.run \in DOMAIN runs
      /\ runs[c.run].head = work[p].head => pc[p] = "send" /\ <<"reply", t>> \notin work[p].post
  BY DEF Beyond
<1> QED BY <1>1 DEF RunsFrame

LEMMA EndsInErrorKept ==
  ASSUME Types, NEW p \in Procs, ProcInv(p), pc[p] \in WithRun, EndsInError(p),
         UNCHANGED <<head, thread>>, upsets' \in 0..MaxUpsets, upsets <= upsets'
  PROVE  RunKept(p)
<1>1. End(p)
  BY DEF EndsInError
<1>2. runs' \in Seq(RunType) /\ RunsFrame(p)
  <2>1. CASE UNCHANGED runs
    BY <2>1, RunsUnchanged DEF Types
  <2>2. CASE Completed(p, "failed")
    <3>1. Run(p) \in RunType
      BY DEF Run, ProcInv, Types
    <3>2. runs' = [runs EXCEPT ![work[p].run] = [Run(p) EXCEPT !.outcome = "failed"]]
      BY <2>2 DEF Completed, Run
    <3>3. [Run(p) EXCEPT !.outcome = "failed"] \in RunType
      BY <3>1, OutcomeTyped DEF Outcomes
    <3> QED BY <3>1, <3>2, <3>3, RunWritten DEF RunType
  <2> QED BY <2>1, <2>2 DEF EndsInError
<1>3. Types'
  <2>1. head <= upsets'
    BY RespondAssumption DEF Types
  <2> QED BY <1>1, <1>2, <2>1, RunEnded DEF Types
<1> QED BY <1>1, <1>2, <1>3, RunEnded, IdleKept, ThreadsUnchanged DEF RunKept, Frame

LEMMA CompletedKept ==
  ASSUME Types, NEW p \in Procs, ProcInv(p), pc[p] \in WithRun, End(p), NEW o \in Outcomes,
         Completed(p, o), UNCHANGED <<head, thread, upsets>>
  PROVE  RunKept(p)
<1>1. Run(p) \in RunType
  BY DEF Run, ProcInv, Types
<1>2. runs' = [runs EXCEPT ![work[p].run] = [Run(p) EXCEPT !.outcome = o]]
  BY DEF Completed, Run
<1>3. runs' \in Seq(RunType) /\ RunsFrame(p)
  BY <1>1, <1>2, OutcomeTyped, RunWritten DEF RunType
<1>4. Types'
  BY <1>3, RunEnded DEF Types
<1> QED BY <1>3, <1>4, RunEnded, IdleKept, ThreadsUnchanged DEF RunKept, Frame

(* A process that ends without a word.                                     *)
LEMMA LeftKept ==
  ASSUME Types, NEW p \in Procs, End(p),
         UNCHANGED <<head, thread, runs>>, upsets' \in 0..MaxUpsets, upsets <= upsets'
  PROVE  RunKept(p)
<1>1. head <= upsets'
  BY RespondAssumption DEF Types
<1>2. Types'
  BY <1>1, RunEnded DEF Types
<1> QED BY <1>2, RunEnded, IdleKept, ThreadsUnchanged, RunsUnchanged DEF RunKept, Frame

LEMMA UpsetCounts ==
  ASSUME Types, Upset
  PROVE  upsets' \in 0..MaxUpsets /\ upsets <= upsets'
BY RespondAssumption DEF Types, Upset

LEMMA LeavesKept ==
  ASSUME Types, NEW p \in Procs, ProcInv(p), Busy(p) \/ RefuseRetry(p) \/ Crash(p)
  PROVE  RunKept(p)
<1>1. End(p) /\ UNCHANGED <<head, thread, runs>>
  BY DEF Busy, RefuseRetry, Crash
<1>2. upsets' \in 0..MaxUpsets /\ upsets <= upsets'
  BY UpsetCounts DEF Busy, RefuseRetry, Crash, Types
<1> QED BY <1>1, <1>2, LeftKept

LEMMA ErrorsKept ==
  ASSUME Types, NEW p \in Procs, ProcInv(p),
         Refuse(p) \/ (\E t \in Threads : Stale(p, t)) \/ ReadFails(p)
  PROVE  RunKept(p)
<1>1. EndsInError(p) /\ UNCHANGED <<head, thread>> /\ pc[p] \in WithRun
  BY DEF Refuse, Stale, Turn, ReadFails, WithRun
<1>2. upsets' \in 0..MaxUpsets /\ upsets <= upsets'
  BY UpsetCounts DEF Refuse, Stale, ReadFails, Types
<1> QED BY <1>1, <1>2, EndsInErrorKept

LEMMA VerdictTyped == \A run : Verdict(run) \in Outcomes
BY DEF Verdict, Outcomes

LEMMA EndsKept ==
  ASSUME Types, NEW p \in Procs, ProcInv(p), Moved(p) \/ FinishRun(p) \/ Complete(p)
  PROVE  RunKept(p)
<1>1. End(p) /\ UNCHANGED <<head, thread, upsets>> /\ pc[p] \in WithRun
  BY DEF Moved, FinishRun, Complete, WithRun
<1>2. \E o \in Outcomes : Completed(p, o)
  <2>1. {"aborted", "dry_run", "nothing_to_review"} \subseteq Outcomes
    BY DEF Outcomes
  <2> QED BY <2>1, VerdictTyped DEF Moved, FinishRun, Complete
<1> QED BY <1>1, <1>2, CompletedKept

(* A step that stays within the process: it moves on, and changes what it has *)
(* read.                                                                    *)
LEMMA Within ==
  ASSUME Types, NEW p \in Procs, NEW l \in Labels, Goto(p, l), NEW j \in WorkType,
         work' = [work EXCEPT ![p] = j], UNCHANGED <<head, thread, runs, lock, req, upsets>>
  PROVE  /\ Types' /\ Frame(p)
         /\ pc'[p] = l /\ work'[p] = j
<1>1. pc'[p] = l /\ work'[p] = j /\ OthersFrame(p)
  BY DEF Goto, Types, OthersFrame
<1>2. Types'
  BY DEF Goto, Types
<1> QED BY <1>1, <1>2, ThreadsUnchanged, RunsUnchanged DEF Frame

LEMMA StartsKept ==
  ASSUME Types, NEW p \in Procs, ProcInv(p), ReadPR(p) \/ Recheck(p)
  PROVE  RunKept(p)
<1> DEFINE j == [work[p] EXCEPT !.head = head]
<1>1. j \in WorkType /\ work[p] \in WorkType /\ work = [work EXCEPT ![p] = work[p]]
  BY DEF Types, WorkType
<1>2. CASE ReadPR(p)
  <2> DEFINE l == IF req[p].dry THEN "list" ELSE "lock"
  <2>1. l \in Labels /\ Goto(p, l) /\ work' = [work EXCEPT ![p] = j] /\ pc[p] = "read"
    BY <1>2 DEF ReadPR, Labels
  <2>2. Types' /\ Frame(p) /\ pc'[p] = l /\ work'[p] = j /\ req' = req /\ runs' = runs /\ lock' = lock
    BY <1>1, <1>2, <2>1, Within DEF ReadPR
  <2>3. j.run = work[p].run
    BY DEF Types, WorkType
  <2>4. ProcInv(p)'
    BY <2>1, <2>2, <2>3 DEF ProcInv, ByRetry, Listed, WithRun, Writing, LockHeld
  <2> QED BY <2>2, <2>4 DEF RunKept
<1>3. CASE Recheck(p)
  <2> DEFINE l == IF req[p].retry THEN "retry" ELSE "list"
  <2>1. l \in Labels /\ Goto(p, l) /\ work' = [work EXCEPT ![p] = work[p]] /\ pc[p] = "recheck"
    BY <1>1, <1>3 DEF Recheck, Labels
  <2>2. Types' /\ Frame(p) /\ pc'[p] = l /\ work'[p] = work[p] /\ req' = req /\ runs' = runs /\ lock' = lock
    BY <1>1, <1>3, <2>1, Within DEF Recheck
  <2>3. ProcInv(p)'
    BY <2>1, <2>2 DEF ProcInv, ByRetry, Listed, WithRun, Writing, LockHeld
  <2> QED BY <2>2, <2>3 DEF RunKept
<1> QED BY <1>2, <1>3

LEMMA LockKept ==
  ASSUME Types, NEW p \in Procs, ProcInv(p), Lock(p)
  PROVE  RunKept(p)
<1>1. /\ pc[p] = "lock" /\ pc' = [pc EXCEPT ![p] = "recheck"]
      /\ lock[work[p].head] = None /\ lock' = [lock EXCEPT ![work[p].head] = p]
      /\ UNCHANGED <<head, thread, runs, req, work, upsets>>
  BY DEF Lock, Goto
<1>2. work[p].head \in 0..MaxUpsets /\ "recheck" \in Labels
  BY DEF Types, WorkType, Labels
<1>3. Types' /\ pc'[p] = "recheck" /\ lock'[work[p].head] = p
  BY <1>1, <1>2 DEF Types
<1>4. OthersFrame(p)
  BY <1>1, <1>2, RespondAssumption DEF OthersFrame, Types
<1>5. ProcInv(p)'
  BY <1>1, <1>3 DEF ProcInv, ByRetry, Listed, WithRun, Writing, LockHeld
<1> QED BY <1>1, <1>3, <1>4, <1>5, ThreadsUnchanged, RunsUnchanged DEF RunKept, Frame

LEMMA TriedTyped ==
  ASSUME NEW r \in WorkType
  PROVE  LET j == [r EXCEPT !.tries = @ + 1, !.head = 0] IN j \in WorkType /\ j.run = r.run
<1>1. 0 \in 0..MaxUpsets
  BY RespondAssumption
<1>2. ASSUME NEW n \in Nat, NEW h \in 0..MaxUpsets
      PROVE  LET j == [r EXCEPT !.tries = n, !.head = h] IN j \in WorkType /\ j.run = r.run
  BY DEF WorkType
<1>3. r.tries + 1 \in Nat
  BY DEF WorkType
<1> QED BY <1>1, <1>2, <1>3

LEMMA MovedBeforeLockKept ==
  ASSUME Types, NEW p \in Procs, ProcInv(p), MovedBeforeLock(p)
  PROVE  RunKept(p)
<1>1. CASE End(p)
  <2>1. upsets' \in 0..MaxUpsets /\ upsets <= upsets' /\ UNCHANGED <<head, thread, runs>>
    BY DEF MovedBeforeLock, Types
  <2> QED BY <1>1, <2>1, LeftKept
<1>2. CASE ~End(p)
  <2> DEFINE j == [work[p] EXCEPT !.tries = @ + 1, !.head = 0]
  <2>1. /\ pc[p] = "recheck" /\ pc' = [pc EXCEPT ![p] = "read"] /\ work' = [work EXCEPT ![p] = j]
        /\ lock' = Released(p) /\ UNCHANGED <<head, thread, runs, req, upsets>>
    BY <1>2 DEF MovedBeforeLock, Goto
  <2>2. j \in WorkType /\ j.run = work[p].run /\ "read" \in Labels
    <3>1. work[p] \in WorkType
      BY DEF Types
    <3> QED BY <3>1, TriedTyped DEF Labels
  <2>3. \A h \in 0..MaxUpsets : lock'[h] = IF lock[h] = p THEN None ELSE lock[h]
    BY <2>1 DEF Released, Types
  <2>4. lock' \in [0..MaxUpsets -> Procs \cup {None}]
    BY <2>1 DEF Released, Types
  <2>5. Types' /\ pc'[p] = "read" /\ work'[p] = j
    BY <2>1, <2>2, <2>4 DEF Types
  <2>6. OthersFrame(p)
    BY <2>1, <2>3 DEF OthersFrame, Types
  <2>7. ProcInv(p)'
    BY <2>1, <2>2, <2>5 DEF ProcInv, ByRetry, Listed, WithRun, Writing, LockHeld
  <2> QED BY <2>1, <2>5, <2>6, <2>7, ThreadsUnchanged, RunsUnchanged DEF RunKept, Frame
<1> QED BY <1>1, <1>2

LEMMA ListKept ==
  ASSUME Types, NEW p \in Procs, ProcInv(p), List(p)
  PROVE  RunKept(p)
<1> DEFINE S == {t \in Threads : Eligible(thread[t])}
           s == [t \in S |-> thread[t].comments]
           j == [work[p] EXCEPT !.seen = s]
<1>1. s \in SeenType
  <2>1. S \in SUBSET Threads /\ s \in [S -> Seq(CommentType)]
    BY DEF Types
  <2> QED BY <2>1 DEF SeenType
<1>2. j \in WorkType /\ "find" \in Labels /\ work' = [work EXCEPT ![p] = j]
  BY <1>1 DEF Types, WorkType, Labels, List
<1>3. /\ Types' /\ Frame(p) /\ pc'[p] = "find" /\ work'[p] = j
      /\ UNCHANGED <<req, runs, lock, thread>> /\ pc[p] = "list"
  BY <1>2, Within DEF List
<1>4. work'[p].seen = s /\ work'[p].head = work[p].head
  BY <1>3 DEF Types, WorkType
<1>5. Snapshot(p)'
  <2> HIDE DEF s, j
  <2> SUFFICES ASSUME NEW t \in S
               PROVE  Asked(s[t]) /\ StartOf(s[t], thread[t].comments) /\ Beyond(p, t)'
    BY <1>1, <1>3, <1>4 DEF Snapshot, s
  <2>1. s[t] = thread[t].comments /\ thread[t] \in [resolved : BOOLEAN, comments : Seq(CommentType)]
    BY DEF s, Types
  <2>2. Asked(s[t]) /\ StartOf(s[t], thread[t].comments)
    BY <2>1, EligibleAsked, StartOfItself
  <2>3. Len(s[t]) + 1 .. Len(thread[t].comments) = {}
    <3>1. Len(thread[t].comments) \in Nat
      BY <2>1
    <3> QED BY <2>1, <3>1
  <2>4. Beyond(p, t)'
    BY <1>3, <1>4, <2>3 DEF Beyond
  <2> QED BY <2>2, <2>4
<1>6. ProcInv(p)'
  <2> HIDE DEF s, j
  <2> QED BY <1>3, <1>4, <1>5 DEF ProcInv, ByRetry, Listed, WithRun, Writing, LockHeld
<1> QED BY <1>3, <1>6 DEF RunKept

LEMMA ResumeKept ==
  ASSUME Types, NEW p \in Procs, ProcInv(p), Resume(p)
  PROVE  RunKept(p)
<1>1. PICK i \in Resumable(p) : work' = [work EXCEPT ![p].run = i]
  BY DEF Resume
<1> DEFINE j == [work[p] EXCEPT !.run = i]
<1>2. i \in DOMAIN runs /\ i \in Nat /\ runs[i].head = work[p].head /\ runs[i].dry = req[p].dry
  BY <1>1 DEF Resumable, Types
<1>3. j \in WorkType /\ "load" \in Labels
  <2>1. work[p] \in WorkType
    BY DEF Types
  <2> QED BY <2>1, <1>2 DEF WorkType, Labels
<1>4. /\ Types' /\ Frame(p) /\ pc'[p] = "load" /\ work'[p] = j
      /\ UNCHANGED <<req, runs, lock, thread>> /\ pc[p] = "find"
  BY <1>1, <1>3, Within DEF Resume
<1>5. work'[p].seen = work[p].seen /\ work'[p].head = work[p].head /\ work'[p].run = i
  BY <1>4 DEF Types, WorkType
<1>6. Snapshot(p)'
  <2>1. Snapshot(p)
    BY <1>4 DEF ProcInv, Listed
  <2> QED BY <1>4, <1>5, <2>1, OwnSnapshot DEF Frame
<1>7. ProcInv(p)'
  <2> HIDE DEF j
  <2> QED BY <1>2, <1>4, <1>5, <1>6 DEF ProcInv, ByRetry, Listed, WithRun, Writing, LockHeld, Run
<1> QED BY <1>4, <1>7 DEF RunKept

LEMMA FreshTyped ==
  ASSUME NEW h \in 0..MaxUpsets, NEW d \in BOOLEAN
  PROVE  Fresh(h, d) \in RunType /\ Fresh(h, d).head = h /\ Fresh(h, d).dry = d
<1>1. NoActions \in [Kinds -> Statuses]
  BY DEF NoActions, Kinds, Statuses
<1>2. [t \in Threads |-> NoActions] \in ActsType
  BY <1>1 DEF ActsType
<1>3. [t \in Threads |-> None] \in [Threads -> {None} \cup TaskType] /\ None \in Outcomes
  BY DEF Outcomes
<1> QED BY <1>2, <1>3 DEF Fresh, RunType

LEMMA CallTyped ==
  ASSUME Types, NEW p \in Procs
  PROVE  req[p] \in [dry : BOOLEAN, rerun : BOOLEAN, resolve : BOOLEAN, retry : BOOLEAN]
<1>1. Requests \subseteq [dry : BOOLEAN, rerun : BOOLEAN, resolve : BOOLEAN, retry : BOOLEAN]
  BY RespondAssumption
<1>2. Plain \in [dry : BOOLEAN, rerun : BOOLEAN, resolve : BOOLEAN, retry : BOOLEAN]
  BY DEF Plain
<1>3. req[p] \in Requests \cup {Plain}
  BY DEF Types
<1> QED BY <1>1, <1>2, <1>3

LEMMA AllocateKept ==
  ASSUME Types, NEW p \in Procs, ProcInv(p), Allocate(p)
  PROVE  RunKept(p)
<1> DEFINE i == Len(runs) + 1
           r == Fresh(work[p].head, req[p].dry)
           j == [work[p] EXCEPT !.run = i]
<1>1. /\ pc[p] = "find" /\ pc' = [pc EXCEPT ![p] = "mark"] /\ work' = [work EXCEPT ![p] = j]
      /\ runs' = Append(runs, r) /\ UNCHANGED <<head, thread, lock, req, upsets>>
  BY DEF Allocate, Goto
<1>2. req[p].dry \in BOOLEAN
  BY CallTyped
<1>3. r \in RunType /\ r.head = work[p].head /\ r.dry = req[p].dry
  <2>1. work[p].head \in 0..MaxUpsets
    BY DEF Types, WorkType
  <2> QED BY <1>2, <2>1, FreshTyped
<1> HIDE DEF r
<1>4. /\ runs' \in Seq(RunType) /\ i \in DOMAIN runs' /\ runs'[i] = r
      /\ \A k \in DOMAIN runs : k \in DOMAIN runs' /\ runs'[k] = runs[k]
  BY <1>1, <1>3, RunAppended DEF Types
<1>5. j \in WorkType /\ "mark" \in Labels
  <2>1. work[p] \in WorkType /\ Len(runs) \in Nat
    BY DEF Types
  <2> QED BY <2>1 DEF WorkType, Labels
<1>6. Types' /\ pc'[p] = "mark" /\ work'[p] = j
  BY <1>1, <1>4, <1>5 DEF Types
<1>7. OthersFrame(p) /\ RunsFrame(p)
  BY <1>1, <1>4 DEF OthersFrame, RunsFrame, Types
<1>8. work'[p].seen = work[p].seen /\ work'[p].head = work[p].head /\ work'[p].run = i
  <2>1. work[p] \in WorkType
    BY DEF Types
  <2> QED BY <2>1, <1>6 DEF WorkType
<1>9. Snapshot(p)'
  <2>1. Snapshot(p)
    BY <1>1 DEF ProcInv, Listed
  <2> QED BY <1>1, <1>7, <1>8, <2>1, OwnSnapshot
<1>10. ProcInv(p)'
  <2> HIDE DEF i, j
  <2> QED BY <1>1, <1>3, <1>4, <1>6, <1>8, <1>9 DEF ProcInv, ByRetry, Listed, WithRun, Writing, LockHeld, Run
<1> QED BY <1>1, <1>6, <1>7, <1>10, ThreadsUnchanged DEF RunKept, Frame

(* A step that writes to the run in hand and moves on.                      *)
LEMMA Writes ==
  ASSUME Types, NEW p \in Procs, ProcInv(p),
         pc[p] \in WithRun \/ (pc[p] = "retry" /\ Run(p).head = work[p].head),
         NEW r \in RunType, r.head = Run(p).head, r.dry = Run(p).dry,
         runs' = [runs EXCEPT ![work[p].run] = r],
         NEW l \in Labels, Goto(p, l), NEW j \in WorkType, work' = [work EXCEPT ![p] = j],
         UNCHANGED <<head, thread, lock, req, upsets>>
  PROVE  /\ Types' /\ Frame(p)
         /\ pc'[p] = l /\ work'[p] = j /\ work[p].run \in DOMAIN runs' /\ runs'[work[p].run] = r
<1>1. /\ runs' \in Seq(RunType) /\ RunsFrame(p)
      /\ work[p].run \in DOMAIN runs' /\ runs'[work[p].run] = r
  BY RunWritten
<1>2. pc'[p] = l /\ work'[p] = j /\ OthersFrame(p)
  BY DEF Goto, Types, OthersFrame
<1>3. Types'
  BY <1>1 DEF Goto, Types
<1> QED BY <1>1, <1>2, <1>3, ThreadsUnchanged DEF Frame

LEMMA MarkKept ==
  ASSUME Types, NEW p \in Procs, ProcInv(p), Mark(p)
  PROVE  RunKept(p)
<1> DEFINE r == [Run(p) EXCEPT !.marked = TRUE]
<1>1. Run(p) \in RunType /\ work[p] \in WorkType /\ work = [work EXCEPT ![p] = work[p]]
  BY DEF Mark, ProcInv, WithRun, Run, Types
<1>2. r \in RunType /\ r.head = Run(p).head /\ r.dry = Run(p).dry
  BY <1>1 DEF RunType
<1>3. runs' = [runs EXCEPT ![work[p].run] = r] /\ pc[p] = "mark" /\ pc[p] \in WithRun /\ "load" \in Labels
  BY DEF Mark, Run, WithRun, Labels
<1>4. /\ Types' /\ Frame(p) /\ pc'[p] = "load" /\ work'[p] = work[p]
      /\ work[p].run \in DOMAIN runs' /\ runs'[work[p].run] = r /\ req' = req /\ lock' = lock /\ thread' = thread
  <2>1. Goto(p, "load") /\ work' = [work EXCEPT ![p] = work[p]] /\ UNCHANGED <<head, thread, lock, req, upsets>>
    BY <1>1 DEF Mark
  <2> HIDE DEF r
  <2> QED BY <2>1, <1>1, <1>2, <1>3, Writes
<1>5. Snapshot(p)'
  <2>1. Snapshot(p)
    BY <1>3 DEF ProcInv, Listed, WithRun
  <2> QED BY <1>3, <1>4, <2>1, OwnSnapshot DEF Frame
<1>6. ProcInv(p)'
  <2> HIDE DEF r
  <2> QED BY <1>2, <1>3, <1>4, <1>5 DEF ProcInv, ByRetry, Listed, WithRun, Writing, LockHeld, Run
<1> QED BY <1>4, <1>6 DEF RunKept

LEMMA LoadActionsKept ==
  ASSUME Types, NEW p \in Procs, ProcInv(p), LoadActions(p)
  PROVE  RunKept(p)
<1> DEFINE l == IF req[p].dry THEN "finish" ELSE "premises"
<1>1. l \in Labels /\ Goto(p, l) /\ work' = [work EXCEPT ![p] = work[p]] /\ pc[p] = "load" /\ work[p] \in WorkType
  BY DEF LoadActions, Labels, Types
<1>2. /\ Types' /\ Frame(p) /\ pc'[p] = l /\ work'[p] = work[p]
      /\ req' = req /\ runs' = runs /\ lock' = lock /\ thread' = thread
  BY <1>1, Within DEF LoadActions
<1>3. Snapshot(p)'
  <2>1. Snapshot(p)
    BY <1>1 DEF ProcInv, Listed, WithRun
  <2> QED BY <1>1, <1>2, <2>1, OwnSnapshot DEF Frame
<1>4. \A a \in Pending(Run(p)) : AsSeen(p, a[2])
  BY DEF LoadActions, SameThreads, Pending, Actions, AsSeen
<1>5. ProcInv(p)'
  BY <1>1, <1>2, <1>3, <1>4 DEF ProcInv, ByRetry, Listed, WithRun, Writing, LockHeld, Run, AsSeen
<1> QED BY <1>2, <1>5 DEF RunKept

LEMMA StartAnalysisKept ==
  ASSUME Types, NEW p \in Procs, ProcInv(p), StartAnalysis(p)
  PROVE  RunKept(p)
<1> DEFINE j == [work[p] EXCEPT !.ask = DOMAIN work[p].seen]
<1>1. pc[p] = "load" /\ Snapshot(p)
  BY DEF StartAnalysis, ProcInv, Listed, WithRun
<1>2. j \in WorkType /\ "analyse" \in Labels
  <2>1. work[p] \in WorkType /\ DOMAIN work[p].seen \subseteq Threads
    BY <1>1 DEF Types, Snapshot, SeenType
  <2> QED BY <2>1 DEF WorkType, Labels
<1>3. /\ Types' /\ Frame(p) /\ pc'[p] = "analyse" /\ work'[p] = j
      /\ req' = req /\ runs' = runs /\ lock' = lock /\ thread' = thread
  BY <1>2, Within DEF StartAnalysis
<1>4. /\ work'[p].seen = work[p].seen /\ work'[p].head = work[p].head /\ work'[p].run = work[p].run
      /\ work'[p].ask = DOMAIN work[p].seen
  BY <1>3 DEF Types, WorkType
<1>5. Snapshot(p)'
  BY <1>1, <1>3, <1>4, OwnSnapshot DEF Frame
<1>6. ProcInv(p)'
  <2> HIDE DEF j
  <2> QED BY <1>1, <1>3, <1>4, <1>5 DEF ProcInv, ByRetry, Listed, WithRun, Writing, LockHeld, Run, AsSeen
<1> QED BY <1>3, <1>6 DEF RunKept

LEMMA ReuseKept ==
  ASSUME Types, NEW p \in Procs, ProcInv(p), NEW t \in Threads, Reuse(p, t)
  PROVE  RunKept(p)
<1> DEFINE j == [work[p] EXCEPT !.ask = @ \ {t}]
<1>1. pc[p] = "analyse" /\ Snapshot(p) /\ t \in work[p].ask
  BY DEF Reuse, Turn, ProcInv, Listed, WithRun
<1>2. j \in WorkType /\ "analyse" \in Labels /\ Goto(p, "analyse")
  <2>1. work[p] \in WorkType
    BY DEF Types
  <2> QED BY <1>1, <2>1 DEF WorkType, Labels, Goto, Reuse, Types
<1>3. /\ Types' /\ Frame(p) /\ pc'[p] = "analyse" /\ work'[p] = j
      /\ req' = req /\ runs' = runs /\ lock' = lock /\ thread' = thread
  BY <1>2, Within DEF Reuse
<1>4. /\ work'[p].seen = work[p].seen /\ work'[p].head = work[p].head /\ work'[p].run = work[p].run
      /\ work'[p].ask = work[p].ask \ {t}
  BY <1>3 DEF Types, WorkType
<1>5. Snapshot(p)'
  BY <1>1, <1>3, <1>4, OwnSnapshot DEF Frame
<1>6. AsSeen(p, t)
  BY <1>1 DEF Reuse, SameInput, Answered, AsSeen, ProcInv
<1>7. ProcInv(p)'
  <2> HIDE DEF j
  <2> QED BY <1>1, <1>3, <1>4, <1>5, <1>6 DEF ProcInv, ByRetry, Listed, WithRun, Writing, LockHeld, Run, AsSeen
<1> QED BY <1>3, <1>7 DEF RunKept

(* What is stored of an analysis, successful or not.                        *)
Answers == {"skip", "reply", "resolve", "failed"}

Noted(p, t, d, o) == [Run(p) EXCEPT !.tasks[t] = Task(work[p].seen[t], d), !.outcome = o]

LEMMA TaskStored ==
  ASSUME Types, NEW p \in Procs, ProcInv(p), pc[p] = "analyse", NEW t \in work[p].ask,
         NEW d \in Answers, NEW o \in Outcomes
  PROVE  LET r == Noted(p, t, d, o) IN
         /\ r \in RunType /\ r.head = Run(p).head /\ r.dry = Run(p).dry
         /\ r.tasks[t].input = work[p].seen[t]
         /\ \A u \in Threads : u # t => r.tasks[u] = Run(p).tasks[u]
<1>1. Run(p) \in RunType /\ Snapshot(p) /\ t \in DOMAIN work[p].seen
  BY DEF ProcInv, WithRun, Listed, Run, Types
<1>2. t \in Threads /\ work[p].seen[t] \in Seq(CommentType)
  BY <1>1 DEF Snapshot, SeenType
<1>3. Task(work[p].seen[t], d) \in TaskType /\ Task(work[p].seen[t], d).input = work[p].seen[t]
  BY <1>2 DEF Task, TaskType, Answers
<1> DEFINE k == Task(work[p].seen[t], d)
<1> HIDE DEF k
<1>4. k \in TaskType /\ k.input = work[p].seen[t]
  BY <1>3 DEF k
<1> QED BY <1>1, <1>2, <1>4 DEF RunType, k, Noted

LEMMA AnalyseKept ==
  ASSUME Types, NEW p \in Procs, ProcInv(p), NEW t \in Threads, Analyse(p, t)
  PROVE  RunKept(p)
<1>1. pc[p] = "analyse" /\ Snapshot(p) /\ t \in work[p].ask /\ Run(p) \in RunType /\ pc[p] \in WithRun
  BY DEF Analyse, Turn, ProcInv, Listed, WithRun, Run, Types
<1>2. PICK d \in Decisions[t] :
        runs' = [runs EXCEPT ![work[p].run].tasks[t] = Task(work[p].seen[t], d)]
  BY DEF Analyse
<1>3. d \in Answers
  BY RespondAssumption DEF Answers
<1> DEFINE r == Noted(p, t, d, Run(p).outcome)
           j == [work[p] EXCEPT !.ask = @ \ {t}]
<1>4. /\ r \in RunType /\ r.head = Run(p).head /\ r.dry = Run(p).dry
      /\ r.tasks[t].input = work[p].seen[t] /\ \A u \in Threads : u # t => r.tasks[u] = Run(p).tasks[u]
  <2>1. Run(p).outcome \in Outcomes
    BY <1>1 DEF RunType
  <2> QED BY <1>1, <1>3, <2>1, TaskStored
<1>5. runs' = [runs EXCEPT ![work[p].run] = r]
  BY <1>1, <1>2 DEF Run, RunType, Noted
<1>6. j \in WorkType /\ "analyse" \in Labels /\ Goto(p, "analyse") /\ work' = [work EXCEPT ![p] = j]
  <2>1. work[p] \in WorkType
    BY DEF Types
  <2> QED BY <1>1, <2>1 DEF WorkType, Labels, Goto, Analyse, Types
<1> HIDE DEF r
<1>7. /\ Types' /\ Frame(p) /\ pc'[p] = "analyse" /\ work'[p] = j
      /\ work[p].run \in DOMAIN runs' /\ runs'[work[p].run] = r
      /\ req' = req /\ lock' = lock /\ thread' = thread
  <2>1. UNCHANGED <<head, thread, lock, req, upsets>>
    BY DEF Analyse
  <2>2. r \in RunType /\ r.head = Run(p).head /\ r.dry = Run(p).dry /\ pc[p] \in WithRun
    BY <1>1, <1>4
  <2> HIDE DEF j
  <2> QED BY <2>1, <2>2, <1>5, <1>6, Writes
<1>8. /\ work'[p].seen = work[p].seen /\ work'[p].head = work[p].head /\ work'[p].run = work[p].run
      /\ work'[p].ask = work[p].ask \ {t}
  BY <1>7 DEF Types, WorkType
<1> HIDE DEF j
<1>9. Snapshot(p)'
  BY <1>1, <1>7, <1>8, OwnSnapshot DEF Frame
<1>10. ASSUME ~req[p].dry, NEW u \in DOMAIN work[p].seen \ (work[p].ask \ {t})
       PROVE  r.tasks[u].input = work[p].seen[u]
  <2>1. u \in Threads
    BY <1>1 DEF Snapshot, SeenType
  <2>2. u # t => AsSeen(p, u)
    BY <1>1, <1>10 DEF ProcInv
  <2> QED BY <2>1, <2>2, <1>4 DEF AsSeen
<1>11. ProcInv(p)'
  BY <1>1, <1>4, <1>7, <1>8, <1>9, <1>10 DEF ProcInv, ByRetry, Listed, WithRun, Writing, LockHeld, Run, AsSeen
<1> QED BY <1>7, <1>11 DEF RunKept

LEMMA AnalysisFailsKept ==
  ASSUME Types, NEW p \in Procs, ProcInv(p), NEW t \in Threads, AnalysisFails(p, t)
  PROVE  RunKept(p)
<1> DEFINE r == Noted(p, t, "failed", "incomplete")
<1>1. pc[p] = "analyse" /\ t \in work[p].ask /\ Run(p) \in RunType /\ pc[p] \in WithRun
  BY DEF AnalysisFails, Turn, ProcInv, WithRun, Run, Types
<1>2. r \in RunType /\ r.head = Run(p).head /\ r.dry = Run(p).dry
  <2>1. "incomplete" \in Outcomes /\ "failed" \in Answers
    BY DEF Outcomes, Answers
  <2> QED BY <1>1, <2>1, TaskStored
<1>3. runs' = [runs EXCEPT ![work[p].run] = r]
  BY <1>1 DEF AnalysisFails, Run, RunType, Noted
<1> HIDE DEF r
<1>4. runs' \in Seq(RunType) /\ RunsFrame(p)
  BY <1>1, <1>2, <1>3, RunWritten
<1>5. End(p) /\ UNCHANGED <<head, thread>> /\ upsets' \in 0..MaxUpsets /\ upsets <= upsets'
  BY UpsetCounts DEF AnalysisFails
<1>6. Types'
  <2>1. head <= upsets'
    BY <1>5, RespondAssumption DEF Types
  <2> QED BY <1>4, <1>5, <2>1, RunEnded DEF Types
<1> QED BY <1>4, <1>5, <1>6, RunEnded, IdleKept, ThreadsUnchanged DEF RunKept, Frame

(* A step that stores actions.                                              *)
Acted(p, acts) == [Run(p) EXCEPT !.acts = acts]

LEMMA ActsStored ==
  ASSUME Types, NEW p \in Procs, ProcInv(p), work[p].run \in DOMAIN runs, NEW acts \in ActsType
  PROVE  LET r == Acted(p, acts) IN
         r \in RunType /\ r.head = Run(p).head /\ r.dry = Run(p).dry /\ r.tasks = Run(p).tasks /\ r.acts = acts
<1>1. Run(p) \in RunType
  BY DEF Run, Types
<1> QED BY <1>1 DEF Acted, RunType

LEMMA ActsWritten ==
  ASSUME Types, NEW p \in Procs, ProcInv(p),
         pc[p] \in WithRun \/ (pc[p] = "retry" /\ Run(p).head = work[p].head),
         NEW acts \in ActsType, runs' = [runs EXCEPT ![work[p].run].acts = acts],
         NEW l \in Labels, Goto(p, l), NEW j \in WorkType, work' = [work EXCEPT ![p] = j],
         UNCHANGED <<head, thread, lock, req, upsets>>
  PROVE  /\ Types' /\ Frame(p)
         /\ pc'[p] = l /\ work'[p] = j /\ work[p].run \in DOMAIN runs' /\ runs'[work[p].run] = Acted(p, acts)
<1>1. work[p].run \in DOMAIN runs
  BY DEF ProcInv
<1>2. runs' = [runs EXCEPT ![work[p].run] = Acted(p, acts)]
  BY DEF Acted, Run
<1>3. /\ Acted(p, acts) \in RunType /\ Acted(p, acts).head = Run(p).head /\ Acted(p, acts).dry = Run(p).dry
  BY <1>1, ActsStored
<1> QED BY <1>2, <1>3, Writes

(* The actions that Plan stores.                                            *)
New(p) == IF req[p].dry THEN "planned_only" ELSE "pending"
Says(p, t, S) == t \in DOMAIN work[p].seen /\ Run(p).tasks[t].decision \in S
Drafts(p) ==
  [t \in Threads |->
     [reply   |-> IF Says(p, t, {"reply", "resolve"}) THEN New(p) ELSE "none",
      resolve |-> IF Says(p, t, {"resolve"}) /\ req[p].resolve THEN New(p) ELSE "none"]]

LEMMA PairTyped ==
  ASSUME NEW a \in Statuses, NEW b \in Statuses
  PROVE  [reply |-> a, resolve |-> b] \in [Kinds -> Statuses]
BY DEF Kinds

LEMMA DraftsTyped ==
  ASSUME NEW p \in Procs
  PROVE  /\ Drafts(p) \in ActsType
         /\ \A t \in Threads, k \in Kinds : t \notin DOMAIN work[p].seen => Drafts(p)[t][k] = "none"
<1>1. New(p) \in Statuses /\ "none" \in Statuses
  BY DEF New, Statuses
<1>2. Drafts(p) \in ActsType
  BY <1>1, PairTyped DEF Drafts, ActsType
<1> SUFFICES ASSUME NEW t \in Threads, NEW k \in Kinds, t \notin DOMAIN work[p].seen
             PROVE  Drafts(p)[t][k] = "none"
  BY <1>2
<1>3. Drafts(p)[t] = [reply |-> "none", resolve |-> "none"]
  BY DEF Drafts, Says
<1> QED BY <1>3 DEF Kinds

LEMMA PlanKept ==
  ASSUME Types, NEW p \in Procs, ProcInv(p), Plan(p)
  PROVE  RunKept(p)
<1>1. pc[p] = "analyse" /\ Snapshot(p) /\ work[p].ask = {} /\ pc[p] \in WithRun /\ work[p].run \in DOMAIN runs
  BY DEF Plan, ProcInv, Listed, WithRun
<1>2. Drafts(p) \in ActsType
  BY DraftsTyped
<1>3. runs' = [runs EXCEPT ![work[p].run].acts = Drafts(p)]
  BY DEF Plan, Drafts, Says, New
<1>4. PICK l \in Labels : Goto(p, l) /\ l \in {"finish", "premises"} /\ (req[p].dry => l = "finish")
  <2>1. {"finish", "premises"} \subseteq Labels
    BY DEF Labels
  <2> QED BY <2>1 DEF Plan
<1>5. work[p] \in WorkType /\ work' = [work EXCEPT ![p] = work[p]] /\ UNCHANGED <<head, thread, lock, req, upsets>>
  BY DEF Plan, Types
<1>6. /\ Types' /\ Frame(p) /\ pc'[p] = l /\ work'[p] = work[p]
      /\ work[p].run \in DOMAIN runs' /\ runs'[work[p].run] = Acted(p, Drafts(p))
  BY <1>1, <1>2, <1>3, <1>4, <1>5, ActsWritten
<1> DEFINE r == Acted(p, Drafts(p))
<1>7. r.head = Run(p).head /\ r.dry = Run(p).dry /\ r.tasks = Run(p).tasks /\ r.acts = Drafts(p)
  BY <1>1, <1>2, ActsStored
<1>8. \A a \in Pending(r) : a[2] \in DOMAIN work[p].seen
  BY <1>7, DraftsTyped DEF Pending, Actions
<1>9. Snapshot(p)'
  BY <1>1, <1>5, <1>6, OwnSnapshot DEF Frame
<1>10. ASSUME ~req[p].dry, NEW a \in Pending(r)
       PROVE  a[2] \in DOMAIN work[p].seen /\ r.tasks[a[2]].input = work[p].seen[a[2]]
  BY <1>1, <1>7, <1>8, <1>10 DEF ProcInv, AsSeen
<1> HIDE DEF r
<1>11. runs'[work[p].run] = r
  BY <1>6 DEF r
<1>12. ProcInv(p)'
  BY <1>1, <1>4, <1>5, <1>6, <1>7, <1>9, <1>10, <1>11
     DEF ProcInv, ByRetry, Listed, WithRun, Writing, LockHeld, Run, AsSeen
<1> QED BY <1>6, <1>12 DEF RunKept

(* --retry-posts: what has failed for good is pending again.                *)
Retried(p) ==
  [t \in Threads |-> [k \in Kinds |-> IF Run(p).acts[t][k] = "failed" THEN "pending" ELSE Run(p).acts[t][k]]]

LEMMA RetryKept ==
  ASSUME Types, NEW p \in Procs, ProcInv(p), RetryRun(p)
  PROVE  RunKept(p)
<1>1. pc[p] = "retry" /\ Run(p).head = work[p].head /\ ~Run(p).dry /\ work[p].run \in DOMAIN runs /\ ~req[p].dry
  BY DEF RetryRun, ProcInv
<1>2. Run(p) \in RunType
  BY <1>1 DEF Run, Types
<1>3. Retried(p) \in ActsType
  <2>1. Run(p).acts \in ActsType /\ "pending" \in Statuses
    BY <1>2 DEF RunType, Statuses
  <2> QED BY <2>1 DEF Retried, ActsType
<1>4. runs' = [runs EXCEPT ![work[p].run].acts = Retried(p)]
  BY DEF RetryRun, Retried, Run
<1>5. /\ "premises" \in Labels /\ Goto(p, "premises") /\ work[p] \in WorkType
      /\ work' = [work EXCEPT ![p] = work[p]] /\ UNCHANGED <<head, thread, lock, req, upsets>>
  BY DEF RetryRun, Types, Labels
<1>6. /\ Types' /\ Frame(p) /\ pc'[p] = "premises" /\ work'[p] = work[p]
      /\ work[p].run \in DOMAIN runs' /\ runs'[work[p].run] = Acted(p, Retried(p))
  BY <1>1, <1>3, <1>4, <1>5, ActsWritten
<1>7. /\ runs'[work[p].run].head = work[p].head /\ runs'[work[p].run].dry = FALSE
  <2>1. Run(p).dry \in BOOLEAN
    BY <1>2 DEF RunType
  <2> QED BY <1>1, <1>3, <1>6, <2>1, ActsStored
<1>8. ByRetry(p) /\ lock[work[p].head] = p
  <2>1. req[p].retry
    BY <1>1 DEF ProcInv
  <2>2. lock[work[p].head] = p
    BY <1>1 DEF ProcInv, LockHeld
  <2> QED BY <1>1, <2>1, <2>2 DEF ByRetry
<1>9. runs'[work[p].run].dry = req[p].dry
  BY <1>1, <1>7, CallTyped
<1>10. ProcInv(p)'
  BY <1>1, <1>5, <1>6, <1>7, <1>8, <1>9 DEF ProcInv, ByRetry, Listed, WithRun, Writing, LockHeld, Run
<1> QED BY <1>6, <1>10 DEF RunKept

LEMMA UnmovedKept ==
  ASSUME Types, NEW p \in Procs, ProcInv(p), Unmoved(p)
  PROVE  RunKept(p)
<1>1. /\ pc[p] = "premises" /\ "reconcile" \in Labels /\ Goto(p, "reconcile") /\ work[p] \in WorkType
      /\ work' = [work EXCEPT ![p] = work[p]]
  BY DEF Unmoved, Types, Labels
<1>2. /\ Types' /\ Frame(p) /\ pc'[p] = "reconcile" /\ work'[p] = work[p]
      /\ req' = req /\ runs' = runs /\ lock' = lock /\ thread' = thread
  BY <1>1, Within DEF Unmoved
<1>3. ~ByRetry(p) => Snapshot(p)'
  <2>1. ~ByRetry(p) => Snapshot(p)
    BY <1>1 DEF ProcInv, Listed, WithRun
  <2> QED BY <1>1, <1>2, <2>1, OwnSnapshot DEF Frame
<1>4. ProcInv(p)'
  BY <1>1, <1>2, <1>3 DEF ProcInv, ByRetry, Listed, WithRun, Writing, LockHeld, Run, AsSeen
<1> QED BY <1>2, <1>4 DEF RunKept

(* What is posted already is recorded; nothing becomes pending.             *)
LEMMA ReconciledTyped ==
  ASSUME NEW r \in RunType, NEW i
  PROVE  Reconciled(r, i) \in ActsType
<1>1. "posted" \in Statuses
  BY DEF Statuses
<1>2. \A t \in Threads : r.acts[t].reply \in Statuses /\ r.acts[t].resolve \in Statuses
  BY DEF RunType, ActsType, Kinds
<1> QED BY <1>1, <1>2, PairTyped DEF Reconciled, ActsType

LEMMA ReconciledShrinks ==
  ASSUME NEW r \in RunType, NEW i, NEW t \in Threads, NEW k \in Kinds, Reconciled(r, i)[t][k] = "pending"
  PROVE  r.acts[t][k] = "pending"
<1> DEFINE reply == IF r.acts[t].reply = "pending" /\ OnHost(t, i) THEN "posted" ELSE r.acts[t].reply
           ours  == r.acts[t].resolve = "pending" /\ thread[t].resolved /\ reply = "posted"
           resolve == IF ours THEN "posted" ELSE r.acts[t].resolve
<1>1. Reconciled(r, i)[t] = [reply |-> reply, resolve |-> resolve]
  BY DEF Reconciled
<1>2. reply = "pending" => r.acts[t].reply = "pending"
  OBVIOUS
<1>3. resolve = "pending" => r.acts[t].resolve = "pending"
  OBVIOUS
<1> HIDE DEF reply, resolve
<1>4. k \in {"reply", "resolve"}
  BY DEF Kinds
<1> QED BY <1>1, <1>2, <1>3, <1>4

PostType == SUBSET (Kinds \X Threads)

LEMMA PostTyped ==
  ASSUME NEW j \in WorkType, NEW post \in PostType
  PROVE  LET n == [j EXCEPT !.post = post] IN
         n \in WorkType /\ n.post = post /\ n.seen = j.seen /\ n.head = j.head /\ n.run = j.run
BY DEF WorkType, PostType

LEMMA ReconcileKept ==
  ASSUME Types, NEW p \in Procs, ProcInv(p), Reconcile(p)
  PROVE  RunKept(p)
<1> DEFINE acts == Reconciled(Run(p), work[p].run)
           r == Acted(p, acts)
           post == Pending(r)
           j == [work[p] EXCEPT !.post = post]
<1>1. pc[p] = "reconcile" /\ pc[p] \in WithRun /\ work[p].run \in DOMAIN runs /\ "send" \in Labels
  BY DEF Reconcile, ProcInv, WithRun, Labels
<1>2. Run(p) \in RunType /\ work[p] \in WorkType
  BY <1>1 DEF Run, Types
<1>3. acts \in ActsType
  BY <1>2, ReconciledTyped
<1>4. r.head = Run(p).head /\ r.dry = Run(p).dry /\ r.tasks = Run(p).tasks /\ r.acts = acts /\ r \in RunType
  BY <1>1, <1>3, ActsStored
<1>5. post \in PostType /\ post \subseteq Pending(Run(p))
  <2>1. post \subseteq Kinds \X Threads
    BY DEF Pending, Actions
  <2>2. \A a \in post : Run(p).acts[a[2]][a[1]] = "pending"
    BY <1>2, <1>4, ReconciledShrinks DEF Pending, Actions
  <2> QED BY <2>1, <2>2 DEF Pending, Actions, PostType
<1>6. runs' = [runs EXCEPT ![work[p].run].acts = acts]
  BY DEF Reconcile
<1>7. runs' = [runs EXCEPT ![work[p].run] = r]
  BY <1>6 DEF Acted, Run
<1> HIDE DEF acts, r
<1>8. runs'[work[p].run] = r
  BY <1>1, <1>2, <1>4, <1>7, RunWritten
<1>9. work' = [work EXCEPT ![p] = j]
  BY <1>8 DEF Reconcile
<1>10. j \in WorkType /\ j.post = post /\ j.seen = work[p].seen /\ j.head = work[p].head /\ j.run = work[p].run
  <2> HIDE DEF post
  <2> QED BY <1>2, <1>5, PostTyped
<1> HIDE DEF post, j
<1>11. Goto(p, "send") /\ UNCHANGED <<head, thread, lock, req, upsets>>
  BY DEF Reconcile
<1>12. Types' /\ Frame(p) /\ pc'[p] = "send" /\ work'[p] = j /\ work[p].run \in DOMAIN runs'
  BY <1>1, <1>4, <1>7, <1>9, <1>10, <1>11, Writes
<1>13. ~ByRetry(p) => Snapshot(p)'
  <2>1. ~ByRetry(p) => Snapshot(p)
    BY <1>1 DEF ProcInv, Listed
  <2> QED BY <1>1, <1>10, <1>11, <1>12, <2>1, OwnSnapshot DEF Frame
<1>14. ~ByRetry(p) => \A a \in post : a[2] \in DOMAIN work[p].seen /\ r.tasks[a[2]].input = work[p].seen[a[2]]
  BY <1>1, <1>4, <1>5 DEF ProcInv, AsSeen
<1>15. ProcInv(p)'
  BY <1>1, <1>4, <1>8, <1>10, <1>11, <1>12, <1>13, <1>14
     DEF ProcInv, ByRetry, Listed, WithRun, Writing, LockHeld, Run, AsSeen
<1> QED BY <1>12, <1>15 DEF RunKept

(* What a write puts on the threads: nothing, our reply on the thread it is  *)
(* for, or a resolution.                                                    *)
LEMMA ReplyApplied ==
  ASSUME Types, NEW t \in Threads, NEW c \in CommentType,
         thread' = [thread EXCEPT ![t].comments = Append(@, c)]
  PROVE  /\ thread' \in [Threads -> [resolved : BOOLEAN, comments : Seq(CommentType)]]
         /\ \A u \in Threads : u # t => thread'[u] = thread[u]
         /\ thread'[t].comments = Append(thread[t].comments, c)
<1> DEFINE cs == Append(thread[t].comments, c)
<1>1. cs \in Seq(CommentType)
  BY DEF Types
<1> DEFINE x == [thread[t] EXCEPT !.comments = cs]
<1>2. thread' = [thread EXCEPT ![t] = x]
  OBVIOUS
<1> HIDE DEF cs
<1>3. x \in [resolved : BOOLEAN, comments : Seq(CommentType)] /\ x.comments = cs
  BY <1>1 DEF Types
<1> HIDE DEF x
<1>4. /\ thread' \in [Threads -> [resolved : BOOLEAN, comments : Seq(CommentType)]]
      /\ \A u \in Threads : u # t => thread'[u] = thread[u]
      /\ thread'[t] = x
  BY <1>2, <1>3 DEF Types
<1> QED BY <1>3, <1>4 DEF cs

LEMMA WriteApplied ==
  ASSUME Types, NEW p \in Procs, NEW a \in Kinds \X Threads, work[p].run \in DOMAIN runs,
         thread' = thread \/ thread' = Applied(a, work[p].run)
  PROVE  /\ thread' \in [Threads -> [resolved : BOOLEAN, comments : Seq(CommentType)]]
         /\ \A u \in Threads :
              \/ thread'[u].comments = thread[u].comments
              \/ /\ thread'[u].comments = Append(thread[u].comments, Comment("cr", work[p].run))
                 /\ a = <<"reply", u>>
<1>1. CASE thread' = thread
  BY <1>1 DEF Types
<1>2. CASE thread' = Applied(a, work[p].run) /\ a[1] = "reply"
  <2>1. a[2] \in Threads /\ a = <<"reply", a[2]>> /\ thread' = [thread EXCEPT ![a[2]].comments = Append(@, Comment("cr", work[p].run))]
    BY <1>2 DEF Applied
  <2>2. Comment("cr", work[p].run) \in CommentType
    <3>1. work[p].run \in Nat
      BY DEF Types, WorkType
    <3> QED BY <3>1 DEF Comment, CommentType
  <2> HIDE DEF Comment
  <2>3. /\ thread' \in [Threads -> [resolved : BOOLEAN, comments : Seq(CommentType)]]
        /\ \A u \in Threads : u # a[2] => thread'[u] = thread[u]
        /\ thread'[a[2]].comments = Append(thread[a[2]].comments, Comment("cr", work[p].run))
    BY <2>1, <2>2, ReplyApplied
  <2> QED BY <2>1, <2>3
<1>3. CASE thread' = Applied(a, work[p].run) /\ a[1] # "reply"
  <2>1. thread' = [thread EXCEPT ![a[2]].resolved = TRUE]
    BY <1>3 DEF Applied
  <2>2. a[2] \in Threads /\ thread \in [Threads -> [resolved : BOOLEAN, comments : Seq(CommentType)]]
    BY DEF Types
  <2>3. thread' \in [Threads -> [resolved : BOOLEAN, comments : Seq(CommentType)]]
    BY <2>1, <2>2
  <2>4. \A u \in Threads : thread'[u].comments = thread[u].comments
    BY <2>1, <2>2
  <2> QED BY <2>3, <2>4
<1> QED BY <1>1, <1>2, <1>3

LEMMA AppendedBeyond ==
  ASSUME NEW cs \in Seq(CommentType), NEW new \in Seq(CommentType), NEW c,
         new = cs \/ new = Append(cs, c)
  PROVE  /\ StartOf(cs, new)
         /\ \A k \in Len(cs) + 1 .. Len(new) : new = Append(cs, c) /\ new[k] = c
<1>1. Len(cs) \in Nat
  OBVIOUS
<1>2. CASE new = cs
  <2>1. Len(cs) + 1 .. Len(new) = {}
    BY <1>1, <1>2
  <2> QED BY <2>1, <1>2, StartOfItself
<1>3. CASE new = Append(cs, c)
  <2>1. Len(new) = Len(cs) + 1 /\ new[Len(cs) + 1] = c /\ \A k \in 1..Len(cs) : new[k] = cs[k]
    BY <1>3
  <2>2. Len(cs) + 1 .. Len(new) = {Len(cs) + 1}
    BY <1>1, <2>1
  <2> QED BY <1>1, <1>3, <2>1, <2>2 DEF StartOf
<1> QED BY <1>2, <1>3

(* The writer's own reading: a reply of its own stands beyond it only where  *)
(* none is to be sent any more.                                             *)
LEMMA SenderSnapshot ==
  ASSUME Types, Types', NEW p \in Procs, NEW a \in Kinds \X Threads, Snapshot(p), pc[p] = "send", pc'[p] = "send",
         work[p].run \in DOMAIN runs, RunsFrame(p), req'[p] = req[p],
         work'[p].seen = work[p].seen, work'[p].head = work[p].head, work'[p].post = work[p].post \ {a},
         \A u \in Threads :
              \/ thread'[u].comments = thread[u].comments
              \/ /\ thread'[u].comments = Append(thread[u].comments, Comment("cr", work[p].run))
                 /\ a = <<"reply", u>>
  PROVE  Snapshot(p)'
<1> SUFFICES ASSUME NEW t \in DOMAIN work[p].seen
             PROVE  StartOf(work[p].seen[t], thread'[t].comments) /\ (~req[p].dry => Beyond(p, t)')
  BY DEF Snapshot
<1> DEFINE s == work[p].seen[t]
           old == thread[t].comments
           new == thread'[t].comments
           c == Comment("cr", work[p].run)
<1>1. t \in Threads /\ s \in Seq(CommentType)
  BY DEF Snapshot, SeenType
<1>2. old \in Seq(CommentType) /\ new \in Seq(CommentType)
  BY <1>1 DEF Types
<1>3. StartOf(s, old)
  BY DEF Snapshot
<1>4. new = old \/ (new = Append(old, c) /\ a = <<"reply", t>>)
  BY <1>1
<1>5. c.run = work[p].run /\ c.by = "cr"
  BY DEF Comment
<1>6. ASSUME ~req[p].dry, NEW k \in Len(s) + 1 .. Len(old), old[k].by = "cr"
      PROVE  /\ old[k].run \in DOMAIN runs
             /\ runs[old[k].run].head = work[p].head => <<"reply", t>> \notin work[p].post
  BY <1>6 DEF Snapshot, Beyond
<1> HIDE DEF s, old, new, c
<1>7. StartOf(old, new) /\ \A k \in Len(old) + 1 .. Len(new) : new = Append(old, c) /\ new[k] = c
  BY <1>2, <1>4, AppendedBeyond
<1>8. Len(s) \in Nat /\ Len(old) \in Nat /\ Len(new) \in Nat
  BY <1>1, <1>2
<1>9. StartOf(s, new)
  BY <1>3, <1>7, <1>8 DEF StartOf
<1>10. ASSUME ~req[p].dry, NEW k \in Len(s) + 1 .. Len(new), new[k].by = "cr"
       PROVE  /\ new[k].run \in DOMAIN runs'
              /\ runs'[new[k].run].head = work[p].head => <<"reply", t>> \notin work'[p].post
  <2>1. CASE k <= Len(old)
    <3>1. k \in Len(s) + 1 .. Len(old) /\ k \in 1..Len(old)
      BY <1>8, <2>1
    <3>2. old[k] = new[k]
      BY <3>1, <1>7 DEF StartOf
    <3>3. /\ new[k].run \in DOMAIN runs
          /\ runs[new[k].run].head = work[p].head => <<"reply", t>> \notin work[p].post
      BY <3>1, <3>2, <1>6, <1>10
    <3> QED BY <3>3 DEF RunsFrame
  <2>2. CASE k > Len(old)
    <3>1. k \in Len(old) + 1 .. Len(new)
      BY <1>8, <2>2
    <3>2. new[k] = c /\ new = Append(old, c)
      BY <3>1, <1>7
    <3>3. Len(new) = Len(old) + 1
      BY <3>2, <1>2
    <3>4. new # old
      BY <3>3, <1>8
    <3>5. <<"reply", t>> \notin work'[p].post
      BY <3>4, <1>4
    <3> QED BY <3>2, <3>5, <1>5 DEF RunsFrame
  <2> QED BY <2>1, <2>2, <1>8
<1>11. ~req[p].dry => Beyond(p, t)'
  BY <1>10 DEF Beyond, s, new
<1> QED BY <1>9, <1>11 DEF s, new

(* A status that is recorded.                                               *)
LEMMA StatusTyped ==
  ASSUME NEW acts \in ActsType, NEW a \in Kinds \X Threads, NEW s \in Statuses
  PROVE  [acts EXCEPT ![a[2]][a[1]] = s] \in ActsType
BY DEF ActsType

LEMMA SendKept ==
  ASSUME Types, NEW p \in Procs, ProcInv(p), NEW a \in Kinds \X Threads, Send(p, a)
  PROVE  RunKept(p)
<1> DEFINE post == work[p].post \ {a}
           j == [work[p] EXCEPT !.post = post]
<1>1. /\ pc[p] = "send" /\ pc[p] \in WithRun /\ work[p].run \in DOMAIN runs /\ lock[Run(p).head] = p
      /\ ~req[p].dry /\ Run(p).head = work[p].head /\ Run(p).dry = req[p].dry
  BY DEF Send, ProcInv, WithRun, Writing, LockHeld, Listed
<1>2. Run(p) \in RunType /\ work[p] \in WorkType
  BY <1>1 DEF Run, Types
<1>3. /\ thread' = thread \/ thread' = Applied(a, work[p].run)
      /\ UNCHANGED <<head, lock, pc, req>> /\ work' = [work EXCEPT ![p] = j]
  BY DEF Send
<1>4. upsets' \in 0..MaxUpsets /\ upsets <= upsets'
  BY UpsetCounts DEF Send, Types
<1>5. runs' = runs \/ \E s \in Statuses : Recorded(p, a, s)
  <2>1. "posted" \in Statuses /\ "failed" \in Statuses
    BY DEF Statuses
  <2> QED BY <2>1 DEF Send
<1>6. /\ runs' \in Seq(RunType) /\ RunsFrame(p) /\ work[p].run \in DOMAIN runs'
      /\ runs'[work[p].run].head = Run(p).head /\ runs'[work[p].run].dry = Run(p).dry
      /\ runs'[work[p].run].tasks = Run(p).tasks
  <2>1. CASE runs' = runs
    BY <2>1, <1>1, RunsUnchanged DEF Types, Run
  <2>2. CASE \E s \in Statuses : Recorded(p, a, s)
    <3>1. PICK s \in Statuses : Recorded(p, a, s)
      BY <2>2
    <3> DEFINE acts == [Run(p).acts EXCEPT ![a[2]][a[1]] = s]
               r == Acted(p, acts)
    <3>2. acts \in ActsType
      <4>1. Run(p).acts \in ActsType
        BY <1>2 DEF RunType
      <4> QED BY <4>1, StatusTyped
    <3>3. runs' = [runs EXCEPT ![work[p].run] = r]
      BY <3>1 DEF Recorded, Acted, Run
    <3> HIDE DEF acts
    <3>4. r \in RunType /\ r.head = Run(p).head /\ r.dry = Run(p).dry /\ r.tasks = Run(p).tasks
      BY <1>1, <3>2, ActsStored
    <3> HIDE DEF r
    <3>5. runs' \in Seq(RunType) /\ RunsFrame(p) /\ work[p].run \in DOMAIN runs' /\ runs'[work[p].run] = r
      BY <1>1, <3>3, <3>4, RunWritten
    <3> QED BY <3>4, <3>5
  <2> QED BY <2>1, <2>2, <1>5
<1>7. /\ thread' \in [Threads -> [resolved : BOOLEAN, comments : Seq(CommentType)]]
      /\ \A u \in Threads :
           \/ thread'[u].comments = thread[u].comments
           \/ /\ thread'[u].comments = Append(thread[u].comments, Comment("cr", work[p].run))
              /\ a = <<"reply", u>>
  BY <1>1, <1>3, WriteApplied
<1>8. ThreadsFrame(p)
  <2> SUFFICES ASSUME NEW u \in Threads
               PROVE  /\ StartOf(thread[u].comments, thread'[u].comments)
                      /\ \A k \in Len(thread[u].comments) + 1 .. Len(thread'[u].comments) :
                           thread'[u].comments[k] = Comment("cr", work[p].run)
    BY <1>1 DEF ThreadsFrame, Comment, Run
  <2> DEFINE old == thread[u].comments
             new == thread'[u].comments
             c == Comment("cr", work[p].run)
  <2>1. old \in Seq(CommentType) /\ new \in Seq(CommentType)
    BY <1>7 DEF Types
  <2>2. new = old \/ new = Append(old, c)
    BY <1>7
  <2> HIDE DEF old, new, c
  <2>3. StartOf(old, new) /\ \A k \in Len(old) + 1 .. Len(new) : new = Append(old, c) /\ new[k] = c
    BY <2>1, <2>2, AppendedBeyond
  <2> QED BY <2>3 DEF old, new, c
<1>9. j \in WorkType /\ j.post = post /\ j.seen = work[p].seen /\ j.head = work[p].head /\ j.run = work[p].run
  <2>1. post \in PostType
    BY <1>2 DEF WorkType, PostType
  <2> HIDE DEF post
  <2> QED BY <1>2, <2>1, PostTyped
<1> HIDE DEF j
<1>10. work'[p] = j /\ work' \in [Procs -> WorkType] /\ \A q \in Procs \ {p} : work'[q] = work[q]
  BY <1>3, <1>9 DEF Types
<1>11. Types'
  <2>1. head <= upsets'
    BY <1>4, RespondAssumption DEF Types
  <2> QED BY <1>3, <1>4, <1>6, <1>7, <1>10, <2>1 DEF Types
<1>12. OthersFrame(p)
  BY <1>3, <1>10 DEF OthersFrame
<1>13. ~ByRetry(p) => Snapshot(p)'
  <2>1. ~ByRetry(p) => Snapshot(p)
    BY <1>1 DEF ProcInv, Listed
  <2>2. work'[p].seen = work[p].seen /\ work'[p].head = work[p].head /\ work'[p].post = work[p].post \ {a}
    BY <1>9, <1>10
  <2>3. pc'[p] = "send" /\ req'[p] = req[p]
    BY <1>1, <1>3
  <2> QED BY <1>1, <1>6, <1>7, <1>11, <2>1, <2>2, <2>3, SenderSnapshot
<1>14. ~ByRetry(p) => \A b \in post : b[2] \in DOMAIN work[p].seen /\ runs'[work[p].run].tasks[b[2]].input = work[p].seen[b[2]]
  BY <1>1, <1>6 DEF ProcInv, AsSeen
<1>15. ProcInv(p)'
  BY <1>1, <1>3, <1>6, <1>9, <1>10, <1>13, <1>14
     DEF ProcInv, ByRetry, Listed, WithRun, Writing, LockHeld, Run, AsSeen
<1> QED BY <1>6, <1>8, <1>11, <1>12, <1>15 DEF RunKept, Frame

(* A call: a retry names a run there is.                                    *)
LEMMA InvokeKept ==
  ASSUME Types, NEW p \in Procs, NEW r \in Requests \cup {Plain}, Invoke(p, r)
  PROVE  RunKept(p)
<1>1. PICK i \in IF r.retry THEN DOMAIN runs ELSE {0} : work' = [work EXCEPT ![p].run = i]
  BY DEF Invoke
<1> DEFINE j == [work[p] EXCEPT !.run = i]
<1>2. i \in Nat /\ (r.retry => i \in DOMAIN runs)
  BY <1>1 DEF Types
<1>3. j \in WorkType /\ j.run = i
  <2>1. work[p] \in WorkType
    BY DEF Types
  <2> QED BY <1>2, <2>1 DEF WorkType
<1>4. work' = [work EXCEPT ![p] = j]
  BY <1>1
<1> HIDE DEF j
<1>5. /\ pc' = [pc EXCEPT ![p] = "read"] /\ req' = [req EXCEPT ![p] = r]
      /\ UNCHANGED <<head, thread, runs, lock>> /\ "read" \in Labels
  BY DEF Invoke, Goto, Labels
<1>6. upsets' \in 0..MaxUpsets /\ upsets <= upsets'
  BY UpsetCounts DEF Invoke, Types
<1>7. work' \in [Procs -> WorkType] /\ work'[p] = j /\ \A q \in Procs \ {p} : work'[q] = work[q]
  BY <1>3, <1>4 DEF Types
<1>8. /\ pc' \in [Procs -> Labels] /\ pc'[p] = "read" /\ req' \in [Procs -> Requests \cup {Plain}] /\ req'[p] = r
      /\ \A q \in Procs \ {p} : pc'[q] = pc[q] /\ req'[q] = req[q]
  BY <1>5 DEF Types
<1>9. Types'
  <2>1. head <= upsets'
    BY <1>6, RespondAssumption DEF Types
  <2> QED BY <1>5, <1>6, <1>7, <1>8, <2>1 DEF Types
<1>10. OthersFrame(p)
  BY <1>5, <1>7, <1>8 DEF OthersFrame
<1>11. ProcInv(p)'
  BY <1>2, <1>3, <1>5, <1>7, <1>8 DEF ProcInv, ByRetry, Listed, WithRun, Writing, LockHeld
<1> QED BY <1>5, <1>9, <1>10, <1>11, ThreadsUnchanged, RunsUnchanged DEF RunKept, Frame

LEMMA StepKept ==
  ASSUME Types, NEW p \in Procs, ProcInv(p), Step(p)
  PROVE  RunKept(p)
<1>1. CASE ReadPR(p) \/ Lock(p) \/ Busy(p) \/ Recheck(p) \/ MovedBeforeLock(p)
  BY <1>1, StartsKept, LockKept, LeavesKept, MovedBeforeLockKept
<1>2. CASE List(p) \/ Resume(p) \/ Allocate(p) \/ Mark(p)
  BY <1>2, ListKept, ResumeKept, AllocateKept, MarkKept
<1>3. CASE LoadActions(p) \/ Refuse(p) \/ StartAnalysis(p)
  BY <1>3, LoadActionsKept, ErrorsKept, StartAnalysisKept
<1>4. CASE \E t \in Threads : Reuse(p, t) \/ Analyse(p, t) \/ AnalysisFails(p, t) \/ Stale(p, t)
  BY <1>4, ReuseKept, AnalyseKept, AnalysisFailsKept, ErrorsKept
<1>5. CASE Plan(p) \/ FinishRun(p) \/ RetryRun(p) \/ RefuseRetry(p)
  BY <1>5, PlanKept, EndsKept, RetryKept, LeavesKept
<1>6. CASE Unmoved(p) \/ Moved(p) \/ ReadFails(p) \/ Reconcile(p) \/ Complete(p)
  BY <1>6, UnmovedKept, EndsKept, ErrorsKept, ReconcileKept
<1>7. CASE \E a \in Kinds \X Threads : Send(p, a)
  BY <1>7, SendKept
<1> QED BY <1>1, <1>2, <1>3, <1>4, <1>5, <1>6, <1>7 DEF Step

(* People and the branch: whatever is written by hand is not of a run.      *)
DeedType == [resolved : BOOLEAN, comments : Seq(CommentType)]

LEMMA DeedApplied ==
  ASSUME Types, NEW d \in People, Deed(d[1], d[2])
  PROVE  /\ thread' \in [Threads -> DeedType]
         /\ \A u \in Threads : \E by \in {"person", "own"} :
              \/ thread'[u].comments = thread[u].comments
              \/ thread'[u].comments = Append(thread[u].comments, Comment(by, 0))
<1>1. d[1] \in Threads /\ d[2] \in {"person", "own", "settle"}
  BY RespondAssumption
<1>2. CASE d[2] = "settle"
  <2>1. thread' = [thread EXCEPT ![d[1]].resolved = ~@]
    BY <1>2 DEF Deed
  <2> QED BY <1>1, <2>1 DEF Types, DeedType
<1>3. CASE d[2] # "settle"
  <2>1. thread' = [thread EXCEPT ![d[1]].comments = Append(@, Comment(d[2], 0))] /\ d[2] \in {"person", "own"}
    BY <1>1, <1>3 DEF Deed
  <2>2. Comment(d[2], 0) \in CommentType
    BY <2>1 DEF Comment, CommentType
  <2> HIDE DEF Comment
  <2>3. /\ thread' \in [Threads -> [resolved : BOOLEAN, comments : Seq(CommentType)]]
        /\ \A u \in Threads : u # d[1] => thread'[u] = thread[u]
        /\ thread'[d[1]].comments = Append(thread[d[1]].comments, Comment(d[2], 0))
    BY <1>1, <2>1, <2>2, ReplyApplied
  <2> QED BY <2>1, <2>3 DEF DeedType
<1> QED BY <1>2, <1>3

LEMMA OutsideKept ==
  ASSUME Types, (\E d \in People : Deed(d[1], d[2])) \/ Push
  PROVE  Types' /\ Frame(None)
<1>1. UNCHANGED <<runs, lock, pc, req, work>> /\ upsets' \in 0..MaxUpsets /\ upsets' = upsets + 1
  BY UpsetCounts DEF Deed, Push, Upset
<1>2. RunsFrame(None) /\ OthersFrame(None)
  BY <1>1, RunsUnchanged DEF OthersFrame
<1>3. head' \in 0..MaxUpsets /\ head' <= upsets'
  <2>1. MaxUpsets \in Nat /\ head \in Nat /\ upsets \in Nat /\ head <= upsets
    BY RespondAssumption DEF Types
  <2>2. head' = head \/ head' = head + 1
    BY DEF Deed, Push
  <2> QED BY <1>1, <2>1, <2>2
<1>4. thread' \in [Threads -> DeedType] /\ ThreadsFrame(None)
  <2>1. CASE UNCHANGED thread
    BY <2>1, ThreadsUnchanged DEF Types, DeedType
  <2>2. CASE \E d \in People : Deed(d[1], d[2])
    <3>1. PICK d \in People : Deed(d[1], d[2])
      BY <2>2
    <3>2. thread' \in [Threads -> DeedType]
      BY <3>1, DeedApplied
    <3> SUFFICES ASSUME NEW u \in Threads
                 PROVE  /\ StartOf(thread[u].comments, thread'[u].comments)
                        /\ \A k \in Len(thread[u].comments) + 1 .. Len(thread'[u].comments) :
                             thread'[u].comments[k].by # "cr"
      BY <3>2 DEF ThreadsFrame
    <3>3. PICK by \in {"person", "own"} :
            \/ thread'[u].comments = thread[u].comments
            \/ thread'[u].comments = Append(thread[u].comments, Comment(by, 0))
      BY <3>1, DeedApplied
    <3> DEFINE old == thread[u].comments
               new == thread'[u].comments
               c == Comment(by, 0)
    <3>4. old \in Seq(CommentType) /\ new \in Seq(CommentType) /\ (new = old \/ new = Append(old, c))
      BY <3>2, <3>3 DEF Types, DeedType
    <3>5. c.by # "cr"
      BY DEF Comment
    <3> HIDE DEF old, new, c
    <3>6. StartOf(old, new) /\ \A k \in Len(old) + 1 .. Len(new) : new = Append(old, c) /\ new[k] = c
      BY <3>4, AppendedBeyond
    <3> QED BY <3>5, <3>6 DEF old, new
  <2> QED BY <2>1, <2>2 DEF Push
<1> QED BY <1>1, <1>2, <1>3, <1>4 DEF Types, Frame, DeedType

-----------------------------------------------------------------------------
(* The invariant, and nobody answered twice.                                *)

LEMMA InitHolds == RespondInit => RespondInv
<1> SUFFICES ASSUME RespondInit PROVE RespondInv
  OBVIOUS
<1>1. MaxUpsets \in Nat /\ 0 \in 0..MaxUpsets /\ None \notin Procs
  BY RespondAssumption
<1>2. thread \in [Threads -> [resolved : BOOLEAN, comments : Seq(CommentType)]]
  <2>1. thread \in [Threads -> [resolved : BOOLEAN, comments : Seq([by : {"cr", "person", "own"}, run : {0}])]]
    BY RespondAssumption DEF RespondInit
  <2> DEFINE C == [by : {"cr", "person", "own"}, run : {0}]
  <2>2. C \subseteq CommentType
    BY DEF CommentType
  <2>3. thread \in [Threads -> [resolved : BOOLEAN, comments : Seq(C)]]
    BY <2>1
  <2> HIDE DEF C
  <2>4. ASSUME NEW cs \in Seq(C)  PROVE cs \in Seq(CommentType)
    BY <2>2, SeqDef
  <2>5. [resolved : BOOLEAN, comments : Seq(C)] \subseteq [resolved : BOOLEAN, comments : Seq(CommentType)]
    BY <2>4
  <2> QED BY <2>3, <2>5
<1>3. Idle \in WorkType
  BY <1>1 DEF Idle, WorkType
<1>4. Types
  BY <1>1, <1>2, <1>3 DEF RespondInit, Types, Labels
<1>5. \A p \in Procs : ProcInv(p)
  BY DEF RespondInit, ProcInv, Listed, WithRun, Writing, LockHeld
<1> QED BY <1>4, <1>5 DEF RespondInv

LEMMA NextKeeps == RespondInv /\ [RespondNext]_respondVars => RespondInv'
<1> SUFFICES ASSUME RespondInv, [RespondNext]_respondVars PROVE RespondInv'
  OBVIOUS
<1>1. CASE \E p \in Procs : (\E r \in Requests \cup {Plain} : Invoke(p, r)) \/ Step(p) \/ Crash(p)
  <2>1. PICK p \in Procs : (\E r \in Requests \cup {Plain} : Invoke(p, r)) \/ Step(p) \/ Crash(p)
    BY <1>1
  <2>2. Types /\ ProcInv(p)
    BY DEF RespondInv
  <2>3. RunKept(p)
    BY <2>1, <2>2, InvokeKept, StepKept, LeavesKept
  <2>4. \A q \in Procs : q # p => ProcInv(q)'
    BY <2>2, <2>3, FrameKeeps DEF RunKept, RespondInv
  <2> QED BY <2>3, <2>4 DEF RunKept, RespondInv
<1>2. CASE (\E d \in People : Deed(d[1], d[2])) \/ Push
  <2>1. Types' /\ Frame(None)
    BY <1>2, OutsideKept DEF RespondInv
  <2>2. \A q \in Procs : q # None
    BY RespondAssumption
  <2>3. \A q \in Procs : ProcInv(q)'
    BY <2>1, <2>2, FrameKeeps DEF RespondInv
  <2> QED BY <2>1, <2>3 DEF RespondInv
<1>3. CASE UNCHANGED respondVars
  BY <1>3 DEF respondVars, RespondInv, Types, ProcInv, Snapshot, Beyond, AsSeen, ByRetry, Run, Pending, Actions
<1> QED BY <1>1, <1>2, <1>3 DEF RespondNext

(* What ProcInv says of every process holds throughout, whatever people, other *)
(* processes, faults and crashes do between two of its steps                *)
(* (threadrespond.go:168, :454): AnsweredOnce rests on it.                  *)
THEOREM RespondInvariance == RespondSpec => []RespondInv
BY InitHolds, NextKeeps, PTL DEF RespondSpec

LEMMA OnlySendWrites ==
  ASSUME NEW p \in Procs, Step(p), thread' # thread
  PROVE  \E a \in Kinds \X Threads : Send(p, a)
<1>1. ~(ReadPR(p) \/ Lock(p) \/ Busy(p) \/ Recheck(p) \/ MovedBeforeLock(p))
  BY Zenon DEF ReadPR, Lock, Busy, Recheck, MovedBeforeLock
<1>2. ~(List(p) \/ Resume(p) \/ Allocate(p) \/ Mark(p))
  BY Zenon DEF List, Resume, Allocate, Mark
<1>3. ~(LoadActions(p) \/ Refuse(p) \/ StartAnalysis(p))
  BY Zenon DEF LoadActions, Refuse, StartAnalysis
<1>4. ~(\E t \in Threads : Reuse(p, t) \/ Analyse(p, t) \/ AnalysisFails(p, t) \/ Stale(p, t))
  BY Zenon DEF Reuse, Analyse, AnalysisFails, Stale
<1>5. ~(Plan(p) \/ FinishRun(p) \/ RetryRun(p) \/ RefuseRetry(p))
  BY Zenon DEF Plan, FinishRun, RetryRun, RefuseRetry
<1>6. ~(Unmoved(p) \/ Moved(p) \/ ReadFails(p) \/ Reconcile(p) \/ Complete(p))
  BY Zenon DEF Unmoved, Moved, ReadFails, Reconcile, Complete
<1> QED BY <1>1, <1>2, <1>3, <1>4, <1>5, <1>6 DEF Step

(* Only the sending of a reply puts something of ours on a thread.          *)
LEMMA OnlySendReplies ==
  ASSUME RespondInv, [RespondNext]_respondVars, NEW t \in Threads, NEW i \in Nat,
         thread'[t].comments = Append(thread[t].comments, Comment("cr", i))
  PROVE  \E p \in Procs : Send(p, <<"reply", t>>) /\ work[p].run = i
<1>1. thread[t].comments \in Seq(CommentType) /\ Comment("cr", i) \in CommentType
  BY DEF RespondInv, Types, Comment, CommentType
<1>2. thread'[t].comments # thread[t].comments
  BY <1>1, StartOfAppended
<1>3. ~(\E d \in People : Deed(d[1], d[2]))
  <2> SUFFICES ASSUME NEW d \in People, Deed(d[1], d[2])  PROVE FALSE
    OBVIOUS
  <2>1. PICK by \in {"person", "own"} : thread'[t].comments = Append(thread[t].comments, Comment(by, 0))
    BY <1>2, DeedApplied DEF RespondInv
  <2>2. Comment(by, 0) \in CommentType /\ Comment(by, 0) # Comment("cr", i)
    BY DEF Comment, CommentType
  <2> HIDE DEF Comment
  <2> QED BY <1>1, <2>1, <2>2, StartOfAppended
<1>4. thread' # thread
  BY <1>2
<1>5. PICK p \in Procs : \E a \in Kinds \X Threads : Send(p, a)
  <2>1. ~Push /\ ~UNCHANGED respondVars
    BY <1>4 DEF Push, respondVars
  <2>2. \E p \in Procs : (\E r \in Requests \cup {Plain} : Invoke(p, r)) \/ Step(p) \/ Crash(p)
    BY <1>3, <2>1 DEF RespondNext
  <2> QED BY <1>4, <2>2, OnlySendWrites DEF Invoke, Crash
<1>6. PICK a \in Kinds \X Threads : Send(p, a)
  BY <1>5
<1>7. work[p].run \in DOMAIN runs /\ work[p].run \in Nat
  BY <1>6 DEF RespondInv, Types, ProcInv, Send, WithRun
<1>8. thread' = thread \/ thread' = Applied(a, work[p].run)
  BY <1>6 DEF Send
<1>9. thread'[t].comments = Append(thread[t].comments, Comment("cr", work[p].run)) /\ a = <<"reply", t>>
  BY <1>2, <1>7, <1>8, WriteApplied DEF RespondInv
<1>10. Comment("cr", work[p].run) \in CommentType
  BY <1>7 DEF Comment, CommentType
<1>11. Comment("cr", work[p].run) = Comment("cr", i)
  <2> HIDE DEF Comment
  <2> QED BY <1>1, <1>9, <1>10, StartOfAppended
<1>12. work[p].run = i
  BY <1>11 DEF Comment
<1> QED BY <1>6, <1>9, <1>12

(* What a reply answers: what the process has read, and nothing of ours      *)
(* stands beyond it, unless it is of a run for other premises.              *)
LEMMA NobodyTwice ==
  ASSUME RespondInv, [RespondNext]_respondVars, NEW t \in Threads, NEW i \in DOMAIN runs, Unasked(t, i)
  PROVE  FALSE
<1> DEFINE cs == thread[t].comments
           n  == NewestOurs(cs)
           s  == runs[i].tasks[t].input
<1>1. i \in Nat /\ thread'[t].comments = Append(cs, Comment("cr", i))
  BY DEF RespondInv, Types, Unasked
<1>2. PICK p \in Procs : Send(p, <<"reply", t>>) /\ work[p].run = i
  BY <1>1, OnlySendReplies
<1>3. pc[p] = "send" /\ <<"reply", t>> \in work[p].post /\ ProcInv(p)
  BY <1>2 DEF Send, RespondInv
<1>4. ~ByRetry(p) /\ ~req[p].dry
  BY <1>2, <1>3 DEF Unasked, ProcInv, ByRetry, Writing
<1>5. /\ Snapshot(p) /\ t \in DOMAIN work[p].seen /\ s = work[p].seen[t]
      /\ runs[i].head = work[p].head
  BY <1>2, <1>3, <1>4 DEF ProcInv, Listed, WithRun, AsSeen, Run
<1>6. Asked(s) /\ StartOf(s, cs) /\ s \in Seq(CommentType) /\ cs \in Seq(CommentType)
  BY <1>5 DEF Snapshot, SeenType, RespondInv, Types
<1>7. \A k \in Len(s) + 1 .. Len(cs) :
        cs[k].by = "cr" => cs[k].run \in DOMAIN runs /\ runs[cs[k].run].head # runs[i].head
  <2>1. Beyond(p, t)
    BY <1>4, <1>5 DEF Snapshot
  <2> QED BY <2>1, <1>3, <1>5 DEF Beyond
<1>8. \A k \in n + 1 .. Len(s) : cs[k].by # "person"
  BY DEF Unasked
<1>9. cs[n].run # 0 => runs[cs[n].run].head = runs[i].head
  BY DEF Unasked
<1>10. 0 \notin DOMAIN runs
  BY DEF RespondInv, Types
<1>11. /\ n \in 0..Len(cs) /\ (n # 0 => cs[n].by = "cr")
       /\ \A j \in n + 1 .. Len(cs) : cs[j].by # "cr"
  BY <1>6, NewestOursIs
<1> HIDE DEF n, s, cs
<1>12. Len(s) \in Nat /\ Len(cs) \in Nat /\ Len(s) <= Len(cs) /\ \A k \in 1..Len(s) : s[k] = cs[k]
  BY <1>6 DEF StartOf
<1>13. PICK m \in 1..Len(s) :
         /\ s[m].by = "cr" /\ \A j \in m + 1 .. Len(s) : s[j].by # "cr"
         /\ \E j \in m + 1 .. Len(s) : s[j].by = "person"
  BY <1>6 DEF Asked
<1>14. m <= n
  BY <1>11, <1>12, <1>13
<1>15. CASE n > Len(s)
  <2>1. n \in Len(s) + 1 .. Len(cs) /\ n # 0
    BY <1>11, <1>12, <1>15
  <2> QED BY <2>1, <1>7, <1>9, <1>10, <1>11
<1>16. CASE n <= Len(s)
  <2>1. n \in 1..Len(s) /\ s[n].by = "cr"
    BY <1>11, <1>12, <1>14, <1>16
  <2>2. n = m
    BY <2>1, <1>13, <1>14
  <2>3. PICK j \in n + 1 .. Len(s) : s[j].by = "person"
    BY <2>2, <1>13
  <2> QED BY <2>1, <2>3, <1>8, <1>12
<1> QED BY <1>11, <1>12, <1>15, <1>16

(* Nobody is answered twice, or with what was written about a state of the    *)
(* thread that we have answered since (threadrespond.go:168, :454): with any *)
(* number of processes, threads, runs left behind, pushes and crashes.      *)
THEOREM AnswersAreOnce == RespondSpec => AnsweredOnce
<1>1. RespondInv /\ [RespondNext]_respondVars => [\A t \in Threads : \A i \in DOMAIN runs : ~Unasked(t, i)]_respondVars
  BY NobodyTwice
<1> QED BY <1>1, RespondInvariance, PTL DEF RespondSpec, AnsweredOnce
=============================================================================
