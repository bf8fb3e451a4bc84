---------------------------- MODULE LedgerStore ----------------------------
(***************************************************************************)
(* ledger.Store: the goroutines of one process share a SQLite handle with  *)
(* one connection.  Writes go through a bounded queue to one writer        *)
(* goroutine; a mutex guards the closed flag and the sending end of the    *)
(* queue, and is held by a sender that waits for room.  Close shuts the    *)
(* queue, waits for the writer and closes the database.                    *)
(*                                                                         *)
(* The process may die at any time and be started again on what the        *)
(* database has committed.  A context may be cancelled at any time.        *)
(***************************************************************************)
EXTENDS LedgerRows

CONSTANTS
  Callers,       \* goroutines that use the store
  Requests,      \* the calls they make
  QueueSize,     \* writeQueueSize
  MaxCalls,      \* bound: calls of one behaviour
  MaxFaults      \* bound: crashes, cancelled contexts, failing statements

ASSUME StoreAssumption ==
  /\ QueueSize \in Nat \ {0}
  /\ MaxCalls \in Nat /\ MaxFaults \in Nat
  /\ None \notin Callers \cup {Ok, Error}
  /\ \A c \in Callers : Requests[c] \subseteq Calls

VARIABLES
  db,            \* committed rows
  mutex,         \* Store.mu: its owner, or None
  closed,        \* Store.closed
  queue,         \* Store.writes: callers whose request is in the channel
  sealed,        \* Store.writes is closed
  open,          \* Store.db is open
  pc, req,       \* of each caller: where it is, and its call
  answer,        \* of each caller: what its result channel, or its return, holds
  cancelled,     \* callers whose context is cancelled
  seen,          \* of each caller: the adapter its cohort query has found
  writer,        \* where the writer goroutine is
  serving,       \* the caller whose request the writer has
  result,        \* what the request's function has returned
  txn, todo,     \* the transaction's view of the rows, statements still to run
  calls, faults

store == <<mutex, closed, queue, sealed, open>>
callers == <<pc, req, answer, seen, cancelled>>
writing == <<writer, serving, result, txn, todo>>
vars == <<db, store, callers, writing, calls, faults>>

Labels == {"idle", "lock", "send", "wait", "query", "members", "drain", "shut", "note",
           "return"}
WriterLabels == {"receive", "begin", "execute", "reply", "done"}

IsRead(r)  == r.op \in {"ListRuns", "GetReviewerCohort"}
IsClose(r) == r.op = "Close"
IsWrite(r) == ~IsRead(r) /\ ~IsClose(r)

TypeOK ==
  /\ db \in Tables
  /\ mutex \in Callers \cup {None} /\ serving \in Callers \cup {None}
  /\ closed \in BOOLEAN /\ sealed \in BOOLEAN /\ open \in BOOLEAN
  /\ queue \in Seq(Callers) /\ Len(queue) <= QueueSize
  /\ pc \in [Callers -> Labels]
  /\ \A c \in Callers : pc[c] # "idle" => req[c] \in Requests[c]
  /\ cancelled \subseteq Callers
  /\ writer \in WriterLabels
  /\ calls \in 0..MaxCalls /\ faults \in 0..MaxFaults

(* Open: what a process starts with. *)
Started ==
  /\ mutex' = None /\ closed' = FALSE /\ queue' = <<>> /\ sealed' = FALSE /\ open' = TRUE
  /\ pc' = [c \in Callers |-> "idle"]
  /\ req' = [c \in Callers |-> None]
  /\ answer' = [c \in Callers |-> None]
  /\ seen' = [c \in Callers |-> 0]
  /\ cancelled' = {}
  /\ writer' = "receive" /\ serving' = None /\ result' = None /\ txn' = None
  /\ todo' = <<>>

Init ==
  /\ db \in Initial
  /\ mutex = None /\ closed = FALSE /\ queue = <<>> /\ sealed = FALSE /\ open = TRUE
  /\ pc = [c \in Callers |-> "idle"]
  /\ req = [c \in Callers |-> None]
  /\ answer = [c \in Callers |-> None]
  /\ seen = [c \in Callers |-> 0]
  /\ cancelled = {}
  /\ writer = "receive" /\ serving = None /\ result = None /\ txn = None
  /\ todo = <<>>
  /\ calls = 0 /\ faults = 0

-----------------------------------------------------------------------------
(* The callers.                                                            *)

Go(c, label) == pc' = [pc EXCEPT ![c] = label]
Answer(c, value) == answer' = [answer EXCEPT ![c] = value]

Call(c, r) ==
  /\ pc[c] = "idle" /\ calls < MaxCalls
  /\ calls' = calls + 1
  /\ req' = [req EXCEPT ![c] = r]
  /\ cancelled' = cancelled \ {c}
  /\ Go(c, "lock")
  /\ UNCHANGED <<db, store, answer, seen, writing, faults>>

(* A cohort without members or with one twice. *)
Invalid(r) ==
  /\ r.op = "ReplaceReviewerCohort"
  /\ r.agents = <<>> \/ ~Distinct(r.agents)

RejectInput(c) ==
  /\ pc[c] = "lock" /\ Invalid(req[c])
  /\ Answer(c, Error) /\ Go(c, "return")
  /\ UNCHANGED <<db, store, req, seen, cancelled, writing, calls, faults>>

(* ErrClosed: a write, or the checkOpen of a read. *)
MeetClosed(c) ==
  /\ pc[c] = "lock" /\ mutex = None /\ closed
  /\ ~IsClose(req[c]) /\ ~Invalid(req[c])
  /\ Answer(c, Error) /\ Go(c, "return")
  /\ UNCHANGED <<db, store, req, seen, cancelled, writing, calls, faults>>

(* write: the mutex is kept until the request is in the queue. *)
LockToSend(c) ==
  /\ pc[c] = "lock" /\ mutex = None /\ ~closed
  /\ IsWrite(req[c]) /\ ~Invalid(req[c])
  /\ mutex' = c /\ Go(c, "send")
  /\ UNCHANGED <<db, closed, queue, sealed, open, req, answer, seen, cancelled, writing, calls, faults>>

Send(c) ==
  /\ pc[c] = "send" /\ Len(queue) < QueueSize
  /\ queue' = Append(queue, c)
  /\ mutex' = None /\ Go(c, "wait")
  /\ UNCHANGED <<db, closed, sealed, open, req, answer, seen, cancelled, writing, calls, faults>>

(* The select may take ctx.Done although there is room. *)
SendCancelled(c) ==
  /\ pc[c] = "send" /\ c \in cancelled
  /\ mutex' = None
  /\ Answer(c, Error) /\ Go(c, "return")
  /\ UNCHANGED <<db, closed, queue, sealed, open, req, seen, cancelled, writing, calls, faults>>

Receive(c) ==
  /\ pc[c] = "wait" /\ answer[c] # None
  /\ Go(c, "return")
  /\ UNCHANGED <<db, store, req, answer, seen, cancelled, writing, calls, faults>>

(* checkOpen gives the mutex back before the query runs. *)
CheckOpen(c) ==
  /\ pc[c] = "lock" /\ mutex = None /\ ~closed
  /\ IsRead(req[c])
  /\ Go(c, "query")
  /\ UNCHANGED <<db, store, req, answer, seen, cancelled, writing, calls, faults>>

(* The only connection is the writer's while it is in a transaction. *)
Connected == open /\ txn = None

Query(c) ==
  /\ pc[c] = "query" /\ req[c].op = "ListRuns" /\ Connected
  /\ Answer(c, Shown(Listing(db))) /\ Go(c, "return")
  /\ UNCHANGED <<db, store, req, seen, cancelled, writing, calls, faults>>

(* GetReviewerCohort: the header, then the members, outside a transaction. *)
QueryHeader(c) ==
  /\ pc[c] = "query" /\ req[c].op = "GetReviewerCohort" /\ Connected
  /\ db.header # 0
  /\ seen' = [seen EXCEPT ![c] = db.header] /\ Go(c, "members")
  /\ UNCHANGED <<db, store, req, answer, cancelled, writing, calls, faults>>

QueryMembers(c) ==
  /\ pc[c] = "members" /\ Connected
  /\ Answer(c, CohortShown(seen[c], db)) /\ Go(c, "return")
  /\ UNCHANGED <<db, store, req, seen, cancelled, writing, calls, faults>>

(* A closed database, a context that has ended, or no cohort (ErrNotFound). *)
QueryFails(c) ==
  /\ pc[c] \in {"query", "members"}
  /\ \/ ~open \/ c \in cancelled
     \/ pc[c] = "query" /\ req[c].op = "GetReviewerCohort" /\ Connected /\ db.header = 0
  /\ Answer(c, Error) /\ Go(c, "return")
  /\ UNCHANGED <<db, store, req, seen, cancelled, writing, calls, faults>>

(* Mutant: Close leaves the channel open. *)
CloseEarly(c) ==
  /\ pc[c] = "lock" /\ mutex = None /\ ~closed
  /\ IsClose(req[c])
  /\ closed' = TRUE /\ Go(c, "drain")
  /\ UNCHANGED <<db, mutex, queue, sealed, open, req, answer, seen, cancelled, writing, calls, faults>>

CloseFirst(c) ==
  /\ pc[c] = "lock" /\ mutex = None /\ ~closed
  /\ IsClose(req[c])
  /\ closed' = TRUE /\ sealed' = TRUE /\ Go(c, "drain")
  /\ UNCHANGED <<db, mutex, queue, open, req, answer, seen, cancelled, writing, calls, faults>>

(* A second Close returns closeErr at once, whether the first is through or not. *)
CloseAgain(c) ==
  /\ pc[c] = "lock" /\ mutex = None /\ closed
  /\ IsClose(req[c])
  /\ Answer(c, Ok) /\ Go(c, "return")
  /\ UNCHANGED <<db, store, req, seen, cancelled, writing, calls, faults>>

(* Mutant: Close goes on without waiting for the writer. *)
DrainHurried(c) ==
  /\ pc[c] = "drain"
  /\ Go(c, "shut")
  /\ UNCHANGED <<db, store, req, answer, seen, cancelled, writing, calls, faults>>

Drain(c) ==
  /\ pc[c] = "drain" /\ writer = "done"
  /\ Go(c, "shut")
  /\ UNCHANGED <<db, store, req, answer, seen, cancelled, writing, calls, faults>>

Shut(c) ==
  /\ pc[c] = "shut"
  /\ open' = FALSE /\ Go(c, "note")
  /\ UNCHANGED <<db, mutex, closed, queue, sealed, req, answer, seen, cancelled, writing, calls, faults>>

(* closeErr is stored under the mutex. *)
Note(c) ==
  /\ pc[c] = "note" /\ mutex = None
  /\ Answer(c, Ok) /\ Go(c, "return")
  /\ UNCHANGED <<db, store, req, seen, cancelled, writing, calls, faults>>

Return(c) ==
  /\ pc[c] = "return"
  /\ Answer(c, None) /\ Go(c, "idle")
  /\ req' = [req EXCEPT ![c] = None]
  /\ UNCHANGED <<db, store, seen, cancelled, writing, calls, faults>>

-----------------------------------------------------------------------------
(* The writer goroutine.                                                   *)

TakeRequest ==
  /\ writer = "receive" /\ queue # <<>>
  /\ serving' = Head(queue) /\ queue' = Tail(queue)
  /\ writer' = "begin"
  /\ UNCHANGED <<db, mutex, closed, sealed, open, callers, result, txn, todo, calls, faults>>

(* The range over the channel ends when it is closed and empty. *)
WriterEnds ==
  /\ writer = "receive" /\ queue = <<>> /\ sealed
  /\ writer' = "done"
  /\ UNCHANGED <<db, store, callers, serving, result, txn, todo, calls, faults>>

(* BeginTx, or the one statement of a method without a transaction. *)
Begin ==
  /\ writer = "begin" /\ open
  /\ txn' = db /\ todo' = Statements(req[serving])
  /\ writer' = "execute"
  /\ UNCHANGED <<db, store, callers, serving, result, calls, faults>>

Execute ==
  /\ writer = "execute" /\ todo # <<>>
  /\ ~Refused(Head(todo), txn)
  /\ txn' = After(Head(todo), txn) /\ todo' = Tail(todo)
  /\ UNCHANGED <<db, store, callers, writer, serving, result, calls, faults>>

Rollback ==
  /\ txn' = None /\ todo' = <<>>
  /\ result' = Error /\ writer' = "reply"
  /\ UNCHANGED <<db, store, callers, serving>>

(* Mutant: no transaction; what went through before the refusal stays. *)
RefuseKeeping ==
  /\ writer = "execute" /\ todo # <<>>
  /\ Refused(Head(todo), txn)
  /\ db' = txn /\ txn' = None /\ todo' = <<>>
  /\ result' = Error /\ writer' = "reply"
  /\ UNCHANGED <<store, callers, serving, calls, faults>>

(* A statement breaks a constraint or meets no row. *)
Refuse ==
  /\ writer = "execute" /\ todo # <<>>
  /\ Refused(Head(todo), txn)
  /\ Rollback
  /\ UNCHANGED <<calls, faults>>

(* The request's context has ended: nothing of it is kept. *)
AbandonTxn ==
  /\ writer \in {"begin", "execute"} /\ serving \in cancelled
  /\ Rollback
  /\ UNCHANGED <<calls, faults>>

(* BEGIN IMMEDIATE times out, a statement or the commit fails. *)
StatementFails ==
  /\ writer \in {"begin", "execute"} /\ faults < MaxFaults
  /\ faults' = faults + 1
  /\ Rollback
  /\ UNCHANGED calls

Commit ==
  /\ writer = "execute" /\ todo = <<>>
  /\ db' = txn /\ txn' = None
  /\ result' = Ok /\ writer' = "reply"
  /\ UNCHANGED <<store, callers, serving, todo, calls, faults>>

(* The result channel has room for the one result. *)
Reply ==
  /\ writer = "reply"
  /\ Answer(serving, result)
  /\ writer' = "receive" /\ serving' = None /\ result' = None
  /\ UNCHANGED <<db, store, pc, req, seen, cancelled, txn, todo, calls, faults>>

-----------------------------------------------------------------------------
Cancel(c) ==
  /\ pc[c] \in {"lock", "send", "wait", "query", "members"} /\ ~IsClose(req[c])
  /\ c \notin cancelled /\ faults < MaxFaults
  /\ faults' = faults + 1
  /\ cancelled' = cancelled \cup {c}
  /\ UNCHANGED <<db, store, pc, req, answer, seen, writing, calls>>

Crash ==
  /\ faults < MaxFaults
  /\ faults' = faults + 1
  /\ Started
  /\ UNCHANGED <<db, calls>>

CallerStep(c) ==
  \/ RejectInput(c) \/ MeetClosed(c) \/ LockToSend(c) \/ Send(c) \/ SendCancelled(c) \/ Receive(c)
  \/ CheckOpen(c) \/ Query(c) \/ QueryHeader(c) \/ QueryMembers(c) \/ QueryFails(c)
  \/ CloseFirst(c) \/ CloseAgain(c) \/ Drain(c) \/ Shut(c) \/ Note(c)
  \/ Return(c)

WriterStep ==
  \/ TakeRequest \/ WriterEnds \/ Begin \/ Execute \/ Refuse \/ AbandonTxn
  \/ Commit \/ Reply

Next ==
  \/ Crash
  \/ WriterStep \/ StatementFails
  \/ \E c \in Callers :
        \/ \E r \in Requests[c] : Call(c, r)
        \/ CallerStep(c) \/ Cancel(c)

Spec == Init /\ [][Next]_vars

(* Goroutines are scheduled; a mutex that is free again and again is got in *)
(* the end (sync.Mutex hands over to a waiter that starves), hence SF.      *)
FairSpec ==
  /\ Spec
  /\ WF_vars(WriterStep)
  /\ \A c \in Callers : SF_vars(CallerStep(c))

-----------------------------------------------------------------------------
(* Properties.                                                             *)

(* Nobody sends on the closed channel, which would end the process: the     *)
(* sender keeps the mutex from its look at Store.closed until its request   *)
(* is in the queue, and Close seals the queue under the mutex.              *)
NoPanic == \A c \in Callers : pc[c] = "send" => ~sealed /\ ~closed

(* When Close takes the database away, no accepted write is left in the     *)
(* queue, in the writer's hands or without its result.                      *)
DrainedBeforeShut ==
  ~open => /\ queue = <<>> /\ serving = None /\ txn = None
           /\ \A c \in Callers : pc[c] = "wait" => answer[c] # None

(* What the rows say fits together at every commit: a run of a scope has an *)
(* attempt of its own, and nothing refers to a row that is gone.            *)
RowsConsistent == RowsFit(db)

(* The store implements the ledger its callers count on.  A call has taken  *)
(* effect when the writer has committed it, or when its query has run.      *)
Progress(c) ==
  CASE pc[c] = "idle" -> [state |-> "idle"]
    [] pc[c] = "members" -> [state |-> "header", adapter |-> seen[c]]
    [] pc[c] = "return" \/ (pc[c] = "wait" /\ answer[c] # None) ->
         [state |-> "done", answer |-> answer[c]]
    [] pc[c] = "wait" /\ answer[c] = None /\ serving = c /\ result # None ->
         [state |-> "done", answer |-> result]
    [] OTHER -> [state |-> "pending", req |-> req[c]]

Promise == INSTANCE Ledger WITH rows <- db, call <- [c \in Callers |-> Progress(c)]

ImplementsLedger == Promise!Spec

(* Every call returns, the one that finds the queue full and the Close that *)
(* waits for the writer included.                                           *)
CallsReturn == \A c \in Callers : pc[c] # "idle" ~> pc[c] = "idle"

=============================================================================
