-------------------------- MODULE DatabaseWorkerPool --------------------------
(***************************************************************************)
(* server/database: the asynchronous half of a DatabaseWorkerPool.         *)
(* DatabaseLoader opens the pool; Open creates one MySQLConnection per     *)
(* worker thread, whose constructor starts the thread before the           *)
(* connection to the server is opened; Execute, CommitTransaction,         *)
(* AsyncQuery and DelayQueryHolder push SQLOperations that the workers     *)
(* execute; Close destroys the connections one by one, which stops their   *)
(* workers.                                                                *)
(*                                                                         *)
(* An operation is a model value; executing it is one step.  What a        *)
(* transaction does on the server is the subject of MySQLTransaction.      *)
(***************************************************************************)
EXTENDS ProducerConsumerQueue, Integers

CONSTANTS
    NumAsync,  \* _async_threads
    Ops,       \* the operations the core enqueues
    Installed, \* may the schema exist when the server starts: a set
    NoOp       \* nullptr in WorkerThread

ASSUME ConstantsAssumption ==
    /\ NumAsync \in Nat \ {0}
    /\ Installed \subseteq BOOLEAN
    /\ NoOp \notin Ops

Conns == 1..NumAsync

VARIABLES
    pool,       \* "closed", "opening", "open", "closing", "unwinding",
                \* "failed" or "stopped"
    at,         \* the connection Open creates, or the destructor is at
    stage,      \* what ~DatabaseWorker of connection at does next
    alive,      \* MySQLConnection objects that exist
    handle,     \* those whose m_Mysql is open
    wpc,        \* where each connection's worker thread is
    operation,  \* WorkerThread's operation
    token,      \* DatabaseWorker::_cancelationToken
    dbExists,   \* the schema exists on the server
    retried,    \* DatabaseLoader has created the schema and opens again
    fate,       \* what became of each operation
    executed    \* history: the operations in the order they were executed

poolVars   == <<pool, at, stage, alive, handle>>
workerVars == <<wpc, operation, token>>
loaderVars == <<dbExists, retried>>
opVars     == <<fate, executed>>
vars == <<pcqVars, poolVars, workerVars, loaderVars, opVars>>

Fates == {"new", "queued", "held", "executed", "deleted", "leaked"}

Init ==
    /\ PCQInit
    /\ pool = "closed"
    /\ at = 1
    /\ stage = "token"
    /\ alive = {}
    /\ handle = {}
    /\ wpc = [c \in Conns |-> "exit"]
    /\ operation = [c \in Conns |-> NoOp]
    /\ token = [c \in Conns |-> FALSE]
    /\ dbExists \in Installed
    /\ retried = FALSE
    /\ fate = [o \in Ops |-> "new"]
    /\ executed = <<>>

-----------------------------------------------------------------------------
(* DatabaseLoader and Open.                                                  *)

BeginOpen ==
    /\ pool = "closed"
    /\ pool' = "opening"
    /\ at' = 1
    /\ UNCHANGED <<pcqVars, stage, alive, handle, workerVars, loaderVars,
                   opVars>>

(* The constructor of an asynchronous MySQLConnection starts its worker. *)
CreateConnection ==
    /\ pool = "opening"
    /\ at \in Conns \ alive
    /\ alive' = alive \cup {at}
    /\ wpc' = [wpc EXCEPT ![at] = "pop"]
    /\ operation' = [operation EXCEPT ![at] = NoOp]
    /\ token' = [token EXCEPT ![at] = FALSE]
    /\ UNCHANGED <<pcqVars, pool, at, stage, handle, loaderVars, opVars>>

(* MySQLConnection::Open returns 0; after the last one the pool is open. *)
OpenOk ==
    /\ pool = "opening"
    /\ at \in alive
    /\ dbExists
    /\ handle' = handle \cup {at}
    /\ at' = at + 1
    /\ pool' = IF at = NumAsync THEN "open" ELSE pool
    /\ UNCHANGED <<pcqVars, stage, alive, workerVars, loaderVars, opVars>>

(* MySQLConnection::Open fails, with ER_BAD_DB_ERROR if the schema does not *)
(* exist: the connections opened so far and then the new one are destroyed. *)
OpenFails ==
    /\ pool = "opening"
    /\ at \in alive
    /\ pool' = "unwinding"
    /\ at' = 1
    /\ stage' = "token"
    /\ UNCHANGED <<pcqVars, alive, handle, workerVars, loaderVars, opVars>>

(* The loader creates a missing schema and opens the pool again; any other  *)
(* failure, or a second one, ends the program.                              *)
LoaderRetries ==
    /\ pool = "unwinding"
    /\ alive = {}
    /\ ~dbExists
    /\ ~retried
    /\ dbExists' = TRUE
    /\ retried' = TRUE
    /\ pool' = "closed"
    /\ UNCHANGED <<pcqVars, at, stage, alive, handle, workerVars, opVars>>

LoaderGivesUp ==
    /\ pool = "unwinding"
    /\ alive = {}
    /\ pool' = "failed"
    /\ UNCHANGED <<pcqVars, at, stage, alive, handle, workerVars, loaderVars,
                   opVars>>

-----------------------------------------------------------------------------
(* The users of the pool.                                                    *)

(* Execute, CommitTransaction, AsyncQuery, DelayQueryHolder, KeepAlive. *)
Enqueue(o) ==
    /\ pool = "open"
    /\ fate[o] = "new"
    /\ PCQPush(o)
    /\ fate' = [fate EXCEPT ![o] = "queued"]
    /\ UNCHANGED <<poolVars, workerVars, loaderVars, executed>>

(* StopDB, once the other threads of the core are done. *)
BeginClose ==
    /\ pool = "open"
    /\ pool' = "closing"
    /\ at' = 1
    /\ stage' = "token"
    /\ UNCHANGED <<pcqVars, alive, handle, workerVars, loaderVars, opVars>>

-----------------------------------------------------------------------------
(* Destroying connection at: ~MySQLConnection, Close, ~DatabaseWorker.       *)

Destroying == pool \in {"closing", "unwinding"} /\ at \in alive

SetToken ==
    /\ Destroying
    /\ stage = "token"
    /\ token' = [token EXCEPT ![at] = TRUE]
    /\ stage' = "cancel"
    /\ UNCHANGED <<pcqVars, pool, at, alive, handle, wpc, operation,
                   loaderVars, opVars>>

(* Every connection shares the queue: the first one deletes what is queued. *)
CancelQueue ==
    /\ Destroying
    /\ stage = "cancel"
    /\ PCQCancel
    /\ fate' = [o \in Ops |-> IF fate[o] = "queued" THEN "deleted" ELSE fate[o]]
    /\ stage' = "join"
    /\ UNCHANGED <<pool, at, alive, handle, workerVars, loaderVars, executed>>

\* Mutant: the connection is closed without waiting for its worker.
JoinWorker_Detach ==
    /\ Destroying
    /\ stage = "join"
    /\ alive' = alive \ {at}
    /\ handle' = handle \ {at}
    /\ at' = at + 1
    /\ stage' = "token"
    /\ pool' = IF pool = "closing" /\ alive' = {} THEN "stopped" ELSE pool
    /\ UNCHANGED <<pcqVars, workerVars, loaderVars, opVars>>

(* The worker is joined, then the connection is closed and deleted. *)
JoinWorker ==
    /\ Destroying
    /\ stage = "join"
    /\ wpc[at] = "exit"
    /\ alive' = alive \ {at}
    /\ handle' = handle \ {at}
    /\ at' = at + 1
    /\ stage' = "token"
    /\ pool' = IF pool = "closing" /\ alive' = {} THEN "stopped" ELSE pool
    /\ UNCHANGED <<pcqVars, workerVars, loaderVars, opVars>>

-----------------------------------------------------------------------------
(* DatabaseWorker::WorkerThread.                                             *)

WorkerBlock(c) ==
    /\ wpc[c] = "pop"
    /\ PCQBlock(c)
    /\ UNCHANGED <<poolVars, workerVars, loaderVars, opVars>>

WorkerSpurious(c) ==
    /\ PCQSpurious(c)
    /\ UNCHANGED <<poolVars, workerVars, loaderVars, opVars>>

\* Mutant: the operation is read but stays in the queue.
WorkerPop_Peek(c) ==
    /\ wpc[c] = "pop"
    /\ c \notin blocked
    /\ queue # <<>>
    /\ ~shutdown
    /\ operation' = [operation EXCEPT ![c] = Head(queue)]
    /\ fate' = [fate EXCEPT ![Head(queue)] = "held"]
    /\ wpc' = [wpc EXCEPT ![c] = "check"]
    /\ UNCHANGED <<pcqVars, poolVars, token, loaderVars, executed>>

WorkerPop(c) ==
    /\ wpc[c] = "pop"
    /\ \/ \E o \in Ops : /\ PCQPopItem(c, o)
                         /\ operation' = [operation EXCEPT ![c] = o]
                         /\ fate' = [fate EXCEPT ![o] = "held"]
       \/ PCQPopNothing(c) /\ UNCHANGED <<operation, fate>>
    /\ wpc' = [wpc EXCEPT ![c] = "check"]
    /\ UNCHANGED <<poolVars, token, loaderVars, executed>>

(* A worker that is told to stop drops the operation it has just popped. *)
WorkerExit(c) ==
    /\ wpc[c] = "check"
    /\ token[c] \/ operation[c] = NoOp
    /\ wpc' = [wpc EXCEPT ![c] = "exit"]
    /\ fate' = [o \in Ops |-> IF o = operation[c] THEN "leaked" ELSE fate[o]]
    /\ UNCHANGED <<pcqVars, poolVars, operation, token, loaderVars, executed>>

WorkerCall(c) ==
    /\ wpc[c] = "check"
    /\ ~token[c]
    /\ operation[c] # NoOp
    /\ wpc' = [wpc EXCEPT ![c] = "call"]
    /\ UNCHANGED <<pcqVars, poolVars, operation, token, loaderVars, opVars>>

(* call returns, the promise is set and the operation deleted. *)
WorkerDone(c) ==
    /\ wpc[c] = "call"
    /\ wpc' = [wpc EXCEPT ![c] = "pop"]
    /\ operation' = [operation EXCEPT ![c] = NoOp]
    /\ fate' = [fate EXCEPT ![operation[c]] = "executed"]
    /\ executed' = Append(executed, operation[c])
    /\ UNCHANGED <<pcqVars, poolVars, token, loaderVars>>

-----------------------------------------------------------------------------
MainStep ==
    \/ BeginOpen \/ CreateConnection \/ OpenOk
    \/ LoaderRetries \/ LoaderGivesUp
    \/ SetToken \/ CancelQueue \/ JoinWorker

WorkerStep(c) ==
    WorkerBlock(c) \/ WorkerPop(c) \/ WorkerExit(c) \/ WorkerCall(c)
        \/ WorkerDone(c)

Environment ==
    \/ OpenFails
    \/ BeginClose
    \/ \E o \in Ops : Enqueue(o)
    \/ \E c \in Conns : WorkerSpurious(c)

Terminated == pool \in {"failed", "stopped"} /\ UNCHANGED vars

Next ==
    \/ MainStep
    \/ \E c \in Conns : WorkerStep(c)
    \/ Environment
    \/ Terminated

(* The main thread and the workers are scheduled by the operating system.   *)
(* Nothing obliges the core to enqueue, to close, or Open to fail.          *)
Fairness == WF_vars(MainStep) /\ \A c \in Conns : WF_vars(WorkerStep(c))

Spec == Init /\ [][Next]_vars

FairSpec == Spec /\ Fairness

-----------------------------------------------------------------------------
(* Properties.                                                               *)

(* A worker thread never outlives its MySQLConnection, and it executes an   *)
(* operation only on an open handle, although Close is called while workers *)
(* are busy and a worker starts before its connection is open.              *)
WorkerHasConnection ==
    \A c \in Conns : /\ wpc[c] # "exit" => c \in alive
                     /\ wpc[c] = "call" => c \in handle

(* An operation is owned by the queue or by one worker, is executed at most *)
(* once, and is deleted without being executed only after Cancel: its       *)
(* pointer is never used by two threads, nor after it was deleted.          *)
OneOwner ==
    /\ \A m, n \in 1..Len(queue) : queue[m] = queue[n] => m = n
    /\ \A c, d \in Conns :
          operation[c] # NoOp /\ operation[c] = operation[d] => c = d
    /\ \A o \in Ops : /\ fate[o] = "queued" <=> \E n \in 1..Len(queue) : queue[n] = o
                      /\ fate[o] = "held" <=>
                            \E c \in Conns : operation[c] = o /\ wpc[c] # "exit"
                      /\ fate[o] \in {"deleted", "leaked"} => shutdown \/ pool = "closing"
    /\ \A m, n \in 1..Len(executed) : executed[m] = executed[n] => m = n

(* Close and the unwinding of a failed Open return: every worker is joined. *)
CloseTerminates ==
    pool \in {"closing", "unwinding"} ~> pool \in {"stopped", "failed", "closed"}
=============================================================================
