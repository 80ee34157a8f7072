--------------------------- MODULE MySQLTransaction ---------------------------
(***************************************************************************)
(* server/database: how a Transaction reaches the MySQL server.            *)
(* TransactionTask::Execute (asynchronous connections) and                 *)
(* DatabaseWorkerPool::DirectCommitTransaction (synchronous connections)   *)
(* run MySQLConnection::ExecuteTransaction, retry it on a deadlock, and    *)
(* MySQLConnection::_HandleMySQLErrno reconnects when the server is lost.  *)
(*                                                                         *)
(* A statement is a pair <<transaction, position>>; rows counts how often  *)
(* the server has durably applied it.  The server is external: a session   *)
(* starts in autocommit mode, START TRANSACTION opens a transaction,       *)
(* losing the session or a deadlock rolls it back.                         *)
(***************************************************************************)
EXTENDS Naturals, FiniteSets

CONSTANTS
    AsyncConns,   \* connections owned by a DatabaseWorker
    SyncConns,    \* connections handed out by GetFreeConnection
    Txns,         \* transactions
    Size,         \* number of statements of a transaction
    Retries,      \* loopBreaker, 5 in the code
    Attempts,     \* default argument of _HandleMySQLErrno, 5 in the code
    MaxLosses,    \* bound: how often the server connection is lost
    MaxRefusals,  \* bound: how often START TRANSACTION, ROLLBACK or COMMIT
                  \* fails on a connection that is kept
    NoTxn, NoConn

Conns == AsyncConns \cup SyncConns

ASSUME ConstantsAssumption ==
    /\ AsyncConns \cap SyncConns = {}
    /\ Size \in [Txns -> Nat]
    /\ Retries \in Nat \ {0}
    /\ Attempts \in Nat \ {0}
    /\ MaxLosses \in Nat
    /\ MaxRefusals \in Nat
    /\ NoTxn \notin Txns
    /\ NoConn \notin Conns

Stmts == UNION {{<<t, k>> : k \in 1..Size[t]} : t \in Txns}

VARIABLES
    task,          \* the transaction a connection is executing
    pc,            \* where its thread is
    pos,           \* the statement ExecuteTransaction is at
    retry,         \* 0 in the first run, i + 1 in the retry loop
    err,           \* the error code ExecuteTransaction is about to return
    resume,        \* the pc of the Execute call that is reconnecting
    attempts,      \* attempts left in _HandleMySQLErrno
    handle,        \* m_Mysql is not null
    deadlockLock,  \* holder of TransactionTask::_deadlockLock
    result,        \* what Execute or DirectCommitTransaction made of each
                   \* transaction: "none" until it is done with it
    aborted,       \* std::abort was called
    sess,          \* server: "auto" or "txn", the mode of a session
    writes,        \* server: the uncommitted statements of a session
    rows,          \* server: how often a statement was durably applied
    losses,        \* how often a connection was lost so far
    refusals,      \* how often one of the control statements failed so far
    touched,       \* history: transactions that lost, or lacked, a connection,
                   \* or whose START TRANSACTION or ROLLBACK failed
    unconfirmed    \* history: transactions whose COMMIT failed on a connection
                   \* that was kept

clientVars == <<task, pc, pos, retry, err, resume, attempts, handle,
                deadlockLock, result, aborted>>
serverVars == <<sess, writes, rows>>
history == <<touched, unconfirmed>>
bounds == <<losses, refusals>>
vars == <<clientVars, serverVars, bounds, history>>

Codes == {"ok", "deadlock", "other"}

Init ==
    /\ task = [c \in Conns |-> NoTxn]
    /\ pc = [c \in Conns |-> "idle"]
    /\ pos = [c \in Conns |-> 1]
    /\ retry = [c \in Conns |-> 0]
    /\ err = [c \in Conns |-> "ok"]
    /\ resume = [c \in Conns |-> "idle"]
    /\ attempts = [c \in Conns |-> 0]
    /\ handle = [c \in Conns |-> TRUE]
    /\ deadlockLock = NoConn
    /\ result = [t \in Txns |-> "none"]
    /\ aborted = FALSE
    /\ sess = [c \in Conns |-> "auto"]
    /\ writes = [c \in Conns |-> {}]
    /\ rows = [s \in Stmts |-> 0]
    /\ losses = 0
    /\ refusals = 0
    /\ touched = {}
    /\ unconfirmed = {}

-----------------------------------------------------------------------------
(* The server.                                                               *)

Apply(S) == rows' = [s \in Stmts |-> IF s \in S THEN rows[s] + 1 ELSE rows[s]]

(* The session is back in autocommit mode with nothing uncommitted. *)
Rolled(c) ==
    /\ sess' = [sess EXCEPT ![c] = "auto"]
    /\ writes' = [writes EXCEPT ![c] = {}]

(* A START TRANSACTION, ROLLBACK or COMMIT fails and the connection is kept: *)
(* the session is as it was, or what it had not committed is rolled back.   *)
Refused(c) ==
    /\ refusals < MaxRefusals
    /\ refusals' = refusals + 1
    /\ \/ UNCHANGED serverVars
       \/ Rolled(c) /\ UNCHANGED rows

-----------------------------------------------------------------------------
(* The callers of ExecuteTransaction.                                        *)

(* A DatabaseWorker pops a TransactionTask, or a thread calls               *)
(* DirectCommitTransaction and gets a free connection.                      *)
Start(c, t) ==
    /\ ~aborted
    /\ pc[c] = "idle"
    /\ result[t] = "none"
    /\ \A d \in Conns : task[d] # t
    /\ task' = [task EXCEPT ![c] = t]
    /\ pc' = [pc EXCEPT ![c] = "begin"]
    /\ UNCHANGED <<pos, retry, err, resume, attempts, handle, deadlockLock,
                   result, aborted, serverVars, bounds, history>>

\* Mutant: the lock is not released when a retry loop ends.
Done_KeepsLock(c, res) ==
    /\ result' = [result EXCEPT ![task[c]] = res]
    /\ task' = [task EXCEPT ![c] = NoTxn]
    /\ pc' = [pc EXCEPT ![c] = "idle"]
    /\ retry' = [retry EXCEPT ![c] = 0]
    /\ UNCHANGED deadlockLock

(* The caller is done with the transaction; the lock guard goes away. *)
Done(c, res) ==
    /\ result' = [result EXCEPT ![task[c]] = res]
    /\ task' = [task EXCEPT ![c] = NoTxn]
    /\ pc' = [pc EXCEPT ![c] = "idle"]
    /\ retry' = [retry EXCEPT ![c] = 0]
    /\ deadlockLock' = IF deadlockLock = c THEN NoConn ELSE deadlockLock

(* ExecuteTransaction has returned code to its caller. *)
Returned(c, code) ==
    \/ /\ code = "ok"
       /\ Done(c, "ok")
    \/ /\ code # "ok"
       /\ \/ retry[c] = 0 /\ code # "deadlock"
          \/ retry[c] = Retries
       /\ Done(c, "failed")
    \/ /\ code = "deadlock"
       /\ retry[c] = 0
       /\ pc' = [pc EXCEPT ![c] = "lock"]
       /\ UNCHANGED <<task, retry, deadlockLock, result>>
    \/ /\ code # "ok"
       /\ retry[c] \in 1..(Retries - 1)
       /\ pc' = [pc EXCEPT ![c] = "begin"]
       /\ retry' = [retry EXCEPT ![c] = @ + 1]
       /\ UNCHANGED <<task, deadlockLock, result>>

(* TransactionTask::Execute enters its retry loop under _deadlockLock,      *)
(* DirectCommitTransaction without it.                                      *)
EnterRetry(c) ==
    /\ ~aborted
    /\ pc[c] = "lock"
    /\ IF c \in AsyncConns
          THEN deadlockLock = NoConn /\ deadlockLock' = c
          ELSE UNCHANGED deadlockLock
    /\ retry' = [retry EXCEPT ![c] = 1]
    /\ pc' = [pc EXCEPT ![c] = "begin"]
    /\ UNCHANGED <<task, pos, err, resume, attempts, handle, result, aborted,
                   serverVars, bounds, history>>

-----------------------------------------------------------------------------
(* ExecuteTransaction, one step per Execute.                                 *)

(* A transaction without statements is refused with -1. *)
Refuse(c) ==
    /\ ~aborted
    /\ pc[c] = "begin"
    /\ Size[task[c]] = 0
    /\ Returned(c, "other")
    /\ UNCHANGED <<pos, err, resume, attempts, handle, aborted, serverVars,
                   bounds, history>>

(* BeginTransaction; its result is ignored.  START TRANSACTION commits what *)
(* the session has not committed yet.                                       *)
Begin(c) ==
    /\ ~aborted
    /\ pc[c] = "begin"
    /\ Size[task[c]] > 0
    /\ pc' = [pc EXCEPT ![c] = "exec"]
    /\ pos' = [pos EXCEPT ![c] = 1]
    /\ Apply(writes[c])
    /\ writes' = [writes EXCEPT ![c] = {}]
    /\ sess' = [sess EXCEPT ![c] = IF handle[c] THEN "txn" ELSE @]
    /\ UNCHANGED <<task, retry, err, resume, attempts, handle, deadlockLock,
                   result, aborted, bounds, history>>

(* START TRANSACTION fails: the statements are sent all the same. *)
BeginError(c) ==
    /\ ~aborted
    /\ pc[c] = "begin"
    /\ Size[task[c]] > 0
    /\ handle[c]
    /\ pc' = [pc EXCEPT ![c] = "exec"]
    /\ pos' = [pos EXCEPT ![c] = 1]
    /\ Refused(c)
    /\ touched' = touched \cup {task[c]}
    /\ UNCHANGED <<task, retry, err, resume, attempts, handle, deadlockLock,
                   result, aborted, losses, unconfirmed>>

NextStmt(c) == <<task[c], pos[c]>>

(* A statement succeeds: uncommitted inside a transaction, durable in       *)
(* autocommit mode.                                                         *)
ExecuteOk(c) ==
    /\ ~aborted
    /\ pc[c] = "exec"
    /\ handle[c]
    /\ IF sess[c] = "txn"
          THEN /\ writes' = [writes EXCEPT ![c] = @ \cup {NextStmt(c)}]
               /\ UNCHANGED rows
          ELSE /\ Apply({NextStmt(c)})
               /\ UNCHANGED writes
    /\ pos' = [pos EXCEPT ![c] = @ + 1]
    /\ pc' = [pc EXCEPT ![c] = IF pos[c] = Size[task[c]] THEN "commit" ELSE @]
    /\ UNCHANGED <<task, retry, err, resume, attempts, handle, deadlockLock,
                   result, aborted, sess, bounds, history>>

(* A statement fails: ER_LOCK_DEADLOCK (the server has already rolled back) *)
(* or an error that skips the query.                                        *)
ExecuteError(c, code) ==
    /\ ~aborted
    /\ pc[c] = "exec"
    /\ handle[c]
    /\ err' = [err EXCEPT ![c] = code]
    /\ pc' = [pc EXCEPT ![c] = "rollback"]
    /\ IF code = "deadlock" THEN Rolled(c) ELSE UNCHANGED <<sess, writes>>
    /\ UNCHANGED <<task, pos, retry, resume, attempts, handle, deadlockLock,
                   result, aborted, rows, bounds, history>>

(* Execute without a connection fails at once; the code mysql_errno(NULL)   *)
(* then returns may be any, 0 included.                                     *)
ExecuteNoHandle(c, code) ==
    /\ ~aborted
    /\ pc[c] = "exec"
    /\ ~handle[c]
    /\ err' = [err EXCEPT ![c] = code]
    /\ pc' = [pc EXCEPT ![c] = "rollback"]
    /\ touched' = touched \cup {task[c]}
    /\ UNCHANGED <<task, pos, retry, resume, attempts, handle, deadlockLock,
                   result, aborted, serverVars, bounds, unconfirmed>>

\* Mutant: the ROLLBACK of a failed transaction is left out.
Rollback_Missing(c) ==
    /\ ~aborted
    /\ pc[c] = "rollback"
    /\ Returned(c, err[c])
    /\ UNCHANGED <<pos, err, resume, attempts, handle, aborted, serverVars,
                   bounds, history>>

(* RollbackTransaction, then the error code is returned. *)
Rollback(c) ==
    /\ ~aborted
    /\ pc[c] = "rollback"
    /\ Rolled(c)
    /\ Returned(c, err[c])
    /\ UNCHANGED <<pos, err, resume, attempts, handle, aborted, rows, bounds,
                   history>>

(* ROLLBACK fails: the error code of the statement is returned all the same. *)
RollbackError(c) ==
    /\ ~aborted
    /\ pc[c] = "rollback"
    /\ handle[c]
    /\ Refused(c)
    /\ Returned(c, err[c])
    /\ touched' = touched \cup {task[c]}
    /\ UNCHANGED <<pos, err, resume, attempts, handle, aborted, losses, unconfirmed>>

(* CommitTransaction; its result is ignored and 0 is returned. *)
Commit(c) ==
    /\ ~aborted
    /\ pc[c] = "commit"
    /\ Apply(writes[c])
    /\ Rolled(c)
    /\ Returned(c, "ok")
    /\ UNCHANGED <<pos, err, resume, attempts, handle, aborted, bounds,
                   history>>

(* COMMIT fails: 0 is returned all the same.  What is left uncommitted in    *)
(* the session is committed by its next START TRANSACTION.                  *)
CommitError(c) ==
    /\ ~aborted
    /\ pc[c] = "commit"
    /\ handle[c]
    /\ Refused(c)
    /\ Returned(c, "ok")
    /\ unconfirmed' = unconfirmed \cup {task[c]}
    /\ UNCHANGED <<pos, err, resume, attempts, handle, aborted, losses, touched>>

-----------------------------------------------------------------------------
(* _HandleMySQLErrno.                                                        *)

(* An Execute finds the server gone: the session, and its transaction, are  *)
(* gone with it.  The statement may have been executed before the answer    *)
(* was lost.                                                                *)
Lose(c) ==
    /\ ~aborted
    /\ pc[c] \in {"begin", "exec", "rollback", "commit"}
    /\ Size[task[c]] > 0
    /\ handle[c]
    /\ losses < MaxLosses
    /\ losses' = losses + 1
    /\ touched' = touched \cup {task[c]}
    /\ \/ UNCHANGED rows
       \/ pc[c] = "exec" /\ sess[c] = "auto" /\ Apply({NextStmt(c)})
       \/ pc[c] \in {"begin", "commit"} /\ Apply(writes[c])
    /\ Rolled(c)
    /\ handle' = [handle EXCEPT ![c] = FALSE]
    /\ resume' = [resume EXCEPT ![c] = pc[c]]
    /\ attempts' = [attempts EXCEPT ![c] = Attempts]
    /\ pc' = [pc EXCEPT ![c] = "reconnect"]
    /\ UNCHANGED <<task, pos, retry, err, deadlockLock, result, aborted, refusals,
                   unconfirmed>>

(* Open succeeds: the statement is executed again, in a new session. *)
Reconnect(c) ==
    /\ ~aborted
    /\ pc[c] = "reconnect"
    /\ handle' = [handle EXCEPT ![c] = TRUE]
    /\ pc' = [pc EXCEPT ![c] = resume[c]]
    /\ UNCHANGED <<task, pos, retry, err, resume, attempts, deadlockLock,
                   result, aborted, serverVars, bounds, history>>

(* Open fails with one of the errors that are tried again; the process      *)
(* aborts after the last attempt, whatever the error.                       *)
ReconnectFails(c) ==
    /\ ~aborted
    /\ pc[c] = "reconnect"
    /\ attempts' = [attempts EXCEPT ![c] = @ - 1]
    /\ aborted' = (attempts[c] = 1)
    /\ UNCHANGED <<task, pc, pos, retry, err, resume, handle, deadlockLock,
                   result, serverVars, bounds, history>>

(* Open fails with any other error (or with whatever mysql_errno reads from *)
(* the handle that was just closed): Execute gives up and returns false,    *)
(* which BeginTransaction, RollbackTransaction and CommitTransaction ignore. *)
ReconnectGivesUp(c, code) ==
    /\ ~aborted
    /\ pc[c] = "reconnect"
    /\ attempts[c] > 1
    /\ attempts' = [attempts EXCEPT ![c] = @ - 1]
    /\ \/ /\ resume[c] = "begin"
          /\ pc' = [pc EXCEPT ![c] = "exec"]
          /\ pos' = [pos EXCEPT ![c] = 1]
          /\ UNCHANGED <<task, retry, err, deadlockLock, result>>
       \/ /\ resume[c] = "exec"
          /\ pc' = [pc EXCEPT ![c] = "rollback"]
          /\ err' = [err EXCEPT ![c] = code]
          /\ UNCHANGED <<task, pos, retry, deadlockLock, result>>
       \/ /\ resume[c] = "rollback"
          /\ Returned(c, err[c])
          /\ UNCHANGED <<pos, err>>
       \/ /\ resume[c] = "commit"
          /\ Returned(c, "ok")
          /\ UNCHANGED <<pos, err>>
    /\ UNCHANGED <<resume, handle, aborted, serverVars, bounds, history>>

(* std::abort: the statements cannot be prepared again after a reconnect,   *)
(* or a statement does not fit the database structure.                      *)
Abort(c) ==
    /\ ~aborted
    /\ pc[c] = "reconnect" \/ (pc[c] = "exec" /\ handle[c])
    /\ aborted' = TRUE
    /\ UNCHANGED <<task, pc, pos, retry, err, resume, attempts, handle,
                   deadlockLock, result, serverVars, bounds, history>>

-----------------------------------------------------------------------------
(* What a connection's thread does without being asked to. *)
Step(c) ==
    \/ EnterRetry(c) \/ Refuse(c) \/ Begin(c) \/ ExecuteOk(c)
    \/ \E code \in {"deadlock", "other"} : ExecuteError(c, code)
    \/ \E code \in Codes : ExecuteNoHandle(c, code) \/ ReconnectGivesUp(c, code)
    \/ BeginError(c) \/ RollbackError(c) \/ CommitError(c)
    \/ Rollback(c) \/ Commit(c) \/ Lose(c) \/ Reconnect(c)
    \/ ReconnectFails(c) \/ Abort(c)

Terminated ==
    /\ aborted \/ \A t \in Txns : result[t] # "none"
    /\ UNCHANGED vars

Next ==
    \/ \E c \in Conns : Step(c) \/ \E t \in Txns : Start(c, t)
    \/ Terminated

(* A thread that can go on does; a mutex that becomes free again and again  *)
(* is eventually acquired.                                                  *)
Fairness == \A c \in Conns : WF_vars(Step(c)) /\ SF_vars(EnterRetry(c))

Spec == Init /\ [][Next]_vars

FairSpec == Spec /\ Fairness

-----------------------------------------------------------------------------
(* Properties.                                                               *)

Absent(t) == \A k \in 1..Size[t] : rows[<<t, k>>] = 0
Present(t) == \A k \in 1..Size[t] : rows[<<t, k>>] = 1

(* "Begins an automanaged transaction pointer that will automatically       *)
(* rollback if not commited. (Autocommit=0)": the statements of a           *)
(* transaction are applied together or not at all, whatever becomes of the  *)
(* connection (MySQLConnection::ExecuteTransaction).                        *)
AllOrNothing == \A t \in Txns : Absent(t) \/ Present(t)

(* As long as it keeps its connection and its START TRANSACTION and ROLLBACK *)
(* succeed, a transaction is applied once if it is reported to succeed,     *)
(* through any number of deadlocks and retries, and leaves no trace before  *)
(* that or if it is given up, although the connection goes on to execute    *)
(* other transactions.  Of one whose COMMIT failed nobody is told whether   *)
(* it is applied, but no part of it ever is without the rest                *)
(* (TransactionTask::Execute, DirectCommitTransaction).                     *)
OutcomeUnlessLost ==
    \A t \in Txns \ touched :
        IF t \in unconfirmed THEN Absent(t) \/ Present(t)
        ELSE IF result[t] = "ok" THEN Present(t)
        ELSE Absent(t)

(* "depending on the kind of error we might want to restart the transaction. *)
(* So to prevent data loss, we only clean up when it's all done": as long as *)
(* the connection is kept, what is reported as done is durable.  The code    *)
(* does not keep this: ExecuteTransaction ignores the result of COMMIT.     *)
ReportedIsDurable ==
    \A t \in Txns \ touched : result[t] = "ok" => Present(t)

(* A transaction once started comes to an end: no connection waits forever  *)
(* for _deadlockLock and no retry loop runs forever.                        *)
TransactionsEnd == \A c \in Conns : pc[c] = "begin" ~> pc[c] = "idle" \/ aborted
=============================================================================
