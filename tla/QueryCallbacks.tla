---------------------------- MODULE QueryCallbacks ----------------------------
(***************************************************************************)
(* server/database: the callbacks of asynchronous queries (QueryCallback,  *)
(* QueryCallbackProcessor), composed with the pool that executes them.     *)
(*                                                                         *)
(* The owner of a processor (a WorldSession, a socket, the World) asks for *)
(* queries and gives each a chain of callbacks.  Once in every update it   *)
(* calls ProcessReadyQueries, which calls the next callback of every query *)
(* whose future is ready.  A callback may ask for the next query of its    *)
(* chain or for others, while the processor is in the middle of its list.  *)
(***************************************************************************)
EXTENDS DatabaseWorkerPool

CONSTANT MaxChain  \* bound: callbacks of one query

ASSUME ChainAssumption == MaxChain \in Nat \ {0}

(* op: the operation whose future is held.  left: how many _callbacks. *)
QueryCallback == [op: Ops, left: 1..MaxChain]

VARIABLES
    callbacks,  \* _callbacks of the processor
    update,     \* ProcessReadyQueries: the updateCallbacks to look at
    kept,       \* ProcessReadyQueries: those that stay
    processing, \* ProcessReadyQueries runs
    owner,      \* the processor's owner exists
    invoked     \* history: how many callbacks were given the result of each

qcVars  == <<callbacks, update, kept, processing, owner, invoked>>
allVars == <<vars, qcVars>>

QCInit ==
    /\ Init
    /\ callbacks = <<>> /\ update = <<>> /\ kept = <<>>
    /\ processing = FALSE
    /\ owner = TRUE
    /\ invoked = [o \in Ops |-> 0]

-----------------------------------------------------------------------------
(* AsyncQuery, its callbacks, AddQuery: outside of ProcessReadyQueries. *)
AddQuery(o, n) ==
    /\ owner /\ ~processing
    /\ Enqueue(o)
    /\ callbacks' = Append(callbacks, [op |-> o, left |-> n])
    /\ UNCHANGED <<update, kept, processing, owner, invoked>>

(* ProcessReadyQueries takes the whole list away. *)
BeginProcess ==
    /\ owner /\ ~processing /\ callbacks # <<>>
    /\ update' = callbacks
    /\ callbacks' = <<>>
    /\ kept' = <<>>
    /\ processing' = TRUE
    /\ UNCHANGED <<vars, owner, invoked>>

(* wait_for of the future: it is set by the worker, or its promise was deleted
   with the operation and reading it throws. *)
Ready(o) == fate[o] \in {"executed", "deleted"}

NotReady ==
    /\ processing /\ update # <<>>
    /\ ~Ready(Head(update).op)
    /\ kept' = Append(kept, Head(update))
    /\ update' = Tail(update)
    /\ UNCHANGED <<vars, callbacks, processing, owner, invoked>>

\* Mutant: the future is not moved out of the query before the callback runs.
Invoke_KeepsFuture ==
    LET q == Head(update)
    IN  /\ processing /\ update # <<>> /\ Ready(q.op)
        /\ invoked' = [invoked EXCEPT ![q.op] = @ + 1]
        /\ update' = Tail(update)
        /\ \/ /\ kept' = IF q.left > 1
                         THEN Append(kept, [q EXCEPT !.left = @ - 1]) ELSE kept
              /\ UNCHANGED <<vars, callbacks>>
           \/ \E o \in Ops : /\ Enqueue(o) /\ q.left > 1
                             /\ kept' = Append(kept, [op |-> o, left |-> q.left - 1])
                             /\ UNCHANGED callbacks
           \/ \E o \in Ops, n \in 1..MaxChain :
                /\ Enqueue(o)
                /\ callbacks' = Append(callbacks, [op |-> o, left |-> n])
                /\ UNCHANGED kept
        /\ UNCHANGED <<processing, owner>>

(* InvokeIfReady of a ready query.  The callback returns, which ends the chain
   (Completed); or sets the next query of a chain that has more callbacks
   (NextStep); or asks for another query of its owner. *)
InvokeIfReady ==
    LET q == Head(update)
    IN  /\ processing /\ update # <<>> /\ Ready(q.op)
        /\ invoked' = [invoked EXCEPT ![q.op] = @ + 1]
        /\ update' = Tail(update)
        /\ \/ UNCHANGED <<vars, kept, callbacks>>
           \/ \E o \in Ops : /\ Enqueue(o) /\ q.left > 1
                             /\ kept' = Append(kept, [op |-> o, left |-> q.left - 1])
                             /\ UNCHANGED callbacks
           \/ \E o \in Ops, n \in 1..MaxChain :
                /\ Enqueue(o)
                /\ callbacks' = Append(callbacks, [op |-> o, left |-> n])
                /\ UNCHANGED kept
        /\ UNCHANGED <<processing, owner>>

\* Mutant: what is kept replaces what was added meanwhile.
EndProcess_Replace ==
    /\ processing /\ update = <<>>
    /\ callbacks' = kept
    /\ kept' = <<>>
    /\ processing' = FALSE
    /\ UNCHANGED <<vars, update, owner, invoked>>

(* The queries that stay follow those that were added meanwhile. *)
EndProcess ==
    /\ processing /\ update = <<>>
    /\ callbacks' = callbacks \o kept
    /\ kept' = <<>>
    /\ processing' = FALSE
    /\ UNCHANGED <<vars, update, owner, invoked>>

(* The owner is deleted between two updates: its queries are executed all the
   same and nobody hears of them. *)
DeleteOwner ==
    /\ owner /\ ~processing
    /\ owner' = FALSE
    /\ callbacks' = <<>>
    /\ UNCHANGED <<vars, update, kept, processing, invoked>>

OwnerStep == BeginProcess \/ NotReady \/ InvokeIfReady \/ EndProcess

(* The pool.  StopDB runs after the sessions and the network are gone. *)
CloseDB == ~owner /\ BeginClose

PoolStep ==
    \/ MainStep
    \/ \E c \in Conns : WorkerStep(c) \/ WorkerSpurious(c)
    \/ \E o \in Ops : Enqueue(o)
    \/ OpenFails
    \/ CloseDB
    \/ Terminated

QCNext ==
    \/ OwnerStep
    \/ DeleteOwner
    \/ \E o \in Ops, n \in 1..MaxChain : AddQuery(o, n)
    \/ PoolStep /\ UNCHANGED qcVars

(* The pool's threads are fair, as in DatabaseWorkerPool, and the owner updates
   its processor again and again. *)
QCSpec ==
    /\ QCInit /\ [][QCNext]_allVars
    /\ WF_allVars(OwnerStep)
    /\ WF_allVars(MainStep /\ UNCHANGED qcVars)
    /\ \A c \in Conns : WF_allVars(WorkerStep(c) /\ UNCHANGED qcVars)

-----------------------------------------------------------------------------
(* Properties. *)

(* The QueryCallbacks there are. *)
Held == callbacks \o update \o kept

(* Every result is given to one callback, of the query that asked for it, and
   only when the query was executed: no two queries hold one future, no callback
   runs twice, and none reads a promise that was deleted when the pool closed. *)
CallbackOnce ==
    /\ \A i, j \in DOMAIN Held : Held[i].op = Held[j].op => i = j
    /\ \A o \in Ops : /\ invoked[o] <= 1
                      /\ invoked[o] = 1 => fate[o] = "executed"
                      /\ invoked[o] = 1 => \A i \in DOMAIN Held : Held[i].op # o

(* While the owner exists and the pool is open, every query that was asked for
   has its callback called, those too that a callback asks for while the
   processor walks through its list. *)
CallbacksRun ==
    \A o \in Ops :
        (\E i \in DOMAIN Held : Held[i].op = o) /\ ~retried
            ~> invoked[o] = 1 \/ ~owner \/ pool # "open"
=============================================================================
