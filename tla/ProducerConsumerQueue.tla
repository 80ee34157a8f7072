------------------------ MODULE ProducerConsumerQueue ------------------------
(***************************************************************************)
(* common/Threading/ProducerConsumerQueue.h: the blocking queue behind the *)
(* map updater's and the database's worker threads.                        *)
(*                                                                         *)
(* Every method holds _queueLock from its first to its last line, except   *)
(* that _condition.wait releases it while the caller is blocked.  A method *)
(* is therefore one atomic step, and WaitAndPop is a step that blocks the  *)
(* caller (PCQBlock), steps that wake it (PCQPush, PCQCancel, PCQSpurious) *)
(* and a step that returns (PCQPopItem, PCQPopNothing).  The modules that  *)
(* use the queue say which thread may take which step.                     *)
(***************************************************************************)
EXTENDS Naturals, Sequences

VARIABLES
    queue,     \* _queue: the queued values, oldest first
    shutdown,  \* _shutdown: set by Cancel, never reset
    blocked    \* the threads asleep in _condition.wait

pcqVars == <<queue, shutdown, blocked>>

PCQInit ==
    /\ queue = <<>>
    /\ shutdown = FALSE
    /\ blocked = {}

(* std::condition_variable::notify_one: it wakes one sleeper if there is one. *)
NotifyOne ==
    \/ blocked = {} /\ blocked' = {}
    \/ \E t \in blocked : blocked' = blocked \ {t}

(* Push *)
PCQPush(v) ==
    /\ queue' = Append(queue, v)
    /\ NotifyOne
    /\ UNCHANGED shutdown

(* WaitAndPop, the loop condition holds: the caller goes to sleep. *)
PCQBlock(t) ==
    /\ t \notin blocked
    /\ queue = <<>>
    /\ ~shutdown
    /\ blocked' = blocked \cup {t}
    /\ UNCHANGED <<queue, shutdown>>

(* WaitAndPop returns after Cancel: the caller's variable keeps its value. *)
PCQPopNothing(t) ==
    /\ t \notin blocked
    /\ shutdown
    /\ UNCHANGED pcqVars

(* WaitAndPop returns the oldest value. *)
PCQPopItem(t, v) ==
    /\ t \notin blocked
    /\ queue # <<>>
    /\ ~shutdown
    /\ v = Head(queue)
    /\ queue' = Tail(queue)
    /\ UNCHANGED <<shutdown, blocked>>

(* The standard lets _condition.wait return without a notification. *)
PCQSpurious(t) ==
    /\ t \in blocked
    /\ blocked' = blocked \ {t}
    /\ UNCHANGED <<queue, shutdown>>

\* Mutant: Cancel does not wake the sleeping threads.
PCQCancel_Silent ==
    /\ queue' = <<>>
    /\ shutdown' = TRUE
    /\ UNCHANGED blocked

(* Cancel deletes what is queued, forbids further pops and wakes everyone. *)
PCQCancel ==
    /\ queue' = <<>>
    /\ shutdown' = TRUE
    /\ blocked' = {}
=============================================================================
