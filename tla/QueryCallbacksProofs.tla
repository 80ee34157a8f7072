------------------------- MODULE QueryCallbacksProofs -------------------------
(***************************************************************************)
(* Proofs about DatabaseWorkerPool and about QueryCallbacks, which contains *)
(* it, for any number of connections and operations: a worker executes     *)
(* operations only on an open connection, every operation has one owner,   *)
(* and every result is given to one callback.                              *)
(*                                                                         *)
(* The pool is reasoned about on its own; every step of QueryCallbacks is  *)
(* one of the pool's or leaves the pool alone.                             *)
(***************************************************************************)
EXTENDS QueryCallbacks, SequenceTheorems, TLAPS

In(x, s) == \E n \in 1..Len(s) : s[n] = x

Once(s) == \A m, n \in 1..Len(s) : s[m] = s[n] => m = n

PoolStates == {"closed", "opening", "open", "closing", "unwinding", "failed", "stopped"}

(* Every variable of the pool has its type. *)
PoolType ==
    /\ queue \in Seq(Ops) /\ shutdown \in BOOLEAN
    /\ pool \in PoolStates /\ stage \in {"token", "cancel", "join"}
    /\ at \in Nat \ {0}
    /\ alive \subseteq Conns /\ handle \subseteq alive
    /\ wpc \in [Conns -> {"pop", "check", "call", "exit"}]
    /\ operation \in [Conns -> Ops \cup {NoOp}]
    /\ token \in [Conns -> BOOLEAN]
    /\ fate \in [Ops -> Fates]
    /\ executed \in Seq(Ops)

(* Open creates the connections one by one; an open pool has all of them, and
   none of a pool's connections is without a handle from then on. *)
Connections ==
    /\ pool = "opening" => /\ at \in Conns
                           /\ handle = 1..(at - 1)
                           /\ alive \in {1..(at - 1), 1..at}
    /\ pool = "open" => alive = Conns
    /\ pool \in {"open", "closing"} => handle = alive
    /\ pool \in {"closed", "failed", "stopped"} => alive = {}

(* A worker is told to stop by the destructor of its connection only, and that
   cancels the queue before it joins the worker. *)
Stopping ==
    /\ \A c \in alive : token[c] => pool \in {"closing", "unwinding"}
    /\ pool \in {"closing", "unwinding"} /\ stage = "join" => shutdown
    /\ pool = "stopped" => shutdown

(* What a worker holds, by where it is.  It exits with its connection. *)
WorkerHolds ==
    \A c \in Conns : /\ wpc[c] # "exit" => c \in alive
                     /\ wpc[c] = "pop" => operation[c] = NoOp
                     /\ wpc[c] = "call" => operation[c] # NoOp /\ c \in handle

(* The fate of an operation says who owns it. *)
FateTrue ==
    /\ \A o \in Ops : fate[o] = "queued" <=> In(o, queue)
    /\ \A c \in Conns : operation[c] # NoOp =>
          fate[operation[c]] = IF wpc[c] = "exit" THEN "leaked" ELSE "held"
    /\ \A o \in Ops : fate[o] = "held" =>
          \E c \in Conns : operation[c] = o /\ wpc[c] # "exit"
    /\ \A o \in Ops : In(o, executed) => fate[o] = "executed"

(* Nothing is asked of a pool that is not open yet, and nothing is dropped by
   one that is. *)
FateWhen ==
    \A o \in Ops :
        /\ fate[o] # "new" => pool \in {"open", "closing", "stopped"}
        /\ fate[o] \in {"deleted", "leaked"} => pool \in {"closing", "stopped"}

NoTwice ==
    /\ Once(queue) /\ Once(executed)
    /\ \A c, d \in Conns :
          operation[c] # NoOp /\ operation[c] = operation[d] => c = d

PoolInv ==
    /\ PoolType /\ Connections /\ Stopping /\ WorkerHolds
    /\ FateTrue /\ FateWhen /\ NoTwice


-----------------------------------------------------------------------------
(* What a list holds once something was appended, or its head taken. *)
LEMMA AppendOnce ==
  ASSUME NEW S, NEW s \in Seq(S), NEW x \in S, Once(s), ~In(x, s)
  PROVE  /\ Once(Append(s, x))
         /\ \A y : In(y, Append(s, x)) <=> In(y, s) \/ y = x
<1> DEFINE t == Append(s, x)
<1>1. /\ Len(s) \in Nat /\ Len(t) = Len(s) + 1 /\ t[Len(s) + 1] = x
      /\ \A i \in 1..Len(s) : t[i] = s[i]
  OBVIOUS
<1> HIDE DEF t
<1>2. 1..Len(t) = 1..Len(s) \cup {Len(s) + 1}
  BY <1>1
<1>3. \A y : In(y, t) <=> In(y, s) \/ y = x
  BY <1>1, <1>2 DEF In
<1>4. Once(t)
  BY <1>1, <1>2 DEF Once, In
<1> QED
  BY <1>3, <1>4 DEF t

LEMMA TailOnce ==
  ASSUME NEW S, NEW s \in Seq(S), s # <<>>, Once(s)
  PROVE  /\ Head(s) \in S /\ In(Head(s), s) /\ Once(Tail(s))
         /\ \A y : In(y, Tail(s)) <=> In(y, s) /\ y # Head(s)
<1> DEFINE t == Tail(s)
<1>1. /\ Len(s) \in Nat \ {0} /\ Len(t) = Len(s) - 1 /\ Head(s) = s[1] /\ s[1] \in S
      /\ \A i \in 1..Len(t) : t[i] = s[i + 1] /\ i + 1 \in 1..Len(s)
  BY HeadTailProperties
<1> HIDE DEF t
<1>2. In(Head(s), s)
  BY <1>1 DEF In
<1>3. Once(t)
  BY <1>1 DEF Once
<1>4. ASSUME NEW y, In(y, t) PROVE In(y, s) /\ y # Head(s)
  <2>1. PICK i \in 1..Len(t) : y = t[i]
    BY <1>4 DEF In
  <2>2. y = s[i + 1] /\ i + 1 \in 1..Len(s) /\ i + 1 # 1
    BY <1>1, <2>1
  <2> QED
    BY <1>1, <2>2 DEF In, Once
<1>5. ASSUME NEW y, In(y, s), y # Head(s) PROVE In(y, t)
  <2>1. PICK i \in 1..Len(s) : y = s[i]
    BY <1>5 DEF In
  <2>2. i # 1 /\ i - 1 \in 1..Len(t) /\ (i - 1) + 1 = i
    BY <1>1, <1>5, <2>1
  <2>3. t[i - 1] = y
    BY <1>1, <2>1, <2>2
  <2> QED
    BY <2>2, <2>3 DEF In
<1> QED
  BY <1>1, <1>2, <1>3, <1>4, <1>5 DEF t

LEMMA InitPoolInv == Init => PoolInv
<1> SUFFICES ASSUME Init PROVE PoolInv
  OBVIOUS
<1>1. /\ Len(queue) = 0 /\ Len(executed) = 0 /\ queue = <<>> /\ executed = <<>>
      /\ \A o \in Ops : fate[o] = "new"
      /\ \A c \in Conns : wpc[c] = "exit" /\ operation[c] = NoOp
  BY DEF Init, PCQInit
<1>2. \A x : ~In(x, queue) /\ ~In(x, executed)
  BY <1>1 DEF In
<1>3. PoolType
  <2>1. /\ queue \in Seq(Ops) /\ executed \in Seq(Ops) /\ shutdown \in BOOLEAN
        /\ pool \in PoolStates /\ stage \in {"token", "cancel", "join"} /\ at \in Nat \ {0}
        /\ alive \subseteq Conns /\ handle \subseteq alive
    <3>1. queue \in Seq(Ops) /\ executed \in Seq(Ops)
      BY <1>1
    <3>2. shutdown \in BOOLEAN
      BY DEF Init, PCQInit
    <3>3. /\ pool \in PoolStates /\ stage \in {"token", "cancel", "join"} /\ at \in Nat \ {0}
          /\ alive \subseteq Conns /\ handle \subseteq alive
      BY DEF Init, PoolStates
    <3> QED
      BY <3>1, <3>2, <3>3
  <2>2. /\ wpc \in [Conns -> {"pop", "check", "call", "exit"}]
        /\ operation \in [Conns -> Ops \cup {NoOp}]
        /\ token \in [Conns -> BOOLEAN]
        /\ fate \in [Ops -> Fates]
    BY DEF Init, Fates
  <2> QED
    BY <2>1, <2>2 DEF PoolType
<1>4. Connections /\ Stopping
  BY DEF Init, Connections, Stopping
<1>5. WorkerHolds /\ FateTrue /\ FateWhen /\ NoTwice
  BY <1>1, <1>2 DEF WorkerHolds, FateTrue, FateWhen, NoTwice, Once
<1> QED
  BY <1>3, <1>4, <1>5 DEF PoolInv

(* Opening the pool, unwinding it, and the decisions of the loader: no operation
   is concerned. *)
LEMMA OpenPoolInv ==
  ASSUME PoolInv,
         \/ BeginOpen \/ CreateConnection \/ OpenOk \/ OpenFails
         \/ LoaderRetries \/ LoaderGivesUp \/ BeginClose \/ SetToken \/ JoinWorker
  PROVE  PoolInv'
<1> USE DEF pcqVars, poolVars, workerVars, loaderVars, opVars
<1>1. /\ PoolType /\ Connections /\ Stopping /\ WorkerHolds
      /\ FateTrue /\ FateWhen /\ NoTwice
  BY DEF PoolInv
<1>2. UNCHANGED <<queue, shutdown, opVars>>
  BY DEF BeginOpen, CreateConnection, OpenOk, OpenFails, LoaderRetries, LoaderGivesUp,
     BeginClose, SetToken, JoinWorker
<1>n. NumAsync \in Nat \ {0} /\ Conns = 1..NumAsync
  BY ConstantsAssumption DEF Conns
<1>3. ASSUME UNCHANGED <<wpc, operation>>,
             pool \in {"open", "closing", "stopped"} => pool' \in {"open", "closing", "stopped"},
             pool \in {"closing", "stopped"} => pool' \in {"closing", "stopped"}
      PROVE  FateTrue' /\ FateWhen' /\ NoTwice'
  BY <1>1, <1>2, <1>3 DEF FateTrue, FateWhen, NoTwice, In, Once
<1>4. CASE BeginOpen
  BY <1>1, <1>2, <1>3, <1>4, <1>n
  DEF BeginOpen, PoolInv, PoolType, PoolStates, Connections, Stopping, WorkerHolds
<1>5. CASE OpenOk
  BY <1>1, <1>2, <1>3, <1>5, <1>n
  DEF OpenOk, PoolInv, PoolType, PoolStates, Connections, Stopping, WorkerHolds
<1>6. CASE OpenFails
  BY <1>1, <1>2, <1>3, <1>6, <1>n
  DEF OpenFails, PoolInv, PoolType, PoolStates, Connections, Stopping, WorkerHolds
<1>11. CASE LoaderRetries
  BY <1>1, <1>2, <1>3, <1>11, <1>n
  DEF LoaderRetries, PoolInv, PoolType, PoolStates, Connections, Stopping, WorkerHolds
<1>12. CASE LoaderGivesUp
  BY <1>1, <1>2, <1>3, <1>12, <1>n
  DEF LoaderGivesUp, PoolInv, PoolType, PoolStates, Connections, Stopping, WorkerHolds
<1>7. CASE BeginClose
  BY <1>1, <1>2, <1>3, <1>7, <1>n
  DEF BeginClose, PoolInv, PoolType, PoolStates, Connections, Stopping, WorkerHolds
<1>8. CASE SetToken
  BY <1>1, <1>2, <1>3, <1>8, <1>n
  DEF SetToken, Destroying, PoolInv, PoolType, PoolStates, Connections, Stopping, WorkerHolds
<1>9. CASE JoinWorker
  BY <1>1, <1>2, <1>3, <1>9, <1>n
  DEF JoinWorker, Destroying, PoolInv, PoolType, PoolStates, Connections, Stopping, WorkerHolds
<1>10. CASE CreateConnection
  <2>1. /\ at \in Conns \ alive /\ pool = "opening" /\ alive' = alive \cup {at}
        /\ wpc' = [wpc EXCEPT ![at] = "pop"]
        /\ operation' = [operation EXCEPT ![at] = NoOp]
        /\ token' = [token EXCEPT ![at] = FALSE]
        /\ UNCHANGED <<pool, at, stage, handle>>
    BY <1>10 DEF CreateConnection
  <2>2. \A c \in Conns : operation[c] = NoOp
    BY <1>1, <2>1 DEF FateTrue, FateWhen, PoolType
  <2>3. \A c \in Conns : operation'[c] = NoOp
    BY <1>1, <2>1, <2>2 DEF PoolType
  <2>4. FateTrue' /\ FateWhen' /\ NoTwice'
    BY <1>1, <1>2, <2>1, <2>2, <2>3 DEF FateTrue, FateWhen, NoTwice, In, Once
  <2>5. PoolType' /\ Connections' /\ Stopping' /\ WorkerHolds'
    <3>1. at \in Conns /\ at \notin alive
      BY <2>1
    <3>2. PoolType'
      <4>1. /\ wpc' \in [Conns -> {"pop", "check", "call", "exit"}]
            /\ operation' \in [Conns -> Ops \cup {NoOp}]
            /\ token' \in [Conns -> BOOLEAN]
        BY <1>1, <2>1, <3>1 DEF PoolType
      <4>2. alive' \subseteq Conns /\ handle' \subseteq alive'
        BY <1>1, <2>1, <3>1 DEF PoolType
      <4>3. /\ queue' \in Seq(Ops) /\ shutdown' \in BOOLEAN
            /\ pool' \in PoolStates /\ stage' \in {"token", "cancel", "join"}
            /\ at' \in Nat \ {0}
            /\ fate' \in [Ops -> Fates] /\ executed' \in Seq(Ops)
        <5>1. UNCHANGED <<queue, shutdown, pool, at, stage, fate, executed>>
          BY <1>10 DEF CreateConnection, pcqVars, opVars
        <5> QED
          BY <1>1, <5>1 DEF PoolType
      <4> QED
        BY <4>1, <4>2, <4>3 DEF PoolType
    <3>3. Connections'
      BY <1>1, <1>2, <1>n, <2>1 DEF PoolType, Connections
    <3>4. Stopping'
      BY <1>1, <1>2, <1>n, <2>1 DEF PoolType, Stopping
    <3>5. WorkerHolds'
      BY <1>1, <1>2, <2>1, <2>2, <2>3 DEF PoolType, WorkerHolds
    <3> QED
      BY <3>2, <3>3, <3>4, <3>5
  <2> QED
    BY <2>4, <2>5 DEF PoolInv
<1> QED
  BY <1>4, <1>5, <1>6, <1>7, <1>8, <1>9, <1>10, <1>11, <1>12

(* Enqueue: the queue is the operation's owner. *)
LEMMA EnqueuePoolInv ==
  ASSUME PoolInv, NEW o \in Ops, Enqueue(o)
  PROVE  PoolInv'
<1> USE DEF poolVars, workerVars, loaderVars
<1>1. /\ PoolType /\ Connections /\ Stopping /\ WorkerHolds
      /\ FateTrue /\ FateWhen /\ NoTwice
  BY DEF PoolInv
<1>2. /\ pool = "open" /\ fate[o] = "new" /\ queue' = Append(queue, o)
      /\ fate' = [fate EXCEPT ![o] = "queued"]
      /\ UNCHANGED <<shutdown, pool, at, stage, alive, handle, wpc, operation, token, executed>>
  BY DEF Enqueue, PCQPush
<1>3. queue \in Seq(Ops) /\ ~In(o, queue)
  BY <1>1, <1>2 DEF PoolType, FateTrue
<1>4. Once(queue') /\ \A x : In(x, queue') <=> In(x, queue) \/ x = o
  BY <1>1, <1>2, <1>3, AppendOnce DEF NoTwice
<1>5. /\ fate'[o] = "queued" /\ \A x \in Ops \ {o} : fate'[x] = fate[x]
      /\ fate' \in [Ops -> Fates]
  BY <1>1, <1>2 DEF PoolType, Fates
<1>6. PoolType' /\ Connections' /\ Stopping' /\ WorkerHolds'
  BY <1>1, <1>2, <1>5 DEF PoolType, Connections, Stopping, WorkerHolds
<1>7. FateTrue'
  <2>1. \A c \in Conns : operation[c] # o
    BY <1>1, <1>2, ConstantsAssumption DEF FateTrue
  <2>2. \A x : In(x, executed)' <=> In(x, executed)
    BY <1>2 DEF In
  <2>3. \A x \in Ops : fate'[x] = "queued" <=> In(x, queue')
    BY <1>1, <1>4, <1>5 DEF FateTrue
  <2>4. \A x \in Ops : In(x, executed) => fate'[x] = "executed"
    BY <1>1, <1>2, <1>5 DEF FateTrue
  <2>5. /\ \A c \in Conns : operation[c] # NoOp =>
              fate'[operation[c]] = IF wpc[c] = "exit" THEN "leaked" ELSE "held"
        /\ \A x \in Ops : fate'[x] = "held" =>
              \E c \in Conns : operation[c] = x /\ wpc[c] # "exit"
    BY <1>1, <1>5, <2>1 DEF FateTrue, PoolType
  <2>6. \A x : In(x, queue)' <=> In(x, queue')
    BY DEF In
  <2> QED
    BY <1>2, <2>2, <2>3, <2>4, <2>5, <2>6 DEF FateTrue
<1>8. FateWhen'
  BY <1>1, <1>2, <1>5 DEF FateWhen
<1>9. NoTwice'
  BY <1>1, <1>2, <1>4 DEF NoTwice, Once
<1> QED
  BY <1>6, <1>7, <1>8, <1>9 DEF PoolInv

(* Cancel deletes what is queued; in a pool that was never open, nothing. *)
LEMMA CancelPoolInv ==
  ASSUME PoolInv, CancelQueue
  PROVE  PoolInv'
<1> USE DEF poolVars, workerVars, loaderVars
<1>1. /\ PoolType /\ Connections /\ Stopping /\ WorkerHolds
      /\ FateTrue /\ FateWhen /\ NoTwice
  BY DEF PoolInv
<1>2. /\ pool \in {"closing", "unwinding"} /\ stage' = "join" /\ queue' = <<>> /\ shutdown' = TRUE
      /\ fate' = [o \in Ops |-> IF fate[o] = "queued" THEN "deleted" ELSE fate[o]]
      /\ UNCHANGED <<pool, at, alive, handle, wpc, operation, token, executed>>
  BY DEF CancelQueue, Destroying, PCQCancel
<1>3. /\ fate' \in [Ops -> Fates]
      /\ \A o \in Ops : fate'[o] = IF fate[o] = "queued" THEN "deleted" ELSE fate[o]
  BY <1>1, <1>2 DEF PoolType, Fates
<1>4. \A x : ~In(x, queue)' /\ (In(x, executed)' <=> In(x, executed))
  BY <1>2 DEF In
<1>5. PoolType' /\ Connections' /\ Stopping' /\ WorkerHolds'
  <2>1. queue' \in Seq(Ops) /\ shutdown' \in BOOLEAN
    BY <1>2
  <2> QED
    BY <1>1, <1>2, <1>3, <2>1 DEF PoolType, Connections, Stopping, WorkerHolds
<1>6. FateTrue'
  <2>1. \A o \in Ops : fate'[o] # "queued"
    BY <1>3
  <2>2. ASSUME NEW c \in Conns, operation[c] # NoOp
        PROVE  fate'[operation[c]] = IF wpc[c] = "exit" THEN "leaked" ELSE "held"
    BY <1>1, <1>3, <2>2 DEF FateTrue, PoolType
  <2>3. \A o \in Ops : fate'[o] = "held" => \E c \in Conns : operation[c] = o /\ wpc[c] # "exit"
    BY <1>1, <1>3 DEF FateTrue
  <2>4. \A o \in Ops : In(o, executed) => fate'[o] = "executed"
    BY <1>1, <1>3 DEF FateTrue
  <2> QED
    BY <1>2, <1>4, <2>1, <2>2, <2>3, <2>4 DEF FateTrue
<1>7. FateWhen'
  <2>1. \A o \in Ops : fate'[o] = "deleted" => fate[o] # "new"
    BY <1>3
  <2> QED
    BY <1>1, <1>2, <1>3, <2>1 DEF FateWhen
<1>8. NoTwice'
  BY <1>1, <1>2 DEF NoTwice, Once
<1> QED
  BY <1>5, <1>6, <1>7, <1>8 DEF PoolInv

(* A worker pops an operation, or finds the queue canceled. *)
LEMMA PopPoolInv ==
  ASSUME PoolInv, NEW c \in Conns, WorkerPop(c)
  PROVE  PoolInv'
<1> USE DEF poolVars, loaderVars
<1>1. /\ PoolType /\ Connections /\ Stopping /\ WorkerHolds
      /\ FateTrue /\ FateWhen /\ NoTwice
  BY DEF PoolInv
<1>2. /\ wpc[c] = "pop" /\ wpc' = [wpc EXCEPT ![c] = "check"] /\ operation[c] = NoOp
      /\ UNCHANGED <<shutdown, pool, at, stage, alive, handle, token, executed>>
  BY <1>1 DEF WorkerPop, WorkerHolds, PCQPopItem, PCQPopNothing, pcqVars
<1>3. /\ wpc'[c] = "check" /\ \A d \in Conns \ {c} : wpc'[d] = wpc[d]
      /\ wpc' \in [Conns -> {"pop", "check", "call", "exit"}]
  BY <1>1, <1>2 DEF PoolType
<1>4. CASE PCQPopNothing(c) /\ UNCHANGED <<operation, fate>>
  <2>1. UNCHANGED <<queue, operation, fate>>
    BY <1>4 DEF PCQPopNothing, pcqVars
  <2>2. PoolType' /\ Connections' /\ Stopping' /\ WorkerHolds' /\ FateWhen' /\ NoTwice'
    BY <1>1, <1>2, <1>3, <2>1
    DEF PoolType, Connections, Stopping, WorkerHolds, FateWhen, NoTwice, Once
  <2>3. FateTrue'
    BY <1>1, <1>2, <1>3, <2>1, ConstantsAssumption DEF FateTrue, In
  <2> QED
    BY <2>2, <2>3 DEF PoolInv
<1>5. ASSUME NEW o \in Ops, PCQPopItem(c, o), operation' = [operation EXCEPT ![c] = o],
             fate' = [fate EXCEPT ![o] = "held"]
      PROVE  PoolInv'
  <2>1. queue \in Seq(Ops) /\ queue # <<>> /\ o = Head(queue) /\ queue' = Tail(queue)
    BY <1>1, <1>5 DEF PCQPopItem, PoolType
  <2>2. /\ In(o, queue) /\ Once(queue')
        /\ \A x : In(x, queue') <=> In(x, queue) /\ x # o
    BY <1>1, <2>1, TailOnce DEF NoTwice
  <2>3. fate[o] = "queued" /\ \A d \in Conns : operation[d] # o
    BY <1>1, <2>2, ConstantsAssumption DEF FateTrue
  <2>4. /\ fate'[o] = "held" /\ \A x \in Ops \ {o} : fate'[x] = fate[x]
        /\ fate' \in [Ops -> Fates]
        /\ operation'[c] = o /\ \A d \in Conns \ {c} : operation'[d] = operation[d]
        /\ operation' \in [Conns -> Ops \cup {NoOp}]
        /\ queue' \in Seq(Ops)
    BY <1>1, <1>5, <2>1, HeadTailProperties DEF PoolType, Fates
  <2>5. PoolType' /\ Connections' /\ Stopping'
    BY <1>1, <1>2, <1>3, <2>4 DEF PoolType, Connections, Stopping
  <2>6. WorkerHolds'
    BY <1>1, <1>2, <1>3, <2>4 DEF WorkerHolds
  <2>7. FateTrue'
    <3>1. \A x \in Ops : fate'[x] = "queued" <=> In(x, queue')
      BY <1>1, <2>2, <2>4 DEF FateTrue
    <3>2. \A d \in Conns : operation'[d] # NoOp =>
              fate'[operation'[d]] = IF wpc'[d] = "exit" THEN "leaked" ELSE "held"
      <4>1. ASSUME NEW d \in Conns \ {c}, operation[d] # NoOp
            PROVE  fate'[operation[d]] = IF wpc[d] = "exit" THEN "leaked" ELSE "held"
        <5>1. operation[d] \in Ops \ {o}
          BY <1>1, <2>3, <4>1 DEF PoolType
        <5> QED
          BY <1>1, <2>4, <4>1, <5>1 DEF FateTrue
      <4> QED
        BY <1>3, <2>4, <4>1
    <3>3. ASSUME NEW x \in Ops, fate'[x] = "held"
          PROVE  \E d \in Conns : operation'[d] = x /\ wpc'[d] # "exit"
      <4>1. CASE x = o
        BY <1>3, <2>4, <4>1
      <4>2. CASE x # o
        <5>1. PICK d \in Conns : operation[d] = x /\ wpc[d] # "exit"
          BY <1>1, <2>4, <3>3, <4>2 DEF FateTrue
        <5>2. d # c
          BY <1>2, <5>1, ConstantsAssumption
        <5> QED
          BY <1>3, <2>4, <5>1, <5>2
      <4> QED
        BY <4>1, <4>2
    <3>4. \A x \in Ops : In(x, executed) => fate'[x] = "executed"
      BY <1>1, <2>3, <2>4 DEF FateTrue
    <3>5. \A x : (In(x, queue)' <=> In(x, queue')) /\ (In(x, executed)' <=> In(x, executed))
      BY <1>2 DEF In
    <3> QED
      BY <3>1, <3>2, <3>3, <3>4, <3>5 DEF FateTrue
  <2>8. FateWhen'
    BY <1>1, <1>2, <2>3, <2>4 DEF FateWhen
  <2>9. NoTwice'
    <3>1. Once(queue)' /\ Once(executed)'
      BY <1>1, <1>2, <2>2 DEF NoTwice, Once
    <3>2. \A d, e \in Conns : operation'[d] # NoOp /\ operation'[d] = operation'[e] => d = e
      BY <1>1, <2>3, <2>4 DEF NoTwice
    <3> QED
      BY <3>1, <3>2 DEF NoTwice
  <2> QED
    BY <2>5, <2>6, <2>7, <2>8, <2>9 DEF PoolInv
<1> QED
  BY <1>4, <1>5 DEF WorkerPop

(* A worker that is told to stop leaks what it popped, which it can only have
   popped from an open pool. *)
LEMMA ExitPoolInv ==
  ASSUME PoolInv, NEW c \in Conns, WorkerExit(c)
  PROVE  PoolInv'
<1> USE DEF pcqVars, poolVars, loaderVars
<1>1. /\ PoolType /\ Connections /\ Stopping /\ WorkerHolds
      /\ FateTrue /\ FateWhen /\ NoTwice
  BY DEF PoolInv
<1>2. /\ wpc[c] = "check" /\ wpc' = [wpc EXCEPT ![c] = "exit"]
      /\ token[c] \/ operation[c] = NoOp
      /\ fate' = [o \in Ops |-> IF o = operation[c] THEN "leaked" ELSE fate[o]]
      /\ UNCHANGED <<queue, shutdown, pool, at, stage, alive, handle, operation, token, executed>>
  BY DEF WorkerExit
<1>3. /\ wpc'[c] = "exit" /\ \A d \in Conns \ {c} : wpc'[d] = wpc[d]
      /\ wpc' \in [Conns -> {"pop", "check", "call", "exit"}]
      /\ fate' \in [Ops -> Fates]
      /\ \A o \in Ops : fate'[o] = IF o = operation[c] THEN "leaked" ELSE fate[o]
  BY <1>1, <1>2 DEF PoolType, Fates
<1>4. operation[c] # NoOp => operation[c] \in Ops /\ fate[operation[c]] = "held"
  BY <1>1, <1>2 DEF FateTrue, PoolType
<1>5. operation[c] # NoOp => pool = "closing"
  BY <1>1, <1>2, <1>4 DEF WorkerHolds, Stopping, FateWhen
<1>6. PoolType' /\ Connections' /\ Stopping' /\ WorkerHolds'
  BY <1>1, <1>2, <1>3 DEF PoolType, Connections, Stopping, WorkerHolds
<1>7. FateTrue'
  <2>1. \A o \in Ops : fate'[o] = "queued" <=> In(o, queue)
    BY <1>1, <1>3, <1>4, ConstantsAssumption DEF FateTrue
  <2>2. ASSUME NEW d \in Conns, operation[d] # NoOp
        PROVE  fate'[operation[d]] = IF wpc'[d] = "exit" THEN "leaked" ELSE "held"
    <3>1. CASE d = c
      BY <1>3, <1>4, <2>2, <3>1
    <3>2. CASE d # c
      <4>1. operation[d] # operation[c] /\ operation[d] \in Ops
        BY <1>1, <2>2, <3>2 DEF NoTwice, PoolType
      <4> QED
        BY <1>1, <1>3, <2>2, <3>2, <4>1 DEF FateTrue
    <3> QED
      BY <3>1, <3>2
  <2>3. ASSUME NEW o \in Ops, fate'[o] = "held"
        PROVE  \E d \in Conns : operation[d] = o /\ wpc'[d] # "exit"
    <3>1. o # operation[c] /\ fate[o] = "held"
      BY <1>3, <2>3
    <3>2. PICK d \in Conns : operation[d] = o /\ wpc[d] # "exit"
      BY <1>1, <3>1 DEF FateTrue
    <3> QED
      BY <1>3, <3>1, <3>2
  <2>4. \A o \in Ops : In(o, executed) => fate'[o] = "executed"
    BY <1>1, <1>3, <1>4, ConstantsAssumption DEF FateTrue
  <2>5. \A x : (In(x, queue)' <=> In(x, queue)) /\ (In(x, executed)' <=> In(x, executed))
    BY <1>2 DEF In
  <2> QED
    BY <1>2, <2>1, <2>2, <2>3, <2>4, <2>5 DEF FateTrue
<1>8. FateWhen'
  BY <1>1, <1>2, <1>3, <1>5, ConstantsAssumption DEF FateWhen
<1>9. NoTwice'
  BY <1>1, <1>2 DEF NoTwice, Once
<1> QED
  BY <1>6, <1>7, <1>8, <1>9 DEF PoolInv

(* A worker executes the operation it holds. *)
LEMMA ExecutePoolInv ==
  ASSUME PoolInv, NEW c \in Conns, WorkerCall(c) \/ WorkerDone(c)
  PROVE  PoolInv'
<1> USE DEF pcqVars, poolVars, loaderVars, opVars
<1>1. /\ PoolType /\ Connections /\ Stopping /\ WorkerHolds
      /\ FateTrue /\ FateWhen /\ NoTwice
  BY DEF PoolInv
<1>2. /\ wpc[c] \in {"check", "call"} /\ operation[c] # NoOp
      /\ UNCHANGED <<queue, shutdown, pool, at, stage, alive, handle, token>>
  BY <1>1 DEF WorkerCall, WorkerDone, WorkerHolds
<1>3. operation[c] \in Ops /\ fate[operation[c]] = "held" /\ c \in alive
  BY <1>1, <1>2 DEF FateTrue, PoolType, WorkerHolds
<1>4. c \in handle
  BY <1>1, <1>3 DEF FateWhen, Connections
<1>5. CASE WorkerCall(c)
  <2>1. /\ wpc'[c] = "call" /\ \A d \in Conns \ {c} : wpc'[d] = wpc[d]
        /\ wpc' \in [Conns -> {"pop", "check", "call", "exit"}]
        /\ UNCHANGED <<operation, fate, executed>>
    BY <1>1, <1>5 DEF WorkerCall, PoolType
  <2>2. PoolType' /\ Connections' /\ Stopping' /\ WorkerHolds' /\ FateWhen' /\ NoTwice'
    BY <1>1, <1>2, <1>3, <1>4, <2>1
    DEF PoolType, Connections, Stopping, WorkerHolds, FateWhen, NoTwice, Once
  <2>3. FateTrue'
    BY <1>1, <1>2, <2>1 DEF FateTrue, In
  <2> QED
    BY <2>2, <2>3 DEF PoolInv
<1>6. CASE WorkerDone(c)
  <2>0. PICK o \in Ops : o = operation[c]
    BY <1>3
  <2>1. /\ wpc'[c] = "pop" /\ \A d \in Conns \ {c} : wpc'[d] = wpc[d]
        /\ wpc' \in [Conns -> {"pop", "check", "call", "exit"}]
        /\ operation'[c] = NoOp /\ \A d \in Conns \ {c} : operation'[d] = operation[d]
        /\ operation' \in [Conns -> Ops \cup {NoOp}]
        /\ fate'[o] = "executed" /\ \A x \in Ops \ {o} : fate'[x] = fate[x]
        /\ fate' \in [Ops -> Fates]
        /\ executed' = Append(executed, o)
    BY <1>1, <1>3, <1>6, <2>0 DEF WorkerDone, PoolType, Fates
  <2>2. executed \in Seq(Ops) /\ ~In(o, executed)
    BY <1>1, <1>3, <2>0 DEF PoolType, FateTrue
  <2>3. Once(executed') /\ \A x : In(x, executed') <=> In(x, executed) \/ x = o
    BY <1>1, <2>0, <2>1, <2>2, AppendOnce DEF NoTwice
  <2>4. \A d \in Conns \ {c} : operation[d] # o
    BY <1>1, <1>2, <2>0 DEF NoTwice
  <2>5. PoolType' /\ Connections' /\ Stopping' /\ WorkerHolds'
    BY <1>1, <1>2, <1>3, <2>1, <2>2 DEF PoolType, Connections, Stopping, WorkerHolds
  <2>6. FateTrue'
    <3>1. \A x \in Ops : fate'[x] = "queued" <=> In(x, queue)
      BY <1>1, <1>3, <2>0, <2>1 DEF FateTrue
    <3>2. ASSUME NEW d \in Conns, operation'[d] # NoOp
          PROVE  fate'[operation'[d]] = IF wpc'[d] = "exit" THEN "leaked" ELSE "held"
      <4>1. d # c
        BY <2>1, <3>2
      <4>2. operation'[d] = operation[d] /\ operation[d] \in Ops \ {o} /\ wpc'[d] = wpc[d]
        BY <1>1, <2>1, <2>4, <3>2, <4>1 DEF PoolType
      <4> QED
        BY <1>1, <2>1, <3>2, <4>2 DEF FateTrue
    <3>3. ASSUME NEW x \in Ops, fate'[x] = "held"
          PROVE  \E d \in Conns : operation'[d] = x /\ wpc'[d] # "exit"
      <4>1. x # o /\ fate[x] = "held"
        BY <2>1, <3>3
      <4>2. PICK d \in Conns : operation[d] = x /\ wpc[d] # "exit"
        BY <1>1, <4>1 DEF FateTrue
      <4>3. d # c
        BY <2>0, <4>1, <4>2
      <4> QED
        BY <2>1, <4>2, <4>3
    <3>4. \A x \in Ops : In(x, executed') => fate'[x] = "executed"
      BY <1>1, <2>1, <2>3 DEF FateTrue
    <3>5. \A x : (In(x, queue)' <=> In(x, queue)) /\ (In(x, executed)' <=> In(x, executed'))
      BY <1>2 DEF In
    <3> QED
      BY <3>1, <3>2, <3>3, <3>4, <3>5 DEF FateTrue
  <2>7. FateWhen'
    BY <1>1, <1>2, <1>3, <2>0, <2>1 DEF FateWhen
  <2>8. NoTwice'
    <3>1. \A d, e \in Conns : operation'[d] # NoOp /\ operation'[d] = operation'[e] => d = e
      BY <1>1, <2>1 DEF NoTwice
    <3> QED
      BY <1>1, <1>2, <2>3, <3>1 DEF NoTwice, Once
  <2> QED
    BY <2>5, <2>6, <2>7, <2>8 DEF PoolInv
<1> QED
  BY <1>5, <1>6

LEMMA NextPoolInv ==
  ASSUME PoolInv, [Next]_vars
  PROVE  PoolInv'
<1>1. ASSUME UNCHANGED <<queue, shutdown, poolVars, workerVars, loaderVars, opVars>>
      PROVE  PoolInv'
  BY <1>1 DEF poolVars, workerVars, loaderVars, opVars, PoolInv, PoolType, Connections,
     Stopping, WorkerHolds, FateTrue, FateWhen, NoTwice, In, Once
<1>2. CASE UNCHANGED vars
  BY <1>1, <1>2 DEF vars, pcqVars
<1>3. ASSUME NEW c \in Conns, WorkerBlock(c) \/ WorkerSpurious(c) PROVE PoolInv'
  BY <1>1, <1>3 DEF WorkerBlock, WorkerSpurious, PCQBlock, PCQSpurious
<1> QED
  BY <1>2, <1>3, OpenPoolInv, EnqueuePoolInv, CancelPoolInv, PopPoolInv, ExitPoolInv,
     ExecutePoolInv
  DEF Next, MainStep, WorkerStep, Environment, Terminated

(* Every step of QueryCallbacks is one of the pool's, or leaves it alone. *)
LEMMA QCStepOfPool ==
  ASSUME [QCNext]_allVars
  PROVE  [Next]_vars
BY DEF QCNext, OwnerStep, BeginProcess, NotReady, InvokeIfReady, EndProcess, DeleteOwner,
   AddQuery, PoolStep, CloseDB, Next, Environment, allVars

-----------------------------------------------------------------------------
(* The invariant of the pool holds in every reachable state, of the pool alone
   and of the pool with the callbacks. *)
THEOREM PoolInvariance == (Spec => []PoolInv) /\ (QCSpec => []PoolInv)
<1>1. Init => PoolInv
  BY InitPoolInv
<1>2. PoolInv /\ [Next]_vars => PoolInv'
  BY NextPoolInv
<1>3. Spec => []PoolInv
  BY <1>1, <1>2, PTL DEF Spec
<1>4. QCInit => Init
  BY DEF QCInit
<1>5. [QCNext]_allVars => [Next]_vars
  BY QCStepOfPool
<1>6. QCSpec => []PoolInv
  BY <1>1, <1>2, <1>4, <1>5, PTL DEF QCSpec
<1> QED
  BY <1>3, <1>6

(* No worker outlives its MySQLConnection or executes on a connection that is
   not open, although Close is called while workers are busy and a worker starts
   before its connection is open. *)
THEOREM WorkerHasConnectionCorrect == QCSpec => []WorkerHasConnection
<1>1. PoolInv => WorkerHasConnection
  BY DEF PoolInv, WorkerHolds, WorkerHasConnection
<1> QED
  BY <1>1, PoolInvariance, PTL

(* An SQLOperation is owned by the queue or by one worker, is executed at most
   once, and is dropped only by a pool that is being closed. *)
THEOREM OneOwnerCorrect == QCSpec => []OneOwner
<1>1. PoolInv => OneOwner
  <2> SUFFICES ASSUME PoolInv PROVE OneOwner
    OBVIOUS
  <2>1. PoolType /\ Stopping /\ FateTrue /\ FateWhen /\ NoTwice
    BY DEF PoolInv
  <2>2. \A o \in Ops : fate[o] = "held" <=>
          \E c \in Conns : operation[c] = o /\ wpc[c] # "exit"
    BY <2>1, ConstantsAssumption DEF FateTrue
  <2>3. \A o \in Ops : fate[o] \in {"deleted", "leaked"} => shutdown \/ pool = "closing"
    BY <2>1 DEF FateWhen, Stopping
  <2>4. \A o \in Ops : fate[o] = "queued" <=> \E n \in 1..Len(queue) : queue[n] = o
    BY <2>1 DEF FateTrue, In
  <2> QED
    BY <2>1, <2>2, <2>3, <2>4 DEF NoTwice, Once, OneOwner
<1> QED
  BY <1>1, PoolInvariance, PTL

-----------------------------------------------------------------------------
(* The operations that the queries of a list wait for, and that no two of them
   wait for the same. *)
OpsOf(s) == {s[i].op : i \in 1..Len(s)}

Distinct(s) == \A i, j \in 1..Len(s) : s[i].op = s[j].op => i = j

(* The lists of a processor. *)
Lists ==
    /\ callbacks \in Seq(QueryCallback)
    /\ update \in Seq(QueryCallback)
    /\ kept \in Seq(QueryCallback)
    /\ processing \in BOOLEAN /\ owner \in BOOLEAN
    /\ ~processing => update = <<>> /\ kept = <<>>
    /\ processing => owner
    /\ pool \in {"closing", "stopped"} => ~owner

(* No two queries hold the same future. *)
OneFuture ==
    /\ Distinct(callbacks) /\ Distinct(update) /\ Distinct(kept)
    /\ OpsOf(callbacks) \cap OpsOf(update) = {}
    /\ OpsOf(callbacks) \cap OpsOf(kept) = {}
    /\ OpsOf(update) \cap OpsOf(kept) = {}

Waiting == OpsOf(callbacks) \cup OpsOf(update) \cup OpsOf(kept)

(* A query waits for an operation that was asked for and whose result was given
   to nobody. *)
Uninvoked ==
    /\ invoked \in [Ops -> {0, 1}]
    /\ \A o \in Ops : invoked[o] = 1 => fate[o] = "executed" /\ o \notin Waiting
    /\ \A o \in Waiting : fate[o] # "new"

QCInv == Lists /\ OneFuture /\ Uninvoked

(* What the queries of a list wait for once one was appended, one taken from the
   front, or two lists were joined. *)
LEMMA AppendOps ==
  ASSUME NEW s \in Seq(QueryCallback), NEW q \in QueryCallback
  PROVE  /\ OpsOf(Append(s, q)) = OpsOf(s) \cup {q.op}
         /\ Distinct(s) /\ q.op \notin OpsOf(s) => Distinct(Append(s, q))
<1> DEFINE t == Append(s, q)
<1>1. /\ Len(s) \in Nat /\ Len(t) = Len(s) + 1 /\ t[Len(s) + 1] = q
      /\ \A i \in 1..Len(s) : t[i] = s[i]
  OBVIOUS
<1> HIDE DEF t
<1>2. 1..Len(t) = 1..Len(s) \cup {Len(s) + 1}
  BY <1>1
<1>3. OpsOf(t) = OpsOf(s) \cup {q.op}
  BY <1>1, <1>2 DEF OpsOf
<1>4. Distinct(s) /\ q.op \notin OpsOf(s) => Distinct(t)
  BY <1>1, <1>2 DEF OpsOf, Distinct
<1> QED
  BY <1>3, <1>4 DEF t

LEMMA TailOps ==
  ASSUME NEW s \in Seq(QueryCallback), s # <<>>, Distinct(s)
  PROVE  /\ Head(s) \in QueryCallback /\ Tail(s) \in Seq(QueryCallback)
         /\ OpsOf(s) = OpsOf(Tail(s)) \cup {Head(s).op}
         /\ Head(s).op \notin OpsOf(Tail(s)) /\ Distinct(Tail(s))
<1> DEFINE t == Tail(s)
<1>1. /\ Len(s) \in Nat \ {0} /\ Len(t) = Len(s) - 1 /\ Head(s) = s[1] /\ s[1] \in QueryCallback
      /\ \A i \in 1..Len(t) : t[i] = s[i + 1] /\ i + 1 \in 1..Len(s)
      /\ t \in Seq(QueryCallback)
  BY HeadTailProperties
<1> HIDE DEF t
<1>2. Distinct(t)
  BY <1>1 DEF Distinct
<1>3. Head(s).op \notin OpsOf(t)
  <2> SUFFICES ASSUME NEW i \in 1..Len(t), t[i].op = Head(s).op PROVE FALSE
    BY DEF OpsOf
  <2>1. s[i + 1].op = s[1].op /\ i + 1 \in 1..Len(s) /\ i + 1 # 1 /\ 1 \in 1..Len(s)
    BY <1>1
  <2> QED
    BY <2>1 DEF Distinct
<1>4. ASSUME NEW o \in OpsOf(s) PROVE o \in OpsOf(t) \cup {Head(s).op}
  <2>1. PICK i \in 1..Len(s) : o = s[i].op
    BY <1>4 DEF OpsOf
  <2>2. CASE i = 1
    BY <1>1, <2>1, <2>2
  <2>3. CASE i # 1
    <3>1. i - 1 \in 1..Len(t) /\ t[i - 1] = s[i]
      BY <1>1, <2>1, <2>3
    <3> QED
      BY <2>1, <3>1 DEF OpsOf
  <2> QED
    BY <2>2, <2>3
<1>5. OpsOf(t) \cup {Head(s).op} \subseteq OpsOf(s)
  BY <1>1 DEF OpsOf
<1> QED
  BY <1>1, <1>2, <1>3, <1>4, <1>5 DEF t

LEMMA ConcatOps ==
  ASSUME NEW s \in Seq(QueryCallback), NEW t \in Seq(QueryCallback)
  PROVE  /\ s \o t \in Seq(QueryCallback)
         /\ OpsOf(s \o t) = OpsOf(s) \cup OpsOf(t)
         /\ Distinct(s) /\ Distinct(t) /\ OpsOf(s) \cap OpsOf(t) = {} => Distinct(s \o t)
<1> DEFINE u == s \o t
<1>1. /\ Len(s) \in Nat /\ Len(t) \in Nat /\ Len(u) = Len(s) + Len(t)
      /\ \A i \in 1..Len(s) : u[i] = s[i] /\ i \in 1..Len(u)
      /\ \A i \in 1..Len(t) : u[Len(s) + i] = t[i] /\ Len(s) + i \in 1..Len(u)
      /\ u \in Seq(QueryCallback)
  BY ConcatProperties
<1> HIDE DEF u
<1>2. ASSUME NEW i \in 1..Len(u), i \notin 1..Len(s)
      PROVE  i - Len(s) \in 1..Len(t) /\ u[i] = t[i - Len(s)]
  <2>1. i - Len(s) \in 1..Len(t) /\ i = Len(s) + (i - Len(s))
    BY <1>1, <1>2
  <2> QED
    BY <1>1, <2>1
<1>3. OpsOf(u) \subseteq OpsOf(s) \cup OpsOf(t)
  <2> SUFFICES ASSUME NEW i \in 1..Len(u) PROVE u[i].op \in OpsOf(s) \cup OpsOf(t)
    BY DEF OpsOf
  <2>1. CASE i \in 1..Len(s)
    BY <1>1, <2>1 DEF OpsOf
  <2>2. CASE i \notin 1..Len(s)
    BY <1>2, <2>2 DEF OpsOf
  <2> QED
    BY <2>1, <2>2
<1>4. OpsOf(s) \subseteq OpsOf(u) /\ OpsOf(t) \subseteq OpsOf(u)
  BY <1>1 DEF OpsOf
<1>5. ASSUME Distinct(s), Distinct(t), OpsOf(s) \cap OpsOf(t) = {} PROVE Distinct(u)
  <2> SUFFICES ASSUME NEW i \in 1..Len(u), NEW j \in 1..Len(u), u[i].op = u[j].op PROVE i = j
    BY DEF Distinct
  <2>1. CASE i \in 1..Len(s) /\ j \in 1..Len(s)
    BY <1>1, <1>5, <2>1 DEF Distinct
  <2>2. CASE i \notin 1..Len(s) /\ j \notin 1..Len(s)
    <3>1. /\ i - Len(s) \in 1..Len(t) /\ j - Len(s) \in 1..Len(t)
          /\ u[i] = t[i - Len(s)] /\ u[j] = t[j - Len(s)]
      BY <1>2, <2>2
    <3>2. i - Len(s) = j - Len(s)
      BY <1>5, <3>1 DEF Distinct
    <3> QED
      BY <1>1, <3>2
  <2>3. CASE i \in 1..Len(s) /\ j \notin 1..Len(s)
    <3>1. u[i].op \in OpsOf(s) /\ u[j].op \in OpsOf(t)
      BY <1>1, <1>2, <2>3 DEF OpsOf
    <3> QED
      BY <1>5, <3>1
  <2>4. CASE i \notin 1..Len(s) /\ j \in 1..Len(s)
    <3>1. u[i].op \in OpsOf(t) /\ u[j].op \in OpsOf(s)
      BY <1>1, <1>2, <2>4 DEF OpsOf
    <3> QED
      BY <1>5, <3>1
  <2> QED
    BY <2>1, <2>2, <2>3, <2>4
<1> QED
  BY <1>1, <1>3, <1>4, <1>5 DEF u

LEMMA EmptyOps == <<>> \in Seq(QueryCallback) /\ OpsOf(<<>>) = {} /\ Distinct(<<>>)
<1>1. <<>> \in Seq(QueryCallback) /\ Len(<<>>) = 0
  OBVIOUS
<1> QED
  BY <1>1 DEF OpsOf, Distinct

LEMMA OpsAreOps ==
  ASSUME Lists
  PROVE  Waiting \subseteq Ops
<1>1. ASSUME NEW s \in Seq(QueryCallback) PROVE OpsOf(s) \subseteq Ops
  <2>1. \A i \in 1..Len(s) : s[i] \in QueryCallback
    BY <1>1
  <2> QED
    BY <2>1 DEF OpsOf, QueryCallback
<1> QED
  BY <1>1 DEF Lists, Waiting

-----------------------------------------------------------------------------
LEMMA InitQCInv ==
  ASSUME QCInit
  PROVE  QCInv
<1>1. /\ callbacks = <<>> /\ update = <<>> /\ kept = <<>> /\ processing = FALSE
      /\ owner = TRUE /\ invoked = [o \in Ops |-> 0] /\ pool = "closed"
  BY DEF QCInit, Init
<1>2. Lists
  BY <1>1, EmptyOps DEF Lists
<1>3. OneFuture
  BY <1>1, EmptyOps DEF OneFuture
<1>4. Waiting = {}
  BY <1>1, EmptyOps DEF Waiting
<1>5. Uninvoked
  BY <1>1, <1>4 DEF Uninvoked
<1> QED
  BY <1>2, <1>3, <1>5 DEF QCInv

(* A step of the pool: what was executed stays executed, and the pool is closed
   only when its owner is gone. *)
LEMMA PoolStepQCInv ==
  ASSUME QCInv, PoolInv, PoolStep, UNCHANGED qcVars
  PROVE  QCInv'
<1> USE DEF qcVars
<1>1. /\ Lists /\ OneFuture /\ Uninvoked /\ Waiting \subseteq Ops
      /\ PoolType /\ WorkerHolds /\ FateTrue /\ FateWhen /\ Connections
  BY OpsAreOps DEF QCInv, PoolInv
<1>2. \A o \in Ops : /\ fate[o] = "executed" => fate'[o] = "executed"
                     /\ fate[o] # "new" => fate'[o] # "new"
  <2>1. ASSUME UNCHANGED fate PROVE \A o \in Ops : fate'[o] = fate[o]
    BY <2>1
  <2>2. CASE MainStep
    <3>1. CASE CancelQueue
      BY <1>1, <3>1 DEF CancelQueue, PoolType
    <3> QED
      BY <2>1, <2>2, <3>1 DEF MainStep, BeginOpen, CreateConnection, OpenOk, LoaderRetries,
         LoaderGivesUp, SetToken, JoinWorker, opVars
  <2>3. CASE OpenFails \/ CloseDB \/ Terminated
    BY <2>1, <2>3 DEF OpenFails, CloseDB, BeginClose, Terminated, vars, opVars
  <2>4. ASSUME NEW o \in Ops, Enqueue(o)
        PROVE  \A x \in Ops : /\ fate[x] = "executed" => fate'[x] = "executed"
                              /\ fate[x] # "new" => fate'[x] # "new"
    BY <1>1, <2>4 DEF Enqueue, PoolType
  <2>5. ASSUME NEW c \in Conns, WorkerStep(c) \/ WorkerSpurious(c)
        PROVE  \A x \in Ops : /\ fate[x] = "executed" => fate'[x] = "executed"
                              /\ fate[x] # "new" => fate'[x] # "new"
    <3>1. CASE WorkerBlock(c) \/ WorkerSpurious(c) \/ WorkerCall(c)
      BY <2>1, <3>1 DEF WorkerBlock, WorkerSpurious, WorkerCall, opVars
    <3>2. CASE WorkerExit(c)
      <4>1. operation[c] \in Ops => fate[operation[c]] = "held"
        BY <1>1, <3>2, ConstantsAssumption DEF WorkerExit, FateTrue
      <4> QED
        BY <1>1, <3>2, <4>1 DEF WorkerExit, PoolType
    <3>3. CASE WorkerDone(c)
      <4>1. operation[c] \in Ops
        BY <1>1, <3>3 DEF WorkerDone, WorkerHolds, PoolType
      <4> QED
        BY <1>1, <3>3, <4>1 DEF WorkerDone, PoolType
    <3>4. CASE WorkerPop(c)
      <4>1. ASSUME NEW o \in Ops, PCQPopItem(c, o), fate' = [fate EXCEPT ![o] = "held"]
            PROVE  \A x \in Ops : /\ fate[x] = "executed" => fate'[x] = "executed"
                                  /\ fate[x] # "new" => fate'[x] # "new"
        <5>1. o = queue[1] /\ 1 \in 1..Len(queue)
          BY <1>1, <4>1 DEF PCQPopItem, PoolType
        <5>2. fate[o] = "queued"
          BY <1>1, <5>1 DEF FateTrue, In
        <5> QED
          BY <1>1, <4>1, <5>2 DEF PoolType
      <4> QED
        BY <2>1, <3>4, <4>1 DEF WorkerPop
    <3> QED
      BY <2>5, <3>1, <3>2, <3>3, <3>4 DEF WorkerStep
  <2> QED
    BY <2>2, <2>3, <2>4, <2>5 DEF PoolStep
<1>3. pool' \in {"closing", "stopped"} => ~owner
  <2>1. pool' = pool \/ pool' \notin {"closing", "stopped"} \/ pool = "closing" \/ ~owner
    BY DEF PoolStep, MainStep, WorkerStep, BeginOpen, CreateConnection, OpenOk, LoaderRetries,
       LoaderGivesUp, SetToken, CancelQueue, JoinWorker, Destroying, OpenFails, CloseDB,
       BeginClose, Terminated, Enqueue, WorkerBlock, WorkerPop, WorkerExit, WorkerCall,
       WorkerDone, WorkerSpurious, poolVars, vars
  <2> QED
    BY <1>1, <2>1 DEF Lists
<1>4. Lists' /\ OneFuture'
  <2>1. Lists'
    BY <1>1, <1>3 DEF Lists
  <2>2. /\ OpsOf(callbacks)' = OpsOf(callbacks) /\ OpsOf(update)' = OpsOf(update)
        /\ OpsOf(kept)' = OpsOf(kept)
    BY DEF OpsOf
  <2>3. /\ Distinct(callbacks)' = Distinct(callbacks) /\ Distinct(update)' = Distinct(update)
        /\ Distinct(kept)' = Distinct(kept)
    BY DEF Distinct
  <2>4. OneFuture'
    BY <1>1, <2>2, <2>3 DEF OneFuture
  <2> QED
    BY <2>1, <2>4
<1>5. Waiting' = Waiting
  BY DEF Waiting, OpsOf
<1>6. Uninvoked'
  BY <1>1, <1>2, <1>5 DEF Uninvoked
<1> QED
  BY <1>4, <1>6 DEF QCInv

(* An operation that is asked for is one that no query waits for. *)
LEMMA EnqueueFresh ==
  ASSUME QCInv, PoolInv, NEW o \in Ops, Enqueue(o)
  PROVE  /\ pool = "open" /\ pool' = "open" /\ o \notin Waiting /\ fate'[o] = "queued"
         /\ invoked[o] = 0
         /\ \A x \in Ops \ {o} : fate'[x] = fate[x]
<1>1. pool = "open" /\ fate[o] = "new" /\ fate' = [fate EXCEPT ![o] = "queued"] /\ pool' = pool
  BY DEF Enqueue, poolVars
<1>2. fate \in [Ops -> Fates]
  BY DEF PoolInv, PoolType
<1> QED
  BY <1>1, <1>2 DEF QCInv, Uninvoked

LEMMA AddQueryQCInv ==
  ASSUME QCInv, PoolInv, NEW o \in Ops, NEW n \in 1..MaxChain, AddQuery(o, n)
  PROVE  QCInv'
<1>1. Lists /\ OneFuture /\ Uninvoked /\ Waiting \subseteq Ops
  BY OpsAreOps DEF QCInv
<1>2. /\ Enqueue(o) /\ owner /\ ~processing
      /\ callbacks' = Append(callbacks, [op |-> o, left |-> n])
      /\ UNCHANGED <<update, kept, processing, owner, invoked>>
  BY DEF AddQuery
<1>3. [op |-> o, left |-> n] \in QueryCallback /\ [op |-> o, left |-> n].op = o
  BY DEF QueryCallback
<1>4. /\ OpsOf(callbacks') = OpsOf(callbacks) \cup {o} /\ Distinct(callbacks')
      /\ callbacks' \in Seq(QueryCallback)
  BY <1>1, <1>2, <1>3, EnqueueFresh, AppendOps DEF Lists, OneFuture, Waiting
<1>5. OpsOf(update)' = OpsOf(update) /\ OpsOf(kept)' = OpsOf(kept) /\ OpsOf(callbacks)' = OpsOf(callbacks')
  BY <1>2 DEF OpsOf
<1>6. Distinct(update)' /\ Distinct(kept)' /\ Distinct(callbacks)'
  BY <1>1, <1>2, <1>4 DEF OneFuture, Distinct
<1>7. Lists'
  BY <1>1, <1>2, <1>4, EnqueueFresh DEF Lists
<1>8. OneFuture'
  BY <1>1, <1>2, <1>4, <1>5, <1>6, EnqueueFresh DEF OneFuture, Waiting
<1>9. Waiting' = Waiting \cup {o}
  BY <1>4, <1>5 DEF Waiting
<1>10. Uninvoked'
  BY <1>1, <1>2, <1>9, EnqueueFresh DEF Uninvoked
<1> QED
  BY <1>7, <1>8, <1>10 DEF QCInv

(* ProcessReadyQueries takes the list away: the queries only move. *)
LEMMA BeginProcessQCInv ==
  ASSUME QCInv, PoolInv, BeginProcess
  PROVE  QCInv'
<1>1. Lists /\ OneFuture /\ Uninvoked
  BY DEF QCInv
<1>2. /\ owner /\ update = <<>> /\ kept = <<>>
      /\ update' = callbacks /\ callbacks' = <<>> /\ kept' = <<>> /\ processing' = TRUE
      /\ owner' = owner /\ invoked' = invoked /\ fate' = fate /\ pool' = pool
  BY <1>1 DEF BeginProcess, Lists, vars, poolVars, opVars
<1>3. /\ OpsOf(update)' = OpsOf(callbacks) /\ OpsOf(callbacks)' = {} /\ OpsOf(kept)' = {}
      /\ OpsOf(update) = {} /\ OpsOf(kept) = {}
      /\ Distinct(update)' = Distinct(callbacks) /\ Distinct(callbacks)' /\ Distinct(kept)'
  BY <1>2, EmptyOps DEF OpsOf, Distinct
<1>4. Lists'
  BY <1>1, <1>2, EmptyOps DEF Lists
<1>5. OneFuture'
  BY <1>1, <1>3 DEF OneFuture
<1>6. Waiting' = Waiting
  BY <1>3 DEF Waiting
<1>7. Uninvoked'
  BY <1>1, <1>2, <1>6 DEF Uninvoked
<1> QED
  BY <1>4, <1>5, <1>7 DEF QCInv

(* The first query of the list is not ready: it stays. *)
LEMMA NotReadyQCInv ==
  ASSUME QCInv, PoolInv, NotReady
  PROVE  QCInv'
<1>1. Lists /\ OneFuture /\ Uninvoked
  BY DEF QCInv
<1>2. /\ processing /\ update # <<>>
      /\ kept' = Append(kept, Head(update)) /\ update' = Tail(update)
      /\ callbacks' = callbacks /\ processing' = processing
      /\ owner' = owner /\ invoked' = invoked /\ fate' = fate /\ pool' = pool
  BY DEF NotReady, vars, poolVars, opVars
<1>3. /\ Head(update) \in QueryCallback /\ update' \in Seq(QueryCallback)
      /\ OpsOf(update) = OpsOf(update)' \cup {Head(update).op}
      /\ Head(update).op \notin OpsOf(update)' /\ Distinct(update)'
  BY <1>1, <1>2, TailOps DEF Lists, OneFuture
<1>4. /\ kept' \in Seq(QueryCallback)
      /\ OpsOf(kept)' = OpsOf(kept) \cup {Head(update).op} /\ Distinct(kept)'
  BY <1>1, <1>2, <1>3, AppendOps DEF Lists, OneFuture
<1>5. OpsOf(callbacks)' = OpsOf(callbacks) /\ Distinct(callbacks)' = Distinct(callbacks)
  BY <1>2 DEF OpsOf, Distinct
<1>6. Lists'
  BY <1>1, <1>2, <1>3, <1>4 DEF Lists
<1>7. OneFuture'
  BY <1>1, <1>3, <1>4, <1>5 DEF OneFuture
<1>8. Waiting' = Waiting
  BY <1>3, <1>4, <1>5 DEF Waiting
<1>9. Uninvoked'
  BY <1>1, <1>2, <1>8 DEF Uninvoked
<1> QED
  BY <1>6, <1>7, <1>9 DEF QCInv

(* The callback of a ready query is called: the query no longer waits for the
   operation, which was executed, and what the callback asks for is new. *)
LEMMA InvokeIfReadyQCInv ==
  ASSUME QCInv, PoolInv, InvokeIfReady
  PROVE  QCInv'
<1> DEFINE q == Head(update)
           Nothing == UNCHANGED <<vars, kept, callbacks>>
           NextStep(o) == /\ Enqueue(o) /\ q.left > 1
                          /\ kept' = Append(kept, [op |-> o, left |-> q.left - 1])
                          /\ UNCHANGED callbacks
           Another(o, n) == /\ Enqueue(o)
                            /\ callbacks' = Append(callbacks, [op |-> o, left |-> n])
                            /\ UNCHANGED kept
<1>1. Lists /\ OneFuture /\ Uninvoked /\ Waiting \subseteq Ops
  BY OpsAreOps DEF QCInv
<1>2. /\ processing /\ update # <<>> /\ Ready(q.op)
      /\ invoked' = [invoked EXCEPT ![q.op] = @ + 1]
      /\ update' = Tail(update) /\ processing' = processing /\ owner' = owner
  BY DEF InvokeIfReady
<1>3. /\ q \in QueryCallback /\ update' \in Seq(QueryCallback)
      /\ OpsOf(update) = OpsOf(update)' \cup {q.op}
      /\ q.op \notin OpsOf(update)' /\ Distinct(update)'
  BY <1>1, <1>2, TailOps DEF Lists, OneFuture
<1>4. q.op \in Ops /\ q.op \in Waiting /\ q.left \in 1..MaxChain
  BY <1>3 DEF QueryCallback, Waiting
<1>5. owner /\ pool \notin {"closing", "stopped"}
  BY <1>1, <1>2 DEF Lists
<1>6. fate[q.op] = "executed"
  BY <1>2, <1>4, <1>5 DEF Ready, PoolInv, FateWhen
<1>7. /\ invoked' \in [Ops -> {0, 1}] /\ invoked'[q.op] = 1
      /\ \A o \in Ops \ {q.op} : invoked'[o] = invoked[o]
  <2>1. invoked[q.op] = 0
    BY <1>1, <1>4 DEF Uninvoked
  <2> QED
    BY <1>1, <1>2, <1>4, <2>1 DEF Uninvoked
<1>8. q.op \notin OpsOf(callbacks) /\ q.op \notin OpsOf(kept)
  BY <1>1, <1>3 DEF OneFuture
<1> HIDE DEF q
<1>9. CASE Nothing
  <2>1. kept' = kept /\ callbacks' = callbacks /\ fate' = fate /\ pool' = pool
    BY <1>9 DEF vars, poolVars, opVars
  <2>2. /\ OpsOf(callbacks)' = OpsOf(callbacks) /\ Distinct(callbacks)' = Distinct(callbacks)
        /\ OpsOf(kept)' = OpsOf(kept) /\ Distinct(kept)' = Distinct(kept)
    BY <2>1 DEF OpsOf, Distinct
  <2>3. Lists'
    BY <1>1, <1>2, <1>3, <2>1 DEF Lists
  <2>4. OneFuture'
    BY <1>1, <1>3, <2>2 DEF OneFuture
  <2>5. Waiting' \subseteq Waiting /\ q.op \notin Waiting'
    BY <1>3, <1>8, <2>2 DEF Waiting
  <2>6. Uninvoked'
    BY <1>1, <1>6, <1>7, <2>1, <2>5 DEF Uninvoked
  <2> QED
    BY <2>3, <2>4, <2>6 DEF QCInv
<1>10. ASSUME NEW o \in Ops, Enqueue(o) PROVE
          /\ pool' = "open" /\ o \notin Waiting /\ o # q.op /\ fate'[o] = "queued"
          /\ invoked'[o] = 0 /\ fate'[q.op] = "executed"
          /\ \A x \in Ops \ {o} : fate'[x] = fate[x]
  BY <1>4, <1>6, <1>7, <1>10, EnqueueFresh
<1>11. ASSUME NEW o \in Ops, NextStep(o) PROVE QCInv'
  <2>1. [op |-> o, left |-> q.left - 1] \in QueryCallback
    BY <1>4, <1>11, ChainAssumption DEF QueryCallback
  <2>2. /\ kept' \in Seq(QueryCallback)
        /\ OpsOf(kept)' = OpsOf(kept) \cup {o} /\ Distinct(kept)'
    BY <1>1, <1>10, <1>11, <2>1, AppendOps DEF Lists, OneFuture, Waiting
  <2>3. OpsOf(callbacks)' = OpsOf(callbacks) /\ Distinct(callbacks)' = Distinct(callbacks)
    BY <1>11 DEF OpsOf, Distinct
  <2>4. Lists'
    BY <1>1, <1>2, <1>3, <1>10, <1>11, <2>2 DEF Lists
  <2>5. OneFuture'
    BY <1>1, <1>3, <1>10, <1>11, <2>2, <2>3 DEF OneFuture, Waiting
  <2>6. Waiting' \subseteq Waiting \cup {o} /\ q.op \notin Waiting'
    BY <1>3, <1>8, <1>10, <1>11, <2>2, <2>3 DEF Waiting
  <2>7. Uninvoked'
    BY <1>1, <1>6, <1>7, <1>10, <1>11, <2>6 DEF Uninvoked
  <2> QED
    BY <2>4, <2>5, <2>7 DEF QCInv
<1>12. ASSUME NEW o \in Ops, NEW n \in 1..MaxChain, Another(o, n) PROVE QCInv'
  <2>1. [op |-> o, left |-> n] \in QueryCallback
    BY DEF QueryCallback
  <2>2. /\ callbacks' \in Seq(QueryCallback)
        /\ OpsOf(callbacks)' = OpsOf(callbacks) \cup {o} /\ Distinct(callbacks)'
    BY <1>1, <1>10, <1>12, <2>1, AppendOps DEF Lists, OneFuture, Waiting
  <2>3. OpsOf(kept)' = OpsOf(kept) /\ Distinct(kept)' = Distinct(kept)
    BY <1>12 DEF OpsOf, Distinct
  <2>4. Lists'
    BY <1>1, <1>2, <1>3, <1>10, <1>12, <2>2 DEF Lists
  <2>5. OneFuture'
    BY <1>1, <1>3, <1>10, <1>12, <2>2, <2>3 DEF OneFuture, Waiting
  <2>6. Waiting' \subseteq Waiting \cup {o} /\ q.op \notin Waiting'
    BY <1>3, <1>8, <1>10, <1>12, <2>2, <2>3 DEF Waiting
  <2>7. Uninvoked'
    BY <1>1, <1>6, <1>7, <1>10, <1>12, <2>6 DEF Uninvoked
  <2> QED
    BY <2>4, <2>5, <2>7 DEF QCInv
<1> QED
  BY <1>9, <1>11, <1>12 DEF InvokeIfReady, q

(* ProcessReadyQueries puts what stays behind what was added. *)
LEMMA EndProcessQCInv ==
  ASSUME QCInv, PoolInv, EndProcess
  PROVE  QCInv'
<1>1. Lists /\ OneFuture /\ Uninvoked
  BY DEF QCInv
<1>2. /\ update = <<>> /\ update' = <<>> /\ kept' = <<>> /\ callbacks' = callbacks \o kept
      /\ processing' = FALSE
      /\ owner' = owner /\ invoked' = invoked /\ fate' = fate /\ pool' = pool
  BY DEF EndProcess, vars, poolVars, opVars
<1>3. /\ callbacks' \in Seq(QueryCallback) /\ Distinct(callbacks)'
      /\ OpsOf(callbacks)' = OpsOf(callbacks) \cup OpsOf(kept)
  BY <1>1, <1>2, ConcatOps DEF Lists, OneFuture
<1>4. /\ OpsOf(update)' = {} /\ OpsOf(kept)' = {} /\ OpsOf(update) = {}
      /\ Distinct(update)' /\ Distinct(kept)'
  BY <1>2, EmptyOps DEF OpsOf, Distinct
<1>5. Lists'
  BY <1>1, <1>2, <1>3, EmptyOps DEF Lists
<1>6. OneFuture'
  BY <1>1, <1>3, <1>4 DEF OneFuture
<1>7. Waiting' = Waiting
  BY <1>3, <1>4 DEF Waiting
<1>8. Uninvoked'
  BY <1>1, <1>2, <1>7 DEF Uninvoked
<1> QED
  BY <1>5, <1>6, <1>8 DEF QCInv

LEMMA DeleteOwnerQCInv ==
  ASSUME QCInv, PoolInv, DeleteOwner
  PROVE  QCInv'
<1>1. Lists /\ OneFuture /\ Uninvoked
  BY DEF QCInv
<1>2. /\ ~processing /\ callbacks' = <<>> /\ owner' = FALSE /\ update' = update /\ kept' = kept
      /\ processing' = processing /\ invoked' = invoked /\ fate' = fate /\ pool' = pool
  BY DEF DeleteOwner, vars, poolVars, opVars
<1>3. update = <<>> /\ kept = <<>>
  BY <1>1, <1>2 DEF Lists
<1>4. /\ OpsOf(callbacks)' = {} /\ OpsOf(update)' = {} /\ OpsOf(kept)' = {}
      /\ Distinct(callbacks)' /\ Distinct(update)' /\ Distinct(kept)'
  BY <1>2, <1>3, EmptyOps DEF OpsOf, Distinct
<1>5. Lists'
  BY <1>1, <1>2, <1>3, EmptyOps DEF Lists
<1>6. OneFuture' /\ Waiting' = {}
  BY <1>4 DEF OneFuture, Waiting
<1>7. Uninvoked'
  BY <1>1, <1>2, <1>6 DEF Uninvoked
<1> QED
  BY <1>5, <1>6, <1>7 DEF QCInv

LEMMA StutterQCInv ==
  ASSUME QCInv, UNCHANGED allVars
  PROVE  QCInv'
<1>1. UNCHANGED <<callbacks, update, kept, processing, owner, invoked, pool, fate>>
  BY DEF allVars, vars, qcVars, poolVars, opVars
<1>2. /\ OpsOf(callbacks)' = OpsOf(callbacks) /\ OpsOf(update)' = OpsOf(update)
      /\ OpsOf(kept)' = OpsOf(kept)
      /\ Distinct(callbacks)' = Distinct(callbacks) /\ Distinct(update)' = Distinct(update)
      /\ Distinct(kept)' = Distinct(kept)
  BY <1>1 DEF OpsOf, Distinct
<1>3. Lists' /\ OneFuture'
  BY <1>1, <1>2 DEF QCInv, Lists, OneFuture
<1>4. Waiting' = Waiting
  BY <1>2 DEF Waiting
<1>5. Uninvoked'
  BY <1>1, <1>4 DEF QCInv, Uninvoked
<1> QED
  BY <1>3, <1>5 DEF QCInv

(* The invariant of the processor holds in every reachable state. *)
THEOREM QCInvariance == QCSpec => []QCInv
<1>1. QCInit => QCInv
  BY InitQCInv
<1>2. ASSUME QCInv, PoolInv, [QCNext]_allVars PROVE QCInv'
  BY <1>2, BeginProcessQCInv, NotReadyQCInv, InvokeIfReadyQCInv, EndProcessQCInv,
     DeleteOwnerQCInv, AddQueryQCInv, PoolStepQCInv, StutterQCInv DEF QCNext, OwnerStep
<1>3. QCInv /\ PoolInv /\ [QCNext]_allVars => QCInv'
  BY <1>2
<1> QED
  BY <1>1, <1>3, PoolInvariance, PTL DEF QCSpec

(* Every result is given to one callback, of the query that asked for it, and
   only when the query was executed: no two queries hold one future, no callback
   runs twice, and none reads a promise that was deleted, whatever the callbacks
   ask for while ProcessReadyQueries walks through its list. *)
THEOREM CallbackOnceCorrect == QCSpec => []CallbackOnce
<1>1. ASSUME QCInv PROVE CallbackOnce
  <2>1. Lists /\ OneFuture /\ Uninvoked
    BY <1>1 DEF QCInv
  <2>2. /\ callbacks \o update \in Seq(QueryCallback) /\ Distinct(callbacks \o update)
        /\ OpsOf(callbacks \o update) = OpsOf(callbacks) \cup OpsOf(update)
    BY <2>1, ConcatOps DEF Lists, OneFuture
  <2>3. OpsOf(callbacks \o update) \cap OpsOf(kept) = {}
    BY <2>1, <2>2 DEF OneFuture
  <2>4. /\ Held \in Seq(QueryCallback) /\ Distinct(Held)
        /\ OpsOf(Held) = OpsOf(callbacks \o update) \cup OpsOf(kept)
    BY <2>1, <2>2, <2>3, ConcatOps DEF Lists, OneFuture, Held
  <2>5. DOMAIN Held = 1..Len(Held) /\ OpsOf(Held) = Waiting
    BY <2>2, <2>4, LenProperties DEF Waiting
  <2>6. \A i, j \in DOMAIN Held : Held[i].op = Held[j].op => i = j
    BY <2>4, <2>5 DEF Distinct
  <2>7. ASSUME NEW o \in Ops
        PROVE  /\ invoked[o] <= 1
               /\ invoked[o] = 1 => fate[o] = "executed"
               /\ invoked[o] = 1 => \A i \in DOMAIN Held : Held[i].op # o
    <3>1. invoked[o] \in {0, 1} /\ (invoked[o] = 1 => fate[o] = "executed" /\ o \notin Waiting)
      BY <2>1 DEF Uninvoked
    <3>2. \A i \in DOMAIN Held : Held[i].op \in Waiting
      BY <2>5 DEF OpsOf
    <3> QED
      BY <3>1, <3>2
  <2> QED
    BY <2>6, <2>7 DEF CallbackOnce
<1> QED
  BY <1>1, QCInvariance, PTL
=============================================================================
