-------------------------- MODULE MapUpdaterProofs --------------------------
(***************************************************************************)
(* Proofs about MapUpdater, for any number of workers, maps and instances: *)
(* its type invariant, the count of pending requests, the barrier that     *)
(* MapUpdater::wait provides, that no worker calls a null request, that no *)
(* map has two updaters or is deleted while it is requested, and that each *)
(* tick updates every map.  IInv carries the first four, TickInv the rest. *)
(***************************************************************************)
EXTENDS MapUpdater, FiniteSetTheorems, SequenceTheorems, TLAPS

Stopping == {"deactivate", "cancel", "join", "done"}

(* The world thread waits for pending_requests to reach zero before it goes *)
(* on, and only a tick makes it positive again; without workers it stays 0. *)
QuietOutsideTick ==
    world \notin {"schedule", "wait"} \/ ~activated => pending_requests = 0

(* The token is set while the updater is being deactivated and after, and   *)
(* the queue is cancelled only after that.                                  *)
TokenWhenStopping ==
    /\ cancelationToken => world \in Stopping
    /\ world \in Stopping \ {"done"} => cancelationToken
    /\ shutdown => cancelationToken

(* What a worker holds, by where it is. *)
WorkerHolds ==
    \A w \in Workers :
        /\ wpc[w] = "pop" => request[w] = NoRequest
        /\ wpc[w] \in {"update", "finish"} => request[w] # NoRequest
        /\ wpc[w] = "check" /\ request[w] = NoRequest => shutdown
        /\ wpc[w] # "crash"

IInv ==
    /\ TypeOK
    /\ PendingCount
    /\ QuietOutsideTick
    /\ TokenWhenStopping
    /\ WorkerHolds

-----------------------------------------------------------------------------
(* The set of workers holding a request is finite, as Workers is. *)
LEMMA InFlightFinite == IsFiniteSet(InFlight) /\ Cardinality(InFlight) \in Nat
<1>1. InFlight \in SUBSET Workers
  BY DEF InFlight
<1> QED
  BY <1>1, FS_Subset, FS_CardinalityType, ConstantsAssumption

(* With nothing pending, nothing is queued and no worker holds a request. *)
LEMMA NothingPending ==
  ASSUME TypeOK, PendingCount, pending_requests = 0
  PROVE  queue = <<>> /\ InFlight = {}
<1>1. Len(queue) \in Nat
  BY DEF TypeOK
<1>2. Len(queue) = 0 /\ Cardinality(InFlight) = 0
  BY <1>1, InFlightFinite DEF PendingCount, TypeOK
<1>3. queue = <<>>
  BY <1>2 DEF TypeOK
<1> QED
  BY <1>2, <1>3, InFlightFinite, FS_EmptySet

(* The initial state satisfies the inductive invariant. *)
LEMMA InitIInv == Init => IInv
<1> SUFFICES ASSUME Init PROVE IInv
  OBVIOUS
<1>1. TypeOK
  <2>1. shutdown \in BOOLEAN /\ asleep \in BOOLEAN /\ cancelationToken \in BOOLEAN
    BY Zenon DEF Init, PCQInit
  <2>2. /\ wpc \in [Workers -> WorkerStates]
        /\ request \in [Workers -> Maps \cup {NoRequest}]
        /\ scan \in [Workers -> SUBSET Instances]
    BY DEF Init, WorkerStates
  <2> QED
    BY <2>1, <2>2 DEF Init, PCQInit, TypeOK, WorldStates
<1>2. InFlight = {}
  BY DEF Init, InFlight
<1>3. PendingCount
  BY <1>2, FS_EmptySet DEF Init, PCQInit, PendingCount
<1>4. QuietOutsideTick /\ TokenWhenStopping /\ WorkerHolds
  BY DEF Init, PCQInit, QuietOutsideTick, TokenWhenStopping, WorkerHolds,
         Stopping
<1> QED
  BY <1>1, <1>3, <1>4 DEF IInv

(* Every step keeps every variable in its type. *)
LEMMA NextTypeOK == IInv /\ [Next]_vars => TypeOK'
<1> SUFFICES ASSUME IInv, [Next]_vars PROVE TypeOK'
  OBVIOUS
<1> USE DEF IInv, TypeOK, pcqVars, worldVars, mapVars, workerVars, history,
            WorldStates, WorkerStates
<1>1. ASSUME NEW m \in BaseMaps, CreateBaseMap(m) PROVE TypeOK'
  BY <1>1, ConstantsAssumption DEF CreateBaseMap
<1>2. ASSUME NEW i \in Instances, CreateInstance(i) PROVE TypeOK'
  BY <1>2 DEF CreateInstance
<1>3. CASE BeginUpdate
  BY <1>3 DEF BeginUpdate
<1>4. ASSUME NEW m \in BaseMaps, ScheduleMap(m) PROVE TypeOK'
  BY <1>4 DEF ScheduleMap, schedule_update, PCQPush, NotifyOne, Maps
<1>5. ASSUME NEW m \in BaseMaps, UpdateInline(m) PROVE TypeOK'
  BY <1>5 DEF UpdateInline, InstancesOf, Maps
<1>6. CASE EndSchedule
  BY <1>6 DEF EndSchedule
<1>7. CASE WaitBlock \/ WaitSpurious \/ WaitReturn
  BY <1>7 DEF WaitBlock, WaitSpurious, WaitReturn
<1>8. ASSUME NEW m \in BaseMaps, DelayedUpdate(m) PROVE TypeOK'
  BY <1>8 DEF DelayedUpdate
<1>9. CASE EndUpdate \/ BeginUnloadAll \/ EndUnloadAll
  BY <1>9 DEF EndUpdate, BeginUnloadAll, EndUnloadAll
<1>10. ASSUME NEW m \in BaseMaps, UnloadMap(m) PROVE TypeOK'
  BY <1>10 DEF UnloadMap
<1>11. CASE CancelQueue \/ JoinWorkers
  <2>1. CASE CancelQueue
    BY <2>1 DEF CancelQueue, PCQCancel
  <2>2. CASE JoinWorkers
    BY <2>2 DEF JoinWorkers
  <2> QED
    BY <1>11, <2>1, <2>2
<1>12. ASSUME NEW w \in Workers, WorkerBlock(w) \/ WorkerSpurious(w)
       PROVE  TypeOK'
  BY <1>12 DEF WorkerBlock, WorkerSpurious, PCQBlock, PCQSpurious
<1>13. ASSUME NEW w \in Workers, WorkerPop(w) PROVE TypeOK'
  <2>1. queue' \in Seq(Maps) /\ shutdown' = shutdown /\ blocked' = blocked
    <3>1. ASSUME NEW m \in Maps, PCQPopItem(w, m)
          PROVE  queue' \in Seq(Maps) /\ shutdown' = shutdown /\ blocked' = blocked
      BY <3>1, HeadTailProperties DEF PCQPopItem
    <3>2. CASE PCQPopNothing(w)
      BY <3>2 DEF PCQPopNothing
    <3> QED
      BY <1>13, <3>1, <3>2 DEF WorkerPop
  <2>2. request' \in [Workers -> Maps \cup {NoRequest}]
    BY <1>13 DEF WorkerPop
  <2> QED
    BY <1>13, <2>1, <2>2 DEF WorkerPop
<1>14. ASSUME NEW w \in Workers, WorkerExit(w) \/ WorkerCall(w)
       PROVE  TypeOK'
  BY <1>14 DEF WorkerExit, WorkerCall, InstancesOf
<1>15. ASSUME NEW w \in Workers, NEW i \in Instances, ScheduleInstance(w, i)
       PROVE  TypeOK'
  BY <1>15 DEF ScheduleInstance, schedule_update, PCQPush, NotifyOne, Maps
<1>16. ASSUME NEW w \in Workers, NEW i \in Instances, DestroyInstance(w, i)
       PROVE  TypeOK'
  BY <1>16 DEF DestroyInstance
<1>17. ASSUME NEW w \in Workers, UpdateReturns(w) PROVE TypeOK'
  BY <1>17 DEF UpdateReturns, WorkerHolds
<1>18. ASSUME NEW w \in Workers, WorkerFinish(w) PROVE TypeOK'
  <2>1. w \in InFlight
    BY <1>18 DEF WorkerFinish, InFlight
  <2>2. Cardinality(InFlight) # 0
    BY <2>1, InFlightFinite, FS_EmptySet
  <2>3. pending_requests > 0
    BY <2>2, InFlightFinite DEF PendingCount
  <2>4. pending_requests' = pending_requests - 1
    BY <1>18 DEF WorkerFinish, update_finished
  <2>5. pending_requests' \in Nat
    BY <2>3, <2>4
  <2>6. asleep' \in BOOLEAN
    BY <1>18, Zenon DEF WorkerFinish, update_finished
  <2> QED
    BY <1>18, <2>5, <2>6 DEF WorkerFinish
<1>19. CASE Terminated \/ UNCHANGED vars
  BY <1>19 DEF Terminated, vars
<1> QED
  BY <1>1, <1>2, <1>3, <1>4, <1>5, <1>6, <1>7, <1>8, <1>9, <1>10, <1>11,
     <1>12, <1>13, <1>14, <1>15, <1>16, <1>17, <1>18, <1>19
  DEF Next, WorldStep, WorkerStep, Environment

-----------------------------------------------------------------------------
(* Workers are started before the first tick or never. *)
LEMMA ActivatedStays ==
  ASSUME TypeOK, [Next]_vars
  PROVE  activated' = activated
<1> USE DEF workerVars, activated
<1>0. wpc \in [Workers -> WorkerStates]
  BY DEF TypeOK
<1>1. ASSUME wpc' = wpc PROVE activated' = activated
  BY <1>1
<1>2. ASSUME NEW w \in Workers, wpc[w] # "off",
             NEW pc \in WorkerStates \ {"off"}, wpc' = [wpc EXCEPT ![w] = pc]
      PROVE  activated' = activated
  BY <1>0, <1>2
<1> USE DEF WorkerStates
<1>3. CASE WorldStep
  BY <1>1, <1>3 DEF WorldStep, ScheduleMap, UpdateInline, DelayedUpdate, UnloadMap,
     EndSchedule, WaitBlock, WaitReturn, EndUpdate, EndUnloadAll, CancelQueue,
     JoinWorkers
<1>4. ASSUME NEW w \in Workers, WorkerStep(w) PROVE activated' = activated
  <2>1. CASE WorkerBlock(w)
    BY <1>1, <2>1 DEF WorkerBlock
  <2>2. CASE WorkerPop(w)
    BY <1>2, <2>2 DEF WorkerPop
  <2>3. CASE WorkerExit(w)
    BY <1>2, <2>3 DEF WorkerExit
  <2>4. CASE WorkerCall(w)
    BY <1>2, <2>4 DEF WorkerCall
  <2>5. CASE \E i \in Instances : ScheduleInstance(w, i) \/ DestroyInstance(w, i)
    BY <1>1, <2>5 DEF ScheduleInstance, DestroyInstance
  <2>6. CASE UpdateReturns(w)
    BY <1>2, <2>6 DEF UpdateReturns
  <2>7. CASE WorkerFinish(w)
    BY <1>2, <2>7 DEF WorkerFinish
  <2> QED
    BY <1>4, <2>1, <2>2, <2>3, <2>4, <2>5, <2>6, <2>7 DEF WorkerStep
<1>5. CASE Environment
  BY <1>1, <1>5 DEF Environment, CreateBaseMap, CreateInstance, BeginUpdate,
     BeginUnloadAll, WaitSpurious, WorkerSpurious
<1>6. CASE Terminated \/ UNCHANGED vars
  BY <1>1, <1>6 DEF Terminated, vars
<1> QED
  BY <1>3, <1>4, <1>5, <1>6 DEF Next

(* InFlight depends on the workers' state only. *)
LEMMA InFlightSame ==
  ASSUME wpc' = wpc, request' = request
  PROVE  InFlight' = InFlight
BY DEF InFlight

(* A worker holds a request only during a tick, so that the token it may    *)
(* find set never makes it drop one.                                        *)
LEMMA HeldInTick ==
  ASSUME IInv, InFlight # {}
  PROVE  world \in {"schedule", "wait"} /\ activated /\ ~cancelationToken
<1>1. pending_requests # 0
  BY NothingPending DEF IInv
<1>2. world \in {"schedule", "wait"} /\ activated
  BY <1>1 DEF IInv, QuietOutsideTick
<1> QED
  BY <1>2 DEF IInv, TokenWhenStopping, Stopping

(* pending_requests keeps counting the queued and the held requests. *)
LEMMA NextPendingCount == IInv /\ [Next]_vars => PendingCount'
<1> SUFFICES ASSUME IInv, [Next]_vars PROVE PendingCount'
  OBVIOUS
<1>0. /\ pending_requests \in Nat /\ Len(queue) \in Nat
      /\ queue \in Seq(Maps)
      /\ wpc \in [Workers -> WorkerStates]
      /\ request \in [Workers -> Maps \cup {NoRequest}]
      /\ pending_requests = Len(queue) + Cardinality(InFlight)
      /\ IsFiniteSet(InFlight) /\ Cardinality(InFlight) \in Nat
  BY InFlightFinite DEF IInv, TypeOK, PendingCount
<1> USE DEF pcqVars, worldVars, mapVars, workerVars, history
<1>same. ASSUME UNCHANGED <<queue, pending_requests, wpc, request>>
         PROVE  PendingCount'
  BY <1>same, InFlightSame DEF IInv, PendingCount
<1>push. ASSUME NEW m, schedule_update(m), UNCHANGED <<wpc, request>>,
                m \in Maps
         PROVE  PendingCount'
  <2>1. Len(queue') = Len(queue) + 1 /\ pending_requests' = pending_requests + 1
    BY <1>push, <1>0 DEF schedule_update, PCQPush
  <2> QED
    BY <1>push, <2>1, <1>0, InFlightSame DEF PendingCount
<1>1. ASSUME NEW m \in BaseMaps,
             CreateBaseMap(m) \/ UpdateInline(m) \/ DelayedUpdate(m)
                \/ UnloadMap(m)
      PROVE  PendingCount'
  BY <1>1, <1>same DEF CreateBaseMap, UpdateInline, DelayedUpdate, UnloadMap
<1>2. ASSUME NEW i \in Instances, CreateInstance(i) PROVE PendingCount'
  BY <1>2, <1>same DEF CreateInstance
<1>3. CASE BeginUpdate \/ EndSchedule \/ WaitBlock \/ WaitSpurious
              \/ WaitReturn \/ EndUpdate
  BY <1>3, <1>same DEF BeginUpdate, EndSchedule, WaitBlock, WaitSpurious,
                       WaitReturn, EndUpdate
<1>4. CASE BeginUnloadAll \/ EndUnloadAll \/ JoinWorkers
  BY <1>4, <1>same DEF BeginUnloadAll, EndUnloadAll, JoinWorkers
<1>5. ASSUME NEW m \in BaseMaps, ScheduleMap(m) PROVE PendingCount'
  BY <1>5, <1>push DEF ScheduleMap, Maps
<1>6. CASE CancelQueue
  <2>1. pending_requests = 0
    BY <1>6 DEF CancelQueue, IInv, QuietOutsideTick
  <2>2. queue = <<>>
    BY <2>1, NothingPending DEF IInv
  <2> QED
    BY <1>6, <2>2, <1>same DEF CancelQueue, PCQCancel
<1>7. ASSUME NEW w \in Workers, WorkerBlock(w) \/ WorkerSpurious(w)
      PROVE  PendingCount'
  BY <1>7, <1>same DEF WorkerBlock, WorkerSpurious, PCQBlock, PCQSpurious
<1>8. ASSUME NEW w \in Workers, WorkerPop(w) PROVE PendingCount'
  <2>1. wpc[w] = "pop" /\ request[w] = NoRequest /\ w \notin InFlight
    BY <1>8 DEF WorkerPop, IInv, WorkerHolds, InFlight
  <2>2. ASSUME NEW m \in Maps, PCQPopItem(w, m),
               request' = [request EXCEPT ![w] = m]
        PROVE  PendingCount'
    <3>1. m # NoRequest
      BY ConstantsAssumption
    <3>2. InFlight' = InFlight \cup {w}
      BY <1>0, <1>8, <2>1, <2>2, <3>1 DEF WorkerPop, InFlight
    <3>3. Cardinality(InFlight') = Cardinality(InFlight) + 1
      BY <1>0, <2>1, <3>2, FS_AddElement
    <3>4. Len(queue') = Len(queue) - 1
      BY <1>0, <2>2 DEF PCQPopItem
    <3>5. pending_requests' = pending_requests
      BY <1>8 DEF WorkerPop
    <3> QED
      BY <1>0, <3>3, <3>4, <3>5 DEF PendingCount
  <2>3. CASE PCQPopNothing(w) /\ UNCHANGED request
    <3>1. InFlight' = InFlight
      BY <1>0, <1>8, <2>1, <2>3 DEF WorkerPop, InFlight
    <3> QED
      BY <1>0, <1>8, <2>3, <3>1 DEF WorkerPop, PCQPopNothing, PendingCount
  <2> QED
    BY <1>8, <2>2, <2>3 DEF WorkerPop
<1>9. ASSUME NEW w \in Workers, WorkerExit(w) PROVE PendingCount'
  <2>1. w \notin InFlight
    BY <1>9, HeldInTick DEF WorkerExit
  <2>2. InFlight' = InFlight
    BY <1>0, <1>9, <2>1 DEF WorkerExit, InFlight
  <2> QED
    BY <1>0, <1>9, <2>2 DEF WorkerExit, PendingCount
<1>10. ASSUME NEW w \in Workers, WorkerCall(w) PROVE PendingCount'
  <2>1. request[w] # NoRequest
    BY <1>10 DEF WorkerCall, IInv, WorkerHolds, TokenWhenStopping
  <2>2. InFlight' = InFlight
    BY <1>0, <1>10, <2>1 DEF WorkerCall, InFlight
  <2> QED
    BY <1>0, <1>10, <2>2 DEF WorkerCall, PendingCount
<1>11. ASSUME NEW w \in Workers, NEW i \in Instances, ScheduleInstance(w, i)
       PROVE  PendingCount'
  BY <1>11, <1>push DEF ScheduleInstance, Maps
<1>12. ASSUME NEW w \in Workers, NEW i \in Instances, DestroyInstance(w, i)
       PROVE  PendingCount'
  BY <1>12, <1>same DEF DestroyInstance
<1>13. ASSUME NEW w \in Workers, UpdateReturns(w) PROVE PendingCount'
  <2>1. InFlight' = InFlight
    BY <1>0, <1>13 DEF UpdateReturns, InFlight
  <2> QED
    BY <1>0, <1>13, <2>1 DEF UpdateReturns, PendingCount
<1>14. ASSUME NEW w \in Workers, WorkerFinish(w) PROVE PendingCount'
  <2>1. w \in InFlight
    BY <1>14 DEF WorkerFinish, InFlight
  <2>2. InFlight' = InFlight \ {w}
    BY <1>0, <1>14 DEF WorkerFinish, InFlight
  <2>3. Cardinality(InFlight') = Cardinality(InFlight) - 1
    BY <1>0, <2>1, <2>2, FS_RemoveElement
  <2>4. queue' = queue /\ pending_requests' = pending_requests - 1
    BY <1>14 DEF WorkerFinish, update_finished
  <2> QED
    BY <1>0, <2>3, <2>4 DEF PendingCount
<1>15. CASE Terminated \/ UNCHANGED vars
  BY <1>15, <1>same DEF Terminated, vars
<1> QED
  BY <1>1, <1>2, <1>3, <1>4, <1>5, <1>6, <1>7, <1>8, <1>9, <1>10, <1>11,
     <1>12, <1>13, <1>14, <1>15
  DEF Next, WorldStep, WorkerStep, Environment

-----------------------------------------------------------------------------
(* The control state keeps its invariants. *)
LEMMA NextControl ==
  IInv /\ [Next]_vars => QuietOutsideTick' /\ TokenWhenStopping' /\ WorkerHolds'
<1> DEFINE Control == QuietOutsideTick /\ TokenWhenStopping /\ WorkerHolds
<1> SUFFICES ASSUME IInv, [Next]_vars PROVE Control'
  OBVIOUS
<1>a. activated' = activated
  BY ActivatedStays DEF IInv
<1>0. /\ QuietOutsideTick /\ TokenWhenStopping /\ WorkerHolds
      /\ activated' = activated
      /\ pending_requests \in Nat
      /\ world \in WorldStates
      /\ wpc \in [Workers -> WorkerStates]
      /\ request \in [Workers -> Maps \cup {NoRequest}]
  BY <1>a DEF IInv, TypeOK
<1> USE DEF pcqVars, worldVars, mapVars, workerVars, history,
            QuietOutsideTick, TokenWhenStopping, WorkerHolds, Stopping
<1>1. ASSUME NEW m \in BaseMaps,
             CreateBaseMap(m) \/ UpdateInline(m) \/ DelayedUpdate(m)
                \/ UnloadMap(m)
      PROVE  Control'
  BY <1>0, <1>1 DEF CreateBaseMap, UpdateInline, DelayedUpdate, UnloadMap
<1>2. ASSUME NEW i \in Instances, CreateInstance(i) PROVE Control'
  BY <1>0, <1>2 DEF CreateInstance
<1>3. CASE BeginUpdate
  BY <1>0, <1>3 DEF BeginUpdate
<1>4. CASE EndSchedule
  BY <1>0, <1>4 DEF EndSchedule
<1>5. CASE WaitBlock \/ WaitSpurious
  BY <1>0, <1>5 DEF WaitBlock, WaitSpurious
<1>6. CASE WaitReturn
  BY <1>0, <1>6 DEF WaitReturn
<1>7. CASE EndUpdate \/ BeginUnloadAll \/ JoinWorkers
  BY <1>0, <1>7 DEF EndUpdate, BeginUnloadAll, JoinWorkers
<1>8. CASE EndUnloadAll
  BY <1>0, <1>8 DEF EndUnloadAll
<1>9. ASSUME NEW m \in BaseMaps, ScheduleMap(m) PROVE Control'
  BY <1>0, <1>9 DEF ScheduleMap, schedule_update, PCQPush
<1>10. CASE CancelQueue
  <2>1. cancelationToken
    BY <1>0, <1>10 DEF CancelQueue
  <2> QED
    BY <1>0, <1>10, <2>1 DEF CancelQueue, PCQCancel
<1>11. ASSUME NEW w \in Workers, WorkerBlock(w) \/ WorkerSpurious(w)
       PROVE  Control'
  BY <1>0, <1>11 DEF WorkerBlock, WorkerSpurious, PCQBlock, PCQSpurious
<1>12. ASSUME NEW w \in Workers, WorkerPop(w) PROVE Control'
  BY <1>0, <1>12, ConstantsAssumption
     DEF WorkerPop, PCQPopItem, PCQPopNothing
<1>13. ASSUME NEW w \in Workers, WorkerExit(w) PROVE Control'
  BY <1>0, <1>13 DEF WorkerExit
<1>14. ASSUME NEW w \in Workers, WorkerCall(w) PROVE Control'
  BY <1>0, <1>14 DEF WorkerCall
<1>15. ASSUME NEW w \in Workers, NEW i \in Instances, ScheduleInstance(w, i)
       PROVE  Control'
  <2>1. w \in InFlight
    BY <1>15 DEF ScheduleInstance, InFlight
  <2>2. world \in {"schedule", "wait"} /\ activated
    BY <2>1, HeldInTick
  <2> QED
    BY <1>0, <1>15, <2>2 DEF ScheduleInstance, schedule_update, PCQPush
<1>16. ASSUME NEW w \in Workers, NEW i \in Instances, DestroyInstance(w, i)
       PROVE  Control'
  BY <1>0, <1>16 DEF DestroyInstance
<1>17. ASSUME NEW w \in Workers, UpdateReturns(w) PROVE Control'
  BY <1>0, <1>17 DEF UpdateReturns
<1>18. ASSUME NEW w \in Workers, WorkerFinish(w) PROVE Control'
  <2>1. w \in InFlight
    BY <1>18 DEF WorkerFinish, InFlight
  <2>2. world \in {"schedule", "wait"} /\ activated
    BY <2>1, HeldInTick
  <2> QED
    BY <1>0, <1>18, <2>2 DEF WorkerFinish, update_finished
<1>19. CASE Terminated \/ UNCHANGED vars
  BY <1>0, <1>19 DEF Terminated, vars
<1> HIDE DEF Control
<1> QED
  BY <1>1, <1>2, <1>3, <1>4, <1>5, <1>6, <1>7, <1>8, <1>9, <1>10, <1>11,
     <1>12, <1>13, <1>14, <1>15, <1>16, <1>17, <1>18, <1>19
  DEF Next, WorldStep, WorkerStep, Environment

-----------------------------------------------------------------------------
(* The inductive invariant holds in every reachable state. *)
THEOREM Invariance == Spec => []IInv
<1>1. Init => IInv
  BY InitIInv
<1>2. IInv /\ [Next]_vars => IInv'
  BY NextTypeOK, NextPendingCount, NextControl DEF IInv
<1> QED
  BY <1>1, <1>2, PTL DEF Spec

(* Every variable keeps its type; pending_requests, a size_t in the code,   *)
(* never goes below zero in MapUpdater::update_finished.                    *)
THEOREM TypeCorrect == Spec => []TypeOK
<1>1. IInv => TypeOK
  BY DEF IInv
<1> QED
  BY <1>1, Invariance, PTL

(* MapUpdater::pending_requests is the number of requests queued or held,   *)
(* whichever threads called schedule_update and update_finished.            *)
THEOREM PendingCountCorrect == Spec => []PendingCount
<1>1. IInv => PendingCount
  BY DEF IInv
<1> QED
  BY <1>1, Invariance, PTL

(* When MapUpdater::wait has returned nothing is queued and no worker is    *)
(* inside Map::Update.                                                      *)
THEOREM BarrierCorrect == Spec => []Barrier
<1>1. IInv => Barrier
  BY NothingPending DEF IInv, Barrier, QuietOutsideTick
<1> QED
  BY <1>1, Invariance, PTL

(* WorkerThread never calls a null request. *)
THEOREM NoNullCallCorrect == Spec => []NoNullCall
<1>1. IInv => NoNullCall
  BY DEF IInv, WorkerHolds, NoNullCall
<1> QED
  BY <1>1, Invariance, PTL

-----------------------------------------------------------------------------
(* What a tick does to every map.  A base map waits in todo or in the queue,
   is popped, is started and is updated; an instance waits until its base map
   is started, then in that worker's scan, and is scheduled from there. *)

Held == {request[w] : w \in InFlight}

Started(m) ==
    \/ m \in updated
    \/ \E w \in Workers : wpc[w] \in {"update", "finish"} /\ request[w] = m

NotStarted(m) ==
    \/ world = "schedule" /\ m \in todo
    \/ m \in Queued
    \/ \E w \in Workers : wpc[w] = "check" /\ request[w] = m

(* A base map that is still to be scheduled exists and was not requested. *)
TodoFresh ==
    world = "schedule" =>
        /\ todo \subseteq i_maps
        /\ \A m \in todo : m \notin Queued \cup Held \cup updated

(* An instance that MapInstanced::Update has still to visit was not requested,
   and it is the child of the map whose update visits it. *)
ScanFresh ==
    \A w \in Workers : \A i \in scan[w] :
        /\ wpc[w] = "update" /\ request[w] = Parent[i]
        /\ i \notin Queued \cup Held \cup updated

(* An instance is requested by the update of its base map only. *)
ChildAfterParent ==
    \A i \in Instances :
        i \in Queued \cup Held \cup updated => Started(Parent[i])

FinishedUpdated ==
    \A w \in Workers : wpc[w] = "finish" => request[w] \in updated

ParentExists == \A i \in instances : Parent[i] \in i_maps

(* No map is forgotten in a tick. *)
NoneForgotten ==
    world \in {"schedule", "wait"} =>
        /\ \A m \in i_maps : NotStarted(m) \/ Started(m)
        /\ \A i \in instances :
              \/ NotStarted(Parent[i])
              \/ \E w \in Workers : i \in scan[w]
              \/ i \in Queued \cup Held \cup updated \cup skipped

TickInv ==
    /\ TodoFresh /\ ScanFresh /\ ChildAfterParent /\ FinishedUpdated
    /\ ParentExists /\ NoneForgotten
    /\ OneUpdater /\ NoDanglingMap /\ TickComplete

(* Pushing a request that is not queued keeps the queue free of duplicates. *)
LEMMA PushQueued ==
  ASSUME TypeOK, NEW m \in Maps, PCQPush(m), m \notin Queued,
         \A i, j \in 1..Len(queue) : queue[i] = queue[j] => i = j
  PROVE  /\ Queued' = Queued \cup {m}
         /\ \A i, j \in 1..Len(queue') : queue'[i] = queue'[j] => i = j
<1>1. queue \in Seq(Maps) /\ queue' = Append(queue, m)
  BY DEF TypeOK, PCQPush
<1>2. /\ Len(queue) \in Nat /\ Len(queue') = Len(queue) + 1
      /\ \A i \in 1..Len(queue) : queue'[i] = queue[i]
      /\ queue'[Len(queue) + 1] = m
  BY <1>1
<1>3. 1..Len(queue') = 1..Len(queue) \cup {Len(queue) + 1}
  BY <1>2
<1>4. Queued' = Queued \cup {m}
  BY <1>2, <1>3 DEF Queued
<1>5. \A i, j \in 1..Len(queue') : queue'[i] = queue'[j] => i = j
  BY <1>2, <1>3 DEF Queued
<1> QED
  BY <1>4, <1>5

(* Popping takes the first request, and only that one, out of the queue. *)
LEMMA PopQueued ==
  ASSUME TypeOK, NEW w, NEW m, PCQPopItem(w, m),
         \A i, j \in 1..Len(queue) : queue[i] = queue[j] => i = j
  PROVE  /\ m \in Queued /\ Queued' = Queued \ {m}
         /\ \A i, j \in 1..Len(queue') : queue'[i] = queue'[j] => i = j
<1>1. queue \in Seq(Maps) /\ queue # <<>> /\ m = Head(queue) /\ queue' = Tail(queue)
  BY DEF TypeOK, PCQPopItem
<1>2. /\ Len(queue) \in Nat \ {0} /\ Len(queue') = Len(queue) - 1
      /\ \A i \in 1..Len(queue') : queue'[i] = queue[i + 1]
      /\ m = queue[1]
  BY <1>1
<1>3. \A i, j \in 1..Len(queue') : queue'[i] = queue'[j] => i = j
  BY <1>2
<1>4. m \in Queued
  BY <1>2 DEF Queued
<1>5. ASSUME NEW x \in Queued' PROVE x \in Queued \ {m}
  <2>1. PICK i \in 1..Len(queue') : x = queue'[i]
    BY <1>5 DEF Queued
  <2>2. x = queue[i + 1] /\ i + 1 \in 1..Len(queue) /\ i + 1 # 1
    BY <1>2, <2>1
  <2> QED
    BY <1>2, <2>2 DEF Queued
<1>6. ASSUME NEW x \in Queued, x # m PROVE x \in Queued'
  <2>1. PICK i \in 1..Len(queue) : x = queue[i]
    BY <1>6 DEF Queued
  <2>2. i # 1 /\ i - 1 \in 1..Len(queue') /\ x = queue'[i - 1]
    BY <1>2, <1>6, <2>1
  <2> QED
    BY <2>2 DEF Queued
<1> QED
  BY <1>3, <1>4, <1>5, <1>6

(* The initial state satisfies the invariant of a tick. *)
LEMMA InitTickInv == Init => TickInv
<1> SUFFICES ASSUME Init PROVE TickInv
  OBVIOUS
<1>1. Queued = {} /\ InFlight = {} /\ Held = {}
  BY DEF Init, PCQInit, Queued, InFlight, Held
<1>2. Len(queue) = 0
  BY DEF Init, PCQInit
<1> QED
  BY <1>1, <1>2 DEF Init, TickInv, TodoFresh, ScanFresh, ChildAfterParent, FinishedUpdated,
     ParentExists, NoneForgotten, OneUpdater, NoDanglingMap, TickComplete

(* A step of the world thread that leaves the maps and the workers alone, and
   neither begins nor ends a tick. *)
LEMMA TickSame ==
  ASSUME TickInv, UNCHANGED <<queue, mapVars, workerVars, history>>,
         \/ world' \notin {"schedule", "wait", "delayed"}
         \/ world' = world /\ (world = "schedule" => todo' = todo)
  PROVE  TickInv'
<1>1. Queued' = Queued /\ InFlight' = InFlight /\ Held' = Held
  BY DEF Queued, InFlight, Held, workerVars
<1>2. \A m : Started(m)' <=> Started(m)
  BY DEF Started, workerVars, history
<1>3. world' \in {"schedule", "wait"} => \A m : NotStarted(m)' <=> NotStarted(m)
  BY <1>1 DEF NotStarted, workerVars
<1> QED
  BY <1>1, <1>2, <1>3
  DEF mapVars, workerVars, history, TickInv, TodoFresh, ScanFresh, ChildAfterParent,
     FinishedUpdated, ParentExists, NoneForgotten, OneUpdater, NoDanglingMap, TickComplete

(* No request is queued or held outside of a tick, or without workers, and no
   worker is in the middle of its scan. *)
LEMMA NothingHeld ==
  ASSUME IInv, TickInv, pending_requests = 0
  PROVE  /\ Queued = {} /\ InFlight = {} /\ Held = {}
         /\ \A w \in Workers : scan[w] = {}
<1>1. queue = <<>> /\ InFlight = {}
  BY NothingPending DEF IInv
<1>2. Queued = {} /\ Held = {}
  BY <1>1 DEF Queued, Held
<1> QED
  BY <1>1, <1>2 DEF TickInv, ScanFresh, InFlight

(* The world thread creates, destroys and updates maps only while no worker has
   a request, and its ticks begin and end with every map accounted for. *)
LEMMA WorldTickInv ==
  ASSUME IInv, TickInv,
         \/ WorldStep
         \/ \E m \in BaseMaps : CreateBaseMap(m)
         \/ \E i \in Instances : CreateInstance(i)
         \/ BeginUpdate \/ BeginUnloadAll \/ WaitSpurious
  PROVE  TickInv'
<1> USE DEF pcqVars, worldVars, mapVars, workerVars, history
<1>t. /\ TypeOK /\ TodoFresh /\ ScanFresh /\ ChildAfterParent /\ FinishedUpdated
      /\ ParentExists /\ NoneForgotten /\ OneUpdater /\ NoDanglingMap /\ TickComplete
  BY DEF IInv, TickInv
<1>u. ASSUME UNCHANGED <<queue, workerVars>>
      PROVE  Queued' = Queued /\ InFlight' = InFlight /\ Held' = Held
  BY <1>u DEF Queued, InFlight, Held
<1>s. ASSUME UNCHANGED <<workerVars, updated>> PROVE \A m : Started(m)' <=> Started(m)
  BY <1>s DEF Started
<1>q. world \notin {"schedule", "wait"} \/ ~activated
        => /\ Queued = {} /\ InFlight = {} /\ Held = {}
           /\ \A w \in Workers : scan[w] = {}
  BY NothingHeld DEF IInv, QuietOutsideTick
<1> USE DEF TodoFresh, ScanFresh, ChildAfterParent, FinishedUpdated, ParentExists,
            NoneForgotten, OneUpdater, NoDanglingMap, TickComplete
<1>1. ASSUME NEW m \in BaseMaps, CreateBaseMap(m) PROVE TickInv'
  BY <1>1, <1>t, <1>u, <1>s, <1>q, ConstantsAssumption DEF CreateBaseMap, TickInv
<1>2. ASSUME NEW i \in Instances, CreateInstance(i) PROVE TickInv'
  BY <1>2, <1>t, <1>u, <1>s, <1>q DEF CreateInstance, TickInv
<1>3. CASE BeginUpdate
  <2>1. Queued = {} /\ InFlight = {} /\ Held = {} /\ Queued' = {} /\ InFlight' = {}
        /\ Held' = {}
    BY <1>3, <1>q, <1>u DEF BeginUpdate
  <2>2. \A m \in i_maps' : NotStarted(m)'
    BY <1>3 DEF BeginUpdate, NotStarted
  <2> QED
    BY <1>3, <1>t, <2>1, <2>2, <1>q DEF BeginUpdate, TickInv, InFlight
<1>4. ASSUME NEW m \in BaseMaps, ScheduleMap(m) PROVE TickInv'
  <2>1. m \notin Queued /\ m \notin Held /\ m \notin updated /\ m \in i_maps
    BY <1>4, <1>t DEF ScheduleMap
  <2>2. m \in Maps /\ PCQPush(m)
    BY <1>4 DEF ScheduleMap, schedule_update, Maps
  <2>3. /\ Queued' = Queued \cup {m}
        /\ \A i, j \in 1..Len(queue') : queue'[i] = queue'[j] => i = j
    BY <1>t, <2>1, <2>2, PushQueued
  <2>4. InFlight' = InFlight /\ Held' = Held
    BY <1>4 DEF ScheduleMap, InFlight, Held
  <2>5. \A x : Started(x)' <=> Started(x)
    BY <1>4, <1>s DEF ScheduleMap
  <2>6. \A x : NotStarted(x) => NotStarted(x)'
    BY <1>4, <2>3 DEF ScheduleMap, NotStarted
  <2>7. m \notin Instances
    BY ConstantsAssumption
  <2> QED
    <3>1. OneUpdater'
      BY <1>4, <1>t, <2>1, <2>3, <2>4 DEF ScheduleMap, Held
    <3>2. NoDanglingMap' /\ TickComplete'
      BY <1>4, <1>t, <2>1, <2>3, <2>4 DEF ScheduleMap
    <3>3. TodoFresh' /\ ScanFresh'
      BY <1>4, <1>t, <2>1, <2>3, <2>4, <2>7 DEF ScheduleMap, TypeOK
    <3>4. ChildAfterParent' /\ FinishedUpdated' /\ ParentExists'
      BY <1>4, <1>t, <2>3, <2>4, <2>5, <2>7 DEF ScheduleMap
    <3>5. NoneForgotten'
      BY <1>4, <1>t, <2>3, <2>4, <2>5, <2>6 DEF ScheduleMap
    <3> QED
      BY <3>1, <3>2, <3>3, <3>4, <3>5 DEF TickInv
<1>5. ASSUME NEW m \in BaseMaps, UpdateInline(m) PROVE TickInv'
  <2>1. /\ Queued = {} /\ InFlight = {} /\ Held = {} /\ Queued' = {} /\ InFlight' = {}
        /\ Held' = {} /\ \A w \in Workers : scan[w] = {}
    BY <1>5, <1>q, <1>u DEF UpdateInline
  <2>2. \A x : Started(x) \/ x = m => Started(x)'
    BY <1>5 DEF UpdateInline, Started
  <2>3. \A x : NotStarted(x) /\ x # m => NotStarted(x)'
    BY <1>5, <2>1 DEF UpdateInline, NotStarted
  <2>4. m \notin Instances /\ m \in i_maps
    BY <1>5, <1>t, ConstantsAssumption DEF UpdateInline
  <2>5. PICK unload \in SUBSET InstancesOf(m) : \E destroy \in SUBSET unload :
          /\ instances' = instances \ destroy
          /\ updated' = updated \cup {m} \cup (InstancesOf(m) \ unload)
          /\ skipped' = skipped \cup (unload \ destroy)
    BY <1>5 DEF UpdateInline
  <2>6. OneUpdater' /\ NoDanglingMap' /\ ScanFresh' /\ FinishedUpdated'
    BY <1>5, <1>t, <2>1 DEF UpdateInline, InFlight
  <2>7. TodoFresh' /\ ParentExists' /\ TickComplete' /\ ChildAfterParent'
    <3>1. TodoFresh'
      BY <1>5, <1>t, <2>1, <2>4, <2>5, ConstantsAssumption
      DEF UpdateInline, InstancesOf, TypeOK
    <3>2. ParentExists' /\ TickComplete'
      BY <1>5, <1>t, <2>5 DEF UpdateInline
    <3>3. ChildAfterParent'
      BY <1>5, <1>t, <2>1, <2>2, <2>4, <2>5 DEF UpdateInline, InstancesOf, Started
    <3> QED
      BY <3>1, <3>2, <3>3
  <2>8. NoneForgotten'
    BY <1>5, <1>t, <2>1, <2>2, <2>3, <2>4, <2>5 DEF UpdateInline, InstancesOf
  <2> QED
    BY <2>6, <2>7, <2>8 DEF TickInv
<1>6. ASSUME world' = "delayed", world \in {"schedule", "wait"}, pending_requests = 0,
             world = "schedule" => todo = {},
             UNCHANGED <<queue, mapVars, workerVars, history>>
      PROVE  TickInv'
  <2>1. /\ Queued = {} /\ InFlight = {} /\ Held = {} /\ Queued' = {} /\ InFlight' = {}
        /\ Held' = {} /\ \A w \in Workers : scan[w] = {}
    BY <1>6, <1>u, NothingHeld
  <2>2. \A x : Started(x)' <=> Started(x)
    BY <1>6, <1>s
  <2>3. \A x \in Maps : ~NotStarted(x) /\ (Started(x) => x \in updated)
    BY <1>6, <2>1, ConstantsAssumption DEF NotStarted, Started, InFlight
  <2>4. TickComplete'
    BY <1>6, <1>t, <2>1, <2>3, ConstantsAssumption DEF Maps, TypeOK
  <2> QED
    BY <1>6, <1>t, <2>1, <2>2, <2>4 DEF TickInv
<1>7. CASE EndSchedule
  <2>1. CASE activated
    <3>1. \A x : NotStarted(x) => NotStarted(x)'
      BY <1>7, <2>1 DEF EndSchedule, NotStarted, Queued
    <3> QED
      BY <1>7, <2>1, <3>1, <1>t, <1>u, <1>s DEF EndSchedule, TickInv
  <2>2. CASE ~activated
    BY <1>7, <2>2, <1>6 DEF EndSchedule, IInv, QuietOutsideTick
  <2> QED
    BY <2>1, <2>2
<1>8. CASE WaitReturn
  <2>1. CASE world = "wait"
    BY <1>8, <2>1, <1>6 DEF WaitReturn
  <2>2. CASE world = "deactivate"
    BY <1>8, <2>2, TickSame DEF WaitReturn
  <2> QED
    BY <1>8, <2>1, <2>2 DEF WaitReturn
<1>9. CASE WaitBlock \/ WaitSpurious \/ EndUpdate \/ BeginUnloadAll \/ EndUnloadAll
              \/ JoinWorkers
  BY <1>9, TickSame DEF WaitBlock, WaitSpurious, EndUpdate, BeginUnloadAll, EndUnloadAll,
     JoinWorkers
<1>10. ASSUME NEW m \in BaseMaps, DelayedUpdate(m) PROVE TickInv'
  BY <1>10, TickSame DEF DelayedUpdate
<1>11. ASSUME NEW m \in BaseMaps, UnloadMap(m) PROVE TickInv'
  BY <1>11, <1>t, <1>u, <1>s, <1>q DEF UnloadMap, InstancesOf, TickInv
<1>12. CASE CancelQueue
  <2>1. queue = <<>>
    BY <1>12, NothingPending DEF CancelQueue, IInv, QuietOutsideTick
  <2> QED
    BY <1>12, <2>1, TickSame DEF CancelQueue, PCQCancel
<1> QED
  BY <1>1, <1>2, <1>3, <1>4, <1>5, <1>7, <1>8, <1>9, <1>10, <1>11, <1>12 DEF WorldStep

(* A worker pops a request, starts the update, visits the instances one after
   the other and finishes, while the other workers do the same. *)
LEMMA WorkerTickInv ==
  ASSUME IInv, TickInv, NEW w \in Workers, WorkerStep(w) \/ WorkerSpurious(w)
  PROVE  TickInv'
<1> USE DEF pcqVars, worldVars, mapVars, workerVars, history
<1>t. /\ TypeOK /\ TodoFresh /\ ScanFresh /\ ChildAfterParent /\ FinishedUpdated
      /\ ParentExists /\ NoneForgotten /\ OneUpdater /\ NoDanglingMap /\ TickComplete
  BY DEF IInv, TickInv
<1>w. /\ wpc \in [Workers -> WorkerStates]
      /\ request \in [Workers -> Maps \cup {NoRequest}]
      /\ scan \in [Workers -> SUBSET Instances]
      /\ Parent \in [Instances -> BaseMaps] /\ BaseMaps \cap Instances = {}
      /\ NoRequest \notin Maps
  BY <1>t, ConstantsAssumption DEF TypeOK
<1>h. \A v \in Workers : request[v] \in Held <=>
        \E u \in InFlight : request[u] = request[v]
  BY DEF Held
<1>d. InFlight # {} => world \in {"schedule", "wait"} /\ ~cancelationToken
  BY HeldInTick
<1> USE DEF TodoFresh, ScanFresh, ChildAfterParent, FinishedUpdated, ParentExists,
            NoneForgotten, OneUpdater, NoDanglingMap, TickComplete
<1>1. CASE WorkerBlock(w) \/ WorkerSpurious(w)
  BY <1>1, TickSame DEF WorkerBlock, WorkerSpurious, PCQBlock, PCQSpurious
<1>2. CASE WorkerPop(w)
  <2>0. w \notin InFlight /\ wpc[w] = "pop" /\ request[w] = NoRequest /\ scan[w] = {}
    BY <1>2, <1>t DEF WorkerPop, IInv, WorkerHolds, InFlight
  <2>1. ASSUME NEW m \in Maps, PCQPopItem(w, m), request' = [request EXCEPT ![w] = m]
        PROVE  TickInv'
    <3>1. /\ m \in Queued /\ Queued' = Queued \ {m}
          /\ \A i, j \in 1..Len(queue') : queue'[i] = queue'[j] => i = j
      BY <1>t, <2>1, PopQueued
    <3>2. InFlight' = InFlight \cup {w} /\ w \notin InFlight
      BY <1>2, <1>w, <2>0, <2>1 DEF WorkerPop, InFlight
    <3>3. /\ request'[w] = m /\ wpc'[w] = "check"
          /\ \A v \in Workers \ {w} : request'[v] = request[v] /\ wpc'[v] = wpc[v]
          /\ UNCHANGED <<world, todo, i_maps, instances, scan, updated, skipped>>
      BY <1>2, <1>w, <2>1 DEF WorkerPop
    <3>4. Held' = Held \cup {m} /\ m \notin Held
      BY <1>t, <3>1, <3>2, <3>3 DEF Held, InFlight
    <3>5. \A x : Started(x)' <=> Started(x)
      BY <2>0, <3>3 DEF Started
    <3>6. \A x : NotStarted(x) => NotStarted(x)'
      BY <2>0, <3>1, <3>3 DEF NotStarted
    <3>7. OneUpdater'
      <4>1. \A u, v \in InFlight' : request'[u] = request'[v] => u = v
        BY <1>t, <3>1, <3>2, <3>3, <3>4 DEF InFlight, Held
      <4>2. \A v \in InFlight' : request'[v] \notin Queued'
        BY <1>t, <3>1, <3>2, <3>3 DEF InFlight
      <4>3. \A v \in InFlight' : wpc'[v] # "finish" => request'[v] \notin updated'
        BY <1>t, <3>1, <3>2, <3>3 DEF InFlight
      <4> QED
        BY <1>t, <3>1, <3>3, <4>1, <4>2, <4>3
    <3>8. NoDanglingMap' /\ TickComplete' /\ ParentExists'
      BY <1>t, <3>1, <3>2, <3>3 DEF InFlight
    <3>9. TodoFresh' /\ ScanFresh' /\ FinishedUpdated'
      BY <1>t, <2>0, <3>1, <3>3, <3>4
    <3>10. ChildAfterParent' /\ NoneForgotten'
      BY <1>t, <3>1, <3>3, <3>4, <3>5, <3>6
    <3> QED
      BY <3>7, <3>8, <3>9, <3>10 DEF TickInv
  <2>2. CASE PCQPopNothing(w) /\ UNCHANGED request
    <3>1. /\ \A v \in Workers \ {w} : wpc'[v] = wpc[v]
          /\ wpc'[w] = "check"
          /\ UNCHANGED <<queue, request, world, todo, i_maps, instances, scan, updated, skipped>>
      BY <1>2, <1>w, <2>2 DEF WorkerPop, PCQPopNothing
    <3>2. InFlight' = InFlight /\ Held' = Held /\ Queued' = Queued
      BY <2>0, <3>1 DEF InFlight, Held, Queued
    <3>3. \A x : Started(x)' <=> Started(x)
      BY <2>0, <3>1 DEF Started
    <3>4. \A x : NotStarted(x) => NotStarted(x)'
      BY <2>0, <3>1 DEF NotStarted, Queued
    <3> QED
      BY <1>t, <2>0, <3>1, <3>2, <3>3, <3>4 DEF TickInv, InFlight
  <2> QED
    BY <1>2, <2>1, <2>2 DEF WorkerPop
<1>3. CASE WorkerExit(w)
  <2>1. w \notin InFlight /\ request[w] = NoRequest
    BY <1>3, <1>d DEF WorkerExit, InFlight
  <2>2. /\ \A v \in Workers \ {w} : wpc'[v] = wpc[v]
        /\ wpc[w] = "check" /\ wpc'[w] = "exit"
        /\ UNCHANGED <<queue, request, world, todo, i_maps, instances, scan, updated, skipped>>
    BY <1>3, <1>w DEF WorkerExit
  <2>3. InFlight' = InFlight /\ Held' = Held /\ Queued' = Queued
    BY <2>1, <2>2 DEF InFlight, Held, Queued
  <2>4. \A x : Started(x)' <=> Started(x)
    BY <2>2 DEF Started
  <2>5. \A x \in Maps : NotStarted(x) => NotStarted(x)'
    BY <1>w, <2>1, <2>2 DEF NotStarted, Queued
  <2>6. i_maps \subseteq Maps /\ \A i \in instances : Parent[i] \in Maps
    BY <1>t, <1>w DEF TypeOK, Maps
  <2> QED
    BY <1>t, <2>2, <2>3, <2>4, <2>5, <2>6 DEF TickInv, InFlight
<1>4. CASE WorkerCall(w)
  <2>1. request[w] # NoRequest /\ w \in InFlight
    BY <1>4 DEF WorkerCall, IInv, WorkerHolds, TokenWhenStopping, InFlight
  <2>2. /\ wpc[w] = "check" /\ wpc'[w] = "update"
        /\ scan'[w] = InstancesOf(request[w])
        /\ \A v \in Workers \ {w} : wpc'[v] = wpc[v] /\ scan'[v] = scan[v]
        /\ UNCHANGED <<queue, request, world, todo, i_maps, instances, updated, skipped>>
    BY <1>4, <1>w, <2>1 DEF WorkerCall
  <2>3. InFlight' = InFlight /\ Held' = Held /\ Queued' = Queued
    BY <2>1, <2>2 DEF InFlight, Held, Queued
  <2>4. \A x : Started(x) => Started(x)'
    BY <2>2 DEF Started
  <2>5. ASSUME NEW x, NotStarted(x)
        PROVE  NotStarted(x)' \/ (Started(x)' /\ x = request[w])
    <3>1. CASE (world = "schedule" /\ x \in todo) \/ x \in Queued
      BY <2>2, <2>3, <3>1 DEF NotStarted
    <3>2. CASE \E v \in Workers : wpc[v] = "check" /\ request[v] = x
      <4>1. PICK v \in Workers : wpc[v] = "check" /\ request[v] = x
        BY <3>2
      <4>2. CASE v = w
        BY <2>2, <4>1, <4>2 DEF Started
      <4>3. CASE v # w
        BY <2>2, <4>1, <4>3 DEF NotStarted
      <4> QED
        BY <4>2, <4>3
    <3> QED
      BY <2>5, <3>1, <3>2 DEF NotStarted
  <2>6. ~Started(request[w])
    BY <1>t, <2>1, <2>2 DEF Started, InFlight
  <2>7. ScanFresh'
    BY <1>t, <2>1, <2>2, <2>3, <2>6 DEF InstancesOf, TypeOK
  <2>8. NoneForgotten'
    BY <1>t, <2>2, <2>3, <2>4, <2>5 DEF InstancesOf
  <2>9. OneUpdater' /\ NoDanglingMap' /\ TickComplete'
    BY <1>t, <2>2, <2>3 DEF InFlight, InstancesOf
  <2> QED
    BY <1>t, <2>2, <2>3, <2>4, <2>7, <2>8, <2>9 DEF TickInv
<1>5. ASSUME NEW i \in Instances, ScheduleInstance(w, i) PROVE TickInv'
  <2>0. /\ wpc[w] = "update" /\ i \in scan[w] /\ PCQPush(i) /\ i \in Maps
    BY <1>5 DEF ScheduleInstance, schedule_update, Maps
  <2>1. i \notin Queued /\ i \notin Held /\ i \notin updated /\ i \in instances
        /\ request[w] = Parent[i]
    BY <1>t, <2>0
  <2>2. /\ Queued' = Queued \cup {i}
        /\ \A m, n \in 1..Len(queue') : queue'[m] = queue'[n] => m = n
    BY <1>t, <2>0, <2>1, PushQueued
  <2>3. /\ scan'[w] = scan[w] \ {i}
        /\ \A v \in Workers \ {w} : scan'[v] = scan[v]
        /\ UNCHANGED <<request, wpc, world, todo, i_maps, instances, updated, skipped>>
    BY <1>5, <1>w DEF ScheduleInstance
  <2>4. InFlight' = InFlight /\ Held' = Held
    BY <2>3 DEF InFlight, Held
  <2>5. \A x : Started(x)' <=> Started(x)
    BY <2>3 DEF Started
  <2>6. \A x : NotStarted(x) => NotStarted(x)'
    BY <2>2, <2>3 DEF NotStarted
  <2>7. \A v \in Workers : i \notin scan'[v]
    <3>1. ASSUME NEW v \in Workers, v # w, i \in scan[v] PROVE FALSE
      BY <1>t, <2>0, <2>1, <3>1 DEF InFlight
    <3> QED
      BY <2>3, <3>1
  <2>8. Started(Parent[i])
    BY <2>0, <2>1 DEF Started
  <2>9. OneUpdater'
    BY <1>t, <2>1, <2>2, <2>3, <2>4 DEF Held
  <2>10. NoDanglingMap' /\ TickComplete' /\ ParentExists' /\ FinishedUpdated'
    BY <1>t, <2>1, <2>2, <2>3, <2>4
  <2>11. TodoFresh' /\ ScanFresh'
    BY <1>t, <1>w, <2>2, <2>3, <2>4, <2>7 DEF TypeOK
  <2>12. ChildAfterParent' /\ NoneForgotten'
    BY <1>t, <2>2, <2>3, <2>4, <2>5, <2>6, <2>8
  <2> QED
    BY <2>9, <2>10, <2>11, <2>12 DEF TickInv
<1>6. ASSUME NEW i \in Instances, DestroyInstance(w, i) PROVE TickInv'
  <2>0. wpc[w] = "update" /\ i \in scan[w]
    BY <1>6 DEF DestroyInstance
  <2>1. i \notin Queued /\ i \notin Held /\ request[w] = Parent[i]
    BY <1>t, <2>0
  <2>2. /\ scan'[w] = scan[w] \ {i}
        /\ \A v \in Workers \ {w} : scan'[v] = scan[v]
        /\ UNCHANGED <<queue, request, wpc, world, todo, i_maps, updated>>
        /\ \/ instances' = instances \ {i} /\ skipped' = skipped
           \/ skipped' = skipped \cup {i} /\ instances' = instances
    BY <1>6, <1>w DEF DestroyInstance
  <2>3. InFlight' = InFlight /\ Held' = Held /\ Queued' = Queued
    BY <2>2 DEF InFlight, Held, Queued
  <2>4. \A x : Started(x)' <=> Started(x)
    BY <2>2 DEF Started
  <2>5. \A x : NotStarted(x) => NotStarted(x)'
    BY <2>2, <2>3 DEF NotStarted
  <2>6. \A v \in Workers : i \notin scan'[v]
    <3>1. ASSUME NEW v \in Workers, v # w, i \in scan[v] PROVE FALSE
      BY <1>t, <2>0, <2>1, <3>1 DEF InFlight
    <3> QED
      BY <2>2, <3>1
  <2>7. world \in {"schedule", "wait"}
    BY <1>d, <2>0 DEF InFlight
  <2>8. OneUpdater' /\ TickComplete' /\ ParentExists' /\ FinishedUpdated' /\ TodoFresh'
    BY <1>t, <2>2, <2>3, <2>7
  <2>9. NoDanglingMap'
    BY <1>t, <2>1, <2>2, <2>3, <2>6 DEF Held
  <2>10. ScanFresh' /\ ChildAfterParent'
    BY <1>t, <2>2, <2>3, <2>4
  <2>11. NoneForgotten'
    BY <1>t, <2>2, <2>3, <2>4, <2>5
  <2> QED
    BY <2>8, <2>9, <2>10, <2>11 DEF TickInv
<1>7. CASE UpdateReturns(w)
  <2>0. w \in InFlight /\ wpc[w] = "update" /\ scan[w] = {}
    BY <1>7 DEF UpdateReturns, InFlight
  <2>1. /\ wpc'[w] = "finish" /\ updated' = updated \cup {request[w]}
        /\ \A v \in Workers \ {w} : wpc'[v] = wpc[v]
        /\ UNCHANGED <<queue, request, world, todo, i_maps, instances, scan, skipped>>
    BY <1>7, <1>w DEF UpdateReturns
  <2>2. InFlight' = InFlight /\ Held' = Held /\ Queued' = Queued
    BY <2>0, <2>1 DEF InFlight, Held, Queued
  <2>3. \A x : Started(x) => Started(x)'
    BY <2>1 DEF Started
  <2>4. \A x : NotStarted(x) => NotStarted(x)'
    BY <2>0, <2>1, <2>2 DEF NotStarted
  <2>5. request[w] \in Held /\ request[w] \notin Queued
    BY <1>t, <2>0 DEF Held
  <2>6. world \in {"schedule", "wait"}
    BY <1>d, <2>0
  <2>7. OneUpdater'
    BY <1>t, <2>0, <2>1, <2>2, <2>5 DEF InFlight
  <2>8. NoDanglingMap' /\ TickComplete' /\ ParentExists' /\ FinishedUpdated'
    BY <1>t, <2>1, <2>2, <2>6
  <2>9. TodoFresh' /\ ScanFresh'
    BY <1>t, <2>0, <2>1, <2>2, <2>5
  <2>10. ChildAfterParent' /\ NoneForgotten'
    BY <1>t, <2>1, <2>2, <2>3, <2>4, <2>5
  <2> QED
    BY <2>7, <2>8, <2>9, <2>10 DEF TickInv
<1>8. CASE WorkerFinish(w)
  <2>0. w \in InFlight /\ wpc[w] = "finish" /\ scan[w] = {} /\ request[w] \in updated
    BY <1>8, <1>t DEF WorkerFinish, InFlight
  <2>1. /\ wpc'[w] = "pop" /\ request'[w] = NoRequest
        /\ \A v \in Workers \ {w} : wpc'[v] = wpc[v] /\ request'[v] = request[v]
        /\ UNCHANGED <<queue, world, todo, i_maps, instances, scan, updated, skipped>>
    BY <1>8, <1>w DEF WorkerFinish, update_finished
  <2>2. InFlight' = InFlight \ {w} /\ Queued' = Queued
    BY <2>1 DEF InFlight, Queued
  <2>3. Held' \subseteq Held /\ Held \subseteq Held' \cup updated
    BY <2>0, <2>1, <2>2 DEF Held, InFlight
  <2>4. \A x : Started(x)' <=> Started(x)
    BY <2>0, <2>1 DEF Started
  <2>5. \A x : NotStarted(x) => NotStarted(x)'
    BY <2>0, <2>1, <2>2 DEF NotStarted
  <2>6. OneUpdater' /\ NoDanglingMap' /\ TickComplete'
    BY <1>t, <2>1, <2>2 DEF InFlight
  <2>7. TodoFresh' /\ ScanFresh' /\ FinishedUpdated' /\ ParentExists'
    BY <1>t, <2>0, <2>1, <2>2, <2>3
  <2>8. ChildAfterParent' /\ NoneForgotten'
    BY <1>t, <2>1, <2>2, <2>3, <2>4, <2>5
  <2> QED
    BY <2>6, <2>7, <2>8 DEF TickInv
<1> QED
  BY <1>1, <1>2, <1>3, <1>4, <1>5, <1>6, <1>7, <1>8 DEF WorkerStep

-----------------------------------------------------------------------------
(* The invariant of a tick holds in every reachable state. *)
THEOREM TickInvariance == Spec => []TickInv
<1>1. Init => TickInv
  BY InitTickInv
<1>2. IInv /\ TickInv /\ [Next]_vars => TickInv'
  <2> SUFFICES ASSUME IInv, TickInv, [Next]_vars PROVE TickInv'
    OBVIOUS
  <2>1. CASE UNCHANGED vars
    BY <2>1, TickSame DEF vars, pcqVars, worldVars
  <2> QED
    BY <2>1, WorldTickInv, WorkerTickInv DEF Next, Environment, Terminated
<1> QED
  BY <1>1, <1>2, Invariance, PTL DEF Spec

(* Map::Update takes no lock and needs none: no map is requested twice, updated
   by two workers, or updated twice in a tick. *)
THEOREM OneUpdaterCorrect == Spec => []OneUpdater
<1>1. TickInv => OneUpdater
  BY DEF TickInv
<1> QED
  BY <1>1, TickInvariance, PTL

(* No map is deleted while a request for it is queued or in a worker's hands. *)
THEOREM NoDanglingMapCorrect == Spec => []NoDanglingMap
<1>1. TickInv => NoDanglingMap
  BY DEF TickInv
<1> QED
  BY <1>1, TickInvariance, PTL

(* Every tick updates every map, or finds that the instance is to be unloaded. *)
THEOREM TickCompleteCorrect == Spec => []TickComplete
<1>1. TickInv => TickComplete
  BY DEF TickInv
<1> QED
  BY <1>1, TickInvariance, PTL
=============================================================================
