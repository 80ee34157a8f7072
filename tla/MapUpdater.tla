----------------------------- MODULE MapUpdater -----------------------------
(***************************************************************************)
(* The parallel map update of game/Maps: MapManager::Update and UnloadAll  *)
(* on the world thread, MapUpdater's worker threads, and MapInstanced,     *)
(* whose Update runs on a worker and schedules or destroys its instances.  *)
(*                                                                         *)
(* A map is a model value: a base map (an entry of MapManager::i_maps) or  *)
(* an instance (an entry of its base map's m_InstancedMaps).  What a map   *)
(* does to its own objects during Update is left out; what is kept is who  *)
(* updates which map and when, and which maps exist.  MapUpdater::_lock    *)
(* makes schedule_update and update_finished atomic.                       *)
(***************************************************************************)
EXTENDS ProducerConsumerQueue, Integers, FiniteSets

CONSTANTS
    Workers,    \* the threads activate starts
    BaseMaps,   \* the map ids CreateBaseMap may be called with
    Terrain,    \* the maps created along with a base map: the parent terrain
                \* map, its children and the map itself (_parentMapData)
    Instances,  \* the instanced maps that may exist
    Parent,     \* the base map (a MapInstanced) of an instance
    NoRequest   \* nullptr in WorkerThread

Maps == BaseMaps \cup Instances

ASSUME ConstantsAssumption ==
    /\ IsFiniteSet(Workers)
    /\ BaseMaps \cap Instances = {}
    /\ Terrain \in [BaseMaps -> SUBSET BaseMaps]
    /\ Parent \in [Instances -> BaseMaps]
    /\ NoRequest \notin Maps

VARIABLES
    world,             \* where the world thread is
    asleep,            \* TRUE while it sleeps in MapUpdater::wait
    todo,              \* the base maps its current loop over i_maps has left
    i_maps,            \* MapManager::i_maps
    instances,         \* the union of the m_InstancedMaps
    pending_requests,  \* MapUpdater::pending_requests
    cancelationToken,  \* MapUpdater::_cancelationToken
    wpc,               \* where each worker is
    request,           \* WorkerThread's request, a map or nullptr
    scan,              \* the instances MapInstanced::Update's loop has left
    updated,           \* history: maps whose Update returned in this tick
    skipped            \* history: instances DestroyInstance refused to delete

worldVars  == <<world, asleep, todo>>
mapVars    == <<i_maps, instances>>
workerVars == <<wpc, request, scan>>
history    == <<updated, skipped>>
vars == <<pcqVars, worldVars, mapVars, pending_requests, cancelationToken,
          workerVars, history>>

WorldStates == {"idle", "schedule", "wait", "delayed", "unload",
                "deactivate", "cancel", "join", "done"}
WorkerStates == {"off", "pop", "check", "update", "finish", "exit", "crash"}

InstancesOf(m) == {i \in instances : Parent[i] = m}

(* MapManager::Initialize starts the workers unless CONFIG_NUMTHREADS is 0. *)
activated == \E w \in Workers : wpc[w] # "off"

Init ==
    /\ PCQInit
    /\ world = "idle"
    /\ asleep = FALSE
    /\ todo = {}
    /\ i_maps = {}
    /\ instances = {}
    /\ pending_requests = 0
    /\ cancelationToken = FALSE
    /\ \E pc \in {"pop", "off"} : wpc = [w \in Workers |-> pc]
    /\ request = [w \in Workers |-> NoRequest]
    /\ scan = [w \in Workers |-> {}]
    /\ updated = {}
    /\ skipped = {}

-----------------------------------------------------------------------------
(* MapUpdater::schedule_update and MapUpdater::update_finished.              *)

schedule_update(m) ==
    /\ pending_requests' = pending_requests + 1
    /\ PCQPush(m)

\* Mutant: the waiting world thread is not notified.
update_finished_Silent ==
    /\ pending_requests' = pending_requests - 1
    /\ UNCHANGED asleep

update_finished ==
    /\ pending_requests' = pending_requests - 1
    /\ asleep' = FALSE

-----------------------------------------------------------------------------
(* The world thread.                                                         *)

(* Between two ticks a session creates the map its player enters. *)
CreateBaseMap(m) ==
    /\ world = "idle"
    /\ m \notin i_maps
    /\ i_maps' = i_maps \cup Terrain[m]
    /\ UNCHANGED <<pcqVars, worldVars, instances, pending_requests,
                   cancelationToken, workerVars, history>>

CreateInstance(i) ==
    /\ world = "idle"
    /\ Parent[i] \in i_maps
    /\ i \notin instances
    /\ instances' = instances \cup {i}
    /\ UNCHANGED <<pcqVars, worldVars, i_maps, pending_requests,
                   cancelationToken, workerVars, history>>

BeginUpdate ==
    /\ world = "idle"
    /\ world' = "schedule"
    /\ todo' = i_maps
    /\ updated' = {}
    /\ skipped' = {}
    /\ UNCHANGED <<pcqVars, asleep, mapVars, pending_requests,
                   cancelationToken, workerVars>>

ScheduleMap(m) ==
    /\ world = "schedule"
    /\ m \in todo
    /\ activated
    /\ schedule_update(m)
    /\ todo' = todo \ {m}
    /\ UNCHANGED <<world, asleep, mapVars, cancelationToken, workerVars,
                   history>>

(* Without workers the world thread updates the map and its instances. *)
UpdateInline(m) ==
    /\ world = "schedule"
    /\ m \in todo
    /\ ~activated
    /\ todo' = todo \ {m}
    /\ \E unload \in SUBSET InstancesOf(m) : \E destroy \in SUBSET unload :
          /\ instances' = instances \ destroy
          /\ updated' = updated \cup {m} \cup (InstancesOf(m) \ unload)
          /\ skipped' = skipped \cup (unload \ destroy)
    /\ UNCHANGED <<pcqVars, world, asleep, i_maps, pending_requests,
                   cancelationToken, workerVars>>

EndSchedule ==
    /\ world = "schedule"
    /\ todo = {}
    /\ IF activated
          THEN world' = "wait" /\ UNCHANGED todo
          ELSE world' = "delayed" /\ todo' = i_maps
    /\ UNCHANGED <<pcqVars, asleep, mapVars, pending_requests,
                   cancelationToken, workerVars, history>>

(* MapUpdater::wait, called by Update and by deactivate. *)
WaitBlock ==
    /\ world \in {"wait", "deactivate"}
    /\ ~asleep
    /\ pending_requests > 0
    /\ asleep' = TRUE
    /\ UNCHANGED <<pcqVars, world, todo, mapVars, pending_requests,
                   cancelationToken, workerVars, history>>

WaitSpurious ==
    /\ asleep
    /\ asleep' = FALSE
    /\ UNCHANGED <<pcqVars, world, todo, mapVars, pending_requests,
                   cancelationToken, workerVars, history>>

WaitReturn ==
    /\ world \in {"wait", "deactivate"}
    /\ ~asleep
    /\ pending_requests = 0
    /\ IF world = "wait"
          THEN world' = "delayed" /\ todo' = i_maps
          ELSE world' = "cancel" /\ UNCHANGED todo
    /\ UNCHANGED <<pcqVars, asleep, mapVars, pending_requests,
                   cancelationToken, workerVars, history>>

(* DelayedUpdate of a base map, which calls it on its instances first. *)
DelayedUpdate(m) ==
    /\ world = "delayed"
    /\ m \in todo
    /\ todo' = todo \ {m}
    /\ UNCHANGED <<pcqVars, world, asleep, mapVars, pending_requests,
                   cancelationToken, workerVars, history>>

EndUpdate ==
    /\ world = "delayed"
    /\ todo = {}
    /\ world' = "idle"
    /\ UNCHANGED <<pcqVars, asleep, todo, mapVars, pending_requests,
                   cancelationToken, workerVars, history>>

(* The server stops: MapManager::UnloadAll. *)
BeginUnloadAll ==
    /\ world = "idle"
    /\ world' = "unload"
    /\ todo' = i_maps
    /\ UNCHANGED <<pcqVars, asleep, mapVars, pending_requests,
                   cancelationToken, workerVars, history>>

UnloadMap(m) ==
    /\ world = "unload"
    /\ m \in todo
    /\ todo' = todo \ {m}
    /\ i_maps' = i_maps \ {m}
    /\ instances' = instances \ InstancesOf(m)
    /\ UNCHANGED <<pcqVars, world, asleep, pending_requests,
                   cancelationToken, workerVars, history>>

\* Mutant: deactivate cancels the queue without setting the token.
EndUnloadAll_NoToken ==
    /\ world = "unload"
    /\ todo = {}
    /\ world' = IF activated THEN "deactivate" ELSE "done"
    /\ UNCHANGED <<pcqVars, asleep, todo, mapVars, pending_requests,
                   cancelationToken, workerVars, history>>

EndUnloadAll ==
    /\ world = "unload"
    /\ todo = {}
    /\ IF activated
          THEN world' = "deactivate" /\ cancelationToken' = TRUE
          ELSE world' = "done" /\ UNCHANGED cancelationToken
    /\ UNCHANGED <<pcqVars, asleep, todo, mapVars, pending_requests,
                   workerVars, history>>

CancelQueue ==
    /\ world = "cancel"
    /\ PCQCancel
    /\ world' = "join"
    /\ UNCHANGED <<asleep, todo, mapVars, pending_requests,
                   cancelationToken, workerVars, history>>

JoinWorkers ==
    /\ world = "join"
    /\ \A w \in Workers : wpc[w] = "exit"
    /\ world' = "done"
    /\ UNCHANGED <<pcqVars, asleep, todo, mapVars, pending_requests,
                   cancelationToken, workerVars, history>>

-----------------------------------------------------------------------------
(* A worker thread: MapUpdater::WorkerThread.                                *)

WorkerBlock(w) ==
    /\ wpc[w] = "pop"
    /\ PCQBlock(w)
    /\ UNCHANGED <<worldVars, mapVars, pending_requests, cancelationToken,
                   workerVars, history>>

WorkerSpurious(w) ==
    /\ PCQSpurious(w)
    /\ UNCHANGED <<worldVars, mapVars, pending_requests, cancelationToken,
                   workerVars, history>>

WorkerPop(w) ==
    /\ wpc[w] = "pop"
    /\ \/ \E m \in Maps :
             PCQPopItem(w, m) /\ request' = [request EXCEPT ![w] = m]
       \/ PCQPopNothing(w) /\ UNCHANGED request
    /\ wpc' = [wpc EXCEPT ![w] = "check"]
    /\ UNCHANGED <<worldVars, mapVars, pending_requests, cancelationToken,
                   scan, history>>

WorkerExit(w) ==
    /\ wpc[w] = "check"
    /\ cancelationToken
    /\ wpc' = [wpc EXCEPT ![w] = "exit"]
    /\ UNCHANGED <<pcqVars, worldVars, mapVars, pending_requests,
                   cancelationToken, request, scan, history>>

\* Mutant: Map::Update is called where MapInstanced::Update should be.
WorkerCall_NotVirtual(w) ==
    /\ wpc[w] = "check"
    /\ ~cancelationToken
    /\ wpc' = [wpc EXCEPT ![w] = IF request[w] = NoRequest THEN "crash"
                                                         ELSE "update"]
    /\ UNCHANGED <<pcqVars, worldVars, mapVars, pending_requests,
                   cancelationToken, request, scan, history>>

(* request->call() enters Map::Update; a null request would crash. *)
WorkerCall(w) ==
    /\ wpc[w] = "check"
    /\ ~cancelationToken
    /\ IF request[w] = NoRequest
          THEN /\ wpc' = [wpc EXCEPT ![w] = "crash"]
               /\ UNCHANGED scan
          ELSE /\ wpc' = [wpc EXCEPT ![w] = "update"]
               /\ scan' = [scan EXCEPT ![w] = InstancesOf(request[w])]
    /\ UNCHANGED <<pcqVars, worldVars, mapVars, pending_requests,
                   cancelationToken, request, history>>

\* Mutant: a child update is pushed without being counted as pending.
ScheduleInstance_Uncounted(w, i) ==
    /\ wpc[w] = "update"
    /\ i \in scan[w]
    /\ PCQPush(i)
    /\ scan' = [scan EXCEPT ![w] = scan[w] \ {i}]
    /\ UNCHANGED <<worldVars, mapVars, pending_requests, cancelationToken,
                   wpc, request, history>>

\* Mutant: the loop does not advance past an instance it scheduled.
ScheduleInstance_Stuck(w, i) ==
    /\ wpc[w] = "update"
    /\ i \in scan[w]
    /\ Len(queue) < Cardinality(Maps)
    /\ schedule_update(i)
    /\ UNCHANGED <<worldVars, mapVars, cancelationToken, workerVars, history>>

\* Mutant: an instance due for unloading is scheduled as well as deleted.
DestroyInstance_AfterSchedule(w, i) ==
    /\ wpc[w] = "update"
    /\ i \in scan[w]
    /\ schedule_update(i)
    /\ scan' = [scan EXCEPT ![w] = scan[w] \ {i}]
    /\ instances' = instances \ {i}
    /\ UNCHANGED <<worldVars, i_maps, cancelationToken, wpc, request, history>>

(* MapInstanced::Update visits an instance: it is not due for unloading and *)
(* is scheduled, or it is due and is deleted, or it is due but still has    *)
(* players and is left alone until the next tick.                           *)
ScheduleInstance(w, i) ==
    /\ wpc[w] = "update"
    /\ i \in scan[w]
    /\ schedule_update(i)
    /\ scan' = [scan EXCEPT ![w] = scan[w] \ {i}]
    /\ UNCHANGED <<worldVars, mapVars, cancelationToken, wpc, request,
                   history>>

DestroyInstance(w, i) ==
    /\ wpc[w] = "update"
    /\ i \in scan[w]
    /\ scan' = [scan EXCEPT ![w] = scan[w] \ {i}]
    /\ \/ instances' = instances \ {i} /\ UNCHANGED skipped
       \/ skipped' = skipped \cup {i} /\ UNCHANGED instances
    /\ UNCHANGED <<pcqVars, worldVars, i_maps, pending_requests,
                   cancelationToken, wpc, request, updated>>

UpdateReturns(w) ==
    /\ wpc[w] = "update"
    /\ scan[w] = {}
    /\ wpc' = [wpc EXCEPT ![w] = "finish"]
    /\ updated' = updated \cup {request[w]}
    /\ UNCHANGED <<pcqVars, worldVars, mapVars, pending_requests,
                   cancelationToken, request, scan, skipped>>

WorkerFinish(w) ==
    /\ wpc[w] = "finish"
    /\ update_finished
    /\ wpc' = [wpc EXCEPT ![w] = "pop"]
    /\ request' = [request EXCEPT ![w] = NoRequest]
    /\ UNCHANGED <<pcqVars, world, todo, mapVars, cancelationToken, scan,
                   history>>

-----------------------------------------------------------------------------
(* The steps a thread takes on its own, and the steps others make it take.   *)
WorldStep ==
    \/ \E m \in BaseMaps : \/ ScheduleMap(m) \/ UpdateInline(m)
                           \/ DelayedUpdate(m) \/ UnloadMap(m)
    \/ EndSchedule \/ WaitBlock \/ WaitReturn \/ EndUpdate
    \/ EndUnloadAll \/ CancelQueue \/ JoinWorkers

WorkerStep(w) ==
    \/ WorkerBlock(w) \/ WorkerPop(w) \/ WorkerExit(w) \/ WorkerCall(w)
    \/ \E i \in Instances : ScheduleInstance(w, i) \/ DestroyInstance(w, i)
    \/ UpdateReturns(w) \/ WorkerFinish(w)

Environment ==
    \/ \E m \in BaseMaps : CreateBaseMap(m)
    \/ \E i \in Instances : CreateInstance(i)
    \/ BeginUpdate \/ BeginUnloadAll \/ WaitSpurious
    \/ \E w \in Workers : WorkerSpurious(w)

Terminated == world = "done" /\ UNCHANGED vars

Next ==
    \/ WorldStep
    \/ \E w \in Workers : WorkerStep(w)
    \/ Environment
    \/ Terminated

(* Threads are scheduled by the operating system, so none that can run is   *)
(* passed over forever.  Nothing obliges the server to tick or to stop.     *)
Fairness ==
    /\ WF_vars(WorldStep)
    /\ \A w \in Workers : WF_vars(WorkerStep(w))

Spec == Init /\ [][Next]_vars

FairSpec == Spec /\ Fairness

-----------------------------------------------------------------------------
(* Properties.                                                               *)

Queued == {queue[n] : n \in 1..Len(queue)}

(* The workers that hold a popped request they have not finished. *)
InFlight ==
    {w \in Workers :
        \/ wpc[w] \in {"update", "finish"}
        \/ wpc[w] = "check" /\ request[w] # NoRequest}

(* Every variable has the type its C++ declaration gives it. *)
TypeOK ==
    /\ queue \in Seq(Maps)
    /\ shutdown \in BOOLEAN
    /\ blocked \subseteq Workers
    /\ world \in WorldStates
    /\ asleep \in BOOLEAN
    /\ todo \subseteq BaseMaps
    /\ i_maps \subseteq BaseMaps
    /\ instances \subseteq Instances
    /\ pending_requests \in Nat
    /\ cancelationToken \in BOOLEAN
    /\ wpc \in [Workers -> WorkerStates]
    /\ request \in [Workers -> Maps \cup {NoRequest}]
    /\ scan \in [Workers -> SUBSET Instances]
    /\ updated \subseteq Maps
    /\ skipped \subseteq Instances

(* MapUpdater::wait is a barrier: once it has returned, and until the next  *)
(* tick, no request is queued and no worker is inside Map::Update, so that  *)
(* DelayedUpdate, the session handlers and UnloadAll have the maps to       *)
(* themselves (MapManager::Update, the lines after m_updater.wait()).       *)
Barrier ==
    world \notin {"schedule", "wait"} => queue = <<>> /\ InFlight = {}

(* pending_requests counts the requests that are queued or held by a        *)
(* worker, across schedule_update from both the world thread and workers    *)
(* and update_finished: were it ever too small, wait would return early; too *)
(* large, it would never return.                                            *)
PendingCount == pending_requests = Len(queue) + Cardinality(InFlight)

(* Map::Update takes no lock: no map is ever requested twice at once, so it *)
(* is never updated by two workers, nor twice in one tick.                  *)
OneUpdater ==
    /\ \A m, n \in 1..Len(queue) : queue[m] = queue[n] => m = n
    /\ \A v, w \in InFlight : request[v] = request[w] => v = w
    /\ \A w \in InFlight : request[w] \notin Queued
    /\ Queued \cap updated = {}
    /\ \A w \in InFlight : wpc[w] # "finish" => request[w] \notin updated

(* A request refers to its map by reference: a map that is queued, or in a  *)
(* worker's hands, has not been deleted by DestroyInstance or UnloadAll.    *)
NoDanglingMap ==
    /\ Queued \subseteq i_maps \cup instances
    /\ \A w \in InFlight : request[w] \in i_maps \cup instances
    /\ \A w \in Workers : scan[w] \subseteq instances

(* WorkerThread calls request->call() without a null test: the cancelation  *)
(* token is always visible to a worker that Cancel wakes without a request. *)
NoNullCall == \A w \in Workers : wpc[w] # "crash"

(* Whatever DelayedUpdate is called on has been updated in the same tick,   *)
(* instances reached only through their parent's update included, except an *)
(* instance that is due for unloading and still has players.                *)
TickComplete ==
    world = "delayed" => i_maps \cup instances \subseteq updated \cup skipped

(* The world thread is never stuck on the workers: wait returns in every tick, and
   deactivate returns once every worker has left WorkerThread and is joined. *)
WorldThreadReturns ==
    /\ world = "wait" ~> world = "delayed"
    /\ world = "unload" ~> world = "done"
=============================================================================
