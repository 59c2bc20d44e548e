------------------------ MODULE ModelLoadCoordinator ------------------------
(***************************************************************************)
(* The arbiter of model memory: qai-forge/src/scheduler/                   *)
(* ModelLoadCoordinator.cpp, shared by every generative and predictive     *)
(* runtime.  A thread that loads a model holds a LoadReservation (the      *)
(* memory promised to it); a thread that unloads one holds a ReclaimGuard. *)
(* Every operation runs under the coordinator's mutex_, so one action is   *)
(* one critical section; the two waits on cv_ are states of their own.     *)
(***************************************************************************)
EXTENDS Integers, FiniteSets, Functions

CONSTANTS
    Runtime,        \* the model runtimes; one loading/unloading thread each
    Memory,         \* [Runtime -> Nat]: configured model size in MB
    Headroom,       \* memory_headroom_mb_, after the constructor's max(0, .)
    TotalMemory,    \* what the device has for models
    MaxExternal     \* bound on what other processes take of it

ASSUME ConstantsAssumption ==
    /\ IsFiniteSet(Runtime)
    /\ Memory \in [Runtime -> Nat]
    /\ Headroom \in Nat
    /\ TotalMemory \in Nat
    /\ MaxExternal \in Nat

VARIABLES
    active_load_count,          \* reservations outstanding
    reserved_load_memory_mb,    \* their total size
    reclaim_count,              \* reclaims pending or under way
    shutdown_requested,
    pc,         \* where the runtime's thread is (the RAII object it holds)
    occupied,   \* runtimes whose model, or part of it, is in memory
    external    \* memory taken by processes the coordinator does not manage

vars == <<active_load_count, reserved_load_memory_mb, reclaim_count,
          shutdown_requested, pc, occupied, external>>

PC == {"idle", "acquiring", "reserved", "loading", "reclaimWait", "reclaiming"}

\* Threads that own a LoadReservation, and threads counted in reclaim_count.
Holders    == {r \in Runtime : pc[r] \in {"reserved", "loading"}}
Reclaimers == {r \in Runtime : pc[r] \in {"reclaimWait", "reclaiming"}}

AtLeast(low, n) == IF n < low THEN low ELSE n

RequiredMemory(r) == AtLeast(1, Memory[r])

ModelMemory(S) == SumFunctionOnSet(Memory, S)

-----------------------------------------------------------------------------
(* SystemResourceManager::getAvailableMemoryMb, less what is promised. *)
SystemAvailable == AtLeast(0, TotalMemory - external - ModelMemory(occupied))

AvailableMemoryMb == AtLeast(0, SystemAvailable - reserved_load_memory_mb)

\* Faulty: what is promised to others is not subtracted.
CanReserveTwice(r) ==
    /\ ~shutdown_requested
    /\ reclaim_count = 0
    /\ SystemAvailable >= RequiredMemory(r) + Headroom

\* Faulty: reclaims do not hold loads back.
CanReserveAnyTime(r) ==
    /\ ~shutdown_requested
    /\ AvailableMemoryMb >= RequiredMemory(r) + Headroom

CanReserve(r) ==
    /\ ~shutdown_requested
    /\ reclaim_count = 0
    /\ AvailableMemoryMb >= RequiredMemory(r) + Headroom

ReserveLoadLocked(r) ==
    /\ reserved_load_memory_mb' = reserved_load_memory_mb + RequiredMemory(r)
    /\ active_load_count' = active_load_count + 1
    /\ pc' = [pc EXCEPT ![r] = "reserved"]
    /\ UNCHANGED <<reclaim_count, shutdown_requested, occupied, external>>

\* Faulty: the load is still counted.
ReturnMemoryOnly(r) ==
    /\ reserved_load_memory_mb' =
         AtLeast(0, reserved_load_memory_mb - RequiredMemory(r))
    /\ UNCHANGED active_load_count

\* Giving a reservation back: releaseLoad, and the first half of beginReclaim.
ReturnReservation(r) ==
    /\ reserved_load_memory_mb' =
         AtLeast(0, reserved_load_memory_mb - RequiredMemory(r))
    /\ active_load_count' = AtLeast(0, active_load_count - 1)

-----------------------------------------------------------------------------
Init ==
    /\ active_load_count = 0
    /\ reserved_load_memory_mb = 0
    /\ reclaim_count = 0
    /\ shutdown_requested = FALSE
    /\ pc = [r \in Runtime |-> "idle"]
    /\ occupied = {}
    /\ external \in 0..MaxExternal

\* tryAcquire, called by the warm pool for a cold runtime.  A refusal changes
\* nothing.
TryAcquire(r) ==
    /\ pc[r] = "idle"
    /\ r \notin occupied
    /\ CanReserve(r)
    /\ ReserveLoadLocked(r)

\* acquire: a predictive load, or the second attempt of a generative one.
Acquire(r) ==
    /\ pc[r] = "idle"
    /\ r \notin occupied
    /\ pc' = [pc EXCEPT ![r] = "acquiring"]
    /\ UNCHANGED <<active_load_count, reserved_load_memory_mb, reclaim_count,
                   shutdown_requested, occupied, external>>

\* The loop of acquire polls every 100 ms and after every notify_all.
AcquireGranted(r) ==
    /\ pc[r] = "acquiring"
    /\ CanReserve(r)
    /\ ReserveLoadLocked(r)

\* Faulty: only the lack of memory ends the wait.
AcquireThrowsWhenFull(r) ==
    /\ pc[r] = "acquiring"
    /\ reclaim_count = 0 /\ active_load_count = 0
    /\ AvailableMemoryMb < RequiredMemory(r) + Headroom
    /\ pc' = [pc EXCEPT ![r] = "idle"]
    /\ UNCHANGED <<active_load_count, reserved_load_memory_mb, reclaim_count,
                   shutdown_requested, occupied, external>>

\* It gives up when nothing that could free memory is under way, and when the
\* scheduler shuts down.
AcquireThrows(r) ==
    /\ pc[r] = "acquiring"
    /\ \/ shutdown_requested
       \/ /\ reclaim_count = 0
          /\ active_load_count = 0
          /\ ~CanReserve(r)
    /\ pc' = [pc EXCEPT ![r] = "idle"]
    /\ UNCHANGED <<active_load_count, reserved_load_memory_mb, reclaim_count,
                   shutdown_requested, occupied, external>>

\* backend_->loadModel starts to fill memory under the reservation.
LoadModel(r) ==
    /\ pc[r] = "reserved"
    /\ pc' = [pc EXCEPT ![r] = "loading"]
    /\ occupied' = occupied \cup {r}
    /\ UNCHANGED <<active_load_count, reserved_load_memory_mb, reclaim_count,
                   shutdown_requested, external>>

\* LoadReservation::release / ~LoadReservation: after a successful load, or when
\* the load is cancelled before loadModel is called.
ReleaseLoad(r) ==
    /\ r \in Holders
    /\ ReturnReservation(r)
    /\ pc' = [pc EXCEPT ![r] = "idle"]
    /\ UNCHANGED <<reclaim_count, shutdown_requested, occupied, external>>

\* beginReclaim(model): a resident model is to be unloaded.
BeginReclaim(r) ==
    /\ pc[r] = "idle"
    /\ r \in occupied
    /\ reclaim_count' = reclaim_count + 1
    /\ pc' = [pc EXCEPT ![r] = "reclaimWait"]
    /\ UNCHANGED <<active_load_count, reserved_load_memory_mb,
                   shutdown_requested, occupied, external>>

\* beginReclaim(model, move(reservation)): a load failed; its reservation turns
\* into the reclaim in one critical section.
BeginReclaimOfReservation(r) ==
    /\ r \in Holders
    /\ reclaim_count' = reclaim_count + 1
    /\ ReturnReservation(r)
    /\ pc' = [pc EXCEPT ![r] = "reclaimWait"]
    /\ UNCHANGED <<shutdown_requested, occupied, external>>

\* Faulty: the loads under way are not waited for.
StartReclaimAtOnce(r) ==
    /\ pc[r] = "reclaimWait"
    /\ pc' = [pc EXCEPT ![r] = "reclaiming"]
    /\ UNCHANGED <<active_load_count, reserved_load_memory_mb, reclaim_count,
                   shutdown_requested, occupied, external>>

\* cv_.wait(active_load_count_ == 0) returns.
StartReclaim(r) ==
    /\ pc[r] = "reclaimWait"
    /\ active_load_count = 0
    /\ pc' = [pc EXCEPT ![r] = "reclaiming"]
    /\ UNCHANGED <<active_load_count, reserved_load_memory_mb, reclaim_count,
                   shutdown_requested, occupied, external>>

\* unloadBackend and the wait for the DSP to give its memory back.
Unload(r) ==
    /\ pc[r] = "reclaiming"
    /\ r \in occupied
    /\ occupied' = occupied \ {r}
    /\ UNCHANGED <<active_load_count, reserved_load_memory_mb, reclaim_count,
                   shutdown_requested, pc, external>>

\* Faulty: a flag rather than a count.
EndReclaims(r) ==
    /\ pc[r] = "reclaiming"
    /\ r \notin occupied
    /\ reclaim_count' = 0
    /\ pc' = [pc EXCEPT ![r] = "idle"]
    /\ UNCHANGED <<active_load_count, reserved_load_memory_mb,
                   shutdown_requested, occupied, external>>

EndReclaim(r) ==
    /\ pc[r] = "reclaiming"
    /\ r \notin occupied
    /\ reclaim_count' = AtLeast(0, reclaim_count - 1)
    /\ pc' = [pc EXCEPT ![r] = "idle"]
    /\ UNCHANGED <<active_load_count, reserved_load_memory_mb,
                   shutdown_requested, occupied, external>>

Start ==
    /\ shutdown_requested' = FALSE
    /\ UNCHANGED <<active_load_count, reserved_load_memory_mb, reclaim_count,
                   pc, occupied, external>>

Shutdown ==
    /\ shutdown_requested' = TRUE
    /\ UNCHANGED <<active_load_count, reserved_load_memory_mb, reclaim_count,
                   pc, occupied, external>>

\* Other processes allocate and free.
ExternalMemory ==
    /\ external' \in 0..MaxExternal
    /\ UNCHANGED <<active_load_count, reserved_load_memory_mb, reclaim_count,
                   shutdown_requested, pc, occupied>>

Step(r) ==
    \/ TryAcquire(r)
    \/ Acquire(r)
    \/ AcquireGranted(r)
    \/ AcquireThrows(r)
    \/ LoadModel(r)
    \/ ReleaseLoad(r)
    \/ BeginReclaim(r)
    \/ BeginReclaimOfReservation(r)
    \/ StartReclaim(r)
    \/ Unload(r)
    \/ EndReclaim(r)

Next == Start \/ Shutdown \/ ExternalMemory \/ \E r \in Runtime : Step(r)

Spec == Init /\ [][Next]_vars

\* A load ends (loadModel returns or throws, and both give the reservation
\* back), a waiting thread whose predicate holds wakes up, an unload ends, and a
\* thread in acquire re-evaluates its loop.  Nothing forces a thread to start
\* anything.
Fairness ==
    \A r \in Runtime :
        /\ WF_vars(ReleaseLoad(r) \/ BeginReclaimOfReservation(r))
        /\ WF_vars(StartReclaim(r))
        /\ WF_vars(Unload(r))
        /\ WF_vars(EndReclaim(r))
        /\ WF_vars(AcquireGranted(r) \/ AcquireThrows(r))

FairSpec == Spec /\ Fairness

-----------------------------------------------------------------------------
TypeOK ==
    /\ active_load_count \in Nat
    /\ reserved_load_memory_mb \in Nat
    /\ reclaim_count \in Nat
    /\ shutdown_requested \in BOOLEAN
    /\ pc \in [Runtime -> PC]
    /\ occupied \in SUBSET Runtime
    /\ external \in 0..MaxExternal

\* The counters are exactly the RAII objects alive: neither the clamps in
\* releaseLoad, beginReclaim and endReclaim nor a reservation that changes into a
\* reclaim ever loses or repeats one.
CountsMatchOwners ==
    /\ active_load_count = Cardinality(Holders)
    /\ reclaim_count = Cardinality(Reclaimers)

\* No model is loading while another one is being unloaded: the DSP gives memory
\* back only while no load runs (beginReclaim waits for the loads, and acquire and
\* tryAcquire refuse from the moment a reclaim is pending).
LoadReclaimExclusion ==
    \A r \in Runtime : pc[r] = "reclaiming" => Holders = {}

\* Whatever other processes do, the models in memory and those promised memory
\* together leave the configured headroom free.
HeadroomKept ==
    occupied \cup Holders # {} =>
        ModelMemory(occupied \cup Holders) + Headroom <= TotalMemory

\* While any reclaim is pending or under way no thread obtains a reservation,
\* however many reclaims overlap.
NoGrantDuringReclaim == [][Reclaimers # {} => Holders' \subseteq Holders]_vars

\* beginReclaim always gets its turn: new loads are held back until it does.
ReclaimStarts ==
    \A r \in Runtime : pc[r] = "reclaimWait" ~> pc[r] = "reclaiming"

\* Shutting down unblocks every thread waiting in acquire, as the destructors
\* that join those threads need.
ShutdownUnblocksAcquire ==
    \A r \in Runtime :
        shutdown_requested /\ pc[r] = "acquiring"
            ~> pc[r] # "acquiring" \/ ~shutdown_requested

=============================================================================
