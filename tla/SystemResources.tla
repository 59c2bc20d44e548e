---- MODULE SystemResources ----
(* Memory and the number of resident models (managers/system_resource_manager.py  *)
(* with the calls inference_process_manager.py makes of it): a manager asks       *)
(* whether its model fits, ends the processes on the list it gets, spawns, and    *)
(* enters its process in the registry once it is READY. Each manager serves one   *)
(* run at a time (its _async_lock); the managers do not know of each other.       *)
EXTENDS Integers, Sequences, FiniteSets, FiniteSetsExt, SequencesExt

CONSTANTS
    Manager,    \* LLMProcessManager and VLMProcessManager
    Marks,      \* the managers that mark their process active during a run
    Models,     \* Models[m]: what manager m is asked for
    Memory,     \* Memory[x]: the requirement of model x
    Total,      \* memory when no process runs
    Percent,    \* MEMORY_HEADROOM_PERCENT
    Scenarios,  \* the configurations to consider, see Scenario
    None

(* ADHOC_MODE lets one run in at a time over all managers; processes may die by    *)
(* themselves; MAX_ACTIVE_MODELS.                                                 *)
Scenario == [adhoc : BOOLEAN, crashes : BOOLEAN, maxActive : Nat \ {0}]

ASSUME ResourceAssumption ==
    /\ IsFiniteSet(Manager) /\ Marks \subseteq Manager
    /\ \A m \in Manager : \A x \in Models[m] : x # None /\ Memory[x] \in Nat
    /\ Total \in Nat /\ Percent \in Nat /\ Scenarios \subseteq Scenario

VARIABLES
    scenario, \* chosen once
    pc,       \* what the run of a manager does
    asked,    \* the model it is for
    list,     \* the processes it still has to end
    proc,     \* "none", "starting", "alive" or "dead"
    model,    \* current_model
    entry,    \* the registry: the model a process is registered for, or None
    active,   \* the registered processes marked active
    lru       \* the registered processes, the least recently accessed first

vars == <<scenario, pc, asked, list, proc, model, entry, active, lru>>

Adhoc == scenario.adhoc
Crashes == scenario.crashes
MaxActive == scenario.maxActive

TypeOK ==
    /\ scenario \in Scenarios
    /\ pc \in [Manager -> {"idle", "checking", "evicting", "starting", "ready", "running"}]
    /\ proc \in [Manager -> {"none", "starting", "alive", "dead"}]
    /\ \A m \in Manager :
         /\ asked[m] \in Models[m] \cup {None}
         /\ model[m] \in Models[m] \cup {None}
         /\ entry[m] \in Models[m] \cup {None}
         /\ list[m] \in Seq(Manager)
    /\ active \subseteq Manager
    /\ ToSet(lru) = {m \in Manager : entry[m] # None} /\ IsInjective(lru)

Init ==
    /\ scenario \in Scenarios
    /\ pc = [m \in Manager |-> "idle"]
    /\ asked = [m \in Manager |-> None]
    /\ list = [m \in Manager |-> <<>>]
    /\ proc = [m \in Manager |-> "none"]
    /\ model = [m \in Manager |-> None]
    /\ entry = [m \in Manager |-> None]
    /\ active = {} /\ lru = <<>>

-----------------------------------------------------------------------------
(* The registry.                                                                  *)

WithHeadroom(n) == n + (n * Percent) \div 100

Size(x) == IF x = None THEN 0 ELSE Memory[x]

(* What the system reports: a model takes its memory while its process is up.     *)
Available ==
    Total - SumFunctionOnSet([m \in Manager |-> IF proc[m] = "alive" THEN Size(model[m]) ELSE 0], Manager)

RegisteredMemory(ms) == SumFunctionOnSet([m \in Manager |-> Size(entry[m])], ms)

(* What is left of s, in order. (Not SelectSeq, whose definition a proof cannot   *)
(* look into.)                                                                    *)
Without(s, gone) ==
    LET left[n \in 0 .. Len(s)] ==
          IF n = 0 THEN <<>>
          ELSE IF s[n] \in gone THEN left[n - 1] ELSE Append(left[n - 1], s[n])
    IN  left[Len(s)]

IdleByAge == Without(lru, active)

(* How many of the idle processes have to go whatever the memory is.              *)
OverLimit == IF Len(lru) >= MaxActive THEN Len(lru) - MaxActive + 1 ELSE 0

(* Mutant: The headroom left out. *)
NoHeadroom(n, need) ==
    Available + RegisteredMemory(ToSet(SubSeq(IdleByAge, 1, n))) >= need

Enough(n, need) == Available + RegisteredMemory(ToSet(SubSeq(IdleByAge, 1, n))) >= WithHeadroom(need)

(* check_memory_availability: the first idle processes, as few as will do.        *)
CheckMemory(need) ==
    LET counts == {n \in OverLimit .. Len(IdleByAge) : Enough(n, need)}
    IN  [sufficient |-> counts # {},
         evict      |-> IF counts = {} THEN <<>> ELSE SubSeq(IdleByAge, 1, Min(counts))]

Touched(m) == Append(Without(lru, {m}), m)

Register(m) ==
    /\ entry' = [entry EXCEPT ![m] = asked[m]]
    /\ lru' = Append(lru, m)
    /\ UNCHANGED active

(* Mutant: _cleanup_process forgets to unregister. *)
CleanUpKeepsEntry(ms) ==
    /\ proc' = [m \in Manager |-> IF m \in ms THEN "none" ELSE proc[m]]
    /\ model' = [m \in Manager |-> IF m \in ms THEN None ELSE model[m]]
    /\ UNCHANGED <<entry, active, lru>>

(* _cleanup_process of the managers ms: unregistered, socket and process gone.    *)
CleanUp(ms) ==
    /\ entry' = [m \in Manager |-> IF m \in ms THEN None ELSE entry[m]]
    /\ proc' = [m \in Manager |-> IF m \in ms THEN "none" ELSE proc[m]]
    /\ model' = [m \in Manager |-> IF m \in ms THEN None ELSE model[m]]
    /\ active' = active \ ms
    /\ lru' = Without(lru, ms)

-----------------------------------------------------------------------------
(* A run of a manager.                                                            *)

At(m, where) == pc' = [pc EXCEPT ![m] = where]

MayAsk(m) == pc[m] = "idle" /\ (Adhoc => \A q \in Manager : pc[q] = "idle")

(* _ensure_process_running: another model than the current one ends the process;  *)
(* a process that died keeps its entry.                                           *)
Ask(m, x) ==
    /\ MayAsk(m)
    /\ asked' = [asked EXCEPT ![m] = x]
    /\ IF model[m] \in {None, x}
       THEN /\ At(m, IF proc[m] = "alive" THEN "ready" ELSE "checking")
            /\ UNCHANGED <<entry, proc, model, active, lru>>
       ELSE At(m, "checking") /\ CleanUp({m})
    /\ UNCHANGED <<scenario, list>>

(* _check_memory_and_evict_if_needed: a refusal is an error of the start, which   *)
(* cleans up after itself.                                                        *)
Check(m) ==
    /\ pc[m] = "checking"
    /\ LET result == CheckMemory(Memory[asked[m]])
       IN  IF result.sufficient
           THEN /\ At(m, "evicting")
                /\ list' = [list EXCEPT ![m] = result.evict]
                /\ UNCHANGED <<entry, proc, model, active, lru>>
           ELSE /\ At(m, "idle")
                /\ CleanUp({m})
                /\ UNCHANGED list
    /\ UNCHANGED <<scenario, asked>>

Evict(m) ==
    /\ pc[m] = "evicting" /\ list[m] # <<>>
    /\ CleanUp({Head(list[m])})
    /\ list' = [list EXCEPT ![m] = Tail(@)]
    /\ UNCHANGED <<scenario, pc, asked>>

Spawn(m) ==
    /\ pc[m] = "evicting" /\ list[m] = <<>>
    /\ At(m, "starting")
    /\ proc' = [proc EXCEPT ![m] = "starting"]
    /\ UNCHANGED <<scenario, asked, list, model, entry, active, lru>>

(* READY: the model is loaded; who has an entry already is not entered again.     *)
Started(m) ==
    /\ pc[m] = "starting" /\ proc[m] = "starting"
    /\ At(m, "ready")
    /\ proc' = [proc EXCEPT ![m] = "alive"]
    /\ model' = [model EXCEPT ![m] = asked[m]]
    /\ IF entry[m] = None THEN Register(m) ELSE UNCHANGED <<entry, active, lru>>
    /\ UNCHANGED <<scenario, asked, list>>

(* The process ended before it was READY.                                         *)
StartFails(m) ==
    /\ pc[m] = "starting" /\ proc[m] \in {"none", "dead"}
    /\ At(m, "idle") /\ CleanUp({m})
    /\ UNCHANGED <<scenario, asked, list>>

Execute(m) ==
    /\ pc[m] = "ready"
    /\ At(m, "running")
    /\ IF m \in Marks /\ entry[m] # None
       THEN active' = active \cup {m} /\ lru' = Touched(m)
       ELSE UNCHANGED <<active, lru>>
    /\ UNCHANGED <<scenario, asked, list, proc, model, entry>>

(* A run whose process is gone fails, and the event ends what is left of it.      *)
EndRun(m) ==
    /\ pc[m] = "running"
    /\ At(m, "idle")
    /\ IF proc[m] # "alive"
       THEN CleanUp({m})
       ELSE /\ active' = active \ {m}
            /\ lru' = IF m \in active THEN Touched(m) ELSE lru
            /\ UNCHANGED <<entry, proc, model>>
    /\ UNCHANGED <<scenario, asked, list>>

Crash(m) ==
    /\ Crashes /\ proc[m] \in {"starting", "alive"}
    /\ proc' = [proc EXCEPT ![m] = "dead"]
    /\ UNCHANGED <<scenario, pc, asked, list, model, entry, active, lru>>

Next ==
    \E m \in Manager :
      \/ \E x \in Models[m] : Ask(m, x)
      \/ Check(m) \/ Evict(m) \/ Spawn(m) \/ Started(m) \/ StartFails(m)
      \/ Execute(m) \/ EndRun(m) \/ Crash(m)

Spec == Init /\ [][Next]_vars

-----------------------------------------------------------------------------
(* Once the list of a check is worked off, the memory it spoke of is there. A       *)
(* process that dies by itself breaks it: its memory is counted as free and as     *)
(* still to be freed.                                                             *)
MemoryIsThere ==
    \A m \in Manager :
      pc[m] = "evicting" /\ list[m] = <<>> => Available >= WithHeadroom(Memory[asked[m]])

(* MAX_ACTIVE_MODELS bounds the processes that run, those included that are still  *)
(* starting and those that replace a dead one.                                    *)
WithinLimit == Cardinality({m \in Manager : proc[m] \in {"starting", "alive"}}) <= MaxActive

(* What a check promises, check_memory_availability and the evictions after it     *)
(* keep, while the queue admits one run at a time: the managers do not get between *)
(* the check and the start of one of them.                                        *)
PromiseKept == Adhoc => WithinLimit /\ (~Crashes => MemoryIsThere)

(* The registry does not outlive the handle of a process: an entry always names    *)
(* the model its manager last loaded, though the other manager may unregister it   *)
(* and end its process in every phase of a start, a run or a restart.              *)
EntryNamesModel == \A m \in Manager : entry[m] # None => model[m] = entry[m]
====
