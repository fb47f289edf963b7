------------------------------ MODULE Cluster -------------------------------
(***************************************************************************)
(* Tasks of a cluster (maestro/cluster.py, state_bus.py, api_cluster.py,   *)
(* node_server.py): the orchestrator records a task on the Redis bus and   *)
(* forwards it to the shard its id hashes to; the shard checks that it     *)
(* owns the task, runs it and moves it from the tasks to the results.      *)
(*                                                                         *)
(* Every process reads its index and the number of shards from its         *)
(* environment when it starts, and connects to the bus then or never.      *)
(* Redis keeps what it was told, and may be out of reach for a while.      *)
(*                                                                         *)
(* Abstractions.  A task is the hash of its id.  Prompts, metadata, health *)
(* and attestations, which nobody acts on, are left out.                   *)
(***************************************************************************)
EXTENDS Integers, FiniteSets, Functions

CONSTANTS
    Tasks,       \* hashes of task ids
    Names,       \* node ids, which are also host names
    Service,     \* Service[i]: the name Docker Compose gives to shard i
    Counts,      \* numbers of shards a process may be started with
    MaxStarts,   \* bound: starts of shards
    MaxFaults    \* bound: processes that end, calls that fail

ClusterAssumption ==
    /\ Tasks \subseteq Nat /\ IsFiniteSet(Names)
    /\ Counts \subseteq Nat \ {0, 1}    \* with 1 a shard is standalone and owns all
    /\ \A k \in Counts : 0 .. k - 1 \subseteq DOMAIN Service
    /\ MaxStarts \in Nat /\ MaxFaults \in Nat

VARIABLES
    redis,      \* is Redis within reach
    shards,     \* maestro:shards: the index each node announced
    tasks,      \* maestro:tasks: the shard each task was assigned to
    results,    \* maestro:results: who ran each task
    node,       \* running shards: index, count, connected, and the task in hand
    hub,        \* the orchestrator: count, connected, and the dispatch in hand
    recorded,   \* history: tasks that reached the bus
    starts, faults

bus == <<shards, tasks, results>>
vars == <<redis, bus, node, hub, recorded, starts, faults>>

Fault == faults < MaxFaults /\ faults' = faults + 1
None == -1

assign_shard(t, count) == t % count

is_task_owned(t, index, count) == assign_shard(t, count) = index

Put(f, key, value) == [x \in DOMAIN f \cup {key} |-> IF x = key THEN value ELSE f[x]]
Without(f, key) == Restrict(f, DOMAIN f \ {key})

\* A call of the bus, silent when the bus was not there at the start or is not
\* there now.
Reaches(process) == process.connected /\ redis

------------------------------------------------------------------------------
(* Processes                                                               *)

\* Start of a shard: its environment is read, it connects, and announces itself.
StartShard(n, index, count) ==
    /\ n \notin DOMAIN node /\ index < count
    /\ starts < MaxStarts /\ starts' = starts + 1
    /\ node' = Put(node, n, [index |-> index, count |-> count, connected |-> redis,
                             task |-> None, done |-> FALSE])
    /\ shards' = IF redis THEN Put(shards, n, index) ELSE shards
    /\ UNCHANGED <<redis, tasks, results, hub, recorded, faults>>

\* A shard leaves the bus when it shuts down, and not when it is killed.
EndShard(n, killed) ==
    /\ n \in DOMAIN node
    /\ shards' = IF (~killed) /\ Reaches(node[n]) THEN Without(shards, n) ELSE shards
    /\ node' = Without(node, n)
    /\ Fault
    /\ UNCHANGED <<redis, tasks, results, hub, recorded, starts>>

Waiting(count, connected) ==
    [count |-> count, connected |-> connected, pc |-> "idle", task |-> None, to |-> None]

\* The orchestrator ends, whatever it is at, and starts again.
RestartHub(count) ==
    /\ hub' = Waiting(count, redis)
    /\ Fault
    /\ UNCHANGED <<redis, bus, node, recorded, starts>>

RedisGoesAndComes ==
    /\ redis' = ~redis
    /\ IF redis THEN Fault ELSE UNCHANGED faults
    /\ UNCHANGED <<bus, node, hub, recorded, starts>>

------------------------------------------------------------------------------
(* dispatch_task                                                           *)

Assign(t) ==
    /\ hub.pc = "idle"
    /\ hub' = [hub EXCEPT !.pc = "resolve", !.task = t]
    /\ IF Reaches(hub)
         THEN /\ tasks' = Put(tasks, t, assign_shard(t, hub.count))
              /\ recorded' = recorded \cup {t}
         ELSE UNCHANGED <<tasks, recorded>>
    /\ UNCHANGED <<redis, shards, results, node, starts, faults>>

\* _shard_urls: who announced the index; when nobody announced anything, or the
\* bus does not answer, the names of Docker Compose.
Hosts(index) ==
    IF Reaches(hub) /\ DOMAIN shards # {}
      THEN {n \in DOMAIN shards : shards[n] = index}
      ELSE {Service[index]}

\* Nobody to forward to: the caller is told 503, and the record stays.
Resolve ==
    /\ hub.pc = "resolve"
    /\ LET hosts == Hosts(assign_shard(hub.task, hub.count)) IN
       \/ \E n \in hosts : hub' = [hub EXCEPT !.pc = "forward", !.to = n]
       \/ hosts = {} /\ hub' = Waiting(hub.count, hub.connected)
    /\ UNCHANGED <<redis, bus, node, recorded, starts, faults>>

\* The shard accepts the task if it owns it, and answers 409 if not; when it is
\* not there the caller is told 503.
Forward ==
    /\ hub.pc = "forward"
    /\ hub' = Waiting(hub.count, hub.connected)
    /\ LET n == hub.to IN
       IF n \in DOMAIN node /\ is_task_owned(hub.task, node[n].index, node[n].count)
         THEN node[n].task = None /\ node' = [node EXCEPT ![n].task = hub.task]
         ELSE UNCHANGED node
    /\ UNCHANGED <<redis, bus, recorded, starts, faults>>

------------------------------------------------------------------------------
(* complete_task, two commands one after the other                         *)

\* Slip: the task is deleted before its result is stored.
StoreLate(n) ==
    /\ n \in DOMAIN node /\ node[n].task # None /\ ~node[n].done
    /\ IF Reaches(node[n])
         THEN tasks' = Without(tasks, node[n].task) /\ node' = [node EXCEPT ![n].done = TRUE]
         ELSE node' = [node EXCEPT ![n].task = None] /\ UNCHANGED tasks
    /\ UNCHANGED <<redis, shards, results, hub, recorded, starts, faults>>

Store(n) ==
    /\ n \in DOMAIN node /\ node[n].task # None /\ ~node[n].done
    /\ IF Reaches(node[n])
         THEN /\ results' = Put(results, node[n].task, [index |-> node[n].index, count |-> node[n].count])
              /\ node' = [node EXCEPT ![n].done = TRUE]
         ELSE node' = [node EXCEPT ![n].task = None] /\ UNCHANGED results
    /\ UNCHANGED <<redis, shards, tasks, hub, recorded, starts, faults>>

Clear(n) ==
    /\ n \in DOMAIN node /\ node[n].done
    /\ tasks' = IF redis THEN Without(tasks, node[n].task) ELSE tasks
    /\ node' = [node EXCEPT ![n].task = None, ![n].done = FALSE]
    /\ UNCHANGED <<redis, shards, results, hub, recorded, starts, faults>>

------------------------------------------------------------------------------

Init ==
    /\ redis \in BOOLEAN
    /\ shards = [n \in {} |-> None] /\ tasks = [t \in {} |-> None] /\ results = [t \in {} |-> None]
    /\ node = [n \in {} |-> None]
    /\ \E count \in Counts : hub = Waiting(count, redis)
    /\ recorded = {} /\ starts = 0 /\ faults = 0

Next ==
    \/ \E n \in Names :
          \/ \E count \in Counts : \E index \in 0 .. count - 1 : StartShard(n, index, count)
          \/ \E killed \in BOOLEAN : EndShard(n, killed)
          \/ Store(n) \/ Clear(n)
    \/ \E count \in Counts : RestartHub(count)
    \/ RedisGoesAndComes
    \/ \E t \in Tasks : Assign(t)
    \/ Resolve \/ Forward

Spec == Init /\ [][Next]_vars

------------------------------------------------------------------------------
(* Properties                                                              *)

Ran == [index : Nat, count : Counts]

TypeOK ==
    /\ redis \in BOOLEAN
    /\ DOMAIN shards \subseteq Names /\ DOMAIN tasks \subseteq Tasks
    /\ DOMAIN results \subseteq Tasks /\ \A t \in DOMAIN results : results[t] \in Ran
    /\ DOMAIN node \subseteq Names
    /\ \A n \in DOMAIN node :
          /\ node[n].count \in Counts /\ node[n].index \in 0 .. node[n].count - 1
          /\ node[n].task \in Tasks \cup {None}
          /\ node[n].done => node[n].task \in Tasks
    /\ hub.count \in Counts /\ hub.pc \in {"idle", "resolve", "forward"}
    /\ hub.task \in Tasks \cup {None}

\* Whoever announced which index, and however old the announcement is: a task
\* is run by the shard its id hashes to among as many shards as that shard
\* believes there are.  So where all processes were started with one number,
\* every task has one owner.
RunByOwner == \A t \in DOMAIN results : assign_shard(t, results[t].count) = results[t].index

\* Through crashes of every process, and while Redis comes and goes: a task
\* that reached the bus is there as a task or as a result.
TasksKept == recorded \subseteq DOMAIN tasks \cup DOMAIN results

TasksAccounted == RunByOwner /\ TasksKept
=============================================================================
