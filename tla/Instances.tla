------------------------------ MODULE Instances ------------------------------
(***************************************************************************)
(* The instance manager (maestro/instances.py, api_instances.py): spawning *)
(* and stopping cluster members on one host, with a registry file, Docker  *)
(* containers and a shared Redis.                                          *)
(*                                                                         *)
(* Every operation runs on a thread of the server or of the terminal; what *)
(* it read is old by the time it writes.  The registry is rewritten as a   *)
(* whole, and emptied first.  Commands fail, of which the code often does  *)
(* not take notice; containers die, and the process may end anywhere.      *)
(*                                                                         *)
(* Abstractions.  A port belongs to a number and is not modelled apart.    *)
(* Names, addresses and health are left out, and so are the networks and   *)
(* the count of shards that is published beside the list of members.       *)
(***************************************************************************)
EXTENDS Integers, FiniteSets, FiniteSetsExt, Functions

CONSTANTS
    Workers,        \* threads
    Overlap,        \* can operations overlap
    MaxNumber,      \* bound: instance numbers
    MaxOperations,  \* bound: spawns and stops
    MaxFaults       \* bound: commands that fail, containers that die, crashes

InstancesAssumption ==
    /\ IsFiniteSet(Workers) /\ Overlap \in BOOLEAN
    /\ MaxNumber \in Nat \ {0} /\ MaxOperations \in Nat /\ MaxFaults \in Nat

Numbers == 1 .. MaxNumber
NoIndex == -1
Entry == [role : {"orchestrator", "shard"}, index : Numbers \cup {0, NoIndex}]
IsRegistry(r) == DOMAIN r \subseteq Numbers /\ \A n \in DOMAIN r : r[n] \in Entry
Empty == [n \in {} |-> NoIndex]

VARIABLES
    running,     \* containers that run, by number
    file,        \* .maestro-instances.json: the instances
    torn,        \* the file is emptied and not yet written
    redis,       \* is the shared Redis there
    published,   \* maestro:cluster:members in it
    job,         \* what each thread is at
    settled,     \* history: the last operation that changed the registry published it
    missed,      \* history: members that a command failed to stop or to list, unnoticed,
                 \* since the shared Redis was last seen to be there
    operations, faults

shared == <<file, torn>>
vars == <<running, shared, redis, published, job, settled, missed, operations, faults>>

NoJob == [pc |-> "idle", op |-> "none", n |-> 1, entry |-> [role |-> "shard", index |-> NoIndex],
          copy |-> Empty, todo |-> {}]

Idle(w) == job[w].pc = "idle"
Quiet == \A w \in Workers : Idle(w)

Goto(w, pc) == job' = [job EXCEPT ![w].pc = pc]
Finish(w) == job' = [job EXCEPT ![w] = NoJob]

Fault == faults < MaxFaults /\ faults' = faults + 1
Succeeds(ok) == IF ok THEN UNCHANGED faults ELSE Fault

\* detect_running: nothing runs, if docker ps fails.
Seen(ok) == IF ok THEN running ELSE {}

\* _load_registry: a file that cannot be read as JSON is an empty registry.
Registry == IF torn THEN Empty ELSE file

Shards(registry) == {n \in DOMAIN registry : registry[n].role = "shard"}

Begin(w, op, pc, n, todo) ==
    /\ Idle(w) /\ (Overlap \/ Quiet)
    /\ operations < MaxOperations /\ operations' = operations + 1
    /\ job' = [job EXCEPT ![w] = [NoJob EXCEPT !.op = op, !.pc = pc, !.n = n, !.todo = todo]]
    /\ UNCHANGED <<running, shared, redis, published, settled>>

------------------------------------------------------------------------------
(* spawn                                                                   *)

\* next_instance_number: one more than the last one anybody knows of.
NextNumber(seen) == Max({0} \cup seen \cup DOMAIN Registry) + 1

Spawn(w, ok) ==
    /\ NextNumber(Seen(ok)) \in Numbers
    /\ Begin(w, "spawn", "role", NextNumber(Seen(ok)), {})
    /\ Succeeds(ok) /\ UNCHANGED missed

\* The lowest index no registered shard has.
FreeIndex ==
    Min({i \in 0 .. MaxNumber : \A m \in Shards(Registry) : Registry[m].index # i})

\* Slip: members that are registered and do not run are not counted.
RoleOfRunning(n, seen) ==
    IF seen = {} \/ n = 1
      THEN [role |-> "orchestrator", index |-> NoIndex]
      ELSE [role |-> "shard", index |-> FreeIndex]

\* The first instance is the orchestrator.
Role(n, seen) ==
    IF (seen = {} /\ DOMAIN Registry = {}) \/ n = 1
      THEN [role |-> "orchestrator", index |-> NoIndex]
      ELSE [role |-> "shard", index |-> FreeIndex]

ChooseRole(w, ok) ==
    /\ job[w].pc = "role"
    /\ job' = [job EXCEPT ![w].entry = Role(job[w].n, Seen(ok)), ![w].pc = "redis"]
    /\ Succeeds(ok)
    /\ UNCHANGED <<running, shared, redis, published, settled, missed, operations>>

\* _ensure_shared_redis: a new Redis is empty.  It raises when it cannot start
\* one, which it tries when it fails to see the one there is, too.
EnsureRedis(w, ok) ==
    /\ job[w].pc = "redis"
    /\ IF ok THEN redis' = TRUE /\ missed' = {} /\ Goto(w, "cleanup")
             ELSE UNCHANGED <<redis, missed>> /\ Finish(w)
    /\ Succeeds(ok)
    /\ UNCHANGED <<running, shared, published, settled, operations>>

\* Whatever holds this number's containers or port is taken down; if that fails,
\* the port is in use and spawn raises.
CleanUp(w, ok) ==
    /\ job[w].pc = "cleanup"
    /\ IF ok THEN running' = running \ {job[w].n} /\ Goto(w, "up")
             ELSE UNCHANGED running /\ Finish(w)
    /\ Succeeds(ok)
    /\ UNCHANGED <<shared, redis, published, settled, missed, operations>>

\* compose up; when it fails spawn raises.
Up(w, ok) ==
    /\ job[w].pc = "up"
    /\ IF ok THEN running' = running \cup {job[w].n} /\ Goto(w, "load")
             ELSE UNCHANGED running /\ Finish(w)
    /\ Succeeds(ok)
    /\ UNCHANGED <<shared, redis, published, settled, missed, operations>>

------------------------------------------------------------------------------
(* stop, stop_all                                                          *)

\* The endpoint stops what runs, the terminal any member it lists.
Stop(w, n) ==
    /\ n \in running \cup DOMAIN Registry
    /\ Begin(w, "stop", "down", n, {}) /\ UNCHANGED <<faults, missed>>

StopAll(w, ok) ==
    /\ IF Seen(ok) = {} THEN Begin(w, "stop_all", "redis_down", 1, {})
       ELSE Begin(w, "stop_all", "down", Min(running), running \ {Min(running)})
    /\ missed' = missed \cup (running \ Seen(ok))
    /\ Succeeds(ok)

\* compose down, whose result is not looked at.
Down(w, ok) ==
    /\ job[w].pc = "down"
    /\ IF ok THEN running' = running \ {job[w].n} /\ UNCHANGED missed
             ELSE UNCHANGED running /\ missed' = missed \cup {job[w].n}
    /\ Goto(w, "load")
    /\ Succeeds(ok)
    /\ UNCHANGED <<shared, redis, published, settled, operations>>

------------------------------------------------------------------------------
(* _register_instance, _unregister_instance: load, change, save.           *)

\* The registry as it will be written.
Changed(w) ==
    IF job[w].op = "spawn"
      THEN [n \in DOMAIN Registry \cup {job[w].n} |->
               IF n = job[w].n THEN job[w].entry ELSE Registry[n]]
      ELSE Restrict(Registry, DOMAIN Registry \ {job[w].n})

Load(w) ==
    /\ job[w].pc = "load"
    /\ job' = [job EXCEPT ![w].copy = Changed(w), ![w].pc = "save"]
    /\ UNCHANGED <<running, shared, redis, published, settled, missed, operations, faults>>

\* open(path, "w")
Truncate(w) ==
    /\ job[w].pc = "save"
    /\ torn' = TRUE
    /\ Goto(w, "write")
    /\ UNCHANGED <<running, file, redis, published, settled, missed, operations, faults>>

\* What comes after the registry is written: the next instance to stop, Redis,
\* or nothing.
AfterWrite(w) ==
    CASE job[w].op \in {"spawn", "stop"} -> [job[w] EXCEPT !.pc = "broadcast"]
      [] job[w].op = "stop_all" /\ job[w].todo # {} ->
            [job[w] EXCEPT !.pc = "down", !.n = Min(job[w].todo), !.todo = @ \ {Min(@)}]
      [] job[w].op = "stop_all" /\ job[w].todo = {} -> [job[w] EXCEPT !.pc = "redis_down"]
      [] job[w].op = "clear" -> NoJob

Write(w) ==
    /\ job[w].pc = "write"
    /\ file' = job[w].copy /\ torn' = FALSE
    /\ job' = [job EXCEPT ![w] = AfterWrite(w)]
    /\ settled' = IF AfterWrite(w) = NoJob THEN ~redis ELSE settled
    /\ UNCHANGED <<running, redis, published, missed, operations, faults>>

\* _broadcast_shard_count: into Redis, if it is there and can be reached; whether
\* it was is not looked at.
Broadcast(w, ok) ==
    /\ job[w].pc = "broadcast"
    /\ published' = IF redis /\ ok THEN Registry ELSE published
    /\ settled' = (redis /\ ok)
    /\ IF job[w].op = "stop" THEN Goto(w, "tidy") ELSE Finish(w)
    /\ Succeeds(ok)
    /\ UNCHANGED <<running, shared, redis, missed, operations>>

\* _stop_shared_redis, whose result is not looked at either.
RemoveRedis(gone) ==
    IF gone THEN redis' = FALSE /\ published' = Empty ELSE UNCHANGED <<redis, published>>

\* stop, at its end: the shared Redis goes with the last member that is seen.
Tidy(w, ok, gone) ==
    /\ job[w].pc = "tidy"
    /\ IF Seen(ok) = {} /\ DOMAIN Registry = {} THEN RemoveRedis(gone) ELSE RemoveRedis(FALSE)
    /\ missed' = missed \cup (running \ Seen(ok))
    /\ settled' = (settled \/ (~redis' /\ DOMAIN Registry = {}))
    /\ Finish(w) /\ Succeeds(ok /\ gone)
    /\ UNCHANGED <<running, shared, operations>>

\* stop_all, at its end: Redis, then the whole registry.
RedisDown(w, gone) ==
    /\ job[w].pc = "redis_down"
    /\ RemoveRedis(gone)
    /\ job' = [job EXCEPT ![w].copy = Empty, ![w].op = "clear", ![w].pc = "save"]
    /\ Succeeds(gone)
    /\ UNCHANGED <<running, shared, settled, missed, operations>>

------------------------------------------------------------------------------
\* A container dies; the process ends and its threads with it.
Die(n) ==
    /\ n \in running /\ Fault
    /\ running' = running \ {n}
    /\ UNCHANGED <<shared, redis, published, job, settled, missed, operations>>

Crash ==
    /\ ~Quiet /\ Fault
    /\ job' = [w \in Workers |-> NoJob] /\ settled' = FALSE
    /\ UNCHANGED <<running, shared, redis, published, missed, operations>>

Init ==
    /\ running = {} /\ file = Empty /\ torn = FALSE
    /\ redis = FALSE /\ published = Empty
    /\ job = [w \in Workers |-> NoJob]
    /\ settled = TRUE /\ missed = {} /\ operations = 0 /\ faults = 0

Proceed(w) ==
    \/ Load(w) \/ Truncate(w) \/ Write(w)
    \/ \E ok \in BOOLEAN :
          \/ ChooseRole(w, ok) \/ EnsureRedis(w, ok) \/ CleanUp(w, ok) \/ Up(w, ok)
          \/ Down(w, ok) \/ Broadcast(w, ok) \/ RedisDown(w, ok)
          \/ \E gone \in BOOLEAN : Tidy(w, ok, gone)

Next ==
    \/ \E w \in Workers :
          \/ Proceed(w)
          \/ \E ok \in BOOLEAN : Spawn(w, ok) \/ StopAll(w, ok)
          \/ \E n \in Numbers : Stop(w, n)
    \/ \E n \in Numbers : Die(n)
    \/ Crash

Spec == Init /\ [][Next]_vars

------------------------------------------------------------------------------
Steps == {"idle", "role", "redis", "cleanup", "up", "down", "load", "save", "write", "broadcast",
          "tidy", "redis_down"}
Operations == {"none", "spawn", "stop", "stop_all", "clear"}

\* Every variable has its type; Redis publishes nothing while it is not there.
TypeOK ==
    /\ running \subseteq Numbers /\ missed \subseteq Numbers
    /\ IsRegistry(file) /\ IsRegistry(published)
    /\ {torn, redis, settled} \subseteq BOOLEAN
    /\ \A w \in Workers :
          /\ job[w].pc \in Steps /\ job[w].op \in Operations
          /\ job[w].n \in Numbers /\ job[w].entry \in Entry
          /\ IsRegistry(job[w].copy) /\ job[w].todo \subseteq Numbers
    /\ ~redis => published = Empty

\* Registered shards have an index each, and there is one orchestrator at most,
\* whatever died, failed, was cut short or could not be read or seen before
\* (instances.py:18 "A unique shard index").
MembersDistinct ==
    \A n, m \in DOMAIN file : n # m => file[n] # file[m]

\* No member outlives the shared Redis, which is taken down with the last one,
\* but those that a command failed to stop or to list without notice.
MembersHaveRedis == Quiet /\ running \ missed # {} => redis

\* Between operations Redis publishes the members the registry has, unless the
\* last operation that changed the registry was cut short or failed to publish
\* it, of which it takes no notice (instances.py:688 "so every node in the
\* cluster knows the current topology").
TopologyPublished == Quiet /\ settled /\ redis => published = file

\* What there is of the cluster fits together.
ClusterConsistent == MembersDistinct /\ MembersHaveRedis /\ TopologyPublished
==============================================================================
