--------------------------- MODULE ServicesProofs ---------------------------
(***************************************************************************)
(* Proofs about the components of Services, for every value of the         *)
(* constants: what the runs of MCServices check for a few.  A component    *)
(* has a section, with an invariant of its own, which its Init begins and  *)
(* its Next keeps; the last section puts them together.                    *)
(***************************************************************************)
EXTENDS Services, Recursion, SequenceTheorems

------------------------------------------------------------------------------
(* The instance manager (Instances.tla).  The registry has an entry a      *)
(* number, and what an operation carries between its steps agrees with it. *)

InstancesRegistries == UNION {[D -> Instances!Entry] : D \in SUBSET Instances!Numbers}
InstancesJobs == [pc : Instances!Steps, op : Instances!Operations, n : Instances!Numbers,
      entry : Instances!Entry, copy : InstancesRegistries, todo : SUBSET Instances!Numbers]

InstancesDistinct(r) == \A n, m \in DOMAIN r : n # m => r[n] # r[m]

InstancesTyped ==
    /\ running \subseteq Instances!Numbers /\ missed \subseteq Instances!Numbers
    /\ file \in InstancesRegistries
    /\ published \in InstancesRegistries
    /\ torn \in BOOLEAN /\ instanceRedis \in BOOLEAN /\ settled \in BOOLEAN
    /\ instanceJob \in [InstanceWorkers -> InstancesJobs]

\* What is so at each step of an operation.
InstancesPreparing(j) ==
    /\ j.pc \in {"role", "redis", "cleanup", "up"} => j.op = "spawn"
    /\ j.pc = "role" => \A m \in DOMAIN Instances!Registry : m < j.n
    /\ j.pc \in {"redis", "cleanup", "up"} \/ (j.pc = "load" /\ j.op = "spawn") =>
          \A m \in DOMAIN Instances!Registry : Instances!Registry[m] # j.entry
    /\ j.pc \in {"cleanup", "up"} \/ (j.op = "spawn" /\ j.pc \in {"load", "save", "write", "broadcast"})
       => instanceRedis

InstancesStopping(j) ==
    /\ j.pc = "down" => j.op \in {"stop", "stop_all"}
    /\ j.op = "stop_all" =>
          /\ j.pc \in {"down", "load", "save", "write", "redis_down"}
          /\ running \subseteq missed \cup j.todo \cup (IF j.pc = "down" THEN {j.n} ELSE {})
    /\ j.pc = "redis_down" => j.op = "stop_all" /\ j.todo = {}
    /\ j.op = "clear" => j.pc \in {"save", "write"} /\ j.copy = Instances!Empty

InstancesSaving(j) ==
    /\ j.pc = "load" => j.op \in {"spawn", "stop", "stop_all"}
    /\ j.pc \in {"save", "write"} => j.op \in {"spawn", "stop", "stop_all", "clear"}
       /\ InstancesDistinct(j.copy)
    /\ j.pc = "broadcast" => j.op \in {"spawn", "stop"} /\ ~torn
    /\ j.pc = "tidy" => j.op = "stop" /\ ~torn /\ (settled => instanceRedis /\ published = file)

InstancesStage(j) == InstancesPreparing(j) /\ InstancesStopping(j) /\ InstancesSaving(j)
      /\ (j.pc = "idle" => j = Instances!NoJob)

\* The steps before which an operation has changed nothing that is published.
InstancesCalm(j) == j.pc \in {"idle", "role", "redis", "cleanup", "up"}

InstancesInv ==
    /\ InstancesTyped
    /\ \A w, u \in InstanceWorkers : ~Instances!Idle(w) /\ ~Instances!Idle(u) => w = u
    /\ \A w \in InstanceWorkers : InstancesStage(instanceJob[w])
    /\ InstancesDistinct(file)
    /\ ~instanceRedis => running \subseteq missed
    /\ ~instanceRedis => published = Instances!Empty
    /\ (\A w \in InstanceWorkers : InstancesCalm(instanceJob[w])) /\ settled => published = file
       /\ ~torn

------------------------------------------------------------------------------
\* The least of some numbers, and the greatest of the first ones, are among them.
LEMMA InstancesLeastOf == ASSUME NEW S \in SUBSET Nat, S # {} PROVE Instances!Min(S) \in S
<1>1. PICK n \in S : \A m \in S : n <= m
  BY LeastNumber
<1> QED
  BY <1>1 DEF Instances!Min

\* A set of numbers up to a bound has a greatest, which Max finds.
LEMMA InstancesGreatestOf ==
    ASSUME NEW k \in Nat, NEW S \in SUBSET (0 .. k), S # {}
    PROVE  Instances!Max(S) \in S /\ \A m \in S : m <= Instances!Max(S)
<1> DEFINE Distances == {k - m : m \in S}
<1>1. Distances \in SUBSET Nat /\ Distances # {}
  <2>1. \A m \in S : k - m \in Nat
    OBVIOUS
  <2> QED BY <2>1
<1>2. PICK d \in Distances : \A e \in Distances : d <= e
  BY <1>1, LeastNumber
<1>3. PICK n \in S : d = k - n
  OBVIOUS
<1>4. \A m \in S : k - m \in Distances
  OBVIOUS
<1> HIDE DEF Distances
<1>5. \A m \in S : m <= n
  BY <1>2, <1>3, <1>4
<1> QED
  BY <1>5 DEF Instances!Max

\* Registries are functions from numbers to members.
LEMMA InstancesRegistered ==
    /\ Instances!Empty \in InstancesRegistries /\ DOMAIN Instances!Empty = {}
    /\ \A r \in InstancesRegistries : DOMAIN r \subseteq Instances!Numbers
       /\ (\A n \in DOMAIN r : r[n] \in Instances!Entry) /\ Instances!IsRegistry(r)
    /\ \A D \in SUBSET Instances!Numbers : \A r \in [D -> Instances!Entry] : r \in InstancesRegistries
    /\ \A r \in InstancesRegistries : r \in [DOMAIN r -> Instances!Entry]
    /\ \A r \in InstancesRegistries : DOMAIN r = {} => r = Instances!Empty
  BY DEF InstancesRegistries, Instances!Empty, Instances!IsRegistry

\* The numbers there are.
LEMMA InstancesNumbersAre ==
    ASSUME Instances!InstancesAssumption
    PROVE  Instances!Numbers = 1 .. MaxNumber /\ MaxNumber \in Nat /\ 1 \in Instances!Numbers
           /\ Instances!Numbers \in SUBSET Nat
  BY DEF Instances!InstancesAssumption, Instances!Numbers

\* A worker without a job is at no step of any.
LEMMA InstancesNoJobIs ==
    ASSUME Instances!InstancesAssumption
    PROVE  Instances!NoJob \in InstancesJobs /\ Instances!NoJob.pc = "idle"
           /\ Instances!NoJob.op = "none" /\ InstancesStage(Instances!NoJob)
           /\ InstancesCalm(Instances!NoJob)
<1>1. /\ Instances!NoJob.pc = "idle" /\ Instances!NoJob.op = "none" /\ Instances!NoJob.n = 1
      /\ Instances!NoJob.copy = Instances!Empty /\ Instances!NoJob.todo = {}
      /\ Instances!NoJob.entry = [role |-> "shard", index |-> Instances!NoIndex]
  BY DEF Instances!NoJob
<1>2. Instances!NoJob.entry \in Instances!Entry
  BY <1>1 DEF Instances!Entry
<1>3. Instances!NoJob \in InstancesJobs
  <2> DEFINE Made(n, entry, copy, todo) ==
               [pc |-> "idle", op |-> "none", n |-> n, entry |-> entry, copy |-> copy, todo |-> todo]
  <2>1. \A n \in Instances!Numbers, entry \in Instances!Entry, copy \in InstancesRegistries,
        todo \in SUBSET Instances!Numbers : Made(n, entry, copy, todo) \in InstancesJobs
    BY DEF InstancesJobs, Instances!Steps, Instances!Operations
  <2>2. Instances!NoJob = Made(1, Instances!NoJob.entry, Instances!NoJob.copy, Instances!NoJob.todo)
    BY DEF Instances!NoJob
  <2>3. Instances!NoJob.copy \in InstancesRegistries
        /\ Instances!NoJob.todo \in SUBSET Instances!Numbers /\ Instances!NoJob.n \in Instances!Numbers
    BY <1>1, InstancesRegistered, InstancesNumbersAre
  <2> HIDE DEF Made
  <2> QED BY <1>1, <1>2, <2>1, <2>2, <2>3
<1> QED
  BY <1>1, <1>3 DEF InstancesStage, InstancesPreparing, InstancesStopping, InstancesSaving,
     InstancesCalm

\* What holds once every part does.
LEMMA InstancesInvHolds ==
    ASSUME Instances!InstancesAssumption, InstancesInv
    PROVE  Instances!TypeOK /\ Instances!ClusterConsistent
<1>1. Instances!TypeOK
  BY InstancesRegistered DEF InstancesInv, InstancesTyped, Instances!TypeOK, InstancesJobs
<1>2. Instances!MembersDistinct
  BY DEF InstancesInv, InstancesDistinct, Instances!MembersDistinct
<1>3. Instances!MembersHaveRedis
  BY DEF InstancesInv, Instances!MembersHaveRedis
<1>4. Instances!TopologyPublished
  BY DEF InstancesInv, Instances!TopologyPublished, Instances!Quiet, Instances!Idle, InstancesCalm
<1> QED
  BY <1>1, <1>2, <1>3, <1>4 DEF Instances!ClusterConsistent

\* An empty registry has no two members alike.
LEMMA InstancesInitInv == ASSUME Instances!InstancesAssumption, Instances!Init PROVE InstancesInv
<1>1. instanceJob \in [InstanceWorkers -> InstancesJobs]
      /\ \A w \in InstanceWorkers : instanceJob[w] = Instances!NoJob
  BY InstancesNoJobIs DEF Instances!Init
<1>2. InstancesTyped
  BY <1>1, InstancesRegistered DEF Instances!Init, InstancesTyped
<1> QED
  BY <1>1, <1>2, InstancesNoJobIs, InstancesRegistered
    DEF Instances!Init, InstancesInv, Instances!Idle, InstancesDistinct

\* The invariant after a step of one worker, in terms of its job alone.
LEMMA InstancesStepInv ==
    ASSUME Instances!InstancesAssumption, InstancesInv, NEW w \in InstanceWorkers,
           NEW val \in InstancesJobs,
           \A u \in InstanceWorkers : u # w => Instances!Idle(u),
           instanceJob' = [instanceJob EXCEPT ![w] = val], InstancesStage(val)',
           running' \subseteq Instances!Numbers, missed' \subseteq Instances!Numbers, file' \in InstancesRegistries,
           published' \in InstancesRegistries,
           torn' \in BOOLEAN, instanceRedis' \in BOOLEAN, settled' \in BOOLEAN,
           InstancesDistinct(file'), ~instanceRedis' => running' \subseteq missed',
           ~instanceRedis' => published' = Instances!Empty,
           InstancesCalm(val) /\ settled' => published' = file' /\ ~torn'
    PROVE  InstancesInv'
<1>1. /\ instanceJob'[w] = val /\ instanceJob' \in [InstanceWorkers -> InstancesJobs]
      /\ \A u \in InstanceWorkers : u # w => instanceJob'[u] = instanceJob[u]
         /\ instanceJob[u].pc = "idle"
  BY DEF InstancesInv, InstancesTyped, Instances!Idle
<1>2. \A u \in InstanceWorkers : u # w => InstancesStage(instanceJob[u])'
  BY <1>1, InstancesNoJobIs DEF InstancesInv, InstancesStage, InstancesPreparing, InstancesStopping,
     InstancesSaving
<1>3. InstancesTyped'
  BY <1>1 DEF InstancesTyped
<1>4. \A u \in InstanceWorkers : InstancesStage(instanceJob[u])'
  BY <1>1, <1>2
<1>5. \A u, x \in InstanceWorkers : ~Instances!Idle(u)' /\ ~Instances!Idle(x)' => u = x
  BY <1>1 DEF Instances!Idle
<1>6. (\A u \in InstanceWorkers : InstancesCalm(instanceJob[u])) ' /\ settled' => published' = file'
      /\ ~torn'
  BY <1>1
<1> QED
  BY <1>3, <1>4, <1>5, <1>6 DEF InstancesInv

\* The others rest while one operation is under way.
LEMMA InstancesAlone ==
    ASSUME InstancesInv, NEW w \in InstanceWorkers, ~Instances!Idle(w)
    PROVE  \A u \in InstanceWorkers : u # w => Instances!Idle(u)
  BY DEF InstancesInv

\* What is known of the one operation under way.
LEMMA InstancesKnown ==
    ASSUME InstancesInv, NEW w \in InstanceWorkers
    PROVE  instanceJob[w] \in InstancesJobs /\ InstancesStage(instanceJob[w]) /\ InstancesDistinct(file)
           /\ Instances!Registry \in InstancesRegistries /\ InstancesDistinct(Instances!Registry)
<1>1. InstancesDistinct(Instances!Empty)
  BY InstancesRegistered DEF InstancesDistinct
<1> QED
  BY <1>1, InstancesRegistered DEF InstancesInv, InstancesTyped, Instances!Registry

\* A new member gets a number above all others (instances.py:324).
LEMMA InstancesNextNumberIs ==
    ASSUME Instances!InstancesAssumption, InstancesInv, NEW seen \in SUBSET Instances!Numbers
    PROVE  \A m \in DOMAIN Instances!Registry : m < Instances!NextNumber(seen)
<1> DEFINE S == {0} \cup seen \cup DOMAIN Instances!Registry
<1>1. Instances!Registry \in InstancesRegistries
  BY InstancesRegistered DEF InstancesInv, InstancesTyped, Instances!Registry
<1>2. S \in SUBSET (0 .. MaxNumber) /\ S # {} /\ MaxNumber \in Nat
  BY <1>1, InstancesRegistered, InstancesNumbersAre
<1>3. Instances!NextNumber(seen) = Instances!Max(S) + 1
  BY DEF Instances!NextNumber
<1>4. DOMAIN Instances!Registry \subseteq S
  OBVIOUS
<1> HIDE DEF S
<1>5. Instances!Max(S) \in S /\ \A m \in S : m <= Instances!Max(S)
  BY <1>2, InstancesGreatestOf
<1>6. ASSUME NEW m \in DOMAIN Instances!Registry PROVE m < Instances!NextNumber(seen)
  <2>0. m \in S /\ Instances!Max(S) \in S
    BY <1>4, <1>5
  <2>1. \A n \in S : n \in Nat
    BY <1>2
  <2>2. m <= Instances!Max(S)
    BY <1>5, <2>0
  <2> QED BY <1>3, <2>0, <2>1, <2>2
<1> QED
  BY <1>6

\* What an operation begins with.
LEMMA InstancesBeginInv ==
    ASSUME Instances!InstancesAssumption, InstancesInv, NEW w \in InstanceWorkers,
           NEW op \in Instances!Operations, NEW pc \in Instances!Steps,
           NEW n \in Instances!Numbers, NEW todo \in SUBSET Instances!Numbers,
           Instances!Begin(w, op, pc, n, todo),
           missed \subseteq missed', missed' \subseteq Instances!Numbers,
           \/ op = "spawn" /\ pc = "role" /\ \A m \in DOMAIN Instances!Registry : m < n
           \/ op = "stop" /\ pc = "down"
           \/ op = "stop_all" /\ pc = "redis_down" /\ running \subseteq missed' /\ todo = {}
           \/ op = "stop_all" /\ pc = "down" /\ running \subseteq todo \cup {n}
    PROVE  InstancesInv'
<1> DEFINE val == [Instances!NoJob EXCEPT !.op = op, !.pc = pc, !.n = n, !.todo = todo]
<1>1. /\ \A u \in InstanceWorkers : Instances!Idle(u)
      /\ instanceJob' = [instanceJob EXCEPT ![w] = val]
      /\ UNCHANGED <<running, file, torn, instanceRedis, published, settled>>
  BY DEF Instances!Begin, Instances!Quiet, Instances!shared
<1>2. val \in InstancesJobs /\ val.op = op /\ val.pc = pc /\ val.n = n /\ val.todo = todo
  BY InstancesNoJobIs DEF InstancesJobs
<1> HIDE DEF val
<1>4. settled => published = file /\ ~torn
  <2>1. \A u \in InstanceWorkers : InstancesCalm(instanceJob[u])
    BY <1>1 DEF Instances!Idle, InstancesCalm
  <2> QED BY <2>1 DEF InstancesInv
<1>3. InstancesStage(val)'
  BY <1>1, <1>2 DEF InstancesStage, InstancesPreparing, InstancesStopping, InstancesSaving,
     Instances!Registry
<1> QED
  BY <1>1, <1>2, <1>3, <1>4, InstancesStepInv DEF InstancesInv, InstancesTyped

\* The operations begin.
LEMMA InstancesSpawnInv ==
    ASSUME Instances!InstancesAssumption, InstancesInv, NEW w \in InstanceWorkers, NEW ok \in BOOLEAN,
           Instances!Spawn(w, ok)
    PROVE  InstancesInv'
<1>1. PICK seen \in SUBSET Instances!Numbers : seen = Instances!Seen(ok)
  BY DEF Instances!Seen, InstancesInv, InstancesTyped
<1>2. /\ Instances!NextNumber(seen) \in Instances!Numbers
      /\ Instances!Begin(w, "spawn", "role", Instances!NextNumber(seen), {})
      /\ missed' = missed
  BY <1>1 DEF Instances!Spawn
<1>3. \A m \in DOMAIN Instances!Registry : m < Instances!NextNumber(seen)
  BY InstancesNextNumberIs
<1>4. "spawn" \in Instances!Operations /\ "role" \in Instances!Steps /\ {} \in SUBSET Instances!Numbers
      /\ missed \subseteq Instances!Numbers
  BY DEF Instances!Operations, Instances!Steps, InstancesInv, InstancesTyped
<1> QED
  BY <1>2, <1>3, <1>4, InstancesBeginInv

LEMMA InstancesStopInv ==
    ASSUME Instances!InstancesAssumption, InstancesInv, NEW w \in InstanceWorkers,
           NEW n \in Instances!Numbers, Instances!Stop(w, n)
    PROVE  InstancesInv'
<1>1. Instances!Begin(w, "stop", "down", n, {}) /\ missed' = missed
  BY DEF Instances!Stop
<1>2. "stop" \in Instances!Operations /\ "down" \in Instances!Steps /\ {} \in SUBSET Instances!Numbers
      /\ missed \subseteq Instances!Numbers
  BY DEF Instances!Operations, Instances!Steps, InstancesInv, InstancesTyped
<1> QED
  BY <1>1, <1>2, InstancesBeginInv

LEMMA InstancesStopAllInv ==
    ASSUME Instances!InstancesAssumption, InstancesInv, NEW w \in InstanceWorkers, NEW ok \in BOOLEAN,
           Instances!StopAll(w, ok)
    PROVE  InstancesInv'
<1>1. /\ missed' = missed \cup (running \ Instances!Seen(ok))
      /\ running \subseteq Instances!Numbers /\ running \in SUBSET Nat
      /\ missed' \subseteq Instances!Numbers /\ missed \subseteq missed'
  BY InstancesNumbersAre DEF Instances!StopAll, InstancesInv, InstancesTyped
<1>2. CASE Instances!Seen(ok) = {}
  <2>1. running \subseteq missed'
    BY <1>1, <1>2
  <2>2. Instances!Begin(w, "stop_all", "redis_down", 1, {})
    BY <1>2 DEF Instances!StopAll
  <2>3. "stop_all" \in Instances!Operations /\ "redis_down" \in Instances!Steps
        /\ {} \in SUBSET Instances!Numbers /\ 1 \in Instances!Numbers
    BY InstancesNumbersAre DEF Instances!Operations, Instances!Steps
  <2> QED BY <1>1, <2>1, <2>2, <2>3, InstancesBeginInv
<1>3. CASE Instances!Seen(ok) # {}
  <2>1. running # {}
    BY <1>3 DEF Instances!Seen
  <2>2. Instances!Min(running) \in running
    BY <1>1, <2>1, InstancesLeastOf
  <2>3. Instances!Begin(w, "stop_all", "down", Instances!Min(running),
        running \ {Instances!Min(running)})
    BY <1>3 DEF Instances!StopAll
  <2>4. /\ Instances!Min(running) \in Instances!Numbers
        /\ running \ {Instances!Min(running)} \in SUBSET Instances!Numbers
        /\ running \subseteq (running \ {Instances!Min(running)}) \cup {Instances!Min(running)}
        /\ "stop_all" \in Instances!Operations /\ "down" \in Instances!Steps
    BY <1>1, <2>2 DEF Instances!Operations, Instances!Steps
  <2> QED BY <1>1, <2>3, <2>4, InstancesBeginInv
<1> QED
  BY <1>2, <1>3

\* There is always an index left: as many as the numbers and one more.
LEMMA InstancesFreeIndexIs ==
    ASSUME Instances!InstancesAssumption, InstancesInv
    PROVE  Instances!FreeIndex \in 0 .. MaxNumber
           /\ \A m \in Instances!Shards(Instances!Registry) : Instances!Registry[m].index # Instances!FreeIndex
<1> DEFINE D == Instances!Shards(Instances!Registry)
           Taken == {Instances!Registry[m].index : m \in D}
           Free == {i \in 0 .. MaxNumber : \A m \in Instances!Shards(Instances!Registry) : Instances!Registry[m].index # i}
<1>1. MaxNumber \in Nat /\ D \subseteq 1 .. MaxNumber
  BY InstancesRegistered, InstancesNumbersAre
    DEF InstancesInv, InstancesTyped, Instances!Registry, Instances!Shards
<1>2. IsFiniteSet(1 .. MaxNumber) /\ Cardinality(1 .. MaxNumber) = MaxNumber
  BY <1>1, FS_Interval
<1>3. IsFiniteSet(D) /\ Cardinality(D) \in Nat /\ Cardinality(D) <= MaxNumber
  BY <1>1, <1>2, FS_Subset, FS_CardinalityType
<1>4. IsFiniteSet(Taken) /\ Cardinality(Taken) <= Cardinality(D) /\ Cardinality(Taken) \in Nat
  <2> DEFINE f == [m \in D |-> Instances!Registry[m].index]
  <2>1. f \in Surjection(D, Taken)
    <3>1. f \in [D -> Taken] /\ \A t \in Taken : \E m \in D : f[m] = t
      OBVIOUS
    <3> HIDE DEF f, D, Taken
    <3> QED BY <3>1 DEF Surjection
  <2>2. IsFiniteSet(Taken) /\ Cardinality(Taken) <= Cardinality(D)
    BY <1>3, <2>1, FS_Surjection
  <2> QED BY <2>2, FS_CardinalityType
<1>5. Cardinality(0 .. MaxNumber) = MaxNumber + 1 /\ IsFiniteSet(0 .. MaxNumber)
  BY <1>1, FS_Interval
<1>6. ~ (0 .. MaxNumber \subseteq Taken)
  <2> SUFFICES ASSUME 0 .. MaxNumber \subseteq Taken PROVE FALSE
    OBVIOUS
  <2>1. Cardinality(0 .. MaxNumber) <= Cardinality(Taken)
    BY <1>4, FS_Subset
  <2> QED BY <1>1, <1>3, <1>4, <1>5, <2>1
<1>7. Free # {} /\ Free \in SUBSET Nat
  BY <1>6
<1>8. Instances!Min(Free) \in Free
  BY <1>7, InstancesLeastOf
<1>9. Instances!FreeIndex = Instances!Min(Free)
  BY DEF Instances!FreeIndex
<1> QED
  BY <1>8, <1>9

\* The typed registries, and what is not there once it is emptied.
LEMMA InstancesRoleInv ==
    ASSUME Instances!InstancesAssumption, InstancesInv, NEW w \in InstanceWorkers,
           NEW ok \in BOOLEAN, Instances!ChooseRole(w, ok)
    PROVE  InstancesInv'
<1> DEFINE entry == Instances!Role(instanceJob[w].n, Instances!Seen(ok))
           val == [instanceJob[w] EXCEPT !.entry = entry, !.pc = "redis"]
<1>1. /\ instanceJob[w].pc = "role" /\ instanceJob' = [instanceJob EXCEPT ![w] = val]
      /\ UNCHANGED <<running, file, torn, instanceRedis, published, settled, missed>>
  BY DEF Instances!ChooseRole, Instances!shared
<1>2. instanceJob[w] \in InstancesJobs /\ InstancesStage(instanceJob[w])
      /\ Instances!Registry \in InstancesRegistries
  BY InstancesKnown
<1>3. instanceJob[w].op = "spawn" /\ instanceJob[w].n \in Instances!Numbers
      /\ \A m \in DOMAIN Instances!Registry : m < instanceJob[w].n
  BY <1>1, <1>2 DEF InstancesStage, InstancesPreparing, InstancesJobs
<1>4. entry \in Instances!Entry /\ \A m \in DOMAIN Instances!Registry : Instances!Registry[m] # entry
  <2>1. CASE (Instances!Seen(ok) = {} /\ DOMAIN Instances!Registry = {}) \/ instanceJob[w].n = 1
    <3>1. entry = [role |-> "orchestrator", index |-> Instances!NoIndex]
      BY <2>1 DEF Instances!Role
    <3>2. DOMAIN Instances!Registry = {}
      <4>1. \A m \in DOMAIN Instances!Registry : m \in Nat /\ m >= 1
        BY <1>2, InstancesRegistered, InstancesNumbersAre
      <4>2. instanceJob[w].n = 1 => \A m \in DOMAIN Instances!Registry : m < 1
        BY <1>3
      <4>3. \A m \in DOMAIN Instances!Registry : ~(m < 1)
        BY <4>1
      <4> QED BY <2>1, <4>2, <4>3
    <3> QED BY <3>1, <3>2 DEF Instances!Entry
  <2>2. CASE ~ ((Instances!Seen(ok) = {} /\ DOMAIN Instances!Registry = {}) \/ instanceJob[w].n = 1)
    <3>1. entry = [role |-> "shard", index |-> Instances!FreeIndex]
      BY <2>2 DEF Instances!Role
    <3>2. Instances!FreeIndex \in Instances!Numbers \cup {0}
          /\ \A m \in Instances!Shards(Instances!Registry) : Instances!Registry[m].index # Instances!FreeIndex
      BY InstancesFreeIndexIs, InstancesNumbersAre
    <3> HIDE DEF entry
    <3>3. entry \in Instances!Entry /\ entry.role = "shard" /\ entry.index = Instances!FreeIndex
      BY <3>1, <3>2 DEF Instances!Entry
    <3> QED BY <3>2, <3>3 DEF Instances!Shards
  <2> QED BY <2>1, <2>2
<1> HIDE DEF entry
<1>5. PICK next \in InstancesJobs : next = val /\ next.pc = "redis" /\ next.op = "spawn"
      /\ next.entry = entry
  <2>1. val \in InstancesJobs /\ val.pc = "redis" /\ val.op = "spawn" /\ val.entry = entry
    BY <1>2, <1>3, <1>4 DEF InstancesJobs, Instances!Steps
  <2> HIDE DEF val
  <2> QED BY <2>1
<1> HIDE DEF val
<1>6. InstancesStage(next)'
  BY <1>1, <1>4, <1>5 DEF InstancesStage, InstancesPreparing, InstancesStopping, InstancesSaving,
     Instances!Registry
<1>7. \A u \in InstanceWorkers : u # w => Instances!Idle(u)
  BY <1>1, InstancesAlone DEF Instances!Idle
<1>8. settled => published = file /\ ~torn
  BY <1>1, <1>7 DEF InstancesInv, InstancesCalm, Instances!Idle
<1> QED
  BY <1>1, <1>5, <1>6, <1>7, <1>8, InstancesStepInv DEF InstancesInv, InstancesTyped

\* The steps of an operation.
LEMMA InstancesRedisInv ==
    ASSUME Instances!InstancesAssumption, InstancesInv, NEW w \in InstanceWorkers, NEW ok \in BOOLEAN,
           Instances!EnsureRedis(w, ok)
    PROVE  InstancesInv'
<1> DEFINE val == [instanceJob[w] EXCEPT !.pc = "cleanup"]
<1>1. instanceJob[w].pc = "redis" /\ UNCHANGED <<running, file, torn, published, settled>>
  BY DEF Instances!EnsureRedis, Instances!shared
<1>2. \/ instanceRedis' = TRUE /\ instanceJob' = [instanceJob EXCEPT ![w] = val]
         /\ missed' = {}
      \/ instanceRedis' = instanceRedis /\ missed' = missed
         /\ instanceJob' = [instanceJob EXCEPT ![w] = Instances!NoJob]
  BY DEF Instances!EnsureRedis, Instances!Goto, Instances!Finish
<1>3. instanceJob[w] \in InstancesJobs /\ InstancesStage(instanceJob[w])
  BY InstancesKnown
<1>4. PICK next \in InstancesJobs : next = val /\ next.pc = "cleanup" /\ next.op = instanceJob[w].op
      /\ next.entry = instanceJob[w].entry
  <2>1. val \in InstancesJobs /\ val.pc = "cleanup" /\ val.op = instanceJob[w].op
        /\ val.entry = instanceJob[w].entry
    BY <1>3 DEF InstancesJobs, Instances!Steps
  <2> HIDE DEF val
  <2> QED BY <2>1
<1> HIDE DEF val
<1>5. \A u \in InstanceWorkers : u # w => Instances!Idle(u)
  BY <1>1, InstancesAlone DEF Instances!Idle
<1>6. settled => published = file /\ ~torn
  BY <1>1, <1>5 DEF InstancesInv, InstancesCalm, Instances!Idle
<1>7. CASE instanceRedis' = TRUE /\ instanceJob' = [instanceJob EXCEPT ![w] = val] /\ missed' = {}
  <2>1. InstancesStage(next)'
    BY <1>1, <1>3, <1>4, <1>7 DEF InstancesStage, InstancesPreparing, InstancesStopping,
       InstancesSaving, Instances!Registry
  <2> QED BY <1>1, <1>4, <1>5, <1>6, <1>7, <2>1, InstancesStepInv DEF InstancesInv, InstancesTyped
<1>8. CASE instanceRedis' = instanceRedis /\ missed' = missed
      /\ instanceJob' = [instanceJob EXCEPT ![w] = Instances!NoJob]
  <2>1. InstancesStage(Instances!NoJob)'
    BY InstancesNoJobIs DEF InstancesStage, InstancesPreparing, InstancesStopping, InstancesSaving
  <2> QED BY <1>1, <1>5, <1>6, <1>8, <2>1, InstancesNoJobIs, InstancesStepInv
    DEF InstancesInv, InstancesTyped
<1> QED
  BY <1>2, <1>7, <1>8

LEMMA InstancesCleanUpInv ==
    ASSUME Instances!InstancesAssumption, InstancesInv, NEW w \in InstanceWorkers, NEW ok \in BOOLEAN,
           Instances!CleanUp(w, ok)
    PROVE  InstancesInv'
<1> DEFINE val == [instanceJob[w] EXCEPT !.pc = "up"]
<1>1. instanceJob[w].pc = "cleanup" /\ UNCHANGED <<file, torn, instanceRedis, published, settled, missed>>
  BY DEF Instances!CleanUp, Instances!shared
<1>1a. \/ running' = running \ {instanceJob[w].n} /\ instanceJob' = [instanceJob EXCEPT ![w] = val]
       \/ running' = running /\ instanceJob' = [instanceJob EXCEPT ![w] = Instances!NoJob]
  BY DEF Instances!CleanUp, Instances!Goto, Instances!Finish
<1>2. instanceJob[w] \in InstancesJobs /\ InstancesStage(instanceJob[w])
  BY InstancesKnown
<1>3. PICK next \in InstancesJobs : next = val /\ next.pc = "up" /\ next.op = instanceJob[w].op
      /\ next.entry = instanceJob[w].entry
  <2>1. val \in InstancesJobs /\ val.pc = "up" /\ val.op = instanceJob[w].op
        /\ val.entry = instanceJob[w].entry
    BY <1>2 DEF InstancesJobs, Instances!Steps
  <2> HIDE DEF val
  <2> QED BY <2>1
<1> HIDE DEF val
<1>4. \A u \in InstanceWorkers : u # w => Instances!Idle(u)
  BY <1>1, InstancesAlone DEF Instances!Idle
<1>5. settled => published = file /\ ~torn
  BY <1>1, <1>4 DEF InstancesInv, InstancesCalm, Instances!Idle
<1>6. CASE running' = running \ {instanceJob[w].n} /\ instanceJob' = [instanceJob EXCEPT ![w] = val]
  <2>1. InstancesStage(next)'
    BY <1>1, <1>2, <1>3, <1>6 DEF InstancesStage, InstancesPreparing, InstancesStopping,
       InstancesSaving, Instances!Registry
  <2> QED BY <1>1, <1>3, <1>4, <1>5, <1>6, <2>1, InstancesStepInv DEF InstancesInv, InstancesTyped
<1>7. CASE running' = running /\ instanceJob' = [instanceJob EXCEPT ![w] = Instances!NoJob]
  <2>1. InstancesStage(Instances!NoJob)'
    BY InstancesNoJobIs DEF InstancesStage, InstancesPreparing, InstancesStopping, InstancesSaving
  <2> QED BY <1>1, <1>4, <1>5, <1>7, <2>1, InstancesNoJobIs, InstancesStepInv
    DEF InstancesInv, InstancesTyped
<1> QED
  BY <1>1a, <1>6, <1>7

LEMMA InstancesUpInv ==
    ASSUME Instances!InstancesAssumption, InstancesInv, NEW w \in InstanceWorkers, NEW ok \in BOOLEAN,
           Instances!Up(w, ok)
    PROVE  InstancesInv'
<1> DEFINE val == [instanceJob[w] EXCEPT !.pc = "load"]
<1>1. instanceJob[w].pc = "up" /\ UNCHANGED <<file, torn, instanceRedis, published, settled, missed>>
  BY DEF Instances!Up, Instances!shared
<1>2. \/ running' = running \cup {instanceJob[w].n} /\ instanceJob' = [instanceJob EXCEPT ![w] = val]
      \/ running' = running /\ instanceJob' = [instanceJob EXCEPT ![w] = Instances!NoJob]
  BY DEF Instances!Up, Instances!Goto, Instances!Finish
<1>3. instanceJob[w] \in InstancesJobs /\ InstancesStage(instanceJob[w])
  BY InstancesKnown
<1>4. PICK next \in InstancesJobs : next = val /\ next.pc = "load" /\ next.op = instanceJob[w].op
      /\ next.entry = instanceJob[w].entry
  <2>1. val \in InstancesJobs /\ val.pc = "load" /\ val.op = instanceJob[w].op
        /\ val.entry = instanceJob[w].entry
    BY <1>3 DEF InstancesJobs, Instances!Steps
  <2> HIDE DEF val
  <2> QED BY <2>1
<1>4a. instanceJob[w].n \in Instances!Numbers
  BY <1>3 DEF InstancesJobs
<1> HIDE DEF val
<1>5. \A u \in InstanceWorkers : u # w => Instances!Idle(u)
  BY <1>1, InstancesAlone DEF Instances!Idle
<1>6. settled => published = file /\ ~torn
  BY <1>1, <1>5 DEF InstancesInv, InstancesCalm, Instances!Idle
<1>6a. instanceRedis /\ instanceJob[w].op = "spawn"
  BY <1>1, <1>3 DEF InstancesStage, InstancesPreparing
<1>7. CASE running' = running \cup {instanceJob[w].n} /\ instanceJob' = [instanceJob EXCEPT ![w] = val]
  <2>1. InstancesStage(next)'
    BY <1>1, <1>3, <1>4, <1>6a, <1>7
      DEF InstancesStage, InstancesPreparing, InstancesStopping, InstancesSaving, Instances!Registry
  <2> QED BY <1>1, <1>4, <1>4a, <1>5, <1>6, <1>6a, <1>7, <2>1, InstancesStepInv
    DEF InstancesInv, InstancesTyped
<1>8. CASE running' = running /\ instanceJob' = [instanceJob EXCEPT ![w] = Instances!NoJob]
  <2>1. InstancesStage(Instances!NoJob)'
    BY InstancesNoJobIs DEF InstancesStage, InstancesPreparing, InstancesStopping, InstancesSaving
  <2> QED BY <1>1, <1>5, <1>6, <1>8, <2>1, InstancesNoJobIs, InstancesStepInv
    DEF InstancesInv, InstancesTyped
<1> QED
  BY <1>2, <1>7, <1>8

LEMMA InstancesDownInv ==
    ASSUME Instances!InstancesAssumption, InstancesInv, NEW w \in InstanceWorkers, NEW ok \in BOOLEAN,
           Instances!Down(w, ok)
    PROVE  InstancesInv'
<1> DEFINE val == [instanceJob[w] EXCEPT !.pc = "load"]
<1>1. /\ instanceJob[w].pc = "down" /\ instanceJob' = [instanceJob EXCEPT ![w] = val]
      /\ \/ running' = running \ {instanceJob[w].n} /\ missed' = missed
         \/ running' = running /\ missed' = missed \cup {instanceJob[w].n}
      /\ UNCHANGED <<file, torn, instanceRedis, published, settled>>
  BY DEF Instances!Down, Instances!Goto, Instances!shared
<1>2. instanceJob[w] \in InstancesJobs /\ InstancesStage(instanceJob[w])
  BY InstancesKnown
<1>3. PICK next \in InstancesJobs : next = val /\ next.pc = "load" /\ next.op = instanceJob[w].op
      /\ next.todo = instanceJob[w].todo
  <2>1. val \in InstancesJobs /\ val.pc = "load" /\ val.op = instanceJob[w].op
        /\ val.todo = instanceJob[w].todo
    BY <1>2 DEF InstancesJobs, Instances!Steps
  <2> HIDE DEF val
  <2> QED BY <2>1
<1>3a. instanceJob[w].n \in Instances!Numbers
  BY <1>2 DEF InstancesJobs
<1> HIDE DEF val
<1>4. \A u \in InstanceWorkers : u # w => Instances!Idle(u)
  BY <1>1, InstancesAlone DEF Instances!Idle
<1>5. InstancesStage(next)'
  BY <1>1, <1>2, <1>3 DEF InstancesStage, InstancesPreparing, InstancesStopping, InstancesSaving
<1>6. ~InstancesCalm(next)
  BY <1>3 DEF InstancesCalm
<1> QED
  BY <1>1, <1>3, <1>3a, <1>4, <1>5, <1>6, InstancesStepInv DEF InstancesInv, InstancesTyped

\* What is written keeps the members apart.
LEMMA InstancesChangedIs ==
    ASSUME Instances!InstancesAssumption, InstancesInv, NEW w \in InstanceWorkers,
           instanceJob[w].pc = "load"
    PROVE  Instances!Changed(w) \in InstancesRegistries /\ InstancesDistinct(Instances!Changed(w))
<1>1. instanceJob[w] \in InstancesJobs /\ InstancesStage(instanceJob[w])
      /\ Instances!Registry \in InstancesRegistries /\ InstancesDistinct(Instances!Registry)
  BY InstancesKnown
<1>2. instanceJob[w].n \in Instances!Numbers /\ instanceJob[w].entry \in Instances!Entry
  BY <1>1 DEF InstancesJobs
<1>3. DOMAIN Instances!Registry \subseteq Instances!Numbers
      /\ \A m \in DOMAIN Instances!Registry : Instances!Registry[m] \in Instances!Entry
  BY <1>1, InstancesRegistered
<1>4. CASE instanceJob[w].op = "spawn"
  <2> DEFINE D == DOMAIN Instances!Registry \cup {instanceJob[w].n}
             new == [n \in D |-> IF n = instanceJob[w].n THEN instanceJob[w].entry
                   ELSE Instances!Registry[n]]
  <2>1. Instances!Changed(w) = new
    BY <1>4 DEF Instances!Changed
  <2>2. D \in SUBSET Instances!Numbers /\ new \in [D -> Instances!Entry]
    BY <1>2, <1>3
  <2>3. \A m \in DOMAIN Instances!Registry : Instances!Registry[m] # instanceJob[w].entry
    BY <1>1, <1>4 DEF InstancesStage, InstancesPreparing
  <2>4. InstancesDistinct(new)
    BY <1>1, <2>3 DEF InstancesDistinct
  <2> QED BY <2>1, <2>2, <2>4, InstancesRegistered
<1>5. CASE instanceJob[w].op # "spawn"
  <2> DEFINE D == DOMAIN Instances!Registry \ {instanceJob[w].n}
             new == [n \in D |-> Instances!Registry[n]]
  <2>1. Instances!Changed(w) = new
    BY <1>5 DEF Instances!Changed, Instances!Restrict
  <2>2. D \in SUBSET Instances!Numbers /\ new \in [D -> Instances!Entry]
    BY <1>3
  <2>3. InstancesDistinct(new)
    BY <1>1 DEF InstancesDistinct
  <2> QED BY <2>1, <2>2, <2>3, InstancesRegistered
<1> QED
  BY <1>4, <1>5

LEMMA InstancesLoadInv ==
    ASSUME Instances!InstancesAssumption, InstancesInv, NEW w \in InstanceWorkers, Instances!Load(w)
    PROVE  InstancesInv'
<1> DEFINE copy == Instances!Changed(w)
           val == [instanceJob[w] EXCEPT !.copy = copy, !.pc = "save"]
<1>1. /\ instanceJob[w].pc = "load" /\ instanceJob' = [instanceJob EXCEPT ![w] = val]
      /\ UNCHANGED <<running, file, torn, instanceRedis, published, settled, missed>>
  BY DEF Instances!Load, Instances!shared
<1>2. instanceJob[w] \in InstancesJobs /\ InstancesStage(instanceJob[w])
  BY InstancesKnown
<1>3. PICK new \in InstancesRegistries : new = copy /\ InstancesDistinct(new)
  BY <1>1, InstancesChangedIs
<1> HIDE DEF copy
<1>4. PICK next \in InstancesJobs : next = val /\ next.pc = "save" /\ next.op = instanceJob[w].op
      /\ next.todo = instanceJob[w].todo
                           /\ next.copy = new
  <2>1. val \in InstancesJobs /\ val.pc = "save" /\ val.op = instanceJob[w].op
        /\ val.todo = instanceJob[w].todo /\ val.copy = copy
    BY <1>2, <1>3 DEF InstancesJobs, Instances!Steps
  <2> HIDE DEF val
  <2> QED BY <1>3, <2>1
<1> HIDE DEF val
<1>5. \A u \in InstanceWorkers : u # w => Instances!Idle(u)
  BY <1>1, InstancesAlone DEF Instances!Idle
<1>6. InstancesStage(next)'
  BY <1>1, <1>2, <1>3, <1>4 DEF InstancesStage, InstancesPreparing, InstancesStopping, InstancesSaving
<1>7. ~InstancesCalm(next)
  BY <1>4 DEF InstancesCalm
<1> QED
  BY <1>1, <1>4, <1>5, <1>6, <1>7, InstancesStepInv DEF InstancesInv, InstancesTyped

LEMMA InstancesTruncateInv ==
    ASSUME Instances!InstancesAssumption, InstancesInv, NEW w \in InstanceWorkers, Instances!Truncate(w)
    PROVE  InstancesInv'
<1> DEFINE val == [instanceJob[w] EXCEPT !.pc = "write"]
<1>1. /\ instanceJob[w].pc = "save" /\ torn' = TRUE /\ instanceJob' = [instanceJob EXCEPT ![w] = val]
      /\ UNCHANGED <<running, file, instanceRedis, published, settled, missed>>
  BY DEF Instances!Truncate, Instances!Goto
<1>2. instanceJob[w] \in InstancesJobs /\ InstancesStage(instanceJob[w])
  BY InstancesKnown
<1>3. PICK next \in InstancesJobs : next = val /\ next.pc = "write" /\ next.op = instanceJob[w].op
      /\ next.todo = instanceJob[w].todo
                           /\ next.copy = instanceJob[w].copy
  <2>1. val \in InstancesJobs /\ val.pc = "write" /\ val.op = instanceJob[w].op
        /\ val.todo = instanceJob[w].todo /\ val.copy = instanceJob[w].copy
    BY <1>2 DEF InstancesJobs, Instances!Steps
  <2> HIDE DEF val
  <2> QED BY <2>1
<1> HIDE DEF val
<1>4. \A u \in InstanceWorkers : u # w => Instances!Idle(u)
  BY <1>1, InstancesAlone DEF Instances!Idle
<1>5. InstancesStage(next)'
  BY <1>1, <1>2, <1>3 DEF InstancesStage, InstancesPreparing, InstancesStopping, InstancesSaving
<1>6. ~InstancesCalm(next)
  BY <1>3 DEF InstancesCalm
<1> QED
  BY <1>1, <1>3, <1>4, <1>5, <1>6, InstancesStepInv DEF InstancesInv, InstancesTyped

LEMMA InstancesWriteInv ==
    ASSUME Instances!InstancesAssumption, InstancesInv, NEW w \in InstanceWorkers, Instances!Write(w)
    PROVE  InstancesInv'
<1>1. /\ instanceJob[w].pc = "write" /\ file' = instanceJob[w].copy /\ torn' = FALSE
      /\ instanceJob' = [instanceJob EXCEPT ![w] = Instances!AfterWrite(w)]
         /\ settled' = (IF Instances!AfterWrite(w) = Instances!NoJob THEN ~instanceRedis ELSE settled)
      /\ UNCHANGED <<running, instanceRedis, published, missed>>
  BY DEF Instances!Write
<1>2. instanceJob[w] \in InstancesJobs /\ InstancesStage(instanceJob[w])
  BY InstancesKnown
<1>3. instanceJob[w].op \in {"spawn", "stop", "stop_all", "clear"}
      /\ InstancesDistinct(instanceJob[w].copy)
  BY <1>1, <1>2 DEF InstancesStage, InstancesSaving
<1>4. instanceJob[w].copy \in InstancesRegistries /\ instanceJob[w].todo \in SUBSET Instances!Numbers
  BY <1>2 DEF InstancesJobs
<1>5. \A u \in InstanceWorkers : u # w => Instances!Idle(u)
  BY <1>1, InstancesAlone DEF Instances!Idle
<1>6. file' \in InstancesRegistries /\ torn' \in BOOLEAN /\ settled' \in BOOLEAN
      /\ InstancesDistinct(file')
  BY <1>1, <1>3, <1>4 DEF InstancesInv, InstancesTyped
<1>7. CASE instanceJob[w].op \in {"spawn", "stop"}
  <2> DEFINE val == [instanceJob[w] EXCEPT !.pc = "broadcast"]
  <2>1. Instances!AfterWrite(w) = val
    BY <1>7 DEF Instances!AfterWrite
  <2>2. PICK next \in InstancesJobs : next = val /\ next.pc = "broadcast" /\ next.op = instanceJob[w].op
    <3>1. val \in InstancesJobs /\ val.pc = "broadcast" /\ val.op = instanceJob[w].op
      BY <1>2 DEF InstancesJobs, Instances!Steps
    <3> HIDE DEF val
    <3> QED BY <3>1
  <2> HIDE DEF val
  <2>2a. settled' = settled
    BY <1>1, <2>1, <2>2, InstancesNoJobIs DEF InstancesInv, InstancesTyped
  <2>3. InstancesStage(next)'
    BY <1>1, <1>2, <1>7, <2>2, <2>2a
      DEF InstancesStage, InstancesPreparing, InstancesStopping, InstancesSaving
  <2>4. ~InstancesCalm(next)
    BY <2>2 DEF InstancesCalm
  <2> QED BY <1>1, <1>5, <1>6, <2>1, <2>2, <2>3, <2>4, InstancesStepInv DEF InstancesInv, InstancesTyped
<1>8. CASE instanceJob[w].op = "stop_all" /\ instanceJob[w].todo # {}
  <2> DEFINE first == Instances!Min(instanceJob[w].todo)
             rest == instanceJob[w].todo \ {first}
             val == [instanceJob[w] EXCEPT !.pc = "down", !.n = first, !.todo = rest]
  <2>1. Instances!AfterWrite(w) = val
    BY <1>8 DEF Instances!AfterWrite
  <2>2. first \in instanceJob[w].todo /\ first \in Instances!Numbers
    <3>1. instanceJob[w].todo \in SUBSET Nat
      BY <1>4, InstancesNumbersAre
    <3> QED BY <1>4, <1>8, <3>1, InstancesLeastOf
  <2> HIDE DEF first
  <2>3. PICK next \in InstancesJobs : next = val /\ next.pc = "down" /\ next.op = "stop_all"
        /\ next.n = first /\ next.todo = rest
    <3>1. val \in InstancesJobs /\ val.pc = "down" /\ val.op = "stop_all" /\ val.n = first
          /\ val.todo = rest
      BY <1>2, <1>4, <1>8, <2>2 DEF InstancesJobs, Instances!Steps
    <3> HIDE DEF val
    <3> QED BY <3>1
  <2> HIDE DEF val
  <2>4. InstancesStage(next)'
    <3>1. running \subseteq missed \cup instanceJob[w].todo
      BY <1>1, <1>2, <1>8 DEF InstancesStage, InstancesStopping
    <3>2. running \subseteq missed \cup next.todo \cup {next.n}
      BY <2>2, <2>3, <3>1
    <3> QED BY <1>1, <2>3, <3>2
      DEF InstancesStage, InstancesPreparing, InstancesStopping, InstancesSaving
  <2>5. ~InstancesCalm(next)
    BY <2>3 DEF InstancesCalm
  <2> QED BY <1>1, <1>5, <1>6, <2>1, <2>3, <2>4, <2>5, InstancesStepInv DEF InstancesInv, InstancesTyped
<1>9. CASE instanceJob[w].op = "stop_all" /\ instanceJob[w].todo = {}
  <2> DEFINE val == [instanceJob[w] EXCEPT !.pc = "redis_down"]
  <2>1. Instances!AfterWrite(w) = val
    BY <1>9 DEF Instances!AfterWrite
  <2>2. PICK next \in InstancesJobs : next = val /\ next.pc = "redis_down" /\ next.op = "stop_all"
        /\ next.todo = {}
    <3>1. val \in InstancesJobs /\ val.pc = "redis_down" /\ val.op = "stop_all" /\ val.todo = {}
      BY <1>2, <1>9 DEF InstancesJobs, Instances!Steps
    <3> HIDE DEF val
    <3> QED BY <3>1
  <2> HIDE DEF val
  <2>3. InstancesStage(next)'
    BY <1>1, <1>2, <1>9, <2>2 DEF InstancesStage, InstancesPreparing, InstancesStopping, InstancesSaving
  <2>4. ~InstancesCalm(next)
    BY <2>2 DEF InstancesCalm
  <2> QED BY <1>1, <1>5, <1>6, <2>1, <2>2, <2>3, <2>4, InstancesStepInv DEF InstancesInv, InstancesTyped
<1>10. CASE instanceJob[w].op = "clear"
  <2>1. Instances!AfterWrite(w) = Instances!NoJob
    BY <1>10 DEF Instances!AfterWrite
  <2>2. (~instanceRedis => published = Instances!Empty) /\ instanceJob[w].copy = Instances!Empty
    BY <1>2, <1>10 DEF InstancesStage, InstancesStopping, InstancesInv
  <2>2a. settled' = ~instanceRedis
    BY <1>1, <2>1
  <2>3. InstancesStage(Instances!NoJob)'
    BY InstancesNoJobIs DEF InstancesStage, InstancesPreparing, InstancesStopping, InstancesSaving
  <2> QED BY <1>1, <1>5, <1>6, <2>1, <2>2, <2>2a, <2>3, InstancesNoJobIs, InstancesStepInv
    DEF InstancesInv, InstancesTyped
<1> QED
  BY <1>3, <1>7, <1>8, <1>9, <1>10

LEMMA InstancesBroadcastInv ==
    ASSUME Instances!InstancesAssumption, InstancesInv, NEW w \in InstanceWorkers,
           NEW ok \in BOOLEAN, Instances!Broadcast(w, ok)
    PROVE  InstancesInv'
<1>1. /\ instanceJob[w].pc = "broadcast" /\ published' = (IF instanceRedis /\ ok THEN Instances!Registry
         ELSE published)
      /\ settled' = (instanceRedis /\ ok)
      /\ UNCHANGED <<running, file, torn, instanceRedis, missed>>
  BY DEF Instances!Broadcast, Instances!shared
<1>2. instanceJob[w] \in InstancesJobs /\ InstancesStage(instanceJob[w])
      /\ Instances!Registry \in InstancesRegistries
  BY InstancesKnown
<1>3. instanceJob[w].op \in {"spawn", "stop"} /\ ~torn /\ Instances!Registry = file
  BY <1>1, <1>2 DEF InstancesStage, InstancesSaving, Instances!Registry
<1>4. \A u \in InstanceWorkers : u # w => Instances!Idle(u)
  BY <1>1, InstancesAlone DEF Instances!Idle
<1>5. published' \in InstancesRegistries /\ (settled' => instanceRedis /\ published' = file)
      /\ settled' \in BOOLEAN /\ (~instanceRedis' => published' = Instances!Empty)
  BY <1>1, <1>2, <1>3 DEF InstancesInv, InstancesTyped
<1>6. CASE instanceJob[w].op = "stop"
  <2> DEFINE val == [instanceJob[w] EXCEPT !.pc = "tidy"]
  <2>1. instanceJob' = [instanceJob EXCEPT ![w] = val]
    BY <1>6 DEF Instances!Broadcast, Instances!Goto
  <2>2. PICK next \in InstancesJobs : next = val /\ next.pc = "tidy" /\ next.op = "stop"
    <3>1. val \in InstancesJobs /\ val.pc = "tidy" /\ val.op = "stop"
      BY <1>2, <1>6 DEF InstancesJobs, Instances!Steps
    <3> HIDE DEF val
    <3> QED BY <3>1
  <2> HIDE DEF val
  <2>3. InstancesStage(next)'
    BY <1>1, <1>2, <1>3, <1>5, <2>1, <2>2
      DEF InstancesStage, InstancesPreparing, InstancesStopping, InstancesSaving
  <2>4. ~InstancesCalm(next)
    BY <2>2 DEF InstancesCalm
  <2> QED BY <1>1, <1>4, <1>5, <2>1, <2>2, <2>3, <2>4, InstancesStepInv DEF InstancesInv, InstancesTyped
<1>7. CASE instanceJob[w].op = "spawn"
  <2>1. instanceJob' = [instanceJob EXCEPT ![w] = Instances!NoJob]
    BY <1>7 DEF Instances!Broadcast, Instances!Finish
  <2>3. InstancesStage(Instances!NoJob)'
    BY InstancesNoJobIs DEF InstancesStage, InstancesPreparing, InstancesStopping, InstancesSaving
  <2> QED BY <1>1, <1>3, <1>4, <1>5, <2>1, <2>3, InstancesNoJobIs, InstancesStepInv
    DEF InstancesInv, InstancesTyped
<1> QED
  BY <1>3, <1>6, <1>7

LEMMA InstancesTidyInv ==
    ASSUME Instances!InstancesAssumption, InstancesInv, NEW w \in InstanceWorkers, NEW ok \in BOOLEAN,
           NEW gone \in BOOLEAN, Instances!Tidy(w, ok, gone)
    PROVE  InstancesInv'
<1> DEFINE last == Instances!Seen(ok) = {} /\ DOMAIN Instances!Registry = {}
<1>1. /\ instanceJob[w].pc = "tidy" /\ instanceJob' = [instanceJob EXCEPT ![w] = Instances!NoJob]
      /\ settled' = (settled \/ (~instanceRedis' /\ DOMAIN Instances!Registry = {}))
      /\ missed' = missed \cup (running \ Instances!Seen(ok))
      /\ UNCHANGED <<running, file, torn>>
  BY DEF Instances!Tidy, Instances!Finish, Instances!shared
<1>2. \/ last /\ instanceRedis' = FALSE /\ published' = Instances!Empty
      \/ instanceRedis' = instanceRedis /\ published' = published
  BY DEF Instances!Tidy, Instances!RemoveRedis
<1>3. InstancesStage(instanceJob[w])
  BY InstancesKnown
<1>4. ~torn /\ Instances!Registry = file /\ (settled => instanceRedis /\ published = file)
  BY <1>1, <1>3 DEF InstancesStage, InstancesSaving, Instances!Registry
<1>5. \A u \in InstanceWorkers : u # w => Instances!Idle(u)
  BY <1>1, InstancesAlone DEF Instances!Idle
<1>6. InstancesStage(Instances!NoJob)'
  BY InstancesNoJobIs DEF InstancesStage, InstancesPreparing, InstancesStopping, InstancesSaving
<1>7. /\ instanceRedis' \in BOOLEAN /\ settled' \in BOOLEAN /\ published' \in InstancesRegistries
      /\ missed' \subseteq Instances!Numbers
  BY <1>1, <1>2, InstancesRegistered DEF InstancesInv, InstancesTyped
<1>8. DOMAIN Instances!Registry = {} => file = Instances!Empty
  BY <1>4, InstancesRegistered DEF InstancesInv, InstancesTyped
<1>9. ~instanceRedis' => published' = Instances!Empty /\ running' \subseteq missed'
  BY <1>1, <1>2 DEF InstancesInv
<1>10. settled' => published' = file'
  <2>1. CASE ~instanceRedis' /\ DOMAIN Instances!Registry = {}
    BY <1>1, <1>8, <1>9, <2>1
  <2>2. CASE ~(~instanceRedis' /\ DOMAIN Instances!Registry = {})
    <3>1. settled' => settled
      BY <1>1, <2>2
    <3>2. CASE last /\ instanceRedis' = FALSE /\ published' = Instances!Empty
      BY <1>1, <1>8, <3>2
    <3>3. CASE instanceRedis' = instanceRedis /\ published' = published
      BY <1>1, <1>4, <3>1, <3>3
    <3> QED BY <1>2, <3>2, <3>3
  <2> QED BY <2>1, <2>2
<1> HIDE DEF last
<1> QED
  BY <1>1, <1>4, <1>5, <1>6, <1>7, <1>9, <1>10, InstancesNoJobIs, InstancesStepInv
    DEF InstancesInv, InstancesTyped

LEMMA InstancesRedisDownInv ==
    ASSUME Instances!InstancesAssumption, InstancesInv, NEW w \in InstanceWorkers,
           NEW gone \in BOOLEAN, Instances!RedisDown(w, gone)
    PROVE  InstancesInv'
<1> DEFINE val == [instanceJob[w] EXCEPT !.copy = Instances!Empty, !.op = "clear", !.pc = "save"]
<1>1. /\ instanceJob[w].pc = "redis_down" /\ instanceJob' = [instanceJob EXCEPT ![w] = val]
      /\ \/ instanceRedis' = FALSE /\ published' = Instances!Empty
         \/ instanceRedis' = instanceRedis /\ published' = published
      /\ UNCHANGED <<running, file, torn, settled, missed>>
  BY DEF Instances!RedisDown, Instances!RemoveRedis, Instances!shared
<1>2. instanceJob[w] \in InstancesJobs /\ InstancesStage(instanceJob[w])
  BY InstancesKnown
<1>3. PICK next \in InstancesJobs : next = val /\ next.pc = "save" /\ next.op = "clear"
      /\ next.copy = Instances!Empty
  <2>1. \A copy \in InstancesRegistries :
           LET new == [instanceJob[w] EXCEPT !.copy = copy, !.op = "clear", !.pc = "save"]
           IN  new \in InstancesJobs /\ new.pc = "save" /\ new.op = "clear" /\ new.copy = copy
    BY <1>2 DEF InstancesJobs, Instances!Steps, Instances!Operations
  <2> QED BY <2>1, InstancesRegistered
<1> HIDE DEF val
<1>4. \A u \in InstanceWorkers : u # w => Instances!Idle(u)
  BY <1>1, InstancesAlone DEF Instances!Idle
<1>5. running \subseteq missed
  BY <1>1, <1>2 DEF InstancesStage, InstancesStopping
<1>6. InstancesStage(next)'
  <2>1. InstancesDistinct(Instances!Empty)
    BY InstancesRegistered DEF InstancesDistinct
  <2> QED BY <1>1, <1>3, <2>1 DEF InstancesStage, InstancesPreparing, InstancesStopping, InstancesSaving
<1>7. ~InstancesCalm(next)
  BY <1>3 DEF InstancesCalm
<1> QED
  BY <1>1, <1>3, <1>4, <1>5, <1>6, <1>7, InstancesRegistered, InstancesStepInv
    DEF InstancesInv, InstancesTyped

\* What happens to the members and to the server.
LEMMA InstancesDieInv ==
    ASSUME Instances!InstancesAssumption, InstancesInv, NEW n \in Instances!Numbers, Instances!Die(n)
    PROVE  InstancesInv'
<1>1. running' = running \ {n} /\ UNCHANGED <<file, torn, instanceRedis, published, instanceJob,
      settled, missed>>
  BY DEF Instances!Die, Instances!shared
<1>2. \A w \in InstanceWorkers : InstancesStage(instanceJob[w])'
  <2> TAKE w \in InstanceWorkers
  <2>1. InstancesStage(instanceJob[w])
    BY DEF InstancesInv
  <2> QED BY <1>1, <2>1 DEF InstancesStage, InstancesPreparing, InstancesStopping, InstancesSaving,
             Instances!Registry
<1> QED
  BY <1>1, <1>2 DEF InstancesInv, InstancesTyped, Instances!Idle, InstancesCalm, InstancesDistinct

LEMMA InstancesCrashInv ==
    ASSUME Instances!InstancesAssumption, InstancesInv, Instances!Crash
    PROVE  InstancesInv'
<1>1. instanceJob' = [w \in InstanceWorkers |-> Instances!NoJob] /\ settled' = FALSE
      /\ UNCHANGED <<running, file, torn, instanceRedis, published, missed>>
  BY DEF Instances!Crash, Instances!shared
<1>2. instanceJob' \in [InstanceWorkers -> InstancesJobs]
      /\ \A w \in InstanceWorkers : instanceJob'[w] = Instances!NoJob
  BY <1>1, InstancesNoJobIs
<1>3. InstancesStage(Instances!NoJob)'
  BY InstancesNoJobIs DEF InstancesStage, InstancesPreparing, InstancesStopping, InstancesSaving
<1>4. \A w, u \in InstanceWorkers : ~Instances!Idle(w)' /\ ~Instances!Idle(u)' => w = u
  BY <1>2, InstancesNoJobIs DEF Instances!Idle
<1> QED
  BY <1>1, <1>2, <1>3, <1>4 DEF InstancesInv, InstancesTyped, InstancesDistinct

\* Every step keeps the invariant.
LEMMA InstancesNextInv ==
    ASSUME Instances!InstancesAssumption, InstancesInv, Instances!Next
    PROVE  InstancesInv'
<1>1. ASSUME NEW w \in InstanceWorkers, Instances!Proceed(w) PROVE InstancesInv'
  <2>1. ASSUME NEW ok \in BOOLEAN,
               \/ Instances!ChooseRole(w, ok) \/ Instances!EnsureRedis(w, ok)
               \/ Instances!CleanUp(w, ok) \/ Instances!Up(w, ok)
        PROVE InstancesInv'
    BY <2>1, InstancesRoleInv, InstancesRedisInv, InstancesCleanUpInv, InstancesUpInv
  <2>2. ASSUME NEW ok \in BOOLEAN,
               \/ Instances!Down(w, ok) \/ Instances!Broadcast(w, ok) \/ Instances!RedisDown(w, ok)
               \/ \E gone \in BOOLEAN : Instances!Tidy(w, ok, gone)
        PROVE InstancesInv'
    BY <2>2, InstancesDownInv, InstancesBroadcastInv, InstancesRedisDownInv, InstancesTidyInv
  <2> QED
    BY <1>1, <2>1, <2>2, InstancesLoadInv, InstancesTruncateInv, InstancesWriteInv
    DEF Instances!Proceed
<1>2. ASSUME NEW w \in InstanceWorkers,
             \/ \E ok \in BOOLEAN : Instances!Spawn(w, ok) \/ Instances!StopAll(w, ok)
             \/ \E n \in Instances!Numbers : Instances!Stop(w, n)
      PROVE InstancesInv'
  BY <1>2, InstancesSpawnInv, InstancesStopAllInv, InstancesStopInv
<1>3. ASSUME NEW n \in Instances!Numbers, Instances!Die(n) PROVE InstancesInv'
  BY <1>3, InstancesDieInv
<1>4. ASSUME Instances!Crash PROVE InstancesInv'
  BY <1>4, InstancesCrashInv
<1> QED
  BY <1>1, <1>2, <1>3, <1>4 DEF Instances!Next

\* A step that changes nothing of it keeps the invariant.
LEMMA InstancesStutterInv == ASSUME InstancesInv, UNCHANGED Instances!vars PROVE InstancesInv'
<1>1. UNCHANGED <<running, file, torn, instanceRedis, published, instanceJob, settled, missed>>
  BY DEF Instances!vars, Instances!shared
<1>2. \A w \in InstanceWorkers : InstancesStage(instanceJob[w])'
  <2> TAKE w \in InstanceWorkers
  <2>1. InstancesStage(instanceJob[w])
    BY DEF InstancesInv
  <2> QED BY <1>1, <2>1 DEF InstancesStage, InstancesPreparing, InstancesStopping, InstancesSaving,
             Instances!Registry
<1> QED
  BY <1>1, <1>2 DEF InstancesInv, InstancesTyped, Instances!Idle, InstancesCalm, InstancesDistinct

------------------------------------------------------------------------------
(* The cluster and its bus (Cluster.tla).  A task is somewhere until its   *)
(* result is taken, and only with its owner.                               *)

\* What TypeOK leaves open of the records that actions change field by field.
ClusterPlaces == Names \cup {Cluster!None} \cup {Service[i] : i \in DOMAIN Service}

ClusterShard == [index : Nat, count : Counts, connected : BOOLEAN, task : Tasks \cup {Cluster!None},
      done : BOOLEAN]
ClusterHub == [count : Counts, connected : BOOLEAN, pc : {"idle", "resolve", "forward"},
        task : Tasks \cup {Cluster!None}, to : ClusterPlaces]

ClusterShaped ==
    /\ node \in [DOMAIN node -> ClusterShard]
    /\ hub \in ClusterHub /\ (hub.pc # "idle" => hub.task \in Tasks)

\* A shard has tasks of its own in hand only, and a result before it is done.
ClusterInHand ==
    \A n \in DOMAIN node :
        /\ node[n].task # Cluster!None => Cluster!is_task_owned(node[n].task, node[n].index,
           node[n].count)
        /\ node[n].done => node[n].task \in DOMAIN results

ClusterInv == Cluster!TypeOK /\ ClusterShaped /\ ClusterInHand /\ Cluster!TasksAccounted

------------------------------------------------------------------------------
\* The functions of the bus.
LEMMA ClusterRemoving ==
    ASSUME NEW f, NEW key
    PROVE  /\ DOMAIN Cluster!Without(f, key) = DOMAIN f \ {key}
           /\ \A k \in DOMAIN f \ {key} : Cluster!Without(f, key)[k] = f[k]
           /\ Cluster!Without(f, key) = [k \in DOMAIN f \ {key} |-> f[k]]
  BY DEF Cluster!Without, Cluster!Restrict

\* Every hash falls to an index.
LEMMA ClusterAssigned ==
    ASSUME Cluster!ClusterAssumption, NEW t \in Tasks, NEW count \in Counts
    PROVE  Cluster!assign_shard(t, count) \in 0 .. count - 1
  BY DEF Cluster!ClusterAssumption, Cluster!assign_shard

\* No task has the mark of none.
LEMMA ClusterNoneIsNoTask == Cluster!ClusterAssumption => Cluster!None \notin Tasks
  BY DEF Cluster!ClusterAssumption, Cluster!None

------------------------------------------------------------------------------
\* A hub that waits has nothing in hand.
LEMMA ClusterInitInv == ASSUME Cluster!ClusterAssumption, Cluster!Init PROVE ClusterInv
<1>1. PICK count \in Counts : hub = Cluster!Waiting(count, clusterRedis)
  BY DEF Cluster!Init
<1>2. hub \in ClusterHub /\ hub.pc = "idle"
  BY <1>1 DEF Cluster!Init, Cluster!Waiting, ClusterHub, ClusterPlaces
<1>3. DOMAIN node = {} /\ DOMAIN shards = {} /\ DOMAIN tasks = {} /\ DOMAIN results = {}
      /\ recorded = {}
  BY DEF Cluster!Init
<1>4. node \in [DOMAIN node -> ClusterShard]
  BY <1>3 DEF Cluster!Init
<1>5. Cluster!TypeOK
  BY <1>2, <1>3 DEF Cluster!Init, Cluster!TypeOK, ClusterHub
<1> QED
  BY <1>2, <1>3, <1>4, <1>5 DEF ClusterInv, ClusterShaped, ClusterInHand, Cluster!TasksAccounted,
     Cluster!RunByOwner, Cluster!TasksKept

\* Steps that leave the tasks and the shards alone.
LEMMA ClusterStartInv ==
    ASSUME Cluster!ClusterAssumption, ClusterInv, NEW n \in Names, NEW count \in Counts,
           NEW index \in 0 .. count - 1,
           Cluster!StartShard(n, index, count)
    PROVE  ClusterInv'
<1> DEFINE new == [index |-> index, count |-> count, connected |-> clusterRedis, task |-> Cluster!None,
      done |-> FALSE]
<1>1. count \in Nat /\ index \in Nat
  BY DEF Cluster!ClusterAssumption
<1>2. new \in ClusterShard
  BY <1>1 DEF ClusterShard, ClusterInv, Cluster!TypeOK
<1>3. node' = Cluster!Put(node, n, new) /\ UNCHANGED <<tasks, results, hub, recorded>>
  BY DEF Cluster!StartShard
<1>4. DOMAIN node' = DOMAIN node \cup {n} /\ node'[n] = new
      /\ \A m \in DOMAIN node : m # n => node'[m] = node[m]
  BY <1>3 DEF Cluster!Put
<1>5. node' \in [DOMAIN node' -> ClusterShard]
  BY <1>2, <1>3 DEF ClusterInv, ClusterShaped, Cluster!Put
<1>6. DOMAIN shards' \subseteq Names
  BY DEF Cluster!StartShard, ClusterInv, Cluster!TypeOK, Cluster!Put
<1> HIDE DEF new
<1>7. new.index = index /\ new.count = count /\ new.task = Cluster!None /\ ~new.done
  BY DEF new
<1>8. Cluster!TypeOK'
  BY <1>3, <1>4, <1>6, <1>7 DEF ClusterInv, Cluster!TypeOK, Cluster!StartShard
<1>9. ClusterInHand'
  BY <1>3, <1>4, <1>7 DEF ClusterInv, ClusterInHand, ClusterShaped
<1> QED
  BY <1>3, <1>5, <1>8, <1>9 DEF ClusterInv, ClusterShaped, Cluster!TasksAccounted, Cluster!RunByOwner,
     Cluster!TasksKept

\* What becomes of the shards, the server and the shared Redis.
LEMMA ClusterEndInv ==
    ASSUME ClusterInv, NEW n \in Names, NEW killed \in BOOLEAN, Cluster!EndShard(n, killed)
    PROVE  ClusterInv'
<1>1. node' = Cluster!Without(node, n) /\ UNCHANGED <<clusterRedis, tasks, results, hub, recorded>>
  BY DEF Cluster!EndShard
<1>2. DOMAIN node' = DOMAIN node \ {n} /\ \A m \in DOMAIN node' : node'[m] = node[m]
  BY <1>1, ClusterRemoving
<1>3. node' \in [DOMAIN node' -> ClusterShard]
  BY <1>1, <1>2 DEF ClusterInv, ClusterShaped, Cluster!Without, Cluster!Restrict
<1>4. DOMAIN shards' \subseteq Names
  BY DEF Cluster!EndShard, ClusterInv, Cluster!TypeOK, Cluster!Without, Cluster!Restrict
<1>5. Cluster!TypeOK'
  BY <1>1, <1>2, <1>4 DEF ClusterInv, Cluster!TypeOK
<1> QED
  BY <1>1, <1>2, <1>3, <1>5 DEF ClusterInv, ClusterShaped, ClusterInHand, Cluster!TasksAccounted,
     Cluster!RunByOwner, Cluster!TasksKept

LEMMA ClusterRestartInv ==
    ASSUME ClusterInv, NEW count \in Counts, Cluster!RestartHub(count)
    PROVE  ClusterInv'
<1>1. hub' = Cluster!Waiting(count, clusterRedis)
      /\ UNCHANGED <<clusterRedis, Cluster!bus, node, recorded>>
  BY DEF Cluster!RestartHub
<1>2. hub' \in ClusterHub /\ hub'.pc = "idle"
  BY <1>1 DEF Cluster!Waiting, ClusterHub, ClusterPlaces, ClusterInv, Cluster!TypeOK
<1>3. Cluster!TypeOK'
  BY <1>1, <1>2 DEF ClusterInv, Cluster!TypeOK, Cluster!bus, ClusterHub
<1> QED
  BY <1>1, <1>2, <1>3 DEF ClusterInv, ClusterShaped, ClusterInHand, Cluster!TasksAccounted,
     Cluster!RunByOwner, Cluster!TasksKept, Cluster!bus

LEMMA ClusterRedisInv == ASSUME ClusterInv, Cluster!RedisGoesAndComes PROVE ClusterInv'
<1>1. clusterRedis' \in BOOLEAN /\ UNCHANGED <<Cluster!bus, node, hub, recorded>>
  BY DEF Cluster!RedisGoesAndComes, ClusterInv, Cluster!TypeOK
<1> QED
  BY <1>1 DEF ClusterInv, Cluster!TypeOK, ClusterShaped, ClusterInHand, Cluster!TasksAccounted,
     Cluster!RunByOwner, Cluster!TasksKept, Cluster!bus

------------------------------------------------------------------------------
(* A dispatch.                                                             *)

\* A task is handed out to its owner (cluster.py:86).
LEMMA ClusterAssignInv ==
    ASSUME ClusterInv, NEW t \in Tasks, Cluster!Assign(t)
    PROVE  ClusterInv'
<1>1. hub' = [hub EXCEPT !.pc = "resolve", !.task = t]
      /\ UNCHANGED <<clusterRedis, shards, results, node>>
  BY DEF Cluster!Assign
<1>2. hub' \in ClusterHub /\ hub'.pc = "resolve" /\ hub'.task = t
  BY <1>1 DEF ClusterHub, ClusterInv, ClusterShaped
<1>3. \/ UNCHANGED <<tasks, recorded>>
      \/ DOMAIN tasks' = DOMAIN tasks \cup {t} /\ recorded' = recorded \cup {t}
  BY DEF Cluster!Assign, Cluster!Put
<1>4. Cluster!TypeOK'
  BY <1>1, <1>2, <1>3 DEF ClusterInv, Cluster!TypeOK, ClusterHub
<1>5. Cluster!TasksKept'
  BY <1>1, <1>3 DEF ClusterInv, Cluster!TasksAccounted, Cluster!TasksKept
<1> QED
  BY <1>1, <1>2, <1>4, <1>5 DEF ClusterInv, ClusterShaped, ClusterInHand, Cluster!TasksAccounted,
     Cluster!RunByOwner

LEMMA ClusterResolveInv ==
    ASSUME Cluster!ClusterAssumption, ClusterInv, Cluster!Resolve
    PROVE  ClusterInv'
<1>1. hub \in ClusterHub /\ hub.pc = "resolve" /\ hub.task \in Tasks
  BY DEF Cluster!Resolve, ClusterInv, ClusterShaped
<1>2. UNCHANGED <<clusterRedis, Cluster!bus, node, recorded>>
  BY DEF Cluster!Resolve
<1> DEFINE index == Cluster!assign_shard(hub.task, hub.count)
<1>3. Cluster!Hosts(index) \subseteq ClusterPlaces
  <2>1. index \in 0 .. hub.count - 1 /\ 0 .. hub.count - 1 \subseteq DOMAIN Service
    BY <1>1, ClusterAssigned DEF ClusterHub, Cluster!ClusterAssumption
  <2>2. Service[index] \in ClusterPlaces
    BY <2>1 DEF ClusterPlaces
  <2>3. DOMAIN shards \subseteq ClusterPlaces
    BY DEF ClusterInv, Cluster!TypeOK, ClusterPlaces
  <2> QED
    BY <2>2, <2>3 DEF Cluster!Hosts
<1>4. \/ \E n \in Cluster!Hosts(index) : hub' = [hub EXCEPT !.pc = "forward", !.to = n]
      \/ hub' = Cluster!Waiting(hub.count, hub.connected)
  BY DEF Cluster!Resolve
<1>5. hub' \in ClusterHub /\ (hub'.pc # "idle" => hub'.task \in Tasks)
  <2>1. CASE hub' = Cluster!Waiting(hub.count, hub.connected)
    BY <1>1, <2>1 DEF Cluster!Waiting, ClusterHub, ClusterPlaces
  <2>2. ASSUME NEW n \in Cluster!Hosts(index), hub' = [hub EXCEPT !.pc = "forward", !.to = n]
        PROVE  hub' \in ClusterHub /\ hub'.task \in Tasks
    BY <1>1, <1>3, <2>2 DEF ClusterHub
  <2> QED
    BY <1>4, <2>1, <2>2
<1>6. Cluster!TypeOK'
  BY <1>2, <1>5 DEF ClusterInv, Cluster!TypeOK, Cluster!bus, ClusterHub
<1> QED
  BY <1>2, <1>5, <1>6 DEF ClusterInv, ClusterShaped, ClusterInHand, Cluster!TasksAccounted,
     Cluster!RunByOwner, Cluster!TasksKept, Cluster!bus

\* A shard in which some fields are changed.
LEMMA ClusterHanded ==
    ASSUME ClusterInv, NEW n \in DOMAIN node, NEW task \in Tasks \cup {Cluster!None},
           NEW done \in BOOLEAN,
           node' = [node EXCEPT ![n].task = task, ![n].done = done]
    PROVE  /\ DOMAIN node' = DOMAIN node /\ node' \in [DOMAIN node -> ClusterShard]
           /\ node'[n].index = node[n].index /\ node'[n].count = node[n].count
           /\ node'[n].task = task /\ node'[n].done = done
           /\ \A m \in DOMAIN node : m # n => node'[m] = node[m]
<1>1. node \in [DOMAIN node -> ClusterShard] /\ node[n] \in ClusterShard
  BY DEF ClusterInv, ClusterShaped
<1>2. node' = [node EXCEPT ![n] = [[node[n] EXCEPT !.task = task] EXCEPT !.done = done]]
  BY <1>1
<1>3. [[node[n] EXCEPT !.task = task] EXCEPT !.done = done] \in ClusterShard
  BY <1>1 DEF ClusterShard
<1> QED
  BY <1>1, <1>2, <1>3 DEF ClusterShard

LEMMA ClusterForwardInv ==
    ASSUME Cluster!ClusterAssumption, ClusterInv, Cluster!Forward
    PROVE  ClusterInv'
<1>1. hub \in ClusterHub /\ hub.task \in Tasks /\ UNCHANGED <<clusterRedis, Cluster!bus, recorded>>
  BY DEF Cluster!Forward, ClusterInv, ClusterShaped
<1>2. hub' = Cluster!Waiting(hub.count, hub.connected)
  BY DEF Cluster!Forward
<1>3. hub' \in ClusterHub /\ hub'.pc = "idle"
  BY <1>1, <1>2 DEF Cluster!Waiting, ClusterHub, ClusterPlaces
<1>4. CASE UNCHANGED node
  <2>1. Cluster!TypeOK'
    BY <1>1, <1>3, <1>4 DEF ClusterInv, Cluster!TypeOK, Cluster!bus, ClusterHub
  <2> QED
    BY <1>1, <1>3, <1>4, <2>1 DEF ClusterInv, ClusterShaped, ClusterInHand, Cluster!TasksAccounted,
       Cluster!RunByOwner, Cluster!TasksKept, Cluster!bus
<1>5. CASE hub.to \in DOMAIN node /\ Cluster!is_task_owned(hub.task, node[hub.to].index,
      node[hub.to].count)
           /\ node[hub.to].task = Cluster!None /\ node' = [node EXCEPT ![hub.to].task = hub.task]
  <2> DEFINE n == hub.to
  <2>1. node \in [DOMAIN node -> ClusterShard] /\ node[n] \in ClusterShard
    BY <1>5 DEF ClusterInv, ClusterShaped
  <2>2. ~node[n].done
    BY <1>5, ClusterNoneIsNoTask DEF ClusterInv, Cluster!TypeOK
  <2>3. node' = [node EXCEPT ![n].task = hub.task, ![n].done = FALSE]
    BY <1>5, <2>1, <2>2 DEF ClusterShard
  <2>4. /\ DOMAIN node' = DOMAIN node /\ node' \in [DOMAIN node -> ClusterShard]
        /\ node'[n].index = node[n].index /\ node'[n].count = node[n].count
        /\ node'[n].task = hub.task /\ node'[n].done = FALSE
        /\ \A m \in DOMAIN node : m # n => node'[m] = node[m]
    BY <1>1, <1>5, <2>3, ClusterHanded
  <2>5. Cluster!TypeOK'
    BY <1>1, <1>3, <1>5, <2>4 DEF ClusterInv, Cluster!TypeOK, Cluster!bus, ClusterHub
  <2>6. ClusterInHand'
    BY <1>1, <1>5, <2>4 DEF ClusterInv, ClusterInHand, Cluster!bus
  <2> QED
    BY <1>1, <1>3, <2>4, <2>5, <2>6
      DEF ClusterInv, ClusterShaped, Cluster!TasksAccounted, Cluster!RunByOwner, Cluster!TasksKept,
          Cluster!bus
<1> QED
  BY <1>4, <1>5 DEF Cluster!Forward

------------------------------------------------------------------------------
(* A task is completed.                                                    *)

\* A result is stored before the task is taken from the bus (state_bus.py:82).
LEMMA ClusterStoreInv ==
    ASSUME Cluster!ClusterAssumption, ClusterInv, NEW n \in Names, Cluster!Store(n)
    PROVE  ClusterInv'
<1>1. n \in DOMAIN node /\ node[n] \in ClusterShard /\ node[n].task \in Tasks /\ ~node[n].done
      /\ UNCHANGED <<clusterRedis, shards, tasks, hub, recorded>>
  BY DEF Cluster!Store, ClusterInv, ClusterShaped, Cluster!TypeOK
<1> DEFINE task == node[n].task
           ran == [index |-> node[n].index, count |-> node[n].count]
<1>2. CASE results' = Cluster!Put(results, task, ran) /\ node' = [node EXCEPT ![n].done = TRUE]
  <2>1. node' = [node EXCEPT ![n].task = task, ![n].done = TRUE]
    BY <1>1, <1>2 DEF ClusterShard, ClusterInv, ClusterShaped
  <2>2. /\ DOMAIN node' = DOMAIN node /\ node' \in [DOMAIN node -> ClusterShard]
        /\ node'[n].index = node[n].index /\ node'[n].count = node[n].count
        /\ node'[n].task = task /\ node'[n].done = TRUE
        /\ \A m \in DOMAIN node : m # n => node'[m] = node[m]
    BY <1>1, <2>1, ClusterHanded
  <2>3. DOMAIN results' = DOMAIN results \cup {task} /\ results'[task] = ran
        /\ \A t \in DOMAIN results : t # task => results'[t] = results[t]
    BY <1>2 DEF Cluster!Put
  <2>4. ran \in Cluster!Ran /\ ran.index = node[n].index /\ ran.count = node[n].count
    BY <1>1 DEF Cluster!Ran, ClusterShard
  <2> HIDE DEF ran
  <2>5. Cluster!TypeOK'
    BY <1>1, <2>2, <2>3, <2>4 DEF ClusterInv, Cluster!TypeOK
  <2>6. ClusterInHand'
    BY <1>1, <2>2, <2>3 DEF ClusterInv, ClusterInHand
  <2>7. Cluster!RunByOwner'
    <3>1. Cluster!is_task_owned(task, node[n].index, node[n].count)
      BY <1>1, ClusterNoneIsNoTask DEF ClusterInv, ClusterInHand
    <3> QED
      BY <2>3, <2>4, <3>1 DEF ClusterInv, Cluster!TasksAccounted, Cluster!RunByOwner,
         Cluster!is_task_owned
  <2>8. Cluster!TasksKept'
    BY <1>1, <2>3 DEF ClusterInv, Cluster!TasksAccounted, Cluster!TasksKept
  <2> QED
    BY <1>1, <2>2, <2>5, <2>6, <2>7, <2>8 DEF ClusterInv, ClusterShaped, Cluster!TasksAccounted
<1>3. CASE UNCHANGED results /\ node' = [node EXCEPT ![n].task = Cluster!None]
  <2>1. node' = [node EXCEPT ![n].task = Cluster!None, ![n].done = FALSE]
    BY <1>1, <1>3 DEF ClusterShard, ClusterInv, ClusterShaped
  <2>2. /\ DOMAIN node' = DOMAIN node /\ node' \in [DOMAIN node -> ClusterShard]
        /\ node'[n].index = node[n].index /\ node'[n].count = node[n].count
        /\ node'[n].task = Cluster!None /\ node'[n].done = FALSE
        /\ \A m \in DOMAIN node : m # n => node'[m] = node[m]
    BY <1>1, <2>1, ClusterHanded
  <2>3. Cluster!TypeOK'
    BY <1>1, <1>3, <2>2 DEF ClusterInv, Cluster!TypeOK
  <2>4. ClusterInHand'
    BY <1>1, <1>3, <2>2 DEF ClusterInv, ClusterInHand
  <2> QED
    BY <1>1, <1>3, <2>2, <2>3, <2>4
      DEF ClusterInv, ClusterShaped, Cluster!TasksAccounted, Cluster!RunByOwner, Cluster!TasksKept
<1> QED
  BY <1>2, <1>3 DEF Cluster!Store

LEMMA ClusterClearInv == ASSUME ClusterInv, NEW n \in Names, Cluster!Clear(n) PROVE ClusterInv'
<1>1. n \in DOMAIN node /\ node[n].done /\ node[n].task \in DOMAIN results
      /\ UNCHANGED <<clusterRedis, shards, results, hub, recorded>>
  BY DEF Cluster!Clear, ClusterInv, ClusterInHand
<1>2. node' = [node EXCEPT ![n].task = Cluster!None, ![n].done = FALSE]
  BY DEF Cluster!Clear
<1>3. /\ DOMAIN node' = DOMAIN node /\ node' \in [DOMAIN node -> ClusterShard]
      /\ node'[n].index = node[n].index /\ node'[n].count = node[n].count
      /\ node'[n].task = Cluster!None /\ node'[n].done = FALSE
      /\ \A m \in DOMAIN node : m # n => node'[m] = node[m]
  BY <1>1, <1>2, ClusterHanded
<1>4. DOMAIN tasks' \in {DOMAIN tasks, DOMAIN tasks \ {node[n].task}}
  BY ClusterRemoving DEF Cluster!Clear
<1>5. Cluster!TypeOK'
  BY <1>1, <1>3, <1>4 DEF ClusterInv, Cluster!TypeOK
<1>6. ClusterInHand'
  BY <1>1, <1>3 DEF ClusterInv, ClusterInHand
<1>7. Cluster!TasksKept'
  BY <1>1, <1>4 DEF ClusterInv, Cluster!TasksAccounted, Cluster!TasksKept
<1> QED
  BY <1>1, <1>3, <1>5, <1>6, <1>7
    DEF ClusterInv, ClusterShaped, Cluster!TasksAccounted, Cluster!RunByOwner

------------------------------------------------------------------------------
\* Every step keeps the invariant.
LEMMA ClusterNextInv ==
    ASSUME Cluster!ClusterAssumption, ClusterInv, Cluster!Next \/ UNCHANGED Cluster!vars
    PROVE  ClusterInv'
<1>1. CASE \E n \in Names, count \in Counts : \E index \in 0 .. count - 1 : Cluster!StartShard(n, index,
      count)
  BY <1>1, ClusterStartInv
<1>2. CASE \E n \in Names, killed \in BOOLEAN : Cluster!EndShard(n, killed)
  BY <1>2, ClusterEndInv
<1>3. CASE \E n \in Names : Cluster!Store(n) \/ Cluster!Clear(n)
  BY <1>3, ClusterStoreInv, ClusterClearInv
<1>4. CASE \E count \in Counts : Cluster!RestartHub(count)
  BY <1>4, ClusterRestartInv
<1>5. CASE Cluster!RedisGoesAndComes
  BY <1>5, ClusterRedisInv
<1>6. CASE \E t \in Tasks : Cluster!Assign(t)
  BY <1>6, ClusterAssignInv
<1>7. CASE Cluster!Resolve \/ Cluster!Forward
  BY <1>7, ClusterResolveInv, ClusterForwardInv
<1>8. CASE UNCHANGED Cluster!vars
  BY <1>8 DEF Cluster!vars, Cluster!bus, ClusterInv, Cluster!TypeOK, ClusterShaped, ClusterInHand,
     Cluster!TasksAccounted, Cluster!RunByOwner, Cluster!TasksKept
<1> QED
  BY <1>1, <1>2, <1>3, <1>4, <1>5, <1>6, <1>7, <1>8 DEF Cluster!Next

------------------------------------------------------------------------------
(* Storage proofs (StorageProof.tla).  Hosts are credited with at most as  *)
(* many answers as were asked for, so that their counters add up.          *)

\* The finite sets of the instance are the finite sets.
LEMMA ProofsSets == \A S : (Proofs!IsFiniteSet(S) <=> IsFiniteSet(S))
      /\ Proofs!Cardinality(S) = Cardinality(S)
  BY DEF Proofs!IsFiniteSet, IsFiniteSet, Proofs!Cardinality, Cardinality

\* What the sum of percentages is.
LEMMA ProofsSumOfIs ==
    ASSUME NEW n \in Nat, NEW s \in [1 .. n -> 0 .. 100]
    PROVE  Proofs!SumOf(s) \in 0 .. (100 * n)
<1> DEFINE D == DOMAIN s
           P == 0 .. 100
           iter == CHOOSE iter : iter = Adding(D, s, iter)
<1>1. IsFiniteSet(D) /\ Cardinality(D) = n /\ s \in [D -> 0 .. 100] /\ s \in [D -> Nat]
  <2>1. IsFiniteSet(1 .. n) /\ Cardinality(1 .. n) = n
    BY FS_Interval
  <2>2. P \subseteq Nat /\ s \in [1 .. n -> P] /\ D = 1 .. n
    OBVIOUS
  <2> HIDE DEF D, P
  <2>3. s \in [D -> P] /\ s \in [D -> Nat]
    BY <2>2
  <2> QED BY <2>1, <2>2, <2>3 DEF P
<1>2. Proofs!SumOf(s) = iter[D]
  BY DEF Proofs!SumOf, Proofs!SumFunction, Proofs!SumFunctionOnSet, Proofs!FoldFunctionOnSet,
         Proofs!MapThenFoldSet, Some, Adding
<1>3. iter \in Sums(D, s)
  <2> HIDE DEF D
  <2> QED BY <1>1, SumIterates
<1> HIDE DEF iter, D, P
<1>4. 100 \in Nat /\ iter[D] \in 0 .. (100 * Cardinality(D))
  BY <1>1, <1>3, SumBounded
<1> QED
  BY <1>1, <1>2, <1>4

\* The contributions that count are percentages.
LEMMA ProofsRecentIs ==
    ASSUME Proofs!StorageProofAssumption, NEW s \in Seq(Grades)
    PROVE  Proofs!Recent(s) \in Seq(Grades)
           /\ Proofs!SumOf(Proofs!Recent(s)) \in 0 .. (100 * Len(Proofs!Recent(s)))
<1>1. Grades \subseteq 0 .. 100 /\ Window \in Nat \ {0}
  BY DEF Proofs!StorageProofAssumption
<1>2. Proofs!Recent(s) \in Seq(Grades)
  <2> DEFINE first == IF Len(s) > Window THEN Len(s) - Window + 1 ELSE 1
  <2>1. first \in 1 .. Len(s) + 1 /\ Len(s) \in 0 .. Len(s)
        /\ Proofs!Recent(s) = SubSeq(s, first, Len(s))
    BY <1>1 DEF Proofs!Recent
  <2> HIDE DEF first
  <2> QED BY <2>1, SubSeqProperties
<1>3. Len(Proofs!Recent(s)) \in Nat /\ Proofs!Recent(s) \in [1 .. Len(Proofs!Recent(s)) -> Grades]
  BY <1>2, LenProperties
<1>4. Proofs!Recent(s) \in [1 .. Len(Proofs!Recent(s)) -> 0 .. 100]
  <2> DEFINE n == Len(Proofs!Recent(s))
             r == Proofs!Recent(s)
  <2>1. n \in Nat /\ r \in [1 .. n -> Grades]
    BY <1>3
  <2> HIDE DEF n, r
  <2>2. r \in [1 .. n -> 0 .. 100]
    BY <1>1, <2>1
  <2> QED BY <2>2 DEF n, r
<1> QED
  BY <1>2, <1>3, <1>4, ProofsSumOfIs

\* A mean of two fractions, in ten-thousandths, is none above the whole.
ProofsBlend(n, rate, m, mean) == (2 * (7000 * rate * m + 3000 * mean * n) + n * m) \div (2 * n * m)

\* It is within 0 .. 10000.
LEMMA ProofsBlended ==
    ASSUME NEW n \in Nat \ {0}, NEW m \in Nat \ {0}, NEW rate \in 0 .. n, NEW mean \in 0 .. m
    PROVE  ProofsBlend(n, rate, m, mean) \in Proofs!Scores
<1> DEFINE a == rate * m
           b == mean * n
           c == n * m
<1>1. a \in 0 .. c /\ b \in 0 .. c /\ c \in Nat \ {0}
  OBVIOUS
<1>2. 7000 * rate * m = 7000 * a /\ 3000 * mean * n = 3000 * b /\ 2 * n * m = 2 * c
  OBVIOUS
<1> HIDE DEF a, b
<1> DEFINE x == 2 * (7000 * a + 3000 * b) + c
<1>3. ProofsBlend(n, rate, m, mean) = x \div (2 * c)
  BY <1>2 DEF ProofsBlend
<1>4. x \in Nat /\ x < 10001 * (2 * c)
  <2> HIDE DEF c
  <2> QED BY <1>1
<1> HIDE DEF x, c
<1>5. x \div (2 * c) \in Proofs!Scores
  <2> DEFINE d == 2 * c
  <2>1. d \in Nat \ {0} /\ x \in Nat /\ x < 10001 * d
    BY <1>1, <1>4
  <2> HIDE DEF d
  <2>2. x \div d \in Proofs!Scores
    BY <2>1 DEF Proofs!Scores
  <2> QED BY <2>2 DEF d
<1> QED
  BY <1>3, <1>5

\* What a score is made of.
ProofsAnswers(rep) == IF rep.passed + rep.failed = 0 THEN 1 ELSE rep.passed + rep.failed
ProofsRate(rep) == IF rep.passed + rep.failed = 0 THEN 1 ELSE rep.passed
ProofsMean(rep) == IF Proofs!Recent(rep.grades) = <<>> THEN 1
      ELSE Proofs!SumOf(Proofs!Recent(rep.grades))
ProofsWeightOf(rep) == Proofs!Weight(Proofs!Recent(rep.grades))

\* A score is a mean of two fractions.
LEMMA ProofsScoreIs ==
    ASSUME Proofs!StorageProofAssumption, NEW rep, rep.passed \in Nat, rep.failed \in Nat,
           rep.grades \in Seq(Grades)
    PROVE  /\ ProofsAnswers(rep) \in Nat \ {0} /\ ProofsRate(rep) \in 0 .. ProofsAnswers(rep)
           /\ ProofsWeightOf(rep) \in Nat \ {0} /\ ProofsMean(rep) \in 0 .. ProofsWeightOf(rep)
           /\ Proofs!Score(rep) = ProofsBlend(ProofsAnswers(rep), ProofsRate(rep), ProofsWeightOf(rep),
              ProofsMean(rep))
           /\ Proofs!Score(rep) \in Proofs!Scores
<1>1. ProofsAnswers(rep) \in Nat \ {0} /\ ProofsRate(rep) \in 0 .. ProofsAnswers(rep)
  BY DEF ProofsAnswers, ProofsRate
<1>2. ProofsWeightOf(rep) \in Nat \ {0} /\ ProofsMean(rep) \in 0 .. ProofsWeightOf(rep)
  <2> DEFINE grades == Proofs!Recent(rep.grades)
  <2>1. grades \in Seq(Grades) /\ Proofs!SumOf(grades) \in 0 .. (100 * Len(grades))
    BY ProofsRecentIs
  <2>3. ProofsWeightOf(rep) = Proofs!Weight(grades) /\ ProofsMean(rep) = IF grades = <<>> THEN 1
        ELSE Proofs!SumOf(grades)
    BY DEF ProofsWeightOf, ProofsMean
  <2> HIDE DEF grades
  <2>2. grades # <<>> => Len(grades) \in Nat \ {0}
    BY <2>1
  <2> QED BY <2>1, <2>2, <2>3 DEF Proofs!Weight
<1>3. Proofs!Score(rep) = ProofsBlend(ProofsAnswers(rep), ProofsRate(rep), ProofsWeightOf(rep),
      ProofsMean(rep))
  BY DEF Proofs!Score, ProofsBlend, ProofsAnswers, ProofsRate, ProofsWeightOf, ProofsMean
<1> QED
  BY <1>1, <1>2, <1>3, ProofsBlended

------------------------------------------------------------------------------
(* What a score says of another.                                           *)

\* A mean that rounds below the one threshold, or not below the other.
LEMMA ProofsRounding ==
    ASSUME NEW n \in Nat \ {0}, NEW m \in Nat \ {0}, NEW rate \in 0 .. n, NEW mean \in 0 .. m
    PROVE  /\ ProofsBlend(n, rate, m, mean) < 3000
              => 14000 * (rate * m) + 6000 * (mean * n) < 5999 * (n * m)
           /\ ProofsBlend(n, rate, m, mean) >= 7000
              => 14000 * (rate * m) + 6000 * (mean * n) >= 13999 * (n * m)
<1> DEFINE a == rate * m
           b == mean * n
           c == n * m
           x == 2 * (7000 * a + 3000 * b) + c
<1>1. a \in Nat /\ b \in Nat /\ c \in Nat \ {0}
  OBVIOUS
<1>2. 7000 * rate * m = 7000 * a /\ 3000 * mean * n = 3000 * b /\ 2 * n * m = 2 * c
  OBVIOUS
<1> HIDE DEF a, b
<1>3. ProofsBlend(n, rate, m, mean) = x \div (2 * c)
  BY <1>2 DEF ProofsBlend
<1> HIDE DEF c
<1>4. x \in Nat /\ x = 14000 * a + 6000 * b + c
  BY <1>1
<1>5. x \div (2 * c) < 3000 => x < 3000 * (2 * c)
  <2> HIDE DEF x
  <2> QED BY <1>1, <1>4
<1>6. x \div (2 * c) >= 7000 => x >= 7000 * (2 * c)
  <2> HIDE DEF x
  <2> QED BY <1>1, <1>4
<1>7. /\ x \div (2 * c) < 3000 => 14000 * a + 6000 * b < 5999 * c
      /\ x \div (2 * c) >= 7000 => 14000 * a + 6000 * b >= 13999 * c
  <2>1. x < 3000 * (2 * c) => 14000 * a + 6000 * b < 5999 * c
    BY <1>1, <1>4
  <2>2. x >= 7000 * (2 * c) => 14000 * a + 6000 * b >= 13999 * c
    BY <1>1, <1>4
  <2> HIDE DEF x
  <2> QED BY <1>5, <1>6, <2>1, <2>2
<1> QED
  BY <1>3, <1>7 DEF a, b, c

\* One more answer does not lift a score from below the one threshold to the other.
LEMMA ProofsNoLeapByAnswer ==
    ASSUME NEW n \in Nat \ {0}, NEW m \in Nat \ {0}, NEW rate \in 0 .. n, NEW mean \in 0 .. m,
           NEW more \in {rate, rate + 1}
    PROVE  ProofsBlend(n, rate, m, mean) < 3000 => ProofsBlend(n + 1, more, m, mean) < 7000
<1> DEFINE a == rate * m
           b == mean * n
           c == n * m
           u == n + 1
           x == more * m
           y == mean * u
           z == u * m
<1>1. a \in Nat /\ b \in Nat /\ c \in Nat /\ c >= m
  OBVIOUS
<1>2. (x = a \/ x = a + m) /\ y = b + mean /\ z = c + m
  OBVIOUS
<1>3. u \in Nat \ {0} /\ more \in 0 .. u
  OBVIOUS
<1> DEFINE before == ProofsBlend(n, rate, m, mean)
           after == ProofsBlend(u, more, m, mean)
<1>4. before < 3000 => 14000 * a + 6000 * b < 5999 * c
  BY ProofsRounding
<1> HIDE DEF a, b, c, u
<1>5. after >= 7000 => 14000 * x + 6000 * y >= 13999 * z
  BY <1>3, ProofsRounding
<1>6. after \in Proofs!Scores
  BY <1>3, ProofsBlended
<1> HIDE DEF before, after, x, y, z
<1>7. after \in Nat
  BY <1>6 DEF Proofs!Scores
<1>8. before < 3000 => after < 7000
  BY <1>1, <1>2, <1>4, <1>5, <1>7
<1> QED
  BY <1>8 DEF before, after, u

\* Nor does another list of contributions.
LEMMA ProofsNoLeapByGrades ==
    ASSUME NEW n \in Nat \ {0}, NEW m \in Nat \ {0}, NEW rate \in 0 .. n, NEW mean \in 0 .. m,
           NEW q \in Nat \ {0}, NEW other \in 0 .. q
    PROVE  ProofsBlend(n, rate, m, mean) < 3000 => ProofsBlend(n, rate, q, other) < 7000
<1> DEFINE a == rate * m
           b == mean * n
           c == n * m
           x == rate * q
           y == other * n
           z == n * q
           before == ProofsBlend(n, rate, m, mean)
           after == ProofsBlend(n, rate, q, other)
<1>1. a \in Nat /\ b \in Nat /\ c \in Nat /\ x \in Nat /\ z \in Nat \ {0} /\ y \in 0 .. z
  OBVIOUS
<1>2. before < 3000 => 14000 * a + 6000 * b < 5999 * c
  BY ProofsRounding
<1>3. after >= 7000 => 14000 * x + 6000 * y >= 13999 * z
  BY ProofsRounding
<1>4. after \in Proofs!Scores
  BY ProofsBlended
<1>5. 14000 * rate >= 5999 * n => 14000 * a >= 5999 * c
  <2>1. 14000 * rate >= 5999 * n => (14000 * rate) * m >= (5999 * n) * m
    OBVIOUS
  <2>2. (14000 * rate) * m = 14000 * a /\ (5999 * n) * m = 5999 * c
    OBVIOUS
  <2> HIDE DEF a, c
  <2> QED BY <2>1, <2>2
<1>6. 14000 * rate < 5999 * n => 14000 * x < 5999 * z
  <2>1. 14000 * rate < 5999 * n => (14000 * rate) * q < (5999 * n) * q
    OBVIOUS
  <2>2. (14000 * rate) * q = 14000 * x /\ (5999 * n) * q = 5999 * z
    OBVIOUS
  <2> HIDE DEF x, z
  <2> QED BY <2>1, <2>2
<1> HIDE DEF a, b, c, x, y, z, before, after
<1>7. after \in Nat
  BY <1>4 DEF Proofs!Scores
<1>8. before < 3000 => after < 7000
  BY <1>1, <1>2, <1>3, <1>5, <1>6, <1>7
<1> QED
  BY <1>8 DEF before, after

\* Whoever is evicted has been asked: without an answer the pass rate is whole.
LEMMA ProofsLowNeedsAnswers ==
    ASSUME Proofs!StorageProofAssumption, NEW rep, rep.passed \in Nat, rep.failed \in Nat,
           rep.grades \in Seq(Grades),
           rep.passed + rep.failed = 0
    PROVE  ~ (Proofs!Score(rep) < 3000)
<1> DEFINE m == ProofsWeightOf(rep)
           mean == ProofsMean(rep)
<1>1. m \in Nat \ {0} /\ mean \in 0 .. m /\ Proofs!Score(rep) = ProofsBlend(1, 1, m, mean)
  BY ProofsScoreIs DEF ProofsAnswers, ProofsRate
<1> HIDE DEF m, mean
<1>2. ProofsBlend(1, 1, m, mean) < 3000 => 14000 * (1 * m) + 6000 * (mean * 1) < 5999 * (1 * m)
  BY <1>1, ProofsRounding
<1>3. ~ (14000 * (1 * m) + 6000 * (mean * 1) < 5999 * (1 * m))
  BY <1>1
<1> QED
  BY <1>1, <1>2, <1>3

ProofsCounted(rep) == rep.passed \in Nat /\ rep.failed \in Nat /\ rep.grades \in Seq(Grades)

\* One answer or one contribution does not lift a score over both thresholds.
LEMMA ProofsNoLeap ==
    ASSUME Proofs!StorageProofAssumption, NEW rep, NEW new, ProofsCounted(rep), ProofsCounted(new),
           \/ new.passed = rep.passed + 1 /\ new.failed = rep.failed /\ new.grades = rep.grades
           \/ new.passed = rep.passed /\ new.failed = rep.failed + 1 /\ new.grades = rep.grades
           \/ new.passed = rep.passed /\ new.failed = rep.failed
    PROVE  Proofs!Score(rep) < 3000 => Proofs!Score(new) < 7000
<1> DEFINE n == ProofsAnswers(rep)
           rate == ProofsRate(rep)
           m == ProofsWeightOf(rep)
           mean == ProofsMean(rep)
<1>1. /\ n \in Nat \ {0} /\ rate \in 0 .. n /\ m \in Nat \ {0} /\ mean \in 0 .. m
      /\ Proofs!Score(rep) = ProofsBlend(n, rate, m, mean)
  BY ProofsScoreIs DEF ProofsCounted
<1>2. CASE rep.passed + rep.failed = 0
  BY <1>2, ProofsLowNeedsAnswers DEF ProofsCounted
<1>3. CASE rep.passed + rep.failed # 0
  <2>1. n = rep.passed + rep.failed /\ rate = rep.passed
    BY <1>3 DEF ProofsAnswers, ProofsRate
  <2>2. CASE new.grades = rep.grades /\ ProofsAnswers(new) = n + 1
        /\ ProofsRate(new) \in {rate, rate + 1}
    <3> DEFINE more == ProofsRate(new)
    <3>1. Proofs!Score(new) = ProofsBlend(n + 1, more, m, mean)
      BY <2>2, ProofsScoreIs DEF ProofsCounted, ProofsWeightOf, ProofsMean
    <3>2. more \in {rate, rate + 1}
      BY <2>2
    <3> HIDE DEF n, rate, m, mean, more
    <3> QED BY <1>1, <3>1, <3>2, ProofsNoLeapByAnswer
  <2>3. CASE ProofsAnswers(new) = n /\ ProofsRate(new) = rate
    <3> DEFINE q == ProofsWeightOf(new)
               other == ProofsMean(new)
    <3>1. Proofs!Score(new) = ProofsBlend(n, rate, q, other) /\ q \in Nat \ {0} /\ other \in 0 .. q
      BY <2>3, ProofsScoreIs DEF ProofsCounted
    <3> HIDE DEF n, rate, m, mean, q, other
    <3> QED BY <1>1, <3>1, ProofsNoLeapByGrades
  <2>4. CASE new.passed = rep.passed /\ new.failed = rep.failed
    BY <2>3, <2>4 DEF ProofsAnswers, ProofsRate
  <2>5. CASE new.grades = rep.grades /\ new.passed \in {rep.passed, rep.passed + 1}
             /\ new.passed + new.failed = rep.passed + rep.failed + 1
    <3>1. ProofsAnswers(new) = n + 1 /\ ProofsRate(new) \in {rate, rate + 1}
      BY <2>1, <2>5 DEF ProofsAnswers, ProofsRate, ProofsCounted
    <3> QED BY <2>2, <2>5, <3>1
  <2> QED BY <2>4, <2>5 DEF ProofsCounted
<1> QED
  BY <1>2, <1>3

------------------------------------------------------------------------------
(* The inductive invariant.                                                *)

\* A record, field by field.
ProofsFields(rep, issued, passed, failed, grades, score, status) ==
    /\ rep.issued = issued /\ rep.passed = passed /\ rep.failed = failed
    /\ rep.grades = grades /\ rep.score = score /\ rep.status = status

ProofsMade(issued, passed, failed, grades, score, status) ==
    [issued |-> issued, passed |-> passed, failed |-> failed,
     grades |-> grades, score |-> score, status |-> status]

\* What a record is with one count or the list replaced.
LEMMA ProofsUpdated ==
    ASSUME NEW rep \in Proofs!Reputations, NEW n \in Nat, NEW list \in Seq(Grades)
    PROVE  /\ [rep EXCEPT !.issued = n] \in Proofs!Reputations
           /\ ProofsFields([rep EXCEPT !.issued = n], n, rep.passed, rep.failed, rep.grades, rep.score,
              rep.status)
           /\ [rep EXCEPT !.passed = n] \in Proofs!Reputations
           /\ ProofsFields([rep EXCEPT !.passed = n], rep.issued, n, rep.failed, rep.grades, rep.score,
              rep.status)
           /\ [rep EXCEPT !.failed = n] \in Proofs!Reputations
           /\ ProofsFields([rep EXCEPT !.failed = n], rep.issued, rep.passed, n, rep.grades, rep.score,
              rep.status)
           /\ [rep EXCEPT !.grades = list] \in Proofs!Reputations
           /\ ProofsFields([rep EXCEPT !.grades = list], rep.issued, rep.passed, rep.failed, list,
              rep.score, rep.status)
<1> DEFINE a == rep.issued
           b == rep.passed
           c == rep.failed
           d == rep.grades
           e == rep.score
           f == rep.status
<1>1. rep = ProofsMade(a, b, c, d, e, f)
  BY DEF Proofs!Reputations, ProofsMade
<1>2. a \in Nat /\ b \in Nat /\ c \in Nat /\ d \in Seq(Grades) /\ e \in Proofs!Scores
      /\ f \in Proofs!Statuses
  BY DEF Proofs!Reputations
<1> HIDE DEF a, b, c, d, e, f
<1>3. /\ ProofsMade(n, b, c, d, e, f) \in Proofs!Reputations
      /\ ProofsMade(a, n, c, d, e, f) \in Proofs!Reputations
      /\ ProofsMade(a, b, n, d, e, f) \in Proofs!Reputations
      /\ ProofsMade(a, b, c, list, e, f) \in Proofs!Reputations
  BY <1>2 DEF ProofsMade, Proofs!Reputations
<1>4. [ProofsMade(a, b, c, d, e, f) EXCEPT !.issued = n] = ProofsMade(n, b, c, d, e, f)
  BY DEF ProofsMade
<1>5. [ProofsMade(a, b, c, d, e, f) EXCEPT !.passed = n] = ProofsMade(a, n, c, d, e, f)
  BY DEF ProofsMade
<1>6. [ProofsMade(a, b, c, d, e, f) EXCEPT !.failed = n] = ProofsMade(a, b, n, d, e, f)
  BY DEF ProofsMade
<1>7. [ProofsMade(a, b, c, d, e, f) EXCEPT !.grades = list] = ProofsMade(a, b, c, list, e, f)
  BY DEF ProofsMade
<1>8. \A x1, x2, x3, x4, x5, x6 : ProofsFields(ProofsMade(x1, x2, x3, x4, x5, x6), x1, x2, x3, x4, x5,
      x6)
  BY DEF ProofsMade, ProofsFields
<1>9. a = rep.issued /\ b = rep.passed /\ c = rep.failed /\ d = rep.grades /\ e = rep.score
      /\ f = rep.status
  BY DEF a, b, c, d, e, f
<1> DEFINE w == ProofsMade(a, b, c, d, e, f)
<1>10. /\ [w EXCEPT !.issued = n] \in Proofs!Reputations
          /\ ProofsFields([w EXCEPT !.issued = n], n, b, c, d, e, f)
       /\ [w EXCEPT !.passed = n] \in Proofs!Reputations
          /\ ProofsFields([w EXCEPT !.passed = n], a, n, c, d, e, f)
       /\ [w EXCEPT !.failed = n] \in Proofs!Reputations
          /\ ProofsFields([w EXCEPT !.failed = n], a, b, n, d, e, f)
       /\ [w EXCEPT !.grades = list] \in Proofs!Reputations
          /\ ProofsFields([w EXCEPT !.grades = list], a, b, c, list, e, f)
  BY <1>3, <1>4, <1>5, <1>6, <1>7, <1>8
<1>11. rep = w
  BY <1>1
<1> HIDE DEF w
<1> QED
  BY <1>9, <1>10, <1>11, Zenon

\* A record says what its score says, and an eviction is what its answers earn.
ProofsTruthful(rep) ==
    /\ rep.status = "evicted" <=> rep.score < Proofs!EvictionThreshold
    /\ rep.status = "trusted" <=> rep.score >= Proofs!ProbationThreshold
    /\ rep.score < Proofs!EvictionThreshold => Proofs!Score(rep) = rep.score

\* Whoever is scored again after one answer or contribution keeps that.
LEMMA ProofsScoredKeeps ==
    ASSUME Proofs!StorageProofAssumption, NEW rep \in Proofs!Reputations,
           NEW new \in Proofs!Reputations, ProofsTruthful(rep),
           new.status = rep.status,
           \/ new.passed = rep.passed + 1 /\ new.failed = rep.failed /\ new.grades = rep.grades
           \/ new.passed = rep.passed /\ new.failed = rep.failed + 1 /\ new.grades = rep.grades
           \/ new.passed = rep.passed /\ new.failed = rep.failed
    PROVE  /\ Proofs!Scored(new) \in Proofs!Reputations /\ ProofsTruthful(Proofs!Scored(new))
           /\ Proofs!Scored(new).issued = new.issued /\ Proofs!Scored(new).passed = new.passed
           /\ Proofs!Scored(new).failed = new.failed /\ Proofs!Scored(new).grades = new.grades
<1> DEFINE score == Proofs!Score(new)
           status == Proofs!Status(score, new.status)
           after == Proofs!Scored(new)
<1>1. ProofsCounted(rep) /\ ProofsCounted(new)
  BY DEF Proofs!Reputations, ProofsCounted
<1>2. score \in Proofs!Scores
  BY <1>1, ProofsScoreIs DEF ProofsCounted
<1>3. Proofs!Score(rep) < 3000 => score < 7000
  BY <1>1, ProofsNoLeap
<1>4. /\ after = [new EXCEPT !.score = score, !.status = status]
      /\ after.issued = new.issued /\ after.passed = new.passed
      /\ after.failed = new.failed /\ after.grades = new.grades
      /\ after.score = score /\ after.status = status
  BY DEF Proofs!Scored, Proofs!Reputations
<1>5. Proofs!Score(after) = score
  <2>1. Proofs!Score(after) = Proofs!Score(new)
    <3> HIDE DEF after, score
    <3> QED BY <1>4 DEF Proofs!Score
  <2> QED BY <2>1
<1>6. /\ rep.status = "evicted" => Proofs!Score(rep) < 3000
      /\ new.status \in Proofs!Statuses
  BY DEF ProofsTruthful, Proofs!EvictionThreshold, Proofs!Reputations
<1> HIDE DEF score
<1>7. /\ status \in Proofs!Statuses
      /\ status = "evicted" <=> score < Proofs!EvictionThreshold
      /\ status = "trusted" <=> score >= Proofs!ProbationThreshold
  <2>1. score \in Nat /\ (rep.status = "evicted" => score < 7000)
    BY <1>2, <1>3, <1>6 DEF Proofs!Scores
  <2> QED BY <1>6, <2>1 DEF Proofs!Status, Proofs!Statuses, Proofs!EvictionThreshold,
             Proofs!ProbationThreshold
<1>8. after \in Proofs!Reputations
  <2>1. score \in Proofs!Scores /\ status \in Proofs!Statuses
    BY <1>2, <1>7
  <2> HIDE DEF status, after
  <2>4. new = [issued |-> new.issued, passed |-> new.passed, failed |-> new.failed,
               grades |-> new.grades, score |-> new.score, status |-> new.status]
    BY DEF Proofs!Reputations
  <2>5. after = [new EXCEPT !.score = score, !.status = status]
    BY <1>4
  <2>2. after = [issued |-> new.issued, passed |-> new.passed, failed |-> new.failed,
                 grades |-> new.grades, score |-> score, status |-> status]
    BY <2>4, <2>5, Zenon
  <2>3. /\ new.issued \in Nat /\ new.passed \in Nat /\ new.failed \in Nat
        /\ new.grades \in Seq(Grades)
    BY DEF Proofs!Reputations
  <2> QED BY <2>1, <2>2, <2>3 DEF Proofs!Reputations
<1> QED
  BY <1>4, <1>5, <1>7, <1>8 DEF ProofsTruthful

ProofsGood(rep) == rep \in Proofs!Reputations /\ Len(rep.grades) <= MaxGrades /\ ProofsTruthful(rep)
ProofsStore(r) == DOMAIN r \subseteq WeightHosts /\ \A h \in DOMAIN r : ProofsGood(r[h])
ProofsWaiting(h) == {c \in DOMAIN pending : pending[c] = h}

ProofsInv ==
    /\ DOMAIN pending \subseteq Challenges /\ \A c \in DOMAIN pending : pending[c] \in DOMAIN reputation
    /\ ProofsStore(reputation) /\ ProofsStore(saved)
    /\ strays \in [WeightHosts -> Int]
    /\ \A h \in DOMAIN saved : saved[h].passed + saved[h].failed <= saved[h].issued + strays[h]
    /\ \A h \in WeightHosts \ DOMAIN saved : strays[h] >= 0
    /\ \A h \in DOMAIN reputation :
          reputation[h].passed + reputation[h].failed + Cardinality(ProofsWaiting(h))
             <= reputation[h].issued + strays[h]
    /\ \A h \in WeightHosts \ DOMAIN reputation : strays[h] >= 0
    /\ restarts \in 0 .. MaxRestarts

\* The invariant holds the type and what reputation means.
LEMMA ProofsInvHolds == ProofsInv => Proofs!TypeOK /\ Proofs!ReputationEarned
<1> SUFFICES ASSUME ProofsInv PROVE Proofs!TypeOK /\ Proofs!ReputationEarned
  OBVIOUS
<1>1. \A r : ProofsStore(r) => Proofs!IsReputations(r)
  BY DEF ProofsStore, Proofs!IsReputations, ProofsGood
<1>2. Proofs!TypeOK
  BY <1>1 DEF ProofsInv, Proofs!TypeOK, ProofsStore
<1>3. Proofs!ReputationEarned
  BY ProofsSets DEF ProofsInv, ProofsStore, ProofsGood, ProofsTruthful, Proofs!ReputationEarned,
     Proofs!StatusTruthful, Proofs!AnswersAccounted, ProofsWaiting
<1> QED
  BY <1>2, <1>3

\* A host nothing is known of.
LEMMA ProofsFreshIs ==
    ASSUME Proofs!StorageProofAssumption
    PROVE  ProofsGood(Proofs!Fresh) /\ Proofs!Fresh.passed + Proofs!Fresh.failed = 0
<1>1. Proofs!Fresh \in Proofs!Reputations /\ Len(Proofs!Fresh.grades) <= MaxGrades
  <2>1. <<>> \in Seq(Grades) /\ Len(<<>>) = 0 /\ MaxGrades \in Nat
    BY EmptySeq, LenProperties DEF Proofs!StorageProofAssumption
  <2>2. 0 \in Nat /\ 10000 \in Proofs!Scores
    BY DEF Proofs!Scores
  <2>3. Proofs!Fresh.grades = <<>>
    BY DEF Proofs!Fresh
  <2> QED BY <2>1, <2>2, <2>3 DEF Proofs!Fresh, Proofs!Reputations, Proofs!Statuses
<1>2. ProofsTruthful(Proofs!Fresh)
  BY DEF Proofs!Fresh, ProofsTruthful, Proofs!EvictionThreshold, Proofs!ProbationThreshold
<1> QED
  BY <1>1, <1>2 DEF ProofsGood, Proofs!Fresh

\* What a host is charged with, known or not.
LEMMA ProofsKnown ==
    ASSUME Proofs!StorageProofAssumption, ProofsInv, NEW h \in WeightHosts
    PROVE  /\ ProofsGood(Proofs!ReputationOf(h)) /\ IsFiniteSet(ProofsWaiting(h))
           /\ Cardinality(ProofsWaiting(h)) \in Nat /\ strays[h] \in Int
           /\ Proofs!ReputationOf(h).passed + Proofs!ReputationOf(h).failed + Cardinality(ProofsWaiting(h))
                 <= Proofs!ReputationOf(h).issued + strays[h]
<1>1. IsFiniteSet(ProofsWaiting(h)) /\ Cardinality(ProofsWaiting(h)) \in Nat
  <2>1. ProofsWaiting(h) \subseteq Challenges /\ IsFiniteSet(Challenges)
    BY ProofsSets DEF ProofsWaiting, ProofsInv, Proofs!StorageProofAssumption
  <2> QED BY <2>1, FS_Subset, FS_CardinalityType
<1>2. CASE h \in DOMAIN reputation
  BY <1>1, <1>2 DEF ProofsInv, ProofsStore, Proofs!ReputationOf
<1>3. CASE h \notin DOMAIN reputation
  <2>1. ProofsWaiting(h) = {}
    BY <1>3 DEF ProofsWaiting, ProofsInv
  <2>2. Cardinality(ProofsWaiting(h)) = 0
    BY <2>1, FS_EmptySet
  <2>3. Proofs!ReputationOf(h) = Proofs!Fresh /\ ProofsGood(Proofs!Fresh)
    BY <1>3, ProofsFreshIs DEF Proofs!ReputationOf
  <2>4. Proofs!Fresh.passed = 0 /\ Proofs!Fresh.failed = 0 /\ Proofs!Fresh.issued = 0
    BY DEF Proofs!Fresh
  <2>5. strays[h] \in Int /\ strays[h] >= 0
    BY <1>3 DEF ProofsInv
  <2> QED BY <1>1, <2>2, <2>3, <2>4, <2>5
<1> QED
  BY <1>2, <1>3

\* What a change of one host's record leaves behind.
LEMMA ProofsChangeIs ==
    ASSUME Proofs!StorageProofAssumption, ProofsInv, NEW h \in WeightHosts,
           NEW new \in Proofs!Reputations, Len(new.grades) <= MaxGrades,
           new.status = Proofs!ReputationOf(h).status,
           \/ new.passed = Proofs!ReputationOf(h).passed + 1
              /\ new.failed = Proofs!ReputationOf(h).failed
              /\ new.grades = Proofs!ReputationOf(h).grades
           \/ new.passed = Proofs!ReputationOf(h).passed
              /\ new.failed = Proofs!ReputationOf(h).failed + 1
              /\ new.grades = Proofs!ReputationOf(h).grades
           \/ new.passed = Proofs!ReputationOf(h).passed /\ new.failed = Proofs!ReputationOf(h).failed,
           Proofs!Change(h, new)
    PROVE  /\ ProofsStore(reputation') /\ saved' = reputation'
           /\ DOMAIN reputation' = DOMAIN reputation \cup {h}
           /\ reputation'[h].issued = new.issued /\ reputation'[h].passed = new.passed
           /\ reputation'[h].failed = new.failed
           /\ \A g \in DOMAIN reputation \ {h} : reputation'[g] = reputation[g]
<1> DEFINE rep == Proofs!ReputationOf(h)
           after == Proofs!Scored(new)
<1>1. ProofsGood(rep)
  BY ProofsKnown
<1>2. /\ reputation' = [g \in DOMAIN reputation \cup {h} |-> IF g = h THEN after ELSE reputation[g]]
      /\ saved' = reputation'
  BY DEF Proofs!Change
<1>3. /\ after \in Proofs!Reputations /\ ProofsTruthful(after) /\ after.issued = new.issued
      /\ after.passed = new.passed /\ after.failed = new.failed /\ after.grades = new.grades
  <2> HIDE DEF rep
  <2>1. rep \in Proofs!Reputations /\ ProofsTruthful(rep)
    BY <1>1 DEF ProofsGood
  <2>2. /\ new.status = rep.status
        /\ \/ new.passed = rep.passed + 1 /\ new.failed = rep.failed /\ new.grades = rep.grades
           \/ new.passed = rep.passed /\ new.failed = rep.failed + 1 /\ new.grades = rep.grades
           \/ new.passed = rep.passed /\ new.failed = rep.failed
    BY DEF rep
  <2> QED BY <2>1, <2>2, ProofsScoredKeeps
<1> HIDE DEF after
<1>4. ProofsGood(after)
  BY <1>3 DEF ProofsGood
<1>5. ProofsStore(reputation')
  BY <1>2, <1>4 DEF ProofsStore, ProofsInv
<1> QED
  BY <1>2, <1>3, <1>5

\* Nothing is pending and nobody is known.
LEMMA ProofsInitInv == ASSUME Proofs!StorageProofAssumption, Proofs!Init PROVE ProofsInv
<1>1. DOMAIN pending = {} /\ DOMAIN reputation = {} /\ DOMAIN saved = {}
      /\ restarts \in 0 .. MaxRestarts
  BY DEF Proofs!Init, Proofs!StorageProofAssumption
<1>2. strays = [h \in WeightHosts |-> 0]
  BY DEF Proofs!Init
<1> QED
  BY <1>1, <1>2 DEF ProofsInv, ProofsStore

\* A challenge is counted before it is pending.
LEMMA ProofsIssueInv ==
    ASSUME Proofs!StorageProofAssumption, ProofsInv, NEW h \in WeightHosts, NEW c \in Challenges,
           Proofs!Issue(h, c)
    PROVE  ProofsInv'
<1> DEFINE rep == Proofs!ReputationOf(h)
           new == [rep EXCEPT !.issued = @ + 1]
<1>1. ProofsGood(rep) /\ rep.passed + rep.failed + Cardinality(ProofsWaiting(h)) <= rep.issued + strays[h]
  BY ProofsKnown
<1>2. /\ c \notin DOMAIN pending /\ restarts' = restarts /\ saved' = saved /\ strays' = strays
      /\ pending' = [d \in DOMAIN pending \cup {c} |-> IF d = c THEN h ELSE pending[d]]
      /\ reputation' = [g \in DOMAIN reputation \cup {h} |-> IF g = h THEN new ELSE reputation[g]]
  BY DEF Proofs!Issue
<1>3. /\ ProofsGood(new) /\ new.passed = rep.passed /\ new.failed = rep.failed
      /\ new.issued = rep.issued + 1
  <2> HIDE DEF rep
  <2>1. rep \in Proofs!Reputations
    BY <1>1 DEF ProofsGood
  <2>2. /\ new \in Proofs!Reputations /\ new.passed = rep.passed /\ new.failed = rep.failed
        /\ new.issued = rep.issued + 1 /\ new.grades = rep.grades /\ new.score = rep.score
        /\ new.status = rep.status
    <3> DEFINE n == rep.issued + 1
    <3>1. n \in Nat /\ rep.grades \in Seq(Grades) /\ new = [rep EXCEPT !.issued = n]
      BY <2>1 DEF Proofs!Reputations
    <3> HIDE DEF n, new
    <3>2. new \in Proofs!Reputations /\ ProofsFields(new, n, rep.passed, rep.failed, rep.grades,
          rep.score, rep.status)
      BY <2>1, <3>1, ProofsUpdated
    <3> QED BY <3>2 DEF ProofsFields, n
  <2>3. Proofs!Score(new) = Proofs!Score(rep)
    BY <2>2 DEF Proofs!Score
  <2> QED BY <1>1, <2>2, <2>3 DEF ProofsGood, ProofsTruthful
<1> HIDE DEF new
<1>4. /\ DOMAIN pending' \subseteq Challenges
         /\ \A d \in DOMAIN pending' : pending'[d] \in DOMAIN reputation'
  BY <1>2 DEF ProofsInv
<1>5. ProofsStore(reputation') /\ ProofsStore(saved')
  BY <1>2, <1>3 DEF ProofsInv, ProofsStore
<1>6. /\ ProofsWaiting(h)' = ProofsWaiting(h) \cup {c} /\ c \notin ProofsWaiting(h)
      /\ \A g : g # h => ProofsWaiting(g)' = ProofsWaiting(g)
  BY <1>2 DEF ProofsWaiting
<1>7. Cardinality(ProofsWaiting(h)') = Cardinality(ProofsWaiting(h)) + 1
  BY <1>6, ProofsKnown, FS_AddElement
<1>8. ASSUME NEW g \in DOMAIN reputation'
      PROVE  reputation'[g].passed + reputation'[g].failed + Cardinality(ProofsWaiting(g)')
                <= reputation'[g].issued + strays[g]
  <2>1. CASE g = h
    <3>2. reputation'[g] = new
      BY <1>2, <2>1
    <3> HIDE DEF rep, new
    <3>1. /\ rep.passed \in Nat /\ rep.failed \in Nat /\ rep.issued \in Nat
          /\ Cardinality(ProofsWaiting(h)) \in Nat /\ strays[h] \in Int
      BY <1>1, ProofsKnown DEF ProofsGood, Proofs!Reputations
    <3> QED BY <1>1, <1>3, <1>7, <2>1, <3>1, <3>2
  <2>2. CASE g # h
    <3>1. g \in DOMAIN reputation /\ reputation'[g] = reputation[g]
          /\ ProofsWaiting(g)' = ProofsWaiting(g)
      BY <1>2, <1>6, <2>2
    <3> QED BY <3>1 DEF ProofsInv
  <2> QED BY <2>1, <2>2
<1> QED
  BY <1>2, <1>4, <1>5, <1>8 DEF ProofsInv

\* An answer is counted when its challenge is no longer pending.
LEMMA ProofsValidateInv ==
    ASSUME Proofs!StorageProofAssumption, ProofsInv, NEW c \in DOMAIN pending, NEW h \in WeightHosts,
           NEW passes \in BOOLEAN, Proofs!Validate(c, h, passes)
    PROVE  ProofsInv'
<1>h. PICK tested \in WeightHosts : tested \in DOMAIN reputation /\ tested = pending[c]
  BY DEF ProofsInv, ProofsStore
<1> DEFINE rep == Proofs!ReputationOf(h)
           new == IF passes THEN [rep EXCEPT !.passed = @ + 1] ELSE [rep EXCEPT !.failed = @ + 1]
<1>2. ProofsGood(rep)
  BY ProofsKnown
<1>3. pending' = Proofs!Answered(c) /\ Proofs!Change(h, new) /\ restarts' = restarts
  BY DEF Proofs!Validate
<1>4. /\ new \in Proofs!Reputations /\ Len(new.grades) <= MaxGrades /\ new.status = rep.status
      /\ new.issued = rep.issued /\ new.passed + new.failed = rep.passed + rep.failed + 1
      /\ \/ new.passed = rep.passed + 1 /\ new.failed = rep.failed /\ new.grades = rep.grades
         \/ new.passed = rep.passed /\ new.failed = rep.failed + 1 /\ new.grades = rep.grades
  <2>1. rep \in Proofs!Reputations /\ Len(rep.grades) <= MaxGrades
    BY <1>2 DEF ProofsGood
  <2> HIDE DEF rep
  <2>2. CASE passes
    <3> DEFINE n == rep.passed + 1
    <3>1. /\ n \in Nat /\ rep.grades \in Seq(Grades) /\ rep.passed \in Nat /\ rep.failed \in Nat
          /\ new = [rep EXCEPT !.passed = n]
      BY <2>1, <2>2 DEF Proofs!Reputations
    <3> HIDE DEF n, new
    <3>2. new \in Proofs!Reputations /\ ProofsFields(new, rep.issued, n, rep.failed, rep.grades,
          rep.score, rep.status)
      BY <2>1, <3>1, ProofsUpdated
    <3>3. /\ new \in Proofs!Reputations /\ new.issued = rep.issued /\ new.passed = rep.passed + 1
          /\ new.failed = rep.failed
          /\ new.grades = rep.grades /\ new.status = rep.status
      BY <3>2 DEF ProofsFields, n
    <3> QED BY <2>1, <3>1, <3>3
  <2>3. CASE ~ passes
    <3> DEFINE n == rep.failed + 1
    <3>1. /\ n \in Nat /\ rep.grades \in Seq(Grades) /\ rep.passed \in Nat /\ rep.failed \in Nat
          /\ new = [rep EXCEPT !.failed = n]
      BY <2>1, <2>3 DEF Proofs!Reputations
    <3> HIDE DEF n, new
    <3>2. new \in Proofs!Reputations /\ ProofsFields(new, rep.issued, rep.passed, n, rep.grades,
          rep.score, rep.status)
      BY <2>1, <3>1, ProofsUpdated
    <3>3. /\ new \in Proofs!Reputations /\ new.issued = rep.issued /\ new.failed = rep.failed + 1
          /\ new.passed = rep.passed
          /\ new.grades = rep.grades /\ new.status = rep.status
      BY <3>2 DEF ProofsFields, n
    <3> QED BY <2>1, <3>1, <3>3
  <2> QED BY <2>2, <2>3
<1>5. /\ ProofsStore(reputation') /\ saved' = reputation'
      /\ DOMAIN reputation' = DOMAIN reputation \cup {h}
      /\ reputation'[h].issued = new.issued /\ reputation'[h].passed = new.passed
      /\ reputation'[h].failed = new.failed
      /\ \A g \in DOMAIN reputation \ {h} : reputation'[g] = reputation[g]
  <2> HIDE DEF new
  <2> QED BY <1>3, <1>4, ProofsChangeIs
<1>6. /\ DOMAIN pending' = DOMAIN pending \ {c}
      /\ \A d \in DOMAIN pending' : pending'[d] = pending[d]
  BY <1>3 DEF Proofs!Answered, Proofs!Restrict
<1>7. /\ ProofsWaiting(tested)' = ProofsWaiting(tested) \ {c} /\ c \in ProofsWaiting(tested)
      /\ \A g : g # tested => ProofsWaiting(g)' = ProofsWaiting(g)
  <2>1. \A g : ProofsWaiting(g)' = {d \in DOMAIN pending' : pending[d] = g}
    BY <1>6 DEF ProofsWaiting
  <2>2. \A g : ProofsWaiting(g)' = {d \in DOMAIN pending \ {c} : pending[d] = g}
    BY <1>6, <2>1
  <2> QED BY <1>h, <2>2 DEF ProofsWaiting
<1>8. Cardinality(ProofsWaiting(tested)') = Cardinality(ProofsWaiting(tested)) - 1
  <2>1. IsFiniteSet(ProofsWaiting(tested))
    BY ProofsKnown
  <2> QED BY <1>7, <2>1, FS_RemoveElement
<1> HIDE DEF new
<1> DEFINE More(g) == IF g = h THEN 1 ELSE 0
           Less(g) == IF g = tested THEN 1 ELSE 0
<1>s. /\ strays' \in [WeightHosts -> Int]
      /\ \A g \in WeightHosts : strays'[g] = strays[g] + More(g) - Less(g)
  BY <1>h DEF Proofs!Validate, ProofsInv
<1>9. ASSUME NEW g \in DOMAIN reputation'
      PROVE  /\ Cardinality(ProofsWaiting(g)') \in Nat
             /\ reputation'[g].passed + reputation'[g].failed + Cardinality(ProofsWaiting(g)')
                  <= reputation'[g].issued + strays'[g]
  <2> DEFINE old == Proofs!ReputationOf(g)
             w == Cardinality(ProofsWaiting(g))
  <2>g. g \in WeightHosts
    BY <1>5 DEF ProofsStore
  <2>1. /\ old.passed \in Nat /\ old.failed \in Nat /\ old.issued \in Nat
        /\ w \in Nat /\ strays[g] \in Int /\ old.passed + old.failed + w <= old.issued + strays[g]
    <3>1. ProofsGood(old) /\ w \in Nat /\ strays[g] \in Int
          /\ old.passed + old.failed + w <= old.issued + strays[g]
      BY <2>g, ProofsKnown
    <3> HIDE DEF old, w
    <3> QED BY <3>1 DEF ProofsGood, Proofs!Reputations
  <2>2. Cardinality(ProofsWaiting(g)') = w - Less(g)
    <3>1. CASE g = tested
      BY <1>8, <3>1
    <3>2. CASE g # tested
      <4>1. ProofsWaiting(g)' = ProofsWaiting(g) /\ Less(g) = 0
        BY <1>7, <3>2
      <4>2. Cardinality(ProofsWaiting(g)') = w
        BY <4>1
      <4> HIDE DEF w, Less
      <4> QED BY <2>1, <4>1, <4>2
    <3> QED BY <3>1, <3>2
  <2>3. Cardinality(ProofsWaiting(g)') \in Nat
    <3>1. ProofsWaiting(g)' \subseteq Challenges /\ IsFiniteSet(Challenges)
      BY <1>6, ProofsSets DEF ProofsWaiting, ProofsInv, Proofs!StorageProofAssumption
    <3> QED BY <3>1, FS_Subset, FS_CardinalityType
  <2>4. /\ reputation'[g].passed + reputation'[g].failed = old.passed + old.failed + More(g)
        /\ reputation'[g].issued = old.issued
    <3>1. CASE g = h
      BY <1>4, <1>5, <2>1, <3>1
    <3>2. CASE g # h
      <4>1. reputation'[g] = reputation[g] /\ old = reputation[g]
        BY <1>5, <3>2 DEF Proofs!ReputationOf
      <4> HIDE DEF old
      <4> QED BY <2>1, <3>2, <4>1
    <3> QED BY <3>1, <3>2
  <2>5. strays'[g] = strays[g] + More(g) - Less(g) /\ More(g) \in Int /\ Less(g) \in Int
    BY <1>s, <2>g
  <2> HIDE DEF old, w, More, Less
  <2>6. PICK l \in Int, m \in Int : l = Less(g) /\ m = More(g)
    BY <2>5
  <2> QED BY <2>1, <2>2, <2>3, <2>4, <2>5, <2>6
<1>10. ASSUME NEW g \in DOMAIN reputation'
       PROVE  reputation'[g].passed + reputation'[g].failed <= reputation'[g].issued + strays'[g]
  <2>1. g \in WeightHosts /\ reputation'[g] \in Proofs!Reputations
    BY <1>5 DEF ProofsStore, ProofsGood
  <2>2. strays'[g] \in Int
    BY <1>s, <2>1
  <2> QED BY <1>9, <2>1, <2>2 DEF Proofs!Reputations
<1>11. /\ DOMAIN pending' \subseteq Challenges
          /\ \A d \in DOMAIN pending' : pending'[d] \in DOMAIN reputation'
  BY <1>5, <1>6 DEF ProofsInv
<1>12. \A g \in WeightHosts \ DOMAIN reputation' : strays'[g] >= 0
  <2> SUFFICES ASSUME NEW g \in WeightHosts, g \notin DOMAIN reputation' PROVE strays'[g] >= 0
    OBVIOUS
  <2>1. g # h /\ g # tested /\ strays[g] \in Int /\ strays[g] >= 0
    BY <1>h, <1>5 DEF ProofsInv
  <2> QED BY <1>s, <2>1
<1> QED
  BY <1>3, <1>5, <1>s, <1>9, <1>10, <1>11, <1>12 DEF ProofsInv

\* Whoever is evicted has the status; what is known is saved.
LEMMA ProofsEvictInv ==
    ASSUME Proofs!StorageProofAssumption, ProofsInv, NEW h \in WeightHosts, Proofs!Evict(h)
    PROVE  ProofsInv'
<1>1. /\ h \in DOMAIN reputation /\ reputation[h].score < Proofs!EvictionThreshold
      /\ reputation' = [reputation EXCEPT ![h].status = "evicted"]
      /\ saved' = reputation' /\ pending' = pending /\ strays' = strays /\ restarts' = restarts
  BY DEF Proofs!Evict
<1>2. DOMAIN reputation' = DOMAIN reputation
      /\ \A g \in DOMAIN reputation : reputation'[g] = reputation[g]
  <2> DEFINE rep == reputation[h]
  <2>1. rep \in Proofs!Reputations /\ rep.status = "evicted"
    BY <1>1 DEF ProofsInv, ProofsStore, ProofsGood, ProofsTruthful
  <2>2. [rep EXCEPT !.status = "evicted"] = rep
    <3> HIDE DEF rep
    <3> QED BY <2>1 DEF Proofs!Reputations
  <2> QED BY <1>1, <2>2
<1>3. \A g : ProofsWaiting(g)' = ProofsWaiting(g)
  BY <1>1 DEF ProofsWaiting
<1>4. ProofsStore(reputation')
  BY <1>2 DEF ProofsStore, ProofsInv
<1>5. ASSUME NEW g \in DOMAIN reputation'
      PROVE  /\ reputation'[g].passed + reputation'[g].failed + Cardinality(ProofsWaiting(g)')
                   <= reputation'[g].issued + strays[g]
             /\ reputation'[g].passed + reputation'[g].failed <= reputation'[g].issued + strays[g]
  <2>1. g \in WeightHosts /\ reputation[g] \in Proofs!Reputations /\ reputation'[g] = reputation[g]
    BY <1>2 DEF ProofsInv, ProofsStore, ProofsGood
  <2>2. Cardinality(ProofsWaiting(g)) \in Nat /\ strays[g] \in Int
    BY <2>1, ProofsKnown
  <2>3. reputation[g].passed + reputation[g].failed + Cardinality(ProofsWaiting(g))
           <= reputation[g].issued + strays[g]
    BY <1>2 DEF ProofsInv
  <2>4. Cardinality(ProofsWaiting(g)') = Cardinality(ProofsWaiting(g))
    BY <1>3
  <2> QED BY <2>1, <2>2, <2>3, <2>4 DEF Proofs!Reputations
<1> QED
  BY <1>1, <1>2, <1>4, <1>5 DEF ProofsInv

\* A contribution counts no answer.
LEMMA ProofsAddContributionInv ==
    ASSUME Proofs!StorageProofAssumption, ProofsInv, NEW h \in WeightHosts, NEW grade \in Grades,
           Proofs!AddContribution(h, grade)
    PROVE  ProofsInv'
<1> DEFINE rep == Proofs!ReputationOf(h)
           new == [rep EXCEPT !.grades = Append(@, grade)]
<1>1. ProofsGood(rep) /\ rep.passed + rep.failed + Cardinality(ProofsWaiting(h)) <= rep.issued + strays[h]
  BY ProofsKnown
<1>2. /\ pending' = pending /\ strays' = strays /\ Proofs!Change(h, new)
      /\ restarts' = restarts /\ Len(rep.grades) < MaxGrades
  BY DEF Proofs!AddContribution
<1>3. /\ new \in Proofs!Reputations /\ Len(new.grades) <= MaxGrades /\ new.status = rep.status
      /\ new.issued = rep.issued /\ new.passed = rep.passed /\ new.failed = rep.failed
  <2> HIDE DEF rep
  <2>1. rep \in Proofs!Reputations
    BY <1>1 DEF ProofsGood
  <2> DEFINE grades == Append(rep.grades, grade)
  <2>2. grades \in Seq(Grades) /\ Len(grades) = Len(rep.grades) + 1 /\ Len(rep.grades) \in Nat
    BY <2>1, AppendProperties, LenProperties DEF Proofs!Reputations
  <2>3. Len(grades) <= MaxGrades
    BY <1>2, <2>2 DEF Proofs!StorageProofAssumption
  <2>4. new = [rep EXCEPT !.grades = grades]
    OBVIOUS
  <2> HIDE DEF grades, new
  <2>5. /\ new \in Proofs!Reputations /\ new.status = rep.status /\ new.grades = grades
        /\ new.issued = rep.issued /\ new.passed = rep.passed /\ new.failed = rep.failed
    <3>1. 0 \in Nat /\ new \in Proofs!Reputations
            /\ ProofsFields(new, rep.issued, rep.passed, rep.failed, grades, rep.score, rep.status)
      BY <2>1, <2>2, <2>4, ProofsUpdated
    <3> QED BY <3>1 DEF ProofsFields
  <2> QED BY <2>3, <2>5
<1>4. /\ ProofsStore(reputation') /\ saved' = reputation'
      /\ DOMAIN reputation' = DOMAIN reputation \cup {h}
      /\ reputation'[h].issued = new.issued /\ reputation'[h].passed = new.passed
      /\ reputation'[h].failed = new.failed
      /\ \A g \in DOMAIN reputation \ {h} : reputation'[g] = reputation[g]
  <2> HIDE DEF new
  <2> QED BY <1>2, <1>3, ProofsChangeIs
<1> HIDE DEF new
<1>5. \A g : ProofsWaiting(g)' = ProofsWaiting(g)
  BY <1>2 DEF ProofsWaiting
<1>6. ASSUME NEW g \in DOMAIN reputation'
      PROVE  reputation'[g].passed + reputation'[g].failed + Cardinality(ProofsWaiting(g)')
                <= reputation'[g].issued + strays[g]
  <2>1. CASE g = h
    BY <1>1, <1>3, <1>4, <1>5, <2>1
  <2>2. CASE g # h
    <3>1. g \in DOMAIN reputation /\ reputation'[g] = reputation[g]
      BY <1>4, <2>2
    <3> QED BY <1>5, <3>1 DEF ProofsInv
  <2> QED BY <2>1, <2>2
<1>7. ASSUME NEW g \in DOMAIN reputation'
      PROVE  reputation'[g].passed + reputation'[g].failed <= reputation'[g].issued + strays[g]
  <2>1. g \in WeightHosts /\ reputation'[g] \in Proofs!Reputations
    BY <1>4 DEF ProofsStore, ProofsGood
  <2>2. Cardinality(ProofsWaiting(g)') \in Nat /\ strays[g] \in Int
    BY <1>5, <2>1, ProofsKnown
  <2> QED BY <1>6, <2>1, <2>2 DEF Proofs!Reputations
<1>8. /\ DOMAIN pending' \subseteq Challenges
         /\ \A d \in DOMAIN pending' : pending'[d] \in DOMAIN reputation'
  BY <1>2, <1>4 DEF ProofsInv
<1> QED
  BY <1>2, <1>4, <1>6, <1>7, <1>8 DEF ProofsInv

\* What was not saved is forgotten, and nothing is pending.
LEMMA ProofsRestartInv ==
    ASSUME Proofs!StorageProofAssumption, ProofsInv, NEW cutShort \in BOOLEAN, Proofs!Restart(cutShort)
    PROVE  ProofsInv'
<1>1. DOMAIN pending' = {} /\ reputation' = saved'
      /\ \/ DOMAIN saved' = {} /\ strays' = [h \in WeightHosts |-> 0]
         \/ saved' = saved /\ strays' = strays
  BY DEF Proofs!Restart
<1>2. restarts' \in 0 .. MaxRestarts
  BY DEF Proofs!Restart, ProofsInv, Proofs!StorageProofAssumption
<1>3. /\ ProofsStore(saved') /\ strays' \in [WeightHosts -> Int]
      /\ \A h \in DOMAIN saved' : saved'[h].passed + saved'[h].failed <= saved'[h].issued + strays'[h]
      /\ \A h \in WeightHosts \ DOMAIN saved' : strays'[h] >= 0
  BY <1>1 DEF ProofsInv, ProofsStore
<1>4. \A h : Cardinality(ProofsWaiting(h)') = 0
  <2>1. \A h : ProofsWaiting(h)' = {}
    BY <1>1 DEF ProofsWaiting
  <2> QED BY <2>1, FS_EmptySet
<1>5. \A h \in DOMAIN saved' : saved'[h].passed + saved'[h].failed + Cardinality(ProofsWaiting(h)')
                                 <= saved'[h].issued + strays'[h]
  BY <1>3, <1>4 DEF ProofsStore, ProofsGood, Proofs!Reputations
<1> QED
  BY <1>1, <1>2, <1>3, <1>5 DEF ProofsInv

\* Every step keeps the invariant.
LEMMA ProofsNextInv == ASSUME Proofs!StorageProofAssumption, ProofsInv, Proofs!Next PROVE ProofsInv'
  BY ProofsIssueInv, ProofsValidateInv, ProofsEvictInv, ProofsAddContributionInv, ProofsRestartInv DEF Proofs!Next

\* A step that changes nothing of it keeps the invariant.
LEMMA ProofsStutterInv == ASSUME ProofsInv, UNCHANGED Proofs!vars PROVE ProofsInv'
  BY DEF ProofsInv, ProofsWaiting, Proofs!vars

------------------------------------------------------------------------------
(* Downloads of shards (Downloads.tla).  What is on disk and what the      *)
(* manifest lists change together.                                         *)

\* The finite sets of the instance are the finite sets.
LEMMA DownloadsSets == \A S : (Downloads!IsFiniteSet(S) <=> IsFiniteSet(S))
  BY DEF Downloads!IsFiniteSet, IsFiniteSet

DownloadsJobs == [pc : {"idle", "begin", "list", "fetch", "index", "write", "unlinked"}, for : {"status",
      "download", "config"},
         range : Ranges \cup {All}, todo : SUBSET Files, found : SUBSET Files]

\* Files some that can be read and, unless they were removed since, are on disk.
DownloadsLoadable(some, removed) == some \cap Unreadable = {} /\ (~removed => some \subseteq disk)

\* What has been found, while it is looked for and until it is written, can be
\* read and is on disk, unless the model was removed meanwhile; and so is what
\* the manifest lists.
DownloadsInv ==
    /\ disk \subseteq Files /\ config \subseteq Files
    /\ manifest \in [state : {"ok", "none", "torn"}, files : SUBSET Files]
    /\ active \in {"none", "starting", "downloading", "complete", "error"}
    /\ downloadJob \in [Downloads!Threads -> DownloadsJobs]
    /\ requests \in 0 .. MaxDownloads
    /\ \A t \in Downloads!Threads : downloadJob[t].pc \in {"index", "write"}
       => DownloadsLoadable(downloadJob[t].found, t \in overtaken)
    /\ DownloadsLoadable(manifest.files, spoiled)
    /\ overtaken \subseteq Downloads!Threads /\ spoiled \in BOOLEAN

------------------------------------------------------------------------------
\* What the files cover is a finite set of numbers.
LEMMA DownloadsCoveredIs ==
    ASSUME Downloads!DownloadsAssumption, NEW some \in SUBSET Files
    PROVE  Downloads!Covered(some) \in SUBSET Nat /\ IsFiniteSet(Downloads!Covered(some))
<1>1. ASSUME NEW f \in Files
      PROVE  Downloads!Covers(f) \in SUBSET Nat /\ IsFiniteSet(Downloads!Covers(f))
  <2>1. Layers[f] \in SUBSET Nat /\ IsFiniteSet(Layers[f])
    BY DownloadsSets DEF Downloads!DownloadsAssumption
  <2>2. CASE Layers[f] = {}
    BY <2>2, FS_EmptySet DEF Downloads!Covers
  <2>3. CASE Layers[f] # {}
    <3>1. \E x \in Layers[f] : \A y \in Layers[f] : x <= y
      BY <2>1, <2>3, LeastNumber
    <3>2. \E x \in Layers[f] : \A y \in Layers[f] : y <= x
      BY <2>1, <2>3, GreatestNumber
    <3>3. Downloads!Least(Layers[f]) \in Nat
      BY <2>1, <3>1 DEF Downloads!Least
    <3>4. Downloads!Most(Layers[f]) \in Nat
      <4>1. \E x \in Layers[f] : \A y \in Layers[f] : x >= y
        BY <2>1, <3>2
      <4> QED BY <2>1, <4>1 DEF Downloads!Most
    <3> DEFINE a == Downloads!Least(Layers[f])
               b == Downloads!Most(Layers[f])
    <3>5. Downloads!Covers(f) = a .. b /\ a \in Nat /\ b \in Nat
      BY <2>3, <3>3, <3>4 DEF Downloads!Covers
    <3> HIDE DEF a, b
    <3> QED BY <3>5, FS_Interval
  <2> QED BY <2>2, <2>3
<1>2. IsFiniteSet(some)
  BY DownloadsSets, FS_Subset DEF Downloads!DownloadsAssumption
<1> DEFINE D == {Downloads!Covers(f) : f \in some}
<1>3. IsFiniteSet(D)
  <2> DEFINE cover == [f \in some |-> Downloads!Covers(f)]
  <2>1. cover \in Surjection(some, D)
    BY DEF Surjection
  <2> HIDE DEF cover, D
  <2> QED BY <1>2, <2>1, FS_Surjection
<1>4. \A d \in D : IsFiniteSet(d) /\ d \in SUBSET Nat
  BY <1>1
<1>5. Downloads!Covered(some) = UNION D
  BY DEF Downloads!Covered
<1> HIDE DEF D
<1> QED
  BY <1>3, <1>4, <1>5, FS_UNION

\* A manifest that is called complete covers every layer up to the last.
LEMMA DownloadsCompleteCovers ==
    ASSUME Downloads!DownloadsAssumption, NEW some \in SUBSET Files, Downloads!Complete(some)
    PROVE  0 .. Downloads!Most(Downloads!Covered(some)) \subseteq Downloads!Covered(some)
<1> DEFINE all == Downloads!Covered(some)
           last == Downloads!Most(all)
<1>1. all \in SUBSET Nat /\ IsFiniteSet(all) /\ all # {}
  BY DownloadsCoveredIs DEF Downloads!Complete
<1>2. last \in all /\ \A m \in all : m <= last
  <2> HIDE DEF all
  <2>1. \E x \in all : \A y \in all : x >= y
    <3>1. \E x \in all : \A y \in all : y <= x
      BY <1>1, GreatestNumber
    <3> QED BY <1>1, <3>1
  <2>2. last \in all /\ \A m \in all : last >= m
    BY <2>1 DEF Downloads!Most
  <2> QED BY <1>1, <2>2
<1>3. PICK end \in all : Downloads!Coverage(some) = {<<0, end>>}
  BY DEF Downloads!Complete
<1>4. Downloads!Coverage(some) = {r \in all \X all : /\ r[1] <= r[2] /\ r[1] .. r[2] \subseteq all
                                            /\ r[1] - 1 \notin all /\ r[2] + 1 \notin all}
  BY DEF Downloads!Coverage
<1> HIDE DEF all, last
<1> DEFINE Firsts == {i \in 0 .. last : i .. last \subseteq all}
<1>5. last \in Firsts /\ Firsts \in SUBSET Nat
  BY <1>1, <1>2
<1>6. PICK first \in Firsts : \A i \in Firsts : first <= i
  BY <1>5, LeastNumber
<1>7. first - 1 \notin all
  <2> SUFFICES ASSUME first - 1 \in all PROVE FALSE
    OBVIOUS
  <2> DEFINE i == first - 1
  <2>1. i \in Nat /\ first \in Nat /\ last \in Nat /\ first = i + 1 /\ first <= last
        /\ first .. last \subseteq all
    BY <1>1, <1>2, <1>6
  <2>2. i \in all
    OBVIOUS
  <2> HIDE DEF i
  <2>3. i \in Firsts
    BY <2>1, <2>2
  <2> QED BY <1>6, <2>1, <2>3
<1>8. last + 1 \notin all
  BY <1>1, <1>2
<1>9. first \in Nat /\ last \in Nat /\ first <= last /\ first .. last \subseteq all /\ first \in all
  BY <1>1, <1>2, <1>6
<1>10. <<first, last>> \in Downloads!Coverage(some)
  BY <1>2, <1>4, <1>7, <1>8, <1>9
<1>11. first = 0
  BY <1>3, <1>10
<1> QED
  BY <1>9, <1>11 DEF all, last

\* The invariant holds the type and what a manifest says.
LEMMA DownloadsInvHolds ==
    ASSUME Downloads!DownloadsAssumption, DownloadsInv
    PROVE  Downloads!TypeOK /\ Downloads!ManifestTruthful
<1>1. Downloads!TypeOK
  BY DEF DownloadsInv, Downloads!TypeOK, DownloadsJobs
<1>2. /\ manifest.files \cap Unreadable = {}
      /\ ~spoiled => Downloads!Missing(manifest.files) = {}
  BY DEF DownloadsInv, DownloadsLoadable, Downloads!Missing
<1>3. ASSUME ~spoiled, Downloads!Complete(manifest.files),
      NEW i \in 0 .. Downloads!Most(Downloads!Covered(manifest.files))
      PROVE  \E f \in disk \ Unreadable : i \in Downloads!Covers(f)
  <2>1. manifest.files \in SUBSET Files
    BY DEF DownloadsInv
  <2>2. i \in Downloads!Covered(manifest.files)
    BY <1>3, <2>1, DownloadsCompleteCovers
  <2> QED BY <1>3, <2>2 DEF Downloads!Covered, DownloadsInv, DownloadsLoadable
<1> QED
  BY <1>1, <1>2, <1>3 DEF Downloads!ManifestTruthful

\* There is no manifest, and nobody fetches.
LEMMA DownloadsInitInv == ASSUME Downloads!DownloadsAssumption, Downloads!Init PROVE DownloadsInv
<1>1. Downloads!Resting \in DownloadsJobs
  BY DEF Downloads!Resting, DownloadsJobs
<1>2. DownloadsLoadable(manifest.files, spoiled)
  BY DEF Downloads!Init, Downloads!NoManifest, DownloadsLoadable
<1>3. spoiled \in BOOLEAN /\ overtaken \subseteq Downloads!Threads
  BY DEF Downloads!Init
<1>4. \A t \in Downloads!Threads : downloadJob[t].pc = "idle"
  BY DEF Downloads!Init, Downloads!Resting
<1> QED
  BY <1>1, <1>2, <1>3, <1>4 DEF Downloads!Init, DownloadsInv, Downloads!NoManifest,
     Downloads!DownloadsAssumption

\* A thread goes on.
LEMMA DownloadsStepInv ==
    ASSUME Downloads!DownloadsAssumption, DownloadsInv, NEW t \in Downloads!Threads,
           NEW next \in DownloadsJobs,
           downloadJob' = [downloadJob EXCEPT ![t] = next], disk \subseteq disk',
           overtaken' \in {overtaken, overtaken \ {t}},
           next.pc \in {"index", "write"} =>
              /\ next.found \cap Unreadable = {}
              /\ t \notin overtaken' => next.found \subseteq disk'
    PROVE  /\ downloadJob' \in [Downloads!Threads -> DownloadsJobs]
           /\ \A u \in Downloads!Threads : downloadJob'[u].pc \in {"index", "write"}
              => /\ downloadJob'[u].found \cap Unreadable = {}
                 /\ u \notin overtaken' => downloadJob'[u].found \subseteq disk'
  BY DEF DownloadsInv, DownloadsLoadable

\* What a thread is at next.
LEMMA DownloadsJobIs ==
    ASSUME NEW j \in DownloadsJobs, NEW pc \in {"idle", "begin", "list", "fetch", "index", "write", "unlinked"}
    PROVE  /\ [j EXCEPT !.pc = pc] \in DownloadsJobs
           /\ [j EXCEPT !.pc = pc].pc = pc /\ [j EXCEPT !.pc = pc].found = j.found
  BY DEF DownloadsJobs

\* One more request.
LEMMA DownloadsAskedIs ==
    ASSUME Downloads!DownloadsAssumption, DownloadsInv, Downloads!Asked
    PROVE  requests' \in 0 .. MaxDownloads
  BY DEF Downloads!Asked, DownloadsInv, Downloads!DownloadsAssumption

\* A worker that begins has fetched nothing.
LEMMA DownloadsRestingIs ==
    ASSUME NEW pc \in {"begin", "fetch"}, NEW purpose \in {"status", "download", "config"},
           NEW range \in Ranges \cup {All}
    PROVE  Downloads!Resting \in DownloadsJobs
           /\ [Downloads!Resting EXCEPT !.pc = pc, !.for = purpose, !.range = range] \in DownloadsJobs
  BY DEF Downloads!Resting, DownloadsJobs

\* An index resolves to files there are.
LEMMA DownloadsResolvedIs ==
    ASSUME NEW range, NEW index
    PROVE  Downloads!Resolved(range, index) \in SUBSET Files
  BY DEF Downloads!Resolved

\* The request of a download, and its steps until it has all files.
LEMMA DownloadsDownloadInv ==
    ASSUME Downloads!DownloadsAssumption, DownloadsInv, NEW w \in DownloadWorkers,
           \/ \E range \in Ranges : Downloads!PostDownload(w, range)
           \/ Downloads!Begin(w) \/ Downloads!ListFiles(w)
           \/ \E f \in Files : Downloads!Fetch(w, f)
    PROVE  DownloadsInv'
<1>1. w \in Downloads!Threads /\ downloadJob[w] \in DownloadsJobs
      /\ downloadJob \in [Downloads!Threads -> DownloadsJobs]
  BY DEF DownloadsInv, Downloads!Threads
<1>2. ASSUME NEW range \in Ranges, Downloads!PostDownload(w, range) PROVE DownloadsInv'
  <2> DEFINE j == [Downloads!Resting EXCEPT !.pc = "begin", !.for = "download", !.range = range]
  <2>1. j \in DownloadsJobs /\ j.pc = "begin"
    BY DownloadsRestingIs DEF Downloads!Resting
  <2>2. downloadJob' = [downloadJob EXCEPT ![w] = j] /\ UNCHANGED <<disk, manifest, config, overtaken, spoiled>>
        /\ active' = "starting"
    BY <1>2 DEF Downloads!PostDownload, Downloads!history
  <2>3. requests' \in 0 .. MaxDownloads
    BY <1>2, DownloadsAskedIs DEF Downloads!PostDownload
  <2> HIDE DEF j
  <2>4. /\ downloadJob' \in [Downloads!Threads -> DownloadsJobs]
        /\ \A u \in Downloads!Threads : downloadJob'[u].pc \in {"index", "write"}
           => /\ downloadJob'[u].found \cap Unreadable = {}
              /\ u \notin overtaken' => downloadJob'[u].found \subseteq disk'
    BY <1>1, <2>1, <2>2, DownloadsStepInv
  <2> QED BY <2>2, <2>3, <2>4 DEF DownloadsInv, DownloadsLoadable
<1>3. ASSUME Downloads!Begin(w) PROVE DownloadsInv'
  <2> DEFINE j == [downloadJob[w] EXCEPT !.pc = "list"]
  <2>1. j \in DownloadsJobs /\ j.pc = "list"
    BY <1>1, DownloadsJobIs
  <2>2. downloadJob' = [downloadJob EXCEPT ![w] = j] /\ UNCHANGED <<disk, manifest, config, requests, overtaken, spoiled>>
        /\ active' = "downloading"
    BY <1>3 DEF Downloads!Begin, Downloads!history
  <2> HIDE DEF j
  <2>4. /\ downloadJob' \in [Downloads!Threads -> DownloadsJobs]
        /\ \A u \in Downloads!Threads : downloadJob'[u].pc \in {"index", "write"}
           => /\ downloadJob'[u].found \cap Unreadable = {}
              /\ u \notin overtaken' => downloadJob'[u].found \subseteq disk'
    BY <1>1, <2>1, <2>2, DownloadsStepInv
  <2> QED BY <2>2, <2>4 DEF DownloadsInv, DownloadsLoadable
<1>4. ASSUME Downloads!ListFiles(w) PROVE DownloadsInv'
  <2>1. /\ UNCHANGED <<disk, manifest, config, requests, overtaken, spoiled>>
        /\ active' \in {active, "error"}
        /\ \E index \in BOOLEAN :
              downloadJob' \in {[downloadJob EXCEPT ![w].pc = "fetch",
                    ![w].todo = Downloads!Resolved(downloadJob[w].range, index)],
                        [downloadJob EXCEPT ![w] = Downloads!Resting]}
    BY <1>4 DEF Downloads!ListFiles, Downloads!history
  <2>2. PICK j \in DownloadsJobs : downloadJob' = [downloadJob EXCEPT ![w] = j]
        /\ j.pc \in {"fetch", "idle"}
    <3>1. Downloads!Resting \in DownloadsJobs /\ Downloads!Resting.pc = "idle"
      BY DownloadsRestingIs DEF Downloads!Resting
    <3>2. PICK index \in BOOLEAN :
              downloadJob' \in {[downloadJob EXCEPT ![w].pc = "fetch",
                    ![w].todo = Downloads!Resolved(downloadJob[w].range, index)],
                        [downloadJob EXCEPT ![w] = Downloads!Resting]}
      BY <2>1
    <3> DEFINE todo == Downloads!Resolved(downloadJob[w].range, index)
               k == [downloadJob[w] EXCEPT !.pc = "fetch", !.todo = todo]
    <3>3. todo \in SUBSET Files
      BY DownloadsResolvedIs
    <3>4. downloadJob' = [downloadJob EXCEPT ![w] = k]
          \/ downloadJob' = [downloadJob EXCEPT ![w] = Downloads!Resting]
      BY <3>2
    <3> HIDE DEF todo
    <3>5. k \in DownloadsJobs /\ k.pc = "fetch"
      <4> DEFINE now == downloadJob[w]
      <4>1. now \in DownloadsJobs
        BY <1>1
      <4> HIDE DEF now
      <4>2. [now EXCEPT !.pc = "fetch", !.todo = todo] \in DownloadsJobs
            /\ [now EXCEPT !.pc = "fetch", !.todo = todo].pc = "fetch"
        BY <3>3, <4>1 DEF DownloadsJobs
      <4> QED BY <4>2 DEF now
    <3> HIDE DEF k
    <3> QED BY <3>1, <3>4, <3>5
  <2>4. /\ downloadJob' \in [Downloads!Threads -> DownloadsJobs]
        /\ \A u \in Downloads!Threads : downloadJob'[u].pc \in {"index", "write"}
           => /\ downloadJob'[u].found \cap Unreadable = {}
              /\ u \notin overtaken' => downloadJob'[u].found \subseteq disk'
    BY <1>1, <2>1, <2>2, DownloadsStepInv
  <2> QED BY <2>1, <2>4 DEF DownloadsInv, DownloadsLoadable
<1>5. ASSUME NEW f \in Files, Downloads!Fetch(w, f) PROVE DownloadsInv'
  <2> DEFINE todo == downloadJob[w].todo \ {f}
             j == [downloadJob[w] EXCEPT !.todo = todo]
  <2>1. todo \in SUBSET Files
    BY <1>1 DEF DownloadsJobs
  <2>2. /\ downloadJob' = [downloadJob EXCEPT ![w] = j]
        /\ UNCHANGED <<manifest, active, config, requests, overtaken, spoiled>>
        /\ disk' \in {disk, disk \cup {f}} /\ downloadJob[w].pc = "fetch"
    BY <1>5 DEF Downloads!Fetch, Downloads!history
  <2> HIDE DEF todo
  <2>3. j \in DownloadsJobs /\ j.pc = "fetch"
    <3> DEFINE now == downloadJob[w]
    <3>1. now \in DownloadsJobs /\ now.pc = "fetch"
      BY <1>1, <2>2
    <3> HIDE DEF now
    <3>2. [now EXCEPT !.todo = todo] \in DownloadsJobs /\ [now EXCEPT !.todo = todo].pc = "fetch"
      BY <2>1, <3>1 DEF DownloadsJobs
    <3> QED BY <3>2 DEF now
  <2> HIDE DEF j
  <2>4. /\ downloadJob' \in [Downloads!Threads -> DownloadsJobs]
        /\ \A u \in Downloads!Threads : downloadJob'[u].pc \in {"index", "write"}
           => /\ downloadJob'[u].found \cap Unreadable = {}
              /\ u \notin overtaken' => downloadJob'[u].found \subseteq disk'
    BY <1>1, <2>2, <2>3, DownloadsStepInv
  <2> QED BY <2>2, <2>4 DEF DownloadsInv, DownloadsLoadable
<1> QED
  BY <1>2, <1>3, <1>4, <1>5

\* The steps of an index.
LEMMA DownloadsIndexInv ==
    ASSUME Downloads!DownloadsAssumption, DownloadsInv, NEW t \in Downloads!Threads,
           \/ Downloads!Scan(t) \/ Downloads!OpenManifest(t) \/ Downloads!WriteManifest(t)
           \/ \E f \in Files : Downloads!Index(t, f)
    PROVE  DownloadsInv'
<1>1. downloadJob[t] \in DownloadsJobs /\ downloadJob \in [Downloads!Threads -> DownloadsJobs]
  BY DEF DownloadsInv
<1>2. ASSUME Downloads!Scan(t) PROVE DownloadsInv'
  <2> DEFINE j == [downloadJob[t] EXCEPT !.pc = "index", !.todo = disk, !.found = {}]
  <2>1. disk \in SUBSET Files /\ {} \in SUBSET Files
    BY DEF DownloadsInv
  <2>2. j \in DownloadsJobs /\ j.found = {}
    <3> DEFINE now == downloadJob[t]
    <3>1. now \in DownloadsJobs
      BY <1>1
    <3> HIDE DEF now
    <3>2. [now EXCEPT !.pc = "index", !.todo = disk, !.found = {}] \in DownloadsJobs
          /\ [now EXCEPT !.pc = "index", !.todo = disk, !.found = {}].found = {}
      BY <2>1, <3>1 DEF DownloadsJobs
    <3> QED BY <3>2 DEF now
  <2>3. downloadJob' = [downloadJob EXCEPT ![t] = j]
        /\ UNCHANGED <<disk, manifest, active, config, requests, overtaken, spoiled>>
    BY <1>2 DEF Downloads!Scan, Downloads!history
  <2> HIDE DEF j
  <2>4. /\ downloadJob' \in [Downloads!Threads -> DownloadsJobs]
        /\ \A u \in Downloads!Threads : downloadJob'[u].pc \in {"index", "write"}
           => /\ downloadJob'[u].found \cap Unreadable = {}
              /\ u \notin overtaken' => downloadJob'[u].found \subseteq disk'
    BY <2>2, <2>3, DownloadsStepInv
  <2> QED BY <2>3, <2>4 DEF DownloadsInv, DownloadsLoadable
<1>3. ASSUME Downloads!OpenManifest(t) PROVE DownloadsInv'
  <2> DEFINE j == [downloadJob[t] EXCEPT !.pc = "write"]
  <2>1. j \in DownloadsJobs /\ j.found = downloadJob[t].found
    BY <1>1, DownloadsJobIs
  <2>2. /\ downloadJob' = [downloadJob EXCEPT ![t] = j] /\ UNCHANGED <<disk, active, config, requests, overtaken>> /\ spoiled' = FALSE
        /\ manifest' = Downloads!TornManifest /\ downloadJob[t].pc = "index"
    BY <1>3 DEF Downloads!OpenManifest
  <2>3. DownloadsLoadable(downloadJob[t].found, t \in overtaken)
    BY <2>2 DEF DownloadsInv, DownloadsLoadable
  <2> HIDE DEF j
  <2>4. /\ downloadJob' \in [Downloads!Threads -> DownloadsJobs]
        /\ \A u \in Downloads!Threads : downloadJob'[u].pc \in {"index", "write"}
           => /\ downloadJob'[u].found \cap Unreadable = {}
              /\ u \notin overtaken' => downloadJob'[u].found \subseteq disk'
    BY <2>1, <2>2, <2>3, DownloadsStepInv DEF DownloadsLoadable
  <2> QED BY <2>2, <2>4 DEF DownloadsInv, DownloadsLoadable, Downloads!TornManifest
<1>4. ASSUME Downloads!WriteManifest(t) PROVE DownloadsInv'
  <2> DEFINE found == downloadJob[t].found
  <2>1. Downloads!Resting \in DownloadsJobs /\ Downloads!Resting.pc = "idle"
    BY DownloadsRestingIs DEF Downloads!Resting
  <2>2. /\ downloadJob' = [downloadJob EXCEPT ![t] = Downloads!Resting] /\ UNCHANGED <<disk, requests>>
        /\ active' \in {active, "complete"}
        /\ config' \in {config, Downloads!Configured(found, downloadJob[t].range)}
        /\ overtaken' = overtaken \ {t}
    BY <1>4 DEF Downloads!WriteManifest
  <2>3. found \in SUBSET Files
    BY <1>1 DEF DownloadsJobs
  <2>4. /\ downloadJob' \in [Downloads!Threads -> DownloadsJobs]
        /\ \A u \in Downloads!Threads : downloadJob'[u].pc \in {"index", "write"}
           => /\ downloadJob'[u].found \cap Unreadable = {}
              /\ u \notin overtaken' => downloadJob'[u].found \subseteq disk'
    BY <2>1, <2>2, DownloadsStepInv
  <2>5. config' \subseteq Files
    <3> HIDE DEF found
    <3> QED BY <2>2, <2>3 DEF Downloads!Configured, DownloadsInv
  <2>6. CASE downloadJob[t].pc = "write"
    <3>1. manifest' = Downloads!Lists(found) /\ spoiled' = (t \in overtaken)
      BY <1>4, <2>6 DEF Downloads!WriteManifest
    <3>2. DownloadsLoadable(found, t \in overtaken)
      BY <2>6 DEF DownloadsInv
    <3> HIDE DEF found
    <3>3. manifest' \in [state : {"ok", "none", "torn"}, files : SUBSET Files] /\ manifest'.files = found
      BY <2>3, <3>1 DEF Downloads!Lists
    <3>4. CASE t \in overtaken
      <4>1. spoiled' = TRUE
        BY <3>1, <3>4
      <4> QED BY <2>2, <2>4, <2>5, <3>2, <3>3, <4>1 DEF DownloadsInv, DownloadsLoadable
    <3>5. CASE t \notin overtaken
      <4>1. ~spoiled'
        BY <3>1, <3>5
      <4>2. spoiled' \in BOOLEAN
        BY <3>1
      <4> QED BY <2>2, <2>4, <2>5, <3>2, <3>3, <3>5, <4>1, <4>2 DEF DownloadsInv, DownloadsLoadable
    <3> QED BY <3>4, <3>5
  <2>7. CASE downloadJob[t].pc # "write"
    <3>1. manifest' = manifest /\ spoiled' = spoiled
      BY <1>4, <2>7 DEF Downloads!WriteManifest
    <3> HIDE DEF found
    <3> QED BY <2>2, <2>4, <2>5, <3>1 DEF DownloadsInv, DownloadsLoadable
  <2> QED BY <2>6, <2>7
<1>5. ASSUME NEW f \in Files, Downloads!Index(t, f) PROVE DownloadsInv'
  <2> DEFINE todo == downloadJob[t].todo \ {f}
             found == downloadJob[t].found \cup {g \in {f} : Downloads!Readable(g)}
             j == [downloadJob[t] EXCEPT !.todo = todo, !.found = found]
  <2>1. todo \in SUBSET Files /\ found \in SUBSET Files
    BY <1>1 DEF DownloadsJobs
  <2>2. /\ downloadJob' = [downloadJob EXCEPT ![t] = j]
        /\ UNCHANGED <<disk, manifest, active, config, requests, overtaken, spoiled>>
        /\ downloadJob[t].pc = "index"
    BY <1>5 DEF Downloads!Index, Downloads!history
  <2>3. found \cap Unreadable = {} /\ (t \notin overtaken => found \subseteq disk)
    BY <2>2 DEF DownloadsInv, DownloadsLoadable, Downloads!Readable
  <2> HIDE DEF todo, found
  <2>4. j \in DownloadsJobs /\ j.found = found
    <3> DEFINE now == downloadJob[t]
    <3>1. now \in DownloadsJobs
      BY <1>1
    <3> HIDE DEF now
    <3>2. [now EXCEPT !.todo = todo, !.found = found] \in DownloadsJobs
          /\ [now EXCEPT !.todo = todo, !.found = found].found = found
      BY <2>1, <3>1 DEF DownloadsJobs
    <3> QED BY <3>2 DEF now
  <2> HIDE DEF j
  <2>5. /\ downloadJob' \in [Downloads!Threads -> DownloadsJobs]
        /\ \A u \in Downloads!Threads : downloadJob'[u].pc \in {"index", "write"}
           => /\ downloadJob'[u].found \cap Unreadable = {}
              /\ u \notin overtaken' => downloadJob'[u].found \subseteq disk'
    BY <2>2, <2>3, <2>4, DownloadsStepInv
  <2> QED BY <2>2, <2>5 DEF DownloadsInv, DownloadsLoadable
<1> QED
  BY <1>2, <1>3, <1>4, <1>5

\* What the event loop does.
LEMMA DownloadsEventLoopInv ==
    ASSUME Downloads!DownloadsAssumption, DownloadsInv,
           Downloads!Status \/ Downloads!Clear \/ Downloads!RemoveModel \/ Downloads!Restart
                 \/ \E range \in Ranges : Downloads!GenerateConfig(range)
    PROVE  DownloadsInv'
<1>1. EventLoop \in Downloads!Threads /\ downloadJob \in [Downloads!Threads -> DownloadsJobs]
      /\ Downloads!Resting \in DownloadsJobs /\ Downloads!Resting.pc = "idle"
  BY DownloadsRestingIs DEF DownloadsInv, Downloads!Threads, Downloads!Resting
<1>2. ASSUME NEW purpose \in {"status", "config"}, NEW range \in Ranges \cup {All},
      Downloads!IndexFor(purpose, range),
             disk' = disk, overtaken' = overtaken
      PROVE  /\ downloadJob' \in [Downloads!Threads -> DownloadsJobs]
             /\ \A u \in Downloads!Threads : downloadJob'[u].pc \in {"index", "write"}
                => /\ downloadJob'[u].found \cap Unreadable = {}
                   /\ u \notin overtaken' => downloadJob'[u].found \subseteq disk'
  <2> DEFINE j == [Downloads!Resting EXCEPT !.pc = "fetch", !.for = purpose, !.range = range]
  <2>1. j \in DownloadsJobs /\ j.pc = "fetch"
    BY DownloadsRestingIs DEF Downloads!Resting
  <2>2. downloadJob' = [downloadJob EXCEPT ![EventLoop] = j]
    BY <1>2 DEF Downloads!IndexFor
  <2> HIDE DEF j
  <2> QED BY <1>1, <1>2, <2>1, <2>2, DownloadsStepInv
<1>3. CASE Downloads!Status
  BY <1>2, <1>3 DEF Downloads!Status, Downloads!history, DownloadsInv, DownloadsLoadable
<1>4. CASE Downloads!Clear
  BY <1>4 DEF Downloads!Clear, Downloads!history, DownloadsInv, DownloadsLoadable
<1>5. CASE Downloads!RemoveModel
  <2>1. /\ downloadJob' = [t \in Downloads!Threads |->
                             IF downloadJob[t].pc = "write" THEN [downloadJob[t] EXCEPT !.pc = "unlinked"]
                                                            ELSE downloadJob[t]]
        /\ overtaken' = overtaken \cup {t \in Downloads!Threads : /\ downloadJob[t].pc = "index"
                                                                 /\ downloadJob[t].found # {}}
        /\ disk' = {} /\ manifest' = Downloads!NoManifest /\ spoiled' = FALSE
        /\ UNCHANGED <<active, config>>
    BY <1>5 DEF Downloads!RemoveModel
  <2>2. requests' \in 0 .. MaxDownloads
    BY <1>5, DownloadsAskedIs DEF Downloads!RemoveModel
  <2>3. ASSUME NEW u \in Downloads!Threads
        PROVE  /\ downloadJob'[u] \in DownloadsJobs
               /\ downloadJob'[u].pc \in {"index", "write"}
                     => DownloadsLoadable(downloadJob[u].found, u \in overtaken)'
    <3>1. downloadJob[u] \in DownloadsJobs
      BY <1>1
    <3>2. CASE downloadJob[u].pc = "write"
      <4>1. downloadJob'[u] = [downloadJob[u] EXCEPT !.pc = "unlinked"]
        BY <2>1, <3>2
      <4>2. downloadJob'[u] \in DownloadsJobs /\ downloadJob'[u].pc = "unlinked"
        <5> DEFINE now == downloadJob[u]
        <5>1. now \in DownloadsJobs
          BY <3>1
        <5> HIDE DEF now
        <5>2. [now EXCEPT !.pc = "unlinked"] \in DownloadsJobs
              /\ [now EXCEPT !.pc = "unlinked"].pc = "unlinked"
          BY <5>1 DEF DownloadsJobs
        <5> QED BY <4>1, <5>2 DEF now
      <4> QED BY <4>2
    <3>3. CASE downloadJob[u].pc # "write"
      <4>1. downloadJob'[u] = downloadJob[u]
        BY <2>1, <3>3
      <4>2. downloadJob[u].pc = "index" => DownloadsLoadable(downloadJob[u].found, u \in overtaken)
        BY DEF DownloadsInv
      <4>3. downloadJob[u].pc = "index" /\ downloadJob[u].found # {} => u \in overtaken'
        BY <2>1
      <4> QED BY <3>1, <3>3, <4>1, <4>2, <4>3 DEF DownloadsLoadable
    <3> QED BY <3>2, <3>3
  <2>4. overtaken' \subseteq Downloads!Threads
    BY <2>1 DEF DownloadsInv
  <2>5. downloadJob' \in [Downloads!Threads -> DownloadsJobs]
    BY <2>1, <2>3
  <2> QED BY <2>1, <2>2, <2>3, <2>4, <2>5 DEF DownloadsInv, DownloadsLoadable, Downloads!NoManifest
<1>6. CASE Downloads!Restart
  <2>1. requests' \in 0 .. MaxDownloads
    BY <1>6, DownloadsAskedIs DEF Downloads!Restart
  <2> QED BY <1>1, <1>6, <2>1 DEF Downloads!Restart, DownloadsInv, DownloadsLoadable
<1>7. ASSUME NEW range \in Ranges, Downloads!GenerateConfig(range) PROVE DownloadsInv'
  <2>1. requests' \in 0 .. MaxDownloads
    BY <1>7, DownloadsAskedIs DEF Downloads!GenerateConfig
  <2>2. UNCHANGED <<disk, manifest, active, overtaken, spoiled>>
    BY <1>7 DEF Downloads!GenerateConfig, Downloads!history
  <2>3. CASE manifest.state = "ok"
    <3>1. config' = Downloads!Configured(manifest.files, range) /\ downloadJob' = downloadJob
      BY <1>7, <2>3 DEF Downloads!GenerateConfig
    <3>2. config' \subseteq Files
      BY <3>1 DEF Downloads!Configured, DownloadsInv
    <3> QED BY <2>1, <2>2, <3>1, <3>2 DEF DownloadsInv, DownloadsLoadable
  <2>4. CASE manifest.state # "ok"
    <3>1. config' = config /\ Downloads!IndexFor("config", range)
      BY <1>7, <2>4 DEF Downloads!GenerateConfig
    <3>2. /\ downloadJob' \in [Downloads!Threads -> DownloadsJobs]
          /\ \A u \in Downloads!Threads : downloadJob'[u].pc \in {"index", "write"}
             => /\ downloadJob'[u].found \cap Unreadable = {}
                /\ u \notin overtaken' => downloadJob'[u].found \subseteq disk'
      BY <1>2, <2>2, <3>1
    <3> QED BY <2>1, <2>2, <3>1, <3>2 DEF DownloadsInv, DownloadsLoadable
  <2> QED BY <2>3, <2>4
<1> QED
  BY <1>3, <1>4, <1>5, <1>6, <1>7

\* Every step keeps the invariant.
LEMMA DownloadsNextInv ==
    ASSUME Downloads!DownloadsAssumption, DownloadsInv, Downloads!Next
    PROVE  DownloadsInv'
<1>1. CASE \E w \in DownloadWorkers : \/ \E range \in Ranges : Downloads!PostDownload(w, range)
                                      \/ Downloads!Begin(w) \/ Downloads!ListFiles(w)
                                      \/ \E f \in Files : Downloads!Fetch(w, f)
  <2>1. PICK w \in DownloadWorkers : \/ \E range \in Ranges : Downloads!PostDownload(w, range)
                                     \/ Downloads!Begin(w) \/ Downloads!ListFiles(w)
                                     \/ \E f \in Files : Downloads!Fetch(w, f)
    BY <1>1
  <2> QED BY <2>1, DownloadsDownloadInv
<1>2. CASE \E t \in Downloads!Threads : \/ Downloads!Scan(t) \/ Downloads!OpenManifest(t)
                                           \/ Downloads!WriteManifest(t)
                                        \/ \E f \in Files : Downloads!Index(t, f)
  <2>1. PICK t \in Downloads!Threads : \/ Downloads!Scan(t) \/ Downloads!OpenManifest(t)
                                          \/ Downloads!WriteManifest(t)
                                       \/ \E f \in Files : Downloads!Index(t, f)
    BY <1>2
  <2> QED BY <2>1, DownloadsIndexInv
<1>3. CASE Downloads!Status \/ Downloads!Clear \/ Downloads!RemoveModel \/ Downloads!Restart
      \/ \E range \in Ranges : Downloads!GenerateConfig(range)
  BY <1>3, DownloadsEventLoopInv
<1> QED
  BY <1>1, <1>2, <1>3 DEF Downloads!Next

\* A step that changes nothing of it keeps the invariant.
LEMMA DownloadsStutterInv == ASSUME DownloadsInv, UNCHANGED Downloads!vars PROVE DownloadsInv'
  BY DEF DownloadsInv, DownloadsLoadable, Downloads!vars

------------------------------------------------------------------------------
(* The librarian's store (LibrarianStore.tla).  A link is swung when what  *)
(* it names is there, and never before.                                    *)

\* The steps of a commit, in order.
LibrarianWithBody == {"head clear", "head make", "head swing", "version clear", "version make",
      "version swing"}
LibrarianWithManifest == {"body open", "body write", "body rename"} \cup LibrarianWithBody
LibrarianSteps == {"idle", "manifest open", "manifest write",
      "manifest rename"} \cup LibrarianWithManifest

LibrarianCommit == [pc : LibrarianSteps, m : Manifests, keys : SUBSET SigningKeys, renamed : BOOLEAN]

LibrarianTyped ==
    /\ draft \in [Manifests -> SUBSET SigningKeys]
    /\ commit \in [Writers -> LibrarianCommit]
    /\ \A p \in DOMAIN links : links[p] \in Manifests

\* One commit at a time, and nobody renames the file it has open.
LibrarianAlone ==
    /\ \A v, w \in Writers : ~Librarian!Idle(v) /\ ~Librarian!Idle(w) => v = w
    /\ \A w \in Writers : ~commit[w].renamed

\* Whatever is in its place is complete, and manifests verify.
LibrarianComplete ==
    \A m \in Manifests :
        /\ Librarian!ManifestPath(m) \in DOMAIN files =>
              files[Librarian!ManifestPath(m)].full
                    /\ Librarian!Verifies(files[Librarian!ManifestPath(m)].keys)
        /\ Librarian!BodyPath(m) \in DOMAIN files => files[Librarian!BodyPath(m)].full

\* What a commit has done before the step it is at.
LibrarianPlaced(w) ==
    LET c == commit[w] IN
    /\ c.pc # "idle" => Librarian!Verifies(c.keys)
    /\ c.pc = "manifest rename" =>
          Librarian!ManifestPath(c.m) \in DOMAIN temps
                /\ temps[Librarian!ManifestPath(c.m)] = Librarian!Written(c.keys)
    /\ c.pc = "body rename" =>
          Librarian!BodyPath(c.m) \in DOMAIN temps
                /\ temps[Librarian!BodyPath(c.m)] = Librarian!Written({})
    /\ c.pc \in LibrarianWithManifest => Librarian!ManifestPath(c.m) \in DOMAIN files
    /\ c.pc \in LibrarianWithBody => Librarian!BodyPath(c.m) \in DOMAIN files
    /\ c.pc = "head swing" => Librarian!HeadLink(c.m) \in DOMAIN swings
       /\ swings[Librarian!HeadLink(c.m)] = c.m
    /\ c.pc = "version swing" => Librarian!VersionLink(c.m) \in DOMAIN swings
       /\ swings[Librarian!VersionLink(c.m)] = c.m

LibrarianSound == LibrarianTyped /\ LibrarianAlone /\ LibrarianComplete
      /\ (\A w \in Writers : LibrarianPlaced(w)) /\ Librarian!HeadsLoad

------------------------------------------------------------------------------
\* A store without a head has none that does not load.
LEMMA LibrarianInitSound ==
    ASSUME Librarian!LibrarianAssumption, Librarian!Init
    PROVE  LibrarianSound
<1>1. Librarian!AtRest \in LibrarianCommit /\ Librarian!AtRest.pc = "idle" /\ ~Librarian!AtRest.renamed
  BY DEF Librarian!LibrarianAssumption, Librarian!AtRest, LibrarianCommit, LibrarianSteps
<1>2. \A w \in Writers : commit[w] = Librarian!AtRest
  BY DEF Librarian!Init
<1>3. LibrarianTyped
  BY <1>1 DEF Librarian!Init, LibrarianTyped, Librarian!NoFile
<1>4. LibrarianAlone
  BY <1>1, <1>2 DEF LibrarianAlone, Librarian!Idle
<1>5. \A w \in Writers : LibrarianPlaced(w)
  BY <1>1, <1>2 DEF LibrarianPlaced, LibrarianWithManifest, LibrarianWithBody
<1> QED
  BY <1>3, <1>4, <1>5 DEF Librarian!Init, Librarian!NoFile, LibrarianSound, LibrarianComplete,
     Librarian!HeadsLoad

\* As files come and none goes, what loads goes on loading.
LEMMA LibrarianStillLoads ==
    ASSUME LibrarianSound, LibrarianComplete', DOMAIN files \subseteq DOMAIN files', links' = links
    PROVE  Librarian!HeadsLoad'
  BY DEF LibrarianSound, LibrarianTyped, LibrarianComplete, Librarian!HeadsLoad, Librarian!Loads

\* While a commit is going on, the others rest, and stay what they should be.
LEMMA LibrarianOthers ==
    ASSUME Librarian!LibrarianAssumption, LibrarianSound, NEW w \in Writers, ~Librarian!Idle(w),
           NEW c \in LibrarianCommit, ~c.renamed,
           commit' = [commit EXCEPT ![w] = c], draft' = draft
    PROVE  /\ commit' \in [Writers -> LibrarianCommit] /\ LibrarianAlone'
           /\ LibrarianPlaced(w)' => \A v \in Writers : LibrarianPlaced(v)'
<1>1. \A v \in Writers \ {w} : commit'[v] = commit[v] /\ commit[v].pc = "idle"
  BY DEF LibrarianSound, LibrarianTyped, LibrarianAlone, Librarian!Idle
<1>2. commit' \in [Writers -> LibrarianCommit] /\ commit'[w] = c
  BY DEF LibrarianSound, LibrarianTyped
<1>3. LibrarianAlone'
  BY <1>1, <1>2 DEF LibrarianSound, LibrarianAlone, Librarian!Idle
<1>4. \A v \in Writers \ {w} : LibrarianPlaced(v)'
  BY <1>1 DEF LibrarianPlaced, LibrarianWithManifest, LibrarianWithBody
<1> QED
  BY <1>2, <1>3, <1>4

\* A step that leaves files and links alone and goes on.
LEMMA LibrarianPrepared ==
    ASSUME Librarian!LibrarianAssumption, LibrarianSound, NEW w \in Writers, ~Librarian!Idle(w),
           NEW c \in LibrarianCommit, ~c.renamed,
           commit' = [commit EXCEPT ![w] = c], UNCHANGED <<draft, files, links>>, LibrarianPlaced(w)'
    PROVE  LibrarianSound'
<1>1. LibrarianComplete' /\ Librarian!HeadsLoad'
  BY DEF LibrarianSound, LibrarianComplete, Librarian!HeadsLoad, Librarian!Loads
<1> QED
  BY <1>1, LibrarianOthers DEF LibrarianSound, LibrarianTyped

\* A commit that ends, or that is ended.
LEMMA LibrarianRested ==
    ASSUME Librarian!LibrarianAssumption, LibrarianSound, NEW w \in Writers, ~Librarian!Idle(w),
           Librarian!Rest(w), UNCHANGED <<draft, files, links>>
    PROVE  LibrarianSound'
<1>1. Librarian!AtRest \in LibrarianCommit /\ Librarian!AtRest.pc = "idle" /\ ~Librarian!AtRest.renamed
  BY DEF Librarian!LibrarianAssumption, Librarian!AtRest, LibrarianCommit, LibrarianSteps
<1>2. commit' = [commit EXCEPT ![w] = Librarian!AtRest]
  BY DEF Librarian!Rest
<1>3. LibrarianPlaced(w)'
  BY <1>1, <1>2 DEF LibrarianSound, LibrarianTyped, LibrarianPlaced, LibrarianWithManifest,
     LibrarianWithBody
<1> QED
  BY <1>1, <1>2, <1>3, LibrarianPrepared

------------------------------------------------------------------------------
\* A commit until it writes.
LEMMA LibrarianAnchorSound ==
    ASSUME LibrarianSound, NEW m \in Manifests, NEW keys \in SUBSET SigningKeys,
           Librarian!Anchor(m, keys)
    PROVE  LibrarianSound'
<1>1. draft' \in [Manifests -> SUBSET SigningKeys] /\ UNCHANGED <<files, temps, links, swings, commit>>
  BY DEF Librarian!Anchor, LibrarianSound, LibrarianTyped
<1> QED
  BY <1>1 DEF LibrarianSound, LibrarianTyped, LibrarianAlone, Librarian!Idle, LibrarianComplete,
     LibrarianPlaced, Librarian!HeadsLoad, Librarian!Loads

\* A commit begins only when no other one is going on.
LEMMA LibrarianBeginSound ==
    ASSUME Librarian!LibrarianAssumption, LibrarianSound, NEW w \in Writers, NEW m \in Manifests,
           Librarian!Begin(w, m)
    PROVE  LibrarianSound'
<1> DEFINE c == [pc |-> "manifest open", m |-> m, keys |-> draft[m], renamed |-> FALSE]
<1>1. c \in LibrarianCommit /\ Librarian!Verifies(c.keys) /\ c.pc = "manifest open" /\ ~c.renamed
  BY DEF Librarian!Begin, LibrarianSound, LibrarianTyped, LibrarianCommit, LibrarianSteps
<1>2. commit' = [commit EXCEPT ![w] = c] /\ UNCHANGED <<draft, files, temps, links, swings>>
  BY DEF Librarian!Begin
<1> HIDE DEF c
<1>3. \A v \in Writers : v # w => commit'[v] = commit[v] /\ commit[v].pc = "idle"
  BY <1>2 DEF Librarian!Begin, LibrarianSound, LibrarianTyped, Librarian!Idle
<1>4. LibrarianTyped' /\ commit'[w] = c
  BY <1>1, <1>2 DEF LibrarianSound, LibrarianTyped
<1>5. LibrarianAlone'
  BY <1>1, <1>3, <1>4 DEF LibrarianSound, LibrarianAlone, Librarian!Idle
<1>6. \A v \in Writers : LibrarianPlaced(v)'
  BY <1>1, <1>3, <1>4 DEF LibrarianPlaced, LibrarianWithManifest, LibrarianWithBody
<1> QED
  BY <1>2, <1>4, <1>5, <1>6 DEF LibrarianSound, LibrarianComplete, Librarian!HeadsLoad, Librarian!Loads

\* The commit record with another program counter.
LEMMA LibrarianOnward ==
    ASSUME LibrarianSound, NEW w \in Writers, NEW pc \in LibrarianSteps,
           commit' = [commit EXCEPT ![w].pc = pc]
    PROVE  \E c \in LibrarianCommit :
              /\ c.pc = pc /\ c.m = commit[w].m /\ c.keys = commit[w].keys /\ ~c.renamed
              /\ commit' = [commit EXCEPT ![w] = c] /\ commit'[w] = c
<1>1. commit[w] \in LibrarianCommit /\ ~commit[w].renamed
  BY DEF LibrarianSound, LibrarianTyped, LibrarianAlone
<1> DEFINE c == [commit[w] EXCEPT !.pc = pc]
<1>2. c \in LibrarianCommit /\ c.pc = pc /\ c.m = commit[w].m /\ c.keys = commit[w].keys /\ ~c.renamed
  BY <1>1 DEF LibrarianCommit
<1>3. commit' = [commit EXCEPT ![w] = c] /\ commit'[w] = c
  BY DEF LibrarianSound, LibrarianTyped
<1> HIDE DEF c
<1> QED
  BY <1>2, <1>3

LEMMA LibrarianOpenSound ==
    ASSUME Librarian!LibrarianAssumption, LibrarianSound, NEW w \in Writers, NEW from, NEW path, NEW to,
           Librarian!OpenTemp(w, from, path, to),
           \/ from = "manifest open" /\ to = "manifest write"
           \/ from = "body open" /\ to = "body write"
    PROVE  LibrarianSound'
<1>1. commit[w] \in LibrarianCommit /\ commit[w].pc = from /\ ~commit[w].renamed /\ LibrarianPlaced(w)
      /\ UNCHANGED <<draft, files, links, swings>>
  BY DEF Librarian!OpenTemp, LibrarianSound, LibrarianTyped, LibrarianAlone
<1> DEFINE c == [commit[w] EXCEPT !.pc = to]
<1>2. c \in LibrarianCommit /\ c.pc = to /\ c.m = commit[w].m /\ c.keys = commit[w].keys /\ ~c.renamed
  BY <1>1 DEF LibrarianCommit, LibrarianSteps, LibrarianWithManifest
<1>3. commit' = [commit EXCEPT ![w] = c] /\ commit'[w] = c
  BY <1>1 DEF Librarian!OpenTemp, LibrarianSound, LibrarianTyped, LibrarianCommit
<1> HIDE DEF c
<1>4. LibrarianPlaced(w)'
  BY <1>1, <1>2, <1>3 DEF LibrarianPlaced, LibrarianWithManifest, LibrarianWithBody,
     Librarian!ManifestPath
<1> QED
  BY <1>1, <1>2, <1>3, <1>4, LibrarianPrepared DEF Librarian!Idle

------------------------------------------------------------------------------
\* The manifest and the body, each by a file that is renamed (store.py:142).
LEMMA LibrarianWriteManifestSound ==
    ASSUME Librarian!LibrarianAssumption, LibrarianSound, NEW w \in Writers, Librarian!WriteManifest(w)
    PROVE  LibrarianSound'
<1> DEFINE m == commit[w].m
<1>0. commit[w] \in LibrarianCommit /\ ~commit[w].renamed /\ LibrarianPlaced(w) /\ m \in Manifests
  BY DEF LibrarianSound, LibrarianTyped, LibrarianAlone, LibrarianCommit
<1>1. CASE Librarian!OpenTemp(w, "manifest open", Librarian!ManifestPath(m), "manifest write")
  BY <1>1, LibrarianOpenSound
<1>2. CASE Librarian!WriteTemp(w, "manifest write", Librarian!ManifestPath(m), commit[w].keys,
      "manifest rename")
  <2>1. commit[w].pc = "manifest write"
        /\ temps' = Librarian!Put(temps, Librarian!ManifestPath(m), Librarian!Written(commit[w].keys))
        /\ commit' = [commit EXCEPT ![w].pc = "manifest rename"]
           /\ UNCHANGED <<draft, files, links, swings>>
    BY <1>0, <1>2 DEF Librarian!WriteTemp
  <2>2. PICK c \in LibrarianCommit :
          /\ c.pc = "manifest rename" /\ c.m = m /\ c.keys = commit[w].keys /\ ~c.renamed
          /\ commit' = [commit EXCEPT ![w] = c] /\ commit'[w] = c
    BY <2>1, LibrarianOnward DEF LibrarianSteps
  <2>3. Librarian!ManifestPath(m) \in DOMAIN temps'
        /\ temps'[Librarian!ManifestPath(m)] = Librarian!Written(commit[w].keys)
    BY <2>1 DEF Librarian!Put
  <2>4. LibrarianPlaced(w)'
    BY <1>0, <2>1, <2>2, <2>3 DEF LibrarianPlaced, LibrarianWithManifest, LibrarianWithBody,
       Librarian!ManifestPath, Librarian!Written
  <2> QED
    BY <2>1, <2>2, <2>4, LibrarianPrepared DEF Librarian!Idle
<1>3. CASE Librarian!RenameTemp(w, "manifest rename", Librarian!ManifestPath(m), Librarian!Writing,
      Librarian!AfterManifest)
  <2>1. commit[w].pc = "manifest rename" /\ Librarian!ManifestPath(m) \in DOMAIN temps
        /\ temps[Librarian!ManifestPath(m)] = Librarian!Written(commit[w].keys)
           /\ Librarian!Verifies(commit[w].keys)
    BY <1>0, <1>3 DEF Librarian!RenameTemp, LibrarianPlaced
  <2>2. files' = Librarian!Put(files, Librarian!ManifestPath(m), Librarian!Written(commit[w].keys))
        /\ UNCHANGED <<draft, links, swings>>
    BY <1>3, <2>1 DEF Librarian!RenameTemp
  <2>3. commit' = [commit EXCEPT ![w].pc = "body open"]
    <3>1. \A v \in Writers \ {w} : Librarian!Writing[v] # Librarian!ManifestPath(m)
      <4>1. \A v \in Writers \ {w} : commit[v].pc = "idle"
        BY <2>1 DEF LibrarianSound, LibrarianAlone, Librarian!Idle
      <4> QED
        BY <4>1 DEF Librarian!Writing, Librarian!ManifestPath
    <3>2. commit' = [v \in Writers |-> IF v = w THEN [commit[w] EXCEPT !.pc = "body open"]
          ELSE commit[v]]
      BY <1>3, <2>1, <3>1 DEF Librarian!RenameTemp, Librarian!AfterManifest
    <3> QED
      BY <3>2 DEF LibrarianSound, LibrarianTyped
  <2>4. PICK c \in LibrarianCommit :
          /\ c.pc = "body open" /\ c.m = m /\ c.keys = commit[w].keys /\ ~c.renamed
          /\ commit' = [commit EXCEPT ![w] = c] /\ commit'[w] = c
    BY <2>3, LibrarianOnward DEF LibrarianSteps, LibrarianWithManifest
  <2>5. DOMAIN files' = DOMAIN files \cup {Librarian!ManifestPath(m)}
        /\ files'[Librarian!ManifestPath(m)] = Librarian!Written(commit[w].keys)
        /\ \A p \in DOMAIN files : p # Librarian!ManifestPath(m) => files'[p] = files[p]
    BY <2>2 DEF Librarian!Put
  <2>6. LibrarianComplete'
    <3> SUFFICES ASSUME NEW n \in Manifests
                 PROVE  /\ Librarian!ManifestPath(n) \in DOMAIN files' =>
                              files'[Librarian!ManifestPath(n)].full
                                    /\ Librarian!Verifies(files'[Librarian!ManifestPath(n)].keys)
                        /\ Librarian!BodyPath(n) \in DOMAIN files' => files'[Librarian!BodyPath(n)].full
      BY DEF LibrarianComplete, Librarian!Verifies
    <3>1. Librarian!BodyPath(n) # Librarian!ManifestPath(m)
      BY DEF Librarian!ManifestPath, Librarian!BodyPath
    <3>2. Librarian!Written(commit[w].keys).full
          /\ Librarian!Written(commit[w].keys).keys = commit[w].keys
      BY DEF Librarian!Written
    <3>3. Librarian!BodyPath(n) \in DOMAIN files' => files'[Librarian!BodyPath(n)].full
      BY <2>5, <3>1 DEF LibrarianSound, LibrarianComplete
    <3>4. CASE Librarian!ManifestPath(n) = Librarian!ManifestPath(m)
      BY <2>1, <2>5, <3>2, <3>3, <3>4
    <3>5. CASE Librarian!ManifestPath(n) # Librarian!ManifestPath(m)
      BY <2>5, <3>3, <3>5 DEF LibrarianSound, LibrarianComplete
    <3> QED
      BY <3>4, <3>5
  <2>7. Librarian!HeadsLoad'
    BY <2>2, <2>5, <2>6, LibrarianStillLoads
  <2>8. LibrarianPlaced(w)'
    BY <2>1, <2>4, <2>5 DEF LibrarianPlaced, LibrarianWithManifest, LibrarianWithBody,
       Librarian!ManifestPath
  <2> QED
    BY <2>1, <2>2, <2>4, <2>6, <2>7, <2>8, LibrarianOthers
      DEF LibrarianSound, LibrarianTyped, Librarian!Idle
<1> QED
  BY <1>1, <1>2, <1>3 DEF Librarian!WriteManifest

LEMMA LibrarianWriteBodySound ==
    ASSUME Librarian!LibrarianAssumption, LibrarianSound, NEW w \in Writers, Librarian!WriteBody(w)
    PROVE  LibrarianSound'
<1> DEFINE m == commit[w].m
<1>0. commit[w] \in LibrarianCommit /\ ~commit[w].renamed /\ LibrarianPlaced(w) /\ m \in Manifests
  BY DEF LibrarianSound, LibrarianTyped, LibrarianAlone, LibrarianCommit
<1>1. CASE Librarian!OpenTemp(w, "body open", Librarian!BodyPath(m), "body write")
  BY <1>1, LibrarianOpenSound
<1>2. CASE Librarian!WriteTemp(w, "body write", Librarian!BodyPath(m), {}, "body rename")
  <2>1. commit[w].pc = "body write" /\ temps' = Librarian!Put(temps, Librarian!BodyPath(m),
        Librarian!Written({}))
        /\ commit' = [commit EXCEPT ![w].pc = "body rename"]
           /\ UNCHANGED <<draft, files, links, swings>>
    BY <1>0, <1>2 DEF Librarian!WriteTemp
  <2>2. PICK c \in LibrarianCommit :
          /\ c.pc = "body rename" /\ c.m = m /\ c.keys = commit[w].keys /\ ~c.renamed
          /\ commit' = [commit EXCEPT ![w] = c] /\ commit'[w] = c
    BY <2>1, LibrarianOnward DEF LibrarianSteps, LibrarianWithManifest
  <2>3. Librarian!BodyPath(m) \in DOMAIN temps' /\ temps'[Librarian!BodyPath(m)] = Librarian!Written({})
    BY <2>1 DEF Librarian!Put
  <2>4. LibrarianPlaced(w)'
    BY <1>0, <2>1, <2>2, <2>3 DEF LibrarianPlaced, LibrarianWithManifest, LibrarianWithBody,
       Librarian!ManifestPath, Librarian!BodyPath, Librarian!Written
  <2> QED
    BY <2>1, <2>2, <2>4, LibrarianPrepared DEF Librarian!Idle
<1>3. CASE Librarian!RenameTemp(w, "body rename", Librarian!BodyPath(m), Librarian!Writing,
      Librarian!AfterBody)
  <2>1. commit[w].pc = "body rename" /\ Librarian!BodyPath(m) \in DOMAIN temps
        /\ temps[Librarian!BodyPath(m)] = Librarian!Written({}) /\ Librarian!Verifies(commit[w].keys)
        /\ Librarian!ManifestPath(m) \in DOMAIN files
    BY <1>0, <1>3 DEF Librarian!RenameTemp, LibrarianPlaced, LibrarianWithManifest
  <2>2. files' = Librarian!Put(files, Librarian!BodyPath(m), Librarian!Written({}))
        /\ UNCHANGED <<draft, links, swings>>
    BY <1>3, <2>1 DEF Librarian!RenameTemp
  <2>3. commit' = [commit EXCEPT ![w].pc = "head clear"]
    <3>1. \A v \in Writers \ {w} : Librarian!Writing[v] # Librarian!BodyPath(m)
      <4>1. \A v \in Writers \ {w} : commit[v].pc = "idle"
        BY <2>1 DEF LibrarianSound, LibrarianAlone, Librarian!Idle
      <4> QED
        BY <4>1 DEF Librarian!Writing, Librarian!BodyPath
    <3>2. commit' = [v \in Writers |-> IF v = w THEN [commit[w] EXCEPT !.pc = "head clear"]
          ELSE commit[v]]
      BY <1>3, <2>1, <3>1 DEF Librarian!RenameTemp, Librarian!AfterBody
    <3> QED
      BY <3>2 DEF LibrarianSound, LibrarianTyped
  <2>4. PICK c \in LibrarianCommit :
          /\ c.pc = "head clear" /\ c.m = m /\ c.keys = commit[w].keys /\ ~c.renamed
          /\ commit' = [commit EXCEPT ![w] = c] /\ commit'[w] = c
    BY <2>3, LibrarianOnward DEF LibrarianSteps, LibrarianWithManifest, LibrarianWithBody
  <2>5. DOMAIN files' = DOMAIN files \cup {Librarian!BodyPath(m)}
        /\ files'[Librarian!BodyPath(m)] = Librarian!Written({})
        /\ \A p \in DOMAIN files : p # Librarian!BodyPath(m) => files'[p] = files[p]
    BY <2>2 DEF Librarian!Put
  <2>6. LibrarianComplete'
    <3> SUFFICES ASSUME NEW n \in Manifests
                 PROVE  /\ Librarian!ManifestPath(n) \in DOMAIN files' =>
                              files'[Librarian!ManifestPath(n)].full
                                    /\ Librarian!Verifies(files'[Librarian!ManifestPath(n)].keys)
                        /\ Librarian!BodyPath(n) \in DOMAIN files' => files'[Librarian!BodyPath(n)].full
      BY DEF LibrarianComplete, Librarian!Verifies
    <3>1. Librarian!ManifestPath(n) # Librarian!BodyPath(m)
      BY DEF Librarian!ManifestPath, Librarian!BodyPath
    <3>2. Librarian!Written({}).full
      BY DEF Librarian!Written
    <3>3. Librarian!ManifestPath(n) \in DOMAIN files' =>
              files'[Librarian!ManifestPath(n)].full
                    /\ Librarian!Verifies(files'[Librarian!ManifestPath(n)].keys)
      BY <2>5, <3>1 DEF LibrarianSound, LibrarianComplete
    <3>4. CASE Librarian!BodyPath(n) = Librarian!BodyPath(m)
      BY <2>5, <3>2, <3>3, <3>4
    <3>5. CASE Librarian!BodyPath(n) # Librarian!BodyPath(m)
      BY <2>5, <3>3, <3>5 DEF LibrarianSound, LibrarianComplete
    <3> QED
      BY <3>4, <3>5
  <2>7. Librarian!HeadsLoad'
    BY <2>2, <2>5, <2>6, LibrarianStillLoads
  <2>8. LibrarianPlaced(w)'
    BY <2>1, <2>4, <2>5 DEF LibrarianPlaced, LibrarianWithManifest, LibrarianWithBody,
       Librarian!ManifestPath, Librarian!BodyPath
  <2> QED
    BY <2>1, <2>2, <2>4, <2>6, <2>7, <2>8, LibrarianOthers
      DEF LibrarianSound, LibrarianTyped, Librarian!Idle
<1> QED
  BY <1>1, <1>2, <1>3 DEF Librarian!WriteBody

------------------------------------------------------------------------------
(* The links: all that is asked of a head or a version is there before it  *)
(* is swung.                                                               *)

\* The first two steps of a link.
LEMMA LibrarianClearSound ==
    ASSUME Librarian!LibrarianAssumption, LibrarianSound, NEW w \in Writers, NEW from, NEW path, NEW to,
           Librarian!ClearLink(w, from, path, to),
           \/ from = "head clear" /\ to = "head make"
           \/ from = "version clear" /\ to = "version make"
    PROVE  LibrarianSound'
<1>1. commit[w].pc = from /\ LibrarianPlaced(w) /\ commit' = [commit EXCEPT ![w].pc = to]
      /\ UNCHANGED <<draft, files, links>>
  BY DEF Librarian!ClearLink, LibrarianSound
<1>2. PICK c \in LibrarianCommit :
        /\ c.pc = to /\ c.m = commit[w].m /\ c.keys = commit[w].keys /\ ~c.renamed
        /\ commit' = [commit EXCEPT ![w] = c] /\ commit'[w] = c
  BY <1>1, LibrarianOnward DEF LibrarianSteps, LibrarianWithManifest, LibrarianWithBody
<1>3. LibrarianPlaced(w)'
  BY <1>1, <1>2 DEF LibrarianPlaced, LibrarianWithManifest, LibrarianWithBody, Librarian!ManifestPath,
     Librarian!BodyPath
<1> QED
  BY <1>1, <1>2, <1>3, LibrarianPrepared DEF Librarian!Idle

LEMMA LibrarianMakeSound ==
    ASSUME Librarian!LibrarianAssumption, LibrarianSound, NEW w \in Writers, NEW from, NEW path, NEW to,
           Librarian!MakeLink(w, from, path, to),
           \/ from = "head make" /\ to = "head swing" /\ path = Librarian!HeadLink(commit[w].m)
           \/ from = "version make" /\ to = "version swing" /\ path = Librarian!VersionLink(commit[w].m)
    PROVE  LibrarianSound'
<1>1. commit[w].pc = from /\ LibrarianPlaced(w) /\ ~Librarian!Idle(w)
      /\ UNCHANGED <<draft, files, links>>
  BY DEF Librarian!MakeLink, LibrarianSound, Librarian!Idle
<1>2. CASE Librarian!Rest(w)
  BY <1>1, <1>2, LibrarianRested
<1>3. CASE swings' = Librarian!Put(swings, path, commit[w].m) /\ commit' = [commit EXCEPT ![w].pc = to]
  <2>1. PICK c \in LibrarianCommit :
          /\ c.pc = to /\ c.m = commit[w].m /\ c.keys = commit[w].keys /\ ~c.renamed
          /\ commit' = [commit EXCEPT ![w] = c] /\ commit'[w] = c
    BY <1>3, LibrarianOnward DEF LibrarianSteps, LibrarianWithManifest, LibrarianWithBody
  <2>2. path \in DOMAIN swings' /\ swings'[path] = commit[w].m
    BY <1>3 DEF Librarian!Put
  <2>3. LibrarianPlaced(w)'
    BY <1>1, <2>1, <2>2
    DEF LibrarianPlaced, LibrarianWithManifest, LibrarianWithBody, Librarian!ManifestPath,
        Librarian!BodyPath, Librarian!HeadLink, Librarian!VersionLink
  <2> QED
    BY <1>1, <2>1, <2>3, LibrarianPrepared
<1> QED
  BY <1>2, <1>3 DEF Librarian!MakeLink

LEMMA LibrarianSwingSound ==
    ASSUME Librarian!LibrarianAssumption, LibrarianSound, NEW w \in Writers, NEW from, NEW path, NEW to,
           Librarian!SwingLink(w, from, path, to),
           \/ from = "head swing" /\ to = "version clear" /\ path = Librarian!HeadLink(commit[w].m)
           \/ from = "version swing" /\ to = "idle" /\ path = Librarian!VersionLink(commit[w].m)
    PROVE  LibrarianSound'
<1> DEFINE m == commit[w].m
<1>1. commit[w].pc = from /\ LibrarianPlaced(w) /\ ~Librarian!Idle(w) /\ m \in Manifests
      /\ UNCHANGED <<draft, files>>
  BY DEF Librarian!SwingLink, LibrarianSound, LibrarianTyped, LibrarianCommit, Librarian!Idle
<1>2. path \in DOMAIN swings /\ swings[path] = m
      /\ Librarian!ManifestPath(m) \in DOMAIN files /\ Librarian!BodyPath(m) \in DOMAIN files
  BY <1>1 DEF LibrarianPlaced, LibrarianWithManifest, LibrarianWithBody
<1>3. links' = Librarian!Put(links, path, m)
  BY <1>2 DEF Librarian!SwingLink
<1>4. DOMAIN links' = DOMAIN links \cup {path} /\ links'[path] = m
      /\ \A p \in DOMAIN links : p # path => links'[p] = links[p]
  BY <1>3 DEF Librarian!Put
<1>5. Librarian!Loads(m)
  BY <1>1, <1>2 DEF LibrarianSound, LibrarianComplete, Librarian!Loads
<1>6. Librarian!HeadsLoad'
  BY <1>1, <1>4, <1>5 DEF LibrarianSound, Librarian!HeadsLoad, Librarian!Loads
<1>7. PICK c \in LibrarianCommit :
        /\ c.pc = to /\ ~c.renamed /\ (to # "idle" => c.m = m /\ c.keys = commit[w].keys)
        /\ commit' = [commit EXCEPT ![w] = c] /\ commit'[w] = c
  <2>1. CASE to = "idle"
    <3>1. Librarian!AtRest \in LibrarianCommit /\ Librarian!AtRest.pc = "idle"
          /\ ~Librarian!AtRest.renamed
      BY DEF Librarian!LibrarianAssumption, Librarian!AtRest, LibrarianCommit, LibrarianSteps
    <3>2. commit' = [commit EXCEPT ![w] = Librarian!AtRest] /\ commit'[w] = Librarian!AtRest
      BY <1>2, <2>1 DEF Librarian!SwingLink, Librarian!Rest, LibrarianSound, LibrarianTyped
    <3> QED
      BY <2>1, <3>1, <3>2
  <2>2. CASE to # "idle"
    <3>1. commit' = [commit EXCEPT ![w].pc = to]
      BY <1>2, <2>2 DEF Librarian!SwingLink
    <3>2. to \in LibrarianSteps
      BY DEF LibrarianSteps, LibrarianWithManifest, LibrarianWithBody
    <3> QED
      BY <3>1, <3>2, LibrarianOnward
  <2> QED
    BY <2>1, <2>2
<1>8. LibrarianPlaced(w)'
  BY <1>1, <1>2, <1>7 DEF LibrarianPlaced, LibrarianWithManifest, LibrarianWithBody,
     Librarian!ManifestPath, Librarian!BodyPath
<1>9. \A p \in DOMAIN links' : links'[p] \in Manifests
  BY <1>1, <1>4 DEF LibrarianSound, LibrarianTyped
<1> QED
  BY <1>1, <1>6, <1>7, <1>8, <1>9, LibrarianOthers DEF LibrarianSound, LibrarianTyped, LibrarianComplete

LEMMA LibrarianLinkSound ==
    ASSUME Librarian!LibrarianAssumption, LibrarianSound, NEW w \in Writers, Librarian!LinkHead(w)
           \/ Librarian!LinkVersion(w)
    PROVE  LibrarianSound'
  BY LibrarianClearSound, LibrarianMakeSound, LibrarianSwingSound
    DEF Librarian!LinkHead, Librarian!LinkVersion

------------------------------------------------------------------------------
\* A crash leaves what is renamed and linked.
LEMMA LibrarianCrashSound ==
    ASSUME Librarian!LibrarianAssumption, LibrarianSound, NEW w \in Writers, Librarian!Crash(w)
    PROVE  LibrarianSound'
  BY LibrarianRested DEF Librarian!Crash

\* Every step keeps the invariant.
LEMMA LibrarianNextSound ==
    ASSUME Librarian!LibrarianAssumption, LibrarianSound, Librarian!Next \/ UNCHANGED Librarian!vars
    PROVE  LibrarianSound'
<1>1. CASE \E m \in Manifests, keys \in SUBSET SigningKeys : Librarian!Anchor(m, keys)
  BY <1>1, LibrarianAnchorSound
<1>2. CASE \E w \in Writers, m \in Manifests : Librarian!Begin(w, m)
  BY <1>2, LibrarianBeginSound
<1>3. CASE \E w \in Writers : Librarian!WriteManifest(w) \/ Librarian!WriteBody(w)
  BY <1>3, LibrarianWriteManifestSound, LibrarianWriteBodySound
<1>4. CASE \E w \in Writers : Librarian!LinkHead(w) \/ Librarian!LinkVersion(w)
  BY <1>4, LibrarianLinkSound
<1>5. CASE \E w \in Writers : Librarian!Crash(w)
  BY <1>5, LibrarianCrashSound
<1>6. CASE UNCHANGED Librarian!vars
  BY <1>6 DEF Librarian!vars, LibrarianSound, LibrarianTyped, LibrarianAlone, Librarian!Idle,
     LibrarianComplete, LibrarianPlaced, Librarian!HeadsLoad, Librarian!Loads
<1> QED
  BY <1>1, <1>2, <1>3, <1>4, <1>5, <1>6 DEF Librarian!Next

------------------------------------------------------------------------------
(* What is written and linked has its type.                                *)

LibrarianFile == [full : BOOLEAN, keys : SUBSET SigningKeys]

LibrarianStored ==
    /\ \A p \in DOMAIN files : files[p] \in LibrarianFile
    /\ \A p \in DOMAIN temps : temps[p] \in LibrarianFile
    /\ \A p \in DOMAIN swings : swings[p] \in Manifests
    /\ crashes \in 0 .. MaxCrashes

LibrarianInv == LibrarianSound /\ LibrarianStored

\* Files and links keep their types when one more of the type comes, or one goes.
LEMMA LibrarianPutIn ==
    ASSUME NEW S, NEW f, NEW p, NEW value \in S, \A x \in DOMAIN f : f[x] \in S
    PROVE  \A x \in DOMAIN Librarian!Put(f, p, value) : Librarian!Put(f, p, value)[x] \in S
  BY DEF Librarian!Put

LEMMA LibrarianWithoutIn ==
    ASSUME NEW S, NEW f, NEW p, \A x \in DOMAIN f : f[x] \in S
    PROVE  \A x \in DOMAIN Librarian!Without(f, p) : Librarian!Without(f, p)[x] \in S
  BY DEF Librarian!Without, Librarian!Restrict

LEMMA LibrarianFilesAre == Librarian!Opened \in LibrarianFile
      /\ \A keys \in SUBSET SigningKeys : Librarian!Written(keys) \in LibrarianFile
<1>1. Librarian!Opened \in LibrarianFile
  BY DEF Librarian!Opened, LibrarianFile
<1>2. ASSUME NEW keys \in SUBSET SigningKeys PROVE Librarian!Written(keys) \in LibrarianFile
  BY DEF Librarian!Written, LibrarianFile
<1> QED
  BY <1>1, <1>2

\* The three steps of a file.
LEMMA LibrarianWriteStored ==
    ASSUME LibrarianSound, LibrarianStored, NEW w \in Writers, NEW from, NEW path,
           NEW keys \in SUBSET SigningKeys, NEW to, NEW writing,
           \/ Librarian!OpenTemp(w, from, path, to)
           \/ Librarian!WriteTemp(w, from, path, keys, to)
           \/ Librarian!RenameTemp(w, from, path, writing, to)
    PROVE  LibrarianStored'
<1>1. Librarian!Opened \in LibrarianFile /\ Librarian!Written(keys) \in LibrarianFile
  BY LibrarianFilesAre
<1>2. CASE Librarian!OpenTemp(w, from, path, to)
  <2>1. temps' = Librarian!Put(temps, path, Librarian!Opened) /\ UNCHANGED <<files, swings, crashes>>
    BY <1>2 DEF Librarian!OpenTemp
  <2>2. \A p \in DOMAIN temps' : temps'[p] \in LibrarianFile
    BY <1>1, <2>1, LibrarianPutIn DEF LibrarianStored
  <2> QED
    BY <2>1, <2>2 DEF LibrarianStored
<1>3. CASE Librarian!WriteTemp(w, from, path, keys, to)
  <2>1. temps' = Librarian!Put(temps, path, Librarian!Written(keys))
        /\ UNCHANGED <<files, swings, crashes>>
    BY <1>3 DEF Librarian!WriteTemp, LibrarianSound, LibrarianAlone
  <2>2. \A p \in DOMAIN temps' : temps'[p] \in LibrarianFile
    BY <1>1, <2>1, LibrarianPutIn DEF LibrarianStored
  <2> QED
    BY <2>1, <2>2 DEF LibrarianStored
<1>4. CASE Librarian!RenameTemp(w, from, path, writing, to)
  <2>1. UNCHANGED <<swings, crashes>>
    BY <1>4 DEF Librarian!RenameTemp
  <2>2. CASE UNCHANGED <<files, temps>>
    BY <2>1, <2>2 DEF LibrarianStored
  <2>3. CASE path \in DOMAIN temps /\ files' = Librarian!Put(files, path, temps[path])
        /\ temps' = Librarian!Without(temps, path)
    <3>1. \A p \in DOMAIN files' : files'[p] \in LibrarianFile
      BY <2>3, LibrarianPutIn DEF LibrarianStored
    <3>2. \A p \in DOMAIN temps' : temps'[p] \in LibrarianFile
      BY <2>3, LibrarianWithoutIn DEF LibrarianStored
    <3> QED
      BY <2>1, <3>1, <3>2 DEF LibrarianStored
  <2> QED
    BY <1>4, <2>2, <2>3 DEF Librarian!RenameTemp
<1> QED
  BY <1>2, <1>3, <1>4

\* The three steps of a link.
LEMMA LibrarianLinkStored ==
    ASSUME LibrarianSound, LibrarianStored, NEW w \in Writers, NEW from, NEW path, NEW to,
           \/ Librarian!ClearLink(w, from, path, to)
           \/ Librarian!MakeLink(w, from, path, to)
           \/ Librarian!SwingLink(w, from, path, to)
    PROVE  LibrarianStored'
<1>1. UNCHANGED <<files, temps, crashes>>
  BY DEF Librarian!ClearLink, Librarian!MakeLink, Librarian!SwingLink
<1>2. commit[w].m \in Manifests
  BY DEF LibrarianSound, LibrarianTyped, LibrarianCommit
<1>3. \/ swings' = swings \/ swings' = Librarian!Without(swings, path)
         \/ swings' = Librarian!Put(swings, path, commit[w].m)
  BY DEF Librarian!ClearLink, Librarian!MakeLink, Librarian!SwingLink
<1>4. \A p \in DOMAIN swings' : swings'[p] \in Manifests
  BY <1>2, <1>3, LibrarianPutIn, LibrarianWithoutIn DEF LibrarianStored
<1> QED
  BY <1>1, <1>4 DEF LibrarianStored

LEMMA LibrarianNextStored ==
    ASSUME Librarian!LibrarianAssumption, LibrarianSound, LibrarianStored, Librarian!Next
           \/ UNCHANGED Librarian!vars
    PROVE  LibrarianStored'
<1>1. CASE \E m \in Manifests, keys \in SUBSET SigningKeys : Librarian!Anchor(m, keys)
  BY <1>1 DEF Librarian!Anchor, LibrarianStored
<1>2. CASE \E w \in Writers, m \in Manifests : Librarian!Begin(w, m)
  BY <1>2 DEF Librarian!Begin, LibrarianStored
<1>3. ASSUME NEW w \in Writers, Librarian!WriteManifest(w) \/ Librarian!WriteBody(w)
      PROVE LibrarianStored'
  <2>1. commit[w].keys \in SUBSET SigningKeys /\ {} \in SUBSET SigningKeys
    BY DEF LibrarianSound, LibrarianTyped, LibrarianCommit
  <2>2. CASE Librarian!WriteManifest(w)
    BY <2>1, <2>2, LibrarianWriteStored DEF Librarian!WriteManifest
  <2>3. CASE Librarian!WriteBody(w)
    BY <2>1, <2>3, LibrarianWriteStored DEF Librarian!WriteBody
  <2> QED
    BY <1>3, <2>2, <2>3
<1>4. ASSUME NEW w \in Writers, Librarian!LinkHead(w) \/ Librarian!LinkVersion(w) PROVE LibrarianStored'
  BY <1>4, LibrarianLinkStored DEF Librarian!LinkHead, Librarian!LinkVersion
<1>5. CASE \E w \in Writers : Librarian!Crash(w)
  BY <1>5 DEF Librarian!Crash, LibrarianStored, Librarian!LibrarianAssumption
<1>6. CASE UNCHANGED Librarian!vars
  BY <1>6 DEF Librarian!vars, LibrarianStored
<1> QED
  BY <1>1, <1>2, <1>3, <1>4, <1>5, <1>6 DEF Librarian!Next

LEMMA LibrarianInitInv == ASSUME Librarian!LibrarianAssumption, Librarian!Init PROVE LibrarianInv
<1>1. LibrarianStored
  BY DEF Librarian!LibrarianAssumption, Librarian!Init, Librarian!NoFile, LibrarianStored
<1> QED
  BY <1>1, LibrarianInitSound DEF LibrarianInv

LEMMA LibrarianNextInv ==
    ASSUME Librarian!LibrarianAssumption, LibrarianInv, Librarian!Next \/ UNCHANGED Librarian!vars
    PROVE  LibrarianInv'
  BY LibrarianNextSound, LibrarianNextStored DEF LibrarianInv

LEMMA LibrarianInvHolds == ASSUME LibrarianInv PROVE Librarian!HeadsLoad /\ Librarian!TypeOK
<1>1. \A w \in Writers : commit[w].m \in Manifests /\ commit[w].keys \subseteq SigningKeys
  BY DEF LibrarianInv, LibrarianSound, LibrarianTyped, LibrarianCommit
<1> QED
  BY <1>1 DEF LibrarianInv, LibrarianSound, LibrarianTyped, LibrarianStored, LibrarianFile,
     Librarian!TypeOK

------------------------------------------------------------------------------
(* The validation sandbox (VirSandbox.tla).  While a validation runs in its*)
(* sandbox, no request does.                                               *)

SandboxVirSteps == {"idle", "create", "prompt", "redirect", "redirect ledger", "session store", "save",
          "ledger store", "index", "restore", "restore ledger", "clean up", "done"}

SandboxValidating == [pc : SandboxVirSteps, phase : Sandbox!Phases, left : 0 .. Prompts,
      saved : [Sandbox!Kinds -> Sandbox!Directories],
               store : Sandbox!Directories, seen : SUBSET Sandbox!Record]
SandboxRequesting == [pc : {"session store", "save", "ledger store", "index", "done"},
      store : Sandbox!Directories]

SandboxPrimaries == [kind \in Sandbox!Kinds |-> Primary]

SandboxTyped ==
    /\ dir \in [Sandbox!Kinds -> Sandbox!Directories]
       /\ exist \subseteq [kind : Sandbox!Kinds, dir : Sandbox!Directories]
    /\ records \subseteq Sandbox!Record /\ meddled \subseteq Requests
    /\ validation \in [Validations -> SandboxValidating] /\ request \in [Requests -> SandboxRequesting]

\* One validation runs at a time.
SandboxOneRuns == \A v, w \in Validations : Sandbox!Running(v) /\ Sandbox!Running(w) => v = w

\* The variables say what the benchmark that runs has made of them, and it
\* knows what they said before.
SandboxRedirected(v) ==
    /\ validation[v].pc = "redirect" => validation[v].saved = SandboxPrimaries
    /\ Sandbox!InBenchmark(v) =>
          /\ validation[v].saved = SandboxPrimaries
          /\ dir["session"] = IF validation[v].pc = "restore ledger" THEN Primary
             ELSE <<v, validation[v].phase>>
          /\ dir["ledger"] = IF validation[v].pc = "redirect ledger" THEN Primary
             ELSE <<v, validation[v].phase>>
    /\ validation[v].pc \in {"save", "index"} => validation[v].store = <<v, validation[v].phase>>

SandboxDirected ==
    /\ (\A v \in Validations : ~Sandbox!InBenchmark(v)) => dir = SandboxPrimaries
    /\ \A v \in Validations : SandboxRedirected(v)

SandboxLogged(r, kind) == [by |-> r, kind |-> kind, dir |-> Primary] \in records

\* How far a request is that no benchmark came in between of.
SandboxKept(r) ==
    r \notin meddled =>
        /\ request[r].pc = "save" => request[r].store = Primary
           /\ Sandbox!Place("session", Primary) \in exist
        /\ request[r].pc \in {"ledger store", "index", "done"} => SandboxLogged(r, "session")
        /\ request[r].pc = "index" => request[r].store = Primary
           /\ Sandbox!Place("ledger", Primary) \in exist
        /\ request[r].pc = "done" => SandboxLogged(r, "ledger")

SandboxApart ==
    /\ \A r \in records : r.by \in Validations => r.dir # Primary
    /\ \A v \in Validations : \A r \in validation[v].seen : r.by \in Requests

SandboxInv == SandboxTyped /\ SandboxOneRuns /\ SandboxDirected /\ SandboxApart
      /\ \A r \in Requests : SandboxKept(r)

------------------------------------------------------------------------------
\* The directories: the system's own is none of a sandbox.
LEMMA SandboxPlaces ==
    ASSUME Sandbox!SandboxAssumption
    PROVE  /\ Primary \in Sandbox!Directories
           /\ \A v \in Validations : \A phase \in Sandbox!Phases :
                 <<v, phase>> \in Sandbox!Directories /\ <<v, phase>> # Primary
                       /\ <<v, phase>> \in Sandbox!Sandboxes(v)
           /\ \A v \in Validations : Primary \notin Sandbox!Sandboxes(v)
              /\ Sandbox!Sandboxes(v) \subseteq Sandbox!Directories
           /\ SandboxPrimaries \in [Sandbox!Kinds -> Sandbox!Directories]
  BY DEF Sandbox!SandboxAssumption, Sandbox!Directories, Sandbox!Sandboxes, Sandbox!Phases,
         SandboxPrimaries

\* The names that are looked up.
LEMMA SandboxStores ==
    /\ Sandbox!StoreOf["session"] = "session store" /\ Sandbox!WriteOf["session"] = "save"
    /\ Sandbox!StoreOf["ledger"] = "ledger store" /\ Sandbox!WriteOf["ledger"] = "index"
  BY DEF Sandbox!StoreOf, Sandbox!WriteOf

\* What holds once every part does.
LEMMA SandboxInvHolds ==
    ASSUME Sandbox!SandboxAssumption, SandboxInv
    PROVE  Sandbox!TypeOK /\ Sandbox!VirIsolated
<1>1. Sandbox!TypeOK
  BY DEF SandboxInv, SandboxTyped, Sandbox!TypeOK, SandboxValidating, SandboxRequesting
<1>2. (\A v \in Validations : ~Sandbox!Running(v)) => dir = [kind \in Sandbox!Kinds |-> Primary]
  BY DEF SandboxInv, SandboxDirected, Sandbox!Running, Sandbox!InBenchmark, SandboxPrimaries
<1>3. ASSUME NEW r \in Requests, request[r].pc = "done", r \notin meddled, NEW kind \in Sandbox!Kinds
      PROVE  [by |-> r, kind |-> kind, dir |-> Primary] \in records
  BY <1>3 DEF SandboxInv, SandboxKept, SandboxLogged, Sandbox!Kinds
<1> QED
  BY <1>1, <1>2, <1>3 DEF SandboxInv, SandboxApart, Sandbox!VirIsolated

\* No validation runs.
LEMMA SandboxInitInv == ASSUME Sandbox!SandboxAssumption, Sandbox!Init PROVE SandboxInv
<1>0. Primary \in Sandbox!Directories /\ SandboxPrimaries \in [Sandbox!Kinds -> Sandbox!Directories]
      /\ dir = SandboxPrimaries
  BY SandboxPlaces DEF Sandbox!Init, SandboxPrimaries
<1>p. Prompts \in Nat
  BY DEF Sandbox!SandboxAssumption
<1>1. \A v \in Validations : validation[v] = [pc |-> "idle", phase |-> "baseline", left |-> 0,
                                              saved |-> dir, store |-> Primary, seen |-> {}]
  BY DEF Sandbox!Init
<1>2. \A v \in Validations : validation[v] \in SandboxValidating
  <2> TAKE v \in Validations
  <2> DEFINE first(seen, kept) == [pc |-> "idle", phase |-> "baseline", left |-> 0,
                                    saved |-> kept, store |-> Primary, seen |-> seen]
  <2>1. \A seen \in SUBSET Sandbox!Record : first(seen, SandboxPrimaries) \in SandboxValidating
    BY <1>0, <1>p DEF SandboxValidating, SandboxVirSteps, Sandbox!Phases
  <2>2. {} \in SUBSET Sandbox!Record
    OBVIOUS
  <2> QED BY <1>0, <1>1, <2>1, <2>2
<1>3. validation \in [Validations -> SandboxValidating]
  BY <1>2 DEF Sandbox!Init
<1>4. request \in [Requests -> SandboxRequesting]
  BY <1>0 DEF Sandbox!Init, SandboxRequesting
<1>5. exist \subseteq [kind : Sandbox!Kinds, dir : Sandbox!Directories]
  <2>1. [kind |-> "session", dir |-> Primary] \in [kind : Sandbox!Kinds, dir : Sandbox!Directories]
    BY <1>0 DEF Sandbox!Kinds
  <2> QED BY <2>1 DEF Sandbox!Init, Sandbox!Place
<1>6. SandboxTyped
  BY <1>0, <1>3, <1>4, <1>5 DEF SandboxTyped, Sandbox!Init
<1>7. SandboxOneRuns
  BY <1>1 DEF SandboxOneRuns, Sandbox!Running
<1>8. SandboxDirected
  <2>1. \A v \in Validations : validation[v].pc = "idle"
    BY <1>1
  <2> QED BY <1>0, <2>1 DEF SandboxDirected, SandboxRedirected, Sandbox!InBenchmark
<1>9. SandboxApart
  BY <1>1 DEF Sandbox!Init, SandboxApart
<1>10. \A r \in Requests : SandboxKept(r)
  BY DEF Sandbox!Init, SandboxKept
<1> QED
  BY <1>6, <1>7, <1>8, <1>9, <1>10 DEF SandboxInv

\* What a step of one validation leaves of the others.
LEMMA SandboxAlone ==
    ASSUME Sandbox!SandboxAssumption, SandboxInv, NEW v \in Validations, Sandbox!Running(v),
           NEW val \in SandboxValidating,
           validation' = [validation EXCEPT ![v] = val]
    PROVE  /\ validation'[v] = val /\ validation' \in [Validations -> SandboxValidating]
              /\ SandboxOneRuns'
           /\ \A w \in Validations : w # v =>
                 /\ validation'[w] = validation[w] /\ ~Sandbox!Running(w) /\ ~Sandbox!InBenchmark(w)
                    /\ ~Sandbox!InBenchmark(w)'
                 /\ validation[w].pc \notin {"redirect", "save", "index"}
<1>1. validation'[v] = val /\ validation' \in [Validations -> SandboxValidating]
      /\ \A w \in Validations : w # v => validation'[w] = validation[w]
  BY DEF SandboxInv, SandboxTyped
<1>2. \A w \in Validations : w # v => ~Sandbox!Running(w) /\ ~Sandbox!Running(w)'
  BY <1>1 DEF SandboxInv, SandboxOneRuns, Sandbox!Running
<1>3. \A w \in Validations : w # v => ~Sandbox!InBenchmark(w) /\ ~Sandbox!InBenchmark(w)'
      /\ validation[w].pc \notin {"redirect", "save", "index"}
  BY <1>1, <1>2 DEF Sandbox!Running, Sandbox!InBenchmark
<1>4. SandboxOneRuns'
  BY <1>2 DEF SandboxOneRuns
<1> QED
  BY <1>1, <1>2, <1>3, <1>4

\* The invariant after a step of a validation that runs, in terms of it alone.
LEMMA SandboxStepInv ==
    ASSUME Sandbox!SandboxAssumption, SandboxInv, NEW v \in Validations, Sandbox!Running(v),
           NEW val \in SandboxValidating,
           validation' = [validation EXCEPT ![v] = val], val.seen = validation[v].seen,
           UNCHANGED <<request, meddled>>,
           dir' \in [Sandbox!Kinds -> Sandbox!Directories],
           exist' \subseteq [kind : Sandbox!Kinds, dir : Sandbox!Directories],
           records' \subseteq Sandbox!Record,
           ~Sandbox!InBenchmark(v)' => dir' = SandboxPrimaries,
           SandboxRedirected(v)',
           \A r \in records' : r.by \in Validations => r.dir # Primary,
           \A kind \in Sandbox!Kinds : Sandbox!Place(kind, Primary) \in exist
                 => Sandbox!Place(kind, Primary) \in exist',
           \A r \in records : r.dir = Primary => r \in records'
    PROVE  SandboxInv'
<1>1. /\ validation'[v] = val /\ validation' \in [Validations -> SandboxValidating] /\ SandboxOneRuns'
      /\ \A w \in Validations : w # v =>
            /\ validation'[w] = validation[w] /\ ~Sandbox!InBenchmark(w)'
            /\ validation[w].pc \notin {"redirect", "save", "index"}
  BY SandboxAlone
<1>2. SandboxTyped'
  BY <1>1 DEF SandboxInv, SandboxTyped
<1>3. ASSUME NEW w \in Validations, w # v PROVE SandboxRedirected(w)'
  BY <1>1, <1>3 DEF SandboxRedirected
<1>4. SandboxDirected'
  BY <1>3 DEF SandboxDirected
<1>5. SandboxApart'
  BY <1>1 DEF SandboxInv, SandboxApart
<1>6. ASSUME NEW r \in Requests PROVE SandboxKept(r)'
  <2>1. \A kind \in Sandbox!Kinds : SandboxLogged(r, kind) => SandboxLogged(r, kind)'
    BY DEF SandboxLogged
  <2> QED BY <2>1 DEF SandboxInv, SandboxKept, Sandbox!Kinds
<1> QED
  BY <1>1, <1>2, <1>4, <1>5, <1>6 DEF SandboxInv

\* The steps of a validation.
LEMMA SandboxAnalyseInv ==
    ASSUME Sandbox!SandboxAssumption, SandboxInv, NEW v \in Validations, Sandbox!Analyse(v)
    PROVE  SandboxInv'
<1>1. /\ \A w \in Validations : ~Sandbox!Running(w)
      /\ exist' = exist \cup {Sandbox!Place(kind, dir[kind]) : kind \in Sandbox!Kinds}
      /\ validation' = [validation EXCEPT ![v].pc = "create",
         ![v].seen = {r \in records : r.dir = dir[r.kind]}]
      /\ UNCHANGED <<dir, records, request, meddled>>
  BY DEF Sandbox!Analyse
<1> DEFINE seen == {r \in records : r.dir = dir[r.kind]}
           val == [validation[v] EXCEPT !.pc = "create", !.seen = seen]
<1>2. validation[v] \in SandboxValidating /\ seen \subseteq Sandbox!Record
  BY DEF SandboxInv, SandboxTyped
<1>3. val \in SandboxValidating /\ val.pc = "create" /\ val.seen = seen
      /\ val.phase = validation[v].phase
  BY <1>2 DEF SandboxValidating, SandboxVirSteps
<1>4. validation' = [validation EXCEPT ![v] = val]
  BY <1>1
<1> HIDE DEF val
<1>5. validation'[v] = val /\ validation' \in [Validations -> SandboxValidating]
      /\ \A w \in Validations : w # v => validation'[w] = validation[w]
  BY <1>3, <1>4 DEF SandboxInv, SandboxTyped
<1>6. \A w \in Validations : ~Sandbox!InBenchmark(w) /\ ~Sandbox!InBenchmark(w)'
      /\ validation'[w].pc \notin {"redirect", "save", "index"}
  BY <1>1, <1>3, <1>5 DEF Sandbox!Running, Sandbox!InBenchmark
<1>7. dir = SandboxPrimaries
  BY <1>6 DEF SandboxInv, SandboxDirected
<1>8. \A r \in seen : r.by \in Requests
  <2> TAKE r \in seen
  <2>1. r \in records /\ r.dir = dir[r.kind] /\ r \in Sandbox!Record
    BY DEF SandboxInv, SandboxTyped
  <2>2. r.dir = Primary
    BY <1>7, <2>1 DEF SandboxPrimaries, Sandbox!Record
  <2> QED BY <2>1, <2>2 DEF SandboxInv, SandboxApart, Sandbox!Record
<1>9. exist' \subseteq [kind : Sandbox!Kinds, dir : Sandbox!Directories]
  BY <1>1 DEF SandboxInv, SandboxTyped, Sandbox!Place
<1>10. SandboxTyped'
  BY <1>1, <1>5, <1>9 DEF SandboxInv, SandboxTyped
<1>11. SandboxOneRuns'
  BY <1>1, <1>5 DEF SandboxOneRuns, Sandbox!Running
<1>12. SandboxDirected'
  BY <1>1, <1>6, <1>7 DEF SandboxDirected, SandboxRedirected
<1>13. SandboxApart'
  BY <1>1, <1>3, <1>5, <1>8 DEF SandboxInv, SandboxApart
<1>14. \A r \in Requests : SandboxKept(r)'
  BY <1>1 DEF SandboxInv, SandboxKept, SandboxLogged
<1> QED
  BY <1>10, <1>11, <1>12, <1>13, <1>14 DEF SandboxInv

LEMMA SandboxCreateInv ==
    ASSUME Sandbox!SandboxAssumption, SandboxInv, NEW v \in Validations, Sandbox!CreateSandbox(v)
    PROVE  SandboxInv'
<1>0. Prompts \in 0 .. Prompts
  BY DEF Sandbox!SandboxAssumption
<1> DEFINE val == [validation[v] EXCEPT !.pc = "prompt", !.phase = "baseline", !.left = Prompts]
<1>1. validation[v].pc = "create" /\ validation' = [validation EXCEPT ![v] = val]
      /\ UNCHANGED <<dir, records, request, meddled>>
  BY DEF Sandbox!CreateSandbox
<1>2. validation[v] \in SandboxValidating
  BY DEF SandboxInv, SandboxTyped
<1>3. val \in SandboxValidating /\ val.pc = "prompt" /\ val.seen = validation[v].seen
  BY <1>0, <1>2 DEF SandboxValidating, SandboxVirSteps, Sandbox!Phases
<1> HIDE DEF val
<1>4. Sandbox!Running(v)
  BY <1>1 DEF Sandbox!Running
<1>5. validation'[v] = val /\ \A w \in Validations : w # v => ~Sandbox!InBenchmark(w)
  BY <1>1, <1>3, <1>4, SandboxAlone
<1>6. dir = SandboxPrimaries /\ SandboxRedirected(v)'
  BY <1>1, <1>3, <1>5 DEF SandboxInv, SandboxDirected, Sandbox!InBenchmark, SandboxRedirected
<1>7. exist' \subseteq [kind : Sandbox!Kinds, dir : Sandbox!Directories]
  BY SandboxPlaces DEF Sandbox!CreateSandbox, SandboxInv, SandboxTyped, Sandbox!Place
<1>8. \A kind \in Sandbox!Kinds : Sandbox!Place(kind, Primary) \in exist
      => Sandbox!Place(kind, Primary) \in exist'
  BY DEF Sandbox!CreateSandbox
<1> QED
  BY <1>1, <1>3, <1>4, <1>6, <1>7, <1>8, SandboxStepInv DEF SandboxInv, SandboxTyped, SandboxApart

LEMMA SandboxSaveDirsInv ==
    ASSUME Sandbox!SandboxAssumption, SandboxInv, NEW v \in Validations, Sandbox!SaveDirs(v)
    PROVE  SandboxInv'
<1> DEFINE val == [validation[v] EXCEPT !.pc = "redirect", !.saved = dir]
<1>1. /\ validation[v].pc = "prompt" /\ validation' = [validation EXCEPT ![v] = val]
      /\ UNCHANGED <<dir, exist, records, request, meddled>>
  BY DEF Sandbox!SaveDirs
<1>2. validation[v] \in SandboxValidating /\ dir \in [Sandbox!Kinds -> Sandbox!Directories]
  BY DEF SandboxInv, SandboxTyped
<1>3. val \in SandboxValidating /\ val.pc = "redirect" /\ val.saved = dir
      /\ val.seen = validation[v].seen
  BY <1>2 DEF SandboxValidating, SandboxVirSteps
<1> HIDE DEF val
<1>4. Sandbox!Running(v)
  BY <1>1 DEF Sandbox!Running
<1>5. validation'[v] = val /\ \A w \in Validations : w # v => ~Sandbox!InBenchmark(w)
  BY <1>1, <1>3, <1>4, SandboxAlone
<1>6. dir = SandboxPrimaries
  BY <1>1, <1>5 DEF SandboxInv, SandboxDirected, Sandbox!InBenchmark
<1>7. SandboxRedirected(v)'
  BY <1>1, <1>3, <1>5, <1>6 DEF SandboxRedirected, Sandbox!InBenchmark
<1> QED
  BY <1>1, <1>3, <1>4, <1>6, <1>7, SandboxStepInv DEF SandboxInv, SandboxTyped, SandboxApart

LEMMA SandboxRedirectInv ==
    ASSUME Sandbox!SandboxAssumption, SandboxInv, NEW v \in Validations, NEW kind \in Sandbox!Kinds,
           Sandbox!Redirect(v, kind)
    PROVE  SandboxInv'
<1> DEFINE next == IF kind = "session" THEN "redirect ledger" ELSE "session store"
           val == [validation[v] EXCEPT !.pc = next]
<1>1. /\ validation[v].pc = IF kind = "session" THEN "redirect" ELSE "redirect ledger"
      /\ dir' = [dir EXCEPT ![kind] = <<v, validation[v].phase>>]
      /\ validation' = [validation EXCEPT ![v] = val]
      /\ UNCHANGED <<exist, records, request, meddled>>
  BY DEF Sandbox!Redirect, Sandbox!GoOn
<1>2. validation[v] \in SandboxValidating /\ dir \in [Sandbox!Kinds -> Sandbox!Directories]
  BY DEF SandboxInv, SandboxTyped
<1>3. val \in SandboxValidating /\ val.pc = next /\ val.saved = validation[v].saved
      /\ val.seen = validation[v].seen
      /\ val.phase = validation[v].phase
  BY <1>2 DEF SandboxValidating, SandboxVirSteps
<1> HIDE DEF val
<1>4. Sandbox!Running(v)
  BY <1>1 DEF Sandbox!Running
<1>5. validation'[v] = val /\ \A w \in Validations : w # v => ~Sandbox!InBenchmark(w)
  BY <1>1, <1>3, <1>4, SandboxAlone
<1>6. validation[v].phase \in Sandbox!Phases /\ <<v, validation[v].phase>> \in Sandbox!Directories
  BY <1>2, SandboxPlaces DEF SandboxValidating
<1>7. dir' \in [Sandbox!Kinds -> Sandbox!Directories] /\ dir'[kind] = <<v, validation[v].phase>>
      /\ \A k \in Sandbox!Kinds : k # kind => dir'[k] = dir[k]
  BY <1>1, <1>2, <1>6
<1>8. Sandbox!InBenchmark(v)' /\ SandboxRedirected(v)'
  <2>1. CASE kind = "session"
    <3>1. dir = SandboxPrimaries /\ validation[v].saved = SandboxPrimaries
      BY <1>1, <1>5, <2>1 DEF SandboxInv, SandboxDirected, Sandbox!InBenchmark, SandboxRedirected
    <3>2. dir["ledger"] = Primary
      BY <3>1 DEF SandboxPrimaries, Sandbox!Kinds
    <3> QED BY <1>3, <1>5, <1>7, <2>1, <3>1, <3>2
      DEF SandboxRedirected, Sandbox!InBenchmark, Sandbox!Kinds
  <2>2. CASE kind = "ledger"
    <3>1. Sandbox!InBenchmark(v) /\ SandboxRedirected(v)
      BY <1>1, <2>2 DEF SandboxInv, SandboxDirected, Sandbox!InBenchmark
    <3>2. validation[v].saved = SandboxPrimaries /\ dir["session"] = <<v, validation[v].phase>>
      BY <1>1, <2>2, <3>1 DEF SandboxRedirected
    <3> QED BY <1>3, <1>5, <1>7, <2>2, <3>2 DEF SandboxRedirected, Sandbox!InBenchmark, Sandbox!Kinds
  <2> QED BY <2>1, <2>2 DEF Sandbox!Kinds
<1> QED
  BY <1>1, <1>3, <1>4, <1>7, <1>8, SandboxStepInv DEF SandboxInv, SandboxTyped, SandboxApart

LEMMA SandboxBuildInv ==
    ASSUME Sandbox!SandboxAssumption, SandboxInv, NEW v \in Validations, NEW kind \in Sandbox!Kinds,
           Sandbox!BuildStore(v, kind)
    PROVE  SandboxInv'
<1> DEFINE val == [validation[v] EXCEPT !.pc = Sandbox!WriteOf[kind], !.store = dir[kind]]
<1>1. /\ validation[v].pc = Sandbox!StoreOf[kind]
      /\ exist' = exist \cup {Sandbox!Place(kind, dir[kind])}
      /\ validation' = [validation EXCEPT ![v] = val]
      /\ UNCHANGED <<dir, records, request, meddled>>
  BY DEF Sandbox!BuildStore, Sandbox!Build
<1>2. validation[v] \in SandboxValidating /\ dir \in [Sandbox!Kinds -> Sandbox!Directories]
  BY DEF SandboxInv, SandboxTyped
<1>3. /\ kind = "session" => Sandbox!StoreOf[kind] = "session store" /\ Sandbox!WriteOf[kind] = "save"
      /\ kind = "ledger" => Sandbox!StoreOf[kind] = "ledger store" /\ Sandbox!WriteOf[kind] = "index"
      /\ Sandbox!WriteOf[kind] \in {"save", "index"}
         /\ Sandbox!StoreOf[kind] \in {"session store", "ledger store"}
  BY SandboxStores DEF Sandbox!Kinds
<1>4. val \in SandboxValidating /\ val.pc = Sandbox!WriteOf[kind] /\ val.saved = validation[v].saved
      /\ val.seen = validation[v].seen /\ val.phase = validation[v].phase /\ val.store = dir[kind]
  BY <1>2, <1>3 DEF SandboxValidating, SandboxVirSteps
<1> HIDE DEF val
<1>5. Sandbox!Running(v) /\ Sandbox!InBenchmark(v)
  BY <1>1, <1>3 DEF Sandbox!Running, Sandbox!InBenchmark
<1>6. validation'[v] = val
  BY <1>1, <1>4, <1>5, SandboxAlone
<1>7. validation[v].saved = SandboxPrimaries
      /\ dir["session"] = <<v, validation[v].phase>> /\ dir["ledger"] = <<v, validation[v].phase>>
  BY <1>1, <1>3, <1>5 DEF SandboxInv, SandboxDirected, SandboxRedirected
<1>8. dir[kind] = <<v, validation[v].phase>>
  BY <1>7 DEF Sandbox!Kinds
<1>9. Sandbox!InBenchmark(v)' /\ SandboxRedirected(v)'
  BY <1>1, <1>3, <1>4, <1>6, <1>7, <1>8 DEF SandboxRedirected, Sandbox!InBenchmark
<1>10. exist' \subseteq [kind : Sandbox!Kinds, dir : Sandbox!Directories]
  BY <1>1, <1>2 DEF SandboxInv, SandboxTyped, Sandbox!Place
<1> QED
  BY <1>1, <1>4, <1>5, <1>9, <1>10, SandboxStepInv DEF SandboxInv, SandboxTyped, SandboxApart

LEMMA SandboxWriteInv ==
    ASSUME Sandbox!SandboxAssumption, SandboxInv, NEW v \in Validations, NEW kind \in Sandbox!Kinds,
           Sandbox!WriteRecord(v, kind)
    PROVE  SandboxInv'
<1> DEFINE next == IF kind = "session" THEN "ledger store" ELSE "restore"
           val1 == [validation[v] EXCEPT !.pc = next]
           val2 == [validation[v] EXCEPT !.pc = "restore", !.left = 0]
           rec == [by |-> v, kind |-> kind, dir |-> validation[v].store]
<1>p. 0 \in 0 .. Prompts
  BY DEF Sandbox!SandboxAssumption
<1>0. Sandbox!WriteOf[kind] \in {"save", "index"}
  BY SandboxStores DEF Sandbox!Kinds
<1>1. validation[v].pc \in {"save", "index"} /\ UNCHANGED <<dir, exist, request, meddled>>
  BY <1>0 DEF Sandbox!WriteRecord
<1>2. validation[v] \in SandboxValidating
  BY DEF SandboxInv, SandboxTyped
<1>3. val1 \in SandboxValidating /\ val1.pc = next /\ val1.saved = validation[v].saved
      /\ val1.seen = validation[v].seen /\ val1.phase = validation[v].phase
  BY <1>2 DEF SandboxValidating, SandboxVirSteps
<1>4. val2 \in SandboxValidating /\ val2.pc = "restore" /\ val2.saved = validation[v].saved
      /\ val2.seen = validation[v].seen /\ val2.phase = validation[v].phase
  BY <1>p, <1>2 DEF SandboxValidating, SandboxVirSteps
<1>5. Sandbox!Running(v) /\ Sandbox!InBenchmark(v)
  BY <1>1 DEF Sandbox!Running, Sandbox!InBenchmark
<1>6. /\ validation[v].saved = SandboxPrimaries /\ validation[v].store = <<v, validation[v].phase>>
      /\ dir["session"] = <<v, validation[v].phase>> /\ dir["ledger"] = <<v, validation[v].phase>>
  BY <1>1, <1>5 DEF SandboxInv, SandboxDirected, SandboxRedirected
<1>7. validation[v].store # Primary /\ rec \in Sandbox!Record
  BY <1>2, <1>6, SandboxPlaces DEF SandboxValidating, Sandbox!Record
<1>8. CASE records' = records \cup {rec} /\ validation' = [validation EXCEPT ![v] = val1]
  <2> HIDE DEF val1
  <2>1. validation'[v] = val1
    BY <1>3, <1>5, <1>8, SandboxAlone
  <2>2. Sandbox!InBenchmark(v)' /\ SandboxRedirected(v)'
    BY <1>1, <1>3, <1>6, <2>1 DEF SandboxRedirected, Sandbox!InBenchmark
  <2>3. rec.by = v /\ rec.dir = validation[v].store
    OBVIOUS
  <2> HIDE DEF rec
  <2>4. \A r \in records' : r.by \in Validations => r.dir # Primary
    BY <1>7, <1>8, <2>3 DEF SandboxInv, SandboxApart
  <2> QED BY <1>1, <1>3, <1>5, <1>7, <1>8, <2>2, <2>4, SandboxStepInv DEF SandboxInv, SandboxTyped
<1>9. CASE UNCHANGED records /\ validation' = [validation EXCEPT ![v] = val2]
  <2> HIDE DEF val2
  <2>1. validation'[v] = val2
    BY <1>4, <1>5, <1>9, SandboxAlone
  <2>2. Sandbox!InBenchmark(v)' /\ SandboxRedirected(v)'
    BY <1>1, <1>4, <1>6, <2>1 DEF SandboxRedirected, Sandbox!InBenchmark
  <2> QED BY <1>1, <1>4, <1>5, <1>9, <2>2, SandboxStepInv DEF SandboxInv, SandboxTyped, SandboxApart
<1> QED
  BY <1>8, <1>9 DEF Sandbox!WriteRecord, Sandbox!Write, Sandbox!GoOn, Sandbox!Fail, Sandbox!AfterFailure

\* After a prompt: the next one, or the end.
LEMMA SandboxFollowingTyped ==
    ASSUME Sandbox!SandboxAssumption, NEW old \in SandboxValidating
    PROVE  /\ Sandbox!Following(old) \in SandboxValidating
           /\ Sandbox!Following(old).pc \in {"prompt", "clean up"}
           /\ Sandbox!Following(old).seen = old.seen
<1> DEFINE Made(pc, phase, n) == [old EXCEPT !.pc = pc, !.phase = phase, !.left = n]
           Fine(val) == val \in SandboxValidating /\ val.pc \in {"prompt", "clean up"}
                 /\ val.seen = old.seen
<1>1. Prompts \in Nat /\ old.left \in 0 .. Prompts
  BY DEF SandboxValidating, Sandbox!SandboxAssumption
<1>2. ASSUME NEW n \in 0 .. Prompts, NEW phase \in Sandbox!Phases, NEW pc \in {"prompt", "clean up"}
      PROVE  Fine(Made(pc, phase, n))
  BY DEF SandboxValidating, SandboxVirSteps
<1>3. old.left > 1 => old.left - 1 \in 0 .. Prompts
  BY <1>1
<1>4. "optimized" \in Sandbox!Phases /\ old.phase \in Sandbox!Phases
  BY DEF SandboxValidating, Sandbox!Phases
<1>5. \/ old.left > 1 /\ Sandbox!Following(old) = Made("prompt", old.phase, old.left - 1)
      \/ Sandbox!Following(old) = Made("prompt", "optimized", Prompts)
      \/ Sandbox!Following(old) = Made("clean up", old.phase, 0)
  BY <1>1 DEF Sandbox!Following, SandboxValidating
<1> HIDE DEF Made, Fine
<1>6. Fine(Sandbox!Following(old))
  <2>1. Prompts \in 0 .. Prompts /\ 0 \in 0 .. Prompts
    BY <1>1
  <2>2. old.left > 1 => Fine(Made("prompt", old.phase, old.left - 1))
    BY <1>2, <1>3, <1>4
  <2>3. Fine(Made("prompt", "optimized", Prompts))
    BY <1>2, <1>4, <2>1
  <2>4. Fine(Made("clean up", old.phase, 0))
    BY <1>2, <1>4, <2>1
  <2> QED BY <1>5, <2>2, <2>3, <2>4
<1> QED
  BY <1>6 DEF Fine

LEMMA SandboxRestoreInv ==
    ASSUME Sandbox!SandboxAssumption, SandboxInv, NEW v \in Validations, NEW kind \in Sandbox!Kinds,
           Sandbox!Restore(v, kind)
    PROVE  SandboxInv'
<1> DEFINE val == IF kind = "session" THEN [validation[v] EXCEPT !.pc = "restore ledger"]
      ELSE Sandbox!Following(validation[v])
<1>1. /\ validation[v].pc = IF kind = "session" THEN "restore" ELSE "restore ledger"
      /\ dir' = [dir EXCEPT ![kind] = validation[v].saved[kind]]
      /\ UNCHANGED <<exist, records, request, meddled>>
  BY DEF Sandbox!Restore
<1>2. validation[v] \in SandboxValidating /\ dir \in [Sandbox!Kinds -> Sandbox!Directories]
  BY DEF SandboxInv, SandboxTyped
<1>3. validation' = [validation EXCEPT ![v] = val]
  BY <1>2 DEF Sandbox!Restore, SandboxInv, SandboxTyped
<1>4. Sandbox!Following(validation[v]) \in SandboxValidating
      /\ Sandbox!Following(validation[v]).pc \in {"prompt", "clean up"}
      /\ Sandbox!Following(validation[v]).seen = validation[v].seen
  BY <1>2, SandboxFollowingTyped
<1>5. val \in SandboxValidating /\ val.seen = validation[v].seen
      /\ (kind = "session" => val.pc = "restore ledger" /\ val.saved = validation[v].saved
         /\ val.phase = validation[v].phase)
      /\ (kind = "ledger" => val.pc \in {"prompt", "clean up"})
  <2>1. CASE kind = "session"
    BY <1>2, <2>1 DEF SandboxValidating, SandboxVirSteps
  <2>2. CASE kind = "ledger"
    BY <1>4, <2>2
  <2> QED BY <2>1, <2>2 DEF Sandbox!Kinds
<1> HIDE DEF val
<1>6. Sandbox!Running(v) /\ Sandbox!InBenchmark(v)
  BY <1>1 DEF Sandbox!Running, Sandbox!InBenchmark
<1>7. validation'[v] = val
  BY <1>3, <1>5, <1>6, SandboxAlone
<1>8. SandboxRedirected(v) /\ validation[v].saved = SandboxPrimaries /\ SandboxPrimaries[kind] = Primary
  BY <1>6 DEF SandboxInv, SandboxDirected, SandboxRedirected, SandboxPrimaries
<1>9. dir' \in [Sandbox!Kinds -> Sandbox!Directories] /\ dir'[kind] = Primary
      /\ \A k \in Sandbox!Kinds : k # kind => dir'[k] = dir[k]
  BY <1>1, <1>2, <1>8, SandboxPlaces
<1>10. (~Sandbox!InBenchmark(v)' => dir' = SandboxPrimaries) /\ SandboxRedirected(v)'
  <2>1. CASE kind = "session"
    BY <1>1, <1>5, <1>6, <1>7, <1>8, <1>9, <2>1
      DEF SandboxRedirected, Sandbox!InBenchmark, Sandbox!Kinds
  <2>2. CASE kind = "ledger"
    <3>1. dir["session"] = Primary
      BY <1>1, <1>6, <1>8, <2>2 DEF SandboxRedirected
    <3>2. dir' = SandboxPrimaries
      BY <1>9, <2>2, <3>1 DEF SandboxPrimaries, Sandbox!Kinds
    <3> QED BY <1>5, <1>7, <2>2, <3>2 DEF SandboxRedirected, Sandbox!InBenchmark
  <2> QED BY <2>1, <2>2 DEF Sandbox!Kinds
<1> QED
  BY <1>1, <1>3, <1>5, <1>6, <1>9, <1>10, SandboxStepInv DEF SandboxInv, SandboxTyped, SandboxApart

LEMMA SandboxCleanUpInv ==
    ASSUME Sandbox!SandboxAssumption, SandboxInv, NEW v \in Validations, Sandbox!CleanUp(v)
    PROVE  SandboxInv'
<1> DEFINE val == [validation[v] EXCEPT !.pc = "done"]
<1>1. /\ validation[v].pc = "clean up" /\ validation' = [validation EXCEPT ![v] = val]
      /\ exist' = {p \in exist : p.dir \notin Sandbox!Sandboxes(v)}
      /\ records' = {r \in records : r.dir \notin Sandbox!Sandboxes(v)}
      /\ UNCHANGED <<dir, request, meddled>>
  BY DEF Sandbox!CleanUp, Sandbox!GoOn
<1>2. validation[v] \in SandboxValidating
  BY DEF SandboxInv, SandboxTyped
<1>3. val \in SandboxValidating /\ val.pc = "done" /\ val.seen = validation[v].seen
  BY <1>2 DEF SandboxValidating, SandboxVirSteps
<1> HIDE DEF val
<1>4. Sandbox!Running(v)
  BY <1>1 DEF Sandbox!Running
<1>5. validation'[v] = val /\ \A w \in Validations : w # v => ~Sandbox!InBenchmark(w)
  BY <1>1, <1>3, <1>4, SandboxAlone
<1>6. dir = SandboxPrimaries /\ SandboxRedirected(v)'
  BY <1>1, <1>3, <1>5 DEF SandboxInv, SandboxDirected, Sandbox!InBenchmark, SandboxRedirected
<1>7. Primary \notin Sandbox!Sandboxes(v)
  BY SandboxPlaces
<1>8. \A kind \in Sandbox!Kinds : Sandbox!Place(kind, Primary) \in exist
      => Sandbox!Place(kind, Primary) \in exist'
  BY <1>1, <1>7 DEF Sandbox!Place
<1> QED
  BY <1>1, <1>3, <1>4, <1>6, <1>7, <1>8, SandboxStepInv DEF SandboxInv, SandboxTyped, SandboxApart

------------------------------------------------------------------------------
(* Requests.                                                               *)

\* The invariant after a step of a request, in terms of it alone.
LEMMA SandboxRequestInv ==
    ASSUME Sandbox!SandboxAssumption, SandboxInv, NEW r \in Requests, NEW req \in SandboxRequesting,
           request' = [request EXCEPT ![r] = req], UNCHANGED <<dir, validation>>,
           exist \subseteq exist', exist' \subseteq [kind : Sandbox!Kinds, dir : Sandbox!Directories],
           records \subseteq records', records' \subseteq Sandbox!Record,
           \A new \in records' \ records : new.by = r,
           meddled \subseteq meddled', meddled' \subseteq Requests,
           SandboxKept(r)'
    PROVE  SandboxInv'
<1>1. request'[r] = req /\ request' \in [Requests -> SandboxRequesting]
      /\ \A q \in Requests : q # r => request'[q] = request[q]
  BY DEF SandboxInv, SandboxTyped
<1>2. SandboxTyped'
  BY <1>1 DEF SandboxInv, SandboxTyped
<1>3. SandboxOneRuns'
  BY DEF SandboxInv, SandboxOneRuns, Sandbox!Running
<1>4. SandboxDirected'
  BY DEF SandboxInv, SandboxDirected, SandboxRedirected, Sandbox!InBenchmark
<1>5. r \notin Validations
  BY DEF Sandbox!SandboxAssumption
<1>6. SandboxApart'
  BY <1>5 DEF SandboxInv, SandboxApart
<1>7. ASSUME NEW q \in Requests, q # r PROVE SandboxKept(q)'
  BY <1>1, <1>7 DEF SandboxInv, SandboxKept, SandboxLogged
<1> QED
  BY <1>2, <1>3, <1>4, <1>6, <1>7 DEF SandboxInv

LEMMA SandboxOpenInv ==
    ASSUME Sandbox!SandboxAssumption, SandboxInv, NEW r \in Requests, NEW kind \in Sandbox!Kinds,
           Sandbox!OpenStore(r, kind)
    PROVE  SandboxInv'
<1> DEFINE req == [pc |-> Sandbox!WriteOf[kind], store |-> dir[kind]]
<1>1. /\ request[r].pc = Sandbox!StoreOf[kind] /\ request' = [request EXCEPT ![r] = req]
      /\ exist' = exist \cup {Sandbox!Place(kind, dir[kind])}
      /\ meddled' = IF \E v \in Validations : Sandbox!InBenchmark(v) THEN meddled \cup {r} ELSE meddled
      /\ UNCHANGED <<dir, records, validation>>
  BY DEF Sandbox!OpenStore, Sandbox!Build
<1>2. dir \in [Sandbox!Kinds -> Sandbox!Directories]
  BY DEF SandboxInv, SandboxTyped
<1>3. /\ kind = "session" => Sandbox!StoreOf[kind] = "session store" /\ Sandbox!WriteOf[kind] = "save"
      /\ kind = "ledger" => Sandbox!StoreOf[kind] = "ledger store" /\ Sandbox!WriteOf[kind] = "index"
  BY SandboxStores DEF Sandbox!Kinds
<1>4. req \in SandboxRequesting /\ req.pc = Sandbox!WriteOf[kind] /\ req.store = dir[kind]
  BY <1>2, <1>3 DEF SandboxRequesting, Sandbox!Kinds
<1> HIDE DEF req
<1>5. request'[r] = req
  BY <1>1 DEF SandboxInv, SandboxTyped
<1>6. exist' \subseteq [kind : Sandbox!Kinds, dir : Sandbox!Directories] /\ exist \subseteq exist'
  BY <1>1, <1>2 DEF SandboxInv, SandboxTyped, Sandbox!Place
<1>7. meddled \subseteq meddled' /\ meddled' \subseteq Requests
  BY <1>1 DEF SandboxInv, SandboxTyped
<1>8. SandboxKept(r)'
  <2> SUFFICES ASSUME r \notin meddled' PROVE SandboxKept(r)'
    BY DEF SandboxKept
  <2>1. r \notin meddled /\ dir = SandboxPrimaries
    BY <1>1 DEF SandboxInv, SandboxDirected
  <2>2. dir[kind] = Primary
    BY <2>1 DEF SandboxPrimaries
  <2>3. Sandbox!Place(kind, Primary) \in exist'
    BY <1>1, <2>2
  <2>4. CASE kind = "session"
    BY <1>3, <1>4, <1>5, <2>2, <2>3, <2>4 DEF SandboxKept
  <2>5. CASE kind = "ledger"
    <3>1. SandboxLogged(r, "session")'
      BY <1>1, <1>3, <2>1, <2>5 DEF SandboxInv, SandboxKept, SandboxLogged
    <3> QED BY <1>3, <1>4, <1>5, <2>2, <2>3, <2>5, <3>1 DEF SandboxKept
  <2> QED BY <2>4, <2>5 DEF Sandbox!Kinds
<1> QED
  BY <1>1, <1>4, <1>6, <1>7, <1>8, SandboxRequestInv DEF SandboxInv, SandboxTyped

LEMMA SandboxPersistInv ==
    ASSUME Sandbox!SandboxAssumption, SandboxInv, NEW r \in Requests, NEW kind \in Sandbox!Kinds,
           Sandbox!Persist(r, kind)
    PROVE  SandboxInv'
<1> DEFINE next == IF kind = "session" THEN "ledger store" ELSE "done"
           req == [request[r] EXCEPT !.pc = next]
           store == request[r].store
           rec == [by |-> r, kind |-> kind, dir |-> store]
<1>1. /\ request[r].pc = Sandbox!WriteOf[kind] /\ request' = [request EXCEPT ![r] = req]
      /\ records' = IF Sandbox!Place(kind, store) \in exist THEN records \cup {rec} ELSE records
      /\ UNCHANGED <<dir, exist, validation, meddled>>
  BY DEF Sandbox!Persist, Sandbox!Write, Sandbox!Writable
<1>2. request[r] \in SandboxRequesting
  BY DEF SandboxInv, SandboxTyped
<1>3. /\ kind = "session" => Sandbox!WriteOf[kind] = "save"
      /\ kind = "ledger" => Sandbox!WriteOf[kind] = "index"
  BY SandboxStores DEF Sandbox!Kinds
<1>4. req \in SandboxRequesting /\ req.pc = next
  BY <1>2 DEF SandboxRequesting
<1>5. rec \in Sandbox!Record /\ rec.by = r
  BY <1>2 DEF Sandbox!Record, SandboxRequesting
<1> HIDE DEF req
<1>6. request'[r] = req
  BY <1>1 DEF SandboxInv, SandboxTyped
<1>7. records \subseteq records' /\ records' \subseteq Sandbox!Record
      /\ \A new \in records' \ records : new.by = r
  BY <1>1, <1>5 DEF SandboxInv, SandboxTyped
<1>8. SandboxKept(r)'
  <2> SUFFICES ASSUME r \notin meddled' PROVE SandboxKept(r)'
    BY DEF SandboxKept
  <2>1. r \notin meddled /\ SandboxKept(r)
    BY <1>1 DEF SandboxInv
  <2>2. store = Primary /\ Sandbox!Place(kind, Primary) \in exist
    BY <1>1, <1>3, <2>1 DEF SandboxKept, Sandbox!Kinds
  <2>3. SandboxLogged(r, kind)'
    BY <1>1, <2>2 DEF SandboxLogged
  <2>4. CASE kind = "session"
    BY <1>4, <1>6, <2>3, <2>4 DEF SandboxKept
  <2>5. CASE kind = "ledger"
    <3>1. SandboxLogged(r, "session")
      BY <1>1, <1>3, <2>1, <2>5 DEF SandboxKept
    <3>2. SandboxLogged(r, "session")'
      BY <1>7, <3>1 DEF SandboxLogged
    <3> QED BY <1>4, <1>6, <2>3, <2>5, <3>2 DEF SandboxKept
  <2> QED BY <2>4, <2>5 DEF Sandbox!Kinds
<1> QED
  BY <1>1, <1>4, <1>7, <1>8, SandboxRequestInv DEF SandboxInv, SandboxTyped

\* Every step keeps the invariant.
LEMMA SandboxNextInv == ASSUME Sandbox!SandboxAssumption, SandboxInv, Sandbox!Next PROVE SandboxInv'
<1>1. ASSUME NEW v \in Validations, Sandbox!Analyse(v) \/ Sandbox!CreateSandbox(v)
      \/ Sandbox!SaveDirs(v) \/ Sandbox!CleanUp(v) PROVE SandboxInv'
  BY <1>1, SandboxAnalyseInv, SandboxCreateInv, SandboxSaveDirsInv, SandboxCleanUpInv
<1>2. ASSUME NEW v \in Validations, NEW kind \in Sandbox!Kinds,
             Sandbox!Redirect(v, kind) \/ Sandbox!BuildStore(v, kind) \/ Sandbox!WriteRecord(v, kind)
                   \/ Sandbox!Restore(v, kind)
      PROVE  SandboxInv'
  BY <1>2, SandboxRedirectInv, SandboxBuildInv, SandboxWriteInv, SandboxRestoreInv
<1>3. ASSUME NEW r \in Requests, NEW kind \in Sandbox!Kinds, Sandbox!OpenStore(r, kind)
      \/ Sandbox!Persist(r, kind) PROVE SandboxInv'
  BY <1>3, SandboxOpenInv, SandboxPersistInv
<1> QED
  BY <1>1, <1>2, <1>3 DEF Sandbox!Next

\* A step that changes nothing of it keeps the invariant.
LEMMA SandboxStutterInv == ASSUME SandboxInv, UNCHANGED Sandbox!vars PROVE SandboxInv'
  BY DEF Sandbox!vars, SandboxInv, SandboxTyped, SandboxOneRuns, Sandbox!Running, SandboxDirected,
         SandboxRedirected, Sandbox!InBenchmark, SandboxApart, SandboxKept, SandboxLogged

------------------------------------------------------------------------------
(* The improvement cycle (Analysis.tla).                                   *)

\* The finite sets of the instance are the finite sets.
LEMMA AnalysisSets == \A S : (Analysis!IsFiniteSet(S) <=> IsFiniteSet(S))
      /\ Analysis!Cardinality(S) = Cardinality(S)
  BY DEF Analysis!IsFiniteSet, IsFiniteSet, Analysis!Cardinality, Cardinality

\* So are what is kept, reversed, and in a list.
LEMMA AnalysisLists ==
    /\ \A list, wanted : Analysis!Keep(list, wanted) = Keep(list, wanted)
    /\ \A list : Analysis!ToSet(list) = ToSet(list) /\ Analysis!Reverse(list) = Reverse(list)
<1>1. ASSUME NEW list, NEW wanted PROVE Analysis!Keep(list, wanted) = Keep(list, wanted)
  BY DEF Analysis!Keep, Keep, Analysis!FoldLeft, FoldLeft, Analysis!MapThenFoldSet, MapThenFoldSet,
         Analysis!Max, Max
<1>2. ASSUME NEW list PROVE Analysis!ToSet(list) = ToSet(list) /\ Analysis!Reverse(list) = Reverse(list)
  BY DEF Analysis!ToSet, ToSet, Analysis!Reverse, Reverse
<1> QED
  BY <1>1, <1>2

\* A rounded mean of numbers up to k is none above k.
LEMMA AnalysisRoundedBounded ==
    ASSUME NEW k \in Nat, NEW d \in Nat \ {0}, NEW x \in 0 .. (k * d)
    PROVE  Analysis!Rounded(x, d) \in 0 .. k
<1> DEFINE e == 2 * d
           y == 2 * x + d
           m == k * d
<1>1. e \in Nat \ {0} /\ y \in Nat /\ m \in Nat /\ y <= 2 * m + d
  <2> HIDE DEF m
  <2>1. m \in Nat
    BY DEF m
  <2>2. x \in 0 .. m
    BY DEF m
  <2> QED BY <2>1, <2>2
<1>2. (k + 1) * e = 2 * m + 2 * d
  OBVIOUS
<1>3. y < (k + 1) * e
  <2> HIDE DEF m, y, e
  <2>1. d > 0 /\ 2 * m + d < 2 * m + 2 * d
    BY <1>1
  <2>2. (k + 1) * e \in Int
    BY <1>1, <1>2
  <2> QED BY <1>1, <1>2, <2>1, <2>2
<1>4. y \div e \in 0 .. k
  <2> HIDE DEF y, e
  <2> DEFINE q == y \div e
  <2>1. q \in Int /\ q * e <= y /\ y < (q + 1) * e
    BY <1>1
  <2> HIDE DEF q
  <2>2. q >= 0
    <3> SUFFICES ASSUME q + 1 <= 0 PROVE FALSE
      BY <2>1
    <3>1. (q + 1) * e <= 0
      BY <1>1, <2>1
    <3> QED BY <1>1, <2>1, <3>1
  <2>3. q <= k
    <3> SUFFICES ASSUME q >= k + 1 PROVE FALSE
      BY <2>1
    <3>1. q * e >= (k + 1) * e
      BY <1>1, <2>1
    <3> QED BY <1>1, <1>3, <2>1, <3>1
  <2> QED BY <2>1, <2>2, <2>3 DEF q
<1> QED
  BY <1>4 DEF Analysis!Rounded

\* A sum of numbers up to k is at most k for each that is not 0.
LEMMA AnalysisSumOfSparse ==
    ASSUME NEW S, IsFiniteSet(S), NEW k \in Nat, NEW f \in [S -> 0 .. k],
           NEW T \in SUBSET S, \A x \in S \ T : f[x] = 0
    PROVE  Analysis!SumOf(f) \in 0 .. (k * Cardinality(T))
<1> DEFINE D == DOMAIN f
           iter == CHOOSE iter : iter = Adding(D, f, iter)
<1>1. D = S /\ f \in [D -> 0 .. k] /\ f \in [D -> Nat] /\ T \in SUBSET D /\ IsFiniteSet(D)
  <2>1. 0 .. k \subseteq Nat /\ D = S
    OBVIOUS
  <2> HIDE DEF D
  <2> QED BY <2>1
<1>2. Analysis!SumOf(f) = iter[D]
  BY DEF Analysis!SumOf, Analysis!SumFunction, Analysis!SumFunctionOnSet, Analysis!FoldFunctionOnSet,
         Analysis!MapThenFoldSet, Some, Adding
<1>3. iter \in Sums(D, f)
  <2> HIDE DEF D
  <2> QED BY <1>1, SumIterates
<1>4. \A x \in D \ T : f[x] = 0
  OBVIOUS
<1> HIDE DEF iter, D
<1>5. iter[D] \in 0 .. (k * Cardinality(T))
  BY <1>1, <1>3, <1>4, SumSparse
<1> QED
  BY <1>2, <1>5

------------------------------------------------------------------------------
\* The agreement of a session is a fraction.
LEMMA AnalysisAgreementIs ==
    ASSUME NEW s, Analysis!IsSession(s)
    PROVE  Analysis!Agreement(s) \in Analysis!Scale
<1> DEFINE A == s.agents
           n == Cardinality(A)
           c == Cardinality(Doubles(A))
           f == s.apart
<1>0. PICK h \in Nat : h = 10000
  OBVIOUS
<1>1. /\ IsFiniteSet(A) /\ n >= 2
      /\ f \in [Pairs(A) -> 0 .. h] /\ \A a \in A : f[{a}] = 0
  <2>1. Analysis!PairsOf(A) = Pairs(A) /\ Analysis!Scale = 0 .. h
    BY <1>0 DEF Analysis!PairsOf, Pairs, Analysis!Scale
  <2> HIDE DEF A, f
  <2>2. IsFiniteSet(A) /\ n >= 2 /\ f \in [Analysis!PairsOf(A) -> Analysis!Scale]
        /\ \A a \in A : f[{a}] = 0
    BY AnalysisSets DEF Analysis!IsSession, A, f
  <2> QED BY <2>1, <2>2
<1>2. n \in Nat /\ c \in Nat /\ IsFiniteSet(Pairs(A)) /\ 2 * c = n * (n - 1)
  <2> HIDE DEF A
  <2> QED BY <1>1, FS_CardinalityType, DoublesFinite, DoublesCounted
<1>3. Analysis!PairCount(s) = c /\ c \in Nat \ {0}
  <2>1. Analysis!PairCount(s) = (2 * c) \div 2
    BY <1>2, AnalysisSets DEF Analysis!PairCount
  <2>2. n * (n - 1) >= 2
    <3> HIDE DEF n
    <3> QED BY <1>1, <1>2
  <2> HIDE DEF c, n
  <2> QED BY <1>2, <2>1, <2>2
<1>4. Analysis!Total(s) \in 0 .. (h * c)
  <2> HIDE DEF A
  <2>1. \A x \in Pairs(A) \ Doubles(A) : f[x] = 0
    BY <1>1 DEF Doubles
  <2>2. Doubles(A) \in SUBSET Pairs(A)
    BY DEF Doubles
  <2>3. Analysis!Total(s) = Analysis!SumOf(f)
    BY DEF Analysis!Total
  <2> HIDE DEF f
  <2>4. Analysis!SumOf(f) \in 0 .. (h * c)
    BY <1>1, <1>2, <2>1, <2>2, AnalysisSumOfSparse
  <2> QED BY <2>3, <2>4
<1> HIDE DEF c
<1>5. Analysis!Rounded(Analysis!Total(s), c) \in 0 .. h
  BY <1>3, <1>4, AnalysisRoundedBounded
<1>6. Analysis!Agreement(s) = h - Analysis!Rounded(Analysis!Total(s), c)
  BY <1>0, <1>3 DEF Analysis!Agreement
<1>7. h - Analysis!Rounded(Analysis!Total(s), c) \in 0 .. h
  BY <1>5
<1>8. Analysis!Scale = 0 .. h
  BY <1>0 DEF Analysis!Scale
<1> QED
  BY <1>6, <1>7, <1>8

\* So is its drift.
LEMMA AnalysisDriftIs ==
    ASSUME NEW s, Analysis!IsSession(s)
    PROVE  Analysis!Drift(s) \in Analysis!Scale
<1> DEFINE A == s.agents
           n == Cardinality(A)
           f == s.headless
<1>0. PICK h \in Nat : h = 10000
  OBVIOUS
<1>1. IsFiniteSet(A) /\ n >= 2 /\ f \in [A -> 0 .. h] /\ s.ncg \in BOOLEAN
  <2>1. Analysis!Scale = 0 .. h
    BY <1>0 DEF Analysis!Scale
  <2> QED BY <2>1, AnalysisSets DEF Analysis!IsSession
<1>2. n \in Nat \ {0} /\ A \in SUBSET A /\ \A x \in A \ A : f[x] = 0
  <2>1. n \in Nat
    BY <1>1, FS_CardinalityType
  <2> QED BY <1>1, <2>1
<1>3. Analysis!Drift(s) = IF s.ncg THEN Analysis!Rounded(Analysis!SumOf(f), n) ELSE 0
  BY AnalysisSets DEF Analysis!Drift
<1> HIDE DEF A, f
<1>4. Analysis!SumOf(f) \in 0 .. (h * n)
  BY <1>1, <1>2, AnalysisSumOfSparse
<1> HIDE DEF n
<1>5. Analysis!Rounded(Analysis!SumOf(f), n) \in 0 .. h
  BY <1>2, <1>4, AnalysisRoundedBounded
<1>6. Analysis!Drift(s) \in 0 .. h
  BY <1>3, <1>5
<1>7. Analysis!Scale = 0 .. h
  BY <1>0 DEF Analysis!Scale
<1> QED
  BY <1>6, <1>7

\* The confidence, out of four parts of agreement, three of the drift that there
\* is not and three of the quorum.
LEMMA AnalysisConfidenceIs ==
    ASSUME NEW h \in Nat, NEW a \in 0 .. h, NEW d \in 0 .. h, NEW q \in {0, 3 * h}, NEW e \in {10, 20}
    PROVE  Analysis!Rounded(4 * a + 3 * (h - d) + q, e) \in 0 .. h
<1> DEFINE x == 4 * a + 3 * (h - d) + q
<1>1. x \in 0 .. (10 * h)
  OBVIOUS
<1>2. x \in 0 .. (h * e) /\ e \in Nat \ {0}
  <2> HIDE DEF x
  <2> QED BY <1>1
<1> HIDE DEF x
<1>3. Analysis!Rounded(x, e) \in 0 .. h
  BY <1>2, AnalysisRoundedBounded
<1> QED
  BY <1>3 DEF x

------------------------------------------------------------------------------
\* What the analysis relies on in an entry.
AnalysisIsEntry(e) ==
    /\ e.grade \in {"strong", "acceptable", "weak", "suspicious"}
    /\ e.confidence \in Analysis!Scale
    /\ e.signals \subseteq Analysis!SignalTypes /\ e.outliers \subseteq e.agents
    /\ e.grade = "suspicious" => "suspicious_consensus" \in e.signals
    /\ e.squeezed => "compression" \in e.signals

AnalysisRecords == {Analysis!Entry(Analysis!Report(s)) : s \in Sessions}

\* A suspicious session is one of a silent collapse, which raises its signal.
LEMMA AnalysisEntryIs ==
    ASSUME Analysis!AnalysisAssumption, NEW e \in AnalysisRecords
    PROVE  AnalysisIsEntry(e)
<1>1. PICK s \in Sessions : e = Analysis!Entry(Analysis!Report(s))
  BY DEF AnalysisRecords
<1>0. PICK h \in Nat : h = 10000
  OBVIOUS
<1> DEFINE r == Analysis!Report(s)
<1>2. /\ r.agreement = Analysis!Agreement(s) /\ r.drift = Analysis!Drift(s) /\ r.quorum = s.quorum
      /\ r.agents = s.agents
      /\ r.outliers = Analysis!Outliers(s) /\ r.compressed = Analysis!Compressed(s)
      /\ r.dissent = Analysis!HighDissent(s)
      /\ r.collapse = Analysis!Collapse(s, Analysis!Agreement(s), Analysis!Drift(s))
  BY DEF Analysis!Report
<1>3. /\ Analysis!IsSession(s) /\ r.agreement \in 0 .. h /\ r.drift \in 0 .. h
      /\ s.ncg \in BOOLEAN /\ s.quorum \in BOOLEAN
  <2> HIDE DEF r
  <2>1. Analysis!IsSession(s)
    BY DEF Analysis!AnalysisAssumption
  <2>2. r.agreement \in Analysis!Scale /\ r.drift \in Analysis!Scale
    BY <1>2, <2>1, AnalysisAgreementIs, AnalysisDriftIs
  <2>3. s.ncg \in BOOLEAN /\ s.quorum \in BOOLEAN
    BY <2>1 DEF Analysis!IsSession
  <2>4. Analysis!Scale = 0 .. h
    BY <1>0 DEF Analysis!Scale
  <2> QED BY <2>1, <2>2, <2>3, <2>4
<1>o. r.outliers \subseteq r.agents
  BY <1>2 DEF Analysis!Outliers
<1>4. ~ s.ncg => r.drift = 0
  BY <1>2 DEF Analysis!Drift
<1>5. r.collapse <=> (s.ncg /\ r.agreement > 8000 /\ r.drift > 3000)
  <2>1. r.collapse = Analysis!Collapse(s, r.agreement, r.drift)
    BY <1>2
  <2> DEFINE A == r.agreement > 8000
             B == r.drift > 3000
  <2>2. Analysis!Collapse(s, r.agreement, r.drift) = (s.ncg /\ A /\ B)
    BY DEF Analysis!Collapse
  <2> HIDE DEF A, B, r
  <2>3. r.collapse <=> (s.ncg /\ A /\ B)
    BY <2>1, <2>2, Zenon
  <2> QED BY <2>3 DEF A, B
<1>6. /\ e.grade = Analysis!Grade(r) /\ e.confidence = Analysis!Confidence(r) /\ e.agents = r.agents
      /\ e.outliers = r.outliers /\ e.signals = {type \in Analysis!SignalTypes : Analysis!Raised(r,
         type)}
      /\ e.squeezed = (r.compressed /\ r.agreement > 8000)
  BY <1>1 DEF Analysis!Entry
<1>s. e.squeezed => r.compressed
  <2> DEFINE A == r.agreement > 8000
  <2>1. e.squeezed = (r.compressed /\ A)
    BY <1>6
  <2> HIDE DEF A, r
  <2> QED BY <2>1, Zenon
<1> HIDE DEF r
<1>7. Analysis!Confidence(r) \in Analysis!Scale
  <2>1. PICK q \in {0, 3 * h} : q = IF r.quorum THEN 30000 ELSE 0
    BY <1>0
  <2>2. PICK d \in {10, 20} : d = IF r.collapse THEN 20 ELSE 10
    OBVIOUS
  <2>3. Analysis!Confidence(r) = Analysis!Rounded(4 * r.agreement + 3 * (h - r.drift) + q, d)
    BY <1>0, <2>1, <2>2 DEF Analysis!Confidence
  <2>4. Analysis!Rounded(4 * r.agreement + 3 * (h - r.drift) + q, d) \in 0 .. h
    BY <1>3, AnalysisConfidenceIs
  <2>5. Analysis!Scale = 0 .. h
    BY <1>0 DEF Analysis!Scale
  <2> QED BY <2>3, <2>4, <2>5
<1>8. /\ Analysis!Grade(r) \in {"strong", "acceptable", "weak", "suspicious"}
      /\ Analysis!Grade(r) = "suspicious" => r.collapse
  BY <1>3, <1>4, <1>5 DEF Analysis!Grade
<1>9. /\ r.collapse => Analysis!Raised(r, "suspicious_consensus")
      /\ r.compressed => Analysis!Raised(r, "compression")
  BY DEF Analysis!Raised
<1> QED
  BY <1>o, <1>6, <1>s, <1>7, <1>8, <1>9 DEF AnalysisIsEntry, Analysis!SignalTypes

------------------------------------------------------------------------------
\* Not more is read than the limit, and nothing that is torn.
LEMMA AnalysisRecentIs ==
    ASSUME Analysis!AnalysisAssumption, NEW list \in Seq(AnalysisRecords \cup {Torn})
    PROVE  Analysis!Recent(list) \in Seq(AnalysisRecords) /\ Len(Analysis!Recent(list)) <= Limit
<1> DEFINE S == AnalysisRecords \cup {Torn}
           newest == Reverse(list)
           most == IF Len(newest) < Limit THEN Len(newest) ELSE Limit
           latest == SubSeq(newest, 1, most)
           wanted == ToSet(latest) \ {Torn}
           kept == Keep(latest, wanted)
<1>1. newest \in Seq(S)
  <2>1. \A i \in 1 .. Len(list) : Len(list) - i + 1 \in 1 .. Len(list)
    OBVIOUS
  <2> QED BY <2>1 DEF Reverse
<1>2. most \in Nat /\ most <= Limit /\ most <= Len(newest)
  <2> HIDE DEF newest, S
  <2> QED BY <1>1 DEF Analysis!AnalysisAssumption
<1>3. latest \in Seq(S) /\ Len(latest) <= Limit
  <2> HIDE DEF newest, S, most
  <2>1. \A i \in 1 .. most : newest[i] \in S
    BY <1>1, <1>2
  <2> QED BY <1>2, <2>1
<1>4. Analysis!Recent(list) = kept
  <2>1. Analysis!Reverse(list) = newest /\ Analysis!ToSet(latest) = ToSet(latest)
    BY AnalysisLists
  <2>2. Analysis!Keep(latest, wanted) = kept
    BY AnalysisLists
  <2>3. Analysis!Recent(list) = Analysis!Keep(latest, wanted)
    BY <2>1 DEF Analysis!Recent
  <2> QED BY <2>2, <2>3
<1> HIDE DEF latest
<1>5. kept \in Seq(S) /\ ToSet(kept) = ToSet(latest) \cap wanted
  <2> HIDE DEF wanted, S
  <2> QED BY <1>3, KeepElements
<1>6. Len(kept) <= Len(latest)
  <2>1. PICK e \in Origins(kept, latest, wanted, Len(latest)) : TRUE
    <3> HIDE DEF wanted, S
    <3> QED BY <1>3, KeepOrigins
  <2> HIDE DEF kept, S
  <2>2. \A k \in 1 .. Len(kept) : k <= e[k] /\ e[k] \in 1 .. Len(latest)
    BY <2>1 DEF Origins
  <2>3. Len(kept) \in Nat /\ Len(latest) \in Nat
    BY <1>3, <1>5
  <2>4. Len(kept) = 0 \/ Len(kept) \in 1 .. Len(kept)
    BY <2>3
  <2> QED BY <2>2, <2>3, <2>4
<1>7. \A i \in 1 .. Len(kept) : kept[i] \in AnalysisRecords
  <2> HIDE DEF kept
  <2>1. \A i \in 1 .. Len(kept) : kept[i] \in ToSet(kept)
    BY <1>5 DEF ToSet
  <2>2. \A i \in 1 .. Len(kept) : kept[i] \in S /\ kept[i] # Torn
    BY <1>5, <2>1
  <2> QED BY <2>2
<1> HIDE DEF kept
<1>8. kept \in Seq(AnalysisRecords)
  BY <1>5, <1>7
<1>9. Len(kept) <= Limit
  BY <1>3, <1>5, <1>6 DEF Analysis!AnalysisAssumption
<1> QED
  BY <1>4, <1>8, <1>9

\* A trend is one of three.
LEMMA AnalysisTrendIs ==
    ASSUME NEW entries
    PROVE  Analysis!Trend(entries) \in {"improving", "declining", "stable"}
<1>1. Analysis!HalvesDiffer(entries) \in {"up", "down", "no"}
  BY DEF Analysis!HalvesDiffer
<1> QED
  BY <1>1 DEF Analysis!Trend

\* Something is counted if it is there.
LEMMA AnalysisCountIs ==
    ASSUME NEW entries \in Seq(AnalysisRecords), NEW T \in SUBSET (DOMAIN entries)
    PROVE  Cardinality(T) > 0 <=> T # {}
<1>1. IsFiniteSet(DOMAIN entries)
  <2>1. DOMAIN entries = 1 .. Len(entries) /\ Len(entries) \in Nat
    OBVIOUS
  <2> QED BY <2>1, FS_Interval
<1>2. IsFiniteSet(T)
  BY <1>1, FS_Subset
<1>3. Cardinality(T) \in Nat /\ (Cardinality(T) = 0 <=> T = {})
  BY <1>2, FS_CardinalityType, FS_EmptySet
<1> QED
  BY <1>3

\* A signal that was raised in what was read.
AnalysisSeen(entries, type) == \E i \in DOMAIN entries : type \in entries[i].signals

LEMMA AnalysisTimesIs ==
    ASSUME NEW entries \in Seq(AnalysisRecords), NEW type
    PROVE  Analysis!Times(entries, type) > 0 <=> AnalysisSeen(entries, type)
<1> DEFINE T == {i \in DOMAIN entries : type \in entries[i].signals}
<1>1. Analysis!Times(entries, type) = Cardinality(T)
  BY AnalysisSets DEF Analysis!Times, Analysis!Count
<1>2. Cardinality(T) > 0 <=> T # {}
  <2>1. T \in SUBSET (DOMAIN entries)
    OBVIOUS
  <2> HIDE DEF T
  <2> QED BY <2>1, AnalysisCountIs
<1> QED
  BY <1>1, <1>2 DEF AnalysisSeen

------------------------------------------------------------------------------
\* Only one signal leads to the thresholds, and none to a configuration of the
\* agents that is in the source.
LEMMA AnalysisRulesAre ==
    ASSUME NEW type \in Analysis!SignalTypes, NEW rule \in Analysis!SignalCodeMap[type]
    PROVE  /\ rule.category = "agent_config" => rule.module = "agents"
           /\ rule.category = "threshold" =>
                 rule.module \in {"dissent", "drift"}
                       \/ (rule.module = "aggregator" /\ type = "suspicious_consensus")
<1>1. CASE type = "persistent_outlier"
  BY <1>1 DEF Analysis!SignalCodeMap, Analysis!Rule
<1>2. CASE type = "suspicious_consensus"
  BY <1>2 DEF Analysis!SignalCodeMap, Analysis!Rule
<1>3. CASE type = "compression"
  BY <1>3 DEF Analysis!SignalCodeMap, Analysis!Rule
<1>4. CASE type = "agent_degradation"
  BY <1>4 DEF Analysis!SignalCodeMap, Analysis!Rule
<1>5. CASE type = "healthy_dissent"
  BY <1>5 DEF Analysis!SignalCodeMap
<1> QED
  BY <1>1, <1>2, <1>3, <1>4, <1>5 DEF Analysis!SignalTypes

LEMMA AnalysisThresholdsAre ==
    /\ Analysis!Thresholds = {"QUORUM_THRESHOLD", "SIMILARITY_THRESHOLD"}
    /\ Analysis!InSource["agents"] = {} /\ Analysis!InSource["dissent"] \cap Analysis!Thresholds = {}
    /\ Analysis!InSource["drift"] \cap Analysis!Thresholds = {}
       /\ Analysis!InSource["aggregator"] = Analysis!Thresholds
  BY DEF Analysis!Thresholds, Analysis!Strategies, Analysis!InSource

\* A place in the source answers a signal that was seen, and a threshold in it is
\* one of the two of the aggregator.
LEMMA AnalysisTargetsAre ==
    ASSUME NEW entries \in Seq(AnalysisRecords), NEW t \in Analysis!Targets(entries)
    PROVE  /\ AnalysisSeen(entries, t.signal) /\ t.category # "agent_config"
           /\ t.category = "threshold" /\ t.name \in Analysis!Thresholds =>
                 t.module = "aggregator" /\ t.signal = "suspicious_consensus"
<1> DEFINE Of(type) == UNION {Analysis!Places(type, rule) : rule \in Analysis!SignalCodeMap[type]}
<1>1. PICK type \in {u \in Analysis!SignalTypes : Analysis!Times(entries, u) > 0} : t \in Of(type)
  BY DEF Analysis!Targets
<1>2. PICK rule \in Analysis!SignalCodeMap[type] : t \in Analysis!Places(type, rule)
  BY <1>1
<1>3. /\ t.module = rule.module /\ t.category = rule.category /\ t.signal = type
      /\ t.name \in Analysis!InSource[rule.module]
  BY <1>2 DEF Analysis!Places
<1>4. type \in Analysis!SignalTypes /\ AnalysisSeen(entries, type)
  BY <1>1, AnalysisTimesIs
<1>5. /\ rule.category = "agent_config" => rule.module = "agents"
      /\ rule.category = "threshold" =>
            rule.module \in {"dissent", "drift"}
                  \/ (rule.module = "aggregator" /\ type = "suspicious_consensus")
  BY <1>4, AnalysisRulesAre
<1> QED
  BY <1>3, <1>4, <1>5, AnalysisThresholdsAre

\* And a suspicious consensus that was seen leads to both.
LEMMA AnalysisTargetsHave ==
    ASSUME NEW entries \in Seq(AnalysisRecords), AnalysisSeen(entries, "suspicious_consensus"),
           NEW name \in Analysis!Thresholds
    PROVE  [module |-> "aggregator", name |-> name, category |-> "threshold",
           signal |-> "suspicious_consensus"]
               \in Analysis!Targets(entries)
<1> DEFINE type == "suspicious_consensus"
           rule == Analysis!Rule("aggregator", {"QUORUM_THRESHOLD", "SIMILARITY_THRESHOLD"},
                 "threshold")
           t == [module |-> "aggregator", name |-> name, category |-> "threshold", signal |-> type]
           Of(u) == UNION {Analysis!Places(u, r) : r \in Analysis!SignalCodeMap[u]}
<1>1. type \in {u \in Analysis!SignalTypes : Analysis!Times(entries, u) > 0}
  BY AnalysisTimesIs DEF Analysis!SignalTypes
<1>2. rule \in Analysis!SignalCodeMap[type]
  BY DEF Analysis!SignalCodeMap
<1>3. rule.module = "aggregator" /\ rule.category = "threshold"
      /\ name \in rule.names \cap Analysis!InSource[rule.module]
  BY AnalysisThresholdsAre DEF Analysis!Rule
<1>4. t \in Analysis!Places(type, rule)
  <2> HIDE DEF rule
  <2> QED BY <1>3 DEF Analysis!Places
<1> HIDE DEF rule, type
<1>5. t \in Of(type)
  BY <1>2, <1>4
<1> HIDE DEF t
<1>6. t \in Analysis!Targets(entries)
  BY <1>1, <1>5 DEF Analysis!Targets
<1> QED
  BY <1>6 DEF t, type

------------------------------------------------------------------------------
(* The three kinds of proposals that are ever made.                        *)

AnalysisStrategy(name) == Analysis!Strategies[name].suspicious_consensus

\* A change of a threshold.
AnalysisUpdate(name, values) ==
    [module |-> "aggregator", name |-> name, signal |-> "suspicious_consensus", priority |-> "critical",
     value |-> Analysis!Moved(values[name], AnalysisStrategy(name)), change |-> "parameter_update"]
AnalysisUpdates(values) == {AnalysisUpdate(name,
      values) : name \in {n \in Analysis!Thresholds : Analysis!Moved(values[n],
            AnalysisStrategy(n)) # values[n]}}

\* A rewritten prompt.
AnalysisTuning(trend) ==
    [module |-> "orchestrator", name |-> "run_orchestration_async", signal |-> "compression",
     priority |-> IF trend = "declining" THEN "high"
           ELSE "medium", value |-> 0, change |-> "prompt_rewrite"]

\* A function taken apart.
AnalysisRefactoring(h) ==
    [module |-> h[1], name |-> h[2], signal |-> "complexity_hotspot", priority |-> "low", value |-> 0,
     change |-> "architecture_refactor"]

LEMMA AnalysisStrategiesAre ==
    /\ AnalysisStrategy("QUORUM_THRESHOLD") = [up |-> TRUE, min |-> 50, max |-> 90]
    /\ AnalysisStrategy("SIMILARITY_THRESHOLD") = [up |-> FALSE, min |-> 30, max |-> 80]
    /\ \A name \in Analysis!Thresholds :
          /\ "suspicious_consensus" \in DOMAIN Analysis!Strategies[name]
          /\ Analysis!Strategies[name]["suspicious_consensus"] = AnalysisStrategy(name)
    /\ Analysis!PriorityOf["suspicious_consensus"] = "critical"
<1>1. Analysis!PriorityOf["suspicious_consensus"] = "critical"
  BY DEF Analysis!PriorityOf
<1>2. /\ AnalysisStrategy("QUORUM_THRESHOLD") = [up |-> TRUE, min |-> 50, max |-> 90]
      /\ "suspicious_consensus" \in DOMAIN Analysis!Strategies["QUORUM_THRESHOLD"]
  BY DEF AnalysisStrategy, Analysis!Strategies
<1>3. /\ AnalysisStrategy("SIMILARITY_THRESHOLD") = [up |-> FALSE, min |-> 30, max |-> 80]
      /\ "suspicious_consensus" \in DOMAIN Analysis!Strategies["SIMILARITY_THRESHOLD"]
  BY DEF AnalysisStrategy, Analysis!Strategies
<1>4. ASSUME NEW name PROVE Analysis!Strategies[name]["suspicious_consensus"] = AnalysisStrategy(name)
  BY DEF AnalysisStrategy
<1> QED
  BY <1>1, <1>2, <1>3, <1>4, AnalysisThresholdsAre

\* The proposals for thresholds are their changes.
LEMMA AnalysisUpdatesAre ==
    ASSUME NEW entries \in Seq(AnalysisRecords), NEW values
    PROVE  /\ Analysis!ThresholdProposals(Analysis!Targets(entries),
              values) \subseteq AnalysisUpdates(values)
           /\ Analysis!ThresholdProposals(Analysis!Targets(entries), values) # {}
              => AnalysisSeen(entries, "suspicious_consensus")
           /\ AnalysisSeen(entries, "suspicious_consensus") =>
                 AnalysisUpdates(values) \subseteq Analysis!ThresholdProposals(Analysis!Targets(entries), values)
<1> DEFINE T == Analysis!Targets(entries)
           Moves(u) ==
               /\ u.category = "threshold" /\ u.name \in Analysis!Thresholds
                  /\ u.signal \in DOMAIN Analysis!Strategies[u.name]
               /\ Analysis!Moved(values[u.name], Analysis!Strategies[u.name][u.signal]) # values[u.name]
           Made(t) == Analysis!Proposal(t, Analysis!PriorityOf[t.signal], Analysis!Moved(values[t.name],
                 Analysis!Strategies[t.name][t.signal]),
                               "parameter_update")
<1>1. Analysis!ThresholdProposals(T, values) = {Made(t) : t \in {u \in T : Moves(u)}}
  BY DEF Analysis!ThresholdProposals
<1>2. ASSUME NEW t \in T, Moves(t)
      PROVE  /\ t.name \in Analysis!Thresholds /\ t.module = "aggregator"
             /\ t.signal = "suspicious_consensus"
             /\ AnalysisSeen(entries, "suspicious_consensus")
  BY <1>2, AnalysisTargetsAre
<1>3. ASSUME NEW t, t.name \in Analysis!Thresholds, t.module = "aggregator",
      t.signal = "suspicious_consensus"
      PROVE  Made(t) = AnalysisUpdate(t.name, values)
  <2>1. Analysis!PriorityOf[t.signal] = "critical"
        /\ Analysis!Strategies[t.name][t.signal] = AnalysisStrategy(t.name)
    BY <1>3, AnalysisStrategiesAre
  <2> QED BY <1>3, <2>1 DEF Analysis!Proposal, AnalysisUpdate
<1>4. ASSUME NEW t \in T, Moves(t)
      PROVE Analysis!Moved(values[t.name], AnalysisStrategy(t.name)) # values[t.name]
  <2>1. Analysis!Strategies[t.name][t.signal] = AnalysisStrategy(t.name)
    BY <1>2, <1>4, AnalysisStrategiesAre
  <2> QED BY <1>4, <2>1
<1>5. ASSUME AnalysisSeen(entries, "suspicious_consensus"), NEW name \in Analysis!Thresholds,
             Analysis!Moved(values[name], AnalysisStrategy(name)) # values[name]
      PROVE  \E t \in T : Moves(t) /\ t.name = name /\ t.module = "aggregator"
             /\ t.signal = "suspicious_consensus"
  <2> DEFINE t == [module |-> "aggregator", name |-> name, category |-> "threshold",
                   signal |-> "suspicious_consensus"]
  <2>1. t \in T
    BY <1>5, AnalysisTargetsHave
  <2>2. t.category = "threshold" /\ t.name = name /\ t.module = "aggregator"
        /\ t.signal = "suspicious_consensus"
    OBVIOUS
  <2> HIDE DEF t, T
  <2>3. Moves(t)
    BY <1>5, <2>2, AnalysisStrategiesAre
  <2> QED BY <2>1, <2>2, <2>3
<1> HIDE DEF T, Moves, Made
<1>6. ASSUME NEW p \in Analysis!ThresholdProposals(T, values)
      PROVE  p \in AnalysisUpdates(values) /\ AnalysisSeen(entries, "suspicious_consensus")
  <2>1. PICK t \in T : Moves(t) /\ p = Made(t)
    BY <1>1, <1>6
  <2>2. p = AnalysisUpdate(t.name, values) /\ t.name \in Analysis!Thresholds
    BY <1>2, <1>3, <2>1
  <2> QED BY <1>2, <1>4, <2>1, <2>2 DEF AnalysisUpdates
<1>7. ASSUME AnalysisSeen(entries, "suspicious_consensus"), NEW p \in AnalysisUpdates(values)
      PROVE  p \in Analysis!ThresholdProposals(T, values)
  <2>1. PICK name \in Analysis!Thresholds : p = AnalysisUpdate(name, values)
        /\ Analysis!Moved(values[name], AnalysisStrategy(name)) # values[name]
    BY DEF AnalysisUpdates
  <2>2. PICK t \in T : Moves(t) /\ t.name = name /\ t.module = "aggregator"
        /\ t.signal = "suspicious_consensus"
    BY <1>5, <1>7, <2>1
  <2>3. p = Made(t)
    BY <1>3, <2>1, <2>2
  <2> QED BY <1>1, <2>2, <2>3
<1> QED
  BY <1>6, <1>7 DEF T

\* A squeezed session gives the one target of the tokens.
LEMMA AnalysisTuningIs ==
    ASSUME Analysis!AnalysisAssumption, NEW entries \in Seq(AnalysisRecords),
           NEW p \in Analysis!TokenProposals(Analysis!TokenTargets(entries))
    PROVE  /\ p = Analysis!Proposal([module |-> "orchestrator", name |-> "run_orchestration_async",
                            category |-> "token_tuning", signal |-> "compression"], "medium", 0,
                                  "prompt_rewrite")
           /\ AnalysisSeen(entries, "compression")
<1> DEFINE T == {i \in DOMAIN entries : entries[i].squeezed}
<1>1. Analysis!Count(entries, LAMBDA e : e.squeezed) = Cardinality(T)
  BY AnalysisSets DEF Analysis!Count
<1>2. Cardinality(T) > 0 <=> T # {}
  <2>1. T \in SUBSET (DOMAIN entries)
    OBVIOUS
  <2> HIDE DEF T
  <2> QED BY <2>1, AnalysisCountIs
<1>3. PICK t \in Analysis!TokenTargets(entries) : p = Analysis!Proposal(t, "medium", 0,
      "prompt_rewrite")
  BY DEF Analysis!TokenProposals
<1>4. /\ Cardinality(T) > 0
      /\ t = [module |-> "orchestrator", name |-> "run_orchestration_async",
              category |-> "token_tuning", signal |-> "compression"]
  <2> HIDE DEF T
  <2> QED BY <1>1, <1>3 DEF Analysis!TokenTargets
<1>5. PICK i \in DOMAIN entries : entries[i].squeezed
  BY <1>2, <1>4
<1>6. AnalysisIsEntry(entries[i])
  BY AnalysisEntryIs
<1>7. "compression" \in entries[i].signals
  BY <1>5, <1>6 DEF AnalysisIsEntry
<1> QED
  BY <1>3, <1>4, <1>7 DEF AnalysisSeen

\* What is proposed of an analysis of some entries, and why.
AnalysisReasoned(c) ==
    /\ \A p \in c.batch :
          \/ p \in AnalysisUpdates(c.source) /\ AnalysisSeen(c.read, "suspicious_consensus")
          \/ p = AnalysisTuning(c.trend) /\ AnalysisSeen(c.read, "compression")
          \/ (\E h \in Analysis!Hotspots : p = AnalysisRefactoring(h))
             /\ \E rec \in c.recs : rec.severity # "info"
    /\ AnalysisSeen(c.read, "suspicious_consensus") => AnalysisUpdates(c.source) \subseteq c.batch

LEMMA AnalysisBatchReasoned ==
    ASSUME Analysis!AnalysisAssumption, NEW entries \in Seq(AnalysisRecords), NEW trend, NEW values,
           NEW recs, NEW more, NEW c,
           c.read = entries, c.source = values, c.trend = trend, c.recs = recs \cup more,
           c.batch = Analysis!Proposals(Analysis!Introspection(entries), trend, values, recs)
    PROVE  AnalysisReasoned(c)
<1> DEFINE found == Analysis!Introspection(entries)
           A == Analysis!ThresholdProposals(Analysis!Targets(entries), values)
           B == Analysis!AgentProposals(Analysis!Targets(entries))
           C == Analysis!TokenProposals(Analysis!TokenTargets(entries))
           D == Analysis!ArchitectureProposals(recs, Analysis!Hotspots)
           Urgent(p) == IF p.priority = "medium" /\ trend = "declining"
                 THEN [p EXCEPT !.priority = "high"] ELSE p
<1>1. c.batch = {Urgent(p) : p \in A \cup B \cup C \cup D}
  BY DEF Analysis!Proposals, Analysis!Introspection, Analysis!Escalated
<1>2. B = {}
  BY AnalysisTargetsAre DEF Analysis!AgentProposals
<1>3. ASSUME NEW p \in A
      PROVE  Urgent(p) = p /\ p \in AnalysisUpdates(values)
             /\ AnalysisSeen(entries, "suspicious_consensus")
  <2>1. p \in AnalysisUpdates(values) /\ AnalysisSeen(entries, "suspicious_consensus")
    BY <1>3, AnalysisUpdatesAre
  <2>2. p.priority = "critical"
    BY <2>1 DEF AnalysisUpdates, AnalysisUpdate
  <2> QED BY <2>1, <2>2
<1>4. ASSUME NEW p \in C PROVE Urgent(p) = AnalysisTuning(trend) /\ AnalysisSeen(entries, "compression")
  <2>1. /\ AnalysisSeen(entries, "compression")
        /\ p = Analysis!Proposal([module |-> "orchestrator", name |-> "run_orchestration_async",
                         category |-> "token_tuning", signal |-> "compression"], "medium", 0,
                               "prompt_rewrite")
    BY <1>4, AnalysisTuningIs
  <2>2. p = [module |-> "orchestrator", name |-> "run_orchestration_async", signal |-> "compression",
             priority |-> "medium", value |-> 0, change |-> "prompt_rewrite"]
    BY <2>1 DEF Analysis!Proposal
  <2>3. Urgent(p) = AnalysisTuning(trend)
    BY <2>2 DEF AnalysisTuning
  <2> QED BY <2>1, <2>3
<1>5. ASSUME NEW p \in D
      PROVE  Urgent(p) = p /\ (\E h \in Analysis!Hotspots : p = AnalysisRefactoring(h))
             /\ \E rec \in recs : rec.severity # "info"
  <2>1. PICK rec \in recs : rec.severity \in {"warning", "critical"}
    BY <1>5 DEF Analysis!ArchitectureProposals
  <2>2. PICK h \in Analysis!Hotspots :
            p = Analysis!Proposal([module |-> h[1], name |-> h[2], signal |-> "complexity_hotspot"],
                  "low", 0,
                         "architecture_refactor")
    BY <1>5, <2>1 DEF Analysis!ArchitectureProposals
  <2>3. p = AnalysisRefactoring(h)
    BY <2>2 DEF Analysis!Proposal, AnalysisRefactoring
  <2>4. p.priority = "low"
    BY <2>3 DEF AnalysisRefactoring
  <2> QED BY <2>1, <2>3, <2>4
<1>6. AnalysisSeen(entries, "suspicious_consensus") => AnalysisUpdates(values) \subseteq A
  BY AnalysisUpdatesAre
<1> HIDE DEF A, B, C, D, Urgent
<1>7. ASSUME NEW p \in c.batch
      PROVE  \/ p \in AnalysisUpdates(c.source) /\ AnalysisSeen(c.read, "suspicious_consensus")
             \/ p = AnalysisTuning(c.trend) /\ AnalysisSeen(c.read, "compression")
             \/ (\E h \in Analysis!Hotspots : p = AnalysisRefactoring(h))
                /\ \E rec \in c.recs : rec.severity # "info"
  <2>1. PICK q \in A \cup B \cup C \cup D : p = Urgent(q)
    BY <1>1, <1>7
  <2>2. CASE q \in A
    BY <1>3, <2>1, <2>2
  <2>3. CASE q \in C
    BY <1>4, <2>1, <2>3
  <2>4. CASE q \in D
    BY <1>5, <2>1, <2>4
  <2> QED BY <1>2, <2>1, <2>2, <2>3, <2>4
<1>8. ASSUME AnalysisSeen(c.read, "suspicious_consensus"), NEW p \in AnalysisUpdates(c.source)
      PROVE p \in c.batch
  <2>1. p \in A
    BY <1>6, <1>8
  <2> QED BY <1>1, <1>3, <2>1
<1> QED
  BY <1>7, <1>8 DEF AnalysisReasoned

------------------------------------------------------------------------------
\* The thresholds are within the bounds of their strategies.
AnalysisWithin(values) ==
    /\ values \in [Analysis!Thresholds -> Int]
    /\ \A name \in Analysis!Thresholds : values[name] \in AnalysisStrategy(name).min .. AnalysisStrategy(name).max

\* A threshold that moves does so within the bounds, in the direction of its
\* strategy, and one that does not is at its limit.
LEMMA AnalysisMovedIs ==
    ASSUME NEW values, AnalysisWithin(values), NEW name \in Analysis!Thresholds
    PROVE  LET new == Analysis!Moved(values[name], AnalysisStrategy(name)) IN
           /\ new \in AnalysisStrategy(name).min .. AnalysisStrategy(name).max
           /\ new # values[name] => IF AnalysisStrategy(name).up THEN new > values[name]
              ELSE new < values[name]
           /\ new = values[name] =>
                 values[name] = IF AnalysisStrategy(name).up THEN AnalysisStrategy(name).max
                       ELSE AnalysisStrategy(name).min
<1>1. CASE name = "QUORUM_THRESHOLD"
  BY <1>1, AnalysisStrategiesAre DEF AnalysisWithin, Analysis!Moved
<1>2. CASE name = "SIMILARITY_THRESHOLD"
  BY <1>2, AnalysisStrategiesAre DEF AnalysisWithin, Analysis!Moved
<1> QED
  BY <1>1, <1>2, AnalysisThresholdsAre

AnalysisInv ==
    /\ ledger \in Seq(AnalysisRecords \cup {Torn})
    /\ AnalysisWithin(source) /\ AnalysisWithin(cycle.source)
    /\ cycle.read \in Seq(AnalysisRecords) /\ Len(cycle.read) <= Limit
    /\ cycle.trend \in {"improving", "declining", "stable"}
    /\ AnalysisReasoned(cycle)
    /\ adopted \in 0 .. MaxAdopted

\* What there is a reason for is backed, and answers what was suspicious.
LEMMA AnalysisInvHolds ==
    ASSUME Analysis!AnalysisAssumption, AnalysisInv
    PROVE  Analysis!TypeOK /\ Analysis!ProposalsRight
<1>1. Analysis!TypeOK
  <2>1. \A i \in DOMAIN ledger : ledger[i] # Torn => AnalysisIsEntry(ledger[i])
    BY AnalysisEntryIs DEF AnalysisInv
  <2>2. source \in [Analysis!Thresholds -> 0 .. 100]
    <3>1. \A name \in Analysis!Thresholds : source[name] \in AnalysisStrategy(name).min .. AnalysisStrategy(name).max
      BY DEF AnalysisInv, AnalysisWithin
    <3>2. source["QUORUM_THRESHOLD"] \in 0 .. 100
      BY <3>1, AnalysisThresholdsAre, AnalysisStrategiesAre
    <3>3. source["SIMILARITY_THRESHOLD"] \in 0 .. 100
      BY <3>1, AnalysisThresholdsAre, AnalysisStrategiesAre
    <3> QED BY <3>2, <3>3, AnalysisThresholdsAre DEF AnalysisInv, AnalysisWithin
  <2> QED BY <2>1, <2>2 DEF AnalysisInv, Analysis!TypeOK, AnalysisIsEntry
<1>2. ASSUME NEW p \in AnalysisUpdates(cycle.source)
      PROVE  /\ p = AnalysisUpdate(p.name, cycle.source) /\ p.name \in Analysis!Thresholds
             /\ p.signal = "suspicious_consensus"
             /\ p.change = "parameter_update" /\ p.priority = "critical"
             /\ p.value \in Analysis!Strategies[p.name][p.signal].min .. Analysis!Strategies[p.name][p.signal].max
             /\ IF Analysis!Strategies[p.name][p.signal].up THEN p.value > cycle.source[p.name]
                                                   ELSE p.value < cycle.source[p.name]
  <2>1. PICK name \in Analysis!Thresholds :
            p = AnalysisUpdate(name, cycle.source)
                  /\ Analysis!Moved(cycle.source[name], AnalysisStrategy(name)) # cycle.source[name]
    BY DEF AnalysisUpdates
  <2>2. /\ p.name = name /\ p.signal = "suspicious_consensus" /\ p.change = "parameter_update"
        /\ p.priority = "critical" /\ p.value = Analysis!Moved(cycle.source[name],
           AnalysisStrategy(name))
    BY <2>1 DEF AnalysisUpdate
  <2>3. AnalysisWithin(cycle.source) /\ Analysis!Strategies[p.name][p.signal] = AnalysisStrategy(name)
    BY <2>2, AnalysisStrategiesAre DEF AnalysisInv
  <2> QED BY <2>1, <2>2, <2>3, AnalysisMovedIs
<1>3. ASSUME NEW p, p = AnalysisTuning(cycle.trend)
      PROVE  p.change = "prompt_rewrite" /\ p.signal = "compression"
  BY <1>3 DEF AnalysisTuning
<1>4. ASSUME NEW h, NEW p, p = AnalysisRefactoring(h)
      PROVE  /\ p.change = "architecture_refactor" /\ p.signal = "complexity_hotspot"
             /\ p.module = h[1] /\ p.name = h[2]
  BY <1>4 DEF AnalysisRefactoring
<1>5. \A p \in cycle.batch :
          \/ p \in AnalysisUpdates(cycle.source) /\ AnalysisSeen(cycle.read, "suspicious_consensus")
          \/ p = AnalysisTuning(cycle.trend) /\ AnalysisSeen(cycle.read, "compression")
          \/ (\E h \in Analysis!Hotspots : p = AnalysisRefactoring(h))
             /\ \E rec \in cycle.recs : rec.severity # "info"
  BY DEF AnalysisInv, AnalysisReasoned
<1>6. ASSUME NEW p \in cycle.batch, p.change = "parameter_update"
      PROVE p \in AnalysisUpdates(cycle.source)
  BY <1>3, <1>4, <1>5, <1>6
<1>7. ASSUME NEW p \in cycle.batch
      PROVE  \/ \E i \in DOMAIN cycle.read : p.signal \in cycle.read[i].signals
             \/ p.signal = "complexity_hotspot" /\ \E rec \in cycle.recs : rec.severity # "info"
  <2>1. CASE p \in AnalysisUpdates(cycle.source) /\ AnalysisSeen(cycle.read, "suspicious_consensus")
    BY <1>2, <2>1 DEF AnalysisSeen
  <2>2. CASE p = AnalysisTuning(cycle.trend) /\ AnalysisSeen(cycle.read, "compression")
    BY <1>3, <2>2 DEF AnalysisSeen
  <2>3. CASE (\E h \in Analysis!Hotspots : p = AnalysisRefactoring(h))
        /\ \E rec \in cycle.recs : rec.severity # "info"
    BY <1>4, <2>3
  <2> QED BY <1>5, <2>1, <2>2, <2>3
<1>8. ASSUME NEW p \in cycle.batch, NEW q \in cycle.batch,
             p.module = q.module, p.name = q.name, p.change = q.change
      PROVE  p = q
  <2>1. CASE p \in AnalysisUpdates(cycle.source)
    BY <1>2, <1>6, <1>8, <2>1
  <2>2. CASE p = AnalysisTuning(cycle.trend)
    BY <1>2, <1>3, <1>4, <1>5, <1>8, <2>2
  <2>3. ASSUME NEW h \in Analysis!Hotspots, p = AnalysisRefactoring(h) PROVE p = q
    <3>1. PICK g \in Analysis!Hotspots : q = AnalysisRefactoring(g)
      BY <1>2, <1>3, <1>4, <1>5, <1>8, <2>3
    <3>2. h[1] = g[1] /\ h[2] = g[2]
      BY <1>4, <1>8, <2>3, <3>1
    <3> QED BY <2>3, <3>1, <3>2 DEF AnalysisRefactoring
  <2> QED BY <1>5, <2>1, <2>2, <2>3
<1>9. Analysis!ProposalsBacked
  BY <1>2, <1>6, <1>7, <1>8 DEF Analysis!ProposalsBacked
<1>10. Analysis!SuspicionAnswered
  <2> SUFFICES ASSUME NEW i \in DOMAIN cycle.read, cycle.read[i].grade = "suspicious",
        NEW name \in Analysis!Thresholds
               PROVE  \/ \E p \in cycle.batch : p.name = name /\ p.priority = "critical"
                      \/ cycle.source[name] = IF AnalysisStrategy(name).up
                         THEN AnalysisStrategy(name).max ELSE AnalysisStrategy(name).min
    BY DEF Analysis!SuspicionAnswered, AnalysisStrategy
  <2>1. AnalysisIsEntry(cycle.read[i])
    BY AnalysisEntryIs DEF AnalysisInv
  <2>2. AnalysisSeen(cycle.read, "suspicious_consensus")
    BY <2>1 DEF AnalysisIsEntry, AnalysisSeen
  <2>3. AnalysisUpdates(cycle.source) \subseteq cycle.batch /\ AnalysisWithin(cycle.source)
    BY <2>2 DEF AnalysisInv, AnalysisReasoned
  <2>4. CASE Analysis!Moved(cycle.source[name], AnalysisStrategy(name)) # cycle.source[name]
    <3> DEFINE p == AnalysisUpdate(name, cycle.source)
    <3>1. p \in cycle.batch
      BY <2>3, <2>4 DEF AnalysisUpdates
    <3>2. p.name = name /\ p.priority = "critical"
      BY DEF AnalysisUpdate
    <3> QED BY <3>1, <3>2
  <2>5. CASE Analysis!Moved(cycle.source[name], AnalysisStrategy(name)) = cycle.source[name]
    BY <2>3, <2>5, AnalysisMovedIs
  <2> QED BY <2>4, <2>5
<1> QED
  BY <1>1, <1>9, <1>10 DEF Analysis!ProposalsRight

------------------------------------------------------------------------------
\* Nothing is read yet, and the thresholds are as they are shipped.
LEMMA AnalysisInitInv == ASSUME Analysis!AnalysisAssumption, Analysis!Init PROVE AnalysisInv
<1>1. AnalysisWithin(source)
  <2>1. source \in [{"QUORUM_THRESHOLD", "SIMILARITY_THRESHOLD"} -> Int]
        /\ source["QUORUM_THRESHOLD"] = 66 /\ source["SIMILARITY_THRESHOLD"] = 50
    BY DEF Analysis!Init
  <2> QED BY <2>1, AnalysisThresholdsAre, AnalysisStrategiesAre DEF AnalysisWithin
<1>2. /\ cycle.source = source /\ cycle.read = <<>> /\ cycle.trend = "stable" /\ cycle.batch = {}
      /\ ledger = <<>> /\ adopted = 0
  BY DEF Analysis!Init
<1>3. AnalysisReasoned(cycle)
  BY <1>2 DEF AnalysisReasoned, AnalysisSeen
<1>4. Len(cycle.read) <= Limit /\ cycle.read \in Seq(AnalysisRecords)
      /\ ledger \in Seq(AnalysisRecords \cup {Torn})
  BY <1>2 DEF Analysis!AnalysisAssumption
<1> QED
  BY <1>1, <1>2, <1>3, <1>4 DEF AnalysisInv, Analysis!AnalysisAssumption

\* What is indexed is a record, or torn.
LEMMA AnalysisIndexInv ==
    ASSUME AnalysisInv, NEW e \in AnalysisRecords \cup {Torn}, ledger' = Append(ledger, e),
           UNCHANGED <<source, cycle, adopted>>
    PROVE  AnalysisInv'
<1>1. ledger' \in Seq(AnalysisRecords \cup {Torn})
  BY DEF AnalysisInv
<1> QED
  BY <1>1 DEF AnalysisInv, AnalysisWithin, AnalysisReasoned

\* What is proposed comes of what is read.
LEMMA AnalysisAnalyseInv ==
    ASSUME Analysis!AnalysisAssumption, AnalysisInv, Analysis!Analyse
    PROVE  AnalysisInv'
<1> DEFINE entries == Analysis!Recent(ledger)
           recs == Analysis!Recommendations(entries)
           trend == Analysis!Trend(entries)
           batch == Analysis!Proposals(Analysis!Introspection(entries), trend, source, recs)
<1>1. PICK c : c = [read |-> entries, source |-> source, trend |-> trend,
                    recs |-> recs \cup Analysis!CodeRecommendations(batch), batch |-> batch]
  OBVIOUS
<1>2. cycle' = c /\ UNCHANGED <<ledger, source, adopted>>
  BY <1>1 DEF Analysis!Analyse
<1>3. entries \in Seq(AnalysisRecords) /\ Len(entries) <= Limit
  BY AnalysisRecentIs DEF AnalysisInv
<1>4. trend \in {"improving", "declining", "stable"}
  BY AnalysisTrendIs
<1>5. /\ c.read = entries /\ c.source = source /\ c.trend = trend
      /\ c.recs = recs \cup Analysis!CodeRecommendations(batch)
      /\ c.batch = Analysis!Proposals(Analysis!Introspection(entries), trend, source, recs)
  BY <1>1
<1> HIDE DEF entries, recs, trend, batch
<1>6. AnalysisReasoned(c)
  BY <1>3, <1>5, AnalysisBatchReasoned
<1>7. AnalysisReasoned(cycle')
  BY <1>2, <1>6
<1> QED
  BY <1>2, <1>3, <1>4, <1>5, <1>7 DEF AnalysisInv, AnalysisWithin, AnalysisReasoned

\* What is adopted moves a threshold within its bounds.
LEMMA AnalysisAdoptInv ==
    ASSUME Analysis!AnalysisAssumption, AnalysisInv, NEW p \in cycle.batch, Analysis!Adopt(p)
    PROVE  AnalysisInv'
<1>1. p.change = "parameter_update" /\ source' = [source EXCEPT ![p.name] = p.value]
      /\ UNCHANGED <<ledger, cycle>> /\ adopted < MaxAdopted /\ adopted' = adopted + 1
  BY DEF Analysis!Adopt
<1>2. p \in AnalysisUpdates(cycle.source)
  BY <1>1 DEF AnalysisInv, AnalysisReasoned, AnalysisTuning, AnalysisRefactoring
<1>3. PICK name \in Analysis!Thresholds : p = AnalysisUpdate(name, cycle.source)
  BY <1>2 DEF AnalysisUpdates
<1>4. p.name = name /\ p.value = Analysis!Moved(cycle.source[name], AnalysisStrategy(name))
  BY <1>3 DEF AnalysisUpdate
<1>5. p.value \in AnalysisStrategy(name).min .. AnalysisStrategy(name).max
  BY <1>4, AnalysisMovedIs DEF AnalysisInv
<1>6. p.value \in Int
  BY <1>5, AnalysisThresholdsAre, AnalysisStrategiesAre
<1>7. AnalysisWithin(source)'
  BY <1>1, <1>4, <1>5, <1>6 DEF AnalysisInv, AnalysisWithin
<1>8. adopted' \in 0 .. MaxAdopted
  BY <1>1 DEF AnalysisInv, Analysis!AnalysisAssumption
<1> QED
  BY <1>1, <1>7, <1>8 DEF AnalysisInv, AnalysisWithin, AnalysisReasoned

\* Every step keeps the invariant.
LEMMA AnalysisNextInv ==
    ASSUME Analysis!AnalysisAssumption, AnalysisInv, Analysis!Next
    PROVE  AnalysisInv'
<1>1. ASSUME NEW s \in Sessions, Analysis!Index(s) PROVE AnalysisInv'
  <2>1. Analysis!Entry(Analysis!Report(s)) \in AnalysisRecords \cup {Torn}
    BY DEF AnalysisRecords
  <2> QED BY <1>1, <2>1, AnalysisIndexInv DEF Analysis!Index
<1>2. ASSUME Analysis!TearEntry PROVE AnalysisInv'
  BY <1>2, AnalysisIndexInv DEF Analysis!TearEntry
<1> QED
  BY <1>1, <1>2, AnalysisAnalyseInv, AnalysisAdoptInv DEF Analysis!Next

\* A step that changes nothing of it keeps the invariant.
LEMMA AnalysisStutterInv == ASSUME AnalysisInv, UNCHANGED Analysis!vars PROVE AnalysisInv'
  BY DEF AnalysisInv, AnalysisWithin, AnalysisReasoned, Analysis!vars

------------------------------------------------------------------------------
(* Ingestion (Whirlpool.tla).  What is fed is queued, taken or counted.    *)

\* The finite sets of the instance are the finite sets.
LEMMA WhirlpoolSets == \A S : (Whirlpool!IsFiniteSet(S) <=> IsFiniteSet(S))
  BY DEF Whirlpool!IsFiniteSet, IsFiniteSet

WhirlpoolPhases == {"new", "open", "feed", "fetch", "close", "done", "cancelled"}
WhirlpoolCalls == [pc : WhirlpoolPhases, at : Nat, feed : Nat, total : Nat,
      taken : [Whirlpool!Places -> Seq(Nat)],
          stats : Seq(Whirlpool!Stats), failures : Nat]

------------------------------------------------------------------------------
(* Sums.                                                                   *)

\* A total is a sum.
LEMMA WhirlpoolTotalIs ==
    ASSUME NEW S, IsFiniteSet(S), NEW f \in [S -> Nat]
    PROVE  \E g \in Sums(S, f) : Whirlpool!Total(f) = g[S]
<1> DEFINE sums == CHOOSE iter : iter = Adding(S, f, iter)
           D == DOMAIN f
<1>1. D = S
  OBVIOUS
<1>2. Whirlpool!Total(f) = (CHOOSE iter : iter = Adding(D, f, iter))[D]
  BY DEF Whirlpool!Total, Whirlpool!SumFunction, Whirlpool!SumFunctionOnSet,
         Whirlpool!FoldFunctionOnSet, Whirlpool!MapThenFoldSet, Some, Adding
<1> HIDE DEF D
<1>3. Whirlpool!Total(f) = sums[S]
  BY <1>1, <1>2
<1>4. sums \in Sums(S, f)
  BY SumIterates
<1> HIDE DEF sums
<1> QED
  BY <1>3, <1>4

\* A total is a number, nothing adds up to nothing, and equals add up to equals.
LEMMA WhirlpoolTotalTyped ==
    ASSUME NEW S, IsFiniteSet(S), NEW f \in [S -> Nat]
    PROVE  Whirlpool!Total(f) \in Nat /\ ((\A x \in S : f[x] = 0) => Whirlpool!Total(f) = 0)
<1>1. PICK g \in Sums(S, f) : Whirlpool!Total(f) = g[S]
  BY WhirlpoolTotalIs
<1> QED
  BY <1>1, SumUnique

\* What a total is after one summand has changed.
LEMMA WhirlpoolTotalChanged ==
    ASSUME NEW S, IsFiniteSet(S), NEW f \in [S -> Nat], NEW h \in [S -> Nat], NEW x \in S,
           \A y \in S : y # x => f[y] = h[y]
    PROVE  /\ Whirlpool!Total(f) + h[x] = Whirlpool!Total(h) + f[x] /\ Whirlpool!Total(f) \in Nat
              /\ Whirlpool!Total(h) \in Nat
<1>1. PICK g \in Sums(S, f) : Whirlpool!Total(f) = g[S]
  BY WhirlpoolTotalIs
<1>2. PICK k \in Sums(S, h) : Whirlpool!Total(h) = k[S]
  BY WhirlpoolTotalIs
<1>3. g[S] + h[x] = k[S] + f[x]
  BY <1>1, <1>2, SumChanged
<1> QED
  BY <1>1, <1>2, <1>3, WhirlpoolTotalTyped

\* What a total is after one summand has come to nothing.
LEMMA WhirlpoolTotalAdded ==
    ASSUME NEW S, IsFiniteSet(S), NEW f \in [S -> Nat], NEW h \in [S -> Nat], NEW x \in S,
           NEW n \in Nat,
           \A y \in S : y # x => f[y] = h[y], f[x] = n, h[x] = 0
    PROVE  Whirlpool!Total(f) = Whirlpool!Total(h) + n
<1>1. Whirlpool!Total(f) + h[x] = Whirlpool!Total(h) + f[x] /\ Whirlpool!Total(f) \in Nat
      /\ Whirlpool!Total(h) \in Nat
  BY WhirlpoolTotalChanged
<1> QED
  BY <1>1

\* Sources, adapters and calls are finitely many.
LEMMA WhirlpoolFinite ==
    ASSUME Whirlpool!WhirlpoolAssumption
    PROVE  IsFiniteSet(Whirlpool!Sources) /\ IsFiniteSet(Whirlpool!Places) /\ IsFiniteSet(Cycles)
           /\ Len(Adapters) \in Nat /\ Whirlpool!Places = 1 .. Len(Adapters)
<1>1. Len(Adapters) \in Nat /\ Whirlpool!Places = 1 .. Len(Adapters)
  BY LenProperties DEF Whirlpool!WhirlpoolAssumption, Whirlpool!Places
<1>2. IsFiniteSet(Whirlpool!Places)
  BY <1>1, FS_Interval
<1> DEFINE Of(i) == {f.source : f \in Whirlpool!ToSet(Adapters[i].feeds)}
           Each == {Of(i) : i \in Whirlpool!Places}
<1>3. ASSUME NEW i \in Whirlpool!Places PROVE IsFiniteSet(Of(i))
  <2> DEFINE feeds == Adapters[i].feeds
             D == 1 .. Len(feeds)
             host == [k \in D |-> feeds[k].source]
  <2>1. feeds \in Seq(Whirlpool!ToSet(feeds))
    BY DEF Whirlpool!WhirlpoolAssumption
  <2>2. Len(feeds) \in Nat /\ DOMAIN feeds = D
    <3> HIDE DEF feeds
    <3> QED BY <2>1, LenProperties
  <2>3. IsFiniteSet(D)
    BY <2>2, FS_Interval
  <2>4. Of(i) = {feeds[k].source : k \in D}
    BY <2>2 DEF Whirlpool!ToSet
  <2> HIDE DEF D, feeds, Of
  <2>5. host \in Surjection(D, Of(i))
    BY <2>4 DEF Surjection
  <2> HIDE DEF host
  <2> QED BY <2>3, <2>5, FS_Surjection
<1> HIDE DEF Of
<1>4. IsFiniteSet(Each)
  <2> DEFINE of == [i \in Whirlpool!Places |-> Of(i)]
  <2>1. of \in Surjection(Whirlpool!Places, Each)
    BY DEF Surjection
  <2> HIDE DEF of, Each
  <2> QED BY <1>2, <2>1, FS_Surjection
<1>5. IsFiniteSet(UNION Each)
  <2>1. \A d \in Each : IsFiniteSet(d)
    BY <1>3
  <2> HIDE DEF Each
  <2> QED BY <1>4, <2>1, FS_UNION
<1>6. Whirlpool!Sources = {Whirlpool!Own} \cup (UNION Each)
  BY DEF Whirlpool!Sources, Of
<1> HIDE DEF Each
<1>7. IsFiniteSet(Whirlpool!Sources)
  <2>1. IsFiniteSet({Whirlpool!Own})
    BY FS_Singleton
  <2> QED BY <1>5, <1>6, <2>1, FS_Union
<1> QED
  BY <1>1, <1>2, <1>7, WhirlpoolSets DEF Whirlpool!WhirlpoolAssumption

------------------------------------------------------------------------------
(* The counters of an adapter.                                             *)

WhirlpoolRight(st) == st \in Whirlpool!Stats /\ st.yielded = Whirlpool!Total(st.counts)

\* None before the first cycle.
LEMMA WhirlpoolFreshIs ==
    ASSUME Whirlpool!WhirlpoolAssumption, NEW i
    PROVE  WhirlpoolRight(Whirlpool!Fresh) /\ WhirlpoolRight(Whirlpool!Reset(i))
           /\ Whirlpool!Reset(i).yielded = 0 /\ Whirlpool!Reset(i).failures = 0
<1> DEFINE counts == [s \in Whirlpool!Sources |-> 0]
<1>1. counts \in [Whirlpool!Sources -> Nat] /\ \A s \in Whirlpool!Sources : counts[s] = 0
  OBVIOUS
<1>2. Whirlpool!Total(counts) = 0
  <2> HIDE DEF counts
  <2> QED BY <1>1, WhirlpoolTotalTyped, WhirlpoolFinite
<1>3. Whirlpool!Fresh = [phase |-> "none", yielded |-> 0, counts |-> counts, failures |-> 0]
  BY DEF Whirlpool!Fresh
<1>4. Whirlpool!Reset(i) = [phase |-> "running", yielded |-> 0, counts |-> counts, failures |-> 0]
  BY <1>3 DEF Whirlpool!Reset
<1> HIDE DEF counts
<1> QED
  BY <1>1, <1>2, <1>3, <1>4 DEF WhirlpoolRight, Whirlpool!Stats

\* Items from one source are counted with it and in all.
LEMMA WhirlpoolYieldIs ==
    ASSUME Whirlpool!WhirlpoolAssumption, NEW st, WhirlpoolRight(st), NEW host \in Whirlpool!Sources,
           NEW n \in Nat
    PROVE  /\ WhirlpoolRight(Whirlpool!Yield(st, host, n))
           /\ Whirlpool!Yield(st, host, n).yielded = st.yielded + n
           /\ Whirlpool!Yield(st, host, n).failures = st.failures
<1> DEFINE counts == [st.counts EXCEPT ![host] = @ + n]
<1>1. st \in Whirlpool!Stats /\ st.counts \in [Whirlpool!Sources -> Nat] /\ st.yielded \in Nat
      /\ st.yielded = Whirlpool!Total(st.counts)
  BY DEF WhirlpoolRight, Whirlpool!Stats
<1>2. /\ counts \in [Whirlpool!Sources -> Nat] /\ counts[host] = st.counts[host] + n
      /\ \A s \in Whirlpool!Sources : s # host => counts[s] = st.counts[s]
      /\ st.counts[host] \in Nat
  BY <1>1
<1> DEFINE m == st.yielded + n
           new == Whirlpool!Yield(st, host, n)
<1>3. new \in Whirlpool!Stats /\ new.yielded = m /\ new.counts = counts /\ new.failures = st.failures
  <2>1. new = [st EXCEPT !.yielded = m, !.counts = counts]
    BY DEF Whirlpool!Yield
  <2>2. m \in Nat
    BY <1>1
  <2> HIDE DEF m, counts, new
  <2> QED BY <1>1, <1>2, <2>1, <2>2 DEF Whirlpool!Stats
<1> HIDE DEF counts, new
<1>4. Whirlpool!Total(counts) = st.yielded + n
  <2>1. /\ Whirlpool!Total(counts) + st.counts[host] = Whirlpool!Total(st.counts) + counts[host]
        /\ Whirlpool!Total(counts) \in Nat
    <3>1. PICK before \in [Whirlpool!Sources -> Nat] : before = st.counts
      BY <1>1
    <3>2. IsFiniteSet(Whirlpool!Sources) /\ \A s \in Whirlpool!Sources : s # host
          => counts[s] = before[s]
      BY <1>2, <3>1, WhirlpoolFinite
    <3> QED BY <1>2, <3>1, <3>2, WhirlpoolTotalChanged
  <2> QED BY <1>1, <1>2, <2>1
<1> QED
  BY <1>3, <1>4 DEF WhirlpoolRight, new

\* A failure and the end of a cycle leave the items as they are.
LEMMA WhirlpoolFailedIs ==
    ASSUME NEW st, WhirlpoolRight(st)
    PROVE  /\ WhirlpoolRight(Whirlpool!Failed(st)) /\ Whirlpool!Failed(st).yielded = st.yielded
           /\ WhirlpoolRight(Whirlpool!Completed(st)) /\ Whirlpool!Completed(st).yielded = st.yielded
           /\ Whirlpool!Completed(st).failures = st.failures
<1>1. st \in Whirlpool!Stats /\ st = [phase |-> st.phase, yielded |-> st.yielded, counts |-> st.counts,
      failures |-> st.failures]
  BY DEF WhirlpoolRight, Whirlpool!Stats
<1>2. Whirlpool!Failed(st) = [phase |-> st.phase, yielded |-> st.yielded, counts |-> st.counts,
      failures |-> st.failures + 1]
  BY <1>1 DEF Whirlpool!Failed, Whirlpool!Stats
<1>3. Whirlpool!Completed(st) = [phase |-> "complete", yielded |-> st.yielded, counts |-> st.counts,
      failures |-> st.failures]
  BY <1>1 DEF Whirlpool!Completed, Whirlpool!Stats
<1> QED
  BY <1>1, <1>2, <1>3 DEF WhirlpoolRight, Whirlpool!Stats

------------------------------------------------------------------------------
(* The summary of a call.                                                  *)

WhirlpoolBusy == {"feed", "fetch", "close"}
WhirlpoolYieldedBefore(call) == [i \in Whirlpool!Places |-> IF i < call.at THEN call.stats[i].yielded
      ELSE 0]
WhirlpoolFailedBefore(call) == [i \in Whirlpool!Places |-> IF i < call.at THEN call.stats[i].failures
      ELSE 0]

\* A call that has not been cancelled has collected what the adapters before
\* the present one report, and takes what that one has yielded.
WhirlpoolConsistent(call, counters) ==
    /\ call.at \in 1 .. Len(Adapters) + 1 /\ Len(call.stats) = call.at - 1
    /\ call.pc \in WhirlpoolBusy => call.at \in Whirlpool!Places
    /\ call.pc = "fetch" => call.feed \in DOMAIN Adapters[call.at].feeds
    /\ call.pc = "done" => call.at = Len(Adapters) + 1
    /\ call.total = Whirlpool!Total(WhirlpoolYieldedBefore(call)) + (IF call.pc \in WhirlpoolBusy
       THEN counters[call.at].yielded ELSE 0)
    /\ call.failures = Whirlpool!Total(WhirlpoolFailedBefore(call))
    /\ \A j \in Whirlpool!Places : j >= call.at => call.taken[j] = <<>>

\* The reports so far are numbers.
LEMMA WhirlpoolBeforeIs ==
    ASSUME Whirlpool!WhirlpoolAssumption, NEW call, call.stats \in Seq(Whirlpool!Stats),
           call.at \in 1 .. Len(Adapters) + 1,
           Len(call.stats) = call.at - 1
    PROVE  /\ WhirlpoolYieldedBefore(call) \in [Whirlpool!Places -> Nat]
              /\ WhirlpoolFailedBefore(call) \in [Whirlpool!Places -> Nat]
           /\ Whirlpool!Total(WhirlpoolYieldedBefore(call)) \in Nat
           /\ Whirlpool!Total(WhirlpoolFailedBefore(call)) \in Nat
<1>1. Len(Adapters) \in Nat /\ Whirlpool!Places = 1 .. Len(Adapters) /\ IsFiniteSet(Whirlpool!Places)
  BY WhirlpoolFinite
<1>2. ASSUME NEW i \in Whirlpool!Places, i < call.at
      PROVE  call.stats[i].yielded \in Nat /\ call.stats[i].failures \in Nat
  <2>1. i \in 1 .. Len(call.stats)
    BY <1>1, <1>2
  <2>2. call.stats[i] \in Whirlpool!Stats
    BY <2>1, ElementOfSeq
  <2> QED BY <2>2 DEF Whirlpool!Stats
<1>3. WhirlpoolYieldedBefore(call) \in [Whirlpool!Places -> Nat]
      /\ WhirlpoolFailedBefore(call) \in [Whirlpool!Places -> Nat]
  BY <1>2 DEF WhirlpoolYieldedBefore, WhirlpoolFailedBefore
<1> QED
  BY <1>1, <1>3, WhirlpoolTotalTyped

\* One more report is collected.
LEMMA WhirlpoolCollectedIs ==
    ASSUME Whirlpool!WhirlpoolAssumption, NEW call \in WhirlpoolCalls, call.at \in Whirlpool!Places,
           Len(call.stats) = call.at - 1, NEW st \in Whirlpool!Stats
    PROVE  LET new == Whirlpool!Collected(call, st) IN
           /\ new \in WhirlpoolCalls /\ new.pc = "open" /\ new.at = call.at + 1
           /\ new.at \in 1 .. Len(Adapters) + 1
           /\ Len(new.stats) = new.at - 1
           /\ new.total = call.total /\ new.taken = call.taken
           /\ new.failures = call.failures + st.failures
           /\ Whirlpool!Total(WhirlpoolYieldedBefore(new)) = Whirlpool!Total(WhirlpoolYieldedBefore(call)) + st.yielded
           /\ Whirlpool!Total(WhirlpoolFailedBefore(new)) = Whirlpool!Total(WhirlpoolFailedBefore(call)) + st.failures
<1> DEFINE new == Whirlpool!Collected(call, st)
           stats == Append(call.stats, st)
           at == call.at
<1>1. Len(Adapters) \in Nat /\ Whirlpool!Places = 1 .. Len(Adapters) /\ IsFiniteSet(Whirlpool!Places)
  BY WhirlpoolFinite
<1>2. /\ call.stats \in Seq(Whirlpool!Stats) /\ at \in Whirlpool!Places /\ at \in Nat /\ at - 1 \in Nat
      /\ Len(call.stats) = at - 1
      /\ call.failures \in Nat /\ st.failures \in Nat /\ st.yielded \in Nat
  BY <1>1 DEF WhirlpoolCalls, Whirlpool!Stats
<1>3. /\ stats \in Seq(Whirlpool!Stats) /\ Len(stats) = at /\ stats[at] = st
      /\ \A i \in 1 .. at - 1 : stats[i] = call.stats[i]
  <2> DEFINE old == call.stats
  <2>1. old \in Seq(Whirlpool!Stats) /\ Len(old) = at - 1 /\ at \in Nat
    BY <1>2
  <2> HIDE DEF old, at
  <2>2. /\ Append(old, st) \in Seq(Whirlpool!Stats) /\ Len(Append(old, st)) = Len(old) + 1
        /\ \A i \in 1 .. Len(old) : Append(old, st)[i] = old[i]
        /\ Append(old, st)[Len(old) + 1] = st
    BY <2>1, AppendProperties
  <2>3. Len(old) + 1 = at
    BY <2>1
  <2> QED BY <2>1, <2>2, <2>3 DEF old
<1> HIDE DEF stats
<1>4. new = [call EXCEPT !.pc = "open", !.at = at + 1, !.stats = stats, !.failures = @ + st.failures]
  BY DEF Whirlpool!Collected, stats
<1>5. /\ new \in WhirlpoolCalls /\ new.pc = "open" /\ new.at = at + 1 /\ new.stats = stats
      /\ new.total = call.total /\ new.taken = call.taken /\ new.failures = call.failures + st.failures
  <2> DEFINE failures == call.failures + st.failures
             m == at + 1
  <2>1. failures \in Nat /\ m \in Nat /\ "open" \in WhirlpoolPhases
    BY <1>2 DEF WhirlpoolPhases
  <2>2. new = [call EXCEPT !.pc = "open", !.at = m, !.stats = stats, !.failures = failures]
    BY <1>4
  <2> HIDE DEF new, m, failures
  <2>3. /\ new \in WhirlpoolCalls /\ new.pc = "open" /\ new.at = m /\ new.stats = stats
        /\ new.total = call.total /\ new.taken = call.taken /\ new.failures = failures
    BY <1>3, <2>1, <2>2 DEF WhirlpoolCalls
  <2> QED BY <2>3 DEF m, failures
<1> HIDE DEF new
<1>6. new.at \in 1 .. Len(Adapters) + 1 /\ Len(new.stats) = new.at - 1
  BY <1>1, <1>2, <1>3, <1>5
<1>7. /\ WhirlpoolYieldedBefore(new) \in [Whirlpool!Places -> Nat]
         /\ WhirlpoolFailedBefore(new) \in [Whirlpool!Places -> Nat]
      /\ WhirlpoolYieldedBefore(call) \in [Whirlpool!Places -> Nat]
         /\ WhirlpoolFailedBefore(call) \in [Whirlpool!Places -> Nat]
  <2>1. at \in 1 .. Len(Adapters) + 1 /\ new.stats \in Seq(Whirlpool!Stats)
    BY <1>1, <1>2, <1>3, <1>5
  <2> QED BY <1>2, <1>6, <2>1, WhirlpoolBeforeIs
<1>8. /\ \A i \in Whirlpool!Places : i # at
         => WhirlpoolYieldedBefore(new)[i] = WhirlpoolYieldedBefore(call)[i]
      /\ \A i \in Whirlpool!Places : i # at
         => WhirlpoolFailedBefore(new)[i] = WhirlpoolFailedBefore(call)[i]
  <2>1. ASSUME NEW i \in Whirlpool!Places, i # at, i < new.at
        PROVE i < at /\ new.stats[i] = call.stats[i]
    <3>1. i < at /\ i \in 1 .. at - 1
      BY <1>1, <1>2, <1>5, <2>1
    <3> QED BY <1>3, <1>5, <3>1
  <2>2. ASSUME NEW i \in Whirlpool!Places, ~ (i < new.at) PROVE ~ (i < at)
    BY <1>1, <1>2, <1>5, <2>2
  <2> QED BY <2>1, <2>2 DEF WhirlpoolYieldedBefore, WhirlpoolFailedBefore
<1>9. /\ WhirlpoolYieldedBefore(new)[at] = st.yielded /\ WhirlpoolYieldedBefore(call)[at] = 0
      /\ WhirlpoolFailedBefore(new)[at] = st.failures /\ WhirlpoolFailedBefore(call)[at] = 0
  <2>1. at < new.at /\ ~ (at < at) /\ new.stats[at] = st
    BY <1>2, <1>3, <1>5
  <2> QED BY <1>2, <2>1 DEF WhirlpoolYieldedBefore, WhirlpoolFailedBefore
<1>10. /\ Whirlpool!Total(WhirlpoolYieldedBefore(new)) = Whirlpool!Total(WhirlpoolYieldedBefore(call)) + st.yielded
       /\ Whirlpool!Total(WhirlpoolFailedBefore(new)) = Whirlpool!Total(WhirlpoolFailedBefore(call)) + st.failures
  <2> DEFINE f == WhirlpoolYieldedBefore(new)
             h == WhirlpoolYieldedBefore(call)
             k == WhirlpoolFailedBefore(new)
             g == WhirlpoolFailedBefore(call)
  <2>1. /\ f \in [Whirlpool!Places -> Nat] /\ h \in [Whirlpool!Places -> Nat]
        /\ k \in [Whirlpool!Places -> Nat] /\ g \in [Whirlpool!Places -> Nat]
        /\ \A i \in Whirlpool!Places : i # at => f[i] = h[i]
        /\ \A i \in Whirlpool!Places : i # at => k[i] = g[i]
        /\ f[at] = st.yielded /\ h[at] = 0 /\ k[at] = st.failures /\ g[at] = 0
    BY <1>7, <1>8, <1>9
  <2>5. IsFiniteSet(Whirlpool!Places) /\ at \in Whirlpool!Places
    BY <1>1, <1>2
  <2> HIDE DEF f, h, k, g, at
  <2>2. Whirlpool!Total(f) = Whirlpool!Total(h) + st.yielded
    <3>1. f \in [Whirlpool!Places -> Nat] /\ h \in [Whirlpool!Places -> Nat]
      BY <2>1
    <3>2. \A y \in Whirlpool!Places : y # at => f[y] = h[y]
      BY <2>1
    <3>3. f[at] = st.yielded /\ h[at] = 0 /\ st.yielded \in Nat
      BY <1>2, <2>1
    <3> QED BY <2>5, <3>1, <3>2, <3>3, WhirlpoolTotalAdded
  <2>3. Whirlpool!Total(k) = Whirlpool!Total(g) + st.failures
    <3>1. k \in [Whirlpool!Places -> Nat] /\ g \in [Whirlpool!Places -> Nat]
      BY <2>1
    <3>2. \A y \in Whirlpool!Places : y # at => k[y] = g[y]
      BY <2>1
    <3>3. k[at] = st.failures /\ g[at] = 0 /\ st.failures \in Nat
      BY <1>2, <2>1
    <3> QED BY <2>5, <3>1, <3>2, <3>3, WhirlpoolTotalAdded
  <2> QED BY <2>2, <2>3 DEF f, h, k, g
<1> QED
  BY <1>5, <1>6, <1>10 DEF new

\* A call with as many reports.
LEMMA WhirlpoolSameReports ==
    ASSUME NEW call, NEW new, new.at = call.at, new.stats = call.stats
    PROVE  WhirlpoolYieldedBefore(new) = WhirlpoolYieldedBefore(call)
           /\ WhirlpoolFailedBefore(new) = WhirlpoolFailedBefore(call)
  BY DEF WhirlpoolYieldedBefore, WhirlpoolFailedBefore

------------------------------------------------------------------------------
(* The inductive invariant.                                                *)

\* Every item that was fed is queued or was taken by one call, once.
WhirlpoolConserved(queued, calls, count) ==
    \A i \in Whirlpool!Places :
        /\ Whirlpool!ToSet(queued[i]) \cup (UNION {Whirlpool!ToSet(calls[c].taken[i]) : c \in Cycles}) = 1 .. count[i]
        /\ Len(queued[i]) + Whirlpool!Total([c \in Cycles |-> Len(calls[c].taken[i])]) = count[i]

WhirlpoolTyped ==
    /\ adapter \in [Whirlpool!Places -> Whirlpool!Stats]
    /\ queue \in [Whirlpool!Places -> Seq(Nat)]
    /\ noted \in [Whirlpool!Places -> Nat] /\ fed \in [Whirlpool!Places -> Nat]
    /\ ingest \in [Cycles -> WhirlpoolCalls]
    /\ turn \in Cycles \cup {0}

WhirlpoolInv ==
    /\ WhirlpoolTyped
    /\ \A i \in Whirlpool!Places : WhirlpoolRight(adapter[i])
    /\ \A c, d \in Cycles : Whirlpool!Running(c) /\ Whirlpool!Running(d) => c = d
    /\ \A c \in Cycles : ingest[c].pc # "cancelled" => WhirlpoolConsistent(ingest[c], adapter)
    /\ WhirlpoolConserved(queue, ingest, fed)

\* The invariant holds the type and what the reports say.
LEMMA WhirlpoolInvHolds ==
    ASSUME Whirlpool!WhirlpoolAssumption, WhirlpoolInv
    PROVE  Whirlpool!TypeOK /\ Whirlpool!StatsAddUp
<1>1. Whirlpool!TypeOK
  BY DEF WhirlpoolInv, WhirlpoolTyped, Whirlpool!TypeOK, WhirlpoolCalls, WhirlpoolPhases
<1>2. \A i \in Whirlpool!Places : adapter[i].yielded = Whirlpool!Total(adapter[i].counts)
  BY DEF WhirlpoolInv, WhirlpoolRight
<1>3. ASSUME NEW c \in Cycles, ingest[c].pc = "done"
      PROVE  /\ Len(ingest[c].stats) = Len(Adapters)
             /\ ingest[c].total = Whirlpool!Total([i \in Whirlpool!Places |-> ingest[c].stats[i].yielded])
             /\ ingest[c].failures = Whirlpool!Total([i \in Whirlpool!Places |-> ingest[c].stats[i].failures])
  <2> DEFINE call == ingest[c]
             n == Len(Adapters)
  <2>1. n \in Nat /\ Whirlpool!Places = 1 .. n
    BY WhirlpoolFinite
  <2>2. call \in WhirlpoolCalls /\ call.pc = "done" /\ WhirlpoolConsistent(call, adapter)
    BY <1>3 DEF WhirlpoolInv, WhirlpoolTyped
  <2>3. call.at = n + 1 /\ Len(call.stats) = call.at - 1
    BY <2>2 DEF WhirlpoolConsistent
  <2>4. \A i \in Whirlpool!Places : i < call.at
    BY <2>1, <2>3
  <2>5. /\ WhirlpoolYieldedBefore(call) = [i \in Whirlpool!Places |-> call.stats[i].yielded]
        /\ WhirlpoolFailedBefore(call) = [i \in Whirlpool!Places |-> call.stats[i].failures]
    BY <2>4 DEF WhirlpoolYieldedBefore, WhirlpoolFailedBefore
  <2>6. Whirlpool!Total(WhirlpoolYieldedBefore(call)) \in Nat
    <3>1. call.stats \in Seq(Whirlpool!Stats)
      BY <2>2 DEF WhirlpoolCalls
    <3>2. call.at \in 1 .. Len(Adapters) + 1 /\ Len(call.stats) = call.at - 1
      BY <2>2 DEF WhirlpoolConsistent
    <3> HIDE DEF call
    <3> QED BY <3>1, <3>2, WhirlpoolBeforeIs
  <2>7. call.total = Whirlpool!Total(WhirlpoolYieldedBefore(call)) + 0
        /\ call.failures = Whirlpool!Total(WhirlpoolFailedBefore(call))
    BY <2>2 DEF WhirlpoolConsistent, WhirlpoolBusy
  <2>8. Len(call.stats) = n
    BY <2>1, <2>3
  <2>9. call.total = Whirlpool!Total(WhirlpoolYieldedBefore(call))
    BY <2>6, <2>7
  <2> QED BY <2>5, <2>7, <2>8, <2>9
<1>4. \A i \in Whirlpool!Places :
         /\ Whirlpool!ToSet(queue[i]) \cup UNION {Whirlpool!ToSet(ingest[c].taken[i]) : c \in Cycles} = 1..fed[i]
         /\ Len(queue[i]) + Whirlpool!Total([c \in Cycles |-> Len(ingest[c].taken[i])]) = fed[i]
  BY DEF WhirlpoolInv, WhirlpoolConserved
<1> QED
  BY <1>1, <1>2, <1>3, <1>4 DEF Whirlpool!StatsAddUp

\* One call has the adapters.
LEMMA WhirlpoolAlone ==
    ASSUME WhirlpoolInv, NEW c \in Cycles, Whirlpool!Running(c)
    PROVE  /\ \A d \in Cycles : d # c => ~ Whirlpool!Running(d)
           /\ ingest[c] \in WhirlpoolCalls /\ WhirlpoolConsistent(ingest[c], adapter)
  BY DEF WhirlpoolInv, WhirlpoolTyped, Whirlpool!Running

\* What a step of the call that has the adapters leaves behind.
LEMMA WhirlpoolStepInv ==
    ASSUME Whirlpool!WhirlpoolAssumption, WhirlpoolInv, NEW c \in Cycles, \A d \in Cycles : d # c
           => ~ Whirlpool!Running(d),
           NEW new \in WhirlpoolCalls, ingest' = [ingest EXCEPT ![c] = new],
           NEW counters \in [Whirlpool!Places -> Whirlpool!Stats], adapter' = counters,
           \A i \in Whirlpool!Places : WhirlpoolRight(counters[i]),
           new.pc # "cancelled" => WhirlpoolConsistent(new, counters),
           queue' \in [Whirlpool!Places -> Seq(Nat)], noted' \in [Whirlpool!Places -> Nat],
           fed' \in [Whirlpool!Places -> Nat],
           turn' \in Cycles \cup {0}, WhirlpoolConserved(queue', ingest', fed')
    PROVE  WhirlpoolInv'
<1>1. /\ ingest' \in [Cycles -> WhirlpoolCalls] /\ ingest'[c] = new
      /\ \A d \in Cycles : d # c => ingest'[d] = ingest[d]
  BY DEF WhirlpoolInv, WhirlpoolTyped
<1>2. \A d \in Cycles : d # c => ~ Whirlpool!Running(d)'
  BY <1>1 DEF Whirlpool!Running
<1>3. \A d, e \in Cycles : Whirlpool!Running(d)' /\ Whirlpool!Running(e)' => d = e
  BY <1>2
<1>4. ASSUME NEW d \in Cycles, ingest'[d].pc # "cancelled"
      PROVE  WhirlpoolConsistent(ingest'[d], counters)
  <2>1. CASE d = c
    BY <1>1, <1>4, <2>1
  <2>2. CASE d # c
    <3>1. ingest'[d] = ingest[d] /\ WhirlpoolConsistent(ingest[d], adapter)
          /\ ingest[d].pc \notin WhirlpoolBusy
      BY <1>1, <1>4, <2>2 DEF WhirlpoolInv, Whirlpool!Running, WhirlpoolBusy
    <3> QED BY <3>1 DEF WhirlpoolConsistent
  <2> QED BY <2>1, <2>2
<1> QED
  BY <1>1, <1>3, <1>4 DEF WhirlpoolInv, WhirlpoolTyped

\* No item changes hands.
LEMMA WhirlpoolKeptSame ==
    ASSUME WhirlpoolInv, NEW c \in Cycles, NEW new, new.taken = ingest[c].taken,
           ingest' = [ingest EXCEPT ![c] = new],
           queue' = queue, fed' = fed
    PROVE  WhirlpoolConserved(queue', ingest', fed')
<1>1. \A d \in Cycles : ingest'[d].taken = ingest[d].taken
  BY DEF WhirlpoolInv, WhirlpoolTyped
<1>2. \A i \in Whirlpool!Places : [d \in Cycles |-> Len(ingest'[d].taken[i])] = [d \in Cycles |-> Len(ingest[d].taken[i])]
  BY <1>1
<1>3. \A i \in Whirlpool!Places : {Whirlpool!ToSet(ingest'[d].taken[i]) : d \in Cycles} = {Whirlpool!ToSet(ingest[d].taken[i]) : d \in Cycles}
  BY <1>1
<1>4. WhirlpoolConserved(queue, ingest, fed)
  BY DEF WhirlpoolInv
<1> QED
  BY <1>2, <1>3, <1>4 DEF WhirlpoolConserved

\* Nothing is counted, fed or taken.
LEMMA WhirlpoolInitInv == ASSUME Whirlpool!WhirlpoolAssumption, Whirlpool!Init PROVE WhirlpoolInv
<1>1. WhirlpoolRight(Whirlpool!Fresh) /\ Whirlpool!Fresh \in Whirlpool!Stats
  BY WhirlpoolFreshIs DEF WhirlpoolRight
<1>2. Len(Adapters) \in Nat /\ Whirlpool!Places = 1 .. Len(Adapters) /\ IsFiniteSet(Cycles)
  BY WhirlpoolFinite
<1>3. <<>> \in Seq(Nat) /\ <<>> \in Seq(Whirlpool!Stats) /\ Len(<<>>) = 0 /\ Whirlpool!ToSet(<<>>) = {}
  BY EmptySeq DEF Whirlpool!ToSet
<1>4. Whirlpool!Summary \in WhirlpoolCalls /\ Whirlpool!Summary.pc = "new" /\ Whirlpool!Summary.at = 1
      /\ Whirlpool!Summary.stats = <<>>
      /\ Whirlpool!Summary.total = 0 /\ Whirlpool!Summary.failures = 0
         /\ \A i \in Whirlpool!Places : Whirlpool!Summary.taken[i] = <<>>
  BY <1>3 DEF Whirlpool!Summary, WhirlpoolCalls, WhirlpoolPhases
<1>5. WhirlpoolConsistent(Whirlpool!Summary, adapter)
  <2>1. \A i \in Whirlpool!Places : ~ (i < 1)
    BY <1>2
  <2>2. WhirlpoolYieldedBefore(Whirlpool!Summary) = [i \in Whirlpool!Places |-> 0]
        /\ WhirlpoolFailedBefore(Whirlpool!Summary) = [i \in Whirlpool!Places |-> 0]
    BY <1>4, <2>1 DEF WhirlpoolYieldedBefore, WhirlpoolFailedBefore
  <2>3. Whirlpool!Total([i \in Whirlpool!Places |-> 0]) = 0
    <3> DEFINE f == [i \in Whirlpool!Places |-> 0]
    <3>1. f \in [Whirlpool!Places -> Nat] /\ \A i \in Whirlpool!Places : f[i] = 0
      OBVIOUS
    <3> HIDE DEF f
    <3>2. Whirlpool!Total(f) = 0
      BY <3>1, WhirlpoolTotalTyped, WhirlpoolFinite
    <3> QED BY <3>2 DEF f
  <2>4. Whirlpool!Summary.at \in 1 .. Len(Adapters) + 1
        /\ Len(Whirlpool!Summary.stats) = Whirlpool!Summary.at - 1
    BY <1>2, <1>3, <1>4
  <2> QED BY <1>4, <2>2, <2>3, <2>4 DEF WhirlpoolConsistent, WhirlpoolBusy
<1>6. \A c \in Cycles : ingest[c] = Whirlpool!Summary
  BY DEF Whirlpool!Init
<1>7. WhirlpoolConserved(queue, ingest, fed)
  <2> DEFINE f == [c \in Cycles |-> 0]
  <2>1. f \in [Cycles -> Nat] /\ \A c \in Cycles : f[c] = 0
    OBVIOUS
  <2>2. Whirlpool!Total(f) = 0
    <3> HIDE DEF f
    <3> QED BY <1>2, <2>1, WhirlpoolTotalTyped
  <2>3. ASSUME NEW i \in Whirlpool!Places
        PROVE  /\ queue[i] = <<>> /\ fed[i] = 0 /\ \A c \in Cycles : ingest[c].taken[i] = <<>>
    BY <1>4, <1>6 DEF Whirlpool!Init
  <2>4. ASSUME NEW i \in Whirlpool!Places
        PROVE  [c \in Cycles |-> Len(ingest[c].taken[i])] = f
               /\ UNION {Whirlpool!ToSet(ingest[c].taken[i]) : c \in Cycles} = {}
    BY <1>3, <2>3
  <2> HIDE DEF f
  <2>5. 1 .. 0 = {} /\ 0 + 0 = 0
    OBVIOUS
  <2> QED BY <1>3, <2>2, <2>3, <2>4, <2>5 DEF WhirlpoolConserved
<1>8. WhirlpoolTyped
  BY <1>1, <1>3, <1>4 DEF Whirlpool!Init, WhirlpoolTyped
<1>9. \A c, d \in Cycles : Whirlpool!Running(c) /\ Whirlpool!Running(d) => c = d
  BY <1>4, <1>6 DEF Whirlpool!Running
<1> QED
  BY <1>1, <1>4, <1>5, <1>6, <1>7, <1>8, <1>9 DEF WhirlpoolInv, Whirlpool!Init

\* An item is queued behind the others, under the next number.
LEMMA WhirlpoolFeedItemsInv ==
    ASSUME Whirlpool!WhirlpoolAssumption, WhirlpoolInv, NEW i \in Whirlpool!Places,
           Whirlpool!FeedItems(i)
    PROVE  WhirlpoolInv'
<1>1. /\ UNCHANGED <<adapter, noted, ingest, turn>> /\ fed' = [fed EXCEPT ![i] = @ + 1]
      /\ queue' = [queue EXCEPT ![i] = Append(@, fed[i] + 1)]
  BY DEF Whirlpool!FeedItems
<1> DEFINE q == queue[i]
           n == fed[i]
           new == Append(q, n + 1)
<1>2. q \in Seq(Nat) /\ n \in Nat /\ queue \in [Whirlpool!Places -> Seq(Nat)]
      /\ fed \in [Whirlpool!Places -> Nat]
  BY DEF WhirlpoolInv, WhirlpoolTyped
<1>3. new \in Seq(Nat) /\ Len(new) = Len(q) + 1 /\ Len(q) \in Nat
      /\ Whirlpool!ToSet(new) = Whirlpool!ToSet(q) \cup {n + 1}
  <2> HIDE DEF q, n
  <2>1. n + 1 \in Nat
    BY <1>2
  <2>2. new \in Seq(Nat) /\ Len(new) = Len(q) + 1 /\ Len(q) \in Nat
    BY <1>2, <2>1, AppendProperties, LenProperties
  <2>3. /\ \A k \in 1 .. Len(q) : new[k] = q[k]
        /\ new[Len(q) + 1] = n + 1
    BY <1>2, <2>1, AppendProperties
  <2>4. DOMAIN new = 1 .. Len(q) + 1 /\ DOMAIN q = 1 .. Len(q)
    BY <1>2, <2>2, LenProperties
  <2> HIDE DEF new
  <2>5. DOMAIN new = DOMAIN q \cup {Len(q) + 1} /\ \A k \in DOMAIN q : new[k] = q[k]
    BY <2>2, <2>3, <2>4
  <2> QED BY <2>2, <2>3, <2>5 DEF Whirlpool!ToSet
<1>4. WhirlpoolConserved(queue', ingest', fed')
  <2> SUFFICES ASSUME NEW j \in Whirlpool!Places
               PROVE  /\ Whirlpool!ToSet(queue'[j]) \cup (UNION {Whirlpool!ToSet(ingest[c].taken[j]) : c \in Cycles}) = 1 .. fed'[j]
                      /\ Len(queue'[j]) + Whirlpool!Total([c \in Cycles |-> Len(ingest[c].taken[j])]) = fed'[j]
    <3>1. WhirlpoolConserved(queue', ingest', fed') <=> WhirlpoolConserved(queue', ingest, fed')
      BY <1>1
    <3> QED BY <3>1, Zenon DEF WhirlpoolConserved
  <2> DEFINE U == UNION {Whirlpool!ToSet(ingest[c].taken[j]) : c \in Cycles}
             T == Whirlpool!Total([c \in Cycles |-> Len(ingest[c].taken[j])])
  <2>1. Whirlpool!ToSet(queue[j]) \cup U = 1 .. fed[j] /\ Len(queue[j]) + T = fed[j]
    BY DEF WhirlpoolInv, WhirlpoolConserved
  <2>2. T \in Nat
    <3> DEFINE f == [c \in Cycles |-> Len(ingest[c].taken[j])]
    <3>1. \A c \in Cycles : ingest[c].taken[j] \in Seq(Nat)
      BY DEF WhirlpoolInv, WhirlpoolTyped, WhirlpoolCalls
    <3>2. f \in [Cycles -> Nat]
      BY <3>1, LenProperties
    <3> HIDE DEF f
    <3>3. Whirlpool!Total(f) \in Nat
      BY <3>2, WhirlpoolFinite, WhirlpoolTotalTyped
    <3> QED BY <3>3 DEF f
  <2> HIDE DEF U, T
  <2>3. CASE j = i
    <3>1. queue'[j] = new /\ fed'[j] = n + 1
      BY <1>1, <1>2, <2>3
    <3>2. Whirlpool!ToSet(q) \cup U = 1 .. n /\ Len(q) + T = n
      BY <2>1, <2>3
    <3> HIDE DEF q, n, new
    <3>3. Whirlpool!ToSet(new) \cup U = 1 .. n + 1
      BY <1>2, <1>3, <3>2
    <3>4. Len(new) + T = n + 1
      BY <1>2, <1>3, <2>2, <3>2
    <3> QED BY <3>1, <3>3, <3>4 DEF U, T
  <2>4. CASE j # i
    <3>1. queue'[j] = queue[j] /\ fed'[j] = fed[j]
      BY <1>1, <1>2, <2>4
    <3> QED BY <2>1, <3>1 DEF U, T
  <2> QED BY <2>3, <2>4
<1>5. queue' \in [Whirlpool!Places -> Seq(Nat)] /\ fed' \in [Whirlpool!Places -> Nat]
  <2> HIDE DEF q, new
  <2>1. queue' = [queue EXCEPT ![i] = new]
    BY <1>1 DEF new, q
  <2> QED BY <1>1, <1>2, <1>3, <2>1
<1> QED
  BY <1>1, <1>4, <1>5 DEF WhirlpoolInv, WhirlpoolTyped, Whirlpool!Running

\* A feed that fails (whirlpool/ingest.py) changes no counter of a call.
LEMMA WhirlpoolRecordFailureInv ==
    ASSUME WhirlpoolInv, NEW i \in Whirlpool!Places, Whirlpool!RecordFailure(i)
    PROVE  WhirlpoolInv'
<1>1. UNCHANGED <<adapter, queue, fed, ingest, turn>> /\ noted' \in [Whirlpool!Places -> Nat]
  BY DEF Whirlpool!RecordFailure, WhirlpoolInv, WhirlpoolTyped
<1> QED
  BY <1>1 DEF WhirlpoolInv, WhirlpoolTyped, Whirlpool!Running

\* A step that collects no report and takes no item from a queue: what there is
\* to show of it.
LEMMA WhirlpoolQuietInv ==
    ASSUME Whirlpool!WhirlpoolAssumption, WhirlpoolInv, NEW c \in Cycles, \A d \in Cycles : d # c
           => ~ Whirlpool!Running(d),
           ingest[c].pc # "cancelled",
           NEW new, ingest' = [ingest EXCEPT ![c] = new],
           new.pc \in WhirlpoolPhases, new.feed \in Nat, new.total \in Nat, new \in WhirlpoolCalls,
           new.at = ingest[c].at, new.stats = ingest[c].stats, new.taken = ingest[c].taken,
           new.failures = ingest[c].failures,
           NEW counters \in [Whirlpool!Places -> Whirlpool!Stats], adapter' = counters,
           \A i \in Whirlpool!Places : WhirlpoolRight(counters[i]),
           UNCHANGED <<queue, noted, fed>>, turn' \in Cycles \cup {0},
           new.pc \in WhirlpoolBusy => new.at \in Whirlpool!Places,
           new.pc = "fetch" => new.feed \in DOMAIN Adapters[new.at].feeds,
           new.pc = "done" => new.at = Len(Adapters) + 1,
           new.pc # "cancelled" =>
               new.total + (IF ingest[c].pc \in WhirlpoolBusy THEN adapter[new.at].yielded ELSE 0)
                   = ingest[c].total + (IF new.pc \in WhirlpoolBusy THEN counters[new.at].yielded
                         ELSE 0)
    PROVE  WhirlpoolInv'
<1> DEFINE call == ingest[c]
           before == IF ingest[c].pc \in WhirlpoolBusy THEN adapter[new.at].yielded ELSE 0
           after == IF new.pc \in WhirlpoolBusy THEN counters[new.at].yielded ELSE 0
           sum == Whirlpool!Total(WhirlpoolYieldedBefore(new))
<1>1. call \in WhirlpoolCalls /\ WhirlpoolConsistent(call, adapter)
  BY DEF WhirlpoolInv, WhirlpoolTyped
<1>2. WhirlpoolYieldedBefore(new) = WhirlpoolYieldedBefore(call)
      /\ WhirlpoolFailedBefore(new) = WhirlpoolFailedBefore(call)
  BY WhirlpoolSameReports
<1>3. sum \in Nat
  <2>1. new.stats \in Seq(Whirlpool!Stats) /\ new.at \in 1 .. Len(Adapters) + 1
        /\ Len(new.stats) = new.at - 1
    BY <1>1 DEF WhirlpoolCalls, WhirlpoolConsistent
  <2> QED BY <2>1, WhirlpoolBeforeIs
<1>4. call.total = sum + before
  BY <1>1, <1>2 DEF WhirlpoolConsistent
<1>5. before \in Nat /\ after \in Nat
  <2>1. \A i \in Whirlpool!Places : adapter[i].yielded \in Nat /\ counters[i].yielded \in Nat
    BY DEF WhirlpoolInv, WhirlpoolTyped, Whirlpool!Stats
  <2>2. ingest[c].pc \in WhirlpoolBusy => new.at \in Whirlpool!Places
    BY <1>1 DEF WhirlpoolConsistent
  <2> QED BY <2>1, <2>2
<1>6. new.pc # "cancelled" => new.total = sum + after
  <2>1. new.pc # "cancelled" => new.total + before = call.total + after
    OBVIOUS
  <2>2. new.total \in Nat
    OBVIOUS
  <2> DEFINE x == new.total
             y == call.total
  <2>3. new.pc # "cancelled" => x + before = y + after
    BY <2>1
  <2>4. x \in Nat /\ y = sum + before
    BY <1>4, <2>2
  <2> HIDE DEF before, after, sum, x, y
  <2>5. new.pc # "cancelled" => x = sum + after
    BY <1>3, <1>5, <2>3, <2>4
  <2> QED BY <2>5 DEF x
<1>7. new.pc # "cancelled" => WhirlpoolConsistent(new, counters)
  BY <1>1, <1>2, <1>6 DEF WhirlpoolConsistent
<1>8. WhirlpoolConserved(queue', ingest', fed')
  BY WhirlpoolKeptSame
<1>9. queue' \in [Whirlpool!Places -> Seq(Nat)] /\ noted' \in [Whirlpool!Places -> Nat]
      /\ fed' \in [Whirlpool!Places -> Nat]
  BY DEF WhirlpoolInv, WhirlpoolTyped
<1> HIDE DEF call, before, after, sum
<1> QED
  BY <1>7, <1>8, <1>9, WhirlpoolStepInv

\* A call with another step, feed or total.
WhirlpoolChanged(call, pc, feed, total) == [call EXCEPT !.pc = pc, !.feed = feed, !.total = total]

\* It is a call, and the same otherwise.
LEMMA WhirlpoolCallIs ==
    ASSUME NEW call \in WhirlpoolCalls, NEW pc \in WhirlpoolPhases, NEW feed \in Nat, NEW total \in Nat
    PROVE  /\ WhirlpoolChanged(call, pc, feed, total) \in WhirlpoolCalls
           /\ WhirlpoolChanged(call, pc, feed, total).pc = pc
           /\ WhirlpoolChanged(call, pc, feed, total).feed = feed
           /\ WhirlpoolChanged(call, pc, feed, total).total = total
           /\ WhirlpoolChanged(call, pc, feed, total).at = call.at
           /\ WhirlpoolChanged(call, pc, feed, total).stats = call.stats
           /\ WhirlpoolChanged(call, pc, feed, total).taken = call.taken
           /\ WhirlpoolChanged(call, pc, feed, total).failures = call.failures
  BY DEF WhirlpoolCalls, WhirlpoolChanged

\* ... of which some are as they were.
LEMMA WhirlpoolCallSame ==
    ASSUME NEW call \in WhirlpoolCalls
    PROVE  /\ \A pc \in WhirlpoolPhases : [call EXCEPT !.pc = pc] = WhirlpoolChanged(call, pc,
              call.feed, call.total)
           /\ \A pc \in WhirlpoolPhases, feed \in Nat :
                 [call EXCEPT !.pc = pc, !.feed = feed] = WhirlpoolChanged(call, pc, feed, call.total)
           /\ \A feed \in Nat : [call EXCEPT !.feed = feed] = WhirlpoolChanged(call, call.pc, feed,
              call.total)
           /\ call.feed \in Nat /\ call.total \in Nat /\ call.pc \in WhirlpoolPhases
  BY DEF WhirlpoolCalls, WhirlpoolChanged

\* The counters after those of one adapter have changed.
LEMMA WhirlpoolCountersAre ==
    ASSUME WhirlpoolInv, NEW i \in Whirlpool!Places, NEW st, WhirlpoolRight(st),
           adapter' = [adapter EXCEPT ![i] = st]
    PROVE  adapter' \in [Whirlpool!Places -> Whirlpool!Stats]
           /\ (\A j \in Whirlpool!Places : WhirlpoolRight(adapter'[j])) /\ adapter'[i] = st
  BY DEF WhirlpoolInv, WhirlpoolTyped, WhirlpoolRight

\* A step that takes nothing from a queue, and changes no counter but one.
LEMMA WhirlpoolQuietStep ==
    ASSUME Whirlpool!WhirlpoolAssumption, WhirlpoolInv, NEW c \in Cycles, \A d \in Cycles : d # c
           => ~ Whirlpool!Running(d),
           ingest[c].pc # "cancelled",
           NEW pc \in WhirlpoolPhases, NEW feed \in Nat, NEW total \in Nat,
           ingest' = [ingest EXCEPT ![c] = WhirlpoolChanged(ingest[c], pc, feed, total)],
           adapter' \in [Whirlpool!Places -> Whirlpool!Stats],
           \A i \in Whirlpool!Places : WhirlpoolRight(adapter'[i]),
           UNCHANGED <<queue, noted, fed>>, turn' \in Cycles \cup {0},
           pc \in WhirlpoolBusy => ingest[c].at \in Whirlpool!Places,
           pc = "fetch" => feed \in DOMAIN Adapters[ingest[c].at].feeds,
           pc = "done" => ingest[c].at = Len(Adapters) + 1,
           pc # "cancelled" =>
               total + (IF ingest[c].pc \in WhirlpoolBusy THEN adapter[ingest[c].at].yielded ELSE 0)
                   = ingest[c].total + (IF pc \in WhirlpoolBusy THEN adapter'[ingest[c].at].yielded
                         ELSE 0)
    PROVE  WhirlpoolInv'
<1>1. PICK call \in WhirlpoolCalls : call = ingest[c]
  BY DEF WhirlpoolInv, WhirlpoolTyped
<1>2. PICK counters \in [Whirlpool!Places -> Whirlpool!Stats] : counters = adapter'
  OBVIOUS
<1> DEFINE new == WhirlpoolChanged(call, pc, feed, total)
<1>3. /\ new \in WhirlpoolCalls /\ new.pc = pc /\ new.feed = feed /\ new.total = total
      /\ new.at = call.at /\ new.stats = call.stats /\ new.taken = call.taken
      /\ new.failures = call.failures
  BY WhirlpoolCallIs
<1>4. ingest' = [ingest EXCEPT ![c] = new] /\ adapter' = counters
      /\ \A i \in Whirlpool!Places : WhirlpoolRight(counters[i])
  BY <1>1, <1>2
<1> HIDE DEF new
<1>5. /\ new.at = ingest[c].at /\ new.stats = ingest[c].stats /\ new.taken = ingest[c].taken
      /\ new.failures = ingest[c].failures
  BY <1>1, <1>3
<1>6. /\ new.pc \in WhirlpoolBusy => new.at \in Whirlpool!Places
      /\ new.pc = "fetch" => new.feed \in DOMAIN Adapters[new.at].feeds
      /\ new.pc = "done" => new.at = Len(Adapters) + 1
  BY <1>3, <1>5
<1>7. new.pc # "cancelled" =>
          new.total + (IF ingest[c].pc \in WhirlpoolBusy THEN adapter[new.at].yielded ELSE 0)
              = ingest[c].total + (IF new.pc \in WhirlpoolBusy THEN counters[new.at].yielded ELSE 0)
  BY <1>2, <1>3, <1>5
<1> QED
  BY <1>3, <1>4, <1>5, <1>6, <1>7, WhirlpoolQuietInv

\* A call begins when none runs.
LEMMA WhirlpoolBeginInv ==
    ASSUME Whirlpool!WhirlpoolAssumption, WhirlpoolInv, NEW c \in Cycles, Whirlpool!Begin(c)
    PROVE  WhirlpoolInv'
<1>1. /\ ingest[c].pc = "new" /\ turn' = c /\ UNCHANGED <<adapter, queue, noted, fed>>
      /\ ingest' = [ingest EXCEPT ![c] = [ingest[c] EXCEPT !.pc = "open"]]
      /\ \A d \in Cycles : d # c => ~ Whirlpool!Running(d)
  BY DEF Whirlpool!Begin
<1>2. PICK call \in WhirlpoolCalls : call = ingest[c]
  BY DEF WhirlpoolInv, WhirlpoolTyped
<1>3. call.feed \in Nat /\ call.total \in Nat /\ "open" \in WhirlpoolPhases
  BY DEF WhirlpoolCalls, WhirlpoolPhases
<1>4. [call EXCEPT !.pc = "open"] = WhirlpoolChanged(call, "open", call.feed, call.total)
  BY <1>3, WhirlpoolCallSame
<1>5. adapter' \in [Whirlpool!Places -> Whirlpool!Stats]
      /\ \A i \in Whirlpool!Places : WhirlpoolRight(adapter'[i])
  BY <1>1 DEF WhirlpoolInv, WhirlpoolTyped
<1>6. "open" \notin WhirlpoolBusy /\ "new" \notin WhirlpoolBusy
  BY DEF WhirlpoolBusy
<1>7. ingest' = [ingest EXCEPT ![c] = WhirlpoolChanged(ingest[c], "open", call.feed, call.total)]
  BY <1>1, <1>2, <1>4
<1>8. call.total + (IF ingest[c].pc \in WhirlpoolBusy THEN adapter[ingest[c].at].yielded ELSE 0)
          = ingest[c].total + (IF "open" \in WhirlpoolBusy THEN adapter'[ingest[c].at].yielded ELSE 0)
  BY <1>1, <1>2, <1>6
<1>9. "open" \in WhirlpoolPhases /\ "open" # "fetch" /\ "open" # "done" /\ ingest[c].pc # "cancelled"
  BY <1>1, <1>3
<1> DEFINE feed == call.feed
           total == call.total
<1>10. /\ feed \in Nat /\ total \in Nat
       /\ ingest' = [ingest EXCEPT ![c] = WhirlpoolChanged(ingest[c], "open", feed, total)]
       /\ total + (IF ingest[c].pc \in WhirlpoolBusy THEN adapter[ingest[c].at].yielded ELSE 0)
             = ingest[c].total + (IF "open" \in WhirlpoolBusy THEN adapter'[ingest[c].at].yielded
                   ELSE 0)
  BY <1>3, <1>7, <1>8
<1> HIDE DEF feed, total
<1> QED
  BY <1>1, <1>5, <1>6, <1>9, <1>10, WhirlpoolQuietStep

\* The counters are those of this cycle.
LEMMA WhirlpoolOpenClientInv ==
    ASSUME Whirlpool!WhirlpoolAssumption, WhirlpoolInv, NEW c \in Cycles, Whirlpool!OpenClient(c)
    PROVE  WhirlpoolInv'
<1>1. /\ ingest[c].pc = "open" /\ ingest[c].at \in Whirlpool!Places /\ turn' = turn
         /\ UNCHANGED <<queue, noted, fed>>
      /\ ingest' = [ingest EXCEPT ![c] = [ingest[c] EXCEPT !.pc = "feed", !.feed = 1]]
      /\ adapter' = [adapter EXCEPT ![ingest[c].at] = Whirlpool!Reset(ingest[c].at)]
  BY DEF Whirlpool!OpenClient, Whirlpool!At, Whirlpool!Here
<1>2. PICK call \in WhirlpoolCalls : call = ingest[c]
  BY DEF WhirlpoolInv, WhirlpoolTyped
<1>3. 1 \in Nat /\ call.total \in Nat /\ "feed" \in WhirlpoolPhases
  BY DEF WhirlpoolCalls, WhirlpoolPhases
<1>4. [call EXCEPT !.pc = "feed", !.feed = 1] = WhirlpoolChanged(call, "feed", 1, call.total)
  BY <1>3, WhirlpoolCallSame
<1>5. \A d \in Cycles : d # c => ~ Whirlpool!Running(d)
  BY <1>1, WhirlpoolAlone DEF Whirlpool!Running
<1>6. "open" \notin WhirlpoolBusy /\ "feed" \in WhirlpoolBusy /\ "feed" # "fetch" /\ "feed" # "done"
  BY DEF WhirlpoolBusy
<1>7. ingest' = [ingest EXCEPT ![c] = WhirlpoolChanged(ingest[c], "feed", 1, call.total)]
  BY <1>1, <1>2, <1>4
<1>8. /\ adapter' \in [Whirlpool!Places -> Whirlpool!Stats]
         /\ (\A j \in Whirlpool!Places : WhirlpoolRight(adapter'[j]))
      /\ adapter'[ingest[c].at].yielded = 0
  <2>1. WhirlpoolRight(Whirlpool!Reset(ingest[c].at)) /\ Whirlpool!Reset(ingest[c].at).yielded = 0
    BY WhirlpoolFreshIs
  <2> QED BY <1>1, <2>1, WhirlpoolCountersAre
<1>9. call.total + (IF ingest[c].pc \in WhirlpoolBusy THEN adapter[ingest[c].at].yielded ELSE 0)
          = ingest[c].total + (IF "feed" \in WhirlpoolBusy THEN adapter'[ingest[c].at].yielded ELSE 0)
  BY <1>1, <1>2, <1>6, <1>8
<1>10. turn' \in Cycles \cup {0}
  BY <1>1 DEF WhirlpoolInv, WhirlpoolTyped
<1> DEFINE total == call.total
           feed == 1
<1>11. /\ feed \in Nat /\ total \in Nat /\ ingest[c].pc # "cancelled"
       /\ ingest' = [ingest EXCEPT ![c] = WhirlpoolChanged(ingest[c], "feed", feed, total)]
       /\ total + (IF ingest[c].pc \in WhirlpoolBusy THEN adapter[ingest[c].at].yielded ELSE 0)
             = ingest[c].total + (IF "feed" \in WhirlpoolBusy THEN adapter'[ingest[c].at].yielded
                   ELSE 0)
  BY <1>1, <1>3, <1>7, <1>9
<1> HIDE DEF feed, total
<1> QED
  <2>1. ingest[c].at \in Whirlpool!Places /\ UNCHANGED <<queue, noted, fed>>
    BY <1>1
  <2>2. "feed" \in WhirlpoolPhases
    BY <1>3
  <2>3. adapter' \in [Whirlpool!Places -> Whirlpool!Stats]
        /\ \A j \in Whirlpool!Places : WhirlpoolRight(adapter'[j])
    BY <1>8
  <2> QED BY <1>5, <1>6, <1>10, <1>11, <2>1, <2>2, <2>3, WhirlpoolQuietStep

\* A feed that gives nothing is a failure and no item.
LEMMA WhirlpoolFailedInv ==
    ASSUME Whirlpool!WhirlpoolAssumption, WhirlpoolInv, NEW c \in Cycles, Whirlpool!Refuse(c)
           \/ Whirlpool!FetchFails(c)
    PROVE  WhirlpoolInv'
<1>1. PICK call \in WhirlpoolCalls : call = ingest[c]
  BY DEF WhirlpoolInv, WhirlpoolTyped
<1>2. /\ call.pc \in {"feed", "fetch"} /\ turn' \in Cycles \cup {0} /\ UNCHANGED <<queue, noted, fed>>
      /\ call.pc = "feed" => ingest' = [ingest EXCEPT ![c] = [call EXCEPT !.feed = call.feed + 1]]
      /\ call.pc = "fetch" => ingest' = [ingest EXCEPT ![c] = [call EXCEPT !.pc = "feed",
         !.feed = call.feed + 1]]
      /\ adapter' = [adapter EXCEPT ![call.at] = Whirlpool!Failed(adapter[call.at])]
  BY <1>1 DEF Whirlpool!Refuse, Whirlpool!FetchFails, Whirlpool!At, Whirlpool!Here, WhirlpoolInv,
     WhirlpoolTyped
<1>3. call.feed + 1 \in Nat /\ call.total \in Nat /\ "feed" \in WhirlpoolPhases
      /\ call.pc \in WhirlpoolPhases
  BY DEF WhirlpoolCalls, WhirlpoolPhases
<1>4. ingest' = [ingest EXCEPT ![c] = WhirlpoolChanged(call, "feed", call.feed + 1, call.total)]
  <2> DEFINE feed == call.feed + 1
  <2>1. feed \in Nat
    BY <1>3
  <2> DEFINE one == [call EXCEPT !.feed = feed]
             two == [call EXCEPT !.pc = "feed", !.feed = feed]
  <2>2. /\ call.pc = "feed" => ingest' = [ingest EXCEPT ![c] = one]
        /\ call.pc = "fetch" => ingest' = [ingest EXCEPT ![c] = two]
    BY <1>2
  <2> HIDE DEF feed
  <2>3. two = WhirlpoolChanged(call, "feed", feed, call.total)
        /\ one = WhirlpoolChanged(call, call.pc, feed, call.total)
    BY <1>3, <2>1, WhirlpoolCallSame
  <2> HIDE DEF one, two
  <2>4. call.pc = "feed" => ingest' = [ingest EXCEPT ![c] = WhirlpoolChanged(call, "feed", feed,
        call.total)]
    <3>1. call.pc = "feed" => one = WhirlpoolChanged(call, "feed", feed, call.total)
      BY <2>3
    <3> QED BY <2>2, <3>1
  <2>5. call.pc = "fetch" => ingest' = [ingest EXCEPT ![c] = WhirlpoolChanged(call, "feed", feed,
        call.total)]
    BY <2>2, <2>3
  <2> QED BY <1>2, <2>4, <2>5 DEF feed
<1>5. \A d \in Cycles : d # c => ~ Whirlpool!Running(d)
  BY <1>1, <1>2, WhirlpoolAlone DEF Whirlpool!Running
<1>6. "fetch" \in WhirlpoolBusy /\ "feed" \in WhirlpoolBusy /\ "feed" # "fetch" /\ "feed" # "done"
  BY DEF WhirlpoolBusy
<1>7. call.at \in Whirlpool!Places
  BY <1>1, <1>2, <1>6 DEF WhirlpoolInv, WhirlpoolConsistent
<1>8. /\ adapter' \in [Whirlpool!Places -> Whirlpool!Stats]
         /\ (\A j \in Whirlpool!Places : WhirlpoolRight(adapter'[j]))
      /\ adapter'[call.at].yielded = adapter[call.at].yielded
  <2>1. WhirlpoolRight(Whirlpool!Failed(adapter[call.at]))
        /\ Whirlpool!Failed(adapter[call.at]).yielded = adapter[call.at].yielded
    BY <1>7, WhirlpoolFailedIs DEF WhirlpoolInv
  <2> QED BY <1>2, <1>7, <2>1, WhirlpoolCountersAre
<1>9. call.total + (IF ingest[c].pc \in WhirlpoolBusy THEN adapter[ingest[c].at].yielded ELSE 0)
          = ingest[c].total + (IF "feed" \in WhirlpoolBusy THEN adapter'[ingest[c].at].yielded ELSE 0)
  BY <1>1, <1>2, <1>6, <1>8
<1>10. ingest' = [ingest EXCEPT ![c] = WhirlpoolChanged(ingest[c], "feed", call.feed + 1, call.total)]
  BY <1>1, <1>4
<1>11. ingest[c].pc # "cancelled" /\ ingest[c].at \in Whirlpool!Places
  BY <1>1, <1>2, <1>7
<1> DEFINE feed == call.feed + 1
<1> HIDE DEF feed
<1>12. feed \in Nat /\ ingest' = [ingest EXCEPT ![c] = WhirlpoolChanged(ingest[c], "feed", feed,
      call.total)]
  BY <1>3, <1>10 DEF feed
<1> QED
  BY <1>2, <1>3, <1>5, <1>6, <1>8, <1>9, <1>11, <1>12, WhirlpoolQuietStep

\* The steps of a call that change neither its feed nor its total.
LEMMA WhirlpoolMoveOnInv ==
    ASSUME Whirlpool!WhirlpoolAssumption, WhirlpoolInv, NEW c \in Cycles,
           Whirlpool!Fetch(c) \/ Whirlpool!CloseClient(c) \/ Whirlpool!Return(c) \/ Whirlpool!Cancel(c)
    PROVE  WhirlpoolInv'
<1>1. PICK call \in WhirlpoolCalls : call = ingest[c]
  BY DEF WhirlpoolInv, WhirlpoolTyped
<1>2. call.feed \in Nat /\ call.total \in Nat
  BY WhirlpoolCallSame
<1>3. WhirlpoolConsistent(call, adapter) \/ call.pc = "cancelled"
  BY <1>1 DEF WhirlpoolInv
<1>4. PICK pc \in WhirlpoolPhases :
          /\ \/ pc = "fetch" /\ Whirlpool!Fetch(c)
             \/ pc = "close" /\ Whirlpool!CloseClient(c)
             \/ pc = "done" /\ Whirlpool!Return(c)
             \/ pc = "cancelled" /\ Whirlpool!Cancel(c)
          /\ ingest' = [ingest EXCEPT ![c] = [call EXCEPT !.pc = pc]]
  <2>1. {"fetch", "close", "done", "cancelled"} \subseteq WhirlpoolPhases
    BY DEF WhirlpoolPhases
  <2> QED BY <1>1, <2>1 DEF Whirlpool!Fetch, Whirlpool!CloseClient, Whirlpool!Return, Whirlpool!Cancel
<1>5. ingest' = [ingest EXCEPT ![c] = WhirlpoolChanged(ingest[c], pc, call.feed, call.total)]
  BY <1>1, <1>4, WhirlpoolCallSame
<1>6. call.pc \in {"open", "feed", "fetch", "close"} /\ UNCHANGED <<queue, noted, fed>>
      /\ turn' \in Cycles \cup {0}
  BY <1>1, <1>4 DEF Whirlpool!Fetch, Whirlpool!CloseClient, Whirlpool!Return, Whirlpool!Cancel,
     Whirlpool!At, WhirlpoolInv, WhirlpoolTyped
<1>7. \A d \in Cycles : d # c => ~ Whirlpool!Running(d)
  BY <1>1, <1>6, WhirlpoolAlone DEF Whirlpool!Running
<1>8. call.pc # "cancelled" /\ WhirlpoolConsistent(call, adapter)
  BY <1>3, <1>6
<1>9. WhirlpoolBusy = {"feed", "fetch", "close"}
  BY DEF WhirlpoolBusy
<1>10. call.pc \in WhirlpoolBusy => call.at \in Whirlpool!Places
  BY <1>8 DEF WhirlpoolConsistent
<1>11. adapter' \in [Whirlpool!Places -> Whirlpool!Stats]
      /\ \A i \in Whirlpool!Places : WhirlpoolRight(adapter'[i])
  <2>1. CASE Whirlpool!Cancel(c)
    <3>1. call.at \in Whirlpool!Places
          /\ adapter' = [adapter EXCEPT ![call.at] = Whirlpool!Completed(adapter[call.at])]
      BY <1>1, <1>9, <1>10, <2>1 DEF Whirlpool!Cancel, Whirlpool!Here
    <3>2. WhirlpoolRight(Whirlpool!Completed(adapter[call.at]))
      BY <3>1, WhirlpoolFailedIs DEF WhirlpoolInv
    <3> QED BY <3>1, <3>2, WhirlpoolCountersAre
  <2>2. CASE Whirlpool!Fetch(c) \/ Whirlpool!CloseClient(c) \/ Whirlpool!Return(c)
    <3>1. adapter' = adapter
      BY <2>2 DEF Whirlpool!Fetch, Whirlpool!CloseClient, Whirlpool!Return
    <3> QED BY <3>1 DEF WhirlpoolInv, WhirlpoolTyped
  <2> QED BY <1>4, <2>1, <2>2
<1>12. /\ pc \in WhirlpoolBusy => call.at \in Whirlpool!Places
       /\ pc = "fetch" => call.feed \in DOMAIN Adapters[call.at].feeds
  <2>1. pc \in WhirlpoolBusy => call.pc = "feed"
    BY <1>1, <1>4, <1>9 DEF Whirlpool!Fetch, Whirlpool!CloseClient, Whirlpool!At
  <2>2. pc = "fetch" => call.feed \in DOMAIN Adapters[call.at].feeds
    BY <1>1, <1>4 DEF Whirlpool!Fetch, Whirlpool!Feeds, Whirlpool!Here
  <2> QED BY <1>9, <1>10, <2>1, <2>2
<1>13. pc = "done" => call.at = Len(Adapters) + 1
  <2>1. Len(Adapters) \in Nat /\ Whirlpool!Places = 1 .. Len(Adapters)
    BY WhirlpoolFinite
  <2>2. pc = "done" => call.at \notin Whirlpool!Places
    BY <1>1, <1>4 DEF Whirlpool!Return, Whirlpool!Here
  <2>3. call.at \in 1 .. Len(Adapters) + 1
    BY <1>8 DEF WhirlpoolConsistent
  <2> QED BY <2>1, <2>2, <2>3
<1>14. pc # "cancelled" =>
           call.total + (IF call.pc \in WhirlpoolBusy THEN adapter[call.at].yielded ELSE 0)
               = call.total + (IF pc \in WhirlpoolBusy THEN adapter'[call.at].yielded ELSE 0)
  <2>1. pc # "cancelled" => adapter' = adapter /\ (pc \in WhirlpoolBusy <=> call.pc \in WhirlpoolBusy)
    <3>1. pc = "fetch" \/ pc = "close" => adapter' = adapter /\ call.pc = "feed"
      BY <1>1, <1>4 DEF Whirlpool!Fetch, Whirlpool!CloseClient, Whirlpool!At
    <3>2. pc = "done" => adapter' = adapter /\ call.pc = "open"
      BY <1>1, <1>4 DEF Whirlpool!Return, Whirlpool!At
    <3> QED BY <1>4, <1>9, <3>1, <3>2
  <2> QED BY <2>1
<1> DEFINE feed == call.feed
           total == call.total
<1>15. /\ feed \in Nat /\ total \in Nat
          /\ ingest' = [ingest EXCEPT ![c] = WhirlpoolChanged(ingest[c], pc, feed, total)]
       /\ pc = "fetch" => feed \in DOMAIN Adapters[ingest[c].at].feeds
       /\ pc # "cancelled" =>
              total + (IF ingest[c].pc \in WhirlpoolBusy THEN adapter[ingest[c].at].yielded ELSE 0)
                  = ingest[c].total + (IF pc \in WhirlpoolBusy THEN adapter'[ingest[c].at].yielded
                        ELSE 0)
  BY <1>1, <1>2, <1>5, <1>12, <1>14
<1>16. /\ ingest[c].pc # "cancelled"
       /\ pc \in WhirlpoolBusy => ingest[c].at \in Whirlpool!Places
       /\ pc = "done" => ingest[c].at = Len(Adapters) + 1
  BY <1>1, <1>8, <1>12, <1>13
<1> HIDE DEF feed, total
<1> QED
  BY <1>6, <1>7, <1>11, <1>15, <1>16, WhirlpoolQuietStep

\* The items of a feed are counted with its source and with the call.
LEMMA WhirlpoolFetchSucceedsInv ==
    ASSUME Whirlpool!WhirlpoolAssumption, WhirlpoolInv, NEW c \in Cycles, Whirlpool!FetchSucceeds(c)
    PROVE  WhirlpoolInv'
<1>1. PICK call \in WhirlpoolCalls : call = ingest[c]
  BY DEF WhirlpoolInv, WhirlpoolTyped
<1>2. /\ call.feed \in Nat /\ call.total \in Nat /\ call.pc = "fetch" /\ turn' = c
      /\ UNCHANGED <<queue, noted, fed>>
  BY <1>1, WhirlpoolCallSame DEF Whirlpool!FetchSucceeds
<1>3. PICK n \in Nat :
          /\ adapter' = [adapter EXCEPT ![call.at] =
                             Whirlpool!Yield(adapter[call.at],
                                   Adapters[call.at].feeds[call.feed].source, n)]
          /\ ingest' = [ingest EXCEPT ![c] = WhirlpoolChanged(ingest[c], "feed", call.feed + 1,
             call.total + n)]
  <2>1. PICK m \in Entries :
          /\ adapter' = [adapter EXCEPT ![Whirlpool!Here(c)] = Whirlpool!Yield(@,
             Whirlpool!Feeds(c)[ingest[c].feed].source, Whirlpool!Capped(m))]
          /\ ingest' = [ingest EXCEPT ![c].pc = "feed", ![c].feed = @ + 1,
             ![c].total = @ + Whirlpool!Capped(m)]
    BY DEF Whirlpool!FetchSucceeds
  <2>2. Whirlpool!Capped(m) \in Nat
    BY DEF Whirlpool!Capped, Whirlpool!WhirlpoolAssumption
  <2> DEFINE n == Whirlpool!Capped(m)
  <2>3. ingest' = [ingest EXCEPT ![c] = WhirlpoolChanged(ingest[c], "feed", call.feed + 1,
        call.total + n)]
    BY <1>1, <2>1 DEF WhirlpoolChanged, WhirlpoolInv, WhirlpoolTyped
  <2>4. adapter' = [adapter EXCEPT ![call.at] =
                        Whirlpool!Yield(adapter[call.at], Adapters[call.at].feeds[call.feed].source, n)]
    BY <1>1, <2>1 DEF Whirlpool!Here, Whirlpool!Feeds
  <2> HIDE DEF n
  <2> QED BY <2>2, <2>3, <2>4 DEF n
<1>4. WhirlpoolConsistent(call, adapter) /\ call.at \in Whirlpool!Places
      /\ call.feed \in DOMAIN Adapters[call.at].feeds
  BY <1>1, <1>2 DEF WhirlpoolInv, WhirlpoolConsistent, WhirlpoolBusy
<1> DEFINE host == Adapters[call.at].feeds[call.feed].source
           st == Whirlpool!Yield(adapter[call.at], host, n)
<1>5. host \in Whirlpool!Sources
  BY <1>4 DEF Whirlpool!Sources, Whirlpool!ToSet
<1>6. WhirlpoolRight(adapter[call.at])
  BY <1>4 DEF WhirlpoolInv
<1>7. WhirlpoolRight(st) /\ st.yielded = adapter[call.at].yielded + n
  <2> HIDE DEF host
  <2> QED BY <1>5, <1>6, WhirlpoolYieldIs
<1>8. adapter' = [adapter EXCEPT ![call.at] = st]
  BY <1>3
<1> HIDE DEF st, host
<1>9. adapter' \in [Whirlpool!Places -> Whirlpool!Stats]
      /\ (\A j \in Whirlpool!Places : WhirlpoolRight(adapter'[j])) /\ adapter'[call.at] = st
  BY <1>4, <1>7, <1>8, WhirlpoolCountersAre
<1>10. \A d \in Cycles : d # c => ~ Whirlpool!Running(d)
  BY <1>1, <1>2, WhirlpoolAlone DEF Whirlpool!Running
<1> DEFINE feed == call.feed + 1
           total == call.total + n
<1>11. feed \in Nat /\ total \in Nat
      /\ ingest' = [ingest EXCEPT ![c] = WhirlpoolChanged(ingest[c], "feed", feed, total)]
  BY <1>2, <1>3
<1>12. "feed" \in WhirlpoolPhases /\ "feed" \in WhirlpoolBusy /\ "fetch" \in WhirlpoolBusy
      /\ "feed" # "fetch" /\ "feed" # "done"
  BY DEF WhirlpoolPhases, WhirlpoolBusy
<1>13. total + adapter[call.at].yielded = call.total + adapter'[call.at].yielded
  <2>1. adapter[call.at].yielded \in Nat
    BY <1>6 DEF WhirlpoolRight, Whirlpool!Stats
  <2> QED BY <1>2, <1>7, <1>9, <2>1
<1> HIDE DEF feed, total
<1>14. total + (IF ingest[c].pc \in WhirlpoolBusy THEN adapter[ingest[c].at].yielded ELSE 0)
           = ingest[c].total + (IF "feed" \in WhirlpoolBusy THEN adapter'[ingest[c].at].yielded ELSE 0)
  BY <1>1, <1>2, <1>12, <1>13
<1>15. ingest[c].at \in Whirlpool!Places /\ ingest[c].pc # "cancelled" /\ turn' \in Cycles \cup {0}
  BY <1>1, <1>2, <1>4
<1>16. adapter' \in [Whirlpool!Places -> Whirlpool!Stats]
      /\ \A j \in Whirlpool!Places : WhirlpoolRight(adapter'[j])
  BY <1>9
<1>17. UNCHANGED <<queue, noted, fed>>
  BY <1>2
<1> QED
  BY <1>10, <1>11, <1>12, <1>14, <1>15, <1>16, <1>17, WhirlpoolQuietStep

\* A call that has collected a report of what it took.
LEMMA WhirlpoolCollectedConsistent ==
    ASSUME Whirlpool!WhirlpoolAssumption, NEW mid \in WhirlpoolCalls, NEW st \in Whirlpool!Stats,
           NEW counters,
           mid.at \in Whirlpool!Places, Len(mid.stats) = mid.at - 1,
           mid.total = Whirlpool!Total(WhirlpoolYieldedBefore(mid)) + st.yielded,
           mid.failures = Whirlpool!Total(WhirlpoolFailedBefore(mid)),
           \A j \in Whirlpool!Places : j > mid.at => mid.taken[j] = <<>>
    PROVE  /\ Whirlpool!Collected(mid, st) \in WhirlpoolCalls
           /\ Whirlpool!Collected(mid, st).taken = mid.taken
           /\ WhirlpoolConsistent(Whirlpool!Collected(mid, st), counters)
<1> DEFINE new == Whirlpool!Collected(mid, st)
<1>1. /\ new \in WhirlpoolCalls /\ new.pc = "open" /\ new.at = mid.at + 1
      /\ new.at \in 1 .. Len(Adapters) + 1
      /\ Len(new.stats) = new.at - 1
      /\ new.total = mid.total /\ new.taken = mid.taken /\ new.failures = mid.failures + st.failures
      /\ Whirlpool!Total(WhirlpoolYieldedBefore(new)) = Whirlpool!Total(WhirlpoolYieldedBefore(mid)) + st.yielded
      /\ Whirlpool!Total(WhirlpoolFailedBefore(new)) = Whirlpool!Total(WhirlpoolFailedBefore(mid)) + st.failures
  BY WhirlpoolCollectedIs
<1> HIDE DEF new
<1>2. Whirlpool!Places = 1 .. Len(Adapters) /\ Len(Adapters) \in Nat
  BY WhirlpoolFinite
<1>3. \A j \in Whirlpool!Places : j >= new.at => j > mid.at
  BY <1>1, <1>2
<1>4. new.total \in Nat
  BY <1>1 DEF WhirlpoolCalls
<1>5. new.total = Whirlpool!Total(WhirlpoolYieldedBefore(new)) + 0
  BY <1>1, <1>4
<1>6. WhirlpoolConsistent(new, counters)
  BY <1>1, <1>3, <1>5 DEF WhirlpoolConsistent, WhirlpoolBusy
<1> QED
  BY <1>1, <1>6 DEF new

\* The report of a feed reader is what it has counted.
LEMMA WhirlpoolClosedInv ==
    ASSUME Whirlpool!WhirlpoolAssumption, WhirlpoolInv, NEW c \in Cycles, Whirlpool!Closed(c)
    PROVE  WhirlpoolInv'
<1>1. PICK call \in WhirlpoolCalls : call = ingest[c]
  BY DEF WhirlpoolInv, WhirlpoolTyped
<1>2. /\ call.pc = "close" /\ turn' = c /\ UNCHANGED <<queue, noted, fed>>
      /\ adapter' = [adapter EXCEPT ![call.at] = Whirlpool!Completed(adapter[call.at])]
      /\ ingest' = [ingest EXCEPT ![c] = Whirlpool!Collected(call,
         Whirlpool!Completed(adapter[call.at]))]
  BY <1>1 DEF Whirlpool!Closed, Whirlpool!Here
<1>3. WhirlpoolConsistent(call, adapter) /\ call.at \in Whirlpool!Places /\ call.pc \in WhirlpoolBusy
  BY <1>1, <1>2 DEF WhirlpoolInv, WhirlpoolConsistent, WhirlpoolBusy
<1> DEFINE st == Whirlpool!Completed(adapter[call.at])
           new == Whirlpool!Collected(call, st)
<1>4. WhirlpoolRight(st) /\ st.yielded = adapter[call.at].yielded
  BY <1>3, WhirlpoolFailedIs DEF WhirlpoolInv
<1>5. st \in Whirlpool!Stats
  BY <1>4 DEF WhirlpoolRight
<1>6. adapter' = [adapter EXCEPT ![call.at] = st] /\ ingest' = [ingest EXCEPT ![c] = new]
  BY <1>2
<1> HIDE DEF st
<1>7. adapter' \in [Whirlpool!Places -> Whirlpool!Stats]
      /\ \A j \in Whirlpool!Places : WhirlpoolRight(adapter'[j])
  BY <1>3, <1>4, <1>6, WhirlpoolCountersAre
<1>8. /\ Len(call.stats) = call.at - 1
      /\ call.total = Whirlpool!Total(WhirlpoolYieldedBefore(call)) + st.yielded
      /\ call.failures = Whirlpool!Total(WhirlpoolFailedBefore(call))
  BY <1>3, <1>4 DEF WhirlpoolConsistent
<1>9. \A j \in Whirlpool!Places : j > call.at => call.taken[j] = <<>>
  <2>1. \A j \in Whirlpool!Places : j > call.at => j >= call.at
    BY <1>3, WhirlpoolFinite
  <2> QED BY <1>3, <2>1 DEF WhirlpoolConsistent
<1>10. PICK counters \in [Whirlpool!Places -> Whirlpool!Stats] : counters = adapter'
  BY <1>7
<1>11. new \in WhirlpoolCalls /\ new.taken = call.taken /\ WhirlpoolConsistent(new, counters)
  BY <1>3, <1>5, <1>8, <1>9, WhirlpoolCollectedConsistent
<1> HIDE DEF new
<1>12. \A d \in Cycles : d # c => ~ Whirlpool!Running(d)
  BY <1>1, <1>2, WhirlpoolAlone DEF Whirlpool!Running
<1>13. WhirlpoolConserved(queue', ingest', fed')
  BY <1>1, <1>2, <1>6, <1>11, WhirlpoolKeptSame
<1>14. /\ queue' \in [Whirlpool!Places -> Seq(Nat)] /\ noted' \in [Whirlpool!Places -> Nat]
          /\ fed' \in [Whirlpool!Places -> Nat]
       /\ turn' \in Cycles \cup {0}
  BY <1>2 DEF WhirlpoolInv, WhirlpoolTyped
<1>15. adapter' = counters /\ \A j \in Whirlpool!Places : WhirlpoolRight(counters[j])
  BY <1>7, <1>10
<1> QED
  BY <1>6, <1>11, <1>12, <1>13, <1>14, <1>15, WhirlpoolStepInv

\* A queue changes hands as a whole.
LEMMA WhirlpoolKeptServed ==
    ASSUME Whirlpool!WhirlpoolAssumption, WhirlpoolInv, NEW c \in Cycles, NEW i \in Whirlpool!Places,
           NEW new \in WhirlpoolCalls
    PROVE  /\ ingest[c].taken[i] = <<>> /\ new.taken = [ingest[c].taken EXCEPT ![i] = queue[i]]
           /\ ingest' = [ingest EXCEPT ![c] = new] /\ queue' = [queue EXCEPT ![i] = <<>>] /\ fed' = fed
           => WhirlpoolConserved(queue', ingest', fed')
<1>0. SUFFICES ASSUME ingest[c].taken[i] = <<>>, new.taken = [ingest[c].taken EXCEPT ![i] = queue[i]],
                      ingest' = [ingest EXCEPT ![c] = new], queue' = [queue EXCEPT ![i] = <<>>],
                      fed' = fed
               PROVE  WhirlpoolConserved(queue', ingest', fed')
  OBVIOUS
<1>1. /\ ingest \in [Cycles -> WhirlpoolCalls] /\ queue \in [Whirlpool!Places -> Seq(Nat)]
         /\ fed \in [Whirlpool!Places -> Nat]
      /\ ingest' \in [Cycles -> WhirlpoolCalls] /\ queue[i] \in Seq(Nat) /\ Len(queue[i]) \in Nat
      /\ ingest'[c] = new /\ \A d \in Cycles : d # c => ingest'[d] = ingest[d]
      /\ queue'[i] = <<>> /\ \A j \in Whirlpool!Places : j # i => queue'[j] = queue[j]
      /\ \A j \in Whirlpool!Places : fed'[j] = fed[j]
  BY <1>0, LenProperties DEF WhirlpoolInv, WhirlpoolTyped
<1>2. \A d \in Cycles, j \in Whirlpool!Places :
         ingest'[d].taken[j] = IF d = c /\ j = i THEN queue[i] ELSE ingest[d].taken[j]
  <2>1. ingest[c].taken \in [Whirlpool!Places -> Seq(Nat)]
    BY <1>1 DEF WhirlpoolCalls
  <2> QED BY <1>0, <1>1, <2>1
<1>3. Whirlpool!ToSet(<<>>) = {} /\ Len(<<>>) = 0
  BY EmptySeq DEF Whirlpool!ToSet
<1>4. \A j \in Whirlpool!Places : fed'[j] = fed[j]
  BY <1>1
<1>5. ASSUME NEW j \in Whirlpool!Places
      PROVE  /\ Whirlpool!ToSet(queue'[j]) \cup (UNION {Whirlpool!ToSet(ingest'[d].taken[j]) : d \in Cycles}) = 1 .. fed'[j]
             /\ Len(queue'[j]) + Whirlpool!Total([d \in Cycles |-> Len(ingest'[d].taken[j])]) = fed'[j]
  <2> DEFINE U == UNION {Whirlpool!ToSet(ingest[d].taken[j]) : d \in Cycles}
             V == UNION {Whirlpool!ToSet(ingest'[d].taken[j]) : d \in Cycles}
             f == [d \in Cycles |-> Len(ingest[d].taken[j])]
             h == [d \in Cycles |-> Len(ingest'[d].taken[j])]
  <2>1. Whirlpool!ToSet(queue[j]) \cup U = 1 .. fed[j] /\ Len(queue[j]) + Whirlpool!Total(f) = fed[j]
    BY DEF WhirlpoolInv, WhirlpoolConserved
  <2>2. CASE j # i
    <3>1. \A d \in Cycles : ingest'[d].taken[j] = ingest[d].taken[j]
      BY <1>2, <2>2
    <3>2. U = V /\ f = h /\ queue'[j] = queue[j]
      BY <1>1, <2>2, <3>1
    <3> HIDE DEF U, V, f, h
    <3>3. Whirlpool!ToSet(queue'[j]) \cup V = 1 .. fed'[j]
          /\ Len(queue'[j]) + Whirlpool!Total(h) = fed'[j]
      BY <1>4, <2>1, <3>2
    <3> QED BY <3>3 DEF V, h
  <2>3. CASE j = i
    <3>1. queue'[j] = <<>>
      BY <1>1, <2>3
    <3>2. /\ ingest'[c].taken[j] = queue[j] /\ ingest[c].taken[j] = <<>>
          /\ \A d \in Cycles : d # c => ingest'[d].taken[j] = ingest[d].taken[j]
      BY <1>0, <1>2, <2>3
    <3>3. V = Whirlpool!ToSet(queue[j]) \cup U
      BY <1>3, <3>2
    <3>4. f \in [Cycles -> Nat] /\ h \in [Cycles -> Nat]
      <4>1. \A d \in Cycles : ingest[d].taken[j] \in Seq(Nat) /\ ingest'[d].taken[j] \in Seq(Nat)
        BY <1>1 DEF WhirlpoolCalls
      <4> QED BY <4>1, LenProperties
    <3>5. /\ \A d \in Cycles : d # c => h[d] = f[d]
          /\ h[c] = Len(queue[j]) /\ f[c] = 0
      BY <1>3, <3>2
    <3>6. Len(queue[j]) \in Nat /\ IsFiniteSet(Cycles)
      BY <1>1, <2>3, WhirlpoolFinite
    <3> HIDE DEF U, V, f, h
    <3>7. Whirlpool!Total(h) = Whirlpool!Total(f) + Len(queue[j])
      <4>1. PICK p \in [Cycles -> Nat], q \in [Cycles -> Nat] : p = f /\ q = h
        BY <3>4
      <4>2. PICK m \in Nat : m = Len(queue[j])
        BY <3>6
      <4>3. q[c] = m /\ p[c] = 0
        BY <3>5, <4>1, <4>2
      <4>4. \A d \in Cycles : d # c => q[d] = p[d]
        BY <3>5, <4>1
      <4>5. Whirlpool!Total(q) = Whirlpool!Total(p) + m
        BY <3>6, <4>3, <4>4, WhirlpoolTotalAdded
      <4> QED BY <4>1, <4>2, <4>5
    <3>8. Whirlpool!Total(f) \in Nat
      BY <3>4, <3>6, WhirlpoolTotalTyped
    <3>9. Whirlpool!ToSet(queue'[j]) \cup V = 1 .. fed'[j]
      BY <1>3, <1>4, <2>1, <3>1, <3>3
    <3>10. Len(queue'[j]) + Whirlpool!Total(h) = fed'[j]
      BY <1>3, <1>4, <2>1, <3>1, <3>6, <3>7, <3>8
    <3> QED BY <3>9, <3>10 DEF V, h
  <2> QED BY <2>2, <2>3
<1> QED
  BY <1>5 DEF WhirlpoolConserved

\* An in-memory adapter yields what it was fed.
LEMMA WhirlpoolServeQueueInv ==
    ASSUME Whirlpool!WhirlpoolAssumption, WhirlpoolInv, NEW c \in Cycles, Whirlpool!ServeQueue(c)
    PROVE  WhirlpoolInv'
<1>1. PICK call \in WhirlpoolCalls : call = ingest[c]
  BY DEF WhirlpoolInv, WhirlpoolTyped
<1>2. PICK i \in Whirlpool!Places : i = call.at
  BY <1>1 DEF Whirlpool!ServeQueue, Whirlpool!Here
<1> DEFINE n == Len(queue[i])
           given == [Whirlpool!Yield(Whirlpool!Reset(i), Whirlpool!Own, n) EXCEPT !.failures = noted[i]]
           st == Whirlpool!Completed(given)
           mid == [call EXCEPT !.total = call.total + n, !.taken[i] = queue[i]]
           new == Whirlpool!Collected(mid, st)
<1>3. /\ call.pc = "open" /\ UNCHANGED <<fed, turn>>
      /\ adapter' = [adapter EXCEPT ![i] = st]
      /\ queue' = [queue EXCEPT ![i] = <<>>] /\ noted' = [noted EXCEPT ![i] = 0]
      /\ ingest' = [ingest EXCEPT ![c] = new]
  <2>1. i = ingest[c].at
    BY <1>1, <1>2
  <2>2. /\ ingest[c].pc = "open" /\ UNCHANGED <<fed, turn>>
        /\ adapter' = [adapter EXCEPT ![i] = st]
        /\ queue' = [queue EXCEPT ![i] = <<>>] /\ noted' = [noted EXCEPT ![i] = 0]
        /\ ingest' = [ingest EXCEPT ![c] = Whirlpool!Collected(Whirlpool!Took(c, i), st)]
    BY <2>1 DEF Whirlpool!ServeQueue, Whirlpool!At, Whirlpool!Here
  <2> HIDE DEF st, n
  <2>3. Whirlpool!Took(c, i) = mid
    BY <1>1 DEF Whirlpool!Took, n
  <2> HIDE DEF mid
  <2>4. ingest' = [ingest EXCEPT ![c] = new]
    BY <2>2, <2>3
  <2> QED BY <1>1, <2>2, <2>4
<1>4. queue[i] \in Seq(Nat) /\ n \in Nat /\ noted[i] \in Nat /\ Whirlpool!Own \in Whirlpool!Sources
  BY LenProperties DEF WhirlpoolInv, WhirlpoolTyped, Whirlpool!Sources
<1>5. WhirlpoolRight(st) /\ st.yielded = n
  <2>1. WhirlpoolRight(Whirlpool!Reset(i)) /\ Whirlpool!Reset(i).yielded = 0
    BY WhirlpoolFreshIs
  <2> DEFINE y == Whirlpool!Yield(Whirlpool!Reset(i), Whirlpool!Own, n)
  <2>2. WhirlpoolRight(y) /\ y.yielded = 0 + n
    <3> HIDE DEF n
    <3> QED BY <1>4, <2>1, WhirlpoolYieldIs
  <2> HIDE DEF y
  <2>3. WhirlpoolRight(given) /\ given.yielded = y.yielded
    <3> DEFINE k == noted[i]
    <3>1. given = [y EXCEPT !.failures = k] /\ k \in Nat
      BY <1>4 DEF y
    <3> HIDE DEF given, k
    <3>2. given \in Whirlpool!Stats /\ given.yielded = y.yielded /\ given.counts = y.counts
      BY <2>2, <3>1 DEF WhirlpoolRight, Whirlpool!Stats
    <3> QED BY <2>2, <3>2 DEF WhirlpoolRight
  <2> HIDE DEF given, n
  <2>4. WhirlpoolRight(st) /\ st.yielded = given.yielded
    BY <2>3, WhirlpoolFailedIs
  <2> QED BY <1>4, <2>2, <2>3, <2>4
<1> HIDE DEF st
<1>6. st \in Whirlpool!Stats
  BY <1>5 DEF WhirlpoolRight
<1>7. WhirlpoolConsistent(call, adapter) /\ "open" \notin WhirlpoolBusy
  BY <1>1, <1>3 DEF WhirlpoolInv, WhirlpoolBusy
<1>8. /\ mid \in WhirlpoolCalls /\ mid.at = call.at /\ mid.stats = call.stats
      /\ mid.failures = call.failures
      /\ mid.total = call.total + n /\ mid.taken = [call.taken EXCEPT ![i] = queue[i]]
  <2> DEFINE total == call.total + n
             taken == [call.taken EXCEPT ![i] = queue[i]]
  <2>1. total \in Nat /\ taken \in [Whirlpool!Places -> Seq(Nat)]
    BY <1>4 DEF WhirlpoolCalls
  <2>2. mid = [call EXCEPT !.total = total, !.taken = taken]
    OBVIOUS
  <2> HIDE DEF total, taken, mid
  <2>3. /\ mid \in WhirlpoolCalls /\ mid.at = call.at /\ mid.stats = call.stats
        /\ mid.failures = call.failures
        /\ mid.total = total /\ mid.taken = taken
    BY <2>1, <2>2 DEF WhirlpoolCalls
  <2> QED BY <2>3 DEF total, taken
<1> HIDE DEF mid
<1>9. WhirlpoolYieldedBefore(mid) = WhirlpoolYieldedBefore(call)
      /\ WhirlpoolFailedBefore(mid) = WhirlpoolFailedBefore(call)
  BY <1>8, WhirlpoolSameReports
<1>10. Whirlpool!Total(WhirlpoolYieldedBefore(call)) \in Nat
  <2>1. call.stats \in Seq(Whirlpool!Stats) /\ call.at \in 1 .. Len(Adapters) + 1
        /\ Len(call.stats) = call.at - 1
    BY <1>7 DEF WhirlpoolCalls, WhirlpoolConsistent
  <2> QED BY <2>1, WhirlpoolBeforeIs
<1>11. /\ mid.at \in Whirlpool!Places /\ Len(mid.stats) = mid.at - 1
       /\ mid.total = Whirlpool!Total(WhirlpoolYieldedBefore(mid)) + st.yielded
       /\ mid.failures = Whirlpool!Total(WhirlpoolFailedBefore(mid))
  <2>1. call.total = Whirlpool!Total(WhirlpoolYieldedBefore(call)) + 0
        /\ call.failures = Whirlpool!Total(WhirlpoolFailedBefore(call))
        /\ Len(call.stats) = call.at - 1
    BY <1>3, <1>7 DEF WhirlpoolConsistent
  <2>2. call.total = Whirlpool!Total(WhirlpoolYieldedBefore(call))
    BY <1>10, <2>1
  <2> HIDE DEF n
  <2> QED BY <1>2, <1>5, <1>8, <1>9, <2>1, <2>2
<1>12. call.taken[i] = <<>> /\ \A j \in Whirlpool!Places : j > mid.at => mid.taken[j] = <<>>
  <2>1. i \in Nat /\ \A j \in Whirlpool!Places : j \in Nat
    BY WhirlpoolFinite
  <2>2. \A j \in Whirlpool!Places : j >= i => call.taken[j] = <<>>
    BY <1>2, <1>7 DEF WhirlpoolConsistent
  <2>3. \A j \in Whirlpool!Places : j > i => j >= i /\ j # i
    BY <2>1
  <2>4. call.taken \in [Whirlpool!Places -> Seq(Nat)]
    BY DEF WhirlpoolCalls
  <2>5. i >= i
    BY <2>1
  <2>6. \A j \in Whirlpool!Places : j # i => mid.taken[j] = call.taken[j]
    BY <1>8, <2>4
  <2> QED BY <1>2, <1>8, <2>2, <2>3, <2>5, <2>6
<1>13. adapter' \in [Whirlpool!Places -> Whirlpool!Stats]
      /\ \A j \in Whirlpool!Places : WhirlpoolRight(adapter'[j])
  BY <1>3, <1>5, WhirlpoolCountersAre
<1>14. PICK counters \in [Whirlpool!Places -> Whirlpool!Stats] : counters = adapter'
  BY <1>13
<1>15. new \in WhirlpoolCalls /\ new.taken = mid.taken /\ WhirlpoolConsistent(new, counters)
  BY <1>6, <1>8, <1>11, <1>12, WhirlpoolCollectedConsistent
<1> HIDE DEF new, n
<1>16. \A d \in Cycles : d # c => ~ Whirlpool!Running(d)
  BY <1>1, <1>3, WhirlpoolAlone DEF Whirlpool!Running
<1>17. WhirlpoolConserved(queue', ingest', fed')
  <2>1. new.taken = [ingest[c].taken EXCEPT ![i] = queue[i]] /\ ingest[c].taken[i] = <<>>
    BY <1>1, <1>8, <1>12, <1>15
  <2> QED BY <1>3, <1>15, <2>1, WhirlpoolKeptServed
<1>18. queue' \in [Whirlpool!Places -> Seq(Nat)] /\ noted' \in [Whirlpool!Places -> Nat]
      /\ fed' \in [Whirlpool!Places -> Nat]
  <2>1. <<>> \in Seq(Nat)
    BY EmptySeq
  <2> QED BY <1>3, <2>1 DEF WhirlpoolInv, WhirlpoolTyped
<1>19. turn' \in Cycles \cup {0} /\ adapter' = counters
      /\ \A j \in Whirlpool!Places : WhirlpoolRight(counters[j])
  BY <1>3, <1>13, <1>14 DEF WhirlpoolInv, WhirlpoolTyped
<1> QED
  BY <1>3, <1>15, <1>16, <1>17, <1>18, <1>19, WhirlpoolStepInv

\* Every step keeps the invariant.
LEMMA WhirlpoolNextInv ==
    ASSUME Whirlpool!WhirlpoolAssumption, WhirlpoolInv, Whirlpool!Next
    PROVE  WhirlpoolInv'
<1>1. CASE \E i \in Whirlpool!Places : Whirlpool!FeedItems(i) \/ Whirlpool!RecordFailure(i)
  BY <1>1, WhirlpoolFeedItemsInv, WhirlpoolRecordFailureInv
<1>2. ASSUME NEW c \in Cycles,
             \/ Whirlpool!Begin(c) \/ Whirlpool!ServeQueue(c) \/ Whirlpool!OpenClient(c)
                \/ Whirlpool!Refuse(c) \/ Whirlpool!Fetch(c)
             \/ Whirlpool!FetchFails(c) \/ Whirlpool!FetchSucceeds(c) \/ Whirlpool!CloseClient(c)
                \/ Whirlpool!Closed(c)
             \/ Whirlpool!Return(c) \/ Whirlpool!Cancel(c)
      PROVE  WhirlpoolInv'
  BY <1>2, WhirlpoolBeginInv, WhirlpoolServeQueueInv, WhirlpoolOpenClientInv, WhirlpoolFailedInv,
     WhirlpoolMoveOnInv, WhirlpoolFetchSucceedsInv, WhirlpoolClosedInv
<1> QED
  BY <1>1, <1>2 DEF Whirlpool!Next

\* A step that changes nothing of it keeps the invariant.
LEMMA WhirlpoolStutterInv == ASSUME WhirlpoolInv, UNCHANGED Whirlpool!vars PROVE WhirlpoolInv'
  BY DEF WhirlpoolInv, WhirlpoolTyped, WhirlpoolConserved, Whirlpool!Running, Whirlpool!vars

------------------------------------------------------------------------------
(* The .env file (Keyring.tla).  With one writer the file is what was last *)
(* asked for, or what is being written makes it so.                        *)

\* What is kept of a list is the same in the instance.
LEMMA KeyringKeeps == \A list, wanted : Keyring!Keep(list, wanted) = Keep(list, wanted)
  BY DEF Keyring!Keep, Keep, Keyring!FoldLeft, FoldLeft, Keyring!MapThenFoldSet, MapThenFoldSet,
         Keyring!Max, Max

KeyringLines == {Keyring!Line(v, k) : v \in Variables, k \in Keys}
KeyringWords == Keys \cup {Unset}
KeyringUpdates == [pc : {"idle", "open", "write"}, var : Variables \cup {Unset}, key : KeyringWords,
            path : {"configured"}, lines : Seq(KeyringLines)]
KeyringChecks == [pc : {"idle", "wait"}, var : Variables \cup {Unset}, key : KeyringWords,
      shown : KeyringWords, valid : BOOLEAN]

\* The assignments of one variable.
KeyringOf(lines, v) == {i \in DOMAIN lines : lines[i].var = v}

\* What a restart finds if the variables were last asked to be so.
KeyringFound(a) == [v \in Variables |-> IF a[v] = Unset THEN Given[v] ELSE a[v]]

\* What a change leads to, from the moment the file was read.
KeyringLeads(u) ==
    /\ u.var \in Variables /\ "configured" \in DOMAIN envFile
    /\ ~cut => Keyring!Loaded(u.lines) = KeyringFound([asked EXCEPT ![u.var] = u.key])

KeyringInv ==
    /\ DOMAIN envFile \subseteq {"configured", "cwd", "backend", "root"}
    /\ DOMAIN envFile = {} \/ "configured" \in DOMAIN envFile
    /\ \A place \in DOMAIN envFile : envFile[place] \in Seq(KeyringLines)
    /\ environ \in [Variables -> KeyringWords] /\ asked \in [Variables -> KeyringWords]
    /\ update \in [Keyring!Processes -> KeyringUpdates]
    /\ \A p \in Keyring!Processes : update[p].pc # "idle" => KeyringLeads(update[p])
    /\ \A p, q \in Keyring!Processes : update[p].pc # "idle" /\ update[q].pc # "idle" => p = q
    /\ ~cut /\ (\A p \in Keyring!Processes : update[p].pc # "write")
       => Keyring!Environment = KeyringFound(asked)
    /\ check \in KeyringChecks /\ (check.valid => check.shown \in Accepted)
    /\ cut \in BOOLEAN /\ served \in 0 .. MaxKeyRequests

------------------------------------------------------------------------------
\* The last assignment counts.
LEMMA KeyringLoadedIs ==
    ASSUME NEW lines \in Seq(KeyringLines), NEW v \in Variables
    PROVE  /\ KeyringOf(lines, v) = {} => Keyring!Loaded(lines)[v] = Given[v]
           /\ KeyringOf(lines, v) # {} => \E i \in KeyringOf(lines, v) : \A j \in KeyringOf(lines,
              v) : j <= i
           /\ \A i \in KeyringOf(lines, v) : (\A j \in KeyringOf(lines, v) : j <= i)
              => Keyring!Loaded(lines)[v] = lines[i].key
<1>1. /\ DOMAIN lines = 1 .. Len(lines) /\ Len(lines) \in Nat
      /\ KeyringOf(lines, v) \in SUBSET Nat /\ IsFiniteSet(KeyringOf(lines, v))
  <2>1. DOMAIN lines = 1 .. Len(lines) /\ Len(lines) \in Nat
    BY LenProperties
  <2>2. KeyringOf(lines, v) \subseteq 1 .. Len(lines)
    BY <2>1 DEF KeyringOf
  <2>3. IsFiniteSet(1 .. Len(lines))
    BY <2>1, FS_Interval
  <2> QED BY <2>1, <2>2, <2>3, FS_Subset
<1>2. Keyring!Has(lines, v) <=> KeyringOf(lines, v) # {}
  BY DEF Keyring!Has, KeyringOf
<1>3. KeyringOf(lines, v) = {i \in 1 .. Len(lines) : lines[i].var = v}
  BY <1>1 DEF KeyringOf
<1>4. Keyring!Loaded(lines)[v] = IF KeyringOf(lines, v) # {}
      THEN lines[Keyring!Max(KeyringOf(lines, v))].key ELSE Given[v]
  BY <1>2, <1>3 DEF Keyring!Loaded, Keyring!SelectLastInSeq
<1>5. ASSUME NEW i \in KeyringOf(lines, v), \A j \in KeyringOf(lines, v) : j <= i
      PROVE  Keyring!Max(KeyringOf(lines, v)) = i
  <2>1. \A j \in KeyringOf(lines, v) : i >= j
    BY <1>1, <1>5
  <2>2. /\ Keyring!Max(KeyringOf(lines, v)) \in KeyringOf(lines, v)
        /\ \A j \in KeyringOf(lines, v) : Keyring!Max(KeyringOf(lines, v)) >= j
    BY <2>1 DEF Keyring!Max
  <2> QED BY <1>1, <1>5, <2>2
<1>6. KeyringOf(lines, v) # {} => \E i \in KeyringOf(lines, v) : \A j \in KeyringOf(lines, v) : j <= i
  BY <1>1, GreatestNumber
<1> QED
  BY <1>4, <1>5, <1>6

\* An environment holds keys that are assigned or given.
LEMMA KeyringLoadedTyped ==
    ASSUME Keyring!KeyringAssumption, NEW lines \in Seq(KeyringLines)
    PROVE  Keyring!Loaded(lines) \in [Variables -> KeyringWords]
<1>1. ASSUME NEW v \in Variables PROVE Keyring!Loaded(lines)[v] \in KeyringWords
  <2>1. Given[v] \in KeyringWords
    BY DEF Keyring!KeyringAssumption, KeyringWords
  <2>2. \A i \in KeyringOf(lines, v) : lines[i].key \in KeyringWords
    BY LenProperties DEF KeyringOf, KeyringLines, Keyring!Line, KeyringWords
  <2> QED BY <2>1, <2>2, KeyringLoadedIs
<1>2. DOMAIN Keyring!Loaded(lines) = Variables
      /\ Keyring!Loaded(lines) = [v \in Variables |-> Keyring!Loaded(lines)[v]]
  BY DEF Keyring!Loaded
<1> QED
  BY <1>1, <1>2

\* The empty file leaves what is given.
LEMMA KeyringNoneLoaded == Keyring!Loaded(<<>>) = [v \in Variables |-> Given[v]]
  BY DEF Keyring!Loaded, Keyring!Has

\* An environment is determined by the last assignments.
LEMMA KeyringSameLoaded ==
    ASSUME NEW lines \in Seq(KeyringLines), NEW new \in Seq(KeyringLines), NEW v \in Variables,
           NEW g \in [KeyringOf(lines, v) -> KeyringOf(new, v)],
           \A i \in KeyringOf(lines, v) : new[g[i]].key = lines[i].key,
           \A i, j \in KeyringOf(lines, v) : i <= j => g[i] <= g[j],
           \A k \in KeyringOf(new, v) : \E i \in KeyringOf(lines, v) : g[i] = k
    PROVE  Keyring!Loaded(new)[v] = Keyring!Loaded(lines)[v]
<1>1. CASE KeyringOf(lines, v) = {}
  <2>1. KeyringOf(new, v) = {}
    BY <1>1
  <2> QED BY <1>1, <2>1, KeyringLoadedIs
<1>2. CASE KeyringOf(lines, v) # {}
  <2>1. PICK i \in KeyringOf(lines, v) : \A j \in KeyringOf(lines, v) : j <= i
    BY <1>2, KeyringLoadedIs
  <2>2. Keyring!Loaded(lines)[v] = lines[i].key
    BY <2>1, KeyringLoadedIs
  <2>3. \A k \in KeyringOf(new, v) : k <= g[i]
    BY <2>1
  <2>4. g[i] \in KeyringOf(new, v)
    OBVIOUS
  <2>5. Keyring!Loaded(new)[v] = new[g[i]].key
    BY <2>3, <2>4, KeyringLoadedIs
  <2> QED BY <2>2, <2>5
<1> QED
  BY <1>1, <1>2

\* An assignment that is there is changed wherever it is, and one that is not
\* comes last.
LEMMA KeyringUpsertLoads ==
    ASSUME NEW lines \in Seq(KeyringLines), NEW v \in Variables, NEW key \in Keys
    PROVE  /\ Keyring!Upsert(lines, v, key) \in Seq(KeyringLines)
           /\ \A u \in Variables : Keyring!Loaded(Keyring!Upsert(lines, v, key))[u] = IF u = v THEN key
              ELSE Keyring!Loaded(lines)[u]
<1> DEFINE n == Len(lines)
           line == Keyring!Line(v, key)
<1>1. n \in Nat /\ DOMAIN lines = 1 .. n /\ line \in KeyringLines
      /\ \A i \in 1 .. n : lines[i] \in KeyringLines
  BY LenProperties DEF KeyringLines
<1>2. line.var = v /\ line.key = key
  BY DEF Keyring!Line
<1> HIDE DEF n, line
<1>3. CASE Keyring!Has(lines, v)
  <2> DEFINE new == [i \in 1 .. n |-> IF lines[i].var = v THEN line ELSE lines[i]]
  <2>1. Keyring!Upsert(lines, v, key) = new
    BY <1>1, <1>3 DEF Keyring!Upsert, line
  <2>2. new \in Seq(KeyringLines)
    <3>1. new \in [1 .. n -> KeyringLines]
      BY <1>1
    <3> HIDE DEF new
    <3> QED BY <1>1, <3>1
  <2>3. ASSUME NEW u \in Variables
        PROVE  /\ KeyringOf(new, u) = KeyringOf(lines, u)
               /\ \A i \in KeyringOf(lines, u) : new[i] = IF u = v THEN line ELSE lines[i]
    BY <1>1, <1>2 DEF KeyringOf
  <2> HIDE DEF new
  <2>4. ASSUME NEW u \in Variables, u # v PROVE Keyring!Loaded(new)[u] = Keyring!Loaded(lines)[u]
    <3> DEFINE g == [i \in KeyringOf(lines, u) |-> i]
    <3>1. /\ g \in [KeyringOf(lines, u) -> KeyringOf(new, u)]
          /\ \A i \in KeyringOf(lines, u) : new[g[i]].key = lines[i].key
          /\ \A i, j \in KeyringOf(lines, u) : i <= j => g[i] <= g[j]
          /\ \A k \in KeyringOf(new, u) : \E i \in KeyringOf(lines, u) : g[i] = k
      BY <2>3, <2>4
    <3> HIDE DEF g
    <3> QED BY <2>2, <3>1, KeyringSameLoaded
  <2>5. Keyring!Loaded(new)[v] = key
    <3>1. KeyringOf(lines, v) # {}
      BY <1>3 DEF Keyring!Has, KeyringOf
    <3>2. PICK i \in KeyringOf(new, v) : \A j \in KeyringOf(new, v) : j <= i
      BY <2>2, <2>3, <3>1, KeyringLoadedIs
    <3>3. new[i].key = key
      BY <1>2, <2>3, <3>2
    <3> QED BY <2>2, <3>2, <3>3, KeyringLoadedIs
  <2> QED BY <2>1, <2>2, <2>4, <2>5
<1>4. CASE ~Keyring!Has(lines, v)
  <2> DEFINE new == Append(lines, line)
  <2>1. Keyring!Upsert(lines, v, key) = new
    BY <1>4 DEF Keyring!Upsert, line
  <2>2. /\ new \in Seq(KeyringLines) /\ DOMAIN new = 1 .. n + 1 /\ new[n + 1] = line
        /\ \A i \in 1 .. n : new[i] = lines[i]
    <3>1. /\ new \in Seq(KeyringLines) /\ Len(new) = n + 1 /\ new[n + 1] = line
          /\ \A i \in 1 .. n : new[i] = lines[i]
      BY <1>1, AppendProperties DEF n
    <3> QED BY <3>1, LenProperties
  <2> HIDE DEF new
  <2>3. KeyringOf(lines, v) = {}
    BY <1>4 DEF Keyring!Has, KeyringOf
  <2>4. ASSUME NEW u \in Variables, u # v PROVE Keyring!Loaded(new)[u] = Keyring!Loaded(lines)[u]
    <3>1. KeyringOf(new, u) = KeyringOf(lines, u) /\ \A i \in KeyringOf(lines, u) : new[i] = lines[i]
      BY <1>1, <1>2, <2>2, <2>4 DEF KeyringOf
    <3> DEFINE g == [i \in KeyringOf(lines, u) |-> i]
    <3>2. /\ g \in [KeyringOf(lines, u) -> KeyringOf(new, u)]
          /\ \A i \in KeyringOf(lines, u) : new[g[i]].key = lines[i].key
          /\ \A i, j \in KeyringOf(lines, u) : i <= j => g[i] <= g[j]
          /\ \A k \in KeyringOf(new, u) : \E i \in KeyringOf(lines, u) : g[i] = k
      BY <3>1
    <3> HIDE DEF g
    <3> QED BY <2>2, <3>2, KeyringSameLoaded
  <2>5. Keyring!Loaded(new)[v] = key
    <3>1. KeyringOf(new, v) = {n + 1}
      BY <1>1, <1>2, <2>2, <2>3 DEF KeyringOf
    <3>2. n + 1 \in KeyringOf(new, v) /\ \A j \in KeyringOf(new, v) : j <= n + 1
      BY <1>1, <3>1
    <3>3. Keyring!Loaded(new)[v] = new[n + 1].key
      BY <2>2, <3>2, KeyringLoadedIs
    <3> QED BY <1>2, <2>2, <3>3
  <2> QED BY <2>1, <2>2, <2>4, <2>5
<1> QED
  BY <1>3, <1>4

\* Without its assignments a variable is what it is given.
LEMMA KeyringWithoutLoads ==
    ASSUME NEW lines \in Seq(KeyringLines), NEW v \in Variables
    PROVE  /\ Keyring!Without(lines, v) \in Seq(KeyringLines)
           /\ \A u \in Variables : Keyring!Loaded(Keyring!Without(lines, v))[u] = IF u = v THEN Given[v]
              ELSE Keyring!Loaded(lines)[u]
<1> DEFINE W == {Keyring!Line(u, key) : u \in Variables \ {v}, key \in Keys}
           new == Keyring!Without(lines, v)
           n == Len(lines)
<1>1. new \in Seq(KeyringLines) /\ Origins(new, lines, W, n) # {}
  <2>1. new = Keep(lines, W)
    BY KeyringKeeps DEF Keyring!Without
  <2> HIDE DEF new, W
  <2> QED BY <2>1, KeepOrigins
<1>2. /\ n \in Nat /\ DOMAIN lines = 1 .. n /\ DOMAIN new = 1 .. Len(new) /\ Len(new) \in Nat
      /\ \A i \in 1 .. n : lines[i] \in KeyringLines
  BY <1>1, LenProperties
<1>3. \A line \in KeyringLines : line \in W <=> line.var # v
  BY DEF KeyringLines, Keyring!Line
<1>w. \A line \in W : line.var # v
  BY DEF Keyring!Line
<1> HIDE DEF W, new, n
<1>4. PICK e \in Origins(new, lines, W, n) : TRUE
  BY <1>1
<1>5. /\ e \in [DOMAIN new -> DOMAIN lines]
      /\ \A k \in DOMAIN new : new[k] = lines[e[k]] /\ new[k] \in W
      /\ \A k, l \in DOMAIN new : k < l => e[k] < e[l]
      /\ \A i \in DOMAIN lines : lines[i] \in W => \E k \in DOMAIN new : e[k] = i
  BY <1>2, <1>4 DEF Origins
<1>6. KeyringOf(new, v) = {}
  BY <1>5, <1>w DEF KeyringOf
<1>7. ASSUME NEW u \in Variables, u # v PROVE Keyring!Loaded(new)[u] = Keyring!Loaded(lines)[u]
  <2> DEFINE g == [k \in KeyringOf(new, u) |-> e[k]]
  <2>1. g \in [KeyringOf(new, u) -> KeyringOf(lines, u)]
        /\ \A k \in KeyringOf(new, u) : lines[g[k]].key = new[k].key
    BY <1>5 DEF KeyringOf
  <2>2. \A k, l \in KeyringOf(new, u) : k <= l => g[k] <= g[l]
    <3>1. \A k \in KeyringOf(new, u) : k \in 1 .. Len(new) /\ e[k] \in 1 .. n
      BY <1>2, <1>5 DEF KeyringOf
    <3>2. \A k, l \in KeyringOf(new, u) : k < l => e[k] < e[l]
      BY <1>5 DEF KeyringOf
    <3> QED BY <1>2, <3>1, <3>2
  <2>3. \A i \in KeyringOf(lines, u) : \E k \in KeyringOf(new, u) : g[k] = i
    <3> SUFFICES ASSUME NEW i \in KeyringOf(lines, u) PROVE \E k \in KeyringOf(new, u) : e[k] = i
      OBVIOUS
    <3>1. i \in DOMAIN lines /\ lines[i].var = u /\ lines[i] \in W
      BY <1>2, <1>3, <1>7 DEF KeyringOf
    <3>2. PICK k \in DOMAIN new : e[k] = i
      BY <1>5, <3>1
    <3>3. new[k].var = u
      BY <1>5, <3>1, <3>2
    <3> QED BY <3>2, <3>3 DEF KeyringOf
  <2> HIDE DEF g
  <2> QED BY <1>1, <2>1, <2>2, <2>3, KeyringSameLoaded
<1>8. Keyring!Loaded(new)[v] = Given[v]
  BY <1>1, <1>6, KeyringLoadedIs
<1> QED
  BY <1>1, <1>7, <1>8 DEF new

\* What is kept begins with the first element, if that is wanted.
LEMMA KeyringKeepFirst ==
    ASSUME NEW S, NEW list \in Seq(S), NEW wanted, list # <<>>, list[1] \in wanted
    PROVE  Keep(list, wanted) # <<>> /\ Head(Keep(list, wanted)) = list[1]
<1> DEFINE new == Keep(list, wanted)
           n == Len(list)
<1>1. new \in Seq(S) /\ Origins(new, list, wanted, n) # {}
  BY KeepOrigins
<1>2. n \in Nat /\ 1 \in 1 .. n /\ DOMAIN new = 1 .. Len(new) /\ Len(new) \in Nat
  BY <1>1, LenProperties, EmptySeq
<1> HIDE DEF new, n
<1>3. PICK e \in Origins(new, list, wanted, n) : TRUE
  BY <1>1
<1>4. /\ e \in [1 .. Len(new) -> 1 .. n] /\ \A k \in 1 .. Len(new) : new[k] = list[e[k]]
      /\ \A k, l \in 1 .. Len(new) : k < l => e[k] < e[l]
  BY <1>3 DEF Origins
<1>5. PICK k \in 1 .. Len(new) : e[k] = 1
  BY <1>2, <1>3 DEF Origins
<1>6. 1 \in 1 .. Len(new) /\ new # <<>>
  <2>1. Len(<<>>) = 0
    OBVIOUS
  <2> QED BY <1>2, <1>5, <2>1
<1>7. e[1] = 1
  <2>1. CASE k = 1
    BY <1>5, <2>1
  <2>2. CASE k # 1
    <3>1. e[1] < 1 /\ e[1] \in 1 .. n
      BY <1>2, <1>4, <1>5, <1>6, <2>2
    <3> QED BY <1>2, <3>1
  <2> QED BY <2>1, <2>2
<1>8. new[1] = list[1]
  BY <1>4, <1>6, <1>7
<1> QED
  BY <1>1, <1>6, <1>8 DEF new

------------------------------------------------------------------------------
\* Where a change goes, and what a restart loads.
LEMMA KeyringPathIs ==
    ASSUME KeyringInv
    PROVE  Keyring!EnvPath = "configured" /\ Keyring!LoadPath = "configured"
<1>1. Keyring!LoadPath = "configured" /\ Keyring!Fallback = "configured"
  BY DEF Keyring!LoadPath, Keyring!Fallback
<1> DEFINE sites == {"configured", "cwd", "backend", "root"}
           there == Keep(Keyring!Candidates, DOMAIN envFile)
<1>2. Keyring!Candidates \in Seq(sites) /\ Keyring!Candidates # <<>>
      /\ Keyring!Candidates[1] = "configured"
  <2> DEFINE first == <<"configured">>
             others == <<"cwd", "backend", "root">>
  <2>1. first \in Seq(sites) /\ others \in Seq(sites) /\ Len(first) = 1 /\ Len(others) = 3
        /\ first[1] = "configured"
    OBVIOUS
  <2>2. Keyring!Candidates = first \o others
    BY DEF Keyring!Candidates
  <2> HIDE DEF first, others, sites
  <2>3. /\ first \o others \in Seq(sites) /\ Len(first \o others) = Len(first) + Len(others)
        /\ \A i \in 1 .. Len(first) + Len(others) :
             (first \o others)[i] = IF i <= Len(first) THEN first[i] ELSE others[i - Len(first)]
    BY <2>1, ConcatProperties
  <2>4. (first \o others)[1] = "configured" /\ first \o others # <<>>
    BY <2>1, <2>3
  <2> QED BY <2>2, <2>3, <2>4
<1>3. Keyring!EnvPath = IF there = <<>> THEN Keyring!Fallback ELSE Head(there)
  BY KeyringKeeps DEF Keyring!EnvPath
<1> HIDE DEF there
<1>4. CASE DOMAIN envFile = {}
  <2>1. there \in Seq(sites) /\ ToSet(there) = {}
    <3> HIDE DEF sites
    <3>1. there \in Seq(sites) /\ ToSet(there) = ToSet(Keyring!Candidates) \cap DOMAIN envFile
      BY <1>2, KeepElements DEF there
    <3> QED BY <1>4, <3>1
  <2>2. there = <<>>
    <3>1. DOMAIN there = 1 .. Len(there) /\ Len(there) \in Nat
      BY <2>1, LenProperties
    <3>2. DOMAIN there = {}
      BY <2>1 DEF ToSet
    <3>3. Len(there) = 0
      BY <3>1, <3>2
    <3> QED BY <2>1, <3>3, EmptySeq
  <2> QED BY <1>1, <1>3, <2>2
<1>5. CASE DOMAIN envFile # {}
  <2> HIDE DEF sites
  <2>1. Keyring!Candidates[1] \in DOMAIN envFile
    BY <1>2, <1>5 DEF KeyringInv
  <2>2. there # <<>> /\ Head(there) = "configured"
    BY <1>2, <2>1, KeyringKeepFirst DEF there
  <2> QED BY <1>1, <1>3, <2>2
<1> QED
  BY <1>1, <1>4, <1>5

\* The lines of the file that is loaded.
KeyringBefore == IF "configured" \in DOMAIN envFile THEN envFile["configured"] ELSE <<>>

\* The environment that a restart finds.
LEMMA KeyringEnvironmentIs ==
    ASSUME Keyring!KeyringAssumption, KeyringInv
    PROVE  Keyring!Environment = Keyring!Loaded(KeyringBefore) /\ KeyringBefore \in Seq(KeyringLines)
           /\ Keyring!Environment \in [Variables -> KeyringWords]
<1>1. Keyring!Environment = Keyring!Loaded(KeyringBefore)
  BY KeyringPathIs DEF Keyring!Environment, KeyringBefore
<1>2. KeyringBefore \in Seq(KeyringLines)
  <2>1. <<>> \in Seq(KeyringLines)
    OBVIOUS
  <2> QED BY <2>1 DEF KeyringBefore, KeyringInv
<1> QED
  BY <1>1, <1>2, KeyringLoadedTyped

\* What is not yet written or checked.
LEMMA KeyringAtRestIs == Keyring!AtRest \in KeyringUpdates /\ Keyring!AtRest.pc = "idle"
<1>1. <<>> \in Seq(KeyringLines)
  OBVIOUS
<1> QED
  BY <1>1 DEF Keyring!AtRest, KeyringUpdates, KeyringWords, Keyring!Fallback

LEMMA KeyringNoCheckIs == Keyring!NoCheck \in KeyringChecks /\ ~Keyring!NoCheck.valid
  BY DEF Keyring!NoCheck, KeyringChecks, KeyringWords

\* The bound of the requests.
LEMMA KeyringServedIs ==
    ASSUME Keyring!KeyringAssumption, KeyringInv, Keyring!Ask
    PROVE  served' \in 0 .. MaxKeyRequests
  BY DEF Keyring!KeyringAssumption, KeyringInv, Keyring!Ask

\* The invariant holds the type and what is kept.
LEMMA KeyringInvHolds ==
    ASSUME Keyring!KeyringAssumption
    PROVE  KeyringInv => Keyring!TypeOK /\ Keyring!KeysKept
<1> SUFFICES ASSUME KeyringInv PROVE Keyring!TypeOK /\ Keyring!KeysKept
  OBVIOUS
<1>1. /\ \A place \in DOMAIN envFile : Keyring!IsLines(envFile[place])
      /\ \A p \in Keyring!Processes :
           /\ update[p].pc \in {"idle", "open", "write"} /\ Keyring!IsLines(update[p].lines)
           /\ update[p].pc # "idle" => update[p].path \in DOMAIN envFile /\ update[p].var \in Variables
  <2>1. \A lines \in Seq(KeyringLines) : Keyring!IsLines(lines)
    BY DEF Keyring!IsLines, KeyringLines
  <2> HIDE DEF Keyring!IsLines
  <2> QED BY <2>1 DEF KeyringInv, KeyringUpdates, KeyringLeads
<1>2. Keyring!TypeOK
  BY <1>1 DEF Keyring!TypeOK, KeyringInv, KeyringWords, KeyringChecks
<1>3. Keyring!KeysKept
  BY DEF Keyring!KeysKept, KeyringInv, KeyringFound
<1> QED
  BY <1>2, <1>3

------------------------------------------------------------------------------
\* What is asked first is what the file says.
LEMMA KeyringInitInv == ASSUME Keyring!KeyringAssumption, Keyring!Init PROVE KeyringInv
<1>1. /\ DOMAIN envFile \subseteq {"configured"}
         /\ \A place \in DOMAIN envFile : envFile[place] \in Seq(KeyringLines)
  BY DEF Keyring!Init, Keyring!LoadPath, Keyring!KeyringAssumption, KeyringLines
<1>2. /\ environ = Keyring!Environment /\ asked = Keyring!Environment /\ check = Keyring!NoCheck
      /\ cut = FALSE /\ served = 0
      /\ update = [p \in Keyring!Processes |-> Keyring!AtRest]
  BY DEF Keyring!Init
<1>3. Keyring!Environment \in [Variables -> KeyringWords]
  <2>1. <<>> \in Seq(KeyringLines)
    OBVIOUS
  <2> QED BY <1>1, <2>1, KeyringLoadedTyped DEF Keyring!Environment, Keyring!LoadPath
<1>4. Keyring!Environment = KeyringFound(asked)
  <2>1. \A v \in Variables : Keyring!Environment[v] = Unset => Given[v] = Unset
    <3> TAKE v \in Variables
    <3> DEFINE lines == IF Keyring!LoadPath \in DOMAIN envFile THEN envFile[Keyring!LoadPath] ELSE <<>>
    <3>1. lines \in Seq(KeyringLines)
      <4>1. <<>> \in Seq(KeyringLines)
        OBVIOUS
      <4> QED BY <1>1, <4>1
    <3>2. Keyring!Environment = Keyring!Loaded(lines)
      BY DEF Keyring!Environment
    <3>3. \A i \in KeyringOf(lines, v) : lines[i].key # Unset
      BY <3>1, LenProperties DEF KeyringOf, KeyringLines, Keyring!Line, Keyring!KeyringAssumption
    <3> HIDE DEF lines
    <3> QED BY <3>1, <3>2, <3>3, KeyringLoadedIs
  <2> HIDE DEF Keyring!Environment
  <2>2. KeyringFound(asked) = [v \in Variables |-> Keyring!Environment[v]]
    BY <1>2, <2>1 DEF KeyringFound
  <2> QED BY <1>3, <2>2
<1>5. update \in [Keyring!Processes -> KeyringUpdates]
      /\ \A p \in Keyring!Processes : update[p].pc = "idle"
  BY <1>2, KeyringAtRestIs
<1>6. \A p, q \in Keyring!Processes : update[p].pc # "idle" /\ update[q].pc # "idle" => p = q
  BY <1>5
<1>7. check \in KeyringChecks /\ (check.valid => check.shown \in Accepted)
  BY <1>2, KeyringNoCheckIs
<1>8. served \in 0 .. MaxKeyRequests /\ cut \in BOOLEAN
  <2>1. MaxKeyRequests \in Nat
    BY DEF Keyring!KeyringAssumption
  <2>2. served = 0 /\ (cut <=> FALSE) /\ cut \in BOOLEAN
    BY DEF Keyring!Init
  <2>3. served \in 0 .. MaxKeyRequests
    BY <2>1, <2>2
  <2> QED BY <2>2, <2>3
<1>9. environ \in [Variables -> KeyringWords] /\ asked \in [Variables -> KeyringWords]
  BY <1>2, <1>3
<1>10. DOMAIN envFile = {} \/ "configured" \in DOMAIN envFile
  BY <1>1
<1>11. \A p \in Keyring!Processes : update[p].pc # "idle" => KeyringLeads(update[p])
  BY <1>5
<1> QED
  BY <1>1, <1>4, <1>5, <1>6, <1>7, <1>8, <1>9, <1>10, <1>11 DEF KeyringInv

\* A change of a key, whoever makes it.
LEMMA KeyringChangeInv ==
    ASSUME Keyring!KeyringAssumption, KeyringInv,
           NEW p \in Keyring!Processes, NEW v \in Variables, NEW key \in KeyringWords,
           Keyring!Change(p, v, key)
    PROVE  KeyringInv'
<1> DEFINE lines == IF key = Unset THEN Keyring!Without(KeyringBefore, v)
      ELSE Keyring!Upsert(KeyringBefore, v, key)
           new == [pc |-> "open", var |-> v, key |-> key, path |-> "configured", lines |-> lines]
<1>1. Keyring!EnvPath = "configured" /\ KeyringBefore \in Seq(KeyringLines)
      /\ Keyring!Environment = Keyring!Loaded(KeyringBefore)
  BY KeyringPathIs, KeyringEnvironmentIs
<1>2. /\ \A q \in Keyring!Processes : update[q].pc = "idle"
      /\ environ' = (IF p = "server" /\ v \notin Remotes THEN [environ EXCEPT ![v] = key] ELSE environ)
      /\ envFile' = [place \in DOMAIN envFile \cup {"configured"} |->
                       IF place = "configured" THEN KeyringBefore ELSE envFile[place]]
      /\ update' = [update EXCEPT ![p] = new]
      /\ check' = check /\ asked' = asked /\ cut' = cut
  BY <1>1 DEF Keyring!Change, KeyringBefore
<1>3. lines \in Seq(KeyringLines) /\ (~cut
      => Keyring!Loaded(lines) = KeyringFound([asked EXCEPT ![v] = key]))
  <2>1. asked \in [Variables -> KeyringWords]
    BY DEF KeyringInv
  <2>2. ASSUME ~cut
        PROVE  \A u \in Variables : Keyring!Loaded(KeyringBefore)[u] = IF asked[u] = Unset THEN Given[u]
               ELSE asked[u]
    BY <1>1, <1>2, <2>2 DEF KeyringInv, KeyringFound
  <2>3. CASE key = Unset
    <3>1. /\ lines \in Seq(KeyringLines)
          /\ \A u \in Variables : Keyring!Loaded(lines)[u] = IF u = v THEN Given[v]
             ELSE Keyring!Loaded(KeyringBefore)[u]
      BY <1>1, <2>3, KeyringWithoutLoads
    <3>2. Keyring!Loaded(lines) = [u \in Variables |-> Keyring!Loaded(lines)[u]]
      BY DEF Keyring!Loaded
    <3> HIDE DEF lines
    <3>3. ASSUME ~cut PROVE Keyring!Loaded(lines) = KeyringFound([asked EXCEPT ![v] = key])
      BY <2>1, <2>2, <2>3, <3>1, <3>2, <3>3 DEF KeyringFound
    <3> QED BY <3>1, <3>3
  <2>4. CASE key # Unset
    <3>1. /\ lines \in Seq(KeyringLines)
          /\ \A u \in Variables : Keyring!Loaded(lines)[u] = IF u = v THEN key
             ELSE Keyring!Loaded(KeyringBefore)[u]
      BY <1>1, <2>4, KeyringUpsertLoads DEF KeyringWords
    <3>2. Keyring!Loaded(lines) = [u \in Variables |-> Keyring!Loaded(lines)[u]]
      BY DEF Keyring!Loaded
    <3> HIDE DEF lines
    <3>3. ASSUME ~cut PROVE Keyring!Loaded(lines) = KeyringFound([asked EXCEPT ![v] = key])
      BY <2>1, <2>2, <2>4, <3>1, <3>2, <3>3 DEF KeyringFound
    <3> QED BY <3>1, <3>3
  <2> QED BY <2>3, <2>4
<1> HIDE DEF lines
<1>4. PICK made \in KeyringUpdates : made = new /\ made.pc = "open" /\ made.var = v /\ made.key = key
      /\ made.lines = lines
  <2>1. new \in KeyringUpdates
    BY <1>3 DEF KeyringUpdates
  <2> QED BY <2>1
<1> HIDE DEF new
<1>5. /\ update' \in [Keyring!Processes -> KeyringUpdates] /\ update'[p] = made
      /\ \A q \in Keyring!Processes : q # p => update'[q].pc = "idle"
  BY <1>2, <1>4 DEF KeyringInv
<1>6. /\ DOMAIN envFile' = DOMAIN envFile \cup {"configured"}
      /\ \A place \in DOMAIN envFile' : envFile'[place] \in Seq(KeyringLines)
  BY <1>1, <1>2 DEF KeyringInv
<1>7. Keyring!Environment' = Keyring!Environment
  BY <1>1, <1>2 DEF Keyring!Environment, Keyring!LoadPath, KeyringBefore
<1>8. environ' \in [Variables -> KeyringWords] /\ served' \in 0 .. MaxKeyRequests
  BY <1>2, KeyringServedIs DEF KeyringInv, Keyring!Change
<1>9. KeyringLeads(made)'
  BY <1>2, <1>3, <1>4, <1>6 DEF KeyringLeads
<1>10. \A q \in Keyring!Processes : update'[q].pc # "idle" => KeyringLeads(update[q])'
  BY <1>5, <1>9
<1>11. \A q, r \in Keyring!Processes : update'[q].pc # "idle" /\ update'[r].pc # "idle" => q = r
  BY <1>5
<1>12. ~cut' => Keyring!Environment' = KeyringFound(asked)'
  <2>1. \A q \in Keyring!Processes : update[q].pc # "write"
    BY <1>2
  <2>2. KeyringFound(asked)' = KeyringFound(asked)
    BY <1>2 DEF KeyringFound
  <2> QED BY <1>2, <1>7, <2>1, <2>2 DEF KeyringInv
<1> QED
  BY <1>2, <1>5, <1>6, <1>8, <1>10, <1>11, <1>12 DEF KeyringInv

\* What the invariant is when only the processes that write, and the history
\* of that, have changed.
LEMMA KeyringProcessInv ==
    ASSUME KeyringInv, NEW p \in Keyring!Processes, NEW made \in KeyringUpdates
    PROVE  /\ envFile' = envFile /\ asked' = asked /\ (~cut' => ~cut) /\ cut' \in BOOLEAN
           /\ update' = [update EXCEPT ![p] = made] /\ made.pc = "idle"
           /\ (update[p].pc = "write" => cut')
           /\ environ' \in [Variables -> KeyringWords] /\ check' \in KeyringChecks
           /\ (check'.valid => check'.shown \in Accepted) /\ served' \in 0 .. MaxKeyRequests
           => KeyringInv'
<1> SUFFICES ASSUME envFile' = envFile, asked' = asked, (~cut' => ~cut), cut' \in BOOLEAN,
                    update' = [update EXCEPT ![p] = made], made.pc = "idle",
                    update[p].pc = "write" => cut',
                    environ' \in [Variables -> KeyringWords], check' \in KeyringChecks,
                    check'.valid => check'.shown \in Accepted, served' \in 0 .. MaxKeyRequests
             PROVE  KeyringInv'
  OBVIOUS
<1>1. /\ update' \in [Keyring!Processes -> KeyringUpdates] /\ update'[p] = made
      /\ \A q \in Keyring!Processes : q # p => update'[q] = update[q]
  BY DEF KeyringInv
<1>2. \A q \in Keyring!Processes : update'[q].pc # "idle" => KeyringLeads(update[q])'
  <2> SUFFICES ASSUME NEW q \in Keyring!Processes, update'[q].pc # "idle" PROVE KeyringLeads(update[q])'
    OBVIOUS
  <2>1. q # p /\ update'[q] = update[q] /\ KeyringLeads(update[q])
    BY <1>1 DEF KeyringInv
  <2> QED BY <2>1 DEF KeyringLeads
<1>3. \A q, r \in Keyring!Processes : update'[q].pc # "idle" /\ update'[r].pc # "idle" => q = r
  BY <1>1 DEF KeyringInv
<1>4. ~cut' /\ (\A q \in Keyring!Processes : update'[q].pc # "write")
      => Keyring!Environment' = KeyringFound(asked)'
  <2> SUFFICES ASSUME ~cut', \A q \in Keyring!Processes : update'[q].pc # "write"
               PROVE  Keyring!Environment' = KeyringFound(asked)'
    OBVIOUS
  <2>1. \A q \in Keyring!Processes : update[q].pc # "write"
    BY <1>1
  <2>2. Keyring!Environment' = Keyring!Environment /\ KeyringFound(asked)' = KeyringFound(asked)
    BY DEF Keyring!Environment, KeyringFound
  <2> QED BY <2>1, <2>2 DEF KeyringInv
<1> QED
  BY <1>1, <1>2, <1>3, <1>4 DEF KeyringInv

\* The file is emptied, with what is to come in hand.
LEMMA KeyringOpenFileInv ==
    ASSUME Keyring!KeyringAssumption, KeyringInv, NEW p \in Keyring!Processes, Keyring!OpenFile(p)
    PROVE  KeyringInv'
<1>1. PICK u \in KeyringUpdates : u = update[p] /\ u.pc = "open" /\ u.path = "configured"
      /\ KeyringLeads(u)
  BY DEF Keyring!OpenFile, KeyringInv, KeyringUpdates
<1>2. PICK made \in KeyringUpdates :
         made = [u EXCEPT !.pc = "write"] /\ made.pc = "write" /\ made.var = u.var
         /\ made.key = u.key /\ made.lines = u.lines
  <2>1. [u EXCEPT !.pc = "write"] \in KeyringUpdates
    BY DEF KeyringUpdates
  <2> QED BY <2>1 DEF KeyringUpdates
<1>3. /\ envFile' = [envFile EXCEPT !["configured"] = <<>>]
      /\ update' = [update EXCEPT ![p] = made]
      /\ UNCHANGED <<environ, check, asked, cut, served>>
  BY <1>1, <1>2 DEF Keyring!OpenFile
<1>4. /\ update' \in [Keyring!Processes -> KeyringUpdates] /\ update'[p] = made
      /\ \A q \in Keyring!Processes : q # p => update'[q] = update[q]
  BY <1>3 DEF KeyringInv
<1>5. /\ DOMAIN envFile' = DOMAIN envFile
      /\ \A place \in DOMAIN envFile' : envFile'[place] \in Seq(KeyringLines)
  <2>1. <<>> \in Seq(KeyringLines)
    OBVIOUS
  <2> QED BY <1>3, <2>1 DEF KeyringInv
<1>6. \A q \in Keyring!Processes : update'[q].pc # "idle" => q = p
  BY <1>1, <1>4 DEF KeyringInv
<1>7. KeyringLeads(made)'
  BY <1>1, <1>2, <1>3, <1>5 DEF KeyringLeads
<1>8. \A q \in Keyring!Processes : update'[q].pc # "idle" => KeyringLeads(update[q])'
  BY <1>4, <1>6, <1>7
<1>9. \A q, r \in Keyring!Processes : update'[q].pc # "idle" /\ update'[r].pc # "idle" => q = r
  BY <1>6
<1>10. ~(\A q \in Keyring!Processes : update'[q].pc # "write")
  BY <1>2, <1>4
<1> QED
  BY <1>3, <1>4, <1>5, <1>8, <1>9, <1>10 DEF KeyringInv

\* What was asked for is in the file.
LEMMA KeyringWriteFileInv ==
    ASSUME Keyring!KeyringAssumption, KeyringInv, NEW p \in Keyring!Processes, Keyring!WriteFile(p)
    PROVE  KeyringInv'
<1>1. PICK u \in KeyringUpdates : u = update[p] /\ u.pc = "write" /\ u.path = "configured"
      /\ KeyringLeads(u)
  BY DEF Keyring!WriteFile, KeyringInv, KeyringUpdates
<1>2. u.var \in Variables /\ u.key \in KeyringWords /\ u.lines \in Seq(KeyringLines)
      /\ "configured" \in DOMAIN envFile
  BY <1>1 DEF KeyringLeads, KeyringUpdates
<1>3. /\ envFile' = [envFile EXCEPT !["configured"] = u.lines]
      /\ asked' = [asked EXCEPT ![u.var] = u.key]
      /\ update' = [update EXCEPT ![p] = Keyring!AtRest]
      /\ environ' = (IF u.var \in Remotes THEN [environ EXCEPT ![u.var] = u.key] ELSE environ)
      /\ UNCHANGED <<check, cut, served>>
  BY <1>1 DEF Keyring!WriteFile
<1>e. environ' \in [Variables -> KeyringWords]
  BY <1>2, <1>3 DEF KeyringInv
<1>4. /\ update' \in [Keyring!Processes -> KeyringUpdates]
         /\ \A q \in Keyring!Processes : update'[q].pc = "idle"
  <2>1. \A q \in Keyring!Processes : q # p => update[q].pc = "idle"
    BY <1>1 DEF KeyringInv
  <2> QED BY <1>3, <2>1, KeyringAtRestIs DEF KeyringInv
<1>5. /\ DOMAIN envFile' = DOMAIN envFile /\ envFile'["configured"] = u.lines
      /\ \A place \in DOMAIN envFile' : envFile'[place] \in Seq(KeyringLines)
  BY <1>2, <1>3 DEF KeyringInv
<1>6. asked' \in [Variables -> KeyringWords]
  BY <1>2, <1>3 DEF KeyringInv
<1>7. ~cut' => Keyring!Environment' = KeyringFound(asked)'
  <2>1. Keyring!Environment' = Keyring!Loaded(u.lines)
    BY <1>2, <1>5 DEF Keyring!Environment, Keyring!LoadPath
  <2>2. KeyringFound(asked)' = KeyringFound([asked EXCEPT ![u.var] = u.key])
    BY <1>3 DEF KeyringFound
  <2> QED BY <1>1, <1>3, <2>1, <2>2 DEF KeyringLeads
<1>8. \A q \in Keyring!Processes : update'[q].pc # "idle" => KeyringLeads(update[q])'
  BY <1>4
<1> QED
  BY <1>3, <1>e, <1>4, <1>5, <1>6, <1>7, <1>8 DEF KeyringInv

\* The server and the command line end at whatever they are.
LEMMA KeyringRestartInv ==
    ASSUME Keyring!KeyringAssumption, KeyringInv, Keyring!Restart
    PROVE  KeyringInv'
<1>1. /\ envFile' = envFile /\ asked' = asked /\ cut' = (cut \/ update["server"].pc = "write")
      /\ update' = [update EXCEPT !["server"] = Keyring!AtRest] /\ environ' = Keyring!Environment
         /\ check' = Keyring!NoCheck
      /\ served' \in 0 .. MaxKeyRequests
  BY KeyringServedIs DEF Keyring!Restart
<1>2. "server" \in Keyring!Processes /\ Keyring!AtRest \in KeyringUpdates /\ Keyring!AtRest.pc = "idle"
  BY KeyringAtRestIs DEF Keyring!Processes
<1>3. environ' \in [Variables -> KeyringWords] /\ check' \in KeyringChecks /\ ~check'.valid
  BY <1>1, KeyringEnvironmentIs, KeyringNoCheckIs
<1>4. cut' \in BOOLEAN /\ (~cut' => ~cut) /\ (update["server"].pc = "write" => cut')
  BY <1>1 DEF KeyringInv
<1> QED
  BY <1>1, <1>2, <1>3, <1>4, KeyringProcessInv

\* A process that ends while it writes is remembered.
LEMMA KeyringInterruptInv ==
    ASSUME Keyring!KeyringAssumption, KeyringInv, Keyring!Interrupt
    PROVE  KeyringInv'
<1>1. /\ envFile' = envFile /\ asked' = asked /\ cut' = (cut \/ update["cli"].pc = "write")
      /\ update' = [update EXCEPT !["cli"] = Keyring!AtRest] /\ environ' = environ /\ check' = check
      /\ served' \in 0 .. MaxKeyRequests
  BY KeyringServedIs DEF Keyring!Interrupt
<1>2. "cli" \in Keyring!Processes /\ Keyring!AtRest \in KeyringUpdates /\ Keyring!AtRest.pc = "idle"
  BY KeyringAtRestIs DEF Keyring!Processes
<1>3. environ' \in [Variables -> KeyringWords] /\ check' \in KeyringChecks
      /\ (check'.valid => check'.shown \in Accepted)
  BY <1>1 DEF KeyringInv
<1>4. cut' \in BOOLEAN /\ (~cut' => ~cut) /\ (update["cli"].pc = "write" => cut')
  BY <1>1 DEF KeyringInv
<1> QED
  BY <1>1, <1>2, <1>3, <1>4, KeyringProcessInv

\* A file that is not the one that is loaded changes nothing.
LEMMA KeyringPlaceFileInv ==
    ASSUME Keyring!KeyringAssumption, KeyringInv, NEW place \in {"cwd", "backend", "root"},
           NEW lines \in Templates, Keyring!PlaceFile(place, lines)
    PROVE  KeyringInv'
<1>1. /\ envFile' = [at \in DOMAIN envFile \cup {place} |-> IF at = place THEN lines ELSE envFile[at]]
      /\ "configured" \in DOMAIN envFile /\ UNCHANGED <<environ, update, check, asked, cut>>
  BY DEF Keyring!PlaceFile, Keyring!LoadPath
<1>2. lines \in Seq(KeyringLines) /\ served' \in 0 .. MaxKeyRequests
  BY KeyringServedIs DEF Keyring!PlaceFile, Keyring!KeyringAssumption, KeyringLines
<1>3. /\ "configured" \in DOMAIN envFile' /\ envFile'["configured"] = envFile["configured"]
      /\ DOMAIN envFile' \subseteq {"configured", "cwd", "backend", "root"}
      /\ \A at \in DOMAIN envFile' : envFile'[at] \in Seq(KeyringLines)
  BY <1>1, <1>2 DEF KeyringInv
<1>4. Keyring!Environment' = Keyring!Environment /\ KeyringFound(asked)' = KeyringFound(asked)
  BY <1>1, <1>3 DEF Keyring!Environment, Keyring!LoadPath, KeyringFound
<1>5. \A q \in Keyring!Processes : update'[q].pc # "idle" => KeyringLeads(update[q])'
  BY <1>1, <1>3 DEF KeyringInv, KeyringLeads
<1>6. ~cut' /\ (\A q \in Keyring!Processes : update'[q].pc # "write")
      => Keyring!Environment' = KeyringFound(asked)'
  BY <1>1, <1>4 DEF KeyringInv
<1> QED
  BY <1>1, <1>2, <1>3, <1>5, <1>6 DEF KeyringInv

\* A validation, and its answer.
LEMMA KeyringCheckInv ==
    ASSUME Keyring!KeyringAssumption, KeyringInv,
           (\E v \in Variables : Keyring!Validate(v))
                 \/ \E accepts \in BOOLEAN : Keyring!Answered(accepts)
    PROVE  KeyringInv'
<1>1. UNCHANGED <<envFile, environ, update, asked, cut>> /\ served' \in 0 .. MaxKeyRequests
  BY KeyringServedIs DEF Keyring!Validate, Keyring!Answered, KeyringInv
<1>2. check' \in KeyringChecks /\ (check'.valid => check'.shown \in Accepted)
  <2>1. ASSUME NEW v \in Variables, Keyring!Validate(v)
        PROVE  check' \in KeyringChecks /\ (check'.valid => check'.shown \in Accepted)
    <3>1. environ[v] \in KeyringWords /\ check \in KeyringChecks
          /\ (check.valid => check.shown \in Accepted)
      BY DEF KeyringInv
    <3> QED BY <2>1, <3>1 DEF Keyring!Validate, KeyringChecks
  <2>2. ASSUME NEW accepts \in BOOLEAN, Keyring!Answered(accepts)
        PROVE  check' \in KeyringChecks /\ (check'.valid => check'.shown \in Accepted)
    <3>1. check.key \in KeyringWords
      BY DEF KeyringInv, KeyringChecks
    <3> QED BY <2>2, <3>1 DEF Keyring!Answered, KeyringChecks, KeyringWords
  <2> QED BY <2>1, <2>2
<1>3. /\ Keyring!Environment' = Keyring!Environment /\ KeyringFound(asked)' = KeyringFound(asked)
      /\ \A q \in Keyring!Processes : update'[q].pc # "idle" => KeyringLeads(update[q])'
  BY <1>1 DEF Keyring!Environment, KeyringFound, KeyringInv, KeyringLeads
<1> QED
  BY <1>1, <1>2, <1>3 DEF KeyringInv

\* Every step keeps the invariant.
LEMMA KeyringNextInv == ASSUME Keyring!KeyringAssumption, KeyringInv, Keyring!Next PROVE KeyringInv'
<1>1. ASSUME NEW p \in Keyring!Processes, NEW v \in Variables, NEW key \in Keys \cup {Unset},
      Keyring!Change(p, v, key)
      PROVE  KeyringInv'
  BY <1>1, KeyringChangeInv DEF KeyringWords
<1>2. ASSUME NEW p \in Keyring!Processes, Keyring!OpenFile(p) \/ Keyring!WriteFile(p) PROVE KeyringInv'
  BY <1>2, KeyringOpenFileInv, KeyringWriteFileInv
<1>3. ASSUME NEW place \in {"cwd", "backend", "root"}, NEW lines \in Templates,
      Keyring!PlaceFile(place, lines)
      PROVE  KeyringInv'
  BY <1>3, KeyringPlaceFileInv
<1> QED
  BY <1>1, <1>2, <1>3, KeyringCheckInv, KeyringRestartInv, KeyringInterruptInv DEF Keyring!Next

\* A step that changes nothing of it keeps the invariant.
LEMMA KeyringStutterInv == ASSUME KeyringInv, UNCHANGED Keyring!vars PROVE KeyringInv'
<1>1. UNCHANGED <<envFile, environ, update, check, asked, cut, served>>
  BY DEF Keyring!vars
<1>2. /\ Keyring!Environment' = Keyring!Environment /\ KeyringFound(asked)' = KeyringFound(asked)
      /\ \A q \in Keyring!Processes : update'[q].pc # "idle" => KeyringLeads(update[q])'
  BY <1>1 DEF Keyring!Environment, KeyringFound, KeyringInv, KeyringLeads
<1> QED
  BY <1>1, <1>2 DEF KeyringInv

------------------------------------------------------------------------------
(* The system                                                              *)

\* What is true of the component that moves.
ServicesInv ==
    /\ moving \in {"instances", "cluster", "proofs", "downloads", "librarian", "sandbox", "analysis",
                   "whirlpool", "keyring"}
    /\ moving = "instances" => InstancesInv
    /\ moving = "cluster" => ClusterInv
    /\ moving = "proofs" => ProofsInv
    /\ moving = "downloads" => DownloadsInv
    /\ moving = "librarian" => LibrarianInv
    /\ moving = "sandbox" => SandboxInv
    /\ moving = "analysis" => AnalysisInv
    /\ moving = "whirlpool" => WhirlpoolInv
    /\ moving = "keyring" => KeyringInv

\* Whichever component moves, it was in an initial state of its own.
LEMMA ServicesInitInv == Init => ServicesInv
<1> SUFFICES ASSUME Init PROVE ServicesInv
  OBVIOUS
<1>1. /\ Instances!Init
      /\ Cluster!Init
      /\ Proofs!Init
      /\ Downloads!Init
      /\ Librarian!Init
      /\ Sandbox!Init
      /\ Analysis!Init
      /\ Whirlpool!Init
      /\ Keyring!Init
  BY DEF Init
<1>2. InstancesInv
  BY <1>1, InstancesInitInv, ServicesAssumption DEF ServicesAssumption
<1>3. ClusterInv
  BY <1>1, ClusterInitInv, ServicesAssumption DEF ServicesAssumption
<1>4. ProofsInv
  BY <1>1, ProofsInitInv, ServicesAssumption DEF ServicesAssumption
<1>5. DownloadsInv
  BY <1>1, DownloadsInitInv, ServicesAssumption DEF ServicesAssumption
<1>6. LibrarianInv
  BY <1>1, LibrarianInitInv, ServicesAssumption DEF ServicesAssumption
<1>7. SandboxInv
  BY <1>1, SandboxInitInv, ServicesAssumption DEF ServicesAssumption
<1>8. AnalysisInv
  BY <1>1, AnalysisInitInv, ServicesAssumption DEF ServicesAssumption
<1>9. WhirlpoolInv
  BY <1>1, WhirlpoolInitInv, ServicesAssumption DEF ServicesAssumption
<1>10. KeyringInv
  BY <1>1, KeyringInitInv, ServicesAssumption DEF ServicesAssumption
<1> QED
  BY <1>2, <1>3, <1>4, <1>5, <1>6, <1>7, <1>8, <1>9, <1>10 DEF Init, ServicesInv

\* A step is one of the component that moves, and none of another.
LEMMA ServicesMoves ==
    ASSUME [Next]_vars
    PROVE  /\ moving' = moving
           /\ moving = "instances" => Instances!Next \/ UNCHANGED Instances!vars
           /\ moving = "cluster" => Cluster!Next \/ UNCHANGED Cluster!vars
           /\ moving = "proofs" => Proofs!Next \/ UNCHANGED Proofs!vars
           /\ moving = "downloads" => Downloads!Next \/ UNCHANGED Downloads!vars
           /\ moving = "librarian" => Librarian!Next \/ UNCHANGED Librarian!vars
           /\ moving = "sandbox" => Sandbox!Next \/ UNCHANGED Sandbox!vars
           /\ moving = "analysis" => Analysis!Next \/ UNCHANGED Analysis!vars
           /\ moving = "whirlpool" => Whirlpool!Next \/ UNCHANGED Whirlpool!vars
           /\ moving = "keyring" => Keyring!Next \/ UNCHANGED Keyring!vars
<1>1. CASE InstancesMove
  BY <1>1 DEF InstancesMove
<1>2. CASE ClusterMove
  BY <1>2 DEF ClusterMove
<1>3. CASE ProofsMove
  BY <1>3 DEF ProofsMove
<1>4. CASE DownloadsMove
  BY <1>4 DEF DownloadsMove
<1>5. CASE LibrarianMove
  BY <1>5 DEF LibrarianMove
<1>6. CASE SandboxMove
  BY <1>6 DEF SandboxMove
<1>7. CASE AnalysisMove
  BY <1>7 DEF AnalysisMove
<1>8. CASE WhirlpoolMove
  BY <1>8 DEF WhirlpoolMove
<1>9. CASE KeyringMove
  BY <1>9 DEF KeyringMove
<1>10. CASE UNCHANGED vars
  <2>1. UNCHANGED <<moving, instancesVars, clusterVars, proofsVars, downloadsVars, librarianVars,
        sandboxVars, analysisVars, whirlpoolVars, keyringVars>>
    BY <1>10 DEF vars
  <2>2. UNCHANGED Instances!vars
    BY <2>1 DEF instancesVars, Instances!vars, Instances!shared
  <2>3. UNCHANGED Cluster!vars
    BY <2>1 DEF clusterVars, Cluster!vars, Cluster!bus
  <2>4. UNCHANGED Proofs!vars
    BY <2>1 DEF proofsVars, Proofs!vars
  <2>5. UNCHANGED Downloads!vars
    BY <2>1 DEF downloadsVars, Downloads!vars
  <2>6. UNCHANGED Librarian!vars
    BY <2>1 DEF librarianVars, Librarian!vars
  <2>7. UNCHANGED Sandbox!vars
    BY <2>1 DEF sandboxVars, Sandbox!vars
  <2>8. UNCHANGED Analysis!vars
    BY <2>1 DEF analysisVars, Analysis!vars
  <2>9. UNCHANGED Whirlpool!vars
    BY <2>1 DEF whirlpoolVars, Whirlpool!vars
  <2>10. UNCHANGED Keyring!vars
    BY <2>1 DEF keyringVars, Keyring!vars
  <2> QED BY <2>1, <2>2, <2>3, <2>4, <2>5, <2>6, <2>7, <2>8, <2>9, <2>10
<1> QED
  BY <1>1, <1>2, <1>3, <1>4, <1>5, <1>6, <1>7, <1>8, <1>9, <1>10 DEF Next

\* A step of the component that moves keeps what is true of it.
LEMMA ServicesNextInv == ServicesInv /\ [Next]_vars => ServicesInv'
<1> SUFFICES ASSUME ServicesInv, [Next]_vars PROVE ServicesInv'
  OBVIOUS
<1>1. ASSUME moving = "instances" PROVE InstancesInv'
  <2>1. InstancesInv /\ (Instances!Next \/ UNCHANGED Instances!vars) /\ Instances!InstancesAssumption
    BY <1>1, ServicesMoves, ServicesAssumption DEF ServicesInv, ServicesAssumption
  <2> QED BY <2>1, InstancesNextInv, InstancesStutterInv
<1>2. ASSUME moving = "cluster" PROVE ClusterInv'
  <2>1. ClusterInv /\ (Cluster!Next \/ UNCHANGED Cluster!vars) /\ Cluster!ClusterAssumption
    BY <1>2, ServicesMoves, ServicesAssumption DEF ServicesInv, ServicesAssumption
  <2> QED BY <2>1, ClusterNextInv
<1>3. ASSUME moving = "proofs" PROVE ProofsInv'
  <2>1. ProofsInv /\ (Proofs!Next \/ UNCHANGED Proofs!vars) /\ Proofs!StorageProofAssumption
    BY <1>3, ServicesMoves, ServicesAssumption DEF ServicesInv, ServicesAssumption
  <2> QED BY <2>1, ProofsNextInv, ProofsStutterInv
<1>4. ASSUME moving = "downloads" PROVE DownloadsInv'
  <2>1. DownloadsInv /\ (Downloads!Next \/ UNCHANGED Downloads!vars) /\ Downloads!DownloadsAssumption
    BY <1>4, ServicesMoves, ServicesAssumption DEF ServicesInv, ServicesAssumption
  <2> QED BY <2>1, DownloadsNextInv, DownloadsStutterInv
<1>5. ASSUME moving = "librarian" PROVE LibrarianInv'
  <2>1. LibrarianInv /\ (Librarian!Next \/ UNCHANGED Librarian!vars) /\ Librarian!LibrarianAssumption
    BY <1>5, ServicesMoves, ServicesAssumption DEF ServicesInv, ServicesAssumption
  <2> QED BY <2>1, LibrarianNextInv
<1>6. ASSUME moving = "sandbox" PROVE SandboxInv'
  <2>1. SandboxInv /\ (Sandbox!Next \/ UNCHANGED Sandbox!vars) /\ Sandbox!SandboxAssumption
    BY <1>6, ServicesMoves, ServicesAssumption DEF ServicesInv, ServicesAssumption
  <2> QED BY <2>1, SandboxNextInv, SandboxStutterInv
<1>7. ASSUME moving = "analysis" PROVE AnalysisInv'
  <2>1. AnalysisInv /\ (Analysis!Next \/ UNCHANGED Analysis!vars) /\ Analysis!AnalysisAssumption
    BY <1>7, ServicesMoves, ServicesAssumption DEF ServicesInv, ServicesAssumption
  <2> QED BY <2>1, AnalysisNextInv, AnalysisStutterInv
<1>8. ASSUME moving = "whirlpool" PROVE WhirlpoolInv'
  <2>1. WhirlpoolInv /\ (Whirlpool!Next \/ UNCHANGED Whirlpool!vars) /\ Whirlpool!WhirlpoolAssumption
    BY <1>8, ServicesMoves, ServicesAssumption DEF ServicesInv, ServicesAssumption
  <2> QED BY <2>1, WhirlpoolNextInv, WhirlpoolStutterInv
<1>9. ASSUME moving = "keyring" PROVE KeyringInv'
  <2>1. KeyringInv /\ (Keyring!Next \/ UNCHANGED Keyring!vars) /\ Keyring!KeyringAssumption
    BY <1>9, ServicesMoves, ServicesAssumption DEF ServicesInv, ServicesAssumption
  <2> QED BY <2>1, KeyringNextInv, KeyringStutterInv
<1>10. moving' = moving
  BY ServicesMoves
<1> QED
  BY <1>1, <1>2, <1>3, <1>4, <1>5, <1>6, <1>7, <1>8, <1>9, <1>10 DEF ServicesInv

\* While one operation of the instance manager runs at a time: no two members
\* share a number or a port (instances.py:324); none outlives the shared Redis
\* but those that a command failed to stop or to list, which the code does not
\* notice; and what Redis publishes after an operation is the registry, unless
\* its last change could not be published (instances.py:532, :685).  For any
\* number of workers, members, operations and failures.
THEOREM ClusterConsistentAlways == Spec => []ClusterConsistent
<1>1. ServicesInv => ClusterConsistent
  <2> SUFFICES ASSUME ServicesInv, moving = "instances" PROVE Instances!ClusterConsistent
    BY DEF ClusterConsistent
  <2>1. InstancesInv /\ Instances!InstancesAssumption
    BY ServicesAssumption DEF ServicesInv, ServicesAssumption
  <2> QED BY <2>1, InstancesInvHolds
<1> QED
  BY <1>1, ServicesInitInv, ServicesNextInv, PTL DEF Spec

\* A task is run by a shard its id hashes to (cluster.py:86), and one that
\* reached the bus is there as a task or as a result (state_bus.py:82), for any
\* number of tasks, shards and counts, whatever ends or fails.
THEOREM TasksAccountedAlways == Spec => []TasksAccounted
<1>1. ServicesInv => TasksAccounted
  <2> SUFFICES ASSUME ServicesInv, moving = "cluster" PROVE Cluster!TasksAccounted
    BY DEF TasksAccounted
  <2>1. ClusterInv /\ Cluster!ClusterAssumption
    BY ServicesAssumption DEF ServicesInv, ServicesAssumption
  <2> QED BY <2>1 DEF ClusterInv
<1> QED
  BY <1>1, ServicesInitInv, ServicesNextInv, PTL DEF Spec

\* The status a host has is the one that the score of its answers gives it, and
\* no host has more answers than it was asked for, but for those to challenges of
\* others that were given in its name, less those to its own that were given in
\* another's (storage_proof.py:236, :243, :281).  For any number of hosts,
\* challenges and restarts, and for every window of grades.
THEOREM ReputationEarnedAlways == Spec => []ReputationEarned
<1>1. ServicesInv => ReputationEarned
  <2> SUFFICES ASSUME ServicesInv, moving = "proofs" PROVE Proofs!ReputationEarned
    BY DEF ReputationEarned
  <2>1. ProofsInv /\ Proofs!StorageProofAssumption
    BY ServicesAssumption DEF ServicesInv, ServicesAssumption
  <2> QED BY <2>1, ProofsInvHolds
<1> QED
  BY <1>1, ServicesInitInv, ServicesNextInv, PTL DEF Spec

\* What a manifest on disk lists can be loaded from there, and one that is called
\* complete has no gap before the last layer that it lists, whatever is fetched or
\* fails in between (shard_manager.py:172, :258), unless the model was removed
\* while it was indexed.  For any number of files, layers, workers and requests.
THEOREM ManifestTruthfulAlways == Spec => []ManifestTruthful
<1>1. ServicesInv => ManifestTruthful
  <2> SUFFICES ASSUME ServicesInv, moving = "downloads" PROVE Downloads!ManifestTruthful
    BY DEF ManifestTruthful
  <2>1. DownloadsInv /\ Downloads!DownloadsAssumption
    BY ServicesAssumption DEF ServicesInv, ServicesAssumption
  <2> QED BY <2>1, DownloadsInvHolds
<1> QED
  BY <1>1, ServicesInitInv, ServicesNextInv, PTL DEF Spec

\* While commits do not overlap, a head loads in every state: the version it names
\* has a manifest, which it names by its content, and a body that the manifest
\* signs for (store.py:142), for any number of writers and crashes.
THEOREM HeadsLoadAlways == Spec => []HeadsLoad
<1>1. ServicesInv => HeadsLoad
  <2> SUFFICES ASSUME ServicesInv, moving = "librarian" PROVE Librarian!HeadsLoad
    BY DEF HeadsLoad
  <2>1. LibrarianInv /\ Librarian!LibrarianAssumption
    BY ServicesAssumption DEF ServicesInv, ServicesAssumption
  <2> QED BY <2>1, LibrarianInvHolds
<1> QED
  BY <1>1, ServicesInitInv, ServicesNextInv, PTL DEF Spec

\* Once a validation has ended the system's directories hold nothing of it, and
\* what was served outside of one was never written to its sandbox
\* (magi_vir.py:181, :279), for any number of validations, requests and prompts.
THEOREM VirIsolatedAlways == Spec => []VirIsolated
<1>1. ServicesInv => VirIsolated
  <2> SUFFICES ASSUME ServicesInv, moving = "sandbox" PROVE Sandbox!VirIsolated
    BY DEF VirIsolated
  <2>1. SandboxInv /\ Sandbox!SandboxAssumption
    BY ServicesAssumption DEF ServicesInv, ServicesAssumption
  <2> QED BY <2>1, SandboxInvHolds
<1> QED
  BY <1>1, ServicesInitInv, ServicesNextInv, PTL DEF Spec

\* What is proposed is what the sessions that were read call for: a threshold moves
\* in the direction and within the bounds of its strategy, every change answers
\* something that was read and no two are of the same place, and a suspicious
\* session moves either threshold that is not at its limit (optimization.py:164),
\* for any sessions, agents and distances, and however long proposals are adopted.
THEOREM ProposalsRightAlways == Spec => []ProposalsRight
<1>1. ServicesInv => ProposalsRight
  <2> SUFFICES ASSUME ServicesInv, moving = "analysis" PROVE Analysis!ProposalsRight
    BY DEF ProposalsRight
  <2>1. AnalysisInv /\ Analysis!AnalysisAssumption
    BY ServicesAssumption DEF ServicesInv, ServicesAssumption
  <2> QED BY <2>1, AnalysisInvHolds
<1> QED
  BY <1>1, ServicesInitInv, ServicesNextInv, PTL DEF Spec

\* What a cycle of ingestion reports adds up: the items of every adapter are
\* those it yielded, and the cycle's total is theirs (whirlpool/ingest.py), for
\* any adapters, cycles and entries.
THEOREM StatsAddUpAlways == Spec => []StatsAddUp
<1>1. ServicesInv => StatsAddUp
  <2> SUFFICES ASSUME ServicesInv, moving = "whirlpool" PROVE Whirlpool!StatsAddUp
    BY DEF StatsAddUp
  <2>1. WhirlpoolInv /\ Whirlpool!WhirlpoolAssumption
    BY ServicesAssumption DEF ServicesInv, ServicesAssumption
  <2> QED BY <2>1, WhirlpoolInvHolds
<1> QED
  BY <1>1, ServicesInitInv, ServicesNextInv, PTL DEF Spec

\* With MAESTRO_ENV_FILE set, no other .env that was there before that one, and
\* one writer at a time, a restart of the server finds each variable as it was
\* last asked to be, unless a process was ended while it wrote (keyring.py,
\* api_keys.py), for any variables, keys and requests.  Without that variable, as
\* in local runs, a saved key can be lost.
THEOREM KeysKeptAlways == Spec => []KeysKept
<1>1. ServicesInv => KeysKept
  <2> SUFFICES ASSUME ServicesInv, moving = "keyring" PROVE Keyring!KeysKept
    BY DEF KeysKept
  <2>1. KeyringInv /\ Keyring!KeyringAssumption
    BY ServicesAssumption DEF ServicesInv, ServicesAssumption
  <2> QED BY <2>1, KeyringInvHolds
<1> QED
  BY <1>1, ServicesInitInv, ServicesNextInv, PTL DEF Spec

\* Every component's variables keep their types, for all values of the constants,
\* and the numbers the code computes their ranges: confidence and agreement are
\* fractions (r2.py:166), thresholds in percent.
THEOREM ServicesTypeCorrect == Spec => []TypeOK
<1>1. ServicesInv => TypeOK
  <2> SUFFICES ASSUME ServicesInv PROVE TypeOK
    OBVIOUS
  <2>1. ASSUME moving = "instances" PROVE Instances!TypeOK
    <3>1. InstancesInv /\ Instances!InstancesAssumption
      BY <2>1, ServicesAssumption DEF ServicesInv, ServicesAssumption
    <3> QED BY <3>1, InstancesInvHolds
  <2>2. ASSUME moving = "cluster" PROVE Cluster!TypeOK
    <3>1. ClusterInv /\ Cluster!ClusterAssumption
      BY <2>2, ServicesAssumption DEF ServicesInv, ServicesAssumption
    <3> QED BY <3>1 DEF ClusterInv
  <2>3. ASSUME moving = "proofs" PROVE Proofs!TypeOK
    <3>1. ProofsInv /\ Proofs!StorageProofAssumption
      BY <2>3, ServicesAssumption DEF ServicesInv, ServicesAssumption
    <3> QED BY <3>1, ProofsInvHolds
  <2>4. ASSUME moving = "downloads" PROVE Downloads!TypeOK
    <3>1. DownloadsInv /\ Downloads!DownloadsAssumption
      BY <2>4, ServicesAssumption DEF ServicesInv, ServicesAssumption
    <3> QED BY <3>1, DownloadsInvHolds
  <2>5. ASSUME moving = "librarian" PROVE Librarian!TypeOK
    <3>1. LibrarianInv /\ Librarian!LibrarianAssumption
      BY <2>5, ServicesAssumption DEF ServicesInv, ServicesAssumption
    <3> QED BY <3>1, LibrarianInvHolds
  <2>6. ASSUME moving = "sandbox" PROVE Sandbox!TypeOK
    <3>1. SandboxInv /\ Sandbox!SandboxAssumption
      BY <2>6, ServicesAssumption DEF ServicesInv, ServicesAssumption
    <3> QED BY <3>1, SandboxInvHolds
  <2>7. ASSUME moving = "analysis" PROVE Analysis!TypeOK
    <3>1. AnalysisInv /\ Analysis!AnalysisAssumption
      BY <2>7, ServicesAssumption DEF ServicesInv, ServicesAssumption
    <3> QED BY <3>1, AnalysisInvHolds
  <2>8. ASSUME moving = "whirlpool" PROVE Whirlpool!TypeOK
    <3>1. WhirlpoolInv /\ Whirlpool!WhirlpoolAssumption
      BY <2>8, ServicesAssumption DEF ServicesInv, ServicesAssumption
    <3> QED BY <3>1, WhirlpoolInvHolds
  <2>9. ASSUME moving = "keyring" PROVE Keyring!TypeOK
    <3>1. KeyringInv /\ Keyring!KeyringAssumption
      BY <2>9, ServicesAssumption DEF ServicesInv, ServicesAssumption
    <3> QED BY <3>1, KeyringInvHolds
  <2> QED BY <2>1, <2>2, <2>3, <2>4, <2>5, <2>6, <2>7, <2>8, <2>9 DEF TypeOK, ServicesInv
<1> QED
  BY <1>1, ServicesInitInv, ServicesNextInv, PTL DEF Spec
==============================================================================
