------------------------------ MODULE Injection ------------------------------
(***************************************************************************)
(* The self-improvement endpoints of Maestro and what they share: the      *)
(* module variables of the running process (aggregator thresholds), the    *)
(* source file they come from, data/runtime_config.json, the rollback      *)
(* ledger data/rollbacks/log.json and the persisted cycle records.         *)
(*                                                                         *)
(* POST /cycle and POST /inject/{cycle_id} run in worker threads           *)
(* (asyncio.to_thread), POST /rollback/... run on the event loop.  Every   *)
(* request builds its own CodeInjector, hence its own InjectionGuard and   *)
(* its own RollbackLog, which reads the ledger once, when it is built, and *)
(* writes all of it back at each change.  One action is one stretch of a   *)
(* request between two accesses to something the requests share.           *)
(*                                                                         *)
(* Abstractions.  A ledger is a list of entries that never change but for  *)
(* their status and are appended in the order of their (uuid) ids, so it   *)
(* is the function from ids to status, and the contents stand once, in     *)
(* "entry".  Values are small numbers; str(x)/float(s) of a finite float   *)
(* gives x back and is not modelled.  All variables of "live" belong to    *)
(* one Python module.  write_text is a truncation and a write; a file      *)
(* between the two is Torn (a source file is written in one step: reload   *)
(* failing stands for what else can be wrong with it).                     *)
(***************************************************************************)
EXTENDS Integers, Sequences, FiniteSets

CONSTANTS
    Cycles,       \* ids of improvement cycles
    NoCycle,      \* no cycle
    Threads,      \* worker threads that serve /cycle and /inject
    EventLoop,    \* the thread that serves /rollback and /rollback-cycle
    Targets,      \* module variables and config keys that can be injected
    Tuned,        \* the thresholds of the strategy tables, the one thing that
                  \* parameter updates are proposed for, and always a number
    Values,       \* what a target can be set to
    Absent,       \* a config key that is not set
    Torn,         \* a JSON file between truncation and write
    Initial,      \* the module variables as the shipped source has them
    Batches,      \* the proposal batches an analysis can come up with
    Endpoints,    \* the endpoints operators call: a subset of AllEndpoints
    MinVal, MaxVal,   \* the bounds their strategies give each of them
    MaxPerHour,   \* GuardConfig.max_injections_per_hour
    MaxEntries,   \* bound: injections recorded in a behaviour
    MaxRequests,  \* bound: requests served in a behaviour
    MaxCrashes    \* bound: process restarts in a behaviour

AllEndpoints == {"cycle", "inject", "rollback", "rollback_cycle"}
Kinds == {"runtime", "source_patch", "config"}
Categories == {"whitelisted", "blocked", "unlisted"}
Outcomes == {"promoted", "needs_review", "rejected", "no_proposals", "failed"}

Proposal == [kind : Kinds, target : Targets, value : Values, category : Categories]
Image == [Targets -> Values \cup {Absent}]     \* the contents of a file, or of a module
CycleRecord == [outcome : Outcomes \cup {"none", "torn"}, proposals : Batches \cup {<<>>}]

ASSUME ConstantsAssumption ==
    /\ Tuned \subseteq Targets /\ MaxPerHour \in Nat
    /\ MinVal \in [Tuned -> Int] /\ MaxVal \in [Tuned -> Int]
    /\ MaxEntries \in Nat /\ MaxRequests \in Nat /\ MaxCrashes \in Nat
    /\ Values \subseteq Int
    /\ EventLoop \notin Threads
    /\ NoCycle \notin Cycles
    /\ Torn \notin Image
    /\ Initial \in Image
    /\ Batches \subseteq Seq(Proposal)
    /\ Endpoints \subseteq AllEndpoints

Ids == 1 .. MaxEntries
Requests == Threads \cup {EventLoop}
Ledger == [Ids -> {"none", "applied", "rolled_back"}]
NoEntries == [i \in Ids |-> "none"]
NoConfig == [t \in Targets |-> Absent]

ASSUME TornAssumption == Torn \notin Ledger

VARIABLES
    live,     \* the module variables of the running process
    source,   \* the same variables in the .py file
    config,   \* data/runtime_config.json
    disk,     \* data/rollbacks/log.json
    entry,    \* the contents of the entries made so far, by id
    cycle,    \* data/improvements/cycle_<id>.json ("none": not there, "torn":
              \* between truncation and write)
    used,     \* cycle ids given out (uuid4: never twice)
    optIn,    \* MAESTRO_AUTO_INJECT, fixed when the process is deployed
    req,      \* what each request is doing, with its injector's ledger copy
    started, crashes,  \* counters the bounds refer to
    done,     \* history: injections that changed their target
    undone,   \* history: injections whose target was put back
    stuck,    \* history: source patches whose rollback would not reload
    serial,   \* history: no two requests overlapped, none was cut short
    lifo      \* history: whatever was put back was the newest of its kind in force

files == <<live, source, config, disk>>
book == <<entry, cycle, used, optIn>>
count == <<started, crashes>>
history == <<done, undone, stuck, serial, lifo>>
vars == <<files, book, req, count, history>>

Idle == [pc |-> "idle", op |-> "none", cycle |-> NoCycle, batch |-> <<>>, pos |-> 1,
         verdict |-> "no_proposals", applied |-> 0, undo |-> {}, held |-> {},
         mem |-> NoEntries, img |-> Initial, id |-> 0]

------------------------------------------------------------------------------
(* What requests read and decide.                                          *)

\* Slip (a definition that no action uses, of what a bug would do): a new
\* RollbackLog that does not read the ledger.
LoadNothing(d) == NoEntries

\* RollbackLog._load: a file that is not JSON counts as an empty ledger.
Load(d) == IF d = Torn THEN NoEntries ELSE d

\* Slip: the config is used as it is read.
ReadConfigUnchecked == config

\* _inject_config: a config file that is not JSON counts as empty.
ReadConfig == IF config = Torn THEN NoConfig ELSE config

\* InjectionGuard.check_bounds: only parameter updates are checked, and those
\* of the tables only.
CheckBounds(p) ==
    p.kind = "runtime" /\ p.target \in Tuned => p.value \in MinVal[p.target] .. MaxVal[p.target]

\* Slip: values are not checked.
IsInjectableUnbounded(p) == p.category = "whitelisted"

\* InjectionGuard.is_injectable.  The status test is left out: proposals reach
\* it "validated" (automatic) or as the record has them, "proposed", because
\* run_cycle serialises them before it updates their status.
IsInjectable(p) == p.category = "whitelisted" /\ CheckBounds(p)

\* InjectionGuard.check_rate_limit: the guard counts what it let through
\* itself, and lives as long as its request.
CheckRateLimit(r) == req[r].applied < MaxPerHour

\* get_active_by_cycle, on a copy of the ledger.
ActiveByCycle(m, c) ==
    {i \in DOMAIN entry : m[i] = "applied" /\ entry[i].cycle = c}

AllIdle == \A r \in Requests : req[r].pc = "idle"
At(r, label) == req[r].pc = label
Become(r, q) == req' = [req EXCEPT ![r] = q]
Goto(r, label) == Become(r, [req[r] EXCEPT !.pc = label])
Current(r) == req[r].batch[req[r].pos]

\* A request returns: its injector, guard and ledger copy are gone.
Return(r) == Become(r, Idle)

\* The thresholds that a batch would override: its parameter updates, the last
\* one of a target prevailing.
Updates(b, t) == {i \in DOMAIN b : b[i].kind = "runtime" /\ b[i].target = t}
Overridden(b) == {t \in Tuned : Updates(b, t) # {}}
Proposed(b, t) == b[CHOOSE i \in Updates(b, t) : \A j \in Updates(b, t) : j <= i].value

------------------------------------------------------------------------------
(* Requests begin.                                                         *)

Begin(r, endpoint) ==
    /\ At(r, "idle")
    /\ endpoint \in Endpoints
    /\ started < MaxRequests
    /\ started' = started + 1
    /\ serial' = (serial /\ AllIdle)
    /\ UNCHANGED <<files, entry, cycle, optIn, crashes, done, undone, stuck, lifo>>

\* run_cycle up to validation: analysis and introspection read only, and
\* yield a batch; an empty one ends the cycle.
StartCycle(r, c, b) ==
    /\ Begin(r, "cycle")
    /\ c \notin used
    /\ used' = used \cup {c}
    /\ Become(r, [Idle EXCEPT !.op = "cycle", !.cycle = c, !.batch = b,
                   !.pc = IF b = <<>> THEN "persist" ELSE "validate"])

\* inject_cycle: the record must exist and be promoted or left for review.
StartInject(r, c) ==
    /\ Begin(r, "inject")
    /\ cycle[c].outcome \in {"promoted", "needs_review"}
    /\ Become(r, [Idle EXCEPT !.op = "inject", !.cycle = c,
                   !.batch = cycle[c].proposals, !.pc = "open"])
    /\ UNCHANGED used

\* The two rollback endpoints: build an injector, look up in its ledger what is
\* to be undone; 404 when there is nothing.
StartUndo(endpoint, ids) ==
    /\ Begin(EventLoop, endpoint)
    /\ ids # {}
    /\ Become(EventLoop, [Idle EXCEPT !.op = endpoint, !.undo = ids,
                   !.mem = Load(disk), !.pc = "undo"])
    /\ UNCHANGED used

StartRollback(i) ==
    StartUndo("rollback", {j \in {i} \cap DOMAIN entry : Load(disk)[j] = "applied"})

StartRollbackCycle(c) == StartUndo("rollback_cycle", ActiveByCycle(Load(disk), c))

------------------------------------------------------------------------------
(* Validation and the injection of a batch.                                *)

\* MagiVIR._apply_threshold_overrides: the "sandbox" sets the variables of the
\* running process, one by one and unguarded, and remembers what they were.
Override(r, t) ==
    /\ At(r, "validate") /\ t \in Overridden(req[r].batch) \ req[r].held
    /\ live' = [live EXCEPT ![t] = Proposed(req[r].batch, t)]
    /\ Become(r, [req[r] EXCEPT !.img[t] = live[t], !.held = @ \cup {t}])
    /\ UNCHANGED <<source, config, disk, book, count, history>>

\* The benchmarks have run, or have raised.
Benchmark(r) ==
    /\ At(r, "validate") /\ Overridden(req[r].batch) \subseteq req[r].held
    /\ Goto(r, "restore")
    /\ UNCHANGED <<files, book, count, history>>

\* MagiVIR._restore_thresholds, in a finally clause.
Restore(r, t) ==
    /\ At(r, "restore") /\ t \in req[r].held
    /\ live' = [live EXCEPT ![t] = req[r].img[t]]
    /\ Become(r, [req[r] EXCEPT !.held = @ \ {t}])
    /\ UNCHANGED <<source, config, disk, book, count, history>>

\* The recommendation, and the opt-in gate of _try_auto_inject.
Recommend(r, verdict) ==
    /\ At(r, "restore") /\ req[r].held = {}
    /\ Become(r, [req[r] EXCEPT !.verdict = verdict,
                  !.pc = IF verdict = "promoted" /\ optIn THEN "open" ELSE "persist"])
    /\ UNCHANGED <<files, book, count, history>>

\* CodeInjector(): a RollbackLog with its own copy of the ledger.
Open(r) ==
    /\ At(r, "open")
    /\ Become(r, [req[r] EXCEPT !.mem = Load(disk), !.pc = "apply"])
    /\ UNCHANGED <<files, book, count, history>>

Accepts(r) == IsInjectable(Current(r)) /\ CheckRateLimit(r)

\* CodeInjector.apply on a proposal the guard or the rate limit refuses.
Skip(r) ==
    /\ At(r, "apply") /\ req[r].pos \in DOMAIN req[r].batch
    /\ ~Accepts(r)
    /\ Become(r, [req[r] EXCEPT !.pos = @ + 1])
    /\ UNCHANGED <<files, book, count, history>>

\* CodeInjector.apply on one they let through, up to reading the original.
\* A source patch is recorded before it is made, the others after.
ReadOriginal(r) ==
    /\ At(r, "apply") /\ req[r].pos \in DOMAIN req[r].batch
    /\ Accepts(r)
    /\ \/ /\ Current(r).kind = "runtime"
          /\ Become(r, [req[r] EXCEPT !.img = live, !.pc = "setattr"])
       \/ /\ Current(r).kind = "config"
          /\ Become(r, [req[r] EXCEPT !.img = ReadConfig, !.pc = "truncate"])
       \/ /\ Current(r).kind = "source_patch"
          /\ Become(r, [req[r] EXCEPT !.img = source, !.pc = "record"])
    /\ UNCHANGED <<files, book, count, history>>

\* Slip: the original value is read after the new one is set.
SetRuntimeFirst(r) ==
    /\ At(r, "setattr")
    /\ live' = [live EXCEPT ![Current(r).target] = Current(r).value]
    /\ Become(r, [req[r] EXCEPT !.img = live', !.pc = "record"])
    /\ UNCHANGED <<source, config, disk, book, count, history>>

SetRuntime(r) ==
    /\ At(r, "setattr")
    /\ live' = [live EXCEPT ![Current(r).target] = Current(r).value]
    /\ Goto(r, "record")
    /\ UNCHANGED <<source, config, disk, book, count, history>>

\* The config overlay is written back whole, with one key changed.
TruncateConfig(r) ==
    /\ At(r, "truncate")
    /\ config' = Torn
    /\ Goto(r, "write")
    /\ UNCHANGED <<live, source, disk, book, count, history>>

WriteConfig(r) ==
    /\ At(r, "write")
    /\ config' = [req[r].img EXCEPT ![Current(r).target] = Current(r).value]
    /\ Goto(r, "record")
    /\ UNCHANGED <<live, source, disk, book, count, history>>

\* RollbackLog.snapshot_*: append to the request's copy, truncate the file.  A
\* source snapshot copies the file as it is now.
Record(r) ==
    /\ At(r, "record")
    /\ Len(entry) < MaxEntries
    /\ LET p == Current(r)
           i == Len(entry) + 1
       IN /\ entry' = Append(entry,
                [cycle |-> req[r].cycle, kind |-> p.kind, target |-> p.target,
                 old |-> req[r].img[p.target], new |-> p.value, category |-> p.category,
                 backup |-> source])
          /\ Become(r, [req[r] EXCEPT !.mem[i] = "applied", !.id = i, !.pc = "save"])
          /\ done' = IF p.kind = "source_patch" THEN done ELSE done \cup {i}
    /\ disk' = Torn
    /\ UNCHANGED <<live, source, config, cycle, used, optIn, count, undone, stuck, serial, lifo>>

\* RollbackLog._save: the whole ledger, as this request knows it.
Save(r) ==
    /\ At(r, "save")
    /\ disk' = req[r].mem
    /\ IF Current(r).kind = "source_patch"
         THEN Goto(r, "patch")
         ELSE Become(r, [req[r] EXCEPT !.applied = @ + 1, !.pos = @ + 1, !.pc = "apply"])
    /\ UNCHANGED <<live, source, config, book, count, history>>

\* _inject_source: the file as it was read, with one value changed.
PatchSource(r) ==
    /\ At(r, "patch")
    /\ source' = [req[r].img EXCEPT ![Current(r).target] = Current(r).value]
    /\ done' = done \cup {req[r].id}
    /\ Goto(r, "reload")
    /\ UNCHANGED <<live, config, disk, book, count, undone, stuck, serial, lifo>>

\* importlib.reload sets every variable of the module again; when it raises,
\* apply reports the injection as not applied and the guard does not count it.
Reload(r) ==
    /\ At(r, "reload")
    /\ \/ /\ live' = source
          /\ Become(r, [req[r] EXCEPT !.applied = @ + 1, !.pos = @ + 1, !.pc = "apply"])
       \/ /\ Become(r, [req[r] EXCEPT !.pos = @ + 1, !.pc = "apply"])
          /\ UNCHANGED live
    /\ UNCHANGED <<source, config, disk, book, count, history>>

\* The batch is through: inject_cycle returns, a cycle that applied something
\* goes on to the smoke test.
EndBatch(r) ==
    /\ At(r, "apply") /\ req[r].pos \notin DOMAIN req[r].batch
    /\ \/ req[r].op = "inject" /\ Return(r)
       \/ req[r].op = "cycle" /\ Goto(r, IF req[r].applied = 0 THEN "persist" ELSE "smoke")
    /\ UNCHANGED <<files, book, count, history>>

\* InjectionGuard.smoke_test: passes, fails (the cycle is rolled back), or
\* raises (run_cycle marks the cycle failed and rolls nothing back).
SmokeTest(r) ==
    /\ At(r, "smoke")
    /\ \/ Goto(r, "persist")
       \/ Become(r, [req[r] EXCEPT !.undo = ActiveByCycle(req[r].mem, req[r].cycle),
                                 !.pc = "undo"])
       \/ Become(r, [req[r] EXCEPT !.verdict = "failed", !.pc = "persist"])
    /\ UNCHANGED <<files, book, count, history>>

------------------------------------------------------------------------------
(* CodeInjector.rollback for each entry of a request's list, oldest first. *)

Undoing(r) == CHOOSE i \in req[r].undo : \A j \in req[r].undo : i <= j
AtUndo(r, kind) == At(r, "undo") /\ req[r].undo # {} /\ entry[Undoing(r)].kind = kind

\* Two injections that share what they put back: the same target of the same
\* kind, or a module variable and the file (all of it) it is reloaded from.
Conflict(i, j) ==
    \/ entry[i].kind = entry[j].kind /\ entry[i].target = entry[j].target
    \/ "source_patch" \in {entry[i].kind, entry[j].kind}
       /\ "config" \notin {entry[i].kind, entry[j].kind}

\* History: injection i has been put back.
Restored(i) ==
    /\ undone' = undone \cup {i}
    /\ lifo' = (lifo /\ \A j \in done \ undone : j > i => ~Conflict(i, j))

\* On to the next entry; a rollback that raised leaves its entry applied.
Leave(r) == Become(r, [req[r] EXCEPT !.undo = @ \ {Undoing(r)}, !.pc = "undo"])

UndoRuntime(r) ==
    /\ AtUndo(r, "runtime")
    /\ LET e == entry[Undoing(r)] IN live' = [live EXCEPT ![e.target] = e.old]
    /\ Restored(Undoing(r))
    /\ Goto(r, "mark")
    /\ UNCHANGED <<source, config, disk, book, count, done, stuck, serial>>

UndoSource(r) ==
    /\ AtUndo(r, "source_patch")
    /\ source' = entry[Undoing(r)].backup
    /\ Goto(r, "unload")
    /\ UNCHANGED <<live, config, disk, book, count, history>>

\* Slip: an exception is caught and the entry marked all the same.
UndoReloadSwallowed(r) ==
    /\ At(r, "unload")
    /\ \/ live' = source /\ Restored(Undoing(r)) /\ Goto(r, "mark") /\ UNCHANGED stuck
       \/ Goto(r, "mark") /\ stuck' = stuck \cup {Undoing(r)} /\ UNCHANGED <<live, undone, lifo>>
    /\ UNCHANGED <<source, config, disk, book, count, done, serial>>

UndoReload(r) ==
    /\ At(r, "unload")
    /\ \/ live' = source /\ Restored(Undoing(r)) /\ Goto(r, "mark") /\ UNCHANGED stuck
       \/ Leave(r) /\ stuck' = stuck \cup {Undoing(r)} /\ UNCHANGED <<live, undone, lifo>>
    /\ UNCHANGED <<source, config, disk, book, count, done, serial>>

\* json.loads of a torn config raises; otherwise the file is rewritten.
UndoConfig(r) ==
    /\ AtUndo(r, "config")
    /\ \/ config = Torn /\ Leave(r) /\ UNCHANGED config
       \/ /\ config # Torn
          /\ config' = Torn
          /\ Become(r, [req[r] EXCEPT !.img = config, !.pc = "rewrite"])
    /\ UNCHANGED <<live, source, disk, book, count, history>>

RewriteConfig(r) ==
    /\ At(r, "rewrite")
    /\ LET e == entry[Undoing(r)] IN config' = [req[r].img EXCEPT ![e.target] = e.old]
    /\ Restored(Undoing(r))
    /\ Goto(r, "mark")
    /\ UNCHANGED <<live, source, disk, book, count, done, stuck, serial>>

\* RollbackLog.mark_rolled_back and its _save.
Mark(r) ==
    /\ At(r, "mark")
    /\ Become(r, [req[r] EXCEPT !.mem[Undoing(r)] = "rolled_back", !.pc = "saved"])
    /\ disk' = Torn
    /\ UNCHANGED <<live, source, config, book, count, history>>

SaveMark(r) ==
    /\ At(r, "saved")
    /\ disk' = req[r].mem
    /\ Leave(r)
    /\ UNCHANGED <<live, source, config, book, count, history>>

\* Slip: the loop over the entries of a cycle may return early.
EndUndoEarly(r) ==
    /\ At(r, "undo")
    /\ IF req[r].op = "cycle" THEN Goto(r, "persist") ELSE Return(r)
    /\ UNCHANGED <<files, book, count, history>>

EndUndo(r) ==
    /\ At(r, "undo") /\ req[r].undo = {}
    /\ IF req[r].op = "cycle" THEN Goto(r, "persist") ELSE Return(r)
    /\ UNCHANGED <<files, book, count, history>>

------------------------------------------------------------------------------
\* _persist_cycle: the one time a cycle's record is written, when all is over.
TruncateRecord(r) ==
    /\ At(r, "persist")
    /\ cycle' = [cycle EXCEPT ![req[r].cycle] = [outcome |-> "torn", proposals |-> <<>>]]
    /\ Goto(r, "keep")
    /\ UNCHANGED <<files, entry, used, optIn, count, history>>

Persist(r) ==
    /\ At(r, "keep")
    /\ cycle' = [cycle EXCEPT ![req[r].cycle] = [outcome |-> req[r].verdict,
                                                proposals |-> req[r].batch]]
    /\ Return(r)
    /\ UNCHANGED <<files, entry, used, optIn, count, history>>

\* The process ends and is started again: requests are gone, the module is
\* imported from its source, files are as they were.
Crash ==
    /\ crashes < MaxCrashes
    /\ crashes' = crashes + 1
    /\ req' = [r \in Requests |-> Idle]
    /\ live' = source
    /\ serial' = (serial /\ AllIdle)
    /\ UNCHANGED <<source, config, disk, book, started, done, undone, stuck, lifo>>

Init ==
    /\ live = Initial /\ source = Initial /\ config = NoConfig
    /\ disk = NoEntries /\ entry = <<>>
    /\ cycle = [c \in Cycles |-> [outcome |-> "none", proposals |-> <<>>]]
    /\ used = {}
    /\ optIn \in BOOLEAN
    /\ req = [r \in Requests |-> Idle]
    /\ started = 0 /\ crashes = 0
    /\ done = {} /\ undone = {} /\ stuck = {}
    /\ serial = TRUE /\ lifo = TRUE

Step(r) ==
    \/ (\E t \in Tuned : Override(r, t) \/ Restore(r, t)) \/ Benchmark(r)
    \/ (\E v \in Outcomes \ {"no_proposals"} : Recommend(r, v))
    \/ Open(r) \/ Skip(r) \/ ReadOriginal(r) \/ SetRuntime(r) \/ TruncateConfig(r)
    \/ WriteConfig(r) \/ Record(r) \/ Save(r) \/ PatchSource(r) \/ Reload(r)
    \/ EndBatch(r) \/ SmokeTest(r)
    \/ UndoRuntime(r) \/ UndoSource(r) \/ UndoReload(r) \/ UndoConfig(r)
    \/ RewriteConfig(r) \/ Mark(r) \/ SaveMark(r) \/ EndUndo(r)
    \/ TruncateRecord(r) \/ Persist(r)

Next ==
    \/ \E r \in Threads, c \in Cycles :
         \/ \E b \in Batches \cup {<<>>} : StartCycle(r, c, b)
         \/ StartInject(r, c)
    \/ \E i \in Ids : StartRollback(i)
    \/ \E c \in Cycles : StartRollbackCycle(c)
    \/ \E r \in Requests : Step(r)
    \/ Crash

Spec == Init /\ [][Next]_vars

------------------------------------------------------------------------------
Labels == {"idle", "validate", "restore", "open", "apply", "setattr", "truncate", "write",
           "record", "save", "patch", "reload", "smoke", "undo", "unload", "rewrite",
           "mark", "saved", "persist", "keep"}
Request == [pc : Labels, op : AllEndpoints \cup {"none"}, cycle : Cycles \cup {NoCycle},
            batch : Batches \cup {<<>>}, pos : Nat, verdict : Outcomes, applied : Nat,
            undo : SUBSET Ids, held : SUBSET Tuned, mem : Ledger, img : Image, id : Ids \cup {0}]
Entry == [cycle : Cycles, kind : Kinds, target : Targets, old : Values \cup {Absent},
          new : Values, category : Categories, backup : Image]

FilesOK == /\ live \in Image /\ source \in Image /\ config \in Image \cup {Torn}
           /\ disk \in Ledger \cup {Torn}
BookOK == /\ entry \in Seq(Entry) /\ Len(entry) <= MaxEntries
          /\ cycle \in [Cycles -> CycleRecord] /\ used \in SUBSET Cycles /\ optIn \in BOOLEAN
CountOK == started \in Nat /\ crashes \in Nat
HistoryOK == /\ done \in SUBSET Ids /\ undone \in SUBSET Ids /\ stuck \in SUBSET Ids
             /\ serial \in BOOLEAN /\ lifo \in BOOLEAN

\* Every variable has its type.
TypeOK == FilesOK /\ BookOK /\ CountOK /\ HistoryOK /\ req \in [Requests -> Request]

\* However requests interleave and the process crashes: nothing reaches the
\* ledger that the guard refuses, nothing that belongs to a cycle recorded as
\* rejected or empty, and without the opt-in nothing that does not belong to a
\* cycle already on record (self_improve.py _try_auto_inject, inject_cycle).
OnlyApproved ==
    \A i \in DOMAIN entry :
        /\ entry[i].category = "whitelisted"
        /\ entry[i].kind = "runtime" /\ entry[i].target \in Tuned =>
              entry[i].new \in MinVal[entry[i].target] .. MaxVal[entry[i].target]
        /\ cycle[entry[i].cycle].outcome \notin {"rejected", "no_proposals"}
        /\ ~optIn => cycle[entry[i].cycle].outcome \in {"promoted", "needs_review"}

\* However requests interleave and the process crashes: the ledger file never
\* calls an injection rolled back that was not put back, and records no
\* runtime or config injection that was not made.
LedgerTruthful ==
    \A i \in Ids :
        /\ Load(disk)[i] = "rolled_back" => i \in undone
        /\ Load(disk)[i] # "none" =>
              i \in DOMAIN entry /\ (entry[i].kind # "source_patch" => i \in done)

\* As long as requests came one at a time and none was cut short, between
\* requests the ledger file is exact: it has every injection ever made, and
\* the status of each (rollback.py, the "append-only ledger").
LedgerExact ==
    serial /\ AllIdle =>
        /\ disk # Torn
        /\ \A i \in DOMAIN entry :
             /\ i \in done
             /\ disk[i] = IF i \in undone THEN "rolled_back" ELSE "applied"

\* As long as requests came one at a time and none was cut short, and each
\* rollback took the newest injection of its target: once nothing is in force
\* the process, its source and its config overlay are as shipped, whatever
\* mixture of runtime, source and config injections came in between.
NothingInForceAsShipped ==
    serial /\ lifo /\ AllIdle /\ done \subseteq undone =>
        live = Initial /\ source = Initial /\ config = NoConfig

\* A cycle that fails its smoke test leaves nothing of its own in force when
\* its automatic rollback ends, except source patches whose rollback would not
\* reload (self_improve.py _try_auto_inject: "auto-rolls-back on degradation").
SmokeFailureUndone ==
    [][\A r \in Threads :
          serial /\ At(r, "undo") /\ req[r].op = "cycle" /\ req'[r].pc = "persist" =>
              \A i \in done \ undone : entry[i].cycle = req[r].cycle => i \in stuck]_vars

------------------------------------------------------------------------------
(* What docs and comments promise and the code does not keep.              *)

\* rollback.py:14 "Rollback is always one call away: ... rollback_cycle(cycle_id)
\* to undo everything from a cycle": one request at a time, no crash, only
\* whole cycles rolled back; once everything is rolled back, all is as shipped.
CycleRollbackRestores ==
    serial /\ AllIdle /\ done \subseteq undone =>
        live = Initial /\ source = Initial /\ config = NoConfig

\* architecture.md:87 "when disabled (the default), proposals are recorded but
\* never applied": between requests, with nothing injected, the thresholds are
\* those of the source.
NothingAppliedUnlessInjected == AllIdle /\ entry = <<>> => live = source
==============================================================================
