----------------------------- MODULE VirSandbox -----------------------------
(***************************************************************************)
(* Where sessions and R2 ledger entries are kept (maestro/session.py,      *)
(* r2.py) while improvement cycles are validated (magi_vir.py).  Both      *)
(* stores take their directory, when they are built, from a variable of    *)
(* their module, unless they are told one.  A benchmark points the two     *)
(* variables at its sandbox, builds its stores, and points them back;      *)
(* requests served in the meantime build theirs from the same variables.   *)
(*                                                                         *)
(* Abstractions.  A record is who made it and where it is; a benchmark is  *)
(* the two records it makes.  A validation is one thread, a request the    *)
(* event loop, which other threads interrupt anywhere.                     *)
(***************************************************************************)
EXTENDS Integers, FiniteSets

CONSTANTS
    Primary,       \* data/sessions and data/r2
    Validations,   \* improvement cycles that validate their proposals
    Requests,      \* prompts of users
    Overlap,       \* can two cycles overlap
    Prompts        \* how many benchmark prompts there are

SandboxAssumption ==
    /\ IsFiniteSet(Validations) /\ IsFiniteSet(Requests) /\ Validations \cap Requests = {}
    /\ \A v \in Validations : Primary \notin {v} \X {"baseline", "optimized"}
    /\ Overlap \in BOOLEAN /\ Prompts \in Nat \ {0}

VARIABLES
    dir,        \* session._DEFAULT_DIR and r2._DEFAULT_LEDGER_DIR
    exist,      \* directories that exist
    records,    \* sessions and ledger entries, by maker and directory
    validation, \* how far each cycle is
    request,    \* how far each request is
    meddled     \* history: requests that built a store while a benchmark ran

vars == <<dir, exist, records, validation, request, meddled>>

Kinds == {"session", "ledger"}
Phases == {"baseline", "optimized"}
Sandboxes(v) == {v} \X Phases
Directories == {Primary} \cup UNION {Sandboxes(v) : v \in Validations}

Place(kind, d) == [kind |-> kind, dir |-> d]

\* A store makes its directory when it is built.
Build(kind) == exist' = exist \cup {Place(kind, dir[kind])}

\* session.save, r2.index: writing where there is no directory raises.
Writable(kind, d) == Place(kind, d) \in exist
Write(who, kind, d) == records' = records \cup {[by |-> who, kind |-> kind, dir |-> d]}

Running(v) == validation[v].pc \notin {"idle", "done"}

\* From the first variable that is set to the last that is set back.
InBenchmark(v) ==
    validation[v].pc \in {"redirect ledger", "session store", "save", "ledger store", "index",
                          "restore", "restore ledger"}

\* Where a store is built, and where it is written to.
StoreOf == [session |-> "session store", ledger |-> "ledger store"]
WriteOf == [session |-> "save", ledger |-> "index"]

GoOn(v, pc) == validation' = [validation EXCEPT ![v].pc = pc]

------------------------------------------------------------------------------
(* A cycle                                                                 *)

\* The engine builds its stores, and MAGI reads what is in them.
Analyse(v) ==
    /\ validation[v].pc = "idle" /\ (Overlap \/ \A w \in Validations : ~Running(w))
    /\ exist' = exist \cup {Place(kind, dir[kind]) : kind \in Kinds}
    /\ validation' = [validation EXCEPT ![v].pc = "create",
                          ![v].seen = {r \in records : r.dir = dir[r.kind]}]
    /\ UNCHANGED <<dir, records, request, meddled>>

\* MagiVIR._create_sandbox, and the four directories of validate.
CreateSandbox(v) ==
    /\ validation[v].pc = "create"
    /\ exist' = exist \cup {Place(kind, d) : kind \in Kinds, d \in Sandboxes(v)}
    /\ validation' = [validation EXCEPT ![v].pc = "prompt", ![v].phase = "baseline", ![v].left = Prompts]
    /\ UNCHANGED <<dir, records, request, meddled>>

\* MagiVIR._run_benchmark_prompt: what the variables say is put by, then they
\* are set one after the other.
SaveDirs(v) ==
    /\ validation[v].pc = "prompt"
    /\ validation' = [validation EXCEPT ![v].pc = "redirect", ![v].saved = dir]
    /\ UNCHANGED <<dir, exist, records, request, meddled>>

Redirect(v, kind) ==
    /\ validation[v].pc = IF kind = "session" THEN "redirect" ELSE "redirect ledger"
    /\ dir' = [dir EXCEPT ![kind] = <<v, validation[v].phase>>]
    /\ GoOn(v, IF kind = "session" THEN "redirect ledger" ELSE "session store")
    /\ UNCHANGED <<exist, records, request, meddled>>

BuildStore(v, kind) ==
    /\ validation[v].pc = StoreOf[kind]
    /\ Build(kind)
    /\ validation' = [validation EXCEPT ![v].pc = WriteOf[kind],
                                        ![v].store = dir[kind]]
    /\ UNCHANGED <<dir, records, request, meddled>>

\* Slip: only a benchmark that succeeds points the variables back.
AfterFailureForgotten == "clean up"

\* What a benchmark raises ends the validation, after its "finally".
AfterFailure == "restore"

Fail(v) == validation' = [validation EXCEPT ![v].pc = AfterFailure, ![v].left = 0]

\* The session or the entry is written; this may fail like any write.
WriteRecord(v, kind) ==
    /\ validation[v].pc = WriteOf[kind]
    /\ \/ /\ Writable(kind, validation[v].store)
          /\ Write(v, kind, validation[v].store)
          /\ GoOn(v, IF kind = "session" THEN "ledger store" ELSE "restore")
       \/ Fail(v) /\ UNCHANGED records
    /\ UNCHANGED <<dir, exist, request, meddled>>

\* After the baseline prompts the optimized ones, then the end.
Following(val) ==
    IF val.left > 1 THEN [val EXCEPT !.pc = "prompt", !.left = @ - 1]
    ELSE IF val.left = 1 /\ val.phase = "baseline"
      THEN [val EXCEPT !.pc = "prompt", !.phase = "optimized", !.left = Prompts]
    ELSE [val EXCEPT !.pc = "clean up", !.left = 0]

\* The two variables are set back one after the other.
Restore(v, kind) ==
    /\ validation[v].pc = IF kind = "session" THEN "restore" ELSE "restore ledger"
    /\ dir' = [dir EXCEPT ![kind] = validation[v].saved[kind]]
    /\ validation' = [validation EXCEPT ![v] = IF kind = "session" THEN [@ EXCEPT !.pc = "restore ledger"]
                                               ELSE Following(@)]
    /\ UNCHANGED <<exist, records, request, meddled>>

\* MagiVIR._cleanup_sandbox removes everything under the sandbox.
CleanUp(v) ==
    /\ validation[v].pc = "clean up"
    /\ exist' = {p \in exist : p.dir \notin Sandboxes(v)}
    /\ records' = {r \in records : r.dir \notin Sandboxes(v)}
    /\ GoOn(v, "done")
    /\ UNCHANGED <<dir, request, meddled>>

------------------------------------------------------------------------------
(* A request, once its answers are aggregated                              *)

\* A store is built; a hook or another request may come before the next step.
OpenStore(r, kind) ==
    /\ request[r].pc = StoreOf[kind]
    /\ Build(kind)
    /\ request' = [request EXCEPT ![r] = [pc |-> WriteOf[kind], store |-> dir[kind]]]
    /\ meddled' = IF \E v \in Validations : InBenchmark(v)
                    THEN meddled \cup {r} ELSE meddled
    /\ UNCHANGED <<dir, records, validation>>

\* What cannot be saved is reported and the request goes on.
Persist(r, kind) ==
    /\ request[r].pc = WriteOf[kind]
    /\ IF Writable(kind, request[r].store) THEN Write(r, kind, request[r].store) ELSE UNCHANGED records
    /\ request' = [request EXCEPT ![r].pc = IF kind = "session" THEN "ledger store" ELSE "done"]
    /\ UNCHANGED <<dir, exist, validation, meddled>>

Init ==
    /\ dir = [kind \in Kinds |-> Primary] /\ exist = {Place("session", Primary)} /\ records = {}
    /\ validation = [v \in Validations |->
                        [pc |-> "idle", phase |-> "baseline", left |-> 0, saved |-> dir, store |-> Primary, seen |-> {}]]
    /\ request = [r \in Requests |-> [pc |-> "session store", store |-> Primary]]
    /\ meddled = {}

Next ==
    \/ \E v \in Validations :
          \/ Analyse(v) \/ CreateSandbox(v) \/ SaveDirs(v) \/ CleanUp(v)
          \/ \E kind \in Kinds : Redirect(v, kind) \/ BuildStore(v, kind) \/ WriteRecord(v, kind) \/ Restore(v, kind)
    \/ \E r \in Requests, kind \in Kinds : OpenStore(r, kind) \/ Persist(r, kind)

Spec == Init /\ [][Next]_vars

------------------------------------------------------------------------------
(* Properties                                                              *)

Record == [by : Validations \cup Requests, kind : Kinds, dir : Directories]

TypeOK ==
    /\ dir \in [Kinds -> Directories]
    /\ exist \subseteq [kind : Kinds, dir : Directories]
    /\ records \subseteq Record
    /\ \A v \in Validations :
          /\ validation[v].phase \in Phases /\ validation[v].left \in 0 .. Prompts
          /\ validation[v].saved \in [Kinds -> Directories] /\ validation[v].store \in Directories
          /\ validation[v].seen \subseteq Record
    /\ \A r \in Requests : request[r].store \in Directories
    /\ meddled \subseteq Requests

\* As long as cycles do not overlap, and wherever a benchmark fails: no
\* benchmark gets into the data of the system or into what MAGI makes of it,
\* and whatever is logged outside the benchmarks is there and stays there.
VirIsolated ==
    /\ \A r \in records : r.by \in Validations => r.dir # Primary
    /\ \A v \in Validations : \A r \in validation[v].seen : r.by \in Requests
    /\ (\A v \in Validations : ~Running(v)) => dir = [kind \in Kinds |-> Primary]
    /\ \A r \in Requests : request[r].pc = "done" /\ r \notin meddled =>
          \A kind \in Kinds : [by |-> r, kind |-> kind, dir |-> Primary] \in records
=============================================================================
