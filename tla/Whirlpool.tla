------------------------------ MODULE Whirlpool ------------------------------
(***************************************************************************)
(* The ingest half of a Whirlpool: `run_ingest_cycle` (whirlpool.py) drives *)
(* its adapters one after the other, each an async generator with counters  *)
(* of its own that `cycle_stats` snapshots.  An HttpRssAdapter (ingest.py)  *)
(* visits its feeds and gives up the event loop while it waits for an       *)
(* answer; an InMemoryIngestAdapter (adapter.py) drains the queue its       *)
(* callers fill, without waiting at all.                                    *)
(*                                                                          *)
(* `turn` is the cycle that has the event loop, 0 when it is free: what is  *)
(* between two awaits is never interleaved, a call of feed_items or of      *)
(* record_failure, another cycle and a cancellation come in at the awaits.  *)
(***************************************************************************)
EXTENDS Naturals, Sequences, FiniteSets, SequencesExt, Functions

CONSTANTS Adapters,   \* the adapter list: [kind, feeds, signed] records; a feed
                      \* is [source, https], a source the hostname of its URL
          Cycles,     \* calls of run_ingest_cycle, 1..n
          Entries,    \* how many entries the document of a feed may hold
          PerFeed,    \* max_items_per_feed
          MaxFed,     \* bound: items fed to one in-memory adapter
          MaxNoted,   \* bound: failures recorded with one in-memory adapter
          Overlap     \* BOOLEAN: may two cycles of the Whirlpool overlap?

VARIABLES adapter,    \* the counters of each adapter
          queue,      \* _pending_items of each adapter
          noted,      \* the number of its _pending_failures
          fed,        \* how many items it was ever fed: the items are 1..fed
          cycle,      \* the calls of run_ingest_cycle, with their summaries
          turn        \* the cycle that has the event loop, or 0

vars == <<adapter, queue, noted, fed, cycle, turn>>

Places == DOMAIN Adapters
InMemory(i) == Adapters[i].kind = "memory"
Own == "in-memory"
Sources == {Own} \cup UNION {{f.source : f \in ToSet(Adapters[i].feeds)} : i \in Places}

WhirlpoolAssumption ==
  /\ Adapters \in Seq(ToSet(Adapters))
  /\ \A i \in Places :
       /\ Adapters[i].kind \in {"http", "memory"} /\ Adapters[i].signed \in BOOLEAN
       /\ Adapters[i].feeds \in Seq(ToSet(Adapters[i].feeds))
  /\ IsFiniteSet(Cycles) /\ Cycles \subseteq Nat \ {0}
  /\ Entries \subseteq Nat /\ {PerFeed, MaxFed, MaxNoted} \subseteq Nat
  /\ Overlap \in BOOLEAN

(* CycleStats before the first cycle, and what each call of items() resets. *)
Fresh == [phase |-> "none", yielded |-> 0, counts |-> [s \in Sources |-> 0], failures |-> 0]
(* A slip the properties are there for: the counters are not reset.         *)
ResetPhase(i) == [adapter[i] EXCEPT !.phase = "running"]

Reset(i) == [Fresh EXCEPT !.phase = "running"]

(* The counters once n items from one source were yielded. *)
Yield(stats, source, n) ==
  [stats EXCEPT !.yielded = @ + n, !.counts[source] = @ + n]
Failed(stats) == [stats EXCEPT !.failures = @ + 1]
Completed(stats) == [stats EXCEPT !.phase = "complete"]

(* IngestCycleSummary: the items taken, and one snapshot per adapter.       *)
Summary == [pc |-> "new", at |-> 1, feed |-> 1, total |-> 0, taken |-> [i \in Places |-> <<>>],
            stats |-> <<>>, failures |-> 0]
Collected(c, stats) ==
  [c EXCEPT !.pc = "open", !.at = @ + 1, !.stats = Append(@, stats), !.failures = @ + stats.failures]

Init ==
  /\ adapter = [i \in Places |-> Fresh]
  /\ queue = [i \in Places |-> <<>>] /\ noted = [i \in Places |-> 0] /\ fed = [i \in Places |-> 0]
  /\ cycle = [c \in Cycles |-> Summary]
  /\ turn = 0

----------------------------------------------------------------------------
(* The callers of an in-memory adapter.                                     *)

FeedItems(i) ==
  /\ turn = 0 /\ InMemory(i) /\ fed[i] < MaxFed
  /\ fed' = [fed EXCEPT ![i] = @ + 1]
  /\ queue' = [queue EXCEPT ![i] = Append(@, fed[i] + 1)]
  /\ UNCHANGED <<adapter, noted, cycle, turn>>

RecordFailure(i) ==
  /\ turn = 0 /\ InMemory(i) /\ noted[i] < MaxNoted
  /\ noted' = [noted EXCEPT ![i] = @ + 1]
  /\ UNCHANGED <<adapter, queue, fed, cycle, turn>>

----------------------------------------------------------------------------
(* run_ingest_cycle.                                                        *)

Running(c) == cycle[c].pc \in {"open", "feed", "fetch", "close"}
Here(c) == cycle[c].at
At(c, pc) == turn = c /\ cycle[c].pc = pc
Feeds(c) == Adapters[Here(c)].feeds

Begin(c) ==
  /\ turn = 0 /\ cycle[c].pc = "new"
  /\ \A d \in Cycles : d < c => cycle[d].pc # "new"
  /\ Overlap \/ \A d \in Cycles : ~Running(d)
  /\ cycle' = [cycle EXCEPT ![c].pc = "open"] /\ turn' = c
  /\ UNCHANGED <<adapter, queue, noted, fed>>

(* InMemoryIngestAdapter.items, which never waits.                          *)
Took(c, i) == [cycle[c] EXCEPT !.total = @ + Len(queue[i]), !.taken[i] = queue[i]]
ServeQueue(c) ==
  /\ At(c, "open") /\ Here(c) \in Places
  /\ LET i == Here(c)
         served == Completed([Yield(Reset(i), Own, Len(queue[i])) EXCEPT !.failures = noted[i]])
     IN /\ InMemory(i)
        /\ adapter' = [adapter EXCEPT ![i] = served]
        /\ queue' = [queue EXCEPT ![i] = <<>>] /\ noted' = [noted EXCEPT ![i] = 0]
        /\ cycle' = [cycle EXCEPT ![c] = Collected(Took(c, i), served)]
  /\ UNCHANGED <<fed, turn>>

(* HttpRssAdapter.items up to its loop.                                     *)
OpenClient(c) ==
  /\ At(c, "open") /\ Here(c) \in Places /\ ~InMemory(Here(c))
  /\ adapter' = [adapter EXCEPT ![Here(c)] = Reset(Here(c))]
  /\ cycle' = [cycle EXCEPT ![c].pc = "feed", ![c].feed = 1]
  /\ UNCHANGED <<queue, noted, fed, turn>>

Refused(c) == ~Feeds(c)[cycle[c].feed].https \/ Adapters[Here(c)].signed

(* _fetch_one refuses a feed that is not https, and any feed while          *)
(* signatures are required.                                                 *)
Refuse(c) ==
  /\ At(c, "feed") /\ cycle[c].feed \in DOMAIN Feeds(c) /\ Refused(c)
  /\ adapter' = [adapter EXCEPT ![Here(c)] = Failed(@)]
  /\ cycle' = [cycle EXCEPT ![c].feed = @ + 1]
  /\ UNCHANGED <<queue, noted, fed, turn>>

Fetch(c) ==
  /\ At(c, "feed") /\ cycle[c].feed \in DOMAIN Feeds(c) /\ ~Refused(c)
  /\ cycle' = [cycle EXCEPT ![c].pc = "fetch"] /\ turn' = 0
  /\ UNCHANGED <<adapter, queue, noted, fed>>

(* No answer, an error status, or a document that does not parse.           *)
FetchFails(c) ==
  /\ turn = 0 /\ cycle[c].pc = "fetch"
  /\ adapter' = [adapter EXCEPT ![Here(c)] = Failed(@)]
  /\ cycle' = [cycle EXCEPT ![c].pc = "feed", ![c].feed = @ + 1] /\ turn' = c
  /\ UNCHANGED <<queue, noted, fed>>

Capped(n) == IF n < PerFeed THEN n ELSE PerFeed

FetchSucceeds(c) ==
  /\ turn = 0 /\ cycle[c].pc = "fetch"
  /\ \E n \in Entries :
       /\ adapter' = [adapter EXCEPT ![Here(c)] =
                        Yield(@, Feeds(c)[cycle[c].feed].source, Capped(n))]
       /\ cycle' = [cycle EXCEPT ![c].pc = "feed", ![c].feed = @ + 1, ![c].total = @ + Capped(n)]
  /\ turn' = c
  /\ UNCHANGED <<queue, noted, fed>>

(* Leaving the client waits for its connections to close.                   *)
CloseClient(c) ==
  /\ At(c, "feed") /\ cycle[c].feed > Len(Feeds(c))
  /\ cycle' = [cycle EXCEPT ![c].pc = "close"] /\ turn' = 0
  /\ UNCHANGED <<adapter, queue, noted, fed>>

(* The generator ends, and cycle_stats is read.                             *)
Closed(c) ==
  /\ turn = 0 /\ cycle[c].pc = "close"
  /\ LET i == Here(c)
     IN /\ adapter' = [adapter EXCEPT ![i] = Completed(@)]
        /\ cycle' = [cycle EXCEPT ![c] = Collected(@, Completed(adapter[i]))]
  /\ turn' = c
  /\ UNCHANGED <<queue, noted, fed>>

Return(c) ==
  /\ At(c, "open") /\ Here(c) \notin Places
  /\ cycle' = [cycle EXCEPT ![c].pc = "done"] /\ turn' = 0
  /\ UNCHANGED <<adapter, queue, noted, fed>>

(* The task is cancelled at an await: the generator's `finally` runs, and   *)
(* the summary goes with the call, the items it had taken among it.         *)
Cancel(c) ==
  /\ turn = 0 /\ cycle[c].pc \in {"fetch", "close"}
  /\ adapter' = [adapter EXCEPT ![Here(c)] = Completed(@)]
  /\ cycle' = [cycle EXCEPT ![c].pc = "cancelled"]
  /\ UNCHANGED <<queue, noted, fed, turn>>

Next ==
  \/ \E i \in Places : FeedItems(i) \/ RecordFailure(i)
  \/ \E c \in Cycles :
       \/ Begin(c) \/ ServeQueue(c) \/ OpenClient(c) \/ Refuse(c) \/ Fetch(c)
       \/ FetchFails(c) \/ FetchSucceeds(c) \/ CloseClient(c) \/ Closed(c)
       \/ Return(c) \/ Cancel(c)

Spec == Init /\ [][Next]_vars

----------------------------------------------------------------------------
Stats == [phase : {"none", "running", "complete"}, yielded : Nat, counts : [Sources -> Nat],
          failures : Nat]

(* The variables keep their types.                                          *)
TypeOK ==
  /\ adapter \in [Places -> Stats]
  /\ queue \in [Places -> Seq(Nat)]
  /\ noted \in [Places -> Nat] /\ fed \in [Places -> Nat]
  /\ cycle \in [Cycles ->
        [pc : {"new", "open", "feed", "fetch", "close", "done", "cancelled"}, at : Nat, feed : Nat,
         total : Nat, taken : [Places -> Seq(Nat)], stats : Seq(Stats), failures : Nat]]
  /\ turn \in Cycles \cup {0}

Total(f) == SumFunction(f)

(* What an adapter reports adds up: its items are those of its sources, two *)
(* feeds of one host included.  A cycle that returned collected exactly the *)
(* items and failures its adapters report for that cycle, none of an        *)
(* earlier one.  An item that was fed is queued or was taken by one cycle,  *)
(* once.                                                                    *)
StatsAddUp ==
  /\ \A i \in Places :
       adapter[i].yielded = Total(adapter[i].counts)
  /\ \A c \in Cycles : cycle[c].pc = "done" =>
       /\ Len(cycle[c].stats) = Len(Adapters)
       /\ cycle[c].total = Total([i \in Places |-> cycle[c].stats[i].yielded])
       /\ cycle[c].failures = Total([i \in Places |-> cycle[c].stats[i].failures])
  /\ \A i \in Places :
       /\ ToSet(queue[i]) \cup UNION {ToSet(cycle[c].taken[i]) : c \in Cycles} = 1..fed[i]
       /\ Len(queue[i]) + Total([c \in Cycles |-> Len(cycle[c].taken[i])]) = fed[i]
=============================================================================
