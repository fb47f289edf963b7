------------------------------ MODULE Downloads -----------------------------
(***************************************************************************)
(* The weight shards of one model on a storage node (maestro/              *)
(* shard_manager.py, shard_utils.py, the shard endpoints of                *)
(* api_storage.py): files are downloaded in the background, indexed into a *)
(* manifest, and listed from it in the configuration of the node server.   *)
(*                                                                         *)
(* A download is a thread of its own; the other endpoints run on the event *)
(* loop, one at a time, and some of them index too.  Nothing but a         *)
(* dictionary of downloads in progress, which a user can clear, keeps two  *)
(* downloads of one model apart.                                           *)
(*                                                                         *)
(* Abstractions.  A file is its name: what is downloaded under a name is   *)
(* the same each time, and appears at once when it is complete.  A removal *)
(* takes the directory at once.  Sizes, precision and checksums go with    *)
(* the file.                                                               *)
(***************************************************************************)
EXTENDS Integers, FiniteSets

CONSTANTS
    Files,        \* *.safetensors of the repository
    Layers,       \* Layers[f]: the numbered layers with tensors in f, perhaps none
    Unreadable,   \* files whose header cannot be read
    Workers,      \* threads for background tasks
    EventLoop,    \* the thread of the endpoints
    Ranges,       \* layer ranges that are asked for: sets of layers, or All
    All,          \* every layer (layer_end = -1)
    MaxRequests   \* bound: downloads, removals, configurations and restarts

DownloadsAssumption ==
    /\ IsFiniteSet(Files) /\ Unreadable \subseteq Files /\ IsFiniteSet(Workers) /\ EventLoop \notin Workers
    /\ Layers \in [Files -> SUBSET Nat] /\ \A f \in Files : IsFiniteSet(Layers[f])
    /\ \A range \in Ranges : range = All \/ range \subseteq Nat
    /\ MaxRequests \in Nat

VARIABLES
    disk,       \* files in the model's directory
    manifest,   \* manifest.json: the files it lists
    active,     \* _active_downloads
    job,        \* what each thread is at
    config,     \* node_shards.json: the files it lists
    requests,
    overtaken,  \* history: threads that found files which were then removed
    spoiled     \* history: did such a thread write the manifest

vars == <<disk, manifest, active, job, config, requests, overtaken, spoiled>>
history == <<overtaken, spoiled>>

\* What is in manifest.json: nothing, less than JSON, or a manifest.
Lists(files) == [state |-> "ok", files |-> files]
NoManifest == [state |-> "none", files |-> {}]
TornManifest == [state |-> "torn", files |-> {}]

Threads == Workers \cup {EventLoop}
Resting == [pc |-> "idle", for |-> "status", range |-> All, todo |-> {}, found |-> {}]
Served == job[EventLoop].pc = "idle"    \* the event loop is free

Asked == requests < MaxRequests /\ requests' = requests + 1

------------------------------------------------------------------------------
(* shard_utils and ShardManager: what can be said of files                 *)

Least(S) == CHOOSE x \in S : \A y \in S : x <= y
Most(S) == CHOOSE x \in S : \A y \in S : x >= y

\* layer_range: from the first numbered layer of a file to the last, so that a
\* file covers the layers in between; (-1, -1) for a file without any.
Covers(f) == IF Layers[f] = {} THEN {} ELSE Least(Layers[f]) .. Most(Layers[f])

\* _resolve_files_for_layers: files with a tensor in the range, by the index of
\* the repository, and those of the tensors without a layer if the range starts
\* at 0.  Without an index, or when no file is found, all of them.
Resolved(range, index) ==
    LET wanted == {f \in Files : Layers[f] \cap range # {} \/ (0 \in range /\ Layers[f] = {})}
    IN IF range = All \/ (~index) \/ wanted = {} THEN Files ELSE wanted

\* Layer coverage of a manifest: the maximal ranges of layers that are there.
Covered(files) == UNION {Covers(f) : f \in files}
Coverage(files) ==
    LET all == Covered(files) IN
    {r \in all \X all : /\ r[1] <= r[2] /\ r[1] .. r[2] \subseteq all
                        /\ r[1] - 1 \notin all /\ r[2] + 1 \notin all}

\* complete: one range, from layer 0.
Complete(files) == \E last \in Covered(files) : Coverage(files) = {<<0, last>>}

\* verify_all: listed files that are missing.
Missing(files) == files \ disk

\* generate_shard_config: files that overlap the range, and those without
\* numbered layers.
Configured(files, range) ==
    {f \in files : range = All \/ Covers(f) = {} \/ Covers(f) \cap range # {}}

------------------------------------------------------------------------------
(* A download                                                              *)

\* download_shards: refused while the dictionary has an entry of the model,
\* whatever it says.
PostDownload(w, range) ==
    /\ Asked /\ Served
    /\ active = "none" /\ job[w].pc = "idle"
    /\ active' = "starting"
    /\ job' = [job EXCEPT ![w] = [Resting EXCEPT !.pc = "begin", !.for = "download", !.range = range]]
    /\ UNCHANGED <<disk, manifest, config, history>>

Begin(w) ==
    /\ job[w].pc = "begin"
    /\ active' = "downloading"
    /\ job' = [job EXCEPT ![w].pc = "list"]
    /\ UNCHANGED <<disk, manifest, config, requests, history>>

\* The repository is listed, with its index or without; if it cannot be, the
\* download ends in an error and nothing is indexed.
ListFiles(w) ==
    /\ job[w].pc = "list"
    /\ \/ /\ \E index \in BOOLEAN :
                job' = [job EXCEPT ![w].pc = "fetch", ![w].todo = Resolved(job[w].range, index)]
          /\ UNCHANGED active
       \/ active' = "error" /\ job' = [job EXCEPT ![w] = Resting]
    /\ UNCHANGED <<disk, manifest, config, requests, history>>

\* The files come in the order of their names, which nothing depends on.  One
\* that is there is not downloaded again, and one that fails is passed over.
Fetch(w, f) ==
    /\ job[w].pc = "fetch" /\ f \in job[w].todo
    /\ job' = [job EXCEPT ![w].todo = @ \ {f}]
    /\ disk' \in {disk, disk \cup {f}}
    /\ UNCHANGED <<manifest, active, config, requests, history>>

------------------------------------------------------------------------------
(* index_shards                                                            *)

\* The directory is read once, ...
Scan(t) ==
    /\ job[t].pc = "fetch" /\ job[t].todo = {}
    /\ job' = [job EXCEPT ![t].pc = "index", ![t].todo = disk, ![t].found = {}]
    /\ UNCHANGED <<disk, manifest, active, config, requests, history>>

\* Slip: a file is listed whether or not it can be read.
ReadableAlways(f) == TRUE

Readable(f) == f \in disk \ Unreadable

\* ... then its files one after the other, ...
Index(t, f) ==
    /\ job[t].pc = "index" /\ f \in job[t].todo
    /\ job' = [job EXCEPT ![t].todo = @ \ {f}, ![t].found = @ \cup {g \in {f} : Readable(g)}]
    /\ UNCHANGED <<disk, manifest, active, config, requests, history>>

\* ... and the manifest is opened, which empties it, ...
OpenManifest(t) ==
    /\ job[t].pc = "index" /\ job[t].todo = {}
    /\ manifest' = TornManifest
    /\ job' = [job EXCEPT ![t].pc = "write"]
    /\ spoiled' = FALSE
    /\ UNCHANGED <<disk, active, config, requests, overtaken>>

\* ... and written, unless the file that was opened has been removed; whoever
\* wanted the index goes on with what it found.
WriteManifest(t) ==
    /\ job[t].pc \in {"write", "unlinked"}
    /\ IF job[t].pc = "write"
         THEN manifest' = Lists(job[t].found) /\ spoiled' = (t \in overtaken)
         ELSE UNCHANGED <<manifest, spoiled>>
    /\ overtaken' = overtaken \ {t}
    /\ active' = IF job[t].for = "download" THEN "complete" ELSE active
    /\ config' = IF job[t].for = "config" THEN Configured(job[t].found, job[t].range) ELSE config
    /\ job' = [job EXCEPT ![t] = Resting]
    /\ UNCHANGED <<disk, requests>>

------------------------------------------------------------------------------
(* The event loop                                                          *)

IndexFor(purpose, range) ==
    job' = [job EXCEPT ![EventLoop] = [Resting EXCEPT !.pc = "fetch", !.for = purpose, !.range = range]]

\* shard_status indexes a model that has no manifest load_manifest can read.
Status ==
    /\ Served /\ manifest.state # "ok"
    /\ IndexFor("status", All)
    /\ UNCHANGED <<disk, manifest, active, config, requests, history>>

\* generate_shard_config does so too.
GenerateConfig(range) ==
    /\ Asked /\ Served
    /\ IF manifest.state = "ok"
         THEN config' = Configured(manifest.files, range) /\ UNCHANGED job
         ELSE IndexFor("config", range) /\ UNCHANGED config
    /\ UNCHANGED <<disk, manifest, active, history>>

\* clear_download_status, at any time.
Clear ==
    /\ Served
    /\ active # "none" /\ active' = "none"
    /\ UNCHANGED <<disk, manifest, job, config, requests, history>>

\* remove_model: the directory with all it holds, if it holds a shard, whatever
\* the threads are at.  An index goes on: what it has found it will list, in a
\* directory made anew.
RemoveModel ==
    /\ Asked /\ Served
    /\ disk # {}
    /\ disk' = {} /\ manifest' = NoManifest
    /\ job' = [t \in Threads |->
                 IF job[t].pc = "write" THEN [job[t] EXCEPT !.pc = "unlinked"] ELSE job[t]]
    /\ overtaken' = overtaken \cup {t \in Threads : job[t].pc = "index" /\ job[t].found # {}}
    /\ spoiled' = FALSE
    /\ UNCHANGED <<active, config>>

\* The process ends, at whatever its threads are.
Restart ==
    /\ Asked
    /\ active' = "none" /\ job' = [t \in Threads |-> Resting]
    /\ overtaken' = {}
    /\ UNCHANGED <<disk, manifest, config, spoiled>>

Init ==
    /\ disk = {} /\ manifest = NoManifest /\ active = "none"
    /\ job = [t \in Threads |-> Resting] /\ config = {} /\ requests = 0
    /\ overtaken = {} /\ spoiled = FALSE

Next ==
    \/ \E w \in Workers :
          \/ \E range \in Ranges : PostDownload(w, range)
          \/ Begin(w) \/ ListFiles(w)
          \/ \E f \in Files : Fetch(w, f)
    \/ \E t \in Threads :
          \/ Scan(t) \/ OpenManifest(t) \/ WriteManifest(t)
          \/ \E f \in Files : Index(t, f)
    \/ Status \/ Clear \/ RemoveModel \/ Restart
    \/ \E range \in Ranges : GenerateConfig(range)

Spec == Init /\ [][Next]_vars

------------------------------------------------------------------------------
(* Properties                                                              *)

TypeOK ==
    /\ disk \subseteq Files /\ config \subseteq Files
    /\ manifest \in [state : {"ok", "none", "torn"}, files : SUBSET Files]
    /\ active \in {"none", "starting", "downloading", "complete", "error"}
    /\ \A t \in Threads :
          /\ job[t].range \in Ranges \cup {All}
          /\ job[t].todo \subseteq Files /\ job[t].found \subseteq Files
    /\ requests \in 0 .. MaxRequests
    /\ overtaken \subseteq Threads /\ spoiled \in BOOLEAN

\* However many downloads of a model overlap, with the index of another one,
\* with status requests, removals and restarts: a manifest lists nothing that
\* cannot be read; and unless the model was removed in the middle of the index
\* it comes from, all that it lists is on disk, and if it is complete, there is
\* a file for every layer up to the last one that is listed.
ManifestTruthful ==
    /\ manifest.files \cap Unreadable = {}
    /\ ~spoiled =>
          /\ Missing(manifest.files) = {}
          /\ Complete(manifest.files) =>
                \A i \in 0 .. Most(Covered(manifest.files)) :
                   \E f \in disk \ Unreadable : i \in Covers(f)

\* The comment on the field: "True if all layers are covered", where the code
\* knows of no layers but those it lists.
CompleteHasEveryLayer ==
    manifest.state = "ok" /\ Complete(manifest.files) => Covered(manifest.files) = Covered(Files)
=============================================================================
