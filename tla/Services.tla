------------------------------ MODULE Services ------------------------------
(***************************************************************************)
(* The components that share no state with each other, in one system:      *)
(* `moving` is the one whose steps a behaviour is made of, the others stay *)
(* in their initial states.  A variable or a constant of two modules that  *)
(* bear the same name gets two here.  What serialises the components is    *)
(* fixed: one operation of the instance manager, one commit of the         *)
(* librarian, one improvement cycle, one ingestion cycle and one writer of *)
(* the .env file at a time.                                                *)
(***************************************************************************)
EXTENDS Integers, FiniteSets

CONSTANTS
    InstanceWorkers, MaxNumber, MaxOperations, MaxInstanceFaults,            \* of Instances
    Tasks, Names, Service, Counts, MaxStarts, MaxClusterFaults,              \* of Cluster
    WeightHosts, Challenges, Grades, Window, MaxIssued, MaxGrades, MaxRestarts, \* of StorageProof
    Files, Layers, Unreadable, DownloadWorkers, EventLoop, Ranges, All, MaxDownloads, \* of Downloads
    Writers, Manifests, Cartridge, Body, SigningKeys, Trusted, Threshold, MaxCrashes, \* of LibrarianStore
    Primary, Validations, Requests, Prompts,                                 \* of VirSandbox
    Sessions, Limit, Torn, MaxSessions, MaxAdopted,                          \* of Analysis
    Adapters, Cycles, Entries, PerFeed, MaxFed, MaxNoted,                    \* of Whirlpool
    Variables, Remotes, Keys, Unset, Accepted, Given, Templates, MaxKeyRequests       \* of Keyring

VARIABLES
    moving,     \* the component that takes the steps
    running, file, torn, instanceRedis, published, instanceJob, settled, missed, operations, instanceFaults,
    clusterRedis, shards, tasks, results, node, hub, recorded, starts, clusterFaults,
    pending, reputation, saved, strays, restarts,
    disk, manifest, active, downloadJob, config, requests, overtaken, spoiled,
    draft, files, temps, links, swings, commit, crashes,
    dir, exist, records, validation, request, meddled,
    ledger, source, cycle, adopted,
    adapter, queue, noted, fed, ingest, turn,
    envFile, environ, update, check, asked, cut, served

instancesVars == <<running, file, torn, instanceRedis, published, instanceJob, settled, missed, operations,
                   instanceFaults>>
clusterVars == <<clusterRedis, shards, tasks, results, node, hub, recorded, starts, clusterFaults>>
proofsVars == <<pending, reputation, saved, strays, restarts>>
downloadsVars == <<disk, manifest, active, downloadJob, config, requests, overtaken, spoiled>>
librarianVars == <<draft, files, temps, links, swings, commit, crashes>>
sandboxVars == <<dir, exist, records, validation, request, meddled>>
analysisVars == <<ledger, source, cycle, adopted>>
whirlpoolVars == <<adapter, queue, noted, fed, ingest, turn>>
keyringVars == <<envFile, environ, update, check, asked, cut, served>>

----------------------------------------------------------------------------
Instances == INSTANCE Instances WITH
    redis <- instanceRedis, job <- instanceJob, faults <- instanceFaults,
    Workers <- InstanceWorkers, Overlap <- FALSE, MaxFaults <- MaxInstanceFaults

Cluster == INSTANCE Cluster WITH
    redis <- clusterRedis, faults <- clusterFaults, MaxFaults <- MaxClusterFaults

Proofs == INSTANCE StorageProof WITH
    Hosts <- WeightHosts

Downloads == INSTANCE Downloads WITH
    job <- downloadJob,
    Workers <- DownloadWorkers, MaxRequests <- MaxDownloads

Librarian == INSTANCE LibrarianStore WITH
    Overlap <- FALSE, Keys <- SigningKeys

Sandbox == INSTANCE VirSandbox WITH
    Overlap <- FALSE

Analysis == INSTANCE Analysis

Whirlpool == INSTANCE Whirlpool WITH
    cycle <- ingest, Overlap <- FALSE

Keyring == INSTANCE Keyring WITH
    None <- Unset, EnvFileSet <- TRUE, StrayFirst <- FALSE, Overlap <- FALSE,
    MaxRequests <- MaxKeyRequests

ASSUME ServicesAssumption ==
    /\ Instances!InstancesAssumption /\ Cluster!ClusterAssumption /\ Proofs!StorageProofAssumption
    /\ Downloads!DownloadsAssumption /\ Librarian!LibrarianAssumption /\ Sandbox!SandboxAssumption
    /\ Analysis!AnalysisAssumption /\ Whirlpool!WhirlpoolAssumption /\ Keyring!KeyringAssumption

----------------------------------------------------------------------------
Init ==
    /\ moving \in {"instances", "cluster", "proofs", "downloads", "librarian", "sandbox", "analysis",
                   "whirlpool", "keyring"}
    /\ Instances!Init /\ Cluster!Init /\ Proofs!Init /\ Downloads!Init /\ Librarian!Init
    /\ Sandbox!Init /\ Analysis!Init /\ Whirlpool!Init /\ Keyring!Init
    \* One initial state is enough for a component that does not move.
    /\ moving # "cluster" => clusterRedis /\ hub.count = 2
    /\ moving # "keyring" => DOMAIN envFile = {}

InstancesMove ==
    /\ moving = "instances" /\ Instances!Next
    /\ UNCHANGED <<moving, clusterVars, proofsVars, downloadsVars, librarianVars,
                   sandboxVars, analysisVars, whirlpoolVars, keyringVars>>
ClusterMove ==
    /\ moving = "cluster" /\ Cluster!Next
    /\ UNCHANGED <<moving, instancesVars, proofsVars, downloadsVars, librarianVars,
                   sandboxVars, analysisVars, whirlpoolVars, keyringVars>>
ProofsMove ==
    /\ moving = "proofs" /\ Proofs!Next
    /\ UNCHANGED <<moving, instancesVars, clusterVars, downloadsVars, librarianVars,
                   sandboxVars, analysisVars, whirlpoolVars, keyringVars>>
DownloadsMove ==
    /\ moving = "downloads" /\ Downloads!Next
    /\ UNCHANGED <<moving, instancesVars, clusterVars, proofsVars, librarianVars,
                   sandboxVars, analysisVars, whirlpoolVars, keyringVars>>
LibrarianMove ==
    /\ moving = "librarian" /\ Librarian!Next
    /\ UNCHANGED <<moving, instancesVars, clusterVars, proofsVars, downloadsVars,
                   sandboxVars, analysisVars, whirlpoolVars, keyringVars>>
SandboxMove ==
    /\ moving = "sandbox" /\ Sandbox!Next
    /\ UNCHANGED <<moving, instancesVars, clusterVars, proofsVars, downloadsVars,
                   librarianVars, analysisVars, whirlpoolVars, keyringVars>>
AnalysisMove ==
    /\ moving = "analysis" /\ Analysis!Next
    /\ UNCHANGED <<moving, instancesVars, clusterVars, proofsVars, downloadsVars,
                   librarianVars, sandboxVars, whirlpoolVars, keyringVars>>
WhirlpoolMove ==
    /\ moving = "whirlpool" /\ Whirlpool!Next
    /\ UNCHANGED <<moving, instancesVars, clusterVars, proofsVars, downloadsVars,
                   librarianVars, sandboxVars, analysisVars, keyringVars>>
KeyringMove ==
    /\ moving = "keyring" /\ Keyring!Next
    /\ UNCHANGED <<moving, instancesVars, clusterVars, proofsVars, downloadsVars,
                   librarianVars, sandboxVars, analysisVars, whirlpoolVars>>

Next ==
    \/ InstancesMove \/ ClusterMove \/ ProofsMove \/ DownloadsMove
    \/ LibrarianMove \/ SandboxMove \/ AnalysisMove \/ WhirlpoolMove \/ KeyringMove

vars == <<moving, instancesVars, clusterVars, proofsVars, downloadsVars, librarianVars,
          sandboxVars, analysisVars, whirlpoolVars, keyringVars>>
Spec == Init /\ [][Next]_vars

----------------------------------------------------------------------------
(* The variables of every module keep their types.                          *)
TypeOK ==
    CASE moving = "instances" -> Instances!TypeOK
      [] moving = "cluster"   -> Cluster!TypeOK
      [] moving = "proofs"    -> Proofs!TypeOK
      [] moving = "downloads" -> Downloads!TypeOK
      [] moving = "librarian" -> Librarian!TypeOK
      [] moving = "sandbox"   -> Sandbox!TypeOK
      [] moving = "analysis"  -> Analysis!TypeOK
      [] moving = "whirlpool" -> Whirlpool!TypeOK
      [] moving = "keyring"   -> Keyring!TypeOK

(* Members are distinct, none outlives the shared Redis, and what it        *)
(* publishes between operations is the registry, where no failure to stop,  *)
(* to list or to publish went unnoticed.                                    *)
ClusterConsistent == moving = "instances" => Instances!ClusterConsistent

(* A task that reached the bus is not lost, and is run by its owner.        *)
TasksAccounted == moving = "cluster" => Cluster!TasksAccounted

(* The status of a host is the one its score gives it, and every answer     *)
(* that was asked for is counted once, for the node that it names.          *)
ReputationEarned == moving = "proofs" => Proofs!ReputationEarned

(* A manifest on disk lists nothing that cannot be loaded from there,       *)
(* unless the model was removed while it was indexed.                       *)
ManifestTruthful == moving = "downloads" => Downloads!ManifestTruthful

(* What a head or a version of a cartridge names loads and verifies.        *)
HeadsLoad == moving = "librarian" => Librarian!HeadsLoad

(* A validation leaves nothing of its own in the system's directories, and  *)
(* no request served outside one is in its sandbox.                         *)
VirIsolated == moving = "sandbox" => Sandbox!VirIsolated

(* What is proposed is what the sessions that were read call for.           *)
ProposalsRight == moving = "analysis" => Analysis!ProposalsRight

(* What a cycle of ingestion reports is what its adapters yielded.          *)
StatsAddUp == moving = "whirlpool" => Whirlpool!StatsAddUp

(* A restart of the server finds the keys as they were last asked for.      *)
KeysKept == moving = "keyring" => Keyring!KeysKept
=============================================================================
