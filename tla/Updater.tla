------------------------------- MODULE Updater -------------------------------
(***************************************************************************)
(* The updater (maestro/updater.py, api_update.py): the background loop    *)
(* that polls the remote, requests to check and to apply an update, the    *)
(* settings saved in the .env file, and the two ways to apply: a git pull  *)
(* around a stash, or, in a container, a clone copied over the running     *)
(* program directory by directory.                                         *)
(*                                                                         *)
(* Checks and applies run on executor threads, which nothing serialises;   *)
(* settings are saved on the event loop meanwhile.  The process may be     *)
(* stopped anywhere.                                                       *)
(*                                                                         *)
(* Abstractions.  A commit is its number on the tracked branch.  The three *)
(* settings are one value.  Only backend holds files of the user (.env)    *)
(* and of the image (frontend/dist).  Listeners, intervals and back-off,   *)
(* commit logs, rebuilding the image and changing the remote are left out. *)
(***************************************************************************)
EXTENDS Integers, Sequences, SequencesExt, FiniteSets

CONSTANTS
    Overlap,      \* can two applies be at work in a container at the same time
    MaxCommits,   \* bound: pushes to the branch
    MaxRequests,  \* bound: checks and applies asked for
    MaxFailures,  \* bound: commands that fail
    MaxSaves,     \* bound: settings saved
    MaxEdits,     \* bound: local edits
    MaxRestarts   \* bound: stops of the process

ASSUME UpdaterAssumption ==
    /\ Overlap \in BOOLEAN
    /\ {MaxCommits, MaxRequests, MaxFailures, MaxSaves, MaxEdits, MaxRestarts} \subseteq Nat

Dirs == <<"maestro", "backend">>    \* _SYNC_DIRS
Settings == {"off", "notify", "apply"}
Jobs == {"loop", "request"}
Commits == 0 .. MaxCommits
Unknown == -1                       \* of a commit: VERSION says nothing
Gone == -2                          \* of a directory
Partial == -3                       \* of a directory, half copied
NoFile == "no file"                 \* of .env

VARIABLES
    mode,       \* "git" or "docker"
    remote,     \* the branch's last commit
    version,    \* VERSION file, in git mode HEAD
    tree,       \* docker: what each synced directory holds
    own,        \* docker: what backend holds beyond the repository
    fallback,   \* the .env file outside the synced directories
    edits,      \* git: local edits in the working tree
    stash,      \* git: the stash, top first
    auto,       \* AutoUpdater's settings
    info,       \* _last_check_info
    job,        \* what each thread is at
    saved,      \* history: the settings the user saved last
    exposed,    \* history: an apply broke off, or settings were saved in one
    bounds

files == <<version, tree, own, fallback, edits, stash>>
history == <<saved, exposed>>
vars == <<mode, remote, files, auto, info, job, history, bounds>>

NoJob == [pc |-> "idle", local |-> Unknown, clone |-> Unknown, at |-> 1,
          env |-> NoFile, dist |-> FALSE, stashed |-> FALSE]

ApplySteps == {"stash", "stashing", "pull", "pop", "clone", "preserve",
               "remove", "copy", "restore", "version"}
Applying(j) == job[j].pc \in ApplySteps
Syncing(j) == job[j].pc \in {"preserve", "remove", "copy", "restore", "version"}
Quiet == \A j \in Jobs : ~Applying(j)

\* Nothing in the code holds an apply back; without Overlap, two of them are not
\* let into a container at once.
MayApply == Overlap \/ mode = "git" \/ Quiet

Spend(counter, most) ==
    /\ bounds[counter] < most
    /\ bounds' = [bounds EXCEPT ![counter] = @ + 1]

Goto(j, pc) == job' = [job EXCEPT ![j].pc = pc]
Finish(j) == job' = [job EXCEPT ![j] = NoJob]

\* The settings the next start reads.
Effective == IF own.env = NoFile THEN fallback ELSE own.env

------------------------------------------------------------------------------
(* Checking.                                                               *)

\* Slip: the loop does not go on after an error.
WakeUnlessFailed ==
    /\ job["loop"].pc = "idle" /\ auto # "off" /\ info # "error"
    /\ Goto("loop", "check")
    /\ UNCHANGED <<mode, remote, files, auto, info, history, bounds>>

\* _poll_loop wakes up: a cycle, if enabled.
Wake ==
    /\ job["loop"].pc = "idle" /\ auto # "off"
    /\ Goto("loop", "check")
    /\ UNCHANGED <<mode, remote, files, auto, info, history, bounds>>

\* GET check, POST apply (the terminal's two keys and the CLI alike).
Request(pc) ==
    /\ job["request"].pc = "idle"
    /\ pc = "stash" => MayApply
    /\ Spend("requests", MaxRequests)
    /\ Goto("request", pc)
    /\ UNCHANGED <<mode, remote, files, auto, info, history>>

\* check_for_updates: the local commit first, then the remote is asked.
GetLocalCommit(j) ==
    /\ job[j].pc = "check"
    /\ job' = [job EXCEPT ![j].pc = "ls-remote", ![j].local = version]
    /\ UNCHANGED <<mode, remote, files, auto, info, history, bounds>>

Available(j) == job[j].local # remote

\* The answer; the loop applies it at once when it is told to.
GetRemoteCommit(j) ==
    /\ job[j].pc = "ls-remote"
    /\ info' = IF Available(j) THEN "available" ELSE "current"
    /\ IF j = "loop" /\ Available(j) /\ auto = "apply" /\ MayApply
         THEN Goto(j, "stash") ELSE Finish(j)
    /\ UNCHANGED <<mode, remote, files, auto, history, bounds>>

\* ls-remote fails or times out: an error, the loop sleeps.
CheckFails(j) ==
    /\ job[j].pc = "ls-remote" /\ Spend("failures", MaxFailures)
    /\ info' \in {"error", info}
    /\ Finish(j)
    /\ UNCHANGED <<mode, remote, files, auto, history>>

------------------------------------------------------------------------------
(* Applying, git mode: stash, pull, pop.                                   *)

\* has_local_changes, or off to the clone
HasLocalChanges(j) ==
    /\ job[j].pc = "stash"
    /\ Goto(j, IF mode = "docker" THEN "clone"
               ELSE IF edits # {} THEN "stashing" ELSE "pull")
    /\ UNCHANGED <<mode, remote, files, auto, info, history, bounds>>

\* git stash push; without changes it saves nothing, and is not asked.
Stash(j) ==
    /\ job[j].pc = "stashing"
    /\ stash' = IF edits = {} THEN stash ELSE <<edits>> \o stash
    /\ edits' = {}
    /\ job' = [job EXCEPT ![j].pc = "pull", ![j].stashed = TRUE]
    /\ UNCHANGED <<mode, remote, version, tree, own, fallback, auto, info, history, bounds>>

\* The push fails: its result is not looked at, the edits stay, and a stash will
\* be popped all the same.
StashFails(j) ==
    /\ job[j].pc = "stashing" /\ Spend("failures", MaxFailures)
    /\ job' = [job EXCEPT ![j].pc = "pull", ![j].stashed = TRUE]
    /\ UNCHANGED <<mode, remote, files, auto, info, history>>

\* git pull; whether it failed or not, a stash is popped.
Pull(j, ok) ==
    /\ job[j].pc = "pull"
    /\ IF ok THEN version' = remote /\ UNCHANGED bounds
             ELSE UNCHANGED version /\ Spend("failures", MaxFailures)
    /\ IF job[j].stashed THEN Goto(j, "pop") ELSE Finish(j)
    /\ UNCHANGED <<mode, remote, tree, own, fallback, edits, stash, auto, info, history>>

\* git stash pop takes whatever is on top; on a conflict, or onto edits of the
\* same files, git keeps the stash, and the result is not looked at.
Pop(j, clean) ==
    /\ job[j].pc = "pop"
    /\ IF clean THEN UNCHANGED bounds ELSE Spend("failures", MaxFailures)
    /\ IF stash = <<>> THEN UNCHANGED <<edits, stash>>
       ELSE /\ edits' = edits \cup Head(stash)
            /\ stash' = IF clean THEN Tail(stash) ELSE stash
    /\ Finish(j)
    /\ UNCHANGED <<mode, remote, version, tree, own, fallback, auto, info, history>>

------------------------------------------------------------------------------
(* Applying, docker mode: clone, then one directory after the other.       *)

\* What the clone is compared with is read before it is made.
BeginClone(j) ==
    /\ job[j].pc = "clone" /\ job[j].clone = Unknown
    /\ job' = [job EXCEPT ![j].local = version, ![j].clone = remote]
    /\ UNCHANGED <<mode, remote, files, auto, info, history, bounds>>

\* Slip: VERSION is written as soon as the clone is there.
ClonedWritingVersion(j) ==
    /\ job[j].pc = "clone" /\ job[j].clone # Unknown
    /\ version' = job[j].clone
    /\ IF job[j].local = job[j].clone THEN Finish(j) ELSE Goto(j, "preserve")
    /\ UNCHANGED <<mode, remote, tree, own, fallback, edits, stash, auto, info, history, bounds>>

\* Already up to date, or the first directory is synced.
Cloned(j) ==
    /\ job[j].pc = "clone" /\ job[j].clone # Unknown
    /\ IF job[j].local = job[j].clone THEN Finish(j) ELSE Goto(j, "preserve")
    /\ UNCHANGED <<mode, remote, files, auto, info, history, bounds>>

Dir(j) == Dirs[job[j].at]

\* _sync_directory: .env is read, frontend/dist moved away.
Preserve(j) ==
    /\ job[j].pc = "preserve"
    /\ IF Dir(j) = "backend" /\ tree["backend"] # Gone
         THEN /\ job' = [job EXCEPT ![j].pc = "remove", ![j].env = own.env, ![j].dist = own.dist]
              /\ own' = [own EXCEPT !.dist = FALSE]
         ELSE Goto(j, "remove") /\ UNCHANGED own
    /\ UNCHANGED <<mode, remote, version, tree, fallback, edits, stash, auto, info, history, bounds>>

\* rmtree
RemoveTree(j) ==
    /\ job[j].pc = "remove"
    /\ tree' = [tree EXCEPT ![Dir(j)] = Gone]
    /\ own' = IF Dir(j) = "backend" THEN [env |-> NoFile, dist |-> FALSE] ELSE own
    /\ Goto(j, "copy")
    /\ UNCHANGED <<mode, remote, version, fallback, edits, stash, auto, info, history, bounds>>

\* copytree
Copy(j) ==
    /\ job[j].pc = "copy"
    /\ tree' = [tree EXCEPT ![Dir(j)] = job[j].clone]
    /\ Goto(j, "restore")
    /\ UNCHANGED <<mode, remote, version, own, fallback, edits, stash, auto, info, history, bounds>>

\* Slip: only what is still missing is put back, and of .env nothing is.
PutBackDist(j) ==
    IF Dir(j) = "backend" THEN [own EXCEPT !.dist = own.dist \/ job[j].dist] ELSE own

\* What was preserved comes back; then the next directory, or VERSION.
PutBack(j) ==
    IF Dir(j) = "backend"
      THEN [env |-> IF job[j].env = NoFile THEN own.env ELSE job[j].env,
            dist |-> own.dist \/ job[j].dist]
      ELSE own

\* Slip: off by one at the end of _SYNC_DIRS.
RestoreOwnAndOneMore(j) ==
    /\ job[j].pc = "restore"
    /\ own' = PutBack(j)
    /\ job' = [job EXCEPT ![j].pc = IF job[j].at <= Len(Dirs) THEN "preserve" ELSE "version",
                          ![j].at = @ + 1]
    /\ UNCHANGED <<mode, remote, version, tree, fallback, edits, stash, auto, info, history, bounds>>

RestoreOwn(j) ==
    /\ job[j].pc = "restore"
    /\ own' = PutBack(j)
    /\ job' = [job EXCEPT ![j].pc = IF job[j].at < Len(Dirs) THEN "preserve" ELSE "version",
                          ![j].at = IF job[j].at < Len(Dirs) THEN @ + 1 ELSE @]
    /\ UNCHANGED <<mode, remote, version, tree, fallback, edits, stash, auto, info, history, bounds>>

WriteVersion(j) ==
    /\ job[j].pc = "version"
    /\ version' = job[j].clone
    /\ Finish(j)
    /\ UNCHANGED <<mode, remote, tree, own, fallback, edits, stash, auto, info, history, bounds>>

\* The clone fails or times out, or any later step raises: nothing is undone.
ApplyFails(j) ==
    /\ job[j].pc = "clone" \/ Syncing(j)
    /\ Spend("failures", MaxFailures)
    /\ tree' \in {tree} \cup IF job[j].pc = "copy" THEN {[tree EXCEPT ![Dir(j)] = Partial]} ELSE {}
    /\ Finish(j)
    /\ exposed' = (exposed \/ Syncing(j))
    /\ UNCHANGED <<mode, remote, version, own, fallback, edits, stash, auto, info, saved>>

------------------------------------------------------------------------------
\* PUT auto: memory, then the .env file in use at that moment.
Configure(value) ==
    /\ Spend("saves", MaxSaves)
    /\ auto' = value /\ saved' = value
    /\ IF own.env = NoFile THEN fallback' = value /\ UNCHANGED own
                         ELSE own' = [own EXCEPT !.env = value] /\ UNCHANGED fallback
    /\ exposed' = (exposed \/ \E j \in Jobs : Syncing(j))
    /\ UNCHANGED <<mode, remote, version, tree, edits, stash, info, job>>

\* A developer pushes; the operator edits a file of the working tree.
Push ==
    /\ remote < MaxCommits
    /\ remote' = remote + 1
    /\ UNCHANGED <<mode, files, auto, info, job, history, bounds>>

Edit ==
    /\ mode = "git" /\ Spend("edits", MaxEdits)
    /\ edits' = edits \cup {bounds.edits}
    /\ UNCHANGED <<mode, remote, version, tree, own, fallback, stash, auto, info, job, history>>

\* POST restart, or the process is killed; it starts with what .env says.
Restart ==
    /\ Spend("restarts", MaxRestarts)
    /\ tree' \in {tree} \cup {[tree EXCEPT ![Dir(j)] = Partial] : j \in {i \in Jobs : job[i].pc = "copy"}}
    /\ exposed' = (exposed \/ \E j \in Jobs : Syncing(j))
    /\ job' = [j \in Jobs |-> NoJob] /\ info' = "none"
    /\ auto' = Effective
    /\ UNCHANGED <<mode, remote, version, own, fallback, edits, stash, saved>>

Init ==
    /\ mode \in {"git", "docker"}
    /\ remote = 0
    /\ version \in IF mode = "git" THEN {0} ELSE {0, Unknown}
    /\ tree = [d \in {"maestro", "backend"} |-> 0]
    /\ own = [env |-> "off", dist |-> TRUE] /\ fallback = "off"
    /\ edits = {} /\ stash = <<>>
    /\ auto = "off" /\ info = "none"
    /\ job = [j \in Jobs |-> NoJob]
    /\ saved = "off" /\ exposed = FALSE
    /\ bounds = [requests |-> 0, failures |-> 0, saves |-> 0, edits |-> 0, restarts |-> 0]

\* What a thread does next, when the command it runs does not fail.
Advance(j) ==
    \/ GetLocalCommit(j) \/ GetRemoteCommit(j)
    \/ HasLocalChanges(j) \/ Stash(j) \/ Pull(j, TRUE) \/ Pop(j, TRUE)
    \/ BeginClone(j) \/ Cloned(j) \/ Preserve(j) \/ RemoveTree(j) \/ Copy(j)
    \/ RestoreOwn(j) \/ WriteVersion(j)

Fail(j) == CheckFails(j) \/ StashFails(j) \/ Pull(j, FALSE) \/ Pop(j, FALSE) \/ ApplyFails(j)

Next ==
    \/ Wake
    \/ \E pc \in {"check", "stash"} : Request(pc)
    \/ \E j \in Jobs : Advance(j) \/ Fail(j)
    \/ \E value \in Settings : Configure(value)
    \/ Push \/ Edit \/ Restart

Spec == Init /\ [][Next]_vars

\* The loop wakes up again and threads go on.
FairSpec == Spec /\ WF_vars(Wake) /\ \A j \in Jobs : WF_vars(Advance(j))

------------------------------------------------------------------------------
Job == [pc : ApplySteps \cup {"idle", "check", "ls-remote"},
        local : Commits \cup {Unknown}, clone : Commits \cup {Unknown}, at : 1 .. Len(Dirs),
        env : Settings \cup {NoFile}, dist : BOOLEAN, stashed : BOOLEAN]

\* Every variable has its type; what is preserved belongs to backend.
TypeOK ==
    /\ mode \in {"git", "docker"} /\ remote \in Commits
    /\ version \in Commits \cup {Unknown}
    /\ tree \in [{"maestro", "backend"} -> Commits \cup {Gone, Partial}]
    /\ own \in [env : Settings \cup {NoFile}, dist : BOOLEAN] /\ fallback \in Settings
    /\ edits \subseteq 0 .. MaxEdits /\ stash \in Seq(SUBSET (0 .. MaxEdits))
    /\ {auto, saved} \subseteq Settings
    /\ info \in {"none", "error", "available", "current"}
    /\ job \in [Jobs -> Job] /\ exposed \in BOOLEAN

\* A container whose VERSION is the branch's last commit runs that commit: a
\* sync that failed or was killed half way is offered again by every check
\* (updater.py:364 "Update VERSION file so next check knows where we are").
NothingHidden ==
    mode = "docker" /\ Quiet /\ version = remote =>
        \A d \in DOMAIN tree : tree[d] = version

\* The settings file and the built frontend survive updates: what the user saved
\* last is what the next start reads, unless a sync was broken off half way or
\* the settings were saved during one (updater.py:394 "Files in synced
\* directories that must survive an update").
UserFilesSurvive == Quiet /\ ~exposed => Effective = saved /\ own.dist

\* Every local edit is in the working tree or in the stash, however stashes,
\* pulls and pops of the loop and of requests are interleaved, fail or are
\* killed.
EditsKept == mode = "git" => (edits \cup UNION ToSet(stash)) = {e \in 0 .. MaxEdits : e < bounds.edits}

NothingOfTheUserLost == UserFilesSurvive /\ EditsKept

\* With automatic updates on for good, the branch's last commit arrives and stays,
\* pushes made meanwhile included, and in a container both directories hold it: a
\* sync that was broken off is carried out again.
Arrived == version = remote /\ (mode = "docker" => \A d \in DOMAIN tree : tree[d] = remote)
Updated == <>[](auto = "apply") => <>[]Arrived
==============================================================================
