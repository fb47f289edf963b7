---------------------------- MODULE UpdaterProofs ----------------------------
(***************************************************************************)
(* Theorems about Updater: its types, and, as long as no two applies are   *)
(* at work in a container, that an interrupted update is never hidden and  *)
(* that nothing of the user is lost, for any number of pushes, requests,   *)
(* failures, settings, edits and restarts.                                 *)
(***************************************************************************)
EXTENDS Updater, TLAPS

Counters == [requests : Nat, failures : Nat, saves : Nat, edits : Nat, restarts : Nat]

Typed == TypeOK /\ bounds \in Counters /\ bounds.edits <= MaxEdits

SyncSteps == {"preserve", "remove", "copy", "restore", "version"}
Steps == ApplySteps \cup {"idle", "check", "ls-remote"}

\* The steps of the two ways to apply are not mixed, and a container is applied
\* to by one thread (without Overlap), which syncs with a clone it has made.
Modes ==
    /\ \A j \in Jobs : job[j].pc \in SyncSteps => job[j].clone \in Commits
    /\ mode = "docker" =>
          /\ \A j \in Jobs : job[j].pc \notin {"stashing", "pull", "pop"}
          /\ Overlap \/ \A i, j \in Jobs : Applying(i) /\ Applying(j) => i = j
    /\ mode = "git" => \A j \in Jobs : job[j].pc \notin SyncSteps \cup {"clone"}

------------------------------------------------------------------------------
LEMMA AtSync == \A j \in Jobs : Syncing(j) <=> job[j].pc \in SyncSteps
  BY DEF Syncing, SyncSteps

LEMMA NoJobTyped == NoJob \in Job /\ NoJob.pc = "idle"
  BY DEF NoJob, Job, Dirs, NoFile, Unknown

LEMMA InitTyped == Init => Typed /\ Modes
<1> SUFFICES ASSUME Init PROVE Typed /\ Modes
  OBVIOUS
<1> USE UpdaterAssumption
<1>1. remote \in Commits /\ version \in Commits \cup {Unknown} /\ 0 \in Commits
  BY DEF Init, Commits
<1>2. tree \in [{"maestro", "backend"} -> Commits \cup {Gone, Partial}]
  BY <1>1 DEF Init
<1>3. \A j \in Jobs : job[j] = NoJob
  BY DEF Init
<1>4. job \in [Jobs -> Job]
  BY NoJobTyped DEF Init
<1>5. own \in [env : Settings \cup {NoFile}, dist : BOOLEAN] /\ fallback \in Settings
      /\ {auto, saved} \subseteq Settings
  BY DEF Init, Settings
<1>6. stash \in Seq(SUBSET (0 .. MaxEdits)) /\ edits \subseteq 0 .. MaxEdits
  BY DEF Init
<1>7. bounds \in Counters /\ bounds.edits <= MaxEdits
  BY DEF Init, Counters
<1>8. TypeOK
  BY <1>1, <1>2, <1>4, <1>5, <1>6 DEF TypeOK, Init
<1>9. Modes
  BY <1>3, NoJobTyped DEF Modes, Applying, ApplySteps, SyncSteps
<1> QED
  BY <1>7, <1>8, <1>9 DEF Typed

\* A job that is at something else.
LEMMA Moved ==
    ASSUME Typed, NEW j \in Jobs, NEW pc \in Steps, Goto(j, pc)
    PROVE  /\ job' \in [Jobs -> Job] /\ job'[j] = [job[j] EXCEPT !.pc = pc]
           /\ \A i \in Jobs : i # j => job'[i] = job[i]
<1>1. job \in [Jobs -> Job] /\ job[j] \in Job
  BY DEF Typed, TypeOK
<1>2. [job[j] EXCEPT !.pc = pc] \in Job
  BY <1>1 DEF Job, Steps
<1>3. job' = [job EXCEPT ![j] = [job[j] EXCEPT !.pc = pc]]
  BY <1>1 DEF Goto
<1> QED
  BY <1>1, <1>2, <1>3

LEMMA Finished ==
    ASSUME Typed, NEW j \in Jobs, Finish(j)
    PROVE  /\ job' \in [Jobs -> Job] /\ job'[j] = NoJob
           /\ \A i \in Jobs : i # j => job'[i] = job[i]
<1>1. job \in [Jobs -> Job]
  BY DEF Typed, TypeOK
<1> QED
  BY <1>1, NoJobTyped DEF Finish

\* A counter that goes up.
LEMMA Spent ==
    ASSUME Typed, NEW c \in {"requests", "failures", "saves", "restarts"}, NEW most, Spend(c, most)
    PROVE  bounds' \in Counters /\ bounds'.edits = bounds.edits
  BY DEF Typed, Counters, Spend

\* A job that moves on, or is done.
LEMMA ModesKept ==
    ASSUME Modes, mode' = mode, NEW j \in Jobs,
           \A i \in Jobs : i # j => job'[i] = job[i],
           mode = "docker" => /\ job'[j].pc \notin {"stashing", "pull", "pop"}
                              /\ job'[j].pc \in ApplySteps => Applying(j) \/ Overlap \/ Quiet,
           mode = "git" => job'[j].pc \notin SyncSteps \cup {"clone"},
           job'[j].pc \in SyncSteps => job'[j].clone \in Commits
    PROVE  Modes'
  BY DEF Modes, Applying, Quiet

LEMMA GotoKeeps ==
    ASSUME Typed, Modes, mode' = mode, bounds' \in Counters, bounds'.edits <= MaxEdits,
           NEW j \in Jobs, NEW pc \in Steps, Goto(j, pc),
           mode = "docker" => /\ pc \notin {"stashing", "pull", "pop"}
                              /\ pc \in ApplySteps => Applying(j) \/ Overlap \/ Quiet,
           mode = "git" => pc \notin SyncSteps \cup {"clone"},
           pc \in SyncSteps => job[j].clone \in Commits
    PROVE  job' \in [Jobs -> Job] /\ Modes'
<1>1. job' \in [Jobs -> Job] /\ job'[j].pc = pc /\ job'[j].clone = job[j].clone
      /\ \A i \in Jobs : i # j => job'[i] = job[i]
  <2>1. job[j] \in Job
    BY DEF Typed, TypeOK
  <2>2. [job[j] EXCEPT !.pc = pc].pc = pc /\ [job[j] EXCEPT !.pc = pc].clone = job[j].clone
    BY <2>1 DEF Job
  <2> QED
    BY Moved, <2>2
<1>2. Modes'
  BY <1>1, ModesKept
<1> QED
  BY <1>1, <1>2

LEMMA FinishKeeps ==
    ASSUME Typed, Modes, mode' = mode, NEW j \in Jobs, Finish(j)
    PROVE  job' \in [Jobs -> Job] /\ Modes'
<1>1. job' \in [Jobs -> Job] /\ job'[j].pc = "idle" /\ \A i \in Jobs : i # j => job'[i] = job[i]
  BY Finished, NoJobTyped
<1>2. Modes'
  BY <1>1, ModesKept DEF ApplySteps, SyncSteps
<1> QED
  BY <1>1, <1>2

------------------------------------------------------------------------------
(* Types are kept, action by action.                                       *)

LEMMA CheckingTyped ==
    ASSUME UpdaterAssumption, Typed, Modes, NEW j \in Jobs,
           \/ Wake \/ \E pc \in {"check", "stash"} : Request(pc)
           \/ GetLocalCommit(j) \/ GetRemoteCommit(j) \/ CheckFails(j)
    PROVE  Typed' /\ Modes'
<1> USE DEF files, history
<1>1. CASE Wake
  <2>1. job' \in [Jobs -> Job] /\ Modes'
    BY <1>1, GotoKeeps DEF Wake, Steps, ApplySteps, SyncSteps, Jobs, Typed
  <2> QED
    BY <1>1, <2>1 DEF Wake, Typed, TypeOK
<1>2. ASSUME NEW pc \in {"check", "stash"}, Request(pc) PROVE Typed' /\ Modes'
  <2>1. bounds' \in Counters /\ bounds'.edits <= MaxEdits
    BY <1>2, Spent DEF Request, Typed
  <2>2. mode = "docker" /\ pc \in ApplySteps => Overlap \/ Quiet
    BY <1>2 DEF Request, MayApply, ApplySteps
  <2>3. job' \in [Jobs -> Job] /\ Modes'
    BY <1>2, <2>1, <2>2, GotoKeeps DEF Request, Steps, ApplySteps, SyncSteps, Jobs
  <2> QED
    BY <1>2, <2>1, <2>3 DEF Request, Typed, TypeOK
<1>3. CASE GetLocalCommit(j)
  <2>1. job[j] \in Job /\ version \in Commits \cup {Unknown} /\ job \in [Jobs -> Job]
    BY DEF Typed, TypeOK
  <2> DEFINE b == [job[j] EXCEPT !.pc = "ls-remote", !.local = version]
  <2>2. b \in Job /\ b.pc = "ls-remote"
    BY <2>1 DEF Job
  <2>3. job' = [job EXCEPT ![j] = b]
    BY <1>3, <2>1 DEF GetLocalCommit
  <2>4. job' \in [Jobs -> Job] /\ job'[j].pc = "ls-remote" /\ \A i \in Jobs : i # j => job'[i] = job[i]
    <3> HIDE DEF b
    <3> QED
      BY <2>1, <2>2, <2>3
  <2>5. Modes'
    BY <1>3, <2>4, ModesKept DEF GetLocalCommit, ApplySteps, SyncSteps
  <2> QED
    BY <1>3, <2>4, <2>5 DEF GetLocalCommit, Typed, TypeOK
<1>4. CASE GetRemoteCommit(j)
  <2>1. job' \in [Jobs -> Job] /\ Modes'
    <3>1. CASE Finish(j)
      BY <1>4, <3>1, FinishKeeps DEF GetRemoteCommit
    <3>2. CASE Goto(j, "stash") /\ MayApply
      <4>1. mode = "docker" => Overlap \/ Quiet
        BY <3>2 DEF MayApply
      <4> QED
        BY <1>4, <3>2, <4>1, GotoKeeps DEF GetRemoteCommit, Steps, ApplySteps, SyncSteps, Typed
    <3> QED
      BY <1>4, <3>1, <3>2 DEF GetRemoteCommit
  <2>2. info' \in {"available", "current"}
    BY <1>4 DEF GetRemoteCommit
  <2> QED
    BY <1>4, <2>1, <2>2 DEF GetRemoteCommit, Typed, TypeOK
<1>5. CASE CheckFails(j)
  <2>1. job' \in [Jobs -> Job] /\ Modes'
    BY <1>5, FinishKeeps DEF CheckFails
  <2>2. bounds' \in Counters /\ bounds'.edits <= MaxEdits
    BY <1>5, Spent DEF CheckFails, Typed
  <2> QED
    BY <1>5, <2>1, <2>2 DEF CheckFails, Typed, TypeOK
<1> QED
  BY <1>1, <1>2, <1>3, <1>4, <1>5

\* A stack of anything, with one more on top.
LEMMA Pushed == ASSUME NEW S, NEW s \in Seq(S), NEW e \in S PROVE <<e>> \o s \in Seq(S)
  OBVIOUS

LEMMA GitTyped ==
    ASSUME UpdaterAssumption, Typed, Modes, NEW j \in Jobs,
           \/ HasLocalChanges(j) \/ Stash(j) \/ StashFails(j)
           \/ \E ok \in BOOLEAN : Pull(j, ok) \/ Pop(j, ok)
    PROVE  Typed' /\ Modes'
<1> USE DEF files, history
<1>1. CASE HasLocalChanges(j)
  <2>1. job' \in [Jobs -> Job] /\ Modes'
    <3> DEFINE pc == IF mode = "docker" THEN "clone" ELSE IF edits # {} THEN "stashing" ELSE "pull"
    <3>1. Goto(j, pc) /\ Applying(j)
      BY <1>1 DEF HasLocalChanges, Applying, ApplySteps
    <3>2. pc \in Steps /\ pc \in {"clone", "stashing", "pull"} /\ (mode = "docker" => pc = "clone") /\ (mode = "git" => pc \in {"stashing", "pull"})
      BY DEF Steps, ApplySteps
    <3>3. mode' = mode /\ bounds' = bounds
      BY <1>1 DEF HasLocalChanges
    <3> HIDE DEF pc
    <3> QED
      BY <3>1, <3>2, <3>3, GotoKeeps DEF SyncSteps, Typed
  <2> QED
    BY <1>1, <2>1 DEF HasLocalChanges, Typed, TypeOK
<1>2. CASE Stash(j)
  <2>1. job[j] \in Job /\ job \in [Jobs -> Job]
    BY DEF Typed, TypeOK
  <2> DEFINE b == [job[j] EXCEPT !.pc = "pull", !.stashed = TRUE]
  <2>2. b \in Job /\ b.pc = "pull"
    BY <2>1 DEF Job, ApplySteps
  <2>3. job' = [job EXCEPT ![j] = b]
    BY <1>2, <2>1 DEF Stash
  <2>4. job' \in [Jobs -> Job] /\ job'[j].pc = "pull" /\ \A i \in Jobs : i # j => job'[i] = job[i]
    <3> HIDE DEF b
    <3> QED
      BY <2>1, <2>2, <2>3
  <2>5. mode # "docker"
    BY <1>2 DEF Stash, Modes
  <2>6. Modes'
    BY <1>2, <2>4, <2>5, ModesKept DEF Stash, SyncSteps
  <2>7. stash' \in Seq(SUBSET (0 .. MaxEdits)) /\ edits' = {}
    <3>1. edits \in SUBSET (0 .. MaxEdits) /\ stash \in Seq(SUBSET (0 .. MaxEdits))
      BY DEF Typed, TypeOK
    <3> QED
      BY <1>2, <3>1, Pushed DEF Stash
  <2> QED
    BY <1>2, <2>4, <2>6, <2>7 DEF Stash, Typed, TypeOK
<1>5. CASE StashFails(j)
  <2>1. job[j] \in Job /\ job \in [Jobs -> Job]
    BY DEF Typed, TypeOK
  <2> DEFINE b == [job[j] EXCEPT !.pc = "pull", !.stashed = TRUE]
  <2>2. b \in Job /\ b.pc = "pull"
    BY <2>1 DEF Job, ApplySteps
  <2>3. job' = [job EXCEPT ![j] = b]
    BY <1>5, <2>1 DEF StashFails
  <2>4. job' \in [Jobs -> Job] /\ job'[j].pc = "pull" /\ \A i \in Jobs : i # j => job'[i] = job[i]
    <3> HIDE DEF b
    <3> QED
      BY <2>1, <2>2, <2>3
  <2>5. mode # "docker"
    BY <1>5 DEF StashFails, Modes
  <2>6. Modes'
    BY <1>5, <2>4, <2>5, ModesKept DEF StashFails, SyncSteps
  <2>7. bounds' \in Counters /\ bounds'.edits = bounds.edits
    BY <1>5, Spent DEF StashFails, Typed
  <2> QED
    BY <1>5, <2>4, <2>6, <2>7 DEF StashFails, Typed, TypeOK
<1>3. ASSUME NEW ok \in BOOLEAN, Pull(j, ok) PROVE Typed' /\ Modes'
  <2>1. bounds' \in Counters /\ bounds'.edits = bounds.edits
    BY <1>3, Spent DEF Pull, Typed
  <2>2. mode # "docker" /\ mode' = mode
    BY <1>3 DEF Pull, Modes
  <2>3. job' \in [Jobs -> Job] /\ Modes'
    <3>1. CASE Goto(j, "pop")
      BY <2>1, <2>2, <3>1, GotoKeeps DEF Steps, ApplySteps, SyncSteps, Typed
    <3>2. CASE Finish(j)
      BY <2>2, <3>2, FinishKeeps
    <3> QED
      BY <1>3, <3>1, <3>2 DEF Pull
  <2>4. version' \in Commits \cup {Unknown}
    BY <1>3 DEF Pull, Typed, TypeOK
  <2> QED
    BY <1>3, <2>1, <2>3, <2>4 DEF Pull, Typed, TypeOK
<1>4. ASSUME NEW clean \in BOOLEAN, Pop(j, clean) PROVE Typed' /\ Modes'
  <2>1. bounds' \in Counters /\ bounds'.edits = bounds.edits
    BY <1>4, Spent DEF Pop, Typed
  <2>2. job' \in [Jobs -> Job] /\ Modes'
    BY <1>4, FinishKeeps DEF Pop
  <2>3. edits' \subseteq 0 .. MaxEdits /\ stash' \in Seq(SUBSET (0 .. MaxEdits))
    <3>1. edits \subseteq 0 .. MaxEdits /\ stash \in Seq(SUBSET (0 .. MaxEdits))
      BY DEF Typed, TypeOK
    <3>2. stash # <<>> => Head(stash) \in SUBSET (0 .. MaxEdits) /\ Tail(stash) \in Seq(SUBSET (0 .. MaxEdits))
      BY <3>1
    <3> QED
      BY <1>4, <3>1, <3>2 DEF Pop
  <2> QED
    BY <1>4, <2>1, <2>2, <2>3 DEF Pop, Typed, TypeOK
<1> QED
  BY <1>1, <1>2, <1>3, <1>4, <1>5

LEMMA DirTyped == ASSUME Typed, NEW j \in Jobs PROVE Dir(j) \in {"maestro", "backend"}
  BY DEF Typed, TypeOK, Job, Dir, Dirs

\* A whole record of a job is replaced.
LEMMA JobKeeps ==
    ASSUME Typed, Modes, mode' = mode, NEW j \in Jobs, NEW b \in Job, job' = [job EXCEPT ![j] = b],
           mode = "docker" => b.pc \notin {"stashing", "pull", "pop"},
           mode = "git" => b.pc \notin SyncSteps \cup {"clone"},
           b.pc \in SyncSteps => b.clone \in Commits,
           Applying(j)
    PROVE  job' \in [Jobs -> Job] /\ Modes'
<1>1. job' \in [Jobs -> Job] /\ job'[j] = b /\ \A i \in Jobs : i # j => job'[i] = job[i]
  BY DEF Typed, TypeOK
<1> QED
  BY <1>1, ModesKept

LEMMA SyncTyped ==
    ASSUME UpdaterAssumption, Typed, Modes, NEW j \in Jobs,
           \/ BeginClone(j) \/ Cloned(j) \/ Preserve(j) \/ RemoveTree(j) \/ Copy(j)
           \/ RestoreOwn(j) \/ WriteVersion(j) \/ ApplyFails(j)
    PROVE  Typed' /\ Modes'
<1> USE DEF files, history
<1>1. job[j].pc \in SyncSteps \cup {"clone"} /\ mode # "git"
  BY DEF BeginClone, Cloned, Preserve, RemoveTree, Copy, RestoreOwn, WriteVersion, ApplyFails,
         Syncing, SyncSteps, Modes
<1>2. Applying(j) /\ mode' = mode
  BY <1>1 DEF Applying, ApplySteps, SyncSteps, BeginClone, Cloned, Preserve, RemoveTree, Copy,
         RestoreOwn, WriteVersion, ApplyFails
<1>3. job[j] \in Job /\ job \in [Jobs -> Job] /\ Dir(j) \in {"maestro", "backend"}
      /\ tree \in [{"maestro", "backend"} -> Commits \cup {Gone, Partial}]
      /\ own \in [env : Settings \cup {NoFile}, dist : BOOLEAN]
  BY DirTyped DEF Typed, TypeOK
<1>4. CASE BeginClone(j)
  <2> DEFINE b == [job[j] EXCEPT !.local = version, !.clone = remote]
  <2>1. version \in Commits \cup {Unknown} /\ remote \in Commits /\ job[j].pc = "clone"
    BY <1>4 DEF BeginClone, Typed, TypeOK
  <2>2. b \in Job /\ b.pc = "clone"
    BY <1>3, <2>1 DEF Job
  <2>3. job' = [job EXCEPT ![j] = b]
    BY <1>3, <1>4 DEF BeginClone
  <2> HIDE DEF b
  <2>4. job' \in [Jobs -> Job] /\ Modes'
    BY <1>1, <1>2, <2>2, <2>3, JobKeeps DEF SyncSteps
  <2> QED
    BY <1>4, <2>4 DEF BeginClone, Typed, TypeOK
<1>5. CASE Cloned(j)
  <2>1. job' \in [Jobs -> Job] /\ Modes'
    <3>1. CASE Goto(j, "preserve")
      <4>1. job[j].clone \in Commits
        BY <1>3, <1>5 DEF Cloned, Job
      <4> QED
        BY <1>1, <1>2, <1>5, <3>1, <4>1, GotoKeeps DEF Cloned, Steps, ApplySteps, Typed
    <3>2. CASE Finish(j)
      BY <1>2, <3>2, FinishKeeps
    <3> QED
      BY <1>5, <3>1, <3>2 DEF Cloned
  <2> QED
    BY <1>5, <2>1 DEF Cloned, Typed, TypeOK
<1>6. CASE Preserve(j)
  <2> DEFINE b == [job[j] EXCEPT !.pc = "remove", !.env = own.env, !.dist = own.dist]
  <2>1. b \in Job /\ b.pc = "remove" /\ b.clone = job[j].clone
    BY <1>3 DEF Job, ApplySteps
  <2>4. job[j].clone \in Commits
    BY <1>6 DEF Preserve, Modes, SyncSteps
  <2>2. job' \in [Jobs -> Job] /\ Modes'
    <3>1. CASE job' = [job EXCEPT ![j] = b]
      <4> HIDE DEF b
      <4> QED
        BY <1>1, <1>2, <2>1, <2>4, <3>1, JobKeeps
    <3>2. CASE Goto(j, "remove")
      BY <1>1, <1>2, <1>6, <2>4, <3>2, GotoKeeps DEF Preserve, Steps, ApplySteps, Typed
    <3>3. Goto(j, "remove") \/ job' = [job EXCEPT ![j] = b]
      BY <1>3, <1>6 DEF Preserve
    <3> QED
      BY <3>1, <3>2, <3>3
  <2>3. own' \in [env : Settings \cup {NoFile}, dist : BOOLEAN]
    BY <1>3, <1>6 DEF Preserve
  <2> QED
    BY <1>6, <2>2, <2>3 DEF Preserve, Typed, TypeOK
<1>7. CASE RemoveTree(j)
  <2>1. job' \in [Jobs -> Job] /\ Modes'
    BY <1>1, <1>2, <1>7, GotoKeeps DEF RemoveTree, Steps, ApplySteps, SyncSteps, Modes, Typed
  <2>2. tree' \in [{"maestro", "backend"} -> Commits \cup {Gone, Partial}]
        /\ own' \in [env : Settings \cup {NoFile}, dist : BOOLEAN]
    BY <1>3, <1>7 DEF RemoveTree
  <2> QED
    BY <1>7, <2>1, <2>2 DEF RemoveTree, Typed, TypeOK
<1>8. CASE Copy(j)
  <2>1. job' \in [Jobs -> Job] /\ Modes'
    BY <1>1, <1>2, <1>8, GotoKeeps DEF Copy, Steps, ApplySteps, SyncSteps, Modes, Typed
  <2>2. job[j].clone \in Commits
    BY <1>8 DEF Copy, Modes, SyncSteps
  <2>3. tree' \in [{"maestro", "backend"} -> Commits \cup {Gone, Partial}]
    BY <1>3, <1>8, <2>2 DEF Copy
  <2> QED
    BY <1>8, <2>1, <2>3 DEF Copy, Typed, TypeOK
<1>9. CASE RestoreOwn(j)
  <2> DEFINE b == [job[j] EXCEPT
                     !.pc = IF job[j].at < Len(Dirs) THEN "preserve" ELSE "version",
                     !.at = IF job[j].at < Len(Dirs) THEN @ + 1 ELSE @]
  <2>1. b \in Job /\ b.pc \in {"preserve", "version"} /\ b.clone = job[j].clone
    <3>1. job[j].at \in 1 .. 2 /\ Len(Dirs) = 2
      BY <1>3 DEF Job, Dirs
    <3>2. CASE job[j].at < Len(Dirs)
      <4>1. b = [job[j] EXCEPT !.pc = "preserve", !.at = job[j].at + 1]
        BY <3>2
      <4>2. job[j].at + 1 \in 1 .. Len(Dirs)
        BY <3>1, <3>2
      <4> HIDE DEF b
      <4> QED
        BY <1>3, <4>1, <4>2 DEF Job, ApplySteps
    <3>3. CASE ~(job[j].at < Len(Dirs))
      BY <1>3, <3>1, <3>3 DEF Job, ApplySteps
    <3> QED
      BY <3>2, <3>3
  <2>2. job' = [job EXCEPT ![j] = b]
    BY <1>3, <1>9 DEF RestoreOwn
  <2>3. job[j].clone \in Commits
    BY <1>9 DEF RestoreOwn, Modes, SyncSteps
  <2> HIDE DEF b
  <2>4. job' \in [Jobs -> Job] /\ Modes'
    BY <1>1, <1>2, <2>1, <2>2, <2>3, JobKeeps
  <2>5. own' \in [env : Settings \cup {NoFile}, dist : BOOLEAN]
    <3>1. job[j].env \in Settings \cup {NoFile} /\ job[j].dist \in BOOLEAN
      BY <1>3 DEF Job
    <3> QED
      BY <1>3, <1>9, <3>1 DEF RestoreOwn, PutBack
  <2> QED
    BY <1>9, <2>4, <2>5 DEF RestoreOwn, Typed, TypeOK
<1>10. CASE WriteVersion(j)
  <2>1. job' \in [Jobs -> Job] /\ Modes'
    BY <1>2, <1>10, FinishKeeps DEF WriteVersion
  <2>2. version' \in Commits
    BY <1>10 DEF WriteVersion, Modes, SyncSteps
  <2> QED
    BY <1>10, <2>1, <2>2 DEF WriteVersion, Typed, TypeOK
<1>11. CASE ApplyFails(j)
  <2>1. job' \in [Jobs -> Job] /\ Modes'
    BY <1>2, <1>11, FinishKeeps DEF ApplyFails
  <2>2. bounds' \in Counters /\ bounds'.edits = bounds.edits
    BY <1>11, Spent DEF ApplyFails
  <2>3. tree' \in [{"maestro", "backend"} -> Commits \cup {Gone, Partial}]
    BY <1>3, <1>11 DEF ApplyFails
  <2>4. exposed' \in BOOLEAN
    BY <1>11 DEF ApplyFails, Syncing
  <2> QED
    BY <1>11, <2>1, <2>2, <2>3, <2>4 DEF ApplyFails, Typed, TypeOK
<1> QED
  BY <1>4, <1>5, <1>6, <1>7, <1>8, <1>9, <1>10, <1>11

LEMMA OutsideTyped ==
    ASSUME UpdaterAssumption, Typed, Modes,
           (\E value \in Settings : Configure(value)) \/ Push \/ Edit \/ Restart
    PROVE  Typed' /\ Modes'
<1> USE DEF files, history
<1>1. ASSUME NEW value \in Settings, Configure(value) PROVE Typed' /\ Modes'
  <2>1. bounds' \in Counters /\ bounds'.edits = bounds.edits
    BY <1>1, Spent DEF Configure
  <2>2. own' \in [env : Settings \cup {NoFile}, dist : BOOLEAN] /\ fallback' \in Settings
    BY <1>1 DEF Configure, Typed, TypeOK
  <2>3. exposed' \in BOOLEAN
    BY <1>1 DEF Configure, Typed, TypeOK
  <2>4. Modes'
    BY <1>1 DEF Configure, Modes, Applying
  <2> QED
    BY <1>1, <2>1, <2>2, <2>3, <2>4 DEF Configure, Typed, TypeOK
<1>2. CASE Push
  <2>1. remote' \in Commits
    BY <1>2, UpdaterAssumption DEF Push, Typed, TypeOK, Commits
  <2>2. Modes'
    BY <1>2 DEF Push, Modes, Applying
  <2> QED
    BY <1>2, <2>1, <2>2 DEF Push, Typed, TypeOK
<1>3. CASE Edit
  <2>1. bounds' \in Counters /\ bounds'.edits = bounds.edits + 1 /\ bounds'.edits <= MaxEdits
        /\ bounds.edits \in 0 .. MaxEdits
    BY <1>3, UpdaterAssumption DEF Edit, Spend, Typed, Counters
  <2>2. Modes'
    BY <1>3 DEF Edit, Modes, Applying
  <2> QED
    BY <1>3, <2>1, <2>2 DEF Edit, Typed, TypeOK
<1>4. CASE Restart
  <2>1. bounds' \in Counters /\ bounds'.edits = bounds.edits
    BY <1>4, Spent DEF Restart
  <2>2. job' \in [Jobs -> Job] /\ \A j \in Jobs : job'[j].pc = "idle"
    BY <1>4, NoJobTyped DEF Restart
  <2>3. Modes'
    BY <1>4, <2>2 DEF Restart, Modes, Applying, ApplySteps, SyncSteps
  <2>4. tree' \in [{"maestro", "backend"} -> Commits \cup {Gone, Partial}]
    BY <1>4, DirTyped DEF Restart, Typed, TypeOK
  <2>5. exposed' \in BOOLEAN /\ auto' \in Settings
    BY <1>4 DEF Restart, Effective, Typed, TypeOK
  <2> QED
    BY <1>4, <2>1, <2>2, <2>3, <2>4, <2>5 DEF Restart, Typed, TypeOK
<1> QED
  BY <1>1, <1>2, <1>3, <1>4

LEMMA NextTyped ==
    ASSUME UpdaterAssumption, Typed, Modes, [Next]_vars PROVE Typed' /\ Modes'
<1>1. CASE UNCHANGED vars
  BY <1>1 DEF vars, files, history, Typed, TypeOK, Modes, Applying
<1>2. CASE Next
  <2>1. ASSUME NEW j \in Jobs, Advance(j) \/ Fail(j) PROVE Typed' /\ Modes'
    BY <2>1, CheckingTyped, GitTyped, SyncTyped DEF Advance, Fail
  <2>2. CASE Wake \/ \E pc \in {"check", "stash"} : Request(pc)
    BY <2>2, CheckingTyped DEF Jobs
  <2> QED
    BY <1>2, <2>1, <2>2, OutsideTyped DEF Next
<1> QED
  BY <1>1, <1>2

\* Every variable has its type; no step of one way to apply is taken in the
\* other, and what is synced is a clone that was made.
THEOREM UpdaterTypeCorrect == ASSUME UpdaterAssumption PROVE Spec => []TypeOK
<1>1. Init => Typed /\ Modes
  BY InitTyped
<1>2. Typed /\ Modes /\ [Next]_vars => (Typed /\ Modes)'
  BY NextTyped
<1>3. Typed => TypeOK
  BY DEF Typed
<1> QED
  BY <1>1, <1>2, <1>3, PTL DEF Spec

------------------------------------------------------------------------------
(* An apply in a container, as far as it has got.                          *)

\* A job has a clone while it applies, and the clone is newer than VERSION; the
\* directories it is through with hold the clone.
Track(j) ==
    LET b == job[j] IN
    /\ b.clone # Unknown =>
          b.pc \in SyncSteps \cup {"clone"} /\ b.local = version /\ b.local <= b.clone /\ b.clone <= remote
    /\ b.pc \in SyncSteps => b.local < b.clone
    /\ b.pc \notin SyncSteps => b.at = 1
    /\ b.pc = "version" => b.at = 2
    /\ b.at = 2 \/ b.pc = "restore" => tree["maestro"] = b.clone
    /\ b.at = 2 /\ b.pc \in {"restore", "version"} => tree["backend"] = b.clone

Caught == \A d \in {"maestro", "backend"} : tree[d] = version

\* VERSION is behind whenever the directories are not what it says.
Behind == mode = "docker" => version <= remote /\ (Caught \/ version < remote)

\* The user's files are in the hands of a job.
Holding(j) == job[j].at = 2 /\ job[j].pc \in {"remove", "copy", "restore"}

Whole == Effective = saved /\ own.dist

Held(j) ==
    /\ (IF job[j].env = NoFile THEN fallback ELSE job[j].env) = saved /\ job[j].dist
    /\ job[j].pc \in {"copy", "restore"} => own.env = NoFile

\* Nothing of the user is lost while nothing breaks off.
Safekept ==
    ~exposed =>
        /\ (\A j \in Jobs : ~Holding(j)) => Whole
        /\ \A j \in Jobs : Holding(j) => Held(j)
        /\ tree["backend"] = Gone => \E j \in Jobs : job[j].at = 2 /\ job[j].pc = "copy"

Inv == Typed /\ Modes /\ (\A j \in Jobs : Track(j)) /\ Behind /\ Safekept

------------------------------------------------------------------------------
LEMMA InitInv == ASSUME UpdaterAssumption, Init PROVE Inv
<1>1. \A j \in Jobs : job[j] = NoJob /\ job[j].pc = "idle" /\ job[j].clone = Unknown /\ job[j].at = 1
  BY NoJobTyped DEF Init, NoJob
<1>2. \A j \in Jobs : Track(j)
  BY <1>1 DEF Track, SyncSteps
<1>3. Behind
  BY DEF Init, Behind, Caught, Unknown
<1>4. Safekept
  <2>1. \A j \in Jobs : ~Holding(j)
    BY <1>1 DEF Holding
  <2>2. Whole
    BY DEF Init, Whole, Effective, NoFile
  <2>3. tree["backend"] # Gone
    BY DEF Init, Gone
  <2> QED
    BY <2>1, <2>2, <2>3 DEF Safekept
<1> QED
  BY <1>2, <1>3, <1>4, InitTyped DEF Inv

\* A job that is not applying a clone has nothing to keep track of.
LEMMA Light ==
    ASSUME NEW j \in Jobs, job'[j].clone = Unknown, job'[j].pc \notin SyncSteps, job'[j].at = 1
    PROVE  Track(j)' /\ ~Holding(j)'
  BY DEF Track, Holding, SyncSteps

\* The thread that has to do with a clone is in a container and alone.
LEMMA Sole ==
    ASSUME Overlap = FALSE, Inv, NEW j \in Jobs, job[j].pc \in SyncSteps \cup {"clone"}
    PROVE  /\ mode = "docker"
           /\ \A i \in Jobs : i # j =>
                 ~Holding(i) /\ job[i].clone = Unknown /\ job[i].pc \notin SyncSteps /\ job[i].at = 1
<1>1. mode = "docker"
  BY DEF Inv, Typed, TypeOK, Modes
<1>2. ASSUME NEW i \in Jobs, i # j PROVE job[i].pc \notin SyncSteps \cup {"clone"}
  BY <1>1, <1>2 DEF Inv, Modes, Applying, ApplySteps, SyncSteps
<1>3. ASSUME NEW i \in Jobs, i # j PROVE job[i].clone = Unknown /\ job[i].at = 1
  BY <1>2, <1>3 DEF Inv, Track
<1> QED
  BY <1>1, <1>2, <1>3 DEF Holding

\* A step of a thread that has no clone and none of the container's files.
LEMMA LightStep ==
    ASSUME Overlap = FALSE, Inv, Typed', Modes', NEW j \in Jobs,
           job[j].pc \notin SyncSteps \cup {"clone"},
           job'[j].clone = Unknown, job'[j].pc \notin SyncSteps, job'[j].at = 1,
           \A i \in Jobs : i # j => job'[i] = job[i],
           UNCHANGED <<mode, remote, tree, own, fallback, saved, exposed>>,
           version' = version \/ mode = "git"
    PROVE  Inv'
<1>1. Track(j)' /\ ~Holding(j)' /\ ~Holding(j)
  BY Light DEF Holding, SyncSteps
<1>2. ASSUME NEW i \in Jobs, i # j PROVE Track(i)' /\ (Holding(i)' <=> Holding(i)) /\ (Held(i)' <=> Held(i))
  <2>1. job'[i] = job[i] /\ Track(i)
    BY <1>2 DEF Inv
  <2>2. version' = version \/ job[i].clone = Unknown
    BY <2>1 DEF Inv, Modes, Track
  <2> QED
    BY <2>1, <2>2 DEF Track, Holding, Held
<1>3. Behind'
  BY DEF Inv, Behind, Caught
<1>4. Safekept'
  <2>1. (\A i \in Jobs : ~Holding(i)') => (\A i \in Jobs : ~Holding(i))
    BY <1>1, <1>2
  <2>2. Whole' <=> Whole
    BY DEF Whole, Effective
  <2>3. \A i \in Jobs : Holding(i)' => Held(i)' \/ exposed
    BY <1>1, <1>2 DEF Inv, Safekept
  <2>4. ASSUME ~exposed, tree["backend"] = Gone
        PROVE  \E i \in Jobs : job'[i].at = 2 /\ job'[i].pc = "copy"
    <3>1. PICK i \in Jobs : job[i].at = 2 /\ job[i].pc = "copy"
      BY <2>4 DEF Inv, Safekept
    <3> QED
      BY <3>1 DEF SyncSteps
  <2> QED
    BY <2>1, <2>2, <2>3, <2>4 DEF Inv, Safekept
<1> QED
  BY <1>1, <1>2, <1>3, <1>4 DEF Inv

\* The record of a job that is at something else.
LEMMA MovedLight ==
    ASSUME Inv, NEW j \in Jobs, job[j].pc \notin SyncSteps \cup {"clone"},
           (\E pc \in Steps \ SyncSteps : Goto(j, pc)) \/ Finish(j)
    PROVE  /\ job'[j].clone = Unknown /\ job'[j].pc \notin SyncSteps /\ job'[j].at = 1
           /\ \A i \in Jobs : i # j => job'[i] = job[i]
<1>1. job[j].clone = Unknown /\ job[j].at = 1 /\ job[j] \in Job /\ Typed
  BY DEF Inv, Track, Typed, TypeOK
<1>2. ASSUME NEW pc \in Steps \ SyncSteps, Goto(j, pc)
      PROVE  /\ job'[j].clone = Unknown /\ job'[j].pc \notin SyncSteps /\ job'[j].at = 1
             /\ \A i \in Jobs : i # j => job'[i] = job[i]
  <2>1. job'[j] = [job[j] EXCEPT !.pc = pc] /\ \A i \in Jobs : i # j => job'[i] = job[i]
    BY <1>1, <1>2, Moved
  <2>2. [job[j] EXCEPT !.pc = pc].clone = job[j].clone /\ [job[j] EXCEPT !.pc = pc].pc = pc
        /\ [job[j] EXCEPT !.pc = pc].at = job[j].at
    BY <1>1 DEF Job
  <2> QED
    BY <1>1, <2>1, <2>2
<1>3. CASE Finish(j)
  BY <1>1, <1>3, Finished DEF NoJob, SyncSteps
<1> QED
  BY <1>2, <1>3

LEMMA LightActions ==
    ASSUME Overlap = FALSE, Inv, Typed', Modes', NEW j \in Jobs,
           \/ Wake \/ \E pc \in {"check", "stash"} : Request(pc)
           \/ GetLocalCommit(j) \/ GetRemoteCommit(j) \/ CheckFails(j)
           \/ HasLocalChanges(j) \/ Stash(j) \/ StashFails(j)
           \/ \E ok \in BOOLEAN : Pull(j, ok) \/ Pop(j, ok)
    PROVE  Inv'
<1> USE DEF files, history
<1>1. CASE Wake
  <2>1. Goto("loop", "check") /\ "loop" \in Jobs /\ job["loop"].pc \notin SyncSteps \cup {"clone"}
        /\ "check" \in Steps \ SyncSteps
    BY <1>1 DEF Wake, Jobs, SyncSteps, Steps
  <2> QED
    BY <1>1, <2>1, MovedLight, LightStep DEF Wake
<1>2. ASSUME NEW pc \in {"check", "stash"}, Request(pc) PROVE Inv'
  <2>1. Goto("request", pc) /\ "request" \in Jobs /\ job["request"].pc \notin SyncSteps \cup {"clone"}
        /\ pc \in Steps \ SyncSteps
    BY <1>2 DEF Request, Jobs, SyncSteps, Steps, ApplySteps
  <2> QED
    BY <1>2, <2>1, MovedLight, LightStep DEF Request
<1>3. CASE GetLocalCommit(j)
  <2>1. job[j].pc \notin SyncSteps \cup {"clone"} /\ job \in [Jobs -> Job] /\ job[j] \in Job
    BY <1>3 DEF GetLocalCommit, SyncSteps, Inv, Typed, TypeOK
  <2>2. job[j].clone = Unknown /\ job[j].at = 1
    BY <2>1 DEF Inv, Track
  <2> DEFINE b == [job[j] EXCEPT !.pc = "ls-remote", !.local = version]
  <2>3. b.clone = Unknown /\ b.at = 1 /\ b.pc \notin SyncSteps
    BY <2>1, <2>2 DEF Job, SyncSteps
  <2>4. job' = [job EXCEPT ![j] = b]
    BY <1>3, <2>1 DEF GetLocalCommit
  <2> HIDE DEF b
  <2>5. job'[j] = b /\ \A i \in Jobs : i # j => job'[i] = job[i]
    BY <2>1, <2>4
  <2> QED
    BY <1>3, <2>1, <2>3, <2>5, LightStep DEF GetLocalCommit
<1>4. CASE GetRemoteCommit(j)
  <2>1. job[j].pc \notin SyncSteps \cup {"clone"} /\ "stash" \in Steps \ SyncSteps
        /\ (Goto(j, "stash") \/ Finish(j))
    BY <1>4 DEF GetRemoteCommit, SyncSteps, Steps, ApplySteps
  <2> QED
    BY <1>4, <2>1, MovedLight, LightStep DEF GetRemoteCommit
<1>5. CASE CheckFails(j)
  <2>1. job[j].pc \notin SyncSteps \cup {"clone"} /\ Finish(j)
    BY <1>5 DEF CheckFails, SyncSteps
  <2> QED
    BY <1>5, <2>1, MovedLight, LightStep DEF CheckFails
<1>6. CASE HasLocalChanges(j)
  <2>1. job[j].pc \notin SyncSteps \cup {"clone"} /\ {"clone", "stashing", "pull"} \subseteq Steps \ SyncSteps
    BY <1>6 DEF HasLocalChanges, SyncSteps, Steps, ApplySteps
  <2>2. \E pc \in Steps \ SyncSteps : Goto(j, pc)
    BY <1>6, <2>1 DEF HasLocalChanges
  <2> QED
    BY <1>6, <2>1, <2>2, MovedLight, LightStep DEF HasLocalChanges
<1>7. CASE Stash(j) \/ StashFails(j)
  <2>1. job[j].pc \notin SyncSteps \cup {"clone"} /\ job \in [Jobs -> Job] /\ job[j] \in Job
    BY <1>7 DEF Stash, StashFails, SyncSteps, Inv, Typed, TypeOK
  <2>2. job[j].clone = Unknown /\ job[j].at = 1
    BY <2>1 DEF Inv, Track
  <2> DEFINE b == [job[j] EXCEPT !.pc = "pull", !.stashed = TRUE]
  <2>3. b.clone = Unknown /\ b.at = 1 /\ b.pc \notin SyncSteps
    BY <2>1, <2>2 DEF Job, SyncSteps
  <2>4. job' = [job EXCEPT ![j] = b]
    BY <1>7, <2>1 DEF Stash, StashFails
  <2> HIDE DEF b
  <2>5. job'[j] = b /\ \A i \in Jobs : i # j => job'[i] = job[i]
    BY <2>1, <2>4
  <2> QED
    BY <1>7, <2>1, <2>3, <2>5, LightStep DEF Stash, StashFails
<1>8. ASSUME NEW ok \in BOOLEAN, Pull(j, ok) PROVE Inv'
  <2>1. job[j].pc \notin SyncSteps \cup {"clone"} /\ "pop" \in Steps \ SyncSteps
        /\ (Goto(j, "pop") \/ Finish(j))
    BY <1>8 DEF Pull, SyncSteps, Steps, ApplySteps
  <2>2. mode = "git"
    BY <1>8 DEF Pull, Inv, Modes, Typed, TypeOK
  <2> QED
    BY <1>8, <2>1, <2>2, MovedLight, LightStep DEF Pull
<1>9. ASSUME NEW clean \in BOOLEAN, Pop(j, clean) PROVE Inv'
  <2>1. job[j].pc \notin SyncSteps \cup {"clone"} /\ Finish(j)
    BY <1>9 DEF Pop, SyncSteps
  <2> QED
    BY <1>9, <2>1, MovedLight, LightStep DEF Pop
<1> QED
  BY <1>1, <1>2, <1>3, <1>4, <1>5, <1>6, <1>7, <1>8, <1>9

------------------------------------------------------------------------------
\* What is known while a thread applies a clone.
LEMMA SoleState ==
    ASSUME Overlap = FALSE, Inv, NEW j \in Jobs, job[j].pc \in SyncSteps \cup {"clone"}, ~exposed
    PROVE  /\ Holding(j) => Held(j)
           /\ ~Holding(j) => Whole
           /\ tree["backend"] = Gone => job[j].at = 2 /\ job[j].pc = "copy"
<1>1. \A i \in Jobs : i # j => ~Holding(i) /\ job[i].at = 1
  BY Sole
<1> QED
  BY <1>1 DEF Inv, Safekept

\* A step of that thread.
LEMMA SoleStep ==
    ASSUME Overlap = FALSE, Inv, Typed', Modes', NEW j \in Jobs,
           job[j].pc \in SyncSteps \cup {"clone"},
           \A i \in Jobs : i # j => job'[i] = job[i],
           Track(j)', Behind',
           ~exposed' => /\ Holding(j)' => Held(j)'
                        /\ ~Holding(j)' => Whole'
                        /\ tree'["backend"] = Gone => job'[j].at = 2 /\ job'[j].pc = "copy"
    PROVE  Inv'
<1>1. ASSUME NEW i \in Jobs, i # j PROVE Track(i)' /\ ~Holding(i)'
  BY <1>1, Sole, Light
<1>2. Safekept'
  BY <1>1 DEF Safekept
<1> QED
  BY <1>1, <1>2 DEF Inv

LEMMA CloneActions ==
    ASSUME Overlap = FALSE, Inv, Typed', Modes', NEW j \in Jobs, BeginClone(j) \/ Cloned(j)
    PROVE  Inv'
<1> USE DEF files, history
<1>1. job[j].pc = "clone" /\ job[j].pc \in SyncSteps \cup {"clone"} /\ job[j] \in Job
      /\ job \in [Jobs -> Job] /\ job[j].at = 1 /\ ~Holding(j)
  BY DEF BeginClone, Cloned, Inv, Track, Typed, TypeOK, SyncSteps, Holding
<1>2. UNCHANGED <<mode, remote, files, history>>
  BY DEF BeginClone, Cloned
<1>3. Behind' /\ (Whole' <=> Whole)
  BY <1>2 DEF Inv, Behind, Caught, Whole, Effective
<1>4. mode = "docker" /\ version <= remote /\ remote \in Commits /\ version \in Commits \cup {Unknown}
  BY <1>1, Sole DEF Inv, Behind, Typed, TypeOK
<1>5. CASE BeginClone(j)
  <2> DEFINE b == [job[j] EXCEPT !.local = version, !.clone = remote]
  <2>1. b.pc = "clone" /\ b.at = 1 /\ b.local = version /\ b.clone = remote
    BY <1>1 DEF Job
  <2>2. job' = [job EXCEPT ![j] = b]
    BY <1>1, <1>5 DEF BeginClone
  <2> HIDE DEF b
  <2>3. job'[j] = b /\ \A i \in Jobs : i # j => job'[i] = job[i]
    BY <1>1, <2>2
  <2>4. Track(j)'
    BY <1>2, <1>4, <2>1, <2>3 DEF Track, SyncSteps, Commits, Unknown
  <2>5. ~Holding(j)'
    BY <2>1, <2>3 DEF Holding
  <2> QED
    BY <1>1, <1>2, <1>3, <2>3, <2>4, <2>5, SoleStep, SoleState
<1>6. CASE Cloned(j) /\ Finish(j)
  <2>1. job'[j] = NoJob /\ \A i \in Jobs : i # j => job'[i] = job[i]
    BY <1>6, Finished DEF Inv
  <2>2. Track(j)' /\ ~Holding(j)'
    BY <2>1, Light DEF NoJob, SyncSteps
  <2> QED
    BY <1>1, <1>2, <1>3, <2>1, <2>2, SoleStep, SoleState
<1>7. CASE Cloned(j) /\ job[j].local # job[j].clone /\ Goto(j, "preserve")
  <2>1. job'[j] = [job[j] EXCEPT !.pc = "preserve"] /\ \A i \in Jobs : i # j => job'[i] = job[i]
    BY <1>7, Moved DEF Inv, Steps, ApplySteps
  <2>2. job'[j].pc = "preserve" /\ job'[j].at = 1 /\ job'[j].clone = job[j].clone /\ job'[j].local = job[j].local
    BY <1>1, <2>1 DEF Job
  <2>3. job[j].clone # Unknown /\ job[j].clone \in Commits /\ job[j].local = version
        /\ job[j].local <= job[j].clone /\ job[j].clone <= remote
    BY <1>1, <1>7 DEF Cloned, Inv, Track, Job
  <2>4. job[j].local < job[j].clone
    BY <1>4, <1>7, <2>3 DEF Commits, Unknown
  <2>5. Track(j)'
    BY <1>2, <2>2, <2>3, <2>4 DEF Track, SyncSteps
  <2>6. ~Holding(j)'
    BY <2>2 DEF Holding
  <2> QED
    BY <1>1, <1>2, <1>3, <2>1, <2>5, <2>6, SoleStep, SoleState
<1> QED
  BY <1>5, <1>6, <1>7 DEF Cloned

\* What is known of a thread that syncs.
LEMMA AtWork ==
    ASSUME Overlap = FALSE, Inv, NEW j \in Jobs, job[j].pc \in SyncSteps
    PROVE  /\ job[j].clone \in Commits /\ job[j].local = version /\ version < job[j].clone
           /\ job[j].clone <= remote /\ version < remote /\ version <= remote
           /\ remote \in Commits /\ version \in Commits \cup {Unknown}
           /\ job[j].at \in {1, 2} /\ (job[j].at = 2 <=> Dir(j) = "backend")
           /\ (job[j].at = 1 <=> Dir(j) = "maestro")
           /\ job[j] \in Job /\ job \in [Jobs -> Job]
           /\ own \in [env : Settings \cup {NoFile}, dist : BOOLEAN]
<1>1. job[j] \in Job /\ job \in [Jobs -> Job] /\ remote \in Commits /\ version \in Commits \cup {Unknown}
      /\ own \in [env : Settings \cup {NoFile}, dist : BOOLEAN]
  BY DEF Inv, Typed, TypeOK
<1>2. job[j].clone \in Commits /\ job[j].clone # Unknown
  BY DEF Inv, Modes, Commits, Unknown
<1>3. job[j].local = version /\ job[j].local < job[j].clone /\ job[j].clone <= remote
  BY <1>2 DEF Inv, Track
<1>4. job[j].at \in {1, 2}
  BY <1>1 DEF Job, Dirs
<1>5. (job[j].at = 2 <=> Dir(j) = "backend") /\ (job[j].at = 1 <=> Dir(j) = "maestro")
  BY <1>4 DEF Dir, Dirs
<1>6. version < remote /\ version <= remote
  BY <1>1, <1>2, <1>3 DEF Commits, Unknown
<1> QED
  BY <1>1, <1>2, <1>3, <1>4, <1>5, <1>6

LEMMA PreserveStep ==
    ASSUME Overlap = FALSE, Inv, Typed', Modes', NEW j \in Jobs, Preserve(j) PROVE Inv'
<1> USE DEF files, history
<1>1. job[j].pc = "preserve" /\ job[j].pc \in SyncSteps /\ ~Holding(j)
  BY DEF Preserve, SyncSteps, Holding
<1>2. UNCHANGED <<mode, remote, version, tree, fallback, saved, exposed>>
  BY DEF Preserve
<1>3. Behind'
  BY <1>2 DEF Inv, Behind, Caught
<1>4. Track(j)
  BY DEF Inv
<1>5. CASE Dir(j) = "backend" /\ tree["backend"] # Gone
  <2> DEFINE b == [job[j] EXCEPT !.pc = "remove", !.env = own.env, !.dist = own.dist]
  <2>1. b.pc = "remove" /\ b.at = 2 /\ b.local = job[j].local /\ b.clone = job[j].clone
        /\ b.env = own.env /\ b.dist = own.dist
    BY <1>1, <1>5, AtWork DEF Job
  <2>2. job' = [job EXCEPT ![j] = b]
    BY <1>1, <1>5, AtWork DEF Preserve
  <2> HIDE DEF b
  <2>3. job'[j] = b /\ \A i \in Jobs : i # j => job'[i] = job[i]
    BY <1>1, <2>2, AtWork
  <2>4. Track(j)'
    BY <1>1, <1>2, <1>4, <1>5, <2>1, <2>3, AtWork DEF Track, SyncSteps
  <2>5. ~exposed => Holding(j)' /\ Held(j)' /\ tree["backend"] # Gone
    BY <1>1, <1>2, <1>5, <2>1, <2>3, SoleState DEF Whole, Effective, Holding, Held
  <2> QED
    BY <1>1, <1>2, <1>3, <2>3, <2>4, <2>5, SoleStep
<1>6. CASE ~(Dir(j) = "backend" /\ tree["backend"] # Gone)
  <2>1. Goto(j, "remove") /\ own' = own
    BY <1>6 DEF Preserve
  <2>2. job'[j] = [job[j] EXCEPT !.pc = "remove"] /\ \A i \in Jobs : i # j => job'[i] = job[i]
    BY <2>1, Moved DEF Inv, Steps, ApplySteps
  <2>3. job'[j].pc = "remove" /\ job'[j].at = job[j].at /\ job'[j].local = job[j].local
        /\ job'[j].clone = job[j].clone
    BY <1>1, <2>2, AtWork DEF Job
  <2>4. Track(j)'
    BY <1>1, <1>2, <1>4, <2>3 DEF Track, SyncSteps
  <2>5. ~exposed => tree["backend"] # Gone
    BY <1>1, SoleState
  <2>6. ~exposed => ~Holding(j)' /\ Whole'
    <3>1. ~exposed => job[j].at = 1
      BY <1>1, <1>6, <2>5, AtWork
    <3>2. ~exposed => Whole
      BY <1>1, SoleState
    <3>3. Whole' <=> Whole
      BY <1>2, <2>1 DEF Whole, Effective
    <3>4. ~exposed => ~Holding(j)'
      BY <2>3, <3>1 DEF Holding
    <3> QED
      BY <3>2, <3>3, <3>4
  <2> QED
    BY <1>1, <1>2, <1>3, <2>2, <2>4, <2>5, <2>6, SoleStep
<1> QED
  BY <1>5, <1>6

LEMMA RemoveStep ==
    ASSUME Overlap = FALSE, Inv, Typed', Modes', NEW j \in Jobs, RemoveTree(j) PROVE Inv'
<1> USE DEF files, history
<1>1. job[j].pc = "remove" /\ job[j].pc \in SyncSteps /\ Track(j)
  BY DEF RemoveTree, SyncSteps, Inv
<1>2. UNCHANGED <<mode, remote, version, fallback, saved, exposed>>
      /\ tree' = [tree EXCEPT ![Dir(j)] = Gone]
  BY DEF RemoveTree
<1>3. Goto(j, "copy")
  BY DEF RemoveTree
<1>4. job'[j] = [job[j] EXCEPT !.pc = "copy"] /\ \A i \in Jobs : i # j => job'[i] = job[i]
  BY <1>3, Moved DEF Inv, Steps, ApplySteps
<1>5. job'[j].pc = "copy" /\ job'[j].at = job[j].at /\ job'[j].local = job[j].local
      /\ job'[j].clone = job[j].clone /\ job'[j].env = job[j].env /\ job'[j].dist = job[j].dist
  BY <1>1, <1>4, AtWork DEF Job
<1>6. Behind'
  BY <1>1, <1>2, AtWork DEF Behind
<1>7. tree \in [{"maestro", "backend"} -> Commits \cup {Gone, Partial}]
  BY DEF Inv, Typed, TypeOK
<1>8. Track(j)'
  BY <1>1, <1>2, <1>5, <1>7, AtWork DEF Track, SyncSteps
<1>9. CASE job[j].at = 2
  <2>1. own' = [env |-> NoFile, dist |-> FALSE]
    BY <1>1, <1>9, AtWork DEF RemoveTree
  <2>2. Holding(j) /\ Holding(j)'
    BY <1>1, <1>5, <1>9 DEF Holding
  <2>3. ~exposed => Held(j)'
    BY <1>1, <1>2, <1>5, <2>1, <2>2, SoleState DEF Held
  <2> QED
    BY <1>1, <1>2, <1>4, <1>5, <1>6, <1>8, <1>9, <2>2, <2>3, SoleStep
<1>10. CASE job[j].at = 1
  <2>1. own' = own /\ tree'["backend"] = tree["backend"]
    BY <1>1, <1>2, <1>7, <1>10, AtWork DEF RemoveTree
  <2>2. ~Holding(j) /\ ~Holding(j)'
    BY <1>5, <1>10 DEF Holding
  <2>3. ~exposed => Whole' /\ tree'["backend"] # Gone
    BY <1>1, <1>2, <2>1, <2>2, SoleState DEF Whole, Effective
  <2> QED
    BY <1>1, <1>2, <1>4, <1>6, <1>8, <2>2, <2>3, SoleStep
<1> QED
  BY <1>1, <1>9, <1>10, AtWork

LEMMA CopyStep ==
    ASSUME Overlap = FALSE, Inv, Typed', Modes', NEW j \in Jobs, Copy(j) PROVE Inv'
<1> USE DEF files, history
<1>1. job[j].pc = "copy" /\ job[j].pc \in SyncSteps /\ Track(j)
  BY DEF Copy, SyncSteps, Inv
<1>2. UNCHANGED <<mode, remote, version, own, fallback, saved, exposed>>
      /\ tree' = [tree EXCEPT ![Dir(j)] = job[j].clone]
  BY DEF Copy
<1>3. Goto(j, "restore")
  BY DEF Copy
<1>4. job'[j] = [job[j] EXCEPT !.pc = "restore"] /\ \A i \in Jobs : i # j => job'[i] = job[i]
  BY <1>3, Moved DEF Inv, Steps, ApplySteps
<1>5. job'[j].pc = "restore" /\ job'[j].at = job[j].at /\ job'[j].local = job[j].local
      /\ job'[j].clone = job[j].clone /\ job'[j].env = job[j].env /\ job'[j].dist = job[j].dist
  BY <1>1, <1>4, AtWork DEF Job
<1>6. Behind'
  BY <1>1, <1>2, AtWork DEF Behind
<1>7. tree \in [{"maestro", "backend"} -> Commits \cup {Gone, Partial}]
  BY DEF Inv, Typed, TypeOK
<1>8. Track(j)'
  BY <1>1, <1>2, <1>5, <1>7, AtWork DEF Track, SyncSteps
<1>9. Holding(j)' <=> Holding(j)
  BY <1>1, <1>5 DEF Holding
<1>10. ~exposed => tree'["backend"] # Gone
  <2>1. CASE job[j].at = 2
    <3>1. job[j].clone \in Commits /\ Dir(j) = "backend"
      BY <1>1, <2>1, AtWork
    <3>2. job[j].clone # Gone
      BY <3>1 DEF Commits, Gone
    <3> QED
      BY <1>2, <1>7, <3>1, <3>2
  <2>2. CASE job[j].at = 1
    BY <1>1, <1>2, <1>7, <2>2, AtWork, SoleState
  <2> QED
    BY <1>1, <2>1, <2>2, AtWork
<1>11. ~exposed => (Holding(j)' => Held(j)') /\ (~Holding(j)' => Whole')
  BY <1>1, <1>2, <1>5, <1>9, SoleState DEF Held, Whole, Effective
<1> QED
  BY <1>1, <1>2, <1>4, <1>6, <1>8, <1>10, <1>11, SoleStep

LEMMA RestoreStep ==
    ASSUME Overlap = FALSE, Inv, Typed', Modes', NEW j \in Jobs, RestoreOwn(j) PROVE Inv'
<1> USE DEF files, history
<1>1. job[j].pc = "restore" /\ job[j].pc \in SyncSteps /\ Track(j)
  BY DEF RestoreOwn, SyncSteps, Inv
<1>2. UNCHANGED <<mode, remote, version, tree, fallback, saved, exposed>> /\ own' = PutBack(j)
  BY DEF RestoreOwn
<1>3. Behind'
  BY <1>2 DEF Inv, Behind, Caught
<1>4. Len(Dirs) = 2
  BY DEF Dirs
<1>5. ~exposed => tree["backend"] # Gone
  BY <1>1, SoleState
<1>6. CASE job[j].at = 1
  <2> DEFINE b == [job[j] EXCEPT !.pc = "preserve", !.at = 2]
  <2>1. b.pc = "preserve" /\ b.at = 2 /\ b.local = job[j].local /\ b.clone = job[j].clone
    BY <1>1, AtWork DEF Job
  <2>2. job' = [job EXCEPT ![j] = b]
    <3>1. job[j].at < Len(Dirs) /\ job[j].at + 1 = 2 /\ job \in [Jobs -> Job]
      <4>1. job[j].at < Len(Dirs) /\ job[j].at + 1 = 2
        BY <1>4, <1>6
      <4> QED
        BY <1>1, <4>1, AtWork
    <3>2. job' = [job EXCEPT ![j] = [job[j] EXCEPT !.pc = "preserve", !.at = job[j].at + 1]]
      BY <3>1 DEF RestoreOwn
    <3> QED
      BY <3>1, <3>2
  <2> HIDE DEF b
  <2>3. job'[j] = b /\ \A i \in Jobs : i # j => job'[i] = job[i]
    BY <1>1, <2>2, AtWork
  <2>4. Track(j)'
    BY <1>1, <1>2, <2>1, <2>3 DEF Track, SyncSteps
  <2>5. ~Holding(j) /\ ~Holding(j)' /\ own' = own
    BY <1>1, <1>2, <1>6, <2>1, <2>3, AtWork DEF Holding, PutBack
  <2>6. ~exposed => Whole'
    BY <1>1, <1>2, <2>5, SoleState DEF Whole, Effective
  <2> QED
    BY <1>1, <1>2, <1>3, <1>5, <2>3, <2>4, <2>5, <2>6, SoleStep
<1>7. CASE job[j].at = 2
  <2> DEFINE b == [job[j] EXCEPT !.pc = "version"]
  <2>1. b.pc = "version" /\ b.at = 2 /\ b.local = job[j].local /\ b.clone = job[j].clone
    BY <1>1, <1>7, AtWork DEF Job
  <2>2. job' = [job EXCEPT ![j] = b]
    <3>1. ~(job[j].at < Len(Dirs)) /\ job \in [Jobs -> Job] /\ job[j] \in Job
      <4>1. ~(job[j].at < Len(Dirs))
        BY <1>4, <1>7
      <4> QED
        BY <1>1, <4>1, AtWork
    <3>2. job' = [job EXCEPT ![j] = [job[j] EXCEPT !.pc = "version", !.at = job[j].at]]
      BY <3>1 DEF RestoreOwn
    <3>3. b = [job[j] EXCEPT !.pc = "version", !.at = job[j].at]
      BY <3>1 DEF Job
    <3> QED
      BY <3>2, <3>3
  <2> HIDE DEF b
  <2>3. job'[j] = b /\ \A i \in Jobs : i # j => job'[i] = job[i]
    BY <1>1, <2>2, AtWork
  <2>4. Track(j)'
    BY <1>1, <1>2, <1>7, <2>1, <2>3 DEF Track, SyncSteps
  <2>5. Holding(j) /\ ~Holding(j)'
    BY <1>1, <1>7, <2>1, <2>3 DEF Holding
  <2>6. own' = [env |-> IF job[j].env = NoFile THEN own.env ELSE job[j].env, dist |-> own.dist \/ job[j].dist]
    BY <1>1, <1>2, <1>7, AtWork DEF PutBack
  <2>7. ~exposed => Whole'
    <3>1. ~exposed => Held(j) /\ own.env = NoFile
      BY <1>1, <2>5, SoleState DEF Held
    <3>2. ~exposed => own'.dist
      BY <2>6, <3>1 DEF Held
    <3>3. ~exposed => Effective' = saved'
      BY <1>2, <2>6, <3>1 DEF Held, Effective
    <3> QED
      BY <3>2, <3>3 DEF Whole
  <2> QED
    BY <1>1, <1>2, <1>3, <1>5, <2>3, <2>4, <2>5, <2>7, SoleStep
<1> QED
  BY <1>1, <1>6, <1>7, AtWork

LEMMA VersionStep ==
    ASSUME Overlap = FALSE, Inv, Typed', Modes', NEW j \in Jobs, WriteVersion(j) PROVE Inv'
<1> USE DEF files, history
<1>1. job[j].pc = "version" /\ job[j].pc \in SyncSteps /\ Track(j) /\ ~Holding(j)
  BY DEF WriteVersion, SyncSteps, Inv, Holding
<1>2. UNCHANGED <<mode, remote, tree, own, fallback, saved, exposed>> /\ version' = job[j].clone
  BY DEF WriteVersion
<1>3. job'[j] = NoJob /\ \A i \in Jobs : i # j => job'[i] = job[i]
  BY Finished DEF Inv, WriteVersion
<1>4. Track(j)' /\ ~Holding(j)'
  BY <1>3, Light DEF NoJob, SyncSteps
<1>5. tree["maestro"] = job[j].clone /\ tree["backend"] = job[j].clone /\ job[j].clone <= remote
  BY <1>1, AtWork DEF Track
<1>6. Behind'
  BY <1>2, <1>5 DEF Behind, Caught
<1>7. ~exposed => Whole' /\ tree["backend"] # Gone
  BY <1>1, <1>2, SoleState DEF Whole, Effective
<1> QED
  BY <1>1, <1>2, <1>3, <1>4, <1>6, <1>7, SoleStep

LEMMA FailStep ==
    ASSUME Overlap = FALSE, Inv, Typed', Modes', NEW j \in Jobs, ApplyFails(j) PROVE Inv'
<1> USE DEF files, history
<1>1. job[j].pc \in SyncSteps \cup {"clone"}
  BY AtSync DEF ApplyFails
<1>2. UNCHANGED <<mode, remote, version, own, fallback, saved>>
      /\ (exposed' <=> exposed \/ Syncing(j)) /\ exposed \in BOOLEAN
  BY DEF ApplyFails, Inv, Typed, TypeOK
<1>3. job'[j] = NoJob /\ \A i \in Jobs : i # j => job'[i] = job[i]
  BY Finished DEF Inv, ApplyFails
<1>4. Track(j)' /\ ~Holding(j)'
  BY <1>3, Light DEF NoJob, SyncSteps
<1>5. CASE Syncing(j)
  <2>1. Behind'
    BY <1>2, <1>5, AtSync, AtWork DEF Behind
  <2> QED
    BY <1>1, <1>2, <1>3, <1>4, <1>5, <2>1, SoleStep
<1>6. CASE ~Syncing(j)
  <2>1. job[j].pc = "clone" /\ ~Holding(j) /\ tree' = tree
    BY <1>6, AtSync DEF ApplyFails, Holding, SyncSteps
  <2>2. Behind'
    BY <1>2, <2>1 DEF Inv, Behind, Caught
  <2>3. ~exposed' => Whole' /\ tree'["backend"] # Gone
    BY <1>1, <1>2, <2>1, SoleState DEF Whole, Effective
  <2> QED
    BY <1>1, <1>3, <1>4, <2>2, <2>3, SoleStep
<1> QED
  BY <1>5, <1>6

------------------------------------------------------------------------------
LEMMA OutsideInv ==
    ASSUME UpdaterAssumption, Overlap = FALSE, Inv, Typed', Modes',
           (\E value \in Settings : Configure(value)) \/ Push \/ Edit \/ Restart
    PROVE  Inv'
<1> USE DEF files, history
<1>1. ASSUME NEW value \in Settings, Configure(value) PROVE Inv'
  <2>1. UNCHANGED <<mode, remote, version, tree, job>> /\ saved' = value
        /\ (exposed' <=> exposed \/ \E j \in Jobs : Syncing(j)) /\ exposed \in BOOLEAN
    BY <1>1 DEF Configure, Inv, Typed, TypeOK
  <2>2. Behind' /\ \A j \in Jobs : Track(j)' /\ (Holding(j)' <=> Holding(j))
    BY <2>1 DEF Inv, Behind, Caught, Track, Holding
  <2>3. Safekept'
    <3> SUFFICES ASSUME ~exposed' PROVE Safekept'
      BY DEF Safekept
    <3>1. ~exposed /\ \A j \in Jobs : ~Syncing(j)
      BY <2>1
    <3>2. \A j \in Jobs : ~Holding(j) /\ ~Holding(j)'
      BY <2>2, <3>1, AtSync DEF Holding, SyncSteps
    <3>3. own.dist /\ tree["backend"] # Gone
      BY <3>1, <3>2 DEF Inv, Safekept, Whole, Syncing
    <3>4. own'.dist
      BY <1>1, <3>3 DEF Configure, Inv, Typed, TypeOK
    <3>5. Effective' = value
      <4>1. value # NoFile
        BY DEF Settings, NoFile
      <4>2. CASE own.env = NoFile
        BY <1>1, <4>2 DEF Configure, Effective
      <4>3. CASE own.env # NoFile
        <5>1. own'.env = value
          BY <1>1, <4>3 DEF Configure, Inv, Typed, TypeOK
        <5> QED
          BY <4>1, <5>1 DEF Effective
      <4> QED
        BY <4>2, <4>3
    <3> QED
      BY <2>1, <3>2, <3>3, <3>4, <3>5 DEF Safekept, Whole
  <2> QED
    BY <2>2, <2>3 DEF Inv
<1>2. CASE Push
  <2>1. remote' = remote + 1 /\ UNCHANGED <<mode, files, job, history>> /\ remote \in Commits
        /\ version \in Commits \cup {Unknown}
    BY <1>2 DEF Push, Inv, Typed, TypeOK
  <2>2. Behind'
    BY <2>1 DEF Inv, Behind, Caught, Commits, Unknown
  <2>3. ASSUME NEW j \in Jobs PROVE Track(j)' /\ (Holding(j)' <=> Holding(j)) /\ (Held(j)' <=> Held(j))
    <3>1. Track(j) /\ job[j].clone \in Commits \cup {Unknown}
      BY DEF Inv, Typed, TypeOK, Job
    <3>2. job[j].clone # Unknown /\ job[j].clone <= remote => job[j].clone <= remote'
      BY <2>1, <3>1 DEF Commits
    <3> QED
      BY <2>1, <3>1, <3>2 DEF Track, Holding, Held
  <2>4. Safekept'
    BY <2>1, <2>3 DEF Inv, Safekept, Whole, Effective
  <2> QED
    BY <2>2, <2>3, <2>4 DEF Inv
<1>3. CASE Edit
  <2>1. UNCHANGED <<mode, remote, version, tree, own, fallback, job, history>>
    BY <1>3 DEF Edit
  <2>2. Behind' /\ Safekept' /\ \A j \in Jobs : Track(j)'
    BY <2>1 DEF Inv, Behind, Caught, Safekept, Whole, Effective, Holding, Held, Track
  <2> QED
    BY <2>2 DEF Inv
<1>4. CASE Restart
  <2>1. UNCHANGED <<mode, remote, version, own, fallback, saved>>
        /\ (exposed' <=> exposed \/ \E j \in Jobs : Syncing(j)) /\ exposed \in BOOLEAN
    BY <1>4 DEF Restart, Inv, Typed, TypeOK
  <2>2. \A j \in Jobs : job'[j] = NoJob
    BY <1>4 DEF Restart
  <2>3. \A j \in Jobs : Track(j)' /\ ~Holding(j)'
    BY <2>2, Light DEF NoJob, SyncSteps
  <2>4. CASE \E j \in Jobs : Syncing(j)
    <3>1. PICK j \in Jobs : job[j].pc \in SyncSteps
      BY <2>4, AtSync
    <3>2. Behind'
      BY <2>1, <3>1, AtWork DEF Behind
    <3> QED
      BY <2>1, <2>3, <2>4, <3>2 DEF Inv, Safekept
  <2>5. CASE \A j \in Jobs : ~Syncing(j)
    <3>1. tree' = tree /\ \A j \in Jobs : ~Holding(j) /\ job[j].pc # "copy"
      BY <1>4, <2>5, AtSync DEF Restart, Holding, SyncSteps
    <3>2. Behind'
      BY <2>1, <3>1 DEF Inv, Behind, Caught
    <3>3. Safekept'
      BY <2>1, <2>3, <3>1 DEF Inv, Safekept, Whole, Effective
    <3> QED
      BY <2>3, <3>2, <3>3 DEF Inv
  <2> QED
    BY <2>4, <2>5
<1> QED
  BY <1>1, <1>2, <1>3, <1>4

LEMMA NextInv ==
    ASSUME UpdaterAssumption, Overlap = FALSE, Inv, [Next]_vars PROVE Inv'
<1>1. Typed' /\ Modes'
  BY NextTyped DEF Inv
<1>2. CASE UNCHANGED vars
  <2>1. UNCHANGED <<mode, remote, version, tree, own, fallback, job, saved, exposed>>
    BY <1>2 DEF vars, files, history
  <2>2. Behind' /\ Safekept' /\ \A j \in Jobs : Track(j)'
    BY <2>1 DEF Inv, Behind, Caught, Safekept, Whole, Effective, Holding, Held, Track
  <2> QED
    BY <1>1, <2>2 DEF Inv
<1>3. CASE Next
  <2>1. ASSUME NEW j \in Jobs, Advance(j) \/ Fail(j) PROVE Inv'
    BY <1>1, <2>1, LightActions, CloneActions, PreserveStep, RemoveStep, CopyStep, RestoreStep,
       VersionStep, FailStep DEF Advance, Fail
  <2>2. CASE Wake \/ \E pc \in {"check", "stash"} : Request(pc)
    BY <1>1, <2>2, LightActions DEF Jobs
  <2> QED
    BY <1>1, <1>3, <2>1, <2>2, OutsideInv DEF Next
<1> QED
  BY <1>2, <1>3

LEMMA InvAlways == ASSUME UpdaterAssumption, Overlap = FALSE PROVE Spec => []Inv
<1>1. Init => Inv
  BY InitInv
<1>2. Inv /\ [Next]_vars => Inv'
  BY NextInv
<1> QED
  BY <1>1, <1>2, PTL DEF Spec

\* A container whose VERSION is the newest commit runs that commit, wherever an
\* update failed or was killed, as long as no two of them overlap.
THEOREM NothingHiddenAlways ==
    ASSUME UpdaterAssumption, Overlap = FALSE PROVE Spec => []NothingHidden
<1>1. Inv => NothingHidden
  BY DEF Inv, Typed, TypeOK, Behind, Caught, NothingHidden, Commits, Unknown
<1> QED
  BY <1>1, InvAlways, PTL

------------------------------------------------------------------------------
(* Local edits.                                                            *)

LEMMA ToSetPushed ==
    ASSUME NEW S, NEW s \in Seq(S), NEW e \in S PROVE ToSet(<<e>> \o s) = {e} \cup ToSet(s)
<1>1. Len(<<e>> \o s) = Len(s) + 1 /\ (<<e>> \o s)[1] = e
      /\ \A i \in 1 .. Len(s) : (<<e>> \o s)[i + 1] = s[i]
  OBVIOUS
<1>2. \A i \in 2 .. Len(s) + 1 : i - 1 \in 1 .. Len(s) /\ (<<e>> \o s)[i] = s[i - 1]
  BY <1>1
<1>3. <<e>> \o s \in Seq(S)
  BY Pushed
<1>4. DOMAIN (<<e>> \o s) = 1 .. Len(s) + 1 /\ DOMAIN s = 1 .. Len(s) /\ Len(s) \in Nat
  BY <1>1, <1>3
<1>5. \A i \in DOMAIN (<<e>> \o s) : (<<e>> \o s)[i] \in {e} \cup ToSet(s)
  BY <1>1, <1>2, <1>4 DEF ToSet
<1>6. \A x \in {e} \cup ToSet(s) : \E i \in DOMAIN (<<e>> \o s) : (<<e>> \o s)[i] = x
  <2>1. 1 \in DOMAIN (<<e>> \o s) /\ \A i \in DOMAIN s : i + 1 \in DOMAIN (<<e>> \o s)
    BY <1>4
  <2> QED
    BY <1>1, <1>4, <2>1 DEF ToSet
<1> QED
  BY <1>5, <1>6 DEF ToSet

LEMMA ToSetPopped ==
    ASSUME NEW S, NEW s \in Seq(S), s # <<>> PROVE ToSet(s) = {Head(s)} \cup ToSet(Tail(s))
<1>1. Head(s) \in S /\ Tail(s) \in Seq(S) /\ s = <<Head(s)>> \o Tail(s)
  OBVIOUS
<1> QED
  BY <1>1, ToSetPushed

LEMMA EditsKeptByNext ==
    ASSUME UpdaterAssumption, Typed, EditsKept, [Next]_vars PROVE EditsKept'
<1> USE DEF files, history
<1> SUFFICES ASSUME mode' = "git"
             PROVE  (edits \cup UNION ToSet(stash))' = {e \in 0 .. MaxEdits : e < bounds.edits}'
  BY DEF EditsKept
<1>1. mode' = mode
  BY DEF Next, vars, Wake, Request, Advance, Fail, GetLocalCommit, GetRemoteCommit, CheckFails,
         HasLocalChanges, Stash, StashFails, Pull, Pop, BeginClone, Cloned, Preserve, RemoveTree, Copy, RestoreOwn,
         WriteVersion, ApplyFails, Configure, Push, Edit, Restart
<1>2. edits \cup UNION ToSet(stash) = {e \in 0 .. MaxEdits : e < bounds.edits}
  BY <1>1 DEF EditsKept
<1>3. stash \in Seq(SUBSET (0 .. MaxEdits)) /\ edits \in SUBSET (0 .. MaxEdits)
      /\ bounds \in Counters
  BY DEF Typed, TypeOK
<1>4. CASE UNCHANGED <<edits, stash>> /\ bounds'.edits = bounds.edits
  BY <1>2, <1>4
<1>5. ASSUME NEW j \in Jobs, Stash(j)
      PROVE  (edits \cup UNION ToSet(stash))' = {e \in 0 .. MaxEdits : e < bounds.edits}'
  <2>1. edits' = {} /\ bounds' = bounds
    BY <1>5 DEF Stash
  <2>2. CASE edits = {}
    BY <1>2, <1>5, <2>1, <2>2 DEF Stash
  <2>3. CASE edits # {}
    <3>1. stash' = <<edits>> \o stash
      BY <1>5, <2>3 DEF Stash
    <3>2. ToSet(stash') = {edits} \cup ToSet(stash)
      BY <1>3, <3>1, ToSetPushed
    <3> QED
      BY <1>2, <2>1, <3>2
  <2> QED
    BY <2>2, <2>3
<1>6. ASSUME NEW j \in Jobs, NEW clean \in BOOLEAN, Pop(j, clean)
      PROVE  (edits \cup UNION ToSet(stash))' = {e \in 0 .. MaxEdits : e < bounds.edits}'
  <2>1. bounds'.edits = bounds.edits
    BY <1>6, Spent DEF Pop
  <2>2. CASE stash = <<>>
    BY <1>2, <1>6, <2>1, <2>2 DEF Pop
  <2>3. CASE stash # <<>>
    <3>1. edits' = edits \cup Head(stash) /\ (stash' = stash \/ stash' = Tail(stash))
      BY <1>6, <2>3 DEF Pop
    <3>2. ToSet(stash) = {Head(stash)} \cup ToSet(Tail(stash))
      BY <1>3, <2>3, ToSetPopped
    <3> QED
      BY <1>2, <2>1, <3>1, <3>2
  <2> QED
    BY <2>2, <2>3
<1>7. CASE Edit
  <2>1. bounds.edits < MaxEdits /\ bounds' = [bounds EXCEPT !["edits"] = bounds.edits + 1]
        /\ edits' = edits \cup {bounds.edits} /\ stash' = stash
    BY <1>7 DEF Edit, Spend
  <2>2. bounds.edits \in Nat /\ bounds'.edits = bounds.edits + 1
    BY <1>3, <2>1 DEF Counters
  <2>3. {e \in 0 .. MaxEdits : e < bounds'.edits} = {e \in 0 .. MaxEdits : e < bounds.edits} \cup {bounds.edits}
    BY <2>1, <2>2, UpdaterAssumption
  <2> QED
    BY <1>2, <2>1, <2>3
<1>8. CASE UNCHANGED vars
  BY <1>4, <1>8 DEF vars
<1>9. ASSUME NEW j \in Jobs, Advance(j) \/ Fail(j)
      PROVE  (edits \cup UNION ToSet(stash))' = {e \in 0 .. MaxEdits : e < bounds.edits}'
  <2>1. CASE GetLocalCommit(j) \/ GetRemoteCommit(j) \/ HasLocalChanges(j) \/ BeginClone(j) \/ Cloned(j)
             \/ Preserve(j) \/ RemoveTree(j) \/ Copy(j) \/ RestoreOwn(j) \/ WriteVersion(j)
    BY <1>4, <2>1 DEF GetLocalCommit, GetRemoteCommit, HasLocalChanges, BeginClone, Cloned, Preserve,
                      RemoveTree, Copy, RestoreOwn, WriteVersion
  <2>2. CASE CheckFails(j) \/ StashFails(j) \/ ApplyFails(j) \/ \E ok \in BOOLEAN : Pull(j, ok)
    <3>1. UNCHANGED <<edits, stash>>
      BY <2>2 DEF CheckFails, StashFails, ApplyFails, Pull
    <3>2. bounds' = bounds \/ Spend("failures", MaxFailures)
      BY <2>2 DEF CheckFails, StashFails, ApplyFails, Pull
    <3>3. bounds'.edits = bounds.edits
      BY <3>2, Spent
    <3> QED
      BY <1>4, <3>1, <3>3
  <2> QED
    BY <1>5, <1>6, <1>9, <2>1, <2>2 DEF Advance, Fail
<1>10. CASE Wake \/ Push
  BY <1>4, <1>10 DEF Wake, Push
<1>11. CASE \E c \in {"requests", "saves", "restarts"}, most \in {MaxRequests, MaxSaves, MaxRestarts} :
                Spend(c, most) /\ UNCHANGED <<edits, stash>>
  <2>1. bounds'.edits = bounds.edits
    BY <1>11, Spent
  <2> QED
    BY <1>4, <1>11, <2>1
<1>12. (\E pc \in {"check", "stash"} : Request(pc)) \/ (\E value \in Settings : Configure(value)) \/ Restart =>
           \E c \in {"requests", "saves", "restarts"}, most \in {MaxRequests, MaxSaves, MaxRestarts} :
                Spend(c, most) /\ UNCHANGED <<edits, stash>>
  BY DEF Request, Configure, Restart
<1> QED
  BY <1>7, <1>8, <1>9, <1>10, <1>11, <1>12 DEF Next

\* What the user saved and built is what the next start finds, and every local
\* edit is in the working tree or in the stash, as long as no two applies
\* overlap in a container.
THEOREM NothingOfTheUserLostAlways ==
    ASSUME UpdaterAssumption, Overlap = FALSE PROVE Spec => []NothingOfTheUserLost
<1>1. Init => EditsKept
  <2> SUFFICES ASSUME Init PROVE EditsKept
    OBVIOUS
  <2>1. edits = {} /\ stash = <<>> /\ bounds.edits = 0
    BY DEF Init
  <2>2. ToSet(stash) = {}
    BY <2>1 DEF ToSet
  <2>3. {e \in 0 .. MaxEdits : e < 0} = {}
    OBVIOUS
  <2> QED
    BY <2>1, <2>2, <2>3 DEF EditsKept
<1>2. Inv /\ EditsKept /\ [Next]_vars => EditsKept'
  BY EditsKeptByNext DEF Inv
<1>3. Inv => UserFilesSurvive
  <2> SUFFICES ASSUME Inv, Quiet, ~exposed PROVE Effective = saved /\ own.dist
    BY DEF UserFilesSurvive
  <2>1. \A j \in Jobs : ~Holding(j)
    BY DEF Quiet, Applying, ApplySteps, Holding
  <2> QED
    BY <2>1 DEF Inv, Safekept, Whole
<1> QED
  BY <1>1, <1>2, <1>3, InvAlways, PTL DEF Spec, NothingOfTheUserLost
=============================================================================
