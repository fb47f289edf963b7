---------------------------- MODULE PluginsProofs ----------------------------
(***************************************************************************)
(* Theorems about Plugins.                                                 *)
(***************************************************************************)
EXTENDS Plugins, Recursion

\* Whoever is being served is known, and restore works on a snapshot.
Typed ==
    /\ TypeOK
    /\ \A p \in ToSet(stack) \cup queue : Known(p)
    /\ request.op # "restore" => queue = {}
    /\ request.op = "restore" => request.of \in Snapshot /\ queue \subseteq request.of.enabled

\* Hooks are numbered as they are made, in the list and in what a run called;
\* what it has still to call is younger than all it called.
Ordered ==
    /\ \A i \in DOMAIN hooks : hooks[i].made < made
    /\ \A i, j \in DOMAIN hooks : i < j => hooks[i].made < hooks[j].made
    /\ \A r \in Passes : \A i \in DOMAIN pass[r].called :
          /\ pass[r].called[i].made < made
          /\ \A k \in DOMAIN hooks : pass[r].at <= k => pass[r].called[i].made < hooks[k].made

Accounted == HooksAccounted /\ Ordered

\* On the way: what the snapshot had enabled is enabled, in error or has its
\* turn still to come, and nobody else is called but what they depend on.
Restoring ==
    request.op = "restore" /\ status # "failed" =>
        /\ \A p \in request.of.enabled :
              Known(p) => state[p] \in {"enabled", "error"} \/ p \in queue \cup ToSet(stack)
        /\ With("enabled") \cup ToSet(stack) \subseteq Closure(request.of.enabled, Needs)
        /\ \A p \in Plugins : request.of.configs[p] # Unset => config[p] = request.of.configs[p]

------------------------------------------------------------------------------
\* What discovery makes of states and manifests.
LEMMA DiscoveredWell ==
    ASSUME NEW states \in [Plugins -> States], directory \in Directories, manifest \in Directories,
           \A p \in Plugins : states[p] # "unknown" => manifest[p] # Absent
    PROVE  /\ Discovered(states) \in [Plugins -> States] /\ Manifested(states) \in Directories
           /\ \A p \in Plugins :
                 /\ Discovered(states)[p] # "unknown" => Manifested(states)[p] # Absent
                 /\ states[p] # "unknown" => Discovered(states)[p] = states[p]
                 /\ Discovered(states)[p] \in {states[p], "discovered"}
<1>1. Discovered(states) \in [Plugins -> States]
  BY DEF Discovered, States
<1>2. Manifested(states) \in Directories
  BY DEF Manifested, Directories
<1> QED BY <1>1, <1>2 DEF Discovered, Manifested

\* What a plugin depends on.
LEMMA ManifestsAreLists ==
    ASSUME manifest \in Directories, NEW p \in Plugins, manifest[p] # Absent
    PROVE  manifest[p] \in Seq(Plugins)
BY PluginsAssumption DEF Directories

\* What is missing is known, and not enabled.
LEMMA MissingWell ==
    ASSUME manifest \in Directories, NEW p \in Plugins, manifest[p] # Absent, Missing(p) # <<>>
    PROVE  /\ Head(Missing(p)) \in Plugins /\ Head(Missing(p)) \in ToSet(manifest[p])
           /\ Known(Head(Missing(p))) /\ state[Head(Missing(p))] # "enabled"
<1> DEFINE wanted == {d \in Plugins : Known(d) /\ state[d] # "enabled"}
           kept == Keep(manifest[p], wanted)
<1>1. kept = Missing(p)
  BY DEF Missing
<1>2. kept \in Seq(Plugins) /\ ToSet(kept) = ToSet(manifest[p]) \cap wanted
  BY ManifestsAreLists, KeepElements
<1>3. Head(kept) \in ToSet(kept)
  <2> HIDE DEF kept
  <2> QED BY <1>1, <1>2 DEF ToSet
<1> QED BY <1>1, <1>2, <1>3

\* Removing the hooks of some plugins.
LEMMA RemoveWell ==
    ASSUME hooks \in Seq(Hook), owners \in Seq(Hook), NEW plugins, RemovePluginHooks(plugins)
    PROVE  /\ hooks' \in Seq(Hook) /\ owners' \in Seq(Hook)
           /\ ToSet(owners') = ToSet(owners) \ Of(owners, plugins)
           /\ ToSet(hooks') = ToSet(hooks) \ Of(owners, plugins)
           /\ \E e \in [DOMAIN hooks' -> DOMAIN hooks] :
                 /\ \A k \in DOMAIN hooks' : hooks'[k] = hooks[e[k]] /\ k <= e[k]
                 /\ \A k, l \in DOMAIN hooks' : k < l => e[k] < e[l]
<1> DEFINE wanted == ToSet(hooks) \ Of(owners, plugins)
<1>1. hooks' = Keep(hooks, wanted) /\ owners' = Keep(owners, ToSet(owners) \ Of(owners, plugins))
  BY DEF RemovePluginHooks, Without
<1> HIDE DEF wanted
<1>2. /\ hooks' \in Seq(Hook) /\ owners' \in Seq(Hook) /\ ToSet(hooks') = ToSet(hooks) \cap wanted
      /\ ToSet(owners') = ToSet(owners) \cap (ToSet(owners) \ Of(owners, plugins))
  BY <1>1, KeepElements
<1>3. Origins(hooks', hooks, wanted, Len(hooks)) # {}
  BY <1>1, KeepOrigins
<1>4. DOMAIN hooks' = 1 .. Len(hooks') /\ DOMAIN hooks = 1 .. Len(hooks)
  BY <1>2
<1>5. \E e \in [DOMAIN hooks' -> DOMAIN hooks] :
          /\ \A k \in DOMAIN hooks' : hooks'[k] = hooks[e[k]] /\ k <= e[k]
          /\ \A k, l \in DOMAIN hooks' : k < l => e[k] < e[l]
  BY <1>3, <1>4 DEF Origins
<1> QED BY <1>2, <1>5 DEF wanted

\* Lists of calls.
LEMMA Calls ==
    ASSUME NEW s \in Seq(Plugins)
    PROVE  /\ ToSet(s) \subseteq Plugins /\ Len(s) \in Nat
           /\ \A p \in Plugins : /\ Append(s, p) \in Seq(Plugins) /\ Len(Append(s, p)) = Len(s) + 1
                                 /\ ToSet(Append(s, p)) = ToSet(s) \cup {p}
           /\ s # <<>> => /\ Front(s) \in Seq(Plugins) /\ Len(Front(s)) = Len(s) - 1
                          /\ Last(s) \in Plugins /\ ToSet(s) = ToSet(Front(s)) \cup {Last(s)}
<1>1. ToSet(s) \subseteq Plugins /\ Len(s) \in Nat
  BY DEF ToSet
<1>2. ASSUME NEW p \in Plugins
      PROVE  /\ Append(s, p) \in Seq(Plugins) /\ Len(Append(s, p)) = Len(s) + 1
             /\ ToSet(Append(s, p)) = ToSet(s) \cup {p}
  <2>1. Append(s, p) \in Seq(Plugins) /\ Len(Append(s, p)) = Len(s) + 1
    OBVIOUS
  <2>2. /\ \A i \in 1 .. Len(s) : Append(s, p)[i] = s[i]
        /\ Append(s, p)[Len(s) + 1] = p
        /\ DOMAIN s = 1 .. Len(s) /\ DOMAIN Append(s, p) = 1 .. Len(s) + 1
    OBVIOUS
  <2>3. \A i : i \in 1 .. Len(s) + 1 <=> i \in 1 .. Len(s) \/ i = Len(s) + 1
    BY <1>1
  <2> QED BY <2>1, <2>2, <2>3 DEF ToSet
<1>3. ASSUME s # <<>>
      PROVE  /\ Front(s) \in Seq(Plugins) /\ Len(Front(s)) = Len(s) - 1
             /\ Last(s) \in Plugins /\ ToSet(s) = ToSet(Front(s)) \cup {Last(s)}
  <2>1. Len(s) \in Nat \ {0} /\ Len(s) - 1 \in Nat
    BY <1>3
  <2>2. Front(s) = [i \in 1 .. Len(s) - 1 |-> s[i]]
    BY <2>1 DEF Front
  <2>3. Front(s) \in Seq(Plugins) /\ Len(Front(s)) = Len(s) - 1 /\ Last(s) \in Plugins
    BY <2>1, <2>2 DEF Last
  <2>4. DOMAIN s = 1 .. Len(s) /\ DOMAIN Front(s) = 1 .. Len(s) - 1 /\ \A i \in 1 .. Len(s) - 1 : Front(s)[i] = s[i]
    BY <2>1, <2>2
  <2>5. \A i : i \in 1 .. Len(s) <=> i \in 1 .. Len(s) - 1 \/ i = Len(s)
    BY <2>1
  <2> QED BY <2>3, <2>4, <2>5 DEF ToSet, Last
<1> QED BY <1>1, <1>2, <1>3

\* Nobody is called, or one is.
LEMMA FirstCall ==
    /\ \A s : s = <<>> => s \in Seq(Plugins) /\ Len(s) <= RecursionLimit /\ ToSet(s) = {}
    /\ \A p \in Plugins : \A s : s = <<p>> => s \in Seq(Plugins) /\ Len(s) <= RecursionLimit /\ ToSet(s) = {p}
<1>1. RecursionLimit \in Nat \ {0}
  BY PluginsAssumption, FS_CardinalityType
<1>2. \A s : s = <<>> => s \in Seq(Plugins) /\ Len(s) <= RecursionLimit /\ ToSet(s) = {}
  BY <1>1 DEF ToSet
<1>3. ASSUME NEW p \in Plugins, NEW s, s = <<p>>
      PROVE  s \in Seq(Plugins) /\ Len(s) <= RecursionLimit /\ ToSet(s) = {p}
  <2>1. s \in Seq(Plugins) /\ Len(s) = 1 /\ DOMAIN s = {1} /\ s[1] = p
    BY <1>3
  <2> QED BY <1>1, <2>1 DEF ToSet
<1> QED BY <1>2, <1>3

\* What a failure leaves of the callers.
LEMMA BrokenWell ==
    ASSUME state \in [Plugins -> States], stack \in Seq(Plugins), NEW also
    PROVE  /\ Broken(also) \in [Plugins -> States]
           /\ \A p \in Plugins : Broken(also)[p] = IF p \in ToSet(stack) \cup also THEN "error" ELSE state[p]
BY DEF Broken, States, Contains, ToSet

------------------------------------------------------------------------------
LEMMA TypedInit == Init => Typed
<1> SUFFICES ASSUME Init PROVE Typed
  OBVIOUS
<1>1. /\ stack \in Seq(Plugins) /\ hooks \in Seq(Hook) /\ owners \in Seq(Hook) /\ ToSet(stack) = {}
      /\ Len(stack) <= RecursionLimit
  BY PluginsAssumption, FS_CardinalityType DEF Init, ToSet
<1>2. pass \in [Passes -> [at : Nat \ {0}, called : Seq(Hook)]]
  <2>1. <<>> \in Seq(Hook) /\ 1 \in Nat \ {0}
    OBVIOUS
  <2> QED BY <2>1 DEF Init
<1>3. state \in [Plugins -> States]
  BY DEF Init, States
<1> QED
  BY <1>1, <1>2, <1>3 DEF Init, Typed, TypeOK, Directories, Known, Idle

LEMMA DiscoverTyped == ASSUME Typed, Discover PROVE Typed'
<1> USE DEF Typed, TypeOK
<1>1. \A p \in Plugins : state[p] # "unknown" => manifest[p] # Absent
  BY DEF Known
<1>2. /\ state' \in [Plugins -> States] /\ manifest' \in Directories
      /\ \A p \in Plugins : state'[p] # "unknown" => manifest'[p] # Absent
  BY <1>1, DiscoveredWell DEF Discover
<1> QED
  BY <1>2 DEF Discover, Begin, Answer, Idle, Known, disk, ToSet

LEMMA EnableRequestTyped ==
    ASSUME Typed, NEW p \in Plugins, NEW importable \in BOOLEAN, EnableRequest(p, importable)
    PROVE  Typed'
<1> USE DEF Typed, TypeOK
<1>1. state' \in [Plugins -> States] /\ \A q \in Plugins : Known(q)' <=> Known(q)
  BY DEF EnableRequest, Known, States
<1>2. /\ stack' \in Seq(Plugins) /\ Len(stack') <= RecursionLimit
      /\ \A q \in ToSet(stack') : q = p
  <2>1. stack' = <<>> \/ stack' = <<p>>
    BY DEF EnableRequest, Begin, Idle
  <2> QED BY <2>1, FirstCall
<1> QED
  BY <1>1, <1>2 DEF EnableRequest, Begin, Answer, Idle, Known, disk

LEMMA DescendTyped ==
    ASSUME Typed, NEW importable \in BOOLEAN, Descend(importable)
    PROVE  Typed'
<1> USE DEF Typed, TypeOK
<1> DEFINE d == Head(Missing(Top))
<1>1. Top \in Plugins /\ Top \in ToSet(stack) /\ manifest[Top] # Absent
  BY DEF Descend, Top, Last, ToSet, Known
<1>2. d \in Plugins /\ Known(d)
  BY <1>1, MissingWell DEF Descend
<1> HIDE DEF d
<1>3. state' \in [Plugins -> States] /\ \A q \in Plugins : Known(q)' <=> Known(q)
  <2>1. state \in [Plugins -> States] /\ stack \in Seq(Plugins) /\ \A q \in ToSet(stack) : Known(q)
    OBVIOUS
  <2>2. state' = state \/ state' = [state EXCEPT ![d] = "loaded"] \/ state' = Broken({d})
    BY DEF Descend, d
  <2>3. CASE state' = Broken({d})
    <3>1. state' \in [Plugins -> States] /\ \A q \in Plugins : state'[q] = IF q \in ToSet(stack) \cup {d} THEN "error" ELSE state[q]
      BY <2>1, <2>3, BrokenWell
    <3> QED BY <1>2, <2>1, <3>1 DEF Known
  <2>4. CASE state' = [state EXCEPT ![d] = "loaded"]
    BY <1>2, <2>4 DEF Known, States
  <2> QED BY <2>2, <2>3, <2>4 DEF Known
<1>4. /\ stack' \in Seq(Plugins) /\ Len(stack') <= RecursionLimit
      /\ \A q \in ToSet(stack') : q = d \/ q \in ToSet(stack)
  <2>1. stack \in Seq(Plugins) /\ Len(stack) < RecursionLimit /\ RecursionLimit \in Nat
    BY PluginsAssumption DEF Descend
  <2>2. stack' = <<>> \/ stack' = Append(stack, d)
    BY DEF Descend, d, Return
  <2>3. CASE stack' = <<>>
    BY <2>3, FirstCall
  <2>4. CASE stack' = Append(stack, d)
    <3>1. /\ stack' \in Seq(Plugins) /\ Len(stack') = Len(stack) + 1 /\ Len(stack) \in Nat
          /\ ToSet(stack') = ToSet(stack) \cup {d}
      BY <1>2, <2>1, <2>4, Calls
    <3> QED BY <2>1, <3>1
  <2> QED BY <2>2, <2>3, <2>4
<1>5. \A q \in ToSet(stack') \cup queue' : Known(q)'
  <2>1. ToSet(stack) \cup queue \subseteq Plugins /\ queue' = queue
    BY Calls DEF Descend
  <2> QED BY <1>2, <1>3, <1>4, <2>1
<1>6. status' \in {"running", "ok", "failed"} /\ (status' # "running" => stack' = <<>> /\ queue' = {})
  BY DEF Descend, Return, Answer, Idle
<1>7. \A q \in Plugins : Known(q)' => manifest'[q] # Absent
  BY <1>3 DEF Descend
<1> QED
  BY <1>3, <1>4, <1>5, <1>6, <1>7 DEF Descend, Idle, disk

LEMMA OverflowTyped == ASSUME Typed, Overflow PROVE Typed'
BY DEF Typed, TypeOK, Overflow, Known, Idle, ToSet, disk, manager

LEMMA ActivateTyped ==
    ASSUME Typed, NEW outcome \in Outcomes, Activate(outcome)
    PROVE  Typed'
<1> USE DEF Typed, TypeOK
<1>1. Top \in Plugins /\ Known(Top)
  BY Calls DEF Activate, Top
<1>2. state' \in [Plugins -> States] /\ \A q \in Plugins : Known(q)' <=> Known(q)
  <2>1. state \in [Plugins -> States] /\ stack \in Seq(Plugins) /\ \A q \in ToSet(stack) : Known(q)
    OBVIOUS
  <2>2. state' = [state EXCEPT ![Top] = "enabled"] \/ state' = Broken({})
    BY DEF Activate
  <2> QED BY <1>1, <2>1, <2>2, BrokenWell DEF Known, States
<1>3. /\ stack' \in Seq(Plugins) /\ Len(stack') <= RecursionLimit
      /\ \A q \in ToSet(stack') : q \in ToSet(stack)
  <2>1. stack \in Seq(Plugins) /\ Len(stack) <= RecursionLimit /\ RecursionLimit \in Nat /\ stack # <<>>
    BY PluginsAssumption DEF Activate
  <2>2. stack' = <<>> \/ stack' = Front(stack)
    BY DEF Activate, Return
  <2> QED BY <2>1, <2>2, Calls, FirstCall
<1>4. hooks' \in Seq(Hook) /\ owners' \in Seq(Hook) /\ made' \in Nat
  <2> DEFINE hook == [plugin |-> Top, made |-> made]
  <2>1. hooks \in Seq(Hook) /\ owners \in Seq(Hook) /\ made \in Nat /\ hook \in Hook
    BY <1>1 DEF Hook
  <2>2. \/ hooks' = hooks /\ owners' = owners /\ made' = made
        \/ hooks' = Append(hooks, hook) /\ owners' = Append(owners, hook) /\ made' = made + 1
    BY DEF Activate
  <2> HIDE DEF hook
  <2>3. Append(hooks, hook) \in Seq(Hook) /\ Append(owners, hook) \in Seq(Hook)
    BY <2>1
  <2>4. made + 1 \in Nat
    BY <2>1
  <2> QED BY <2>1, <2>2, <2>3, <2>4
<1>5. \A q \in ToSet(stack') \cup queue' : Known(q)'
  <2>1. ToSet(stack) \cup queue \subseteq Plugins /\ queue' = queue
    BY Calls DEF Activate
  <2> QED BY <1>2, <1>3, <2>1
<1>6. status' \in {"running", "ok", "failed"} /\ (status' # "running" => stack' = <<>> /\ queue' = {})
  BY DEF Activate, Return, Answer, Idle
<1>7. \A q \in Plugins : Known(q)' => manifest'[q] # Absent
  BY <1>2 DEF Activate
<1> QED
  BY <1>2, <1>3, <1>4, <1>5, <1>6, <1>7 DEF Activate, Idle, disk

LEMMA DisableRequestTyped ==
    ASSUME Typed, NEW p \in Plugins, DisableRequest(p)
    PROVE  Typed'
<1> USE DEF Typed, TypeOK
<1>1. state' \in [Plugins -> States] /\ \A q \in Plugins : Known(q)' <=> Known(q)
  BY DEF DisableRequest, Known, States
<1>2. hooks' \in Seq(Hook) /\ owners' \in Seq(Hook)
  BY RemoveWell DEF DisableRequest
<1> QED
  BY <1>1, <1>2 DEF DisableRequest, Begin, Answer, Idle, Known, disk, ToSet

LEMMA ReloadRequestTyped ==
    ASSUME Typed, NEW p \in Plugins, NEW importable \in BOOLEAN, ReloadRequest(p, importable)
    PROVE  Typed'
<1> USE DEF Typed, TypeOK
<1> DEFINE unloaded == IF Known(p) THEN [state EXCEPT ![p] = "unloaded"] ELSE state
           known == Discovered(unloaded)
<1>1. unloaded \in [Plugins -> States] /\ \A q \in Plugins : unloaded[q] # "unknown" => manifest[q] # Absent
  BY DEF Known, States
<1>2. /\ known \in [Plugins -> States] /\ Manifested(unloaded) \in Directories
      /\ \A q \in Plugins : known[q] # "unknown" => Manifested(unloaded)[q] # Absent
  <2> HIDE DEF unloaded
  <2> QED BY <1>1, DiscoveredWell
<1>3. hooks' \in Seq(Hook) /\ owners' \in Seq(Hook)
  BY RemoveWell DEF ReloadRequest
<1>4. manifest' = Manifested(unloaded)
  BY DEF ReloadRequest
<1> HIDE DEF known
<1>5. /\ state' \in [Plugins -> States] /\ \A q \in Plugins : state'[q] # "unknown" => known[q] # "unknown"
      /\ stack' = <<>> \/ (stack' = <<p>> /\ status' = "running" /\ state'[p] # "unknown")
  <2>1. stack = <<>> /\ state' \in {known, [known EXCEPT ![p] = "loaded"], [known EXCEPT ![p] = "error"]}
    BY DEF ReloadRequest, Begin, Idle, known
  <2>2. known[p] = "unknown" => state' = known
    BY DEF ReloadRequest, known
  <2>3. stack' = stack \/ (stack' = <<p>> /\ status' = "running" /\ known[p] # "unknown")
    BY DEF ReloadRequest, known
  <2>4. state' \in [Plugins -> States] /\ \A q \in Plugins : state'[q] # "unknown" <=> known[q] # "unknown"
    BY <1>2, <2>1, <2>2 DEF States
  <2> QED BY <2>1, <2>3, <2>4
<1>6. /\ stack' \in Seq(Plugins) /\ Len(stack') <= RecursionLimit
      /\ \A q \in ToSet(stack') : q = p /\ state'[p] # "unknown"
  BY <1>5, FirstCall
<1>7. /\ \A q \in Plugins : Known(q)' => manifest'[q] # Absent
      /\ queue' = {} /\ \A q \in ToSet(stack') : Known(q)'
  BY <1>2, <1>4, <1>5, <1>6 DEF ReloadRequest, Begin, Idle, Known
<1>8. status' \in {"running", "ok", "failed"} /\ (status' # "running" => stack' = <<>>)
  BY <1>5 DEF ReloadRequest, Begin, Answer, Idle
<1>9. request'.op # "restore" /\ requests' \in Nat
  BY DEF ReloadRequest, Begin
<1> QED
  BY <1>2, <1>3, <1>4, <1>5, <1>6, <1>7, <1>8, <1>9 DEF ReloadRequest, Idle, disk

LEMMA SnapshotsTyped ==
    ASSUME Typed
    PROVE  /\ SaveSnapshot => Typed'
           /\ \A s \in snapshots : DeleteSnapshot(s) => Typed'
           /\ \A p \in Plugins, value \in Settings : UpdatePluginConfig(p, value) => Typed'
           /\ \A p \in Plugins : \A c \in Manifests[p] \cup {Absent} : ChangeDirectory(p, c) => Typed'
<1> USE DEF Typed, TypeOK, Begin, Answer, Idle, Known, disk, manager, ToSet
<1>1. ASSUME SaveSnapshot PROVE Typed'
  <2>1. snapshots' \subseteq Snapshot
    BY <1>1 DEF SaveSnapshot, Snapshot, With
  <2> QED BY <1>1, <2>1 DEF SaveSnapshot
<1>2. ASSUME NEW s \in snapshots, DeleteSnapshot(s) PROVE Typed'
  BY <1>2 DEF DeleteSnapshot
<1>3. ASSUME NEW p \in Plugins, NEW value \in Settings, UpdatePluginConfig(p, value) PROVE Typed'
  BY <1>3 DEF UpdatePluginConfig
<1>4. ASSUME NEW p \in Plugins, NEW c \in Manifests[p] \cup {Absent}, ChangeDirectory(p, c) PROVE Typed'
  <2>1. directory' \in Directories
    <3>1. directory' = [directory EXCEPT ![p] = c] /\ directory \in Directories
      BY <1>4 DEF ChangeDirectory
    <3>2. c \in {Absent} \cup UNION {Manifests[q] : q \in Plugins}
      OBVIOUS
    <3> HIDE DEF Typed, TypeOK
    <3> QED BY <3>1, <3>2 DEF Directories
  <2> QED BY <1>4, <2>1 DEF ChangeDirectory
<1> QED BY <1>1, <1>2, <1>3, <1>4

LEMMA RestoreRequestTyped ==
    ASSUME Typed, NEW s \in snapshots, RestoreRequest(s)
    PROVE  Typed'
<1> USE DEF Typed, TypeOK
<1> DEFINE off == [p \in Plugins |-> IF state[p] = "enabled" THEN "disabled" ELSE state[p]]
<1>1. off \in [Plugins -> States] /\ \A p \in Plugins : off[p] # "unknown" => manifest[p] # Absent
  BY DEF Known, States
<1>2. state' = Discovered(off) /\ manifest' = Manifested(off)
  BY DEF RestoreRequest
<1> HIDE DEF off
<1>3. /\ state' \in [Plugins -> States] /\ manifest' \in Directories
      /\ \A p \in Plugins : state'[p] # "unknown" => manifest'[p] # Absent
  BY <1>1, <1>2, DiscoveredWell
<1>4. hooks' \in Seq(Hook) /\ owners' \in Seq(Hook)
  BY RemoveWell DEF RestoreRequest
<1>5. s \in Snapshot /\ config' \in [Plugins -> Settings \cup {Unset}]
  BY DEF RestoreRequest, Snapshot
<1> QED
  BY <1>3, <1>4, <1>5 DEF RestoreRequest, Begin, Answer, Idle, Known, Snapshot, ToSet

LEMMA RestoreNextTyped ==
    ASSUME Typed, NEW p \in Plugins, NEW importable \in BOOLEAN, RestoreNext(p, importable)
    PROVE  Typed'
<1> USE DEF Typed, TypeOK
<1>1. state' \in [Plugins -> States] /\ \A q \in Plugins : Known(q)' <=> Known(q)
  BY DEF RestoreNext, Known, States
<1>2. /\ stack' \in Seq(Plugins) /\ Len(stack') <= RecursionLimit
      /\ \A q \in ToSet(stack') : q = p
  BY FirstCall DEF RestoreNext
<1> QED
  BY <1>1, <1>2 DEF RestoreNext, Idle, Known, disk

LEMMA RunHookTyped ==
    ASSUME Typed, NEW r \in Passes, RunHook(r)
    PROVE  Typed'
<1> USE DEF Typed, TypeOK
<1>1. pass' \in [Passes -> [at : Nat \ {0}, called : Seq(Hook)]]
  <2>1. pass[r].at \in Nat \ {0} /\ pass[r].called \in Seq(Hook)
    OBVIOUS
  <2>2. pass[r].at + 1 \in Nat \ {0}
    BY <2>1
  <2> DEFINE record == [at |-> pass[r].at + 1, called |-> Append(pass[r].called, hooks[pass[r].at])]
  <2>3. pass' = [pass EXCEPT ![r] = record]
    BY DEF RunHook
  <2>4. hooks[pass[r].at] \in Hook
    BY DEF RunHook
  <2>5. record \in [at : Nat \ {0}, called : Seq(Hook)]
    BY <2>1, <2>2, <2>4
  <2> HIDE DEF record
  <2> QED BY <2>3, <2>5
<1> QED
  BY <1>1 DEF RunHook, Idle, Known, disk, manager, serving, ToSet

------------------------------------------------------------------------------
(* Hooks.                                                                  *)

LEMMA HookFields ==
    ASSUME NEW list \in Seq(Hook), NEW i \in DOMAIN list
    PROVE  list[i] \in Hook /\ list[i].plugin \in Plugins /\ list[i].made \in Nat
<1>1. list[i] \in Hook
  OBVIOUS
<1> QED BY <1>1 DEF Hook

\* The list stays, and nobody is newly disabled.
LEMMA HooksStand ==
    ASSUME Typed, Accounted, UNCHANGED <<hooks, owners, made, pass>>,
           \A p \in Plugins : state'[p] = "disabled" => state[p] = "disabled"
    PROVE  Accounted'
<1>1. \A i \in DOMAIN hooks : hooks[i].plugin \in Plugins
  BY HookFields DEF Typed, TypeOK
<1> QED
  BY <1>1 DEF Accounted, HooksAccounted, HooksOwned, CalledOnceInOrder, Ordered

\* Hooks of plugins that are disabled go.
LEMMA HooksGo ==
    ASSUME Typed, Accounted, NEW plugins, RemovePluginHooks(plugins), UNCHANGED <<made, pass>>,
           \A p \in Plugins : state'[p] = "disabled" => state[p] = "disabled" \/ p \in plugins
    PROVE  Accounted'
<1>1. hooks \in Seq(Hook) /\ owners \in Seq(Hook)
  BY DEF Typed, TypeOK
<1>2. PICK e \in [DOMAIN hooks' -> DOMAIN hooks] :
          /\ \A k \in DOMAIN hooks' : hooks'[k] = hooks[e[k]] /\ k <= e[k]
          /\ \A k, l \in DOMAIN hooks' : k < l => e[k] < e[l]
  BY <1>1, RemoveWell
<1>3. /\ ToSet(owners') = ToSet(owners) \ Of(owners, plugins)
      /\ ToSet(hooks') = ToSet(hooks) \ Of(owners, plugins)
  BY <1>1, RemoveWell
<1>4. HooksOwned'
  <2>1. ToSet(hooks) \subseteq ToSet(owners) /\ \A i \in DOMAIN hooks : state[hooks[i].plugin] # "disabled"
    BY DEF Accounted, HooksAccounted, HooksOwned
  <2>2. ASSUME NEW i \in DOMAIN hooks' PROVE state'[hooks'[i].plugin] # "disabled"
    <3>1. hooks'[i] = hooks[e[i]] /\ e[i] \in DOMAIN hooks /\ hooks[e[i]] \in Hook
      BY <1>1, <1>2
    <3>2. hooks'[i] \in ToSet(hooks') /\ hooks'[i].plugin \in Plugins
      BY <3>1 DEF ToSet, Hook
    <3>3. hooks'[i].plugin \notin plugins
      BY <1>3, <2>1, <3>2 DEF Of
    <3> QED BY <2>1, <3>1, <3>2, <3>3
  <2>3. ToSet(hooks') \subseteq ToSet(owners')
    BY <1>3, <2>1
  <2> QED BY <2>2, <2>3 DEF HooksOwned
<1>5. Ordered'
  <2>1. /\ \A k \in DOMAIN hooks' : k \in Int /\ e[k] \in Int
        /\ \A k \in DOMAIN hooks' : hooks'[k] = hooks[e[k]] /\ e[k] \in DOMAIN hooks
        /\ \A r \in Passes : pass[r].at \in Nat
    <3>1. hooks' \in Seq(Hook)
      BY <1>1, RemoveWell
    <3> QED BY <1>1, <1>2, <3>1 DEF Typed, TypeOK
  <2>2. \A r \in Passes : \A k \in DOMAIN hooks' : pass[r].at <= k => pass[r].at <= e[k]
    BY <1>2, <2>1
  <2> QED BY <1>2, <2>1, <2>2 DEF Accounted, Ordered
<1>6. CalledOnceInOrder'
  BY DEF Accounted, HooksAccounted, CalledOnceInOrder
<1> QED
  BY <1>4, <1>5, <1>6 DEF Accounted, HooksAccounted

\* A plugin that is activated registers a hook.
LEMMA HookComes ==
    ASSUME Typed, Accounted, NEW outcome \in Outcomes, Activate(outcome)
    PROVE  Accounted'
<1> DEFINE hook == [plugin |-> Top, made |-> made]
<1>1. hooks \in Seq(Hook) /\ owners \in Seq(Hook) /\ made \in Nat /\ stack \in Seq(Plugins) /\ stack # <<>>
  BY DEF Typed, TypeOK, Activate
<1>2. hook \in Hook /\ Top \in Plugins
  BY <1>1, Calls DEF Hook, Top
<1>3. \A p \in Plugins : state'[p] = "disabled" => state[p] = "disabled" /\ p # Top
  <2>1. state' = [state EXCEPT ![Top] = "enabled"] \/ state' = Broken({})
    BY DEF Activate
  <2>2. state \in [Plugins -> States] /\ Top \in ToSet(stack)
    BY <1>1, Calls DEF Typed, TypeOK, Top
  <2> QED BY <1>1, <1>2, <2>1, <2>2, BrokenWell
<1>4. CASE UNCHANGED <<hooks, owners, made>>
  BY <1>3, <1>4, HooksStand DEF Activate
<1>5. CASE hooks' = Append(hooks, hook) /\ owners' = Append(owners, hook) /\ made' = made + 1
  <2> HIDE DEF hook
  <2>1. /\ DOMAIN hooks' = DOMAIN hooks \cup {Len(hooks) + 1} /\ DOMAIN hooks = 1 .. Len(hooks) /\ Len(hooks) \in Nat
        /\ \A i \in DOMAIN hooks : hooks'[i] = hooks[i]
        /\ hooks'[Len(hooks) + 1] = hook
    BY <1>1, <1>2, <1>5
  <2>2. /\ DOMAIN owners' = DOMAIN owners \cup {Len(owners) + 1}
        /\ \A i \in DOMAIN owners : owners'[i] = owners[i]
        /\ owners'[Len(owners) + 1] = hook
    BY <1>1, <1>2, <1>5
  <2>3. hook.made = made /\ hook.plugin = Top /\ state'[Top] # "disabled"
    BY <1>2, <1>3 DEF hook
  <2>4. \A i \in DOMAIN hooks : hooks[i].plugin \in Plugins /\ hooks[i].made \in Nat
    BY <1>1, HookFields
  <2>5. HooksOwned'
    <3>1. ToSet(hooks') \subseteq ToSet(owners')
      BY <2>1, <2>2 DEF ToSet, Accounted, HooksAccounted, HooksOwned
    <3>2. \A i \in DOMAIN hooks' : state'[hooks'[i].plugin] # "disabled"
      BY <1>3, <2>1, <2>3, <2>4 DEF Accounted, HooksAccounted, HooksOwned
    <3> QED BY <3>1, <3>2 DEF HooksOwned
  <2>6. pass' = pass /\ \A r \in Passes : \A i \in DOMAIN pass[r].called : pass[r].called[i].made \in Nat
    <3>1. \A r \in Passes : pass[r].called \in Seq(Hook)
      BY DEF Typed, TypeOK
    <3> QED BY <3>1, HookFields DEF Activate
  <2>7. Ordered'
    <3>1. \A i \in DOMAIN hooks' : hooks'[i].made < made'
      BY <1>1, <1>5, <2>1, <2>3, <2>4 DEF Accounted, Ordered
    <3>2. \A i, j \in DOMAIN hooks' : i < j => hooks'[i].made < hooks'[j].made
      BY <2>1, <2>3 DEF Accounted, Ordered
    <3>3. ASSUME NEW r \in Passes, NEW i \in DOMAIN pass'[r].called
          PROVE  /\ pass'[r].called[i].made < made'
                 /\ \A k \in DOMAIN hooks' : pass'[r].at <= k => pass'[r].called[i].made < hooks'[k].made
      BY <1>1, <1>5, <2>1, <2>3, <2>6, <3>3 DEF Accounted, Ordered
    <3> QED BY <3>1, <3>2, <3>3 DEF Ordered
  <2>8. CalledOnceInOrder'
    BY <2>6 DEF Accounted, HooksAccounted, CalledOnceInOrder
  <2> QED BY <2>5, <2>7, <2>8 DEF Accounted, HooksAccounted
<1> QED
  BY <1>4, <1>5 DEF Activate

\* A run of the hook point calls the next hook.
LEMMA HookRuns ==
    ASSUME Typed, Accounted, NEW r \in Passes, RunHook(r)
    PROVE  Accounted'
<1> DEFINE at == pass[r].at
           called == pass[r].called
<1>1. /\ hooks \in Seq(Hook) /\ at \in Nat \ {0} /\ called \in Seq(Hook) /\ at \in DOMAIN hooks
      /\ pass \in [Passes -> [at : Nat \ {0}, called : Seq(Hook)]]
  BY DEF Typed, TypeOK, RunHook
<1>2. /\ pass'[r].at = at + 1 /\ pass'[r].called = Append(called, hooks[at])
      /\ \A q \in Passes : q # r => pass'[q] = pass[q]
      /\ UNCHANGED <<hooks, owners, made, state>>
  BY <1>1 DEF RunHook, manager
<1>3. /\ DOMAIN pass'[r].called = DOMAIN called \cup {Len(called) + 1}
      /\ DOMAIN called = 1 .. Len(called) /\ Len(called) \in Nat
      /\ \A i \in DOMAIN called : pass'[r].called[i] = called[i]
      /\ pass'[r].called[Len(called) + 1] = hooks[at]
  <2> HIDE DEF at, called
  <2>1. hooks[at] \in Hook
    BY <1>1
  <2> QED BY <1>1, <1>2, <2>1
<1>4. /\ \A i \in DOMAIN hooks : hooks[i].made < made /\ i \in Nat /\ hooks[i].made \in Nat
      /\ \A i, j \in DOMAIN hooks : i < j => hooks[i].made < hooks[j].made
      /\ \A i \in DOMAIN called : /\ called[i].made < made
                                  /\ \A k \in DOMAIN hooks : at <= k => called[i].made < hooks[k].made
  BY <1>1, HookFields DEF Accounted, Ordered
<1> HIDE DEF at, called
<1>5. CalledOnceInOrder'
  <2> SUFFICES ASSUME NEW q \in Passes, NEW i \in DOMAIN pass'[q].called, NEW j \in DOMAIN pass'[q].called, i < j
               PROVE  pass'[q].called[i].made < pass'[q].called[j].made
    BY DEF CalledOnceInOrder
  <2>1. CASE q # r
    BY <1>2, <2>1 DEF Accounted, HooksAccounted, CalledOnceInOrder
  <2>2. CASE q = r
    <3>1. i \in DOMAIN called
      BY <1>3, <2>2
    <3>2. CASE j \in DOMAIN called
      BY <1>3, <2>2, <3>1, <3>2 DEF Accounted, HooksAccounted, CalledOnceInOrder, called
    <3>3. CASE j = Len(called) + 1
      BY <1>1, <1>3, <1>4, <2>2, <3>1, <3>3
    <3> QED BY <1>3, <2>2, <3>2, <3>3
  <2> QED BY <2>1, <2>2
<1>6. Ordered'
  <2>1. ASSUME NEW q \in Passes, NEW i \in DOMAIN pass'[q].called
        PROVE  /\ pass'[q].called[i].made < made
               /\ \A k \in DOMAIN hooks : pass'[q].at <= k => pass'[q].called[i].made < hooks[k].made
    <3>1. CASE q # r
      BY <1>2, <2>1, <3>1 DEF Accounted, Ordered
    <3>2. CASE q = r
      <4>1. \A k \in DOMAIN hooks : at + 1 <= k => at < k /\ at <= k
        BY <1>1
      <4>2. CASE i \in DOMAIN called
        BY <1>2, <1>3, <1>4, <3>2, <4>1, <4>2
      <4>3. CASE i = Len(called) + 1
        BY <1>1, <1>2, <1>3, <1>4, <3>2, <4>1, <4>3
      <4> QED BY <1>3, <2>1, <3>2, <4>2, <4>3
    <3> QED BY <3>1, <3>2
  <2> QED BY <1>2, <2>1 DEF Accounted, Ordered
<1>7. HooksOwned'
  BY <1>2 DEF Accounted, HooksAccounted, HooksOwned
<1> QED
  BY <1>5, <1>6, <1>7 DEF Accounted, HooksAccounted

------------------------------------------------------------------------------
(* Snapshots.                                                              *)

Closed(plugins, needs) == \A p \in plugins : needs[p] \subseteq plugins

\* The closure has the plugins and all they depend on: it grows at each round
\* until it is closed, and there are as many rounds as plugins.
LEMMA ClosureWell ==
    ASSUME NEW P \in SUBSET Plugins, NEW needs \in [Plugins -> SUBSET Plugins]
    PROVE  P \subseteq Closure(P, needs) /\ Closed(Closure(P, needs), needs)
<1> DEFINE N == Cardinality(Plugins)
           T == SUBSET Plugins
           Grown(S) == S \cup UNION {needs[p] : p \in S}
           step == [q \in T \X (1 .. N) |-> Grown(q[1])]
           Unfolded(f) == [n \in 0 .. N |-> IF n = 0 THEN P ELSE Grown(f[n - 1])]
           Within == CHOOSE f : f = Unfolded(f)
<1>1. IsFiniteSet(Plugins) /\ N \in Nat
  BY PluginsAssumption, FS_CardinalityType
<1>2. step \in [T \X (1 .. N) -> T] /\ \A S \in T, n \in 1 .. N : step[<<S, n>>] = Grown(S)
  OBVIOUS
<1>3. PICK f \in Runs(N, T, P, step) : TRUE
  <2>1. Runs(N, T, P, step) # {}
    <3> HIDE DEF N, T, step
    <3>1. P \in T
      BY DEF T
    <3> QED BY <1>1, <1>2, <3>1, RunExists
  <2> QED BY <2>1
<1>4. f = Unfolded(f)
  <2>1. f \in [0 .. N -> T] /\ f[0] = P /\ \A i \in 1 .. N : f[i] = step[<<f[i - 1], i>>]
    BY <1>3 DEF Runs
  <2>2. \A i \in 0 .. N : i # 0 => i \in 1 .. N /\ i - 1 \in 0 .. N
    BY <1>1
  <2> HIDE DEF N, T, step, Grown
  <2>3. \A i \in 0 .. N : f[i] = IF i = 0 THEN P ELSE Grown(f[i - 1])
    BY <1>2, <2>1, <2>2
  <2> QED BY <2>1, <2>3
<1>5. Within = Unfolded(Within)
  <2> HIDE DEF Unfolded
  <2> QED BY <1>4
<1>6. Closure(P, needs) = Within[N]
  BY DEF Closure
<1> HIDE DEF Within
<1>7. Within[0] = P /\ \A n \in 1 .. N : Within[n] = Grown(Within[n - 1])
  <2> HIDE DEF Grown
  <2> QED BY <1>1, <1>5
<1> DEFINE Good == {n \in 0 .. N : /\ Within[n] \in T /\ P \subseteq Within[n]
                                   /\ Cardinality(Within[n]) >= n \/ Closed(Within[n], needs)}
<1>8. 0 \in Good
  <2>1. Cardinality(P) \in Nat
    BY <1>1, FS_Subset, FS_CardinalityType
  <2> QED BY <1>1, <1>7, <2>1
<1>9. ASSUME NEW n \in 1 .. N, n - 1 \in Good PROVE n \in Good
  <2> DEFINE W == Within[n - 1]
  <2>1. W \in T /\ P \subseteq W /\ (Cardinality(W) >= n - 1 \/ Closed(W, needs)) /\ n \in 0 .. N /\ Within[n] = Grown(W)
    BY <1>1, <1>7, <1>9
  <2> HIDE DEF W
  <2>2. Grown(W) \in T /\ W \subseteq Grown(W)
    BY <2>1
  <2>3. CASE Closed(W, needs)
    <3>1. Grown(W) = W
      BY <2>3 DEF Closed
    <3> QED BY <2>1, <2>3, <3>1
  <2>4. CASE ~Closed(W, needs)
    <3>1. Grown(W) # W
      BY <2>4 DEF Closed
    <3>2. IsFiniteSet(Grown(W)) /\ IsFiniteSet(W)
      BY <1>1, <2>1, <2>2, FS_Subset
    <3>3. Cardinality(Grown(W)) \in Nat /\ Cardinality(W) \in Nat
      BY <3>2, FS_CardinalityType
    <3> HIDE DEF Grown
    <3>4. Cardinality(W) <= Cardinality(Grown(W)) /\ Cardinality(W) # Cardinality(Grown(W))
      BY <2>2, <3>1, <3>2, FS_Subset
    <3>5. Cardinality(Grown(W)) >= n
      BY <1>1, <2>1, <2>4, <3>3, <3>4
    <3> QED BY <2>1, <2>2, <3>5
  <2> QED BY <2>3, <2>4
<1>10. N \in Good
  <2> HIDE DEF Good, N
  <2>1. 0 .. N \subseteq Good
    BY <1>1, <1>8, <1>9, Induction
  <2> QED BY <1>1, <2>1
<1>11. Cardinality(Within[N]) >= N => Within[N] = Plugins
  <2>1. Within[N] \in SUBSET Plugins /\ Cardinality(Within[N]) <= Cardinality(Plugins) /\ Cardinality(Within[N]) \in Nat
    BY <1>1, <1>10, FS_Subset, FS_CardinalityType
  <2> QED BY <1>1, <2>1, FS_Subset
<1>12. Closed(Plugins, needs)
  BY DEF Closed
<1> QED
  BY <1>6, <1>10, <1>11, <1>12

\* Who needs whom.
LEMMA NeedsWell ==
    ASSUME Typed
    PROVE  /\ Needs \in [Plugins -> SUBSET Plugins]
           /\ \A p \in Plugins : Known(p) => Needs[p] = ToSet(manifest[p])
<1>1. \A p \in Plugins : Known(p) => ToSet(manifest[p]) \subseteq Plugins
  BY ManifestsAreLists, Calls DEF Typed, TypeOK
<1> QED BY <1>1 DEF Needs

\* Who is known and what they need stays while a request goes on.
LEMMA NeedsStay ==
    ASSUME UNCHANGED manifest, \A p \in Plugins : Known(p)' <=> Known(p)
    PROVE  Needs' = Needs
BY DEF Needs

LEMMA RestoreBegins ==
    ASSUME Typed, NEW s \in snapshots, RestoreRequest(s)
    PROVE  Restoring'
<1> DEFINE off == [p \in Plugins |-> IF state[p] = "enabled" THEN "disabled" ELSE state[p]]
<1>1. off \in [Plugins -> States] /\ \A p \in Plugins : off[p] # "unknown" => manifest[p] # Absent
  BY DEF Typed, TypeOK, Known, States
<1>2. state' = Discovered(off) /\ \A p \in Plugins : off[p] # "enabled"
  BY DEF RestoreRequest
<1> HIDE DEF off
<1>3. \A p \in Plugins : state'[p] # "enabled"
  BY <1>1, <1>2, DiscoveredWell DEF Typed, TypeOK
<1>4. With("enabled")' = {}
  BY <1>3 DEF With
<1>5. request' = [op |-> "restore", of |-> s] /\ stack' = <<>> /\ ToSet(stack') = {} /\ s \in Snapshot
  <2>1. stack' = <<>>
    BY DEF RestoreRequest, Begin, Idle, Typed, TypeOK
  <2> QED BY <2>1, FirstCall DEF RestoreRequest, Begin, Typed, TypeOK
<1>6. \A p \in s.enabled : Known(p)' => p \in queue'
  BY <1>5 DEF RestoreRequest, Known
<1>7. \A p \in Plugins : s.configs[p] # Unset => config'[p] = s.configs[p]
  BY DEF RestoreRequest
<1> QED BY <1>4, <1>5, <1>6, <1>7 DEF Restoring

LEMMA RestoreGoesOn ==
    ASSUME Typed, Restoring, NEW p \in Plugins, NEW importable \in BOOLEAN, RestoreNext(p, importable)
    PROVE  Restoring'
<1> SUFFICES ASSUME request.op = "restore" PROVE Restoring'
  BY DEF RestoreNext, Restoring
<1>1. /\ request' = request /\ config' = config /\ status = "running" /\ stack = <<>> /\ ToSet(stack) = {}
      /\ p \in queue /\ queue' = queue \ {p} /\ UNCHANGED manifest
  BY FirstCall DEF RestoreNext, Idle, disk, Typed, TypeOK
<1>2. /\ request.of \in Snapshot /\ p \in request.of.enabled /\ Known(p) /\ state \in [Plugins -> States]
      /\ request.of.enabled \in SUBSET Plugins
  BY <1>1 DEF Typed, TypeOK, Snapshot
<1>3. \/ state' = [state EXCEPT ![p] = "loaded"] /\ ToSet(stack') = {p}
      \/ state' = [state EXCEPT ![p] = IF state[p] = "enabled" THEN "enabled" ELSE "error"] /\ ToSet(stack') = {}
  <2>1. \/ state' = [state EXCEPT ![p] = "loaded"] /\ stack' = <<p>>
        \/ state' = [state EXCEPT ![p] = IF state[p] = "enabled" THEN "enabled" ELSE "error"] /\ stack' = stack
    BY DEF RestoreNext
  <2> QED BY <1>1, <2>1, FirstCall
<1>4. /\ \A q \in Plugins : Known(q)' <=> Known(q)
      /\ \A q \in Plugins : q # p => state'[q] = state[q]
      /\ p \in ToSet(stack') \/ state'[p] \in {"enabled", "error"}
      /\ ToSet(stack') \subseteq {p} /\ With("enabled")' \subseteq With("enabled") \cup {p}
  BY <1>2, <1>3 DEF Known, With
<1>5. p \in Closure(request.of.enabled, Needs)
  BY <1>2, NeedsWell, ClosureWell
<1>6. Needs' = Needs
  BY <1>1, <1>4, NeedsStay
<1>7. /\ \A q \in request.of.enabled : Known(q) => state[q] \in {"enabled", "error"} \/ q \in queue \cup ToSet(stack)
      /\ With("enabled") \cup ToSet(stack) \subseteq Closure(request.of.enabled, Needs)
      /\ \A q \in Plugins : request.of.configs[q] # Unset => config[q] = request.of.configs[q]
  BY <1>1 DEF Restoring
<1>8. \A q \in request.of.enabled : Known(q)' => state'[q] \in {"enabled", "error"} \/ q \in queue' \cup ToSet(stack')
  BY <1>1, <1>2, <1>4, <1>7
<1>9. With("enabled")' \cup ToSet(stack') \subseteq Closure(request.of.enabled, Needs)
  BY <1>4, <1>5, <1>7
<1> QED BY <1>1, <1>6, <1>7, <1>8, <1>9 DEF Restoring

LEMMA RestoreDescends ==
    ASSUME Typed, Restoring, NEW importable \in BOOLEAN, Descend(importable)
    PROVE  Restoring'
<1> DEFINE d == Head(Missing(Top))
<1> SUFFICES ASSUME request.op = "restore", status' # "failed" PROVE Restoring'
  BY DEF Descend, Restoring
<1>1. /\ request' = request /\ config' = config /\ queue' = queue /\ UNCHANGED manifest
      /\ status = "running" /\ stack # <<>> /\ Missing(Top) # <<>>
  BY DEF Descend, disk, Idle, Typed, TypeOK
<1>2. Top \in Plugins /\ Top \in ToSet(stack) /\ Known(Top) /\ manifest[Top] # Absent
  BY <1>1, Calls DEF Typed, TypeOK, Top
<1>3. d \in Plugins /\ Known(d) /\ d \in Needs[Top] /\ state[d] # "enabled"
  BY <1>1, <1>2, MissingWell, NeedsWell DEF Typed, TypeOK
<1>4. /\ state \in [Plugins -> States] /\ stack \in Seq(Plugins) /\ request.of.enabled \in SUBSET Plugins
      /\ \A q \in ToSet(stack) : q \in Plugins /\ Known(q)
  BY Calls DEF Typed, TypeOK, Snapshot
<1>5. /\ \A q \in request.of.enabled : Known(q) => state[q] \in {"enabled", "error"} \/ q \in queue \cup ToSet(stack)
      /\ With("enabled") \cup ToSet(stack) \subseteq Closure(request.of.enabled, Needs)
      /\ \A q \in Plugins : request.of.configs[q] # Unset => config[q] = request.of.configs[q]
  BY <1>1 DEF Restoring
<1>6. d \in Closure(request.of.enabled, Needs)
  BY <1>2, <1>3, <1>4, <1>5, NeedsWell, ClosureWell DEF Closed
<1> HIDE DEF d
<1>7. \/ (state' = state \/ state' = [state EXCEPT ![d] = "loaded"]) /\ ToSet(stack') = ToSet(stack) \cup {d}
      \/ /\ ToSet(stack') = {}
         /\ state' \in [Plugins -> States]
         /\ \A q \in Plugins : state'[q] = IF q \in ToSet(stack) \cup {d} THEN "error" ELSE state[q]
  <2>1. \/ (state' = state \/ state' = [state EXCEPT ![d] = "loaded"]) /\ stack' = Append(stack, d)
        \/ state' = Broken({d}) /\ stack' = <<>>
    BY DEF Descend, d, Return
  <2>2. CASE (state' = state \/ state' = [state EXCEPT ![d] = "loaded"]) /\ stack' = Append(stack, d)
    BY <1>3, <1>4, <2>2, Calls
  <2>3. CASE state' = Broken({d}) /\ stack' = <<>>
    BY <1>4, <2>3, BrokenWell, FirstCall
  <2> QED BY <2>1, <2>2, <2>3
<1>8. \A q \in Plugins : Known(q)' <=> Known(q)
  BY <1>3, <1>4, <1>7 DEF Known
<1>9. Needs' = Needs
  BY <1>1, <1>8, NeedsStay
<1>10. \A q \in request.of.enabled : Known(q)' => state'[q] \in {"enabled", "error"} \/ q \in queue' \cup ToSet(stack')
  BY <1>1, <1>3, <1>4, <1>5, <1>7, <1>8
<1>11. With("enabled")' \cup ToSet(stack') \subseteq Closure(request.of.enabled, Needs)
  <2>1. With("enabled")' \subseteq With("enabled") /\ ToSet(stack') \subseteq ToSet(stack) \cup {d}
    BY <1>3, <1>4, <1>7 DEF With
  <2> QED BY <1>5, <1>6, <2>1
<1> QED BY <1>1, <1>5, <1>9, <1>10, <1>11 DEF Restoring

LEMMA RestoreActivates ==
    ASSUME Typed, Restoring, NEW outcome \in Outcomes, Activate(outcome)
    PROVE  Restoring'
<1> SUFFICES ASSUME request.op = "restore", status' # "failed" PROVE Restoring'
  BY DEF Activate, Restoring
<1>1. /\ request' = request /\ config' = config /\ queue' = queue /\ UNCHANGED manifest
      /\ status = "running" /\ stack # <<>>
  BY DEF Activate, disk, Idle, Typed, TypeOK
<1>2. Top \in Plugins /\ Top \in ToSet(stack) /\ Known(Top)
  BY <1>1, Calls DEF Typed, TypeOK, Top
<1>3. /\ state \in [Plugins -> States] /\ stack \in Seq(Plugins) /\ request.of.enabled \in SUBSET Plugins
      /\ \A q \in ToSet(stack) : q \in Plugins /\ Known(q)
  BY Calls DEF Typed, TypeOK, Snapshot
<1>4. /\ \A q \in request.of.enabled : Known(q) => state[q] \in {"enabled", "error"} \/ q \in queue \cup ToSet(stack)
      /\ With("enabled") \cup ToSet(stack) \subseteq Closure(request.of.enabled, Needs)
      /\ \A q \in Plugins : request.of.configs[q] # Unset => config[q] = request.of.configs[q]
  BY <1>1 DEF Restoring
<1>5. \/ /\ state' = [state EXCEPT ![Top] = "enabled"]
         /\ ToSet(stack') \subseteq ToSet(stack) /\ ToSet(stack) \subseteq ToSet(stack') \cup {Top}
      \/ /\ ToSet(stack') = {}
         /\ state' \in [Plugins -> States]
         /\ \A q \in Plugins : state'[q] = IF q \in ToSet(stack) THEN "error" ELSE state[q]
  <2>1. \/ state' = [state EXCEPT ![Top] = "enabled"] /\ stack' = Front(stack)
        \/ state' = [state EXCEPT ![Top] = "enabled"] /\ stack' = <<>> /\ Len(stack) <= 1
        \/ state' = Broken({}) /\ stack' = <<>>
    BY <1>3 DEF Activate, Return
  <2>2. CASE state' = [state EXCEPT ![Top] = "enabled"] /\ stack' = Front(stack)
    BY <1>1, <1>3, <2>2, Calls DEF Top
  <2>3. CASE state' = [state EXCEPT ![Top] = "enabled"] /\ stack' = <<>> /\ Len(stack) <= 1
    <3>1. Front(stack) \in Seq(Plugins) /\ Len(Front(stack)) = 0 /\ ToSet(stack) = ToSet(Front(stack)) \cup {Top}
      BY <1>1, <1>3, <2>3, Calls DEF Top
    <3>2. Front(stack) = <<>>
      BY <3>1
    <3> QED BY <2>3, <3>1, <3>2, FirstCall
  <2>4. CASE state' = Broken({}) /\ stack' = <<>>
    BY <1>3, <2>4, BrokenWell, FirstCall
  <2> QED BY <2>1, <2>2, <2>3, <2>4
<1>6. \A q \in Plugins : Known(q)' <=> Known(q)
  BY <1>2, <1>3, <1>5 DEF Known
<1>7. Needs' = Needs
  BY <1>1, <1>6, NeedsStay
<1>8. \A q \in request.of.enabled : Known(q)' => state'[q] \in {"enabled", "error"} \/ q \in queue' \cup ToSet(stack')
  BY <1>1, <1>2, <1>3, <1>4, <1>5, <1>6
<1>9. With("enabled")' \cup ToSet(stack') \subseteq Closure(request.of.enabled, Needs)
  <2>1. With("enabled")' \subseteq With("enabled") \cup {Top} /\ ToSet(stack') \subseteq ToSet(stack)
    BY <1>2, <1>3, <1>5 DEF With
  <2> QED BY <1>2, <1>4, <2>1
<1> QED BY <1>1, <1>4, <1>7, <1>8, <1>9 DEF Restoring

------------------------------------------------------------------------------
(* Together.                                                               *)

Inv == Typed /\ Accounted /\ Restoring

LEMMA InitInv == Init => Inv
<1> SUFFICES ASSUME Init PROVE Inv
  OBVIOUS
<1>1. Accounted
  BY DEF Init, Accounted, HooksAccounted, HooksOwned, CalledOnceInOrder, Ordered, ToSet
<1>2. Restoring
  BY DEF Init, Restoring
<1> QED BY <1>1, <1>2, TypedInit DEF Inv

LEMMA ServeStep == ASSUME Inv, Serve PROVE Inv'
<1> USE DEF Inv
<1>1. Typed /\ state \in [Plugins -> States]
  BY DEF Typed, TypeOK
<1>2. CASE Discover
  <2>1. \A p \in Plugins : state'[p] = "disabled" => state[p] = "disabled"
    BY <1>1, <1>2 DEF Discover, Discovered
  <2>2. Restoring' /\ UNCHANGED <<hooks, owners, made, pass>>
    BY <1>2 DEF Discover, Begin, Restoring
  <2> QED BY <1>2, <2>1, <2>2, DiscoverTyped, HooksStand
<1>3. CASE SaveSnapshot
  BY <1>3, SnapshotsTyped, HooksStand DEF SaveSnapshot, Begin, Restoring, manager
<1>4. ASSUME NEW p \in Plugins, DisableRequest(p) PROVE Inv'
  <2>1. Restoring' /\ UNCHANGED <<made, pass>>
    BY <1>4 DEF DisableRequest, Begin, Restoring
  <2>2. CASE state[p] = "enabled"
    <3>1. RemovePluginHooks({p}) /\ \A q \in Plugins : state'[q] = "disabled" => state[q] = "disabled" \/ q \in {p}
      BY <1>1, <1>4, <2>2 DEF DisableRequest
    <3> QED BY <1>4, <2>1, <3>1, DisableRequestTyped, HooksGo
  <2>3. CASE state[p] # "enabled"
    <3>1. UNCHANGED <<state, hooks, owners>>
      BY <1>4, <2>3 DEF DisableRequest
    <3> QED BY <1>4, <2>1, <3>1, DisableRequestTyped, HooksStand
  <2> QED BY <2>2, <2>3
<1>5. ASSUME NEW p \in Plugins, NEW i \in BOOLEAN, EnableRequest(p, i) PROVE Inv'
  <2>1. Restoring' /\ UNCHANGED <<hooks, owners, made, pass>>
    BY <1>5 DEF EnableRequest, Begin, Restoring
  <2>2. \A q \in Plugins : state'[q] = "disabled" => state[q] = "disabled"
    BY <1>1, <1>5 DEF EnableRequest
  <2> QED BY <1>5, <2>1, <2>2, EnableRequestTyped, HooksStand
<1>6. ASSUME NEW p \in Plugins, NEW i \in BOOLEAN, ReloadRequest(p, i) PROVE Inv'
  <2> DEFINE unloaded == IF Known(p) THEN [state EXCEPT ![p] = "unloaded"] ELSE state
             known == Discovered(unloaded)
  <2>1. Restoring' /\ UNCHANGED <<made, pass>>
    BY <1>6 DEF ReloadRequest, Begin, Restoring
  <2>2. known \in [Plugins -> States] /\ \A q \in Plugins : known[q] = "disabled" => state[q] = "disabled"
    BY <1>1 DEF Discovered, States
  <2>3. state' \in {known, [known EXCEPT ![p] = "loaded"], [known EXCEPT ![p] = "error"]}
    <3> HIDE DEF Inv
    <3> QED BY <1>6 DEF ReloadRequest
  <2> HIDE DEF known
  <2>4. \A q \in Plugins : state'[q] = "disabled" => state[q] = "disabled"
    BY <2>2, <2>3
  <2>5. RemovePluginHooks({p}) \/ UNCHANGED <<hooks, owners>>
    BY <1>6 DEF ReloadRequest
  <2> QED BY <1>6, <2>1, <2>4, <2>5, ReloadRequestTyped, HooksStand, HooksGo
<1>7. ASSUME NEW p \in Plugins, NEW v \in Settings, UpdatePluginConfig(p, v) PROVE Inv'
  BY <1>7, SnapshotsTyped, HooksStand DEF UpdatePluginConfig, Begin, Restoring, manager
<1>8. ASSUME NEW s \in snapshots, DeleteSnapshot(s) PROVE Inv'
  BY <1>8, SnapshotsTyped, HooksStand DEF DeleteSnapshot, Begin, Restoring, manager
<1>9. ASSUME NEW s \in snapshots, RestoreRequest(s) PROVE Inv'
  <2> DEFINE off == [p \in Plugins |-> IF state[p] = "enabled" THEN "disabled" ELSE state[p]]
  <2>1. state' = Discovered(off)
    BY <1>9 DEF RestoreRequest
  <2>2. \A q \in Plugins : state'[q] = "disabled" => state[q] = "disabled" \/ q \in With("enabled")
    BY <1>1, <2>1 DEF Discovered, With
  <2>3. RemovePluginHooks(With("enabled")) /\ UNCHANGED <<made, pass>>
    BY <1>9 DEF RestoreRequest
  <2>4. Accounted'
    <3> DEFINE enabled == With("enabled")
    <3> HIDE DEF enabled
    <3>1. RemovePluginHooks(enabled) /\ \A q \in Plugins : state'[q] = "disabled" => state[q] = "disabled" \/ q \in enabled
      BY <2>2, <2>3 DEF enabled
    <3> QED BY <1>1, <2>3, <3>1, HooksGo
  <2> QED BY <1>9, <2>4, RestoreRequestTyped, RestoreBegins
<1> QED
  BY <1>2, <1>3, <1>4, <1>5, <1>6, <1>7, <1>8, <1>9 DEF Serve

LEMMA ProceedStep == ASSUME Inv, Proceed PROVE Inv'
<1> USE DEF Inv
<1>1. Typed /\ state \in [Plugins -> States] /\ stack \in Seq(Plugins)
  BY DEF Typed, TypeOK
<1>2. CASE Overflow
  BY <1>2, OverflowTyped, HooksStand DEF Overflow, Restoring, manager
<1>3. ASSUME NEW i \in BOOLEAN, Descend(i) PROVE Inv'
  <2>1. \A q \in Plugins : state'[q] = "disabled" => state[q] = "disabled"
    <3> DEFINE d == Head(Missing(Top))
    <3> HIDE DEF d
    <3>1. state' = state \/ state' = [state EXCEPT ![d] = "loaded"] \/ state' = Broken({d})
      BY <1>3 DEF Descend, d
    <3> QED BY <1>1, <3>1, BrokenWell
  <2>2. UNCHANGED <<hooks, owners, made, pass>>
    BY <1>3 DEF Descend
  <2> QED BY <1>3, <2>1, <2>2, DescendTyped, HooksStand, RestoreDescends
<1>4. ASSUME NEW p \in Plugins, NEW i \in BOOLEAN, RestoreNext(p, i) PROVE Inv'
  <2>1. \A q \in Plugins : state'[q] = "disabled" => state[q] = "disabled"
    BY <1>1, <1>4 DEF RestoreNext
  <2>2. UNCHANGED <<hooks, owners, made, pass>>
    BY <1>4 DEF RestoreNext
  <2> QED BY <1>4, <2>1, <2>2, RestoreNextTyped, HooksStand, RestoreGoesOn
<1>5. ASSUME NEW outcome \in Outcomes, Activate(outcome) PROVE Inv'
  BY <1>5, ActivateTyped, HookComes, RestoreActivates
<1> QED
  BY <1>2, <1>3, <1>4, <1>5 DEF Proceed

LEMMA NextInv == Inv /\ [Next]_vars => Inv'
<1> SUFFICES ASSUME Inv, [Next]_vars PROVE Inv'
  OBVIOUS
<1>1. CASE Serve
  BY <1>1, ServeStep
<1>2. CASE Proceed
  BY <1>2, ProceedStep
<1>3. ASSUME NEW p \in Plugins, NEW c \in Manifests[p] \cup {Absent}, ChangeDirectory(p, c) PROVE Inv'
  BY <1>3, SnapshotsTyped, HooksStand DEF Inv, ChangeDirectory, Begin, Restoring, manager
<1>4. ASSUME NEW r \in Passes, RunHook(r) PROVE Inv'
  <2>1. Needs' = Needs /\ UNCHANGED <<state, config, request, status, stack, queue>>
    BY <1>4, NeedsStay DEF RunHook, disk, manager, serving, Known
  <2>2. Restoring'
    BY <2>1 DEF Inv, Restoring, With, Known
  <2> QED BY <1>4, <2>2, RunHookTyped, HookRuns DEF Inv
<1>5. CASE UNCHANGED vars
  <2>1. Typed' /\ Accounted'
    BY <1>5 DEF Inv, vars, disk, manager, serving, Typed, TypeOK, Known, Idle, Accounted, HooksAccounted,
                HooksOwned, CalledOnceInOrder, Ordered
  <2>2. Restoring'
    BY <1>5 DEF Inv, vars, disk, manager, serving, Restoring, With, Known, Needs
  <2> QED BY <2>1, <2>2 DEF Inv
<1> QED
  BY <1>1, <1>2, <1>3, <1>4, <1>5 DEF Next

LEMMA SpecInv == Spec => []Inv
BY InitInv, NextInv, PTL DEF Spec

\* Every variable of the mod manager keeps its type, a manifest is known for
\* whoever is known, and calls are on the stack only while a request is served.
THEOREM PluginsTypeCorrect == Spec => []TypeOK
<1>1. Inv => TypeOK
  BY DEF Inv, Typed
<1> QED BY <1>1, SpecInv, PTL

\* Every hook in force can be traced to a plugin that is not disabled, and no
\* run calls a hook twice, whatever plugins register, fail and are removed.
THEOREM HooksAccountedAlways == Spec => []HooksAccounted
<1>1. Inv => HooksAccounted
  BY DEF Inv, Accounted
<1> QED BY <1>1, SpecInv, PTL

\* A restored snapshot leaves enabled what it had enabled, unless that fails,
\* and nothing else but what it depends on, with the configurations it had.
THEOREM RestoredAsSavedAlways == Spec => []RestoredAsSaved
<1>1. Inv => RestoredAsSaved
  <2> SUFFICES ASSUME Inv, request.op = "restore", status = "ok" PROVE RestoredAsSaved
    BY DEF RestoredAsSaved
  <2>1. stack = <<>> /\ queue = {}
    BY DEF Inv, Typed, TypeOK, Idle
  <2>2. ToSet(stack) = {}
    BY <2>1, FirstCall
  <2> QED BY <2>1, <2>2 DEF Inv, Restoring, RestoredAsSaved
<1> QED BY <1>1, SpecInv, PTL
==============================================================================
