------------------------------- MODULE Plugins -------------------------------
(***************************************************************************)
(* The mod manager (maestro/plugins/manager.py, api_plugins.py): lifecycle *)
(* of plugins, their dependencies and pipeline hooks, snapshots of the     *)
(* plugin configuration.                                                   *)
(*                                                                         *)
(* The endpoints run on the event loop without an await, so one request is *)
(* served at a time; only enable, which calls itself for dependencies, and *)
(* restore are taken apart, into the plugins they get to.  Hooks may await *)
(* and are interleaved with requests.                                      *)
(*                                                                         *)
(* Abstractions.  A manifest is its list of dependencies.  The hook points *)
(* are independent: there is one, at which every plugin registers one hook *)
(* on activation.  Loading succeeds or fails, activation succeeds, or      *)
(* fails before or after it registered.  Registered agents, event          *)
(* subscriptions, errors and read-only requests are left out, as is        *)
(* validate, which nothing calls.                                          *)
(***************************************************************************)
EXTENDS Integers, FiniteSets, Lists

CONSTANTS
    Plugins,
    Manifests,       \* [Plugins -> sets of manifests a plugin can come with]
    Absent,          \* no plugin directory
    Settings,        \* values of a configuration key
    Unset,           \* the key is not in the configuration
    Passes,          \* runs of the hook point
    RecursionLimit,  \* depth at which Python gives up
    MaxRequests,     \* bound: requests served and changes on disk
    MaxSnapshots     \* bound: snapshots saved

States == {"unknown", "discovered", "loaded", "enabled", "disabled", "error", "unloaded"}
Hook == [plugin : Plugins, made : Nat]
Outcomes == {"true", "fails", "fails_late"}

\* What may be in installed/.
Directories ==
    {d \in [Plugins -> {Absent} \cup UNION {Manifests[p] : p \in Plugins}] :
        \A p \in Plugins : d[p] \in Manifests[p] \cup {Absent}}

ASSUME PluginsAssumption ==
    /\ IsFiniteSet(Plugins) /\ Manifests \in [Plugins -> SUBSET Seq(Plugins)]
    /\ \A p \in Plugins : Absent \notin Manifests[p]
    /\ Unset \notin Settings
    /\ RecursionLimit \in Nat /\ RecursionLimit > Cardinality(Plugins)
    /\ MaxRequests \in Nat /\ MaxSnapshots \in Nat

VARIABLES
    directory,   \* installed/: manifest of each plugin
    config,      \* its config.json, one key of it
    state,       \* _plugins: state
    manifest,    \* _plugins: manifest, as of its discovery
    hooks,       \* _hooks at the hook point
    owners,      \* _hook_owners
    snapshots,
    request,     \* what is served or was last, or the change on disk that was
    status,      \* "running", then its answer
    stack,       \* the calls of enable
    queue,       \* plugins that restore still has to enable
    pass,        \* where each run of the hook point is, and what it called
    requests, made   \* counters

disk == <<directory, config, snapshots>>
manager == <<state, manifest, hooks, owners>>
serving == <<request, status, stack, queue, requests>>
vars == <<disk, manager, serving, pass, made>>

Idle == status # "running"
Known(p) == state[p] # "unknown"
With(status_) == {p \in Plugins : state[p] = status_}

Begin(op, argument) ==
    /\ Idle /\ requests < MaxRequests
    /\ requests' = requests + 1
    /\ request' = [op |-> op, of |-> argument]

Answer(ok) == status' = IF ok THEN "ok" ELSE "failed"

------------------------------------------------------------------------------
\* discover: plugins not known yet; known ones keep the manifest they have.
Discovered(states) ==
    [p \in Plugins |-> IF states[p] = "unknown" /\ directory[p] # Absent
                         THEN "discovered" ELSE states[p]]

\* Slip (what a bug would do): the record is made without its manifest.
ManifestedLater(states) == manifest

Manifested(states) ==
    [p \in Plugins |-> IF states[p] = "unknown" /\ directory[p] # Absent
                         THEN directory[p] ELSE manifest[p]]

Discover ==
    /\ Begin("discover", Absent) /\ Answer(TRUE)
    /\ state' = Discovered(state) /\ manifest' = Manifested(state)
    /\ UNCHANGED <<disk, hooks, owners, stack, queue, pass, made>>

\* load: the entry point is imported and instantiated, or not.
Loads(p, importable) == directory[p] # Absent /\ importable

\* _remove_plugin_hooks
Of(list, plugins) == {h \in ToSet(list) : h.plugin \in plugins}
Without(list, plugins) == Keep(list, ToSet(list) \ Of(list, plugins))

\* Slip: owners are forgotten, their hooks stay.
RemovePluginHooksHalf(plugins) ==
    /\ owners' = Without(owners, plugins)
    /\ hooks' = hooks

RemovePluginHooks(plugins) ==
    /\ hooks' = Keep(hooks, ToSet(hooks) \ Of(owners, plugins))
    /\ owners' = Without(owners, plugins)

\* POST enable: load, then enable; a plugin that is enabled already stays so.
EnableRequest(p, importable) ==
    /\ Known(p) /\ Begin("enable", p)
    /\ \/ /\ state[p] = "enabled" /\ Answer(TRUE)
          /\ UNCHANGED <<state, stack>>
       \/ /\ state[p] # "enabled" /\ ~Loads(p, importable) /\ Answer(FALSE)
          /\ state' = [state EXCEPT ![p] = "error"]
          /\ UNCHANGED stack
       \/ /\ state[p] # "enabled" /\ Loads(p, importable) /\ status' = "running"
          /\ state' = [state EXCEPT ![p] = "loaded"]
          /\ stack' = <<p>>
    /\ UNCHANGED <<disk, manifest, hooks, owners, queue, pass, made>>

------------------------------------------------------------------------------
(* enable, one call after another.                                         *)

\* Dependencies that enable still has to see to: those nobody knows are
\* passed over.
Missing(p) == Keep(manifest[p], {d \in Plugins : Known(d) /\ state[d] # "enabled"})

Top == Last(stack)

\* enable returns to whoever called it first: the endpoint, or restore, which
\* goes on with its next plugin whatever the result.
Return(ok) ==
    /\ stack' = <<>>
    /\ IF request.op = "restore"
         THEN status' = IF queue = {} THEN "ok" ELSE "running"
         ELSE Answer(ok)

\* All callers of a call that failed fail as well.
Broken(also) ==
    [p \in Plugins |-> IF Contains(stack, p) \/ p \in also THEN "error" ELSE state[p]]

\* The first dependency that is missing is loaded, if need be, and enabled.
Descend(importable) ==
    /\ stack # <<>> /\ Missing(Top) # <<>> /\ Len(stack) < RecursionLimit
    /\ LET d == Head(Missing(Top))
       IN \/ /\ state[d] \in {"loaded", "disabled"} \/ Loads(d, importable)
             /\ state' = IF state[d] \in {"loaded", "disabled"} THEN state
                         ELSE [state EXCEPT ![d] = "loaded"]
             /\ stack' = Append(stack, d)
             /\ UNCHANGED status
          \/ /\ state[d] \notin {"loaded", "disabled"} /\ ~Loads(d, importable)
             /\ state' = Broken({d})
             /\ Return(FALSE)
    /\ UNCHANGED <<disk, manifest, hooks, owners, request, queue, requests, pass, made>>

\* RecursionError, which nothing catches: the request ends, states stay.
Overflow ==
    /\ stack # <<>> /\ Missing(Top) # <<>> /\ Len(stack) = RecursionLimit
    /\ stack' = <<>> /\ queue' = {} /\ status' = "failed"
    /\ UNCHANGED <<disk, manager, request, requests, pass, made>>

\* Slip: a plugin that fails to activate is given up, its callers are not
\* told.
ActivateUnnoticed(outcome) ==
    /\ stack # <<>> /\ Missing(Top) = <<>>
    /\ LET hook == [plugin |-> Top, made |-> made]
       IN IF outcome = "fails" THEN UNCHANGED <<hooks, owners, made>>
          ELSE /\ hooks' = Append(hooks, hook) /\ owners' = Append(owners, hook)
               /\ made' = made + 1
    /\ state' = [state EXCEPT ![Top] = IF outcome = "true" THEN "enabled" ELSE "error"]
    /\ stack' = Front(stack) /\ UNCHANGED status
    /\ UNCHANGED <<disk, manifest, request, queue, requests, pass>>

\* The dependencies are there: activate(context).
Activate(outcome) ==
    /\ stack # <<>> /\ Missing(Top) = <<>>
    /\ LET hook == [plugin |-> Top, made |-> made]
       IN IF outcome = "fails" THEN UNCHANGED <<hooks, owners, made>>
          ELSE /\ hooks' = Append(hooks, hook) /\ owners' = Append(owners, hook)
               /\ made' = made + 1
    /\ IF outcome = "true"
         THEN /\ state' = [state EXCEPT ![Top] = "enabled"]
              /\ IF Len(stack) > 1 THEN stack' = Front(stack) /\ UNCHANGED status
                                   ELSE Return(TRUE)
         ELSE state' = Broken({}) /\ Return(FALSE)
    /\ UNCHANGED <<disk, manifest, request, queue, requests, pass>>

------------------------------------------------------------------------------
\* POST disable: deactivate may raise, which changes nothing.
DisableRequest(p) ==
    /\ Known(p) /\ Begin("disable", p) /\ Answer(TRUE)
    /\ IF state[p] = "enabled"
         THEN state' = [state EXCEPT ![p] = "disabled"] /\ RemovePluginHooks({p})
         ELSE UNCHANGED <<state, hooks, owners>>
    /\ UNCHANGED <<disk, manifest, stack, queue, pass, made>>

\* POST reload: unload (disable first, if enabled), discover, load, enable.
ReloadRequest(p, importable) ==
    LET unloaded == IF Known(p) THEN [state EXCEPT ![p] = "unloaded"] ELSE state
        known == Discovered(unloaded)
    IN
    /\ Begin("reload", p)
    /\ manifest' = Manifested(unloaded)
    /\ IF state[p] = "enabled" THEN RemovePluginHooks({p}) ELSE UNCHANGED <<hooks, owners>>
    /\ \/ /\ known[p] # "unknown" /\ Loads(p, importable)
          /\ state' = [known EXCEPT ![p] = "loaded"]
          /\ IF state[p] = "enabled" THEN stack' = <<p>> /\ status' = "running"
                                     ELSE Answer(TRUE) /\ UNCHANGED stack
       \/ /\ known[p] # "unknown" /\ ~Loads(p, importable)
          /\ state' = [known EXCEPT ![p] = "error"]
          /\ Answer(FALSE) /\ UNCHANGED stack
       \/ /\ known[p] = "unknown"
          /\ state' = known /\ Answer(FALSE) /\ UNCHANGED stack
    /\ UNCHANGED <<disk, queue, pass, made>>

\* PUT config: the key is set; other keys stay.
UpdatePluginConfig(p, value) ==
    /\ Known(p) /\ Begin("config", p) /\ Answer(TRUE)
    /\ config' = [config EXCEPT ![p] = value]
    /\ UNCHANGED <<directory, snapshots, manager, stack, queue, pass, made>>

SaveSnapshot ==
    /\ Begin("save", Absent) /\ Answer(TRUE)
    /\ Cardinality(snapshots) < MaxSnapshots
    /\ snapshots' = snapshots \cup
         {[enabled |-> With("enabled"), disabled |-> With("disabled") \cup With("loaded"),
           configs |-> [p \in Plugins |-> IF Known(p) THEN config[p] ELSE Unset]]}
    /\ UNCHANGED <<directory, config, manager, stack, queue, pass, made>>

DeleteSnapshot(s) ==
    /\ Begin("delete", s) /\ Answer(TRUE)
    /\ snapshots' = snapshots \ {s}
    /\ UNCHANGED <<directory, config, manager, stack, queue, pass, made>>

\* Slip: what is enabled stays enabled.
RestoreKeeping(s) ==
    /\ Begin("restore", s)
    /\ UNCHANGED <<hooks, owners>>
    /\ state' = Discovered(state) /\ manifest' = Manifested(state)
    /\ config' = [p \in Plugins |-> IF s.configs[p] = Unset THEN config[p] ELSE s.configs[p]]
    /\ queue' = {p \in s.enabled : state'[p] # "unknown"}
    /\ status' = IF queue' = {} THEN "ok" ELSE "running"
    /\ UNCHANGED <<directory, snapshots, stack, pass, made>>

\* POST restore: everything is disabled, configurations are merged into what
\* is there, then the plugins that were enabled are enabled one by one.
RestoreRequest(s) ==
    /\ Begin("restore", s)
    /\ RemovePluginHooks(With("enabled"))
    /\ LET off == [p \in Plugins |-> IF state[p] = "enabled" THEN "disabled" ELSE state[p]]
       IN state' = Discovered(off) /\ manifest' = Manifested(off)
    /\ config' = [p \in Plugins |-> IF s.configs[p] = Unset THEN config[p] ELSE s.configs[p]]
    /\ queue' = {p \in s.enabled : state'[p] # "unknown"}
    /\ status' = IF queue' = {} THEN "ok" ELSE "running"
    /\ UNCHANGED <<directory, snapshots, stack, pass, made>>

\* The next plugin of the snapshot: load and enable, results ignored.
RestoreNext(p, importable) ==
    /\ ~Idle /\ stack = <<>> /\ p \in queue
    /\ queue' = queue \ {p}
    /\ IF state[p] # "enabled" /\ Loads(p, importable)
         THEN /\ state' = [state EXCEPT ![p] = "loaded"]
              /\ stack' = <<p>> /\ UNCHANGED status
         ELSE /\ state' = [state EXCEPT ![p] = IF @ = "enabled" THEN @ ELSE "error"]
              /\ status' = IF queue' = {} THEN "ok" ELSE "running"
              /\ UNCHANGED stack
    /\ UNCHANGED <<disk, manifest, hooks, owners, request, requests, pass, made>>

------------------------------------------------------------------------------
\* The operator copies a plugin into installed/, or another version, or
\* removes it.
ChangeDirectory(p, content) ==
    /\ Begin("files", p) /\ Answer(TRUE)
    /\ content # directory[p]
    /\ directory' = [directory EXCEPT ![p] = content]
    /\ UNCHANGED <<config, snapshots, manager, stack, queue, pass, made>>

\* run_hooks: one hook is called; the loop's index counts in the list as it is.
RunHook(r) ==
    /\ Idle /\ pass[r].at <= Len(hooks)
    /\ pass' = [pass EXCEPT ![r] = [at |-> @.at + 1, called |-> Append(@.called, hooks[@.at])]]
    /\ UNCHANGED <<disk, manager, serving, made>>

Init ==
    /\ directory \in Directories
    /\ config = [p \in Plugins |-> Unset]
    /\ state = [p \in Plugins |-> IF directory[p] = Absent THEN "unknown" ELSE "discovered"]
    /\ manifest = directory
    /\ hooks = <<>> /\ owners = <<>> /\ snapshots = {}
    /\ request = [op |-> "none", of |-> Absent] /\ status = "ok"
    /\ stack = <<>> /\ queue = {}
    /\ pass = [r \in Passes |-> [at |-> 1, called |-> <<>>]]
    /\ requests = 0 /\ made = 0

Serve ==
    \/ Discover \/ SaveSnapshot
    \/ \E p \in Plugins :
          \/ DisableRequest(p)
          \/ \E i \in BOOLEAN : EnableRequest(p, i) \/ ReloadRequest(p, i)
          \/ \E v \in Settings : UpdatePluginConfig(p, v)
    \/ \E s \in snapshots : DeleteSnapshot(s) \/ RestoreRequest(s)

\* The request at hand goes on.
Proceed ==
    \/ Overflow
    \/ \E i \in BOOLEAN : Descend(i) \/ \E p \in Plugins : RestoreNext(p, i)
    \/ \E outcome \in Outcomes : Activate(outcome)

Next ==
    \/ Serve \/ Proceed
    \/ \E p \in Plugins : \E c \in Manifests[p] \cup {Absent} : ChangeDirectory(p, c)
    \/ \E r \in Passes : RunHook(r)

Spec == Init /\ [][Next]_vars

\* A handler runs to its end.
FairSpec == Spec /\ WF_vars(Proceed)

------------------------------------------------------------------------------
Snapshot == [enabled : SUBSET Plugins, disabled : SUBSET Plugins,
             configs : [Plugins -> Settings \cup {Unset}]]

\* Every variable has its type; a manifest is known for whoever is known, and
\* calls are on the stack only while a request is served.
TypeOK ==
    /\ directory \in Directories /\ manifest \in Directories
    /\ config \in [Plugins -> Settings \cup {Unset}]
    /\ state \in [Plugins -> States]
    /\ hooks \in Seq(Hook) /\ owners \in Seq(Hook)
    /\ snapshots \subseteq Snapshot
    /\ status \in {"running", "ok", "failed"}
    /\ stack \in Seq(Plugins) /\ Len(stack) <= RecursionLimit /\ queue \subseteq Plugins
    /\ pass \in [Passes -> [at : Nat \ {0}, called : Seq(Hook)]]
    /\ requests \in Nat /\ made \in Nat
    /\ \A p \in Plugins : Known(p) => manifest[p] # Absent
    /\ Idle => stack = <<>> /\ queue = {}

\* Every hook in force can be traced to its plugin, and none is that of a
\* disabled plugin, however often it was enabled, failed and was loaded again
\* (mod-manager.md:401 "When a plugin is disabled, all its hooks are
\* automatically removed").
HooksOwned ==
    /\ ToSet(hooks) \subseteq ToSet(owners)
    /\ \A i \in DOMAIN hooks : state[hooks[i].plugin] # "disabled"

\* A run of the hook point calls no hook twice, though the list changes under
\* it while a hook awaits (manager.py:688 "Hooks run in registration order").
CalledOnceInOrder ==
    \A r \in Passes : \A i, j \in DOMAIN pass[r].called :
        i < j => pass[r].called[i].made < pass[r].called[j].made

HooksAccounted == HooksOwned /\ CalledOnceInOrder

\* Whom each plugin depends on, if it is known.
Needs == [p \in Plugins |-> IF Known(p) THEN ToSet(manifest[p]) ELSE {}]

\* All that some plugins depend on, through any number of manifests.
Closure(plugins, needs) ==
    LET Within[n \in 0 .. Cardinality(Plugins)] ==
            IF n = 0 THEN plugins ELSE Within[n - 1] \cup UNION {needs[p] : p \in Within[n - 1]}
    IN Within[Cardinality(Plugins)]

\* A restored snapshot leaves every plugin it had enabled enabled or in error,
\* nothing else but their dependencies, and its configurations in place,
\* whatever has been installed, enabled or broken since (manager.py:524
\* "Restore system to a previously saved state").
RestoredAsSaved ==
    request.op = "restore" /\ status = "ok" =>
        /\ \A p \in request.of.enabled : Known(p) => state[p] \in {"enabled", "error"}
        /\ With("enabled") \subseteq Closure(request.of.enabled, Needs)
        /\ \A p \in Plugins : request.of.configs[p] # Unset => config[p] = request.of.configs[p]

\* Every request is answered, whatever depends on whatever.
EveryRequestAnswered == status = "running" ~> status # "running"
==============================================================================
