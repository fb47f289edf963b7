------------------------------- MODULE Keyring -------------------------------
(***************************************************************************)
(* The .env file (maestro/keyring.py, api_keys.py, cli_keys.py,            *)
(* api_update.py): the server and the command line keep keys in it, and in *)
(* their own environment.  Which file that is they look up each time, in   *)
(* four places; the server loads its environment from one of the four.     *)
(*                                                                         *)
(* Abstractions.  A file is its assignments; comments go with them.  Keys  *)
(* are plain words, so that what is written is what is read back.          *)
(***************************************************************************)
EXTENDS Naturals, FiniteSets, Lists

CONSTANTS
    Variables,    \* of the providers, and that of the update remote
    Remotes,      \* those of them that are the update remote's
    Keys,         \* values there can be
    None,         \* a variable that is not set
    Accepted,     \* keys their providers accept
    Given,        \* Given[v]: what the container gives a process, or None
    Templates,    \* what an operator may have put into a .env: sequences of assignments
    EnvFileSet,   \* is MAESTRO_ENV_FILE set
    StrayFirst,   \* may a .env in another place be there before the configured one
    Overlap,      \* may the command line be used while the server writes
    MaxRequests   \* bound: changes, validations, restarts and files of operators

Line(v, key) == [var |-> v, key |-> key]

KeyringAssumption ==
    /\ Remotes \subseteq Variables /\ None \notin Keys /\ Accepted \subseteq Keys
    /\ Given \in [Variables -> Keys \cup {None}]
    /\ \A t \in Templates : t \in Seq({Line(v, k) : v \in Variables, k \in Keys})
    /\ {EnvFileSet, StrayFirst, Overlap} \subseteq BOOLEAN /\ MaxRequests \in Nat

VARIABLES
    envFile,   \* the .env files there are, by place
    environ,   \* os.environ of the server
    update,    \* what the server and the command line are writing
    check,     \* a validation that waits for its provider, and the last report
    asked,     \* history: what was last asked of each variable
    cut,       \* history: was a process ended while it wrote
    served

vars == <<envFile, environ, update, check, asked, cut, served>>

Ask == served < MaxRequests /\ served' = served + 1

------------------------------------------------------------------------------
(* The file                                                                *)

\* _default_env_path: the first that is there; else one is made, ...
Candidates == (IF EnvFileSet THEN <<"configured">> ELSE <<>>) \o <<"cwd", "backend", "root">>
Fallback == IF EnvFileSet THEN "configured" ELSE "root"
EnvPath ==
    LET there == Keep(Candidates, DOMAIN envFile)
    IN IF there = <<>> THEN Fallback ELSE Head(there)

\* ... and the one that orchestrator_foundry.py loads.
LoadPath == IF EnvFileSet THEN "configured" ELSE "backend"

Has(lines, v) == \E i \in DOMAIN lines : lines[i].var = v

\* Slip: an assignment that comes twice is replaced once.
UpsertFirst(lines, v, key) ==
    IF Has(lines, v)
      THEN [lines EXCEPT ![SelectInSeq(lines, LAMBDA line : line.var = v)].key = key]
      ELSE Append(lines, Line(v, key))

\* _upsert_env_file
Upsert(lines, v, key) ==
    IF Has(lines, v)
      THEN [i \in DOMAIN lines |-> IF lines[i].var = v THEN Line(v, key) ELSE lines[i]]
      ELSE Append(lines, Line(v, key))

\* _remove_from_env_file
Without(lines, v) == Keep(lines, {Line(u, key) : u \in Variables \ {v}, key \in Keys})

\* load_dotenv with override: the last assignment counts.
Loaded(lines) ==
    [v \in Variables |-> IF Has(lines, v)
                           THEN lines[SelectLastInSeq(lines, LAMBDA line : line.var = v)].key
                           ELSE Given[v]]

Environment == Loaded(IF LoadPath \in DOMAIN envFile THEN envFile[LoadPath] ELSE <<>>)

------------------------------------------------------------------------------
(* Changes: PUT and DELETE of a key, the update remote, maestro-keys       *)

AtRest == [pc |-> "idle", var |-> None, key |-> None, path |-> Fallback, lines |-> <<>>]
Processes == {"server", "cli"}

\* set_key and remove_key: the process's own environment first, then the file
\* is read.  set_remote is the server's alone, takes nothing out, and changes
\* the environment when the file is written.
Change(p, v, key) ==
    /\ v \in Remotes => p = "server" /\ key # None
    /\ Ask /\ update[p].pc = "idle" /\ (Overlap \/ \A q \in Processes : update[q].pc = "idle")
    /\ environ' = IF p = "server" /\ v \notin Remotes THEN [environ EXCEPT ![v] = key] ELSE environ
    /\ LET path == EnvPath
           before == IF path \in DOMAIN envFile THEN envFile[path] ELSE <<>>
       IN /\ envFile' = [place \in DOMAIN envFile \cup {path} |->
                            IF place = path THEN before ELSE envFile[place]]
          /\ update' = [update EXCEPT ![p] =
                [pc |-> "open", var |-> v, key |-> key, path |-> path,
                 lines |-> IF key = None THEN Without(before, v) ELSE Upsert(before, v, key)]]
    /\ UNCHANGED <<check, asked, cut>>

\* write_text opens the file, which empties it, and writes.
OpenFile(p) ==
    /\ update[p].pc = "open"
    /\ envFile' = [envFile EXCEPT ![update[p].path] = <<>>]
    /\ update' = [update EXCEPT ![p].pc = "write"]
    /\ UNCHANGED <<environ, check, asked, cut, served>>

WriteFile(p) ==
    /\ update[p].pc = "write"
    /\ envFile' = [envFile EXCEPT ![update[p].path] = update[p].lines]
    /\ asked' = [asked EXCEPT ![update[p].var] = update[p].key]
    /\ environ' = IF update[p].var \in Remotes THEN [environ EXCEPT ![update[p].var] = update[p].key]
                                               ELSE environ
    /\ update' = [update EXCEPT ![p] = AtRest]
    /\ UNCHANGED <<check, cut, served>>

------------------------------------------------------------------------------
(* validate_key of the server, which waits for the provider                *)

Validate(v) ==
    /\ Ask /\ check.pc = "idle" /\ update["server"].pc = "idle"
    /\ check' = [check EXCEPT !.pc = "wait", !.var = v, !.key = environ[v]]
    /\ UNCHANGED <<envFile, environ, update, asked, cut>>

\* Unless it is refused, the provider cannot be reached, or there is no key.
Answered(accepts) ==
    /\ check.pc = "wait" /\ update["server"].pc = "idle"
    /\ check' = [pc |-> "idle", var |-> None, key |-> None, shown |-> check.key,
                 valid |-> accepts /\ check.key \in Accepted]
    /\ UNCHANGED <<envFile, environ, update, asked, cut, served>>

------------------------------------------------------------------------------

NoCheck == [pc |-> "idle", var |-> None, key |-> None, shown |-> None, valid |-> FALSE]

\* The server ends, at whatever it is, and starts again.
Restart ==
    /\ Ask
    /\ cut' = (cut \/ update["server"].pc = "write")
    /\ update' = [update EXCEPT !["server"] = AtRest]
    /\ environ' = Environment
    /\ check' = NoCheck
    /\ UNCHANGED <<envFile, asked>>

\* The command line is interrupted.
Interrupt ==
    /\ Ask /\ update["cli"].pc # "idle"
    /\ cut' = (cut \/ update["cli"].pc = "write")
    /\ update' = [update EXCEPT !["cli"] = AtRest]
    /\ UNCHANGED <<envFile, environ, check, asked>>

\* An operator puts a .env where there is none.
PlaceFile(place, lines) ==
    /\ Ask /\ place \notin DOMAIN envFile
    /\ StrayFirst \/ LoadPath \in DOMAIN envFile
    /\ envFile' = [at \in DOMAIN envFile \cup {place} |-> IF at = place THEN lines ELSE envFile[at]]
    /\ UNCHANGED <<environ, update, check, asked, cut>>

Init ==
    /\ envFile \in {[place \in {} |-> <<>>]} \cup {[place \in {LoadPath} |-> t] : t \in Templates}
    /\ environ = Environment /\ asked = environ
    /\ update = [p \in Processes |-> AtRest] /\ check = NoCheck
    /\ cut = FALSE /\ served = 0

Next ==
    \/ \E p \in Processes : \/ \E v \in Variables, key \in Keys \cup {None} : Change(p, v, key)
                            \/ OpenFile(p) \/ WriteFile(p)
    \/ \E v \in Variables : Validate(v)
    \/ \E accepts \in BOOLEAN : Answered(accepts)
    \/ Restart \/ Interrupt
    \/ \E place \in {"cwd", "backend", "root"}, lines \in Templates : PlaceFile(place, lines)

Spec == Init /\ [][Next]_vars

------------------------------------------------------------------------------
(* Properties                                                              *)

IsLines(lines) == lines \in Seq({Line(v, k) : v \in Variables, k \in Keys})

TypeOK ==
    /\ DOMAIN envFile \subseteq {"configured", "cwd", "backend", "root"}
    /\ \A place \in DOMAIN envFile : IsLines(envFile[place])
    /\ environ \in [Variables -> Keys \cup {None}] /\ asked \in [Variables -> Keys \cup {None}]
    /\ \A p \in Processes :
          /\ update[p].pc \in {"idle", "open", "write"} /\ IsLines(update[p].lines)
          /\ update[p].pc # "idle" => update[p].path \in DOMAIN envFile /\ update[p].var \in Variables
    /\ check.valid \in BOOLEAN /\ served \in 0 .. MaxRequests

\* Keys "persist across container restarts" (docs/deployment.md:22).  With
\* MAESTRO_ENV_FILE set, no .env elsewhere before that one is there, one change
\* at a time and no process ended while it writes: whoever changed a key last,
\* a restart of the server finds it as it was asked; a key that was removed and
\* that the container gives comes back.  A validation that says a key is valid
\* speaks of the key it shows.
KeysKept ==
    /\ ~cut /\ (\A p \in Processes : update[p].pc = "idle") =>
          Environment = [v \in Variables |-> IF asked[v] = None THEN Given[v] ELSE asked[v]]
    /\ check.valid => check.shown \in Accepted
=============================================================================
