--------------------------- MODULE LibrarianStore ---------------------------
(***************************************************************************)
(* The librarian's store of signed cartridges (maestro/librarian): scribes *)
(* anchor a manifest by adding signatures to it; a commit verifies it and  *)
(* puts manifest and body under their hashes, then swings the links of its *)
(* id.  A file is written beside its place and renamed, under a temporary  *)
(* name that is the same for every writer.                                 *)
(*                                                                         *)
(* Abstractions.  A manifest stands for its hash, which does not depend on *)
(* its signatures; a body for its hash.  Hashes do not collide and only a  *)
(* key's holder signs with it.  The list of trusted keys and the policy    *)
(* are those a Librarian is made with.  Reading changes nothing.           *)
(***************************************************************************)
EXTENDS Integers, FiniteSets, Functions

CONSTANTS
    Writers,      \* processes that commit
    Overlap,      \* can commits overlap
    Manifests,
    Cartridge,    \* the id of each manifest
    Body,         \* the body of each manifest; all revocations share one
    Keys,
    Trusted,      \* keys of trusted.json
    Threshold,    \* min_signatures_by_kind
    MaxCrashes    \* bound: processes that end within a commit

LibrarianAssumption ==
    /\ Overlap \in BOOLEAN
    /\ Manifests # {} /\ DOMAIN Cartridge = Manifests /\ DOMAIN Body = Manifests
    /\ Trusted \subseteq Keys /\ IsFiniteSet(Keys)
    /\ Threshold \in Nat \ {0} /\ MaxCrashes \in Nat

VARIABLES
    draft,    \* the keys that have signed each pending manifest
    files,    \* by-hash: what is in the file of a manifest or a body
    temps,    \* the same of the temporary files
    links,    \* by-id: heads and versions
    swings,   \* temporary links
    commit,   \* what each writer is at
    crashes

vars == <<draft, files, temps, links, swings, commit, crashes>>

ManifestPath(m) == <<"manifest", m>>
BodyPath(m) == <<"body", Body[m]>>
HeadLink(m) == <<"head", Cartridge[m]>>
VersionLink(m) == <<"version", m>>

NoFile == [p \in {} |-> {}]
Put(f, p, value) == [x \in DOMAIN f \cup {p} |-> IF x = p THEN value ELSE f[x]]
Without(f, p) == Restrict(f, DOMAIN f \ {p})

\* A file that was opened and not yet written, and one that was.
Opened == [full |-> FALSE, keys |-> {}]
Written(keys) == [full |-> TRUE, keys |-> keys]

Idle(w) == commit[w].pc = "idle"
AtRest == [pc |-> "idle", m |-> CHOOSE m \in Manifests : TRUE, keys |-> {}, renamed |-> FALSE]
Rest(w) == commit' = [commit EXCEPT ![w] = AtRest]

------------------------------------------------------------------------------
(* Signatures                                                              *)

\* Scribe.anchor: keys that have signed already are refused, and so is an empty
\* list of keys.
Anchor(m, keys) ==
    /\ keys # {} /\ keys \cap draft[m] = {}
    /\ draft' = [draft EXCEPT ![m] = @ \cup keys]
    /\ UNCHANGED <<files, temps, links, swings, commit, crashes>>

\* verify_manifest: signatures count if the content is the one that was signed
\* and the key is trusted.
Verifies(keys) == Cardinality(keys \cap Trusted) >= Threshold

\* Librarian.load gives the manifest back.
Loads(m) ==
    /\ ManifestPath(m) \in DOMAIN files /\ BodyPath(m) \in DOMAIN files
    /\ files[ManifestPath(m)].full /\ Verifies(files[ManifestPath(m)].keys)
    /\ files[BodyPath(m)].full

------------------------------------------------------------------------------
(* Librarian.commit                                                        *)

\* Slip: the head is swung before the body is there.
HeadAfterManifest == "head clear"

\* The order of a commit: manifest, body, head, version.
AfterManifest == "body open"

AfterBody == "head clear"

Begin(w, m) ==
    /\ Idle(w) /\ (Overlap \/ \A v \in Writers : Idle(v))
    /\ Verifies(draft[m])    \* else PolicyError
    /\ commit' = [commit EXCEPT ![w] = [pc |-> "manifest open", m |-> m, keys |-> draft[m], renamed |-> FALSE]]
    /\ UNCHANGED <<draft, files, temps, links, swings, crashes>>

\* The three steps of _atomic_write.  Opening truncates a temporary file that
\* is there already; whoever has it open goes on writing to it under its new
\* name when another writer renames it.
OpenTemp(w, from, path, to) ==
    /\ commit[w].pc = from
    /\ temps' = Put(temps, path, Opened)
    /\ commit' = [commit EXCEPT ![w].pc = to, ![w].renamed = FALSE]
    /\ UNCHANGED <<draft, files, links, swings, crashes>>

WriteTemp(w, from, path, keys, to) ==
    /\ commit[w].pc = from
    /\ IF commit[w].renamed
         THEN files' = Put(files, path, Written(keys)) /\ UNCHANGED temps
         ELSE temps' = Put(temps, path, Written(keys)) /\ UNCHANGED files
    /\ commit' = [commit EXCEPT ![w].pc = to]
    /\ UNCHANGED <<draft, links, swings, crashes>>

\* A rename of what is no longer there raises, and the commit ends.
RenameTemp(w, from, path, writing, to) ==
    /\ commit[w].pc = from
    /\ IF path \in DOMAIN temps
         THEN /\ files' = Put(files, path, temps[path])
              /\ temps' = Without(temps, path)
              /\ commit' = [v \in Writers |->
                     IF v = w THEN [commit[w] EXCEPT !.pc = to]
                     ELSE IF writing[v] = path THEN [commit[v] EXCEPT !.renamed = TRUE]
                     ELSE commit[v]]
         ELSE Rest(w) /\ UNCHANGED <<files, temps>>
    /\ UNCHANGED <<draft, links, swings, crashes>>

\* The temporary file each writer has open, if any.
Writing ==
    [v \in Writers |->
        IF commit[v].pc = "manifest write" THEN ManifestPath(commit[v].m)
        ELSE IF commit[v].pc = "body write" THEN BodyPath(commit[v].m)
        ELSE <<"none", "none">>]

WriteManifest(w) ==
    LET m == commit[w].m IN
    \/ OpenTemp(w, "manifest open", ManifestPath(m), "manifest write")
    \/ WriteTemp(w, "manifest write", ManifestPath(m), commit[w].keys, "manifest rename")
    \/ RenameTemp(w, "manifest rename", ManifestPath(m), Writing, AfterManifest)

WriteBody(w) ==
    LET m == commit[w].m IN
    \/ OpenTemp(w, "body open", BodyPath(m), "body write")
    \/ WriteTemp(w, "body write", BodyPath(m), {}, "body rename")
    \/ RenameTemp(w, "body rename", BodyPath(m), Writing, AfterBody)

\* The three steps of _atomic_symlink: what is left of an earlier link is
\* removed, the link is made, which raises if another writer's is there, and
\* renamed, which raises if it is gone.
ClearLink(w, from, path, to) ==
    /\ commit[w].pc = from
    /\ swings' = Without(swings, path)
    /\ commit' = [commit EXCEPT ![w].pc = to]
    /\ UNCHANGED <<draft, files, temps, links, crashes>>

MakeLink(w, from, path, to) ==
    /\ commit[w].pc = from
    /\ IF path \in DOMAIN swings
         THEN Rest(w) /\ UNCHANGED swings
         ELSE /\ swings' = Put(swings, path, commit[w].m)
              /\ commit' = [commit EXCEPT ![w].pc = to]
    /\ UNCHANGED <<draft, files, temps, links, crashes>>

SwingLink(w, from, path, to) ==
    /\ commit[w].pc = from
    /\ IF path \in DOMAIN swings
         THEN /\ links' = Put(links, path, swings[path])
              /\ swings' = Without(swings, path)
              /\ IF to = "idle" THEN Rest(w) ELSE commit' = [commit EXCEPT ![w].pc = to]
         ELSE Rest(w) /\ UNCHANGED <<links, swings>>
    /\ UNCHANGED <<draft, files, temps, crashes>>

LinkHead(w) ==
    LET path == HeadLink(commit[w].m) IN
    \/ ClearLink(w, "head clear", path, "head make")
    \/ MakeLink(w, "head make", path, "head swing")
    \/ SwingLink(w, "head swing", path, "version clear")

LinkVersion(w) ==
    LET path == VersionLink(commit[w].m) IN
    \/ ClearLink(w, "version clear", path, "version make")
    \/ MakeLink(w, "version make", path, "version swing")
    \/ SwingLink(w, "version swing", path, "idle")

\* The process ends; temporary files and links stay behind.
Crash(w) ==
    /\ ~Idle(w) /\ crashes < MaxCrashes
    /\ Rest(w) /\ crashes' = crashes + 1
    /\ UNCHANGED <<draft, files, temps, links, swings>>

Init ==
    /\ draft = [m \in Manifests |-> {}]
    /\ files = NoFile /\ temps = NoFile /\ links = NoFile /\ swings = NoFile
    /\ commit = [w \in Writers |-> AtRest] /\ crashes = 0

Next ==
    \/ \E m \in Manifests, keys \in SUBSET Keys : Anchor(m, keys)
    \/ \E w \in Writers :
          \/ \E m \in Manifests : Begin(w, m)
          \/ WriteManifest(w) \/ WriteBody(w) \/ LinkHead(w) \/ LinkVersion(w)
          \/ Crash(w)

Spec == Init /\ [][Next]_vars

------------------------------------------------------------------------------
(* Properties                                                              *)

TypeOK ==
    /\ draft \in [Manifests -> SUBSET Keys]
    /\ \A p \in DOMAIN files : files[p] \in [full : BOOLEAN, keys : SUBSET Keys]
    /\ \A p \in DOMAIN temps : temps[p] \in [full : BOOLEAN, keys : SUBSET Keys]
    /\ \A p \in DOMAIN links : links[p] \in Manifests
    /\ \A p \in DOMAIN swings : swings[p] \in Manifests
    /\ \A w \in Writers : commit[w].m \in Manifests /\ commit[w].keys \subseteq Keys
    /\ crashes \in 0 .. MaxCrashes

\* Wherever a process ends within a commit, and whatever earlier commits left
\* behind: what a head or a version names can be loaded, with its body and
\* enough signatures.  (As long as commits do not overlap.)
HeadsLoad == \A p \in DOMAIN links : Loads(links[p])
=============================================================================
