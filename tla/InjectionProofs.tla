--------------------------- MODULE InjectionProofs ---------------------------
(***************************************************************************)
(* Theorems about Injection, for any number of workers, cycles, requests,  *)
(* restarts, any targets and any batches.                                  *)
(***************************************************************************)
EXTENDS Injection, WellFoundedInduction, TLAPS

\* The labels at which a request is about a proposal of its batch, or about an
\* entry of its undo list, and those only a cycle or an inject request reaches.
AtProposal == {"setattr", "truncate", "write", "record", "save", "patch", "reload"}
AtEntry == {"unload", "rewrite", "mark", "saved"}
OfCycle == {"validate", "restore", "smoke", "persist", "keep"}
OfBatch == OfCycle \cup AtProposal \cup {"open", "apply"}

\* What a request relies on to do its next step, given the ids of the entries.
InPlace(q, ids) ==
    /\ q.pc \in OfCycle => q.op = "cycle"
    /\ q.pc \in OfBatch => q.op \in {"cycle", "inject"}
    /\ q.op \in {"cycle", "inject"} => q.cycle \in Cycles
    /\ q.pc \in AtProposal => q.pos \in DOMAIN q.batch
    /\ q.pc \in {"save", "patch"} => q.id \in ids
    /\ q.undo \subseteq ids
    /\ q.pc \in AtEntry => q.undo # {}

Typed == TypeOK /\ \A r \in Requests : InPlace(req[r], DOMAIN entry)

------------------------------------------------------------------------------
\* A non-empty set of numbers has a least one.
LEMMA LeastExists ==
    ASSUME NEW S \in SUBSET Nat, S # {}
    PROVE  \E m \in S : \A k \in S : m <= k
<1> DEFINE Less == {ss \in Nat \X Nat : ss[1] < ss[2]}
<1>1. IsWellFoundedOn(Less, Nat)
  BY NatLessThanWellFounded DEF OpToRel
<1>2. PICK m \in S : \A k \in S : ~ (<<k, m>> \in Less)
  BY <1>1, WFMin
<1>3. m \in Nat
  OBVIOUS
<1>4. ASSUME NEW k \in S
      PROVE  m <= k
  <2>1. ~ (<<k, m>> \in Less)
    BY <1>2
  <2>2. k \in Nat /\ (<<k, m>> \in Less <=> k < m)
    BY <1>3
  <2> HIDE DEF Less
  <2> QED
    BY <1>3, <2>1, <2>2
<1> QED
  BY <1>4

\* A non-empty set of numbers up to n has a greatest one.
LEMMA GreatestExists ==
    ASSUME NEW n \in Nat, NEW S \in SUBSET (1 .. n), S # {}
    PROVE  \E m \in S : \A k \in S : k <= m
<1> DEFINE T == {k \in 0 .. n : n - k \in S}
<1>1. T \in SUBSET Nat /\ T # {}
  <2>1. PICK s \in S : TRUE
    OBVIOUS
  <2>2. n - s \in 0 .. n /\ n - (n - s) = s
    OBVIOUS
  <2>3. n - s \in T
    BY <2>2
  <2>4. \A k \in 0 .. n : k \in Nat
    OBVIOUS
  <2> QED
    BY <2>3, <2>4
<1>2. PICK l \in T : \A k \in T : l <= k
  <2> HIDE DEF T
  <2> QED
    BY <1>1, LeastExists
<1>3. ASSUME NEW s \in S
      PROVE  s <= n - l
  <2>1. n - s \in T
    OBVIOUS
  <2>2. l <= n - s
    BY <1>2, <2>1
  <2>3. l \in Nat /\ s \in Nat
    OBVIOUS
  <2> QED
    BY <2>2, <2>3
<1> QED
  BY <1>2, <1>3

\* The entry a rollback is about is one of its list.
LEMMA UndoingListed ==
    ASSUME TypeOK, NEW r \in Requests, req[r].undo # {}
    PROVE  /\ Undoing(r) \in req[r].undo
           /\ Undoing(r) \in Ids
<1>1. req[r].undo \in SUBSET Ids
  BY DEF TypeOK, Request
<1>2. req[r].undo \subseteq Nat
  BY <1>1 DEF Ids
<1>3. \E m \in req[r].undo : \A k \in req[r].undo : m <= k
  BY <1>2, LeastExists
<1>4. Undoing(r) \in req[r].undo
  BY <1>3 DEF Undoing
<1> QED
  BY <1>1, <1>4

\* The fields of a request.
LEMMA RequestFields ==
    ASSUME TypeOK, NEW r \in Requests
    PROVE  /\ req[r] \in Request
           /\ req[r].batch \in Seq(Proposal) /\ req[r].batch \in Batches \cup {<<>>}
           /\ req[r].pos \in Nat /\ req[r].applied \in Nat
           /\ req[r].mem \in Ledger /\ req[r].img \in Image
           /\ req[r].undo \in SUBSET Ids /\ req[r].id \in Ids \cup {0}
           /\ req[r].held \in SUBSET Tuned
<1>1. req[r] \in Request
  BY DEF TypeOK
<1>2. req[r].batch \in Batches \cup {<<>>}
  BY <1>1 DEF Request
<1>3. <<>> \in Seq(Proposal)
  OBVIOUS
<1>4. req[r].batch \in Seq(Proposal)
  BY <1>2, <1>3, ConstantsAssumption
<1> QED
  BY <1>1, <1>2, <1>4 DEF Request

\* Entries are numbered from 1 in the order they were made.
LEMMA EntryFacts ==
    ASSUME TypeOK
    PROVE  /\ DOMAIN entry = 1 .. Len(entry) /\ Len(entry) \in Nat
           /\ DOMAIN entry \subseteq Ids
           /\ \A i \in DOMAIN entry : entry[i] \in Entry
<1>1. entry \in Seq(Entry) /\ Len(entry) <= MaxEntries
  BY DEF TypeOK, BookOK
<1>2. DOMAIN entry = 1 .. Len(entry) /\ Len(entry) \in Nat
  BY <1>1
<1>3. \A i \in DOMAIN entry : entry[i] \in Entry
  BY <1>1
<1> QED
  BY <1>1, <1>2, <1>3, ConstantsAssumption DEF Ids

\* The proposal a request is about is one of those an analysis comes up with.
LEMMA CurrentIsProposal ==
    ASSUME TypeOK, NEW r \in Requests, req[r].pos \in DOMAIN req[r].batch
    PROVE  Current(r) \in Proposal
  BY RequestFields DEF Current

\* What a request reads is a ledger, or a config.
LEMMA ReadsAreTyped ==
    ASSUME TypeOK
    PROVE  /\ Load(disk) \in Ledger
           /\ ReadConfig \in Image
<1>1. NoEntries \in Ledger
  BY DEF NoEntries, Ledger
<1>2. NoConfig \in Image
  BY DEF NoConfig, Image
<1> QED
  BY <1>1, <1>2 DEF TypeOK, FilesOK, Load, ReadConfig

LEMMA IdleIsTyped ==
    /\ Idle \in Request
    /\ InPlace(Idle, DOMAIN entry')
<1>1. NoEntries \in Ledger
  BY DEF NoEntries, Ledger
<1> QED
  BY <1>1, ConstantsAssumption
  DEF Idle, Request, InPlace, Labels, Outcomes, AllEndpoints, OfCycle, OfBatch, AtProposal,
      AtEntry

\* A request takes a step: it is enough to look at its own record.
LEMMA StepIsTyped ==
    ASSUME Typed, NEW r \in Requests, NEW q \in Request, Become(r, q),
           InPlace(q, DOMAIN entry'), DOMAIN entry \subseteq DOMAIN entry',
           FilesOK', BookOK', CountOK', HistoryOK'
    PROVE  Typed'
<1>1. req \in [Requests -> Request]
  BY DEF Typed, TypeOK
<1>2. req' \in [Requests -> Request] /\ \A x \in Requests : req'[x] = IF x = r THEN q ELSE req[x]
  BY <1>1 DEF Become
<1>3. ASSUME NEW x \in Requests
      PROVE  InPlace(req'[x], DOMAIN entry')
  <2>1. InPlace(req[x], DOMAIN entry)
    BY DEF Typed
  <2> QED
    BY <1>2, <2>1 DEF InPlace
<1> QED
  BY <1>2, <1>3 DEF Typed, TypeOK

\* What a step leaves alone keeps its type.
LEMMA FramesKeepTypes ==
    ASSUME TypeOK
    PROVE  /\ UNCHANGED files => FilesOK'
           /\ UNCHANGED book => BookOK' /\ DOMAIN entry \subseteq DOMAIN entry'
           /\ UNCHANGED count => CountOK'
           /\ UNCHANGED history => HistoryOK'
  BY DEF TypeOK, files, FilesOK, book, BookOK, count, CountOK, history, HistoryOK

\* A batch overrides a threshold with one of its proposals' values.
LEMMA ProposedIsValue ==
    ASSUME NEW b \in Seq(Proposal), NEW t \in Overridden(b)
    PROVE  Proposed(b, t) \in Values
<1>1. Updates(b, t) \in SUBSET (1 .. Len(b)) /\ Updates(b, t) # {} /\ Len(b) \in Nat
  BY DEF Overridden, Updates
<1>2. \E i \in Updates(b, t) : \A j \in Updates(b, t) : j <= i
  BY <1>1, GreatestExists
<1>3. PICK i \in Updates(b, t) : Proposed(b, t) = b[i].value
  BY <1>2 DEF Proposed
<1>4. b[i] \in Proposal
  BY <1>1
<1> QED
  BY <1>3, <1>4 DEF Proposal

\* A record stays a request when one of its fields and its label change.
LEMMA FieldUpdates ==
    ASSUME NEW q \in Request, NEW l \in Labels
    PROVE  /\ [q EXCEPT !.pc = l] \in Request
           /\ \A m \in Image : [q EXCEPT !.img = m, !.pc = l] \in Request
           /\ \A m \in Ledger : [q EXCEPT !.mem = m, !.pc = l] \in Request
           /\ \A v \in Outcomes : [q EXCEPT !.verdict = v, !.pc = l] \in Request
           /\ \A u \in SUBSET Ids : [q EXCEPT !.undo = u, !.pc = l] \in Request
           /\ \A n \in Nat : [q EXCEPT !.pos = n, !.pc = l] \in Request
           /\ \A n, k \in Nat : [q EXCEPT !.applied = n, !.pos = k, !.pc = l] \in Request
  BY DEF Request

LEMMA OverrideTyped ==
    ASSUME Typed, NEW r \in Requests, NEW t \in Tuned, Override(r, t)
    PROVE  Typed'
<1> DEFINE q == [req[r] EXCEPT !.img[t] = live[t], !.held = @ \cup {t}]
<1>1. live \in Image /\ t \in Targets /\ req[r].batch \in Seq(Proposal)
  BY RequestFields, ConstantsAssumption DEF Typed, TypeOK, FilesOK
<1>2. q \in Request
  BY <1>1, RequestFields DEF Typed, Request, Image
<1>3. InPlace(q, DOMAIN entry')
  BY RequestFields DEF Override, At, book, Typed, Request, InPlace,
      OfCycle, OfBatch, AtProposal, AtEntry
<1>4. live' \in Image
  BY <1>1, ProposedIsValue DEF Override, Image
<1>5. FilesOK'
  BY <1>4 DEF Override, FilesOK, Typed, TypeOK
<1> QED
  BY <1>2, <1>3, <1>5, StepIsTyped, FramesKeepTypes DEF Typed, Override

LEMMA BenchmarkTyped ==
    ASSUME Typed, NEW r \in Requests, Benchmark(r)
    PROVE  Typed'
<1> DEFINE q == [req[r] EXCEPT !.pc = "restore"]
<1>1. q \in Request
  BY RequestFields, FieldUpdates DEF Typed, Labels
<1>2. InPlace(q, DOMAIN entry')
  BY RequestFields DEF Benchmark, At, book, Typed, Request, InPlace,
      OfCycle, OfBatch, AtProposal, AtEntry
<1> QED
  BY <1>1, <1>2, StepIsTyped, FramesKeepTypes DEF Typed, Benchmark, Goto

LEMMA RestoreTyped ==
    ASSUME Typed, NEW r \in Requests, NEW t \in Tuned, Restore(r, t)
    PROVE  Typed'
<1> DEFINE q == [req[r] EXCEPT !.held = @ \ {t}]
<1>1. live \in Image /\ t \in Targets /\ req[r].img \in Image
  BY RequestFields, ConstantsAssumption DEF Typed, TypeOK, FilesOK
<1>2. q \in Request
  BY RequestFields DEF Typed, Request
<1>3. InPlace(q, DOMAIN entry')
  BY RequestFields DEF Restore, At, book, Typed, Request, InPlace,
      OfCycle, OfBatch, AtProposal, AtEntry
<1>4. live' \in Image
  BY <1>1 DEF Restore, Image
<1>5. FilesOK'
  BY <1>4 DEF Restore, FilesOK, Typed, TypeOK
<1> QED
  BY <1>2, <1>3, <1>5, StepIsTyped, FramesKeepTypes DEF Typed, Restore

LEMMA RecommendTyped ==
    ASSUME Typed, NEW r \in Requests, NEW v \in Outcomes, Recommend(r, v)
    PROVE  Typed'
<1> DEFINE q == [req[r] EXCEPT !.verdict = v,
                  !.pc = IF v = "promoted" /\ optIn THEN "open" ELSE "persist"]
<1>1. q \in Request
  BY RequestFields, FieldUpdates DEF Typed, Labels
<1>2. InPlace(q, DOMAIN entry')
  BY RequestFields DEF Recommend, At, book, Typed, Request, InPlace,
      OfCycle, OfBatch, AtProposal, AtEntry
<1> QED
  BY <1>1, <1>2, StepIsTyped, FramesKeepTypes DEF Typed, Recommend

LEMMA OpenTyped ==
    ASSUME Typed, NEW r \in Requests, Open(r)
    PROVE  Typed'
<1> DEFINE q == [req[r] EXCEPT !.mem = Load(disk), !.pc = "apply"]
<1>1. q \in Request
  BY ReadsAreTyped, RequestFields, FieldUpdates DEF Typed, Labels
<1>2. InPlace(q, DOMAIN entry')
  BY RequestFields DEF Open, At, book, Typed, Request, InPlace,
      OfCycle, OfBatch, AtProposal, AtEntry
<1> QED
  BY <1>1, <1>2, StepIsTyped, FramesKeepTypes DEF Typed, Open

LEMMA SkipTyped ==
    ASSUME Typed, NEW r \in Requests, Skip(r)
    PROVE  Typed'
<1> DEFINE q == [req[r] EXCEPT !.pos = @ + 1]
<1>1. q \in Request
  <2>1. req[r].pos + 1 \in Nat
    BY RequestFields DEF Typed
  <2>2. req[r] \in Request
    BY RequestFields DEF Typed
  <2> QED
    BY <2>1, <2>2 DEF Request
<1>2. InPlace(q, DOMAIN entry')
  BY RequestFields DEF Skip, At, book, Typed, Request, InPlace,
      OfCycle, OfBatch, AtProposal, AtEntry
<1> QED
  BY <1>1, <1>2, StepIsTyped, FramesKeepTypes DEF Typed, Skip

LEMMA ReadOriginalTyped ==
    ASSUME Typed, NEW r \in Requests, ReadOriginal(r)
    PROVE  Typed'
<1>1. PICK m \in Image, l \in {"setattr", "truncate", "record"} :
        Become(r, [req[r] EXCEPT !.img = m, !.pc = l])
  <2>1. live \in Image /\ source \in Image /\ ReadConfig \in Image
    BY ReadsAreTyped DEF Typed, TypeOK, FilesOK
  <2> QED
    BY <2>1 DEF ReadOriginal
<1> DEFINE q == [req[r] EXCEPT !.img = m, !.pc = l]
<1>2. q \in Request
  BY RequestFields, FieldUpdates DEF Typed, Labels
<1>3. InPlace(q, DOMAIN entry')
  BY RequestFields DEF ReadOriginal, At, book, Typed, Request, InPlace,
      OfCycle, OfBatch, AtProposal, AtEntry
<1> QED
  BY <1>1, <1>2, <1>3, StepIsTyped, FramesKeepTypes DEF Typed, ReadOriginal

LEMMA SetRuntimeTyped ==
    ASSUME Typed, NEW r \in Requests, SetRuntime(r)
    PROVE  Typed'
<1> DEFINE q == [req[r] EXCEPT !.pc = "record"]
<1>1. q \in Request
  BY RequestFields, FieldUpdates DEF Typed, Labels
<1>2. InPlace(q, DOMAIN entry')
  BY RequestFields DEF SetRuntime, At, book, Typed, Request, InPlace,
      OfCycle, OfBatch, AtProposal, AtEntry
<1>3. Current(r) \in Proposal
  BY CurrentIsProposal DEF SetRuntime, At, Typed, InPlace, AtProposal
<1>4. FilesOK'
  BY <1>3 DEF SetRuntime, Proposal, Image, FilesOK, Typed, TypeOK
<1> QED
  BY <1>1, <1>2, <1>4, StepIsTyped, FramesKeepTypes DEF Typed, SetRuntime, Goto

LEMMA TruncateConfigTyped ==
    ASSUME Typed, NEW r \in Requests, TruncateConfig(r)
    PROVE  Typed'
<1> DEFINE q == [req[r] EXCEPT !.pc = "write"]
<1>1. q \in Request
  BY RequestFields, FieldUpdates DEF Typed, Labels
<1>2. InPlace(q, DOMAIN entry')
  BY RequestFields DEF TruncateConfig, At, book, Typed, Request, InPlace,
      OfCycle, OfBatch, AtProposal, AtEntry
<1>3. FilesOK'
  BY DEF TruncateConfig, FilesOK, Typed, TypeOK
<1> QED
  BY <1>1, <1>2, <1>3, StepIsTyped, FramesKeepTypes DEF Typed, TruncateConfig, Goto

LEMMA WriteConfigTyped ==
    ASSUME Typed, NEW r \in Requests, WriteConfig(r)
    PROVE  Typed'
<1> DEFINE q == [req[r] EXCEPT !.pc = "record"]
<1>1. q \in Request
  BY RequestFields, FieldUpdates DEF Typed, Labels
<1>2. InPlace(q, DOMAIN entry')
  BY RequestFields DEF WriteConfig, At, book, Typed, Request, InPlace,
      OfCycle, OfBatch, AtProposal, AtEntry
<1>3. Current(r) \in Proposal
  BY CurrentIsProposal DEF WriteConfig, At, Typed, InPlace, AtProposal
<1>4. req[r].img \in Image
  BY RequestFields DEF Typed
<1>5. config' \in Image
  BY <1>3, <1>4 DEF WriteConfig, Proposal, Image
<1>6. FilesOK'
  BY <1>5 DEF WriteConfig, FilesOK, Typed, TypeOK
<1> QED
  BY <1>1, <1>2, <1>6, StepIsTyped, FramesKeepTypes DEF Typed, WriteConfig, Goto

LEMMA RecordTyped ==
    ASSUME Typed, NEW r \in Requests, Record(r)
    PROVE  Typed'
<1> DEFINE i == Len(entry) + 1
           p == Current(r)
           e == [cycle |-> req[r].cycle, kind |-> p.kind, target |-> p.target,
                 old |-> req[r].img[p.target], new |-> p.value, category |-> p.category,
                 backup |-> source]
           q == [req[r] EXCEPT !.mem[i] = "applied", !.id = i, !.pc = "save"]
<1>1. i \in Ids
  BY EntryFacts, ConstantsAssumption DEF Record, Ids, Typed
<1>2. p \in Proposal
  BY CurrentIsProposal DEF Record, At, Typed, InPlace, AtProposal
<1>3. e \in Entry
  <2>1. req[r].cycle \in Cycles
    BY DEF Record, At, Typed, InPlace, AtProposal, OfBatch
  <2>2. req[r].img[p.target] \in Values \cup {Absent}
    BY <1>2, RequestFields DEF Typed, Proposal, Image
  <2>3. source \in Image
    BY DEF Typed, TypeOK, FilesOK
  <2> QED
    BY <1>2, <2>1, <2>2, <2>3 DEF Entry, Proposal
<1>4. entry' = Append(entry, e) /\ Become(r, q)
  BY DEF Record
<1>5. entry' \in Seq(Entry) /\ Len(entry') = i /\ DOMAIN entry' = 1 .. i
  <2>1. entry \in Seq(Entry)
    BY DEF Typed, TypeOK, BookOK
  <2> HIDE DEF e
  <2> QED
    BY <1>3, <1>4, <2>1
<1>6. DOMAIN entry \subseteq DOMAIN entry' /\ i \in DOMAIN entry'
  BY <1>5, EntryFacts DEF Typed
<1>7. BookOK'
  BY <1>1, <1>5 DEF Record, BookOK, Typed, TypeOK, Ids
<1>8. q \in Request
  BY <1>1, RequestFields DEF Typed, Request, Labels, Ledger
<1>9. InPlace(q, DOMAIN entry')
  <2>1. InPlace(req[r], DOMAIN entry) /\ req[r].pc = "record" /\ req[r] \in Request
    BY RequestFields DEF Record, At, Typed
  <2> HIDE DEF i
  <2> QED
    BY <1>6, <2>1 DEF Request, InPlace, OfCycle, OfBatch, AtProposal, AtEntry
<1>10. HistoryOK'
  BY <1>1 DEF Record, HistoryOK, Typed, TypeOK
<1>11. FilesOK'
  BY DEF Record, FilesOK, Typed, TypeOK
<1>12. CountOK'
  BY FramesKeepTypes DEF Record, Typed
<1> QED
  BY <1>4, <1>6, <1>7, <1>8, <1>9, <1>10, <1>11, <1>12, StepIsTyped

LEMMA SaveTyped ==
    ASSUME Typed, NEW r \in Requests, Save(r)
    PROVE  Typed'
<1>1. ASSUME Become(r, [req[r] EXCEPT !.pc = "patch"]), FilesOK', HistoryOK'
      PROVE  Typed'
  <2> DEFINE q == [req[r] EXCEPT !.pc = "patch"]
  <2>1. q \in Request
    BY RequestFields, FieldUpdates DEF Typed, Labels
  <2>2. InPlace(q, DOMAIN entry')
    BY RequestFields DEF Save, At, book, Typed, Request, InPlace,
        OfCycle, OfBatch, AtProposal, AtEntry
  <2> QED
    BY <1>1, <2>1, <2>2, StepIsTyped, FramesKeepTypes DEF Typed, Save
<1>2. ASSUME Become(r, [req[r] EXCEPT !.applied = @ + 1, !.pos = @ + 1, !.pc = "apply"]), FilesOK', HistoryOK'
      PROVE  Typed'
  <2> DEFINE q == [req[r] EXCEPT !.applied = @ + 1, !.pos = @ + 1, !.pc = "apply"]
  <2>1. q \in Request
    <3>1. req[r].pos + 1 \in Nat /\ req[r].applied + 1 \in Nat
      BY RequestFields DEF Typed
    <3> QED
      BY <3>1, RequestFields, FieldUpdates DEF Typed, Labels
  <2>2. InPlace(q, DOMAIN entry')
    BY RequestFields DEF Save, At, book, Typed, Request, InPlace,
        OfCycle, OfBatch, AtProposal, AtEntry
  <2> QED
    BY <1>2, <2>1, <2>2, StepIsTyped, FramesKeepTypes DEF Typed, Save
<1>3. req[r].mem \in Ledger
  BY RequestFields DEF Typed
<1>4. FilesOK' /\ HistoryOK'
  BY <1>3, FramesKeepTypes DEF Save, FilesOK, Typed, TypeOK
<1> QED
  BY <1>1, <1>2, <1>4 DEF Save, Goto

LEMMA PatchSourceTyped ==
    ASSUME Typed, NEW r \in Requests, PatchSource(r)
    PROVE  Typed'
<1> DEFINE q == [req[r] EXCEPT !.pc = "reload"]
<1>1. q \in Request
  BY RequestFields, FieldUpdates DEF Typed, Labels
<1>2. InPlace(q, DOMAIN entry')
  BY RequestFields DEF PatchSource, At, book, Typed, Request, InPlace,
      OfCycle, OfBatch, AtProposal, AtEntry
<1>3. Current(r) \in Proposal
  BY CurrentIsProposal DEF PatchSource, At, Typed, InPlace, AtProposal
<1>4. req[r].img \in Image
  BY RequestFields DEF Typed
<1>5. source' \in Image
  BY <1>3, <1>4 DEF PatchSource, Proposal, Image
<1>6. FilesOK'
  BY <1>5 DEF PatchSource, FilesOK, Typed, TypeOK
<1>7. req[r].id \in Ids
  BY EntryFacts DEF PatchSource, At, Typed, InPlace
<1>8. HistoryOK'
  BY <1>7 DEF PatchSource, HistoryOK, Typed, TypeOK
<1> QED
  BY <1>1, <1>2, <1>6, <1>8, StepIsTyped, FramesKeepTypes DEF Typed, PatchSource, Goto

LEMMA ReloadTyped ==
    ASSUME Typed, NEW r \in Requests, Reload(r)
    PROVE  Typed'
<1>1. ASSUME Become(r, [req[r] EXCEPT !.applied = @ + 1, !.pos = @ + 1, !.pc = "apply"]), FilesOK', HistoryOK'
      PROVE  Typed'
  <2> DEFINE q == [req[r] EXCEPT !.applied = @ + 1, !.pos = @ + 1, !.pc = "apply"]
  <2>1. q \in Request
    <3>1. req[r].pos + 1 \in Nat /\ req[r].applied + 1 \in Nat
      BY RequestFields DEF Typed
    <3> QED
      BY <3>1, RequestFields, FieldUpdates DEF Typed, Labels
  <2>2. InPlace(q, DOMAIN entry')
    BY RequestFields DEF Reload, At, book, Typed, Request, InPlace,
        OfCycle, OfBatch, AtProposal, AtEntry
  <2> QED
    BY <1>1, <2>1, <2>2, StepIsTyped, FramesKeepTypes DEF Typed, Reload
<1>2. ASSUME Become(r, [req[r] EXCEPT !.pos = @ + 1, !.pc = "apply"]), FilesOK', HistoryOK'
      PROVE  Typed'
  <2> DEFINE q == [req[r] EXCEPT !.pos = @ + 1, !.pc = "apply"]
  <2>1. q \in Request
    <3>1. req[r].pos + 1 \in Nat /\ req[r].applied + 1 \in Nat
      BY RequestFields DEF Typed
    <3> QED
      BY <3>1, RequestFields, FieldUpdates DEF Typed, Labels
  <2>2. InPlace(q, DOMAIN entry')
    BY RequestFields DEF Reload, At, book, Typed, Request, InPlace,
        OfCycle, OfBatch, AtProposal, AtEntry
  <2> QED
    BY <1>2, <2>1, <2>2, StepIsTyped, FramesKeepTypes DEF Typed, Reload
<1>3. FilesOK' /\ HistoryOK'
  BY FramesKeepTypes DEF Reload, FilesOK, Typed, TypeOK
<1> QED
  BY <1>1, <1>2, <1>3 DEF Reload

LEMMA EndBatchTyped ==
    ASSUME Typed, NEW r \in Requests, EndBatch(r)
    PROVE  Typed'
<1>1. ASSUME Become(r, Idle)
      PROVE  Typed'
  BY <1>1, IdleIsTyped, StepIsTyped, FramesKeepTypes DEF Typed, EndBatch
<1>2. ASSUME NEW l \in {"persist", "smoke"}, req[r].op = "cycle",
             Become(r, [req[r] EXCEPT !.pc = l])
      PROVE  Typed'
  <2> DEFINE q == [req[r] EXCEPT !.pc = l]
  <2>1. q \in Request
    BY RequestFields, FieldUpdates DEF Typed, Labels
  <2>2. InPlace(q, DOMAIN entry')
    BY <1>2, RequestFields DEF EndBatch, At, book, Typed, Request, InPlace,
        OfCycle, OfBatch, AtProposal, AtEntry
  <2> QED
    BY <1>2, <2>1, <2>2, StepIsTyped, FramesKeepTypes DEF Typed, EndBatch
<1> QED
  BY <1>1, <1>2 DEF EndBatch, Return, Goto

LEMMA SmokeTestTyped ==
    ASSUME Typed, NEW r \in Requests, SmokeTest(r)
    PROVE  Typed'
<1> DEFINE u == ActiveByCycle(req[r].mem, req[r].cycle)
<1>1. u \in SUBSET Ids /\ u \subseteq DOMAIN entry
  BY EntryFacts DEF ActiveByCycle, Typed
<1>2. PICK q \in {[req[r] EXCEPT !.pc = "persist"], [req[r] EXCEPT !.undo = u, !.pc = "undo"],
                  [req[r] EXCEPT !.verdict = "failed", !.pc = "persist"]} : Become(r, q)
  BY DEF SmokeTest, Goto
<1>3. q \in Request
  <2> HIDE DEF u
  <2>1. "failed" \in Outcomes /\ "persist" \in Labels /\ "undo" \in Labels
    BY DEF Labels, Outcomes
  <2>2. req[r] \in Request
    BY RequestFields DEF Typed
  <2>3. [req[r] EXCEPT !.pc = "persist"] \in Request
    BY <2>1, <2>2, FieldUpdates
  <2>4. [req[r] EXCEPT !.undo = u, !.pc = "undo"] \in Request
    BY <1>1, <2>1, <2>2, FieldUpdates
  <2>5. [req[r] EXCEPT !.verdict = "failed", !.pc = "persist"] \in Request
    BY <2>1, <2>2, FieldUpdates
  <2> QED
    BY <2>3, <2>4, <2>5
<1>4. InPlace(q, DOMAIN entry')
  <2> HIDE DEF u
  <2> QED
    BY <1>1, RequestFields DEF SmokeTest, At, book, Typed, Request, InPlace,
        OfCycle, OfBatch, AtProposal, AtEntry
<1> QED
  BY <1>2, <1>3, <1>4, StepIsTyped, FramesKeepTypes DEF Typed, SmokeTest

LEMMA UndoRuntimeTyped ==
    ASSUME Typed, NEW r \in Requests, UndoRuntime(r)
    PROVE  Typed'
<1> DEFINE q == [req[r] EXCEPT !.pc = "mark"]
<1>1. q \in Request
  BY RequestFields, FieldUpdates DEF Typed, Labels
<1>2. InPlace(q, DOMAIN entry')
  BY RequestFields DEF UndoRuntime, AtUndo, At, book, Typed, Request, InPlace,
      OfCycle, OfBatch, AtProposal, AtEntry
<1>3. entry[Undoing(r)] \in Entry /\ Undoing(r) \in Ids
  <2>1. req[r].undo # {} /\ req[r].undo \subseteq DOMAIN entry
    BY DEF UndoRuntime, AtUndo, At, Typed, InPlace, AtEntry
  <2> QED
    BY <2>1, UndoingListed, EntryFacts DEF Typed
<1>4. live' \in Image
  <2>1. live \in Image /\ entry[Undoing(r)].old \in Values \cup {Absent}
    BY <1>3 DEF Entry, Typed, TypeOK, FilesOK
  <2> QED
    BY <2>1 DEF UndoRuntime, Image
<1>5. FilesOK'
  BY <1>4 DEF UndoRuntime, FilesOK, Typed, TypeOK
<1>6. HistoryOK'
  BY <1>3 DEF UndoRuntime, Restored, HistoryOK, Typed, TypeOK
<1> QED
  BY <1>1, <1>2, <1>5, <1>6, StepIsTyped, FramesKeepTypes DEF Typed, UndoRuntime, Goto

LEMMA UndoSourceTyped ==
    ASSUME Typed, NEW r \in Requests, UndoSource(r)
    PROVE  Typed'
<1> DEFINE q == [req[r] EXCEPT !.pc = "unload"]
<1>1. q \in Request
  BY RequestFields, FieldUpdates DEF Typed, Labels
<1>2. InPlace(q, DOMAIN entry')
  BY RequestFields DEF UndoSource, AtUndo, At, book, Typed, Request, InPlace,
      OfCycle, OfBatch, AtProposal, AtEntry
<1>3. entry[Undoing(r)] \in Entry /\ Undoing(r) \in Ids
  <2>1. req[r].undo # {} /\ req[r].undo \subseteq DOMAIN entry
    BY DEF UndoSource, AtUndo, At, Typed, InPlace, AtEntry
  <2> QED
    BY <2>1, UndoingListed, EntryFacts DEF Typed
<1>4. source' \in Image
  BY <1>3 DEF UndoSource, Entry
<1>5. FilesOK'
  BY <1>4 DEF UndoSource, FilesOK, Typed, TypeOK
<1> QED
  BY <1>1, <1>2, <1>5, StepIsTyped, FramesKeepTypes DEF Typed, UndoSource, Goto

\* Going on to the next entry, from any label of a rollback.
LEMMA LeaveTyped ==
    ASSUME Typed, NEW r \in Requests, Leave(r), req[r].pc \in AtEntry \cup {"undo"},
           FilesOK', HistoryOK', UNCHANGED <<book, count>>
    PROVE  Typed'
<1> DEFINE u == req[r].undo \ {Undoing(r)}
           q == [req[r] EXCEPT !.undo = u, !.pc = "undo"]
<1>1. u \in SUBSET Ids /\ u \subseteq DOMAIN entry
  BY RequestFields DEF Typed, InPlace
<1>2. "undo" \in Labels
  BY DEF Labels
<1>3. q \in Request
  BY <1>1, <1>2, RequestFields, FieldUpdates DEF Typed
<1>4. InPlace(q, DOMAIN entry')
  <2>1. entry' = entry
    BY DEF book
  <2> HIDE DEF u
  <2> QED
    BY <1>1, <2>1, RequestFields DEF Typed, Request, InPlace,
        OfCycle, OfBatch, AtProposal, AtEntry
<1>5. Become(r, q)
  BY DEF Leave
<1> QED
  BY <1>3, <1>4, <1>5, StepIsTyped, FramesKeepTypes DEF Typed

LEMMA UndoReloadTyped ==
    ASSUME Typed, NEW r \in Requests, UndoReload(r)
    PROVE  Typed'
<1>1. Undoing(r) \in Ids
  <2>1. req[r].undo # {}
    BY DEF UndoReload, At, Typed, InPlace, AtEntry
  <2> QED
    BY <2>1, UndoingListed DEF Typed
<1>2. FilesOK'
  BY DEF UndoReload, FilesOK, Typed, TypeOK
<1>3. HistoryOK'
  BY <1>1 DEF UndoReload, Restored, HistoryOK, Typed, TypeOK
<1>4. CASE Leave(r)
  BY <1>2, <1>3, <1>4, LeaveTyped DEF UndoReload, At, AtEntry
<1>5. CASE Goto(r, "mark")
  <2> DEFINE q == [req[r] EXCEPT !.pc = "mark"]
  <2>1. q \in Request
    BY RequestFields, FieldUpdates DEF Typed, Labels
  <2>2. InPlace(q, DOMAIN entry')
    BY RequestFields DEF UndoReload, At, book, Typed, Request, InPlace,
        OfCycle, OfBatch, AtProposal, AtEntry
  <2> QED
    BY <1>2, <1>3, <1>5, <2>1, <2>2, StepIsTyped, FramesKeepTypes DEF Typed, UndoReload, Goto
<1> QED
  BY <1>4, <1>5 DEF UndoReload

LEMMA UndoConfigTyped ==
    ASSUME Typed, NEW r \in Requests, UndoConfig(r)
    PROVE  Typed'
<1>1. HistoryOK'
  BY FramesKeepTypes DEF UndoConfig, Typed
<1>2. FilesOK'
  BY DEF UndoConfig, FilesOK, Typed, TypeOK
<1>3. CASE Leave(r)
  BY <1>1, <1>2, <1>3, LeaveTyped DEF UndoConfig, AtUndo, At
<1>4. CASE config # Torn /\ Become(r, [req[r] EXCEPT !.img = config, !.pc = "rewrite"])
  <2> DEFINE q == [req[r] EXCEPT !.img = config, !.pc = "rewrite"]
  <2>1. config \in Image
    BY <1>4 DEF Typed, TypeOK, FilesOK
  <2>2. q \in Request
    BY <2>1, RequestFields, FieldUpdates DEF Typed, Labels
  <2>3. InPlace(q, DOMAIN entry')
    BY RequestFields DEF UndoConfig, AtUndo, At, book, Typed, Request, InPlace,
        OfCycle, OfBatch, AtProposal, AtEntry
  <2> QED
    BY <1>1, <1>2, <1>4, <2>2, <2>3, StepIsTyped, FramesKeepTypes DEF Typed, UndoConfig
<1> QED
  BY <1>3, <1>4 DEF UndoConfig

LEMMA RewriteConfigTyped ==
    ASSUME Typed, NEW r \in Requests, RewriteConfig(r)
    PROVE  Typed'
<1> DEFINE q == [req[r] EXCEPT !.pc = "mark"]
<1>1. q \in Request
  BY RequestFields, FieldUpdates DEF Typed, Labels
<1>2. InPlace(q, DOMAIN entry')
  BY RequestFields DEF RewriteConfig, AtUndo, At, book, Typed, Request, InPlace,
      OfCycle, OfBatch, AtProposal, AtEntry
<1>3. entry[Undoing(r)] \in Entry /\ Undoing(r) \in Ids
  <2>1. req[r].undo # {} /\ req[r].undo \subseteq DOMAIN entry
    BY DEF RewriteConfig, AtUndo, At, Typed, InPlace, AtEntry
  <2> QED
    BY <2>1, UndoingListed, EntryFacts DEF Typed
<1>4. config' \in Image
  <2>1. req[r].img \in Image /\ entry[Undoing(r)].old \in Values \cup {Absent}
    BY <1>3, RequestFields DEF Entry, Typed
  <2> QED
    BY <2>1 DEF RewriteConfig, Image
<1>5. FilesOK'
  BY <1>4 DEF RewriteConfig, FilesOK, Typed, TypeOK
<1>6. HistoryOK'
  BY <1>3 DEF RewriteConfig, Restored, HistoryOK, Typed, TypeOK
<1> QED
  BY <1>1, <1>2, <1>5, <1>6, StepIsTyped, FramesKeepTypes DEF Typed, RewriteConfig, Goto

LEMMA MarkTyped ==
    ASSUME Typed, NEW r \in Requests, Mark(r)
    PROVE  Typed'
<1> DEFINE q == [req[r] EXCEPT !.mem[Undoing(r)] = "rolled_back", !.pc = "saved"]
<1>1. q \in Request
  BY RequestFields DEF Typed, Request, Labels, Ledger
<1>2. InPlace(q, DOMAIN entry')
  BY RequestFields DEF Mark, AtUndo, At, book, Typed, Request, InPlace,
      OfCycle, OfBatch, AtProposal, AtEntry
<1>3. FilesOK'
  BY DEF Mark, FilesOK, Typed, TypeOK
<1> QED
  BY <1>1, <1>2, <1>3, StepIsTyped, FramesKeepTypes DEF Typed, Mark

LEMMA SaveMarkTyped ==
    ASSUME Typed, NEW r \in Requests, SaveMark(r)
    PROVE  Typed'
<1>1. req[r].mem \in Ledger
  BY RequestFields DEF Typed
<1>2. FilesOK'
  BY <1>1 DEF SaveMark, FilesOK, Typed, TypeOK
<1> QED
  BY <1>2, LeaveTyped, FramesKeepTypes DEF Typed, SaveMark, At, AtEntry

LEMMA EndUndoTyped ==
    ASSUME Typed, NEW r \in Requests, EndUndo(r)
    PROVE  Typed'
<1>1. CASE Become(r, Idle)
  BY <1>1, IdleIsTyped, StepIsTyped, FramesKeepTypes DEF Typed, EndUndo
<1>2. CASE req[r].op = "cycle" /\ Goto(r, "persist")
  <2> DEFINE q == [req[r] EXCEPT !.pc = "persist"]
  <2>1. q \in Request
    BY RequestFields, FieldUpdates DEF Typed, Labels
  <2>2. InPlace(q, DOMAIN entry')
    BY <1>2, RequestFields DEF EndUndo, At, book, Typed, Request, InPlace,
        OfCycle, OfBatch, AtProposal, AtEntry
  <2> QED
    BY <1>2, <2>1, <2>2, StepIsTyped, FramesKeepTypes DEF Typed, EndUndo, Goto
<1> QED
  BY <1>1, <1>2 DEF EndUndo, Return

LEMMA TruncateRecordTyped ==
    ASSUME Typed, NEW r \in Requests, TruncateRecord(r)
    PROVE  Typed'
<1> DEFINE q == [req[r] EXCEPT !.pc = "keep"]
<1>1. q \in Request
  BY RequestFields, FieldUpdates DEF Typed, Labels
<1>2. InPlace(q, DOMAIN entry')
  BY RequestFields DEF TruncateRecord, At, Typed, Request, InPlace,
      OfCycle, OfBatch, AtProposal, AtEntry
<1>3. [outcome |-> "torn", proposals |-> <<>>] \in CycleRecord
  BY DEF CycleRecord
<1>4. BookOK' /\ entry' = entry
  BY <1>3 DEF TruncateRecord, BookOK, Typed, TypeOK
<1> QED
  BY <1>1, <1>2, <1>4, StepIsTyped, FramesKeepTypes DEF Typed, TruncateRecord, Goto

LEMMA PersistTyped ==
    ASSUME Typed, NEW r \in Requests, Persist(r)
    PROVE  Typed'
<1>1. [outcome |-> req[r].verdict, proposals |-> req[r].batch] \in CycleRecord
  BY RequestFields DEF Typed, Request, CycleRecord
<1>2. BookOK'
  BY <1>1 DEF Persist, BookOK, Typed, TypeOK
<1>3. entry' = entry
  BY DEF Persist
<1> QED
  BY <1>2, <1>3, IdleIsTyped, StepIsTyped, FramesKeepTypes DEF Typed, Persist, Return

\* A request begins: it is idle but for what it was asked.
LEMMA BeginTyped ==
    ASSUME Typed, NEW r \in Requests, NEW e, Begin(r, e), BookOK',
           NEW q \in Request, Become(r, q), InPlace(q, DOMAIN entry)
    PROVE  Typed'
<1>1. CountOK' /\ HistoryOK' /\ entry' = entry
  BY DEF Begin, CountOK, HistoryOK, Typed, TypeOK
<1>2. FilesOK'
  BY FramesKeepTypes DEF Begin, Typed, files
<1> QED
  BY <1>1, <1>2, StepIsTyped

LEMMA StartCycleTyped ==
    ASSUME Typed, NEW r \in Threads, NEW c \in Cycles, NEW b \in Batches \cup {<<>>},
           StartCycle(r, c, b)
    PROVE  Typed'
<1> DEFINE l == IF b = <<>> THEN "persist" ELSE "validate"
           q == [Idle EXCEPT !.op = "cycle", !.cycle = c, !.batch = b, !.pc = l]
<1>1. q \in Request
  <2>1. l \in Labels /\ "cycle" \in AllEndpoints \cup {"none"}
    BY DEF Labels, AllEndpoints
  <2>2. Idle \in Request /\ c \in Cycles \cup {NoCycle}
    BY IdleIsTyped
  <2> HIDE DEF l
  <2> QED
    BY <2>1, <2>2 DEF Request
<1>2. InPlace(q, DOMAIN entry)
  BY DEF Idle, InPlace, OfCycle, OfBatch, AtProposal, AtEntry
<1>3. BookOK'
  BY DEF StartCycle, Begin, BookOK, Typed, TypeOK
<1>4. Begin(r, "cycle") /\ Become(r, q)
  BY DEF StartCycle
<1> HIDE DEF q
<1> QED
  BY <1>1, <1>2, <1>3, <1>4, BeginTyped DEF Requests

LEMMA StartInjectTyped ==
    ASSUME Typed, NEW r \in Threads, NEW c \in Cycles, StartInject(r, c)
    PROVE  Typed'
<1> DEFINE b == cycle[c].proposals
           q == [Idle EXCEPT !.op = "inject", !.cycle = c, !.batch = b, !.pc = "open"]
<1>1. b \in Batches \cup {<<>>}
  BY DEF Typed, TypeOK, BookOK, CycleRecord
<1>2. q \in Request
  <2> HIDE DEF b
  <2> QED
    BY <1>1, IdleIsTyped DEF Request, Labels, AllEndpoints
<1>3. InPlace(q, DOMAIN entry)
  BY DEF Idle, InPlace, OfCycle, OfBatch, AtProposal, AtEntry
<1>4. BookOK'
  BY DEF StartInject, Begin, BookOK, Typed, TypeOK
<1>5. Begin(r, "inject") /\ Become(r, q)
  BY DEF StartInject
<1> HIDE DEF q
<1> QED
  BY <1>2, <1>3, <1>4, <1>5, BeginTyped DEF Requests

LEMMA StartUndoTyped ==
    ASSUME Typed, NEW e \in {"rollback", "rollback_cycle"}, NEW ids \in SUBSET DOMAIN entry,
           StartUndo(e, ids)
    PROVE  Typed'
<1> DEFINE q == [Idle EXCEPT !.op = e, !.undo = ids, !.mem = Load(disk), !.pc = "undo"]
<1>1. ids \in SUBSET Ids /\ Load(disk) \in Ledger
  BY EntryFacts, ReadsAreTyped DEF Typed
<1>2. q \in Request
  <2>1. ids \in SUBSET Ids /\ Load(disk) \in Ledger /\ Idle \in Request
    BY <1>1, IdleIsTyped
  <2>2. e \in AllEndpoints \cup {"none"} /\ "undo" \in Labels
    BY DEF AllEndpoints, Labels
  <2> QED
    BY <2>1, <2>2 DEF Request
<1>3. InPlace(q, DOMAIN entry)
  BY DEF Idle, InPlace, OfCycle, OfBatch, AtProposal, AtEntry
<1>4. BookOK'
  BY DEF StartUndo, Begin, BookOK, Typed, TypeOK
<1>5. Begin(EventLoop, e) /\ Become(EventLoop, q)
  BY DEF StartUndo
<1> HIDE DEF q
<1> QED
  BY <1>2, <1>3, <1>4, <1>5, BeginTyped DEF Requests

LEMMA CrashTyped ==
    ASSUME Typed, Crash
    PROVE  Typed'
<1>1. FilesOK' /\ BookOK' /\ CountOK' /\ HistoryOK' /\ entry' = entry
  BY DEF Crash, Typed, TypeOK, FilesOK, book, BookOK, CountOK, HistoryOK
<1>2. req' = [r \in Requests |-> Idle]
  BY DEF Crash
<1> QED
  BY <1>1, <1>2, IdleIsTyped DEF Typed, TypeOK

LEMMA InitTyped == Init => Typed
<1> SUFFICES ASSUME Init
             PROVE  Typed
  OBVIOUS
<1>1. NoEntries \in Ledger /\ NoConfig \in Image /\ Initial \in Image
  BY ConstantsAssumption DEF NoEntries, Ledger, NoConfig, Image
<1>2. FilesOK /\ CountOK /\ HistoryOK
  BY <1>1 DEF Init, FilesOK, CountOK, HistoryOK
<1>3. entry = <<>> /\ BookOK
  BY ConstantsAssumption DEF Init, BookOK, CycleRecord
<1>4. req = [r \in Requests |-> Idle]
  BY DEF Init
<1>5. Idle \in Request
  BY IdleIsTyped
<1>6. InPlace(Idle, DOMAIN entry)
  BY DEF Idle, InPlace, OfCycle, OfBatch, AtProposal, AtEntry
<1> QED
  BY <1>2, <1>3, <1>4, <1>5, <1>6 DEF Typed, TypeOK

LEMMA NextTyped == Typed /\ [Next]_vars => Typed'
<1> SUFFICES ASSUME Typed, [Next]_vars
             PROVE  Typed'
  OBVIOUS
<1>1. ASSUME NEW r \in Threads, NEW c \in Cycles, NEW b \in Batches \cup {<<>>},
             StartCycle(r, c, b)
      PROVE  Typed'
  BY <1>1, StartCycleTyped
<1>2. ASSUME NEW r \in Threads, NEW c \in Cycles, StartInject(r, c)
      PROVE  Typed'
  BY <1>2, StartInjectTyped
<1>3. ASSUME NEW i \in Ids, StartRollback(i)
      PROVE  Typed'
  BY <1>3, StartUndoTyped DEF StartRollback
<1>4. ASSUME NEW c \in Cycles, StartRollbackCycle(c)
      PROVE  Typed'
  BY <1>4, StartUndoTyped DEF StartRollbackCycle, ActiveByCycle
<1>5. ASSUME NEW r \in Requests, Step(r)
      PROVE  Typed'
  <2>1. CASE \/ \E t \in Tuned : Override(r, t) \/ Restore(r, t)
             \/ \E v \in Outcomes \ {"no_proposals"} : Recommend(r, v)
    BY <2>1, OverrideTyped, RestoreTyped, RecommendTyped
  <2>2. CASE Benchmark(r) \/ Open(r) \/ Skip(r) \/ ReadOriginal(r) \/ SetRuntime(r)
    BY <2>2, BenchmarkTyped, OpenTyped, SkipTyped, ReadOriginalTyped, SetRuntimeTyped
  <2>3. CASE TruncateConfig(r) \/ WriteConfig(r) \/ Record(r) \/ Save(r) \/ PatchSource(r)
    BY <2>3, TruncateConfigTyped, WriteConfigTyped, RecordTyped, SaveTyped, PatchSourceTyped
  <2>4. CASE Reload(r) \/ EndBatch(r) \/ SmokeTest(r)
    BY <2>4, ReloadTyped, EndBatchTyped, SmokeTestTyped
  <2>5. CASE UndoRuntime(r) \/ UndoSource(r) \/ UndoReload(r) \/ UndoConfig(r)
    BY <2>5, UndoRuntimeTyped, UndoSourceTyped, UndoReloadTyped, UndoConfigTyped
  <2>6. CASE \/ RewriteConfig(r) \/ Mark(r) \/ SaveMark(r) \/ EndUndo(r)
             \/ TruncateRecord(r) \/ Persist(r)
    BY <2>6, RewriteConfigTyped, MarkTyped, SaveMarkTyped, EndUndoTyped, TruncateRecordTyped,
       PersistTyped
  <2> QED
    BY <1>5, <2>1, <2>2, <2>3, <2>4, <2>5, <2>6 DEF Step
<1>6. CASE Crash
  BY <1>6, CrashTyped
<1>7. CASE UNCHANGED vars
  <2>1. UNCHANGED <<files, book, count, history>> /\ req' = req /\ entry' = entry
    BY <1>7 DEF vars, book
  <2> QED
    BY <2>1, FramesKeepTypes DEF Typed, TypeOK
<1> QED
  BY <1>1, <1>2, <1>3, <1>4, <1>5, <1>6, <1>7 DEF Next

\* Whatever requests do and wherever the process is stopped, a request has at
\* hand what its next step is about.
THEOREM TypedAlways == Spec => []Typed
  BY InitTyped, NextTyped, PTL DEF Spec

\* Every variable keeps its type (the state self_improve.py, applicator.py and
\* rollback.py share).
THEOREM TypeCorrect == Spec => []TypeOK
<1>1. Typed => TypeOK
  BY DEF Typed
<1> QED
  BY <1>1, TypedAlways, PTL

------------------------------------------------------------------------------
(* The ledger is truthful.  A request may save its own copy at any time, so *)
(* every copy has to be; and what a rollback marks has to be undone by then. *)

Truthful(m, es, d, u) ==
    \A i \in Ids :
        /\ m[i] = "rolled_back" => i \in u
        /\ m[i] # "none" => i \in DOMAIN es /\ (es[i].kind # "source_patch" => i \in d)

Least(s) == CHOOSE i \in s : \A j \in s : i <= j
Early == {"validate", "restore", "open"}

HonestRequest(q, es, d, u) ==
    /\ Truthful(q.mem, es, d, u)
    /\ \A i \in q.undo : q.mem[i] # "none"
    /\ q.pc \in Early => q.undo = {}
    /\ q.pc = "mark" => Least(q.undo) \in u

Honest == /\ Truthful(Load(disk), entry, done, undone)
          /\ \A r \in Requests : HonestRequest(req[r], entry, done, undone)

\* Entries, and what has happened to them, only ever grow.
Growing ==
    /\ \A i \in DOMAIN entry : i \in DOMAIN entry' /\ entry'[i] = entry[i]
    /\ done \subseteq done' /\ undone \subseteq undone'

LEMMA TruthGrows ==
    ASSUME NEW m, Growing, Truthful(m, entry, done, undone)
    PROVE  Truthful(m, entry', done', undone')
  BY DEF Truthful, Growing

LEMMA NothingIsTruthful == Truthful(NoEntries, entry', done', undone')
  BY DEF Truthful, NoEntries

LEMMA IdleIsHonest == HonestRequest(Idle, entry', done', undone')
  BY NothingIsTruthful DEF HonestRequest, Idle, Early

\* A request takes a step: it is enough to look at its own record and the file.
LEMMA HonestStep ==
    ASSUME Typed, Honest, Growing, NEW r \in Requests, NEW q, Become(r, q),
           Truthful(Load(disk'), entry', done', undone'),
           HonestRequest(q, entry', done', undone')
    PROVE  Honest'
<1>1. \A x \in Requests : req'[x] = IF x = r THEN q ELSE req[x]
  BY DEF Become, Typed, TypeOK
<1>2. ASSUME NEW x \in Requests, x # r
      PROVE  HonestRequest(req[x], entry', done', undone')
  <2>1. HonestRequest(req[x], entry, done, undone)
    BY DEF Honest
  <2>2. Truthful(req[x].mem, entry', done', undone')
    BY <2>1, TruthGrows DEF HonestRequest
  <2> QED
    BY <2>1, <2>2 DEF HonestRequest, Growing
<1>3. \A x \in Requests : HonestRequest(req'[x], entry', done', undone')
  BY <1>1, <1>2
<1> QED
  BY <1>3 DEF Honest

\* The steps that touch neither the ledger nor a copy of it.
Quiet(r) ==
    /\ entry' = entry /\ disk' \in {disk, Torn}
    /\ done \subseteq done' /\ undone \subseteq undone'
    /\ \E q : /\ Become(r, q)
             /\ \/ q = Idle
                \/ /\ q.mem = req[r].mem /\ q.undo \subseteq req[r].undo
                   /\ q.pc \in Early => req[r].pc \in Early
                   /\ q.pc = "mark" => Least(q.undo) \in undone'

LEMMA QuietBy ==
    ASSUME NEW r \in Requests, NEW q, Become(r, q), entry' = entry, disk' \in {disk, Torn},
           done \subseteq done', undone \subseteq undone',
           q.mem = req[r].mem, q.undo \subseteq req[r].undo,
           q.pc \in Early => req[r].pc \in Early,
           q.pc = "mark" => Least(q.undo) \in undone'
    PROVE  Quiet(r)
  BY DEF Quiet

LEMMA QuietIsHonest ==
    ASSUME Typed, Honest, NEW r \in Requests, Quiet(r)
    PROVE  Honest'
<1>1. Growing
  BY DEF Quiet, Growing
<1>2. PICK q : /\ Become(r, q)
              /\ \/ q = Idle
                 \/ /\ q.mem = req[r].mem /\ q.undo \subseteq req[r].undo
                    /\ q.pc \in Early => req[r].pc \in Early
                    /\ q.pc = "mark" => Least(q.undo) \in undone'
  BY DEF Quiet
<1>3. HonestRequest(q, entry', done', undone')
  <2>1. CASE q = Idle
    BY <2>1, IdleIsHonest
  <2>2. CASE q # Idle
    <3>1. HonestRequest(req[r], entry, done, undone)
      BY DEF Honest
    <3>2. Truthful(q.mem, entry', done', undone')
      BY <1>1, <1>2, <2>2, <3>1, TruthGrows DEF HonestRequest
    <3> QED
      BY <1>2, <2>2, <3>1, <3>2 DEF HonestRequest
  <2> QED
    BY <2>1, <2>2
<1>4. Truthful(Load(disk'), entry', done', undone')
  <2>1. CASE disk' = disk
    BY <1>1, <2>1, TruthGrows DEF Honest
  <2>2. CASE disk' = Torn
    BY <2>2, NothingIsTruthful DEF Load
  <2> QED
    BY <2>1, <2>2 DEF Quiet
<1> QED
  BY <1>1, <1>2, <1>3, <1>4, HonestStep

LEMMA StepsAreQuiet ==
    ASSUME Typed, Honest, NEW r \in Requests
    PROVE  /\ (\E t \in Tuned : Override(r, t) \/ Restore(r, t)) => Quiet(r)
           /\ Benchmark(r) \/ (\E v \in Outcomes : Recommend(r, v)) => Quiet(r)
           /\ Skip(r) \/ ReadOriginal(r) \/ SetRuntime(r) \/ TruncateConfig(r) => Quiet(r)
           /\ WriteConfig(r) \/ PatchSource(r) \/ Reload(r) \/ EndBatch(r) => Quiet(r)
           /\ UndoSource(r) \/ UndoConfig(r) \/ EndUndo(r) => Quiet(r)
           /\ TruncateRecord(r) \/ Persist(r) => Quiet(r)
           /\ UndoRuntime(r) \/ UndoReload(r) \/ RewriteConfig(r) => Quiet(r)
<1>1. req[r] \in Request
  BY RequestFields DEF Typed
<1>2. ASSUME NEW t \in Tuned, Override(r, t) \/ Restore(r, t)
      PROVE  Quiet(r)
  <2>1. PICK q \in {[req[r] EXCEPT !.img[t] = live[t], !.held = @ \cup {t}],
                    [req[r] EXCEPT !.held = @ \ {t}]} : Become(r, q)
    BY <1>2 DEF Override, Restore
  <2>2. q.mem = req[r].mem /\ q.undo = req[r].undo /\ q.pc = req[r].pc
    BY <1>1 DEF Request
  <2>3. entry' = entry /\ disk' = disk /\ done' = done /\ undone' = undone
    BY <1>2 DEF Override, Restore, book, history
  <2>4. q.pc # "mark"
    BY <1>2, <2>2 DEF Override, Restore, At
  <2> QED
    BY <2>1, <2>2, <2>3, <2>4, QuietBy
<1>3. ASSUME NEW v \in Outcomes, Recommend(r, v)
      PROVE  Quiet(r)
  <2> DEFINE l == IF v = "promoted" /\ optIn THEN "open" ELSE "persist"
             q == [req[r] EXCEPT !.verdict = v, !.pc = l]
  <2>1. q.mem = req[r].mem /\ q.undo = req[r].undo /\ q.pc \in {"open", "persist"}
    BY <1>1 DEF Request
  <2>2. Become(r, q) /\ entry' = entry /\ disk' = disk /\ done' = done /\ undone' = undone
    BY <1>3 DEF Recommend, files, book, history
  <2> QED
    BY <1>3, <2>1, <2>2, QuietBy DEF Recommend, At, Early
<1>4. ASSUME ReadOriginal(r)
      PROVE  Quiet(r)
  <2>1. PICK m \in {live, source, ReadConfig}, l \in {"setattr", "truncate", "record"} :
          Become(r, [req[r] EXCEPT !.img = m, !.pc = l])
    BY <1>4 DEF ReadOriginal
  <2> DEFINE q == [req[r] EXCEPT !.img = m, !.pc = l]
  <2>2. q.mem = req[r].mem /\ q.undo = req[r].undo /\ q.pc = l
    BY <1>1 DEF Request
  <2>3. entry' = entry /\ disk' = disk /\ done' = done /\ undone' = undone
    BY <1>4 DEF ReadOriginal, files, book, history
  <2> HIDE DEF q
  <2>4. Become(r, q)
    BY <2>1 DEF q
  <2> QED
    BY <2>2, <2>3, <2>4, QuietBy DEF Early
<1>5. Skip(r) => Quiet(r)
  BY <1>1 DEF Skip, Request, Quiet, At, files, book, history, Early
<1>6. SetRuntime(r) => Quiet(r)
  BY <1>1 DEF SetRuntime, Request, Quiet, At, files, book, history, Early, Goto
<1>7. TruncateConfig(r) => Quiet(r)
  BY <1>1 DEF TruncateConfig, Request, Quiet, At, files, book, history, Early, Goto
<1>8. WriteConfig(r) => Quiet(r)
  BY <1>1 DEF WriteConfig, Request, Quiet, At, files, book, history, Early, Goto
<1>9. PatchSource(r) => Quiet(r)
  BY <1>1 DEF PatchSource, Request, Quiet, At, files, book, history, Early, Goto
<1>10. EndBatch(r) => Quiet(r)
  BY <1>1 DEF EndBatch, Request, Quiet, At, files, book, history, Early, Goto, Return
<1>11. UndoSource(r) => Quiet(r)
  BY <1>1 DEF UndoSource, Request, Quiet, At, files, book, history, Early, Goto, AtUndo
<1>12. EndUndo(r) => Quiet(r)
  BY <1>1 DEF EndUndo, Request, Quiet, At, files, book, history, Early, Goto, Return
<1>13. Persist(r) => Quiet(r)
  BY <1>1 DEF Persist, Request, Quiet, At, files, book, history, Early, Return
<1>14. UndoRuntime(r) => Quiet(r)
  BY <1>1 DEF UndoRuntime, Request, Quiet, Restored, Undoing, Least, At, files, book, history,
      Early, Goto, AtUndo
<1>15. RewriteConfig(r) => Quiet(r)
  BY <1>1 DEF RewriteConfig, Request, Quiet, Restored, Undoing, Least, At, files, book, history,
      Early, Goto
<1>16. ASSUME Reload(r)
      PROVE  Quiet(r)
  <2>1. PICK q \in {[req[r] EXCEPT !.applied = @ + 1, !.pos = @ + 1, !.pc = "apply"],
                    [req[r] EXCEPT !.pos = @ + 1, !.pc = "apply"]} : Become(r, q)
    BY <1>16 DEF Reload
  <2>2. q.mem = req[r].mem /\ q.undo = req[r].undo /\ q.pc = "apply"
    BY <1>1 DEF Request
  <2>3. entry' = entry /\ disk' = disk /\ done' = done /\ undone' = undone
    BY <1>16 DEF Reload, book, history
  <2> QED
    BY <2>1, <2>2, <2>3, QuietBy DEF Early
<1>17. ASSUME UndoConfig(r)
      PROVE  Quiet(r)
  <2> DEFINE a == [req[r] EXCEPT !.undo = @ \ {Undoing(r)}, !.pc = "undo"]
             b == [req[r] EXCEPT !.img = config, !.pc = "rewrite"]
  <2>4. a.mem = req[r].mem /\ a.undo \subseteq req[r].undo /\ a.pc = "undo"
    BY <1>1 DEF Request
  <2>5. b.mem = req[r].mem /\ b.undo = req[r].undo /\ b.pc = "rewrite"
    BY <1>1 DEF Request
  <2>6. Become(r, a) \/ Become(r, b)
    BY <1>17 DEF UndoConfig, Leave
  <2> HIDE DEF a, b
  <2>1. PICK q \in {a, b} : Become(r, q)
    BY <2>6
  <2>2. q.mem = req[r].mem /\ q.undo \subseteq req[r].undo /\ q.pc \in {"undo", "rewrite"}
    BY <2>4, <2>5
  <2>3. entry' = entry /\ disk' = disk /\ done' = done /\ undone' = undone
    BY <1>17 DEF UndoConfig, book, history
  <2> QED
    BY <2>1, <2>2, <2>3, QuietBy DEF Early
<1>18. ASSUME UndoReload(r)
      PROVE  Quiet(r)
  <2>1. entry' = entry /\ disk' = disk /\ done' = done /\ undone \subseteq undone'
    BY <1>18 DEF UndoReload, book, Restored
  <2>2. CASE Leave(r)
    <3> DEFINE q == [req[r] EXCEPT !.undo = @ \ {Undoing(r)}, !.pc = "undo"]
    <3>1. q.mem = req[r].mem /\ q.undo \subseteq req[r].undo /\ q.pc = "undo"
      BY <1>1 DEF Request
    <3>2. Become(r, q)
      BY <2>2 DEF Leave
    <3> HIDE DEF q
    <3> QED
      BY <2>1, <3>1, <3>2, QuietBy DEF Early
  <2>3. CASE Goto(r, "mark") /\ Restored(Undoing(r))
    <3> DEFINE q == [req[r] EXCEPT !.pc = "mark"]
    <3>1. q.mem = req[r].mem /\ q.undo = req[r].undo /\ q.pc = "mark"
      BY <1>1 DEF Request
    <3>2. Become(r, q)
      BY <2>3 DEF Goto
    <3>3. Least(q.undo) \in undone'
      BY <2>3, <3>1 DEF Restored, Undoing, Least
    <3> HIDE DEF q
    <3> QED
      BY <2>1, <3>1, <3>2, <3>3, QuietBy DEF Early
  <2> QED
    BY <1>18, <2>2, <2>3 DEF UndoReload
<1>19. Benchmark(r) => Quiet(r)
  BY <1>1 DEF Benchmark, Request, Quiet, At, files, book, history, Early, Goto
<1>20. TruncateRecord(r) => Quiet(r)
  BY <1>1 DEF TruncateRecord, Request, Quiet, At, files, history, Early, Goto
<1> QED
  BY <1>2, <1>3, <1>4, <1>5, <1>6, <1>7, <1>8, <1>9, <1>10, <1>11, <1>12, <1>13, <1>14, <1>15, <1>16,
     <1>17, <1>18, <1>19, <1>20

LEMMA OpenHonest ==
    ASSUME Typed, Honest, NEW r \in Requests, Open(r)
    PROVE  Honest'
<1> DEFINE q == [req[r] EXCEPT !.mem = Load(disk), !.pc = "apply"]
<1>1. Growing /\ disk' = disk /\ entry' = entry /\ done' = done /\ undone' = undone
  BY DEF Open, Growing, files, book, history
<1>2. q.mem = Load(disk) /\ q.undo = req[r].undo /\ q.pc = "apply"
  BY RequestFields DEF Request, Typed
<1>3. req[r].undo = {}
  BY DEF Honest, HonestRequest, Open, At, Early
<1>4. Become(r, q)
  BY DEF Open
<1> HIDE DEF q
<1>5. HonestRequest(q, entry', done', undone')
  BY <1>1, <1>2, <1>3 DEF Honest, HonestRequest, Early
<1>6. Truthful(Load(disk'), entry', done', undone')
  BY <1>1 DEF Honest
<1> QED
  BY <1>1, <1>4, <1>5, <1>6, HonestStep

LEMMA RecordHonest ==
    ASSUME Typed, Honest, NEW r \in Requests, Record(r)
    PROVE  Honest'
<1> DEFINE i == Len(entry) + 1
           p == Current(r)
           e == [cycle |-> req[r].cycle, kind |-> p.kind, target |-> p.target,
                 old |-> req[r].img[p.target], new |-> p.value, category |-> p.category,
                 backup |-> source]
           q == [req[r] EXCEPT !.mem[i] = "applied", !.id = i, !.pc = "save"]
<1>1. entry' = Append(entry, e) /\ Become(r, q) /\ undone' = undone /\ disk' = Torn
      /\ done' = IF p.kind = "source_patch" THEN done ELSE done \cup {i}
  BY DEF Record
<1>2. entry \in Seq(Entry) /\ e.kind = p.kind
  BY DEF Typed, TypeOK, BookOK
<1>3. q.mem = [req[r].mem EXCEPT ![i] = "applied"] /\ q.undo = req[r].undo /\ q.pc = "save"
  BY RequestFields DEF Request, Typed
<1> HIDE DEF e, q
<1>4. /\ \A j \in DOMAIN entry : j \in DOMAIN entry' /\ entry'[j] = entry[j]
      /\ i \in DOMAIN entry' /\ entry'[i] = e
  BY <1>1, <1>2
<1>5. Growing
  BY <1>1, <1>4 DEF Growing
<1>6. HonestRequest(req[r], entry, done, undone)
  BY DEF Honest
<1>7. i \in Ids /\ req[r].mem \in Ledger /\ req[r].undo \in SUBSET Ids
  BY EntryFacts, RequestFields, ConstantsAssumption DEF Record, Ids, Typed
<1> HIDE DEF i
<1>8. Truthful(req[r].mem, entry', done', undone')
  BY <1>5, <1>6, TruthGrows DEF HonestRequest
<1>9. Truthful(q.mem, entry', done', undone')
  BY <1>1, <1>2, <1>3, <1>4, <1>7, <1>8 DEF Truthful, Ledger
<1>10. \A j \in q.undo : q.mem[j] # "none"
  BY <1>3, <1>6, <1>7 DEF HonestRequest, Ledger
<1>11. HonestRequest(q, entry', done', undone')
  BY <1>3, <1>9, <1>10 DEF HonestRequest, Early
<1>12. Truthful(Load(disk'), entry', done', undone')
  BY <1>1, NothingIsTruthful DEF Load
<1> QED
  BY <1>1, <1>5, <1>11, <1>12, HonestStep

\* A request writes its own copy back.
LEMMA CopyIsTruthful ==
    ASSUME Typed, Honest, NEW r \in Requests, disk' = req[r].mem, Growing
    PROVE  Truthful(Load(disk'), entry', done', undone')
<1>1. req[r].mem \in Ledger
  BY RequestFields DEF Typed
<1>2. Load(disk') = req[r].mem
  BY <1>1, TornAssumption DEF Load
<1> QED
  BY <1>2, TruthGrows DEF Honest, HonestRequest

LEMMA SaveHonest ==
    ASSUME Typed, Honest, NEW r \in Requests, Save(r)
    PROVE  Honest'
<1>1. Growing /\ entry' = entry /\ done' = done /\ undone' = undone /\ disk' = req[r].mem
  BY DEF Save, Growing, book, history
<1>2. Truthful(Load(disk'), entry', done', undone')
  BY <1>1, CopyIsTruthful
<1>3. HonestRequest(req[r], entry', done', undone')
  BY <1>1 DEF Honest
<1>4. CASE Goto(r, "patch")
  <2> DEFINE q == [req[r] EXCEPT !.pc = "patch"]
  <2>1. q.mem = req[r].mem /\ q.undo = req[r].undo /\ q.pc = "patch"
    BY RequestFields DEF Request, Typed
  <2>2. Become(r, q)
    BY <1>4 DEF Goto
  <2> HIDE DEF q
  <2>3. HonestRequest(q, entry', done', undone')
    BY <1>3, <2>1 DEF HonestRequest, Early
  <2> QED
    BY <1>1, <1>2, <2>2, <2>3, HonestStep
<1>5. CASE Become(r, [req[r] EXCEPT !.applied = @ + 1, !.pos = @ + 1, !.pc = "apply"])
  <2> DEFINE q == [req[r] EXCEPT !.applied = @ + 1, !.pos = @ + 1, !.pc = "apply"]
  <2>1. q.mem = req[r].mem /\ q.undo = req[r].undo /\ q.pc = "apply"
    BY RequestFields DEF Request, Typed
  <2>2. Become(r, q)
    BY <1>5
  <2> HIDE DEF q
  <2>3. HonestRequest(q, entry', done', undone')
    BY <1>3, <2>1 DEF HonestRequest, Early
  <2> QED
    BY <1>1, <1>2, <2>2, <2>3, HonestStep
<1> QED
  BY <1>4, <1>5 DEF Save

LEMMA SmokeTestHonest ==
    ASSUME Typed, Honest, NEW r \in Requests, SmokeTest(r)
    PROVE  Honest'
<1> DEFINE u == ActiveByCycle(req[r].mem, req[r].cycle)
           a == [req[r] EXCEPT !.pc = "persist"]
           b == [req[r] EXCEPT !.undo = u, !.pc = "undo"]
           c == [req[r] EXCEPT !.verdict = "failed", !.pc = "persist"]
<1>1. Growing /\ entry' = entry /\ done' = done /\ undone' = undone /\ disk' = disk
  BY DEF SmokeTest, Growing, files, book, history
<1>2. Truthful(Load(disk'), entry', done', undone') /\ HonestRequest(req[r], entry', done', undone')
  BY <1>1 DEF Honest
<1>3. a.mem = req[r].mem /\ a.undo = req[r].undo /\ a.pc = "persist"
  BY RequestFields DEF Request, Typed
<1>4. b.mem = req[r].mem /\ b.undo = u /\ b.pc = "undo"
  BY RequestFields DEF Request, Typed
<1>5. c.mem = req[r].mem /\ c.undo = req[r].undo /\ c.pc = "persist"
  BY RequestFields DEF Request, Typed
<1>6. \A i \in u : req[r].mem[i] # "none"
  BY DEF ActiveByCycle
<1>7. Become(r, a) \/ Become(r, b) \/ Become(r, c)
  BY DEF SmokeTest, Goto
<1> HIDE DEF a, b, c, u
<1>8. /\ HonestRequest(a, entry', done', undone')
      /\ HonestRequest(b, entry', done', undone')
      /\ HonestRequest(c, entry', done', undone')
  BY <1>2, <1>3, <1>4, <1>5, <1>6 DEF HonestRequest, Early
<1> QED
  BY <1>1, <1>2, <1>7, <1>8, HonestStep

LEMMA MarkHonest ==
    ASSUME Typed, Honest, NEW r \in Requests, Mark(r)
    PROVE  Honest'
<1> DEFINE i == Undoing(r)
           q == [req[r] EXCEPT !.mem[i] = "rolled_back", !.pc = "saved"]
<1>1. Growing /\ entry' = entry /\ done' = done /\ undone' = undone /\ disk' = Torn
      /\ Become(r, q)
  BY DEF Mark, Growing, book, history
<1>2. Truthful(Load(disk'), entry', done', undone') /\ HonestRequest(req[r], entry', done', undone')
  BY <1>1, NothingIsTruthful DEF Load, Honest
<1>3. i \in req[r].undo /\ i \in Ids /\ req[r].undo \in SUBSET Ids
  BY UndoingListed, RequestFields DEF Mark, At, Typed, InPlace, AtEntry
<1>4. i = Least(req[r].undo) /\ i \in undone'
  BY <1>2 DEF Mark, At, HonestRequest, Undoing, Least
<1>5. q.mem = [req[r].mem EXCEPT ![i] = "rolled_back"] /\ q.undo = req[r].undo /\ q.pc = "saved"
  BY RequestFields DEF Request, Typed
<1>6. req[r].mem \in Ledger
  BY RequestFields DEF Typed
<1> HIDE DEF q, i
<1>7. Truthful(q.mem, entry', done', undone')
  BY <1>2, <1>3, <1>4, <1>5, <1>6 DEF HonestRequest, Truthful, Ledger
<1>8. \A j \in q.undo : q.mem[j] # "none"
  BY <1>2, <1>3, <1>5, <1>6 DEF HonestRequest, Ledger
<1>9. HonestRequest(q, entry', done', undone')
  BY <1>5, <1>7, <1>8 DEF HonestRequest, Early
<1> QED
  BY <1>1, <1>2, <1>9, HonestStep

LEMMA SaveMarkHonest ==
    ASSUME Typed, Honest, NEW r \in Requests, SaveMark(r)
    PROVE  Honest'
<1> DEFINE q == [req[r] EXCEPT !.undo = @ \ {Undoing(r)}, !.pc = "undo"]
<1>1. Growing /\ entry' = entry /\ done' = done /\ undone' = undone /\ disk' = req[r].mem
      /\ Become(r, q)
  BY DEF SaveMark, Leave, Growing, book, history
<1>2. Truthful(Load(disk'), entry', done', undone')
  BY <1>1, CopyIsTruthful
<1>3. HonestRequest(req[r], entry', done', undone')
  BY <1>1 DEF Honest
<1>4. q.mem = req[r].mem /\ q.undo \subseteq req[r].undo /\ q.pc = "undo"
  BY RequestFields DEF Request, Typed
<1> HIDE DEF q
<1>5. HonestRequest(q, entry', done', undone')
  BY <1>3, <1>4 DEF HonestRequest, Early
<1> QED
  BY <1>1, <1>2, <1>5, HonestStep

\* A new request knows of nothing, or what the file says.
LEMMA BeginHonest ==
    ASSUME Typed, Honest, NEW r \in Requests, NEW e, Begin(r, e), NEW q, Become(r, q),
           q.mem \in {NoEntries, Load(disk)}, \A i \in q.undo : q.mem[i] # "none",
           q.pc \in Early => q.undo = {}, q.pc # "mark"
    PROVE  Honest'
<1>1. Growing /\ entry' = entry /\ done' = done /\ undone' = undone /\ disk' = disk
  BY DEF Begin, Growing, files
<1>2. Truthful(Load(disk'), entry', done', undone')
  BY <1>1 DEF Honest
<1>3. HonestRequest(q, entry', done', undone')
  BY <1>1, <1>2, NothingIsTruthful DEF HonestRequest
<1> QED
  BY <1>1, <1>2, <1>3, HonestStep

LEMMA StartsHonest ==
    ASSUME Typed, Honest
    PROVE  /\ \A r \in Threads, c \in Cycles, b \in Batches \cup {<<>>} :
                StartCycle(r, c, b) => Honest'
           /\ \A r \in Threads, c \in Cycles : StartInject(r, c) => Honest'
           /\ \A e, ids : StartUndo(e, ids) /\ (\A i \in ids : Load(disk)[i] # "none") => Honest'
<1>1. ASSUME NEW r \in Threads, NEW c \in Cycles, NEW b \in Batches \cup {<<>>},
             StartCycle(r, c, b)
      PROVE  Honest'
  <2> DEFINE q == [Idle EXCEPT !.op = "cycle", !.cycle = c, !.batch = b,
                       !.pc = IF b = <<>> THEN "persist" ELSE "validate"]
  <2>1. q.mem = NoEntries /\ q.undo = {} /\ q.pc # "mark"
    BY DEF Idle
  <2>2. Begin(r, "cycle") /\ Become(r, q)
    BY <1>1 DEF StartCycle
  <2> HIDE DEF q
  <2> QED
    BY <2>1, <2>2, BeginHonest DEF Requests
<1>2. ASSUME NEW r \in Threads, NEW c \in Cycles, StartInject(r, c)
      PROVE  Honest'
  <2> DEFINE q == [Idle EXCEPT !.op = "inject", !.cycle = c,
                       !.batch = cycle[c].proposals, !.pc = "open"]
  <2>1. q.mem = NoEntries /\ q.undo = {} /\ q.pc # "mark"
    BY DEF Idle
  <2>2. Begin(r, "inject") /\ Become(r, q)
    BY <1>2 DEF StartInject
  <2> HIDE DEF q
  <2> QED
    BY <2>1, <2>2, BeginHonest DEF Requests
<1>3. ASSUME NEW e, NEW ids, StartUndo(e, ids), \A i \in ids : Load(disk)[i] # "none"
      PROVE  Honest'
  <2> DEFINE q == [Idle EXCEPT !.op = e, !.undo = ids, !.mem = Load(disk), !.pc = "undo"]
  <2>1. q.mem = Load(disk) /\ q.undo = ids /\ q.pc = "undo"
    BY DEF Idle
  <2>2. Begin(EventLoop, e) /\ Become(EventLoop, q)
    BY <1>3 DEF StartUndo
  <2> HIDE DEF q
  <2> QED
    BY <1>3, <2>1, <2>2, BeginHonest DEF Requests, Early
<1> QED
  BY <1>1, <1>2, <1>3

LEMMA CrashHonest ==
    ASSUME Typed, Honest, Crash
    PROVE  Honest'
<1>1. Growing /\ entry' = entry /\ done' = done /\ undone' = undone /\ disk' = disk
  BY DEF Crash, Growing, book
<1>2. Truthful(Load(disk'), entry', done', undone')
  BY <1>1 DEF Honest
<1>3. \A r \in Requests : req'[r] = Idle
  BY DEF Crash
<1> QED
  BY <1>2, <1>3, IdleIsHonest DEF Honest

LEMMA InitHonest == Init => Honest
<1> SUFFICES ASSUME Init
             PROVE  Honest
  OBVIOUS
<1>1. Load(disk) = NoEntries
  BY DEF Init, Load
<1>2. Truthful(NoEntries, entry, done, undone)
  BY DEF Truthful, NoEntries
<1>3. HonestRequest(Idle, entry, done, undone)
  BY <1>2 DEF HonestRequest, Idle, Early
<1>4. \A r \in Requests : req[r] = Idle
  BY DEF Init
<1> QED
  BY <1>1, <1>2, <1>3, <1>4 DEF Honest

LEMMA NextHonest == Typed /\ Honest /\ [Next]_vars => Honest'
<1> SUFFICES ASSUME Typed, Honest, [Next]_vars
             PROVE  Honest'
  OBVIOUS
<1>1. ASSUME NEW r \in Threads, NEW c \in Cycles, NEW b \in Batches \cup {<<>>},
             StartCycle(r, c, b)
      PROVE  Honest'
  BY <1>1, StartsHonest
<1>2. ASSUME NEW r \in Threads, NEW c \in Cycles, StartInject(r, c)
      PROVE  Honest'
  BY <1>2, StartsHonest
<1>3. ASSUME NEW i \in Ids, StartRollback(i)
      PROVE  Honest'
  BY <1>3, StartsHonest DEF StartRollback
<1>4. ASSUME NEW c \in Cycles, StartRollbackCycle(c)
      PROVE  Honest'
  BY <1>4, StartsHonest DEF StartRollbackCycle, ActiveByCycle
<1>5. ASSUME NEW r \in Requests, Step(r)
      PROVE  Honest'
  <2>1. CASE Quiet(r)
    BY <2>1, QuietIsHonest
  <2>2. CASE Open(r) \/ Record(r) \/ Save(r)
    BY <2>2, OpenHonest, RecordHonest, SaveHonest
  <2>3. CASE SmokeTest(r) \/ Mark(r) \/ SaveMark(r)
    BY <2>3, SmokeTestHonest, MarkHonest, SaveMarkHonest
  <2> QED
    BY <1>5, <2>1, <2>2, <2>3, StepsAreQuiet DEF Step
<1>6. CASE Crash
  BY <1>6, CrashHonest
<1>7. CASE UNCHANGED vars
  BY <1>7 DEF vars, files, book, history, Honest
<1> QED
  BY <1>1, <1>2, <1>3, <1>4, <1>5, <1>6, <1>7 DEF Next

\* The ledger file never calls an injection rolled back that was not put back,
\* nor made that was not made (applicator.py rollback, rollback.py _save):
\* because no request's copy of it does, and a request marks only what it has
\* just put back.
THEOREM LedgerTruthfulAlways == Spec => []LedgerTruthful
<1>1. Honest => LedgerTruthful
  BY DEF Honest, Truthful, LedgerTruthful
<1> QED
  BY <1>1, TypedAlways, InitHonest, NextHonest, PTL DEF Spec

------------------------------------------------------------------------------
(* Only approved proposals reach the ledger.  Who may record an injection    *)
(* depends on how far its cycle has come, which its request and its record   *)
(* say together; a cycle belongs to one request from its id to its record.   *)

Before == {"validate", "restore"}
Closing == {"persist", "keep"}

HasEntry(c) == \E i \in DOMAIN entry : entry[i].cycle = c

Licensed(q) ==
    /\ q.op = "cycle" => q.cycle \in used /\ cycle[q.cycle].outcome = (IF q.pc = "keep" THEN "torn" ELSE "none")
    /\ q.op = "inject" => cycle[q.cycle].outcome \in {"promoted", "needs_review"}
    /\ q.op = "cycle" /\ q.pc \in Before => ~HasEntry(q.cycle)
    /\ q.op = "cycle" /\ q.pc \notin Before \cup Closing => optIn /\ q.verdict = "promoted"
    /\ q.op = "cycle" /\ q.pc \in Closing /\ HasEntry(q.cycle) =>
           optIn /\ q.verdict \in {"promoted", "failed"}
    /\ q.pc \in AtProposal => IsInjectable(q.batch[q.pos])

OwnCycles == \A r, s \in Requests :
    r # s /\ req[r].op = "cycle" /\ req[s].op = "cycle" => req[r].cycle # req[s].cycle

EntryApproved(e) ==
    /\ e.category = "whitelisted"
    /\ e.kind = "runtime" /\ e.target \in Tuned => e.new \in MinVal[e.target] .. MaxVal[e.target]
    /\ e.cycle \in used
    /\ cycle[e.cycle].outcome \notin {"rejected", "no_proposals"}
    /\ cycle[e.cycle].outcome \in {"none", "torn", "failed"} => optIn

Approved ==
    /\ \A r \in Requests : Licensed(req[r])
    /\ OwnCycles
    /\ \A i \in DOMAIN entry : EntryApproved(entry[i])
    /\ \A c \in Cycles \ used : cycle[c].outcome = "none"

LEMMA IdleIsLicensed == Licensed(Idle)
  BY DEF Licensed, Idle, AtProposal

\* A request takes a step about its own cycle and leaves the records alone.
LEMMA LicensedStep ==
    ASSUME Typed, Approved, UNCHANGED book, NEW r \in Requests, NEW q, Become(r, q), Licensed(q),
           q = Idle \/ (q.op = req[r].op /\ q.cycle = req[r].cycle)
    PROVE  Approved'
<1>1. \A x \in Requests : req'[x] = IF x = r THEN q ELSE req[x]
  BY DEF Become, Typed, TypeOK
<1>2. entry' = entry /\ cycle' = cycle /\ used' = used /\ optIn' = optIn
  BY DEF book
<1>3. ASSUME NEW x, Licensed(x)
      PROVE  Licensed(x)'
  BY <1>2, <1>3 DEF Licensed, HasEntry
<1>4. \A x \in Requests : Licensed(req'[x])
  BY <1>1 DEF Approved
<1>5. \A x \in Requests : Licensed(req[x])'
  BY <1>2, <1>4 DEF Licensed, HasEntry
<1>6. OwnCycles'
  <2>1. Idle.op # "cycle"
    BY DEF Idle
  <2> QED
    BY <1>1, <2>1 DEF Approved, OwnCycles
<1>7. (\A i \in DOMAIN entry : EntryApproved(entry[i]))'
  BY <1>2 DEF Approved, EntryApproved
<1> QED
  BY <1>2, <1>5, <1>6, <1>7 DEF Approved, EntryApproved

\* The steps of a request that is past validation and has not ended.
GoesOn(r, q) ==
    /\ q.op = req[r].op /\ q.cycle = req[r].cycle /\ q.verdict = req[r].verdict
    /\ q.pc \notin Before \cup Closing
    /\ q.pc \in AtProposal =>
          /\ q.batch = req[r].batch /\ q.pos = req[r].pos
          /\ req[r].pc \in AtProposal \/ IsInjectable(Current(r))

Onward(r) ==
    /\ req[r].pc \notin Before \cup Closing
    /\ UNCHANGED book
    /\ \E q : Become(r, q) /\ GoesOn(r, q)

LEMMA OnwardBy ==
    ASSUME NEW r \in Requests, NEW q, Become(r, q), UNCHANGED book,
           req[r].pc \notin Before \cup Closing, GoesOn(r, q)
    PROVE  Onward(r)
  BY DEF Onward

LEMMA OnwardIsApproved ==
    ASSUME Typed, Approved, NEW r \in Requests, Onward(r)
    PROVE  Approved'
<1>1. PICK q : Become(r, q) /\ GoesOn(r, q)
  BY DEF Onward
<1>2. Licensed(req[r]) /\ req[r].pc \notin Before \cup Closing /\ UNCHANGED book
  BY DEF Approved, Onward
<1>3. Licensed(q)
  BY <1>1, <1>2 DEF Licensed, GoesOn, Current, Closing
<1>4. q.op = req[r].op /\ q.cycle = req[r].cycle
  BY <1>1 DEF GoesOn
<1> QED
  BY <1>1, <1>2, <1>3, <1>4, LicensedStep

LEMMA StepsGoOnward ==
    ASSUME Typed, NEW r \in Requests
    PROVE  /\ Open(r) \/ Skip(r) \/ ReadOriginal(r) \/ SetRuntime(r) => Onward(r)
           /\ TruncateConfig(r) \/ WriteConfig(r) \/ PatchSource(r) => Onward(r)
           /\ Save(r) \/ Reload(r) => Onward(r)
           /\ UndoRuntime(r) \/ UndoSource(r) \/ UndoReload(r) \/ UndoConfig(r) => Onward(r)
           /\ RewriteConfig(r) \/ Mark(r) \/ SaveMark(r) => Onward(r)
<1>1. req[r] \in Request
  BY RequestFields DEF Typed
<1>2. ASSUME Open(r)
      PROVE  Onward(r)
  <2> DEFINE q == [req[r] EXCEPT !.mem = Load(disk), !.pc = "apply"]
  <2>1. /\ q.op = req[r].op /\ q.cycle = req[r].cycle /\ q.verdict = req[r].verdict
       /\ q.pc = "apply" /\ q.batch = req[r].batch
    BY <1>1 DEF Request
  <2>2. Become(r, q) /\ UNCHANGED book
    BY <1>2 DEF Open, book
  <2> HIDE DEF q
  <2> QED
    BY <1>2, <2>1, <2>2, OnwardBy DEF Open, At, GoesOn, Before, Closing, AtProposal
<1>3. ASSUME Skip(r)
      PROVE  Onward(r)
  <2> DEFINE q == [req[r] EXCEPT !.pos = @ + 1]
  <2>1. /\ q.op = req[r].op /\ q.cycle = req[r].cycle /\ q.verdict = req[r].verdict
       /\ q.pc = req[r].pc /\ q.batch = req[r].batch
    BY <1>1 DEF Request
  <2>2. Become(r, q) /\ UNCHANGED book
    BY <1>3 DEF Skip, book
  <2> HIDE DEF q
  <2> QED
    BY <1>3, <2>1, <2>2, OnwardBy DEF Skip, At, GoesOn, Before, Closing, AtProposal
<1>4. ASSUME SetRuntime(r)
      PROVE  Onward(r)
  <2> DEFINE q == [req[r] EXCEPT !.pc = "record"]
  <2>1. /\ q.op = req[r].op /\ q.cycle = req[r].cycle /\ q.verdict = req[r].verdict
       /\ q.pc = "record" /\ q.batch = req[r].batch /\ q.pos = req[r].pos
    BY <1>1 DEF Request
  <2>2. Become(r, q) /\ UNCHANGED book
    BY <1>4 DEF SetRuntime, Goto, book
  <2> HIDE DEF q
  <2> QED
    BY <1>4, <2>1, <2>2, OnwardBy DEF SetRuntime, At, GoesOn, Before, Closing, AtProposal
<1>5. ASSUME TruncateConfig(r)
      PROVE  Onward(r)
  <2> DEFINE q == [req[r] EXCEPT !.pc = "write"]
  <2>1. /\ q.op = req[r].op /\ q.cycle = req[r].cycle /\ q.verdict = req[r].verdict
       /\ q.pc = "write" /\ q.batch = req[r].batch /\ q.pos = req[r].pos
    BY <1>1 DEF Request
  <2>2. Become(r, q) /\ UNCHANGED book
    BY <1>5 DEF TruncateConfig, Goto, book
  <2> HIDE DEF q
  <2> QED
    BY <1>5, <2>1, <2>2, OnwardBy DEF TruncateConfig, At, GoesOn, Before, Closing, AtProposal
<1>6. ASSUME WriteConfig(r)
      PROVE  Onward(r)
  <2> DEFINE q == [req[r] EXCEPT !.pc = "record"]
  <2>1. /\ q.op = req[r].op /\ q.cycle = req[r].cycle /\ q.verdict = req[r].verdict
       /\ q.pc = "record" /\ q.batch = req[r].batch /\ q.pos = req[r].pos
    BY <1>1 DEF Request
  <2>2. Become(r, q) /\ UNCHANGED book
    BY <1>6 DEF WriteConfig, Goto, book
  <2> HIDE DEF q
  <2> QED
    BY <1>6, <2>1, <2>2, OnwardBy DEF WriteConfig, At, GoesOn, Before, Closing, AtProposal
<1>7. ASSUME PatchSource(r)
      PROVE  Onward(r)
  <2> DEFINE q == [req[r] EXCEPT !.pc = "reload"]
  <2>1. /\ q.op = req[r].op /\ q.cycle = req[r].cycle /\ q.verdict = req[r].verdict
       /\ q.pc = "reload" /\ q.batch = req[r].batch /\ q.pos = req[r].pos
    BY <1>1 DEF Request
  <2>2. Become(r, q) /\ UNCHANGED book
    BY <1>7 DEF PatchSource, Goto, book
  <2> HIDE DEF q
  <2> QED
    BY <1>7, <2>1, <2>2, OnwardBy DEF PatchSource, At, GoesOn, Before, Closing, AtProposal
<1>8. ASSUME UndoRuntime(r)
      PROVE  Onward(r)
  <2> DEFINE q == [req[r] EXCEPT !.pc = "mark"]
  <2>1. /\ q.op = req[r].op /\ q.cycle = req[r].cycle /\ q.verdict = req[r].verdict
       /\ q.pc = "mark" /\ q.batch = req[r].batch
    BY <1>1 DEF Request
  <2>2. Become(r, q) /\ UNCHANGED book
    BY <1>8 DEF UndoRuntime, Goto, AtUndo, book
  <2> HIDE DEF q
  <2> QED
    BY <1>8, <2>1, <2>2, OnwardBy DEF UndoRuntime, At, AtUndo, GoesOn, Before, Closing, AtProposal
<1>9. ASSUME UndoSource(r)
      PROVE  Onward(r)
  <2> DEFINE q == [req[r] EXCEPT !.pc = "unload"]
  <2>1. /\ q.op = req[r].op /\ q.cycle = req[r].cycle /\ q.verdict = req[r].verdict
       /\ q.pc = "unload" /\ q.batch = req[r].batch
    BY <1>1 DEF Request
  <2>2. Become(r, q) /\ UNCHANGED book
    BY <1>9 DEF UndoSource, Goto, AtUndo, book
  <2> HIDE DEF q
  <2> QED
    BY <1>9, <2>1, <2>2, OnwardBy DEF UndoSource, At, AtUndo, GoesOn, Before, Closing, AtProposal
<1>10. ASSUME RewriteConfig(r)
      PROVE  Onward(r)
  <2> DEFINE q == [req[r] EXCEPT !.pc = "mark"]
  <2>1. /\ q.op = req[r].op /\ q.cycle = req[r].cycle /\ q.verdict = req[r].verdict
       /\ q.pc = "mark" /\ q.batch = req[r].batch
    BY <1>1 DEF Request
  <2>2. Become(r, q) /\ UNCHANGED book
    BY <1>10 DEF RewriteConfig, Goto, book
  <2> HIDE DEF q
  <2> QED
    BY <1>10, <2>1, <2>2, OnwardBy DEF RewriteConfig, At, GoesOn, Before, Closing, AtProposal
<1>11. ASSUME Mark(r)
      PROVE  Onward(r)
  <2> DEFINE q == [req[r] EXCEPT !.mem[Undoing(r)] = "rolled_back", !.pc = "saved"]
  <2>1. /\ q.op = req[r].op /\ q.cycle = req[r].cycle /\ q.verdict = req[r].verdict
       /\ q.pc = "saved" /\ q.batch = req[r].batch
    BY <1>1 DEF Request
  <2>2. Become(r, q) /\ UNCHANGED book
    BY <1>11 DEF Mark, book
  <2> HIDE DEF q
  <2> QED
    BY <1>11, <2>1, <2>2, OnwardBy DEF Mark, At, GoesOn, Before, Closing, AtProposal
<1>12. ASSUME SaveMark(r)
      PROVE  Onward(r)
  <2> DEFINE q == [req[r] EXCEPT !.undo = @ \ {Undoing(r)}, !.pc = "undo"]
  <2>1. /\ q.op = req[r].op /\ q.cycle = req[r].cycle /\ q.verdict = req[r].verdict
       /\ q.pc = "undo" /\ q.batch = req[r].batch
    BY <1>1 DEF Request
  <2>2. Become(r, q) /\ UNCHANGED book
    BY <1>12 DEF SaveMark, Leave, book
  <2> HIDE DEF q
  <2> QED
    BY <1>12, <2>1, <2>2, OnwardBy DEF SaveMark, At, GoesOn, Before, Closing, AtProposal
<1>13. ASSUME Save(r)
      PROVE  Onward(r)
  <2> DEFINE a == [req[r] EXCEPT !.pc = "patch"]
             b == [req[r] EXCEPT !.applied = @ + 1, !.pos = @ + 1, !.pc = "apply"]
  <2>1. /\ a.op = req[r].op /\ a.cycle = req[r].cycle /\ a.verdict = req[r].verdict
       /\ a.pc = "patch" /\ a.batch = req[r].batch /\ a.pos = req[r].pos
    BY <1>1 DEF Request
  <2>2. /\ b.op = req[r].op /\ b.cycle = req[r].cycle /\ b.verdict = req[r].verdict
       /\ b.pc = "apply" /\ b.batch = req[r].batch
    BY <1>1 DEF Request
  <2>3. UNCHANGED book /\ (Become(r, a) \/ Become(r, b))
    BY <1>13 DEF Save, Goto, book
  <2> HIDE DEF a, b
  <2> QED
    BY <1>13, <2>1, <2>2, <2>3, OnwardBy DEF Save, At, GoesOn, Before, Closing, AtProposal
<1>14. ASSUME Reload(r)
      PROVE  Onward(r)
  <2> DEFINE a == [req[r] EXCEPT !.applied = @ + 1, !.pos = @ + 1, !.pc = "apply"]
             b == [req[r] EXCEPT !.pos = @ + 1, !.pc = "apply"]
  <2>1. /\ a.op = req[r].op /\ a.cycle = req[r].cycle /\ a.verdict = req[r].verdict
       /\ a.pc = "apply" /\ a.batch = req[r].batch
    BY <1>1 DEF Request
  <2>2. /\ b.op = req[r].op /\ b.cycle = req[r].cycle /\ b.verdict = req[r].verdict
       /\ b.pc = "apply" /\ b.batch = req[r].batch
    BY <1>1 DEF Request
  <2>3. UNCHANGED book /\ (Become(r, a) \/ Become(r, b))
    BY <1>14 DEF Reload, book
  <2> HIDE DEF a, b
  <2> QED
    BY <1>14, <2>1, <2>2, <2>3, OnwardBy DEF Reload, At, GoesOn, Before, Closing, AtProposal
<1>15. ASSUME UndoReload(r)
      PROVE  Onward(r)
  <2> DEFINE a == [req[r] EXCEPT !.pc = "mark"]
             b == [req[r] EXCEPT !.undo = @ \ {Undoing(r)}, !.pc = "undo"]
  <2>1. /\ a.op = req[r].op /\ a.cycle = req[r].cycle /\ a.verdict = req[r].verdict
       /\ a.pc = "mark" /\ a.batch = req[r].batch
    BY <1>1 DEF Request
  <2>2. /\ b.op = req[r].op /\ b.cycle = req[r].cycle /\ b.verdict = req[r].verdict
       /\ b.pc = "undo" /\ b.batch = req[r].batch
    BY <1>1 DEF Request
  <2>3. UNCHANGED book /\ (Become(r, a) \/ Become(r, b))
    BY <1>15 DEF UndoReload, Goto, Leave, book
  <2> HIDE DEF a, b
  <2> QED
    BY <1>15, <2>1, <2>2, <2>3, OnwardBy DEF UndoReload, At, GoesOn, Before, Closing, AtProposal
<1>16. ASSUME UndoConfig(r)
      PROVE  Onward(r)
  <2> DEFINE a == [req[r] EXCEPT !.img = config, !.pc = "rewrite"]
             b == [req[r] EXCEPT !.undo = @ \ {Undoing(r)}, !.pc = "undo"]
  <2>1. /\ a.op = req[r].op /\ a.cycle = req[r].cycle /\ a.verdict = req[r].verdict
       /\ a.pc = "rewrite" /\ a.batch = req[r].batch
    BY <1>1 DEF Request
  <2>2. /\ b.op = req[r].op /\ b.cycle = req[r].cycle /\ b.verdict = req[r].verdict
       /\ b.pc = "undo" /\ b.batch = req[r].batch
    BY <1>1 DEF Request
  <2>3. UNCHANGED book /\ (Become(r, a) \/ Become(r, b))
    BY <1>16 DEF UndoConfig, Leave, AtUndo, book
  <2> HIDE DEF a, b
  <2> QED
    BY <1>16, <2>1, <2>2, <2>3, OnwardBy DEF UndoConfig, At, AtUndo, GoesOn, Before, Closing, AtProposal
<1>17. ASSUME ReadOriginal(r)
      PROVE  Onward(r)
  <2>1. PICK m \in {live, source, ReadConfig}, l \in {"setattr", "truncate", "record"} :
          Become(r, [req[r] EXCEPT !.img = m, !.pc = l])
    BY <1>17 DEF ReadOriginal
  <2> DEFINE q == [req[r] EXCEPT !.img = m, !.pc = l]
  <2>2. /\ q.op = req[r].op /\ q.cycle = req[r].cycle /\ q.verdict = req[r].verdict
       /\ q.pc = l /\ q.batch = req[r].batch /\ q.pos = req[r].pos
    BY <1>1 DEF Request
  <2>3. Become(r, q) /\ UNCHANGED book
    BY <1>17, <2>1 DEF ReadOriginal
  <2> HIDE DEF q
  <2>4. req[r].pc = "apply" /\ IsInjectable(Current(r))
    BY <1>17 DEF ReadOriginal, Accepts, At
  <2> QED
    BY <2>2, <2>3, <2>4, OnwardBy DEF GoesOn, Before, Closing, AtProposal
<1> QED
  BY <1>2, <1>3, <1>4, <1>5, <1>6, <1>7, <1>8, <1>9, <1>10, <1>11, <1>12, <1>13, <1>14, <1>15, <1>16, <1>17

LEMMA ValidationApproved ==
    ASSUME Typed, Approved, NEW r \in Requests
    PROVE  /\ \A t \in Tuned : Override(r, t) \/ Restore(r, t) => Approved'
           /\ Benchmark(r) => Approved'
           /\ \A v \in Outcomes : Recommend(r, v) => Approved'
<1>1. req[r] \in Request /\ Licensed(req[r])
  BY RequestFields DEF Typed, Approved
<1>2. ASSUME NEW t \in Tuned, Override(r, t) \/ Restore(r, t)
      PROVE  Approved'
  <2>1. PICK q \in {[req[r] EXCEPT !.img[t] = live[t], !.held = @ \cup {t}],
                    [req[r] EXCEPT !.held = @ \ {t}]} : Become(r, q)
    BY <1>2 DEF Override, Restore
  <2>2. q.op = req[r].op /\ q.cycle = req[r].cycle /\ q.pc = req[r].pc
    BY <1>1 DEF Request
  <2>3. UNCHANGED book /\ req[r].pc \in Before
    BY <1>2 DEF Override, Restore, At, Before
  <2>4. Licensed(q)
    BY <1>1, <2>2, <2>3 DEF Licensed, Before, Closing, AtProposal
  <2> QED
    BY <2>1, <2>2, <2>3, <2>4, LicensedStep
<1>4. ASSUME Benchmark(r)
      PROVE  Approved'
  <2> DEFINE q == [req[r] EXCEPT !.pc = "restore"]
  <2>1. q.op = req[r].op /\ q.cycle = req[r].cycle /\ q.pc = "restore"
    BY <1>1 DEF Request
  <2>2. Become(r, q) /\ UNCHANGED book /\ req[r].pc = "validate"
    BY <1>4 DEF Benchmark, At, Goto
  <2> HIDE DEF q
  <2>3. Licensed(q)
    BY <1>1, <2>1, <2>2 DEF Licensed, Before, Closing, AtProposal
  <2> QED
    BY <2>1, <2>2, <2>3, LicensedStep
<1>3. ASSUME NEW v \in Outcomes, Recommend(r, v)
      PROVE  Approved'
  <2> DEFINE l == IF v = "promoted" /\ optIn THEN "open" ELSE "persist"
             q == [req[r] EXCEPT !.verdict = v, !.pc = l]
  <2>1. q.op = req[r].op /\ q.cycle = req[r].cycle /\ q.pc = l /\ q.verdict = v
    BY <1>1 DEF Request
  <2>2. Become(r, q) /\ UNCHANGED book /\ req[r].pc = "restore" /\ req[r].op = "cycle"
    BY <1>3 DEF Recommend, At, Typed, InPlace, OfCycle
  <2> HIDE DEF q
  <2>3. Licensed(q)
    BY <1>1, <2>1, <2>2 DEF Licensed, Before, Closing, AtProposal
  <2> QED
    BY <2>1, <2>2, <2>3, LicensedStep
<1> QED
  BY <1>2, <1>3, <1>4

\* A cycle that got past the opt-in gate ends: it had been promoted.
LEMMA EndsApproved ==
    ASSUME Typed, Approved, NEW r \in Requests
    PROVE  EndBatch(r) \/ SmokeTest(r) \/ EndUndo(r) => Approved'
<1> DEFINE a == [req[r] EXCEPT !.pc = "persist"]
           b == [req[r] EXCEPT !.verdict = "failed", !.pc = "persist"]
           c == [req[r] EXCEPT !.pc = "smoke"]
           d == [req[r] EXCEPT !.undo = ActiveByCycle(req[r].mem, req[r].cycle), !.pc = "undo"]
<1>1. req[r] \in Request /\ Licensed(req[r])
  BY RequestFields DEF Typed, Approved
<1>2. a.op = req[r].op /\ a.cycle = req[r].cycle /\ a.pc = "persist" /\ a.verdict = req[r].verdict
  BY <1>1 DEF Request
<1>3. b.op = req[r].op /\ b.cycle = req[r].cycle /\ b.pc = "persist" /\ b.verdict = "failed"
  BY <1>1 DEF Request
<1>4. c.op = req[r].op /\ c.cycle = req[r].cycle /\ c.pc = "smoke" /\ c.verdict = req[r].verdict
  BY <1>1 DEF Request
<1>5. d.op = req[r].op /\ d.cycle = req[r].cycle /\ d.pc = "undo" /\ d.verdict = req[r].verdict
  BY <1>1 DEF Request
<1>6. ASSUME EndBatch(r) \/ SmokeTest(r) \/ EndUndo(r)
      PROVE  /\ req[r].pc \in {"apply", "smoke", "undo"} /\ UNCHANGED book
             /\ Become(r, Idle) \/ Become(r, a) \/ Become(r, b) \/ Become(r, c) \/ Become(r, d)
  BY <1>6 DEF EndBatch, SmokeTest, EndUndo, At, Goto, Return
<1> HIDE DEF a, b, c, d
<1>7. ASSUME req[r].pc \in {"apply", "smoke", "undo"}
      PROVE  Licensed(a) /\ Licensed(b) /\ Licensed(c) /\ Licensed(d)
  BY <1>1, <1>2, <1>3, <1>4, <1>5, <1>7 DEF Licensed, Before, Closing, AtProposal
<1> QED
  BY <1>2, <1>3, <1>4, <1>5, <1>6, <1>7, IdleIsLicensed, LicensedStep

LEMMA RecordApproved ==
    ASSUME Typed, Approved, NEW r \in Requests, Record(r)
    PROVE  Approved'
<1> DEFINE p == Current(r)
           e == [cycle |-> req[r].cycle, kind |-> p.kind, target |-> p.target,
                 old |-> req[r].img[p.target], new |-> p.value, category |-> p.category,
                 backup |-> source]
           q == [req[r] EXCEPT !.mem[Len(entry) + 1] = "applied", !.id = Len(entry) + 1,
                               !.pc = "save"]
<1>1. req[r] \in Request /\ Licensed(req[r]) /\ req[r].pc = "record"
  BY RequestFields DEF Typed, Approved, Record, At
<1>2. entry' = Append(entry, e) /\ Become(r, q)
      /\ cycle' = cycle /\ used' = used /\ optIn' = optIn
  BY DEF Record
<1>3. /\ q.op = req[r].op /\ q.cycle = req[r].cycle /\ q.pc = "save"
      /\ q.verdict = req[r].verdict /\ q.batch = req[r].batch /\ q.pos = req[r].pos
  BY <1>1 DEF Request
<1>4. /\ e.cycle = req[r].cycle /\ e.category = p.category /\ e.kind = p.kind
      /\ e.new = p.value /\ e.target = p.target
  OBVIOUS
<1>5. entry \in Seq(Entry)
  BY DEF Typed, TypeOK, BookOK
<1> HIDE DEF e, q
<1>6. \A i \in DOMAIN entry' : (i \in DOMAIN entry /\ entry'[i] = entry[i]) \/ entry'[i] = e
  BY <1>2, <1>5
<1>7. req[r].op \in {"cycle", "inject"} /\ req[r].cycle \in Cycles
  BY <1>1 DEF Typed, InPlace, OfBatch, AtProposal
<1>8. EntryApproved(e)
  <2>1. IsInjectable(p)
    BY <1>1 DEF Licensed, AtProposal, Current
  <2>2. /\ e.category = "whitelisted"
        /\ e.kind = "runtime" /\ e.target \in Tuned =>
              e.new \in MinVal[e.target] .. MaxVal[e.target]
    BY <1>4, <2>1 DEF IsInjectable, CheckBounds
  <2>3. cycle[e.cycle].outcome \in {"promoted", "needs_review"}
        \/ (cycle[e.cycle].outcome = "none" /\ optIn)
    BY <1>1, <1>4, <1>7 DEF Licensed, Before, Closing
  <2>4. e.cycle \in used
    <3>1. CASE req[r].op = "cycle"
      BY <1>1, <1>4, <3>1 DEF Licensed
    <3>2. CASE req[r].op = "inject"
      BY <1>1, <1>4, <1>7, <3>2 DEF Licensed, Approved
    <3> QED
      BY <1>7, <3>1, <3>2
  <2> QED
    BY <2>2, <2>3, <2>4 DEF EntryApproved
<1>9. \A i \in DOMAIN entry' : EntryApproved(entry'[i])
  BY <1>6, <1>8 DEF Approved
<1>10. \A x \in Requests : req'[x] = IF x = r THEN q ELSE req[x]
  BY <1>2 DEF Become, Typed, TypeOK
<1>11. ASSUME NEW x \in Requests, NEW c,
              ~(\E i \in DOMAIN entry : entry[i].cycle = c), c # req[r].cycle
       PROVE  ~(\E i \in DOMAIN entry' : entry'[i].cycle = c)
  BY <1>4, <1>6, <1>11
<1>12. ASSUME NEW x \in Requests, x # r
       PROVE  Licensed(req[x])'
  <2>1. Licensed(req[x]) /\ req'[x] = req[x]
    BY <1>10, <1>12 DEF Approved
  <2>2. ~(req[x].op = "cycle" /\ req[x].cycle = req[r].cycle)
    <3>1. CASE req[r].op = "cycle"
      BY <1>12, <3>1 DEF Approved, OwnCycles
    <3>2. CASE req[r].op = "inject"
      BY <1>1, <2>1, <3>2 DEF Licensed
    <3> QED
      BY <1>7, <3>1, <3>2
  <2>3. req[x].op = "cycle" =>
          ((\E i \in DOMAIN entry' : entry'[i].cycle = req[x].cycle) => HasEntry(req[x].cycle))
    BY <1>11, <2>2 DEF HasEntry
  <2> QED
    BY <1>2, <2>1, <2>3 DEF Licensed, HasEntry
<1>13. Licensed(req[r])'
  <2>1. req'[r] = q
    BY <1>10
  <2> QED
    BY <1>1, <1>2, <1>3, <2>1 DEF Licensed, Before, Closing, AtProposal
<1>14. OwnCycles'
  BY <1>3, <1>10 DEF Approved, OwnCycles
<1> QED
  BY <1>2, <1>9, <1>12, <1>13, <1>14 DEF Approved, EntryApproved

LEMMA ClosingApproved ==
    ASSUME Typed, Approved, NEW r \in Requests, TruncateRecord(r) \/ Persist(r)
    PROVE  Approved'
<1>1. /\ Licensed(req[r]) /\ req[r].pc \in Closing
      /\ req[r].op = "cycle" /\ req[r].cycle \in Cycles /\ req[r] \in Request
  BY RequestFields DEF Approved, TruncateRecord, Persist, At, Typed, InPlace, OfCycle, Closing
<1>2. entry' = entry /\ used' = used /\ optIn' = optIn
  BY DEF TruncateRecord, Persist
<1>3. PICK q :
        /\ Become(r, q)
        /\ \/ q = Idle /\ cycle'[req[r].cycle].outcome = req[r].verdict
           \/ /\ q.pc = "keep" /\ q.op = "cycle" /\ q.cycle = req[r].cycle
              /\ q.verdict = req[r].verdict /\ cycle'[req[r].cycle].outcome = "torn"
        /\ \A c \in Cycles : c # req[r].cycle => cycle'[c] = cycle[c]
  <2>1. cycle \in [Cycles -> CycleRecord]
    BY DEF Typed, TypeOK, BookOK
  <2>2. CASE Persist(r)
    BY <1>1, <2>1, <2>2 DEF Persist, Return
  <2>3. CASE TruncateRecord(r)
    <3> DEFINE k == [req[r] EXCEPT !.pc = "keep"]
    <3>1. k.pc = "keep" /\ k.op = "cycle" /\ k.cycle = req[r].cycle /\ k.verdict = req[r].verdict
      BY <1>1 DEF Request
    <3>2. Become(r, k)
      BY <2>3 DEF TruncateRecord, Goto
    <3> HIDE DEF k
    <3>3. cycle'[req[r].cycle].outcome = "torn"
          /\ \A c \in Cycles : c # req[r].cycle => cycle'[c] = cycle[c]
      BY <1>1, <2>1, <2>3 DEF TruncateRecord
    <3> QED
      BY <3>1, <3>2, <3>3
  <2> QED
    BY <2>2, <2>3
<1>4. \A x \in Requests : req'[x] = IF x = r THEN q ELSE req[x]
  BY <1>3 DEF Become, Typed, TypeOK
<1>5. ASSUME NEW x \in Requests, x # r
      PROVE  Licensed(req[x])'
  <2>1. Licensed(req[x]) /\ req'[x] = req[x]
    BY <1>4, <1>5 DEF Approved
  <2>2. req[x].op \in {"cycle", "inject"} => req[x].cycle # req[r].cycle
    BY <1>1, <1>5, <2>1 DEF Approved, OwnCycles, Licensed
  <2>3. req[x].op \in {"cycle", "inject"} => req[x].cycle \in Cycles
    BY DEF Typed, InPlace
  <2>4. req[x].op \in {"cycle", "inject"} => cycle'[req[x].cycle] = cycle[req[x].cycle]
    BY <1>3, <2>2, <2>3
  <2> QED
    BY <1>2, <2>1, <2>4 DEF Licensed, HasEntry
<1>6. Licensed(req[r])'
  <2>1. req'[r] = q
    BY <1>4
  <2>2. CASE q = Idle
    BY <2>1, <2>2 DEF Licensed, Idle, AtProposal
  <2>3. CASE q # Idle
    BY <1>1, <1>2, <1>3, <2>1, <2>3 DEF Licensed, HasEntry, Before, Closing, AtProposal
  <2> QED
    BY <2>2, <2>3
<1>7. OwnCycles'
  BY <1>1, <1>3, <1>4 DEF Approved, OwnCycles, Idle
<1>8. ASSUME NEW i \in DOMAIN entry
      PROVE  EntryApproved(entry[i])'
  <2>1. EntryApproved(entry[i]) /\ entry[i].cycle \in Cycles
    BY EntryFacts DEF Approved, Typed, Entry
  <2>2. CASE entry[i].cycle = req[r].cycle
    <3>1. optIn /\ req[r].verdict \in {"promoted", "failed"}
      BY <1>1, <2>2 DEF Licensed, HasEntry
    <3> QED
      BY <1>2, <1>3, <2>1, <2>2, <3>1 DEF EntryApproved
  <2>3. CASE entry[i].cycle # req[r].cycle
    BY <1>2, <1>3, <2>1, <2>3 DEF EntryApproved
  <2> QED
    BY <2>2, <2>3
<1>9. \A c \in Cycles \ used' : cycle'[c].outcome = "none"
  BY <1>1, <1>2, <1>3 DEF Approved, Licensed
<1> QED
  BY <1>2, <1>5, <1>6, <1>7, <1>8, <1>9 DEF Approved

\* A request begins.  A cycle id is new, a record injected from is in order.
LEMMA StartsApproved ==
    ASSUME Typed, Approved
    PROVE  /\ \A r \in Threads, c \in Cycles, b \in Batches \cup {<<>>} :
                StartCycle(r, c, b) => Approved'
           /\ \A r \in Threads, c \in Cycles : StartInject(r, c) => Approved'
           /\ \A e \in {"rollback", "rollback_cycle"} : \A ids : StartUndo(e, ids) => Approved'
<1>1. ASSUME NEW r \in Threads, NEW c \in Cycles, NEW b \in Batches \cup {<<>>},
             StartCycle(r, c, b)
      PROVE  Approved'
  <2> DEFINE l == IF b = <<>> THEN "persist" ELSE "validate"
             q == [Idle EXCEPT !.op = "cycle", !.cycle = c, !.batch = b, !.pc = l]
  <2>1. q.op = "cycle" /\ q.cycle = c /\ q.pc \in {"persist", "validate"}
    BY DEF Idle
  <2>2. Become(r, q) /\ entry' = entry /\ cycle' = cycle /\ optIn' = optIn
        /\ used' = used \cup {c} /\ c \notin used
    BY <1>1 DEF StartCycle, Begin
  <2> HIDE DEF q
  <2>3. \A x \in Requests : req'[x] = IF x = r THEN q ELSE req[x]
    BY <2>2 DEF Become, Typed, TypeOK
  <2>4. ~HasEntry(c) /\ cycle[c].outcome = "none"
    BY <2>2 DEF Approved, EntryApproved, HasEntry
  <2>5. ASSUME NEW x \in Requests, x # r
        PROVE  Licensed(req[x])'
    BY <2>2, <2>3, <2>5 DEF Approved, Licensed, HasEntry
  <2>6. Licensed(req[r])'
    <3>1. req'[r] = q
      BY <2>3, <1>1 DEF Requests
    <3> QED
      BY <2>1, <2>2, <2>4, <3>1 DEF Licensed, HasEntry, Before, Closing, AtProposal
  <2>7. OwnCycles'
    BY <2>1, <2>2, <2>3 DEF Approved, Licensed, OwnCycles
  <2> QED
    BY <2>2, <2>5, <2>6, <2>7 DEF Approved, EntryApproved
<1>2. ASSUME NEW r \in Threads, NEW c \in Cycles, StartInject(r, c)
      PROVE  Approved'
  <2> DEFINE q == [Idle EXCEPT !.op = "inject", !.cycle = c,
                       !.batch = cycle[c].proposals, !.pc = "open"]
  <2>1. q.op = "inject" /\ q.cycle = c /\ q.pc = "open"
    BY DEF Idle
  <2>2. Become(r, q) /\ UNCHANGED book /\ cycle[c].outcome \in {"promoted", "needs_review"}
    BY <1>2 DEF StartInject, Begin, book
  <2> HIDE DEF q
  <2>3. \A x \in Requests : req'[x] = IF x = r THEN q ELSE req[x]
    BY <2>2 DEF Become, Typed, TypeOK
  <2>4. entry' = entry /\ cycle' = cycle /\ used' = used /\ optIn' = optIn
    BY <2>2 DEF book
  <2>5. ASSUME NEW x \in Requests
        PROVE  Licensed(req[x])'
    <3>1. CASE x = r
      <4>1. req'[x] = q
        BY <2>3, <3>1
      <4> QED
        BY <2>1, <2>2, <2>4, <4>1 DEF Licensed, AtProposal
    <3>2. CASE x # r
      BY <2>3, <2>4, <3>2 DEF Approved, Licensed, HasEntry
    <3> QED
      BY <3>1, <3>2
  <2>6. OwnCycles'
    BY <2>1, <2>3 DEF Approved, OwnCycles
  <2> QED
    BY <2>4, <2>5, <2>6 DEF Approved, EntryApproved
<1>3. ASSUME NEW e \in {"rollback", "rollback_cycle"}, NEW ids, StartUndo(e, ids)
      PROVE  Approved'
  <2> DEFINE q == [Idle EXCEPT !.op = e, !.undo = ids, !.mem = Load(disk), !.pc = "undo"]
  <2>1. q.op = e /\ q.pc = "undo"
    BY DEF Idle
  <2>2. Become(EventLoop, q) /\ UNCHANGED book
    BY <1>3 DEF StartUndo, Begin, book
  <2> HIDE DEF q
  <2>3. \A x \in Requests : req'[x] = IF x = EventLoop THEN q ELSE req[x]
    BY <2>2 DEF Become, Typed, TypeOK
  <2>4. entry' = entry /\ cycle' = cycle /\ used' = used /\ optIn' = optIn
    BY <2>2 DEF book
  <2>5. ASSUME NEW x \in Requests
        PROVE  Licensed(req[x])'
    <3>1. CASE x = EventLoop
      <4>1. req'[x] = q
        BY <2>3, <3>1
      <4> QED
        BY <2>1, <2>4, <4>1 DEF Licensed, AtProposal
    <3>2. CASE x # EventLoop
      BY <2>3, <2>4, <3>2 DEF Approved, Licensed, HasEntry
    <3> QED
      BY <3>1, <3>2
  <2>6. OwnCycles'
    BY <2>1, <2>3 DEF Approved, OwnCycles
  <2> QED
    BY <2>4, <2>5, <2>6 DEF Approved, EntryApproved
<1> QED
  BY <1>1, <1>2, <1>3

LEMMA CrashApproved ==
    ASSUME Typed, Approved, Crash
    PROVE  Approved'
<1>1. entry' = entry /\ cycle' = cycle /\ used' = used /\ optIn' = optIn
  BY DEF Crash, book
<1>2. \A r \in Requests : req'[r] = Idle
  BY DEF Crash
<1>3. \A r \in Requests : Licensed(req[r])'
  BY <1>2 DEF Licensed, Idle, AtProposal
<1>4. OwnCycles'
  BY <1>2 DEF OwnCycles, Idle
<1> QED
  BY <1>1, <1>3, <1>4 DEF Approved, EntryApproved

LEMMA InitApproved == Init => Approved
<1> SUFFICES ASSUME Init
             PROVE  Approved
  OBVIOUS
<1>1. \A r \in Requests : req[r] = Idle
  BY DEF Init
<1>2. (\A r \in Requests : Licensed(req[r])) /\ OwnCycles
  BY <1>1, IdleIsLicensed DEF OwnCycles, Idle
<1>3. DOMAIN entry = {}
  BY DEF Init
<1>4. \A c \in Cycles : cycle[c].outcome = "none"
  BY DEF Init
<1> QED
  BY <1>2, <1>3, <1>4 DEF Approved

LEMMA NextApproved == Typed /\ Approved /\ [Next]_vars => Approved'
<1> SUFFICES ASSUME Typed, Approved, [Next]_vars
             PROVE  Approved'
  OBVIOUS
<1>1. ASSUME NEW r \in Threads, NEW c \in Cycles, NEW b \in Batches \cup {<<>>},
             StartCycle(r, c, b)
      PROVE  Approved'
  BY <1>1, StartsApproved
<1>2. ASSUME NEW r \in Threads, NEW c \in Cycles, StartInject(r, c)
      PROVE  Approved'
  BY <1>2, StartsApproved
<1>3. ASSUME NEW i \in Ids, StartRollback(i)
      PROVE  Approved'
  BY <1>3, StartsApproved DEF StartRollback
<1>4. ASSUME NEW c \in Cycles, StartRollbackCycle(c)
      PROVE  Approved'
  BY <1>4, StartsApproved DEF StartRollbackCycle
<1>5. ASSUME NEW r \in Requests, Step(r)
      PROVE  Approved'
  <2>1. CASE Onward(r)
    BY <2>1, OnwardIsApproved
  <2>2. CASE \/ (\E t \in Tuned : Override(r, t) \/ Restore(r, t)) \/ Benchmark(r)
             \/ \E v \in Outcomes \ {"no_proposals"} : Recommend(r, v)
    BY <2>2, ValidationApproved
  <2>3. CASE EndBatch(r) \/ SmokeTest(r) \/ EndUndo(r)
    BY <2>3, EndsApproved
  <2>4. CASE Record(r) \/ TruncateRecord(r) \/ Persist(r)
    BY <2>4, RecordApproved, ClosingApproved
  <2> QED
    BY <1>5, <2>1, <2>2, <2>3, <2>4, StepsGoOnward DEF Step
<1>6. CASE Crash
  BY <1>6, CrashApproved
<1>7. CASE UNCHANGED vars
  <2>1. entry' = entry /\ cycle' = cycle /\ used' = used /\ optIn' = optIn /\ req' = req
    BY <1>7 DEF vars, book
  <2> QED
    BY <2>1 DEF Approved, Licensed, HasEntry, OwnCycles, EntryApproved
<1> QED
  BY <1>1, <1>2, <1>3, <1>4, <1>5, <1>6, <1>7 DEF Next

\* Nothing reaches the ledger that the guard refuses or whose cycle was
\* rejected; without the opt-in nothing whose cycle is not on record as promoted
\* or left for review (injection_guard.py is_injectable, self_improve.py
\* _try_auto_inject and inject_cycle).
THEOREM OnlyApprovedAlways == Spec => []OnlyApproved
<1>1. Typed /\ Approved => OnlyApproved
  <2> SUFFICES ASSUME Typed, Approved, NEW i \in DOMAIN entry
               PROVE  /\ entry[i].category = "whitelisted"
                      /\ entry[i].kind = "runtime" /\ entry[i].target \in Tuned =>
                            entry[i].new \in MinVal[entry[i].target] .. MaxVal[entry[i].target]
                      /\ cycle[entry[i].cycle].outcome \notin {"rejected", "no_proposals"}
                      /\ ~optIn =>
                            cycle[entry[i].cycle].outcome \in {"promoted", "needs_review"}
    BY DEF OnlyApproved
  <2>1. EntryApproved(entry[i]) /\ entry[i].cycle \in Cycles
    BY EntryFacts DEF Approved, Typed, Entry
  <2>2. cycle[entry[i].cycle].outcome \in Outcomes \cup {"none", "torn"}
    BY <2>1 DEF Typed, TypeOK, BookOK, CycleRecord
  <2> QED
    BY <2>1, <2>2 DEF EntryApproved, Outcomes
<1> QED
  BY <1>1, TypedAlways, InitApproved, NextApproved, PTL DEF Spec

------------------------------------------------------------------------------
\* As long as requests came one at a time and none was cut short, the ledger
\* file is exact between requests.

\* What a ledger has to say of an injection.
Status(i, es, u) ==
    IF i \in DOMAIN es THEN IF i \in u THEN "rolled_back" ELSE "applied" ELSE "none"

Agrees(m, es, u) == \A i \in Ids : m[i] = Status(i, es, u)

Kept(d, es, u) == d # Torn /\ Agrees(d, es, u)

\* Before a request has read the ledger or after its last use of it; while its
\* copy and the file are the same; while the file is torn.
Unread == {"validate", "restore", "open", "persist", "keep"}
Reading == {"apply", "setattr", "truncate", "write", "record", "patch", "reload", "smoke",
            "undo", "unload", "rewrite"}
Saving == {"save", "saved"}

ExactRequest(q, d, es, u) ==
    /\ q.pc \in Unread \cup Reading => Kept(d, es, u)
    /\ q.pc \in Reading \cup Saving => Agrees(q.mem, es, u)
    /\ q.pc = "mark" =>
          Least(q.undo) \in u /\ \A i \in Ids : i # Least(q.undo) => q.mem[i] = Status(i, es, u)

\* A source patch is recorded before it is made.
Awaited(q, i) ==
    /\ i = q.id
    /\ \/ q.pc = "patch"
       \/ q.pc = "save" /\ q.batch[q.pos].kind = "source_patch"

Exact ==
    serial =>
        /\ \A r, s \in Requests : req[r].pc # "idle" /\ req[s].pc # "idle" => r = s
        /\ undone \subseteq DOMAIN entry
        /\ \A i \in DOMAIN entry : i \in done \/ \E r \in Requests : Awaited(req[r], i)
        /\ AllIdle => Kept(disk, entry, undone)
        /\ \A r \in Requests : ExactRequest(req[r], disk, entry, undone)

------------------------------------------------------------------------------
\* A request takes a step: it is enough to look at its own record.
LEMMA ExactStep ==
    ASSUME Typed, Exact, serial, NEW r \in Requests, req[r].pc # "idle", NEW q, Become(r, q),
           undone' \subseteq DOMAIN entry',
           \A i \in DOMAIN entry' : i \in done' \/ Awaited(q, i),
           q.pc = "idle" => Kept(disk', entry', undone'),
           ExactRequest(q, disk', entry', undone')
    PROVE  Exact'
<1>1. \A x \in Requests : req'[x] = IF x = r THEN q ELSE req[x]
  BY DEF Become, Typed, TypeOK
<1>2. \A x \in Requests : x # r => req'[x].pc = "idle"
  BY <1>1 DEF Exact
<1>3. \A x \in Requests : ExactRequest(req'[x], disk', entry', undone')
  BY <1>1, <1>2 DEF ExactRequest, Unread, Reading, Saving
<1>4. AllIdle' => Kept(disk', entry', undone')
  BY <1>1 DEF AllIdle
<1> QED
  BY <1>1, <1>2, <1>3, <1>4 DEF Exact

\* The injections that are recorded are done, but for a patch in hand.
LEMMA RecordedIsDone ==
    ASSUME Exact, serial, NEW r \in Requests, req[r].pc # "idle"
    PROVE  /\ \A i \in DOMAIN entry : i \in done \/ Awaited(req[r], i)
           /\ undone \subseteq DOMAIN entry /\ ExactRequest(req[r], disk, entry, undone)
<1>1. \A x \in Requests : x # r => req[x].pc = "idle"
  BY DEF Exact
<1>2. \A x \in Requests, i \in DOMAIN entry : Awaited(req[x], i) => x = r
  BY <1>1 DEF Awaited
<1> QED
  BY <1>2 DEF Exact

\* A step that leaves the ledger, and what it is about, alone.
LEMMA ReadingStep ==
    ASSUME Typed, Exact, serial, NEW r \in Requests, NEW q, Become(r, q),
           req[r].pc \in (Unread \cup Reading) \ {"patch"},
           UNCHANGED <<disk, entry, done, undone>>,
           q.pc \in (Unread \cup Reading \cup {"idle"}) \ {"patch"},
           q.pc \in Reading => q.mem = disk \/ (q.mem = req[r].mem /\ req[r].pc \in Reading)
    PROVE  Exact'
<1>1. req[r].pc # "idle"
  BY DEF Unread, Reading
<1>2. Kept(disk, entry, undone) /\ (req[r].pc \in Reading => Agrees(req[r].mem, entry, undone))
  BY <1>1, RecordedIsDone DEF ExactRequest
<1>3. ExactRequest(q, disk, entry, undone)
  <2>1. q.pc \in Reading => Agrees(q.mem, entry, undone)
    BY <1>2 DEF Kept
  <2> QED
    BY <1>2, <2>1 DEF ExactRequest, Unread, Reading, Saving
<1>4. \A i \in DOMAIN entry : i \in done
  BY <1>1, RecordedIsDone DEF Awaited, Unread, Reading
<1> QED
  BY <1>1, <1>2, <1>3, <1>4, RecordedIsDone, ExactStep

LEMMA Readers ==
    ASSUME Typed, Exact, serial, NEW r \in Requests,
           \/ (\E t \in Tuned : Override(r, t) \/ Restore(r, t)) \/ Benchmark(r)
           \/ (\E v \in Outcomes : Recommend(r, v)) \/ Open(r)
           \/ Skip(r) \/ ReadOriginal(r) \/ SetRuntime(r) \/ TruncateConfig(r) \/ WriteConfig(r)
           \/ Reload(r) \/ EndBatch(r) \/ SmokeTest(r)
           \/ UndoSource(r) \/ UndoConfig(r) \/ EndUndo(r) \/ TruncateRecord(r) \/ Persist(r)
    PROVE  Exact'
<1>1. req[r] \in Request
  BY RequestFields DEF Typed
<1>2. UNCHANGED <<disk, entry, done, undone>>
  BY DEF Override, Restore, Benchmark, Recommend, Open, Skip, ReadOriginal, SetRuntime, TruncateConfig,
         WriteConfig, Reload, EndBatch, SmokeTest, UndoSource, UndoConfig, EndUndo, TruncateRecord,
         Persist, files, book, history
<1>3. req[r].pc \in (Unread \cup Reading) \ {"patch"}
  BY DEF Override, Restore, Benchmark, Recommend, Open, Skip, ReadOriginal, SetRuntime, TruncateConfig,
         WriteConfig, Reload, EndBatch, SmokeTest, UndoSource, UndoConfig, EndUndo, TruncateRecord,
         Persist, At, AtUndo, Unread, Reading
<1>4. disk # Torn
  <2>1. req[r].pc # "idle" /\ req[r].pc \in Unread \cup Reading
    BY <1>3 DEF Unread, Reading
  <2> QED
    BY <2>1, RecordedIsDone DEF ExactRequest, Kept
<1>5. ASSUME NEW q, Become(r, q), q.pc \in Unread \cup {"idle"}
      PROVE  Exact'
  <2>1. q.pc \in (Unread \cup Reading \cup {"idle"}) \ {"patch"} /\ q.pc \notin Reading
    BY <1>5 DEF Unread, Reading
  <2> QED
    BY <1>2, <1>3, <1>5, <2>1, ReadingStep
<1>6. ASSUME NEW q, Become(r, q), q.mem = req[r].mem, q.pc \in Reading \ {"patch"},
             req[r].pc \in Reading
      PROVE  Exact'
  <2>1. q.pc \in (Unread \cup Reading \cup {"idle"}) \ {"patch"}
    BY <1>6
  <2> QED
    BY <1>2, <1>3, <1>6, <2>1, ReadingStep
<1>7. ASSUME NEW t \in Tuned, Override(r, t) \/ Restore(r, t) PROVE Exact'
  <2>1. PICK q \in {[req[r] EXCEPT !.img[t] = live[t], !.held = @ \cup {t}],
                    [req[r] EXCEPT !.held = @ \ {t}]} : Become(r, q)
    BY <1>7 DEF Override, Restore
  <2>2. q.pc = req[r].pc
    BY <1>1 DEF Request
  <2>3. q.pc \in Unread
    BY <1>7, <2>2 DEF Override, Restore, At, Unread
  <2> QED
    BY <1>5, <2>1, <2>3
<1>8. ASSUME NEW v \in Outcomes, Recommend(r, v) PROVE Exact'
  <2> DEFINE l == IF v = "promoted" /\ optIn THEN "open" ELSE "persist"
  <2> DEFINE q == [req[r] EXCEPT !.verdict = v, !.pc = l]
  <2>1. q.pc \in Unread
    BY <1>1 DEF Request, Unread
  <2>2. Become(r, q)
    BY <1>8 DEF Recommend
  <2> HIDE DEF q
  <2> QED
    BY <1>5, <2>1, <2>2
<1>9. CASE Open(r)
  <2> DEFINE q == [req[r] EXCEPT !.mem = Load(disk), !.pc = "apply"]
  <2>1. q.mem = disk /\ q.pc = "apply"
    BY <1>1, <1>4 DEF Request, Load
  <2>2. Become(r, q)
    BY <1>9 DEF Open
  <2> HIDE DEF q
  <2>3. q.pc \in (Unread \cup Reading \cup {"idle"}) \ {"patch"}
    BY <2>1 DEF Reading
  <2> QED
    BY <1>2, <1>3, <2>1, <2>2, <2>3, ReadingStep
<1>10. CASE Skip(r)
  <2> DEFINE q == [req[r] EXCEPT !.pos = @ + 1]
  <2>1. q.mem = req[r].mem /\ q.pc \in Reading \ {"patch"}
    BY <1>1, <1>10 DEF Request, Reading, At, Skip
  <2>2. Become(r, q) /\ req[r].pc \in Reading
    BY <1>10 DEF Skip, At, Reading
  <2> HIDE DEF q
  <2> QED
    BY <1>6, <2>1, <2>2
<1>11. CASE ReadOriginal(r)
  <2>4. PICK m \in {live, source, ReadConfig}, l \in {"setattr", "truncate", "record"} :
          Become(r, [req[r] EXCEPT !.img = m, !.pc = l])
    BY <1>11 DEF ReadOriginal
  <2> DEFINE q == [req[r] EXCEPT !.img = m, !.pc = l]
  <2>1. q.mem = req[r].mem /\ q.pc \in Reading \ {"patch"}
    BY <1>1 DEF Request, Reading
  <2>2. Become(r, q) /\ req[r].pc \in Reading
    BY <1>11, <2>4 DEF ReadOriginal, At, Reading
  <2> HIDE DEF q
  <2> QED
    BY <1>6, <2>1, <2>2
<1>12. CASE SetRuntime(r)
  <2> DEFINE q == [req[r] EXCEPT !.pc = "record"]
  <2>1. q.mem = req[r].mem /\ q.pc \in Reading \ {"patch"}
    BY <1>1 DEF Request, Reading
  <2>2. Become(r, q) /\ req[r].pc \in Reading
    BY <1>12 DEF SetRuntime, Goto, At, Reading
  <2> HIDE DEF q
  <2> QED
    BY <1>6, <2>1, <2>2
<1>13. CASE TruncateConfig(r)
  <2> DEFINE q == [req[r] EXCEPT !.pc = "write"]
  <2>1. q.mem = req[r].mem /\ q.pc \in Reading \ {"patch"}
    BY <1>1 DEF Request, Reading
  <2>2. Become(r, q) /\ req[r].pc \in Reading
    BY <1>13 DEF TruncateConfig, Goto, At, Reading
  <2> HIDE DEF q
  <2> QED
    BY <1>6, <2>1, <2>2
<1>14. CASE WriteConfig(r)
  <2> DEFINE q == [req[r] EXCEPT !.pc = "record"]
  <2>1. q.mem = req[r].mem /\ q.pc \in Reading \ {"patch"}
    BY <1>1 DEF Request, Reading
  <2>2. Become(r, q) /\ req[r].pc \in Reading
    BY <1>14 DEF WriteConfig, Goto, At, Reading
  <2> HIDE DEF q
  <2> QED
    BY <1>6, <2>1, <2>2
<1>15. CASE UndoSource(r)
  <2> DEFINE q == [req[r] EXCEPT !.pc = "unload"]
  <2>1. q.mem = req[r].mem /\ q.pc \in Reading \ {"patch"}
    BY <1>1 DEF Request, Reading
  <2>2. Become(r, q) /\ req[r].pc \in Reading
    BY <1>15 DEF UndoSource, Goto, AtUndo, At, Reading
  <2> HIDE DEF q
  <2> QED
    BY <1>6, <2>1, <2>2
<1>16. CASE Return(r)
  BY <1>5, <1>16 DEF Return, Idle
<1>17. ASSUME NEW l \in Unread, Goto(r, l) PROVE Exact'
  <2> DEFINE q == [req[r] EXCEPT !.pc = l]
  <2>1. q.pc \in Unread
    BY <1>1 DEF Request
  <2>2. Become(r, q)
    BY <1>17 DEF Goto
  <2> HIDE DEF q
  <2> QED
    BY <1>5, <2>1, <2>2
<1>18. CASE Reload(r)
  <2>1. CASE Become(r, [req[r] EXCEPT !.applied = @ + 1, !.pos = @ + 1, !.pc = "apply"])
    <3> DEFINE q == [req[r] EXCEPT !.applied = @ + 1, !.pos = @ + 1, !.pc = "apply"]
    <3>1. q.mem = req[r].mem /\ q.pc \in Reading \ {"patch"}
      BY <1>1 DEF Request, Reading
    <3>2. Become(r, q) /\ req[r].pc \in Reading
      BY <1>18, <2>1 DEF Reload, At, Reading
    <3> HIDE DEF q
    <3> QED
      BY <1>6, <3>1, <3>2
  <2>2. CASE Become(r, [req[r] EXCEPT !.pos = @ + 1, !.pc = "apply"])
    <3> DEFINE q == [req[r] EXCEPT !.pos = @ + 1, !.pc = "apply"]
    <3>1. q.mem = req[r].mem /\ q.pc \in Reading \ {"patch"}
      BY <1>1 DEF Request, Reading
    <3>2. Become(r, q) /\ req[r].pc \in Reading
      BY <1>18, <2>2 DEF Reload, At, Reading
    <3> HIDE DEF q
    <3> QED
      BY <1>6, <3>1, <3>2
  <2> QED
    BY <1>18, <2>1, <2>2 DEF Reload
<1>19. CASE EndBatch(r)
  <2>1. CASE Return(r)
    BY <1>16, <2>1
  <2>2. CASE Goto(r, "persist")
    BY <1>17, <2>2 DEF Unread
  <2>3. CASE Goto(r, "smoke")
    <3> DEFINE q == [req[r] EXCEPT !.pc = "smoke"]
    <3>1. q.mem = req[r].mem /\ q.pc \in Reading \ {"patch"}
      BY <1>1 DEF Request, Reading
    <3>2. Become(r, q) /\ req[r].pc \in Reading
      BY <1>19, <2>3 DEF EndBatch, Goto, At, Reading
    <3> HIDE DEF q
    <3> QED
      BY <1>6, <3>1, <3>2
  <2> QED
    BY <1>19, <2>1, <2>2, <2>3 DEF EndBatch
<1>20. CASE EndUndo(r)
  <2>1. CASE Return(r)
    BY <1>16, <2>1
  <2>2. CASE Goto(r, "persist")
    BY <1>17, <2>2 DEF Unread
  <2> QED
    BY <1>20, <2>1, <2>2 DEF EndUndo
<1>21. CASE SmokeTest(r)
  <2>1. CASE Goto(r, "persist")
    BY <1>17, <2>1 DEF Unread
  <2>2. CASE Become(r, [req[r] EXCEPT !.undo = ActiveByCycle(req[r].mem, req[r].cycle), !.pc = "undo"])
    <3> DEFINE q == [req[r] EXCEPT !.undo = ActiveByCycle(req[r].mem, req[r].cycle), !.pc = "undo"]
    <3>1. q.mem = req[r].mem /\ q.pc \in Reading \ {"patch"}
      BY <1>1 DEF Request, Reading
    <3>2. Become(r, q) /\ req[r].pc \in Reading
      BY <1>21, <2>2 DEF SmokeTest, At, Reading
    <3> HIDE DEF q
    <3> QED
      BY <1>6, <3>1, <3>2
  <2>3. CASE Become(r, [req[r] EXCEPT !.verdict = "failed", !.pc = "persist"])
    <3> DEFINE q == [req[r] EXCEPT !.verdict = "failed", !.pc = "persist"]
    <3>1. q.pc \in Unread
      BY <1>1 DEF Request, Unread
    <3>2. Become(r, q)
      BY <2>3 DEF Request
    <3> HIDE DEF q
    <3> QED
      BY <1>5, <3>1, <3>2
  <2> QED
    BY <1>21, <2>1, <2>2, <2>3 DEF SmokeTest
<1>22. CASE UndoConfig(r)
  <2>1. CASE Become(r, [req[r] EXCEPT !.undo = @ \ {Undoing(r)}, !.pc = "undo"])
    <3> DEFINE q == [req[r] EXCEPT !.undo = @ \ {Undoing(r)}, !.pc = "undo"]
    <3>1. q.mem = req[r].mem /\ q.pc \in Reading \ {"patch"}
      BY <1>1 DEF Request, Reading
    <3>2. Become(r, q) /\ req[r].pc \in Reading
      BY <1>22, <2>1 DEF UndoConfig, AtUndo, At, Reading
    <3> HIDE DEF q
    <3> QED
      BY <1>6, <3>1, <3>2
  <2>2. CASE Become(r, [req[r] EXCEPT !.img = config, !.pc = "rewrite"])
    <3> DEFINE q == [req[r] EXCEPT !.img = config, !.pc = "rewrite"]
    <3>1. q.mem = req[r].mem /\ q.pc \in Reading \ {"patch"}
      BY <1>1 DEF Request, Reading
    <3>2. Become(r, q) /\ req[r].pc \in Reading
      BY <1>22, <2>2 DEF UndoConfig, AtUndo, At, Reading
    <3> HIDE DEF q
    <3> QED
      BY <1>6, <3>1, <3>2
  <2> QED
    BY <1>22, <2>1, <2>2 DEF UndoConfig, Leave
<1>23. CASE Persist(r)
  BY <1>16, <1>23 DEF Persist
<1>24. CASE Benchmark(r)
  BY <1>17, <1>24 DEF Benchmark, Unread
<1>25. CASE TruncateRecord(r)
  BY <1>17, <1>25 DEF TruncateRecord, Unread
<1> QED
  BY <1>7, <1>8, <1>9, <1>10, <1>11, <1>12, <1>13, <1>14, <1>15, <1>18, <1>19, <1>20, <1>21, <1>22, <1>23,
     <1>24, <1>25

------------------------------------------------------------------------------
(* The steps that write the ledger, or change what it has to say.          *)

LEMMA RecordExact ==
    ASSUME Typed, Exact, serial, NEW r \in Requests, Record(r)
    PROVE  Exact'
<1> DEFINE i == Len(entry) + 1
           e == [cycle |-> req[r].cycle, kind |-> Current(r).kind, target |-> Current(r).target,
                 old |-> req[r].img[Current(r).target], new |-> Current(r).value,
                 category |-> Current(r).category, backup |-> source]
           q == [req[r] EXCEPT !.mem[i] = "applied", !.id = i, !.pc = "save"]
<1>1. entry' = Append(entry, e) /\ Become(r, q) /\ undone' = undone
      /\ done' = IF Current(r).kind = "source_patch" THEN done ELSE done \cup {i}
  BY DEF Record
<1>2. req[r].pc = "record"
  BY DEF Record, At
<1>3. q.mem = [req[r].mem EXCEPT ![i] = "applied"] /\ q.pc = "save" /\ q.id = i
      /\ q.batch = req[r].batch /\ q.pos = req[r].pos
  BY RequestFields DEF Request, Typed
<1>4. entry \in Seq(Entry) /\ i \in Ids /\ req[r].mem \in Ledger /\ DOMAIN entry = 1 .. Len(entry)
      /\ Len(entry) \in Nat
  BY EntryFacts, RequestFields, ConstantsAssumption DEF Record, Ids, Typed, TypeOK, BookOK
<1>5. DOMAIN entry' = DOMAIN entry \cup {i} /\ i \notin DOMAIN entry
  <2>1. DOMAIN entry' = 1 .. Len(entry) + 1
    BY <1>1, <1>4
  <2> QED
    BY <1>4, <2>1
<1> HIDE DEF e, q, i
<1>6. /\ \A k \in DOMAIN entry : k \in done
      /\ undone \subseteq DOMAIN entry /\ Agrees(req[r].mem, entry, undone)
  BY <1>2, RecordedIsDone DEF Awaited, ExactRequest, Reading
<1>7. Agrees(q.mem, entry', undone')
  BY <1>1, <1>3, <1>4, <1>5, <1>6 DEF Agrees, Status, Ledger
<1>8. ExactRequest(q, disk', entry', undone')
  BY <1>3, <1>7 DEF ExactRequest, Unread, Reading
<1>9. \A k \in DOMAIN entry' : k \in done' \/ Awaited(q, k)
  <2>1. Awaited(q, i) \/ Current(r).kind # "source_patch"
    BY <1>3 DEF Awaited, Current
  <2> QED
    BY <1>1, <1>5, <1>6, <2>1
<1> QED
  BY <1>1, <1>2, <1>3, <1>5, <1>6, <1>8, <1>9, ExactStep

\* A request writes its copy back.
LEMMA WrittenBack ==
    ASSUME Typed, NEW r \in Requests, Agrees(req[r].mem, entry, undone), disk' = req[r].mem,
           entry' = entry, undone' = undone
    PROVE  Kept(disk', entry', undone')
<1>1. req[r].mem \in Ledger
  BY RequestFields DEF Typed
<1> QED
  BY <1>1, TornAssumption DEF Kept

LEMMA SaveExact ==
    ASSUME Typed, Exact, serial, NEW r \in Requests, Save(r)
    PROVE  Exact'
<1>1. req[r].pc = "save" /\ req[r] \in Request
  BY RequestFields DEF Save, At, Typed
<1>2. UNCHANGED <<entry, done, undone>> /\ disk' = req[r].mem
  BY DEF Save, book, history
<1>3. Agrees(req[r].mem, entry, undone) /\ undone \subseteq DOMAIN entry
      /\ \A k \in DOMAIN entry : k \in done \/ Awaited(req[r], k)
  BY <1>1, RecordedIsDone DEF ExactRequest, Saving
<1>4. Kept(disk', entry', undone')
  BY <1>2, <1>3, WrittenBack
<1>5. CASE Current(r).kind = "source_patch"
  <2> DEFINE q == [req[r] EXCEPT !.pc = "patch"]
  <2>1. q.mem = req[r].mem /\ q.pc = "patch" /\ q.id = req[r].id
    BY <1>1 DEF Request
  <2>2. Become(r, q)
    BY <1>5 DEF Save, Goto
  <2> HIDE DEF q
  <2>3. ExactRequest(q, disk', entry', undone')
    BY <1>2, <1>3, <1>4, <2>1 DEF ExactRequest
  <2>4. \A k \in DOMAIN entry' : k \in done' \/ Awaited(q, k)
    BY <1>2, <1>3, <2>1 DEF Awaited
  <2> QED
    BY <1>1, <1>2, <1>3, <2>1, <2>2, <2>3, <2>4, ExactStep
<1>6. CASE Current(r).kind # "source_patch"
  <2> DEFINE q == [req[r] EXCEPT !.applied = @ + 1, !.pos = @ + 1, !.pc = "apply"]
  <2>1. q.mem = req[r].mem /\ q.pc = "apply"
    BY <1>1 DEF Request
  <2>2. Become(r, q)
    BY <1>6 DEF Save
  <2> HIDE DEF q
  <2>3. ExactRequest(q, disk', entry', undone')
    BY <1>2, <1>3, <1>4, <2>1 DEF ExactRequest
  <2>4. \A k \in DOMAIN entry' : k \in done' \/ Awaited(q, k)
    BY <1>1, <1>2, <1>3, <1>6 DEF Awaited, Current
  <2> QED
    BY <1>1, <1>2, <1>3, <2>1, <2>2, <2>3, <2>4, ExactStep
<1> QED
  BY <1>5, <1>6

LEMMA PatchSourceExact ==
    ASSUME Typed, Exact, serial, NEW r \in Requests, PatchSource(r)
    PROVE  Exact'
<1> DEFINE q == [req[r] EXCEPT !.pc = "reload"]
<1>1. req[r].pc = "patch" /\ req[r] \in Request
  BY RequestFields DEF PatchSource, At, Typed
<1>2. UNCHANGED <<disk, entry, undone>> /\ done' = done \cup {req[r].id} /\ Become(r, q)
  BY DEF PatchSource, book, Goto
<1>3. q.mem = req[r].mem /\ q.pc = "reload"
  BY <1>1 DEF Request
<1> HIDE DEF q
<1>4. ExactRequest(req[r], disk, entry, undone) /\ undone \subseteq DOMAIN entry
      /\ \A k \in DOMAIN entry : k \in done \/ Awaited(req[r], k)
  BY <1>1, RecordedIsDone
<1>5. ExactRequest(q, disk', entry', undone')
  BY <1>1, <1>2, <1>3, <1>4 DEF ExactRequest, Reading
<1>6. \A k \in DOMAIN entry' : k \in done'
  BY <1>2, <1>4 DEF Awaited
<1> QED
  BY <1>1, <1>2, <1>3, <1>4, <1>5, <1>6, ExactStep

\* An injection is put back; its entry is not marked yet.
LEMMA RestoredExact ==
    ASSUME Typed, Exact, serial, NEW r \in Requests, Goto(r, "mark"), Restored(Undoing(r)),
           req[r].pc \in {"undo", "unload", "rewrite"}, req[r].undo # {},
           UNCHANGED <<disk, entry, done>>
    PROVE  Exact'
<1> DEFINE q == [req[r] EXCEPT !.pc = "mark"]
<1>1. q.mem = req[r].mem /\ q.pc = "mark" /\ q.undo = req[r].undo
  BY RequestFields DEF Typed, Request
<1>2. Become(r, q)
  BY DEF Goto
<1> HIDE DEF q
<1>3. undone' = undone \cup {Least(q.undo)} /\ Least(q.undo) = Undoing(r)
  BY <1>1 DEF Restored, Undoing, Least
<1>4. Least(q.undo) \in DOMAIN entry
  BY <1>3, UndoingListed DEF Typed, InPlace
<1>5. undone \subseteq DOMAIN entry /\ Agrees(req[r].mem, entry, undone) /\ \A k \in DOMAIN entry : k \in done
  BY RecordedIsDone DEF ExactRequest, Reading, Awaited
<1>6. ExactRequest(q, disk', entry', undone')
  BY <1>1, <1>3, <1>5 DEF ExactRequest, Agrees, Status, Unread, Reading, Saving
<1> QED
  BY <1>1, <1>2, <1>3, <1>4, <1>5, <1>6, ExactStep

LEMMA UndoExact ==
    ASSUME Typed, Exact, serial, NEW r \in Requests,
           UndoRuntime(r) \/ UndoReload(r) \/ RewriteConfig(r)
    PROVE  Exact'
<1>1. req[r].pc \in {"undo", "unload", "rewrite"} /\ UNCHANGED <<disk, entry, done>>
  BY DEF UndoRuntime, UndoReload, RewriteConfig, AtUndo, At, book
<1>2. req[r].undo # {}
  BY DEF UndoRuntime, UndoReload, RewriteConfig, AtUndo, At, Typed, InPlace, AtEntry
<1>3. CASE Goto(r, "mark") /\ Restored(Undoing(r))
  BY <1>1, <1>2, <1>3, RestoredExact
<1>4. CASE Leave(r) /\ UNCHANGED undone
  <2> DEFINE q == [req[r] EXCEPT !.undo = @ \ {Undoing(r)}, !.pc = "undo"]
  <2>1. q.mem = req[r].mem /\ q.pc = "undo"
    BY RequestFields DEF Typed, Request
  <2>2. Become(r, q)
    BY <1>4 DEF Leave
  <2> HIDE DEF q
  <2> QED
    BY <1>1, <1>4, <2>1, <2>2, ReadingStep DEF Reading
<1> QED
  BY <1>3, <1>4 DEF UndoRuntime, UndoReload, RewriteConfig

LEMMA MarkExact ==
    ASSUME Typed, Exact, serial, NEW r \in Requests, Mark(r)
    PROVE  Exact'
<1> DEFINE i == Undoing(r)
           q == [req[r] EXCEPT !.mem[i] = "rolled_back", !.pc = "saved"]
<1>1. UNCHANGED <<entry, done, undone>> /\ Become(r, q) /\ req[r].pc = "mark"
  BY DEF Mark, At, book, history
<1>2. q.mem = [req[r].mem EXCEPT ![i] = "rolled_back"] /\ q.pc = "saved"
  BY RequestFields DEF Request, Typed
<1>3. i = Least(req[r].undo) /\ req[r].mem \in Ledger
  BY RequestFields DEF Undoing, Least, Typed
<1> HIDE DEF q, i
<1>4. /\ i \in undone /\ \A k \in Ids : k # i => req[r].mem[k] = Status(k, entry, undone)
      /\ undone \subseteq DOMAIN entry /\ \A k \in DOMAIN entry : k \in done
  BY <1>1, <1>3, RecordedIsDone DEF ExactRequest, Awaited
<1>5. Agrees(q.mem, entry, undone)
  BY <1>2, <1>3, <1>4 DEF Agrees, Status, Ledger
<1>6. ExactRequest(q, disk', entry', undone')
  BY <1>1, <1>2, <1>5 DEF ExactRequest, Unread, Reading
<1> QED
  BY <1>1, <1>2, <1>4, <1>6, ExactStep

LEMMA SaveMarkExact ==
    ASSUME Typed, Exact, serial, NEW r \in Requests, SaveMark(r)
    PROVE  Exact'
<1> DEFINE q == [req[r] EXCEPT !.undo = @ \ {Undoing(r)}, !.pc = "undo"]
<1>1. UNCHANGED <<entry, done, undone>> /\ disk' = req[r].mem /\ Become(r, q) /\ req[r].pc = "saved"
  BY DEF SaveMark, Leave, At, book, history
<1>2. q.mem = req[r].mem /\ q.pc = "undo"
  BY RequestFields DEF Request, Typed
<1> HIDE DEF q
<1>3. /\ Agrees(req[r].mem, entry, undone) /\ undone \subseteq DOMAIN entry
      /\ \A k \in DOMAIN entry : k \in done
  BY <1>1, RecordedIsDone DEF ExactRequest, Saving, Awaited
<1>4. Kept(disk', entry', undone')
  BY <1>1, <1>3, WrittenBack
<1>5. ExactRequest(q, disk', entry', undone')
  BY <1>1, <1>2, <1>3, <1>4 DEF ExactRequest
<1> QED
  BY <1>1, <1>2, <1>3, <1>5, ExactStep

\* A request begins: while it is the only one, the file is exact and so is the
\* copy it takes.
LEMMA BeginExact ==
    ASSUME Typed, Exact, NEW r \in Requests, NEW e, Begin(r, e), NEW q, Become(r, q),
           q.pc \in Unread \/ (q.pc = "undo" /\ q.mem = Load(disk))
    PROVE  Exact'
<1> SUFFICES ASSUME serial' PROVE Exact'
  BY DEF Exact
<1>1. UNCHANGED <<disk, entry, done, undone>> /\ serial /\ AllIdle
  BY DEF Begin, files
<1>2. \A x \in Requests : req[x].pc = "idle" /\ req'[x] = IF x = r THEN q ELSE req[x]
  BY <1>1 DEF AllIdle, Become, Typed, TypeOK
<1>3. Kept(disk, entry, undone) /\ undone \subseteq DOMAIN entry
      /\ \A i \in DOMAIN entry : i \in done
  BY <1>1, <1>2 DEF Exact, Awaited
<1>4. ExactRequest(q, disk, entry, undone)
  BY <1>3 DEF ExactRequest, Kept, Load, Unread, Reading, Saving
<1>5. \A x \in Requests : ExactRequest(req'[x], disk, entry, undone)
  BY <1>2, <1>4 DEF ExactRequest, Unread, Reading, Saving
<1> QED
  BY <1>1, <1>2, <1>3, <1>5 DEF Exact

LEMMA StartsExact ==
    ASSUME Typed, Exact
    PROVE  /\ \A r \in Threads, c \in Cycles, b \in Batches \cup {<<>>} :
                StartCycle(r, c, b) => Exact'
           /\ \A r \in Threads, c \in Cycles : StartInject(r, c) => Exact'
           /\ \A e, ids : StartUndo(e, ids) => Exact'
<1>1. ASSUME NEW r \in Threads, NEW c \in Cycles, NEW b \in Batches \cup {<<>>},
             StartCycle(r, c, b)
      PROVE  Exact'
  <2> DEFINE q == [Idle EXCEPT !.op = "cycle", !.cycle = c, !.batch = b,
                       !.pc = IF b = <<>> THEN "persist" ELSE "validate"]
  <2>1. q.pc \in Unread
    BY DEF Idle, Unread
  <2>2. Begin(r, "cycle") /\ Become(r, q)
    BY <1>1 DEF StartCycle
  <2> HIDE DEF q
  <2> QED
    BY <2>1, <2>2, BeginExact DEF Requests
<1>2. ASSUME NEW r \in Threads, NEW c \in Cycles, StartInject(r, c)
      PROVE  Exact'
  <2> DEFINE q == [Idle EXCEPT !.op = "inject", !.cycle = c,
                       !.batch = cycle[c].proposals, !.pc = "open"]
  <2>1. q.pc \in Unread
    BY DEF Idle, Unread
  <2>2. Begin(r, "inject") /\ Become(r, q)
    BY <1>2 DEF StartInject
  <2> HIDE DEF q
  <2> QED
    BY <2>1, <2>2, BeginExact DEF Requests
<1>3. ASSUME NEW e, NEW ids, StartUndo(e, ids)
      PROVE  Exact'
  <2> DEFINE q == [Idle EXCEPT !.op = e, !.undo = ids, !.mem = Load(disk), !.pc = "undo"]
  <2>1. q.pc = "undo" /\ q.mem = Load(disk)
    BY DEF Idle
  <2>2. Begin(EventLoop, e) /\ Become(EventLoop, q)
    BY <1>3 DEF StartUndo
  <2> HIDE DEF q
  <2> QED
    BY <2>1, <2>2, BeginExact DEF Requests
<1> QED
  BY <1>1, <1>2, <1>3

LEMMA CrashExact == ASSUME Typed, Exact, Crash PROVE Exact'
<1> SUFFICES ASSUME serial' PROVE Exact'
  BY DEF Exact
<1>1. UNCHANGED <<disk, entry, done, undone>> /\ serial /\ AllIdle
  BY DEF Crash, book
<1>2. \A x \in Requests : req[x].pc = "idle" /\ req'[x].pc = "idle"
  BY <1>1 DEF AllIdle, Crash, Idle
<1>3. Kept(disk, entry, undone) /\ undone \subseteq DOMAIN entry
      /\ \A i \in DOMAIN entry : i \in done
  BY <1>1, <1>2 DEF Exact, Awaited
<1> QED
  BY <1>1, <1>2, <1>3 DEF Exact, ExactRequest, Unread, Reading, Saving

LEMMA InitExact == Init => Exact
<1> SUFFICES ASSUME Init PROVE Exact
  OBVIOUS
<1>1. \A r \in Requests : req[r].pc = "idle"
  BY DEF Init, Idle
<1>2. NoEntries \in Ledger /\ disk = NoEntries /\ DOMAIN entry = {} /\ undone = {}
  BY DEF Init, NoEntries, Ledger
<1>3. Kept(disk, entry, undone)
  BY <1>2, TornAssumption DEF Kept, Agrees, Status, NoEntries
<1> QED
  BY <1>1, <1>2, <1>3 DEF Exact, ExactRequest, Unread, Reading, Saving

LEMMA NextExact == Typed /\ Exact /\ [Next]_vars => Exact'
<1> SUFFICES ASSUME Typed, Exact, [Next]_vars PROVE Exact'
  OBVIOUS
<1>1. CASE UNCHANGED vars
  BY <1>1 DEF vars, files, book, history, Exact, AllIdle
<1>2. ASSUME NEW r \in Requests, Step(r) PROVE Exact'
  <2> SUFFICES ASSUME serial' PROVE Exact'
    BY DEF Exact
  <2>1. serial
    BY <1>2 DEF Step, Override, Restore, Benchmark, Recommend, Open, Skip, ReadOriginal, SetRuntime, TruncateConfig,
       WriteConfig, Record, Save, PatchSource, Reload, EndBatch, SmokeTest, UndoRuntime, UndoSource,
       UndoReload, UndoConfig, RewriteConfig, Mark, SaveMark, EndUndo, TruncateRecord, Persist, history
  <2> QED
    BY <1>2, <2>1, Readers, RecordExact, SaveExact, PatchSourceExact, UndoExact, MarkExact,
       SaveMarkExact DEF Step
<1>3. CASE \E i \in Ids : StartRollback(i)
  BY <1>3, StartsExact DEF StartRollback
<1>4. CASE \E c \in Cycles : StartRollbackCycle(c)
  BY <1>4, StartsExact DEF StartRollbackCycle
<1> QED
  BY <1>1, <1>2, <1>3, <1>4, StartsExact, CrashExact DEF Next

\* As long as requests came one at a time and none was cut short, the ledger
\* file is exact whenever no request is served: it has every injection that was
\* made, and of each whether it is in force.
THEOREM LedgerExactAlways == Spec => []LedgerExact
<1>1. Init => Exact
  BY InitExact
<1>2. Typed /\ Exact /\ [Next]_vars => Exact'
  BY NextExact
<1>3. Typed /\ Exact => LedgerExact
  <2> SUFFICES ASSUME Typed, Exact, serial, AllIdle
               PROVE  /\ disk # Torn
                      /\ \A i \in DOMAIN entry :
                           /\ i \in done
                           /\ disk[i] = IF i \in undone THEN "rolled_back" ELSE "applied"
    BY DEF LedgerExact
  <2>1. \A r \in Requests, i \in DOMAIN entry : ~Awaited(req[r], i)
    BY DEF AllIdle, Awaited
  <2>2. DOMAIN entry \subseteq Ids
    BY EntryFacts DEF Typed
  <2> QED
    BY <2>1, <2>2 DEF Exact, Kept, Agrees, Status
<1> QED
  BY <1>1, <1>2, <1>3, TypedAlways, PTL DEF Spec
------------------------------------------------------------------------------
\* As long as requests came one at a time, none was cut short and each rollback
\* took the newest injection of its target, nothing in force means as shipped.

\* The injections in force of a kind, and on a target; the eldest of a set.
OfKind(kind, es, f) == {i \in f : es[i].kind = kind}
OnTarget(kind, t, es, f) == {i \in OfKind(kind, es, f) : es[i].target = t}
Eldest(i, s) == i \in s /\ \A j \in s : i <= j

\* What the module, its source and the config may be when the injections of f are
\* in force, and what the eldest of them will put back.  A patch in force may
\* set any variable, and has reset those injected before it.
ModuleRight(m, es, f) ==
    \A t \in Targets :
        /\ OfKind("source_patch", es, f) = {} /\ OnTarget("runtime", t, es, f) = {} =>
              m[t] = Initial[t]
        /\ \A i \in f : /\ Eldest(i, OnTarget("runtime", t, es, f))
                        /\ \A j \in OfKind("source_patch", es, f) : i < j
                        => es[i].old = Initial[t]

SourceRight(m, es, f) ==
    /\ OfKind("source_patch", es, f) = {} => m = Initial
    /\ \A i \in f : Eldest(i, OfKind("source_patch", es, f)) => es[i].backup = Initial

ConfigRight(m, es, f) ==
    \A t \in Targets :
        /\ OnTarget("config", t, es, f) = {} => m[t] = Absent
        /\ \A i \in f : Eldest(i, OnTarget("config", t, es, f)) => es[i].old = Absent

AllRight(lv, src, cf, es, f) ==
    ModuleRight(lv, es, f) /\ SourceRight(src, es, f) /\ ConfigRight(cf, es, f)

Settled(lv, src, cf, es, d, u, l) == cf # Torn /\ (l => AllRight(lv, src, cf, es, d \ u))

\* The proposal of a request.
Of(q) == q.batch[q.pos]

\* The module and the config as the injections that are done left them, when a
\* request has changed them and not recorded it.
Unheld(q, lv) == [t \in Targets |-> IF t \in q.held THEN q.img[t] ELSE lv[t]]
ModuleNow(q, lv) ==
    IF q.pc \in {"validate", "restore"} THEN Unheld(q, lv)
    ELSE IF q.pc = "record" /\ Of(q).kind = "runtime" THEN q.img ELSE lv
ConfigNow(q, cf) ==
    IF q.pc \in {"write", "rewrite"} \/ (q.pc = "record" /\ Of(q).kind = "config")
      THEN q.img ELSE cf

\* What a request has done so far towards its next injection.
InjectionInHand(q, lv, src, cf, es, d, u) ==
    /\ q.pc = "setattr" => Of(q).kind = "runtime" /\ q.img = lv
    /\ q.pc = "truncate" => Of(q).kind = "config" /\ q.img = cf
    /\ q.pc = "write" => Of(q).kind = "config"
    /\ q.pc = "record" /\ Of(q).kind = "runtime" =>
          lv = [q.img EXCEPT ![Of(q).target] = Of(q).value]
    /\ q.pc = "record" /\ Of(q).kind = "config" =>
          cf = [q.img EXCEPT ![Of(q).target] = Of(q).value]
    /\ q.pc = "patch" \/ (q.pc = "save" /\ Of(q).kind = "source_patch") =>
          /\ q.id \notin d \cup u /\ (\A i \in d : i < q.id)
          /\ es[q.id].kind = "source_patch" /\ es[q.id].backup = src
    /\ q.pc = "reload" => OfKind("source_patch", es, d \ u) # {}

\* What a request still has to put back.
Undos == {"undo", "unload", "rewrite", "mark", "saved"}

RollbackInHand(q, src, es, d, u, st) ==
    /\ q.pc \in Undos => \A i \in q.undo :
          i \in u => q.pc \in {"mark", "saved"} /\ i = Least(q.undo)
    /\ q.pc \in {"mark", "saved"} => Least(q.undo) \in u
    /\ q.pc \in Undos /\ q.op = "cycle" => \A i \in d \ u :
          es[i].cycle = q.cycle => i \in q.undo \cup st
    /\ q.pc = "unload" =>
          es[Least(q.undo)].kind = "source_patch" /\ src = es[Least(q.undo)].backup
    /\ q.pc = "rewrite" => es[Least(q.undo)].kind = "config"

InHand(q, lv, src, cf, es, d, u, l, st) ==
    /\ InjectionInHand(q, lv, src, cf, es, d, u)
    /\ RollbackInHand(q, src, es, d, u, st)
    /\ q.pc \notin {"write", "rewrite"} => cf # Torn
    /\ l => AllRight(ModuleNow(q, lv), src, ConfigNow(q, cf), es, d \ u)

Shipped ==
    serial =>
        /\ done \subseteq DOMAIN entry
        /\ AllIdle => Settled(live, source, config, entry, done, undone, lifo)
        /\ \A r \in Requests : req[r].pc # "idle" =>
              InHand(req[r], live, source, config, entry, done, undone, lifo, stuck)
------------------------------------------------------------------------------
(* What injecting and rolling back do to the module, source and config.    *)

\* The entries of es stand in es2 too, and n is newer than all of f.
Continued(n, f, es, es2) == \A i \in f : i < n /\ es2[i] = es[i]

\* No injection of f is newer than k and shares what k puts back.
Newest(k, f, es) ==
    \A j \in f : j > k =>
        /\ es[j].kind = es[k].kind => es[j].target # es[k].target
        /\ "source_patch" \in {es[j].kind, es[k].kind} => "config" \in {es[j].kind, es[k].kind}

LEMMA ModuleInjected ==
    ASSUME NEW es, NEW es2, NEW f \in SUBSET Nat, NEW n \in Nat, Continued(n, f, es, es2),
           NEW m \in Image, ModuleRight(m, es, f), es2[n].kind = "runtime",
           es2[n].old = m[es2[n].target], NEW v
    PROVE  ModuleRight([m EXCEPT ![es2[n].target] = v], es2, f \cup {n})
<1> DEFINE x == es2[n].target
           m2 == [m EXCEPT ![x] = v]
           g == f \cup {n}
           P == OfKind("source_patch", es, f)
<1>1. OfKind("source_patch", es2, g) = P
  BY DEF Continued, OfKind, OnTarget
<1>2. \A t : t # x => OnTarget("runtime", t, es2, g) = OnTarget("runtime", t, es, f)
  BY DEF Continued, OfKind, OnTarget
<1>3. OnTarget("runtime", x, es2, g) = OnTarget("runtime", x, es, f) \cup {n}
  BY DEF Continued, OfKind, OnTarget
<1>4. SUFFICES ASSUME NEW t \in Targets
               PROVE  /\ P = {} /\ OnTarget("runtime", t, es2, g) = {} => m2[t] = Initial[t]
                      /\ \A i \in g : /\ Eldest(i, OnTarget("runtime", t, es2, g))
                                      /\ \A j \in P : i < j
                                      => es2[i].old = Initial[t]
  BY <1>1 DEF ModuleRight
<1>5. P \subseteq f /\ OnTarget("runtime", t, es, f) \subseteq f
  BY DEF OfKind, OnTarget
<1>6. CASE t # x
  <2>1. m2[t] = m[t]
    BY <1>6 DEF Image
  <2>2. ASSUME NEW i \in g, Eldest(i, OnTarget("runtime", t, es2, g)), \A j \in P : i < j
        PROVE  es2[i].old = Initial[t]
    <3>1. Eldest(i, OnTarget("runtime", t, es, f)) /\ i \in f
      BY <1>2, <1>5, <1>6, <2>2 DEF Eldest
    <3>2. es[i].old = Initial[t]
      BY <2>2, <3>1 DEF ModuleRight
    <3> QED
      BY <3>1, <3>2 DEF Continued
  <2> QED
    BY <1>2, <1>6, <2>1, <2>2 DEF ModuleRight
<1>7. CASE t = x
  <2>1. OnTarget("runtime", t, es2, g) # {}
    BY <1>3, <1>7
  <2>2. ASSUME NEW i \in g, Eldest(i, OnTarget("runtime", t, es2, g)), \A j \in P : i < j
        PROVE  es2[i].old = Initial[t]
    <3>1. CASE i = n
      <4>1. \A j \in f : j < n /\ ~(n < j) /\ ~(n <= j)
        BY DEF Continued
      <4>2. P = {} /\ OnTarget("runtime", t, es, f) = {}
        BY <1>3, <1>5, <1>7, <2>2, <3>1, <4>1 DEF Eldest
      <4> QED
        BY <1>7, <3>1, <4>2 DEF ModuleRight
    <3>2. CASE i # n
      <4>1. Eldest(i, OnTarget("runtime", t, es, f)) /\ i \in f
        BY <1>3, <1>5, <1>7, <2>2, <3>2 DEF Eldest
      <4>2. es[i].old = Initial[t]
        BY <2>2, <4>1 DEF ModuleRight
      <4> QED
        BY <4>1, <4>2 DEF Continued
    <3> QED
      BY <3>1, <3>2
  <2> QED
    BY <2>1, <2>2
<1> QED
  BY <1>6, <1>7

\* An entry that is not in force changes nothing, nor does one of another kind.
LEMMA ModuleKept ==
    ASSUME NEW es, NEW es2, NEW f \in SUBSET Nat, NEW n \in Nat, Continued(n, f, es, es2),
           NEW m, ModuleRight(m, es, f), NEW g,
           g = f \/ (g = f \cup {n} /\ es2[n].kind = "config")
    PROVE  ModuleRight(m, es2, g)
<1>1. /\ OfKind("source_patch", es2, g) = OfKind("source_patch", es, f)
      /\ \A t : OnTarget("runtime", t, es2, g) = OnTarget("runtime", t, es, f)
  BY DEF Continued, OfKind, OnTarget
<1>2. \A t : OnTarget("runtime", t, es, f) \subseteq f
  BY DEF OfKind, OnTarget
<1>3. f \subseteq g /\ \A i \in f : es2[i] = es[i]
  BY DEF Continued
<1>4. \A t, i : Eldest(i, OnTarget("runtime", t, es2, g)) =>
         i \in f /\ es2[i] = es[i] /\ Eldest(i, OnTarget("runtime", t, es, f))
  BY <1>1, <1>2, <1>3 DEF Eldest
<1> QED
  BY <1>1, <1>4 DEF ModuleRight

LEMMA SourceKept ==
    ASSUME NEW es, NEW es2, NEW f \in SUBSET Nat, NEW n \in Nat, Continued(n, f, es, es2),
           NEW m, SourceRight(m, es, f), NEW g,
           g = f \/ (g = f \cup {n} /\ es2[n].kind # "source_patch")
    PROVE  SourceRight(m, es2, g)
<1>1. OfKind("source_patch", es2, g) = OfKind("source_patch", es, f)
  BY DEF Continued, OfKind, OnTarget
<1>2. OfKind("source_patch", es, f) \subseteq f
  BY DEF OfKind
<1>3. \A i : Eldest(i, OfKind("source_patch", es2, g)) =>
         i \in f /\ es2[i] = es[i] /\ Eldest(i, OfKind("source_patch", es, f))
  BY <1>1, <1>2 DEF Eldest, Continued
<1> QED
  BY <1>1, <1>3 DEF SourceRight

LEMMA ConfigKept ==
    ASSUME NEW es, NEW es2, NEW f \in SUBSET Nat, NEW n \in Nat, Continued(n, f, es, es2),
           NEW m, ConfigRight(m, es, f), NEW g,
           g = f \/ (g = f \cup {n} /\ es2[n].kind # "config")
    PROVE  ConfigRight(m, es2, g)
<1>1. \A t : OnTarget("config", t, es2, g) = OnTarget("config", t, es, f)
  BY DEF Continued, OfKind, OnTarget
<1>2. \A t : OnTarget("config", t, es, f) \subseteq f
  BY DEF OfKind, OnTarget
<1>3. \A t, i : Eldest(i, OnTarget("config", t, es2, g)) =>
         i \in f /\ es2[i] = es[i] /\ Eldest(i, OnTarget("config", t, es, f))
  BY <1>1, <1>2 DEF Eldest, Continued
<1> QED
  BY <1>1, <1>3 DEF ConfigRight

LEMMA ConfigInjected ==
    ASSUME NEW es, NEW es2, NEW f \in SUBSET Nat, NEW n \in Nat, Continued(n, f, es, es2),
           NEW m \in Image, ConfigRight(m, es, f), es2[n].kind = "config",
           es2[n].old = m[es2[n].target], NEW v
    PROVE  ConfigRight([m EXCEPT ![es2[n].target] = v], es2, f \cup {n})
<1> DEFINE x == es2[n].target
           m2 == [m EXCEPT ![x] = v]
           g == f \cup {n}
<1>1. \A t : t # x => OnTarget("config", t, es2, g) = OnTarget("config", t, es, f)
  BY DEF Continued, OfKind, OnTarget
<1>2. OnTarget("config", x, es2, g) = OnTarget("config", x, es, f) \cup {n}
  BY DEF Continued, OfKind, OnTarget
<1>3. SUFFICES ASSUME NEW t \in Targets
               PROVE  /\ OnTarget("config", t, es2, g) = {} => m2[t] = Absent
                      /\ \A i \in g : Eldest(i, OnTarget("config", t, es2, g)) =>
                             es2[i].old = Absent
  BY DEF ConfigRight
<1>4. OnTarget("config", t, es, f) \subseteq f
  BY DEF OfKind, OnTarget
<1>5. CASE t # x
  <2>1. m2[t] = m[t]
    BY <1>5 DEF Image
  <2>2. \A i : Eldest(i, OnTarget("config", t, es2, g)) =>
           i \in f /\ es2[i] = es[i] /\ Eldest(i, OnTarget("config", t, es, f))
    BY <1>1, <1>4, <1>5 DEF Eldest, Continued
  <2> QED
    BY <1>1, <1>5, <2>1, <2>2 DEF ConfigRight
<1>6. CASE t = x
  <2>1. ASSUME NEW i \in g, Eldest(i, OnTarget("config", t, es2, g))
        PROVE  es2[i].old = Absent
    <3>1. CASE i = n
      <4>1. \A j \in f : j < n /\ ~(n <= j)
        BY DEF Continued
      <4>2. OnTarget("config", t, es, f) = {}
        BY <1>2, <1>4, <1>6, <2>1, <3>1, <4>1 DEF Eldest
      <4> QED
        BY <1>6, <3>1, <4>2 DEF ConfigRight
    <3>2. CASE i # n
      <4>1. Eldest(i, OnTarget("config", t, es, f)) /\ i \in f
        BY <1>2, <1>4, <1>6, <2>1, <3>2 DEF Eldest
      <4> QED
        BY <4>1 DEF ConfigRight, Continued
    <3> QED
      BY <3>1, <3>2
  <2> QED
    BY <1>2, <1>6, <2>1
<1> QED
  BY <1>5, <1>6

\* While a patch is in force, the module and the source may be anything.
LEMMA AnythingUnderPatch ==
    ASSUME NEW es, NEW f, NEW m, NEW m2, OfKind("source_patch", es, f) # {}
    PROVE  /\ ModuleRight(m, es, f) => ModuleRight(m2, es, f)
           /\ SourceRight(m, es, f) => SourceRight(m2, es, f)
  BY DEF ModuleRight, SourceRight

LEMMA PatchInjected ==
    ASSUME NEW es, NEW f \in SUBSET Nat, NEW n \in Nat, Continued(n, f, es, es),
           NEW m, NEW src, NEW src2, ModuleRight(m, es, f), SourceRight(src, es, f),
           es[n].kind = "source_patch", es[n].backup = src
    PROVE  /\ ModuleRight(m, es, f \cup {n}) /\ SourceRight(src2, es, f \cup {n})
           /\ OfKind("source_patch", es, f \cup {n}) # {}
<1> DEFINE g == f \cup {n}
           P == OfKind("source_patch", es, f)
<1>1. OfKind("source_patch", es, g) = P \cup {n}
  BY DEF OfKind
<1>2. \A t : OnTarget("runtime", t, es, g) = OnTarget("runtime", t, es, f)
  BY DEF OfKind, OnTarget
<1>3. P \subseteq f /\ \A t : OnTarget("runtime", t, es, f) \subseteq f
  BY DEF OfKind, OnTarget
<1>4. ModuleRight(m, es, g)
  <2>1. ASSUME NEW t \in Targets, NEW i \in g, Eldest(i, OnTarget("runtime", t, es, g)),
               \A j \in OfKind("source_patch", es, g) : i < j
        PROVE  es[i].old = Initial[t]
    <3>1. i \in f /\ Eldest(i, OnTarget("runtime", t, es, f)) /\ \A j \in P : i < j
      BY <1>1, <1>2, <1>3, <2>1 DEF Eldest
    <3> QED
      BY <3>1 DEF ModuleRight
  <2> QED
    BY <1>1, <2>1 DEF ModuleRight
<1>5. SourceRight(src2, es, g)
  <2>1. ASSUME NEW i \in g, Eldest(i, OfKind("source_patch", es, g))
        PROVE  es[i].backup = Initial
    <3>1. CASE i = n
      <4>1. \A j \in f : ~(n <= j)
        BY DEF Continued
      <4>2. P = {}
        BY <1>1, <1>3, <2>1, <3>1, <4>1 DEF Eldest
      <4> QED
        BY <3>1, <4>2 DEF SourceRight
    <3>2. CASE i # n
      <4>1. i \in f /\ Eldest(i, P)
        BY <1>1, <1>3, <2>1, <3>2 DEF Eldest
      <4> QED
        BY <4>1 DEF SourceRight
    <3> QED
      BY <3>1, <3>2
  <2> QED
    BY <1>1, <2>1 DEF SourceRight
<1> QED
  BY <1>1, <1>4, <1>5

\* The sets that matter when an injection is put back.
LEMMA KindsUndone ==
    ASSUME NEW es, NEW f, NEW k, NEW kind, es[k].kind # kind
    PROVE  /\ OfKind(kind, es, f \ {k}) = OfKind(kind, es, f)
           /\ \A t : OnTarget(kind, t, es, f \ {k}) = OnTarget(kind, t, es, f)
  BY DEF OfKind, OnTarget

\* What is older than k and the eldest without it is the eldest with it.
LEMMA EldestUndone ==
    ASSUME NEW f \in SUBSET Nat, NEW k \in f, NEW s \in SUBSET f, NEW i, Eldest(i, s \ {k}),
           i < k
    PROVE  Eldest(i, s)
  BY DEF Eldest

LEMMA RuntimeUndone ==
    ASSUME NEW es, NEW f \in SUBSET Nat, NEW k \in f, Newest(k, f, es), NEW m \in Image,
           ModuleRight(m, es, f), es[k].kind = "runtime", es[k].target \in Targets
    PROVE  ModuleRight([m EXCEPT ![es[k].target] = es[k].old], es, f \ {k})
<1> DEFINE x == es[k].target
           m2 == [m EXCEPT ![x] = es[k].old]
           g == f \ {k}
           P == OfKind("source_patch", es, f)
<1>1. OfKind("source_patch", es, g) = P
  BY KindsUndone
<1>2. \A j \in P : j \in f /\ j < k
  <2> SUFFICES ASSUME NEW j \in P PROVE j \in f /\ j < k
    OBVIOUS
  <2>1. j \in f /\ ~(j > k) /\ j # k
    BY DEF OfKind, Newest
  <2>2. j \in Nat /\ k \in Nat
    BY <2>1
  <2> QED
    BY <2>1, <2>2
<1>3. SUFFICES ASSUME NEW t \in Targets
               PROVE  /\ P = {} /\ OnTarget("runtime", t, es, g) = {} => m2[t] = Initial[t]
                      /\ \A i \in g : /\ Eldest(i, OnTarget("runtime", t, es, g))
                                      /\ \A j \in P : i < j
                                      => es[i].old = Initial[t]
  BY <1>1 DEF ModuleRight
<1>4. CASE t # x
  <2>1. m2[t] = m[t] /\ OnTarget("runtime", t, es, g) = OnTarget("runtime", t, es, f)
    BY <1>4 DEF Image, OnTarget, OfKind
  <2> QED
    BY <2>1 DEF ModuleRight
<1>5. CASE t = x
  <2> DEFINE s == OnTarget("runtime", t, es, f)
  <2>1. s \in SUBSET f /\ OnTarget("runtime", t, es, g) = s \ {k} /\ k \in s
    BY <1>5 DEF OnTarget, OfKind
  <2>2. \A j \in s : j = k \/ j < k
    <3> SUFFICES ASSUME NEW j \in s PROVE j = k \/ j < k
      OBVIOUS
    <3>1. j \in f /\ ~(j > k)
      BY <1>5 DEF OnTarget, OfKind, Newest
    <3>2. j \in Nat /\ k \in Nat
      BY <3>1
    <3> QED
      BY <3>1, <3>2
  <2>3. P = {} /\ s \ {k} = {} => es[k].old = Initial[t]
    <3>1. s \ {k} = {} => Eldest(k, s)
      BY <2>1 DEF Eldest
    <3> QED
      BY <3>1 DEF ModuleRight
  <2>4. ASSUME NEW i \in g, Eldest(i, s \ {k}), \A j \in P : i < j
        PROVE  es[i].old = Initial[t]
    <3>1. i < k
      BY <2>2, <2>4 DEF Eldest
    <3> HIDE DEF s
    <3>2. Eldest(i, s)
      BY <2>1, <2>4, <3>1, EldestUndone
    <3> USE DEF s
    <3> QED
      BY <2>4, <3>2 DEF ModuleRight
  <2>5. m2[t] = es[k].old
    BY <1>5 DEF Image
  <2> QED
    BY <2>1, <2>3, <2>4, <2>5
<1> QED
  BY <1>4, <1>5

LEMMA ConfigUndone ==
    ASSUME NEW es, NEW f \in SUBSET Nat, NEW k \in f, Newest(k, f, es), NEW m \in Image,
           ConfigRight(m, es, f), es[k].kind = "config", es[k].target \in Targets
    PROVE  ConfigRight([m EXCEPT ![es[k].target] = es[k].old], es, f \ {k})
<1> DEFINE x == es[k].target
           m2 == [m EXCEPT ![x] = es[k].old]
           g == f \ {k}
<1>1. SUFFICES ASSUME NEW t \in Targets
               PROVE  /\ OnTarget("config", t, es, g) = {} => m2[t] = Absent
                      /\ \A i \in g : Eldest(i, OnTarget("config", t, es, g)) =>
                             es[i].old = Absent
  BY DEF ConfigRight
<1>2. CASE t # x
  <2>1. m2[t] = m[t] /\ OnTarget("config", t, es, g) = OnTarget("config", t, es, f)
    BY <1>2 DEF Image, OnTarget, OfKind
  <2> QED
    BY <2>1 DEF ConfigRight
<1>3. CASE t = x
  <2> DEFINE s == OnTarget("config", t, es, f)
  <2>1. s \in SUBSET f /\ OnTarget("config", t, es, g) = s \ {k} /\ k \in s
    BY <1>3 DEF OnTarget, OfKind
  <2>2. \A j \in s : j = k \/ j < k
    <3> SUFFICES ASSUME NEW j \in s PROVE j = k \/ j < k
      OBVIOUS
    <3>1. j \in f /\ ~(j > k)
      BY <1>3 DEF OnTarget, OfKind, Newest
    <3>2. j \in Nat /\ k \in Nat
      BY <3>1
    <3> QED
      BY <3>1, <3>2
  <2>3. s \ {k} = {} => es[k].old = Absent
    <3>1. s \ {k} = {} => Eldest(k, s)
      BY <2>1 DEF Eldest
    <3> QED
      BY <3>1 DEF ConfigRight
  <2>4. ASSUME NEW i \in g, Eldest(i, s \ {k})
        PROVE  es[i].old = Absent
    <3>1. i < k
      BY <2>2, <2>4 DEF Eldest
    <3> HIDE DEF s
    <3>2. Eldest(i, s)
      BY <2>1, <2>4, <3>1, EldestUndone
    <3> USE DEF s
    <3> QED
      BY <3>2 DEF ConfigRight
  <2>5. m2[t] = es[k].old
    BY <1>3 DEF Image
  <2> QED
    BY <2>1, <2>3, <2>4, <2>5
<1> QED
  BY <1>2, <1>3

\* The module is imported from its source.
LEMMA Imported ==
    ASSUME NEW es, NEW f, NEW m, NEW src, ModuleRight(m, es, f), SourceRight(src, es, f)
    PROVE  ModuleRight(src, es, f)
  BY DEF ModuleRight, SourceRight

LEMMA PatchUndone ==
    ASSUME NEW es, NEW f \in SUBSET Nat, NEW k \in f, Newest(k, f, es), NEW m,
           ModuleRight(m, es, f), SourceRight(es[k].backup, es, f),
           es[k].kind = "source_patch", es[k].target \in Targets,
           \A i \in f : es[i].kind \in Kinds
    PROVE  /\ ModuleRight(es[k].backup, es, f \ {k})
           /\ SourceRight(es[k].backup, es, f \ {k})
<1> DEFINE g == f \ {k}
           P == OfKind("source_patch", es, f)
<1>1. P \in SUBSET f /\ OfKind("source_patch", es, g) = P \ {k} /\ k \in P
  BY DEF OfKind
<1>2. \A t : OnTarget("runtime", t, es, g) = OnTarget("runtime", t, es, f)
             /\ OnTarget("runtime", t, es, f) \subseteq f
  BY DEF OfKind, OnTarget
<1>3. \A j \in f : es[j].kind # "config" => j = k \/ j < k
  <2> SUFFICES ASSUME NEW j \in f, es[j].kind # "config" PROVE j = k \/ j < k
    OBVIOUS
  <2>1. ~(j > k)
    BY DEF Newest
  <2> QED
    BY <2>1
<1>4. SourceRight(es[k].backup, es, g)
  <2>1. P \ {k} = {} => es[k].backup = Initial
    <3>1. P \ {k} = {} => Eldest(k, P)
      BY <1>1 DEF Eldest
    <3> QED
      BY <3>1 DEF SourceRight
  <2>2. ASSUME NEW i \in g, Eldest(i, P \ {k})
        PROVE  es[i].backup = Initial
    <3>1. i \in P /\ i # k
      BY <2>2 DEF Eldest
    <3>2. i < k
      BY <1>3, <3>1 DEF OfKind
    <3> HIDE DEF P
    <3>3. Eldest(i, P)
      BY <1>1, <2>2, <3>2, EldestUndone
    <3> USE DEF P
    <3> QED
      BY <3>3 DEF SourceRight
  <2> QED
    BY <1>1, <2>1, <2>2 DEF SourceRight
<1>5. ModuleRight(es[k].backup, es, g)
  <2>1. ASSUME NEW t \in Targets, NEW i \in g, Eldest(i, OnTarget("runtime", t, es, g)),
               \A j \in P \ {k} : i < j
        PROVE  es[i].old = Initial[t]
    <3>1. i \in f /\ i # k /\ es[i].kind = "runtime" /\ Eldest(i, OnTarget("runtime", t, es, f))
      BY <1>2, <2>1 DEF Eldest, OnTarget, OfKind
    <3>2. i < k
      BY <1>3, <3>1
    <3>3. \A j \in P : i < j
      BY <2>1, <3>2
    <3> QED
      BY <3>1, <3>3 DEF ModuleRight
  <2>2. P \ {k} = {} => es[k].backup = Initial
    BY <1>1, <1>4 DEF SourceRight
  <2> QED
    BY <1>1, <2>1, <2>2 DEF ModuleRight
<1> QED
  BY <1>4, <1>5

\* What an injection of another kind is about does not change.
LEMMA OthersUndone ==
    ASSUME NEW es, NEW f, NEW k, NEW m
    PROVE  /\ es[k].kind = "config" /\ ModuleRight(m, es, f) => ModuleRight(m, es, f \ {k})
           /\ es[k].kind # "source_patch" /\ SourceRight(m, es, f) => SourceRight(m, es, f \ {k})
           /\ es[k].kind # "config" /\ ConfigRight(m, es, f) => ConfigRight(m, es, f \ {k})
<1>1. \A kind : es[k].kind # kind =>
         /\ OfKind(kind, es, f \ {k}) = OfKind(kind, es, f)
         /\ \A t : OnTarget(kind, t, es, f \ {k}) = OnTarget(kind, t, es, f)
  BY DEF OfKind, OnTarget
<1>2. es[k].kind = "config" /\ ModuleRight(m, es, f) => ModuleRight(m, es, f \ {k})
  BY <1>1 DEF ModuleRight
<1>3. es[k].kind # "source_patch" /\ SourceRight(m, es, f) => SourceRight(m, es, f \ {k})
  BY <1>1 DEF SourceRight
<1>4. es[k].kind # "config" /\ ConfigRight(m, es, f) => ConfigRight(m, es, f \ {k})
  BY <1>1 DEF ConfigRight
<1> QED
  BY <1>2, <1>3, <1>4

------------------------------------------------------------------------------
(* Each step keeps it.                                                     *)

\* At these labels a request has nothing in hand.
Calm == {"open", "apply", "smoke", "persist", "keep"}

\* A request takes a step: it is enough to look at its own record.
LEMMA ShippedStep ==
    ASSUME Typed, Exact, serial, NEW r \in Requests, req[r].pc # "idle", NEW q, Become(r, q),
           done' \subseteq DOMAIN entry',
           q.pc = "idle" => Settled(live', source', config', entry', done', undone', lifo'),
           q.pc # "idle" =>
               InHand(q, live', source', config', entry', done', undone', lifo', stuck')
    PROVE  Shipped'
<1>1. \A x \in Requests : req'[x] = IF x = r THEN q ELSE req[x]
  BY DEF Become, Typed, TypeOK
<1>2. \A x \in Requests : x # r => req'[x].pc = "idle"
  BY <1>1 DEF Exact
<1>3. AllIdle' => q.pc = "idle"
  BY <1>1 DEF AllIdle
<1>4. \A x \in Requests : req'[x].pc # "idle" =>
         InHand(req'[x], live', source', config', entry', done', undone', lifo', stuck')
  BY <1>1, <1>2
<1> QED
  BY <1>3, <1>4 DEF Shipped

LEMMA CalmStep ==
    ASSUME Typed, Exact, serial, NEW r \in Requests, req[r].pc # "idle", NEW q, Become(r, q),
           done' \subseteq DOMAIN entry', q.pc \in Calm \cup {"idle"},
           Settled(live', source', config', entry', done', undone', lifo')
    PROVE  Shipped'
<1>1. q.pc # "idle" => InHand(q, live', source', config', entry', done', undone', lifo', stuck')
  BY DEF Calm, InHand, InjectionInHand, RollbackInHand, Settled, ModuleNow, ConfigNow, Undos
<1> QED
  BY <1>1, ShippedStep

\* What holds of the request that is being served.
LEMMA ServedInHand ==
    ASSUME Typed, Exact, Shipped, serial, NEW r \in Requests, req[r].pc # "idle"
    PROVE  /\ InHand(req[r], live, source, config, entry, done, undone, lifo, stuck)
           /\ done \subseteq DOMAIN entry /\ done \in SUBSET Nat /\ done \ undone \in SUBSET Nat
           /\ req[r].pc \notin {"validate", "restore", "write", "rewrite", "record"} =>
                 Settled(live, source, config, entry, done, undone, lifo)
<1>1. InHand(req[r], live, source, config, entry, done, undone, lifo, stuck) /\ done \subseteq DOMAIN entry
  BY DEF Shipped
<1>2. done \in SUBSET Nat /\ done \ undone \in SUBSET Nat
  BY DEF Typed, TypeOK, HistoryOK, Ids
<1>3. req[r].pc \notin {"validate", "restore", "write", "rewrite", "record"} =>
         Settled(live, source, config, entry, done, undone, lifo)
  BY <1>1 DEF InHand, Settled, ModuleNow, ConfigNow
<1> QED
  BY <1>1, <1>2, <1>3

\* A step after which a request has nothing in hand, and that changes nothing
\* but the request.
LEMMA QuietShipped ==
    ASSUME Typed, Exact, Shipped, serial, NEW r \in Requests,
           req[r].pc \notin {"idle", "validate", "restore", "write", "rewrite", "record"},
           NEW q, Become(r, q), q.pc \in Calm \cup {"idle"},
           UNCHANGED <<live, source, config, entry, done, undone, stuck, lifo>>
    PROVE  Shipped'
  BY ServedInHand, CalmStep

LEMMA GotoPersist ==
    ASSUME Typed, Exact, Shipped, serial, NEW r \in Requests,
           req[r].pc \notin {"idle", "validate", "restore", "write", "rewrite", "record"},
           Return(r) \/ Goto(r, "persist") \/ Goto(r, "keep") \/ Goto(r, "smoke"),
           UNCHANGED <<live, source, config, entry, done, undone, stuck, lifo>>
    PROVE  Shipped'
<1>1. CASE Return(r)
  BY <1>1, QuietShipped DEF Return, Idle
<1>2. ASSUME NEW l \in {"persist", "keep", "smoke"}, Goto(r, l) PROVE Shipped'
  <2> DEFINE q == [req[r] EXCEPT !.pc = l]
  <2>1. q.pc \in Calm \cup {"idle"} /\ Become(r, q)
    BY <1>2, RequestFields DEF Request, Typed, Calm, Goto
  <2> HIDE DEF q
  <2> QED
    BY <2>1, QuietShipped
<1> QED
  BY <1>1, <1>2

LEMMA CalmShipped ==
    ASSUME Typed, Exact, Shipped, serial, NEW r \in Requests,
           \/ Open(r) \/ Skip(r) \/ EndBatch(r) \/ EndUndo(r)
           \/ TruncateRecord(r) \/ Persist(r)
    PROVE  Shipped'
<1>1. req[r] \in Request
  BY RequestFields DEF Typed
<1>2. UNCHANGED <<live, source, config, entry, done, undone, stuck, lifo>>
      /\ req[r].pc \notin {"idle", "validate", "restore", "write", "rewrite", "record"}
  BY DEF Open, Skip, EndBatch, EndUndo, TruncateRecord, Persist, At, files, book, history
<1>3. CASE Open(r)
  <2> DEFINE q == [req[r] EXCEPT !.mem = Load(disk), !.pc = "apply"]
  <2>1. q.pc \in Calm \cup {"idle"} /\ Become(r, q)
    BY <1>1, <1>3 DEF Request, Calm, Open
  <2> HIDE DEF q
  <2> QED
    BY <1>2, <2>1, QuietShipped
<1>4. CASE Skip(r)
  <2> DEFINE q == [req[r] EXCEPT !.pos = @ + 1]
  <2>1. q.pc \in Calm \cup {"idle"} /\ Become(r, q)
    BY <1>1, <1>4 DEF Request, Calm, Skip, At
  <2> HIDE DEF q
  <2> QED
    BY <1>2, <2>1, QuietShipped
<1> QED
  BY <1>2, <1>3, <1>4, GotoPersist DEF EndBatch, EndUndo, TruncateRecord, Persist

\* The sandbox sets the variables of the module and puts them back: what they
\* would be without it stays the same.
LEMMA SandboxShipped ==
    ASSUME Typed, Exact, Shipped, serial, NEW r \in Requests, NEW t \in Tuned,
           Override(r, t) \/ Restore(r, t)
    PROVE  Shipped'
<1>1. req[r] \in Request /\ live \in Image /\ req[r].img \in Image /\ req[r].held \subseteq Tuned
      /\ t \in Targets
  BY RequestFields, ConstantsAssumption DEF Typed, TypeOK, FilesOK
<1>2. UNCHANGED <<source, config, entry, done, undone, stuck, lifo>>
      /\ req[r].pc \in {"validate", "restore"}
  BY DEF Override, Restore, At, files, book, history
<1>3. InHand(req[r], live, source, config, entry, done, undone, lifo, stuck)
      /\ done \subseteq DOMAIN entry
  BY <1>2, ServedInHand
<1>4. PICK q \in {[req[r] EXCEPT !.img[t] = live[t], !.held = @ \cup {t}],
                  [req[r] EXCEPT !.held = @ \ {t}]} :
         /\ Become(r, q) /\ q.pc = req[r].pc
         /\ \A s \in Targets :
              (IF s \in q.held THEN q.img[s] ELSE live'[s]) =
                  IF s \in req[r].held THEN req[r].img[s] ELSE live[s]
  <2>1. CASE Override(r, t)
    <3> DEFINE q == [req[r] EXCEPT !.img[t] = live[t], !.held = @ \cup {t}]
    <3>1. /\ Become(r, q) /\ q.pc = req[r].pc /\ q.held = req[r].held \cup {t}
          /\ q.img = [req[r].img EXCEPT ![t] = live[t]]
      BY <1>1, <2>1 DEF Request, Override
    <3>2. t \notin req[r].held /\ \A s \in Targets \ {t} : live'[s] = live[s]
      BY <1>1, <2>1 DEF Override, Image
    <3>3. \A s \in Targets : (IF s \in q.held THEN q.img[s] ELSE live'[s]) =
                  IF s \in req[r].held THEN req[r].img[s] ELSE live[s]
      <4> HIDE DEF q
      <4> QED
        BY <1>1, <3>1, <3>2 DEF Image
    <3> QED
      BY <3>1, <3>3
  <2>2. CASE Restore(r, t)
    <3> DEFINE q == [req[r] EXCEPT !.held = @ \ {t}]
    <3>1. /\ Become(r, q) /\ q.pc = req[r].pc /\ q.held = req[r].held \ {t} /\ q.img = req[r].img
      BY <1>1, <2>2 DEF Request, Restore
    <3>2. t \in req[r].held /\ live' = [live EXCEPT ![t] = req[r].img[t]]
      BY <2>2 DEF Restore
    <3>3. \A s \in Targets : (IF s \in q.held THEN q.img[s] ELSE live'[s]) =
                  IF s \in req[r].held THEN req[r].img[s] ELSE live[s]
      <4> HIDE DEF q
      <4> QED
        BY <1>1, <3>1, <3>2 DEF Image
    <3> QED
      BY <3>1, <3>3
  <2> QED
    BY <2>1, <2>2
<1>5. Unheld(q, live') = Unheld(req[r], live)
  BY <1>4 DEF Unheld
<1>6. InHand(q, live', source', config', entry', done', undone', lifo', stuck')
  BY <1>2, <1>3, <1>4, <1>5
     DEF InHand, InjectionInHand, RollbackInHand, ModuleNow, ConfigNow, Undos
<1> QED
  BY <1>2, <1>3, <1>4, <1>6, ShippedStep

\* Once every override is undone, nothing is in hand.
LEMMA VerdictShipped ==
    ASSUME Typed, Exact, Shipped, serial, NEW r \in Requests,
           Benchmark(r) \/ \E v \in Outcomes : Recommend(r, v)
    PROVE  Shipped'
<1>1. req[r] \in Request /\ live \in Image
  BY RequestFields DEF Typed, TypeOK, FilesOK
<1>2. UNCHANGED <<live, source, config, entry, done, undone, stuck, lifo>>
      /\ req[r].pc \in {"validate", "restore"}
  BY DEF Benchmark, Recommend, At, files, book, history
<1>3. InHand(req[r], live, source, config, entry, done, undone, lifo, stuck)
      /\ done \subseteq DOMAIN entry
  BY <1>2, ServedInHand
<1>4. CASE Benchmark(r)
  <2> DEFINE q == [req[r] EXCEPT !.pc = "restore"]
  <2>1. q.pc = "restore" /\ q.held = req[r].held /\ q.img = req[r].img /\ Become(r, q)
    BY <1>1, <1>4 DEF Request, Benchmark, Goto
  <2> HIDE DEF q
  <2>2. Unheld(q, live) = Unheld(req[r], live)
    BY <2>1 DEF Unheld
  <2>3. InHand(q, live', source', config', entry', done', undone', lifo', stuck')
    BY <1>2, <1>3, <2>1, <2>2
       DEF InHand, InjectionInHand, RollbackInHand, ModuleNow, ConfigNow, Undos
  <2> QED
    BY <1>2, <1>3, <2>1, <2>3, ShippedStep
<1>5. ASSUME NEW v \in Outcomes, Recommend(r, v)
      PROVE  Shipped'
  <2> DEFINE l == IF v = "promoted" /\ optIn THEN "open" ELSE "persist"
             q == [req[r] EXCEPT !.verdict = v, !.pc = l]
  <2>1. q.pc \in Calm \cup {"idle"} /\ Become(r, q)
    BY <1>1, <1>5 DEF Request, Recommend, Calm
  <2> HIDE DEF q
  <2>2. req[r].held = {}
    BY <1>5 DEF Recommend
  <2>3. Unheld(req[r], live) = live
    BY <1>1, <2>2 DEF Unheld, Image
  <2>4. Settled(live', source', config', entry', done', undone', lifo')
    BY <1>2, <1>3, <2>3 DEF InHand, Settled, ModuleNow, ConfigNow
  <2> QED
    BY <1>2, <1>3, <2>1, <2>4, CalmStep
<1> QED
  BY <1>4, <1>5

LEMMA ReadOriginalShipped ==
    ASSUME Typed, Exact, Shipped, serial, NEW r \in Requests, ReadOriginal(r)
    PROVE  Shipped'
<1>1. req[r] \in Request
  BY RequestFields DEF Typed
<1>2. UNCHANGED <<live, source, config, entry, done, undone, stuck, lifo>> /\ req[r].pc = "apply"
  BY DEF ReadOriginal, At, files, book, history
<1>3. Settled(live, source, config, entry, done, undone, lifo) /\ done \subseteq DOMAIN entry
  BY <1>2, ServedInHand
<1>4. PICK m \in {live, source, ReadConfig}, l \in {"setattr", "truncate", "record"} :
          /\ Become(r, [req[r] EXCEPT !.img = m, !.pc = l])
          /\ l = "setattr" => Current(r).kind = "runtime" /\ m = live
          /\ l = "truncate" => Current(r).kind = "config" /\ m = ReadConfig
          /\ l = "record" => Current(r).kind = "source_patch"
  BY DEF ReadOriginal
<1> DEFINE q == [req[r] EXCEPT !.img = m, !.pc = l]
<1>5. q.pc = l /\ q.img = m /\ q.batch = req[r].batch /\ q.pos = req[r].pos /\ Become(r, q)
  BY <1>1, <1>4 DEF Request
<1> HIDE DEF q
<1>6. Of(q) = Current(r)
  BY <1>5 DEF Of, Current
<1>7. ReadConfig = config
  BY <1>3 DEF ReadConfig, Settled
<1>8. InHand(q, live', source', config', entry', done', undone', lifo', stuck')
  BY <1>2, <1>3, <1>4, <1>5, <1>6, <1>7
     DEF InHand, InjectionInHand, RollbackInHand, Settled, ModuleNow, ConfigNow, Undos
<1> QED
  BY <1>2, <1>3, <1>5, <1>8, ShippedStep

LEMMA WritesShipped ==
    ASSUME Typed, Exact, Shipped, serial, NEW r \in Requests,
           SetRuntime(r) \/ TruncateConfig(r) \/ WriteConfig(r)
    PROVE  Shipped'
<1>1. req[r] \in Request /\ live \in Image /\ req[r].img \in Image
  BY RequestFields DEF Typed, TypeOK, FilesOK
<1>2. UNCHANGED <<source, entry, done, undone, stuck, lifo>>
      /\ req[r].pc \in {"setattr", "truncate", "write"}
  BY DEF SetRuntime, TruncateConfig, WriteConfig, At, book, history
<1>3. InHand(req[r], live, source, config, entry, done, undone, lifo, stuck) /\ done \subseteq DOMAIN entry
  BY <1>2, ServedInHand
<1>4. PICK l \in {"record", "write"} :
         Goto(r, l) /\ (l = "write" => req[r].pc = "truncate") /\ (l = "record" => req[r].pc # "truncate")
  BY DEF SetRuntime, TruncateConfig, WriteConfig, At
<1> DEFINE q == [req[r] EXCEPT !.pc = l]
<1>5. q.pc = l /\ q.img = req[r].img /\ Of(q) = Current(r) /\ Become(r, q)
  BY <1>1, <1>4 DEF Request, Goto, Of, Current
<1> HIDE DEF q
<1>6. Current(r) = Of(req[r]) /\ Current(r) \in Proposal
  BY <1>2, CurrentIsProposal DEF Of, Current, Typed, InPlace, AtProposal
<1>7. CASE SetRuntime(r)
  <2>1. live' = [live EXCEPT ![Of(q).target] = Of(q).value] /\ config' = config
        /\ req[r].pc = "setattr" /\ l = "record"
    BY <1>4, <1>5, <1>7 DEF SetRuntime, At
  <2>2. Of(q).kind = "runtime" /\ q.img = live
    BY <1>3, <1>5, <1>6, <2>1 DEF InHand, InjectionInHand
  <2>3. InHand(q, live', source', config', entry', done', undone', lifo', stuck')
    BY <1>2, <1>3, <1>5, <2>1, <2>2
       DEF InHand, InjectionInHand, RollbackInHand, ModuleNow, ConfigNow, Undos
  <2> QED
    BY <1>2, <1>3, <1>5, <2>3, ShippedStep
<1>8. CASE TruncateConfig(r)
  <2>1. live' = live /\ config' = Torn /\ req[r].pc = "truncate" /\ l = "write"
    BY <1>4, <1>8 DEF TruncateConfig, At
  <2>2. Of(q).kind = "config" /\ q.img = config
    BY <1>3, <1>5, <1>6, <2>1 DEF InHand, InjectionInHand
  <2>3. InHand(q, live', source', config', entry', done', undone', lifo', stuck')
    BY <1>2, <1>3, <1>5, <2>1, <2>2
       DEF InHand, InjectionInHand, RollbackInHand, ModuleNow, ConfigNow, Undos
  <2> QED
    BY <1>2, <1>3, <1>5, <2>3, ShippedStep
<1>9. CASE WriteConfig(r)
  <2>1. live' = live /\ config' = [q.img EXCEPT ![Of(q).target] = Of(q).value]
        /\ req[r].pc = "write" /\ l = "record"
    BY <1>4, <1>5, <1>9 DEF WriteConfig, At
  <2>2. Of(q).kind = "config"
    BY <1>3, <1>5, <1>6, <2>1 DEF InHand, InjectionInHand
  <2>3. config' # Torn
    <3>1. config' \in Image
      BY <1>1, <1>5, <1>6, <2>1 DEF Image, Proposal
    <3> QED
      BY <3>1, ConstantsAssumption
  <2>4. InHand(q, live', source', config', entry', done', undone', lifo', stuck')
    BY <1>2, <1>3, <1>5, <2>1, <2>2, <2>3
       DEF InHand, InjectionInHand, RollbackInHand, ModuleNow, ConfigNow, Undos
  <2> QED
    BY <1>2, <1>3, <1>5, <2>4, ShippedStep
<1> QED
  BY <1>7, <1>8, <1>9

\* An injection is recorded, and in force unless it is a patch.
LEMMA RecordShipped ==
    ASSUME Typed, Exact, Shipped, serial, NEW r \in Requests, Record(r)
    PROVE  Shipped'
<1> DEFINE n == Len(entry) + 1
           e == [cycle |-> req[r].cycle, kind |-> Current(r).kind, target |-> Current(r).target,
                 old |-> req[r].img[Current(r).target], new |-> Current(r).value,
                 category |-> Current(r).category, backup |-> source]
           q == [req[r] EXCEPT !.mem[n] = "applied", !.id = n, !.pc = "save"]
           f == done \ undone
<1>1. entry' = Append(entry, e) /\ Become(r, q) /\ req[r].pc = "record"
      /\ done' = (IF Current(r).kind = "source_patch" THEN done ELSE done \cup {n})
      /\ UNCHANGED <<live, source, config, undone, stuck, lifo>>
  BY DEF Record, At
<1>2. q.pc = "save" /\ q.id = n /\ Of(q) = Current(r)
  BY RequestFields DEF Request, Typed, Of, Current
<1>3. Current(r) = Of(req[r]) /\ Current(r) \in Proposal
  BY <1>1, CurrentIsProposal DEF Of, Current, Typed, InPlace, AtProposal
<1>4. InHand(req[r], live, source, config, entry, done, undone, lifo, stuck)
      /\ done \subseteq DOMAIN entry /\ f \in SUBSET Nat
  BY <1>1, ServedInHand
<1>5. entry \in Seq(Entry) /\ DOMAIN entry = 1 .. Len(entry) /\ n \in Nat
      /\ req[r].img \in Image /\ Len(entry) \in Nat
  BY EntryFacts, RequestFields DEF Typed, TypeOK, BookOK
<1>6. entry'[n] = e /\ DOMAIN entry' = DOMAIN entry \cup {n}
      /\ \A i \in DOMAIN entry : entry'[i] = entry[i] /\ i < n /\ i # n
  <2>1. entry' \in Seq({entry[i] : i \in DOMAIN entry} \cup {e}) /\ Len(entry') = Len(entry) + 1
    BY <1>1, <1>5
  <2>2. DOMAIN entry' = 1 .. Len(entry) + 1
    BY <1>5, <2>1
  <2>3. \A i \in 1 .. Len(entry) : entry'[i] = entry[i] /\ i < n /\ i # n
    BY <1>1, <1>5
  <2>4. entry'[n] = e
    BY <1>1, <1>5
  <2> QED
    BY <1>5, <2>2, <2>3, <2>4
<1>7. e.kind = Current(r).kind /\ e.target = Current(r).target /\ e.backup = source
      /\ e.old = req[r].img[Current(r).target]
  OBVIOUS
<1> HIDE DEF n, e, q
<1>8. undone \subseteq DOMAIN entry
  BY <1>1, RecordedIsDone
<1>9. Continued(n, f, entry, entry') /\ n \notin done \cup undone
  BY <1>4, <1>6, <1>8 DEF Continued
<1>10. done' \subseteq DOMAIN entry'
  BY <1>1, <1>4, <1>6
<1>11. Current(r).kind \in Kinds
  BY <1>3 DEF Proposal
<1>12. RollbackInHand(q, source', entry', done', undone', stuck')
  BY <1>2 DEF RollbackInHand, Undos
<1>13. CASE Current(r).kind = "source_patch"
  <2>1. Settled(live, source, config, entry, done, undone, lifo)
    BY <1>1, <1>3, <1>4, <1>13 DEF InHand, Settled, ModuleNow, ConfigNow
  <2>2. done' \ undone' = f /\ done' = done
    BY <1>1, <1>13
  <2>3. AllRight(live, source, config, entry, f) => AllRight(live, source, config, entry', f)
    BY <1>4, <1>5, <1>9, ModuleKept, SourceKept, ConfigKept DEF AllRight
  <2>4. InjectionInHand(q, live', source', config', entry', done', undone')
    <3>1. \A i \in done : i < n
      BY <1>4, <1>6
    <3> QED
      BY <1>1, <1>2, <1>6, <1>7, <1>9, <1>13, <2>2, <3>1 DEF InjectionInHand
  <2>5. InHand(q, live', source', config', entry', done', undone', lifo', stuck')
    BY <1>1, <1>2, <1>12, <2>1, <2>2, <2>3, <2>4 DEF InHand, Settled, ModuleNow, ConfigNow
  <2> QED
    BY <1>1, <1>2, <1>10, <2>5, ShippedStep
<1>14. CASE Current(r).kind # "source_patch"
  <2>1. done' \ undone' = f \cup {n} /\ done' = done \cup {n}
    BY <1>1, <1>6, <1>8, <1>9, <1>14
  <2>2. InjectionInHand(q, live', source', config', entry', done', undone')
    BY <1>2, <1>14 DEF InjectionInHand
  <2>3. lifo => AllRight(live, source, config, entry', f \cup {n})
    <3> SUFFICES ASSUME lifo PROVE AllRight(live, source, config, entry', f \cup {n})
      OBVIOUS
    <3>1. CASE Current(r).kind = "runtime"
      <4>1. ModuleRight(req[r].img, entry, f) /\ SourceRight(source, entry, f)
            /\ ConfigRight(config, entry, f)
            /\ live = [req[r].img EXCEPT ![Current(r).target] = Current(r).value]
        BY <1>1, <1>3, <1>4, <3>1
           DEF InHand, InjectionInHand, ModuleNow, ConfigNow, AllRight
      <4>2. ModuleRight([req[r].img EXCEPT ![entry'[n].target] = Current(r).value], entry', f \cup {n})
        BY <1>4, <1>5, <1>6, <1>7, <1>9, <3>1, <4>1, ModuleInjected
      <4>3. SourceRight(source, entry', f \cup {n})
        BY <1>4, <1>5, <1>6, <1>7, <1>9, <3>1, <4>1, SourceKept
      <4>4. ConfigRight(config, entry', f \cup {n})
        BY <1>4, <1>5, <1>6, <1>7, <1>9, <3>1, <4>1, ConfigKept
      <4> QED
        BY <1>6, <1>7, <4>1, <4>2, <4>3, <4>4 DEF AllRight
    <3>2. CASE Current(r).kind = "config"
      <4>1. ModuleRight(live, entry, f) /\ SourceRight(source, entry, f)
            /\ ConfigRight(req[r].img, entry, f)
            /\ config = [req[r].img EXCEPT ![Current(r).target] = Current(r).value]
        BY <1>1, <1>3, <1>4, <3>2
           DEF InHand, InjectionInHand, ModuleNow, ConfigNow, AllRight
      <4>2. ConfigRight([req[r].img EXCEPT ![entry'[n].target] = Current(r).value], entry', f \cup {n})
        BY <1>4, <1>5, <1>6, <1>7, <1>9, <3>2, <4>1, ConfigInjected
      <4>3. SourceRight(source, entry', f \cup {n})
        BY <1>4, <1>5, <1>6, <1>7, <1>9, <3>2, <4>1, SourceKept
      <4>4. ModuleRight(live, entry', f \cup {n})
        BY <1>4, <1>5, <1>6, <1>7, <1>9, <3>2, <4>1, ModuleKept
      <4> QED
        BY <1>6, <1>7, <4>1, <4>2, <4>3, <4>4 DEF AllRight
    <3> QED
      BY <1>11, <1>14, <3>1, <3>2 DEF Kinds
  <2>4. config # Torn
    BY <1>1, <1>4 DEF InHand
  <2>5. InHand(q, live', source', config', entry', done', undone', lifo', stuck')
    BY <1>1, <1>2, <1>12, <2>1, <2>2, <2>3, <2>4 DEF InHand, ModuleNow, ConfigNow
  <2> QED
    BY <1>1, <1>2, <1>10, <2>5, ShippedStep
<1> QED
  BY <1>13, <1>14

LEMMA SaveShipped ==
    ASSUME Typed, Exact, Shipped, serial, NEW r \in Requests, Save(r)
    PROVE  Shipped'
<1>1. req[r].pc = "save" /\ req[r] \in Request
  BY RequestFields DEF Save, At, Typed
<1>2. UNCHANGED <<live, source, config, entry, done, undone, stuck, lifo>>
  BY DEF Save, book, history
<1>3. CASE Current(r).kind = "source_patch"
  <2> DEFINE q == [req[r] EXCEPT !.pc = "patch"]
  <2>1. q.pc = "patch" /\ q.id = req[r].id /\ Of(q) = Of(req[r]) /\ Of(req[r]) = Current(r)
    BY <1>1 DEF Request, Of, Current
  <2>2. Become(r, q)
    BY <1>3 DEF Save, Goto
  <2> HIDE DEF q
  <2>3. InHand(req[r], live, source, config, entry, done, undone, lifo, stuck)
        /\ Settled(live, source, config, entry, done, undone, lifo) /\ done \subseteq DOMAIN entry
    BY <1>1, ServedInHand
  <2>4. InjectionInHand(q, live', source', config', entry', done', undone')
    BY <1>1, <1>2, <1>3, <2>1, <2>3 DEF InHand, InjectionInHand
  <2>5. InHand(q, live', source', config', entry', done', undone', lifo', stuck')
    BY <1>2, <2>1, <2>3, <2>4 DEF InHand, Settled, RollbackInHand, ModuleNow, ConfigNow, Undos
  <2> QED
    BY <1>1, <1>2, <2>1, <2>2, <2>3, <2>5, ShippedStep
<1>4. CASE Current(r).kind # "source_patch"
  <2> DEFINE q == [req[r] EXCEPT !.applied = @ + 1, !.pos = @ + 1, !.pc = "apply"]
  <2>1. q.pc \in Calm \cup {"idle"} /\ Become(r, q)
    BY <1>1, <1>4 DEF Request, Calm, Save
  <2> HIDE DEF q
  <2> QED
    BY <1>1, <1>2, <2>1, QuietShipped
<1> QED
  BY <1>3, <1>4

\* A patch comes into force; until the reload the module does not show it.
LEMMA PatchSourceShipped ==
    ASSUME Typed, Exact, Shipped, serial, NEW r \in Requests, PatchSource(r)
    PROVE  Shipped'
<1> DEFINE q == [req[r] EXCEPT !.pc = "reload"]
           f == done \ undone
           k == req[r].id
<1>1. req[r].pc = "patch" /\ req[r] \in Request
  BY RequestFields DEF PatchSource, At, Typed
<1>2. UNCHANGED <<live, config, entry, undone, stuck, lifo>> /\ done' = done \cup {k} /\ Become(r, q)
  BY DEF PatchSource, book, Goto
<1>3. q.pc = "reload"
  BY <1>1 DEF Request
<1> HIDE DEF q
<1>4. InHand(req[r], live, source, config, entry, done, undone, lifo, stuck)
      /\ Settled(live, source, config, entry, done, undone, lifo)
      /\ done \subseteq DOMAIN entry /\ f \in SUBSET Nat
  BY <1>1, ServedInHand
<1>5. k \notin done \cup undone /\ (\A i \in done : i < k)
      /\ entry[k].kind = "source_patch" /\ entry[k].backup = source
  BY <1>1, <1>4 DEF InHand, InjectionInHand
<1>6. k \in DOMAIN entry /\ k \in Nat
  BY <1>1, EntryFacts DEF Typed, InPlace, Ids
<1>7. done' \ undone' = f \cup {k} /\ Continued(k, f, entry, entry)
  BY <1>2, <1>5 DEF Continued
<1>8. OfKind("source_patch", entry, f \cup {k}) # {}
  BY <1>5 DEF OfKind
<1>9. lifo => AllRight(live, source', config, entry, f \cup {k})
  <2> SUFFICES ASSUME lifo PROVE AllRight(live, source', config, entry, f \cup {k})
    OBVIOUS
  <2>1. ModuleRight(live, entry, f) /\ SourceRight(source, entry, f) /\ ConfigRight(config, entry, f)
    BY <1>4 DEF Settled, AllRight
  <2>2. ModuleRight(live, entry, f \cup {k}) /\ SourceRight(source', entry, f \cup {k})
    BY <1>4, <1>5, <1>6, <1>7, <2>1, PatchInjected
  <2>3. ConfigRight(config, entry, f \cup {k})
    BY <1>4, <1>5, <1>6, <1>7, <2>1, ConfigKept
  <2> QED
    BY <2>2, <2>3 DEF AllRight
<1>10. InHand(q, live', source', config', entry', done', undone', lifo', stuck')
  BY <1>2, <1>3, <1>4, <1>7, <1>8, <1>9
     DEF InHand, InjectionInHand, RollbackInHand, Settled, ModuleNow, ConfigNow, Undos
<1> QED
  BY <1>1, <1>2, <1>3, <1>4, <1>6, <1>10, ShippedStep

LEMMA ReloadShipped ==
    ASSUME Typed, Exact, Shipped, serial, NEW r \in Requests, Reload(r)
    PROVE  Shipped'
<1>1. req[r].pc = "reload" /\ req[r] \in Request
  BY RequestFields DEF Reload, At, Typed
<1>2. UNCHANGED <<source, config, entry, done, undone, stuck, lifo>>
  BY DEF Reload, book, history
<1>3. InHand(req[r], live, source, config, entry, done, undone, lifo, stuck)
      /\ Settled(live, source, config, entry, done, undone, lifo) /\ done \subseteq DOMAIN entry
  BY <1>1, ServedInHand
<1>4. OfKind("source_patch", entry, done \ undone) # {}
  BY <1>1, <1>3 DEF InHand, InjectionInHand
<1>5. Settled(live', source', config', entry', done', undone', lifo')
  BY <1>2, <1>3, <1>4, AnythingUnderPatch DEF Settled, AllRight
<1>6. CASE Become(r, [req[r] EXCEPT !.applied = @ + 1, !.pos = @ + 1, !.pc = "apply"])
  <2> DEFINE q == [req[r] EXCEPT !.applied = @ + 1, !.pos = @ + 1, !.pc = "apply"]
  <2>1. q.pc \in Calm \cup {"idle"} /\ Become(r, q)
    BY <1>1, <1>6 DEF Request, Calm
  <2> HIDE DEF q
  <2> QED
    BY <1>1, <1>2, <1>3, <1>5, <2>1, CalmStep
<1>7. CASE Become(r, [req[r] EXCEPT !.pos = @ + 1, !.pc = "apply"])
  <2> DEFINE q == [req[r] EXCEPT !.pos = @ + 1, !.pc = "apply"]
  <2>1. q.pc \in Calm \cup {"idle"} /\ Become(r, q)
    BY <1>1, <1>7 DEF Request, Calm
  <2> HIDE DEF q
  <2> QED
    BY <1>1, <1>2, <1>3, <1>5, <2>1, CalmStep
<1> QED
  BY <1>6, <1>7 DEF Reload

\* A cycle that failed its smoke test has all that it put in force on its list.
LEMMA SmokeTestShipped ==
    ASSUME Typed, Exact, Shipped, serial, NEW r \in Requests, SmokeTest(r)
    PROVE  Shipped'
<1>1. req[r].pc = "smoke" /\ req[r] \in Request
  BY RequestFields DEF SmokeTest, At, Typed
<1>2. UNCHANGED <<live, source, config, entry, done, undone, stuck, lifo>>
  BY DEF SmokeTest, files, book, history
<1>3. Settled(live, source, config, entry, done, undone, lifo) /\ done \subseteq DOMAIN entry
  BY <1>1, ServedInHand
<1>4. CASE Goto(r, "persist")
  BY <1>1, <1>2, <1>4, GotoPersist
<1>5. CASE Become(r, [req[r] EXCEPT !.verdict = "failed", !.pc = "persist"])
  <2> DEFINE q == [req[r] EXCEPT !.verdict = "failed", !.pc = "persist"]
  <2>1. q.pc \in Calm \cup {"idle"} /\ Become(r, q)
    BY <1>1, <1>5 DEF Request, Calm
  <2> HIDE DEF q
  <2> QED
    BY <1>1, <1>2, <2>1, QuietShipped
<1>6. CASE Become(r, [req[r] EXCEPT !.undo = ActiveByCycle(req[r].mem, req[r].cycle), !.pc = "undo"])
  <2> DEFINE q == [req[r] EXCEPT !.undo = ActiveByCycle(req[r].mem, req[r].cycle), !.pc = "undo"]
  <2>1. q.pc = "undo" /\ q.cycle = req[r].cycle /\ Become(r, q)
        /\ q.undo = ActiveByCycle(req[r].mem, req[r].cycle)
    BY <1>1, <1>6 DEF Request
  <2> HIDE DEF q
  <2>2. Agrees(req[r].mem, entry, undone)
    BY <1>1, RecordedIsDone DEF ExactRequest, Reading
  <2>3. q.undo = {i \in DOMAIN entry : i \notin undone /\ entry[i].cycle = q.cycle}
    <3>1. DOMAIN entry \subseteq Ids
      BY EntryFacts DEF Typed
    <3>2. \A i \in DOMAIN entry : req[r].mem[i] = "applied" <=> i \notin undone
      BY <2>2, <3>1 DEF Agrees, Status
    <3> QED
      BY <2>1, <3>2 DEF ActiveByCycle
  <2>4. RollbackInHand(q, source', entry', done', undone', stuck')
    BY <1>2, <1>3, <2>1, <2>3 DEF RollbackInHand
  <2>5. InHand(q, live', source', config', entry', done', undone', lifo', stuck')
    BY <1>2, <1>3, <2>1, <2>4 DEF InHand, InjectionInHand, Settled, ModuleNow, ConfigNow
  <2> QED
    BY <1>1, <1>2, <1>3, <2>1, <2>5, ShippedStep
<1> QED
  BY <1>4, <1>5, <1>6 DEF SmokeTest

------------------------------------------------------------------------------
(* The steps of a rollback.                                                *)

\* What a rollback is about is in force until it is put back.
LEMMA UndoingInForce ==
    ASSUME Typed, Exact, Shipped, serial, NEW r \in Requests,
           req[r].pc \in {"undo", "unload", "rewrite"}, req[r].undo # {}
    PROVE  /\ Undoing(r) \in done \ undone /\ Undoing(r) = Least(req[r].undo)
           /\ Undoing(r) \in req[r].undo
           /\ \A i \in req[r].undo : i \notin undone
           /\ entry[Undoing(r)] \in Entry
<1>1. Undoing(r) \in req[r].undo /\ Undoing(r) = Least(req[r].undo)
  BY UndoingListed DEF Undoing, Least, Typed
<1>2. req[r].undo \subseteq DOMAIN entry
  BY DEF Typed, InPlace
<1>3. \A i \in req[r].undo : i \notin undone
  BY ServedInHand DEF InHand, RollbackInHand, Undos
<1>4. \A i \in DOMAIN entry : i \in done
  BY RecordedIsDone DEF Awaited
<1>5. entry[Undoing(r)] \in Entry
  BY <1>1, <1>2, EntryFacts DEF Typed
<1> QED
  BY <1>1, <1>2, <1>3, <1>4, <1>5

\* While it was the newest that was put back, k is the newest that conflicts.
LEMMA UndoneIsNewest ==
    ASSUME Typed, NEW k \in DOMAIN entry, Restored(k), lifo'
    PROVE  lifo /\ Newest(k, done \ undone, entry)
  BY DEF Restored, Newest, Conflict

\* Once an injection is put back, its entry is to be marked.
LEMMA RestoredShipped ==
    ASSUME Typed, Exact, Shipped, serial, NEW r \in Requests,
           req[r].pc \in {"undo", "unload", "rewrite"}, req[r].undo # {},
           Goto(r, "mark"), Restored(Undoing(r)), UNCHANGED <<entry, done, stuck>>, config' # Torn,
           lifo' => AllRight(live', source', config', entry, (done \ undone) \ {Undoing(r)})
    PROVE  Shipped'
<1> DEFINE q == [req[r] EXCEPT !.pc = "mark"]
           k == Undoing(r)
<1>1. q.pc = "mark" /\ q.undo = req[r].undo /\ q.op = req[r].op /\ q.cycle = req[r].cycle
      /\ Become(r, q)
  BY RequestFields DEF Request, Typed, Goto
<1> HIDE DEF q
<1>2. k \in done \ undone /\ k = Least(q.undo) /\ \A i \in q.undo : i \notin undone
  BY <1>1, UndoingInForce
<1>3. undone' = undone \cup {k}
  BY DEF Restored
<1>4. done' \ undone' = (done \ undone) \ {k}
  BY <1>3
<1>5. InHand(req[r], live, source, config, entry, done, undone, lifo, stuck) /\ done \subseteq DOMAIN entry
  BY ServedInHand
<1>6. RollbackInHand(q, source', entry', done', undone', stuck')
  <2>1. \A i \in q.undo : i \in undone' => i = Least(q.undo)
    BY <1>2, <1>3
  <2>2. q.op = "cycle" => \A i \in done' \ undone' :
           entry'[i].cycle = q.cycle => i \in q.undo \cup stuck'
    BY <1>1, <1>4, <1>5 DEF InHand, RollbackInHand, Undos
  <2>3. Least(q.undo) \in undone'
    BY <1>2, <1>3
  <2> QED
    BY <1>1, <2>1, <2>2, <2>3 DEF RollbackInHand
<1>7. InHand(q, live', source', config', entry', done', undone', lifo', stuck')
  BY <1>1, <1>4, <1>6 DEF InHand, InjectionInHand, ModuleNow, ConfigNow
<1> QED
  BY <1>1, <1>5, <1>7, ShippedStep

\* A patch that would not reload stays in force, and off the list.
LEMMA LeaveShipped ==
    ASSUME Typed, Exact, Shipped, serial, NEW r \in Requests,
           req[r].pc \in {"unload", "saved"}, req[r].undo # {}, Leave(r),
           UNCHANGED <<live, source, config, entry, done, undone, lifo>>,
           stuck' = IF req[r].pc = "saved" THEN stuck ELSE stuck \cup {Undoing(r)}
    PROVE  Shipped'
<1> DEFINE q == [req[r] EXCEPT !.undo = @ \ {Undoing(r)}, !.pc = "undo"]
           k == Undoing(r)
<1>1. q.pc = "undo" /\ q.undo = req[r].undo \ {k} /\ q.op = req[r].op /\ q.cycle = req[r].cycle
      /\ Become(r, q)
  BY RequestFields DEF Request, Typed, Leave
<1>2. k = Least(req[r].undo)
  BY DEF Undoing, Least
<1> HIDE DEF q, k
<1>3. InHand(req[r], live, source, config, entry, done, undone, lifo, stuck)
      /\ Settled(live, source, config, entry, done, undone, lifo) /\ done \subseteq DOMAIN entry
  BY ServedInHand
<1>4. RollbackInHand(q, source', entry', done', undone', stuck')
  <2>1. \A i \in q.undo : i \notin undone
    BY <1>1, <1>2, <1>3 DEF InHand, RollbackInHand, Undos
  <2>2. k \in undone \/ k \in stuck'
    BY <1>2, <1>3 DEF InHand, RollbackInHand, k
  <2>4. stuck \subseteq stuck'
    OBVIOUS
  <2>3. q.op = "cycle" => \A i \in done' \ undone' :
           entry'[i].cycle = q.cycle => i \in q.undo \cup stuck'
    BY <1>1, <1>3, <2>2, <2>4 DEF InHand, RollbackInHand, Undos
  <2> QED
    BY <1>1, <2>1, <2>3 DEF RollbackInHand
<1>5. InHand(q, live', source', config', entry', done', undone', lifo', stuck')
  BY <1>1, <1>3, <1>4 DEF InHand, InjectionInHand, Settled, ModuleNow, ConfigNow
<1> QED
  BY <1>1, <1>3, <1>5, ShippedStep

LEMMA UndoRuntimeShipped ==
    ASSUME Typed, Exact, Shipped, serial, NEW r \in Requests, UndoRuntime(r)
    PROVE  Shipped'
<1> DEFINE k == Undoing(r)
           f == done \ undone
<1>1. req[r].pc = "undo" /\ req[r].undo # {} /\ entry[k].kind = "runtime"
      /\ live' = [live EXCEPT ![entry[k].target] = entry[k].old]
      /\ Restored(k) /\ Goto(r, "mark") /\ UNCHANGED <<source, config, entry, done, stuck>>
  BY DEF UndoRuntime, AtUndo, At, book
<1>2. Settled(live, source, config, entry, done, undone, lifo) /\ f \in SUBSET Nat
      /\ done \subseteq DOMAIN entry
  BY <1>1, ServedInHand
<1>3. k \in f /\ entry[k] \in Entry
  BY <1>1, UndoingInForce
<1>4. live \in Image /\ entry[k].target \in Targets
  BY <1>3 DEF Typed, TypeOK, FilesOK, Entry
<1> HIDE DEF k
<1>5. ASSUME lifo'
      PROVE  AllRight(live', source', config', entry, f \ {k})
  <2>1. lifo /\ Newest(k, f, entry)
    BY <1>1, <1>2, <1>3, <1>5, UndoneIsNewest
  <2>2. ModuleRight(live, entry, f) /\ SourceRight(source, entry, f) /\ ConfigRight(config, entry, f)
    BY <1>2, <2>1 DEF Settled, AllRight
  <2>3. ModuleRight(live', entry, f \ {k})
    BY <1>1, <1>2, <1>3, <1>4, <2>1, <2>2, RuntimeUndone
  <2>4. SourceRight(source, entry, f \ {k}) /\ ConfigRight(config, entry, f \ {k})
    BY <1>1, <2>2, OthersUndone
  <2> QED
    BY <1>1, <2>3, <2>4 DEF AllRight
<1>6. config' # Torn
  BY <1>1, <1>2 DEF Settled
<1> USE DEF k
<1> QED
  BY <1>1, <1>5, <1>6, RestoredShipped

\* The source is put back: the module is to be imported from it.
LEMMA UndoSourceShipped ==
    ASSUME Typed, Exact, Shipped, serial, NEW r \in Requests, UndoSource(r)
    PROVE  Shipped'
<1> DEFINE q == [req[r] EXCEPT !.pc = "unload"]
           k == Undoing(r)
           f == done \ undone
<1>1. req[r].pc = "undo" /\ req[r].undo # {} /\ entry[k].kind = "source_patch"
      /\ source' = entry[k].backup /\ UNCHANGED <<live, config, entry, done, undone, stuck, lifo>>
  BY DEF UndoSource, AtUndo, At, book, history
<1>2. q.pc = "unload" /\ q.undo = req[r].undo /\ q.op = req[r].op /\ q.cycle = req[r].cycle
      /\ Become(r, q)
  BY RequestFields DEF Request, Typed, Goto, UndoSource
<1>3. InHand(req[r], live, source, config, entry, done, undone, lifo, stuck)
      /\ Settled(live, source, config, entry, done, undone, lifo) /\ done \subseteq DOMAIN entry
  BY <1>1, ServedInHand
<1>4. k \in f /\ k = Least(req[r].undo)
  BY <1>1, UndoingInForce
<1> HIDE DEF q, k
<1>5. RollbackInHand(q, source', entry', done', undone', stuck')
  <2>1. \A i \in q.undo : i \notin undone
    BY <1>1, <1>2, <1>3 DEF InHand, RollbackInHand, Undos
  <2>2. q.op = "cycle" => \A i \in done' \ undone' :
           entry'[i].cycle = q.cycle => i \in q.undo \cup stuck'
    BY <1>1, <1>2, <1>3 DEF InHand, RollbackInHand, Undos
  <2> QED
    BY <1>1, <1>2, <1>4, <2>1, <2>2 DEF RollbackInHand
<1>6. OfKind("source_patch", entry, f) # {}
  BY <1>1, <1>4 DEF OfKind
<1>7. Settled(live', source', config', entry', done', undone', lifo')
  BY <1>1, <1>3, <1>6, AnythingUnderPatch DEF Settled, AllRight
<1>8. InHand(q, live', source', config', entry', done', undone', lifo', stuck')
  BY <1>2, <1>5, <1>7 DEF InHand, InjectionInHand, Settled, ModuleNow, ConfigNow
<1> QED
  BY <1>1, <1>2, <1>3, <1>8, ShippedStep

LEMMA UndoReloadShipped ==
    ASSUME Typed, Exact, Shipped, serial, NEW r \in Requests, UndoReload(r)
    PROVE  Shipped'
<1> DEFINE k == Undoing(r)
           f == done \ undone
<1>1. req[r].pc = "unload" /\ req[r].undo # {} /\ UNCHANGED <<source, config, entry, done>>
  BY DEF UndoReload, At, Typed, InPlace, AtEntry, book
<1>2. InHand(req[r], live, source, config, entry, done, undone, lifo, stuck)
      /\ Settled(live, source, config, entry, done, undone, lifo)
      /\ f \in SUBSET Nat /\ done \subseteq DOMAIN entry
  BY <1>1, ServedInHand
<1>3. k \in f /\ k = Least(req[r].undo) /\ entry[k] \in Entry
  BY <1>1, UndoingInForce
<1>4. CASE Leave(r) /\ UNCHANGED <<live, undone, lifo>> /\ stuck' = stuck \cup {k}
  BY <1>1, <1>4, LeaveShipped
<1>5. CASE live' = source /\ Restored(k) /\ Goto(r, "mark") /\ UNCHANGED stuck
  <2>1. entry[k].target \in Targets /\ \A i \in f : entry[i].kind \in Kinds
    BY <1>2, <1>3, EntryFacts DEF Entry, Typed
  <2>2. entry[k].kind = "source_patch" /\ source = entry[k].backup
    BY <1>1, <1>2, <1>3 DEF InHand, RollbackInHand
  <2> HIDE DEF k
  <2>3. ASSUME lifo'
        PROVE  AllRight(live', source', config', entry, f \ {k})
    <3>1. lifo /\ Newest(k, f, entry)
      BY <1>2, <1>3, <1>5, <2>3, UndoneIsNewest
    <3>2. ModuleRight(live, entry, f) /\ SourceRight(entry[k].backup, entry, f)
          /\ ConfigRight(config, entry, f)
      BY <1>2, <2>2, <3>1 DEF Settled, AllRight
    <3>3. ModuleRight(entry[k].backup, entry, f \ {k}) /\ SourceRight(entry[k].backup, entry, f \ {k})
      BY <1>2, <1>3, <2>1, <2>2, <3>1, <3>2, PatchUndone
    <3>4. ConfigRight(config, entry, f \ {k})
      BY <2>2, <3>2, OthersUndone
    <3> QED
      BY <1>1, <1>5, <2>2, <3>3, <3>4 DEF AllRight
  <2>4. config' # Torn
    BY <1>1, <1>2 DEF Settled
  <2> USE DEF k
  <2> QED
    BY <1>1, <1>5, <2>3, <2>4, RestoredShipped
<1> QED
  BY <1>4, <1>5 DEF UndoReload

\* The config is truncated; what it was is in the request's hands.
LEMMA UndoConfigShipped ==
    ASSUME Typed, Exact, Shipped, serial, NEW r \in Requests, UndoConfig(r)
    PROVE  Shipped'
<1> DEFINE q == [req[r] EXCEPT !.img = config, !.pc = "rewrite"]
           k == Undoing(r)
<1>1. req[r].pc = "undo" /\ req[r].undo # {} /\ entry[k].kind = "config"
      /\ UNCHANGED <<live, source, entry, done, undone, stuck, lifo>>
  BY DEF UndoConfig, AtUndo, At, book, history
<1>2. InHand(req[r], live, source, config, entry, done, undone, lifo, stuck)
      /\ Settled(live, source, config, entry, done, undone, lifo) /\ done \subseteq DOMAIN entry
  BY <1>1, ServedInHand
<1>3. config' = Torn /\ Become(r, q)
  BY <1>2 DEF UndoConfig, Settled
<1>4. q.pc = "rewrite" /\ q.undo = req[r].undo /\ q.op = req[r].op /\ q.cycle = req[r].cycle
      /\ q.img = config
  BY RequestFields DEF Request, Typed
<1>5. k = Least(req[r].undo)
  BY <1>1, UndoingInForce
<1> HIDE DEF q, k
<1>6. RollbackInHand(q, source', entry', done', undone', stuck')
  <2>1. \A i \in q.undo : i \notin undone
    BY <1>1, <1>2, <1>4 DEF InHand, RollbackInHand, Undos
  <2>2. q.op = "cycle" => \A i \in done' \ undone' :
           entry'[i].cycle = q.cycle => i \in q.undo \cup stuck'
    BY <1>1, <1>2, <1>4 DEF InHand, RollbackInHand, Undos
  <2> QED
    BY <1>1, <1>4, <1>5, <2>1, <2>2 DEF RollbackInHand
<1>7. InHand(q, live', source', config', entry', done', undone', lifo', stuck')
  BY <1>1, <1>2, <1>4, <1>6 DEF InHand, InjectionInHand, Settled, ModuleNow, ConfigNow
<1> QED
  BY <1>1, <1>2, <1>3, <1>4, <1>7, ShippedStep

LEMMA RewriteConfigShipped ==
    ASSUME Typed, Exact, Shipped, serial, NEW r \in Requests, RewriteConfig(r)
    PROVE  Shipped'
<1> DEFINE k == Undoing(r)
           f == done \ undone
<1>1. req[r].pc = "rewrite" /\ req[r].undo # {}
      /\ config' = [req[r].img EXCEPT ![entry[k].target] = entry[k].old]
      /\ Restored(k) /\ Goto(r, "mark") /\ UNCHANGED <<live, source, entry, done, stuck>>
  BY DEF RewriteConfig, At, Typed, InPlace, AtEntry, book
<1>2. InHand(req[r], live, source, config, entry, done, undone, lifo, stuck)
      /\ f \in SUBSET Nat /\ done \subseteq DOMAIN entry
  BY <1>1, ServedInHand
<1>3. k \in f /\ k = Least(req[r].undo) /\ entry[k] \in Entry
  BY <1>1, UndoingInForce
<1>4. entry[k].kind = "config"
  BY <1>1, <1>2, <1>3 DEF InHand, RollbackInHand
<1>5. req[r].img \in Image /\ entry[k].target \in Targets /\ entry[k].old \in Values \cup {Absent}
  BY <1>3, RequestFields DEF Typed, Entry
<1> HIDE DEF k
<1>6. config' # Torn
  <2>1. config' \in Image
    BY <1>1, <1>5 DEF Image
  <2> QED
    BY <2>1, ConstantsAssumption
<1>7. ASSUME lifo'
      PROVE  AllRight(live', source', config', entry, f \ {k})
  <2>1. lifo /\ Newest(k, f, entry)
    BY <1>1, <1>2, <1>3, <1>7, UndoneIsNewest
  <2>2. ModuleRight(live, entry, f) /\ SourceRight(source, entry, f) /\ ConfigRight(req[r].img, entry, f)
    BY <1>1, <1>2, <2>1 DEF InHand, ModuleNow, ConfigNow, AllRight
  <2>3. ConfigRight(config', entry, f \ {k})
    BY <1>1, <1>2, <1>3, <1>4, <1>5, <2>1, <2>2, ConfigUndone
  <2>4. SourceRight(source, entry, f \ {k}) /\ ModuleRight(live, entry, f \ {k})
    BY <1>4, <2>2, OthersUndone
  <2> QED
    BY <1>1, <2>3, <2>4 DEF AllRight
<1> USE DEF k
<1> QED
  BY <1>1, <1>6, <1>7, RestoredShipped

LEMMA MarkShipped ==
    ASSUME Typed, Exact, Shipped, serial, NEW r \in Requests, Mark(r) \/ SaveMark(r)
    PROVE  Shipped'
<1>1. UNCHANGED <<live, source, config, entry, done, undone, stuck, lifo>> /\ req[r].pc \in {"mark", "saved"}
      /\ req[r].undo # {}
  BY DEF Mark, SaveMark, At, Typed, InPlace, AtEntry, book, history
<1>2. CASE Mark(r)
  <2> DEFINE q == [req[r] EXCEPT !.mem[Undoing(r)] = "rolled_back", !.pc = "saved"]
  <2>1. q.pc = "saved" /\ q.undo = req[r].undo /\ q.op = req[r].op /\ q.cycle = req[r].cycle
        /\ Become(r, q) /\ req[r].pc = "mark"
    BY <1>2, RequestFields DEF Request, Typed, Mark, At
  <2> HIDE DEF q
  <2>2. InHand(req[r], live, source, config, entry, done, undone, lifo, stuck)
        /\ Settled(live, source, config, entry, done, undone, lifo) /\ done \subseteq DOMAIN entry
    BY <2>1, ServedInHand
  <2>3. RollbackInHand(q, source', entry', done', undone', stuck')
    BY <1>1, <2>1, <2>2 DEF InHand, RollbackInHand, Undos
  <2>4. InHand(q, live', source', config', entry', done', undone', lifo', stuck')
    BY <1>1, <2>1, <2>2, <2>3 DEF InHand, InjectionInHand, Settled, ModuleNow, ConfigNow
  <2> QED
    BY <1>1, <2>1, <2>2, <2>4, ShippedStep
<1>3. CASE SaveMark(r)
  BY <1>1, <1>3, LeaveShipped DEF SaveMark, At
<1> QED
  BY <1>2, <1>3

\* A request goes from its rollback on to its record only when its list is empty.
LEMMA PersistsWhenDone ==
    ASSUME Typed, Next, NEW r \in Requests, At(r, "undo"), req'[r].pc = "persist"
    PROVE  req[r].undo = {}
<1>1. req \in [Requests -> Request] /\ req[r].pc = "undo"
  BY DEF Typed, TypeOK, At
<1>2. ASSUME NEW s \in Requests, NEW q, Become(s, q), s # r PROVE FALSE
  BY <1>1, <1>2 DEF Become
<1>3. ASSUME NEW s \in Requests, NEW q, Become(s, q), req[s].pc = "idle" PROVE FALSE
  BY <1>1, <1>2, <1>3
<1>4. ASSUME NEW r0 \in Threads, NEW c \in Cycles,
             (\E b \in Batches \cup {<<>>} : StartCycle(r0, c, b)) \/ StartInject(r0, c)
      PROVE  FALSE
  BY <1>3, <1>4 DEF StartCycle, StartInject, Begin, At, Requests
<1>5. ASSUME NEW e, NEW ids, StartUndo(e, ids) PROVE FALSE
  BY <1>3, <1>5 DEF StartUndo, Begin, At, Requests
<1>6. CASE Crash
  BY <1>6 DEF Crash, Idle
<1>7. ASSUME NEW s \in Requests, Step(s) PROVE req[r].undo = {}
  <2>1. \E q : Become(s, q)
    BY <1>7 DEF Step, Override, Restore, Benchmark, Recommend, Open, Skip, ReadOriginal, SetRuntime, TruncateConfig,
       WriteConfig, Record, Save, PatchSource, Reload, EndBatch, SmokeTest, UndoRuntime, UndoSource,
       UndoReload, UndoConfig, RewriteConfig, Mark, SaveMark, EndUndo, TruncateRecord, Persist, Goto, Return, Leave
  <2>2. s = r
    BY <1>2, <2>1
  <2>3. UndoRuntime(r) \/ UndoSource(r) \/ UndoConfig(r) \/ EndUndo(r)
    BY <1>1, <1>7, <2>2 DEF Step, Override, Restore, Benchmark, Recommend, Open, Skip, ReadOriginal, SetRuntime,
       TruncateConfig, WriteConfig, Record, Save, PatchSource, Reload, EndBatch, SmokeTest,
       UndoReload, RewriteConfig, Mark, SaveMark, TruncateRecord, Persist, At
  <2>4. ASSUME NEW l, Goto(r, l) PROVE l = "persist"
    BY <1>1, <2>4 DEF Goto, Become, Request
  <2>5. ~UndoRuntime(r) /\ ~UndoSource(r)
    BY <2>4 DEF UndoRuntime, UndoSource
  <2>6. ASSUME NEW m, NEW l, NEW u,
               Become(r, [req[r] EXCEPT !.undo = u, !.pc = l])
                 \/ Become(r, [req[r] EXCEPT !.img = m, !.pc = l])
        PROVE  l = "persist"
    BY <1>1, <2>6 DEF Become, Request
  <2>7. ~UndoConfig(r)
    BY <2>6 DEF UndoConfig, Leave
  <2> QED
    BY <2>3, <2>5, <2>7 DEF EndUndo
<1> QED
  BY <1>4, <1>5, <1>6, <1>7 DEF Next, StartRollback, StartRollbackCycle

------------------------------------------------------------------------------
(* Requests begin, and the process starts again.                           *)

LEMMA BeginShipped ==
    ASSUME Typed, Exact, Shipped, NEW r \in Requests, NEW e, Begin(r, e), NEW q, Become(r, q),
           q.pc \in Calm \/ (q.pc = "validate" /\ q.held = {})
             \/ (q.pc = "undo" /\ q.op # "cycle" /\ q.undo \cap undone = {})
    PROVE  Shipped'
<1> SUFFICES ASSUME serial' PROVE Shipped'
  BY DEF Shipped
<1>1. UNCHANGED <<live, source, config, entry, done, undone, stuck, lifo>> /\ serial /\ AllIdle
  BY DEF Begin, files
<1>2. \A x \in Requests : req'[x] = IF x = r THEN q ELSE req[x]
  BY DEF Become, Typed, TypeOK
<1>3. Settled(live, source, config, entry, done, undone, lifo) /\ done \subseteq DOMAIN entry
  BY <1>1 DEF Shipped
<1>4. InHand(q, live, source, config, entry, done, undone, lifo, stuck)
  <2>1. live \in Image
    BY DEF Typed, TypeOK, FilesOK
  <2>2. q.held = {} => Unheld(q, live) = live
    BY <2>1 DEF Unheld, Image
  <2> QED
    BY <1>3, <2>2
       DEF Calm, InHand, InjectionInHand, RollbackInHand, Settled, ModuleNow, ConfigNow, Undos
<1>5. ~AllIdle'
  BY <1>2 DEF AllIdle, Calm
<1>6. \A x \in Requests : req'[x].pc # "idle" =>
         InHand(req'[x], live, source, config, entry, done, undone, lifo, stuck)
  BY <1>1, <1>2, <1>4 DEF AllIdle
<1> QED
  BY <1>1, <1>3, <1>5, <1>6 DEF Shipped

LEMMA StartsShipped ==
    ASSUME Typed, Exact, Shipped
    PROVE  /\ \A r \in Threads, c \in Cycles, b \in Batches \cup {<<>>} :
                StartCycle(r, c, b) => Shipped'
           /\ \A r \in Threads, c \in Cycles : StartInject(r, c) => Shipped'
           /\ \A i \in Ids : StartRollback(i) => Shipped'
           /\ \A c \in Cycles : StartRollbackCycle(c) => Shipped'
<1>1. ASSUME NEW r \in Threads, NEW c \in Cycles, NEW b \in Batches \cup {<<>>},
             StartCycle(r, c, b)
      PROVE  Shipped'
  <2> DEFINE q == [Idle EXCEPT !.op = "cycle", !.cycle = c, !.batch = b,
                       !.pc = IF b = <<>> THEN "persist" ELSE "validate"]
  <2>1. q.pc \in Calm \/ (q.pc = "validate" /\ q.held = {})
    BY DEF Idle, Calm
  <2>2. Begin(r, "cycle") /\ Become(r, q)
    BY <1>1 DEF StartCycle
  <2> HIDE DEF q
  <2> QED
    BY <2>1, <2>2, BeginShipped DEF Requests
<1>2. ASSUME NEW r \in Threads, NEW c \in Cycles, StartInject(r, c)
      PROVE  Shipped'
  <2> DEFINE q == [Idle EXCEPT !.op = "inject", !.cycle = c,
                       !.batch = cycle[c].proposals, !.pc = "open"]
  <2>1. q.pc \in Calm
    BY DEF Idle, Calm
  <2>2. Begin(r, "inject") /\ Become(r, q)
    BY <1>2 DEF StartInject
  <2> HIDE DEF q
  <2> QED
    BY <2>1, <2>2, BeginShipped DEF Requests
<1>3. ASSUME NEW e \in {"rollback", "rollback_cycle"}, NEW ids, StartUndo(e, ids),
             ids \subseteq DOMAIN entry, \A i \in ids : Load(disk)[i] = "applied"
      PROVE  Shipped'
  <2> SUFFICES ASSUME serial' PROVE Shipped'
    BY DEF Shipped
  <2> DEFINE q == [Idle EXCEPT !.op = e, !.undo = ids, !.mem = Load(disk), !.pc = "undo"]
  <2>1. q.pc = "undo" /\ q.op # "cycle" /\ q.undo = ids
    BY DEF Idle
  <2>2. Begin(EventLoop, e) /\ Become(EventLoop, q)
    BY <1>3 DEF StartUndo
  <2> HIDE DEF q
  <2>3. Kept(disk, entry, undone)
    BY <2>2 DEF Begin, Exact
  <2>4. Load(disk) = disk /\ DOMAIN entry \subseteq Ids
    BY <2>3, EntryFacts DEF Load, Kept, Typed
  <2>5. q.undo \cap undone = {}
    BY <1>3, <2>1, <2>3, <2>4 DEF Kept, Agrees, Status
  <2> QED
    BY <2>1, <2>2, <2>5, BeginShipped DEF Requests
<1>4. ASSUME NEW i \in Ids, StartRollback(i) PROVE Shipped'
  <2> DEFINE ids == {j \in {i} \cap DOMAIN entry : Load(disk)[j] = "applied"}
  <2>1. StartUndo("rollback", ids) /\ ids \subseteq DOMAIN entry
        /\ \A j \in ids : Load(disk)[j] = "applied"
    BY <1>4 DEF StartRollback
  <2> HIDE DEF ids
  <2> QED
    BY <1>3, <2>1
<1>5. ASSUME NEW c \in Cycles, StartRollbackCycle(c) PROVE Shipped'
  <2> DEFINE ids == ActiveByCycle(Load(disk), c)
  <2>1. StartUndo("rollback_cycle", ids) /\ ids \subseteq DOMAIN entry
        /\ \A j \in ids : Load(disk)[j] = "applied"
    BY <1>5 DEF StartRollbackCycle, ActiveByCycle
  <2> HIDE DEF ids
  <2> QED
    BY <1>3, <2>1
<1> QED
  BY <1>1, <1>2, <1>4, <1>5

LEMMA CrashShipped == ASSUME Typed, Shipped, Crash PROVE Shipped'
<1> SUFFICES ASSUME serial' PROVE Shipped'
  BY DEF Shipped
<1>1. UNCHANGED <<source, config, entry, done, undone, stuck, lifo>> /\ serial /\ AllIdle
      /\ live' = source
  BY DEF Crash, book
<1>2. \A x \in Requests : req'[x].pc = "idle"
  BY DEF Crash, Idle
<1>3. Settled(live, source, config, entry, done, undone, lifo) /\ done \subseteq DOMAIN entry
  BY <1>1 DEF Shipped
<1>4. Settled(source, source, config, entry, done, undone, lifo)
  BY <1>3, Imported DEF Settled, AllRight
<1> QED
  BY <1>1, <1>2, <1>3, <1>4 DEF Shipped

LEMMA InitShipped == Init => Shipped
<1> SUFFICES ASSUME Init PROVE Shipped
  OBVIOUS
<1>1. \A r \in Requests : req[r].pc = "idle"
  BY DEF Init, Idle
<1>2. done = {} /\ undone = {} /\ live = Initial /\ source = Initial /\ config = NoConfig
  BY DEF Init
<1>3. config \in Image /\ config # Torn
  <2>1. NoConfig \in Image
    BY DEF NoConfig, Image
  <2> QED
    BY <1>2, <2>1, ConstantsAssumption
<1>4. AllRight(live, source, config, entry, {})
  BY <1>2 DEF AllRight, ModuleRight, SourceRight, ConfigRight, NoConfig
<1>5. done \ undone = {} /\ done \subseteq DOMAIN entry
  BY <1>2
<1> QED
  BY <1>1, <1>3, <1>4, <1>5 DEF Shipped, Settled

LEMMA NextShipped == Typed /\ Exact /\ Shipped /\ [Next]_vars => Shipped'
<1> SUFFICES ASSUME Typed, Exact, Shipped, [Next]_vars PROVE Shipped'
  OBVIOUS
<1>1. CASE UNCHANGED vars
  BY <1>1 DEF vars, files, book, history, Shipped, AllIdle
<1>2. ASSUME NEW r \in Requests, Step(r) PROVE Shipped'
  <2> SUFFICES ASSUME serial' PROVE Shipped'
    BY DEF Shipped
  <2>1. serial
    BY <1>2 DEF Step, Override, Restore, Benchmark, Recommend, Open, Skip, ReadOriginal, SetRuntime, TruncateConfig,
       WriteConfig, Record, Save, PatchSource, Reload, EndBatch, SmokeTest, UndoRuntime, UndoSource,
       UndoReload, UndoConfig, RewriteConfig, Mark, SaveMark, EndUndo, TruncateRecord, Persist, history
  <2>2. CASE \/ (\E t \in Tuned : Override(r, t) \/ Restore(r, t)) \/ Benchmark(r)
             \/ (\E v \in Outcomes \ {"no_proposals"} : Recommend(r, v))
             \/ ReadOriginal(r) \/ SetRuntime(r) \/ TruncateConfig(r) \/ WriteConfig(r)
    BY <2>1, <2>2, SandboxShipped, VerdictShipped, ReadOriginalShipped, WritesShipped
  <2>3. CASE Open(r) \/ Skip(r) \/ EndBatch(r) \/ EndUndo(r) \/ TruncateRecord(r) \/ Persist(r)
    BY <2>1, <2>3, CalmShipped
  <2>4. CASE Record(r) \/ Save(r) \/ PatchSource(r) \/ Reload(r) \/ SmokeTest(r)
    BY <2>1, <2>4, RecordShipped, SaveShipped, PatchSourceShipped, ReloadShipped, SmokeTestShipped
  <2>5. CASE UndoRuntime(r) \/ UndoSource(r) \/ UndoReload(r) \/ UndoConfig(r)
             \/ RewriteConfig(r) \/ Mark(r) \/ SaveMark(r)
    BY <2>1, <2>5, UndoRuntimeShipped, UndoSourceShipped, UndoReloadShipped, UndoConfigShipped,
       RewriteConfigShipped, MarkShipped
  <2> QED
    BY <1>2, <2>2, <2>3, <2>4, <2>5 DEF Step
<1> QED
  BY <1>1, <1>2, StartsShipped, CrashShipped DEF Next

LEMMA ShippedAlways == Spec => [](Typed /\ Exact /\ Shipped)
<1>1. Init => Exact /\ Shipped
  BY InitExact, InitShipped
<1>2. (Typed /\ Exact /\ Shipped) /\ [Next]_vars => (Typed /\ Exact /\ Shipped)'
  BY NextTyped, NextExact, NextShipped
<1> QED
  BY <1>1, <1>2, InitTyped, PTL DEF Spec

\* As long as requests came one at a time, none was cut short and each rollback
\* took the newest injection of its target, the process, its source and its
\* config are as shipped once nothing is in force (code_injector.py rollback).
THEOREM NothingInForceAsShippedAlways == Spec => []NothingInForceAsShipped
<1>1. Typed /\ Exact /\ Shipped => NothingInForceAsShipped
  <2> SUFFICES ASSUME Typed, Shipped, serial, lifo, AllIdle, done \subseteq undone
               PROVE  live = Initial /\ source = Initial /\ config = NoConfig
    BY DEF NothingInForceAsShipped
  <2>1. config # Torn /\ AllRight(live, source, config, entry, done \ undone)
    BY DEF Shipped, Settled
  <2>2. AllRight(live, source, config, entry, {})
    <3>1. done \ undone = {}
      OBVIOUS
    <3> QED
      BY <2>1, <3>1
  <2>3. /\ source = Initial
        /\ \A t \in Targets : live[t] = Initial[t] /\ config[t] = Absent
    BY <2>2 DEF AllRight, ModuleRight, SourceRight, ConfigRight, OfKind, OnTarget
  <2>4. live \in Image /\ config \in Image /\ Initial \in Image
    BY <2>1, ConstantsAssumption DEF Typed, TypeOK, FilesOK
  <2> QED
    BY <2>3, <2>4 DEF Image, NoConfig
<1> QED
  BY <1>1, ShippedAlways, PTL

\* When the automatic rollback of a cycle that failed its smoke test ends,
\* nothing the cycle injected is in force but patches that would not reload
\* (self_improve.py _try_auto_inject).
THEOREM SmokeFailureUndoneAlways == Spec => SmokeFailureUndone
<1>1. Typed /\ Exact /\ Shipped /\ [Next]_vars =>
         [\A r \in Threads :
             serial /\ At(r, "undo") /\ req[r].op = "cycle" /\ req'[r].pc = "persist" =>
                 \A i \in done \ undone :
                     entry[i].cycle = req[r].cycle => i \in stuck]_vars
  <2> SUFFICES ASSUME Typed, Exact, Shipped, Next, NEW r \in Threads, serial, At(r, "undo"),
                      req[r].op = "cycle", req'[r].pc = "persist",
                      NEW i \in done \ undone, entry[i].cycle = req[r].cycle,
                      i \notin stuck
               PROVE  FALSE
    BY ZenonT(60)
  <2>1. i \in req[r].undo
    BY ServedInHand DEF At, InHand, RollbackInHand, Undos, Requests
  <2>2. req[r].undo = {}
    BY PersistsWhenDone DEF Requests
  <2> QED
    BY <2>1, <2>2
<1> QED
  BY <1>1, ShippedAlways, PTL DEF Spec, SmokeFailureUndone
=============================================================================
