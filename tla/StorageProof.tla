---------------------------- MODULE StorageProof ----------------------------
(***************************************************************************)
(* Challenges and reputation of weight hosts (maestro/storage_proof.py,    *)
(* api_storage.py): a challenge waits in memory until its answer is        *)
(* validated; every answer and every contribution score of R2 changes the  *)
(* host's reputation, and is saved.                                        *)
(*                                                                         *)
(* Abstractions.  An answer passes, fails or comes too late, whatever the  *)
(* kind of its challenge.  It names the node it is from, and nothing       *)
(* compares that with the node that was asked.  Scores are integers in     *)
(* ten-thousandths, as the code rounds them; halves are rounded up.        *)
(***************************************************************************)
EXTENDS Integers, FiniteSets, Sequences, Functions

CONSTANTS
    Hosts,          \* node ids
    Challenges,     \* challenge ids
    Grades,         \* contribution scores of R2, in percent
    Window,         \* how many contributions count (20)
    MaxIssued,      \* bound: challenges of one host
    MaxGrades,      \* bound: contributions of one host
    MaxRestarts     \* bound: restarts of the orchestrator

StorageProofAssumption ==
    /\ IsFiniteSet(Hosts) /\ IsFiniteSet(Challenges)
    /\ Grades \subseteq 0 .. 100
    /\ Window \in Nat \ {0} /\ MaxIssued \in Nat /\ MaxGrades \in Nat /\ MaxRestarts \in Nat

VARIABLES
    pending,     \* _pending_challenges: the host each was issued to
    reputation,  \* _reputations
    saved,       \* reputations.json
    strays,      \* history: the answers a host is credited with though another was
                 \* asked, less those that others are credited with in its place
    restarts

vars == <<pending, reputation, saved, strays, restarts>>

EvictionThreshold == 3000
ProbationThreshold == 7000

\* NodeReputation
Fresh == [issued |-> 0, passed |-> 0, failed |-> 0, grades |-> <<>>,
          score |-> 10000, status |-> "trusted"]

\* get_reputation
ReputationOf(h) == IF h \in DOMAIN reputation THEN reputation[h] ELSE Fresh

SumOf(s) == SumFunction(s)
Recent(s) == SubSeq(s, IF Len(s) > Window THEN Len(s) - Window + 1 ELSE 1, Len(s))

\* Slip: contributions are added up.
WeightOfSum(grades) == IF grades = <<>> THEN 2 ELSE 100

\* What the sum of the contributions is divided by; a host that has none is
\* given one half.
Weight(grades) == IF grades = <<>> THEN 2 ELSE 100 * Len(grades)

\* 0.7 of the pass rate and 0.3 of the mean contribution.
Score(rep) ==
    LET answered == rep.passed + rep.failed
        grades == Recent(rep.grades)
        n == IF answered = 0 THEN 1 ELSE answered
        rate == IF answered = 0 THEN 1 ELSE rep.passed
        m == Weight(grades)
        mean == IF grades = <<>> THEN 1 ELSE SumOf(grades)
    IN (2 * (7000 * rate * m + 3000 * mean * n) + n * m) \div (2 * n * m)

\* Slip: whoever was on probation stays there.
StatusKept(score, status) ==
    IF score < EvictionThreshold THEN "evicted"
    ELSE IF score < ProbationThreshold THEN "probation"
    ELSE status

Status(score, status) ==
    IF score < EvictionThreshold THEN "evicted"
    ELSE IF score < ProbationThreshold THEN "probation"
    ELSE IF status = "probation" THEN "trusted"
    ELSE status

\* _update_reputation_score
Scored(rep) == [rep EXCEPT !.score = Score(rep), !.status = Status(Score(rep), rep.status)]

\* The reputations are changed and saved as a whole.
Change(h, rep) ==
    /\ reputation' = [g \in DOMAIN reputation \cup {h} |-> IF g = h THEN Scored(rep) ELSE reputation[g]]
    /\ saved' = reputation'

------------------------------------------------------------------------------

\* issue_challenge: kept in memory only, and so is the count.
Issue(h, c) ==
    /\ c \notin DOMAIN pending /\ ReputationOf(h).issued < MaxIssued
    /\ pending' = [d \in DOMAIN pending \cup {c} |-> IF d = c THEN h ELSE pending[d]]
    /\ reputation' = [g \in DOMAIN reputation \cup {h} |->
                          IF g = h THEN [ReputationOf(h) EXCEPT !.issued = @ + 1] ELSE reputation[g]]
    /\ UNCHANGED <<saved, strays, restarts>>

Answered(c) == Restrict(pending, DOMAIN pending \ {c})

\* validate_response: what answers challenge c is from h, or says so.  An
\* answer to a challenge that is not pending is refused and changes nothing.
Validate(c, h, passes) ==
    /\ c \in DOMAIN pending
    /\ pending' = Answered(c)
    /\ LET rep == ReputationOf(h) IN
       Change(h, IF passes THEN [rep EXCEPT !.passed = @ + 1] ELSE [rep EXCEPT !.failed = @ + 1])
    /\ strays' = [g \in Hosts |-> strays[g] + (IF g = h THEN 1 ELSE 0)
                                           - (IF g = pending[c] THEN 1 ELSE 0)]
    /\ UNCHANGED restarts

\* evict_if_necessary: the status already says so; what it does is to save.
Evict(h) ==
    /\ h \in DOMAIN reputation /\ reputation[h].score < EvictionThreshold
    /\ reputation' = [reputation EXCEPT ![h].status = "evicted"]
    /\ saved' = reputation'
    /\ UNCHANGED <<pending, strays, restarts>>

\* add_r2_contribution
AddContribution(h, grade) ==
    /\ Len(ReputationOf(h).grades) < MaxGrades
    /\ Change(h, [ReputationOf(h) EXCEPT !.grades = Append(@, grade)])
    /\ UNCHANGED <<pending, strays, restarts>>

\* The process ends, perhaps while it saves; a file it cannot read is no
\* reputation at all.
Restart(torn) ==
    /\ restarts < MaxRestarts /\ restarts' = restarts + 1
    /\ pending' = [c \in {} |-> c]
    /\ saved' = IF torn THEN [h \in {} |-> Fresh] ELSE saved
    /\ strays' = IF torn THEN [h \in Hosts |-> 0] ELSE strays
    /\ reputation' = saved'

Init ==
    /\ pending = [c \in {} |-> c]
    /\ reputation = [h \in {} |-> Fresh] /\ saved = reputation
    /\ strays = [h \in Hosts |-> 0] /\ restarts = 0

Next ==
    \/ \E h \in Hosts, c \in Challenges : Issue(h, c)
    \/ \E c \in DOMAIN pending, h \in Hosts, passes \in BOOLEAN : Validate(c, h, passes)
    \/ \E h \in Hosts : Evict(h)
    \/ \E h \in Hosts, grade \in Grades : AddContribution(h, grade)
    \/ \E torn \in BOOLEAN : Restart(torn)

Spec == Init /\ [][Next]_vars

------------------------------------------------------------------------------
(* Properties                                                              *)

Statuses == {"trusted", "probation", "evicted"}
Scores == 0 .. 10000
Reputations == [issued : Nat, passed : Nat, failed : Nat, grades : Seq(Grades),
                score : Scores, status : Statuses]

IsReputations(r) ==
    /\ DOMAIN r \subseteq Hosts
    /\ \A h \in DOMAIN r : r[h] \in Reputations /\ Len(r[h].grades) <= MaxGrades

TypeOK ==
    /\ DOMAIN pending \subseteq Challenges /\ \A c \in DOMAIN pending : pending[c] \in Hosts
    /\ IsReputations(reputation) /\ IsReputations(saved)
    /\ strays \in [Hosts -> Int] /\ restarts \in 0 .. MaxRestarts

\* The status is changed by rules that look at the status before it: in every
\* order of answers and contributions it still says what the score says, so an
\* evicted host comes back only by way of probation and nobody is trusted with
\* a score below the threshold.
StatusTruthful ==
    \A h \in DOMAIN reputation :
        LET rep == reputation[h] IN
        /\ rep.status = "evicted" <=> rep.score < EvictionThreshold
        /\ rep.status = "trusted" <=> rep.score >= ProbationThreshold

\* Across restarts, which forget what is pending and what was not saved: no
\* answer counts twice and none counts that was not asked for.  A host may be
\* credited with the answer to a challenge of another, one for one; the code
\* does not keep it to its own.
AnswersAccounted ==
    \A h \in DOMAIN reputation :
        reputation[h].passed + reputation[h].failed
            + Cardinality({c \in DOMAIN pending : pending[c] = h}) <= reputation[h].issued + strays[h]

\* What a host is trusted with is what the answers in its name have earned it.
ReputationEarned == StatusTruthful /\ AnswersAccounted
=============================================================================
