---------------------------- MODULE Orchestration ----------------------------
(***************************************************************************)
(* One prompt on its way through Maestro (maestro/orchestrator.py,         *)
(* deliberation.py): all agents are asked, those that answered deliberate  *)
(* for some rounds, the answers are aggregated, the session is saved and   *)
(* scored.  Agents are asked concurrently: an action is what one task of   *)
(* the event loop does between two awaits.                                 *)
(*                                                                         *)
(* Abstractions.  A text is a failure if _ERROR_PATTERN takes it for one,  *)
(* and an answer if not: the strings ShardAgent returns for an empty or    *)
(* broken pipeline, which the pattern misses, are answers, as in the code. *)
(* Agents return strings, as agents/base.py asks of them: what happens to  *)
(* a null content (agents/sol.py:47), on which _is_agent_error raises, is  *)
(* left out.  How far texts are apart is part of the request, as is its    *)
(* endpoint: /api/ask gathers, /api/ask/stream takes answers as they come. *)
(* rounds = 0 is deliberation switched off.  Plugins observe and change    *)
(* nothing; NCG, R2's score and the events of the stream are left out.     *)
(***************************************************************************)
EXTENDS Aggregation, FiniteSets, FiniteSetsExt

CONSTANTS
    Agents,      \* the council
    Listing,     \* the order in which the request lists them
    Answers,     \* texts an agent can answer with
    Failed,      \* an error string that _ERROR_PATTERN matches
    NoText,      \* no text
    Metrics,     \* distances there can be between texts, in hundredths, the same both ways
    MaxRounds    \* bound: rounds a request asks for

Texts == Answers \cup {Failed}
Endpoints == {"ask", "stream"}
Request == [endpoint : Endpoints, rounds : 0 .. MaxRounds, metric : Metrics]
Phases == {"asking", "deliberating", "aggregating", "saving", "scoring", "answered"}

ASSUME OrchestrationAssumption ==
    /\ Listing \in Seq(Agents) /\ ToSet(Listing) = Agents /\ Agents # {}
    /\ Failed \notin Answers /\ NoText \notin Texts
    /\ Metrics \subseteq [Texts -> [Texts -> 0 .. 100]]
    /\ \A metric \in Metrics : \A t, u \in Texts : metric[t][u] = metric[u][t]
    /\ MaxRounds \in Nat

VARIABLES
    request,    \* what is asked for; never changes
    phase,
    answers,    \* named_responses; current_responses while deliberating
    order,      \* the order of its keys
    errors,     \* agent_errors, the names in it
    members,    \* clean_names
    round,      \* rounds_completed
    shown,      \* what the prompt of each agent shows, in this round
    reply,      \* results of the tasks of this round
    session, r2 \* is the session saved, is it scored

vars == <<request, phase, answers, order, errors, members, round, shown, reply,
          session, r2>>

Blank == [a \in Agents |-> NoText]

Several(agents) == \E a, b \in agents : a # b
Asked(a) == shown[a] # Blank

------------------------------------------------------------------------------
(* The first answers.                                                      *)

\* Slip (what a bug would do; no action uses it): a failure that is returned
\* rather than raised is not listed.
AnswerFirstUnlisted(a, text) ==
    /\ phase = "asking" /\ answers[a] = NoText
    /\ answers' = [answers EXCEPT ![a] = text]
    /\ order' = Append(order, a)
    /\ UNCHANGED <<request, phase, errors, members, round, shown, reply, session, r2>>

\* An agent returns, or raises: then its text is "[name] Failed".
AnswerFirst(a, text) ==
    /\ phase = "asking" /\ answers[a] = NoText
    /\ answers' = [answers EXCEPT ![a] = text]
    /\ order' = Append(order, a)
    /\ errors' = IF text = Failed THEN errors \cup {a} ELSE errors
    /\ UNCHANGED <<request, phase, members, round, shown, reply, session, r2>>

\* Slip: one agent alone deliberates.
CollectAlone ==
    /\ phase = "asking" /\ \A a \in Agents : answers[a] # NoText
    /\ order' = IF request.endpoint = "ask" THEN Listing ELSE order
    /\ members' = {a \in Agents : answers[a] # Failed}
    /\ phase' = IF request.rounds > 0 THEN "deliberating" ELSE "aggregating"
    /\ UNCHANGED <<request, answers, errors, round, shown, reply, session, r2>>

\* All tasks are through.  Whoever gave an answer deliberates, if two or more
\* did; gather, unlike the stream, lists the answers in the order of the
\* agents.
Collect ==
    /\ phase = "asking" /\ \A a \in Agents : answers[a] # NoText
    /\ order' = IF request.endpoint = "ask" THEN Listing ELSE order
    /\ members' = {a \in Agents : answers[a] # Failed}
    /\ phase' = IF request.rounds > 0 /\ Several(members') THEN "deliberating" ELSE "aggregating"
    /\ UNCHANGED <<request, answers, errors, round, shown, reply, session, r2>>

------------------------------------------------------------------------------
(* Deliberation.                                                           *)

\* Slip: replies of this round are shown as soon as they are there.
BoardEarly(a) == [b \in Agents |->
    IF b = a THEN answers[b]
    ELSE IF b \notin members \/ answers[b] = Failed THEN NoText
    ELSE IF reply[b] \in Answers THEN reply[b] ELSE answers[b]]

\* What the prompt of an agent shows: its own text, and the answers of those
\* members that did not fail in the last round.
Board(a) == [b \in Agents |->
    IF b = a THEN answers[b]
    ELSE IF b \in members /\ answers[b] # Failed THEN answers[b] ELSE NoText]

\* _deliberate_one, up to its await.
Ask(a) ==
    /\ phase = "deliberating" /\ a \in members /\ ~Asked(a)
    /\ shown' = [shown EXCEPT ![a] = Board(a)]
    /\ UNCHANGED <<request, phase, answers, order, errors, members, round, reply,
                   session, r2>>

\* Its result: a text, an error string among them.
AnswerAgain(a, text) ==
    /\ phase = "deliberating" /\ Asked(a) /\ reply[a] = NoText
    /\ reply' = [reply EXCEPT ![a] = text]
    /\ UNCHANGED <<request, phase, answers, order, errors, members, round, shown,
                   session, r2>>

\* fetch raises: the agent keeps what it said.
RaiseAgain(a) == AnswerAgain(a, shown[a][a])

\* Slip: the round waits for agents that nobody asked.
EndRoundAll ==
    /\ phase = "deliberating" /\ \A a \in Agents : reply[a] # NoText
    /\ answers' = reply
    /\ round' = round + 1
    /\ shown' = [a \in Agents |-> Blank]
    /\ reply' = Blank
    /\ phase' = IF round' = request.rounds THEN "aggregating" ELSE "deliberating"
    /\ UNCHANGED <<request, order, errors, members, session, r2>>

\* Slip: one round too many.
EndRoundLate ==
    /\ phase = "deliberating" /\ \A a \in members : reply[a] # NoText
    /\ answers' = [a \in Agents |-> IF a \in members THEN reply[a] ELSE answers[a]]
    /\ round' = round + 1
    /\ shown' = [a \in Agents |-> Blank]
    /\ reply' = Blank
    /\ phase' = IF round' > request.rounds THEN "aggregating" ELSE "deliberating"
    /\ UNCHANGED <<request, order, errors, members, session, r2>>

\* gather returns: all replies are taken over at once.
EndRound ==
    /\ phase = "deliberating" /\ \A a \in members : reply[a] # NoText
    /\ answers' = [a \in Agents |-> IF a \in members THEN reply[a] ELSE answers[a]]
    /\ round' = round + 1
    /\ shown' = [a \in Agents |-> Blank]
    /\ reply' = Blank
    /\ phase' = IF round' = request.rounds THEN "aggregating" ELSE "deliberating"
    /\ UNCHANGED <<request, order, errors, members, session, r2>>

------------------------------------------------------------------------------
(* From the answers to the reply.                                          *)

\* Failures do not count, unless there is nothing else.
Counted(sequence) ==
    LET clean == Keep(sequence, {a \in Agents : answers[a] # Failed})
    IN IF clean = <<>> THEN sequence ELSE clean

\* DissentAnalyzer.analyze: the distances between agents.
Distances == [a \in Agents |-> [b \in Agents |-> request.metric[answers[a]][answers[b]]]]

\* Slip: names in the order of the request, answers in that of the dictionary.
VerdictByListing ==
    LET names == Counted(order)
        listed == Keep(Listing, ToSet(names))
    IN Aggregate(listed, [i \in DOMAIN names |-> answers[names[i]]], Distances)

\* What is reported of the quorum, from the moment of its aggregation on: the
\* answers stand by then.
Verdict ==
    LET names == Counted(order)
    IN Aggregate(names, [i \in DOMAIN names |-> answers[names[i]]], Distances)

AggregateAnswers ==
    /\ phase = "aggregating"
    /\ phase' = "saving"
    /\ UNCHANGED <<request, answers, order, errors, members, round, shown, reply, session, r2>>

\* Saving the session and scoring it may fail; the request goes on.
SaveSession(saved) ==
    /\ phase = "saving"
    /\ session' = saved
    /\ phase' = "scoring"
    /\ UNCHANGED <<request, answers, order, errors, members, round, shown, reply, r2>>

Score(scored) ==
    /\ phase = "scoring"
    /\ r2' = scored
    /\ phase' = "answered"
    /\ UNCHANGED <<request, answers, order, errors, members, round, shown, reply,
                   session>>

Init ==
    /\ request \in Request
    /\ phase = "asking"
    /\ answers = Blank /\ order = <<>> /\ errors = {} /\ members = {}
    /\ round = 0
    /\ shown = [a \in Agents |-> Blank] /\ reply = Blank
    /\ session = FALSE /\ r2 = FALSE

First(a) == \E text \in Texts : AnswerFirst(a, text)
Again(a) == RaiseAgain(a) \/ \E text \in Texts : AnswerAgain(a, text)
Finish == AggregateAnswers \/ \E ok \in BOOLEAN : SaveSession(ok) \/ Score(ok)

Next ==
    \/ \E a \in Agents : First(a) \/ Ask(a) \/ Again(a)
    \/ Collect \/ EndRound \/ Finish

Spec == Init /\ [][Next]_vars

\* Every call to an agent ends, by its time limit if nothing else, and the
\* event loop runs what is ready.
Fairness ==
    /\ \A a \in Agents : WF_vars(First(a)) /\ WF_vars(Ask(a)) /\ WF_vars(Again(a))
    /\ WF_vars(Collect) /\ WF_vars(EndRound) /\ WF_vars(Finish)

FairSpec == Spec /\ Fairness

------------------------------------------------------------------------------
\* Every variable has its type; no more rounds are held than asked for.
TypeOK ==
    /\ request \in Request /\ phase \in Phases
    /\ answers \in [Agents -> Texts \cup {NoText}]
    /\ order \in Seq(Agents)
    /\ errors \subseteq Agents /\ members \subseteq Agents
    /\ round \in 0 .. request.rounds
    /\ shown \in [Agents -> [Agents -> Texts \cup {NoText}]]
    /\ reply \in [Agents -> Texts \cup {NoText}]
    /\ session \in BOOLEAN /\ r2 \in BOOLEAN

\* However their tasks interleave, agents asked in one round are shown the same
\* text of every third one, of each other what the other was shown as its own,
\* and never the failure of a peer (deliberation.md:129 "failed agents don't
\* inject noise").
FairBoard ==
    \A a, b \in Agents : Asked(a) /\ Asked(b) /\ a # b =>
        /\ \A c \in Agents \ {a, b} : shown[a][c] = shown[b][c]
        /\ shown[a][b] = IF shown[b][b] = Failed THEN NoText ELSE shown[b][b]

\* Once all have been asked, an agent is either listed with an error, and then
\* its failure stands to the end and nobody asks it or is shown anything of
\* it, or it is a member (agent_errors and the answers tell one story).
FailedStayOut ==
    phase # "asking" =>
        /\ errors \cap members = {} /\ errors \cup members = Agents
        /\ \A a \in errors :
              answers[a] = Failed /\ ~Asked(a) /\ \A b \in Agents : shown[b][a] = NoText

\* Every view reported is the answer of the agent it is attributed to, by
\* position, whatever order the answers came in and whoever failed; and no
\* failure counts beside an answer (orchestrator.py:190 "so errored agents don't
\* pollute ... aggregation scores").
ViewsOwned ==
    phase = "answered" =>
        /\ Verdict.majority_view = answers[Head(Verdict.cluster)]
        /\ Verdict.minority_views =
              {answers[a] : a \in Verdict.counted \ ToSet(Verdict.cluster)}
        /\ \A a, b \in Agents :
              a \in Verdict.counted /\ answers[a] = Failed => answers[b] = Failed

\* The members of the majority are at a mean pairwise distance below the
\* threshold, though each was only held against those that had joined before
\* (quorum_logic.md:36 "members have mean pairwise distance below 0.5").
MeanLinkage ==
    phase = "answered" =>
        LET c == Verdict.cluster
            pairs == {p \in (DOMAIN c) \X (DOMAIN c) : p[1] < p[2]}
        IN Len(c) > 1 => SumFunction([p \in pairs |-> Distances[c[p[1]]][c[p[2]]]])
                           < SimilarityThreshold * Cardinality(pairs)

\* Whatever agents raise, whatever strings they return, and whether or not the
\* session can be saved and scored, the request is answered (architecture.md:39
\* "the pipeline always continues").
Answered == <>(phase = "answered")

Deliberation == INSTANCE Council WITH
    stage <- CASE phase = "asking" -> "asking"
               [] phase \in {"deliberating", "aggregating"} -> "council"
               [] OTHER -> "closed",
    answers <- IF phase = "asking" THEN Blank ELSE answers,
    rounds <- request.rounds

\* The interleaved tasks of the pipeline amount to rounds in which all members
\* reconsider at once, held as often as asked for if there are two or more
\* (deliberation.md: "Each round uses the previous round's outputs as input").
ImplementsCouncil == Deliberation!Spec
==============================================================================
