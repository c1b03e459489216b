------------------------------- MODULE Debate -------------------------------
(***************************************************************************)
(* The weighted multi-round debate (debate/debate.cpp, DebateEngine::run): *)
(* participants are resolved to loaded backends and given a session each,  *)
(* draft in parallel, one thread per backend, then criticise each other    *)
(* for a number of rounds.  Who takes part in a round follows from its     *)
(* multiplier; the others' answers are carried forward.  The winner of the *)
(* last round may be rewritten by an aggregator.  The user can cancel at   *)
(* any moment.                                                             *)
(*                                                                         *)
(* An answer is its author, which of the author's drafts it is, the        *)
(* agreement cluster it falls in and its score.  Agreement, judges and     *)
(* fluency together may give any score of Scores; std::sort is not stable, *)
(* so equal scores come in any order and "the first" is any of the best.   *)
(***************************************************************************)
EXTENDS Integers, FiniteSetsExt

CONSTANTS
    N,              \* participants of the configuration, numbered in its order
    Backends,       \* the runtimes they are bound to
    BackendOf,      \* participant -> backend_id
    Multiplier,     \* participant -> multiplier, after normalise()
    DraftCap,       \* participant -> draft_cap, after normalise()
    Weight,         \* participant -> vote_weight, after normalise()
    Cost,           \* participant -> cost_rank in tenths
    CanSynthesise,  \* participants that may write the final answer
    Rounds,         \* cfg.rounds, after normalise()
    Ideas,          \* agreement clusters
    Scores,         \* combined scores
    PeerFloor, SynthesisFloor,   \* kPeerFloor, kSynthesisFloor, per cent
    EscalateMargin,              \* escalate_margin, per cent
    Cascade, Synthesise          \* cfg.cascade, cfg.synthesise

Participants == 1..N

ASSUME DebateAssumption ==
    /\ N \in Nat
    /\ BackendOf \in [Participants -> Backends]
    /\ Multiplier \in [Participants -> 1..8]
    /\ DraftCap \in [Participants -> Nat \ {0}]
    /\ Weight \in [Participants -> Nat \ {0}]
    /\ Cost \in [Participants -> Nat]
    /\ CanSynthesise \subseteq Participants
    /\ Rounds \in 1..6
    /\ Scores \subseteq Nat
    /\ PeerFloor \in 0..100 /\ SynthesisFloor \in 0..100
    /\ EscalateMargin \in Nat
    /\ Cascade \in BOOLEAN /\ Synthesise \in BOOLEAN

None == 0           \* no participant

VARIABLES
    pc,         \* where run() is
    actors,     \* participants with a usable backend
    slots,      \* actors whose session is open
    todo,       \* actors the round in progress still has to hear
    active,     \* actors that engage in it
    round,      \* the answers collected for it
    r,          \* its index
    last,       \* the answers of tr.rounds.back()
    turns,      \* history: in how many critique rounds each actor engaged
    expensive,  \* used_expensive of the round in progress
    cancel,     \* the caller's flag
    tr          \* what the transcript reports

vars == <<pc, actors, slots, todo, active, round, r, last, turns, expensive,
          cancel, tr>>

-----------------------------------------------------------------------------
(* Answers.                                                                *)

Answer == [who : Participants, draft : Nat, idea : Ideas, score : Scores \cup {0}]

Transcript == [error : BOOLEAN, cancelled : BOOLEAN, escalated : BOOLEAN,
               winner : Participants \cup {None},
               aggregator : Participants \cup {None},
               synthesised : BOOLEAN]

Authors(A) == {x.who : x \in A}
AnswersOf(A, p) == {x \in A : x.who = p}
BestOf(A) == {x \in A : \A y \in A : y.score <= x.score}

\* score >= floor% of the other's.
Within(floor, x, y) == 100 * x.score >= floor * y.score

\* What a participant is shown: the others' answers, unless far below the best.
Peers(p) == {x \in last : /\ x.who # p
                          /\ \A y \in BestOf(last) : Within(PeerFloor, x, y)}

Mass(A) == MapThenSumSet(LAMBDA x : Weight[x.who], A)
Cluster(i) == {x \in last : x.idea = i}

\* cluster_margin(mass) >= escalate_margin.
Agreed ==
    LET used == {x.idea : x \in last}
    IN  \/ Cardinality(used) < 2
        \/ \E i \in used : \A j \in used \ {i} :
              100 * (Mass(Cluster(i)) - Mass(Cluster(j))) >= EscalateMargin * Mass(last)

IsExpensive(p) == Cost[p] > 5

Drafts(p) == 0..(IF DraftCap[p] < Multiplier[p] THEN DraftCap[p] ELSE Multiplier[p]) - 1

\* Mutant: one boundary too far.
MutEngages(i, n, m) == m >= n \/ ((i + 1) * m) \div (n + 1) > (i * m) \div (n + 1)

\* The rounds of n in which a participant with multiplier m engages: the i-th
\* when the running total i * m crosses a multiple of n.
Engages(i, n, m) == m >= n \/ ((i + 1) * m) \div n > (i * m) \div n

Engaged(k) == {a \in actors : Engages(k - 1, Rounds - 1, Multiplier[a])}

First(S) == {a \in S : \A b \in S : a <= b}

-----------------------------------------------------------------------------
(* Resolving and drafting.                                                 *)

Init ==
    /\ pc = "resolve"
    /\ actors = {} /\ slots = {} /\ todo = {} /\ active = {}
    /\ round = {} /\ last = {}
    /\ r = 0
    /\ turns = [p \in Participants |-> 0]
    /\ expensive = FALSE
    /\ cancel = FALSE
    /\ tr = [error |-> FALSE, cancelled |-> FALSE, escalated |-> FALSE,
             winner |-> None, aggregator |-> None, synthesised |-> FALSE]

\* A participant whose backend is missing or does not load is skipped.
Resolve ==
    /\ pc = "resolve"
    /\ \E usable \in SUBSET Participants :
          /\ actors' = usable
          /\ slots' = usable
          /\ todo' = usable
          /\ \/ usable = {} /\ pc' = "done" /\ tr' = [tr EXCEPT !.error = TRUE]
             \/ usable # {} /\ pc' = "draft" /\ tr' = tr
    /\ UNCHANGED <<active, round, r, last, turns, expensive, cancel>>

\* The thread of a backend takes its actors in order; backends interleave.
\* Empty drafts are dropped, and so may be those a cancel cut short.
Draft(a) ==
    /\ pc = "draft"
    /\ a \in First({b \in todo : BackendOf[b] = BackendOf[a]})
    /\ \E kept \in SUBSET Drafts(a) : \E idea \in [kept -> Ideas] :
          round' = round \cup
             {[who |-> a, draft |-> d, idea |-> idea[d], score |-> 0] : d \in kept}
    /\ todo' = todo \ {a}
    /\ UNCHANGED <<pc, actors, slots, active, r, last, turns, expensive, cancel, tr>>

\* Mutant: the empty round is not noticed.
MutEndDrafting ==
    /\ pc = "draft" /\ todo = {}
    /\ last' = round
    /\ pc' = "score"
    /\ UNCHANGED <<actors, slots, todo, active, round, r, turns, expensive, cancel, tr>>

\* All threads joined.
EndDrafting ==
    /\ pc = "draft" /\ todo = {}
    /\ round # {}
    /\ last' = round
    /\ pc' = "score"
    /\ UNCHANGED <<actors, slots, todo, active, round, r, turns, expensive, cancel, tr>>

\* Mutant: the early return forgets the sessions.
MutNoDrafts ==
    /\ pc = "draft" /\ todo = {}
    /\ round = {}
    /\ tr' = [tr EXCEPT !.error = TRUE]
    /\ pc' = "done"
    /\ UNCHANGED <<actors, slots, todo, active, round, r, last, turns, expensive, cancel>>

NoDrafts ==
    /\ pc = "draft" /\ todo = {}
    /\ round = {}
    /\ slots' = {}
    /\ tr' = [tr EXCEPT !.error = TRUE]
    /\ pc' = "done"
    /\ UNCHANGED <<actors, todo, active, round, r, last, turns, expensive, cancel>>

-----------------------------------------------------------------------------
(* Scoring and critique.                                                   *)

\* score_round.  Judges stop at a cancel, which only changes the scores.
Score ==
    /\ pc = "score"
    /\ \E s \in [last -> Scores] :
          last' = {[x EXCEPT !.score = s[x]] : x \in last}
    /\ pc' = "top"
    /\ UNCHANGED <<actors, slots, todo, active, round, r, turns, expensive, cancel, tr>>

MoreRounds == pc = "top" /\ r + 1 < Rounds
StopsEarly == Cascade /\ Agreed /\ r + 1 > 1

\* The debate is over: every round was held, or the user cancelled, or the
\* clusters' margin says that more debate would not change the winner, or
\* nobody engages.
EndDebate ==
    /\ pc = "top"
    /\ \/ r + 1 >= Rounds
       \/ cancel
       \/ StopsEarly
       \/ Engaged(r + 1) = {}
    /\ tr' = IF r + 1 < Rounds /\ cancel THEN [tr EXCEPT !.cancelled = TRUE] ELSE tr
    /\ pc' = "select"
    /\ UNCHANGED <<actors, slots, todo, active, round, r, last, turns, expensive, cancel>>

StartRound ==
    /\ MoreRounds
    /\ ~cancel
    /\ ~StopsEarly
    /\ Engaged(r + 1) # {}
    /\ r' = r + 1
    /\ active' = Engaged(r + 1)
    /\ todo' = Engaged(r + 1)
    /\ turns' = [p \in Participants |->
                    turns[p] + (IF p \in Engaged(r + 1) THEN 1 ELSE 0)]
    /\ round' = {}
    /\ expensive' = FALSE
    /\ pc' = "critique"
    /\ UNCHANGED <<actors, slots, last, cancel, tr>>

\* Mutant: an actor with nothing to react to just skips its turn.
MutCarry(a) ==
    /\ pc = "critique" /\ a \in First(todo) /\ ~cancel
    /\ Peers(a) = {}
    /\ todo' = todo \ {a}
    /\ UNCHANGED <<pc, actors, slots, active, round, r, last, turns, expensive, cancel, tr>>

\* Nothing worth reacting to: the actor's best answer is carried unchanged.
Carry(a) ==
    /\ pc = "critique" /\ a \in First(todo) /\ ~cancel
    /\ Peers(a) = {}
    /\ IF AnswersOf(last, a) = {}
         THEN round' = round
         ELSE \E x \in BestOf(AnswersOf(last, a)) : round' = round \cup {x}
    /\ todo' = todo \ {a}
    /\ UNCHANGED <<pc, actors, slots, active, r, last, turns, expensive, cancel, tr>>

\* The actor criticises its peers and answers anew.  An empty reply stands for
\* its own best answer again, which is one of the ideas, if it has one.
Revise(a) ==
    /\ pc = "critique" /\ a \in First(todo) /\ ~cancel
    /\ Peers(a) # {}
    /\ \/ \E i \in Ideas : round' = round \cup
             {[who |-> a, draft |-> 0, idea |-> i, score |-> 0]}
       \/ AnswersOf(last, a) = {} /\ round' = round
    /\ expensive' = (expensive \/ IsExpensive(a))
    /\ todo' = todo \ {a}
    /\ UNCHANGED <<pc, actors, slots, active, r, last, turns, cancel, tr>>

\* A cancel ends the round where it is; those still in todo are not heard.
CutRound ==
    /\ pc = "critique" /\ todo # {} /\ cancel
    /\ todo' = {}
    /\ UNCHANGED <<pc, actors, slots, active, round, r, last, turns, expensive,
                   cancel, tr>>

\* Who sat the round out is represented by its best answer so far.
SatOut == (Authors(last) \ Authors(round)) \ active

\* Mutant: every earlier draft of who sat out is brought forward.
MutEndRound ==
    /\ pc = "critique" /\ todo = {}
    /\ round # {}
    /\ last' = round \cup {x \in last : x.who \in SatOut}
    /\ tr' = IF expensive THEN [tr EXCEPT !.escalated = TRUE] ELSE tr
    /\ pc' = "score"
    /\ UNCHANGED <<actors, slots, todo, active, round, r, turns, expensive, cancel>>

EndRound ==
    /\ pc = "critique" /\ todo = {}
    /\ round # {}
    /\ \E best \in [SatOut -> last] :
          /\ \A p \in SatOut : best[p] \in BestOf(AnswersOf(last, p))
          /\ last' = round \cup {best[p] : p \in SatOut}
    /\ tr' = IF expensive THEN [tr EXCEPT !.escalated = TRUE] ELSE tr
    /\ pc' = "score"
    /\ UNCHANGED <<actors, slots, todo, active, round, r, turns, expensive, cancel>>

\* Nobody was heard: the debate ends on the round before.
EmptyRound ==
    /\ pc = "critique" /\ todo = {}
    /\ round = {}
    /\ pc' = "select"
    /\ UNCHANGED <<actors, slots, todo, active, round, r, last, turns, expensive,
                   cancel, tr>>

-----------------------------------------------------------------------------
(* Selection and synthesis.                                                *)

Rewriters == actors \cap CanSynthesise
Strongest == First({a \in Rewriters : \A b \in Rewriters : Cost[b] <= Cost[a]})
FirstCheap == First({a \in Rewriters : ~IsExpensive(a)})

\* The aggregator's own answers are all well below the winner's.
Outclassed(a, w) ==
    /\ a # w.who
    /\ AnswersOf(last, a) # {}
    /\ \A x \in AnswersOf(last, a) : ~Within(SynthesisFloor, x, w)

Competitive(a, w) == \E x \in AnswersOf(last, a) : Within(SynthesisFloor, x, w)

\* Mutant: the cheap writer is not asked whether it is competitive.
MutAggregators(w) ==
    LET usual == {a \in Strongest : ~Outclassed(a, w)}
    IN  IF Cascade /\ Agreed /\ \E a \in usual : IsExpensive(a)
          THEN FirstCheap
          ELSE usual

\* Who may rewrite the winning answer w: one participant or none.
Aggregators(w) ==
    LET usual == {a \in Strongest : ~Outclassed(a, w)}
    IN  IF Cascade /\ Agreed /\ \E a \in usual : IsExpensive(a)
          THEN {a \in FirstCheap : Competitive(a, w)}
          ELSE usual

Select ==
    /\ pc = "select"
    /\ \E w \in BestOf(last) :
          LET chosen == IF Synthesise /\ ~cancel /\ Cardinality(last) > 1
                          THEN Aggregators(w) ELSE {}
          IN  IF chosen = {}
                THEN /\ tr' = [tr EXCEPT !.winner = w.who]
                     /\ pc' = "close"
                ELSE /\ \E a \in chosen :
                           tr' = [tr EXCEPT !.winner = w.who, !.aggregator = a]
                     /\ pc' = "synthesise"
    /\ UNCHANGED <<actors, slots, todo, active, round, r, last, turns, expensive, cancel>>

\* An empty synthesis leaves the winning answer as it is.
WriteFinal ==
    /\ pc = "synthesise"
    /\ \/ tr' = tr
       \/ tr' = [tr EXCEPT !.synthesised = TRUE,
                           !.escalated = tr.escalated \/ IsExpensive(tr.aggregator)]
    /\ pc' = "close"
    /\ UNCHANGED <<actors, slots, todo, active, round, r, last, turns, expensive, cancel>>

Close ==
    /\ pc = "close"
    /\ slots' = {}
    /\ pc' = "done"
    /\ UNCHANGED <<actors, todo, active, round, r, last, turns, expensive, cancel, tr>>

\* The user's button, at any time.
Cancel ==
    /\ pc # "done" /\ ~cancel
    /\ cancel' = TRUE
    /\ UNCHANGED <<pc, actors, slots, todo, active, round, r, last, turns,
                   expensive, tr>>

Run ==
    \/ Resolve \/ EndDrafting \/ NoDrafts \/ Score \/ EndDebate \/ StartRound
    \/ CutRound \/ EndRound \/ EmptyRound \/ Select \/ WriteFinal \/ Close
    \/ \E a \in Participants : Draft(a) \/ Carry(a) \/ Revise(a)

Next == Run \/ Cancel

Spec == Init /\ [][Next]_vars
FairSpec == Spec /\ WF_vars(Run)

-----------------------------------------------------------------------------
(* Properties.                                                             *)

\* Types, and the round a winner is taken from (front(), debate.cpp:815) is
\* never empty: the loop breaks before it would push one.
DebateTypeOK ==
    /\ pc \in {"resolve", "draft", "score", "top", "critique", "select",
               "synthesise", "close", "done"}
    /\ actors \subseteq Participants
    /\ slots \subseteq actors /\ todo \subseteq actors /\ active \subseteq actors
    /\ round \subseteq Answer /\ last \subseteq Answer
    /\ r \in 0..Rounds - 1
    /\ turns \in [Participants -> 0..Rounds - 1]
    /\ expensive \in BOOLEAN /\ cancel \in BOOLEAN
    /\ tr \in Transcript
    /\ pc \in {"score", "top", "critique", "select", "synthesise", "close"} => last # {}

OneVoice(A) == \A x, y \in A : x.who = y.who => x = y

\* In a critique round each participant is one answer, revised, carried by the
\* actor itself or brought forward because it sat out (debate.cpp:679-797):
\* several drafts of round 0 never vote again as several voices.
OneVoicePerRound ==
    r > 0 => /\ OneVoice(round)
             /\ pc \in {"score", "top"} => OneVoice(last)

\* Unless the user cancels, whoever had an answer in a round has one in the
\* next, engaged or not (debate.cpp:709-735, 782-797).
NobodyVanishes ==
    [][last # {} /\ ~cancel => Authors(last) \subseteq Authors(last')]_vars

\* The same of every round, cancelled or not: "this actor must still be
\* represented in the round" (debate.cpp:711).
AlwaysRepresented ==
    [][last # {} => Authors(last) \subseteq Authors(last')]_vars

\* A run that returns has closed every session it opened, on each of its
\* paths, and until then a session in use is an open one (debate.cpp:388, 528,
\* 956).
SlotsReleased ==
    /\ pc = "done" => slots = {}
    /\ pc \notin {"resolve", "done"} => slots = actors

\* Whoever rewrites the winning answer has none of its own in the last round
\* that is far below it: the winner stands as it is rather than be rewritten by
\* something weaker, and when the clusters agree the expensive model does not
\* write at all (debate.cpp:837-892).
SynthesisGuarded ==
    pc = "synthesise" =>
       /\ \E w \in BestOf(last) :
             w.who = tr.winner /\ ~Outclassed(tr.aggregator, w)
       /\ Cascade /\ Agreed => ~IsExpensive(tr.aggregator)

\* A participant with multiplier m has engaged in m of the n critique rounds
\* when all are held, in every one if m >= n, and at any point in its fair
\* share of them: floor(r * m / n) of the first r (debate.cpp:290-301).
FairShare(p) == IF Multiplier[p] >= Rounds - 1 THEN r
                ELSE (r * Multiplier[p]) \div (Rounds - 1)

\* The n it is spread over is one less than `rounds`, which counts the drafts.
\* Where `rounds` is the highest multiplier, as it is unless set, whoever is one
\* below the highest therefore takes part as often as the highest: 2x and 1x
\* meet in one critique round, and both engage in it, where debate.h:40 and the
\* tooltip of the sliders (gui.cpp:440) have two, one of them for 2x alone.
NextToHighest == \A p, q \in actors :
    Multiplier[p] >= Rounds /\ Multiplier[q] = Rounds - 1 => turns[p] = turns[q]

TurnsFollowMultiplier == (\A p \in actors : turns[p] = FairShare(p)) /\ NextToHighest

\* Every debate returns, whatever the models answer and whenever it is
\* cancelled; every generation is assumed to return.
DebateEnds == <>(pc = "done")

-----------------------------------------------------------------------------
=============================================================================
