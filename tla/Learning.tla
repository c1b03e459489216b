------------------------------ MODULE Learning ------------------------------
(***************************************************************************)
(* What becomes of the user's texts and ratings: the continual trainer     *)
(* (train_continual.cpp) and the feedback trainer (train_feedback.cpp),    *)
(* each a thread running TrainerBase::loop (trainer.cpp), draining the hub *)
(* that module Chat fills.  What a proposal then does to the weights is    *)
(* module Coordinator; here it is enough that it was submitted.            *)
(***************************************************************************)
EXTENDS Chat

CONSTANTS
    DrainMax,       \* items taken from the hub at a time (64)
    MinSamples,     \* continual.min_samples
    BufferCap,      \* continual.buffer_cap
    LocalSteps,     \* training steps of a round
    GoodScore,      \* feedback.good_score
    MinGap,         \* feedback.min_score_gap
    BankCap         \* feedback.bank_cap

ASSUME LearningAssumption ==
    /\ DrainMax \in Nat \ {0} /\ MinSamples \in Nat /\ BufferCap \in Nat
    /\ LocalSteps \in Nat /\ BankCap \in Nat
    /\ GoodScore \in Nat /\ MinGap \in Nat \ {0}

VARIABLES
    training,   \* Telemetry: self-training is on and the trainers are selected
    continual,  \* the continual trainer: its buffer_ and the round it is in
    learnt,     \* texts in proposals submitted to the coordinator
    feedback,   \* the feedback trainer: bank_, bank_items_ and the round it is in
    latest      \* per prompt and answer the last rating the hub was given

learningVars == <<training, continual, learnt, feedback, latest>>
allVars == <<chatVars, learningVars>>

Texts(s) == {s[i] : i \in DOMAIN s}
Responses == Answers \cup {Failure}
NoScore == 0

NoBank == [p \in Prompts |-> [a \in Responses |-> NoScore]]

Init ==
    /\ ChatInit
    /\ training \in BOOLEAN
    /\ continual = [pc |-> "loop", buffer |-> <<>>, taken |-> <<>>, steps |-> 0]
    /\ learnt = {}
    /\ feedback = [pc |-> "loop", bank |-> NoBank, items |-> 0, steps |-> 0]
    /\ latest = NoBank

\* The tests TrainerBase::loop makes before it asks for work; the minimum
\* interval between rounds only delays it.
MayStart(t) == t \in alive /\ Running(t) /\ ~estop /\ training

ShouldStop(t) == ~Running(t) \/ estop

ToggleTraining ==
    /\ stage = 0
    /\ training' = ~training
    /\ UNCHANGED <<chatVars, continual, learnt, feedback, latest>>

TrainerEnds(t, pc) ==
    /\ t \in alive /\ ~Running(t) /\ pc = "loop"
    /\ alive' = alive \ {t}
    /\ UNCHANGED <<asked, pending, current, history, texts, ratings, hand,
                   ratingsBegun, autopilot, estop, stage, learningVars>>

-----------------------------------------------------------------------------
(* ContinualTrainer *)

Drained(s)   == SubSeq(s, 1, IF Len(s) < DrainMax THEN Len(s) ELSE DrainMax)
Undrained(s) == SubSeq(s, Len(Drained(s)) + 1, Len(s))

\* Mutant: the round leaves its texts in the buffer.
MutFillKeeps(waited) ==
    /\ MayStart("continual") /\ continual.pc = "loop"
    /\ texts' = Undrained(texts)
    /\ LET buffer == KeepLast(continual.buffer \o Drained(texts), BufferCap) IN
       continual' =
           IF buffer # <<>> /\ (Len(buffer) >= MinSamples \/ waited)
           THEN [pc |-> "train", buffer |-> buffer, taken |-> buffer, steps |-> 0]
           ELSE [continual EXCEPT !.buffer = buffer]
    /\ UNCHANGED <<asked, pending, current, history, ratings, hand, ratingsBegun,
                   autopilot, estop, stage, alive, training, learnt, feedback, latest>>

\* Mutant: a short buffer waits for ever.
MutFillWaits(waited) ==
    /\ MayStart("continual") /\ continual.pc = "loop"
    /\ texts' = Undrained(texts)
    /\ LET buffer == KeepLast(continual.buffer \o Drained(texts), BufferCap) IN
       continual' =
           IF Len(buffer) >= MinSamples
           THEN [pc |-> "train", buffer |-> <<>>, taken |-> buffer, steps |-> 0]
           ELSE [continual EXCEPT !.buffer = buffer]
    /\ UNCHANGED <<asked, pending, current, history, ratings, hand, ratingsBegun,
                   autopilot, estop, stage, alive, training, learnt, feedback, latest>>

\* ready(): new texts join the buffer; a round is due when there are enough of
\* them, or when the first has waited long enough.  round() then syncs with the
\* published weights, takes the buffer and empties it.
Fill(waited) ==
    /\ MayStart("continual") /\ continual.pc = "loop"
    /\ texts' = Undrained(texts)
    /\ LET buffer == KeepLast(continual.buffer \o Drained(texts), BufferCap) IN
       continual' =
           IF buffer # <<>> /\ (Len(buffer) >= MinSamples \/ waited)
           THEN [pc |-> "train", buffer |-> <<>>, taken |-> buffer, steps |-> 0]
           ELSE [continual EXCEPT !.buffer = buffer]
    /\ UNCHANGED <<asked, pending, current, history, ratings, hand, ratingsBegun,
                   autopilot, estop, stage, alive, training, learnt, feedback, latest>>

ContinualStep ==
    /\ continual.pc = "train"
    /\ ~ShouldStop("continual") /\ continual.steps < LocalSteps
    /\ continual' = [continual EXCEPT !.steps = @ + 1]
    /\ UNCHANGED <<chatVars, training, learnt, feedback, latest>>

\* The proposal is submitted however many steps a stop has left it.
ContinualSubmit ==
    /\ continual.pc = "train"
    /\ ShouldStop("continual") \/ continual.steps = LocalSteps
    /\ learnt' = learnt \cup Texts(continual.taken)
    /\ continual' = [continual EXCEPT !.pc = "loop", !.taken = <<>>, !.steps = 0]
    /\ UNCHANGED <<chatVars, training, feedback, latest>>

\* An exception ends the round: what it had taken is gone.
ContinualFails ==
    /\ continual.pc = "train"
    /\ continual' = [continual EXCEPT !.pc = "loop", !.taken = <<>>, !.steps = 0]
    /\ UNCHANGED <<chatVars, training, learnt, feedback, latest>>

-----------------------------------------------------------------------------
(* FeedbackTrainer *)

\* Mutant: a replaced answer is counted again.
MutStoreCounts(b, x) ==
    IF x.answer = "" THEN b
    ELSE [bank |-> [b.bank EXCEPT ![x.prompt][x.answer] = x.score], items |-> b.items + 1]

\* Mutant: a known answer keeps its first score.
MutStoreKeeps(b, x) ==
    IF x.answer = "" \/ b.bank[x.prompt][x.answer] # NoScore THEN b
    ELSE [bank  |-> [b.bank EXCEPT ![x.prompt][x.answer] = x.score], items |-> b.items + 1]

\* One rating joins the bank: an answer nothing was generated for is skipped,
\* a known answer gets its new score, another one is an item more.
Store(b, x) ==
    IF x.answer = "" THEN b
    ELSE [bank  |-> [b.bank EXCEPT ![x.prompt][x.answer] = x.score],
          items |-> IF b.bank[x.prompt][x.answer] = NoScore THEN b.items + 1 ELSE b.items]

\* A drained batch of ratings, in order.
StoreAll(b, batch) ==
    LET after[i \in 0..Len(batch)] == IF i = 0 THEN b ELSE Store(after[i - 1], batch[i])
    IN  after[Len(batch)]

Rated(bank, p) == {a \in Responses : bank[p][a] # NoScore}

\* What a bank holds of some prompts.
Held(bank, ps) == {x \in ps \X Responses : x[2] \in Rated(bank, x[1])}

\* Whole prompts are dropped, in the order of a hash table, while the bank holds
\* more items than its cap: any set of prompts that was needed to the last one.
Evictions(b) ==
    LET left(ps) == b.items - Cardinality(Held(b.bank, ps))
    IN  {ps \in SUBSET {p \in Prompts : Rated(b.bank, p) # {}} :
            /\ left(ps) <= BankCap
            /\ ps = {} \/ \E last \in ps : left(ps \ {last}) > BankCap}

Evicted(b, ps) ==
    [bank  |-> [p \in Prompts |-> IF p \in ps THEN NoBank[p] ELSE b.bank[p]],
     items |-> b.items - Cardinality(Held(b.bank, ps))]

\* Work exists when some prompt has two answers, or one was rated well.
SomeWork(bank) ==
    \E p \in Prompts :
        \/ Cardinality(Rated(bank, p)) >= 2
        \/ \E a \in Rated(bank, p) : bank[p][a] >= GoodScore

\* Prompts with a preference wide enough, and well-rated answers of the others.
Pairs(bank) ==
    {p \in Prompts : \E w, l \in Rated(bank, p) : bank[p][w] - bank[p][l] >= MinGap /\ w # l}

Singles(bank) ==
    {x \in (Prompts \ Pairs(bank)) \X Responses :
        x[2] \in Rated(bank, x[1]) /\ bank[x[1]][x[2]] >= GoodScore}

Usable(bank) == Pairs(bank) # {} \/ Singles(bank) # {}

\* ready(): the hub's ratings are stored, the bank is cut to its cap and asked for
\* work; round() syncs, chooses, and either trains or finds nothing usable.
FillBank ==
    /\ MayStart("feedback") /\ feedback.pc = "loop"
    /\ ratings' = Undrained(ratings)
    /\ LET b == StoreAll([bank |-> feedback.bank, items |-> feedback.items], Drained(ratings)) IN
       \E ps \in Evictions(b) :
          LET kept == Evicted(b, ps)
              due  == kept.items # 0 /\ SomeWork(kept.bank) /\ Usable(kept.bank)
          IN  feedback' = [pc |-> IF due THEN "train" ELSE "loop", bank |-> kept.bank,
                           items |-> kept.items, steps |-> 0]
    /\ UNCHANGED <<asked, pending, current, history, texts, hand, ratingsBegun,
                   autopilot, estop, stage, alive, training, continual, learnt, latest>>

FeedbackStep ==
    /\ feedback.pc = "train"
    /\ ~ShouldStop("feedback") /\ feedback.steps < LocalSteps
    /\ feedback' = [feedback EXCEPT !.steps = @ + 1]
    /\ UNCHANGED <<chatVars, training, continual, learnt, latest>>

\* The round ends: with a proposal if a step was taken, without one if a stop
\* came first or an exception cut it short.
FeedbackEnds ==
    /\ feedback.pc = "train"
    /\ feedback' = [feedback EXCEPT !.pc = "loop", !.steps = 0]
    /\ UNCHANGED <<chatVars, training, continual, learnt, latest>>

-----------------------------------------------------------------------------
\* What the hub was last told of an answer is remembered beside it.
GiveRating(p) ==
    /\ Rate(p)
    /\ latest' = IF hand[p].index \in DOMAIN history
                 THEN LET x == Rating(p)
                      IN  [latest EXCEPT ![x.prompt][x.answer] = x.score]
                 ELSE latest
    /\ UNCHANGED <<training, continual, learnt, feedback>>

Calls(p) == (PushText(p) /\ UNCHANGED learningVars) \/ GiveRating(p)

ContinualRound == ContinualStep \/ ContinualSubmit \/ ContinualFails
FeedbackRound  == FeedbackStep \/ FeedbackEnds

Next ==
    \/ (Engine \/ Robot \/ User \/ StopNext) /\ UNCHANGED learningVars
    \/ \E p \in People : Calls(p)
    \/ ToggleTraining
    \/ (\E waited \in BOOLEAN : Fill(waited))
    \/ ContinualRound \/ TrainerEnds("continual", continual.pc)
    \/ FillBank
    \/ FeedbackRound \/ TrainerEnds("feedback", feedback.pc)

Spec == Init /\ [][Next]_allVars

\* Threads go on, calls return, rounds end, a buffer's waiting time runs out, and
\* main() goes on stopping once it has begun.  The user promises nothing.
FairSpec ==
    /\ Spec
    /\ WF_allVars((Engine \/ StopNext) /\ UNCHANGED learningVars)
    /\ WF_allVars(Robot /\ UNCHANGED learningVars)
    /\ \A p \in People : WF_allVars(Calls(p))
    /\ WF_allVars(Fill(TRUE) /\ continual'.taken # <<>>)
    /\ WF_allVars(ContinualRound \/ TrainerEnds("continual", continual.pc))
    /\ WF_allVars(FeedbackRound \/ TrainerEnds("feedback", feedback.pc))

-----------------------------------------------------------------------------
LearningTypeOK ==
    /\ ChatTypeOK
    /\ training \in BOOLEAN
    /\ continual.buffer \in Seq(1..MaxAsks) /\ Len(continual.buffer) <= BufferCap
    /\ continual.taken \in Seq(1..MaxAsks)
    /\ continual.steps \in 0..LocalSteps
    /\ learnt \subseteq 1..MaxAsks
    /\ feedback.bank \in [Prompts -> [Responses -> Scores \cup {NoScore}]]
    /\ feedback.steps \in 0..LocalSteps

\* A text is in one place at a time - about to be pushed, in the hub, buffered or
\* in the round's hands - and what was submitted is in none of them: nothing is
\* trained on twice, whatever fails, stops or overflows on the way.
Untold == {p \in People : hand[p].do = "push_text"}
OnTheWay == texts \o continual.buffer \o continual.taken

TextsOnce ==
    /\ \A i, j \in DOMAIN OnTheWay : OnTheWay[i] = OnTheWay[j] => i = j
    /\ Texts(OnTheWay) \cap learnt = {}
    /\ \A p \in Untold : hand[p].text \notin Texts(OnTheWay) \cup learnt

\* bank_items_ is the number of answers in the bank, whatever was replaced and
\* evicted, and the bank never keeps more than its cap between two calls.
BankCounted ==
    /\ feedback.items = Cardinality(Held(feedback.bank, Prompts))
    /\ feedback.items <= BankCap

\* Re-rating an answer takes effect: once the hub has been drained of ratings of
\* an answer, the bank does not hold an older one (while the hub's cap is not hit).
LatestRatingWins ==
    MaxRatings <= HubCap =>
        \A p \in Prompts : \A a \in Rated(feedback.bank, p) :
            \/ feedback.bank[p][a] = latest[p][a]
            \/ \E i \in DOMAIN ratings : ratings[i].prompt = p /\ ratings[i].answer = a

\* With the continual trainer left running, what the user wrote does not stay in
\* the hub or the buffer.
Waiting(id) == id \in Texts(texts) \cup Texts(continual.buffer)

TextsReachTraining ==
    <>[](training /\ ~estop /\ stage = 0) =>
        \A id \in 1..MaxAsks : Waiting(id) ~> ~Waiting(id)

\* Whatever the threads were doing when the dashboard closed, stopping and joining
\* them one after the other ends: no thread waits for one stopped before it.
ShutdownCompletes == stage > 0 ~> alive = {}
=============================================================================
