-------------------------------- MODULE Chat --------------------------------
(***************************************************************************)
(* The chat engine (chat.cpp), the hub between the user and the learning   *)
(* threads (interaction.h), the people at the keyboard (gui_terminal.cpp,  *)
(* gui.cpp) and the autopilot that plays one of them (app.cpp).            *)
(*                                                                         *)
(* Asking, reading and rating are calls of several steps: ask() queues the *)
(* question and then tells the hub, a rating is aimed at a position of a   *)
(* copy of the history and arrives later.  Questions are numbered in the   *)
(* order in which they are asked; what they say is PromptOf.               *)
(***************************************************************************)
EXTENDS Integers, Sequences, FiniteSets

CONSTANTS
    MaxAsks,        \* model bound: questions asked in a session
    MaxRatings,     \* model bound: ratings begun, an autopilot round counting twice
    Prompts,        \* what can be asked
    PromptOf,       \* what each question says
    Answers,        \* what the model can write; "" when generation is cut at once
    Failure,        \* the text that stands for a failed generation
    Scores,         \* what a rating can say
    HistoryCap,     \* turns kept
    HubCap,         \* texts, and ratings, kept in the hub
    MaxPolls        \* how often the autopilot looks for its answer

ASSUME ChatAssumption ==
    /\ MaxAsks \in Nat /\ MaxRatings \in Nat /\ MaxPolls \in Nat
    /\ HistoryCap \in Nat \ {0} /\ HubCap \in Nat \ {0}
    /\ PromptOf \in [1..MaxAsks -> Prompts]
    /\ Scores \subseteq Nat \ {0}

VARIABLES
    asked,      \* questions asked so far
    pending,    \* ChatEngine::pending_
    current,    \* the question being answered, 0 for none
    history,    \* ChatEngine::history_
    texts,      \* InteractionHub::texts_
    ratings,    \* InteractionHub::rated_
    hand,       \* per person: the call they are in the middle of
    ratingsBegun,
    autopilot,  \* the autopilot's own loop
    estop,      \* Telemetry::estop_
    stage,      \* how many threads main() has begun to stop
    alive       \* threads whose loop has not returned

chatVars == <<asked, pending, current, history, texts, ratings, hand,
              ratingsBegun, autopilot, estop, stage, alive>>

People == {"user", "autopilot"}

\* The order in which main() stops and joins them.
StopOrder == <<"autopilot", "continual", "feedback", "chat">>

Threads == {StopOrder[i] : i \in 1..4}

\* A thread runs on until main() reaches it.
Running(t) == \A i \in 1..stage : StopOrder[i] # t

Turn   == [id : 1..MaxAsks, answer : Answers \cup {Failure}]
Sample == [prompt : Prompts, answer : Answers \cup {Failure}, score : Scores]

Idle        == [do |-> "nothing"]
Telling(id) == [do |-> "push_text", text |-> id]
Aiming(i, s) == [do |-> "rate", index |-> i, score |-> s]

\* The autopilot at the top of its loop; the locals of the last turn are gone.
NextQuestion == [pc |-> "top", before |-> 0, polls |-> 0, mine |-> 0]

\* Mutant: a full queue refuses the newest entry.
MutKeepLast(s, cap) == IF Len(s) <= cap THEN s ELSE SubSeq(s, 1, cap)

\* A queue that drops its oldest entries at a cap.
KeepLast(s, cap) == IF Len(s) <= cap THEN s ELSE SubSeq(s, Len(s) - cap + 1, Len(s))

ChatInit ==
    /\ asked = 0 /\ pending = <<>> /\ current = 0 /\ history = <<>>
    /\ texts = <<>> /\ ratings = <<>>
    /\ hand = [p \in People |-> Idle]
    /\ ratingsBegun = 0
    /\ autopilot = NextQuestion
    /\ estop = FALSE
    /\ stage = 0
    /\ alive \in {Threads, Threads \ {"autopilot"}}

-----------------------------------------------------------------------------
(* ask() and rate(), as anyone calls them *)

\* The question goes into the queue, and the caller goes on to tell the hub.
AskFirst(p) ==
    /\ hand[p].do = "nothing"
    /\ asked < MaxAsks
    /\ asked' = asked + 1
    /\ pending' = Append(pending, asked + 1)
    /\ hand' = [hand EXCEPT ![p] = Telling(asked + 1)]

PushText(p) ==
    /\ hand[p].do = "push_text"
    /\ texts' = KeepLast(Append(texts, hand[p].text), HubCap)
    /\ hand' = [hand EXCEPT ![p] = Idle]
    /\ UNCHANGED <<asked, pending, current, history, ratings, ratingsBegun,
                   autopilot, estop, stage, alive>>

\* rate() resolves the position against the history as it is by now, and passes
\* prompt, answer and score on to the hub (the stars shown beside the turn are not
\* read by anything).
Rating(p) ==
    LET turn == history[hand[p].index]
    IN  [prompt |-> PromptOf[turn.id], answer |-> turn.answer, score |-> hand[p].score]

Rate(p) ==
    /\ hand[p].do = "rate"
    /\ ratings' = IF hand[p].index \in DOMAIN history
                  THEN KeepLast(Append(ratings, Rating(p)), HubCap)
                  ELSE ratings
    /\ hand' = [hand EXCEPT ![p] = Idle]
    /\ UNCHANGED <<asked, pending, current, history, texts, ratingsBegun,
                   autopilot, estop, stage, alive>>

-----------------------------------------------------------------------------
(* The user, until main() begins to shut the session down *)

\* (the bound leaves room for the question the autopilot is about to ask)
UserAsk ==
    /\ stage = 0
    /\ autopilot.pc = "ask" => asked + 1 < MaxAsks
    /\ AskFirst("user")
    /\ UNCHANGED <<current, history, texts, ratings, ratingsBegun, autopilot,
                   estop, stage, alive>>

\* A dashboard shows a copy of the history; the click names a position in it.
UserAim(i, s) ==
    /\ stage = 0
    /\ hand["user"].do = "nothing"
    /\ ratingsBegun < MaxRatings
    /\ hand' = [hand EXCEPT !["user"] = Aiming(i, s)]
    /\ ratingsBegun' = ratingsBegun + 1
    /\ UNCHANGED <<asked, pending, current, history, texts, ratings, autopilot,
                   estop, stage, alive>>

ToggleStop ==
    /\ stage = 0
    /\ estop' = ~estop
    /\ UNCHANGED <<asked, pending, current, history, texts, ratings, hand,
                   ratingsBegun, autopilot, stage, alive>>

-----------------------------------------------------------------------------
(* ChatEngine::loop and handle *)

TakeQuestion ==
    /\ "chat" \in alive /\ Running("chat")
    /\ current = 0
    /\ pending # <<>>
    /\ current' = Head(pending)
    /\ pending' = Tail(pending)
    /\ UNCHANGED <<asked, history, texts, ratings, hand, ratingsBegun,
                   autopilot, estop, stage, alive>>

\* The answer joins the history, which is trimmed from the front.
Answer(a) ==
    /\ current # 0
    /\ history' = KeepLast(Append(history, [id |-> current, answer |-> a]),
                           HistoryCap)
    /\ current' = 0
    /\ UNCHANGED <<asked, pending, texts, ratings, hand, ratingsBegun,
                   autopilot, estop, stage, alive>>

\* An exception leaves a turn too, and that branch does not trim.
AnswerFails ==
    /\ current # 0
    /\ history' = Append(history, [id |-> current, answer |-> Failure])
    /\ current' = 0
    /\ UNCHANGED <<asked, pending, texts, ratings, hand, ratingsBegun,
                   autopilot, estop, stage, alive>>

ChatEnds ==
    /\ "chat" \in alive /\ ~Running("chat")
    /\ current = 0
    /\ alive' = alive \ {"chat"}
    /\ UNCHANGED <<asked, pending, current, history, texts, ratings, hand,
                   ratingsBegun, autopilot, estop, stage>>

-----------------------------------------------------------------------------
(* Autopilot::loop *)

\* How long the history is, before the question.
ReadLength ==
    /\ "autopilot" \in alive /\ Running("autopilot")
    /\ autopilot.pc = "top" /\ hand["autopilot"].do = "nothing"
    /\ ~estop
    /\ asked < MaxAsks /\ ratingsBegun + 2 <= MaxRatings
    /\ autopilot' = [autopilot EXCEPT !.pc = "ask", !.before = Len(history)]
    /\ ratingsBegun' = ratingsBegun + 2
    /\ UNCHANGED <<asked, pending, current, history, texts, ratings, hand,
                   estop, stage, alive>>

AutopilotAsk ==
    /\ autopilot.pc = "ask"
    /\ AskFirst("autopilot")
    /\ autopilot' = [autopilot EXCEPT !.pc = "wait", !.polls = 0, !.mine = asked + 1]
    /\ UNCHANGED <<current, history, texts, ratings, ratingsBegun, estop, stage, alive>>

\* Mutant: the wait ends with an answer only.
MutPoll ==
    /\ autopilot.pc = "wait" /\ hand["autopilot"].do = "nothing"
    /\ Len(history) > autopilot.before
    /\ autopilot' = [autopilot EXCEPT !.pc = "read", !.polls = 0]
    /\ UNCHANGED <<asked, pending, current, history, texts, ratings, hand,
                   ratingsBegun, estop, stage, alive>>

\* One turn of the waiting loop: the history has grown, or look again later.
Poll ==
    /\ autopilot.pc = "wait" /\ hand["autopilot"].do = "nothing"
    /\ IF Len(history) > autopilot.before \/ autopilot.polls = MaxPolls
          \/ ~Running("autopilot")
       THEN autopilot' = [autopilot EXCEPT !.pc = "read", !.polls = 0]
       ELSE autopilot' = [autopilot EXCEPT !.polls = @ + 1]
    /\ UNCHANGED <<asked, pending, current, history, texts, ratings, hand,
                   ratingsBegun, estop, stage, alive>>

\* The newest turn of a fresh copy is rated, if the history has grown.
AutopilotAim(s) ==
    /\ autopilot.pc = "read"
    /\ Len(history) > autopilot.before
    /\ hand' = [hand EXCEPT !["autopilot"] = Aiming(Len(history), s)]
    /\ autopilot' = NextQuestion
    /\ UNCHANGED <<asked, pending, current, history, texts, ratings,
                   ratingsBegun, estop, stage, alive>>

GiveUp ==
    /\ autopilot.pc = "read"
    /\ Len(history) <= autopilot.before
    /\ autopilot' = NextQuestion
    /\ UNCHANGED <<asked, pending, current, history, texts, ratings, hand,
                   ratingsBegun, estop, stage, alive>>

AutopilotEnds ==
    /\ "autopilot" \in alive /\ ~Running("autopilot")
    /\ autopilot.pc = "top" /\ hand["autopilot"].do = "nothing"
    /\ alive' = alive \ {"autopilot"}
    /\ UNCHANGED <<asked, pending, current, history, texts, ratings, hand,
                   ratingsBegun, autopilot, estop, stage>>

-----------------------------------------------------------------------------
(* main(): the dashboard has returned; stop the threads one after the other *)

Quit ==
    /\ stage = 0
    /\ hand["user"].do = "nothing"
    /\ stage' = 1
    /\ UNCHANGED <<asked, pending, current, history, texts, ratings, hand,
                   ratingsBegun, autopilot, estop, alive>>

StopNext ==
    /\ stage \in 1..(Len(StopOrder) - 1)
    /\ StopOrder[stage] \notin alive
    /\ stage' = stage + 1
    /\ UNCHANGED <<asked, pending, current, history, texts, ratings, hand,
                   ratingsBegun, autopilot, estop, alive>>

Engine == TakeQuestion \/ AnswerFails \/ (\E a \in Answers : Answer(a)) \/ ChatEnds

Robot ==
    \/ ReadLength \/ AutopilotAsk \/ Poll \/ GiveUp \/ AutopilotEnds
    \/ \E s \in Scores : AutopilotAim(s)

User ==
    \/ UserAsk \/ ToggleStop \/ Quit
    \/ \E i \in DOMAIN history, s \in Scores : UserAim(i, s)

-----------------------------------------------------------------------------
\* The texts, ratings and turns are what their types say; only turns of failed
\* generations can hold the history above its cap.
ChatTypeOK ==
    /\ asked \in 0..MaxAsks
    /\ pending \in Seq(1..MaxAsks)
    /\ current \in 0..MaxAsks
    /\ history \in Seq(Turn)
    /\ texts \in Seq(1..MaxAsks) /\ Len(texts) <= HubCap
    /\ ratings \in Seq(Sample) /\ Len(ratings) <= HubCap
    /\ ratingsBegun \in 0..MaxRatings
    /\ estop \in BOOLEAN
    /\ stage \in 0..4
    /\ alive \subseteq Threads

\* Everything asked is answered once and in order: the turns of the history, the
\* question being answered and the queue are consecutive questions, and the last
\* of them is the newest (chat.cpp, one worker over one queue, with failures and
\* trimming in between).
Underway == IF current = 0 THEN 0 ELSE 1

QuestionsInOrder ==
    /\ \A i \in DOMAIN pending : pending[i] = asked - Len(pending) + i
    /\ current # 0 => current = asked - Len(pending)
    /\ \A i \in DOMAIN history :
           history[i].id = asked - Len(pending) - Underway - Len(history) + i

\* "It asks questions taken from the corpus ... and rates the reply": when the
\* autopilot gives up on a question, the question has not been answered.
AnswersAreHeard ==
    [][GiveUp /\ Running("autopilot") =>
           \/ autopilot.mine = current
           \/ \E i \in DOMAIN pending : pending[i] = autopilot.mine]_chatVars
=============================================================================
