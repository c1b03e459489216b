---------------------------- MODULE LearningProofs ----------------------------
(***************************************************************************)
(* Sessions of any length, with any caps: every question is answered once  *)
(* and in the order of asking, and no text is trained on twice.            *)
(*                                                                         *)
(* Questions: only asking, taking the next one and the two ways of leaving *)
(* a turn change what this is about.  Texts: each place a text passes      *)
(* through holds it once and no two places share one; a new text is above  *)
(* all numbers given out before.                                           *)
(***************************************************************************)
EXTENDS Learning, FiniteSetTheorems, WellFoundedInduction, TLAPS

orderVars == <<asked, pending, current, history>>

OrderTypes ==
    /\ asked \in 0..MaxAsks
    /\ pending \in Seq(1..MaxAsks)
    /\ current \in 0..MaxAsks
    /\ history \in Seq(Turn)

OrderInv == OrderTypes /\ QuestionsInOrder

\* The newest entries of a sequence, with the place they had.
LEMMA KeptLast ==
    ASSUME NEW S, NEW s \in Seq(S), NEW cap \in Nat
    PROVE  /\ KeepLast(s, cap) \in Seq(S)
           /\ Len(KeepLast(s, cap)) <= Len(s)
           /\ \A i \in DOMAIN KeepLast(s, cap) :
                 /\ i + (Len(s) - Len(KeepLast(s, cap))) \in DOMAIN s
                 /\ KeepLast(s, cap)[i] = s[i + (Len(s) - Len(KeepLast(s, cap)))]
<1>1. CASE Len(s) <= cap
  BY <1>1 DEF KeepLast
<1>2. CASE cap = 0
  <2>1. Len(s) \in Nat
    OBVIOUS
  <2>2. CASE Len(s) > 0
    <3>1. KeepLast(s, cap) = SubSeq(s, Len(s) + 1, Len(s))
      BY <1>2, <2>1, <2>2 DEF KeepLast
    <3>2. SubSeq(s, Len(s) + 1, Len(s)) = << >>
      BY <2>1
    <3>3. KeepLast(s, cap) \in Seq(S) /\ Len(KeepLast(s, cap)) = 0
      BY <3>1, <3>2
    <3> QED
      BY <2>1, <3>3
  <2> QED
    BY <1>1, <1>2, <2>1, <2>2
<1>3. CASE ~(Len(s) <= cap) /\ cap # 0
  <2> DEFINE first == Len(s) - cap + 1
  <2>1. first \in 1..Len(s) /\ Len(s) \in 1..Len(s)
    BY <1>3
  <2>2. KeepLast(s, cap) = SubSeq(s, first, Len(s))
    BY <1>3 DEF KeepLast
  <2>3. /\ SubSeq(s, first, Len(s)) \in Seq(S)
        /\ Len(SubSeq(s, first, Len(s))) = cap
        /\ \A i \in 1..cap : SubSeq(s, first, Len(s))[i] = s[i + (Len(s) - cap)]
    BY <2>1, <1>3
  <2> QED
    BY <1>3, <2>1, <2>2, <2>3
<1> QED
  BY <1>1, <1>2, <1>3

LEMMA AskKeepsOrder ==
    ASSUME OrderInv, NEW p \in People, AskFirst(p), UNCHANGED <<current, history>>
    PROVE  OrderInv'
<1>1. /\ asked < MaxAsks /\ asked' = asked + 1
      /\ pending' = Append(pending, asked + 1)
  BY DEF AskFirst
<1>2. asked + 1 \in 1..MaxAsks /\ pending \in Seq(1..MaxAsks) /\ MaxAsks \in Nat
  BY <1>1, ChatAssumption DEF OrderInv, OrderTypes
<1>3. /\ pending' \in Seq(1..MaxAsks)
      /\ Len(pending') = Len(pending) + 1
      /\ \A i \in 1..Len(pending) : pending'[i] = pending[i]
      /\ pending'[Len(pending) + 1] = asked + 1
  BY <1>1, <1>2
<1>4. OrderTypes'
  BY <1>1, <1>2, <1>3 DEF OrderInv, OrderTypes
<1>5. asked' - Len(pending') = asked - Len(pending)
  BY <1>1, <1>3 DEF OrderInv, OrderTypes
<1>6. \A i \in DOMAIN pending' : pending'[i] = asked' - Len(pending') + i
  BY <1>1, <1>2, <1>3, <1>5 DEF OrderInv, OrderTypes, QuestionsInOrder
<1>7. Underway' = Underway
  BY DEF Underway
<1>8. QuestionsInOrder'
  BY <1>5, <1>6, <1>7 DEF OrderInv, QuestionsInOrder
<1> QED
  BY <1>4, <1>8 DEF OrderInv

LEMMA TakeKeepsOrder ==
    ASSUME OrderInv, TakeQuestion
    PROVE  OrderInv'
<1>1. /\ current = 0 /\ pending # << >>
      /\ current' = Head(pending) /\ pending' = Tail(pending)
      /\ UNCHANGED <<asked, history>>
  BY DEF TakeQuestion
<1>2. /\ pending \in Seq(1..MaxAsks) /\ asked \in Nat /\ MaxAsks \in Nat
      /\ \A i \in DOMAIN pending : pending[i] = asked - Len(pending) + i
  BY ChatAssumption DEF OrderInv, OrderTypes, QuestionsInOrder
<1>3. /\ pending' \in Seq(1..MaxAsks) /\ Len(pending') = Len(pending) - 1
      /\ \A i \in DOMAIN pending' : i + 1 \in DOMAIN pending /\ pending'[i] = pending[i + 1]
      /\ current' = pending[1] /\ 1 \in DOMAIN pending /\ current' \in 1..MaxAsks
  BY <1>1, <1>2
<1>4. OrderTypes'
  BY <1>1, <1>3 DEF OrderInv, OrderTypes
<1>5. /\ current' = asked' - Len(pending')
      /\ \A i \in DOMAIN pending' : pending'[i] = asked' - Len(pending') + i
  BY <1>1, <1>2, <1>3
<1>6. asked' - Len(pending') - Underway' = asked - Len(pending) - Underway
  BY <1>1, <1>2, <1>3 DEF Underway
<1>7. \A i \in DOMAIN history' :
          history'[i].id = asked' - Len(pending') - Underway' - Len(history') + i
  BY <1>1, <1>6 DEF OrderInv, QuestionsInOrder
<1> QED
  BY <1>4, <1>5, <1>7 DEF OrderInv, QuestionsInOrder

\* A turn that is appended and a front that is cut off.
LEMMA TurnKeepsOrder ==
    ASSUME OrderInv, current # 0, current' = 0, UNCHANGED <<asked, pending>>,
           NEW a \in Responses, NEW h \in Seq(Turn),
           h = Append(history, [id |-> current, answer |-> a]),
           \/ history' = h
           \/ history' = KeepLast(h, HistoryCap)
    PROVE  OrderInv'
<1>1. /\ current \in 1..MaxAsks /\ history \in Seq(Turn) /\ asked \in Nat
      /\ pending \in Seq(1..MaxAsks) /\ Len(pending) \in Nat
      /\ HistoryCap \in Nat \ {0}
  BY ChatAssumption DEF OrderInv, OrderTypes
<1>2. /\ Len(h) = Len(history) + 1
      /\ \A i \in 1..Len(history) : h[i] = history[i]
      /\ h[Len(history) + 1].id = current
  BY <1>1
<1>3. current = asked - Len(pending)
  BY DEF OrderInv, QuestionsInOrder
<1>4. Underway = 1 /\ Underway' = 0
  BY DEF Underway
<1>5. \A i \in DOMAIN h : h[i].id = asked - Len(pending) - Len(h) + i
  <2> SUFFICES ASSUME NEW i \in 1..(Len(history) + 1)
               PROVE  h[i].id = asked - Len(pending) - Len(h) + i
    <3>1. DOMAIN h = 1..(Len(history) + 1)
      BY <1>2
    <3> QED
      BY <3>1
  <2>1. CASE i = Len(history) + 1
    BY <1>1, <1>2, <1>3, <2>1
  <2>2. CASE i \in 1..Len(history)
    <3>1. history[i].id = asked - Len(pending) - Underway - Len(history) + i
      <4>1. i \in DOMAIN history
        BY <1>1, <2>2
      <4> QED
        BY <4>1 DEF OrderInv, QuestionsInOrder
    <3> QED
      BY <1>1, <1>2, <1>4, <2>2, <3>1
  <2> QED
    BY <1>1, <2>1, <2>2
<1>6. /\ history' \in Seq(Turn)
      /\ \A i \in DOMAIN history' :
            /\ i + (Len(h) - Len(history')) \in DOMAIN h
            /\ history'[i] = h[i + (Len(h) - Len(history'))]
  <2>1. CASE history' = h
    BY <2>1
  <2>2. CASE history' = KeepLast(h, HistoryCap)
    BY <1>1, <2>2, KeptLast
  <2> QED
    BY <2>1, <2>2
<1>7. \A i \in DOMAIN history' :
          history'[i].id = asked - Len(pending) - Len(history') + i
  <2> SUFFICES ASSUME NEW i \in DOMAIN history'
               PROVE  history'[i].id = asked - Len(pending) - Len(history') + i
    OBVIOUS
  <2>1. i \in Int /\ Len(history') \in Nat /\ Len(h) \in Nat
    BY <1>6
  <2>2. history'[i].id = asked - Len(pending) - Len(h) + (i + (Len(h) - Len(history')))
    BY <1>5, <1>6
  <2> QED
    BY <1>1, <2>1, <2>2
<1>8. OrderTypes'
  <2>1. 0 \in 0..MaxAsks
    BY ChatAssumption
  <2> QED
    BY <1>6, <2>1 DEF OrderInv, OrderTypes
<1>9. QuestionsInOrder'
  BY <1>1, <1>4, <1>6, <1>7 DEF OrderInv, QuestionsInOrder
<1> QED
  BY <1>8, <1>9 DEF OrderInv

LEMMA OrderInit == Init => OrderInv
BY ChatAssumption DEF Init, ChatInit, OrderInv, OrderTypes, QuestionsInOrder

LEMMA OrderUnchanged == OrderInv /\ UNCHANGED orderVars => OrderInv'
BY DEF orderVars, OrderInv, OrderTypes, QuestionsInOrder, Underway

LEMMA OrderStep == OrderInv /\ [Next]_allVars => OrderInv'
<1> SUFFICES ASSUME OrderInv, [Next]_allVars
             PROVE  OrderInv'
  OBVIOUS
<1>1. CASE UNCHANGED allVars
  BY <1>1, OrderUnchanged DEF allVars, chatVars, orderVars
<1>2. CASE Engine
  <2>1. CASE TakeQuestion
    BY <2>1, TakeKeepsOrder
  <2>2. ASSUME NEW a \in Responses,
               \/ Answer(a)
               \/ a = Failure /\ AnswerFails
        PROVE  OrderInv'
    <3>1. current \in 1..MaxAsks /\ history \in Seq(Turn)
      BY <2>2 DEF OrderInv, OrderTypes, Answer, AnswerFails
    <3>2. [id |-> current, answer |-> a] \in Turn
      BY <3>1 DEF Turn, Responses
    <3>3. Append(history, [id |-> current, answer |-> a]) \in Seq(Turn)
      BY <3>1, <3>2
    <3> QED
      BY <2>2, <3>3, TurnKeepsOrder DEF Answer, AnswerFails
  <2>3. CASE ChatEnds
    BY <2>3, OrderUnchanged DEF ChatEnds, orderVars
  <2> QED
    BY <1>2, <2>1, <2>2, <2>3 DEF Engine, Responses
<1>3. CASE UserAsk \/ AutopilotAsk
  BY <1>3, AskKeepsOrder DEF UserAsk, AutopilotAsk, People
<1>4. CASE UNCHANGED orderVars
  BY <1>4, OrderUnchanged
<1>5. Robot => AutopilotAsk \/ UNCHANGED orderVars
  BY DEF Robot, ReadLength, Poll, GiveUp, AutopilotEnds, AutopilotAim, orderVars
<1>6. User => UserAsk \/ UNCHANGED orderVars
  BY DEF User, ToggleStop, Quit, UserAim, orderVars
<1>7. StopNext => UNCHANGED orderVars
  BY DEF StopNext, orderVars
<1>8. ASSUME NEW p \in People, Calls(p)
      PROVE  UNCHANGED orderVars
  BY <1>8 DEF Calls, PushText, GiveRating, Rate, orderVars
<1>9. ToggleTraining => UNCHANGED orderVars
  BY DEF ToggleTraining, chatVars, orderVars
<1>10. ASSUME NEW waited \in BOOLEAN, Fill(waited)
       PROVE  UNCHANGED orderVars
  BY <1>10 DEF Fill, orderVars
<1>11. ContinualRound => UNCHANGED orderVars
  BY DEF ContinualRound, ContinualStep, ContinualSubmit, ContinualFails, chatVars, orderVars
<1>12. FillBank \/ FeedbackRound => UNCHANGED orderVars
  BY DEF FillBank, FeedbackRound, FeedbackStep, FeedbackEnds, chatVars, orderVars
<1>13. TrainerEnds("continual", continual.pc) \/ TrainerEnds("feedback", feedback.pc)
          => UNCHANGED orderVars
  BY DEF TrainerEnds, orderVars
<1> QED
  BY <1>1, <1>2, <1>3, <1>4, <1>5, <1>6, <1>7, <1>8, <1>9, <1>10, <1>11, <1>12, <1>13 DEF Next

\* One worker over one queue answers every question once and in order, through
\* failed generations, trimming and shutdown, for any caps and any number of
\* questions (chat.cpp:36-45, 85-176).
THEOREM AnswersInOrder == Spec => []QuestionsInOrder
<1>1. OrderInv => QuestionsInOrder
  BY DEF OrderInv
<1> QED
  BY <1>1, OrderInit, OrderStep, PTL DEF Spec

-----------------------------------------------------------------------------
(* Texts.                                                                   *)

Asks == 1..MaxAsks

Hands ==
    {Idle} \cup {Telling(id) : id \in Asks} \cup {Aiming(i, x) : i \in Nat, x \in Scores}

Continual ==
    [pc : {"loop", "train"}, buffer : Seq(Asks), taken : Seq(Asks), steps : 0..LocalSteps]

TextTypes ==
    /\ asked \in 0..MaxAsks
    /\ texts \in Seq(Asks)
    /\ hand \in [People -> Hands]
    /\ continual \in Continual
    /\ learnt \subseteq Asks

Different(s) == \A i, j \in DOMAIN s : s[i] = s[j] => i = j

\* The places a text passes through, one after the other.
Apart(hub, buffer, taken, done) ==
    /\ Different(hub) /\ Different(buffer) /\ Different(taken)
    /\ Texts(hub) \cap Texts(buffer) = {}
    /\ Texts(hub) \cap Texts(taken) = {}
    /\ Texts(buffer) \cap Texts(taken) = {}
    /\ (Texts(hub) \cup Texts(buffer) \cup Texts(taken)) \cap done = {}

Told == Texts(texts) \cup Texts(continual.buffer) \cup Texts(continual.taken) \cup learnt

HandsApart ==
    /\ \A p \in Untold : hand[p].text <= asked /\ hand[p].text \notin Told
    /\ \A p, q \in Untold : hand[p].text = hand[q].text => p = q

TextsInv ==
    /\ TextTypes
    /\ continual.pc = "loop" => continual.taken = << >>
    /\ Apart(texts, continual.buffer, continual.taken, learnt)
    /\ \A id \in Told : id <= asked
    /\ HandsApart

LEMMA Joined2 ==
    ASSUME NEW a \in Seq(Asks), NEW b \in Seq(Asks)
    PROVE  /\ a \o b \in Seq(Asks)
           /\ Texts(a \o b) = Texts(a) \cup Texts(b)
           /\ Different(a) /\ Different(b) /\ Texts(a) \cap Texts(b) = {} => Different(a \o b)
<1>1. /\ a \o b \in Seq(Asks)
      /\ Len(a) \in Nat /\ Len(b) \in Nat
      /\ DOMAIN a = 1..Len(a) /\ DOMAIN b = 1..Len(b)
      /\ DOMAIN (a \o b) = 1..(Len(a) + Len(b))
      /\ \A i \in 1..Len(a) : (a \o b)[i] = a[i]
      /\ \A i \in (Len(a) + 1)..(Len(a) + Len(b)) : (a \o b)[i] = b[i - Len(a)]
  OBVIOUS
<1>2. \A i \in DOMAIN (a \o b) :
         \/ i \in DOMAIN a /\ (a \o b)[i] = a[i]
         \/ i - Len(a) \in DOMAIN b /\ i \in Int /\ (a \o b)[i] = b[i - Len(a)]
  BY <1>1
<1>3. \A i \in DOMAIN b : i + Len(a) \in DOMAIN (a \o b) /\ (a \o b)[i + Len(a)] = b[i]
  BY <1>1
<1>4. \A i \in DOMAIN a : i \in DOMAIN (a \o b) /\ (a \o b)[i] = a[i]
  BY <1>1
<1>5. Texts(a \o b) = Texts(a) \cup Texts(b)
  <2>1. Texts(a \o b) \subseteq Texts(a) \cup Texts(b)
    BY <1>2 DEF Texts
  <2>2. Texts(a) \cup Texts(b) \subseteq Texts(a \o b)
    BY <1>3, <1>4 DEF Texts
  <2> QED
    BY <2>1, <2>2
<1>6. ASSUME Different(a), Different(b), Texts(a) \cap Texts(b) = {}
      PROVE  Different(a \o b)
  <2> SUFFICES ASSUME NEW i \in DOMAIN (a \o b), NEW j \in DOMAIN (a \o b),
                      (a \o b)[i] = (a \o b)[j]
               PROVE  i = j
    BY DEF Different
  <2>1. \A k \in DOMAIN a, l \in DOMAIN b : a[k] # b[l]
    BY <1>6 DEF Texts
  <2>2. CASE i \in DOMAIN a /\ (a \o b)[i] = a[i]
    BY <1>2, <1>6, <2>1, <2>2 DEF Different
  <2>3. CASE i - Len(a) \in DOMAIN b /\ i \in Int /\ (a \o b)[i] = b[i - Len(a)]
    <3>1. j - Len(a) \in DOMAIN b /\ j \in Int /\ (a \o b)[j] = b[j - Len(a)]
      BY <1>2, <2>1, <2>3
    <3>2. i - Len(a) = j - Len(a)
      BY <1>6, <2>3, <3>1 DEF Different
    <3> QED
      BY <1>1, <2>3, <3>1, <3>2
  <2> QED
    BY <1>2, <2>2, <2>3
<1> QED
  BY <1>1, <1>5, <1>6

\* Part of a sequence holds part of its texts, each once.
LEMMA PartOf ==
    ASSUME NEW s \in Seq(Asks), NEW t \in Seq(Asks), NEW d \in Int,
           \A i \in DOMAIN t : i + d \in DOMAIN s /\ t[i] = s[i + d]
    PROVE  /\ Texts(t) \subseteq Texts(s)
           /\ Different(s) => Different(t)
<1>1. Texts(t) \subseteq Texts(s)
  BY DEF Texts
<1>2. ASSUME Different(s), NEW i \in DOMAIN t, NEW j \in DOMAIN t, t[i] = t[j]
      PROVE  i = j
  <2>1. i + d = j + d
    BY <1>2 DEF Different
  <2>2. i \in Int /\ j \in Int
    BY <1>2
  <2> QED
    BY <2>1, <2>2
<1> QED
  BY <1>1, <1>2 DEF Different

LEMMA KeptTexts ==
    ASSUME NEW s \in Seq(Asks), NEW cap \in Nat
    PROVE  /\ KeepLast(s, cap) \in Seq(Asks)
           /\ Texts(KeepLast(s, cap)) \subseteq Texts(s)
           /\ Different(s) => Different(KeepLast(s, cap))
<1> DEFINE d == Len(s) - Len(KeepLast(s, cap))
<1>1. /\ KeepLast(s, cap) \in Seq(Asks)
      /\ \A i \in DOMAIN KeepLast(s, cap) :
            i + d \in DOMAIN s /\ KeepLast(s, cap)[i] = s[i + d]
  BY KeptLast
<1>2. d \in Int
  BY <1>1
<1> HIDE DEF d
<1> QED
  BY <1>1, <1>2, PartOf

\* What is drained and what is left are two parts of the hub's texts.
LEMMA DrainSplits ==
    ASSUME NEW s \in Seq(Asks)
    PROVE  /\ Drained(s) \in Seq(Asks) /\ Undrained(s) \in Seq(Asks)
           /\ Texts(Drained(s)) \subseteq Texts(s) /\ Texts(Undrained(s)) \subseteq Texts(s)
           /\ Different(s) =>
                 /\ Different(Drained(s)) /\ Different(Undrained(s))
                 /\ Texts(Drained(s)) \cap Texts(Undrained(s)) = {}
<1> DEFINE n == IF Len(s) < DrainMax THEN Len(s) ELSE DrainMax
<1>1. n \in 0..Len(s) /\ Len(s) \in Nat
  BY LearningAssumption
<1>2. /\ Drained(s) = SubSeq(s, 1, n)
      /\ Undrained(s) = SubSeq(s, Len(Drained(s)) + 1, Len(s))
  BY DEF Drained, Undrained
<1> HIDE DEF n
<1>3. /\ Drained(s) \in Seq(Asks)
      /\ Len(Drained(s)) = n /\ DOMAIN Drained(s) = 1..n
      /\ \A i \in 1..n : i + 0 \in DOMAIN s /\ Drained(s)[i] = s[i + 0]
  BY <1>1, <1>2
<1>4. /\ Undrained(s) \in Seq(Asks)
      /\ Len(Undrained(s)) = Len(s) - n /\ DOMAIN Undrained(s) = 1..(Len(s) - n)
      /\ \A i \in 1..(Len(s) - n) : i + n \in DOMAIN s /\ Undrained(s)[i] = s[i + n]
  <2>1. Undrained(s) = SubSeq(s, n + 1, Len(s))
    BY <1>2, <1>3
  <2> QED
    BY <1>1, <2>1
<1>5. /\ Texts(Drained(s)) \subseteq Texts(s)
      /\ Different(s) => Different(Drained(s))
  <2>1. \A i \in DOMAIN Drained(s) : i + 0 \in DOMAIN s /\ Drained(s)[i] = s[i + 0]
    BY <1>3, Zenon
  <2>2. 0 \in Int
    OBVIOUS
  <2> QED
    BY <1>3, <2>1, <2>2, PartOf
<1>6. /\ Texts(Undrained(s)) \subseteq Texts(s)
      /\ Different(s) => Different(Undrained(s))
  <2>1. \A i \in DOMAIN Undrained(s) : i + n \in DOMAIN s /\ Undrained(s)[i] = s[i + n]
    BY <1>4, Zenon
  <2>2. n \in Int
    BY <1>1
  <2> QED
    BY <1>4, <2>1, <2>2, PartOf
<1>7. ASSUME Different(s), NEW i \in 1..n, NEW j \in 1..(Len(s) - n)
      PROVE  Drained(s)[i] # Undrained(s)[j]
  <2>1. i # j + n /\ i \in DOMAIN s /\ j + n \in DOMAIN s
    BY <1>1, <1>7
  <2>2. s[i] # s[j + n]
    BY <1>7, <2>1 DEF Different
  <2> QED
    BY <1>1, <1>3, <1>4, <2>2
<1>8. Different(s) => Texts(Drained(s)) \cap Texts(Undrained(s)) = {}
  BY <1>3, <1>4, <1>7 DEF Texts
<1> QED
  BY <1>3, <1>4, <1>5, <1>6, <1>8

textVars == <<asked, texts, hand, continual, learnt>>

LEMMA TextsInit == Init => TextsInv
<1> SUFFICES ASSUME Init
             PROVE  TextsInv
  OBVIOUS
<1>1. TextTypes
  <2>1. continual \in Continual
    BY LearningAssumption DEF Init, Continual
  <2>2. hand \in [People -> Hands] /\ asked = 0 /\ texts = << >> /\ learnt = {}
    BY DEF Init, ChatInit, Hands
  <2> QED
    BY <2>1, <2>2, ChatAssumption DEF TextTypes
<1>2. /\ texts = << >> /\ continual.buffer = << >> /\ continual.taken = << >> /\ learnt = {}
      /\ Untold = {}
  BY DEF Init, ChatInit, Untold, Idle
<1>3. Texts(<< >>) = {} /\ Different(<< >>)
  BY DEF Texts, Different
<1>4. Told = {} /\ Apart(texts, continual.buffer, continual.taken, learnt)
  BY <1>2, <1>3 DEF Told, Apart
<1> QED
  BY <1>1, <1>2, <1>4 DEF TextsInv, HandsApart

\* A call that is begun or over and tells no text disturbs nothing.
LEMMA HandKeepsTexts ==
    ASSUME TextsInv, NEW p \in People, NEW h \in Hands, h.do # "push_text",
           hand' = [hand EXCEPT ![p] = h], UNCHANGED <<asked, texts, continual, learnt>>
    PROVE  TextsInv'
<1>1. hand \in [People -> Hands] /\ hand' \in [People -> Hands]
  BY DEF TextsInv, TextTypes
<1>2. /\ \A q \in People : q # p => hand'[q] = hand[q]
      /\ hand'[p] = h
  BY <1>1
<1>3. Untold' \subseteq Untold /\ \A q \in Untold' : hand'[q] = hand[q]
  BY <1>2 DEF Untold
<1>4. Told' = Told
  BY DEF Told
<1>5. HandsApart'
  BY <1>3, <1>4 DEF HandsApart, TextsInv
<1>6. Apart(texts, continual.buffer, continual.taken, learnt)'
  BY DEF TextsInv
<1> QED
  BY <1>1, <1>4, <1>5, <1>6 DEF TextsInv, TextTypes

\* A new question gives a text of a number above all others.
LEMMA AskKeepsTexts ==
    ASSUME TextsInv, NEW p \in People, AskFirst(p), UNCHANGED <<texts, continual, learnt>>
    PROVE  TextsInv'
<1>1. /\ asked < MaxAsks /\ asked' = asked + 1
      /\ hand' = [hand EXCEPT ![p] = Telling(asked + 1)]
      /\ hand[p].do = "nothing"
  BY DEF AskFirst
<1>2. asked \in Nat /\ MaxAsks \in Nat /\ asked + 1 \in Asks /\ asked' \in 0..MaxAsks
  BY <1>1, ChatAssumption DEF TextsInv, TextTypes, Asks
<1>3. Telling(asked + 1) \in Hands
  <2>1. Telling(asked + 1) \in {Telling(id) : id \in Asks}
    BY <1>2, Zenon
  <2> QED
    BY <2>1 DEF Hands
<1>4. hand \in [People -> Hands] /\ hand' \in [People -> Hands]
  BY <1>1, <1>3 DEF TextsInv, TextTypes
<1>5. /\ \A q \in People : q # p => hand'[q] = hand[q]
      /\ hand'[p].text = asked + 1
  BY <1>1, <1>4 DEF Telling
<1>6. Told' = Told /\ \A id \in Told : id \in Int /\ id <= asked
  <2>1. Told \subseteq Asks
    BY DEF TextsInv, TextTypes, Told, Texts, Continual
  <2> QED
    BY <2>1 DEF TextsInv, Told, Asks
<1>7. \A id \in Told' : id <= asked'
  BY <1>1, <1>2, <1>6
<1>8. ASSUME NEW q \in Untold', q # p
      PROVE  q \in Untold /\ hand'[q] = hand[q]
  <2>1. q \in People /\ hand'[q].do = "push_text"
    BY DEF Untold
  <2>2. hand'[q] = hand[q]
    BY <1>5, <1>8, <2>1
  <2> QED
    BY <2>1, <2>2 DEF Untold
<1>9. \A q \in Untold : hand[q].text <= asked /\ hand[q].text \in Int /\ hand[q].text \notin Told
  <2>1. \A q \in Untold : hand[q].text \in Asks
    BY <1>4 DEF Untold, Hands, Idle, Telling, Aiming
  <2> QED
    BY <2>1 DEF TextsInv, HandsApart, Asks
<1>10. HandsApart'
  <2>1. ASSUME NEW q \in Untold'
        PROVE  hand'[q].text <= asked' /\ hand'[q].text \notin Told'
    BY <1>1, <1>2, <1>5, <1>6, <1>8, <1>9
  <2>2. ASSUME NEW q \in Untold', NEW o \in Untold', hand'[q].text = hand'[o].text
        PROVE  q = o
    BY <1>2, <1>5, <1>8, <1>9, <2>2 DEF TextsInv, HandsApart
  <2> QED
    BY <2>1, <2>2 DEF HandsApart
<1>11. Apart(texts, continual.buffer, continual.taken, learnt)'
  BY DEF TextsInv
<1> QED
  BY <1>2, <1>4, <1>7, <1>10, <1>11 DEF TextsInv, TextTypes

\* Whatever only moves texts from one place to the next, or loses them, keeps the
\* new places as good as the old ones.
LEMMA MoveKeepsTexts ==
    ASSUME TextsInv, TextTypes', UNCHANGED <<asked, hand>>,
           continual'.pc = "loop" => continual'.taken = << >>,
           Apart(texts', continual'.buffer, continual'.taken, learnt'),
           Told' \subseteq Told
    PROVE  TextsInv'
<1>1. Untold' = Untold
  BY DEF Untold
<1>2. HandsApart'
  <2>1. ASSUME NEW p \in Untold
        PROVE  hand'[p].text <= asked' /\ hand'[p].text \notin Told'
    BY DEF TextsInv, HandsApart
  <2>2. ASSUME NEW p \in Untold, NEW q \in Untold, hand'[p].text = hand'[q].text
        PROVE  p = q
    BY <2>2 DEF TextsInv, HandsApart
  <2> QED
    BY <1>1, <2>1, <2>2 DEF HandsApart
<1>3. \A id \in Told' : id <= asked'
  BY DEF TextsInv
<1>4. Apart(texts, continual.buffer, continual.taken, learnt)'
  OBVIOUS
<1> QED
  BY <1>2, <1>3, <1>4 DEF TextsInv

\* The hub is told: the text leaves the caller's hand, and the hub may drop its
\* oldest one.
LEMMA PushKeepsTexts ==
    ASSUME TextsInv, NEW p \in People, PushText(p), UNCHANGED <<continual, learnt>>
    PROVE  TextsInv'
<1> DEFINE id == hand[p].text
           longer == texts \o <<id>>
<1>1. /\ p \in Untold /\ asked' = asked
      /\ texts' = KeepLast(Append(texts, id), HubCap)
      /\ hand' = [hand EXCEPT ![p] = Idle]
  BY DEF PushText, Untold
<1>2. /\ hand \in [People -> Hands] /\ texts \in Seq(Asks)
      /\ continual.buffer \in Seq(Asks) /\ continual.taken \in Seq(Asks)
  BY DEF TextsInv, TextTypes, Continual
<1>3. id \in Asks
  BY <1>1, <1>2 DEF Untold, Hands, Idle, Telling, Aiming
<1>4. id \notin Told /\ id <= asked
  BY <1>1 DEF TextsInv, HandsApart
<1>5. /\ longer = Append(texts, id)
      /\ <<id>> \in Seq(Asks) /\ Texts(<<id>>) = {id} /\ Different(<<id>>)
  <2>1. DOMAIN <<id>> = {1} /\ <<id>>[1] = id
    OBVIOUS
  <2>2. Texts(<<id>>) = {id} /\ Different(<<id>>)
    BY <2>1 DEF Texts, Different
  <2> QED
    BY <1>2, <1>3, <2>2
<1> HIDE DEF id
<1>6. /\ longer \in Seq(Asks) /\ Texts(longer) = Texts(texts) \cup {id}
      /\ Different(longer)
  <2>1. Different(texts) /\ Texts(texts) \cap {id} = {}
    BY <1>4 DEF TextsInv, Apart, Told
  <2> QED
    BY <1>2, <1>5, <2>1, Joined2
<1> HIDE DEF longer
<1>7. /\ texts' \in Seq(Asks) /\ Different(texts')
      /\ Texts(texts') \subseteq Texts(texts) \cup {id}
  <2>1. HubCap \in Nat
    BY ChatAssumption
  <2> QED
    BY <1>1, <1>5, <1>6, <2>1, KeptTexts
<1>8. Told' \subseteq Told \cup {id}
  BY <1>7 DEF Told
<1>9. \A q \in Untold' : q \in Untold /\ q # p /\ hand'[q] = hand[q]
  <2>1. \A q \in People : q # p => hand'[q] = hand[q]
    BY <1>1, <1>2
  <2>2. hand'[p].do # "push_text"
    BY <1>1, <1>2 DEF Idle
  <2> QED
    BY <2>1, <2>2 DEF Untold
<1>10. HandsApart'
  <2>1. ASSUME NEW q \in Untold'
        PROVE  hand'[q].text <= asked' /\ hand'[q].text \notin Told'
    <3>1. hand[q].text <= asked /\ hand[q].text \notin Told /\ hand[q].text # id
      BY <1>1, <1>9 DEF TextsInv, HandsApart, id
    <3> QED
      BY <1>1, <1>8, <1>9, <3>1
  <2>2. ASSUME NEW q \in Untold', NEW o \in Untold', hand'[q].text = hand'[o].text
        PROVE  q = o
    BY <1>9, <2>2 DEF TextsInv, HandsApart
  <2> QED
    BY <2>1, <2>2 DEF HandsApart
<1>11. Apart(texts', continual.buffer, continual.taken, learnt)
  BY <1>4, <1>7 DEF TextsInv, Apart, Told
<1>12. TextTypes'
  <2>1. hand' \in [People -> Hands]
    BY <1>1, <1>2 DEF Hands
  <2> QED
    BY <1>1, <1>7, <2>1 DEF TextsInv, TextTypes
<1>13. \A x \in Told' : x <= asked'
  BY <1>1, <1>4, <1>8 DEF TextsInv
<1> QED
  BY <1>10, <1>11, <1>12, <1>13 DEF TextsInv

\* The continual trainer drains the hub into its buffer and may take the buffer.
LEMMA FillKeepsTexts ==
    ASSUME TextsInv, NEW waited \in BOOLEAN, Fill(waited)
    PROVE  TextsInv'
<1> DEFINE joined == continual.buffer \o Drained(texts)
           full == KeepLast(joined, BufferCap)
<1>1. /\ continual.pc = "loop" /\ continual.taken = << >>
      /\ texts' = Undrained(texts)
      /\ UNCHANGED <<asked, hand, learnt>>
      /\ \/ continual' = [pc |-> "train", buffer |-> << >>, taken |-> full, steps |-> 0]
         \/ continual' = [continual EXCEPT !.buffer = full]
  BY DEF Fill, TextsInv
<1>2. /\ continual \in Continual
      /\ texts \in Seq(Asks) /\ continual.buffer \in Seq(Asks)
  BY DEF TextsInv, TextTypes, Continual
<1>3. /\ Different(texts) /\ Different(continual.buffer)
      /\ Texts(texts) \cap Texts(continual.buffer) = {}
      /\ Texts(texts) \cap learnt = {} /\ Texts(continual.buffer) \cap learnt = {}
  BY DEF TextsInv, Apart
<1>4. /\ Drained(texts) \in Seq(Asks) /\ Undrained(texts) \in Seq(Asks)
      /\ Texts(Drained(texts)) \subseteq Texts(texts)
      /\ Texts(Undrained(texts)) \subseteq Texts(texts)
      /\ Different(Drained(texts)) /\ Different(Undrained(texts))
      /\ Texts(Drained(texts)) \cap Texts(Undrained(texts)) = {}
  BY <1>2, <1>3, DrainSplits
<1>5. /\ joined \in Seq(Asks) /\ Different(joined)
      /\ Texts(joined) = Texts(continual.buffer) \cup Texts(Drained(texts))
  <2>1. Texts(continual.buffer) \cap Texts(Drained(texts)) = {}
    BY <1>3, <1>4
  <2> QED
    BY <1>2, <1>3, <1>4, <2>1, Joined2
<1> HIDE DEF joined
<1>6. /\ full \in Seq(Asks) /\ Different(full)
      /\ Texts(full) \subseteq Texts(joined)
  BY <1>5, KeptTexts, LearningAssumption
<1> HIDE DEF full
<1>7. Texts(<< >>) = {} /\ Different(<< >>) /\ << >> \in Seq(Asks)
  BY DEF Texts, Different
<1>8. /\ Texts(full) \cap Texts(texts') = {} /\ Texts(full) \cap learnt = {}
      /\ Texts(full) \cup Texts(texts') \subseteq Texts(texts) \cup Texts(continual.buffer)
      /\ Texts(texts') \cap learnt = {} /\ Different(texts')
  BY <1>1, <1>3, <1>4, <1>5, <1>6
<1>9. CASE continual' = [pc |-> "train", buffer |-> << >>, taken |-> full, steps |-> 0]
  <2>1. continual'.pc = "train" /\ continual'.buffer = << >> /\ continual'.taken = full
    BY <1>9
  <2>2. continual' \in Continual
    BY <1>6, <1>7, <1>9, LearningAssumption DEF Continual
  <2>3. TextTypes'
    BY <1>1, <1>4, <2>2 DEF TextsInv, TextTypes
  <2>4. Apart(texts', continual'.buffer, continual'.taken, learnt')
    BY <1>1, <1>6, <1>7, <1>8, <2>1 DEF Apart
  <2>5. Told' \subseteq Told
    BY <1>1, <1>7, <1>8, <2>1 DEF Told
  <2> QED
    BY <1>1, <2>1, <2>3, <2>4, <2>5, MoveKeepsTexts
<1>10. CASE continual' = [continual EXCEPT !.buffer = full]
  <2>1. continual'.buffer = full /\ continual'.taken = << >>
    BY <1>1, <1>2, <1>10 DEF Continual
  <2>2. continual' \in Continual
    BY <1>2, <1>6, <1>10 DEF Continual
  <2>3. TextTypes'
    BY <1>1, <1>4, <2>2 DEF TextsInv, TextTypes
  <2>4. Apart(texts', continual'.buffer, continual'.taken, learnt')
    BY <1>1, <1>6, <1>7, <1>8, <2>1 DEF Apart
  <2>5. Told' \subseteq Told
    BY <1>1, <1>7, <1>8, <2>1 DEF Told
  <2> QED
    BY <1>1, <2>1, <2>3, <2>4, <2>5, MoveKeepsTexts
<1> QED
  BY <1>1, <1>9, <1>10

\* A round goes on, is submitted or fails.
LEMMA RoundKeepsTexts ==
    ASSUME TextsInv, ContinualRound
    PROVE  TextsInv'
<1>1. /\ continual \in Continual /\ texts \in Seq(Asks) /\ learnt \subseteq Asks
      /\ continual.buffer \in Seq(Asks) /\ continual.taken \in Seq(Asks)
  BY DEF TextsInv, TextTypes, Continual
<1>2. /\ UNCHANGED <<asked, hand, texts>> /\ continual.pc = "train"
  BY DEF ContinualRound, ContinualStep, ContinualSubmit, ContinualFails, chatVars
<1>3. Texts(<< >>) = {} /\ Different(<< >>) /\ << >> \in Seq(Asks)
  BY DEF Texts, Different
<1>4. CASE ContinualStep
  <2>1. /\ continual' = [continual EXCEPT !.steps = @ + 1]
        /\ continual.steps < LocalSteps /\ learnt' = learnt
    BY <1>4 DEF ContinualStep
  <2>2. continual' \in Continual
    <3>1. continual.steps + 1 \in 0..LocalSteps
      BY <1>1, <2>1, LearningAssumption DEF Continual
    <3> DEFINE n == continual.steps + 1
    <3>2. n \in 0..LocalSteps /\ continual' = [continual EXCEPT !.steps = n]
      BY <2>1, <3>1
    <3> HIDE DEF n
    <3> QED
      BY <1>1, <3>2, Zenon DEF Continual
  <2>3. /\ continual'.pc = "train" /\ continual'.buffer = continual.buffer
        /\ continual'.taken = continual.taken
    BY <1>1, <1>2, <2>1 DEF Continual
  <2>4. TextTypes' /\ Told' = Told
    BY <1>2, <2>1, <2>2, <2>3 DEF TextsInv, TextTypes, Told
  <2>5. Apart(texts', continual'.buffer, continual'.taken, learnt')
    BY <1>2, <2>1, <2>3 DEF TextsInv
  <2> QED
    BY <1>2, <2>3, <2>4, <2>5, MoveKeepsTexts
<1>5. CASE ContinualSubmit \/ ContinualFails
  <2>1. continual' = [continual EXCEPT !.pc = "loop", !.taken = << >>, !.steps = 0]
    BY <1>5 DEF ContinualSubmit, ContinualFails
  <2>2. continual' \in Continual
    <3>1. 0 \in 0..LocalSteps
      BY LearningAssumption
    <3>2. \A e \in Seq(Asks), z \in 0..LocalSteps :
             [continual EXCEPT !.pc = "loop", !.taken = e, !.steps = z] \in Continual
      BY <1>1 DEF Continual
    <3> QED
      BY <1>3, <2>1, <3>1, <3>2, Zenon
  <2>3. continual'.buffer = continual.buffer /\ continual'.taken = << >>
    BY <1>1, <2>1 DEF Continual
  <2>4. /\ learnt' \subseteq learnt \cup Texts(continual.taken)
        /\ Texts(continual.taken) \subseteq Asks
    BY <1>1, <1>5 DEF ContinualSubmit, ContinualFails, Texts
  <2>5. TextTypes' /\ Told' \subseteq Told
    BY <1>1, <1>2, <1>3, <2>2, <2>3, <2>4 DEF TextsInv, TextTypes, Told
  <2>6. Apart(texts', continual'.buffer, continual'.taken, learnt')
    BY <1>2, <1>3, <2>3, <2>4 DEF TextsInv, Apart
  <2> QED
    BY <1>2, <2>3, <2>5, <2>6, MoveKeepsTexts
<1> QED
  BY <1>4, <1>5 DEF ContinualRound

LEMMA TextsUnchanged == TextsInv /\ UNCHANGED textVars => TextsInv'
<1> SUFFICES ASSUME TextsInv, UNCHANGED textVars
             PROVE  TextsInv'
  OBVIOUS
<1>1. UNCHANGED <<asked, texts, hand, continual, learnt>>
  BY DEF textVars
<1>2. TextTypes' /\ Told' = Told
  BY <1>1 DEF TextsInv, TextTypes, Told
<1>3. /\ continual'.pc = "loop" => continual'.taken = << >>
      /\ Apart(texts', continual'.buffer, continual'.taken, learnt')
  BY <1>1 DEF TextsInv
<1> QED
  BY <1>1, <1>2, <1>3, MoveKeepsTexts

LEMMA TextsStep == TextsInv /\ OrderInv /\ [Next]_allVars => TextsInv'
<1> SUFFICES ASSUME TextsInv, OrderInv, [Next]_allVars
             PROVE  TextsInv'
  OBVIOUS
<1>1. "user" \in People /\ "autopilot" \in People /\ Idle \in Hands /\ Idle.do # "push_text"
  BY DEF People, Hands, Idle
<1>2. \A i \in Nat, x \in Scores : Aiming(i, x) \in Hands /\ Aiming(i, x).do # "push_text"
  <2>1. ASSUME NEW i \in Nat, NEW x \in Scores
        PROVE  Aiming(i, x) \in {Aiming(k, y) : k \in Nat, y \in Scores}
    OBVIOUS
  <2>2. \A i \in Nat, x \in Scores : Aiming(i, x).do # "push_text"
    BY DEF Aiming
  <2> QED
    BY <2>1, <2>2 DEF Hands
<1>3. CASE UNCHANGED allVars
  BY <1>3, TextsUnchanged DEF allVars, chatVars, learningVars, textVars
<1>4. CASE Engine /\ UNCHANGED learningVars
  BY <1>4, TextsUnchanged DEF Engine, TakeQuestion, AnswerFails, Answer, ChatEnds,
     learningVars, textVars
<1>5. CASE Robot /\ UNCHANGED learningVars
  <2>1. CASE ReadLength \/ Poll \/ GiveUp \/ AutopilotEnds
    BY <1>5, <2>1, TextsUnchanged DEF ReadLength, Poll, GiveUp, AutopilotEnds,
       learningVars, textVars
  <2>2. CASE AutopilotAsk
    BY <1>1, <1>5, <2>2, AskKeepsTexts DEF AutopilotAsk, learningVars
  <2>3. ASSUME NEW x \in Scores, AutopilotAim(x)
        PROVE  TextsInv'
    <3>1. Len(history) \in Nat
      BY <2>3 DEF OrderInv, OrderTypes
    <3> QED
      BY <1>1, <1>2, <1>5, <2>3, <3>1, HandKeepsTexts DEF AutopilotAim, learningVars
  <2> QED
    BY <1>5, <2>1, <2>2, <2>3 DEF Robot
<1>6. CASE User /\ UNCHANGED learningVars
  <2>1. CASE ToggleStop \/ Quit
    BY <1>6, <2>1, TextsUnchanged DEF ToggleStop, Quit, learningVars, textVars
  <2>2. CASE UserAsk
    BY <1>1, <1>6, <2>2, AskKeepsTexts DEF UserAsk, learningVars
  <2>3. ASSUME NEW i \in DOMAIN history, NEW x \in Scores, UserAim(i, x)
        PROVE  TextsInv'
    <3>1. i \in Nat
      BY <2>3 DEF OrderInv, OrderTypes
    <3> QED
      BY <1>1, <1>2, <1>6, <2>3, <3>1, HandKeepsTexts DEF UserAim, learningVars
  <2> QED
    BY <1>6, <2>1, <2>2, <2>3 DEF User
<1>7. CASE StopNext /\ UNCHANGED learningVars
  BY <1>7, TextsUnchanged DEF StopNext, learningVars, textVars
<1>8. ASSUME NEW p \in People, Calls(p)
      PROVE  TextsInv'
  <2>1. CASE PushText(p) /\ UNCHANGED learningVars
    BY <2>1, PushKeepsTexts DEF learningVars
  <2>2. CASE GiveRating(p)
    BY <1>1, <2>2, HandKeepsTexts DEF GiveRating, Rate
  <2> QED
    BY <1>8, <2>1, <2>2 DEF Calls
<1>9. CASE ToggleTraining
  BY <1>9, TextsUnchanged DEF ToggleTraining, chatVars, textVars
<1>10. ASSUME NEW waited \in BOOLEAN, Fill(waited)
       PROVE  TextsInv'
  BY <1>10, FillKeepsTexts
<1>11. CASE ContinualRound
  BY <1>11, RoundKeepsTexts
<1>12. CASE FillBank \/ FeedbackRound
  BY <1>12, TextsUnchanged DEF FillBank, FeedbackRound, FeedbackStep, FeedbackEnds,
     chatVars, textVars
<1>13. CASE TrainerEnds("continual", continual.pc) \/ TrainerEnds("feedback", feedback.pc)
  BY <1>13, TextsUnchanged DEF TrainerEnds, learningVars, textVars
<1> QED
  BY <1>3, <1>4, <1>5, <1>6, <1>7, <1>8, <1>9, <1>10, <1>11, <1>12, <1>13 DEF Next

\* The places one after the other.
LEMMA TextsApart == TextsInv => TextsOnce
<1> SUFFICES ASSUME TextsInv
             PROVE  TextsOnce
  OBVIOUS
<1> DEFINE front == texts \o continual.buffer
<1>1. /\ texts \in Seq(Asks) /\ continual.buffer \in Seq(Asks)
      /\ continual.taken \in Seq(Asks)
  BY DEF TextsInv, TextTypes, Continual
<1>2. /\ front \in Seq(Asks) /\ Different(front)
      /\ Texts(front) = Texts(texts) \cup Texts(continual.buffer)
  BY <1>1, Joined2 DEF TextsInv, Apart
<1>3. OnTheWay = front \o continual.taken
  BY DEF OnTheWay
<1> HIDE DEF front
<1>4. Texts(front) \cap Texts(continual.taken) = {}
  BY <1>2 DEF TextsInv, Apart
<1>5. /\ Different(OnTheWay)
      /\ Texts(OnTheWay) \cup learnt = Told
      /\ Texts(OnTheWay) \cap learnt = {}
  <2>1. /\ Different(OnTheWay)
        /\ Texts(OnTheWay) = Texts(front) \cup Texts(continual.taken)
    BY <1>1, <1>2, <1>3, <1>4, Joined2 DEF TextsInv, Apart
  <2> QED
    BY <1>2, <2>1 DEF TextsInv, Apart, Told
<1> QED
  BY <1>5 DEF TextsOnce, TextsInv, HandsApart, Different

\* Nothing is trained on twice: in every session, a text is in one place at a
\* time, and what was submitted is in none of them (interaction.h, ready() and
\* round() of train_continual.cpp, whatever fails, stops or overflows between).
THEOREM TextsTrainedOnce == Spec => []TextsOnce
<1>1. Init => TextsInv /\ OrderInv
  BY TextsInit, OrderInit
<1>2. TextsInv /\ OrderInv /\ [Next]_allVars => (TextsInv /\ OrderInv)'
  BY TextsStep, OrderStep
<1> QED
  BY <1>1, <1>2, TextsApart, PTL DEF Spec

-----------------------------------------------------------------------------
(* Ratings: how the bank is counted and what it holds.                       *)

Banks == [Prompts -> [Responses -> Scores \cup {NoScore}]]

\* A bank and the number of its items.
Counted(b) ==
    /\ b.bank \in Banks
    /\ IsFiniteSet(Held(b.bank, Prompts))
    /\ b.items = Cardinality(Held(b.bank, Prompts))

Rates(x, p, a) == x.prompt = p /\ x.answer = a

\* What a bank knows of an answer after a batch: the last rating in it, or what it
\* knew before.
LastOf(batch, n, old, new, p, a) ==
    \/ /\ \A j \in 1..n : Rates(batch[j], p, a) => a = ""
       /\ new[p][a] = old[p][a]
    \/ /\ a # ""
       /\ \E j \in 1..n :
             /\ Rates(batch[j], p, a) /\ new[p][a] = batch[j].score
             /\ \A k \in (j + 1)..n : ~Rates(batch[k], p, a)

LEMMA SampleFields ==
    ASSUME NEW x \in Sample
    PROVE  /\ x.prompt \in Prompts /\ x.answer \in Responses
           /\ x.score \in Scores /\ x.score \in Nat /\ x.score # NoScore
BY ChatAssumption DEF Sample, Responses, NoScore

LEMMA StoredScore ==
    ASSUME NEW b, b.bank \in Banks, NEW x \in Sample, NEW p \in Prompts, NEW a \in Responses
    PROVE  /\ Store(b, x).bank \in Banks
           /\ Store(b, x).bank[p][a] = IF Rates(x, p, a) /\ a # "" THEN x.score ELSE b.bank[p][a]
<1>1. CASE x.answer = ""
  BY <1>1 DEF Store, Rates
<1>2. CASE x.answer # ""
  <2> DEFINE new == [b.bank EXCEPT ![x.prompt][x.answer] = x.score]
  <2>1. Store(b, x).bank = new
    BY <1>2 DEF Store
  <2>2. new \in Banks
    BY SampleFields DEF Banks
  <2>3. new[p][a] = IF Rates(x, p, a) THEN x.score ELSE b.bank[p][a]
    BY SampleFields DEF Banks, Rates
  <2> HIDE DEF new
  <2> QED BY <1>2, <2>1, <2>2, <2>3 DEF Rates
<1> QED BY <1>1, <1>2

LEMMA StoreCounts ==
    ASSUME NEW b, Counted(b), NEW x \in Sample
    PROVE  Counted(Store(b, x))
<1>1. CASE x.answer = ""
  BY <1>1 DEF Store
<1>2. CASE x.answer # ""
  <2> DEFINE old == Held(b.bank, Prompts)
             new == Held(Store(b, x).bank, Prompts)
             key == <<x.prompt, x.answer>>
  <2>1. b.bank \in Banks /\ x.prompt \in Prompts /\ x.answer \in Responses /\ x.score # NoScore
    BY SampleFields DEF Counted
  <2>2. Store(b, x).bank \in Banks
    BY <2>1, StoredScore
  <2>3. \A p \in Prompts, a \in Responses :
            Store(b, x).bank[p][a] = IF p = x.prompt /\ a = x.answer THEN x.score ELSE b.bank[p][a]
    <3> TAKE p \in Prompts, a \in Responses
    <3>1. Store(b, x).bank[p][a] = IF Rates(x, p, a) /\ a # "" THEN x.score ELSE b.bank[p][a]
      BY <2>1, StoredScore
    <3>2. Rates(x, p, a) /\ a # "" <=> p = x.prompt /\ a = x.answer
      BY <1>2 DEF Rates
    <3> QED BY <3>1, <3>2
  <2>4. new = old \cup {key}
    BY <2>1, <2>3 DEF Held, Rated
  <2>5. key \in old <=> b.bank[x.prompt][x.answer] # NoScore
    BY <2>1 DEF Held, Rated
  <2>6. Store(b, x).items = IF b.bank[x.prompt][x.answer] = NoScore THEN b.items + 1 ELSE b.items
    BY <1>2 DEF Store
  <2>7. IsFiniteSet(old) /\ b.items = Cardinality(old)
    BY DEF Counted
  <2> HIDE DEF old, new, key
  <2>8. /\ IsFiniteSet(new)
        /\ Cardinality(new) = IF key \in old THEN Cardinality(old) ELSE Cardinality(old) + 1
    BY <2>4, <2>7, FS_AddElement
  <2>9. Store(b, x).items = Cardinality(new)
    BY <2>5, <2>6, <2>7, <2>8
  <2> QED BY <2>2, <2>8, <2>9 DEF Counted, new
<1> QED BY <1>1, <1>2

\* The bank after each rating of a batch.
AfterEach(f, b, batch, n) ==
    f = [i \in 0..n |-> IF i = 0 THEN b ELSE Store(f[i - 1], batch[i])]

\* The recursion of StoreAll() defines a function.
LEMMA AfterEachExists ==
    ASSUME NEW b, NEW batch, NEW m \in Nat
    PROVE  \E f : AfterEach(f, b, batch, m)
<1> DEFINE bad == {n \in Nat : ~\E f : AfterEach(f, b, batch, n)}
<1>1. SUFFICES ASSUME bad # {} PROVE FALSE
  OBVIOUS
<1>2. PICK n \in bad : \A k \in bad : ~(<<k, n>> \in OpToRel(<, Nat))
  BY <1>1, NatLessThanWellFounded, WFMin
<1>3. \A k \in bad : ~(k < n)
  BY <1>2 DEF OpToRel
<1>4. CASE n = 0
  <2> DEFINE f == [i \in 0..0 |-> b]
  <2>1. f = [i \in 0..0 |-> IF i = 0 THEN b ELSE Store(f[i - 1], batch[i])]
    OBVIOUS
  <2> HIDE DEF f
  <2> QED BY <1>4, <2>1 DEF AfterEach
<1>5. CASE n # 0
  <2>1. n - 1 \in Nat /\ n - 1 < n
    BY <1>5
  <2>2. PICK f : AfterEach(f, b, batch, n - 1)
    BY <1>3, <2>1
  <2>3. f = [i \in 0..(n - 1) |-> IF i = 0 THEN b ELSE Store(f[i - 1], batch[i])]
    BY <2>2 DEF AfterEach
  <2> DEFINE g == [i \in 0..n |-> IF i = n THEN Store(f[n - 1], batch[n]) ELSE f[i]]
  <2>4. \A i \in 0..n : g[i] = IF i = n THEN Store(f[n - 1], batch[n]) ELSE f[i]
    OBVIOUS
  <2>5. g = [i \in 0..n |-> g[i]]
    OBVIOUS
  <2> HIDE DEF g
  <2>6. \A i \in 0..n : g[i] = IF i = 0 THEN b ELSE Store(g[i - 1], batch[i])
    <3> TAKE i \in 0..n
    <3>1. CASE i = n
      BY <1>5, <2>1, <2>4, <3>1
    <3>2. CASE i # n
      <4>0. i \in 0..(n - 1) /\ g[i] = f[i]
        BY <2>4, <3>2
      <4>1. g[i] = f[i] /\ f[i] = IF i = 0 THEN b ELSE Store(f[i - 1], batch[i])
        BY <2>3, <4>0
      <4>2. i # 0 => g[i - 1] = f[i - 1]
        BY <2>4, <3>2
      <4> QED BY <4>1, <4>2
    <3> QED BY <3>1, <3>2
  <2>7. AfterEach(g, b, batch, n)
    BY <2>5, <2>6 DEF AfterEach
  <2> QED BY <2>7
<1> QED BY <1>4, <1>5

\* A batch keeps the count, and leaves of every answer the last thing said of it.
LEMMA StoreAllStores ==
    ASSUME NEW b, Counted(b), NEW batch \in Seq(Sample)
    PROVE  /\ Counted(StoreAll(b, batch))
           /\ \A p \in Prompts, a \in Responses :
                 LastOf(batch, Len(batch), b.bank, StoreAll(b, batch).bank, p, a)
<1> DEFINE f == CHOOSE f : f = [i \in 0..Len(batch) |-> IF i = 0 THEN b ELSE Store(f[i - 1], batch[i])]
<1>1. Len(batch) \in Nat /\ \A i \in 1..Len(batch) : batch[i] \in Sample
  OBVIOUS
<1>2. \E h : h = [i \in 0..Len(batch) |-> IF i = 0 THEN b ELSE Store(h[i - 1], batch[i])]
  <2>1. PICK h : AfterEach(h, b, batch, Len(batch))
    BY <1>1, AfterEachExists
  <2> QED BY <2>1 DEF AfterEach
<1>3. f = [i \in 0..Len(batch) |-> IF i = 0 THEN b ELSE Store(f[i - 1], batch[i])]
  BY <1>2
<1>4. StoreAll(b, batch) = f[Len(batch)]
  BY DEF StoreAll
<1> HIDE DEF f
<1>5. f[0] = b /\ \A i \in 1..Len(batch) : f[i] = Store(f[i - 1], batch[i])
  BY <1>1, <1>3
<1> DEFINE Holds(n) == /\ Counted(f[n])
                       /\ \A p \in Prompts, a \in Responses : LastOf(batch, n, b.bank, f[n].bank, p, a)
           bad == {n \in 0..Len(batch) : ~Holds(n)}
<1>6. Holds(0)
  BY <1>5 DEF LastOf
<1>7. ASSUME NEW n \in 1..Len(batch), Holds(n - 1) PROVE Holds(n)
  <2> DEFINE x == batch[n]
             old == f[n - 1]
  <2>1. f[n] = Store(old, x) /\ x \in Sample /\ Counted(old)
    BY <1>1, <1>5, <1>7
  <2>2. \A p \in Prompts, a \in Responses : LastOf(batch, n - 1, b.bank, old.bank, p, a)
    BY <1>7
  <2>3. old.bank \in Banks
    BY <2>1 DEF Counted
  <2> HIDE DEF old, x
  <2>4. Counted(f[n])
    BY <2>1, StoreCounts
  <2>5. ASSUME NEW p \in Prompts, NEW a \in Responses
        PROVE  LastOf(batch, n, b.bank, f[n].bank, p, a)
    <3>0. Store(old, x).bank[p][a] = IF Rates(x, p, a) /\ a # "" THEN x.score ELSE old.bank[p][a]
      BY <2>1, <2>3, StoredScore
    <3>1. f[n].bank[p][a] = IF Rates(x, p, a) /\ a # "" THEN x.score ELSE old.bank[p][a]
      BY <2>1, <3>0
    <3>2. CASE Rates(x, p, a) /\ a # ""
      <4>1. \A k \in (n + 1)..n : ~Rates(batch[k], p, a)
        OBVIOUS
      <4>2. Rates(batch[n], p, a) /\ f[n].bank[p][a] = batch[n].score
        BY <3>1, <3>2 DEF x
      <4>3. n \in 1..n
        OBVIOUS
      <4> QED BY <3>2, <4>1, <4>2, <4>3 DEF LastOf
    <3>3. CASE ~(Rates(x, p, a) /\ a # "")
      <4>1. LastOf(batch, n - 1, b.bank, old.bank, p, a) /\ f[n].bank[p][a] = old.bank[p][a]
        BY <2>2, <3>1, <3>3
      <4>2. Rates(batch[n], p, a) => a = ""
        BY <3>3 DEF x
      <4>3. CASE /\ \A j \in 1..(n - 1) : Rates(batch[j], p, a) => a = ""
                 /\ old.bank[p][a] = b.bank[p][a]
        <5>1. \A j \in 1..n : Rates(batch[j], p, a) => a = ""
          <6> TAKE j \in 1..n
          <6>1. j = n \/ j \in 1..(n - 1)
            BY <1>1
          <6> QED BY <4>2, <4>3, <6>1
        <5> QED BY <4>1, <4>3, <5>1 DEF LastOf
      <4>4. CASE /\ a # ""
                 /\ \E j \in 1..(n - 1) :
                       /\ Rates(batch[j], p, a) /\ old.bank[p][a] = batch[j].score
                       /\ \A k \in (j + 1)..(n - 1) : ~Rates(batch[k], p, a)
        <5>1. PICK j \in 1..(n - 1) :
                 /\ Rates(batch[j], p, a) /\ old.bank[p][a] = batch[j].score
                 /\ \A k \in (j + 1)..(n - 1) : ~Rates(batch[k], p, a)
          BY <4>4
        <5>2. j \in 1..n
          BY <1>1
        <5>3. \A k \in (j + 1)..n : ~Rates(batch[k], p, a)
          <6> TAKE k \in (j + 1)..n
          <6>1. k = n \/ k \in (j + 1)..(n - 1)
            BY <1>1
          <6> QED BY <4>2, <4>4, <5>1, <6>1
        <5> QED BY <4>1, <4>4, <5>1, <5>2, <5>3 DEF LastOf
      <4> QED BY <4>1, <4>3, <4>4 DEF LastOf
    <3> QED BY <3>2, <3>3
  <2> QED BY <2>4, <2>5
<1> HIDE DEF Holds
<1>8. bad = {}
  <2>1. SUFFICES ASSUME bad # {} PROVE FALSE
    OBVIOUS
  <2>2. bad \in SUBSET Nat
    BY <1>1
  <2>3. PICK n \in bad : \A k \in bad : ~(<<k, n>> \in OpToRel(<, Nat))
    BY <2>1, <2>2, NatLessThanWellFounded, WFMin
  <2>4. \A k \in bad : ~(k < n)
    BY <2>2, <2>3 DEF OpToRel
  <2>5. n # 0 /\ n \in 0..Len(batch)
    BY <1>6
  <2>6. n \in 1..Len(batch) /\ n - 1 \in 0..Len(batch) /\ n - 1 < n
    BY <1>1, <2>5
  <2>7. Holds(n - 1)
    BY <2>4, <2>6
  <2> QED BY <1>7, <2>6, <2>7
<1>9. Holds(Len(batch))
  BY <1>1, <1>8
<1> QED BY <1>4, <1>9 DEF Holds

\* Dropping prompts drops what is held of them, and counts it off.
LEMMA EvictedCounts ==
    ASSUME NEW b, Counted(b), NEW ps \in SUBSET Prompts
    PROVE  /\ Counted(Evicted(b, ps))
           /\ Evicted(b, ps).items = b.items - Cardinality(Held(b.bank, ps))
           /\ \A p \in Prompts, a \in Responses :
                 \/ Evicted(b, ps).bank[p][a] = b.bank[p][a]
                 \/ Evicted(b, ps).bank[p][a] = NoScore
<1> DEFINE all == Held(b.bank, Prompts)
           gone == Held(b.bank, ps)
           left == Held(Evicted(b, ps).bank, Prompts)
<1>1. NoBank \in Banks /\ \A p \in Prompts, a \in Responses : NoBank[p][a] = NoScore
  BY DEF NoBank, Banks
<1>2. \A p \in Prompts : Evicted(b, ps).bank[p] = IF p \in ps THEN NoBank[p] ELSE b.bank[p]
  BY DEF Evicted
<1>3. Evicted(b, ps).bank \in Banks
  BY <1>1 DEF Evicted, Banks, Counted
<1>4. left = all \ gone /\ all \cap gone = gone
  BY <1>1, <1>2 DEF Held, Rated
<1>5. Evicted(b, ps).items = b.items - Cardinality(gone)
  BY DEF Evicted
<1>6. IsFiniteSet(all) /\ b.items = Cardinality(all)
  BY DEF Counted
<1> HIDE DEF all, gone, left
<1>7. IsFiniteSet(left) /\ Cardinality(left) = Cardinality(all) - Cardinality(gone)
  BY <1>4, <1>6, FS_Difference
<1>8. Counted(Evicted(b, ps))
  BY <1>3, <1>5, <1>6, <1>7 DEF Counted, left
<1>9. \A p \in Prompts, a \in Responses :
          \/ Evicted(b, ps).bank[p][a] = b.bank[p][a]
          \/ Evicted(b, ps).bank[p][a] = NoScore
  BY <1>1, <1>2
<1> QED BY <1>5, <1>8, <1>9 DEF gone

\* A drained batch and what it leaves are the two parts of the queue.
LEMMA DrainedParts ==
    ASSUME NEW S, NEW s \in Seq(S)
    PROVE  /\ Drained(s) \in Seq(S) /\ Undrained(s) \in Seq(S)
           /\ Len(Drained(s)) \in 0..Len(s)
           /\ Len(Undrained(s)) = Len(s) - Len(Drained(s))
           /\ \A i \in 1..Len(Drained(s)) : Drained(s)[i] = s[i]
           /\ \A i \in 1..Len(Undrained(s)) : Undrained(s)[i] = s[i + Len(Drained(s))]
<1> DEFINE n == IF Len(s) < DrainMax THEN Len(s) ELSE DrainMax
           d == Drained(s)
<1>1. n \in 0..Len(s) /\ Len(s) \in Nat
  BY LearningAssumption
<1>2. d = SubSeq(s, 1, n) /\ Undrained(s) = SubSeq(s, Len(d) + 1, Len(s))
  BY DEF Drained, Undrained
<1> HIDE DEF n, d
<1>3. d \in Seq(S) /\ Len(d) = n /\ \A i \in 1..n : d[i] = s[i]
  BY <1>1, <1>2
<1>4. Undrained(s) = SubSeq(s, n + 1, Len(s))
  BY <1>2, <1>3
<1>5. /\ Undrained(s) \in Seq(S) /\ Len(Undrained(s)) = Len(s) - n
      /\ \A i \in 1..(Len(s) - n) : Undrained(s)[i] = s[i + n]
  BY <1>1, <1>4
<1> QED BY <1>1, <1>3, <1>5 DEF d

-----------------------------------------------------------------------------
(* Ratings on their way to the bank.                                         *)

Feedback == [pc : {"loop", "train"}, bank : Banks, items : Int, steps : 0..LocalSteps]

Pilot == [pc : {"top", "ask", "wait", "read"}, before : Nat, polls : Nat, mine : Nat]

\* Ratings that are begun and may still reach the hub.
Aims(h, pc) ==
    (IF h["user"].do = "rate" THEN 1 ELSE 0)
    + (IF h["autopilot"].do = "rate" THEN 1 ELSE 0)
    + (IF pc = "top" THEN 0 ELSE 1)

BegunInTime == Len(ratings) + Aims(hand, autopilot.pc) <= ratingsBegun

\* The last rating of an answer that waits in the hub is the one remembered, and so
\* is what the bank holds of an answer of which no rating waits.
NewestWaits ==
    \A i \in DOMAIN ratings :
        (\A j \in DOMAIN ratings : j > i => ~Rates(ratings[j], ratings[i].prompt, ratings[i].answer))
            => ratings[i].score = latest[ratings[i].prompt][ratings[i].answer]

BankIsLatest ==
    \A p \in Prompts, a \in Responses :
        \/ feedback.bank[p][a] = NoScore
        \/ feedback.bank[p][a] = latest[p][a]
        \/ \E i \in DOMAIN ratings : Rates(ratings[i], p, a)

BankSound ==
    /\ feedback \in Feedback
    /\ Counted(feedback) /\ feedback.items <= BankCap
    /\ \A p \in Prompts, a \in Responses : a = "" => feedback.bank[p][a] = NoScore

RatingTypes ==
    /\ ratings \in Seq(Sample)
    /\ latest \in Banks
    /\ ratingsBegun \in 0..MaxRatings
    /\ autopilot \in Pilot

RatingInv ==
    /\ RatingTypes /\ BankSound /\ BegunInTime
    /\ MaxRatings <= HubCap => NewestWaits /\ BankIsLatest

LEMMA RatingInit == Init => RatingInv
<1> SUFFICES ASSUME Init PROVE RatingInv
  OBVIOUS
<1>1. NoBank \in Banks /\ \A p \in Prompts, a \in Responses : NoBank[p][a] = NoScore
  BY DEF NoBank, Banks
<1>2. /\ ratings = <<>> /\ latest = NoBank /\ ratingsBegun = 0 /\ autopilot = NextQuestion
      /\ hand = [p \in People |-> Idle]
      /\ feedback = [pc |-> "loop", bank |-> NoBank, items |-> 0, steps |-> 0]
  BY DEF Init, ChatInit
<1>3. MaxRatings \in Nat /\ LocalSteps \in Nat /\ BankCap \in Nat
  BY ChatAssumption, LearningAssumption
<1>4. RatingTypes
  BY <1>1, <1>2, <1>3 DEF RatingTypes, Pilot, NextQuestion
<1>5. Held(NoBank, Prompts) = {}
  BY <1>1 DEF Held, Rated
<1>6. Counted(feedback)
  BY <1>1, <1>2, <1>5, FS_EmptySet DEF Counted
<1>7. BankSound
  <2>1. feedback \in Feedback
    BY <1>1, <1>2, <1>3 DEF Feedback
  <2>2. feedback.items = 0 /\ feedback.bank = NoBank
    BY <1>2
  <2>3. \A p \in Prompts, a \in Responses : feedback.bank[p][a] = NoScore
    BY <1>1, <2>2
  <2>4. feedback.items <= BankCap
    BY <1>3, <2>2
  <2> QED BY <1>6, <2>1, <2>3, <2>4 DEF BankSound
<1>8. Aims(hand, autopilot.pc) = 0 /\ Len(ratings) = 0
  BY <1>2 DEF Aims, Idle, NextQuestion, People
<1>9. BegunInTime
  BY <1>2, <1>8 DEF BegunInTime
<1>10. NewestWaits /\ BankIsLatest
  BY <1>1, <1>2 DEF NewestWaits, BankIsLatest
<1> QED BY <1>4, <1>7, <1>9, <1>10 DEF RatingInv

LEMMA NoMoreThanBegun ==
    ASSUME NEW n \in Int, NEW old \in Int, NEW new \in Int, NEW r \in Int, NEW q \in Int,
           n + old <= r, new - q <= old - r
    PROVE  n + new <= q
OBVIOUS

\* Steps that begin a rating or end a call, without one reaching the hub.
LEMMA BeginKeepsRatings ==
    ASSUME RatingInv, UNCHANGED <<ratings, latest, feedback>>,
           autopilot' \in Pilot, ratingsBegun' \in 0..MaxRatings,
           Aims(hand', autopilot'.pc) - ratingsBegun' <= Aims(hand, autopilot.pc) - ratingsBegun
    PROVE  RatingInv'
<1>1. Len(ratings) \in Nat /\ ratingsBegun \in Int /\ ratingsBegun' \in Int
  BY ChatAssumption DEF RatingInv, RatingTypes
<1>2. Aims(hand, autopilot.pc) \in Int /\ Aims(hand', autopilot'.pc) \in Int
  BY DEF Aims
<1>3. BegunInTime'
  <2>1. Len(ratings) + Aims(hand, autopilot.pc) <= ratingsBegun
    BY DEF RatingInv, BegunInTime
  <2>2. Len(ratings) + Aims(hand', autopilot'.pc) <= ratingsBegun'
    BY <1>1, <1>2, <2>1, NoMoreThanBegun
  <2> QED BY <2>2 DEF BegunInTime
<1>4. RatingTypes'
  BY DEF RatingInv, RatingTypes
<1>5. BankSound' /\ (MaxRatings <= HubCap => NewestWaits' /\ BankIsLatest')
  BY DEF RatingInv, BankSound, NewestWaits, BankIsLatest
<1> QED BY <1>3, <1>4, <1>5 DEF RatingInv

\* A rating arrives: the hub has room for every rating that was begun, and the newest
\* of the answer is now this one.
LEMMA RateKeepsRatings ==
    ASSUME RatingInv, OrderTypes, hand \in [People -> Hands], NEW p \in People, GiveRating(p)
    PROVE  RatingInv'
<1>1. /\ hand[p].do = "rate" /\ hand' = [hand EXCEPT ![p] = Idle]
      /\ UNCHANGED <<ratingsBegun, autopilot, feedback>>
  BY DEF GiveRating, Rate
<1>2. /\ ratings \in Seq(Sample) /\ latest \in Banks /\ ratingsBegun \in 0..MaxRatings
      /\ autopilot \in Pilot /\ MaxRatings \in Nat /\ HubCap \in Nat
      /\ Len(ratings) \in Nat
  BY ChatAssumption DEF RatingInv, RatingTypes
<1>3. Aims(hand', autopilot.pc) = Aims(hand, autopilot.pc) - 1 /\ Aims(hand, autopilot.pc) >= 1
  <2>1. hand'[p] = Idle /\ Idle.do # "rate" /\ \A q \in People \ {p} : hand'[q] = hand[q]
    BY <1>1 DEF Idle
  <2>2. p = "user" \/ p = "autopilot"
    BY DEF People
  <2>3. "user" \in People /\ "autopilot" \in People
    BY DEF People
  <2>4. CASE p = "user"
    BY <1>1, <2>1, <2>3, <2>4 DEF Aims
  <2>5. CASE p = "autopilot"
    BY <1>1, <2>1, <2>3, <2>5 DEF Aims
  <2> QED BY <2>2, <2>4, <2>5
<1>4. Aims(hand, autopilot.pc) \in Int
  BY DEF Aims
<1>5. Len(ratings) + Aims(hand, autopilot.pc) <= ratingsBegun
  BY DEF RatingInv, BegunInTime
<1>6. CASE hand[p].index \notin DOMAIN history
  <2>1. UNCHANGED <<ratings, latest, feedback>>
    BY <1>1, <1>6 DEF GiveRating, Rate
  <2>2. Aims(hand', autopilot'.pc) - ratingsBegun' <= Aims(hand, autopilot.pc) - ratingsBegun
    BY <1>1, <1>2, <1>3, <1>4
  <2> QED BY <1>1, <1>2, <2>1, <2>2, BeginKeepsRatings
<1>7. CASE hand[p].index \in DOMAIN history
  <2> DEFINE x == Rating(p)
             longer == Append(ratings, x)
  <2>1. x \in Sample
    <3>1. history[hand[p].index] \in Turn
      BY <1>7 DEF OrderTypes
    <3>2. hand[p].score \in Scores
      BY <1>1 DEF Hands, Idle, Telling, Aiming
    <3>3. PromptOf[history[hand[p].index].id] \in Prompts
      BY <3>1, ChatAssumption DEF Turn
    <3> QED BY <3>1, <3>2, <3>3 DEF Rating, Sample, Turn
  <2>2. ratings' = KeepLast(longer, HubCap)
    BY <1>7 DEF GiveRating, Rate
  <2>3. latest' = [latest EXCEPT ![x.prompt][x.answer] = x.score]
    BY <1>7 DEF GiveRating
  <2> HIDE DEF x
  <2>4. /\ longer \in Seq(Sample) /\ Len(longer) = Len(ratings) + 1
        /\ \A i \in 1..Len(ratings) : longer[i] = ratings[i]
        /\ longer[Len(ratings) + 1] = x
    BY <1>2, <2>1
  <2> HIDE DEF longer
  <2>5. ratings' \in Seq(Sample) /\ Len(ratings') <= Len(longer) /\ Len(ratings') \in Nat
    BY <1>2, <2>2, <2>4, KeptLast
  <2>6. latest' \in Banks
    BY <1>2, <2>1, <2>3, SampleFields DEF Banks
  <2>7. RatingTypes'
    BY <1>1, <1>2, <2>5, <2>6 DEF RatingTypes
  <2>8. BankSound'
    BY <1>1 DEF RatingInv, BankSound
  <2>9. BegunInTime'
    <3> DEFINE aims == Aims(hand, autopilot.pc)
    <3>1. Aims(hand', autopilot'.pc) = aims - 1
      BY <1>1, <1>3
    <3>2. aims \in Int /\ Len(ratings) + aims <= ratingsBegun /\ ratingsBegun' = ratingsBegun
      BY <1>1, <1>4, <1>5
    <3> HIDE DEF aims
    <3>3. Len(ratings') + (aims - 1) <= ratingsBegun
      BY <1>2, <2>4, <2>5, <3>2
    <3> QED BY <3>1, <3>2, <3>3 DEF BegunInTime
  <2>10. ASSUME MaxRatings <= HubCap PROVE NewestWaits' /\ BankIsLatest'
    <3>1. Len(longer) <= HubCap
      <4> DEFINE aims == Aims(hand, autopilot.pc)
      <4>1. aims \in Int /\ aims >= 1 /\ Len(ratings) + aims <= ratingsBegun
        BY <1>3, <1>4, <1>5
      <4> HIDE DEF aims
      <4> QED BY <1>2, <2>4, <2>10, <4>1
    <3>2. ratings' = longer
      BY <2>2, <3>1 DEF KeepLast
    <3>3. /\ Len(ratings') = Len(ratings) + 1
          /\ DOMAIN ratings' = 1..(Len(ratings) + 1) /\ DOMAIN ratings = 1..Len(ratings)
          /\ \A i \in 1..Len(ratings) : ratings'[i] = ratings[i] /\ ratings[i] \in Sample
          /\ ratings'[Len(ratings) + 1] = x
      BY <1>2, <2>4, <3>2
    <3>4. \A q \in Prompts, a \in Responses :
              latest'[q][a] = IF Rates(x, q, a) THEN x.score ELSE latest[q][a]
      BY <1>2, <2>1, <2>3, SampleFields DEF Banks, Rates
    <3>5. x.prompt \in Prompts /\ x.answer \in Responses /\ Rates(x, x.prompt, x.answer)
      BY <2>1, SampleFields DEF Rates
    <3>6. NewestWaits'
      <4> SUFFICES ASSUME NEW i \in DOMAIN ratings',
                          \A j \in DOMAIN ratings' :
                              j > i => ~Rates(ratings'[j], ratings'[i].prompt, ratings'[i].answer)
                   PROVE  ratings'[i].score = latest'[ratings'[i].prompt][ratings'[i].answer]
        BY DEF NewestWaits
      <4>1. CASE i = Len(ratings) + 1
        BY <3>3, <3>4, <3>5, <4>1
      <4>2. CASE i # Len(ratings) + 1
        <5>1. i \in 1..Len(ratings) /\ Len(ratings) + 1 > i /\ Len(ratings) + 1 \in DOMAIN ratings'
          BY <1>2, <3>3, <4>2
        <5>2. ratings'[i] = ratings[i] /\ ratings[i] \in Sample
          BY <3>3, <5>1
        <5>3. ~Rates(x, ratings[i].prompt, ratings[i].answer)
          BY <3>3, <5>1, <5>2
        <5>4. latest'[ratings[i].prompt][ratings[i].answer] = latest[ratings[i].prompt][ratings[i].answer]
          BY <3>4, <5>2, <5>3, SampleFields
        <5>5. \A j \in DOMAIN ratings : j > i => ~Rates(ratings[j], ratings[i].prompt, ratings[i].answer)
          BY <1>2, <3>3, <5>2
        <5>6. ratings[i].score = latest[ratings[i].prompt][ratings[i].answer]
          BY <2>10, <3>3, <5>1, <5>5 DEF RatingInv, NewestWaits
        <5> QED BY <5>2, <5>4, <5>6
      <4> QED BY <4>1, <4>2
    <3>7. BankIsLatest'
      <4> SUFFICES ASSUME NEW q \in Prompts, NEW a \in Responses
                   PROVE  \/ feedback'.bank[q][a] = NoScore
                          \/ feedback'.bank[q][a] = latest'[q][a]
                          \/ \E i \in DOMAIN ratings' : Rates(ratings'[i], q, a)
        BY DEF BankIsLatest
      <4>1. feedback' = feedback
        BY <1>1
      <4>2. \/ feedback.bank[q][a] = NoScore
            \/ feedback.bank[q][a] = latest[q][a]
            \/ \E i \in DOMAIN ratings : Rates(ratings[i], q, a)
        BY <2>10 DEF RatingInv, BankIsLatest
      <4>3. Rates(x, q, a) => \E i \in DOMAIN ratings' : Rates(ratings'[i], q, a)
        <5>1. Len(ratings) + 1 \in DOMAIN ratings'
          BY <1>2, <3>3
        <5> QED BY <3>3, <5>1
      <4>4. (\E i \in DOMAIN ratings : Rates(ratings[i], q, a))
                => \E i \in DOMAIN ratings' : Rates(ratings'[i], q, a)
        BY <1>2, <3>3
      <4>5. ~Rates(x, q, a) => latest'[q][a] = latest[q][a]
        BY <3>4
      <4> QED BY <4>1, <4>2, <4>3, <4>4, <4>5
    <3> QED BY <3>6, <3>7
  <2> QED BY <2>7, <2>8, <2>9, <2>10 DEF RatingInv
<1> QED BY <1>6, <1>7

\* A drained batch joins the bank: an answer it names gets the newest of what was
\* drained, unless a newer one still waits.
LEMMA FillKeepsRatings ==
    ASSUME RatingInv, FillBank
    PROVE  RatingInv'
<1> DEFINE base == [bank |-> feedback.bank, items |-> feedback.items]
           batch == Drained(ratings)
           rest == Undrained(ratings)
           filled == StoreAll(base, batch)
<1>1. /\ ratings' = rest
      /\ UNCHANGED <<hand, ratingsBegun, autopilot, latest>>
  BY DEF FillBank
<1>2. /\ ratings \in Seq(Sample) /\ latest \in Banks /\ ratingsBegun \in 0..MaxRatings
      /\ autopilot \in Pilot /\ MaxRatings \in Nat /\ Len(ratings) \in Nat
      /\ DOMAIN ratings = 1..Len(ratings)
  BY ChatAssumption DEF RatingInv, RatingTypes
<1>3. /\ batch \in Seq(Sample) /\ rest \in Seq(Sample)
      /\ Len(batch) \in 0..Len(ratings)
      /\ Len(rest) = Len(ratings) - Len(batch)
      /\ \A i \in 1..Len(batch) : batch[i] = ratings[i]
      /\ \A i \in 1..Len(rest) : rest[i] = ratings[i + Len(batch)]
  BY <1>2, DrainedParts
<1>4. Counted(base) /\ base.bank = feedback.bank
  BY DEF RatingInv, BankSound, Counted
<1>5. PICK ps \in Evictions(filled) :
         /\ feedback'.bank = Evicted(filled, ps).bank
         /\ feedback'.items = Evicted(filled, ps).items
         /\ feedback'.pc \in {"loop", "train"} /\ feedback'.steps = 0
         /\ feedback' = [pc |-> feedback'.pc, bank |-> Evicted(filled, ps).bank,
                         items |-> Evicted(filled, ps).items, steps |-> 0]
  BY DEF FillBank
<1>6. /\ ps \in SUBSET Prompts
      /\ filled.items - Cardinality(Held(filled.bank, ps)) <= BankCap
  BY DEF Evictions
<1> HIDE DEF base, batch, rest, filled
<1>7. /\ Counted(filled)
      /\ \A p \in Prompts, a \in Responses :
            LastOf(batch, Len(batch), feedback.bank, filled.bank, p, a)
  <2>1. /\ Counted(StoreAll(base, batch))
        /\ \A p \in Prompts, a \in Responses :
              LastOf(batch, Len(batch), base.bank, StoreAll(base, batch).bank, p, a)
    BY <1>3, <1>4, StoreAllStores
  <2> QED BY <1>4, <2>1 DEF filled
<1>8. /\ Counted(Evicted(filled, ps))
      /\ Evicted(filled, ps).items = filled.items - Cardinality(Held(filled.bank, ps))
      /\ \A p \in Prompts, a \in Responses :
            \/ Evicted(filled, ps).bank[p][a] = filled.bank[p][a]
            \/ Evicted(filled, ps).bank[p][a] = NoScore
  BY <1>6, <1>7, EvictedCounts
<1>9. BankSound'
  <2>1. Counted(feedback')
    BY <1>5, <1>8 DEF Counted
  <2>2. feedback'.items <= BankCap
    BY <1>5, <1>6, <1>8
  <2>3. feedback' \in Feedback
    <3> DEFINE kept == Held(Evicted(filled, ps).bank, Prompts)
    <3>1. IsFiniteSet(kept) /\ Evicted(filled, ps).items = Cardinality(kept)
      BY <1>8 DEF Counted
    <3> HIDE DEF kept
    <3>2. Evicted(filled, ps).items \in Int
      BY <3>1, FS_CardinalityType
    <3>3. Evicted(filled, ps).bank \in Banks
      BY <1>8 DEF Counted
    <3>4. 0 \in 0..LocalSteps
      BY LearningAssumption
    <3> QED BY <1>5, <3>2, <3>3, <3>4 DEF Feedback
  <2>4. \A p \in Prompts, a \in Responses : a = "" => feedback'.bank[p][a] = NoScore
    <3> TAKE p \in Prompts, a \in Responses
    <3> HAVE a = ""
    <3>1. feedback.bank[p][a] = NoScore
      BY DEF RatingInv, BankSound
    <3>2. filled.bank[p][a] = NoScore
      BY <1>7, <3>1 DEF LastOf
    <3> QED BY <1>5, <1>8, <3>2
  <2> QED BY <2>1, <2>2, <2>3, <2>4 DEF BankSound
<1>10. RatingTypes' /\ BegunInTime'
  <2>1. RatingTypes'
    BY <1>1, <1>2, <1>3 DEF RatingTypes
  <2>2. Len(ratings) + Aims(hand, autopilot.pc) <= ratingsBegun
    BY DEF RatingInv, BegunInTime
  <2>3. Aims(hand, autopilot.pc) \in Int
    BY DEF Aims
  <2>4. Aims(hand', autopilot'.pc) = Aims(hand, autopilot.pc)
    BY <1>1
  <2>5. Len(rest) + Aims(hand, autopilot.pc) <= ratingsBegun
    <3> DEFINE aims == Aims(hand, autopilot.pc)
    <3>1. aims \in Int /\ Len(ratings) + aims <= ratingsBegun
      BY <2>2, <2>3
    <3> HIDE DEF aims
    <3>2. Len(rest) + aims <= ratingsBegun
      BY <1>2, <1>3, <3>1
    <3> QED BY <3>2 DEF aims
  <2> QED BY <1>1, <2>1, <2>4, <2>5 DEF BegunInTime
<1>11. ASSUME MaxRatings <= HubCap PROVE NewestWaits' /\ BankIsLatest'
  <2>1. /\ NewestWaits /\ BankIsLatest
    BY <1>11 DEF RatingInv
  <2>2. /\ Len(batch) \in Nat /\ Len(rest) \in Nat /\ DOMAIN ratings' = 1..Len(rest)
        /\ \A i \in 1..Len(batch) : i \in DOMAIN ratings
        /\ \A i \in 1..Len(rest) : i + Len(batch) \in DOMAIN ratings
    BY <1>1, <1>2, <1>3
  <2>3. \A i \in DOMAIN ratings : i \in 1..Len(batch) \/ i - Len(batch) \in 1..Len(rest)
    BY <1>2, <1>3
  <2>4. NewestWaits'
    <3> SUFFICES ASSUME NEW i \in 1..Len(rest),
                        \A j \in 1..Len(rest) : j > i => ~Rates(rest[j], rest[i].prompt, rest[i].answer)
                 PROVE  rest[i].score = latest[rest[i].prompt][rest[i].answer]
      BY <1>1, <2>2 DEF NewestWaits
    <3> DEFINE m == i + Len(batch)
    <3>1. m \in DOMAIN ratings /\ rest[i] = ratings[m]
      BY <1>3, <2>2
    <3>2. ASSUME NEW j \in DOMAIN ratings, j > m
          PROVE  ~Rates(ratings[j], ratings[m].prompt, ratings[m].answer)
      <4>1. j - Len(batch) \in 1..Len(rest) /\ j - Len(batch) > i
        BY <1>2, <1>3, <2>2, <3>2
      <4>2. rest[j - Len(batch)] = ratings[(j - Len(batch)) + Len(batch)]
        BY <1>3, <4>1
      <4>3. (j - Len(batch)) + Len(batch) = j
        BY <1>2, <2>2
      <4> QED BY <3>1, <4>1, <4>2, <4>3
    <3> HIDE DEF m
    <3>3. ratings[m].score = latest[ratings[m].prompt][ratings[m].answer]
      BY <2>1, <3>1, <3>2 DEF NewestWaits
    <3> QED BY <3>1, <3>3
  <2>5. ASSUME NEW p \in Prompts, NEW a \in Responses
        PROVE  \/ filled.bank[p][a] = NoScore
               \/ filled.bank[p][a] = latest[p][a]
               \/ \E i \in 1..Len(rest) : Rates(rest[i], p, a)
    <3> DEFINE waits == \E i \in 1..Len(rest) : Rates(rest[i], p, a)
    <3>1. LastOf(batch, Len(batch), feedback.bank, filled.bank, p, a)
      BY <1>7
    <3>2. \A k \in DOMAIN ratings :
              Rates(ratings[k], p, a) =>
                  waits \/ (k \in 1..Len(batch) /\ Rates(batch[k], p, a))
      <4> TAKE k \in DOMAIN ratings
      <4> HAVE Rates(ratings[k], p, a)
      <4>1. CASE k \in 1..Len(batch)
        BY <1>3, <4>1
      <4>2. CASE k - Len(batch) \in 1..Len(rest)
        <5>1. rest[k - Len(batch)] = ratings[(k - Len(batch)) + Len(batch)]
          BY <1>3, <4>2
        <5>2. (k - Len(batch)) + Len(batch) = k
          BY <1>2, <2>2
        <5> QED BY <4>2, <5>1, <5>2
      <4> QED BY <2>3, <4>1, <4>2
    <3>3. CASE a = ""
      <4>1. feedback.bank[p][a] = NoScore
        BY <3>3 DEF RatingInv, BankSound
      <4> QED BY <3>1, <3>3, <4>1 DEF LastOf
    <3>4. CASE /\ a # "" /\ \A j \in 1..Len(batch) : Rates(batch[j], p, a) => a = ""
               /\ filled.bank[p][a] = feedback.bank[p][a]
      <4>1. \/ feedback.bank[p][a] = NoScore
            \/ feedback.bank[p][a] = latest[p][a]
            \/ \E i \in DOMAIN ratings : Rates(ratings[i], p, a)
        BY <2>1 DEF BankIsLatest
      <4>2. (\E i \in DOMAIN ratings : Rates(ratings[i], p, a)) => waits
        BY <3>2, <3>4
      <4> QED BY <3>4, <4>1, <4>2
    <3>5. CASE /\ a # ""
               /\ \E j \in 1..Len(batch) :
                     /\ Rates(batch[j], p, a) /\ filled.bank[p][a] = batch[j].score
                     /\ \A k \in (j + 1)..Len(batch) : ~Rates(batch[k], p, a)
      <4>1. PICK j \in 1..Len(batch) :
                     /\ Rates(batch[j], p, a) /\ filled.bank[p][a] = batch[j].score
                     /\ \A k \in (j + 1)..Len(batch) : ~Rates(batch[k], p, a)
        BY <3>5
      <4>2. j \in DOMAIN ratings /\ ratings[j] = batch[j]
        BY <1>3, <2>2, <4>1
      <4>3. CASE ~waits
        <5>1. ASSUME NEW k \in DOMAIN ratings, k > j
              PROVE  ~Rates(ratings[k], p, a)
          <6>1. SUFFICES ASSUME Rates(ratings[k], p, a) PROVE FALSE
            OBVIOUS
          <6>2. k \in 1..Len(batch) /\ Rates(batch[k], p, a)
            BY <3>2, <4>3, <6>1
          <6>3. k \in (j + 1)..Len(batch)
            BY <2>2, <4>1, <5>1, <6>2
          <6> QED BY <4>1, <6>2, <6>3
        <5>2. ratings[j].prompt = p /\ ratings[j].answer = a
          BY <4>1, <4>2 DEF Rates
        <5>3. ratings[j].score = latest[ratings[j].prompt][ratings[j].answer]
          BY <2>1, <4>2, <5>1, <5>2 DEF NewestWaits
        <5> QED BY <4>1, <4>2, <5>2, <5>3
      <4> QED BY <4>3
    <3> QED BY <3>1, <3>3, <3>4, <3>5 DEF LastOf
  <2>6. BankIsLatest'
    <3> SUFFICES ASSUME NEW p \in Prompts, NEW a \in Responses
                 PROVE  \/ feedback'.bank[p][a] = NoScore
                        \/ feedback'.bank[p][a] = latest[p][a]
                        \/ \E i \in 1..Len(rest) : Rates(rest[i], p, a)
      BY <1>1, <2>2 DEF BankIsLatest
    <3>1. \/ feedback'.bank[p][a] = filled.bank[p][a]
          \/ feedback'.bank[p][a] = NoScore
      BY <1>5, <1>8
    <3> QED BY <2>5, <3>1
  <2> QED BY <2>4, <2>6
<1> QED BY <1>9, <1>10, <1>11 DEF RatingInv

LEMMA RatingStep == RatingInv /\ TextsInv /\ OrderInv /\ [Next]_allVars => RatingInv'
<1> SUFFICES ASSUME RatingInv, TextsInv, OrderInv, [Next]_allVars PROVE RatingInv'
  OBVIOUS
<1>1. /\ hand \in [People -> Hands] /\ OrderTypes
      /\ "user" \in People /\ "autopilot" \in People
  BY DEF TextsInv, TextTypes, OrderInv, People
<1>2. /\ autopilot \in Pilot /\ ratingsBegun \in 0..MaxRatings /\ MaxRatings \in Nat
      /\ Aims(hand, autopilot.pc) \in Int
  BY ChatAssumption DEF RatingInv, RatingTypes, Aims
<1>3. ASSUME UNCHANGED <<ratings, latest, feedback, hand, autopilot, ratingsBegun>>
      PROVE  RatingInv'
  BY <1>2, <1>3, BeginKeepsRatings
<1>4. ASSUME NEW p \in People, AskFirst(p), autopilot' \in Pilot,
             autopilot'.pc = "top" <=> autopilot.pc = "top",
             UNCHANGED <<ratings, latest, feedback, ratingsBegun>>
      PROVE  RatingInv'
  <2>1. hand[p].do = "nothing" /\ hand' = [hand EXCEPT ![p] = Telling(asked + 1)]
    BY <1>4 DEF AskFirst
  <2>2. \A q \in People : hand'[q].do = "rate" <=> hand[q].do = "rate"
    BY <1>1, <2>1 DEF Telling
  <2>3. Aims(hand', autopilot'.pc) = Aims(hand, autopilot.pc)
    BY <1>1, <1>4, <2>2 DEF Aims
  <2> QED BY <1>2, <1>4, <2>3, BeginKeepsRatings
<1>5. CASE Robot /\ UNCHANGED learningVars
  <2>1. UNCHANGED <<latest, feedback>>
    BY <1>5 DEF learningVars
  <2>2. CASE ReadLength
    <3>1. /\ autopilot' = [autopilot EXCEPT !.pc = "ask", !.before = Len(history)]
          /\ autopilot.pc = "top" /\ hand' = hand /\ ratings' = ratings
          /\ ratingsBegun' = ratingsBegun + 2 /\ ratingsBegun + 2 <= MaxRatings
      BY <2>2 DEF ReadLength
    <3>2. autopilot' \in Pilot /\ autopilot'.pc = "ask"
      <4>1. Len(history) \in Nat
        BY <1>1 DEF OrderTypes
      <4>2. autopilot \in Pilot /\ autopilot' = [autopilot EXCEPT !.pc = "ask", !.before = Len(history)]
        BY <1>2, <3>1
      <4>3. autopilot' \in Pilot
        BY <4>1, <4>2 DEF Pilot
      <4>4. autopilot'.pc = "ask"
        BY <4>2 DEF Pilot
      <4> QED BY <4>3, <4>4
    <3>3. Aims(hand', autopilot'.pc) = Aims(hand, autopilot.pc) + 1
      BY <3>1, <3>2 DEF Aims
    <3> QED BY <1>2, <2>1, <3>1, <3>2, <3>3, BeginKeepsRatings
  <2>3. CASE AutopilotAsk
    <3>1. asked \in Nat
      BY <1>1, ChatAssumption DEF OrderTypes
    <3>2. autopilot' \in Pilot /\ autopilot'.pc = "wait" /\ autopilot.pc = "ask"
      <4>1. /\ autopilot' = [autopilot EXCEPT !.pc = "wait", !.polls = 0, !.mine = asked + 1]
            /\ autopilot.pc = "ask"
        BY <2>3 DEF AutopilotAsk
      <4>2. asked + 1 \in Nat
        BY <3>1
      <4>3. autopilot \in Pilot
        BY <1>2
      <4>4. autopilot' \in Pilot
        BY <4>1, <4>2, <4>3 DEF Pilot
      <4>5. autopilot'.pc = "wait"
        BY <4>1, <4>3 DEF Pilot
      <4> QED BY <4>1, <4>4, <4>5
    <3> QED BY <1>1, <1>4, <2>1, <2>3, <3>2 DEF AutopilotAsk
  <2>4. CASE Poll
    <3>1. /\ autopilot' \in Pilot /\ autopilot'.pc # "top" /\ autopilot.pc # "top"
          /\ UNCHANGED <<ratings, hand, ratingsBegun>>
      <4>1. \/ autopilot' = [autopilot EXCEPT !.pc = "read", !.polls = 0]
            \/ autopilot' = [autopilot EXCEPT !.polls = @ + 1]
        BY <2>4 DEF Poll
      <4>2. autopilot.pc = "wait" /\ UNCHANGED <<ratings, hand, ratingsBegun>>
        BY <2>4 DEF Poll
      <4>3. autopilot \in Pilot
        BY <1>2
      <4>4. autopilot.polls + 1 \in Nat
        BY <4>3 DEF Pilot
      <4>5. CASE autopilot' = [autopilot EXCEPT !.pc = "read", !.polls = 0]
        <5>1. autopilot' \in Pilot
          BY <4>3, <4>5 DEF Pilot
        <5>2. autopilot'.pc = "read"
          BY <4>3, <4>5 DEF Pilot
        <5> QED BY <4>2, <5>1, <5>2
      <4>6. CASE autopilot' = [autopilot EXCEPT !.polls = @ + 1]
        <5>1. autopilot' \in Pilot
          BY <4>3, <4>4, <4>6 DEF Pilot
        <5>2. autopilot'.pc = "wait"
          BY <4>2, <4>3, <4>6 DEF Pilot
        <5> QED BY <4>2, <5>1, <5>2
      <4> QED BY <4>1, <4>5, <4>6
    <3>2. Aims(hand', autopilot'.pc) = Aims(hand, autopilot.pc)
      BY <3>1 DEF Aims
    <3> QED BY <1>2, <2>1, <3>1, <3>2, BeginKeepsRatings
  <2>5. CASE GiveUp
    <3>1. /\ autopilot' = NextQuestion /\ autopilot.pc = "read"
          /\ UNCHANGED <<ratings, hand, ratingsBegun>>
      BY <2>5 DEF GiveUp
    <3>2. autopilot' \in Pilot /\ autopilot'.pc = "top"
      BY <3>1 DEF NextQuestion, Pilot
    <3>3. Aims(hand', autopilot'.pc) = Aims(hand, autopilot.pc) - 1
      BY <3>1, <3>2 DEF Aims
    <3> QED BY <1>2, <2>1, <3>1, <3>2, <3>3, BeginKeepsRatings
  <2>6. CASE AutopilotEnds
    BY <1>3, <2>1, <2>6 DEF AutopilotEnds
  <2>7. ASSUME NEW x \in Scores, AutopilotAim(x) PROVE RatingInv'
    <3>1. /\ autopilot' = NextQuestion /\ autopilot.pc = "read"
          /\ hand' = [hand EXCEPT !["autopilot"] = Aiming(Len(history), x)]
          /\ UNCHANGED <<ratings, ratingsBegun>>
      BY <2>7 DEF AutopilotAim
    <3>2. autopilot' \in Pilot /\ autopilot'.pc = "top"
      BY <3>1 DEF NextQuestion, Pilot
    <3>3. hand'["autopilot"].do = "rate" /\ hand'["user"] = hand["user"]
      BY <1>1, <3>1 DEF Aiming
    <3>4. Aims(hand', autopilot'.pc) <= Aims(hand, autopilot.pc)
      BY <3>1, <3>2, <3>3 DEF Aims
    <3>5. Aims(hand', autopilot'.pc) \in Int
      BY DEF Aims
    <3>6. Aims(hand', autopilot'.pc) - ratingsBegun' <= Aims(hand, autopilot.pc) - ratingsBegun
      BY <1>2, <3>1, <3>4, <3>5
    <3> QED BY <1>2, <2>1, <3>1, <3>2, <3>6, BeginKeepsRatings
  <2> QED BY <1>5, <2>2, <2>3, <2>4, <2>5, <2>6, <2>7 DEF Robot
<1>6. CASE User /\ UNCHANGED learningVars
  <2>1. UNCHANGED <<latest, feedback>>
    BY <1>6 DEF learningVars
  <2>2. CASE ToggleStop \/ Quit
    BY <1>3, <2>1, <2>2 DEF ToggleStop, Quit
  <2>3. CASE UserAsk
    BY <1>1, <1>2, <1>4, <2>1, <2>3 DEF UserAsk
  <2>4. ASSUME NEW i \in DOMAIN history, NEW x \in Scores, UserAim(i, x) PROVE RatingInv'
    <3>1. /\ hand["user"].do = "nothing" /\ hand' = [hand EXCEPT !["user"] = Aiming(i, x)]
          /\ ratingsBegun < MaxRatings /\ ratingsBegun' = ratingsBegun + 1
          /\ UNCHANGED <<ratings, autopilot>>
      BY <2>4 DEF UserAim
    <3>2. hand'["user"].do = "rate" /\ hand'["autopilot"] = hand["autopilot"]
      BY <1>1, <3>1 DEF Aiming
    <3>3. Aims(hand', autopilot'.pc) = Aims(hand, autopilot.pc) + 1
      BY <3>1, <3>2 DEF Aims
    <3> QED BY <1>2, <2>1, <3>1, <3>3, BeginKeepsRatings
  <2> QED BY <1>6, <2>2, <2>3, <2>4 DEF User
<1>7. ASSUME NEW p \in People, Calls(p) PROVE RatingInv'
  <2>1. CASE PushText(p) /\ UNCHANGED learningVars
    <3>1. /\ hand[p].do = "push_text" /\ hand' = [hand EXCEPT ![p] = Idle]
          /\ UNCHANGED <<ratings, ratingsBegun, autopilot, latest, feedback>>
      BY <2>1 DEF PushText, learningVars
    <3>2. \A q \in People : hand'[q].do = "rate" <=> hand[q].do = "rate"
      BY <1>1, <3>1 DEF Idle
    <3>3. Aims(hand', autopilot'.pc) = Aims(hand, autopilot.pc)
      BY <1>1, <3>1, <3>2 DEF Aims
    <3> QED BY <1>2, <3>1, <3>3, BeginKeepsRatings
  <2>2. CASE GiveRating(p)
    BY <1>1, <2>2, RateKeepsRatings
  <2> QED BY <1>7, <2>1, <2>2 DEF Calls
<1>8. CASE FillBank
  BY <1>8, FillKeepsRatings
<1>9. CASE FeedbackRound
  <2>1. /\ UNCHANGED <<ratings, latest, hand, autopilot, ratingsBegun>>
        /\ feedback'.bank = feedback.bank /\ feedback'.items = feedback.items
        /\ feedback' \in Feedback
    <3>1. feedback \in Feedback /\ LocalSteps \in Nat
      BY LearningAssumption DEF RatingInv, BankSound
    <3>2. CASE FeedbackStep
      BY <3>1, <3>2 DEF FeedbackStep, Feedback, chatVars
    <3>3. CASE FeedbackEnds
      <4>1. /\ feedback' = [feedback EXCEPT !.pc = "loop", !.steps = 0]
            /\ UNCHANGED <<ratings, latest, hand, autopilot, ratingsBegun>>
        BY <3>3 DEF FeedbackEnds, chatVars
      <4>2. 0 \in 0..LocalSteps
        BY <3>1
      <4> QED BY <3>1, <4>1, <4>2 DEF Feedback
    <3> QED BY <1>9, <3>2, <3>3 DEF FeedbackRound
  <2>2. BankSound'
    BY <2>1 DEF RatingInv, BankSound, Counted
  <2>3. RatingTypes' /\ BegunInTime'
    BY <2>1 DEF RatingInv, RatingTypes, BegunInTime
  <2>4. MaxRatings <= HubCap => NewestWaits' /\ BankIsLatest'
    BY <2>1 DEF RatingInv, NewestWaits, BankIsLatest
  <2> QED BY <2>2, <2>3, <2>4 DEF RatingInv
<1>10. CASE \/ (Engine \/ StopNext) /\ UNCHANGED learningVars
            \/ ToggleTraining \/ (\E waited \in BOOLEAN : Fill(waited))
            \/ ContinualRound \/ TrainerEnds("continual", continual.pc)
            \/ TrainerEnds("feedback", feedback.pc) \/ UNCHANGED allVars
  <2>1. UNCHANGED <<ratings, latest, feedback, hand, autopilot, ratingsBegun>>
    BY <1>10 DEF Engine, TakeQuestion, AnswerFails, Answer, ChatEnds, StopNext, ToggleTraining,
       Fill, ContinualRound, ContinualStep, ContinualSubmit, ContinualFails, TrainerEnds,
       learningVars, chatVars, allVars
  <2> QED BY <1>3, <2>1
<1> QED BY <1>5, <1>6, <1>7, <1>8, <1>9, <1>10 DEF Next

LEMMA RatingsHold == Spec => [](RatingInv /\ TextsInv /\ OrderInv)
<1>1. Init => RatingInv /\ TextsInv /\ OrderInv
  BY RatingInit, TextsInit, OrderInit
<1>2. RatingInv /\ TextsInv /\ OrderInv /\ [Next]_allVars
          => (RatingInv /\ TextsInv /\ OrderInv)'
  BY RatingStep, TextsStep, OrderStep
<1> QED
  BY <1>1, <1>2, PTL DEF Spec

\* The number of items beside the bank is the number of answers in it and within its
\* cap (train_feedback.cpp, bank_items_), for any ratings, batches and evictions.
THEOREM BankIsCounted == Spec => []BankCounted
<1>1. RatingInv => BankCounted
  BY DEF RatingInv, BankSound, Counted, BankCounted
<1> QED
  BY <1>1, RatingsHold, PTL

\* While the hub drops none, a rating takes effect: the bank holds no score of an
\* answer older than the last one drained (train_feedback.cpp, ready()), whatever is
\* re-rated, by whom, and however the drains cut the stream.
THEOREM RatingsTakeEffect == Spec => []LatestRatingWins
<1>1. RatingInv => LatestRatingWins
  BY DEF RatingInv, BankIsLatest, LatestRatingWins, Rates, Rated
<1> QED
  BY <1>1, RatingsHold, PTL

-----------------------------------------------------------------------------
(* Types and caps.                                                           *)

LEMMA KeptWithinCap ==
    ASSUME NEW S, NEW s \in Seq(S), NEW cap \in Nat
    PROVE  Len(KeepLast(s, cap)) <= cap /\ Len(KeepLast(s, cap)) \in Nat
<1>1. Len(s) \in Nat
  OBVIOUS
<1>2. CASE Len(s) <= cap
  BY <1>1, <1>2 DEF KeepLast
<1>3. CASE ~(Len(s) <= cap)
  <2>1. KeepLast(s, cap) = SubSeq(s, Len(s) - cap + 1, Len(s))
    BY <1>3 DEF KeepLast
  <2>2. Len(s) - cap + 1 \in 1..(Len(s) + 1)
    BY <1>1, <1>3
  <2>3. Len(SubSeq(s, Len(s) - cap + 1, Len(s))) = cap
    BY <1>1, <1>3, <2>2
  <2> QED BY <2>1, <2>3
<1> QED BY <1>2, <1>3

CapsInv ==
    /\ training \in BOOLEAN /\ estop \in BOOLEAN
    /\ stage \in 0..4 /\ alive \subseteq Threads
    /\ Len(texts) <= HubCap /\ Len(ratings) <= HubCap
    /\ Len(continual.buffer) <= BufferCap

LEMMA CapsInit == Init => CapsInv
<1> SUFFICES ASSUME Init PROVE CapsInv
  OBVIOUS
<1>1. texts = <<>> /\ ratings = <<>> /\ continual.buffer = <<>> /\ Len(<<>>) = 0
  BY DEF Init, ChatInit
<1>2. HubCap \in Nat /\ BufferCap \in Nat
  BY ChatAssumption, LearningAssumption
<1>3. training \in BOOLEAN
  BY DEF Init, ChatInit
<1>4. estop \in BOOLEAN
  BY DEF Init, ChatInit
<1>5. stage \in 0..4
  <2>1. stage = 0
    BY DEF Init, ChatInit
  <2> QED BY <2>1
<1>6. alive \subseteq Threads
  BY DEF Init, ChatInit
<1> QED BY <1>1, <1>2, <1>3, <1>4, <1>5, <1>6 DEF CapsInv

LEMMA CapsStep ==
    RatingInv /\ TextsInv /\ OrderInv /\ CapsInv /\ [Next]_allVars => CapsInv'
<1> SUFFICES ASSUME RatingInv, TextsInv, OrderInv, CapsInv, [Next]_allVars PROVE CapsInv'
  OBVIOUS
<1>1. /\ ratings \in Seq(Sample) /\ texts \in Seq(Asks) /\ continual \in Continual
      /\ hand \in [People -> Hands] /\ HubCap \in Nat /\ BufferCap \in Nat
      /\ RatingInv' /\ TextsInv'
  BY ChatAssumption, LearningAssumption, RatingStep, TextsStep
     DEF RatingInv, RatingTypes, TextsInv, TextTypes
<1>2. /\ training \in BOOLEAN /\ estop \in BOOLEAN
      /\ stage \in 0..4 /\ alive \subseteq Threads
      /\ Len(texts) <= HubCap /\ Len(ratings) <= HubCap
      /\ Len(continual.buffer) <= BufferCap
  BY DEF CapsInv
<1>3. training' \in BOOLEAN
  <2>1. CASE ToggleTraining
    BY <1>2, <2>1 DEF ToggleTraining
  <2>2. CASE ~ToggleTraining
    <3>1. training' = training
      BY <2>2 DEF Next, Calls, GiveRating, Fill, ContinualRound, ContinualStep, ContinualSubmit,
         ContinualFails, TrainerEnds, FillBank, FeedbackRound, FeedbackStep, FeedbackEnds,
         learningVars, allVars
    <3> QED BY <1>2, <3>1
  <2> QED BY <2>1, <2>2
<1>4. estop' \in BOOLEAN
  <2>1. CASE ToggleStop
    BY <1>2, <2>1 DEF ToggleStop
  <2>2. CASE ~ToggleStop
    <3>1. estop' = estop
      BY <2>2 DEF Next, Engine, TakeQuestion, AnswerFails, Answer, ChatEnds, Robot, ReadLength,
         AutopilotAsk, Poll, GiveUp, AutopilotEnds, AutopilotAim, User, UserAsk, Quit, UserAim,
         StopNext, ToggleTraining, Calls, PushText, GiveRating, Rate, Fill, ContinualRound,
         ContinualStep, ContinualSubmit, ContinualFails, TrainerEnds, FillBank, FeedbackRound,
         FeedbackStep, FeedbackEnds, chatVars, allVars
    <3> QED BY <1>2, <3>1
  <2> QED BY <2>1, <2>2
<1>5. stage' \in 0..4
  <2>1. CASE Quit
    BY <2>1 DEF Quit
  <2>2. CASE StopNext
    BY <1>2, <2>2 DEF StopNext, StopOrder
  <2>3. CASE ~Quit /\ ~StopNext
    <3>1. stage' = stage
      BY <2>3 DEF Next, Engine, TakeQuestion, AnswerFails, Answer, ChatEnds, Robot, ReadLength,
         AutopilotAsk, Poll, GiveUp, AutopilotEnds, AutopilotAim, User, UserAsk, ToggleStop,
         UserAim, ToggleTraining, Calls, PushText, GiveRating, Rate, Fill, ContinualRound,
         ContinualStep, ContinualSubmit, ContinualFails, TrainerEnds, FillBank, FeedbackRound,
         FeedbackStep, FeedbackEnds, chatVars, allVars
    <3> QED BY <1>2, <3>1
  <2> QED BY <2>1, <2>2, <2>3
<1>6. alive' \subseteq alive
  BY DEF Next, Engine, TakeQuestion, AnswerFails, Answer, ChatEnds, Robot, ReadLength,
     AutopilotAsk, Poll, GiveUp, AutopilotEnds, AutopilotAim, User, UserAsk, ToggleStop, Quit,
     UserAim, StopNext, ToggleTraining, Calls, PushText, GiveRating, Rate, Fill, ContinualRound,
     ContinualStep, ContinualSubmit, ContinualFails, TrainerEnds, FillBank, FeedbackRound,
     FeedbackStep, FeedbackEnds, chatVars, allVars
<1>7. Len(Undrained(texts)) <= HubCap /\ Len(Undrained(ratings)) <= HubCap
  <2>1. Len(texts) \in Nat /\ Len(ratings) \in Nat
    BY <1>1
  <2>2. /\ Len(Drained(texts)) \in 0..Len(texts)
        /\ Len(Undrained(texts)) = Len(texts) - Len(Drained(texts))
    BY <1>1, DrainedParts
  <2>3. /\ Len(Drained(ratings)) \in 0..Len(ratings)
        /\ Len(Undrained(ratings)) = Len(ratings) - Len(Drained(ratings))
    BY <1>1, DrainedParts
  <2> QED BY <1>1, <1>2, <2>1, <2>2, <2>3
<1>8. Len(texts') <= HubCap
  <2>1. ASSUME NEW p \in People, PushText(p) PROVE Len(texts') <= HubCap
    <3>1. texts' = KeepLast(Append(texts, hand[p].text), HubCap) /\ hand[p].do = "push_text"
      BY <2>1 DEF PushText
    <3>2. hand[p].text \in Asks
      BY <1>1, <3>1 DEF Hands, Idle, Telling, Aiming
    <3>3. Append(texts, hand[p].text) \in Seq(Asks)
      BY <1>1, <3>2
    <3> QED BY <1>1, <3>1, <3>3, KeptWithinCap
  <2>2. ASSUME NEW waited \in BOOLEAN, Fill(waited) PROVE Len(texts') <= HubCap
    BY <1>7, <2>2 DEF Fill
  <2>3. CASE (\A p \in People : ~PushText(p)) /\ \A waited \in BOOLEAN : ~Fill(waited)
    <3>1. texts' = texts
      BY <2>3 DEF Next, Engine, TakeQuestion, AnswerFails, Answer, ChatEnds, Robot, ReadLength,
         AutopilotAsk, Poll, GiveUp, AutopilotEnds, AutopilotAim, User, UserAsk, ToggleStop, Quit,
         UserAim, StopNext, ToggleTraining, Calls, GiveRating, Rate, ContinualRound,
         ContinualStep, ContinualSubmit, ContinualFails, TrainerEnds, FillBank, FeedbackRound,
         FeedbackStep, FeedbackEnds, chatVars, allVars
    <3> QED BY <1>2, <3>1
  <2> QED BY <2>1, <2>2, <2>3
<1>9. Len(ratings') <= HubCap
  <2>1. ASSUME NEW p \in People, GiveRating(p) PROVE Len(ratings') <= HubCap
    <3>1. CASE ratings' = ratings
      BY <1>2, <3>1
    <3>2. CASE ratings' # ratings
      <4>1. hand[p].do = "rate" /\ hand[p].index \in DOMAIN history
            /\ ratings' = KeepLast(Append(ratings, Rating(p)), HubCap)
        BY <2>1, <3>2 DEF GiveRating, Rate
      <4>2. history[hand[p].index] \in Turn
        BY <4>1 DEF OrderInv, OrderTypes
      <4>3. hand[p].score \in Scores
        BY <1>1, <4>1 DEF Hands, Idle, Telling, Aiming
      <4>4. PromptOf[history[hand[p].index].id] \in Prompts
        BY <4>2, ChatAssumption DEF Turn
      <4>5. Rating(p) \in Sample
        BY <4>2, <4>3, <4>4 DEF Rating, Sample, Turn
      <4>6. Append(ratings, Rating(p)) \in Seq(Sample)
        BY <1>1, <4>5
      <4> QED BY <1>1, <4>1, <4>6, KeptWithinCap
    <3> QED BY <3>1, <3>2
  <2>2. CASE FillBank
    BY <1>7, <2>2 DEF FillBank
  <2>3. CASE (\A p \in People : ~GiveRating(p)) /\ ~FillBank
    <3>1. ratings' = ratings
      BY <2>3 DEF Next, Engine, TakeQuestion, AnswerFails, Answer, ChatEnds, Robot, ReadLength,
         AutopilotAsk, Poll, GiveUp, AutopilotEnds, AutopilotAim, User, UserAsk, ToggleStop, Quit,
         UserAim, StopNext, ToggleTraining, Calls, PushText, Fill, ContinualRound,
         ContinualStep, ContinualSubmit, ContinualFails, TrainerEnds, FeedbackRound,
         FeedbackStep, FeedbackEnds, chatVars, allVars
    <3> QED BY <1>2, <3>1
  <2> QED BY <2>1, <2>2, <2>3
<1>10. Len(continual'.buffer) <= BufferCap
  <2>1. ASSUME NEW waited \in BOOLEAN, Fill(waited) PROVE Len(continual'.buffer) <= BufferCap
    <3> DEFINE buffer == KeepLast(continual.buffer \o Drained(texts), BufferCap)
    <3>1. Drained(texts) \in Seq(Asks) /\ continual.buffer \in Seq(Asks)
      BY <1>1, DrainedParts DEF Continual
    <3>2. continual.buffer \o Drained(texts) \in Seq(Asks)
      BY <3>1
    <3>3. Len(buffer) <= BufferCap
      BY <1>1, <3>2, KeptWithinCap
    <3>4. \/ continual' = [pc |-> "train", buffer |-> <<>>, taken |-> buffer, steps |-> 0]
          \/ continual' = [continual EXCEPT !.buffer = buffer]
      BY <2>1 DEF Fill
    <3> HIDE DEF buffer
    <3>5. continual'.buffer = <<>> \/ continual'.buffer = buffer
      BY <1>1, <3>4 DEF Continual
    <3> QED BY <1>1, <3>3, <3>5
  <2>2. CASE ContinualRound
    <3>1. continual'.buffer = continual.buffer
      BY <1>1, <2>2 DEF ContinualRound, ContinualStep, ContinualSubmit, ContinualFails, Continual
    <3> QED BY <1>2, <3>1
  <2>3. CASE (\A waited \in BOOLEAN : ~Fill(waited)) /\ ~ContinualRound
    <3>1. continual' = continual
      BY <2>3 DEF Next, ToggleTraining, Calls, GiveRating, TrainerEnds, FillBank, FeedbackRound,
         FeedbackStep, FeedbackEnds, learningVars, allVars
    <3> QED BY <1>2, <3>1
  <2> QED BY <2>1, <2>2, <2>3
<1> QED BY <1>2, <1>3, <1>4, <1>5, <1>6, <1>8, <1>9, <1>10 DEF CapsInv

\* The variables of the chat, the hub and the two trainers keep their types; among
\* them, the hub and the buffer never outgrow their caps.
THEOREM LearningTypeCorrect == Spec => []LearningTypeOK
<1>1. Init => CapsInv
  BY CapsInit
<1>2. RatingInv /\ TextsInv /\ OrderInv /\ CapsInv => LearningTypeOK
  <2> SUFFICES ASSUME RatingInv, TextsInv, OrderInv, CapsInv PROVE LearningTypeOK
    OBVIOUS
  <2>1. ChatTypeOK
    BY DEF RatingInv, RatingTypes, TextsInv, TextTypes, OrderInv, OrderTypes, CapsInv,
       ChatTypeOK, Asks
  <2>2. /\ continual.buffer \in Seq(1..MaxAsks) /\ continual.taken \in Seq(1..MaxAsks)
        /\ continual.steps \in 0..LocalSteps /\ learnt \subseteq 1..MaxAsks
    BY DEF TextsInv, TextTypes, Continual, Asks
  <2>3. feedback.bank \in [Prompts -> [Responses -> Scores \cup {NoScore}]]
        /\ feedback.steps \in 0..LocalSteps
    BY DEF RatingInv, BankSound, Feedback, Banks
  <2> QED BY <2>1, <2>2, <2>3 DEF CapsInv, LearningTypeOK
<1> QED
  BY <1>1, <1>2, CapsStep, RatingsHold, PTL DEF Spec
=============================================================================
