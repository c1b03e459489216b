---------------------------- MODULE DebateProofs ----------------------------
(***************************************************************************)
(* Proofs about the debate, for every set of participants, multipliers and *)
(* number of rounds.                                                       *)
(***************************************************************************)
EXTENDS Debate, TLAPS

(* What n * q <= x < n * (q + 1) says about a quotient.                    *)
LEMMA Quotient ==
    ASSUME NEW x \in Nat, NEW n \in Nat \ {0}
    PROVE  /\ x \div n \in Nat
           /\ n * (x \div n) <= x
           /\ x < n * (x \div n) + n
  BY SMTT(30)

(* A running total that grows by less than n crosses at most one multiple  *)
(* of n: the quotient grows by at most one.                                *)
LEMMA OneBoundary ==
    ASSUME NEW x \in Nat, NEW m \in Nat, NEW n \in Nat \ {0}, m < n
    PROVE  /\ x \div n <= (x + m) \div n
           /\ (x + m) \div n <= x \div n + 1
<1> DEFINE q == x \div n
           p == (x + m) \div n
<1>1. q \in Nat /\ n * q <= x /\ x < n * q + n
  BY Quotient
<1>2. p \in Nat /\ n * p <= x + m /\ x + m < n * p + n
  BY Quotient
<1> HIDE DEF p, q
<1>3. q <= p
  <2>1. n * q < n * (p + 1)
    BY <1>1, <1>2
  <2>2. CASE p + 1 <= q
    <3>1. n * (p + 1) <= n * q
      BY <2>2, <1>1, <1>2, SMTT(30)
    <3> QED BY <3>1, <2>1, <1>1, <1>2
  <2> QED BY <2>2, <1>1, <1>2
<1>4. p <= q + 1
  <2>1. n * p < n * (q + 2)
    BY <1>1, <1>2
  <2>2. CASE q + 2 <= p
    <3>1. n * (q + 2) <= n * p
      BY <2>2, <1>1, <1>2, SMTT(30)
    <3> QED BY <3>1, <2>1, <1>1, <1>2
  <2> QED BY <2>2, <1>1, <1>2
<1> QED BY <1>3, <1>4 DEF p, q

-----------------------------------------------------------------------------
(* Types.  Until the drafts are in there is no last round and nobody       *)
(* engages; once they are, there is one.                                   *)

TypeInv ==
    /\ DebateTypeOK
    /\ pc \in {"resolve", "draft"} => last = {} /\ active = {} /\ r = 0
    /\ pc = "critique" => r > 0
    /\ \A p \in Participants : turns[p] <= r

LEMMA ConstantsHold ==
    /\ N \in Nat /\ Rounds \in 1..6
    /\ Scores \subseteq Nat
    /\ Multiplier \in [Participants -> 1..8]
    /\ CanSynthesise \subseteq Participants
  BY DebateAssumption

LEMMA TypeInit == Init => TypeInv
<1> SUFFICES ASSUME Init PROVE TypeInv
  OBVIOUS
<1>1. tr \in Transcript
  BY DEF Init, Transcript, None
<1>2. turns \in [Participants -> 0..Rounds - 1] /\ \A p \in Participants : turns[p] = 0
  BY ConstantsHold DEF Init
<1>3. r \in 0..Rounds - 1
  BY ConstantsHold DEF Init
<1>4. DebateTypeOK
  BY <1>1, <1>2, <1>3 DEF Init, DebateTypeOK
<1>5. \A p \in Participants : turns[p] <= r
  BY <1>2 DEF Init
<1> QED BY <1>4, <1>5 DEF Init, TypeInv

LEMMA NewAnswer ==
    ASSUME NEW a \in Participants, NEW d \in Nat, NEW i \in Ideas
    PROVE  [who |-> a, draft |-> d, idea |-> i, score |-> 0] \in Answer
  BY DEF Answer

LEMMA TypeNext == TypeInv /\ [Next]_vars => TypeInv'
<1> SUFFICES ASSUME TypeInv, [Next]_vars PROVE TypeInv'
  OBVIOUS
<1> USE DEF TypeInv, DebateTypeOK
<1>1. CASE Resolve
  <2>1. tr' \in Transcript
    BY <1>1 DEF Resolve, Transcript
  <2>2. actors' \subseteq Participants /\ slots' = actors' /\ todo' = actors'
    BY <1>1 DEF Resolve
  <2>3. pc' \in {"done", "draft"} /\ active' = {}
    BY <1>1 DEF Resolve
  <2> QED BY <1>1, <2>1, <2>2, <2>3 DEF Resolve
<1>2. ASSUME NEW a \in Participants, Draft(a) PROVE TypeInv'
  <2>1. PICK kept \in SUBSET Drafts(a) : \E idea \in [kept -> Ideas] :
          round' = round \cup
             {[who |-> a, draft |-> d, idea |-> idea[d], score |-> 0] : d \in kept}
    BY <1>2 DEF Draft
  <2> PICK idea \in [kept -> Ideas] :
          round' = round \cup
             {[who |-> a, draft |-> d, idea |-> idea[d], score |-> 0] : d \in kept}
    BY <2>1
  <2>2. kept \subseteq Nat
    BY ConstantsHold, DebateAssumption DEF Drafts
  <2>3. \A d \in kept :
          [who |-> a, draft |-> d, idea |-> idea[d], score |-> 0] \in Answer
    BY <2>2, NewAnswer
  <2>4. round' \subseteq Answer
    BY <2>3
  <2> QED BY <1>2, <2>4 DEF Draft
<1>3. CASE EndDrafting
  BY <1>3 DEF EndDrafting
<1>4. CASE NoDrafts
  BY <1>4 DEF NoDrafts, Transcript
<1>5. CASE Score
  <2>1. PICK s \in [last -> Scores] : last' = {[x EXCEPT !.score = s[x]] : x \in last}
    BY <1>5 DEF Score
  <2>2. \A x \in last : [x EXCEPT !.score = s[x]] \in Answer
    BY DEF Answer
  <2>3. last' \subseteq Answer
    BY <2>1, <2>2
  <2>4. last' # {}
    <3>1. PICK x \in last : TRUE
      BY <1>5 DEF Score
    <3>2. [x EXCEPT !.score = s[x]] \in last'
      BY <3>1, <2>1, Zenon
    <3> QED BY <3>2
  <2> QED BY <1>5, <2>3, <2>4 DEF Score
<1>6. CASE EndDebate
  <2>1. tr' \in Transcript
    BY <1>6 DEF EndDebate, Transcript
  <2> QED BY <1>6, <2>1 DEF EndDebate
<1>7. CASE StartRound
  <2>1. Engaged(r + 1) \subseteq actors
    BY DEF Engaged
  <2>2. r + 1 \in 0..Rounds - 1
    BY <1>7, ConstantsHold DEF StartRound, MoreRounds
  <2>3. \A p \in Participants :
          turns[p] + (IF p \in Engaged(r + 1) THEN 1 ELSE 0) \in 0..r + 1
    OBVIOUS
  <2>4. /\ turns' \in [Participants -> 0..Rounds - 1]
        /\ \A p \in Participants : turns'[p] <= r'
    BY <1>7, <2>2, <2>3, ConstantsHold DEF StartRound
  <2>5. r' > 0
    BY <1>7 DEF StartRound
  <2> QED BY <1>7, <2>1, <2>2, <2>4, <2>5 DEF StartRound, MoreRounds
<1>8. ASSUME NEW a \in Participants, Carry(a) PROVE TypeInv'
  <2>1. round' \subseteq Answer
    BY <1>8 DEF Carry, BestOf, AnswersOf
  <2> QED BY <1>8, <2>1 DEF Carry
<1>9. ASSUME NEW a \in Participants, Revise(a) PROVE TypeInv'
  <2>1. round' \subseteq Answer
    BY <1>9, NewAnswer DEF Revise
  <2>2. expensive' \in BOOLEAN
    BY <1>9 DEF Revise, IsExpensive
  <2> QED BY <1>9, <2>1, <2>2 DEF Revise
<1>10. CASE CutRound
  BY <1>10 DEF CutRound
<1>11. CASE EndRound
  <2>1. PICK best \in [SatOut -> last] : last' = round \cup {best[p] : p \in SatOut}
    BY <1>11 DEF EndRound
  <2>2. last' \subseteq Answer /\ last' # {}
    BY <1>11, <2>1 DEF EndRound
  <2>3. tr' \in Transcript
    BY <1>11 DEF EndRound, Transcript
  <2> QED BY <1>11, <2>2, <2>3 DEF EndRound
<1>12. CASE EmptyRound
  BY <1>12 DEF EmptyRound
<1>13. CASE Select
  <2>1. \A w \in last : w.who \in Participants
    BY DEF Answer
  <2>2. \A w : Aggregators(w) \subseteq Participants
    BY ConstantsHold DEF Aggregators, Strongest, FirstCheap, First, Rewriters
  <2>3. PICK w \in last :
          \/ tr' = [tr EXCEPT !.winner = w.who] /\ pc' = "close"
          \/ /\ pc' = "synthesise"
             /\ \E a \in Aggregators(w) :
                   tr' = [tr EXCEPT !.winner = w.who, !.aggregator = a]
    BY <1>13 DEF Select, BestOf
  <2>4. tr' \in Transcript
    BY <2>1, <2>2, <2>3 DEF Transcript
  <2> QED BY <1>13, <2>3, <2>4 DEF Select
<1>14. CASE WriteFinal
  <2>1. tr' \in Transcript
    BY <1>14 DEF WriteFinal, Transcript, IsExpensive
  <2> QED BY <1>14, <2>1 DEF WriteFinal
<1>15. CASE Close
  BY <1>15 DEF Close
<1>16. CASE Cancel
  BY <1>16 DEF Cancel
<1>17. CASE UNCHANGED vars
  BY <1>17 DEF vars
<1> QED
  BY <1>1, <1>2, <1>3, <1>4, <1>5, <1>6, <1>7, <1>8, <1>9, <1>10, <1>11, <1>12,
     <1>13, <1>14, <1>15, <1>16, <1>17 DEF Next, Run

(* Every variable keeps its type, turns stay within the rounds held, and   *)
(* the round the winner is taken from is never empty.                      *)
THEOREM DebateTypeCorrect == Spec => []DebateTypeOK
<1>1. Spec => []TypeInv
  BY TypeInit, TypeNext, PTL DEF Spec
<1>2. TypeInv => DebateTypeOK
  BY DEF TypeInv
<1> QED BY <1>1, <1>2, PTL

-----------------------------------------------------------------------------
(* Sessions.                                                               *)

LEMMA SlotsNext == SlotsReleased /\ [Next]_vars => SlotsReleased'
<1> SUFFICES ASSUME SlotsReleased, [Next]_vars PROVE SlotsReleased'
  OBVIOUS
<1> USE DEF SlotsReleased
<1>1. CASE Resolve
  BY <1>1 DEF Resolve
<1>2. ASSUME NEW a \in Participants, Draft(a) \/ Carry(a) \/ Revise(a)
      PROVE  SlotsReleased'
  BY <1>2 DEF Draft, Carry, Revise
<1>3. CASE EndDrafting \/ NoDrafts \/ Score \/ EndDebate \/ StartRound
  BY <1>3 DEF EndDrafting, NoDrafts, Score, EndDebate, StartRound, MoreRounds
<1>4. CASE CutRound \/ EndRound \/ EmptyRound \/ WriteFinal \/ Close \/ Cancel
  BY <1>4 DEF CutRound, EndRound, EmptyRound, WriteFinal, Close, Cancel
<1>5. CASE Select
  <2>1. pc = "select" /\ pc' \in {"close", "synthesise"} /\ UNCHANGED <<slots, actors>>
    BY <1>5 DEF Select
  <2> QED BY <2>1
<1>6. CASE UNCHANGED vars
  BY <1>6 DEF vars
<1> QED BY <1>1, <1>2, <1>3, <1>4, <1>5, <1>6 DEF Next, Run

(* On every path out of run() each opened session has been closed.         *)
THEOREM SessionsClosed == Spec => []SlotsReleased
<1>1. Init => SlotsReleased
  BY DEF Init, SlotsReleased
<1> QED BY <1>1, SlotsNext, PTL DEF Spec

-----------------------------------------------------------------------------
(* Turns.                                                                  *)

LEMMA OneMoreTurn ==
    ASSUME NEW k \in Nat, NEW m \in Nat, NEW n \in Nat \ {0}, m < n
    PROVE  ((k + 1) * m) \div n =
              (k * m) \div n + (IF Engages(k, n, m) THEN 1 ELSE 0)
<1> DEFINE x == k * m
<1>1. x \in Nat /\ (k + 1) * m = x + m
  OBVIOUS
<1> HIDE DEF x
<1>2. x \div n <= (x + m) \div n /\ (x + m) \div n <= x \div n + 1
  BY <1>1, OneBoundary
<1>3. x \div n \in Nat /\ (x + m) \div n \in Nat
  BY <1>1, Quotient
<1>4. Engages(k, n, m) <=> (x + m) \div n > x \div n
  BY <1>1 DEF Engages, x
<1>5. (x + m) \div n = x \div n + (IF Engages(k, n, m) THEN 1 ELSE 0)
  BY <1>2, <1>3, <1>4
<1> QED BY <1>1, <1>5 DEF x

TurnsAreShares == \A p \in actors : turns[p] = FairShare(p)

LEMMA TurnsNext == TypeInv /\ TurnsAreShares /\ [Next]_vars => TurnsAreShares'
<1> SUFFICES ASSUME TypeInv, TurnsAreShares, [Next]_vars
             PROVE  TurnsAreShares'
  OBVIOUS
<1>1. CASE StartRound
  <2>1. r \in Nat /\ r + 1 < Rounds /\ Rounds \in 1..6
    BY <1>1, ConstantsHold DEF StartRound, MoreRounds, TypeInv, DebateTypeOK
  <2>2. r' = r + 1 /\ actors' = actors
    BY <1>1 DEF StartRound
  <2> SUFFICES ASSUME NEW p \in actors PROVE turns'[p] = FairShare(p)'
    BY <2>2 DEF TurnsAreShares
  <2>3. p \in Participants /\ turns[p] = FairShare(p)
    BY DEF TypeInv, DebateTypeOK, TurnsAreShares
  <2> DEFINE m == Multiplier[p]
             n == Rounds - 1
  <2>4. m \in Nat /\ n \in Nat \ {0}
    BY <2>1, <2>3, ConstantsHold
  <2>5. p \in Engaged(r + 1) <=> Engages(r, n, m)
    BY <2>1 DEF Engaged
  <2>6. turns'[p] = turns[p] + (IF Engages(r, n, m) THEN 1 ELSE 0)
    BY <1>1, <2>3, <2>5 DEF StartRound
  <2>7. CASE m >= n
    <3>1. Engages(r, n, m)
      BY <2>7 DEF Engages
    <3> QED BY <3>1, <2>1, <2>2, <2>3, <2>6, <2>7 DEF FairShare
  <2>8. CASE m < n
    <3>1. ((r + 1) * m) \div n = (r * m) \div n + (IF Engages(r, n, m) THEN 1 ELSE 0)
      BY <2>1, <2>4, <2>8, OneMoreTurn
    <3>2. ~(m >= n)
      BY <2>4, <2>8
    <3>3. FairShare(p) = (r * m) \div n /\ FairShare(p)' = ((r + 1) * m) \div n
      BY <3>2, <2>2 DEF FairShare
    <3> QED BY <3>1, <3>3, <2>3, <2>6
  <2> QED BY <2>4, <2>7, <2>8
<1>2. CASE Resolve
  <2>1. r = 0 /\ r' = 0 /\ turns' = turns /\ actors' \subseteq Participants
    BY <1>2 DEF Resolve, TypeInv
  <2>2. \A p \in Participants : turns[p] = 0
    BY <2>1 DEF TypeInv, DebateTypeOK
  <2>3. ASSUME NEW p \in Participants PROVE FairShare(p)' = 0
    <3>1. Multiplier[p] \in 1..8 /\ Rounds \in 1..6
      BY ConstantsHold
    <3>2. CASE Multiplier[p] >= Rounds - 1
      BY <3>2, <2>1 DEF FairShare
    <3>3. CASE Multiplier[p] < Rounds - 1
      <4>1. 0 * Multiplier[p] = 0
        BY <3>1
      <4>2. 0 \div (Rounds - 1) = 0
        BY <3>1, <3>3, SMTT(30)
      <4> QED BY <4>1, <4>2, <3>1, <3>3, <2>1 DEF FairShare
    <3> QED BY <3>1, <3>2, <3>3
  <2> QED BY <2>1, <2>2, <2>3 DEF TurnsAreShares
<1>3. CASE UNCHANGED <<actors, r, turns>>
  BY <1>3 DEF TurnsAreShares, FairShare
<1>4. StartRound \/ Resolve \/ UNCHANGED <<actors, r, turns>>
  BY DEF Next, Run, vars, Draft, EndDrafting, NoDrafts, Score, EndDebate, Carry,
         Revise, CutRound, EndRound, EmptyRound, Select, WriteFinal, Close, Cancel
<1> QED BY <1>1, <1>2, <1>3, <1>4

\* Whoever's multiplier is not below the number of critique rounds engages in all.
LEMMA SharesTie == TypeInv /\ TurnsAreShares => TurnsFollowMultiplier
<1> SUFFICES ASSUME TypeInv, TurnsAreShares PROVE TurnsFollowMultiplier
  OBVIOUS
<1>1. \A p \in actors : turns[p] = FairShare(p)
  BY DEF TurnsAreShares
<1>2. ASSUME NEW p \in actors, NEW q \in actors,
             Multiplier[p] >= Rounds, Multiplier[q] = Rounds - 1
      PROVE  turns[p] = turns[q]
  <2>1. p \in Participants /\ Multiplier[p] \in 1..8 /\ Rounds \in 1..6
    BY ConstantsHold DEF TypeInv, DebateTypeOK
  <2>2. Multiplier[p] >= Rounds - 1 /\ Multiplier[q] >= Rounds - 1
    BY <1>2, <2>1
  <2>3. turns[p] = r /\ turns[q] = r
    BY <1>1, <2>2 DEF FairShare
  <2> QED BY <2>3
<1> QED BY <1>1, <1>2 DEF TurnsFollowMultiplier, NextToHighest

(* After any number of critique rounds a participant has engaged in its    *)
(* fair share of them, in min(m, n) once all n are held; n is one less     *)
(* than the rounds, so that one whose multiplier is one below the highest  *)
(* has engaged as often as the highest.                                    *)
THEOREM MultiplierIsParticipation == Spec => []TurnsFollowMultiplier
<1>1. Init => TurnsAreShares
  BY DEF Init, TurnsAreShares
<1> QED BY <1>1, TypeInit, TypeNext, TurnsNext, SharesTie, PTL DEF Spec

-----------------------------------------------------------------------------
(* Representation.  While a round is held, only those already heard have   *)
(* an answer in it, one each; and unless a cancel comes, everyone heard    *)
(* that had an answer before has one now.                                  *)

VoiceInv ==
    /\ r > 0 => /\ OneVoice(round)
                /\ pc \in {"score", "top"} => OneVoice(last)
    /\ pc = "critique" => todo \subseteq active /\ Authors(round) \subseteq active \ todo

HeardInv ==
    pc = "critique" /\ ~cancel =>
       Authors(last) \cap (active \ todo) \subseteq Authors(round)

LEMMA ScoreKeepsAuthors ==
    ASSUME TypeInv, Score
    PROVE  /\ Authors(last') = Authors(last)
           /\ OneVoice(last) => OneVoice(last')
<1>1. PICK s \in [last -> Scores] : last' = {[x EXCEPT !.score = s[x]] : x \in last}
  BY DEF Score
<1>2. \A x \in last : [x EXCEPT !.score = s[x]].who = x.who
  BY DEF TypeInv, DebateTypeOK, Answer
<1>3. \A y \in last' : \E x \in last : y = [x EXCEPT !.score = s[x]] /\ y.who = x.who
  BY <1>1, <1>2, Zenon
<1>4. \A x \in last : \E y \in last' : y.who = x.who
  BY <1>1, <1>2, Zenon
<1>5. Authors(last') = Authors(last)
  <2>1. ASSUME NEW p \in Authors(last') PROVE p \in Authors(last)
    <3>1. PICK y \in last' : p = y.who
      BY DEF Authors
    <3>2. PICK x \in last : y.who = x.who
      BY <1>3
    <3> QED BY <3>1, <3>2 DEF Authors
  <2>2. \A p : p \in Authors(last) => p \in Authors(last')
    BY <1>4, Zenon DEF Authors
  <2> QED BY <2>1, <2>2
<1>6. OneVoice(last) => OneVoice(last')
  BY <1>3, Zenon DEF OneVoice
<1> QED BY <1>5, <1>6

LEMMA EndRoundMerges ==
    ASSUME TypeInv, EndRound, OneVoice(round)
    PROVE  /\ Authors(last') = Authors(round) \cup SatOut
           /\ OneVoice(last')
<1>1. PICK best \in [SatOut -> last] :
          /\ \A p \in SatOut : best[p] \in BestOf(AnswersOf(last, p))
          /\ last' = round \cup {best[p] : p \in SatOut}
  BY DEF EndRound
<1>2. \A p \in SatOut : best[p].who = p
  BY <1>1 DEF BestOf, AnswersOf
<1>3. SatOut \cap Authors(round) = {}
  BY DEF SatOut
<1>4. Authors(last') = Authors(round) \cup SatOut
  BY <1>1, <1>2 DEF Authors
<1>5. OneVoice(last')
  BY <1>1, <1>2, <1>3 DEF OneVoice, Authors
<1> QED BY <1>4, <1>5

LEMMA VoiceNext == TypeInv /\ VoiceInv /\ [Next]_vars => VoiceInv'
<1> SUFFICES ASSUME TypeInv, VoiceInv, [Next]_vars PROVE VoiceInv'
  OBVIOUS
<1>1. CASE StartRound
  BY <1>1 DEF StartRound, MoreRounds, VoiceInv, OneVoice, Authors
<1>2. CASE Score
  <2>1. UNCHANGED <<r, round, todo, active>> /\ pc' = "top" /\ pc = "score"
    BY <1>2 DEF Score
  <2>2. OneVoice(last) => OneVoice(last')
    BY <1>2, ScoreKeepsAuthors
  <2> QED BY <2>1, <2>2 DEF VoiceInv
<1>3. CASE EndRound
  <2>1. r > 0
    BY <1>3 DEF EndRound, TypeInv
  <2>2. OneVoice(round)
    BY <2>1 DEF VoiceInv
  <2>3. OneVoice(last')
    BY <1>3, <2>2, EndRoundMerges
  <2>4. UNCHANGED <<r, round>> /\ pc' = "score"
    BY <1>3 DEF EndRound
  <2> QED BY <2>2, <2>3, <2>4 DEF VoiceInv
<1>4. ASSUME NEW a \in Participants, Carry(a) \/ Revise(a) PROVE VoiceInv'
  <2>1. /\ pc = "critique" /\ a \in todo /\ todo' = todo \ {a}
        /\ UNCHANGED <<pc, r, active, last>>
    BY <1>4 DEF Carry, Revise, First
  <2>2. round' = round \/ \E x : x.who = a /\ round' = round \cup {x}
    <3>1. CASE Carry(a)
      BY <3>1 DEF Carry, BestOf, AnswersOf
    <3>2. CASE Revise(a)
      BY <3>2 DEF Revise
    <3> QED BY <1>4, <3>1, <3>2
  <2>3. todo \subseteq active /\ Authors(round) \subseteq active \ todo /\ OneVoice(round)
    BY <2>1 DEF VoiceInv, TypeInv
  <2>4. OneVoice(round')
    BY <2>1, <2>2, <2>3 DEF OneVoice, Authors
  <2>5. Authors(round') \subseteq active' \ todo'
    BY <2>1, <2>2, <2>3 DEF Authors
  <2> QED BY <2>1, <2>3, <2>4, <2>5 DEF VoiceInv
<1>5. CASE CutRound
  BY <1>5 DEF CutRound, VoiceInv
<1>6. CASE Resolve \/ EndDrafting \/ \E a \in Participants : Draft(a)
  <2>1. r' = 0 /\ pc' # "critique"
    BY <1>6 DEF Resolve, EndDrafting, Draft, TypeInv
  <2> QED BY <2>1 DEF VoiceInv
<1>7. CASE UNCHANGED <<r, round>> /\ pc' \notin {"critique", "score", "top"}
  BY <1>7 DEF VoiceInv
<1>8. CASE UNCHANGED <<pc, r, round, last, todo, active>>
  BY <1>8 DEF VoiceInv
<1>9. \/ NoDrafts \/ EndDebate \/ EmptyRound \/ Select \/ WriteFinal \/ Close
      => UNCHANGED <<r, round>> /\ pc' \notin {"critique", "score", "top"}
  BY DEF NoDrafts, EndDebate, EmptyRound, Select, WriteFinal, Close
<1>10. Cancel \/ UNCHANGED vars => UNCHANGED <<pc, r, round, last, todo, active>>
  BY DEF Cancel, vars
<1> QED BY <1>1, <1>2, <1>3, <1>4, <1>5, <1>6, <1>7, <1>8, <1>9, <1>10 DEF Next, Run

(* In a critique round each participant is one answer, whatever it wrote   *)
(* in round 0.                                                             *)
THEOREM OneVoiceHolds == Spec => []OneVoicePerRound
<1>1. Init => VoiceInv
  BY DEF Init, VoiceInv
<1>2. VoiceInv => OneVoicePerRound
  BY DEF VoiceInv, OneVoicePerRound
<1> QED BY <1>1, <1>2, TypeInit, TypeNext, VoiceNext, PTL DEF Spec

LEMMA HeardNext == TypeInv /\ HeardInv /\ [Next]_vars => HeardInv'
<1> SUFFICES ASSUME TypeInv, HeardInv, [Next]_vars PROVE HeardInv'
  OBVIOUS
<1>1. CASE StartRound
  BY <1>1 DEF StartRound, HeardInv
<1>2. ASSUME NEW a \in Participants, Carry(a) \/ Revise(a) PROVE HeardInv'
  <2>1. /\ pc = "critique" /\ ~cancel /\ todo' = todo \ {a}
        /\ UNCHANGED <<active, last>>
    BY <1>2 DEF Carry, Revise
  <2>2. round \subseteq round'
    BY <1>2 DEF Carry, Revise
  <2>3. a \in Authors(last) => a \in Authors(round')
    <3>1. CASE Carry(a)
      BY <3>1 DEF Carry, BestOf, AnswersOf, Authors
    <3>2. CASE Revise(a)
      BY <3>2 DEF Revise, AnswersOf, Authors
    <3> QED BY <1>2, <3>1, <3>2
  <2>4. Authors(round) \subseteq Authors(round')
    BY <2>2 DEF Authors
  <2> QED BY <2>1, <2>3, <2>4 DEF HeardInv
<1>3. CASE UNCHANGED <<pc, last, todo, active, round, cancel>>
  BY <1>3 DEF HeardInv
<1>4. CASE Cancel \/ CutRound
  BY <1>4 DEF Cancel, CutRound, HeardInv
<1>5. CASE pc' # "critique"
  BY <1>5 DEF HeardInv
<1>6. \/ Resolve \/ EndDrafting \/ NoDrafts \/ Score \/ EndDebate \/ EndRound
      \/ EmptyRound \/ Select \/ WriteFinal \/ Close
      \/ \E a \in Participants : Draft(a)
      => pc' # "critique"
  BY DEF Resolve, EndDrafting, NoDrafts, Score, EndDebate, EndRound, EmptyRound,
         Select, WriteFinal, Close, Draft
<1>7. UNCHANGED vars => UNCHANGED <<pc, last, todo, active, round, cancel>>
  BY DEF vars
<1> QED BY <1>1, <1>2, <1>3, <1>4, <1>5, <1>6, <1>7 DEF Next, Run

LEMMA NobodyVanishesStep ==
    TypeInv /\ VoiceInv /\ HeardInv /\ [Next]_vars
       => (last # {} /\ ~cancel => Authors(last) \subseteq Authors(last'))
<1> SUFFICES ASSUME TypeInv, VoiceInv, HeardInv, [Next]_vars, last # {}, ~cancel
             PROVE  Authors(last) \subseteq Authors(last')
  OBVIOUS
<1>1. CASE Score
  BY <1>1, ScoreKeepsAuthors
<1>2. CASE EndRound
  <2>1. pc = "critique" /\ todo = {} /\ r > 0
    BY <1>2 DEF EndRound, TypeInv
  <2>2. Authors(last') = Authors(round) \cup SatOut
    BY <1>2, <2>1, EndRoundMerges DEF VoiceInv
  <2>3. Authors(last) \cap active \subseteq Authors(round)
    BY <2>1 DEF HeardInv
  <2> QED BY <2>2, <2>3 DEF SatOut
<1>3. CASE EndDrafting
  BY <1>3 DEF EndDrafting, TypeInv
<1>4. CASE last' = last
  BY <1>4
<1>5. Score \/ EndRound \/ EndDrafting \/ last' = last
  BY DEF Next, Run, vars, Resolve, Draft, NoDrafts, EndDebate, StartRound, Carry,
         Revise, CutRound, EmptyRound, Select, WriteFinal, Close, Cancel
<1> QED BY <1>1, <1>2, <1>3, <1>4, <1>5

(* Until a cancel, whoever had an answer in a round has one in the next.   *)
THEOREM EveryoneStays == Spec => NobodyVanishes
<1>1. Init => TypeInv /\ VoiceInv /\ HeardInv
  BY TypeInit DEF Init, VoiceInv, HeardInv
<1>2. TypeInv /\ VoiceInv /\ HeardInv /\ [Next]_vars => TypeInv' /\ VoiceInv' /\ HeardInv'
  BY TypeNext, VoiceNext, HeardNext
<1>3. TypeInv /\ VoiceInv /\ HeardInv /\ [Next]_vars =>
         [last # {} /\ ~cancel => Authors(last) \subseteq Authors(last')]_vars
  BY NobodyVanishesStep
<1> QED BY <1>1, <1>2, <1>3, PTL DEF Spec, NobodyVanishes

-----------------------------------------------------------------------------
(* Synthesis.                                                              *)

LEMMA AggregatorFits ==
    ASSUME NEW w, NEW a \in Aggregators(w)
    PROVE  /\ ~Outclassed(a, w)
           /\ Cascade /\ Agreed => ~IsExpensive(a)
<1> DEFINE usual == {b \in Strongest : ~Outclassed(b, w)}
           escalate == Cascade /\ Agreed /\ \E b \in usual : IsExpensive(b)
<1>1. CASE escalate
  <2>1. a \in FirstCheap /\ Competitive(a, w)
    BY <1>1, Zenon DEF Aggregators
  <2> QED BY <2>1 DEF FirstCheap, First, Competitive, Outclassed
<1>2. CASE ~escalate
  <2>1. a \in usual
    BY <1>2, Zenon DEF Aggregators
  <2> QED BY <1>2, <2>1
<1> QED BY <1>1, <1>2

LEMMA JudgedAlike ==
    last' = last => /\ Agreed' <=> Agreed
                    /\ \A a, w : Outclassed(a, w)' <=> Outclassed(a, w)
                    /\ BestOf(last)' = BestOf(last)
<1> SUFFICES ASSUME last' = last
             PROVE  /\ Agreed' <=> Agreed
                    /\ \A a, w : Outclassed(a, w)' <=> Outclassed(a, w)
                    /\ BestOf(last)' = BestOf(last)
  OBVIOUS
<1>1. Agreed' <=> Agreed
  BY DEF Agreed, Cluster
<1>2. \A a, w : Outclassed(a, w)' <=> Outclassed(a, w)
  BY DEF Outclassed, AnswersOf
<1>3. BestOf(last)' = BestOf(last)
  BY DEF BestOf
<1> QED BY <1>1, <1>2, <1>3

LEMMA SynthesisNext == TypeInv /\ SynthesisGuarded /\ [Next]_vars => SynthesisGuarded'
<1> SUFFICES ASSUME TypeInv, SynthesisGuarded, [Next]_vars, pc' = "synthesise"
             PROVE  SynthesisGuarded'
  BY DEF SynthesisGuarded
<1>1. CASE Select
  <2>1. PICK w \in BestOf(last) : \E a \in Aggregators(w) :
             tr' = [tr EXCEPT !.winner = w.who, !.aggregator = a]
    BY <1>1 DEF Select
  <2>2. PICK a \in Aggregators(w) :
             tr' = [tr EXCEPT !.winner = w.who, !.aggregator = a]
    BY <2>1
  <2>3. tr'.winner = w.who /\ tr'.aggregator = a
    BY <2>2 DEF TypeInv, DebateTypeOK, Transcript
  <2>4. ~Outclassed(a, w) /\ (Cascade /\ Agreed => ~IsExpensive(a))
    BY AggregatorFits
  <2>5. last' = last
    BY <1>1 DEF Select
  <2>6. ~Outclassed(a, w)' /\ (Cascade /\ Agreed' => ~IsExpensive(a))
    BY <2>4, <2>5, JudgedAlike
  <2>7. w \in BestOf(last)'
    BY <2>5, JudgedAlike
  <2>8. ~Outclassed(tr.aggregator, w)' /\ w.who = tr'.winner
    BY <2>3, <2>6 DEF Outclassed
  <2>9. Cascade /\ Agreed' => ~IsExpensive(tr'.aggregator)
    BY <2>3, <2>6
  <2> QED BY <2>7, <2>8, <2>9 DEF SynthesisGuarded
<1>2. CASE UNCHANGED <<pc, last, tr>>
  <2>1. Agreed' <=> Agreed
    BY <1>2, JudgedAlike
  <2> QED BY <1>2, <2>1 DEF SynthesisGuarded, BestOf, Outclassed, AnswersOf
<1>3. Select \/ UNCHANGED <<pc, last, tr>>
  BY DEF Next, Run, vars, Resolve, Draft, EndDrafting, NoDrafts, Score, EndDebate,
         StartRound, Carry, Revise, CutRound, EndRound, EmptyRound, WriteFinal,
         Close, Cancel
<1> QED BY <1>1, <1>2, <1>3

(* The winner's text is left to no writer that is itself far below it, nor *)
(* to the expensive one when the clusters agree.                           *)
THEOREM WinnerIsSafe == Spec => []SynthesisGuarded
<1>1. Init => SynthesisGuarded
  BY DEF Init, SynthesisGuarded
<1> QED BY <1>1, TypeInit, TypeNext, SynthesisNext, PTL DEF Spec
=============================================================================
