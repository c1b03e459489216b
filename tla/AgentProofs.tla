----------------------------- MODULE AgentProofs -----------------------------
(***************************************************************************)
(* Theorems about the agent, for every set of calls, tools and risks and   *)
(* every bound on steps, plans and questions.                              *)
(***************************************************************************)
EXTENDS Agent, SequenceTheorems, TLAPS

-----------------------------------------------------------------------------
(* The inductive invariants.                                                 *)

\* Where the worker is, and what that says of its step, the flag and the tools
\* it started late: past its check of the flag it has started none.
WorkerInv ==
    /\ busy <=> pc # "idle"
    /\ pc = "idle" => late = 0
    /\ pc \in {"step", "generate", "calls"} => turn.back = "calls"
    /\ pc \in {"generate", "calls"} => turn.step <= MaxToolSteps
    /\ pc \in {"invoke", "request", "wait", "cleared", "run"} /\ turn.back = "calls"
          => turn.step <= MaxToolSteps
    /\ late > 0 => cancel /\ pc \notin {"request", "wait", "cleared"}
    /\ late <= 1

TypeInv == AgentTypeOK /\ WorkerInv

\* What stands between a click and a tool: the dialog shows what the waiter with
\* its id asks for, an allowed waiter was allowed by a click, and every key kept for
\* good is the key of a call that a click allowed for good.
ConsentInv ==
    /\ OnlyLiveRequests
    /\ pc = "wait" => waiting[turn.id].call = Call
    /\ gui.pc = "modal" /\ gui.id \in DOMAIN waiting => gui.call = waiting[gui.id].call
    /\ \A i \in DOMAIN waiting :
          waiting[i].answered /\ waiting[i].allow
             => [id |-> i, call |-> waiting[i].call] \in consents
    /\ \A k \in remembered : \E c \in consents : c.id = 0 /\ KeyOf[c.call] = k

-----------------------------------------------------------------------------
(* Type correctness and the worker.                                          *)

LEMMA NoCalls == <<>> \in Seq(Calls)
OBVIOUS

LEMMA NoTurnType == NoTurn \in Turn
BY NoCalls, AgentAssumption DEF NoTurn, Turn, AskModes, Modes

\* The three ways in which a step or a planned call is counted.
LEMMA TurnCounts ==
    ASSUME NEW t \in Turn
    PROVE  /\ t.step <= MaxToolSteps
                 => /\ [t EXCEPT !.nudged = TRUE, !.step = @ + 1] \in Turn
                    /\ [t EXCEPT !.todo = <<>>, !.step = @ + 1] \in Turn
           /\ t.planned < MaxPlanned => \A c \in Calls :
                 [t EXCEPT !.planned = @ + 1, !.todo = <<c>>, !.back = "plan"] \in Turn
<1> USE AgentAssumption DEF Turn
<1>1. t.step <= MaxToolSteps => t.step + 1 \in 0 .. (MaxToolSteps + 1)
  OBVIOUS
<1>2. t.planned < MaxPlanned => t.planned + 1 \in 0 .. MaxPlanned
  OBVIOUS
<1>3. \A c \in Calls : <<c>> \in Seq(Calls)
  OBVIOUS
<1> QED
  BY <1>1, <1>2, <1>3, NoCalls

LEMMA TypeInit == Init => TypeInv
<1> SUFFICES ASSUME Init PROVE TypeInv
  OBVIOUS
<1> USE AgentAssumption DEF Init
<1>1. NoTurn \in Turn
  BY NoTurnType
<1>2. Idle \in Frame /\ Idle.pc = "idle"
  BY DEF Idle, Frame
<1>3. DOMAIN waiting = {} /\ waiting \in [DOMAIN waiting -> Waiter]
  OBVIOUS
<1>4. policy \in [Risks -> Modes] /\ enabled \in [Tools -> BOOLEAN]
  BY DEF Modes
<1>5. DOMAIN waiting \subseteq 1 .. (next_id - 1)
  BY <1>3
<1>7. turn \in Turn /\ gui \in Frame /\ gui.pc # "modal"
  BY <1>1, <1>2
<1>8. pc \in PCs /\ pc \notin {"invoke", "request", "wait", "cleared", "run"}
      /\ asks \in 0 .. MaxAsks
  BY DEF PCs
<1>10. busy \in BOOLEAN /\ cancel \in BOOLEAN
  OBVIOUS
<1>11. remembered \subseteq {KeyOf[c] : c \in Calls} /\ next_id \in Nat \ {0}
       /\ consents \subseteq Consent /\ late \in Nat
  OBVIOUS
<1>9. AgentTypeOK
  BY <1>3, <1>4, <1>5, <1>7, <1>8, <1>10, <1>11 DEF AgentTypeOK
<1>6. WorkerInv
  BY DEF WorkerInv
<1> QED
  BY <1>6, <1>9 DEF TypeInv

LEMMA CallInCalls ==
    ASSUME TypeInv, turn.todo # <<>>
    PROVE  Call \in Calls /\ Tail(turn.todo) \in Seq(Calls)
BY HeadTailProperties DEF TypeInv, AgentTypeOK, Turn, Call

\* What returning from a call leaves of the turn.
LEMMA ReturnType ==
    ASSUME TypeInv, turn.todo # <<>>, Return
    PROVE  turn' \in Turn /\ turn'.step = turn.step /\ turn'.back = turn.back
<1>1. Tail(turn.todo) \in Seq(Calls)
  BY CallInCalls
<1> QED
  BY <1>1 DEF TypeInv, AgentTypeOK, Return, Turn, Modes

LEMMA WorkerTypes == TypeInv /\ WorkerStep => TypeInv'
<1> SUFFICES ASSUME TypeInv, WorkerStep PROVE TypeInv'
  OBVIOUS
<1> USE AgentAssumption DEF TypeInv, AgentTypeOK, WorkerInv, WorkerKeeps, gateVars, guiVars,
        PCs, Cancelled
<1>1. ASSUME NEW c \in WebCalls, PlanCall(c) PROVE TypeInv'
  <2>1. turn' \in Turn
    BY <1>1, TurnCounts DEF PlanCall
  <2>2. turn'.todo = <<c>> /\ turn'.back = "plan"
    BY <1>1 DEF PlanCall, Turn
  <2> QED
    BY <1>1, <2>1, <2>2 DEF PlanCall
<1>2. CASE Fallback
  <2>1. turn' \in Turn
    BY <1>2, NoTurnType DEF Fallback, Turn, AskModes
  <2> QED
    BY <1>2, <2>1 DEF Fallback
<1>3. CASE StartDebate
  BY <1>3 DEF StartDebate
<1>4. CASE DebateEnds
  BY <1>4 DEF DebateEnds
<1>5. CASE StartLoop
  <2>1. PICK adv \in BOOLEAN :
          turn' = [turn EXCEPT !.advertise = adv, !.todo = <<>>, !.back = "calls"]
    BY <1>5 DEF StartLoop
  <2>2. turn' \in Turn /\ turn'.back = "calls"
    BY <2>1, NoCalls DEF Turn
  <2> QED
    BY <1>5, <2>2 DEF StartLoop
<1>6. CASE GiveUp
  BY <1>6 DEF GiveUp
<1>7. CASE Step
  BY <1>7 DEF Step, Turn
<1>8. CASE Answer
  BY <1>8 DEF Answer
<1>9. CASE Nudge
  <2>1. turn' \in Turn /\ turn'.back = turn.back
    <3>1. turn.step <= MaxToolSteps /\ turn' = [turn EXCEPT !.nudged = TRUE, !.step = @ + 1]
      BY <1>9 DEF Nudge
    <3>2. turn' \in Turn
      BY <3>1, TurnCounts
    <3> QED
      BY <3>1, <3>2 DEF Turn
  <2> QED
    BY <1>9, <2>1 DEF Nudge
<1>10. CASE CallTools
  <2>1. PICK cs \in Batches : turn' = [turn EXCEPT !.todo = cs]
    BY <1>10 DEF CallTools
  <2>2. cs \in Seq(Calls)
    BY <2>1 DEF Batches
  <2>3. turn' \in Turn /\ turn'.back = turn.back /\ turn'.step = turn.step
    BY <2>1, <2>2 DEF Turn
  <2> QED
    BY <1>10, <2>3 DEF CallTools
<1>11. CASE NextCall
  BY <1>11 DEF NextCall
<1>12. CASE EndCalls
  <2>1. turn' \in Turn /\ turn'.back = turn.back
    <3>1. turn.step <= MaxToolSteps /\ turn' = [turn EXCEPT !.todo = <<>>, !.step = @ + 1]
      BY <1>12 DEF EndCalls
    <3>2. turn' \in Turn
      BY <3>1, TurnCounts
    <3> QED
      BY <3>1, <3>2 DEF Turn
  <2> QED
    BY <1>12, <2>1 DEF EndCalls
<1>13. CASE InvokeRefuse
  <2>1. turn' \in Turn /\ turn'.step = turn.step /\ turn'.back = turn.back
    BY <1>13, ReturnType DEF InvokeRefuse
  <2>2. turn.back \in {"plan", "calls"}
    BY DEF Turn
  <2> QED
    BY <1>13, <2>1, <2>2 DEF InvokeRefuse, Return
<1>14. CASE InvokeAllow
  <2>1. turn' \in Turn /\ turn'.step = turn.step /\ turn'.back = turn.back
        /\ turn'.todo = turn.todo
    BY <1>14 DEF InvokeAllow, Turn, Modes
  <2> QED
    BY <1>14, <2>1 DEF InvokeAllow, Clear
<1>15. CASE InvokeAsk
  BY <1>15 DEF InvokeAsk
<1>16. CASE RequestRemembered
  BY <1>16 DEF RequestRemembered, Clear
<1>17. CASE RequestWait
  <2>1. Call \in Calls
    BY <1>17, CallInCalls DEF RequestWait
  <2>2. DOMAIN waiting' = DOMAIN waiting \cup {next_id}
        /\ waiting' \in [DOMAIN waiting' -> Waiter]
    BY <1>17, <2>1 DEF RequestWait, Waiter
  <2>3. turn' \in Turn /\ turn'.step = turn.step /\ turn'.back = turn.back
        /\ turn'.todo = turn.todo
    BY <1>17 DEF RequestWait, Turn
  <2>4. DOMAIN waiting' \subseteq 1 .. (next_id' - 1) /\ next_id' \in Nat \ {0}
        /\ next_id < next_id'
    BY <1>17, <2>2 DEF RequestWait
  <2>5. gui'.pc = "modal" => gui'.id < next_id'
    BY <1>17, <2>4 DEF RequestWait, Frame
  <2> QED
    BY <1>17, <2>2, <2>3, <2>4, <2>5 DEF RequestWait
<1>18. ASSUME pc = "wait", waiting' = Erase(turn.id),
              consents' = {c \in consents : c.id # turn.id},
              UNCHANGED <<remembered, next_id, busy, cancel, guiVars>>,
              (Clear /\ UNCHANGED turn) \/ (Return /\ UNCHANGED late)
       PROVE  TypeInv'
  <2>1. DOMAIN waiting' \subseteq DOMAIN waiting
        /\ waiting' \in [DOMAIN waiting' -> Waiter]
    BY <1>18 DEF Erase
  <2>2. turn' \in Turn /\ turn'.step = turn.step /\ turn'.back = turn.back
    BY <1>18, ReturnType
  <2>3. turn.back \in {"plan", "calls"}
    BY DEF Turn
  <2> QED
    BY <1>18, <2>1, <2>2, <2>3 DEF Return, Clear
<1>19. CASE Wake
  BY <1>18, <1>19 DEF Wake
<1>20. CASE TimeOut
  BY <1>18, <1>20 DEF TimeOut
<1>21. CASE RunDone
  <2>1. turn' \in Turn /\ turn'.step = turn.step /\ turn'.back = turn.back
    BY <1>21, ReturnType DEF RunDone
  <2>2. turn.back \in {"plan", "calls"}
    BY DEF Turn
  <2> QED
    BY <1>21, <2>1, <2>2 DEF RunDone, Return
<1>22. CASE Finish
  <2>1. turn' \in Turn
    BY <1>22, NoTurnType DEF Finish
  <2>2. busy' \in BOOLEAN /\ ~busy' /\ pc' = "idle" /\ late' = 0
    BY <1>22 DEF Finish
  <2>3. WorkerInv'
    BY <1>22, <2>2 DEF Finish
  <2>4. AgentTypeOK'
    BY <1>22, <2>1, <2>2 DEF Finish
  <2> QED
    BY <2>3, <2>4
<1>23. CASE Start
  BY <1>23 DEF Start
<1> QED
  BY <1>1, <1>2, <1>3, <1>4, <1>5, <1>6, <1>7, <1>8, <1>9, <1>10, <1>11, <1>12, <1>13,
     <1>14, <1>15, <1>16, <1>17, <1>19, <1>20, <1>21, <1>22, <1>23 DEF WorkerStep

LEMMA DenyAllTypes ==
    ASSUME TypeInv, DenyAll
    PROVE  /\ DOMAIN waiting' = DOMAIN waiting
           /\ waiting' \in [DOMAIN waiting' -> Waiter]
           /\ consents' \subseteq Consent
BY DEF TypeInv, AgentTypeOK, DenyAll, Waiter

LEMMA GuiTypes == TypeInv /\ GuiStep => TypeInv'
<1> SUFFICES ASSUME TypeInv, GuiStep PROVE TypeInv'
  OBVIOUS
<1> USE AgentAssumption DEF TypeInv, AgentTypeOK, WorkerInv, GuiKeeps, gateVars, PCs
<1>0. Idle \in Frame /\ Idle.pc # "modal"
  BY DEF Idle, Frame
<1>1. ASSUME NEW m \in AskModes, Ask(m) PROVE TypeInv'
  <2>1. turn' \in Turn
    BY <1>1, NoTurnType DEF Ask, Turn
  <2>2. busy' \in BOOLEAN /\ busy' /\ cancel' \in BOOLEAN /\ pc' = "plan" /\ late' = 0
    BY <1>1 DEF Ask
  <2>3. WorkerInv'
    BY <2>2
  <2>4. AgentTypeOK'
    BY <1>1, <2>1, <2>2 DEF Ask
  <2> QED
    BY <2>3, <2>4
<1>2. CASE CancelFlag
  <2>1. gui' \in Frame /\ gui'.pc # "modal"
    BY <1>2 DEF CancelFlag, Frame
  <2>2. cancel' \in BOOLEAN /\ cancel'
    BY <1>2 DEF CancelFlag
  <2>3. WorkerInv'
    BY <1>2, <2>2 DEF CancelFlag
  <2>4. AgentTypeOK'
    BY <1>2, <2>1, <2>2 DEF CancelFlag
  <2> QED
    BY <2>3, <2>4
<1>3. CASE CancelDeny
  BY <1>0, <1>3, DenyAllTypes DEF CancelDeny, DenyAll
<1>4. CASE ShowModal
  <2>1. PICK i \in Pending : gui' = [pc |-> "modal", id |-> i, call |-> waiting[i].call]
    BY <1>4 DEF ShowModal
  <2>2. i \in DOMAIN waiting /\ i \in Nat \ {0} /\ i < next_id /\ waiting[i].call \in Calls
    BY <2>1 DEF Pending, Waiter
  <2>3. gui' \in Frame /\ gui'.id < next_id
    BY <2>1, <2>2 DEF Frame
  <2> QED
    BY <1>4, <2>3 DEF ShowModal
<1>5. CASE ModalDenyAll
  BY <1>0, <1>5, DenyAllTypes DEF ModalDenyAll, DenyAll
<1>6. CASE ModalPass
  BY <1>0, <1>6 DEF ModalPass
<1>7. ASSUME NEW allow \in BOOLEAN, NEW always \in BOOLEAN, Decide(allow, always)
      PROVE  TypeInv'
  <2>1. DOMAIN waiting' = DOMAIN waiting /\ waiting' \in [DOMAIN waiting' -> Waiter]
    BY <1>7 DEF Decide, Waiter
  <2>2. remembered' \subseteq {KeyOf[c] : c \in Calls}
    BY <1>7 DEF Decide, Target, Waiter
  <2>3. gui.id \in Nat /\ gui.call \in Calls
    BY <1>7 DEF Decide, Frame
  <2>4. consents' \subseteq Consent
    <3>1. [id |-> gui.id, call |-> gui.call] \in Consent
          /\ [id |-> 0, call |-> gui.call] \in Consent
      BY <2>3 DEF Consent
    <3> QED
      BY <1>7, <3>1 DEF Decide
  <2> QED
    BY <1>0, <1>7, <2>1, <2>2, <2>4 DEF Decide
<1>8. ASSUME NEW r \in Risks, NEW m \in Modes, SetPolicy(r, m) PROVE TypeInv'
  BY <1>8 DEF SetPolicy
<1>9. ASSUME NEW t \in Tools, SetEnabled(t) PROVE TypeInv'
  <2>1. enabled' \in [Tools -> BOOLEAN]
    BY <1>9 DEF SetEnabled
  <2> QED
    BY <1>9, <2>1 DEF SetEnabled
<1>10. CASE Close
  <2>1. gui' \in Frame /\ gui'.pc # "modal"
    BY <1>10 DEF Close, Frame
  <2>2. cancel' \in BOOLEAN /\ cancel'
    BY <1>10 DEF Close
  <2>3. WorkerInv'
    BY <1>10, <2>2 DEF Close
  <2>4. AgentTypeOK'
    BY <1>10, <2>1, <2>2 DEF Close
  <2> QED
    BY <2>3, <2>4
<1>11. CASE Joined
  <2>1. gui' \in Frame /\ gui'.pc # "modal"
    BY <1>11 DEF Joined, Frame
  <2> QED
    BY <1>11, <2>1 DEF Joined
<1> QED
  BY <1>1, <1>2, <1>3, <1>4, <1>5, <1>6, <1>7, <1>8, <1>9, <1>10, <1>11 DEF GuiStep

LEMMA TypeStep == TypeInv /\ [Next]_vars => TypeInv'
<1>1. TypeInv /\ UNCHANGED vars => TypeInv'
  BY DEF TypeInv, AgentTypeOK, WorkerInv, vars, gateVars, guiVars
<1> QED
  BY <1>1, WorkerTypes, GuiTypes DEF Next

THEOREM TypeHolds == Spec => []TypeInv
BY TypeInit, TypeStep, PTL DEF Spec

-----------------------------------------------------------------------------
\* The agent's variables keep their types: among them, the loop takes no step
\* past its limit, whatever mixture of nudges and calls the model writes.
THEOREM AgentTypeCorrect == Spec => []AgentTypeOK
BY TypeHolds, PTL DEF TypeInv

\* At most one tool starts after a cancel, however the plan, the loop, the gate
\* and the cancel interleave.
THEOREM LateToolsBounded == Spec => []OneToolPerCancel
<1>1. TypeInv => OneToolPerCancel
  BY DEF TypeInv, WorkerInv, OneToolPerCancel
<1> QED
  BY <1>1, TypeHolds, PTL

-----------------------------------------------------------------------------
(* Consent.                                                                  *)

Inv == TypeInv /\ ConsentInv

LEMMA ConsentInit == Init => ConsentInv
BY DEF Init, ConsentInv, OnlyLiveRequests, Idle

\* Steps that touch neither the gate nor the dialog nor the consents.
LEMMA ConsentUntouched ==
    ASSUME ConsentInv, UNCHANGED <<gateVars, gui, consents>>,
           pc # "wait", pc' # "wait"
    PROVE  ConsentInv'
BY DEF ConsentInv, OnlyLiveRequests, gateVars

\* A request that is answered or out of time leaves nothing behind.
LEMMA ConsentErase ==
    ASSUME Inv, pc = "wait", pc' # "wait", waiting' = Erase(turn.id),
           consents' = {c \in consents : c.id # turn.id},
           UNCHANGED <<remembered, gui>>
    PROVE  ConsentInv'
<1>1. DOMAIN waiting = {turn.id} /\ turn.id # 0
  BY DEF Inv, ConsentInv, OnlyLiveRequests, TypeInv, AgentTypeOK
<1>2. DOMAIN waiting' = {}
  BY <1>1 DEF Erase
<1>3. \A k \in remembered : \E c \in consents' : c.id = 0 /\ KeyOf[c.call] = k
  BY <1>1 DEF Inv, ConsentInv
<1> QED
  BY <1>2, <1>3 DEF ConsentInv, OnlyLiveRequests

LEMMA ReturnLeaves ==
    ASSUME TypeInv, Return
    PROVE  pc' \notin {"wait", "cleared", "run"}
BY DEF TypeInv, AgentTypeOK, Return, Turn

LEMMA ConsentWorker == Inv /\ WorkerStep => ConsentInv'
<1> SUFFICES ASSUME Inv, WorkerStep PROVE ConsentInv'
  OBVIOUS
<1> USE DEF Inv, WorkerKeeps, guiVars
<1>1. CASE \E c \in WebCalls : PlanCall(c)
  BY <1>1, ConsentUntouched DEF PlanCall
<1>2. CASE Fallback \/ StartDebate \/ DebateEnds \/ StartLoop \/ GiveUp
  BY <1>2, ConsentUntouched DEF Fallback, StartDebate, DebateEnds, StartLoop, GiveUp
<1>3. CASE Step \/ Answer \/ Nudge \/ CallTools \/ NextCall \/ EndCalls
  BY <1>3, ConsentUntouched DEF Step, Answer, Nudge, CallTools, NextCall, EndCalls
<1>4. CASE InvokeRefuse \/ RunDone
  BY <1>4, ConsentUntouched, ReturnLeaves DEF InvokeRefuse, RunDone
<1>5. CASE InvokeAllow \/ InvokeAsk \/ RequestRemembered \/ Start
  BY <1>5, ConsentUntouched DEF InvokeAllow, InvokeAsk, RequestRemembered, Clear, Start
<1>6. CASE RequestWait
  <2>1. DOMAIN waiting = {}
    BY <1>6 DEF RequestWait, ConsentInv, OnlyLiveRequests
  <2>2. turn'.id = next_id /\ Call' = Call
    BY <1>6 DEF RequestWait, TypeInv, AgentTypeOK, Turn, Call
  <2>3. DOMAIN waiting' = {next_id}
        /\ waiting'[next_id] = [call |-> Call, answered |-> FALSE, allow |-> FALSE]
    BY <1>6, <2>1 DEF RequestWait
  <2>4. gui'.pc = "modal" => gui'.id \notin DOMAIN waiting'
    BY <1>6, <2>3 DEF RequestWait, TypeInv, AgentTypeOK, Frame
  <2>5. pc' = "wait" /\ remembered' = remembered /\ consents' = consents
    BY <1>6 DEF RequestWait
  <2> QED
    BY <2>2, <2>3, <2>4, <2>5 DEF ConsentInv, OnlyLiveRequests
<1>7. CASE Wake
  BY <1>7, ConsentErase, ReturnLeaves DEF Wake, Clear
<1>8. CASE TimeOut
  BY <1>8, ConsentErase, ReturnLeaves DEF TimeOut
<1>9. CASE Finish
  BY <1>9, ConsentUntouched DEF Finish
<1> QED
  BY <1>1, <1>2, <1>3, <1>4, <1>5, <1>6, <1>7, <1>8, <1>9 DEF WorkerStep

LEMMA ConsentDenyAll ==
    ASSUME Inv, DenyAll, gui'.pc # "modal", UNCHANGED <<pc, turn>>
    PROVE  ConsentInv'
<1>1. DOMAIN waiting' = DOMAIN waiting
      /\ \A i \in DOMAIN waiting : /\ waiting'[i].call = waiting[i].call
                                   /\ ~waiting'[i].allow
  BY DEF DenyAll, Inv, TypeInv, AgentTypeOK, Waiter
<1>2. \A k \in remembered : \E c \in consents' : c.id = 0 /\ KeyOf[c.call] = k
  BY DEF DenyAll, Inv, ConsentInv
<1>3. remembered' = remembered /\ Call' = Call
  BY DEF DenyAll, Call
<1>4. turn.id \in DOMAIN waiting \/ pc # "wait"
  BY DEF Inv, ConsentInv, OnlyLiveRequests
<1> QED
  BY <1>1, <1>2, <1>3, <1>4 DEF Inv, ConsentInv, OnlyLiveRequests

LEMMA ConsentDecide ==
    ASSUME Inv, NEW allow \in BOOLEAN, NEW always \in BOOLEAN, Decide(allow, always)
    PROVE  ConsentInv'
<1> USE DEF Inv, TypeInv, AgentTypeOK
<1>1. gui.id \in Nat \ {0} /\ gui.call \in Calls /\ gui'.pc # "modal"
  BY DEF Decide, Frame, Idle
<1>2. DOMAIN waiting' = DOMAIN waiting
      /\ \A i \in DOMAIN waiting : /\ waiting'[i].call = waiting[i].call
                                   /\ i # gui.id => waiting'[i] = waiting[i]
                                   /\ i = gui.id => waiting'[i].allow = allow
  BY DEF Decide, Target, Waiter
<1>3. \A c \in consents : c.id # gui.id => c \in consents'
  BY DEF Decide
<1>4. pc' = pc /\ turn' = turn /\ Call' = Call
  BY DEF Decide, GuiKeeps, Call
<1>5. \A i \in DOMAIN waiting' :
         waiting'[i].answered /\ waiting'[i].allow
            => [id |-> i, call |-> waiting'[i].call] \in consents'
  <2> SUFFICES ASSUME NEW i \in DOMAIN waiting, waiting'[i].answered, waiting'[i].allow
               PROVE  [id |-> i, call |-> waiting[i].call] \in consents'
    BY <1>2
  <2>1. CASE i = gui.id
    <3>1. allow /\ gui.call = waiting[i].call
      BY <1>2, <2>1 DEF Decide, ConsentInv
    <3> QED
      BY <2>1, <3>1 DEF Decide
  <2>2. CASE i # gui.id
    <3>1. [id |-> i, call |-> waiting[i].call] \in consents
      BY <1>2, <2>2 DEF ConsentInv
    <3> QED
      BY <1>3, <2>2, <3>1
  <2> QED
    BY <2>1, <2>2
<1>6. \A k \in remembered' : \E c \in consents' : c.id = 0 /\ KeyOf[c.call] = k
  <2> SUFFICES ASSUME NEW k \in remembered'
               PROVE  \E c \in consents' : c.id = 0 /\ KeyOf[c.call] = k
    OBVIOUS
  <2>1. CASE k \in remembered
    <3>1. PICK c \in consents : c.id = 0 /\ KeyOf[c.call] = k
      BY <2>1 DEF ConsentInv
    <3> QED
      BY <1>1, <1>3, <3>1
  <2>2. CASE k \notin remembered
    <3>1. /\ allow /\ always /\ gui.id \in DOMAIN waiting
          /\ k = KeyOf[waiting[gui.id].call]
      BY <2>2 DEF Decide, Target
    <3>2. gui.call = waiting[gui.id].call
      BY <3>1 DEF Decide, ConsentInv
    <3>3. [id |-> 0, call |-> gui.call] \in consents'
      BY <3>1 DEF Decide
    <3> QED
      BY <3>1, <3>2, <3>3
  <2> QED
    BY <2>1, <2>2
<1> QED
  BY <1>1, <1>2, <1>4, <1>5, <1>6 DEF ConsentInv, OnlyLiveRequests

LEMMA ConsentGui == Inv /\ GuiStep => ConsentInv'
<1> SUFFICES ASSUME Inv, GuiStep PROVE ConsentInv'
  OBVIOUS
<1> USE DEF GuiKeeps, gateVars
<1>1. CASE \/ \E m \in AskModes : Ask(m)
           \/ \E r \in Risks, m \in Modes : SetPolicy(r, m)
           \/ \E t \in Tools : SetEnabled(t)
  BY <1>1 DEF Ask, SetPolicy, SetEnabled, Inv, TypeInv, WorkerInv, ConsentInv,
              OnlyLiveRequests, Call
<1>2. CASE CancelFlag \/ ModalPass \/ Close \/ Joined
  <2>1. UNCHANGED <<waiting, remembered, consents, pc, turn>> /\ gui'.pc # "modal"
    BY <1>2 DEF CancelFlag, ModalPass, Close, Joined, Idle
  <2> QED
    BY <2>1 DEF Inv, ConsentInv, OnlyLiveRequests, Call
<1>3. CASE CancelDeny \/ ModalDenyAll
  BY <1>3, ConsentDenyAll DEF CancelDeny, ModalDenyAll, Idle
<1>4. CASE ShowModal
  BY <1>4 DEF ShowModal, Inv, ConsentInv, OnlyLiveRequests, Call
<1>5. CASE \E allow, always \in BOOLEAN : (always => allow) /\ Decide(allow, always)
  BY <1>5, ConsentDecide
<1> QED
  BY <1>1, <1>2, <1>3, <1>4, <1>5 DEF GuiStep

LEMMA InvStep == Inv /\ [Next]_vars => Inv'
<1>1. Inv /\ UNCHANGED vars => ConsentInv'
  BY DEF Inv, ConsentInv, OnlyLiveRequests, Call, vars, gateVars, guiVars
<1> QED
  BY <1>1, TypeStep, ConsentWorker, ConsentGui DEF Inv, Next

THEOREM InvHolds == Spec => []Inv
<1>1. Init => Inv
  BY TypeInit, ConsentInit DEF Inv
<1> QED
  BY <1>1, InvStep, PTL DEF Spec

-----------------------------------------------------------------------------
\* The approval dialog only ever offers the request the worker is parked on.
THEOREM RequestsAreLive == Spec => []OnlyLiveRequests
<1>1. Inv => OnlyLiveRequests
  BY DEF Inv, ConsentInv
<1> QED
  BY <1>1, InvHolds, PTL

\* Every tool let through to its start is covered by its policy, by a click on
\* this very call or by one for good on a call of the same key, whatever calls the
\* key of tools.cpp:344 makes one.
THEOREM RunsHaveConsent == Spec => ConsentBeforeRun
<1> DEFINE Covered == pc # "cleared" /\ pc' = "cleared"
      => \/ turn'.policy = "allow"
         \/ \E c \in consents : \/ c.id = turn.id /\ c.call = Call
                                \/ c.id = 0 /\ KeyOf[c.call] = KeyOf[Call]
<1>1. Inv /\ [Next]_vars => [Covered]_vars
  <2> SUFFICES ASSUME Inv, Next, pc # "cleared", pc' = "cleared" PROVE Covered
    OBVIOUS
  <2>1. CASE InvokeAllow
    BY <2>1 DEF InvokeAllow, Inv, TypeInv, AgentTypeOK, Turn
  <2>2. CASE RequestRemembered
    <3>1. \E c \in consents : c.id = 0 /\ KeyOf[c.call] = KeyOf[Call]
      BY <2>2 DEF RequestRemembered, IsRemembered, Inv, ConsentInv
    <3> QED
      BY <3>1
  <2>3. CASE Wake
    <3>1. waiting[turn.id].allow
      BY <2>3, ReturnLeaves DEF Wake, Inv
    <3>2. turn.id \in DOMAIN waiting /\ waiting[turn.id].answered
          /\ waiting[turn.id].call = Call
      BY <2>3 DEF Wake, Inv, ConsentInv, OnlyLiveRequests
    <3>3. [id |-> turn.id, call |-> Call] \in consents
      BY <3>1, <3>2 DEF Inv, ConsentInv
    <3> QED
      BY <3>3
  <2>4. CASE \/ \E c \in WebCalls : PlanCall(c)
             \/ Fallback \/ StartDebate \/ DebateEnds \/ StartLoop \/ GiveUp
             \/ Step \/ Answer \/ Nudge \/ CallTools \/ NextCall \/ EndCalls
    BY <2>4 DEF PlanCall, Fallback, StartDebate, DebateEnds, StartLoop, GiveUp,
                Step, Answer, Nudge, CallTools, NextCall, EndCalls
  <2>5. CASE InvokeRefuse \/ InvokeAsk \/ RequestWait \/ TimeOut \/ Start \/ RunDone
             \/ Finish
    BY <2>5, ReturnLeaves DEF InvokeRefuse, InvokeAsk, RequestWait, TimeOut, Start,
                              RunDone, Finish, Inv
  <2>6. CASE GuiStep
    BY <2>6 DEF GuiStep, Ask, CancelFlag, CancelDeny, ShowModal, ModalDenyAll, ModalPass,
                Decide, SetPolicy, SetEnabled, Close, Joined, GuiKeeps
  <2> QED
    BY <2>1, <2>2, <2>3, <2>4, <2>5, <2>6 DEF Next, WorkerStep
<1> QED
  BY <1>1, InvHolds, PTL DEF Spec, ConsentBeforeRun

\* What an answered request returns is the answer, whether it is woken by it or by
\* its deadline (tools.cpp, request()): no request times out over an answer, and
\* nothing but its own return takes a request off the list.
THEOREM AnswersHonoured == Spec => AnswerIsHonoured
<1> DEFINE Honoured == \A i \in DOMAIN waiting :
                          waiting[i].answered /\ i \notin DOMAIN waiting'
                             => (pc' = "cleared") = waiting[i].allow
<1>1. Inv /\ [Next]_vars => [Honoured]_vars
  <2> SUFFICES ASSUME Inv, Next,
                      NEW i \in DOMAIN waiting, waiting[i].answered, i \notin DOMAIN waiting'
               PROVE  (pc' = "cleared") = waiting[i].allow
    OBVIOUS
  <2>1. CASE Wake
    <3>1. pc = "wait" /\ waiting' = Erase(turn.id)
      BY <2>1 DEF Wake
    <3>2. i = turn.id
      BY <3>1 DEF Erase
    <3>3. waiting[i].allow \in BOOLEAN
      BY DEF Inv, TypeInv, AgentTypeOK, Waiter
    <3>4. CASE waiting[i].allow
      BY <2>1, <3>2, <3>3, <3>4 DEF Wake, Clear
    <3>5. CASE ~waiting[i].allow
      <4>1. pc' # "cleared"
        BY <2>1, <3>2, <3>5, ReturnLeaves DEF Wake, Inv
      <4> QED BY <3>3, <3>5, <4>1
    <3> QED BY <3>4, <3>5
  <2>2. ~TimeOut
    <3>1. SUFFICES ASSUME TimeOut PROVE FALSE
      OBVIOUS
    <3>2. waiting' = Erase(turn.id) /\ ~waiting[turn.id].answered
      BY <3>1 DEF TimeOut
    <3>3. i = turn.id
      BY <3>2 DEF Erase
    <3> QED BY <3>2, <3>3
  <2>3. CASE RequestWait
    BY <2>3 DEF RequestWait
  <2>4. CASE \/ \E c \in WebCalls : PlanCall(c)
             \/ Fallback \/ StartDebate \/ DebateEnds \/ StartLoop \/ GiveUp
             \/ Step \/ Answer \/ Nudge \/ CallTools \/ NextCall \/ EndCalls
             \/ InvokeRefuse \/ InvokeAllow \/ InvokeAsk \/ RequestRemembered
             \/ Start \/ RunDone \/ Finish
    <3>1. waiting' = waiting
      BY <2>4 DEF PlanCall, Fallback, StartDebate, DebateEnds, StartLoop, GiveUp,
                  Step, Answer, Nudge, CallTools, NextCall, EndCalls, InvokeRefuse,
                  InvokeAllow, InvokeAsk, RequestRemembered, Start, RunDone, Finish, gateVars
    <3> QED BY <3>1
  <2>5. CASE GuiStep
    <3>1. DOMAIN waiting' = DOMAIN waiting
      BY <2>5 DEF GuiStep, Ask, CancelFlag, CancelDeny, ShowModal, ModalDenyAll, ModalPass,
                  Decide, DenyAll, SetPolicy, SetEnabled, Close, Joined, gateVars
    <3> QED BY <3>1
  <2> QED
    BY <2>1, <2>2, <2>3, <2>4, <2>5 DEF Next, WorkerStep
<1> QED
  BY <1>1, InvHolds, PTL DEF Spec, AnswerIsHonoured
=============================================================================
