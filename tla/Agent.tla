------------------------------- MODULE Agent -------------------------------
(***************************************************************************)
(* The agent behind the dashboard: AgentController (src/gui_agent.cpp)     *)
(* runs one question at a time on a worker thread, AgentRuntime            *)
(* (src/agent/runtime.cpp) plans tools, loops between the model and its    *)
(* tool calls, ToolRegistry::invoke (src/agent/tools.cpp) applies the      *)
(* policy, and ApprovalGate parks the worker until the user has decided or *)
(* the request has timed out.  The render thread (src/gui.cpp) asks,       *)
(* cancels, answers the approval dialog and changes policies, all while    *)
(* the worker runs.                                                        *)
(*                                                                         *)
(* A tool call is a value that stands for a tool name and its arguments;   *)
(* approvals are kept under a key made of both, which two calls may share. *)
(* What a model writes is a free choice among prose, a malformed call and  *)
(* calls; the debate engine is one step here.                              *)
(***************************************************************************)
EXTENDS Integers, Sequences

CONSTANTS
    Calls,          \* tool calls: a tool and its arguments
    Tools,
    Risks,
    ToolOf,         \* Calls -> Tools
    RiskOf,         \* Tools -> Risks
    KeyOf,          \* Calls -> remember_key() of the tool and its canonical arguments
    WebCalls,       \* the calls the deterministic plan may make
    MaxToolSteps,   \* req.max_tool_steps
    MaxBatch,       \* model bound: calls in one reply
    MaxPlanned,     \* model bound: calls of one plan
    MaxAsks         \* model bound: questions asked

ASSUME AgentAssumption ==
    /\ ToolOf \in [Calls -> Tools]
    /\ RiskOf \in [Tools -> Risks]
    /\ DOMAIN KeyOf = Calls
    /\ WebCalls \subseteq Calls
    /\ MaxToolSteps \in Nat
    /\ MaxBatch \in Nat \ {0}
    /\ MaxPlanned \in Nat
    /\ MaxAsks \in Nat

VARIABLES
    \* ApprovalGate, under m_
    waiting,        \* waiting_: request id -> waiter
    remembered,     \* remembered_: the keys of calls allowed for good
    next_id,        \* next_id_
    \* AgentController
    busy,           \* busy
    cancel,         \* cancel
    \* the worker thread
    pc,             \* where ask() is
    turn,           \* its locals
    \* the render thread
    gui,            \* what a frame is doing, and the request its dialog shows
    policy,         \* ToolPolicy: risk -> mode
    enabled,        \* ToolRegistry::enabled_
    asks,           \* questions asked so far
    \* history, read by properties only
    consents,       \* the user's clicks on allow, and what was shown
    late            \* tools started in this turn after it was cancelled

gateVars == <<waiting, remembered, next_id>>
guiVars  == <<gui, policy, enabled, asks>>
vars == <<gateVars, busy, cancel, pc, turn, guiVars, consents, late>>

Modes == {"ask", "allow", "deny"}

AskModes == {"single", "debate", "self"}

Waiter == [call : Calls, answered : BOOLEAN, allow : BOOLEAN]

\* A click on allow: the request and the call that were shown.  A call allowed
\* for good has no request (0); a request that has returned needs none.
Consent == [id : Nat, call : Calls]

PCs == {"idle", "plan", "debate", "step", "generate", "calls", "invoke",
        "request", "wait", "cleared", "run", "finish"}

\* The locals of ask(), tool_loop() and invoke(): the plan's calls so far, where
\* a call returns to, whether calls are parsed, the step, the nudge, the calls
\* still to make, the policy the running one was found under, and its request.
Turn == [mode : AskModes, planned : 0 .. MaxPlanned, back : {"plan", "calls"},
         advertise : BOOLEAN, step : 0 .. (MaxToolSteps + 1), nudged : BOOLEAN,
         todo : Seq(Calls), policy : Modes, id : Nat]

\* What a frame of the render thread is in the middle of.
Frame == [pc : {"idle", "cancelling", "joining", "closed"}] \cup
         [pc : {"modal"}, id : Nat \ {0}, call : Calls]

NoTurn == [mode |-> "single", planned |-> 0, back |-> "plan", advertise |-> FALSE,
           step |-> 0, nudged |-> FALSE, todo |-> <<>>, policy |-> "ask", id |-> 0]

\* The call being invoked.
Call == Head(turn.todo)

AgentTypeOK ==
    /\ DOMAIN waiting \subseteq 1 .. (next_id - 1)
    /\ waiting \in [DOMAIN waiting -> Waiter]
    /\ remembered \subseteq {KeyOf[c] : c \in Calls}
    /\ next_id \in Nat \ {0}
    /\ busy \in BOOLEAN
    /\ cancel \in BOOLEAN
    /\ pc \in PCs
    /\ turn \in Turn
    /\ pc \in {"invoke", "request", "wait", "cleared", "run"} => turn.todo # <<>>
    /\ gui \in Frame
    /\ gui.pc = "modal" => gui.id < next_id
    /\ policy \in [Risks -> Modes]
    /\ enabled \in [Tools -> BOOLEAN]
    /\ asks \in 0 .. MaxAsks
    /\ consents \subseteq Consent
    /\ late \in Nat

Idle == [pc |-> "idle"]

Init ==
    /\ waiting = <<>>
    /\ remembered = {}
    /\ next_id = 1
    /\ busy = FALSE
    /\ cancel = FALSE
    /\ pc = "idle"
    /\ turn = NoTurn
    /\ gui = Idle
    /\ policy \in [Risks -> {"ask", "allow"}]
    /\ enabled = [t \in Tools |-> TRUE]
    /\ asks = 0
    /\ consents = {}
    /\ late = 0

\* Mutant: the worker polls a flag of its own.
MutCancelled == FALSE

\* cancel && cancel->load(), as the worker sees it.
Cancelled == cancel

WorkerKeeps == UNCHANGED <<busy, cancel, guiVars, consents>>

-----------------------------------------------------------------------------
(* The worker: AgentRuntime::ask, the deterministic plan.                    *)

\* The next call of the plan: a page or a search, then pages of its results as
\* long as none was good (a free choice).  The flag is looked at before each page
\* but not before the first call.
PlanCall(c) ==
    /\ pc = "plan"
    /\ turn.planned < MaxPlanned
    /\ turn.planned > 0 => ~Cancelled
    /\ turn' = [turn EXCEPT !.planned = @ + 1, !.todo = <<c>>, !.back = "plan"]
    /\ pc' = "invoke"
    /\ WorkerKeeps /\ UNCHANGED <<gateVars, late>>

\* A debate without the strong model becomes a self-debate, from the start.
Fallback ==
    /\ pc = "plan"
    /\ turn.mode = "debate"
    /\ turn' = [NoTurn EXCEPT !.mode = "self"]
    /\ WorkerKeeps /\ UNCHANGED <<gateVars, pc, late>>

StartDebate ==
    /\ pc = "plan"
    /\ turn.mode \in {"debate", "self"}
    /\ pc' = "debate"
    /\ WorkerKeeps /\ UNCHANGED <<gateVars, turn, late>>

DebateEnds ==
    /\ pc = "debate"
    /\ pc' = "finish"
    /\ WorkerKeeps /\ UNCHANGED <<gateVars, turn, late>>

\* The loop with one model.  Tools are advertised when nothing was retrieved
\* and the model's window is large enough; only then are calls parsed.
StartLoop ==
    /\ pc = "plan"
    /\ turn.mode = "single"
    /\ \E adv \in BOOLEAN :
          turn' = [turn EXCEPT !.advertise = adv, !.todo = <<>>, !.back = "calls"]
    /\ pc' = "step"
    /\ WorkerKeeps /\ UNCHANGED <<gateVars, late>>

\* No backend to answer with.
GiveUp ==
    /\ pc = "plan"
    /\ turn.mode = "single"
    /\ pc' = "finish"
    /\ WorkerKeeps /\ UNCHANGED <<gateVars, turn, late>>

-----------------------------------------------------------------------------
(* The worker: tool_loop.                                                    *)

\* The top of a step.
Step ==
    /\ pc = "step"
    /\ pc' = IF turn.step > MaxToolSteps \/ Cancelled THEN "finish" ELSE "generate"
    /\ WorkerKeeps /\ UNCHANGED <<gateVars, turn, late>>

\* An error, prose, calls nobody asked for, or a malformed call that gets no
\* nudge: the loop is over.
Answer ==
    /\ pc = "generate"
    /\ pc' = "finish"
    /\ WorkerKeeps /\ UNCHANGED <<gateVars, turn, late>>

\* Mutant: the nudge is not counted, and takes no step.
MutNudge ==
    /\ pc = "generate"
    /\ turn.advertise /\ ~turn.nudged /\ turn.step < MaxToolSteps
    /\ pc' = "step"
    /\ WorkerKeeps /\ UNCHANGED <<gateVars, turn, late>>

\* A malformed call: one corrective attempt per question.
Nudge ==
    /\ pc = "generate"
    /\ turn.advertise /\ ~turn.nudged /\ turn.step < MaxToolSteps
    /\ turn' = [turn EXCEPT !.nudged = TRUE, !.step = @ + 1]
    /\ pc' = "step"
    /\ WorkerKeeps /\ UNCHANGED <<gateVars, late>>

\* The replies with calls: sequences of one to MaxBatch calls.
Batches == UNION {[1 .. n -> Calls] : n \in 1 .. MaxBatch}

\* The reply holds calls.
CallTools ==
    /\ pc = "generate"
    /\ turn.advertise
    /\ \E cs \in Batches : turn' = [turn EXCEPT !.todo = cs]
    /\ pc' = "calls"
    /\ WorkerKeeps /\ UNCHANGED <<gateVars, late>>

NextCall ==
    /\ pc = "calls"
    /\ turn.todo # <<>>
    /\ ~Cancelled
    /\ pc' = "invoke"
    /\ WorkerKeeps /\ UNCHANGED <<gateVars, turn, late>>

\* Every call was made, or the flag is set: on to the next step.
EndCalls ==
    /\ pc = "calls"
    /\ turn.todo = <<>> \/ Cancelled
    /\ turn' = [turn EXCEPT !.todo = <<>>, !.step = @ + 1]
    /\ pc' = "step"
    /\ WorkerKeeps /\ UNCHANGED <<gateVars, late>>

-----------------------------------------------------------------------------
(* The worker: ToolRegistry::invoke and ApprovalGate::request.               *)

\* invoke() returned: a trace is kept and the call is done with.
Return ==
    /\ pc' = turn.back
    /\ turn' = [turn EXCEPT !.todo = Tail(@), !.policy = "ask", !.id = 0]

\* Nothing keeps the tool from running any more; the flag is not looked at again.
Clear ==
    /\ pc' = "cleared"
    /\ UNCHANGED late

Start ==
    /\ pc = "cleared"
    /\ pc' = "run"
    /\ late' = IF cancel THEN late + 1 ELSE late
    /\ WorkerKeeps /\ UNCHANGED <<gateVars, turn>>

\* The mode of the call's risk.
ModeFor(c) == policy[RiskOf[ToolOf[c]]]

\* Disabled, cancelled, or denied by policy.
InvokeRefuse ==
    /\ pc = "invoke"
    /\ ~enabled[ToolOf[Call]] \/ Cancelled \/ ModeFor(Call) = "deny"
    /\ Return
    /\ WorkerKeeps /\ UNCHANGED <<gateVars, late>>

InvokeAllow ==
    /\ pc = "invoke"
    /\ enabled[ToolOf[Call]] /\ ~Cancelled /\ ModeFor(Call) = "allow"
    /\ turn' = [turn EXCEPT !.policy = "allow"]
    /\ Clear
    /\ WorkerKeeps /\ UNCHANGED gateVars

\* Past the checks; the preview is built before the gate is asked.
InvokeAsk ==
    /\ pc = "invoke"
    /\ enabled[ToolOf[Call]] /\ ~Cancelled /\ ModeFor(Call) = "ask"
    /\ pc' = "request"
    /\ WorkerKeeps /\ UNCHANGED <<gateVars, turn, late>>

\* Mutant: an approval that is kept covers the tool, whatever its arguments.
MutIsRemembered(c) == \E d \in Calls : KeyOf[d] \in remembered /\ ToolOf[d] = ToolOf[c]

IsRemembered(c) == KeyOf[c] \in remembered

RequestRemembered ==
    /\ pc = "request"
    /\ IsRemembered(Call)
    /\ Clear
    /\ WorkerKeeps /\ UNCHANGED <<gateVars, turn>>

RequestWait ==
    /\ pc = "request"
    /\ ~IsRemembered(Call)
    /\ waiting' = [i \in DOMAIN waiting \cup {next_id} |->
                      IF i = next_id
                      THEN [call |-> Call, answered |-> FALSE, allow |-> FALSE]
                      ELSE waiting[i]]
    /\ turn' = [turn EXCEPT !.id = next_id]
    /\ next_id' = next_id + 1
    /\ pc' = "wait"
    /\ WorkerKeeps /\ UNCHANGED <<remembered, late>>

\* Mutant: the waiter stays registered after its request returned.
MutErase(i) == waiting

Erase(i) == [j \in DOMAIN waiting \ {i} |-> waiting[j]]

\* The request was answered, before or at its deadline.
Wake ==
    /\ pc = "wait"
    /\ waiting[turn.id].answered
    /\ waiting' = Erase(turn.id)
    /\ consents' = {c \in consents : c.id # turn.id}
    /\ IF waiting[turn.id].allow THEN Clear /\ UNCHANGED turn
                                 ELSE Return /\ UNCHANGED late
    /\ UNCHANGED <<remembered, next_id, busy, cancel, guiVars>>

\* Mutant: past the deadline an answer is not looked at.
MutTimeOut ==
    /\ pc = "wait"
    /\ waiting' = Erase(turn.id)
    /\ consents' = {c \in consents : c.id # turn.id}
    /\ Return
    /\ UNCHANGED <<remembered, next_id, busy, cancel, guiVars, late>>

\* The deadline passed and nobody had answered.
TimeOut ==
    /\ pc = "wait"
    /\ ~waiting[turn.id].answered
    /\ waiting' = Erase(turn.id)
    /\ consents' = {c \in consents : c.id # turn.id}
    /\ Return
    /\ UNCHANGED <<remembered, next_id, busy, cancel, guiVars, late>>

\* The tool returned, failed, threw, or saw the flag.
RunDone ==
    /\ pc = "run"
    /\ Return
    /\ WorkerKeeps /\ UNCHANGED <<gateVars, late>>

\* The turn joins the history, then busy is cleared.
Finish ==
    /\ pc = "finish"
    /\ pc' = "idle"
    /\ busy' = FALSE
    /\ turn' = NoTurn
    /\ late' = 0
    /\ UNCHANGED <<gateVars, cancel, guiVars, consents>>

-----------------------------------------------------------------------------
(* The render thread.                                                        *)

GuiKeeps == UNCHANGED <<pc, policy, enabled, asks>>

Ask(mode) ==
    /\ gui.pc = "idle"
    /\ ~busy
    /\ asks < MaxAsks
    /\ asks' = asks + 1
    /\ cancel' = FALSE
    /\ busy' = TRUE
    /\ pc' = "plan"
    /\ turn' = [NoTurn EXCEPT !.mode = mode]
    /\ UNCHANGED <<gateVars, gui, policy, enabled, consents, late>>

\* The stop button, first half.  It is drawn from a snapshot: the turn may be
\* over when it is clicked.
CancelFlag ==
    /\ gui.pc = "idle"
    /\ asks > 0
    /\ cancel' = TRUE
    /\ gui' = [pc |-> "cancelling"]
    /\ GuiKeeps /\ UNCHANGED <<gateVars, busy, turn, consents, late>>

\* deny_all(): every waiter is answered, those already allowed included.
DenyAll ==
    /\ waiting' = [i \in DOMAIN waiting |->
                      [waiting[i] EXCEPT !.answered = TRUE, !.allow = FALSE]]
    /\ consents' = {c \in consents : c.id = 0}
    /\ UNCHANGED <<remembered, next_id>>

CancelDeny ==
    /\ gui.pc = "cancelling"
    /\ DenyAll
    /\ gui' = Idle
    /\ GuiKeeps /\ UNCHANGED <<busy, cancel, turn, late>>

\* pending().
Pending == {i \in DOMAIN waiting : ~waiting[i].answered}

\* approval_modal(): the oldest pending request is shown.
ShowModal ==
    /\ gui.pc = "idle"
    /\ \E i \in Pending :
          /\ \A j \in Pending : i <= j
          /\ gui' = [pc |-> "modal", id |-> i, call |-> waiting[i].call]
    /\ GuiKeeps /\ UNCHANGED <<gateVars, busy, cancel, turn, consents, late>>

\* decide() finds the request by its id, or does nothing.
Target == DOMAIN waiting \cap {gui.id}

Decide(allow, always) ==
    /\ gui.pc = "modal"
    /\ waiting' = [i \in DOMAIN waiting |->
                      IF i \in Target
                      THEN [waiting[i] EXCEPT !.answered = TRUE, !.allow = allow]
                      ELSE waiting[i]]
    /\ remembered' = remembered \cup
          (IF allow /\ always THEN {KeyOf[waiting[i].call] : i \in Target} ELSE {})
    /\ consents' =
          LET others == {c \in consents : c.id # gui.id}
              once   == [id |-> gui.id, call |-> gui.call]
              good   == [id |-> 0, call |-> gui.call]
          IN  IF ~allow \/ gui.id \notin DOMAIN waiting THEN others
              ELSE others \cup {once} \cup (IF always THEN {good} ELSE {})
    /\ gui' = Idle
    /\ GuiKeeps /\ UNCHANGED <<next_id, busy, cancel, turn, late>>

\* The dialog's deny-all button.
ModalDenyAll ==
    /\ gui.pc = "modal"
    /\ DenyAll
    /\ gui' = Idle
    /\ GuiKeeps /\ UNCHANGED <<busy, cancel, turn, late>>

\* A frame in which nothing is clicked.
ModalPass ==
    /\ gui.pc = "modal"
    /\ gui' = Idle
    /\ GuiKeeps /\ UNCHANGED <<gateVars, busy, cancel, turn, consents, late>>

\* The tools panel.
SetPolicy(r, m) ==
    /\ gui.pc = "idle"
    /\ policy' = [policy EXCEPT ![r] = m]
    /\ UNCHANGED <<gateVars, busy, cancel, pc, turn, gui, enabled, asks, consents, late>>

SetEnabled(t) ==
    /\ gui.pc = "idle"
    /\ enabled' = [enabled EXCEPT ![t] = ~@]
    /\ UNCHANGED <<gateVars, busy, cancel, pc, turn, gui, policy, asks, consents, late>>

\* The window is closed: ~AgentController sets the flag and joins the worker.
Close ==
    /\ gui.pc = "idle"
    /\ cancel' = TRUE
    /\ gui' = [pc |-> "joining"]
    /\ GuiKeeps /\ UNCHANGED <<gateVars, busy, turn, consents, late>>

Joined ==
    /\ gui.pc = "joining"
    /\ pc = "idle"
    /\ gui' = [pc |-> "closed"]
    /\ GuiKeeps /\ UNCHANGED <<gateVars, busy, cancel, turn, consents, late>>

-----------------------------------------------------------------------------
WorkerStep ==
    \/ \E c \in WebCalls : PlanCall(c)
    \/ Fallback \/ StartDebate \/ DebateEnds \/ StartLoop \/ GiveUp
    \/ Step \/ Answer \/ Nudge \/ CallTools \/ NextCall \/ EndCalls
    \/ InvokeRefuse \/ InvokeAllow \/ InvokeAsk
    \/ RequestRemembered \/ RequestWait \/ Wake \/ TimeOut
    \/ Start \/ RunDone \/ Finish

GuiStep ==
    \/ \E m \in AskModes : Ask(m)
    \/ CancelFlag \/ CancelDeny
    \/ ShowModal \/ ModalDenyAll \/ ModalPass
    \/ \E allow, always \in BOOLEAN : (always => allow) /\ Decide(allow, always)
    \/ \E r \in Risks, m \in Modes : SetPolicy(r, m)
    \/ \E t \in Tools : SetEnabled(t)
    \/ Close \/ Joined

Next == WorkerStep \/ GuiStep

Spec == Init /\ [][Next]_vars

\* The worker runs on: tools and generations end, and a request has a deadline.
\* The user owes nothing.
FairSpec == Spec /\ WF_vars(WorkerStep)

-----------------------------------------------------------------------------
\* "Anything that is not auto-allowed goes through ApprovalGate" (tools.h): a
\* tool is let through to its start only if its policy was allow when it was
\* invoked, or the user was shown this very call and allowed it - this request of
\* it, with no denial since - or allowed for good a call of the same key.  (The
\* key joins the arguments with line ends (tools.cpp:344), so calls that differ
\* in how their values are split into lines may share one.)
ConsentBeforeRun ==
    [][pc # "cleared" /\ pc' = "cleared"
          => \/ turn'.policy = "allow"
             \/ \E c \in consents : \/ c.id = turn.id /\ c.call = Call
                                    \/ c.id = 0 /\ KeyOf[c.call] = KeyOf[Call]]_vars

\* An answer that came before the request returned is the one it returns, on
\* time or at the deadline (tools.cpp, request()).
AnswerIsHonoured ==
    [][\A i \in DOMAIN waiting :
          waiting[i].answered /\ i \notin DOMAIN waiting'
             => (pc' = "cleared") = waiting[i].allow]_vars

\* The dialog can only show the request the worker is parked on: nothing is
\* left behind in waiting_.
OnlyLiveRequests == DOMAIN waiting = IF pc = "wait" THEN {turn.id} ELSE {}

\* Cancelling a turn lets at most the tool start that was past its check of the
\* flag (tools.cpp:740), wherever on its way to the start (tools.cpp:790) it was.
OneToolPerCancel == late <= 1

\* Every question comes back, also when the user never answers a request or
\* cancels or closes the window in the middle of one.
TurnEnds == busy ~> ~busy

\* "cancel() ... a pending approval would otherwise keep the worker parked until
\* it times out" (gui_agent.cpp): once cancel() is through, none does.
CancelNeverParks ==
    gui.pc = "idle" /\ busy /\ cancel => \A i \in DOMAIN waiting : waiting[i].answered
=============================================================================
