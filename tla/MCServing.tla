------------------------------ MODULE MCServing -------------------------------
(* What answers a question: the debate, the two backends it runs on, the       *)
(* windows their decode loops keep to, and the registry the weights come from. *)
(* The parts meet only at interfaces each of them leaves open (any answer, any *)
(* order of calls, any publisher), so a behaviour follows one of them, chosen  *)
(* at the start, and leaves the variables of the others alone.                 *)
EXTENDS Debate, SptBackend, GgufBackend, DecodeWindow

CONSTANTS
    spt, olmo,                          \* debate: the runtimes
    w0, w1, w2, crd, ui, trainer, chat, \* registry: snapshots, writers, readers
    sess, voice,                        \* the backends' session slots
    x, y, eot,                          \* tokens
    MaxPublishes  \* model bound: no publish starts after this many

VARIABLE part       \* the part this behaviour follows

\* Two voices on the fast backend and one on the strong one: multipliers 4, 2 and 3,
\* and as many rounds as the highest, so that the highest and the one below it engage
\* in all critique rounds; the voice that sits out the first of them writes two drafts.
MCBackends == {spt, olmo}
MCBackendOf == <<spt, spt, olmo>>
MCMultiplier == <<4, 2, 3>>
MCDraftCap == <<1, 2, 1>>
MCWeight == <<4, 2, 3>>
MCCost == <<0, 0, 10>>
MCCanSynthesise == 1..3
MCScores == {0, 2, 3}

\* Two writers, the coordinator thread and the dashboard's restore, one trainer
\* and one chat session over three snapshots, one of which is shallower.
MCWeights == {w0, w1, w2}
MCWriters == {crd, ui}
MCTrainers == {trainer}
MCSessions == {chat}
MCShort == {w1}

MCVocab == {x, eot}
MCSlots == {sess}
MCVoices == {voice}
MCTokens == {x}
MCPrompts == {<<x>>, <<x, y>>, <<y, x>>}
MCBlocks == 1..6
MCLengths == 1..7
MCNews == 0..7

allVars == <<part, vars, rvars, svars, gvars, wvars>>

MCInit ==
    /\ part \in {"debate", "registry", "spt", "gguf", "window"}
    /\ Init /\ RegInit /\ SptInit /\ GgufInit
    /\ IF part = "window" THEN WindowInit
       ELSE /\ loop = "gpt" /\ learned = FALSE /\ block = 1 /\ length = 1 /\ new = 0
            /\ capacity = 0 /\ cached = 0 /\ made = 0 /\ running = FALSE

Bounded == publishing' \ publishing # {} => version + Cardinality(publishing) < MaxPublishes

Others(p) ==
    /\ part = p /\ UNCHANGED part
    /\ p # "debate" => UNCHANGED vars
    /\ p \notin {"registry", "spt"} => UNCHANGED rvars
    /\ p # "spt" => UNCHANGED svars
    /\ p # "gguf" => UNCHANGED gvars
    /\ p # "window" => UNCHANGED wvars

DebateStep == Others("debate") /\ Next
RegistryStep == Others("registry") /\ RegNext /\ Bounded
SptStep == Others("spt") /\ SptNext /\ UNCHANGED rvars
\* For the backend one writer is enough: what two do to a reader is the registry's part.
PublishStep ==
    /\ Others("spt") /\ UNCHANGED svars
    /\ \/ \E w \in Weights : Swap(crd, w)
       \/ Bump(crd)
    /\ Bounded
\* Once a call has worked on a sequence that was not its own nothing is claimed of the
\* sequences until the model is unloaded: those states are not explored.
GgufStep == Others("gguf") /\ GgufNext /\ (trespass => GgufUnload)
WindowStep == Others("window") /\ WindowNext

\* A thread inside publish() finishes it, and debates are driven to their end.
\* Turns are the user's: the fairness of Resync reads "as long as turns keep
\* coming".
MCSpec ==
    /\ MCInit
    /\ [][DebateStep \/ RegistryStep \/ SptStep \/ PublishStep \/ GgufStep \/ WindowStep]_allVars
    /\ WF_vars(part = "debate" /\ Run)
    /\ \A w \in Writers : WF_rvars(part = "registry" /\ Bump(w))
    /\ \A s \in Sessions : WF_rvars(part = "registry" /\ Resync(s))

\* Debate.DebateEnds, in the behaviours that follow a debate.
EveryDebateEnds == part = "debate" => DebateEnds

\* WeightRegistry.SessionsCatchUp, in those that follow the registry.
ReadersCatchUp == part = "registry" => SessionsCatchUp
=============================================================================
