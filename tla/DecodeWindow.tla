----------------------------- MODULE DecodeWindow -----------------------------
(***************************************************************************)
(* The four loops that generate text, and the one that measures it, as     *)
(* they count positions: how much of a prompt is kept, how large the cache *)
(* is, and which test stops the loop.  GPT::generate (model.cpp),          *)
(* QModel::generate and QModel::eval_nats (qmodel.cpp) and the two         *)
(* backends each do it their own way; learned position embeddings end at   *)
(* block_size, rotary ones do not.                                         *)
(*                                                                         *)
(* What is drawn decides nothing here, except that it may end the text.    *)
(***************************************************************************)
EXTENDS Integers

CONSTANTS
    Blocks,         \* values of cfg_.block_size
    Lengths,        \* tokens of a prompt, or of a text to measure
    News            \* opt.max_new_tokens

ASSUME WindowAssumption ==
    /\ Blocks \subseteq Nat \ {0} /\ Lengths \subseteq Nat \ {0}
    /\ News \subseteq Int

VARIABLES
    loop,           \* which loop runs
    learned,        \* cfg_.pos is kLearned
    block,          \* cfg_.block_size
    length, new,    \* the request; eval_nats() has its chunk_in in new
    capacity,       \* positions the cache was allocated for
    cached,         \* positions filled: cache.T, st.pos, tokens.size(), pos
    made,           \* tokens drawn, or pairs measured
    running

wvars == <<loop, learned, block, length, new, capacity, cached, made, running>>

Greater(m, n) == IF m > n THEN m ELSE n
Lesser(m, n) == IF m < n THEN m ELSE n

-----------------------------------------------------------------------------
(* Per loop: the capacity of the cache and what is kept of the prompt.      *)

GptWindow(k, n, b, l) ==
    [capacity |-> b, kept |-> Greater(1, Lesser(k, b - Greater(1, n)))]

QuantWindow(k, n, b, l) ==
    LET want == k + Greater(1, n) + 1
        ctx == IF l THEN Lesser(want, b) ELSE Greater(want, b)
    IN  [capacity |-> ctx, kept |-> Greater(1, Lesser(k, ctx - Greater(1, n)))]

\* Mutant: room is made for the answer only, not for the position after it.
MutSptWindow(k, n, b, l) ==
    [capacity |-> b, kept |-> Lesser(k, Greater(2, b - Greater(1, n) + 1))]

SptWindow(k, n, b, l) ==
    [capacity |-> b, kept |-> Lesser(k, Greater(1, b - Greater(1, n) - 1))]

GgufWindow(k, n, b, l) ==
    [capacity |-> b, kept |-> Lesser(k, Greater(4, b - Greater(1, n) - 4))]

\* The pairs measured with one cache: what the caller asks for, or the default.
Chunk == IF new > 0 THEN new ELSE Lesser(block, 512)

EvalWindow ==
    [capacity |-> IF learned THEN Lesser(Chunk + 1, block) ELSE Chunk + 1, kept |-> 0]

Window ==
    CASE loop = "gpt"   -> GptWindow(length, new, block, learned)
      [] loop = "quant" -> QuantWindow(length, new, block, learned)
      [] loop = "spt"   -> SptWindow(length, new, block, learned)
      [] loop = "gguf"  -> GgufWindow(length, new, block, learned)
      [] OTHER          -> EvalWindow

\* A context of llama.cpp is never as small as the four tokens that are always
\* kept and the position behind them.  The one caller of eval_nats() asks for no
\* larger chunk than the block (main.cpp:1304); the loop relies on that where
\* positions are learned, and only there.
WindowInit ==
    /\ loop \in {"gpt", "quant", "spt", "gguf", "eval"}
    /\ learned \in BOOLEAN
    /\ block \in {b \in Blocks : loop = "gguf" => b > 5}
    /\ length \in Lengths
    /\ new \in News
    /\ loop = "eval" /\ learned => new <= block
    /\ capacity = 0 /\ cached = 0 /\ made = 0
    /\ running = FALSE

\* The cache is allocated and the kept tail of the prompt fed in one pass.
Prefill ==
    /\ ~running /\ capacity = 0
    /\ capacity' = Window.capacity
    /\ cached' = Window.kept
    /\ running' = TRUE
    /\ UNCHANGED <<loop, learned, block, length, new, made>>

-----------------------------------------------------------------------------
(* Per loop: how many tokens it draws at most, and the test after a draw that *)
(* stops it before the token is fed.                                        *)

DrawLimit ==
    CASE loop = "spt"  -> Lesser(Greater(1, new), capacity - Window.kept)
      [] loop = "gguf" -> Lesser(Greater(1, new), capacity - Window.kept - 1)
      [] OTHER         -> new

\* A drawn token that ends the text: end of text, a stop string, the callback.
DrawLast ==
    /\ running /\ loop # "eval" /\ made < DrawLimit
    /\ made' = made + 1
    /\ running' = FALSE
    /\ UNCHANGED <<loop, learned, block, length, new, capacity, cached>>

\* GPT::generate and QModel::generate look for room before they feed the token.
DrawIfRoom ==
    /\ running /\ loop \in {"gpt", "quant"} /\ made < DrawLimit
    /\ made' = made + 1
    /\ IF cached + 1 > capacity
       THEN running' = FALSE /\ UNCHANGED cached
       ELSE cached' = cached + 1 /\ UNCHANGED running
    /\ UNCHANGED <<loop, learned, block, length, new, capacity>>

\* The SPT backend feeds the token, then looks.
DrawThenLook ==
    /\ running /\ loop = "spt" /\ made < DrawLimit
    /\ made' = made + 1
    /\ cached' = cached + 1
    /\ running' = (cached' + 1 < capacity)
    /\ UNCHANGED <<loop, learned, block, length, new, capacity>>

\* The GGUF backend relies on its draw limit alone.
DrawToLimit ==
    /\ running /\ loop = "gguf" /\ made < DrawLimit
    /\ made' = made + 1
    /\ cached' = cached + 1
    /\ UNCHANGED <<loop, learned, block, length, new, capacity, running>>

\* Cancelled, or nothing left to draw.
StopDrawing ==
    /\ running /\ loop # "eval"
    /\ running' = FALSE
    /\ UNCHANGED <<loop, learned, block, length, new, capacity, cached, made>>

-----------------------------------------------------------------------------
\* eval_nats(): chunk by chunk, each with an empty cache, every token fed to
\* predict the one after it.
MeasureChunk ==
    /\ running /\ loop = "eval" /\ made + 1 < length
    /\ LET stop == Lesser(length - 1, made + Chunk)
       IN  /\ cached' = stop - made
           /\ made' = stop
    /\ UNCHANGED <<loop, learned, block, length, new, capacity, running>>

Measured ==
    /\ running /\ loop = "eval" /\ made + 1 >= length
    /\ running' = FALSE
    /\ UNCHANGED <<loop, learned, block, length, new, capacity, cached, made>>

WindowNext ==
    \/ Prefill \/ DrawLast \/ DrawIfRoom \/ DrawThenLook \/ DrawToLimit
    \/ StopDrawing \/ MeasureChunk \/ Measured

WindowSpec == WindowInit /\ [][WindowNext]_wvars

-----------------------------------------------------------------------------
\* What a forward pass refuses: a position behind the cache, and one that has no
\* learned embedding.  (llama.cpp has none of its own that end.)
ContextOverflow == cached > capacity
PastBlockSize == learned /\ loop # "gguf" /\ capacity > 0 /\ cached > block

\* No loop feeds a position its cache has no room for, nor one a learned
\* position embedding does not have; a prompt never gets an empty answer for
\* want of room when an answer was asked for and the context holds more than one
\* token; and a measured text counts every token but its first exactly once.
FitsTheWindow ==
    /\ ~ContextOverflow /\ ~PastBlockSize
    /\ running /\ loop # "eval" /\ new > 0 /\ block > 1 => DrawLimit > 0
    /\ loop = "eval" /\ capacity > 0 /\ ~running => made = length - 1
=============================================================================
