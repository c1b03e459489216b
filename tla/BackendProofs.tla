---------------------------- MODULE BackendProofs ----------------------------
(***************************************************************************)
(* Proofs about the registry of weights, the two backends and the decode   *)
(* loops, for every context, prompt and limit, every number of sessions    *)
(* and sequences, and whatever is published, fails or is cancelled.        *)
(***************************************************************************)
EXTENDS SptBackend, GgufBackend, DecodeWindow,
        SequenceTheorems, FiniteSetTheorems, WellFoundedInduction, TLAPS

(* The registry of published weights (WeightRegistry), for any number of   *)
(* writers, trainers and sessions.                                         *)

LEMMA RegistryInit == RegInit => RegistryInv
BY RegistryAssumption
   DEF RegInit, RegistryInv, RegTypeOK, SkipIsFresh, NotedNotAhead

\* A reader that loads leaves with the current weights under the current version.
LEMMA SyncKeepsInv ==
    ASSUME RegistryInv, NEW r \in Readers, Sync(r)
    PROVE  RegistryInv'
<1> USE DEF RegistryInv, RegTypeOK
<1>1. /\ replica' = [replica EXCEPT ![r] = [weights |-> cur, version |-> version]]
      /\ UNCHANGED <<cur, version, publishing>>
  BY DEF Sync
<1>2. \A s \in Readers : replica'[s] = IF s = r THEN [weights |-> cur, version |-> version]
                                                ELSE replica[s]
  BY <1>1
<1> QED
  BY <1>1, <1>2 DEF SkipIsFresh, NotedNotAhead

LEMMA RegistryStep == RegistryInv /\ [RegNext]_rvars => RegistryInv'
<1> SUFFICES ASSUME RegistryInv, [RegNext]_rvars
             PROVE  RegistryInv'
  OBVIOUS
<1>1. ASSUME NEW w \in Writers, NEW p \in Weights, Swap(w, p)
      PROVE  RegistryInv'
  BY <1>1 DEF Swap, RegistryInv, RegTypeOK, SkipIsFresh, NotedNotAhead
<1>2. ASSUME NEW w \in Writers, Bump(w)
      PROVE  RegistryInv'
  <2>1. version' = version + 1 /\ UNCHANGED <<cur, replica>> /\ publishing' = publishing \ {w}
    BY <1>2 DEF Bump
  <2>2. \A r \in Readers : replica[r].version \in Nat /\ replica[r].version <= version
    BY DEF RegistryInv, RegTypeOK, NotedNotAhead
  <2>3. version \in Nat
    BY DEF RegistryInv, RegTypeOK
  <2>4. \A r \in Readers : replica[r].version <= version + 1 /\ replica[r].version # version + 1
    BY <2>2, <2>3
  <2>5. NotedNotAhead' /\ SkipIsFresh'
    BY <2>1, <2>4 DEF SkipIsFresh, NotedNotAhead
  <2>6. RegTypeOK'
    BY <2>1, <2>3 DEF RegistryInv, RegTypeOK
  <2> QED
    BY <2>5, <2>6 DEF RegistryInv
<1>3. ASSUME NEW r \in Trainers, Sync(r)
      PROVE  RegistryInv'
  BY <1>3, SyncKeepsInv DEF Readers
<1>4. ASSUME NEW r \in Sessions, Resync(r)
      PROVE  RegistryInv'
  BY <1>4, SyncKeepsInv DEF Readers, Resync
<1>5. CASE UNCHANGED rvars
  BY <1>5 DEF rvars, RegistryInv, RegTypeOK, SkipIsFresh, NotedNotAhead
<1> QED
  BY <1>1, <1>2, <1>3, <1>4, <1>5 DEF RegNext

\* The registry's variables keep their types.
THEOREM RegistryTypes == RegSpec => []RegTypeOK
<1>1. RegistryInv => RegTypeOK
  BY DEF RegistryInv
<1> QED
  BY <1>1, RegistryInit, RegistryStep, PTL DEF RegSpec

\* The version test by which the chat engine and the SPT backend skip a reload
\* (chat.cpp, backend_spt.cpp) never hides a finished publish, with any number
\* of concurrent writers, although the pointer and the version are not changed
\* together.
THEOREM SkipsAreFresh == RegSpec => []SkipIsFresh
<1>1. RegistryInv => SkipIsFresh
  BY DEF RegistryInv
<1> QED
  BY <1>1, RegistryInit, RegistryStep, PTL DEF RegSpec

-----------------------------------------------------------------------------
(* The decode loops (DecodeWindow).                                        *)

LoopNames == {"gpt", "quant", "spt", "gguf", "eval"}

WindowTypes ==
    /\ loop \in LoopNames /\ learned \in BOOLEAN /\ running \in BOOLEAN
    /\ block \in Nat \ {0} /\ length \in Nat \ {0} /\ new \in Int
    /\ capacity \in Nat /\ cached \in Nat /\ made \in Nat
    /\ loop = "gguf" => block > 5
    /\ loop = "eval" /\ learned => new <= block

\* Before the cache is allocated nothing is counted; afterwards the two backends
\* that rely on their draw limit have fed exactly the kept prompt and what they
\* drew, and a measurement never gets past the last pair.
WindowInv ==
    /\ WindowTypes
    /\ capacity = 0 => ~running /\ cached = 0 /\ made = 0
    /\ capacity > 0 => capacity = Window.capacity
    /\ cached <= capacity
    /\ running /\ loop \in {"spt", "gguf"} => cached = Window.kept + made
    /\ loop = "eval" => made <= length - 1
    /\ loop = "eval" /\ capacity > 0 /\ ~running => made = length - 1

LEMMA WindowConstants == Blocks \subseteq Nat \ {0} /\ Lengths \subseteq Nat \ {0} /\ News \subseteq Int
  BY WindowAssumption

LEMMA WindowInitially == WindowInit => WindowInv
<1> SUFFICES ASSUME WindowInit PROVE WindowInv
  OBVIOUS
<1>1. block \in Blocks /\ (loop = "gguf" => block > 5)
  BY DEF WindowInit
<1>2. new \in Int
  BY WindowConstants DEF WindowInit
<1>3. WindowTypes
  BY <1>1, <1>2, WindowConstants DEF WindowInit, WindowTypes, LoopNames
<1> QED
  BY <1>3 DEF WindowInit, WindowInv, WindowTypes

\* What each loop allocates, and what it keeps of the prompt, is within what it
\* may use; the backends leave room for a token.
LEMMA WindowBounds ==
    ASSUME WindowTypes
    PROVE  /\ Window.capacity \in Nat \ {0} /\ Window.kept \in Nat
           /\ Window.kept <= Window.capacity
           /\ learned /\ loop # "gguf" => Window.capacity <= block
           /\ loop \in {"spt", "gguf"} => Window.capacity = block /\ Window.kept >= 1
           /\ loop = "spt" /\ block > 1 => Window.kept < block
           /\ loop = "gguf" => Window.kept + 1 < block
           /\ loop = "eval" => Chunk \in Nat \ {0} /\ Chunk <= Window.capacity
<1> USE DEF WindowTypes, LoopNames, Greater, Lesser
<1>1. CASE loop = "gpt"
  BY <1>1 DEF Window, GptWindow
<1>2. CASE loop = "quant"
  BY <1>2 DEF Window, QuantWindow
<1>3. CASE loop = "spt"
  BY <1>3 DEF Window, SptWindow
<1>4. CASE loop = "gguf"
  BY <1>4 DEF Window, GgufWindow
<1>5. CASE loop = "eval"
  BY <1>5 DEF Window, EvalWindow, Chunk
<1> QED
  BY <1>1, <1>2, <1>3, <1>4, <1>5

\* The request and the loop stay, and so does what they make of the context.
LEMMA WindowStays ==
    ASSUME UNCHANGED <<loop, learned, block, length, new>>
    PROVE  Window' = Window /\ Chunk' = Chunk
  BY DEF Window, GptWindow, QuantWindow, SptWindow, GgufWindow, EvalWindow, Chunk

LEMMA WindowStep == WindowInv /\ [WindowNext]_wvars => WindowInv'
<1> SUFFICES ASSUME WindowInv, [WindowNext]_wvars PROVE WindowInv'
  OBVIOUS
<1> USE DEF WindowInv, WindowTypes
<1>1. UNCHANGED <<loop, learned, block, length, new>> /\ Window' = Window /\ Chunk' = Chunk
  <2>1. UNCHANGED <<loop, learned, block, length, new>>
    BY DEF WindowNext, Prefill, DrawLast, DrawIfRoom, DrawThenLook, DrawToLimit, StopDrawing,
           MeasureChunk, Measured, wvars
  <2> QED BY <2>1, WindowStays
<1>2. /\ Window.capacity \in Nat \ {0} /\ Window.kept \in Nat
      /\ Window.kept <= Window.capacity
      /\ loop \in {"spt", "gguf"} => Window.capacity = block /\ Window.kept >= 1
      /\ loop = "eval" => Chunk \in Nat \ {0} /\ Chunk <= Window.capacity
  BY <1>1, WindowBounds
<1>3. loop \in {"spt", "gguf"} /\ capacity > 0 => DrawLimit <= capacity - Window.kept /\ DrawLimit \in Int
  BY <1>2 DEF DrawLimit, Greater, Lesser
<1>4. CASE Prefill
  BY <1>1, <1>2, <1>4 DEF Prefill
<1>5. CASE DrawLast
  <2>1. running /\ loop # "eval"
    BY <1>5 DEF DrawLast
  <2>2. made' = made + 1 /\ UNCHANGED <<capacity, cached>>
    BY <1>5 DEF DrawLast
  <2>3. ~running' /\ running' \in BOOLEAN
    BY <1>5 DEF DrawLast
  <2> QED BY <1>1, <2>1, <2>2, <2>3
<1>6. CASE DrawIfRoom
  <2>1. running /\ loop \in {"gpt", "quant"}
    BY <1>6 DEF DrawIfRoom
  <2>2. made' = made + 1 /\ UNCHANGED capacity
    BY <1>6 DEF DrawIfRoom
  <2>3. CASE cached + 1 > capacity
    <3>1. UNCHANGED cached
      BY <1>6, <2>3 DEF DrawIfRoom
    <3>2. ~running' /\ running' \in BOOLEAN
      BY <1>6, <2>3 DEF DrawIfRoom
    <3> QED BY <1>1, <2>1, <2>2, <3>1, <3>2
  <2>4. CASE ~(cached + 1 > capacity)
    <3>1. cached' = cached + 1 /\ UNCHANGED running
      BY <1>6, <2>4 DEF DrawIfRoom
    <3> QED BY <1>1, <2>1, <2>2, <2>4, <3>1
  <2> QED BY <2>3, <2>4
<1>7. CASE DrawThenLook
  BY <1>1, <1>2, <1>3, <1>7 DEF DrawThenLook
<1>8. CASE DrawToLimit
  BY <1>1, <1>2, <1>3, <1>8 DEF DrawToLimit
<1>9. CASE StopDrawing
  BY <1>1, <1>2, <1>9 DEF StopDrawing
<1>10. CASE MeasureChunk
  BY <1>1, <1>2, <1>10 DEF MeasureChunk, Lesser
<1>11. CASE Measured
  <2>1. running /\ loop = "eval" /\ made = length - 1
    BY <1>11 DEF Measured
  <2>2. running' = FALSE /\ UNCHANGED <<capacity, cached, made>>
    BY <1>11 DEF Measured
  <2> QED BY <1>1, <2>1, <2>2
<1>12. CASE UNCHANGED wvars
  BY <1>1, <1>2, <1>12 DEF wvars
<1> QED
  BY <1>4, <1>5, <1>6, <1>7, <1>8, <1>9, <1>10, <1>11, <1>12 DEF WindowNext

LEMMA WindowFits == WindowInv => FitsTheWindow
<1> SUFFICES ASSUME WindowInv PROVE FitsTheWindow
  OBVIOUS
<1> USE DEF WindowInv, WindowTypes
<1>1. ~ContextOverflow
  BY DEF ContextOverflow
<1>2. ~PastBlockSize
  BY WindowBounds DEF PastBlockSize
<1>3. running /\ loop # "eval" /\ new > 0 /\ block > 1 => DrawLimit > 0
  BY WindowBounds DEF DrawLimit, Greater, Lesser, LoopNames
<1> QED
  BY <1>1, <1>2, <1>3 DEF FitsTheWindow

\* Every decode loop (model.cpp, qmodel.cpp, backend_spt.cpp, backend_gguf.cpp) feeds
\* only positions its cache and its position embeddings have, answers when the context
\* holds more than a token, and measures every token but the first once: for every
\* context, prompt, limit and kind of embedding.
THEOREM EveryLoopFits == WindowSpec => []FitsTheWindow
  BY WindowInitially, WindowStep, WindowFits, PTL DEF WindowSpec

-----------------------------------------------------------------------------
(* Prefixes of a prompt: what both backends reuse of a cache.               *)

LEMMA LargestOf ==
    ASSUME NEW m \in Nat, NEW N \in SUBSET (0..m), N # {}
    PROVE  \E n \in N : \A k \in N : k <= n
<1> DEFINE T == {m - n : n \in N}
<1>1. T \subseteq Nat /\ T # {}
  <2>1. \A n \in N : n \in Nat /\ n <= m
    OBVIOUS
  <2>2. \A n \in N : m - n \in Nat
    BY <2>1
  <2> QED BY <2>2
<1>2. PICK x \in T : \A y \in T : ~(<<y, x>> \in OpToRel(<, Nat))
  BY <1>1, NatLessThanWellFounded, WFMin
<1>3. \A y \in T : ~(y < x)
  BY <1>1, <1>2 DEF OpToRel
<1>4. PICK n \in N : x = m - n
  OBVIOUS
<1>5. \A k \in N : k <= n
  <2> TAKE k \in N
  <2>1. m - k \in T
    OBVIOUS
  <2>2. ~(m - k < m - n)
    BY <1>3, <1>4, <2>1
  <2> QED BY <2>2
<1> QED BY <1>5

\* Equal prefixes are equal element by element.
LEMMA SamePrefix ==
    ASSUME NEW S, NEW s \in Seq(S), NEW t \in Seq(S), NEW n \in Nat, n <= Len(s), n <= Len(t)
    PROVE  SubSeq(s, 1, n) = SubSeq(t, 1, n) <=> \A i \in 1..n : s[i] = t[i]
<1>1. /\ SubSeq(s, 1, n) \in Seq(S) /\ Len(SubSeq(s, 1, n)) = n
      /\ \A i \in 1..n : SubSeq(s, 1, n)[i] = s[i]
  <2>1. \A i \in 1..n : s[i] \in S
    BY ElementOfSeq
  <2> QED BY <2>1, SubSeqProperties
<1>2. /\ SubSeq(t, 1, n) \in Seq(S) /\ Len(SubSeq(t, 1, n)) = n
      /\ \A i \in 1..n : SubSeq(t, 1, n)[i] = t[i]
  <2>1. \A i \in 1..n : t[i] \in S
    BY ElementOfSeq
  <2> QED BY <2>1, SubSeqProperties
<1>3. ASSUME \A i \in 1..n : s[i] = t[i] PROVE SubSeq(s, 1, n) = SubSeq(t, 1, n)
  BY <1>1, <1>2, <1>3, SeqEqual
<1>4. ASSUME SubSeq(s, 1, n) = SubSeq(t, 1, n), NEW i \in 1..n PROVE s[i] = t[i]
  BY <1>1, <1>2, <1>4
<1> QED BY <1>3, <1>4

\* The longest common prefix, bounded by m, is found where it ends: at the bound,
\* at the end of the cached tokens, or at the first token that differs.
LEMMA LongestPrefix ==
    ASSUME NEW S, NEW t \in Seq(S), NEW ids \in Seq(S), NEW m \in Nat, m <= Len(ids)
    PROVE  \E n \in 0..m : /\ n <= Len(t) /\ SubSeq(t, 1, n) = SubSeq(ids, 1, n)
                           /\ n = m \/ n = Len(t) \/ t[n + 1] # ids[n + 1]
<1> DEFINE N == {n \in 0..m : n <= Len(t) /\ SubSeq(t, 1, n) = SubSeq(ids, 1, n)}
<1>1. Len(t) \in Nat /\ Len(ids) \in Nat
  BY LenProperties
<1>2. 0 \in N
  BY <1>1, SubSeqEmpty
<1>3. PICK n \in N : \A k \in N : k <= n
  BY <1>2, LargestOf
<1>4. ASSUME n # m, n # Len(t), t[n + 1] = ids[n + 1] PROVE FALSE
  <2>1. \A i \in 1..n : t[i] = ids[i]
    BY <1>1, <1>3, SamePrefix
  <2>2. \A i \in 1..(n + 1) : t[i] = ids[i]
    BY <1>4, <2>1
  <2>3. n + 1 <= Len(t) /\ n + 1 <= Len(ids) /\ n + 1 \in 0..m
    BY <1>1, <1>3, <1>4
  <2>4. SubSeq(t, 1, n + 1) = SubSeq(ids, 1, n + 1)
    BY <2>2, <2>3, SamePrefix
  <2>5. n + 1 \in N
    BY <2>3, <2>4
  <2> QED BY <1>3, <2>5
<1> QED BY <1>3, <1>4
-----------------------------------------------------------------------------
(* The SPT backend (SptBackend).                                            *)

SnapshotPair == [first : Weights, last : Weights]
Cell == [token : Vocab, by : SnapshotPair]
Session == [tokens : Seq(Vocab), cells : Seq(Cell), primed : BOOLEAN]

\* The cache is at least as long as the tokens it is meant to hold, and those fit
\* the context, whatever weights the cells are from.
Covered(session) ==
    Len(session.tokens) <= Len(session.cells) /\ Len(session.tokens) <= Context

\* Every cell behind a token is that token's, computed with the weights p.
AllBy(session, p) ==
    \A i \in 1..Len(session.tokens) :
        session.cells[i] = [token |-> session.tokens[i], by |-> p]

SptTypes ==
    /\ cur \in Weights /\ version \in Nat
    /\ live \in BOOLEAN /\ loaded \in BOOLEAN
    /\ params \in SnapshotPair /\ noted \in Nat
    /\ DOMAIN sessions \subseteq Slots
    /\ \A s \in DOMAIN sessions : sessions[s] \in Session
    /\ request.left \in Int

\* The last parameters never come from a snapshot that is too shallow, so that a
\* load that stopped half way shows; a version is noted after it was published;
\* and a decode loop is bounded by the room its session has left.
SptInv ==
    /\ SptTypes
    /\ params.last \notin Short
    /\ noted <= version
    /\ ~loaded => DOMAIN sessions = {}
    /\ \A s \in DOMAIN sessions : Covered(sessions[s])
    /\ request.left > 0 /\ request.slot \in DOMAIN sessions =>
          Len(sessions[request.slot].tokens) + request.left <= Context
    /\ params.first = params.last =>
          \A s \in DOMAIN sessions : sessions[s].primed => AllBy(sessions[s], params)
    /\ ReloadIsRetried

\* A prompt shares with the cache at most all but its last token, and that much is
\* the same in both.
LEMMA ReusableShared ==
    ASSUME NEW t \in Seq(Vocab), NEW ids \in Seq(Vocab), ids # <<>>
    PROVE  /\ Reusable(t, ids) \in 0..(Len(ids) - 1)
           /\ Reusable(t, ids) <= Len(t)
           /\ \A i \in 1..Reusable(t, ids) : t[i] = ids[i]
<1> DEFINE Longest(n) == /\ n <= Len(t)
                         /\ SubSeq(t, 1, n) = SubSeq(ids, 1, n)
                         /\ n = Len(ids) \/ n = Len(t) \/ t[n + 1] # ids[n + 1]
           shared == CHOOSE n \in 0..Len(ids) : Longest(n)
<1>1. Len(ids) \in Nat \ {0} /\ Len(t) \in Nat
  BY LenProperties, EmptySeq
<1>2. \E n \in 0..Len(ids) : Longest(n)
  <2>1. Len(ids) \in Nat /\ Len(ids) <= Len(ids)
    BY <1>1
  <2>2. \E n \in 0..Len(ids) : /\ n <= Len(t) /\ SubSeq(t, 1, n) = SubSeq(ids, 1, n)
                               /\ n = Len(ids) \/ n = Len(t) \/ t[n + 1] # ids[n + 1]
    BY <2>1, LongestPrefix
  <2> QED BY <2>2
<1>3. shared \in 0..Len(ids) /\ Longest(shared)
  BY <1>2
<1>4. Reusable(t, ids) = IF shared >= Len(ids) THEN Len(ids) - 1 ELSE shared
  BY DEF Reusable
<1> HIDE DEF shared
<1>5. \A i \in 1..shared : t[i] = ids[i]
  <2>1. shared \in Nat /\ shared <= Len(ids) /\ shared <= Len(t)
    BY <1>1, <1>3
  <2>2. SubSeq(t, 1, shared) = SubSeq(ids, 1, shared)
    BY <1>3
  <2> QED BY <2>1, <2>2, SamePrefix
<1> QED BY <1>1, <1>3, <1>4, <1>5

\* A clipped prompt is a prompt that leaves room for the answer.
LEMMA ClippedFits ==
    ASSUME NEW prompt \in Prompts, NEW want \in 1..MaxNewTokens
    PROVE  /\ Clipped(prompt, want) \in Seq(Vocab) /\ Clipped(prompt, want) # <<>>
           /\ Len(Clipped(prompt, want)) \in 1..Context
<1> DEFINE room == IF Context - want - 1 > 1 THEN Context - want - 1 ELSE 1
<1>1. prompt \in Seq(Vocab) /\ Len(prompt) \in Nat \ {0}
  BY SptAssumption DEF Prompts
<1>2. room \in 1..Context
  BY SptAssumption
<1>3. CASE Len(prompt) > room
  <2>1. Clipped(prompt, want) = SubSeq(prompt, Len(prompt) - room + 1, Len(prompt))
    BY <1>3 DEF Clipped
  <2> HIDE DEF room
  <2>2. \A i \in (Len(prompt) - room + 1)..Len(prompt) : prompt[i] \in Vocab
    BY <1>1, <1>2, <1>3, ElementOfSeq
  <2>3. SubSeq(prompt, Len(prompt) - room + 1, Len(prompt)) \in Seq(Vocab)
    BY <1>1, <1>2, <1>3, <2>2, SubSeqProperties
  <2>4. Len(SubSeq(prompt, Len(prompt) - room + 1, Len(prompt))) = room
    BY <1>1, <1>2, <1>3, <2>2, SubSeqProperties
  <2>5. Len(<<>>) = 0 /\ room # 0
    BY <1>2
  <2> QED BY <1>2, <2>1, <2>3, <2>4, <2>5
<1>4. CASE ~(Len(prompt) > room)
  <2>1. Clipped(prompt, want) = prompt
    BY <1>4 DEF Clipped
  <2> HIDE DEF room
  <2>2. Len(prompt) \in 1..Context
    BY <1>1, <1>2, <1>4, SptAssumption
  <2>3. Len(<<>>) = 0
    OBVIOUS
  <2> QED BY <1>1, <2>1, <2>2, <2>3
<1> QED BY <1>3, <1>4

\* run_prefix() keeps the cells before pos and writes one cell per token.
LEMMA RunPrefixCells ==
    ASSUME NEW cells \in Seq(Cell), NEW pos \in 0..Len(cells), NEW ids \in Seq(Vocab),
           NEW p \in SnapshotPair
    PROVE  /\ RunPrefix(cells, pos, ids, p) \in Seq(Cell)
           /\ Len(RunPrefix(cells, pos, ids, p)) = pos + Len(ids)
           /\ \A i \in 1..pos : RunPrefix(cells, pos, ids, p)[i] = cells[i]
           /\ \A i \in 1..Len(ids) :
                 RunPrefix(cells, pos, ids, p)[pos + i] = [token |-> ids[i], by |-> p]
<1> DEFINE kept == SubSeq(cells, 1, pos)
           run == [i \in DOMAIN ids |-> [token |-> ids[i], by |-> p]]
<1>1. Len(cells) \in Nat /\ Len(ids) \in Nat /\ DOMAIN ids = 1..Len(ids)
  BY LenProperties
<1>2. kept \in Seq(Cell) /\ Len(kept) = pos /\ \A i \in 1..pos : kept[i] = cells[i]
  <2>1. \A i \in 1..pos : cells[i] \in Cell
    BY <1>1, ElementOfSeq
  <2> QED BY <1>1, <2>1, SubSeqProperties
<1>3. run \in Seq(Cell) /\ Len(run) = Len(ids)
  <2>1. \A i \in 1..Len(ids) : ids[i] \in Vocab
    BY ElementOfSeq
  <2>2. \A i \in 1..Len(ids) : [token |-> ids[i], by |-> p] \in Cell
    BY <2>1 DEF Cell
  <2>3. run \in [1..Len(ids) -> Cell]
    BY <1>1, <2>2
  <2> QED BY <1>1, <2>3
<1>4. \A i \in 1..Len(ids) : run[i] = [token |-> ids[i], by |-> p]
  BY <1>1
<1>5. RunPrefix(cells, pos, ids, p) = kept \o run
  BY DEF RunPrefix
<1> HIDE DEF kept, run
<1>6. /\ kept \o run \in Seq(Cell) /\ Len(kept \o run) = pos + Len(ids)
      /\ \A i \in 1..(pos + Len(ids)) : (kept \o run)[i] = IF i <= pos THEN kept[i] ELSE run[i - pos]
  <2>1. /\ kept \o run \in Seq(Cell) /\ Len(kept \o run) = Len(kept) + Len(run)
        /\ \A i \in 1..(Len(kept) + Len(run)) :
              (kept \o run)[i] = IF i <= Len(kept) THEN kept[i] ELSE run[i - Len(kept)]
    BY <1>2, <1>3, ConcatProperties
  <2> QED BY <1>2, <1>3, <2>1
<1>7. \A i \in 1..pos : (kept \o run)[i] = cells[i]
  BY <1>1, <1>2, <1>6
<1>8. \A i \in 1..Len(ids) : (kept \o run)[pos + i] = [token |-> ids[i], by |-> p]
  <2> TAKE i \in 1..Len(ids)
  <2>1. pos + i \in 1..(pos + Len(ids)) /\ ~(pos + i <= pos) /\ (pos + i) - pos = i
    BY <1>1
  <2>2. \A j \in 1..(pos + Len(ids)) : ~(j <= pos) => (kept \o run)[j] = run[j - pos]
    BY <1>6
  <2>3. (kept \o run)[pos + i] = run[(pos + i) - pos]
    BY <2>1, <2>2
  <2>4. run[i] = [token |-> ids[i], by |-> p]
    BY <1>4
  <2> QED BY <2>1, <2>3, <2>4
<1> QED BY <1>5, <1>6, <1>7, <1>8

\* A prefill leaves exactly the prompt in the cache, all of it from the weights in
\* use if what it reused was.
LEMMA PrefilledSession ==
    ASSUME NEW session \in Session, Covered(session), NEW ids \in Seq(Vocab), ids # <<>>,
           Len(ids) <= Context, NEW p \in SnapshotPair
    PROVE  /\ Prefilled(session, ids, p) \in Session
           /\ Prefilled(session, ids, p).tokens = ids
           /\ Covered(Prefilled(session, ids, p))
           /\ (session.primed => AllBy(session, p)) => AllBy(Prefilled(session, ids, p), p)
<1> DEFINE s == Primed(session)
           reuse == Reusable(s.tokens, ids)
           feed == SubSeq(ids, reuse + 1, Len(ids))
           cells == RunPrefix(s.cells, reuse, feed, p)
           filled == Prefilled(session, ids, p)
<1>1. Len(ids) \in Nat \ {0}
  BY EmptySeq
<1>2. s \in Session /\ s.primed /\ Len(s.tokens) <= Len(s.cells)
  BY DEF Primed, Session, Covered
<1>3. (session.primed => AllBy(session, p)) => AllBy(s, p)
  BY DEF Primed, AllBy
<1> HIDE DEF s
<1>4. s.tokens \in Seq(Vocab) /\ s.cells \in Seq(Cell)
  BY <1>2 DEF Session
<1>5. Len(s.tokens) \in Nat /\ Len(s.cells) \in Nat
  BY <1>4, LenProperties
<1>6. /\ reuse \in 0..(Len(ids) - 1) /\ reuse <= Len(s.tokens)
      /\ \A i \in 1..reuse : s.tokens[i] = ids[i]
  BY <1>4, ReusableShared
<1> HIDE DEF reuse
<1>7. /\ feed \in Seq(Vocab) /\ Len(feed) = Len(ids) - reuse
      /\ \A i \in 1..(Len(ids) - reuse) : feed[i] = ids[reuse + i]
  <2>1. \A i \in (reuse + 1)..Len(ids) : ids[i] \in Vocab
    BY <1>1, <1>6, ElementOfSeq
  <2>2. reuse + 1 \in Int /\ Len(ids) \in Int /\ reuse + 1 <= Len(ids)
    BY <1>1, <1>6
  <2>3. /\ feed \in Seq(Vocab) /\ Len(feed) = Len(ids) - (reuse + 1) + 1
        /\ \A i \in 1..(Len(ids) - (reuse + 1) + 1) : feed[i] = ids[(reuse + 1) + i - 1]
    BY <2>1, <2>2, SubSeqProperties
  <2>4. Len(ids) - (reuse + 1) + 1 = Len(ids) - reuse
    BY <1>1, <1>6
  <2>5. \A i \in 1..(Len(ids) - reuse) : (reuse + 1) + i - 1 = reuse + i
    BY <1>1, <1>6
  <2> QED BY <2>3, <2>4, <2>5
<1> HIDE DEF feed
<1>8. /\ cells \in Seq(Cell) /\ Len(cells) = reuse + Len(feed)
      /\ \A i \in 1..reuse : cells[i] = s.cells[i]
      /\ \A i \in 1..Len(feed) : cells[reuse + i] = [token |-> feed[i], by |-> p]
  <2>1. reuse \in 0..Len(s.cells)
    BY <1>2, <1>5, <1>6
  <2>2. cells = RunPrefix(s.cells, reuse, feed, p)
    OBVIOUS
  <2> HIDE DEF cells
  <2>3. feed \in Seq(Vocab) /\ s.cells \in Seq(Cell)
    BY <1>4, <1>7
  <2> QED BY <2>1, <2>2, <2>3, RunPrefixCells
<1>9. filled = [s EXCEPT !.tokens = ids, !.cells = cells]
  BY DEF Prefilled, s, reuse, feed
<1> HIDE DEF cells
<1>10. filled \in Session /\ filled.tokens = ids /\ filled.cells = cells
  BY <1>2, <1>8, <1>9 DEF Session
<1> HIDE DEF filled
<1>11. Len(cells) = Len(ids)
  BY <1>1, <1>6, <1>7, <1>8
<1>12. Covered(filled)
  BY <1>1, <1>10, <1>11 DEF Covered
<1>13. ASSUME AllBy(s, p) PROVE AllBy(filled, p)
  <2> SUFFICES ASSUME NEW i \in 1..Len(ids)
               PROVE  cells[i] = [token |-> ids[i], by |-> p]
    BY <1>10 DEF AllBy
  <2>1. CASE i <= reuse
    <3>1. i \in 1..reuse /\ i \in 1..Len(s.tokens)
      BY <1>5, <1>6, <2>1
    <3>2. s.cells[i] = [token |-> s.tokens[i], by |-> p]
      BY <1>13, <3>1 DEF AllBy
    <3> QED BY <1>6, <1>8, <3>1, <3>2
  <2>2. CASE ~(i <= reuse)
    <3>1. i - reuse \in 1..(Len(ids) - reuse) /\ reuse + (i - reuse) = i
      BY <1>1, <1>6, <2>2
    <3>2. feed[i - reuse] = ids[reuse + (i - reuse)]
      BY <1>7, <3>1
    <3>3. cells[reuse + (i - reuse)] = [token |-> feed[i - reuse], by |-> p]
      BY <1>7, <1>8, <3>1
    <3> QED BY <3>1, <3>2, <3>3
  <2> QED BY <2>1, <2>2
<1> QED BY <1>3, <1>10, <1>12, <1>13 DEF filled

LEMMA AppendedCell ==
    ASSUME NEW cells \in Seq(Cell), NEW pos \in 0..Len(cells), NEW tok \in Vocab,
           NEW p \in SnapshotPair
    PROVE  /\ RunPrefix(cells, pos, <<tok>>, p) \in Seq(Cell)
           /\ Len(RunPrefix(cells, pos, <<tok>>, p)) = pos + 1
           /\ \A i \in 1..pos : RunPrefix(cells, pos, <<tok>>, p)[i] = cells[i]
           /\ RunPrefix(cells, pos, <<tok>>, p)[pos + 1] = [token |-> tok, by |-> p]
<1> DEFINE one == <<tok>>
<1>1. one \in Seq(Vocab) /\ Len(one) = 1 /\ one[1] = tok
  OBVIOUS
<1> HIDE DEF one
<1>2. /\ RunPrefix(cells, pos, one, p) \in Seq(Cell)
      /\ Len(RunPrefix(cells, pos, one, p)) = pos + Len(one)
      /\ \A i \in 1..pos : RunPrefix(cells, pos, one, p)[i] = cells[i]
      /\ \A i \in 1..Len(one) :
            RunPrefix(cells, pos, one, p)[pos + i] = [token |-> one[i], by |-> p]
  BY <1>1, RunPrefixCells
<1> QED BY <1>1, <1>2 DEF one

\* One decoded token: one more cell, behind the token.
LEMMA FedSession ==
    ASSUME NEW session \in Session, Covered(session), Len(session.tokens) + 1 <= Context,
           NEW tok \in Vocab, NEW p \in SnapshotPair
    PROVE  LET fed == [session EXCEPT
                          !.tokens = Append(session.tokens, tok),
                          !.cells = RunPrefix(session.cells, Len(session.tokens), <<tok>>, p)]
           IN  /\ fed \in Session /\ Covered(fed) /\ fed.primed = session.primed
               /\ Len(fed.tokens) = Len(session.tokens) + 1
               /\ AllBy(session, p) => AllBy(fed, p)
<1> DEFINE tokens == Append(session.tokens, tok)
           cells == RunPrefix(session.cells, Len(session.tokens), <<tok>>, p)
           fed == [session EXCEPT !.tokens = tokens, !.cells = cells]
<1>1. session.tokens \in Seq(Vocab) /\ session.cells \in Seq(Cell)
  BY DEF Session
<1>2. Len(session.tokens) \in Nat /\ Len(session.cells) \in Nat
  BY <1>1, LenProperties
<1>3. /\ tokens \in Seq(Vocab) /\ Len(tokens) = Len(session.tokens) + 1
      /\ \A i \in 1..Len(session.tokens) : tokens[i] = session.tokens[i]
      /\ tokens[Len(session.tokens) + 1] = tok
  BY <1>1, AppendProperties
<1> HIDE DEF tokens
<1>4. /\ cells \in Seq(Cell) /\ Len(cells) = Len(session.tokens) + 1
      /\ \A i \in 1..Len(session.tokens) : cells[i] = session.cells[i]
      /\ cells[Len(session.tokens) + 1] = [token |-> tok, by |-> p]
  <2>1. Len(session.tokens) \in 0..Len(session.cells)
    BY <1>2 DEF Covered
  <2> QED BY <1>1, <2>1, AppendedCell
<1> HIDE DEF cells
<1>5. fed \in Session /\ fed.tokens = tokens /\ fed.cells = cells /\ fed.primed = session.primed
  BY <1>3, <1>4 DEF Session
<1> HIDE DEF fed
<1>6. Covered(fed)
  BY <1>2, <1>3, <1>4, <1>5 DEF Covered
<1>7. ASSUME AllBy(session, p) PROVE AllBy(fed, p)
  <2> SUFFICES ASSUME NEW i \in 1..(Len(session.tokens) + 1)
               PROVE  cells[i] = [token |-> tokens[i], by |-> p]
    BY <1>3, <1>5 DEF AllBy
  <2>1. CASE i \in 1..Len(session.tokens)
    BY <1>3, <1>4, <1>7, <2>1 DEF AllBy
  <2>2. CASE i = Len(session.tokens) + 1
    BY <1>3, <1>4, <2>2
  <2> QED BY <1>2, <2>1, <2>2
<1> QED BY <1>3, <1>5, <1>6, <1>7 DEF fed, cells, tokens

LEMMA SptInitially == RegInit /\ SptInit => SptInv
<1> SUFFICES ASSUME RegInit, SptInit PROVE SptInv
  OBVIOUS
<1>1. InitWeights \in Weights /\ InitWeights \notin Short
  BY RegistryAssumption, SptAssumption
<1>2. DOMAIN sessions = {}
  BY DEF SptInit
<1>3. params = [first |-> InitWeights, last |-> InitWeights] /\ request.left = -1
  BY DEF SptInit, Uniform, SptIdle
<1>4. SptTypes
  <2>1. live \in BOOLEAN /\ loaded \in BOOLEAN
    BY DEF SptInit
  <2>2. params \in SnapshotPair /\ request.left \in Int
    BY <1>1, <1>3 DEF SnapshotPair
  <2>3. cur \in Weights /\ version \in Nat /\ noted \in Nat
    BY <1>1 DEF RegInit, SptInit
  <2>4. DOMAIN sessions \subseteq Slots /\ \A s \in DOMAIN sessions : sessions[s] \in Session
    BY <1>2
  <2> QED BY <2>1, <2>2, <2>3, <2>4 DEF SptTypes
<1>5. ReloadIsRetried
  BY DEF SptInit, ReloadIsRetried
<1> QED
  BY <1>1, <1>2, <1>3, <1>4, <1>5 DEF RegInit, SptInit, SptInv

\* resync_weights(): every session keeps its shape and is either current or empty;
\* the parameters and the version noted are those of the last complete load, or the
\* parameters show that a load stopped.
LEMMA ResyncSound ==
    ASSUME SptInv, loaded,
           NEW p, p = ResyncWeights(params, noted, sessions)[1],
           NEW n, n = ResyncWeights(params, noted, sessions)[2],
           NEW S, S = ResyncWeights(params, noted, sessions)[3]
    PROVE  /\ p \in SnapshotPair /\ p.last \notin Short
           /\ n \in Nat /\ n <= version
           /\ live /\ n = version => p = Uniform(cur) \/ publishing # {}
           /\ DOMAIN S = DOMAIN sessions
           /\ \A s \in DOMAIN S : S[s] \in Session /\ Covered(S[s])
           /\ p.first = p.last =>
                 \A s \in DOMAIN S : S[s].primed => AllBy(S[s], p)
<1> USE DEF SptInv, SptTypes
<1>1. CASE ~live \/ version = noted
  <2>1. p = params /\ n = noted /\ S = sessions
    BY <1>1 DEF ResyncWeights
  <2>2. p.first = p.last => \A s \in DOMAIN S : S[s].primed => AllBy(S[s], p)
    BY <2>1
  <2>3. live /\ n = version => p = Uniform(cur) \/ publishing # {}
    BY <2>1 DEF ReloadIsRetried
  <2> QED BY <2>1, <2>2, <2>3
<1>2. CASE ~(~live \/ version = noted) /\ cur \in Short
  <2>1. p = [first |-> cur, last |-> params.last] /\ n = noted /\ S = sessions
    BY <1>2 DEF ResyncWeights, Copied
  <2>2. p.first # p.last
    BY <1>2, <2>1
  <2>3. p \in SnapshotPair
    BY <2>1 DEF SnapshotPair
  <2> QED BY <1>2, <2>1, <2>2, <2>3
<1>3. CASE ~(~live \/ version = noted) /\ cur \notin Short
  <2>1. p = [first |-> cur, last |-> cur] /\ n = version /\ S = Emptied(sessions)
    BY <1>3 DEF ResyncWeights, Copied
  <2>2. p \in SnapshotPair /\ p = Uniform(cur)
    BY <2>1 DEF SnapshotPair, Uniform
  <2>3. DOMAIN S = DOMAIN sessions
    BY <2>1 DEF Emptied
  <2>4. ASSUME NEW s \in DOMAIN S
        PROVE  S[s] \in Session /\ Covered(S[s]) /\ ~S[s].primed
    <3>1. S[s] = [sessions[s] EXCEPT !.tokens = <<>>, !.primed = FALSE] /\ sessions[s] \in Session
      BY <2>1, <2>3 DEF Emptied
    <3>2. S[s].tokens = <<>> /\ S[s].cells = sessions[s].cells /\ S[s].primed = FALSE
      BY <3>1 DEF Session
    <3>4. S[s] \in Session
      <4>1. <<>> \in Seq(Vocab) /\ FALSE \in BOOLEAN
        OBVIOUS
      <4> QED BY <3>1, <4>1 DEF Session
    <3>3. Len(<<>>) = 0 /\ Len(sessions[s].cells) \in Nat
      BY <3>1, LenProperties DEF Session
    <3> QED BY <3>2, <3>3, <3>4, SptAssumption DEF Covered
  <2> QED BY <1>3, <2>1, <2>2, <2>3, <2>4
<1> QED BY <1>1, <1>2, <1>3

LEMMA SptBeginStep ==
    ASSUME SptInv, NEW slot \in Slots \cup {NoSlot}, NEW prompt \in Prompts,
           NEW want \in 1..MaxNewTokens, SptBegin(slot, prompt, want), UNCHANGED rvars
    PROVE  SptInv'
<1> DEFINE p == ResyncWeights(params, noted, sessions)[1]
           n == ResyncWeights(params, noted, sessions)[2]
           S == ResyncWeights(params, noted, sessions)[3]
           ids == Clipped(prompt, want)
           room == IF want < Context - Len(ids) THEN want ELSE Context - Len(ids)
<1>1. loaded /\ UNCHANGED <<live, loaded, cur, version, publishing>>
  BY DEF SptBegin, rvars
<1>2. params' = p /\ noted' = n /\ request' = [slot |-> slot, left |-> room]
  BY DEF SptBegin
<1>3. IF slot \in DOMAIN sessions THEN sessions' = [S EXCEPT ![slot] = Prefilled(@, ids, p)]
                                  ELSE sessions' = S
  BY DEF SptBegin
<1>4. /\ ids \in Seq(Vocab) /\ ids # <<>> /\ Len(ids) \in 1..Context
  BY ClippedFits
<1>5. /\ p \in SnapshotPair /\ p.last \notin Short
      /\ n \in Nat /\ n <= version
      /\ live /\ n = version => p = Uniform(cur) \/ publishing # {}
      /\ DOMAIN S = DOMAIN sessions
      /\ \A s \in DOMAIN S : S[s] \in Session /\ Covered(S[s])
      /\ p.first = p.last => \A s \in DOMAIN S : S[s].primed => AllBy(S[s], p)
  BY <1>1, ResyncSound
<1> HIDE DEF p, n, S, ids
<1>6. room \in Int /\ Len(ids) + room <= Context
  BY <1>4, SptAssumption
<1>7. request'.slot = slot /\ request'.left = room
  BY <1>2
<1> HIDE DEF room
<1>8. DOMAIN sessions' = DOMAIN sessions /\ DOMAIN sessions \subseteq Slots
  BY <1>3, <1>5 DEF SptInv, SptTypes
<1>9. ASSUME NEW s \in DOMAIN sessions'
      PROVE  /\ sessions'[s] \in Session /\ Covered(sessions'[s])
             /\ s = slot => Len(sessions'[s].tokens) = Len(ids)
             /\ p.first = p.last => (sessions'[s].primed => AllBy(sessions'[s], p))
  <2>1. S[s] \in Session /\ Covered(S[s])
    BY <1>5, <1>8
  <2>2. p.first = p.last => (S[s].primed => AllBy(S[s], p))
    BY <1>5, <1>8
  <2>3. CASE s = slot
    <3>1. sessions'[s] = Prefilled(S[s], ids, p)
      BY <1>3, <1>5, <1>8, <2>3
    <3>2. Len(ids) <= Context
      BY <1>4, SptAssumption
    <3>3. /\ Prefilled(S[s], ids, p) \in Session /\ Prefilled(S[s], ids, p).tokens = ids
          /\ Covered(Prefilled(S[s], ids, p))
          /\ (S[s].primed => AllBy(S[s], p)) => AllBy(Prefilled(S[s], ids, p), p)
      BY <1>4, <1>5, <2>1, <3>2, PrefilledSession
    <3> QED BY <2>2, <3>1, <3>3
  <2>4. CASE s # slot
    <3>1. sessions'[s] = S[s]
      BY <1>3, <1>5, <1>8, <2>4
    <3> QED BY <2>1, <2>2, <2>4, <3>1
  <2> QED BY <2>3, <2>4
<1>10. SptTypes'
  <2>1. live' \in BOOLEAN /\ loaded' \in BOOLEAN
    BY <1>1 DEF SptInv, SptTypes
  <2>2. cur' \in Weights /\ version' \in Nat /\ noted' \in Nat
    BY <1>1, <1>2, <1>5 DEF SptInv, SptTypes
  <2> QED BY <1>2, <1>5, <1>6, <1>7, <1>8, <1>9, <2>1, <2>2 DEF SptTypes
<1>11. ReloadIsRetried'
  BY <1>1, <1>2, <1>5 DEF ReloadIsRetried, Uniform
<1>12. request'.left > 0 /\ request'.slot \in DOMAIN sessions' =>
          Len(sessions'[request'.slot].tokens) + request'.left <= Context
  BY <1>6, <1>7, <1>9
<1>13. params'.last \notin Short /\ noted' <= version' /\ loaded'
  BY <1>1, <1>2, <1>5
<1>14. params'.first = params'.last =>
          \A s \in DOMAIN sessions' : sessions'[s].primed => AllBy(sessions'[s], params')
  BY <1>2, <1>9
<1> QED
  BY <1>9, <1>10, <1>11, <1>12, <1>13, <1>14 DEF SptInv, Covered, AllBy

LEMMA SptDecodeStep ==
    ASSUME SptInv, NEW tok \in Vocab, SptDecode(tok), UNCHANGED rvars
    PROVE  SptInv'
<1> DEFINE slot == request.slot
           s == sessions[slot]
           cells == RunPrefix(s.cells, Len(s.tokens), <<tok>>, params)
           fed == [s EXCEPT !.tokens = Append(s.tokens, tok), !.cells = cells]
<1>1. UNCHANGED <<live, loaded, cur, version, publishing, params, noted>> /\ request.left > 0
  BY DEF SptDecode, rvars
<1>2. CASE slot \notin DOMAIN sessions
  <2>1. sessions' = sessions
    BY <1>2 DEF SptDecode
  <2>2. request'.slot = slot /\ request'.left \in Int
    BY DEF SptDecode, SptInv, SptTypes
  <2> QED BY <1>1, <1>2, <2>1, <2>2 DEF SptInv, SptTypes, ReloadIsRetried, Uniform, Covered, AllBy
<1>3. CASE slot \in DOMAIN sessions
  <2>1. /\ s \in Session /\ Covered(s)
        /\ Len(s.tokens) + request.left <= Context
        /\ request.left \in Int
        /\ params.first = params.last => (s.primed => AllBy(s, params))
        /\ params \in SnapshotPair
    BY <1>1, <1>3 DEF SptInv, SptTypes
  <2>2. s.tokens \in Seq(Vocab) /\ Len(s.tokens) \in Nat
    BY <2>1, LenProperties DEF Session
  <2>3. Len(Append(s.tokens, tok)) = Len(s.tokens) + 1 /\ Len(s.tokens) + 1 <= Context
    BY <1>1, <2>1, <2>2, AppendProperties, SptAssumption
  <2>4. /\ sessions' = [sessions EXCEPT ![slot] = fed]
        /\ request' = [request EXCEPT
              !.left = IF Len(s.tokens) + 1 + 1 >= Context THEN 0 ELSE @ - 1]
    <3>1. Len(Append(s.tokens, tok)) - 1 = Len(s.tokens)
      BY <2>2, <2>3
    <3> QED BY <1>3, <2>3, <3>1 DEF SptDecode, Working
  <2>5. /\ fed \in Session /\ Covered(fed) /\ fed.primed = s.primed
        /\ Len(fed.tokens) = Len(s.tokens) + 1
        /\ AllBy(s, params) => AllBy(fed, params)
    BY <2>1, <2>3, FedSession
  <2> HIDE DEF fed
  <2>6. request'.slot = slot /\ request'.left \in Int
    BY <2>1, <2>4
  <2>7. request'.left > 0 => request'.left = request.left - 1
    BY <2>1, <2>4
  <2>8. /\ DOMAIN sessions' = DOMAIN sessions
        /\ \A t \in DOMAIN sessions : sessions'[t] = IF t = slot THEN fed ELSE sessions[t]
    BY <2>4
  <2>9. request'.left > 0 => Len(sessions'[request'.slot].tokens) + request'.left <= Context
    BY <1>3, <2>1, <2>2, <2>5, <2>6, <2>7, <2>8, SptAssumption
  <2>10. ASSUME NEW t \in DOMAIN sessions'
         PROVE  /\ sessions'[t] \in Session /\ Covered(sessions'[t])
                /\ params.first = params.last =>
                      (sessions'[t].primed => AllBy(sessions'[t], params))
    BY <2>1, <2>5, <2>8 DEF SptInv, SptTypes
  <2>11. SptTypes'
    <3>1. live' \in BOOLEAN /\ loaded' \in BOOLEAN
      BY <1>1 DEF SptInv, SptTypes
    <3> QED BY <1>1, <2>6, <2>8, <2>10, <3>1 DEF SptInv, SptTypes
  <2>12. ReloadIsRetried'
    BY <1>1 DEF SptInv, ReloadIsRetried, Uniform
  <2>13. params'.last \notin Short /\ noted' <= version' /\ (~loaded' => DOMAIN sessions' = {})
    BY <1>1, <2>8 DEF SptInv
  <2>14. params'.first = params'.last =>
            \A t \in DOMAIN sessions' : sessions'[t].primed => AllBy(sessions'[t], params')
    BY <1>1, <2>10
  <2> QED
    BY <2>9, <2>10, <2>11, <2>12, <2>13, <2>14 DEF SptInv, Covered, AllBy
<1> QED BY <1>2, <1>3

\* load(), unload(), open_session(), close_session(), reset_session() and the end
\* of a request leave every cache they keep as it was, or drop its tokens.
LEMMA SptCallStep ==
    ASSUME SptInv, UNCHANGED rvars,
           \/ SptLoad \/ SptUnload \/ SptFinish
           \/ \E s \in Slots : SptOpen(s) \/ SptClose(s) \/ SptReset(s)
    PROVE  SptInv'
<1> USE DEF SptInv, SptTypes
<1>1. UNCHANGED <<live, cur, version, publishing>>
  BY DEF rvars, SptLoad, SptUnload, SptFinish, SptOpen, SptClose, SptReset
<1>2. live' \in BOOLEAN /\ cur' \in Weights /\ version' \in Nat
  BY <1>1
<1>3. CASE SptLoad
  <2>1. params' = [first |-> params'.last, last |-> params'.last]
    BY <1>3 DEF SptLoad, Uniform
  <2>2. params'.last \in Weights \ Short
    BY <1>3, RegistryAssumption, SptAssumption DEF SptLoad, Uniform
  <2>3. params' \in SnapshotPair
    BY <2>1, <2>2 DEF SnapshotPair
  <2>4. noted' \in Nat /\ noted' <= version'
    BY <1>1, <1>3 DEF SptLoad
  <2>5. DOMAIN sessions = {} /\ sessions' = sessions /\ request' = request
    BY <1>3 DEF SptLoad
  <2>6. live => params' = Uniform(cur)
    BY <1>3 DEF SptLoad
  <2>7. ReloadIsRetried'
    BY <1>1, <2>6 DEF ReloadIsRetried, Uniform
  <2>8. loaded' /\ loaded' \in BOOLEAN
    BY <1>3 DEF SptLoad
  <2> QED BY <1>2, <2>2, <2>3, <2>4, <2>5, <2>7, <2>8
<1>4. CASE SptUnload
  <2>1. DOMAIN sessions' = {} /\ UNCHANGED <<params, noted, request>>
    BY <1>4 DEF SptUnload
  <2>2. ~loaded' /\ loaded' \in BOOLEAN
    BY <1>4 DEF SptUnload
  <2>3. ReloadIsRetried'
    BY <2>2 DEF ReloadIsRetried
  <2> QED BY <1>1, <1>2, <2>1, <2>2, <2>3
<1>5. CASE SptFinish
  <2>1. UNCHANGED <<loaded, params, noted, sessions>> /\ request'.left = -1
    BY <1>5 DEF SptFinish, SptIdle
  <2>2. ReloadIsRetried'
    BY <1>1, <2>1 DEF ReloadIsRetried, Uniform
  <2>3. loaded' \in BOOLEAN /\ (~loaded' => DOMAIN sessions' = {})
    BY <2>1
  <2>4. /\ \A s \in DOMAIN sessions' : sessions'[s] \in Session /\ Covered(sessions'[s])
        /\ params'.first = params'.last =>
              \A s \in DOMAIN sessions' : sessions'[s].primed => AllBy(sessions'[s], params')
    BY <2>1
  <2> QED BY <1>1, <1>2, <2>1, <2>2, <2>3, <2>4 DEF Covered, AllBy
<1>6. ASSUME NEW s \in Slots, SptOpen(s) PROVE SptInv'
  <2>1. UNCHANGED <<loaded, params, noted, request>> /\ loaded /\ request = SptIdle
    BY <1>6 DEF SptOpen
  <2>2. /\ DOMAIN sessions' = DOMAIN sessions \cup {s}
        /\ \A t \in DOMAIN sessions' : sessions'[t] = IF t = s THEN NewSession ELSE sessions[t]
    <3>1. sessions' = [t \in DOMAIN sessions \cup {s} |-> IF t = s THEN NewSession ELSE sessions[t]]
      BY <1>6 DEF SptOpen
    <3> QED BY <3>1
  <2>3. NewSession \in Session /\ ~NewSession.primed /\ Covered(NewSession)
    <3>1. <<>> \in Seq(Vocab) /\ <<>> \in Seq(Cell) /\ Len(<<>>) = 0 /\ FALSE \in BOOLEAN
      OBVIOUS
    <3> QED BY <3>1, SptAssumption DEF NewSession, Session, Covered
  <2>4. \A t \in DOMAIN sessions' :
            /\ sessions'[t] \in Session /\ Covered(sessions'[t])
            /\ params.first = params.last => (sessions'[t].primed => AllBy(sessions'[t], params))
    BY <2>2, <2>3
  <2>5. ReloadIsRetried'
    BY <1>1, <2>1 DEF ReloadIsRetried, Uniform
  <2>6. loaded' /\ loaded' \in BOOLEAN /\ ~(request'.left > 0)
    BY <2>1 DEF SptIdle
  <2> QED BY <1>1, <1>2, <2>1, <2>2, <2>4, <2>5, <2>6 DEF Covered, AllBy
<1>7. ASSUME NEW s \in Slots, SptClose(s) PROVE SptInv'
  <2>1. UNCHANGED <<loaded, params, noted, request>> /\ request = SptIdle
    BY <1>7 DEF SptClose
  <2>2. /\ DOMAIN sessions' = DOMAIN sessions \ {s}
        /\ \A t \in DOMAIN sessions' : sessions'[t] = sessions[t]
    BY <1>7 DEF SptClose
  <2>3. ReloadIsRetried'
    BY <1>1, <2>1 DEF ReloadIsRetried, Uniform
  <2>4. loaded' \in BOOLEAN /\ ~(request'.left > 0) /\ (~loaded' => DOMAIN sessions' = {})
    BY <2>1, <2>2 DEF SptIdle
  <2>5. /\ \A t \in DOMAIN sessions' : sessions'[t] \in Session /\ Covered(sessions'[t])
        /\ params'.first = params'.last =>
              \A t \in DOMAIN sessions' : sessions'[t].primed => AllBy(sessions'[t], params')
    BY <2>1, <2>2
  <2> QED BY <1>1, <1>2, <2>1, <2>2, <2>3, <2>4, <2>5 DEF Covered, AllBy
<1>8. ASSUME NEW s \in Slots, SptReset(s) PROVE SptInv'
  <2>1. UNCHANGED <<loaded, params, noted, request>> /\ request = SptIdle /\ s \in DOMAIN sessions
    BY <1>8 DEF SptReset
  <2>2. /\ DOMAIN sessions' = DOMAIN sessions
        /\ \A t \in DOMAIN sessions' : t # s => sessions'[t] = sessions[t]
        /\ sessions'[s] = [sessions[s] EXCEPT !.tokens = <<>>, !.primed = FALSE]
    BY <1>8, <2>1 DEF SptReset
  <2>3. sessions'[s] \in Session /\ ~sessions'[s].primed /\ Covered(sessions'[s])
    <3>1. <<>> \in Seq(Vocab) /\ Len(<<>>) = 0 /\ FALSE \in BOOLEAN /\ sessions[s] \in Session
      BY <2>1
    <3>2. Len(sessions[s].cells) \in Nat
      BY <3>1, LenProperties DEF Session
    <3>3. sessions'[s] \in Session
      BY <2>2, <3>1 DEF Session
    <3>4. sessions'[s].tokens = <<>> /\ sessions'[s].cells = sessions[s].cells /\ ~sessions'[s].primed
      BY <2>2, <3>1 DEF Session
    <3> QED BY <3>1, <3>2, <3>3, <3>4, SptAssumption DEF Covered
  <2>4. \A t \in DOMAIN sessions' :
            /\ sessions'[t] \in Session /\ Covered(sessions'[t])
            /\ params.first = params.last => (sessions'[t].primed => AllBy(sessions'[t], params))
    BY <2>2, <2>3
  <2>5. ReloadIsRetried'
    BY <1>1, <2>1 DEF ReloadIsRetried, Uniform
  <2>6. loaded' \in BOOLEAN /\ ~(request'.left > 0)
    BY <2>1 DEF SptIdle
  <2> QED BY <1>1, <1>2, <2>1, <2>2, <2>4, <2>5, <2>6 DEF Covered, AllBy
<1> QED BY <1>3, <1>4, <1>5, <1>6, <1>7, <1>8

LEMMA SptScoreStep ==
    ASSUME SptInv, SptScore, UNCHANGED rvars
    PROVE  SptInv'
<1> DEFINE p == ResyncWeights(params, noted, sessions)[1]
           n == ResyncWeights(params, noted, sessions)[2]
           S == ResyncWeights(params, noted, sessions)[3]
<1>1. UNCHANGED <<live, loaded, cur, version, publishing, request>> /\ loaded /\ request = SptIdle
  BY DEF SptScore, rvars
<1>2. params' = p /\ noted' = n /\ sessions' = S
  BY DEF SptScore
<1>3. /\ p \in SnapshotPair /\ p.last \notin Short
      /\ n \in Nat /\ n <= version
      /\ live /\ n = version => p = Uniform(cur) \/ publishing # {}
      /\ DOMAIN S = DOMAIN sessions
      /\ \A s \in DOMAIN S : S[s] \in Session /\ Covered(S[s])
      /\ p.first = p.last => \A s \in DOMAIN S : S[s].primed => AllBy(S[s], p)
  BY <1>1, ResyncSound
<1> HIDE DEF p, n, S
<1>4. live' \in BOOLEAN /\ loaded' \in BOOLEAN /\ loaded'
  BY <1>1 DEF SptInv, SptTypes
<1>5. SptTypes'
  BY <1>1, <1>2, <1>3, <1>4 DEF SptInv, SptTypes
<1>6. ReloadIsRetried'
  BY <1>1, <1>2, <1>3 DEF ReloadIsRetried, Uniform
<1>7. ~(request'.left > 0)
  BY <1>1 DEF SptIdle
<1> QED BY <1>1, <1>2, <1>3, <1>4, <1>5, <1>6, <1>7 DEF SptInv, Covered, AllBy

\* A publisher moves the registry under the backend: what the backend noted is then
\* either an older version, or the publish has not finished.
LEMMA SptPublishStep ==
    ASSUME SptInv, Published, UNCHANGED svars
    PROVE  SptInv'
<1>1. UNCHANGED <<live, loaded, params, noted, sessions, request>>
  BY DEF svars
<1>2. live' \in BOOLEAN /\ loaded' \in BOOLEAN
  BY <1>1 DEF SptInv, SptTypes
<1>3. cur' \in Weights /\ version' \in Nat /\ version <= version'
  BY DEF Published, Swap, Bump, SptInv, SptTypes
<1>4. ReloadIsRetried'
  <2>1. ASSUME NEW w \in Writers, NEW p \in Weights, Swap(w, p) PROVE ReloadIsRetried'
    BY <2>1 DEF Swap, ReloadIsRetried
  <2>2. ASSUME NEW w \in Writers, Bump(w) PROVE ReloadIsRetried'
    <3>1. version' = version + 1 /\ noted <= version /\ noted \in Nat /\ version \in Nat
      BY <2>2 DEF Bump, SptInv, SptTypes
    <3>2. noted' # version'
      BY <1>1, <3>1
    <3> QED BY <3>2 DEF ReloadIsRetried
  <2> QED BY <2>1, <2>2 DEF Published
<1>5. noted' <= version'
  BY <1>1, <1>3 DEF SptInv, SptTypes
<1> QED BY <1>1, <1>2, <1>3, <1>4, <1>5 DEF SptInv, SptTypes, Covered, AllBy

LEMMA SptStep ==
    ASSUME SptInv, [\/ SptNext /\ UNCHANGED rvars
                    \/ Published /\ UNCHANGED svars]_<<rvars, svars>>
    PROVE  SptInv'
<1>1. CASE SptNext /\ UNCHANGED rvars
  <2>1. ASSUME NEW s \in Slots \cup {NoSlot}, NEW prompt \in Prompts, NEW want \in 1..MaxNewTokens,
               SptBegin(s, prompt, want)
        PROVE  SptInv'
    BY <1>1, <2>1, SptBeginStep
  <2>2. ASSUME NEW tok \in Sampled, SptDecode(tok) PROVE SptInv'
    BY <1>1, <2>2, SptDecodeStep DEF Sampled
  <2>3. CASE SptScore
    BY <1>1, <2>3, SptScoreStep
  <2>4. CASE \/ SptLoad \/ SptUnload \/ SptFinish
             \/ \E s \in Slots : SptOpen(s) \/ SptClose(s) \/ SptReset(s)
    BY <1>1, <2>4, SptCallStep
  <2> QED BY <1>1, <2>1, <2>2, <2>3, <2>4 DEF SptNext
<1>2. CASE Published /\ UNCHANGED svars
  BY <1>2, SptPublishStep
<1>3. CASE UNCHANGED <<rvars, svars>>
  <2>1. live' \in BOOLEAN /\ loaded' \in BOOLEAN
    BY <1>3 DEF rvars, svars, SptInv, SptTypes
  <2>2. ReloadIsRetried'
    BY <1>3 DEF rvars, svars, SptInv, ReloadIsRetried, Uniform
  <2> QED BY <1>3, <2>1, <2>2 DEF rvars, svars, SptInv, SptTypes, Covered, AllBy
<1> QED BY <1>1, <1>2, <1>3

LEMMA SptServes == SptInv => ServesCurrent
<1> SUFFICES ASSUME SptInv PROVE ServesCurrent
  OBVIOUS
<1>1. ASSUME NEW s \in DOMAIN sessions, Covered(sessions[s]), AllBy(sessions[s], params)
      PROVE  Holds(sessions[s])
  <2>1. sessions[s] \in Session
    BY DEF SptInv, SptTypes
  <2>2. DOMAIN sessions[s].tokens = 1..Len(sessions[s].tokens)
    BY <2>1, LenProperties DEF Session
  <2> QED BY <1>1, <2>2 DEF Holds, Covered, AllBy
<1>2. CacheIsCurrent
  BY <1>1 DEF SptInv, CacheIsCurrent
<1> QED BY <1>2 DEF SptInv, ServesCurrent

\* The SPT backend (backend_spt.cpp: resync_weights, generate) never answers from a
\* cache that other weights or another prompt filled, and never skips a reload it
\* still owes: whatever is published, shallower or not, and in whatever order the
\* requests, resets and publishes come.
THEOREM SptServesCurrent == SptSpec => []ServesCurrent
<1>1. RegInit /\ SptInit => SptInv
  BY SptInitially
<1>2. SptInv /\ [\/ SptNext /\ UNCHANGED rvars
                 \/ Published /\ UNCHANGED svars]_<<rvars, svars>> => SptInv'
  BY SptStep
<1>3. SptInv => ServesCurrent
  BY SptServes
<1> QED BY <1>1, <1>2, <1>3, PTL DEF SptSpec

-----------------------------------------------------------------------------
(* The GGUF backend (GgufBackend).                                          *)

GCells == GTokens \cup {Hole}
GSession == [seq : SeqIds, tokens : Seq(GTokens)]
GRun == [slot : Voices \cup {Stateless}, ids : GPrompts, seq : SeqIds, scratch : BOOLEAN,
         state : {"new", "live", "done"}, made : Nat, row : Int]

GgufTypes ==
    /\ seq_used \subseteq SeqIds
    /\ DOMAIN gsessions \subseteq Voices
    /\ \A s \in DOMAIN gsessions : gsessions[s] \in GSession
    /\ kv \in [SeqIds -> Seq(GCells)]
    /\ runs \in Seq(GRun) /\ queue \in Seq(GRequests)
    /\ \A i \in DOMAIN runs : runs[i].state = "new" => runs[i].made = 0
    /\ mode = "idle" => runs = <<>>
    /\ mode = "serial" => Len(runs) <= 1

HeldSeqs == OwnedSeqs \cup leaked

\* Every sequence has one owner: a session, one of the runs in progress, or nobody who
\* would ever give it back.
OneOwner ==
    /\ leaked \subseteq SeqIds /\ leaked \cap OwnedSeqs = {}
    /\ \A s, t \in DOMAIN gsessions : gsessions[s].seq = gsessions[t].seq => s = t
    /\ \A i \in DOMAIN runs :
          IF runs[i].scratch THEN runs[i].seq \notin HeldSeqs
          ELSE runs[i].slot \in DOMAIN gsessions /\ runs[i].seq = gsessions[runs[i].slot].seq
    /\ \A i, j \in DOMAIN runs : runs[i].seq = runs[j].seq => i = j
    /\ seq_used = HeldSeqs \cup Scratches

\* A sound session has cached what it believes; while a run is decoding it, it has
\* cached nothing else, so that the next token lands behind the last.
CachedAsBelieved ==
    /\ \A s \in DOMAIN gsessions \ spoilt :
          IsPrefix(gsessions[s].tokens, kv[gsessions[s].seq])
    /\ \A i \in DOMAIN runs :
          runs[i].state = "live" /\ ~runs[i].scratch /\ runs[i].slot \notin spoilt =>
              /\ gsessions[runs[i].slot].tokens = kv[runs[i].seq]
              /\ Len(kv[runs[i].seq]) = Len(runs[i].ids) + runs[i].made

GgufInv == GgufTypes /\ OneOwner /\ CachedAsBelieved

LEMMA SmallestOf ==
    ASSUME NEW N \in SUBSET Nat, N # {}
    PROVE  Min(N) \in N
<1>1. PICK x \in N : \A y \in N : ~(<<y, x>> \in OpToRel(<, Nat))
  BY NatLessThanWellFounded, WFMin
<1>2. \A y \in N : ~(y < x)
  BY <1>1 DEF OpToRel
<1>3. \A y \in N : x =< y
  BY <1>2
<1> QED BY <1>3 DEF Min

LEMMA SeqIdsAreNat == SeqIds \subseteq Nat /\ IsFiniteSet(SeqIds) /\ Cardinality(SeqIds) = NSeqMax /\ 0 \in SeqIds
<1>1. NSeqMax \in Nat \ {0}
  BY GgufAssumption
<1>2. IsFiniteSet(0..(NSeqMax - 1)) /\ Cardinality(0..(NSeqMax - 1)) = NSeqMax
  BY <1>1, FS_Interval
<1> QED BY <1>1, <1>2 DEF SeqIds

\* claim_seq() gives out a sequence that is free.
LEMMA ClaimSeqFree ==
    ASSUME NEW used, Free(used) # {}
    PROVE  ClaimSeq(used) \in Free(used) /\ ClaimSeq(used) \in SeqIds /\ ClaimSeq(used) \notin used
           /\ ~(ClaimSeq(used) < 0)
<1>1. Free(used) \in SUBSET Nat
  BY SeqIdsAreNat DEF Free
<1>2. Min(Free(used)) \in Free(used)
  BY <1>1, SmallestOf
<1>3. ClaimSeq(used) = Min(Free(used))
  BY DEF ClaimSeq
<1>4. Min(Free(used)) \in Nat
  BY <1>1, <1>2
<1> QED BY <1>2, <1>3, <1>4 DEF Free

\* One sequence per slot and one to spare: between two runs one is free, as long as
\* none was leaked.
LEMMA SequenceToSpare ==
    ASSUME GgufTypes, OneOwner, runs = <<>>, leaked = {}
    PROVE  Free(seq_used) # {}
<1> SUFFICES ASSUME Free(seq_used) = {} PROVE FALSE
  OBVIOUS
<1>1. Scratches = {}
  BY DEF Scratches
<1>2. SeqIds \subseteq OwnedSeqs
  BY <1>1 DEF Free, OneOwner, HeldSeqs
<1> DEFINE holder == [q \in SeqIds |-> CHOOSE s \in DOMAIN gsessions : gsessions[s].seq = q]
<1>3. \A q \in SeqIds : holder[q] \in DOMAIN gsessions /\ gsessions[holder[q]].seq = q
  BY <1>2 DEF OwnedSeqs
<1>4. holder \in [SeqIds -> Voices]
  BY <1>3 DEF GgufTypes
<1> HIDE DEF holder
<1>5. \E q, r \in SeqIds : q # r /\ holder[q] = holder[r]
  <2>1. IsFiniteSet(SeqIds) /\ IsFiniteSet(Voices) /\ Cardinality(Voices) < Cardinality(SeqIds)
    BY SeqIdsAreNat, GgufAssumption
  <2> QED BY <1>4, <2>1, FS_PigeonHole
<1> QED BY <1>3, <1>5

LEMMA PrefixMeans ==
    ASSUME NEW s \in Seq(GTokens), NEW t \in Seq(GCells)
    PROVE  IsPrefix(s, t) <=> Len(s) <= Len(t) /\ \A i \in 1..Len(s) : s[i] = t[i]
<1>1. s \in Seq(GCells)
  BY SeqMonotonic DEF GCells
<1>2. Len(s) \in Nat
  BY LenProperties
<1>3. Len(s) <= Len(t) => (SubSeq(s, 1, Len(s)) = SubSeq(t, 1, Len(s))
                              <=> \A i \in 1..Len(s) : s[i] = t[i])
  BY <1>1, <1>2, SamePrefix
<1> QED BY <1>3 DEF IsPrefix

\* As in the SPT backend, a prompt reuses at most all but its last token.
LEMMA GReuseShared ==
    ASSUME NEW t \in Seq(GTokens), NEW ids \in Seq(GTokens), ids # <<>>
    PROVE  /\ GReuse(t, ids) \in 0..(Len(ids) - 1)
           /\ GReuse(t, ids) <= Len(t)
           /\ \A i \in 1..GReuse(t, ids) : t[i] = ids[i]
<1> DEFINE Longest(n) ==
              /\ n <= Len(t) /\ SubSeq(t, 1, n) = SubSeq(ids, 1, n)
              /\ n = Len(ids) - 1 \/ n = Len(t) \/ t[n + 1] # ids[n + 1]
           shared == CHOOSE n \in 0..(Len(ids) - 1) : Longest(n)
<1>1. Len(ids) \in Nat \ {0} /\ Len(t) \in Nat /\ Len(ids) - 1 \in Nat /\ Len(ids) - 1 <= Len(ids)
  BY LenProperties, EmptySeq
<1>2. \E n \in 0..(Len(ids) - 1) : Longest(n)
  <2>1. \E n \in 0..(Len(ids) - 1) :
            /\ n <= Len(t) /\ SubSeq(t, 1, n) = SubSeq(ids, 1, n)
            /\ n = Len(ids) - 1 \/ n = Len(t) \/ t[n + 1] # ids[n + 1]
    BY <1>1, LongestPrefix
  <2> QED BY <2>1
<1>3. shared \in 0..(Len(ids) - 1) /\ Longest(shared)
  BY <1>2
<1>4. GReuse(t, ids) = shared
  BY DEF GReuse
<1> HIDE DEF shared
<1>5. \A i \in 1..shared : t[i] = ids[i]
  <2>1. shared \in Nat /\ shared <= Len(ids) /\ shared <= Len(t)
    BY <1>1, <1>3
  <2>2. SubSeq(t, 1, shared) = SubSeq(ids, 1, shared)
    BY <1>3
  <2> QED BY <2>1, <2>2, SamePrefix
<1> QED BY <1>3, <1>4, <1>5

\* The memory of the context, sequence by sequence.
KvType == [SeqIds -> Seq(GCells)]

LEMMA SeqRmSeqs ==
    ASSUME NEW m \in KvType, NEW seq \in SeqIds, NEW from \in Nat
    PROVE  /\ SeqRm(m, seq, from) \in KvType
           /\ \A q \in SeqIds \ {seq} : SeqRm(m, seq, from)[q] = m[q]
           /\ from <= Len(m[seq]) =>
                 /\ Len(SeqRm(m, seq, from)[seq]) = from
                 /\ \A i \in 1..from : SeqRm(m, seq, from)[seq][i] = m[seq][i]
<1> DEFINE cut == IF Len(m[seq]) > from THEN SubSeq(m[seq], 1, from) ELSE m[seq]
<1>1. m[seq] \in Seq(GCells) /\ Len(m[seq]) \in Nat
  BY LenProperties DEF KvType
<1>2. Len(m[seq]) > from =>
          /\ SubSeq(m[seq], 1, from) \in Seq(GCells) /\ Len(SubSeq(m[seq], 1, from)) = from
          /\ \A i \in 1..from : SubSeq(m[seq], 1, from)[i] = m[seq][i]
  <2> SUFFICES ASSUME Len(m[seq]) > from
               PROVE  /\ SubSeq(m[seq], 1, from) \in Seq(GCells) /\ Len(SubSeq(m[seq], 1, from)) = from
                      /\ \A i \in 1..from : SubSeq(m[seq], 1, from)[i] = m[seq][i]
    OBVIOUS
  <2>1. \A i \in 1..from : m[seq][i] \in GCells
    BY <1>1, ElementOfSeq
  <2> QED BY <2>1, SubSeqProperties
<1>3. /\ cut \in Seq(GCells)
      /\ from <= Len(m[seq]) => Len(cut) = from /\ \A i \in 1..from : cut[i] = m[seq][i]
  BY <1>1, <1>2
<1>4. SeqRm(m, seq, from) = [m EXCEPT ![seq] = cut]
  BY DEF SeqRm
<1> HIDE DEF cut
<1> QED BY <1>3, <1>4 DEF KvType

LEMMA DecodedSeqs ==
    ASSUME NEW m \in KvType, NEW seq \in SeqIds, NEW pos \in Int, NEW toks \in Seq(GTokens)
    PROVE  /\ Decoded(m, seq, pos, toks) \in KvType
           /\ \A q \in SeqIds \ {seq} : Decoded(m, seq, pos, toks)[q] = m[q]
           /\ pos <= Len(m[seq]) => Decoded(m, seq, pos, toks)[seq] = m[seq] \o toks
<1> DEFINE gap == pos - Len(m[seq])
           holes == Holes(gap)
<1>1. m[seq] \in Seq(GCells) /\ Len(m[seq]) \in Nat /\ toks \in Seq(GCells)
  BY LenProperties, SeqMonotonic DEF KvType, GCells
<1>2. holes \in Seq(GCells)
  <2>1. CASE gap > 0
    <3>1. holes = [i \in 1..gap |-> Hole]
      BY <2>1 DEF Holes
    <3>2. gap \in Nat
      BY <1>1, <2>1
    <3> HIDE DEF gap, holes
    <3>3. holes \in [1..gap -> GCells]
      BY <3>1 DEF GCells
    <3> QED BY <3>2, <3>3, SeqDef
  <2>2. CASE ~(gap > 0)
    BY <2>2, EmptySeq DEF Holes
  <2> QED BY <2>1, <2>2
<1>3. pos <= Len(m[seq]) => m[seq] \o holes = m[seq]
  <2> SUFFICES ASSUME pos <= Len(m[seq]) PROVE m[seq] \o holes = m[seq]
    OBVIOUS
  <2>1. ~(gap > 0)
    BY <1>1
  <2>2. holes = <<>>
    BY <2>1 DEF Holes
  <2> QED BY <1>1, <2>2, ConcatEmptySeq
<1>4. Decoded(m, seq, pos, toks) = [m EXCEPT ![seq] = m[seq] \o holes \o toks]
  BY DEF Decoded
<1> HIDE DEF holes
<1>5. m[seq] \o holes \o toks \in Seq(GCells)
  BY <1>1, <1>2, ConcatProperties
<1> QED BY <1>3, <1>4, <1>5 DEF KvType

\* A step that changes only the sequences in Q and what their sessions believe.
OnlyTouched(Q) ==
    /\ kv' \in KvType /\ \A q \in SeqIds \ Q : kv'[q] = kv[q]
    /\ DOMAIN gsessions' = DOMAIN gsessions
    /\ \A s \in DOMAIN gsessions :
          /\ gsessions'[s] \in GSession /\ gsessions'[s].seq = gsessions[s].seq
          /\ gsessions[s].seq \notin Q => gsessions'[s] = gsessions[s]
    /\ spoilt \subseteq spoilt'

\* The runs of a call, each on a sequence of its own.
RunsOwn(R) ==
    /\ R \in Seq(GRun)
    /\ \A i \in DOMAIN R : R[i].state = "new" => R[i].made = 0
    /\ \A i \in DOMAIN R :
          IF R[i].scratch THEN R[i].seq \notin HeldSeqs
          ELSE R[i].slot \in DOMAIN gsessions /\ R[i].seq = gsessions[R[i].slot].seq
    /\ \A i, j \in DOMAIN R : R[i].seq = R[j].seq => i = j

\* A session run that is still drawing and has not failed.
Sound(run, failed) == run.state = "live" /\ ~run.scratch /\ run.slot \notin failed

\* What a step inside a call has to show, besides the sequences it leaves alone.
LEMMA CallStepKeeps ==
    ASSUME GgufInv, NEW Q, OnlyTouched(Q),
           RunsOwn(runs'), queue' \in Seq(GRequests),
           mode' = "idle" => runs' = <<>>,
           mode' = "serial" => Len(runs') <= 1, leaked' = leaked,
           seq_used' = HeldSeqs \cup Scratches',
           \A s \in DOMAIN gsessions : gsessions[s].seq \in Q /\ s \notin spoilt' =>
               IsPrefix(gsessions'[s].tokens, kv'[gsessions[s].seq]),
           \A i \in DOMAIN runs' : Sound(runs'[i], spoilt') =>
               /\ gsessions'[runs'[i].slot].tokens = kv'[runs'[i].seq]
               /\ Len(kv'[runs'[i].seq]) = Len(runs'[i].ids) + runs'[i].made
    PROVE  GgufInv'
<1>1. OwnedSeqs' = OwnedSeqs /\ HeldSeqs' = HeldSeqs /\ HeldSeqs \subseteq SeqIds
  BY DEF HeldSeqs, OwnedSeqs, OnlyTouched, GgufInv, GgufTypes, OneOwner, GSession
<1>2. Scratches' \subseteq SeqIds
  <2>1. \A i \in DOMAIN runs' : runs'[i] \in GRun
    BY ElementOfSeq, LenProperties DEF RunsOwn
  <2> QED BY <2>1 DEF Scratches, GRun
<1>3. GgufTypes'
  BY <1>1, <1>2 DEF GgufInv, GgufTypes, OnlyTouched, RunsOwn, KvType, GSession
<1>4. OneOwner'
  <2>1. \A s, t \in DOMAIN gsessions' : gsessions'[s].seq = gsessions'[t].seq => s = t
    BY DEF GgufInv, OneOwner, OnlyTouched
  <2>2. \A i \in DOMAIN runs' :
            IF runs'[i].scratch THEN runs'[i].seq \notin HeldSeqs'
            ELSE /\ runs'[i].slot \in DOMAIN gsessions'
                 /\ runs'[i].seq = gsessions'[runs'[i].slot].seq
    BY <1>1 DEF OnlyTouched, RunsOwn
  <2>3. \A i, j \in DOMAIN runs' : runs'[i].seq = runs'[j].seq => i = j
    BY DEF RunsOwn
  <2>4. leaked' \subseteq SeqIds /\ leaked' \cap OwnedSeqs' = {}
    BY <1>1 DEF GgufInv, OneOwner
  <2> QED BY <1>1, <2>1, <2>2, <2>3, <2>4 DEF OneOwner
<1>5. CachedAsBelieved'
  <2>1. ASSUME NEW s \in DOMAIN gsessions', s \notin spoilt'
        PROVE  IsPrefix(gsessions'[s].tokens, kv'[gsessions'[s].seq])
    <3>1. CASE gsessions[s].seq \in Q
      BY <2>1, <3>1 DEF OnlyTouched
    <3>2. CASE gsessions[s].seq \notin Q
      <4>1. gsessions'[s] = gsessions[s] /\ s \in DOMAIN gsessions \ spoilt
        BY <2>1, <3>2 DEF OnlyTouched
      <4>2. kv'[gsessions[s].seq] = kv[gsessions[s].seq]
        BY <3>2, <4>1 DEF OnlyTouched, GgufInv, GgufTypes, GSession
      <4> QED BY <4>1, <4>2 DEF GgufInv, CachedAsBelieved
    <3> QED BY <3>1, <3>2
  <2>2. \A i \in DOMAIN runs' :
            runs'[i].state = "live" /\ ~runs'[i].scratch /\ runs'[i].slot \notin spoilt' =>
                /\ gsessions'[runs'[i].slot].tokens = kv'[runs'[i].seq]
                /\ Len(kv'[runs'[i].seq]) = Len(runs'[i].ids) + runs'[i].made
    BY DEF Sound
  <2> QED BY <2>1, <2>2 DEF CachedAsBelieved
<1> QED BY <1>3, <1>4, <1>5 DEF GgufInv

\* A run whose sequence the step leaves alone stays sound.
LEMMA UntouchedRun ==
    ASSUME GgufInv, NEW Q, OnlyTouched(Q), NEW i \in DOMAIN runs, runs[i].seq \notin Q,
           Sound(runs[i], spoilt')
    PROVE  /\ gsessions'[runs[i].slot].tokens = kv'[runs[i].seq]
           /\ Len(kv'[runs[i].seq]) = Len(runs[i].ids) + runs[i].made
<1>1. runs[i] \in GRun
  BY ElementOfSeq, LenProperties DEF GgufInv, GgufTypes
<1>2. runs[i].slot \in DOMAIN gsessions /\ runs[i].seq = gsessions[runs[i].slot].seq
  BY DEF Sound, GgufInv, OneOwner
<1>3. gsessions'[runs[i].slot] = gsessions[runs[i].slot] /\ kv'[runs[i].seq] = kv[runs[i].seq]
  BY <1>1, <1>2 DEF OnlyTouched, GRun
<1>4. runs[i].slot \notin spoilt
  BY DEF Sound, OnlyTouched
<1> QED BY <1>3, <1>4 DEF Sound, GgufInv, CachedAsBelieved

LEMMA PromptIsTokens ==
    ASSUME NEW ids \in GPrompts
    PROVE  ids \in Seq(GTokens) /\ ids # <<>> /\ Len(ids) \in Nat \ {0}
<1>1. ids \in Seq(GTokens) /\ ids # <<>>
  BY GgufAssumption
<1> QED BY <1>1, EmptySeq

\* One prefill, as far as it comes, touches the sequence it is for; a complete one
\* of a sound session leaves exactly the prompt there.
LEMMA PrefillMemory ==
    ASSUME GgufInv, NEW run \in GRun,
           ~run.scratch => run.slot \in DOMAIN gsessions /\ run.seq = gsessions[run.slot].seq
    PROVE  /\ Feed(run) \in Seq(GTokens) /\ Len(Feed(run)) \in Nat \ {0}
           /\ \A toks \in Seq(GTokens) :
                LET m == Decoded(Trimmed(run), run.seq, Len(run.ids) - Len(Feed(run)), toks)
                IN  m \in KvType /\ \A q \in SeqIds \ {run.seq} : m[q] = kv[q]
           /\ ~run.scratch /\ run.slot \notin spoilt =>
                Decoded(Trimmed(run), run.seq, Len(run.ids) - Len(Feed(run)), Feed(run))[run.seq] = run.ids
<1> DEFINE ids == run.ids
           believed == Tokens(run.slot)
           reuse == GReuse(believed, ids)
           feed == Feed(run)
           trimmed == Trimmed(run)
<1>1. run.seq \in SeqIds /\ ids \in GPrompts
  BY DEF GRun
<1>2. ids \in Seq(GTokens) /\ ids # <<>> /\ Len(ids) \in Nat \ {0}
  BY <1>1, PromptIsTokens
<1>3. believed \in Seq(GTokens)
  BY EmptySeq DEF Tokens, InSession, GgufInv, GgufTypes, GSession
<1>4. /\ reuse \in 0..(Len(ids) - 1) /\ reuse <= Len(believed)
      /\ \A i \in 1..reuse : believed[i] = ids[i]
  BY <1>2, <1>3, GReuseShared
<1>5. kv \in KvType
  BY DEF GgufInv, GgufTypes, KvType
<1>6. trimmed = SeqRm(kv, run.seq, IF run.scratch THEN 0 ELSE reuse) /\ feed = SubSeq(ids, reuse + 1, Len(ids))
  BY DEF Trimmed, Feed
<1> HIDE DEF feed, trimmed, reuse
<1>7. /\ feed \in Seq(GTokens) /\ Len(feed) = Len(ids) - reuse
      /\ \A i \in 1..(Len(ids) - reuse) : feed[i] = ids[reuse + i]
  <2>1. \A i \in (reuse + 1)..Len(ids) : ids[i] \in GTokens
    BY <1>2, <1>4, ElementOfSeq
  <2>2. reuse + 1 \in Int /\ Len(ids) \in Int /\ reuse + 1 <= Len(ids)
    BY <1>2, <1>4
  <2>3. /\ SubSeq(ids, reuse + 1, Len(ids)) \in Seq(GTokens)
        /\ Len(SubSeq(ids, reuse + 1, Len(ids))) = Len(ids) - (reuse + 1) + 1
        /\ \A i \in 1..(Len(ids) - (reuse + 1) + 1) :
              SubSeq(ids, reuse + 1, Len(ids))[i] = ids[(reuse + 1) + i - 1]
    BY <2>1, <2>2, SubSeqProperties
  <2>4. Len(ids) - (reuse + 1) + 1 = Len(ids) - reuse
    BY <1>2, <1>4
  <2>5. \A i \in 1..(Len(ids) - reuse) : (reuse + 1) + i - 1 = reuse + i
    BY <1>2, <1>4
  <2> QED BY <1>6, <2>3, <2>4, <2>5
<1>8. Len(ids) - Len(feed) = reuse /\ Len(feed) \in Nat \ {0}
  BY <1>2, <1>4, <1>7
<1>9. /\ trimmed \in KvType /\ \A q \in SeqIds \ {run.seq} : trimmed[q] = kv[q]
  <2> DEFINE from == IF run.scratch THEN 0 ELSE reuse
  <2>1. from \in Nat
    BY <1>4
  <2>2. trimmed = SeqRm(kv, run.seq, from)
    BY <1>6
  <2> HIDE DEF from
  <2> QED BY <1>1, <1>5, <2>1, <2>2, SeqRmSeqs
<1>10. ASSUME NEW toks \in Seq(GTokens)
       PROVE  /\ Decoded(trimmed, run.seq, Len(ids) - Len(feed), toks) \in KvType
              /\ \A q \in SeqIds \ {run.seq} :
                    Decoded(trimmed, run.seq, Len(ids) - Len(feed), toks)[q] = kv[q]
  <2>1. reuse \in Int
    BY <1>4
  <2>2. /\ Decoded(trimmed, run.seq, reuse, toks) \in KvType
        /\ \A q \in SeqIds \ {run.seq} : Decoded(trimmed, run.seq, reuse, toks)[q] = trimmed[q]
    BY <1>1, <1>9, <2>1, DecodedSeqs
  <2> QED BY <1>8, <1>9, <2>2
<1>11. ASSUME ~run.scratch, run.slot \notin spoilt
       PROVE  Decoded(trimmed, run.seq, Len(ids) - Len(feed), feed)[run.seq] = ids
  <2>1. believed = gsessions[run.slot].tokens /\ run.slot \in DOMAIN gsessions \ spoilt
    BY <1>11 DEF Tokens, InSession
  <2>2. kv[run.seq] \in Seq(GCells) /\ Len(kv[run.seq]) \in Nat /\ Len(believed) \in Nat
    BY <1>1, <1>3, <1>5, LenProperties DEF KvType
  <2>3. IsPrefix(believed, kv[run.seq])
    BY <1>11, <2>1 DEF GgufInv, CachedAsBelieved
  <2>4. Len(believed) <= Len(kv[run.seq]) /\ \A i \in 1..Len(believed) : believed[i] = kv[run.seq][i]
    BY <1>3, <2>2, <2>3, PrefixMeans
  <2> HIDE DEF believed
  <2>5. trimmed = SeqRm(kv, run.seq, reuse) /\ reuse \in Nat /\ reuse <= Len(kv[run.seq])
    BY <1>4, <1>6, <1>11, <2>2, <2>4
  <2>6. Len(trimmed[run.seq]) = reuse /\ \A i \in 1..reuse : trimmed[run.seq][i] = kv[run.seq][i]
    BY <1>1, <1>5, <2>5, SeqRmSeqs
  <2>7. \A i \in 1..reuse : trimmed[run.seq][i] = ids[i]
    <3> TAKE i \in 1..reuse
    <3>1. i \in 1..Len(believed)
      BY <1>4, <2>2
    <3> QED BY <1>4, <2>4, <2>6, <3>1
  <2>8. Decoded(trimmed, run.seq, reuse, feed)[run.seq] = trimmed[run.seq] \o feed
    <3>1. reuse \in Int /\ reuse <= Len(trimmed[run.seq])
      BY <1>4, <2>6
    <3> QED BY <1>1, <1>7, <1>9, <3>1, DecodedSeqs
  <2>9. trimmed[run.seq] \in Seq(GCells) /\ feed \in Seq(GCells) /\ ids \in Seq(GCells)
    BY <1>1, <1>2, <1>7, <1>9, SeqMonotonic DEF KvType, GCells
  <2>10. /\ trimmed[run.seq] \o feed \in Seq(GCells)
         /\ Len(trimmed[run.seq] \o feed) = Len(trimmed[run.seq]) + Len(feed)
         /\ \A i \in 1..(Len(trimmed[run.seq]) + Len(feed)) : (trimmed[run.seq] \o feed)[i] =
               IF i <= Len(trimmed[run.seq]) THEN trimmed[run.seq][i]
               ELSE feed[i - Len(trimmed[run.seq])]
    BY <2>9, ConcatProperties
  <2>11. Len(trimmed[run.seq] \o feed) = Len(ids)
    BY <1>2, <1>4, <1>7, <2>6, <2>10
  <2>12. \A i \in 1..Len(ids) : (trimmed[run.seq] \o feed)[i] = ids[i]
    <3> TAKE i \in 1..Len(ids)
    <3>1. (trimmed[run.seq] \o feed)[i] = IF i <= reuse THEN trimmed[run.seq][i] ELSE feed[i - reuse]
      BY <2>6, <2>10, <2>11
    <3>2. CASE i <= reuse
      <4>1. i \in 1..reuse
        BY <1>4, <3>2
      <4> QED BY <2>7, <3>1, <3>2, <4>1
    <3>3. CASE ~(i <= reuse)
      <4>1. i - reuse \in 1..(Len(ids) - reuse) /\ reuse + (i - reuse) = i
        BY <1>2, <1>4, <3>3
      <4>2. feed[i - reuse] = ids[reuse + (i - reuse)]
        BY <1>7, <4>1
      <4> QED BY <3>1, <3>3, <4>1, <4>2
    <3> QED BY <3>2, <3>3
  <2>13. trimmed[run.seq] \o feed = ids
    BY <2>9, <2>10, <2>11, <2>12, SeqEqual
  <2> QED BY <1>8, <2>8, <2>13
<1> QED BY <1>7, <1>8, <1>10, <1>11 DEF feed, trimmed

\* Between two calls there are only the sessions to look at.
LEMMA IdleStepKeeps ==
    ASSUME runs' = <<>>, queue' \in Seq(GRequests), kv' \in KvType,
           seq_used' = HeldSeqs', leaked' \subseteq SeqIds, leaked' \cap OwnedSeqs' = {},
           DOMAIN gsessions' \subseteq Voices,
           \A s \in DOMAIN gsessions' : gsessions'[s] \in GSession,
           \A s, t \in DOMAIN gsessions' : gsessions'[s].seq = gsessions'[t].seq => s = t,
           \A s \in DOMAIN gsessions' \ spoilt' :
               IsPrefix(gsessions'[s].tokens, kv'[gsessions'[s].seq])
    PROVE  GgufInv'
<1>1. Scratches' = {} /\ DOMAIN runs' = {}
  BY DEF Scratches
<1>2. seq_used' \subseteq SeqIds
  BY DEF HeldSeqs, OwnedSeqs, GSession
<1>3. runs' \in Seq(GRun) /\ Len(runs') <= 1
  <2>1. <<>> \in Seq(GRun) /\ Len(<<>>) = 0
    BY EmptySeq
  <2> QED BY <2>1
<1>4. GgufTypes'
  BY <1>1, <1>2, <1>3 DEF GgufTypes, KvType
<1>5. OneOwner'
  BY <1>1 DEF OneOwner
<1>6. CachedAsBelieved'
  BY <1>1 DEF CachedAsBelieved
<1> QED BY <1>4, <1>5, <1>6 DEF GgufInv

LEMMA NoTokensIsPrefix ==
    ASSUME NEW t \in Seq(GCells)
    PROVE  IsPrefix(<<>>, t)
<1> DEFINE none == <<>>
<1>1. none \in Seq(GTokens) /\ Len(none) = 0 /\ Len(t) \in Nat
  BY EmptySeq, LenProperties
<1> HIDE DEF none
<1>2. Len(none) <= Len(t) /\ \A i \in 1..Len(none) : none[i] = t[i]
  BY <1>1
<1>3. IsPrefix(none, t)
  BY <1>1, <1>2, PrefixMeans
<1> QED BY <1>3 DEF none

LEMMA GgufSessionStep ==
    ASSUME GgufInv, GgufUnload \/ \E s \in Voices : GgufOpen(s) \/ GgufClose(s) \/ GgufReset(s)
    PROVE  GgufInv'
<1>1. mode = "idle" /\ runs = <<>> /\ runs' = <<>> /\ queue' = queue /\ queue \in Seq(GRequests)
  BY DEF GgufUnload, GgufOpen, GgufClose, GgufReset, GgufInv, GgufTypes
<1>2. seq_used = OwnedSeqs \cup leaked /\ leaked \subseteq SeqIds /\ leaked \cap OwnedSeqs = {}
  BY <1>1 DEF GgufInv, OneOwner, HeldSeqs, Scratches
<1>3. /\ kv \in KvType
      /\ \A s \in DOMAIN gsessions : gsessions[s].seq \in SeqIds /\ gsessions[s].tokens \in Seq(GTokens)
      /\ \A s, t \in DOMAIN gsessions : gsessions[s].seq = gsessions[t].seq => s = t
      /\ \A s \in DOMAIN gsessions \ spoilt : IsPrefix(gsessions[s].tokens, kv[gsessions[s].seq])
      /\ DOMAIN gsessions \subseteq Voices
      /\ \A s \in DOMAIN gsessions : gsessions[s] \in GSession
  BY DEF GgufInv, GgufTypes, OneOwner, CachedAsBelieved, KvType, GSession
<1>4. CASE GgufUnload
  <2>1. DOMAIN gsessions' = {} /\ seq_used' = {} /\ leaked' = {} /\ kv' = [q \in SeqIds |-> <<>>]
    BY <1>4 DEF GgufUnload
  <2>2. kv' \in KvType
    BY <2>1, EmptySeq DEF KvType
  <2>3. OwnedSeqs' = {} /\ HeldSeqs' = {}
    BY <2>1 DEF OwnedSeqs, HeldSeqs
  <2> QED BY <1>1, <2>1, <2>2, <2>3, IdleStepKeeps
<1>5. ASSUME NEW s \in Voices, GgufOpen(s) PROVE GgufInv'
  <2> DEFINE claimed == ClaimSeq(seq_used)
             opened == [seq |-> claimed, tokens |-> <<>>]
  <2>1. claimed \in SeqIds /\ claimed \notin seq_used
    BY <1>5, ClaimSeqFree DEF GgufOpen
  <2>2. /\ gsessions' = [t \in DOMAIN gsessions \cup {s} |-> IF t = s THEN opened ELSE gsessions[t]]
        /\ s \notin DOMAIN gsessions /\ UNCHANGED <<kv, spoilt, leaked>>
        /\ seq_used' = seq_used \cup {claimed}
    BY <1>5 DEF GgufOpen, InSession
  <2>3. opened \in GSession /\ opened.seq = claimed /\ opened.tokens = <<>>
    BY <2>1, EmptySeq DEF GSession
  <2> HIDE DEF claimed, opened
  <2>4. /\ DOMAIN gsessions' = DOMAIN gsessions \cup {s} /\ gsessions'[s] = opened
        /\ \A t \in DOMAIN gsessions : gsessions'[t] = gsessions[t]
    BY <2>2
  <2>5. OwnedSeqs' = OwnedSeqs \cup {claimed}
    BY <2>3, <2>4 DEF OwnedSeqs
  <2>6. \A t, u \in DOMAIN gsessions' : gsessions'[t].seq = gsessions'[u].seq => t = u
    BY <1>2, <1>3, <2>1, <2>3, <2>4 DEF OwnedSeqs
  <2>7. kv[claimed] \in Seq(GCells)
    BY <1>3, <2>1 DEF KvType
  <2>8. \A t \in DOMAIN gsessions' \ spoilt' : IsPrefix(gsessions'[t].tokens, kv'[gsessions'[t].seq])
    BY <1>3, <2>2, <2>3, <2>4, <2>7, NoTokensIsPrefix
  <2>9. \A t \in DOMAIN gsessions' : gsessions'[t] \in GSession
    BY <1>3, <2>3, <2>4
  <2>10. seq_used' = HeldSeqs' /\ leaked' \subseteq SeqIds /\ leaked' \cap OwnedSeqs' = {}
    BY <1>2, <2>1, <2>2, <2>5 DEF HeldSeqs
  <2> QED BY <1>1, <1>3, <2>2, <2>4, <2>6, <2>8, <2>9, <2>10, IdleStepKeeps
<1>6. ASSUME NEW s \in Voices, GgufClose(s) PROVE GgufInv'
  <2>1. /\ s \in DOMAIN gsessions /\ kv' = SeqRm(kv, gsessions[s].seq, 0)
        /\ seq_used' = seq_used \ {gsessions[s].seq} /\ spoilt' = spoilt \ {s} /\ leaked' = leaked
        /\ gsessions' = [t \in DOMAIN gsessions \ {s} |-> gsessions[t]]
    BY <1>6 DEF GgufClose, InSession
  <2>2. DOMAIN gsessions' = DOMAIN gsessions \ {s} /\ \A t \in DOMAIN gsessions' : gsessions'[t] = gsessions[t]
    BY <2>1
  <2>3. kv' \in KvType /\ \A q \in SeqIds \ {gsessions[s].seq} : kv'[q] = kv[q]
    BY <1>3, <2>1, SeqRmSeqs
  <2>4. OwnedSeqs' = OwnedSeqs \ {gsessions[s].seq}
    BY <1>3, <2>1, <2>2 DEF OwnedSeqs
  <2>5. \A t \in DOMAIN gsessions' \ spoilt' : IsPrefix(gsessions'[t].tokens, kv'[gsessions'[t].seq])
    BY <1>3, <2>1, <2>2, <2>3
  <2>6. gsessions[s].seq \in OwnedSeqs
    BY <2>1 DEF OwnedSeqs
  <2>7. seq_used' = HeldSeqs' /\ leaked' \subseteq SeqIds /\ leaked' \cap OwnedSeqs' = {}
    BY <1>2, <2>1, <2>4, <2>6 DEF HeldSeqs
  <2> QED BY <1>1, <1>3, <2>2, <2>3, <2>5, <2>7, IdleStepKeeps
<1>7. ASSUME NEW s \in Voices, GgufReset(s) PROVE GgufInv'
  <2>1. /\ s \in DOMAIN gsessions /\ kv' = SeqRm(kv, gsessions[s].seq, 0)
        /\ seq_used' = seq_used /\ spoilt' = spoilt \ {s} /\ leaked' = leaked
        /\ gsessions' = [gsessions EXCEPT ![s].tokens = <<>>]
    BY <1>7 DEF GgufReset, InSession
  <2>2. /\ DOMAIN gsessions' = DOMAIN gsessions /\ gsessions'[s] \in GSession
        /\ \A t \in DOMAIN gsessions' : /\ gsessions'[t].seq = gsessions[t].seq
                                        /\ t # s => gsessions'[t] = gsessions[t]
        /\ gsessions'[s].tokens = <<>>
    BY <1>3, <2>1, EmptySeq DEF GSession
  <2>3. kv' \in KvType /\ \A q \in SeqIds \ {gsessions[s].seq} : kv'[q] = kv[q]
    BY <1>3, <2>1, SeqRmSeqs
  <2>4. OwnedSeqs' = OwnedSeqs
    BY <2>2 DEF OwnedSeqs
  <2>5. kv'[gsessions[s].seq] \in Seq(GCells)
    BY <1>3, <2>1, <2>3 DEF KvType
  <2>6. \A t \in DOMAIN gsessions' \ spoilt' : IsPrefix(gsessions'[t].tokens, kv'[gsessions'[t].seq])
    BY <1>3, <2>1, <2>2, <2>3, <2>5, NoTokensIsPrefix
  <2>7. /\ \A t \in DOMAIN gsessions' : gsessions'[t] \in GSession
        /\ \A t, u \in DOMAIN gsessions' : gsessions'[t].seq = gsessions'[u].seq => t = u
    BY <1>3, <2>2
  <2>8. seq_used' = HeldSeqs' /\ leaked' \subseteq SeqIds /\ leaked' \cap OwnedSeqs' = {}
    BY <1>2, <2>1, <2>4 DEF HeldSeqs
  <2> QED BY <1>1, <1>3, <2>2, <2>3, <2>6, <2>7, <2>8, IdleStepKeeps
<1> QED BY <1>4, <1>5, <1>6, <1>7

\* generate_many(): when no request is left without, the requests that have no
\* session claim free sequences, each one of its own.
LEMMA ClaimsApart ==
    ASSUME NEW requests \in Seq(GRequests), ~TooFew(requests)
    PROVE  /\ \A i \in DOMAIN requests :
                 IF InSession(requests[i].slot) THEN Claims(requests)[i] = -1
                 ELSE Claims(requests)[i] \in Free(seq_used)
           /\ \A i, j \in DOMAIN requests :
                 ~InSession(requests[i].slot) /\ ~InSession(requests[j].slot)
                     /\ Claims(requests)[i] = Claims(requests)[j] => i = j
<1> DEFINE Before(i) == {k \in 1..(i - 1) : ~InSession(requests[k].slot)}
           Below(q) == {p \in Free(seq_used) : p < q}
           Fits(i) == {q \in Free(seq_used) : Cardinality(Below(q)) = Cardinality(Before(i))}
<1>1. DOMAIN requests = 1..Len(requests) /\ Len(requests) \in Nat
  BY LenProperties
<1>2. \A i \in DOMAIN requests :
          Claims(requests)[i] =
              IF InSession(requests[i].slot) \/ Fits(i) = {} THEN -1 ELSE Min(Fits(i))
  BY DEF Claims
<1>3. ASSUME NEW i \in DOMAIN requests, ~InSession(requests[i].slot)
      PROVE  Claims(requests)[i] \in Fits(i)
  <2>1. ~(Claims(requests)[i] < 0)
    BY <1>3 DEF TooFew
  <2>2. Fits(i) # {}
    <3> HIDE DEF Fits
    <3> SUFFICES ASSUME Fits(i) = {} PROVE FALSE
      OBVIOUS
    <3>1. Claims(requests)[i] = -1
      BY <1>2
    <3> QED BY <2>1, <3>1
  <2>3. Fits(i) \subseteq Nat
    BY SeqIdsAreNat DEF Free
  <2> HIDE DEF Fits
  <2>4. Min(Fits(i)) \in Fits(i)
    BY <2>2, <2>3, SmallestOf
  <2> QED BY <1>2, <1>3, <2>2, <2>4
<1>4. ASSUME NEW i \in DOMAIN requests, NEW j \in DOMAIN requests, i < j,
             ~InSession(requests[i].slot), ~InSession(requests[j].slot)
      PROVE  Claims(requests)[i] # Claims(requests)[j]
  <2>1. Before(i) \subseteq Before(j)
    BY <1>1, <1>4
  <2>2. i \in Before(j) /\ i \notin Before(i)
    BY <1>1, <1>4
  <2>3. IsFiniteSet(Before(j))
    <3>1. IsFiniteSet(1..(j - 1))
      BY <1>1, <1>4, FS_Interval
    <3>2. Before(j) \in SUBSET (1..(j - 1))
      OBVIOUS
    <3> HIDE DEF Before
    <3> QED BY <3>1, <3>2, FS_Subset
  <2>4. Cardinality(Before(i)) # Cardinality(Before(j))
    <3> HIDE DEF Before
    <3>1. Before(i) \in SUBSET Before(j) /\ Before(i) # Before(j)
      BY <2>1, <2>2
    <3> QED BY <2>3, <3>1, FS_Subset
  <2>5. Claims(requests)[i] \in Fits(i) /\ Claims(requests)[j] \in Fits(j)
    BY <1>3, <1>4
  <2> HIDE DEF Before, Below
  <2> QED BY <2>4, <2>5
<1>5. ASSUME NEW i \in DOMAIN requests, NEW j \in DOMAIN requests, i # j,
             ~InSession(requests[i].slot), ~InSession(requests[j].slot)
      PROVE  Claims(requests)[i] # Claims(requests)[j]
  <2>1. i < j \/ j < i
    BY <1>1, <1>5
  <2> HIDE DEF Fits
  <2> QED BY <1>4, <1>5, <2>1
<1> QED BY <1>2, <1>3, <1>5

LEMMA BatchIsRequests ==
    ASSUME NEW requests \in Batches
    PROVE  /\ requests \in Seq(GRequests)
           /\ \A i, j \in DOMAIN requests :
                 requests[i].slot = requests[j].slot => i = j \/ requests[i].slot = Stateless
<1>1. PICK n \in 1..MaxBatch : requests \in [1..n -> GRequests]
  BY DEF Batches
<1>2. n \in Nat
  BY GgufAssumption
<1>3. requests \in Seq(GRequests)
  BY <1>1, <1>2, SeqDef
<1> QED BY <1>3 DEF Batches

LEMMA NothingTouched ==
    ASSUME GgufInv, UNCHANGED <<gsessions, kv>>, spoilt \subseteq spoilt'
    PROVE  OnlyTouched({})
  BY DEF OnlyTouched, GgufInv, GgufTypes, KvType

LEMMA GenerateManyStep ==
    ASSUME GgufInv, NEW requests \in Batches, GenerateMany(requests)
    PROVE  GgufInv'
<1>1. mode = "idle" /\ runs = <<>> /\ UNCHANGED <<gsessions, kv, spoilt, leaked>>
  BY DEF GenerateMany, GgufInv, GgufTypes
<1>2. OnlyTouched({})
  BY <1>1, NothingTouched
<1>3. seq_used = HeldSeqs
  BY <1>1 DEF GgufInv, OneOwner, Scratches
<1>4. requests \in Seq(GRequests) /\ DOMAIN requests = 1..Len(requests) /\ Len(requests) \in Nat
  BY BatchIsRequests, LenProperties
<1>5. CASE Len(requests) = 1 \/ TooFew(requests)
  <2>1. mode' = "serial" /\ queue' = requests /\ runs' = <<>> /\ seq_used' = seq_used
    BY <1>5 DEF GenerateMany, FallBack
  <2>2. RunsOwn(runs') /\ Len(runs') <= 1 /\ DOMAIN runs' = {} /\ Scratches' = {}
    BY <2>1, EmptySeq DEF RunsOwn, Scratches
  <2> QED BY <1>1, <1>2, <1>3, <1>4, <2>1, <2>2, CallStepKeeps
<1>6. CASE ~(Len(requests) = 1 \/ TooFew(requests))
  <2> DEFINE Starts(i) ==
                IF InSession(requests[i].slot)
                THEN NewRun(requests[i], gsessions[requests[i].slot].seq, FALSE)
                ELSE NewRun(requests[i], Claims(requests)[i], TRUE)
  <2>1. /\ mode' = "prefill" /\ queue' = <<>>
        /\ runs' = [i \in DOMAIN requests |-> Starts(i)]
        /\ seq_used' = seq_used \cup ({Claims(requests)[i] : i \in DOMAIN requests} \ {-1})
    BY <1>6 DEF GenerateMany
  <2>2. DOMAIN runs' = DOMAIN requests /\ \A i \in DOMAIN requests : runs'[i] = Starts(i)
    BY <2>1
  <2>3. /\ \A i \in DOMAIN requests :
              IF InSession(requests[i].slot) THEN Claims(requests)[i] = -1
              ELSE Claims(requests)[i] \in Free(seq_used)
        /\ \A i, j \in DOMAIN requests :
              ~InSession(requests[i].slot) /\ ~InSession(requests[j].slot)
                  /\ Claims(requests)[i] = Claims(requests)[j] => i = j
    BY <1>4, <1>6, ClaimsApart
  <2>4. ASSUME NEW i \in DOMAIN requests
        PROVE  /\ runs'[i] \in GRun /\ runs'[i].slot = requests[i].slot
               /\ runs'[i].state = "new" /\ runs'[i].made = 0
               /\ runs'[i].scratch <=> ~InSession(requests[i].slot)
               /\ runs'[i].seq = IF InSession(requests[i].slot)
                                 THEN gsessions[requests[i].slot].seq ELSE Claims(requests)[i]
    <3>1. requests[i].slot \in Voices \cup {Stateless} /\ requests[i].ids \in GPrompts
      <4>1. requests[i] \in GRequests
        BY <1>4, ElementOfSeq
      <4> QED BY <4>1 DEF GRequests
    <3>2. CASE InSession(requests[i].slot)
      <4>1. runs'[i] = NewRun(requests[i], gsessions[requests[i].slot].seq, FALSE)
        BY <2>2, <3>2
      <4>2. gsessions[requests[i].slot].seq \in SeqIds
        BY <3>2 DEF InSession, GgufInv, GgufTypes, GSession
      <4>3. runs'[i] \in GRun
        BY <3>1, <4>1, <4>2 DEF NewRun, GRun
      <4>4. /\ runs'[i].slot = requests[i].slot /\ runs'[i].state = "new" /\ runs'[i].made = 0 /\ ~runs'[i].scratch
            /\ runs'[i].seq = gsessions[requests[i].slot].seq
        BY <4>1 DEF NewRun
      <4> QED BY <3>2, <4>3, <4>4
    <3>3. CASE ~InSession(requests[i].slot)
      <4>1. runs'[i] = NewRun(requests[i], Claims(requests)[i], TRUE)
        BY <2>2, <3>3
      <4>2. Claims(requests)[i] \in SeqIds
        BY <2>3, <3>3 DEF Free
      <4>3. runs'[i] \in GRun
        BY <3>1, <4>1, <4>2 DEF NewRun, GRun
      <4>4. /\ runs'[i].slot = requests[i].slot /\ runs'[i].state = "new" /\ runs'[i].made = 0 /\ runs'[i].scratch
            /\ runs'[i].seq = Claims(requests)[i]
        BY <4>1 DEF NewRun
      <4> QED BY <3>3, <4>3, <4>4
    <3> QED BY <3>2, <3>3
  <2> HIDE DEF Starts
  <2>5. runs' \in Seq(GRun)
    <3>1. runs' \in [1..Len(requests) -> GRun]
      BY <1>4, <2>1, <2>4
    <3> QED BY <1>4, <3>1, SeqDef
  <2>6. \A i \in DOMAIN runs' :
            IF runs'[i].scratch THEN runs'[i].seq \notin HeldSeqs
            ELSE runs'[i].slot \in DOMAIN gsessions /\ runs'[i].seq = gsessions[runs'[i].slot].seq
    BY <1>3, <2>2, <2>3, <2>4 DEF InSession, Free
  <2>7. ASSUME NEW i \in DOMAIN runs', NEW j \in DOMAIN runs', runs'[i].seq = runs'[j].seq
        PROVE  i = j
    <3>1. CASE runs'[i].scratch /\ runs'[j].scratch
      BY <2>2, <2>3, <2>4, <2>7, <3>1
    <3>2. CASE ~runs'[i].scratch /\ ~runs'[j].scratch
      <4>1. /\ requests[i].slot \in DOMAIN gsessions /\ requests[j].slot \in DOMAIN gsessions
            /\ gsessions[requests[i].slot].seq = gsessions[requests[j].slot].seq
        BY <2>2, <2>4, <2>7, <3>2 DEF InSession
      <4>2. requests[i].slot = requests[j].slot
        BY <4>1 DEF GgufInv, OneOwner
      <4>3. requests[i].slot # Stateless
        BY <4>1, GgufAssumption DEF GgufInv, GgufTypes
      <4> QED BY <2>2, <4>2, <4>3, BatchIsRequests
    <3>3. CASE \/ runs'[i].scratch /\ ~runs'[j].scratch
               \/ ~runs'[i].scratch /\ runs'[j].scratch
      <4>1. \A k \in DOMAIN runs' : ~runs'[k].scratch => runs'[k].seq \in HeldSeqs
        BY <2>6 DEF HeldSeqs, OwnedSeqs
      <4> QED BY <2>6, <2>7, <3>3, <4>1
    <3> QED BY <3>1, <3>2, <3>3
  <2>8. RunsOwn(runs')
    BY <2>2, <2>4, <2>5, <2>6, <2>7 DEF RunsOwn
  <2>9. seq_used' = HeldSeqs \cup Scratches'
    <3>1. Scratches' = {Claims(requests)[i] : i \in {k \in DOMAIN requests : ~InSession(requests[k].slot)}}
      <4>1. Scratches' = {runs'[i].seq : i \in {k \in DOMAIN requests : runs'[k].scratch}}
        BY <2>2 DEF Scratches
      <4>2. \A k \in DOMAIN requests : runs'[k].scratch <=> ~InSession(requests[k].slot)
        BY <2>4
      <4>3. \A k \in DOMAIN requests : ~InSession(requests[k].slot) => runs'[k].seq = Claims(requests)[k]
        BY <2>4
      <4> QED BY <4>1, <4>2, <4>3
    <3>2. -1 \notin Free(seq_used)
      BY SeqIdsAreNat DEF Free
    <3>3. {Claims(requests)[i] : i \in DOMAIN requests} \ {-1}
              = {Claims(requests)[i] : i \in {k \in DOMAIN requests : ~InSession(requests[k].slot)}}
      BY <2>3, <3>2
    <3> QED BY <1>3, <2>1, <3>1, <3>3
  <2>10. queue' \in Seq(GRequests)
    BY <2>1, EmptySeq
  <2>11. \A i \in DOMAIN runs' : ~Sound(runs'[i], spoilt')
    BY <2>2, <2>4 DEF Sound
  <2> QED BY <1>1, <1>2, <2>1, <2>8, <2>9, <2>10, <2>11, CallStepKeeps
<1> QED BY <1>5, <1>6

LEMMA ScratchesFree ==
    ASSUME GgufInv
    PROVE  Scratches \cap HeldSeqs = {} /\ Scratches \subseteq SeqIds
           /\ seq_used \ Scratches = HeldSeqs
<1>1. \A i \in DOMAIN runs : runs[i] \in GRun
  BY ElementOfSeq, LenProperties DEF GgufInv, GgufTypes
<1>2. Scratches \subseteq SeqIds
  BY <1>1 DEF Scratches, GRun
<1>3. Scratches \cap HeldSeqs = {}
  BY DEF Scratches, GgufInv, OneOwner
<1> QED BY <1>2, <1>3 DEF GgufInv, OneOwner

\* The end of a call or of a request: the borrowed sequences are emptied and given
\* back, the sessions' are not touched.
LEMMA WipedKeeps ==
    ASSUME GgufInv, kv' = Wiped, UNCHANGED <<gsessions, spoilt, queue, leaked>>,
           seq_used' = seq_used \ Scratches, runs' = <<>>
    PROVE  GgufInv'
<1>1. Scratches \cap HeldSeqs = {} /\ Scratches \subseteq SeqIds /\ seq_used \ Scratches = HeldSeqs
  BY ScratchesFree
<1>2. OnlyTouched(Scratches)
  <2>1. kv' \in KvType /\ \A q \in SeqIds \ Scratches : kv'[q] = kv[q]
    BY EmptySeq DEF Wiped, KvType, GgufInv, GgufTypes
  <2> QED BY <2>1 DEF OnlyTouched, GgufInv, GgufTypes
<1>3. RunsOwn(runs') /\ Len(runs') <= 1 /\ DOMAIN runs' = {} /\ Scratches' = {}
  BY EmptySeq DEF RunsOwn, Scratches
<1>4. \A s \in DOMAIN gsessions : gsessions[s].seq \notin Scratches
  BY <1>1 DEF HeldSeqs, OwnedSeqs
<1>5. queue' \in Seq(GRequests) /\ seq_used' = HeldSeqs \cup Scratches'
  BY <1>1, <1>3 DEF GgufInv, GgufTypes
<1> QED BY <1>2, <1>3, <1>4, <1>5, CallStepKeeps

LEMMA CallEndStep ==
    ASSUME GgufInv, SerialEnd \/ JointEnd \/ SerialDone \/ StartJoint
    PROVE  GgufInv'
<1>1. CASE SerialEnd
  BY <1>1, WipedKeeps DEF SerialEnd
<1>2. CASE JointEnd
  BY <1>2, WipedKeeps DEF JointEnd
<1>3. CASE SerialDone
  <2>1. UNCHANGED <<seq_used, gsessions, kv, runs, spoilt, leaked>> /\ runs = <<>> /\ queue' = <<>>
    BY <1>3 DEF SerialDone
  <2>2. OnlyTouched({})
    BY <2>1, NothingTouched
  <2>3. RunsOwn(runs') /\ Len(runs') <= 1 /\ DOMAIN runs' = {} /\ Scratches' = {} /\ Scratches = {}
    BY <2>1, EmptySeq DEF RunsOwn, Scratches
  <2>4. queue' \in Seq(GRequests) /\ seq_used' = HeldSeqs \cup Scratches'
    BY <2>1, <2>3, EmptySeq DEF GgufInv, OneOwner
  <2> QED BY <2>1, <2>2, <2>3, <2>4, CallStepKeeps
<1>4. CASE StartJoint
  <2>1. UNCHANGED <<seq_used, gsessions, kv, rows, runs, queue, spoilt, leaked>> /\ mode' = "joint"
    BY <1>4 DEF StartJoint
  <2>2. OnlyTouched({})
    BY <2>1, NothingTouched
  <2>3. RunsOwn(runs')
    BY <2>1 DEF RunsOwn, GgufInv, GgufTypes, OneOwner
  <2>4. queue' \in Seq(GRequests) /\ seq_used' = HeldSeqs \cup Scratches'
    BY <2>1 DEF GgufInv, GgufTypes, OneOwner, Scratches
  <2>5. ASSUME NEW i \in DOMAIN runs', Sound(runs'[i], spoilt')
        PROVE  /\ gsessions'[runs'[i].slot].tokens = kv'[runs'[i].seq]
               /\ Len(kv'[runs'[i].seq]) = Len(runs'[i].ids) + runs'[i].made
    BY <2>1, <2>2, <2>5, UntouchedRun
  <2> QED BY <2>1, <2>2, <2>3, <2>4, <2>5, CallStepKeeps
<1> QED BY <1>1, <1>2, <1>3, <1>4

\* What a complete and what a failed prefill of a run do to the sessions.
LEMMA PrefillTouches ==
    ASSUME GgufInv, NEW run \in GRun,
           IF run.scratch THEN run.seq \notin HeldSeqs
           ELSE run.slot \in DOMAIN gsessions /\ run.seq = gsessions[run.slot].seq,
           PrefillDone(run) \/ PrefillFails(run)
    PROVE  /\ OnlyTouched({run.seq})
           /\ \A s \in DOMAIN gsessions : gsessions[s].seq = run.seq /\ s \notin spoilt' =>
                 IsPrefix(gsessions'[s].tokens, kv'[gsessions[s].seq])
           /\ PrefillDone(run) /\ ~run.scratch /\ run.slot \notin spoilt' =>
                 gsessions'[run.slot].tokens = run.ids /\ kv'[run.seq] = run.ids
<1> DEFINE pos == Len(run.ids) - Len(Feed(run))
           after(toks) == Decoded(Trimmed(run), run.seq, pos, toks)
<1>1. /\ Feed(run) \in Seq(GTokens) /\ Len(Feed(run)) \in Nat \ {0}
      /\ \A toks \in Seq(GTokens) :
            after(toks) \in KvType /\ \A q \in SeqIds \ {run.seq} : after(toks)[q] = kv[q]
      /\ ~run.scratch /\ run.slot \notin spoilt => after(Feed(run))[run.seq] = run.ids
  BY PrefillMemory
<1>2. run.ids \in GPrompts /\ run.ids \in Seq(GTokens) /\ run.seq \in SeqIds /\ run.scratch \in BOOLEAN
  BY PromptIsTokens DEF GRun
<1>3. \A s \in DOMAIN gsessions : gsessions[s].seq = run.seq => ~run.scratch /\ s = run.slot
  BY DEF GgufInv, OneOwner, HeldSeqs, OwnedSeqs
<1>4. \A s \in DOMAIN gsessions : gsessions[s] \in GSession
  BY DEF GgufInv, GgufTypes
<1>5. CASE PrefillDone(run)
  <2>1. kv' = after(Feed(run)) /\ spoilt' = spoilt
    BY <1>5 DEF PrefillDone
  <2> HIDE DEF after
  <2>2. kv' \in KvType /\ \A q \in SeqIds \ {run.seq} : kv'[q] = kv[q]
    BY <1>1, <2>1
  <2>3. run.scratch => gsessions' = gsessions
    BY <1>5 DEF PrefillDone
  <2>4. ~run.scratch =>
            /\ DOMAIN gsessions' = DOMAIN gsessions
            /\ gsessions'[run.slot] = [gsessions[run.slot] EXCEPT !.tokens = run.ids]
            /\ \A s \in DOMAIN gsessions : s # run.slot => gsessions'[s] = gsessions[s]
    BY <1>5 DEF PrefillDone
  <2>5. ~run.scratch =>
            /\ gsessions'[run.slot] \in GSession /\ gsessions'[run.slot].tokens = run.ids
            /\ gsessions'[run.slot].seq = gsessions[run.slot].seq
    BY <1>2, <1>4, <2>4 DEF GSession
  <2>6. OnlyTouched({run.seq})
    <3>1. CASE run.scratch
      BY <1>3, <1>4, <2>1, <2>2, <2>3, <3>1 DEF OnlyTouched
    <3>2. CASE ~run.scratch
      BY <1>3, <1>4, <2>1, <2>2, <2>4, <2>5, <3>2 DEF OnlyTouched
    <3> QED BY <3>1, <3>2
  <2>7. ~run.scratch /\ run.slot \notin spoilt' =>
            gsessions'[run.slot].tokens = run.ids /\ kv'[run.seq] = run.ids
    BY <1>1, <2>1, <2>5
  <2>8. IsPrefix(run.ids, run.ids)
    BY DEF IsPrefix
  <2>9. \A s \in DOMAIN gsessions : gsessions[s].seq = run.seq /\ s \notin spoilt' =>
            IsPrefix(gsessions'[s].tokens, kv'[gsessions[s].seq])
    BY <1>3, <2>7, <2>8
  <2> QED BY <2>6, <2>7, <2>9
<1>6. CASE PrefillFails(run)
  <2>1. PICK n \in 0..(Len(Feed(run)) - 1) : kv' = after(SubSeq(Feed(run), 1, n))
    BY <1>6 DEF PrefillFails
  <2>2. SubSeq(Feed(run), 1, n) \in Seq(GTokens)
    <3>1. \A i \in 1..n : Feed(run)[i] \in GTokens
      BY <1>1, ElementOfSeq
    <3> QED BY <3>1, SubSeqProperties
  <2> HIDE DEF after
  <2>3. kv' \in KvType /\ \A q \in SeqIds \ {run.seq} : kv'[q] = kv[q]
    BY <1>1, <2>1, <2>2
  <2>4. gsessions' = gsessions /\ spoilt' = IF run.scratch THEN spoilt ELSE spoilt \cup {run.slot}
    BY <1>6 DEF PrefillFails
  <2>5. spoilt \subseteq spoilt'
    BY <2>4
  <2>6. OnlyTouched({run.seq})
    BY <1>4, <2>3, <2>4, <2>5 DEF OnlyTouched
  <2>7. ~run.scratch => run.slot \in spoilt'
    BY <2>4
  <2>8. ~PrefillDone(run) \/ run.scratch \/ run.slot \in spoilt'
    BY <2>7
  <2> QED BY <1>3, <2>6, <2>7, <2>8
<1> QED BY <1>5, <1>6

LEMMA PrefillNextStep ==
    ASSUME GgufInv, PrefillNext
    PROVE  GgufInv'
<1>1. PICK i \in DOMAIN runs :
          /\ runs[i].state = "new"
          /\ \/ PrefillDone(runs[i]) /\ runs' = [runs EXCEPT ![i].state = "live"]
             \/ PrefillFails(runs[i]) /\ runs' = [runs EXCEPT ![i].state = "done"]
  BY DEF PrefillNext
<1>2. mode = "prefill" /\ UNCHANGED <<seq_used, mode, queue, leaked>>
  BY DEF PrefillNext
<1>3. runs \in Seq(GRun) /\ DOMAIN runs = 1..Len(runs) /\ \A j \in DOMAIN runs : runs[j] \in GRun
  BY ElementOfSeq, LenProperties DEF GgufInv, GgufTypes
<1>4. /\ OnlyTouched({runs[i].seq})
      /\ \A s \in DOMAIN gsessions : gsessions[s].seq = runs[i].seq /\ s \notin spoilt' =>
             IsPrefix(gsessions'[s].tokens, kv'[gsessions[s].seq])
      /\ PrefillDone(runs[i]) /\ ~runs[i].scratch /\ runs[i].slot \notin spoilt' =>
             gsessions'[runs[i].slot].tokens = runs[i].ids /\ kv'[runs[i].seq] = runs[i].ids
  BY <1>1, <1>3, PrefillTouches DEF GgufInv, OneOwner
<1>5. PICK new_state \in {"live", "done"} :
          /\ runs' = [runs EXCEPT ![i] = [runs[i] EXCEPT !.state = new_state]]
          /\ new_state = "live" => PrefillDone(runs[i])
  BY <1>1
<1>6. /\ runs' \in Seq(GRun) /\ DOMAIN runs' = DOMAIN runs
      /\ \A j \in DOMAIN runs : j # i => runs'[j] = runs[j]
      /\ runs'[i] = [runs[i] EXCEPT !.state = new_state]
  <2>1. [runs[i] EXCEPT !.state = new_state] \in GRun
    BY <1>3 DEF GRun
  <2> QED BY <1>3, <1>5, <2>1, ExceptSeq, LenProperties
<1>7. /\ runs'[i].slot = runs[i].slot /\ runs'[i].ids = runs[i].ids /\ runs'[i].seq = runs[i].seq
      /\ runs'[i].scratch = runs[i].scratch /\ runs'[i].made = runs[i].made
      /\ runs'[i].state = new_state
  BY <1>3, <1>6 DEF GRun
<1>8. \A j \in DOMAIN runs :
          /\ runs'[j].slot = runs[j].slot /\ runs'[j].seq = runs[j].seq
          /\ runs'[j].scratch = runs[j].scratch
  BY <1>6, <1>7
<1>9. RunsOwn(runs')
  <2>1. \A j \in DOMAIN runs' : runs'[j].state = "new" => runs'[j].made = 0
    BY <1>5, <1>6, <1>7 DEF GgufInv, GgufTypes
  <2>2. \A j \in DOMAIN runs' :
            IF runs'[j].scratch THEN runs'[j].seq \notin HeldSeqs
            ELSE runs'[j].slot \in DOMAIN gsessions /\ runs'[j].seq = gsessions[runs'[j].slot].seq
    BY <1>6, <1>8 DEF GgufInv, OneOwner
  <2>3. \A j, k \in DOMAIN runs' : runs'[j].seq = runs'[k].seq => j = k
    BY <1>6, <1>8 DEF GgufInv, OneOwner
  <2> QED BY <1>6, <2>1, <2>2, <2>3 DEF RunsOwn
<1>10. queue' \in Seq(GRequests) /\ seq_used' = HeldSeqs \cup Scratches'
  <2>1. Scratches' = Scratches
    BY <1>6, <1>8 DEF Scratches
  <2> QED BY <1>2, <2>1 DEF GgufInv, GgufTypes, OneOwner
<1>11. ASSUME NEW j \in DOMAIN runs', Sound(runs'[j], spoilt')
       PROVE  /\ gsessions'[runs'[j].slot].tokens = kv'[runs'[j].seq]
              /\ Len(kv'[runs'[j].seq]) = Len(runs'[j].ids) + runs'[j].made
  <2>1. CASE j = i
    <3>1. PrefillDone(runs[i]) /\ ~runs[i].scratch /\ runs[i].slot \notin spoilt'
      BY <1>5, <1>7, <1>11, <2>1 DEF Sound
    <3>2. runs[i].made = 0 /\ Len(runs[i].ids) \in Nat
      BY <1>1, <1>3, PromptIsTokens DEF GgufInv, GgufTypes, GRun
    <3> QED BY <1>4, <1>7, <2>1, <3>1, <3>2
  <2>2. CASE j # i
    <3>1. runs'[j] = runs[j] /\ j \in DOMAIN runs /\ runs[j].seq \notin {runs[i].seq}
      BY <1>6, <2>2 DEF GgufInv, OneOwner
    <3> QED BY <1>4, <1>11, <3>1, UntouchedRun
  <2> QED BY <2>1, <2>2
<1>12. mode' # "idle" /\ mode' # "serial"
  BY <1>2
<1> QED BY <1>2, <1>4, <1>9, <1>10, <1>11, <1>12, CallStepKeeps

LEMMA OneRun ==
    ASSUME NEW run \in GRun, run.state # "new",
           IF run.scratch THEN run.seq \notin HeldSeqs
           ELSE run.slot \in DOMAIN gsessions /\ run.seq = gsessions[run.slot].seq
    PROVE  RunsOwn(<<run>>) /\ Len(<<run>>) = 1 /\ DOMAIN <<run>> = {1} /\ <<run>>[1] = run
<1> DEFINE R == <<run>>
<1>1. R \in Seq(GRun) /\ Len(R) = 1 /\ DOMAIN R = {1} /\ R[1] = run
  OBVIOUS
<1> HIDE DEF R
<1>2. RunsOwn(R)
  BY <1>1 DEF RunsOwn
<1> QED BY <1>1, <1>2 DEF R

LEMMA SerialBeginStep ==
    ASSUME GgufInv, SerialBegin, ~trespass'
    PROVE  GgufInv'
<1> DEFINE asked == Head(queue)
           claimed == ClaimSeq(seq_used)
           run == IF InSession(asked.slot)
                  THEN NewRun(asked, gsessions[asked.slot].seq, FALSE)
                  ELSE NewRun(asked, IF claimed < 0 THEN 0 ELSE claimed, TRUE)
           live_run == [run EXCEPT !.state = "live"]
<1>1. mode = "serial" /\ mode' = "serial" /\ runs = <<>> /\ queue # <<>> /\ queue' = Tail(queue)
      /\ leaked' = leaked
  BY DEF SerialBegin
<1>2. \/ /\ PrefillDone(run) /\ runs' = <<live_run>>
         /\ seq_used' = IF run.scratch /\ claimed >= 0 THEN seq_used \cup {run.seq} ELSE seq_used
      \/ /\ PrefillFails(run) /\ runs' = <<>>
         /\ seq_used' = IF run.scratch THEN seq_used \ {run.seq} ELSE seq_used
  BY DEF SerialBegin
<1>3. asked \in GRequests /\ queue' \in Seq(GRequests)
  BY <1>1, HeadTailProperties DEF GgufInv, GgufTypes
<1>4. ~InSession(asked.slot) =>
          claimed \in SeqIds /\ claimed \notin seq_used /\ ~(claimed < 0) /\ claimed >= 0
  <2> SUFFICES ASSUME ~InSession(asked.slot)
               PROVE  claimed \in SeqIds /\ claimed \notin seq_used /\ ~(claimed < 0) /\ claimed >= 0
    OBVIOUS
  <2>0. ~(claimed < 0)
    <3>1. run.scratch
      BY DEF NewRun
    <3>2. trespass' = (trespass \/ (run.scratch /\ claimed < 0))
      BY DEF SerialBegin
    <3> QED BY <3>1, <3>2
  <2>1. Free(seq_used) # {}
    <3>1. Free(seq_used) = {} => claimed = -1
      BY DEF ClaimSeq
    <3> HIDE DEF claimed
    <3> QED BY <2>0, <3>1
  <2>2. claimed \in SeqIds /\ claimed \notin seq_used /\ ~(claimed < 0)
    BY <2>1, ClaimSeqFree
  <2> HIDE DEF claimed
  <2> QED BY <2>2, SeqIdsAreNat
<1>5. seq_used = HeldSeqs
  BY <1>1 DEF GgufInv, OneOwner, Scratches
<1> HIDE DEF asked, claimed
<1>6. /\ run \in GRun /\ run.made = 0
      /\ IF run.scratch THEN run.seq \notin HeldSeqs /\ run.seq = claimed /\ claimed >= 0
         ELSE run.slot \in DOMAIN gsessions /\ run.seq = gsessions[run.slot].seq
  <2>1. asked.slot \in Voices \cup {Stateless} /\ asked.ids \in GPrompts
    BY <1>3 DEF GRequests
  <2>2. CASE InSession(asked.slot)
    <3>1. run = NewRun(asked, gsessions[asked.slot].seq, FALSE)
      BY <2>2
    <3>2. asked.slot \in DOMAIN gsessions /\ gsessions[asked.slot].seq \in SeqIds
      BY <2>2 DEF InSession, GgufInv, GgufTypes, GSession
    <3> HIDE DEF run
    <3>3. run \in GRun
      BY <2>1, <3>1, <3>2 DEF NewRun, GRun
    <3>4. run.made = 0 /\ ~run.scratch /\ run.slot = asked.slot /\ run.seq = gsessions[asked.slot].seq
      BY <3>1 DEF NewRun
    <3> QED BY <3>2, <3>3, <3>4
  <2>3. CASE ~InSession(asked.slot)
    <3>1. run = NewRun(asked, claimed, TRUE)
      BY <1>4, <2>3
    <3> HIDE DEF run
    <3>2. run \in GRun
      BY <1>4, <2>1, <2>3, <3>1 DEF NewRun, GRun
    <3>3. run.made = 0 /\ run.scratch /\ run.seq = claimed
      BY <3>1 DEF NewRun
    <3> QED BY <1>4, <1>5, <2>3, <3>2, <3>3
  <2> QED BY <2>2, <2>3
<1>7. /\ live_run \in GRun /\ live_run.state = "live" /\ live_run.scratch = run.scratch
      /\ live_run.seq = run.seq /\ live_run.slot = run.slot /\ live_run.ids = run.ids
      /\ live_run.made = 0
  <2> HIDE DEF run
  <2> QED BY <1>6 DEF GRun
<1> HIDE DEF run, live_run
<1>8. /\ OnlyTouched({run.seq})
      /\ \A s \in DOMAIN gsessions : gsessions[s].seq = run.seq /\ s \notin spoilt' =>
            IsPrefix(gsessions'[s].tokens, kv'[gsessions[s].seq])
      /\ PrefillDone(run) /\ ~run.scratch /\ run.slot \notin spoilt' =>
            gsessions'[run.slot].tokens = run.ids /\ kv'[run.seq] = run.ids
  BY <1>2, <1>6, PrefillTouches
<1>9. CASE /\ PrefillDone(run) /\ runs' = <<live_run>>
           /\ seq_used' = IF run.scratch /\ claimed >= 0 THEN seq_used \cup {run.seq} ELSE seq_used
  <2>1. RunsOwn(<<live_run>>) /\ Len(<<live_run>>) = 1 /\ DOMAIN <<live_run>> = {1} /\ <<live_run>>[1] = live_run
    BY <1>6, <1>7, OneRun
  <2>2. RunsOwn(runs') /\ Len(runs') = 1 /\ DOMAIN runs' = {1} /\ runs'[1] = live_run
    BY <1>9, <2>1
  <2>3. Scratches' = IF run.scratch THEN {run.seq} ELSE {}
    BY <1>7, <2>2 DEF Scratches
  <2>4. seq_used' = HeldSeqs \cup Scratches'
    BY <1>5, <1>6, <1>9, <2>3
  <2>5. ASSUME NEW i \in DOMAIN runs', Sound(runs'[i], spoilt')
        PROVE  /\ gsessions'[runs'[i].slot].tokens = kv'[runs'[i].seq]
               /\ Len(kv'[runs'[i].seq]) = Len(runs'[i].ids) + runs'[i].made
    <3>1. runs'[i] = live_run /\ ~run.scratch /\ run.slot \notin spoilt'
      BY <1>7, <2>2, <2>5 DEF Sound
    <3>2. Len(run.ids) \in Nat
      BY <1>6, PromptIsTokens DEF GRun
    <3> QED BY <1>7, <1>8, <1>9, <3>1, <3>2
  <2> QED BY <1>1, <1>3, <1>8, <2>2, <2>4, <2>5, CallStepKeeps
<1>10. CASE /\ PrefillFails(run) /\ runs' = <<>>
            /\ seq_used' = IF run.scratch THEN seq_used \ {run.seq} ELSE seq_used
  <2>1. RunsOwn(runs') /\ Len(runs') <= 1 /\ DOMAIN runs' = {} /\ Scratches' = {}
    BY <1>10, EmptySeq DEF RunsOwn, Scratches
  <2>2. seq_used' = HeldSeqs \cup Scratches'
    BY <1>5, <1>6, <1>10, <2>1
  <2> QED BY <1>1, <1>3, <1>8, <2>1, <2>2, CallStepKeeps
<1> QED BY <1>2, <1>9, <1>10

\* A token decoded behind everything that is cached and believed.
LEMMA TokenAppended ==
    ASSUME GgufInv, NEW seq \in SeqIds, NEW tok \in GVocab, NEW pos \in Int
    PROVE  /\ Decoded(kv, seq, pos, <<tok>>) \in KvType
           /\ \A q \in SeqIds \ {seq} : Decoded(kv, seq, pos, <<tok>>)[q] = kv[q]
           /\ pos = Len(kv[seq]) =>
                 /\ Decoded(kv, seq, pos, <<tok>>)[seq] = Append(kv[seq], tok)
                 /\ Len(Decoded(kv, seq, pos, <<tok>>)[seq]) = pos + 1
<1> DEFINE one == <<tok>>
<1>1. kv \in KvType
  BY DEF GgufInv, GgufTypes, KvType
<1>2. tok \in GCells /\ tok \in GTokens
  BY DEF GCells, GTokens
<1>3. one \in Seq(GTokens) /\ one \in Seq(GCells)
  BY <1>2
<1>4. kv[seq] \in Seq(GCells) /\ Len(kv[seq]) \in Nat
  BY <1>1, LenProperties DEF KvType
<1>5. Append(kv[seq], tok) = kv[seq] \o one /\ Len(Append(kv[seq], tok)) = Len(kv[seq]) + 1
  BY <1>2, <1>4, AppendIsConcat, AppendProperties
<1> HIDE DEF one
<1>6. /\ Decoded(kv, seq, pos, one) \in KvType
      /\ \A q \in SeqIds \ {seq} : Decoded(kv, seq, pos, one)[q] = kv[q]
      /\ pos <= Len(kv[seq]) => Decoded(kv, seq, pos, one)[seq] = kv[seq] \o one
  BY <1>1, <1>3, DecodedSeqs
<1>7. pos = Len(kv[seq]) => /\ Decoded(kv, seq, pos, one)[seq] = Append(kv[seq], tok)
                            /\ Len(Decoded(kv, seq, pos, one)[seq]) = pos + 1
  BY <1>4, <1>5, <1>6
<1> QED BY <1>6, <1>7 DEF one

LEMMA SerialTokenStep ==
    ASSUME GgufInv, NEW tok \in GVocab, SerialToken(tok)
    PROVE  GgufInv'
<1> DEFINE run == runs[1]
           pos == Len(run.ids) + run.made
           fed_run == [run EXCEPT !.made = run.made + 1]
           over_run == [run EXCEPT !.state = "done"]
<1>1. /\ mode = "serial" /\ runs # <<>> /\ run.state = "live"
      /\ UNCHANGED <<seq_used, mode, queue, leaked>>
  BY DEF SerialToken
<1>2. gsessions' = Pushed(gsessions, run, tok)
  BY DEF SerialToken
<1>3. \/ /\ kv' = Decoded(kv, run.seq, pos, <<tok>>) /\ runs' = <<fed_run>> /\ spoilt' = spoilt
      \/ /\ runs' = <<over_run>> /\ kv' = kv
         /\ spoilt' = IF run.scratch THEN spoilt ELSE spoilt \cup {run.slot}
  BY DEF SerialToken
<1>4. runs \in Seq(GRun) /\ Len(runs) = 1 /\ DOMAIN runs = {1}
  <2>1. runs \in Seq(GRun) /\ Len(runs) <= 1
    BY <1>1 DEF GgufInv, GgufTypes
  <2>2. Len(runs) \in Nat \ {0} /\ DOMAIN runs = 1..Len(runs)
    BY <1>1, <2>1, EmptySeq, LenProperties
  <2> QED BY <2>1, <2>2
<1>5. run \in GRun
  BY <1>4, ElementOfSeq
<1>6. IF run.scratch THEN run.seq \notin HeldSeqs
      ELSE run.slot \in DOMAIN gsessions /\ run.seq = gsessions[run.slot].seq
  BY <1>4 DEF GgufInv, OneOwner
<1>7. ~run.scratch /\ run.slot \notin spoilt =>
          gsessions[run.slot].tokens = kv[run.seq] /\ Len(kv[run.seq]) = pos
  BY <1>1, <1>4 DEF GgufInv, CachedAsBelieved
<1>8. Scratches = IF run.scratch THEN {run.seq} ELSE {}
  BY <1>4 DEF Scratches
<1> HIDE DEF run
<1>9. run.seq \in SeqIds /\ pos \in Int /\ run.made \in Nat /\ Len(run.ids) \in Nat
  BY <1>5, PromptIsTokens DEF GRun
<1>10. /\ fed_run \in GRun /\ fed_run.state = "live" /\ fed_run.scratch = run.scratch
       /\ fed_run.seq = run.seq /\ fed_run.slot = run.slot /\ fed_run.ids = run.ids
       /\ fed_run.made = run.made + 1
  BY <1>1, <1>5, <1>9 DEF GRun
<1>11. /\ over_run \in GRun /\ over_run.state = "done" /\ over_run.scratch = run.scratch
       /\ over_run.seq = run.seq /\ over_run.slot = run.slot
  BY <1>5 DEF GRun
<1> HIDE DEF pos, fed_run, over_run
<1>12. \A s \in DOMAIN gsessions : gsessions[s].seq = run.seq => ~run.scratch /\ s = run.slot
  BY <1>6 DEF GgufInv, OneOwner, HeldSeqs, OwnedSeqs
<1>13. \A s \in DOMAIN gsessions : gsessions[s] \in GSession /\ gsessions[s].tokens \in Seq(GTokens)
  BY DEF GgufInv, GgufTypes, GSession
<1>14. /\ DOMAIN gsessions' = DOMAIN gsessions
       /\ \A s \in DOMAIN gsessions :
             /\ gsessions'[s] \in GSession /\ gsessions'[s].seq = gsessions[s].seq
             /\ gsessions[s].seq # run.seq => gsessions'[s] = gsessions[s]
       /\ ~run.scratch => gsessions'[run.slot].tokens = Append(gsessions[run.slot].tokens, tok)
  <2>1. CASE run.scratch
    BY <1>2, <1>13, <2>1 DEF Pushed
  <2>2. CASE ~run.scratch
    <3>1. gsessions' = [gsessions EXCEPT ![run.slot].tokens = Append(@, tok)]
      BY <1>2, <2>2 DEF Pushed
    <3>2. run.slot \in DOMAIN gsessions /\ run.seq = gsessions[run.slot].seq
      BY <1>6, <2>2
    <3>3. Append(gsessions[run.slot].tokens, tok) \in Seq(GTokens)
      <4>1. tok \in GTokens
        BY DEF GTokens
      <4> QED BY <1>13, <3>2, <4>1, AppendProperties
    <3>4. /\ DOMAIN gsessions' = DOMAIN gsessions
          /\ gsessions'[run.slot] = [gsessions[run.slot] EXCEPT !.tokens = Append(gsessions[run.slot].tokens, tok)]
          /\ \A s \in DOMAIN gsessions : s # run.slot => gsessions'[s] = gsessions[s]
      BY <3>1, <3>2
    <3>5. /\ gsessions'[run.slot] \in GSession /\ gsessions'[run.slot].seq = gsessions[run.slot].seq
          /\ gsessions'[run.slot].tokens = Append(gsessions[run.slot].tokens, tok)
      BY <1>13, <3>2, <3>3, <3>4 DEF GSession
    <3> QED BY <1>13, <3>2, <3>4, <3>5
  <2> QED BY <2>1, <2>2
<1>15. mode' = "serial" /\ queue' \in Seq(GRequests)
  BY <1>1 DEF GgufInv, GgufTypes
<1>16. CASE kv' = Decoded(kv, run.seq, pos, <<tok>>) /\ runs' = <<fed_run>> /\ spoilt' = spoilt
  <2>1. RunsOwn(<<fed_run>>) /\ Len(<<fed_run>>) = 1 /\ DOMAIN <<fed_run>> = {1} /\ <<fed_run>>[1] = fed_run
    BY <1>6, <1>10, OneRun
  <2>2. RunsOwn(runs') /\ Len(runs') = 1 /\ DOMAIN runs' = {1} /\ runs'[1] = fed_run
    BY <1>16, <2>1
  <2>3. seq_used' = HeldSeqs \cup Scratches'
    <3>1. Scratches' = Scratches
      BY <1>8, <1>10, <2>2 DEF Scratches
    <3> QED BY <1>1, <3>1 DEF GgufInv, OneOwner
  <2>4. /\ kv' \in KvType /\ \A q \in SeqIds \ {run.seq} : kv'[q] = kv[q]
        /\ pos = Len(kv[run.seq]) => kv'[run.seq] = Append(kv[run.seq], tok) /\ Len(kv'[run.seq]) = pos + 1
    BY <1>9, <1>16, TokenAppended
  <2>5. OnlyTouched({run.seq})
    BY <1>14, <1>16, <2>4 DEF OnlyTouched
  <2>6. ~run.scratch /\ run.slot \notin spoilt' =>
            gsessions'[run.slot].tokens = kv'[run.seq] /\ Len(kv'[run.seq]) = pos + 1
    BY <1>7, <1>14, <1>16, <2>4
  <2>7. ASSUME NEW s \in DOMAIN gsessions, gsessions[s].seq \in {run.seq}, s \notin spoilt'
        PROVE  IsPrefix(gsessions'[s].tokens, kv'[gsessions[s].seq])
    <3>1. gsessions'[s].tokens = kv'[gsessions[s].seq]
      BY <1>12, <2>6, <2>7
    <3>2. IsPrefix(kv'[gsessions[s].seq], kv'[gsessions[s].seq])
      BY <1>9, <2>4, <2>7, LenProperties DEF IsPrefix, KvType
    <3> QED BY <3>1, <3>2
  <2>8. ASSUME NEW i \in DOMAIN runs', Sound(runs'[i], spoilt')
        PROVE  /\ gsessions'[runs'[i].slot].tokens = kv'[runs'[i].seq]
               /\ Len(kv'[runs'[i].seq]) = Len(runs'[i].ids) + runs'[i].made
    <3>1. runs'[i] = fed_run /\ ~run.scratch /\ run.slot \notin spoilt'
      BY <1>10, <2>2, <2>8 DEF Sound
    <3>2. pos + 1 = Len(run.ids) + (run.made + 1)
      BY <1>9 DEF pos
    <3> QED BY <1>10, <2>6, <3>1, <3>2
  <2> QED BY <1>1, <1>15, <2>2, <2>3, <2>5, <2>7, <2>8, CallStepKeeps
<1>17. CASE /\ runs' = <<over_run>> /\ kv' = kv
            /\ spoilt' = IF run.scratch THEN spoilt ELSE spoilt \cup {run.slot}
  <2>1. RunsOwn(<<over_run>>) /\ Len(<<over_run>>) = 1 /\ DOMAIN <<over_run>> = {1} /\ <<over_run>>[1] = over_run
    BY <1>6, <1>11, OneRun
  <2>2. RunsOwn(runs') /\ Len(runs') = 1 /\ DOMAIN runs' = {1} /\ runs'[1] = over_run
    BY <1>17, <2>1
  <2>3. seq_used' = HeldSeqs \cup Scratches'
    <3>1. Scratches' = Scratches
      BY <1>8, <1>11, <2>2 DEF Scratches
    <3> QED BY <1>1, <3>1 DEF GgufInv, OneOwner
  <2>4. kv' \in KvType /\ \A q \in SeqIds \ {run.seq} : kv'[q] = kv[q]
    BY <1>17 DEF GgufInv, GgufTypes, KvType
  <2>5. spoilt \subseteq spoilt' /\ (~run.scratch => run.slot \in spoilt')
    BY <1>17
  <2>6. OnlyTouched({run.seq})
    BY <1>14, <2>4, <2>5 DEF OnlyTouched
  <2>7. \A s \in DOMAIN gsessions : ~(gsessions[s].seq \in {run.seq} /\ s \notin spoilt')
    BY <1>12, <2>5
  <2>8. \A i \in DOMAIN runs' : ~Sound(runs'[i], spoilt')
    BY <1>11, <2>2 DEF Sound
  <2> QED BY <1>1, <1>15, <2>2, <2>3, <2>6, <2>7, <2>8, CallStepKeeps
<1> QED BY <1>3, <1>16, <1>17

\* Runs that keep their slot, prompt and sequence keep owning them.
LEMMA SameOwners ==
    ASSUME GgufInv, runs' \in Seq(GRun), DOMAIN runs' = DOMAIN runs,
           \A i \in DOMAIN runs :
               /\ runs'[i].slot = runs[i].slot /\ runs'[i].seq = runs[i].seq
               /\ runs'[i].scratch = runs[i].scratch
               /\ runs'[i].state = "new" => runs[i].state = "new" /\ runs'[i].made = runs[i].made
    PROVE  RunsOwn(runs') /\ Scratches' = Scratches
<1>1. \A j \in DOMAIN runs' : runs'[j].state = "new" => runs'[j].made = 0
  BY DEF GgufInv, GgufTypes
<1>2. \A j \in DOMAIN runs' :
          IF runs'[j].scratch THEN runs'[j].seq \notin HeldSeqs
          ELSE runs'[j].slot \in DOMAIN gsessions /\ runs'[j].seq = gsessions[runs'[j].slot].seq
  BY DEF GgufInv, OneOwner
<1>3. \A j, k \in DOMAIN runs' : runs'[j].seq = runs'[k].seq => j = k
  BY DEF GgufInv, OneOwner
<1>4. Scratches' = Scratches
  BY DEF Scratches
<1> QED BY <1>1, <1>2, <1>3, <1>4 DEF RunsOwn

LEMMA JointStepStep ==
    ASSUME GgufInv, NEW fed \in SUBSET Drawing, NEW tok \in GVocab, JointStep(fed, tok)
    PROVE  GgufInv'
<1> DEFINE Q == {runs[i].seq : i \in fed}
           pos(i) == Len(runs[i].ids) + runs[i].made
           RowOf(i) == Cardinality({k \in fed : k <= i})
           over == {i \in DOMAIN runs : runs[i].state = "live" /\ i \notin fed}
<1>1. mode = "joint" /\ UNCHANGED <<seq_used, mode, queue, leaked>>
  BY DEF JointStep
<1>2. /\ runs \in Seq(GRun) /\ DOMAIN runs = 1..Len(runs) /\ Len(runs) \in Nat
      /\ \A i \in DOMAIN runs : runs[i] \in GRun
  BY ElementOfSeq, LenProperties DEF GgufInv, GgufTypes
<1>3. \A i \in fed : i \in DOMAIN runs /\ runs[i].state = "live"
  BY DEF Drawing
<1>4. \A i \in DOMAIN runs :
          /\ runs[i].seq \in SeqIds /\ runs[i].made \in Nat /\ Len(runs[i].ids) \in Nat
          /\ pos(i) \in Int
  BY <1>2, PromptIsTokens DEF GRun
<1>5. \A i \in DOMAIN runs :
          IF runs[i].scratch THEN runs[i].seq \notin HeldSeqs
          ELSE runs[i].slot \in DOMAIN gsessions /\ runs[i].seq = gsessions[runs[i].slot].seq
  BY DEF GgufInv, OneOwner
<1>6. \A i, j \in DOMAIN runs : runs[i].seq = runs[j].seq => i = j
  BY DEF GgufInv, OneOwner
<1>7. \A i \in DOMAIN runs : runs[i].state = "live" /\ ~runs[i].scratch /\ runs[i].slot \notin spoilt =>
          gsessions[runs[i].slot].tokens = kv[runs[i].seq] /\ Len(kv[runs[i].seq]) = pos(i)
  BY DEF GgufInv, CachedAsBelieved
<1>8. \A s \in DOMAIN gsessions : gsessions[s] \in GSession /\ gsessions[s].tokens \in Seq(GTokens)
  BY DEF GgufInv, GgufTypes, GSession
<1>9. \A i \in fed, s \in DOMAIN gsessions :
          gsessions[s].seq = runs[i].seq => ~runs[i].scratch /\ runs[i].slot = s
  BY <1>3, <1>5 DEF GgufInv, OneOwner, HeldSeqs, OwnedSeqs
<1>10. kv \in KvType
  BY DEF GgufInv, GgufTypes, KvType
<1>11. gsessions' = JointPush(gsessions, fed, tok)
  BY DEF JointStep
<1>12. /\ DOMAIN gsessions' = DOMAIN gsessions
       /\ \A s \in DOMAIN gsessions :
             gsessions'[s] = IF \E i \in fed : ~runs[i].scratch /\ runs[i].slot = s
                             THEN [gsessions[s] EXCEPT !.tokens = Append(gsessions[s].tokens, tok)]
                             ELSE gsessions[s]
  BY <1>11 DEF JointPush
<1>13. /\ \A s \in DOMAIN gsessions :
             /\ gsessions'[s] \in GSession /\ gsessions'[s].seq = gsessions[s].seq
             /\ gsessions[s].seq \notin Q => gsessions'[s] = gsessions[s]
       /\ \A i \in fed : ~runs[i].scratch =>
             gsessions'[runs[i].slot].tokens = Append(gsessions[runs[i].slot].tokens, tok)
  <2>1. ASSUME NEW s \in DOMAIN gsessions
        PROVE  LET pushed == [gsessions[s] EXCEPT !.tokens = Append(gsessions[s].tokens, tok)]
               IN  /\ pushed \in GSession /\ pushed.seq = gsessions[s].seq
                   /\ pushed.tokens = Append(gsessions[s].tokens, tok)
    <3>1. tok \in GTokens
      BY DEF GTokens
    <3>2. Append(gsessions[s].tokens, tok) \in Seq(GTokens)
      BY <1>8, <3>1, AppendProperties
    <3> QED BY <1>8, <3>2 DEF GSession
  <2>2. ASSUME NEW s \in DOMAIN gsessions, gsessions[s].seq \notin Q
        PROVE  gsessions'[s] = gsessions[s]
    <3>1. ~\E i \in fed : ~runs[i].scratch /\ runs[i].slot = s
      BY <1>3, <1>5, <2>2
    <3> QED BY <1>12, <3>1
  <2>3. ASSUME NEW i \in fed, ~runs[i].scratch
        PROVE  gsessions'[runs[i].slot].tokens = Append(gsessions[runs[i].slot].tokens, tok)
    <3>1. runs[i].slot \in DOMAIN gsessions
      BY <1>3, <1>5, <2>3
    <3> QED BY <1>12, <2>1, <2>3, <3>1
  <2>4. ASSUME NEW s \in DOMAIN gsessions
        PROVE  gsessions'[s] \in GSession /\ gsessions'[s].seq = gsessions[s].seq
    <3>1. CASE \E i \in fed : ~runs[i].scratch /\ runs[i].slot = s
      <4>1. gsessions'[s] = [gsessions[s] EXCEPT !.tokens = Append(gsessions[s].tokens, tok)]
        BY <1>12, <3>1
      <4> QED BY <2>1, <4>1
    <3>2. CASE ~\E i \in fed : ~runs[i].scratch /\ runs[i].slot = s
      <4>1. gsessions'[s] = gsessions[s]
        BY <1>12, <3>2
      <4> QED BY <1>8, <4>1
    <3> QED BY <3>1, <3>2
  <2> HIDE DEF Q
  <2> QED BY <2>2, <2>3, <2>4
<1>14. mode' # "idle" /\ mode' # "serial" /\ queue' \in Seq(GRequests)
  BY <1>1 DEF GgufInv, GgufTypes
<1>15. CASE /\ kv' = [q \in SeqIds |->
                         IF \E i \in fed : runs[i].seq = q
                         THEN LET i == CHOOSE i \in fed : runs[i].seq = q
                              IN  Decoded(kv, q, Len(runs[i].ids) + runs[i].made, <<tok>>)[q]
                         ELSE kv[q]]
            /\ runs' = [i \in DOMAIN runs |->
                           IF i \in fed THEN [runs[i] EXCEPT !.made = @ + 1, !.row = RowOf(i)]
                           ELSE IF i \in over THEN [runs[i] EXCEPT !.state = "done"]
                           ELSE runs[i]]
            /\ spoilt' = spoilt
  <2>1. \A i \in fed : kv'[runs[i].seq] = Decoded(kv, runs[i].seq, pos(i), <<tok>>)[runs[i].seq]
    <3> TAKE i \in fed
    <3>1. runs[i].seq \in SeqIds
      BY <1>3, <1>4
    <3>2. (CHOOSE j \in fed : runs[j].seq = runs[i].seq) = i
      BY <1>3, <1>6
    <3> QED BY <1>15, <3>1, <3>2
  <2>2. \A q \in SeqIds \ Q : kv'[q] = kv[q]
    BY <1>15
  <2>3. \A i \in fed : /\ kv'[runs[i].seq] \in Seq(GCells)
                       /\ pos(i) = Len(kv[runs[i].seq]) =>
                             /\ kv'[runs[i].seq] = Append(kv[runs[i].seq], tok)
                             /\ Len(kv'[runs[i].seq]) = pos(i) + 1
    <3> TAKE i \in fed
    <3>1. runs[i].seq \in SeqIds /\ pos(i) \in Int
      BY <1>3, <1>4
    <3> HIDE DEF pos
    <3>2. /\ Decoded(kv, runs[i].seq, pos(i), <<tok>>) \in KvType
          /\ pos(i) = Len(kv[runs[i].seq]) =>
                /\ Decoded(kv, runs[i].seq, pos(i), <<tok>>)[runs[i].seq] = Append(kv[runs[i].seq], tok)
                /\ Len(Decoded(kv, runs[i].seq, pos(i), <<tok>>)[runs[i].seq]) = pos(i) + 1
      BY <3>1, TokenAppended
    <3> QED BY <2>1, <3>1, <3>2 DEF KvType
  <2>4. kv' \in KvType
    <3>1. \A q \in SeqIds : kv'[q] \in Seq(GCells)
      BY <1>10, <2>2, <2>3 DEF KvType
    <3>2. DOMAIN kv' = SeqIds /\ kv' = [q \in SeqIds |-> kv'[q]]
      BY <1>15
    <3> QED BY <3>1, <3>2 DEF KvType
  <2>5. OnlyTouched(Q)
    BY <1>12, <1>13, <1>15, <2>2, <2>4 DEF OnlyTouched
  <2>6. \A i \in fed : RowOf(i) \in Int
    <3> TAKE i \in fed
    <3> DEFINE upto == {k \in fed : k <= i}
               all == 1..Len(runs)
    <3>1. IsFiniteSet(all)
      BY <1>2, FS_Interval
    <3>4. upto \in SUBSET all
      BY <1>2, <1>3
    <3> HIDE DEF upto, all
    <3>2. IsFiniteSet(upto)
      BY <3>1, <3>4, FS_Subset
    <3>3. Cardinality(upto) \in Nat
      BY <3>2, FS_CardinalityType
    <3> QED BY <3>3 DEF upto
  <2> HIDE DEF RowOf
  <2>7. ASSUME NEW i \in DOMAIN runs
        PROVE  /\ runs'[i] \in GRun
               /\ runs'[i].slot = runs[i].slot /\ runs'[i].seq = runs[i].seq
               /\ runs'[i].ids = runs[i].ids /\ runs'[i].scratch = runs[i].scratch
               /\ runs'[i].state = "new" => runs[i].state = "new" /\ runs'[i].made = runs[i].made
               /\ i \in fed => runs'[i].made = runs[i].made + 1
               /\ i \notin fed => runs'[i].state # "live"
    <3>1. CASE i \in fed
      <4>1. runs'[i] = [runs[i] EXCEPT !.made = runs[i].made + 1, !.row = RowOf(i)]
        BY <1>15, <3>1
      <4> DEFINE row == RowOf(i)
      <4>2. runs[i] \in GRun /\ runs[i].made + 1 \in Nat /\ row \in Int /\ runs[i].state = "live"
        BY <1>2, <1>3, <1>4, <2>6, <3>1
      <4>3. runs'[i] = [runs[i] EXCEPT !.made = runs[i].made + 1, !.row = row]
        BY <4>1
      <4> HIDE DEF row
      <4>4. runs'[i] \in GRun
        BY <4>2, <4>3 DEF GRun
      <4>5. /\ runs'[i].slot = runs[i].slot /\ runs'[i].seq = runs[i].seq
            /\ runs'[i].ids = runs[i].ids /\ runs'[i].scratch = runs[i].scratch
            /\ runs'[i].state = runs[i].state /\ runs'[i].made = runs[i].made + 1
        BY <4>2, <4>3 DEF GRun
      <4> QED BY <3>1, <4>2, <4>4, <4>5
    <3>2. CASE i \in over
      <4>1. runs'[i] = [runs[i] EXCEPT !.state = "done"]
        BY <1>15, <3>2
      <4> QED BY <1>2, <3>2, <4>1 DEF GRun
    <3>3. CASE i \notin fed /\ i \notin over
      BY <1>2, <1>15, <3>3
    <3> QED BY <3>1, <3>2, <3>3
  <2>8. runs' \in Seq(GRun) /\ DOMAIN runs' = DOMAIN runs
    <3>1. DOMAIN runs' = DOMAIN runs /\ runs' = [i \in DOMAIN runs |-> runs'[i]]
      BY <1>15
    <3>2. runs' \in [1..Len(runs) -> GRun]
      BY <1>2, <2>7, <3>1
    <3> QED BY <1>2, <3>1, <3>2, SeqDef
  <2>9. RunsOwn(runs') /\ Scratches' = Scratches
    BY <2>7, <2>8, SameOwners
  <2>10. seq_used' = HeldSeqs \cup Scratches'
    BY <1>1, <2>9 DEF GgufInv, OneOwner
  <2>11. ASSUME NEW i \in fed, ~runs[i].scratch, runs[i].slot \notin spoilt
         PROVE  /\ gsessions'[runs[i].slot].tokens = kv'[runs[i].seq]
                /\ Len(kv'[runs[i].seq]) = pos(i) + 1
    BY <1>3, <1>7, <1>13, <2>3, <2>11
  <2>12. ASSUME NEW s \in DOMAIN gsessions, gsessions[s].seq \in Q, s \notin spoilt'
         PROVE  IsPrefix(gsessions'[s].tokens, kv'[gsessions[s].seq])
    <3>1. PICK i \in fed : gsessions[s].seq = runs[i].seq
      BY <2>12
    <3>2. ~runs[i].scratch /\ runs[i].slot = s
      BY <1>9, <3>1
    <3>5. spoilt' = spoilt
      BY <1>15
    <3>6. runs[i].slot \notin spoilt
      BY <2>12, <3>2, <3>5
    <3>3. gsessions'[s].tokens = kv'[gsessions[s].seq]
      BY <2>11, <3>1, <3>2, <3>6
    <3>4. IsPrefix(kv'[gsessions[s].seq], kv'[gsessions[s].seq])
      BY <2>3, <3>1, LenProperties DEF IsPrefix
    <3> QED BY <3>3, <3>4
  <2>13. ASSUME NEW i \in DOMAIN runs', Sound(runs'[i], spoilt')
         PROVE  /\ gsessions'[runs'[i].slot].tokens = kv'[runs'[i].seq]
                /\ Len(kv'[runs'[i].seq]) = Len(runs'[i].ids) + runs'[i].made
    <3>4. spoilt' = spoilt
      BY <1>15
    <3>5. runs'[i].state = "live" /\ ~runs'[i].scratch /\ runs'[i].slot \notin spoilt'
      BY <2>13 DEF Sound
    <3>6. i \in DOMAIN runs
      BY <2>8
    <3>7. i \in fed
      BY <2>7, <3>5, <3>6
    <3>8. runs'[i].scratch = runs[i].scratch /\ runs'[i].slot = runs[i].slot
      BY <2>7, <3>6
    <3>9. ~runs[i].scratch
      BY <3>5, <3>8
    <3>1. i \in fed /\ ~runs[i].scratch /\ runs[i].slot \notin spoilt
      BY <3>4, <3>5, <3>7, <3>8, <3>9
    <3>2. runs'[i].made = runs[i].made + 1 /\ runs'[i].ids = runs[i].ids
      BY <2>7, <2>8, <3>1
    <3>3. pos(i) + 1 = Len(runs[i].ids) + (runs[i].made + 1)
      BY <1>3, <1>4, <3>1
    <3> QED BY <2>7, <2>8, <2>11, <3>1, <3>2, <3>3
  <2> QED BY <1>1, <1>14, <2>5, <2>9, <2>10, <2>12, <2>13, CallStepKeeps
<1>16. CASE /\ runs' = [i \in DOMAIN runs |-> [runs[i] EXCEPT !.state = "done"]]
            /\ spoilt' = spoilt \cup {runs[i].slot : i \in {k \in fed : ~runs[k].scratch}}
            /\ kv' = kv
  <2>1. OnlyTouched(Q)
    BY <1>10, <1>12, <1>13, <1>16 DEF OnlyTouched
  <2>2. ASSUME NEW i \in DOMAIN runs
        PROVE  /\ runs'[i] \in GRun /\ runs'[i].slot = runs[i].slot /\ runs'[i].seq = runs[i].seq
               /\ runs'[i].scratch = runs[i].scratch /\ runs'[i].state = "done"
    BY <1>2, <1>16 DEF GRun
  <2>3. runs' \in Seq(GRun) /\ DOMAIN runs' = DOMAIN runs
    <3>1. DOMAIN runs' = DOMAIN runs /\ runs' = [i \in DOMAIN runs |-> runs'[i]]
      BY <1>16
    <3>2. runs' \in [1..Len(runs) -> GRun]
      BY <1>2, <2>2, <3>1
    <3> QED BY <1>2, <3>1, <3>2, SeqDef
  <2>4. RunsOwn(runs') /\ Scratches' = Scratches
    BY <2>2, <2>3, SameOwners
  <2>5. seq_used' = HeldSeqs \cup Scratches'
    BY <1>1, <2>4 DEF GgufInv, OneOwner
  <2>6. \A s \in DOMAIN gsessions : gsessions[s].seq \in Q => s \in spoilt'
    BY <1>9, <1>16
  <2>7. \A i \in DOMAIN runs' : ~Sound(runs'[i], spoilt')
    BY <2>2, <2>3 DEF Sound
  <2> QED BY <1>1, <1>14, <2>1, <2>4, <2>5, <2>6, <2>7, CallStepKeeps
<1>17. \/ /\ kv' = [q \in SeqIds |->
                       IF \E i \in fed : runs[i].seq = q
                       THEN LET i == CHOOSE i \in fed : runs[i].seq = q
                            IN  Decoded(kv, q, Len(runs[i].ids) + runs[i].made, <<tok>>)[q]
                       ELSE kv[q]]
          /\ runs' = [i \in DOMAIN runs |->
                         IF i \in fed THEN [runs[i] EXCEPT !.made = @ + 1, !.row = RowOf(i)]
                         ELSE IF i \in over THEN [runs[i] EXCEPT !.state = "done"]
                         ELSE runs[i]]
          /\ spoilt' = spoilt
       \/ /\ runs' = [i \in DOMAIN runs |-> [runs[i] EXCEPT !.state = "done"]]
          /\ spoilt' = spoilt \cup {runs[i].slot : i \in {k \in fed : ~runs[k].scratch}}
          /\ kv' = kv
  BY DEF JointStep
<1> QED BY <1>15, <1>16, <1>17

LEMMA GgufInitially == GgufInit => GgufInv
<1> SUFFICES ASSUME GgufInit PROVE GgufInv
  OBVIOUS
<1>1. runs = <<>> /\ queue = <<>> /\ seq_used = {} /\ DOMAIN gsessions = {} /\ DOMAIN runs = {}
  BY DEF GgufInit
<1>2. kv \in [SeqIds -> Seq(GCells)]
  BY EmptySeq DEF GgufInit
<1>3. <<>> \in Seq(GRun) /\ <<>> \in Seq(GRequests) /\ Len(<<>>) = 0
  BY EmptySeq
<1>4. GgufTypes
  BY <1>1, <1>2, <1>3 DEF GgufTypes
<1>5. OneOwner
  <2>1. leaked = {}
    BY DEF GgufInit
  <2> QED BY <1>1, <2>1 DEF OneOwner, HeldSeqs, OwnedSeqs, Scratches
<1>6. CachedAsBelieved
  BY <1>1 DEF CachedAsBelieved
<1> QED BY <1>4, <1>5, <1>6 DEF GgufInv

\* score(): the sequence it keeps was nobody's, and neither was the one it wipes.
LEMMA ScoreStep ==
    ASSUME GgufInv, GgufScore
    PROVE  IF trespass' THEN leaked' # {} ELSE GgufInv'
<1> DEFINE first == ClaimSeq(seq_used)
           second == ClaimSeq(seq_used \cup {first})
<1>1. /\ mode = "idle" /\ runs = <<>> /\ runs' = <<>> /\ UNCHANGED <<gsessions, queue, spoilt, mode>>
      /\ queue \in Seq(GRequests) /\ kv \in KvType
  BY DEF GgufScore, GgufInv, GgufTypes, KvType
<1>2. seq_used = OwnedSeqs \cup leaked /\ leaked \subseteq SeqIds /\ leaked \cap OwnedSeqs = {}
  BY <1>1 DEF GgufInv, OneOwner, HeldSeqs, Scratches
<1>3. IF first < 0
      THEN trespass' /\ leaked' = leaked
      ELSE /\ kv' = IF second < 0 THEN [q \in SeqIds |-> <<>>] ELSE [kv EXCEPT ![second] = <<>>]
           /\ seq_used' = seq_used \cup {first} /\ leaked' = leaked \cup {first}
           /\ trespass' = (trespass \/ second < 0)
  BY DEF GgufScore
<1>4. Free(seq_used) # {} => first \in SeqIds /\ first \notin seq_used /\ ~(first < 0)
  BY ClaimSeqFree
<1>5. Free(seq_used) = {} => leaked # {}
  BY <1>1, SequenceToSpare DEF GgufInv
<1>6. Free(seq_used) = {} => first = -1
  BY DEF ClaimSeq
<1>7. Free(seq_used \cup {first}) = {} => second = -1
  BY DEF ClaimSeq
<1>8. Free(seq_used \cup {first}) # {} => second \in SeqIds /\ second \notin seq_used
  <2>1. Free(seq_used \cup {first}) # {} =>
            second \in SeqIds /\ second \notin seq_used \cup {first}
    BY ClaimSeqFree
  <2> HIDE DEF first, second
  <2> QED BY <2>1
<1> HIDE DEF first, second
<1>9. CASE first < 0
  BY <1>3, <1>4, <1>5, <1>9
<1>10. CASE ~(first < 0)
  <2>1. Free(seq_used) # {}
    BY <1>6, <1>10
  <2>2. leaked' = leaked \cup {first} /\ seq_used' = seq_used \cup {first}
    BY <1>3, <1>10
  <2>3. CASE trespass'
    BY <2>2, <2>3
  <2>4. CASE ~trespass'
    <3>1. kv' = [kv EXCEPT ![second] = <<>>] /\ second \in SeqIds /\ second \notin seq_used
      <4>1. ~(second < 0)
        BY <1>3, <1>10, <2>4
      <4>2. Free(seq_used \cup {first}) # {}
        BY <1>7, <4>1
      <4> QED BY <1>3, <1>8, <1>10, <4>1, <4>2
    <3>2. kv' \in KvType /\ \A q \in SeqIds \ {second} : kv'[q] = kv[q]
      BY <1>1, <3>1, EmptySeq DEF KvType
    <3>3. OwnedSeqs' = OwnedSeqs /\ HeldSeqs' = HeldSeqs \cup {first}
      BY <1>1, <2>2 DEF HeldSeqs, OwnedSeqs
    <3>4. seq_used' = HeldSeqs' /\ leaked' \subseteq SeqIds /\ leaked' \cap OwnedSeqs' = {}
      BY <1>2, <1>4, <2>1, <2>2, <3>3 DEF HeldSeqs
    <3>5. \A s \in DOMAIN gsessions : gsessions[s].seq \in SeqIds \ {second}
      BY <1>2, <3>1 DEF OwnedSeqs, GgufInv, GgufTypes, GSession
    <3>6. GgufInv'
      BY <1>1, <3>2, <3>4, <3>5, IdleStepKeeps DEF GgufInv, GgufTypes, OneOwner, CachedAsBelieved
    <3> QED BY <2>4, <3>6
  <2> QED BY <2>3, <2>4
<1> QED BY <1>9, <1>10

\* embed(): sequence 0 is wiped; where nobody has it, that harms nobody.
LEMMA EmbedStep ==
    ASSUME GgufInv, NEW ids \in GPrompts, GgufEmbed(ids)
    PROVE  IF trespass' THEN Embeddings ELSE GgufInv'
<1>1. /\ mode = "idle" /\ runs = <<>> /\ runs' = <<>> /\ Embeddings
      /\ UNCHANGED <<gsessions, queue, spoilt, mode, seq_used, leaked>>
      /\ queue \in Seq(GRequests) /\ kv \in KvType
      /\ trespass' = (trespass \/ 0 \in seq_used)
  BY DEF GgufEmbed, GgufInv, GgufTypes, KvType
<1>2. PICK n \in 0..Len(ids) : kv' = [kv EXCEPT ![0] = SubSeq(ids, 1, n)]
  BY DEF GgufEmbed
<1>3. seq_used = HeldSeqs /\ leaked \subseteq SeqIds /\ leaked \cap OwnedSeqs = {}
  BY <1>1 DEF GgufInv, OneOwner, Scratches
<1>4. CASE trespass'
  BY <1>1, <1>4
<1>5. CASE ~trespass'
  <2>1. 0 \notin seq_used
    BY <1>1, <1>5
  <2>2. SubSeq(ids, 1, n) \in Seq(GCells)
    <3>1. ids \in Seq(GTokens) /\ Len(ids) \in Nat
      BY PromptIsTokens
    <3>2. \A i \in 1..n : ids[i] \in GCells
      BY <3>1, ElementOfSeq DEF GCells
    <3> QED BY <3>1, <3>2, SubSeqProperties
  <2>3. kv' \in KvType /\ \A q \in SeqIds \ {0} : kv'[q] = kv[q]
    BY <1>1, <1>2, <2>2 DEF KvType
  <2>4. OwnedSeqs' = OwnedSeqs /\ HeldSeqs' = HeldSeqs
    BY <1>1 DEF HeldSeqs, OwnedSeqs
  <2>5. \A s \in DOMAIN gsessions : gsessions[s].seq \in SeqIds \ {0}
    BY <1>3, <2>1 DEF HeldSeqs, OwnedSeqs, GgufInv, GgufTypes, GSession
  <2>6. GgufInv'
    BY <1>1, <1>3, <2>3, <2>4, <2>5, IdleStepKeeps
       DEF GgufInv, GgufTypes, OneOwner, CachedAsBelieved
  <2> QED BY <1>5, <2>6
<1> QED BY <1>4, <1>5

\* Where a call takes sequence 0 for want of a free one, one was leaked before.
LEMMA BorrowedForWant ==
    ASSUME GgufInv, ~trespass, SerialBegin, trespass'
    PROVE  leaked' # {}
<1>1. runs = <<>> /\ leaked' = leaked
  BY DEF SerialBegin
<1>2. ClaimSeq(seq_used) < 0
  BY DEF SerialBegin
<1>3. Free(seq_used) = {}
  BY <1>2, ClaimSeqFree
<1> QED BY <1>1, <1>3, SequenceToSpare DEF GgufInv

\* What holds of a call even after a trespass: it ends with nothing in progress.
Calls == (mode # "serial" => queue = <<>>) /\ (mode = "idle" => runs = <<>>)

GgufSafe ==
    /\ Calls
    /\ IF trespass THEN Embeddings \/ leaked # {} ELSE GgufInv

LEMMA CallsStep == Calls /\ [GgufNext]_gvars => Calls'
<1> SUFFICES ASSUME Calls, [GgufNext]_gvars PROVE Calls'
  OBVIOUS
<1>1. CASE GgufUnload \/ GgufScore \/ \E s \in Voices : GgufOpen(s) \/ GgufClose(s) \/ GgufReset(s)
  BY <1>1 DEF GgufUnload, GgufScore, GgufOpen, GgufClose, GgufReset, Calls
<1>2. ASSUME NEW requests \in Batches, GenerateMany(requests) PROVE Calls'
  BY <1>2 DEF GenerateMany, FallBack, Calls
<1>3. CASE PrefillNext
  BY <1>3 DEF PrefillNext, Calls
<1>4. CASE SerialEnd \/ JointEnd \/ SerialDone \/ StartJoint
  BY <1>4 DEF SerialEnd, JointEnd, SerialDone, StartJoint, Calls
<1>5. ASSUME NEW fed \in SUBSET Drawing, NEW tok \in GVocab, JointStep(fed, tok) PROVE Calls'
  BY <1>5 DEF JointStep, Calls
<1>6. CASE SerialBegin
  BY <1>6 DEF SerialBegin, Calls
<1>7. ASSUME NEW tok \in GVocab, SerialToken(tok) PROVE Calls'
  BY <1>7 DEF SerialToken, Calls
<1>8. ASSUME NEW ids \in GPrompts, GgufEmbed(ids) PROVE Calls'
  BY <1>8 DEF GgufEmbed, Calls
<1>9. CASE UNCHANGED gvars
  BY <1>9 DEF gvars, Calls
<1> QED BY <1>1, <1>2, <1>3, <1>4, <1>5, <1>6, <1>7, <1>8, <1>9 DEF GgufNext

\* Unloading makes good whatever was done to the sequences.
LEMMA UnloadStep == Calls /\ GgufUnload => GgufInv' /\ ~trespass'
<1> SUFFICES ASSUME Calls, GgufUnload PROVE GgufInv' /\ ~trespass'
  OBVIOUS
<1>1. /\ runs' = <<>> /\ queue' = <<>> /\ DOMAIN gsessions' = {} /\ seq_used' = {}
      /\ leaked' = {} /\ kv' = [q \in SeqIds |-> <<>>] /\ ~trespass'
  BY DEF Calls, GgufUnload
<1>2. kv' \in KvType /\ queue' \in Seq(GRequests)
  BY <1>1, EmptySeq DEF KvType
<1>3. OwnedSeqs' = {} /\ HeldSeqs' = {}
  BY <1>1 DEF OwnedSeqs, HeldSeqs
<1> QED BY <1>1, <1>2, <1>3, IdleStepKeeps

\* Nothing but unloading takes a trespass or a leak back.
LEMMA TrespassStays ==
    ASSUME [GgufNext]_gvars, ~GgufUnload
    PROVE  (trespass => trespass') /\ leaked \subseteq leaked'
<1>1. CASE \E s \in Voices : GgufOpen(s) \/ GgufClose(s) \/ GgufReset(s)
  BY <1>1 DEF GgufOpen, GgufClose, GgufReset
<1>2. CASE \E requests \in Batches : GenerateMany(requests)
  BY <1>2 DEF GenerateMany
<1>3. CASE PrefillNext \/ SerialEnd \/ JointEnd \/ SerialDone \/ StartJoint
  BY <1>3 DEF PrefillNext, SerialEnd, JointEnd, SerialDone, StartJoint
<1>4. ASSUME NEW fed \in SUBSET Drawing, NEW tok \in GVocab, JointStep(fed, tok)
      PROVE  (trespass => trespass') /\ leaked \subseteq leaked'
  <2>1. trespass' = trespass /\ leaked' = leaked
    BY <1>4 DEF JointStep
  <2> QED BY <2>1
<1>5. CASE SerialBegin
  BY <1>5 DEF SerialBegin
<1>6. CASE \E tok \in GVocab : SerialToken(tok)
  BY <1>6 DEF SerialToken
<1>7. CASE \E ids \in GPrompts : GgufEmbed(ids)
  BY <1>7 DEF GgufEmbed
<1>8. CASE UNCHANGED gvars
  BY <1>8 DEF gvars
<1>9. CASE GgufScore
  <2>1. CASE ClaimSeq(seq_used) < 0
    <3>1. trespass' = TRUE /\ leaked' = leaked
      BY <1>9, <2>1 DEF GgufScore
    <3> QED BY <3>1
  <2>2. CASE ~(ClaimSeq(seq_used) < 0)
    <3>1. PICK short \in BOOLEAN : trespass' = (trespass \/ short)
      BY <1>9, <2>2 DEF GgufScore
    <3>2. leaked \subseteq leaked'
      BY <1>9, <2>2 DEF GgufScore
    <3> QED BY <3>1, <3>2
  <2> QED BY <2>1, <2>2
<1> QED BY <1>1, <1>2, <1>3, <1>4, <1>5, <1>6, <1>7, <1>8, <1>9 DEF GgufNext

LEMMA TrespassedStep ==
    ASSUME trespass, Embeddings \/ leaked # {}, [GgufNext]_gvars, ~GgufUnload
    PROVE  trespass' /\ (Embeddings \/ leaked' # {})
  BY TrespassStays

\* As long as no call has worked on a sequence that is not its own.
LEMMA SoundStep ==
    ASSUME GgufInv, ~trespass, [GgufNext]_gvars, ~GgufUnload
    PROVE  IF trespass' THEN Embeddings \/ leaked' # {} ELSE GgufInv'
<1> DEFINE Goal == IF trespass' THEN Embeddings \/ leaked' # {} ELSE GgufInv'
<1>1. CASE \E s \in Voices : GgufOpen(s) \/ GgufClose(s) \/ GgufReset(s)
  <2>1. trespass' = trespass
    BY <1>1 DEF GgufOpen, GgufClose, GgufReset
  <2> QED BY <1>1, <2>1, GgufSessionStep
<1>2. ASSUME NEW requests \in Batches, GenerateMany(requests) PROVE Goal
  <2>1. trespass' = trespass
    BY <1>2 DEF GenerateMany
  <2> QED BY <1>2, <2>1, GenerateManyStep
<1>3. CASE PrefillNext
  <2>1. trespass' = trespass
    BY <1>3 DEF PrefillNext
  <2> QED BY <1>3, <2>1, PrefillNextStep
<1>4. CASE SerialEnd \/ JointEnd \/ SerialDone \/ StartJoint
  <2>1. trespass' = trespass
    BY <1>4 DEF SerialEnd, JointEnd, SerialDone, StartJoint
  <2> QED BY <1>4, <2>1, CallEndStep
<1>5. ASSUME NEW fed \in SUBSET Drawing, NEW tok \in GVocab, JointStep(fed, tok) PROVE Goal
  <2>1. trespass' = trespass
    BY <1>5 DEF JointStep
  <2> QED BY <1>5, <2>1, JointStepStep
<1>6. CASE SerialBegin
  BY <1>6, SerialBeginStep, BorrowedForWant
<1>7. ASSUME NEW tok \in GVocab, SerialToken(tok) PROVE Goal
  <2>1. trespass' = trespass
    BY <1>7 DEF SerialToken
  <2> QED BY <1>7, <2>1, SerialTokenStep
<1>8. CASE GgufScore
  BY <1>8, ScoreStep
<1>9. ASSUME NEW ids \in GPrompts, GgufEmbed(ids) PROVE Goal
  BY <1>9, EmbedStep
<1>10. CASE UNCHANGED gvars
  <2>1. trespass' = trespass
    BY <1>10 DEF gvars
  <2>2. GgufInv'
    BY <1>10 DEF gvars, GgufInv, GgufTypes, OneOwner, HeldSeqs, OwnedSeqs, Scratches, CachedAsBelieved
  <2> QED BY <2>1, <2>2
<1> HIDE DEF Goal
<1>11. Goal
  BY <1>1, <1>2, <1>3, <1>4, <1>5, <1>6, <1>7, <1>8, <1>9, <1>10 DEF GgufNext, Goal
<1> QED BY <1>11 DEF Goal

LEMMA GgufSafeInitially == GgufInit => GgufSafe
<1> SUFFICES ASSUME GgufInit PROVE GgufSafe
  OBVIOUS
<1>1. Calls /\ ~trespass
  BY DEF GgufInit, Calls
<1> QED BY <1>1, GgufInitially DEF GgufSafe

LEMMA GgufStep == GgufSafe /\ [GgufNext]_gvars => GgufSafe'
<1> SUFFICES ASSUME GgufSafe, [GgufNext]_gvars PROVE GgufSafe'
  OBVIOUS
<1>1. Calls'
  BY CallsStep DEF GgufSafe
<1>2. CASE GgufUnload
  BY <1>1, <1>2, UnloadStep DEF GgufSafe
<1>3. CASE ~GgufUnload
  <2>1. IF trespass' THEN Embeddings \/ leaked' # {} ELSE GgufInv'
    BY <1>3, TrespassedStep, SoundStep DEF GgufSafe
  <2> QED BY <1>1, <2>1 DEF GgufSafe
<1> QED BY <1>2, <1>3

LEMMA GgufSound == GgufSafe => SequencesSound
<1> SUFFICES ASSUME GgufSafe PROVE SequencesSound
  OBVIOUS
<1>1. ASSUME ~trespass PROVE PoolBalanced
  <2> SUFFICES ASSUME mode = "idle"
               PROVE  /\ seq_used = OwnedSeqs \cup leaked /\ OwnedSeqs \cap leaked = {}
                      /\ \A s, t \in DOMAIN gsessions : gsessions[s].seq = gsessions[t].seq => s = t
    BY DEF PoolBalanced
  <2>1. GgufInv
    BY <1>1 DEF GgufSafe
  <2>2. Scratches = {}
    BY <2>1 DEF GgufInv, GgufTypes, Scratches
  <2> QED BY <2>1, <2>2 DEF GgufInv, OneOwner, HeldSeqs
<1>2. ASSUME ~trespass PROVE TokensAreCached
  BY <1>2 DEF GgufSafe, GgufInv, CachedAsBelieved, TokensAreCached
<1> QED BY <1>1, <1>2 DEF SequencesSound, GgufSafe

\* The GGUF backend (backend_gguf.cpp: claim_seq, generate, generate_many) gives no
\* sequence away that a session owns, takes every one back and reuses only cells that
\* hold what the session believes, until a call works on a sequence it has not claimed;
\* and that nobody does but embed() and, once score() has leaked a sequence, whoever
\* finds them all taken: for every number of voices and sequences, batch, prompt and
\* limit, and wherever a decode fails or a call is cancelled.
THEOREM GgufSequencesSound == GgufSpec => []SequencesSound
  BY GgufSafeInitially, GgufStep, GgufSound, PTL DEF GgufSpec
=============================================================================
