------------------------------ MODULE MCSupport -------------------------------
(* What stands behind an answer: the long-term memory, the index of a          *)
(* repository with what is cut, walked and found in it, the model's files and  *)
(* the numbers in them, the tool calls of a reply and the processes they       *)
(* start, and the texts on their way into tokens and training.  None of these  *)
(* shares state with another, so a behaviour follows one of them, chosen at    *)
(* the start, and leaves the variables of the others alone.                    *)
EXTENDS Memory, Chunker, CodebaseIndex, IgnoreRules, Retrieval, ModelFiles, QuantKernels,
        ToolCalls, ToolProcesses, WebText, Tokenizer, TrainingData, SelfGen, MergePipeline,
        ShapedText

CONSTANTS dashboard, cli, name, project   \* memory: programs and texts

VARIABLE part       \* the part this behaviour follows

TwoPrograms == {dashboard, cli}
TwoTexts    == {name, project}

\* Neither the texts nor the programs are told apart.
Alike == Permutations(TwoPrograms) \cup Permutations(TwoTexts)

MCFiles == {1, 2}
\* What is there at first; an edit makes any file any other.
FirstDisks ==
    {d \in [Files -> {Missing} \cup [time : {0}, kind : FileKinds]] :
        d[1].kind \in {"none", "long"} /\ d[2].kind \in {"tiny", "long"}}
MCEmbedders == {"hash256", "hash128"}

\* Chunks named as the query, so in another case, qualified, like it and otherwise; long
\* files and short; excerpts that fit at once and that are cut between lines.
MCTypes ==
    <<[path |-> "p", name |-> "same", in_path |-> FALSE, long |-> FALSE, definition |-> TRUE,
       lines |-> <<30>>],
      [path |-> "p", name |-> "case", in_path |-> TRUE, long |-> TRUE, definition |-> FALSE,
       lines |-> <<100, 30, 100, 30, 100>>],
      [path |-> "q", name |-> "tail", in_path |-> FALSE, long |-> FALSE, definition |-> TRUE,
       lines |-> <<60, 60, 60>>],
      [path |-> "q", name |-> "part", in_path |-> TRUE, long |-> FALSE, definition |-> FALSE,
       lines |-> <<60, 60, 60>>],
      [path |-> "p", name |-> "none", in_path |-> FALSE, long |-> FALSE, definition |-> TRUE,
       lines |-> <<100, 30, 100, 30, 100>>],
      [path |-> "p", name |-> "none", in_path |-> TRUE, long |-> TRUE, definition |-> FALSE,
       lines |-> <<30>>]>>

\* A file of the first versions, one with grouped heads and a head of its own, one
\* with everything the first configurations had, and one that no model has.
Legacy == [layers |-> 1, embd |-> 48, heads |-> 4, ctx |-> 32, vocab |-> 260]
Small == [layers |-> 1, embd |-> 64, heads |-> 4, kv |-> 2, ctx |-> 32, vocab |-> 260,
          version |-> 2, tied |-> FALSE]
Mixed == [layers |-> 2, embd |-> 64, heads |-> 2, ctx |-> 32, vocab |-> 300, version |-> 2,
          norm |-> "layer", ffn |-> "swiglu", bias |-> TRUE, hidden |-> 100]
Bad == [layers |-> 1, embd |-> 48, heads |-> 5, ctx |-> 32, vocab |-> 260]
MCConfigs == {Legacy, Small, Mixed, Bad}
MCGrowth == <<<<1, 1>>, <<2, 2>>>>
MCPolicies ==
    {[last |-> 1, embeddings |-> FALSE, head |-> TRUE, final |-> TRUE],
     [last |-> 2, embeddings |-> FALSE, head |-> FALSE, final |-> TRUE],
     [last |-> -1, embeddings |-> TRUE, head |-> TRUE, final |-> FALSE]}
MCEncodings == {<<"q4", "q8">>, <<"f32", "f16">>}

MCNibbles == {<<-8, -8, -8, -8>>, <<7, 7, 7, 7>>, <<-8, 7, 0, -1>>, <<3, -8, -5, 7>>}
MCBytes == {<<-127, -127, -127, -127>>, <<127, 127, 127, 127>>, <<-127, 127, 0, -1>>,
            <<3, -8, -5, 7>>}
MCActs == {<<-127, -127, -127, -127>>, <<127, 127, 127, 127>>, <<3, -9, 15, 127>>}
MCSamples == {<<0, 0, 0, 0>>, <<8, -8, 8, 8>>, <<1, 7, -5, 2>>, <<3, -3, 0, -1>>, <<6, 5, 4, -3>>}
MCMantissas == {0, 1, 2, 3, 511, 512, 513, 1022, 1023}
MCTails == {0, 1, 4095, 4096, 8191}

\* Every two words of four letters, one of them twice, the other once or three times; a
\* tokenizer whose later merges build on its first.
MCCorpusWords == [1..4 -> {"a", "b"}]
MCCorpora ==
    {[w \in {x, y} |-> IF w = x THEN 2 ELSE f] : x \in MCCorpusWords, y \in MCCorpusWords, f \in {1, 3}}
MCTypedMerges == <<<<1, 2>>, <<5, 1>>, <<5, 9>>>>

MCPools == <<"fa", "en">>

\* Results for one page or several, that say the same in nearly all words or do not.
MCFound ==
    {[url |-> [host |-> "a", www |-> FALSE, path |-> p, slash |-> FALSE, query |-> q],
      said |-> s, score |-> c] :
        p \in {"p", "q"}, q \in {<<>>, <<"utm", "id">>}, s \in {1..5, 1..6}, c \in {3, 20}}
    \cup {[url |-> [host |-> "b", www |-> w, path |-> "p", slash |-> w, query |-> <<"utm">>],
           said |-> IF w THEN {} ELSE 1..7, score |-> 4] : w \in BOOLEAN}
MCSentences ==
    {[size |-> 3, score |-> 2], [size |-> 1, score |-> 2], [size |-> 6, score |-> 5],
     [size |-> 9, score |-> 9], [size |-> 2, score |-> 1]}

\* Three deltas any two of which conflict.
MCDeltas == {<<-1, 2, 0>>, <<0, -1, 1>>, <<2, -1, -1>>}
MCPassing == <<2, 1, 2>>
MCImportance == <<3, 2, 1>>

allVars == <<part, vars, cvars, xvars, iVars, qvars, fvars, kvars, tcvars, procVars, zvars,
             dvars, gvars, mvars, svars, wvars>>

Parts == {"memory", "chunks", "index", "ignore", "retrieval", "files", "kernels", "calls",
          "processes", "tokens", "data", "rounds", "merge", "lines", "web"}

MCInit ==
    /\ part \in Parts
    /\ Init /\ RetrievalInit /\ FilesInit /\ KernelsInit /\ ToolsInit /\ DataInit /\ SelfGenInit
    /\ MergeInit /\ ShapedInit /\ WebTextInit
    /\ IF part = "chunks" THEN ChunkerInit ELSE language = "brace" /\ lines = <<>>
    /\ IF part = "index" THEN CodebaseInit /\ disk \in FirstDisks
       ELSE CodebaseInit /\ disk = [p \in Files |-> Missing]
    /\ IF part = "ignore" THEN IgnoreInit
       ELSE IgnoreInit /\ second = [dir |-> <<>>, line |-> <<>>]
    /\ IF part = "processes" THEN ProcInit ELSE ProcInit /\ tool = "shell"
    /\ IF part = "tokens" THEN TokenizerInit ELSE corpus = <<>> /\ TokenizerInit

Others(p) ==
    /\ part = p /\ UNCHANGED part
    /\ p # "memory" => UNCHANGED vars
    /\ p # "chunks" => UNCHANGED cvars
    /\ p # "index" => UNCHANGED xvars
    /\ p # "ignore" => UNCHANGED iVars
    /\ p # "retrieval" => UNCHANGED qvars
    /\ p # "files" => UNCHANGED fvars
    /\ p # "kernels" => UNCHANGED kvars
    /\ p # "calls" => UNCHANGED tcvars
    /\ p # "processes" => UNCHANGED procVars
    /\ p # "tokens" => UNCHANGED zvars
    /\ p # "data" => UNCHANGED dvars
    /\ p # "rounds" => UNCHANGED gvars
    /\ p # "merge" => UNCHANGED mvars
    /\ p # "lines" => UNCHANGED svars
    /\ p # "web" => UNCHANGED wvars

\* One program after the other uses the memory.
MemoryStep == Others("memory") /\ SoleNext
ChunkStep == Others("chunks") /\ ChunkerNext
IndexStep == Others("index") /\ CodebaseNext
IgnoreStep == Others("ignore") /\ IgnoreNext
RetrievalStep == Others("retrieval") /\ RetrievalNext
FilesStep == Others("files") /\ FilesNext
KernelStep == Others("kernels") /\ KernelsNext
CallStep == Others("calls") /\ ToolsNext
ProcessStep == Others("processes") /\ ProcNext
TokenStep == Others("tokens") /\ TokenizerNext
DataStep == Others("data") /\ DataNext
RoundStep == Others("rounds") /\ SelfGenNext
MergeStep == Others("merge") /\ MergeNext
LineStep == Others("lines") /\ ShapedNext
WebStep == Others("web") /\ WebTextNext

MCSpec ==
    /\ MCInit
    /\ [][\/ MemoryStep \/ ChunkStep \/ IndexStep \/ IgnoreStep
          \/ RetrievalStep \/ FilesStep \/ KernelStep \/ CallStep \/ ProcessStep
          \/ TokenStep \/ DataStep \/ RoundStep \/ MergeStep \/ LineStep \/ WebStep]_allVars

\* The parts behind an answer that no theorem covers in full, each with what must hold in
\* it.  Chunker, IgnoreRules and Retrieval: a source file is cut at its definitions, and a
\* brace in a string or a comment of it is not taken for one of the code; the files the rules
\* leave in are indexed; what is asked for by name is found and fits the model's window.
\* ToolCalls, WebText and ShapedText: the calls of a reply are those its text spells; what
\* came from the web is read whole and in order of what it is worth; what is shown is shown
\* in the right order, by a picture of its own.  QuantKernels, MergePipeline, Tokenizer and
\* TrainingData: encodings are close to what they stand for; what trainers propose is merged
\* without one working against another; a text becomes the same tokens in training and in
\* use; and what is trained on is not what is judged on.
PartsSound ==
    /\ part = "chunks" => CutsAtDefinitions /\ BracesOfTheCode
    /\ part = "ignore" => GlobsBySegments /\ IndexedAsRuled
    /\ part = "retrieval" => FindsAndFits
    /\ part = "calls" => CallsAsWritten
    /\ part = "web" => WebTextSound
    /\ part = "lines" => ShapedSound
    /\ part = "kernels" => EncodingIsClose /\ HalvesAgree
    /\ part = "merge" => MergeSound
    /\ part = "tokens" => TokensSound
    /\ part = "data" => DataSound
=============================================================================
