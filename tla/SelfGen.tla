------------------------------- MODULE SelfGen --------------------------------
(* The trainer that learns from what the model itself writes                   *)
(* (train_selfgen.cpp): prompts cut out of the corpora, rounds of candidates   *)
(* from one corpus after the other, a judge, the choice of those that are      *)
(* kept, and the buffer the training reads.                                    *)
(*                                                                             *)
(* A candidate's text stands for its hash; of the bands of perplexity, the     *)
(* repetitions, the checks of Python and of foreign letters there is whether   *)
(* it passes them.  A behaviour runs rounds, or cuts prompts out of a corpus.  *)
EXTENDS Integers, Sequences, SequencesExt, FiniteSetsExt

CONSTANTS
    Pools,              \* the languages of the pools of prompts, one per source
    SamplesPerRound,
    KeepBest,           \* candidates kept of a round
    BufferCap,
    HashCap,            \* accepted texts remembered
    TakeMax,            \* samples of the buffer a round trains on
    Answers,            \* model bound: texts the model writes in a language
    Scores,             \* model bound: their scores
    MaxSampleRounds,    \* model bound
    MaxSpan,            \* tokens a prompt reaches behind its <|user|> at most
    MaxSeed             \* model bound: tokens of the corpus prompts are cut out of

ASSUME SelfGenAssumption ==
    /\ {SamplesPerRound, KeepBest, BufferCap, HashCap, TakeMax, MaxSpan} \subseteq Nat \ {0}
    /\ Pools \in Seq(ToSet(Pools)) /\ Pools # <<>>
    /\ Scores \subseteq Int /\ {MaxSampleRounds, MaxSeed} \subseteq Nat

VARIABLES
    seedText,       \* a corpus, and the end of its training part
    seedEnd,
    phase,          \* "idle", "generate", "train"
    sampleRound,    \* rounds begun
    rr,             \* the pool the next round begins with
    cands,          \* candidates of this round, with what the judge said
    halted,         \* the trainer was told to stop in this round
    hashes,         \* texts accepted so far
    buffer,         \* accepted samples
    batch,          \* those trained on
    accepted,       \* history: all accepted samples
    since,          \* history: texts and rounds accepted since the memory of them was
                    \* last emptied
    asked           \* history: candidates asked of each pool, <<>> once a round was stopped

gvars == <<seedText, seedEnd, phase, sampleRound, rr, cands, halted, hashes, buffer, batch,
           accepted, since, asked>>
seedVars == <<seedText, seedEnd>>

Languages == ToSet(Pools)

-----------------------------------------------------------------------------
(* build_prompt_pools()                                                        *)

SeedTokens == {"user", "assistant", "word"}

TypeSeed ==
    /\ sampleRound = 0 /\ Len(seedText) < MaxSeed
    /\ \E t \in SeedTokens : seedText' = Append(seedText, t)
    /\ seedEnd' \in 0..Len(seedText')
    /\ UNCHANGED <<phase, sampleRound, rr, cands, halted, hashes, buffer, batch, accepted, since,
                   asked>>

\* Where the scan from the <|user|> at i stops: at <|assistant|>, at the limit of the
\* span, or at the end of the training part.
SpanEnd(i) ==
    Min({i + MaxSpan, seedEnd + 1} \cup
        {j \in (i + 1)..seedEnd : seedText[j] = "assistant"})

\* At the token i: what no <|assistant|> ends is passed over, but not what may begin
\* inside it; the scan goes on behind a span.
ScanToken(scanned, i) ==
    LET j == SpanEnd(i)
    IN  IF i < scanned.next \/ seedText[i] # "user" \/ j > seedEnd \/ seedText[j] # "assistant"
        THEN scanned
        ELSE [found |-> IF j - i + 1 >= 3 THEN Append(scanned.found, <<i, j>>) ELSE scanned.found,
              next  |-> j + 1]

\* The spans of the training part, first and last token.
Spans ==
    LET scan[i \in 0..seedEnd] ==
            IF i = 0 THEN [found |-> <<>>, next |-> 1] ELSE ScanToken(scan[i - 1], i)
    IN  scan[seedEnd].found

-----------------------------------------------------------------------------
(* round()                                                                     *)

StartSamples ==
    /\ phase = "idle" /\ seedText = <<>> /\ sampleRound < MaxSampleRounds
    /\ phase' = "generate" /\ sampleRound' = sampleRound + 1
    /\ cands' = <<>> /\ halted' = FALSE
    /\ UNCHANGED <<seedVars, rr, hashes, buffer, batch, accepted, since, asked>>

\* pick_pool(), balanced.
PoolOf(i) == ((rr + i) % Len(Pools)) + 1

\* judge(): the texts of this round are not among those it knows yet.
Verdict(passes, text) ==
    IF ~passes THEN "filtered" ELSE IF text \in hashes THEN "duplicate" ELSE ""

\* The model writes, as it stands now, any text, and of any quality.
Generate ==
    /\ phase = "generate" /\ ~halted /\ Len(cands) < SamplesPerRound
    /\ LET pool == PoolOf(Len(cands))
       IN  \E n \in Answers, passes \in BOOLEAN, score \in Scores :
            /\ ~passes => n = Min(Answers) /\ score = Min(Scores)
            /\ cands' = Append(cands, [lang |-> Pools[pool], pool |-> pool,
                                       text |-> <<Pools[pool], n>>, score |-> score,
                                       verdict |-> Verdict(passes, <<Pools[pool], n>>)])
    /\ UNCHANGED <<seedVars, phase, sampleRound, rr, halted, hashes, buffer, batch, accepted, since,
                   asked>>

\* should_stop(): the stop switch, or the program ends.
Halt ==
    /\ phase = "generate" /\ ~halted
    /\ halted' = TRUE
    /\ UNCHANGED <<seedVars, phase, sampleRound, rr, cands, hashes, buffer, batch, accepted, since,
                   asked>>

Good == {n \in DOMAIN cands : cands[n].verdict = ""}

\* The best first; std::sort leaves equals in any order.
Orders ==
    {order \in [1..Cardinality(Good) -> Good] :
        \A i, j \in 1..Cardinality(Good) : i < j =>
            order[i] # order[j] /\ cands[order[i]].score >= cands[order[j]].score}

\* Mutant: one language may have every slot.
MutLangCap == KeepBest

\* An equal part of the slots, rounded up.
LangCap == Max({1, (KeepBest + Len(Pools) - 1) \div Len(Pools)})

\* The first pass: no language more than its part.
TakeFirst(kept, n) ==
    LET same == {m \in ToSet(kept) : cands[m].lang = cands[n].lang}
    IN  IF Len(kept) >= KeepBest \/ Cardinality(same) >= LangCap THEN kept ELSE Append(kept, n)
FirstPass(order) ==
    LET pass[k \in 0..Len(order)] == IF k = 0 THEN <<>> ELSE TakeFirst(pass[k - 1], order[k])
    IN  pass[Len(order)]

\* The second fills what is left.
TakeMore(kept, n) ==
    IF Len(kept) >= KeepBest \/ n \in ToSet(kept) THEN kept ELSE Append(kept, n)
Kept(order) ==
    LET pass[k \in 0..Len(order)] ==
            IF k = 0 THEN FirstPass(order) ELSE TakeMore(pass[k - 1], order[k])
    IN  pass[Len(order)]

\* accepted_hashes_: emptied, with the one just entered, when it grows over its cap.
Remember(memory, text) ==
    LET new == memory.hashes \cup {text}
    IN  IF Cardinality(new) > HashCap THEN [hashes |-> {}, since |-> {}]
        ELSE [hashes |-> new, since |-> memory.since \cup {<<text, sampleRound>>}]
MemoryOf(texts) ==
    LET memory[k \in 0..Len(texts)] ==
            IF k = 0 THEN [hashes |-> hashes, since |-> since]
            ELSE Remember(memory[k - 1], texts[k])
    IN  memory[Len(texts)]

LastOf(s, n) == SubSeq(s, Len(s) - Min({n, Len(s)}) + 1, Len(s))

\* After the last candidate: the choice, the buffer, and what is trained on.
Keep ==
    /\ phase = "generate" /\ (halted \/ Len(cands) = SamplesPerRound)
    /\ \E order \in Orders :
        LET texts == [k \in DOMAIN Kept(order) |-> cands[Kept(order)[k]].text]
        IN  /\ hashes' = MemoryOf(texts).hashes /\ since' = MemoryOf(texts).since
            /\ buffer' = LastOf(buffer \o texts, BufferCap)
            /\ accepted' = accepted \o texts
            /\ cands' = [n \in DOMAIN cands |->
                            IF n \in ToSet(Kept(order)) THEN [cands[n] EXCEPT !.verdict = "kept"]
                            ELSE cands[n]]
    /\ rr' = (rr + SamplesPerRound) % Len(Pools)
    /\ phase' = IF buffer' = <<>> THEN "idle" ELSE "train"
    /\ asked' = IF halted \/ asked = <<>> THEN <<>>
                ELSE [p \in DOMAIN Pools |->
                         asked[p] + Cardinality({n \in DOMAIN cands : cands[n].pool = p})]
    /\ UNCHANGED <<seedVars, sampleRound, halted, batch>>

Train ==
    /\ phase = "train"
    /\ batch' = LastOf(buffer, TakeMax)
    /\ phase' = "idle"
    /\ UNCHANGED <<seedVars, sampleRound, rr, cands, halted, hashes, buffer, accepted, since, asked>>

SelfGenInit ==
    /\ seedText = <<>> /\ seedEnd = 0 /\ phase = "idle" /\ sampleRound = 0 /\ rr = 0
    /\ cands = <<>> /\ halted = FALSE /\ hashes = {} /\ buffer = <<>> /\ batch = <<>>
    /\ accepted = <<>> /\ since = {} /\ asked = [p \in DOMAIN Pools |-> 0]

SelfGenNext == TypeSeed \/ StartSamples \/ Generate \/ Halt \/ Keep \/ Train

SelfGenSpec == SelfGenInit /\ [][SelfGenNext]_gvars

-----------------------------------------------------------------------------

\* build_prompt_pools(): prompts are spans of the training part, never of the hold-out,
\* that begin with a question and end with the first answer after it, and none twice.
PromptsAreQuestions ==
    LET spans == Spans
    IN  /\ \A n \in DOMAIN spans :
            /\ spans[n][2] <= seedEnd /\ spans[n][2] - spans[n][1] \in 2..MaxSpan
            /\ seedText[spans[n][1]] = "user" /\ seedText[spans[n][2]] = "assistant"
            /\ \A i \in (spans[n][1] + 1)..(spans[n][2] - 1) : seedText[i] # "assistant"
            /\ n > 1 => spans[n - 1][2] < spans[n][1]
        /\ \A i \in 1..seedEnd : \A j \in (i + 2)..seedEnd :
            (seedText[i] = "user" /\ seedText[j] = "assistant" /\ j - i <= MaxSpan
                /\ \A q \in (i + 1)..(j - 1) : seedText[q] # "assistant") =>
                    \E n \in DOMAIN spans : spans[n][1] <= i /\ j <= spans[n][2]

KeptOnes == {n \in DOMAIN cands : cands[n].verdict = "kept"}
LeftOut == {n \in DOMAIN cands : cands[n].verdict = ""}
OfLang(found, lang) == {n \in found : cands[n].lang = lang}

\* round(): no slot stays empty while a candidate passed the judge; no language takes
\* every slot while another has a candidate left out; and one is left out for a worse one
\* only of another language, once its own has its part.
BestAreKept ==
    phase # "generate" =>
        /\ Cardinality(KeptOnes) <= KeepBest
        /\ LeftOut # {} => Cardinality(KeptOnes) = KeepBest
        /\ \A n \in LeftOut :
            /\ (KeepBest > 1 /\ Len(Pools) > 1) =>
                    \A lang \in Languages \ {cands[n].lang} : OfLang(KeptOnes, lang) # KeptOnes
            /\ \A k \in KeptOnes : cands[n].score > cands[k].score =>
                    /\ cands[k].lang # cands[n].lang
                    /\ Cardinality(OfLang(KeptOnes, cands[n].lang)) >= LangCap

\* judge(): as long as the memory of them lasts, a text is not accepted in two rounds.
NovelAcrossRounds ==
    \A x, y \in since : x[1] = y[1] => x[2] = y[2]

\* The buffer holds the newest accepted samples, and training reads the newest of those.
BufferIsNewest ==
    /\ buffer = LastOf(accepted, BufferCap)
    /\ (phase = "idle" /\ buffer # <<>>) => batch = LastOf(accepted, Min({TakeMax, BufferCap}))

\* balance_languages: over all rounds every pool is asked as often as every other, whatever
\* the size of a round, until one is stopped half way.
PoolsTakeTurns ==
    \A p, q \in DOMAIN asked : asked[p] - asked[q] \in -1..1

SelfGenSound ==
    /\ PromptsAreQuestions /\ BestAreKept /\ NovelAcrossRounds /\ BufferIsNewest /\ PoolsTakeTurns
=============================================================================
