------------------------------ MODULE Tokenizer -------------------------------
(* Text on its way into the model: the Persian normaliser (core/text.cpp,      *)
(* normalize_text), the pre-tokenizer and the byte-level BPE tokenizer         *)
(* (tokenizer.cpp): training with incremental pair counts, encoding, decoding, *)
(* and the tokenizer's file.                                                   *)
(*                                                                             *)
(* A text is a sequence of characters that stand for their classes: letters,   *)
(* a digit, a mark of punctuation, a space, a line end, the ZWNJ, a mark the   *)
(* normaliser strips (a vowel sign, a bidi control), a letter and a digit it   *)
(* replaces, and "ctl", the whole spelling of a control token.  A behaviour    *)
(* either types a text or trains a tokenizer.                                  *)
EXTENDS Integers, Sequences, SequencesExt, FiniteSetsExt, TLC

CONSTANTS
    Corpora,        \* texts to train on: how often each word occurs
    MinPairFreq,    \* a pair that is rarer is not merged
    MaxMerges,      \* merges up to the wanted vocabulary
    TypedMerges,    \* the merges of the tokenizer that reads the input texts
    MaxText         \* model bound: characters input

ASSUME TokenizerAssumption == {MinPairFreq, MaxMerges, MaxText} \subseteq Nat \ {0}

VARIABLES
    input,          \* the text
    corpus,         \* the words that are trained on, <<>> when a text is input
    split,          \* how each word is split so far
    counts, where,  \* how often each pair occurs, and in which words
    merges,         \* the merges learned, in the order of their ranks
    tokFile,          \* the tokenizer's file: its merges and how many it announces
    torn,           \* how the file was cut: "no", "line", "number"
    loaded          \* what load() made of it

zvars == <<input, corpus, split, counts, where, merges, tokFile, torn, loaded>>

Letters == {"a", "b"}
Blanks == {" ", "nl"}
ByteChars == <<"a", "b", "1", ".", " ", "nl", "zwnj", "ctl">>
Typeable == ToSet(ByteChars) \cup {"old", "mark", "fa1"}

-----------------------------------------------------------------------------
(* normalize_text() with the default options.                                  *)

\* What is held back: spaces until something follows on their line, and a ZWNJ.
Held == [out |-> <<>>, spaces |-> 0, zwnj |-> FALSE]

Flushed(h) ==
    h.out \o [n \in 1..h.spaces |-> " "] \o (IF h.zwnj THEN <<"zwnj">> ELSE <<>>)

NormalStep(h, c) ==
    CASE c = "mark" -> h
      [] c = "zwnj" -> [h EXCEPT !.zwnj = TRUE, !.spaces = 0]
      [] c = " "    -> [h EXCEPT !.spaces = @ + 1]
      [] c = "nl"   -> [Held EXCEPT !.out = Append(h.out, "nl")]
      [] OTHER      -> [Held EXCEPT !.out = Append(Flushed(h),
                            CASE c = "old" -> "a" [] c = "fa1" -> "1" [] OTHER -> c)]

Normal(text) ==
    LET h == FoldLeft(NormalStep, Held, text)
    IN  h.out \o (IF h.zwnj THEN <<"zwnj">> ELSE <<>>)

-----------------------------------------------------------------------------
(* Pieces of text and merges.                                                  *)

User == 0
FirstByte == 1
BaseVocab == FirstByte + Len(ByteChars)
ByteId(c) == FirstByte - 1 + (CHOOSE n \in DOMAIN ByteChars : ByteChars[n] = c)
IdsOf(word) == [n \in DOMAIN word |-> ByteId(word[n])]

\* rebuild_pieces(): what each id says; ids count from 0.
PiecesOf(ms) ==
    FoldLeft(LAMBDA ps, m : Append(ps, ps[m[1] + 1] \o ps[m[2] + 1]),
             <<<<"user">>>> \o [n \in DOMAIN ByteChars |-> <<ByteChars[n]>>], ms)

RankOf(ms, pair) ==
    LET at == {r \in DOMAIN ms : ms[r] = pair} IN IF at = {} THEN 0 ELSE Max(at)

\* apply_merges(): again and again the pair of the lowest rank, the first of them.
RECURSIVE ApplyMerges(_, _)
ApplyMerges(ids, ms) ==
    LET found == {n \in 1..(Len(ids) - 1) : RankOf(ms, <<ids[n], ids[n + 1]>>) > 0}
        rank == [n \in found |-> RankOf(ms, <<ids[n], ids[n + 1]>>)]
        best == CHOOSE n \in found : \A m \in found \ {n} :
                    rank[n] < rank[m] \/ (rank[n] = rank[m] /\ n < m)
    IN  IF found = {} THEN ids
        ELSE ApplyMerges(SubSeq(ids, 1, best - 1) \o <<BaseVocab - 1 + rank[best]>>
                         \o SubSeq(ids, best + 2, Len(ids)), ms)

ClassOf(c) ==
    CASE c \in Letters \cup {"zwnj"} -> "letter"
      [] c = "1" -> "digit"
      [] c \in Blanks -> "space"
      [] OTHER -> "punct"

\* chunk_end(): a leading space joins what follows unless that is a space too; then as
\* many characters of the class, but digits and punctuation one by one.
ChunkEnd(text, i) ==
    LET joined == text[i] = " " /\ i < Len(text) /\ ClassOf(text[i + 1]) # "space"
        first == IF joined THEN i + 1 ELSE i
        class == ClassOf(text[first])
        others == {n \in first..Len(text) : ClassOf(text[n]) # class}
    IN  IF class \in {"digit", "punct"} THEN first + 1
        ELSE IF others = {} THEN Len(text) + 1 ELSE Min(others)

\* encode() of a normalised text: a control token where a chunk would begin with its
\* spelling, and the merges within each chunk otherwise.
RECURSIVE EncodeFrom(_, _, _)
EncodeFrom(text, i, ms) ==
    IF i > Len(text) THEN <<>>
    ELSE IF text[i] = "ctl" THEN <<User>> \o EncodeFrom(text, i + 1, ms)
    ELSE LET e == ChunkEnd(text, i)
         IN  ApplyMerges(IdsOf(SubSeq(text, i, e - 1)), ms) \o EncodeFrom(text, e, ms)
Encode(text, ms) == EncodeFrom(Normal(text), 1, ms)

\* decode(): control tokens are not shown.
Decode(ids, ms) ==
    FlattenSeq([n \in DOMAIN ids |-> IF ids[n] = User THEN <<>> ELSE PiecesOf(ms)[ids[n] + 1]])

-----------------------------------------------------------------------------
(* train(): the most frequent pair, the smaller one of two, becomes a token;   *)
(* only the words it occurs in are counted anew.                               *)

PairsIn(ids) == {<<ids[n], ids[n + 1]>> : n \in 1..(Len(ids) - 1)}
Occurs(ids, pair) == Cardinality({n \in 1..(Len(ids) - 1) : <<ids[n], ids[n + 1]>> = pair})
CountOf(pair) == IF pair \in DOMAIN counts THEN counts[pair] ELSE 0
WordsWith(pair) == IF pair \in DOMAIN where THEN where[pair] ELSE {}

RECURSIVE MergeWord(_, _, _)
MergeWord(ids, pair, id) ==
    IF Len(ids) < 2 THEN ids
    ELSE IF <<ids[1], ids[2]>> = pair THEN <<id>> \o MergeWord(SubSeq(ids, 3, Len(ids)), pair, id)
    ELSE <<ids[1]>> \o MergeWord(Tail(ids), pair, id)

\* The words as they are split in "old" leave the counts, as in "new" they enter them.
Recount(old, new, words) ==
    LET pairs == DOMAIN counts \cup UNION {PairsIn(new[w]) : w \in words}
        left == [p \in pairs |->
                    CountOf(p) + MapThenSumSet(LAMBDA w : corpus[w] * (Occurs(new[w], p)
                                                                      - Occurs(old[w], p)), words)]
    IN  [p \in {q \in pairs : left[q] > 0} |-> left[p]]

\* Mutant: the new pairs are counted but not entered into the index.
MutRelocate(old, new, words) ==
    [p \in DOMAIN where |-> WordsWith(p) \ {w \in words : p \in PairsIn(old[w])}]

Relocate(old, new, words) ==
    [p \in DOMAIN where \cup UNION {PairsIn(new[w]) : w \in words} |->
        (WordsWith(p) \ {w \in words : p \in PairsIn(old[w])})
            \cup {w \in words : p \in PairsIn(new[w])}]

Before(p, q) == p[1] < q[1] \/ (p[1] = q[1] /\ p[2] < q[2])
BestPair ==
    CHOOSE p \in DOMAIN counts : \A q \in DOMAIN counts \ {p} :
        counts[p] > counts[q] \/ (counts[p] = counts[q] /\ Before(p, q))

TrainStep ==
    /\ corpus # <<>> /\ tokFile = <<>> /\ Len(merges) < MaxMerges
    /\ DOMAIN counts # {} /\ counts[BestPair] >= MinPairFreq
    /\ LET touched == WordsWith(BestPair)
           new == [w \in DOMAIN split |->
                      IF w \in touched THEN MergeWord(split[w], BestPair, BaseVocab + Len(merges))
                      ELSE split[w]]
       IN  /\ split' = new
           /\ counts' = [p \in DOMAIN Recount(split, new, touched) \ {BestPair} |->
                            Recount(split, new, touched)[p]]
           /\ where' = [p \in DOMAIN Relocate(split, new, touched) \ {BestPair} |->
                            Relocate(split, new, touched)[p]]
    /\ merges' = Append(merges, BestPair)
    /\ UNCHANGED <<input, corpus, tokFile, torn, loaded>>

\* save(), written in place.
SaveTokenizer ==
    /\ corpus # <<>> /\ tokFile = <<>> /\ merges # <<>>
    /\ tokFile' = [merges |-> merges, announced |-> Len(merges)]
    /\ UNCHANGED <<input, corpus, split, counts, where, merges, torn, loaded>>

\* The program ends while it writes: the file stops after a line or inside the last
\* number, of which the first digits are another number.
SaveTorn ==
    /\ corpus # <<>> /\ tokFile = <<>> /\ merges # <<>>
    /\ \/ torn' = "line" /\ \E n \in 0..(Len(merges) - 1) :
            tokFile' = [merges |-> SubSeq(merges, 1, n), announced |-> Len(merges)]
       \/ torn' = "number"
          /\ tokFile' = [merges |-> Append(Front(merges), <<Last(merges)[1], Last(merges)[2] - 1>>),
                         announced |-> Len(merges)]
    /\ UNCHANGED <<input, corpus, split, counts, where, merges, loaded>>

\* load(): as many merges as are announced, or the file is refused.
LoadTokenizer ==
    /\ tokFile # <<>> /\ loaded = <<>>
    /\ loaded' = IF Len(tokFile.merges) = tokFile.announced
                 THEN [ok |-> TRUE, merges |-> tokFile.merges] ELSE [ok |-> FALSE]
    /\ UNCHANGED <<input, corpus, split, counts, where, merges, tokFile, torn>>

TypeChar ==
    /\ corpus = <<>> /\ Len(input) < MaxText
    /\ \E c \in Typeable : input' = Append(input, c)
    /\ UNCHANGED <<corpus, split, counts, where, merges, tokFile, torn, loaded>>

\* All the words, counted from nothing.
FullCount(words) ==
    [p \in UNION {PairsIn(words[w]) : w \in DOMAIN words} |->
        MapThenSumSet(LAMBDA w : corpus[w] * Occurs(words[w], p), DOMAIN words)]

TokenizerInit ==
    /\ input = <<>> /\ tokFile = <<>> /\ torn = "no" /\ loaded = <<>>
    /\ corpus \in Corpora \cup {<<>>}
    /\ merges = IF corpus = <<>> THEN TypedMerges ELSE <<>>
    /\ split = [w \in DOMAIN corpus |-> IdsOf(w)]
    /\ counts = FullCount(split)
    /\ where = [p \in DOMAIN counts |-> {w \in DOMAIN split : p \in PairsIn(split[w])}]

TokenizerNext == TypeChar \/ TrainStep \/ SaveTokenizer \/ SaveTorn \/ LoadTokenizer

TokenizerSpec == TokenizerInit /\ [][TokenizerNext]_zvars

-----------------------------------------------------------------------------

\* train(): the counts and the index that are kept up merge by merge are those of a
\* count from nothing.
CountsExact ==
    corpus # <<>> =>
        /\ counts = FullCount(split)
        /\ \A p \in DOMAIN counts : WordsWith(p) = {w \in DOMAIN split : p \in PairsIn(split[w])}

\* apply_merges(), one merge at a time by rank, splits a word of the corpus exactly as
\* training did, merge by merge over all words, and no word is changed by it.
EncodesAsTrained ==
    \A w \in DOMAIN corpus :
        /\ ApplyMerges(IdsOf(w), merges) = split[w]
        /\ Decode(split[w], merges) = w

\* load(): what is read back is what was trained.  A cut at a line is noticed; only a
\* cut inside the last number is not.
LoadsAsSaved ==
    (loaded # <<>> /\ loaded.ok) => (loaded.merges = merges \/ torn = "number")

LinesOf(text) ==
    LET ends == {0} \cup {n \in DOMAIN text : text[n] = "nl"} \cup {Len(text) + 1}
    IN  [m \in 1..(Cardinality(ends) - 1) |->
            LET from == CHOOSE e \in ends : Cardinality({f \in ends : f < e}) = m - 1
                to == Min({f \in ends : f > from})
            IN  SubSeq(text, from + 1, to - 1)]

Plain(text) == SelectSeq([n \in DOMAIN text |->
                   CASE text[n] = "old" -> "a" [] text[n] = "fa1" -> "1" [] OTHER -> text[n]],
                         LAMBDA c : c # "mark")
StripRight(line) ==
    LET solid == {n \in DOMAIN line : line[n] # " "}
    IN  IF solid = {} THEN <<>> ELSE SubSeq(line, 1, Max(solid))
Joined(rows) ==
    FlattenSeq([n \in DOMAIN rows |-> (IF n = 1 THEN <<>> ELSE <<"nl">>) \o rows[n]])

\* normalize_text() changes the letters and cuts the ends of the lines, and nothing else
\* where there is no ZWNJ: indentation and inner spaces stay.
KeepsIndentation ==
    "zwnj" \notin ToSet(input) =>
        Normal(input) = Joined([n \in DOMAIN LinesOf(input) |-> StripRight(Plain(LinesOf(input)[n]))])

\* To normalise what is normalised changes nothing, as the corpus, the prompt and the
\* parts of it are on their way through several layers: but a space behind a ZWNJ is
\* carried in front of it and goes the second time.
NormalTwice ==
    (~\E n \in 1..(Len(Plain(input)) - 1) : Plain(input)[n] = "zwnj" /\ Plain(input)[n + 1] = " ") =>
        Normal(Normal(input)) = Normal(input)

\* A control token is one unless a single space stands before it: that is drawn to its
\* first character, and the rest is read as text.
Swallowed(text) ==
    {n \in 2..Len(text) : /\ text[n] = "ctl" /\ text[n - 1] = " "
                          /\ n = 2 \/ text[n - 2] \notin Blanks}
ControlsKept ==
    Cardinality({n \in DOMAIN Encode(input, merges) : Encode(input, merges)[n] = User})
        = Cardinality({n \in DOMAIN Normal(input) : Normal(input)[n] = "ctl"} \ Swallowed(Normal(input)))

\* What is encoded comes back as the normalised text, without the control tokens.
RoundTrip ==
    LET text == Normal(input)
    IN  Decode(Encode(input, merges), merges)
            = FlattenSeq([n \in DOMAIN text |->
                  IF text[n] = "ctl" /\ n \notin Swallowed(text) THEN <<>> ELSE <<text[n]>>])

TokensSound ==
    /\ CountsExact /\ EncodesAsTrained /\ LoadsAsSaved
    /\ KeepsIndentation /\ NormalTwice /\ ControlsKept /\ RoundTrip
=============================================================================
