------------------------------- MODULE Chunker --------------------------------
(***************************************************************************)
(* How a source file is cut into the chunks that retrieval returns         *)
(* (agent/codebase.cpp, chunk_source): at definitions in brace languages   *)
(* and Python, at headings in prose, every so many lines in anything else, *)
(* and what is too long for a chunk at blank lines and ends of statements. *)
(*                                                                         *)
(* A line is one of the kinds the chunkers tell apart; the symbol of a     *)
(* chunk is the number of the line its name is read from, 0 for none.  The *)
(* file grows line by line, and is cut anew each time.  That the scanner   *)
(* of braces sees exactly the braces of the code is looked at below, on    *)
(* files of characters.                                                    *)
(***************************************************************************)
EXTENDS Integers, Sequences, SequencesExt

CONSTANTS
    MaxChunkLines,  \* ScanOptions::max_chunk_lines
    MinChunkLines,  \* ScanOptions::min_chunk_lines
    MaxHead,        \* model bound: lines of any kind
    MaxLines        \* model bound: lines, those after MaxHead of a few kinds

ASSUME ChunkerAssumption ==
    /\ MaxChunkLines \in Nat /\ MinChunkLines \in Nat
    /\ MaxHead \in Nat /\ MaxLines \in Nat

VARIABLES
    language,       \* which chunker the extension selects
    lines           \* the file

cvars == <<language, lines>>

\* For the scanner: tokens of the language and the characters they are spelled with.
\* What looks like a brace inside a literal or a comment is none.
Spelling ==
    [open     |-> <<"{">>,
     close    |-> <<"}">>,
     word     |-> <<"x">>,
     empty    |-> <<"quote", "quote">>,
     string   |-> <<"quote", "{", "quote">>,
     escaped  |-> <<"quote", "back", "quote", "}", "quote">>,
     slashes  |-> <<"quote", "slash", "slash", "quote">>,
     stars    |-> <<"quote", "slash", "star", "quote">>,
     char     |-> <<"tick", "{", "tick">>,
     ticked   |-> <<"tick", "back", "tick", "tick">>,
     lifetime |-> <<"tick", "x", "x">>,
     template |-> <<"grave", "}", "nl", "{", "grave">>,
     block    |-> <<"slash", "star", "quote", "{", "nl", "}", "star", "slash">>,
     remark   |-> <<"slash", "slash", "{", "quote", "nl">>,
     newline  |-> <<"nl">>]

\* A prototype (`decl`) and a signature (`sig`) read like a definition; `def`
\* opens its block, `one` is a definition on a line, `open` another block and
\* `space` a namespace.  Numbers are indentations.
BraceKinds == {"blank", "note", "stmt", "semi", "decl", "sig", "def", "one",
               "open", "close", "space"}
PythonKinds == {"blank", "note0", "def0", "def1", "text0", "text1", "text2", "quote1"}
ProseKinds == {"blank", "text", "title", "rule", "fence"}
Kinds == [brace |-> BraceKinds, python |-> PythonKinds, prose |-> ProseKinds,
          fixed |-> {"blank", "text"}, tokens |-> DOMAIN Spelling]
\* After MaxHead lines the file goes on with these.
TailKinds == [brace |-> {"blank", "stmt", "close"}, python |-> {"blank", "text1"},
              prose |-> {"blank", "text"}, fixed |-> {"blank", "text"}, tokens |-> {}]

Blank(f, i) == f[i] = "blank"

-----------------------------------------------------------------------------
(* Nesting, as scan_braces() leaves it in LineInfo.                        *)

Rise(kind) == CASE kind \in {"def", "open", "space"} -> 1
                [] kind = "close" -> -1
                [] OTHER -> 0

\* depth_after of every line; a stray closing brace does not go below zero.
Depths(f) ==
    LET depth[i \in 0..Len(f)] == IF i = 0 THEN 0 ELSE Max({0, depth[i - 1] + Rise(f[i])})
    IN depth

NoCode(f, i) == f[i] \in {"blank", "note"}
EndsSemi(f, i) == f[i] \in {"stmt", "semi", "decl"}
EndsBrace(f, i) == f[i] \in {"close", "one"}

-----------------------------------------------------------------------------
(* Emitter.                                                                *)

Cap == Max({4, MaxChunkLines})

\* push(): a short fragment without a name is dropped.
Push(f, s, e, sym) ==
    IF (e - s + 1 < MinChunkLines /\ sym = 0) \/ (\A i \in s..e : Blank(f, i)) THEN <<>>
    ELSE <<[first |-> s, last |-> e, symbol |-> sym]>>

\* Where an oversized body is cut: at the last blank line, else at the shallowest
\* end of a statement, the last of those.
FindCut(f, lo, hi) ==
    LET depth == Depths(f)
        blanks == {j \in (lo + 1)..hi : Blank(f, j)}
        ends == {j \in (lo + 1)..hi : EndsSemi(f, j) \/ EndsBrace(f, j)}
    IN  IF blanks # {} THEN Max(blanks)
        ELSE IF ends = {} THEN hi
        ELSE Max({j \in ends : \A k \in ends : depth[j] <= depth[k]})

\* The pieces of the lines cur..e, each with the symbol of the whole.
RECURSIVE Pieces(_, _, _, _)
Pieces(f, cur, e, sym) ==
    IF cur > e THEN <<>>
    ELSE LET limit == Min({e, cur + Cap - 1})
             cut == IF limit < e THEN FindCut(f, cur + Cap \div 2, limit) ELSE limit
         IN  Push(f, cur, cut, sym) \o Pieces(f, cut + 1, e, sym)

Emit(f, s, e, sym) ==
    LET solid == {i \in s..e : ~Blank(f, i)}
    IN  IF solid = {} THEN <<>>
        ELSE LET b == Min(solid) t == Max(solid)
             IN IF t - b + 1 <= Cap THEN Push(f, b, t, sym) ELSE Pieces(f, b, t, sym)

-----------------------------------------------------------------------------
(* chunk_braces().                                                         *)

\* The line within the next four where line i's block opens, 0 for none: the end
\* of a statement or a line without code ends the search, except on line i itself.
OpensAt(f, i) ==
    LET depth == Depths(f)
        inside == {j \in i..Min({Len(f), i + 3}) : depth[j] > depth[i - 1]}
        stops == {j \in (i + 1)..Len(f) : EndsSemi(f, j) \/ NoCode(f, j)}
    IN  IF inside # {} /\ (\A j \in stops : j > Min(inside)) THEN Min(inside) ELSE 0

\* looks_like_definition(): the line it begins in and the line its block opens in.
LooksLikeDefinition(f, i) ==
    /\ f[i] \in {"decl", "sig", "def", "one"}
    /\ OpensAt(f, i) > 0 \/ f[i] = "one"

OpenLine(f, i) == IF OpensAt(f, i) > 0 THEN OpensAt(f, i) ELSE i

Closes(f, i) ==
    LET depth == Depths(f)
        shut == {j \in OpenLine(f, i)..Len(f) : depth[j] <= depth[i - 1]}
        end == IF shut = {} THEN Len(f) ELSE Min(shut)
    IN  IF end < Len(f) /\ f[end + 1] = "semi" THEN end + 1 ELSE end

\* attach_prefix(): the comment right above belongs to the definition.
AttachPrefix(f, i, floor) ==
    Min({s \in floor..i : \A k \in s..(i - 1) : f[k] \in {"note", "note0"}})

\* What finding the definition i..end emits, with the comment from start on: the gap
\* before it, then itself.
ChunkAt(f, gap, start, i, end) == Emit(f, gap, start - 1, 0) \o Emit(f, start, end, i)

RECURSIVE ChunkBraces(_, _, _), BracesFrom(_, _, _, _)
ChunkBraces(f, gap, i) ==
    IF i > Len(f) THEN Emit(f, gap, Len(f), 0)
    ELSE IF Depths(f)[i - 1] > 2 \/ ~LooksLikeDefinition(f, i)
         THEN ChunkBraces(f, gap, i + 1)
         ELSE BracesFrom(f, gap, i, Closes(f, i))
BracesFrom(f, gap, i, end) ==
    ChunkAt(f, gap, AttachPrefix(f, i, gap), i, end) \o ChunkBraces(f, end + 1, end + 1)

-----------------------------------------------------------------------------
(* chunk_python(), chunk_prose() and chunk_fixed().                        *)

\* python_docstring_map(): the lines that begin inside a triple-quoted string.
InDocstring(f, i) == Cardinality({j \in 1..(i - 1) : f[j] = "quote1"}) % 2 = 1

IndentOf(kind) == CASE kind \in {"def0", "text0", "note0"} -> 0
                    [] kind \in {"def1", "text1", "quote1"} -> 1
                    [] OTHER -> 2

IsDef(f, i) == f[i] \in {"def0", "def1"} /\ ~InDocstring(f, i)

\* The body ends before the first line that dedents to the definition.
BodyEnd(f, i) ==
    LET solid == {j \in i..Len(f) : ~Blank(f, j)}
        dedents == {j \in solid : j > i /\ IndentOf(f[j]) <= IndentOf(f[i]) /\ ~InDocstring(f, j)}
    IN  Max({j \in solid : \A d \in dedents : j < d})

RECURSIVE ChunkPython(_, _, _), PythonFrom(_, _, _, _)
ChunkPython(f, gap, i) ==
    IF i > Len(f) THEN Emit(f, gap, Len(f), 0)
    ELSE IF ~IsDef(f, i) THEN ChunkPython(f, gap, i + 1)
    ELSE PythonFrom(f, gap, i, BodyEnd(f, i))
PythonFrom(f, gap, i, end) ==
    ChunkAt(f, gap, AttachPrefix(f, i, gap), i, end) \o ChunkPython(f, end + 1, end + 1)

\* The headings outside a fenced block: marked ones, and text underlined by a rule.
Headings(f) ==
    LET fenced(i) == Cardinality({j \in 1..(i - 1) : f[j] = "fence"}) % 2 = 1
        underlined(i) == f[i] = "text" /\ i < Len(f) /\ f[i + 1] = "rule"
    IN  {i \in 1..Len(f) : ~fenced(i) /\ (f[i] = "title" \/ underlined(i))}

SectionEnd(f, i) ==
    LET later == {j \in Headings(f) : j > i}
    IN  IF later = {} THEN Len(f) ELSE Min(later) - 1

ChunkProse(f) ==
    IF Headings(f) = {} THEN Emit(f, 1, Len(f), 0)
    ELSE Emit(f, 1, Min(Headings(f)) - 1, 0)
         \o FlattenSeq([k \in 1..Cardinality(Headings(f)) |->
                LET h == SetToSortSeq(Headings(f), <)[k] IN Emit(f, h, SectionEnd(f, h), h)])

\* Windows of Cap lines that overlap by two.
RECURSIVE ChunkFixed(_, _)
ChunkFixed(f, s) ==
    LET e == Min({Len(f), s + Cap - 1})
    IN  Emit(f, s, e, 0) \o IF e = Len(f) THEN <<>> ELSE ChunkFixed(f, s + Cap - 2)

ChunkSource(l, f) ==
    IF f = <<>> THEN <<>>
    ELSE CASE l = "brace" -> ChunkBraces(f, 1, 1)
           [] l = "python" -> ChunkPython(f, 1, 1)
           [] l = "prose" -> ChunkProse(f)
           [] OTHER -> ChunkFixed(f, 1)

-----------------------------------------------------------------------------
ChunkerInit == language \in DOMAIN Kinds /\ lines = <<>>

\* The user writes one more line; the file is cut anew when it is indexed.
Write ==
    /\ Len(lines) < MaxLines
    /\ \E kind \in IF Len(lines) < MaxHead THEN Kinds[language] ELSE TailKinds[language] :
          lines' = Append(lines, kind)
    /\ UNCHANGED language

ChunkerNext == Write

-----------------------------------------------------------------------------
(* scan_braces() on characters: the braces of the code and of nothing else *)
(* are counted.                                                            *)

\* Mutant: a backslash does not protect the quote behind it.
MutAfterString(s, j) ==
    IF \E k \in j..Len(s) : s[k] = "quote" THEN Min({k \in j..Len(s) : s[k] = "quote"}) + 1
    ELSE Len(s) + 1

\* The position behind the string literal whose body begins at j: its closing quote
\* is the first one no backslash protects, or the line ends it.
RECURSIVE AfterString(_, _)
AfterString(s, j) ==
    CASE j > Len(s) -> j
      [] s[j] = "back" -> AfterString(s, j + 2)
      [] s[j] = "quote" -> j + 1
      [] OTHER -> AfterString(s, j + 1)

\* A quote mark opens a character literal only if it closes at once.
AfterTick(s, j) ==
    LET k == IF j < Len(s) /\ s[j + 1] = "back" THEN j + 3 ELSE j + 2
    IN  IF k <= Len(s) /\ s[k] = "tick" THEN k + 1 ELSE j + 1

At(s, j, a, b) == j < Len(s) /\ s[j] = a /\ s[j + 1] = b

\* The braces of a line from position j on, and the mode the next line begins in:
\* in code, in a block comment or in a template literal.
RECURSIVE ScanLine(_, _, _)
ScanLine(s, j, mode) ==
    CASE j > Len(s) -> [braces |-> <<>>, mode |-> mode]
      [] mode = "block" ->
            IF At(s, j, "star", "slash") THEN ScanLine(s, j + 2, "code")
            ELSE ScanLine(s, j + 1, "block")
      [] mode = "template" ->
            CASE s[j] = "back" -> ScanLine(s, j + 2, mode)
              [] s[j] = "grave" -> ScanLine(s, j + 1, "code")
              [] OTHER -> ScanLine(s, j + 1, mode)
      [] At(s, j, "slash", "slash") -> [braces |-> <<>>, mode |-> "code"]
      [] At(s, j, "slash", "star") -> ScanLine(s, j + 2, "block")
      [] s[j] = "quote" -> ScanLine(s, AfterString(s, j + 1), "code")
      [] s[j] = "tick" -> ScanLine(s, AfterTick(s, j), "code")
      [] s[j] = "grave" -> ScanLine(s, j + 1, "template")
      [] s[j] \in {"{", "}"} ->
            LET rest == ScanLine(s, j + 1, "code")
            IN  [rest EXCEPT !.braces = <<s[j]>> \o @]
      [] OTHER -> ScanLine(s, j + 1, "code")

\* split_lines(): the lines between the line ends.
RECURSIVE SplitLines(_)
SplitLines(chars) ==
    IF \A i \in DOMAIN chars : chars[i] # "nl" THEN <<chars>>
    ELSE LET e == Min({i \in DOMAIN chars : chars[i] = "nl"})
         IN  <<SubSeq(chars, 1, e - 1)>> \o SplitLines(SubSeq(chars, e + 1, Len(chars)))

RECURSIVE ScanBraces(_, _)
ScanBraces(text, mode) ==
    IF text = <<>> THEN <<>>
    ELSE LET line == ScanLine(Head(text), 1, mode)
         IN  line.braces \o ScanBraces(Tail(text), line.mode)

-----------------------------------------------------------------------------
(* Properties.                                                             *)

\* The chunks of a file follow one another, keep to max_chunk_lines, and leave out
\* nothing but fragments of fewer than min_chunk_lines lines; only the windows of a
\* file without structure overlap, by the two lines of chunk_fixed().
ChunksTile(cs) ==
    LET covered == UNION {cs[k].first..cs[k].last : k \in DOMAIN cs}
    IN  /\ \A k \in DOMAIN cs :
              /\ 1 <= cs[k].first /\ cs[k].first <= cs[k].last /\ cs[k].last <= Len(lines)
              /\ cs[k].last - cs[k].first < Cap
        /\ \A k \in 1..(Len(cs) - 1) :
              cs[k + 1].first > IF language = "fixed" THEN cs[k].last - 2 ELSE cs[k].last
        /\ MinChunkLines > 0 =>
              \A i \in 1..(Len(lines) - MinChunkLines + 1) :
                 \E j \in i..(i + MinChunkLines - 1) : Blank(lines, j) \/ j \in covered

\* The outermost definitions, found without the chunkers: a block that a head line
\* opens, itself or on the next line, inside no earlier one.  The search of an
\* earlier head for its block must have come to an end (see README, 6).
Separated(f, i) ==
    \A k \in Max({1, i - 3})..(i - 1) :
        f[k] \in {"decl", "sig", "one"} =>
            \E j \in (k + 1)..(i - 1) : EndsSemi(f, j) \/ NoCode(f, j) \/ Rise(f[j]) > 0

Within(f, k, i) == \* line i is in the block that line k opens
    LET depth == Depths(f)
        opened == IF f[k] = "sig" THEN k + 1 ELSE k
    IN  i > opened /\ \A j \in opened..(i - 1) : depth[j] > depth[k - 1]

StartsBlock(f, i) == f[i] = "def" \/ (f[i] = "sig" /\ i < Len(f) /\ f[i + 1] = "open")

BraceParts ==
    {<<i, j>> \in (DOMAIN lines) \X (DOMAIN lines) :
        /\ StartsBlock(lines, i) /\ Depths(lines)[i - 1] <= 2 /\ Separated(lines, i)
        /\ \A k \in 1..(i - 1) :
              (\E h \in k..(i - 1) : OpensAt(lines, k) = h /\ lines[k] \in {"decl", "sig", "def", "one"}
                                     /\ Depths(lines)[k - 1] <= 2)
              => \E d \in OpensAt(lines, k)..(i - 1) : Depths(lines)[d] <= Depths(lines)[k - 1]
        /\ j = i \/ Within(lines, i, j)}

PythonParts ==
    LET inDoc == {i \in DOMAIN lines : InDocstring(lines, i)}
        body(i, j) == \A k \in (i + 1)..j :
                        \/ Blank(lines, k) \/ k \in inDoc
                        \/ IndentOf(lines[k]) > IndentOf(lines[i])
        defs == {i \in DOMAIN lines \ inDoc : lines[i] \in {"def0", "def1"}}
    IN  {<<i, j>> \in defs \X DOMAIN lines :
            /\ j >= i /\ body(i, j)
            /\ \A k \in defs : k < i => ~body(k, i)}

ProseParts == {<<i, j>> \in Headings(lines) \X DOMAIN lines :
                 j >= i /\ \A h \in Headings(lines) : h \in (i + 1)..j => FALSE}

\* Every line of a definition, the comment right above it included, is found under
\* the definition's name, however long the definition is; in prose, every line under
\* its heading.
DefinitionsNamed(cs) ==
    LET parts == CASE language = "brace" -> BraceParts
                   [] language = "python" -> PythonParts
                   [] language = "prose" -> ProseParts
                   [] OTHER -> {}
    IN  \A p \in parts :
          /\ ~Blank(lines, p[2]) =>
                \E k \in DOMAIN cs : p[2] \in cs[k].first..cs[k].last /\ cs[k].symbol = p[1]
          /\ p[1] > 1 /\ lines[p[1] - 1] = "note" =>
                \E k \in DOMAIN cs : p[1] - 1 \in cs[k].first..cs[k].last /\ cs[k].symbol = p[1]

\* scan_braces() finds the braces that are tokens of the text, in their order: none
\* inside a string, a character, a template or a comment.
BracesOfTheCode ==
    language = "tokens" =>
        LET chars == FlattenSeq([i \in DOMAIN lines |-> Spelling[lines[i]]])
            braces == SelectSeq(lines, LAMBDA t : t \in {"open", "close"})
        IN  ScanBraces(SplitLines(chars), "code") = [i \in DOMAIN braces |-> Spelling[braces[i]][1]]

CutRight(cs) == ChunksTile(cs) /\ DefinitionsNamed(cs)

CutsAtDefinitions == language # "tokens" => CutRight(ChunkSource(language, lines))
=============================================================================
