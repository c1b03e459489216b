------------------------------ MODULE Retrieval -------------------------------
(***************************************************************************)
(* Finding chunks (agent/codebase.cpp): the words an identifier is split   *)
(* into, the fusion of the two rankings, the correction by symbol, path    *)
(* and length, the look-up of a symbol, and the block of excerpts that is  *)
(* put in front of the model within its budget.                            *)
(*                                                                         *)
(* What BM25 and the embedder rank is any order of the chunks.  Scores are *)
(* compared exactly: fractions are multiplied out.  Sizes are bytes.       *)
(***************************************************************************)
EXTENDS Integers, Sequences, SequencesExt

CONSTANTS
    ChunkTypes,     \* the chunks a repository is made of: see ChunkOK
    MaxRepo,        \* model bound: chunks of the repository
    Ks,             \* k: how many hits are asked for
    Budgets,        \* budget_chars
    Header,         \* bytes of the line "--- path:a-b  symbol() ---"
    WordMax         \* model bound: characters of an identifier

\* name: is the symbol the query, the query in another case, a qualified name that ends in
\* it, one that contains it or a word of it, or none of these; and the bytes of the lines.
ChunkOK(c) ==
    /\ c.path \in {"p", "q"} /\ c.name \in {"same", "case", "tail", "part", "none"}
    /\ c.in_path \in BOOLEAN /\ c.long \in BOOLEAN /\ c.definition \in BOOLEAN
    /\ c.lines \in Seq(Nat) /\ c.lines # <<>>

ASSUME RetrievalAssumption ==
    /\ \A t \in DOMAIN ChunkTypes : ChunkOK(ChunkTypes[t])
    /\ MaxRepo \in 1..3 /\ Ks \subseteq Nat /\ Budgets \subseteq Nat
    /\ Header \in Nat /\ WordMax \in Nat

VARIABLES
    repo,           \* the chunks, by id
    hits,           \* the result of the last search or look-up
    block,          \* the last context block: the pieces in it and the budget
    word            \* the identifier being looked at

qvars == <<repo, hits, block, word>>

NoHits == [by |-> "none", k |-> 0, list |-> <<>>]
NoBlock == [pieces |-> <<>>, budget |-> 0]

RetrievalInit == repo = <<>> /\ hits = NoHits /\ block = NoBlock /\ word = <<>>

AddChunk ==
    /\ Len(repo) < MaxRepo /\ hits = NoHits /\ word = <<>>
    /\ \E t \in DOMAIN ChunkTypes : repo' = Append(repo, ChunkTypes[t])
    /\ UNCHANGED <<hits, block, word>>

-----------------------------------------------------------------------------
(* reciprocal_rank_fusion() and search().                                  *)

\* w / (60 + rank), multiplied by the product of the first denominators.
Product == 61 * 62 * 63
RankScore(list, id) ==
    IF Contains(list, id)
    THEN Product \div (60 + (CHOOSE r \in DOMAIN list : list[r] = id))
    ELSE 0

\* Highest score first, ties by id; the first k.
Top(scores, k) ==
    LET ids == SetToSortSeq(DOMAIN scores, LAMBDA a, b : scores[a] > scores[b]
                                              \/ (scores[a] = scores[b] /\ a < b))
    IN  SubSeq([i \in DOMAIN ids |-> [chunk |-> ids[i], score |-> scores[ids[i]]]],
               1, Min({k, Len(ids)}))

\* The symbol is the query but for case and qualification.
Named(c) == c.name \in {"same", "case", "tail"}

\* Mutant: the name asked for counts no more than an overlap.
MutBonus(c) ==
    (IF Named(c) THEN 20 ELSE IF c.name = "part" THEN 20 ELSE 0)
    + (IF c.in_path THEN 25 ELSE 0) - (IF c.long THEN 15 ELSE 0)

\* Hundredths added for the symbol and the path, and the most taken off for length.
Bonus(c) ==
    (IF Named(c) THEN 100 ELSE IF c.name = "part" THEN 20 ELSE 0)
    + (IF c.in_path THEN 25 ELSE 0) - (IF c.long THEN 15 ELSE 0)

\* The base scores, divided by the highest of them, plus the bonus: times 100 * top.
Reranked(base) ==
    LET top == Max({base[id] : id \in DOMAIN base})
    IN  [id \in DOMAIN base |-> 100 * base[id] + Bonus(repo[id]) * top]

Searched(lex, den, k) ==
    LET base == [id \in ToSet(lex) \cup ToSet(den) |-> RankScore(lex, id) + RankScore(den, id)]
    IN  IF DOMAIN base = {} THEN <<>> ELSE Top(Reranked(base), k)

\* The chunks that share a word with the query, in BM25's order; and all chunks in the
\* order of their cosine, or none if the matrix has no row for each of them.
Search ==
    /\ repo # <<>> /\ hits = NoHits
    /\ \E n \in 0..Len(repo), k \in Ks :
       \E lex \in {s \in [1..n -> DOMAIN repo] : IsInjective(s)} :
       \E den \in {<<>>} \cup {s \in [DOMAIN repo -> DOMAIN repo] : IsInjective(s)} :
          hits' = [by |-> "search", k |-> k, list |-> Searched(lex, den, k)]
    /\ UNCHANGED <<repo, block, word>>

\* find_symbol(): three passes, the first that finds something decides; if none does,
\* a lexical search.  The first pass takes the name in any case already, the second adds
\* the qualified names.
NamedIn(pass) ==
    {i \in DOMAIN repo :
        \/ repo[i].name \in {"same", "case"}
        \/ pass > 0 /\ repo[i].name = "tail"
        \/ pass > 1 /\ repo[i].name = "part"}

FindSymbol ==
    /\ repo # <<>> /\ hits = NoHits
    /\ \E k \in Ks :
          LET found == {p \in 0..2 : NamedIn(p) # {}}
              pass == Min(found)
          IN  \/ /\ found # {}
                 /\ hits' = [by |-> "symbol", k |-> k,
                             list |-> Top([i \in NamedIn(pass) |->
                                 100 - 20 * pass + (IF repo[i].definition THEN 10 ELSE 0)], k)]
              \/ /\ found = {}
                 /\ \E n \in 0..Len(repo) : \E lex \in {s \in [1..n -> DOMAIN repo] : IsInjective(s)} :
                       hits' = [by |-> "search", k |-> k, list |-> Searched(lex, <<>>, k)]
    /\ UNCHANGED <<repo, block, word>>

-----------------------------------------------------------------------------
(* context_block() and excerpt().                                          *)

Bytes(lines) == FoldLeft(LAMBDA n, l : n + l + 1, 0, lines)
Marker == 40        \* room for "... n lines omitted ..."

\* The lines taken from the head and the tail of a chunk, in turn, while they fit.
RECURSIVE Shortened(_, _, _, _, _)
Shortened(lines, head, tail, used, room) ==
    IF head + tail + 1 >= Len(lines) THEN <<head, tail>>
    ELSE LET l == IF head <= tail THEN lines[head + 1] ELSE lines[Len(lines) - tail]
         IN  IF used + l + 1 > room THEN <<head, tail>>
             ELSE IF head <= tail THEN Shortened(lines, head + 1, tail, used + l + 1, room)
             ELSE Shortened(lines, head, tail + 1, used + l + 1, room)

\* The bytes of the excerpt, 0 if there is none.
Excerpt(c, budget) ==
    LET ht == Shortened(c.lines, 0, 0, Marker, budget - Header)
        n == Len(c.lines)
    IN  IF budget < Header + 80 \/ ht = <<0, 0>> THEN 0
        ELSE Header + Bytes(SubSeq(c.lines, 1, ht[1])) + Marker
             + Bytes(SubSeq(c.lines, n - ht[2] + 1, n))

\* A chunk goes in whole if it fits, else as an excerpt of what room is left, and then
\* the block is complete.
PieceOf(c, budget, used) ==
    IF used + Header + Bytes(c.lines) <= budget THEN [bytes |-> Header + Bytes(c.lines), last |-> FALSE]
    ELSE [bytes |-> Excerpt(c, budget - used), last |-> TRUE]

RECURSIVE Assemble(_, _, _, _)
Assemble(list, pieces, budget, max) ==
    LET used == FoldLeft(LAMBDA n, x : n + x.bytes, 0, pieces)
        c == repo[Head(list).chunk]
        piece == PieceOf(c, budget, used)
        entry == IF piece.bytes = 0 THEN <<>> ELSE <<[chunk |-> Head(list).chunk, bytes |-> piece.bytes]>>
    IN  IF list = <<>> \/ Len(pieces) >= max THEN pieces
        ELSE IF Cardinality({i \in DOMAIN pieces : repo[pieces[i].chunk].path = c.path}) >= 2
             THEN Assemble(Tail(list), pieces, budget, max)
             ELSE IF piece.last THEN pieces \o entry
                  ELSE Assemble(Tail(list), pieces \o entry, budget, max)

\* The program asks for at most twelve chunks; here, for no more than there are.
ContextBlock ==
    /\ hits.by = "search" /\ hits.k = Max(Ks) /\ block = NoBlock
    /\ \E budget \in Budgets :
          block' = [pieces |-> IF budget = 0 THEN <<>>
                               ELSE Assemble(hits.list, <<>>, budget, MaxRepo),
                    budget |-> budget]
    /\ UNCHANGED <<repo, hits, word>>

-----------------------------------------------------------------------------
(* code_tokens(): upper and lower case letters, digits and underscores.    *)

TypeWord ==
    /\ repo = <<>> /\ Len(word) < WordMax
    /\ \E c \in {"U", "l", "0", "_"} : word' = Append(word, c)
    /\ UNCHANGED <<repo, hits, block>>

Camel(w, j) ==
    \/ w[j] = "U" /\ w[j - 1] \in {"l", "0"}
    \/ w[j] = "U" /\ w[j - 1] = "U" /\ j < Len(w) /\ w[j + 1] = "l"

\* The pieces <<from, to>> of the identifier, from position j on, s being where the
\* current piece began; one that is the whole identifier is not repeated.
RECURSIVE Subwords(_, _, _)
Subwords(w, s, j) ==
    LET end == j > Len(w)
        sep == ~end /\ w[j] = "_"
        cut == end \/ sep \/ (j > s /\ Camel(w, j))
        piece == IF cut /\ j > s /\ ~(s = 1 /\ end) THEN {<<s, j - 1>>} ELSE {}
    IN  piece \cup IF end THEN {}
                   ELSE Subwords(w, IF ~cut THEN s ELSE IF sep THEN j + 1 ELSE j, j + 1)

\* push_token(): single characters are dropped.
Tokens(w) == {t \in {<<1, Len(w)>>} \cup Subwords(w, 1, 1) : t[2] > t[1]}

RetrievalNext == AddChunk \/ Search \/ FindSymbol \/ ContextBlock \/ TypeWord

-----------------------------------------------------------------------------
(* Properties.                                                             *)

\* A context block keeps to its budget without being cut by the last utf8_truncate(),
\* holds no more than two chunks of a file, and leaves out no better hit than those in
\* it but for that.
BlockFits ==
    LET ps == block.pieces
        place(i) == CHOOSE n \in DOMAIN hits.list : hits.list[n].chunk = ps[i].chunk
        fromFile(f, n) == {i \in DOMAIN ps : i < n /\ repo[ps[i].chunk].path = f}
    IN  /\ FoldLeft(LAMBDA n, x : n + x.bytes, 0, ps) <= block.budget
        /\ \A f \in {"p", "q"} : Cardinality(fromFile(f, Len(ps) + 1)) <= 2
        /\ \A i \in DOMAIN ps : \A n \in 1..(place(i) - 1) :
              \/ \E j \in 1..(i - 1) : ps[j].chunk = hits.list[n].chunk
              \/ Cardinality(fromFile(repo[hits.list[n].chunk].path, i)) = 2

\* No hit is returned twice or beyond the number asked for.  A chunk that bears the name
\* asked for, in whatever case and qualified or not, is ahead of one that shares no name
\* with the query, or the length of the one and the path of the other speak against it.
\* A look-up returns nothing but the unqualified name if that is anywhere in the
\* repository, nothing but the name if it is there qualified, and definitions first.
\* Of two cases of the name it prefers neither: the second of two functions comes behind
\* the first even if it alone is spelled as asked, against the order exact, then
\* case-insensitive, then substring of codebase.h.
NamesFirst ==
    LET l == hits.list
        of(i) == repo[l[i].chunk]
        all == {repo[i].name : i \in DOMAIN repo}
        plain == {"same", "case"}
    IN  /\ Len(l) <= hits.k
        /\ \A i, j \in DOMAIN l : i # j => l[i].chunk # l[j].chunk
        /\ \A i, j \in DOMAIN l :
              Named(of(j)) /\ i < j => of(i).name # "none" \/ of(j).long \/ of(i).in_path
        /\ hits.by = "symbol" =>
              /\ all \cap plain # {} => \A i \in DOMAIN l : of(i).name \in plain
              /\ "tail" \in all => \A i \in DOMAIN l : Named(of(i))
              /\ \A i, j \in DOMAIN l : i < j /\ of(j).definition => of(i).definition
              /\ \A i, j \in DOMAIN l : i < j /\ of(i).definition = of(j).definition =>
                    l[i].chunk < l[j].chunk

\* The words of an identifier: itself, and its parts between underscores and between
\* the changes of case, those of two characters and more.
WordsAreParts ==
    LET n == Len(word)
        solid(a, b) == \A j \in a..b : word[j] # "_" /\ (j > a => ~Camel(word, j))
        ends(a, b) == /\ a = 1 \/ word[a - 1] = "_" \/ Camel(word, a)
                      /\ b = n \/ word[b + 1] = "_" \/ Camel(word, b + 1)
        parts == {<<a, b>> \in (1..n) \X (1..n) : a < b /\ solid(a, b) /\ ends(a, b)}
    IN  Tokens(word) = parts \cup (IF n > 1 THEN {<<1, n>>} ELSE {})

FindsAndFits == BlockFits /\ NamesFirst /\ WordsAreParts
=============================================================================
