-------------------------------- MODULE WebText -------------------------------
(* What the web tools make of what comes back (agent/tools.cpp): a page        *)
(* becomes text without its scripts, a long text is cut down to the sentences  *)
(* that matter, and the results of a search are put in order with each page    *)
(* once.                                                                       *)
(*                                                                             *)
(* A page is a sequence of pieces: a letter "x", a blank " ", a newline "nl", a  *)
(* tag that breaks the line "p", one that does not "b", the start and end of an *)
(* element that is skipped "script" and "/script", of a comment "!--" and      *)
(* "--", a lone "<", and an entity "&".  Scores are numbers to compare.        *)
EXTENDS Integers, Sequences, SequencesExt, FiniteSetsExt

CONSTANTS
    PagePieces,         \* the pieces a page is made of
    MaxPage,        \* model bound: pieces
    ProseChars,     \* of a text to cut into sentences
    LongComma,      \* characters of a sentence a comma may end (the code: 240)
    MaxProse,       \* model bound: characters
    Sentences,      \* sentences of a text to cut down: size and score
    MaxSentences,   \* model bound
    Rooms,          \* budgets of a summary
    Found,          \* results of a search
    MaxFound,       \* model bound: results
    Wanted          \* how many are asked for

VARIABLES
    html, prose, essay, results     \* the input that is tried

wvars == <<html, prose, essay, results>>

\* --------------------------------------------------------------- html to text

\* Does a piece hold a '>'?
HasGt(c) == c \in {"p", "b", "script", "/script", "--"}

\* The first place from i on with such a piece, or 0.
NextPiece(s, i, Test(_)) ==
    LET later == {k \in i..Len(s) : Test(s[k])} IN IF later = {} THEN 0 ELSE Min(later)

\* Mutant: an element that is never closed is left like one that is.
MutSkipped(s, i) ==
    LET end == NextPiece(s, i + 1, LAMBDA c : c = "/script")
    IN  IF end = 0 THEN i + 1 ELSE end + 1

\* Where reading goes on behind the start of a skipped element: behind its end, or
\* behind everything.
Skipped(s, i) ==
    LET end == NextPiece(s, i + 1, LAMBDA c : c = "/script")
    IN  IF end = 0 THEN Len(s) + 1 ELSE end + 1

\* The loop of html_to_text, from piece i on.  A lone '<' takes everything up to the
\* next '>' for a tag, the start of an element included.  (The newline of an element
\* that is never closed is trimmed, and left out in the code.)
RECURSIVE RawText(_, _)
RawText(s, i) ==
    IF i > Len(s) THEN <<>>
    ELSE LET c == s[i]
             gt == NextPiece(s, i, HasGt)
             dashes == NextPiece(s, i + 1, LAMBDA d : d = "--")
         IN  CASE c = "!--" -> IF dashes = 0 THEN <<>> ELSE RawText(s, dashes + 1)
             [] c = "script" -> <<"nl">> \o RawText(s, Skipped(s, i))
             [] c = "p" -> <<"nl">> \o RawText(s, i + 1)
             [] c \in {"b", "/script"} -> RawText(s, i + 1)
             [] c = "<" -> IF gt = 0 THEN <<>> ELSE RawText(s, gt + 1)
             [] OTHER -> <<c>> \o RawText(s, i + 1)

White == {" ", "nl"}

\* trim().
RECURSIVE Stripped(_)
Stripped(s) ==
    IF s = <<>> THEN s
    ELSE IF Head(s) \in White THEN Stripped(Tail(s))
    ELSE IF Last(s) \in White THEN Stripped(Front(s)) ELSE s

\* tidy(): what has been written, the newlines at its end and whether a blank is due.
Tidied(raw) ==
    LET Put(st, c) ==
            IF c = "nl"
            THEN [out |-> IF st.lines < 2 THEN Append(st.out, "nl") ELSE st.out,
                  lines |-> IF st.lines < 2 THEN st.lines + 1 ELSE 2, due |-> FALSE]
            ELSE IF c = " "
            THEN [st EXCEPT !.due = @ \/ (st.out # <<>> /\ st.lines = 0)]
            ELSE [out |-> st.out \o (IF st.due THEN <<" ">> ELSE <<>>) \o <<c>>,
                  lines |-> 0, due |-> FALSE]
    IN  Stripped(FoldLeft(Put, [out |-> <<>>, lines |-> 0, due |-> FALSE], raw).out)

HtmlToText(s) == Tidied(RawText(s, 1))

\* What a reader sees of a page: what stands outside of comments, skipped elements and
\* tags, read piece by piece, and where a tag or an element breaks the line.
Seen(s) ==
    LET Read(st, c) ==
            CASE st.in = "comment" -> IF c = "--" THEN [st EXCEPT !.in = "text"] ELSE st
            [] st.in = "skip" -> IF c = "/script" THEN [st EXCEPT !.in = "text"] ELSE st
            [] st.in = "tag" -> IF HasGt(c) THEN [st EXCEPT !.in = "text"] ELSE st
            [] c = "!--" -> [st EXCEPT !.in = "comment"]
            [] c = "script" -> [in |-> "skip", out |-> Append(st.out, "nl")]
            [] c = "p" -> [st EXCEPT !.out = Append(@, "nl")]
            [] c = "<" -> [st EXCEPT !.in = "tag"]
            [] c \in {"b", "/script"} -> st
            [] OTHER -> [st EXCEPT !.out = Append(@, c)]
    IN  FoldLeft(Read, [in |-> "text", out |-> <<>>], s).out

\* The words of a text.
WordsIn(s) ==
    LET Put(ws, c) == IF c \in White THEN Append(ws, <<>>)
                      ELSE [ws EXCEPT ![Len(ws)] = Append(@, c)]
    IN  SelectSeq(FoldLeft(Put, <<<<>>>>, s), LAMBDA w : w # <<>>)

\* ------------------------------------------------------------------ sentences

\* split_sentences: where the text is cut.  A point between digits is part of a
\* number, and a comma ends only what is long already.
Cuts(s) ==
    LET Cut(st, i) ==
            LET c == s[i]
                number == i > 1 /\ i < Len(s) /\ s[i - 1] = "1" /\ s[i + 1] = "1"
                ends == \/ c = "." /\ ~number
                        \/ c = "nl"
                        \/ c = "," /\ i - st.from + 1 > LongComma
            IN  IF ends THEN [from |-> i + 1, at |-> st.at \cup {i}] ELSE st
    IN  FoldLeft(Cut, [from |-> 1, at |-> {}], [i \in 1..Len(s) |-> i]).at

Split(s) ==
    LET ends == SetToSortSeq(Cuts(s) \cup {Len(s)}, <)
        part(k) == Stripped(SubSeq(s, IF k = 1 THEN 1 ELSE ends[k - 1] + 1, ends[k]))
    IN  SelectSeq([k \in 1..Len(ends) |-> part(k)], LAMBDA p : p # <<>>)

\* The size of some sentences, a blank between each two.
SizeOf(sents, which) ==
    FoldLeft(LAMBDA m, i : m + sents[i].size, 0, SetToSeq(which))
    + (IF which = {} THEN 0 ELSE Cardinality(which) - 1)

\* summarise_extractive: a text that fits stays; else the sentences by score, the earlier
\* first; one that does not fit is passed over, but for the best one, of which the
\* beginning is kept.
Taken(sents, room) ==
    LET order == SetToSortSeq(DOMAIN sents, LAMBDA a, b : \/ sents[a].score > sents[b].score
                                                          \/ sents[a].score = sents[b].score /\ a < b)
        Take(st, i) ==
            IF st.full THEN st
            ELSE IF st.used + sents[i].size + 1 > room
            THEN IF st.used > 0 THEN st
                 ELSE [used |-> sents[i].size + 1, which |-> {i}, full |-> TRUE]
            ELSE [st EXCEPT !.used = @ + sents[i].size + 1, !.which = @ \cup {i}]
    IN  IF SizeOf(sents, DOMAIN sents) <= room THEN DOMAIN sents
        ELSE FoldLeft(Take, [used |-> 0, which |-> {}, full |-> FALSE], order).which

\* -------------------------------------------------------------------- ranking

\* normalise_url: the case of the host, "www.", a slash at the end, the fragment and
\* what is there to follow the reader are not part of a page's address.
PageOf(r) == [host |-> r.url.host, path |-> r.url.path,
              query |-> SelectSeq(r.url.query, LAMBDA q : q # "utm")]

\* jaccard() > 0.8 of two sets of words.
NearTwin(a, b) ==
    a # {} /\ b # {} /\ 10 * Cardinality(a \cap b) > 8 * Cardinality(a \cup b)

\* Higher scores first, and what stood before stays before.
RECURSIVE ByScore(_)
ByScore(s) ==
    IF s = <<>> THEN s
    ELSE LET best == CHOOSE i \in DOMAIN s :
                        \A j \in DOMAIN s : s[j].score < s[i].score \/ (s[j].score = s[i].score /\ i <= j)
         IN  <<s[best]>> \o ByScore(RemoveAt(s, best))

\* A page that two results of one host point at counts a little more; of results for
\* the same page the first is kept.
Unique(in) ==
    LET same(r) == Cardinality({i \in DOMAIN in : /\ in[i].url.host = r.url.host
                                                   /\ in[i].url.www = r.url.www}) > 1
        first(i) == \A j \in 1..(i - 1) : PageOf(in[j]) # PageOf(in[i])
        kept == SetToSortSeq({i \in DOMAIN in : first(i)}, <)
    IN  [k \in 1..Len(kept) |->
            [in[kept[k]] EXCEPT !.score = @ + (IF same(in[kept[k]]) THEN 1 ELSE 0)]]

FirstFew(s, n) == SubSeq(s, 1, Min({Len(s), n}))

TwinOfKept(kept, r) == \E i \in DOMAIN kept : NearTwin(r.said, kept[i].said)

\* rank_web_results: one that says nearly the same as a better one waits, ten down,
\* until the others are in.
Ranked(in, k) ==
    LET Choose(st, r) ==
            IF Len(st.kept) >= k /\ st.kept # <<>> THEN st
            ELSE IF TwinOfKept(st.kept, r)
            THEN [st EXCEPT !.second = Append(@, [r EXCEPT !.score = @ - 10])]
            ELSE [st EXCEPT !.kept = Append(@, r)]
        Filled(st) == ByScore(st.kept \o FirstFew(st.second, k - Len(st.kept)))
    IN  FirstFew(Filled(FoldLeft(Choose, [kept |-> <<>>, second |-> <<>>], ByScore(Unique(in)))), k)

-----------------------------------------------------------------------------
WebTextInit == html = <<>> /\ prose = <<>> /\ essay = <<>> /\ results = <<>>

AddPiece ==
    /\ prose = <<>> /\ essay = <<>> /\ results = <<>> /\ Len(html) < MaxPage
    /\ \E c \in PagePieces : html' = Append(html, c)
    /\ UNCHANGED <<prose, essay, results>>

AddChar ==
    /\ html = <<>> /\ essay = <<>> /\ results = <<>> /\ Len(prose) < MaxProse
    /\ \E c \in ProseChars : prose' = Append(prose, c)
    /\ UNCHANGED <<html, essay, results>>

AddSentence ==
    /\ html = <<>> /\ prose = <<>> /\ results = <<>> /\ Len(essay) < MaxSentences
    /\ \E c \in Sentences : essay' = Append(essay, c)
    /\ UNCHANGED <<html, prose, results>>

AddResult ==
    /\ html = <<>> /\ prose = <<>> /\ essay = <<>> /\ Len(results) < MaxFound
    /\ \E r \in Found : results' = Append(results, r)
    /\ UNCHANGED <<html, prose, essay>>

WebTextNext == AddPiece \/ AddChar \/ AddSentence \/ AddResult

\* ------------------------------------------------------------------ properties

\* Nothing of a script or a comment is read, also when it is never closed, unless a
\* lone '<' hid its beginning; every other word is, in order, and not run together with
\* the next over a break; the text is tidy.
PageRead(t) ==
    /\ WordsIn(t) = WordsIn(Seen(html))
    /\ \A i \in 1..(Len(t) - 1) : t[i] = " " => t[i + 1] \notin White
    /\ \A i \in 1..(Len(t) - 2) : ~(t[i] = "nl" /\ t[i + 1] = "nl" /\ t[i + 2] = "nl")
    /\ t # <<>> => Head(t) \notin White /\ Last(t) \notin White

\* Splitting loses nothing but white space and leaves numbers whole.
SentencesWhole ==
    LET letters(s) == SelectSeq(s, LAMBDA c : c \notin White)
        parts == Split(prose)
    IN  /\ FlattenSeq([k \in 1..Len(parts) |-> letters(parts[k])]) = letters(prose)
        /\ \A i \in Cuts(prose) : ~(i > 1 /\ i < Len(prose) /\ SubSeq(prose, i - 1, i + 1) = <<"1", ".", "1">>)

\* A summary fits, but for a first sentence that alone is too long (and is cut); what
\* is left out would not fit any more, or had to give way to better sentences.
SummaryFits ==
    \A room \in Rooms :
        LET which == Taken(essay, room)
            size == SizeOf(essay, which)
        IN  /\ size <= room \/ Cardinality(which) = 1
            /\ essay # <<>> => which # {}
            /\ \A i \in DOMAIN essay \ which :
                  \E better \in SUBSET which :
                      /\ \A j \in better : essay[j].score >= essay[i].score
                      /\ SizeOf(essay, better) + essay[i].size + 2 > room

\* As many results as there are pages, up to the number wanted; no page twice, the best
\* first, and a near-twin of a better one only when everything else is in.
OrderedWell(r, top, k) ==
    LET pages == {PageOf(results[i]) : i \in DOMAIN results}
    IN  /\ Len(r) = Min({k, Cardinality(pages)})
        /\ \A i, j \in DOMAIN r : i < j => /\ PageOf(r[i]) # PageOf(r[j])
                                          /\ r[i].score >= r[j].score
        /\ r # <<>> => PageOf(r[1]) = PageOf(top[1])
        /\ (\E i, j \in DOMAIN r : i # j /\ NearTwin(r[i].said, r[j].said)) =>
              \A u \in DOMAIN top :
                  \/ \E i \in DOMAIN r : PageOf(r[i]) = PageOf(top[u])
                  \/ \E v \in 1..(u - 1) : NearTwin(top[u].said, top[v].said)

RankedWell == \A k \in Wanted : OrderedWell(Ranked(results, k), ByScore(Unique(results)), k)

WebTextSound == PageRead(HtmlToText(html)) /\ SentencesWhole /\ SummaryFits /\ RankedWell
=============================================================================
