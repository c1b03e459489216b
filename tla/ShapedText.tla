------------------------------ MODULE ShapedText ------------------------------
(* Persian text on the dashboard (gui_text.cpp, and ui_line and ui_wrapped of  *)
(* gui.cpp): a line is split into runs of one direction, long lines are broken *)
(* between words, and the picture of a line is kept in a texture, the least    *)
(* recently used of which makes room for a new one.  The draw list of a frame  *)
(* refers to textures by name until the frame is over.                         *)
(*                                                                             *)
(* A character is "fa", "la" or neutral ("-"); a word to wrap is its width.    *)
EXTENDS Integers, Sequences, SequencesExt, FiniteSetsExt

CONSTANTS
    Shown,          \* the strings that are shown
    MaxEntries,     \* max_entries
    MaxTyped,       \* model bound: characters of a line, and words
    Avail,          \* width of the region
    Widths          \* widths of a word

ASSUME ShapedTextAssumption == {MaxEntries, MaxTyped, Avail} \subseteq Nat \ {0}

VARIABLES
    written,        \* a line of characters
    words,          \* a line of words
    pictures,          \* string -> texture
    lru,            \* the strings, the one used last at the end
    textures,       \* the names OpenGL has given out
    drawList,          \* what the draw list of this frame holds: string and texture
    shaped          \* the strings whose picture this frame has asked for

svars == <<written, words, pictures, lru, textures, drawList, shaped>>

Strong == {"fa", "la"}

\* The strong characters before which the direction turns.
Turns(s) ==
    {i \in 2..Len(s) :
        /\ s[i] \in Strong
        /\ \E j \in 1..(i - 1) : s[j] \in Strong /\ s[j] # s[i]
                                 /\ \A k \in (j + 1)..(i - 1) : s[k] \notin Strong}

\* Mutant: a run begins behind the last character of the other direction.
MutTurns(s) ==
    {i \in 2..Len(s) : s[i - 1] \in Strong /\ \E j \in i..Len(s) : s[j] \in Strong /\ s[j] # s[i - 1]
                         /\ \A k \in i..(j - 1) : s[k] \notin Strong}

\* The first strong character sets the direction of the line and of its first run,
\* what stands before it included; a line without one reads from the left.
FirstStrong(s) == SelectInSeq(s, LAMBDA c : c \in Strong)
BaseRtl(s) == FirstStrong(s) # 0 /\ s[FirstStrong(s)] = "fa"

\* split_runs: where each run begins and ends, and whether it reads from the right.
Runs(s) ==
    LET begins == SetToSortSeq({1} \cup Turns(s), <)
        Flips(k) == (k - 1) % 2 = 1
    IN  [k \in 1..Len(begins) |->
            [from |-> begins[k], to |-> IF k < Len(begins) THEN begins[k + 1] - 1 ELSE Len(s),
             rtl |-> BaseRtl(s) # Flips(k)]]

\* layout(): the characters from left to right.
Visual(s) ==
    LET one(r) == LET t == SubSeq(s, r.from, r.to) IN IF r.rtl THEN Reverse(t) ELSE t
        parts == [k \in 1..Len(Runs(s)) |-> one(Runs(s)[k])]
    IN  FlattenSeq(IF BaseRtl(s) THEN Reverse(parts) ELSE parts)

\* The width of words on one line, a blank between each two.
Width(l) == FoldLeft(LAMBDA m, w : m + w, 0, l) + (IF l = <<>> THEN 0 ELSE Len(l) - 1)

\* ui_wrapped: a word joins the line while the line still fits; the first word of
\* a line need not.
Wrapped(l) ==
    IF Width(l) <= Avail THEN <<l>>
    ELSE LET Put(done, w) ==
                 LET cur == done[Len(done)]
                 IN  IF cur # <<>> /\ Width(Append(cur, w)) > Avail THEN Append(done, <<w>>)
                     ELSE [done EXCEPT ![Len(done)] = Append(cur, w)]
         IN  FoldLeft(Put, <<<<>>>>, l)

-----------------------------------------------------------------------------
ShapedInit ==
    /\ written = <<>> /\ words = <<>>
    /\ pictures = <<>> /\ lru = <<>> /\ textures = {} /\ drawList = {} /\ shaped = {}

WriteOne ==
    /\ words = <<>> /\ pictures = <<>> /\ Len(written) < MaxTyped
    /\ \E c \in Strong \cup {"-"} : written' = Append(written, c)
    /\ UNCHANGED <<words, pictures, lru, textures, drawList, shaped>>

AddWord ==
    /\ written = <<>> /\ pictures = <<>> /\ Len(words) < MaxTyped
    /\ \E w \in Widths : words' = Append(words, w)
    /\ UNCHANGED <<written, pictures, lru, textures, drawList, shaped>>

\* Mutant: what is found among the pictures is not moved to the end.
MutMovedUp(s) == lru

\* splice(): the entry of the string goes to the end.
MovedUp(s) == Append(RemoveAt(lru, CHOOSE i \in DOMAIN lru : lru[i] = s), s)

\* glGenTextures gives a name that is free; after glDeleteTextures it may be given again.
FreeName == CHOOSE t \in 1..(MaxEntries + 1) :
                t \notin textures /\ \A u \in 1..(t - 1) : u \in textures

\* image(): the picture of a string, one that is kept or made for it; the new
\* texture is named before the oldest goes.
Image(s) ==
    IF s \in DOMAIN pictures
    THEN /\ lru' = MovedUp(s)
         /\ UNCHANGED <<pictures, textures>>
    ELSE LET victims == IF Cardinality(DOMAIN pictures) >= MaxEntries THEN {lru[1]} ELSE {}
             rest == IF victims = {} THEN lru ELSE Tail(lru)
         IN  /\ pictures' = [x \in (DOMAIN pictures \ victims) \cup {s} |->
                             IF x = s THEN FreeName ELSE pictures[x]]
             /\ lru' = Append(rest, s)
             /\ textures' = (textures \ {pictures[v] : v \in victims}) \cup {FreeName}

\* ui_line: the picture goes into the draw list.
Draw(s) ==
    /\ written = <<>> /\ words = <<>>
    /\ Image(s)
    /\ drawList' = drawList \cup {<<s, pictures'[s]>>} /\ shaped' = shaped \cup {s}
    /\ UNCHANGED <<written, words>>

\* measure(): the same picture is made, and not drawList.
Measure(s) ==
    /\ written = <<>> /\ words = <<>>
    /\ Image(s) /\ shaped' = shaped \cup {s}
    /\ UNCHANGED <<written, words, drawList>>

\* The frame is rendered and the next one begins.
Rendered ==
    /\ shaped # {} /\ drawList' = {} /\ shaped' = {}
    /\ UNCHANGED <<written, words, pictures, lru, textures>>

ShapedNext ==
    \/ WriteOne \/ AddWord \/ Rendered
    \/ \E s \in Shown : Draw(s) \/ Measure(s)

ShapedSpec == ShapedInit /\ [][ShapedNext]_svars

\* ------------------------------------------------------------------ properties

\* The runs make up the line, neighbours differ in direction, each strong character
\* stands in a run of its own direction and no run begins with a neutral one but the
\* first: punctuation stays with the words before it.
RunsTile ==
    LET r == Runs(written)
    IN  /\ r[1].from = 1 /\ r[Len(r)].to = Len(written)
        /\ \A k \in 1..(Len(r) - 1) :
              /\ r[k + 1].from = r[k].to + 1 /\ r[k].rtl # r[k + 1].rtl
              /\ written[r[k + 1].from] \in Strong
        /\ \A k \in 1..Len(r) : \A i \in r[k].from..r[k].to :
              written[i] \in Strong => (written[i] = "fa") = r[k].rtl
        /\ Len(Visual(written)) = Len(written)

\* Wrapping keeps the words and their order, a line is too wide only if it is one
\* word, and no word was pushed down that still had room.
WrapsGreedily ==
    LET l == Wrapped(words)
    IN  /\ FlattenSeq(l) = words
        /\ \A k \in 1..Len(l) : Width(l[k]) > Avail => Len(l[k]) = 1
        /\ \A k \in 1..(Len(l) - 1) : Width(Append(l[k], Head(l[k + 1]))) > Avail

\* The pictures and their list hold the same strings, never more than there is room for,
\* and every texture belongs to one of them: none leaks and none is shared.
CacheWhole ==
    /\ ToSet(lru) = DOMAIN pictures /\ Len(lru) = Cardinality(DOMAIN pictures)
    /\ Len(lru) <= MaxEntries
    /\ textures = {pictures[s] : s \in DOMAIN pictures}
    /\ Cardinality(textures) = Cardinality(DOMAIN pictures)

\* While a frame asks for no more strings than are kept, none of the textures
\* in its draw list is deleted or given to another string before it is rendered.
DrawnStay ==
    Cardinality(shaped) <= MaxEntries =>
        \A d \in drawList : d[1] \in DOMAIN pictures /\ pictures[d[1]] = d[2]

ShapedSound == RunsTile /\ WrapsGreedily /\ CacheWhole /\ DrawnStay
=============================================================================
