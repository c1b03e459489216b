------------------------------ MODULE ToolCalls -------------------------------
(* Finding the tool calls in a reply of the model (agent/tools.cpp,            *)
(* ToolRegistry::parse): blocks between [[tool:NAME]] and [[/tool]], headers   *)
(* with their arguments inside, and JSON objects, all of them as a small model *)
(* writes them: unclosed, nested, cut off at the end of its budget.            *)
(*                                                                             *)
(* A reply is a sequence of tokens: a word, a mark, a space or a line end.     *)
(* The model writes it line by line, or writes one JSON object and may be cut  *)
(* off in it.                                                                  *)
EXTENDS Integers, Sequences, SequencesExt, TLC

CONSTANTS
    MaxReply,       \* model bound: lines of a reply
    MaxMembers,     \* model bound: members of the object and of those inside it
    MaxCutMembers,  \* model bound: members of an object that is cut off
    MaxNesting      \* model bound: objects inside one another

ASSUME ToolCallsAssumption == {MaxReply, MaxMembers, MaxCutMembers, MaxNesting} \subseteq Nat

VARIABLES
    reply,          \* the kinds of the lines
    object,         \* or the members of the object, with the depth each is at
    cut             \* how many tokens of the object arrived, 0 for all

tcvars == <<reply, object, cut>>

Quoted(tokens) == <<"quote">> \o tokens \o <<"quote">>
Phrase == <<"ls", " ", "la">>

LineOf ==
    [bare   |-> <<"[[", "tool", ":", "shell", "]]">>,
     inline |-> <<"[[", "tool", ":", "shell", " ", "command", "=">> \o Quoted(Phrase) \o <<"]]">>,
     word   |-> <<"[[", "tool", ":", "shell", " ">> \o Phrase \o <<"]]">>,
     broken |-> <<"[[", "tool", ":", "shell">>,
     close  |-> <<"[[/", "tool", "]]">>,
     other  |-> <<"[[/", "b", "]]">>,
     key    |-> <<"path", ":", " ", "a">>,
     value  |-> <<"content", ":">>,
     text   |-> <<"some", " ", "text">>,
     blank  |-> <<>>,
     json   |-> <<"{">> \o Quoted(<<"tool">>) \o <<":">> \o Quoted(<<"shell">>) \o <<",">>
                \o Quoted(<<"path">>) \o <<":">> \o Quoted(<<"a">>) \o <<"}">>]

ValueOf ==
    [plain  |-> Quoted(<<"a">>),
     second |-> Quoted(<<"b">>),
     tricky |-> Quoted(<<"}", "back", "quote", "]">>),
     number |-> <<"1", "2">>,
     list   |-> <<"[", "[">> \o Quoted(<<"]">>) \o <<"]", ",", "{", "}", "]">>]

NameTokens == {"tool", "shell", "command", "path", "content", "ls", "la", "a", "b", "some", "text",
          "1", "2"}
Spaces == {" ", "nl"}

\* The first position from i on that holds one of the tokens, the length plus one if none.
Seek(s, i, tokens) ==
    LET found == {j \in i..Len(s) : s[j] \in tokens}
    IN  IF found = {} THEN Len(s) + 1 ELSE Min(found)
\* The first position from i on that holds none of them.
Skip(s, i, tokens) ==
    LET found == {j \in i..Len(s) : s[j] \notin tokens}
    IN  IF found = {} THEN Len(s) + 1 ELSE Min(found)
TokenAt(s, i, token) == i <= Len(s) /\ s[i] = token
Part(s, i, j) == SubSeq(s, i, j - 1)

Trimmed(s) ==
    LET solid == {i \in DOMAIN s : s[i] \notin Spaces}
    IN  IF solid = {} THEN <<>> ELSE SubSeq(s, Min(solid), Max(solid))
TrimmedRight(s) ==
    LET solid == {i \in DOMAIN s : s[i] \notin Spaces}
    IN  IF solid = {} THEN <<>> ELSE SubSeq(s, 1, Max(solid))
StripQuotes(s) ==
    IF Len(s) >= 2 /\ s[1] = "quote" /\ s[Len(s)] = "quote" THEN SubSeq(s, 2, Len(s) - 1) ELSE s

NoArgs == <<>>
With(args, key, val) == (key :> val) @@ args

-----------------------------------------------------------------------------
(* parse_inline_args() and parse_block_args().                                 *)

\* The value that begins at j, and the position behind it.
InlineValue(s, j) ==
    IF TokenAt(s, j, "quote")
    THEN LET e == Seek(s, j + 1, {"quote"})
         IN  [val |-> Part(s, j + 1, e), next |-> e + 1]
    ELSE LET e == Seek(s, j, Spaces \cup {","})
         IN  [val |-> Part(s, j, e), next |-> e]

\* Words without a value, and whatever is no word, are passed over.
RECURSIVE KeyValues(_, _, _)
KeyValues(s, i, args) ==
    LET j == Skip(s, i + 1, Spaces)
        v == InlineValue(s, Skip(s, j + 1, Spaces))
    IN  IF i > Len(s) THEN args
        ELSE IF s[i] \in NameTokens /\ j <= Len(s) /\ s[j] \in {":", "="}
             THEN KeyValues(s, v.next, With(args, s[i], v.val))
             ELSE KeyValues(s, i + 1, args)

\* Without any key, what there is is the one argument, under the name "_".
InlineArgs(s) ==
    LET args == KeyValues(s, 1, NoArgs)
        t == Trimmed(s)
    IN  IF args # NoArgs THEN args
        ELSE IF t = <<>> THEN NoArgs ELSE With(NoArgs, "_", StripQuotes(t))

RECURSIVE Lines(_)
Lines(s) ==
    LET e == Seek(s, 1, {"nl"})
    IN  <<Part(s, 1, e)>> \o IF e > Len(s) THEN <<>> ELSE Lines(SubSeq(s, e + 1, Len(s)))

KeyLine(line) ==
    /\ Len(line) >= 2 /\ line[1] \in NameTokens /\ line[2] = ":"
    /\ Len(line) = 2 \/ line[3] = " "

\* A line without a key continues the value above it.
Continued(v, line) ==
    IF v = <<>> THEN TrimmedRight(line) ELSE v \o <<"nl">> \o TrimmedRight(line)

RECURSIVE BlockLines(_, _, _)
BlockLines(lines, cur, args) ==
    IF lines = <<>> THEN args
    ELSE LET line == Head(lines)
         IN  IF KeyLine(line)
             THEN BlockLines(Tail(lines), line[1],
                             With(args, line[1], StripQuotes(Trimmed(SubSeq(line, 3, Len(line))))))
             ELSE IF cur = "" THEN BlockLines(Tail(lines), cur, args)
             ELSE BlockLines(Tail(lines), cur, With(args, cur, Continued(args[cur], line)))

BlockArgs(s, args) ==
    LET all == BlockLines(Lines(s), "", args)
    IN  [k \in DOMAIN all |-> TrimmedRight(all[k])]

-----------------------------------------------------------------------------
(* json_string(), json_skip_bracket() and json_object().                       *)

\* Behind the string whose body begins at j, and what it says; next = 0 if it never
\* ends.
RECURSIVE StringFrom(_, _, _)
StringFrom(s, j, val) ==
    IF j > Len(s) THEN [val |-> val, next |-> 0]
    ELSE IF s[j] = "back" /\ j < Len(s) THEN StringFrom(s, j + 2, Append(val, s[j + 1]))
    ELSE IF s[j] = "quote" THEN [val |-> val, next |-> j + 1]
    ELSE StringFrom(s, j + 1, Append(val, s[j]))
JsonString(s, i) == StringFrom(s, i + 1, <<>>)

\* The position behind the string that begins at i, or the end.
SkipStrings(s, i) ==
    LET str == JsonString(s, i) IN IF str.next = 0 THEN Len(s) + 1 ELSE str.next

RECURSIVE SkipBracket(_, _, _, _)
SkipBracket(s, i, open, depth) ==
    LET shut == IF open = "[" THEN "]" ELSE "}"
    IN  IF i > Len(s) THEN Len(s) + 1
        ELSE CASE s[i] = "quote" -> SkipBracket(s, SkipStrings(s, i), open, depth)
               [] s[i] = open -> SkipBracket(s, i + 1, open, depth + 1)
               [] s[i] = shut -> IF depth = 1 THEN i + 1 ELSE SkipBracket(s, i + 1, open, depth - 1)
               [] OTHER -> SkipBracket(s, i + 1, open, depth)

\* The members from i on: the pairs understood, and the position behind the object.
\* What is inside a member is flattened into it, two levels deep.
RECURSIVE Members(_, _, _, _)
Members(s, i0, depth, kv) ==
    LET sep == Spaces \cup {","}
        i == Skip(s, i0, sep)
        str == JsonString(s, i)
        key == IF TokenAt(s, i, "quote") THEN str.val ELSE <<s[i]>>
        colon == Skip(s, IF TokenAt(s, i, "quote") THEN str.next ELSE i + 1, sep)
        v == Skip(s, colon + 1, Spaces)
        rest == Seek(s, v, {",", "}", "nl"})
        over == [end |-> Len(s) + 1, kv |-> kv]
    IN  CASE i > Len(s) -> over
          [] s[i] = "}" -> [end |-> i + 1, kv |-> kv]
          [] s[i] = "quote" /\ str.next = 0 -> over
          [] s[i] # "quote" /\ s[i] \notin NameTokens -> [end |-> i + 1, kv |-> kv]
          [] ~TokenAt(s, colon, ":") \/ v > Len(s) -> over
          [] s[v] = "quote" ->
                LET val == JsonString(s, v)
                IN  IF val.next = 0 THEN over
                    ELSE Members(s, val.next, depth, Append(kv, <<key, val.val>>))
          [] s[v] = "{" ->
                LET inner == IF depth < 2 THEN Members(s, v + 1, depth + 1, kv).kv ELSE kv
                IN  Members(s, SkipBracket(s, v, "{", 0), depth, inner)
          [] s[v] = "[" ->
                LET e == SkipBracket(s, v, "[", 0)
                IN  Members(s, e, depth, Append(kv, <<key, Part(s, v, e)>>))
          [] OTHER -> Members(s, rest, depth, Append(kv, <<key, Trimmed(Part(s, v, rest))>>))

NameKeys == {<<"tool">>}

\* The call of the object that begins at i, if it names a tool.
JsonCall(s, i) ==
    LET o == Members(s, i + 1, 0, <<>>)
        naming == {n \in DOMAIN o.kv : o.kv[n][1] \in NameKeys}
        args == FoldLeft(LAMBDA a, p : IF p[1] \in NameKeys THEN a ELSE With(a, p[1][1], p[2]),
                         NoArgs, o.kv)
    IN  [next |-> o.end,
         calls |-> IF naming = {} \/ o.kv[Max(naming)][2] = <<>> THEN <<>>
                   ELSE <<[name |-> o.kv[Max(naming)][2], args |-> args, first |-> i,
                           last |-> o.end - 1]>>]

-----------------------------------------------------------------------------
(* ToolRegistry::parse().                                                      *)

MarkerAt(s, i) == TokenAt(s, i, "[[") /\ TokenAt(s, i + 1, "tool") /\ TokenAt(s, i + 2, ":")

\* find_close_marker(): the next [[/ must be the one, or there is none.
CloseMarker(s, from) ==
    LET p == Seek(s, from, {"[[/"}) IN IF TokenAt(s, p + 1, "tool") THEN p ELSE 0

NextMarker(s, from) ==
    LET found == {p \in from..Len(s) : MarkerAt(s, p)}
    IN  IF found = {} THEN Len(s) + 1 ELSE Min(found)

\* Mutant: a block that is not closed goes on to the end of the reply.
MutBlockEnd(s, from) ==
    LET close == CloseMarker(s, from) IN IF close > 0 THEN close ELSE Len(s) + 1

\* Where a block stops: at its closing marker, or else at the next call or the end.
BlockEnd(s, from) ==
    LET close == CloseMarker(s, from)
        next == NextMarker(s, from)
    IN  IF close > 0 /\ close < next THEN close ELSE next

\* The call whose header begins at i and ends at h.  It has a body if a closing marker
\* follows before the next call, or if the header holds no argument.
MarkedCall(s, i, h) ==
    LET header == InlineArgs(Part(s, i + 4, h))
        stop == BlockEnd(s, h + 1)
        closed == CloseMarker(s, h + 1) = stop
        body == closed \/ header = NoArgs
        args == IF body THEN BlockArgs(Part(s, h + 1, stop), header) ELSE header
        keyed == [k \in DOMAIN args \ {"_"} |-> args[k]]
        next == IF ~body THEN h + 1 ELSE IF closed THEN Seek(s, stop, {"]]"}) + 1 ELSE stop
    IN  [name |-> <<s[i + 3]>>, args |-> IF DOMAIN keyed = {} THEN header ELSE keyed,
         first |-> i, last |-> next - 1]

RECURSIVE ParseFrom(_, _)
ParseFrom(s, i) ==
    IF i > Len(s) THEN <<>>
    ELSE IF MarkerAt(s, i)
    THEN LET h == Seek(s, i + 4, {"]]"})
             call == MarkedCall(s, i, h)
         IN  IF ~(i + 3 <= Len(s) /\ s[i + 3] \in NameTokens) \/ h > Len(s) THEN ParseFrom(s, i + 1)
             ELSE <<call>> \o ParseFrom(s, call.last + 1)
    ELSE IF s[i] = "{"
    THEN LET o == JsonCall(s, i) IN o.calls \o ParseFrom(s, o.next)
    ELSE ParseFrom(s, i + 1)

Parse(s) == ParseFrom(s, 1)

\* looks_like_broken_call(), of a text and the calls found in it.
LooksBroken(s, calls) ==
    /\ \E i \in 1..Len(s) : TokenAt(s, i + 1, "tool")
                           /\ (s[i] = "[[" \/ (s[i] = "quote" /\ TokenAt(s, i + 3, ":")))
    /\ calls = <<>>

\* ToolCall::arg()
Arg(call, k) ==
    IF k \in DOMAIN call.args THEN call.args[k]
    ELSE IF DOMAIN call.args = {"_"} THEN call.args["_"] ELSE <<>>

-----------------------------------------------------------------------------
(* The replies: lines, or an object whose members are written in the order of  *)
(* the text, each one level deeper than an unfinished one before it at most.   *)

ToolsInit == reply = <<>> /\ object = <<>> /\ cut = 0

AddLine ==
    /\ object = <<>> /\ Len(reply) < MaxReply
    /\ \E kind \in DOMAIN LineOf : reply' = Append(reply, kind)
    /\ UNCHANGED <<object, cut>>

Deepest == IF object = <<>> THEN 0
           ELSE Last(object).depth + IF Last(object).kind = "obj" THEN 1 ELSE 0

AddMember ==
    /\ reply = <<>> /\ cut = 0 /\ Len(object) < MaxMembers
    /\ \E depth \in 0..Deepest, m \in {"tool"} \X {"plain", "second"}
                                      \cup {"path"} \X {"plain", "tricky", "number", "list", "obj"} :
        /\ depth <= MaxNesting
        /\ object' = Append(object, [depth |-> depth, key |-> m[1], kind |-> m[2]])
    /\ UNCHANGED <<reply, cut>>

Member(m) ==
    Quoted(<<m.key>>) \o <<":", " ">> \o IF m.kind = "obj" THEN <<"{">> ELSE ValueOf[m.kind]

\* The text of member n and of what closes before the next one.
MemberText(n) ==
    LET m == object[n]
        nextDepth == IF n = Len(object) THEN 0 ELSE object[n + 1].depth
        level == m.depth + IF m.kind = "obj" THEN 1 ELSE 0
    IN  Member(m) \o [x \in 1..(level - nextDepth) |-> "}"]
        \o IF n = Len(object) \/ level < nextDepth \/ (m.kind = "obj" /\ level = nextDepth)
           THEN <<>> ELSE <<",", " ">>

Whole == <<"{">> \o FlattenSeq([n \in DOMAIN object |-> MemberText(n)]) \o <<"}">>

\* The answer ends at its budget, inside the object.
Truncate ==
    /\ object # <<>> /\ cut = 0 /\ Len(object) <= MaxCutMembers
    /\ \E n \in 1..(Len(Whole) - 1) : cut' = n
    /\ UNCHANGED <<reply, object>>

ToolsNext == AddLine \/ AddMember \/ Truncate

ToolsSpec == ToolsInit /\ [][ToolsNext]_tcvars

TextOf(lineKinds) ==
    FlattenSeq([n \in DOMAIN lineKinds |->
        (IF n = 1 THEN <<>> ELSE <<"nl">>) \o LineOf[lineKinds[n]]])
Reply ==
    IF object = <<>> THEN TextOf(reply)
    ELSE IF cut > 0 THEN SubSeq(Whole, 1, cut) ELSE Whole

-----------------------------------------------------------------------------
(* What the calls should be, said line by line.                                *)

HeaderKinds == {"bare", "inline", "word"}
KeyKinds == {"key", "value"}
Headers == {n \in DOMAIN reply : reply[n] \in HeaderKinds}

FirstOf(found) == IF found = {} THEN Len(reply) + 1 ELSE Min(found)
NextHeader(n) == FirstOf({m \in Headers : m > n})
Closing(n) == FirstOf({m \in DOMAIN reply : m > n /\ reply[m] = "close"})
\* The lines of the body of the call whose header is line n.
BodyOf(n) ==
    IF Closing(n) < NextHeader(n) THEN (n + 1)..(Closing(n) - 1)
    ELSE IF reply[n] = "bare" THEN (n + 1)..(NextHeader(n) - 1) ELSE {}

CallLines ==
    Headers \cup {n \in DOMAIN reply : reply[n] = "json" /\ \A h \in Headers : n \notin BodyOf(h)}

\* What the last line of this key in the body says, with the lines below it up to the
\* next key, blank ones at either end left out.
Said(body, kind) ==
    LET at == Max({n \in body : reply[n] = kind})
        upTo == {m \in body : m > at /\ reply[m] \in KeyKinds}
        last == IF upTo = {} THEN Max(body) ELSE Min(upTo) - 1
        own == IF kind = "key" THEN <<"a">> ELSE <<>>
    IN  Trimmed(own \o <<"nl">> \o TextOf(SubSeq(reply, at + 1, last)))

KeyName(kind) == IF kind = "key" THEN "path" ELSE "content"
BodyArgs(n) ==
    LET kinds == {reply[m] : m \in BodyOf(n)} \cap KeyKinds
    IN  [k \in {KeyName(kind) : kind \in kinds} |->
            Said(BodyOf(n), CHOOSE kind \in kinds : KeyName(kind) = k)]
ArgsOf(n) ==
    CASE reply[n] = "inline" -> ("command" :> Phrase) @@ BodyArgs(n)
      [] reply[n] = "word" /\ BodyArgs(n) = NoArgs -> "_" :> Phrase
      [] reply[n] = "json" -> "path" :> <<"a">>
      [] OTHER -> BodyArgs(n)

Where(n) == Len(TextOf(SubSeq(reply, 1, n - 1))) + IF n = 1 THEN 1 ELSE 2

\* A reply of well-formed lines is read as those who wrote it meant it: one call for
\* every header and every object that is in no body, in their order, each with the
\* arguments of its own header and its own lines.
CallOfLine(call, n) ==
    /\ call.args = ArgsOf(n)
    /\ call.first = Where(n)
    /\ (reply[n] = "word" /\ DOMAIN call.args = {"_"}) => Arg(call, "command") = Phrase
LinesParsed(calls) ==
    (object = <<>> /\ \A n \in DOMAIN reply : reply[n] \notin {"broken", "other"}) =>
        /\ Len(calls) = Cardinality(CallLines)
        /\ \A n \in CallLines : CallOfLine(calls[Cardinality({m \in CallLines : m <= n})], n)

\* Whatever stands around it, a well-formed header is in the text of exactly one call:
\* its line is neither lost nor run twice, and the reply is not reported as broken.
HeadersKept(calls) ==
    (object = <<>> /\ Headers # {}) =>
        /\ ~LooksBroken(Reply, calls)
        /\ \A h \in Headers :
            Cardinality({n \in DOMAIN calls : Where(h) \in calls[n].first..calls[n].last}) = 1

Decoded(kind) ==
    CASE kind = "tricky" -> <<"}", "quote", "]">>
      [] kind \in {"plain", "second"} -> StripQuotes(ValueOf[kind])
      [] OTHER -> ValueOf[kind]

\* The members that count: those at most two objects deep.
Counted(key) ==
    {n \in DOMAIN object : object[n].key = key /\ object[n].depth <= 2 /\ object[n].kind # "obj"}

\* A whole object that names a tool is one call: the tool it names last, with the
\* argument it gives last.
ObjectsParsed(calls) ==
    (object # <<>> /\ cut = 0) =>
        LET tools == Counted("tool")
            paths == Counted("path")
        IN  IF tools = {} THEN calls = <<>>
            ELSE /\ Len(calls) = 1
                 /\ calls[1].name = Decoded(object[Max(tools)].kind)
                 /\ calls[1].args =
                        IF paths = {} THEN NoArgs ELSE "path" :> Decoded(object[Max(paths)].kind)

\* An object that was cut off never calls with a text that was not written: a string
\* arrives whole or not at all, only a number or a list may have lost its end.
CutKeepsStrings(calls) ==
    (object # <<>> /\ cut > 0) =>
        \A n \in DOMAIN calls :
            /\ n = 1
            /\ \E m \in Counted("tool") : calls[n].name = Decoded(object[m].kind)
            /\ \A k \in DOMAIN calls[n].args : \E m \in Counted(k) :
                LET whole == Decoded(object[m].kind)
                IN  \/ calls[n].args[k] = whole
                    \/ object[m].kind \in {"number", "list"} /\ IsPrefix(calls[n].args[k], whole)

ReadAsWritten(calls) ==
    /\ LinesParsed(calls) /\ HeadersKept(calls)
    /\ ObjectsParsed(calls) /\ CutKeepsStrings(calls)

\* ToolRegistry::parse(): the calls of a reply are those its text spells.
CallsAsWritten == ReadAsWritten(Parse(Reply))
=============================================================================
