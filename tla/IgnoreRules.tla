----------------------------- MODULE IgnoreRules ------------------------------
(***************************************************************************)
(* Which files of a repository are indexed (agent/codebase.cpp): the walk  *)
(* of the directories, the .gitignore files it collects on its way down    *)
(* and drops on its way up, and the patterns in them.  One small tree      *)
(* stands for the repository; the user writes the first line of the root's *)
(* .gitignore character by character, and a second line there or in the    *)
(* directory d.                                                            *)
(*                                                                         *)
(* A path is a sequence of names, a name a sequence of characters.  The    *)
(* tree has nothing that the walk leaves out before or besides the rules:  *)
(* no hidden names (skip_hidden), links or special files, the options      *)
(* extra_ignores and only_exts are empty, and no file is above             *)
(* max_file_bytes.                                                         *)
(***************************************************************************)
EXTENDS Integers, Sequences, SequencesExt

CONSTANTS
    TypedMax        \* model bound: characters of the first line

ASSUME IgnoreAssumption == TypedMax \in Nat

VARIABLES
    typed,          \* the first line of the root's .gitignore
    second          \* where the second line is, and the line

iVars == <<typed, second>>

Characters == {"a", "*", "?", "/", "!"}

\* The tree: a, ab, d/a, d/b, d/e/a, da/a, and a directory a inside e.
Name == [a |-> <<"a">>, b |-> <<"b">>, ab |-> <<"a", "b">>, d |-> <<"d">>, e |-> <<"e">>,
         da |-> <<"d", "a">>]
TreeFiles == {<<Name.a>>, <<Name.ab>>, <<Name.d, Name.a>>, <<Name.d, Name.b>>,
              <<Name.d, Name.e, Name.a>>, <<Name.d, Name.e, Name.ab, Name.a>>,
              <<Name.da, Name.a>>}
TreeDirs == UNION {{SubSeq(f, 1, n) : n \in 1..(Len(f) - 1)} : f \in TreeFiles}
Children(dir) == {p \in TreeFiles \cup TreeDirs :
                    Len(p) = Len(dir) + 1 /\ SubSeq(p, 1, Len(dir)) = dir}

SecondLines == {<<"a">>, <<"!", "a">>, <<"*">>, <<"!", "*">>, <<"/", "a">>, <<"e", "/">>,
                <<"a", "/">>, <<"d", "/", "*">>}

\* The path as the characters between and with its slashes.
Spelled(path) == FoldLeft(LAMBDA s, name : IF s = <<>> THEN name ELSE s \o <<"/">> \o name, <<>>, path)

IgnoreInit ==
    /\ typed = <<>>
    /\ second \in {[dir |-> <<>>, line |-> <<>>]}
                  \cup [dir : {<<>>, <<Name.d>>}, line : SecondLines]

Type ==
    /\ Len(typed) < TypedMax
    /\ \E c \in Characters : typed' = Append(typed, c)
    /\ UNCHANGED second

IgnoreNext == Type

-----------------------------------------------------------------------------
(* Patterns.                                                               *)

\* parse_gitignore(): a leading ! and then a leading / and a trailing / are taken off;
\* what is left of nothing is no rule.
Parsed(line) ==
    LET l1 == IF line # <<>> /\ Head(line) = "!" THEN Tail(line) ELSE line
        l2 == IF l1 # <<>> /\ Head(l1) = "/" THEN Tail(l1) ELSE l1
        l3 == IF l2 # <<>> /\ Last(l2) = "/" THEN Front(l2) ELSE l2
    IN  IF l3 = <<>> THEN <<>>
        ELSE <<[pat |-> l3, negate |-> l1 # line, anchored |-> l2 # l1, dir_only |-> l3 # l2]>>

\* glob_match(): does the pattern from i on match the text from j on?
RECURSIVE Glob(_, _, _, _)
Glob(p, i, s, j) ==
    CASE i > Len(p) -> j > Len(s)
      [] i < Len(p) /\ p[i] = "*" /\ p[i + 1] = "*" ->
            LET q == IF i + 2 <= Len(p) /\ p[i + 2] = "/" THEN i + 3 ELSE i + 2
            IN  q > Len(p) \/ \E t \in j..(Len(s) + 1) : (t = 1 \/ s[t - 1] = "/") /\ Glob(p, q, s, t)
      [] p[i] = "*" ->
            \E t \in j..(Len(s) + 1) : (\A k \in j..(t - 1) : s[k] # "/") /\ Glob(p, i + 1, s, t)
      [] p[i] = "?" -> j <= Len(s) /\ s[j] # "/" /\ Glob(p, i + 1, s, j + 1)
      [] OTHER -> j <= Len(s) /\ p[i] = s[j] /\ Glob(p, i + 1, s, j + 1)

Matches(p, s) == Glob(p, 1, s, 1)

\* rule_matches(): a pattern with a slash is matched against the path, without a leading
\* slash also below any directory; one without, against the name or the end of the name.
RuleMatches(r, path, isDir) ==
    LET base == Last(path)
        wild == \E i \in DOMAIN r.pat : r.pat[i] \in {"*", "?"}
    IN  /\ r.dir_only => isDir
        /\ IF r.anchored \/ Contains(r.pat, "/")
           THEN \/ Matches(r.pat, Spelled(path))
                \/ ~r.anchored /\ \E n \in 2..Len(path) : Matches(r.pat, Spelled(SubSeq(path, n, Len(path))))
           ELSE Matches(r.pat, base) \/ (~wild /\ IsSuffix(r.pat, base))

\* Mutant: the first rule of a file that matches decides.
MutMatchRules(gi, path, isDir) ==
    LET sub == SubSeq(path, Len(gi.dir) + 1, Len(path))
        hits == {i \in DOMAIN gi.rules : RuleMatches(gi.rules[i], sub, isDir)}
    IN  IF SubSeq(path, 1, Len(gi.dir)) # gi.dir \/ sub = <<>> \/ hits = {} THEN "none"
        ELSE IF gi.rules[Min(hits)].negate THEN "kept" ELSE "ignored"

\* match_rules(): the last rule of a file that matches decides.
MatchRules(gi, path, isDir) ==
    LET sub == SubSeq(path, Len(gi.dir) + 1, Len(path))
        hits == {i \in DOMAIN gi.rules : RuleMatches(gi.rules[i], sub, isDir)}
    IN  IF SubSeq(path, 1, Len(gi.dir)) # gi.dir \/ sub = <<>> \/ hits = {} THEN "none"
        ELSE IF gi.rules[Max(hits)].negate THEN "kept" ELSE "ignored"

\* path_ignored(): the deepest file with a verdict decides.
PathIgnored(stack, path, isDir) ==
    LET verdicts == {k \in DOMAIN stack : MatchRules(stack[k], path, isDir) # "none"}
    IN  verdicts # {} /\ MatchRules(stack[Max(verdicts)], path, isDir) = "ignored"

-----------------------------------------------------------------------------
(* The walk.                                                               *)

\* The rules of the .gitignore in a directory.
RulesIn(dir) ==
    (IF dir = <<>> THEN Parsed(typed) ELSE <<>>)
    \o (IF dir = second.dir THEN Parsed(second.line) ELSE <<>>)

\* walk_dir(): the files found below dir; an ignored directory is not entered.
RECURSIVE WalkDir(_, _)
WalkDir(dir, above) ==
    LET stack == IF RulesIn(dir) = <<>> THEN above
                 ELSE Append(above, [dir |-> dir, rules |-> RulesIn(dir)])
    IN  UNION {IF PathIgnored(stack, p, p \in TreeDirs) THEN {}
               ELSE IF p \in TreeDirs THEN WalkDir(p, stack) ELSE {p} : p \in Children(dir)}

-----------------------------------------------------------------------------
(* Properties.                                                             *)

\* A pattern by its segments: ** for any directories, and in a segment * and ? for
\* anything and any one character of a name.
Segments(s) ==
    LET ends == {0, Len(s) + 1} \cup {i \in DOMAIN s : s[i] = "/"}
        cuts == SetToSortSeq(ends, <)
    IN  [n \in 1..(Len(cuts) - 1) |-> SubSeq(s, cuts[n] + 1, cuts[n + 1] - 1)]

Stars == <<"*", "*">>
NamesMatch(p, s) == \* some way to lay the characters of the pattern over the name
    \E lay \in [1..Len(p) -> 0..Len(s)] :
        \A i \in 1..Len(p) :
            LET from == IF i = 1 THEN 0 ELSE lay[i - 1]
            IN  /\ lay[i] >= from /\ (i = Len(p) => lay[i] = Len(s))
                /\ p[i] # "*" => lay[i] = from + 1 /\ p[i] \in {"?", s[lay[i]]}

SegmentsMatch(ps, ss) == \* the number of the path's segments each of the pattern's takes
    \E take \in [DOMAIN ps -> 0..Len(ss)] :
        LET upto(n) == FoldLeft(+, 0, [i \in 1..n |-> take[i]])
        IN  /\ upto(Len(ps)) = Len(ss)
            /\ \A n \in DOMAIN ps :
                  IF ps[n] = Stars THEN n = Len(ps) => take[n] > 0
                  ELSE take[n] = 1 /\ NamesMatch(ps[n], ss[upto(n)])

\* The recursion over characters agrees with that, wherever ** is a segment of its own.
GlobsBySegments ==
    LET ps == Segments(typed)
        plain(p) == p # <<>> /\ (p = Stars \/ \A i \in 1..(Len(p) - 1) : SubSeq(p, i, i + 1) # Stars)
    IN  (typed # <<>> /\ \A n \in DOMAIN ps : plain(ps[n])) =>
            \A f \in TreeFiles : Matches(typed, Spelled(f)) = SegmentsMatch(ps, f)

\* A file is indexed unless it or a directory above it is ignored, where the rule that
\* decides is the last one that matches in the deepest .gitignore that has one.
IndexedAsRuled ==
    LET dirsAbove(p) == {SubSeq(p, 1, n) : n \in 0..(Len(p) - 1)}
        ranked(p) == {<<d, i>> \in dirsAbove(p) \X (1..2) :
                        i \in DOMAIN RulesIn(d)
                        /\ RuleMatches(RulesIn(d)[i], SubSeq(p, Len(d) + 1, Len(p)), p \in TreeDirs)}
        ignored(p) == \E x \in ranked(p) :
                        /\ ~RulesIn(x[1])[x[2]].negate
                        /\ \A y \in ranked(p) : Len(y[1]) < Len(x[1]) \/ (y[1] = x[1] /\ y[2] <= x[2])
    IN  WalkDir(<<>>, <<>>) =
            {f \in TreeFiles : \A n \in 1..Len(f) : ~ignored(SubSeq(f, 1, n))}
=============================================================================
