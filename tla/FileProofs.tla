----------------------------- MODULE FileProofs ------------------------------
(***************************************************************************)
(* What the program keeps in files: the models and the long-term memory.   *)
(*                                                                         *)
(* The models, for every set of configuration files, schedule of growth,   *)
(* set of policies and encodings.  The argument: the constructor registers *)
(* exactly the tensors NamesOf and ShapeOf list for its configuration, and *)
(* grow_depth adds exactly those of one block more; WellBuilt says so of a *)
(* model, with what its tensors hold together, and every step keeps it.    *)
(* The checkpoint is then that of the model that was saved, with a layer   *)
(* for every block the schedule has put before its step; a file cut short  *)
(* lacks one of its tensors and is refused; and a packed file is the plan  *)
(* of the saved configuration, which read_config finds again in it.        *)
(*                                                                         *)
(* The memory, for any texts, importances and programs that take turns:    *)
(* memory and file agree between operations, nothing is held twice, and    *)
(* the file changes as Remembered says.  The argument: ids on the file are *)
(* distinct and below next_id_, so what open() loads is simply the set of  *)
(* lines; during an addition the file is one entry behind the list, during *)
(* a removal one entry ahead, and the second file holds a part of the list *)
(* that the items still to copy make up, whatever an earlier crash had     *)
(* left in it.                                                             *)
(***************************************************************************)
EXTENDS Memory, ModelFiles, FiniteSetTheorems, SequenceTheorems, WellFoundedInduction, TLAPS

-----------------------------------------------------------------------------
(* Induction and recursion over the first numbers.                             *)

\* What holds at 0 and is handed on from one number to the next holds up to n.
LEMMA UpTo ==
    ASSUME NEW n \in Nat, NEW good, 0 \in good,
           \A i \in 1..n : i - 1 \in good => i \in good
    PROVE  \A i \in 0..n : i \in good
<1> DEFINE bad == {i \in 0..n : i \notin good}
<1>1. SUFFICES ASSUME bad # {} PROVE FALSE
  OBVIOUS
<1>2. bad \in SUBSET Nat
  OBVIOUS
<1>3. PICK m \in bad : \A k \in bad : ~(<<k, m>> \in OpToRel(<, Nat))
  BY <1>1, <1>2, NatLessThanWellFounded, WFMin
<1>4. \A k \in bad : ~(k < m)
  BY <1>2, <1>3 DEF OpToRel
<1>5. m # 0 /\ m \in 0..n /\ m \notin good
  OBVIOUS
<1>6. m \in 1..n /\ m - 1 \in 0..n /\ m - 1 < m
  BY <1>5
<1>7. m - 1 \in good
  BY <1>4, <1>6
<1> QED BY <1>5, <1>6, <1>7

\* What is built one step after the other, by F, exists.
Built(h, n, start, F) == h[0] = start /\ \A k \in 1..n : h[k] = F[<<k, h[k - 1]>>]

LEMMA Recursion ==
    ASSUME NEW n \in Nat, NEW S, NEW start \in S, NEW F \in [(1..n) \X S -> S]
    PROVE  \E h \in [0..n -> S] : Built(h, n, start, F)
<1> DEFINE good == {m \in 0..n : \E h \in [0..m -> S] :
                       h[0] = start /\ \A k \in 1..m : h[k] = F[<<k, h[k - 1]>>]}
<1>1. 0 \in good
  <2> DEFINE h == [k \in 0..0 |-> start]
  <2>1. h \in [0..0 -> S] /\ h[0] = start /\ \A k \in 1..0 : h[k] = F[<<k, h[k - 1]>>]
    OBVIOUS
  <2> HIDE DEF h
  <2> QED BY <2>1
<1>2. ASSUME NEW m \in 1..n, m - 1 \in good PROVE m \in good
  <2>1. PICK f \in [0..(m - 1) -> S] :
           f[0] = start /\ \A k \in 1..(m - 1) : f[k] = F[<<k, f[k - 1]>>]
    BY <1>2
  <2> DEFINE g == [k \in 0..m |-> IF k = m THEN F[<<m, f[m - 1]>>] ELSE f[k]]
  <2>2. \A k \in 0..m : g[k] = IF k = m THEN F[<<m, f[m - 1]>>] ELSE f[k]
    OBVIOUS
  <2>3. F[<<m, f[m - 1]>>] \in S
    BY <2>1
  <2>4. g \in [0..m -> S]
    <3>1. \A k \in 0..m : (IF k = m THEN F[<<m, f[m - 1]>>] ELSE f[k]) \in S
      BY <2>3
    <3> QED BY <3>1
  <2> HIDE DEF g
  <2>5. \A k \in 1..m : g[k] = F[<<k, g[k - 1]>>]
    <3> TAKE k \in 1..m
    <3>1. g[k - 1] = f[k - 1]
      BY <2>2
    <3>2. CASE k = m
      BY <2>2, <3>1, <3>2
    <3>3. CASE k # m
      <4>1. k \in 1..(m - 1) /\ g[k] = f[k]
        BY <2>2, <3>3
      <4> QED BY <2>1, <3>1, <4>1
    <3> QED BY <3>2, <3>3
  <2>6. m \in 0..n /\ g[0] = start
    BY <2>1, <2>2
  <2> QED BY <2>4, <2>5, <2>6
<1> HIDE DEF good
<1>3. \A m \in 0..n : m \in good
  <2>1. \A m \in 1..n : m - 1 \in good => m \in good
    BY <1>2
  <2> QED BY <1>1, <2>1, UpTo
<1>4. n \in good
  BY <1>3
<1> QED BY <1>4 DEF good, Built

-----------------------------------------------------------------------------
(* Lists: sequences that hold the members of a set, each of them once.         *)

Lists(s, N) ==
    /\ s \in Seq(N)
    /\ \A x \in N : \E i \in 1..Len(s) : s[i] = x
    /\ \A i, j \in 1..Len(s) : s[i] = s[j] => i = j

LEMMA ListsNone == Lists(<<>>, {})
BY DEF Lists

LEMMA SeqWider ==
    ASSUME NEW S, NEW T, S \subseteq T, NEW s \in Seq(S)
    PROVE  s \in Seq(T)
OBVIOUS

LEMMA ListsOne ==
    ASSUME NEW x
    PROVE  Lists(<<x>>, {x})
<1>1. <<x>> \in Seq({x}) /\ Len(<<x>>) = 1 /\ <<x>>[1] = x
  OBVIOUS
<1> QED BY <1>1 DEF Lists

LEMMA ListsBoth ==
    ASSUME NEW s, NEW N, Lists(s, N), NEW t, NEW M, Lists(t, M), N \cap M = {}
    PROVE  Lists(s \o t, N \cup M)
<1> DEFINE u == s \o t
<1>1. /\ s \in Seq(N) /\ t \in Seq(M)
      /\ Len(s) \in Nat /\ Len(t) \in Nat
      /\ \A i \in 1..Len(s) : s[i] \in N
      /\ \A i \in 1..Len(t) : t[i] \in M
  BY DEF Lists
<1>2. s \in Seq(N \cup M) /\ t \in Seq(N \cup M)
  BY <1>1
<1>3. /\ u \in Seq(N \cup M) /\ Len(u) = Len(s) + Len(t)
      /\ \A i \in 1..(Len(s) + Len(t)) : u[i] = IF i <= Len(s) THEN s[i] ELSE t[i - Len(s)]
  BY <1>2
<1> HIDE DEF u
<1>4. \A i \in 1..Len(s) : i \in 1..Len(u) /\ u[i] = s[i]
  BY <1>1, <1>3
<1>5. \A i \in 1..Len(t) : Len(s) + i \in 1..Len(u) /\ u[Len(s) + i] = t[i]
  <2> TAKE i \in 1..Len(t)
  <2>1. Len(s) + i \in 1..(Len(s) + Len(t)) /\ ~(Len(s) + i <= Len(s)) /\ Len(s) + i - Len(s) = i
    BY <1>1
  <2> QED BY <1>3, <2>1
<1>6. \A x \in N \cup M : \E i \in 1..Len(u) : u[i] = x
  <2> TAKE x \in N \cup M
  <2>1. CASE x \in N
    BY <1>4, <2>1 DEF Lists
  <2>2. CASE x \in M
    <3>1. PICK i \in 1..Len(t) : t[i] = x
      BY <2>2 DEF Lists
    <3> QED BY <1>5, <3>1
  <2> QED BY <2>1, <2>2
<1>7. \A i \in 1..Len(u) : \/ i \in 1..Len(s)
                            \/ \E k \in 1..Len(t) : i = Len(s) + k
  <2> TAKE i \in 1..Len(u)
  <2>1. i <= Len(s) \/ i - Len(s) \in 1..Len(t)
    BY <1>1, <1>3
  <2>2. i = Len(s) + (i - Len(s))
    BY <1>1, <1>3
  <2> QED BY <1>1, <1>3, <2>1, <2>2
<1>8. ASSUME NEW i \in 1..Len(u), NEW j \in 1..Len(u), u[i] = u[j] PROVE i = j
  <2>1. CASE i \in 1..Len(s) /\ j \in 1..Len(s)
    BY <1>4, <1>8, <2>1 DEF Lists
  <2>2. CASE i \in 1..Len(s) /\ j \notin 1..Len(s)
    <3>1. PICK k \in 1..Len(t) : j = Len(s) + k
      BY <1>7, <2>2
    <3>2. s[i] = t[k] /\ s[i] \in N /\ t[k] \in M
      BY <1>1, <1>4, <1>5, <1>8, <2>2, <3>1
    <3> QED BY <3>2
  <2>3. CASE i \notin 1..Len(s) /\ j \in 1..Len(s)
    <3>1. PICK k \in 1..Len(t) : i = Len(s) + k
      BY <1>7, <2>3
    <3>2. s[j] = t[k] /\ s[j] \in N /\ t[k] \in M
      BY <1>1, <1>4, <1>5, <1>8, <2>3, <3>1
    <3> QED BY <3>2
  <2>4. CASE i \notin 1..Len(s) /\ j \notin 1..Len(s)
    <3>1. PICK k \in 1..Len(t) : i = Len(s) + k
      BY <1>7, <2>4
    <3>2. PICK l \in 1..Len(t) : j = Len(s) + l
      BY <1>7, <2>4
    <3>3. t[k] = t[l]
      BY <1>5, <1>8, <3>1, <3>2
    <3>4. k = l
      BY <3>3 DEF Lists
    <3> QED BY <3>1, <3>2, <3>4
  <2> QED BY <2>1, <2>2, <2>3, <2>4
<1> QED BY <1>3, <1>6, <1>8 DEF Lists, u

\* The members a condition brings in.
Given(condition, N) == IF condition THEN N ELSE {}

LEMMA ListsWhen ==
    ASSUME NEW s, NEW N, Lists(s, N), NEW condition \in BOOLEAN
    PROVE  Lists(When(condition, s), Given(condition, N))
BY ListsNone DEF When, Given

\* What is listed has as many members as the list has places.
LEMMA ListsCount ==
    ASSUME NEW s, NEW N, Lists(s, N)
    PROVE  IsFiniteSet(N) /\ Cardinality(N) = Len(s) /\ ToSet(s) = N
<1>1. s \in Seq(N) /\ Len(s) \in Nat /\ DOMAIN s = 1..Len(s) /\ \A i \in 1..Len(s) : s[i] \in N
  BY DEF Lists
<1>2. s \in [1..Len(s) -> N]
  BY <1>1
<1>3. s \in Bijection(1..Len(s), N)
  BY <1>1, <1>2 DEF Lists, Bijection, Injection, Surjection, IsInjective
<1>4. IsFiniteSet(1..Len(s)) /\ Cardinality(1..Len(s)) = Len(s)
  <2> DEFINE n == Len(s)
  <2>1. n \in Nat
    BY <1>1
  <2> HIDE DEF n
  <2>2. IsFiniteSet(1..n) /\ Cardinality(1..n) = IF 1 > n THEN 0 ELSE n - 1 + 1
    BY <2>1, FS_Interval
  <2>3. (IF 1 > n THEN 0 ELSE n - 1 + 1) = n
    BY <2>1
  <2>4. IsFiniteSet(1..n) /\ Cardinality(1..n) = n
    BY <2>2, <2>3
  <2> QED BY <2>4 DEF n
<1>5. IsFiniteSet(N) /\ Cardinality(N) = Cardinality(1..Len(s))
  BY <1>3, <1>4, FS_Bijection DEF ExistsBijection
<1>6. ToSet(s) = N
  BY <1>1 DEF ToSet, Lists
<1> QED BY <1>4, <1>5, <1>6

-----------------------------------------------------------------------------
(* The tensors a configuration has (ModelFiles).                               *)

LEMMA ConfigDomain ==
    ASSUME NEW g \in Configurations
    PROVE  DOMAIN g = DOMAIN Modern
BY DEF Configurations, Modern

\* What write_to writes, from_config reads back.
LEMMA ReadsWhatItWrote ==
    ASSUME NEW g \in Configurations
    PROVE  FromConfig(WriteTo(g)) = g
<1> DEFINE c == WriteTo(g)
<1>1. DOMAIN g = DOMAIN Modern /\ "version" \notin DOMAIN Modern /\ "bias" \in DOMAIN Modern
  BY ConfigDomain DEF Modern
<1>2. DOMAIN c = DOMAIN g \cup {"version"} /\ \A k \in DOMAIN g : c[k] = g[k]
  BY <1>1 DEF WriteTo
<1> HIDE DEF c
<1> DEFINE read == [k \in DOMAIN Modern |-> IF k \in DOMAIN c THEN c[k] ELSE Modern[k]]
<1>3. FromConfig(c) = [read EXCEPT !.bias = c["bias"]]
  BY <1>1, <1>2 DEF FromConfig
<1>4. read = [k \in DOMAIN g |-> g[k]]
  BY <1>1, <1>2
<1>5. g = [k \in DOMAIN g |-> g[k]]
  BY DEF Configurations
<1>6. FromConfig(c) = g
  BY <1>1, <1>2, <1>3, <1>4, <1>5
<1> QED BY <1>6 DEF c

\* The parts of a block, and those around the blocks.
InnerNames(g) ==
    LET layer == g.norm = "layer"
        wide == g.ffn = "gelu" /\ g.bias
    IN  {"n1.g"} \cup Given(layer, {"n1.b"})
        \cup {"attn.qkv.w"} \cup Given(g.bias, {"attn.qkv.b"})
        \cup Given(g.qk, {"attn.qnorm.g", "attn.knorm.g"})
        \cup {"attn.proj.w"} \cup Given(g.bias, {"attn.proj.b"})
        \cup {"n2.g"} \cup Given(layer, {"n2.b"})
        \cup Given(g.ffn = "swiglu", {"mlp.gate.w"})
        \cup {"mlp.up.w"} \cup Given(wide, {"mlp.up.b"})
        \cup {"mlp.down.w"} \cup Given(wide, {"mlp.down.b"})

OuterNames(g) ==
    {"tok_emb"} \cup Given(g.pos = "learned", {"pos_emb"})
    \cup {"norm_f.g"} \cup Given(g.norm = "layer", {"norm_f.b"})
    \cup Given(~g.tied, {"lm_head.w"})

\* Tensors are called by their block and their part.
NamesOf(g) == ({Outside} \X OuterNames(g)) \cup ((0..(g.layers - 1)) \X InnerNames(g))

\* The shape of a part.
ShapeOf(g, p) ==
    LET C == g.embd
        qkv == C + 2 * KvDim(g)
    IN  CASE p = "tok_emb" -> <<g.vocab, C>>
          [] p = "pos_emb" -> <<g.ctx, C>>
          [] p = "lm_head.w" -> <<C, g.vocab>>
          [] p = "attn.qkv.w" -> <<C, qkv>>
          [] p = "attn.qkv.b" -> <<qkv>>
          [] p \in {"attn.qnorm.g", "attn.knorm.g"} -> <<HeadDim(g)>>
          [] p = "attn.proj.w" -> <<C, C>>
          [] p \in {"mlp.gate.w", "mlp.up.w"} -> <<C, Hidden(g)>>
          [] p = "mlp.down.w" -> <<Hidden(g), C>>
          [] p = "mlp.up.b" -> <<Hidden(g)>>
          [] OTHER -> <<C>>

PartsOf(g, N) == {[part |-> p, shape |-> ShapeOf(g, p)] : p \in N}
TensorsOf(g, N) == {[name |-> n, shape |-> ShapeOf(g, n[2])] : n \in N}

\* Lists of parts follow one another as their names do.
LEMMA PartsBoth ==
    ASSUME NEW g, NEW s, NEW N, Lists(s, PartsOf(g, N)), NEW t, NEW M, Lists(t, PartsOf(g, M)),
           N \cap M = {}
    PROVE  Lists(s \o t, PartsOf(g, N \cup M))
<1>1. PartsOf(g, N) \cap PartsOf(g, M) = {}
  <2> SUFFICES ASSUME NEW p \in N, NEW q \in M,
                      [part |-> p, shape |-> ShapeOf(g, p)] = [part |-> q, shape |-> ShapeOf(g, q)]
               PROVE  FALSE
    BY DEF PartsOf
  <2>1. p = q
    OBVIOUS
  <2> QED BY <2>1
<1>2. PartsOf(g, N) \cup PartsOf(g, M) = PartsOf(g, N \cup M)
  BY Zenon DEF PartsOf
<1>3. Lists(s \o t, PartsOf(g, N) \cup PartsOf(g, M))
  BY <1>1, ListsBoth, Zenon
<1> QED BY <1>2, <1>3, Zenon

LEMMA PartsWhen ==
    ASSUME NEW g, NEW s, NEW N, Lists(s, PartsOf(g, N)), NEW condition \in BOOLEAN
    PROVE  Lists(When(condition, s), PartsOf(g, Given(condition, N)))
<1>1. Lists(When(condition, s), Given(condition, PartsOf(g, N)))
  BY ListsWhen
<1>2. Given(condition, PartsOf(g, N)) = PartsOf(g, Given(condition, N))
  BY DEF Given, PartsOf
<1> QED BY <1>1, <1>2, Zenon

LEMMA PartsOne ==
    ASSUME NEW g, NEW p, NEW shape, ShapeOf(g, p) = shape
    PROVE  Lists(<<[part |-> p, shape |-> shape]>>, PartsOf(g, {p}))
<1>1. PartsOf(g, {p}) = {[part |-> p, shape |-> shape]}
  BY DEF PartsOf
<1> QED BY <1>1, ListsOne, Zenon

\* What the constructor registers for a block is what the configuration has there.
LEMMA BlockLists ==
    ASSUME NEW g \in Configurations
    PROVE  Lists(BlockParams(g), PartsOf(g, InnerNames(g)))
<1> DEFINE C == g.embd
           qkv == C + 2 * KvDim(g)
           layer == g.norm = "layer"
           wide == g.ffn = "gelu" /\ g.bias
           v1 == Vector("n1.g", C)
           t1 == v1
           M1 == {"n1.g"}
           s1 == t1
           N1 == M1
           v2 == Vector("n1.b", C)
           t2 == When(layer, v2)
           M2 == Given(layer, {"n1.b"})
           s2 == s1 \o t2
           N2 == N1 \cup M2
           v3 == Matrix("attn.qkv.w", C, qkv)
           t3 == v3
           M3 == {"attn.qkv.w"}
           s3 == s2 \o t3
           N3 == N2 \cup M3
           v4 == Vector("attn.qkv.b", qkv)
           t4 == When(g.bias, v4)
           M4 == Given(g.bias, {"attn.qkv.b"})
           s4 == s3 \o t4
           N4 == N3 \cup M4
           v5 == Vector("attn.qnorm.g", HeadDim(g)) \o Vector("attn.knorm.g", HeadDim(g))
           t5 == When(g.qk, v5)
           M5 == Given(g.qk, {"attn.qnorm.g", "attn.knorm.g"})
           s5 == s4 \o t5
           N5 == N4 \cup M5
           v6 == Matrix("attn.proj.w", C, C)
           t6 == v6
           M6 == {"attn.proj.w"}
           s6 == s5 \o t6
           N6 == N5 \cup M6
           v7 == Vector("attn.proj.b", C)
           t7 == When(g.bias, v7)
           M7 == Given(g.bias, {"attn.proj.b"})
           s7 == s6 \o t7
           N7 == N6 \cup M7
           v8 == Vector("n2.g", C)
           t8 == v8
           M8 == {"n2.g"}
           s8 == s7 \o t8
           N8 == N7 \cup M8
           v9 == Vector("n2.b", C)
           t9 == When(layer, v9)
           M9 == Given(layer, {"n2.b"})
           s9 == s8 \o t9
           N9 == N8 \cup M9
           v10 == Matrix("mlp.gate.w", C, Hidden(g))
           t10 == When(g.ffn = "swiglu", v10)
           M10 == Given(g.ffn = "swiglu", {"mlp.gate.w"})
           s10 == s9 \o t10
           N10 == N9 \cup M10
           v11 == Matrix("mlp.up.w", C, Hidden(g))
           t11 == v11
           M11 == {"mlp.up.w"}
           s11 == s10 \o t11
           N11 == N10 \cup M11
           v12 == Vector("mlp.up.b", Hidden(g))
           t12 == When(wide, v12)
           M12 == Given(wide, {"mlp.up.b"})
           s12 == s11 \o t12
           N12 == N11 \cup M12
           v13 == Matrix("mlp.down.w", Hidden(g), C)
           t13 == v13
           M13 == {"mlp.down.w"}
           s13 == s12 \o t13
           N13 == N12 \cup M13
           v14 == Vector("mlp.down.b", C)
           t14 == When(wide, v14)
           M14 == Given(wide, {"mlp.down.b"})
           s14 == s13 \o t14
           N14 == N13 \cup M14
<1>1. BlockParams(g) = s14 /\ InnerNames(g) = N14
  BY Zenon DEF BlockParams, InnerNames
<1>2. layer \in BOOLEAN /\ wide \in BOOLEAN /\ g.bias \in BOOLEAN /\ g.qk \in BOOLEAN
      /\ (g.ffn = "swiglu") \in BOOLEAN
  BY DEF Configurations
<1> HIDE DEF C, qkv, layer, wide
<1>v1. Lists(v1, PartsOf(g, {"n1.g"}))
  BY PartsOne DEF ShapeOf, Vector, Matrix, C, qkv
<1>v2. Lists(v2, PartsOf(g, {"n1.b"}))
  BY PartsOne DEF ShapeOf, Vector, Matrix, C, qkv
<1>v3. Lists(v3, PartsOf(g, {"attn.qkv.w"}))
  BY PartsOne DEF ShapeOf, Vector, Matrix, C, qkv
<1>v4. Lists(v4, PartsOf(g, {"attn.qkv.b"}))
  BY PartsOne DEF ShapeOf, Vector, Matrix, C, qkv
<1>v5. Lists(v5, PartsOf(g, {"attn.qnorm.g", "attn.knorm.g"}))
  <2> DEFINE h == HeadDim(g)
  <2>1. /\ Lists(<<[part |-> "attn.qnorm.g", shape |-> <<h>>]>>, PartsOf(g, {"attn.qnorm.g"}))
        /\ Lists(<<[part |-> "attn.knorm.g", shape |-> <<h>>]>>, PartsOf(g, {"attn.knorm.g"}))
    BY PartsOne DEF ShapeOf
  <2>2. Lists(v5, PartsOf(g, {"attn.qnorm.g"} \cup {"attn.knorm.g"}))
    BY <2>1, PartsBoth, Zenon DEF Vector
  <2>3. {"attn.qnorm.g"} \cup {"attn.knorm.g"} = {"attn.qnorm.g", "attn.knorm.g"}
    OBVIOUS
  <2> QED BY <2>2, <2>3, Zenon
<1>v6. Lists(v6, PartsOf(g, {"attn.proj.w"}))
  BY PartsOne DEF ShapeOf, Vector, Matrix, C, qkv
<1>v7. Lists(v7, PartsOf(g, {"attn.proj.b"}))
  BY PartsOne DEF ShapeOf, Vector, Matrix, C, qkv
<1>v8. Lists(v8, PartsOf(g, {"n2.g"}))
  BY PartsOne DEF ShapeOf, Vector, Matrix, C, qkv
<1>v9. Lists(v9, PartsOf(g, {"n2.b"}))
  BY PartsOne DEF ShapeOf, Vector, Matrix, C, qkv
<1>v10. Lists(v10, PartsOf(g, {"mlp.gate.w"}))
  BY PartsOne DEF ShapeOf, Vector, Matrix, C, qkv
<1>v11. Lists(v11, PartsOf(g, {"mlp.up.w"}))
  BY PartsOne DEF ShapeOf, Vector, Matrix, C, qkv
<1>v12. Lists(v12, PartsOf(g, {"mlp.up.b"}))
  BY PartsOne DEF ShapeOf, Vector, Matrix, C, qkv
<1>v13. Lists(v13, PartsOf(g, {"mlp.down.w"}))
  BY PartsOne DEF ShapeOf, Vector, Matrix, C, qkv
<1>v14. Lists(v14, PartsOf(g, {"mlp.down.b"}))
  BY PartsOne DEF ShapeOf, Vector, Matrix, C, qkv
<1> HIDE DEF v1, v2, v3, v4, v5, v6, v7, v8, v9, v10, v11, v12, v13, v14
<1>t1. Lists(t1, PartsOf(g, M1))
  BY <1>v1
<1>t2. Lists(t2, PartsOf(g, M2))
  BY <1>2, <1>v2, PartsWhen
<1>t3. Lists(t3, PartsOf(g, M3))
  BY <1>v3
<1>t4. Lists(t4, PartsOf(g, M4))
  BY <1>2, <1>v4, PartsWhen
<1>t5. Lists(t5, PartsOf(g, M5))
  BY <1>2, <1>v5, PartsWhen
<1>t6. Lists(t6, PartsOf(g, M6))
  BY <1>v6
<1>t7. Lists(t7, PartsOf(g, M7))
  BY <1>2, <1>v7, PartsWhen
<1>t8. Lists(t8, PartsOf(g, M8))
  BY <1>v8
<1>t9. Lists(t9, PartsOf(g, M9))
  BY <1>2, <1>v9, PartsWhen
<1>t10. Lists(t10, PartsOf(g, M10))
  BY <1>2, <1>v10, PartsWhen
<1>t11. Lists(t11, PartsOf(g, M11))
  BY <1>v11
<1>t12. Lists(t12, PartsOf(g, M12))
  BY <1>2, <1>v12, PartsWhen
<1>t13. Lists(t13, PartsOf(g, M13))
  BY <1>v13
<1>t14. Lists(t14, PartsOf(g, M14))
  BY <1>2, <1>v14, PartsWhen
<1>d2. N1 \cap M2 = {}
  BY DEF Given
<1>d3. N2 \cap M3 = {}
  BY DEF Given
<1>d4. N3 \cap M4 = {}
  BY DEF Given
<1>d5. N4 \cap M5 = {}
  BY DEF Given
<1>d6. N5 \cap M6 = {}
  BY DEF Given
<1>d7. N6 \cap M7 = {}
  BY DEF Given
<1>d8. N7 \cap M8 = {}
  BY DEF Given
<1>d9. N8 \cap M9 = {}
  BY DEF Given
<1>d10. N9 \cap M10 = {}
  BY DEF Given
<1>d11. N10 \cap M11 = {}
  BY DEF Given
<1>d12. N11 \cap M12 = {}
  BY DEF Given
<1>d13. N12 \cap M13 = {}
  BY DEF Given
<1>d14. N13 \cap M14 = {}
  BY DEF Given
<1> HIDE DEF t1, M1, t2, M2, t3, M3, t4, M4, t5, M5, t6, M6, t7, M7, t8, M8, t9, M9, t10, M10, t11, M11, t12, M12, t13, M13, t14, M14
<1>s2. Lists(s2, PartsOf(g, N2))
  BY <1>t1, <1>t2, <1>d2, PartsBoth, Zenon
<1> HIDE DEF s2, N2
<1>s3. Lists(s3, PartsOf(g, N3))
  BY <1>s2, <1>t3, <1>d3, PartsBoth, Zenon
<1> HIDE DEF s3, N3
<1>s4. Lists(s4, PartsOf(g, N4))
  BY <1>s3, <1>t4, <1>d4, PartsBoth, Zenon
<1> HIDE DEF s4, N4
<1>s5. Lists(s5, PartsOf(g, N5))
  BY <1>s4, <1>t5, <1>d5, PartsBoth, Zenon
<1> HIDE DEF s5, N5
<1>s6. Lists(s6, PartsOf(g, N6))
  BY <1>s5, <1>t6, <1>d6, PartsBoth, Zenon
<1> HIDE DEF s6, N6
<1>s7. Lists(s7, PartsOf(g, N7))
  BY <1>s6, <1>t7, <1>d7, PartsBoth, Zenon
<1> HIDE DEF s7, N7
<1>s8. Lists(s8, PartsOf(g, N8))
  BY <1>s7, <1>t8, <1>d8, PartsBoth, Zenon
<1> HIDE DEF s8, N8
<1>s9. Lists(s9, PartsOf(g, N9))
  BY <1>s8, <1>t9, <1>d9, PartsBoth, Zenon
<1> HIDE DEF s9, N9
<1>s10. Lists(s10, PartsOf(g, N10))
  BY <1>s9, <1>t10, <1>d10, PartsBoth, Zenon
<1> HIDE DEF s10, N10
<1>s11. Lists(s11, PartsOf(g, N11))
  BY <1>s10, <1>t11, <1>d11, PartsBoth, Zenon
<1> HIDE DEF s11, N11
<1>s12. Lists(s12, PartsOf(g, N12))
  BY <1>s11, <1>t12, <1>d12, PartsBoth, Zenon
<1> HIDE DEF s12, N12
<1>s13. Lists(s13, PartsOf(g, N13))
  BY <1>s12, <1>t13, <1>d13, PartsBoth, Zenon
<1> HIDE DEF s13, N13
<1>s14. Lists(s14, PartsOf(g, N14))
  BY <1>s13, <1>t14, <1>d14, PartsBoth, Zenon
<1> QED BY <1>1, <1>s14, Zenon

LEMMA TensorsBoth ==
    ASSUME NEW g, NEW s, NEW N, Lists(s, TensorsOf(g, N)), NEW t, NEW M, Lists(t, TensorsOf(g, M)),
           N \cap M = {}
    PROVE  Lists(s \o t, TensorsOf(g, N \cup M))
<1>1. TensorsOf(g, N) \cap TensorsOf(g, M) = {}
  <2> SUFFICES ASSUME NEW p \in N, NEW q \in M,
                      [name |-> p, shape |-> ShapeOf(g, p[2])] = [name |-> q, shape |-> ShapeOf(g, q[2])]
               PROVE  FALSE
    BY DEF TensorsOf
  <2>1. p = q
    OBVIOUS
  <2> QED BY <2>1
<1>2. TensorsOf(g, N) \cup TensorsOf(g, M) = TensorsOf(g, N \cup M)
  BY Zenon DEF TensorsOf
<1>3. Lists(s \o t, TensorsOf(g, N) \cup TensorsOf(g, M))
  BY <1>1, ListsBoth, Zenon
<1> QED BY <1>2, <1>3, Zenon

\* The parts of a block, named after it.
LEMMA InBlockLists ==
    ASSUME NEW g, NEW l, NEW params, NEW N, Lists(params, PartsOf(g, N))
    PROVE  Lists(InBlock(l, params), TensorsOf(g, {l} \X N))
<1> DEFINE n == Len(params)
           named == [i \in 1..n |-> [name |-> <<l, params[i].part>>, shape |-> params[i].shape]]
<1>1. /\ n \in Nat /\ DOMAIN params = 1..n
      /\ \A i \in 1..n : params[i] \in PartsOf(g, N)
      /\ \A x \in PartsOf(g, N) : \E i \in 1..n : params[i] = x
      /\ \A i, j \in 1..n : params[i] = params[j] => i = j
  BY DEF Lists
<1>2. InBlock(l, params) = named
  BY <1>1 DEF InBlock
<1> HIDE DEF n
<1>3. \A i \in 1..n : \E p \in N : /\ params[i] = [part |-> p, shape |-> ShapeOf(g, p)]
                                  /\ named[i] = [name |-> <<l, p>>, shape |-> ShapeOf(g, p)]
  BY <1>1 DEF PartsOf
<1>4. \A p \in N : [name |-> <<l, p>>, shape |-> ShapeOf(g, p)] \in TensorsOf(g, {l} \X N)
  <2> TAKE p \in N
  <2>1. <<l, p>> \in {l} \X N /\ <<l, p>>[2] = p
    OBVIOUS
  <2> QED BY <2>1 DEF TensorsOf
<1>5. \A i \in 1..n : named[i] \in TensorsOf(g, {l} \X N)
  <2> HIDE DEF named
  <2> QED BY <1>3, <1>4, Zenon
<1>6. named \in Seq(TensorsOf(g, {l} \X N)) /\ Len(named) = n
  <2>1. \A i \in 1..n : [name |-> <<l, params[i].part>>, shape |-> params[i].shape]
                          \in TensorsOf(g, {l} \X N)
    BY <1>5
  <2> DEFINE Q == TensorsOf(g, {l} \X N)
             e(i) == [name |-> <<l, params[i].part>>, shape |-> params[i].shape]
  <2>2. \A i \in 1..n : e(i) \in Q
    BY <2>1
  <2> HIDE DEF Q, e
  <2>3. [i \in 1..n |-> e(i)] \in Seq(Q) /\ Len([i \in 1..n |-> e(i)]) = n
    BY <1>1, <2>2
  <2> QED BY <2>3 DEF Q, e
<1>7. \A x \in TensorsOf(g, {l} \X N) : \E i \in 1..n : named[i] = x
  <2> TAKE x \in TensorsOf(g, {l} \X N)
  <2>1. PICK p \in N : x = [name |-> <<l, p>>, shape |-> ShapeOf(g, p)]
    BY DEF TensorsOf
  <2>2. [part |-> p, shape |-> ShapeOf(g, p)] \in PartsOf(g, N)
    BY DEF PartsOf
  <2>3. PICK i \in 1..n : params[i] = [part |-> p, shape |-> ShapeOf(g, p)]
    BY <1>1, <2>2
  <2>4. named[i] = x
    BY <2>1, <2>3
  <2> QED BY <2>4
<1>8. \A i, j \in 1..n : named[i] = named[j] => i = j
  <2> HIDE DEF named
  <2> SUFFICES ASSUME NEW i \in 1..n, NEW j \in 1..n, named[i] = named[j] PROVE i = j
    OBVIOUS
  <2>1. PICK p \in N : /\ params[i] = [part |-> p, shape |-> ShapeOf(g, p)]
                       /\ named[i] = [name |-> <<l, p>>, shape |-> ShapeOf(g, p)]
    BY <1>3
  <2>2. PICK q \in N : /\ params[j] = [part |-> q, shape |-> ShapeOf(g, q)]
                       /\ named[j] = [name |-> <<l, q>>, shape |-> ShapeOf(g, q)]
    BY <1>3
  <2>4. <<l, p>> = <<l, q>>
    <3> DEFINE a == [name |-> <<l, p>>, shape |-> ShapeOf(g, p)]
               b == [name |-> <<l, q>>, shape |-> ShapeOf(g, q)]
    <3>1. a.name = <<l, p>> /\ b.name = <<l, q>>
      OBVIOUS
    <3>2. a = b
      BY <2>1, <2>2, Zenon
    <3> HIDE DEF a, b
    <3> QED BY ONLY <3>1, <3>2
  <2>3. p = q
    BY <2>4
  <2> QED BY <1>1, <2>1, <2>2, <2>3
<1> HIDE DEF named
<1> QED BY <1>2, <1>6, <1>7, <1>8 DEF Lists

\* The blocks, one after the other, have every part of every block.
LEMMA BlocksList ==
    ASSUME NEW g \in Configurations, g.layers \in Nat
    PROVE  Lists(BlocksOf(g), TensorsOf(g, (0..(g.layers - 1)) \X InnerNames(g)))
<1> DEFINE n == g.layers
           I == InnerNames(g)
           B == BlockParams(g)
           S == Seq(TensorsOf(g, Int \X I))
           spec(f) == [l \in 0..n |-> IF l = 0 THEN <<>> ELSE f[l - 1] \o InBlock(l - 1, B)]
           upto == CHOOSE f : f = spec(f)
           F == [p \in (1..n) \X S |-> p[2] \o InBlock(p[1] - 1, B)]
<1>1. n \in Nat /\ <<>> \in S
  OBVIOUS
<1>2. \A l \in Int : Lists(InBlock(l, B), TensorsOf(g, {l} \X I))
  BY BlockLists, InBlockLists
<1>3. \A l \in Int : InBlock(l, B) \in S
  <2> TAKE l \in Int
  <2>1. TensorsOf(g, {l} \X I) \subseteq TensorsOf(g, Int \X I)
    BY DEF TensorsOf
  <2>2. InBlock(l, B) \in Seq(TensorsOf(g, {l} \X I))
    BY <1>2 DEF Lists
  <2>3. InBlock(l, B) \in Seq(TensorsOf(g, Int \X I))
    BY ONLY <2>1, <2>2, SeqWider
  <2> QED BY <2>3
<1> HIDE DEF n, I, B
<1>4. F \in [(1..n) \X S -> S]
  <2>1. \A p \in (1..n) \X S : p[2] \o InBlock(p[1] - 1, B) \in S
    <3> TAKE p \in (1..n) \X S
    <3>1. p[1] - 1 \in Int /\ p[2] \in S
      BY <1>1
    <3>2. InBlock(p[1] - 1, B) \in S
      BY <1>3, <3>1
    <3> QED BY <3>1, <3>2
  <2> HIDE DEF S
  <2> QED BY <2>1
<1>5. PICK h \in [0..n -> S] : Built(h, n, <<>>, F)
  <2> HIDE DEF F, S
  <2> QED BY <1>1, <1>4, Recursion
<1>6. \A k \in 1..n : h[k] = h[k - 1] \o InBlock(k - 1, B)
  <2> TAKE k \in 1..n
  <2>1. h[k - 1] \in S /\ h[k] = F[<<k, h[k - 1]>>]
    <3>1. k - 1 \in 0..n
      BY <1>1
    <3> HIDE DEF F, S
    <3> QED BY ONLY <1>5, <3>1 DEF Built
  <2> HIDE DEF S
  <2> QED BY <2>1
<1>7. h = spec(h)
  <2>1. \A k \in 0..n : h[k] = IF k = 0 THEN <<>> ELSE h[k - 1] \o InBlock(k - 1, B)
    <3>1. h[0] = <<>>
      BY <1>5 DEF Built
    <3>2. \A k \in 0..n : k = 0 \/ k \in 1..n
      BY <1>1
    <3> HIDE DEF F, S
    <3> QED BY <1>6, <3>1, <3>2
  <2> HIDE DEF S
  <2> QED BY <1>5, <2>1
<1>8. upto = spec(upto)
  <2> HIDE DEF spec
  <2> QED BY <1>7
<1>9. BlocksOf(g) = upto[n]
  BY DEF BlocksOf, n, B
<1> HIDE DEF upto, F, S
<1>10. upto[0] = <<>> /\ \A k \in 1..n : upto[k] = upto[k - 1] \o InBlock(k - 1, B)
  <2>1. \A k \in 0..n : upto[k] = IF k = 0 THEN <<>> ELSE upto[k - 1] \o InBlock(k - 1, B)
    BY <1>8
  <2>2. 0 \in 0..n /\ \A k \in 1..n : k \in 0..n /\ k # 0
    BY ONLY <1>1
  <2> QED BY ONLY <2>1, <2>2
<1> DEFINE good == {k \in 0..n : Lists(upto[k], TensorsOf(g, (0..(k - 1)) \X I))}
<1>11. 0 \in good
  <2>1. TensorsOf(g, (0..(0 - 1)) \X I) = {}
    BY DEF TensorsOf
  <2> QED BY <1>1, <1>10, <2>1, ListsNone
<1>12. ASSUME NEW k \in 1..n, k - 1 \in good PROVE k \in good
  <2>1. k - 1 \in Int /\ k \in 0..n
    BY <1>1
  <2>2. Lists(upto[k - 1], TensorsOf(g, (0..((k - 1) - 1)) \X I))
    BY <1>12
  <2>3. ((0..((k - 1) - 1)) \X I) \cap ({k - 1} \X I) = {}
    BY <2>1
  <2>4. ((0..((k - 1) - 1)) \X I) \cup ({k - 1} \X I) = (0..(k - 1)) \X I
    <3>1. 0..((k - 1) - 1) \cup {k - 1} = 0..(k - 1)
      BY <1>1
    <3> QED BY <3>1
  <2>5. Lists(upto[k - 1] \o InBlock(k - 1, B),
              TensorsOf(g, ((0..((k - 1) - 1)) \X I) \cup ({k - 1} \X I)))
    BY <1>2, <2>1, <2>2, <2>3, TensorsBoth
  <2>6. Lists(upto[k], TensorsOf(g, (0..(k - 1)) \X I))
    BY <1>10, <2>4, <2>5
  <2> QED BY <2>1, <2>6
<1> HIDE DEF good
<1>13. \A k \in 0..n : k \in good
  <2>1. \A k \in 1..n : k - 1 \in good => k \in good
    BY <1>12
  <2> QED BY <1>1, <1>11, <2>1, UpTo
<1>14. n \in good
  BY <1>1, <1>13
<1> QED BY <1>9, <1>14 DEF good, n, I

\* What the constructor registers is what the configuration has.
LEMMA RegisteredLists ==
    ASSUME NEW g \in Configurations, g.layers \in Nat
    PROVE  Lists(Registered(g), TensorsOf(g, NamesOf(g)))
<1> DEFINE learned == g.pos = "learned"
           layer == g.norm = "layer"
           untied == ~g.tied
           v1 == Matrix("tok_emb", g.vocab, g.embd)
           v2 == Matrix("pos_emb", g.ctx, g.embd)
           v3 == Vector("norm_f.g", g.embd)
           v4 == Vector("norm_f.b", g.embd)
           v5 == Matrix("lm_head.w", g.embd, g.vocab)
           front == v1 \o When(learned, v2)
           back == v3 \o When(layer, v4) \o When(untied, v5)
           F == {"tok_emb"} \cup Given(learned, {"pos_emb"})
           L == {"norm_f.g"} \cup Given(layer, {"norm_f.b"}) \cup Given(untied, {"lm_head.w"})
           I == InnerNames(g)
           Z == 0..(g.layers - 1)
<1>1. /\ Registered(g) = InBlock(Outside, front) \o BlocksOf(g) \o InBlock(Outside, back)
      /\ OuterNames(g) = {"tok_emb"} \cup Given(learned, {"pos_emb"}) \cup {"norm_f.g"}
                         \cup Given(layer, {"norm_f.b"}) \cup Given(untied, {"lm_head.w"})
  BY Zenon DEF Registered, OuterNames
<1>2. OuterNames(g) = F \cup L
  <2> HIDE DEF learned, layer, untied
  <2> QED BY <1>1
<1>3. learned \in BOOLEAN /\ layer \in BOOLEAN /\ untied \in BOOLEAN
  OBVIOUS
<1>4. /\ Lists(v1, PartsOf(g, {"tok_emb"})) /\ Lists(v2, PartsOf(g, {"pos_emb"}))
      /\ Lists(v3, PartsOf(g, {"norm_f.g"})) /\ Lists(v4, PartsOf(g, {"norm_f.b"}))
      /\ Lists(v5, PartsOf(g, {"lm_head.w"}))
  BY PartsOne DEF ShapeOf, Vector, Matrix
<1> HIDE DEF v1, v2, v3, v4, v5, learned, layer, untied
<1>5. /\ Lists(When(learned, v2), PartsOf(g, Given(learned, {"pos_emb"})))
      /\ Lists(When(layer, v4), PartsOf(g, Given(layer, {"norm_f.b"})))
      /\ Lists(When(untied, v5), PartsOf(g, Given(untied, {"lm_head.w"})))
  BY <1>3, <1>4, PartsWhen
<1>6. Lists(front, PartsOf(g, F))
  <2>1. {"tok_emb"} \cap Given(learned, {"pos_emb"}) = {}
    BY DEF Given
  <2> QED BY <1>4, <1>5, <2>1, PartsBoth, Zenon
<1>7. Lists(v3 \o When(layer, v4), PartsOf(g, {"norm_f.g"} \cup Given(layer, {"norm_f.b"})))
  <2>1. {"norm_f.g"} \cap Given(layer, {"norm_f.b"}) = {}
    BY DEF Given
  <2> QED BY <1>4, <1>5, <2>1, PartsBoth, Zenon
<1>8. Lists(back, PartsOf(g, L))
  <2>1. ({"norm_f.g"} \cup Given(layer, {"norm_f.b"})) \cap Given(untied, {"lm_head.w"}) = {}
    BY DEF Given
  <2> QED BY <1>5, <1>7, <2>1, PartsBoth, Zenon
<1>9. F \cap L = {}
  BY DEF Given
<1> HIDE DEF front, back, F, L
<1>10. /\ Lists(InBlock(Outside, front), TensorsOf(g, {Outside} \X F))
       /\ Lists(InBlock(Outside, back), TensorsOf(g, {Outside} \X L))
  BY <1>6, <1>8, InBlockLists
<1>11. Lists(BlocksOf(g), TensorsOf(g, Z \X I))
  BY BlocksList
<1>12. Outside \notin Z
  BY DEF Outside
<1> HIDE DEF I, Z
<1>13. Lists(InBlock(Outside, front) \o BlocksOf(g), TensorsOf(g, ({Outside} \X F) \cup (Z \X I)))
  <2>1. ({Outside} \X F) \cap (Z \X I) = {}
    BY <1>12
  <2> QED BY <1>10, <1>11, <2>1, TensorsBoth, Zenon
<1>14. Lists(Registered(g), TensorsOf(g, (({Outside} \X F) \cup (Z \X I)) \cup ({Outside} \X L)))
  <2>1. (({Outside} \X F) \cup (Z \X I)) \cap ({Outside} \X L) = {}
    BY <1>9, <1>12
  <2>2. Lists((InBlock(Outside, front) \o BlocksOf(g)) \o InBlock(Outside, back),
              TensorsOf(g, (({Outside} \X F) \cup (Z \X I)) \cup ({Outside} \X L)))
    BY <1>10, <1>13, <2>1, TensorsBoth, Zenon
  <2> QED BY <1>1, <2>2 DEF front, back
<1>15. (({Outside} \X F) \cup (Z \X I)) \cup ({Outside} \X L) = NamesOf(g)
  <2>1. NamesOf(g) = ({Outside} \X (F \cup L)) \cup (Z \X I)
    BY <1>2, Zenon DEF NamesOf, Z, I
  <2> QED BY <2>1
<1> QED BY <1>14, <1>15, Zenon

-----------------------------------------------------------------------------
(* Parameters, counted (ModelFiles): what is registered or added, tensor by    *)
(* tensor, is what the formula of the configuration announces.                 *)

PartNames ==
    {"n1.g", "n1.b", "attn.qkv.w", "attn.qkv.b", "attn.qnorm.g", "attn.knorm.g", "attn.proj.w",
     "attn.proj.b", "n2.g", "n2.b", "mlp.gate.w", "mlp.up.w", "mlp.up.b", "mlp.down.w",
     "mlp.down.b", "tok_emb", "pos_emb", "norm_f.g", "norm_f.b", "lm_head.w"}

\* The dimensions of a valid configuration.
LEMMA DimsAre ==
    ASSUME NEW g \in Configurations, Valid(g)
    PROVE  /\ g.embd \in Nat \ {0} /\ g.vocab \in Nat \ {0} /\ g.ctx \in Nat \ {0}
           /\ HeadDim(g) \in Nat \ {0} /\ KvDim(g) \in Nat \ {0} /\ Hidden(g) \in Nat \ {0}
           /\ g.embd + 2 * KvDim(g) \in Nat \ {0}
<1> DEFINE C == g.embd
           D == HeadDim(g)
           K == KvDim(g)
           H == Hidden(g)
           V == g.vocab
           X == g.ctx
<1>1. C \in Nat \ {0} /\ V \in Nat \ {0} /\ X \in Nat \ {0}
  BY DEF Configurations, Valid
<1>2. D \in Nat \ {0}
  <2>1. g.heads \in Nat \ {0} /\ C % g.heads = 0
    BY DEF Configurations, Valid
  <2>2. D = C \div g.heads
    BY DEF HeadDim
  <2> HIDE DEF C, D
  <2> QED BY <1>1, <2>1, <2>2
<1>3. K \in Nat \ {0}
  <2>1. KvHeads(g) \in Nat \ {0}
    BY DEF KvHeads, Configurations, Valid
  <2>2. K = KvHeads(g) * D
    BY DEF KvDim
  <2> HIDE DEF K, D
  <2> QED BY <1>2, <2>1, <2>2
<1>4. H \in Nat \ {0}
  <2>1. g.hidden \in Int
    BY DEF Configurations
  <2>2. CASE g.hidden > 0
    BY <2>1, <2>2 DEF Hidden
  <2>3. CASE ~(g.hidden > 0) /\ g.ffn = "swiglu"
    <3>1. H = (((C * 8) \div 3 + 63) \div 64) * 64
      BY <2>3 DEF Hidden
    <3> HIDE DEF C, H
    <3>2. (C * 8) \div 3 \in Nat /\ (C * 8) \div 3 >= 1
      BY <1>1
    <3>3. \A x \in Nat : x >= 1 => ((x + 63) \div 64) * 64 \in Nat \ {0}
      OBVIOUS
    <3> QED BY <3>1, <3>2, <3>3
  <2>4. CASE ~(g.hidden > 0) /\ g.ffn # "swiglu"
    <3>1. H = 4 * C
      BY <2>4 DEF Hidden
    <3> HIDE DEF C, H
    <3> QED BY <1>1, <3>1
  <2> QED BY <2>2, <2>3, <2>4
<1> DEFINE Q == C + 2 * K
<1>5. Q \in Nat \ {0}
  <2>1. \A x, y \in Nat : x > 0 => x + 2 * y \in Nat /\ x + 2 * y > 0
    BY SMTT(20)
  <2>2. C \in Nat /\ C > 0 /\ K \in Nat
    BY <1>1, <1>3
  <2> HIDE DEF C, K
  <2>3. C + 2 * K \in Nat /\ C + 2 * K > 0
    BY ONLY <2>1, <2>2
  <2> HIDE DEF Q
  <2>5. Q \in Nat /\ Q > 0
    BY ONLY <2>3 DEF Q
  <2> QED BY ONLY <2>5
<1> QED BY <1>1, <1>2, <1>3, <1>4, <1>5 DEF Q

\* Shapes are of one or of two numbers, and none of them is zero.
LEMMA ShapeForms ==
    ASSUME NEW g \in Configurations, Valid(g), NEW p
    PROVE  \/ \E a \in Nat \ {0} : ShapeOf(g, p) = <<a>>
           \/ \E a, b \in Nat \ {0} : ShapeOf(g, p) = <<a, b>>
<1> DEFINE C == g.embd
           D == HeadDim(g)
           H == Hidden(g)
           V == g.vocab
           X == g.ctx
           Q == C + 2 * KvDim(g)
<1>6. \/ \E a \in {V, X, C, Q, D, H} : ShapeOf(g, p) = <<a>>
      \/ \E a, b \in {V, X, C, Q, D, H} : ShapeOf(g, p) = <<a, b>>
  BY DEF ShapeOf
<1>8. \A a \in {V, X, C, Q, D, H} : a \in Nat \ {0}
  BY DimsAre
<1> HIDE DEF C, D, H, V, X, Q
<1> QED BY <1>6, <1>8

\* So no tensor of a valid configuration is empty.
LEMMA TensorsHaveSize ==
    ASSUME NEW g \in Configurations, Valid(g), NEW p
    PROVE  Numel(ShapeOf(g, p)) \in Nat \ {0}
<1>7. \A a, b \in Nat \ {0} : a * b \in Nat \ {0}
  OBVIOUS
<1>9. CASE \E a \in Nat \ {0} : ShapeOf(g, p) = <<a>>
  <2>1. PICK a \in Nat \ {0} : ShapeOf(g, p) = <<a>>
    BY <1>9
  <2>2. Numel(<<a>>) = a
    BY DEF Numel
  <2> QED BY <2>1, <2>2
<1>10. CASE \E a, b \in Nat \ {0} : ShapeOf(g, p) = <<a, b>>
  <2>1. PICK a \in Nat \ {0}, b \in Nat \ {0} : ShapeOf(g, p) = <<a, b>>
    BY <1>10
  <2>2. Numel(<<a, b>>) = a * b
    BY DEF Numel
  <2> QED BY <1>7, <2>1, <2>2
<1> QED BY <1>9, <1>10, ShapeForms

\* Sums, one number after the other.
LEMMA SumsAre ==
    ASSUME NEW s \in Seq(Nat)
    PROVE  /\ SumsOver(s) \in [0..Len(s) -> Nat] /\ SumsOver(s)[0] = 0
           /\ \A k \in 1..Len(s) : SumsOver(s)[k] = SumsOver(s)[k - 1] + s[k]
<1> DEFINE n == Len(s)
           spec(f) == [k \in 0..n |-> IF k = 0 THEN 0 ELSE f[k - 1] + s[k]]
           sum == CHOOSE f : f = spec(f)
           F == [p \in (1..n) \X Nat |-> p[2] + s[p[1]]]
<1>1. n \in Nat /\ 0 \in Nat /\ \A k \in 1..n : s[k] \in Nat
  OBVIOUS
<1>2. SumsOver(s) = sum
  BY DEF SumsOver
<1> HIDE DEF n
<1>4. F \in [(1..n) \X Nat -> Nat]
  BY <1>1
<1>5. PICK h \in [0..n -> Nat] : Built(h, n, 0, F)
  <2> HIDE DEF F
  <2> QED BY <1>1, <1>4, Recursion
<1>6. \A k \in 1..n : h[k] = h[k - 1] + s[k]
  <2> TAKE k \in 1..n
  <2>1. h[k - 1] \in Nat /\ h[k] = F[<<k, h[k - 1]>>]
    <3>1. k - 1 \in 0..n
      BY <1>1
    <3> HIDE DEF F
    <3> QED BY ONLY <1>5, <3>1 DEF Built
  <2> QED BY <2>1
<1>7. h = spec(h)
  <2>1. \A k \in 0..n : h[k] = IF k = 0 THEN 0 ELSE h[k - 1] + s[k]
    <3>1. h[0] = 0
      BY <1>5 DEF Built
    <3>2. \A k \in 0..n : k = 0 \/ k \in 1..n
      BY <1>1
    <3> HIDE DEF F
    <3> QED BY <1>6, <3>1, <3>2
  <2> QED BY <1>5, <2>1
<1>8. sum = spec(sum)
  <2> HIDE DEF spec
  <2> QED BY <1>7
<1> HIDE DEF sum, F
<1>9. DOMAIN sum = 0..n /\ \A k \in 0..n : sum[k] = IF k = 0 THEN 0 ELSE sum[k - 1] + s[k]
  BY <1>8
<1>10. sum[0] = 0 /\ \A k \in 1..n : sum[k] = sum[k - 1] + s[k]
  <2>1. 0 \in 0..n /\ \A k \in 1..n : k \in 0..n /\ k # 0
    BY ONLY <1>1
  <2> QED BY ONLY <1>9, <2>1
<1> DEFINE good == {k \in 0..n : sum[k] \in Nat}
<1>11. 0 \in good
  BY <1>1, <1>10
<1>12. \A k \in 1..n : k - 1 \in good => k \in good
  <2> TAKE k \in 1..n
  <2> HAVE k - 1 \in good
  <2>1. sum[k - 1] \in Nat /\ s[k] \in Nat /\ k \in 0..n /\ sum[k] = sum[k - 1] + s[k]
    BY <1>1, <1>10
  <2> QED BY <2>1
<1> HIDE DEF good
<1>13. \A k \in 0..n : k \in good
  BY <1>1, <1>11, <1>12, UpTo
<1>14. sum = [k \in 0..n |-> sum[k]]
  <2>1. \A f : f = spec(f) => f = [k \in 0..n |-> f[k]]
    OBVIOUS
  <2> HIDE DEF spec
  <2> QED BY <1>8, <2>1
<1>15. sum \in [0..n -> Nat]
  <2>1. \A k \in 0..n : sum[k] \in Nat
    BY <1>13 DEF good
  <2> QED BY ONLY <1>14, <2>1
<1> QED BY <1>2, <1>10, <1>15 DEF n

\* What the members of a sequence weigh together.
Weight(s, Z) == SumsOver([i \in 1..Len(s) |-> Z[s[i]]])
Weighs(s, Z, w) == s \in Seq(DOMAIN Z) /\ w \in Nat /\ Weight(s, Z)[Len(s)] = w

LEMMA WeightsAre ==
    ASSUME NEW X, NEW Z \in [X -> Nat], NEW s \in Seq(X)
    PROVE  /\ Weight(s, Z) \in [0..Len(s) -> Nat] /\ Weight(s, Z)[0] = 0
           /\ \A k \in 1..Len(s) : Weight(s, Z)[k] = Weight(s, Z)[k - 1] + Z[s[k]]
<1> DEFINE n == Len(s)
           e(i) == Z[s[i]]
           a == [i \in 1..n |-> e(i)]
<1>1. n \in Nat /\ \A i \in 1..n : e(i) \in Nat
  OBVIOUS
<1> HIDE DEF n, e
<1>2. a \in Seq(Nat) /\ Len(a) = n /\ \A k \in 1..n : a[k] = e(k)
  BY ONLY <1>1
<1> HIDE DEF a
<1>3. /\ SumsOver(a) \in [0..Len(a) -> Nat] /\ SumsOver(a)[0] = 0
      /\ \A k \in 1..Len(a) : SumsOver(a)[k] = SumsOver(a)[k - 1] + a[k]
  BY <1>2, SumsAre, Zenon
<1>4. /\ SumsOver(a) \in [0..n -> Nat] /\ SumsOver(a)[0] = 0
      /\ \A k \in 1..n : SumsOver(a)[k] = SumsOver(a)[k - 1] + e(k)
  BY <1>2, <1>3
<1> QED BY <1>4 DEF Weight, a, e, n

LEMMA WeighsNone ==
    ASSUME NEW X, NEW Z \in [X -> Nat]
    PROVE  Weighs(<<>>, Z, 0)
<1>1. <<>> \in Seq(X) /\ Len(<<>>) = 0 /\ DOMAIN Z = X
  OBVIOUS
<1> DEFINE s == <<>>
<1> HIDE DEF s
<1>2. Weight(s, Z)[0] = 0
  BY <1>1, WeightsAre DEF s
<1> QED BY <1>1, <1>2 DEF Weighs, s

LEMMA WeighsOne ==
    ASSUME NEW X, NEW Z \in [X -> Nat], NEW x \in X
    PROVE  Weighs(<<x>>, Z, Z[x])
<1> DEFINE s == <<x>>
           A == Weight(s, Z)
<1>1. s \in Seq(X) /\ Len(s) = 1 /\ s[1] = x /\ DOMAIN Z = X /\ Z[x] \in Nat
  OBVIOUS
<1> HIDE DEF s
<1>2. A[0] = 0 /\ \A k \in 1..Len(s) : A[k] = A[k - 1] + Z[s[k]]
  BY <1>1, WeightsAre
<1> HIDE DEF A
<1>3. A[1] = Z[x]
  BY <1>1, <1>2
<1> QED BY <1>1, <1>3 DEF Weighs, A, s

LEMMA WeighsBoth ==
    ASSUME NEW X, NEW Z \in [X -> Nat], NEW s, NEW v, Weighs(s, Z, v), NEW t, NEW w, Weighs(t, Z, w)
    PROVE  Weighs(s \o t, Z, v + w)
<1> DEFINE u == s \o t
           n == Len(s)
           m == Len(t)
           A == Weight(s, Z)
           B == Weight(t, Z)
           D == Weight(u, Z)
<1>1. s \in Seq(X) /\ t \in Seq(X) /\ DOMAIN Z = X /\ v \in Nat /\ w \in Nat /\ A[n] = v /\ B[m] = w
  BY DEF Weighs
<1>2. /\ n \in Nat /\ m \in Nat /\ u \in Seq(X) /\ Len(u) = n + m
      /\ \A k \in 1..n : u[k] = s[k]
      /\ \A k \in 1..m : u[n + k] = t[k]
      /\ \A k \in 1..n : Z[s[k]] \in Nat
      /\ \A k \in 1..m : Z[t[k]] \in Nat
  BY <1>1
<1>3. A \in [0..n -> Nat] /\ A[0] = 0 /\ \A k \in 1..n : A[k] = A[k - 1] + Z[s[k]]
  BY <1>1, WeightsAre
<1>4. B \in [0..m -> Nat] /\ B[0] = 0 /\ \A k \in 1..m : B[k] = B[k - 1] + Z[t[k]]
  BY <1>1, WeightsAre
<1>5. D[0] = 0 /\ \A k \in 1..Len(u) : D[k] = D[k - 1] + Z[u[k]]
  <2>1. u \in Seq(X)
    BY <1>2
  <2> HIDE DEF u
  <2>2. /\ Weight(u, Z)[0] = 0
        /\ \A k \in 1..Len(u) : Weight(u, Z)[k] = Weight(u, Z)[k - 1] + Z[u[k]]
    BY <2>1, WeightsAre
  <2> QED BY <2>2
<1> HIDE DEF A, B, D, u, n, m
<1> DEFINE front == {k \in 0..n : D[k] = A[k]}
<1>6. 0 \in front
  BY <1>2, <1>3, <1>5
<1>7. \A k \in 1..n : k - 1 \in front => k \in front
  <2> TAKE k \in 1..n
  <2> HAVE k - 1 \in front
  <2>1. D[k - 1] = A[k - 1] /\ k \in 0..n /\ k \in 1..Len(u)
    BY <1>2
  <2>2. D[k] = D[k - 1] + Z[s[k]] /\ A[k] = A[k - 1] + Z[s[k]]
    BY <1>2, <1>3, <1>5, <2>1
  <2> QED BY <2>1, <2>2
<1> HIDE DEF front
<1>8. \A k \in 0..n : k \in front
  BY <1>2, <1>6, <1>7, UpTo
<1>9. D[n] = v /\ D[n + 0] = v
  <2>1. n \in front /\ n + 0 = n
    BY <1>2, <1>8
  <2> QED BY <1>1, <2>1 DEF front
<1> DEFINE back == {k \in 0..m : D[n + k] = v + B[k]}
<1>10. 0 \in back
  <2>1. v + 0 = v
    BY <1>1
  <2> QED BY <1>2, <1>4, <1>9, <2>1
<1>11. \A k \in 1..m : k - 1 \in back => k \in back
  <2> TAKE k \in 1..m
  <2> HAVE k - 1 \in back
  <2>1. D[n + (k - 1)] = v + B[k - 1] /\ k \in 0..m /\ n + k \in 1..Len(u) /\ (n + k) - 1 = n + (k - 1)
        /\ k - 1 \in 0..m
    BY <1>2
  <2>2. D[n + k] = D[n + (k - 1)] + Z[t[k]] /\ B[k] = B[k - 1] + Z[t[k]]
    BY <1>2, <1>4, <1>5, <2>1
  <2>3. B[k - 1] \in Nat /\ Z[t[k]] \in Nat /\ v \in Nat
    BY <1>1, <1>2, <1>4, <2>1
  <2> DEFINE p == B[k - 1]
             q == Z[t[k]]
  <2>4. D[n + k] = (v + p) + q /\ B[k] = p + q /\ p \in Nat /\ q \in Nat
    BY <2>1, <2>2, <2>3
  <2> HIDE DEF p, q
  <2>5. D[n + k] = v + B[k]
    BY <1>1, <2>4
  <2> QED BY <2>1, <2>5
<1> HIDE DEF back
<1>12. \A k \in 0..m : k \in back
  BY <1>2, <1>10, <1>11, UpTo
<1>13. D[n + m] = v + w
  <2>1. m \in back
    BY <1>2, <1>12
  <2> QED BY <1>1, <2>1 DEF back
<1>14. D[Len(u)] = v + w /\ v + w \in Nat /\ u \in Seq(DOMAIN Z)
  BY <1>1, <1>2, <1>13
<1> QED BY <1>14 DEF Weighs, D, u

LEMMA WeighsWhen ==
    ASSUME NEW X, NEW Z \in [X -> Nat], NEW s, NEW w, Weighs(s, Z, w), NEW condition \in BOOLEAN
    PROVE  Weighs(When(condition, s), Z, IF condition THEN w ELSE 0)
BY WeighsNone DEF When

\* Two sequences weigh the same when their members do.
LEMMA WeighsAs ==
    ASSUME NEW X, NEW Z \in [X -> Nat], NEW s, NEW w, Weighs(s, Z, w),
           NEW W, NEW Y \in [W -> Nat], NEW t \in Seq(W), Len(t) = Len(s),
           \A i \in 1..Len(s) : Y[t[i]] = Z[s[i]]
    PROVE  Weighs(t, Y, w)
<1>1. [i \in 1..Len(s) |-> Z[s[i]]] = [i \in 1..Len(t) |-> Y[t[i]]]
  OBVIOUS
<1>2. DOMAIN Y = W
  OBVIOUS
<1> QED BY <1>1, <1>2 DEF Weighs, Weight

\* What parts, tensors and names weigh: the numbers they hold.
PartSizes(g) == [x \in PartsOf(g, PartNames) |-> Numel(x.shape)]
TensorSizes(g) == [x \in TensorsOf(g, Int \X PartNames) |-> Numel(x.shape)]
NameSizes(g) == [n \in Int \X PartNames |-> Numel(ShapeOf(g, n[2]))]
GrownSizes(g) == [p \in PartNames |-> Numel(ShapeOf(g, p))]

LEMMA SizesTyped ==
    ASSUME NEW g \in Configurations, Valid(g)
    PROVE  /\ PartSizes(g) \in [PartsOf(g, PartNames) -> Nat]
           /\ TensorSizes(g) \in [TensorsOf(g, Int \X PartNames) -> Nat]
           /\ NameSizes(g) \in [Int \X PartNames -> Nat]
           /\ GrownSizes(g) \in [PartNames -> Nat]
<1>1. \A p : Numel(ShapeOf(g, p)) \in Nat
  BY TensorsHaveSize
<1>2. \A x \in PartsOf(g, PartNames) : Numel(x.shape) \in Nat
  <2> TAKE x \in PartsOf(g, PartNames)
  <2>1. \E p : x.shape = ShapeOf(g, p)
    BY DEF PartsOf
  <2> QED BY <1>1, <2>1
<1>3. \A x \in TensorsOf(g, Int \X PartNames) : Numel(x.shape) \in Nat
  <2> TAKE x \in TensorsOf(g, Int \X PartNames)
  <2>1. \E p : x.shape = ShapeOf(g, p)
    BY DEF TensorsOf
  <2> QED BY <1>1, <2>1
<1> QED BY <1>1, <1>2, <1>3 DEF PartSizes, TensorSizes, NameSizes, GrownSizes

LEMMA PieceWeighs ==
    ASSUME NEW g \in Configurations, Valid(g), NEW p \in PartNames, NEW shape, ShapeOf(g, p) = shape
    PROVE  Weighs(<<[part |-> p, shape |-> shape]>>, PartSizes(g), Numel(shape))
<1> DEFINE x == [part |-> p, shape |-> shape]
<1>1. x \in PartsOf(g, PartNames) /\ x.shape = shape
  BY DEF PartsOf
<1> HIDE DEF x
<1>2. PartSizes(g)[x] = Numel(shape)
  BY <1>1 DEF PartSizes
<1>3. Weighs(<<x>>, PartSizes(g), PartSizes(g)[x])
  BY <1>1, SizesTyped, WeighsOne
<1> QED BY <1>2, <1>3 DEF x

LEMMA NumelIs ==
    /\ \A a : Numel(<<a>>) = a
    /\ \A a, b : Numel(<<a, b>>) = a * b
BY DEF Numel

\* The numbers of one block, as the formula has them.
BlockCount(g) ==
    LET C == g.embd
        norms == IF g.norm = "rms" THEN C ELSE 2 * C
    IN  2 * norms + (IF g.qk THEN 2 * HeadDim(g) ELSE 0)
        + C * (C + 2 * KvDim(g)) + C * C
        + (IF g.bias THEN (C + 2 * KvDim(g)) + C ELSE 0)
        + (IF g.ffn = "swiglu" THEN 3 * C * Hidden(g)
           ELSE 2 * C * Hidden(g) + (IF g.bias THEN Hidden(g) + C ELSE 0))

LEMMA BlockWeighs ==
    ASSUME NEW g \in Configurations, Valid(g)
    PROVE  Weighs(BlockParams(g), PartSizes(g), BlockCount(g))
<1> DEFINE C == g.embd
           Q == C + 2 * KvDim(g)
           D == HeadDim(g)
           H == Hidden(g)
           layer == g.norm = "layer"
           swiglu == g.ffn = "swiglu"
           wide == g.ffn = "gelu" /\ g.bias
           X == PartsOf(g, PartNames)
           Z == PartSizes(g)
           v1 == Vector("n1.g", C)
           t1 == v1
           w1 == C
           s1 == t1
           u1 == w1
           v2 == Vector("n1.b", C)
           t2 == When(layer, v2)
           w2 == IF layer THEN C ELSE 0
           s2 == s1 \o t2
           u2 == u1 + w2
           v3 == Matrix("attn.qkv.w", C, Q)
           t3 == v3
           w3 == C * Q
           s3 == s2 \o t3
           u3 == u2 + w3
           v4 == Vector("attn.qkv.b", Q)
           t4 == When(g.bias, v4)
           w4 == IF g.bias THEN Q ELSE 0
           s4 == s3 \o t4
           u4 == u3 + w4
           v5 == Vector("attn.qnorm.g", D) \o Vector("attn.knorm.g", D)
           t5 == When(g.qk, v5)
           w5 == IF g.qk THEN D + D ELSE 0
           s5 == s4 \o t5
           u5 == u4 + w5
           v6 == Matrix("attn.proj.w", C, C)
           t6 == v6
           w6 == C * C
           s6 == s5 \o t6
           u6 == u5 + w6
           v7 == Vector("attn.proj.b", C)
           t7 == When(g.bias, v7)
           w7 == IF g.bias THEN C ELSE 0
           s7 == s6 \o t7
           u7 == u6 + w7
           v8 == Vector("n2.g", C)
           t8 == v8
           w8 == C
           s8 == s7 \o t8
           u8 == u7 + w8
           v9 == Vector("n2.b", C)
           t9 == When(layer, v9)
           w9 == IF layer THEN C ELSE 0
           s9 == s8 \o t9
           u9 == u8 + w9
           v10 == Matrix("mlp.gate.w", C, H)
           t10 == When(swiglu, v10)
           w10 == IF swiglu THEN C * H ELSE 0
           s10 == s9 \o t10
           u10 == u9 + w10
           v11 == Matrix("mlp.up.w", C, H)
           t11 == v11
           w11 == C * H
           s11 == s10 \o t11
           u11 == u10 + w11
           v12 == Vector("mlp.up.b", H)
           t12 == When(wide, v12)
           w12 == IF wide THEN H ELSE 0
           s12 == s11 \o t12
           u12 == u11 + w12
           v13 == Matrix("mlp.down.w", H, C)
           t13 == v13
           w13 == H * C
           s13 == s12 \o t13
           u13 == u12 + w13
           v14 == Vector("mlp.down.b", C)
           t14 == When(wide, v14)
           w14 == IF wide THEN C ELSE 0
           s14 == s13 \o t14
           u14 == u13 + w14
<1>1. BlockParams(g) = s14
  BY Zenon DEF BlockParams
<1>2. layer \in BOOLEAN /\ wide \in BOOLEAN /\ swiglu \in BOOLEAN /\ g.bias \in BOOLEAN /\ g.qk \in BOOLEAN
  BY DEF Configurations
<1>3. C \in Nat /\ Q \in Nat /\ D \in Nat /\ H \in Nat
  BY DimsAre
<1>4. Z \in [X -> Nat]
  BY SizesTyped
<1>5. \A p \in PartNames : \A shape : ShapeOf(g, p) = shape =>
         Weighs(<<[part |-> p, shape |-> shape]>>, Z, Numel(shape))
  BY PieceWeighs, Zenon
<1>6. /\ ShapeOf(g, "n1.g") = <<C>> /\ ShapeOf(g, "n1.b") = <<C>> /\ ShapeOf(g, "attn.qkv.w") = <<C, Q>>
      /\ ShapeOf(g, "attn.qkv.b") = <<Q>> /\ ShapeOf(g, "attn.qnorm.g") = <<D>>
      /\ ShapeOf(g, "attn.knorm.g") = <<D>> /\ ShapeOf(g, "attn.proj.w") = <<C, C>>
      /\ ShapeOf(g, "attn.proj.b") = <<C>> /\ ShapeOf(g, "n2.g") = <<C>> /\ ShapeOf(g, "n2.b") = <<C>>
      /\ ShapeOf(g, "mlp.gate.w") = <<C, H>> /\ ShapeOf(g, "mlp.up.w") = <<C, H>>
      /\ ShapeOf(g, "mlp.up.b") = <<H>> /\ ShapeOf(g, "mlp.down.w") = <<H, C>>
      /\ ShapeOf(g, "mlp.down.b") = <<C>>
  BY DEF ShapeOf
<1> HIDE DEF C, Q, D, H, X, Z, layer, swiglu, wide
<1>v1. Weighs(v1, Z, C)
  <2>1. "n1.g" \in PartNames
    BY DEF PartNames
  <2>2. Weighs(<<[part |-> "n1.g", shape |-> <<C>>]>>, Z, Numel(<<C>>))
    BY <1>5, <1>6, <2>1, Zenon
  <2>3. Numel(<<C>>) = C
    BY NumelIs, Zenon
  <2> QED BY <2>2, <2>3, Zenon DEF Vector, Matrix
<1>v2. Weighs(v2, Z, C)
  <2>1. "n1.b" \in PartNames
    BY DEF PartNames
  <2>2. Weighs(<<[part |-> "n1.b", shape |-> <<C>>]>>, Z, Numel(<<C>>))
    BY <1>5, <1>6, <2>1, Zenon
  <2>3. Numel(<<C>>) = C
    BY NumelIs, Zenon
  <2> QED BY <2>2, <2>3, Zenon DEF Vector, Matrix
<1>v3. Weighs(v3, Z, C * Q)
  <2>1. "attn.qkv.w" \in PartNames
    BY DEF PartNames
  <2>2. Weighs(<<[part |-> "attn.qkv.w", shape |-> <<C, Q>>]>>, Z, Numel(<<C, Q>>))
    BY <1>5, <1>6, <2>1, Zenon
  <2>3. Numel(<<C, Q>>) = C * Q
    BY NumelIs, Zenon
  <2> QED BY <2>2, <2>3, Zenon DEF Vector, Matrix
<1>v4. Weighs(v4, Z, Q)
  <2>1. "attn.qkv.b" \in PartNames
    BY DEF PartNames
  <2>2. Weighs(<<[part |-> "attn.qkv.b", shape |-> <<Q>>]>>, Z, Numel(<<Q>>))
    BY <1>5, <1>6, <2>1, Zenon
  <2>3. Numel(<<Q>>) = Q
    BY NumelIs, Zenon
  <2> QED BY <2>2, <2>3, Zenon DEF Vector, Matrix
<1>v5. Weighs(v5, Z, D + D)
  <2>1. "attn.qnorm.g" \in PartNames /\ "attn.knorm.g" \in PartNames
    BY DEF PartNames
  <2>2. /\ Weighs(<<[part |-> "attn.qnorm.g", shape |-> <<D>>]>>, Z, Numel(<<D>>))
        /\ Weighs(<<[part |-> "attn.knorm.g", shape |-> <<D>>]>>, Z, Numel(<<D>>))
    BY <1>5, <1>6, <2>1, Zenon
  <2>3. Numel(<<D>>) = D
    BY NumelIs, Zenon
  <2>4. Weighs(Vector("attn.qnorm.g", D), Z, D) /\ Weighs(Vector("attn.knorm.g", D), Z, D)
    BY <2>2, <2>3, Zenon DEF Vector
  <2> QED BY <1>4, <2>4, WeighsBoth, Zenon
<1>v6. Weighs(v6, Z, C * C)
  <2>1. "attn.proj.w" \in PartNames
    BY DEF PartNames
  <2>2. Weighs(<<[part |-> "attn.proj.w", shape |-> <<C, C>>]>>, Z, Numel(<<C, C>>))
    BY <1>5, <1>6, <2>1, Zenon
  <2>3. Numel(<<C, C>>) = C * C
    BY NumelIs, Zenon
  <2> QED BY <2>2, <2>3, Zenon DEF Vector, Matrix
<1>v7. Weighs(v7, Z, C)
  <2>1. "attn.proj.b" \in PartNames
    BY DEF PartNames
  <2>2. Weighs(<<[part |-> "attn.proj.b", shape |-> <<C>>]>>, Z, Numel(<<C>>))
    BY <1>5, <1>6, <2>1, Zenon
  <2>3. Numel(<<C>>) = C
    BY NumelIs, Zenon
  <2> QED BY <2>2, <2>3, Zenon DEF Vector, Matrix
<1>v8. Weighs(v8, Z, C)
  <2>1. "n2.g" \in PartNames
    BY DEF PartNames
  <2>2. Weighs(<<[part |-> "n2.g", shape |-> <<C>>]>>, Z, Numel(<<C>>))
    BY <1>5, <1>6, <2>1, Zenon
  <2>3. Numel(<<C>>) = C
    BY NumelIs, Zenon
  <2> QED BY <2>2, <2>3, Zenon DEF Vector, Matrix
<1>v9. Weighs(v9, Z, C)
  <2>1. "n2.b" \in PartNames
    BY DEF PartNames
  <2>2. Weighs(<<[part |-> "n2.b", shape |-> <<C>>]>>, Z, Numel(<<C>>))
    BY <1>5, <1>6, <2>1, Zenon
  <2>3. Numel(<<C>>) = C
    BY NumelIs, Zenon
  <2> QED BY <2>2, <2>3, Zenon DEF Vector, Matrix
<1>v10. Weighs(v10, Z, C * H)
  <2>1. "mlp.gate.w" \in PartNames
    BY DEF PartNames
  <2>2. Weighs(<<[part |-> "mlp.gate.w", shape |-> <<C, H>>]>>, Z, Numel(<<C, H>>))
    BY <1>5, <1>6, <2>1, Zenon
  <2>3. Numel(<<C, H>>) = C * H
    BY NumelIs, Zenon
  <2> QED BY <2>2, <2>3, Zenon DEF Vector, Matrix
<1>v11. Weighs(v11, Z, C * H)
  <2>1. "mlp.up.w" \in PartNames
    BY DEF PartNames
  <2>2. Weighs(<<[part |-> "mlp.up.w", shape |-> <<C, H>>]>>, Z, Numel(<<C, H>>))
    BY <1>5, <1>6, <2>1, Zenon
  <2>3. Numel(<<C, H>>) = C * H
    BY NumelIs, Zenon
  <2> QED BY <2>2, <2>3, Zenon DEF Vector, Matrix
<1>v12. Weighs(v12, Z, H)
  <2>1. "mlp.up.b" \in PartNames
    BY DEF PartNames
  <2>2. Weighs(<<[part |-> "mlp.up.b", shape |-> <<H>>]>>, Z, Numel(<<H>>))
    BY <1>5, <1>6, <2>1, Zenon
  <2>3. Numel(<<H>>) = H
    BY NumelIs, Zenon
  <2> QED BY <2>2, <2>3, Zenon DEF Vector, Matrix
<1>v13. Weighs(v13, Z, H * C)
  <2>1. "mlp.down.w" \in PartNames
    BY DEF PartNames
  <2>2. Weighs(<<[part |-> "mlp.down.w", shape |-> <<H, C>>]>>, Z, Numel(<<H, C>>))
    BY <1>5, <1>6, <2>1, Zenon
  <2>3. Numel(<<H, C>>) = H * C
    BY NumelIs, Zenon
  <2> QED BY <2>2, <2>3, Zenon DEF Vector, Matrix
<1>v14. Weighs(v14, Z, C)
  <2>1. "mlp.down.b" \in PartNames
    BY DEF PartNames
  <2>2. Weighs(<<[part |-> "mlp.down.b", shape |-> <<C>>]>>, Z, Numel(<<C>>))
    BY <1>5, <1>6, <2>1, Zenon
  <2>3. Numel(<<C>>) = C
    BY NumelIs, Zenon
  <2> QED BY <2>2, <2>3, Zenon DEF Vector, Matrix
<1> HIDE DEF v1, v2, v3, v4, v5, v6, v7, v8, v9, v10, v11, v12, v13, v14
<1>t1. Weighs(t1, Z, w1)
  BY <1>v1
<1>t2. Weighs(t2, Z, w2)
  BY <1>2, <1>4, <1>v2, WeighsWhen, Zenon
<1>t3. Weighs(t3, Z, w3)
  BY <1>v3
<1>t4. Weighs(t4, Z, w4)
  BY <1>2, <1>4, <1>v4, WeighsWhen, Zenon
<1>t5. Weighs(t5, Z, w5)
  BY <1>2, <1>4, <1>v5, WeighsWhen, Zenon
<1>t6. Weighs(t6, Z, w6)
  BY <1>v6
<1>t7. Weighs(t7, Z, w7)
  BY <1>2, <1>4, <1>v7, WeighsWhen, Zenon
<1>t8. Weighs(t8, Z, w8)
  BY <1>v8
<1>t9. Weighs(t9, Z, w9)
  BY <1>2, <1>4, <1>v9, WeighsWhen, Zenon
<1>t10. Weighs(t10, Z, w10)
  BY <1>2, <1>4, <1>v10, WeighsWhen, Zenon
<1>t11. Weighs(t11, Z, w11)
  BY <1>v11
<1>t12. Weighs(t12, Z, w12)
  BY <1>2, <1>4, <1>v12, WeighsWhen, Zenon
<1>t13. Weighs(t13, Z, w13)
  BY <1>v13
<1>t14. Weighs(t14, Z, w14)
  BY <1>2, <1>4, <1>v14, WeighsWhen, Zenon
<1> HIDE DEF t1, w1, t2, w2, t3, w3, t4, w4, t5, w5, t6, w6, t7, w7, t8, w8, t9, w9, t10, w10, t11, w11, t12, w12, t13, w13, t14, w14
<1>s1. Weighs(s1, Z, u1)
  BY <1>t1
<1> HIDE DEF s1, u1
<1>s2. Weighs(s2, Z, u2)
  BY <1>4, <1>s1, <1>t2, WeighsBoth, Zenon
<1> HIDE DEF s2, u2
<1>s3. Weighs(s3, Z, u3)
  BY <1>4, <1>s2, <1>t3, WeighsBoth, Zenon
<1> HIDE DEF s3, u3
<1>s4. Weighs(s4, Z, u4)
  BY <1>4, <1>s3, <1>t4, WeighsBoth, Zenon
<1> HIDE DEF s4, u4
<1>s5. Weighs(s5, Z, u5)
  BY <1>4, <1>s4, <1>t5, WeighsBoth, Zenon
<1> HIDE DEF s5, u5
<1>s6. Weighs(s6, Z, u6)
  BY <1>4, <1>s5, <1>t6, WeighsBoth, Zenon
<1> HIDE DEF s6, u6
<1>s7. Weighs(s7, Z, u7)
  BY <1>4, <1>s6, <1>t7, WeighsBoth, Zenon
<1> HIDE DEF s7, u7
<1>s8. Weighs(s8, Z, u8)
  BY <1>4, <1>s7, <1>t8, WeighsBoth, Zenon
<1> HIDE DEF s8, u8
<1>s9. Weighs(s9, Z, u9)
  BY <1>4, <1>s8, <1>t9, WeighsBoth, Zenon
<1> HIDE DEF s9, u9
<1>s10. Weighs(s10, Z, u10)
  BY <1>4, <1>s9, <1>t10, WeighsBoth, Zenon
<1> HIDE DEF s10, u10
<1>s11. Weighs(s11, Z, u11)
  BY <1>4, <1>s10, <1>t11, WeighsBoth, Zenon
<1> HIDE DEF s11, u11
<1>s12. Weighs(s12, Z, u12)
  BY <1>4, <1>s11, <1>t12, WeighsBoth, Zenon
<1> HIDE DEF s12, u12
<1>s13. Weighs(s13, Z, u13)
  BY <1>4, <1>s12, <1>t13, WeighsBoth, Zenon
<1> HIDE DEF s13, u13
<1>s14. Weighs(s14, Z, u14)
  BY <1>4, <1>s13, <1>t14, WeighsBoth, Zenon
<1> HIDE DEF s14, u14
<1>7. u14 = BlockCount(g)
  <2> DEFINE a == C * Q
             b == C * C
             c == C * H
             rms == g.norm = "rms"
  <2>1. a \in Nat /\ b \in Nat /\ c \in Nat /\ H * C = c /\ 3 * C * H = c + c + c /\ 2 * C * H = c + c
    BY <1>3
  <2>2. BlockCount(g) = 2 * (IF rms THEN C ELSE 2 * C) + (IF g.qk THEN 2 * D ELSE 0) + a + b
                        + (IF g.bias THEN Q + C ELSE 0)
                        + (IF swiglu THEN 3 * C * H ELSE 2 * C * H + (IF g.bias THEN H + C ELSE 0))
    BY Zenon DEF BlockCount, C, Q, D, H, swiglu
  <2>3. (layer <=> ~rms) /\ (wide <=> ~swiglu /\ g.bias)
    BY DEF layer, wide, swiglu, Configurations
  <2> HIDE DEF a, b, c, rms
  <2>4. BlockCount(g) = 2 * (IF rms THEN C ELSE 2 * C) + (IF g.qk THEN 2 * D ELSE 0) + a + b
                        + (IF g.bias THEN Q + C ELSE 0)
                        + (IF swiglu THEN c + c + c ELSE c + c + (IF g.bias THEN H + C ELSE 0))
    BY <2>1, <2>2
  <2>5. u14 = C + (IF layer THEN C ELSE 0) + a + (IF g.bias THEN Q ELSE 0) + (IF g.qk THEN D + D ELSE 0)
              + b + (IF g.bias THEN C ELSE 0) + C + (IF layer THEN C ELSE 0)
              + (IF swiglu THEN c ELSE 0) + c + (IF wide THEN H ELSE 0) + c + (IF wide THEN C ELSE 0)
    BY <2>1, Zenon DEF u1, u2, u3, u4, u5, u6, u7, u8, u9, u10, u11, u12, u13, u14,
                       w1, w2, w3, w4, w5, w6, w7, w8, w9, w10, w11, w12, w13, w14,
                       a, b, c
  <2> DEFINE l == IF layer THEN C ELSE 0
             k == IF g.qk THEN D + D ELSE 0
             q == IF g.bias THEN Q ELSE 0
             e == IF g.bias THEN C ELSE 0
             z == IF swiglu THEN c ELSE 0
             h == IF wide THEN H ELSE 0
             f == IF wide THEN C ELSE 0
  <2>6. l \in Nat /\ k \in Nat /\ q \in Nat /\ e \in Nat /\ z \in Nat /\ h \in Nat /\ f \in Nat
    BY <1>3, <2>1
  <2>7. (IF rms THEN C ELSE 2 * C) = C + l
    BY <1>3, <2>3
  <2>8. (IF g.qk THEN 2 * D ELSE 0) = k
    BY <1>3
  <2>9. (IF g.bias THEN Q + C ELSE 0) = q + e
    BY <1>3
  <2>10. (IF swiglu THEN c + c + c ELSE c + c + (IF g.bias THEN H + C ELSE 0)) = z + c + c + h + f
    <3>1. CASE swiglu
      <4>1. ~wide
        BY <2>3, <3>1
      <4> QED BY <2>1, <3>1, <4>1
    <3>2. CASE ~swiglu
      <4>1. wide <=> g.bias
        BY <2>3, <3>2
      <4>2. CASE g.bias
        BY <1>3, <2>1, <3>2, <4>1, <4>2
      <4>3. CASE ~g.bias
        BY <1>3, <2>1, <3>2, <4>1, <4>3
      <4> QED BY <4>2, <4>3
    <3> QED BY <3>1, <3>2
  <2>11. BlockCount(g) = 2 * (C + l) + k + a + b + (q + e) + (z + c + c + h + f)
    BY <2>4, <2>7, <2>8, <2>9, <2>10, Zenon
  <2>12. u14 = C + l + a + q + k + b + e + C + l + z + c + h + c + f
    BY <2>5, Zenon
  <2> HIDE DEF l, k, q, e, z, h, f
  <2>13. /\ 2 * (C + l) + k + a + b + (q + e) + (z + c + c + h + f)
            = C + l + a + q + k + b + e + C + l + z + c + h + c + f
         /\ 2 * (C + l) + k + a + b + (q + e) + (z + c + c + h + f) \in Nat
    BY ONLY <1>3, <2>1, <2>6, SMTT(60)
  <2> QED BY <2>11, <2>12, <2>13, Zenon
<1> QED BY <1>1, <1>7, <1>s14, Zenon DEF Z

\* A block weighs what its parts do.
LEMMA InBlockWeighs ==
    ASSUME NEW g \in Configurations, Valid(g), NEW l \in Int, NEW params, NEW w,
           Weighs(params, PartSizes(g), w)
    PROVE  Weighs(InBlock(l, params), TensorSizes(g), w)
<1> DEFINE X == PartsOf(g, PartNames)
           T == TensorsOf(g, Int \X PartNames)
           Z == PartSizes(g)
           Y == TensorSizes(g)
           n == Len(params)
           e(i) == [name |-> <<l, params[i].part>>, shape |-> params[i].shape]
           t == [i \in 1..n |-> e(i)]
<1>1. Z \in [X -> Nat] /\ Y \in [T -> Nat]
  BY SizesTyped
<1>2. params \in Seq(X)
  BY <1>1 DEF Weighs
<1>3. n \in Nat /\ DOMAIN params = 1..n /\ \A i \in 1..n : params[i] \in X
  BY <1>2
<1>4. InBlock(l, params) = t
  BY <1>3 DEF InBlock
<1>5. \A i \in 1..n : e(i) \in T /\ Y[e(i)] = Z[params[i]]
  <2> TAKE i \in 1..n
  <2>1. PICK p \in PartNames : params[i] = [part |-> p, shape |-> ShapeOf(g, p)]
    BY <1>3 DEF PartsOf
  <2> DEFINE nm == <<l, p>>
             x == [name |-> nm, shape |-> ShapeOf(g, p)]
  <2>2. nm \in Int \X PartNames /\ nm[2] = p
    OBVIOUS
  <2>3. e(i) = x
    BY <2>1
  <2> HIDE DEF nm, e
  <2>4. x \in T /\ x.shape = ShapeOf(g, p)
    BY <2>2 DEF TensorsOf
  <2> HIDE DEF x
  <2>5. Y[x] = Numel(ShapeOf(g, p))
    BY <2>4 DEF TensorSizes
  <2>6. Z[params[i]] = Numel(params[i].shape) /\ params[i].shape = ShapeOf(g, p)
    BY <1>3, <2>1 DEF PartSizes
  <2> QED BY <2>3, <2>4, <2>5, <2>6
<1> HIDE DEF n, e, T, X, Y, Z
<1>6. t \in Seq(T) /\ Len(t) = n /\ \A i \in 1..n : t[i] = e(i)
  BY <1>3, <1>5
<1> HIDE DEF t
<1>7. Len(t) = Len(params) /\ \A i \in 1..Len(params) : Y[t[i]] = Z[params[i]]
  BY <1>5, <1>6 DEF n
<1>8. Weighs(params, Z, w)
  BY DEF Z
<1>9. Weighs(t, Y, w)
  BY <1>1, <1>6, <1>7, <1>8, WeighsAs
<1> QED BY <1>4, <1>9 DEF Y

LEMMA BlockCountIs ==
    ASSUME NEW g \in Configurations, Valid(g)
    PROVE  BlockCount(g) \in Nat
BY BlockWeighs DEF Weighs

\* The blocks weigh one block, layer after layer.
LEMMA BlocksWeigh ==
    ASSUME NEW g \in Configurations, Valid(g)
    PROVE  Weighs(BlocksOf(g), TensorSizes(g), g.layers * BlockCount(g))
<1> DEFINE n == g.layers
           P == BlockParams(g)
           w == BlockCount(g)
           Z == TensorSizes(g)
           S == Seq(DOMAIN Z)
           spec(f) == [l \in 0..n |-> IF l = 0 THEN <<>> ELSE f[l - 1] \o InBlock(l - 1, P)]
           upto == CHOOSE f : f = spec(f)
           F == [p \in (1..n) \X S |-> p[2] \o InBlock(p[1] - 1, P)]
<1>1. n \in Nat /\ <<>> \in S
  BY DEF Configurations, Valid
<1>2. \A l \in Int : Weighs(InBlock(l, P), Z, w)
  BY BlockWeighs, InBlockWeighs
<1>3. w \in Nat /\ Z \in [DOMAIN Z -> Nat]
  <2>1. w \in Nat
    BY BlockCountIs
  <2>2. Z \in [TensorsOf(g, Int \X PartNames) -> Nat]
    BY SizesTyped
  <2> HIDE DEF Z, w
  <2> QED BY <2>1, <2>2
<1>4. \A l \in Int : InBlock(l, P) \in S
  BY <1>2 DEF Weighs
<1> HIDE DEF n, P, w, Z
<1>5. F \in [(1..n) \X S -> S]
  <2>1. \A p \in (1..n) \X S : p[2] \o InBlock(p[1] - 1, P) \in S
    <3> TAKE p \in (1..n) \X S
    <3>1. p[1] - 1 \in Int /\ p[2] \in S
      BY <1>1
    <3>2. InBlock(p[1] - 1, P) \in S
      BY <1>4, <3>1
    <3> QED BY <3>1, <3>2
  <2> HIDE DEF S
  <2> QED BY <2>1
<1>6. PICK h \in [0..n -> S] : Built(h, n, <<>>, F)
  <2> HIDE DEF F, S
  <2> QED BY <1>1, <1>5, Recursion
<1>7. \A k \in 1..n : h[k] = h[k - 1] \o InBlock(k - 1, P)
  <2> TAKE k \in 1..n
  <2>1. h[k - 1] \in S /\ h[k] = F[<<k, h[k - 1]>>]
    <3>1. k - 1 \in 0..n
      BY <1>1
    <3> HIDE DEF F, S
    <3> QED BY ONLY <1>6, <3>1 DEF Built
  <2> HIDE DEF S
  <2> QED BY <2>1
<1>8. h = spec(h)
  <2>1. \A k \in 0..n : h[k] = IF k = 0 THEN <<>> ELSE h[k - 1] \o InBlock(k - 1, P)
    <3>1. h[0] = <<>>
      BY <1>6 DEF Built
    <3>2. \A k \in 0..n : k = 0 \/ k \in 1..n
      BY <1>1
    <3> HIDE DEF F, S
    <3> QED BY <1>7, <3>1, <3>2
  <2> HIDE DEF S
  <2> QED BY <1>6, <2>1
<1>9. upto = spec(upto)
  <2> HIDE DEF spec
  <2> QED BY <1>8
<1>10. BlocksOf(g) = upto[n]
  BY DEF BlocksOf, n, P
<1> HIDE DEF upto, F, S
<1>11. upto[0] = <<>> /\ \A k \in 1..n : upto[k] = upto[k - 1] \o InBlock(k - 1, P)
  <2>1. \A k \in 0..n : upto[k] = IF k = 0 THEN <<>> ELSE upto[k - 1] \o InBlock(k - 1, P)
    BY <1>9
  <2>2. 0 \in 0..n /\ \A k \in 1..n : k \in 0..n /\ k # 0
    BY ONLY <1>1
  <2> QED BY ONLY <2>1, <2>2
<1> DEFINE good == {k \in 0..n : Weighs(upto[k], Z, k * w)}
<1>12. 0 \in good
  <2>1. Weighs(<<>>, Z, 0)
    BY <1>3, WeighsNone
  <2>2. 0 * w = 0 /\ 0 \in 0..n
    BY <1>1, <1>3
  <2> QED BY <1>11, <2>1, <2>2
<1>13. ASSUME NEW k \in 1..n, k - 1 \in good PROVE k \in good
  <2>1. k - 1 \in Int /\ k \in 0..n
    BY <1>1
  <2>2. Weighs(upto[k - 1], Z, (k - 1) * w) /\ Weighs(InBlock(k - 1, P), Z, w)
    BY <1>2, <1>13, <2>1
  <2>3. Weighs(upto[k - 1] \o InBlock(k - 1, P), Z, (k - 1) * w + w)
    BY <1>3, <2>2, WeighsBoth, Zenon
  <2>4. (k - 1) * w + w = k * w
    <3>1. w \in Int /\ k \in Int
      BY <1>3
    <3> QED BY ONLY <3>1
  <2>5. upto[k] = upto[k - 1] \o InBlock(k - 1, P)
    BY <1>11
  <2> QED BY <2>1, <2>3, <2>4, <2>5
<1> HIDE DEF good
<1>14. \A k \in 0..n : k \in good
  <2>1. \A k \in 1..n : k - 1 \in good => k \in good
    BY <1>13
  <2> QED BY <1>1, <1>12, <2>1, UpTo
<1>15. n \in good
  BY <1>1, <1>14
<1>16. Weighs(upto[n], Z, n * w)
  BY <1>15 DEF good
<1> QED BY <1>10, <1>16, Zenon DEF n, Z, w

\* What the constructor registers weighs what param_count announces.
LEMMA RegisteredWeighs ==
    ASSUME NEW g \in Configurations, Valid(g)
    PROVE  Weighs(Registered(g), TensorSizes(g), ParamCount(g))
<1> DEFINE learned == g.pos = "learned"
           layer == g.norm = "layer"
           untied == ~g.tied
           C == g.embd
           V == g.vocab
           W == g.ctx
           v1 == Matrix("tok_emb", V, C)
           v2 == Matrix("pos_emb", W, C)
           v3 == Vector("norm_f.g", C)
           v4 == Vector("norm_f.b", C)
           v5 == Matrix("lm_head.w", C, V)
           front == v1 \o When(learned, v2)
           back == v3 \o When(layer, v4) \o When(untied, v5)
           Z == PartSizes(g)
           Y == TensorSizes(g)
           c2 == IF learned THEN W * C ELSE 0
           c4 == IF layer THEN C ELSE 0
           c5 == IF untied THEN C * V ELSE 0
           blocks == g.layers * BlockCount(g)
<1>1. Registered(g) = InBlock(Outside, front) \o BlocksOf(g) \o InBlock(Outside, back)
  BY Zenon DEF Registered
<1>2. learned \in BOOLEAN /\ layer \in BOOLEAN /\ untied \in BOOLEAN
  OBVIOUS
<1>3. C \in Nat /\ V \in Nat /\ W \in Nat /\ g.layers \in Nat
  BY DEF Configurations, Valid
<1>4. /\ Z \in [PartsOf(g, PartNames) -> Nat]
      /\ Y \in [TensorsOf(g, Int \X PartNames) -> Nat]
  BY SizesTyped
<1>5. \A p \in PartNames : \A shape : ShapeOf(g, p) = shape =>
         Weighs(<<[part |-> p, shape |-> shape]>>, Z, Numel(shape))
  BY PieceWeighs, Zenon
<1>6. /\ ShapeOf(g, "tok_emb") = <<V, C>> /\ ShapeOf(g, "pos_emb") = <<W, C>>
      /\ ShapeOf(g, "norm_f.g") = <<C>> /\ ShapeOf(g, "norm_f.b") = <<C>>
      /\ ShapeOf(g, "lm_head.w") = <<C, V>>
  BY DEF ShapeOf
<1>7. /\ "tok_emb" \in PartNames /\ "pos_emb" \in PartNames /\ "norm_f.g" \in PartNames
      /\ "norm_f.b" \in PartNames /\ "lm_head.w" \in PartNames
  BY DEF PartNames
<1> HIDE DEF C, V, W, Z, Y, learned, layer, untied
<1>8. /\ Weighs(<<[part |-> "tok_emb", shape |-> <<V, C>>]>>, Z, Numel(<<V, C>>))
      /\ Weighs(<<[part |-> "pos_emb", shape |-> <<W, C>>]>>, Z, Numel(<<W, C>>))
      /\ Weighs(<<[part |-> "norm_f.g", shape |-> <<C>>]>>, Z, Numel(<<C>>))
      /\ Weighs(<<[part |-> "norm_f.b", shape |-> <<C>>]>>, Z, Numel(<<C>>))
      /\ Weighs(<<[part |-> "lm_head.w", shape |-> <<C, V>>]>>, Z, Numel(<<C, V>>))
  BY <1>5, <1>6, <1>7, Zenon
<1>9. /\ Numel(<<V, C>>) = V * C /\ Numel(<<W, C>>) = W * C /\ Numel(<<C, V>>) = C * V
      /\ Numel(<<C>>) = C
  BY NumelIs, Zenon
<1>10. /\ Weighs(v1, Z, V * C) /\ Weighs(v2, Z, W * C) /\ Weighs(v3, Z, C) /\ Weighs(v4, Z, C)
       /\ Weighs(v5, Z, C * V)
  BY <1>8, <1>9, Zenon DEF Vector, Matrix
<1> HIDE DEF v1, v2, v3, v4, v5
<1>11. /\ Weighs(When(learned, v2), Z, c2) /\ Weighs(When(layer, v4), Z, c4)
       /\ Weighs(When(untied, v5), Z, c5)
  BY <1>2, <1>4, <1>10, WeighsWhen, Zenon
<1> HIDE DEF c2, c4, c5
<1>12. Weighs(front, Z, V * C + c2)
  BY <1>4, <1>10, <1>11, WeighsBoth, Zenon
<1>13. Weighs(v3 \o When(layer, v4), Z, C + c4)
  BY <1>4, <1>10, <1>11, WeighsBoth, Zenon
<1>14. Weighs(back, Z, (C + c4) + c5)
  BY <1>4, <1>11, <1>13, WeighsBoth, Zenon
<1> HIDE DEF front, back
<1>15. /\ Weighs(InBlock(Outside, front), Y, V * C + c2)
       /\ Weighs(InBlock(Outside, back), Y, (C + c4) + c5)
  <2>1. Outside \in Int
    BY DEF Outside
  <2> QED BY <1>12, <1>14, <2>1, InBlockWeighs DEF Z, Y
<1>16. Weighs(BlocksOf(g), Y, blocks)
  BY BlocksWeigh DEF Y
<1> HIDE DEF blocks
<1>17. Weighs(InBlock(Outside, front) \o BlocksOf(g), Y, (V * C + c2) + blocks)
  BY <1>4, <1>15, <1>16, WeighsBoth, Zenon
<1>18. Weighs((InBlock(Outside, front) \o BlocksOf(g)) \o InBlock(Outside, back), Y,
              ((V * C + c2) + blocks) + ((C + c4) + c5))
  BY <1>4, <1>15, <1>17, WeighsBoth, Zenon
<1>19. ParamCount(g) = V * C + c2 + blocks + (IF g.norm = "rms" THEN C ELSE 2 * C)
                       + (IF g.tied THEN 0 ELSE C * V)
  BY Zenon DEF ParamCount, BlockCount, V, C, W, c2, blocks, learned
<1>20. (IF g.norm = "rms" THEN C ELSE 2 * C) = C + c4
  <2>1. layer <=> g.norm # "rms"
    BY DEF Configurations, layer
  <2> QED BY <1>3, <2>1 DEF c4
<1>21. (IF g.tied THEN 0 ELSE C * V) = c5
  BY DEF c5, untied
<1>22. c2 \in Nat /\ blocks \in Nat /\ c4 \in Nat /\ c5 \in Nat /\ V * C \in Nat
  <2>1. blocks \in Nat
    BY <1>16 DEF Weighs
  <2>2. V * C \in Nat
    BY <1>10 DEF Weighs
  <2>3. c2 \in Nat /\ c4 \in Nat /\ c5 \in Nat
    BY <1>11 DEF Weighs
  <2> QED BY <2>1, <2>2, <2>3
<1> DEFINE a == V * C
<1>23. /\ a + c2 + blocks + (C + c4) + c5 = ((a + c2) + blocks) + ((C + c4) + c5)
  <2> HIDE DEF a
  <2>1. a \in Nat
    BY <1>22 DEF a
  <2> QED BY ONLY <1>3, <1>22, <2>1
<1>24. ParamCount(g) = ((V * C + c2) + blocks) + ((C + c4) + c5)
  BY <1>19, <1>20, <1>21, <1>23, Zenon
<1> QED BY <1>1, <1>18, <1>24, Zenon DEF Y

\* The names of what is registered weigh the same.
LEMMA OrderWeighs ==
    ASSUME NEW g \in Configurations, Valid(g)
    PROVE  Weighs([i \in DOMAIN Registered(g) |-> Registered(g)[i].name], NameSizes(g), ParamCount(g))
<1> DEFINE reg == Registered(g)
           T == TensorsOf(g, Int \X PartNames)
           Y == TensorSizes(g)
           N == Int \X PartNames
           Z == NameSizes(g)
           w == ParamCount(g)
           n == Len(reg)
           e(i) == reg[i].name
           t == [i \in 1..n |-> e(i)]
<1>1. Y \in [T -> Nat] /\ Z \in [N -> Nat]
  BY SizesTyped
<1>2. Weighs(reg, Y, w)
  BY RegisteredWeighs
<1> HIDE DEF reg, w
<1>3. reg \in Seq(T)
  BY <1>1, <1>2 DEF Weighs
<1>4. n \in Nat /\ DOMAIN reg = 1..n /\ \A i \in 1..n : reg[i] \in T
  BY <1>3
<1>5. \A x \in T : x.name \in N /\ Z[x.name] = Y[x]
  <2> TAKE x \in T
  <2>1. PICK m \in N : x = [name |-> m, shape |-> ShapeOf(g, m[2])]
    BY DEF TensorsOf
  <2>2. x.name = m /\ x.shape = ShapeOf(g, m[2])
    BY <2>1
  <2>3. Z[m] = Numel(ShapeOf(g, m[2]))
    BY DEF NameSizes
  <2>4. Y[x] = Numel(x.shape)
    BY DEF TensorSizes
  <2> QED BY <2>2, <2>3, <2>4
<1>6. \A i \in 1..n : e(i) \in N /\ Z[e(i)] = Y[reg[i]]
  BY <1>4, <1>5
<1>7. [i \in DOMAIN reg |-> reg[i].name] = t
  BY <1>4
<1> HIDE DEF n, e, T, N, Y, Z
<1>8. t \in Seq(N) /\ Len(t) = n /\ \A i \in 1..n : t[i] = e(i)
  BY <1>4, <1>6
<1> HIDE DEF t
<1>9. Len(t) = Len(reg) /\ \A i \in 1..Len(reg) : Z[t[i]] = Y[reg[i]]
  BY <1>6, <1>8 DEF n
<1>10. Weighs(t, Z, w)
  BY <1>1, <1>2, <1>8, <1>9, WeighsAs
<1> QED BY <1>7, <1>10, Zenon DEF Z, w, reg

LEMMA Joined ==
    ASSUME NEW X, NEW s \in Seq(X), NEW y \in X, NEW u \in Seq(X), Len(u) = Len(s) + 1,
           u[Len(s) + 1] = y, \A i \in 1..Len(s) : u[i] = s[i]
    PROVE  s \o <<y>> = u
<1> DEFINE n == Len(s)
           v == s \o <<y>>
<1>1. n \in Nat /\ v \in Seq(X) /\ Len(v) = n + 1 /\ v[n + 1] = y /\ \A i \in 1..n : v[i] = s[i]
  OBVIOUS
<1>2. u \in Seq(X) /\ Len(u) = n + 1 /\ u[n + 1] = y /\ \A i \in 1..n : u[i] = s[i]
  OBVIOUS
<1> HIDE DEF n, v
<1>3. \A i \in 1..(n + 1) : i \in 1..n \/ i = n + 1
  BY <1>1
<1>4. \A i \in 1..(n + 1) : v[i] = u[i]
  BY <1>1, <1>2, <1>3
<1>5. u = [i \in 1..(n + 1) |-> u[i]] /\ v = [i \in 1..(n + 1) |-> v[i]]
  BY <1>1, <1>2
<1>6. u = v
  BY ONLY <1>4, <1>5
<1> QED BY <1>6 DEF v

\* The parts grow_depth lists weigh one block.
LEMMA WeighsTwo ==
    ASSUME NEW X, NEW Z \in [X -> Nat], NEW x \in X, NEW y \in X
    PROVE  Weighs(<<x, y>>, Z, Z[x] + Z[y])
<1>1. Weighs(<<x>>, Z, Z[x]) /\ Weighs(<<y>>, Z, Z[y])
  BY WeighsOne
<1>2. Weighs(<<x>> \o <<y>>, Z, Z[x] + Z[y])
  BY <1>1, WeighsBoth, Zenon
<1>3. <<x>> \o <<y>> = <<x, y>>
  <2> DEFINE s == <<x>>
             u == <<x, y>>
  <2>1. /\ s \in Seq(X) /\ u \in Seq(X) /\ Len(s) = 1 /\ Len(u) = 2 /\ u[2] = y
        /\ \A i \in 1..1 : u[i] = s[i]
    OBVIOUS
  <2> HIDE DEF s, u
  <2>2. Len(u) = Len(s) + 1 /\ u[Len(s) + 1] = y /\ \A i \in 1..Len(s) : u[i] = s[i]
    BY <2>1
  <2>3. s \o <<y>> = u
    BY <2>1, <2>2, Joined, Zenon
  <2> QED BY <2>3 DEF s, u
<1> QED BY <1>2, <1>3, Zenon

LEMMA WeighsThree ==
    ASSUME NEW X, NEW Z \in [X -> Nat], NEW x \in X, NEW y \in X, NEW z \in X
    PROVE  Weighs(<<x, y, z>>, Z, Z[x] + Z[y] + Z[z])
<1>1. Weighs(<<x, y>>, Z, Z[x] + Z[y]) /\ Weighs(<<z>>, Z, Z[z])
  BY WeighsOne, WeighsTwo
<1>2. Weighs(<<x, y>> \o <<z>>, Z, Z[x] + Z[y] + Z[z])
  BY <1>1, WeighsBoth, Zenon
<1>3. <<x, y>> \o <<z>> = <<x, y, z>>
  <2> DEFINE s == <<x, y>>
             u == <<x, y, z>>
  <2>1. /\ s \in Seq(X) /\ u \in Seq(X) /\ Len(s) = 2 /\ Len(u) = 3 /\ u[3] = z
        /\ \A i \in 1..2 : u[i] = s[i]
    OBVIOUS
  <2> HIDE DEF s, u
  <2>2. Len(u) = Len(s) + 1 /\ u[Len(s) + 1] = z /\ \A i \in 1..Len(s) : u[i] = s[i]
    BY <2>1
  <2>3. s \o <<z>> = u
    BY <2>1, <2>2, Joined, Zenon
  <2> QED BY <2>3 DEF s, u
<1> QED BY <1>2, <1>3, Zenon

LEMMA WeighsFour ==
    ASSUME NEW X, NEW Z \in [X -> Nat], NEW x \in X, NEW y \in X, NEW z \in X, NEW u \in X
    PROVE  Weighs(<<x, y, z, u>>, Z, Z[x] + Z[y] + Z[z] + Z[u])
<1>1. Weighs(<<x, y, z>>, Z, Z[x] + Z[y] + Z[z]) /\ Weighs(<<u>>, Z, Z[u])
  BY WeighsOne, WeighsThree
<1>2. Weighs(<<x, y, z>> \o <<u>>, Z, Z[x] + Z[y] + Z[z] + Z[u])
  BY <1>1, WeighsBoth, Zenon
<1>3. <<x, y, z>> \o <<u>> = <<x, y, z, u>>
  <2> DEFINE s == <<x, y, z>>
             v == <<x, y, z, u>>
  <2>1. /\ s \in Seq(X) /\ v \in Seq(X) /\ Len(s) = 3 /\ Len(v) = 4 /\ v[4] = u
        /\ \A i \in 1..3 : v[i] = s[i]
    OBVIOUS
  <2> HIDE DEF s, v
  <2>2. Len(v) = Len(s) + 1 /\ v[Len(s) + 1] = u /\ \A i \in 1..Len(s) : v[i] = s[i]
    BY <2>1
  <2>3. s \o <<u>> = v
    BY <2>1, <2>2, Joined, Zenon
  <2> QED BY <2>3 DEF s, v
<1> QED BY <1>2, <1>3, Zenon

LEMMA GrownWeighs ==
    ASSUME NEW g \in Configurations, Valid(g)
    PROVE  Weighs(<<"n1.g", "attn.qkv.w", "attn.proj.w", "n2.g">>
                  \o When(g.norm # "rms", <<"n1.b", "n2.b">>)
                  \o When(g.qk, <<"attn.qnorm.g", "attn.knorm.g">>)
                  \o When(g.bias, <<"attn.qkv.b", "attn.proj.b">>)
                  \o When(g.ffn = "swiglu", <<"mlp.gate.w", "mlp.up.w", "mlp.down.w">>)
                  \o When(g.ffn # "swiglu", <<"mlp.up.w", "mlp.down.w">>)
                  \o When(g.ffn # "swiglu" /\ g.bias, <<"mlp.up.b", "mlp.down.b">>),
                  GrownSizes(g), BlockCount(g))
<1> DEFINE v1 == <<"n1.g", "attn.qkv.w", "attn.proj.w", "n2.g">>
           b2 == g.norm # "rms"
           v2 == <<"n1.b", "n2.b">>
           t2 == When(b2, v2)
           b3 == g.qk
           v3 == <<"attn.qnorm.g", "attn.knorm.g">>
           t3 == When(b3, v3)
           b4 == g.bias
           v4 == <<"attn.qkv.b", "attn.proj.b">>
           t4 == When(b4, v4)
           b5 == g.ffn = "swiglu"
           v5 == <<"mlp.gate.w", "mlp.up.w", "mlp.down.w">>
           t5 == When(b5, v5)
           b6 == g.ffn # "swiglu"
           v6 == <<"mlp.up.w", "mlp.down.w">>
           t6 == When(b6, v6)
           b7 == g.ffn # "swiglu" /\ g.bias
           v7 == <<"mlp.up.b", "mlp.down.b">>
           t7 == When(b7, v7)
           Z == GrownSizes(g)
           C == g.embd
           Q == C + 2 * KvDim(g)
           D == HeadDim(g)
           H == Hidden(g)
           all == v1 \o t2 \o t3 \o t4 \o t5 \o t6 \o t7
<1>1. b2 \in BOOLEAN /\ b3 \in BOOLEAN /\ b4 \in BOOLEAN /\ b5 \in BOOLEAN /\ b6 \in BOOLEAN /\ b7 \in BOOLEAN
  BY DEF Configurations
<1>2. Z \in [PartNames -> Nat]
  BY SizesTyped
<1>3. C \in Nat /\ Q \in Nat /\ D \in Nat /\ H \in Nat
  BY DimsAre
<1>4. \A p \in PartNames : Z[p] = Numel(ShapeOf(g, p))
  BY DEF GrownSizes
<1>5. /\ ShapeOf(g, "n1.g") = <<C>> /\ ShapeOf(g, "n1.b") = <<C>> /\ ShapeOf(g, "attn.qkv.w") = <<C, Q>>
      /\ ShapeOf(g, "attn.qkv.b") = <<Q>> /\ ShapeOf(g, "attn.qnorm.g") = <<D>>
      /\ ShapeOf(g, "attn.knorm.g") = <<D>> /\ ShapeOf(g, "attn.proj.w") = <<C, C>>
      /\ ShapeOf(g, "attn.proj.b") = <<C>> /\ ShapeOf(g, "n2.g") = <<C>> /\ ShapeOf(g, "n2.b") = <<C>>
      /\ ShapeOf(g, "mlp.gate.w") = <<C, H>> /\ ShapeOf(g, "mlp.up.w") = <<C, H>>
      /\ ShapeOf(g, "mlp.up.b") = <<H>> /\ ShapeOf(g, "mlp.down.w") = <<H, C>>
      /\ ShapeOf(g, "mlp.down.b") = <<C>>
  BY DEF ShapeOf
<1>6. /\ "n1.g" \in PartNames /\ "n1.b" \in PartNames /\ "attn.qkv.w" \in PartNames
      /\ "attn.qkv.b" \in PartNames /\ "attn.qnorm.g" \in PartNames /\ "attn.knorm.g" \in PartNames
      /\ "attn.proj.w" \in PartNames /\ "attn.proj.b" \in PartNames /\ "n2.g" \in PartNames
      /\ "n2.b" \in PartNames /\ "mlp.gate.w" \in PartNames /\ "mlp.up.w" \in PartNames
      /\ "mlp.up.b" \in PartNames /\ "mlp.down.w" \in PartNames /\ "mlp.down.b" \in PartNames
  BY DEF PartNames
<1> HIDE DEF Z, C, Q, D, H
<1>7. /\ Z["n1.g"] = C /\ Z["n1.b"] = C /\ Z["attn.qkv.w"] = C * Q /\ Z["attn.qkv.b"] = Q
      /\ Z["attn.qnorm.g"] = D /\ Z["attn.knorm.g"] = D /\ Z["attn.proj.w"] = C * C
      /\ Z["attn.proj.b"] = C /\ Z["n2.g"] = C /\ Z["n2.b"] = C /\ Z["mlp.gate.w"] = C * H
      /\ Z["mlp.up.w"] = C * H /\ Z["mlp.up.b"] = H /\ Z["mlp.down.w"] = H * C /\ Z["mlp.down.b"] = C
  <2>1. \A x : Numel(<<x>>) = x
    BY NumelIs
  <2>2. \A x, y : Numel(<<x, y>>) = x * y
    BY NumelIs
  <2>3. /\ Z["n1.g"] = Numel(<<C>>) /\ Z["n1.b"] = Numel(<<C>>) /\ Z["attn.qkv.w"] = Numel(<<C, Q>>)
        /\ Z["attn.qkv.b"] = Numel(<<Q>>) /\ Z["attn.qnorm.g"] = Numel(<<D>>)
        /\ Z["attn.knorm.g"] = Numel(<<D>>) /\ Z["attn.proj.w"] = Numel(<<C, C>>)
        /\ Z["attn.proj.b"] = Numel(<<C>>) /\ Z["n2.g"] = Numel(<<C>>) /\ Z["n2.b"] = Numel(<<C>>)
        /\ Z["mlp.gate.w"] = Numel(<<C, H>>) /\ Z["mlp.up.w"] = Numel(<<C, H>>)
        /\ Z["mlp.up.b"] = Numel(<<H>>) /\ Z["mlp.down.w"] = Numel(<<H, C>>)
        /\ Z["mlp.down.b"] = Numel(<<C>>)
    BY <1>4, <1>5, <1>6
  <2>4. /\ Z["n1.g"] = C /\ Z["n1.b"] = C /\ Z["attn.qkv.b"] = Q
        /\ Z["attn.qnorm.g"] = D /\ Z["attn.knorm.g"] = D
        /\ Z["attn.proj.b"] = C /\ Z["n2.g"] = C /\ Z["n2.b"] = C
        /\ Z["mlp.up.b"] = H /\ Z["mlp.down.b"] = C
    BY <2>1, <2>3, Zenon
  <2>5. /\ Z["attn.qkv.w"] = C * Q /\ Z["attn.proj.w"] = C * C /\ Z["mlp.gate.w"] = C * H
        /\ Z["mlp.up.w"] = C * H /\ Z["mlp.down.w"] = H * C
    BY <2>2, <2>3, Zenon
  <2> QED BY <2>4, <2>5
<1> DEFINE a == C * Q
           b == C * C
           c == C * H
           rms == g.norm = "rms"
<1>8. a \in Nat /\ b \in Nat /\ c \in Nat /\ H * C = c /\ 3 * C * H = c + c + c /\ 2 * C * H = c + c
  BY <1>3
<1>9. /\ Z["n1.g"] + Z["attn.qkv.w"] + Z["attn.proj.w"] + Z["n2.g"] = C + a + b + C
      /\ Z["n1.b"] + Z["n2.b"] = C + C /\ Z["attn.qnorm.g"] + Z["attn.knorm.g"] = D + D
      /\ Z["attn.qkv.b"] + Z["attn.proj.b"] = Q + C
      /\ Z["mlp.gate.w"] + Z["mlp.up.w"] + Z["mlp.down.w"] = c + c + c
      /\ Z["mlp.up.w"] + Z["mlp.down.w"] = c + c /\ Z["mlp.up.b"] + Z["mlp.down.b"] = H + C
  BY <1>7, <1>8, Zenon
<1>10. BlockCount(g) = 2 * (IF rms THEN C ELSE 2 * C) + (IF b3 THEN 2 * D ELSE 0) + a + b
                       + (IF b4 THEN Q + C ELSE 0)
                       + (IF b5 THEN 3 * C * H ELSE 2 * C * H + (IF b4 THEN H + C ELSE 0))
  BY Zenon DEF BlockCount, C, Q, D, H
<1>11. /\ b2 <=> ~rms
       /\ b6 <=> ~b5
       /\ b7 <=> ~b5 /\ b4
  OBVIOUS
<1> HIDE DEF a, b, c, rms
<1>12. BlockCount(g) = 2 * (IF rms THEN C ELSE 2 * C) + (IF b3 THEN 2 * D ELSE 0) + a + b
                       + (IF b4 THEN Q + C ELSE 0)
                       + (IF b5 THEN c + c + c ELSE c + c + (IF b4 THEN H + C ELSE 0))
  BY <1>8, <1>10, Zenon
<1> HIDE DEF b2, b3, b4, b5, b6, b7
<1>v1. Weighs(v1, Z, C + a + b + C)
  BY <1>2, <1>6, <1>9, WeighsFour, Zenon
<1>v2. Weighs(v2, Z, C + C)
  BY <1>2, <1>6, <1>9, WeighsTwo, Zenon
<1>v3. Weighs(v3, Z, D + D)
  BY <1>2, <1>6, <1>9, WeighsTwo, Zenon
<1>v4. Weighs(v4, Z, Q + C)
  BY <1>2, <1>6, <1>9, WeighsTwo, Zenon
<1>v5. Weighs(v5, Z, c + c + c)
  BY <1>2, <1>6, <1>9, WeighsThree, Zenon
<1>v6. Weighs(v6, Z, c + c)
  BY <1>2, <1>6, <1>9, WeighsTwo, Zenon
<1>v7. Weighs(v7, Z, H + C)
  BY <1>2, <1>6, <1>9, WeighsTwo, Zenon
<1> DEFINE w1 == C + a + b + C
           w2 == IF b2 THEN C + C ELSE 0
           w3 == IF b3 THEN D + D ELSE 0
           w4 == IF b4 THEN Q + C ELSE 0
           w5 == IF b5 THEN c + c + c ELSE 0
           w6 == IF b6 THEN c + c ELSE 0
           w7 == IF b7 THEN H + C ELSE 0
<1> HIDE DEF v1, v2, v3, v4, v5, v6, v7
<1>t. /\ Weighs(v1, Z, w1) /\ Weighs(t2, Z, w2) /\ Weighs(t3, Z, w3) /\ Weighs(t4, Z, w4)
      /\ Weighs(t5, Z, w5) /\ Weighs(t6, Z, w6) /\ Weighs(t7, Z, w7)
  BY <1>1, <1>2, <1>v1, <1>v2, <1>v3, <1>v4, <1>v5, <1>v6, <1>v7, WeighsWhen, Zenon
<1>n. /\ w1 \in Nat /\ w2 \in Nat /\ w3 \in Nat /\ w4 \in Nat /\ w5 \in Nat /\ w6 \in Nat /\ w7 \in Nat
  BY <1>3, <1>8
<1>13. w1 + w2 = 2 * (IF rms THEN C ELSE 2 * C) + a + b
  <2>1. CASE rms
    BY <1>3, <1>8, <1>11, <2>1
  <2>2. CASE ~rms
    BY <1>3, <1>8, <1>11, <2>2
  <2> QED BY <2>1, <2>2
<1>14. w3 = (IF b3 THEN 2 * D ELSE 0)
  BY <1>3
<1>15. w5 + w6 + w7 = (IF b5 THEN c + c + c ELSE c + c + (IF b4 THEN H + C ELSE 0))
  <2>1. CASE b5
    BY <1>3, <1>8, <1>11, <2>1
  <2>2. CASE ~b5
    <3>1. b7 <=> b4
      BY <1>11, <2>2
    <3>2. b6
      BY <1>11, <2>2
    <3>3. CASE b4
      BY <1>3, <1>8, <2>2, <3>1, <3>2, <3>3
    <3>4. CASE ~b4
      BY <1>3, <1>8, <2>2, <3>1, <3>2, <3>4
    <3> QED BY <3>3, <3>4
  <2> QED BY <2>1, <2>2
<1> DEFINE r == 2 * (IF rms THEN C ELSE 2 * C)
<1>16. BlockCount(g) = r + w3 + a + b + w4 + (w5 + w6 + w7)
  BY <1>12, <1>14, <1>15, Zenon
<1>17. r \in Nat
  BY <1>3
<1> HIDE DEF t2, t3, t4, t5, t6, t7, w1, w2, w3, w4, w5, w6, w7, r
<1>18. w1 + w2 = r + a + b
  BY <1>13 DEF r
<1>19. BlockCount(g) = w1 + w2 + w3 + w4 + w5 + w6 + w7
  <2>1. r + w3 + a + b + w4 + (w5 + w6 + w7) = (r + a + b) + w3 + w4 + w5 + w6 + w7
    BY ONLY <1>8, <1>17, <1>n
  <2>2. (r + a + b) + w3 + w4 + w5 + w6 + w7 = w1 + w2 + w3 + w4 + w5 + w6 + w7
    BY <1>18, Zenon
  <2> QED BY <1>16, <2>1, <2>2, Zenon
<1>20. Weighs(v1 \o t2, Z, w1 + w2)
  BY <1>2, <1>t, WeighsBoth, Zenon
<1>21. Weighs(v1 \o t2 \o t3, Z, w1 + w2 + w3)
  BY <1>2, <1>t, <1>20, WeighsBoth, Zenon
<1>22. Weighs(v1 \o t2 \o t3 \o t4, Z, w1 + w2 + w3 + w4)
  BY <1>2, <1>t, <1>21, WeighsBoth, Zenon
<1>23. Weighs(v1 \o t2 \o t3 \o t4 \o t5, Z, w1 + w2 + w3 + w4 + w5)
  BY <1>2, <1>t, <1>22, WeighsBoth, Zenon
<1>24. Weighs(v1 \o t2 \o t3 \o t4 \o t5 \o t6, Z, w1 + w2 + w3 + w4 + w5 + w6)
  BY <1>2, <1>t, <1>23, WeighsBoth, Zenon
<1>25. Weighs(all, Z, w1 + w2 + w3 + w4 + w5 + w6 + w7)
  BY <1>2, <1>t, <1>24, WeighsBoth, Zenon
<1>26. Weighs(all, Z, BlockCount(g))
  BY <1>19, <1>25, Zenon
<1> QED BY <1>26, Zenon DEF Z, v1, v2, v3, v4, v5, v6, v7, t2, t3, t4, t5, t6, t7,
                            b2, b3, b4, b5, b6, b7

-----------------------------------------------------------------------------
(* Models (ModelFiles): what is built, loaded or deepened has the tensors its  *)
(* configuration asks for, and no other.                                       *)

\* The tensors hold as many numbers as the configuration announces.
Counted(m) == Weighs(m.order, NameSizes(m.cfg), ParamCount(m.cfg))

WellBuilt(m) ==
    /\ m = [cfg |-> m.cfg, order |-> m.order, params |-> m.params]
    /\ m.cfg \in Configurations /\ Valid(m.cfg)
    /\ Lists(m.order, NamesOf(m.cfg))
    /\ m.params = [n \in NamesOf(m.cfg) |-> m.params[n]]
    /\ \A n \in NamesOf(m.cfg) :
          /\ m.params[n] = [shape |-> ShapeOf(m.cfg, n[2]), value |-> m.params[n].value]
          /\ m.params[n].value \in Nat
    /\ Counted(m)

LEMMA ModelBuilt ==
    ASSUME NEW g \in Configurations, Valid(g)
    PROVE  WellBuilt(Model(g)) /\ Model(g).cfg = g /\ \A n \in NamesOf(g) : Model(g).params[n].value = 1
<1> DEFINE reg == Registered(g)
           N == NamesOf(g)
           T == TensorsOf(g, N)
           order == [i \in DOMAIN reg |-> reg[i].name]
           params == [n \in Names(reg) |-> [shape |-> Called(reg, n).shape, value |-> 1]]
<1>1. Model(g) = [cfg |-> g, order |-> order, params |-> params]
  BY DEF Model
<1>2. g.layers \in Nat
  BY DEF Configurations, Valid
<1>3. Lists(reg, T) /\ Weighs(order, NameSizes(g), ParamCount(g))
  BY <1>2, RegisteredLists, OrderWeighs
<1> HIDE DEF reg
<1>4. /\ Len(reg) \in Nat /\ DOMAIN reg = 1..Len(reg)
      /\ \A i \in 1..Len(reg) : reg[i] \in T
      /\ \A x \in T : \E i \in 1..Len(reg) : reg[i] = x
      /\ \A i, j \in 1..Len(reg) : reg[i] = reg[j] => i = j
  BY <1>3 DEF Lists
<1>5. \A x \in T : x.name \in N /\ x = [name |-> x.name, shape |-> ShapeOf(g, x.name[2])]
  BY DEF TensorsOf
<1>6. \A n \in N : \E x \in T : x.name = n
  <2> TAKE n \in N
  <2>1. [name |-> n, shape |-> ShapeOf(g, n[2])] \in T
    BY DEF TensorsOf
  <2> QED BY <2>1
<1> HIDE DEF N, T
<1>7. Names(reg) = N
  BY <1>4, <1>5, <1>6 DEF Names
<1>8. \A n \in N : Called(reg, n).shape = ShapeOf(g, n[2])
  <2> TAKE n \in N
  <2>1. \E i \in DOMAIN reg : reg[i].name = n
    BY <1>4, <1>6
  <2> DEFINE k == CHOOSE i \in DOMAIN reg : reg[i].name = n
  <2>2. k \in DOMAIN reg /\ reg[k].name = n
    BY <2>1
  <2>3. Called(reg, n) = reg[k]
    BY DEF Called
  <2> HIDE DEF k
  <2>4. reg[k] = [name |-> n, shape |-> ShapeOf(g, n[2])]
    BY <1>4, <1>5, <2>2
  <2> QED BY <2>3, <2>4
<1>9. Lists(order, N)
  <2>1. \A i \in 1..Len(reg) : order[i] = reg[i].name /\ order[i] \in N
    BY <1>4, <1>5
  <2>2. order \in Seq(N) /\ Len(order) = Len(reg)
    <3> DEFINE k == Len(reg)
    <3>1. \A i \in 1..k : reg[i].name \in N
      BY <2>1
    <3>2. order = [i \in 1..k |-> reg[i].name] /\ k \in Nat
      BY <1>4
    <3> HIDE DEF k, order
    <3>3. order \in Seq(N) /\ Len(order) = k
      BY <3>1, <3>2
    <3> QED BY <3>3 DEF k
  <2> HIDE DEF order
  <2>3. \A n \in N : \E i \in 1..Len(order) : order[i] = n
    BY <1>4, <1>6, <2>1, <2>2
  <2>4. \A i, j \in 1..Len(order) : order[i] = order[j] => i = j
    <3> TAKE i, j \in 1..Len(order)
    <3> HAVE order[i] = order[j]
    <3>1. reg[i].name = reg[j].name /\ reg[i] \in T /\ reg[j] \in T
      BY <1>4, <2>1, <2>2
    <3>2. reg[i] = reg[j]
      BY <1>5, <3>1
    <3> QED BY <1>4, <2>2, <3>2
  <2> QED BY <2>2, <2>3, <2>4 DEF Lists
<1>10. params = [n \in N |-> [shape |-> ShapeOf(g, n[2]), value |-> 1]]
  BY <1>7, <1>8
<1> DEFINE m == Model(g)
<1>11. /\ m.cfg = g /\ m.order = order /\ m.params = [n \in N |-> [shape |-> ShapeOf(g, n[2]), value |-> 1]]
       /\ m = [cfg |-> m.cfg, order |-> m.order, params |-> m.params]
  BY <1>1, <1>10
<1> HIDE DEF m, order, params
<1>12. \A n \in N : m.params[n] = [shape |-> ShapeOf(g, n[2]), value |-> 1]
  BY <1>11
<1>13. m.params = [n \in N |-> m.params[n]]
  BY <1>11
<1>14. \A n \in N : /\ m.params[n] = [shape |-> ShapeOf(g, n[2]), value |-> m.params[n].value]
                     /\ m.params[n].value = 1
  <2> TAKE n \in N
  <2>1. m.params[n] = [shape |-> ShapeOf(g, n[2]), value |-> 1]
    BY <1>12
  <2>2. m.params[n].value = 1
    BY <2>1
  <2> QED BY <2>1, <2>2
<1>15. Counted(m)
  BY <1>3, <1>11, Zenon DEF Counted
<1> QED BY <1>9, <1>11, <1>13, <1>14, <1>15 DEF WellBuilt, N, m

\* One more block: what the configuration asks for with one layer more.
LEMMA OneMoreLayer ==
    ASSUME NEW g \in Configurations, Valid(g)
    PROVE  LET h == [g EXCEPT !.layers = @ + 1]
           IN  /\ h \in Configurations /\ Valid(h) /\ h.layers = g.layers + 1
               /\ \A p : ShapeOf(h, p) = ShapeOf(g, p)
               /\ NamesOf(h) = NamesOf(g) \cup ({g.layers} \X InnerNames(g))
               /\ NamesOf(g) \cap ({g.layers} \X InnerNames(g)) = {}
<1> DEFINE h == [g EXCEPT !.layers = @ + 1]
<1>1. /\ h.norm = g.norm /\ h.pos = g.pos /\ h.ffn = g.ffn /\ h.bias = g.bias /\ h.qk = g.qk
      /\ h.tied = g.tied /\ h.vocab = g.vocab /\ h.heads = g.heads /\ h.kv = g.kv
      /\ h.embd = g.embd /\ h.ctx = g.ctx /\ h.hidden = g.hidden
      /\ h.layers = g.layers + 1 /\ h \in Configurations
  BY DEF Configurations
<1>2. g.layers \in Int /\ g.layers > 0
  BY DEF Configurations, Valid
<1> HIDE DEF h
<1>3. HeadDim(h) = HeadDim(g) /\ KvDim(h) = KvDim(g) /\ Hidden(h) = Hidden(g)
  BY <1>1 DEF HeadDim, KvDim, KvHeads, Hidden
<1>4. Valid(h)
  <2>1. g.layers + 1 > 0
    BY <1>2
  <2> QED BY <1>1, <1>3, <2>1 DEF Valid
<1>5. \A p : ShapeOf(h, p) = ShapeOf(g, p)
  BY <1>1, <1>3 DEF ShapeOf
<1>6. InnerNames(h) = InnerNames(g) /\ OuterNames(h) = OuterNames(g)
  BY <1>1 DEF InnerNames, OuterNames
<1>7. 0..(g.layers + 1 - 1) = 0..(g.layers - 1) \cup {g.layers} /\ g.layers \notin 0..(g.layers - 1)
      /\ g.layers # Outside
  BY <1>2 DEF Outside
<1> DEFINE I == InnerNames(g)
           O == OuterNames(g)
<1>8. NamesOf(h) = ({Outside} \X O) \cup ((0..(g.layers + 1 - 1)) \X I)
  <2>1. NamesOf(h) = ({Outside} \X OuterNames(h)) \cup ((0..(h.layers - 1)) \X InnerNames(h))
    BY DEF NamesOf
  <2>2. 0..(h.layers - 1) = 0..(g.layers + 1 - 1)
    BY <1>1, <1>2
  <2> QED BY <1>6, <2>1, <2>2
<1>9. NamesOf(g) = ({Outside} \X O) \cup ((0..(g.layers - 1)) \X I)
  BY DEF NamesOf
<1> HIDE DEF I, O
<1>10. /\ NamesOf(h) = NamesOf(g) \cup ({g.layers} \X I)
       /\ NamesOf(g) \cap ({g.layers} \X I) = {}
  BY <1>7, <1>8, <1>9
<1> QED BY <1>1, <1>4, <1>5, <1>10 DEF h, I

\* One layer more announces one block more.
LEMMA DeeperCounts ==
    ASSUME NEW g \in Configurations, Valid(g)
    PROVE  LET h == [g EXCEPT !.layers = @ + 1]
           IN  NameSizes(h) = NameSizes(g) /\ ParamCount(h) = ParamCount(g) + BlockCount(g)
<1> DEFINE h == [g EXCEPT !.layers = @ + 1]
           C == g.embd
           n == g.layers
           w == BlockCount(g)
           a == g.vocab * C
           b == IF g.pos = "learned" THEN g.ctx * C ELSE 0
           c == IF g.norm = "rms" THEN C ELSE 2 * C
           d == IF g.tied THEN 0 ELSE C * g.vocab
<1>1. /\ h.norm = g.norm /\ h.pos = g.pos /\ h.ffn = g.ffn /\ h.bias = g.bias /\ h.qk = g.qk
      /\ h.tied = g.tied /\ h.vocab = g.vocab /\ h.heads = g.heads /\ h.kv = g.kv
      /\ h.embd = g.embd /\ h.ctx = g.ctx /\ h.hidden = g.hidden /\ h.layers = n + 1
  BY DEF Configurations
<1>2. \A p : ShapeOf(h, p) = ShapeOf(g, p)
  BY OneMoreLayer
<1>3. g.vocab \in Nat /\ C \in Nat /\ n \in Nat /\ g.ctx \in Nat /\ w \in Nat
  BY BlockCountIs DEF Configurations, Valid
<1> HIDE DEF h
<1>4. NameSizes(h) = NameSizes(g)
  BY <1>2 DEF NameSizes
<1>5. HeadDim(h) = HeadDim(g) /\ KvDim(h) = KvDim(g) /\ Hidden(h) = Hidden(g)
  BY <1>1 DEF HeadDim, KvDim, KvHeads, Hidden
<1>6. BlockCount(h) = w
  BY <1>1, <1>5, Zenon DEF BlockCount
<1>7. ParamCount(g) = a + b + n * w + c + d
  BY Zenon DEF ParamCount, BlockCount
<1>8. ParamCount(h) = h.vocab * h.embd + (IF h.pos = "learned" THEN h.ctx * h.embd ELSE 0)
                      + h.layers * BlockCount(h)
                      + (IF h.norm = "rms" THEN h.embd ELSE 2 * h.embd)
                      + (IF h.tied THEN 0 ELSE h.embd * h.vocab)
  BY Zenon DEF ParamCount, BlockCount
<1>9. ParamCount(h) = a + b + (n + 1) * w + c + d
  BY <1>1, <1>6, <1>8, Zenon
<1>10. a \in Nat /\ b \in Nat /\ c \in Nat /\ d \in Nat /\ n * w \in Nat
  BY <1>3
<1> DEFINE nw == n * w
<1>11. (n + 1) * w = nw + w
  <2> HIDE DEF n, w
  <2> QED BY ONLY <1>3 DEF n, w
<1> HIDE DEF a, b, c, d, w
<1>12. ParamCount(g) = a + b + nw + c + d
  BY <1>7
<1>13. ParamCount(h) = a + b + (nw + w) + c + d
  BY <1>9, <1>11, Zenon
<1>14. nw \in Nat
  BY <1>10
<1> HIDE DEF nw
<1>15. a + b + (nw + w) + c + d = (a + b + nw + c + d) + w
  BY ONLY <1>3, <1>10, <1>14
<1>16. ParamCount(h) = ParamCount(g) + w
  BY <1>12, <1>13, <1>15, Zenon
<1> QED BY <1>4, <1>16 DEF h, w

\* The parts grow_depth lists are those of a block.
LEMMA PartsGrown ==
    ASSUME NEW g \in Configurations
    PROVE  Lists(<<"n1.g", "attn.qkv.w", "attn.proj.w", "n2.g">>
                 \o When(g.norm # "rms", <<"n1.b", "n2.b">>)
                 \o When(g.qk, <<"attn.qnorm.g", "attn.knorm.g">>)
                 \o When(g.bias, <<"attn.qkv.b", "attn.proj.b">>)
                 \o When(g.ffn = "swiglu", <<"mlp.gate.w", "mlp.up.w", "mlp.down.w">>)
                 \o When(g.ffn # "swiglu", <<"mlp.up.w", "mlp.down.w">>)
                 \o When(g.ffn # "swiglu" /\ g.bias, <<"mlp.up.b", "mlp.down.b">>),
                 InnerNames(g))
<1> DEFINE v1 == <<"n1.g", "attn.qkv.w", "attn.proj.w", "n2.g">>
           t1 == v1
           M1 == {"n1.g", "attn.qkv.w", "attn.proj.w", "n2.g"}
           s1 == t1
           N1 == M1
           b2 == g.norm # "rms"
           v2 == <<"n1.b", "n2.b">>
           t2 == When(b2, v2)
           M2 == Given(b2, {"n1.b", "n2.b"})
           s2 == s1 \o t2
           N2 == N1 \cup M2
           b3 == g.qk
           v3 == <<"attn.qnorm.g", "attn.knorm.g">>
           t3 == When(b3, v3)
           M3 == Given(b3, {"attn.qnorm.g", "attn.knorm.g"})
           s3 == s2 \o t3
           N3 == N2 \cup M3
           b4 == g.bias
           v4 == <<"attn.qkv.b", "attn.proj.b">>
           t4 == When(b4, v4)
           M4 == Given(b4, {"attn.qkv.b", "attn.proj.b"})
           s4 == s3 \o t4
           N4 == N3 \cup M4
           b5 == g.ffn = "swiglu"
           v5 == <<"mlp.gate.w", "mlp.up.w", "mlp.down.w">>
           t5 == When(b5, v5)
           M5 == Given(b5, {"mlp.gate.w", "mlp.up.w", "mlp.down.w"})
           s5 == s4 \o t5
           N5 == N4 \cup M5
           b6 == g.ffn # "swiglu"
           v6 == <<"mlp.up.w", "mlp.down.w">>
           t6 == When(b6, v6)
           M6 == Given(b6, {"mlp.up.w", "mlp.down.w"})
           s6 == s5 \o t6
           N6 == N5 \cup M6
           b7 == g.ffn # "swiglu" /\ g.bias
           v7 == <<"mlp.up.b", "mlp.down.b">>
           t7 == When(b7, v7)
           M7 == Given(b7, {"mlp.up.b", "mlp.down.b"})
           s7 == s6 \o t7
           N7 == N6 \cup M7
<1>1. /\ b2 \in BOOLEAN
      /\ b3 \in BOOLEAN
      /\ b4 \in BOOLEAN
      /\ b5 \in BOOLEAN
      /\ b6 \in BOOLEAN
      /\ b7 \in BOOLEAN
  BY DEF Configurations
<1>v1. Lists(v1, {"n1.g", "attn.qkv.w", "attn.proj.w", "n2.g"})
  <2>1. v1 \in Seq({"n1.g", "attn.qkv.w", "attn.proj.w", "n2.g"}) /\ Len(v1) = 4
    OBVIOUS
  <2> QED BY <2>1 DEF Lists
<1>v2. Lists(v2, {"n1.b", "n2.b"})
  <2>1. v2 \in Seq({"n1.b", "n2.b"}) /\ Len(v2) = 2
    OBVIOUS
  <2> QED BY <2>1 DEF Lists
<1>v3. Lists(v3, {"attn.qnorm.g", "attn.knorm.g"})
  <2>1. v3 \in Seq({"attn.qnorm.g", "attn.knorm.g"}) /\ Len(v3) = 2
    OBVIOUS
  <2> QED BY <2>1 DEF Lists
<1>v4. Lists(v4, {"attn.qkv.b", "attn.proj.b"})
  <2>1. v4 \in Seq({"attn.qkv.b", "attn.proj.b"}) /\ Len(v4) = 2
    OBVIOUS
  <2> QED BY <2>1 DEF Lists
<1>v5. Lists(v5, {"mlp.gate.w", "mlp.up.w", "mlp.down.w"})
  <2>1. v5 \in Seq({"mlp.gate.w", "mlp.up.w", "mlp.down.w"}) /\ Len(v5) = 3
    OBVIOUS
  <2> QED BY <2>1 DEF Lists
<1>v6. Lists(v6, {"mlp.up.w", "mlp.down.w"})
  <2>1. v6 \in Seq({"mlp.up.w", "mlp.down.w"}) /\ Len(v6) = 2
    OBVIOUS
  <2> QED BY <2>1 DEF Lists
<1>v7. Lists(v7, {"mlp.up.b", "mlp.down.b"})
  <2>1. v7 \in Seq({"mlp.up.b", "mlp.down.b"}) /\ Len(v7) = 2
    OBVIOUS
  <2> QED BY <2>1 DEF Lists
<1>2. N7 = InnerNames(g)
  BY DEF Configurations, InnerNames, Given
<1> HIDE DEF v1, v2, v3, v4, v5, v6, v7
<1>t1. Lists(t1, M1)
  BY <1>v1
<1>t2. Lists(t2, M2)
  BY <1>1, <1>v2, ListsWhen
<1>t3. Lists(t3, M3)
  BY <1>1, <1>v3, ListsWhen
<1>t4. Lists(t4, M4)
  BY <1>1, <1>v4, ListsWhen
<1>t5. Lists(t5, M5)
  BY <1>1, <1>v5, ListsWhen
<1>t6. Lists(t6, M6)
  BY <1>1, <1>v6, ListsWhen
<1>t7. Lists(t7, M7)
  BY <1>1, <1>v7, ListsWhen
<1>d2. N1 \cap M2 = {}
  BY DEF Given
<1>d3. N2 \cap M3 = {}
  BY DEF Given
<1>d4. N3 \cap M4 = {}
  BY DEF Given
<1>d5. N4 \cap M5 = {}
  BY DEF Given
<1>d6. N5 \cap M6 = {}
  BY DEF Given
<1>d7. N6 \cap M7 = {}
  BY DEF Given
<1> HIDE DEF t1, M1, t2, M2, t3, M3, t4, M4, t5, M5, t6, M6, t7, M7
<1>s2. Lists(s2, N2)
  BY <1>t1, <1>t2, <1>d2, ListsBoth, Zenon
<1> HIDE DEF s2, N2
<1>s3. Lists(s3, N3)
  BY <1>s2, <1>t3, <1>d3, ListsBoth, Zenon
<1> HIDE DEF s3, N3
<1>s4. Lists(s4, N4)
  BY <1>s3, <1>t4, <1>d4, ListsBoth, Zenon
<1> HIDE DEF s4, N4
<1>s5. Lists(s5, N5)
  BY <1>s4, <1>t5, <1>d5, ListsBoth, Zenon
<1> HIDE DEF s5, N5
<1>s6. Lists(s6, N6)
  BY <1>s5, <1>t6, <1>d6, ListsBoth, Zenon
<1> HIDE DEF s6, N6
<1>s7. Lists(s7, N7)
  BY <1>s6, <1>t7, <1>d7, ListsBoth, Zenon
<1>3. Lists(s7, InnerNames(g))
  BY <1>2, <1>s7
<1> QED BY <1>3, Zenon DEF t1, t2, t3, t4, t5, t6, t7, s1, s2, s3, s4, s5, s6, v1, v2, v3, v4, v5, v6, v7

\* grow_depth gives the model its configuration asks for, one layer deeper.
LEMMA DeepenedBuilt ==
    ASSUME NEW m, WellBuilt(m)
    PROVE  /\ WellBuilt(Deepened(m))
           /\ Deepened(m).cfg = [m.cfg EXCEPT !.layers = @ + 1]
<1> DEFINE g == m.cfg
           h == [g EXCEPT !.layers = @ + 1]
           I == InnerNames(g)
           parts == <<"n1.g", "attn.qkv.w", "attn.proj.w", "n2.g">>
                 \o When(g.norm # "rms", <<"n1.b", "n2.b">>)
                 \o When(g.qk, <<"attn.qnorm.g", "attn.knorm.g">>)
                 \o When(g.bias, <<"attn.qkv.b", "attn.proj.b">>)
                 \o When(g.ffn = "swiglu", <<"mlp.gate.w", "mlp.up.w", "mlp.down.w">>)
                 \o When(g.ffn # "swiglu", <<"mlp.up.w", "mlp.down.w">>)
                 \o When(g.ffn # "swiglu" /\ g.bias, <<"mlp.up.b", "mlp.down.b">>)
           fresh == {<<g.layers, parts[i]>> : i \in DOMAIN parts}
           from(name) == m.params[<<g.layers - 1, name[2]>>]
           silent == {"attn.proj.w", "mlp.down.w", "attn.proj.b", "mlp.down.b"}
           order == m.order \o [i \in DOMAIN parts |-> <<g.layers, parts[i]>>]
           tensor(n) == IF n \notin fresh THEN m.params[n]
                        ELSE IF n[2] \in silent THEN [from(n) EXCEPT !.value = 0] ELSE from(n)
           params == [n \in DOMAIN m.params \cup fresh |-> tensor(n)]
<1>1. Deepened(m) = [cfg |-> h, order |-> order, params |-> params]
  BY DEF Deepened
<1>2. /\ g \in Configurations /\ Valid(g) /\ Lists(m.order, NamesOf(g)) /\ Counted(m)
      /\ DOMAIN m.params = NamesOf(g)
      /\ \A n \in NamesOf(g) :
            /\ m.params[n] = [shape |-> ShapeOf(g, n[2]), value |-> m.params[n].value]
            /\ m.params[n].value \in Nat
  BY DEF WellBuilt
<1>3. Lists(parts, I) /\ Weighs(parts, GrownSizes(g), BlockCount(g))
  BY <1>2, PartsGrown, GrownWeighs
<1> HIDE DEF parts
<1>4. /\ h \in Configurations /\ Valid(h) /\ h.layers = g.layers + 1
      /\ \A p : ShapeOf(h, p) = ShapeOf(g, p)
      /\ NamesOf(h) = NamesOf(g) \cup ({g.layers} \X I)
      /\ NamesOf(g) \cap ({g.layers} \X I) = {}
  BY <1>2, OneMoreLayer
<1>5. g.layers \in Nat /\ g.layers - 1 \in 0..(g.layers - 1)
  BY <1>2 DEF Configurations, Valid
<1>6. \A p \in I : <<g.layers - 1, p>> \in NamesOf(g)
  BY <1>5 DEF NamesOf
<1>17. /\ NameSizes(h) = NameSizes(g) /\ ParamCount(h) = ParamCount(g) + BlockCount(g)
       /\ NameSizes(g) \in [Int \X PartNames -> Nat] /\ GrownSizes(g) \in [PartNames -> Nat]
  BY <1>2, DeeperCounts, SizesTyped
<1>18. g.layers \in Int
  BY <1>5
<1>19. Weighs(m.order, NameSizes(g), ParamCount(g))
  BY <1>2 DEF Counted
<1>20. \A x \in Int \X PartNames : NameSizes(g)[x] = Numel(ShapeOf(g, x[2]))
  BY DEF NameSizes
<1>21. \A p \in PartNames : GrownSizes(g)[p] = Numel(ShapeOf(g, p))
  BY DEF GrownSizes
<1> HIDE DEF g, h, I
<1>7. /\ Len(parts) \in Nat /\ DOMAIN parts = 1..Len(parts)
      /\ \A i \in 1..Len(parts) : parts[i] \in I
      /\ \A p \in I : \E i \in 1..Len(parts) : parts[i] = p
      /\ \A i, j \in 1..Len(parts) : parts[i] = parts[j] => i = j
  BY <1>3 DEF Lists
<1>8. fresh = {g.layers} \X I
  BY <1>7
<1> DEFINE named == [i \in 1..Len(parts) |-> <<g.layers, parts[i]>>]
<1>9. Lists(named, {g.layers} \X I)
  <2> DEFINE k == Len(parts)
             Q == {g.layers} \X I
             e(i) == <<g.layers, parts[i]>>
  <2>1. k \in Nat /\ \A i \in 1..k : e(i) \in Q
    BY <1>7
  <2>2. \A n \in Q : \E i \in 1..k : e(i) = n
    BY <1>7
  <2>3. \A i, j \in 1..k : e(i) = e(j) => i = j
    <3> TAKE i, j \in 1..k
    <3> HAVE e(i) = e(j)
    <3>1. parts[i] = parts[j]
      OBVIOUS
    <3> QED BY <1>7, <3>1
  <2>4. named = [i \in 1..k |-> e(i)]
    OBVIOUS
  <2> HIDE DEF Q, e, k, named
  <2>5. named \in Seq(Q) /\ Len(named) = k /\ \A i \in 1..k : named[i] = e(i)
    BY <2>1, <2>4
  <2>6. Lists(named, Q)
    BY <2>2, <2>3, <2>5 DEF Lists
  <2> QED BY <2>6 DEF Q
<1>10. order = m.order \o named
  BY <1>7
<1>22. Weighs(named, NameSizes(g), BlockCount(g))
  <2> DEFINE k == Len(parts)
             X == PartNames
             N == Int \X X
             Z == GrownSizes(g)
             Y == NameSizes(g)
             e(i) == <<g.layers, parts[i]>>
  <2>1. parts \in Seq(X)
    BY <1>3, <1>17 DEF Weighs
  <2>2. k \in Nat /\ \A i \in 1..k : parts[i] \in X
    BY <2>1
  <2>3. \A i \in 1..k : e(i) \in N /\ e(i)[2] = parts[i]
    BY <1>18, <2>2
  <2>4. named = [i \in 1..k |-> e(i)]
    OBVIOUS
  <2>5. \A i \in 1..k : Y[e(i)] = Z[parts[i]]
    <3> TAKE i \in 1..k
    <3>1. e(i) \in N /\ e(i)[2] = parts[i] /\ parts[i] \in X
      BY <2>2, <2>3
    <3> HIDE DEF e
    <3>2. Y[e(i)] = Numel(ShapeOf(g, e(i)[2])) /\ Z[parts[i]] = Numel(ShapeOf(g, parts[i]))
      BY <1>20, <1>21, <3>1
    <3> QED BY <3>1, <3>2
  <2>6. Y \in [N -> Nat] /\ Z \in [X -> Nat] /\ Weighs(parts, Z, BlockCount(g))
    BY <1>3, <1>17
  <2> HIDE DEF k, X, N, Z, Y, e, named
  <2>7. named \in Seq(N) /\ Len(named) = k /\ \A i \in 1..k : named[i] = e(i)
    BY <2>2, <2>3, <2>4
  <2>8. Len(named) = Len(parts) /\ \A i \in 1..Len(parts) : Y[named[i]] = Z[parts[i]]
    BY <2>5, <2>7 DEF k
  <2>9. Weighs(named, Y, BlockCount(g))
    BY <2>6, <2>7, <2>8, WeighsAs
  <2> QED BY <2>9 DEF Y
<1> HIDE DEF named, order, fresh
<1>23. Weighs(order, NameSizes(h), ParamCount(h))
  <2>1. Weighs(m.order \o named, NameSizes(g), ParamCount(g) + BlockCount(g))
    BY <1>17, <1>19, <1>22, WeighsBoth, Zenon
  <2> QED BY <1>10, <1>17, <2>1, Zenon
<1>11. Lists(order, NamesOf(h))
  BY <1>2, <1>4, <1>9, <1>10, ListsBoth
<1>12. params = [n \in NamesOf(h) |-> tensor(n)]
  BY <1>2, <1>4, <1>8
<1>13. \A n \in NamesOf(h) : /\ tensor(n) = [shape |-> ShapeOf(h, n[2]), value |-> tensor(n).value]
                             /\ tensor(n).value \in Nat
  <2> TAKE n \in NamesOf(h)
  <2>1. CASE n \notin fresh
    <3>1. n \in NamesOf(g) /\ tensor(n) = m.params[n]
      BY <1>4, <1>8, <2>1
    <3> HIDE DEF tensor
    <3>2. /\ m.params[n] = [shape |-> ShapeOf(g, n[2]), value |-> m.params[n].value]
          /\ m.params[n].value \in Nat
      BY <1>2, <3>1
    <3>3. ShapeOf(h, n[2]) = ShapeOf(g, n[2])
      BY <1>4
    <3> QED BY <3>1, <3>2, <3>3
  <2>2. CASE n \in fresh
    <3>1. n[2] \in I
      BY <1>8, <2>2
    <3> DEFINE q == <<g.layers - 1, n[2]>>
    <3>2. q \in NamesOf(g) /\ q[2] = n[2]
      BY <1>6, <3>1
    <3>3. from(n) = m.params[q]
      OBVIOUS
    <3> HIDE DEF q, from
    <3>4. /\ from(n) = [shape |-> ShapeOf(h, n[2]), value |-> from(n).value]
          /\ from(n).value \in Nat
      <4>1. /\ m.params[q] = [shape |-> ShapeOf(g, q[2]), value |-> m.params[q].value]
            /\ m.params[q].value \in Nat
        BY <1>2, <3>2
      <4>2. ShapeOf(h, n[2]) = ShapeOf(g, q[2])
        BY <1>4, <3>2
      <4> QED BY <3>3, <4>1, <4>2
    <3>5. CASE n[2] \in silent
      <4>1. tensor(n) = [from(n) EXCEPT !.value = 0]
        BY <2>2, <3>5
      <4> HIDE DEF tensor, silent
      <4>2. tensor(n) = [shape |-> ShapeOf(h, n[2]), value |-> 0]
        BY <3>4, <4>1
      <4> QED BY <4>2
    <3>6. CASE n[2] \notin silent
      <4>1. tensor(n) = from(n)
        BY <2>2, <3>6
      <4> HIDE DEF tensor, silent
      <4> QED BY <3>4, <4>1
    <3> QED BY <3>5, <3>6
  <2> QED BY <2>1, <2>2
<1> HIDE DEF params
<1> DEFINE d == Deepened(m)
<1>14. /\ d.cfg = h /\ d.order = order /\ d.params = params
       /\ d = [cfg |-> d.cfg, order |-> d.order, params |-> d.params]
  BY <1>1
<1> HIDE DEF d, tensor
<1>15. /\ d.params = [n \in NamesOf(h) |-> d.params[n]]
       /\ \A n \in NamesOf(h) : d.params[n] = tensor(n)
  BY <1>12, <1>14
<1>16. \A n \in NamesOf(h) : /\ d.params[n] = [shape |-> ShapeOf(h, n[2]), value |-> d.params[n].value]
                             /\ d.params[n].value \in Nat
  BY <1>13, <1>15
<1>24. Counted(d)
  BY <1>14, <1>23, Zenon DEF Counted
<1> QED BY <1>4, <1>11, <1>14, <1>15, <1>16, <1>24 DEF WellBuilt, d, h, g

\* The models there are, as a set.
AllShapes == {ShapeOf(g, p) : g \in Configurations, p \in PartNames}
Models ==
    {m \in [cfg : Configurations, order : Seq(Int \X PartNames),
            params : UNION {[N -> [shape : AllShapes, value : Nat]] : N \in SUBSET (Int \X PartNames)}] :
        WellBuilt(m)}

LEMMA NamesTyped ==
    ASSUME NEW g \in Configurations
    PROVE  NamesOf(g) \subseteq Int \X PartNames
<1>1. InnerNames(g) \subseteq PartNames /\ OuterNames(g) \subseteq PartNames
  BY DEF InnerNames, OuterNames, Given, PartNames
<1>2. Outside \in Int /\ 0..(g.layers - 1) \subseteq Int
  BY DEF Outside, Configurations
<1> QED BY <1>1, <1>2 DEF NamesOf

LEMMA BuiltIsModel ==
    ASSUME NEW m, WellBuilt(m)
    PROVE  m \in Models
<1> DEFINE N == NamesOf(m.cfg)
           V == [shape : AllShapes, value : Nat]
<1>1. /\ m = [cfg |-> m.cfg, order |-> m.order, params |-> m.params]
      /\ m.cfg \in Configurations /\ m.order \in Seq(N)
      /\ m.params = [n \in N |-> m.params[n]]
  BY DEF WellBuilt, Lists
<1>2. N \subseteq Int \X PartNames
  BY <1>1, NamesTyped
<1>3. \A n \in N : m.params[n] \in V
  <2> TAKE n \in N
  <2>1. /\ m.params[n] = [shape |-> ShapeOf(m.cfg, n[2]), value |-> m.params[n].value]
        /\ m.params[n].value \in Nat
    BY DEF WellBuilt
  <2>2. n[2] \in PartNames
    BY <1>2
  <2>3. ShapeOf(m.cfg, n[2]) \in AllShapes
    BY <1>1, <2>2 DEF AllShapes
  <2> QED BY <2>1, <2>3
<1> HIDE DEF N, V
<1>4. m.params \in [N -> V]
  BY <1>1, <1>3
<1>5. m.params \in UNION {[P -> V] : P \in SUBSET (Int \X PartNames)}
  BY <1>2, <1>4
<1>6. m.order \in Seq(Int \X PartNames)
  BY <1>1, <1>2, SeqWider
<1> DEFINE U == UNION {[P -> V] : P \in SUBSET (Int \X PartNames)}
<1>7. m.params \in U
  BY <1>5
<1> HIDE DEF U
<1>8. m \in [cfg : Configurations, order : Seq(Int \X PartNames), params : U]
  BY <1>1, <1>6, <1>7
<1> QED BY <1>8 DEF Models, U, V

\* The growth of a step is the model its configuration asks for, deeper by the
\* blocks the schedule names.
LEMMA GrownBuilt ==
    ASSUME NEW m, WellBuilt(m), NEW s \in Nat
    PROVE  /\ BlocksAt(s) \in Nat
           /\ WellBuilt(GrownAt(m, s))
           /\ GrownAt(m, s).cfg.layers = m.cfg.layers + BlocksAt(s)
           /\ BlocksAt(s) = 0 => GrownAt(m, s) = m
<1> DEFINE n == BlocksAt(s)
           spec(f) == [k \in 0..n |-> IF k = 0 THEN m ELSE Deepened(f[k - 1])]
           grown == CHOOSE f : f = spec(f)
           F == [p \in (1..n) \X Models |-> Deepened(p[2])]
<1>1. n \in Nat
  <2> DEFINE a == [i \in 1..Len(Growth) |-> IF Growth[i][1] = s THEN Growth[i][2] ELSE 0]
  <2>1. Len(Growth) \in Nat /\ \A i \in 1..Len(Growth) : Growth[i][2] \in Nat
    BY ModelFilesAssumption
  <2>2. a \in Seq(Nat) /\ Len(a) = Len(Growth)
    BY <2>1
  <2>3. n = SumsOver(a)[Len(Growth)]
    BY DEF BlocksAt
  <2> HIDE DEF a, n
  <2>4. SumsOver(a) \in [0..Len(a) -> Nat]
    BY <2>2, SumsAre
  <2>5. Len(Growth) \in 0..Len(a)
    BY <2>1, <2>2
  <2> QED BY <2>3, <2>4, <2>5
<1>2. GrownAt(m, s) = grown[n]
  BY DEF GrownAt
<1>3. m \in Models /\ m.cfg.layers \in Int
  BY BuiltIsModel DEF WellBuilt, Configurations
<1> HIDE DEF n
<1>4. \A x \in Models : /\ Deepened(x) \in Models /\ x.cfg.layers \in Int
                        /\ Deepened(x).cfg.layers = x.cfg.layers + 1
  <2> TAKE x \in Models
  <2>1. WellBuilt(x)
    BY DEF Models
  <2>2. WellBuilt(Deepened(x)) /\ Deepened(x).cfg = [x.cfg EXCEPT !.layers = @ + 1]
    BY <2>1, DeepenedBuilt
  <2>3. x.cfg \in Configurations
    BY <2>1 DEF WellBuilt
  <2>4. x.cfg.layers \in Int /\ [x.cfg EXCEPT !.layers = @ + 1].layers = x.cfg.layers + 1
    BY <2>3 DEF Configurations
  <2> QED BY <2>2, <2>4, BuiltIsModel
<1>5. F \in [(1..n) \X Models -> Models]
  <2>1. \A p \in (1..n) \X Models : Deepened(p[2]) \in Models
    BY <1>4
  <2> QED BY <2>1
<1>6. PICK f \in [0..n -> Models] : Built(f, n, m, F)
  <2> HIDE DEF F
  <2> QED BY <1>1, <1>3, <1>5, Recursion
<1>7. \A k \in 1..n : f[k] = Deepened(f[k - 1])
  <2> TAKE k \in 1..n
  <2>1. f[k - 1] \in Models /\ f[k] = F[<<k, f[k - 1]>>]
    <3>1. k - 1 \in 0..n
      BY <1>1
    <3> HIDE DEF F
    <3> QED BY ONLY <1>6, <3>1 DEF Built
  <2> QED BY <2>1
<1>8. f = spec(f)
  <2>1. \A k \in 0..n : f[k] = IF k = 0 THEN m ELSE Deepened(f[k - 1])
    <3>1. f[0] = m
      BY <1>6 DEF Built
    <3>2. \A k \in 0..n : k = 0 \/ k \in 1..n
      BY <1>1
    <3> HIDE DEF F
    <3> QED BY <1>7, <3>1, <3>2
  <2> QED BY <1>6, <2>1
<1>9. grown = spec(grown)
  <2> HIDE DEF spec
  <2> QED BY <1>8
<1> HIDE DEF grown, F
<1>10. grown[0] = m /\ \A k \in 1..n : grown[k] = Deepened(grown[k - 1])
  <2>1. \A k \in 0..n : grown[k] = IF k = 0 THEN m ELSE Deepened(grown[k - 1])
    BY <1>9
  <2>2. 0 \in 0..n /\ \A k \in 1..n : k \in 0..n /\ k # 0
    BY ONLY <1>1
  <2> QED BY ONLY <2>1, <2>2
<1> DEFINE good == {k \in 0..n : grown[k] \in Models /\ grown[k].cfg.layers = m.cfg.layers + k}
<1>11. 0 \in good
  BY <1>1, <1>3, <1>10
<1>12. ASSUME NEW k \in 1..n, k - 1 \in good PROVE k \in good
  <2>1. grown[k - 1] \in Models /\ grown[k - 1].cfg.layers = m.cfg.layers + (k - 1)
    BY <1>12
  <2>2. grown[k] \in Models /\ grown[k].cfg.layers = grown[k - 1].cfg.layers + 1
    BY <1>4, <1>10, <2>1
  <2>3. grown[k].cfg.layers = m.cfg.layers + k /\ k \in 0..n
    BY <1>1, <1>3, <2>1, <2>2
  <2> QED BY <2>2, <2>3
<1> HIDE DEF good
<1>13. \A k \in 0..n : k \in good
  <2>1. \A k \in 1..n : k - 1 \in good => k \in good
    BY <1>12
  <2> QED BY <1>1, <1>11, <2>1, UpTo
<1>14. grown[n] \in Models /\ grown[n].cfg.layers = m.cfg.layers + n
  <2>1. n \in good
    BY <1>1, <1>13
  <2> QED BY <2>1 DEF good
<1>15. n = 0 => grown[n] = m
  BY <1>10
<1>16. WellBuilt(grown[n])
  BY <1>14 DEF Models
<1> QED BY <1>1, <1>2, <1>14, <1>15, <1>16 DEF n

\* Sums of three sequences, one of which is the sum of the others.
LEMMA SumsAdd ==
    ASSUME NEW a \in Seq(Nat), NEW b \in Seq(Nat), NEW c \in Seq(Nat),
           Len(a) = Len(c), Len(b) = Len(c), \A i \in 1..Len(c) : c[i] = a[i] + b[i]
    PROVE  SumsOver(c)[Len(c)] = SumsOver(a)[Len(c)] + SumsOver(b)[Len(c)]
<1> DEFINE n == Len(c)
           A == SumsOver(a)
           B == SumsOver(b)
           D == SumsOver(c)
           good == {k \in 0..n : D[k] = A[k] + B[k]}
<1>1. n \in Nat /\ \A i \in 1..n : a[i] \in Nat /\ b[i] \in Nat /\ c[i] = a[i] + b[i]
  <2>1. n = Len(a) /\ n = Len(b)
    OBVIOUS
  <2>2. (\A i \in 1..Len(a) : a[i] \in Nat) /\ \A i \in 1..Len(b) : b[i] \in Nat
    OBVIOUS
  <2> QED BY <2>1, <2>2
<1>2. /\ A \in [0..n -> Nat] /\ A[0] = 0 /\ \A k \in 1..n : A[k] = A[k - 1] + a[k]
      /\ B \in [0..n -> Nat] /\ B[0] = 0 /\ \A k \in 1..n : B[k] = B[k - 1] + b[k]
      /\ D[0] = 0 /\ \A k \in 1..n : D[k] = D[k - 1] + c[k]
  BY SumsAre
<1> HIDE DEF n, A, B, D
<1>3. 0 \in good
  <2>1. D[0] = 0 /\ A[0] = 0 /\ B[0] = 0 /\ 0 \in 0..n
    BY <1>1, <1>2
  <2>2. D[0] = A[0] + B[0]
    BY ONLY <2>1
  <2> QED BY <2>1, <2>2
<1>4. \A k \in 1..n : k - 1 \in good => k \in good
  <2> TAKE k \in 1..n
  <2> HAVE k - 1 \in good
  <2>1. D[k - 1] = A[k - 1] + B[k - 1] /\ k - 1 \in 0..n /\ k \in 0..n
    BY <1>1
  <2>2. A[k - 1] \in Nat /\ B[k - 1] \in Nat /\ a[k] \in Nat /\ b[k] \in Nat
    BY <1>1, <1>2, <2>1
  <2>3. D[k] = D[k - 1] + c[k] /\ A[k] = A[k - 1] + a[k] /\ B[k] = B[k - 1] + b[k] /\ c[k] = a[k] + b[k]
    BY <1>1, <1>2
  <2>4. D[k] = A[k] + B[k]
    <3> DEFINE p == A[k - 1]
               q == B[k - 1]
               u == a[k]
               v == b[k]
    <3>1. p \in Nat /\ q \in Nat /\ u \in Nat /\ v \in Nat
      BY ONLY <2>2
    <3>2. D[k] = (p + q) + (u + v) /\ A[k] = p + u /\ B[k] = q + v
      BY ONLY <2>1, <2>3
    <3> HIDE DEF p, q, u, v
    <3>3. (p + q) + (u + v) = (p + u) + (q + v)
      BY ONLY <3>1
    <3> QED BY ONLY <3>2, <3>3
  <2> QED BY <2>1, <2>4
<1> HIDE DEF good
<1>5. \A k \in 0..n : k \in good
  BY <1>1, <1>3, <1>4, UpTo
<1>6. n \in good
  BY <1>1, <1>5
<1> QED BY <1>6 DEF good, n, A, B, D

\* The blocks scheduled before a step, and those of the step.
LEMMA Schedule ==
    ASSUME NEW s \in Nat
    PROVE  /\ BlocksBefore(s) \in Nat /\ BlocksAt(s) \in Nat
           /\ BlocksBefore(s + 1) = BlocksBefore(s) + BlocksAt(s)
<1> DEFINE n == Len(Growth)
           a == [i \in 1..n |-> IF Growth[i][1] < s THEN Growth[i][2] ELSE 0]
           b == [i \in 1..n |-> IF Growth[i][1] = s THEN Growth[i][2] ELSE 0]
           c == [i \in 1..n |-> IF Growth[i][1] < s + 1 THEN Growth[i][2] ELSE 0]
<1>1. n \in Nat /\ \A i \in 1..n : Growth[i][1] \in Nat /\ Growth[i][2] \in Nat
  BY ModelFilesAssumption
<1>2. /\ BlocksBefore(s) = SumsOver(a)[n] /\ BlocksAt(s) = SumsOver(b)[n]
      /\ BlocksBefore(s + 1) = SumsOver(c)[n]
  BY DEF BlocksBefore, BlocksAt
<1> HIDE DEF n
<1>3. /\ a \in Seq(Nat) /\ Len(a) = n /\ b \in Seq(Nat) /\ Len(b) = n
      /\ c \in Seq(Nat) /\ Len(c) = n
  BY <1>1
<1>4. \A i \in 1..n : c[i] = a[i] + b[i]
  BY <1>1
<1> HIDE DEF a, b, c
<1>5. SumsOver(c)[n] = SumsOver(a)[n] + SumsOver(b)[n]
  <2>1. Len(a) = Len(c) /\ Len(b) = Len(c) /\ \A i \in 1..Len(c) : c[i] = a[i] + b[i]
    BY <1>3, <1>4
  <2>2. SumsOver(c)[Len(c)] = SumsOver(a)[Len(c)] + SumsOver(b)[Len(c)]
    BY <1>3, <2>1, SumsAdd
  <2> QED BY <1>3, <2>2
<1>6. SumsOver(a)[n] \in Nat /\ SumsOver(b)[n] \in Nat
  <2>1. SumsOver(a) \in [0..Len(a) -> Nat] /\ SumsOver(b) \in [0..Len(b) -> Nat]
    BY <1>3, SumsAre
  <2>2. n \in 0..Len(a) /\ n \in 0..Len(b)
    BY <1>1, <1>3
  <2> QED BY <2>1, <2>2
<1> QED BY <1>2, <1>5, <1>6

\* Nothing is scheduled before the first step.
LEMMA NoneBeforeFirst == BlocksBefore(0) = 0
<1> DEFINE n == Len(Growth)
           a == [i \in 1..n |-> IF Growth[i][1] < 0 THEN Growth[i][2] ELSE 0]
           A == SumsOver(a)
           good == {k \in 0..n : A[k] = 0}
<1>1. n \in Nat /\ \A i \in 1..n : Growth[i][1] \in Nat
  BY ModelFilesAssumption
<1>2. BlocksBefore(0) = A[n]
  BY DEF BlocksBefore
<1>3. a \in Seq(Nat) /\ Len(a) = n /\ \A i \in 1..n : a[i] = 0
  <2>1. a = [i \in 1..n |-> 0]
    BY <1>1
  <2> HIDE DEF n, a
  <2> QED BY <1>1, <2>1
<1> HIDE DEF n, a
<1>4. A[0] = 0 /\ \A k \in 1..n : A[k] = A[k - 1] + a[k]
  BY <1>3, SumsAre
<1> HIDE DEF A
<1>5. 0 \in good
  BY <1>1, <1>4
<1>6. \A k \in 1..n : k - 1 \in good => k \in good
  BY <1>1, <1>3, <1>4
<1> HIDE DEF good
<1>7. \A k \in 0..n : k \in good
  BY <1>1, <1>5, <1>6, UpTo
<1>8. n \in good
  BY <1>1, <1>7
<1> QED BY <1>2, <1>8 DEF good

-----------------------------------------------------------------------------
(* The flat space of the merge (ModelFiles).                                   *)

\* Whatever a policy leaves open is in the space.
LEMMA SpaceHolds ==
    ASSUME NEW m, NEW N, Lists(m.order, N)
    PROVE  /\ MergeSpace(m) \in Seq(N)
           /\ \A p \in Policies : Trainable(m, p) \subseteq ToSet(MergeSpace(m))
<1> DEFINE n == Len(m.order)
           moves(x) == \E p \in Policies : x \in Trainable(m, p)
           S == Seq(N)
           spec(f) == [k \in 0..n |-> IF k = 0 THEN <<>>
                                      ELSE IF moves(m.order[k]) THEN Append(f[k - 1], m.order[k])
                                      ELSE f[k - 1]]
           first == CHOOSE f : f = spec(f)
           F == [p \in (1..n) \X S |->
                    IF moves(m.order[p[1]]) THEN Append(p[2], m.order[p[1]]) ELSE p[2]]
<1>1. n \in Nat /\ \A k \in 1..n : m.order[k] \in N
  BY DEF Lists
<1>2. MergeSpace(m) = first[n]
  BY DEF MergeSpace
<1>3. \A p \in Policies : Trainable(m, p) \subseteq {m.order[i] : i \in 1..n}
  <2>1. ToSet(m.order) = {m.order[i] : i \in 1..n}
    BY DEF ToSet, Lists
  <2> QED BY <2>1 DEF Trainable
<1> HIDE DEF n, moves
<1>4. F \in [(1..n) \X S -> S]
  <2>1. \A p \in (1..n) \X S :
           (IF moves(m.order[p[1]]) THEN Append(p[2], m.order[p[1]]) ELSE p[2]) \in S
    <3> TAKE p \in (1..n) \X S
    <3>1. p[2] \in S /\ m.order[p[1]] \in N
      BY <1>1
    <3> QED BY <3>1
  <2> HIDE DEF S
  <2> QED BY <2>1
<1>5. PICK h \in [0..n -> S] : Built(h, n, <<>>, F)
  <2>1. <<>> \in S
    OBVIOUS
  <2> HIDE DEF F, S
  <2> QED BY <1>1, <1>4, <2>1, Recursion
<1>6. \A k \in 1..n : h[k] = IF moves(m.order[k]) THEN Append(h[k - 1], m.order[k]) ELSE h[k - 1]
  <2> TAKE k \in 1..n
  <2>1. h[k - 1] \in S /\ h[k] = F[<<k, h[k - 1]>>]
    <3>1. k - 1 \in 0..n
      BY <1>1
    <3> HIDE DEF F, S
    <3> QED BY ONLY <1>5, <3>1 DEF Built
  <2> HIDE DEF S
  <2> QED BY <2>1
<1>7. h = spec(h)
  <2>1. \A k \in 0..n : h[k] = IF k = 0 THEN <<>>
                              ELSE IF moves(m.order[k]) THEN Append(h[k - 1], m.order[k])
                              ELSE h[k - 1]
    <3>1. h[0] = <<>>
      BY <1>5 DEF Built
    <3>2. \A k \in 0..n : k = 0 \/ k \in 1..n
      BY <1>1
    <3> HIDE DEF F, S
    <3> QED BY <1>6, <3>1, <3>2
  <2> HIDE DEF S
  <2> QED BY <1>5, <2>1
<1>8. first = spec(first)
  <2> HIDE DEF spec
  <2> QED BY <1>7
<1> HIDE DEF first, F, S
<1>9. /\ first[0] = <<>>
      /\ \A k \in 1..n : first[k] = IF moves(m.order[k]) THEN Append(first[k - 1], m.order[k])
                                    ELSE first[k - 1]
  <2>1. \A k \in 0..n : first[k] = IF k = 0 THEN <<>>
                                  ELSE IF moves(m.order[k]) THEN Append(first[k - 1], m.order[k])
                                  ELSE first[k - 1]
    BY <1>8
  <2>2. 0 \in 0..n /\ \A k \in 1..n : k \in 0..n /\ k # 0
    BY ONLY <1>1
  <2> QED BY ONLY <2>1, <2>2
<1> DEFINE good == {k \in 0..n :
                       /\ first[k] \in Seq(N)
                       /\ \A i \in 1..k : moves(m.order[i]) =>
                             \E j \in 1..Len(first[k]) : first[k][j] = m.order[i]}
<1>10. 0 \in good
  <2>1. 0 \in 0..n /\ first[0] = <<>> /\ <<>> \in Seq(N) /\ \A i \in 1..0 : FALSE
    BY <1>1, <1>9
  <2> QED BY <2>1
<1>11. ASSUME NEW k \in 1..n, k - 1 \in good PROVE k \in good
  <2>1. /\ first[k - 1] \in Seq(N) /\ m.order[k] \in N /\ k \in 0..n
        /\ \A i \in 1..(k - 1) : moves(m.order[i]) =>
               \E j \in 1..Len(first[k - 1]) : first[k - 1][j] = m.order[i]
    BY <1>1, <1>11
  <2>2. \A i \in 1..k : i \in 1..(k - 1) \/ i = k
    BY <1>1
  <2>3. CASE moves(m.order[k])
    <3> DEFINE s == first[k - 1]
               x == m.order[k]
               t == first[k]
    <3>1. t = Append(s, x) /\ s \in Seq(N) /\ x \in N
      BY <1>9, <2>1, <2>3
    <3>2. /\ t \in Seq(N) /\ Len(s) \in Nat /\ Len(t) = Len(s) + 1 /\ t[Len(s) + 1] = x
          /\ \A j \in 1..Len(s) : t[j] = s[j]
      <4> HIDE DEF s, x, t
      <4> QED BY ONLY <3>1
    <3> HIDE DEF t
    <3>3. \A i \in 1..k : moves(m.order[i]) => \E j \in 1..Len(t) : t[j] = m.order[i]
      <4> TAKE i \in 1..k
      <4> HAVE moves(m.order[i])
      <4>1. CASE i \in 1..(k - 1)
        <5>1. PICK j \in 1..Len(s) : s[j] = m.order[i]
          BY <2>1, <4>1
        <5>2. j \in 1..Len(t) /\ t[j] = m.order[i]
          BY <3>2, <5>1
        <5> QED BY <5>2
      <4>2. CASE i = k
        <5>1. Len(s) + 1 \in 1..Len(t)
          BY <3>2
        <5> QED BY <3>2, <4>2, <5>1
      <4> QED BY <2>2, <4>1, <4>2
    <3> QED BY <2>1, <3>2, <3>3 DEF t
  <2>4. CASE ~moves(m.order[k])
    <3>1. first[k] = first[k - 1]
      BY <1>9, <2>4
    <3> QED BY <2>1, <2>2, <2>4, <3>1
  <2> QED BY <2>3, <2>4
<1> HIDE DEF good
<1>12. \A k \in 0..n : k \in good
  <2>1. \A k \in 1..n : k - 1 \in good => k \in good
    BY <1>11
  <2> QED BY <1>1, <1>10, <2>1, UpTo
<1>13. /\ first[n] \in Seq(N)
       /\ \A i \in 1..n : moves(m.order[i]) =>
             \E j \in 1..Len(first[n]) : first[n][j] = m.order[i]
  <2>1. n \in good
    BY <1>1, <1>12
  <2> QED BY <2>1 DEF good
<1> DEFINE space == first[n]
<1>14. ASSUME NEW p \in Policies, NEW x \in Trainable(m, p) PROVE x \in ToSet(space)
  <2>1. PICK i \in 1..n : x = m.order[i]
    BY <1>3, <1>14
  <2>2. moves(m.order[i])
    BY <1>14, <2>1 DEF moves
  <2>3. PICK j \in 1..Len(space) : space[j] = x
    BY <1>13, <2>1, <2>2
  <2> QED BY <1>13, <2>3 DEF ToSet
<1> HIDE DEF space
<1>15. \A p \in Policies : Trainable(m, p) \subseteq ToSet(space)
  BY <1>14
<1> QED BY <1>2, <1>13, <1>15 DEF space

\* Slices of the flat vector start apart.
LEMMA SlicesApart ==
    ASSUME NEW s \in Seq(Nat \ {0})
    PROVE  \A i, j \in 0..Len(s) : i < j => SumsOver(s)[i] < SumsOver(s)[j]
<1> DEFINE n == Len(s)
           sum == SumsOver(s)
           good == {k \in 0..n : \A i \in 0..n : i < k => sum[i] < sum[k]}
<1>1. n \in Nat /\ \A k \in 1..n : s[k] \in Nat /\ s[k] > 0
  OBVIOUS
<1>2. /\ sum \in [0..n -> Nat]
      /\ \A k \in 1..n : sum[k] = sum[k - 1] + s[k]
  <2>1. s \in Seq(Nat)
    BY SeqWider
  <2> QED BY <2>1, SumsAre
<1> HIDE DEF n, sum
<1>3. 0 \in good
  BY <1>1
<1>4. \A k \in 1..n : k - 1 \in good => k \in good
  <2> TAKE k \in 1..n
  <2> HAVE k - 1 \in good
  <2>1. k - 1 \in 0..n /\ k \in 0..n
    BY <1>1
  <2>2. sum[k - 1] \in Nat /\ sum[k] \in Nat /\ sum[k - 1] < sum[k]
    <3>1. sum[k - 1] \in Nat /\ sum[k] \in Nat /\ s[k] \in Nat /\ s[k] > 0
      BY <1>1, <1>2, <2>1
    <3>2. sum[k] = sum[k - 1] + s[k]
      BY <1>2
    <3> QED BY ONLY <3>1, <3>2
  <2>3. ASSUME NEW i \in 0..n, i < k PROVE sum[i] < sum[k]
    <3>1. i = k - 1 \/ i < k - 1
      <4>1. i \in Nat /\ k \in Nat /\ i < k
        BY <1>1, <2>3
      <4> QED BY ONLY <4>1
    <3>2. i < k - 1 => sum[i] < sum[k - 1]
      OBVIOUS
    <3>3. sum[i] \in Nat
      BY <1>2
    <3> QED BY ONLY <2>2, <3>1, <3>2, <3>3
  <2> QED BY <2>1, <2>3
<1> HIDE DEF good
<1>5. \A k \in 0..n : k \in good
  BY <1>1, <1>3, <1>4, UpTo
<1> QED BY <1>5 DEF good, n, sum

\* What is gathered and scattered over the snapshot is what was gathered, if no
\* tensor outside the space has moved.
LEMMA ScatterGathered ==
    ASSUME NEW D, NEW params, NEW base, NEW names \in Seq(D), DOMAIN base = D,
           params = [n \in D |-> params[n]],
           \A n \in D : /\ Numel(base[n].shape) \in Nat \ {0}
                       /\ base[n] = [shape |-> base[n].shape, value |-> base[n].value]
                       /\ params[n] = [shape |-> base[n].shape, value |-> params[n].value],
           \A n \in D \ ToSet(names) : params[n].value = base[n].value
    PROVE  Scatter(Gather(params, names), base, names) = params
<1> DEFINE size(n) == Numel(base[n].shape)
           k == Len(names)
           sizes == [i \in 1..k |-> size(names[i])]
           offs == SumsOver(sizes)
           at(o) == names[CHOOSE i \in 1..k : offs[i - 1] = o]
           flat == [o \in {offs[i - 1] : i \in 1..k} |-> params[at(o)].value]
           slice(n) == offs[(CHOOSE i \in 1..k : names[i] = n) - 1]
           tensor(n) == IF n \in ToSet(names) THEN [base[n] EXCEPT !.value = flat[slice(n)]] ELSE base[n]
<1>1. k \in Nat /\ DOMAIN names = 1..k /\ \A i \in 1..k : names[i] \in D
  OBVIOUS
<1>2. sizes \in Seq(Nat \ {0}) /\ Len(sizes) = k
  <2>1. \A i \in 1..k : size(names[i]) \in Nat \ {0}
    BY <1>1
  <2> DEFINE Z == Nat \ {0}
             e(i) == size(names[i])
  <2>2. k \in Nat /\ \A i \in 1..k : e(i) \in Z
    BY <2>1
  <2> HIDE DEF size, k, Z, e
  <2>3. [i \in 1..k |-> e(i)] \in Seq(Z) /\ Len([i \in 1..k |-> e(i)]) = k
    BY ONLY <2>2
  <2> QED BY <2>3 DEF Z, e
<1>3. \A i \in 1..k : Numel(params[names[i]].shape) = size(names[i])
  <2> TAKE i \in 1..k
  <2>1. names[i] \in D
    BY <1>1
  <2> DEFINE n == names[i]
  <2>2. params[n] = [shape |-> base[n].shape, value |-> params[n].value]
    BY <2>1
  <2> HIDE DEF n
  <2>3. params[n].shape = base[n].shape
    BY <2>2
  <2> QED BY <2>3 DEF n
<1>4. FlatOffsets(params, names) = offs /\ FlatOffsets(base, names) = offs
  <2>1. [i \in 1..k |-> Numel(params[names[i]].shape)] = sizes
    BY <1>3
  <2>2. FlatOffsets(base, names) = offs
    BY DEF FlatOffsets
  <2>3. FlatOffsets(params, names) = SumsOver([i \in 1..k |-> Numel(params[names[i]].shape)])
    BY DEF FlatOffsets
  <2> HIDE DEF sizes
  <2> QED BY <2>1, <2>2, <2>3
<1>5. Gather(params, names) = flat
  <2> DEFINE all == FlatOffsets(params, names)
  <2>1. Gather(params, names) =
           [o \in {all[i - 1] : i \in 1..k} |->
               params[names[CHOOSE i \in 1..k : all[i - 1] = o]].value]
    BY DEF Gather
  <2>2. all = offs
    BY <1>4
  <2> HIDE DEF all, offs
  <2> QED BY <2>1, <2>2
<1>6. Scatter(flat, base, names) = [n \in D |-> tensor(n)]
  <2> HIDE DEF flat
  <2> QED BY <1>4 DEF Scatter
<1>7. \A i, j \in 0..k : offs[i] = offs[j] => i = j
  <2> HIDE DEF sizes, k
  <2>1. \A i, j \in 0..k : i < j => offs[i] < offs[j]
    BY <1>2, SlicesApart
  <2>2. offs \in [0..k -> Nat]
    <3>1. sizes \in Seq(Nat)
      BY <1>2, SeqWider
    <3> QED BY <1>2, <3>1, SumsAre
  <2> HIDE DEF offs
  <2> TAKE i, j \in 0..k
  <2>3. offs[i] \in Nat /\ offs[j] \in Nat /\ i \in Int /\ j \in Int
    BY <1>1, <2>2
  <2>4. i < j \/ j < i \/ i = j
    BY ONLY <2>3
  <2>5. (i < j => offs[i] < offs[j]) /\ (j < i => offs[j] < offs[i])
    BY <2>1
  <2> QED BY ONLY <2>3, <2>4, <2>5
<1> HIDE DEF offs, sizes
<1>8. ASSUME NEW n \in D, n \in ToSet(names) PROVE flat[slice(n)] = params[n].value
  <2>1. \E i \in 1..k : names[i] = n
    BY <1>1, <1>8 DEF ToSet
  <2> DEFINE j == CHOOSE i \in 1..k : names[i] = n
             o == offs[j - 1]
  <2>2. j \in 1..k /\ names[j] = n
    BY <2>1
  <2>3. slice(n) = o
    OBVIOUS
  <2> HIDE DEF j
  <2> DEFINE i == CHOOSE i \in 1..k : offs[i - 1] = o
  <2>4. i \in 1..k /\ offs[i - 1] = offs[j - 1]
    BY <2>2
  <2>5. at(o) = names[i]
    OBVIOUS
  <2> HIDE DEF i
  <2>6. i - 1 \in 0..k /\ j - 1 \in 0..k
    BY <1>1, <2>2, <2>4
  <2>7. i - 1 = j - 1
    BY <1>7, <2>4, <2>6
  <2>8. i = j
    BY <1>1, <2>2, <2>4, <2>7
  <2>9. flat[o] = params[at(o)].value
    <3>1. o \in {offs[l - 1] : l \in 1..k}
      BY <2>2
    <3> HIDE DEF o, at
    <3> QED BY <3>1
  <2> QED BY <2>2, <2>3, <2>5, <2>8, <2>9
<1> HIDE DEF flat, slice, k
<1>9. ASSUME NEW n \in D PROVE tensor(n) = params[n]
  <2>1. /\ base[n] = [shape |-> base[n].shape, value |-> base[n].value]
        /\ params[n] = [shape |-> base[n].shape, value |-> params[n].value]
    OBVIOUS
  <2>2. CASE n \in ToSet(names)
    <3>1. tensor(n) = [base[n] EXCEPT !.value = params[n].value]
      BY <1>8, <2>2
    <3>2. [base[n] EXCEPT !.value = params[n].value] = [shape |-> base[n].shape, value |-> params[n].value]
      BY <2>1
    <3> HIDE DEF tensor
    <3> QED BY <2>1, <3>1, <3>2
  <2>3. CASE n \notin ToSet(names)
    <3>1. tensor(n) = base[n] /\ params[n].value = base[n].value
      BY <2>3
    <3> HIDE DEF tensor
    <3> QED BY <2>1, <3>1
  <2> QED BY <2>2, <2>3
<1> HIDE DEF tensor
<1>10. [n \in D |-> tensor(n)] = params
  BY <1>9
<1> QED BY <1>5, <1>6, <1>10

-----------------------------------------------------------------------------
(* Checkpoints (ModelFiles).                                                   *)

\* All tensors of a model are trained where no policy is set.
LEMMA AllOpenTrains ==
    ASSUME NEW m
    PROVE  Trainable(m, AllOpen) = ToSet(m.order)
BY DEF Trainable, AllOpen

LEMMA MovedBuilt ==
    ASSUME NEW m, WellBuilt(m), NEW names
    PROVE  /\ WellBuilt(Moved(m, names))
           /\ Moved(m, names).cfg = m.cfg /\ Moved(m, names).order = m.order
           /\ \A n \in NamesOf(m.cfg) \ names : Moved(m, names).params[n] = m.params[n]
<1> DEFINE N == NamesOf(m.cfg)
           g == m.cfg
           d == Moved(m, names)
           moved(n) == IF n \in names THEN [m.params[n] EXCEPT !.value = @ + 1] ELSE m.params[n]
           params == [n \in N |-> moved(n)]
<1>1. /\ m = [cfg |-> g, order |-> m.order, params |-> m.params] /\ DOMAIN m.params = N
      /\ \A n \in N : /\ m.params[n] = [shape |-> ShapeOf(g, n[2]), value |-> m.params[n].value]
                       /\ m.params[n].value \in Nat
  BY DEF WellBuilt
<1>2. d = [m EXCEPT !.params = params]
  BY <1>1 DEF Moved
<1> HIDE DEF params, d
<1>3. d = [cfg |-> g, order |-> m.order, params |-> params]
  BY <1>1, <1>2
<1>4. /\ d.cfg = g /\ d.order = m.order /\ d.params = params
      /\ d = [cfg |-> d.cfg, order |-> d.order, params |-> d.params]
  BY <1>3
<1>5. \A n \in N : /\ moved(n) = [shape |-> ShapeOf(g, n[2]), value |-> moved(n).value]
                   /\ moved(n).value \in Nat
  <2> TAKE n \in N
  <2>1. /\ m.params[n] = [shape |-> ShapeOf(g, n[2]), value |-> m.params[n].value]
        /\ m.params[n].value \in Nat
    BY <1>1
  <2>2. CASE n \in names
    <3>1. moved(n) = [shape |-> ShapeOf(g, n[2]), value |-> m.params[n].value + 1]
      BY <2>1, <2>2
    <3> HIDE DEF moved
    <3>2. moved(n).value = m.params[n].value + 1
      BY <3>1
    <3> QED BY <2>1, <3>1, <3>2
  <2>3. CASE n \notin names
    BY <2>1, <2>3
  <2> QED BY <2>2, <2>3
<1>6. \A n \in N \ names : moved(n) = m.params[n]
  OBVIOUS
<1>7. DOMAIN params = N /\ \A n \in N : params[n] = moved(n)
  BY DEF params
<1>8. params = [n \in N |-> params[n]]
  BY DEF params
<1> HIDE DEF moved
<1>9. \A n \in N : /\ d.params[n] = [shape |-> ShapeOf(g, n[2]), value |-> d.params[n].value]
                   /\ d.params[n].value \in Nat
  BY <1>4, <1>5, <1>7
<1>10. g \in Configurations /\ Valid(g) /\ Lists(m.order, N) /\ Counted(m)
  BY DEF WellBuilt
<1>13. Counted(d)
  BY <1>4, <1>10, Zenon DEF Counted
<1>11. WellBuilt(d)
  BY <1>4, <1>8, <1>9, <1>10, <1>13 DEF WellBuilt
<1>12. \A n \in N \ names : d.params[n] = m.params[n]
  BY <1>4, <1>6, <1>7
<1> QED BY <1>4, <1>11, <1>12 DEF d

\* A model has tensors.
LEMMA SomeTensor ==
    ASSUME NEW m, WellBuilt(m)
    PROVE  Len(m.order) \in Nat \ {0}
<1>1. "tok_emb" \in OuterNames(m.cfg)
  BY DEF OuterNames
<1>2. <<Outside, "tok_emb">> \in NamesOf(m.cfg)
  BY <1>1 DEF NamesOf
<1>3. PICK i \in 1..Len(m.order) : m.order[i] = <<Outside, "tok_emb">>
  BY <1>2 DEF WellBuilt, Lists
<1>4. Len(m.order) \in Nat
  BY DEF WellBuilt, Lists
<1> QED BY <1>3, <1>4

\* A checkpoint written to its end is read back as the model it was made of.
LEMMA CheckpointRestores ==
    ASSUME NEW m, WellBuilt(m), NEW s
    PROVE  LET f == Checkpoint(m, s)
           IN  /\ Intact(f) /\ Restorable(f)
               /\ WellBuilt(Restored(f)) /\ Restored(f).cfg = m.cfg
               /\ Restored(f).params = m.params
<1> DEFINE f == Checkpoint(m, s)
           g == m.cfg
           N == NamesOf(g)
           b == Model(g)
           r == Restored(f)
<1>1. /\ g \in Configurations /\ Valid(g) /\ Lists(m.order, N)
      /\ m.params = [n \in N |-> m.params[n]] /\ DOMAIN m.params = N
      /\ \A n \in N : /\ m.params[n] = [shape |-> ShapeOf(g, n[2]), value |-> m.params[n].value]
                       /\ m.params[n].value \in Nat
  BY DEF WellBuilt
<1>2. /\ f.kind = "checkpoint" /\ f.header = TRUE /\ f.count = Len(m.order) /\ f.params = m.params
      /\ f.meta = WriteTo(g)
  BY DEF Checkpoint
<1> HIDE DEF f
<1>3. Cardinality(N) = Len(m.order)
  BY <1>1, ListsCount
<1>4. Intact(f)
  BY <1>1, <1>2, <1>3 DEF Intact
<1>5. FromConfig(f.meta) = g
  BY <1>1, <1>2, ReadsWhatItWrote
<1>6. WellBuilt(b) /\ b.cfg = g
  BY <1>1, ModelBuilt
<1>7. r = LoadParams(b, m.params) /\ Restorable(f) = (Intact(f) /\ Loadable(b, m.params))
  BY <1>2, <1>5 DEF Restored, Restorable
<1> HIDE DEF g, N, b, r
<1>8. /\ b = [cfg |-> g, order |-> b.order, params |-> b.params] /\ DOMAIN b.params = N
      /\ Lists(b.order, N)
      /\ \A n \in N : b.params[n] = [shape |-> ShapeOf(g, n[2]), value |-> b.params[n].value]
  BY <1>6 DEF WellBuilt, N
<1>9. \A n \in N : b.params[n].shape = m.params[n].shape
  <2> TAKE n \in N
  <2>1. b.params[n] = [shape |-> ShapeOf(g, n[2]), value |-> b.params[n].value]
    BY <1>8
  <2>2. m.params[n] = [shape |-> ShapeOf(g, n[2]), value |-> m.params[n].value]
    BY <1>1
  <2>3. b.params[n].shape = ShapeOf(g, n[2])
    BY <2>1
  <2>4. m.params[n].shape = ShapeOf(g, n[2])
    BY <2>2
  <2> QED BY <2>3, <2>4
<1>10. Loadable(b, m.params)
  BY <1>1, <1>8, <1>9 DEF Loadable
<1> DEFINE loaded(n) == [b.params[n] EXCEPT !.value = m.params[n].value]
<1>11. r = [b EXCEPT !.params = [n \in N |-> loaded(n)]]
  BY <1>7, <1>8 DEF LoadParams
<1>12. \A n \in N : loaded(n) = m.params[n]
  <2> TAKE n \in N
  <2>1. b.params[n] = [shape |-> ShapeOf(g, n[2]), value |-> b.params[n].value]
    BY <1>8
  <2>2. m.params[n] = [shape |-> ShapeOf(g, n[2]), value |-> m.params[n].value]
    BY <1>1
  <2>3. loaded(n) = [shape |-> ShapeOf(g, n[2]), value |-> m.params[n].value]
    BY <2>1
  <2> QED BY <2>2, <2>3
<1> HIDE DEF loaded
<1>13. r = [b EXCEPT !.params = m.params]
  <2>1. [n \in N |-> loaded(n)] = m.params
    BY <1>1, <1>12
  <2> QED BY <1>11, <2>1
<1>14. r = [cfg |-> g, order |-> b.order, params |-> m.params]
  BY <1>8, <1>13
<1>15. /\ r.cfg = g /\ r.order = b.order /\ r.params = m.params
       /\ r = [cfg |-> r.cfg, order |-> r.order, params |-> r.params]
  BY <1>14
<1>17. Counted(r)
  <2>1. Counted(b)
    BY <1>6 DEF WellBuilt
  <2>2. b.cfg = g
    BY <1>6
  <2> QED BY <1>15, <2>1, <2>2, Zenon DEF Counted
<1>16. WellBuilt(r)
  BY <1>1, <1>8, <1>15, <1>17 DEF WellBuilt, N
<1> QED BY <1>4, <1>7, <1>10, <1>15, <1>16 DEF f, g, r

\* A checkpoint that was not written to its end cannot be read.
LEMMA TornIsRefused ==
    ASSUME NEW m, WellBuilt(m), NEW s, NEW k \in Int, k < Len(m.order)
    PROVE  ~Intact(TornAt(m, s, k))
<1> DEFINE j == IF k < 0 THEN 0 ELSE k
           kept == {m.order[i] : i \in 1..j}
           f == TornAt(m, s, k)
           h == [i \in 1..j |-> m.order[i]]
<1>1. Len(m.order) \in Nat \ {0} /\ j \in Nat /\ j < Len(m.order)
  BY SomeTensor
<1> HIDE DEF j
<1>2. h \in Surjection(1..j, kept)
  BY DEF Surjection
<1>3. IsFiniteSet(1..j) /\ Cardinality(1..j) = j
  <2>1. IsFiniteSet(1..j) /\ Cardinality(1..j) = IF 1 > j THEN 0 ELSE j - 1 + 1
    BY <1>1, FS_Interval
  <2>2. (IF 1 > j THEN 0 ELSE j - 1 + 1) = j
    BY <1>1
  <2> QED BY <2>1, <2>2
<1> HIDE DEF kept, h
<1>4. IsFiniteSet(kept) /\ Cardinality(kept) <= j
  BY <1>2, <1>3, FS_Surjection
<1>5. Cardinality(kept) # Len(m.order)
  <2>1. Cardinality(kept) \in Nat
    BY <1>4, FS_CardinalityType
  <2> QED BY <1>1, <1>4, <2>1
<1>6. f.count = Len(m.order) /\ DOMAIN f.params = kept
  BY DEF TornAt, Checkpoint, kept, j
<1> QED BY <1>5, <1>6 DEF Intact

-----------------------------------------------------------------------------
(* Packed files (ModelFiles).                                                  *)

\* How a tensor is stored.
Entry(g, enc, n) ==
    LET p == n[2]
        s == ShapeOf(g, p)
    IN  IF Len(s) = 1 THEN Stored(n, "f32", 1, s[1], FALSE)
        ELSE IF p = "pos_emb" THEN Stored(n, PickType("f32", s[2]), s[1], s[2], FALSE)
        ELSE IF p = "tok_emb" THEN Stored(n, PickType(enc[2], s[2]), s[1], s[2], FALSE)
        ELSE IF p = "lm_head.w" THEN Stored(n, PickType(enc[2], s[1]), s[2], s[1], TRUE)
        ELSE Stored(n, PickType(enc[1], s[1]), s[2], s[1], TRUE)

EntriesOf(g, enc, N) == {Entry(g, enc, n) : n \in N}

LEMMA EntryNamed ==
    ASSUME NEW g, NEW enc, NEW n
    PROVE  Entry(g, enc, n).name = n
<1>1. \A type, rows, cols, transposed : Stored(n, type, rows, cols, transposed).name = n
  BY DEF Stored
<1> QED BY <1>1 DEF Entry

LEMMA EntriesBoth ==
    ASSUME NEW g, NEW enc, NEW s, NEW N, Lists(s, EntriesOf(g, enc, N)),
           NEW t, NEW M, Lists(t, EntriesOf(g, enc, M)), N \cap M = {}
    PROVE  Lists(s \o t, EntriesOf(g, enc, N \cup M))
<1>1. EntriesOf(g, enc, N) \cap EntriesOf(g, enc, M) = {}
  <2> SUFFICES ASSUME NEW p \in N, NEW q \in M, Entry(g, enc, p) = Entry(g, enc, q)
               PROVE  FALSE
    BY DEF EntriesOf
  <2>1. p = q
    BY EntryNamed
  <2> QED BY <2>1
<1>2. EntriesOf(g, enc, N) \cup EntriesOf(g, enc, M) = EntriesOf(g, enc, N \cup M)
  BY Zenon DEF EntriesOf
<1>3. Lists(s \o t, EntriesOf(g, enc, N) \cup EntriesOf(g, enc, M))
  BY <1>1, ListsBoth, Zenon
<1> QED BY <1>2, <1>3, Zenon

LEMMA EntriesWhen ==
    ASSUME NEW g, NEW enc, NEW s, NEW N, Lists(s, EntriesOf(g, enc, N)), NEW condition \in BOOLEAN
    PROVE  Lists(When(condition, s), EntriesOf(g, enc, Given(condition, N)))
<1>1. Lists(When(condition, s), Given(condition, EntriesOf(g, enc, N)))
  BY ListsWhen
<1>2. Given(condition, EntriesOf(g, enc, N)) = EntriesOf(g, enc, Given(condition, N))
  BY DEF Given, EntriesOf
<1> QED BY <1>1, <1>2, Zenon

\* A row, and a matrix whose product runs along its columns.
LEMMA RowListed ==
    ASSUME NEW g, NEW enc, NEW l, NEW p, NEW k, ShapeOf(g, p) = <<k>>
    PROVE  Lists(PlanRow(<<l, p>>, k), EntriesOf(g, enc, {<<l, p>>}))
<1>1. Entry(g, enc, <<l, p>>) = Stored(<<l, p>>, "f32", 1, k, FALSE)
  <2>1. <<l, p>>[2] = p /\ Len(<<k>>) = 1 /\ <<k>>[1] = k
    OBVIOUS
  <2> QED BY <2>1, Zenon DEF Entry
<1>2. EntriesOf(g, enc, {<<l, p>>}) = {Stored(<<l, p>>, "f32", 1, k, FALSE)}
  BY <1>1 DEF EntriesOf
<1> QED BY <1>2, ListsOne, Zenon DEF PlanRow

LEMMA MatrixListed ==
    ASSUME NEW g, NEW enc, NEW l, NEW p, NEW in, NEW out, ShapeOf(g, p) = <<in, out>>,
           p \notin {"pos_emb", "tok_emb", "lm_head.w"}
    PROVE  Lists(PlanRows(<<l, p>>, out, in, enc[1], TRUE), EntriesOf(g, enc, {<<l, p>>}))
<1>1. Entry(g, enc, <<l, p>>) = Stored(<<l, p>>, PickType(enc[1], in), out, in, TRUE)
  <2>1. /\ <<l, p>>[2] = p /\ Len(<<in, out>>) # 1
        /\ <<in, out>>[1] = in /\ <<in, out>>[2] = out
    OBVIOUS
  <2>2. p # "pos_emb" /\ p # "tok_emb" /\ p # "lm_head.w"
    OBVIOUS
  <2> QED BY <2>1, <2>2, Zenon DEF Entry
<1>2. EntriesOf(g, enc, {<<l, p>>}) = {Stored(<<l, p>>, PickType(enc[1], in), out, in, TRUE)}
  BY <1>1 DEF EntriesOf
<1> QED BY <1>2, ListsOne, Zenon DEF PlanRows

\* The parts of one block.
AtBlock(l, N) == {<<l, p>> : p \in N}

LEMMA AtBlockBoth ==
    ASSUME NEW l, NEW N, NEW M
    PROVE  /\ AtBlock(l, N \cup M) = AtBlock(l, N) \cup AtBlock(l, M)
           /\ N \cap M = {} => AtBlock(l, N) \cap AtBlock(l, M) = {}
           /\ \A condition : AtBlock(l, Given(condition, N)) = Given(condition, AtBlock(l, N))
<1>1. AtBlock(l, N \cup M) = AtBlock(l, N) \cup AtBlock(l, M)
  BY DEF AtBlock
<1>2. N \cap M = {} => AtBlock(l, N) \cap AtBlock(l, M) = {}
  BY DEF AtBlock
<1>3. \A condition : AtBlock(l, Given(condition, N)) = Given(condition, AtBlock(l, N))
  BY DEF AtBlock, Given
<1> QED BY <1>1, <1>2, <1>3

LEMMA PartsOfBlockBoth ==
    ASSUME NEW g, NEW enc, NEW l, NEW s, NEW N, Lists(s, EntriesOf(g, enc, AtBlock(l, N))),
           NEW t, NEW M, Lists(t, EntriesOf(g, enc, AtBlock(l, M))), N \cap M = {}
    PROVE  Lists(s \o t, EntriesOf(g, enc, AtBlock(l, N \cup M)))
<1>1. AtBlock(l, N) \cap AtBlock(l, M) = {} /\ AtBlock(l, N \cup M) = AtBlock(l, N) \cup AtBlock(l, M)
  BY AtBlockBoth
<1>2. Lists(s \o t, EntriesOf(g, enc, AtBlock(l, N) \cup AtBlock(l, M)))
  BY <1>1, EntriesBoth
<1> QED BY <1>1, <1>2, Zenon

\* What the packer plans for a block is what the constructor registers for it.
LEMMA PlanBlockLists ==
    ASSUME NEW g \in Configurations, NEW enc, NEW l
    PROVE  Lists(PlanBlock(g, l, enc[1]), EntriesOf(g, enc, {l} \X InnerNames(g)))
<1> DEFINE C == g.embd
           qkv == C + 2 * KvDim(g)
           H == Hidden(g)
           layer == g.norm # "rms"
           wide == g.ffn # "swiglu" /\ g.bias
           v1 == PlanRow(<<l, "n1.g">>, C)
           t1 == v1
           M1 == {"n1.g"}
           s1 == t1
           N1 == M1
           v2 == PlanRow(<<l, "n1.b">>, C)
           t2 == When(layer, v2)
           M2 == Given(layer, {"n1.b"})
           s2 == s1 \o t2
           N2 == N1 \cup M2
           v3 == PlanRows(<<l, "attn.qkv.w">>, qkv, C, enc[1], TRUE)
           t3 == v3
           M3 == {"attn.qkv.w"}
           s3 == s2 \o t3
           N3 == N2 \cup M3
           v4 == PlanRow(<<l, "attn.qkv.b">>, qkv)
           t4 == When(g.bias, v4)
           M4 == Given(g.bias, {"attn.qkv.b"})
           s4 == s3 \o t4
           N4 == N3 \cup M4
           v5 == PlanRow(<<l, "attn.qnorm.g">>, HeadDim(g)) \o PlanRow(<<l, "attn.knorm.g">>, HeadDim(g))
           t5 == When(g.qk, v5)
           M5 == Given(g.qk, {"attn.qnorm.g", "attn.knorm.g"})
           s5 == s4 \o t5
           N5 == N4 \cup M5
           v6 == PlanRows(<<l, "attn.proj.w">>, C, C, enc[1], TRUE)
           t6 == v6
           M6 == {"attn.proj.w"}
           s6 == s5 \o t6
           N6 == N5 \cup M6
           v7 == PlanRow(<<l, "attn.proj.b">>, C)
           t7 == When(g.bias, v7)
           M7 == Given(g.bias, {"attn.proj.b"})
           s7 == s6 \o t7
           N7 == N6 \cup M7
           v8 == PlanRow(<<l, "n2.g">>, C)
           t8 == v8
           M8 == {"n2.g"}
           s8 == s7 \o t8
           N8 == N7 \cup M8
           v9 == PlanRow(<<l, "n2.b">>, C)
           t9 == When(layer, v9)
           M9 == Given(layer, {"n2.b"})
           s9 == s8 \o t9
           N9 == N8 \cup M9
           v10 == PlanRows(<<l, "mlp.gate.w">>, H, C, enc[1], TRUE)
           t10 == When(g.ffn = "swiglu", v10)
           M10 == Given(g.ffn = "swiglu", {"mlp.gate.w"})
           s10 == s9 \o t10
           N10 == N9 \cup M10
           v11 == PlanRows(<<l, "mlp.up.w">>, H, C, enc[1], TRUE)
           t11 == v11
           M11 == {"mlp.up.w"}
           s11 == s10 \o t11
           N11 == N10 \cup M11
           v12 == PlanRow(<<l, "mlp.up.b">>, H)
           t12 == When(wide, v12)
           M12 == Given(wide, {"mlp.up.b"})
           s12 == s11 \o t12
           N12 == N11 \cup M12
           v13 == PlanRows(<<l, "mlp.down.w">>, C, H, enc[1], TRUE)
           t13 == v13
           M13 == {"mlp.down.w"}
           s13 == s12 \o t13
           N13 == N12 \cup M13
           v14 == PlanRow(<<l, "mlp.down.b">>, C)
           t14 == When(wide, v14)
           M14 == Given(wide, {"mlp.down.b"})
           s14 == s13 \o t14
           N14 == N13 \cup M14
<1>1. PlanBlock(g, l, enc[1]) = s14
  BY Zenon DEF PlanBlock
<1>2. layer \in BOOLEAN /\ wide \in BOOLEAN /\ g.bias \in BOOLEAN /\ g.qk \in BOOLEAN
      /\ (g.ffn = "swiglu") \in BOOLEAN
  BY DEF Configurations
<1>3. layer = (g.norm = "layer") /\ wide = (g.ffn = "gelu" /\ g.bias)
  BY DEF Configurations
<1> HIDE DEF C, qkv, H, layer, wide
<1>4. N14 = InnerNames(g)
  BY <1>3, Zenon DEF InnerNames
<1>5. \A p, k : ShapeOf(g, p) = <<k>> => Lists(PlanRow(<<l, p>>, k), EntriesOf(g, enc, AtBlock(l, {p})))
  <2> TAKE p, k
  <2> HAVE ShapeOf(g, p) = <<k>>
  <2>1. AtBlock(l, {p}) = {<<l, p>>}
    BY DEF AtBlock
  <2> QED BY <2>1, RowListed
<1>6. \A p, in, out :
         ShapeOf(g, p) = <<in, out>> /\ p \notin {"pos_emb", "tok_emb", "lm_head.w"} =>
            Lists(PlanRows(<<l, p>>, out, in, enc[1], TRUE), EntriesOf(g, enc, AtBlock(l, {p})))
  <2> TAKE p, in, out
  <2> HAVE ShapeOf(g, p) = <<in, out>> /\ p \notin {"pos_emb", "tok_emb", "lm_head.w"}
  <2>1. AtBlock(l, {p}) = {<<l, p>>}
    BY DEF AtBlock
  <2> QED BY <2>1, MatrixListed
<1>v1. Lists(v1, EntriesOf(g, enc, AtBlock(l, {"n1.g"})))
  BY <1>5 DEF ShapeOf, C, qkv, H
<1>v2. Lists(v2, EntriesOf(g, enc, AtBlock(l, {"n1.b"})))
  BY <1>5 DEF ShapeOf, C, qkv, H
<1>v3. Lists(v3, EntriesOf(g, enc, AtBlock(l, {"attn.qkv.w"})))
  BY <1>6 DEF ShapeOf, C, qkv, H
<1>v4. Lists(v4, EntriesOf(g, enc, AtBlock(l, {"attn.qkv.b"})))
  BY <1>5 DEF ShapeOf, C, qkv, H
<1>v5. Lists(v5, EntriesOf(g, enc, AtBlock(l, {"attn.qnorm.g", "attn.knorm.g"})))
  <2> DEFINE h == HeadDim(g)
  <2>1. /\ Lists(PlanRow(<<l, "attn.qnorm.g">>, h), EntriesOf(g, enc, AtBlock(l, {"attn.qnorm.g"})))
        /\ Lists(PlanRow(<<l, "attn.knorm.g">>, h), EntriesOf(g, enc, AtBlock(l, {"attn.knorm.g"})))
    BY <1>5 DEF ShapeOf
  <2>2. {"attn.qnorm.g"} \cap {"attn.knorm.g"} = {}
    OBVIOUS
  <2>3. Lists(v5, EntriesOf(g, enc, AtBlock(l, {"attn.qnorm.g"} \cup {"attn.knorm.g"})))
    BY <2>1, <2>2, PartsOfBlockBoth, Zenon
  <2>4. {"attn.qnorm.g"} \cup {"attn.knorm.g"} = {"attn.qnorm.g", "attn.knorm.g"}
    OBVIOUS
  <2> QED BY <2>3, <2>4, Zenon
<1>v6. Lists(v6, EntriesOf(g, enc, AtBlock(l, {"attn.proj.w"})))
  BY <1>6 DEF ShapeOf, C, qkv, H
<1>v7. Lists(v7, EntriesOf(g, enc, AtBlock(l, {"attn.proj.b"})))
  BY <1>5 DEF ShapeOf, C, qkv, H
<1>v8. Lists(v8, EntriesOf(g, enc, AtBlock(l, {"n2.g"})))
  BY <1>5 DEF ShapeOf, C, qkv, H
<1>v9. Lists(v9, EntriesOf(g, enc, AtBlock(l, {"n2.b"})))
  BY <1>5 DEF ShapeOf, C, qkv, H
<1>v10. Lists(v10, EntriesOf(g, enc, AtBlock(l, {"mlp.gate.w"})))
  BY <1>6 DEF ShapeOf, C, qkv, H
<1>v11. Lists(v11, EntriesOf(g, enc, AtBlock(l, {"mlp.up.w"})))
  BY <1>6 DEF ShapeOf, C, qkv, H
<1>v12. Lists(v12, EntriesOf(g, enc, AtBlock(l, {"mlp.up.b"})))
  BY <1>5 DEF ShapeOf, C, qkv, H
<1>v13. Lists(v13, EntriesOf(g, enc, AtBlock(l, {"mlp.down.w"})))
  BY <1>6 DEF ShapeOf, C, qkv, H
<1>v14. Lists(v14, EntriesOf(g, enc, AtBlock(l, {"mlp.down.b"})))
  BY <1>5 DEF ShapeOf, C, qkv, H
<1> HIDE DEF v1, v2, v3, v4, v5, v6, v7, v8, v9, v10, v11, v12, v13, v14
<1>7. \A s, N, condition : Lists(s, EntriesOf(g, enc, AtBlock(l, N))) /\ condition \in BOOLEAN =>
         Lists(When(condition, s), EntriesOf(g, enc, AtBlock(l, Given(condition, N))))
  <2> TAKE s, N, condition
  <2> HAVE Lists(s, EntriesOf(g, enc, AtBlock(l, N))) /\ condition \in BOOLEAN
  <2>1. Lists(When(condition, s), EntriesOf(g, enc, Given(condition, AtBlock(l, N))))
    BY EntriesWhen
  <2>2. AtBlock(l, Given(condition, N)) = Given(condition, AtBlock(l, N))
    BY AtBlockBoth
  <2> QED BY <2>1, <2>2, Zenon
<1>t1. Lists(t1, EntriesOf(g, enc, AtBlock(l, M1)))
  BY <1>v1
<1>t2. Lists(t2, EntriesOf(g, enc, AtBlock(l, M2)))
  BY <1>2, <1>7, <1>v2
<1>t3. Lists(t3, EntriesOf(g, enc, AtBlock(l, M3)))
  BY <1>v3
<1>t4. Lists(t4, EntriesOf(g, enc, AtBlock(l, M4)))
  BY <1>2, <1>7, <1>v4
<1>t5. Lists(t5, EntriesOf(g, enc, AtBlock(l, M5)))
  BY <1>2, <1>7, <1>v5
<1>t6. Lists(t6, EntriesOf(g, enc, AtBlock(l, M6)))
  BY <1>v6
<1>t7. Lists(t7, EntriesOf(g, enc, AtBlock(l, M7)))
  BY <1>2, <1>7, <1>v7
<1>t8. Lists(t8, EntriesOf(g, enc, AtBlock(l, M8)))
  BY <1>v8
<1>t9. Lists(t9, EntriesOf(g, enc, AtBlock(l, M9)))
  BY <1>2, <1>7, <1>v9
<1>t10. Lists(t10, EntriesOf(g, enc, AtBlock(l, M10)))
  BY <1>2, <1>7, <1>v10
<1>t11. Lists(t11, EntriesOf(g, enc, AtBlock(l, M11)))
  BY <1>v11
<1>t12. Lists(t12, EntriesOf(g, enc, AtBlock(l, M12)))
  BY <1>2, <1>7, <1>v12
<1>t13. Lists(t13, EntriesOf(g, enc, AtBlock(l, M13)))
  BY <1>v13
<1>t14. Lists(t14, EntriesOf(g, enc, AtBlock(l, M14)))
  BY <1>2, <1>7, <1>v14
<1>d2. N1 \cap M2 = {}
  BY DEF Given
<1>d3. N2 \cap M3 = {}
  BY DEF Given
<1>d4. N3 \cap M4 = {}
  BY DEF Given
<1>d5. N4 \cap M5 = {}
  BY DEF Given
<1>d6. N5 \cap M6 = {}
  BY DEF Given
<1>d7. N6 \cap M7 = {}
  BY DEF Given
<1>d8. N7 \cap M8 = {}
  BY DEF Given
<1>d9. N8 \cap M9 = {}
  BY DEF Given
<1>d10. N9 \cap M10 = {}
  BY DEF Given
<1>d11. N10 \cap M11 = {}
  BY DEF Given
<1>d12. N11 \cap M12 = {}
  BY DEF Given
<1>d13. N12 \cap M13 = {}
  BY DEF Given
<1>d14. N13 \cap M14 = {}
  BY DEF Given
<1> HIDE DEF t1, M1, t2, M2, t3, M3, t4, M4, t5, M5, t6, M6, t7, M7, t8, M8, t9, M9, t10, M10, t11, M11, t12, M12, t13, M13, t14, M14
<1>s2. Lists(s2, EntriesOf(g, enc, AtBlock(l, N2)))
  BY <1>t1, <1>t2, <1>d2, PartsOfBlockBoth, Zenon
<1> HIDE DEF s2, N2
<1>s3. Lists(s3, EntriesOf(g, enc, AtBlock(l, N3)))
  BY <1>s2, <1>t3, <1>d3, PartsOfBlockBoth, Zenon
<1> HIDE DEF s3, N3
<1>s4. Lists(s4, EntriesOf(g, enc, AtBlock(l, N4)))
  BY <1>s3, <1>t4, <1>d4, PartsOfBlockBoth, Zenon
<1> HIDE DEF s4, N4
<1>s5. Lists(s5, EntriesOf(g, enc, AtBlock(l, N5)))
  BY <1>s4, <1>t5, <1>d5, PartsOfBlockBoth, Zenon
<1> HIDE DEF s5, N5
<1>s6. Lists(s6, EntriesOf(g, enc, AtBlock(l, N6)))
  BY <1>s5, <1>t6, <1>d6, PartsOfBlockBoth, Zenon
<1> HIDE DEF s6, N6
<1>s7. Lists(s7, EntriesOf(g, enc, AtBlock(l, N7)))
  BY <1>s6, <1>t7, <1>d7, PartsOfBlockBoth, Zenon
<1> HIDE DEF s7, N7
<1>s8. Lists(s8, EntriesOf(g, enc, AtBlock(l, N8)))
  BY <1>s7, <1>t8, <1>d8, PartsOfBlockBoth, Zenon
<1> HIDE DEF s8, N8
<1>s9. Lists(s9, EntriesOf(g, enc, AtBlock(l, N9)))
  BY <1>s8, <1>t9, <1>d9, PartsOfBlockBoth, Zenon
<1> HIDE DEF s9, N9
<1>s10. Lists(s10, EntriesOf(g, enc, AtBlock(l, N10)))
  BY <1>s9, <1>t10, <1>d10, PartsOfBlockBoth, Zenon
<1> HIDE DEF s10, N10
<1>s11. Lists(s11, EntriesOf(g, enc, AtBlock(l, N11)))
  BY <1>s10, <1>t11, <1>d11, PartsOfBlockBoth, Zenon
<1> HIDE DEF s11, N11
<1>s12. Lists(s12, EntriesOf(g, enc, AtBlock(l, N12)))
  BY <1>s11, <1>t12, <1>d12, PartsOfBlockBoth, Zenon
<1> HIDE DEF s12, N12
<1>s13. Lists(s13, EntriesOf(g, enc, AtBlock(l, N13)))
  BY <1>s12, <1>t13, <1>d13, PartsOfBlockBoth, Zenon
<1> HIDE DEF s13, N13
<1>s14. Lists(s14, EntriesOf(g, enc, AtBlock(l, N14)))
  BY <1>s13, <1>t14, <1>d14, PartsOfBlockBoth, Zenon
<1>8. AtBlock(l, InnerNames(g)) = {l} \X InnerNames(g)
  BY DEF AtBlock
<1> QED BY <1>1, <1>4, <1>8, <1>s14, Zenon

\* What the packer plans for the blocks.
LEMMA PlanBlocksList ==
    ASSUME NEW g \in Configurations, NEW enc, g.layers \in Nat
    PROVE  Lists(PlanBlocks(g, enc[1]), EntriesOf(g, enc, (0..(g.layers - 1)) \X InnerNames(g)))
<1> DEFINE n == g.layers
           I == InnerNames(g)
           E(l) == PlanBlock(g, l, enc[1])
           S == Seq(EntriesOf(g, enc, Int \X I))
           spec(f) == [l \in 0..n |-> IF l = 0 THEN <<>> ELSE f[l - 1] \o E(l - 1)]
           upto == CHOOSE f : f = spec(f)
           F == [p \in (1..n) \X S |-> p[2] \o E(p[1] - 1)]
<1>1. n \in Nat /\ <<>> \in S
  OBVIOUS
<1>2. \A l \in Int : Lists(E(l), EntriesOf(g, enc, {l} \X I))
  BY PlanBlockLists
<1>3. \A l \in Int : E(l) \in S
  <2> TAKE l \in Int
  <2>1. EntriesOf(g, enc, {l} \X I) \subseteq EntriesOf(g, enc, Int \X I)
    BY DEF EntriesOf
  <2>2. E(l) \in Seq(EntriesOf(g, enc, {l} \X I))
    BY <1>2 DEF Lists
  <2> DEFINE e == E(l)
             P == EntriesOf(g, enc, {l} \X I)
             Q == EntriesOf(g, enc, Int \X I)
  <2>4. e \in Seq(P) /\ P \subseteq Q
    BY <2>1, <2>2
  <2> HIDE DEF e, P, Q
  <2>5. e \in Seq(Q)
    BY ONLY <2>4, SeqWider
  <2>3. E(l) \in Seq(EntriesOf(g, enc, Int \X I))
    BY <2>5 DEF e, Q
  <2> QED BY <2>3
<1> HIDE DEF n, I, E
<1>4. F \in [(1..n) \X S -> S]
  <2>1. \A p \in (1..n) \X S : p[2] \o E(p[1] - 1) \in S
    <3> TAKE p \in (1..n) \X S
    <3>1. p[1] - 1 \in Int /\ p[2] \in S
      BY <1>1
    <3>2. E(p[1] - 1) \in S
      BY <1>3, <3>1
    <3> QED BY <3>1, <3>2
  <2> HIDE DEF S
  <2> QED BY <2>1
<1>5. PICK h \in [0..n -> S] : Built(h, n, <<>>, F)
  <2> HIDE DEF F, S
  <2> QED BY <1>1, <1>4, Recursion
<1>6. \A k \in 1..n : h[k] = h[k - 1] \o E(k - 1)
  <2> TAKE k \in 1..n
  <2>1. h[k - 1] \in S /\ h[k] = F[<<k, h[k - 1]>>]
    <3>1. k - 1 \in 0..n
      BY <1>1
    <3> HIDE DEF F, S
    <3> QED BY ONLY <1>5, <3>1 DEF Built
  <2> HIDE DEF S
  <2> QED BY <2>1
<1>7. h = spec(h)
  <2>1. \A k \in 0..n : h[k] = IF k = 0 THEN <<>> ELSE h[k - 1] \o E(k - 1)
    <3>1. h[0] = <<>>
      BY <1>5 DEF Built
    <3>2. \A k \in 0..n : k = 0 \/ k \in 1..n
      BY <1>1
    <3> HIDE DEF F, S
    <3> QED BY <1>6, <3>1, <3>2
  <2> HIDE DEF S
  <2> QED BY <1>5, <2>1
<1>8. upto = spec(upto)
  <2> HIDE DEF spec
  <2> QED BY <1>7
<1>9. PlanBlocks(g, enc[1]) = upto[n]
  BY DEF PlanBlocks, n, E
<1> HIDE DEF upto, F, S
<1>10. upto[0] = <<>> /\ \A k \in 1..n : upto[k] = upto[k - 1] \o E(k - 1)
  <2>1. \A k \in 0..n : upto[k] = IF k = 0 THEN <<>> ELSE upto[k - 1] \o E(k - 1)
    BY <1>8
  <2>2. 0 \in 0..n /\ \A k \in 1..n : k \in 0..n /\ k # 0
    BY ONLY <1>1
  <2> QED BY ONLY <2>1, <2>2
<1> DEFINE good == {k \in 0..n : Lists(upto[k], EntriesOf(g, enc, (0..(k - 1)) \X I))}
<1>11. 0 \in good
  <2>1. EntriesOf(g, enc, (0..(0 - 1)) \X I) = {}
    BY DEF EntriesOf
  <2> QED BY <1>1, <1>10, <2>1, ListsNone
<1>12. ASSUME NEW k \in 1..n, k - 1 \in good PROVE k \in good
  <2>1. k - 1 \in Int /\ k \in 0..n
    BY <1>1
  <2>2. Lists(upto[k - 1], EntriesOf(g, enc, (0..((k - 1) - 1)) \X I))
    BY <1>12
  <2>3. ((0..((k - 1) - 1)) \X I) \cap ({k - 1} \X I) = {}
    BY <2>1
  <2>4. ((0..((k - 1) - 1)) \X I) \cup ({k - 1} \X I) = (0..(k - 1)) \X I
    <3>1. 0..((k - 1) - 1) \cup {k - 1} = 0..(k - 1)
      BY <1>1
    <3> QED BY <3>1
  <2>5. Lists(upto[k - 1] \o E(k - 1),
              EntriesOf(g, enc, ((0..((k - 1) - 1)) \X I) \cup ({k - 1} \X I)))
    BY <1>2, <2>1, <2>2, <2>3, EntriesBoth
  <2>6. Lists(upto[k], EntriesOf(g, enc, (0..(k - 1)) \X I))
    BY <1>10, <2>4, <2>5
  <2> QED BY <2>1, <2>6
<1> HIDE DEF good
<1>13. \A k \in 0..n : k \in good
  <2>1. \A k \in 1..n : k - 1 \in good => k \in good
    BY <1>12
  <2> QED BY <1>1, <1>11, <2>1, UpTo
<1>14. n \in good
  BY <1>1, <1>13
<1> QED BY <1>9, <1>14 DEF good, n, I

\* The packer's plan has the tensors the configuration has, each once.
LEMMA PlanLists ==
    ASSUME NEW g \in Configurations, NEW enc, g.layers \in Nat
    PROVE  Lists(BuildPlan(g, enc), EntriesOf(g, enc, NamesOf(g)))
<1> DEFINE learned == g.pos = "learned"
           layer == g.norm # "rms"
           untied == ~g.tied
           v1 == PlanRows(<<Outside, "tok_emb">>, g.vocab, g.embd, enc[2], FALSE)
           v2 == PlanRows(<<Outside, "pos_emb">>, g.ctx, g.embd, "f32", FALSE)
           v3 == PlanBlocks(g, enc[1])
           v4 == PlanRow(<<Outside, "norm_f.g">>, g.embd)
           v5 == PlanRow(<<Outside, "norm_f.b">>, g.embd)
           v6 == PlanRows(<<Outside, "lm_head.w">>, g.vocab, g.embd, enc[2], TRUE)
           N1 == AtBlock(Outside, {"tok_emb"})
           N2 == Given(learned, AtBlock(Outside, {"pos_emb"}))
           N3 == (0..(g.layers - 1)) \X InnerNames(g)
           N4 == AtBlock(Outside, {"norm_f.g"})
           N5 == Given(layer, AtBlock(Outside, {"norm_f.b"}))
           N6 == Given(untied, AtBlock(Outside, {"lm_head.w"}))
<1>1. BuildPlan(g, enc) = v1 \o When(learned, v2) \o v3 \o v4 \o When(layer, v5) \o When(untied, v6)
  BY Zenon DEF BuildPlan
<1>2. learned \in BOOLEAN /\ layer \in BOOLEAN /\ untied \in BOOLEAN
  OBVIOUS
<1>3. /\ Entry(g, enc, <<Outside, "tok_emb">>)
         = Stored(<<Outside, "tok_emb">>, PickType(enc[2], g.embd), g.vocab, g.embd, FALSE)
      /\ Entry(g, enc, <<Outside, "pos_emb">>)
         = Stored(<<Outside, "pos_emb">>, PickType("f32", g.embd), g.ctx, g.embd, FALSE)
      /\ Entry(g, enc, <<Outside, "lm_head.w">>)
         = Stored(<<Outside, "lm_head.w">>, PickType(enc[2], g.embd), g.vocab, g.embd, TRUE)
  <2>3. /\ ShapeOf(g, "tok_emb") = <<g.vocab, g.embd>>
        /\ ShapeOf(g, "pos_emb") = <<g.ctx, g.embd>>
        /\ ShapeOf(g, "lm_head.w") = <<g.embd, g.vocab>>
    BY DEF ShapeOf
  <2>4. "tok_emb" # "pos_emb" /\ "lm_head.w" # "pos_emb" /\ "lm_head.w" # "tok_emb"
    OBVIOUS
  <2>5. Entry(g, enc, <<Outside, "tok_emb">>)
        = Stored(<<Outside, "tok_emb">>, PickType(enc[2], g.embd), g.vocab, g.embd, FALSE)
    <3>1. <<Outside, "tok_emb">>[2] = "tok_emb"
      OBVIOUS
    <3> DEFINE n == <<Outside, "tok_emb">>
    <3> HIDE DEF n
    <3>2. n[2] = "tok_emb"
      BY <3>1 DEF n
    <3> DEFINE s == ShapeOf(g, n[2])
    <3>4. s[1] = g.vocab /\ s[2] = g.embd /\ Len(s) # 1 /\ s = ShapeOf(g, n[2])
      BY <2>3, <3>2
    <3> HIDE DEF s
    <3>5. Entry(g, enc, n) = Stored(n, PickType(enc[2], s[2]), s[1], s[2], FALSE)
      BY <2>4, <3>2, <3>4, Zenon DEF Entry
    <3>3. Entry(g, enc, n) = Stored(n, PickType(enc[2], g.embd), g.vocab, g.embd, FALSE)
      BY ONLY <3>4, <3>5
    <3> QED BY <3>3 DEF n
  <2>6. Entry(g, enc, <<Outside, "pos_emb">>)
        = Stored(<<Outside, "pos_emb">>, PickType("f32", g.embd), g.ctx, g.embd, FALSE)
    <3>1. <<Outside, "pos_emb">>[2] = "pos_emb"
      OBVIOUS
    <3> DEFINE n == <<Outside, "pos_emb">>
    <3> HIDE DEF n
    <3>2. n[2] = "pos_emb"
      BY <3>1 DEF n
    <3> DEFINE s == ShapeOf(g, n[2])
    <3>4. s[1] = g.ctx /\ s[2] = g.embd /\ Len(s) # 1 /\ s = ShapeOf(g, n[2])
      BY <2>3, <3>2
    <3> HIDE DEF s
    <3>5. Entry(g, enc, n) = Stored(n, PickType("f32", s[2]), s[1], s[2], FALSE)
      BY <2>4, <3>2, <3>4, Zenon DEF Entry
    <3>3. Entry(g, enc, n) = Stored(n, PickType("f32", g.embd), g.ctx, g.embd, FALSE)
      BY ONLY <3>4, <3>5
    <3> QED BY <3>3 DEF n
  <2>7. Entry(g, enc, <<Outside, "lm_head.w">>)
        = Stored(<<Outside, "lm_head.w">>, PickType(enc[2], g.embd), g.vocab, g.embd, TRUE)
    <3>1. <<Outside, "lm_head.w">>[2] = "lm_head.w"
      OBVIOUS
    <3> DEFINE n == <<Outside, "lm_head.w">>
    <3> HIDE DEF n
    <3>2. n[2] = "lm_head.w"
      BY <3>1 DEF n
    <3> DEFINE s == ShapeOf(g, n[2])
    <3>4. s[1] = g.embd /\ s[2] = g.vocab /\ Len(s) # 1 /\ s = ShapeOf(g, n[2])
      BY <2>3, <3>2
    <3> HIDE DEF s
    <3>5. Entry(g, enc, n) = Stored(n, PickType(enc[2], s[1]), s[2], s[1], TRUE)
      BY <2>4, <3>2, <3>4, Zenon DEF Entry
    <3>3. Entry(g, enc, n) = Stored(n, PickType(enc[2], g.embd), g.vocab, g.embd, TRUE)
      BY ONLY <3>4, <3>5
    <3> QED BY <3>3 DEF n
  <2> QED BY <2>5, <2>6, <2>7
<1>4. \A p : AtBlock(Outside, {p}) = {<<Outside, p>>}
  BY DEF AtBlock
<1>5. \A n : EntriesOf(g, enc, {n}) = {Entry(g, enc, n)}
  BY DEF EntriesOf
<1>6. /\ Lists(v1, EntriesOf(g, enc, AtBlock(Outside, {"tok_emb"})))
      /\ Lists(v2, EntriesOf(g, enc, AtBlock(Outside, {"pos_emb"})))
      /\ Lists(v6, EntriesOf(g, enc, AtBlock(Outside, {"lm_head.w"})))
  BY <1>3, <1>4, <1>5, ListsOne, Zenon DEF PlanRows
<1>7. /\ Lists(v4, EntriesOf(g, enc, AtBlock(Outside, {"norm_f.g"})))
      /\ Lists(v5, EntriesOf(g, enc, AtBlock(Outside, {"norm_f.b"})))
  <2>1. ShapeOf(g, "norm_f.g") = <<g.embd>> /\ ShapeOf(g, "norm_f.b") = <<g.embd>>
    BY DEF ShapeOf
  <2>2. \A p : ShapeOf(g, p) = <<g.embd>> =>
             Lists(PlanRow(<<Outside, p>>, g.embd), EntriesOf(g, enc, {<<Outside, p>>}))
    BY RowListed
  <2> QED BY <1>4, <2>1, <2>2, Zenon
<1>8. Lists(v3, EntriesOf(g, enc, N3))
  BY PlanBlocksList
<1> HIDE DEF v1, v2, v3, v4, v5, v6, learned, layer, untied
<1>9. /\ Lists(When(learned, v2), EntriesOf(g, enc, N2))
      /\ Lists(When(layer, v5), EntriesOf(g, enc, N5))
      /\ Lists(When(untied, v6), EntriesOf(g, enc, N6))
  BY <1>2, <1>6, <1>7, EntriesWhen
<1>10. /\ \A n \in N1 : n = <<Outside, "tok_emb">>
       /\ \A n \in N2 : n = <<Outside, "pos_emb">>
       /\ \A n \in N3 : n[1] # Outside
       /\ \A n \in N4 : n = <<Outside, "norm_f.g">>
       /\ \A n \in N5 : n = <<Outside, "norm_f.b">>
       /\ \A n \in N6 : n = <<Outside, "lm_head.w">>
  BY DEF AtBlock, Given, Outside
<1>11. /\ N1 \cap N2 = {} /\ (N1 \cup N2) \cap N3 = {} /\ (N1 \cup N2 \cup N3) \cap N4 = {}
       /\ (N1 \cup N2 \cup N3 \cup N4) \cap N5 = {}
       /\ (N1 \cup N2 \cup N3 \cup N4 \cup N5) \cap N6 = {}
  <2> HIDE DEF N1, N2, N3, N4, N5, N6
  <2>1. \A p : <<Outside, p>>[1] = Outside /\ <<Outside, p>>[2] = p
    OBVIOUS
  <2> QED BY <1>10, <2>1
<1>12. N1 \cup N2 \cup N3 \cup N4 \cup N5 \cup N6 = NamesOf(g)
  <2>1. {Outside} \X OuterNames(g) = AtBlock(Outside, OuterNames(g))
    BY DEF AtBlock
  <2>2. OuterNames(g) = {"tok_emb"} \cup Given(learned, {"pos_emb"}) \cup {"norm_f.g"}
                        \cup Given(layer, {"norm_f.b"}) \cup Given(untied, {"lm_head.w"})
    <3>1. layer <=> g.norm = "layer"
      BY DEF layer, Configurations
    <3> QED BY <3>1 DEF OuterNames, learned, untied, Given
  <2>3. AtBlock(Outside, OuterNames(g)) = N1 \cup N2 \cup N4 \cup N5 \cup N6
    BY <2>2 DEF AtBlock, Given
  <2> HIDE DEF N1, N2, N3, N4, N5, N6
  <2>4. NamesOf(g) = AtBlock(Outside, OuterNames(g)) \cup N3
    BY <2>1 DEF NamesOf, N3
  <2> QED BY <2>3, <2>4
<1> HIDE DEF N1, N2, N3, N4, N5, N6
<1>13. Lists(v1, EntriesOf(g, enc, N1)) /\ Lists(v4, EntriesOf(g, enc, N4))
  BY <1>6, <1>7 DEF N1, N4
<1>14. Lists(v1 \o When(learned, v2), EntriesOf(g, enc, N1 \cup N2))
  BY <1>9, <1>11, <1>13, EntriesBoth, Zenon
<1>15. Lists(v1 \o When(learned, v2) \o v3, EntriesOf(g, enc, N1 \cup N2 \cup N3))
  BY <1>8, <1>11, <1>14, EntriesBoth, Zenon
<1>16. Lists(v1 \o When(learned, v2) \o v3 \o v4, EntriesOf(g, enc, N1 \cup N2 \cup N3 \cup N4))
  BY <1>11, <1>13, <1>15, EntriesBoth, Zenon
<1>17. Lists(v1 \o When(learned, v2) \o v3 \o v4 \o When(layer, v5),
             EntriesOf(g, enc, N1 \cup N2 \cup N3 \cup N4 \cup N5))
  BY <1>9, <1>11, <1>16, EntriesBoth, Zenon
<1>18. Lists(v1 \o When(learned, v2) \o v3 \o v4 \o When(layer, v5) \o When(untied, v6),
             EntriesOf(g, enc, N1 \cup N2 \cup N3 \cup N4 \cup N5 \cup N6))
  BY <1>9, <1>11, <1>17, EntriesBoth, Zenon
<1> QED BY <1>1, <1>12, <1>18, Zenon

\* What is listed under names of its own has as many places as names.
LEMMA NamesCounted ==
    ASSUME NEW s, NEW T, Lists(s, T), NEW N, \A x \in T : x.name \in N,
           \A n \in N : \E x \in T : x.name = n,
           \A x, y \in T : x.name = y.name => x = y
    PROVE  IsFiniteSet(N) /\ Cardinality(N) = Len(s) /\ Names(s) = N
<1> DEFINE k == Len(s)
           named == [i \in 1..k |-> s[i].name]
<1>1. /\ k \in Nat /\ DOMAIN s = 1..k
      /\ \A i \in 1..k : s[i] \in T
      /\ \A x \in T : \E i \in 1..k : s[i] = x
      /\ \A i, j \in 1..k : s[i] = s[j] => i = j
  BY DEF Lists
<1> HIDE DEF k
<1>2. \A i \in 1..k : s[i].name \in N
  BY <1>1
<1>3. named \in Seq(N) /\ Len(named) = k /\ \A i \in 1..k : named[i] = s[i].name
  BY <1>1, <1>2
<1> HIDE DEF named
<1>4. \A n \in N : \E i \in 1..Len(named) : named[i] = n
  BY <1>1, <1>3
<1>5. \A i, j \in 1..Len(named) : named[i] = named[j] => i = j
  BY <1>1, <1>3
<1>6. Lists(named, N)
  BY <1>3, <1>4, <1>5 DEF Lists
<1>7. IsFiniteSet(N) /\ Cardinality(N) = k
  BY <1>3, <1>6, ListsCount
<1>8. Names(s) = N
  BY <1>1, <1>2 DEF Names
<1> QED BY <1>7, <1>8 DEF k

\* A stored tensor has the shape of its part, transposed or not.
LEMMA EntryMirrors ==
    ASSUME NEW g \in Configurations, Valid(g), NEW enc, NEW n
    PROVE  LET e == Entry(g, enc, n)
               s == ShapeOf(g, n[2])
           IN  /\ s = IF Len(s) = 1 THEN <<e.cols>>
                      ELSE IF e.transposed THEN <<e.cols, e.rows>> ELSE <<e.rows, e.cols>>
               /\ e.rows \in Nat \ {0} /\ e.cols \in Nat \ {0}
               /\ e.bytes = e.rows * RowBytes(e.type, e.cols)
               /\ \E w \in {"f32", enc[1], enc[2]} : e.type = PickType(w, e.cols)
<1> DEFINE e == Entry(g, enc, n)
           s == ShapeOf(g, n[2])
           p == n[2]
<1>2. e = IF Len(s) = 1 THEN Stored(n, "f32", 1, s[1], FALSE)
          ELSE IF p = "pos_emb" THEN Stored(n, PickType("f32", s[2]), s[1], s[2], FALSE)
          ELSE IF p = "tok_emb" THEN Stored(n, PickType(enc[2], s[2]), s[1], s[2], FALSE)
          ELSE IF p = "lm_head.w" THEN Stored(n, PickType(enc[2], s[1]), s[2], s[1], TRUE)
          ELSE Stored(n, PickType(enc[1], s[1]), s[2], s[1], TRUE)
  BY Zenon DEF Entry
<1>3. \/ \E a \in Nat \ {0} : s = <<a>>
      \/ \E a, b \in Nat \ {0} : s = <<a, b>>
  BY ShapeForms
<1> HIDE DEF e, s, p
<1>4. CASE \E a \in Nat \ {0} : s = <<a>>
  <2>1. PICK a \in Nat \ {0} : s = <<a>>
    BY <1>4
  <2>2. Len(s) = 1 /\ s[1] = a
    BY <2>1
  <2>3. e = Stored(n, "f32", 1, a, FALSE)
    BY <1>2, <2>2
  <2>4. e.rows = 1 /\ e.cols = a /\ e.type = "f32" /\ e.bytes = 1 * RowBytes("f32", a)
    BY <2>3 DEF Stored
  <2>5. /\ s = IF Len(s) = 1 THEN <<e.cols>>
                ELSE IF e.transposed THEN <<e.cols, e.rows>> ELSE <<e.rows, e.cols>>
        /\ e.rows \in Nat \ {0} /\ e.cols \in Nat \ {0}
        /\ e.bytes = e.rows * RowBytes(e.type, e.cols)
        /\ \E w \in {"f32", enc[1], enc[2]} : e.type = PickType(w, e.cols)
    BY <2>1, <2>2, <2>4 DEF PickType, Quantised
  <2> QED BY <2>5 DEF e, s
<1>5. CASE \E a, b \in Nat \ {0} : s = <<a, b>>
  <2>1. PICK a \in Nat \ {0}, b \in Nat \ {0} : s = <<a, b>>
    BY <1>5
  <2>2. Len(s) # 1 /\ s[1] = a /\ s[2] = b
    BY <2>1
  <2>3. \/ \E w \in {"f32", enc[2]} : e = Stored(n, PickType(w, b), a, b, FALSE)
        \/ \E w \in {enc[1], enc[2]} : e = Stored(n, PickType(w, a), b, a, TRUE)
    BY <1>2, <2>2
  <2>4. CASE \E w \in {"f32", enc[2]} : e = Stored(n, PickType(w, b), a, b, FALSE)
    <3>1. PICK w \in {"f32", enc[2]} : e = Stored(n, PickType(w, b), a, b, FALSE)
      BY <2>4
    <3>2. e.rows = a /\ e.cols = b /\ e.transposed = FALSE /\ e.type = PickType(w, b)
          /\ e.bytes = a * RowBytes(PickType(w, b), b)
      BY <3>1 DEF Stored
    <3>5. /\ s = IF Len(s) = 1 THEN <<e.cols>>
                  ELSE IF e.transposed THEN <<e.cols, e.rows>> ELSE <<e.rows, e.cols>>
          /\ e.rows \in Nat \ {0} /\ e.cols \in Nat \ {0}
          /\ e.bytes = e.rows * RowBytes(e.type, e.cols)
      BY <2>1, <2>2, <3>2
    <3>6. \E v \in {"f32", enc[1], enc[2]} : e.type = PickType(v, e.cols)
      BY <3>2
    <3> QED BY <3>5, <3>6 DEF e, s
  <2>5. CASE \E w \in {enc[1], enc[2]} : e = Stored(n, PickType(w, a), b, a, TRUE)
    <3>1. PICK w \in {enc[1], enc[2]} : e = Stored(n, PickType(w, a), b, a, TRUE)
      BY <2>5
    <3>2. e.rows = b /\ e.cols = a /\ e.transposed = TRUE /\ e.type = PickType(w, a)
          /\ e.bytes = b * RowBytes(PickType(w, a), a)
      BY <3>1 DEF Stored
    <3>5. /\ s = IF Len(s) = 1 THEN <<e.cols>>
                  ELSE IF e.transposed THEN <<e.cols, e.rows>> ELSE <<e.rows, e.cols>>
          /\ e.rows \in Nat \ {0} /\ e.cols \in Nat \ {0}
          /\ e.bytes = e.rows * RowBytes(e.type, e.cols)
      BY <2>1, <2>2, <3>2
    <3>6. \E v \in {"f32", enc[1], enc[2]} : e.type = PickType(v, e.cols)
      BY <3>2
    <3> QED BY <3>5, <3>6 DEF e, s
  <2> QED BY <2>3, <2>4, <2>5
<1> QED BY <1>3, <1>4, <1>5

\* Rows take whole bytes, whatever they are asked to be encoded as.
LEMMA EntryBytes ==
    ASSUME NEW g \in Configurations, Valid(g), NEW enc \in Encodings, NEW n
    PROVE  Entry(g, enc, n).bytes \in Nat /\ Entry(g, enc, n).rows \in Nat
<1> DEFINE e == Entry(g, enc, n)
           types == {"f32", "f16", "q8", "q4"}
<1>1. enc[1] \in types /\ enc[2] \in types
  BY ModelFilesAssumption
<1>2. /\ e.rows \in Nat \ {0} /\ e.cols \in Nat \ {0}
      /\ e.bytes = e.rows * RowBytes(e.type, e.cols)
      /\ \E w \in {"f32", enc[1], enc[2]} : e.type = PickType(w, e.cols)
  <2>1. e.rows \in Nat \ {0} /\ e.cols \in Nat \ {0}
    BY EntryMirrors, Zenon
  <2>2. e.bytes = e.rows * RowBytes(e.type, e.cols)
    BY EntryMirrors, Zenon
  <2>3. \E w \in {"f32", enc[1], enc[2]} : e.type = PickType(w, e.cols)
    BY EntryMirrors, Zenon
  <2> QED BY <2>1, <2>2, <2>3
<1> HIDE DEF e
<1>3. e.type \in types
  BY <1>1, <1>2 DEF PickType
<1>4. RowBytes(e.type, e.cols) \in Nat
  <2>1. \A k \in Nat : /\ 4 * k \in Nat /\ 2 * k \in Nat
                        /\ k + (k \div 64) * 2 \in Nat /\ (k \div 2) + (k \div 64) * 2 \in Nat
    OBVIOUS
  <2> QED BY <1>2, <1>3, <2>1 DEF RowBytes, Group
<1>5. \A a, b \in Nat : a * b \in Nat
  OBVIOUS
<1>6. e.bytes \in Nat /\ e.rows \in Nat
  BY <1>2, <1>4, <1>5
<1> QED BY <1>6 DEF e

\* What the plan is, and that it mirrors the constructor's list.
LEMMA PlanIs ==
    ASSUME NEW g \in Configurations, Valid(g), NEW enc
    PROVE  LET plan == BuildPlan(g, enc)
               reg == Registered(g)
           IN  /\ plan \in Seq(EntriesOf(g, enc, NamesOf(g)))
               /\ Cardinality(Names(plan)) = Len(plan) /\ Names(plan) = NamesOf(g)
               /\ Len(plan) = Len(reg)
               /\ \A i \in DOMAIN plan : \E j \in DOMAIN reg :
                     LET e == plan[i]
                     IN  /\ reg[j].name = e.name
                         /\ reg[j].shape = IF Len(reg[j].shape) = 1 THEN <<e.cols>>
                                           ELSE IF e.transposed THEN <<e.cols, e.rows>>
                                           ELSE <<e.rows, e.cols>>
<1> DEFINE plan == BuildPlan(g, enc)
           reg == Registered(g)
           N == NamesOf(g)
           P == EntriesOf(g, enc, N)
           T == TensorsOf(g, N)
<1>1. g.layers \in Nat
  BY DEF Configurations, Valid
<1>2. Lists(plan, P) /\ Lists(reg, T)
  BY <1>1, PlanLists, RegisteredLists
<1>3. \A x \in P : \E n \in N : x = Entry(g, enc, n) /\ x.name = n
  BY EntryNamed DEF EntriesOf
<1>4. \A n \in N : \E x \in P : x.name = n
  BY EntryNamed DEF EntriesOf
<1>5. \A x \in T : x.name \in N /\ x = [name |-> x.name, shape |-> ShapeOf(g, x.name[2])]
  BY DEF TensorsOf
<1>6. \A n \in N : \E x \in T : x.name = n
  <2> TAKE n \in N
  <2>1. [name |-> n, shape |-> ShapeOf(g, n[2])] \in T
    BY DEF TensorsOf
  <2> QED BY <2>1
<1> HIDE DEF plan, reg, N, P, T
<1>7. Cardinality(N) = Len(plan) /\ Names(plan) = N
  BY <1>2, <1>3, <1>4, NamesCounted
<1>8. Cardinality(N) = Len(reg)
  BY <1>2, <1>5, <1>6, NamesCounted
<1>9. plan \in Seq(P) /\ DOMAIN plan = 1..Len(plan) /\ \A i \in DOMAIN plan : plan[i] \in P
  BY <1>2 DEF Lists
<1>10. DOMAIN reg = 1..Len(reg) /\ \A x \in T : \E j \in DOMAIN reg : reg[j] = x
  <2>1. reg \in Seq(T) /\ \A x \in T : \E j \in 1..Len(reg) : reg[j] = x
    BY <1>2 DEF Lists
  <2>2. DOMAIN reg = 1..Len(reg)
    BY <2>1
  <2> QED BY <2>1, <2>2
<1>11. ASSUME NEW i \in DOMAIN plan
       PROVE  \E j \in DOMAIN reg :
                  /\ reg[j].name = plan[i].name
                  /\ reg[j].shape = IF Len(reg[j].shape) = 1 THEN <<plan[i].cols>>
                                    ELSE IF plan[i].transposed THEN <<plan[i].cols, plan[i].rows>>
                                    ELSE <<plan[i].rows, plan[i].cols>>
  <2>1. PICK n \in N : plan[i] = Entry(g, enc, n) /\ plan[i].name = n
    BY <1>3, <1>9
  <2>2. PICK x \in T : x.name = n
    BY <1>6
  <2>3. PICK j \in DOMAIN reg : reg[j] = x
    BY <1>10
  <2>4. reg[j].name = n /\ reg[j].shape = ShapeOf(g, n[2])
    <3>1. x = [name |-> n, shape |-> ShapeOf(g, n[2])]
      BY <1>5, <2>2
    <3> QED BY <2>3, <3>1
  <2> DEFINE e == Entry(g, enc, n)
             s == ShapeOf(g, n[2])
  <2>5. s = IF Len(s) = 1 THEN <<e.cols>>
            ELSE IF e.transposed THEN <<e.cols, e.rows>> ELSE <<e.rows, e.cols>>
    BY EntryMirrors, Zenon
  <2> HIDE DEF e, s
  <2>6. reg[j].name = plan[i].name /\ reg[j].shape = s /\ plan[i] = e
    BY <2>1, <2>4 DEF e, s
  <2> QED BY <2>5, <2>6
<1> QED BY <1>7, <1>8, <1>9, <1>11 DEF plan, reg, N, P

\* What is aligned is behind what was asked for.
LEMMA AlignUpIs ==
    ASSUME NEW x \in Nat
    PROVE  AlignUp(x) \in Nat /\ AlignUp(x) >= x /\ AlignUp(x) % Group = 0
BY DEF AlignUp, Group

LEMMA DirectoryIs ==
    ASSUME NEW plan, Len(plan) \in Nat, DOMAIN plan = 1..Len(plan)
    PROVE  DirectoryBytes(plan) \in Nat
<1> DEFINE n == Len(plan)
           e(i) == 2 + NameBytes + 2 + 8 * (IF plan[i].rows = 1 THEN 1 ELSE 2) + 16
           s == [i \in 1..n |-> e(i)]
<1>1. \A i \in 1..n : e(i) \in Nat
  BY DEF NameBytes
<1>2. DirectoryBytes(plan) = SumsOver(s)[n]
  BY DEF DirectoryBytes
<1>3. n \in Nat
  OBVIOUS
<1> HIDE DEF n, e
<1>4. s \in Seq(Nat) /\ Len(s) = n
  BY <1>1, <1>3
<1> HIDE DEF s
<1>5. SumsOver(s) \in [0..Len(s) -> Nat]
  BY <1>4, SumsAre, Zenon
<1>6. SumsOver(s) \in [0..n -> Nat] /\ n \in 0..n
  BY <1>3, <1>4, <1>5
<1> QED BY <1>2, <1>6

\* The tensors of a plan lie one behind the other, each of them aligned.
LEMMA OffsetsAre ==
    ASSUME NEW plan, Len(plan) \in Nat, DOMAIN plan = 1..Len(plan),
           \A k \in 1..Len(plan) : plan[k].bytes \in Nat
    PROVE  /\ Offsets(plan) \in [0..Len(plan) -> Nat]
           /\ Offsets(plan)[0] >= 24 + TextBytes + DirectoryBytes(plan)
           /\ \A k \in 0..Len(plan) : Offsets(plan)[k] % Group = 0
           /\ \A k \in 1..Len(plan) : Offsets(plan)[k] >= Offsets(plan)[k - 1] + plan[k].bytes
<1> DEFINE n == Len(plan)
           start == PayloadOffset(plan)
           b(k) == plan[k].bytes
           spec(f) == [k \in 0..n |-> IF k = 0 THEN start ELSE AlignUp(f[k - 1] + b(k))]
           off == CHOOSE f : f = spec(f)
           F == [p \in (1..n) \X Nat |-> AlignUp(p[2] + b(p[1]))]
<1>1. n \in Nat /\ start \in Nat /\ start >= 24 + TextBytes + DirectoryBytes(plan) /\ start % Group = 0
      /\ \A k \in 1..n : b(k) \in Nat
  <2>1. 24 + TextBytes + DirectoryBytes(plan) \in Nat
    BY DirectoryIs DEF TextBytes
  <2> QED BY <2>1, AlignUpIs DEF PayloadOffset
<1>2. Offsets(plan) = off
  BY DEF Offsets
<1> HIDE DEF n, start, b
<1>3. \A x \in Nat, k \in 1..n : /\ AlignUp(x + b(k)) \in Nat /\ AlignUp(x + b(k)) >= x + b(k)
                               /\ AlignUp(x + b(k)) % Group = 0
  <2> TAKE x \in Nat, k \in 1..n
  <2>1. x + b(k) \in Nat
    BY <1>1
  <2> QED BY <2>1, AlignUpIs
<1>4. F \in [(1..n) \X Nat -> Nat]
  BY <1>3
<1>5. PICK h \in [0..n -> Nat] : Built(h, n, start, F)
  <2> HIDE DEF F
  <2> QED BY <1>1, <1>4, Recursion
<1>6. \A k \in 1..n : h[k] = AlignUp(h[k - 1] + b(k))
  <2> TAKE k \in 1..n
  <2>1. h[k - 1] \in Nat /\ h[k] = F[<<k, h[k - 1]>>]
    <3>1. k - 1 \in 0..n
      BY <1>1
    <3> HIDE DEF F
    <3> QED BY ONLY <1>5, <3>1 DEF Built
  <2> QED BY <2>1
<1>7. h = spec(h)
  <2>1. \A k \in 0..n : h[k] = IF k = 0 THEN start ELSE AlignUp(h[k - 1] + b(k))
    <3>1. h[0] = start
      BY <1>5 DEF Built
    <3>2. \A k \in 0..n : k = 0 \/ k \in 1..n
      BY <1>1
    <3> HIDE DEF F
    <3> QED BY <1>6, <3>1, <3>2
  <2> QED BY <1>5, <2>1
<1>8. off = spec(off)
  <2> HIDE DEF spec
  <2> QED BY <1>7
<1> HIDE DEF off, F
<1>9. DOMAIN off = 0..n /\ \A k \in 0..n : off[k] = IF k = 0 THEN start ELSE AlignUp(off[k - 1] + b(k))
  BY <1>8
<1>10. off[0] = start /\ \A k \in 1..n : off[k] = AlignUp(off[k - 1] + b(k))
  <2>1. 0 \in 0..n /\ \A k \in 1..n : k \in 0..n /\ k # 0
    BY ONLY <1>1
  <2> QED BY ONLY <1>9, <2>1
<1> DEFINE good == {k \in 0..n : off[k] \in Nat}
<1>11. 0 \in good
  BY <1>1, <1>10
<1>12. \A k \in 1..n : k - 1 \in good => k \in good
  <2> TAKE k \in 1..n
  <2> HAVE k - 1 \in good
  <2>1. off[k - 1] \in Nat /\ k \in 0..n /\ off[k] = AlignUp(off[k - 1] + b(k))
    BY <1>1, <1>10
  <2> QED BY <1>3, <2>1
<1> HIDE DEF good
<1>13. \A k \in 0..n : k \in good
  BY <1>1, <1>11, <1>12, UpTo
<1>14. off = [k \in 0..n |-> off[k]]
  <2>1. \A f : f = spec(f) => f = [k \in 0..n |-> f[k]]
    OBVIOUS
  <2> HIDE DEF spec
  <2> QED BY <1>8, <2>1
<1>15. off \in [0..n -> Nat]
  <2>1. \A k \in 0..n : off[k] \in Nat
    BY <1>13 DEF good
  <2> QED BY ONLY <1>14, <2>1
<1>16. \A k \in 1..n : off[k - 1] \in Nat
  BY <1>1, <1>15
<1>17. \A k \in 1..n : off[k] >= off[k - 1] + b(k) /\ off[k] % Group = 0
  BY <1>3, <1>10, <1>16
<1>18. \A k \in 0..n : off[k] % Group = 0
  <2>1. \A k \in 0..n : k = 0 \/ k \in 1..n
    BY ONLY <1>1
  <2> QED BY <1>1, <1>10, <1>17, <2>1
<1>19. off[0] >= 24 + TextBytes + DirectoryBytes(plan)
  BY <1>1, <1>10
<1> QED BY <1>2, <1>15, <1>17, <1>18, <1>19 DEF n, b

\* Numbers that do not fall from one place to the next do not fall at all.
LEMMA NeverFalls ==
    ASSUME NEW n \in Nat, NEW off \in [0..n -> Nat], \A k \in 1..n : off[k - 1] <= off[k]
    PROVE  \A j \in 0..n : \A i \in 0..j : off[i] <= off[j]
<1> DEFINE good == {j \in 0..n : \A i \in 0..j : off[i] <= off[j]}
<1>1. 0 \in good
  OBVIOUS
<1>2. \A j \in 1..n : j - 1 \in good => j \in good
  <2> TAKE j \in 1..n
  <2> HAVE j - 1 \in good
  <2>1. off[j - 1] \in Nat /\ off[j] \in Nat /\ off[j - 1] <= off[j]
    OBVIOUS
  <2>2. \A i \in 0..(j - 1) : off[i] <= off[j - 1] /\ off[i] \in Nat
    OBVIOUS
  <2>3. \A i \in 0..j : i = j \/ i \in 0..(j - 1)
    OBVIOUS
  <2>4. \A i \in 0..j : off[i] <= off[j]
    <3> TAKE i \in 0..j
    <3>1. CASE i = j
      BY <2>1, <3>1
    <3>2. CASE i # j
      <4>1. off[i] <= off[j - 1] /\ off[i] \in Nat
        BY <2>2, <2>3, <3>2
      <4> QED BY <2>1, <4>1
    <3> QED BY <3>1, <3>2
  <2> QED BY <2>4
<1> HIDE DEF good
<1>3. \A j \in 0..n : j \in good
  BY <1>1, <1>2, UpTo
<1> QED BY <1>3 DEF good

\* A packed file, however much of it was written: it mirrors the constructor, its
\* tensors lie apart and aligned, and it is opened exactly when they are all there.
LEMMA PackSound ==
    ASSUME NEW g \in Configurations, Valid(g), NEW enc \in Encodings, NEW params,
           NEW cut \in CutsOf(PackOf(g, enc, params)),
           pack = [PackOf(g, enc, params) EXCEPT !.size = cut]
    PROVE  /\ pack.meta = WriteTo(g) /\ PlanMirrors /\ PackLaidOut
           /\ \A i \in DOMAIN pack.directory :
                  /\ pack.directory[i].value = params[pack.directory[i].name].value
<1> DEFINE plan == BuildPlan(g, enc)
           n == Len(plan)
           off == Offsets(plan)
           e(i) == [name |-> plan[i].name, type |-> plan[i].type, rows |-> plan[i].rows,
                    cols |-> plan[i].cols, offset |-> off[i - 1], bytes |-> plan[i].bytes,
                    value |-> params[plan[i].name].value]
           d == [i \in DOMAIN plan |-> e(i)]
           whole == PackOf(g, enc, params)
<1>1. /\ whole = [kind |-> "pack", meta |-> WriteTo(g), enc |-> enc, size |-> off[n], directory |-> d]
  BY DEF PackOf
<1> HIDE DEF whole
<1>2. pack = [whole EXCEPT !.size = cut] /\ cut \in CutsOf(whole)
  BY DEF whole
<1> HIDE DEF d, off, n
<1>3. /\ pack.kind = "pack" /\ pack.meta = WriteTo(g) /\ pack.enc = enc /\ pack.size = cut
      /\ pack.directory = d /\ whole.directory = d /\ whole.size = off[n]
  BY <1>1, <1>2
<1>4. FromConfig(pack.meta) = g
  BY <1>3, ReadsWhatItWrote
<1>5. /\ plan \in Seq(EntriesOf(g, enc, NamesOf(g)))
      /\ Cardinality(Names(plan)) = Len(plan) /\ Names(plan) = NamesOf(g)
  BY PlanIs, Zenon
<1>6. PlanMirrors
  <2> DEFINE Mirrors(p, r) ==
                /\ Len(p) = Len(r)
                /\ \A i \in DOMAIN p : \E j \in DOMAIN r :
                      LET x == p[i]
                      IN  /\ r[j].name = x.name
                          /\ r[j].shape = IF Len(r[j].shape) = 1 THEN <<x.cols>>
                                          ELSE IF x.transposed THEN <<x.cols, x.rows>>
                                          ELSE <<x.rows, x.cols>>
             p1 == BuildPlan(FromConfig(pack.meta), pack.enc)
             r1 == Registered(FromConfig(pack.meta))
             reg == Registered(g)
  <2>1. Mirrors(plan, reg)
    BY PlanIs, Zenon
  <2>2. Mirrors(p1, r1) => PlanMirrors
    BY Zenon DEF PlanMirrors
  <2>3. p1 = plan /\ r1 = reg
    BY <1>3, <1>4
  <2> HIDE DEF Mirrors, p1, r1, reg, plan
  <2> QED BY <2>1, <2>2, <2>3
<1> HIDE DEF plan
<1>7. n \in Nat /\ DOMAIN plan = 1..n /\ Len(plan) = n /\ \A i \in 1..n : plan[i] \in EntriesOf(g, enc, NamesOf(g))
  BY <1>5 DEF n
<1>8. \A i \in 1..n : plan[i].bytes \in Nat
  <2> TAKE i \in 1..n
  <2>1. PICK m \in NamesOf(g) : plan[i] = Entry(g, enc, m)
    BY <1>7 DEF EntriesOf
  <2> QED BY <2>1, EntryBytes
<1>9. n >= 2
  <2> DEFINE a == <<Outside, "tok_emb">>
             b == <<Outside, "norm_f.g">>
  <2>1. a # b
    OBVIOUS
  <2>2. a \in NamesOf(g) /\ b \in NamesOf(g)
    BY DEF NamesOf, OuterNames
  <2> HIDE DEF a, b
  <2>3. PICK i \in 1..n : plan[i].name = a
    BY <1>5, <1>7, <2>2 DEF Names
  <2>4. PICK j \in 1..n : plan[j].name = b
    BY <1>5, <1>7, <2>2 DEF Names
  <2> QED BY <1>7, <2>1, <2>3, <2>4
<1>10. /\ off \in [0..n -> Nat] /\ off[0] >= 24 + TextBytes + DirectoryBytes(plan)
       /\ \A k \in 0..n : off[k] % Group = 0
       /\ \A k \in 1..n : off[k] >= off[k - 1] + plan[k].bytes
  <2>1. /\ off \in [0..Len(plan) -> Nat] /\ off[0] >= 24 + TextBytes + DirectoryBytes(plan)
        /\ \A k \in 0..Len(plan) : off[k] % Group = 0
        /\ \A k \in 1..Len(plan) : off[k] >= off[k - 1] + plan[k].bytes
    BY <1>7, <1>8, OffsetsAre DEF off
  <2> QED BY <1>7, <2>1
<1>11. \A k \in 1..n : /\ off[k - 1] \in Nat /\ off[k] \in Nat /\ off[k - 1] <= off[k]
                        /\ off[k] >= off[k - 1] + plan[k].bytes
  <2> TAKE k \in 1..n
  <2>1. k - 1 \in 0..n /\ k \in 0..n
    BY <1>7
  <2>2. off[k - 1] \in Nat /\ off[k] \in Nat /\ plan[k].bytes \in Nat /\ off[k] >= off[k - 1] + plan[k].bytes
    BY <1>8, <1>10, <2>1
  <2> QED BY ONLY <2>2
<1>12. /\ DOMAIN d = 1..n /\ Len(d) = n
       /\ \A i \in 1..n : /\ d[i].name = plan[i].name /\ d[i].type = plan[i].type
                           /\ d[i].rows = plan[i].rows /\ d[i].cols = plan[i].cols
                           /\ d[i].offset = off[i - 1] /\ d[i].bytes = plan[i].bytes
                           /\ d[i].value = params[d[i].name].value
  <2>1. d = [i \in 1..n |-> e(i)]
    BY <1>7 DEF d
  <2>2. \A i \in 1..n : /\ d[i].name = plan[i].name /\ d[i].type = plan[i].type
                        /\ d[i].rows = plan[i].rows /\ d[i].cols = plan[i].cols
                        /\ d[i].offset = off[i - 1] /\ d[i].bytes = plan[i].bytes
                        /\ d[i].value = params[d[i].name].value
    BY <2>1
  <2> DEFINE Q == {e(i) : i \in 1..n}
  <2>3. \A i \in 1..n : e(i) \in Q
    OBVIOUS
  <2> HIDE DEF e, Q
  <2>4. [i \in 1..n |-> e(i)] \in Seq(Q) /\ Len([i \in 1..n |-> e(i)]) = n
    BY ONLY <1>7, <2>3
  <2>5. DOMAIN [i \in 1..n |-> e(i)] = 1..n
    OBVIOUS
  <2> QED BY <2>1, <2>2, <2>4, <2>5
<1> HIDE DEF e
<1>13. DirectoryBytes(d) = DirectoryBytes(plan) /\ DirectoryBytes(plan) \in Nat
  <2> DEFINE r(x) == 2 + NameBytes + 2 + 8 * (IF x = 1 THEN 1 ELSE 2) + 16
  <2>1. DirectoryBytes(d) = SumsOver([i \in DOMAIN d |-> r(d[i].rows)])[Len(d)]
    BY Zenon DEF DirectoryBytes
  <2>2. DirectoryBytes(plan) = SumsOver([i \in DOMAIN plan |-> r(plan[i].rows)])[Len(plan)]
    BY Zenon DEF DirectoryBytes
  <2> HIDE DEF r
  <2>3. [i \in DOMAIN d |-> r(d[i].rows)] = [i \in DOMAIN plan |-> r(plan[i].rows)]
    BY <1>7, <1>12
  <2>4. Len(d) = Len(plan)
    BY <1>7, <1>12
  <2> QED BY <1>7, <2>1, <2>2, <2>3, <2>4, DirectoryIs
<1>14. Names(d) = Names(plan)
  BY <1>7, <1>12 DEF Names
<1>15. \A i \in 1..n : d[i].offset \in Nat /\ d[i].bytes \in Nat
  BY <1>8, <1>11, <1>12
<1>16. cut \in Int
  <2>1. CutsOf(whole) = {24, 24 + TextBytes, d[1].offset, off[n]}
             \cup {d[i].offset + d[i].bytes - short : i \in {1, n \div 2, n}, short \in {0, 1}}
    BY <1>3, <1>12 DEF CutsOf
  <2>2. 1 \in 1..n /\ n \div 2 \in 1..n /\ n \in 1..n
    BY <1>7, <1>9
  <2>3. \A i \in {1, n \div 2, n} : i \in 1..n
    BY <2>2
  <2>4. \A i \in {1, n \div 2, n}, short \in {0, 1} : d[i].offset + d[i].bytes - short \in Int
    BY <1>15, <2>3
  <2>5. d[1].offset \in Int /\ off[n] \in Int
    BY <1>11, <1>15, <2>2
  <2>6. CASE cut \in {24, 24 + TextBytes, d[1].offset, off[n]}
    BY <2>5, <2>6 DEF TextBytes
  <2>7. CASE cut \in {d[i].offset + d[i].bytes - short : i \in {1, n \div 2, n}, short \in {0, 1}}
    BY <2>4, <2>7
  <2> QED BY <1>2, <2>1, <2>6, <2>7
<1>17. \A i \in 1..n : d[i].offset + d[i].bytes <= d[n].offset + d[n].bytes
  <2>1. \A k \in 1..n : off[k - 1] <= off[k]
    BY <1>11
  <2>2. \A j \in 0..n : \A i \in 0..j : off[i] <= off[j]
    BY <1>7, <1>10, <2>1, NeverFalls
  <2> TAKE i \in 1..n
  <2>3. CASE i = n
    <3>1. d[n].offset + d[n].bytes \in Int
      BY <1>7, <1>9, <1>15
    <3> QED BY <2>3, <3>1
  <2>4. CASE i # n
    <3>1. i \in 0..(n - 1) /\ n - 1 \in 0..n /\ n \in 1..n
      BY <1>7, <2>4
    <3>2. off[i] <= off[n - 1]
      BY <2>2, <3>1
    <3>3. off[i] >= d[i].offset + d[i].bytes /\ off[n - 1] = d[n].offset
      BY <1>11, <1>12, <3>1
    <3>4. off[i] \in Nat /\ d[i].offset \in Nat /\ d[i].bytes \in Nat /\ d[n].offset \in Nat /\ d[n].bytes \in Nat
      BY <1>11, <1>15, <3>1
    <3> QED BY ONLY <3>2, <3>3, <3>4
  <2> QED BY <2>3, <2>4
<1>18. d[1].offset >= 24 + TextBytes + DirectoryBytes(plan)
  <2>1. 1 \in 1..n
    BY <1>7, <1>9
  <2>2. d[1].offset = off[0]
    BY <1>12, <2>1
  <2> QED BY <1>10, <2>2
<1>19. \A i \in 1..n : d[i].offset % Group = 0
  <2> TAKE i \in 1..n
  <2>1. i - 1 \in 0..n
    BY <1>7
  <2> QED BY <1>10, <1>12, <2>1
<1>20. \A i \in 1..(n - 1) : d[i + 1].offset >= d[i].offset + d[i].bytes
  <2> TAKE i \in 1..(n - 1)
  <2>1. i \in 1..n /\ i + 1 \in 1..n /\ (i + 1) - 1 = i
    BY <1>7
  <2>2. d[i + 1].offset = off[i]
    BY <1>12, <2>1
  <2> QED BY <1>11, <1>12, <2>1, <2>2
<1>21. PackOpens(pack) <=> cut >= d[n].offset + d[n].bytes
  <2> DEFINE Opens(p, t) ==
                /\ pack.size >= 24 + TextBytes + DirectoryBytes(p)
                /\ \A i \in DOMAIN t : t[i].offset + t[i].bytes <= pack.size
                /\ \A i \in DOMAIN p : \E j \in DOMAIN t :
                      <<t[j].name, t[j].rows, t[j].cols, t[j].type>>
                      = <<p[i].name, p[i].rows, p[i].cols, p[i].type>>
                /\ Len(p) = Cardinality(Names(t))
             p1 == BuildPlan(FromConfig(pack.meta), pack.enc)
             d1 == pack.directory
  <2>7. PackOpens(pack) <=> Opens(p1, d1)
    BY Zenon DEF PackOpens
  <2>8. p1 = plan /\ d1 = d
    BY <1>3, <1>4 DEF plan
  <2> HIDE DEF p1, d1
  <2>9. PackOpens(pack) <=> Opens(plan, d)
    <3> HIDE DEF Opens
    <3> QED BY <2>7, <2>8
  <2>1. PackOpens(pack) <=>
          /\ cut >= 24 + TextBytes + DirectoryBytes(plan)
          /\ \A i \in 1..n : d[i].offset + d[i].bytes <= cut
          /\ \A i \in 1..n : \E j \in 1..n :
                 <<d[j].name, d[j].rows, d[j].cols, d[j].type>>
                 = <<plan[i].name, plan[i].rows, plan[i].cols, plan[i].type>>
          /\ n = Cardinality(Names(d))
    <3>1. pack.size = cut /\ DOMAIN d = 1..n /\ DOMAIN plan = 1..n /\ Len(plan) = n
      BY <1>3, <1>7, <1>12
    <3> QED BY <2>9, <3>1, Zenon
  <2>2. \A i \in 1..n : \E j \in 1..n :
           <<d[j].name, d[j].rows, d[j].cols, d[j].type>>
           = <<plan[i].name, plan[i].rows, plan[i].cols, plan[i].type>>
    <3> TAKE i \in 1..n
    <3>1. <<d[i].name, d[i].rows, d[i].cols, d[i].type>>
          = <<plan[i].name, plan[i].rows, plan[i].cols, plan[i].type>>
      BY <1>12
    <3> QED BY <3>1
  <2>3. n = Cardinality(Names(d))
    BY <1>5, <1>7, <1>14
  <2>4. n \in 1..n /\ 1 \in 1..n
    BY <1>7, <1>9
  <2>5. ASSUME cut >= d[n].offset + d[n].bytes
        PROVE  /\ cut >= 24 + TextBytes + DirectoryBytes(plan)
               /\ \A i \in 1..n : d[i].offset + d[i].bytes <= cut
    <3> DEFINE last == d[n].offset + d[n].bytes
               end(i) == d[i].offset + d[i].bytes
    <3>1. last \in Nat /\ \A i \in 1..n : end(i) \in Nat /\ end(i) <= last
      BY <1>15, <1>17, <2>4
    <3>2. cut >= last
      BY <2>5
    <3> HIDE DEF last, end
    <3>3. \A i \in 1..n : end(i) <= cut
      BY ONLY <1>16, <3>1, <3>2
    <3>4. end(1) >= d[1].offset
      BY <1>15, <2>4 DEF end
    <3>5. end(1) \in Nat /\ end(1) <= cut /\ d[1].offset \in Nat
      BY <1>15, <2>4, <3>1, <3>3
    <3> DEFINE h == 24 + TextBytes + DirectoryBytes(plan)
    <3>6. h \in Nat /\ d[1].offset >= h
      BY <1>13, <1>18 DEF TextBytes
    <3> HIDE DEF h
    <3>7. cut >= h
      BY ONLY <1>16, <3>4, <3>5, <3>6
    <3> QED BY <3>3, <3>7 DEF h, end
  <2>6. ASSUME \A i \in 1..n : d[i].offset + d[i].bytes <= cut
        PROVE  cut >= d[n].offset + d[n].bytes
    <3>1. d[n].offset + d[n].bytes <= cut
      BY <2>4, <2>6
    <3>2. d[n].offset \in Nat /\ d[n].bytes \in Nat
      BY <1>15, <2>4
    <3> QED BY <1>16, <3>1, <3>2
  <2> QED BY <2>1, <2>2, <2>3, <2>5, <2>6
<1>22. PackLaidOut
  BY <1>3, <1>12, <1>13, <1>18, <1>19, <1>20, <1>21, Zenon DEF PackLaidOut
<1>23. \A i \in DOMAIN pack.directory : pack.directory[i].value = params[pack.directory[i].name].value
  BY <1>3, <1>12
<1> QED BY <1>3, <1>6, <1>22, <1>23

\* What the packer tells from the tensors of a checkpoint is its configuration.
LEMMA PackConfigIs ==
    ASSUME NEW m, WellBuilt(m), NEW s
    PROVE  PackConfig(Checkpoint(m, s)) = m.cfg
<1> DEFINE f == Checkpoint(m, s)
           g == m.cfg
           emb == <<Outside, "tok_emb">>
           blocks == {n[1] + 1 : n \in DOMAIN f.params} \ {0}
           deep == IF blocks = {} THEN g
                   ELSE [g EXCEPT !.layers = CHOOSE n \in blocks : \A k \in blocks : k <= n]
<1>1. f.meta = WriteTo(g) /\ f.params = m.params
  BY DEF Checkpoint
<1>2. g \in Configurations /\ Valid(g) /\ DOMAIN m.params = NamesOf(g)
  BY DEF WellBuilt
<1>3. FromConfig(f.meta) = g
  BY <1>1, <1>2, ReadsWhatItWrote
<1>4. /\ emb \in NamesOf(g) /\ "n1.g" \in InnerNames(g)
  BY DEF NamesOf, OuterNames, InnerNames
<1>5. m.params[emb].shape = <<g.vocab, g.embd>>
  <2>1. m.params[emb] = [shape |-> ShapeOf(g, emb[2]), value |-> m.params[emb].value]
    BY <1>4 DEF WellBuilt
  <2>2. emb[2] = "tok_emb"
    OBVIOUS
  <2>3. ShapeOf(g, "tok_emb") = <<g.vocab, g.embd>>
    BY DEF ShapeOf
  <2> HIDE DEF emb
  <2>4. m.params[emb].shape = ShapeOf(g, emb[2])
    BY <2>1
  <2> QED BY <2>2, <2>3, <2>4
<1>6. g.layers \in Int /\ g.layers > 0
  BY <1>2 DEF Configurations, Valid
<1>7. blocks = 1..g.layers
  <2> DEFINE I == InnerNames(g)
             O == OuterNames(g)
  <2>1. NamesOf(g) = ({Outside} \X O) \cup ((0..(g.layers - 1)) \X I)
    BY DEF NamesOf
  <2>2. "n1.g" \in I
    BY <1>4
  <2> HIDE DEF I, O
  <2>3. \A n \in NamesOf(g) : n[1] = Outside \/ n[1] \in 0..(g.layers - 1)
    BY <2>1
  <2>4. \A l \in 0..(g.layers - 1) : \E n \in NamesOf(g) : n[1] = l
    <3> TAKE l \in 0..(g.layers - 1)
    <3>1. <<l, "n1.g">> \in NamesOf(g) /\ <<l, "n1.g">>[1] = l
      BY <2>1, <2>2
    <3> QED BY <3>1
  <2>5. blocks = {n[1] + 1 : n \in NamesOf(g)} \ {0}
    BY <1>1, <1>2
  <2> HIDE DEF blocks
  <2>6. \A x \in blocks : x \in 1..g.layers
    BY <1>6, <2>3, <2>5 DEF Outside
  <2>7. \A x \in 1..g.layers : x \in blocks
    <3> TAKE x \in 1..g.layers
    <3>1. x - 1 \in 0..(g.layers - 1) /\ (x - 1) + 1 = x /\ x # 0
      BY <1>6
    <3>2. PICK n \in NamesOf(g) : n[1] = x - 1
      BY <2>4, <3>1
    <3> QED BY <2>5, <3>1, <3>2
  <2> QED BY <2>6, <2>7
<1> HIDE DEF blocks
<1>8. deep = g
  <2> DEFINE top == CHOOSE n \in blocks : \A k \in blocks : k <= n
  <2>1. g.layers \in blocks /\ \A k \in blocks : k <= g.layers
    BY <1>6, <1>7
  <2>2. top \in blocks /\ \A k \in blocks : k <= top
    BY <2>1
  <2> HIDE DEF top
  <2>3. top = g.layers
    BY <1>6, <1>7, <2>1, <2>2
  <2>4. [g EXCEPT !.layers = g.layers] = g
    BY <1>2 DEF Configurations
  <2>5. blocks # {}
    BY <2>1
  <2>6. deep = [g EXCEPT !.layers = top]
    BY <2>5 DEF top
  <2> QED BY <2>3, <2>4, <2>6
<1> DEFINE D(x) == IF blocks = {} THEN x
                   ELSE [x EXCEPT !.layers = CHOOSE n \in blocks : \A k \in blocks : k <= n]
           R(x) == IF emb \notin DOMAIN f.params THEN x
                   ELSE [x EXCEPT !.vocab = f.params[emb].shape[1], !.embd = f.params[emb].shape[2]]
<1>9. PackConfig(f) = R(D(FromConfig(f.meta)))
  BY Zenon DEF PackConfig, blocks
<1>12. D(g) = g
  BY <1>8, Zenon
<1> HIDE DEF D, f
<1>13. PackConfig(f) = R(g)
  <2> HIDE DEF R
  <2> QED BY <1>3, <1>9, <1>12
<1> HIDE DEF emb
<1>14. f.params = m.params /\ emb \in DOMAIN f.params
  BY <1>1, <1>2, <1>4
<1>15. f.params[emb].shape[1] = g.vocab /\ f.params[emb].shape[2] = g.embd
  BY <1>5, <1>14
<1>10. PackConfig(f) = [g EXCEPT !.vocab = g.vocab, !.embd = g.embd]
  BY <1>13, <1>14, <1>15
<1>11. [g EXCEPT !.vocab = g.vocab, !.embd = g.embd] = g
  BY <1>2 DEF Configurations
<1> QED BY <1>10, <1>11 DEF f

-----------------------------------------------------------------------------
(* The files and the programs on them (ModelFiles).                            *)

CkptInv ==
    IF Intact(ckpt)
    THEN /\ WellBuilt(saved) /\ ckpt = Checkpoint(saved, ckpt.step) /\ ckpt.step \in Nat
         /\ saved.cfg.layers = depth + BlocksBefore(ckpt.step)
    ELSE saved = None

TrainInv ==
    work \in {"training", "saving"} =>
        /\ WellBuilt(model) /\ step \in Nat
        /\ model.cfg.layers = depth + BlocksBefore(step)
        /\ optimiser = ToSet(model.order)

TunerInv ==
    work = "trainer" =>
        /\ WellBuilt(model) /\ Intact(ckpt) /\ model.cfg = saved.cfg
        /\ policy \in Policies /\ optimiser = Trainable(model, policy)
        /\ \A n \in NamesOf(model.cfg) \ optimiser : model.params[n].value = ckpt.params[n].value

PackInv ==
    IF work = "packed"
    THEN /\ Intact(ckpt)
         /\ \E enc \in Encodings : \E cut \in CutsOf(PackOf(saved.cfg, enc, saved.params)) :
               pack = [PackOf(saved.cfg, enc, saved.params) EXCEPT !.size = cut]
    ELSE pack = None

FilesInv == depth \in Int /\ CkptInv /\ TrainInv /\ TunerInv /\ PackInv

LEMMA NoneIsNotIntact == ~Intact(None)
BY DEF Intact, None

LEMMA BuiltIsNotNone ==
    ASSUME NEW m, WellBuilt(m)
    PROVE  m # None
<1>1. SUFFICES ASSUME m = None PROVE FALSE
  OBVIOUS
<1>2. DOMAIN m = {"cfg", "order", "params"}
  BY DEF WellBuilt
<1>3. DOMAIN None = {"kind"}
  BY DEF None
<1> QED BY <1>1, <1>2, <1>3

\* What an intact checkpoint gives back.
LEMMA CkptRestores ==
    ASSUME CkptInv, Intact(ckpt)
    PROVE  /\ Restorable(ckpt) /\ WellBuilt(Restored(ckpt))
           /\ Restored(ckpt).cfg = saved.cfg
           /\ Restored(ckpt).params = saved.params /\ ckpt.params = saved.params
           /\ WellBuilt(saved) /\ saved # None
<1>1. WellBuilt(saved) /\ ckpt = Checkpoint(saved, ckpt.step)
  BY DEF CkptInv
<1>2. ckpt.params = saved.params
  <2>1. Checkpoint(saved, ckpt.step).params = saved.params
    BY DEF Checkpoint
  <2> QED BY <1>1, <2>1
<1> DEFINE f == Checkpoint(saved, ckpt.step)
<1>3. /\ Restorable(f) /\ WellBuilt(Restored(f))
      /\ Restored(f).cfg = saved.cfg /\ Restored(f).params = saved.params
  BY <1>1, CheckpointRestores
<1>4. ckpt = f
  BY <1>1
<1> HIDE DEF f
<1> QED BY <1>1, <1>2, <1>3, <1>4, BuiltIsNotNone

LEMMA FilesStart == FilesInit => FilesInv
BY NoneIsNotIntact DEF FilesInit, FilesInv, CkptInv, TrainInv, TunerInv, PackInv

LEMMA FilesStep ==
    ASSUME FilesInv, [FilesNext]_fvars
    PROVE  FilesInv'
<1>1. ASSUME NEW c \in Configs, Pretrain(c) PROVE FilesInv'
  <2> DEFINE g == FromConfig(c)
  <2>1. /\ Valid(g) /\ work' = "training" /\ model' = Model(g)
        /\ optimiser' = Trainable(Model(g), AllOpen)
        /\ step' = 0 /\ depth' = g.layers /\ ckpt' = None /\ saved' = None /\ pack' = None
    BY <1>1 DEF Pretrain, Begin
  <2>2. g \in Configurations /\ g.layers \in Int
    BY ConfigsAssumption DEF Configurations
  <2> HIDE DEF g
  <2>3. WellBuilt(Model(g)) /\ Model(g).cfg = g
    BY <2>1, <2>2, ModelBuilt
  <2>4. Trainable(Model(g), AllOpen) = ToSet(Model(g).order)
    BY AllOpenTrains
  <2>5. TrainInv'
    <3>1. g.layers = g.layers + BlocksBefore(0)
      BY <2>2, NoneBeforeFirst
    <3> QED BY <2>1, <2>3, <2>4, <3>1 DEF TrainInv
  <2>6. CkptInv'
    BY <2>1, NoneIsNotIntact DEF CkptInv
  <2>7. TunerInv'
    BY <2>1 DEF TunerInv
  <2>8. PackInv'
    BY <2>1 DEF PackInv
  <2> QED BY <2>1, <2>2, <2>5, <2>6, <2>7, <2>8 DEF FilesInv
<1>2. CASE Resume
  <2>1. /\ Intact(ckpt) /\ work' = "training" /\ model' = Restored(ckpt)
        /\ optimiser' = Trainable(Restored(ckpt), AllOpen) /\ step' = ckpt.step
        /\ depth' = depth /\ ckpt' = ckpt /\ saved' = saved /\ work = "idle" /\ pack' = pack
    BY <1>2 DEF Resume, Begin, Restorable
  <2>2. /\ WellBuilt(Restored(ckpt)) /\ Restored(ckpt).cfg = saved.cfg
    BY <2>1, CkptRestores DEF FilesInv
  <2>3. Trainable(Restored(ckpt), AllOpen) = ToSet(Restored(ckpt).order)
    BY AllOpenTrains
  <2>4. ckpt.step \in Nat /\ saved.cfg.layers = depth + BlocksBefore(ckpt.step)
    BY <2>1 DEF FilesInv, CkptInv
  <2>5. TrainInv'
    BY <2>1, <2>2, <2>3, <2>4 DEF TrainInv
  <2>6. CkptInv'
    BY <2>1 DEF FilesInv, CkptInv
  <2>7. TunerInv'
    BY <2>1 DEF TunerInv
  <2>8. PackInv'
    BY <2>1 DEF FilesInv, PackInv
  <2> QED BY <2>1, <2>5, <2>6, <2>7, <2>8 DEF FilesInv
<1>3. CASE Iterate
  <2> DEFINE grown == GrownAt(model, step)
             names == IF BlocksAt(step) > 0 THEN Trainable(grown, AllOpen) ELSE optimiser
  <2>1. /\ work = "training" /\ optimiser' = names
        /\ model' = IF step \in Spikes THEN grown ELSE Moved(grown, names)
        /\ step' = step + 1 /\ work' \in {"training", "saving"}
        /\ depth' = depth /\ ckpt' = ckpt /\ saved' = saved /\ pack' = pack
    BY <1>3 DEF Iterate
  <2>2. /\ WellBuilt(model) /\ step \in Nat /\ depth \in Int
        /\ model.cfg.layers = depth + BlocksBefore(step)
        /\ optimiser = ToSet(model.order)
    BY <2>1 DEF FilesInv, TrainInv
  <2>3. /\ BlocksAt(step) \in Nat /\ WellBuilt(grown)
        /\ grown.cfg.layers = model.cfg.layers + BlocksAt(step)
        /\ BlocksAt(step) = 0 => grown = model
    BY <2>2, GrownBuilt
  <2> HIDE DEF grown
  <2>4. names = ToSet(grown.order)
    <3>1. CASE BlocksAt(step) > 0
      BY <3>1, AllOpenTrains
    <3>2. CASE ~(BlocksAt(step) > 0)
      <4>1. grown = model
        BY <2>3, <3>2
      <4> QED BY <2>2, <3>2, <4>1
    <3> QED BY <3>1, <3>2
  <2> HIDE DEF names
  <2>5. /\ WellBuilt(Moved(grown, names)) /\ Moved(grown, names).cfg = grown.cfg
        /\ Moved(grown, names).order = grown.order
    BY <2>3, MovedBuilt
  <2>6. WellBuilt(model') /\ model'.cfg = grown.cfg /\ model'.order = grown.order
    BY <2>1, <2>3, <2>5
  <2>7. grown.cfg.layers = depth + BlocksBefore(step + 1)
    <3>1. BlocksBefore(step) \in Nat /\ BlocksBefore(step + 1) = BlocksBefore(step) + BlocksAt(step)
      BY <2>2, Schedule
    <3> QED BY <2>2, <2>3, <3>1
  <2>8. TrainInv'
    <3>1. step + 1 \in Nat
      BY <2>2
    <3> QED BY <2>1, <2>4, <2>6, <2>7, <3>1 DEF TrainInv
  <2>9. CkptInv'
    BY <2>1 DEF FilesInv, CkptInv
  <2>10. TunerInv'
    BY <2>1 DEF TunerInv
  <2>11. PackInv'
    BY <2>1 DEF FilesInv, PackInv
  <2> QED BY <2>1, <2>2, <2>8, <2>9, <2>10, <2>11 DEF FilesInv
<1>4. CASE Save
  <2>1. /\ work = "saving" /\ ckpt' = Checkpoint(model, step) /\ saved' = model
        /\ work' = "training" /\ model' = model /\ optimiser' = optimiser /\ step' = step
        /\ depth' = depth /\ pack' = pack
    BY <1>4 DEF Save
  <2>2. TrainInv' /\ TunerInv'
    BY <2>1 DEF FilesInv, TrainInv, TunerInv
  <2>3. WellBuilt(model) /\ step \in Nat /\ model.cfg.layers = depth + BlocksBefore(step)
    BY <2>1 DEF FilesInv, TrainInv
  <2>4. Checkpoint(model, step).step = step
    BY DEF Checkpoint
  <2>5. CkptInv'
    BY <2>1, <2>3, <2>4, CheckpointRestores DEF CkptInv
  <2>6. PackInv'
    BY <2>1 DEF FilesInv, PackInv
  <2> QED BY <2>1, <2>2, <2>5, <2>6 DEF FilesInv
<1>5. CASE TornSave
  <2>1. /\ work = "saving" /\ saved' = None
        /\ work' = "training" /\ model' = model /\ optimiser' = optimiser /\ step' = step
        /\ depth' = depth /\ pack' = pack
    BY <1>5 DEF TornSave
  <2>2. PICK k \in {-1, 0, Len(model.order) - 1} : ckpt' = TornAt(model, step, k)
    BY <1>5 DEF TornSave
  <2>3. WellBuilt(model)
    BY <2>1 DEF FilesInv, TrainInv
  <2>4. k \in Int /\ k < Len(model.order)
    BY <2>3, SomeTensor
  <2>5. ~Intact(ckpt')
    BY <2>2, <2>3, <2>4, TornIsRefused
  <2>6. TrainInv' /\ TunerInv'
    BY <2>1 DEF FilesInv, TrainInv, TunerInv
  <2>7. CkptInv'
    BY <2>1, <2>5 DEF CkptInv
  <2>8. PackInv'
    BY <2>1 DEF FilesInv, PackInv
  <2> QED BY <2>1, <2>6, <2>7, <2>8 DEF FilesInv
<1>6. CASE Quit
  BY <1>6 DEF Quit, FilesInv, CkptInv, TrainInv, TunerInv, PackInv
<1>7. ASSUME NEW p \in Policies, Tune(p) PROVE FilesInv'
  <2>1. /\ Intact(ckpt) /\ work' = "trainer" /\ model' = Restored(ckpt) /\ policy' = p
        /\ optimiser' = Trainable(Restored(ckpt), p)
        /\ depth' = depth /\ ckpt' = ckpt /\ saved' = saved /\ work = "idle" /\ pack' = pack
    BY <1>7 DEF Tune, Begin, Restorable
  <2>2. /\ WellBuilt(Restored(ckpt)) /\ Restored(ckpt).cfg = saved.cfg
        /\ Restored(ckpt).params = ckpt.params
    BY <2>1, CkptRestores DEF FilesInv
  <2>3. TunerInv'
    BY <2>1, <2>2 DEF TunerInv
  <2>4. CkptInv' /\ TrainInv'
    BY <2>1 DEF FilesInv, CkptInv, TrainInv
  <2>5. PackInv'
    BY <2>1 DEF FilesInv, PackInv
  <2> QED BY <2>1, <2>3, <2>4, <2>5 DEF FilesInv
<1>8. CASE TuneStep
  <2>1. /\ work = "trainer" /\ work' = work /\ model' = Moved(model, optimiser)
        /\ policy' = policy /\ optimiser' = optimiser
        /\ depth' = depth /\ ckpt' = ckpt /\ saved' = saved /\ pack' = pack
    BY <1>8 DEF TuneStep
  <2>2. /\ WellBuilt(model) /\ Intact(ckpt) /\ model.cfg = saved.cfg
        /\ policy \in Policies /\ optimiser = Trainable(model, policy)
        /\ \A n \in NamesOf(model.cfg) \ optimiser : model.params[n].value = ckpt.params[n].value
    BY <2>1 DEF FilesInv, TunerInv
  <2>3. /\ WellBuilt(model') /\ model'.cfg = model.cfg /\ model'.order = model.order
        /\ \A n \in NamesOf(model.cfg) \ optimiser : model'.params[n] = model.params[n]
    BY <2>1, <2>2, MovedBuilt
  <2>4. Trainable(model', policy) = Trainable(model, policy)
    BY <2>3 DEF Trainable
  <2>5. TunerInv'
    BY <2>1, <2>2, <2>3, <2>4 DEF TunerInv
  <2>6. CkptInv' /\ TrainInv'
    BY <2>1 DEF FilesInv, CkptInv, TrainInv
  <2>7. PackInv'
    BY <2>1 DEF FilesInv, PackInv
  <2> QED BY <2>1, <2>5, <2>6, <2>7 DEF FilesInv
<1>9. ASSUME NEW enc \in Encodings, Pack(enc) PROVE FilesInv'
  <2>1. /\ work' = "packed" /\ depth' = depth /\ ckpt' = ckpt /\ saved' = saved /\ Intact(ckpt)
        /\ \E cut \in CutsOf(PackOf(PackConfig(ckpt), enc, ckpt.params)) :
               pack' = [PackOf(PackConfig(ckpt), enc, ckpt.params) EXCEPT !.size = cut]
    BY <1>9 DEF Pack
  <2>2. WellBuilt(saved) /\ ckpt = Checkpoint(saved, ckpt.step) /\ ckpt.params = saved.params
    BY <2>1, CkptRestores DEF FilesInv, CkptInv
  <2>3. PackConfig(ckpt) = saved.cfg
    <3> DEFINE f == Checkpoint(saved, ckpt.step)
    <3>1. PackConfig(f) = saved.cfg /\ ckpt = f
      BY <2>2, PackConfigIs
    <3> HIDE DEF f
    <3> QED BY <3>1
  <2>4. PackInv'
    BY <2>1, <2>2, <2>3 DEF PackInv
  <2>5. CkptInv' /\ TrainInv' /\ TunerInv'
    BY <2>1 DEF FilesInv, CkptInv, TrainInv, TunerInv
  <2> QED BY <2>1, <2>4, <2>5 DEF FilesInv
<1>10. CASE UNCHANGED fvars
  BY <1>10 DEF fvars, FilesInv, CkptInv, TrainInv, TunerInv, PackInv
<1> QED BY <1>1, <1>2, <1>3, <1>4, <1>5, <1>6, <1>7, <1>8, <1>9, <1>10 DEF FilesNext

LEMMA FilesInvSurvive ==
    ASSUME FilesInv
    PROVE  ModelsSurvive
<1>1. GrownIsBuilt
  <2> SUFFICES ASSUME work \in {"training", "saving", "trainer"}
               PROVE  LET built == Model(model.cfg)
                      IN  /\ Len(model.order) = Len(built.order)
                          /\ ToSet(model.order) = ToSet(built.order)
                          /\ \A n \in ToSet(built.order) :
                                 model.params[n].shape = built.params[n].shape
    BY DEF GrownIsBuilt
  <2> DEFINE g == model.cfg
             b == Model(g)
             N == NamesOf(g)
  <2>1. WellBuilt(model)
    BY DEF FilesInv, TrainInv, TunerInv
  <2>2. g \in Configurations /\ Valid(g)
    BY <2>1 DEF WellBuilt
  <2>3. WellBuilt(b) /\ b.cfg = g
    BY <2>2, ModelBuilt
  <2> HIDE DEF b
  <2>4. Lists(model.order, N) /\ Lists(b.order, N)
    BY <2>1, <2>3 DEF WellBuilt
  <2>5. /\ Cardinality(N) = Len(model.order) /\ ToSet(model.order) = N
        /\ Cardinality(N) = Len(b.order) /\ ToSet(b.order) = N
    BY <2>4, ListsCount
  <2>6. \A n \in N : model.params[n].shape = b.params[n].shape
    <3> TAKE n \in N
    <3>1. model.params[n] = [shape |-> ShapeOf(g, n[2]), value |-> model.params[n].value]
      BY <2>1 DEF WellBuilt
    <3>2. b.params[n] = [shape |-> ShapeOf(g, n[2]), value |-> b.params[n].value]
      BY <2>3 DEF WellBuilt
    <3>3. model.params[n].shape = ShapeOf(g, n[2])
      BY <3>1
    <3>4. b.params[n].shape = ShapeOf(g, n[2])
      BY <3>2
    <3> QED BY <3>3, <3>4
  <2> QED BY <2>5, <2>6 DEF b
<1>2. DepthOnSchedule
  BY DEF FilesInv, TrainInv, DepthOnSchedule
<1>3. SavedIsRestored
  <2>1. CASE Intact(ckpt)
    BY <2>1, CkptRestores DEF FilesInv, SavedIsRestored
  <2>2. CASE ~Intact(ckpt)
    BY <2>2 DEF FilesInv, CkptInv, SavedIsRestored
  <2> QED BY <2>1, <2>2
<1>4. FrozenStay
  <2> SUFFICES ASSUME work = "trainer"
               PROVE  LET space == MergeSpace(model)
                      IN  /\ \A n \in DOMAIN model.params \ Trainable(model, policy) :
                                model.params[n].value = ckpt.params[n].value
                          /\ Scatter(Gather(model.params, space), ckpt.params, space) = model.params
    BY DEF FrozenStay
  <2> DEFINE g == model.cfg
             N == NamesOf(g)
             space == MergeSpace(model)
             P == model.params
             B == ckpt.params
  <2>1. /\ WellBuilt(model) /\ Intact(ckpt) /\ g = saved.cfg
        /\ policy \in Policies /\ optimiser = Trainable(model, policy)
        /\ \A n \in N \ optimiser : P[n].value = B[n].value
    BY DEF FilesInv, TunerInv
  <2>2. /\ Lists(model.order, N) /\ g \in Configurations /\ Valid(g)
        /\ P = [n \in N |-> P[n]] /\ DOMAIN P = N
        /\ \A n \in N : P[n] = [shape |-> ShapeOf(g, n[2]), value |-> P[n].value]
    BY <2>1 DEF WellBuilt
  <2>3. B = saved.params /\ WellBuilt(saved)
    BY <2>1, CkptRestores DEF FilesInv
  <2>4. DOMAIN B = N /\ \A n \in N : B[n] = [shape |-> ShapeOf(g, n[2]), value |-> B[n].value]
    BY <2>1, <2>3 DEF WellBuilt
  <2>5. space \in Seq(N) /\ Trainable(model, policy) \subseteq ToSet(space)
    BY <2>1, <2>2, SpaceHolds
  <2> HIDE DEF g, N, space, P, B
  <2>6. \A n \in N \ ToSet(space) : P[n].value = B[n].value
    BY <2>1, <2>5
  <2>7. \A n \in N : /\ B[n].shape = ShapeOf(g, n[2])
                     /\ Numel(B[n].shape) \in Nat \ {0}
    <3> TAKE n \in N
    <3>1. B[n] = [shape |-> ShapeOf(g, n[2]), value |-> B[n].value]
      BY <2>4
    <3>2. B[n].shape = ShapeOf(g, n[2])
      BY <3>1
    <3> QED BY <2>2, <3>2, TensorsHaveSize
  <2>8. \A n \in N : /\ Numel(B[n].shape) \in Nat \ {0}
                     /\ B[n] = [shape |-> B[n].shape, value |-> B[n].value]
                     /\ P[n] = [shape |-> B[n].shape, value |-> P[n].value]
    BY <2>2, <2>4, <2>7
  <2>9. Scatter(Gather(P, space), B, space) = P
    BY <2>2, <2>4, <2>5, <2>6, <2>8, ScatterGathered
  <2>10. \A n \in DOMAIN P \ Trainable(model, policy) : P[n].value = B[n].value
    BY <2>1, <2>2
  <2> QED BY <2>9, <2>10 DEF P, B, space
<1> QED BY <1>1, <1>2, <1>3, <1>4 DEF ModelsSurvive

\* Whatever is packed was saved, and lies in its file as the constructor and the
\* reader of it expect.
LEMMA FilesInvPacked ==
    ASSUME FilesInv
    PROVE  PlanMirrors /\ PackedAsSaved /\ PackLaidOut
<1>1. CASE work = "packed"
  <2>1. WellBuilt(saved)
    BY <1>1, CkptRestores DEF FilesInv, PackInv
  <2> DEFINE g == saved.cfg
             params == saved.params
  <2>2. g \in Configurations /\ Valid(g)
    BY <2>1 DEF WellBuilt
  <2>5. PICK enc \in Encodings : \E cut \in CutsOf(PackOf(g, enc, params)) :
           pack = [PackOf(g, enc, params) EXCEPT !.size = cut]
    BY <1>1 DEF FilesInv, PackInv
  <2>3. PICK cut \in CutsOf(PackOf(g, enc, params)) :
           pack = [PackOf(g, enc, params) EXCEPT !.size = cut]
    BY <2>5
  <2>4. /\ pack.meta = WriteTo(g) /\ PlanMirrors /\ PackLaidOut
        /\ \A i \in DOMAIN pack.directory :
              pack.directory[i].value = params[pack.directory[i].name].value
    <3> HIDE DEF g, params
    <3> QED BY <2>2, <2>3, PackSound
  <2> QED BY <2>4 DEF PackedAsSaved
<1>2. CASE work # "packed"
  <2>1. pack.kind # "pack"
    BY <1>2 DEF FilesInv, PackInv, None
  <2> QED BY <2>1 DEF PlanMirrors, PackedAsSaved, PackLaidOut
<1> QED BY <1>1, <1>2

\* A model in training, being saved or in a trainer's hands holds what its
\* configuration announces.
LEMMA WellBuiltCounts ==
    ASSUME NEW m, WellBuilt(m)
    PROVE  SumsOver([i \in 1..Len(m.order) |-> Numel(m.params[m.order[i]].shape)])[Len(m.order)]
           = ParamCount(m.cfg)
<1> DEFINE g == m.cfg
           s == m.order
           N == NamesOf(g)
           Z == NameSizes(g)
           k == Len(s)
<1>1. /\ g \in Configurations /\ Valid(g) /\ Lists(s, N)
      /\ \A n \in N : m.params[n] = [shape |-> ShapeOf(g, n[2]), value |-> m.params[n].value]
      /\ Weighs(s, Z, ParamCount(g))
  BY DEF WellBuilt, Counted
<1>2. Z \in [Int \X PartNames -> Nat]
  BY <1>1, SizesTyped
<1>3. \A i \in 1..k : s[i] \in N
  BY <1>1 DEF Lists
<1>4. \A i \in 1..k : s[i] \in Int \X PartNames
  <2>1. s \in Seq(Int \X PartNames)
    BY <1>1, <1>2 DEF Weighs
  <2> HIDE DEF s
  <2> QED BY <2>1
<1>5. \A n \in Int \X PartNames : Z[n] = Numel(ShapeOf(g, n[2]))
  BY DEF NameSizes
<1> DEFINE e(i) == Numel(m.params[s[i]].shape)
<1>6. \A i \in 1..k : e(i) = Z[s[i]]
  <2> TAKE i \in 1..k
  <2>1. m.params[s[i]] = [shape |-> ShapeOf(g, s[i][2]), value |-> m.params[s[i]].value]
    BY <1>1, <1>3
  <2>2. m.params[s[i]].shape = ShapeOf(g, s[i][2])
    BY <2>1
  <2>3. Z[s[i]] = Numel(ShapeOf(g, s[i][2]))
    BY <1>4, <1>5
  <2> QED BY <2>2, <2>3
<1>7. [i \in 1..k |-> e(i)] = [i \in 1..k |-> Z[s[i]]]
  BY <1>6
<1>8. SumsOver([i \in 1..k |-> Z[s[i]]])[k] = ParamCount(g)
  BY <1>1, Zenon DEF Weighs, Weight
<1> QED BY <1>7, <1>8, Zenon

LEMMA FilesInvAgree ==
    ASSUME FilesInv
    PROVE  FilesAgree
<1>1. CountsAnnounced
  <2>1. CASE work \in {"training", "saving"}
    <3>1. WellBuilt(model)
      BY <2>1 DEF FilesInv, TrainInv
    <3> QED BY <3>1, WellBuiltCounts, Zenon DEF CountsAnnounced
  <2>2. CASE work = "trainer"
    <3>1. WellBuilt(model)
      BY <2>2 DEF FilesInv, TunerInv
    <3> QED BY <3>1, WellBuiltCounts, Zenon DEF CountsAnnounced
  <2> QED BY <2>1, <2>2 DEF CountsAnnounced
<1> QED BY <1>1, FilesInvPacked DEF FilesAgree

\* ModelFiles: through growth, stops, torn saves and trainers a model stays the one its
\* configuration, its schedule and its checkpoint make it.
THEOREM ModelsAlwaysSurvive == FilesSpec => []ModelsSurvive
<1>1. FilesInit => FilesInv
  BY FilesStart
<1>2. FilesInv /\ [FilesNext]_fvars => FilesInv'
  BY FilesStep
<1>3. FilesInv => ModelsSurvive
  BY FilesInvSurvive
<1> QED BY <1>1, <1>2, <1>3, PTL DEF FilesSpec

\* ModelFiles: the constructor, param_count, save_packed and open_packed agree on the
\* tensors there are, on what they hold and on where they lie.
THEOREM FilesAlwaysAgree == FilesSpec => []FilesAgree
<1>1. FilesInit => FilesInv
  BY FilesStart
<1>2. FilesInv /\ [FilesNext]_fvars => FilesInv'
  BY FilesStep
<1>3. FilesInv => FilesAgree
  BY FilesInvAgree
<1> QED BY <1>1, <1>2, <1>3, PTL DEF FilesSpec

\* ModelFiles, all of it: a model comes back from its files as it was saved, and what the
\* files hold is what its configuration asks for.
THEOREM FilesStaySound == FilesSpec => []FilesSound
<1>1. FilesSound <=> ModelsSurvive /\ FilesAgree
  BY DEF FilesSound
<1> QED BY <1>1, ModelsAlwaysSurvive, FilesAlwaysAgree, PTL

-----------------------------------------------------------------------------
(* The memory (Memory): what is on the file, and what each step makes of it.   *)

Lines(s) == {s[i] : i \in DOMAIN s}

IdsDistinct(s)   == \A i, j \in DOMAIN s : s[i].id = s[j].id => i = j
TextsDistinct(s) == \A i, j \in DOMAIN s : s[i].text = s[j].text => i = j

FileInv ==
    /\ IdsDistinct(file)
    /\ ~failed => TextsDistinct(file)

SoleInv ==
    \A p, q \in Programs : pc[p] # "closed" /\ pc[q] # "closed" => p = q

ItemsDistinct(p) ==
    \A a, b \in items[p] :
        /\ a.id = b.id => a = b
        /\ ~failed /\ a.text = b.text => a = b

Quiet(p) ==
    /\ pc[p] = "closed" => items[p] = {}
    /\ pc[p] \in {"closed", "open"} => todo[p] = {}

Fresh(p) ==
    pc[p] # "closed" =>
        /\ \A x \in items[p] : x.id < next_id[p]
        /\ \A i \in DOMAIN file : file[i].id < next_id[p]

SavedLower(p) ==
    \A i \in DOMAIN file, x \in items[p] :
        file[i].id = x.id => file[i].importance <= x.importance

OpenAgrees(p) ==
    pc[p] = "open" /\ ~failed => Entries(items[p]) = Entries(Lines(file))

AppendingAgrees(p) ==
    pc[p] = "appending" =>
        \E item \in items[p] :
            /\ todo[p] = {item}
            /\ \A i \in DOMAIN file : file[i].id < item.id
            /\ ~failed =>
                  /\ \A i \in DOMAIN file : file[i].text # item.text
                  /\ Entries(items[p] \ {item}) = Entries(Lines(file))

CopyingAgrees(p) ==
    pc[p] = "copying" =>
        /\ IdsDistinct(tmp)
        /\ Lines(tmp) \subseteq items[p]
        /\ todo[p] \subseteq items[p]
        /\ Lines(tmp) \cap todo[p] = {}
        /\ ~failed =>
              /\ items[p] \subseteq Lines(tmp) \cup todo[p]
              /\ \E e \in Entries(Lines(file)) :
                    Entries(items[p]) = Entries(Lines(file)) \ {e}

ProgramInv(p) ==
    /\ ItemsDistinct(p)
    /\ Quiet(p)
    /\ Fresh(p)
    /\ SavedLower(p)
    /\ OpenAgrees(p)
    /\ AppendingAgrees(p)
    /\ CopyingAgrees(p)

IInv ==
    /\ MemoryTypeOK
    /\ FileInv
    /\ SoleInv
    /\ \A p \in Programs : ProgramInv(p)

-----------------------------------------------------------------------------
(* What the helpers give.                                                   *)

\* With distinct ids nothing replaces anything: open() loads every line.
LEMMA LoadedIsAll ==
    ASSUME NEW s \in Seq(Item), IdsDistinct(s)
    PROVE  Loaded(s) = Lines(s)
<1>1. \A k \in DOMAIN s : \A j \in DOMAIN s : j > k => s[j].id # s[k].id
  <2> SUFFICES ASSUME NEW k \in DOMAIN s, NEW j \in DOMAIN s, j > k, s[j].id = s[k].id
               PROVE  FALSE
    OBVIOUS
  <2>1. j = k
    BY DEF IdsDistinct
  <2>2. j \in Int /\ k \in Int
    OBVIOUS
  <2> QED
    BY <2>1, <2>2
<1>2. {k \in DOMAIN s : \A j \in DOMAIN s : j > k => s[j].id # s[k].id} = DOMAIN s
  BY <1>1
<1> QED
  BY <1>2 DEF Loaded, Lines

LEMMA LinesAppended ==
    ASSUME NEW s \in Seq(Item), NEW item \in Item
    PROVE  /\ Append(s, item) \in Seq(Item)
           /\ Lines(Append(s, item)) = Lines(s) \cup {item}
           /\ DOMAIN Append(s, item) = DOMAIN s \cup {Len(s) + 1}
           /\ \A i \in DOMAIN s : Append(s, item)[i] = s[i]
           /\ Append(s, item)[Len(s) + 1] = item
           /\ Len(s) + 1 \notin DOMAIN s
<1>1. /\ Append(s, item) \in Seq(Item)
      /\ Len(s) \in Nat
      /\ DOMAIN s = 1..Len(s)
      /\ Len(Append(s, item)) = Len(s) + 1
      /\ DOMAIN Append(s, item) = 1..(Len(s) + 1)
      /\ \A i \in 1..Len(s) : Append(s, item)[i] = s[i]
      /\ Append(s, item)[Len(s) + 1] = item
  OBVIOUS
<1>2. DOMAIN Append(s, item) = DOMAIN s \cup {Len(s) + 1} /\ Len(s) + 1 \notin DOMAIN s
  BY <1>1
<1>3. Lines(Append(s, item)) = {Append(s, item)[i] : i \in DOMAIN s} \cup {Append(s, item)[Len(s) + 1]}
  BY <1>2, Zenon DEF Lines
<1>4. {Append(s, item)[i] : i \in DOMAIN s} = {s[i] : i \in DOMAIN s}
  BY <1>1, Zenon
<1> QED
  BY <1>1, <1>2, <1>3, <1>4 DEF Lines

LEMMA AppendedDistinct ==
    ASSUME NEW s \in Seq(Item), NEW item \in Item, IdsDistinct(s),
           \A i \in DOMAIN s : s[i].id # item.id
    PROVE  IdsDistinct(Append(s, item))
BY LinesAppended DEF IdsDistinct

LEMMA AppendedTexts ==
    ASSUME NEW s \in Seq(Item), NEW item \in Item, TextsDistinct(s),
           \A i \in DOMAIN s : s[i].text # item.text
    PROVE  TextsDistinct(Append(s, item))
BY LinesAppended DEF TextsDistinct

LEMMA EntriesOfUnion ==
    ASSUME NEW S, NEW T
    PROVE  Entries(S \cup T) = Entries(S) \cup Entries(T)
BY Zenon DEF Entries

LEMMA EntriesOfOne ==
    ASSUME NEW x
    PROVE  Entries({x}) = {[id |-> x.id, text |-> x.text]}
BY Zenon DEF Entries

\* Taking out one item of a list with distinct ids takes out its entry.
LEMMA EntriesWithout ==
    ASSUME NEW S \in SUBSET Item, NEW x \in S, \A y \in S : y.id = x.id => y = x
    PROVE  Entries(S \ {x}) = Entries(S) \ {[id |-> x.id, text |-> x.text]}
<1>1. \A y \in S : [id |-> y.id, text |-> y.text] = [id |-> x.id, text |-> x.text] => y = x
  <2> SUFFICES ASSUME NEW y \in S, [id |-> y.id, text |-> y.text] = [id |-> x.id, text |-> x.text]
               PROVE  y = x
    OBVIOUS
  <2>1. y.id = x.id
    OBVIOUS
  <2> QED
    BY <2>1
<1> QED
  BY <1>1, Zenon DEF Entries

\* A closed program promises nothing.
LEMMA ClosedInv ==
    ASSUME NEW p \in Programs, pc'[p] = "closed", items'[p] = {}, todo'[p] = {}
    PROVE  ProgramInv(p)'
BY DEF ProgramInv, ItemsDistinct, Quiet, Fresh, SavedLower, OpenAgrees, AppendingAgrees,
       CopyingAgrees

LEMMA OthersClosed ==
    ASSUME IInv, NEW p \in Programs, NEW q \in Programs, q # p, pc[p] # "closed"
    PROVE  pc[q] = "closed" /\ items[q] = {} /\ todo[q] = {}
BY DEF IInv, SoleInv, ProgramInv, Quiet

-----------------------------------------------------------------------------
(* Each operation keeps the invariant.                                      *)

LEMMA InitInv == Init => IInv
<1> SUFFICES ASSUME Init
             PROVE  IInv
  OBVIOUS
<1>1. MemoryTypeOK
  <2>1. file \in Seq(Item) /\ tmp \in Seq(Item)
    BY DEF Init
  <2>2. 1 \in 1..(MaxId + 1)
    BY MemoryAssumption
  <2> QED
    BY <2>1, <2>2 DEF Init, MemoryTypeOK
<1>2. FileInv
  BY DEF Init, FileInv, IdsDistinct, TextsDistinct
<1>3. SoleInv
  BY DEF Init, SoleInv
<1>4. ASSUME NEW p \in Programs
      PROVE  ProgramInv(p)
  BY DEF Init, ProgramInv, ItemsDistinct, Quiet, Fresh, SavedLower, OpenAgrees,
         AppendingAgrees, CopyingAgrees
<1> QED
  BY <1>1, <1>2, <1>3, <1>4 DEF IInv

LEMMA OpenInv ==
    ASSUME IInv, NEW p \in Programs, OpenAlone(p)
    PROVE  IInv'
<1>1. /\ pc[p] = "closed" /\ todo[p] = {}
      /\ \A q \in Programs : pc[q] = "closed" /\ items[q] = {} /\ todo[q] = {}
  BY DEF OpenAlone, Open, IInv, ProgramInv, Quiet
<1>2. /\ items' = [items EXCEPT ![p] = Loaded(file)]
      /\ pc' = [pc EXCEPT ![p] = "open"]
      /\ UNCHANGED <<file, tmp, todo, failed>>
  BY DEF OpenAlone, Open
<1>3. PICK n \in 1..(MaxId + 1) : FollowsIds(n, file) /\ next_id' = [next_id EXCEPT ![p] = n]
  BY DEF OpenAlone, Open
<1>4. Loaded(file) = Lines(file)
  BY LoadedIsAll DEF IInv, FileInv, MemoryTypeOK
<1>5. file \in Seq(Item) /\ Lines(file) \in SUBSET Item
  BY DEF IInv, MemoryTypeOK, Lines
<1>6. MemoryTypeOK'
  <2>1. items' \in [Programs -> SUBSET Item]
    BY <1>2, <1>4, <1>5 DEF IInv, MemoryTypeOK
  <2>2. next_id' \in [Programs -> 1..(MaxId + 1)]
    BY <1>3 DEF IInv, MemoryTypeOK
  <2>3. pc' \in [Programs -> {"closed", "open", "appending", "copying"}]
    BY <1>2 DEF IInv, MemoryTypeOK
  <2> QED
    BY <1>2, <2>1, <2>2, <2>3 DEF IInv, MemoryTypeOK
<1>7. FileInv'
  BY <1>2 DEF IInv, FileInv, IdsDistinct, TextsDistinct
<1>8. \A q \in Programs : q # p => pc'[q] = "closed" /\ items'[q] = {} /\ todo'[q] = {}
  BY <1>1, <1>2 DEF IInv, MemoryTypeOK
<1>9. /\ pc'[p] = "open" /\ items'[p] = Lines(file) /\ todo'[p] = {}
      /\ next_id'[p] = n
  BY <1>1, <1>2, <1>3, <1>4 DEF IInv, MemoryTypeOK
<1>10. SoleInv'
  BY <1>8 DEF SoleInv
<1>11. ProgramInv(p)'
  <2>1. ItemsDistinct(p)'
    BY <1>2, <1>9 DEF IInv, FileInv, IdsDistinct, TextsDistinct, ItemsDistinct, Lines
  <2>2. Fresh(p)'
    BY <1>2, <1>3, <1>9 DEF Fresh, FollowsIds, Lines
  <2>3. SavedLower(p)'
    <3> SUFFICES ASSUME NEW i \in DOMAIN file, NEW x \in Lines(file), file[i].id = x.id
                 PROVE  file[i].importance <= x.importance
      BY <1>2, <1>9 DEF SavedLower
    <3>1. file[i] = x
      BY DEF IInv, FileInv, IdsDistinct, Lines
    <3>2. file[i] \in Item
      BY <1>5
    <3>3. file[i].importance \in Int
      BY <3>2, MemoryAssumption DEF Item
    <3> QED
      BY <3>1, <3>3
  <2>4. OpenAgrees(p)'
    BY <1>2, <1>9 DEF OpenAgrees
  <2> QED
    BY <1>9, <2>1, <2>2, <2>3, <2>4
       DEF ProgramInv, Quiet, AppendingAgrees, CopyingAgrees
<1> QED
  BY <1>6, <1>7, <1>8, <1>10, <1>11, ClosedInv DEF IInv

LEMMA ExitInv ==
    ASSUME IInv, NEW p \in Programs, Exit(p)
    PROVE  IInv'
<1>1. /\ pc[p] # "closed"
      /\ items' = [items EXCEPT ![p] = {}]
      /\ next_id' = [next_id EXCEPT ![p] = 1]
      /\ todo' = [todo EXCEPT ![p] = {}]
      /\ pc' = [pc EXCEPT ![p] = "closed"]
      /\ UNCHANGED <<file, tmp, failed>>
  BY DEF Exit
<1>2. MemoryTypeOK'
  <2>1. 1 \in 1..(MaxId + 1)
    BY MemoryAssumption
  <2> QED
    BY <1>1, <2>1 DEF IInv, MemoryTypeOK
<1>3. FileInv'
  BY <1>1 DEF IInv, FileInv, IdsDistinct, TextsDistinct
<1>4. \A q \in Programs : pc'[q] = "closed" /\ items'[q] = {} /\ todo'[q] = {}
  BY <1>1, OthersClosed DEF IInv, MemoryTypeOK
<1> QED
  BY <1>2, <1>3, <1>4, ClosedInv DEF IInv, SoleInv

\* Adding a known text raises its importance and changes nothing else.
LEMMA AddAgainInv ==
    ASSUME IInv, NEW p \in Programs, NEW text \in Texts, NEW importance \in Importances,
           AddAgain(p, text, importance)
    PROVE  IInv'
<1>1. PICK item \in items[p] :
          items' = [items EXCEPT ![p] = (@ \ {item}) \cup {Raised(item, importance)}]
  BY DEF AddAgain
<1>2. pc[p] = "open" /\ UNCHANGED <<file, tmp, next_id, pc, todo, failed>>
  BY DEF AddAgain
<1> DEFINE new == Raised(item, importance)
<1>3. items[p] \in SUBSET Item /\ item \in Item
  BY DEF IInv, MemoryTypeOK
<1>4. importance \in Int /\ item.importance \in Int
  BY <1>3, MemoryAssumption DEF Item
<1>5. /\ new \in Item
      /\ new.id = item.id /\ new.text = item.text
      /\ item.importance <= new.importance
  BY <1>3, <1>4 DEF Raised, Item
<1>6. items'[p] = (items[p] \ {item}) \cup {new}
  BY <1>1 DEF IInv, MemoryTypeOK
<1> HIDE DEF new
<1>7. MemoryTypeOK'
  <2>1. (items[p] \ {item}) \cup {new} \in SUBSET Item
    BY <1>3, <1>5
  <2>2. items' \in [Programs -> SUBSET Item]
    BY <1>1, <2>1 DEF IInv, MemoryTypeOK, new
  <2> QED
    BY <1>2, <2>2 DEF IInv, MemoryTypeOK
<1>8. FileInv'
  BY <1>2 DEF IInv, FileInv, IdsDistinct, TextsDistinct
<1>9. SoleInv'
  BY <1>2 DEF IInv, SoleInv
<1>10. \A q \in Programs : q # p => pc'[q] = "closed" /\ items'[q] = {} /\ todo'[q] = {}
  BY <1>1, <1>2, OthersClosed DEF IInv, MemoryTypeOK
<1>11. ItemsDistinct(p)'
  <2>1. ItemsDistinct(p)
    BY DEF IInv, ProgramInv
  <2> QED
    BY <1>2, <1>5, <1>6, <2>1 DEF ItemsDistinct
<1>12. Fresh(p)'
  <2>1. Fresh(p)
    BY DEF IInv, ProgramInv
  <2> QED
    BY <1>2, <1>5, <1>6, <2>1 DEF Fresh
<1>13. SavedLower(p)'
  <2> SUFFICES ASSUME NEW i \in DOMAIN file, NEW x \in items'[p], file[i].id = x.id
               PROVE  file[i].importance <= x.importance
    BY <1>2 DEF SavedLower
  <2>1. SavedLower(p)
    BY DEF IInv, ProgramInv
  <2>2. CASE x = new
    <3>1. file[i].importance <= item.importance
      BY <1>5, <2>1, <2>2 DEF SavedLower
    <3>2. file[i] \in Item
      BY DEF IInv, MemoryTypeOK
    <3>3. file[i].importance \in Int /\ new.importance \in Int
      BY <1>5, <3>2, MemoryAssumption DEF Item
    <3> QED
      BY <1>4, <1>5, <2>2, <3>1, <3>3
  <2> QED
    BY <1>6, <2>1, <2>2 DEF SavedLower
<1>14. Entries(items'[p]) = Entries(items[p])
  <2>1. Entries({new}) = Entries({item})
    BY <1>5, EntriesOfOne
  <2>2. Entries(items[p]) = Entries(items[p] \ {item}) \cup Entries({item})
    <3>1. items[p] = (items[p] \ {item}) \cup {item}
      OBVIOUS
    <3> QED
      BY <3>1, EntriesOfUnion, Zenon
  <2>3. Entries(items'[p]) = Entries(items[p] \ {item}) \cup Entries({new})
    BY <1>6, EntriesOfUnion, Zenon
  <2> QED
    BY <2>1, <2>2, <2>3
<1>15. OpenAgrees(p)'
  <2>1. OpenAgrees(p)
    BY DEF IInv, ProgramInv
  <2> QED
    BY <1>2, <1>14, <2>1 DEF OpenAgrees
<1>16. Quiet(p)'
  BY <1>2 DEF IInv, ProgramInv, Quiet
<1>17. ProgramInv(p)'
  BY <1>2, <1>11, <1>12, <1>13, <1>15, <1>16 DEF ProgramInv, AppendingAgrees, CopyingAgrees
<1> QED
  BY <1>7, <1>8, <1>9, <1>10, <1>17, ClosedInv DEF IInv

LEMMA AddNewInv ==
    ASSUME IInv, NEW p \in Programs, NEW text \in Texts, NEW importance \in Importances,
           AddNew(p, text, importance)
    PROVE  IInv'
<1> DEFINE item == [id |-> next_id[p], text |-> text, importance |-> importance]
<1>1. /\ pc[p] = "open" /\ next_id[p] <= MaxId
      /\ \A x \in items[p] : x.text # text
      /\ items' = [items EXCEPT ![p] = @ \cup {item}]
      /\ todo' = [todo EXCEPT ![p] = {item}]
      /\ next_id' = [next_id EXCEPT ![p] = @ + 1]
      /\ pc' = [pc EXCEPT ![p] = "appending"]
      /\ UNCHANGED <<file, tmp, failed>>
  BY DEF AddNew
<1>2. /\ items[p] \in SUBSET Item
      /\ next_id[p] \in 1..(MaxId + 1)
      /\ file \in Seq(Item)
  BY DEF IInv, MemoryTypeOK
<1>3. next_id[p] \in Ids /\ next_id[p] + 1 \in 1..(MaxId + 1)
  BY <1>1, <1>2, MemoryAssumption DEF Ids
<1>4. item \in Item /\ item.id = next_id[p] /\ item.text = text
  BY <1>3 DEF Item
<1>5. /\ items'[p] = items[p] \cup {item}
      /\ todo'[p] = {item}
      /\ next_id'[p] = next_id[p] + 1
      /\ pc'[p] = "appending"
  BY <1>1 DEF IInv, MemoryTypeOK
<1> HIDE DEF item
<1>6. MemoryTypeOK'
  <2>1. items' \in [Programs -> SUBSET Item]
    BY <1>1, <1>2, <1>4 DEF IInv, MemoryTypeOK
  <2>2. todo' \in [Programs -> SUBSET Item]
    BY <1>1, <1>4 DEF IInv, MemoryTypeOK
  <2>3. next_id' \in [Programs -> 1..(MaxId + 1)]
    BY <1>1, <1>3 DEF IInv, MemoryTypeOK
  <2>4. pc' \in [Programs -> {"closed", "open", "appending", "copying"}]
    BY <1>1 DEF IInv, MemoryTypeOK
  <2> QED
    BY <1>1, <2>1, <2>2, <2>3, <2>4 DEF IInv, MemoryTypeOK
<1>7. FileInv'
  BY <1>1 DEF IInv, FileInv, IdsDistinct, TextsDistinct
<1>8. \A q \in Programs : q # p => pc'[q] = "closed" /\ items'[q] = {} /\ todo'[q] = {}
  BY <1>1, OthersClosed DEF IInv, MemoryTypeOK
<1>9. SoleInv'
  BY <1>8 DEF SoleInv
<1>10. /\ \A x \in items[p] : x.id \in Int /\ x.id < item.id
       /\ \A i \in DOMAIN file : file[i].id \in Int /\ file[i].id < item.id
  <2>1. Fresh(p)
    BY DEF IInv, ProgramInv
  <2>2. \A x \in Item : x.id \in Int
    BY DEF Item, Ids
  <2> QED
    BY <1>1, <1>2, <1>4, <2>1, <2>2 DEF Fresh
<1>11. ItemsDistinct(p)'
  <2>1. ItemsDistinct(p)
    BY DEF IInv, ProgramInv
  <2>2. \A x \in items[p] : x.id # item.id /\ x.text # item.text
    BY <1>1, <1>2, <1>4, <1>10
  <2> QED
    BY <1>1, <1>5, <2>1, <2>2 DEF ItemsDistinct
<1>12. Fresh(p)'
  <2>1. item.id < next_id[p] + 1 /\ item.id \in Int
    BY <1>2, <1>4
  <2>2. \A x \in items[p] \cup {item} : x.id < next_id[p] + 1
    BY <1>2, <1>4, <1>10, <2>1
  <2>3. \A i \in DOMAIN file : file[i].id < next_id[p] + 1
    BY <1>2, <1>4, <1>10, <2>1
  <2> QED
    BY <1>1, <1>5, <2>2, <2>3 DEF Fresh
<1>13. SavedLower(p)'
  <2>1. SavedLower(p)
    BY DEF IInv, ProgramInv
  <2>2. \A i \in DOMAIN file : file[i].id # item.id
    BY <1>2, <1>4, <1>10
  <2> QED
    BY <1>1, <1>5, <2>1, <2>2 DEF SavedLower
<1>14. AppendingAgrees(p)'
  <2>1. items'[p] \ {item} = items[p]
    BY <1>1, <1>4, <1>5
  <2>2. ASSUME ~failed
        PROVE  /\ Entries(items[p]) = Entries(Lines(file))
               /\ \A i \in DOMAIN file : file[i].text # item.text
    <3>1. Entries(items[p]) = Entries(Lines(file))
      BY <1>1, <2>2 DEF IInv, ProgramInv, OpenAgrees
    <3>2. ASSUME NEW i \in DOMAIN file
          PROVE  file[i].text # item.text
      <4>1. [id |-> file[i].id, text |-> file[i].text] \in Entries(Lines(file))
        BY Zenon DEF Entries, Lines
      <4>2. PICK x \in items[p] :
                [id |-> file[i].id, text |-> file[i].text] = [id |-> x.id, text |-> x.text]
        BY <3>1, <4>1, Zenon DEF Entries
      <4>3. file[i].text = x.text
        BY <4>2
      <4> QED
        BY <1>1, <1>4, <4>3
    <3> QED
      BY <3>1, <3>2
  <2> QED
    BY <1>1, <1>5, <1>10, <2>1, <2>2 DEF AppendingAgrees
<1>15. ProgramInv(p)'
  BY <1>5, <1>11, <1>12, <1>13, <1>14 DEF ProgramInv, Quiet, OpenAgrees, CopyingAgrees
<1> QED
  BY <1>6, <1>7, <1>8, <1>9, <1>15, ClosedInv DEF IInv

LEMMA AppendLineInv ==
    ASSUME IInv, NEW p \in Programs, AppendLine(p)
    PROVE  IInv'
<1>1. /\ pc[p] = "appending"
      /\ \/ (\E x \in todo[p] : file' = Append(file, x)) /\ UNCHANGED failed
         \/ failed' = TRUE /\ UNCHANGED file
      /\ todo' = [todo EXCEPT ![p] = {}]
      /\ pc' = [pc EXCEPT ![p] = "open"]
      /\ UNCHANGED <<tmp, items, next_id>>
  BY DEF AppendLine
<1>2. AppendingAgrees(p)
  BY DEF IInv, ProgramInv
<1>3. PICK item \in items[p] :
          /\ todo[p] = {item}
          /\ \A i \in DOMAIN file : file[i].id < item.id
          /\ ~failed =>
                /\ \A i \in DOMAIN file : file[i].text # item.text
                /\ Entries(items[p] \ {item}) = Entries(Lines(file))
  BY <1>1, <1>2 DEF AppendingAgrees
<1>4. /\ file \in Seq(Item) /\ item \in Item
      /\ items[p] \in SUBSET Item
      /\ IdsDistinct(file)
      /\ ~failed => TextsDistinct(file)
  BY DEF IInv, MemoryTypeOK, FileInv
<1>5. \/ file' = Append(file, item) /\ UNCHANGED failed
      \/ failed' = TRUE /\ UNCHANGED file
  BY <1>1, <1>3
<1>6. \A i \in DOMAIN file : file[i].id # item.id
  <2>1. \A x \in Item : x.id \in Int
    BY DEF Item, Ids
  <2> QED
    BY <1>3, <1>4, <2>1
<1>7. /\ Append(file, item) \in Seq(Item)
      /\ IdsDistinct(Append(file, item))
      /\ ~failed => TextsDistinct(Append(file, item))
  BY <1>3, <1>4, <1>6, LinesAppended, AppendedDistinct, AppendedTexts
<1>8. MemoryTypeOK'
  <2>1. file' \in Seq(Item) /\ failed' \in BOOLEAN
    BY <1>4, <1>5, <1>7 DEF IInv, MemoryTypeOK
  <2>2. pc' \in [Programs -> {"closed", "open", "appending", "copying"}]
    BY <1>1 DEF IInv, MemoryTypeOK
  <2>3. todo' \in [Programs -> SUBSET Item]
    BY <1>1 DEF IInv, MemoryTypeOK
  <2> QED
    BY <1>1, <2>1, <2>2, <2>3 DEF IInv, MemoryTypeOK
<1>9. FileInv'
  <2>1. CASE file' = Append(file, item) /\ UNCHANGED failed
    BY <1>7, <2>1 DEF FileInv
  <2>2. CASE failed' = TRUE /\ UNCHANGED file
    BY <1>4, <2>2 DEF FileInv, IdsDistinct
  <2> QED
    BY <1>5, <2>1, <2>2
<1>10. \A q \in Programs : q # p => pc'[q] = "closed" /\ items'[q] = {} /\ todo'[q] = {}
  BY <1>1, OthersClosed DEF IInv, MemoryTypeOK
<1>11. SoleInv'
  BY <1>10 DEF SoleInv
<1>12. /\ pc'[p] = "open" /\ todo'[p] = {} /\ items'[p] = items[p] /\ next_id'[p] = next_id[p]
  BY <1>1 DEF IInv, MemoryTypeOK
\* What the file now holds comes from what it held and the new item.
<1>13. \A i \in DOMAIN file' :
          file'[i] = item \/ \E j \in DOMAIN file : file'[i] = file[j]
  BY <1>4, <1>5, LinesAppended
<1>14. ItemsDistinct(p)'
  <2>1. ItemsDistinct(p)
    BY DEF IInv, ProgramInv
  <2>2. failed => failed'
    BY <1>5
  <2> QED
    BY <1>12, <2>1, <2>2 DEF ItemsDistinct
<1>15. Fresh(p)'
  <2>1. Fresh(p)
    BY DEF IInv, ProgramInv
  <2> QED
    BY <1>1, <1>12, <1>13, <2>1 DEF Fresh
<1>16. SavedLower(p)'
  <2> SUFFICES ASSUME NEW i \in DOMAIN file', NEW x \in items[p], file'[i].id = x.id
               PROVE  file'[i].importance <= x.importance
    BY <1>12 DEF SavedLower
  <2>1. CASE file'[i] = item
    <3>1. x = item
      BY <2>1 DEF IInv, ProgramInv, ItemsDistinct
    <3>2. item.importance \in Int
      BY <1>4, MemoryAssumption DEF Item
    <3> QED
      BY <2>1, <3>1, <3>2
  <2>2. CASE \E j \in DOMAIN file : file'[i] = file[j]
    BY <2>2 DEF IInv, ProgramInv, SavedLower
  <2> QED
    BY <1>13, <2>1, <2>2
<1>17. OpenAgrees(p)'
  <2> SUFFICES ASSUME failed' = FALSE
               PROVE  Entries(items[p]) = Entries(Lines(file'))
    BY <1>8, <1>12 DEF OpenAgrees, MemoryTypeOK
  <2>1. file' = Append(file, item) /\ ~failed
    BY <1>5
  <2>2. Lines(file') = Lines(file) \cup {item}
    BY <1>4, <2>1, LinesAppended
  <2>3. items[p] = (items[p] \ {item}) \cup {item}
    BY <1>3
  <2>4. Entries(items[p]) = Entries(items[p] \ {item}) \cup Entries({item})
    BY <2>3, EntriesOfUnion, Zenon
  <2>5. Entries(Lines(file')) = Entries(Lines(file)) \cup Entries({item})
    BY <2>2, EntriesOfUnion, Zenon
  <2> QED
    BY <1>3, <2>1, <2>4, <2>5
<1>18. ProgramInv(p)'
  BY <1>12, <1>14, <1>15, <1>16, <1>17 DEF ProgramInv, Quiet, AppendingAgrees, CopyingAgrees
<1> QED
  BY <1>8, <1>9, <1>10, <1>11, <1>18, ClosedInv DEF IInv

LEMMA ForgetItemInv ==
    ASSUME IInv, NEW p \in Programs, NEW item \in items[p], ForgetItem(p, item)
    PROVE  IInv'
<1>1. /\ pc[p] = "open"
      /\ items' = [items EXCEPT ![p] = @ \ {item}]
      /\ \/ /\ tmp' = << >>
            /\ todo' = [todo EXCEPT ![p] = items[p] \ {item}]
            /\ pc' = [pc EXCEPT ![p] = "copying"]
            /\ UNCHANGED failed
         \/ failed' = TRUE /\ UNCHANGED <<tmp, todo, pc>>
      /\ UNCHANGED <<file, next_id>>
  BY DEF ForgetItem
<1>2. items[p] \in SUBSET Item /\ items'[p] = items[p] \ {item} /\ next_id'[p] = next_id[p]
  BY <1>1 DEF IInv, MemoryTypeOK
<1>3. MemoryTypeOK'
  <2>1. tmp' \in Seq(Item)
    <3>1. << >> \in Seq(Item) /\ tmp \in Seq(Item)
      BY DEF IInv, MemoryTypeOK
    <3> QED
      BY <1>1, <3>1
  <2>2. items' \in [Programs -> SUBSET Item]
    BY <1>1, <1>2 DEF IInv, MemoryTypeOK
  <2>3. todo' \in [Programs -> SUBSET Item]
    BY <1>1, <1>2 DEF IInv, MemoryTypeOK
  <2>4. pc' \in [Programs -> {"closed", "open", "appending", "copying"}]
    BY <1>1 DEF IInv, MemoryTypeOK
  <2>5. failed' \in BOOLEAN
    BY <1>1 DEF IInv, MemoryTypeOK
  <2> QED
    BY <1>1, <2>1, <2>2, <2>3, <2>4, <2>5 DEF IInv, MemoryTypeOK
<1>4. failed => failed'
  BY <1>1
<1>5. FileInv'
  BY <1>1, <1>4 DEF IInv, FileInv, IdsDistinct, TextsDistinct
<1>6. \A q \in Programs : q # p => pc'[q] = "closed" /\ items'[q] = {} /\ todo'[q] = {}
  BY <1>1, OthersClosed DEF IInv, MemoryTypeOK
<1>7. SoleInv'
  BY <1>6 DEF SoleInv
<1>8. ItemsDistinct(p)'
  BY <1>2, <1>4 DEF IInv, ProgramInv, ItemsDistinct
<1>9. Fresh(p)'
  BY <1>1, <1>2 DEF IInv, ProgramInv, Fresh
<1>10. SavedLower(p)'
  BY <1>1, <1>2 DEF IInv, ProgramInv, SavedLower
<1>11. CASE failed' = TRUE /\ UNCHANGED <<tmp, todo, pc>>
  <2>1. pc'[p] = "open" /\ todo'[p] = {}
    BY <1>1, <1>11 DEF IInv, ProgramInv, Quiet
  <2>2. ProgramInv(p)'
    BY <1>8, <1>9, <1>10, <1>11, <2>1
       DEF ProgramInv, Quiet, OpenAgrees, AppendingAgrees, CopyingAgrees
  <2> QED
    BY <1>3, <1>5, <1>6, <1>7, <2>2, ClosedInv DEF IInv
<1>12. CASE /\ tmp' = << >>
            /\ todo' = [todo EXCEPT ![p] = items[p] \ {item}]
            /\ pc' = [pc EXCEPT ![p] = "copying"]
            /\ UNCHANGED failed
  <2>1. pc'[p] = "copying" /\ todo'[p] = items'[p]
    BY <1>2, <1>12 DEF IInv, MemoryTypeOK
  <2>2. Lines(tmp') = {} /\ IdsDistinct(tmp')
    BY <1>12 DEF Lines, IdsDistinct
  <2>3. ASSUME ~failed
        PROVE  \E e \in Entries(Lines(file)) :
                  Entries(items'[p]) = Entries(Lines(file)) \ {e}
    <3> DEFINE e == [id |-> item.id, text |-> item.text]
    <3>1. Entries(items[p]) = Entries(Lines(file))
      BY <1>1, <2>3 DEF IInv, ProgramInv, OpenAgrees
    <3>2. e \in Entries(items[p])
      BY Zenon DEF Entries
    <3>3. \A y \in items[p] : y.id = item.id => y = item
      BY DEF IInv, ProgramInv, ItemsDistinct
    <3>4. Entries(items[p] \ {item}) = Entries(items[p]) \ {e}
      BY <1>2, <3>3, EntriesWithout
    <3> QED
      BY <1>2, <3>1, <3>2, <3>4
  <2>4. CopyingAgrees(p)'
    BY <1>1, <1>12, <2>1, <2>2, <2>3 DEF CopyingAgrees
  <2>5. ProgramInv(p)'
    BY <1>8, <1>9, <1>10, <2>1, <2>4 DEF ProgramInv, Quiet, OpenAgrees, AppendingAgrees
  <2> QED
    BY <1>3, <1>5, <1>6, <1>7, <2>5, ClosedInv DEF IInv
<1> QED
  BY <1>1, <1>11, <1>12

LEMMA CopyLineInv ==
    ASSUME IInv, NEW p \in Programs, NEW item \in todo[p], CopyLine(p, item)
    PROVE  IInv'
<1>1. /\ pc[p] = "copying"
      /\ \/ tmp' = Append(tmp, item) /\ UNCHANGED failed
         \/ failed' = TRUE /\ UNCHANGED tmp
      /\ todo' = [todo EXCEPT ![p] = @ \ {item}]
      /\ UNCHANGED <<file, items, next_id, pc>>
  BY DEF CopyLine
<1>2. CopyingAgrees(p)
  BY DEF IInv, ProgramInv
<1>3. /\ tmp \in Seq(Item) /\ item \in Item /\ item \in items[p]
      /\ todo'[p] = todo[p] \ {item}
  BY <1>1, <1>2 DEF IInv, MemoryTypeOK, CopyingAgrees
<1>4. \A i \in DOMAIN tmp : tmp[i].id # item.id
  <2> SUFFICES ASSUME NEW i \in DOMAIN tmp, tmp[i].id = item.id
               PROVE  FALSE
    OBVIOUS
  <2>1. tmp[i] \in Lines(tmp)
    BY DEF Lines
  <2>2. tmp[i] = item
    BY <1>1, <1>2, <1>3, <2>1 DEF CopyingAgrees, IInv, ProgramInv, ItemsDistinct
  <2> QED
    BY <1>1, <1>2, <2>1, <2>2 DEF CopyingAgrees
<1>5. /\ Append(tmp, item) \in Seq(Item)
      /\ Lines(Append(tmp, item)) = Lines(tmp) \cup {item}
      /\ IdsDistinct(Append(tmp, item))
  BY <1>1, <1>2, <1>3, <1>4, LinesAppended, AppendedDistinct DEF CopyingAgrees
<1>6. MemoryTypeOK'
  <2>1. tmp' \in Seq(Item) /\ failed' \in BOOLEAN
    BY <1>1, <1>3, <1>5 DEF IInv, MemoryTypeOK
  <2>2. todo' \in [Programs -> SUBSET Item]
    BY <1>1 DEF IInv, MemoryTypeOK
  <2> QED
    BY <1>1, <2>1, <2>2 DEF IInv, MemoryTypeOK
<1>7. failed => failed'
  BY <1>1
<1>8. FileInv'
  BY <1>1, <1>7 DEF IInv, FileInv, IdsDistinct, TextsDistinct
<1>9. \A q \in Programs : q # p => pc'[q] = "closed" /\ items'[q] = {} /\ todo'[q] = {}
  BY <1>1, OthersClosed DEF IInv, MemoryTypeOK
<1>10. SoleInv'
  BY <1>9 DEF SoleInv
<1>11. CopyingAgrees(p)'
  <2>1. CASE tmp' = Append(tmp, item) /\ UNCHANGED failed
    <3>1. Lines(tmp') = Lines(tmp) \cup {item} /\ IdsDistinct(tmp')
      BY <1>5, <2>1
    <3> QED
      BY <1>1, <1>2, <1>3, <2>1, <3>1 DEF CopyingAgrees
  <2>2. CASE failed' = TRUE /\ UNCHANGED tmp
    BY <1>1, <1>2, <1>3, <2>2 DEF CopyingAgrees, IdsDistinct, Lines
  <2> QED
    BY <1>1, <2>1, <2>2
<1>12. ProgramInv(p)'
  BY <1>1, <1>7, <1>11
     DEF IInv, ProgramInv, ItemsDistinct, Quiet, Fresh, SavedLower, OpenAgrees, AppendingAgrees
<1> QED
  BY <1>6, <1>8, <1>9, <1>10, <1>12, ClosedInv DEF IInv

LEMMA RenameInv ==
    ASSUME IInv, NEW p \in Programs, Rename(p)
    PROVE  IInv'
<1>1. /\ pc[p] = "copying" /\ todo[p] = {}
      /\ \/ file' = tmp /\ tmp' = << >> /\ UNCHANGED failed
         \/ failed' = TRUE /\ UNCHANGED <<file, tmp>>
      /\ pc' = [pc EXCEPT ![p] = "open"]
      /\ UNCHANGED <<items, next_id, todo>>
  BY DEF Rename
<1>2. CopyingAgrees(p)
  BY DEF IInv, ProgramInv
<1>3. /\ file \in Seq(Item) /\ tmp \in Seq(Item) /\ << >> \in Seq(Item)
      /\ IdsDistinct(tmp)
      /\ \A i \in DOMAIN tmp : tmp[i] \in items[p]
      /\ ~failed => Lines(tmp) = items[p]
  BY <1>1, <1>2 DEF IInv, MemoryTypeOK, CopyingAgrees, Lines
<1>4. failed => failed'
  BY <1>1
<1>5. MemoryTypeOK'
  <2>1. file' \in Seq(Item) /\ tmp' \in Seq(Item) /\ failed' \in BOOLEAN
    BY <1>1, <1>3 DEF IInv, MemoryTypeOK
  <2>2. pc' \in [Programs -> {"closed", "open", "appending", "copying"}]
    BY <1>1 DEF IInv, MemoryTypeOK
  <2> QED
    BY <1>1, <2>1, <2>2 DEF IInv, MemoryTypeOK
<1>6. /\ pc'[p] = "open" /\ todo'[p] = {} /\ items'[p] = items[p] /\ next_id'[p] = next_id[p]
  BY <1>1 DEF IInv, MemoryTypeOK
<1>7. ItemsDistinct(p) /\ Fresh(p) /\ SavedLower(p)
  BY DEF IInv, ProgramInv
<1>8. \A q \in Programs : q # p => pc'[q] = "closed" /\ items'[q] = {} /\ todo'[q] = {}
  BY <1>1, OthersClosed DEF IInv, MemoryTypeOK
<1>9. SoleInv'
  BY <1>8 DEF SoleInv
<1>10. ItemsDistinct(p)'
  BY <1>4, <1>6, <1>7 DEF ItemsDistinct
<1>11. CASE file' = tmp /\ tmp' = << >> /\ UNCHANGED failed
  <2>1. FileInv'
    <3>1. ~failed => TextsDistinct(tmp)
      BY <1>3, <1>7 DEF TextsDistinct, IdsDistinct, ItemsDistinct
    <3> QED
      BY <1>3, <1>11, <3>1 DEF FileInv
  <2>2. Fresh(p)'
    BY <1>1, <1>3, <1>6, <1>7, <1>11 DEF Fresh
  <2>3. SavedLower(p)'
    <3> SUFFICES ASSUME NEW i \in DOMAIN tmp, NEW x \in items[p], tmp[i].id = x.id
                 PROVE  tmp[i].importance <= x.importance
      BY <1>6, <1>11 DEF SavedLower
    <3>1. tmp[i] = x
      BY <1>3, <1>7 DEF ItemsDistinct
    <3>2. x \in Item
      BY DEF IInv, MemoryTypeOK
    <3>3. x.importance \in Int
      BY <3>2, MemoryAssumption DEF Item
    <3> QED
      BY <3>1, <3>3
  <2>4. OpenAgrees(p)'
    BY <1>3, <1>6, <1>11 DEF OpenAgrees
  <2>5. ProgramInv(p)'
    BY <1>6, <1>10, <2>2, <2>3, <2>4 DEF ProgramInv, Quiet, AppendingAgrees, CopyingAgrees
  <2> QED
    BY <1>5, <1>8, <1>9, <2>1, <2>5, ClosedInv DEF IInv
<1>12. CASE failed' = TRUE /\ UNCHANGED <<file, tmp>>
  <2>1. FileInv'
    BY <1>12 DEF IInv, FileInv, IdsDistinct
  <2>2. Fresh(p)' /\ SavedLower(p)'
    BY <1>1, <1>6, <1>7, <1>12 DEF Fresh, SavedLower
  <2>3. ProgramInv(p)'
    BY <1>6, <1>10, <1>12, <2>2 DEF ProgramInv, Quiet, OpenAgrees, AppendingAgrees, CopyingAgrees
  <2> QED
    BY <1>5, <1>8, <1>9, <2>1, <2>3, ClosedInv DEF IInv
<1> QED
  BY <1>1, <1>11, <1>12

LEMMA StepInv == IInv /\ [SoleNext]_vars => IInv'
<1> SUFFICES ASSUME IInv, [SoleNext]_vars
             PROVE  IInv'
  OBVIOUS
<1>1. CASE UNCHANGED vars
  <2>1. MemoryTypeOK' /\ SoleInv'
    BY <1>1 DEF vars, IInv, MemoryTypeOK, SoleInv
  <2>2. FileInv'
    BY <1>1 DEF vars, IInv, FileInv, IdsDistinct, TextsDistinct
  <2>3. ASSUME NEW p \in Programs
        PROVE  ProgramInv(p)'
    <3>1. ProgramInv(p)
      BY DEF IInv
    <3>2. UNCHANGED <<file, tmp, items, next_id, pc, todo, failed>>
      BY <1>1 DEF vars
    <3>3. (ItemsDistinct(p) /\ Quiet(p) /\ Fresh(p) /\ SavedLower(p))'
      BY <3>1, <3>2 DEF ProgramInv, ItemsDistinct, Quiet, Fresh, SavedLower
    <3>4. OpenAgrees(p)' /\ AppendingAgrees(p)'
      BY <3>1, <3>2 DEF ProgramInv, OpenAgrees, AppendingAgrees
    <3>5. CopyingAgrees(p)'
      <4>1. CopyingAgrees(p)
        BY <3>1 DEF ProgramInv
      <4>2. /\ tmp' = tmp /\ file' = file /\ failed' = failed
            /\ items'[p] = items[p] /\ pc'[p] = pc[p] /\ todo'[p] = todo[p]
        BY <3>2
      <4> QED
        BY <4>1, <4>2 DEF CopyingAgrees
    <3> QED
      BY <3>3, <3>4, <3>5 DEF ProgramInv
  <2> QED
    BY <2>1, <2>2, <2>3 DEF IInv
<1>2. CASE SoleNext
  <2>1. PICK p \in Programs : OpenAlone(p) \/ Work(p)
    BY <1>2 DEF SoleNext
  <2>2. CASE OpenAlone(p)
    BY <2>2, OpenInv
  <2>3. CASE Work(p)
    BY <2>3, AddAgainInv, AddNewInv, ForgetItemInv, CopyLineInv, AppendLineInv, RenameInv, ExitInv
       DEF Work
  <2> QED
    BY <2>1, <2>2, <2>3
<1> QED
  BY <1>1, <1>2

LEMMA AlwaysIInv == SoleSpec => []IInv
BY InitInv, StepInv, PTL DEF SoleSpec

-----------------------------------------------------------------------------
(* The file and what it promises.                                           *)

\* A step changes the entries on the disk as Remembered allows, or not at all.
LEMMA StepKeepsPromise ==
    ASSUME IInv, IInv', [SoleNext]_vars
    PROVE  [Promise!RNext]_(Promise!rvars)
<1>1. /\ Loaded(file) = Lines(file) /\ file \in Seq(Item)
      /\ Loaded(file') = Lines(file') /\ file' \in Seq(Item)
  BY LoadedIsAll DEF IInv, MemoryTypeOK, FileInv
<1>2. ASSUME failed' = TRUE
      PROVE  Promise!RNext
  <2>1. Lines(file') \in SUBSET Item
    BY <1>1 DEF Lines
  <2>2. \A x \in Item : [id |-> x.id, text |-> x.text] \in [id : Ids, text : Texts]
    BY DEF Item
  <2>3. Entries(Lines(file')) \subseteq [id : Ids, text : Texts]
    BY <2>1, <2>2 DEF Entries
  <2>4. Entries(Loaded(file'))  \subseteq Promise!Entry
    BY <1>1, <2>3 DEF Promise!Entry
  <2> QED
    BY <1>2, <2>4, Zenon DEF Promise!RNext, Promise!BreakDown, Loaded, Entries
<1>3. CASE file' = file /\ failed' = failed
  BY <1>3, Zenon DEF Promise!rvars
<1>4. ASSUME NEW p \in Programs, AppendLine(p), failed' # TRUE
      PROVE  Promise!RNext
  <2>1. PICK item \in items[p] :
            /\ todo[p] = {item}
            /\ \A i \in DOMAIN file : file[i].id < item.id
            /\ ~failed => \A i \in DOMAIN file : file[i].text # item.text
    BY <1>4 DEF AppendLine, IInv, ProgramInv, AppendingAgrees
  <2>2. file' = Append(file, item) /\ failed' = failed
    BY <1>4, <2>1 DEF AppendLine
  <2>3. item \in Item /\ item.id \in Ids /\ item.text \in Texts /\ failed = FALSE
    <3>1. item \in Item /\ failed \in BOOLEAN
      BY DEF IInv, MemoryTypeOK
    <3> QED
      BY <1>4, <2>2, <3>1 DEF Item
  <2>4. Lines(file') = Lines(file) \cup {item}
    BY <1>1, <2>2, <2>3, LinesAppended
  <2>5. Entries(Loaded(file')) = Entries(Loaded(file)) \cup {[id |-> item.id, text |-> item.text]}
    <3>1. Entries(Lines(file) \cup {item}) = Entries(Lines(file)) \cup Entries({item})
      BY EntriesOfUnion, Zenon
    <3>2. Entries({item}) = {[id |-> item.id, text |-> item.text]}
      BY EntriesOfOne, Zenon
    <3> QED
      BY <1>1, <2>4, <3>1, <3>2
  <2>6. \A i \in DOMAIN file : file[i].id # item.id /\ file[i].text # item.text
    <3>1. \A i \in DOMAIN file : file[i].id \in Int
      <4>1. \A i \in DOMAIN file : file[i] \in Item
        BY <1>1
      <4> QED
        BY <4>1 DEF Item, Ids
    <3> QED
      BY <2>1, <2>3, <3>1 DEF Ids
  <2>7. \A e \in Entries(Loaded(file)) : e.id # item.id /\ e.text # item.text
    BY <1>1, <2>6 DEF Entries, Lines
  <2>8. Promise!Remember(item.id, item.text)
    BY <2>2, <2>3, <2>5, <2>7 DEF Promise!Remember
  <2> QED
    BY <2>3, <2>8 DEF Promise!RNext
<1>5. ASSUME NEW p \in Programs, Rename(p), failed' # TRUE
      PROVE  Promise!RNext
  <2>1. file' = tmp /\ failed' = failed /\ todo[p] = {} /\ pc[p] = "copying"
    BY <1>5 DEF Rename
  <2>2. failed = FALSE
    BY <1>5, <2>1 DEF IInv, MemoryTypeOK
  <2>3. CopyingAgrees(p)
    BY DEF IInv, ProgramInv
  <2>4. /\ Lines(tmp) = items[p]
        /\ \E e \in Entries(Lines(file)) : Entries(items[p]) = Entries(Lines(file)) \ {e}
    BY <2>1, <2>2, <2>3 DEF CopyingAgrees
  <2>5. PICK e \in Entries(Loaded(file)) :
            Entries(Loaded(file')) = Entries(Loaded(file)) \ {e}
    BY <1>1, <2>1, <2>4
  <2>6. Promise!Forget(e)
    BY <2>1, <2>2, <2>5 DEF Promise!Forget
  <2> QED
    BY <2>5, <2>6 DEF Promise!RNext
<1>6. ASSUME NEW p \in Programs, OpenAlone(p) \/ Work(p), failed' # TRUE
      PROVE  \/ file' = file /\ failed' = failed
             \/ AppendLine(p)
             \/ Rename(p)
  BY <1>6 DEF OpenAlone, Open, Work, AddAgain, AddNew, ForgetItem, CopyLine, Exit
<1> QED
  BY <1>2, <1>3, <1>4, <1>5, <1>6 DEF SoleNext, vars

-----------------------------------------------------------------------------
(* Theorems.                                                                *)

\* The variables keep their types.
THEOREM MemoryTypeCorrect == SoleSpec => []MemoryTypeOK
<1>1. IInv => MemoryTypeOK
  BY DEF IInv
<1> QED
  BY <1>1, AlwaysIInv, PTL

\* Between two operations list and file hold the same entries, whatever crashed
\* before, for programs that take turns (memory.cpp:138-240).
THEOREM ListAndFileAgree == SoleSpec => []MemoryAgrees
<1>1. IInv => MemoryAgrees
  <2> SUFFICES ASSUME IInv, NEW p \in Programs, ~failed, pc[p] = "open"
               PROVE  /\ Entries(items[p]) = Entries(Loaded(file))
                      /\ \A old \in Loaded(file), new \in items[p] :
                            old.id = new.id => old.importance <= new.importance
    BY DEF MemoryAgrees
  <2>1. Loaded(file) = Lines(file)
    BY LoadedIsAll DEF IInv, MemoryTypeOK, FileInv
  <2>2. OpenAgrees(p) /\ SavedLower(p)
    BY DEF IInv, ProgramInv
  <2> QED
    BY <2>1, <2>2 DEF OpenAgrees, SavedLower, Lines
<1> QED
  BY <1>1, AlwaysIInv, PTL

\* No id names two items, and no text is held twice until a write fails
\* (memory.cpp:207-228).
THEOREM ItemsAreDistinct == SoleSpec => []NoDuplicates
<1>1. IInv => NoDuplicates
  BY DEF IInv, ProgramInv, ItemsDistinct, NoDuplicates
<1> QED
  BY <1>1, AlwaysIInv, PTL

\* The memory is sound: list and file agree and no item is held twice (memory.cpp:138-240).
THEOREM MemoryStaysSound == SoleSpec => []MemorySound
<1>1. MemoryAgrees /\ NoDuplicates => MemorySound
  BY DEF MemorySound
<1> QED
  BY <1>1, ListAndFileAgree, ItemsAreDistinct, PTL

\* The file changes by whole entries only, one added or one forgotten: a crash
\* anywhere in an addition or a rewrite costs nothing else (memory.cpp:181-240).
THEOREM PromiseIsKept == SoleSpec => KeepsPromise
<1>1. Init => Promise!RInit
  <2> SUFFICES ASSUME Init
               PROVE  Entries(Loaded(file)) = {} /\ failed = FALSE
    BY DEF Promise!RInit
  <2>1. Loaded(file) = {}
    BY DEF Init, Loaded
  <2> QED
    BY <2>1 DEF Init, Entries
<1>2. IInv /\ IInv' /\ [SoleNext]_vars => [Promise!RNext]_(Promise!rvars)
  BY StepKeepsPromise
<1> QED
  BY <1>1, <1>2, AlwaysIInv, PTL DEF SoleSpec, KeepsPromise, Promise!RSpec

=============================================================================
