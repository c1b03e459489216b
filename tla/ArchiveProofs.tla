---------------------------- MODULE ArchiveProofs ----------------------------
(***************************************************************************)
(* Proofs about what the program keeps beside its weights, and computes    *)
(* with them: the index of a repository, for any files, embedders, batches *)
(* and edits; the kernels over packed weights, for any codes and any row;  *)
(* and the samples a model writes for its own training, for any pools,     *)
(* sizes of a round, scores and caps.                                      *)
(***************************************************************************)
EXTENDS CodebaseIndex, QuantKernels, SelfGen, SequenceTheorems, FiniteSetTheorems, WellFoundedInduction, TLAPS

(* Counting and iterating.                                                 *)

\* What holds at 0 and is handed on from one number to the next holds up to n.
LEMMA UpTo ==
    ASSUME NEW n \in Nat, NEW good, 0 \in good,
           \A i \in 1..n : i - 1 \in good => i \in good
    PROVE  \A i \in 0..n : i \in good
<1> DEFINE bad == {i \in 0..n : i \notin good}
<1>1. SUFFICES ASSUME bad # {} PROVE FALSE
  OBVIOUS
<1>2. bad \in SUBSET Nat
  OBVIOUS
<1>3. PICK m \in bad : \A k \in bad : ~(<<k, m>> \in OpToRel(<, Nat))
  BY <1>1, <1>2, NatLessThanWellFounded, WFMin
<1>4. \A k \in bad : ~(k < m)
  BY <1>2, <1>3 DEF OpToRel
<1>5. m # 0 /\ m \in 0..n /\ m \notin good
  OBVIOUS
<1>6. m \in 1..n /\ m - 1 \in 0..n /\ m - 1 < m
  BY <1>5
<1>7. m - 1 \in good
  BY <1>4, <1>6
<1> QED BY <1>5, <1>6, <1>7

\* The positions of a run of chunks, in order, are the run.
LEMMA AscendingRun ==
    ASSUME NEW b \in Nat, NEW n \in Nat
    PROVE  Ascending((b + 1)..(b + n)) = [k \in 1..n |-> b + k]
<1> DEFINE N == (b + 1)..(b + n)
<1>1. Cardinality(N) = n
  BY FS_Interval
<1>2. ASSUME NEW x \in N PROVE Cardinality({m \in N : m < x}) = x - b - 1
  <2>1. {m \in N : m < x} = (b + 1)..(x - 1)
    OBVIOUS
  <2>2. x - 1 \in Int /\ b + 1 \in Int /\ x >= b + 1
    OBVIOUS
  <2>3. Cardinality((b + 1)..(x - 1)) = IF b + 1 > x - 1 THEN 0 ELSE (x - 1) - (b + 1) + 1
    BY ONLY <2>2, FS_Interval
  <2>4. (IF b + 1 > x - 1 THEN 0 ELSE (x - 1) - (b + 1) + 1) = x - b - 1
    BY <2>2
  <2> QED BY <2>1, <2>3, <2>4
<1>3. ASSUME NEW k \in 1..n
      PROVE  (CHOOSE x \in N : Cardinality({m \in N : m < x}) = k - 1) = b + k
  <2>1. b + k \in N /\ \A x \in N : x - b - 1 = k - 1 => x = b + k
    OBVIOUS
  <2>2. \A x \in N : Cardinality({m \in N : m < x}) = k - 1 <=> x = b + k
    BY <1>2, <2>1
  <2> HIDE DEF N
  <2> QED BY <2>1, <2>2
<1> HIDE DEF N
<1>4. Ascending(N) = [k \in 1..n |-> b + k]
  BY <1>1, <1>3 DEF Ascending
<1> QED BY <1>4 DEF N

\* A list of positions lists each of the set once.
LEMMA AscendingLists ==
    ASSUME NEW N \in SUBSET Nat, IsFiniteSet(N)
    PROVE  /\ Ascending(N) \in [1..Cardinality(N) -> N]
           /\ Cardinality(N) \in Nat
           /\ \A j, k \in 1..Cardinality(N) : Ascending(N)[j] = Ascending(N)[k] => j = k
           /\ \A x \in N : \E k \in 1..Cardinality(N) : Ascending(N)[k] = x
<1> DEFINE c == Cardinality(N)
           size == [x \in N |-> Cardinality({m \in N : m < x})]
           rank == [x \in N |-> size[x] + 1]
<1>1. c \in Nat
  BY FS_CardinalityType
<1>2. \A x \in N : size[x] = Cardinality({m \in N : m < x})
  OBVIOUS
<1>3. \A k \in 1..c : Ascending(N)[k] = CHOOSE x \in N : size[x] = k - 1
  <2>1. ASSUME NEW k \in 1..c
        PROVE  (CHOOSE x \in N : Cardinality({m \in N : m < x}) = k - 1) = CHOOSE x \in N : size[x] = k - 1
    BY Zenon
  <2>2. Ascending(N) = [k \in 1..c |-> CHOOSE x \in N : Cardinality({m \in N : m < x}) = k - 1]
    BY DEF Ascending
  <2> QED BY <2>1, <2>2
<1>4. Ascending(N) = [k \in 1..c |-> Ascending(N)[k]]
  <2> DEFINE pick(k) == CHOOSE x \in N : Cardinality({m \in N : m < x}) = k - 1
  <2>1. Ascending(N) = [k \in 1..c |-> pick(k)]
    BY DEF Ascending
  <2> HIDE DEF pick, c
  <2> QED BY <2>1
<1>5. ASSUME NEW S \in SUBSET N PROVE IsFiniteSet(S) /\ Cardinality(S) \in Nat
  BY FS_Subset, FS_CardinalityType
<1>6. ASSUME NEW x \in N, NEW S \in SUBSET N, x \in S, \A m \in N : m < x => m \in S
      PROVE  size[x] \in Nat /\ size[x] < Cardinality(S)
  <2> DEFINE below == {m \in N : m < x}
  <2>1. below \in SUBSET S /\ below \in SUBSET N
    BY <1>6
  <2>5. x \in Nat /\ x \notin below
    OBVIOUS
  <2>2. size[x] = Cardinality(below)
    BY <1>2
  <2> HIDE DEF below
  <2>3. /\ Cardinality(below) <= Cardinality(S)
        /\ Cardinality(S) = Cardinality(below) => S = below
    BY <1>5, <2>1, FS_Subset
  <2>4. Cardinality(below) \in Nat /\ Cardinality(S) \in Nat
    BY <1>5, <2>1
  <2> QED BY <1>6, <2>1, <2>2, <2>3, <2>4, <2>5
<1>7. ASSUME NEW x \in N, NEW y \in N, x < y PROVE size[x] < size[y]
  <2> DEFINE S == {m \in N : m < y}
  <2>1. S \in SUBSET N /\ x \in S /\ (\A m \in N : m < x => m \in S) /\ size[y] = Cardinality(S)
    BY <1>2, <1>7
  <2> HIDE DEF S
  <2> QED BY <1>6, <2>1
<1>8. \A x \in N : size[x] \in Nat /\ size[x] < c
  BY <1>6
<1>9. rank \in [N -> 1..c] /\ \A x, y \in N : rank[x] = rank[y] => x = y
  <2> HIDE DEF size
  <2>1. \A x \in N : rank[x] = size[x] + 1
    OBVIOUS
  <2>2. \A x \in N : rank[x] \in 1..c
    BY <1>1, <1>8, <2>1
  <2>3. ASSUME NEW x \in N, NEW y \in N, rank[x] = rank[y] PROVE x = y
    <3>1. size[x] = size[y] /\ size[x] \in Nat
      BY <1>8, <2>1, <2>3
    <3>2. ~(x < y) /\ ~(y < x)
      BY <1>7, <3>1
    <3>3. x \in Nat /\ y \in Nat
      OBVIOUS
    <3> QED BY <3>2, <3>3
  <2> QED BY <2>2, <2>3
<1> HIDE DEF size
<1>10. \A x \in N : rank[x] = size[x] + 1
  OBVIOUS
<1> HIDE DEF rank, c
<1>11. \A k \in 1..c : \E x \in N : rank[x] = k
  <2>1. rank \in Injection(N, 1..c)
    BY <1>9 DEF Injection, IsInjective
  <2>2. IsFiniteSet(1..c) /\ Cardinality(1..c) = Cardinality(N)
    BY <1>1, FS_Interval DEF c
  <2>3. rank \in Surjection(N, 1..c)
    BY <2>1, <2>2, FS_Injection
  <2> QED BY <2>3 DEF Surjection
<1>12. ASSUME NEW k \in 1..c PROVE Ascending(N)[k] \in N /\ rank[Ascending(N)[k]] = k
  <2>0. PICK y \in N : rank[y] = k
    BY <1>11
  <2>1. size[y] = k - 1
    BY <1>8, <1>10, <2>0
  <2> DEFINE x == CHOOSE z \in N : size[z] = k - 1
  <2>2. x \in N /\ size[x] = k - 1
    BY <2>1, Zenon
  <2>3. Ascending(N)[k] = x
    BY <1>3
  <2> HIDE DEF x
  <2> QED BY <1>1, <1>10, <2>2, <2>3
<1>13. Ascending(N) \in [1..c -> N]
  BY <1>4, <1>12
<1>14. ASSUME NEW x \in N PROVE \E k \in 1..c : Ascending(N)[k] = x
  <2>1. rank[x] \in 1..c
    BY <1>9
  <2>2. Ascending(N)[rank[x]] \in N /\ rank[Ascending(N)[rank[x]]] = rank[x]
    BY <1>12, <2>1
  <2> QED BY <1>9, <2>1, <2>2
<1>15. \A j, k \in 1..c : Ascending(N)[j] = Ascending(N)[k] => j = k
  BY <1>12
<1> QED BY <1>1, <1>13, <1>14, <1>15 DEF c
-----------------------------------------------------------------------------
(* The index of a repository (CodebaseIndex).                              *)

TextFile == [time : Nat, kind : TextKinds]
Entry == [path : Files, file : [time : Nat, kind : FileKinds]]
Chunk == [path : Files, text : Nat, n : Nat]

\* What a walk at some earlier time may have found: each path once.
Listed(now, es) ==
    /\ es \in Seq(Entry)
    /\ \A k \in 1..Len(es) : es[k].file.time <= now
    /\ \A j, k \in 1..Len(es) : es[j].path = es[k].path => j = k

\* The chunks of path p are those of the reading g, side by side after position b.
ReadAt(chunks, p, b, g) ==
    /\ Places(chunks)[p] = (b + 1)..(b + ChunkCount[g.kind])
    /\ \A n \in 1..ChunkCount[g.kind] : chunks[b + n] = [path |-> p, text |-> g.time, n |-> n]

\* Every chunk belongs to a recorded file, and every recorded file has the chunks of one
\* reading, which is the recorded one as long as the file on the disk is.
Truthful(d, now, chunks, files) ==
    /\ chunks \in Seq(Chunk) /\ Listed(now, files)
    /\ \A i \in 1..Len(chunks) : \E k \in 1..Len(files) : files[k].path = chunks[i].path
    /\ \A k \in 1..Len(files) : \E b \in Nat, g \in TextFile :
          /\ ReadAt(chunks, files[k].path, b, g) /\ g.time <= now
          /\ d[files[k].path] = files[k].file => g = files[k].file

\* SidesAgree of an index and an embedder.
Rowed(ix, e) ==
    /\ ix.inv = ix.chunks /\ ix.by_path = Places(ix.chunks)
    /\ ix.dense = [i \in DOMAIN ix.chunks |-> Row(ix.chunks[i], e)]

\* The positions the chunks were copied from hold the same chunks.
Copied(old, chunks, src) ==
    /\ src \in Seq(Nat) /\ Len(src) = Len(chunks)
    /\ \A i \in 1..Len(src) :
          src[i] > 0 => src[i] \in 1..Len(old) /\ old[src[i]] = chunks[i]

\* The texts among the first n entries are recorded, unless they changed since.
Recorded(d, es, n, files) ==
    \A k \in 1..n : d[es[k].path] = es[k].file /\ es[k].file.kind \in TextKinds =>
        \E j \in 1..Len(files) : files[j] = es[k]

\* What is recorded is among the first n entries.
Taken(es, n, files) == \A j \in 1..Len(files) : \E k \in 1..n : files[j] = es[k]

IsIndex(ix) == ix = [chunks |-> ix.chunks, dense |-> ix.dense, inv |-> ix.inv,
                     by_path |-> ix.by_path, files |-> ix.files]

IsJob(now, j) ==
    /\ j = [name |-> j.name, old |-> j.old, entries |-> j.entries, base |-> j.base,
            src |-> j.src, full |-> j.full]
    /\ j.name \in {"scan", "refresh"} /\ IsIndex(j.old)
    /\ Listed(now, j.entries) /\ j.base \in 0..Len(j.entries)

\* A job that may rely on the index it started from.
Sound == whole \/ job.name = "scan"

IndexTypes ==
    /\ edits \in Nat
    /\ disk \in [Files -> {Missing} \cup [time : 0..edits, kind : FileKinds]]
    /\ IsIndex(index) /\ Listed(edits, walked)
    /\ job # NoJob => IsJob(edits, job)

Settled ==
    job = NoJob /\ whole =>
        /\ Rowed(index, embedder) /\ Truthful(disk, edits, index.chunks, index.files)
        /\ Recorded(disk, walked, Len(walked), index.files)

\* In the middle of a job the chunks so far are as truthful as those of a settled index,
\* and the entries handled so far are the ones they come from.
Merged(ix, src, full, n) ==
    /\ Truthful(disk, edits, ix.chunks, ix.files)
    /\ Copied(job.old.chunks, ix.chunks, src)
    /\ Taken(job.entries, n, ix.files)
    /\ ~full => Recorded(disk, job.entries, n, ix.files)

Running ==
    job # NoJob /\ Sound =>
        /\ Rowed(job.old, embedder)
        /\ Truthful(disk, edits, job.old.chunks, job.old.files)
        /\ Merged(index, job.src, job.full, job.base)

CacheIsTrue ==
    cache.state = "good" =>
        /\ Truthful(disk, edits, cache.chunks, cache.files)
        /\ cache.dense = [i \in DOMAIN cache.chunks |-> Row(cache.chunks[i], cache.by)]

IndexInv == IndexTypes /\ Settled /\ Running /\ CacheIsTrue

\* A walk lists every file there is, once.
LEMMA WalkLists ==
    ASSUME IndexTypes
    PROVE  /\ Listed(edits, Walk)
           /\ \A p \in Files : disk[p] # Missing =>
                 \E k \in 1..Len(Walk) : Walk[k] = [path |-> p, file |-> disk[p]]
<1> DEFINE N == {p \in Files : disk[p] # Missing}
           found == Ascending(N)
<1>1. N \in SUBSET Nat /\ N \in SUBSET Files /\ IsFiniteSet(Files)
  <2>1. Files = 1..Cardinality(Files) /\ IsFiniteSet(Files)
    BY CodebaseAssumption
  <2>2. Cardinality(Files) \in Nat
    BY <2>1, FS_CardinalityType
  <2> QED BY <2>1, <2>2
<1>2. IsFiniteSet(N)
  BY <1>1, FS_Subset
<1>3. /\ found \in [1..Cardinality(N) -> N] /\ Cardinality(N) \in Nat
      /\ \A j, k \in 1..Cardinality(N) : found[j] = found[k] => j = k
      /\ \A x \in N : \E k \in 1..Cardinality(N) : found[k] = x
  BY <1>1, <1>2, AscendingLists
<1>4. Walk = [k \in DOMAIN found |-> [path |-> found[k], file |-> disk[found[k]]]]
  BY DEF Walk
<1>5. \A p \in N : p \in Files /\ disk[p] \in [time : 0..edits, kind : FileKinds] /\ disk[p] # Missing
  BY DEF IndexTypes
<1>6. edits \in Nat
  BY DEF IndexTypes
<1>10. \A p \in Files : disk[p] # Missing => p \in N
  OBVIOUS
<1> HIDE DEF found, N
<1>7. \A k \in 1..Cardinality(N) : Walk[k] = [path |-> found[k], file |-> disk[found[k]]]
  BY <1>3, <1>4
<1>8. Walk \in Seq(Entry) /\ Len(Walk) = Cardinality(N)
  <2>1. ASSUME NEW k \in 1..Cardinality(N) PROVE Walk[k] \in Entry
    <3>1. found[k] \in N /\ Walk[k] = [path |-> found[k], file |-> disk[found[k]]]
      BY <1>3, <1>7
    <3>2. found[k] \in Files /\ disk[found[k]] \in [time : 0..edits, kind : FileKinds]
      BY <1>5, <3>1
    <3>3. disk[found[k]] \in [time : Nat, kind : FileKinds]
      BY <1>6, <3>2
    <3> QED BY <3>1, <3>2, <3>3 DEF Entry
  <2>2. Walk = [k \in 1..Cardinality(N) |-> Walk[k]]
    BY <1>3, <1>4
  <2> QED BY <1>3, <2>1, <2>2
<1>9. Listed(edits, Walk)
  <2>1. \A k \in 1..Len(Walk) : Walk[k].file.time <= edits
    BY <1>3, <1>5, <1>6, <1>7, <1>8
  <2> QED BY <1>3, <1>7, <1>8, <2>1 DEF Listed
<1> QED BY <1>3, <1>7, <1>8, <1>9, <1>10
\* The chunks of a file are chunks of its path, numbered, with the time it was read.
LEMMA ChunksAre ==
    ASSUME NEW p \in Files, NEW g \in TextFile
    PROVE  /\ ChunkCount[g.kind] \in {0, 1, 2}
           /\ ChunksOf(p, g) \in Seq(Chunk) /\ Len(ChunksOf(p, g)) = ChunkCount[g.kind]
           /\ \A n \in 1..Len(ChunksOf(p, g)) : ChunksOf(p, g)[n].path = p
           /\ \A n \in 1..ChunkCount[g.kind] :
                 ChunksOf(p, g)[n] = [path |-> p, text |-> g.time, n |-> n]
<1>1. ChunkCount[g.kind] \in {0, 1, 2}
  BY DEF ChunkCount, TextFile, TextKinds
<1> DEFINE c == ChunkCount[g.kind]
<1>2. ChunksOf(p, g) = [n \in 1..c |-> [path |-> p, text |-> g.time, n |-> n]]
  BY DEF ChunksOf
<1>3. c \in Nat /\ g.time \in Nat
  BY <1>1 DEF TextFile
<1> HIDE DEF c
<1>4. \A n \in 1..c : ChunksOf(p, g)[n] = [path |-> p, text |-> g.time, n |-> n]
  BY <1>2
<1>5. \A n \in 1..c : ChunksOf(p, g)[n] \in Chunk
  <2> TAKE n \in 1..c
  <2>1. n \in Nat /\ p \in Files /\ g.time \in Nat
    BY <1>3
  <2>2. [path |-> p, text |-> g.time, n |-> n] \in Chunk
    BY ONLY <2>1 DEF Chunk
  <2> QED BY <1>4, <2>2
<1>6. ChunksOf(p, g) \in Seq(Chunk) /\ Len(ChunksOf(p, g)) = c
  BY <1>2, <1>3, <1>5
<1>7. \A n \in 1..Len(ChunksOf(p, g)) : ChunksOf(p, g)[n].path = p
  BY <1>4, <1>6
<1> QED BY <1>1, <1>4, <1>6, <1>7 DEF c

\* A file's chunks stay where they are when those of another are put behind them.
LEMMA ReadingStays ==
    ASSUME NEW p \in Files, NEW q \in Files, p # q, NEW g \in TextFile, NEW h \in TextFile,
           NEW chunks \in Seq(Chunk), NEW b \in Nat, ReadAt(chunks, p, b, g)
    PROVE  ReadAt(chunks \o ChunksOf(q, h), p, b, g)
<1> DEFINE more == ChunksOf(q, h)
           all == chunks \o more
<1>1. /\ more \in Seq(Chunk) /\ Len(more) \in Nat
      /\ \A n \in 1..Len(more) : more[n].path = q
  BY ChunksAre
<1>2. ChunkCount[g.kind] \in {0, 1, 2}
  BY ChunksAre
<1> HIDE DEF more
<1>3. /\ all \in Seq(Chunk) /\ Len(all) = Len(chunks) + Len(more) /\ Len(chunks) \in Nat
      /\ \A i \in 1..Len(chunks) : all[i] = chunks[i]
      /\ \A i \in Len(chunks) + 1..Len(all) : all[i] = more[i - Len(chunks)]
  BY <1>1, ConcatProperties
<1> HIDE DEF all
<1>4. {i \in DOMAIN all : all[i].path = p} = {i \in DOMAIN chunks : chunks[i].path = p}
  <2>1. DOMAIN all = 1..Len(all) /\ DOMAIN chunks = 1..Len(chunks)
    BY <1>3
  <2>2. ASSUME NEW i \in 1..Len(all), i \notin 1..Len(chunks) PROVE all[i].path = q
    <3>1. i - Len(chunks) \in 1..Len(more) /\ all[i] = more[i - Len(chunks)]
      BY <1>1, <1>3, <2>2
    <3> QED BY <1>1, <3>1
  <2>3. \A i \in 1..Len(chunks) : i \in 1..Len(all)
    BY <1>1, <1>3
  <2> QED BY <1>3, <2>1, <2>2, <2>3
<1>5. Places(all)[p] = Places(chunks)[p]
  BY <1>4 DEF Places
<1>6. Places(chunks)[p] = (b + 1)..(b + ChunkCount[g.kind])
  BY DEF ReadAt
<1>7. Places(chunks)[p] \subseteq 1..Len(chunks)
  BY DEF Places
<1>8. ASSUME NEW n \in 1..ChunkCount[g.kind] PROVE all[b + n] = chunks[b + n]
  <2>1. b + n \in 1..Len(chunks)
    BY <1>2, <1>6, <1>7
  <2> QED BY <1>3, <2>1
<1> QED BY <1>5, <1>8 DEF ReadAt, all, more

\* The chunks of a new file, put at the end, are a reading of it.
LEMMA ReadingAdded ==
    ASSUME NEW p \in Files, NEW g \in TextFile, NEW chunks \in Seq(Chunk),
           \A i \in 1..Len(chunks) : chunks[i].path # p
    PROVE  ReadAt(chunks \o ChunksOf(p, g), p, Len(chunks), g)
<1> DEFINE more == ChunksOf(p, g)
           all == chunks \o more
           c == ChunkCount[g.kind]
<1>1. /\ more \in Seq(Chunk) /\ Len(more) = c /\ c \in Nat
      /\ \A n \in 1..c : more[n] = [path |-> p, text |-> g.time, n |-> n]
  BY ChunksAre
<1> HIDE DEF more, c
<1>2. /\ all \in Seq(Chunk) /\ Len(all) = Len(chunks) + Len(more) /\ Len(chunks) \in Nat
      /\ \A i \in 1..Len(chunks) : all[i] = chunks[i]
      /\ \A i \in Len(chunks) + 1..Len(all) : all[i] = more[i - Len(chunks)]
  <2>1. more \in Seq(Chunk) /\ chunks \in Seq(Chunk)
    BY <1>1
  <2> QED BY ONLY <2>1, ConcatProperties
<1> HIDE DEF all
<1>3. \A n \in 1..c : all[Len(chunks) + n] = [path |-> p, text |-> g.time, n |-> n]
  <2> TAKE n \in 1..c
  <2>1. Len(chunks) + n \in Len(chunks) + 1..Len(all) /\ (Len(chunks) + n) - Len(chunks) = n
    BY <1>1, <1>2
  <2> QED BY <1>1, <1>2, <2>1
<1>4. {i \in DOMAIN all : all[i].path = p} = (Len(chunks) + 1)..(Len(chunks) + c)
  <2>1. DOMAIN all = 1..(Len(chunks) + c)
    BY <1>1, <1>2
  <2>2. ASSUME NEW i \in 1..Len(chunks) PROVE all[i].path # p
    BY <1>2
  <2>3. ASSUME NEW i \in (Len(chunks) + 1)..(Len(chunks) + c) PROVE all[i].path = p
    <3>4. Len(chunks) \in Nat /\ c \in Nat
      BY <1>1, <1>2
    <3>5. i - Len(chunks) \in 1..c /\ i = Len(chunks) + (i - Len(chunks))
      BY ONLY <3>4, i \in (Len(chunks) + 1)..(Len(chunks) + c)
    <3>1. \E n \in 1..c : i = Len(chunks) + n
      BY ONLY <3>5
    <3>2. PICK n \in 1..c : i = Len(chunks) + n
      BY <3>1
    <3>3. all[i] = [path |-> p, text |-> g.time, n |-> n]
      BY <1>3, <3>2
    <3> QED BY <3>3
  <2>4. \A i : i \in 1..(Len(chunks) + c) <=> i \in 1..Len(chunks) \/ i \in (Len(chunks) + 1)..(Len(chunks) + c)
    BY <1>1, <1>2
  <2> QED BY <2>1, <2>2, <2>3, <2>4
<1>5. Places(all)[p] = (Len(chunks) + 1)..(Len(chunks) + c)
  BY <1>4 DEF Places
<1> QED BY <1>3, <1>5 DEF ReadAt, all, more, c

\* An index stays truthful when a file that is not in it is read and recorded.
LEMMA TruthGrows ==
    ASSUME NEW now, NEW chunks, NEW files, Truthful(disk, now, chunks, files),
           NEW e \in Entry, e.file.time <= now, \A k \in 1..Len(files) : files[k].path # e.path,
           NEW g \in TextFile, g.time <= now, disk[e.path] = e.file => g = e.file
    PROVE  Truthful(disk, now, chunks \o ChunksOf(e.path, g), Append(files, e))
<1> DEFINE more == ChunksOf(e.path, g)
           all == chunks \o more
           files2 == Append(files, e)
<1>1. e.path \in Files /\ chunks \in Seq(Chunk) /\ files \in Seq(Entry)
  BY DEF Entry, Truthful, Listed
<1>13. \A k \in 1..Len(files) : files[k] \in Entry
  BY <1>1
<1>2. more \in Seq(Chunk) /\ \A n \in 1..Len(more) : more[n].path = e.path
  BY <1>1, ChunksAre
<1>3. /\ all \in Seq(Chunk) /\ Len(all) = Len(chunks) + Len(more) /\ Len(chunks) \in Nat /\ Len(more) \in Nat
      /\ \A i \in 1..Len(chunks) : all[i] = chunks[i]
      /\ \A i \in Len(chunks) + 1..Len(all) : all[i] = more[i - Len(chunks)]
  BY <1>1, <1>2, ConcatProperties
<1>4. /\ files2 \in Seq(Entry) /\ Len(files2) = Len(files) + 1 /\ Len(files) \in Nat
      /\ files2[Len(files) + 1] = e /\ \A k \in 1..Len(files) : files2[k] = files[k]
  BY <1>1, AppendProperties
<1>5. \A k \in 1..Len(files2) : k \in 1..Len(files) \/ k = Len(files) + 1
  BY <1>4
<1>6. \A i \in 1..Len(chunks) : chunks[i].path # e.path
  BY DEF Truthful
<1>7. ReadAt(all, e.path, Len(chunks), g)
  BY <1>1, <1>6, ReadingAdded
<1>8. ASSUME NEW k \in 1..Len(files)
      PROVE  \E b \in Nat, h \in TextFile :
                /\ ReadAt(all, files[k].path, b, h) /\ h.time <= now
                /\ disk[files[k].path] = files[k].file => h = files[k].file
  <2>1. PICK b \in Nat, h \in TextFile :
           /\ ReadAt(chunks, files[k].path, b, h) /\ h.time <= now
           /\ disk[files[k].path] = files[k].file => h = files[k].file
    BY DEF Truthful
  <2>2. files[k].path \in Files /\ files[k].path # e.path
    BY <1>13 DEF Entry
  <2>3. ReadAt(all, files[k].path, b, h)
    BY <1>1, <2>1, <2>2, ReadingStays
  <2> QED BY <2>1, <2>3
<1> HIDE DEF more, all, files2
<1>9. Listed(now, files2)
  <2>1. Listed(now, files)
    BY DEF Truthful
  <2>2. \A k \in 1..Len(files2) : files2[k].file.time <= now
    BY <1>4, <1>5, <2>1 DEF Listed
  <2>3. \A j, k \in 1..Len(files2) : files2[j].path = files2[k].path => j = k
    BY <1>4, <1>5, <2>1 DEF Listed
  <2> QED BY <1>4, <2>2, <2>3 DEF Listed
<1>10. ASSUME NEW i \in 1..Len(all) PROVE \E k \in 1..Len(files2) : files2[k].path = all[i].path
  <2>1. CASE i \in 1..Len(chunks)
    <3>1. PICK k \in 1..Len(files) : files[k].path = chunks[i].path
      BY <2>1 DEF Truthful
    <3>2. k \in 1..Len(files2) /\ files2[k].path = all[i].path
      BY <1>3, <1>4, <2>1, <3>1
    <3> QED BY <3>2
  <2>2. CASE i \notin 1..Len(chunks)
    <3>1. i \in Len(chunks) + 1..Len(all) /\ i - Len(chunks) \in 1..Len(more)
      BY <1>3, <2>2
    <3>2. all[i] = more[i - Len(chunks)] /\ more[i - Len(chunks)].path = e.path
      BY <1>2, <1>3, <3>1
    <3>3. Len(files) + 1 \in 1..Len(files2) /\ files2[Len(files) + 1] = e
      BY <1>4
    <3> QED BY <3>2, <3>3
  <2> QED BY <2>1, <2>2
<1>11. ASSUME NEW k \in 1..Len(files2)
       PROVE  \E b \in Nat, h \in TextFile :
                 /\ ReadAt(all, files2[k].path, b, h) /\ h.time <= now
                 /\ disk[files2[k].path] = files2[k].file => h = files2[k].file
  <2>1. CASE k \in 1..Len(files)
    <3>1. files2[k] = files[k]
      BY ONLY <1>4, <2>1
    <3> QED BY ONLY <1>8, <2>1, <3>1, Zenon
  <2>2. CASE k \notin 1..Len(files)
    BY <1>3, <1>4, <1>5, <1>7, <2>2
  <2> QED BY <2>1, <2>2
<1>12. Truthful(disk, now, all, files2)
  BY <1>3, <1>9, <1>10, <1>11 DEF Truthful
<1> QED BY <1>12 DEF all, more, files2
\* What a job that may rely on its old index takes for an entry is one reading of the
\* file, the recorded one if the file is as the walk saw it, and its chunks stand in the
\* old index where they are said to be copied from.
LEMMA ContributionIsRead ==
    ASSUME IndexTypes, job # NoJob, Sound, Rowed(job.old, embedder),
           Truthful(disk, edits, job.old.chunks, job.old.files),
           NEW e \in Entry, Readable(e)
    PROVE  \E g \in TextFile :
              /\ Contribution(e).chunks = ChunksOf(e.path, g) /\ g.time <= edits
              /\ disk[e.path] = e.file => g = e.file
              /\ Copied(job.old.chunks, ChunksOf(e.path, g), Contribution(e).src)
<1> DEFINE old == job.old
           taken == job.name = "refresh" /\ Unchanged(old, e)
<1>1. e.path \in Files
  BY DEF Entry
<1>2. CASE taken
  <2>1. PICK k \in DOMAIN old.files : old.files[k].path = e.path /\ old.files[k].file = e.file
    BY <1>2 DEF Unchanged
  <2>2. k \in 1..Len(old.files) /\ old.chunks \in Seq(Chunk)
    BY <2>1 DEF Truthful, Listed
  <2>3. PICK b \in Nat, g \in TextFile :
           /\ ReadAt(old.chunks, e.path, b, g) /\ g.time <= edits
           /\ disk[e.path] = e.file => g = e.file
    BY <2>1, <2>2 DEF Truthful
  <2> DEFINE c == ChunkCount[g.kind]
             ids == Ascending(old.by_path[e.path])
  <2>4. /\ c \in Nat /\ Len(ChunksOf(e.path, g)) = c
        /\ ChunksOf(e.path, g) = [n \in 1..c |-> [path |-> e.path, text |-> g.time, n |-> n]]
    <3>1. c \in {0, 1, 2} /\ Len(ChunksOf(e.path, g)) = c
      BY <1>1, ChunksAre
    <3>2. ChunksOf(e.path, g) = [n \in 1..c |-> [path |-> e.path, text |-> g.time, n |-> n]]
      BY DEF ChunksOf
    <3> QED BY <3>1, <3>2
  <2> HIDE DEF c
  <2>5. old.by_path[e.path] = (b + 1)..(b + c) /\ Places(old.chunks)[e.path] = (b + 1)..(b + c)
    BY <2>3 DEF Rowed, ReadAt, c
  <2>6. ids = [i \in 1..c |-> b + i]
    BY <2>4, <2>5, AscendingRun
  <2>7. Contribution(e) = [chunks |-> [i \in DOMAIN ids |-> old.chunks[ids[i]]], src |-> ids]
    BY <1>2 DEF Contribution
  <2> HIDE DEF ids
  <2>8. \A n \in 1..c : old.chunks[b + n] = [path |-> e.path, text |-> g.time, n |-> n]
    BY <2>3 DEF ReadAt, c
  <2>9. Contribution(e).src = ids /\ Contribution(e).chunks = [i \in 1..c |-> old.chunks[b + i]]
    <3>1. DOMAIN ids = 1..c /\ \A i \in 1..c : ids[i] = b + i
      BY <2>6
    <3>2. [i \in DOMAIN ids |-> old.chunks[ids[i]]] = [i \in 1..c |-> old.chunks[b + i]]
      BY <3>1
    <3> QED BY <2>7, <3>2
  <2>10. Contribution(e).chunks = ChunksOf(e.path, g)
    BY <2>4, <2>8, <2>9
  <2>11. (b + 1)..(b + c) \subseteq 1..Len(old.chunks)
    <3>1. Places(old.chunks)[e.path] = {i \in DOMAIN old.chunks : old.chunks[i].path = e.path}
      BY <1>1 DEF Places
    <3>2. DOMAIN old.chunks = 1..Len(old.chunks)
      BY <2>2
    <3> QED BY <2>5, <3>1, <3>2
  <2>12. ids \in Seq(Nat) /\ Len(ids) = c
    BY <2>4, <2>6
  <2>13. \A i \in 1..c : ids[i] \in 1..Len(old.chunks) /\ old.chunks[ids[i]] = ChunksOf(e.path, g)[i]
    <3> TAKE i \in 1..c
    <3>1. ids[i] = b + i /\ b + i \in (b + 1)..(b + c)
      BY <2>4, <2>6
    <3> QED BY <2>4, <2>8, <2>11, <3>1
  <2>14. Copied(old.chunks, ChunksOf(e.path, g), Contribution(e).src)
    BY <2>4, <2>9, <2>12, <2>13 DEF Copied
  <2> QED BY <2>3, <2>10, <2>14
<1>3. CASE ~taken
  <2>1. disk[e.path].kind \in TextKinds
    BY <1>3 DEF Readable
  <2>2. disk[e.path] \in {Missing} \cup [time : 0..edits, kind : FileKinds] /\ edits \in Nat
    BY <1>1 DEF IndexTypes
  <2>3. disk[e.path] \in TextFile /\ disk[e.path].time <= edits
    BY <2>1, <2>2, SMTT(20) DEF TextFile, TextKinds, Missing
  <2> DEFINE g == disk[e.path]
             cs == ChunksOf(e.path, g)
  <2>4. Contribution(e) = [chunks |-> cs, src |-> [i \in DOMAIN cs |-> 0]]
    BY <1>3 DEF Contribution
  <2>5. cs \in Seq(Chunk)
    BY <1>1, <2>3, ChunksAre
  <2> HIDE DEF cs
  <2>6. Contribution(e).chunks = cs /\ Contribution(e).src = [i \in 1..Len(cs) |-> 0]
    BY <2>4, <2>5
  <2>7. Copied(old.chunks, cs, Contribution(e).src)
    <3>1. Len(cs) \in Nat
      BY <2>5
    <3> DEFINE src == [i \in 1..Len(cs) |-> 0]
    <3>2. src \in Seq(Nat) /\ Len(src) = Len(cs) /\ \A i \in 1..Len(src) : src[i] = 0
      BY <3>1
    <3> HIDE DEF src
    <3>3. Copied(old.chunks, cs, src)
      BY <3>2 DEF Copied
    <3> QED BY <2>6, <3>3 DEF src
  <2> QED BY <2>3, <2>6, <2>7 DEF cs
<1> QED BY <1>2, <1>3

\* Copies stay copies when more are put behind them.
LEMMA CopiesGrow ==
    ASSUME NEW old, NEW chunks \in Seq(Chunk), NEW more \in Seq(Chunk), NEW src, NEW src2,
           Copied(old, chunks, src), Copied(old, more, src2)
    PROVE  Copied(old, chunks \o more, src \o src2)
<1>1. src \in Seq(Nat) /\ src2 \in Seq(Nat) /\ Len(src) = Len(chunks) /\ Len(src2) = Len(more)
  BY DEF Copied
<1> DEFINE all == chunks \o more
           from == src \o src2
<1>2. /\ Len(all) = Len(chunks) + Len(more) /\ Len(chunks) \in Nat /\ Len(more) \in Nat
      /\ \A i \in 1..Len(chunks) : all[i] = chunks[i]
      /\ \A i \in Len(chunks) + 1..Len(all) : all[i] = more[i - Len(chunks)]
  BY ConcatProperties
<1>3. /\ from \in Seq(Nat) /\ Len(from) = Len(src) + Len(src2)
      /\ \A i \in 1..Len(src) : from[i] = src[i]
      /\ \A i \in Len(src) + 1..Len(from) : from[i] = src2[i - Len(src)]
  <2>1. ASSUME NEW s \in Seq(Nat), NEW t \in Seq(Nat)
        PROVE  /\ s \o t \in Seq(Nat) /\ Len(s \o t) = Len(s) + Len(t)
               /\ \A i \in 1..Len(s) : (s \o t)[i] = s[i]
               /\ \A i \in Len(s) + 1..Len(s \o t) : (s \o t)[i] = t[i - Len(s)]
    BY ConcatProperties
  <2> QED BY <1>1, <2>1
<1> HIDE DEF all, from
<1>4. ASSUME NEW i \in 1..Len(from), from[i] > 0
      PROVE  from[i] \in 1..Len(old) /\ old[from[i]] = all[i]
  <2>1. CASE i \in 1..Len(src)
    <3>1. from[i] = src[i] /\ all[i] = chunks[i]
      BY <1>1, <1>2, <1>3, <2>1
    <3> QED BY <1>4, <2>1, <3>1 DEF Copied
  <2>2. CASE i \notin 1..Len(src)
    <3>1. i - Len(src) \in 1..Len(src2) /\ i \in Len(src) + 1..Len(from) /\ i \in Len(chunks) + 1..Len(all)
      BY <1>1, <1>2, <1>3, <2>2
    <3>2. from[i] = src2[i - Len(src)] /\ all[i] = more[i - Len(src)]
      BY <1>1, <1>2, <1>3, <3>1
    <3> QED BY <1>4, <3>1, <3>2 DEF Copied
  <2> QED BY <2>1, <2>2
<1>5. Copied(old, all, from)
  BY <1>1, <1>2, <1>3, <1>4 DEF Copied
<1> QED BY <1>5 DEF all, from
\* The merge of a job after n of its entries.
Merging(m, n) ==
    /\ m = [index |-> m.index, src |-> m.src, full |-> m.full] /\ IsIndex(m.index)
    /\ Sound => Merged(m.index, m.src, m.full, n)

\* The index a job started from may be relied on.
OldIsTrue == Sound => Rowed(job.old, embedder)
                      /\ Truthful(disk, edits, job.old.chunks, job.old.files)

LEMMA MergeEntryKeeps ==
    ASSUME IndexTypes, job # NoJob, OldIsTrue,
           NEW n \in Nat, n < Len(job.entries), NEW m, Merging(m, n)
    PROVE  Merging(MergeEntry(m, job.entries[n + 1]), n + 1)
<1> DEFINE e == job.entries[n + 1]
           new == MergeEntry(m, e)
<1>1. /\ Listed(edits, job.entries) /\ job.entries \in Seq(Entry) /\ n + 1 \in 1..Len(job.entries)
      /\ e \in Entry /\ e.file.time <= edits
      /\ \A j \in 1..n : job.entries[j].path # e.path
  BY DEF IndexTypes, IsJob, Listed
<1>2. \A k \in 1..(n + 1) : k \in 1..n \/ k = n + 1
  OBVIOUS
<1>10. \A k \in 1..n : k \in 1..(n + 1)
  OBVIOUS
<1>3. m = [index |-> m.index, src |-> m.src, full |-> m.full] /\ IsIndex(m.index)
  BY DEF Merging
<1>4. ASSUME NEW files, Taken(job.entries, n, files) PROVE Taken(job.entries, n + 1, files)
  BY <1>4, <1>10 DEF Taken
<1>5. ASSUME NEW files, Recorded(disk, job.entries, n, files),
             disk[e.path] = e.file /\ e.file.kind \in TextKinds => \E j \in 1..Len(files) : files[j] = e
      PROVE  Recorded(disk, job.entries, n + 1, files)
  BY <1>2, <1>5 DEF Recorded
<1>6. CASE m.full \/ ~Readable(e)
  <2>1. new = m
    BY <1>6 DEF MergeEntry
  <2>2. ASSUME Sound PROVE Merged(m.index, m.src, m.full, n + 1)
    <3>1. Merged(m.index, m.src, m.full, n)
      BY <2>2 DEF Merging
    <3>2. Taken(job.entries, n + 1, m.index.files)
      BY <1>4, <3>1 DEF Merged
    <3>3. ASSUME ~m.full PROVE Recorded(disk, job.entries, n + 1, m.index.files)
      <4>1. ~Readable(e)
        BY <1>6, <3>3
      <4>2. ~(disk[e.path] = e.file /\ e.file.kind \in TextKinds)
        BY <4>1 DEF Readable
      <4>3. Recorded(disk, job.entries, n, m.index.files)
        BY <3>1, <3>3 DEF Merged
      <4> QED BY <1>5, <4>2, <4>3
    <3> QED BY <3>1, <3>2, <3>3 DEF Merged
  <2> QED BY <1>3, <2>1, <2>2 DEF Merging
<1>7. CASE ~m.full /\ Readable(e) /\ Len(m.index.chunks) >= MaxTotalChunks
  <2>1. new = [m EXCEPT !.full = TRUE]
    BY <1>7 DEF MergeEntry
  <2>2. new = [index |-> m.index, src |-> m.src, full |-> TRUE]
    BY <1>3, <2>1
  <2>3. ASSUME Sound PROVE Merged(m.index, m.src, TRUE, n + 1)
    <3>1. Merged(m.index, m.src, m.full, n)
      BY <2>3 DEF Merging
    <3>2. Taken(job.entries, n + 1, m.index.files)
      BY <1>4, <3>1 DEF Merged
    <3> QED BY <3>1, <3>2 DEF Merged
  <2> HIDE DEF new
  <2>4. new.index = m.index /\ new.src = m.src /\ new.full = TRUE
    BY <2>2
  <2>5. Merging(new, n + 1)
    BY <1>3, <2>2, <2>3, <2>4 DEF Merging
  <2> QED BY <2>5 DEF new
<1>8. CASE ~m.full /\ Readable(e) /\ ~(Len(m.index.chunks) >= MaxTotalChunks)
  <2> DEFINE cs == Contribution(e).chunks
             ix == [chunks |-> m.index.chunks \o cs, dense |-> m.index.dense, inv |-> m.index.inv,
                    by_path |-> m.index.by_path, files |-> Append(m.index.files, e)]
             src == m.src \o Contribution(e).src
  <2>1. new = [m EXCEPT !.index.chunks = @ \o cs, !.index.files = Append(@, e), !.src = @ \o Contribution(e).src]
    BY <1>8 DEF MergeEntry
  <2> HIDE DEF cs
  <2>2. new = [index |-> ix, src |-> src, full |-> m.full]
    BY <1>3, <2>1 DEF IsIndex
  <2> HIDE DEF new
  <2>3. IsIndex(ix)
    BY DEF IsIndex
  <2>4. ASSUME Sound PROVE Merged(ix, src, m.full, n + 1)
    <3>1. Merged(m.index, m.src, m.full, n) /\ ~m.full
      BY <1>8, <2>4 DEF Merging
    <3>2. /\ Truthful(disk, edits, m.index.chunks, m.index.files)
          /\ Copied(job.old.chunks, m.index.chunks, m.src)
          /\ Taken(job.entries, n, m.index.files)
          /\ Recorded(disk, job.entries, n, m.index.files)
      BY <3>1 DEF Merged
    <3>3. PICK g \in TextFile :
             /\ cs = ChunksOf(e.path, g) /\ g.time <= edits
             /\ disk[e.path] = e.file => g = e.file
             /\ Copied(job.old.chunks, ChunksOf(e.path, g), Contribution(e).src)
      BY <1>1, <1>8, <2>4, ContributionIsRead DEF OldIsTrue, cs
    <3>4. \A k \in 1..Len(m.index.files) : m.index.files[k].path # e.path
      BY <1>1, <3>2 DEF Taken
    <3>5. Truthful(disk, edits, m.index.chunks \o cs, Append(m.index.files, e))
      BY <1>1, <3>2, <3>3, <3>4, TruthGrows
    <3>6. m.index.chunks \in Seq(Chunk) /\ cs \in Seq(Chunk)
      BY <1>1, <3>2, <3>3, ChunksAre DEF Truthful, Entry
    <3>7. Copied(job.old.chunks, m.index.chunks \o cs, src)
      BY <3>2, <3>3, <3>6, CopiesGrow
    <3> DEFINE files == Append(m.index.files, e)
    <3>8. m.index.files \in Seq(Entry)
      BY <3>2 DEF Truthful, Listed
    <3>9. /\ Len(files) = Len(m.index.files) + 1 /\ Len(m.index.files) \in Nat
          /\ files[Len(m.index.files) + 1] = e
          /\ \A k \in 1..Len(m.index.files) : files[k] = m.index.files[k]
      BY <1>1, <3>8, AppendProperties
    <3> HIDE DEF files
    <3>10. Taken(job.entries, n + 1, files)
      <4> SUFFICES ASSUME NEW j \in 1..Len(files)
                   PROVE  \E k \in 1..(n + 1) : files[j] = job.entries[k]
        BY DEF Taken
      <4>1. CASE j = Len(files)
        BY <3>9, <4>1
      <4>2. CASE j # Len(files)
        <5>1. j \in 1..Len(m.index.files) /\ files[j] = m.index.files[j]
          BY <3>9, <4>2, SMTT(20)
        <5> QED BY <1>10, <3>2, <5>1 DEF Taken
      <4> QED BY <4>1, <4>2
    <3>11. Recorded(disk, job.entries, n + 1, files)
      <4>1. Len(files) \in 1..Len(files) /\ files[Len(files)] = e
        BY <3>9
      <4>2. Recorded(disk, job.entries, n, files)
        <5> SUFFICES ASSUME NEW k \in 1..n,
                            disk[job.entries[k].path] = job.entries[k].file,
                            job.entries[k].file.kind \in TextKinds
                     PROVE  \E j \in 1..Len(files) : files[j] = job.entries[k]
          BY DEF Recorded
        <5>1. PICK j \in 1..Len(m.index.files) : m.index.files[j] = job.entries[k]
          BY <3>2 DEF Recorded
        <5>2. j \in 1..Len(files) /\ files[j] = m.index.files[j]
          BY <3>9
        <5> QED BY <5>1, <5>2
      <4> QED BY <1>5, <4>1, <4>2
    <3>12. Merged([chunks |-> m.index.chunks \o cs, dense |-> m.index.dense, inv |-> m.index.inv,
                   by_path |-> m.index.by_path, files |-> files], src, m.full, n + 1)
      BY <3>5, <3>7, <3>10, <3>11 DEF Merged, files
    <3> QED BY <3>12 DEF files
  <2> HIDE DEF ix, src
  <2>5. Merging(new, n + 1)
    BY <2>2, <2>3, <2>4 DEF Merging
  <2> QED BY <2>5 DEF new
<1> QED BY <1>6, <1>7, <1>8

\* The recursion of Merge() defines a function.
MergedAfter(f, es, m, n) ==
    f = [k \in 0..n |-> IF k = 0 THEN m ELSE MergeEntry(f[k - 1], es[k])]

LEMMA MergedAfterExists ==
    ASSUME NEW es, NEW m, NEW n \in Nat
    PROVE  \E f : MergedAfter(f, es, m, n)
<1> DEFINE good == {k \in Nat : \E f : MergedAfter(f, es, m, k)}
<1>1. 0 \in good
  <2> DEFINE f == [k \in 0..0 |-> m]
  <2>1. f = [k \in 0..0 |-> IF k = 0 THEN m ELSE MergeEntry(f[k - 1], es[k])]
    OBVIOUS
  <2> HIDE DEF f
  <2>2. MergedAfter(f, es, m, 0)
    BY <2>1 DEF MergedAfter
  <2> QED BY <2>2
<1>2. ASSUME NEW i \in 1..n, i - 1 \in good PROVE i \in good
  <2>1. PICK f : MergedAfter(f, es, m, i - 1)
    BY <1>2
  <2>2. f = [k \in 0..(i - 1) |-> IF k = 0 THEN m ELSE MergeEntry(f[k - 1], es[k])]
    BY <2>1 DEF MergedAfter
  <2> DEFINE g == [k \in 0..i |-> IF k = i THEN MergeEntry(f[i - 1], es[i]) ELSE f[k]]
  <2>3. \A k \in 0..i : g[k] = IF k = i THEN MergeEntry(f[i - 1], es[i]) ELSE f[k]
    OBVIOUS
  <2>4. g = [k \in 0..i |-> g[k]]
    OBVIOUS
  <2> HIDE DEF g
  <2>5. \A k \in 0..i : g[k] = IF k = 0 THEN m ELSE MergeEntry(g[k - 1], es[k])
    <3> TAKE k \in 0..i
    <3>1. CASE k = i
      BY <2>3, <3>1
    <3>2. CASE k # i
      <4>1. k \in 0..(i - 1) /\ g[k] = f[k]
        BY <2>3, <3>2
      <4>2. f[k] = IF k = 0 THEN m ELSE MergeEntry(f[k - 1], es[k])
        BY <2>2, <4>1
      <4>3. k # 0 => g[k - 1] = f[k - 1]
        BY <2>3, <3>2
      <4> QED BY <4>1, <4>2, <4>3
    <3> QED BY <3>1, <3>2
  <2>6. MergedAfter(g, es, m, i)
    BY <2>4, <2>5 DEF MergedAfter
  <2> QED BY <2>6
<1> HIDE DEF good
<1>3. n \in good
  BY <1>1, <1>2, UpTo
<1> QED BY <1>3 DEF good

\* The merge of the entries after n, up to hi.
LEMMA MergeKeeps ==
    ASSUME IndexTypes, job # NoJob, OldIsTrue,
           NEW n \in Nat, NEW hi \in Nat, n <= hi, hi <= Len(job.entries),
           NEW ix, NEW src, Merging([index |-> ix, src |-> src, full |-> FALSE], n)
    PROVE  Merging(Merge(SubSeq(job.entries, n + 1, hi), ix, src), hi)
<1> DEFINE es == SubSeq(job.entries, n + 1, hi)
           first == [index |-> ix, src |-> src, full |-> FALSE]
           f == CHOOSE f : f = [k \in 0..Len(es) |-> IF k = 0 THEN first ELSE MergeEntry(f[k - 1], es[k])]
<1>1. job.entries \in Seq(Entry)
  BY DEF IndexTypes, IsJob, Listed
<1>2. /\ Len(es) = hi - n /\ \A k \in 1..(hi - n) : es[k] = job.entries[n + k]
      /\ hi - n \in Nat
  BY <1>1
<1>3. Merge(es, ix, src) = f[Len(es)]
  BY DEF Merge
<1> HIDE DEF es, first
<1>4. \E h : h = [k \in 0..Len(es) |-> IF k = 0 THEN first ELSE MergeEntry(h[k - 1], es[k])]
  <2>1. PICK h : MergedAfter(h, es, first, Len(es))
    BY <1>2, MergedAfterExists
  <2> QED BY <2>1 DEF MergedAfter
<1>5. f = [k \in 0..Len(es) |-> IF k = 0 THEN first ELSE MergeEntry(f[k - 1], es[k])]
  BY <1>4
<1> HIDE DEF f
<1>6. f[0] = first /\ \A k \in 1..Len(es) : f[k] = MergeEntry(f[k - 1], es[k])
  <2>1. Len(es) \in Nat /\ 0 \in 0..Len(es) /\ \A k \in 1..Len(es) : k \in 0..Len(es) /\ k # 0
    BY <1>2
  <2>2. \A k \in 0..Len(es) : f[k] = IF k = 0 THEN first ELSE MergeEntry(f[k - 1], es[k])
    BY <1>5
  <2> QED BY <2>1, <2>2
<1> DEFINE good == {k \in Nat : Merging(f[k], n + k)}
<1>7. 0 \in good
  BY <1>6 DEF first
<1>8. ASSUME NEW k \in 1..Len(es), k - 1 \in good PROVE k \in good
  <2>1. n + (k - 1) \in Nat /\ n + (k - 1) < Len(job.entries) /\ Merging(f[k - 1], n + (k - 1))
    BY <1>1, <1>2, <1>8
  <2>2. Merging(MergeEntry(f[k - 1], job.entries[(n + (k - 1)) + 1]), (n + (k - 1)) + 1)
    BY <2>1, MergeEntryKeeps
  <2>3. (n + (k - 1)) + 1 = n + k /\ k \in Nat /\ k \in 1..(hi - n)
    BY <1>2
  <2> QED BY <1>2, <1>6, <2>2, <2>3
<1> HIDE DEF good
<1>9. Len(es) \in good
  <2>1. Len(es) \in Nat /\ Len(es) \in 0..Len(es)
    BY <1>2
  <2>2. \A k \in 1..Len(es) : k - 1 \in good => k \in good
    BY <1>8
  <2> QED BY <1>7, <2>1, <2>2, UpTo
<1>10. n + Len(es) = hi
  BY <1>2
<1> QED BY <1>3, <1>9, <1>10 DEF good, es
\* An index with nothing in it.
LEMMA EmptyIsTrue ==
    ASSUME NEW d, NEW now, NEW e
    PROVE  /\ IsIndex(EmptyIndex) /\ Rowed(EmptyIndex, e) /\ Listed(now, <<>>)
           /\ Truthful(d, now, EmptyIndex.chunks, EmptyIndex.files)
           /\ EmptyIndex.chunks = <<>> /\ EmptyIndex.files = <<>>
<1>1. IsIndex(EmptyIndex) /\ EmptyIndex.chunks = <<>> /\ EmptyIndex.files = <<>>
  BY DEF EmptyIndex, IsIndex
<1>2. Listed(now, <<>>)
  BY DEF Listed
<1>3. Truthful(d, now, <<>>, <<>>)
  BY <1>2 DEF Truthful
<1>4. Places(<<>>) = [p \in Files |-> {}]
  BY DEF Places
<1>5. EmptyIndex.dense = [i \in DOMAIN EmptyIndex.chunks |-> Row(EmptyIndex.chunks[i], e)]
  BY DEF EmptyIndex
<1>6. EmptyIndex.inv = EmptyIndex.chunks /\ EmptyIndex.by_path = Places(EmptyIndex.chunks)
  BY <1>4 DEF EmptyIndex
<1> QED BY <1>1, <1>2, <1>3, <1>5, <1>6 DEF Rowed

LEMMA IndexInitially == CodebaseInit => IndexInv
<1> SUFFICES ASSUME CodebaseInit PROVE IndexInv
  OBVIOUS
<1>1. index = EmptyIndex /\ walked = <<>> /\ job = NoJob /\ edits = 0 /\ cache = NoCache
  BY DEF CodebaseInit
<1>2. disk \in [Files -> {Missing} \cup [time : 0..edits, kind : FileKinds]]
  <2>1. disk \in [Files -> {Missing} \cup {[time |-> 0, kind |-> k] : k \in FileKinds}]
    BY DEF CodebaseInit
  <2>2. {[time |-> 0, kind |-> k] : k \in FileKinds} \subseteq [time : 0..edits, kind : FileKinds]
    BY <1>1
  <2> QED BY <2>1, <2>2
<1>3. IndexTypes
  BY <1>1, <1>2, EmptyIsTrue DEF IndexTypes
<1>4. Settled
  BY <1>1, EmptyIsTrue DEF Settled, Recorded
<1>5. Running /\ CacheIsTrue
  BY <1>1 DEF Running, CacheIsTrue, NoCache
<1> QED BY <1>3, <1>4, <1>5 DEF IndexInv

\* No edit makes a file again what it was recorded as: its time is a new one.
LEMMA TruthSurvivesEdits ==
    ASSUME edits \in Nat, edits' = edits + 1,
           \A q \in Files : disk'[q] = disk[q] \/ disk'[q] = Missing \/ disk'[q].time = edits',
           NEW chunks, NEW files, Truthful(disk, edits, chunks, files)
    PROVE  Truthful(disk', edits', chunks, files)
<1>1. Listed(edits, files) /\ files \in Seq(Entry)
  BY DEF Truthful, Listed
<1>2. \A k \in 1..Len(files) : files[k] \in Entry /\ files[k].file.time <= edits
  BY <1>1 DEF Listed
<1>3. Listed(edits', files)
  <2>1. \A k \in 1..Len(files) : files[k].file.time \in Nat /\ files[k].file.time <= edits
    BY <1>2 DEF Entry
  <2>2. \A k \in 1..Len(files) : files[k].file.time <= edits'
    BY <2>1
  <2> QED BY <1>1, <2>2 DEF Listed
<1>4. ASSUME NEW k \in 1..Len(files), disk'[files[k].path] = files[k].file
      PROVE  disk[files[k].path] = files[k].file
  <2>1. files[k].path \in Files /\ files[k].file.time \in Nat /\ files[k].file.time <= edits
    BY <1>2 DEF Entry
  <2>2. disk'[files[k].path] # Missing /\ disk'[files[k].path].time # edits'
    BY <1>4, <2>1 DEF Missing
  <2> QED BY <1>4, <2>1, <2>2
<1>5. \A g \in TextFile : g.time <= edits => g.time <= edits'
  BY DEF TextFile
<1> QED BY <1>3, <1>4, <1>5 DEF Truthful

LEMMA RecordsSurviveEdits ==
    ASSUME edits \in Nat, edits' = edits + 1,
           \A q \in Files : disk'[q] = disk[q] \/ disk'[q] = Missing \/ disk'[q].time = edits',
           NEW es, Listed(edits, es), NEW n \in 0..Len(es), NEW files, Recorded(disk, es, n, files)
    PROVE  Recorded(disk', es, n, files)
<1>1. \A k \in 1..n : k \in 1..Len(es) /\ es[k] \in Entry /\ es[k].file.time <= edits
  BY DEF Listed
<1>2. ASSUME NEW k \in 1..n, disk'[es[k].path] = es[k].file
      PROVE  disk[es[k].path] = es[k].file
  <2>1. es[k].path \in Files /\ es[k].file.time \in Nat /\ es[k].file.time <= edits
    BY <1>1 DEF Entry
  <2>2. disk'[es[k].path] # Missing /\ disk'[es[k].path].time # edits'
    BY <1>2, <2>1 DEF Missing
  <2> QED BY <1>2, <2>1, <2>2
<1> QED BY <1>2 DEF Recorded

LEMMA ListsSurviveEdits ==
    ASSUME edits \in Nat, edits' = edits + 1, NEW es, Listed(edits, es)
    PROVE  Listed(edits', es)
<1>1. \A k \in 1..Len(es) : es[k] \in Entry
  BY DEF Listed
<1>2. \A k \in 1..Len(es) : es[k].file.time \in Nat /\ es[k].file.time <= edits
  BY <1>1 DEF Listed, Entry
<1>3. \A k \in 1..Len(es) : es[k].file.time <= edits'
  BY <1>2
<1> QED BY <1>3 DEF Listed

LEMMA EditStep ==
    ASSUME IndexInv, NEW p \in Files, Edit(p)
    PROVE  IndexInv'
<1>1. /\ edits \in Nat /\ edits' = edits + 1 /\ IndexTypes
      /\ UNCHANGED <<embedder, index, job, cache, whole, walked>>
  BY DEF Edit, IndexInv, IndexTypes
<1>2. PICK f \in {Missing} \cup {[time |-> edits', kind |-> k] : k \in FileKinds} :
         disk' = [disk EXCEPT ![p] = f]
  BY DEF Edit
<1>3. f = Missing \/ (f \in [time : 0..edits', kind : FileKinds] /\ f.time = edits')
  BY <1>1, <1>2
<1>4. disk \in [Files -> {Missing} \cup [time : 0..edits, kind : FileKinds]]
  BY <1>1 DEF IndexTypes
<1>5. disk' \in [Files -> {Missing} \cup [time : 0..edits', kind : FileKinds]]
  <2>1. [time : 0..edits, kind : FileKinds] \subseteq [time : 0..edits', kind : FileKinds]
    <3>1. 0..edits \subseteq 0..edits'
      BY <1>1
    <3> QED BY <3>1
  <2> QED BY <1>2, <1>3, <1>4, <2>1
<1>6. \A q \in Files : disk'[q] = disk[q] \/ disk'[q] = Missing \/ disk'[q].time = edits'
  BY <1>2, <1>3, <1>4
<1>7. IndexTypes'
  <2>1. Listed(edits', walked')
    BY <1>1, ListsSurviveEdits DEF IndexTypes
  <2>2. ASSUME job # NoJob PROVE IsJob(edits', job')
    <3>1. IsJob(edits, job)
      BY <1>1, <2>2 DEF IndexTypes
    <3>2. Listed(edits', job.entries)
      BY <1>1, <3>1, ListsSurviveEdits DEF IsJob
    <3> QED BY <1>1, <3>1, <3>2 DEF IsJob
  <2> QED BY <1>1, <1>5, <2>1, <2>2 DEF IndexTypes
<1>8. Settled'
  <2> SUFFICES ASSUME job' = NoJob, whole'
               PROVE  /\ Rowed(index', embedder') /\ Truthful(disk', edits', index'.chunks, index'.files)
                      /\ Recorded(disk', walked', Len(walked'), index'.files)
    BY DEF Settled
  <2>1. /\ Rowed(index, embedder) /\ Truthful(disk, edits, index.chunks, index.files)
        /\ Recorded(disk, walked, Len(walked), index.files)
    BY <1>1 DEF IndexInv, Settled
  <2>2. Listed(edits, walked) /\ Len(walked) \in 0..Len(walked)
    BY <1>1 DEF IndexTypes, Listed
  <2>3. Truthful(disk', edits', index.chunks, index.files)
    BY <1>1, <1>6, <2>1, TruthSurvivesEdits
  <2>4. Recorded(disk', walked, Len(walked), index.files)
    BY <1>1, <1>6, <2>1, <2>2, RecordsSurviveEdits
  <2> QED BY <1>1, <2>1, <2>3, <2>4
<1>9. Running'
  <2> SUFFICES ASSUME job' # NoJob, Sound'
               PROVE  /\ Rowed(job'.old, embedder')
                      /\ Truthful(disk', edits', job'.old.chunks, job'.old.files)
                      /\ Merged(index, job.src, job.full, job.base)'
    BY DEF Running
  <2>1. /\ Rowed(job.old, embedder)
        /\ Truthful(disk, edits, job.old.chunks, job.old.files)
        /\ Merged(index, job.src, job.full, job.base)
    BY <1>1 DEF IndexInv, Running, Sound
  <2>2. Listed(edits, job.entries) /\ job.base \in 0..Len(job.entries)
    BY <1>1 DEF IndexTypes, IsJob
  <2>3. Truthful(disk', edits', job.old.chunks, job.old.files)
    BY <1>1, <1>6, <2>1, TruthSurvivesEdits
  <2>4. Truthful(disk', edits', index.chunks, index.files)
    BY <1>1, <1>6, <2>1, TruthSurvivesEdits DEF Merged
  <2>5. ~job.full => Recorded(disk', job.entries, job.base, index.files)
    BY <1>1, <1>6, <2>1, <2>2, RecordsSurviveEdits DEF Merged
  <2> QED BY <1>1, <2>1, <2>3, <2>4, <2>5 DEF Merged
<1>10. CacheIsTrue'
  <2> SUFFICES ASSUME cache'.state = "good"
               PROVE  /\ Truthful(disk', edits', cache'.chunks, cache'.files)
                      /\ cache'.dense = [i \in DOMAIN cache'.chunks |-> Row(cache'.chunks[i], cache'.by)]
    BY DEF CacheIsTrue
  <2>1. /\ Truthful(disk, edits, cache.chunks, cache.files)
        /\ cache.dense = [i \in DOMAIN cache.chunks |-> Row(cache.chunks[i], cache.by)]
    BY <1>1 DEF IndexInv, CacheIsTrue
  <2>2. Truthful(disk', edits', cache.chunks, cache.files)
    BY <1>1, <1>6, <2>1, TruthSurvivesEdits
  <2> QED BY <1>1, <2>1, <2>2
<1> QED BY <1>7, <1>8, <1>9, <1>10 DEF IndexInv
\* The index is emptied and nothing runs: clear(), a scan cancelled while it walks, a
\* program that ends.
LEMMA EmptiedStep ==
    ASSUME IndexInv, index' = EmptyIndex, job' = NoJob, walked' = <<>>,
           UNCHANGED <<disk, edits, cache>>
    PROVE  IndexInv'
<1>1. IndexTypes'
  BY EmptyIsTrue DEF IndexInv, IndexTypes
<1>2. Settled'
  <2>1. /\ Rowed(index', embedder') /\ Truthful(disk', edits', index'.chunks, index'.files)
    BY EmptyIsTrue
  <2>2. Recorded(disk', walked', Len(walked'), index'.files)
    BY DEF Recorded
  <2> QED BY <2>1, <2>2 DEF Settled
<1>3. Running'
  BY DEF Running
<1>4. CacheIsTrue'
  BY DEF IndexInv, CacheIsTrue
<1> QED BY <1>1, <1>2, <1>3, <1>4 DEF IndexInv

\* A job begins with nothing merged, and with an old index that is true if it may be
\* relied on.
LEMMA StartStep ==
    ASSUME IndexInv, job = NoJob, NEW name \in {"scan", "refresh"}, NEW from, IsIndex(from),
           whole \/ name = "scan" =>
               Rowed(from, embedder) /\ Truthful(disk, edits, from.chunks, from.files),
           StartIngest(name, from),
           UNCHANGED <<disk, edits, embedder, cache, whole, walked>>
    PROVE  IndexInv'
<1>1. job' = [name |-> name, old |-> from, entries |-> Walk, base |-> 0, src |-> <<>>, full |-> FALSE]
  BY DEF StartIngest
<1>2. IsIndex(index') /\ index'.chunks = <<>> /\ index'.files = <<>>
  <2>1. index' = [from EXCEPT !.chunks = <<>>, !.dense = <<>>, !.files = <<>>,
                              !.by_path = EmptyIndex.by_path]
    BY DEF StartIngest
  <2>2. index' = [chunks |-> <<>>, dense |-> <<>>, inv |-> from.inv,
                  by_path |-> EmptyIndex.by_path, files |-> <<>>]
    BY <2>1 DEF IsIndex
  <2> QED BY <2>2 DEF IsIndex
<1>3. /\ job'.name = name /\ job'.old = from /\ job'.entries = Walk /\ job'.base = 0
      /\ job'.src = <<>> /\ job'.full = FALSE /\ job' # NoJob
  BY <1>1 DEF NoJob
<1>4. Listed(edits, Walk)
  BY WalkLists DEF IndexInv
<1>5. IsJob(edits', job')
  <2>1. Len(Walk) \in Nat
    BY <1>4 DEF Listed
  <2>2. 0 \in 0..Len(Walk)
    BY <2>1
  <2> QED BY <1>1, <1>3, <1>4, <2>2 DEF IsJob
<1>6. IndexTypes'
  BY <1>2, <1>5 DEF IndexInv, IndexTypes
<1>7. Settled'
  BY <1>3 DEF Settled
<1>8. Running'
  <2> SUFFICES ASSUME Sound'
               PROVE  /\ Rowed(from, embedder) /\ Truthful(disk, edits, from.chunks, from.files)
                      /\ Merged(index, job.src, job.full, job.base)'
    BY <1>3 DEF Running
  <2>1. Rowed(from, embedder) /\ Truthful(disk, edits, from.chunks, from.files)
    BY <1>3 DEF Sound
  <2>2. Truthful(disk', edits', index'.chunks, index'.files)
    BY <1>2, EmptyIsTrue DEF EmptyIndex
  <2>3. Copied(job'.old.chunks, index'.chunks, job'.src)
    BY <1>2, <1>3 DEF Copied
  <2>4. Taken(job'.entries, job'.base, index'.files) /\ Recorded(disk', job'.entries, job'.base, index'.files)
    BY <1>2, <1>3 DEF Taken, Recorded
  <2> QED BY <2>1, <2>2, <2>3, <2>4 DEF Merged
<1>9. CacheIsTrue'
  BY DEF IndexInv, CacheIsTrue
<1> QED BY <1>6, <1>7, <1>8, <1>9 DEF IndexInv

LEMMA BatchStep ==
    ASSUME IndexInv, IngestBatch
    PROVE  IndexInv'
<1> DEFINE next == job.base + Batch
           hi == IF next < Len(job.entries) THEN next ELSE Len(job.entries)
           m == Merge(SubSeq(job.entries, job.base + 1, hi), index, job.src)
<1>1. /\ job # NoJob /\ job.base < Len(job.entries) /\ ~job.full
      /\ index' = m.index /\ job' = [job EXCEPT !.base = hi, !.src = m.src, !.full = m.full]
      /\ UNCHANGED <<disk, edits, embedder, cache, whole, walked>>
  BY DEF IngestBatch
<1>2. IndexTypes /\ IsJob(edits, job)
  BY <1>1 DEF IndexInv, IndexTypes
<1>3. job.base \in 0..Len(job.entries) /\ Len(job.entries) \in Nat
  BY <1>2 DEF IsJob, Listed
<1>4. hi \in Nat /\ job.base <= hi /\ hi <= Len(job.entries) /\ job.base \in Nat
  BY <1>1, <1>3, CodebaseAssumption
<1>5. OldIsTrue
  BY <1>1 DEF IndexInv, Running, OldIsTrue
<1>6. Merging([index |-> index, src |-> job.src, full |-> FALSE], job.base)
  <2> DEFINE first == [index |-> index, src |-> job.src, full |-> FALSE]
  <2>1. first.index = index /\ first.src = job.src /\ first.full = FALSE
        /\ first = [index |-> first.index, src |-> first.src, full |-> first.full]
    OBVIOUS
  <2>2. Sound => Merged(index, job.src, FALSE, job.base)
    BY <1>1 DEF IndexInv, Running, Merged
  <2>3. IsIndex(index)
    BY <1>2 DEF IndexTypes
  <2> HIDE DEF first
  <2>4. Merging(first, job.base)
    BY <2>1, <2>2, <2>3 DEF Merging
  <2> QED BY <2>4 DEF first
<1> HIDE DEF hi
<1>7. Merging(m, hi)
  BY <1>1, <1>2, <1>4, <1>5, <1>6, MergeKeeps
<1> HIDE DEF m
<1>8. /\ job' = [name |-> job.name, old |-> job.old, entries |-> job.entries, base |-> hi,
                 src |-> m.src, full |-> m.full]
  BY <1>1, <1>2 DEF IsJob
<1>9. /\ job'.name = job.name /\ job'.old = job.old /\ job'.entries = job.entries /\ job'.base = hi
      /\ job'.src = m.src /\ job'.full = m.full
  BY <1>8
<1>10. IsJob(edits', job')
  <2>1. hi \in 0..Len(job.entries)
    BY <1>3, <1>4
  <2> QED BY <1>1, <1>2, <1>8, <1>9, <2>1 DEF IsJob
<1>11. job' # NoJob
  BY <1>9, <1>2 DEF IsJob, NoJob
<1>12. IndexTypes'
  BY <1>1, <1>2, <1>7, <1>10 DEF IndexTypes, Merging
<1>13. Settled'
  BY <1>11 DEF Settled
<1>14. Running'
  <2> SUFFICES ASSUME Sound'
               PROVE  /\ Rowed(job'.old, embedder') /\ Truthful(disk', edits', job'.old.chunks, job'.old.files)
                      /\ Merged(index, job.src, job.full, job.base)'
    BY DEF Running
  <2>1. Sound
    BY <1>1, <1>9 DEF Sound
  <2>2. Merged(m.index, m.src, m.full, hi)
    BY <1>7, <2>1 DEF Merging
  <2>3. Merged(index, job.src, job.full, job.base)'
    BY <1>1, <1>9, <2>2 DEF Merged
  <2> QED BY <1>1, <1>5, <1>9, <2>1, <2>3 DEF OldIsTrue
<1>15. CacheIsTrue'
  BY <1>1 DEF IndexInv, CacheIsTrue
<1> QED BY <1>12, <1>13, <1>14, <1>15 DEF IndexInv

\* The copied rows are those the embedder would give: the chunks they were made of are
\* the same.
LEMMA RowsAreTrue ==
    ASSUME NEW chunks, NEW src, NEW old, Rowed(old, embedder), old.chunks \in Seq(Chunk),
           chunks \in Seq(Chunk), Copied(old.chunks, chunks, src)
    PROVE  Rows(chunks, src, old) = [i \in DOMAIN chunks |-> Row(chunks[i], embedder)]
<1>1. old.dense = [i \in DOMAIN old.chunks |-> Row(old.chunks[i], embedder)]
  BY DEF Rowed
<1>2. DOMAIN chunks = 1..Len(chunks) /\ DOMAIN old.chunks = 1..Len(old.chunks)
  OBVIOUS
<1>3. ASSUME NEW i \in 1..Len(chunks), src[i] > 0, src[i] <= Len(old.dense)
      PROVE  old.dense[src[i]] = Row(chunks[i], embedder)
  <2>1. src[i] \in 1..Len(old.chunks) /\ old.chunks[src[i]] = chunks[i]
    BY <1>3 DEF Copied
  <2> QED BY <1>1, <1>2, <2>1
<1> QED BY <1>2, <1>3 DEF Rows

LEMMA DoneStep ==
    ASSUME IndexInv, IngestDone
    PROVE  IndexInv'
<1> DEFINE rows == Rows(index.chunks, job.src, job.old)
<1>1. /\ job # NoJob /\ (job.base >= Len(job.entries) \/ job.full) /\ job' = NoJob
      /\ index' = [index EXCEPT !.by_path = Places(index.chunks), !.inv = index.chunks,
                                !.dense = rows]
      /\ whole' = (whole \/ job.name = "scan")
      /\ walked' = IF job.full THEN <<>> ELSE job.entries
      /\ UNCHANGED <<disk, edits, embedder>>
  BY DEF IngestDone
<1>2. IndexTypes /\ IsJob(edits, job) /\ IsIndex(index)
  BY <1>1 DEF IndexInv, IndexTypes
<1> HIDE DEF rows
<1>3. index' = [chunks |-> index.chunks, dense |-> rows, inv |-> index.chunks,
                by_path |-> Places(index.chunks), files |-> index.files]
  BY <1>1, <1>2 DEF IsIndex
<1>4. /\ index'.chunks = index.chunks /\ index'.files = index.files /\ index'.dense = rows
      /\ index'.inv = index.chunks /\ index'.by_path = Places(index.chunks) /\ IsIndex(index')
  BY <1>3 DEF IsIndex
<1>5. Listed(edits, walked')
  BY <1>1, <1>2, EmptyIsTrue DEF IsJob
<1>6. IndexTypes'
  BY <1>1, <1>2, <1>4, <1>5 DEF IndexTypes
<1>7. Sound => Merged(index, job.src, job.full, job.base) /\ Rowed(job.old, embedder)
               /\ Truthful(disk, edits, job.old.chunks, job.old.files)
  BY <1>1 DEF IndexInv, Running
<1>8. ASSUME Sound PROVE /\ Rowed(index', embedder) /\ Truthful(disk, edits, index'.chunks, index'.files)
                         /\ rows = [i \in DOMAIN index.chunks |-> Row(index.chunks[i], embedder)]
  <2>1. rows = [i \in DOMAIN index.chunks |-> Row(index.chunks[i], embedder)]
    BY <1>7, <1>8, RowsAreTrue DEF Merged, Truthful, rows
  <2>2. index'.dense = [i \in DOMAIN index'.chunks |-> Row(index'.chunks[i], embedder)]
    BY <1>4, <2>1
  <2>3. Rowed(index', embedder)
    BY <1>4, <2>2 DEF Rowed
  <2> QED BY <1>4, <1>7, <1>8, <2>1, <2>3 DEF Merged
<1>9. Settled'
  <2> SUFFICES ASSUME whole'
               PROVE  /\ Rowed(index', embedder') /\ Truthful(disk', edits', index'.chunks, index'.files)
                      /\ Recorded(disk', walked', Len(walked'), index'.files)
    BY DEF Settled
  <2>1. Sound
    BY <1>1 DEF Sound
  <2>2. Recorded(disk, walked', Len(walked'), index.files)
    <3>1. CASE job.full
      BY <1>1, <3>1 DEF Recorded
    <3>2. CASE ~job.full
      <4>1. walked' = job.entries /\ Recorded(disk, job.entries, job.base, index.files)
        BY <1>1, <1>7, <2>1, <3>2 DEF Merged
      <4>2. job.base = Len(job.entries)
        BY <1>1, <1>2, <3>2 DEF IsJob, Listed
      <4> QED BY <4>1, <4>2
    <3> QED BY <3>1, <3>2
  <2> QED BY <1>1, <1>4, <1>8, <2>1, <2>2
<1>10. Running'
  BY <1>1 DEF Running
<1>11. CacheIsTrue'
  <2>1. CASE job.name = "refresh"
    <3>1. UNCHANGED cache
      BY <2>1 DEF IngestDone
    <3> QED BY <1>1, <3>1 DEF IndexInv, CacheIsTrue
  <2>2. CASE job.name # "refresh"
    <3>1. Sound
      BY <1>2, <2>2 DEF IsJob, Sound
    <3>2. cache' \in {[state |-> "torn"],
                      [state |-> "good", by |-> embedder, chunks |-> index'.chunks,
                       dense |-> index'.dense, files |-> index'.files]}
      BY <2>2 DEF IngestDone
    <3>3. CASE cache' = [state |-> "torn"]
      BY <3>3 DEF CacheIsTrue
    <3>4. CASE cache' = [state |-> "good", by |-> embedder, chunks |-> index'.chunks,
                         dense |-> index'.dense, files |-> index'.files]
      <4>1. /\ cache'.chunks = index.chunks /\ cache'.files = index.files /\ cache'.dense = rows
            /\ cache'.by = embedder
        BY <1>4, <3>4
      <4>2. Truthful(disk', edits', cache'.chunks, cache'.files)
        BY <1>1, <1>4, <1>8, <3>1, <4>1
      <4>3. cache'.dense = [i \in DOMAIN cache'.chunks |-> Row(cache'.chunks[i], cache'.by)]
        BY <1>8, <3>1, <4>1
      <4> QED BY <4>2, <4>3 DEF CacheIsTrue
    <3> QED BY <3>2, <3>3, <3>4
  <2> QED BY <2>1, <2>2
<1> QED BY <1>6, <1>9, <1>10, <1>11 DEF IndexInv

LEMMA EmbedderStep ==
    ASSUME IndexInv, NEW e \in Embedders, SetEmbedder(e)
    PROVE  IndexInv'
<1> DEFINE rows == [i \in DOMAIN index.chunks |-> Row(index.chunks[i], e)]
<1>1. /\ job = NoJob /\ embedder' = e /\ index' = [index EXCEPT !.dense = rows]
      /\ UNCHANGED <<disk, edits, job, cache, whole, walked>>
  BY DEF SetEmbedder
<1>2. IndexTypes /\ IsIndex(index)
  BY DEF IndexInv, IndexTypes
<1> HIDE DEF rows
<1>3. index' = [chunks |-> index.chunks, dense |-> rows, inv |-> index.inv,
                by_path |-> index.by_path, files |-> index.files]
  BY <1>1, <1>2 DEF IsIndex
<1>4. /\ index'.chunks = index.chunks /\ index'.files = index.files /\ index'.dense = rows
      /\ index'.inv = index.inv /\ index'.by_path = index.by_path /\ IsIndex(index')
  BY <1>3 DEF IsIndex
<1>5. IndexTypes'
  BY <1>1, <1>2, <1>4 DEF IndexTypes
<1>6. ASSUME whole
      PROVE  /\ Rowed(index', e) /\ Truthful(disk, edits, index'.chunks, index'.files)
             /\ Recorded(disk, walked, Len(walked), index'.files)
  <2>1. /\ Rowed(index, embedder) /\ Truthful(disk, edits, index.chunks, index.files)
        /\ Recorded(disk, walked, Len(walked), index.files)
    BY <1>1, <1>6 DEF IndexInv, Settled
  <2>2. index'.dense = [i \in DOMAIN index'.chunks |-> Row(index'.chunks[i], e)]
    BY <1>4 DEF rows
  <2>3. Rowed(index', e)
    BY <1>4, <2>1, <2>2 DEF Rowed
  <2> QED BY <1>4, <2>1, <2>3
<1>7. Settled'
  BY <1>1, <1>6 DEF Settled
<1>8. Running' /\ CacheIsTrue'
  BY <1>1 DEF IndexInv, Running, CacheIsTrue
<1> QED BY <1>5, <1>7, <1>8 DEF IndexInv

LEMMA LoadStep ==
    ASSUME IndexInv, Load
    PROVE  IndexInv'
<1>1. /\ job = NoJob /\ cache.state = "good" /\ cache.by = embedder
      /\ index' = [chunks |-> cache.chunks, dense |-> cache.dense, inv |-> cache.chunks,
                   by_path |-> Places(cache.chunks), files |-> cache.files]
      /\ walked' = <<>> /\ UNCHANGED <<disk, edits, embedder, job, cache>>
  BY DEF Load
<1>2. /\ index'.chunks = cache.chunks /\ index'.files = cache.files /\ index'.dense = cache.dense
      /\ index'.inv = cache.chunks /\ index'.by_path = Places(cache.chunks) /\ IsIndex(index')
  BY <1>1 DEF IsIndex
<1>3. /\ Truthful(disk, edits, cache.chunks, cache.files)
      /\ cache.dense = [i \in DOMAIN cache.chunks |-> Row(cache.chunks[i], embedder)]
  BY <1>1 DEF IndexInv, CacheIsTrue
<1>4. Rowed(index', embedder)
  BY <1>2, <1>3 DEF Rowed
<1>5. IndexTypes'
  BY <1>1, <1>2, EmptyIsTrue DEF IndexInv, IndexTypes
<1>6. Settled'
  BY <1>1, <1>2, <1>3, <1>4 DEF Settled, Recorded
<1>7. Running' /\ CacheIsTrue'
  BY <1>1 DEF IndexInv, Running, CacheIsTrue
<1> QED BY <1>5, <1>6, <1>7 DEF IndexInv

LEMMA IndexStep == IndexInv /\ [CodebaseNext]_xvars => IndexInv'
<1> SUFFICES ASSUME IndexInv, [CodebaseNext]_xvars PROVE IndexInv'
  OBVIOUS
<1>1. ASSUME NEW p \in Files, Edit(p) PROVE IndexInv'
  BY <1>1, EditStep
<1>2. CASE Scan
  <2>1. /\ job = NoJob /\ StartIngest("scan", EmptyIndex)
        /\ UNCHANGED <<disk, edits, embedder, cache, whole, walked>>
    BY <1>2 DEF Scan
  <2>2. IsIndex(EmptyIndex) /\ Rowed(EmptyIndex, embedder)
        /\ Truthful(disk, edits, EmptyIndex.chunks, EmptyIndex.files)
    BY EmptyIsTrue
  <2> QED BY <2>1, <2>2, StartStep
<1>3. CASE Refresh
  <2>1. /\ job = NoJob /\ StartIngest("refresh", index)
        /\ UNCHANGED <<disk, edits, embedder, cache, whole, walked>>
    BY <1>3 DEF Refresh
  <2>2. IsIndex(index)
    BY DEF IndexInv, IndexTypes
  <2>3. whole => Rowed(index, embedder) /\ Truthful(disk, edits, index.chunks, index.files)
    BY <2>1 DEF IndexInv, Settled
  <2> QED BY <2>1, <2>2, <2>3, StartStep
<1>4. CASE ScanCancelled
  BY <1>4, EmptiedStep DEF ScanCancelled
<1>5. CASE IngestBatch
  BY <1>5, BatchStep
<1>6. CASE IngestCancelled
  <2>1. job' = NoJob /\ whole' = FALSE /\ UNCHANGED <<disk, edits, embedder, index, cache, walked>>
    BY <1>6 DEF IngestCancelled
  <2> QED BY <2>1 DEF IndexInv, IndexTypes, Settled, Running, CacheIsTrue
<1>7. CASE IngestDone
  BY <1>7, DoneStep
<1>8. ASSUME NEW e \in Embedders, SetEmbedder(e) PROVE IndexInv'
  BY <1>8, EmbedderStep
<1>9. CASE Clear
  BY <1>9, EmptiedStep DEF Clear
<1>10. CASE Stop
  BY <1>10, EmptiedStep DEF Stop
<1>11. CASE Load
  BY <1>11, LoadStep
<1>12. CASE UNCHANGED xvars
  <2>1. UNCHANGED <<disk, edits, embedder, index, job, cache, whole, walked>>
    BY ONLY <1>12 DEF xvars
  <2> QED BY <2>1 DEF IndexInv, IndexTypes, Settled, Running, CacheIsTrue, Merged, Sound
<1> QED BY <1>1, <1>2, <1>3, <1>4, <1>5, <1>6, <1>7, <1>8, <1>9, <1>10, <1>11, <1>12
        DEF CodebaseNext

LEMMA InvIsTrue == IndexInv => IndexIsTrue
<1> SUFFICES ASSUME IndexInv, job = NoJob, whole
             PROVE  SidesAgree /\ RecordsAreTrue /\ NothingMissing
  BY Zenon DEF IndexIsTrue
<1>1. /\ IndexTypes /\ Rowed(index, embedder) /\ Truthful(disk, edits, index.chunks, index.files)
      /\ Recorded(disk, walked, Len(walked), index.files)
  BY DEF IndexInv, Settled
<1>2. /\ index.chunks \in Seq(Chunk) /\ index.files \in Seq(Entry)
      /\ DOMAIN index.chunks = 1..Len(index.chunks) /\ DOMAIN index.files = 1..Len(index.files)
  BY ONLY <1>1 DEF Truthful, Listed
<1>3. SidesAgree
  BY ONLY <1>1, SMTT(20) DEF Rowed, SidesAgree
<1>4. RecordsAreTrue
  <2>1. \A i \in DOMAIN index.chunks :
           \E k \in DOMAIN index.files : index.files[k].path = index.chunks[i].path
    BY <1>1, <1>2 DEF Truthful
  <2>2. ASSUME NEW k \in DOMAIN index.files
        PROVE  LET r == index.files[k]
                   ids == Ascending(Places(index.chunks)[r.path])
                   own == [n \in DOMAIN ids |-> index.chunks[ids[n]]]
               IN  /\ \E h \in [time : 0..edits, kind : TextKinds] : own = ChunksOf(r.path, h)
                   /\ disk[r.path] = r.file => own = ChunksOf(r.path, r.file)
    <3> DEFINE r == index.files[k]
               ids == Ascending(Places(index.chunks)[r.path])
               own == [n \in DOMAIN ids |-> index.chunks[ids[n]]]
    <3>0. \A j \in 1..Len(index.files) : index.files[j] \in Entry
      BY <1>2
    <3>1. r \in Entry /\ r.path \in Files
      BY <1>2, <3>0 DEF Entry
    <3>2. PICK b \in Nat, g \in TextFile :
             ReadAt(index.chunks, r.path, b, g) /\ g.time <= edits /\ (disk[r.path] = r.file => g = r.file)
      BY <1>1, <1>2 DEF Truthful
    <3> DEFINE c == ChunkCount[g.kind]
    <3>3. c \in {0, 1, 2} /\ ChunksOf(r.path, g) = [n \in 1..c |-> [path |-> r.path, text |-> g.time, n |-> n]]
      BY <3>1, ChunksAre DEF ChunksOf
    <3>4. /\ Places(index.chunks)[r.path] = (b + 1)..(b + c)
          /\ \A n \in 1..c : index.chunks[b + n] = [path |-> r.path, text |-> g.time, n |-> n]
      BY <3>2 DEF ReadAt
    <3> HIDE DEF c, r
    <3>5. ids = [n \in 1..c |-> b + n]
      BY <3>3, <3>4, AscendingRun
    <3> HIDE DEF ids
    <3>6. DOMAIN ids = 1..c /\ \A n \in 1..c : ids[n] = b + n
      BY <3>5
    <3>7. own = ChunksOf(r.path, g)
      BY <3>3, <3>4, <3>6
    <3>8. g \in [time : 0..edits, kind : TextKinds]
      BY <1>1, <3>2 DEF IndexTypes, TextFile
    <3> HIDE DEF own
    <3> QED BY <3>2, <3>7, <3>8 DEF own, ids, r
  <2> QED BY <2>1, <2>2 DEF RecordsAreTrue
<1>5. NothingMissing
  <2> SUFFICES ASSUME walked = Walk, NEW p \in Files, disk[p].kind \in TextKinds
               PROVE  \E k \in DOMAIN index.files : index.files[k] = [path |-> p, file |-> disk[p]]
    BY DEF NothingMissing
  <2>1. disk[p] # Missing
    BY DEF Missing, TextKinds
  <2>2. PICK k \in 1..Len(Walk) : Walk[k] = [path |-> p, file |-> disk[p]]
    BY <1>1, <2>1, WalkLists
  <2>3. \E j \in 1..Len(index.files) : index.files[j] = walked[k]
    BY <1>1, <2>2 DEF Recorded
  <2> QED BY <1>2, <2>2, <2>3
<1> QED BY <1>3, <1>4, <1>5

\* Whatever is scanned, refreshed, cancelled, cached, loaded and edited, in whatever order
\* and in whatever batches: unless an ingest was cancelled, rows, postings and places belong
\* to the chunks they lie beside, a recorded file has all the chunks of one reading and those
\* of the recorded one while the file is as recorded, and when nothing has changed since the
\* last walk every text is in (CodebaseIndex::ingest, load, set_embedder).
THEOREM IndexStaysTrue == CodebaseSpec => []IndexIsTrue
<1> QED BY IndexInitially, IndexStep, InvIsTrue, PTL DEF CodebaseSpec
-----------------------------------------------------------------------------
(* Sums (Added of QuantKernels).                                           *)

\* f has the sums of the first numbers of s.
SumsOf(f, s, n) == f[0] = 0 /\ \A k \in 1..n : f[k] = f[k - 1] + s[k]

LEMMA AddedIsSum ==
    ASSUME NEW n \in Nat, NEW s \in [1..n -> Int]
    PROVE  \E f \in [0..n -> Int] : SumsOf(f, s, n) /\ Added(s) = f[n]
<1> DEFINE good == {m \in 0..n : \E f \in [0..m -> Int] :
                       f = [k \in 0..m |-> IF k = 0 THEN 0 ELSE f[k - 1] + s[k]]}
<1>1. 0 \in good
  <2> DEFINE f == [k \in 0..0 |-> 0]
  <2>1. f \in [0..0 -> Int] /\ f = [k \in 0..0 |-> IF k = 0 THEN 0 ELSE f[k - 1] + s[k]]
    OBVIOUS
  <2> HIDE DEF f
  <2> QED BY <2>1
<1>2. ASSUME NEW m \in 1..n, m - 1 \in good PROVE m \in good
  <2>1. PICK f \in [0..(m - 1) -> Int] :
           f = [k \in 0..(m - 1) |-> IF k = 0 THEN 0 ELSE f[k - 1] + s[k]]
    BY <1>2
  <2> DEFINE g == [k \in 0..m |-> IF k = m THEN f[m - 1] + s[m] ELSE f[k]]
  <2>2. \A k \in 0..m : g[k] = IF k = m THEN f[m - 1] + s[m] ELSE f[k]
    OBVIOUS
  <2>3. g \in [0..m -> Int]
    <3>1. \A k \in 0..m : (IF k = m THEN f[m - 1] + s[m] ELSE f[k]) \in Int
      OBVIOUS
    <3> QED BY <3>1
  <2> HIDE DEF g
  <2>4. \A k \in 0..m : g[k] = IF k = 0 THEN 0 ELSE g[k - 1] + s[k]
    <3> TAKE k \in 0..m
    <3>1. CASE k = m
      BY <2>2, <3>1
    <3>2. CASE k # m
      <4>1. k \in 0..(m - 1) /\ g[k] = f[k]
        BY <2>2, <3>2
      <4>2. f[k] = IF k = 0 THEN 0 ELSE f[k - 1] + s[k]
        BY <2>1, <4>1
      <4>3. k # 0 => g[k - 1] = f[k - 1]
        BY <2>2, <3>2
      <4> QED BY <4>1, <4>2, <4>3
    <3> QED BY <3>1, <3>2
  <2>5. g = [k \in 0..m |-> IF k = 0 THEN 0 ELSE g[k - 1] + s[k]]
    BY <2>3, <2>4
  <2>6. m \in 0..n
    OBVIOUS
  <2> QED BY <2>3, <2>5, <2>6
<1> HIDE DEF good
<1>3. n \in good
  <2>1. \A m \in 1..n : m - 1 \in good => m \in good
    BY <1>2
  <2>2. \A m \in 0..n : m \in good
    BY <1>1, <2>1, UpTo
  <2> QED BY <2>2
<1>4. Len(s) = n
  OBVIOUS
<1> DEFINE sum == CHOOSE f : f = [k \in 0..n |-> IF k = 0 THEN 0 ELSE f[k - 1] + s[k]]
<1>5. Added(s) = sum[n]
  BY <1>4 DEF Added
<1>6. PICK f \in [0..n -> Int] : f = [k \in 0..n |-> IF k = 0 THEN 0 ELSE f[k - 1] + s[k]]
  BY <1>3 DEF good
<1>7. sum = [k \in 0..n |-> IF k = 0 THEN 0 ELSE sum[k - 1] + s[k]]
  BY <1>6
<1> HIDE DEF sum
<1>8. sum[0] = 0 /\ \A k \in 1..n : sum[k] = sum[k - 1] + s[k]
  <2>1. \A k \in 0..n : sum[k] = IF k = 0 THEN 0 ELSE sum[k - 1] + s[k]
    BY <1>7
  <2> QED BY <2>1
<1>9. \A k \in 0..n : sum[k] \in Int
  <2> DEFINE ints == {k \in Nat : sum[k] \in Int}
  <2>1. 0 \in ints
    BY <1>8
  <2>2. \A k \in 1..n : k - 1 \in ints => k \in ints
    BY <1>8
  <2> HIDE DEF ints
  <2>3. \A k \in 0..n : k \in ints
    BY <2>1, <2>2, UpTo
  <2> QED BY <2>3 DEF ints
<1>10. sum \in [0..n -> Int]
  <2>1. sum = [k \in 0..n |-> sum[k]]
    BY <1>7
  <2> QED BY <1>9, <2>1
<1> QED BY <1>5, <1>8, <1>10 DEF SumsOf

LEMMA SumIsAdded ==
    ASSUME NEW n \in Nat, NEW s \in [1..n -> Int], NEW f, SumsOf(f, s, n)
    PROVE  Added(s) = f[n]
<1>1. PICK g \in [0..n -> Int] : SumsOf(g, s, n) /\ Added(s) = g[n]
  BY AddedIsSum
<1> DEFINE good == {k \in Nat : f[k] = g[k]}
<1>2. 0 \in good
  BY <1>1 DEF SumsOf
<1>3. \A k \in 1..n : k - 1 \in good => k \in good
  BY <1>1 DEF SumsOf
<1> HIDE DEF good
<1>4. n \in good
  <2>1. \A k \in 0..n : k \in good
    BY <1>2, <1>3, UpTo
  <2> QED BY <2>1
<1> QED BY <1>1, <1>4 DEF good

\* The sum of nothing, and of one number more.
LEMMA AddedOneMore ==
    ASSUME NEW n \in Nat, NEW s \in [1..(n + 1) -> Int]
    PROVE  /\ Added(s) \in Int
           /\ Added(s) = Added([i \in 1..n |-> s[i]]) + s[n + 1]
<1>1. PICK f \in [0..(n + 1) -> Int] : SumsOf(f, s, n + 1) /\ Added(s) = f[n + 1]
  BY AddedIsSum
<1> DEFINE t == [i \in 1..n |-> s[i]]
<1>2. t \in [1..n -> Int] /\ SumsOf(f, t, n)
  BY <1>1 DEF SumsOf
<1>3. Added(t) = f[n]
  BY <1>2, SumIsAdded
<1>4. f[n + 1] = f[n] + s[n + 1] /\ f[n + 1] \in Int
  BY <1>1 DEF SumsOf
<1> QED BY <1>1, <1>3, <1>4

LEMMA AddedNone == ASSUME NEW s \in [1..0 -> Int] PROVE Added(s) = 0
<1>1. PICK f \in [0..0 -> Int] : SumsOf(f, s, 0) /\ Added(s) = f[0]
  BY AddedIsSum
<1> QED BY <1>1 DEF SumsOf

LEMMA AddedType == ASSUME NEW n \in Nat, NEW s \in [1..n -> Int] PROVE Added(s) \in Int
BY AddedIsSum

\* Sums of sums, of multiples, of pairs, and of two parts.
LEMMA AddedTogether ==
    ASSUME NEW n \in Nat, NEW s \in [1..n -> Int], NEW t \in [1..n -> Int]
    PROVE  Added([i \in 1..n |-> s[i] + t[i]]) = Added(s) + Added(t)
<1>1. PICK f \in [0..n -> Int] : SumsOf(f, s, n) /\ Added(s) = f[n]
  BY AddedIsSum
<1>2. PICK g \in [0..n -> Int] : SumsOf(g, t, n) /\ Added(t) = g[n]
  BY AddedIsSum
<1> DEFINE both == [i \in 1..n |-> s[i] + t[i]]
           h == [k \in 0..n |-> f[k] + g[k]]
<1>3. both \in [1..n -> Int] /\ \A k \in 1..n : both[k] = s[k] + t[k]
  OBVIOUS
<1>4. \A k \in 0..n : h[k] = f[k] + g[k]
  OBVIOUS
<1> HIDE DEF both, h
<1>5. SumsOf(h, both, n)
  <2>1. h[0] = 0
    <3>1. f[0] = 0 /\ g[0] = 0 /\ 0 \in 0..n
      BY <1>1, <1>2 DEF SumsOf
    <3>2. h[0] = f[0] + g[0]
      BY <1>4, <3>1
    <3> QED BY ONLY <3>1, <3>2
  <2>2. ASSUME NEW k \in 1..n PROVE h[k] = h[k - 1] + both[k]
    <3>0. k \in 0..n /\ k - 1 \in 0..n
      OBVIOUS
    <3>1. f[k] = f[k - 1] + s[k] /\ g[k] = g[k - 1] + t[k]
      BY <1>1, <1>2 DEF SumsOf
    <3>3. h[k] = f[k] + g[k] /\ h[k - 1] = f[k - 1] + g[k - 1] /\ both[k] = s[k] + t[k]
      BY <1>3, <1>4, <3>0
    <3>2. f[k - 1] \in Int /\ g[k - 1] \in Int /\ s[k] \in Int /\ t[k] \in Int
      BY <3>0
    <3>4. \A a, b, c, d \in Int : (a + c) + (b + d) = (a + b) + (c + d)
      OBVIOUS
    <3> QED BY <3>1, <3>2, <3>3, <3>4
  <2> QED BY <2>1, <2>2 DEF SumsOf
<1>6. Added(both) = h[n]
  BY <1>3, <1>5, SumIsAdded
<1> QED BY <1>1, <1>2, <1>4, <1>6 DEF both

LEMMA AddedTimes8 ==
    ASSUME NEW n \in Nat, NEW s \in [1..n -> Int]
    PROVE  Added([i \in 1..n |-> 8 * s[i]]) = 8 * Added(s)
<1>1. PICK f \in [0..n -> Int] : SumsOf(f, s, n) /\ Added(s) = f[n]
  BY AddedIsSum
<1> DEFINE t == [i \in 1..n |-> 8 * s[i]]
           h == [k \in 0..n |-> 8 * f[k]]
<1>2. t \in [1..n -> Int] /\ \A k \in 1..n : t[k] = 8 * s[k]
  OBVIOUS
<1>3. \A k \in 0..n : h[k] = 8 * f[k]
  OBVIOUS
<1> HIDE DEF t, h
<1>4. SumsOf(h, t, n)
  <2>1. h[0] = 0
    BY <1>1, <1>3 DEF SumsOf
  <2>2. ASSUME NEW k \in 1..n PROVE h[k] = h[k - 1] + t[k]
    <3>1. f[k] = f[k - 1] + s[k] /\ h[k] = 8 * f[k] /\ h[k - 1] = 8 * f[k - 1] /\ t[k] = 8 * s[k]
      BY <1>1, <1>2, <1>3, SMTT(20) DEF SumsOf
    <3>2. f[k - 1] \in Int /\ s[k] \in Int
      OBVIOUS
    <3> QED BY ONLY <3>1, <3>2
  <2> QED BY ONLY <2>1, <2>2 DEF SumsOf
<1>5. Added(t) = h[n]
  BY <1>2, <1>4, SumIsAdded
<1> QED BY <1>1, <1>3, <1>5 DEF t

LEMMA AddedPairs ==
    ASSUME NEW n \in Nat, NEW s \in [1..(2 * n) -> Int]
    PROVE  Added([k \in 1..n |-> s[2 * k - 1] + s[2 * k]]) = Added(s)
<1>1. PICK f \in [0..(2 * n) -> Int] : SumsOf(f, s, 2 * n) /\ Added(s) = f[2 * n]
  BY AddedIsSum
<1> DEFINE t == [k \in 1..n |-> s[2 * k - 1] + s[2 * k]]
           h == [k \in 0..n |-> f[2 * k]]
<1>2. t \in [1..n -> Int] /\ \A k \in 1..n : t[k] = s[2 * k - 1] + s[2 * k]
  OBVIOUS
<1>3. \A k \in 0..n : h[k] = f[2 * k]
  OBVIOUS
<1> HIDE DEF t, h
<1>4. SumsOf(h, t, n)
  <2>1. h[0] = 0
    BY <1>1, <1>3 DEF SumsOf
  <2>2. ASSUME NEW k \in 1..n PROVE h[k] = h[k - 1] + t[k]
    <3>1. 2 * k \in 1..(2 * n) /\ 2 * k - 1 \in 1..(2 * n) /\ 2 * (k - 1) = 2 * k - 1 - 1
      OBVIOUS
    <3>2. f[2 * k] = f[2 * k - 1] + s[2 * k] /\ f[2 * k - 1] = f[2 * k - 1 - 1] + s[2 * k - 1]
      BY <1>1, <3>1 DEF SumsOf
    <3>3. h[k] = f[2 * k] /\ h[k - 1] = f[2 * k - 1 - 1]
      BY <1>3, <3>1
    <3>4. f[2 * k - 1 - 1] \in Int /\ s[2 * k - 1] \in Int /\ s[2 * k] \in Int
      <4>1. 2 * k - 1 - 1 \in 0..(2 * n)
        OBVIOUS
      <4> QED BY <3>1, <4>1
    <3>5. t[k] = s[2 * k - 1] + s[2 * k]
      BY <1>2
    <3>6. \A a, b, c, d, e \in Int : a = b + c /\ b = d + e => a = d + (e + c)
      OBVIOUS
    <3>7. f[2 * k] \in Int /\ f[2 * k - 1] \in Int
      <4>1. 2 * k \in 0..(2 * n) /\ 2 * k - 1 \in 0..(2 * n)
        OBVIOUS
      <4> QED BY <4>1
    <3>8. f[2 * k] = f[2 * k - 1 - 1] + (s[2 * k - 1] + s[2 * k])
      BY ONLY <3>2, <3>4, <3>6, <3>7
    <3> QED BY <3>3, <3>5, <3>8
  <2> QED BY <2>1, <2>2 DEF SumsOf
<1>5. Added(t) = h[n]
  BY <1>2, <1>4, SumIsAdded
<1> QED BY <1>1, <1>3, <1>5 DEF t

LEMMA AddedParts ==
    ASSUME NEW m \in Nat, NEW r \in Nat, NEW s \in [1..(m + r) -> Int]
    PROVE  Added(s) = Added([i \in 1..m |-> s[i]]) + Added([i \in 1..r |-> s[m + i]])
<1>1. PICK f \in [0..(m + r) -> Int] : SumsOf(f, s, m + r) /\ Added(s) = f[m + r]
  BY AddedIsSum
<1> DEFINE t == [i \in 1..m |-> s[i]]
           u == [i \in 1..r |-> s[m + i]]
           h == [k \in 0..r |-> f[m + k] - f[m]]
<1>2. t \in [1..m -> Int] /\ SumsOf(f, t, m)
  BY <1>1 DEF SumsOf
<1>3. u \in [1..r -> Int] /\ \A k \in 1..r : u[k] = s[m + k]
  OBVIOUS
<1>4. \A k \in 0..r : h[k] = f[m + k] - f[m]
  OBVIOUS
<1>5. Added(t) = f[m]
  BY <1>2, SumIsAdded
<1> HIDE DEF t, u, h
<1>6. SumsOf(h, u, r)
  <2>1. h[0] = 0
    BY <1>4
  <2>2. ASSUME NEW k \in 1..r PROVE h[k] = h[k - 1] + u[k]
    <3>1. m + k \in 1..(m + r) /\ m + (k - 1) = m + k - 1
      OBVIOUS
    <3>2. f[m + k] = f[m + k - 1] + s[m + k]
      BY <1>1, <3>1 DEF SumsOf
    <3>3. f[m] \in Int /\ f[m + k - 1] \in Int /\ s[m + k] \in Int
      BY <3>1
    <3>4. h[k] = f[m + k] - f[m] /\ h[k - 1] = f[m + k - 1] - f[m]
      BY <1>4, <3>1
    <3> QED BY <1>3, <3>2, <3>3, <3>4
  <2> QED BY <2>1, <2>2 DEF SumsOf
<1>7. Added(u) = h[r]
  BY <1>3, <1>6, SumIsAdded
<1>8. h[r] = f[m + r] - f[m] /\ f[m + r] \in Int /\ f[m] \in Int
  BY <1>4
<1> QED BY <1>1, <1>5, <1>7, <1>8 DEF t, u
LEMMA AddedZeros == ASSUME NEW n \in Nat PROVE Added([i \in 1..n |-> 0]) = 0
<1> DEFINE s == [i \in 1..n |-> 0]
           f == [k \in 0..n |-> 0]
<1>1. s \in [1..n -> Int] /\ \A k \in 1..n : s[k] = 0
  OBVIOUS
<1>2. \A k \in 0..n : f[k] = 0
  OBVIOUS
<1> HIDE DEF s, f
<1>3. SumsOf(f, s, n)
  BY <1>1, <1>2 DEF SumsOf
<1>4. Added(s) = f[n]
  BY <1>1, <1>3, SumIsAdded
<1> QED BY <1>2, <1>4 DEF s

LEMMA TimesGrows ==
    ASSUME NEW x \in Int, NEW y \in Int, NEW l \in Nat, x <= y
    PROVE  x * l \in Int /\ y * l \in Int /\ x * l <= y * l
<1>1. (y - x) * l >= 0 /\ (y - x) * l = y * l - x * l
  OBVIOUS
<1> QED BY <1>1

\* Position u of batch b, among batches of l.
LEMMA Position ==
    ASSUME NEW l \in Nat, NEW n \in Nat, NEW b \in 1..n, NEW u \in 1..l
    PROVE  /\ (b - 1) * l \in Nat /\ b * l = (b - 1) * l + l /\ b * l \in Nat /\ b * l <= n * l
           /\ (b - 1) * l + u \in 1..(b * l) /\ (b - 1) * l + u \in 1..(n * l)
<1>1. (b - 1) * l >= 0 * l /\ (b - 1) * l \in Int /\ b * l \in Int /\ n * l \in Int /\ b * l <= n * l
  BY TimesGrows
<1>2. b * l = (b - 1) * l + l /\ 0 * l = 0
  OBVIOUS
<1> QED BY ONLY <1>1, <1>2, u \in 1..l, l \in Nat

\* Adding up every l-th number and then the l sums gives the sum.
LEMMA AddedLanes ==
    ASSUME NEW l \in Nat \ {0}, NEW n \in Nat, NEW s \in [1..(n * l) -> Int]
    PROVE  Added([u \in 1..l |-> Added([b \in 1..n |-> s[(b - 1) * l + u]])]) = Added(s)
<1> DEFINE column(u, m) == [b \in 1..m |-> s[(b - 1) * l + u]]
           first(m) == [i \in 1..(m * l) |-> s[i]]
           sums(m) == [u \in 1..l |-> Added(column(u, m))]
           good == {m \in 0..n : Added(sums(m)) = Added(first(m))}
<1>1. ASSUME NEW m \in 0..n, NEW u \in 1..l
      PROVE  column(u, m) \in [1..m -> Int] /\ Added(column(u, m)) \in Int
  <2>1. ASSUME NEW b \in 1..m PROVE s[(b - 1) * l + u] \in Int
    <3>1. b \in 1..n
      OBVIOUS
    <3>2. (b - 1) * l + u \in 1..(n * l)
      BY <3>1, Position
    <3> QED BY <3>2
  <2>2. column(u, m) \in [1..m -> Int]
    BY <2>1
  <2> HIDE DEF column
  <2> QED BY <2>2, AddedType
<1>2. ASSUME NEW m \in 0..n
      PROVE  m * l \in Nat /\ m * l <= n * l /\ first(m) \in [1..(m * l) -> Int]
  <2>1. m * l \in Int /\ n * l \in Int /\ 0 * l <= m * l /\ m * l <= n * l /\ 0 * l = 0
    BY TimesGrows
  <2>2. \A i \in 1..(m * l) : i \in 1..(n * l)
    BY ONLY <2>1
  <2> QED BY <2>1, <2>2
<1>3. 0 \in good
  <2>1. sums(0) = [u \in 1..l |-> 0]
    <3>1. ASSUME NEW u \in 1..l PROVE Added(column(u, 0)) = 0
      <4>1. column(u, 0) \in [1..0 -> Int]
        BY <1>1
      <4> HIDE DEF column
      <4> QED BY <4>1, AddedNone
    <3> HIDE DEF column
    <3> QED BY <3>1
  <2>2. Added(sums(0)) = 0
    BY <2>1, AddedZeros
  <2>3. first(0) \in [1..0 -> Int]
    <3>1. 0 * l = 0 /\ 0 \in 0..n
      OBVIOUS
    <3> HIDE DEF first
    <3> QED BY <1>2, <3>1
  <2>4. Added(first(0)) = 0
    BY <2>3, AddedNone
  <2> QED BY <2>2, <2>4
<1>4. ASSUME NEW m \in 1..n, m - 1 \in good PROVE m \in good
  <2> DEFINE k == m - 1
             next == [u \in 1..l |-> s[k * l + u]]
  <2>1. k \in 0..n /\ m \in 0..n /\ k \in Nat /\ k + 1 = m
    OBVIOUS
  <2>2. k * l \in Nat /\ m * l = k * l + l /\ \A u \in 1..l : k * l + u \in 1..(n * l)
    <3>1. 1 \in 1..l
      OBVIOUS
    <3> QED BY <3>1, Position
  <2> HIDE DEF k
  <2>3. next \in [1..l -> Int]
    BY <2>2
  <2>4. ASSUME NEW u \in 1..l
        PROVE  Added(column(u, m)) = Added(column(u, k)) + next[u]
    <3>1. column(u, m) \in [1..(k + 1) -> Int]
      BY <1>1, <2>1
    <3>2. Added(column(u, m)) = Added([b \in 1..k |-> column(u, m)[b]]) + column(u, m)[k + 1]
      <4> HIDE DEF column
      <4> QED BY <2>1, <3>1, AddedOneMore
    <3>3. [b \in 1..k |-> column(u, m)[b]] = column(u, k)
      <4>1. \A b \in 1..k : column(u, m)[b] = s[(b - 1) * l + u]
        BY <2>1
      <4> QED BY <4>1
    <3>4. column(u, m)[k + 1] = next[u]
      <4>1. k + 1 \in 1..m /\ (k + 1) - 1 = k
        BY <2>1
      <4> QED BY <4>1
    <3> QED BY <3>2, <3>3, <3>4
  <2>5. sums(k) \in [1..l -> Int] /\ \A u \in 1..l : sums(k)[u] = Added(column(u, k))
    <3> HIDE DEF column
    <3> QED BY <1>1, <2>1
  <2>6. sums(m) = [u \in 1..l |-> sums(k)[u] + next[u]]
    <3> HIDE DEF column, next
    <3> QED BY <2>4, <2>5
  <2>7. Added(sums(m)) = Added(sums(k)) + Added(next)
    <3> DEFINE before == sums(k)
    <3> HIDE DEF sums, next
    <3>1. before \in [1..l -> Int] /\ l \in Nat
      BY <2>5
    <3>2. Added([u \in 1..l |-> before[u] + next[u]]) = Added(before) + Added(next)
      <4> HIDE DEF before
      <4> QED BY <2>3, <3>1, AddedTogether
    <3> QED BY <2>6, <3>2
  <2>8. first(m) \in [1..(k * l + l) -> Int]
    <3>1. first(m) \in [1..(m * l) -> Int]
      BY <1>2, <2>1
    <3> HIDE DEF first
    <3> QED BY <2>2, <3>1
  <2>9. Added(first(m)) = Added([i \in 1..(k * l) |-> first(m)[i]]) + Added([i \in 1..l |-> first(m)[k * l + i]])
    <3> HIDE DEF first
    <3> QED BY <2>2, <2>8, AddedParts
  <2>10. [i \in 1..(k * l) |-> first(m)[i]] = first(k)
    <3>1. \A i \in 1..(k * l) : i \in 1..(m * l)
      BY ONLY <2>2, l \in Nat
    <3> QED BY <3>1
  <2>11. [i \in 1..l |-> first(m)[k * l + i]] = next
    <3>1. \A i \in 1..l : k * l + i \in 1..(m * l)
      BY ONLY <2>2, l \in Nat
    <3> QED BY <3>1
  <2>12. Added(sums(k)) = Added(first(k))
    BY <1>4 DEF k
  <2>13. Added(sums(m)) = Added(first(m))
    <3> HIDE DEF first, sums, next
    <3> QED BY <2>7, <2>9, <2>10, <2>11, <2>12
  <2> HIDE DEF first, sums
  <2> QED BY <2>1, <2>13
<1>5. n \in good
  <2> HIDE DEF good
  <2>1. \A m \in 1..n : m - 1 \in good => m \in good
    BY <1>4
  <2>2. \A m \in 0..n : m \in good
    BY <1>3, <2>1, UpTo
  <2> QED BY <2>2
<1>6. Added(sums(n)) = Added(first(n))
  <2> HIDE DEF sums, first
  <2> QED BY <1>5
<1>7. first(n) = s
  OBVIOUS
<1> QED BY <1>6, <1>7
-----------------------------------------------------------------------------
(* The integer kernels (QuantKernels).                                     *)

Codes4 == [1..GroupSize -> -8..7]
Codes8 == [1..GroupSize -> -127..127]

LEMMA Quarters ==
    \E q \in Nat : GroupSize = 4 * q /\ HalfGroup = 2 * q /\ GroupSize = HalfGroup + HalfGroup
                   /\ HalfGroup \div 2 = q /\ HalfGroup \in Nat /\ GroupSize \in Nat
<1>1. GroupSize \in Nat /\ GroupSize % 4 = 0
  BY QuantKernelsAssumption
<1> DEFINE q == GroupSize \div 4
<1>2. q \in Nat /\ GroupSize = 4 * q
  BY <1>1
<1> HIDE DEF q
<1>3. HalfGroup = 2 * q
  BY <1>2 DEF HalfGroup
<1> QED BY <1>2, <1>3

\* A code of four bits, and two in a byte.
LEMMA NibblesOf ==
    ASSUME NEW x \in -8..7, NEW y \in -8..7
    PROVE  /\ (x + 8) + 16 * (y + 8) \in 0..255
           /\ Low((x + 8) + 16 * (y + 8)) = x + 8 /\ High((x + 8) + 16 * (y + 8)) = y + 8
  BY DEF Low, High

\* Packing loses nothing, and packs two codes into one byte (quantize_row, dequantize_row).
LEMMA PackingLosesNothing ==
    ASSUME NEW q \in Codes4
    PROVE  Unpacked(Packed(q)) = q /\ \A j \in 1..HalfGroup : Packed(q)[j] \in 0..255
<1>1. HalfGroup \in Nat /\ GroupSize \in Nat /\ GroupSize = HalfGroup + HalfGroup
  BY Quarters
<1>2. ASSUME NEW j \in 1..HalfGroup
      PROVE  /\ Packed(q)[j] \in 0..255 /\ Low(Packed(q)[j]) = q[j] + 8
             /\ High(Packed(q)[j]) = q[j + HalfGroup] + 8
  <2>1. j \in 1..GroupSize /\ j + HalfGroup \in 1..GroupSize
    BY <1>1
  <2>2. q[j] \in -8..7 /\ q[j + HalfGroup] \in -8..7
    BY <2>1 DEF Codes4
  <2>3. Packed(q)[j] = (q[j] + 8) + 16 * (q[j + HalfGroup] + 8)
    BY DEF Packed
  <2> QED BY <2>2, <2>3, NibblesOf
<1>3. ASSUME NEW i \in 1..GroupSize
      PROVE  (IF i <= HalfGroup THEN Low(Packed(q)[i]) - 8 ELSE High(Packed(q)[i - HalfGroup]) - 8) = q[i]
  <2>0. q[i] \in Int
    BY DEF Codes4
  <2>1. CASE i <= HalfGroup
    <3>1. i \in 1..HalfGroup
      BY <1>1, <2>1
    <3>2. Low(Packed(q)[i]) = q[i] + 8
      BY <1>2, <3>1
    <3> QED BY <2>0, <2>1, <3>2
  <2>2. CASE ~(i <= HalfGroup)
    <3>1. i - HalfGroup \in 1..HalfGroup /\ (i - HalfGroup) + HalfGroup = i
      BY <1>1, <2>2
    <3>2. High(Packed(q)[i - HalfGroup]) = q[i] + 8
      BY <1>2, <3>1
    <3> QED BY <2>0, <2>2, <3>2
  <2> QED BY <2>1, <2>2
<1>4. Unpacked(Packed(q)) = [i \in 1..GroupSize |-> q[i]]
  BY <1>3 DEF Unpacked
<1> QED BY <1>2, <1>4 DEF Codes4

LEMMA ProductBound ==
    ASSUME NEW m \in Nat, NEW x \in 0..m, NEW y \in -127..127
    PROVE  x * y \in Int /\ -(127 * m) <= x * y /\ x * y <= 127 * m
<1>1. x * (127 - y) >= 0 /\ x * (127 + y) >= 0
  OBVIOUS
<1>2. x * (127 - y) = 127 * x - x * y /\ x * (127 + y) = 127 * x + x * y
  OBVIOUS
<1>3. x * y \in Int
  OBVIOUS
<1> DEFINE p == x * y
<1> HIDE DEF p
<1>4. 127 * x - p >= 0 /\ 127 * x + p >= 0 /\ p \in Int
  BY <1>1, <1>2, <1>3 DEF p
<1>5. -(127 * m) <= p /\ p <= 127 * m
  BY <1>4
<1> QED BY <1>3, <1>5 DEF p

LEMMA InRange ==
    ASSUME NEW r \in Int, -32768 <= r, r <= 32767
    PROVE  Saturate16(r) = r /\ Wrap16(r) = r
<1>1. Saturate16(r) = r
  BY DEF Saturate16, Clamp
<1>2. r + 32768 \in Int /\ 0 <= r + 32768 /\ r + 32768 < 65536
  OBVIOUS
<1>3. (r + 32768) % 65536 = r + 32768
  BY <1>2
<1> QED BY <1>1, <1>3 DEF Wrap16

\* A lane of the 4-bit kernel never saturates (quant.cpp: |15 * 127 * 2| = 3810), and two
\* of them never wrap; nor does a lane of the 8-bit kernel saturate.
OfTwo(x, a, y, b) == x * a + y * b
FitsHalf(r) == r \in Int /\ -3810 <= r /\ r <= 3810 /\ Saturate16(r) = r

LEMMA LanesOfFour ==
    ASSUME NEW x \in 0..15, NEW y \in 0..15, NEW a \in -127..127, NEW b \in -127..127
    PROVE  FitsHalf(OfTwo(x, a, y, b))
<1> DEFINE p == x * a
           q == y * b
<1>1. /\ p \in Int /\ -(127 * 15) <= p /\ p <= 127 * 15
      /\ q \in Int /\ -(127 * 15) <= q /\ q <= 127 * 15
  BY ProductBound
<1> HIDE DEF p, q
<1>2. p + q \in Int /\ -3810 <= p + q /\ p + q <= 3810
  BY ONLY <1>1
<1>3. Saturate16(p + q) = p + q
  BY <1>2, InRange
<1> QED BY <1>2, <1>3 DEF p, q, OfTwo, FitsHalf

LEMMA LanesOfEight ==
    ASSUME NEW x \in 0..127, NEW y \in 0..127, NEW a \in -127..127, NEW b \in -127..127
    PROVE  Saturate16(OfTwo(x, a, y, b)) = OfTwo(x, a, y, b)
<1> DEFINE p == x * a
           q == y * b
<1>1. /\ p \in Int /\ -(127 * 127) <= p /\ p <= 127 * 127
      /\ q \in Int /\ -(127 * 127) <= q /\ q <= 127 * 127
  BY ProductBound
<1> HIDE DEF p, q
<1>2. p + q \in Int /\ -32768 <= p + q /\ p + q <= 32767
  BY ONLY <1>1
<1>3. Saturate16(p + q) = p + q
  BY <1>2, InRange
<1> QED BY <1>3 DEF p, q, OfTwo

\* The products of a 4-bit group: of the low codes, and of the high ones.
LowProducts(w, a) == [j \in 1..HalfGroup |-> (w[j] + 8) * a[j]]
HighProducts(w, a) == [j \in 1..HalfGroup |-> (w[j + HalfGroup] + 8) * a[j + HalfGroup]]

LEMMA ProductTypes ==
    ASSUME NEW w \in Codes4, NEW a \in Codes8
    PROVE  /\ LowProducts(w, a) \in [1..HalfGroup -> Int] /\ HighProducts(w, a) \in [1..HalfGroup -> Int]
           /\ \A j \in 1..HalfGroup :
                 /\ w[j] \in -8..7 /\ w[j + HalfGroup] \in -8..7
                 /\ a[j] \in -127..127 /\ a[j + HalfGroup] \in -127..127
                 /\ Low(Packed(w)[j]) = w[j] + 8 /\ High(Packed(w)[j]) = w[j + HalfGroup] + 8
           /\ a \in [1..(HalfGroup + HalfGroup) -> Int] /\ HalfGroup \in Nat
<1>1. HalfGroup \in Nat /\ GroupSize \in Nat /\ GroupSize = HalfGroup + HalfGroup
  BY Quarters
<1>2. ASSUME NEW j \in 1..HalfGroup
      PROVE  /\ w[j] \in -8..7 /\ w[j + HalfGroup] \in -8..7
             /\ a[j] \in -127..127 /\ a[j + HalfGroup] \in -127..127
             /\ Low(Packed(w)[j]) = w[j] + 8 /\ High(Packed(w)[j]) = w[j + HalfGroup] + 8
  <2>1. j \in 1..GroupSize /\ j + HalfGroup \in 1..GroupSize
    BY <1>1
  <2>2. w[j] \in -8..7 /\ w[j + HalfGroup] \in -8..7 /\ a[j] \in -127..127 /\ a[j + HalfGroup] \in -127..127
    BY <2>1 DEF Codes4, Codes8
  <2>3. Packed(w)[j] = (w[j] + 8) + 16 * (w[j + HalfGroup] + 8)
    BY DEF Packed
  <2> QED BY <2>2, <2>3, NibblesOf
<1>3. ASSUME NEW j \in 1..HalfGroup
      PROVE  (w[j] + 8) * a[j] \in Int /\ (w[j + HalfGroup] + 8) * a[j + HalfGroup] \in Int
  <2>1. \A x, y \in Int : (x + 8) * y \in Int
    OBVIOUS
  <2>3. \A x : (x \in -127..127 => x \in Int) /\ (x \in -8..7 => x \in Int)
    OBVIOUS
  <2>2. w[j] \in Int /\ w[j + HalfGroup] \in Int /\ a[j] \in Int /\ a[j + HalfGroup] \in Int
    BY ONLY <1>2, <2>3
  <2> QED BY ONLY <2>1, <2>2
<1>4. a \in [1..(HalfGroup + HalfGroup) -> Int]
  <2>2. -127..127 \subseteq Int
    OBVIOUS
  <2>1. a \in [1..GroupSize -> Int]
    BY ONLY <2>2, a \in Codes8 DEF Codes8
  <2> QED BY <1>1, <2>1
<1> QED BY <1>1, <1>2, <1>3, <1>4 DEF LowProducts, HighProducts
\* The scalar loop over the packed codes: correction by the sum of the activations.
LEMMA ScalarQ4Parts ==
    ASSUME NEW w \in Codes4, NEW a \in Codes8
    PROVE  /\ ScalarQ4(Packed(w), a)
                = Added(LowProducts(w, a)) + Added(HighProducts(w, a)) - 8 * Added(a)
           /\ Added(LowProducts(w, a)) \in Int /\ Added(HighProducts(w, a)) \in Int /\ Added(a) \in Int
<1> DEFINE p == LowProducts(w, a)
           q == HighProducts(w, a)
<1>1. /\ p \in [1..HalfGroup -> Int] /\ q \in [1..HalfGroup -> Int] /\ HalfGroup \in Nat
      /\ a \in [1..(HalfGroup + HalfGroup) -> Int]
  BY ProductTypes
<1>2. \A j \in 1..HalfGroup :
         Low(Packed(w)[j]) * a[j] + High(Packed(w)[j]) * a[j + HalfGroup] = p[j] + q[j]
  <2> TAKE j \in 1..HalfGroup
  <2>1. Low(Packed(w)[j]) = w[j] + 8 /\ High(Packed(w)[j]) = w[j + HalfGroup] + 8
    BY ProductTypes
  <2>2. p[j] = (w[j] + 8) * a[j] /\ q[j] = (w[j + HalfGroup] + 8) * a[j + HalfGroup]
    BY DEF LowProducts, HighProducts
  <2> HIDE DEF p, q
  <2> QED BY <2>1, <2>2
<1>3. ScalarQ4(Packed(w), a)
         = Added([j \in 1..HalfGroup |-> Low(Packed(w)[j]) * a[j] + High(Packed(w)[j]) * a[j + HalfGroup]])
           - 8 * Added(a)
  BY DEF ScalarQ4
<1> HIDE DEF p, q
<1>4. [j \in 1..HalfGroup |-> Low(Packed(w)[j]) * a[j] + High(Packed(w)[j]) * a[j + HalfGroup]]
         = [j \in 1..HalfGroup |-> p[j] + q[j]]
  BY <1>2
<1>5. Added([j \in 1..HalfGroup |-> p[j] + q[j]]) = Added(p) + Added(q)
  BY <1>1, AddedTogether
<1>6. Added(p) \in Int /\ Added(q) \in Int /\ Added(a) \in Int
  BY <1>1, AddedType
<1>7. ScalarQ4(Packed(w), a) = Added(p) + Added(q) - 8 * Added(a)
  <2> DEFINE e == [j \in 1..HalfGroup |-> Low(Packed(w)[j]) * a[j] + High(Packed(w)[j]) * a[j + HalfGroup]]
             f == [j \in 1..HalfGroup |-> p[j] + q[j]]
  <2>1. ScalarQ4(Packed(w), a) = Added(e) - 8 * Added(a) /\ e = f /\ Added(f) = Added(p) + Added(q)
    BY <1>3, <1>4, <1>5
  <2> HIDE DEF e, f
  <2>2. Added(e) = Added(p) + Added(q)
    BY ONLY <2>1
  <2> QED BY ONLY <1>6, <2>1, <2>2
<1> QED BY <1>6, <1>7 DEF p, q

\* Half of a group.
FirstHalf(s) == [j \in 1..HalfGroup |-> s[j]]
LastHalf(s) == [j \in 1..HalfGroup |-> s[HalfGroup + j]]

\* ... which is the product of the codes.
LEMMA ScalarQ4IsProduct ==
    ASSUME NEW w \in Codes4, NEW a \in Codes8
    PROVE  ScalarQ4(Packed(w), a) = ScalarQ8(w, a)
<1> DEFINE wa == [j \in 1..GroupSize |-> w[j] * a[j]]
           p == LowProducts(w, a)
           q == HighProducts(w, a)
<1>1. /\ HalfGroup \in Nat /\ GroupSize = HalfGroup + HalfGroup
      /\ a \in [1..(HalfGroup + HalfGroup) -> Int] /\ w \in [1..(HalfGroup + HalfGroup) -> Int]
  <2>1. \A x : x \in -8..7 => x \in Int
    OBVIOUS
  <2>2. w \in [1..GroupSize -> Int]
    BY ONLY <2>1, w \in Codes4 DEF Codes4
  <2> QED BY <2>2, Quarters, ProductTypes
<1>2. wa \in [1..(HalfGroup + HalfGroup) -> Int]
  <2>1. \A j \in 1..GroupSize : w[j] * a[j] \in Int
    BY <1>1
  <2> QED BY <1>1, <2>1
<1>3. \A j \in 1..HalfGroup :
         /\ p[j] = FirstHalf(wa)[j] + 8 * FirstHalf(a)[j] /\ FirstHalf(wa)[j] \in Int /\ FirstHalf(a)[j] \in Int
         /\ q[j] = LastHalf(wa)[j] + 8 * LastHalf(a)[j] /\ LastHalf(wa)[j] \in Int /\ LastHalf(a)[j] \in Int
  <2> TAKE j \in 1..HalfGroup
  <2>1. j \in 1..GroupSize /\ j + HalfGroup \in 1..GroupSize /\ HalfGroup + j = j + HalfGroup
    BY <1>1
  <2>2. \A x, y \in Int : (x + 8) * y = x * y + 8 * y /\ x * y \in Int
    OBVIOUS
  <2>3. w[j] \in Int /\ a[j] \in Int /\ w[j + HalfGroup] \in Int /\ a[j + HalfGroup] \in Int
    BY <1>1, <2>1
  <2>4. /\ FirstHalf(wa)[j] = w[j] * a[j] /\ FirstHalf(a)[j] = a[j]
        /\ LastHalf(wa)[j] = w[j + HalfGroup] * a[j + HalfGroup] /\ LastHalf(a)[j] = a[j + HalfGroup]
    BY <2>1 DEF FirstHalf, LastHalf
  <2>5. p[j] = (w[j] + 8) * a[j] /\ q[j] = (w[j + HalfGroup] + 8) * a[j + HalfGroup]
    BY DEF LowProducts, HighProducts
  <2>6. /\ (w[j] + 8) * a[j] = w[j] * a[j] + 8 * a[j] /\ w[j] * a[j] \in Int
        /\ (w[j + HalfGroup] + 8) * a[j + HalfGroup] = w[j + HalfGroup] * a[j + HalfGroup] + 8 * a[j + HalfGroup]
        /\ w[j + HalfGroup] * a[j + HalfGroup] \in Int
    BY ONLY <2>2, <2>3
  <2> HIDE DEF p, q, wa
  <2>7. /\ p[j] = FirstHalf(wa)[j] + 8 * FirstHalf(a)[j] /\ FirstHalf(wa)[j] \in Int
        /\ FirstHalf(a)[j] \in Int
    BY ONLY <2>3, <2>4, <2>5, <2>6
  <2>8. /\ q[j] = LastHalf(wa)[j] + 8 * LastHalf(a)[j] /\ LastHalf(wa)[j] \in Int
        /\ LastHalf(a)[j] \in Int
    BY ONLY <2>3, <2>4, <2>5, <2>6
  <2> QED BY <2>7, <2>8
<1>4. ScalarQ8(w, a) = Added(wa)
  BY DEF ScalarQ8
<1>5. DOMAIN p = 1..HalfGroup /\ DOMAIN q = 1..HalfGroup
      /\ p = [j \in 1..HalfGroup |-> p[j]] /\ q = [j \in 1..HalfGroup |-> q[j]]
  BY DEF LowProducts, HighProducts
<1> HIDE DEF wa, p, q
<1>6. ASSUME NEW s \in [1..HalfGroup -> Int], NEW t \in [1..HalfGroup -> Int]
      PROVE  Added([j \in 1..HalfGroup |-> s[j] + 8 * t[j]]) = Added(s) + 8 * Added(t)
  <2> DEFINE t8 == [j \in 1..HalfGroup |-> 8 * t[j]]
  <2>1. t8 \in [1..HalfGroup -> Int] /\ \A j \in 1..HalfGroup : t8[j] = 8 * t[j]
    OBVIOUS
  <2>2. Added(t8) = 8 * Added(t)
    BY <1>1, AddedTimes8
  <2> HIDE DEF t8
  <2>3. Added([j \in 1..HalfGroup |-> s[j] + t8[j]]) = Added(s) + Added(t8)
    BY <1>1, <2>1, AddedTogether
  <2>4. [j \in 1..HalfGroup |-> s[j] + t8[j]] = [j \in 1..HalfGroup |-> s[j] + 8 * t[j]]
    BY <2>1
  <2> QED BY <2>2, <2>3, <2>4
<1>7. /\ FirstHalf(wa) \in [1..HalfGroup -> Int] /\ FirstHalf(a) \in [1..HalfGroup -> Int]
      /\ LastHalf(wa) \in [1..HalfGroup -> Int] /\ LastHalf(a) \in [1..HalfGroup -> Int]
  BY <1>3 DEF FirstHalf, LastHalf
<1>8. Added(p) = Added(FirstHalf(wa)) + 8 * Added(FirstHalf(a))
  <2>1. p = [j \in 1..HalfGroup |-> FirstHalf(wa)[j] + 8 * FirstHalf(a)[j]]
    BY <1>3, <1>5
  <2> QED BY <1>6, <1>7, <2>1
<1>9. Added(q) = Added(LastHalf(wa)) + 8 * Added(LastHalf(a))
  <2>1. q = [j \in 1..HalfGroup |-> LastHalf(wa)[j] + 8 * LastHalf(a)[j]]
    BY <1>3, <1>5
  <2> QED BY <1>6, <1>7, <2>1
<1>10. Added(wa) = Added(FirstHalf(wa)) + Added(LastHalf(wa)) /\ Added(a) = Added(FirstHalf(a)) + Added(LastHalf(a))
  <2>1. ASSUME NEW s \in [1..(HalfGroup + HalfGroup) -> Int]
        PROVE  Added(s) = Added(FirstHalf(s)) + Added(LastHalf(s))
    BY <1>1, AddedParts DEF FirstHalf, LastHalf
  <2> QED BY <1>1, <1>2, <2>1
<1>11. /\ Added(FirstHalf(wa)) \in Int /\ Added(LastHalf(wa)) \in Int
       /\ Added(FirstHalf(a)) \in Int /\ Added(LastHalf(a)) \in Int
  BY <1>1, <1>7, AddedType
<1>12. ScalarQ4(Packed(w), a) = Added(p) + Added(q) - 8 * Added(a)
  BY ScalarQ4Parts DEF p, q
<1> QED BY ONLY <1>4, <1>8, <1>9, <1>10, <1>11, <1>12

\* What the 4-bit vector kernel adds up is the same products, four at a time.
LEMMA VectorQ4IsScalar ==
    ASSUME NEW w \in Codes4, NEW a \in Codes8
    PROVE  VectorQ4(Packed(w), a) - 8 * Added(a) = ScalarQ4(Packed(w), a)
<1> DEFINE p == LowProducts(w, a)
           q == HighProducts(w, a)
           nib == Packed(w)
           ul == [j \in 1..HalfGroup |-> Low(nib[j])]
           uh == [j \in 1..HalfGroup |-> High(nib[j])]
           sl == SubSeq(a, 1, HalfGroup)
           sh == SubSeq(a, HalfGroup + 1, GroupSize)
           lo == MAddUbs(ul, sl)
           hi == MAddUbs(uh, sh)
<1>1. PICK n \in Nat : /\ GroupSize = 4 * n /\ HalfGroup = 2 * n /\ GroupSize = HalfGroup + HalfGroup
                       /\ HalfGroup \div 2 = n /\ HalfGroup \in Nat
  BY Quarters
<1>2. /\ p \in [1..HalfGroup -> Int] /\ q \in [1..HalfGroup -> Int]
      /\ \A j \in 1..HalfGroup :
            /\ w[j] \in -8..7 /\ w[j + HalfGroup] \in -8..7
            /\ a[j] \in -127..127 /\ a[j + HalfGroup] \in -127..127
            /\ Low(nib[j]) = w[j] + 8 /\ High(nib[j]) = w[j + HalfGroup] + 8
      /\ a \in [1..(HalfGroup + HalfGroup) -> Int]
  BY ProductTypes
<1>3. \A j \in 1..HalfGroup : ul[j] = w[j] + 8 /\ uh[j] = w[j + HalfGroup] + 8
  BY <1>2
<1>4. Len(ul) = HalfGroup /\ Len(uh) = HalfGroup
  BY <1>1
<1>5. \A j \in 1..HalfGroup : sl[j] = a[j] /\ sh[j] = a[j + HalfGroup]
  <2>1. a \in Seq(Int) /\ Len(a) = HalfGroup + HalfGroup
    BY <1>1, <1>2
  <2>2. \A j \in 1..HalfGroup : sl[j] = a[j]
    BY <1>1, <2>1, SubSeqProperties
  <2>3. ASSUME NEW j \in 1..HalfGroup PROVE sh[j] = a[j + HalfGroup]
    <3>1. sh = [i \in 1..(GroupSize - (HalfGroup + 1) + 1) |-> a[(HalfGroup + 1) + i - 1]]
      BY <1>1, <2>1
    <3>2. GroupSize - (HalfGroup + 1) + 1 = HalfGroup /\ (HalfGroup + 1) + j - 1 = j + HalfGroup
      BY <1>1
    <3> HIDE DEF sh
    <3> QED BY <3>1, <3>2
  <2> QED BY <2>2, <2>3
<1>6. \A j \in 1..HalfGroup : p[j] = (w[j] + 8) * a[j] /\ q[j] = (w[j + HalfGroup] + 8) * a[j + HalfGroup]
  BY DEF LowProducts, HighProducts
<1> DEFINE lane(u, s, k) == Saturate16(u[2 * k - 1] * s[2 * k - 1] + u[2 * k] * s[2 * k])
<1>7. lo = [k \in 1..n |-> lane(ul, sl, k)] /\ hi = [k \in 1..n |-> lane(uh, sh, k)]
  <2> HIDE DEF ul, uh, sl, sh
  <2> QED BY <1>1, <1>4 DEF MAddUbs
<1> HIDE DEF p, q, ul, uh, sl, sh, lo, hi, nib
<1>8. ASSUME NEW k \in 1..n
      PROVE  /\ lane(ul, sl, k) = p[2 * k - 1] + p[2 * k] /\ lane(uh, sh, k) = q[2 * k - 1] + q[2 * k]
             /\ Wrap16(lane(ul, sl, k) + lane(uh, sh, k))
                   = (p[2 * k - 1] + p[2 * k]) + (q[2 * k - 1] + q[2 * k])
  <2>1. 2 * k - 1 \in 1..HalfGroup /\ 2 * k \in 1..HalfGroup
    BY <1>1
  <2> DEFINE i == 2 * k - 1
             j == 2 * k
  <2>2. i \in 1..HalfGroup /\ j \in 1..HalfGroup
    BY <2>1
  <2> HIDE DEF i, j
  <2>3. \A x \in -8..7 : x + 8 \in 0..15
    OBVIOUS
  <2>4. /\ ul[i] \in 0..15 /\ ul[j] \in 0..15 /\ uh[i] \in 0..15 /\ uh[j] \in 0..15
        /\ sl[i] \in -127..127 /\ sl[j] \in -127..127 /\ sh[i] \in -127..127 /\ sh[j] \in -127..127
    <3>1. \A m \in 1..HalfGroup : ul[m] \in 0..15 /\ uh[m] \in 0..15
      <4> TAKE m \in 1..HalfGroup
      <4>1. ul[m] = w[m] + 8 /\ w[m] \in -8..7 /\ uh[m] = w[m + HalfGroup] + 8 /\ w[m + HalfGroup] \in -8..7
        BY <1>2, <1>3
      <4> QED BY ONLY <4>1, <2>3
    <3>2. \A m \in 1..HalfGroup : sl[m] \in -127..127 /\ sh[m] \in -127..127
      <4> TAKE m \in 1..HalfGroup
      <4>1. sl[m] = a[m] /\ a[m] \in -127..127 /\ sh[m] = a[m + HalfGroup] /\ a[m + HalfGroup] \in -127..127
        BY <1>2, <1>5
      <4> QED BY ONLY <4>1
    <3> QED BY ONLY <3>1, <3>2, <2>2
  <2>5. /\ ul[i] * sl[i] = p[i] /\ ul[j] * sl[j] = p[j] /\ uh[i] * sh[i] = q[i] /\ uh[j] * sh[j] = q[j]
    BY <1>3, <1>5, <1>6, <2>2
  <2>6. /\ p[i] + p[j] \in Int /\ -3810 <= p[i] + p[j] /\ p[i] + p[j] <= 3810
        /\ Saturate16(p[i] + p[j]) = p[i] + p[j]
    <3>1. /\ ul[i] * sl[i] + ul[j] * sl[j] \in Int /\ -3810 <= ul[i] * sl[i] + ul[j] * sl[j]
          /\ ul[i] * sl[i] + ul[j] * sl[j] <= 3810
          /\ Saturate16(ul[i] * sl[i] + ul[j] * sl[j]) = ul[i] * sl[i] + ul[j] * sl[j]
      <4>1. FitsHalf(OfTwo(ul[i], sl[i], ul[j], sl[j]))
        BY ONLY <2>4, LanesOfFour, Zenon
      <4> QED BY <4>1 DEF OfTwo, FitsHalf
    <3> QED BY <2>5, <3>1
  <2>7. /\ q[i] + q[j] \in Int /\ -3810 <= q[i] + q[j] /\ q[i] + q[j] <= 3810
        /\ Saturate16(q[i] + q[j]) = q[i] + q[j]
    <3>1. /\ uh[i] * sh[i] + uh[j] * sh[j] \in Int /\ -3810 <= uh[i] * sh[i] + uh[j] * sh[j]
          /\ uh[i] * sh[i] + uh[j] * sh[j] <= 3810
          /\ Saturate16(uh[i] * sh[i] + uh[j] * sh[j]) = uh[i] * sh[i] + uh[j] * sh[j]
      <4>1. FitsHalf(OfTwo(uh[i], sh[i], uh[j], sh[j]))
        BY ONLY <2>4, LanesOfFour, Zenon
      <4> QED BY <4>1 DEF OfTwo, FitsHalf
    <3> QED BY <2>5, <3>1
  <2>8. Wrap16((p[i] + p[j]) + (q[i] + q[j])) = (p[i] + p[j]) + (q[i] + q[j])
    <3> DEFINE x == p[i] + p[j]
               y == q[i] + q[j]
    <3>1. x \in Int /\ -3810 <= x /\ x <= 3810 /\ y \in Int /\ -3810 <= y /\ y <= 3810
      BY <2>6, <2>7
    <3> HIDE DEF x, y
    <3>2. x + y \in Int /\ -32768 <= x + y /\ x + y <= 32767
      BY ONLY <3>1
    <3>3. Wrap16(x + y) = x + y
      BY <3>2, InRange
    <3> QED BY <3>3 DEF x, y
  <2>9. lane(ul, sl, k) = p[i] + p[j] /\ lane(uh, sh, k) = q[i] + q[j]
    BY <2>5, <2>6, <2>7 DEF i, j
  <2> QED BY <2>8, <2>9 DEF i, j
<1> HIDE DEF lane
<1> DEFINE pp == [k \in 1..n |-> p[2 * k - 1] + p[2 * k]]
           qq == [k \in 1..n |-> q[2 * k - 1] + q[2 * k]]
<1>9. /\ pp \in [1..n -> Int] /\ qq \in [1..n -> Int]
  <2>1. \A k \in 1..n : 2 * k - 1 \in 1..HalfGroup /\ 2 * k \in 1..HalfGroup
    BY <1>1
  <2>2. \A k \in 1..n : p[2 * k - 1] + p[2 * k] \in Int /\ q[2 * k - 1] + q[2 * k] \in Int
    BY <1>2, <2>1
  <2> QED BY <2>2
<1>10. [k \in DOMAIN lo |-> Wrap16(lo[k] + hi[k])] = [k \in 1..n |-> pp[k] + qq[k]]
  <2>1. DOMAIN lo = 1..n /\ \A k \in 1..n : lo[k] = lane(ul, sl, k) /\ hi[k] = lane(uh, sh, k)
    BY <1>7
  <2>2. \A k \in 1..n : Wrap16(lo[k] + hi[k]) = pp[k] + qq[k]
    BY <1>8, <2>1
  <2> QED BY <2>1, <2>2
<1>11. VectorQ4(nib, a) = Added([k \in DOMAIN lo |-> Wrap16(lo[k] + hi[k])])
  BY DEF VectorQ4, lo, hi, ul, uh, sl, sh
<1>12. Added(pp) = Added(p) /\ Added(qq) = Added(q)
  <2>1. p \in [1..(2 * n) -> Int] /\ q \in [1..(2 * n) -> Int]
    BY <1>1, <1>2
  <2> QED BY <2>1, AddedPairs
<1> HIDE DEF pp, qq
<1>13. Added([k \in 1..n |-> pp[k] + qq[k]]) = Added(pp) + Added(qq)
  BY <1>9, AddedTogether
<1>14. /\ ScalarQ4(nib, a) = Added(p) + Added(q) - 8 * Added(a)
       /\ Added(p) \in Int /\ Added(q) \in Int /\ Added(a) \in Int
  BY ScalarQ4Parts DEF p, q, nib
<1>15. VectorQ4(nib, a) = Added(p) + Added(q)
  BY <1>10, <1>11, <1>12, <1>13
<1>16. VectorQ4(nib, a) - 8 * Added(a) = ScalarQ4(nib, a)
  BY <1>14, <1>15
<1> QED BY <1>16 DEF nib
\* The 8-bit vector kernel moves the weight's sign to the activation, which leaves the
\* product; the lanes then hold it.
LEMMA SignsMove ==
    ASSUME NEW x \in -127..127, NEW y \in -127..127
    PROVE  LET z == IF x > 0 THEN y ELSE IF x < 0 THEN -y ELSE 0
           IN  AbsOf(x) \in 0..127 /\ z \in -127..127 /\ AbsOf(x) * z = x * y
<1>1. x \in Int /\ y \in Int
  OBVIOUS
<1>2. CASE x > 0
  <2>1. AbsOf(x) = x /\ x \in 0..127
    BY <1>1, <1>2 DEF AbsOf
  <2> QED BY <1>2, <2>1
<1>3. CASE x < 0
  <2>1. AbsOf(x) = -x /\ -x \in 0..127 /\ -y \in -127..127 /\ ~(x > 0)
    BY <1>1, <1>3 DEF AbsOf
  <2>2. (-x) * (-y) = x * y
    BY <1>1
  <2> QED BY <1>3, <2>1, <2>2
<1>4. CASE x = 0
  <2>1. AbsOf(x) = 0 /\ ~(x > 0) /\ ~(x < 0) /\ 0 * 0 = 0 * y /\ 0 \in -127..127 /\ 0 \in 0..127
    BY <1>1, <1>4 DEF AbsOf
  <2> QED BY <1>4, <2>1
<1> QED BY <1>1, <1>2, <1>3, <1>4

LEMMA ProductsOf8 ==
    ASSUME NEW w \in Codes8, NEW a \in Codes8
    PROVE  /\ [j \in 1..GroupSize |-> w[j] * a[j]] \in [1..GroupSize -> Int]
           /\ \A j \in 1..GroupSize :
                 /\ AbsOf(w[j]) \in 0..127 /\ SignOf(a, w)[j] \in -127..127
                 /\ AbsOf(w[j]) * SignOf(a, w)[j] = w[j] * a[j]
<1>1. ASSUME NEW j \in 1..GroupSize
      PROVE  /\ w[j] * a[j] \in Int /\ AbsOf(w[j]) \in 0..127 /\ SignOf(a, w)[j] \in -127..127
             /\ AbsOf(w[j]) * SignOf(a, w)[j] = w[j] * a[j]
  <2> DEFINE x == w[j]
             y == a[j]
             z == IF x > 0 THEN y ELSE IF x < 0 THEN -y ELSE 0
  <2>1. x \in -127..127 /\ y \in -127..127
    BY DEF Codes8
  <2>2. SignOf(a, w)[j] = z
    BY DEF SignOf, Codes8
  <2> HIDE DEF x, y
  <2>3. AbsOf(x) \in 0..127 /\ z \in -127..127 /\ AbsOf(x) * z = x * y
    BY <2>1, SignsMove
  <2>4. x * y \in Int
    <3>1. \A i : i \in -127..127 => i \in Int
      OBVIOUS
    <3>2. \A i, k \in Int : i * k \in Int
      OBVIOUS
    <3> QED BY ONLY <2>1, <3>1, <3>2
  <2> HIDE DEF z
  <2> QED BY <2>2, <2>3, <2>4 DEF x, y
<1> QED BY <1>1

LEMMA VectorQ8IsScalar ==
    ASSUME NEW w \in Codes8, NEW a \in Codes8
    PROVE  VectorQ8(w, a) = ScalarQ8(w, a)
<1> DEFINE u == [j \in DOMAIN w |-> AbsOf(w[j])]
           s == SignOf(a, w)
           wa == [j \in 1..GroupSize |-> w[j] * a[j]]
<1>1. PICK m \in Nat : GroupSize = 2 * m /\ GroupSize \div 2 = m /\ GroupSize \in Nat
  <2>1. PICK n \in Nat : GroupSize = 4 * n
    BY Quarters
  <2>2. GroupSize = 2 * (2 * n) /\ GroupSize \div 2 = 2 * n /\ 2 * n \in Nat /\ GroupSize \in Nat
    BY <2>1
  <2> QED BY <2>2
<1>2. wa \in [1..(2 * m) -> Int]
  BY <1>1, ProductsOf8
<1>3. DOMAIN u = 1..GroupSize /\ \A j \in 1..GroupSize : u[j] = AbsOf(w[j])
  BY DEF Codes8
<1>4. ASSUME NEW j \in 1..GroupSize
      PROVE  u[j] \in 0..127 /\ s[j] \in -127..127 /\ u[j] * s[j] = wa[j]
  BY <1>3, ProductsOf8
<1>5. Len(u) = GroupSize
  BY <1>1, <1>3
<1>6. VectorQ8(w, a) = Added(MAddUbs(u, s))
  BY DEF VectorQ8
<1>7. ScalarQ8(w, a) = Added(wa)
  BY DEF ScalarQ8
<1> HIDE DEF u, s, wa
<1>8. MAddUbs(u, s) = [k \in 1..m |-> Saturate16(u[2 * k - 1] * s[2 * k - 1] + u[2 * k] * s[2 * k])]
  BY <1>1, <1>5 DEF MAddUbs
<1>9. ASSUME NEW k \in 1..m
      PROVE  Saturate16(u[2 * k - 1] * s[2 * k - 1] + u[2 * k] * s[2 * k]) = wa[2 * k - 1] + wa[2 * k]
  <2> DEFINE i == 2 * k - 1
             j == 2 * k
  <2>1. i \in 1..GroupSize /\ j \in 1..GroupSize
    BY <1>1
  <2> HIDE DEF i, j
  <2>2. /\ u[i] \in 0..127 /\ u[j] \in 0..127 /\ s[i] \in -127..127 /\ s[j] \in -127..127
        /\ u[i] * s[i] = wa[i] /\ u[j] * s[j] = wa[j]
    BY <1>4, <2>1
  <2>3. Saturate16(OfTwo(u[i], s[i], u[j], s[j])) = OfTwo(u[i], s[i], u[j], s[j])
    BY ONLY <2>2, LanesOfEight, Zenon
  <2>4. OfTwo(u[i], s[i], u[j], s[j]) = wa[i] + wa[j]
    BY <2>2 DEF OfTwo
  <2>5. Saturate16(u[i] * s[i] + u[j] * s[j]) = wa[i] + wa[j]
    BY <2>3, <2>4 DEF OfTwo
  <2> QED BY <2>5 DEF i, j
<1>10. MAddUbs(u, s) = [k \in 1..m |-> wa[2 * k - 1] + wa[2 * k]]
  BY <1>8, <1>9
<1>11. Added([k \in 1..m |-> wa[2 * k - 1] + wa[2 * k]]) = Added(wa)
  BY <1>2, AddedPairs
<1> QED BY <1>6, <1>7, <1>10, <1>11

\* ------------------------------------------------------------------- the rows

\* A group of a row: its width, its codes and the activations it meets.
Groups == {[bits |-> 4, w |-> w, a |-> a] : w \in Codes4, a \in Codes8}
              \cup {[bits |-> 8, w |-> w, a |-> a] : w \in Codes8, a \in Codes8}

\* What the loops add up for a group: the same number three times.
LEMMA OneGroup ==
    ASSUME NEW g \in Groups
    PROVE  /\ (IF g.bits = 4 THEN VectorQ4(Packed(g.w), g.a) - 8 * Added(g.a) ELSE VectorQ8(g.w, g.a))
                 = ScalarQ8(g.w, g.a)
           /\ (IF g.bits = 4 THEN ScalarQ4(Packed(g.w), g.a) ELSE ScalarQ8(g.w, g.a)) = ScalarQ8(g.w, g.a)
           /\ ScalarQ8(g.w, g.a) \in Int
<1>1. GroupSize \in Nat
  BY Quarters
<1>2. CASE \E w \in Codes4, a \in Codes8 : g = [bits |-> 4, w |-> w, a |-> a]
  <2>1. g.bits = 4 /\ g.w \in Codes4 /\ g.a \in Codes8
    BY <1>2
  <2>2. VectorQ4(Packed(g.w), g.a) - 8 * Added(g.a) = ScalarQ8(g.w, g.a)
        /\ ScalarQ4(Packed(g.w), g.a) = ScalarQ8(g.w, g.a)
    BY <2>1, VectorQ4IsScalar, ScalarQ4IsProduct
  <2>3. ScalarQ8(g.w, g.a) \in Int
    <3> DEFINE s == [j \in 1..GroupSize |-> g.w[j] * g.a[j]]
    <3>1. \A j \in 1..GroupSize : g.w[j] \in Int /\ g.a[j] \in Int
      <4>1. \A i : (i \in -127..127 => i \in Int) /\ (i \in -8..7 => i \in Int)
        OBVIOUS
      <4>2. \A j \in 1..GroupSize : g.w[j] \in -8..7 /\ g.a[j] \in -127..127
        BY <2>1 DEF Codes4, Codes8
      <4> QED BY ONLY <4>1, <4>2
    <3>2. \A j \in 1..GroupSize : g.w[j] * g.a[j] \in Int
      <4>1. \A i, k \in Int : i * k \in Int
        OBVIOUS
      <4> QED BY ONLY <4>1, <3>1
    <3>3. s \in [1..GroupSize -> Int]
      BY <3>2
    <3> HIDE DEF s
    <3>4. Added(s) \in Int
      BY <1>1, <3>3, AddedType
    <3> QED BY <3>4 DEF ScalarQ8, s
  <2> QED BY <2>1, <2>2, <2>3
<1>3. CASE \E w \in Codes8, a \in Codes8 : g = [bits |-> 8, w |-> w, a |-> a]
  <2>1. g.bits = 8 /\ g.w \in Codes8 /\ g.a \in Codes8
    BY <1>3
  <2>2. VectorQ8(g.w, g.a) = ScalarQ8(g.w, g.a)
    BY <2>1, VectorQ8IsScalar
  <2>3. ScalarQ8(g.w, g.a) \in Int
    <3> DEFINE s == [j \in 1..GroupSize |-> g.w[j] * g.a[j]]
    <3>1. s \in [1..GroupSize -> Int]
      BY <2>1, ProductsOf8
    <3> HIDE DEF s
    <3>2. Added(s) \in Int
      BY <1>1, <3>1, AddedType
    <3> QED BY <3>2 DEF ScalarQ8, s
  <2> QED BY <2>1, <2>2, <2>3
<1> QED BY <1>2, <1>3 DEF Groups
\* Whole batches, and what is left of a row.
LEMMA WholeBatches ==
    ASSUME NEW l \in Nat \ {0}, NEW m \in Nat
    PROVE  LET taken == (m \div l) * l
           IN  m \div l \in Nat /\ taken \in Nat /\ taken <= m /\ taken \div l = m \div l
<1> DEFINE n == m \div l
           taken == n * l
           d == taken \div l
<1>1. n \in Nat /\ taken <= m
  BY SMTT(30)
<1>2. taken \in Nat
  <2> HIDE DEF n
  <2> QED BY <1>1
<1>3. d \in Int /\ d * l <= taken /\ taken < d * l + l
  <2> HIDE DEF n
  <2>1. taken \in Int
    BY <1>2
  <2> HIDE DEF taken
  <2> QED BY <2>1, SMTT(30)
<1> HIDE DEF n, d
<1>4. d = n
  <2>1. CASE d < n
    <3>1. (d + 1) * l <= n * l /\ (d + 1) * l = d * l + l
      BY <1>1, <1>3, <2>1, TimesGrows
    <3> QED BY <1>2, <1>3, <3>1
  <2>2. CASE n < d
    <3>1. (n + 1) * l <= d * l /\ (n + 1) * l = n * l + l
      BY <1>1, <1>3, <2>2, TimesGrows
    <3> QED BY <1>2, <1>3, <3>1
  <2> QED BY <1>1, <1>3, <2>1, <2>2
<1> QED BY <1>1, <1>2, <1>4 DEF d, n

LEMMA RowsAgree ==
    ASSUME NEW r \in Seq(Groups), Lanes \in Nat \ {0}
    PROVE  /\ RowVector(r) = RowScalar(r)
           /\ RowScalar(r) = Added([g \in DOMAIN r |-> ScalarQ8(r[g].w, r[g].a)])
<1> DEFINE N == Len(r)
           value == [g \in 1..N |-> ScalarQ8(r[g].w, r[g].a)]
           one(g) == IF r[g].bits = 4
                     THEN VectorQ4(Packed(r[g].w), r[g].a) - 8 * Added(r[g].a)
                     ELSE VectorQ8(r[g].w, r[g].a)
           batches == N \div Lanes
           taken == batches * Lanes
           rest == N - taken
<1>1. N \in Nat /\ DOMAIN r = 1..N /\ \A g \in 1..N : r[g] \in Groups
  OBVIOUS
<1>2. ASSUME NEW g \in 1..N
      PROVE  /\ value[g] \in Int /\ one(g) = value[g]
             /\ (IF r[g].bits = 4 THEN ScalarQ4(Packed(r[g].w), r[g].a) ELSE ScalarQ8(r[g].w, r[g].a)) = value[g]
  <2> DEFINE e == r[g]
  <2>1. e \in Groups
    BY <1>1
  <2> HIDE DEF e
  <2>2. /\ (IF e.bits = 4 THEN VectorQ4(Packed(e.w), e.a) - 8 * Added(e.a) ELSE VectorQ8(e.w, e.a))
              = ScalarQ8(e.w, e.a)
        /\ (IF e.bits = 4 THEN ScalarQ4(Packed(e.w), e.a) ELSE ScalarQ8(e.w, e.a)) = ScalarQ8(e.w, e.a)
        /\ ScalarQ8(e.w, e.a) \in Int
    BY <2>1, OneGroup
  <2>3. value[g] = ScalarQ8(e.w, e.a)
    BY DEF e
  <2> HIDE DEF value
  <2> QED BY <2>2, <2>3 DEF e
<1>3. value \in [1..N -> Int]
  <2>1. \A g \in 1..N : ScalarQ8(r[g].w, r[g].a) \in Int
    BY <1>2
  <2> QED BY <2>1
<1>4. RowScalar(r) = Added(value)
  <2>1. [g \in DOMAIN r |-> IF r[g].bits = 4 THEN ScalarQ4(Packed(r[g].w), r[g].a) ELSE ScalarQ8(r[g].w, r[g].a)]
          = value
    BY <1>1, <1>2
  <2> QED BY <2>1 DEF RowScalar
<1>5. batches \in Nat /\ taken \in Nat /\ taken <= N /\ taken \div Lanes = batches
  BY <1>1, WholeBatches
<1>6. RowVector(r) = Added([u \in 1..Lanes |-> Added([b \in 1..batches |-> one((b - 1) * Lanes + u)])])
                       + Added([i \in 1..rest |-> one(taken + i)])
  <2>1. RowVector(r) = Added([u \in 1..Lanes |-> Added([b \in 1..(taken \div Lanes) |-> one((b - 1) * Lanes + u)])])
                       + Added([i \in 1..rest |-> one(taken + i)])
    BY DEF RowVector
  <2>2. taken \div Lanes = batches
    BY <1>5
  <2> HIDE DEF batches, one
  <2> QED BY <2>1, <2>2
<1> HIDE DEF value, one, batches
<1>7. rest \in Nat /\ taken + rest = N
  <2> HIDE DEF taken
  <2> QED BY <1>1, <1>5
<1>8. \A i \in 1..rest : taken + i \in 1..N
  <2> HIDE DEF taken
  <2> QED BY <1>1, <1>5
<1> DEFINE front == [i \in 1..taken |-> value[i]]
           back == [i \in 1..rest |-> value[taken + i]]
<1>9. Added(value) = Added(front) + Added(back)
  <2> HIDE DEF taken, rest
  <2>1. value \in [1..(taken + rest) -> Int]
    BY <1>3, <1>7
  <2> QED BY <1>5, <1>7, <2>1, AddedParts
<1>10. front \in [1..taken -> Int]
  <2>1. \A i \in 1..taken : i \in 1..N
    <3> HIDE DEF taken
    <3> QED BY <1>1, <1>5
  <2> HIDE DEF taken
  <2> QED BY <1>3, <2>1
<1>11. [i \in 1..rest |-> one(taken + i)] = back
  BY <1>2, <1>8
<1>12. \A u \in 1..Lanes, b \in 1..batches :
          /\ (b - 1) * Lanes + u \in 1..taken
          /\ one((b - 1) * Lanes + u) = front[(b - 1) * Lanes + u]
  <2> TAKE u \in 1..Lanes, b \in 1..batches
  <2> DEFINE i == (b - 1) * Lanes + u
  <2>1. i \in 1..taken
    BY <1>5, Position
  <2> HIDE DEF i
  <2>2. i \in 1..N
    <3> HIDE DEF taken
    <3> QED BY <1>1, <1>5, <2>1
  <2>3. one(i) = value[i] /\ front[i] = value[i]
    BY <1>2, <2>1, <2>2
  <2> HIDE DEF front, taken
  <2> QED BY <2>1, <2>3 DEF i
<1>13. \A u \in 1..Lanes : [b \in 1..batches |-> one((b - 1) * Lanes + u)]
                            = [b \in 1..batches |-> front[(b - 1) * Lanes + u]]
  <2> HIDE DEF front
  <2> QED BY <1>12
<1>14. Added([u \in 1..Lanes |-> Added([b \in 1..batches |-> one((b - 1) * Lanes + u)])]) = Added(front)
  <2>1. [u \in 1..Lanes |-> Added([b \in 1..batches |-> one((b - 1) * Lanes + u)])]
          = [u \in 1..Lanes |-> Added([b \in 1..batches |-> front[(b - 1) * Lanes + u]])]
    <3> HIDE DEF front
    <3> QED BY <1>13
  <2> HIDE DEF front
  <2>2. Added([u \in 1..Lanes |-> Added([b \in 1..batches |-> front[(b - 1) * Lanes + u]])]) = Added(front)
    BY <1>5, <1>10, AddedLanes
  <2> QED BY <2>1, <2>2
<1>15. RowVector(r) = Added(front) + Added(back)
  <2> HIDE DEF front, back, taken, rest
  <2> QED BY <1>6, <1>11, <1>14
<1>16. RowVector(r) = Added(value)
  <2> HIDE DEF front, back, taken, rest
  <2> QED BY <1>9, <1>15
<1>17. value = [g \in DOMAIN r |-> ScalarQ8(r[g].w, r[g].a)]
  BY <1>1 DEF value
<1> QED BY <1>4, <1>16, <1>17

\* The invariant: a row is built of groups of 4- and 8-bit codes.
RowInv == row \in Seq(Groups)

\* The vector kernels and the scalar loops give the same numbers for every row, every
\* group size, every number of groups taken at a time and all codes (quant.h calls them
\* bitwise identical, quant.cpp argues with the bound of 3810): no 16-bit lane saturates
\* or wraps, no group of the row is left out or taken twice.
THEOREM KernelsAlwaysAgree == KernelsSpec => []KernelsAgree
<1>1. KernelsInit => RowInv
  BY DEF KernelsInit, RowInv
<1>2. RowInv /\ [KernelsNext]_kvars => RowInv'
  <2> SUFFICES ASSUME RowInv, [KernelsNext]_kvars PROVE RowInv'
    OBVIOUS
  <2>1. CASE Extend
    <3>1. PICK bits \in {4, 8}, a \in Activations :
             \E w \in IF bits = 4 THEN Nibbles ELSE ByteCodes :
                 row' = Append(row, [bits |-> bits, w |-> w, a |-> a])
      BY <2>1 DEF Extend
    <3>2. PICK w \in IF bits = 4 THEN Nibbles ELSE ByteCodes :
             row' = Append(row, [bits |-> bits, w |-> w, a |-> a])
      BY <3>1
    <3>3. Nibbles \subseteq Codes4 /\ ByteCodes \subseteq Codes8 /\ Activations \subseteq Codes8
      BY QuantKernelsAssumption DEF Codes4, Codes8
    <3>4. [bits |-> bits, w |-> w, a |-> a] \in Groups
      <4>1. CASE bits = 4
        BY <3>2, <3>3, <4>1 DEF Groups
      <4>2. CASE bits = 8
        BY <3>2, <3>3, <4>2 DEF Groups
      <4> QED BY <4>1, <4>2
    <3> DEFINE g == [bits |-> bits, w |-> w, a |-> a]
    <3>5. g \in Groups /\ row' = Append(row, g)
      BY <3>2, <3>4
    <3> HIDE DEF g
    <3> QED BY <3>5 DEF RowInv
  <2>2. CASE Take \/ Pick \/ UNCHANGED kvars
    BY <2>2 DEF Take, Pick, kvars, RowInv
  <2> QED BY <2>1, <2>2 DEF KernelsNext
<1>3. RowInv => KernelsAgree
  BY RowsAgree, QuantKernelsAssumption DEF RowInv, KernelsAgree
<1> QED BY <1>1, <1>2, <1>3, PTL DEF KernelsSpec
-----------------------------------------------------------------------------
(* The trainer on the model's own texts (SelfGen).                         *)

\* What is built one step after the other, by F, exists.
Built(h, n, start, F) == h[0] = start /\ \A k \in 1..n : h[k] = F[<<k, h[k - 1]>>]

LEMMA Recursion ==
    ASSUME NEW n \in Nat, NEW S, NEW start \in S, NEW F \in [(1..n) \X S -> S]
    PROVE  \E h \in [0..n -> S] : Built(h, n, start, F)
<1> DEFINE good == {m \in 0..n : \E h \in [0..m -> S] :
                       h[0] = start /\ \A k \in 1..m : h[k] = F[<<k, h[k - 1]>>]}
<1>1. 0 \in good
  <2> DEFINE h == [k \in 0..0 |-> start]
  <2>1. h \in [0..0 -> S] /\ h[0] = start /\ \A k \in 1..0 : h[k] = F[<<k, h[k - 1]>>]
    OBVIOUS
  <2> HIDE DEF h
  <2> QED BY <2>1
<1>2. ASSUME NEW m \in 1..n, m - 1 \in good PROVE m \in good
  <2>1. PICK f \in [0..(m - 1) -> S] :
           f[0] = start /\ \A k \in 1..(m - 1) : f[k] = F[<<k, f[k - 1]>>]
    BY <1>2
  <2> DEFINE g == [k \in 0..m |-> IF k = m THEN F[<<m, f[m - 1]>>] ELSE f[k]]
  <2>2. \A k \in 0..m : g[k] = IF k = m THEN F[<<m, f[m - 1]>>] ELSE f[k]
    OBVIOUS
  <2>3. F[<<m, f[m - 1]>>] \in S
    BY <2>1
  <2>4. g \in [0..m -> S]
    <3>1. \A k \in 0..m : (IF k = m THEN F[<<m, f[m - 1]>>] ELSE f[k]) \in S
      BY <2>3
    <3> QED BY <3>1
  <2> HIDE DEF g
  <2>5. \A k \in 1..m : g[k] = F[<<k, g[k - 1]>>]
    <3> TAKE k \in 1..m
    <3>1. g[k - 1] = f[k - 1]
      BY <2>2
    <3>2. CASE k = m
      BY <2>2, <3>1, <3>2
    <3>3. CASE k # m
      <4>1. k \in 1..(m - 1) /\ g[k] = f[k]
        BY <2>2, <3>3
      <4> QED BY <2>1, <3>1, <4>1
    <3> QED BY <3>2, <3>3
  <2>6. m \in 0..n /\ g[0] = start
    BY <2>1, <2>2
  <2> QED BY <2>4, <2>5, <2>6
<1> HIDE DEF good
<1>3. \A m \in 0..n : m \in good
  <2>1. \A m \in 1..n : m - 1 \in good => m \in good
    BY <1>2
  <2> QED BY <1>1, <2>1, UpTo
<1>4. n \in good
  BY <1>3
<1> QED BY <1>4 DEF good, Built

\* The least of a set of numbers.
LEMMA LeastOf ==
    ASSUME NEW N \in SUBSET Nat, N # {}
    PROVE  Min(N) \in N /\ \A x \in N : Min(N) <= x
<1>1. PICK m \in N : \A k \in N : ~(<<k, m>> \in OpToRel(<, Nat))
  BY NatLessThanWellFounded, WFMin
<1>4. \A k \in N : ~(k < m)
  BY <1>1 DEF OpToRel
<1>2. \A k \in N : m <= k
  BY <1>4
<1>3. \E x \in N : \A y \in N : x <= y
  BY <1>2
<1> QED BY <1>3, Zenon DEF Min

\* The last n of a sequence, or all of it.
Newest(s, n) == IF n <= Len(s) THEN n ELSE Len(s)

LEMMA LastOfIs ==
    ASSUME NEW S, NEW s \in Seq(S), NEW n \in Nat
    PROVE  /\ Newest(s, n) \in 0..Len(s)
           /\ LastOf(s, n) \in Seq(S) /\ Len(LastOf(s, n)) = Newest(s, n)
           /\ \A i \in 1..Newest(s, n) : LastOf(s, n)[i] = s[Len(s) - Newest(s, n) + i]
<1> DEFINE m == IF n <= Len(s) THEN n ELSE Len(s)
<1>1. Min({n, Len(s)}) = m
  <2>1. {n, Len(s)} \in SUBSET Nat /\ {n, Len(s)} # {}
    OBVIOUS
  <2>2. /\ Min({n, Len(s)}) \in {n, Len(s)} /\ Min({n, Len(s)}) <= n /\ Min({n, Len(s)}) <= Len(s)
    BY <2>1, LeastOf
  <2> QED BY <2>2
<1>2. m \in 0..Len(s)
  OBVIOUS
<1> HIDE DEF m
<1>3. LastOf(s, n) = SubSeq(s, Len(s) - m + 1, Len(s))
  BY <1>1 DEF LastOf
<1> DEFINE b == Len(s) - m
<1>4. b \in Nat /\ b + m = Len(s) /\ m \in Nat
  BY <1>2
<1>5. LastOf(s, n) = SubSeq(s, b + 1, b + m)
  BY <1>3, <1>4
<1>6. SubSeq(s, b + 1, b + m) = [i \in 1..(b + m - (b + 1) + 1) |-> s[(b + 1) + i - 1]]
  <2> HIDE DEF b
  <2> QED BY <1>4
<1>7. b + m - (b + 1) + 1 = m /\ \A i \in 1..m : (b + 1) + i - 1 = b + i /\ b + i \in 1..Len(s)
  <2> HIDE DEF b
  <2> QED BY <1>4
<1>8. SubSeq(s, b + 1, b + m) = [i \in 1..m |-> s[b + i]]
  <2> HIDE DEF b
  <2> QED BY <1>6, <1>7
<1>9. [i \in 1..m |-> s[b + i]] \in Seq(S) /\ Len([i \in 1..m |-> s[b + i]]) = m
  <2>1. \A i \in 1..m : s[b + i] \in S
    BY <1>7
  <2> HIDE DEF b
  <2> QED BY <1>4, <2>1
<1> QED BY <1>2, <1>5, <1>8, <1>9 DEF m, Newest

\* What is left of the newest when more is added, or when fewer are asked for.
LEMMA LastOfMore ==
    ASSUME NEW S, NEW a \in Seq(S), NEW t \in Seq(S), NEW c \in Nat
    PROVE  LastOf(LastOf(a, c) \o t, c) = LastOf(a \o t, c)
<1> DEFINE l == LastOf(a, c)
           m == IF c <= Len(a) THEN c ELSE Len(a)
           x == l \o t
           y == a \o t
           k == IF c <= Len(y) THEN c ELSE Len(y)
<1>1. l \in Seq(S) /\ Len(l) = m /\ \A i \in 1..m : l[i] = a[Len(a) - m + i]
  BY LastOfIs DEF Newest
<1> HIDE DEF l
<1>2. /\ x \in Seq(S) /\ Len(x) = m + Len(t)
      /\ \A i \in 1..m : x[i] = l[i]
      /\ \A i \in 1..Len(t) : x[m + i] = t[i]
  <2> HIDE DEF m
  <2>1. l \in Seq(S) /\ Len(l) = m /\ t \in Seq(S)
    BY <1>1
  <2>2. x \in Seq(S) /\ Len(x) = m + Len(t)
    BY ONLY <2>1
  <2>3. \A i \in 1..m : x[i] = l[i]
    BY ONLY <2>1
  <2>4. \A i \in 1..Len(t) : x[m + i] = t[i]
    BY ONLY <2>1
  <2> QED BY ONLY <2>2, <2>3, <2>4
<1>3. /\ y \in Seq(S) /\ Len(y) = Len(a) + Len(t)
      /\ \A i \in 1..Len(a) : y[i] = a[i]
      /\ \A i \in 1..Len(t) : y[Len(a) + i] = t[i]
  OBVIOUS
<1> HIDE DEF x, y
<1>4. Len(a) \in Nat /\ Len(t) \in Nat /\ Newest(x, c) = k /\ Newest(y, c) = k /\ k <= m + Len(t)
      /\ k \in Nat /\ k <= Len(y) /\ m \in Nat /\ m <= Len(a)
  BY <1>2, <1>3 DEF Newest
<1> HIDE DEF k
<1>5. /\ LastOf(x, c) \in Seq(S) /\ Len(LastOf(x, c)) = k
      /\ \A i \in 1..k : LastOf(x, c)[i] = x[Len(x) - k + i]
  <2>1. /\ LastOf(x, c) \in Seq(S) /\ Len(LastOf(x, c)) = Newest(x, c)
        /\ \A i \in 1..Newest(x, c) : LastOf(x, c)[i] = x[Len(x) - Newest(x, c) + i]
    BY <1>2, LastOfIs, Zenon
  <2> QED BY <1>4, <2>1
<1>6. /\ LastOf(y, c) \in Seq(S) /\ Len(LastOf(y, c)) = k
      /\ \A i \in 1..k : LastOf(y, c)[i] = y[Len(y) - k + i]
  <2>1. /\ LastOf(y, c) \in Seq(S) /\ Len(LastOf(y, c)) = Newest(y, c)
        /\ \A i \in 1..Newest(y, c) : LastOf(y, c)[i] = y[Len(y) - Newest(y, c) + i]
    BY <1>3, LastOfIs, Zenon
  <2> QED BY <1>4, <2>1
<1>7. ASSUME NEW i \in 1..k PROVE x[Len(x) - k + i] = y[Len(y) - k + i]
  <2> DEFINE p == Len(x) - k + i
             d == Len(a) - m
  <2>1. p \in 1..Len(x) /\ Len(y) - k + i = d + p /\ d \in Nat
    <3> HIDE DEF m
    <3> QED BY <1>2, <1>3, <1>4
  <2>2. CASE p <= m
    <3>1. p \in 1..m /\ d + p \in 1..Len(a)
      <4> HIDE DEF m
      <4> QED BY <1>4, <2>1, <2>2
    <3>2. x[p] = a[d + p] /\ y[d + p] = a[d + p]
      <4> HIDE DEF m, p
      <4> QED BY <1>1, <1>2, <1>3, <3>1
    <3> QED BY <2>1, <3>2
  <2>3. CASE ~(p <= m)
    <3>1. PICK j \in 1..Len(t) : p = m + j
      <4> HIDE DEF m
      <4>1. p - m \in 1..Len(t) /\ p = m + (p - m)
        BY <1>2, <1>4, <2>1, <2>3
      <4> QED BY <4>1
    <3>2. d + p = Len(a) + j
      <4> HIDE DEF m, p
      <4> QED BY <1>4, <3>1
    <3>3. x[p] = t[j] /\ y[d + p] = t[j]
      <4> HIDE DEF m, p, d
      <4> QED BY <1>2, <1>3, <3>1, <3>2
    <3> QED BY <2>1, <3>3
  <2> QED BY <2>1, <2>2, <2>3
<1>8. LastOf(x, c) = LastOf(y, c)
  <2>1. \A i \in 1..k : LastOf(x, c)[i] = LastOf(y, c)[i]
    BY <1>5, <1>6, <1>7
  <2> HIDE DEF m
  <2> QED BY <1>4, <1>5, <1>6, <2>1, SeqEqual
<1> QED BY <1>8 DEF x, y, l

LEMMA LastOfFewer ==
    ASSUME NEW S, NEW a \in Seq(S), NEW c \in Nat, NEW n \in Nat
    PROVE  LastOf(LastOf(a, c), n) = LastOf(a, Min({n, c}))
<1> DEFINE l == LastOf(a, c)
           m == IF c <= Len(a) THEN c ELSE Len(a)
           f == IF n <= c THEN n ELSE c
           k == IF f <= Len(a) THEN f ELSE Len(a)
<1>1. Min({n, c}) = f
  <2>1. {n, c} \in SUBSET Nat /\ {n, c} # {}
    OBVIOUS
  <2>2. /\ Min({n, c}) \in {n, c} /\ Min({n, c}) <= n /\ Min({n, c}) <= c
    BY <2>1, LeastOf
  <2> QED BY <2>2
<1>2. l \in Seq(S) /\ Len(l) = m /\ \A i \in 1..m : l[i] = a[Len(a) - m + i]
  BY LastOfIs DEF Newest
<1> HIDE DEF l
<1>3. /\ Newest(l, n) = k /\ Newest(a, f) = k /\ k \in Nat /\ k <= m /\ m \in Nat /\ m <= Len(a)
      /\ Len(a) \in Nat /\ f \in Nat
  BY <1>2 DEF Newest
<1> HIDE DEF k, m, f
<1>4. /\ LastOf(l, n) \in Seq(S) /\ Len(LastOf(l, n)) = k
      /\ \A i \in 1..k : LastOf(l, n)[i] = l[m - k + i]
  <2>1. /\ LastOf(l, n) \in Seq(S) /\ Len(LastOf(l, n)) = Newest(l, n)
        /\ \A i \in 1..Newest(l, n) : LastOf(l, n)[i] = l[Len(l) - Newest(l, n) + i]
    BY <1>2, LastOfIs, Zenon
  <2> QED BY <1>2, <1>3, <2>1
<1>5. /\ LastOf(a, f) \in Seq(S) /\ Len(LastOf(a, f)) = k
      /\ \A i \in 1..k : LastOf(a, f)[i] = a[Len(a) - k + i]
  <2>1. /\ LastOf(a, f) \in Seq(S) /\ Len(LastOf(a, f)) = Newest(a, f)
        /\ \A i \in 1..Newest(a, f) : LastOf(a, f)[i] = a[Len(a) - Newest(a, f) + i]
    BY <1>3, LastOfIs, Zenon
  <2> QED BY <1>3, <2>1
<1>6. \A i \in 1..k : m - k + i \in 1..m /\ Len(a) - m + (m - k + i) = Len(a) - k + i
  BY <1>3
<1>7. \A i \in 1..k : LastOf(l, n)[i] = LastOf(a, f)[i]
  BY <1>2, <1>4, <1>5, <1>6
<1>8. LastOf(l, n) = LastOf(a, f)
  BY <1>3, <1>4, <1>5, <1>7, SeqEqual
<1> QED BY <1>1, <1>8 DEF l

\* A question with the first answer behind it, near enough.
Question(a, b) ==
    /\ seedText[a] = "user" /\ seedText[b] = "assistant" /\ b - a <= MaxSpan
    /\ \A i \in (a + 1)..(b - 1) : seedText[i] # "assistant"

\* Where the scan from a <|user|> stops.
LEMMA SpanEndIs ==
    ASSUME SelfGenAssumption, seedEnd \in Nat, NEW i \in 1..seedEnd
    PROVE  LET j == SpanEnd(i)
           IN  /\ j \in Nat /\ i < j /\ j <= i + MaxSpan
               /\ \A k \in (i + 1)..(j - 1) : k <= seedEnd /\ seedText[k] # "assistant"
               /\ \A b \in (i + 1)..seedEnd : seedText[b] = "assistant" => j <= b
               /\ j = i + MaxSpan \/ j = seedEnd + 1 \/ (j <= seedEnd /\ seedText[j] = "assistant")
<1> DEFINE ends == {k \in (i + 1)..seedEnd : seedText[k] = "assistant"}
           N == {i + MaxSpan, seedEnd + 1} \cup ends
           j == Min(N)
<1>1. MaxSpan \in Nat \ {0} /\ i \in Nat /\ seedEnd \in Nat /\ i <= seedEnd
  BY DEF SelfGenAssumption
<1>2. N \in SUBSET Nat /\ N # {}
  BY <1>1
<1> HIDE DEF N
<1>3. j \in N /\ \A x \in N : j <= x
  BY <1>2, LeastOf
<1> HIDE DEF j
<1>4. /\ j = i + MaxSpan \/ j = seedEnd + 1 \/ (j \in (i + 1)..seedEnd /\ seedText[j] = "assistant")
      /\ j <= i + MaxSpan /\ j <= seedEnd + 1
      /\ \A b \in (i + 1)..seedEnd : seedText[b] = "assistant" => j <= b
  BY <1>3 DEF N
<1>5. j \in Nat /\ i < j
  BY <1>1, <1>4
<1>6. ASSUME NEW k \in (i + 1)..(j - 1) PROVE k <= seedEnd /\ seedText[k] # "assistant"
  <2>1. k \in (i + 1)..seedEnd /\ ~(j <= k) /\ k <= seedEnd
    BY ONLY <1>1, <1>4, <1>5, k \in (i + 1)..(j - 1)
  <2> QED BY ONLY <1>4, <2>1, Zenon
<1>7. SpanEnd(i) = j
  BY DEF SpanEnd, j, N
<1>8. j = i + MaxSpan \/ j = seedEnd + 1 \/ (j <= seedEnd /\ seedText[j] = "assistant")
  BY <1>4
<1> QED BY <1>4, <1>5, <1>6, <1>7, <1>8

Scans == [found: Seq(Nat \X Nat), next: Nat]

\* What the scan has found in the first i tokens, and how far it has gone.
ScanOK(s, i) ==
    /\ s \in Scans
    /\ \A n \in 1..Len(s.found) :
          /\ s.found[n][1] \in 1..i /\ s.found[n][2] < s.next /\ s.found[n][2] <= seedEnd
          /\ s.found[n][2] - s.found[n][1] \in 2..MaxSpan
          /\ Question(s.found[n][1], s.found[n][2])
          /\ n > 1 => s.found[n - 1][2] < s.found[n][1]
    /\ \/ s.next <= i + 1
       \/ s.next = i + 2 /\ seedText[i + 1] = "assistant"
       \/ \E n \in 1..Len(s.found) : s.found[n][2] = s.next - 1
    /\ \A a \in 1..i : \A b \in (a + 2)..seedEnd :
          Question(a, b) => \E n \in 1..Len(s.found) : s.found[n][1] <= a /\ b <= s.found[n][2]

LEMMA ScanKeeps ==
    ASSUME SelfGenAssumption, seedText \in Seq(SeedTokens), seedEnd \in 0..Len(seedText),
           NEW i \in 1..seedEnd, NEW s, ScanOK(s, i - 1)
    PROVE  ScanOK(ScanToken(s, i), i)
<1> DEFINE j == SpanEnd(i)
           skipped == i < s.next \/ seedText[i] # "user" \/ j > seedEnd \/ seedText[j] # "assistant"
           found == s.found
           N == Len(found)
<1>1. seedEnd \in Nat /\ i \in Nat /\ i <= seedEnd /\ MaxSpan \in Nat \ {0}
  BY DEF SelfGenAssumption
<1>2. s.next \in Nat /\ found \in Seq(Nat \X Nat) /\ N \in Nat /\ s \in Scans
  BY DEF ScanOK, Scans
<1>3. \A n \in 1..N : found[n] \in Nat \X Nat /\ found[n][1] \in Nat /\ found[n][2] \in Nat
  <2>1. \A n \in 1..N : found[n] \in Nat \X Nat
    BY <1>2, SMTT(20)
  <2>2. \A x \in Nat \X Nat : x[1] \in Nat /\ x[2] \in Nat
    OBVIOUS
  <2> QED BY ONLY <2>1, <2>2
<1>4. /\ j \in Nat /\ i < j /\ j <= i + MaxSpan
      /\ \A k \in (i + 1)..(j - 1) : k <= seedEnd /\ seedText[k] # "assistant"
      /\ \A b \in (i + 1)..seedEnd : seedText[b] = "assistant" => j <= b
      /\ j = i + MaxSpan \/ j = seedEnd + 1 \/ (j <= seedEnd /\ seedText[j] = "assistant")
  BY <1>1, SpanEndIs
<1> HIDE DEF j
<1>8. /\ i \in Nat /\ 1 <= i /\ i <= seedEnd /\ seedEnd \in Nat /\ MaxSpan \in Nat
      /\ j \in Nat /\ i < j /\ j <= i + MaxSpan /\ s.next \in Nat
  BY <1>1, <1>2, <1>4
<1>5. /\ \A n \in 1..N :
            /\ found[n][1] \in 1..(i - 1) /\ found[n][2] < s.next /\ found[n][2] <= seedEnd
            /\ found[n][2] - found[n][1] \in 2..MaxSpan
            /\ Question(found[n][1], found[n][2])
            /\ n > 1 => found[n - 1][2] < found[n][1]
      /\ \/ s.next <= i
         \/ s.next = i + 1 /\ seedText[i] = "assistant"
         \/ \E n \in 1..N : found[n][2] = s.next - 1
      /\ \A a \in 1..(i - 1) : \A b \in (a + 2)..seedEnd :
            Question(a, b) => \E n \in 1..N : found[n][1] <= a /\ b <= found[n][2]
  <2>1. i - 1 + 1 = i /\ i - 1 + 2 = i + 1
    BY ONLY <1>8
  <2>2. /\ s.next <= i - 1 + 1 => s.next <= i
        /\ s.next = i - 1 + 2 => s.next = i + 1
        /\ seedText[i - 1 + 1] = seedText[i]
    BY ONLY <2>1
  <2> QED BY <2>2, Zenon DEF ScanOK
<1>6. CASE skipped
  <2>1. ScanToken(s, i) = s
    BY <1>6 DEF ScanToken, j
  <2>2. ASSUME NEW b \in (i + 2)..seedEnd, Question(i, b)
        PROVE  \E n \in 1..N : found[n][1] <= i /\ b <= found[n][2]
    <3>1. seedText[i] = "user" /\ seedText[b] = "assistant" /\ b - i <= MaxSpan
          /\ \A k \in (i + 1)..(b - 1) : seedText[k] # "assistant"
      BY <2>2 DEF Question
    <3>2. CASE i < s.next
      <4>1. PICK n \in 1..N : found[n][2] = s.next - 1
        <5>1. ~(s.next <= i)
          BY ONLY <1>8, <3>2
        <5>2. "user" # "assistant"
          OBVIOUS
        <5> QED BY ONLY <1>5, <3>1, <5>1, <5>2, Zenon
      <4>2. /\ found[n][2] \in Nat /\ found[n][1] <= i /\ i <= found[n][2]
            /\ seedText[found[n][2]] = "assistant" /\ found[n][2] <= seedEnd
        <5>1. found[n][2] \in Nat /\ found[n][1] \in 1..(i - 1) /\ found[n][2] <= seedEnd
              /\ Question(found[n][1], found[n][2])
          BY <1>3, <1>5
        <5>2. i <= found[n][2]
          BY ONLY <1>8, <3>2, <4>1
        <5>3. found[n][1] <= i
          <6> DEFINE x == found[n][1]
          <6> HIDE DEF x
          <6>1. x \in 1..(i - 1)
            BY <5>1 DEF x
          <6>2. x <= i
            BY ONLY <1>8, <6>1
          <6> QED BY <6>2 DEF x
        <5> QED BY <5>1, <5>2, <5>3 DEF Question
      <4>3. i # found[n][2]
        <5>1. "user" # "assistant"
          OBVIOUS
        <5> QED BY ONLY <3>1, <4>2, <5>1, Zenon
      <4>4. b <= found[n][2]
        <5>1. found[n][2] \notin (i + 1)..(b - 1)
          BY ONLY <3>1, <4>2, Zenon
        <5> DEFINE x == found[n][2]
        <5>2. x \in Nat /\ i <= x /\ i # x /\ x \notin (i + 1)..(b - 1)
          BY <4>2, <4>3, <5>1
        <5> HIDE DEF x
        <5>3. b <= x
          BY ONLY <1>8, <5>2, b \in (i + 2)..seedEnd
        <5> QED BY <5>3 DEF x
      <4> QED BY <4>2, <4>4
    <3>3. CASE ~(i < s.next)
      <4>1. j > seedEnd \/ seedText[j] # "assistant"
        BY <1>6, <3>1, <3>3
      <4>2. b \in (i + 1)..seedEnd /\ j <= b
        <5>1. b \in (i + 1)..seedEnd
          BY ONLY <1>8, b \in (i + 2)..seedEnd
        <5> QED BY ONLY <1>4, <3>1, <5>1, Zenon
      <4>3. j = b
        <5>1. CASE j = i + MaxSpan
          BY ONLY <1>8, <3>1, <4>2, <5>1
        <5>2. CASE j = seedEnd + 1
          BY ONLY <1>8, <4>2, <5>2
        <5>3. CASE j <= seedEnd /\ seedText[j] = "assistant"
          BY ONLY <1>8, <4>1, <5>3
        <5> QED BY ONLY <1>4, <5>1, <5>2, <5>3, Zenon
      <4> QED BY <1>1, <3>1, <4>1, <4>3
    <3> QED BY <3>2, <3>3
  <2>3. ASSUME NEW a \in 1..i, NEW b \in (a + 2)..seedEnd, Question(a, b)
        PROVE  \E n \in 1..N : found[n][1] <= a /\ b <= found[n][2]
    <3>1. CASE a = i
      BY <2>2, <2>3, <3>1
    <3>2. CASE a # i
      <4>1. a \in 1..(i - 1)
        BY <1>1, <3>2
      <4> QED BY <1>5, <2>3, <4>1
    <3> QED BY <3>1, <3>2
  <2>4. \A n \in 1..N : found[n][1] \in 1..i
    <3>1. \A x : x \in 1..(i - 1) => x \in 1..i
      BY <1>1
    <3> QED BY <1>5, <3>1
  <2>5. \/ s.next <= i + 1
        \/ \E n \in 1..N : found[n][2] = s.next - 1
    <3>1. s.next <= i \/ s.next = i + 1 => s.next <= i + 1
      BY ONLY <1>8
    <3> QED BY ONLY <1>5, <3>1, Zenon
  <2>6. ScanOK(s, i)
    BY <1>2, <1>5, <2>3, <2>4, <2>5 DEF ScanOK
  <2> QED BY <2>1, <2>6
<1>7. CASE ~skipped
  <2> DEFINE long == j - i + 1 >= 3
             more == IF long THEN Append(found, <<i, j>>) ELSE found
             t == [found |-> more, next |-> j + 1]
  <2>1. ScanToken(s, i) = t
    BY <1>7 DEF ScanToken, j
  <2>2. /\ ~(i < s.next) /\ s.next <= i
        /\ seedText[i] = "user" /\ j <= seedEnd /\ seedText[j] = "assistant"
    <3>1. ~(i < s.next) /\ seedText[i] = "user" /\ ~(j > seedEnd) /\ seedText[j] = "assistant"
      BY <1>7, Zenon
    <3>2. s.next <= i
      BY ONLY <1>1, <1>2, <3>1
    <3>3. j <= seedEnd
      BY ONLY <1>1, <1>4, <3>1
    <3> QED BY <3>1, <3>2, <3>3
  <2>3. Question(i, j)
    BY <1>1, <1>4, <2>2 DEF Question
  <2>4. t \in Scans
    <3>1. Append(found, <<i, j>>) \in Seq(Nat \X Nat)
      BY <1>1, <1>2, <1>4
    <3>2. more \in Seq(Nat \X Nat) /\ j + 1 \in Nat
      BY <1>2, <1>4, <3>1, SMTT(20)
    <3>3. t = [found |-> more, next |-> j + 1]
      OBVIOUS
    <3> HIDE DEF more, t, j, long, N, found, skipped
    <3> QED BY ONLY <3>2, <3>3 DEF Scans
  <2> DEFINE last == <<i, j>>
  <2>14. last \in Nat \X Nat
    BY <1>1, <1>4
  <2>13. /\ Append(found, last) \in Seq(Nat \X Nat) /\ Len(Append(found, last)) = N + 1
         /\ Append(found, last)[N + 1] = last /\ \A n \in 1..N : Append(found, last)[n] = found[n]
    <3> HIDE DEF last
    <3> QED BY ONLY <1>2, <2>14, AppendProperties
  <2>15. long => more = Append(found, last)
    BY DEF last
  <2>16. ~long => more = found
    OBVIOUS
  <2>18. Len(found) = N /\ N \in Nat
    BY <1>2
  <2> HIDE DEF more, last, long, N, found
  <2>17. Len(more) = IF long THEN N + 1 ELSE N
    BY <2>13, <2>15, <2>16, <2>18
  <2>5. \A n \in 1..N : more[n] = found[n] /\ n \in 1..Len(more)
    <3> TAKE n \in 1..N
    <3>1. n \in 1..Len(more)
      BY <2>17, <2>18
    <3>2. more[n] = found[n]
      BY <2>13, <2>15, <2>16
    <3> QED BY <3>1, <3>2
  <2>7. long => N + 1 \in 1..Len(more) /\ more[N + 1] = <<i, j>>
    <3>1. long => N + 1 \in 1..Len(more)
      BY ONLY <2>17, <2>18
    <3>2. long => more[N + 1] = last
      BY ONLY <2>13, <2>15
    <3> QED BY ONLY <3>1, <3>2 DEF last
  <2>6. \A n \in 1..Len(more) : n \in 1..N \/ (long /\ n = N + 1 /\ more[n] = <<i, j>>)
    <3> TAKE n \in 1..Len(more)
    <3>1. n \in 1..N \/ (long /\ n = N + 1)
      BY ONLY <2>17, <2>18, n \in 1..Len(more)
    <3> QED BY ONLY <2>7, <3>1
  <2> USE DEF long, N, found
  <2> HIDE DEF more
  <2>8. ASSUME NEW n \in 1..Len(more)
        PROVE  /\ more[n][1] \in 1..i /\ more[n][2] < j + 1 /\ more[n][2] <= seedEnd
               /\ more[n][2] - more[n][1] \in 2..MaxSpan
               /\ Question(more[n][1], more[n][2])
               /\ n > 1 => more[n - 1][2] < more[n][1]
    <3>1. CASE n \in 1..N
      <4>1. more[n] = found[n]
        BY <2>5, <3>1
      <4>2. n > 1 => more[n - 1] = found[n - 1]
        <5>1. n > 1 => n - 1 \in 1..N
          BY ONLY <1>2, <3>1
        <5> QED BY <2>5, <5>1
      <4>3. found[n][2] < j + 1 /\ found[n][1] \in 1..i
        <5> DEFINE x == found[n][1]
                   y == found[n][2]
        <5>1. x \in 1..(i - 1) /\ y < s.next /\ y \in Nat
          BY <1>3, <1>5, <3>1
        <5> HIDE DEF x, y
        <5>2. y < j + 1 /\ x \in 1..i
          BY ONLY <1>8, <2>2, <5>1
        <5> QED BY <5>2 DEF x, y
      <4> QED BY <1>5, <3>1, <4>1, <4>2, <4>3
    <3>2. CASE long /\ n = N + 1 /\ more[n] = <<i, j>>
      <4>1. more[n][1] = i /\ more[n][2] = j
        BY <3>2
      <4>2. n > 1 => more[n - 1][2] < i
        <5> SUFFICES ASSUME n > 1 PROVE more[n - 1][2] < i
          OBVIOUS
        <5>1. n - 1 = N /\ N \in 1..N
          <6> HIDE DEF N
          <6> QED BY ONLY <1>2, <3>2, n > 1
        <5>2. more[n - 1] = found[N] /\ found[N][2] < s.next /\ found[N][2] \in Nat
          BY <1>3, <1>5, <2>5, <5>1
        <5> DEFINE x == found[N][2]
        <5>3. x < s.next /\ x \in Nat
          BY <5>2
        <5> HIDE DEF x
        <5>4. x < i
          BY ONLY <1>8, <2>2, <5>3
        <5> QED BY <5>1, <5>2, <5>4 DEF x
      <4>3. j - i \in 2..MaxSpan /\ i \in 1..i /\ j < j + 1
        <5>1. j - i + 1 >= 3
          BY <3>2
        <5> QED BY ONLY <1>8, <5>1
      <4> QED BY <2>2, <2>3, <4>1, <4>2, <4>3
    <3> QED BY <2>6, <3>1, <3>2
  <2>9. \/ j + 1 = i + 2 /\ seedText[i + 1] = "assistant"
        \/ \E n \in 1..Len(more) : more[n][2] = (j + 1) - 1
    <3>1. CASE long
      <4>1. more[N + 1][2] = (j + 1) - 1
        <5>1. more[N + 1][2] = j
          BY ONLY <2>7, <3>1
        <5> QED BY ONLY <1>8, <5>1
      <4> QED BY <2>7, <3>1, <4>1
    <3>2. CASE ~long
      <4>1. j = i + 1
        BY ONLY <1>8, <3>2 DEF long
      <4>2. j + 1 = i + 2
        BY ONLY <1>8, <4>1
      <4> QED BY ONLY <2>2, <4>1, <4>2
    <3> QED BY <3>1, <3>2
  <2>10. ASSUME NEW a \in 1..i, NEW b \in (a + 2)..seedEnd, Question(a, b)
         PROVE  \E n \in 1..Len(more) : more[n][1] <= a /\ b <= more[n][2]
    <3>1. CASE a = i
      <4>1. seedText[b] = "assistant" /\ \A k \in (i + 1)..(b - 1) : seedText[k] # "assistant"
        BY <2>10, <3>1 DEF Question
      <4>2. b = j
        <5>3. b \in (i + 1)..seedEnd
          BY ONLY <1>8, <3>1, b \in (a + 2)..seedEnd
        <5>1. j <= b
          BY ONLY <1>4, <4>1, <5>3, Zenon
        <5>2. j \notin (i + 1)..(b - 1)
          BY ONLY <2>2, <4>1, Zenon
        <5> QED BY ONLY <1>8, <5>1, <5>2, <5>3
      <4>3. long
        BY ONLY <1>8, <3>1, <4>2, b \in (a + 2)..seedEnd DEF long
      <4>4. more[N + 1][1] <= a /\ b <= more[N + 1][2]
        <5>1. more[N + 1][1] = i /\ more[N + 1][2] = j
          BY ONLY <2>7, <4>3
        <5>2. i <= a /\ b <= j
          BY ONLY <1>8, <3>1, <4>2
        <5> QED BY ONLY <5>1, <5>2
      <4> QED BY <2>7, <4>3, <4>4
    <3>2. CASE a # i
      <4>1. a \in 1..(i - 1)
        BY <1>1, <3>2
      <4>2. PICK n \in 1..N : found[n][1] <= a /\ b <= found[n][2]
        BY <1>5, <2>10, <4>1
      <4> QED BY <2>5, <4>2
    <3> QED BY <3>1, <3>2
  <2>11. t.found = more /\ t.next = j + 1
    OBVIOUS
  <2> HIDE DEF t
  <2>12. ScanOK(t, i)
    BY <2>4, <2>8, <2>9, <2>10, <2>11 DEF ScanOK
  <2> QED BY <2>1, <2>12
<1> QED BY <1>6, <1>7

\* The prompts are questions of the training part with their answers, and every one is in.
LEMMA SpansAreQuestions ==
    ASSUME SelfGenAssumption, seedText \in Seq(SeedTokens), seedEnd \in 0..Len(seedText)
    PROVE  PromptsAreQuestions
<1> DEFINE start == [found |-> <<>>, next |-> 1]
           spec(f) == [i \in 0..seedEnd |-> IF i = 0 THEN start ELSE ScanToken(f[i - 1], i)]
           F == [x \in (1..seedEnd) \X Scans |-> ScanToken(x[2], x[1])]
           scan == CHOOSE f : f = spec(f)
<1>1. seedEnd \in Nat /\ MaxSpan \in Nat \ {0}
  BY DEF SelfGenAssumption
<1>2. start \in Scans
  BY DEF Scans
<1>3. ASSUME NEW i \in 1..seedEnd, NEW s \in Scans PROVE ScanToken(s, i) \in Scans
  <2>1. SpanEnd(i) \in Nat
    BY <1>1, SpanEndIs
  <2>2. s.found \in Seq(Nat \X Nat) /\ Append(s.found, <<i, SpanEnd(i)>>) \in Seq(Nat \X Nat)
    <3>1. s.found \in Seq(Nat \X Nat)
      BY DEF Scans
    <3>2. <<i, SpanEnd(i)>> \in Nat \X Nat
      BY <2>1
    <3> QED BY ONLY <3>1, <3>2, AppendProperties
  <2> DEFINE j == SpanEnd(i)
  <2> HIDE DEF j
  <2> QED BY <2>1, <2>2, SMTT(20) DEF ScanToken, Scans, j
<1>4. F \in [(1..seedEnd) \X Scans -> Scans]
  BY <1>3
<1>5. PICK h \in [0..seedEnd -> Scans] : Built(h, seedEnd, start, F)
  <2> HIDE DEF start, F
  <2> QED BY <1>1, <1>2, <1>4, Recursion
<1>6. \A k \in 1..seedEnd : h[k] = ScanToken(h[k - 1], k)
  <2> TAKE k \in 1..seedEnd
  <2>1. h[k - 1] \in Scans /\ h[k] = F[<<k, h[k - 1]>>]
    <3>1. k - 1 \in 0..seedEnd
      BY <1>1
    <3> HIDE DEF F
    <3> QED BY ONLY <1>5, <3>1 DEF Built
  <2> QED BY <2>1
<1>7. h = spec(h)
  <2>1. \A k \in 0..seedEnd : h[k] = IF k = 0 THEN start ELSE ScanToken(h[k - 1], k)
    BY <1>1, <1>5, <1>6 DEF Built
  <2> HIDE DEF start
  <2> QED BY <1>5, <2>1
<1>8. scan = spec(scan)
  <2> HIDE DEF spec
  <2> QED BY <1>7
<1>9. Spans = scan[seedEnd].found
  BY DEF Spans
<1> HIDE DEF scan, F
<1>10. scan[0] = start /\ \A k \in 1..seedEnd : scan[k] = ScanToken(scan[k - 1], k)
  <2>1. \A k \in 0..seedEnd : scan[k] = IF k = 0 THEN start ELSE ScanToken(scan[k - 1], k)
    BY <1>8
  <2>2. 0 \in 0..seedEnd /\ \A k \in 1..seedEnd : k \in 0..seedEnd /\ k # 0
    BY ONLY <1>1
  <2> HIDE DEF start
  <2> QED BY ONLY <2>1, <2>2
<1> DEFINE good == {k \in 0..seedEnd : ScanOK(scan[k], k)}
<1>11. 0 \in good
  <2>1. ScanOK(start, 0)
    BY <1>2 DEF ScanOK
  <2> QED BY <1>1, <1>10, <2>1
<1>12. \A k \in 1..seedEnd : k - 1 \in good => k \in good
  BY <1>1, <1>10, ScanKeeps
<1> HIDE DEF good
<1>13. \A k \in 0..seedEnd : k \in good
  BY <1>1, <1>11, <1>12, UpTo
<1>14. ScanOK(scan[seedEnd], seedEnd)
  <2>1. seedEnd \in 0..seedEnd
    BY ONLY <1>1
  <2>2. \A k \in good : ScanOK(scan[k], k)
    BY ONLY DEF good
  <2> QED BY ONLY <1>13, <2>1, <2>2, Zenon
<1> DEFINE s == scan[seedEnd]
<1> HIDE DEF s
<1>15. ScanOK(s, seedEnd) /\ Spans = s.found
  BY <1>9, <1>14 DEF s
<1>16. DOMAIN s.found = 1..Len(s.found)
  BY <1>15 DEF ScanOK, Scans
<1> QED BY <1>15, <1>16 DEF ScanOK, Question, PromptsAreQuestions

\* What remains of the accepted texts after a round: a text the memory of them has a round
\* for is one it knows, and has one round only; those of earlier rounds it knew before.
MemoryOK(m) ==
    /\ \A x \in m.since : x[1] \in m.hashes
    /\ \A x, y \in m.since : x[1] = y[1] => x[2] = y[2]
    /\ \A x \in m.since : x[2] = sampleRound \/ x[1] \in hashes

LEMMA RememberKeeps ==
    ASSUME NEW text, text \notin hashes, NEW m, MemoryOK(m)
    PROVE  MemoryOK(Remember(m, text))
<1> DEFINE new == m.hashes \cup {text}
           entered == [hashes |-> new, since |-> m.since \cup {<<text, sampleRound>>}]
           empty == [hashes |-> {}, since |-> {}]
<1>1. MemoryOK(empty)
  BY DEF MemoryOK
<1>2. MemoryOK(entered)
  <2>1. \A x \in m.since : x[1] = text => x[2] = sampleRound
    BY DEF MemoryOK
  <2>2. \A x \in entered.since : x \in m.since \/ (x[1] = text /\ x[2] = sampleRound)
    OBVIOUS
  <2>3. \A x \in entered.since : x[1] \in entered.hashes
    BY <2>2 DEF MemoryOK
  <2>4. \A x, y \in entered.since : x[1] = y[1] => x[2] = y[2]
    BY <2>1, <2>2 DEF MemoryOK
  <2>5. \A x \in entered.since : x[2] = sampleRound \/ x[1] \in hashes
    BY <2>2 DEF MemoryOK
  <2> HIDE DEF entered
  <2> QED BY <2>3, <2>4, <2>5 DEF MemoryOK
<1>3. Remember(m, text) = empty \/ Remember(m, text) = entered
  BY DEF Remember
<1> HIDE DEF entered, empty
<1> QED BY <1>1, <1>2, <1>3

LEMMA MemoryAfter ==
    ASSUME NEW T, NEW texts \in Seq(T), \A k \in 1..Len(texts) : texts[k] \notin hashes,
           \A x \in since : x[1] \in hashes, NovelAcrossRounds
    PROVE  MemoryOK(MemoryOf(texts))
<1> DEFINE n == Len(texts)
           H == hashes \cup T
           W == since \cup {<<t, sampleRound>> : t \in T}
           S == [hashes : SUBSET H, since : SUBSET W]
           start == [hashes |-> hashes, since |-> since]
           spec(f) == [k \in 0..n |-> IF k = 0 THEN start ELSE Remember(f[k - 1], texts[k])]
           F == [x \in (1..n) \X S |-> Remember(x[2], texts[x[1]])]
           memory == CHOOSE f : f = spec(f)
<1>1. n \in Nat /\ \A k \in 1..n : texts[k] \in T
  OBVIOUS
<1>2. start \in S
  OBVIOUS
<1>3. ASSUME NEW k \in 1..n, NEW s \in S PROVE Remember(s, texts[k]) \in S
  <2>1. s.hashes \cup {texts[k]} \in SUBSET H
    BY <1>1
  <2>2. s.since \cup {<<texts[k], sampleRound>>} \in SUBSET W
    BY <1>1
  <2> QED BY <2>1, <2>2 DEF Remember
<1>4. F \in [(1..n) \X S -> S]
  BY <1>3
<1>5. PICK h \in [0..n -> S] : Built(h, n, start, F)
  <2> HIDE DEF start, F, S, n
  <2> QED BY <1>1, <1>2, <1>4, Recursion
<1>6. \A k \in 1..n : h[k] = Remember(h[k - 1], texts[k])
  <2> TAKE k \in 1..n
  <2>1. h[k - 1] \in S /\ h[k] = F[<<k, h[k - 1]>>]
    <3>1. k - 1 \in 0..n
      BY <1>1
    <3> HIDE DEF F, S
    <3> QED BY ONLY <1>5, <3>1 DEF Built
  <2> HIDE DEF S
  <2> QED BY <2>1
<1>7. h = spec(h)
  <2>1. \A k \in 0..n : h[k] = IF k = 0 THEN start ELSE Remember(h[k - 1], texts[k])
    BY <1>1, <1>5, <1>6 DEF Built
  <2> HIDE DEF start, S
  <2> QED BY <1>5, <2>1
<1>8. memory = spec(memory)
  <2> HIDE DEF spec
  <2> QED BY <1>7
<1>9. MemoryOf(texts) = memory[n]
  BY DEF MemoryOf
<1> HIDE DEF memory, F
<1>10. memory[0] = start /\ \A k \in 1..n : memory[k] = Remember(memory[k - 1], texts[k])
  <2>1. \A k \in 0..n : memory[k] = IF k = 0 THEN start ELSE Remember(memory[k - 1], texts[k])
    BY <1>8
  <2>2. 0 \in 0..n /\ \A k \in 1..n : k \in 0..n /\ k # 0
    BY ONLY <1>1
  <2> HIDE DEF start
  <2> QED BY ONLY <2>1, <2>2
<1> DEFINE good == {k \in 0..n : MemoryOK(memory[k])}
<1>11. 0 \in good
  <2>1. MemoryOK(start)
    BY DEF MemoryOK, NovelAcrossRounds
  <2> QED BY <1>1, <1>10, <2>1
<1>12. \A k \in 1..n : k - 1 \in good => k \in good
  BY <1>1, <1>10, RememberKeeps
<1> HIDE DEF good
<1>13. \A k \in 0..n : k \in good
  BY <1>1, <1>11, <1>12, UpTo
<1> QED BY <1>1, <1>9, <1>13 DEF good

-----------------------------------------------------------------------------
(* The choice of a round, and the pools' turns.                            *)

Texts == Languages \X Answers
Sampled ==
    [lang : Languages, pool : DOMAIN Pools, text : Texts, score : Scores,
     verdict : {"filtered", "duplicate", "", "kept"}]

\* No language's part is empty, and with several languages none is the whole.
LEMMA PartOfALanguage ==
    ASSUME SelfGenAssumption
    PROVE  /\ LangCap \in Nat /\ LangCap >= 1
           /\ KeepBest > 1 /\ Len(Pools) > 1 => LangCap < KeepBest
<1> DEFINE K == KeepBest
           L == Len(Pools)
           d == (K + L - 1) \div L
<1>1. K \in Nat \ {0} /\ L \in Nat \ {0}
  BY DEF SelfGenAssumption
<1> HIDE DEF K, L
<1>2. K + L - 1 \in Nat /\ d \in Nat /\ L * d <= K + L - 1
  BY <1>1
<1> HIDE DEF d
<1>3. /\ Max({1, d}) \in {1, d} /\ Max({1, d}) >= 1
  <2> DEFINE S == {1, d}
  <2>1. \E x \in S : \A y \in S : x >= y
    BY <1>2
  <2> HIDE DEF S
  <2>2. Max(S) \in S /\ \A y \in S : Max(S) >= y
    BY <2>1, Zenon DEF Max
  <2> QED BY <2>2 DEF S
<1>4. K > 1 /\ L > 1 => d < K
  <2> SUFFICES ASSUME K > 1, L > 1, d >= K PROVE FALSE
    BY <1>1, <1>2
  <2>1. L * d >= L * K
    BY <1>1, <1>2
  <2>2. PICK a \in Nat, b \in Nat : K = a + 2 /\ L = b + 2
    <3>1. K - 2 \in Nat /\ L - 2 \in Nat /\ K = (K - 2) + 2 /\ L = (L - 2) + 2
      BY <1>1
    <3> QED BY <3>1
  <2>3. (b + 2) * (a + 2) = b * a + 2 * a + 2 * b + 4 /\ b * a \in Nat
    OBVIOUS
  <2>4. b * a + 2 * a + 2 * b + 4 <= a + b + 3
    BY <1>1, <1>2, <2>1, <2>2, <2>3
  <2> QED BY <2>3, <2>4
<1>5. LangCap = Max({1, d})
  BY DEF LangCap, d, K, L
<1> QED BY <1>1, <1>2, <1>3, <1>4, <1>5 DEF K, L

\* The good candidates, the best first, and all of them.
LEMMA OrderIs ==
    ASSUME SelfGenAssumption, cands \in Seq(Sampled), NEW order \in Orders
    PROVE  /\ IsFiniteSet(Good) /\ order \in Seq(Good) /\ Len(order) \in Nat
           /\ \A i \in 1..Len(order) : order[i] \in Good
           /\ \A i, j \in 1..Len(order) : order[i] = order[j] => i = j
           /\ \A i, j \in 1..Len(order) : cands[order[i]].score > cands[order[j]].score => i < j
           /\ \A n \in Good : \E i \in 1..Len(order) : order[i] = n
<1> DEFINE N == Cardinality(Good)
<1>1. IsFiniteSet(Good) /\ N \in Nat
  <2>1. Len(cands) \in Nat /\ DOMAIN cands = 1..Len(cands)
    OBVIOUS
  <2>3. Good \in SUBSET (1..Len(cands))
    BY <2>1 DEF Good
  <2>2. IsFiniteSet(1..Len(cands))
    BY <2>1, FS_Interval
  <2> QED BY <2>2, <2>3, FS_Subset, FS_CardinalityType
<1>2. order \in [1..N -> Good]
  BY DEF Orders
<1>3. \A i, j \in 1..N : i < j =>
         order[i] # order[j] /\ cands[order[i]].score >= cands[order[j]].score
  BY DEF Orders
<1> HIDE DEF N
<1>9. IsFiniteSet(1..N) /\ Cardinality(1..N) = N
  <2>1. 1 \in Int /\ N \in Int /\ N - 1 + 1 = N /\ (1 > N => N = 0)
    BY <1>1
  <2>2. IsFiniteSet(1..N) /\ Cardinality(1..N) = IF 1 > N THEN 0 ELSE N - 1 + 1
    BY <2>1, FS_Interval
  <2> QED BY <2>1, <2>2
<1>4. order \in Seq(Good) /\ Len(order) = N
  BY <1>1, <1>2
<1>5. \A i, j \in 1..N : order[i] = order[j] => i = j
  BY <1>1, <1>3
<1>6. \A n \in Good : cands[n].score \in Int
  <2>2. DOMAIN cands = 1..Len(cands) /\ \A n \in 1..Len(cands) : cands[n] \in Sampled
    OBVIOUS
  <2>1. \A n \in Good : cands[n] \in Sampled
    BY <2>2 DEF Good
  <2> QED BY <2>1 DEF Sampled, SelfGenAssumption
<1>7. \A i, j \in 1..N : cands[order[i]].score > cands[order[j]].score => i < j
  <2> TAKE i \in 1..N, j \in 1..N
  <2> DEFINE a == cands[order[i]].score
             b == cands[order[j]].score
  <2>1. a \in Int /\ b \in Int /\ (j < i => b >= a) /\ (i = j => a = b)
    BY <1>2, <1>3, <1>6
  <2> HIDE DEF a, b
  <2>2. a > b => i < j
    BY <1>1, <2>1
  <2> QED BY <2>2 DEF a, b
<1>8. ASSUME NEW n \in Good PROVE \E i \in 1..N : order[i] = n
  <2> SUFFICES ASSUME \A i \in 1..N : order[i] # n PROVE FALSE
    OBVIOUS
  <2>1. IsFiniteSet(Good \ {n}) /\ Cardinality(Good \ {n}) < N
    <3>1. IsFiniteSet(Good \ {n}) /\ Cardinality(Good \ {n}) = N - 1
      BY <1>1, FS_RemoveElement DEF N
    <3> QED BY <1>1, <3>1
  <2>2. order \in [1..N -> Good \ {n}]
    BY <1>2
  <2>3. \E x, y \in 1..N : x # y /\ order[x] = order[y]
    <3> DEFINE Rest == Good \ {n}
    <3> HIDE DEF Rest
    <3>1. IsFiniteSet(Rest) /\ Cardinality(Rest) < N /\ order \in [1..N -> Rest]
      BY <2>1, <2>2 DEF Rest
    <3> QED BY ONLY <1>9, <3>1, FS_PigeonHole
  <2> QED BY <1>5, <2>3
<1> QED BY <1>1, <1>4, <1>5, <1>2, <1>7, <1>8

\* The choice after the first k of an order: each of them is in, or its language has its
\* part, or every slot is taken; then no later one of its language, or none at all, is in.
FirstOK(order, kept, k) ==
    LET X == ToSet(kept)
    IN  /\ kept \in Seq(Good) /\ Len(kept) <= KeepBest /\ Cardinality(X) = Len(kept)
        /\ \A n \in X : \E i \in 1..k : order[i] = n
        /\ \A lang \in Languages : Cardinality(OfLang(X, lang)) <= LangCap
        /\ \A i \in 1..k :
            \/ order[i] \in X
            \/ /\ Cardinality(OfLang(X, cands[order[i]].lang)) >= LangCap
               /\ \A j \in (i + 1)..Len(order) :
                     cands[order[j]].lang = cands[order[i]].lang => order[j] \notin X
            \/ /\ Len(kept) >= KeepBest
               /\ \A j \in (i + 1)..Len(order) : order[j] \notin X

\* One more in a choice.
LEMMA OneMore ==
    ASSUME IsFiniteSet(Good), NEW kept \in Seq(Good), Cardinality(ToSet(kept)) = Len(kept),
           NEW n \in Good, n \notin ToSet(kept)
    PROVE  /\ Append(kept, n) \in Seq(Good) /\ Len(Append(kept, n)) = Len(kept) + 1
           /\ ToSet(Append(kept, n)) = ToSet(kept) \cup {n}
           /\ Cardinality(ToSet(Append(kept, n))) = Len(Append(kept, n))
<1> DEFINE more == Append(kept, n)
<1>1. /\ more \in Seq(Good) /\ Len(more) = Len(kept) + 1
      /\ more[Len(kept) + 1] = n /\ \A i \in 1..Len(kept) : more[i] = kept[i]
  BY AppendProperties
<1> HIDE DEF more
<1>2. DOMAIN more = 1..(Len(kept) + 1) /\ DOMAIN kept = 1..Len(kept) /\ Len(kept) \in Nat
  BY <1>1
<1>3. ToSet(more) = ToSet(kept) \cup {n}
  <2>1. ASSUME NEW x \in ToSet(more) PROVE x \in ToSet(kept) \cup {n}
    <3>1. PICK i \in 1..(Len(kept) + 1) : x = more[i]
      BY <1>2 DEF ToSet
    <3>2. i \in 1..Len(kept) \/ i = Len(kept) + 1
      BY ONLY <1>2, i \in 1..(Len(kept) + 1)
    <3> QED BY <1>1, <1>2, <3>1, <3>2, Zenon DEF ToSet
  <2>2. ASSUME NEW x \in ToSet(kept) PROVE x \in ToSet(more)
    <3>1. PICK i \in 1..Len(kept) : x = kept[i]
      BY <1>2 DEF ToSet
    <3>2. i \in 1..(Len(kept) + 1) /\ x = more[i]
      BY ONLY <1>1, <1>2, <3>1, i \in 1..Len(kept)
    <3> QED BY <1>2, <3>2, Zenon DEF ToSet
  <2>3. n \in ToSet(more)
    <3>1. Len(kept) + 1 \in 1..(Len(kept) + 1)
      BY ONLY <1>2
    <3> QED BY <1>1, <1>2, <3>1, Zenon DEF ToSet
  <2> QED BY <2>1, <2>2, <2>3
<1>4. IsFiniteSet(ToSet(kept))
  <2>1. \A i \in 1..Len(kept) : kept[i] \in Good
    BY ONLY kept \in Seq(Good), SMTT(20)
  <2>2. ToSet(kept) \in SUBSET Good
    BY <1>2, <2>1 DEF ToSet
  <2> QED BY <2>2, FS_Subset
<1>5. Cardinality(ToSet(more)) = Len(more)
  BY <1>1, <1>3, <1>4, FS_AddElement
<1> QED BY <1>1, <1>3, <1>5 DEF more

LEMMA ChosenAreGood ==
    ASSUME IsFiniteSet(Good), NEW kept \in Seq(Good), NEW lang
    PROVE  /\ ToSet(kept) \in SUBSET Good /\ IsFiniteSet(ToSet(kept))
           /\ IsFiniteSet(OfLang(ToSet(kept), lang))
           /\ Cardinality(OfLang(ToSet(kept), lang)) \in Nat
<1>1. ToSet(kept) \in SUBSET Good
  <2>1. DOMAIN kept = 1..Len(kept) /\ \A i \in 1..Len(kept) : kept[i] \in Good
    OBVIOUS
  <2> QED BY <2>1 DEF ToSet
<1>2. OfLang(ToSet(kept), lang) \in SUBSET Good
  BY <1>1 DEF OfLang
<1> QED BY <1>1, <1>2, FS_Subset, FS_CardinalityType

LEMMA TakeFirstKeeps ==
    ASSUME SelfGenAssumption, cands \in Seq(Sampled), NEW order \in Orders,
           NEW k \in 1..Len(order), NEW kept, FirstOK(order, kept, k - 1)
    PROVE  FirstOK(order, TakeFirst(kept, order[k]), k)
<1> DEFINE n == order[k]
           N == Len(order)
           X == ToSet(kept)
           L(i) == cands[order[i]].lang
           same == OfLang(X, cands[n].lang)
<1>1. /\ IsFiniteSet(Good) /\ N \in Nat
      /\ \A i \in 1..N : order[i] \in Good
      /\ \A i, j \in 1..N : order[i] = order[j] => i = j
  BY OrderIs
<1>2. k \in Nat /\ k \in 1..N /\ k - 1 \in Nat
  BY <1>1
<1>3. /\ kept \in Seq(Good) /\ Len(kept) <= KeepBest /\ Cardinality(X) = Len(kept)
      /\ \A m \in X : \E i \in 1..(k - 1) : order[i] = m
      /\ \A lang \in Languages : Cardinality(OfLang(X, lang)) <= LangCap
      /\ \A i \in 1..(k - 1) :
            \/ order[i] \in X
            \/ /\ Cardinality(OfLang(X, L(i))) >= LangCap
               /\ \A j \in (i + 1)..N : L(j) = L(i) => order[j] \notin X
            \/ /\ Len(kept) >= KeepBest
               /\ \A j \in (i + 1)..N : order[j] \notin X
  BY DEF FirstOK
<1>4. \A j \in k..N : order[j] \notin X
  <2> TAKE j \in k..N
  <2>1. \A i \in 1..(k - 1) : i \in 1..N /\ j \in 1..N /\ i # j
    BY <1>1, <1>2
  <2> QED BY <1>1, <1>3, <2>1
<1>5. n \notin X /\ n \in Good
  BY <1>1, <1>2, <1>4
<1>6. /\ Len(kept) \in Nat /\ KeepBest \in Nat /\ LangCap \in Nat
      /\ \A lang : Cardinality(OfLang(X, lang)) \in Nat /\ IsFiniteSet(OfLang(X, lang))
  <2>1. \A lang : Cardinality(OfLang(X, lang)) \in Nat /\ IsFiniteSet(OfLang(X, lang))
    BY <1>1, <1>3, ChosenAreGood
  <2> QED BY <1>3, <2>1, PartOfALanguage DEF SelfGenAssumption
<1>7. TakeFirst(kept, n) =
         IF Len(kept) >= KeepBest \/ Cardinality(same) >= LangCap THEN kept ELSE Append(kept, n)
  BY DEF TakeFirst, OfLang
<1>8. \A i \in 1..k : i \in 1..(k - 1) \/ i = k
  BY <1>2
<1>9. \A i \in 1..(k - 1) : i \in 1..k
  BY <1>2
<1>10. CASE Len(kept) >= KeepBest \/ Cardinality(same) >= LangCap
  <2>1. TakeFirst(kept, n) = kept
    BY <1>7, <1>10
  <2>2. \A m \in X : \E i \in 1..k : order[i] = m
    BY <1>3, <1>9
  <2>3. \A j \in (k + 1)..N : order[j] \notin X
    <3>1. \A j \in (k + 1)..N : j \in k..N
      BY <1>1, <1>2, SMTT(20)
    <3> QED BY <1>4, <3>1
  <2>4. \A i \in 1..k :
            \/ order[i] \in X
            \/ /\ Cardinality(OfLang(X, L(i))) >= LangCap
               /\ \A j \in (i + 1)..N : L(j) = L(i) => order[j] \notin X
            \/ /\ Len(kept) >= KeepBest
               /\ \A j \in (i + 1)..N : order[j] \notin X
    <3> TAKE i \in 1..k
    <3>1. CASE i = k
      BY <1>10, <2>3, <3>1
    <3>2. CASE i \in 1..(k - 1)
      BY <1>3, <3>2
    <3> QED BY <1>8, <3>1, <3>2
  <2>5. FirstOK(order, kept, k)
    BY <1>3, <2>2, <2>4 DEF FirstOK
  <2> QED BY <2>1, <2>5
<1>11. CASE ~(Len(kept) >= KeepBest \/ Cardinality(same) >= LangCap)
  <2> DEFINE more == Append(kept, n)
             Y == ToSet(more)
  <2>1. TakeFirst(kept, n) = more
    BY <1>7, <1>11
  <2>2. /\ more \in Seq(Good) /\ Len(more) = Len(kept) + 1
        /\ Y = X \cup {n} /\ Cardinality(Y) = Len(more)
    BY <1>1, <1>3, <1>5, OneMore
  <2> HIDE DEF more, Y
  <2>3. Len(more) <= KeepBest
    BY <1>6, <1>11, <2>2
  <2>4. \A m \in Y : \E i \in 1..k : order[i] = m
    BY <1>2, <1>3, <1>9, <2>2, SMTT(20)
  <2>5. /\ OfLang(Y, cands[n].lang) = same \cup {n}
        /\ \A lang : lang # cands[n].lang => OfLang(Y, lang) = OfLang(X, lang)
    BY <2>2 DEF OfLang
  <2>6. Cardinality(OfLang(Y, cands[n].lang)) = Cardinality(same) + 1
    <3>1. n \notin same
      BY <1>5 DEF OfLang
    <3>2. IsFiniteSet(same) /\ OfLang(Y, cands[n].lang) = same \cup {n}
      BY <1>6, <2>5
    <3> HIDE DEF same
    <3> QED BY <3>1, <3>2, FS_AddElement
  <2>7. \A lang \in Languages : Cardinality(OfLang(Y, lang)) <= LangCap
    <3> TAKE lang \in Languages
    <3>1. CASE lang = cands[n].lang
      <4> DEFINE c == Cardinality(same)
      <4>1. c \in Nat /\ ~(c >= LangCap) /\ Cardinality(OfLang(Y, lang)) = c + 1
        BY <1>6, <1>11, <2>6, <3>1
      <4> HIDE DEF c
      <4> QED BY <1>6, <4>1
    <3>2. CASE lang # cands[n].lang
      BY <1>3, <2>5, <3>2
    <3> QED BY <3>1, <3>2
  <2>8. \A i \in 1..k :
            \/ order[i] \in Y
            \/ /\ Cardinality(OfLang(Y, L(i))) >= LangCap
               /\ \A j \in (i + 1)..N : L(j) = L(i) => order[j] \notin Y
            \/ /\ Len(more) >= KeepBest
               /\ \A j \in (i + 1)..N : order[j] \notin Y
    <3> TAKE i \in 1..k
    <3>1. CASE i = k \/ order[i] \in X
      BY <2>2, <3>1
    <3>2. CASE i \in 1..(k - 1) /\ order[i] \notin X
      <4>1. /\ Cardinality(OfLang(X, L(i))) >= LangCap
            /\ \A j \in (i + 1)..N : L(j) = L(i) => order[j] \notin X
        BY <1>3, <1>11, <3>2
      <4>2. L(i) # cands[n].lang
        BY <1>11, <4>1
      <4>3. OfLang(Y, L(i)) = OfLang(X, L(i))
        BY <2>5, <4>2
      <4>4. \A j \in (i + 1)..N : L(j) = L(i) => order[j] \notin Y
        BY <2>2, <4>1, <4>2
      <4> QED BY <4>1, <4>3, <4>4
    <3> QED BY <1>8, <3>1, <3>2
  <2>9. FirstOK(order, more, k)
    BY <2>2, <2>3, <2>4, <2>7, <2>8 DEF FirstOK, Y
  <2> QED BY <2>1, <2>9
<1> QED BY <1>10, <1>11

\* The two passes over an order, and what they choose.
LEMMA FirstPassIs ==
    ASSUME SelfGenAssumption, cands \in Seq(Sampled), NEW order \in Orders
    PROVE  FirstOK(order, FirstPass(order), Len(order))
<1> DEFINE n == Len(order)
           S == Seq(Good)
           start == <<>>
           spec(f) == [k \in 0..n |-> IF k = 0 THEN start ELSE TakeFirst(f[k - 1], order[k])]
           F == [x \in (1..n) \X S |-> TakeFirst(x[2], order[x[1]])]
           pass == CHOOSE f : f = spec(f)
<1>1. n \in Nat /\ (\A k \in 1..n : order[k] \in Good) /\ IsFiniteSet(Good)
  BY OrderIs
<1>2. start \in S
  OBVIOUS
<1> HIDE DEF n
<1>3. ASSUME NEW k \in 1..n, NEW s \in S PROVE TakeFirst(s, order[k]) \in S
  <2>1. Append(s, order[k]) \in S
    BY <1>1
  <2> QED BY <2>1 DEF TakeFirst
<1>4. F \in [(1..n) \X S -> S]
  BY <1>3
<1>5. PICK h \in [0..n -> S] : Built(h, n, start, F)
  <2> HIDE DEF start, F, S
  <2> QED BY <1>1, <1>2, <1>4, Recursion
<1>6. \A k \in 1..n : h[k] = TakeFirst(h[k - 1], order[k])
  <2> TAKE k \in 1..n
  <2>1. h[k - 1] \in S /\ h[k] = F[<<k, h[k - 1]>>]
    <3>1. k - 1 \in 0..n
      BY <1>1
    <3> HIDE DEF F, S
    <3> QED BY ONLY <1>5, <3>1 DEF Built
  <2> HIDE DEF S
  <2> QED BY <2>1
<1>7. h = spec(h)
  <2>1. \A k \in 0..n : h[k] = IF k = 0 THEN start ELSE TakeFirst(h[k - 1], order[k])
    BY <1>1, <1>5, <1>6 DEF Built
  <2> HIDE DEF start, S
  <2> QED BY <1>5, <2>1
<1>8. pass = spec(pass)
  <2> HIDE DEF spec
  <2> QED BY <1>7
<1>9. FirstPass(order) = pass[n]
  BY DEF FirstPass, n
<1> HIDE DEF pass, F
<1>10. pass[0] = start /\ \A k \in 1..n : pass[k] = TakeFirst(pass[k - 1], order[k])
  <2>1. \A k \in 0..n : pass[k] = IF k = 0 THEN start ELSE TakeFirst(pass[k - 1], order[k])
    BY <1>8
  <2>2. 0 \in 0..n /\ \A k \in 1..n : k \in 0..n /\ k # 0
    BY ONLY <1>1
  <2> HIDE DEF start
  <2> QED BY ONLY <2>1, <2>2
<1> DEFINE good == {k \in 0..n : FirstOK(order, pass[k], k)}
<1>11. 0 \in good
  <2>1. ToSet(start) = {} /\ Len(start) = 0 /\ start \in Seq(Good) /\ Len(start) <= KeepBest
    BY DEF ToSet, SelfGenAssumption
  <2>2. \A lang : OfLang({}, lang) = {}
    BY DEF OfLang
  <2>3. \A lang : Cardinality(OfLang({}, lang)) <= LangCap
    <3>1. 0 <= LangCap
      BY PartOfALanguage
    <3>2. \A lang : Cardinality(OfLang({}, lang)) = 0
      BY <2>2, FS_EmptySet, Zenon
    <3> QED BY <3>1, <3>2
  <2> HIDE DEF start
  <2>4. FirstOK(order, start, 0)
    BY <2>1, <2>3, FS_EmptySet DEF FirstOK
  <2> QED BY <1>1, <1>10, <2>4
<1>12. \A k \in 1..n : k - 1 \in good => k \in good
  <2> TAKE k \in 1..n
  <2> HAVE k - 1 \in good
  <2>1. FirstOK(order, TakeFirst(pass[k - 1], order[k]), k)
    BY TakeFirstKeeps DEF n
  <2>2. k \in 0..n
    BY ONLY <1>1
  <2> QED BY ONLY <1>10, <2>1, <2>2
<1> HIDE DEF good
<1>13. \A k \in 0..n : k \in good
  BY <1>1, <1>11, <1>12, UpTo
<1>14. FirstOK(order, pass[n], n)
  BY <1>1, <1>13 DEF good
<1> QED BY <1>9, <1>14 DEF n

\* The choice after the first k of an order in the second pass: each of them is in, or
\* every slot is taken, and of the later ones those only that were in before.
SecondOK(order, kept, k) ==
    LET f == FirstPass(order)
        X == ToSet(kept)
    IN  /\ kept \in Seq(Good) /\ Len(kept) <= KeepBest /\ Cardinality(X) = Len(kept)
        /\ ToSet(f) \subseteq X
        /\ \A n \in X : n \in ToSet(f) \/ \E i \in 1..k : order[i] = n
        /\ Len(f) >= KeepBest => kept = f
        /\ \A i \in 1..k :
            \/ order[i] \in X
            \/ /\ Len(kept) >= KeepBest
               /\ \A j \in (i + 1)..Len(order) : order[j] \in X => order[j] \in ToSet(f)

LEMMA TakeMoreKeeps ==
    ASSUME SelfGenAssumption, cands \in Seq(Sampled), NEW order \in Orders,
           NEW k \in 1..Len(order), NEW kept, SecondOK(order, kept, k - 1)
    PROVE  SecondOK(order, TakeMore(kept, order[k]), k)
<1> DEFINE n == order[k]
           N == Len(order)
           X == ToSet(kept)
           f == FirstPass(order)
<1>1. /\ IsFiniteSet(Good) /\ N \in Nat
      /\ \A i \in 1..N : order[i] \in Good
      /\ \A i, j \in 1..N : order[i] = order[j] => i = j
  BY OrderIs
<1>2. k \in Nat /\ k \in 1..N /\ k - 1 \in Nat /\ n \in Good
  BY <1>1
<1>3. /\ kept \in Seq(Good) /\ Len(kept) <= KeepBest /\ Cardinality(X) = Len(kept)
      /\ ToSet(f) \subseteq X
      /\ \A m \in X : m \in ToSet(f) \/ \E i \in 1..(k - 1) : order[i] = m
      /\ Len(f) >= KeepBest => kept = f
      /\ \A i \in 1..(k - 1) :
            \/ order[i] \in X
            \/ /\ Len(kept) >= KeepBest
               /\ \A j \in (i + 1)..N : order[j] \in X => order[j] \in ToSet(f)
  BY DEF SecondOK
<1> HIDE DEF f
<1>4. \A i \in 1..k : i \in 1..(k - 1) \/ i = k
  BY <1>2
<1>5. \A i \in 1..(k - 1) : i \in 1..k
  BY <1>2
<1>6. Len(kept) \in Nat /\ KeepBest \in Nat
  BY <1>3 DEF SelfGenAssumption
<1>7. CASE Len(kept) >= KeepBest \/ n \in X
  <2>1. TakeMore(kept, n) = kept
    BY <1>7 DEF TakeMore
  <2>2. \A j \in (k + 1)..N : order[j] \in X => order[j] \in ToSet(f)
    <3> TAKE j \in (k + 1)..N
    <3>1. \A i \in 1..(k - 1) : i \in 1..N /\ j \in 1..N /\ i # j
      BY <1>1, <1>2
    <3> QED BY <1>1, <1>3, <3>1
  <2>3. \A m \in X : m \in ToSet(f) \/ \E i \in 1..k : order[i] = m
    BY <1>3, <1>5
  <2>4. \A i \in 1..k :
            \/ order[i] \in X
            \/ /\ Len(kept) >= KeepBest
               /\ \A j \in (i + 1)..N : order[j] \in X => order[j] \in ToSet(f)
    <3> TAKE i \in 1..k
    <3>1. CASE i = k
      BY <1>7, <2>2, <3>1
    <3>2. CASE i \in 1..(k - 1)
      BY <1>3, <3>2
    <3> QED BY <1>4, <3>1, <3>2
  <2>5. SecondOK(order, kept, k)
    BY <1>3, <2>3, <2>4 DEF SecondOK, f
  <2> QED BY <2>1, <2>5
<1>8. CASE ~(Len(kept) >= KeepBest \/ n \in X)
  <2> DEFINE more == Append(kept, n)
             Y == ToSet(more)
  <2>1. TakeMore(kept, n) = more
    BY <1>8 DEF TakeMore
  <2>2. /\ more \in Seq(Good) /\ Len(more) = Len(kept) + 1
        /\ Y = X \cup {n} /\ Cardinality(Y) = Len(more)
    BY <1>1, <1>2, <1>3, <1>8, OneMore
  <2> HIDE DEF more, Y
  <2>3. Len(more) <= KeepBest
    BY <1>6, <1>8, <2>2
  <2>4. \A m \in Y : m \in ToSet(f) \/ \E i \in 1..k : order[i] = m
    BY <1>2, <1>3, <1>5, <2>2, SMTT(20)
  <2>5. ~(Len(f) >= KeepBest)
    BY <1>3, <1>8
  <2>6. \A i \in 1..k : order[i] \in Y
    <3> TAKE i \in 1..k
    <3>1. CASE i = k
      BY <2>2, <3>1
    <3>2. CASE i \in 1..(k - 1)
      BY <1>3, <1>8, <2>2, <3>2
    <3> QED BY <1>4, <3>1, <3>2
  <2>7. SecondOK(order, more, k)
    BY <1>3, <2>2, <2>3, <2>4, <2>5, <2>6 DEF SecondOK, f, Y
  <2> QED BY <2>1, <2>7
<1> QED BY <1>7, <1>8

LEMMA KeptIs ==
    ASSUME SelfGenAssumption, cands \in Seq(Sampled), NEW order \in Orders
    PROVE  SecondOK(order, Kept(order), Len(order))
<1> DEFINE n == Len(order)
           S == Seq(Good)
           start == FirstPass(order)
           spec(f) == [k \in 0..n |-> IF k = 0 THEN start ELSE TakeMore(f[k - 1], order[k])]
           F == [x \in (1..n) \X S |-> TakeMore(x[2], order[x[1]])]
           pass == CHOOSE f : f = spec(f)
<1>1. n \in Nat /\ (\A k \in 1..n : order[k] \in Good) /\ IsFiniteSet(Good)
  BY OrderIs
<1>15. FirstOK(order, start, n)
  BY FirstPassIs
<1> HIDE DEF n, start
<1>2. start \in S
  BY <1>15 DEF FirstOK
<1>3. ASSUME NEW k \in 1..n, NEW s \in S PROVE TakeMore(s, order[k]) \in S
  <2>1. Append(s, order[k]) \in S
    BY <1>1
  <2> QED BY <2>1 DEF TakeMore
<1>4. F \in [(1..n) \X S -> S]
  BY <1>3
<1>5. PICK h \in [0..n -> S] : Built(h, n, start, F)
  <2> HIDE DEF F, S
  <2> QED BY <1>1, <1>2, <1>4, Recursion
<1>6. \A k \in 1..n : h[k] = TakeMore(h[k - 1], order[k])
  <2> TAKE k \in 1..n
  <2>1. h[k - 1] \in S /\ h[k] = F[<<k, h[k - 1]>>]
    <3>1. k - 1 \in 0..n
      BY <1>1
    <3> HIDE DEF F, S
    <3> QED BY ONLY <1>5, <3>1 DEF Built
  <2> HIDE DEF S
  <2> QED BY <2>1
<1>7. h = spec(h)
  <2>1. \A k \in 0..n : h[k] = IF k = 0 THEN start ELSE TakeMore(h[k - 1], order[k])
    BY <1>1, <1>5, <1>6 DEF Built
  <2> HIDE DEF S
  <2> QED BY <1>5, <2>1
<1>8. pass = spec(pass)
  <2> HIDE DEF spec
  <2> QED BY <1>7
<1>9. Kept(order) = pass[n]
  BY DEF Kept, n, start
<1> HIDE DEF pass, F
<1>10. pass[0] = start /\ \A k \in 1..n : pass[k] = TakeMore(pass[k - 1], order[k])
  <2>1. \A k \in 0..n : pass[k] = IF k = 0 THEN start ELSE TakeMore(pass[k - 1], order[k])
    BY <1>8
  <2>2. 0 \in 0..n /\ \A k \in 1..n : k \in 0..n /\ k # 0
    BY ONLY <1>1
  <2> QED BY ONLY <2>1, <2>2
<1> DEFINE good == {k \in 0..n : SecondOK(order, pass[k], k)}
<1>11. 0 \in good
  <2>1. SecondOK(order, start, 0)
    BY <1>15 DEF SecondOK, FirstOK, start
  <2> QED BY <1>1, <1>10, <2>1
<1>12. \A k \in 1..n : k - 1 \in good => k \in good
  <2> TAKE k \in 1..n
  <2> HAVE k - 1 \in good
  <2>1. SecondOK(order, TakeMore(pass[k - 1], order[k]), k)
    BY TakeMoreKeeps DEF n
  <2>2. k \in 0..n
    BY ONLY <1>1
  <2> QED BY ONLY <1>10, <2>1, <2>2
<1> HIDE DEF good
<1>13. \A k \in 0..n : k \in good
  BY <1>1, <1>11, <1>12, UpTo
<1>14. SecondOK(order, pass[n], n)
  BY <1>1, <1>13 DEF good
<1> QED BY <1>9, <1>14 DEF n

\* A choice of the candidates that passed the judge as round() makes it.
BestChoice(chosen) ==
    /\ chosen \in SUBSET Good /\ IsFiniteSet(chosen) /\ Cardinality(chosen) <= KeepBest
    /\ Good \ chosen # {} => Cardinality(chosen) = KeepBest
    /\ \A n \in Good \ chosen :
        /\ (KeepBest > 1 /\ Len(Pools) > 1) =>
                \A lang \in Languages \ {cands[n].lang} : OfLang(chosen, lang) # chosen
        /\ \A k \in chosen : cands[n].score > cands[k].score =>
                /\ cands[k].lang # cands[n].lang
                /\ Cardinality(OfLang(chosen, cands[n].lang)) >= LangCap

LEMMA KeptAreBest ==
    ASSUME SelfGenAssumption, cands \in Seq(Sampled), NEW order \in Orders
    PROVE  Kept(order) \in Seq(Good) /\ BestChoice(ToSet(Kept(order)))
<1> DEFINE N == Len(order)
           f == FirstPass(order)
           X == ToSet(f)
           kept == Kept(order)
           Y == ToSet(kept)
           L(i) == cands[order[i]].lang
<1>1. /\ IsFiniteSet(Good) /\ N \in Nat
      /\ \A i \in 1..N : order[i] \in Good
      /\ \A i, j \in 1..N : order[i] = order[j] => i = j
      /\ \A i, j \in 1..N : cands[order[i]].score > cands[order[j]].score => i < j
      /\ \A n \in Good : \E i \in 1..N : order[i] = n
  BY OrderIs
<1>2. FirstOK(order, f, N) /\ SecondOK(order, kept, N)
  BY FirstPassIs, KeptIs
<1>3. /\ f \in Seq(Good) /\ Len(f) <= KeepBest /\ Cardinality(X) = Len(f)
      /\ \A lang \in Languages : Cardinality(OfLang(X, lang)) <= LangCap
      /\ \A i \in 1..N :
            \/ order[i] \in X
            \/ /\ Cardinality(OfLang(X, L(i))) >= LangCap
               /\ \A j \in (i + 1)..N : L(j) = L(i) => order[j] \notin X
            \/ /\ Len(f) >= KeepBest
               /\ \A j \in (i + 1)..N : order[j] \notin X
  BY <1>2 DEF FirstOK
<1>4. /\ kept \in Seq(Good) /\ Len(kept) <= KeepBest /\ Cardinality(Y) = Len(kept)
      /\ X \subseteq Y
      /\ Len(f) >= KeepBest => kept = f
      /\ \A i \in 1..N :
            \/ order[i] \in Y
            \/ /\ Len(kept) >= KeepBest
               /\ \A j \in (i + 1)..N : order[j] \in Y => order[j] \in X
  BY <1>2 DEF SecondOK
<1> HIDE DEF N, f, kept
<1>5. Y \in SUBSET Good /\ IsFiniteSet(Y)
  BY <1>1, <1>4, ChosenAreGood
<1>6. Len(f) \in Nat /\ Len(kept) \in Nat /\ KeepBest \in Nat \ {0}
  BY <1>3, <1>4 DEF SelfGenAssumption
<1> HIDE DEF X, Y
<1>7. LangCap \in Nat /\ LangCap >= 1 /\ (KeepBest > 1 /\ Len(Pools) > 1 => LangCap < KeepBest)
  BY PartOfALanguage
<1>8. \A lang : /\ OfLang(X, lang) \subseteq OfLang(Y, lang)
                /\ Cardinality(OfLang(X, lang)) \in Nat /\ Cardinality(OfLang(Y, lang)) \in Nat
                /\ Cardinality(OfLang(X, lang)) <= Cardinality(OfLang(Y, lang))
  <2> TAKE lang
  <2>1. OfLang(X, lang) \subseteq OfLang(Y, lang)
    BY <1>4 DEF OfLang
  <2>2. IsFiniteSet(OfLang(Y, lang)) /\ Cardinality(OfLang(Y, lang)) \in Nat
        /\ Cardinality(OfLang(X, lang)) \in Nat
    BY <1>1, <1>3, <1>4, ChosenAreGood DEF X, Y
  <2> QED BY <2>1, <2>2, FS_Subset
<1>9. ASSUME NEW n \in Good \ Y
      PROVE  /\ Cardinality(Y) = KeepBest
             /\ (KeepBest > 1 /\ Len(Pools) > 1) =>
                   \A lang \in Languages \ {cands[n].lang} : OfLang(Y, lang) # Y
             /\ \A k \in Y : cands[n].score > cands[k].score =>
                   /\ cands[k].lang # cands[n].lang
                   /\ Cardinality(OfLang(Y, cands[n].lang)) >= LangCap
  <2>1. PICK i \in 1..N : order[i] = n
    BY <1>1
  <2>2. order[i] \notin Y /\ order[i] \notin X
    BY <1>4, <2>1
  <2>3. Len(kept) >= KeepBest /\ \A j \in (i + 1)..N : order[j] \in Y => order[j] \in X
    BY <1>4, <2>2
  <2>4. Cardinality(Y) = KeepBest
    BY <1>4, <1>6, <2>3
  <2>5. \/ /\ Cardinality(OfLang(X, cands[n].lang)) >= LangCap
           /\ \A j \in (i + 1)..N : L(j) = cands[n].lang => order[j] \notin X
        \/ /\ Len(f) >= KeepBest
           /\ \A j \in (i + 1)..N : order[j] \notin X
    BY <1>3, <2>1, <2>2
  <2>6. ASSUME KeepBest > 1, Len(Pools) > 1, NEW lang \in Languages \ {cands[n].lang},
               OfLang(Y, lang) = Y
        PROVE  FALSE
    <3>1. CASE Cardinality(OfLang(X, cands[n].lang)) >= LangCap
      <4>1. Cardinality(OfLang(Y, cands[n].lang)) >= 1
        <5> DEFINE a == Cardinality(OfLang(X, cands[n].lang))
                   b == Cardinality(OfLang(Y, cands[n].lang))
        <5>1. a \in Nat /\ b \in Nat /\ a <= b /\ a >= LangCap
          BY <1>8, <3>1
        <5> HIDE DEF a, b
        <5>2. b >= 1
          BY <1>7, <5>1
        <5> QED BY <5>2 DEF b
      <4>2. OfLang(Y, cands[n].lang) # {}
        <5>1. Cardinality({}) = 0 /\ ~(0 >= 1)
          BY FS_EmptySet
        <5> QED BY <4>1, <5>1, Zenon
      <4>3. PICK m \in Y : cands[m].lang = cands[n].lang
        BY <4>2 DEF OfLang
      <4> QED BY <2>6, <4>3 DEF OfLang
    <3>2. CASE Len(f) >= KeepBest
      <4>1. Y = X
        BY <1>4, <3>2 DEF X, Y
      <4>2. Cardinality(Y) <= LangCap
        BY <1>3, <2>6, <4>1
      <4> QED BY <1>6, <1>7, <2>4, <2>6, <4>2
    <3> QED BY <2>5, <3>1, <3>2
  <2>7. ASSUME NEW k \in Y, cands[n].score > cands[k].score
        PROVE  /\ cands[k].lang # cands[n].lang
               /\ Cardinality(OfLang(Y, cands[n].lang)) >= LangCap
    <3>1. PICK j \in 1..N : order[j] = k
      BY <1>1, <1>5
    <3>2. i < j
      BY <1>1, <2>1, <2>7, <3>1
    <3>3. j \in (i + 1)..N
      BY <1>1, <3>2, SMTT(20)
    <3>4. order[j] \in X
      BY <2>3, <3>1, <3>3
    <3>5. /\ Cardinality(OfLang(X, cands[n].lang)) >= LangCap
          /\ L(j) # cands[n].lang
      BY <2>5, <3>3, <3>4
    <3>6. Cardinality(OfLang(Y, cands[n].lang)) >= LangCap
      <4> DEFINE a == Cardinality(OfLang(X, cands[n].lang))
                 b == Cardinality(OfLang(Y, cands[n].lang))
      <4>1. a \in Nat /\ b \in Nat /\ a <= b /\ a >= LangCap
        BY <1>8, <3>5
      <4> HIDE DEF a, b
      <4>2. b >= LangCap
        BY <1>7, <4>1
      <4> QED BY <4>2 DEF b
    <3> QED BY <3>1, <3>5, <3>6
  <2> QED BY <2>4, <2>6, <2>7
<1>10. BestChoice(Y)
  BY <1>4, <1>5, <1>9 DEF BestChoice
<1> QED BY <1>4, <1>10 DEF Y, kept

\* One further in the turn.
LEMMA NextTurn ==
    ASSUME NEW x \in Nat, NEW L \in Nat \ {0}
    PROVE  /\ x % L \in 0..(L - 1)
           /\ (x + 1) % L = IF (x % L) + 1 < L THEN (x % L) + 1 ELSE 0
<1> DEFINE a == x \div L
           r == x % L
           b == (x + 1) \div L
           s == (x + 1) % L
<1>1. a \in Int /\ r \in 0..(L - 1) /\ x = L * a + r
  OBVIOUS
<1>2. b \in Int /\ s \in 0..(L - 1) /\ x + 1 = L * b + s
  OBVIOUS
<1> HIDE DEF a, r, b, s
<1>3. L * b + s = L * a + r + 1
  BY <1>1, <1>2
<1>4. b = a \/ b = a + 1
  <2>1. ~(b <= a - 1)
    <3> SUFFICES ASSUME b <= a - 1 PROVE FALSE
      OBVIOUS
    <3>1. PICK d \in Nat : a = b + 1 + d
      <4>1. a - b - 1 \in Nat /\ a = b + 1 + (a - b - 1)
        BY <1>1, <1>2
      <4> QED BY <4>1
    <3>2. L * a = L * b + L + L * d /\ L * d \in Nat /\ L * b \in Int
      BY <1>2, <3>1
    <3> QED BY <1>1, <1>2, <1>3, <3>2
  <2>2. ~(b >= a + 2)
    <3> SUFFICES ASSUME b >= a + 2 PROVE FALSE
      OBVIOUS
    <3>1. PICK d \in Nat : b = a + 2 + d
      <4>1. b - a - 2 \in Nat /\ b = a + 2 + (b - a - 2)
        BY <1>1, <1>2
      <4> QED BY <4>1
    <3>2. L * b = L * a + 2 * L + L * d /\ L * d \in Nat /\ L * a \in Int
      BY <1>1, <3>1
    <3> QED BY <1>1, <1>2, <1>3, <3>2
  <2> QED BY <1>1, <1>2, <2>1, <2>2
<1>5. CASE b = a
  <2>1. L * a \in Int /\ s = r + 1
    BY <1>1, <1>2, <1>3, <1>5
  <2> QED BY <1>1, <1>2, <2>1 DEF r, s
<1>6. CASE b = a + 1
  <2>1. L * b = L * a + L /\ L * a \in Int
    BY <1>1, <1>6
  <2>2. s + L = r + 1
    BY <1>1, <1>2, <1>3, <2>1
  <2>3. s = 0 /\ r + 1 = L
    BY <1>1, <1>2, <2>2
  <2> QED BY <1>1, <2>3 DEF r, s
<1> QED BY <1>4, <1>5, <1>6

\* The pools before the next one have been asked once more than the others.
TurnAt(a, r) == \E t \in Nat : a = [p \in DOMAIN Pools |-> IF p - 1 < r THEN t + 1 ELSE t]
TurnsTaken == asked = <<>> \/ TurnAt(asked, rr)

LEMMA TurnsGoOn ==
    ASSUME SelfGenAssumption, rr \in 0..(Len(Pools) - 1), cands \in Seq(Sampled),
           \A n \in 1..Len(cands) : cands[n].pool = PoolOf(n - 1), TurnAt(asked, rr)
    PROVE  TurnAt([p \in DOMAIN Pools |->
                      asked[p] + Cardinality({n \in DOMAIN cands : cands[n].pool = p})],
                  (rr + Len(cands)) % Len(Pools))
<1> DEFINE L == Len(Pools)
           M == Len(cands)
           Of(k, p) == {n \in 1..k : cands[n].pool = p}
           turn(k) == (rr + k) % L
           good == {k \in 0..M : \E t \in Nat : \A p \in 1..L :
                       asked[p] + Cardinality(Of(k, p)) = IF p - 1 < turn(k) THEN t + 1 ELSE t}
<1>1. L \in Nat \ {0} /\ M \in Nat /\ DOMAIN Pools = 1..L /\ DOMAIN cands = 1..M
  BY DEF SelfGenAssumption
<1>2. PICK t0 \in Nat : asked = [p \in 1..L |-> IF p - 1 < rr THEN t0 + 1 ELSE t0]
  BY <1>1 DEF TurnAt
<1>3. \A p \in 1..L : asked[p] = IF p - 1 < rr THEN t0 + 1 ELSE t0
  BY <1>2
<1>4. rr \in Nat /\ rr < L
  BY <1>1
<1>5. turn(0) = rr
  <2> HIDE DEF L
  <2> QED BY <1>1, <1>4
<1> HIDE DEF L, M
<1>6. \A k \in 0..M : turn(k) \in 0..(L - 1)
  <2> TAKE k \in 0..M
  <2>1. rr + k \in Nat
    BY <1>1, <1>4
  <2> QED BY <1>1, <2>1, NextTurn
<1>7. \A k \in 1..M : turn(k) = IF turn(k - 1) + 1 < L THEN turn(k - 1) + 1 ELSE 0
  <2> TAKE k \in 1..M
  <2>1. rr + (k - 1) \in Nat /\ rr + (k - 1) + 1 = rr + k
    BY <1>1, <1>4
  <2> QED BY <1>1, <2>1, NextTurn
<1>8. \A k \in 1..M : cands[k].pool = turn(k - 1) + 1
  BY <1>1 DEF PoolOf, L, M
<1> HIDE DEF turn
<1>9. \A k \in 0..M, p \in 1..L : IsFiniteSet(Of(k, p)) /\ Cardinality(Of(k, p)) \in Nat
  <2> TAKE k \in 0..M, p \in 1..L
  <2>1. IsFiniteSet(1..k)
    BY <1>1, FS_Interval
  <2> QED BY <2>1, FS_Subset, FS_CardinalityType
<1>10. 0 \in good
  <2>1. \A p \in 1..L : Of(0, p) = {}
    BY <1>1
  <2>2. \A p \in 1..L : asked[p] + Cardinality(Of(0, p)) = IF p - 1 < turn(0) THEN t0 + 1 ELSE t0
    <3> TAKE p \in 1..L
    <3>1. Cardinality(Of(0, p)) = 0
      BY <2>1, FS_EmptySet
    <3> HIDE DEF Of
    <3> QED BY <1>3, <1>5, <3>1, SMTT(20)
  <2>3. 0 \in 0..M
    BY <1>1
  <2> HIDE DEF Of
  <2> QED BY <2>2, <2>3
<1>11. ASSUME NEW k \in 1..M, k - 1 \in good PROVE k \in good
  <2>1. PICK t \in Nat : \A p \in 1..L :
           asked[p] + Cardinality(Of(k - 1, p)) = IF p - 1 < turn(k - 1) THEN t + 1 ELSE t
    BY <1>11
  <2> DEFINE r == turn(k - 1)
             s == turn(k)
  <2>2. k \in Nat /\ k - 1 \in 0..M /\ k \in 0..M
    BY <1>1
  <2>3. r \in 0..(L - 1) /\ s = (IF r + 1 < L THEN r + 1 ELSE 0) /\ cands[k].pool = r + 1
    BY <1>6, <1>7, <1>8, <2>2
  <2>4. \A p \in 1..L : Cardinality(Of(k, p)) =
           IF p = r + 1 THEN Cardinality(Of(k - 1, p)) + 1 ELSE Cardinality(Of(k - 1, p))
    <3> TAKE p \in 1..L
    <3>1. Of(k, p) = IF p = r + 1 THEN Of(k - 1, p) \cup {k} ELSE Of(k - 1, p)
      <4>1. \A n : n \in 1..k <=> n \in 1..(k - 1) \/ n = k
        BY <2>2, SMTT(20)
      <4> HIDE DEF r
      <4> QED BY <2>3, <4>1
    <3>2. k \notin Of(k - 1, p) /\ IsFiniteSet(Of(k - 1, p))
      <4>1. IsFiniteSet(Of(k - 1, p))
        BY ONLY <1>9, <2>2, p \in 1..L
      <4>2. k \notin 1..(k - 1)
        BY ONLY <2>2
      <4> QED BY <4>1, <4>2, Zenon
    <3> HIDE DEF Of
    <3> QED BY <3>1, <3>2, FS_AddElement
  <2>5. \A p \in 1..L : /\ Cardinality(Of(k - 1, p)) \in Nat
                        /\ asked[p] \in Nat
    <3>1. \A p \in 1..L : asked[p] \in Nat
      BY <1>3, SMTT(20)
    <3> HIDE DEF Of
    <3> QED BY <1>9, <2>2, <3>1
  <2> DEFINE u == IF r + 1 < L THEN t ELSE t + 1
  <2>6. ASSUME NEW p \in 1..L
        PROVE  asked[p] + Cardinality(Of(k, p)) = IF p - 1 < s THEN u + 1 ELSE u
    <3> DEFINE x == asked[p]
               y == Cardinality(Of(k - 1, p))
               z == Cardinality(Of(k, p))
    <3>1. x \in Nat /\ y \in Nat /\ z = (IF p = r + 1 THEN y + 1 ELSE y)
          /\ x + y = IF p - 1 < r THEN t + 1 ELSE t
      <4> HIDE DEF Of, r, s, u
      <4> QED BY ONLY <2>1, <2>4, <2>5, p \in 1..L DEF r
    <3> HIDE DEF x, y, z, r, s
    <3>5. p \in Int /\ r \in Nat /\ r < L /\ p <= L /\ 1 <= p /\ L \in Nat
      BY <1>1, <2>3
    <3>2. x + z = IF p = r + 1 THEN t + 1 ELSE IF p - 1 < r THEN t + 1 ELSE t
      <4>1. CASE p = r + 1
        <5>1. p - 1 = r /\ ~(p - 1 < r)
          BY <3>5, <4>1
        <5> QED BY <3>1, <4>1, <5>1
      <4>2. CASE p # r + 1
        BY <3>1, <4>2
      <4> QED BY <4>1, <4>2
    <3>3. CASE r + 1 < L
      BY <1>1, <2>3, <3>2, <3>3, SMTT(20) DEF x, z
    <3>4. CASE ~(r + 1 < L)
      <4>1. s = 0 /\ r = L - 1 /\ u = t + 1
        <5>1. s = 0 /\ u = t + 1
          BY <2>3, <3>4, Zenon
        <5> HIDE DEF u
        <5>2. r = L - 1
          BY ONLY <3>4, <3>5
        <5> QED BY ONLY <5>1, <5>2
      <4>2. x + z = t + 1
        <5>1. p = r + 1 \/ p - 1 < r
          BY ONLY <3>5, <4>1
        <5> QED BY ONLY <3>2, <5>1, Zenon
      <4>3. 0 <= p - 1 /\ ~(p - 1 < s)
        BY ONLY <3>5, <4>1
      <4> QED BY <4>1, <4>2, <4>3 DEF x, z
    <3> QED BY <3>3, <3>4
  <2>7. u \in Nat
    OBVIOUS
  <2> HIDE DEF u, Of
  <2> QED BY <2>2, <2>6, <2>7
<1> HIDE DEF good
<1>12. \A k \in 0..M : k \in good
  <2>1. \A k \in 1..M : k - 1 \in good => k \in good
    BY <1>11
  <2> QED BY <1>1, <1>10, <2>1, UpTo
<1>13. M \in good
  BY <1>1, <1>12
<1>14. PICK t \in Nat : \A p \in 1..L :
          asked[p] + Cardinality(Of(M, p)) = IF p - 1 < turn(M) THEN t + 1 ELSE t
  BY <1>13 DEF good
<1>15. [p \in 1..L |-> asked[p] + Cardinality(Of(M, p))] =
          [p \in 1..L |-> IF p - 1 < turn(M) THEN t + 1 ELSE t]
  <2> HIDE DEF Of
  <2> QED BY <1>14
<1>16. TurnAt([p \in 1..L |-> asked[p] + Cardinality(Of(M, p))], turn(M))
  <2> HIDE DEF Of
  <2> QED BY <1>1, <1>15 DEF TurnAt
<1> QED BY <1>1, <1>16 DEF turn, L, M

-----------------------------------------------------------------------------
(* The trainer's invariant and its steps.                                  *)

GenTypes ==
    /\ seedText \in Seq(SeedTokens) /\ seedEnd \in 0..Len(seedText)
    /\ phase \in {"idle", "generate", "train"} /\ rr \in 0..(Len(Pools) - 1)
    /\ cands \in Seq(Sampled) /\ buffer \in Seq(Texts) /\ accepted \in Seq(Texts)

\* While a round runs none of its candidates is kept, each has the pool whose turn it was,
\* and those that passed the judge are new to the memory.
Fresh ==
    phase = "generate" =>
        \A n \in 1..Len(cands) :
            /\ cands[n].verdict # "kept" /\ cands[n].pool = PoolOf(n - 1)
            /\ cands[n].verdict = "" => cands[n].text \notin hashes

\* What the memory has a round for it knows, and no text was accepted in two rounds.
Remembers == (\A x \in since : x[1] \in hashes) /\ NovelAcrossRounds

GenInv == GenTypes /\ Fresh /\ Remembers /\ BestAreKept /\ BufferIsNewest /\ TurnsTaken

\* The choice stays what it is as long as the candidates do.
LEMMA BestStays ==
    ASSUME BestAreKept, cands' = cands, phase' # "generate" => phase # "generate"
    PROVE  BestAreKept'
<1>1. KeptOnes' = KeptOnes /\ LeftOut' = LeftOut
  BY DEF KeptOnes, LeftOut
<1>2. \A found, lang : OfLang(found, lang)' = OfLang(found, lang)
  BY DEF OfLang
<1>3. LangCap' = LangCap
  BY DEF LangCap
<1> QED BY <1>1, <1>2, <1>3 DEF BestAreKept

LEMMA GenStarts ==
    ASSUME SelfGenAssumption, SelfGenInit
    PROVE  GenInv
<1>1. Len(Pools) \in Nat \ {0}
  BY DEF SelfGenAssumption
<1>2. GenTypes
  BY <1>1 DEF GenTypes, SelfGenInit
<1>3. Fresh /\ Remembers
  BY DEF Fresh, Remembers, NovelAcrossRounds, SelfGenInit
<1>4. BestAreKept
  <2>1. KeptOnes = {} /\ LeftOut = {}
    BY DEF KeptOnes, LeftOut, SelfGenInit
  <2>2. Cardinality({}) <= KeepBest
    BY FS_EmptySet DEF SelfGenAssumption
  <2> QED BY <2>1, <2>2 DEF BestAreKept
<1>5. BufferIsNewest
  <2>1. <<>> \in Seq(Texts) /\ BufferCap \in Nat /\ Len(<<>>) = 0
    BY DEF SelfGenAssumption
  <2>2. LastOf(<<>>, BufferCap) \in Seq(Texts) /\ Len(LastOf(<<>>, BufferCap)) = 0
    <3>1. Newest(<<>>, BufferCap) = 0
      BY <2>1 DEF Newest
    <3> QED BY <2>1, <3>1, LastOfIs
  <2>3. LastOf(<<>>, BufferCap) = <<>>
    <3> DEFINE l == LastOf(<<>>, BufferCap)
    <3> HIDE DEF l
    <3>1. l \in Seq(Texts) /\ Len(l) = 0
      BY <2>2 DEF l
    <3>2. l = <<>>
      BY <3>1
    <3> QED BY <3>2 DEF l
  <2> QED BY <2>3 DEF BufferIsNewest, SelfGenInit
<1>6. TurnsTaken
  <2>1. asked = [p \in DOMAIN Pools |-> IF p - 1 < 0 THEN 0 + 1 ELSE 0]
    <3>1. DOMAIN Pools = 1..Len(Pools)
      BY DEF SelfGenAssumption
    <3>2. \A p \in DOMAIN Pools : ~(p - 1 < 0)
      BY <1>1, <3>1
    <3> QED BY <3>2 DEF SelfGenInit
  <2>2. rr = 0 /\ 0 \in Nat
    BY DEF SelfGenInit
  <2>3. TurnAt(asked, 0)
    BY <2>1, <2>2 DEF TurnAt
  <2> QED BY <2>2, <2>3 DEF TurnsTaken
<1> QED BY <1>2, <1>3, <1>4, <1>5, <1>6 DEF GenInv

LEMMA SeedKeeps ==
    ASSUME SelfGenAssumption, GenInv, TypeSeed
    PROVE  GenInv'
<1>1. PICK t \in SeedTokens : seedText' = Append(seedText, t)
  BY DEF TypeSeed
<1>2. seedText' \in Seq(SeedTokens) /\ seedEnd' \in 0..Len(seedText')
  BY <1>1 DEF TypeSeed, GenInv, GenTypes
<1>3. UNCHANGED <<phase, sampleRound, rr, cands, halted, hashes, buffer, batch, accepted, since,
                  asked>>
  BY DEF TypeSeed
<1>4. GenTypes'
  BY <1>2, <1>3 DEF GenInv, GenTypes
<1>5. Fresh' /\ Remembers' /\ TurnsTaken'
  BY <1>3 DEF GenInv, Fresh, Remembers, NovelAcrossRounds, TurnsTaken, TurnAt, PoolOf
<1>6. BestAreKept' /\ BufferIsNewest'
  BY <1>3, BestStays DEF GenInv, BufferIsNewest
<1> QED BY <1>4, <1>5, <1>6 DEF GenInv

LEMMA RoundStarts ==
    ASSUME SelfGenAssumption, GenInv, StartSamples
    PROVE  GenInv'
<1>1. /\ phase' = "generate" /\ cands' = <<>>
      /\ UNCHANGED <<seedText, seedEnd, rr, hashes, buffer, batch, accepted, since, asked>>
  BY DEF StartSamples, seedVars
<1>2. GenTypes'
  BY <1>1 DEF GenInv, GenTypes
<1>3. Fresh'
  <2>1. \A n \in 1..Len(cands') : FALSE
    BY <1>1
  <2> QED BY <2>1 DEF Fresh
<1>4. Remembers' /\ TurnsTaken' /\ BestAreKept'
  BY <1>1 DEF GenInv, Remembers, NovelAcrossRounds, TurnsTaken, TurnAt, BestAreKept
<1>5. BufferIsNewest'
  BY <1>1 DEF GenInv, BufferIsNewest
<1> QED BY <1>2, <1>3, <1>4, <1>5 DEF GenInv

LEMMA HaltKeeps ==
    ASSUME GenInv, Halt
    PROVE  GenInv'
<1>1. UNCHANGED <<seedText, seedEnd, phase, sampleRound, rr, cands, hashes, buffer, batch, accepted,
                  since, asked>>
  BY DEF Halt, seedVars
<1>2. GenTypes' /\ Fresh' /\ Remembers' /\ TurnsTaken'
  BY <1>1 DEF GenInv, GenTypes, Fresh, Remembers, NovelAcrossRounds, TurnsTaken, TurnAt, PoolOf
<1>3. BestAreKept' /\ BufferIsNewest'
  BY <1>1, BestStays DEF GenInv, BufferIsNewest
<1> QED BY <1>2, <1>3 DEF GenInv

LEMMA GenerateKeeps ==
    ASSUME SelfGenAssumption, GenInv, Generate
    PROVE  GenInv'
<1> DEFINE pool == PoolOf(Len(cands))
<1>1. PICK n \in Answers, passes \in BOOLEAN, score \in Scores :
         cands' = Append(cands, [lang |-> Pools[pool], pool |-> pool, text |-> <<Pools[pool], n>>,
                                 score |-> score, verdict |-> Verdict(passes, <<Pools[pool], n>>)])
  BY DEF Generate
<1>2. /\ phase = "generate" /\ phase' = "generate"
      /\ UNCHANGED <<seedText, seedEnd, rr, hashes, buffer, batch, accepted, since, asked>>
  BY DEF Generate, seedVars
<1>3. cands \in Seq(Sampled) /\ Len(cands) \in Nat /\ rr \in 0..(Len(Pools) - 1)
      /\ Len(Pools) \in Nat \ {0} /\ DOMAIN Pools = 1..Len(Pools)
  BY SMTT(20) DEF GenInv, GenTypes, SelfGenAssumption
<1>4. pool \in 1..Len(Pools)
  <2>1. rr + Len(cands) \in Nat
    BY <1>3
  <2>2. (rr + Len(cands)) % Len(Pools) \in 0..(Len(Pools) - 1)
    BY <1>3, <2>1, NextTurn
  <2> DEFINE r == (rr + Len(cands)) % Len(Pools)
  <2>3. pool = r + 1 /\ r \in 0..(Len(Pools) - 1)
    BY <2>2 DEF PoolOf
  <2> HIDE DEF r, pool
  <2> QED BY <1>3, <2>3
<1> DEFINE text == <<Pools[pool], n>>
           c == [lang |-> Pools[pool], pool |-> pool, text |-> text, score |-> score,
                 verdict |-> Verdict(passes, text)]
<1>5. Pools[pool] \in Languages
  BY <1>3, <1>4 DEF Languages, ToSet
<1>6. /\ Verdict(passes, text) \in {"filtered", "duplicate", ""}
      /\ Verdict(passes, text) = "" => text \notin hashes
  BY DEF Verdict
<1> HIDE DEF pool
<1>7. text \in Texts
  BY <1>5 DEF Texts
<1>8. /\ c \in Sampled /\ c.verdict # "kept" /\ c.pool = pool
      /\ c.verdict = "" => c.text \notin hashes
  <2> HIDE DEF text
  <2> QED BY <1>3, <1>4, <1>5, <1>6, <1>7 DEF Sampled
<1>9. cands' = Append(cands, c)
  BY <1>1 DEF pool
<1> HIDE DEF c
<1>10. /\ cands' \in Seq(Sampled) /\ Len(cands') = Len(cands) + 1
       /\ cands'[Len(cands) + 1] = c /\ \A i \in 1..Len(cands) : cands'[i] = cands[i]
  <2>1. /\ Append(cands, c) \in Seq(Sampled) /\ Len(Append(cands, c)) = Len(cands) + 1
        /\ Append(cands, c)[Len(cands) + 1] = c
        /\ \A i \in 1..Len(cands) : Append(cands, c)[i] = cands[i]
    <3>1. cands \in Seq(Sampled) /\ c \in Sampled
      BY <1>3, <1>8
    <3> HIDE DEF c
    <3> QED BY ONLY <3>1, AppendProperties
  <2> QED BY <1>9, <2>1
<1>11. GenTypes'
  BY <1>2, <1>10 DEF GenInv, GenTypes
<1>12. Fresh'
  <2> SUFFICES ASSUME NEW i \in 1..Len(cands')
               PROVE  /\ cands'[i].verdict # "kept" /\ cands'[i].pool = PoolOf(i - 1)
                      /\ cands'[i].verdict = "" => cands'[i].text \notin hashes
    BY <1>2 DEF Fresh, PoolOf
  <2>1. CASE i \in 1..Len(cands)
    BY <1>2, <1>10, <2>1 DEF GenInv, Fresh
  <2>2. CASE i = Len(cands) + 1
    <3>1. i - 1 = Len(cands)
      BY <1>3, <2>2
    <3> QED BY <1>8, <1>10, <2>2, <3>1 DEF pool
  <2>3. i \in 1..Len(cands) \/ i = Len(cands) + 1
    BY <1>3, <1>10, SMTT(20)
  <2> QED BY <2>1, <2>2, <2>3
<1>13. Remembers' /\ TurnsTaken' /\ BestAreKept'
  BY <1>2 DEF GenInv, Remembers, NovelAcrossRounds, TurnsTaken, TurnAt, BestAreKept
<1>14. BufferIsNewest'
  BY <1>2 DEF GenInv, BufferIsNewest
<1> QED BY <1>11, <1>12, <1>13, <1>14 DEF GenInv

LEMMA TrainKeeps ==
    ASSUME SelfGenAssumption, GenInv, Train
    PROVE  GenInv'
<1>1. /\ phase = "train" /\ phase' = "idle" /\ batch' = LastOf(buffer, TakeMax)
      /\ UNCHANGED <<seedText, seedEnd, rr, cands, hashes, buffer, accepted, since, asked>>
  BY DEF Train, seedVars
<1>2. GenTypes' /\ Fresh' /\ Remembers' /\ TurnsTaken'
  BY <1>1 DEF GenInv, GenTypes, Fresh, Remembers, NovelAcrossRounds, TurnsTaken, TurnAt
<1>3. BestAreKept'
  <2>1. cands' = cands /\ (phase' # "generate" => phase # "generate")
    BY <1>1
  <2> QED BY <2>1, BestStays DEF GenInv
<1>4. BufferIsNewest'
  <2>1. BufferCap \in Nat /\ TakeMax \in Nat /\ accepted \in Seq(Texts)
    BY DEF GenInv, GenTypes, SelfGenAssumption
  <2>2. buffer = LastOf(accepted, BufferCap)
    BY DEF GenInv, BufferIsNewest
  <2>3. LastOf(LastOf(accepted, BufferCap), TakeMax) = LastOf(accepted, Min({TakeMax, BufferCap}))
    BY <2>1, LastOfFewer
  <2> QED BY <1>1, <2>2, <2>3 DEF BufferIsNewest
<1> QED BY <1>2, <1>3, <1>4 DEF GenInv

LEMMA KeepKeeps ==
    ASSUME SelfGenAssumption, GenInv, Keep
    PROVE  GenInv'
<1>1. /\ phase = "generate" /\ (halted \/ Len(cands) = SamplesPerRound)
      /\ rr' = (rr + SamplesPerRound) % Len(Pools)
      /\ phase' = IF buffer' = <<>> THEN "idle" ELSE "train"
      /\ asked' = IF halted \/ asked = <<>> THEN <<>>
                  ELSE [p \in DOMAIN Pools |->
                           asked[p] + Cardinality({n \in DOMAIN cands : cands[n].pool = p})]
      /\ UNCHANGED <<seedText, seedEnd, batch>>
  BY DEF Keep, seedVars
<1>2. PICK order \in Orders :
         LET texts == [k \in DOMAIN Kept(order) |-> cands[Kept(order)[k]].text]
         IN  /\ hashes' = MemoryOf(texts).hashes /\ since' = MemoryOf(texts).since
             /\ buffer' = LastOf(buffer \o texts, BufferCap)
             /\ accepted' = accepted \o texts
             /\ cands' = [n \in DOMAIN cands |->
                             IF n \in ToSet(Kept(order)) THEN [cands[n] EXCEPT !.verdict = "kept"]
                             ELSE cands[n]]
  BY DEF Keep
<1> DEFINE kept == Kept(order)
           texts == [k \in DOMAIN kept |-> cands[kept[k]].text]
<1>3. GenTypes /\ cands \in Seq(Sampled) /\ rr \in 0..(Len(Pools) - 1)
  BY DEF GenInv, GenTypes
<1>4. kept \in Seq(Good) /\ BestChoice(ToSet(kept))
  BY <1>3, KeptAreBest
<1>5. PICK chosen : chosen = ToSet(kept)
  OBVIOUS
<1>6. /\ hashes' = MemoryOf(texts).hashes /\ since' = MemoryOf(texts).since
      /\ buffer' = LastOf(buffer \o texts, BufferCap)
      /\ accepted' = accepted \o texts
      /\ cands' = [n \in DOMAIN cands |->
                      IF n \in chosen THEN [cands[n] EXCEPT !.verdict = "kept"] ELSE cands[n]]
  BY <1>2, <1>5
<1> HIDE DEF kept
<1>7. Len(cands) \in Nat /\ DOMAIN cands = 1..Len(cands)
      /\ \A n \in 1..Len(cands) : cands[n] \in Sampled
  BY <1>3
<1>8. Len(kept) \in Nat /\ DOMAIN kept = 1..Len(kept)
      /\ \A k \in 1..Len(kept) : kept[k] \in Good
  BY <1>4
<1>9. texts \in Seq(Texts) /\ \A k \in 1..Len(texts) : texts[k] \notin hashes
  <2>1. \A n \in Good : cands[n].text \in Texts /\ cands[n].text \notin hashes
    BY <1>1, <1>7 DEF Good, Sampled, GenInv, Fresh
  <2>2. \A k \in 1..Len(kept) : cands[kept[k]].text \in Texts /\ cands[kept[k]].text \notin hashes
    BY <1>8, <2>1
  <2>3. texts \in Seq(Texts) /\ Len(texts) = Len(kept)
    BY <1>8, <2>2
  <2>4. \A k \in 1..Len(kept) : texts[k] = cands[kept[k]].text
    BY <1>8
  <2> QED BY <2>2, <2>3, <2>4
<1> HIDE DEF texts
<1>10. phase' \in {"idle", "train"} /\ (phase' = "idle" => buffer' = <<>>)
  BY <1>1
<1>11. rr' \in 0..(Len(Pools) - 1)
  <2>1. rr + SamplesPerRound \in Nat /\ Len(Pools) \in Nat \ {0}
    BY <1>3 DEF SelfGenAssumption
  <2> QED BY <1>1, <2>1, NextTurn
<1>12. /\ DOMAIN cands' = 1..Len(cands)
       /\ \A n \in 1..Len(cands) :
             /\ cands'[n] \in Sampled
             /\ cands'[n].lang = cands[n].lang /\ cands'[n].score = cands[n].score
             /\ cands'[n].verdict = IF n \in chosen THEN "kept" ELSE cands[n].verdict
  <2>1. DOMAIN cands' = 1..Len(cands)
    BY <1>6, <1>7
  <2>2. ASSUME NEW n \in 1..Len(cands)
        PROVE  /\ cands'[n] \in Sampled
               /\ cands'[n].lang = cands[n].lang /\ cands'[n].score = cands[n].score
               /\ cands'[n].verdict = IF n \in chosen THEN "kept" ELSE cands[n].verdict
    <3> DEFINE c == cands[n]
    <3>1. c \in Sampled /\ cands'[n] = IF n \in chosen THEN [c EXCEPT !.verdict = "kept"] ELSE c
      BY <1>6, <1>7
    <3> HIDE DEF c
    <3>2. /\ [c EXCEPT !.verdict = "kept"] \in Sampled
          /\ [c EXCEPT !.verdict = "kept"].lang = c.lang
          /\ [c EXCEPT !.verdict = "kept"].score = c.score
          /\ [c EXCEPT !.verdict = "kept"].verdict = "kept"
      BY <3>1 DEF Sampled
    <3>3. /\ cands'[n] \in Sampled
          /\ cands'[n].lang = c.lang /\ cands'[n].score = c.score
          /\ cands'[n].verdict = IF n \in chosen THEN "kept" ELSE c.verdict
      BY <3>1, <3>2
    <3> QED BY <3>3 DEF c
  <2> QED BY <2>1, <2>2
<1>13. cands' \in Seq(Sampled)
  <2>1. cands' = [n \in 1..Len(cands) |-> cands'[n]]
    BY <1>6, <1>7
  <2>2. [n \in 1..Len(cands) |-> cands'[n]] \in Seq(Sampled)
    BY <1>7, <1>12
  <2> QED BY <2>1, <2>2
<1>14. /\ buffer' \in Seq(Texts) /\ accepted' \in Seq(Texts)
       /\ buffer' = LastOf(accepted', BufferCap)
  <2>1. BufferCap \in Nat /\ buffer \in Seq(Texts) /\ accepted \in Seq(Texts)
        /\ buffer = LastOf(accepted, BufferCap)
    BY DEF GenInv, GenTypes, BufferIsNewest, SelfGenAssumption
  <2>2. buffer \o texts \in Seq(Texts) /\ accepted \o texts \in Seq(Texts)
    BY <1>9, <2>1
  <2>3. LastOf(buffer \o texts, BufferCap) \in Seq(Texts)
    BY <2>1, <2>2, LastOfIs
  <2>4. LastOf(LastOf(accepted, BufferCap) \o texts, BufferCap) =
           LastOf(accepted \o texts, BufferCap)
    BY <1>9, <2>1, LastOfMore
  <2> QED BY <1>6, <2>1, <2>2, <2>3, <2>4
<1>15. GenTypes'
  BY <1>1, <1>3, <1>10, <1>11, <1>13, <1>14 DEF GenTypes
<1>16. Fresh'
  BY <1>10 DEF Fresh
<1>17. Remembers'
  <2>1. MemoryOK(MemoryOf(texts))
    BY <1>9, MemoryAfter DEF GenInv, Remembers
  <2> QED BY <1>6, <2>1 DEF MemoryOK, Remembers, NovelAcrossRounds
<1>18. BestAreKept'
  <2>1. BestChoice(chosen)
    BY <1>4, <1>5
  <2>2. \A n \in 1..Len(cands) : cands[n].verdict # "kept"
    BY <1>1 DEF GenInv, Fresh
  <2>3. chosen \in SUBSET Good /\ Good \in SUBSET (1..Len(cands))
        /\ \A n \in 1..Len(cands) : n \in Good <=> cands[n].verdict = ""
    BY <1>7, <2>1 DEF BestChoice, Good
  <2>4. KeptOnes' = chosen
    BY <1>12, <2>2, <2>3 DEF KeptOnes
  <2>5. LeftOut' = Good \ chosen
    BY <1>12, <2>3 DEF LeftOut
  <2>6. \A lang : {n \in chosen : cands'[n].lang = lang} = OfLang(chosen, lang)
    BY <1>12, <2>3 DEF OfLang
  <2>7. ASSUME NEW n \in Good \ chosen
        PROVE  /\ cands'[n].lang = cands[n].lang
               /\ \A k \in chosen : cands'[k].lang = cands[k].lang /\
                     (cands'[n].score > cands'[k].score <=> cands[n].score > cands[k].score)
    BY <1>12, <2>3
  <2>8. LangCap' = LangCap
    BY DEF LangCap
  <2>9. \A lang : OfLang(KeptOnes, lang)' = OfLang(chosen, lang)
    BY <2>4, <2>6 DEF OfLang
  <2>10. ASSUME NEW n \in LeftOut'
         PROVE  /\ (KeepBest > 1 /\ Len(Pools) > 1) =>
                      \A lang \in Languages \ {cands'[n].lang} : OfLang(KeptOnes, lang)' # KeptOnes'
                /\ \A k \in KeptOnes' : cands'[n].score > cands'[k].score =>
                      /\ cands'[k].lang # cands'[n].lang
                      /\ Cardinality(OfLang(chosen, cands'[n].lang)) >= LangCap
    BY <2>1, <2>4, <2>5, <2>7, <2>9 DEF BestChoice
  <2>11. Cardinality(KeptOnes') <= KeepBest /\ (LeftOut' # {} => Cardinality(KeptOnes') = KeepBest)
    BY <2>1, <2>4, <2>5 DEF BestChoice
  <2>12. \A n \in LeftOut' : OfLang(KeptOnes, cands[n].lang)' = OfLang(chosen, cands'[n].lang)
    BY <2>4, <2>6 DEF OfLang
  <2> QED BY <2>8, <2>10, <2>11, <2>12 DEF BestAreKept
<1>19. BufferIsNewest'
  BY <1>10, <1>14 DEF BufferIsNewest
<1>20. TurnsTaken'
  <2>1. CASE halted \/ asked = <<>>
    BY <1>1, <2>1 DEF TurnsTaken
  <2>2. CASE ~(halted \/ asked = <<>>)
    <3>1. TurnAt(asked, rr) /\ Len(cands) = SamplesPerRound
      BY <1>1, <2>2 DEF GenInv, TurnsTaken
    <3>2. \A n \in 1..Len(cands) : cands[n].pool = PoolOf(n - 1)
      BY <1>1 DEF GenInv, Fresh
    <3>3. TurnAt([p \in DOMAIN Pools |->
                     asked[p] + Cardinality({n \in DOMAIN cands : cands[n].pool = p})],
                 (rr + Len(cands)) % Len(Pools))
      BY <1>3, <3>1, <3>2, TurnsGoOn
    <3>4. TurnAt(asked', rr')
      BY <1>1, <2>2, <3>1, <3>3
    <3> QED BY <3>4 DEF TurnsTaken, TurnAt
  <2> QED BY <2>1, <2>2
<1> QED BY <1>15, <1>16, <1>17, <1>18, <1>19, <1>20 DEF GenInv

\* No pool has been asked twice more than another.
LEMMA TurnsAreEven ==
    ASSUME SelfGenAssumption, TurnsTaken
    PROVE  PoolsTakeTurns
<1>1. CASE asked = <<>>
  <2>1. DOMAIN asked = {}
    BY <1>1
  <2> QED BY <2>1 DEF PoolsTakeTurns
<1>2. CASE TurnAt(asked, rr)
  <2>1. PICK t \in Nat : asked = [p \in DOMAIN Pools |-> IF p - 1 < rr THEN t + 1 ELSE t]
    BY <1>2 DEF TurnAt
  <2>2. \A p \in DOMAIN asked : asked[p] = t \/ asked[p] = t + 1
    BY <2>1
  <2> QED BY <2>2 DEF PoolsTakeTurns
<1> QED BY <1>1, <1>2 DEF TurnsTaken

\* train_selfgen.cpp: the prompts it cuts out of the corpora are questions with their
\* answers, of the training part, and all of them; the candidates a round keeps are the
\* best, none of a language over its part while others wait; as long as the memory of them
\* lasts no text is accepted in two rounds; the buffer and the batch are the newest accepted
\* samples; and the pools take turns, whatever the size of a round.
THEOREM SamplesStaySound == SelfGenSpec => []SelfGenSound
<1>1. SelfGenInit => GenInv
  BY SelfGenAssumption, GenStarts
<1>2. GenInv /\ [SelfGenNext]_gvars => GenInv'
  <2> SUFFICES ASSUME GenInv, [SelfGenNext]_gvars PROVE GenInv'
    OBVIOUS
  <2> USE SelfGenAssumption
  <2>1. CASE TypeSeed
    BY <2>1, SeedKeeps
  <2>2. CASE StartSamples
    BY <2>2, RoundStarts
  <2>3. CASE Generate
    BY <2>3, GenerateKeeps
  <2>4. CASE Halt
    BY <2>4, HaltKeeps
  <2>5. CASE Keep
    BY <2>5, KeepKeeps
  <2>6. CASE Train
    BY <2>6, TrainKeeps
  <2>7. CASE UNCHANGED gvars
    <3>1. UNCHANGED <<seedText, seedEnd, phase, sampleRound, rr, cands, halted, hashes, buffer,
                      batch, accepted, since, asked>>
      BY <2>7 DEF gvars
    <3>2. GenTypes' /\ Fresh' /\ Remembers' /\ TurnsTaken'
      BY <3>1 DEF GenInv, GenTypes, Fresh, Remembers, NovelAcrossRounds, TurnsTaken, TurnAt, PoolOf
    <3>3. BestAreKept' /\ BufferIsNewest'
      BY <3>1, BestStays DEF GenInv, BufferIsNewest
    <3> QED BY <3>2, <3>3 DEF GenInv
  <2> QED BY <2>1, <2>2, <2>3, <2>4, <2>5, <2>6, <2>7 DEF SelfGenNext
<1>3. GenInv => SelfGenSound
  <2> SUFFICES ASSUME GenInv PROVE SelfGenSound
    OBVIOUS
  <2>1. PromptsAreQuestions
    BY SelfGenAssumption, SpansAreQuestions DEF GenInv, GenTypes
  <2>2. PoolsTakeTurns
    BY SelfGenAssumption, TurnsAreEven DEF GenInv
  <2> QED BY <2>1, <2>2 DEF SelfGenSound, GenInv, Remembers
<1> QED BY <1>1, <1>2, <1>3, PTL DEF SelfGenSpec
=============================================================================
