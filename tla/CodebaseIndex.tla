---------------------------- MODULE CodebaseIndex -----------------------------
(***************************************************************************)
(* The index of a repository (agent/codebase.cpp, class CodebaseIndex): a  *)
(* list of chunks with, beside it and by position, a row of the embedding  *)
(* matrix, the postings of the words, and the places of each file's        *)
(* chunks.  A scan reads every file; a refresh keeps the chunks and the    *)
(* rows of the files whose size and time have not changed.  Both work in   *)
(* batches and may be cancelled between two of them, while the user goes   *)
(* on editing.  A scanned index is written to a cache file that the next   *)
(* start of the program reads.                                             *)
(*                                                                         *)
(* A text is the time it was written at; a file has as many chunks as its  *)
(* kind says, a tiny text none.  Each operation holds the mutex, so nothing is looked up in  *)
(* the middle of one.                                                      *)
(***************************************************************************)
EXTENDS Integers, Sequences, FiniteSets

CONSTANTS
    Files,          \* 1..n, the paths in the order of the walk
    Embedders,      \* each with a dimension of its own, as HashEmbedder's
    DefaultEmbedder,
    Batch,          \* kBatch
    MaxTotalChunks, \* ScanOptions::max_total_chunks
    MaxEdits        \* model bound: changes the user makes

ASSUME CodebaseAssumption ==
    /\ IsFiniteSet(Files) /\ Files = 1..Cardinality(Files)
    /\ DefaultEmbedder \in Embedders
    /\ Batch \in Nat \ {0} /\ MaxTotalChunks \in Nat \ {0} /\ MaxEdits \in Nat

VARIABLES
    disk,           \* the files of the repository
    edits,          \* changes so far: the clock of the files' times
    embedder,       \* emb
    index,          \* chunks, dense, inv, by_path and files
    job,            \* the scan or refresh that runs, or NoJob
    cache,          \* the cache file
    whole,          \* history: no ingest was cancelled since the last scan or load
    walked          \* history: what the last completed job found on the disk

xvars == <<disk, edits, embedder, index, job, cache, whole, walked>>

TextKinds == {"tiny", "short", "long"}
FileKinds == TextKinds \cup {"binary"}
Missing == [time |-> -1, kind |-> "none"]
NoJob == [name |-> "none"]
NoCache == [state |-> "none"]

\* An empty text has no chunk, nor has one of fewer lines than min_chunk_lines with no
\* symbol in it; the file is recorded all the same.
ChunkCount == [tiny |-> 0, short |-> 1, long |-> 2, binary |-> 0]

EmptyIndex == [chunks |-> <<>>, dense |-> <<>>, inv |-> <<>>,
               by_path |-> [p \in Files |-> {}], files |-> <<>>]

\* chunk_source(): the chunks of file p when it reads f.
ChunksOf(p, f) == [n \in 1..ChunkCount[f.kind] |-> [path |-> p, text |-> f.time, n |-> n]]

\* A row of the matrix: what was embedded, by whom.
Row(chunk, e) == [of |-> chunk, by |-> e]

Places(chunks) == [p \in Files |-> {i \in DOMAIN chunks : chunks[i].path = p}]

\* A set of positions as the list of them that the code keeps.
Ascending(N) ==
    [k \in 1..Cardinality(N) |-> CHOOSE n \in N : Cardinality({m \in N : m < n}) = k - 1]

CodebaseInit ==
    /\ disk \in [Files -> {Missing} \cup {[time |-> 0, kind |-> k] : k \in FileKinds}]
    /\ edits = 0
    /\ embedder = DefaultEmbedder
    /\ index = EmptyIndex
    /\ job = NoJob /\ cache = NoCache /\ whole = TRUE /\ walked = <<>>

-----------------------------------------------------------------------------
(* The user, and the tools of the agent, change files at any time.         *)

Edit(p) ==
    /\ edits < MaxEdits
    /\ edits' = edits + 1
    /\ \E f \in {Missing} \cup {[time |-> edits', kind |-> k] : k \in FileKinds} :
          f # disk[p] /\ disk' = [disk EXCEPT ![p] = f]
    /\ UNCHANGED <<embedder, index, job, cache, whole, walked>>

-----------------------------------------------------------------------------
(* scan() and refresh().                                                   *)

\* walk_dir(): size and time of every file there is, before any of them is read.
Walk ==
    LET found == Ascending({p \in Files : disk[p] # Missing})
    IN  [k \in DOMAIN found |-> [path |-> found[k], file |-> disk[found[k]]]]

\* ingest() moves the chunks, the rows and the places out of the index and clears the
\* list of files; the postings stay until they are built again.
StartIngest(name, from) ==
    /\ job' = [name |-> name, old |-> from, entries |-> Walk, base |-> 0,
               src |-> <<>>, full |-> FALSE]
    /\ index' = [from EXCEPT !.chunks = <<>>, !.dense = <<>>, !.files = <<>>,
                             !.by_path = EmptyIndex.by_path]

Scan ==
    /\ job = NoJob
    /\ StartIngest("scan", EmptyIndex)
    /\ UNCHANGED <<disk, edits, embedder, cache, whole, walked>>

\* Cancelled while it walks: reset() has already been called.
ScanCancelled ==
    /\ job = NoJob
    /\ index' = EmptyIndex /\ whole' = TRUE /\ walked' = <<>>
    /\ UNCHANGED <<disk, edits, embedder, job, cache>>

Refresh ==
    /\ job = NoJob
    /\ StartIngest("refresh", index)
    /\ UNCHANGED <<disk, edits, embedder, cache, whole, walked>>

\* Mutant: a file is taken as unchanged if its size is, whatever its time.
MutUnchanged(old, e) ==
    \E k \in DOMAIN old.files :
        old.files[k].path = e.path /\ old.files[k].file.kind = e.file.kind

\* Same size and same time as recorded.
Unchanged(old, e) ==
    \E k \in DOMAIN old.files : old.files[k].path = e.path /\ old.files[k].file = e.file

\* The chunks of an entry and the old positions they are copied from, 0 for none.  A
\* file that is not taken over is read now, and may have changed since the walk.
Contribution(e) ==
    IF job.name = "refresh" /\ Unchanged(job.old, e)
    THEN LET ids == Ascending(job.old.by_path[e.path])
         IN  [chunks |-> [i \in DOMAIN ids |-> job.old.chunks[ids[i]]], src |-> ids]
    ELSE LET cs == ChunksOf(e.path, disk[e.path])
         IN  [chunks |-> cs, src |-> [i \in DOMAIN cs |-> 0]]

Readable(e) ==
    \/ job.name = "refresh" /\ Unchanged(job.old, e)
    \/ disk[e.path].kind \in TextKinds

\* The serial merge of a batch, in the order of the entries: a file that is binary or
\* cannot be read is left out, and at max_total_chunks the rest is.
MergeEntry(m, e) ==
    IF m.full \/ ~Readable(e) THEN m
    ELSE IF Len(m.index.chunks) >= MaxTotalChunks THEN [m EXCEPT !.full = TRUE]
    ELSE [m EXCEPT !.index.chunks = @ \o Contribution(e).chunks,
                   !.index.files = Append(@, e), !.src = @ \o Contribution(e).src]
Merge(es, ix, src) ==
    LET after[k \in 0..Len(es)] ==
            IF k = 0 THEN [index |-> ix, src |-> src, full |-> FALSE]
            ELSE MergeEntry(after[k - 1], es[k])
    IN  after[Len(es)]

IngestBatch ==
    /\ job # NoJob /\ job.base < Len(job.entries) /\ ~job.full
    /\ LET next == job.base + Batch
           hi == IF next < Len(job.entries) THEN next ELSE Len(job.entries)
           m == Merge(SubSeq(job.entries, job.base + 1, hi), index, job.src)
       IN  /\ index' = m.index
           /\ job' = [job EXCEPT !.base = hi, !.src = m.src, !.full = m.full]
    /\ UNCHANGED <<disk, edits, embedder, cache, whole, walked>>

\* Cancelled between two batches: what the batches so far put together stays, without
\* rows and places, and with the postings of the index before.
IngestCancelled ==
    /\ job # NoJob /\ job.base < Len(job.entries) /\ ~job.full
    /\ job' = NoJob /\ whole' = FALSE
    /\ UNCHANGED <<disk, edits, embedder, index, cache, walked>>

\* The rows that can be kept are copied, the others embedded.
Rows(chunks, src, old) ==
    [i \in DOMAIN chunks |->
        IF src[i] > 0 /\ src[i] <= Len(old.dense) THEN old.dense[src[i]]
        ELSE Row(chunks[i], embedder)]

\* build_by_path(), build_lexical(), the rows, finish_stats(); index_codebase() then
\* writes the cache after a scan, and a crash or a full disk leaves a torn one.
IngestDone ==
    /\ job # NoJob /\ (job.base >= Len(job.entries) \/ job.full)
    /\ index' = [index EXCEPT !.by_path = Places(index.chunks), !.inv = index.chunks,
                              !.dense = Rows(index.chunks, job.src, job.old)]
    /\ job' = NoJob
    /\ whole' = (whole \/ job.name = "scan")
    /\ walked' = IF job.full THEN <<>> ELSE job.entries
    /\ IF job.name = "refresh" THEN UNCHANGED cache
       ELSE cache' \in {[state |-> "torn"],
                        [state |-> "good", by |-> embedder, chunks |-> index'.chunks,
                         dense |-> index'.dense, files |-> index'.files]}
    /\ UNCHANGED <<disk, edits, embedder>>

-----------------------------------------------------------------------------
(* set_embedder(), clear(), and the start of the program.                  *)

\* Another dimension: everything is embedded again.
SetEmbedder(e) ==
    /\ job = NoJob /\ e # embedder
    /\ embedder' = e
    /\ index' = [index EXCEPT !.dense = [i \in DOMAIN index.chunks |-> Row(index.chunks[i], e)]]
    /\ UNCHANGED <<disk, edits, job, cache, whole, walked>>

Clear ==
    /\ job = NoJob
    /\ index' = EmptyIndex /\ whole' = TRUE /\ walked' = <<>>
    /\ UNCHANGED <<disk, edits, embedder, job, cache>>

\* The program ends, at any point of a job.
Stop ==
    /\ index' = EmptyIndex /\ job' = NoJob /\ whole' = TRUE /\ walked' = <<>>
    /\ embedder' = DefaultEmbedder
    /\ UNCHANGED <<disk, edits, cache>>

\* load(): a torn cache and one of another embedder are refused before anything is
\* replaced; places and postings are built from the chunks.
Load ==
    /\ job = NoJob
    /\ cache.state = "good" /\ cache.by = embedder
    /\ Len(cache.dense) = Len(cache.chunks)
    /\ index' = [chunks |-> cache.chunks, dense |-> cache.dense, inv |-> cache.chunks,
                 by_path |-> Places(cache.chunks), files |-> cache.files]
    /\ whole' = TRUE /\ walked' = <<>>
    /\ UNCHANGED <<disk, edits, embedder, job, cache>>

CodebaseNext ==
    \/ \E p \in Files : Edit(p)
    \/ Scan \/ ScanCancelled \/ Refresh
    \/ IngestBatch \/ IngestCancelled \/ IngestDone
    \/ \E e \in Embedders : SetEmbedder(e)
    \/ Clear \/ Stop \/ Load

CodebaseSpec == CodebaseInit /\ [][CodebaseNext]_xvars

-----------------------------------------------------------------------------
(* Properties.                                                             *)

\* Between operations, unless an ingest was cancelled, rows, postings and places belong
\* to the chunks they lie beside, whatever was scanned, refreshed, loaded and embedded.
SidesAgree ==
    /\ index.inv = index.chunks
    /\ index.by_path = Places(index.chunks)
    /\ index.dense = [i \in DOMAIN index.chunks |-> Row(index.chunks[i], embedder)]

\* The chunks of a recorded file are all the chunks of one reading of a text, none if the
\* text was tiny, and if the file is still as recorded, of what it reads now: a file that
\* changed while it was scanned is never taken for unchanged.
RecordsAreTrue ==
    /\ \A i \in DOMAIN index.chunks :
          \E k \in DOMAIN index.files : index.files[k].path = index.chunks[i].path
    /\ \A k \in DOMAIN index.files :
          LET r == index.files[k]
              ids == Ascending(Places(index.chunks)[r.path])
              own == [n \in DOMAIN ids |-> index.chunks[ids[n]]]
          IN  /\ \E g \in [time : 0..edits, kind : TextKinds] : own = ChunksOf(r.path, g)
              /\ disk[r.path] = r.file => own = ChunksOf(r.path, r.file)

\* When nothing changed since the last job walked, every text of the repository is in.
NothingMissing ==
    walked # <<>> /\ walked = Walk =>
        \A p \in Files : disk[p].kind \in TextKinds =>
            \E k \in DOMAIN index.files : index.files[k] = [path |-> p, file |-> disk[p]]

IndexIsTrue == job = NoJob /\ whole => SidesAgree /\ RecordsAreTrue /\ NothingMissing
=============================================================================
