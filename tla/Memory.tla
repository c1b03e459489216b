-------------------------------- MODULE Memory --------------------------------
(***************************************************************************)
(* The long-term memory (memory.cpp): a list of texts in each program that *)
(* has the store open, and the JSONL file behind it.  An addition appends  *)
(* one line, a removal writes all lines to a second file and renames it    *)
(* over the first.  Every method of a store runs under its mutex, so a     *)
(* program is in one operation at a time; it may crash in the middle of    *)
(* one, and any write may fail, which the code does not look at.           *)
(*                                                                         *)
(* A line is its id, text and importance; texts are taken in normal form   *)
(* and survive being written and read.  Tags, times, the counters uses     *)
(* and taught (the one changes in memory only, the other never, for no     *)
(* one calls mark_taught) and the vectors kept beside the items follow     *)
(* them and decide nothing but the ranking.  The order of the items        *)
(* decides ties of the ranking, so they are a set.                         *)
(***************************************************************************)
EXTENDS Integers, Sequences

CONSTANTS
    Programs,       \* the dashboard and the command line, say
    Texts,          \* the texts the user writes
    Importances,    \* the user's multipliers
    MaxId           \* model bound: no program hands out an id beyond this

ASSUME MemoryAssumption ==
    /\ MaxId \in Nat \ {0}
    /\ Importances \subseteq Int

VARIABLES
    file,           \* the lines of path_
    tmp,            \* the lines of path_.tmp
    items,          \* per program: items_
    next_id,        \* per program: next_id_
    pc,             \* per program: where its current operation is
    todo,           \* per program: the items the operation has still to write
    failed          \* history: a write has failed

vars == <<file, tmp, items, next_id, pc, todo, failed>>

Ids  == 1..MaxId
Item == [id : Ids, text : Texts, importance : Importances]

-----------------------------------------------------------------------------
(* open().                                                                  *)

\* A later line with the same id replaces the earlier one.
Loaded(lines) ==
    {lines[i] : i \in {k \in DOMAIN lines :
                          \A j \in DOMAIN lines : j > k => lines[j].id # lines[k].id}}

\* Mutant: the next id is the highest one read, not the one above it.
MutFollowsIds(n, lines) ==
    /\ \A i \in DOMAIN lines : lines[i].id <= n
    /\ n = 1 \/ \E i \in DOMAIN lines : n = lines[i].id

\* next_id_ ends up one above the highest id read.
FollowsIds(n, lines) ==
    /\ \A i \in DOMAIN lines : lines[i].id < n
    /\ n = 1 \/ \E i \in DOMAIN lines : n = lines[i].id + 1

Open(p) ==
    /\ pc[p] = "closed"
    /\ items' = [items EXCEPT ![p] = Loaded(file)]
    /\ \E n \in 1..(MaxId + 1) :
          /\ FollowsIds(n, file)
          /\ next_id' = [next_id EXCEPT ![p] = n]
    /\ pc' = [pc EXCEPT ![p] = "open"]
    /\ UNCHANGED <<file, tmp, todo, failed>>

\* The program ends or crashes, in an operation or between two.  What it has
\* written stays, the rest is gone.
Exit(p) ==
    /\ pc[p] # "closed"
    /\ items' = [items EXCEPT ![p] = {}]
    /\ next_id' = [next_id EXCEPT ![p] = 1]
    /\ todo' = [todo EXCEPT ![p] = {}]
    /\ pc' = [pc EXCEPT ![p] = "closed"]
    /\ UNCHANGED <<file, tmp, failed>>

-----------------------------------------------------------------------------
(* add().  A text already held has its importance raised, in memory only.   *)

Raised(item, importance) ==
    IF item.importance < importance
    THEN [item EXCEPT !.importance = importance]
    ELSE item

AddAgain(p, text, importance) ==
    /\ pc[p] = "open"
    /\ \E item \in items[p] :
          /\ item.text = text
          /\ items' = [items EXCEPT ![p] = (@ \ {item}) \cup {Raised(item, importance)}]
    /\ UNCHANGED <<file, tmp, next_id, pc, todo, failed>>

AddNew(p, text, importance) ==
    /\ pc[p] = "open"
    /\ next_id[p] <= MaxId
    /\ \A item \in items[p] : item.text # text
    /\ LET item == [id |-> next_id[p], text |-> text, importance |-> importance]
       IN  /\ items' = [items EXCEPT ![p] = @ \cup {item}]
           /\ todo' = [todo EXCEPT ![p] = {item}]
    /\ next_id' = [next_id EXCEPT ![p] = @ + 1]
    /\ pc' = [pc EXCEPT ![p] = "appending"]
    /\ UNCHANGED <<file, tmp, failed>>

\* append_line() writes the line to the file; its result is not looked at.
AppendLine(p) ==
    /\ pc[p] = "appending"
    /\ \/ /\ \E item \in todo[p] : file' = Append(file, item)
          /\ UNCHANGED failed
       \/ /\ failed' = TRUE
          /\ UNCHANGED file
    /\ todo' = [todo EXCEPT ![p] = {}]
    /\ pc' = [pc EXCEPT ![p] = "open"]
    /\ UNCHANGED <<tmp, items, next_id>>

-----------------------------------------------------------------------------
(* forget() and rewrite_all().                                              *)

\* Mutant: the item leaves the list only.
MutForgetItem(p, item) ==
    /\ pc[p] = "open"
    /\ item \in items[p]
    /\ items' = [items EXCEPT ![p] = @ \ {item}]
    /\ UNCHANGED <<file, tmp, next_id, pc, todo, failed>>

\* Mutant: what a crash left in the second file stays there.
MutForgetAppends(p, item) ==
    /\ pc[p] = "open"
    /\ item \in items[p]
    /\ items' = [items EXCEPT ![p] = @ \ {item}]
    /\ todo' = [todo EXCEPT ![p] = items[p] \ {item}]
    /\ pc' = [pc EXCEPT ![p] = "copying"]
    /\ UNCHANGED <<file, tmp, next_id, failed>>

\* The item leaves the list, and the second file is opened empty.  When that
\* fails the first one is left as it was.
ForgetItem(p, item) ==
    /\ pc[p] = "open"
    /\ item \in items[p]
    /\ items' = [items EXCEPT ![p] = @ \ {item}]
    /\ \/ /\ tmp' = << >>
          /\ todo' = [todo EXCEPT ![p] = items[p] \ {item}]
          /\ pc' = [pc EXCEPT ![p] = "copying"]
          /\ UNCHANGED failed
       \/ /\ failed' = TRUE
          /\ UNCHANGED <<tmp, todo, pc>>
    /\ UNCHANGED <<file, next_id>>

CopyLine(p, item) ==
    /\ pc[p] = "copying"
    /\ item \in todo[p]
    /\ \/ /\ tmp' = Append(tmp, item)
          /\ UNCHANGED failed
       \/ /\ failed' = TRUE
          /\ UNCHANGED tmp
    /\ todo' = [todo EXCEPT ![p] = @ \ {item}]
    /\ UNCHANGED <<file, items, next_id, pc>>

Rename(p) ==
    /\ pc[p] = "copying"
    /\ todo[p] = {}
    /\ \/ /\ file' = tmp
          /\ tmp' = << >>
          /\ UNCHANGED failed
       \/ /\ failed' = TRUE
          /\ UNCHANGED <<file, tmp>>
    /\ pc' = [pc EXCEPT ![p] = "open"]
    /\ UNCHANGED <<items, next_id, todo>>

-----------------------------------------------------------------------------

Init ==
    /\ file = << >>
    /\ tmp = << >>
    /\ items = [p \in Programs |-> {}]
    /\ next_id = [p \in Programs |-> 1]
    /\ pc = [p \in Programs |-> "closed"]
    /\ todo = [p \in Programs |-> {}]
    /\ failed = FALSE

Work(p) ==
    \/ \E text \in Texts, importance \in Importances :
          AddAgain(p, text, importance) \/ AddNew(p, text, importance)
    \/ \E item \in items[p] : ForgetItem(p, item)
    \/ \E item \in todo[p] : CopyLine(p, item)
    \/ AppendLine(p)
    \/ Rename(p)
    \/ Exit(p)

Next == \E p \in Programs : Open(p) \/ Work(p)

Spec == Init /\ [][Next]_vars

\* The file is not locked.  The store is sound for programs that take turns.
OpenAlone(p) == Open(p) /\ \A q \in Programs : pc[q] = "closed"

SoleNext == \E p \in Programs : OpenAlone(p) \/ Work(p)
SoleSpec == Init /\ [][SoleNext]_vars

-----------------------------------------------------------------------------
(* Properties.                                                              *)

MemoryTypeOK ==
    /\ file \in Seq(Item)
    /\ tmp \in Seq(Item)
    /\ items \in [Programs -> SUBSET Item]
    /\ next_id \in [Programs -> 1..(MaxId + 1)]
    /\ pc \in [Programs -> {"closed", "open", "appending", "copying"}]
    /\ todo \in [Programs -> SUBSET Item]
    /\ failed \in BOOLEAN

Entries(lines) == {[id |-> item.id, text |-> item.text] : item \in lines}

\* Between two operations the list in memory and the file hold the same entries,
\* so a restart changes nothing but importances: those raised by adding a text
\* again are in memory only and the file's are lower or the same
\* (memory.cpp:210-214).
MemoryAgrees ==
    \A p \in Programs :
        ~failed /\ pc[p] = "open" =>
            /\ Entries(items[p]) = Entries(Loaded(file))
            /\ \A old \in Loaded(file), new \in items[p] :
                  old.id = new.id => old.importance <= new.importance

\* An id names one item (get() and forget() take the first that matches): in
\* every program, at every point of an operation, through any number of restarts
\* and after writes that failed.  "Exact duplicates just bump importance instead
\* of piling up": no text is held twice, until a write has failed.
NoDuplicates ==
    \A p \in Programs : \A a, b \in items[p] :
        \/ a.id = b.id
        \/ a.text = b.text /\ ~failed
        => a = b

\* MemoryStore: what it holds it has saved, and each item once.
MemorySound == MemoryAgrees /\ NoDuplicates

\* What is on the disk changes as Remembered says: by one whole entry added or
\* one removed, and by nothing else, least of all by a crash in the middle of a
\* rewrite or by what such a crash left in the second file.
Promise == INSTANCE Remembered WITH remembered <- Entries(Loaded(file))

KeepsPromise == Promise!RSpec
=============================================================================
