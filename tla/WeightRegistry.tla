---------------------------- MODULE WeightRegistry ----------------------------
(***************************************************************************)
(* The RCU-style holder of the published weights (WeightRegistry in        *)
(* src/coordinator.h and .cpp) together with its two kinds of reader.      *)
(*                                                                         *)
(* publish() swaps the pointer under the exclusive lock and bumps the      *)
(* version after the lock is gone: two steps, and several writers may be   *)
(* between them at once.  current() loads the version and the pointer      *)
(* under the shared lock: one step.  A trainer loads what current()        *)
(* returned every time; the chat engine and the model backends keep the    *)
(* version they loaded and skip the load while it has not changed.         *)
(*                                                                         *)
(* Operators named Mut... are deliberately wrong versions of the operator  *)
(* that follows them; a property is only kept if one of them breaks it.    *)
(***************************************************************************)
EXTENDS Integers

CONSTANTS
    Weights,        \* the weight snapshots (contents of a ParamStore)
    InitWeights,    \* what the constructor of the coordinator publishes
    Writers,        \* threads that call publish()
    Trainers,       \* readers that load unconditionally (TrainerBase::sync)
    Sessions        \* readers that load when the version changed (chat, SPT backend)

ASSUME RegistryAssumption == InitWeights \in Weights

VARIABLES
    cur,            \* cur_: the published pointer
    version,        \* version_: the atomic counter
    publishing,     \* writers that swapped cur_ and have not bumped version_ yet
    replica         \* per reader: the weights it loaded and the version it noted

rvars == <<cur, version, publishing, replica>>

Readers == Trainers \cup Sessions

RegTypeOK ==
    /\ cur \in Weights
    /\ version \in Nat
    /\ publishing \in SUBSET Writers
    /\ replica \in [Readers -> [weights : Weights, version : Nat]]

\* The constructor published once before any reader exists, and every reader's
\* own constructor loads the snapshot.
RegInit ==
    /\ cur = InitWeights
    /\ version = 1
    /\ publishing = {}
    /\ replica = [r \in Readers |-> [weights |-> InitWeights, version |-> 1]]

\* Mutant: the pointer is swapped and the version bump is forgotten.
MutSwapNoBump(w, p) ==
    /\ w \notin publishing
    /\ cur' = p
    /\ UNCHANGED <<version, publishing, replica>>

\* publish(), under the lock: cur_ = std::move(p).
Swap(w, p) ==
    /\ w \notin publishing
    /\ cur' = p
    /\ publishing' = publishing \cup {w}
    /\ UNCHANGED <<version, replica>>

\* publish(), after the lock: version_.fetch_add(1).
Bump(w) ==
    /\ w \in publishing
    /\ version' = version + 1
    /\ publishing' = publishing \ {w}
    /\ UNCHANGED <<cur, replica>>

\* TrainerBase::sync(): snapshot(&base_version_), then load it.
Sync(r) ==
    /\ replica' = [replica EXCEPT ![r] = [weights |-> cur, version |-> version]]
    /\ UNCHANGED <<cur, version, publishing>>

\* Mutant: the version is noted before a load that throws.
MutResyncNotesFirst(r) ==
    /\ version # replica[r].version
    /\ replica' = [replica EXCEPT ![r].version = version]
    /\ UNCHANGED <<cur, version, publishing>>

\* ChatEngine::handle() and ModelBackendSPT::resync_weights(): load only if the
\* version differs from the one noted at the last load.
Resync(r) ==
    /\ version # replica[r].version
    /\ Sync(r)

RegNext ==
    \/ \E w \in Writers, p \in Weights : Swap(w, p)
    \/ \E w \in Writers : Bump(w)
    \/ \E r \in Trainers : Sync(r)
    \/ \E r \in Sessions : Resync(r)

RegSpec == RegInit /\ [][RegNext]_rvars

-----------------------------------------------------------------------------
\* A reader whose noted version is the current one holds the current weights,
\* unless a publish is between its two halves: the skip in chat.cpp and
\* backend_spt.cpp never hides a completed publish, whatever the writers do.
SkipIsFresh ==
    \A r \in Readers :
        replica[r].version = version => \/ replica[r].weights = cur
                                        \/ publishing # {}

\* What a reader noted is never ahead of the counter.  (The merge subtracts the
\* two as unsigned numbers: see the coordinator.)
NotedNotAhead == \A r \in Readers : replica[r].version <= version

\* The inductive invariant behind SkipIsFresh.
RegistryInv == RegTypeOK /\ SkipIsFresh /\ NotedNotAhead

\* Once publishing stops, every session that keeps taking turns ends on the
\* last published weights: a reader may see a new pointer under an old version,
\* and the late bump then makes it load again.
SessionsCatchUp == <>[](\A r \in Sessions : replica[r].weights = cur)
=============================================================================
