------------------------------ MODULE Remembered ------------------------------
(***************************************************************************)
(* What the long-term memory promises about its file (memory.h: "an        *)
(* explicit, editable, on-disk store"): each entry appears whole, stays    *)
(* as it is, and leaves only by being forgotten; a text is held once and   *)
(* an id names one entry.  Programs that open, close or crash do not show  *)
(* here.  The promise is over once a write to the disk has failed: the     *)
(* code does not look.                                                     *)
(***************************************************************************)
CONSTANTS
    Ids,
    Texts

VARIABLES
    remembered,     \* the entries a program that opened the file would hold
    failed          \* a write to the disk has failed

rvars == <<remembered, failed>>

Entry == [id : Ids, text : Texts]

RInit == remembered = {} /\ failed = FALSE

Remember(i, t) ==
    /\ ~failed
    /\ \A e \in remembered : e.id # i /\ e.text # t
    /\ remembered' = remembered \cup {[id |-> i, text |-> t]}
    /\ UNCHANGED failed

Forget(e) ==
    /\ ~failed
    /\ e \in remembered
    /\ remembered' = remembered \ {e}
    /\ UNCHANGED failed

BreakDown ==
    /\ remembered' \subseteq Entry
    /\ failed' = TRUE

RNext ==
    \/ \E i \in Ids, t \in Texts : Remember(i, t)
    \/ \E e \in remembered : Forget(e)
    \/ BreakDown

RSpec == RInit /\ [][RNext]_rvars
=============================================================================
