----------------------------- MODULE GgufBackend -----------------------------
(***************************************************************************)
(* The GGUF backend (backend/backend_gguf.cpp): sessions and stateless     *)
(* requests share the sequences of one llama.cpp context.  A session owns  *)
(* a sequence and the list of the tokens it believes to be cached there; a *)
(* request without one borrows a free sequence and wipes it afterwards.    *)
(* Several requests may be decoded jointly: each is prefilled in turn,     *)
(* then every step samples one token for each that is still running and    *)
(* decodes them in one batch.  When the sequences run out, the requests    *)
(* are served one by one instead.  score() and embed() use the same        *)
(* sequences: the one keeps a sequence for good at every call, the other   *)
(* works on sequence 0 without asking whose it is.                         *)
(*                                                                         *)
(* Callers hold the backend's lock for a whole call (debate.cpp).  Prompts *)
(* are taken after the clipping to the context, which DecodeWindow looks   *)
(* at.  llama.cpp is external: a decode fails whenever it likes and writes *)
(* the cells it is told to, and sampling row -1 reads the last row of the  *)
(* last decode.                                                            *)
(***************************************************************************)
EXTENDS Integers, SequencesExt, FiniteSetsExt

CONSTANTS
    NSeqMax,        \* opt.n_seq_max
    Voices,         \* the slots handed out: one per participant of a debate
    Stateless,      \* slot -1
    GVocab,         \* token ids, without the end-of-generation token
    GPrompts,       \* tokenised prompts
    GMaxNew,        \* sp.max_new_tokens
    Embeddings,     \* opt.embeddings
    MaxBatch        \* model bound: requests of one generate_many()

\* Every token that is ever fed.
GTokens == GVocab \cup UNION {ToSet(ids) : ids \in GPrompts}

\* "n_seq_max must cover every debate participant that shares this context"
\* (runtime.cpp, which passes 4), and leave a sequence to the requests that have
\* none: one that finds them all taken is given sequence 0, a session's.
ASSUME GgufAssumption ==
    /\ NSeqMax \in Nat \ {0}
    /\ IsFiniteSet(Voices) /\ Cardinality(Voices) < NSeqMax
    /\ Stateless \notin Voices
    /\ \A ids \in GPrompts : ids \in Seq(GTokens) /\ ids # <<>>
    /\ GMaxNew \in Nat \ {0}
    /\ Embeddings \in BOOLEAN
    /\ MaxBatch \in Nat \ {0}

SeqIds == 0..(NSeqMax - 1)
Hole == "hole"                  \* a position of a sequence no cell was written for

VARIABLES
    seq_used,       \* the sequences marked as claimed
    gsessions,      \* sessions: slot -> its sequence and its tokens
    kv,             \* the context's memory: sequence -> tokens by position
    rows,           \* the logit rows of the last decode: the tokens each was computed over
    mode,           \* "idle", "prefill", "joint" or "serial"
    runs,           \* the requests of the call that are in progress
    queue,          \* those still to be served, one by one
    spoilt,         \* history: the sessions a decode has failed in since they were empty
    leaked,         \* history: the sequences that score() claimed and did not give back
    trespass        \* history: did a call work on a sequence somebody else had claimed?

gvars == <<seq_used, gsessions, kv, rows, mode, runs, queue, spoilt, leaked, trespass>>

GRequests == [slot : Voices \cup {Stateless}, ids : GPrompts]

GgufInit ==
    /\ seq_used = {}
    /\ gsessions = [s \in {} |-> 0]
    /\ kv = [q \in SeqIds |-> <<>>]
    /\ rows = <<>>
    /\ mode = "idle" /\ runs = <<>> /\ queue = <<>>
    /\ spoilt = {}
    /\ leaked = {} /\ trespass = FALSE

-----------------------------------------------------------------------------
(* Sequences and their memory.                                              *)

Free(used) == SeqIds \ used

\* claim_seq(): the first sequence not in use, -1 when there is none.
ClaimSeq(used) == IF Free(used) = {} THEN -1 ELSE Min(Free(used))

\* llama_memory_seq_rm(seq, from, -1).
SeqRm(m, seq, from) ==
    [m EXCEPT ![seq] = IF Len(@) > from THEN SubSeq(@, 1, from) ELSE @]

\* llama_decode() of toks at position pos of a sequence; what is already behind
\* pos was removed before.
Holes(n) == IF n > 0 THEN [i \in 1..n |-> Hole] ELSE <<>>
Decoded(m, seq, pos, toks) == [m EXCEPT ![seq] = @ \o Holes(pos - Len(@)) \o toks]

\* The shared prefix of a session's tokens and a prompt, without the prompt's
\* last token.
GReuse(tokens, ids) ==
    CHOOSE n \in 0..(Len(ids) - 1) :
        /\ n <= Len(tokens) /\ SubSeq(tokens, 1, n) = SubSeq(ids, 1, n)
        /\ n = Len(ids) - 1 \/ n = Len(tokens) \/ tokens[n + 1] # ids[n + 1]

InSession(slot) == slot \in DOMAIN gsessions

-----------------------------------------------------------------------------
(* Sessions.  open_session() hands out no slot when no sequence is free, and  *)
(* the participant's requests are stateless then.                           *)

GgufOpen(s) ==
    /\ mode = "idle" /\ ~InSession(s) /\ Free(seq_used) # {}
    /\ seq_used' = seq_used \cup {ClaimSeq(seq_used)}
    /\ gsessions' = [t \in DOMAIN gsessions \cup {s} |->
                        IF t = s THEN [seq |-> ClaimSeq(seq_used), tokens |-> <<>>]
                        ELSE gsessions[t]]
    /\ UNCHANGED <<kv, rows, mode, runs, queue, spoilt, leaked, trespass>>

GgufClose(s) ==
    /\ mode = "idle" /\ InSession(s)
    /\ kv' = SeqRm(kv, gsessions[s].seq, 0)
    /\ seq_used' = seq_used \ {gsessions[s].seq}
    /\ gsessions' = [t \in DOMAIN gsessions \ {s} |-> gsessions[t]]
    /\ spoilt' = spoilt \ {s}
    /\ UNCHANGED <<rows, mode, runs, queue, leaked, trespass>>

GgufReset(s) ==
    /\ mode = "idle" /\ InSession(s)
    /\ kv' = SeqRm(kv, gsessions[s].seq, 0)
    /\ gsessions' = [gsessions EXCEPT ![s].tokens = <<>>]
    /\ spoilt' = spoilt \ {s}
    /\ UNCHANGED <<seq_used, rows, mode, runs, queue, leaked, trespass>>

\* unload(), and the close() at the start of load().
GgufUnload ==
    /\ mode = "idle"
    /\ seq_used' = {}
    /\ gsessions' = [s \in {} |-> 0]
    /\ kv' = [q \in SeqIds |-> <<>>]
    /\ spoilt' = {}
    /\ leaked' = {} /\ trespass' = FALSE
    /\ UNCHANGED <<rows, mode, runs, queue>>

-----------------------------------------------------------------------------
(* One prefill: everything after the shared prefix is removed, the rest is    *)
(* decoded batch by batch.  Where it fails or is cancelled, part of it is in  *)
(* the memory and the session keeps the tokens it had.                        *)

Tokens(slot) == IF InSession(slot) THEN gsessions[slot].tokens ELSE <<>>
Feed(run) == SubSeq(run.ids, GReuse(Tokens(run.slot), run.ids) + 1, Len(run.ids))
Trimmed(run) ==
    SeqRm(kv, run.seq, IF run.scratch THEN 0 ELSE GReuse(Tokens(run.slot), run.ids))

PrefillDone(run) ==
    /\ kv' = Decoded(Trimmed(run), run.seq, Len(run.ids) - Len(Feed(run)), Feed(run))
    /\ rows' = <<kv'[run.seq]>>
    /\ gsessions' = IF run.scratch THEN gsessions
                    ELSE [gsessions EXCEPT ![run.slot].tokens = run.ids]
    /\ UNCHANGED spoilt

PrefillFails(run) ==
    /\ \E n \in 0..(Len(Feed(run)) - 1) :
          kv' = Decoded(Trimmed(run), run.seq, Len(run.ids) - Len(Feed(run)), SubSeq(Feed(run), 1, n))
    /\ spoilt' = IF run.scratch THEN spoilt ELSE spoilt \cup {run.slot}
    /\ UNCHANGED <<rows, gsessions>>

NewRun(request, seq, scratch) ==
    [slot |-> request.slot, ids |-> request.ids, seq |-> seq, scratch |-> scratch,
     state |-> "new", made |-> 0, row |-> -1]

-----------------------------------------------------------------------------
(* generate(): one request.                                                 *)

\* The next request of the call.  When every sequence is taken, a request
\* without a session borrows sequence 0.
SerialBegin ==
    /\ mode = "serial" /\ runs = <<>> /\ queue # <<>>
    /\ LET request == Head(queue)
           claimed == ClaimSeq(seq_used)
           run == IF InSession(request.slot)
                  THEN NewRun(request, gsessions[request.slot].seq, FALSE)
                  ELSE NewRun(request, IF claimed < 0 THEN 0 ELSE claimed, TRUE)
       IN  /\ \/ /\ PrefillDone(run)
                 /\ runs' = <<[run EXCEPT !.state = "live"]>>
                 /\ seq_used' = IF run.scratch /\ claimed >= 0 THEN seq_used \cup {run.seq} ELSE seq_used
              \/ /\ PrefillFails(run)
                 /\ runs' = <<>>
                 /\ seq_used' = IF run.scratch THEN seq_used \ {run.seq} ELSE seq_used
           /\ trespass' = (trespass \/ (run.scratch /\ claimed < 0))
    /\ queue' = Tail(queue)
    /\ UNCHANGED <<mode, leaked>>

\* What the session believes once a token is pushed, before it is decoded.
Pushed(S, run, tok) == IF run.scratch THEN S ELSE [S EXCEPT ![run.slot].tokens = Append(@, tok)]

SerialToken(tok) ==
    /\ mode = "serial" /\ runs # <<>> /\ runs[1].state = "live" /\ runs[1].made < GMaxNew
    /\ LET run == runs[1]
       IN  /\ gsessions' = Pushed(gsessions, run, tok)
           /\ \/ /\ kv' = Decoded(kv, run.seq, Len(run.ids) + run.made, <<tok>>)
                 /\ rows' = <<kv'[run.seq]>>
                 /\ runs' = <<[run EXCEPT !.made = @ + 1]>>
                 /\ UNCHANGED spoilt
              \/ /\ runs' = <<[run EXCEPT !.state = "done"]>>
                 /\ spoilt' = IF run.scratch THEN spoilt ELSE spoilt \cup {run.slot}
                 /\ UNCHANGED <<kv, rows>>
    /\ UNCHANGED <<seq_used, mode, queue, leaked, trespass>>

Scratches == {runs[i].seq : i \in {k \in DOMAIN runs : runs[k].scratch}}
Wiped == [q \in SeqIds |-> IF q \in Scratches THEN <<>> ELSE kv[q]]

\* The request ends, by whatever reason.
SerialEnd ==
    /\ mode = "serial" /\ runs # <<>>
    /\ kv' = Wiped
    /\ seq_used' = seq_used \ Scratches
    /\ runs' = <<>>
    /\ UNCHANGED <<gsessions, rows, mode, queue, spoilt, leaked, trespass>>

-----------------------------------------------------------------------------
(* generate_many().                                                         *)

\* The sequences the requests without a session claim, in order, as a sequence
\* as long as the requests; -1 stands for a session's own and for none left.
Claims(requests) ==
    [i \in DOMAIN requests |->
        LET before == {k \in 1..(i - 1) : ~InSession(requests[k].slot)}
            free == {q \in Free(seq_used) :
                        Cardinality({p \in Free(seq_used) : p < q}) = Cardinality(before)}
        IN  IF InSession(requests[i].slot) \/ free = {} THEN -1 ELSE Min(free)]

TooFew(requests) ==
    \E i \in DOMAIN requests : ~InSession(requests[i].slot) /\ Claims(requests)[i] < 0

\* Mutant: the claims made before the sequences ran out stay.
MutFallBack(requests) ==
    /\ mode' = "serial" /\ queue' = requests /\ runs' = <<>>
    /\ seq_used' = seq_used \cup ({Claims(requests)[i] : i \in DOMAIN requests} \ {-1})

\* Too few sequences, or a single request: one by one, with every claim given back.
FallBack(requests) ==
    /\ mode' = "serial" /\ queue' = requests /\ runs' = <<>>
    /\ UNCHANGED seq_used

GenerateMany(requests) ==
    /\ mode = "idle" /\ requests # <<>>
    /\ IF Len(requests) = 1 \/ TooFew(requests)
       THEN FallBack(requests)
       ELSE /\ mode' = "prefill" /\ queue' = <<>>
            /\ runs' = [i \in DOMAIN requests |->
                           IF InSession(requests[i].slot)
                           THEN NewRun(requests[i], gsessions[requests[i].slot].seq, FALSE)
                           ELSE NewRun(requests[i], Claims(requests)[i], TRUE)]
            /\ seq_used' = seq_used \cup ({Claims(requests)[i] : i \in DOMAIN requests} \ {-1})
    /\ UNCHANGED <<gsessions, kv, rows, spoilt, leaked, trespass>>

\* The prefills, in the order of the requests.
PrefillNext ==
    /\ mode = "prefill"
    /\ \E i \in DOMAIN runs :
          /\ runs[i].state = "new"
          /\ \A k \in 1..(i - 1) : runs[k].state # "new"
          /\ \/ /\ PrefillDone(runs[i])
                /\ runs' = [runs EXCEPT ![i].state = "live"]
             \/ /\ PrefillFails(runs[i])
                /\ runs' = [runs EXCEPT ![i].state = "done"]
    /\ UNCHANGED <<seq_used, mode, queue, leaked, trespass>>

StartJoint ==
    /\ mode = "prefill" /\ \A i \in DOMAIN runs : runs[i].state # "new"
    /\ mode' = "joint"
    /\ UNCHANGED <<seq_used, gsessions, kv, rows, runs, queue, spoilt, leaked, trespass>>

Drawing == {i \in DOMAIN runs : runs[i].state = "live" /\ runs[i].made < GMaxNew}

\* The session of a run has the token before the batch is decoded.
JointPush(S, fed, tok) ==
    [s \in DOMAIN S |->
        IF \E i \in fed : ~runs[i].scratch /\ runs[i].slot = s
        THEN [S[s] EXCEPT !.tokens = Append(@, tok)] ELSE S[s]]

\* One step: each drawing run samples a token and is fed into the batch, unless
\* the token, the callback or a stop string ends it; then the batch is decoded.
\* (One token stands for what the runs drew: they are independent.)
JointStep(fed, tok) ==
    /\ mode = "joint" /\ fed # {} /\ fed \subseteq Drawing
    /\ gsessions' = JointPush(gsessions, fed, tok)
    /\ LET RowOf(i) == Cardinality({k \in fed : k <= i})
           over == {i \in DOMAIN runs : runs[i].state = "live" /\ i \notin fed}
       IN  \/ /\ kv' = [q \in SeqIds |->
                          IF \E i \in fed : runs[i].seq = q
                          THEN LET i == CHOOSE i \in fed : runs[i].seq = q
                               IN  Decoded(kv, q, Len(runs[i].ids) + runs[i].made, <<tok>>)[q]
                          ELSE kv[q]]
              /\ rows' = [r \in 1..Cardinality(fed) |->
                             kv'[runs[CHOOSE i \in fed : RowOf(i) = r].seq]]
              /\ runs' = [i \in DOMAIN runs |->
                             IF i \in fed THEN [runs[i] EXCEPT !.made = @ + 1, !.row = RowOf(i)]
                             ELSE IF i \in over THEN [runs[i] EXCEPT !.state = "done"]
                             ELSE runs[i]]
              /\ UNCHANGED spoilt
           \/ /\ runs' = [i \in DOMAIN runs |-> [runs[i] EXCEPT !.state = "done"]]
              /\ spoilt' = spoilt \cup {runs[i].slot : i \in {k \in fed : ~runs[k].scratch}}
              /\ UNCHANGED <<kv, rows>>
    /\ UNCHANGED <<seq_used, mode, queue, leaked, trespass>>

\* Nothing left to draw, or the call is cancelled.
JointEnd ==
    /\ mode = "joint"
    /\ kv' = Wiped
    /\ seq_used' = seq_used \ Scratches
    /\ mode' = "idle" /\ runs' = <<>> /\ rows' = <<>>
    /\ UNCHANGED <<gsessions, queue, spoilt, leaked, trespass>>

\* The serial loop is through, or the call is cancelled between two requests.
SerialDone ==
    /\ mode = "serial" /\ runs = <<>>
    /\ mode' = "idle" /\ queue' = <<>> /\ rows' = <<>>
    /\ UNCHANGED <<seq_used, gsessions, kv, runs, spoilt, leaked, trespass>>

-----------------------------------------------------------------------------
(* score() and embed().                                                     *)

\* claim_seq() is called twice, once to see whether there is a sequence and once to
\* have it: the first stays claimed, the second is wiped and given back.  When there is
\* none, sequence 0 is wiped and given back, whoever has it; when the first was the
\* last, the text is decoded into sequence -1, which llama.cpp wipes as "all" and does
\* not decode.
GgufScore ==
    /\ mode = "idle"
    /\ LET first == ClaimSeq(seq_used)
           second == ClaimSeq(seq_used \cup {first})
       IN  IF first < 0
           THEN /\ kv' = [kv EXCEPT ![0] = <<>>] /\ seq_used' = seq_used \ {0}
                /\ trespass' = TRUE
                /\ UNCHANGED leaked
           ELSE /\ kv' = IF second < 0 THEN [q \in SeqIds |-> <<>>] ELSE [kv EXCEPT ![second] = <<>>]
                /\ seq_used' = seq_used \cup {first} /\ leaked' = leaked \cup {first}
                /\ trespass' = (trespass \/ second < 0)
    /\ UNCHANGED <<gsessions, rows, mode, runs, queue, spoilt>>

\* Sequence 0 is wiped and the text decoded into it, as far as that comes.
GgufEmbed(ids) ==
    /\ mode = "idle" /\ Embeddings
    /\ \E n \in 0..Len(ids) : kv' = [kv EXCEPT ![0] = SubSeq(ids, 1, n)]
    /\ trespass' = (trespass \/ 0 \in seq_used)
    /\ UNCHANGED <<seq_used, gsessions, rows, mode, runs, queue, spoilt, leaked>>

-----------------------------------------------------------------------------
\* A session serves at most one request of a call (debate.cpp: only the first
\* draft has the session).
Batches ==
    {q \in UNION {[1..n -> GRequests] : n \in 1..MaxBatch} :
        \A i, j \in DOMAIN q : q[i].slot = q[j].slot => i = j \/ q[i].slot = Stateless}

GgufNext ==
    \/ \E s \in Voices : GgufOpen(s) \/ GgufClose(s) \/ GgufReset(s)
    \/ GgufUnload
    \/ \E requests \in Batches : GenerateMany(requests)
    \/ PrefillNext \/ StartJoint \/ JointEnd
    \/ \E fed \in SUBSET Drawing, tok \in GVocab : JointStep(fed, tok)
    \/ SerialBegin \/ SerialEnd \/ SerialDone
    \/ \E tok \in GVocab : SerialToken(tok)
    \/ GgufScore
    \/ \E ids \in GPrompts : GgufEmbed(ids)

GgufSpec == GgufInit /\ [][GgufNext]_gvars

-----------------------------------------------------------------------------
\* Between two calls the sequences marked as used are those of the open sessions, one
\* each, and those that score() has leaked: no other request leaks the sequence it
\* borrowed, however it ended, and none gives away one that a session owns.
OwnedSeqs == {gsessions[s].seq : s \in DOMAIN gsessions}
PoolBalanced ==
    mode = "idle" =>
        /\ seq_used = OwnedSeqs \cup leaked /\ OwnedSeqs \cap leaked = {}
        /\ \A s, t \in DOMAIN gsessions : gsessions[s].seq = gsessions[t].seq => s = t

\* Between two calls, and as long as no decode failed or was cancelled in it, the
\* tokens of a session are the first cells of its sequence, so that the prefix a
\* prompt shares with them may be reused.  (A decode that failed leaves tokens
\* behind that are no longer cached, against "exactly what this sequence's cache
\* holds"; a borrowed sequence whose prefill failed is given back with cells in
\* it, which the next request removes.)
TokensAreCached ==
    mode = "idle" =>
        \A s \in DOMAIN gsessions \ spoilt :
            IsPrefix(gsessions[s].tokens, kv[gsessions[s].seq])

\* The sequences of the context are handed out, shared and given back as the
\* sessions believe (claim_seq, generate, generate_many), until a call works on one it
\* has not claimed.  Nothing does so but embed() and, after score() has leaked at least
\* one sequence since the model was loaded, whoever finds them all taken.  (Two sessions
\* may then share a sequence; what their cells become is not followed, nor claimed.)
SequencesSound ==
    /\ trespass => Embeddings \/ leaked # {}
    /\ ~trespass => PoolBalanced /\ TokensAreCached

\* "Samples one token for every live sequence from the logits it just produced"
\* (backend_gguf.cpp).
RowOfRun(i) == IF runs[i].row < 0 THEN Last(rows) ELSE rows[runs[i].row]
DrawsFromOwnLogits ==
    mode = "joint" => \A i \in Drawing : RowOfRun(i) = kv[runs[i].seq]
=============================================================================
