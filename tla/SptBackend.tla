------------------------------ MODULE SptBackend ------------------------------
(***************************************************************************)
(* The SPT backend (backend/backend_spt.cpp): one model behind several     *)
(* sessions, each with a key/value cache and the list of the tokens the    *)
(* cache is meant to hold.  A request feeds only what its prompt does not  *)
(* share with that list.  A live backend takes its weights from the        *)
(* registry: before every request it compares versions, and a newer        *)
(* snapshot is copied in parameter by parameter, which throws at the first *)
(* parameter the snapshot lacks and is caught and logged.                  *)
(*                                                                         *)
(* A cell of a cache is the token and the weights it was computed from;    *)
(* of the parameters, the ones before and after the depth-dependent blocks *)
(* are told apart, because that is where a load stops.  Requests hold the  *)
(* backend's lock, so there is one at a time; the publishers of the        *)
(* registry run beside it.                                                 *)
(***************************************************************************)
EXTENDS WeightRegistry, SequencesExt

CONSTANTS
    Short,          \* the snapshots with fewer blocks than this model
    Vocab,          \* token ids
    Eot,            \* Tokenizer::kEot
    MaxPrompt,      \* model bound: tokens of a prompt
    Context,        \* cfg_.block_size
    MaxNewTokens,   \* model bound: sp.max_new_tokens
    Slots,          \* what open_session() hands out
    NoSlot          \* a request without a session

ASSUME SptAssumption ==
    /\ Short \subseteq Weights \ {InitWeights}
    /\ Eot \in Vocab
    /\ Context \in Nat /\ Context > 2
    /\ MaxPrompt \in Nat \ {0} /\ MaxNewTokens \in Nat \ {0}
    /\ NoSlot \notin Slots

VARIABLES
    live,           \* opt_.source is kLive: the weights come from the registry
    loaded,         \* loaded_
    params,         \* model_: the weights its first and its last parameters came from
    noted,          \* weight_version_
    sessions,       \* sessions_: slot -> session
    scratch,        \* the local session of a request without a slot
    request         \* the request being decoded, or SptIdle

svars == <<live, loaded, params, noted, sessions, scratch, request>>

Prompts == UNION {[1..n -> Vocab] : n \in 1..MaxPrompt}
Uniform(w) == [first |-> w, last |-> w]
NewSession == [tokens |-> <<>>, cells |-> <<>>, primed |-> FALSE]
SptIdle == [slot |-> NoSlot, left |-> -1]

SptInit ==
    /\ live \in BOOLEAN
    /\ loaded = FALSE
    /\ params = Uniform(InitWeights)
    /\ noted = 0
    /\ sessions = [s \in {} |-> NewSession]
    /\ scratch = NewSession
    /\ request = SptIdle

-----------------------------------------------------------------------------
(* Loading and reloading.                                                   *)

\* GPT::load_params: everything before the first missing parameter is already
\* overwritten when the load throws.
Copied(into, from) == [first |-> from, last |-> IF from \in Short THEN into.last ELSE from]

\* load(): a live backend copies the published snapshot, the others read a file
\* of their own.  Thrown errors and missing files leave the backend unloaded.
SptLoad ==
    /\ ~loaded
    /\ live => cur \notin Short
    /\ loaded' = TRUE
    /\ params' = Uniform(IF live THEN cur ELSE InitWeights)
    /\ noted' = IF live THEN version ELSE 0
    /\ UNCHANGED <<live, sessions, scratch, request>>

SptUnload ==
    /\ loaded /\ request = SptIdle
    /\ loaded' = FALSE
    /\ sessions' = [s \in {} |-> NewSession]
    /\ UNCHANGED <<live, params, noted, scratch, request>>

Emptied(S) == [s \in DOMAIN S |-> [S[s] EXCEPT !.tokens = <<>>, !.primed = FALSE]]

\* Mutant: the caches survive the reload.
MutResyncWeights(p, n, S) ==
    IF ~live \/ version = noted THEN <<p, n, S>>
    ELSE IF cur \in Short THEN <<Copied(p, cur), n, S>>
    ELSE <<Copied(p, cur), version, S>>

\* resync_weights(): the model, the version and the sessions it leaves behind.
\* A reload that throws notes no version and drops no cache.
ResyncWeights(p, n, S) ==
    IF ~live \/ version = noted THEN <<p, n, S>>
    ELSE IF cur \in Short THEN <<Copied(p, cur), n, S>>
    ELSE <<Copied(p, cur), version, Emptied(S)>>

-----------------------------------------------------------------------------
(* Sessions.                                                                *)

SptOpen(s) ==
    /\ loaded /\ request = SptIdle
    /\ s \notin DOMAIN sessions
    /\ sessions' = [t \in DOMAIN sessions \cup {s} |->
                       IF t = s THEN NewSession ELSE sessions[t]]
    /\ UNCHANGED <<live, loaded, params, noted, scratch, request>>

SptClose(s) ==
    /\ request = SptIdle
    /\ s \in DOMAIN sessions
    /\ sessions' = [t \in DOMAIN sessions \ {s} |-> sessions[t]]
    /\ UNCHANGED <<live, loaded, params, noted, scratch, request>>

SptReset(s) ==
    /\ request = SptIdle
    /\ s \in DOMAIN sessions
    /\ sessions' = [sessions EXCEPT ![s].tokens = <<>>, ![s].primed = FALSE]
    /\ UNCHANGED <<live, loaded, params, noted, scratch, request>>

-----------------------------------------------------------------------------
(* One request.                                                             *)

\* run_prefix(): the cells of ids are written from position pos on, and the
\* cache ends there (s.kv.T = pos before the forward pass).
RunPrefix(cells, pos, ids, p) ==
    SubSeq(cells, 1, pos) \o [i \in DOMAIN ids |-> [token |-> ids[i], by |-> p]]

\* common_prefix(), but never the whole prompt: its last token is run again for
\* its logits.
Reusable(tokens, ids) ==
    LET shared == CHOOSE n \in 0..Len(ids) :
                     /\ n <= Len(tokens)
                     /\ SubSeq(tokens, 1, n) = SubSeq(ids, 1, n)
                     /\ \/ n = Len(ids) \/ n = Len(tokens)
                        \/ tokens[n + 1] # ids[n + 1]
    IN  IF shared >= Len(ids) THEN Len(ids) - 1 ELSE shared

\* The tail of the prompt that leaves room for the answer.
Clipped(ids, want) ==
    LET room == IF Context - want - 1 > 1 THEN Context - want - 1 ELSE 1
    IN  IF Len(ids) > room THEN SubSeq(ids, Len(ids) - room + 1, Len(ids)) ELSE ids

\* A session that was never used, or whose tokens were dropped, starts over.
Primed(session) ==
    IF session.primed THEN session ELSE [tokens |-> <<>>, cells |-> <<>>, primed |-> TRUE]

Prefilled(session, ids, p) ==
    LET s == Primed(session)
        reuse == Reusable(s.tokens, ids)
        feed == SubSeq(ids, reuse + 1, Len(ids))
    IN  [s EXCEPT !.tokens = ids, !.cells = RunPrefix(s.cells, reuse, feed, p)]

Working(s) == IF s \in DOMAIN sessions THEN sessions[s] ELSE scratch

\* generate() up to its decode loop.  A slot that is not open, like no slot at
\* all, gets a session of its own that ends with the request.
SptBegin(slot, prompt, want) ==
    /\ loaded /\ request = SptIdle
    /\ LET fresh == ResyncWeights(params, noted, sessions)
           ids == Clipped(prompt, want)
       IN  /\ params' = fresh[1]
           /\ noted' = fresh[2]
           /\ IF slot \in DOMAIN sessions
              THEN /\ sessions' = [fresh[3] EXCEPT ![slot] = Prefilled(@, ids, fresh[1])]
                   /\ UNCHANGED scratch
              ELSE /\ sessions' = fresh[3]
                   /\ scratch' = Prefilled(NewSession, ids, fresh[1])
           /\ request' = [slot |-> slot,
                          left |-> IF want < Context - Len(ids) THEN want ELSE Context - Len(ids)]
    /\ UNCHANGED <<live, loaded>>

\* The request returns: it was cancelled, its callback or a stop string ended
\* it, or nothing is left to generate.
SptFinish ==
    /\ request # SptIdle
    /\ request' = SptIdle
    /\ scratch' = NewSession
    /\ UNCHANGED <<live, loaded, params, noted, sessions>>

\* sample(): after the penalties, top-k, min-p and top-p at least one candidate
\* is left, and any of them may be drawn.
Sampled == Vocab

\* One token of the decode loop; the end-of-text token only ends it.
SptDecode(tok) ==
    /\ request.left > 0
    /\ tok # Eot
    /\ LET s == Working(request.slot)
           tokens == Append(s.tokens, tok)
           fed == [s EXCEPT !.tokens = tokens,
                            !.cells = RunPrefix(@, Len(tokens) - 1, <<tok>>, params)]
       IN  /\ IF request.slot \in DOMAIN sessions
              THEN /\ sessions' = [sessions EXCEPT ![request.slot] = fed]
                   /\ UNCHANGED scratch
              ELSE /\ scratch' = fed
                   /\ UNCHANGED sessions
           /\ request' = [request EXCEPT !.left = IF Len(tokens) + 1 >= Context THEN 0 ELSE @ - 1]
    /\ UNCHANGED <<live, loaded, params, noted>>

\* score(): a stateless pass after the same resync.
SptScore ==
    /\ loaded /\ request = SptIdle
    /\ LET fresh == ResyncWeights(params, noted, sessions)
       IN  /\ params' = fresh[1]
           /\ noted' = fresh[2]
           /\ sessions' = fresh[3]
    /\ UNCHANGED <<live, loaded, scratch, request>>

-----------------------------------------------------------------------------
SptNext ==
    \/ SptLoad \/ SptUnload \/ SptFinish \/ SptScore
    \/ \E s \in Slots : SptOpen(s) \/ SptClose(s) \/ SptReset(s)
    \/ \E s \in Slots \cup {NoSlot}, prompt \in Prompts, want \in 1..MaxNewTokens :
          SptBegin(s, prompt, want)
    \/ \E tok \in Sampled : SptDecode(tok)

\* The publishers' side of the registry; the backend is its only reader here.
Published ==
    \/ \E w \in Writers, p \in Weights : Swap(w, p)
    \/ \E w \in Writers : Bump(w)

SptSpec ==
    /\ RegInit /\ SptInit
    /\ [][\/ SptNext /\ UNCHANGED rvars
          \/ Published /\ UNCHANGED svars]_<<rvars, svars>>

-----------------------------------------------------------------------------
\* "tokens: exactly what the KV cache holds" (backend_spt.h).
Holds(session) ==
    /\ Len(session.tokens) <= Len(session.cells)
    /\ Len(session.tokens) <= Context
    /\ \A i \in DOMAIN session.tokens :
          session.cells[i] = [token |-> session.tokens[i], by |-> params]

\* Whatever was published, reloaded, cancelled, reset or clipped, a session never
\* answers out of a cache that other weights or another prompt filled: unless the
\* last reload stopped half way, every cell behind the tokens of a session was
\* computed from its token with the weights in use, and none is past the context.
CacheIsCurrent ==
    params.first = params.last =>
        \A s \in DOMAIN sessions : sessions[s].primed => Holds(sessions[s])

\* A backend that skips the reload because the version it noted is still the
\* current one has exactly the published weights, all of them, unless a publish
\* is between its two halves: a reload that threw is tried again.
ReloadIsRetried ==
    live /\ loaded /\ noted = version => params = Uniform(cur) \/ publishing # {}

\* What a live session answers from is the published weights and its own prompt:
\* a reload drops every cache (backend_spt.cpp, resync_weights), and is made until
\* it succeeds.
ServesCurrent == CacheIsCurrent /\ ReloadIsRetried
=============================================================================
