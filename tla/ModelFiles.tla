------------------------------ MODULE ModelFiles ------------------------------
(* A model and the files it lives in (model.cpp, core/params.cpp,              *)
(* core/serialize.cpp, qmodel.cpp, and cmd_pretrain of main.cpp, which drives  *)
(* them): a run builds a model from a configuration or resumes a checkpoint,   *)
(* trains it, deepens it on a schedule and saves it; a trainer loads the       *)
(* checkpoint and moves the part its freeze policy leaves open; the packer     *)
(* turns the checkpoint into a quantised file that is mapped and checked.      *)
(* Every file is written in place, so a crash leaves the part written so far.  *)
(*                                                                             *)
(* The value of a tensor is a counter of the updates it took, its shape the    *)
(* real one: what is at stake is which tensors exist, where they lie and whose *)
(* values they carry, never the numbers in them.                               *)
EXTENDS Integers, Sequences, FiniteSets, SequencesExt, TLC

CONSTANTS
    Configs,    \* configuration files, functions from keys to values
    Growth,     \* the --grow schedule, a sequence of <<step, blocks>>
    Spikes,     \* the steps whose gradient the optimiser skips as a spike
    RunSteps,   \* --steps of one pretraining run
    MaxStep,    \* model bound: no run starts once the checkpoint is this old
    Policies,   \* freeze policies of the trainers
    Encodings   \* what a pack is asked for, <<body, embedding>>

ASSUME ModelFilesAssumption ==
    /\ RunSteps \in Nat \ {0} /\ MaxStep \in Nat
    /\ Growth \in Seq(Nat \X (Nat \ {0}))
    /\ \A p \in Policies : p.last \in Int
    /\ Encodings \subseteq {"f32", "f16", "q8", "q4"} \X {"f32", "f16", "q8", "q4"}

None == [kind |-> "none"]

\* -------------------------------------------------------------- configuration

\* GPTConfig's member initialisers.
Modern == [norm |-> "rms", pos |-> "rope", ffn |-> "swiglu", bias |-> FALSE, qk |-> TRUE,
           tied |-> TRUE, vocab |-> 4096, layers |-> 6, heads |-> 6, kv |-> 0,
           embd |-> 384, ctx |-> 256, hidden |-> 0, eps |-> 10]

HeadDim(g) == g.embd \div g.heads
KvHeads(g) == IF g.kv > 0 THEN g.kv ELSE g.heads
KvDim(g) == KvHeads(g) * HeadDim(g)
Hidden(g) ==
    IF g.hidden > 0 THEN g.hidden
    ELSE IF g.ffn = "swiglu" THEN (((g.embd * 8) \div 3 + 63) \div 64) * 64
    ELSE 4 * g.embd

Valid(g) ==
    /\ g.embd % g.heads = 0
    /\ g.layers > 0 /\ g.heads > 0 /\ g.embd > 0 /\ g.ctx > 0
    /\ g.kv > 0 => g.heads % g.kv = 0
    /\ g.pos = "rope" => HeadDim(g) % 2 = 0
    /\ g.vocab >= 260

\* Files written before the architecture upgrade have no version key, and then
\* the defaults are those of the old stack.
FromConfig(c) ==
    LET legacy == "layers" \in DOMAIN c /\ "version" \notin DOMAIN c
        base == IF legacy
                THEN [Modern EXCEPT !.norm = "layer", !.pos = "learned", !.ffn = "gelu",
                                    !.qk = FALSE]
                ELSE Modern
        read == [k \in DOMAIN base |-> IF k \in DOMAIN c THEN c[k] ELSE base[k]]
    IN  [read EXCEPT !.bias = IF "bias" \in DOMAIN c THEN c["bias"]
                              ELSE read.ffn = "gelu" /\ read.norm = "layer"]

\* What GPTConfig can hold, and so what is made of a configuration file.
Configurations ==
    [norm : {"rms", "layer"}, pos : {"rope", "learned"}, ffn : {"swiglu", "gelu"},
     bias : BOOLEAN, qk : BOOLEAN, tied : BOOLEAN, vocab : Int, layers : Int, heads : Int,
     kv : Int, embd : Int, ctx : Int, hidden : Int, eps : Int]

ASSUME ConfigsAssumption == \A c \in Configs : FromConfig(c) \in Configurations

\* Every key is written, the version included.
WriteTo(g) == [k \in DOMAIN g \cup {"version"} |-> IF k = "version" THEN 2 ELSE g[k]]

\* --------------------------------------------------------------- architecture

Vector(part, n) == <<[part |-> part, shape |-> <<n>>]>>
Matrix(part, in, out) == <<[part |-> part, shape |-> <<in, out>>]>>
When(condition, params) == IF condition THEN params ELSE <<>>

\* The parameters of one block, in the order the constructor registers them.
BlockParams(g) ==
    LET C == g.embd
        qkv == C + 2 * KvDim(g)
        layer == g.norm = "layer"
    IN  Vector("n1.g", C) \o When(layer, Vector("n1.b", C))
        \o Matrix("attn.qkv.w", C, qkv) \o When(g.bias, Vector("attn.qkv.b", qkv))
        \o When(g.qk, Vector("attn.qnorm.g", HeadDim(g)) \o Vector("attn.knorm.g", HeadDim(g)))
        \o Matrix("attn.proj.w", C, C) \o When(g.bias, Vector("attn.proj.b", C))
        \o Vector("n2.g", C) \o When(layer, Vector("n2.b", C))
        \o When(g.ffn = "swiglu", Matrix("mlp.gate.w", C, Hidden(g)))
        \o Matrix("mlp.up.w", C, Hidden(g))
        \o When(g.ffn = "gelu" /\ g.bias, Vector("mlp.up.b", Hidden(g)))
        \o Matrix("mlp.down.w", Hidden(g), C)
        \o When(g.ffn = "gelu" /\ g.bias, Vector("mlp.down.b", C))

\* A tensor's name is the block it is in, or Outside, and its part.
Outside == -1
InBlock(l, params) ==
    [i \in DOMAIN params |-> [name |-> <<l, params[i].part>>, shape |-> params[i].shape]]

\* The blocks, one after the other.
BlocksOf(g) ==
    LET upto[l \in 0..g.layers] ==
            IF l = 0 THEN <<>> ELSE upto[l - 1] \o InBlock(l - 1, BlockParams(g))
    IN  upto[g.layers]

\* What the constructor registers: name and shape, in order.
Registered(g) ==
    InBlock(Outside, Matrix("tok_emb", g.vocab, g.embd)
                     \o When(g.pos = "learned", Matrix("pos_emb", g.ctx, g.embd)))
    \o BlocksOf(g)
    \o InBlock(Outside, Vector("norm_f.g", g.embd)
                        \o When(g.norm = "layer", Vector("norm_f.b", g.embd))
                        \o When(~g.tied, Matrix("lm_head.w", g.embd, g.vocab)))

Numel(shape) == IF Len(shape) = 1 THEN shape[1] ELSE shape[1] * shape[2]
Names(params) == {params[i].name : i \in DOMAIN params}
Called(params, n) == params[CHOOSE i \in DOMAIN params : params[i].name = n]

\* The sums of the first 0, 1, ... of a sequence of numbers.
SumsOver(s) ==
    LET sum[k \in 0..Len(s)] == IF k = 0 THEN 0 ELSE sum[k - 1] + s[k]
    IN  sum

\* The count the configuration announces, from a formula of its own.
ParamCount(g) ==
    LET C == g.embd
        norms == IF g.norm = "rms" THEN C ELSE 2 * C
        block == 2 * norms + (IF g.qk THEN 2 * HeadDim(g) ELSE 0)
                 + C * (C + 2 * KvDim(g)) + C * C
                 + (IF g.bias THEN (C + 2 * KvDim(g)) + C ELSE 0)
                 + (IF g.ffn = "swiglu" THEN 3 * C * Hidden(g)
                    ELSE 2 * C * Hidden(g) + (IF g.bias THEN Hidden(g) + C ELSE 0))
    IN  g.vocab * C + (IF g.pos = "learned" THEN g.ctx * C ELSE 0)
        + g.layers * block + norms + (IF g.tied THEN 0 ELSE C * g.vocab)

\* ---------------------------------------------------------------------- model

\* A model: its configuration, the names in order_, and params_, a shape and a
\* value for each of them.
Model(g) ==
    LET reg == Registered(g)
    IN  [cfg |-> g, order |-> [i \in DOMAIN reg |-> reg[i].name],
         params |-> [n \in Names(reg) |-> [shape |-> Called(reg, n).shape, value |-> 1]]]

\* One more block, a copy of the last one whose residual outputs are zero. Its
\* tensors go to the end of order_, in the order grow_depth lists them.
Deepened(m) ==
    LET g == m.cfg
        parts == <<"n1.g", "attn.qkv.w", "attn.proj.w", "n2.g">>
                 \o When(g.norm # "rms", <<"n1.b", "n2.b">>)
                 \o When(g.qk, <<"attn.qnorm.g", "attn.knorm.g">>)
                 \o When(g.bias, <<"attn.qkv.b", "attn.proj.b">>)
                 \o When(g.ffn = "swiglu", <<"mlp.gate.w", "mlp.up.w", "mlp.down.w">>)
                 \o When(g.ffn # "swiglu", <<"mlp.up.w", "mlp.down.w">>)
                 \o When(g.ffn # "swiglu" /\ g.bias, <<"mlp.up.b", "mlp.down.b">>)
        fresh == {<<g.layers, parts[i]>> : i \in DOMAIN parts}
        from(name) == m.params[<<g.layers - 1, name[2]>>]
        silent == {"attn.proj.w", "mlp.down.w", "attn.proj.b", "mlp.down.b"}
    IN  [cfg |-> [g EXCEPT !.layers = @ + 1],
         order |-> m.order \o [i \in DOMAIN parts |-> <<g.layers, parts[i]>>],
         params |-> [n \in DOMAIN m.params \cup fresh |->
             IF n \notin fresh THEN m.params[n]
             ELSE IF n[2] \in silent THEN [from(n) EXCEPT !.value = 0] ELSE from(n)]]

\* Mutant: the schedule is read up to step s instead of at it.
MutBlocksAt(s) ==
    SumsOver([i \in 1..Len(Growth) |-> IF Growth[i][1] <= s THEN Growth[i][2] ELSE 0])[Len(Growth)]

\* The blocks the schedule adds at step s.
BlocksAt(s) ==
    SumsOver([i \in 1..Len(Growth) |-> IF Growth[i][1] = s THEN Growth[i][2] ELSE 0])[Len(Growth)]
GrownAt(m, s) ==
    LET grown[k \in 0..BlocksAt(s)] == IF k = 0 THEN m ELSE Deepened(grown[k - 1])
    IN  grown[BlocksAt(s)]

\* recompute_trainable: the names a policy leaves open.
Trainable(m, p) ==
    {n \in ToSet(m.order) :
        CASE n[2] \in {"tok_emb", "pos_emb"} -> p.embeddings
          [] n[2] = "lm_head.w" -> p.head
          [] n[2] \in {"norm_f.g", "norm_f.b"} -> p.final
          [] OTHER -> p.last < 0 \/ n[1] >= m.cfg.layers - p.last}
AllOpen == [last |-> -1, embeddings |-> TRUE, head |-> TRUE, final |-> TRUE]

\* An optimiser step moves the tensors it was given, whatever the policy is now.
Moved(m, names) ==
    [m EXCEPT !.params = [n \in DOMAIN m.params |->
        IF n \in names THEN [m.params[n] EXCEPT !.value = @ + 1] ELSE m.params[n]]]

\* load_params: every tensor of the model is looked up by name; one that is
\* missing or has another size is refused.
Loadable(m, params) ==
    \A n \in DOMAIN m.params :
        n \in DOMAIN params /\ Numel(params[n].shape) = Numel(m.params[n].shape)
LoadParams(m, params) ==
    [m EXCEPT !.params = [n \in DOMAIN @ |-> [@[n] EXCEPT !.value = params[n].value]]]

\* The names the coordinator merges, in the model's order: all that any of the
\* trainers moves. FlatSpec lays their tensors out one after the other.
MergeSpace(m) ==
    LET first[k \in 0..Len(m.order)] ==
            IF k = 0 THEN <<>>
            ELSE IF \E p \in Policies : m.order[k] \in Trainable(m, p)
            THEN Append(first[k - 1], m.order[k]) ELSE first[k - 1]
    IN  first[Len(m.order)]
FlatOffsets(params, names) == SumsOver([k \in 1..Len(names) |-> Numel(params[names[k]].shape)])

\* gather and scatter; a slice of the flat vector is told by where it starts.
Gather(params, names) ==
    LET offs == FlatOffsets(params, names)
        at(o) == names[CHOOSE k \in 1..Len(names) : offs[k - 1] = o]
    IN  [o \in {offs[k - 1] : k \in 1..Len(names)} |-> params[at(o)].value]
Scatter(flat, params, names) ==
    LET offs == FlatOffsets(params, names)
        slice(n) == offs[(CHOOSE k \in 1..Len(names) : names[k] = n) - 1]
    IN  [n \in DOMAIN params |->
            IF n \in ToSet(names) THEN [params[n] EXCEPT !.value = flat[slice(n)]] ELSE params[n]]

\* ---------------------------------------------------------------- checkpoints

\* A checkpoint: the header, which counts the tensors, then the tensors in order_.
Checkpoint(m, s) ==
    [kind |-> "checkpoint", meta |-> WriteTo(m.cfg), step |-> s, header |-> TRUE,
     count |-> Len(m.order), params |-> m.params]

\* The file a crash leaves: k complete tensors, or (k < 0) not even the header.
TornAt(m, s, k) ==
    LET kept == {m.order[i] : i \in 1..(IF k < 0 THEN 0 ELSE k)}
    IN  [Checkpoint(m, s) EXCEPT !.header = k >= 0,
                                 !.params = [n \in kept |-> m.params[n]]]

\* Mutant: the tensors that are there are taken, whatever the header announces.
MutIntact(f) == f.kind = "checkpoint" /\ f.header

\* load_checkpoint succeeds: the header and as many tensors as it announces.
Intact(f) == f.kind = "checkpoint" /\ f.header /\ Cardinality(DOMAIN f.params) = f.count

\* ---------------------------------------------------------------------- packs

Group == 64  \* kQBlock, and kAlign
AlignUp(x) == ((x + Group - 1) \div Group) * Group
Quantised(t) == t \in {"q4", "q8"}
PickType(want, k) == IF Quantised(want) /\ k % Group # 0 THEN "f16" ELSE want
RowBytes(t, k) ==
    CASE t = "f32" -> 4 * k
      [] t = "f16" -> 2 * k
      [] t = "q8" -> k + (k \div Group) * 2
      [] t = "q4" -> (k \div 2) + (k \div Group) * 2

\* add_1d, add_2d: a stored tensor is `rows` rows of `cols` values, the transpose
\* of the training layout where the product runs along its columns.
Stored(name, type, rows, cols, transposed) ==
    [name |-> name, type |-> type, rows |-> rows, cols |-> cols,
     transposed |-> transposed, bytes |-> rows * RowBytes(type, cols)]
PlanRow(name, n) == <<Stored(name, "f32", 1, n, FALSE)>>
PlanRows(name, out, in, want, transposed) ==
    <<Stored(name, PickType(want, in), out, in, transposed)>>

PlanBlock(g, l, body) ==
    LET C == g.embd
        qkv == C + 2 * KvDim(g)
        H == Hidden(g)
        layer == g.norm # "rms"
    IN  PlanRow(<<l, "n1.g">>, C) \o When(layer, PlanRow(<<l, "n1.b">>, C))
        \o PlanRows(<<l, "attn.qkv.w">>, qkv, C, body, TRUE)
        \o When(g.bias, PlanRow(<<l, "attn.qkv.b">>, qkv))
        \o When(g.qk, PlanRow(<<l, "attn.qnorm.g">>, HeadDim(g)) \o PlanRow(<<l, "attn.knorm.g">>, HeadDim(g)))
        \o PlanRows(<<l, "attn.proj.w">>, C, C, body, TRUE)
        \o When(g.bias, PlanRow(<<l, "attn.proj.b">>, C))
        \o PlanRow(<<l, "n2.g">>, C) \o When(layer, PlanRow(<<l, "n2.b">>, C))
        \o When(g.ffn = "swiglu", PlanRows(<<l, "mlp.gate.w">>, H, C, body, TRUE))
        \o PlanRows(<<l, "mlp.up.w">>, H, C, body, TRUE)
        \o When(g.ffn # "swiglu" /\ g.bias, PlanRow(<<l, "mlp.up.b">>, H))
        \o PlanRows(<<l, "mlp.down.w">>, C, H, body, TRUE)
        \o When(g.ffn # "swiglu" /\ g.bias, PlanRow(<<l, "mlp.down.b">>, C))

PlanBlocks(g, body) ==
    LET upto[l \in 0..g.layers] ==
            IF l = 0 THEN <<>> ELSE upto[l - 1] \o PlanBlock(g, l - 1, body)
    IN  upto[g.layers]

\* build_plan: written beside the constructor, and meant to mirror it.
BuildPlan(g, enc) ==
    PlanRows(<<Outside, "tok_emb">>, g.vocab, g.embd, enc[2], FALSE)
    \o When(g.pos = "learned", PlanRows(<<Outside, "pos_emb">>, g.ctx, g.embd, "f32", FALSE))
    \o PlanBlocks(g, enc[1])
    \o PlanRow(<<Outside, "norm_f.g">>, g.embd)
    \o When(g.norm # "rms", PlanRow(<<Outside, "norm_f.b">>, g.embd))
    \o When(~g.tied, PlanRows(<<Outside, "lm_head.w">>, g.vocab, g.embd, enc[2], TRUE))

\* Magic, header text and directory, one entry a tensor; the length of a name and
\* of the text are abstracted to a constant each.
NameBytes == 16
TextBytes == 700
DirectoryBytes(plan) ==
    SumsOver([i \in DOMAIN plan |->
        2 + NameBytes + 2 + 8 * (IF plan[i].rows = 1 THEN 1 ELSE 2) + 16])[Len(plan)]
PayloadOffset(plan) == AlignUp(24 + TextBytes + DirectoryBytes(plan))

\* Mutant: the tensors follow one another unaligned.
MutOffsets(plan) ==
    LET off[k \in 0..Len(plan)] ==
            IF k = 0 THEN PayloadOffset(plan) ELSE off[k - 1] + plan[k].bytes
    IN  off

\* finalise_offsets: where each tensor starts, and at last the end of the file.
Offsets(plan) ==
    LET off[k \in 0..Len(plan)] ==
            IF k = 0 THEN PayloadOffset(plan) ELSE AlignUp(off[k - 1] + plan[k].bytes)
    IN  off

\* qpack_from_params checks the snapshot against the plan before it writes.
Packable(plan, params) ==
    \A i \in DOMAIN plan :
        /\ plan[i].name \in DOMAIN params
        /\ Numel(params[plan[i].name].shape) = plan[i].rows * plan[i].cols

\* qpack_from_checkpoint: depth, vocabulary and width are those of the tensors.
PackConfig(f) ==
    LET g == FromConfig(f.meta)
        blocks == {n[1] + 1 : n \in DOMAIN f.params} \ {0}
        emb == <<Outside, "tok_emb">>
        deep == IF blocks = {} THEN g
                ELSE [g EXCEPT !.layers = CHOOSE n \in blocks : \A m \in blocks : m <= n]
    IN  IF emb \notin DOMAIN f.params THEN deep
        ELSE [deep EXCEPT !.vocab = f.params[emb].shape[1], !.embd = f.params[emb].shape[2]]

\* The packed file, as long as it would be: size is what has been written of it.
PackOf(g, enc, params) ==
    LET plan == BuildPlan(g, enc)
        offs == Offsets(plan)
    IN  [kind |-> "pack", meta |-> WriteTo(g), enc |-> enc, size |-> offs[Len(plan)],
         directory |-> [i \in DOMAIN plan |->
             [name |-> plan[i].name, type |-> plan[i].type, rows |-> plan[i].rows,
              cols |-> plan[i].cols, offset |-> offs[i - 1], bytes |-> plan[i].bytes,
              value |-> params[plan[i].name].value]]]

\* Where a write of it may stop: in the directory, before the first row, one byte
\* short of a tensor (the first, one in the middle, the last), at its end, and
\* behind the padding after the last.
CutsOf(whole) ==
    LET d == whole.directory
        some == {1, Len(d) \div 2, Len(d)}
    IN  {24, 24 + TextBytes, d[1].offset, whole.size}
        \cup {d[i].offset + d[i].bytes - short : i \in some, short \in {0, 1}}

\* QModel::open. The header and the directory must be there, every tensor inside
\* the file, and the tensors those of the plan rebuilt from the header.
PackOpens(pack) ==
    LET d == pack.directory
        plan == BuildPlan(FromConfig(pack.meta), pack.enc)
    IN  /\ pack.size >= 24 + TextBytes + DirectoryBytes(plan)
        /\ \A i \in DOMAIN d : d[i].offset + d[i].bytes <= pack.size
        /\ \A i \in DOMAIN plan : \E j \in DOMAIN d :
               <<d[j].name, d[j].rows, d[j].cols, d[j].type>>
               = <<plan[i].name, plan[i].rows, plan[i].cols, plan[i].type>>
        /\ Len(plan) = Cardinality(Names(d))

\* ------------------------------------------------------------- state and steps

VARIABLES
    work,       \* what runs: "idle", "training", "saving", "trainer" or "packed"
    model,      \* the model of the program that runs
    optimiser,  \* the names the optimiser was given
    policy,     \* the freeze policy of the model
    step, stop, \* steps taken, and where the run ends
    ckpt,       \* the checkpoint file
    pack,       \* the packed file
    depth,      \* history: the depth the first run started with
    saved       \* history: the model the last complete save wrote

fvars == <<work, model, optimiser, policy, step, stop, ckpt, pack, depth, saved>>

FilesInit ==
    /\ work = "idle" /\ model = None /\ optimiser = {} /\ policy = AllOpen
    /\ step = 0 /\ stop = 0 /\ ckpt = None /\ pack = None /\ depth = 0 /\ saved = None

Begin(m, p, kind) ==
    /\ work = "idle" /\ work' = kind
    /\ model' = m /\ policy' = p /\ optimiser' = Trainable(m, p)

\* cmd_pretrain without --resume, from a configuration file.
Pretrain(c) ==
    LET g == FromConfig(c)
    IN  /\ Valid(g)
        /\ Begin(Model(g), AllOpen, "training")
        /\ step' = 0 /\ stop' = RunSteps /\ depth' = g.layers
        /\ ckpt' = None /\ pack' = None /\ saved' = None

\* The model a checkpoint gives: its own configuration, not the file's of the run.
Restored(f) ==
    LET g == FromConfig(f.meta)
    IN  LoadParams(Model(g), f.params)
Restorable(f) == Intact(f) /\ Loadable(Model(FromConfig(f.meta)), f.params)

\* cmd_pretrain --resume: a file that cannot be loaded ends the program.
Resume ==
    /\ Restorable(ckpt) /\ ckpt.step <= MaxStep
    /\ Begin(Restored(ckpt), AllOpen, "training")
    /\ step' = ckpt.step /\ stop' = ckpt.step + RunSteps
    /\ UNCHANGED <<ckpt, pack, depth, saved>>

\* One pass of the loop: the growth of this step, which gives the optimiser the
\* new parameters, then the optimiser's step unless the gradient is a spike, then,
\* every save_every steps and at the end, a save.
Iterate ==
    /\ work = "training" /\ step < stop
    /\ LET grown == GrownAt(model, step)
           names == IF BlocksAt(step) > 0 THEN Trainable(grown, AllOpen) ELSE optimiser
       IN  /\ optimiser' = names
           /\ model' = IF step \in Spikes THEN grown ELSE Moved(grown, names)
    /\ step' = step + 1
    /\ work' \in IF step' = stop THEN {"saving"} ELSE {"training", "saving"}
    /\ UNCHANGED <<policy, stop, ckpt, pack, depth, saved>>

\* save_checkpoint, in place.
Save ==
    /\ work = "saving"
    /\ ckpt' = Checkpoint(model, step) /\ saved' = model
    /\ work' = "training"
    /\ UNCHANGED <<model, optimiser, policy, step, stop, pack, depth>>

\* The program stops inside a save (and Quit follows), or a save fails: the loop
\* looks at the result of the last one only.
TornSave ==
    /\ work = "saving"
    /\ \E k \in {-1, 0, Len(model.order) - 1} : ckpt' = TornAt(model, step, k)
    /\ saved' = None
    /\ work' = "training"
    /\ UNCHANGED <<model, optimiser, policy, step, stop, pack, depth>>

\* A trainer on the checkpoint: its policy is set, then the parameters loaded.
Tune(p) ==
    /\ Restorable(ckpt)
    /\ Begin(Restored(ckpt), p, "trainer")
    /\ step' = 0 /\ stop' = 1
    /\ UNCHANGED <<ckpt, pack, depth, saved>>
TuneStep ==
    /\ work = "trainer" /\ step < stop
    /\ model' = Moved(model, optimiser) /\ step' = step + 1
    /\ UNCHANGED <<work, optimiser, policy, stop, ckpt, pack, depth, saved>>

\* The end of a run, wanted or not: what is in memory is gone. A pack is not
\* followed any further, the next one is written anew.
Quit ==
    /\ work # "idle" /\ work' = "idle"
    /\ model' = None /\ pack' = None
    /\ optimiser' = {} /\ policy' = AllOpen /\ step' = 0 /\ stop' = 0
    /\ UNCHANGED <<ckpt, depth, saved>>

\* qpack_from_checkpoint, complete or stopped at a cut.
Pack(enc) ==
    /\ work = "idle" /\ Intact(ckpt)
    /\ LET g == PackConfig(ckpt)
       IN  /\ Packable(BuildPlan(g, enc), ckpt.params)
           /\ LET whole == PackOf(g, enc, ckpt.params)
              IN  \E cut \in CutsOf(whole) : pack' = [whole EXCEPT !.size = cut]
    /\ work' = "packed"
    /\ UNCHANGED <<model, optimiser, policy, step, stop, ckpt, depth, saved>>

FilesNext ==
    \/ \E c \in Configs : Pretrain(c)
    \/ Resume \/ Iterate \/ Save \/ TornSave \/ Quit
    \/ \E p \in Policies : Tune(p)
    \/ TuneStep
    \/ \E enc \in Encodings : Pack(enc)

FilesSpec == FilesInit /\ [][FilesNext]_fvars

\* ------------------------------------------------------------------ properties

\* A grown model is the model its configuration builds: the same tensors, each
\* once, in the same shapes.  The two lists are written apart (GPT::GPT, grow_depth).
GrownIsBuilt ==
    work \in {"training", "saving", "trainer"} =>
        LET built == Model(model.cfg)
        IN  /\ Len(model.order) = Len(built.order)
            /\ ToSet(model.order) = ToSet(built.order)
            /\ \A n \in ToSet(built.order) : model.params[n].shape = built.params[n].shape

\* What the schedule adds before step s.
BlocksBefore(s) ==
    SumsOver([i \in 1..Len(Growth) |-> IF Growth[i][1] < s THEN Growth[i][2] ELSE 0])[Len(Growth)]

\* However often the run was stopped and resumed, the depth is the one the
\* schedule gives for the step reached, no block added twice and none lost, and
\* the optimiser moves every block there is.
DepthOnSchedule ==
    work \in {"training", "saving"} =>
        /\ model.cfg.layers = depth + BlocksBefore(step)
        /\ optimiser = ToSet(model.order)

\* The checkpoint can be read exactly when the last save of it was complete, and
\* then it gives back the model that was saved, with its configuration, wherever
\* growth put its tensors in the file.
SavedIsRestored ==
    /\ Intact(ckpt) <=> saved # None
    /\ Intact(ckpt) => /\ Restorable(ckpt)
                       /\ Restored(ckpt).cfg = saved.cfg
                       /\ Restored(ckpt).params = saved.params

\* A trainer moves no tensor its policy froze, and what it reports in the flat
\* space of the merge, put back over the snapshot it started from, is its model.
FrozenStay ==
    work = "trainer" =>
        LET space == MergeSpace(model)
        IN  /\ \A n \in DOMAIN model.params \ Trainable(model, policy) :
                  model.params[n].value = ckpt.params[n].value
            /\ Scatter(Gather(model.params, space), ckpt.params, space) = model.params

\* A model is the one its configuration, its schedule and its checkpoint make it,
\* through growth, stops, torn saves and trainers.
ModelsSurvive == GrownIsBuilt /\ DepthOnSchedule /\ SavedIsRestored /\ FrozenStay

\* The model has as many parameters as its configuration announces (param_count,
\* a formula of its own).
CountsAnnounced ==
    work \in {"training", "saving", "trainer"} =>
        SumsOver([i \in 1..Len(model.order) |-> Numel(model.params[model.order[i]].shape)])
                [Len(model.order)]
        = ParamCount(model.cfg)

\* The packer's plan mirrors the constructor, as its comment says: the same
\* tensors, a transposed one exactly where the training layout is the transpose.
PlanMirrors ==
    pack.kind = "pack" =>
        LET g == FromConfig(pack.meta)
            reg == Registered(g)
            plan == BuildPlan(g, pack.enc)
        IN  /\ Len(plan) = Len(reg)
            /\ \A i \in DOMAIN plan : \E j \in DOMAIN reg :
                  LET e == plan[i]
                  IN  /\ reg[j].name = e.name
                      /\ reg[j].shape = IF Len(reg[j].shape) = 1 THEN <<e.cols>>
                                        ELSE IF e.transposed THEN <<e.cols, e.rows>>
                                        ELSE <<e.rows, e.cols>>

\* The packed file is of the model that was saved: its configuration, though it is
\* told from the tensors, and the values of its tensors.
PackedAsSaved ==
    pack.kind = "pack" =>
        /\ pack.meta = WriteTo(saved.cfg)
        /\ \A i \in DOMAIN pack.directory :
              pack.directory[i].value = saved.params[pack.directory[i].name].value

\* Tensors lie aligned, one after the other, behind the directory, and the file is
\* opened exactly when every one of them was written in full.
PackLaidOut ==
    pack.kind = "pack" =>
        LET d == pack.directory
            n == Len(d)
        IN  /\ d[1].offset >= 24 + TextBytes + DirectoryBytes(d)
            /\ \A i \in 1..n : d[i].offset % Group = 0
            /\ \A i \in 1..(n - 1) : d[i + 1].offset >= d[i].offset + d[i].bytes
            /\ PackOpens(pack) <=> pack.size >= d[n].offset + d[n].bytes

\* What is written apart agrees: the constructor, param_count, the packer's plan and
\* the offsets.
FilesAgree == CountsAnnounced /\ PlanMirrors /\ PackedAsSaved /\ PackLaidOut

\* A model comes back from its files as it was saved, and what the files hold is what
\* its configuration asks for (GPT, checkpoints, cmd_pretrain, trainers, packs).
FilesSound == ModelsSurvive /\ FilesAgree
=============================================================================
