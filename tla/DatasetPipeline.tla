--------------------------- MODULE DatasetPipeline ---------------------------
(***************************************************************************)
(* The workflow behind a dataset job                                       *)
(* (src/app/datasets/sharding.py, datasets_workflow_template.yaml and      *)
(* src/app/standalone/datasets_download_argo.py): a plan of shards, one    *)
(* download pod per shard beside a pod that reports the progress of all,   *)
(* then a combine pod that copies the shards' rows into the final dataset  *)
(* and removes them.  Symbols are numbered in their sorted order; a        *)
(* parquet file is the set of symbols it has rows of, {} when there is no  *)
(* file.                                                                   *)
(***************************************************************************)
EXTENDS Integers, FiniteSetsExt

CONSTANTS
    Requests,    \* the requests whose workflow is run
    PlanInputs,  \* the requests whose plan alone is looked at
    Absent,
    Retries,     \* bound: retryStrategy.limit of every template, 3 in the code
    MaxKills,    \* bound: pods killed
    ByHand       \* somebody runs combine-shards by the command the pod printed

Request == [symbols : Nat, units : Nat, options : BOOLEAN,
            limit : Nat \ {0}, maxShards : Nat \ {0}, target : Nat]

ASSUME DatasetPipelineAssumption ==
    /\ Requests \subseteq Request /\ PlanInputs \subseteq Request
    /\ Retries \in Nat /\ MaxKills \in Nat
    /\ ByHand \in BOOLEAN
    /\ Absent \notin Int

Kind == {"market", "options"}
Combiner == {"step", "hand"}
TotalPct == 100                      \* ARGO_PROGRESS_TOTAL

AtLeast1(n) == Max({1, n})
CeilDiv(m, n) == (m + n - 1) \div n

-----------------------------------------------------------------------------
(* The plan.                                                               *)

\* Mutant: the work alone decides, not the number of symbols a shard may have.
ShardCountByWork(r) ==
    AtLeast1(Min({r.symbols, r.maxShards,
                  CeilDiv(r.symbols * r.units, AtLeast1(r.target))}))

\* estimate_dataset_shard_count.
ShardCount(r) ==
    AtLeast1(Min({r.symbols, r.maxShards,
                  Max({CeilDiv(r.symbols * r.units, AtLeast1(r.target)),
                       CeilDiv(r.symbols, AtLeast1(r.limit))})}))

\* Mutant: the parts of a group overlap by one.
ShardOfOverlapping(r, g, c) ==
    {s \in 1..r.symbols :
        /\ (s - 1) % ShardCount(r) = g - 1
        /\ ((s - 1) \div ShardCount(r)) \in c * r.limit .. (c + 1) * r.limit}

\* _build_symbol_groups deals the symbols round (every symbol weighs the
\* same); _split_groups_to_symbol_limit cuts a group into parts.
ShardOf(r, g, c) ==
    {s \in 1..r.symbols :
        /\ (s - 1) % ShardCount(r) = g - 1
        /\ ((s - 1) \div ShardCount(r)) \div AtLeast1(r.limit) = c}

\* A shard is named by its group and its part of the group.
ShardNames(r) ==
    {x \in (1..ShardCount(r)) \X (0..r.symbols) : ShardOf(r, x[1], x[2]) # {}}

\* build_dataset_shard_plan; it raises a ValueError when not PlanFits.
PlanOf(r) == [x \in ShardNames(r) |-> ShardOf(r, x[1], x[2])]

PlanFits(r) == Cardinality(ShardNames(r)) <= r.maxShards

-----------------------------------------------------------------------------
VARIABLES
    request,
    shards,     \* the plan of the shards, once it is written
    node,       \* [step of the workflow |-> its state], downloads apart
    download,   \* [shard |-> the state of its download]
    tries,      \* [step |-> its attempts that failed]
    misses,     \* [shard |-> its attempts that failed]
    file,       \* [Kind -> [shard |-> symbols]], market.parquet, options.parquet
    progress,   \* [shard |-> its progress file]
    combined,   \* the combine progress file
    output,     \* [Kind -> symbols], the final parquet
    manifest,   \* [Kind -> symbols], what its manifest names, {} without one
    job,        \* [Combiner -> where it stands]
    kills

final == <<combined, output, manifest>>
source == <<file, progress>>
steps == <<node, download, tries, misses>>
vars == <<request, shards, steps, source, final, job, kills>>

Step == {"plan", "aggregate", "combine"}
StepState == {"waiting", "running", "succeeded", "failed"}
Stage == {"idle", "read", "manifest", "cleanup", "done", "failed"}
All == 1..request.symbols

TypeOK ==
    /\ request \in Requests
    /\ shards \in {<<>>, PlanOf(request)}
    /\ node \in [Step -> StepState]
    /\ download \in [DOMAIN shards -> {"running", "succeeded", "failed"}]
    /\ tries \in [Step -> 0..Retries + 1]
    /\ misses \in [DOMAIN shards -> 0..Retries + 1]
    /\ file \in [Kind -> [DOMAIN shards -> SUBSET All]]
    /\ progress \in [DOMAIN shards -> 0..TotalPct \cup {Absent}]
    /\ combined \in 0..TotalPct
    /\ output \in [Kind -> SUBSET All] /\ manifest \in [Kind -> SUBSET All]
    /\ job \in [Combiner -> [at : Stage, kind : Kind, todo : SUBSET DOMAIN shards,
                             rows : SUBSET All, copied : Nat]]
    /\ kills \in 0..MaxKills

Idle == [at |-> "idle", kind |-> "market", todo |-> {}, rows |-> {}, copied |-> 0]

Init ==
    /\ request \in Requests
    /\ shards = <<>> /\ download = <<>> /\ misses = <<>> /\ progress = <<>>
    /\ node = [n \in Step |-> IF n = "plan" THEN "running" ELSE "waiting"]
    /\ tries = [n \in Step |-> 0]
    /\ file = [k \in Kind |-> <<>>]
    /\ combined = 0
    /\ output = [k \in Kind |-> {}] /\ manifest = [k \in Kind |-> {}]
    /\ job = [c \in Combiner |-> Idle]
    /\ kills = 0

\* plan-shards, and the group of steps that follows it.
Plan ==
    /\ node["plan"] = "running" /\ PlanFits(request)
    /\ node' = [node EXCEPT !["plan"] = "succeeded", !["aggregate"] = "running"]
    /\ shards' = PlanOf(request)
    /\ download' = [x \in ShardNames(request) |-> "running"]
    /\ misses' = [x \in ShardNames(request) |-> 0]
    /\ file' = [k \in Kind |-> [x \in ShardNames(request) |-> {}]]
    /\ progress' = [x \in ShardNames(request) |-> Absent]
    /\ UNCHANGED <<request, tries, final, job, kills>>

\* Every attempt fails alike.
PlanFails ==
    /\ node["plan"] = "running" /\ ~ PlanFits(request)
    /\ node' = [node EXCEPT !["plan"] = "failed"]
    /\ UNCHANGED <<request, shards, download, tries, misses, source, final, job, kills>>

\* A failed attempt of a step or of a download: again, or its end.
Attempts(x, state, count) ==
    /\ count' = [count EXCEPT ![x] = @ + 1]
    /\ state' = [state EXCEPT ![x] = IF count[x] < Retries THEN @ ELSE "failed"]

Kill ==
    /\ kills < MaxKills
    /\ kills' = kills + 1

-----------------------------------------------------------------------------
(* download-shard, one attempt at a time: nobody reads a shard's file       *)
(* before its download has ended.                                          *)

ShardUnits(x) == AtLeast1(Cardinality(shards[x]) * request.units)

\* Mutant: the units themselves are written, as if they were per cent.
WrittenUnits(x, n) == Min({ShardUnits(x), n * AtLeast1(request.units)})

\* What a shard that is through with n of its symbols has written as progress.
Written(x, n) == Min({TotalPct, ShardUnits(x), n * AtLeast1(request.units)})

\* An empty writer has made no file: an older one stays.
Replace(x, m, o) ==
    file' = [file EXCEPT !["market"][x] = IF m = {} THEN @ ELSE m,
                         !["options"][x] = IF o = {} THEN @ ELSE o]

OptionsOf(m) == IF request.options THEN SUBSET m ELSE {{}}

\* Symbols the provider does not know are skipped, but one must be left, and
\* one with options where those are asked for.
DownloadOk(x) ==
    /\ download[x] = "running"
    /\ \E m \in SUBSET shards[x] \ {{}} : \E o \in OptionsOf(m) :
        /\ request.options => o # {}
        /\ Replace(x, m, o)
    /\ progress' = [progress EXCEPT ![x] = Min({TotalPct, ShardUnits(x)})]
    /\ download' = [download EXCEPT ![x] = "succeeded"]
    /\ UNCHANGED <<request, shards, node, tries, misses, final, job, kills>>

\* The finally block puts what was written in place after an error too.
DownloadError(x) ==
    /\ download[x] = "running"
    /\ \E m \in SUBSET shards[x] : \E o \in OptionsOf(m) : Replace(x, m, o)
    /\ \E n \in 0..Cardinality(shards[x]) - 1 : progress' = [progress EXCEPT ![x] = Written(x, n)]
    /\ Attempts(x, download, misses)
    /\ UNCHANGED <<request, shards, node, tries, final, job, kills>>

\* The pod goes before, or between, the two replacements.
DownloadKilled(x) ==
    /\ download[x] = "running"
    /\ Kill
    /\ \E m \in SUBSET shards[x] : Replace(x, m, {})
    /\ \E n \in 0..Cardinality(shards[x]) : progress' = [progress EXCEPT ![x] = Written(x, n)]
    /\ Attempts(x, download, misses)
    /\ UNCHANGED <<request, shards, node, tries, final, job>>

Downloaded == \A x \in DOMAIN shards : download[x] # "running"

-----------------------------------------------------------------------------
(* aggregate-progress.                                                     *)

\* Mutant: the options files are waited for whether or not they were asked for.
CompleteWithOptions == \A k \in Kind : output[k] # {} /\ manifest[k] # {}

\* _aggregate_progress_complete.
Complete ==
    \A k \in IF request.options THEN Kind ELSE {"market"} :
        output[k] # {} /\ manifest[k] # {}

\* _shard_progress_fraction, in hundredths.
ShardPct(x) ==
    IF progress[x] # Absent THEN progress[x]
    ELSE IF Complete THEN TotalPct ELSE 0

CombinePct ==
    IF combined > 0 THEN combined
    ELSE IF output["market"] # {} /\ manifest["market"] # {} THEN TotalPct ELSE 0

CombineUnits == AtLeast1(Cardinality(DOMAIN shards))

\* The percentage of _aggregate_progress_pct rounds to 100: it is 99.5 or more.
PctIs100 ==
    LET units == MapThenSumSet(ShardUnits, DOMAIN shards) + CombineUnits
        Done(x) == ShardPct(x) * ShardUnits(x)
    IN 2 * (MapThenSumSet(Done, DOMAIN shards) + CombinePct * CombineUnits)
         >= (2 * TotalPct - 1) * units

\* The loop of the step ends here alone.
AggregateEnds ==
    /\ node["aggregate"] = "running"
    /\ PctIs100 /\ Complete
    /\ node' = [node EXCEPT !["aggregate"] = "succeeded"]
    /\ UNCHANGED <<request, shards, download, tries, misses, source, final, job, kills>>

AggregateKilled ==
    /\ node["aggregate"] = "running"
    /\ Kill
    /\ Attempts("aggregate", node, tries)
    /\ UNCHANGED <<request, shards, download, misses, source, final, job>>

-----------------------------------------------------------------------------
(* combine-shards, by the workflow's step or by hand.                      *)

Begin(c) ==
    job' = [job EXCEPT ![c] = [Idle EXCEPT !.at = "read", !.todo = DOMAIN shards]]

\* The step follows the group of the downloads and the progress; no dataset
\* of an earlier attempt keeps it from starting over.
CombineStarts ==
    /\ Downloaded /\ node["aggregate"] = "succeeded"
    /\ node["combine"] \in {"waiting", "running"} /\ job["step"].at = "idle"
    /\ node' = [node EXCEPT !["combine"] = "running"]
    /\ Begin("step")
    /\ combined' = 0
    /\ UNCHANGED <<request, shards, download, tries, misses, source, output, manifest, kills>>

CombineByHand ==
    /\ ByHand
    /\ node["plan"] = "succeeded" /\ Downloaded
    /\ job["hand"].at = "idle"
    /\ Begin("hand")
    /\ combined' = 0
    /\ UNCHANGED <<request, shards, steps, source, output, manifest, kills>>

\* The shards are in the plan's order.
First(names) ==
    CHOOSE x \in names : \A y \in names :
        x[1] < y[1] \/ (x[1] = y[1] /\ x[2] <= y[2])

\* A shard's rows are copied; a shard without a file is skipped.
CombineReads(c) ==
    LET j == job[c]
        x == First(j.todo)
        rows == file[j.kind][x]
        copied == IF rows = {} THEN j.copied ELSE j.copied + 1
    IN
    /\ j.at = "read" /\ j.todo # {}
    /\ job' = [job EXCEPT ![c].todo = @ \ {x}, ![c].rows = @ \cup rows, ![c].copied = copied]
    /\ combined' = IF rows = {} THEN combined ELSE Min({TotalPct, copied})
    /\ UNCHANGED <<request, shards, steps, source, output, manifest, kills>>

CombineReplaces(c) ==
    LET j == job[c] IN
    /\ j.at = "read" /\ j.todo = {} /\ j.rows # {}
    /\ output' = [output EXCEPT ![j.kind] = j.rows]
    /\ job' = [job EXCEPT ![c].at = "manifest"]
    /\ UNCHANGED <<request, shards, steps, source, combined, manifest, kills>>

\* Mutant: the shards are removed as soon as the market dataset is written.
AfterManifestCleanup(j) == [j EXCEPT !.at = "cleanup", !.todo = DOMAIN shards]

\* combine_shards_command: the options after the market, then the cleanup.
AfterManifest(j) ==
    IF j.kind = "market" /\ request.options
    THEN [Idle EXCEPT !.at = "read", !.kind = "options", !.todo = DOMAIN shards]
    ELSE [j EXCEPT !.at = "cleanup", !.todo = DOMAIN shards]

\* Mutant: a manifest that exists is kept.
NewManifestOnce(j) == IF manifest[j.kind] = {} THEN j.rows ELSE manifest[j.kind]

NewManifest(j) == j.rows

\* The manifest, the last word on the progress, and the next kind, whose
\* progress begins at 0.
CombineWritesManifest(c) ==
    LET j == job[c]
        next == AfterManifest(j)
    IN
    /\ j.at = "manifest"
    /\ manifest' = [manifest EXCEPT ![j.kind] = NewManifest(j)]
    /\ job' = [job EXCEPT ![c] = next]
    /\ combined' = IF next.at = "read" THEN 0 ELSE Min({TotalPct, AtLeast1(j.copied)})
    /\ UNCHANGED <<request, shards, steps, source, output, kills>>

\* _cleanup_shard_artifacts: one directory, with its progress file, at a time.
CombineCleans(c) ==
    LET x == First(job[c].todo) IN
    /\ job[c].at = "cleanup" /\ job[c].todo # {}
    /\ file' = [k \in Kind |-> [file[k] EXCEPT ![x] = {}]]
    /\ progress' = [progress EXCEPT ![x] = Absent]
    /\ job' = [job EXCEPT ![c].todo = @ \ {x}]
    /\ UNCHANGED <<request, shards, steps, final, kills>>

CombineEnds(c) ==
    /\ job[c].at = "cleanup" /\ job[c].todo = {}
    /\ job' = [job EXCEPT ![c].at = "done"]
    /\ node' = IF c = "step" THEN [node EXCEPT !["combine"] = "succeeded"] ELSE node
    /\ UNCHANGED <<request, shards, download, tries, misses, source, final, kills>>

AttemptEnds(c) ==
    IF c = "step"
    THEN Attempts("combine", node, tries) /\ job' = [job EXCEPT ![c] = Idle]
    ELSE job' = [job EXCEPT ![c].at = "failed"] /\ UNCHANGED <<node, tries>>

\* "No rows were combined".
CombineFindsNothing(c) ==
    /\ job[c].at = "read" /\ job[c].todo = {} /\ job[c].rows = {}
    /\ AttemptEnds(c)
    /\ combined' = 1
    /\ UNCHANGED <<request, shards, download, misses, source, output, manifest, kills>>

CombineKilled(c) ==
    /\ job[c].at \in {"read", "manifest", "cleanup"}
    /\ Kill
    /\ AttemptEnds(c)
    /\ UNCHANGED <<request, shards, download, misses, source, final>>

Work ==
    \/ Plan \/ PlanFails
    \/ \E x \in DOMAIN shards : DownloadOk(x) \/ DownloadError(x)
    \/ AggregateEnds
    \/ CombineStarts
    \/ \E c \in Combiner :
          \/ CombineReads(c) \/ CombineReplaces(c) \/ CombineWritesManifest(c)
          \/ CombineCleans(c) \/ CombineEnds(c) \/ CombineFindsNothing(c)

Next ==
    \/ Work
    \/ \E x \in DOMAIN shards : DownloadKilled(x)
    \/ AggregateKilled
    \/ CombineByHand
    \/ \E c \in Combiner : CombineKilled(c)

Spec == Init /\ [][Next]_vars

\* Argo runs what is ready and a pod's program goes on; nobody must lend a
\* hand.  Every behaviour but a wait is finite, so one condition does.
FairSpec == Spec /\ WF_vars(Work)

\* The workflow's phase.
Phase ==
    CASE node["combine"] = "succeeded" -> "Succeeded"
      [] \/ "failed" \in {node["plan"], node["combine"]}
         \/ node["aggregate"] = "failed" /\ Downloaded -> "Failed"
      [] OTHER -> "Running"

-----------------------------------------------------------------------------
(* Properties.                                                             *)

\* What the plan step makes of any input puts each symbol in one shard, no
\* more than the limit in a shard, and no more shards than allowed; it is
\* refused only when no plan could do so.  The estimate of the count, the
\* dealing and the cutting are three functions that know nothing of each other.
PlanIsWhole ==
    node["plan"] = "running" => \A r \in PlanInputs : LET plan == PlanOf(r) IN
        /\ UNION {plan[x] : x \in DOMAIN plan} = 1..r.symbols
        /\ \A x, y \in DOMAIN plan : x # y => plan[x] \cap plan[y] = {}
        /\ \A x \in DOMAIN plan : Cardinality(plan[x]) <= r.limit
        /\ PlanFits(r) <=> r.symbols <= r.limit * r.maxShards

\* A shard's files are removed only when the rows they hold are in the final
\* dataset of their kind.  The removal comes after the two kinds in one
\* program, while the other one may be replacing the same outputs.
ShardsOutliveCombine ==
    [][\A k \in Kind : \A x \in DOMAIN shards :
         file[k][x] # {} /\ file'[k][x] = {} => file[k][x] \subseteq output[k]]_vars

\* When the workflow has succeeded, or a combine by hand is done and the
\* step has not begun, each manifest describes the dataset beside it, however
\* often an attempt was cut short between the two.
ManifestNamesOutput ==
    \/ Phase = "Succeeded"
    \/ job["hand"].at = "done" /\ node["combine"] = "waiting"
    => manifest = output

\* A combine by hand ends the wait of the progress step, if every shard has
\* at least 200 units of work: the combine reports its shards out of a
\* hundred, so that for smaller ones the sum stays under a hundred.
HandEndsTheWait ==
    (job["hand"].at = "done" /\ \A x \in DOMAIN shards : ShardUnits(x) >= 200)
        ~> Phase # "Running"

\* "Each dataset run now emits a canonical parquet path plus a manifest"
\* (docs/parquet-schema-contracts.md): a workflow whose pods all run ends.
\* It does not: the progress step waits for the files of the combine step,
\* which waits for the progress step.
WorkflowEnds == <>(Phase # "Running")
=============================================================================
