---------------------------- MODULE BacktestJobs ----------------------------
(***************************************************************************)
(* One backtest job from its creation to its report                        *)
(* (src/app/backtests/service.py, argo_reconciler.py, the merge step of    *)
(* src/app/cli.py).  The job is a database row that API requests, the      *)
(* reconciler, the merge step inside an Argo workflow and the thread of a  *)
(* local run all read, change a copy of, and write back as a whole.  Every *)
(* database transaction and Argo request is a step of its own.             *)
(***************************************************************************)
EXTENDS Integers

CONSTANTS
    Handler,      \* API requests in flight
    Reconciler,   \* kalyxctl argo-reconciler, or the list view's refresh
    NoRow,
    MaxChanges,   \* bound: renames, configuration edits and relaunches
    MaxCrashes,   \* bound: deaths of the API process
    Runs,         \* the runs of the job
    MergeRetries  \* retryStrategy of the merge step

Launch == 1..(MaxChanges + 1)
Caller == Handler \cup {Reconciler}
Result == {"success", "partial", "failure"}     \* a report's status
Report == Result \cup {"none"}
Row == [kind : {"classic", "vectorbt"}, backend : {"argo", "local"},
        status : {"pending", "running", "completed", "failed"},
        report : Report, workflow : {0} \cup Launch]  \* workflow 0: none

ASSUME BacktestJobsAssumption ==
    /\ Reconciler \notin Handler
    /\ NoRow \notin Row
    /\ MaxChanges \in Nat
    /\ MaxCrashes \in Nat
    /\ Runs \in Nat
    /\ MergeRetries \in Nat

VARIABLES
    row,       \* the backtest_jobs row
    file,      \* the report on disk
    config,    \* the configuration file is there
    \* Argo
    phase,     \* [Launch -> Phase]
    merge,     \* [Launch -> Merge], the merge step
    \* the API process: its requests, and the thread of a local run
    stage,     \* [Caller -> Stage]
    item,      \* [Caller -> Row \cup {NoRow}], the copy it works on
    thread,
    \* history
    submitted, deleted, edits, relaunches, crashes

argo == <<phase, merge>>
calls == <<stage, item>>
hist == <<submitted, deleted, edits, relaunches, crashes>>
vars == <<row, file, config, argo, calls, thread, hist>>

Phase == {"none", "running", "single", "merging", "succeeded", "failed"}  \* single: vectorbt
Merge == [stage : {"off", "persisted", "read"}, result : Report, item : Row \cup {NoRow}, tries : Nat]
Stage == {"idle", "create", "reset", "launch", "launch single", "write", "poll", "finalize", "files"}
Thread == [stage : {"off", "queued", "running", "reported"}, item : Row \cup {NoRow},
           left : 0..Runs, result : Report]

NoMerge == [stage |-> "off", result |-> "none", item |-> NoRow, tries |-> 0]
NoThread == [stage |-> "off", item |-> NoRow, left |-> 0, result |-> "none"]

TypeOK ==
    /\ row \in Row \cup {NoRow}
    /\ file \in Report
    /\ config \in BOOLEAN
    /\ phase \in [Launch -> Phase]
    /\ merge \in [Launch -> Merge]
    /\ stage \in [Caller -> Stage]
    /\ item \in [Caller -> Row \cup {NoRow}]
    /\ thread \in Thread
    /\ submitted \in {"no", "argo", "local"}
    /\ deleted \in BOOLEAN
    /\ edits \in Nat
    /\ relaunches \in Nat
    /\ edits + relaunches \in 0..MaxChanges
    /\ crashes \in 0..MaxCrashes

Init ==
    /\ row = NoRow
    /\ file = "none"
    /\ config = FALSE
    /\ phase = [w \in Launch |-> "none"]
    /\ merge = [w \in Launch |-> NoMerge]
    /\ stage = [c \in Caller |-> "idle"]
    /\ item = [c \in Caller |-> NoRow]
    /\ thread = NoThread
    /\ submitted = "no"
    /\ deleted = FALSE
    /\ edits = 0
    /\ relaunches = 0
    /\ crashes = 0

Terminal(r) == r.status \in {"completed", "failed"}
Settled(r) == Terminal(r) /\ r.report # "none"

\* Mutant: a failed report leaves the job completed.
FinalizedCompleted(r, result) == [r EXCEPT !.status = "completed", !.report = result]

\* finalize_job_from_report, on the caller's copy of the row.
Finalized(r, result) ==
    [r EXCEPT !.status = IF result = "failure" THEN "failed" ELSE "completed",
              !.report = result]

\* job_repository.update: a KeyError when the row is gone.
Update(r) == row' = IF row = NoRow THEN NoRow ELSE r

At(c, from) == stage[c] = from
Go(c, to, r) ==
    /\ stage' = [stage EXCEPT ![c] = to]
    /\ item' = [item EXCEPT ![c] = r]
Done(c) == Go(c, "idle", NoRow)

-----------------------------------------------------------------------------
(* Requests.                                                               *)

Fresh(kind, backend) ==
    [kind |-> kind, backend |-> backend, status |-> "pending", report |-> "none", workflow |-> 0]

\* POST /backtests: the row, the configuration, then Argo or a thread.  A
\* vectorbt job always goes to Argo and stores no configuration file.
Submit(h, kind, backend) ==
    /\ At(h, "idle")
    /\ submitted = "no"
    /\ kind = "vectorbt" => backend = "argo"
    /\ submitted' = backend
    /\ row' = Fresh(kind, backend)
    /\ config' = (kind = "classic")
    /\ IF backend = "argo"
       THEN /\ Go(h, IF kind = "classic" THEN "launch" ELSE "launch single", Fresh(kind, backend))
            /\ UNCHANGED thread
       ELSE /\ thread' = [stage |-> "queued", item |-> Fresh(kind, backend), left |-> Runs, result |-> "none"]
            /\ UNCHANGED calls
    /\ UNCHANGED <<file, argo, deleted, edits, relaunches, crashes>>

\* relaunch_argo: whatever the job is doing.
Relaunch(h) ==
    /\ At(h, "idle")
    /\ config
    /\ edits + relaunches < MaxChanges
    /\ relaunches' = relaunches + 1
    /\ IF row = NoRow
       THEN Go(h, "create", Fresh("classic", "argo"))
       ELSE Go(h, "reset", [row EXCEPT !.backend = "argo", !.status = "pending"])
    /\ UNCHANGED <<row, file, config, argo, thread, submitted, deleted, edits, crashes>>

\* ... its create or update, which raises if the row came or went meanwhile.
Reset(h) ==
    /\ At(h, "create") \/ At(h, "reset")
    /\ IF (row = NoRow) = At(h, "create")
       THEN row' = item[h] /\ Go(h, "launch", item[h])
       ELSE Done(h) /\ UNCHANGED row
    /\ UNCHANGED <<file, config, argo, thread, hist>>

\* _launch_argo_workflow and _submit_vectorbt_request: Argo takes the workflow ...
LaunchTaken(h) ==
    /\ At(h, "launch") \/ At(h, "launch single")
    /\ \E w \in Launch :
           /\ phase[w] = "none"
           /\ \A v \in 1..(w - 1) : phase[v] # "none"
           /\ phase' = [phase EXCEPT ![w] = IF At(h, "launch") THEN "running" ELSE "single"]
           /\ Go(h, "write", [item[h] EXCEPT !.workflow = w, !.status = "running", !.backend = "argo"])
    /\ UNCHANGED <<row, file, config, merge, thread, hist>>

\* ... or the request to Argo fails, and the row is left as it is.
LaunchFails(h) ==
    /\ At(h, "launch") \/ At(h, "launch single")
    /\ Done(h)
    /\ UNCHANGED <<row, file, config, argo, thread, hist>>

\* update_name and update_config: a copy with its own field changed; the
\* latter saves the configuration file before the row.
Edit(h) ==
    /\ At(h, "idle")
    /\ row # NoRow
    /\ edits + relaunches < MaxChanges
    /\ edits' = edits + 1
    /\ config' \in {config, TRUE}
    /\ Go(h, "write", row)
    /\ UNCHANGED <<row, file, argo, thread, submitted, deleted, relaunches, crashes>>

Write(c) ==
    /\ At(c, "write")
    /\ Update(item[c])
    /\ Done(c)
    /\ UNCHANGED <<file, config, argo, thread, hist>>

\* delete: the row, then the files.
DeleteRow(h) ==
    /\ At(h, "idle")
    /\ row # NoRow
    /\ row' = NoRow
    /\ deleted' = TRUE
    /\ Go(h, "files", NoRow)
    /\ UNCHANGED <<file, config, argo, thread, submitted, edits, relaunches, crashes>>

DeleteFiles(h) ==
    /\ At(h, "files")
    /\ file' = "none"
    /\ config' = FALSE
    /\ Done(h)
    /\ UNCHANGED <<row, argo, thread, hist>>

-----------------------------------------------------------------------------
(* Reconciliation.                                                         *)

Watched(r) == r # NoRow /\ r.backend = "argo" /\ r.workflow # 0

\* A status request reconciles a job that has not ended, the reconciler also
\* one that ended without a report.
Poll(c) ==
    /\ At(c, "idle")
    /\ Watched(row)
    /\ IF c = Reconciler THEN ~Settled(row) ELSE ~Terminal(row)
    /\ Go(c, "poll", row)
    /\ UNCHANGED <<row, file, config, argo, thread, hist>>

\* _reconcile_item, its three outcomes on the copy read before.
PollRunning(c) ==
    /\ At(c, "poll")
    /\ \/ phase[item[c].workflow] \in {"running", "single", "merging"}
       \/ phase[item[c].workflow] = "succeeded" /\ item[c].kind = "classic" /\ file = "none"
    /\ IF item[c].status = "running"
       THEN Done(c)
       ELSE Go(c, "write", [item[c] EXCEPT !.status = "running"])
    /\ UNCHANGED <<row, file, config, argo, thread, hist>>

\* Mutant: a failed workflow counts as running.
PollFailedIgnored(c) ==
    /\ At(c, "poll")
    /\ phase[item[c].workflow] = "failed"
    /\ Done(c)
    /\ UNCHANGED <<row, file, config, argo, thread, hist>>

PollFailed(c) ==
    /\ At(c, "poll")
    /\ phase[item[c].workflow] = "failed"
    /\ Go(c, "write", [item[c] EXCEPT !.status = "failed"])
    /\ UNCHANGED <<row, file, config, argo, thread, hist>>

\* Mutant: the merge step is trusted to have written the row.
PollSucceededIgnored(c) ==
    /\ At(c, "poll")
    /\ phase[item[c].workflow] = "succeeded"
    /\ item[c].kind = "vectorbt" \/ file # "none"
    /\ Done(c)
    /\ UNCHANGED <<row, file, config, argo, thread, hist>>

\* A vectorbt job is marked completed in the answer only: nothing is written.
PollSucceeded(c) ==
    /\ At(c, "poll")
    /\ phase[item[c].workflow] = "succeeded"
    /\ item[c].kind = "vectorbt" \/ file # "none"
    /\ IF file # "none" /\ item[c].report = "none"
       THEN Go(c, "finalize", Finalized(item[c], file))
       ELSE Done(c)
    /\ UNCHANGED <<row, file, config, argo, thread, hist>>

\* finalize_job_from_report's write: an update, or a create if the row is gone.
Finalize(c) ==
    /\ At(c, "finalize")
    /\ row' = item[c]
    /\ Done(c)
    /\ UNCHANGED <<file, config, argo, thread, hist>>

-----------------------------------------------------------------------------
(* The workflow.                                                           *)

\* Planning and shards, or the one step of a vectorbt workflow, are over.
ShardsEnd(w) ==
    /\ phase[w] \in {"running", "single"}
    /\ \E p \in {"failed", IF phase[w] = "single" THEN "succeeded" ELSE "merging"} :
           phase' = [phase EXCEPT ![w] = p]
    /\ UNCHANGED <<row, file, config, merge, calls, thread, hist>>

\* kalyxctl merge: the report is written first.
MergePersist(w) ==
    /\ phase[w] = "merging"
    /\ merge[w].stage = "off"
    /\ \E r \in IF merge[w].result = "none" THEN Result ELSE {merge[w].result} :
           /\ file' = r
           /\ merge' = [merge EXCEPT ![w].stage = "persisted", ![w].result = r]
    /\ UNCHANGED <<row, config, phase, calls, thread, hist>>

\* update_metadata_from_report: the row is read, or made up.
MergeRead(w) ==
    /\ merge[w].stage = "persisted"
    /\ merge' = [merge EXCEPT ![w].stage = "read",
                              ![w].item = IF row = NoRow THEN Fresh("classic", "argo") ELSE row]
    /\ UNCHANGED <<row, file, config, phase, calls, thread, hist>>

\* The attempt is over: exit code 0 ends the workflow, any other is retried.
EndAttempt(w, ok) ==
    LET again == ~ok /\ merge[w].tries < MergeRetries IN
    /\ phase' = [phase EXCEPT ![w] = IF ok THEN "succeeded" ELSE IF again THEN "merging" ELSE "failed"]
    /\ merge' = [merge EXCEPT ![w].stage = "off", ![w].item = NoRow,
                              ![w].tries = IF again THEN @ + 1 ELSE @]

\* ... and finalized.  merge_exit_code is 0 for a success only.
MergeWrite(w) ==
    /\ merge[w].stage = "read"
    /\ row' = Finalized(merge[w].item, merge[w].result)
    /\ EndAttempt(w, merge[w].result = "success")
    /\ UNCHANGED <<file, config, calls, thread, hist>>

\* The pod of the merge step dies.
MergeDies(w) ==
    /\ phase[w] = "merging"
    /\ EndAttempt(w, FALSE)
    /\ UNCHANGED <<row, file, config, calls, thread, hist>>

-----------------------------------------------------------------------------
(* The thread of a local run.                                              *)

\* _run_job: running; a KeyError here ends the thread.
ThreadStart ==
    /\ thread.stage = "queued"
    /\ Update([thread.item EXCEPT !.status = "running"])
    /\ thread' = IF row = NoRow THEN NoThread
                 ELSE [thread EXCEPT !.stage = "running", !.item.status = "running"]
    /\ UNCHANGED <<file, config, argo, calls, hist>>

\* mark_progress; a KeyError here is caught, and its handler raises another.
ThreadProgress ==
    /\ thread.stage = "running"
    /\ thread.left > 0
    /\ Update(thread.item)
    /\ thread' = IF row = NoRow THEN NoThread ELSE [thread EXCEPT !.left = @ - 1]
    /\ UNCHANGED <<file, config, argo, calls, hist>>

\* The report and the configuration are saved ...
ThreadReport ==
    /\ thread.stage = "running"
    /\ thread.left = 0
    /\ \E r \in Result :
           /\ file' = r
           /\ thread' = [thread EXCEPT !.stage = "reported", !.result = r]
    /\ config' = TRUE
    /\ UNCHANGED <<row, argo, calls, hist>>

\* ... and the row finalized, created again if it is gone.
ThreadFinish ==
    /\ thread.stage = "reported"
    /\ row' = Finalized(thread.item, thread.result)
    /\ thread' = NoThread
    /\ UNCHANGED <<file, config, argo, calls, hist>>

\* Mutant: an exception ends the thread unrecorded.
ThreadFailsUnrecorded ==
    /\ thread.stage \in {"running", "reported"}
    /\ thread' = NoThread
    /\ UNCHANGED <<row, file, config, argo, calls, hist>>

\* The engine, or the saving of its results, raises: failed, without a report
\* in the row.
ThreadFails ==
    /\ thread.stage \in {"running", "reported"}
    /\ Update([thread.item EXCEPT !.status = "failed"])
    /\ thread' = NoThread
    /\ UNCHANGED <<file, config, argo, calls, hist>>

\* The API process dies with its requests and its daemon threads; an idle
\* one has nothing to lose.
Crash ==
    /\ crashes < MaxCrashes
    /\ thread # NoThread \/ \E h \in Handler : stage[h] # "idle"
    /\ crashes' = crashes + 1
    /\ stage' = [c \in Caller |-> IF c = Reconciler THEN stage[c] ELSE "idle"]
    /\ item' = [c \in Caller |-> IF c = Reconciler THEN item[c] ELSE NoRow]
    /\ thread' = NoThread
    /\ UNCHANGED <<row, file, config, argo, submitted, deleted, edits, relaunches>>

-----------------------------------------------------------------------------
CallStep(c) ==
    \/ Reset(c) \/ LaunchTaken(c) \/ LaunchFails(c) \/ Write(c) \/ DeleteFiles(c)
    \/ PollRunning(c) \/ PollFailed(c) \/ PollSucceeded(c) \/ Finalize(c)

WorkflowStep(w) ==
    ShardsEnd(w) \/ MergePersist(w) \/ MergeRead(w) \/ MergeWrite(w) \/ MergeDies(w)

ThreadStep == ThreadStart \/ ThreadProgress \/ ThreadReport \/ ThreadFinish \/ ThreadFails

Next ==
    \/ \E h \in Handler :
           \/ \E kind \in {"classic", "vectorbt"}, backend \in {"argo", "local"} : Submit(h, kind, backend)
           \/ Relaunch(h) \/ Edit(h) \/ DeleteRow(h)
    \/ \E c \in Caller : Poll(c) \/ CallStep(c)
    \/ \E w \in Launch : WorkflowStep(w)
    \/ ThreadStep
    \/ Crash

Spec == Init /\ [][Next]_vars

\* Requests, workflows and threads go on, and the reconciler comes again and
\* again; users owe nothing.
FairSpec ==
    /\ Spec
    /\ \A c \in Caller : WF_vars(CallStep(c))
    /\ WF_vars(Poll(Reconciler))
    /\ \A w \in Launch : WF_vars(WorkflowStep(w))
    /\ WF_vars(ThreadStep)

-----------------------------------------------------------------------------
(* Properties.                                                             *)

\* Whoever wrote the row last, a job stored as completed has a report that did
\* not fail, and the report is on disk unless the job was deleted.
CompletedHasReport ==
    row # NoRow /\ row.status = "completed" =>
        row.report \in {"success", "partial"} /\ (deleted \/ file # "none")

\* A classic job that nobody deletes, whose row names a workflow and has no
\* report yet, ends, in spite of stale copies written over newer rows.
JobEnds ==
    <>[](/\ row # NoRow /\ row.kind = "classic" /\ Watched(row) /\ row.report = "none" /\ ~deleted
         => Terminal(row))

\* The workflow of a job submitted to Argo succeeds and it is not launched
\* again: it ends as completed with its report, whichever stale copy of the
\* row was written in between.
SucceededIsCompleted ==
    <>[](/\ row # NoRow /\ row.kind = "classic" /\ row.workflow = 1 /\ phase[1] = "succeeded"
         /\ submitted = "argo" /\ ~deleted /\ relaunches = 0
         => row.status = "completed" /\ row.report = "success")

\* A local job that nobody edits or relaunches ends, unless the API process dies.
LocalJobEnds ==
    <>[](row # NoRow /\ row.backend = "local" /\ relaunches = 0 /\ edits = 0 /\ crashes = 0 => Terminal(row))

\* Refuted (BacktestJobsVectorbt).  deploy/k8s/README.md:330: the reconciler
\* syncs the Argo workflow phase into the backtest_jobs table.
VectorbtEnds ==
    <>[](row # NoRow /\ row.kind = "vectorbt" /\ Watched(row) /\ phase[row.workflow] = "succeeded"
         => row.status = "completed")
=============================================================================
