---------------------------- MODULE DatasetJobs ----------------------------
(***************************************************************************)
(* One dataset job (src/app/datasets/service.py).  Nothing reconciles it   *)
(* in the background: every status, detail and list request asks Argo and  *)
(* writes what it learns back, twice, each time as the whole row it read   *)
(* at its start with a few fields changed.  A retry is the submission of   *)
(* another job.  Definitions that DatasetPipeline has too carry the prefix *)
(* job, since Datasets_proofs extends both modules.                        *)
(***************************************************************************)
EXTENDS Integers

CONSTANTS
    Poller,     \* status, detail and list requests
    NoRow,
    Budget      \* bound: requests to Argo without a usable answer

Status == {"pending", "running", "completed", "failed"}
Path == {"none", "mount", "host"}    \* the artifact as the workflow and as the API names it
Row == [status : Status, workflow : BOOLEAN, path : Path]

ASSUME DatasetJobsAssumption ==
    /\ NoRow \notin Row
    /\ Budget \in Nat

VARIABLES
    row,        \* the dataset_jobs row
    files,      \* the artifacts, as far as the API can see them
    mirrored,   \* the API mounts the results under another path
    reports,    \* the workflow's status carries the outputs of its combine step
    phase,      \* the Argo phase of the workflow
    submission, \* where the submitting request stands
    deletion,   \* where the deleting request stands
    stage,      \* [Poller -> CallStage]
    item,       \* [Poller -> Row \cup {NoRow}], the row as it was read
    update,     \* [Poller -> Row \cup {NoRow}], the copy about to be written
    watching,   \* [Poller -> BOOLEAN], its page shows the job as unfinished
    failures

calls == <<stage, item, update, watching>>
setup == <<mirrored, reports>>
world == <<files, setup, phase>>
jobVars == <<row, world, submission, deletion, calls, failures>>

JobPhase == {"none", "pending", "running", "succeeded", "failed"}
CallStage == {"idle", "ask", "write status", "hydrate", "write path", "answer"}

JobTypeOK ==
    /\ row \in Row \cup {NoRow}
    /\ files \in BOOLEAN
    /\ mirrored \in BOOLEAN /\ reports \in BOOLEAN
    /\ phase \in JobPhase
    /\ submission \in {"none", "created", "accepted", "refused", "done"}
    /\ deletion \in {"none", "files", "done"}
    /\ stage \in [Poller -> CallStage]
    /\ item \in [Poller -> Row \cup {NoRow}]
    /\ update \in [Poller -> Row \cup {NoRow}]
    /\ watching \in [Poller -> BOOLEAN]
    /\ failures \in 0..Budget

JobInit ==
    /\ row = NoRow
    /\ files = FALSE
    /\ mirrored \in BOOLEAN /\ reports \in BOOLEAN
    /\ phase = "none"
    /\ submission = "none"
    /\ deletion = "none"
    /\ stage = [c \in Poller |-> "idle"]
    /\ item = [c \in Poller |-> NoRow]
    /\ update = [c \in Poller |-> NoRow]
    /\ watching = [c \in Poller |-> TRUE]
    /\ failures = 0

New == [status |-> "pending", workflow |-> FALSE, path |-> "none"]

\* Mutant: a missing row is created, as the repository of backtest jobs does.
PutUpserts(r) == row' = r

\* SqlAlchemyDatasetRepository.update: every column; a KeyError without a row.
Put(r) == row' = IF row = NoRow THEN NoRow ELSE r

-----------------------------------------------------------------------------
(* The submitting and the deleting request.                                *)

\* The row is created before Argo is asked.
Submit ==
    /\ submission = "none"
    /\ submission' = "created"
    /\ row' = New
    /\ UNCHANGED <<world, deletion, calls, failures>>

SubmitAccepted ==
    /\ submission = "created"
    /\ submission' = "accepted"
    /\ phase' = "pending"
    /\ UNCHANGED <<row, files, setup, deletion, calls, failures>>

\* Argo's refusal, or an answer that is lost after Argo took the workflow.
SubmitRefused ==
    /\ submission = "created"
    /\ submission' = "refused"
    /\ \/ UNCHANGED <<phase, failures>>
       \/ failures < Budget /\ failures' = failures + 1 /\ phase' = "pending"
    /\ UNCHANGED <<row, files, setup, deletion, calls>>

\* The workflow's name, or the failure, is recorded in the copy made at first.
Record ==
    /\ submission \in {"accepted", "refused"}
    /\ submission' = "done"
    /\ Put(IF submission = "accepted"
           THEN [New EXCEPT !.workflow = TRUE]
           ELSE [New EXCEPT !.status = "failed"])
    /\ UNCHANGED <<world, deletion, calls, failures>>

\* delete_dataset: the files, then the row.
DeleteFiles ==
    /\ deletion = "none"
    /\ row # NoRow
    /\ deletion' = "files"
    /\ files' = FALSE
    /\ UNCHANGED <<row, setup, phase, submission, calls, failures>>

DeleteRow ==
    /\ deletion = "files"
    /\ deletion' = "done"
    /\ row' = NoRow
    /\ UNCHANGED <<world, submission, calls, failures>>

-----------------------------------------------------------------------------
(* Polling requests.                                                       *)

At(c, from) == stage[c] = from

Go(c, to, read, copy) ==
    /\ stage' = [stage EXCEPT ![c] = to]
    /\ item' = [item EXCEPT ![c] = read]
    /\ update' = [update EXCEPT ![c] = copy]
    /\ UNCHANGED watching

Poll(c) ==
    /\ At(c, "idle")
    /\ row # NoRow
    /\ Go(c, IF row.workflow THEN "ask" ELSE "hydrate", row, NoRow)
    /\ UNCHANGED <<row, world, submission, deletion, failures>>

\* Mutant: Argo's word for the phase is stored.
StatusAsPhase == [p \in JobPhase \ {"none"} |-> p]

\* _PHASE_TO_STATUS.
StatusOf == [p \in JobPhase \ {"none"} |->
    CASE p = "succeeded" -> "completed" [] OTHER -> p]

\* _workflow_output_parameter reads the outputs of the workflow, while the
\* template declares them on its combine step: either may be what Argo gives.
OutputPath(r) == IF reports /\ phase = "succeeded" THEN "mount" ELSE r.path

\* Mutant: a row whose artifacts are known is not looked at again.
AskUnlessKnown(c) ==
    /\ At(c, "ask")
    /\ LET r == item[c]
           new == IF r.path # "none" THEN r ELSE [r EXCEPT !.status = StatusOf[phase], !.path = OutputPath(r)] IN
       IF new # r THEN Go(c, "write status", r, new) ELSE Go(c, "hydrate", r, NoRow)
    /\ UNCHANGED <<row, world, submission, deletion, failures>>

\* Mutant: the workflow's output parameters are not read.
AskStatusOnly(c) ==
    /\ At(c, "ask")
    /\ LET r == item[c]
           new == [r EXCEPT !.status = StatusOf[phase]] IN
       IF new # r THEN Go(c, "write status", r, new) ELSE Go(c, "hydrate", r, NoRow)
    /\ UNCHANGED <<row, world, submission, deletion, failures>>

\* _refresh_from_argo: what is written is the row as it was read, with the
\* new status and path, or only a higher progress, which no column keeps.
Ask(c) ==
    /\ At(c, "ask")
    /\ LET r == item[c]
           new == [r EXCEPT !.status = StatusOf[phase], !.path = OutputPath(r)] IN
       \/ new # r /\ Go(c, "write status", r, new)
       \/ new = r /\ Go(c, "hydrate", r, NoRow)
       \/ new = r /\ phase \in {"pending", "running"} /\ Go(c, "write status", r, r)
    /\ UNCHANGED <<row, world, submission, deletion, failures>>

\* An error status counts as no workflow; any other failure ends the request.
AskUnanswered(c) ==
    /\ At(c, "ask")
    /\ failures < Budget
    /\ failures' = failures + 1
    /\ Go(c, "hydrate", item[c], NoRow) \/ Go(c, "idle", NoRow, NoRow)
    /\ UNCHANGED <<row, world, submission, deletion>>

WriteStatus(c) ==
    /\ At(c, "write status")
    /\ Put(update[c])
    /\ IF row = NoRow THEN Go(c, "idle", NoRow, NoRow) ELSE Go(c, "hydrate", item[c], NoRow)
    /\ UNCHANGED <<world, submission, deletion, failures>>

\* _hydrate_artifact_paths, on the row as it was read before the refresh.
FoundPath == IF mirrored THEN "host" ELSE "mount"

Hydrate(c) ==
    /\ At(c, "hydrate")
    /\ IF files /\ item[c].path # FoundPath
       THEN Go(c, "write path", item[c], [item[c] EXCEPT !.path = FoundPath])
       ELSE Go(c, "answer", NoRow, NoRow)
    /\ UNCHANGED <<row, world, submission, deletion, failures>>

WritePath(c) ==
    /\ At(c, "write path")
    /\ Put(update[c])
    /\ Go(c, IF row = NoRow THEN "idle" ELSE "answer", NoRow, NoRow)
    /\ UNCHANGED <<world, submission, deletion, failures>>

\* The row is read again for the answer, and the page stops at an end.
Answer(c) ==
    /\ At(c, "answer")
    /\ stage' = [stage EXCEPT ![c] = "idle"]
    /\ watching' = [watching EXCEPT ![c] = row # NoRow /\ row.status \notin {"completed", "failed"}]
    /\ UNCHANGED <<row, world, submission, deletion, item, update, failures>>

-----------------------------------------------------------------------------
(* The workflow: its artifacts appear before it ends.                      *)

WorkflowRuns ==
    /\ phase = "pending"
    /\ phase' = "running"
    /\ UNCHANGED <<row, files, setup, submission, deletion, calls, failures>>

WorkflowWrites ==
    /\ phase = "running"
    /\ ~files
    /\ files' = TRUE
    /\ UNCHANGED <<row, setup, phase, submission, deletion, calls, failures>>

WorkflowFinishes ==
    /\ \/ phase = "running" /\ phase' = "succeeded"
       \/ phase \in {"pending", "running"} /\ phase' = "failed"
    /\ UNCHANGED <<row, files, setup, submission, deletion, calls, failures>>

-----------------------------------------------------------------------------
CallStep(c) == Ask(c) \/ WriteStatus(c) \/ Hydrate(c) \/ WritePath(c) \/ Answer(c)

JobNext ==
    \/ Submit \/ SubmitAccepted \/ SubmitRefused \/ Record \/ DeleteFiles \/ DeleteRow
    \/ \E c \in Poller : Poll(c) \/ CallStep(c) \/ AskUnanswered(c)
    \/ WorkflowRuns \/ WorkflowWrites \/ WorkflowFinishes

JobSpec == JobInit /\ [][JobNext]_jobVars

\* A page polls until an answer shows the end (web/src/pages/
\* DatasetDetailPage.tsx); after a failed request it is opened again.
FairJobSpec == JobSpec /\ \A c \in Poller : WF_jobVars((watching[c] /\ Poll(c)) \/ CallStep(c))

-----------------------------------------------------------------------------
(* Properties.                                                             *)

\* Pages that stop at the first end they see still leave the row of an ended
\* workflow at its status for good: a stale second write may put it back to
\* running, also after another page has stopped, but the request that made it
\* reads the row again and its page polls on.
EndIsSeen ==
    <>[](row # NoRow /\ row.workflow /\ phase \in {"succeeded", "failed"} => row.status = StatusOf[phase])

\* The row of a workflow that succeeded names its artifact for good if the
\* workflow reports it or the API sees the file.
ArtifactIsNamed ==
    <>[](row # NoRow /\ row.workflow /\ phase = "succeeded" /\ (reports \/ files) => row.path # "none")

\* A request that read the row before it was deleted does not bring it back.
DeletedIsGone == deletion = "done" => row = NoRow
=============================================================================
