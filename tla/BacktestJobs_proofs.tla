------------------------- MODULE BacktestJobs_proofs -------------------------
(***************************************************************************)
(* Theorems about one backtest job, for any number of requests, launches,  *)
(* runs, retries and crashes: type correctness, and that a job stored as   *)
(* completed has a report that did not fail.                               *)
(***************************************************************************)
EXTENDS BacktestJobs, TLAPS

-----------------------------------------------------------------------------
(* The inductive invariant.                                                *)

\* There is a report on disk, or the job was deleted.
Kept == deleted \/ file # "none"

\* CompletedHasReport, of any copy of the row: each may be written back.
Backed(r, kept) ==
    r # NoRow /\ r.status = "completed" => r.report \in {"success", "partial"} /\ kept

Reported(r) == Backed(r, Kept)

\* The copy of a request or of the reconciler.
CallOK(c) ==
    /\ Reported(item[c])
    /\ stage[c] \notin {"idle", "files"} => item[c] \in Row
    /\ stage[c] = "files" => deleted

\* The copy and the report of a merge step.
MergeOK(w) ==
    /\ Reported(merge[w].item)
    /\ merge[w].stage # "off" => merge[w].result \in Result /\ Kept
    /\ merge[w].stage = "read" => merge[w].item \in Row

\* The copy and the report of a local run's thread.
ThreadOK ==
    /\ Reported(thread.item)
    /\ thread.stage # "off" => thread.item \in Row
    /\ thread.stage = "reported" => thread.result \in Result /\ Kept

CopiesOK ==
    /\ Reported(row)
    /\ \A c \in Caller : CallOK(c)
    /\ \A w \in Launch : MergeOK(w)
    /\ ThreadOK

IInv == TypeOK /\ CopiesOK

-----------------------------------------------------------------------------
(* Rows.                                                                   *)

LEMMA FreshIsRow ==
    ASSUME NEW kind \in {"classic", "vectorbt"}, NEW backend \in {"argo", "local"}
    PROVE  Fresh(kind, backend) \in Row /\ Fresh(kind, backend).status = "pending"
BY DEF Fresh, Row, Report

\* A row that finalization makes has a report that did not fail if it is
\* completed.
LEMMA FinalizedIsRow ==
    ASSUME NEW r \in Row, NEW result \in Result
    PROVE  Finalized(r, result) \in Row /\ Backed(Finalized(r, result), TRUE)
BY DEF Finalized, Row, Report, Result, Backed

\* A copy with another status than completed owes no report.
LEMMA StatusSet ==
    ASSUME NEW r \in Row, NEW s \in {"pending", "running", "failed"}
    PROVE  [r EXCEPT !.status = s] \in Row /\ [r EXCEPT !.status = s].status = s
BY DEF Row

-----------------------------------------------------------------------------
(* Steps.                                                                  *)

LEMMA InitIInv == Init => IInv
<1> SUFFICES ASSUME Init PROVE IInv
  OBVIOUS
<1>1. NoMerge \in Merge /\ NoThread \in Thread
  BY BacktestJobsAssumption DEF NoMerge, Merge, NoThread, Thread, Report
<1>2. /\ row \in Row \cup {NoRow} /\ file \in Report
      /\ phase \in [Launch -> Phase] /\ merge \in [Launch -> Merge]
      /\ stage \in [Caller -> Stage] /\ item \in [Caller -> Row \cup {NoRow}]
      /\ thread \in Thread /\ submitted \in {"no", "argo", "local"}
  BY <1>1 DEF Init, Report, Phase, Stage
<1>3. config \in BOOLEAN /\ deleted \in BOOLEAN
  BY Zenon DEF Init
<1>4. edits \in Nat /\ relaunches \in Nat /\ edits + relaunches \in 0..MaxChanges /\ crashes \in 0..MaxCrashes
  BY BacktestJobsAssumption DEF Init
<1>5. TypeOK
  BY <1>2, <1>3, <1>4, Zenon DEF TypeOK
<1>6. CopiesOK
  BY DEF Init, CopiesOK, Reported, Backed, CallOK, MergeOK, ThreadOK, NoMerge, NoThread
<1> QED
  BY <1>5, <1>6 DEF IInv

\* What the parts of the invariant become when the report stays.
LEMMA OthersStay ==
    ASSUME CopiesOK, Kept => Kept', deleted => deleted'
    PROVE  /\ UNCHANGED row => Reported(row)'
           /\ \A c \in Caller :
                  stage'[c] = stage[c] /\ item'[c] = item[c] => CallOK(c)'
           /\ \A w \in Launch : merge'[w] = merge[w] => MergeOK(w)'
           /\ UNCHANGED thread => ThreadOK'
<1>1. UNCHANGED row => Reported(row)'
  BY DEF CopiesOK, Reported, Backed
<1>2. ASSUME NEW c \in Caller, stage'[c] = stage[c], item'[c] = item[c] PROVE CallOK(c)'
  BY <1>2 DEF CopiesOK, CallOK, Reported, Backed
<1>3. ASSUME NEW w \in Launch, merge'[w] = merge[w] PROVE MergeOK(w)'
  BY <1>3 DEF CopiesOK, MergeOK, Reported, Backed
<1>4. UNCHANGED thread => ThreadOK'
  BY DEF CopiesOK, ThreadOK, Reported, Backed
<1> QED
  BY <1>1, <1>2, <1>3, <1>4

\* The type of the history.
HistOK ==
    /\ submitted \in {"no", "argo", "local"}
    /\ deleted \in BOOLEAN
    /\ edits \in Nat
    /\ relaunches \in Nat
    /\ edits + relaunches \in 0..MaxChanges
    /\ crashes \in 0..MaxCrashes

\* A step of a request or of the reconciler, from one copy to another.
LEMMA CallGoes ==
    ASSUME IInv, NEW c \in Caller, NEW to \in Stage, NEW r \in Row \cup {NoRow}, Go(c, to, r),
           Backed(r, Kept'), to \notin {"idle", "files"} => r \in Row, to = "files" => deleted',
           row' \in Row \cup {NoRow}, Backed(row', Kept'),
           Kept => Kept', deleted => deleted',
           file' \in Report, config' \in BOOLEAN, phase' \in [Launch -> Phase],
           UNCHANGED <<merge, thread>>, HistOK'
    PROVE  IInv'
<1>1. /\ stage' \in [Caller -> Stage] /\ item' \in [Caller -> Row \cup {NoRow}]
      /\ stage'[c] = to /\ item'[c] = r
      /\ \A d \in Caller \ {c} : stage'[d] = stage[d] /\ item'[d] = item[d]
  BY DEF IInv, TypeOK, Go
<1>2. TypeOK'
  <2>1. merge' \in [Launch -> Merge] /\ thread' \in Thread
    BY DEF IInv, TypeOK
  <2> QED
    BY <1>1, <2>1, Zenon DEF TypeOK, HistOK
<1>3. CopiesOK'
  <2>1. ASSUME NEW d \in Caller PROVE CallOK(d)'
    <3>1. CASE d = c
      BY <1>1, <3>1 DEF CallOK, Reported
    <3>2. CASE d # c
      BY <1>1, <3>2, OthersStay DEF IInv
    <3> QED
      BY <3>1, <3>2
  <2>2. (\A w \in Launch : MergeOK(w)') /\ ThreadOK'
    BY OthersStay DEF IInv
  <2> QED
    BY <2>1, <2>2 DEF CopiesOK, Reported
<1> QED
  BY <1>2, <1>3 DEF IInv

\* What a step of a request finds.
LEMMA CallFinds ==
    ASSUME IInv, NEW c \in Caller
    PROVE  /\ row \in Row \cup {NoRow} /\ Backed(row, Kept) /\ Backed(NoRow, Kept)
           /\ file \in Report /\ config \in BOOLEAN /\ phase \in [Launch -> Phase]
           /\ item[c] \in Row \cup {NoRow} /\ Backed(item[c], Kept)
           /\ stage[c] \notin {"idle", "files"} => item[c] \in Row
           /\ stage[c] = "files" => deleted
           /\ HistOK /\ NoRow \notin Row
BY BacktestJobsAssumption DEF IInv, TypeOK, CopiesOK, CallOK, Reported, Backed, HistOK

\* ... when it leaves the report, the configuration, Argo and the history alone.
LEMMA CallGoesOn ==
    ASSUME IInv, NEW c \in Caller, NEW to \in Stage, NEW r \in Row \cup {NoRow}, Go(c, to, r),
           Backed(r, Kept), to \notin {"idle", "files"} => r \in Row, to # "files",
           row' \in Row \cup {NoRow}, Backed(row', Kept),
           UNCHANGED <<file, config, argo, thread, hist>>
    PROVE  IInv'
<1>1. (Kept' <=> Kept) /\ deleted' = deleted
  BY DEF Kept, hist
<1>2. Backed(r, Kept') /\ Backed(row', Kept')
  BY <1>1 DEF Backed
<1>3. HistOK'
  BY CallFinds DEF HistOK, hist
<1>4. config' \in BOOLEAN
  BY CallFinds, Zenon
<1>5. file' \in Report /\ phase' \in [Launch -> Phase] /\ UNCHANGED <<merge, thread>>
  BY CallFinds DEF argo
<1> QED
  BY <1>1, <1>2, <1>3, <1>4, <1>5, CallGoes

LEMMA SubmitStep ==
    ASSUME IInv, NEW h \in Handler, NEW kind \in {"classic", "vectorbt"},
           NEW backend \in {"argo", "local"}, Submit(h, kind, backend)
    PROVE  IInv'
<1> DEFINE new == Fresh(kind, backend)
<1>0. h \in Caller
  BY DEF Caller
<1>1. new \in Row /\ new.status = "pending"
  BY FreshIsRow
<1>2. /\ row' = new /\ submitted' = backend
      /\ UNCHANGED <<file, argo, deleted, edits, relaunches, crashes>>
  BY DEF Submit
<1>3. config' \in BOOLEAN
  BY Zenon DEF Submit
<1>4. HistOK'
  BY <1>0, <1>2, CallFinds DEF HistOK
<1>5. (Kept' <=> Kept) /\ file' \in Report /\ phase' \in [Launch -> Phase] /\ UNCHANGED merge
  BY <1>0, <1>2, CallFinds DEF Kept, argo
<1> HIDE DEF new
<1>6. CASE backend = "argo"
  <2>1. /\ UNCHANGED thread
        /\ \E to \in {"launch", "launch single"} : Go(h, to, new)
    BY <1>6 DEF Submit, new
  <2>2. PICK to \in {"launch", "launch single"} : Go(h, to, new)
    BY <2>1
  <2>3. to \in Stage /\ to \notin {"idle", "files"}
    BY <2>2 DEF Stage
  <2>4. Backed(new, Kept')
    BY <1>1 DEF Backed
  <2> QED
    BY <1>0, <1>1, <1>2, <1>3, <1>4, <1>5, <2>1, <2>2, <2>3, <2>4, CallGoes
<1>7. CASE backend # "argo"
  <2>1. /\ thread' = [stage |-> "queued", item |-> new, left |-> Runs, result |-> "none"]
        /\ UNCHANGED <<stage, item>>
    BY <1>7 DEF Submit, new, calls
  <2>2. thread' \in Thread
    BY <1>1, <2>1, BacktestJobsAssumption DEF Thread, Report
  <2>3. TypeOK'
    <3>1. merge' \in [Launch -> Merge] /\ stage' \in [Caller -> Stage] /\ item' \in [Caller -> Row \cup {NoRow}]
      BY <1>5, <2>1 DEF IInv, TypeOK
    <3>2. row' \in Row \cup {NoRow}
      BY <1>1, <1>2
    <3> QED
      BY <1>3, <1>4, <1>5, <2>2, <3>1, <3>2, Zenon DEF TypeOK, HistOK
  <2>4. CopiesOK'
    <3>1. Reported(row)' /\ ThreadOK'
      BY <1>1, <1>2, <2>1 DEF Reported, Backed, ThreadOK
    <3>2. (\A d \in Caller : CallOK(d)') /\ (\A w \in Launch : MergeOK(w)')
      BY <1>2, <1>5, <2>1, OthersStay DEF IInv
    <3> QED
      BY <3>1, <3>2 DEF CopiesOK
  <2> QED
    BY <2>3, <2>4 DEF IInv
<1> QED
  BY <1>6, <1>7

LEMMA RelaunchStep == ASSUME IInv, NEW h \in Handler, Relaunch(h) PROVE IInv'
<1>0. h \in Caller
  BY DEF Caller
<1>1. HistOK'
  <2>1. /\ edits' = edits /\ relaunches' = relaunches + 1 /\ edits + relaunches < MaxChanges
        /\ UNCHANGED <<submitted, deleted, crashes>>
    BY DEF Relaunch
  <2> QED
    BY <1>0, <2>1, CallFinds, BacktestJobsAssumption DEF HistOK
<1>2. UNCHANGED <<row, file, config, argo, thread, deleted>>
  BY DEF Relaunch
<1>3. /\ (Kept' <=> Kept) /\ file' \in Report /\ phase' \in [Launch -> Phase]
      /\ UNCHANGED <<merge, thread>> /\ row' \in Row \cup {NoRow}
  BY <1>0, <1>2, CallFinds DEF Kept, argo
<1>4. Backed(row', Kept')
  BY <1>0, <1>2, <1>3, CallFinds DEF Backed
<1>5. config' \in BOOLEAN
  BY <1>0, <1>2, CallFinds, Zenon
<1>6. CASE row = NoRow
  <2> DEFINE new == Fresh("classic", "argo")
  <2>1. new \in Row /\ Backed(new, Kept') /\ "create" \in Stage
    BY FreshIsRow DEF Backed, Stage
  <2>2. Go(h, "create", new)
    BY <1>6 DEF Relaunch
  <2> HIDE DEF new
  <2> QED
    BY <1>0, <1>1, <1>2, <1>3, <1>4, <1>5, <2>1, <2>2, CallGoes
<1>7. CASE row # NoRow
  <2> DEFINE new == [row EXCEPT !.backend = "argo", !.status = "pending"]
  <2>0. row \in Row
    BY <1>0, <1>7, CallFinds
  <2>1. new \in Row /\ new.status = "pending" /\ "reset" \in Stage
    BY <2>0 DEF Row, Stage
  <2>2. Go(h, "reset", new)
    BY <1>7 DEF Relaunch
  <2> HIDE DEF new
  <2>3. Backed(new, Kept')
    BY <2>1 DEF Backed
  <2> QED
    BY <1>0, <1>1, <1>2, <1>3, <1>4, <1>5, <2>1, <2>2, <2>3, CallGoes
<1> QED
  BY <1>6, <1>7

LEMMA ResetStep == ASSUME IInv, NEW c \in Caller, Reset(c) PROVE IInv'
<1>1. /\ item[c] \in Row /\ Backed(item[c], Kept) /\ Backed(NoRow, Kept)
      /\ row \in Row \cup {NoRow} /\ Backed(row, Kept)
  BY CallFinds DEF Reset, At
<1>2. CASE row' = item[c] /\ Go(c, "launch", item[c])
  BY <1>1, <1>2, CallGoesOn DEF Reset, Stage
<1>3. CASE Done(c) /\ UNCHANGED row
  BY <1>1, <1>3, CallGoesOn DEF Reset, Done, Stage
<1> QED
  BY <1>2, <1>3 DEF Reset

LEMMA LaunchTakenStep == ASSUME IInv, NEW c \in Caller, LaunchTaken(c) PROVE IInv'
<1>1. PICK w \in Launch :
        /\ phase' = [phase EXCEPT ![w] = IF At(c, "launch") THEN "running" ELSE "single"]
        /\ Go(c, "write", [item[c] EXCEPT !.workflow = w, !.status = "running", !.backend = "argo"])
  BY DEF LaunchTaken
<1> DEFINE new == [item[c] EXCEPT !.workflow = w, !.status = "running", !.backend = "argo"]
<1>2. item[c] \in Row
  BY CallFinds DEF LaunchTaken, At
<1>3. new \in Row /\ new.status = "running"
  BY <1>2 DEF Row
<1>4. Go(c, "write", new)
  BY <1>1
<1> HIDE DEF new
<1>5. phase' \in [Launch -> Phase]
  BY <1>1, CallFinds DEF Phase
<1>6. UNCHANGED <<row, file, config, merge, thread, hist>>
  BY DEF LaunchTaken
<1>7. /\ (Kept' <=> Kept) /\ deleted' = deleted /\ file' \in Report
      /\ row' \in Row \cup {NoRow} /\ HistOK'
  BY <1>6, CallFinds DEF Kept, hist, HistOK
<1>8. Backed(new, Kept') /\ Backed(row', Kept')
  BY <1>3, <1>6, <1>7, CallFinds DEF Backed
<1>9. config' \in BOOLEAN
  BY <1>6, CallFinds, Zenon
<1> QED
  BY <1>3, <1>4, <1>5, <1>6, <1>7, <1>8, <1>9, CallGoes DEF Stage

LEMMA EditStep == ASSUME IInv, NEW h \in Handler, Edit(h) PROVE IInv'
<1>0. h \in Caller
  BY DEF Caller
<1>1. HistOK'
  <2>1. /\ relaunches' = relaunches /\ edits' = edits + 1 /\ edits + relaunches < MaxChanges
        /\ UNCHANGED <<submitted, deleted, crashes>>
    BY DEF Edit
  <2> QED
    BY <1>0, <2>1, CallFinds, BacktestJobsAssumption DEF HistOK
<1>2. row # NoRow /\ Go(h, "write", row) /\ UNCHANGED <<row, file, argo, thread, deleted>>
  BY DEF Edit
<1>3. /\ (Kept' <=> Kept) /\ file' \in Report /\ phase' \in [Launch -> Phase]
      /\ UNCHANGED <<merge, thread>> /\ row \in Row /\ row' \in Row
  BY <1>0, <1>2, CallFinds DEF Kept, argo
<1>4. Backed(row, Kept') /\ Backed(row', Kept')
  BY <1>0, <1>2, <1>3, CallFinds DEF Backed
<1>5. config \in BOOLEAN
  BY <1>0, CallFinds
<1>6. config' \in BOOLEAN
  BY <1>5, Zenon DEF Edit
<1> QED
  BY <1>0, <1>1, <1>2, <1>3, <1>4, <1>6, CallGoes DEF Stage

\* A copy is written over whatever the row has become, unless it is gone.
LEMMA WriteStep == ASSUME IInv, NEW c \in Caller, Write(c) PROVE IInv'
<1>1. /\ item[c] \in Row /\ Backed(item[c], Kept) /\ Backed(NoRow, Kept)
  BY CallFinds DEF Write, At
<1>2. row' \in Row \cup {NoRow} /\ Backed(row', Kept)
  BY <1>1 DEF Write, Update
<1> QED
  BY <1>1, <1>2, CallGoesOn DEF Write, Done, Stage

LEMMA LaunchFailsStep == ASSUME IInv, NEW c \in Caller, LaunchFails(c) PROVE IInv'
BY CallFinds, CallGoesOn DEF LaunchFails, Done, Stage

LEMMA DeleteRowStep == ASSUME IInv, NEW h \in Handler, DeleteRow(h) PROVE IInv'
<1>0. h \in Caller
  BY DEF Caller
<1>1. /\ row' = NoRow /\ deleted' = TRUE /\ Go(h, "files", NoRow)
      /\ UNCHANGED <<file, config, argo, thread, submitted, edits, relaunches, crashes>>
  BY DEF DeleteRow
<1>2. HistOK'
  BY <1>0, <1>1, CallFinds, Zenon DEF HistOK
<1>3. config' \in BOOLEAN
  BY <1>0, <1>1, CallFinds, Zenon
<1>4. /\ Kept' /\ Backed(NoRow, Kept') /\ file' \in Report /\ phase' \in [Launch -> Phase]
      /\ UNCHANGED <<merge, thread>>
  BY <1>0, <1>1, CallFinds DEF Kept, Backed, argo
<1> QED
  BY <1>0, <1>1, <1>2, <1>3, <1>4, CallGoes DEF Stage

LEMMA DeleteFilesStep == ASSUME IInv, NEW c \in Caller, DeleteFiles(c) PROVE IInv'
<1>1. /\ file' = "none" /\ config' = FALSE /\ Go(c, "idle", NoRow) /\ deleted
      /\ UNCHANGED <<row, argo, thread, hist>>
  BY CallFinds DEF DeleteFiles, At, Done
<1>2. HistOK' /\ Kept' /\ deleted'
  BY <1>1, CallFinds DEF HistOK, hist, Kept
<1>3. config' \in BOOLEAN
  BY <1>1, Zenon
<1>4. /\ Backed(NoRow, Kept') /\ file' \in Report /\ phase' \in [Launch -> Phase]
      /\ UNCHANGED <<merge, thread>>
      /\ row' \in Row \cup {NoRow} /\ Backed(row', Kept')
  BY <1>1, <1>2, CallFinds DEF Backed, argo, Report
<1> QED
  BY <1>1, <1>2, <1>3, <1>4, CallGoes DEF Stage

LEMMA PollStep == ASSUME IInv, NEW c \in Caller, Poll(c) PROVE IInv'
<1>1. row \in Row /\ Go(c, "poll", row) /\ UNCHANGED <<row, file, config, argo, thread, hist>>
  BY CallFinds DEF Poll, Watched
<1> QED
  BY <1>1, CallFinds, CallGoesOn DEF Stage

LEMMA PollOutcomeStep ==
    ASSUME IInv, NEW c \in Caller, PollRunning(c) \/ PollFailed(c) PROVE IInv'
<1>1. item[c] \in Row /\ UNCHANGED <<row, file, config, argo, thread, hist>>
  BY CallFinds DEF PollRunning, PollFailed, At
<1>2. CASE Done(c)
  BY <1>1, <1>2, CallFinds, CallGoesOn DEF Done, Stage
<1>3. ASSUME NEW s \in {"running", "failed"}, Go(c, "write", [item[c] EXCEPT !.status = s])
      PROVE  IInv'
  <2> DEFINE new == [item[c] EXCEPT !.status = s]
  <2>1. new \in Row /\ new.status = s
    BY <1>1, StatusSet
  <2>2. Go(c, "write", new)
    BY <1>3
  <2> HIDE DEF new
  <2>3. Backed(new, Kept)
    BY <2>1 DEF Backed
  <2> QED
    BY <1>1, <2>1, <2>2, <2>3, CallFinds, CallGoesOn DEF Stage
<1> QED
  BY <1>2, <1>3 DEF PollRunning, PollFailed

\* The report is on disk when the row is finalized from it.
LEMMA PollSucceededStep == ASSUME IInv, NEW c \in Caller, PollSucceeded(c) PROVE IInv'
<1>1. item[c] \in Row /\ UNCHANGED <<row, file, config, argo, thread, hist>>
  BY CallFinds DEF PollSucceeded, At
<1>2. CASE Done(c)
  BY <1>1, <1>2, CallFinds, CallGoesOn DEF Done, Stage
<1>3. CASE file # "none" /\ Go(c, "finalize", Finalized(item[c], file))
  <2>1. file \in Result
    BY <1>3, CallFinds DEF Report
  <2>2. Finalized(item[c], file) \in Row /\ Backed(Finalized(item[c], file), TRUE)
    BY <1>1, <2>1, FinalizedIsRow
  <2>3. Backed(Finalized(item[c], file), Kept)
    BY <1>3, <2>2 DEF Backed, Kept
  <2> QED
    BY <1>1, <1>3, <2>2, <2>3, CallFinds, CallGoesOn DEF Stage
<1> QED
  BY <1>2, <1>3 DEF PollSucceeded

LEMMA FinalizeStep == ASSUME IInv, NEW c \in Caller, Finalize(c) PROVE IInv'
<1>1. item[c] \in Row /\ Backed(item[c], Kept) /\ row' = item[c]
  BY CallFinds DEF Finalize, At
<1> QED
  BY <1>1, CallFinds, CallGoesOn DEF Finalize, Done, Stage

\* A step of a workflow, with the report that its merge step may write.
LEMMA WorkflowGoes ==
    ASSUME IInv, NEW w \in Launch, NEW p \in Phase, NEW m \in Merge,
           phase' = [phase EXCEPT ![w] = p], merge' = [merge EXCEPT ![w] = m],
           Backed(m.item, Kept'), m.stage # "off" => m.result \in Result /\ Kept',
           m.stage = "read" => m.item \in Row,
           row' \in Row \cup {NoRow}, Backed(row', Kept'),
           file' \in Report, Kept => Kept', UNCHANGED <<config, calls, thread, hist>>
    PROVE  IInv'
<1>1. /\ phase' \in [Launch -> Phase] /\ merge' \in [Launch -> Merge]
      /\ stage' = stage /\ item' = item /\ thread' = thread /\ deleted' = deleted
      /\ merge'[w] = m /\ \A v \in Launch \ {w} : merge'[v] = merge[v]
  BY DEF IInv, TypeOK, calls, hist
<1>2. TypeOK'
  <2>1. /\ submitted' = submitted /\ edits' = edits /\ relaunches' = relaunches /\ crashes' = crashes
        /\ config' = config
    BY DEF hist
  <2> QED
    BY <1>1, <2>1, Zenon DEF IInv, TypeOK
<1>3. CopiesOK'
  <2>1. (\A c \in Caller : CallOK(c)') /\ ThreadOK'
    BY <1>1, OthersStay DEF IInv
  <2>2. ASSUME NEW v \in Launch PROVE MergeOK(v)'
    <3>1. CASE v = w
      BY <1>1, <3>1 DEF MergeOK, Reported
    <3>2. CASE v # w
      BY <1>1, <3>2, OthersStay DEF IInv
    <3> QED
      BY <3>1, <3>2
  <2> QED
    BY <2>1, <2>2 DEF CopiesOK, Reported
<1> QED
  BY <1>2, <1>3 DEF IInv

\* What a step of a workflow finds.
LEMMA WorkflowFinds ==
    ASSUME IInv, NEW w \in Launch
    PROVE  /\ row \in Row \cup {NoRow} /\ Backed(row, Kept) /\ Backed(NoRow, Kept)
           /\ file \in Report /\ phase \in [Launch -> Phase] /\ phase[w] \in Phase
           /\ merge \in [Launch -> Merge] /\ merge[w] \in Merge
           /\ Backed(merge[w].item, Kept)
           /\ merge[w].stage # "off" => merge[w].result \in Result /\ Kept
           /\ merge[w].stage = "read" => merge[w].item \in Row
BY DEF IInv, TypeOK, CopiesOK, MergeOK, Reported, Backed

LEMMA ShardsEndStep == ASSUME IInv, NEW w \in Launch, ShardsEnd(w) PROVE IInv'
<1>1. PICK p \in {"failed", IF phase[w] = "single" THEN "succeeded" ELSE "merging"} :
           phase' = [phase EXCEPT ![w] = p]
  BY DEF ShardsEnd
<1>2. p \in Phase
  BY <1>1 DEF Phase
<1>3. UNCHANGED <<row, file, config, merge, calls, thread, hist>>
  BY DEF ShardsEnd
<1>4. (Kept' <=> Kept) /\ merge' = [merge EXCEPT ![w] = merge[w]]
  BY <1>3, WorkflowFinds DEF Kept, hist
<1> QED
  BY <1>1, <1>2, <1>3, <1>4, WorkflowFinds, WorkflowGoes

LEMMA MergePersistStep == ASSUME IInv, NEW w \in Launch, MergePersist(w) PROVE IInv'
<1>1. PICK r \in IF merge[w].result = "none" THEN Result ELSE {merge[w].result} :
           /\ file' = r
           /\ merge' = [merge EXCEPT ![w].stage = "persisted", ![w].result = r]
  BY DEF MergePersist
<1> DEFINE m == [merge[w] EXCEPT !.stage = "persisted", !.result = r]
<1>2. r \in Result
  BY <1>1, WorkflowFinds DEF Merge, Report
<1>3. /\ m \in Merge /\ m.item = merge[w].item /\ m.stage = "persisted" /\ m.result = r
  BY <1>2, WorkflowFinds DEF Merge, Report
<1>4. merge' = [merge EXCEPT ![w] = m]
  BY <1>1, WorkflowFinds DEF Merge
<1>5. UNCHANGED <<row, config, phase, calls, thread, hist>>
  BY DEF MergePersist
<1> HIDE DEF m
<1>6. Kept' /\ file' \in Report /\ phase' = [phase EXCEPT ![w] = phase[w]]
  BY <1>1, <1>2, <1>5, WorkflowFinds DEF Kept, Result, Report
<1>7. Backed(m.item, Kept') /\ Backed(row', Kept')
  BY <1>3, <1>5, <1>6, WorkflowFinds DEF Backed
<1> QED
  BY <1>2, <1>3, <1>4, <1>5, <1>6, <1>7, WorkflowFinds, WorkflowGoes

LEMMA MergeReadStep == ASSUME IInv, NEW w \in Launch, MergeRead(w) PROVE IInv'
<1> DEFINE new == IF row = NoRow THEN Fresh("classic", "argo") ELSE row
           m == [merge[w] EXCEPT !.stage = "read", !.item = new]
<1>1. new \in Row /\ Backed(new, Kept)
  BY FreshIsRow, WorkflowFinds DEF Backed
<1>2. merge' = [merge EXCEPT ![w].stage = "read", ![w].item = new]
  BY DEF MergeRead
<1>3. merge[w].result \in Result /\ Kept
  BY WorkflowFinds DEF MergeRead
<1> HIDE DEF new
<1>4. /\ m \in Merge /\ m.item = new /\ m.stage = "read" /\ m.result = merge[w].result
  BY <1>1, WorkflowFinds DEF Merge
<1>5. merge' = [merge EXCEPT ![w] = m]
  BY <1>2, WorkflowFinds DEF Merge
<1>6. UNCHANGED <<row, file, config, phase, calls, thread, hist>>
  BY DEF MergeRead
<1> HIDE DEF m
<1>7. (Kept' <=> Kept) /\ phase' = [phase EXCEPT ![w] = phase[w]]
  BY <1>6, WorkflowFinds DEF Kept, hist
<1> QED
  BY <1>1, <1>3, <1>4, <1>5, <1>6, <1>7, WorkflowFinds, WorkflowGoes

\* The end of an attempt drops its copy.
LEMMA AttemptEnds ==
    ASSUME IInv, NEW w \in Launch, NEW ok \in BOOLEAN, EndAttempt(w, ok)
    PROVE  \E p \in Phase, m \in Merge :
               /\ phase' = [phase EXCEPT ![w] = p] /\ merge' = [merge EXCEPT ![w] = m]
               /\ m.stage = "off" /\ m.item = NoRow
<1> DEFINE again == ~ok /\ merge[w].tries < MergeRetries
           p == IF ok THEN "succeeded" ELSE IF again THEN "merging" ELSE "failed"
           n == IF again THEN merge[w].tries + 1 ELSE merge[w].tries
           m == [merge[w] EXCEPT !.stage = "off", !.item = NoRow, !.tries = n]
<1>1. merge[w] \in Merge /\ merge \in [Launch -> Merge]
  BY WorkflowFinds
<1>2. merge[w].tries \in Nat
  BY <1>1 DEF Merge
<1>3. n \in Nat
  BY <1>2
<1>4. p \in Phase
  BY DEF Phase
<1>5. phase' = [phase EXCEPT ![w] = p]
  BY DEF EndAttempt
<1>6. merge' = [merge EXCEPT ![w].stage = "off", ![w].item = NoRow, ![w].tries = n]
  BY <1>1 DEF EndAttempt, Merge
<1> HIDE DEF n, p, again
<1>7. m \in Merge /\ m.stage = "off" /\ m.item = NoRow
  BY <1>1, <1>3 DEF Merge
<1>8. merge' = [merge EXCEPT ![w] = m]
  BY <1>1, <1>6 DEF Merge
<1> HIDE DEF m
<1> QED
  BY <1>4, <1>5, <1>7, <1>8

LEMMA MergeWriteStep == ASSUME IInv, NEW w \in Launch, MergeWrite(w) PROVE IInv'
<1>1. /\ merge[w].stage = "read" /\ merge[w].item \in Row /\ merge[w].result \in Result /\ Kept
      /\ row' = Finalized(merge[w].item, merge[w].result)
      /\ UNCHANGED <<file, config, calls, thread, hist>>
  BY WorkflowFinds DEF MergeWrite
<1>2. row' \in Row /\ Backed(row', TRUE)
  BY <1>1, FinalizedIsRow
<1>3. EndAttempt(w, merge[w].result = "success") /\ (merge[w].result = "success") \in BOOLEAN
  BY Zenon DEF MergeWrite
<1>4. PICK p \in Phase, m \in Merge :
         /\ phase' = [phase EXCEPT ![w] = p] /\ merge' = [merge EXCEPT ![w] = m]
         /\ m.stage = "off" /\ m.item = NoRow
  BY <1>3, AttemptEnds
<1>5. Kept' /\ file' \in Report
  BY <1>1, WorkflowFinds DEF Kept, hist
<1>6. Backed(m.item, Kept') /\ Backed(row', Kept')
  BY <1>2, <1>4, <1>5 DEF Backed
<1> QED
  BY <1>1, <1>2, <1>4, <1>5, <1>6, WorkflowGoes

LEMMA MergeDiesStep == ASSUME IInv, NEW w \in Launch, MergeDies(w) PROVE IInv'
<1>1. PICK p \in Phase, m \in Merge :
         /\ phase' = [phase EXCEPT ![w] = p] /\ merge' = [merge EXCEPT ![w] = m]
         /\ m.stage = "off" /\ m.item = NoRow
  BY AttemptEnds DEF MergeDies
<1>2. UNCHANGED <<row, file, config, calls, thread, hist>>
  BY DEF MergeDies
<1>3. (Kept' <=> Kept)
  BY <1>2 DEF Kept, hist
<1>4. Backed(m.item, Kept') /\ Backed(row', Kept') /\ row' \in Row \cup {NoRow} /\ file' \in Report
  BY <1>1, <1>2, <1>3, WorkflowFinds DEF Backed
<1> QED
  BY <1>1, <1>2, <1>3, <1>4, WorkflowGoes

\* A step of the thread, with the report that it may write.
LEMMA ThreadGoes ==
    ASSUME IInv, NEW t \in Thread, thread' = t,
           Backed(t.item, Kept'), t.stage # "off" => t.item \in Row,
           t.stage = "reported" => t.result \in Result /\ Kept',
           row' \in Row \cup {NoRow}, Backed(row', Kept'),
           file' \in Report, config' \in BOOLEAN, Kept => Kept', UNCHANGED <<argo, calls, hist>>
    PROVE  IInv'
<1>1. /\ phase' = phase /\ merge' = merge /\ stage' = stage /\ item' = item /\ deleted' = deleted
      /\ submitted' = submitted /\ edits' = edits /\ relaunches' = relaunches /\ crashes' = crashes
  BY DEF argo, calls, hist
<1>2. TypeOK'
  BY <1>1, Zenon DEF IInv, TypeOK
<1>3. CopiesOK'
  <2>1. (\A c \in Caller : CallOK(c)') /\ (\A w \in Launch : MergeOK(w)')
    BY <1>1, OthersStay DEF IInv
  <2>2. ThreadOK' /\ Reported(row)'
    BY DEF ThreadOK, Reported
  <2> QED
    BY <2>1, <2>2 DEF CopiesOK
<1> QED
  BY <1>2, <1>3 DEF IInv

\* What a step of the thread finds.
LEMMA ThreadFinds ==
    ASSUME IInv
    PROVE  /\ row \in Row \cup {NoRow} /\ Backed(row, Kept) /\ Backed(NoRow, Kept)
           /\ file \in Report /\ config \in BOOLEAN
           /\ thread \in Thread /\ Backed(thread.item, Kept)
           /\ thread.stage # "off" => thread.item \in Row
           /\ thread.stage = "reported" => thread.result \in Result /\ Kept
           /\ NoThread \in Thread /\ NoThread.item = NoRow /\ NoThread.stage = "off"
<1>1. NoThread \in Thread /\ NoThread.item = NoRow /\ NoThread.stage = "off"
  BY BacktestJobsAssumption DEF NoThread, Thread, Report
<1> QED
  BY <1>1 DEF IInv, TypeOK, CopiesOK, ThreadOK, Reported, Backed

LEMMA ThreadStartStep == ASSUME IInv, ThreadStart PROVE IInv'
<1> DEFINE r == [thread.item EXCEPT !.status = "running"]
           t == [thread EXCEPT !.stage = "running", !.item = r]
<1>1. /\ thread \in Thread /\ thread.item \in Row /\ row \in Row \cup {NoRow}
      /\ UNCHANGED <<file, config, argo, calls, hist>>
  BY ThreadFinds DEF ThreadStart
<1>2. r \in Row /\ r.status = "running"
  BY <1>1, StatusSet
<1>3. row' \in {NoRow, r}
  BY DEF ThreadStart, Update
<1>4. thread' \in {NoThread, t}
  BY <1>1 DEF ThreadStart, Thread
<1> HIDE DEF r
<1>5. t \in Thread /\ t.item = r /\ t.stage = "running"
  BY <1>1, <1>2 DEF Thread
<1> HIDE DEF t
<1>6. (Kept' <=> Kept) /\ file' \in Report
  BY <1>1, ThreadFinds DEF Kept, hist
<1>7. config' \in BOOLEAN
  BY <1>1, ThreadFinds, Zenon
<1>8. row' \in Row \cup {NoRow} /\ Backed(row', Kept') /\ Backed(r, Kept') /\ Backed(NoRow, Kept')
  BY <1>2, <1>3 DEF Backed
<1>9. CASE thread' = t
  BY <1>1, <1>2, <1>5, <1>6, <1>7, <1>8, <1>9, ThreadGoes
<1>10. CASE thread' = NoThread
  BY <1>1, <1>6, <1>7, <1>8, <1>10, ThreadFinds, ThreadGoes
<1> QED
  BY <1>4, <1>9, <1>10

LEMMA ThreadProgressStep == ASSUME IInv, ThreadProgress PROVE IInv'
<1> DEFINE t == [thread EXCEPT !.left = thread.left - 1]
<1>1. /\ thread \in Thread /\ thread.item \in Row /\ thread.stage = "running" /\ thread.left > 0
      /\ UNCHANGED <<file, config, argo, calls, hist>>
  BY ThreadFinds DEF ThreadProgress
<1>2. thread.left - 1 \in 0..Runs
  <2>1. thread.left \in 0..Runs
    BY <1>1 DEF Thread
  <2> QED
    BY <1>1, <2>1, BacktestJobsAssumption
<1>3. t \in Thread /\ t.item = thread.item /\ t.stage = "running"
  BY <1>1, <1>2 DEF Thread
<1>4. thread' \in {NoThread, t}
  BY DEF ThreadProgress
<1>5. row' \in {NoRow, thread.item}
  BY DEF ThreadProgress, Update
<1> HIDE DEF t
<1>6. (Kept' <=> Kept) /\ file' \in Report
  BY <1>1, ThreadFinds DEF Kept, hist
<1>7. config' \in BOOLEAN
  BY <1>1, ThreadFinds, Zenon
<1>8. /\ row' \in Row \cup {NoRow} /\ Backed(row', Kept')
      /\ Backed(thread.item, Kept') /\ Backed(NoRow, Kept')
  BY <1>1, <1>5, <1>6, ThreadFinds DEF Backed
<1>9. CASE thread' = t
  BY <1>1, <1>3, <1>6, <1>7, <1>8, <1>9, ThreadGoes
<1>10. CASE thread' = NoThread
  BY <1>1, <1>6, <1>7, <1>8, <1>10, ThreadFinds, ThreadGoes
<1> QED
  BY <1>4, <1>9, <1>10

LEMMA ThreadReportStep == ASSUME IInv, ThreadReport PROVE IInv'
<1>1. PICK r \in Result : file' = r /\ thread' = [thread EXCEPT !.stage = "reported", !.result = r]
  BY DEF ThreadReport
<1> DEFINE t == [thread EXCEPT !.stage = "reported", !.result = r]
<1>2. /\ thread \in Thread /\ thread.item \in Row
      /\ config' = TRUE /\ UNCHANGED <<row, argo, calls, hist>>
  BY ThreadFinds DEF ThreadReport
<1>3. t \in Thread /\ t.item = thread.item /\ t.stage = "reported" /\ t.result = r
  BY <1>1, <1>2 DEF Thread, Report
<1>4. thread' = t
  BY <1>1
<1> HIDE DEF t
<1>5. Kept' /\ file' \in Report
  BY <1>1 DEF Kept, Result, Report
<1>6. config' \in BOOLEAN
  BY <1>2, Zenon
<1>7. row' \in Row \cup {NoRow} /\ Backed(row', Kept') /\ Backed(t.item, Kept')
  BY <1>2, <1>3, <1>5, ThreadFinds DEF Backed
<1> QED
  BY <1>1, <1>2, <1>3, <1>4, <1>5, <1>6, <1>7, ThreadGoes

LEMMA ThreadEndStep == ASSUME IInv, ThreadFinish \/ ThreadFails PROVE IInv'
<1>1. thread' = NoThread /\ thread.item \in Row /\ UNCHANGED <<file, config, argo, calls, hist>>
  BY ThreadFinds DEF ThreadFinish, ThreadFails
<1>2. (Kept' <=> Kept) /\ file' \in Report
  BY <1>1, ThreadFinds DEF Kept, hist
<1>3. config' \in BOOLEAN
  BY <1>1, ThreadFinds, Zenon
<1>4. row' \in Row \cup {NoRow} /\ Backed(row', Kept')
  <2>1. CASE ThreadFinish
    <3>1. thread.result \in Result /\ Kept
      BY <2>1, ThreadFinds DEF ThreadFinish
    <3>2. row' = Finalized(thread.item, thread.result)
      BY <2>1 DEF ThreadFinish
    <3> QED
      BY <1>1, <1>2, <3>1, <3>2, FinalizedIsRow DEF Backed
  <2>2. CASE ThreadFails
    <3>1. row' \in {NoRow, [thread.item EXCEPT !.status = "failed"]}
      BY <2>2 DEF ThreadFails, Update
    <3> QED
      BY <1>1, <3>1, StatusSet DEF Backed
  <2> QED
    BY <2>1, <2>2
<1>5. Backed(NoRow, Kept')
  BY DEF Backed
<1> QED
  BY <1>1, <1>2, <1>3, <1>4, <1>5, ThreadFinds, ThreadGoes

\* The requests and the thread lose their copies; the reconciler keeps its own.
LEMMA CrashStep == ASSUME IInv, Crash PROVE IInv'
<1>1. /\ crashes < MaxCrashes /\ crashes' = crashes + 1 /\ thread' = NoThread
      /\ stage' = [c \in Caller |-> IF c = Reconciler THEN stage[c] ELSE "idle"]
      /\ item' = [c \in Caller |-> IF c = Reconciler THEN item[c] ELSE NoRow]
      /\ UNCHANGED <<row, file, config, argo, submitted, deleted, edits, relaunches>>
  BY DEF Crash
<1>2. phase' = phase /\ merge' = merge /\ (Kept' <=> Kept)
  BY <1>1 DEF argo, Kept
<1>3. TypeOK'
  <2>1. crashes' \in 0..MaxCrashes
    BY <1>1, BacktestJobsAssumption DEF IInv, TypeOK
  <2>2. stage' \in [Caller -> Stage] /\ item' \in [Caller -> Row \cup {NoRow}]
    BY <1>1 DEF IInv, TypeOK, Stage
  <2> QED
    BY <1>1, <1>2, <2>1, <2>2, ThreadFinds, Zenon DEF IInv, TypeOK
<1>4. CopiesOK'
  <2>1. ASSUME NEW c \in Caller PROVE CallOK(c)'
    <3>1. CASE c = Reconciler
      BY <1>1, <1>2, <3>1, OthersStay DEF IInv
    <3>2. CASE c # Reconciler
      BY <1>1, <3>2 DEF CallOK, Reported, Backed
    <3> QED
      BY <3>1, <3>2
  <2>2. Reported(row)' /\ (\A w \in Launch : MergeOK(w)')
    BY <1>1, <1>2, OthersStay DEF IInv
  <2>3. ThreadOK'
    BY <1>1, ThreadFinds DEF ThreadOK, Reported, Backed
  <2> QED
    BY <2>1, <2>2, <2>3 DEF CopiesOK
<1> QED
  BY <1>3, <1>4 DEF IInv

LEMMA StutterStep == ASSUME IInv, UNCHANGED vars PROVE IInv'
<1>1. UNCHANGED <<row, file, config, thread, argo, calls, hist>>
  BY DEF vars
<1>2. (Kept' <=> Kept) /\ config' \in BOOLEAN
  <2>1. Kept' <=> Kept
    BY <1>1 DEF Kept, hist
  <2>2. config' \in BOOLEAN
    BY <1>1, ThreadFinds, Zenon
  <2> QED
    BY <2>1, <2>2
<1>3. /\ Backed(row', Kept') /\ row' \in Row \cup {NoRow} /\ file' \in Report
      /\ Backed(thread.item, Kept')
  BY <1>1, <1>2, ThreadFinds DEF Backed
<1> QED
  BY <1>1, <1>2, <1>3, ThreadFinds, ThreadGoes

LEMMA NextIInv == IInv /\ [Next]_vars => IInv'
<1> SUFFICES ASSUME IInv, [Next]_vars PROVE IInv'
  OBVIOUS
<1>1. ASSUME NEW h \in Handler, NEW kind \in {"classic", "vectorbt"},
             NEW backend \in {"argo", "local"}, Submit(h, kind, backend)
      PROVE  IInv'
  BY <1>1, SubmitStep
<1>2. ASSUME NEW h \in Handler, Relaunch(h) \/ Edit(h) \/ DeleteRow(h) PROVE IInv'
  BY <1>2, RelaunchStep, EditStep, DeleteRowStep
<1>3. ASSUME NEW c \in Caller, Poll(c) \/ CallStep(c) PROVE IInv'
  BY <1>3, PollStep, ResetStep, LaunchTakenStep, LaunchFailsStep, WriteStep, DeleteFilesStep,
     PollOutcomeStep, PollSucceededStep, FinalizeStep DEF CallStep
<1>4. ASSUME NEW w \in Launch, WorkflowStep(w) PROVE IInv'
  BY <1>4, ShardsEndStep, MergePersistStep, MergeReadStep, MergeWriteStep, MergeDiesStep
     DEF WorkflowStep
<1>5. CASE ThreadStep
  BY <1>5, ThreadStartStep, ThreadProgressStep, ThreadReportStep, ThreadEndStep DEF ThreadStep
<1>6. CASE Crash
  BY <1>6, CrashStep
<1>7. CASE UNCHANGED vars
  BY <1>7, StutterStep
<1> QED
  BY <1>1, <1>2, <1>3, <1>4, <1>5, <1>6, <1>7 DEF Next

-----------------------------------------------------------------------------
(* Theorems.                                                               *)

\* The invariant holds in every state of every behaviour.
THEOREM Invariance == Spec => []IInv
BY InitIInv, NextIInv, PTL DEF Spec

\* Every variable keeps its type: whatever copy is written back, the row stays
\* a row.
THEOREM TypeCorrect == Spec => []TypeOK
<1>1. IInv => TypeOK
  BY DEF IInv
<1> QED
  BY <1>1, Invariance, PTL

\* Whoever wrote the row last, a job stored as completed has a report that did
\* not fail, and the report is on disk unless the job was deleted.
THEOREM CompletedReported == Spec => []CompletedHasReport
<1>1. IInv => CompletedHasReport
  BY DEF IInv, CopiesOK, Reported, Backed, Kept, CompletedHasReport
<1> QED
  BY <1>1, Invariance, PTL
=============================================================================
