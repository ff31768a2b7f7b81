----------------------------- MODULE ScheduledReports -----------------------------
(***************************************************************************)
(* One scheduled report.  Its row says whether and when it runs; a BullMQ  *)
(* repeatable job makes it run.  The services change one after the other   *)
(* in separate statements.  The processor turns each job into a ReportRun: *)
(* it renders and stores the file, e-mails it and closes the run.          *)
(***************************************************************************)
EXTENDS Naturals, FiniteSets

CONSTANTS
    Managers,      \* requests on the report that can be in progress at once
    Crons,         \* cron patterns
    Renderers,     \* workers of the scheduled-reports queue
    MaxRequests,   \* bound: requests
    MaxRuns,       \* bound: ReportRun rows, one for each job that falls due or is run again
    MaxFaults      \* bound: database, queue, storage and e-mail errors and crashes

ASSUME ScheduledReportsAssumption ==
    MaxRequests \in Nat /\ MaxRuns \in Nat /\ MaxFaults \in 0..MaxRuns

VARIABLES
    report,        \* the ScheduledReport row
    registered,    \* cron patterns of the repeatable jobs with the report's job id
    handling,      \* what each request has read and does next
    due,           \* "run" jobs that wait
    rendering,     \* what each worker is doing
    reportRun,     \* ReportRun rows, numbered as they are created, with history
    spent,         \* requests, jobs that fell due and faults so far
    unsettled      \* history: requests overlapped, or one stopped halfway

reportVars == <<report, registered, handling, due, rendering, reportRun, spent, unsettled>>

------------------------------------------------------------------------------
NoCron == "none"
NotHandling == [op |-> "none", stage |-> "none", cron |-> NoCron, active |-> FALSE, key |-> NoCron]
NotRendering == [stage |-> "none", run |-> 0]
ReportRuns == 1..MaxRuns

\* reportRun.emailed and .cut are history: the file was sent; a crash or a database
\* error kept the run from being closed.
ReportsInit ==
    /\ report = [row |-> "unborn", active |-> FALSE, cron |-> NoCron]
    /\ registered = {}
    /\ handling = [m \in Managers |-> NotHandling]
    /\ due = 0
    /\ rendering = [w \in Renderers |-> NotRendering]
    /\ reportRun = [i \in ReportRuns |-> [status |-> "none", emailed |-> FALSE, cut |-> FALSE]]
    /\ spent = [requests |-> 0, due |-> 0, faults |-> 0]
    /\ unsettled = FALSE

Faults == spent.faults < MaxFaults /\ spent' = [spent EXCEPT !.faults = @ + 1]

(* ScheduledReportService *)

Handles(m, h) ==
    /\ handling[m] = NotHandling /\ spent.requests < MaxRequests
    /\ spent' = [spent EXCEPT !.requests = @ + 1]
    /\ handling' = [handling EXCEPT ![m] = h]
    /\ unsettled' = (unsettled \/ \E o \in Managers : handling[o] # NotHandling)
Proceeds(m, stage) == handling' = [handling EXCEPT ![m].stage = stage]
Handled(m) == handling' = [handling EXCEPT ![m] = NotHandling]

\* create: the row, then the job.
CreateReport(m, cron) ==
    /\ report.row = "unborn"
    /\ Handles(m, [NotHandling EXCEPT !.op = "create", !.stage = "add", !.cron = cron, !.active = TRUE])
    /\ report' = [row |-> "stored", active |-> TRUE, cron |-> cron]
    /\ UNCHANGED <<registered, due, rendering, reportRun>>

\* Mutant: a report switched on or off keeps its job.
OnlyCron(cron, active) == cron # report.cron
\* The cron or the activity changes, which moves the job.
MovesJob(cron, active) == cron # report.cron \/ active # report.active

\* update reads the row; remove does too.
ReadReport(m, op, cron, active) ==
    /\ report.row = "stored"
    /\ op = "remove" => cron = report.cron /\ ~active
    /\ Handles(m, [NotHandling EXCEPT !.op = op, !.cron = cron, !.active = active,
                       !.stage = IF op = "remove" \/ MovesJob(cron, active) THEN "find" ELSE "store"])
    /\ UNCHANGED <<report, registered, due, rendering, reportRun>>

AfterRemoval(h) == IF h.op = "update" /\ h.active THEN "add" ELSE "store"

\* removeRepeatableJob: the first job with the report's id is looked for,
FindJob(m) ==
    /\ handling[m].stage = "find"
    /\ \/ \E key \in registered :
              handling' = [handling EXCEPT ![m].stage = "drop", ![m].key = key]
       \/ registered = {} /\ Proceeds(m, AfterRemoval(handling[m]))
    /\ UNCHANGED <<report, registered, due, rendering, reportRun, spent, unsettled>>

\* and removed by its key.
DropJob(m) ==
    /\ handling[m].stage = "drop"
    /\ registered' = registered \ {handling[m].key}
    /\ Proceeds(m, AfterRemoval(handling[m]))
    /\ UNCHANGED <<report, due, rendering, reportRun, spent, unsettled>>

\* addRepeatableJob: a repeatable job is told from another by its cron too.
AddRepeatable(m) ==
    /\ handling[m].stage = "add"
    /\ registered' = registered \cup {handling[m].cron}
    /\ IF handling[m].op = "create" THEN Handled(m) ELSE Proceeds(m, "store")
    /\ UNCHANGED <<report, due, rendering, reportRun, spent, unsettled>>

\* The row is updated or deleted; that fails when it is gone.
StoreReport(m) ==
    /\ handling[m].stage = "store"
    /\ LET h == handling[m]
       IN report' = IF report.row # "stored" THEN report
                    ELSE IF h.op = "remove" THEN [report EXCEPT !.row = "deleted"]
                    ELSE [report EXCEPT !.active = h.active, !.cron = h.cron]
    /\ Handled(m)
    /\ UNCHANGED <<registered, due, rendering, reportRun, spent, unsettled>>

\* An error or a crash ends a request; before the job is looked for nothing has changed.
StopHandling(m) ==
    /\ handling[m] # NotHandling /\ Faults
    /\ Handled(m)
    /\ unsettled' = (unsettled \/ handling[m].stage # "find")
    /\ UNCHANGED <<report, registered, due, rendering, reportRun>>

\* BullMQ adds a job when a repeatable one falls due; "run now" adds one too.
FallsDue ==
    /\ registered # {} \/ report.row = "stored"
    /\ spent.due < MaxRuns - MaxFaults
    /\ spent' = [spent EXCEPT !.due = @ + 1]
    /\ due' = due + 1
    /\ UNCHANGED <<report, registered, handling, rendering, reportRun, unsettled>>

(* ScheduledReportProcessor *)

NextRun == Cardinality({i \in ReportRuns : reportRun[i].status # "none"}) + 1

\* process: a report that is gone or inactive is skipped; otherwise a run is opened.
StartRun(w) ==
    /\ rendering[w] = NotRendering /\ due > 0
    /\ due' = due - 1
    /\ IF report.row = "stored" /\ report.active
       THEN /\ reportRun' = [reportRun EXCEPT ![NextRun].status = "RUNNING"]
            /\ rendering' = [rendering EXCEPT ![w] = [stage |-> "render", run |-> NextRun]]
       ELSE UNCHANGED <<reportRun, rendering>>
    /\ UNCHANGED <<report, registered, handling, spent, unsettled>>

\* Mutant: the run is closed before the file is sent.
SendsLast == [render |-> "close", close |-> "email", email |-> "stamp"]
\* The file is generated and stored, sent, the run closed, the report stamped.
RunStages == [render |-> "email", email |-> "close", close |-> "stamp"]

\* A step of runReport; it closes the run when it has reached "close".
RenderStep(w) ==
    /\ rendering[w].stage \in {"render", "email", "close"}
    /\ LET i == rendering[w].run
           stage == rendering[w].stage
       IN /\ reportRun' = [reportRun EXCEPT
                 ![i].emailed = @ \/ stage = "email",
                 ![i].status = IF stage = "close" THEN "SUCCEEDED" ELSE @]
          /\ rendering' = [rendering EXCEPT ![w].stage = RunStages[stage]]
    /\ UNCHANGED <<report, registered, handling, due, spent, unsettled>>

\* lastRunAt is stored, which fails when the report was deleted meanwhile.
StampReport(w) ==
    /\ rendering[w].stage = "stamp"
    /\ rendering' = [rendering EXCEPT ![w] = IF report.row = "stored" THEN NotRendering
                                             ELSE [@ EXCEPT !.stage = "failed"]]
    /\ UNCHANGED <<report, registered, handling, due, reportRun, spent, unsettled>>

\* A step throws; an e-mail may have left already.
StepThrows(w) ==
    /\ rendering[w].stage \in {"render", "email", "close", "stamp"} /\ Faults
    /\ \/ UNCHANGED reportRun
       \/ /\ rendering[w].stage = "email"
          /\ reportRun' = [reportRun EXCEPT ![rendering[w].run].emailed = TRUE]
    /\ rendering' = [rendering EXCEPT ![w].stage = "failed"]
    /\ UNCHANGED <<report, registered, handling, due, unsettled>>

\* The catch block: whatever was stored, the run is FAILED; the job is not retried.
MarkFailed(w) ==
    /\ rendering[w].stage = "failed"
    /\ reportRun' = [reportRun EXCEPT ![rendering[w].run].status = "FAILED"]
    /\ rendering' = [rendering EXCEPT ![w] = NotRendering]
    /\ UNCHANGED <<report, registered, handling, due, spent, unsettled>>

\* The run is not closed: the catch block fails, or the worker's process dies and the
\* stalled job is run again.
CutRun(w) ==
    /\ rendering[w] # NotRendering /\ Faults
    /\ reportRun' = [reportRun EXCEPT ![rendering[w].run].cut = TRUE]
    /\ rendering' = [rendering EXCEPT ![w] = NotRendering]
    /\ \/ rendering[w].stage = "failed" /\ UNCHANGED due
       \/ due' = due + 1
    /\ UNCHANGED <<report, registered, handling, unsettled>>

ReportsNext ==
    \/ \E m \in Managers :
           \/ FindJob(m) \/ DropJob(m) \/ AddRepeatable(m) \/ StoreReport(m) \/ StopHandling(m)
           \/ \E cron \in Crons :
                  \/ CreateReport(m, cron)
                  \/ \E op \in {"update", "remove"}, active \in BOOLEAN :
                         ReadReport(m, op, cron, active)
    \/ FallsDue
    \/ \E w \in Renderers :
           \/ StartRun(w) \/ RenderStep(w) \/ StampReport(w)
           \/ StepThrows(w) \/ MarkFailed(w) \/ CutRun(w)

ReportsSpec == ReportsInit /\ [][ReportsNext]_reportVars

------------------------------------------------------------------------------
(* Properties *)

\* Every variable holds a value of its type.
ReportsTypeOK ==
    /\ report \in [row : {"unborn", "stored", "deleted"}, active : BOOLEAN, cron : Crons \cup {NoCron}]
    /\ registered \subseteq Crons
    /\ \A m \in Managers :
           /\ handling[m].op \in {"none", "create", "update", "remove"}
           /\ handling[m].stage \in {"none", "find", "drop", "add", "store"}
           /\ {handling[m].cron, handling[m].key} \subseteq Crons \cup {NoCron}
           /\ handling[m].active \in BOOLEAN
    /\ due \in 0..MaxRuns
    /\ rendering \in [Renderers -> [stage : {"none", "render", "email", "close", "stamp", "failed"},
                                    run : 0..MaxRuns]]
    /\ reportRun \in [ReportRuns -> [status : {"none", "RUNNING", "SUCCEEDED", "FAILED"},
                                     emailed : BOOLEAN, cut : BOOLEAN]]
    /\ unsettled \in BOOLEAN

Settled == \A m \in Managers : handling[m] = NotHandling
WantedCrons == IF report.row = "stored" /\ report.active THEN {report.cron} ELSE {}

\* Between requests the queue repeats the report exactly as its row says, once per
\* active report and never for a deleted one, unless requests overlapped or one stopped
\* after it began to change them.  A run that says SUCCEEDED was sent, and one that no
\* worker is busy with is closed, unless it was cut.
ScheduleFollowsReport ==
    /\ Settled /\ ~unsettled => registered = WantedCrons
    /\ \A i \in ReportRuns :
           /\ reportRun[i].status = "SUCCEEDED" => reportRun[i].emailed
           /\ reportRun[i].status = "RUNNING" =>
                  reportRun[i].cut \/ \E w \in Renderers : rendering[w].run = i
===============================================================================
