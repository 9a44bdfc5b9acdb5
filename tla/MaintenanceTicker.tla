-------------------------- MODULE MaintenanceTicker --------------------------
(***************************************************************************)
(* Maintenance windows: the API that creates, edits and deletes them       *)
(* (backend/src/services/maintenanceService.js) and the worker's ticker    *)
(* that moves them from scheduled to in_progress to completed              *)
(* (backend/worker/processors/maintenance.processor.js).  The ticker runs  *)
(* every 30 seconds whether or not the previous run has ended.             *)
(***************************************************************************)
EXTENDS MonitorStore

CONSTANTS
    Tickers,            \* ticker runs that may overlap
    Editors             \* PATCH requests on windows in flight

VARIABLES
    tick,               \* tick[t]: the two lists a run has read, and where it is
    edit                \* edit[e]: an edit between its read and its write

tickVars == <<tick, edit>>

TickRow == [pc: {"idle", "complete", "windows", "service"},
            toStart: SUBSET Windows, toComplete: SUBSET Windows,
            cur: Windows \cup {Nobody},
            status: {"maintenance", "unknown"}]

IdleTick == [pc |-> "idle", toStart |-> {}, toComplete |-> {}, cur |-> Nobody,
             status |-> "unknown"]

TickTypeOK ==
    /\ tick \in [Tickers -> TickRow]
    /\ edit \in [Editors -> Windows \cup {Nobody}]

TickInit ==
    /\ tick = [t \in Tickers |-> IdleTick]
    /\ edit = [e \in Editors |-> Nobody]

-----------------------------------------------------------------------------
(* findPendingStatusTransitions: two queries, one after the other.         *)

(* Mutant of FindToStart: the times are compared, the status is not.       *)
FindToStartByTime(t) ==
    /\ tick[t].pc = "idle"
    /\ tick' = [tick EXCEPT ![t].pc = "complete",
            ![t].toStart = {w \in Windows : /\ window[w].status \notin {"none", "deleted"}
                                            /\ window[w].now # "before"}]
    /\ UNCHANGED <<storeVars, edit>>

FindToStart(t) ==
    /\ tick[t].pc = "idle"
    /\ tick' = [tick EXCEPT ![t].pc = "complete",
            ![t].toStart = {w \in Windows : /\ window[w].status = "scheduled"
                                            /\ window[w].now # "before"}]
    /\ UNCHANGED <<storeVars, edit>>

FindToComplete(t) ==
    /\ tick[t].pc = "complete"
    /\ tick' = [tick EXCEPT ![t].pc = "windows",
            ![t].toComplete = {w \in Windows : /\ window[w].status = "in_progress"
                                               /\ window[w].now = "after"}]
    /\ UNCHANGED <<storeVars, edit>>

(* The windows to start come first.  The row is updated by id whatever its *)
(* status has become; if it was deleted the update throws and the run ends *)
(* with the rest of its lists untouched.                                   *)
Transition(t, w) ==
    LET starting == w \in tick[t].toStart IN
    /\ tick[t].pc = "windows"
    /\ w \in IF tick[t].toStart # {} THEN tick[t].toStart ELSE tick[t].toComplete
    /\ IF window[w].status = "deleted"
       THEN /\ tick' = [tick EXCEPT ![t] = IdleTick]
            /\ UNCHANGED window
       ELSE /\ window' = [window EXCEPT ![w].status =
                              IF starting THEN "in_progress" ELSE "completed"]
            /\ tick' = [tick EXCEPT
                   ![t].toStart = @ \ {w},
                   ![t].toComplete = IF starting THEN @ ELSE @ \ {w},
                   ![t].pc = IF window[w].svc = Nobody THEN "windows" ELSE "service",
                   ![t].cur = IF window[w].svc = Nobody THEN Nobody ELSE w,
                   ![t].status = IF starting THEN "maintenance" ELSE "unknown"]
    /\ UNCHANGED <<service, checks, incident, lockVars, faults, edit>>

(* The service's status is overwritten whatever it was.                    *)
TransitionService(t) ==
    LET s == window[tick[t].cur].svc IN
    /\ tick[t].pc = "service"
    /\ serviceLock[s] = Nobody
    /\ service' = [service EXCEPT ![s].status = tick[t].status]
    /\ tick' = [tick EXCEPT ![t].pc = "windows", ![t].cur = Nobody, ![t].status = "unknown"]
    /\ UNCHANGED <<checks, incident, window, lockVars, faults, edit>>

EndTick(t) ==
    /\ tick[t].pc = "windows"
    /\ tick[t].toStart = {} /\ tick[t].toComplete = {}
    /\ tick' = [tick EXCEPT ![t] = IdleTick]
    /\ UNCHANGED <<storeVars, edit>>

(* A query fails; the ticker only logs it.                                 *)
TickError(t) ==
    /\ tick[t].pc # "idle"
    /\ Fault
    /\ tick' = [tick EXCEPT ![t] = IdleTick]
    /\ UNCHANGED <<rowVars, lockVars, edit>>

-----------------------------------------------------------------------------
(* The API.                                                                *)

(* The initial status follows from the times.                              *)
CreateWindow(w, s, now) ==
    /\ window[w] = NoWindow
    /\ window' = [window EXCEPT ![w] =
            [svc |-> s, now |-> now,
             status |-> CASE now = "before" -> "scheduled"
                          [] now = "inside" -> "in_progress"
                          [] now = "after" -> "completed"]]
    /\ UNCHANGED <<service, checks, incident, lockVars, faults, tickVars>>

(* MaintenanceService.update refuses a window it reads as completed ...    *)
ReadWindow(e, w) ==
    /\ edit[e] = Nobody
    /\ window[w].status \in {"scheduled", "in_progress"}
    /\ edit' = [edit EXCEPT ![e] = w]
    /\ UNCHANGED <<storeVars, tick>>

(* ... and then writes the new times; the status column stays as it is,    *)
(* and a row deleted in between makes the request fail.                    *)
WriteWindow(e, now) ==
    /\ edit[e] # Nobody
    /\ window' = IF window[edit[e]].status = "deleted" THEN window
                 ELSE [window EXCEPT ![edit[e]].now = now]
    /\ edit' = [edit EXCEPT ![e] = Nobody]
    /\ UNCHANGED <<service, checks, incident, lockVars, faults, tick>>

(* Deleting a window does not touch the service it put in maintenance.     *)
RemoveWindow(w) ==
    /\ window[w].status \notin {"none", "deleted"}
    /\ window' = [window EXCEPT ![w].status = "deleted"]
    /\ UNCHANGED <<service, checks, incident, lockVars, faults, tickVars>>

(* Time passes startTime or endTime.                                       *)
ClockPasses(w) ==
    /\ window[w].status \notin {"none", "deleted"}
    /\ window[w].now # "after"
    /\ window' = [window EXCEPT ![w].now = IF @ = "before" THEN "inside" ELSE "after"]
    /\ UNCHANGED <<service, checks, incident, lockVars, faults, tickVars>>

TickStep(t) ==
    \/ FindToStart(t) \/ FindToComplete(t)
    \/ \E w \in Windows : Transition(t, w)
    \/ TransitionService(t) \/ EndTick(t)

WindowApiNext ==
    \/ \E w \in Windows :
          \/ \E s \in Services \cup {Nobody}, now \in {"before", "inside", "after"} :
                CreateWindow(w, s, now)
          \/ RemoveWindow(w)
          \/ ClockPasses(w)
    \/ \E e \in Editors : \/ \E w \in Windows : ReadWindow(e, w)
                          \/ \E now \in {"before", "inside", "after"} : WriteWindow(e, now)

MaintenanceNext ==
    \/ \E t \in Tickers : TickStep(t) \/ TickError(t)
    \/ WindowApiNext
=============================================================================
