------------------------------ MODULE JobStatus ------------------------------
(***************************************************************************)
(* The lifecycle statuses of a job and the predicates every component of   *)
(* the runner decides by (jobs/helpers.ts).  Statuses no predicate and no  *)
(* handler tells apart are one value here: "running" stands for 'coding',  *)
(* 'queued' and every status a workflow gives to a phase with an agent;    *)
(* "awaiting-event" for plan approval, PR merge and a campaign's children. *)
(*                                                                         *)
(* In this and the other modules a definition named ...Fault is the one    *)
(* after it with a plausible slip; only mutation runs use it, to see that  *)
(* a property notices.                                                     *)
(***************************************************************************)

Running == "running"
AwaitingInput == "awaiting-developer-input"
AwaitingEvent == "awaiting-event"
AwaitingRateLimit == "awaiting-rate-limit"
Escalated == "escalated"
Failed == "failed"
Complete == "complete"
Cancelled == "cancelled"

Statuses == {Running, AwaitingInput, AwaitingEvent, AwaitingRateLimit,
             Escalated, Failed, Complete, Cancelled}

\* isTerminalStatus
Terminal(s) == s \in {Complete, Cancelled}

\* isResumableStatus and isCancellableStatus
ResumableFault(s) == s # Complete
Resumable(s) == ~Terminal(s)

\* isStoppedStatus
Stopped(s) == s \in {Complete, Cancelled, Failed, Escalated}

\* isParkingStatus
Parking(s) == s \in {AwaitingInput, AwaitingEvent, AwaitingRateLimit,
                     Escalated, Failed}
=============================================================================
