----------------------------- MODULE JobLifecycle -----------------------------
(***************************************************************************)
(* One job, the Dispatcher that serialises its runs (jobs/dispatcher.ts),  *)
(* the runner that executes them (runJob in jobs/runner.ts) and the timer  *)
(* that wakes it after a rate limit (jobs/rate-limit-scheduler.ts).        *)
(* Every structure of the dispatcher is keyed by jobId and no handler      *)
(* below touches another job's entry, so one job is the general case.      *)
(*                                                                         *)
(* The processes are the asynchronous calls of one Node process: a run     *)
(* (runJob and the drain in fireAndForget's finally), an API call, a       *)
(* webhook, a timer callback.  Each occupies a slot of Tasks and is cut    *)
(* where the code awaits the state backend, so it decides by a copy of the *)
(* row ("live") that may be stale when it writes.                          *)
(*                                                                         *)
(*   Hybrid = FALSE: sqlite-backend.ts.  Its awaits are microtasks, so a   *)
(*     task runs to its next real I/O (Resting) before another one moves.  *)
(*   Hybrid = TRUE: cloud-backend.ts.  Every read and write is an RPC over *)
(*     the WebSocket: tasks interleave at each one, JSON drops the keys a  *)
(*     patch sets to undefined, and there is no column for rateLimitInfo   *)
(*     or interactive.                                                     *)
(***************************************************************************)
EXTENDS JobStatus, Naturals

CONSTANTS
    Tasks,        (* slots for asynchronous calls in flight                    *)
    Messages,     (* developer messages, each sent once                        *)
    Events,       (* webhook events, each delivered once                       *)
    Correction,   (* the corrective prompt of a completion or advance gate     *)
    LastPhase,    (* the workflow's phases are 1..LastPhase                    *)
    Checkpoints,  (* phases declared interactiveCheckpoint                     *)
    Agentless,    (* phases without agent, with a parking status               *)
    MaxTries,     (* COMPLETION_ and PHASE_ADVANCE_GATE_MAX_RETRIES            *)
    Hybrid,       (* TRUE: cloud state backend, FALSE: local SQLite            *)
    Decides,      (* a decision layer is configured (decision/layer.ts)        *)
    Controls,     (* the control operations developers use                     *)
    Outcomes,     (* what agents, executors and gates may do besides finishing *)
    MaxControls,  (* bound: control operations in a behaviour                  *)
    MaxLoops,     (* bound: jumps, parks and throws of agents in a behaviour   *)
    MaxRestarts   (* bound: process restarts in a behaviour                    *)

Notes == Messages \cup Events
Texts == Notes \cup {Correction}
Phases == 1 .. LastPhase

\* How a phase's execution may end, and what else may happen to it.
Signals == {"goto", "input", "approval", "event"}
Throws == {"ratelimit", "crash", "recoverable"}
Incidents == {"escalated", "stalled", "gate", "coverage", "overseer", "bootfail", "unprepared"}

ASSUME ModeAssumption == Hybrid \in BOOLEAN /\ Decides \in BOOLEAN
ASSUME PhaseAssumption == /\ LastPhase \in Nat \ {0}
                          /\ Checkpoints \subseteq Phases
                          /\ Agentless \subseteq Phases
ASSUME NoteAssumption == /\ Messages \cap Events = {}
                         /\ Correction \notin Notes
ASSUME OptionAssumption == /\ Controls \subseteq {"cancel", "pause", "resume", "rerun", "toggle"}
                           /\ Outcomes \subseteq Signals \cup Throws \cup Incidents
ASSUME BoundAssumption == /\ MaxTries \in Nat /\ MaxControls \in Nat
                          /\ MaxLoops \in Nat /\ MaxRestarts \in Nat

VARIABLES
    row,       (* the persisted job                                             *)
    active,    (* activeJobs has the job                                        *)
    queue,     (* eventQueue: webhook events waiting for the run to end         *)
    deferred,  (* deferredDispatch has the job                                  *)
    timer,     (* RateLimitScheduler.timers has the job                         *)
    session,   (* the phase's input channel: "closed" (none in activeInputQueues),*)
               (* "deaf" (a push is lost), "open" or "stopping" (activeSessions) *)
    inbox,     (* messages pushed to the session and not yet read by the agent  *)
    task,      (* the asynchronous calls in flight                              *)
    sent,      (* history: notes that arrived                                   *)
    seen,      (* history: notes an agent was given                             *)
    spent      (* how much of each bound is used                                *)

ram == <<active, queue, deferred, timer, session, inbox>>
vars == <<row, active, queue, deferred, timer, session, inbox, task, sent, seen, spent>>

-----------------------------------------------------------------------------
(* The persisted job: 0 and "none" stand for undefined.                      *)

Markers == {"none", "paused", "stalled", "checkpoint", "overseer", "input", "event"}

Rows == [status: Statuses, phase: Phases, prompt: SUBSET Texts,
         awaiting: Markers, next: Phases \cup {0}, approved: Phases \cup {0},
         interactive: BOOLEAN]

\* A patch that sets a field to undefined: JSON.stringify drops the key on the
\* way to the cloud, so there the stored value survives.
Clear(old, undef) == IF Hybrid THEN old ELSE undef
Store(old, new, undef) == IF new = undef THEN Clear(old, undef) ELSE new

NextPhaseFault(p) == p + 1
NextPhase(p) == IF p = LastPhase THEN 0 ELSE p + 1
PhaseStatus(p) == IF p \in Agentless THEN AwaitingEvent ELSE Running

-----------------------------------------------------------------------------
(* Tasks.  live is the copy of the row the task holds, notes the texts it    *)
(* carries, out what it was asked to do or how its phase ended, to a target  *)
(* phase, approved the run's checkpointApproved, tries its gate attempts.    *)

RunPCs == {"boot", "loading", "top", "prep", "status", "park", "open", "auth", "exec",
           "usage", "post", "commit", "consult", "decide", "leave",
           "limited", "limit", "arm", "thrown", "crash", "fin"}
DrainPCs == {"drain", "redispatch"}
WakePCs == {"batch", "inject", "fire"}
CallPCs == {"cancel", "drop", "pause", "stop", "message", "queue",
            "resume-note", "reopen", "event", "toggle", "rerun",
            "release", "resume", "resuming", "wake"}
PCs == {"idle"} \cup RunPCs \cup DrainPCs \cup WakePCs \cup CallPCs

\* Where a task waits for real I/O even with the local state backend: cloning
\* and resolving intelligence, building the prompt, probing the credentials, the
\* agent's own work, and the answers of a decision provider.
Resting == {"idle", "loading", "prep", "status", "auth", "exec"}
           \cup (IF Decides THEN {"inject", "consult"} ELSE {})

Outs == {"none", "done", "on", "off", "timer"} \cup Signals \cup Throws \cup Incidents

TaskStates == [pc: PCs, live: Rows, notes: SUBSET Texts, out: Outs,
               to: Phases \cup {0}, approved: BOOLEAN, tries: 0 .. MaxTries]

Spending == [controls: 0 .. MaxControls, loops: 0 .. MaxLoops, restarts: 0 .. MaxRestarts]

Blank == [status |-> Running, phase |-> 1, prompt |-> {}, awaiting |-> "none",
          next |-> 0, approved |-> 0, interactive |-> FALSE]
Idle == [pc |-> "idle", live |-> Blank, notes |-> {}, out |-> "none",
         to |-> 0, approved |-> FALSE, tries |-> 0]

MayStep(t) == Hybrid \/ \A u \in Tasks \ {t} : task[u].pc \in Resting
At(t, pc) == task[t].pc = pc /\ MayStep(t)
Become(t, state) == task' = [task EXCEPT ![t] = state]
Go(t, pc) == Become(t, [task[t] EXCEPT !.pc = pc])
Start(t, pc, notes, out, to) ==
    Become(t, [Idle EXCEPT !.pc = pc, !.live = row, !.notes = notes,
                           !.out = out, !.to = to])

Init ==
    /\ \E i \in BOOLEAN : row = [Blank EXCEPT !.interactive = i]
    /\ active = FALSE /\ queue = {} /\ deferred = FALSE
    /\ timer = FALSE /\ session = "closed" /\ inbox = {}
    /\ \E t \in Tasks :
          task = [u \in Tasks |-> IF u = t THEN [Idle EXCEPT !.pc = "fire"] ELSE Idle]
    /\ sent = {} /\ seen = {}
    /\ spent = [controls |-> 0, loops |-> 0, restarts |-> 0]

-----------------------------------------------------------------------------
(* A run, up to the agent's work.                                            *)

Live(t) == task[t].live
Settle(t) == Become(t, [Idle EXCEPT !.pc = "fin"])
Sync(t, pc, new) ==
    /\ row' = new
    /\ Become(t, [task[t] EXCEPT !.pc = pc, !.live = new])
Fail(t) == row' = [row EXCEPT !.status = Failed] /\ Settle(t)
Quiet == UNCHANGED <<ram, sent, seen, spent>>

\* refreshJobForBoundary: the run ends when the stored status is terminal, or
\* parking and not the status the run last saw.  Otherwise it keeps its copy.
MustStopFault(t) == Parking(row.status) /\ row.status # Live(t).status
MustStop(t) == \/ Terminal(row.status)
               \/ Parking(row.status) /\ row.status # Live(t).status

\* fireAndForget, up to its promise.
MustDeferFault == FALSE
MustDefer == active
Fire(t) ==
    /\ At(t, "fire")
    /\ IF MustDefer THEN deferred' = TRUE /\ Become(t, Idle) /\ UNCHANGED active
                 ELSE active' = TRUE /\ Become(t, [Idle EXCEPT !.pc = "boot"])
                      /\ UNCHANGED deferred
    /\ UNCHANGED <<row, queue, timer, session, inbox, sent, seen, spent>>

Boot(t) ==
    /\ At(t, "boot")
    /\ Become(t, [task[t] EXCEPT !.pc = "loading", !.live = row])
    /\ UNCHANGED row /\ Quiet

\* The workflow cannot be resolved, lacks the phase, or runJob throws.
BootFails(t) ==
    /\ \E pc \in {"loading", "prep"} : At(t, pc)
    /\ "bootfail" \in Outcomes
    /\ Fail(t)
    /\ Quiet

Load(t) ==
    /\ At(t, "loading")
    /\ IF Terminal(Live(t).status) THEN Settle(t) ELSE Go(t, "top")
    /\ UNCHANGED row /\ Quiet

StartPhase(t) ==
    /\ At(t, "top")
    /\ IF MustStop(t) THEN Settle(t) ELSE Go(t, "prep")
    /\ UNCHANGED row /\ Quiet

\* The prompt is the run's copy of pendingPrompt; the stored one is cleared.
ConsumedFault(prompt) == prompt
Consumed(prompt) == Clear(prompt, {})
TakePrompt(t) ==
    /\ At(t, "prep")
    /\ LET new == [row EXCEPT !.prompt = Consumed(@)]
       IN IF Live(t).prompt = {}
          THEN Go(t, "status") /\ UNCHANGED row
          ELSE /\ row' = new
               /\ Become(t, [task[t] EXCEPT !.pc = "status", !.live = new,
                                            !.notes = Live(t).prompt])
    /\ Quiet

\* The phase's status is stored whatever the stored status is by now.
EnterPhase(t) ==
    /\ At(t, "status")
    /\ Sync(t, IF Live(t).phase \in Agentless THEN "park" ELSE "open",
            [row EXCEPT !.status = PhaseStatus(Live(t).phase)])
    /\ Quiet

ParkAgentless(t) ==
    /\ At(t, "park")
    /\ row' = IF MustStop(t) THEN row ELSE [row EXCEPT !.awaiting = "event"]
    /\ Settle(t)
    /\ Quiet

\* onPhasePrepare: the channel is registered while its push still does nothing.
OpenChannel(t) ==
    /\ At(t, "open")
    /\ session' = "deaf" /\ inbox' = {}
    /\ Go(t, "auth")
    /\ UNCHANGED <<row, active, queue, deferred, timer, sent, seen, spent>>

\* The executor connects the channel and the agent is given the prompt.
StartSession(t) ==
    /\ At(t, "auth")
    /\ session' = "open"
    /\ seen' = seen \cup task[t].notes
    /\ Become(t, [task[t] EXCEPT !.pc = "exec", !.notes = {}])
    /\ UNCHANGED <<row, active, queue, deferred, timer, inbox, sent, spent>>

\* No executor or no prompt can be had ("unprepared"), or the executor finds the
\* credentials wanting ("bootfail"): the run is thrown out with the prompt it
\* took, and nobody takes the channel back.
PreparationThrows(t) ==
    /\ \/ At(t, "status") /\ "unprepared" \in Outcomes
       \/ At(t, "auth") /\ "bootfail" \in Outcomes
    /\ Become(t, [Idle EXCEPT !.pc = "thrown", !.out = "crash"])
    /\ UNCHANGED row /\ Quiet

-----------------------------------------------------------------------------
(* While the agent works.                                                    *)

ReadInbox(t) ==
    /\ At(t, "exec")
    /\ session = "open" /\ inbox # {}
    /\ seen' = seen \cup inbox /\ inbox' = {}
    /\ UNCHANGED <<row, active, queue, deferred, timer, session, task, sent, spent>>

\* The escalate tool stores the status at once; the run ends at its next event.
AgentEscalates(t) ==
    /\ At(t, "exec") /\ task[t].out = "none"
    /\ "escalated" \in Outcomes
    /\ row' = [row EXCEPT !.status = Escalated]
    /\ Become(t, [task[t] EXCEPT !.out = "escalated"])
    /\ Quiet

\* The idle watchdog acts by the run's copy of the status, then stops the phase.
WatchdogParks(t) ==
    /\ At(t, "exec") /\ task[t].out = "none" /\ session = "open"
    /\ "stalled" \in Outcomes
    /\ Live(t).status = Running
    /\ row' = [row EXCEPT !.status = AwaitingInput, !.awaiting = "stalled",
                          !.next = Clear(@, 0), !.approved = Clear(@, 0)]
    /\ session' = "stopping"
    /\ Become(t, [task[t] EXCEPT !.out = "stalled"])
    /\ UNCHANGED <<active, queue, deferred, timer, inbox, sent, seen, spent>>

\* Its backstop: the phase did not stop within the grace period.
WatchdogFails(t) ==
    /\ At(t, "exec") /\ task[t].out = "stalled"
    /\ row.status = Running
    /\ row' = [row EXCEPT !.status = Failed]
    /\ UNCHANGED task /\ Quiet

\* onSessionEnd
CloseSessionFault == UNCHANGED session /\ inbox' = {}
CloseSession == session' = "closed" /\ inbox' = {}

\* The event loop ends: by itself (also when the session was stopped), by a
\* signal of the agent, or by an exception.
PhaseEnds(t) ==
    /\ At(t, "exec")
    /\ \E o \in {"done"} \cup ((Signals \cup Throws) \cap Outcomes),
          q \in Phases :
          /\ q # 1 => o = "goto"
          /\ o \in {"goto", "ratelimit"} => spent.loops < MaxLoops
          /\ spent' = [spent EXCEPT !.loops =
                          IF o \in {"goto", "ratelimit"} THEN @ + 1 ELSE @]
          /\ Become(t, [task[t] EXCEPT
                !.pc = CASE o = "ratelimit" -> "limited"
                         [] o \in {"crash", "recoverable"} -> "thrown"
                         [] OTHER -> "usage",
                !.out = IF @ = "escalated" /\ o \notin Throws THEN @ ELSE o,
                !.to = IF o = "goto" THEN q ELSE 0])
    /\ CloseSession
    /\ UNCHANGED <<row, active, queue, deferred, timer, sent, seen>>

-----------------------------------------------------------------------------
(* After the agent's work.  Consecutive reads of the row with no write in    *)
(* between are one step, at the last of them.                                *)

\* The token usage is stored, and the row that comes back is the new copy.
RecordUsage(t) ==
    /\ At(t, "usage")
    /\ Sync(t, "post", row)
    /\ Quiet

\* post-query and the boundary check before each write; the interactive flag
\* alone is read afresh when the run is about to leave the phase.
CheckBoundary(t) ==
    /\ At(t, "post")
    /\ IF MustStop(t) \/ task[t].out = "escalated"
       THEN Settle(t)
       ELSE Become(t, [task[t] EXCEPT !.pc = "commit",
               !.approved = Live(t).approved = Live(t).phase,
               !.live.interactive = IF task[t].out \in {"done", "goto"}
                                    THEN row.interactive ELSE @])
    /\ UNCHANGED row /\ Quiet

Target(t) == IF task[t].to # 0 THEN task[t].to ELSE NextPhase(Live(t).phase)
Advancing(t) == At(t, "commit") /\ task[t].out \in {"done", "goto"} /\ Target(t) # 0
Finishing(t) == At(t, "commit") /\ task[t].out = "done" /\ Target(t) = 0

ParkOnEvent(t) ==
    /\ At(t, "commit") /\ task[t].out \in {"input", "approval", "event"}
    /\ LET asks == /\ task[t].out = "approval"
                   /\ Live(t).interactive /\ Live(t).phase \in Checkpoints
           next == IF asks THEN NextPhase(Live(t).phase) ELSE 0
       IN row' = [row EXCEPT
                    !.status = IF task[t].out = "event" THEN AwaitingEvent ELSE AwaitingInput,
                    !.awaiting = IF task[t].out = "event" THEN "event" ELSE "input",
                    !.next = Store(@, next, 0)]
    /\ Settle(t)
    /\ Quiet

Finish(t) ==
    /\ Finishing(t)
    /\ \E s \in {Complete} \cup (IF "coverage" \in Outcomes THEN {Escalated} ELSE {}) :
          row' = [row EXCEPT !.status = s]
    /\ Settle(t)
    /\ Quiet

NextTryFault(tries) == tries
NextTry(tries) == tries + 1

\* Unfinished work items at the end, or an unmerged PR before the next phase:
\* the phase is run again with a corrective prompt, up to MaxTries times.
GateBlocks(t) ==
    /\ Finishing(t) \/ (Advancing(t) /\ task[t].out = "done")
    /\ "gate" \in Outcomes
    /\ IF task[t].tries = MaxTries
       THEN Fail(t)
       ELSE LET new == [row EXCEPT !.prompt = {Correction}]
            IN /\ row' = new
               /\ Become(t, [Idle EXCEPT !.pc = "top", !.live = new,
                                         !.tries = NextTry(task[t].tries)])
    /\ Quiet

\* With a decision layer the overseer is asked before the run leaves the phase.
\* Its verdict is on the copy the run had; then the stored row is the new copy.
Consult(t) ==
    /\ Advancing(t) /\ Decides
    /\ Go(t, "consult")
    /\ UNCHANGED row /\ Quiet

Reconsider(t) ==
    /\ At(t, "consult")
    /\ \E flagged \in BOOLEAN :
          /\ flagged => "overseer" \in Outcomes /\ Live(t).interactive /\ ~task[t].approved
          /\ Become(t, [task[t] EXCEPT !.pc = "decide", !.live = row, !.to = Target(t),
                                       !.out = IF flagged THEN "overseer" ELSE @])
    /\ UNCHANGED row /\ Quiet

CheckAgain(t) ==
    /\ At(t, "decide")
    /\ IF MustStop(t) THEN Settle(t) ELSE Go(t, "leave")
    /\ UNCHANGED row /\ Quiet

Leaving(t) == Target(t) # 0 /\ IF Decides THEN At(t, "leave") ELSE Advancing(t)

AtCheckpointFault(t) == /\ Live(t).interactive /\ Live(t).phase \in Checkpoints
                        /\ ~task[t].approved /\ task[t].out # "goto"
AtCheckpoint(t) == /\ Live(t).interactive /\ Live(t).phase \in Checkpoints
                   /\ ~task[t].approved

ParkForApproval(t) ==
    /\ Leaving(t)
    /\ AtCheckpoint(t) \/ task[t].out = "overseer"
    /\ row' = [row EXCEPT !.status = AwaitingInput, !.next = Target(t),
                          !.awaiting = IF task[t].out = "overseer"
                                       THEN "overseer" ELSE "checkpoint",
                          !.approved = Clear(@, 0)]
    /\ Settle(t)
    /\ Quiet

Advance(t) ==
    /\ Leaving(t) /\ ~AtCheckpoint(t) /\ task[t].out # "overseer"
    /\ LET kept == IF task[t].approved THEN 0 ELSE Live(t).approved
           new == [row EXCEPT !.phase = Target(t), !.next = Clear(@, 0),
                              !.approved = Store(@, kept, 0)]
       IN row' = new /\ Become(t, [Idle EXCEPT !.pc = "top", !.live = new])
    /\ Quiet

-----------------------------------------------------------------------------
(* The run throws.                                                           *)

\* A rate limit parks the job unless it is terminal or already rate limited.
SeeRateLimit(t) ==
    /\ At(t, "limited")
    /\ IF Terminal(row.status) \/ row.status = AwaitingRateLimit
       THEN Settle(t) ELSE Go(t, "limit")
    /\ UNCHANGED row /\ Quiet

ParkOnRateLimit(t) ==
    /\ At(t, "limit")
    /\ row' = [row EXCEPT !.status = AwaitingRateLimit]
    /\ Go(t, "arm")
    /\ Quiet

\* activeJobs.delete
FreeSlotFault == UNCHANGED active
FreeSlot == active' = FALSE

\* onRateLimitPark arms the timer, runJob returns and the slot is freed with no
\* callback in between.
ArmTimer(t) ==
    /\ At(t, "arm")
    /\ timer' = TRUE /\ FreeSlot
    /\ Become(t, [Idle EXCEPT !.pc = "drain"])
    /\ UNCHANGED <<row, queue, deferred, session, inbox, sent, seen, spent>>

\* A throw after a park, and one of a steering interrupt, end the run quietly.
SeeThrow(t) ==
    /\ At(t, "thrown")
    /\ IF Parking(row.status) \/ Terminal(row.status) \/ task[t].out = "recoverable"
       THEN Settle(t) ELSE Go(t, "crash")
    /\ UNCHANGED row /\ Quiet

Crash(t) ==
    /\ At(t, "crash")
    /\ Fail(t)
    /\ Quiet

-----------------------------------------------------------------------------
(* The end of a run: fireAndForget's finally.                                *)

EndRun(t) ==
    /\ At(t, "fin")
    /\ FreeSlot
    /\ Become(t, [Idle EXCEPT !.pc = "drain"])
    /\ UNCHANGED <<row, queue, deferred, timer, session, inbox, sent, seen, spent>>

\* Queued events become one batch; only without any is a deferred dispatch due.
Drain(t) ==
    /\ At(t, "drain")
    /\ IF queue = {}
       THEN /\ deferred' = FALSE
            /\ Become(t, IF deferred THEN [Idle EXCEPT !.pc = "redispatch"] ELSE Idle)
            /\ UNCHANGED queue
       ELSE /\ queue' = {}
            /\ Become(t, [Idle EXCEPT !.pc = "batch", !.notes = queue])
            /\ UNCHANGED deferred
    /\ UNCHANGED <<row, active, timer, session, inbox, sent, seen, spent>>

Redispatch(t) ==
    /\ At(t, "redispatch")
    /\ IF Resumable(row.status) THEN Go(t, "fire") ELSE Become(t, Idle)
    /\ UNCHANGED row /\ Quiet

\* injectAndResume: a batch for a job that is no longer parked is dropped, and
\* so is one the decision layer's wake gate finds not worth waking the job for.
ReadForBatch(t) ==
    /\ At(t, "batch")
    /\ IF Parking(row.status) THEN Go(t, "inject") ELSE Become(t, Idle)
    /\ UNCHANGED row /\ Quiet

Inject(t) ==
    /\ At(t, "inject")
    /\ row' = [row EXCEPT !.status = Running, !.awaiting = Clear(@, "none"),
                          !.prompt = task[t].notes]
    /\ Go(t, "fire")
    /\ Quiet

ScreenOut(t) ==
    /\ At(t, "inject") /\ Decides
    /\ Become(t, Idle)
    /\ UNCHANGED row /\ Quiet

-----------------------------------------------------------------------------
(* Calls into the dispatcher.  Each begins by reading the row.               *)

Begin(t) == At(t, "idle")
Spend(bound, max) == spent[bound] < max /\ spent' = [spent EXCEPT ![bound] = @ + 1]
Control(t, op) == Begin(t) /\ op \in Controls /\ Spend("controls", MaxControls)
Untouched == UNCHANGED <<row, ram, sent, seen>>

CancelCall(t) == /\ Control(t, "cancel")
                 /\ Start(t, "cancel", {}, "none", 0)
                 /\ Untouched

Cancel(t) ==
    /\ At(t, "cancel")
    /\ \/ /\ Live(t).status = Complete
          /\ Become(t, Idle) /\ UNCHANGED <<row, queue>>
       \/ /\ Live(t).status = Cancelled
          /\ queue' = {} /\ Become(t, Idle) /\ UNCHANGED row
       \/ /\ ~Terminal(Live(t).status)
          /\ row' = [row EXCEPT !.status = Cancelled, !.prompt = Clear(@, {}),
                                !.awaiting = Clear(@, "none"), !.next = Clear(@, 0),
                                !.approved = Clear(@, 0)]
          /\ Become(t, [Idle EXCEPT !.pc = "drop"]) /\ UNCHANGED queue
    /\ UNCHANGED <<active, deferred, timer, session, inbox, sent, seen, spent>>

\* After the cancel is stored: drop the queued events and the wake-up.
Drop(t) ==
    /\ At(t, "drop")
    /\ queue' = {} /\ timer' = FALSE
    /\ Become(t, Idle)
    /\ UNCHANGED <<row, active, deferred, session, inbox, sent, seen, spent>>

PauseCall(t) == /\ Control(t, "pause")
                /\ Start(t, "pause", {}, "none", 0)
                /\ Untouched

\* Only a running job is paused.
Pause(t) ==
    /\ At(t, "pause")
    /\ IF Live(t).status # Running
       THEN Become(t, Idle) /\ UNCHANGED row
       ELSE /\ row' = [row EXCEPT !.status = AwaitingInput, !.awaiting = "paused",
                                  !.next = Clear(@, 0), !.approved = Clear(@, 0)]
            /\ Become(t, [Idle EXCEPT !.pc = "stop",
                                      !.out = IF session = "open" THEN "on" ELSE "off"])
    /\ Quiet

\* After the pause is stored: drop the wake-up and the queued events and stop
\* the session there was.  With the cloud backend it may have given way to the
\* session of the next phase, which the pause does not reach.
Stop(t) ==
    /\ At(t, "stop")
    /\ queue' = {} /\ timer' = FALSE
    /\ session' \in IF task[t].out = "on" /\ session = "open"
                   THEN {"stopping"} \cup (IF Hybrid THEN {session} ELSE {})
                   ELSE {session}
    /\ Become(t, Idle)
    /\ UNCHANGED <<row, active, deferred, inbox, sent, seen, spent>>

MessageCall(t, m) ==
    /\ Begin(t) /\ m \in Messages \ sent
    /\ sent' = sent \cup {m}
    /\ Start(t, "message", {m}, "none", 0)
    /\ UNCHANGED <<row, ram, seen, spent>>

\* sendMessage: refused, pushed into the phase's channel, kept for the next phase
\* of a run between phases, or the developer's answer to a park.
Message(t) ==
    /\ At(t, "message")
    /\ LET s == Live(t).status
           live == session # "closed" /\ ~Parking(s)
       IN IF s = Cancelled
          THEN Become(t, Idle) /\ UNCHANGED inbox
          ELSE IF s # Complete /\ live
          THEN /\ inbox' = IF session = "deaf" THEN inbox ELSE inbox \cup task[t].notes
               /\ Become(t, Idle)
          ELSE /\ Go(t, CASE s = Complete -> "reopen"
                          [] Parking(s) -> "resume-note"
                          [] OTHER -> "queue")
               /\ UNCHANGED inbox
    /\ UNCHANGED <<row, active, queue, deferred, timer, session, sent, seen, spent>>

QueueMessage(t) ==
    /\ At(t, "queue")
    /\ row' = [row EXCEPT !.prompt = Live(t).prompt \cup task[t].notes]
    /\ Become(t, Idle)
    /\ Quiet

\* A message to a job parked with a next phase approves that advance.
ResumeWithMessage(t) ==
    /\ At(t, "resume-note")
    /\ LET parked == Live(t).status \notin {Escalated, Failed}
           approves == IF parked /\ Live(t).next # 0 THEN Live(t).phase ELSE 0
       IN row' = [row EXCEPT !.status = Running, !.awaiting = Clear(@, "none"),
                             !.next = Clear(@, 0),
                             !.approved = Store(@, approves, 0),
                             !.prompt = Live(t).prompt \cup task[t].notes]
    /\ Become(t, [Idle EXCEPT !.pc = "fire"])
    /\ Quiet

\* reopenCompletedJobWithFollowUp: back to the planning phase.
Reopen(t) ==
    /\ At(t, "reopen")
    /\ row' = [row EXCEPT !.status = Running, !.phase = 1,
                          !.awaiting = Clear(@, "none"), !.next = Clear(@, 0),
                          !.prompt = Live(t).prompt \cup task[t].notes]
    /\ Become(t, [Idle EXCEPT !.pc = "fire"])
    /\ Quiet

EventCall(t, e) ==
    /\ Begin(t) /\ e \in Events \ sent
    /\ sent' = sent \cup {e}
    /\ Start(t, "event", {e}, "none", 0)
    /\ UNCHANGED <<row, ram, seen, spent>>

WaitsForRunFault(s) == ~Terminal(s) /\ ~Parking(s)
WaitsForRun(s) == ~Terminal(s) /\ active

\* handlePluginEvent: an event for an active job waits for its run to end, one
\* for a parked job wakes it, any other is skipped.
Event(t) ==
    /\ At(t, "event")
    /\ LET s == Live(t).status
       IN IF WaitsForRun(s)
          THEN queue' = queue \cup task[t].notes /\ Become(t, Idle)
          ELSE /\ Become(t, IF Parking(s) THEN [Idle EXCEPT !.pc = "batch", !.notes = task[t].notes]
                                          ELSE Idle)
               /\ UNCHANGED queue
    /\ UNCHANGED <<row, active, deferred, timer, session, inbox, sent, seen, spent>>

ToggleCall(t, value) ==
    /\ Control(t, "toggle")
    /\ Start(t, "toggle", {}, IF value THEN "on" ELSE "off", 0)
    /\ Untouched

\* setJobInteractive: switching it off releases a job parked at a checkpoint.
Toggle(t) ==
    /\ At(t, "toggle")
    /\ LET value == task[t].out = "on"
           atCheckpoint == /\ ~value /\ Live(t).status = AwaitingInput
                           /\ Live(t).awaiting = "checkpoint" /\ Live(t).next # 0
       IN IF Stopped(Live(t).status) \/ Live(t).interactive = value
          THEN Become(t, Idle) /\ UNCHANGED row
          ELSE /\ row' = [row EXCEPT !.interactive = IF Hybrid THEN @ ELSE value]
               /\ Become(t, IF atCheckpoint
                            THEN [Idle EXCEPT !.pc = "release", !.to = row.next]
                            ELSE Idle)
    /\ Quiet

RerunCall(t, p) == /\ Control(t, "rerun")
                   /\ Start(t, "rerun", {}, "none", p)
                   /\ Untouched

\* rerunPhase: only of a parked or complete job; a complete one is reopened.
Rerun(t) ==
    /\ At(t, "rerun")
    /\ LET s == Live(t).status
       IN IF ~Parking(s) /\ s # Complete
          THEN Become(t, Idle) /\ UNCHANGED row
          ELSE /\ row' = IF s = Complete THEN [row EXCEPT !.status = AwaitingInput] ELSE row
               /\ Become(t, [Idle EXCEPT !.pc = "release", !.to = task[t].to])
    /\ Quiet

\* Both go on in resumeJob, which reads the row again.
Release(t) ==
    /\ At(t, "release")
    /\ Start(t, "resume", {}, "none", task[t].to)
    /\ Untouched /\ UNCHANGED spent

ResumeCall(t, p) == /\ Control(t, "resume")
                    /\ Start(t, "resume", {}, "none", p)
                    /\ Untouched

\* resumeJob: refused while a run is active or when the job is terminal.
Resume(t) ==
    /\ At(t, "resume")
    /\ IF active \/ ~Resumable(Live(t).status)
       THEN Become(t, Idle) /\ UNCHANGED timer
       ELSE timer' = FALSE /\ Go(t, "resuming")
    /\ UNCHANGED <<row, active, queue, deferred, session, inbox, sent, seen, spent>>

Resuming(t) ==
    /\ At(t, "resuming")
    /\ row' = [row EXCEPT !.status = Running, !.awaiting = Clear(@, "none"),
                          !.phase = IF task[t].to \notin {0, Live(t).phase}
                                    THEN task[t].to ELSE @]
    /\ Become(t, [Idle EXCEPT !.pc = "fire"])
    /\ Quiet

-----------------------------------------------------------------------------
(* The rate limit timer, and the process.                                    *)

TimerFires(t) ==
    /\ Begin(t) /\ timer
    /\ timer' = FALSE
    /\ IF active THEN UNCHANGED task ELSE Start(t, "wake", {}, "timer", 0)
    /\ UNCHANGED <<row, active, queue, deferred, session, inbox, sent, seen, spent>>

StillDueFault(s) == Resumable(s)
StillDue(s) == s = AwaitingRateLimit

Wake(t) ==
    /\ At(t, "wake")
    /\ IF StillDue(Live(t).status) THEN Start(t, "resume", {}, "timer", 0)
                                   ELSE Become(t, Idle)
    /\ Untouched /\ UNCHANGED spent

RearmedFault == FALSE
Rearmed == row.status = AwaitingRateLimit /\ ~Hybrid

\* Everything but the row is in memory.  On start, bootstrap arms a timer for a
\* rate limited row whose rateLimitInfo survived.
Restart ==
    /\ Spend("restarts", MaxRestarts)
    /\ task' = [t \in Tasks |-> Idle]
    /\ active' = FALSE /\ queue' = {} /\ deferred' = FALSE
    /\ session' = "closed" /\ inbox' = {}
    /\ timer' = Rearmed
    /\ UNCHANGED <<row, sent, seen>>

-----------------------------------------------------------------------------

RunStep(t) ==
    \/ Boot(t) \/ BootFails(t) \/ Load(t) \/ StartPhase(t) \/ TakePrompt(t)
    \/ EnterPhase(t) \/ ParkAgentless(t) \/ OpenChannel(t) \/ StartSession(t)
    \/ PreparationThrows(t) \/ PhaseEnds(t)
    \/ RecordUsage(t) \/ CheckBoundary(t) \/ ParkOnEvent(t) \/ Finish(t)
    \/ GateBlocks(t) \/ Consult(t) \/ Reconsider(t) \/ CheckAgain(t)
    \/ ParkForApproval(t) \/ Advance(t) \/ SeeRateLimit(t)
    \/ ParkOnRateLimit(t) \/ ArmTimer(t) \/ SeeThrow(t) \/ Crash(t) \/ EndRun(t)

DrainStep(t) ==
    \/ Drain(t) \/ Redispatch(t) \/ ReadForBatch(t) \/ Inject(t) \/ ScreenOut(t) \/ Fire(t)

CallStep(t) ==
    \/ Cancel(t) \/ Drop(t) \/ Pause(t) \/ Stop(t) \/ Message(t)
    \/ QueueMessage(t) \/ ResumeWithMessage(t) \/ Reopen(t) \/ Event(t)
    \/ Toggle(t) \/ Rerun(t) \/ Release(t) \/ Resume(t) \/ Resuming(t) \/ Wake(t)

\* What the world may do at any time, and never has to.
Surprise(t) ==
    \/ ReadInbox(t) \/ AgentEscalates(t) \/ WatchdogParks(t) \/ WatchdogFails(t)
    \/ CancelCall(t) \/ PauseCall(t)
    \/ \E m \in Messages : MessageCall(t, m)
    \/ \E e \in Events : EventCall(t, e)
    \/ \E value \in BOOLEAN : ToggleCall(t, value)
    \/ \E p \in Phases : RerunCall(t, p)
    \/ \E p \in Phases \cup {0} : ResumeCall(t, p)

Next ==
    \/ \E t \in Tasks : RunStep(t) \/ DrainStep(t) \/ CallStep(t)
                        \/ TimerFires(t) \/ Surprise(t)
    \/ Restart

Spec == Init /\ [][Next]_vars

\* A started call runs to its end (awaits settle, executors stop by maxTurns or
\* the watchdog) and an armed timer fires.
Fairness == /\ \A t \in Tasks : WF_vars(RunStep(t) \/ DrainStep(t) \/ CallStep(t))
            /\ WF_vars(\E t \in Tasks : TimerFires(t))
FairSpec == Spec /\ Fairness

-----------------------------------------------------------------------------
(* Invariants.                                                               *)

\* The type invariant: rows, tasks and the dispatcher's sets are what the
\* handlers take them for.
TypeOK ==
    /\ row \in Rows
    /\ active \in BOOLEAN /\ deferred \in BOOLEAN /\ timer \in BOOLEAN
    /\ session \in {"closed", "deaf", "open", "stopping"}
    /\ queue \subseteq Texts /\ inbox \subseteq Texts
    /\ task \in [Tasks -> TaskStates]
    /\ sent \subseteq Notes /\ seen \subseteq Texts
    /\ spent \in Spending

InRun(t) == task[t].pc \in RunPCs

\* "A job can only run once at a time" (dispatcher.ts, Concurrency model): two
\* runs of a job are never in flight, whichever calls, webhooks, timers and
\* drains of earlier runs race for fireAndForget.
OneRunPerJob == \A t, u \in Tasks : InRun(t) /\ InRun(u) => t = u

\* activeJobs has the job exactly while one of its runs is in flight, so a
\* handler that finds it absent may start a run and one that finds it present
\* may rely on a drain to come.
ActiveWhileRunning == active <=> \E t \in Tasks : InRun(t)

\* "Queued events are replayed when the job finishes its current turn": events
\* wait in eventQueue only while a run that has still to drain them exists.
QueuedEventsHaveADrainer ==
    queue # {} => \E t \in Tasks : InRun(t) \/ task[t].pc = "drain"

\* A channel that a failed start left in activeInputQueues swallows no message to
\* a job nobody runs: it is only used while a run is in flight or about to start
\* (else the job is parked, failed or terminal, and sendMessage resumes it).
AbandonedChannelIsUnused ==
    session # "closed" /\ ~Parking(row.status) /\ ~Terminal(row.status)
        => \E t \in Tasks : InRun(t) \/ task[t].pc = "fire"

\* A job parked on a rate limit is never forgotten: its timer is armed, or a
\* task that arms it, fires it or runs the job is under way.
RateLimitedJobWakes ==
    row.status = AwaitingRateLimit =>
        timer \/ \E t \in Tasks : \/ task[t].pc \in {"wake", "resume", "resuming", "fire", "inject"}
                                  \/ InRun(t)

\* A re-dispatch asked for while a run drains is not forgotten: deferredDispatch
\* has the job only while a run, or its drain, will look at it.
DeferredDispatchIsConsumed ==
    deferred /\ ~Terminal(row.status) =>
        \E t \in Tasks : InRun(t) \/ task[t].pc \in {"drain", "batch", "inject", "fire"}

-----------------------------------------------------------------------------
(* Action properties.                                                        *)

Moves(t) == task'[t] # task[t]
RunMoves == \E t \in Tasks : InRun(t) /\ Moves(t)
Paused == row.status = AwaitingInput /\ row.awaiting = "paused"

\* A run that finds its job cancelled at the end of an agent's turn neither
\* moves it to another phase nor completes it.
CancelledJobGoesNowhere ==
    [][row.status = Cancelled => row'.phase = row.phase /\ row'.status # Complete]_vars

\* Once a job is cancelled and no run of it is in flight, nothing brings it
\* back: no message, event, timer, deferred dispatch or restart.
CancelledIdleJobStaysCancelled ==
    [][row.status = Cancelled /\ ~active => row'.status = Cancelled]_vars

\* An interactive job leaves a checkpoint phase on its own only with the
\* developer's approval of that phase, even when the flag was switched on while
\* the agent worked or the agent jumped.
CheckpointNeedsApproval ==
    [][RunMoves /\ row'.phase # row.phase /\ row.interactive /\ row.phase \in Checkpoints
         => row.approved = row.phase]_vars

\* A wake-up that comes after the job was resumed, paused or cancelled changes
\* nothing: only a rate limited job is resumed by the timer.
TimerWakesOnlyRateLimited ==
    [][\A t \in Tasks : task[t].out = "timer" /\ task[t].pc = "resuming" /\ task'[t].pc = "fire"
                          => row.status = AwaitingRateLimit]_vars

\* Whoever takes a developer's message out of pendingPrompt hands it to the
\* agent ("the message is never silently lost", dispatcher.ts sendMessage).
KeptMessageReachesTheAgent ==
    [][\A m \in row.prompt \cap Messages :
          m \in row'.prompt \/ \E t \in Tasks : m \in task'[t].notes]_vars

\* A run whose job was paused ends at the boundary check after the agent's turn
\* ("notice the parked status and exit cleanly", dispatcher.ts pauseJob).
PauseEndsTheRun ==
    [][\A t \in Tasks : task[t].pc = "post" /\ Paused /\ Moves(t)
                          => task'[t].pc = "fin"]_vars

\* "cancelled is intentionally terminal" (helpers.ts): no step leaves it.
CancelledIsTerminal == [][row.status = Cancelled => row'.status = Cancelled]_vars

\* A rate limit that is thrown after the developer paused the job leaves the
\* pause in place (runner.ts: "already moved the job to a terminal/parked
\* state ..., don't clobber it").
RateLimitRespectsPause ==
    [][Paused => row'.status # AwaitingRateLimit]_vars

-----------------------------------------------------------------------------
(* Liveness.                                                                 *)

\* Every queued event is eventually taken out of the queue.
QueueIsDrained == queue # {} ~> queue = {}

\* A rate limited job does not stay so: it is woken, resumed or cancelled.
RateLimitEnds == row.status = AwaitingRateLimit ~> row.status # AwaitingRateLimit

\* The runner's slot is freed: every run ends.
RunEnds == active ~> ~active

=============================================================================
