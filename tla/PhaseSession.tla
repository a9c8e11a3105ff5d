---------------------------- MODULE PhaseSession ----------------------------
(***************************************************************************)
(* The agent sessions of one job: the part of runJob that hands a phase to *)
(* the executor (jobs/runner.ts), the Anthropic executor with its pushable *)
(* input and its repair of the MCP transport (executor.ts, pushable.ts,    *)
(* mcp-heal.ts of llm-anthropic), and what the dispatcher and the idle     *)
(* watchdog do to a live session.  The SDK, its subprocess and the agent   *)
(* are external: they read the input, call tools, answer control requests  *)
(* and end the stream.  What the run does between phases is JobLifecycle.  *)
(***************************************************************************)
EXTENDS Integers, Sequences, SequencesExt, FiniteSets

CONSTANTS
    Notes,       \* what developers say
    Kickoff,     \* the phase's prompt
    RetryNotice, \* MCP_RETRY_NUDGE
    IdleNudge,   \* the watchdog's message
    HealLimit,   \* failed heals in a row after which no more is tried
    MaxSessions, MaxCalls, MaxNudges   \* bounds; the last two per session

ASSUME SessionAssumption ==
    /\ Cardinality({Kickoff, RetryNotice, IdleNudge}) = 3
    /\ Notes \cap {Kickoff, RetryNotice, IdleNudge} = {}
    /\ HealLimit \in Nat \ {0}
    /\ {MaxSessions, MaxCalls, MaxNudges} \subseteq Nat

VARIABLES
    pc,         \* "between" phases, "auth", "boot", "loop", or "done" once the stream has ended
    channel,    \* the entry in activeInputQueues: none, a no-op, or wired to the input
    controlled, \* an entry in activeSessions
    input,      \* the pushable
    reader,     \* the SDK's loop over it
    agent,      \* has read something it has not answered; and more since its turn began
    calls,      \* its MCP calls that are really in flight
    mcp,        \* what the executor knows of the MCP transport
    interrupts, \* Query.interrupt() calls waiting for an ack
    nudging,    \* a nudge was pushed, its interrupt is still to come
    aborted,    \* the phase's abort signal
    signalled,  \* the agent has called a control tool
    sent, read, \* history: the notes pushed, and those the SDK has read
    spent       \* bounds so far

place == <<pc, channel, controlled>>
stream == <<input, reader>>
work == <<agent, calls, signalled>>
steer == <<interrupts, nudging, aborted>>
vars == <<place, stream, work, mcp, steer, sent, read, spent>>

Texts == Notes \cup {Kickoff, RetryNotice, IdleNudge}
Fresh == [tool |-> FALSE, ready |-> TRUE, healing |-> "no", again |-> FALSE,
          failures |-> 0, dead |-> FALSE, owed |-> FALSE, recent |-> FALSE]

TypeOK ==
    /\ pc \in {"between", "auth", "boot", "loop", "done"}
    /\ channel \in {"none", "mute", "wired"} /\ controlled \in BOOLEAN
    /\ input \in [buffer : Seq(Texts), closed : BOOLEAN]
    /\ reader \in {"none", "awake", "parked", "ended"}
    /\ agent \in [busy : BOOLEAN, more : BOOLEAN] /\ calls \in 0..2
    /\ mcp \in [tool : BOOLEAN, ready : BOOLEAN, healing : {"no", "asked", "queued"},
                again : BOOLEAN, failures : 0..HealLimit, dead : BOOLEAN,
                owed : BOOLEAN, recent : BOOLEAN]
    /\ interrupts \in Nat /\ nudging \in BOOLEAN
    /\ aborted \in BOOLEAN /\ signalled \in BOOLEAN
    /\ sent \subseteq Notes /\ read \subseteq Notes
    /\ spent \in [sessions : 0..MaxSessions, calls : 0..MaxCalls, nudges : 0..MaxNudges]

Init ==
    /\ pc = "between" /\ channel = "none" /\ controlled = FALSE
    /\ input = [buffer |-> <<>>, closed |-> TRUE] /\ reader = "none"
    /\ agent = [busy |-> FALSE, more |-> FALSE] /\ calls = 0
    /\ mcp = Fresh /\ interrupts = 0 /\ nudging = FALSE
    /\ aborted = FALSE /\ signalled = FALSE
    /\ sent = {} /\ read = {}
    /\ spent = [sessions |-> 0, calls |-> 0, nudges |-> 0]

-----------------------------------------------------------------------------
(* The pushable: push opens it again, push and close wake a parked reader.   *)

WakeFault(r) == IF r = "parked" /\ input.closed THEN "awake" ELSE r
Wake(r) == IF r = "parked" THEN "awake" ELSE r

Push(x) ==
    /\ input' = [buffer |-> Append(input.buffer, x), closed |-> FALSE]
    /\ reader' = Wake(reader)

CloseFault == input' = [input EXCEPT !.closed = TRUE] /\ UNCHANGED reader
Close ==
    /\ input' = [input EXCEPT !.closed = TRUE]
    /\ reader' = Wake(reader)

\* next() of the iterable, called by the SDK
Reading == pc \in {"boot", "loop"} /\ reader = "awake"

ReaderTakes ==
    /\ Reading /\ input.buffer # <<>>
    /\ input' = [input EXCEPT !.buffer = Tail(@)]
    /\ read' = read \cup ({Head(input.buffer)} \cap Notes)
    /\ agent' = [busy |-> TRUE, more |-> agent.busy]
    /\ UNCHANGED <<place, reader, calls, signalled, mcp, steer, sent, spent>>

ReaderParks ==
    /\ Reading /\ input.buffer = <<>> /\ ~input.closed
    /\ reader' = "parked"
    /\ UNCHANGED <<place, input, work, mcp, steer, sent, read, spent>>

\* the SDK's loop is over for good: what is pushed from now on is not read
ReaderEnds ==
    /\ Reading /\ input.buffer = <<>> /\ input.closed
    /\ reader' = "ended"
    /\ UNCHANGED <<place, input, work, mcp, steer, sent, read, spent>>

-----------------------------------------------------------------------------
(* The repair of the MCP transport, as functions of what is known of it.     *)

HealFault(m, why) ==
    IF m.dead THEN m
    ELSE IF m.healing # "no" THEN [m EXCEPT !.again = TRUE]
    ELSE [m EXCEPT !.healing = why, !.ready = FALSE]

\* runMcpHealAsync: not with the control stream closed, not after too many
\* failures, and not twice at a time
Heal(m, why) ==
    IF m.dead \/ m.failures >= HealLimit THEN m
    ELSE IF m.healing # "no" THEN [m EXCEPT !.again = TRUE]
    ELSE [m EXCEPT !.healing = why, !.ready = FALSE]

\* scheduleMcpHeal for a failed tool call is debounced
HealSoon(m) == IF m.recent THEN m ELSE Heal(m, "asked")

\* clearInFlightMcpTool: pays the heal that a safe steer has put off
ClearToolFault(m) == [m EXCEPT !.tool = FALSE]
ClearTool(m) ==
    LET cleared == [m EXCEPT !.tool = FALSE, !.owed = FALSE]
    IN IF m.owed THEN Heal(cleared, "asked") ELSE cleared

HealedFault(m, ok) ==
    [m EXCEPT !.failures = IF ok THEN 0 ELSE @ + 1, !.healing = "no",
              !.recent = TRUE, !.again = FALSE]
\* applyHealResult, and the finally of the task that ran the heal
Healed(m, ok) ==
    LET over == [m EXCEPT !.failures = IF ok THEN 0 ELSE @ + 1, !.ready = TRUE,
                          !.healing = "no", !.recent = TRUE, !.again = FALSE]
    IN IF m.again THEN Heal(over, "queued") ELSE over

\* a heal that was asked for ends with a notice to the agent
HealEnds(ok) ==
    /\ pc \in {"boot", "loop", "done"} /\ mcp.healing # "no"
    /\ mcp' = Healed(mcp, ok)
    /\ IF ok /\ mcp.healing = "asked" THEN Push(RetryNotice) ELSE UNCHANGED stream
    /\ UNCHANGED <<place, work, steer, sent, read, spent>>

DebounceEnds ==
    /\ mcp.recent
    /\ mcp' = [mcp EXCEPT !.recent = FALSE]
    /\ UNCHANGED <<place, stream, work, steer, sent, read, spent>>

\* stderr tells that the control stream is closed
ControlStreamDies ==
    /\ pc \in {"boot", "loop"} /\ ~mcp.dead
    /\ mcp' = [mcp EXCEPT !.dead = TRUE]
    /\ UNCHANGED <<place, stream, work, steer, sent, read, spent>>

-----------------------------------------------------------------------------
(* A phase attempt, from the runner's loop to the first event.               *)

\* onPhasePrepare registers the channel before the executor has wired it; the
\* second attempt at a phase shares the abort signal of the first
Prepare ==
    /\ pc = "between" /\ spent.sessions < MaxSessions
    /\ pc' = "auth" /\ channel' = "mute" /\ aborted' \in {FALSE, aborted}
    /\ spent' = [sessions |-> spent.sessions + 1, calls |-> 0, nudges |-> 0]
    /\ UNCHANGED <<controlled, stream, work, mcp, interrupts, nudging, sent, read>>

\* the credentials are refused, or the working directory cannot be made: an
\* exception before the try of executePhase
AuthFails ==
    /\ pc = "auth"
    /\ pc' = "between"
    /\ UNCHANGED <<channel, controlled, stream, work, mcp, steer, sent, read, spent>>

\* input, channel, query and onSessionStart, with no await in between; a
\* resumed session has its MCP server attached again first
AuthPasses ==
    /\ pc = "auth"
    /\ pc' \in {"boot", "loop"}
    /\ channel' = "wired" /\ controlled' = TRUE
    /\ input' = [buffer |-> <<Kickoff>>, closed |-> FALSE] /\ reader' = "awake"
    /\ agent' = [busy |-> FALSE, more |-> FALSE] /\ calls' = 0 /\ signalled' = FALSE
    /\ mcp' = Fresh /\ interrupts' = 0 /\ nudging' = FALSE
    /\ UNCHANGED <<aborted, sent, read, spent>>

Attached ==
    /\ pc = "boot"
    /\ pc' = "loop"
    /\ UNCHANGED <<channel, controlled, stream, work, mcp, steer, sent, read, spent>>

\* the runner leaves at the warning of a failed attachment, which is outside
\* the try: only the runner's own close of the channel is left
LeavesAtBoot ==
    /\ pc = "boot" /\ signalled
    /\ pc' = "between"
    /\ Close
    /\ UNCHANGED <<channel, controlled, work, mcp, steer, sent, read, spent>>

-----------------------------------------------------------------------------
(* The event loop.                                                           *)

\* a tool_use block of an MCP tool; the executor remembers the last one only
CallsTool ==
    /\ pc = "loop" /\ agent.busy
    /\ calls < 2 /\ spent.calls < MaxCalls
    /\ calls' = calls + 1
    /\ mcp' = [mcp EXCEPT !.tool = TRUE]
    /\ spent' = [spent EXCEPT !.calls = @ + 1]
    /\ UNCHANGED <<place, stream, agent, signalled, steer, sent, read>>

\* its tool_result: fine, a transport error, or the control stream closed
ToolReturns(outcome) ==
    /\ pc = "loop" /\ calls > 0
    /\ calls' = calls - 1
    /\ LET cleared == ClearTool(mcp)
       IN mcp' = CASE outcome = "ok" -> cleared
                   [] outcome = "reset" -> HealSoon(cleared)
                   [] outcome = "closed" -> [cleared EXCEPT !.dead = TRUE]
    /\ UNCHANGED <<place, stream, agent, signalled, steer, sent, read, spent>>

\* tool_use_summary, which comes after the results and may find the next call
Summarises ==
    /\ pc = "loop" /\ agent.busy /\ mcp.tool
    /\ mcp' = ClearTool(mcp)
    /\ UNCHANGED <<place, stream, work, steer, sent, read, spent>>

\* goto_phase, await_event or escalate: the handler runs as soon as it is called
Signals ==
    /\ pc \in {"boot", "loop"} /\ agent.busy /\ ~signalled
    /\ signalled' = TRUE
    /\ UNCHANGED <<place, stream, agent, calls, mcp, steer, sent, read, spent>>

\* shouldClosePushableAfterResult: not in the middle of the agent's loop
Closes(final) == final /\ input.buffer = <<>>

Result(final) ==
    /\ pc = "loop" /\ agent.busy /\ calls = 0
    /\ agent' = [busy |-> agent.more, more |-> FALSE]
    /\ IF Closes(final) THEN Close ELSE UNCHANGED stream
    /\ UNCHANGED <<place, calls, signalled, mcp, steer, sent, read, spent>>

\* The stream ends with the input, or with the abort signal, whatever the agent
\* does; the runner books the usage while the session is still registered.
StreamOver == aborted \/ (reader = "ended" /\ ~agent.busy)

StreamEnds ==
    /\ pc = "loop" /\ StreamOver
    /\ pc' = "done"
    /\ UNCHANGED <<channel, controlled, stream, work, mcp, steer, sent, read, spent>>

\* so it does when the subprocess ends early, or an interrupt comes back as an
\* exception
StreamBreaks ==
    /\ pc = "loop" /\ pc' = "done"
    /\ UNCHANGED <<channel, controlled, stream, work, mcp, steer, sent, read, spent>>

\* the finally of executePhase, with onSessionEnd, and that of the runner: the
\* input and what the executor's closures know are nobody's from here on
SessionEnds ==
    /\ pc' = "between" /\ channel' = "none" /\ controlled' = FALSE
    /\ input' = [buffer |-> <<>>, closed |-> TRUE] /\ reader' = "none"
    /\ agent' = [busy |-> FALSE, more |-> FALSE] /\ calls' = 0 /\ signalled' = FALSE
    /\ mcp' = Fresh /\ interrupts' = 0 /\ nudging' = FALSE
    /\ UNCHANGED <<aborted, sent, read, spent>>

Completes == pc = "done" /\ SessionEnds
\* the runner leaves the loop after a control tool
Breaks == pc = "loop" /\ signalled /\ SessionEnds
\* rate limits, crashes, a session that cannot be resumed
Throws == pc = "loop" /\ SessionEnds

-----------------------------------------------------------------------------
(* Others reach into the session.                                            *)

\* Each interrupt blocks the MCP tools until its ack, or its timeout.
InterruptBegins(m) ==
    /\ interrupts' = interrupts + 1
    /\ mcp' = [m EXCEPT !.ready = FALSE]

\* ends the block whatever else goes on, then the transport is healed
InterruptEffectFault == mcp' = Heal(mcp, "asked")
InterruptEffect == mcp' = Heal([mcp EXCEPT !.ready = TRUE], "asked")
InterruptEnds ==
    /\ interrupts > 0
    /\ interrupts' = interrupts - 1
    /\ InterruptEffect
    /\ UNCHANGED <<place, stream, work, nudging, aborted, sent, read, spent>>

\* sendMessage to a job that is not parked: pushed, and steered
Send(n) ==
    /\ n \in Notes \ sent
    /\ channel # "none" /\ ~aborted
    /\ sent' = sent \cup {n}
    /\ IF channel = "wired" THEN Push(n) ELSE UNCHANGED stream
    /\ CASE ~controlled -> UNCHANGED <<mcp, interrupts>>
         [] controlled /\ mcp.tool -> mcp' = [mcp EXCEPT !.owed = TRUE] /\ UNCHANGED interrupts
         [] controlled /\ ~mcp.tool -> InterruptBegins(mcp)
    /\ UNCHANGED <<place, work, nudging, aborted, read, spent>>

\* pauseJob, and the park of the watchdog, while the session lasts
Stop ==
    /\ controlled /\ pc \in {"boot", "loop", "done"} /\ ~aborted
    /\ aborted' = TRUE
    /\ InterruptBegins(mcp)
    /\ UNCHANGED <<place, stream, work, nudging, sent, read, spent>>

\* runNudge: the tool is looked at before the log is written
Nudge ==
    /\ controlled /\ pc \in {"boot", "loop", "done"}
    /\ ~mcp.tool /\ ~nudging /\ spent.nudges < MaxNudges
    /\ Push(IdleNudge)
    /\ nudging' = TRUE
    /\ spent' = [spent EXCEPT !.nudges = @ + 1]
    /\ UNCHANGED <<place, work, mcp, interrupts, aborted, sent, read>>

NudgeInterrupts ==
    /\ nudging
    /\ nudging' = FALSE
    /\ InterruptBegins(mcp)
    /\ UNCHANGED <<place, stream, work, aborted, sent, read, spent>>

-----------------------------------------------------------------------------

Reader == ReaderTakes \/ ReaderParks \/ ReaderEnds
Executor == Attached \/ LeavesAtBoot \/ StreamEnds \/ Completes \/ Breaks
Agent ==
    \/ CallsTool \/ Summarises \/ Signals
    \/ \E outcome \in {"ok", "reset", "closed"} : ToolReturns(outcome)
    \/ \E final \in BOOLEAN : Result(final)
Healing == \E ok \in BOOLEAN : HealEnds(ok)

Next ==
    \/ Prepare \/ AuthFails \/ AuthPasses \/ StreamBreaks \/ Throws
    \/ Reader \/ Executor \/ Agent
    \/ Healing \/ DebounceEnds \/ ControlStreamDies
    \/ InterruptEnds \/ Stop \/ Nudge \/ NudgeInterrupts
    \/ \E n \in Notes : Send(n)

Spec == Init /\ [][Next]_vars

\* The runner's and the SDK's own steps are taken, and control requests are
\* answered or time out; nobody has to steer, and the agent may work for ever.
FairSpec ==
    /\ Spec
    /\ WF_vars(Reader) /\ WF_vars(Executor)
    /\ WF_vars(Healing) /\ WF_vars(InterruptEnds) /\ WF_vars(NudgeInterrupts)

-----------------------------------------------------------------------------
(* What the session promises.                                                *)

\* The reader sleeps only on an open and empty input: neither a message pushed
\* nor a close finds it asleep and leaves it so.
NoLostWakeup == reader = "parked" => input = [buffer |-> <<>>, closed |-> FALSE]

\* MCP tools are refused only while a heal or an interrupt is under way, so
\* that none of them leaves the agent without tools for the rest of the phase.
BlockedToolsHaveACause == mcp.ready \/ mcp.healing # "no" \/ interrupts > 0

\* A heal that was put off has something to bring it about: the tool in flight
\* it waits for really is, and a second heal waits for one that runs.
PutOffHealIsTaken ==
    pc \in {"boot", "loop"} =>
        /\ mcp.owed => mcp.tool
        /\ mcp.tool => calls > 0
        /\ mcp.again => mcp.healing # "no"

\* Tools that were blocked come back while the session lasts.
ToolsComeBack == (pc = "loop" /\ ~mcp.ready) ~> (pc # "loop" \/ mcp.ready)

\* A message pushed before the input has ended is read by the SDK, unless the
\* session is over first.
SteeringIsRead ==
    \A n \in Notes :
        (n \in ToSet(input.buffer) /\ pc = "loop" /\ reader # "ended")
            ~> (n \in read \/ pc # "loop")

\* An agent that has nothing left to do, once the input is closed, is not kept:
\* its stream ends or it gets more to do.
FinalResultEndsTheSession ==
    (pc = "loop" /\ input.closed /\ ~agent.busy) ~> (pc # "loop" \/ agent.busy)

-----------------------------------------------------------------------------
(* What comments, documents and tests say of it, and the code does not do.   *)

\* "any developer message that races with phase startup lands in the executor's
\* input" (runner.ts:970): a message sendMessage takes is in the input.
TakenMessagesAreQueued ==
    [][\A n \in sent' \ sent : n \in ToSet(input'.buffer)]_vars

\* "reopens when pushed after close so steering is not dropped"
\* (pushable.test.ts:39): no message lies in an input that nobody reads.
LateMessagesAreRead == reader = "ended" => ToSet(input.buffer) \cap Notes = {}

\* "PreToolUse blocks mcp__* while heal runs" (agent-host-spec.md:514).
HealingBlocksTools == mcp.healing # "no" => ~mcp.ready

\* Steering with an MCP tool in flight does not interrupt, which "avoids
\* aborting in-flight MCP control requests" (agent-host-spec.md:513).
SteeringSparesTools ==
    [][interrupts' > interrupts /\ aborted' = aborted => calls = 0]_vars

\* onSessionEnd is called when the invocation has terminated, by "success,
\* error, or abort" (plugin-sdk types.ts:1013): then nothing is registered.
EndedSessionIsForgotten == pc = "between" => channel = "none" /\ ~controlled

=============================================================================
