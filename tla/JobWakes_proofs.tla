--------------------------- MODULE JobWakes_proofs ---------------------------
(***************************************************************************)
(* Wake-ups, cancels and checkpoints with the local state backend, for     *)
(* every set of calls, notes, phases and options.  A call that is not at   *)
(* rest runs on alone, so what it knows of the row when it reads is still  *)
(* so when it writes (Knows); a call at rest knows less.  That is          *)
(* inductive together with the promise that a rate limited job is woken,   *)
(* given the types and the invariants of JobLifecycle_proofs.              *)
(***************************************************************************)
EXTENDS JobLifecycle_proofs

USE DEF Terminal, Resumable, Parking, Running, AwaitingInput, AwaitingEvent,
        AwaitingRateLimit, Escalated, Failed, Complete, Cancelled

\* The wake-up of a rate limited job is not handed on when the run it was left to
\* is thrown out before it stored its phase's status (README, section 5), so that
\* part supposes that no run is.
Limited(s) == s = AwaitingRateLimit /\ "unprepared" \notin Outcomes
USE DEF Limited

\* Where a call's copy is the stored row.
Fresh == {"cancel", "pause", "message", "resume-note", "reopen", "rerun", "resume", "wake",
          "post", "commit"}
\* Where a run has stored its phase's status, and where it has not yet.
Entered == {"park", "open", "auth", "exec", "usage", "post", "commit", "consult", "decide", "leave",
            "limited", "limit", "thrown", "crash", "fin"}
Entering == {"loading", "top", "prep", "status"}

Knows(t) ==
    /\ task[t].pc \in Fresh => Live(t) = row
    /\ task[t].pc = "drop" => row.status = Cancelled
    /\ task[t].pc = "stop" => row.status = AwaitingInput
    /\ task[t].pc = "resume-note" => Parking(row.status)
    /\ task[t].pc = "reopen" => row.status = Complete
    /\ task[t].pc \in {"resuming", "commit", "leave"} => ~Terminal(row.status)
    /\ task[t].pc \in {"resume", "resuming"} /\ task[t].out = "timer"
          => row.status = AwaitingRateLimit
    /\ task[t].pc = "commit" => task[t].approved = (row.approved = row.phase)
    /\ task[t].pc = "inject" /\ ~Decides => Parking(row.status)
    /\ task[t].pc \in Entered => ~Limited(row.status)
    /\ task[t].pc \in Entering /\ Limited(row.status)
          => Limited(Live(t).status)

Carries(t) == InRun(t) \/ task[t].pc \in {"wake", "resume", "resuming", "fire"}
Awake == Limited(row.status) => timer \/ \E t \in Tasks : Carries(t)

KnowInv == Awake /\ \A t \in Tasks : Knows(t)

-----------------------------------------------------------------------------
(* A step by the role of the call that moves.                                *)

\* Only a run that parks makes the job rate limited.
StatusRole(t) ==
    Limited(row'.status) => Limited(row.status) \/ task[t].pc = "limit"

\* A wake-up is handed on: to the timer, to the call's next step, or to the run
\* there is.
WakeRole(t) ==
    Limited(row'.status) /\ (timer \/ Carries(t))
       => timer' \/ Carries(t)' \/ (active /\ ~InRun(t))

WakeStep(t) == OthersRest(t) /\ MayStep(t) /\ StatusRole(t) /\ WakeRole(t) /\ Knows(t)'

\* A call at rest knows what it knew, whatever the others do.
LEMMA OthersKnow ==
    ASSUME Hybrid = FALSE, OneRunPerJob, KnowInv, NEW t \in Tasks,
           OthersRest(t), MayStep(t), StatusRole(t), NEW u \in Tasks \ {t}
    PROVE  Knows(u)'
<1>1. task[u].pc \in Resting /\ task'[u] = task[u] /\ Knows(u)
  BY DEF MayStep, OthersRest, KnowInv
<1>2. CASE task[u].pc \in {"idle", "inject"}
  BY <1>1, <1>2 DEF Knows, Fresh, Entered, Entering, Resting
<1>3. CASE task[u].pc \in {"loading", "prep", "status", "auth", "exec", "consult"}
  <2>1. task[t].pc # "limit" BY <1>3 DEF OneRunPerJob, InRun, RunPCs
  <2>2. Limited(row'.status) => Limited(row.status)
    BY <2>1 DEF StatusRole
  <2>. QED BY <1>1, <1>3, <2>2 DEF Knows, Fresh, Entered, Entering, Live
<1>. QED BY <1>1, <1>2, <1>3 DEF Resting

\* A step that is sound for the call that moves keeps the invariant.
LEMMA WakeStepKeeps ==
    ASSUME Hybrid = FALSE, RunsInv, KnowInv, NEW t \in Tasks, WakeStep(t)
    PROVE  KnowInv'
<1>1. \A u \in Tasks : Knows(u)'
  BY OthersKnow DEF WakeStep, RunsInv
<1>2. Awake'
  <2> SUFFICES ASSUME Limited(row'.status)
               PROVE  timer' \/ \E u \in Tasks : Carries(u)'
    BY DEF Awake, Carries, InRun
  <2>1. \A u \in Tasks \ {t} : Carries(u) => Carries(u)'
    BY DEF WakeStep, OthersRest, Carries, InRun
  <2>2. CASE timer \/ Carries(t)
    <3>1. timer' \/ Carries(t)' \/ (active /\ ~InRun(t)) BY <2>2 DEF WakeStep, WakeRole
    <3>2. active /\ ~InRun(t) => \E u \in Tasks \ {t} : Carries(u)
      BY DEF RunsInv, ActiveWhileRunning, Carries
    <3>. QED BY <2>1, <3>1, <3>2
  <2>3. CASE ~timer /\ ~Carries(t)
    <3>1. Limited(row.status)
      BY <2>3 DEF WakeStep, StatusRole, Carries, InRun, RunPCs
    <3>2. PICK u \in Tasks : Carries(u) BY <2>3, <3>1 DEF KnowInv, Awake
    <3>. QED BY <2>1, <2>3, <3>2
  <2>. QED BY <2>2, <2>3
<1>. QED BY <1>1, <1>2 DEF KnowInv

-----------------------------------------------------------------------------
(* The steps of a run.                                                       *)

\* A step of a run is taken by a run that may step.
LEMMA RunAt ==
    ASSUME NEW t \in Tasks, RunStep(t)
    PROVE  MayStep(t) /\ InRun(t)
BY DEF RunStep, Boot, BootFails, Load, StartPhase, TakePrompt, EnterPhase, ParkAgentless,
     OpenChannel, StartSession, PreparationThrows, PhaseEnds, RecordUsage, CheckBoundary,
     ParkOnEvent, Finish, GateBlocks, Consult, Reconsider, CheckAgain, ParkForApproval, Advance, SeeRateLimit, ParkOnRateLimit, ArmTimer,
     SeeThrow, Crash, EndRun, Advancing, Finishing, Leaving, At, InRun, RunPCs

\* A step of a run ends it, parks it or leaves it running.
LEMMA RunWakes ==
    ASSUME TypeOK, NEW t \in Tasks, RunStep(t), Knows(t), StatusRole(t), Knows(t)',
           InRun(t)' \/ timer' \/ ~Limited(row'.status)
    PROVE  WakeStep(t)
<1>1. OthersRest(t) BY RunRoles DEF RoleStep
<1>2. MayStep(t) BY RunAt
<1>. QED BY <1>1, <1>2 DEF WakeStep, WakeRole, Carries

\* Where a run is to end, the job is not rate limited.
LEMMA SettleKnows ==
    ASSUME TypeOK, NEW t \in Tasks, Settle(t), ~Limited(row'.status)
    PROVE  StatusRole(t) /\ Knows(t)' /\ InRun(t)'
<1>1. task'[t].pc = "fin" BY NextPc
<1>. QED BY <1>1 DEF StatusRole, Knows, Fresh, Entered, Entering, InRun, RunPCs

\* From the start of a run to the status of its phase.
LEMMA EnteringKnows ==
    ASSUME Hybrid = FALSE, TypeOK, TypeOK', NEW t \in Tasks, Knows(t),
           \/ Boot(t) \/ BootFails(t) \/ Load(t) \/ StartPhase(t) \/ TakePrompt(t)
           \/ EnterPhase(t)
    PROVE  StatusRole(t) /\ Knows(t)' /\ InRun(t)'
<1>0. /\ task \in [Tasks -> TaskStates] /\ task[t] \in TaskStates
      /\ row \in Rows /\ Live(t) \in Rows
  BY DEF TypeOK, TaskStates, Live
<1> USE DEF At
<1>1. CASE Boot(t)
  <2>1. task'[t] = [task[t] EXCEPT !.pc = "loading", !.live = row] /\ row' = row
    BY <1>0, <1>1 DEF Boot, Become
  <2>2. task'[t].pc = "loading" /\ task'[t].live = row BY <1>0, <2>1 DEF TaskStates
  <2>. QED BY <2>1, <2>2 DEF StatusRole, Knows, Fresh, Entered, Entering, Live, InRun, RunPCs
<1>2. CASE BootFails(t)
  <2>1. row'.status = Failed BY <1>0, <1>2 DEF BootFails, Fail, Rows
  <2>. QED BY <1>2, <2>1, SettleKnows DEF BootFails, Fail
<1>3. CASE Load(t) \/ StartPhase(t)
  <2>1. row' = row /\ task[t].pc \in {"loading", "top"} BY <1>3 DEF Load, StartPhase
  <2>2. Limited(row.status) => Limited(Live(t).status)
    BY <2>1 DEF Knows, Entering
  <2>3. CASE Settle(t)
    <3>1. Terminal(Live(t).status) \/ MustStop(t)
      BY <1>0, <1>3, <2>3, NextPc DEF Load, StartPhase
    <3>2. ~Limited(row.status) BY <2>2, <3>1 DEF MustStop
    <3>. QED BY <2>1, <2>3, <3>2, SettleKnows
  <2>4. CASE ~Settle(t)
    <3>1. PICK pc \in {"top", "prep"} : Go(t, pc) BY <1>3, <2>4 DEF Load, StartPhase
    <3>2. task'[t] = [task[t] EXCEPT !.pc = pc] BY <1>0, <3>1 DEF Go, Become
    <3>3. task'[t].pc = pc /\ task'[t].live = Live(t) BY <1>0, <3>2 DEF TaskStates, Live
    <3>. QED BY <2>1, <2>2, <3>3 DEF StatusRole, Knows, Fresh, Entered, Entering, Live, InRun, RunPCs
  <2>. QED BY <2>3, <2>4
<1>4. CASE TakePrompt(t)
  <2>1. Limited(row.status) => Limited(Live(t).status)
    BY <1>4 DEF TakePrompt, Knows, Entering
  <2>2. row'.status = row.status /\ task'[t].pc = "status"
        /\ task'[t].live \in {Live(t), row'}
    <3>1. CASE Live(t).prompt = {}
      <4>1. row' = row /\ task'[t] = [task[t] EXCEPT !.pc = "status"]
        BY <1>0, <1>4, <3>1 DEF TakePrompt, Go, Become
      <4>. QED BY <1>0, <4>1 DEF TaskStates, Live
    <3>2. CASE Live(t).prompt # {}
      <4>1. /\ row' = [row EXCEPT !.prompt = Consumed(row.prompt)]
            /\ task'[t] = [task[t] EXCEPT !.pc = "status", !.live = row', !.notes = Live(t).prompt]
        BY <1>0, <1>4, <3>2 DEF TakePrompt, Become
      <4>2. row'.status = row.status BY <1>0, <4>1 DEF Rows
      <4>. QED BY <1>0, <4>1, <4>2 DEF TaskStates
    <3>. QED BY <3>1, <3>2
  <2>. QED BY <2>1, <2>2 DEF StatusRole, Knows, Fresh, Entered, Entering, Live, InRun, RunPCs
<1>5. CASE EnterPhase(t)
  <2>1. row' = [row EXCEPT !.status = PhaseStatus(Live(t).phase)]
        /\ \E pc \in {"park", "open"} : task'[t] = [task[t] EXCEPT !.pc = pc, !.live = row']
    BY <1>0, <1>5 DEF EnterPhase, Sync, Become
  <2>2. ~Limited(row'.status) BY <1>0, <2>1 DEF PhaseStatus, Rows
  <2>3. task'[t].pc \in {"park", "open"} BY <1>0, <2>1 DEF TaskStates
  <2>. QED BY <2>2, <2>3 DEF StatusRole, Knows, Fresh, Entered, Entering, InRun, RunPCs
<1>. QED BY <1>1, <1>2, <1>3, <1>4, <1>5

\* A step within an entered phase keeps what is known there.
LEMMA EnteredKnows ==
    ASSUME TypeOK, NEW t \in Tasks, ~Limited(row'.status),
           task'[t].pc \in {"auth", "open", "exec", "usage", "consult", "decide", "limited", "limit",
                            "thrown", "crash", "fin"}
    PROVE  StatusRole(t) /\ Knows(t)' /\ InRun(t)'
BY DEF StatusRole, Knows, Fresh, Entered, Entering, InRun, RunPCs

\* From the session to the boundary check.
LEMMA WorkKnows ==
    ASSUME Hybrid = FALSE, TypeOK, TypeOK', NEW t \in Tasks, Knows(t),
           \/ ParkAgentless(t) \/ OpenChannel(t) \/ StartSession(t) \/ PreparationThrows(t)
           \/ PhaseEnds(t) \/ RecordUsage(t) \/ CheckBoundary(t)
    PROVE  StatusRole(t) /\ Knows(t)' /\ InRun(t)'
<1>0. /\ task \in [Tasks -> TaskStates] /\ task[t] \in TaskStates
      /\ row \in Rows /\ Live(t) \in Rows
  BY DEF TypeOK, TaskStates, Live
<1>a. ~Limited(row.status)
  BY DEF ParkAgentless, OpenChannel, StartSession, PreparationThrows, PhaseEnds, RecordUsage,
         CheckBoundary, At, Knows, Entered
<1>1. CASE ParkAgentless(t)
  <2>1. row'.status = row.status BY <1>0, <1>1 DEF ParkAgentless, Rows
  <2>. QED BY <1>1, <1>a, <2>1, SettleKnows DEF ParkAgentless
<1>c. CASE OpenChannel(t)
  <2>1. task'[t].pc = "auth" /\ row' = row BY <1>c, NextPc DEF OpenChannel
  <2>. QED BY <1>a, <2>1, EnteredKnows
<1>p. CASE PreparationThrows(t)
  <2>1. task'[t] = [Idle EXCEPT !.pc = "thrown", !.out = "crash"] /\ row' = row
    BY <1>0, <1>p DEF PreparationThrows, Become
  <2>2. task'[t].pc = "thrown" BY <2>1 DEF Idle
  <2>. QED BY <1>a, <2>1, <2>2, EnteredKnows
<1>2. CASE StartSession(t)
  <2>1. task'[t] = [task[t] EXCEPT !.pc = "exec", !.notes = {}] /\ row' = row
    BY <1>0, <1>2 DEF StartSession, Become
  <2>2. task'[t].pc = "exec" BY <1>0, <2>1 DEF TaskStates
  <2>. QED BY <1>a, <2>1, <2>2, EnteredKnows
<1>3. CASE PhaseEnds(t)
  <2>1. row' = row BY <1>3 DEF PhaseEnds
  <2>2. task'[t].pc \in {"limited", "thrown", "usage"}
    <3>1. PICK o, q :
             Become(t, [task[t] EXCEPT
                !.pc = CASE o = "ratelimit" -> "limited"
                         [] o \in {"crash", "recoverable"} -> "thrown"
                         [] OTHER -> "usage",
                !.out = IF task[t].out = "escalated" /\ o \notin Throws THEN task[t].out ELSE o,
                !.to = IF o = "goto" THEN q ELSE 0])
      BY <1>3 DEF PhaseEnds
    <3>2. task'[t].pc = CASE o = "ratelimit" -> "limited"
                          [] o \in {"crash", "recoverable"} -> "thrown"
                          [] OTHER -> "usage"
      BY <1>0, <3>1 DEF Become, TaskStates
    <3>. QED BY <3>2
  <2>. QED BY <1>a, <2>1, <2>2, EnteredKnows
<1>4. CASE RecordUsage(t)
  <2>1. task'[t] = [task[t] EXCEPT !.pc = "post", !.live = row] /\ row' = row
    BY <1>0, <1>4 DEF RecordUsage, Sync, Become
  <2>2. task'[t].pc = "post" /\ task'[t].live = row BY <1>0, <2>1 DEF TaskStates
  <2>. QED BY <1>a, <2>1, <2>2 DEF StatusRole, Knows, Fresh, Entered, Entering, Live, InRun, RunPCs
<1>5. CASE CheckBoundary(t)
  <2>1. row' = row /\ Live(t) = row BY <1>5 DEF CheckBoundary, At, Knows, Fresh
  <2>2. CASE MustStop(t) \/ task[t].out = "escalated"
    BY <1>5, <1>a, <2>1, <2>2, SettleKnows DEF CheckBoundary
  <2>3. CASE ~(MustStop(t) \/ task[t].out = "escalated")
    <3>1. PICK i \in {row.interactive, Live(t).interactive} :
             task'[t] = [task[t] EXCEPT !.pc = "commit", !.approved = Live(t).approved = Live(t).phase,
                                        !.live.interactive = i]
      <4>1. Become(t, [task[t] EXCEPT !.pc = "commit", !.approved = Live(t).approved = Live(t).phase,
                          !.live.interactive = IF task[t].out \in {"done", "goto"}
                                               THEN row.interactive ELSE Live(t).interactive])
        BY <1>5, <2>3 DEF CheckBoundary, Live
      <4>. QED BY <1>0, <4>1 DEF Become
    <3>2. task[t].live = row BY <2>1 DEF Live
    <3>3. /\ task'[t].pc = "commit" /\ task'[t].approved = (row.approved = row.phase)
          /\ task'[t].live = [row EXCEPT !.interactive = row.interactive]
      BY <1>0, <2>1, <3>1, <3>2 DEF TaskStates
    <3>4. task'[t].live = row BY <1>0, <3>3 DEF Rows
    <3>5. ~Terminal(row.status) BY <2>3 DEF MustStop
    <3>. QED BY <1>a, <2>1, <3>3, <3>4, <3>5
             DEF StatusRole, Knows, Fresh, Entered, Entering, Live, InRun, RunPCs
  <2>. QED BY <2>2, <2>3
<1>. QED BY <1>1, <1>2, <1>3, <1>4, <1>5, <1>c, <1>p

\* A run that goes on to a phase does so with the row it has just stored.
LEMMA AgainKnows ==
    ASSUME NEW t \in Tasks, task'[t].pc = "top", task'[t].live = row',
           Limited(row'.status) => Limited(row.status)
    PROVE  StatusRole(t) /\ Knows(t)' /\ InRun(t)'
BY DEF StatusRole, Knows, Fresh, Entered, Entering, Live, InRun, RunPCs

\* From the boundary check to the next phase.
LEMMA LeavingKnows ==
    ASSUME Hybrid = FALSE, TypeOK, TypeOK', NEW t \in Tasks, Knows(t),
           \/ ParkOnEvent(t) \/ Finish(t) \/ GateBlocks(t) \/ Consult(t) \/ Reconsider(t)
           \/ CheckAgain(t) \/ ParkForApproval(t) \/ Advance(t)
    PROVE  StatusRole(t) /\ Knows(t)' /\ InRun(t)'
<1>0. /\ task \in [Tasks -> TaskStates] /\ task[t] \in TaskStates
      /\ row \in Rows /\ Live(t) \in Rows
  BY DEF TypeOK, TaskStates, Live
<1>a. ~Limited(row.status) /\ task[t].pc \in {"commit", "consult", "decide", "leave"}
  BY DEF ParkOnEvent, Finish, GateBlocks, Consult, Reconsider, CheckAgain, ParkForApproval,
         Advance, Leaving, Advancing, Finishing, At, Knows, Entered
<1>1. CASE ParkOnEvent(t)
  <2>1. ~Limited(row'.status) BY <1>0, <1>1 DEF ParkOnEvent, Rows
  <2>. QED BY <1>1, <2>1, SettleKnows DEF ParkOnEvent
<1>2. CASE Finish(t)
  <2>1. ~Limited(row'.status) BY <1>0, <1>2 DEF Finish, Rows
  <2>. QED BY <1>2, <2>1, SettleKnows DEF Finish
<1>3. CASE GateBlocks(t)
  <2>1. CASE Fail(t)
    <3>1. ~Limited(row'.status) BY <1>0, <2>1 DEF Fail, Rows
    <3>. QED BY <2>1, <3>1, SettleKnows DEF Fail
  <2>2. CASE ~Fail(t)
    <3>1. /\ row' = [row EXCEPT !.prompt = {Correction}]
          /\ Become(t, [Idle EXCEPT !.pc = "top", !.live = row', !.tries = NextTry(task[t].tries)])
      BY <1>3, <2>2 DEF GateBlocks
    <3>2. task'[t] = [Idle EXCEPT !.pc = "top", !.live = row', !.tries = NextTry(task[t].tries)]
      BY <1>0, <3>1 DEF Become
    <3>3. task'[t].pc = "top" /\ task'[t].live = row' BY <3>2 DEF Idle
    <3>4. row'.status = row.status BY <1>0, <3>1 DEF Rows
    <3>. QED BY <3>3, <3>4, AgainKnows
  <2>. QED BY <2>1, <2>2
<1>4. CASE Consult(t) \/ Reconsider(t)
  <2>1. row' = row BY <1>4 DEF Consult, Reconsider
  <2>2. task'[t].pc \in {"consult", "decide"}
    <3>1. CASE Consult(t) BY <3>1, NextPc DEF Consult
    <3>2. CASE Reconsider(t)
      BY <1>0, <3>2 DEF Reconsider, Become, TaskStates
    <3>. QED BY <1>4, <3>1, <3>2
  <2>. QED BY <1>a, <2>1, <2>2, EnteredKnows
<1>5. CASE CheckAgain(t)
  <2>1. row' = row BY <1>5 DEF CheckAgain
  <2>2. CASE MustStop(t) BY <1>5, <1>a, <2>1, <2>2, SettleKnows DEF CheckAgain
  <2>3. CASE ~MustStop(t)
    <3>1. task'[t].pc = "leave" BY <1>5, <2>3, NextPc DEF CheckAgain
    <3>2. ~Terminal(row.status) BY <2>3 DEF MustStop
    <3>. QED BY <1>a, <2>1, <3>1, <3>2
             DEF StatusRole, Knows, Fresh, Entered, Entering, InRun, RunPCs
  <2>. QED BY <2>2, <2>3
<1>6. CASE ParkForApproval(t)
  <2>1. ~Limited(row'.status) BY <1>0, <1>6 DEF ParkForApproval, Rows
  <2>. QED BY <1>6, <2>1, SettleKnows DEF ParkForApproval
<1>7. CASE Advance(t)
  <2>1. PICK next, kept : /\ row' = [row EXCEPT !.phase = Target(t), !.next = next, !.approved = kept]
                          /\ Become(t, [Idle EXCEPT !.pc = "top", !.live = row'])
    BY <1>7 DEF Advance
  <2>2. task'[t] = [Idle EXCEPT !.pc = "top", !.live = row'] BY <1>0, <2>1 DEF Become
  <2>3. task'[t].pc = "top" /\ task'[t].live = row' BY <2>2 DEF Idle
  <2>4. row'.status = row.status BY <1>0, <2>1 DEF Rows
  <2>. QED BY <2>3, <2>4, AgainKnows
<1>. QED BY <1>1, <1>2, <1>3, <1>4, <1>5, <1>6, <1>7

\* When the run throws.
LEMMA ThrowKnows ==
    ASSUME TypeOK, NEW t \in Tasks, Knows(t),
           SeeRateLimit(t) \/ ParkOnRateLimit(t) \/ SeeThrow(t) \/ Crash(t)
    PROVE  StatusRole(t) /\ Knows(t)' /\ InRun(t)'
<1>0. row \in Rows BY DEF TypeOK
<1>a. ~Limited(row.status)
  BY DEF SeeRateLimit, ParkOnRateLimit, SeeThrow, Crash, At, Knows, Entered
<1>1. CASE SeeRateLimit(t) \/ SeeThrow(t)
  <2>1. row' = row /\ task'[t].pc \in {"fin", "limit", "crash"}
    BY <1>1, NextPc DEF SeeRateLimit, SeeThrow
  <2>. QED BY <1>a, <2>1, EnteredKnows
<1>2. CASE ParkOnRateLimit(t)
  <2>1. task'[t].pc = "arm" /\ task[t].pc = "limit" BY <1>2, NextPc DEF ParkOnRateLimit, At
  <2>. QED BY <2>1 DEF StatusRole, Knows, Fresh, Entered, Entering, InRun, RunPCs
<1>3. CASE Crash(t)
  <2>1. ~Limited(row'.status) BY <1>0, <1>3 DEF Crash, Fail, Rows
  <2>. QED BY <1>3, <2>1, SettleKnows DEF Crash, Fail
<1>. QED BY <1>1, <1>2, <1>3

\* A call that is done, or about to read, knows nothing.
Blanks == {"idle", "fire", "drain", "redispatch", "batch", "boot", "release", "queue", "event",
           "toggle", "arm"}
LEMMA BlankKnows ==
    ASSUME NEW t \in Tasks, task'[t].pc \in Blanks
    PROVE  Knows(t)'
BY DEF Blanks, Knows, Fresh, Entered, Entering

\* Every step of a run.
LEMMA RunStepWakes ==
    ASSUME Hybrid = FALSE, TypeOK, TypeOK', NEW t \in Tasks, Knows(t), RunStep(t)
    PROVE  WakeStep(t)
<1>1. CASE EndRun(t)
  <2>1. task'[t].pc = "drain" /\ row' = row /\ ~Limited(row.status)
    BY <1>1, NextPc DEF EndRun, At, Knows, Entered
  <2>2. Knows(t)' /\ StatusRole(t) BY <2>1, BlankKnows DEF Blanks, StatusRole
  <2>. QED BY <2>1, <2>2, RunWakes
<1>2. CASE ArmTimer(t)
  <2>1. task'[t].pc = "drain" /\ row' = row /\ timer' BY <1>2, NextPc DEF ArmTimer
  <2>2. Knows(t)' /\ StatusRole(t) BY <2>1, BlankKnows DEF Blanks, StatusRole
  <2>. QED BY <2>1, <2>2, RunWakes
<1>3. CASE ~EndRun(t) /\ ~ArmTimer(t)
  <2>1. StatusRole(t) /\ Knows(t)' /\ InRun(t)'
    BY <1>3, EnteringKnows, WorkKnows, LeavingKnows, ThrowKnows DEF RunStep
  <2>. QED BY <2>1, RunWakes
<1>. QED BY <1>1, <1>2, <1>3

-----------------------------------------------------------------------------
(* The other calls.                                                          *)

\* Every step of a drain, a batch and fireAndForget.
LEMMA DrainStepWakes ==
    ASSUME Hybrid = FALSE, TypeOK, TypeOK', NEW t \in Tasks, Knows(t), DrainStep(t)
    PROVE  WakeStep(t)
<1>0. /\ task \in [Tasks -> TaskStates] /\ row \in Rows /\ OthersRest(t) /\ MayStep(t)
  BY DrainRoles
     DEF TypeOK, RoleStep, DrainStep, Drain, Redispatch, ReadForBatch, Inject, ScreenOut, Fire, At
<1>1. CASE Drain(t)
  <2>1. task[t].pc = "drain" /\ row' = row /\ timer' = timer BY <1>1 DEF Drain, At
  <2>2. task'[t].pc \in {"idle", "redispatch", "batch"}
    <3>1. CASE queue = {} BY <1>1, <3>1, NextPc DEF Drain
    <3>2. CASE queue # {}
      <4>1. task'[t] = [Idle EXCEPT !.pc = "batch", !.notes = queue]
        BY <1>0, <1>1, <3>2 DEF Drain, Become
      <4>. QED BY <4>1 DEF Idle
    <3>. QED BY <3>1, <3>2
  <2>. QED BY <1>0, <2>1, <2>2, BlankKnows DEF WakeStep, StatusRole, WakeRole, Carries, InRun, RunPCs, Blanks
<1>2. CASE Redispatch(t)
  <2>1. /\ task[t].pc = "redispatch" /\ row' = row /\ timer' = timer
        /\ task'[t].pc \in {"idle", "fire"}
    BY <1>2, NextPc DEF Redispatch, At, Quiet, ram
  <2>. QED BY <1>0, <2>1, BlankKnows DEF WakeStep, StatusRole, WakeRole, Carries, InRun, RunPCs, Blanks
<1>3. CASE ReadForBatch(t)
  <2>1. /\ task[t].pc = "batch" /\ row' = row /\ timer' = timer
        /\ \/ task'[t].pc = "idle"
           \/ task'[t].pc = "inject" /\ Parking(row.status)
    BY <1>3, NextPc DEF ReadForBatch, At, Quiet, ram
  <2>. QED BY <1>0, <2>1 DEF WakeStep, StatusRole, WakeRole, Carries, InRun, RunPCs, Knows, Fresh,
                             Entered, Entering
<1>4. CASE Inject(t)
  <2>1. task'[t].pc = "fire" BY <1>4, NextPc DEF Inject
  <2>2. ~Limited(row'.status) BY <1>0, <1>4 DEF Inject, Rows
  <2>. QED BY <1>0, <2>1, <2>2, BlankKnows DEF WakeStep, StatusRole, WakeRole, Blanks
<1>5. CASE ScreenOut(t)
  <2>1. task[t].pc = "inject" /\ row' = row /\ timer' = timer /\ task'[t].pc = "idle"
    BY <1>5, NextPc DEF ScreenOut, At, Quiet, ram
  <2>. QED BY <1>0, <2>1, BlankKnows DEF WakeStep, StatusRole, WakeRole, Carries, InRun, RunPCs, Blanks
<1>6. CASE Fire(t)
  <2>1. /\ task[t].pc = "fire" /\ row' = row /\ timer' = timer
        /\ \/ task'[t].pc = "idle" /\ active
           \/ task'[t].pc = "boot"
    BY <1>6, NextPc DEF Fire, At, MustDefer
  <2>. QED BY <1>0, <2>1, BlankKnows DEF WakeStep, StatusRole, WakeRole, Carries, InRun, RunPCs, Blanks
<1>. QED BY <1>1, <1>2, <1>3, <1>4, <1>5, <1>6 DEF DrainStep

\* A call that started by reading the row knows it.
LEMMA StartKnows ==
    ASSUME TypeOK, NEW t \in Tasks, NEW pc \in {"cancel", "pause", "message", "event", "toggle",
           "rerun", "resume", "wake"}, NEW notes, NEW out, NEW to,
           Start(t, pc, notes, out, to), row' = row,
           pc = "resume" /\ out = "timer" => row.status = AwaitingRateLimit
    PROVE  OthersRest(t) /\ Knows(t)' /\ task'[t].pc = pc
<1> DEFINE s == [Idle EXCEPT !.pc = pc, !.live = row, !.notes = notes, !.out = out, !.to = to]
<1>1. Become(t, s) BY DEF Start
<1>2. s.pc = pc /\ s.live = row /\ s.out = out BY DEF Idle
<1> HIDE DEF s
<1>3. OthersRest(t) /\ task'[t] = s BY <1>1, BecomeOne
<1>. QED BY <1>2, <1>3 DEF Knows, Fresh, Entered, Entering, Live

\* A step of a call that does not hand on a wake-up.
LEMMA CallWakes ==
    ASSUME TypeOK, NEW t \in Tasks, OthersRest(t), MayStep(t), Knows(t)',
           \/ ~Limited(row'.status)
           \/ /\ row'.status = row.status
              /\ \/ Carries(t)'
                 \/ timer' = timer /\ ~Carries(t)
                 \/ active /\ ~InRun(t)
    PROVE  WakeStep(t)
BY DEF WakeStep, StatusRole, WakeRole

\* Every step of a call into the dispatcher.
LEMMA CallStepWakes ==
    ASSUME Hybrid = FALSE, TypeOK, TypeOK', NEW t \in Tasks, Knows(t), CallStep(t)
    PROVE  WakeStep(t)
<1>0. /\ task \in [Tasks -> TaskStates] /\ task[t] \in TaskStates /\ row \in Rows
      /\ OthersRest(t) /\ MayStep(t)
  BY CallRoles
     DEF TypeOK, RoleStep, CallStep, Cancel, Drop, Pause, Stop, Message, QueueMessage,
         ResumeWithMessage, Reopen, Event, Toggle, Rerun, Release, Resume, Resuming, Wake, At
<1>a. task[t].pc \in Fresh => Live(t) = row BY DEF Knows
<1>1. CASE Cancel(t)
  <2>1. task[t].pc = "cancel" /\ Live(t) = row /\ timer' = timer
    BY <1>a, <1>1 DEF Cancel, At, Fresh
  <2>2. CASE row' = row /\ Become(t, Idle)
    <3>1. task'[t].pc = "idle" BY <2>2, NextPc
    <3>. QED BY <1>0, <2>1, <2>2, <3>1, BlankKnows, CallWakes DEF Blanks, Carries, InRun, RunPCs
  <2>3. CASE row'.status = Cancelled /\ Become(t, [Idle EXCEPT !.pc = "drop"])
    <3>1. task'[t].pc = "drop" BY <2>3, NextPc
    <3>2. Knows(t)' BY <2>3, <3>1 DEF Knows, Fresh, Entered, Entering
    <3>. QED BY <1>0, <2>3, <3>2, CallWakes
  <2>. QED BY <1>0, <1>1, <2>2, <2>3 DEF Cancel, Rows
<1>2. CASE Drop(t)
  <2>1. row' = row /\ row.status = Cancelled /\ task'[t].pc = "idle"
    BY <1>2, NextPc DEF Drop, At, Knows
  <2>. QED BY <1>0, <2>1, BlankKnows, CallWakes DEF Blanks
<1>3. CASE Pause(t)
  <2>1. task[t].pc = "pause" /\ timer' = timer BY <1>3 DEF Pause, At, Quiet, ram
  <2>2. CASE Live(t).status # Running
    <3>1. task'[t].pc = "idle" /\ row' = row BY <1>3, <2>2, NextPc DEF Pause
    <3>. QED BY <1>0, <2>1, <3>1, BlankKnows, CallWakes DEF Blanks, Carries, InRun, RunPCs
  <2>3. CASE Live(t).status = Running
    <3>1. row'.status = AwaitingInput BY <1>0, <1>3, <2>3 DEF Pause, Rows
    <3>2. \E out : task'[t] = [Idle EXCEPT !.pc = "stop", !.out = out]
      BY <1>0, <1>3, <2>3 DEF Pause, Become
    <3>3. task'[t].pc = "stop" BY <3>2 DEF Idle
    <3>4. Knows(t)' BY <3>1, <3>3 DEF Knows, Fresh, Entered, Entering
    <3>. QED BY <1>0, <3>1, <3>4, CallWakes
  <2>. QED BY <2>2, <2>3
<1>4. CASE Stop(t)
  <2>1. row' = row /\ row.status = AwaitingInput /\ task'[t].pc = "idle"
    BY <1>4, NextPc DEF Stop, At, Knows
  <2>. QED BY <1>0, <2>1, BlankKnows, CallWakes DEF Blanks
<1>5. CASE Message(t)
  <2>1. task[t].pc = "message" /\ Live(t) = row /\ row' = row /\ timer' = timer
    BY <1>a, <1>5 DEF Message, At, Fresh
  <2>2. \/ Become(t, Idle)
        \/ \E pc \in {"reopen", "resume-note", "queue"} :
              /\ Go(t, pc)
              /\ pc = "reopen" => row.status = Complete
              /\ pc = "resume-note" => Parking(row.status)
    BY <1>5, <2>1 DEF Message
  <2>3. CASE Become(t, Idle)
    <3>1. task'[t].pc = "idle" BY <2>3, NextPc
    <3>. QED BY <1>0, <2>1, <3>1, BlankKnows, CallWakes DEF Blanks, Carries, InRun, RunPCs
  <2>4. ASSUME NEW pc \in {"reopen", "resume-note", "queue"}, Go(t, pc),
               pc = "reopen" => row.status = Complete,
               pc = "resume-note" => Parking(row.status)
        PROVE  WakeStep(t)
    <3>1. task'[t] = [task[t] EXCEPT !.pc = pc] BY <1>0, <2>4 DEF Go, Become
    <3>2. task'[t].pc = pc /\ task'[t].live = row BY <1>0, <2>1, <3>1 DEF TaskStates, Live
    <3>3. Knows(t)' BY <2>1, <2>4, <3>2 DEF Knows, Fresh, Entered, Entering, Live
    <3>. QED BY <1>0, <2>1, <3>3, CallWakes DEF Carries, InRun, RunPCs
  <2>. QED BY <2>2, <2>3, <2>4
<1>6. CASE QueueMessage(t)
  <2>1. /\ task[t].pc = "queue" /\ row'.status = row.status /\ timer' = timer
        /\ task'[t].pc = "idle"
    BY <1>0, <1>6, NextPc DEF QueueMessage, At, Quiet, ram, Rows
  <2>. QED BY <1>0, <2>1, BlankKnows, CallWakes DEF Blanks, Carries, InRun, RunPCs
<1>7. CASE ResumeWithMessage(t) \/ Reopen(t)
  <2>1. task'[t].pc = "fire" BY <1>7, NextPc DEF ResumeWithMessage, Reopen
  <2>2. row'.status = Running BY <1>0, <1>7 DEF ResumeWithMessage, Reopen, Rows
  <2>. QED BY <1>0, <2>1, <2>2, BlankKnows, CallWakes DEF Blanks
<1>8. CASE Event(t)
  <2>1. task[t].pc = "event" /\ row' = row /\ timer' = timer BY <1>8 DEF Event, At
  <2>2. task'[t] = Idle \/ task'[t] = [Idle EXCEPT !.pc = "batch", !.notes = task[t].notes]
    BY <1>0, <1>8 DEF Event, Become
  <2>3. task'[t].pc \in {"idle", "batch"}
    <3>1. CASE task'[t] = Idle BY <3>1 DEF Idle
    <3>2. CASE task'[t] = [Idle EXCEPT !.pc = "batch", !.notes = task[t].notes] BY <3>2 DEF Idle
    <3>. QED BY <2>2, <3>1, <3>2
  <2>. QED BY <1>0, <2>1, <2>3, BlankKnows, CallWakes DEF Blanks, Carries, InRun, RunPCs
<1>9. CASE Toggle(t) \/ Rerun(t)
  <2>1. task[t].pc \in {"toggle", "rerun"} /\ timer' = timer BY <1>9 DEF Toggle, Rerun, At, Quiet, ram
  <2>2. \/ task'[t] = Idle
        \/ \E to : task'[t] = [Idle EXCEPT !.pc = "release", !.to = to]
    BY <1>0, <1>9 DEF Toggle, Rerun, Become
  <2>3. task'[t].pc \in {"idle", "release"}
    <3>1. CASE task'[t] = Idle BY <3>1 DEF Idle
    <3>2. ASSUME NEW to, task'[t] = [Idle EXCEPT !.pc = "release", !.to = to]
          PROVE  task'[t].pc = "release"
      BY <3>2 DEF Idle
    <3>. QED BY <2>2, <3>1, <3>2
  <2>4. row'.status = row.status \/ row'.status = AwaitingInput
    <3>1. \/ row' = row \/ \E i : row' = [row EXCEPT !.interactive = i]
          \/ row' = [row EXCEPT !.status = AwaitingInput]
      BY <1>9 DEF Toggle, Rerun
    <3>. QED BY <1>0, <3>1 DEF Rows
  <2>. QED BY <1>0, <2>1, <2>3, <2>4, BlankKnows, CallWakes DEF Blanks, Carries, InRun, RunPCs
<1>10. CASE Release(t)
  <2>1. /\ task[t].pc = "release" /\ row' = row
        /\ Start(t, "resume", {}, "none", task[t].to)
    BY <1>10 DEF Release, At, Untouched
  <2>2. Knows(t)' /\ task'[t].pc = "resume" BY <2>1, StartKnows
  <2>. QED BY <1>0, <2>1, <2>2, CallWakes DEF Carries
<1>11. CASE Resume(t)
  <2>1. task[t].pc = "resume" /\ Live(t) = row /\ row' = row
    BY <1>a, <1>11 DEF Resume, At, Fresh
  <2>2. CASE active \/ ~Resumable(Live(t).status)
    <3>1. task'[t].pc = "idle" BY <1>11, <2>2, NextPc DEF Resume
    <3>2. active \/ ~Limited(row'.status) BY <2>1, <2>2
    <3>. QED BY <1>0, <2>1, <3>1, <3>2, BlankKnows, CallWakes DEF Blanks, InRun, RunPCs
  <2>3. CASE ~(active \/ ~Resumable(Live(t).status))
    <3>1. Go(t, "resuming") BY <1>11, <2>3 DEF Resume
    <3>2. task'[t] = [task[t] EXCEPT !.pc = "resuming"] BY <1>0, <3>1 DEF Go, Become
    <3>3. task'[t].pc = "resuming" /\ task'[t].out = task[t].out BY <1>0, <3>2 DEF TaskStates
    <3>4. task[t].out = "timer" => row.status = AwaitingRateLimit BY <2>1 DEF Knows
    <3>5. Knows(t)' BY <2>1, <2>3, <3>3, <3>4 DEF Knows, Fresh, Entered, Entering
    <3>. QED BY <1>0, <2>1, <3>3, <3>5, CallWakes DEF Carries
  <2>. QED BY <2>2, <2>3
<1>12. CASE Resuming(t)
  <2>1. task'[t].pc = "fire" BY <1>12, NextPc DEF Resuming
  <2>2. row'.status = Running BY <1>0, <1>12 DEF Resuming, Rows
  <2>. QED BY <1>0, <2>1, <2>2, BlankKnows, CallWakes DEF Blanks
<1>13. CASE Wake(t)
  <2>1. task[t].pc = "wake" /\ Live(t) = row /\ row' = row
    BY <1>a, <1>13 DEF Wake, At, Fresh, Untouched
  <2>2. CASE StillDue(Live(t).status)
    <3>1. Start(t, "resume", {}, "timer", 0) BY <1>13, <2>2 DEF Wake
    <3>2. row.status = AwaitingRateLimit BY <2>1, <2>2 DEF StillDue
    <3>3. Knows(t)' /\ task'[t].pc = "resume" BY <2>1, <3>1, <3>2, StartKnows
    <3>. QED BY <1>0, <2>1, <3>3, CallWakes DEF Carries
  <2>3. CASE ~StillDue(Live(t).status)
    <3>1. task'[t].pc = "idle" BY <1>13, <2>3, NextPc DEF Wake
    <3>. QED BY <1>0, <2>1, <2>3, <3>1, BlankKnows, CallWakes DEF Blanks, StillDue
  <2>. QED BY <2>2, <2>3
<1>. QED
  BY <1>1, <1>2, <1>3, <1>4, <1>5, <1>6, <1>7, <1>8, <1>9, <1>10, <1>11, <1>12, <1>13 DEF CallStep

\* What the world does: a call that begins reads the row, the agent and its
\* watchdog move the row of a run, the timer hands on to a call or finds a run.
LEMMA SurpriseWakes ==
    ASSUME Hybrid = FALSE, TypeOK, TypeOK', NEW t \in Tasks, Knows(t),
           Surprise(t) \/ TimerFires(t)
    PROVE  WakeStep(t)
<1>0. /\ task \in [Tasks -> TaskStates] /\ task[t] \in TaskStates /\ row \in Rows
      /\ OthersRest(t) /\ MayStep(t)
  BY SurpriseRoles
     DEF TypeOK, RoleStep, Surprise, TimerFires, ReadInbox, AgentEscalates, WatchdogParks,
         WatchdogFails, CancelCall, PauseCall, MessageCall, EventCall, ToggleCall, RerunCall,
         ResumeCall, Control, Begin, At
<1>a. ASSUME At(t, "exec"), task'[t].pc = "exec",
             row'.status = row.status \/ ~Limited(row'.status)
      PROVE  WakeStep(t)
  <2>1. ~Limited(row'.status) BY <1>a DEF At, Knows, Entered
  <2>2. Knows(t)' BY <1>a, <2>1 DEF Knows, Fresh, Entered, Entering
  <2>. QED BY <1>0, <2>1, <2>2, CallWakes
<1>b. ASSUME Begin(t), row' = row, timer' = timer,
             NEW pc \in {"cancel", "pause", "message", "event", "toggle", "rerun", "resume"},
             NEW notes, NEW to, NEW out, out # "timer",
             Start(t, pc, notes, out, to)
      PROVE  WakeStep(t)
  <2>1. Knows(t)' BY <1>b, StartKnows
  <2>2. ~Carries(t) BY <1>b DEF Begin, At, Carries, InRun, RunPCs
  <2>. QED BY <1>0, <1>b, <2>1, <2>2, CallWakes
<1>1. CASE ReadInbox(t)
  BY <1>1, <1>a DEF ReadInbox, At
<1>2. CASE AgentEscalates(t)
  <2>1. ~Limited(row'.status) BY <1>0, <1>2 DEF AgentEscalates, Rows
  <2>2. task'[t].pc = "exec" BY <1>0, <1>2 DEF AgentEscalates, Become, At, TaskStates
  <2>. QED BY <1>2, <1>a, <2>1, <2>2 DEF AgentEscalates
<1>3. CASE WatchdogParks(t)
  <2>1. ~Limited(row'.status) BY <1>0, <1>3 DEF WatchdogParks, Rows
  <2>2. task'[t].pc = "exec" BY <1>0, <1>3 DEF WatchdogParks, Become, At, TaskStates
  <2>. QED BY <1>3, <1>a, <2>1, <2>2 DEF WatchdogParks
<1>4. CASE WatchdogFails(t)
  <2>1. ~Limited(row'.status) BY <1>0, <1>4 DEF WatchdogFails, Rows
  <2>. QED BY <1>4, <1>a, <2>1 DEF WatchdogFails, At
<1>5. CASE CancelCall(t) \/ PauseCall(t)
  BY <1>5, <1>b DEF CancelCall, PauseCall, Control, Untouched, ram
<1>6. ASSUME NEW m, MessageCall(t, m) \/ EventCall(t, m)
      PROVE  WakeStep(t)
  BY <1>6, <1>b DEF MessageCall, EventCall, ram
<1>7. ASSUME NEW value \in BOOLEAN, ToggleCall(t, value)
      PROVE  WakeStep(t)
  <2>1. PICK out \in {"on", "off"} : Start(t, "toggle", {}, out, 0)
    BY <1>7 DEF ToggleCall
  <2>. QED BY <1>7, <1>b, <2>1 DEF ToggleCall, Control, Untouched, ram
<1>8. ASSUME NEW p, RerunCall(t, p) \/ ResumeCall(t, p)
      PROVE  WakeStep(t)
  BY <1>8, <1>b DEF RerunCall, ResumeCall, Control, Untouched, ram
<1>9. CASE TimerFires(t)
  <2>1. row' = row /\ task[t].pc = "idle" /\ ~InRun(t)
    BY <1>9 DEF TimerFires, Begin, At, InRun, RunPCs
  <2>2. CASE active
    <3>1. Knows(t)' BY <1>9, <2>1, <2>2 DEF TimerFires, Knows, Fresh, Entered, Entering
    <3>. QED BY <1>0, <2>1, <2>2, <3>1, CallWakes
  <2>3. CASE ~active
    <3>1. Knows(t)' /\ task'[t].pc = "wake" BY <1>9, <2>1, <2>3, StartKnows DEF TimerFires
    <3>. QED BY <1>0, <2>1, <3>1, CallWakes DEF Carries
  <2>. QED BY <2>2, <2>3
<1>. QED BY <1>1, <1>2, <1>3, <1>4, <1>5, <1>6, <1>7, <1>8, <1>9 DEF Surprise

-----------------------------------------------------------------------------
(* The invariant.                                                            *)

\* At first there is one call, about to start the run of a running job.
LEMMA InitKnows == Init => KnowInv
<1> SUFFICES ASSUME Init PROVE KnowInv
  OBVIOUS
<1>1. row.status = Running BY DEF Init, Blank
<1>2. \A t \in Tasks : task[t].pc \in {"idle", "fire"} BY DEF Init, Idle
<1>3. \A t \in Tasks : Knows(t) BY <1>2 DEF Knows, Fresh, Entered, Entering
<1>. QED BY <1>1, <1>3 DEF KnowInv, Awake

\* After a restart nobody knows anything, and the timer is armed again.
LEMMA RestartKnows ==
    ASSUME Hybrid = FALSE, Restart
    PROVE  KnowInv'
<1>1. \A t \in Tasks : task'[t].pc = "idle" BY DEF Restart, Idle
<1>2. \A t \in Tasks : Knows(t)' BY <1>1 DEF Knows, Fresh, Entered, Entering
<1>3. Awake' BY DEF Restart, Rearmed, Awake
<1>. QED BY <1>2, <1>3 DEF KnowInv

\* Every step of the system but a restart is a step of a call.
LEMMA StepWakes ==
    ASSUME Hybrid = FALSE, TypeOK, TypeOK', KnowInv, NEW t \in Tasks,
           RunStep(t) \/ DrainStep(t) \/ CallStep(t) \/ TimerFires(t) \/ Surprise(t)
    PROVE  WakeStep(t)
<1>1. Knows(t) BY DEF KnowInv
<1>. QED BY <1>1, RunStepWakes, DrainStepWakes, CallStepWakes, SurpriseWakes

\* Every step keeps the invariant.
LEMMA NextKnows ==
    ASSUME Hybrid = FALSE
    PROVE  TypeOK /\ TypeOK' /\ RunsInv /\ KnowInv /\ [Next]_vars => KnowInv'
<1> SUFFICES ASSUME TypeOK, TypeOK', RunsInv, KnowInv, [Next]_vars PROVE KnowInv'
  OBVIOUS
<1>1. ASSUME NEW t \in Tasks,
             RunStep(t) \/ DrainStep(t) \/ CallStep(t) \/ TimerFires(t) \/ Surprise(t)
      PROVE  KnowInv'
  BY <1>1, StepWakes, WakeStepKeeps
<1>2. CASE Restart BY <1>2, RestartKnows
<1>3. CASE UNCHANGED vars
  BY <1>3 DEF KnowInv, Awake, Carries, InRun, Knows, Live, vars
<1>. QED BY <1>1, <1>2, <1>3 DEF Next

\* The inductive invariant.
LEMMA KnowAlways ==
    ASSUME Hybrid = FALSE
    PROVE  Spec => []KnowInv
BY TypeCorrect, RunsInvariant, InitKnows, NextKnows, PTL DEF Spec

-----------------------------------------------------------------------------
(* The promises.                                                             *)

\* With the local state backend a job parked on a rate limit is never forgotten, as
\* long as no run is thrown out before it stored its phase's status: its timer is
\* armed, or a call that will run it is under way.
THEOREM RateLimitWakes ==
    ASSUME Hybrid = FALSE, "unprepared" \notin Outcomes
    PROVE  Spec => []RateLimitedJobWakes
<1>1. KnowInv => RateLimitedJobWakes
  BY DEF KnowInv, Awake, Carries, RateLimitedJobWakes
<1>. QED BY <1>1, KnowAlways, PTL

\* With the local state backend the timer resumes only a job that still waits for
\* its rate limit: one resumed, paused or cancelled since is left alone.
THEOREM TimerWakes ==
    ASSUME Hybrid = FALSE
    PROVE  Spec => TimerWakesOnlyRateLimited
<1>1. KnowInv /\ [Next]_vars =>
        [\A t \in Tasks : task[t].out = "timer" /\ task[t].pc = "resuming" /\ task'[t].pc = "fire"
                            => row.status = AwaitingRateLimit]_vars
  BY DEF KnowInv, Knows
<1>. QED BY <1>1, KnowAlways, PTL DEF Spec, TimerWakesOnlyRateLimited

\* A run does not get as far as leaving its phase with a cancelled job, and a call
\* that would reopen or resume it knows better.
LEMMA CancelledStep ==
    ASSUME Hybrid = FALSE, TypeOK, NEW t \in Tasks, Knows(t), row.status = Cancelled,
           RunStep(t) \/ DrainStep(t) \/ CallStep(t) \/ TimerFires(t) \/ Surprise(t)
    PROVE  row'.phase = row.phase /\ row'.status # Complete
<1>0. row \in Rows /\ task[t] \in TaskStates BY DEF TypeOK
<1>1. CASE row' = row BY <1>1
<1>2. CASE RunStep(t) /\ row' # row
  <2>1. task[t].pc \notin {"commit", "leave"} BY DEF Knows
  <2>2. ~Finish(t) /\ ~Advance(t)
    BY <2>1 DEF Finish, Finishing, Advance, Leaving, Advancing, At
  <2>3. /\ row'.phase = row.phase
        /\ row'.status \in {row.status, Running, AwaitingEvent, AwaitingInput, AwaitingRateLimit,
                            Failed}
    BY <1>0, <1>2, <2>1, <2>2
       DEF RunStep, Boot, BootFails, Load, StartPhase, TakePrompt, EnterPhase, Sync, PhaseStatus,
           ParkAgentless, OpenChannel, StartSession, PreparationThrows, PhaseEnds, RecordUsage,
           CheckBoundary, ParkOnEvent,
           GateBlocks, Consult, Reconsider, CheckAgain, ParkForApproval, SeeRateLimit,
           ParkOnRateLimit, ArmTimer, SeeThrow, Crash, EndRun, Fail, Rows, Leaving, Advancing,
           Finishing, At
  <2>. QED BY <2>3
<1>3. CASE DrainStep(t) /\ row' # row
  <2>1. Inject(t) BY <1>3 DEF DrainStep, Drain, Redispatch, ReadForBatch, ScreenOut, Fire
  <2>2. row'.phase = row.phase /\ row'.status = Running BY <1>0, <2>1 DEF Inject, Rows
  <2>. QED BY <2>2
<1>4. CASE CallStep(t) /\ row' # row
  <2>1. ~Reopen(t) /\ ~Resuming(t) BY DEF Reopen, Resuming, At, Knows
  <2>2. Cancel(t) \/ Pause(t) \/ QueueMessage(t) \/ ResumeWithMessage(t) \/ Toggle(t) \/ Rerun(t)
    BY <1>4, <2>1
       DEF CallStep, Drop, Stop, Message, Event, Release, Resume, Wake, Untouched
  <2>3. /\ row'.phase = row.phase
        /\ row'.status \in {row.status, Cancelled, AwaitingInput, Running}
    BY <1>0, <2>2
       DEF Cancel, Pause, QueueMessage, ResumeWithMessage, Toggle, Rerun, Rows
  <2>. QED BY <2>3
<1>5. CASE (TimerFires(t) \/ Surprise(t)) /\ row' # row
  <2>1. AgentEscalates(t) \/ WatchdogParks(t) \/ WatchdogFails(t)
    BY <1>5 DEF TimerFires, Surprise, ReadInbox, CancelCall, PauseCall, MessageCall, EventCall,
                ToggleCall, RerunCall, ResumeCall, Untouched
  <2>2. row'.phase = row.phase /\ row'.status \in {Escalated, AwaitingInput, Failed}
    BY <1>0, <2>1 DEF AgentEscalates, WatchdogParks, WatchdogFails, Rows
  <2>. QED BY <2>2
<1>. QED BY <1>1, <1>2, <1>3, <1>4, <1>5

\* With the local state backend no run, call, event, timer or restart moves a
\* cancelled job to another phase or completes it.
THEOREM CancelledGoesNowhere ==
    ASSUME Hybrid = FALSE
    PROVE  Spec => CancelledJobGoesNowhere
<1>1. TypeOK /\ KnowInv /\ [Next]_vars =>
        [row.status = Cancelled => row'.phase = row.phase /\ row'.status # Complete]_vars
  <2> SUFFICES ASSUME TypeOK, KnowInv, Next, row.status = Cancelled
               PROVE  row'.phase = row.phase /\ row'.status # Complete
    OBVIOUS
  <2>1. CASE Restart BY <2>1 DEF Restart
  <2>2. ASSUME NEW t \in Tasks,
               RunStep(t) \/ DrainStep(t) \/ CallStep(t) \/ TimerFires(t) \/ Surprise(t)
        PROVE  row'.phase = row.phase /\ row'.status # Complete
    BY <2>2, CancelledStep DEF KnowInv
  <2>. QED BY <2>1, <2>2 DEF Next
<1>. QED BY <1>1, KnowAlways, TypeCorrect, PTL DEF Spec, CancelledJobGoesNowhere

\* Every call that writes another status knows the stored one.
LEMMA CancelledIdleStep ==
    ASSUME Hybrid = FALSE, Decides = FALSE, TypeOK, ActiveWhileRunning, NEW t \in Tasks, Knows(t),
           row.status = Cancelled, ~active,
           RunStep(t) \/ DrainStep(t) \/ CallStep(t) \/ TimerFires(t) \/ Surprise(t)
    PROVE  row'.status = Cancelled
<1>0. row \in Rows /\ task[t] \in TaskStates /\ ~InRun(t) BY DEF TypeOK, ActiveWhileRunning
<1>1. CASE row' = row BY <1>1
<1>2. ~RunStep(t)
  BY <1>0
     DEF RunStep, Boot, BootFails, Load, StartPhase, TakePrompt, EnterPhase, ParkAgentless,
         OpenChannel, StartSession, PreparationThrows, PhaseEnds, RecordUsage, CheckBoundary,
         ParkOnEvent, Finish, GateBlocks, Consult, Reconsider, CheckAgain, ParkForApproval, Advance, SeeRateLimit,
         ParkOnRateLimit, ArmTimer, SeeThrow, Crash, EndRun, Leaving, Advancing, Finishing, At,
         InRun, RunPCs
<1>3. CASE DrainStep(t) /\ row' # row
  <2>1. Inject(t) BY <1>3 DEF DrainStep, Drain, Redispatch, ReadForBatch, ScreenOut, Fire
  <2>. QED BY <2>1 DEF Inject, At, Knows
<1>4. CASE CallStep(t) /\ row' # row
  <2>1. ~Reopen(t) /\ ~Resuming(t) /\ ~ResumeWithMessage(t)
    BY DEF Reopen, Resuming, ResumeWithMessage, At, Knows
  <2>2. Cancel(t) \/ Pause(t) \/ QueueMessage(t) \/ Toggle(t) \/ Rerun(t)
    BY <1>4, <2>1
       DEF CallStep, Drop, Stop, Message, Event, Release, Resume, Wake, Untouched
  <2>3. ~Pause(t) BY <1>4 DEF Pause, At, Knows, Fresh
  <2>4. ~Rerun(t) BY <1>4 DEF Rerun, At, Knows, Fresh
  <2>. QED BY <1>0, <2>2, <2>3, <2>4 DEF Cancel, QueueMessage, Toggle, Rows
<1>5. CASE (TimerFires(t) \/ Surprise(t)) /\ row' # row
  <2>1. AgentEscalates(t) \/ WatchdogParks(t) \/ WatchdogFails(t)
    BY <1>5 DEF TimerFires, Surprise, ReadInbox, CancelCall, PauseCall, MessageCall, EventCall,
                ToggleCall, RerunCall, ResumeCall, Untouched
  <2>. QED BY <1>0, <2>1 DEF AgentEscalates, WatchdogParks, WatchdogFails, At, InRun, RunPCs
<1>. QED BY <1>1, <1>2, <1>3, <1>4, <1>5

\* With the local state backend and no decision layer nothing brings back a cancelled
\* job that has no run.
THEOREM CancelledIdleStays ==
    ASSUME Hybrid = FALSE, Decides = FALSE
    PROVE  Spec => CancelledIdleJobStaysCancelled
<1>1. TypeOK /\ RunsInv /\ KnowInv /\ [Next]_vars =>
        [row.status = Cancelled /\ ~active => row'.status = Cancelled]_vars
  <2> SUFFICES ASSUME TypeOK, RunsInv, KnowInv, Next, row.status = Cancelled, ~active
               PROVE  row'.status = Cancelled
    OBVIOUS
  <2>1. CASE Restart BY <2>1 DEF Restart
  <2>2. ASSUME NEW t \in Tasks,
               RunStep(t) \/ DrainStep(t) \/ CallStep(t) \/ TimerFires(t) \/ Surprise(t)
        PROVE  row'.status = Cancelled
    BY <2>2, CancelledIdleStep DEF KnowInv, RunsInv
  <2>. QED BY <2>1, <2>2 DEF Next
<1>. QED BY <1>1, KnowAlways, TypeCorrect, RunsInvariant, PTL
         DEF Spec, CancelledIdleJobStaysCancelled

\* Only Advance leaves a phase, with the row as it is stored.
LEMMA CheckpointStep ==
    ASSUME Hybrid = FALSE, Decides = FALSE, TypeOK, NEW t \in Tasks, Knows(t),
           RunStep(t) \/ DrainStep(t) \/ CallStep(t) \/ TimerFires(t) \/ Surprise(t),
           RunMoves, row'.phase # row.phase, row.interactive, row.phase \in Checkpoints
    PROVE  row.approved = row.phase
<1>0. row \in Rows /\ task[t] \in TaskStates BY DEF TypeOK
<1>1. InRun(t)
  BY RunRoles, DrainRoles, CallRoles, SurpriseRoles
     DEF RoleStep, OthersRest, RunMoves, Moves
<1>2. ~DrainStep(t) /\ ~CallStep(t)
  BY <1>1
     DEF InRun, RunPCs, At, DrainStep, Drain, Redispatch, ReadForBatch, Inject, ScreenOut, Fire,
         CallStep, Cancel, Drop, Pause, Stop, Message, QueueMessage, ResumeWithMessage, Reopen,
         Event, Toggle, Rerun, Release, Resume, Resuming, Wake
<1>3. ~Surprise(t) /\ ~TimerFires(t)
  BY <1>0
     DEF TimerFires, Surprise, ReadInbox, CancelCall, PauseCall, MessageCall, EventCall,
         ToggleCall, RerunCall, ResumeCall, Untouched, AgentEscalates, WatchdogParks,
         WatchdogFails, Rows
<1>4. Advance(t)
  <2>1. RunStep(t) BY <1>2, <1>3
  <2>2. CASE row' = row BY <2>2
  <2>3. CASE row' # row /\ ~Advance(t)
    BY <1>0, <2>1, <2>3
       DEF RunStep, Boot, BootFails, Load, StartPhase, TakePrompt, EnterPhase, Sync,
           ParkAgentless, OpenChannel, StartSession, PreparationThrows, PhaseEnds, RecordUsage,
           CheckBoundary, ParkOnEvent,
           Finish, GateBlocks, Consult, Reconsider, CheckAgain, ParkForApproval, SeeRateLimit,
           ParkOnRateLimit, ArmTimer, SeeThrow, Crash, EndRun, Fail, Rows
  <2>. QED BY <2>2, <2>3
<1>. QED BY <1>4 DEF Advance, Leaving, Advancing, At, AtCheckpoint, Knows, Fresh

\* With the local state backend and no decision layer a run leaves a checkpoint phase
\* of an interactive job only when the developer approved that phase.
THEOREM CheckpointApproval ==
    ASSUME Hybrid = FALSE, Decides = FALSE
    PROVE  Spec => CheckpointNeedsApproval
<1>1. TypeOK /\ KnowInv /\ [Next]_vars =>
        [RunMoves /\ row'.phase # row.phase /\ row.interactive /\ row.phase \in Checkpoints
           => row.approved = row.phase]_vars
  <2> SUFFICES ASSUME TypeOK, KnowInv, Next, RunMoves, row'.phase # row.phase,
                      row.interactive, row.phase \in Checkpoints
               PROVE  row.approved = row.phase
    OBVIOUS
  <2>1. ~Restart BY DEF Restart
  <2>2. PICK t \in Tasks :
           RunStep(t) \/ DrainStep(t) \/ CallStep(t) \/ TimerFires(t) \/ Surprise(t)
    BY <2>1 DEF Next
  <2>. QED BY <2>2, CheckpointStep DEF KnowInv
<1>. QED BY <1>1, KnowAlways, TypeCorrect, PTL DEF Spec, CheckpointNeedsApproval

-----------------------------------------------------------------------------
(* The input channel a failed start leaves registered.                       *)

\* Once an agent has worked, and its channel was taken back, until the run ends
\* or starts another phase.
Worked == {"usage", "post", "commit", "consult", "decide", "leave", "limited", "limit", "arm"}
Rests(s) == Parking(s) \/ Terminal(s)

\* Where a run ends, its channel is closed or its job is parked or terminal.
Silent(t) ==
    /\ task[t].pc \in Worked => session = "closed"
    /\ task[t].pc = "thrown" /\ task[t].out = "recoverable" => session = "closed"
    /\ task[t].pc \in {"fin", "park"} => session = "closed" \/ Rests(row.status)
    /\ task[t].pc \in {"fire", "boot"} => ~Terminal(row.status)
    /\ task[t].pc = "loading" => ~Terminal(Live(t).status)

ChannelInv == AbandonedChannelIsUnused /\ \A t \in Tasks : Silent(t)

\* A step leaves the job to a run, closes the channel or parks the job, unless
\* neither the channel nor the status changes and no run is lost.
ChannelRole(t) ==
    \/ InRun(t)' \/ task'[t].pc = "fire"
    \/ session' = "closed" \/ Rests(row'.status)
    \/ /\ row'.status = row.status
       /\ session = "closed" => session' = "closed"
       /\ ~InRun(t) /\ (task[t].pc # "fire" \/ active)

ChannelStep(t) ==
    /\ OthersRest(t) /\ MayStep(t) /\ Silent(t)' /\ ChannelRole(t)
    /\ ~InRun(t) => (session = "closed" => session' = "closed")

\* A step that is sound for the call that moves keeps the invariant.
LEMMA ChannelStepKeeps ==
    ASSUME Hybrid = FALSE, RunsInv, ChannelInv, NEW t \in Tasks, ChannelStep(t)
    PROVE  ChannelInv'
<1>1. ASSUME NEW u \in Tasks \ {t} PROVE Silent(u)'
  <2>1. task[u].pc \in Resting /\ task'[u] = task[u] /\ Silent(u)
    BY <1>1 DEF ChannelStep, MayStep, OthersRest, ChannelInv
  <2>2. task[u].pc = "consult" => ~InRun(t)
    BY DEF RunsInv, OneRunPerJob, InRun, RunPCs
  <2>. QED BY <2>1, <2>2 DEF ChannelStep, Silent, Worked, Resting, Live
<1>2. AbandonedChannelIsUnused'
  <2> SUFFICES ASSUME session' # "closed", ~Rests(row'.status)
               PROVE  \E u \in Tasks : InRun(u)' \/ task'[u].pc = "fire"
    BY DEF AbandonedChannelIsUnused, Rests
  <2>1. \A u \in Tasks \ {t} : task'[u] = task[u] BY DEF ChannelStep, OthersRest
  <2>2. CASE InRun(t)' \/ task'[t].pc = "fire" BY <2>2
  <2>3. CASE ~(InRun(t)' \/ task'[t].pc = "fire")
    <3>1. /\ row'.status = row.status /\ session # "closed"
          /\ ~InRun(t) /\ (task[t].pc # "fire" \/ active)
      BY <2>3 DEF ChannelStep, ChannelRole
    <3>2. \E u \in Tasks : InRun(u) \/ task[u].pc = "fire"
      BY <3>1 DEF ChannelInv, AbandonedChannelIsUnused, Rests
    <3>3. active => \E u \in Tasks : InRun(u) BY DEF RunsInv, ActiveWhileRunning
    <3>4. PICK u \in Tasks \ {t} : InRun(u) \/ task[u].pc = "fire" BY <3>1, <3>2, <3>3
    <3>. QED BY <2>1, <3>4 DEF InRun
  <2>. QED BY <2>2, <2>3
<1>. QED BY <1>1, <1>2 DEF ChannelInv, ChannelStep

\* Where a run settles.
LEMMA SettleSilent ==
    ASSUME TypeOK, NEW t \in Tasks, Settle(t), session' = "closed" \/ Rests(row'.status)
    PROVE  Silent(t)' /\ ChannelRole(t)
<1>1. task'[t].pc = "fin" BY NextPc
<1>. QED BY <1>1 DEF Silent, Worked, ChannelRole, InRun, RunPCs

\* Where the steps of a run make no promise.
LEMMA PlainSilent ==
    ASSUME NEW t \in Tasks, task'[t].pc \in {"top", "prep", "status", "open", "auth", "exec", "crash"}
    PROVE  Silent(t)' /\ ChannelRole(t)
BY DEF Silent, Worked, ChannelRole, InRun, RunPCs

\* After an agent's work the channel stays closed.
LEMMA WorkedSilent ==
    ASSUME NEW t \in Tasks, task'[t].pc \in Worked \cup {"thrown", "fin"}, session' = "closed"
    PROVE  Silent(t)' /\ ChannelRole(t)
BY DEF Silent, Worked, ChannelRole

\* Where a run goes when it leaves a phase.
LEMMA LeavingPc ==
    ASSUME TypeOK, NEW t \in Tasks,
           \/ ParkOnEvent(t) \/ Finish(t) \/ GateBlocks(t) \/ Consult(t) \/ Reconsider(t)
           \/ CheckAgain(t) \/ ParkForApproval(t) \/ Advance(t)
    PROVE  task'[t].pc \in {"fin", "top", "consult", "decide", "leave"}
<1>0. task \in [Tasks -> TaskStates] /\ task[t] \in TaskStates BY DEF TypeOK
<1>1. CASE ParkOnEvent(t) \/ Finish(t) \/ ParkForApproval(t)
  BY <1>1, NextPc DEF ParkOnEvent, Finish, ParkForApproval
<1>2. CASE GateBlocks(t)
  <2>1. Settle(t) \/ \E new, tries : Become(t, [Idle EXCEPT !.pc = "top", !.live = new, !.tries = tries])
    BY <1>2 DEF GateBlocks, Fail
  <2>2. CASE Settle(t) BY <2>2, NextPc
  <2>3. ASSUME NEW new, NEW tries, Become(t, [Idle EXCEPT !.pc = "top", !.live = new, !.tries = tries])
        PROVE  task'[t].pc = "top"
    <3>1. task'[t] = [Idle EXCEPT !.pc = "top", !.live = new, !.tries = tries]
      BY <1>0, <2>3 DEF Become
    <3>. QED BY <3>1 DEF Idle
  <2>. QED BY <2>1, <2>2, <2>3
<1>3. CASE Consult(t) \/ CheckAgain(t)
  BY <1>3, NextPc DEF Consult, CheckAgain
<1>4. CASE Reconsider(t)
  BY <1>0, <1>4 DEF Reconsider, Become, TaskStates
<1>5. CASE Advance(t)
  <2>1. PICK new : Become(t, [Idle EXCEPT !.pc = "top", !.live = new]) BY <1>5 DEF Advance
  <2>2. task'[t] = [Idle EXCEPT !.pc = "top", !.live = new] BY <1>0, <2>1 DEF Become
  <2>. QED BY <2>2 DEF Idle
<1>. QED BY <1>1, <1>2, <1>3, <1>4, <1>5

\* Every step of a run.
LEMMA RunChannel ==
    ASSUME Hybrid = FALSE, TypeOK, TypeOK', NEW t \in Tasks, Silent(t), RunStep(t)
    PROVE  Silent(t)' /\ ChannelRole(t)
<1>0. /\ task \in [Tasks -> TaskStates] /\ task[t] \in TaskStates
      /\ row \in Rows /\ Live(t) \in Rows
  BY DEF TypeOK, TaskStates, Live
<1> USE DEF At, Quiet, ram
<1>1. CASE Boot(t)
  <2>1. task'[t] = [task[t] EXCEPT !.pc = "loading", !.live = row] BY <1>0, <1>1 DEF Boot, Become
  <2>2. task'[t].pc = "loading" /\ task'[t].live = row BY <1>0, <2>1 DEF TaskStates
  <2>3. ~Terminal(row.status) BY <1>1 DEF Boot, Silent
  <2>. QED BY <2>2, <2>3 DEF Silent, Worked, Live, ChannelRole, InRun, RunPCs
<1>2. CASE BootFails(t)
  <2>1. Rests(row'.status) BY <1>0, <1>2 DEF BootFails, Fail, Rows, Rests
  <2>. QED BY <1>2, <2>1, SettleSilent DEF BootFails, Fail
<1>3. CASE Load(t)
  <2>1. task'[t].pc = "top" BY <1>3, NextPc DEF Load, Silent
  <2>. QED BY <2>1, PlainSilent
<1>4. CASE StartPhase(t)
  <2>1. CASE MustStop(t)
    <3>1. Rests(row'.status) BY <1>4, <2>1 DEF StartPhase, MustStop, Rests
    <3>. QED BY <1>4, <2>1, <3>1, SettleSilent DEF StartPhase
  <2>2. CASE ~MustStop(t)
    <3>1. task'[t].pc = "prep" BY <1>4, <2>2, NextPc DEF StartPhase
    <3>. QED BY <3>1, PlainSilent
  <2>. QED BY <2>1, <2>2
<1>5. CASE TakePrompt(t)
  <2>1. task'[t].pc = "status"
    <3>1. CASE Live(t).prompt = {} BY <1>5, <3>1, NextPc DEF TakePrompt
    <3>2. CASE Live(t).prompt # {}
      <4>1. \E new : task'[t] = [task[t] EXCEPT !.pc = "status", !.live = new, !.notes = Live(t).prompt]
        BY <1>0, <1>5, <3>2 DEF TakePrompt, Become
      <4>. QED BY <1>0, <4>1 DEF TaskStates
    <3>. QED BY <3>1, <3>2
  <2>. QED BY <2>1, PlainSilent
<1>6. CASE EnterPhase(t)
  <2>1. /\ row' = [row EXCEPT !.status = PhaseStatus(Live(t).phase)]
        /\ task'[t] = [task[t] EXCEPT !.pc = IF Live(t).phase \in Agentless THEN "park" ELSE "open",
                                      !.live = row']
    BY <1>0, <1>6 DEF EnterPhase, Sync, Become
  <2>2. task'[t].pc = IF Live(t).phase \in Agentless THEN "park" ELSE "open"
    BY <1>0, <2>1 DEF TaskStates
  <2>3. Live(t).phase \in Agentless => row'.status = AwaitingEvent
    BY <1>0, <2>1 DEF PhaseStatus, Rows
  <2>4. CASE Live(t).phase \in Agentless
    BY <2>2, <2>3, <2>4 DEF Silent, Worked, Rests, ChannelRole, InRun, RunPCs
  <2>5. CASE Live(t).phase \notin Agentless BY <2>2, <2>5, PlainSilent
  <2>. QED BY <2>4, <2>5
<1>7. CASE ParkAgentless(t)
  <2>1. row'.status = row.status /\ session' = session BY <1>0, <1>7 DEF ParkAgentless, Rows
  <2>. QED BY <1>7, <2>1, SettleSilent DEF ParkAgentless, Silent
<1>8. CASE OpenChannel(t)
  <2>1. task'[t].pc = "auth" BY <1>8, NextPc DEF OpenChannel
  <2>. QED BY <2>1, PlainSilent
<1>9. CASE StartSession(t)
  <2>1. task'[t] = [task[t] EXCEPT !.pc = "exec", !.notes = {}]
    BY <1>0, <1>9 DEF StartSession, Become
  <2>2. task'[t].pc = "exec" BY <1>0, <2>1 DEF TaskStates
  <2>. QED BY <2>2, PlainSilent
<1>10. CASE PreparationThrows(t)
  <2>1. task'[t] = [Idle EXCEPT !.pc = "thrown", !.out = "crash"]
    BY <1>0, <1>10 DEF PreparationThrows, Become
  <2>2. task'[t].pc = "thrown" /\ task'[t].out = "crash" BY <2>1 DEF Idle
  <2>. QED BY <2>2 DEF Silent, Worked, ChannelRole, InRun, RunPCs
<1>11. CASE PhaseEnds(t)
  <2>1. session' = "closed" BY <1>11 DEF PhaseEnds, CloseSession
  <2>2. task'[t].pc \in {"limited", "thrown", "usage"}
    <3>1. PICK o, q : task' = [task EXCEPT ![t] =
              [task[t] EXCEPT
                !.pc = CASE o = "ratelimit" -> "limited"
                         [] o \in {"crash", "recoverable"} -> "thrown"
                         [] OTHER -> "usage",
                !.out = IF @ = "escalated" /\ o \notin Throws THEN @ ELSE o,
                !.to = IF o = "goto" THEN q ELSE 0]]
      BY <1>11 DEF PhaseEnds, Become
    <3>2. task'[t].pc = CASE o = "ratelimit" -> "limited"
                          [] o \in {"crash", "recoverable"} -> "thrown"
                          [] OTHER -> "usage"
      BY <1>0, <3>1 DEF TaskStates
    <3>3. CASE o = "ratelimit" BY <3>2, <3>3
    <3>4. CASE o \in {"crash", "recoverable"} BY <3>2, <3>4
    <3>5. CASE o \notin {"ratelimit", "crash", "recoverable"} BY <3>2, <3>5
    <3>. QED BY <3>3, <3>4, <3>5
  <2>. QED BY <2>1, <2>2, WorkedSilent DEF Worked
<1>12. CASE RecordUsage(t)
  <2>1. task'[t] = [task[t] EXCEPT !.pc = "post", !.live = row]
    BY <1>0, <1>12 DEF RecordUsage, Sync, Become
  <2>2. task'[t].pc = "post" BY <1>0, <2>1 DEF TaskStates
  <2>3. session' = "closed" BY <1>12 DEF RecordUsage, Silent, Worked
  <2>. QED BY <2>2, <2>3, WorkedSilent DEF Worked
<1>13. CASE CheckBoundary(t)
  <2>1. session' = "closed" BY <1>13 DEF CheckBoundary, Silent, Worked
  <2>2. CASE MustStop(t) \/ task[t].out = "escalated"
    BY <1>13, <2>1, <2>2, SettleSilent DEF CheckBoundary
  <2>3. CASE ~(MustStop(t) \/ task[t].out = "escalated")
    <3> DEFINE i == IF task[t].out \in {"done", "goto"} THEN row.interactive
                                                      ELSE task[t].live.interactive
    <3>1. task'[t] = [task[t] EXCEPT !.pc = "commit",
                                     !.approved = Live(t).approved = Live(t).phase,
                                     !.live.interactive = i]
      BY <1>0, <1>13, <2>3 DEF CheckBoundary, Become
    <3>2. task'[t].pc = "commit" BY <1>0, <3>1 DEF TaskStates
    <3>. QED BY <2>1, <3>2, WorkedSilent DEF Worked
  <2>. QED BY <2>2, <2>3
<1>14. CASE \/ ParkOnEvent(t) \/ Finish(t) \/ GateBlocks(t) \/ Consult(t) \/ Reconsider(t)
            \/ CheckAgain(t) \/ ParkForApproval(t) \/ Advance(t)
  <2>1. task[t].pc \in {"commit", "consult", "decide", "leave"} /\ session' = session
    BY <1>14 DEF ParkOnEvent, Finish, GateBlocks, Consult, Reconsider, CheckAgain, ParkForApproval,
                 Advance, Leaving, Advancing, Finishing
  <2>2. session' = "closed" BY <2>1 DEF Silent, Worked
  <2>. QED BY <2>2, LeavingPc, <1>14 DEF Silent, Worked, ChannelRole
<1>15. CASE SeeRateLimit(t) \/ ParkOnRateLimit(t)
  <2>1. session' = "closed" BY <1>15 DEF SeeRateLimit, ParkOnRateLimit, Silent, Worked
  <2>2. task'[t].pc \in {"fin", "limit", "arm"} BY <1>15, NextPc DEF SeeRateLimit, ParkOnRateLimit
  <2>. QED BY <2>1, <2>2, WorkedSilent DEF Worked
<1>16. CASE ArmTimer(t)
  <2>1. session' = "closed" /\ task'[t].pc = "drain"
    BY <1>16, NextPc DEF ArmTimer, Silent, Worked
  <2>. QED BY <2>1 DEF Silent, Worked, ChannelRole
<1>17. CASE SeeThrow(t)
  <2>1. session' = session /\ row' = row BY <1>17 DEF SeeThrow
  <2>2. CASE Parking(row.status) \/ Terminal(row.status) \/ task[t].out = "recoverable"
    <3>1. session' = "closed" \/ Rests(row'.status)
      BY <1>17, <2>1, <2>2 DEF SeeThrow, Silent, Rests
    <3>. QED BY <1>17, <2>2, <3>1, SettleSilent DEF SeeThrow
  <2>3. CASE ~(Parking(row.status) \/ Terminal(row.status) \/ task[t].out = "recoverable")
    <3>1. task'[t].pc = "crash" BY <1>17, <2>3, NextPc DEF SeeThrow
    <3>. QED BY <3>1, PlainSilent
  <2>. QED BY <2>2, <2>3
<1>18. CASE Crash(t)
  <2>1. Rests(row'.status) BY <1>0, <1>18 DEF Crash, Fail, Rows, Rests
  <2>. QED BY <1>18, <2>1, SettleSilent DEF Crash, Fail
<1>19. CASE EndRun(t)
  <2>1. /\ session' = session /\ row' = row /\ task'[t].pc = "drain"
        /\ session = "closed" \/ Rests(row.status)
    BY <1>19, NextPc DEF EndRun, Silent
  <2>. QED BY <2>1 DEF Silent, Worked, ChannelRole
<1>. QED
  BY <1>1, <1>2, <1>3, <1>4, <1>5, <1>6, <1>7, <1>8, <1>9, <1>10, <1>11, <1>12, <1>13, <1>14,
     <1>15, <1>16, <1>17, <1>18, <1>19 DEF RunStep

\* The places a call goes to when it is neither done nor starts a run.
LEMMA IdlePcs ==
    /\ Idle.pc = "idle"
    /\ \A out : [Idle EXCEPT !.pc = "stop", !.out = out].pc = "stop"
    /\ \A notes : [Idle EXCEPT !.pc = "batch", !.notes = notes].pc = "batch"
    /\ \A to : [Idle EXCEPT !.pc = "release", !.to = to].pc = "release"
BY DEF Idle

\* A call that is no run, and starts none.
LEMMA CallSilent ==
    ASSUME NEW t \in Tasks, ~InRun(t), ~InRun(t)', task'[t].pc # "fire",
           task[t].pc # "fire" \/ active,
           row'.status = row.status \/ Rests(row'.status),
           session = "closed" => session' = "closed"
    PROVE  Silent(t)' /\ ChannelRole(t)
BY DEF Silent, Worked, ChannelRole, InRun, RunPCs

\* A call that is about to start a run.
LEMMA FireSilent ==
    ASSUME NEW t \in Tasks, task'[t].pc = "fire", ~Terminal(row'.status)
    PROVE  Silent(t)' /\ ChannelRole(t)
BY DEF Silent, Worked, ChannelRole

\* Every step of a drain, a batch and fireAndForget.
LEMMA DrainChannel ==
    ASSUME TypeOK, NEW t \in Tasks, Silent(t), DrainStep(t)
    PROVE  ChannelStep(t)
<1>0. /\ task \in [Tasks -> TaskStates] /\ row \in Rows /\ OthersRest(t) /\ MayStep(t)
      /\ ~InRun(t) /\ session' = session
  BY DrainRoles
     DEF TypeOK, RoleStep, DrainStep, Drain, Redispatch, ReadForBatch, Inject, ScreenOut, Fire, At,
         InRun, RunPCs, Quiet, ram
<1>1. CASE Drain(t)
  <2>1. task[t].pc = "drain" /\ row' = row BY <1>1 DEF Drain, At
  <2>2. task'[t].pc \in {"idle", "redispatch", "batch"}
    <3>1. CASE queue = {} BY <1>1, <3>1, NextPc DEF Drain
    <3>2. CASE queue # {}
      <4>1. task'[t] = [Idle EXCEPT !.pc = "batch", !.notes = queue]
        BY <1>0, <1>1, <3>2 DEF Drain, Become
      <4>. QED BY <4>1 DEF Idle
    <3>. QED BY <3>1, <3>2
  <2>3. ~InRun(t)' BY <2>2 DEF InRun, RunPCs
  <2>. QED BY <1>0, <2>1, <2>2, <2>3, CallSilent DEF ChannelStep
<1>2. CASE Redispatch(t)
  <2>1. /\ task[t].pc = "redispatch" /\ row' = row
        /\ task'[t].pc = "idle" \/ (task'[t].pc = "fire" /\ ~Terminal(row.status))
    BY <1>2, NextPc DEF Redispatch, At, Resumable
  <2>2. task'[t].pc = "idle" => ~InRun(t)' BY DEF InRun, RunPCs
  <2>. QED BY <1>0, <2>1, <2>2, CallSilent, FireSilent DEF ChannelStep
<1>3. CASE ReadForBatch(t) \/ ScreenOut(t)
  <2>1. task[t].pc # "fire" /\ row' = row /\ task'[t].pc \in {"idle", "inject"}
    BY <1>3, NextPc DEF ReadForBatch, ScreenOut, At
  <2>2. ~InRun(t)' BY <2>1 DEF InRun, RunPCs
  <2>. QED BY <1>0, <2>1, <2>2, CallSilent DEF ChannelStep
<1>4. CASE Inject(t)
  <2>1. task'[t].pc = "fire" BY <1>4, NextPc DEF Inject
  <2>2. ~Terminal(row'.status) BY <1>0, <1>4 DEF Inject, Rows
  <2>. QED BY <1>0, <2>1, <2>2, FireSilent DEF ChannelStep
<1>5. CASE Fire(t)
  <2>1. /\ task[t].pc = "fire" /\ row' = row
        /\ (task'[t].pc = "idle" /\ active) \/ task'[t].pc = "boot"
    BY <1>5, NextPc DEF Fire, At, MustDefer
  <2>2. CASE task'[t].pc = "idle" /\ active
    <3>1. ~InRun(t)' BY <2>2 DEF InRun, RunPCs
    <3>. QED BY <1>0, <2>1, <2>2, <3>1, CallSilent DEF ChannelStep
  <2>3. CASE task'[t].pc = "boot"
    <3>1. ~Terminal(row.status) BY <2>1 DEF Silent
    <3>. QED BY <1>0, <2>1, <2>3, <3>1 DEF ChannelStep, ChannelRole, Silent, Worked, InRun, RunPCs
  <2>. QED BY <2>1, <2>2, <2>3
<1>. QED BY <1>1, <1>2, <1>3, <1>4, <1>5 DEF DrainStep

\* Every step of a call into the dispatcher.
LEMMA CallChannel ==
    ASSUME TypeOK, NEW t \in Tasks, CallStep(t)
    PROVE  ChannelStep(t)
<1>0. /\ task \in [Tasks -> TaskStates] /\ task[t] \in TaskStates /\ row \in Rows
      /\ OthersRest(t) /\ MayStep(t)
  BY CallRoles
     DEF TypeOK, RoleStep, CallStep, Cancel, Drop, Pause, Stop, Message, QueueMessage,
         ResumeWithMessage, Reopen, Event, Toggle, Rerun, Release, Resume, Resuming, Wake, At
<1>1. ~InRun(t) /\ task[t].pc # "fire" /\ active' = active
      /\ (session = "closed" => session' = "closed")
  BY DEF CallStep, Cancel, Drop, Pause, Stop, Message, QueueMessage, ResumeWithMessage, Reopen,
         Event, Toggle, Rerun, Release, Resume, Resuming, Wake, At, InRun, RunPCs, Quiet,
         Untouched, ram
<1>2. ~InRun(t)'
  <2>1. RunRole(t) BY CallRoles DEF RoleStep
  <2>. QED BY <1>1, <2>1 DEF RunRole
<1>3. CASE ResumeWithMessage(t) \/ Reopen(t) \/ Resuming(t)
  <2>1. task'[t].pc = "fire" BY <1>3, NextPc DEF ResumeWithMessage, Reopen, Resuming
  <2>2. row'.status = Running BY <1>0, <1>3 DEF ResumeWithMessage, Reopen, Resuming, Rows
  <2>. QED BY <1>0, <1>1, <2>1, <2>2, FireSilent DEF ChannelStep
<1>4. CASE ~(ResumeWithMessage(t) \/ Reopen(t) \/ Resuming(t))
  <2>1. row'.status = row.status \/ Rests(row'.status)
    BY <1>0, <1>4
       DEF CallStep, Cancel, Drop, Pause, Stop, Message, QueueMessage, Event, Toggle, Rerun,
           Release, Resume, Wake, Untouched, Rows, Rests
  <2>2. task'[t].pc # "fire"
    <3>1. CASE Cancel(t) \/ Drop(t) \/ Stop(t) \/ Message(t) \/ QueueMessage(t) \/ Release(t)
               \/ Resume(t) \/ Wake(t)
      BY <3>1, NextPc DEF Cancel, Drop, Stop, Message, QueueMessage, Release, Resume, Wake
    <3>2. CASE Pause(t)
      <4>1. CASE Become(t, Idle) BY <4>1, NextPc
      <4>2. ASSUME NEW out, Become(t, [Idle EXCEPT !.pc = "stop", !.out = out])
            PROVE  task'[t].pc # "fire"
        <5>1. task'[t] = [Idle EXCEPT !.pc = "stop", !.out = out] BY <4>2, BecomeOne
        <5>. QED BY <5>1, IdlePcs
      <4>. QED BY <3>2, <4>1, <4>2 DEF Pause
    <3>3. CASE Event(t)
      <4>1. CASE Become(t, Idle) BY <4>1, NextPc
      <4>2. ASSUME NEW notes, Become(t, [Idle EXCEPT !.pc = "batch", !.notes = notes])
            PROVE  task'[t].pc # "fire"
        <5>1. task'[t] = [Idle EXCEPT !.pc = "batch", !.notes = notes] BY <4>2, BecomeOne
        <5>. QED BY <5>1, IdlePcs
      <4>. QED BY <3>3, <4>1, <4>2 DEF Event
    <3>4. CASE Toggle(t) \/ Rerun(t)
      <4>1. CASE Become(t, Idle) BY <4>1, NextPc
      <4>2. ASSUME NEW to, Become(t, [Idle EXCEPT !.pc = "release", !.to = to])
            PROVE  task'[t].pc # "fire"
        <5>1. task'[t] = [Idle EXCEPT !.pc = "release", !.to = to] BY <4>2, BecomeOne
        <5>. QED BY <5>1, IdlePcs
      <4>. QED BY <3>4, <4>1, <4>2 DEF Toggle, Rerun
    <3>. QED BY <1>4, <3>1, <3>2, <3>3, <3>4 DEF CallStep
  <2>. QED BY <1>0, <1>1, <1>2, <2>1, <2>2, CallSilent DEF ChannelStep
<1>. QED BY <1>3, <1>4

\* What the world does.
LEMMA SurpriseChannel ==
    ASSUME TypeOK, NEW t \in Tasks, Surprise(t) \/ TimerFires(t)
    PROVE  ChannelStep(t)
<1>0. /\ task \in [Tasks -> TaskStates] /\ task[t] \in TaskStates /\ row \in Rows
      /\ OthersRest(t) /\ MayStep(t)
  BY SurpriseRoles
     DEF TypeOK, RoleStep, Surprise, TimerFires, ReadInbox, AgentEscalates, WatchdogParks,
         WatchdogFails, CancelCall, PauseCall, MessageCall, EventCall, ToggleCall, RerunCall,
         ResumeCall, Control, Begin, At
<1>1. CASE ReadInbox(t) \/ AgentEscalates(t) \/ WatchdogParks(t) \/ WatchdogFails(t)
  <2>1. InRun(t)
    BY <1>1 DEF ReadInbox, AgentEscalates, WatchdogParks, WatchdogFails, At, InRun, RunPCs
  <2>2. task'[t].pc = "exec"
    BY <1>0, <1>1
       DEF ReadInbox, AgentEscalates, WatchdogParks, WatchdogFails, At, Become, TaskStates
  <2>. QED BY <1>0, <2>1, <2>2, PlainSilent DEF ChannelStep
<1>2. CASE ~(ReadInbox(t) \/ AgentEscalates(t) \/ WatchdogParks(t) \/ WatchdogFails(t))
  <2>1. task[t].pc = "idle" /\ row' = row /\ session' = session
    BY <1>2
       DEF Surprise, TimerFires, CancelCall, PauseCall, MessageCall, EventCall, ToggleCall,
           RerunCall, ResumeCall, Control, Begin, At, Untouched, ram
  <2>2. task'[t].pc \in {"idle", "cancel", "pause", "message", "event", "toggle", "rerun",
                         "resume", "wake"}
    BY <1>2, <2>1, NextPc
       DEF Surprise, TimerFires, CancelCall, PauseCall, MessageCall, EventCall, ToggleCall,
           RerunCall, ResumeCall
  <2>3. ~InRun(t) /\ ~InRun(t)' BY <2>1, <2>2 DEF InRun, RunPCs
  <2>. QED BY <1>0, <2>1, <2>2, <2>3, CallSilent DEF ChannelStep
<1>. QED BY <1>1, <1>2

\* Every step keeps the invariant.
LEMMA NextChannel ==
    ASSUME Hybrid = FALSE
    PROVE  TypeOK /\ TypeOK' /\ RunsInv /\ ChannelInv /\ [Next]_vars => ChannelInv'
<1> SUFFICES ASSUME TypeOK, TypeOK', RunsInv, ChannelInv, [Next]_vars PROVE ChannelInv'
  OBVIOUS
<1>1. ASSUME NEW t \in Tasks,
             RunStep(t) \/ DrainStep(t) \/ CallStep(t) \/ TimerFires(t) \/ Surprise(t)
      PROVE  ChannelInv'
  <2>1. Silent(t) BY DEF ChannelInv
  <2>2. CASE RunStep(t)
    <3>1. Silent(t)' /\ ChannelRole(t) BY <2>1, <2>2, RunChannel
    <3>2. OthersRest(t) BY <2>2, RunRoles DEF RoleStep
    <3>3. MayStep(t) /\ InRun(t) BY <2>2, RunAt
    <3>. QED BY <3>1, <3>2, <3>3, ChannelStepKeeps DEF ChannelStep
  <2>. QED BY <1>1, <2>1, <2>2, DrainChannel, CallChannel, SurpriseChannel, ChannelStepKeeps
<1>2. CASE Restart
  <2>1. \A t \in Tasks : task'[t].pc = "idle" BY <1>2 DEF Restart, Idle
  <2>. QED BY <1>2, <2>1 DEF Restart, ChannelInv, AbandonedChannelIsUnused, Silent, Worked
<1>3. CASE UNCHANGED vars
  BY <1>3 DEF ChannelInv, AbandonedChannelIsUnused, InRun, Silent, Live, vars
<1>. QED BY <1>1, <1>2, <1>3 DEF Next

\* With the local state backend a channel that a failed start left registered takes
\* no message of a job nobody runs: such a job is parked, failed or terminal.
THEOREM AbandonedChannel ==
    ASSUME Hybrid = FALSE
    PROVE  Spec => []AbandonedChannelIsUnused
<1>1. Init => ChannelInv
  <2> SUFFICES ASSUME Init PROVE ChannelInv
    OBVIOUS
  <2>1. row.status = Running BY DEF Init, Blank
  <2>2. \A t \in Tasks : task[t].pc \in {"idle", "fire"} BY DEF Init, Idle
  <2>. QED BY <2>1, <2>2 DEF Init, ChannelInv, AbandonedChannelIsUnused, Silent, Worked
<1>2. Spec => []ChannelInv
  BY <1>1, TypeCorrect, RunsInvariant, NextChannel, PTL DEF Spec
<1>. QED BY <1>2, PTL DEF ChannelInv
=============================================================================
