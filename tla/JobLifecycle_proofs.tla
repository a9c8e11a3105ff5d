-------------------------- MODULE JobLifecycle_proofs --------------------------
(***************************************************************************)
(* The types of JobLifecycle and the dispatcher's promises about runs, for *)
(* every set of tasks, messages and events, every workflow and both state  *)
(* backends.                                                               *)
(*                                                                         *)
(* Types: first the rows and task states the handlers build are shown to   *)
(* be well typed, so that the cases of the actions need not expand the     *)
(* types.                                                                  *)
(*                                                                         *)
(* Runs: the three invariants, with the fact that an open session has its  *)
(* agent at work, are inductive given the types.  What they depend on is   *)
(* the role of the task that moves, before and after the step: it runs the *)
(* job, it drains the queue, it holds the session.  Each action is first   *)
(* shown to be a step that changes roles in a permitted way, then every    *)
(* such step to keep the invariants.                                       *)
(***************************************************************************)
EXTENDS JobLifecycle, TLAPS

USE DEF Terminal, Resumable, Parking, Stopped, Running, AwaitingInput,
        AwaitingEvent, AwaitingRateLimit, Escalated, Failed, Complete, Cancelled

-----------------------------------------------------------------------------
(* Rows and task states are closed under the updates the handlers make.      *)

\* Replacing one task by a well-typed state keeps all of them well typed.
LEMMA BecomeTyped ==
    ASSUME task \in [Tasks -> TaskStates], NEW t \in Tasks,
           NEW s \in TaskStates, Become(t, s)
    PROVE  task' \in [Tasks -> TaskStates]
BY DEF Become

\* The blank task is well typed.
LEMMA IdleTyped == Idle \in TaskStates /\ Blank \in Rows
BY PhaseAssumption, BoundAssumption
   DEF Idle, Blank, TaskStates, Rows, PCs, RunPCs, DrainPCs, WakePCs, CallPCs,
       Outs, Signals, Throws, Incidents, Statuses, Markers, Phases

\* The components of a task state, each updated alone.
LEMMA StateTyped ==
    ASSUME NEW s \in TaskStates
    PROVE  /\ s.pc \in PCs /\ s.live \in Rows /\ s.notes \in SUBSET Texts
           /\ s.out \in Outs /\ s.to \in Phases \cup {0} /\ s.tries \in 0 .. MaxTries
           /\ \A pc \in PCs : [s EXCEPT !.pc = pc] \in TaskStates
           /\ \A live \in Rows : [s EXCEPT !.live = live] \in TaskStates
           /\ \A notes \in SUBSET Texts : [s EXCEPT !.notes = notes] \in TaskStates
           /\ \A out \in Outs : [s EXCEPT !.out = out] \in TaskStates
           /\ \A to \in Phases \cup {0} : [s EXCEPT !.to = to] \in TaskStates
           /\ s.approved \in BOOLEAN
           /\ \A approved \in BOOLEAN : [s EXCEPT !.approved = approved] \in TaskStates
           /\ \A tries \in 0 .. MaxTries : [s EXCEPT !.tries = tries] \in TaskStates
BY DEF TaskStates

\* The components of a row, each updated alone.
LEMMA RowTyped ==
    ASSUME NEW r \in Rows
    PROVE  /\ r.status \in Statuses /\ r.phase \in Phases /\ r.prompt \in SUBSET Texts
           /\ r.awaiting \in Markers /\ r.next \in Phases \cup {0}
           /\ r.approved \in Phases \cup {0} /\ r.interactive \in BOOLEAN
           /\ \A x \in Statuses : [r EXCEPT !.status = x] \in Rows
           /\ \A x \in Phases : [r EXCEPT !.phase = x] \in Rows
           /\ \A x \in SUBSET Texts : [r EXCEPT !.prompt = x] \in Rows
           /\ \A x \in Markers : [r EXCEPT !.awaiting = x] \in Rows
           /\ \A x \in Phases \cup {0} : [r EXCEPT !.next = x] \in Rows
           /\ \A x \in Phases \cup {0} : [r EXCEPT !.approved = x] \in Rows
           /\ \A x \in BOOLEAN : [r EXCEPT !.interactive = x] \in Rows
BY DEF Rows

\* Initially every variable has its type.
LEMMA InitTyped == Init => TypeOK
<1> SUFFICES ASSUME Init PROVE TypeOK
  OBVIOUS
<1>1. row \in Rows
  BY IdleTyped, RowTyped DEF Init
<1>2. [Idle EXCEPT !.pc = "fire"] \in TaskStates
  BY IdleTyped, StateTyped DEF PCs, WakePCs
<1>3. task \in [Tasks -> TaskStates]
  BY <1>2, IdleTyped DEF Init
<1>4. spent \in Spending
  BY BoundAssumption DEF Init, Spending
<1> QED
  BY <1>1, <1>3, <1>4 DEF Init, TypeOK

-----------------------------------------------------------------------------
(* Each way a handler updates the tasks, and a row, keeps them well typed.   *)

\* The named sets of program counters and outcomes are parts of their types.
LEMMA Named ==
    /\ \A pc \in RunPCs \cup DrainPCs \cup WakePCs \cup CallPCs : pc \in PCs
    /\ \A out \in Signals \cup Throws \cup Incidents : out \in Outs
    /\ {"none", "done", "on", "off", "timer"} \subseteq Outs
BY DEF PCs, Outs

\* A blank task at any program counter is well typed.
LEMMA AtIdleTyped ==
    ASSUME NEW pc \in PCs
    PROVE  [Idle EXCEPT !.pc = pc] \in TaskStates
BY IdleTyped, StateTyped

\* Moving a task to another program counter keeps the tasks well typed.
LEMMA GoTyped ==
    ASSUME TypeOK, NEW t \in Tasks, NEW pc \in PCs, Go(t, pc)
    PROVE  task' \in [Tasks -> TaskStates]
<1>1. [task[t] EXCEPT !.pc = pc] \in TaskStates
  BY StateTyped DEF TypeOK
<1> QED
  BY <1>1, BecomeTyped DEF Go, TypeOK

\* So does blanking it, wherever it goes on.
LEMMA SettleTyped ==
    ASSUME TypeOK, NEW t \in Tasks, NEW pc \in PCs, Become(t, [Idle EXCEPT !.pc = pc])
    PROVE  task' \in [Tasks -> TaskStates]
BY AtIdleTyped, BecomeTyped DEF TypeOK

\* A task state stays well typed under the patches of a run.
LEMMA StatePatched ==
    ASSUME NEW s \in TaskStates, NEW pc \in PCs, NEW live \in Rows,
           NEW notes \in SUBSET Texts, NEW out \in Outs, NEW to \in Phases \cup {0}
    PROVE  /\ [s EXCEPT !.pc = pc, !.live = live] \in TaskStates
           /\ [s EXCEPT !.pc = pc, !.notes = notes] \in TaskStates
           /\ [s EXCEPT !.pc = pc, !.out = out, !.to = to] \in TaskStates
BY DEF TaskStates

\* So does giving it another copy of the row.
LEMMA SyncTyped ==
    ASSUME TypeOK, NEW t \in Tasks, NEW pc \in PCs, NEW live \in Rows,
           Become(t, [task[t] EXCEPT !.pc = pc, !.live = live])
    PROVE  task' \in [Tasks -> TaskStates]
<1>1. task[t] \in TaskStates
  BY DEF TypeOK
<1>2. [task[t] EXCEPT !.pc = pc, !.live = live] \in TaskStates
  BY <1>1 DEF TaskStates
<1> QED
  BY <1>2, BecomeTyped DEF TypeOK

\* So does starting a call.
LEMMA StartTyped ==
    ASSUME TypeOK, NEW t \in Tasks, NEW pc \in PCs, NEW notes \in SUBSET Texts,
           NEW out \in Outs, NEW to \in Phases \cup {0}, Start(t, pc, notes, out, to)
    PROVE  task' \in [Tasks -> TaskStates]
<1>1. [Idle EXCEPT !.pc = pc, !.live = row, !.notes = notes, !.out = out, !.to = to]
        \in TaskStates
  BY IdleTyped DEF TypeOK, TaskStates
<1> QED
  BY <1>1, BecomeTyped DEF Start, TypeOK

\* A row stays well typed under the patches of a parking or advancing run.
LEMMA RowPatched ==
    ASSUME NEW r \in Rows, NEW status \in Statuses, NEW phase \in Phases,
           NEW prompt \in SUBSET Texts, NEW awaiting \in Markers,
           NEW next \in Phases \cup {0}, NEW approved \in Phases \cup {0}
    PROVE  /\ [r EXCEPT !.status = status] \in Rows
           /\ [r EXCEPT !.prompt = prompt] \in Rows
           /\ [r EXCEPT !.awaiting = awaiting] \in Rows
           /\ [r EXCEPT !.status = status, !.awaiting = awaiting, !.next = next] \in Rows
           /\ [r EXCEPT !.status = status, !.awaiting = awaiting, !.next = next,
                        !.approved = approved] \in Rows
           /\ [r EXCEPT !.phase = phase, !.next = next, !.approved = approved] \in Rows
BY DEF Rows

\* The phase a run moves to is a phase, or 0 at the end of the workflow.
LEMMA PhasesTyped ==
    ASSUME TypeOK, NEW t \in Tasks
    PROVE  /\ NextPhase(Live(t).phase) \in Phases \cup {0}
           /\ Target(t) \in Phases \cup {0}
           /\ Live(t) \in Rows
<1>1. task[t] \in TaskStates
  BY DEF TypeOK
<1>2. Live(t) \in Rows /\ Live(t).phase \in Phases /\ task[t].to \in Phases \cup {0}
  BY <1>1, StateTyped, RowTyped DEF Live
<1>3. NextPhase(Live(t).phase) \in Phases \cup {0}
  BY <1>2, PhaseAssumption DEF NextPhase, Phases
<1> QED
  BY <1>2, <1>3 DEF Target

\* A cleared field keeps its type, whichever backend stores the row.
LEMMA ClearedTyped ==
    ASSUME NEW r \in Rows
    PROVE  /\ Clear(r.prompt, {}) \in SUBSET Texts
           /\ Clear(r.awaiting, "none") \in Markers
           /\ Clear(r.next, 0) \in Phases \cup {0}
           /\ Clear(r.approved, 0) \in Phases \cup {0}
BY DEF Clear, Rows, Markers


\* The rows the handlers that clear fields store.
LEMMA CancelledRow ==
    ASSUME NEW r \in Rows
    PROVE  [r EXCEPT !.status = Cancelled, !.prompt = Clear(@, {}),
                     !.awaiting = Clear(@, "none"), !.next = Clear(@, 0),
                     !.approved = Clear(@, 0)] \in Rows
BY ClearedTyped DEF Rows, Statuses

\* pauseJob.
LEMMA PausedRow ==
    ASSUME NEW r \in Rows
    PROVE  [r EXCEPT !.status = AwaitingInput, !.awaiting = "paused",
                     !.next = Clear(@, 0), !.approved = Clear(@, 0)] \in Rows
BY ClearedTyped DEF Rows, Statuses, Markers

\* injectAndResume.
LEMMA InjectedRow ==
    ASSUME NEW r \in Rows, NEW notes \in SUBSET Texts
    PROVE  [r EXCEPT !.status = Running, !.awaiting = Clear(@, "none"),
                     !.prompt = notes] \in Rows
BY ClearedTyped DEF Rows, Statuses

\* sendMessage to a parked job.
LEMMA AnsweredRow ==
    ASSUME NEW r \in Rows, NEW notes \in SUBSET Texts, NEW approved \in Phases \cup {0}
    PROVE  [r EXCEPT !.status = Running, !.awaiting = Clear(@, "none"),
                     !.next = Clear(@, 0), !.approved = approved,
                     !.prompt = notes] \in Rows
BY ClearedTyped DEF Rows, Statuses

\* reopenCompletedJobWithFollowUp.
LEMMA ReopenedRow ==
    ASSUME NEW r \in Rows, NEW notes \in SUBSET Texts
    PROVE  [r EXCEPT !.status = Running, !.phase = 1,
                     !.awaiting = Clear(@, "none"), !.next = Clear(@, 0),
                     !.prompt = notes] \in Rows
<1>1. 1 \in Phases
  BY PhaseAssumption DEF Phases
<1> QED
  BY <1>1, ClearedTyped DEF Rows, Statuses

\* resumeJob.
LEMMA ResumedRow ==
    ASSUME NEW r \in Rows, NEW phase \in Phases
    PROVE  [r EXCEPT !.status = Running, !.awaiting = Clear(@, "none"),
                     !.phase = phase] \in Rows
BY ClearedTyped DEF Rows, Statuses

\* Inject stores a well-typed row.
LEMMA InjectTyped ==
    ASSUME TypeOK, NEW t \in Tasks, Inject(t)
    PROVE  row' \in Rows
<1>1. row \in Rows /\ task[t].notes \in SUBSET Texts
  BY StateTyped DEF TypeOK
<1> QED
  BY <1>1, InjectedRow DEF Inject

\* Resuming stores a well-typed row.
LEMMA ResumingTyped ==
    ASSUME TypeOK, NEW t \in Tasks, Resuming(t)
    PROVE  row' \in Rows
<1> DEFINE phase == IF task[t].to \notin {0, Live(t).phase} THEN task[t].to ELSE row.phase
<1>1. row \in Rows /\ phase \in Phases
  BY StateTyped, RowTyped DEF TypeOK
<1>2. row' = [row EXCEPT !.status = Running, !.awaiting = Clear(@, "none"),
                         !.phase = phase]
  BY DEF Resuming
<1> HIDE DEF phase
<1> QED
  BY <1>1, <1>2, ResumedRow

\* ResumeWithMessage and Reopen store a well-typed row.
LEMMA MessageRowTyped ==
    ASSUME TypeOK, NEW t \in Tasks, ResumeWithMessage(t) \/ Reopen(t)
    PROVE  row' \in Rows
<1> DEFINE approves == IF Live(t).status \notin {Escalated, Failed} /\ Live(t).next # 0
                       THEN Live(t).phase ELSE 0
<1> DEFINE approved == Store(row.approved, approves, 0)
<1> DEFINE notes == Live(t).prompt \cup task[t].notes
<1>1. row \in Rows /\ Live(t) \in Rows
  BY StateTyped DEF TypeOK, Live
<1>2. notes \in SUBSET Texts
  BY <1>1, StateTyped, RowTyped DEF TypeOK
<1>3. Live(t).phase \in Phases /\ row.approved \in Phases \cup {0}
  BY <1>1, RowTyped
<1>4. approved \in Phases \cup {0}
  BY <1>3 DEF Store, Clear
<1>5. CASE ResumeWithMessage(t)
  <2>1. row' = [row EXCEPT !.status = Running, !.awaiting = Clear(@, "none"),
                           !.next = Clear(@, 0), !.approved = approved, !.prompt = notes]
    BY <1>5 DEF ResumeWithMessage
  <2> HIDE DEF approved, notes
  <2> QED
    BY <1>1, <1>2, <1>4, <2>1, AnsweredRow
<1>6. CASE Reopen(t)
  <2>1. row' = [row EXCEPT !.status = Running, !.phase = 1, !.awaiting = Clear(@, "none"),
                           !.next = Clear(@, 0), !.prompt = notes]
    BY <1>6 DEF Reopen
  <2> HIDE DEF notes
  <2> QED
    BY <1>1, <1>2, <2>1, ReopenedRow
<1> QED
  BY <1>5, <1>6

-----------------------------------------------------------------------------
(* Every action keeps the types.                                             *)

\* The steps of a run.
LEMMA RunStepTyped ==
    ASSUME TypeOK, NEW t \in Tasks, RunStep(t)
    PROVE  TypeOK'
<1> USE StateTyped, RowTyped DEF TypeOK, At, Quiet, ram, Live
<1>1. CASE Boot(t)
  <2>1. task' \in [Tasks -> TaskStates]
    BY <1>1, SyncTyped DEF Boot, PCs, RunPCs
  <2>2. row' \in Rows
    BY <1>1 DEF Boot
  <2> QED
    BY <1>1, <2>1, <2>2 DEF Boot
<1>2. CASE BootFails(t)
  <2>1. task' \in [Tasks -> TaskStates]
    BY <1>2, SettleTyped DEF BootFails, Fail, Settle, PCs, RunPCs
  <2>2. row' \in Rows
    BY <1>2 DEF BootFails, Fail, Statuses
  <2> QED
    BY <1>2, <2>1, <2>2 DEF BootFails
<1>3. CASE Load(t)
  <2>1. task' \in [Tasks -> TaskStates]
    BY <1>3, SettleTyped, GoTyped DEF Load, Settle, PCs, RunPCs
  <2>2. row' \in Rows
    BY <1>3 DEF Load
  <2> QED
    BY <1>3, <2>1, <2>2 DEF Load
<1>4. CASE StartPhase(t)
  <2>1. task' \in [Tasks -> TaskStates]
    BY <1>4, SettleTyped, GoTyped DEF StartPhase, Settle, PCs, RunPCs
  <2>2. row' \in Rows
    BY <1>4 DEF StartPhase
  <2> QED
    BY <1>4, <2>1, <2>2 DEF StartPhase
<1>5. CASE TakePrompt(t)
  <2>1. [row EXCEPT !.prompt = Consumed(@)] \in Rows
    <3>1. Consumed(row.prompt) \in SUBSET Texts
      BY DEF Consumed, Clear
    <3> QED
      BY <3>1
  <2>2. ASSUME NEW new \in Rows
        PROVE  [task[t] EXCEPT !.pc = "status", !.live = new, !.notes = Live(t).prompt] \in TaskStates
    <3>1. task[t] \in TaskStates /\ "status" \in PCs
      BY DEF PCs, RunPCs
    <3>2. task[t].live.prompt \in SUBSET Texts
      BY <3>1
    <3> QED
      BY <3>1, <3>2 DEF TaskStates
  <2>3. task' \in [Tasks -> TaskStates]
    BY <1>5, <2>1, <2>2, GoTyped, BecomeTyped DEF TakePrompt, PCs, RunPCs
  <2>4. row' \in Rows
    BY <1>5, <2>1 DEF TakePrompt
  <2> QED
    BY <1>5, <2>3, <2>4 DEF TakePrompt
<1>6. CASE EnterPhase(t)
  <2>1. task' \in [Tasks -> TaskStates]
    BY <1>6, SyncTyped DEF EnterPhase, Sync, PCs, RunPCs, PhaseStatus, Statuses
  <2>2. row' \in Rows
    BY <1>6 DEF EnterPhase, Sync, PhaseStatus, Statuses
  <2> QED
    BY <1>6, <2>1, <2>2 DEF EnterPhase
<1>7. CASE ParkAgentless(t)
  <2>1. task' \in [Tasks -> TaskStates]
    BY <1>7, SettleTyped DEF ParkAgentless, Settle, PCs, RunPCs
  <2>2. row' \in Rows
    BY <1>7 DEF ParkAgentless, Markers
  <2> QED
    BY <1>7, <2>1, <2>2 DEF ParkAgentless
<1>8. CASE StartSession(t)
  <2>1. [task[t] EXCEPT !.pc = "exec", !.notes = {}] \in TaskStates
    BY StatePatched DEF PCs, RunPCs
  <2>2. task' \in [Tasks -> TaskStates]
    BY <1>8, <2>1, BecomeTyped DEF StartSession
  <2>3. row' \in Rows
    BY <1>8 DEF StartSession
  <2> QED
    BY <1>8, <2>2, <2>3 DEF StartSession
<1>c. CASE OpenChannel(t)
  <2>1. task' \in [Tasks -> TaskStates]
    BY <1>c, GoTyped DEF OpenChannel, PCs, RunPCs
  <2> QED
    BY <1>c, <2>1 DEF OpenChannel
<1>p. CASE PreparationThrows(t)
  <2>1. [Idle EXCEPT !.pc = "thrown", !.out = "crash"] \in TaskStates
    BY IdleTyped, Named DEF PCs, RunPCs, Throws, TaskStates
  <2>2. task' \in [Tasks -> TaskStates]
    BY <1>p, <2>1, BecomeTyped DEF PreparationThrows
  <2> QED
    BY <1>p, <2>2 DEF PreparationThrows
<1>9. CASE PhaseEnds(t)
  <2>1. PICK pc \in {"limited", "thrown", "usage"},
            out \in {task[t].out, "done"} \cup Signals \cup Throws, to \in Phases \cup {0} :
            Become(t, [task[t] EXCEPT !.pc = pc, !.out = out, !.to = to])
    BY <1>9 DEF PhaseEnds
  <2>2. pc \in PCs /\ out \in Outs
    BY Named DEF PCs, RunPCs
  <2>3. [task[t] EXCEPT !.pc = pc, !.out = out, !.to = to] \in TaskStates
    BY <2>2, StatePatched
  <2>4. spent' \in Spending
    BY <1>9, BoundAssumption DEF PhaseEnds, Spending
  <2>5. task' \in [Tasks -> TaskStates]
    BY <1>9, <2>1, <2>2, <2>3, BecomeTyped
  <2>6. row' \in Rows
    BY <1>9 DEF PhaseEnds
  <2> QED
    BY <1>9, <2>5, <2>6, <2>4 DEF PhaseEnds, CloseSession
<1>10. CASE RecordUsage(t)
  <2>1. task' \in [Tasks -> TaskStates]
    BY <1>10, SyncTyped DEF RecordUsage, Sync, PCs, RunPCs
  <2>2. row' \in Rows
    BY <1>10 DEF RecordUsage, Sync
  <2> QED
    BY <1>10, <2>1, <2>2 DEF RecordUsage
<1>11. CASE CheckBoundary(t)
  <2>1. ASSUME NEW i \in BOOLEAN, NEW approved \in BOOLEAN
        PROVE  [task[t] EXCEPT !.pc = "commit", !.approved = approved,
                               !.live.interactive = i] \in TaskStates
    <3>1. task[t] \in TaskStates /\ "commit" \in PCs
      BY DEF PCs, RunPCs
    <3>2. [task[t].live EXCEPT !.interactive = i] \in Rows
      BY <3>1
    <3>3. [task[t] EXCEPT !.pc = "commit", !.approved = approved, !.live.interactive = i]
            = [task[t] EXCEPT !.pc = "commit", !.approved = approved,
                              !.live = [task[t].live EXCEPT !.interactive = i]]
      BY <3>1 DEF TaskStates
    <3> QED
      BY <3>1, <3>2, <3>3 DEF TaskStates
  <2>2. task' \in [Tasks -> TaskStates]
    BY <1>11, <2>1, SettleTyped, BecomeTyped DEF CheckBoundary, Settle, PCs, RunPCs
  <2>3. row' \in Rows
    BY <1>11 DEF CheckBoundary
  <2> QED
    BY <1>11, <2>2, <2>3 DEF CheckBoundary
<1>12. CASE ParkOnEvent(t)
  <2> DEFINE asks == /\ task[t].out = "approval"
                     /\ Live(t).interactive /\ Live(t).phase \in Checkpoints
  <2> DEFINE next == Store(row.next, IF asks THEN NextPhase(Live(t).phase) ELSE 0, 0)
  <2> DEFINE status == IF task[t].out = "event" THEN AwaitingEvent ELSE AwaitingInput
  <2> DEFINE awaiting == IF task[t].out = "event" THEN "event" ELSE "input"
  <2>1. row' = [row EXCEPT !.status = status, !.awaiting = awaiting, !.next = next]
    BY <1>12 DEF ParkOnEvent
  <2>2. next \in Phases \cup {0} /\ status \in Statuses /\ awaiting \in Markers
    BY PhasesTyped DEF Store, Clear, Statuses, Markers
  <2> HIDE DEF next, status, awaiting
  <2>3. row' \in Rows
    BY <2>1, <2>2, RowPatched
  <2>4. task' \in [Tasks -> TaskStates]
    BY <1>12, SettleTyped DEF ParkOnEvent, Settle, PCs, RunPCs
  <2>5. row' \in Rows
    BY <1>12, <2>3
  <2> QED
    BY <1>12, <2>4, <2>5 DEF ParkOnEvent
<1>13. CASE Finish(t)
  <2>1. task' \in [Tasks -> TaskStates]
    BY <1>13, SettleTyped DEF Finish, Settle, PCs, RunPCs
  <2>2. row' \in Rows
    BY <1>13 DEF Finish, Statuses
  <2> QED
    BY <1>13, <2>1, <2>2 DEF Finish
<1>14. CASE GateBlocks(t)
  <2>1. ASSUME task[t].tries # MaxTries, NEW new \in Rows
        PROVE  [Idle EXCEPT !.pc = "top", !.live = new, !.tries = NextTry(task[t].tries)] \in TaskStates
    <3>1. task[t].tries \in 0 .. MaxTries
      OBVIOUS
    <3>2. NextTry(task[t].tries) \in 0 .. MaxTries
      BY <3>1, <2>1, BoundAssumption DEF NextTry
    <3> QED
      BY <3>2, IdleTyped DEF TaskStates, PCs, RunPCs
  <2>2. [row EXCEPT !.prompt = {Correction}] \in Rows
    BY DEF Texts
  <2>3. task' \in [Tasks -> TaskStates]
    BY <1>14, <2>1, <2>2, SettleTyped, BecomeTyped DEF GateBlocks, Fail, Settle, PCs, RunPCs
  <2>4. row' \in Rows
    BY <1>14, <2>2 DEF GateBlocks, Fail, Statuses
  <2> QED
    BY <1>14, <2>3, <2>4 DEF GateBlocks
<1>15. CASE Consult(t)
  <2>1. task' \in [Tasks -> TaskStates]
    BY <1>15, GoTyped DEF Consult, PCs, RunPCs
  <2> QED
    BY <1>15, <2>1 DEF Consult
<1>16. CASE Reconsider(t)
  <2>1. PICK out \in {task[t].out, "overseer"} :
            Become(t, [task[t] EXCEPT !.pc = "decide", !.live = row, !.to = Target(t), !.out = out])
    BY <1>16 DEF Reconsider
  <2>2. task[t] \in TaskStates /\ "decide" \in PCs /\ out \in Outs /\ Target(t) \in Phases \cup {0}
    BY Named, PhasesTyped DEF PCs, RunPCs, Incidents
  <2>3. [task[t] EXCEPT !.pc = "decide", !.live = row, !.to = Target(t), !.out = out] \in TaskStates
    BY <2>2 DEF TaskStates
  <2>4. task' \in [Tasks -> TaskStates]
    BY <2>1, <2>3, BecomeTyped
  <2> QED
    BY <1>16, <2>4 DEF Reconsider
<1>17. CASE CheckAgain(t)
  <2>1. task' \in [Tasks -> TaskStates]
    BY <1>17, SettleTyped, GoTyped DEF CheckAgain, Settle, PCs, RunPCs
  <2> QED
    BY <1>17, <2>1 DEF CheckAgain
<1>18. CASE ParkForApproval(t)
  <2>1. PICK awaiting \in Markers :
            row' = [row EXCEPT !.status = AwaitingInput, !.next = Target(t),
                               !.awaiting = awaiting, !.approved = Clear(@, 0)]
    BY <1>18 DEF ParkForApproval, Markers
  <2>2. Target(t) \in Phases \cup {0} /\ Clear(row.approved, 0) \in Phases \cup {0}
        /\ AwaitingInput \in Statuses
    BY PhasesTyped DEF Clear, Statuses
  <2> DEFINE approved == Clear(row.approved, 0)
  <2>3. row' = [row EXCEPT !.status = AwaitingInput, !.awaiting = awaiting,
                           !.next = Target(t), !.approved = approved]
    BY <2>1
  <2>4. approved \in Phases \cup {0}
    BY <2>2
  <2> HIDE DEF approved
  <2>5. row' \in Rows
    BY <2>2, <2>3, <2>4, RowPatched
  <2>6. task' \in [Tasks -> TaskStates]
    BY <1>18, SettleTyped DEF ParkForApproval, Settle, PCs, RunPCs
  <2>7. row' \in Rows
    BY <1>18, <2>5
  <2> QED
    BY <1>18, <2>6, <2>7 DEF ParkForApproval
<1>19. CASE Advance(t)
  <2> DEFINE kept == IF task[t].approved THEN 0 ELSE Live(t).approved
  <2> DEFINE new == [row EXCEPT !.phase = Target(t), !.next = Clear(@, 0),
                                !.approved = Store(@, kept, 0)]
  <2>1. row' = new /\ Become(t, [Idle EXCEPT !.pc = "top", !.live = new])
    BY <1>19 DEF Advance
  <2>2. new \in Rows
    <3>1. Target(t) \in Phases
      BY <1>19, PhasesTyped DEF Advance, Leaving
    <3>2. Clear(row.next, 0) \in Phases \cup {0}
      BY DEF Clear
    <3>3. Store(row.approved, kept, 0) \in Phases \cup {0}
      BY DEF Store, Clear
    <3> DEFINE next == Clear(row.next, 0)
    <3> DEFINE approved == Store(row.approved, kept, 0)
    <3>4. new = [row EXCEPT !.phase = Target(t), !.next = next, !.approved = approved]
      OBVIOUS
    <3>5. next \in Phases \cup {0} /\ approved \in Phases \cup {0}
      BY <3>2, <3>3
    <3> HIDE DEF new, next, approved
    <3> QED
      BY <3>1, <3>4, <3>5 DEF Rows
  <2> HIDE DEF new
  <2>3. [Idle EXCEPT !.pc = "top", !.live = new] \in TaskStates
    BY <2>2, IdleTyped DEF TaskStates, PCs, RunPCs
  <2>4. task' \in [Tasks -> TaskStates]
    BY <1>19, <2>1, <2>2, <2>3, BecomeTyped DEF PCs, RunPCs
  <2>5. row' \in Rows
    BY <1>19, <2>1, <2>2
  <2> QED
    BY <1>19, <2>4, <2>5 DEF Advance
<1>20. CASE SeeRateLimit(t)
  <2>1. task' \in [Tasks -> TaskStates]
    BY <1>20, SettleTyped, GoTyped DEF SeeRateLimit, Settle, PCs, RunPCs
  <2>2. row' \in Rows
    BY <1>20 DEF SeeRateLimit
  <2> QED
    BY <1>20, <2>1, <2>2 DEF SeeRateLimit
<1>21. CASE ParkOnRateLimit(t)
  <2>1. task' \in [Tasks -> TaskStates]
    BY <1>21, GoTyped DEF ParkOnRateLimit, PCs, RunPCs
  <2>2. row' \in Rows
    BY <1>21 DEF ParkOnRateLimit, Statuses
  <2> QED
    BY <1>21, <2>1, <2>2 DEF ParkOnRateLimit
<1>22. CASE ArmTimer(t)
  <2>1. task' \in [Tasks -> TaskStates]
    BY <1>22, SettleTyped DEF ArmTimer, PCs, DrainPCs
  <2>2. row' \in Rows
    BY <1>22 DEF ArmTimer
  <2> QED
    BY <1>22, <2>1, <2>2 DEF ArmTimer, FreeSlot
<1>23. CASE SeeThrow(t)
  <2>1. task' \in [Tasks -> TaskStates]
    BY <1>23, SettleTyped, GoTyped DEF SeeThrow, Settle, PCs, RunPCs
  <2>2. row' \in Rows
    BY <1>23 DEF SeeThrow
  <2> QED
    BY <1>23, <2>1, <2>2 DEF SeeThrow
<1>24. CASE Crash(t)
  <2>1. task' \in [Tasks -> TaskStates]
    BY <1>24, SettleTyped DEF Crash, Fail, Settle, PCs, RunPCs
  <2>2. row' \in Rows
    BY <1>24 DEF Crash, Fail, Statuses
  <2> QED
    BY <1>24, <2>1, <2>2 DEF Crash
<1>25. CASE EndRun(t)
  <2>1. task' \in [Tasks -> TaskStates]
    BY <1>25, SettleTyped DEF EndRun, PCs, DrainPCs
  <2>2. row' \in Rows
    BY <1>25 DEF EndRun
  <2> QED
    BY <1>25, <2>1, <2>2 DEF EndRun, FreeSlot
<1> QED
  BY <1>1, <1>2, <1>3, <1>4, <1>5, <1>6, <1>7, <1>8, <1>9, <1>10, <1>11,
     <1>12, <1>13, <1>14, <1>15, <1>16, <1>17, <1>18, <1>19, <1>20, <1>21,
     <1>22, <1>23, <1>24, <1>25, <1>c, <1>p DEF RunStep

\* The steps of the drain that follows a run.
LEMMA DrainStepTyped ==
    ASSUME TypeOK, NEW t \in Tasks, DrainStep(t)
    PROVE  TypeOK'
<1> USE StateTyped, RowTyped DEF TypeOK, At, Quiet, ram, Live
<1>1. CASE Drain(t)
  <2>1. ASSUME NEW notes \in SUBSET Texts, NEW pc \in PCs
        PROVE  [Idle EXCEPT !.pc = pc, !.notes = notes] \in TaskStates
    BY IdleTyped DEF TaskStates
  <2>2. task' \in [Tasks -> TaskStates]
    BY <1>1, IdleTyped, BecomeTyped, <2>1, SettleTyped DEF Drain, PCs, WakePCs, DrainPCs
  <2>3. row' \in Rows
    BY <1>1 DEF Drain
  <2> QED
    BY <1>1, <2>2, <2>3 DEF Drain
<1>2. CASE Redispatch(t)
  <2>1. task' \in [Tasks -> TaskStates]
    BY <1>2, IdleTyped, BecomeTyped, GoTyped DEF Redispatch, PCs, WakePCs
  <2>2. row' \in Rows
    BY <1>2 DEF Redispatch
  <2> QED
    BY <1>2, <2>1, <2>2 DEF Redispatch
<1>3. CASE ReadForBatch(t)
  <2>1. task' \in [Tasks -> TaskStates]
    BY <1>3, IdleTyped, BecomeTyped, GoTyped DEF ReadForBatch, PCs, WakePCs
  <2>2. row' \in Rows
    BY <1>3 DEF ReadForBatch
  <2> QED
    BY <1>3, <2>1, <2>2 DEF ReadForBatch
<1>4. CASE Inject(t)
  <2>1. task' \in [Tasks -> TaskStates]
    BY <1>4, GoTyped DEF Inject, PCs, WakePCs
  <2>2. row' \in Rows
    BY <1>4, InjectTyped
  <2> QED
    BY <1>4, <2>1, <2>2 DEF Inject
<1>5. CASE ScreenOut(t)
  <2>1. task' \in [Tasks -> TaskStates]
    BY <1>5, IdleTyped, BecomeTyped DEF ScreenOut
  <2> QED
    BY <1>5, <2>1 DEF ScreenOut
<1>6. CASE Fire(t)
  <2>1. task' \in [Tasks -> TaskStates]
    BY <1>6, IdleTyped, BecomeTyped, SettleTyped DEF Fire, PCs, RunPCs
  <2>2. row' \in Rows
    BY <1>6 DEF Fire
  <2> QED
    BY <1>6, <2>1, <2>2 DEF Fire
<1> QED
  BY <1>1, <1>2, <1>3, <1>4, <1>5, <1>6 DEF DrainStep

\* The steps of the calls into the dispatcher.
LEMMA CallStepTyped ==
    ASSUME TypeOK, NEW t \in Tasks, CallStep(t)
    PROVE  TypeOK'
<1> USE StateTyped, RowTyped DEF TypeOK, At, Quiet, ram, Live
<1>1. CASE Cancel(t)
  <2>1. task' \in [Tasks -> TaskStates]
    BY <1>1, IdleTyped, BecomeTyped, SettleTyped DEF Cancel, PCs, CallPCs
  <2>2. row' \in Rows
    BY <1>1, CancelledRow DEF Cancel
  <2> QED
    BY <1>1, <2>1, <2>2 DEF Cancel
<1>2. CASE Drop(t)
  <2>1. task' \in [Tasks -> TaskStates]
    BY <1>2, IdleTyped, BecomeTyped DEF Drop
  <2>2. row' \in Rows
    BY <1>2 DEF Drop
  <2> QED
    BY <1>2, <2>1, <2>2 DEF Drop
<1>3. CASE Pause(t)
  <2>1. task' \in [Tasks -> TaskStates]
    <3>1. CASE Live(t).status # Running
      BY <1>3, <3>1, IdleTyped, BecomeTyped DEF Pause
    <3>2. CASE Live(t).status = Running
      <4>1. PICK out \in Outs : Become(t, [Idle EXCEPT !.pc = "stop", !.out = out])
        BY <1>3, <3>2 DEF Pause, Outs
      <4>2. [Idle EXCEPT !.pc = "stop", !.out = out] \in TaskStates
        BY IdleTyped DEF TaskStates, PCs, CallPCs
      <4> QED
        BY <4>1, <4>2, BecomeTyped
    <3> QED
      BY <3>1, <3>2
  <2>2. row' \in Rows
    BY <1>3, PausedRow DEF Pause
  <2> QED
    BY <1>3, <2>1, <2>2 DEF Pause
<1>4. CASE Stop(t)
  <2>1. task' \in [Tasks -> TaskStates]
    BY <1>4, IdleTyped, BecomeTyped DEF Stop
  <2>2. row' \in Rows
    BY <1>4 DEF Stop
  <2> QED
    BY <1>4, <2>1, <2>2 DEF Stop
<1>5. CASE Message(t)
  <2>1. task' \in [Tasks -> TaskStates]
    BY <1>5, IdleTyped, BecomeTyped, GoTyped DEF Message, PCs, CallPCs
  <2>2. row' \in Rows
    BY <1>5 DEF Message
  <2> QED
    BY <1>5, <2>1, <2>2 DEF Message
<1>6. CASE QueueMessage(t)
  <2>1. Live(t).prompt \cup task[t].notes \in SUBSET Texts
    <3>1. task[t] \in TaskStates /\ task[t].live \in Rows
      OBVIOUS
    <3> QED
      BY <3>1 DEF TaskStates, Rows
  <2>2. task' \in [Tasks -> TaskStates]
    BY <1>6, IdleTyped, BecomeTyped DEF QueueMessage
  <2>3. row' \in Rows
    BY <1>6, <2>1 DEF QueueMessage
  <2> QED
    BY <1>6, <2>2, <2>3 DEF QueueMessage
<1>7. CASE ResumeWithMessage(t)
  <2>1. task' \in [Tasks -> TaskStates]
    BY <1>7, SettleTyped DEF ResumeWithMessage, PCs, WakePCs
  <2>2. row' \in Rows
    BY <1>7, MessageRowTyped
  <2> QED
    BY <1>7, <2>1, <2>2 DEF ResumeWithMessage
<1>8. CASE Reopen(t)
  <2>1. task' \in [Tasks -> TaskStates]
    BY <1>8, SettleTyped DEF Reopen, PCs, WakePCs
  <2>2. row' \in Rows
    BY <1>8, MessageRowTyped
  <2> QED
    BY <1>8, <2>1, <2>2 DEF Reopen
<1>9. CASE Event(t)
  <2>1. ASSUME NEW notes \in SUBSET Texts, NEW pc \in PCs
        PROVE  [Idle EXCEPT !.pc = pc, !.notes = notes] \in TaskStates
    BY IdleTyped DEF TaskStates
  <2>2. task' \in [Tasks -> TaskStates]
    BY <1>9, IdleTyped, BecomeTyped, <2>1 DEF Event, PCs, WakePCs
  <2>3. row' \in Rows
    BY <1>9 DEF Event
  <2> QED
    BY <1>9, <2>2, <2>3 DEF Event
<1>10. CASE Toggle(t)
  <2>1. ASSUME NEW to \in Phases \cup {0}, NEW pc \in PCs
        PROVE  [Idle EXCEPT !.pc = pc, !.to = to] \in TaskStates
    BY IdleTyped DEF TaskStates
  <2>2. (\A i \in BOOLEAN : [row EXCEPT !.interactive = i] \in Rows) /\ row.interactive \in BOOLEAN
    OBVIOUS
  <2>3. task' \in [Tasks -> TaskStates]
    BY <1>10, IdleTyped, BecomeTyped, <2>1 DEF Toggle, PCs, CallPCs
  <2>4. row' \in Rows
    BY <1>10, <2>2 DEF Toggle
  <2> QED
    BY <1>10, <2>3, <2>4 DEF Toggle
<1>11. CASE Rerun(t)
  <2>1. ASSUME NEW to \in Phases \cup {0}, NEW pc \in PCs
        PROVE  [Idle EXCEPT !.pc = pc, !.to = to] \in TaskStates
    BY IdleTyped DEF TaskStates
  <2>2. task' \in [Tasks -> TaskStates]
    BY <1>11, IdleTyped, BecomeTyped, <2>1 DEF Rerun, PCs, CallPCs
  <2>3. row' \in Rows
    BY <1>11 DEF Rerun, Statuses
  <2> QED
    BY <1>11, <2>2, <2>3 DEF Rerun
<1>12. CASE Release(t)
  <2>1. task' \in [Tasks -> TaskStates]
    BY <1>12, StartTyped DEF Release, Outs, PCs, CallPCs
  <2>2. row' \in Rows
    BY <1>12 DEF Release, Untouched
  <2> QED
    BY <1>12, <2>1, <2>2 DEF Release, Untouched
<1>13. CASE Resume(t)
  <2>1. task' \in [Tasks -> TaskStates]
    BY <1>13, IdleTyped, BecomeTyped, GoTyped DEF Resume, PCs, CallPCs
  <2>2. row' \in Rows
    BY <1>13 DEF Resume
  <2> QED
    BY <1>13, <2>1, <2>2 DEF Resume
<1>14. CASE Resuming(t)
  <2>1. task' \in [Tasks -> TaskStates]
    BY <1>14, SettleTyped DEF Resuming, PCs, WakePCs
  <2>2. row' \in Rows
    BY <1>14, ResumingTyped
  <2> QED
    BY <1>14, <2>1, <2>2 DEF Resuming
<1>15. CASE Wake(t)
  <2>1. task' \in [Tasks -> TaskStates]
    BY <1>15, IdleTyped, BecomeTyped, StartTyped DEF Wake, Outs, Phases, PCs, CallPCs
  <2>2. row' \in Rows
    BY <1>15 DEF Wake, Untouched
  <2> QED
    BY <1>15, <2>1, <2>2 DEF Wake, Untouched
<1> QED
  BY <1>1, <1>2, <1>3, <1>4, <1>5, <1>6, <1>7, <1>8, <1>9, <1>10, <1>11,
     <1>12, <1>13, <1>14, <1>15 DEF CallStep

\* The bounds are kept.
LEMMA SpentTyped ==
    ASSUME TypeOK
    PROVE  /\ Spend("controls", MaxControls) => spent' \in Spending
           /\ Spend("restarts", MaxRestarts) => spent' \in Spending
BY BoundAssumption DEF TypeOK, Spend, Spending

\* The row the idle watchdog stores.
LEMMA StalledRow ==
    ASSUME NEW r \in Rows
    PROVE  [r EXCEPT !.status = AwaitingInput, !.awaiting = "stalled",
                     !.next = Clear(@, 0), !.approved = Clear(@, 0)] \in Rows
BY ClearedTyped DEF Rows, Statuses, Markers

\* The agent, the watchdog and the developer, but for the calls with an argument.
LEMMA SurpriseTyped ==
    ASSUME TypeOK, NEW t \in Tasks, ReadInbox(t) \/ AgentEscalates(t) \/ WatchdogParks(t)
           \/ WatchdogFails(t) \/ CancelCall(t) \/ PauseCall(t)
    PROVE  TypeOK'
<1> USE StateTyped, RowTyped DEF TypeOK, At, Quiet, ram, Live
<1>1. CASE ReadInbox(t)
  <2>1. task' \in [Tasks -> TaskStates]
    BY <1>1 DEF ReadInbox
  <2>2. row' \in Rows
    BY <1>1 DEF ReadInbox
  <2> QED
    BY <1>1, <2>1, <2>2 DEF ReadInbox
<1>2. CASE AgentEscalates(t)
  <2>1. [task[t] EXCEPT !.out = "escalated"] \in TaskStates
    BY Named DEF Incidents
  <2>2. task' \in [Tasks -> TaskStates]
    BY <1>2, <2>1, BecomeTyped DEF AgentEscalates
  <2>3. row' \in Rows
    BY <1>2 DEF AgentEscalates, Statuses
  <2> QED
    BY <1>2, <2>2, <2>3 DEF AgentEscalates
<1>3. CASE WatchdogParks(t)
  <2>1. [task[t] EXCEPT !.out = "stalled"] \in TaskStates
    BY Named DEF Incidents
  <2>2. row' \in Rows
    BY <1>3, StalledRow DEF WatchdogParks
  <2>3. task' \in [Tasks -> TaskStates]
    BY <1>3, <2>1, BecomeTyped DEF WatchdogParks
  <2>4. row' \in Rows
    BY <1>3, <2>2
  <2> QED
    BY <1>3, <2>3, <2>4 DEF WatchdogParks
<1>4. CASE WatchdogFails(t)
  <2>1. task' \in [Tasks -> TaskStates]
    BY <1>4 DEF WatchdogFails
  <2>2. row' \in Rows
    BY <1>4 DEF WatchdogFails, Statuses
  <2> QED
    BY <1>4, <2>1, <2>2 DEF WatchdogFails
<1>5. CASE CancelCall(t)
  <2>1. spent' \in Spending
    BY <1>5, SpentTyped DEF CancelCall, Control
  <2>2. task' \in [Tasks -> TaskStates]
    BY <1>5, StartTyped DEF CancelCall, Outs, PCs, CallPCs
  <2>3. row' \in Rows
    BY <1>5 DEF CancelCall, Untouched
  <2> QED
    BY <1>5, <2>2, <2>3, <2>1 DEF CancelCall, Untouched
<1>6. CASE PauseCall(t)
  <2>1. spent' \in Spending
    BY <1>6, SpentTyped DEF PauseCall, Control
  <2>2. task' \in [Tasks -> TaskStates]
    BY <1>6, StartTyped DEF PauseCall, Outs, PCs, CallPCs
  <2>3. row' \in Rows
    BY <1>6 DEF PauseCall, Untouched
  <2> QED
    BY <1>6, <2>2, <2>3, <2>1 DEF PauseCall, Untouched
<1> QED
  BY <1>1, <1>2, <1>3, <1>4, <1>5, <1>6


\* The calls with an argument, and the timer.
LEMMA CallTyped ==
    ASSUME TypeOK, NEW t \in Tasks,
           \/ TimerFires(t)
           \/ \E m \in Messages : MessageCall(t, m)
           \/ \E e \in Events : EventCall(t, e)
           \/ \E value \in BOOLEAN : ToggleCall(t, value)
           \/ \E p \in Phases : RerunCall(t, p)
           \/ \E p \in Phases \cup {0} : ResumeCall(t, p)
    PROVE  TypeOK'
<1> USE DEF Untouched, ram
<1>1. {"wake", "message", "event", "toggle", "rerun", "resume"} \subseteq PCs
      /\ {"timer", "none", "on", "off"} \subseteq Outs
  BY DEF PCs, CallPCs, Outs
<1>2. CASE TimerFires(t)
  <2>1. task' \in [Tasks -> TaskStates]
    BY <1>1, <1>2, StartTyped DEF TimerFires, TypeOK
  <2> QED
    BY <1>2, <2>1 DEF TimerFires, TypeOK
<1>3. ASSUME NEW m \in Messages, MessageCall(t, m) PROVE TypeOK'
  <2>1. {m} \in SUBSET Texts
    BY DEF Texts, Notes
  <2>2. task' \in [Tasks -> TaskStates]
    BY <1>1, <1>3, <2>1, StartTyped DEF MessageCall
  <2> QED
    BY <1>3, <2>2 DEF MessageCall, TypeOK, Notes
<1>4. ASSUME NEW e \in Events, EventCall(t, e) PROVE TypeOK'
  <2>1. {e} \in SUBSET Texts
    BY DEF Texts, Notes
  <2>2. task' \in [Tasks -> TaskStates]
    BY <1>1, <1>4, <2>1, StartTyped DEF EventCall
  <2> QED
    BY <1>4, <2>2 DEF EventCall, TypeOK, Notes
<1>5. ASSUME NEW value \in BOOLEAN, ToggleCall(t, value) PROVE TypeOK'
  <2>1. task' \in [Tasks -> TaskStates]
    BY <1>1, <1>5, StartTyped DEF ToggleCall
  <2>2. spent' \in Spending
    BY <1>5, SpentTyped DEF ToggleCall, Control
  <2> QED
    BY <1>5, <2>1, <2>2 DEF ToggleCall, TypeOK
<1>6. ASSUME NEW p \in Phases, RerunCall(t, p) PROVE TypeOK'
  <2>1. task' \in [Tasks -> TaskStates]
    BY <1>1, <1>6, StartTyped DEF RerunCall
  <2>2. spent' \in Spending
    BY <1>6, SpentTyped DEF RerunCall, Control
  <2> QED
    BY <1>6, <2>1, <2>2 DEF RerunCall, TypeOK
<1>7. ASSUME NEW p \in Phases \cup {0}, ResumeCall(t, p) PROVE TypeOK'
  <2>1. task' \in [Tasks -> TaskStates]
    BY <1>1, <1>7, StartTyped DEF ResumeCall
  <2>2. spent' \in Spending
    BY <1>7, SpentTyped DEF ResumeCall, Control
  <2> QED
    BY <1>7, <2>1, <2>2 DEF ResumeCall, TypeOK
<1> QED
  BY <1>2, <1>3, <1>4, <1>5, <1>6, <1>7

\* A restart keeps the types.
LEMMA RestartTyped ==
    ASSUME TypeOK, Restart
    PROVE  TypeOK'
<1>1. spent' \in Spending
  BY SpentTyped DEF Restart
<1>2. task' \in [Tasks -> TaskStates]
  BY IdleTyped DEF Restart
<1>3. timer' \in BOOLEAN
  BY ModeAssumption DEF Restart, Rearmed
<1> QED
  BY <1>1, <1>2, <1>3 DEF Restart, TypeOK

\* Every step of the system keeps the types.
LEMMA NextTyped == TypeOK /\ [Next]_vars => TypeOK'
<1> SUFFICES ASSUME TypeOK, [Next]_vars PROVE TypeOK'
  OBVIOUS
<1>1. ASSUME NEW t \in Tasks, RunStep(t) \/ DrainStep(t) \/ CallStep(t) \/ TimerFires(t)
      PROVE  TypeOK'
  BY <1>1, RunStepTyped, DrainStepTyped, CallStepTyped, CallTyped
<1>2. ASSUME NEW t \in Tasks, Surprise(t) PROVE TypeOK'
  BY <1>2, SurpriseTyped, CallTyped DEF Surprise
<1>3. CASE Restart
  BY <1>3, RestartTyped
<1>4. CASE UNCHANGED vars
  BY <1>4 DEF TypeOK, vars
<1> QED
  BY <1>1, <1>2, <1>3, <1>4 DEF Next

\* Type correctness: rows, tasks and the dispatcher's structures always have
\* their types, whatever interleaves.
THEOREM TypeCorrect == Spec => []TypeOK
BY InitTyped, NextTyped, PTL DEF Spec

-----------------------------------------------------------------------------
(* Runs.                                                                     *)

HIDE DEF Terminal, Resumable, Parking, Stopped, Running, AwaitingInput,
         AwaitingEvent, AwaitingRateLimit, Escalated, Failed, Complete, Cancelled

\* A session belongs to an agent at work.
WorkedWith == session \in {"open", "stopping"} => \E t \in Tasks : task[t].pc = "exec"

RunsInv == /\ OneRunPerJob
           /\ ActiveWhileRunning
           /\ QueuedEventsHaveADrainer
           /\ WorkedWith

-----------------------------------------------------------------------------
(* Roles.                                                                    *)

Drains(t) == InRun(t) \/ task[t].pc = "drain"
OthersRest(t) == \A u \in Tasks \ {t} : task'[u] = task[u]

\* The slot stays as it is, is taken by a task that finds it free, or is freed
\* by the run that drains next.
RunRole(t) ==
    \/ active' = active /\ (InRun(t)' <=> InRun(t))
    \/ ~active /\ active' /\ InRun(t)'
    \/ InRun(t) /\ active' = FALSE /\ task'[t].pc = "drain"

\* The queue is emptied, grows by a bystander of the run, or is left to the
\* task that drains it.
QueueRole(t) ==
    \/ queue' = {}
    \/ active /\ ~Drains(t) /\ (InRun(t)' <=> InRun(t)) /\ active' = active
    \/ queue' = queue /\ (Drains(t) => Drains(t)')

\* There is no session, the task that moves works with it, or it is none of its
\* business.
NoSession == session \notin {"open", "stopping"}
SessionRole(t) ==
    \/ NoSession'
    \/ task'[t].pc = "exec"
    \/ task[t].pc # "exec" /\ (NoSession => NoSession')

RoleStep(t) == OthersRest(t) /\ RunRole(t) /\ QueueRole(t) /\ SessionRole(t)

\* A step that changes roles in a permitted way keeps the invariants.
LEMMA RolesKept ==
    ASSUME RunsInv, NEW t \in Tasks, RoleStep(t)
    PROVE  RunsInv'
<1> USE DEF RunsInv, RoleStep, OthersRest
<1>1. OneRunPerJob' /\ ActiveWhileRunning'
  <2>1. \A u \in Tasks \ {t} : InRun(u)' <=> InRun(u)
    BY DEF InRun
  <2>2. CASE active' = active /\ (InRun(t)' <=> InRun(t))
    BY <2>1, <2>2 DEF OneRunPerJob, ActiveWhileRunning
  <2>3. CASE ~active /\ active' /\ InRun(t)'
    BY <2>1, <2>3 DEF OneRunPerJob, ActiveWhileRunning
  <2>4. CASE InRun(t) /\ active' = FALSE /\ task'[t].pc = "drain"
    <3>1. ~InRun(t)'
      BY <2>4 DEF InRun, RunPCs
    <3> QED
      BY <2>1, <2>4, <3>1 DEF OneRunPerJob, ActiveWhileRunning
  <2> QED
    BY <2>2, <2>3, <2>4 DEF RunRole
<1>2. QueuedEventsHaveADrainer'
  <2>1. \A u \in Tasks \ {t} : Drains(u)' <=> Drains(u)
    BY DEF InRun, Drains
  <2>2. CASE queue' = {}
    BY <2>2 DEF QueuedEventsHaveADrainer
  <2>3. CASE active /\ ~Drains(t) /\ (InRun(t)' <=> InRun(t)) /\ active' = active
    <3>1. PICK u \in Tasks : InRun(u)
      BY <2>3 DEF ActiveWhileRunning
    <3> QED
      BY <2>1, <2>3, <3>1 DEF QueuedEventsHaveADrainer, Drains, InRun
  <2>4. CASE queue' = queue /\ (Drains(t) => Drains(t)')
    BY <2>1, <2>4 DEF QueuedEventsHaveADrainer, Drains
  <2> QED
    BY <2>2, <2>3, <2>4 DEF QueueRole
<1>3. WorkedWith'
  BY DEF WorkedWith, SessionRole, NoSession
<1> QED
  BY <1>1, <1>2, <1>3

-----------------------------------------------------------------------------
(* The actions.                                                              *)

\* Become changes one task.
LEMMA BecomeOne ==
    ASSUME TypeOK, NEW t \in Tasks, NEW s, Become(t, s)
    PROVE  OthersRest(t) /\ task'[t] = s
BY DEF TypeOK, Become, OthersRest

\* What a task's next state says of its next pc.
LEMMA NextPc ==
    ASSUME TypeOK, NEW t \in Tasks
    PROVE  /\ \A pc : Go(t, pc) => OthersRest(t) /\ task'[t].pc = pc
           /\ \A pc : Become(t, [Idle EXCEPT !.pc = pc]) => OthersRest(t) /\ task'[t].pc = pc
           /\ Become(t, Idle) => OthersRest(t) /\ task'[t].pc = "idle"
           /\ Settle(t) => OthersRest(t) /\ task'[t].pc = "fin"
           /\ \A pc, notes, out, to :
                 Start(t, pc, notes, out, to) => OthersRest(t) /\ task'[t].pc = pc
<1>1. task[t] \in TaskStates
  BY DEF TypeOK
<1>2. \A pc : [task[t] EXCEPT !.pc = pc].pc = pc /\ [Idle EXCEPT !.pc = pc].pc = pc
            /\ Idle.pc = "idle"
  BY <1>1 DEF TaskStates, Idle
<1>3. \A pc : Become(t, [task[t] EXCEPT !.pc = pc]) => OthersRest(t) /\ task'[t].pc = pc
  BY <1>2, BecomeOne
<1>4. \A pc : Become(t, [Idle EXCEPT !.pc = pc]) => OthersRest(t) /\ task'[t].pc = pc
  BY <1>2, BecomeOne
<1>5. Become(t, Idle) => OthersRest(t) /\ task'[t].pc = "idle"
  BY <1>2, BecomeOne
<1>6. \A pc, notes, out, to : Start(t, pc, notes, out, to) => OthersRest(t) /\ task'[t].pc = pc
  <2> TAKE pc, notes, out, to
  <2> DEFINE s == [Idle EXCEPT !.pc = pc, !.live = row, !.notes = notes, !.out = out, !.to = to]
  <2>1. s.pc = pc
    BY DEF Idle
  <2>2. Start(t, pc, notes, out, to) => Become(t, s)
    BY DEF Start
  <2> HIDE DEF s
  <2> QED
    BY <2>1, <2>2, BecomeOne
<1> QED
  BY <1>3, <1>4, <1>5, <1>6 DEF Go, Settle

\* The steps of a run.
LEMMA RunRoles ==
    ASSUME TypeOK, NEW t \in Tasks, RunStep(t)
    PROVE  RoleStep(t)
<1> USE DEF RoleStep, RunRole, QueueRole, SessionRole, NoSession, Drains, InRun, RunPCs, At, Quiet, ram
<1>1. task \in [Tasks -> TaskStates]
  BY DEF TypeOK
<1>2. CASE Boot(t)
  <2>1. OthersRest(t) /\ task'[t].pc \in {"loading"}
    BY <1>1, <1>2 DEF Boot, Become, OthersRest, TaskStates, Idle
  <2> QED
    BY <1>2, <2>1 DEF Boot
<1>3. CASE BootFails(t)
  BY <1>3, NextPc DEF BootFails, Fail
<1>4. CASE Load(t)
  BY <1>4, NextPc DEF Load
<1>5. CASE StartPhase(t)
  BY <1>5, NextPc DEF StartPhase
<1>6. CASE TakePrompt(t)
  <2>1. OthersRest(t) /\ task'[t].pc \in {"status"}
    <3>1. CASE Live(t).prompt = {}
      BY <1>1, <1>6, <3>1, NextPc DEF TakePrompt, Become, OthersRest, TaskStates, Idle
    <3>2. CASE Live(t).prompt # {}
      <4>1. \E new : Become(t, [task[t] EXCEPT !.pc = "status", !.live = new, !.notes = Live(t).prompt])
        BY <1>6, <3>2 DEF TakePrompt
      <4> QED
        BY <1>1, <4>1 DEF Become, OthersRest, TaskStates, Idle
    <3> QED
      BY <3>1, <3>2
  <2> QED
    BY <1>6, <2>1 DEF TakePrompt
<1>7. CASE EnterPhase(t)
  <2>1. OthersRest(t) /\ task'[t].pc \in {"park", "open"}
    BY <1>1, <1>7 DEF EnterPhase, Sync, Become, OthersRest, TaskStates, Idle
  <2> QED
    BY <1>7, <2>1 DEF EnterPhase, Sync
<1>8. CASE ParkAgentless(t)
  BY <1>8, NextPc DEF ParkAgentless
<1>9. CASE StartSession(t)
  <2>1. OthersRest(t) /\ task'[t].pc \in {"exec"}
    BY <1>1, <1>9 DEF StartSession, Become, OthersRest, TaskStates, Idle
  <2> QED
    BY <1>9, <2>1 DEF StartSession
<1>c. CASE OpenChannel(t)
  BY <1>c, NextPc DEF OpenChannel
<1>p. CASE PreparationThrows(t)
  <2>1. OthersRest(t) /\ task'[t].pc \in {"thrown"}
    BY <1>1, <1>p DEF PreparationThrows, Become, OthersRest, TaskStates, Idle
  <2> QED
    BY <1>p, <2>1 DEF PreparationThrows
<1>10. CASE PhaseEnds(t)
  <2>1. OthersRest(t) /\ task'[t].pc \in {"limited", "thrown", "usage"}
    BY <1>1, <1>10 DEF PhaseEnds, CloseSession, Become, OthersRest, TaskStates, Idle
  <2> QED
    BY <1>10, <2>1 DEF PhaseEnds, CloseSession
<1>11. CASE RecordUsage(t)
  <2>1. OthersRest(t) /\ task'[t].pc \in {"post"}
    BY <1>1, <1>11 DEF RecordUsage, Sync, Become, OthersRest, TaskStates, Idle
  <2> QED
    BY <1>11, <2>1 DEF RecordUsage, Sync
<1>12. CASE CheckBoundary(t)
  <2>1. OthersRest(t) /\ task'[t].pc \in {"fin", "commit"}
    <3>1. CASE MustStop(t) \/ task[t].out = "escalated"
      BY <1>1, <1>12, <3>1, NextPc DEF CheckBoundary, Become, OthersRest, TaskStates, Idle
    <3>2. CASE ~(MustStop(t) \/ task[t].out = "escalated")
      <4>1. \E i, approved : Become(t, [task[t] EXCEPT !.pc = "commit", !.approved = approved,
                                                    !.live.interactive = i])
        BY <1>12, <3>2 DEF CheckBoundary
      <4> QED
        BY <1>1, <4>1 DEF Become, OthersRest, TaskStates, Idle
    <3> QED
      BY <3>1, <3>2
  <2> QED
    BY <1>12, <2>1 DEF CheckBoundary
<1>13. CASE ParkOnEvent(t)
  BY <1>13, NextPc DEF ParkOnEvent
<1>14. CASE Finish(t)
  BY <1>14, NextPc DEF Finish, Finishing
<1>15. CASE GateBlocks(t)
  <2>1. OthersRest(t) /\ task'[t].pc \in {"fin", "top"}
    <3>1. CASE task[t].tries = MaxTries
      BY <1>1, <1>15, <3>1, NextPc DEF GateBlocks, Fail, Advancing, Finishing,
                                         Become, OthersRest, TaskStates, Idle
    <3>2. CASE task[t].tries # MaxTries
      <4>1. \E new, tries : Become(t, [Idle EXCEPT !.pc = "top", !.live = new, !.tries = tries])
        BY <1>15, <3>2 DEF GateBlocks
      <4> QED
        BY <1>1, <4>1 DEF Become, OthersRest, TaskStates, Idle
    <3> QED
      BY <3>1, <3>2
  <2> QED
    BY <1>15, <2>1 DEF GateBlocks, Fail, Advancing, Finishing
<1>16. CASE Consult(t)
  BY <1>16, NextPc DEF Consult, Advancing
<1>17. CASE Reconsider(t)
  <2>1. OthersRest(t) /\ task'[t].pc \in {"decide"}
    <3>1. \E out : Become(t, [task[t] EXCEPT !.pc = "decide", !.live = row, !.to = Target(t), !.out = out])
      BY <1>17 DEF Reconsider
    <3> QED
      BY <1>1, <3>1 DEF Become, OthersRest, TaskStates, Idle
  <2> QED
    BY <1>17, <2>1 DEF Reconsider
<1>18. CASE CheckAgain(t)
  BY <1>18, NextPc DEF CheckAgain
<1>19. CASE ParkForApproval(t)
  BY <1>19, NextPc DEF ParkForApproval, Leaving, Advancing
<1>20. CASE Advance(t)
  <2>1. OthersRest(t) /\ task'[t].pc \in {"top"}
    BY <1>1, <1>20 DEF Advance, Leaving, Advancing, Become, OthersRest, TaskStates, Idle
  <2> QED
    BY <1>20, <2>1 DEF Advance, Leaving, Advancing
<1>21. CASE SeeRateLimit(t)
  BY <1>21, NextPc DEF SeeRateLimit
<1>22. CASE ParkOnRateLimit(t)
  BY <1>22, NextPc DEF ParkOnRateLimit
<1>23. CASE ArmTimer(t)
  BY <1>23, NextPc DEF ArmTimer, FreeSlot
<1>24. CASE SeeThrow(t)
  BY <1>24, NextPc DEF SeeThrow
<1>25. CASE Crash(t)
  BY <1>25, NextPc DEF Crash, Fail
<1>26. CASE EndRun(t)
  BY <1>26, NextPc DEF EndRun, FreeSlot
<1> QED
  BY <1>2, <1>3, <1>4, <1>5, <1>6, <1>7, <1>8, <1>9, <1>10, <1>11, <1>12,
     <1>13, <1>14, <1>15, <1>16, <1>17, <1>18, <1>19, <1>20, <1>21, <1>22, <1>23, <1>24, <1>25, <1>26,
     <1>c, <1>p
     DEF RunStep

\* The steps of the drain that follows a run, and of fireAndForget.
LEMMA DrainRoles ==
    ASSUME TypeOK, NEW t \in Tasks, DrainStep(t)
    PROVE  RoleStep(t)
<1> USE DEF RoleStep, RunRole, QueueRole, SessionRole, NoSession, Drains, InRun, RunPCs, At, Quiet, ram
<1>1. task \in [Tasks -> TaskStates]
  BY DEF TypeOK
<1>2. CASE Drain(t)
  <2>1. OthersRest(t) /\ task'[t].pc \in {"redispatch", "idle", "batch"}
    <3>1. CASE queue = {} /\ deferred
      BY <1>1, <1>2, <3>1, NextPc DEF Drain, Become, OthersRest, TaskStates, Idle
    <3>2. CASE queue = {} /\ ~deferred
      BY <1>1, <1>2, <3>2, NextPc DEF Drain, Become, OthersRest, TaskStates, Idle
    <3>3. CASE queue # {}
      <4>1. Become(t, [Idle EXCEPT !.pc = "batch", !.notes = queue])
        BY <1>2, <3>3 DEF Drain
      <4> QED
        BY <1>1, <4>1 DEF Become, OthersRest, TaskStates, Idle
    <3> QED
      BY <3>1, <3>2, <3>3
  <2> QED
    BY <1>2, <2>1 DEF Drain
<1>3. CASE Redispatch(t)
  BY <1>3, NextPc DEF Redispatch
<1>4. CASE ReadForBatch(t)
  BY <1>4, NextPc DEF ReadForBatch
<1>5. CASE Inject(t)
  BY <1>5, NextPc DEF Inject
<1>6. CASE ScreenOut(t)
  BY <1>6, NextPc DEF ScreenOut
<1>7. CASE Fire(t)
  <2>1. OthersRest(t) /\ (active => task'[t].pc = "idle") /\ (~active => task'[t].pc = "boot")
    BY <1>1, <1>7 DEF Fire, MustDefer, Become, OthersRest, TaskStates, Idle
  <2> QED
    BY <1>7, <2>1 DEF Fire, MustDefer
<1> QED
  BY <1>2, <1>3, <1>4, <1>5, <1>6, <1>7 DEF DrainStep

\* The steps of the calls into the dispatcher.
LEMMA CallRoles ==
    ASSUME TypeOK, NEW t \in Tasks, CallStep(t)
    PROVE  RoleStep(t)
<1> USE DEF RoleStep, RunRole, QueueRole, SessionRole, NoSession, Drains, InRun, RunPCs, At, Quiet, ram
<1>1. task \in [Tasks -> TaskStates]
  BY DEF TypeOK
<1>2. CASE Cancel(t)
  BY <1>2, NextPc DEF Cancel
<1>3. CASE Drop(t)
  BY <1>3, NextPc DEF Drop
<1>4. CASE Pause(t)
  <2>1. OthersRest(t) /\ task'[t].pc \in {"idle", "stop"}
    <3>1. CASE Live(t).status # Running
      BY <1>1, <1>4, <3>1, NextPc DEF Pause, Become, OthersRest, TaskStates, Idle
    <3>2. CASE Live(t).status = Running
      <4>1. \E out : Become(t, [Idle EXCEPT !.pc = "stop", !.out = out])
        BY <1>4, <3>2 DEF Pause
      <4> QED
        BY <1>1, <4>1 DEF Become, OthersRest, TaskStates, Idle
    <3> QED
      BY <3>1, <3>2
  <2> QED
    BY <1>4, <2>1 DEF Pause
<1>5. CASE Stop(t)
  BY <1>5, NextPc DEF Stop
<1>6. CASE Message(t)
  BY <1>6, NextPc DEF Message
<1>7. CASE QueueMessage(t)
  BY <1>7, NextPc DEF QueueMessage
<1>8. CASE ResumeWithMessage(t)
  BY <1>8, NextPc DEF ResumeWithMessage
<1>9. CASE Reopen(t)
  BY <1>9, NextPc DEF Reopen
<1>10. CASE Event(t)
  <2>1. OthersRest(t) /\ task'[t].pc \in {"batch", "idle"}
    <3>1. CASE WaitsForRun(Live(t).status)
      BY <1>1, <1>10, <3>1, NextPc DEF Event, WaitsForRun, Become, OthersRest, TaskStates, Idle
    <3>2. CASE ~WaitsForRun(Live(t).status) /\ Parking(Live(t).status)
      <4>1. Become(t, [Idle EXCEPT !.pc = "batch", !.notes = task[t].notes])
        BY <1>10, <3>2 DEF Event, WaitsForRun
      <4> QED
        BY <1>1, <4>1 DEF Become, OthersRest, TaskStates, Idle
    <3>3. CASE ~WaitsForRun(Live(t).status) /\ ~Parking(Live(t).status)
      BY <1>1, <1>10, <3>3, NextPc DEF Event, WaitsForRun, Become, OthersRest, TaskStates, Idle
    <3> QED
      BY <3>1, <3>2, <3>3
  <2> QED
    BY <1>10, <2>1 DEF Event, WaitsForRun
<1>11. CASE Toggle(t)
  <2>1. OthersRest(t) /\ task'[t].pc \in {"idle", "release"}
    <3>1. CASE Become(t, Idle)
      BY <1>1, <1>11, <3>1, NextPc DEF Toggle, Become, OthersRest, TaskStates, Idle
    <3>2. CASE ~Become(t, Idle)
      <4>1. Become(t, [Idle EXCEPT !.pc = "release", !.to = row.next])
        BY <1>11, <3>2 DEF Toggle
      <4> QED
        BY <1>1, <4>1 DEF Become, OthersRest, TaskStates, Idle
    <3> QED
      BY <3>1, <3>2
  <2> QED
    BY <1>11, <2>1 DEF Toggle
<1>12. CASE Rerun(t)
  <2>1. OthersRest(t) /\ task'[t].pc \in {"idle", "release"}
    <3>1. CASE Become(t, Idle)
      BY <1>1, <1>12, <3>1, NextPc DEF Rerun, Become, OthersRest, TaskStates, Idle
    <3>2. CASE ~Become(t, Idle)
      <4>1. Become(t, [Idle EXCEPT !.pc = "release", !.to = task[t].to])
        BY <1>12, <3>2 DEF Rerun
      <4> QED
        BY <1>1, <4>1 DEF Become, OthersRest, TaskStates, Idle
    <3> QED
      BY <3>1, <3>2
  <2> QED
    BY <1>12, <2>1 DEF Rerun
<1>13. CASE Release(t)
  BY <1>13, NextPc DEF Release, Untouched
<1>14. CASE Resume(t)
  BY <1>14, NextPc DEF Resume
<1>15. CASE Resuming(t)
  BY <1>15, NextPc DEF Resuming
<1>16. CASE Wake(t)
  BY <1>16, NextPc DEF Wake, Untouched
<1> QED
  BY <1>2, <1>3, <1>4, <1>5, <1>6, <1>7, <1>8, <1>9, <1>10, <1>11, <1>12,
     <1>13, <1>14, <1>15, <1>16 DEF CallStep

\* The agent, the watchdog, the timer and the calls that begin.
LEMMA SurpriseRoles ==
    ASSUME TypeOK, NEW t \in Tasks, Surprise(t) \/ TimerFires(t)
    PROVE  RoleStep(t)
<1> USE DEF RoleStep, RunRole, QueueRole, SessionRole, NoSession, Drains, InRun, RunPCs, At, Quiet, ram
<1>1. task \in [Tasks -> TaskStates]
  BY DEF TypeOK
<1>2. CASE ReadInbox(t)
  BY <1>2, NextPc DEF ReadInbox, OthersRest
<1>3. CASE AgentEscalates(t)
  <2>1. OthersRest(t) /\ task'[t].pc \in {"exec"}
    BY <1>1, <1>3 DEF AgentEscalates, Become, OthersRest, TaskStates, Idle
  <2> QED
    BY <1>3, <2>1 DEF AgentEscalates
<1>4. CASE WatchdogParks(t)
  <2>1. OthersRest(t) /\ task'[t].pc \in {"exec"}
    BY <1>1, <1>4 DEF WatchdogParks, Become, OthersRest, TaskStates, Idle
  <2> QED
    BY <1>4, <2>1 DEF WatchdogParks
<1>5. CASE WatchdogFails(t)
  BY <1>5, NextPc DEF WatchdogFails, OthersRest
<1>6. CASE CancelCall(t)
  BY <1>6, NextPc DEF CancelCall, Untouched, Control, Begin
<1>7. CASE PauseCall(t)
  BY <1>7, NextPc DEF PauseCall, Untouched, Control, Begin
<1>8. ASSUME NEW m \in Messages, MessageCall(t, m) PROVE RoleStep(t)
  BY <1>8, NextPc DEF MessageCall, Begin
<1>9. ASSUME NEW e \in Events, EventCall(t, e) PROVE RoleStep(t)
  BY <1>9, NextPc DEF EventCall, Begin
<1>10. ASSUME NEW value \in BOOLEAN, ToggleCall(t, value) PROVE RoleStep(t)
  BY <1>10, NextPc DEF ToggleCall, Control, Begin, Untouched
<1>11. ASSUME NEW p \in Phases, RerunCall(t, p) PROVE RoleStep(t)
  BY <1>11, NextPc DEF RerunCall, Control, Begin, Untouched
<1>12. ASSUME NEW p \in Phases \cup {0}, ResumeCall(t, p) PROVE RoleStep(t)
  BY <1>12, NextPc DEF ResumeCall, Control, Begin, Untouched
<1>13. CASE TimerFires(t)
  <2>1. CASE active
    <3>1. task' = task /\ UNCHANGED <<row, active, queue, deferred, session, inbox>>
      BY <1>13, <2>1 DEF TimerFires
    <3> QED
      BY <1>13, <3>1 DEF TimerFires, Begin, OthersRest
  <2>2. CASE ~active
    BY <1>13, <2>2, NextPc DEF TimerFires, Begin
  <2> QED
    BY <2>1, <2>2
<1> QED
  BY <1>2, <1>3, <1>4, <1>5, <1>6, <1>7, <1>8, <1>9, <1>10, <1>11, <1>12, <1>13
     DEF Surprise

-----------------------------------------------------------------------------
(* The invariants.                                                           *)

\* No run is in flight initially: the first call is about to start one.
LEMMA InitRuns == Init => RunsInv
<1> SUFFICES ASSUME Init PROVE RunsInv
  OBVIOUS
<1>1. \A t \in Tasks : ~InRun(t)
  BY DEF Init, InRun, RunPCs, Idle
<1> QED
  BY <1>1 DEF Init, RunsInv, OneRunPerJob, ActiveWhileRunning,
              QueuedEventsHaveADrainer, WorkedWith

\* A restart forgets the runs together with everything that refers to them.
LEMMA RestartRuns ==
    ASSUME Restart
    PROVE  RunsInv'
<1>1. \A t \in Tasks : ~InRun(t)'
  BY DEF Restart, InRun, RunPCs, Idle
<1> QED
  BY <1>1 DEF Restart, RunsInv, OneRunPerJob, ActiveWhileRunning,
              QueuedEventsHaveADrainer, WorkedWith

\* Every step of the system keeps the four invariants.
LEMMA NextRuns == TypeOK /\ RunsInv /\ [Next]_vars => RunsInv'
<1> SUFFICES ASSUME TypeOK, RunsInv, [Next]_vars PROVE RunsInv'
  OBVIOUS
<1>1. ASSUME NEW t \in Tasks, RunStep(t) \/ DrainStep(t) \/ CallStep(t) \/ TimerFires(t) \/ Surprise(t)
      PROVE  RunsInv'
  <2>1. RoleStep(t)
    BY <1>1, RunRoles, DrainRoles, CallRoles, SurpriseRoles
  <2> QED
    BY <2>1, RolesKept
<1>2. CASE Restart
  BY <1>2, RestartRuns
<1>3. CASE UNCHANGED vars
  BY <1>3 DEF RunsInv, OneRunPerJob, ActiveWhileRunning, QueuedEventsHaveADrainer,
              WorkedWith, InRun, vars
<1> QED
  BY <1>1, <1>2, <1>3 DEF Next

\* The inductive invariant.
THEOREM RunsInvariant == Spec => []RunsInv
BY TypeCorrect, InitRuns, NextRuns, PTL DEF Spec

\* "A job can only run once at a time": two runs of a job never overlap.
THEOREM OneRun == Spec => []OneRunPerJob
BY RunsInvariant, PTL DEF RunsInv

\* activeJobs has the job exactly while one of its runs is in flight.
THEOREM ActiveIsExact == Spec => []ActiveWhileRunning
BY RunsInvariant, PTL DEF RunsInv

\* An event is queued only while a run that will drain the queue exists.
THEOREM QueueHasADrainer == Spec => []QueuedEventsHaveADrainer
BY RunsInvariant, PTL DEF RunsInv
=============================================================================
