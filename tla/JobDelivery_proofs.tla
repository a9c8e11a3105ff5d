-------------------------- MODULE JobDelivery_proofs --------------------------
(***************************************************************************)
(* With the local state backend JobLifecycle implements NoteDelivery, for  *)
(* every set of calls, notes, phases and options, with or without a        *)
(* decision layer.  A step of the job maps to a step of NoteDelivery       *)
(* because no note is ever in two places: in the event queue, the          *)
(* session's inbox, the prompt to come, the hands of a call, or given to   *)
(* an agent.  That is inductive together with what the calls that write    *)
(* the prompt know of it, given the types and OneRunPerJob.                *)
(***************************************************************************)
EXTENDS JobDelivery, JobLifecycle_proofs

\* The notes in a call's hands.  injectAndResume still holds its batch when it
\* fires the run, but has stored it already.
Carried(t) == IF task[t].pc = "fire" THEN {} ELSE task[t].notes
\* The prompt a run will give its agent, in the run's copy of the row.
Copied(t) == IF WillPrompt(t) THEN Live(t).prompt ELSE {}
Prompted(n) == n \in row.prompt \/ \E t \in Tasks : n \in Copied(t)

\* A note is in at most one of the places that all calls share.
Shared(n) == /\ ~(n \in queue /\ n \in inbox)
             /\ ~(n \in queue /\ Prompted(n))
             /\ ~(n \in inbox /\ Prompted(n))
             /\ n \in seen => n \notin queue /\ n \notin inbox /\ ~Prompted(n)
Somewhere(n) == n \in queue \/ n \in inbox \/ Prompted(n) \/ n \in seen

\* It is in one place, and none before it arrived.
OnePlace(n) ==
    /\ Shared(n)
    /\ \A t \in Tasks : n \in Carried(t) => ~Somewhere(n)
    /\ \A t, u \in Tasks : n \in Carried(t) /\ n \in Carried(u) => t = u
    /\ Somewhere(n) \/ (\E t \in Tasks : n \in Carried(t)) => n \in sent

\* Calls that read the row and have not written their prompt yet.
Asking == {"message", "queue", "resume-note", "reopen"}

\* What a call that runs on alone knows of the prompt.
Knows(t) ==
    /\ task[t].pc = "fire" => task[t].notes \subseteq row.prompt
    /\ task[t].pc = "redispatch" => task[t].notes = {}
    /\ task[t].pc \in Asking => Live(t).prompt = row.prompt

NotesInv == (\A n \in Notes : OnePlace(n)) /\ \A t \in Tasks : Knows(t)

-----------------------------------------------------------------------------
(* A step by what the call that moves does to a note.                        *)

\* The note gets nowhere it has not been.
Stays(n, t) ==
    /\ n \in queue' => n \in queue
    /\ n \in inbox' => n \in inbox
    /\ Prompted(n)' => Prompted(n)
    /\ n \in Carried(t)' => n \in Carried(t)
    /\ n \in seen' => n \in seen

\* The note is taken from where the call finds it to one place.
Moved(n, t) ==
    /\ n \notin sent \/ n \in Carried(t) \/ n \in queue \/ n \in inbox \/ Prompted(n)
    /\ n \in sent'
    /\ Shared(n)'
    /\ n \in Carried(t)' => ~Somewhere(n)'
    /\ n \notin sent => n \in Carried(t)' /\ n \notin seen'

NoteStep(n, t) == Stays(n, t) \/ Moved(n, t)

NoteRole(t) ==
    /\ OthersRest(t) /\ MayStep(t) /\ Knows(t)'
    /\ sent \subseteq sent' /\ seen \subseteq seen'
    /\ \A n \in sent' \ sent : n \in task'[t].notes
    /\ \A n \in Notes : NoteStep(n, t)

\* Such a step leaves each note in one place.
LEMMA OnePlaceKept ==
    ASSUME NEW t \in Tasks, NoteRole(t), NEW n \in Notes, OnePlace(n)
    PROVE  OnePlace(n)'
<1>1. \A u \in Tasks \ {t} : n \in Carried(u)' <=> n \in Carried(u)
  BY DEF NoteRole, OthersRest, Carried
<1>2. n \in sent => n \in sent'
  BY DEF NoteRole
<1>3. CASE Stays(n, t)
  BY <1>1, <1>2, <1>3 DEF Stays, OnePlace, Shared, Somewhere
<1>4. CASE Moved(n, t)
  <2>1. \A u \in Tasks \ {t} : n \notin Carried(u)
    BY <1>4 DEF Moved, OnePlace, Somewhere
  <2>. QED BY <1>1, <1>4, <2>1 DEF Moved, OnePlace
<1>. QED BY <1>3, <1>4 DEF NoteRole, NoteStep

\* Calls at rest know nothing of the prompt, so the others keep what they know.
LEMMA NoteRoleKeeps ==
    ASSUME Hybrid = FALSE, NotesInv, NEW t \in Tasks, NoteRole(t)
    PROVE  NotesInv'
<1>1. \A u \in Tasks \ {t} : Knows(u)'
  BY DEF NoteRole, OthersRest, MayStep, Resting, Knows, Asking
<1>. QED BY <1>1, OnePlaceKept DEF NotesInv, NoteRole

-----------------------------------------------------------------------------
(* Steps that only drop notes.                                               *)

\* The note stays with the call, or leaves it.
QuietRole(t) ==
    /\ queue' \subseteq queue /\ inbox' \subseteq inbox /\ seen' = seen /\ sent' = sent
    /\ row'.prompt \cap Notes \subseteq row.prompt
    /\ task'[t].notes \subseteq task[t].notes
    /\ task[t].pc = "fire" => task'[t].notes = {}
    /\ WillPrompt(t)' => task'[t].live.prompt \cap Notes \subseteq row.prompt \cup Copied(t)

\* Such a step takes no note anywhere.
LEMMA QuietStays ==
    ASSUME NEW t \in Tasks, OthersRest(t), QuietRole(t), NEW n \in Notes
    PROVE  Stays(n, t)
<1>1. \A u \in Tasks \ {t} : Copied(u)' = Copied(u)
  BY DEF OthersRest, Copied, WillPrompt, Live
<1>2. n \in Copied(t)' => n \in row.prompt \/ n \in Copied(t)
  BY DEF QuietRole, Copied, WillPrompt, Live
<1>3. Prompted(n)' => Prompted(n)
  BY <1>1, <1>2 DEF Prompted, QuietRole
<1>4. n \in Carried(t)' => n \in Carried(t)
  BY DEF QuietRole, Carried
<1>. QED BY <1>3, <1>4 DEF Stays, QuietRole

\* So it is a sound step if the call goes on with what it knows.
LEMMA QuietNotes ==
    ASSUME NEW t \in Tasks, OthersRest(t), MayStep(t), QuietRole(t), Knows(t)'
    PROVE  NoteRole(t)
BY QuietStays DEF NoteRole, NoteStep, QuietRole

\* What a task's next state says of the notes in its hands.
LEMMA NextNotes ==
    ASSUME TypeOK, NEW t \in Tasks
    PROVE  /\ \A pc : Go(t, pc) => /\ task'[t].pc = pc /\ task'[t].notes = task[t].notes
                                   /\ task'[t].live = task[t].live
           /\ \A pc : Become(t, [Idle EXCEPT !.pc = pc])
                        => task'[t].pc = pc /\ task'[t].notes = {}
           /\ Become(t, Idle) => task'[t].pc = "idle" /\ task'[t].notes = {}
           /\ Settle(t) => task'[t].pc = "fin" /\ task'[t].notes = {}
           /\ \A pc, notes, out, to :
                 Start(t, pc, notes, out, to)
                   => task'[t].pc = pc /\ task'[t].notes = notes /\ task'[t].live = row
<1>1. task \in [Tasks -> TaskStates] /\ task[t] \in TaskStates
  BY DEF TypeOK
<1>2. \A pc : Go(t, pc) => /\ task'[t].pc = pc /\ task'[t].notes = task[t].notes
                           /\ task'[t].live = task[t].live
  BY <1>1 DEF Go, Become, TaskStates
<1>3. \A pc : Become(t, [Idle EXCEPT !.pc = pc]) => task'[t].pc = pc /\ task'[t].notes = {}
  BY <1>1 DEF Become, Idle
<1>4. Become(t, Idle) => task'[t].pc = "idle" /\ task'[t].notes = {}
  BY <1>1 DEF Become, Idle
<1>5. \A pc, notes, out, to :
         Start(t, pc, notes, out, to)
           => task'[t].pc = pc /\ task'[t].notes = notes /\ task'[t].live = row
  BY <1>1 DEF Start, Become, Idle
<1>. QED BY <1>2, <1>3, <1>4, <1>5 DEF Settle

-----------------------------------------------------------------------------
(* The steps of a run.                                                       *)

\* The quiet steps of a run: it holds what it held, reads the row again or
\* drops its notes.
RunKeeps(t) ==
    /\ queue' = queue /\ inbox' \subseteq inbox /\ seen' = seen /\ sent' = sent
    /\ row'.prompt \cap Notes \subseteq row.prompt
    /\ task'[t].pc \in RunPCs \cup {"drain"}
    /\ task'[t].notes = {} \/ task'[t].notes = task[t].notes
    /\ WillPrompt(t)' => \/ task'[t].live \in {row, row'}
                         \/ WillPrompt(t) /\ task'[t].live = Live(t)

\* Those are quiet in the sense above.
LEMMA RunKeepsNotes ==
    ASSUME NEW t \in Tasks, OthersRest(t), MayStep(t), InRun(t), RunKeeps(t)
    PROVE  NoteRole(t)
<1>1. Knows(t)'
  BY DEF RunKeeps, Knows, RunPCs, Asking
<1>2. QuietRole(t)
  BY DEF RunKeeps, QuietRole, InRun, RunPCs, Copied
<1>. QED BY <1>1, <1>2, QuietNotes

\* A run moves others' tasks nowhere, and runs on when it is not at rest.
LEMMA RunAlone ==
    ASSUME TypeOK, NEW t \in Tasks, RunStep(t)
    PROVE  OthersRest(t) /\ MayStep(t) /\ InRun(t)
<1>1. OthersRest(t) BY RunRoles DEF RoleStep
<1>2. MayStep(t) /\ InRun(t)
  BY DEF RunStep, Boot, BootFails, Load, StartPhase, TakePrompt, EnterPhase, ParkAgentless,
     OpenChannel, StartSession, PreparationThrows, PhaseEnds, RecordUsage, CheckBoundary,
     ParkOnEvent, Finish, GateBlocks, Consult, Reconsider, CheckAgain, ParkForApproval, Advance, SeeRateLimit, ParkOnRateLimit, ArmTimer,
     SeeThrow, Crash, EndRun, Advancing, Finishing, Leaving, At, InRun, RunPCs
<1>. QED BY <1>1, <1>2

\* A run that settles without touching the prompt drops its notes.
LEMMA SettleKeeps ==
    ASSUME TypeOK, NEW t \in Tasks, Settle(t), row'.prompt = row.prompt, Quiet
    PROVE  RunKeeps(t)
<1>1. task'[t].pc = "fin" /\ task'[t].notes = {} BY NextNotes
<1>. QED BY <1>1 DEF RunKeeps, RunPCs, WillPrompt, Quiet, ram

\* So does one that moves on.
LEMMA GoKeeps ==
    ASSUME TypeOK, NEW t \in Tasks, NEW pc \in RunPCs \ {"loading"}, Go(t, pc), row'.prompt = row.prompt, Quiet,
           pc \in {"top", "prep"} => WillPrompt(t)
    PROVE  RunKeeps(t)
<1>1. task'[t].pc = pc /\ task'[t].notes = task[t].notes /\ task'[t].live = Live(t)
  BY NextNotes DEF Live
<1>2. WillPrompt(t)' => WillPrompt(t)
  BY <1>1 DEF WillPrompt
<1>. QED BY <1>1, <1>2 DEF RunKeeps, WillPrompt, Quiet, ram

\* From the start of a run to its session: the quiet steps.
LEMMA EnteringKeeps ==
    ASSUME TypeOK, NEW t \in Tasks,
           \/ Boot(t) \/ BootFails(t) \/ Load(t) \/ StartPhase(t) \/ EnterPhase(t)
           \/ ParkAgentless(t) \/ OpenChannel(t) \/ PreparationThrows(t)
    PROVE  RunKeeps(t)
<1>0. task \in [Tasks -> TaskStates] /\ task[t] \in TaskStates /\ row \in Rows
  BY DEF TypeOK
<1> USE DEF At
<1>1. CASE Boot(t)
  <2>1. task'[t] = [task[t] EXCEPT !.pc = "loading", !.live = row] /\ row' = row
    BY <1>0, <1>1 DEF Boot, Become
  <2>2. task'[t].pc = "loading" /\ task'[t].live = row /\ task'[t].notes = task[t].notes
    BY <1>0, <2>1 DEF TaskStates
  <2>. QED BY <1>1, <2>1, <2>2 DEF Boot, RunKeeps, RunPCs, Quiet, ram
<1>2. CASE BootFails(t)
  <2>1. row'.prompt = row.prompt BY <1>0, <1>2 DEF BootFails, Fail, Rows
  <2>. QED BY <1>2, <2>1, SettleKeeps DEF BootFails, Fail
<1>3. CASE Load(t)
  BY <1>3, SettleKeeps, GoKeeps DEF Load, RunPCs, WillPrompt
<1>4. CASE StartPhase(t)
  BY <1>4, SettleKeeps, GoKeeps DEF StartPhase, RunPCs, WillPrompt
<1>5. CASE EnterPhase(t)
  <2>1. row' = [row EXCEPT !.status = PhaseStatus(Live(t).phase)]
        /\ \E pc \in {"park", "open"} : task'[t] = [task[t] EXCEPT !.pc = pc, !.live = row']
    BY <1>0, <1>5 DEF EnterPhase, Sync, Become
  <2>2. task'[t].pc \in {"park", "open"} /\ task'[t].notes = task[t].notes
    BY <1>0, <2>1 DEF TaskStates
  <2>3. row'.prompt = row.prompt BY <1>0, <2>1 DEF Rows
  <2>. QED BY <1>5, <2>2, <2>3 DEF EnterPhase, RunKeeps, RunPCs, WillPrompt, Quiet, ram
<1>6. CASE ParkAgentless(t)
  <2>1. row'.prompt = row.prompt BY <1>0, <1>6 DEF ParkAgentless, Rows
  <2>. QED BY <1>6, <2>1, SettleKeeps DEF ParkAgentless
<1>7. CASE OpenChannel(t)
  BY <1>7, NextNotes DEF OpenChannel, RunKeeps, RunPCs, WillPrompt
<1>8. CASE PreparationThrows(t)
  <2>1. task'[t] = [Idle EXCEPT !.pc = "thrown", !.out = "crash"]
    BY <1>0, <1>8 DEF PreparationThrows, Become
  <2>2. task'[t].pc = "thrown" /\ task'[t].notes = {} BY <2>1 DEF Idle
  <2>. QED BY <1>8, <2>2 DEF PreparationThrows, RunKeeps, RunPCs, WillPrompt, Quiet, ram
<1>. QED BY <1>1, <1>2, <1>3, <1>4, <1>5, <1>6, <1>7, <1>8

\* From the end of the agent's work to the boundary check.
LEMMA WorkKeeps ==
    ASSUME TypeOK, NEW t \in Tasks, PhaseEnds(t) \/ RecordUsage(t) \/ CheckBoundary(t)
    PROVE  RunKeeps(t)
<1>0. task \in [Tasks -> TaskStates] /\ task[t] \in TaskStates /\ row \in Rows
  BY DEF TypeOK
<1>1. CASE PhaseEnds(t)
  <2>1. PICK o, q :
           Become(t, [task[t] EXCEPT
              !.pc = CASE o = "ratelimit" -> "limited"
                       [] o \in {"crash", "recoverable"} -> "thrown"
                       [] OTHER -> "usage",
              !.out = IF task[t].out = "escalated" /\ o \notin Throws THEN task[t].out ELSE o,
              !.to = IF o = "goto" THEN q ELSE 0])
    BY <1>1 DEF PhaseEnds
  <2>2. /\ task'[t].pc = CASE o = "ratelimit" -> "limited"
                           [] o \in {"crash", "recoverable"} -> "thrown"
                           [] OTHER -> "usage"
        /\ task'[t].notes = task[t].notes
    BY <1>0, <2>1 DEF Become, TaskStates
  <2>3. task'[t].pc \in {"limited", "thrown", "usage"} BY <2>2
  <2>. QED BY <1>1, <2>2, <2>3 DEF PhaseEnds, CloseSession, RunKeeps, RunPCs, WillPrompt
<1>2. CASE RecordUsage(t)
  <2>1. task'[t] = [task[t] EXCEPT !.pc = "post", !.live = row] /\ row' = row
    BY <1>0, <1>2 DEF RecordUsage, Sync, Become
  <2>2. task'[t].pc = "post" /\ task'[t].notes = task[t].notes BY <1>0, <2>1 DEF TaskStates
  <2>. QED BY <1>2, <2>1, <2>2 DEF RecordUsage, RunKeeps, RunPCs, WillPrompt, Quiet, ram
<1>3. CASE CheckBoundary(t)
  <2>1. CASE MustStop(t) \/ task[t].out = "escalated"
    BY <1>3, <2>1, SettleKeeps DEF CheckBoundary
  <2>2. CASE ~(MustStop(t) \/ task[t].out = "escalated")
    <3>1. PICK a, i : task'[t] = [task[t] EXCEPT !.pc = "commit", !.approved = a,
                                                 !.live.interactive = i]
      <4>1. Become(t, [task[t] EXCEPT !.pc = "commit", !.approved = Live(t).approved = Live(t).phase,
                          !.live.interactive = IF task[t].out \in {"done", "goto"}
                                               THEN row.interactive ELSE Live(t).interactive])
        BY <1>3, <2>2 DEF CheckBoundary, Live
      <4>. QED BY <1>0, <4>1 DEF Become
    <3>2. task'[t].pc = "commit" /\ task'[t].notes = task[t].notes BY <1>0, <3>1 DEF TaskStates
    <3>. QED BY <1>3, <3>2 DEF CheckBoundary, RunKeeps, RunPCs, WillPrompt, Quiet, ram
  <2>. QED BY <2>1, <2>2
<1>. QED BY <1>1, <1>2, <1>3

\* From the boundary check to the next phase.
LEMMA LeavingKeeps ==
    ASSUME TypeOK, NEW t \in Tasks,
           \/ ParkOnEvent(t) \/ Finish(t) \/ GateBlocks(t) \/ Consult(t) \/ Reconsider(t)
           \/ CheckAgain(t) \/ ParkForApproval(t) \/ Advance(t)
    PROVE  RunKeeps(t)
<1>0. task \in [Tasks -> TaskStates] /\ task[t] \in TaskStates /\ row \in Rows
  BY DEF TypeOK
<1>1. CASE ParkOnEvent(t)
  <2>1. row'.prompt = row.prompt BY <1>0, <1>1 DEF ParkOnEvent, Rows
  <2>. QED BY <1>1, <2>1, SettleKeeps DEF ParkOnEvent
<1>2. CASE Finish(t)
  <2>1. row'.prompt = row.prompt BY <1>0, <1>2 DEF Finish, Rows
  <2>. QED BY <1>2, <2>1, SettleKeeps DEF Finish
<1>3. CASE GateBlocks(t)
  <2>1. CASE Fail(t)
    <3>1. row'.prompt = row.prompt BY <1>0, <2>1 DEF Fail, Rows
    <3>. QED BY <1>3, <2>1, <3>1, SettleKeeps DEF GateBlocks, Fail
  <2>2. CASE ~Fail(t)
    <3>1. /\ row' = [row EXCEPT !.prompt = {Correction}]
          /\ Become(t, [Idle EXCEPT !.pc = "top", !.live = row', !.tries = NextTry(task[t].tries)])
      BY <1>3, <2>2 DEF GateBlocks
    <3>2. task'[t] = [Idle EXCEPT !.pc = "top", !.live = row', !.tries = NextTry(task[t].tries)]
      BY <1>0, <3>1 DEF Become
    <3>3. task'[t].pc = "top" /\ task'[t].live = row' /\ task'[t].notes = {} BY <3>2 DEF Idle
    <3>4. row'.prompt \cap Notes = {} BY <1>0, <3>1, NoteAssumption DEF Rows
    <3>. QED BY <1>3, <3>3, <3>4 DEF GateBlocks, RunKeeps, RunPCs, Quiet, ram
  <2>. QED BY <2>1, <2>2
<1>4. CASE Consult(t)
  BY <1>4, GoKeeps DEF Consult, RunPCs
<1>5. CASE Reconsider(t)
  <2>1. PICK out : task'[t] = [task[t] EXCEPT !.pc = "decide", !.live = row, !.to = Target(t),
                                              !.out = out]
    BY <1>0, <1>5 DEF Reconsider, Become
  <2>2. task'[t].pc = "decide" /\ task'[t].notes = task[t].notes BY <1>0, <2>1 DEF TaskStates
  <2>. QED BY <1>5, <2>2 DEF Reconsider, RunKeeps, RunPCs, WillPrompt, Quiet, ram
<1>6. CASE CheckAgain(t)
  BY <1>6, SettleKeeps, GoKeeps DEF CheckAgain, RunPCs
<1>7. CASE ParkForApproval(t)
  <2>1. row'.prompt = row.prompt BY <1>0, <1>7 DEF ParkForApproval, Rows
  <2>. QED BY <1>7, <2>1, SettleKeeps DEF ParkForApproval
<1>8. CASE Advance(t)
  <2>1. PICK next, kept : /\ row' = [row EXCEPT !.phase = Target(t), !.next = next, !.approved = kept]
                          /\ Become(t, [Idle EXCEPT !.pc = "top", !.live = row'])
    BY <1>8 DEF Advance
  <2>2. task'[t] = [Idle EXCEPT !.pc = "top", !.live = row'] BY <1>0, <2>1 DEF Become
  <2>3. task'[t].pc = "top" /\ task'[t].live = row' /\ task'[t].notes = {} BY <2>2 DEF Idle
  <2>4. row'.prompt = row.prompt BY <1>0, <2>1 DEF Rows
  <2>. QED BY <1>8, <2>3, <2>4 DEF Advance, RunKeeps, RunPCs, Quiet, ram
<1>. QED BY <1>1, <1>2, <1>3, <1>4, <1>5, <1>6, <1>7, <1>8

\* When the run throws or ends.
LEMMA EndingKeeps ==
    ASSUME TypeOK, NEW t \in Tasks,
           \/ SeeRateLimit(t) \/ ParkOnRateLimit(t) \/ ArmTimer(t) \/ SeeThrow(t) \/ Crash(t)
           \/ EndRun(t)
    PROVE  RunKeeps(t)
<1>0. row \in Rows BY DEF TypeOK
<1>1. CASE SeeRateLimit(t)
  BY <1>1, SettleKeeps, GoKeeps DEF SeeRateLimit, RunPCs
<1>2. CASE ParkOnRateLimit(t)
  <2>1. row'.prompt = row.prompt BY <1>0, <1>2 DEF ParkOnRateLimit, Rows
  <2>. QED BY <1>2, <2>1, GoKeeps DEF ParkOnRateLimit, RunPCs
<1>3. CASE ArmTimer(t)
  BY <1>3, NextNotes DEF ArmTimer, RunKeeps, WillPrompt
<1>4. CASE SeeThrow(t)
  BY <1>4, SettleKeeps, GoKeeps DEF SeeThrow, RunPCs
<1>5. CASE Crash(t)
  <2>1. row'.prompt = row.prompt BY <1>0, <1>5 DEF Crash, Fail, Rows
  <2>. QED BY <1>5, <2>1, SettleKeeps DEF Crash, Fail
<1>6. CASE EndRun(t)
  BY <1>6, NextNotes DEF EndRun, RunKeeps, WillPrompt
<1>. QED BY <1>1, <1>2, <1>3, <1>4, <1>5, <1>6

\* The prompt leaves the row and the run's copy together, for the run's hands.
LEMMA TakePromptNotes ==
    ASSUME Hybrid = FALSE, TypeOK, OneRunPerJob, NotesInv, NEW t \in Tasks, TakePrompt(t)
    PROVE  NoteRole(t)
<1>0. task \in [Tasks -> TaskStates] /\ task[t] \in TaskStates /\ row \in Rows
  BY DEF TypeOK
<1>1. OthersRest(t) /\ MayStep(t) /\ InRun(t) /\ task[t].pc = "prep"
  BY RunAlone DEF RunStep, TakePrompt, At
<1>2. CASE Live(t).prompt = {}
  <2>1. RunKeeps(t) BY <1>2, GoKeeps DEF TakePrompt, RunPCs
  <2>. QED BY <1>1, <2>1, RunKeepsNotes
<1>3. CASE Live(t).prompt # {}
  <2>1. /\ row' = [row EXCEPT !.prompt = {}]
        /\ task'[t] = [task[t] EXCEPT !.pc = "status", !.live = row', !.notes = Live(t).prompt]
        /\ queue' = queue /\ inbox' = inbox /\ seen' = seen /\ sent' = sent
    BY <1>0, <1>3 DEF TakePrompt, Become, Consumed, Clear, Quiet, ram
  <2>2. row'.prompt = {} BY <1>0, <2>1 DEF Rows
  <2>3. task'[t].pc = "status" /\ task'[t].notes = Live(t).prompt
    BY <1>0, <2>1 DEF TaskStates
  <2>4. \A u \in Tasks : Copied(u)' = {}
    <3>1. \A u \in Tasks \ {t} : ~WillPrompt(u)
      BY <1>1 DEF OneRunPerJob, InRun, RunPCs, WillPrompt
    <3>. QED BY <1>1, <2>3, <3>1 DEF Copied, WillPrompt, OthersRest
  <2>5. \A n \in Notes : ~Prompted(n)' BY <2>2, <2>4 DEF Prompted
  <2>6. ASSUME NEW n \in Notes PROVE NoteStep(n, t)
    <3>1. Carried(t)' = Live(t).prompt BY <2>3 DEF Carried
    <3>2. CASE n \in Live(t).prompt
      <4>1. Prompted(n) BY <1>1, <3>2 DEF Prompted, Copied, WillPrompt
      <4>2. OnePlace(n) BY DEF NotesInv
      <4>. QED BY <2>1, <2>5, <3>1, <4>1, <4>2 DEF NoteStep, Moved, OnePlace, Shared, Somewhere
    <3>3. CASE n \notin Live(t).prompt
      BY <2>1, <2>5, <3>1, <3>3 DEF NoteStep, Stays
    <3>. QED BY <3>2, <3>3
  <2>. QED BY <1>1, <2>1, <2>3, <2>6 DEF NoteRole, Knows, Asking
<1>. QED BY <1>2, <1>3

\* The agent is given what the run has in hands, and nobody else has.
LEMMA StartSessionNotes ==
    ASSUME TypeOK, NotesInv, NEW t \in Tasks, StartSession(t)
    PROVE  NoteRole(t)
<1>0. task \in [Tasks -> TaskStates] /\ task[t] \in TaskStates
  BY DEF TypeOK
<1>1. OthersRest(t) /\ MayStep(t) /\ task[t].pc = "auth"
  BY RunAlone DEF RunStep, StartSession, At
<1>2. /\ task'[t] = [task[t] EXCEPT !.pc = "exec", !.notes = {}] /\ row' = row
      /\ queue' = queue /\ inbox' = inbox /\ seen' = seen \cup task[t].notes /\ sent' = sent
  BY <1>0 DEF StartSession, Become
<1>3. task'[t].pc = "exec" /\ task'[t].notes = {} BY <1>0, <1>2 DEF TaskStates
<1>4. \A u \in Tasks : Copied(u)' = Copied(u)
  BY <1>1, <1>3 DEF Copied, WillPrompt, OthersRest, Live
<1>5. \A n \in Notes : Prompted(n)' <=> Prompted(n) BY <1>2, <1>4 DEF Prompted
<1>6. Carried(t) = task[t].notes /\ Carried(t)' = {} BY <1>1, <1>3 DEF Carried
<1>7. ASSUME NEW n \in Notes PROVE NoteStep(n, t)
  <2>1. OnePlace(n) BY DEF NotesInv
  <2>. QED BY <1>2, <1>5, <1>6, <2>1 DEF NoteStep, Stays, Moved, OnePlace, Shared, Somewhere
<1>. QED BY <1>1, <1>2, <1>3, <1>7 DEF NoteRole, Knows, Asking

\* Every step of a run is sound.
LEMMA RunNotes ==
    ASSUME Hybrid = FALSE, TypeOK, OneRunPerJob, NotesInv, NEW t \in Tasks, RunStep(t)
    PROVE  NoteRole(t)
<1>1. CASE TakePrompt(t) BY <1>1, TakePromptNotes
<1>2. CASE StartSession(t) BY <1>2, StartSessionNotes
<1>3. CASE RunKeeps(t) BY <1>3, RunAlone, RunKeepsNotes
<1>. QED BY <1>1, <1>2, <1>3, EnteringKeeps, WorkKeeps, LeavingKeeps, EndingKeeps DEF RunStep

-----------------------------------------------------------------------------
(* The drain that follows a run, and fireAndForget.                          *)

\* A call that ends, or goes on without notes, drops what it had in hands.
LEMMA DropKeeps ==
    ASSUME TypeOK, NEW t \in Tasks, OthersRest(t), MayStep(t),
           queue' \subseteq queue, inbox' = inbox, seen' = seen, sent' = sent,
           row'.prompt \subseteq row.prompt, task'[t].notes = {},
           task'[t].pc \notin Asking, ~WillPrompt(t)'
    PROVE  NoteRole(t)
<1>1. Knows(t)' BY DEF Knows
<1>2. QuietRole(t) BY DEF QuietRole
<1>. QED BY <1>1, <1>2, QuietNotes

\* The batch leaves the queue for the hands of the drain.
LEMMA DrainNotes ==
    ASSUME TypeOK, NotesInv, NEW t \in Tasks, Drain(t)
    PROVE  NoteRole(t)
<1>0. task \in [Tasks -> TaskStates] /\ task[t] \in TaskStates
  BY DEF TypeOK
<1>1. OthersRest(t) /\ MayStep(t) /\ task[t].pc = "drain"
  BY DrainRoles DEF DrainStep, RoleStep, Drain, At
<1>2. row' = row /\ inbox' = inbox /\ seen' = seen /\ sent' = sent
  BY DEF Drain
<1>3. CASE queue = {}
  <2>1. queue' = queue /\ task'[t].notes = {} /\ task'[t].pc \in {"redispatch", "idle"}
    BY <1>3, NextNotes DEF Drain
  <2>. QED BY <1>1, <1>2, <2>1, DropKeeps DEF Asking, WillPrompt
<1>4. CASE queue # {}
  <2>1. queue' = {} /\ task'[t] = [Idle EXCEPT !.pc = "batch", !.notes = queue]
    BY <1>0, <1>4 DEF Drain, Become
  <2>2. task'[t].pc = "batch" /\ task'[t].notes = queue BY <2>1 DEF Idle
  <2>3. \A u \in Tasks : Copied(u)' = Copied(u)
    BY <1>1, <2>2 DEF Copied, WillPrompt, OthersRest, Live
  <2>4. \A n \in Notes : Prompted(n)' <=> Prompted(n) BY <1>2, <2>3 DEF Prompted
  <2>5. Carried(t)' = queue BY <2>2 DEF Carried
  <2>6. ASSUME NEW n \in Notes PROVE NoteStep(n, t)
    <3>1. OnePlace(n) BY DEF NotesInv
    <3>. QED BY <1>2, <2>1, <2>4, <2>5, <3>1 DEF NoteStep, Stays, Moved, OnePlace, Shared, Somewhere
  <2>. QED BY <1>1, <1>2, <2>2, <2>6 DEF NoteRole, Knows, Asking
<1>. QED BY <1>3, <1>4

\* injectAndResume replaces the stored prompt by its batch.
LEMMA InjectNotes ==
    ASSUME TypeOK, NotesInv, NEW t \in Tasks, Inject(t)
    PROVE  NoteRole(t)
<1>0. task \in [Tasks -> TaskStates] /\ task[t] \in TaskStates /\ row \in Rows
  BY DEF TypeOK
<1>1. OthersRest(t) /\ MayStep(t) /\ task[t].pc = "inject"
  BY DrainRoles DEF DrainStep, RoleStep, Inject, At
<1>2. queue' = queue /\ inbox' = inbox /\ seen' = seen /\ sent' = sent
  BY DEF Inject, Quiet, ram
<1>3. row'.prompt = task[t].notes BY <1>0 DEF Inject, Rows
<1>4. task'[t].pc = "fire" /\ task'[t].notes = task[t].notes BY NextNotes DEF Inject
<1>5. Carried(t) = task[t].notes /\ Carried(t)' = {} BY <1>1, <1>4 DEF Carried
<1>6. \A u \in Tasks : Copied(u)' = Copied(u)
  BY <1>1, <1>4 DEF Copied, WillPrompt, OthersRest, Live
<1>7. \A n \in Notes : n \notin task[t].notes => (Prompted(n)' => Prompted(n))
  BY <1>3, <1>6 DEF Prompted
<1>8. ASSUME NEW n \in Notes PROVE NoteStep(n, t)
  <2>1. OnePlace(n) BY DEF NotesInv
  <2>. QED BY <1>2, <1>5, <1>7, <2>1 DEF NoteStep, Stays, Moved, OnePlace, Shared, Somewhere
<1>. QED BY <1>1, <1>2, <1>3, <1>4, <1>8 DEF NoteRole, Knows, Asking

\* Every step of a drain is sound.
LEMMA DrainStepNotes ==
    ASSUME TypeOK, NotesInv, NEW t \in Tasks, DrainStep(t)
    PROVE  NoteRole(t)
<1>1. OthersRest(t) BY DrainRoles DEF RoleStep
<1>2. Knows(t) BY DEF NotesInv
<1>3. CASE Drain(t) BY <1>3, DrainNotes
<1>4. CASE Inject(t) BY <1>4, InjectNotes
<1>5. CASE Redispatch(t)
  <2>1. task'[t].notes = {} /\ task'[t].pc \in {"fire", "idle"}
    BY <1>2, <1>5, NextNotes DEF Redispatch, At, Knows
  <2>. QED BY <1>1, <1>5, <2>1, DropKeeps DEF Redispatch, At, Quiet, ram, Asking, WillPrompt
<1>6. CASE ReadForBatch(t)
  <2>1. \/ task'[t].notes = {} /\ task'[t].pc = "idle"
        \/ task'[t].notes = task[t].notes /\ task'[t].pc = "inject"
    BY <1>6, NextNotes DEF ReadForBatch
  <2>2. QuietRole(t) BY <1>6, <2>1 DEF ReadForBatch, At, QuietRole, WillPrompt, Quiet, ram
  <2>. QED BY <1>1, <1>6, <2>1, <2>2, QuietNotes DEF ReadForBatch, At, Knows, Asking
<1>7. CASE ScreenOut(t)
  BY <1>1, <1>7, NextNotes, DropKeeps DEF ScreenOut, At, Quiet, ram, Asking, WillPrompt
<1>8. CASE Fire(t)
  <2>1. task'[t].notes = {} /\ task'[t].pc \in {"idle", "boot"}
    BY <1>8, NextNotes DEF Fire
  <2>. QED BY <1>1, <1>8, <2>1, DropKeeps DEF Fire, At, Asking, WillPrompt
<1>. QED BY <1>3, <1>4, <1>5, <1>6, <1>7, <1>8 DEF DrainStep

-----------------------------------------------------------------------------
(* The calls into the dispatcher.                                            *)

\* sendMessage pushes its message to the session, or goes on with it.
LEMMA MessageNotes ==
    ASSUME TypeOK, NotesInv, NEW t \in Tasks, Message(t)
    PROVE  NoteRole(t)
<1>1. OthersRest(t) /\ MayStep(t) /\ task[t].pc = "message"
  BY CallRoles DEF CallStep, RoleStep, Message, At
<1>2. row' = row /\ queue' = queue /\ seen' = seen /\ sent' = sent
  BY DEF Message
<1>3. Knows(t) BY DEF NotesInv
<1>4. CASE inbox' = inbox
  <2>1. \/ task'[t].notes = {} /\ task'[t].pc = "idle"
        \/ /\ task'[t].pc \in {"reopen", "resume-note", "queue"}
           /\ task'[t].notes = task[t].notes /\ task'[t].live = task[t].live
    BY NextNotes DEF Message
  <2>2. QuietRole(t) BY <1>1, <1>2, <1>4, <2>1 DEF QuietRole, WillPrompt
  <2>3. Knows(t)' BY <1>1, <1>2, <1>3, <2>1 DEF Knows, Asking, Live
  <2>. QED BY <1>1, <2>2, <2>3, QuietNotes
<1>5. CASE inbox' # inbox
  <2>1. inbox' = inbox \cup task[t].notes /\ task'[t].pc = "idle" /\ task'[t].notes = {}
    BY <1>5, NextNotes DEF Message
  <2>2. \A u \in Tasks : Copied(u)' = Copied(u)
    BY <1>1, <2>1 DEF Copied, WillPrompt, OthersRest, Live
  <2>3. \A n \in Notes : Prompted(n)' <=> Prompted(n) BY <1>2, <2>2 DEF Prompted
  <2>4. Carried(t) = task[t].notes /\ Carried(t)' = {} BY <1>1, <2>1 DEF Carried
  <2>5. ASSUME NEW n \in Notes PROVE NoteStep(n, t)
    <3>1. OnePlace(n) BY DEF NotesInv
    <3>. QED BY <1>2, <2>1, <2>3, <2>4, <3>1 DEF NoteStep, Stays, Moved, OnePlace, Shared, Somewhere
  <2>. QED BY <1>1, <1>2, <2>1, <2>5 DEF NoteRole, Knows, Asking
<1>. QED BY <1>4, <1>5

\* A message is added to the prompt its call has read, which is still stored.
LEMMA PromptNotes ==
    ASSUME TypeOK, NotesInv, NEW t \in Tasks,
           QueueMessage(t) \/ ResumeWithMessage(t) \/ Reopen(t)
    PROVE  NoteRole(t)
<1>0. row \in Rows BY DEF TypeOK
<1>1. OthersRest(t) /\ MayStep(t) /\ task[t].pc \in {"queue", "resume-note", "reopen"}
  BY CallRoles DEF CallStep, RoleStep, QueueMessage, ResumeWithMessage, Reopen, At
<1>2. queue' = queue /\ inbox' = inbox /\ seen' = seen /\ sent' = sent
  BY DEF QueueMessage, ResumeWithMessage, Reopen, Quiet, ram
<1>3. Live(t).prompt = row.prompt BY <1>1 DEF NotesInv, Knows, Asking
<1>4. row'.prompt = row.prompt \cup task[t].notes
  BY <1>0, <1>3 DEF QueueMessage, ResumeWithMessage, Reopen, Rows
<1>5. task'[t].pc \in {"idle", "fire"} /\ task'[t].notes = {}
  BY NextNotes DEF QueueMessage, ResumeWithMessage, Reopen
<1>6. \A u \in Tasks : Copied(u)' = Copied(u)
  BY <1>1, <1>5 DEF Copied, WillPrompt, OthersRest, Live
<1>7. \A n \in Notes : n \notin task[t].notes => (Prompted(n)' => Prompted(n))
  BY <1>4, <1>6 DEF Prompted
<1>8. Carried(t) = task[t].notes /\ Carried(t)' = {} BY <1>1, <1>5 DEF Carried
<1>9. ASSUME NEW n \in Notes PROVE NoteStep(n, t)
  <2>1. OnePlace(n) BY DEF NotesInv
  <2>. QED BY <1>2, <1>7, <1>8, <2>1 DEF NoteStep, Stays, Moved, OnePlace, Shared, Somewhere
<1>. QED BY <1>1, <1>2, <1>5, <1>9 DEF NoteRole, Knows, Asking

\* An event joins the queue or stays with its call.
LEMMA EventNotes ==
    ASSUME TypeOK, NotesInv, NEW t \in Tasks, Event(t)
    PROVE  NoteRole(t)
<1>0. task \in [Tasks -> TaskStates] /\ task[t] \in TaskStates
  BY DEF TypeOK
<1>1. OthersRest(t) /\ MayStep(t) /\ task[t].pc = "event"
  BY CallRoles DEF CallStep, RoleStep, Event, At
<1>2. row' = row /\ inbox' = inbox /\ seen' = seen /\ sent' = sent
  BY DEF Event
<1>3. CASE ~WaitsForRun(Live(t).status)
  <2>1. queue' = queue BY <1>3 DEF Event
  <2>2. \/ task'[t].notes = {} /\ task'[t].pc = "idle"
        \/ task'[t].notes = task[t].notes /\ task'[t].pc = "batch"
    <3>1. CASE Parking(Live(t).status)
      <4>1. task'[t] = [Idle EXCEPT !.pc = "batch", !.notes = task[t].notes]
        BY <1>0, <1>3, <3>1 DEF Event, Become
      <4>. QED BY <4>1 DEF Idle
    <3>2. CASE ~Parking(Live(t).status)
      BY <1>3, <3>2, NextNotes DEF Event
    <3>. QED BY <3>1, <3>2
  <2>3. QuietRole(t) BY <1>1, <1>2, <2>1, <2>2 DEF QuietRole, WillPrompt
  <2>. QED BY <1>1, <2>2, <2>3, QuietNotes DEF Knows, Asking
<1>4. CASE WaitsForRun(Live(t).status)
  <2>1. queue' = queue \cup task[t].notes /\ task'[t].pc = "idle" /\ task'[t].notes = {}
    BY <1>4, NextNotes DEF Event
  <2>2. \A u \in Tasks : Copied(u)' = Copied(u)
    BY <1>1, <2>1 DEF Copied, WillPrompt, OthersRest, Live
  <2>3. \A n \in Notes : Prompted(n)' <=> Prompted(n) BY <1>2, <2>2 DEF Prompted
  <2>4. Carried(t) = task[t].notes /\ Carried(t)' = {} BY <1>1, <2>1 DEF Carried
  <2>5. ASSUME NEW n \in Notes PROVE NoteStep(n, t)
    <3>1. OnePlace(n) BY DEF NotesInv
    <3>. QED BY <1>2, <2>1, <2>3, <2>4, <3>1 DEF NoteStep, Stays, Moved, OnePlace, Shared, Somewhere
  <2>. QED BY <1>1, <1>2, <2>1, <2>5 DEF NoteRole, Knows, Asking
<1>. QED BY <1>3, <1>4

\* The other calls have no notes in hands and add none.
LEMMA ControlNotes ==
    ASSUME TypeOK, NEW t \in Tasks,
           \/ Cancel(t) \/ Drop(t) \/ Pause(t) \/ Stop(t) \/ Toggle(t) \/ Rerun(t)
           \/ Release(t) \/ Resume(t) \/ Resuming(t) \/ Wake(t)
    PROVE  NoteRole(t)
<1>0. task \in [Tasks -> TaskStates] /\ task[t] \in TaskStates /\ row \in Rows
  BY DEF TypeOK
<1>1. OthersRest(t) BY CallRoles DEF CallStep, RoleStep
<1>2. /\ MayStep(t) /\ queue' \subseteq queue /\ inbox' = inbox /\ seen' = seen /\ sent' = sent
      /\ task[t].pc \in {"cancel", "drop", "pause", "stop", "toggle", "rerun", "release",
                         "resume", "resuming", "wake"}
  BY DEF Cancel, Drop, Pause, Stop, Toggle, Rerun, Release, Resume, Resuming, Wake, At, Untouched,
         Quiet, ram
<1>3. row'.prompt \subseteq row.prompt
  <2>1. CASE Cancel(t) BY <1>0, <2>1 DEF Cancel, Clear, Rows
  <2>2. CASE Pause(t) BY <1>0, <2>2 DEF Pause, Rows
  <2>3. CASE Toggle(t) BY <1>0, <2>3 DEF Toggle, Rows
  <2>4. CASE Rerun(t) BY <1>0, <2>4 DEF Rerun, Rows
  <2>5. CASE Resuming(t) BY <1>0, <2>5 DEF Resuming, Rows
  <2>6. CASE Drop(t) \/ Stop(t) \/ Release(t) \/ Resume(t) \/ Wake(t)
    BY <2>6 DEF Drop, Stop, Release, Resume, Wake, Untouched
  <2>. QED BY <2>1, <2>2, <2>3, <2>4, <2>5, <2>6
<1>4. /\ task'[t].notes \subseteq task[t].notes
      /\ \/ task'[t].pc \in {"idle", "drop", "stop", "release", "resume", "resuming"}
         \/ task'[t].pc = "fire" /\ task'[t].notes = {}
  <2>1. CASE Cancel(t) BY <2>1, NextNotes DEF Cancel
  <2>2. CASE Drop(t) \/ Stop(t) BY <2>2, NextNotes DEF Drop, Stop
  <2>3. CASE Pause(t)
    <3>1. CASE Become(t, Idle) BY <3>1, NextNotes
    <3>2. CASE ~Become(t, Idle)
      <4>1. PICK out : task'[t] = [Idle EXCEPT !.pc = "stop", !.out = out]
        BY <1>0, <2>3, <3>2 DEF Pause, Become
      <4>. QED BY <4>1 DEF Idle
    <3>. QED BY <3>1, <3>2
  <2>4. CASE Toggle(t) \/ Rerun(t)
    <3>1. CASE Become(t, Idle) BY <3>1, NextNotes
    <3>2. CASE ~Become(t, Idle)
      <4>1. PICK to : task'[t] = [Idle EXCEPT !.pc = "release", !.to = to]
        BY <1>0, <2>4, <3>2 DEF Toggle, Rerun, Become
      <4>. QED BY <4>1 DEF Idle
    <3>. QED BY <3>1, <3>2
  <2>5. CASE Release(t) \/ Wake(t) BY <2>5, NextNotes DEF Release, Wake
  <2>6. CASE Resume(t) BY <2>6, NextNotes DEF Resume
  <2>7. CASE Resuming(t) BY <2>7, NextNotes DEF Resuming
  <2>. QED BY <2>1, <2>2, <2>3, <2>4, <2>5, <2>6, <2>7
<1>5. QuietRole(t) BY <1>2, <1>3, <1>4 DEF QuietRole, WillPrompt
<1>6. Knows(t)' BY <1>4 DEF Knows, Asking
<1>. QED BY <1>1, <1>2, <1>5, <1>6, QuietNotes

\* Every step of a call is sound.
LEMMA CallNotes ==
    ASSUME TypeOK, NotesInv, NEW t \in Tasks, CallStep(t)
    PROVE  NoteRole(t)
BY MessageNotes, PromptNotes, EventNotes, ControlNotes DEF CallStep

-----------------------------------------------------------------------------
(* The agent, the watchdog, the timer and the calls that begin.              *)

\* The agent reads its inbox.
LEMMA ReadInboxNotes ==
    ASSUME NotesInv, NEW t \in Tasks, ReadInbox(t)
    PROVE  NoteRole(t)
<1>1. /\ row' = row /\ task' = task /\ queue' = queue /\ inbox' = {} /\ sent' = sent
      /\ seen' = seen \cup inbox /\ MayStep(t) /\ task[t].pc = "exec"
  BY DEF ReadInbox, At
<1>2. \A n \in Notes : Prompted(n)' <=> Prompted(n)
  BY <1>1 DEF Prompted, Copied, WillPrompt, Live
<1>3. Carried(t)' = Carried(t) BY <1>1 DEF Carried
<1>4. ASSUME NEW n \in Notes PROVE NoteStep(n, t)
  <2>1. OnePlace(n) BY DEF NotesInv
  <2>. QED BY <1>1, <1>2, <1>3, <2>1 DEF NoteStep, Stays, Moved, OnePlace, Shared, Somewhere
<1>. QED BY <1>1, <1>4 DEF NoteRole, OthersRest, Knows, Asking

\* A note arrives in the hands of the call that brings it, and nowhere else.
LEMMA ArrivalNotes ==
    ASSUME TypeOK, NotesInv, NEW t \in Tasks, NEW m \in Notes \ sent,
           NEW pc \in {"message", "event"},
           At(t, "idle"), sent' = sent \cup {m}, Start(t, pc, {m}, "none", 0),
           UNCHANGED <<row, ram, seen, spent>>
    PROVE  NoteRole(t)
<1>1. OthersRest(t) BY NextPc
<1>2. task'[t].pc = pc /\ task'[t].notes = {m} /\ task'[t].live = row BY NextNotes
<1>3. row' = row /\ queue' = queue /\ inbox' = inbox /\ seen' = seen BY DEF ram
<1>4. \A u \in Tasks : Copied(u)' = Copied(u)
  BY <1>1, <1>2 DEF Copied, WillPrompt, OthersRest, Live, At
<1>5. \A n \in Notes : Prompted(n)' <=> Prompted(n) BY <1>3, <1>4 DEF Prompted
<1>6. Carried(t)' = {m} BY <1>2 DEF Carried
<1>7. ASSUME NEW n \in Notes PROVE NoteStep(n, t)
  <2>1. OnePlace(n) BY DEF NotesInv
  <2>. QED BY <1>3, <1>5, <1>6, <2>1 DEF NoteStep, Stays, Moved, OnePlace, Shared, Somewhere
<1>8. Knows(t)' BY <1>2, <1>3 DEF Knows, Asking, Live
<1>. QED BY <1>1, <1>2, <1>3, <1>7, <1>8 DEF NoteRole, At

\* A call that begins without a note.
LEMMA BeginNotes ==
    ASSUME TypeOK, NEW t \in Tasks, At(t, "idle"), UNCHANGED <<row, queue, inbox, sent, seen>>,
           NEW pc \in {"cancel", "pause", "toggle", "rerun", "resume", "wake"},
           NEW out, NEW to, Start(t, pc, {}, out, to)
    PROVE  NoteRole(t)
<1>1. OthersRest(t) BY NextPc
<1>2. task'[t].pc = pc /\ task'[t].notes = {} BY NextNotes
<1>. QED BY <1>1, <1>2, DropKeeps DEF At, Asking, WillPrompt

\* Whatever the world does is sound.
LEMMA SurpriseNotes ==
    ASSUME TypeOK, NotesInv, NEW t \in Tasks, Surprise(t) \/ TimerFires(t)
    PROVE  NoteRole(t)
<1>0. task \in [Tasks -> TaskStates] /\ task[t] \in TaskStates /\ row \in Rows
  BY DEF TypeOK
<1> USE DEF Begin, Control, Untouched, ram
<1>1. CASE ReadInbox(t) BY <1>1, ReadInboxNotes
<1>2. CASE AgentEscalates(t) \/ WatchdogParks(t) \/ WatchdogFails(t)
  <2>1. OthersRest(t) /\ MayStep(t) /\ task[t].pc = "exec"
    BY <1>2, SurpriseRoles
       DEF Surprise, RoleStep, AgentEscalates, WatchdogParks, WatchdogFails, At
  <2>2. row'.prompt = row.prompt
    BY <1>0, <1>2 DEF AgentEscalates, WatchdogParks, WatchdogFails, Rows
  <2>3. task'[t].pc = "exec" /\ task'[t].notes = task[t].notes
    <3>1. CASE task' = task BY <2>1, <3>1
    <3>2. CASE task' # task
      <4>1. PICK out : task'[t] = [task[t] EXCEPT !.out = out]
        BY <1>0, <1>2, <3>2 DEF AgentEscalates, WatchdogParks, WatchdogFails, Become
      <4>. QED BY <1>0, <2>1, <4>1 DEF TaskStates
    <3>. QED BY <3>1, <3>2
  <2>4. RunKeeps(t)
    BY <1>2, <2>2, <2>3
       DEF AgentEscalates, WatchdogParks, WatchdogFails, RunKeeps, RunPCs, WillPrompt, Quiet
  <2>. QED BY <2>1, <2>4, RunKeepsNotes DEF InRun, RunPCs
<1>3. CASE CancelCall(t) BY <1>3, BeginNotes DEF CancelCall
<1>4. CASE PauseCall(t) BY <1>4, BeginNotes DEF PauseCall
<1>5. ASSUME NEW m \in Messages, MessageCall(t, m) PROVE NoteRole(t)
  BY <1>5, ArrivalNotes DEF MessageCall, Notes
<1>6. ASSUME NEW e \in Events, EventCall(t, e) PROVE NoteRole(t)
  BY <1>6, ArrivalNotes DEF EventCall, Notes
<1>7. ASSUME NEW value \in BOOLEAN, ToggleCall(t, value) PROVE NoteRole(t)
  BY <1>7, BeginNotes DEF ToggleCall
<1>8. ASSUME NEW p \in Phases, RerunCall(t, p) PROVE NoteRole(t)
  BY <1>8, BeginNotes DEF RerunCall
<1>9. ASSUME NEW p \in Phases \cup {0}, ResumeCall(t, p) PROVE NoteRole(t)
  BY <1>9, BeginNotes DEF ResumeCall
<1>10. CASE TimerFires(t)
  <2>1. CASE active
    <3>1. task' = task /\ UNCHANGED <<row, queue, inbox, sent, seen>> /\ At(t, "idle")
      BY <1>10, <2>1 DEF TimerFires
    <3>2. OthersRest(t) /\ MayStep(t) /\ task[t].pc = "idle" /\ task'[t].pc = "idle"
      BY <3>1 DEF OthersRest, At
    <3>3. QuietRole(t) BY <3>1, <3>2 DEF QuietRole, WillPrompt
    <3>. QED BY <3>2, <3>3, QuietNotes DEF Knows, Asking
  <2>2. CASE ~active BY <1>10, <2>2, BeginNotes DEF TimerFires
  <2>. QED BY <2>1, <2>2
<1>. QED BY <1>1, <1>2, <1>3, <1>4, <1>5, <1>6, <1>7, <1>8, <1>9, <1>10 DEF Surprise

-----------------------------------------------------------------------------
(* The invariant.                                                            *)

\* No note has arrived initially.
LEMMA InitNotes == Init => NotesInv
<1> SUFFICES ASSUME Init PROVE NotesInv
  OBVIOUS
<1>1. \A t \in Tasks : task[t].pc \in {"idle", "fire"} /\ task[t].notes = {}
  BY DEF Init, Idle
<1>2. row.prompt = {} BY DEF Init, Blank
<1>3. \A n \in Notes : ~Prompted(n) /\ \A t \in Tasks : n \notin Carried(t)
  BY <1>1, <1>2 DEF Prompted, Copied, WillPrompt, Carried
<1>4. queue = {} /\ inbox = {} /\ seen = {} BY DEF Init
<1>. QED BY <1>1, <1>3, <1>4
        DEF NotesInv, OnePlace, Shared, Somewhere, Knows, Asking

\* A restart forgets every place but the row.
LEMMA RestartNotes ==
    ASSUME NotesInv, Restart
    PROVE  NotesInv'
<1>1. \A t \in Tasks : task'[t].pc = "idle" /\ task'[t].notes = {}
  BY DEF Restart, Idle
<1>2. row' = row /\ queue' = {} /\ inbox' = {} /\ seen' = seen /\ sent' = sent
  BY DEF Restart
<1>3. \A n \in Notes : /\ Prompted(n)' <=> n \in row.prompt
                       /\ \A t \in Tasks : n \notin Carried(t)'
  BY <1>1, <1>2 DEF Prompted, Copied, WillPrompt, Carried
<1>4. ASSUME NEW n \in Notes PROVE OnePlace(n)'
  <2>1. OnePlace(n) /\ (n \in row.prompt => Prompted(n)) BY DEF NotesInv, Prompted
  <2>. QED BY <1>2, <1>3, <2>1 DEF OnePlace, Shared, Somewhere
<1>5. \A t \in Tasks : Knows(t)' BY <1>1 DEF Knows, Asking
<1>. QED BY <1>4, <1>5 DEF NotesInv

\* What a call does is sound.
LEMMA TaskNotes ==
    ASSUME Hybrid = FALSE, TypeOK, RunsInv, NotesInv, NEW t \in Tasks,
           RunStep(t) \/ DrainStep(t) \/ CallStep(t) \/ TimerFires(t) \/ Surprise(t)
    PROVE  NoteRole(t)
BY RunNotes, DrainStepNotes, CallNotes, SurpriseNotes DEF RunsInv

\* Every step of the system keeps each note in one place.
LEMMA NextKeepsNotes ==
    ASSUME Hybrid = FALSE, TypeOK, RunsInv, NotesInv, [Next]_vars
    PROVE  NotesInv'
<1>1. ASSUME NEW t \in Tasks, RunStep(t) \/ DrainStep(t) \/ CallStep(t) \/ TimerFires(t) \/ Surprise(t)
      PROVE  NotesInv'
  BY <1>1, TaskNotes, NoteRoleKeeps
<1>2. CASE Restart BY <1>2, RestartNotes
<1>3. CASE UNCHANGED vars
  BY <1>3 DEF vars, NotesInv, OnePlace, Shared, Somewhere, Prompted, Copied, WillPrompt, Carried,
              Knows, Live
<1>. QED BY <1>1, <1>2, <1>3 DEF Next

\* The inductive invariant.
THEOREM NotesInvariant ==
    ASSUME Hybrid = FALSE
    PROVE  Spec => []NotesInv
<1>1. TypeOK /\ RunsInv /\ NotesInv /\ [Next]_vars => NotesInv'
  BY NextKeepsNotes
<1>. QED BY <1>1, InitNotes, TypeCorrect, RunsInvariant, PTL DEF Spec

-----------------------------------------------------------------------------
(* The fates.                                                                *)

\* Where a note with each fate is.
FatesInv ==
    \A n \in Notes :
        /\ n \in Held <=> \/ n \in queue \/ n \in inbox \/ Prompted(n)
                          \/ \E t \in Tasks : n \in Carried(t)
        /\ Fate(n) = IF n \in Held THEN "held"
                     ELSE IF n \in seen THEN "delivered"
                     ELSE IF n \in sent THEN "dropped" ELSE "fresh"
        /\ n \in Held \cup seen => n \in sent

\* A note in one place has a fate NoteDelivery knows.
LEMMA FatesKnown == NotesInv => FatesInv
<1> SUFFICES ASSUME NotesInv, NEW n \in Notes
             PROVE  /\ n \in Held <=> \/ n \in queue \/ n \in inbox \/ Prompted(n)
                                      \/ \E t \in Tasks : n \in Carried(t)
                    /\ Fate(n) = IF n \in Held THEN "held"
                                 ELSE IF n \in seen THEN "delivered"
                                 ELSE IF n \in sent THEN "dropped" ELSE "fresh"
                    /\ n \in Held \cup seen => n \in sent
  BY DEF FatesInv
<1>1. n \in Held <=> \/ n \in queue \/ n \in inbox \/ Prompted(n)
                     \/ \E t \in Tasks : n \in Carried(t)
  <2>1. \A t \in Tasks : n \in task[t].notes => n \in Carried(t) \/ Prompted(n)
    BY DEF NotesInv, Knows, Carried, Prompted
  <2>2. \A t \in Tasks : n \in Carried(t) => n \in task[t].notes
    BY DEF Carried
  <2>3. n \in Held <=> \/ n \in queue \/ n \in inbox \/ Prompted(n)
                       \/ \E t \in Tasks : n \in task[t].notes
    BY DEF Held, Prompted, Copied, Live
  <2>. QED BY <2>1, <2>2, <2>3
<1>2. OnePlace(n) BY DEF NotesInv
<1>3. ~(n \in Held /\ n \in seen) /\ (n \in Held \cup seen => n \in sent)
  BY <1>1, <1>2 DEF OnePlace, Shared, Somewhere
<1>. QED BY <1>1, <1>3 DEF Fate

\* A step of the system is one of NoteDelivery, or leaves every fate as it is.
LEMMA NextFates ==
    ASSUME Hybrid = FALSE, TypeOK, RunsInv, NotesInv, FatesInv, FatesInv', [Next]_vars
    PROVE  [Delivery!Next]_fates
<1> DEFINE Told == /\ sent \subseteq sent' /\ seen \subseteq seen'
                   /\ \A n \in Notes :
                        /\ n \in Held' => n \in Held \/ n \in sent' \ sent
                        /\ n \in seen' => n \in seen \/ n \in Held
                        /\ n \in sent' \ sent => n \in Held'
<1>1. ASSUME NEW t \in Tasks, RunStep(t) \/ DrainStep(t) \/ CallStep(t) \/ TimerFires(t) \/ Surprise(t)
      PROVE  Told
  <2>1. NoteRole(t) BY <1>1, TaskNotes
  <2>2. ASSUME NEW n \in Notes
        PROVE  /\ n \in Held' => n \in Held \/ n \in sent' \ sent
               /\ n \in seen' => n \in seen \/ n \in Held
               /\ n \in sent' \ sent => n \in Held'
    <3>1. \A u \in Tasks \ {t} : Carried(u)' = Carried(u)
      BY <2>1 DEF NoteRole, OthersRest, Carried
    <3>2. n \in sent' \ sent => n \in Held'
      BY <2>1 DEF NoteRole, Held
    <3>3. CASE Stays(n, t)
      BY <3>1, <3>2, <3>3 DEF Stays, FatesInv
    <3>4. CASE Moved(n, t)
      BY <3>1, <3>2, <3>4 DEF Moved, FatesInv
    <3>. QED BY <2>1, <3>3, <3>4 DEF NoteRole, NoteStep
  <2>. QED BY <2>1, <2>2 DEF NoteRole
<1>2. ASSUME Restart PROVE Told
  <2>1. /\ row' = row /\ queue' = {} /\ inbox' = {} /\ seen' = seen /\ sent' = sent
        /\ \A t \in Tasks : task'[t].pc = "idle" /\ task'[t].notes = {}
    BY <1>2 DEF Restart, Idle
  <2>2. \A n \in Notes : n \in Held' => n \in Held
    BY <2>1 DEF Held, WillPrompt
  <2>. QED BY <2>1, <2>2
<1>3. ASSUME UNCHANGED vars PROVE Told
  BY <1>3 DEF vars, Held, WillPrompt
<1>4. Told BY <1>1, <1>2, <1>3 DEF Next
<1>5. ASSUME NEW n \in Notes PROVE Delivery!Allowed(n, Fate(n)') /\ Fate(n)' \in Delivery!Fates
  <2>1. Fate(n)' = IF n \in Held' THEN "held"
                   ELSE IF n \in seen' THEN "delivered"
                   ELSE IF n \in sent' THEN "dropped" ELSE "fresh"
    BY DEF FatesInv
  <2>2. /\ Fate(n) = IF n \in Held THEN "held"
                     ELSE IF n \in seen THEN "delivered"
                     ELSE IF n \in sent THEN "dropped" ELSE "fresh"
        /\ n \in Held \cup seen => n \in sent
        /\ n \in Held' \cup seen' => n \in sent'
    BY DEF FatesInv
  <2>3. fates[n] = Fate(n) BY DEF fates
  <2>. QED BY <1>4, <2>1, <2>2, <2>3 DEF Delivery!Allowed, Delivery!Fates
<1>6. fates' = [n \in Notes |-> Fate(n)'] BY DEF fates
<1>. QED BY <1>5, <1>6 DEF Delivery!Next

\* Initially every note is fresh.
LEMMA InitFates == Init /\ FatesInv => Delivery!Init
<1> SUFFICES ASSUME Init, FatesInv PROVE Delivery!Init
  OBVIOUS
<1>1. sent = {} /\ seen = {} BY DEF Init
<1>2. \A n \in Notes : Fate(n) = "fresh" BY <1>1 DEF FatesInv
<1>. QED BY <1>2 DEF Delivery!Init, fates

\* JobLifecycle implements NoteDelivery: with the local state backend every
\* message and event is given to an agent at most once and never comes back
\* after it was dropped (sendMessage, the event queue, injectAndResume, the
\* session's inbox, pendingPrompt and restarts together).
THEOREM DeliveredAtMostOnce ==
    ASSUME Hybrid = FALSE
    PROVE  Spec => NotesAreDeliveredAtMostOnce
<1>1. TypeOK /\ RunsInv /\ NotesInv /\ FatesInv /\ FatesInv' /\ [Next]_vars => [Delivery!Next]_fates
  BY NextFates
<1>2. Spec => Delivery!Init /\ [][Delivery!Next]_fates
  BY <1>1, NotesInvariant, FatesKnown, InitFates, TypeCorrect, RunsInvariant, PTL DEF Spec
<1>. QED BY <1>2 DEF NotesAreDeliveredAtMostOnce, Delivery!Spec
=============================================================================
