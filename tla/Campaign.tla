------------------------------- MODULE Campaign -------------------------------
(***************************************************************************)
(* A campaign: a parent job whose children are planned by an agent,        *)
(* dispatched as jobs of their own by the Dispatcher (coordinateCampaign,  *)
(* onChildJobStopped, dispatchCampaignChild in jobs/dispatcher.ts) and     *)
(* changed by developers and agents (tools/campaign.ts).  The list of      *)
(* children lives in the parent's row; whoever changes it reads all of it  *)
(* and writes all of it back.                                              *)
(*                                                                         *)
(* The processes are asynchronous calls, as in JobLifecycle: each holds a  *)
(* copy of the parent.  With the local state backend a call runs on until  *)
(* it touches the file system (Resting); with the cloud backend every read *)
(* and write is an RPC and calls interleave at each one.  The runs of the  *)
(* children are what JobLifecycle makes of them: at most one at a time.    *)
(***************************************************************************)
EXTENDS Naturals, FiniteSets

CONSTANTS
    Children,     (* names of the children                                     *)
    Deps,         (* dependsOn of each                                         *)
    Tasks,        (* slots for calls in flight                                 *)
    Cap,          (* maxParallelChildren                                       *)
    MaxJobs,      (* bound: child jobs created in a behaviour                  *)
    Hybrid,       (* TRUE: cloud state backend                                 *)
    Controls,     (* what developers and the evaluator do                      *)
    Mishaps,      (* what may go wrong                                         *)
    MaxControls,  (* bound: operations in a behaviour                          *)
    MaxRounds     (* bound: times the planner is entered                       *)

Jobs == 1 .. MaxJobs
Operations == {"skip", "abandon", "rerun", "resume", "start"}

ASSUME CampaignAssumption ==
    /\ Children # {}
    /\ Deps \in [Children -> SUBSET Children]
    /\ Cap \in Nat \ {0} /\ MaxJobs \in Nat
    /\ Hybrid \in BOOLEAN
    /\ Controls \subseteq Operations \cup {"cancel-campaign", "cancel-job", "wake-job", "continue"}
    /\ Mishaps \subseteq {"copy", "park", "overwrite", "restart"}
    /\ MaxControls \in Nat /\ MaxRounds \in Nat

VARIABLES
    parent,   (* the parent's row: phase, status, list of children             *)
    running,  (* activeJobs has the parent                                     *)
    jobs,     (* the child jobs: child, status, whether a run is in flight     *)
    made,     (* how many of them were created                                 *)
    task,     (* the calls in flight                                           *)
    spent     (* how much of each bound is used                                *)

vars == <<parent, running, jobs, made, task, spent>>

-----------------------------------------------------------------------------
(* Children.  "absent": not registered.                                      *)

Satisfied == {"complete", "skipped", "cancelled"}
HaltingFault == {"failed"}
Halting == {"failed", "escalated"}
Settled == Satisfied \cup Halting
ChildStatuses == {"absent", "pending", "ready", "dispatched"} \cup Settled
Lists == [Children -> [status: ChildStatuses, job: Jobs \cup {0}]]

Registered(list) == {n \in Children : list[n].status # "absent"}
With(list, status) == {n \in Children : list[n].status = status}

ReconciledFault(list) ==
    [n \in Children |->
        IF list[n].status = "pending" /\ \A d \in Deps[n] : list[d].status = "complete"
        THEN [list[n] EXCEPT !.status = "ready"]
        ELSE list[n]]
ReconciledTooSoon(list) ==
    [n \in Children |->
        IF /\ list[n].status = "pending"
           /\ Deps[n] = {} \/ \E d \in Deps[n] : list[d].status \in Satisfied
        THEN [list[n] EXCEPT !.status = "ready"]
        ELSE list[n]]
Reconciled(list) ==
    [n \in Children |->
        IF list[n].status = "pending" /\ \A d \in Deps[n] : list[d].status \in Satisfied
        THEN [list[n] EXCEPT !.status = "ready"]
        ELSE list[n]]

\* detectCycle and the check for dangling names, as conditions on the graph: a
\* set of children each of which waits for another one of the set.
Cyclic(names) == \E C \in SUBSET names : C # {} /\ \A n \in C : Deps[n] \cap C # {}
Dangling(names) == \E n \in names : ~(Deps[n] \subseteq names)

\* jobStatusToChildStatus: the statuses of a job that settle a child.
Stopped == {"complete", "failed", "escalated", "cancelled"}
StopsFault(status) == status # "running"
Stops(status) == status \in Stopped
JobStates == [child: Children, status: {"made", "running", "parked"} \cup Stopped,
              run: BOOLEAN]

-----------------------------------------------------------------------------
Phases == {"planning", "coordinating", "after"}
\* "input": awaiting-developer-input, "children": awaiting-children
Parents == [phase: Phases, status: {"running", "input", "children", "cancelled"},
            list: Lists]

PCs == {"idle", "stopped", "settle", "sync", "sweep", "promote", "verdict",
        "proceed", "dispatch", "copy", "mark", "lost", "abandon", "mutate",
        "apply", "rejob", "start"}

\* Copying the campaign's context files is real I/O.
Resting == {"idle", "copy", "sync"}

TaskStates == [pc: PCs, copy: Parents, op: Operations \cup Stopped \cup {"none"},
               child: Children, job: Jobs \cup {0}, todo: SUBSET Children]
Spending == [controls: 0 .. MaxControls, rounds: 0 .. MaxRounds, restarts: 0 .. 1]

Free(t) == task[t].pc = "idle"
MayStep(t) == Hybrid \/ \A u \in Tasks \ {t} : task[u].pc \in Resting
At(t, pc) == task[t].pc = pc /\ MayStep(t)
Become(t, state) == task' = [task EXCEPT ![t] = state]
Unread == [phase |-> "planning", status |-> "running",
           list |-> [n \in Children |-> [status |-> "absent", job |-> 0]]]
Slot == [pc |-> "idle", copy |-> Unread, op |-> "none",
         child |-> CHOOSE n \in Children : TRUE, job |-> 0, todo |-> {}]
Go(t, pc) == Become(t, [task[t] EXCEPT !.pc = pc])
GoOn(t, pc) == Become(t, [task[t] EXCEPT !.pc = pc, !.copy = Unread])
Done(t) == Become(t, Slot)
Read(t, pc) == Become(t, [task[t] EXCEPT !.pc = pc, !.copy = parent])
Start(t, pc, op, n, j) ==
    Become(t, [Slot EXCEPT !.pc = pc, !.op = op, !.child = n, !.job = j])
SweepBy(t) == Become(t, [Slot EXCEPT !.pc = "sweep"])
StoreList(list) == parent' = [parent EXCEPT !.list = list]
Copy(t) == task[t].copy

Init ==
    /\ parent = Unread
    /\ running = TRUE
    /\ jobs = <<>> /\ made = 0
    /\ task = [t \in Tasks |-> Slot]
    /\ spent = [controls |-> 0, rounds |-> 0, restarts |-> 0]

-----------------------------------------------------------------------------
(* The parent's own runs: the planner registers children and finalizes the   *)
(* plan.  Its turn may end without that, or with a plan that was refused, and *)
(* it may register more afterwards: the run goes on to coordinating all the   *)
(* same.  The checkpoint stops it there for the developer's approval.         *)

Planning == running /\ parent.phase = "planning"
Between == Hybrid \/ \A u \in Tasks : task[u].pc \in Resting

\* A list that campaign_finalize does not refuse out of hand.
Sound(list) ==
    LET names == Registered(list)
    IN names # {} /\ ~Dangling(names) /\ ~Cyclic(names)

\* campaign_register_child
Register(n) ==
    /\ Planning /\ Between
    /\ parent.list[n].status = "absent" /\ n \notin Deps[n]
    /\ StoreList([parent.list EXCEPT ![n].status = "pending"])
    /\ UNCHANGED <<running, jobs, made, task, spent>>

\* campaign_finalize, a tool the planner calls in the middle of its turn.
Finalize ==
    /\ Planning /\ Between
    /\ Sound(parent.list)
    /\ With(Reconciled(parent.list), "ready") # {}
    /\ StoreList(Reconciled(parent.list))
    /\ UNCHANGED <<running, jobs, made, task, spent>>

\* The end of the planner's turn and the park that follows: where somebody else
\* parked the parent meanwhile, at the checkpoint or a question, or in the
\* coordinating phase, which has no agent and whose drain sweeps.
PlannerEnds(t) ==
    /\ Planning /\ Between /\ Free(t)
    /\ running' = FALSE
    /\ \/ parent.status # "running" /\ UNCHANGED <<parent, task>>
       \/ parent' = [parent EXCEPT !.status = "input"] /\ UNCHANGED task
       \/ /\ parent' = [parent EXCEPT !.phase = "coordinating", !.status = "children"]
          /\ SweepBy(t)
    /\ UNCHANGED <<jobs, made, spent>>

\* The developer answers a parked planner, and it takes another turn.
Answer ==
    /\ Between /\ ~running
    /\ parent.phase = "planning" /\ parent.status \in {"input", "children"}
    /\ parent' = [parent EXCEPT !.status = "running"]
    /\ running' = TRUE
    /\ UNCHANGED <<jobs, made, task, spent>>

\* The developer lets a parked parent go on: past the checkpoint into
\* coordinating, or into coordinating once more.
Continue(t) ==
    /\ Between /\ Free(t) /\ ~running
    /\ parent.phase # "after" /\ parent.status \in {"input", "children"}
    /\ parent.phase = "coordinating" =>
          "continue" \in Controls /\ spent.controls < MaxControls
    /\ spent' = [spent EXCEPT !.controls = IF parent.phase = "planning" THEN @ ELSE @ + 1]
    /\ parent' = [parent EXCEPT !.phase = "coordinating", !.status = "children"]
    /\ SweepBy(t)
    /\ UNCHANGED <<running, jobs, made>>

\* The integrator or the evaluator goes back to the planner for remediation.
Remediate ==
    /\ Between /\ running /\ parent.phase = "after" /\ parent.status = "running"
    /\ spent.rounds < MaxRounds
    /\ spent' = [spent EXCEPT !.rounds = @ + 1]
    /\ parent' = [parent EXCEPT !.phase = "planning"]
    /\ UNCHANGED <<running, jobs, made, task>>

-----------------------------------------------------------------------------
(* The child jobs.                                                           *)

Job(j) == j \in 1 .. made
SetJob(j, status, run) == jobs' = [jobs EXCEPT ![j].status = status, ![j].run = run]

\* A run of a child ends.  If it stopped, the drain of the run settles the child.
RunEnds(t, j) ==
    /\ Between /\ Free(t) /\ Job(j) /\ jobs[j].run
    /\ \E s \in IF jobs[j].status = "cancelled" THEN {"cancelled"}
               ELSE {"complete", "failed", "escalated"}
                    \cup (IF "park" \in Mishaps THEN {"parked"} ELSE {}) :
          /\ SetJob(j, s, FALSE)
          /\ IF Stops(s) THEN Start(t, "stopped", "none", jobs[j].child, j)
                         ELSE UNCHANGED task
    /\ UNCHANGED <<parent, running, made, spent>>

\* A run that is about to enter a phase overwrites a cancel with its status.
RunOverwritesCancel(j) ==
    /\ Between /\ "overwrite" \in Mishaps
    /\ Job(j) /\ jobs[j].run /\ jobs[j].status = "cancelled"
    /\ SetJob(j, "running", TRUE)
    /\ UNCHANGED <<parent, running, made, task, spent>>

Spend == spent.controls < MaxControls /\ spent' = [spent EXCEPT !.controls = @ + 1]

\* A developer or a webhook wakes a child job that is not terminal.
WakeJob(j) ==
    /\ Between /\ "wake-job" \in Controls /\ Spend
    /\ Job(j) /\ ~jobs[j].run /\ jobs[j].status \in {"parked", "failed", "escalated"}
    /\ SetJob(j, "running", TRUE)
    /\ UNCHANGED <<parent, running, made, task>>

\* cancelJob, of a child's job: nothing tells the parent.
CancelJob(j) ==
    /\ Between /\ "cancel-job" \in Controls /\ Spend
    /\ Job(j) /\ jobs[j].status \notin {"made", "complete", "cancelled"}
    /\ SetJob(j, "cancelled", jobs[j].run)
    /\ UNCHANGED <<parent, running, made, task>>

\* cancelJob, of the parent.
CancelCampaign ==
    /\ Between /\ "cancel-campaign" \in Controls /\ Spend
    /\ parent.status # "cancelled"
    /\ parent' = [parent EXCEPT !.status = "cancelled"]
    /\ running' = FALSE
    /\ UNCHANGED <<jobs, made, task>>

-----------------------------------------------------------------------------
(* onChildJobStopped.  The child is found by name, whichever job it has now. *)

ReadStopped(t) ==
    /\ At(t, "stopped")
    /\ LET s == jobs[task[t].job].status
       IN Become(t, IF Stops(s)
                    THEN [task[t] EXCEPT !.pc = "settle", !.op = s, !.copy = parent]
                    ELSE Slot)
    /\ UNCHANGED <<parent, running, jobs, made, spent>>

Settle(t) ==
    /\ At(t, "settle")
    /\ StoreList(Reconciled([Copy(t).list EXCEPT
                    ![task[t].child] = [status |-> task[t].op, job |-> task[t].job]]))
    /\ GoOn(t, "sync")
    /\ UNCHANGED <<running, jobs, made, spent>>

Synced(t) ==
    /\ At(t, "sync")
    /\ SweepBy(t)
    /\ UNCHANGED <<parent, running, jobs, made, spent>>

-----------------------------------------------------------------------------
(* coordinateCampaign: the status and the phase are those of the copy.       *)

Sweep(t) ==
    /\ At(t, "sweep")
    /\ IF Registered(parent.list) = {} THEN Done(t) ELSE Read(t, "promote")
    /\ UNCHANGED <<parent, running, jobs, made, spent>>

Promote(t) ==
    /\ At(t, "promote")
    /\ LET new == Reconciled(Copy(t).list)
       IN /\ IF new = Copy(t).list THEN UNCHANGED parent ELSE StoreList(new)
          /\ Become(t, [task[t] EXCEPT !.pc = "verdict", !.copy.list = new])
    /\ UNCHANGED <<running, jobs, made, spent>>

HasHalted(list) == \E n \in Children : list[n].status \in Halting

\* A failed child parks the parent; without one a parked parent waits again.
Verdict(t) ==
    /\ At(t, "verdict")
    /\ IF HasHalted(Copy(t).list)
       THEN /\ parent' = IF Copy(t).status = "input" THEN parent
                                                     ELSE [parent EXCEPT !.status = "input"]
            /\ Done(t)
       ELSE /\ parent' = IF Copy(t).status = "input" THEN [parent EXCEPT !.status = "children"]
                                                     ELSE parent
            /\ Go(t, "proceed")
    /\ UNCHANGED <<running, jobs, made, spent>>

AllSettledFault(list) == With(list, "dispatched") = {}
AllSettled(list) == \A n \in Registered(list) : list[n].status \in Settled

\* Everything settled: resumeJob into the next phase, unless the parent runs
\* already, is cancelled, or has left coordinating.
Leave(t) ==
    /\ At(t, "proceed") /\ AllSettled(Copy(t).list)
    /\ IF Copy(t).phase = "coordinating" /\ ~running /\ parent.status # "cancelled"
       THEN /\ parent' = [parent EXCEPT !.phase = "after", !.status = "running"]
            /\ running' = TRUE
       ELSE UNCHANGED <<parent, running>>
    /\ Done(t)
    /\ UNCHANGED <<jobs, made, spent>>

\* Otherwise as many ready children as the cap leaves room for.
Fill(t) ==
    /\ At(t, "proceed") /\ ~AllSettled(Copy(t).list)
    /\ LET ready == With(Copy(t).list, "ready")
           out == Cardinality(With(Copy(t).list, "dispatched"))
           slots == IF out < Cap THEN Cap - out ELSE 0
       IN \E chosen \in SUBSET ready :
             /\ Cardinality(chosen) <= slots
             /\ Cardinality(chosen) < slots => chosen = ready
             /\ Become(t, [Slot EXCEPT !.pc = "dispatch", !.todo = chosen])
    /\ UNCHANGED <<parent, running, jobs, made, spent>>

-----------------------------------------------------------------------------
(* dispatchCampaignChild, for each child chosen.                             *)

Dispatch(t) ==
    /\ At(t, "dispatch")
    /\ \/ /\ task[t].todo = {} /\ Done(t)
          /\ UNCHANGED <<jobs, made>>
       \/ \E n \in task[t].todo :
             /\ made < MaxJobs
             /\ made' = made + 1
             /\ jobs' = [j \in 1 .. made + 1 |->
                            IF j \in 1 .. made THEN jobs[j]
                            ELSE [child |-> n, status |-> "made", run |-> FALSE]]
             /\ Become(t, [task[t] EXCEPT !.pc = "copy", !.child = n, !.job = made + 1,
                                          !.todo = @ \ {n}])
    /\ UNCHANGED <<parent, running, spent>>

Copied(t) ==
    /\ At(t, "copy")
    /\ Read(t, "mark")
    /\ UNCHANGED <<parent, running, jobs, made, spent>>

CopyFails(t) ==
    /\ At(t, "copy") /\ "copy" \in Mishaps
    /\ Read(t, "lost")
    /\ UNCHANGED <<parent, running, jobs, made, spent>>

\* The entry is overwritten whatever it says by now, and the job is started.
Mark(t) ==
    /\ At(t, "mark")
    /\ StoreList([Copy(t).list EXCEPT
                    ![task[t].child] = [status |-> "dispatched", job |-> task[t].job]])
    /\ SetJob(task[t].job, "running", TRUE)
    /\ Become(t, [Slot EXCEPT !.pc = "dispatch", !.todo = task[t].todo])
    /\ UNCHANGED <<running, made, spent>>

\* markChildFailed: no sweep follows.
MarkFailed(t) ==
    /\ At(t, "lost")
    /\ StoreList([Copy(t).list EXCEPT ![task[t].child].status = "failed"])
    /\ Become(t, [Slot EXCEPT !.pc = "dispatch", !.todo = task[t].todo])
    /\ UNCHANGED <<running, jobs, made, spent>>

-----------------------------------------------------------------------------
(* Operations on a child: the tool of tools/campaign.ts, then a sweep.       *)

First(op) == CASE op = "abandon" -> "abandon" [] op = "start" -> "start" [] OTHER -> "mutate"
Operate(t, op, n) ==
    /\ Between /\ Free(t) /\ op \in Controls /\ Spend
    /\ parent.list[n].status # "absent"
    /\ Start(t, First(op), op, n, 0)
    /\ UNCHANGED <<parent, running, jobs, made>>

\* campaignStartChild: past the cap and past a halt, but only a ready child.
StartChild(t) ==
    /\ At(t, "start")
    /\ Become(t, IF parent.list[task[t].child].status = "ready"
                 THEN [Slot EXCEPT !.pc = "dispatch", !.todo = {task[t].child}]
                 ELSE Slot)
    /\ UNCHANGED <<parent, running, jobs, made, spent>>

\* campaignAbandonChild cancels the child's job before it changes the entry.
Abandon(t) ==
    /\ At(t, "abandon")
    /\ LET entry == parent.list[task[t].child]
       IN IF entry.status \in {"cancelled", "skipped"}
          THEN SweepBy(t) /\ UNCHANGED jobs
          ELSE /\ Go(t, "mutate")
               /\ IF entry.job # 0 /\ jobs[entry.job].status \notin Stopped
                  THEN SetJob(entry.job, "cancelled", jobs[entry.job].run)
                  ELSE UNCHANGED jobs
    /\ UNCHANGED <<parent, running, made, spent>>

\* What mutateChild makes of an entry, and when it refuses.
Refused(op, entry) ==
    CASE op = "skip"    -> entry.status = "complete"
      [] op = "abandon" -> entry.status \in Satisfied
      [] op = "rerun"   -> entry.status \notin Settled
      [] op = "resume"  -> entry.status \notin Halting \/ entry.job = 0
      [] OTHER          -> TRUE
Changed(op, entry) ==
    CASE op = "skip"    -> [entry EXCEPT !.status = IF @ \in Halting THEN "cancelled"
                                                    ELSE IF @ = "cancelled" THEN @ ELSE "skipped"]
      [] op = "abandon" -> [entry EXCEPT !.status = "cancelled"]
      [] op = "rerun"   -> [status |-> "pending", job |-> 0]
      [] op = "resume"  -> [entry EXCEPT !.status = "dispatched"]
      [] OTHER          -> entry

Mutate(t) ==
    /\ At(t, "mutate")
    /\ IF Refused(task[t].op, parent.list[task[t].child]) THEN Done(t) ELSE Read(t, "apply")
    /\ UNCHANGED <<parent, running, jobs, made, spent>>

Apply(t) ==
    /\ At(t, "apply")
    /\ LET n == task[t].child
       IN StoreList(Reconciled([Copy(t).list EXCEPT ![n] = Changed(task[t].op, @)]))
    /\ IF task[t].op = "resume" THEN Go(t, "rejob") ELSE SweepBy(t)
    /\ UNCHANGED <<running, jobs, made, spent>>

\* The child's job goes on where it stopped, unless it runs or is terminal.
ResumeChildJob(t) ==
    /\ At(t, "rejob")
    /\ LET j == Copy(t).list[task[t].child].job
       IN IF jobs[j].run \/ jobs[j].status \in {"complete", "cancelled"}
          THEN Done(t) /\ UNCHANGED jobs
          ELSE SetJob(j, "running", TRUE) /\ SweepBy(t)
    /\ UNCHANGED <<parent, running, made, spent>>

-----------------------------------------------------------------------------
\* A restart forgets every call and every run; no code takes them up again.
Restart ==
    /\ "restart" \in Mishaps /\ spent.restarts = 0
    /\ spent' = [spent EXCEPT !.restarts = 1]
    /\ running' = FALSE
    /\ jobs' = [j \in 1 .. made |-> [jobs[j] EXCEPT !.run = FALSE]]
    /\ task' = [t \in Tasks |-> Slot]
    /\ UNCHANGED <<parent, made>>

CallStep(t) ==
    \/ ReadStopped(t) \/ Settle(t) \/ Synced(t) \/ Sweep(t) \/ Promote(t)
    \/ Verdict(t) \/ Leave(t) \/ Fill(t) \/ Dispatch(t) \/ Copied(t)
    \/ CopyFails(t) \/ Mark(t) \/ MarkFailed(t) \/ StartChild(t) \/ Abandon(t)
    \/ Mutate(t) \/ Apply(t) \/ ResumeChildJob(t)

JobStep(j) == WakeJob(j) \/ CancelJob(j) \/ RunOverwritesCancel(j)

Next ==
    \/ \E t \in Tasks : CallStep(t) \/ PlannerEnds(t) \/ Continue(t)
    \/ \E t \in Tasks, j \in Jobs : RunEnds(t, j)
    \/ \E t \in Tasks, op \in Operations, n \in Children : Operate(t, op, n)
    \/ \E n \in Children : Register(n)
    \/ \E j \in Jobs : JobStep(j)
    \/ Finalize \/ Answer \/ Remediate \/ CancelCampaign \/ Restart

Spec == Init /\ [][Next]_vars

\* Calls go on, and so do the runs of the children to some end.
FairSpec == /\ Spec
            /\ \A t \in Tasks : WF_vars(CallStep(t))
            /\ WF_vars(\E t \in Tasks, j \in Jobs : RunEnds(t, j))

-----------------------------------------------------------------------------
\* The type invariant.
TypeOK ==
    /\ parent \in Parents
    /\ running \in BOOLEAN
    /\ made \in 0 .. MaxJobs
    /\ jobs \in [1 .. made -> JobStates]
    /\ task \in [Tasks -> TaskStates]
    /\ spent \in Spending

\* "Promote pending children to ready when every entry in their dependsOn is
\* satisfied" (reconcileReady): whoever writes the list, a child becomes ready
\* only when all it depends on is done or given up.
ReadyIsEarned ==
    [][\A n \in Children :
          parent.list[n].status # "ready" /\ parent'.list[n].status = "ready"
             => \A d \in Deps[n] : parent'.list[d].status \in Satisfied]_vars

\* The parent goes on to integration only with every child settled and none
\* failed or escalated, however sweeps, stops and operations interleave.
CoordinationEndsSettled ==
    [][parent.phase = "coordinating" /\ parent'.phase = "after"
          => \A n \in Registered(parent.list) : parent.list[n].status \in Satisfied]_vars

\* A child whose dependencies are met is never left waiting for an event that
\* already happened ("Defensive ready-promotion", coordinateCampaign): until a
\* restart forgets a sweep, in coordination a pending child has an unmet
\* dependency or a sweep is about to look at it, whatever list the planner left.
Promoting == \E t \in Tasks : task[t].pc \in {"sweep", "promote"}
PendingIsBlocked ==
    parent.phase = "coordinating" /\ spent.restarts = 0 =>
        \/ Promoting
        \/ \A n \in With(parent.list, "pending") :
              \E d \in Deps[n] : parent.list[d].status \notin Satisfied

\* A parent that waits for its children has one it waits for: with a list that
\* is not empty, closed and without cycles, and no call in flight, some
\* dispatched child has a job that runs or can be woken.
WaitingHasAReason ==
    /\ parent.phase = "coordinating" /\ parent.status = "children"
    /\ Sound(parent.list)
    /\ spent.restarts = 0
    /\ \A t \in Tasks : Free(t)
    => \E j \in 1 .. made : /\ jobs[j].run \/ jobs[j].status = "parked"
                            /\ parent.list[jobs[j].child].status = "dispatched"

\* A coordination of such a list goes on: the campaign does not wait for ever
\* while its children's runs end, but moves on or asks the developer.
CoordinationMoves ==
    [](parent.phase = "coordinating" /\ parent.status = "children" /\ Sound(parent.list)
         => <>(\/ parent.phase # "coordinating" \/ parent.status # "children"
               \/ spent.restarts # 0))

\* The same for every list, "dangling" ones included ("a silent stall",
\* campaign_finalize).  It fails: the turn may end without campaign_finalize.
EveryCoordinationMoves ==
    [](parent.phase = "coordinating" /\ parent.status = "children"
         => <>(\/ parent.phase # "coordinating" \/ parent.status # "children"
               \/ spent.restarts # 0))

\* "Terminal statuses (complete, cancelled) are unreachable" (helpers.ts): no
\* sweep brings a cancelled campaign back or starts another child of it.
CancelledCampaignRests ==
    [][parent.status = "cancelled" => parent'.status = "cancelled" /\ made' = made]_vars

\* "Keeping spawn responsibility in one place is the only way the
\* dependency-aware ready-set computation stays race-free" (dispatcher.ts): a
\* child is never dispatched while a job of it is still running.
OneJobPerChild ==
    \A i, j \in 1 .. made :
        jobs[i].child = jobs[j].child /\ jobs[i].run /\ jobs[j].run => i = j
=============================================================================
