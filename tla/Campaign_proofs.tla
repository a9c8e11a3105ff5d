---------------------------- MODULE Campaign_proofs ---------------------------
(***************************************************************************)
(* What Campaign promises, for any children and dependencies, any number   *)
(* of calls in flight, jobs, operations and rounds.                        *)
(***************************************************************************)
EXTENDS Campaign, TLAPS, FiniteSetTheorems

Entries == [status: ChildStatuses, job: Jobs \cup {0}]

\* A call that is about to settle a child knows how its job stopped.
TypeInv ==
    /\ TypeOK
    /\ \A t \in Tasks : task[t].pc = "settle" => task[t].op \in Stopped

-----------------------------------------------------------------------------
(* The pieces.                                                               *)

LEMMA ReconciledType ==
    ASSUME NEW list \in Lists
    PROVE  /\ Reconciled(list) \in Lists
           /\ \A n \in Children :
                 \/ Reconciled(list)[n] = list[n]
                 \/ /\ list[n].status = "pending" /\ Reconciled(list)[n].status = "ready"
                    /\ \A d \in Deps[n] : list[d].status \in Satisfied
<1>1. \A n \in Children : list[n] \in Entries BY DEF Lists, Entries
<1>2. \A n \in Children :
         /\ Reconciled(list)[n] \in Entries
         /\ \/ Reconciled(list)[n] = list[n]
            \/ /\ list[n].status = "pending" /\ Reconciled(list)[n].status = "ready"
               /\ \A d \in Deps[n] : list[d].status \in Satisfied
  BY <1>1 DEF Reconciled, Entries, ChildStatuses
<1>3. Reconciled(list) \in [Children -> Entries] BY <1>2 DEF Reconciled
<1>. QED BY <1>2, <1>3 DEF Lists, Entries

LEMMA SlotType ==
    /\ Unread \in Parents
    /\ Slot \in TaskStates /\ Slot.pc = "idle"
<1>1. Unread \in Parents
  <2>1. [status |-> "absent", job |-> 0] \in Entries BY DEF Entries, ChildStatuses
  <2>2. [n \in Children |-> [status |-> "absent", job |-> 0]] \in Lists
    BY <2>1 DEF Lists, Entries
  <2>. QED BY <2>2 DEF Unread, Parents, Phases
<1>2. (CHOOSE n \in Children : TRUE) \in Children BY CampaignAssumption
<1>. QED BY <1>1, <1>2 DEF Slot, TaskStates, PCs

LEMMA BecomeType ==
    ASSUME TypeInv, NEW t \in Tasks, NEW s \in TaskStates, Become(t, s),
           s.pc = "settle" => s.op \in Stopped
    PROVE  /\ task' \in [Tasks -> TaskStates]
           /\ task'[t] = s /\ \A u \in Tasks \ {t} : task'[u] = task[u]
           /\ \A u \in Tasks : task'[u].pc = "settle" => task'[u].op \in Stopped
BY DEF Become, TypeInv, TypeOK

LEMMA SetJobType ==
    ASSUME TypeOK, NEW j, NEW status \in {"made", "running", "parked"} \cup Stopped, NEW run,
           j \in 1 .. made => run \in BOOLEAN, SetJob(j, status, run)
    PROVE  jobs' \in [1 .. made -> JobStates]
<1>1. CASE j \in 1 .. made
  <2>1. jobs[j] \in JobStates BY <1>1 DEF TypeOK
  <2>2. [[jobs[j] EXCEPT !.status = status] EXCEPT !.run = run] \in JobStates
    BY <1>1, <2>1 DEF JobStates
  <2>. QED BY <1>1, <2>2 DEF SetJob, TypeOK
<1>2. CASE j \notin 1 .. made
  BY <1>2 DEF SetJob, TypeOK
<1>. QED BY <1>1, <1>2

\* The states that the helpers make of a call.
LEMMA StepTypes ==
    ASSUME TypeInv, NEW t \in Tasks
    PROVE  /\ \A pc \in PCs : [task[t] EXCEPT !.pc = pc] \in TaskStates
           /\ \A pc \in PCs : [task[t] EXCEPT !.pc = pc, !.copy = Unread] \in TaskStates
           /\ \A pc \in PCs : [task[t] EXCEPT !.pc = pc, !.copy = parent] \in TaskStates
           /\ [Slot EXCEPT !.pc = "sweep"] \in TaskStates
           /\ \A todo \in SUBSET Children :
                 [Slot EXCEPT !.pc = "dispatch", !.todo = todo] \in TaskStates
<1>1. task[t] \in TaskStates /\ parent \in Parents BY DEF TypeInv, TypeOK
<1>. QED BY <1>1, SlotType DEF TaskStates, PCs

LEMMA ChangedType ==
    ASSUME NEW op, NEW entry \in Entries
    PROVE  /\ Changed(op, entry) \in Entries
           /\ Changed(op, entry).status = "ready" => entry.status = "ready"
<1>0. entry.status \in ChildStatuses /\ entry.job \in Jobs \cup {0}
      /\ entry = [status |-> entry.status, job |-> entry.job]
  BY DEF Entries
<1>1. ASSUME NEW x \in {"cancelled", "skipped", "dispatched"}
      PROVE  [entry EXCEPT !.status = x] \in Entries /\ [entry EXCEPT !.status = x].status = x
  BY <1>0, <1>1 DEF Entries, ChildStatuses, Settled, Satisfied
<1>2. CASE op = "skip"
  <2>1. \E x \in {"cancelled", "skipped"} : Changed(op, entry) = [entry EXCEPT !.status = x]
    BY <1>2 DEF Changed
  <2>. QED BY <1>1, <2>1
<1>3. CASE op \in {"abandon", "resume"}
  <2>1. \E x \in {"cancelled", "dispatched"} : Changed(op, entry) = [entry EXCEPT !.status = x]
    BY <1>3 DEF Changed
  <2>. QED BY <1>1, <2>1
<1>4. CASE op = "rerun"
  BY <1>4 DEF Changed, Entries, ChildStatuses
<1>5. CASE op \notin {"skip", "abandon", "rerun", "resume"}
  BY <1>5 DEF Changed
<1>. QED BY <1>2, <1>3, <1>4, <1>5

LEMMA InitType == Init => TypeInv
<1> SUFFICES ASSUME Init PROVE TypeInv
  OBVIOUS
<1>1. /\ parent \in Parents /\ task \in [Tasks -> TaskStates]
      /\ \A t \in Tasks : task[t] = Slot
  BY SlotType DEF Init
<1>2. made \in 0 .. MaxJobs /\ jobs \in [1 .. made -> JobStates]
      /\ spent \in Spending /\ running \in BOOLEAN
  BY CampaignAssumption DEF Init, Spending
<1>3. \A t \in Tasks : task[t].pc # "settle" BY <1>1, SlotType
<1>4. TypeOK BY <1>1, <1>2 DEF TypeOK
<1>. QED BY <1>3, <1>4 DEF TypeInv

LEMMA SpendType ==
    ASSUME TypeOK
    PROVE  /\ spent.controls < MaxControls => [spent EXCEPT !.controls = @ + 1] \in Spending
           /\ spent.rounds < MaxRounds => [spent EXCEPT !.rounds = @ + 1] \in Spending
           /\ [spent EXCEPT !.restarts = 1] \in Spending
<1>1. /\ spent.controls \in 0 .. MaxControls /\ spent.rounds \in 0 .. MaxRounds
      /\ spent \in Spending /\ MaxControls \in Nat /\ MaxRounds \in Nat
  BY CampaignAssumption DEF TypeOK, Spending
<1>2. \A m \in Nat : \A n \in 0 .. m : n < m => n + 1 \in 0 .. m OBVIOUS
<1>3. /\ spent.controls < MaxControls => spent.controls + 1 \in 0 .. MaxControls
      /\ spent.rounds < MaxRounds => spent.rounds + 1 \in 0 .. MaxRounds
  BY <1>1, <1>2
<1>. QED BY <1>1, <1>3 DEF Spending

\* A step of a call that changes the parent's row, the jobs and its own state.
LEMMA CallType ==
    ASSUME TypeInv, NEW t \in Tasks, NEW s \in TaskStates, Become(t, s),
           s.pc = "settle" => s.op \in Stopped,
           parent' \in Parents, running' \in BOOLEAN,
           made' \in 0 .. MaxJobs, jobs' \in [1 .. made' -> JobStates], spent' \in Spending
    PROVE  TypeInv'
<1>1. /\ task' \in [Tasks -> TaskStates]
      /\ \A u \in Tasks : task'[u].pc = "settle" => task'[u].op \in Stopped
  BY BecomeType
<1>. QED BY <1>1 DEF TypeInv, TypeOK

LEMMA StoreType ==
    ASSUME TypeOK, NEW list \in Lists, StoreList(list)
    PROVE  /\ parent' \in Parents /\ parent'.list = list
           /\ parent'.phase = parent.phase /\ parent'.status = parent.status
BY DEF TypeOK, Parents, StoreList

LEMMA TypeKept == TypeInv /\ [Next]_vars => TypeInv'
<1> SUFFICES ASSUME TypeInv, [Next]_vars PROVE TypeInv'
  OBVIOUS
<1>0. /\ parent \in Parents /\ running \in BOOLEAN /\ made \in 0 .. MaxJobs
      /\ jobs \in [1 .. made -> JobStates] /\ spent \in Spending
      /\ task \in [Tasks -> TaskStates] /\ parent.list \in Lists /\ TypeOK
      /\ MaxJobs \in Nat
  BY CampaignAssumption DEF TypeInv, TypeOK, Parents
<1>a. \A t \in Tasks : /\ task[t] \in TaskStates /\ Copy(t) \in Parents /\ Copy(t).list \in Lists
                       /\ task[t].child \in Children /\ task[t].job \in Jobs \cup {0}
                       /\ task[t].todo \in SUBSET Children
                       /\ task[t].pc = "settle" => task[t].op \in Stopped
  BY <1>0 DEF TaskStates, Parents, Copy, TypeInv
<1>1. CASE UNCHANGED vars
  BY <1>1 DEF TypeInv, TypeOK, vars
<1>2. ASSUME NEW n \in Children, Register(n) PROVE TypeInv'
  <2>1. [parent.list EXCEPT ![n].status = "pending"] \in Lists
    BY <1>0 DEF Lists, ChildStatuses
  <2>2. parent' \in Parents BY <1>0, <1>2, <2>1, StoreType DEF Register
  <2>. QED BY <1>2, <2>2 DEF Register, TypeInv, TypeOK
<1>3. CASE Finalize
  <2>1. parent' \in Parents BY <1>0, <1>3, ReconciledType, StoreType DEF Finalize
  <2>. QED BY <1>3, <2>1 DEF Finalize, TypeInv, TypeOK
<1>3a. ASSUME NEW t \in Tasks, PlannerEnds(t) PROVE TypeInv'
  <2>1. parent' \in Parents BY <1>0, <1>3a DEF PlannerEnds, Parents, Phases
  <2>2. UNCHANGED task \/ Become(t, [Slot EXCEPT !.pc = "sweep"])
    BY <1>3a DEF PlannerEnds, SweepBy
  <2>3. /\ task' \in [Tasks -> TaskStates]
        /\ \A u \in Tasks : task'[u].pc = "settle" => task'[u].op \in Stopped
    <3>1. [Slot EXCEPT !.pc = "sweep"].pc = "sweep" BY SlotType DEF TaskStates
    <3>2. CASE UNCHANGED task BY <1>0, <1>a, <3>2
    <3>3. CASE Become(t, [Slot EXCEPT !.pc = "sweep"])
      BY <3>1, <3>3, StepTypes, BecomeType
    <3>. QED BY <2>2, <3>2, <3>3
  <2>. QED BY <1>0, <1>3a, <2>1, <2>3 DEF PlannerEnds, TypeInv, TypeOK
<1>4. ASSUME NEW t \in Tasks, Continue(t) PROVE TypeInv'
  <2>1. parent' \in Parents BY <1>0, <1>4 DEF Continue, Parents, Phases
  <2>2. spent' \in Spending
    <3>1. spent' = [spent EXCEPT !.controls = IF parent.phase = "planning" THEN spent.controls
                                              ELSE spent.controls + 1]
      BY <1>4 DEF Continue
    <3>2. CASE parent.phase = "planning"
      <4>1. spent' = spent BY <1>0, <3>1, <3>2 DEF Spending
      <4>. QED BY <1>0, <4>1
    <3>3. CASE parent.phase # "planning"
      <4>1. spent.controls < MaxControls BY <1>0, <1>4, <3>3 DEF Continue, Parents, Phases
      <4>2. spent' = [spent EXCEPT !.controls = @ + 1] BY <3>1, <3>3
      <4>. QED BY <1>0, <4>1, <4>2, SpendType
    <3>. QED BY <3>2, <3>3
  <2>3. [Slot EXCEPT !.pc = "sweep"].pc = "sweep" BY SlotType DEF TaskStates
  <2>4. Become(t, [Slot EXCEPT !.pc = "sweep"]) /\ UNCHANGED <<running, jobs, made>>
    BY <1>4 DEF Continue, SweepBy
  <2>. QED BY <1>0, <2>1, <2>2, <2>3, <2>4, StepTypes, CallType
<1>5. CASE Answer \/ Remediate \/ CancelCampaign
  <2>1. parent' \in Parents /\ running' \in BOOLEAN
    BY <1>0, <1>5 DEF Answer, Remediate, CancelCampaign, Parents, Phases
  <2>2. spent' \in Spending
    BY <1>0, <1>5, SpendType DEF Answer, Remediate, CancelCampaign, Spend
  <2>3. UNCHANGED <<jobs, made, task>> BY <1>5 DEF Answer, Remediate, CancelCampaign
  <2>. QED BY <2>1, <2>2, <2>3 DEF TypeInv, TypeOK
<1>6. ASSUME NEW j \in Jobs, JobStep(j) PROVE TypeInv'
  <2>1. /\ Job(j) => jobs[j].run \in BOOLEAN
    BY <1>0 DEF Job, JobStates
  <2>2. jobs' \in [1 .. made -> JobStates]
    <3>1. \E s \in {"made", "running", "parked"} \cup Stopped, b \in BOOLEAN : SetJob(j, s, b)
      BY <1>6, <2>1 DEF JobStep, WakeJob, CancelJob, RunOverwritesCancel, Stopped
    <3>. QED BY <1>0, <3>1, SetJobType
  <2>3. spent' \in Spending
    BY <1>0, <1>6, SpendType DEF JobStep, WakeJob, CancelJob, RunOverwritesCancel, Spend
  <2>4. UNCHANGED <<parent, running, made, task>>
    BY <1>6 DEF JobStep, WakeJob, CancelJob, RunOverwritesCancel
  <2>. QED BY <1>0, <1>a, <2>2, <2>3, <2>4 DEF TypeInv, TypeOK
<1>7. ASSUME NEW t \in Tasks, NEW j \in Jobs, RunEnds(t, j) PROVE TypeInv'
  <2>1. jobs[j] \in JobStates /\ jobs[j].child \in Children BY <1>0, <1>7 DEF RunEnds, Job, JobStates
  <2>2. jobs' \in [1 .. made -> JobStates]
    <3>1. \E s \in {"made", "running", "parked"} \cup Stopped : SetJob(j, s, FALSE)
      BY <1>7 DEF RunEnds, Stopped
    <3>. QED BY <1>0, <3>1, SetJobType
  <2>3. UNCHANGED task
        \/ Become(t, [Slot EXCEPT !.pc = "stopped", !.op = "none", !.child = jobs[j].child, !.job = j])
    BY <1>7 DEF RunEnds, Start
  <2>4. /\ [Slot EXCEPT !.pc = "stopped", !.op = "none", !.child = jobs[j].child, !.job = j] \in TaskStates
        /\ [Slot EXCEPT !.pc = "stopped", !.op = "none", !.child = jobs[j].child, !.job = j].pc # "settle"
    BY <2>1, SlotType DEF TaskStates, PCs
  <2>5. /\ task' \in [Tasks -> TaskStates]
        /\ \A u \in Tasks : task'[u].pc = "settle" => task'[u].op \in Stopped
    <3>1. CASE UNCHANGED task BY <1>0, <1>a, <3>1
    <3>2. CASE ~UNCHANGED task BY <2>3, <2>4, <3>2, BecomeType
    <3>. QED BY <3>1, <3>2
  <2>. QED BY <1>0, <1>7, <2>2, <2>5 DEF RunEnds, TypeInv, TypeOK
<1>8. ASSUME NEW t \in Tasks, NEW op \in Operations, NEW n \in Children, Operate(t, op, n)
      PROVE  TypeInv'
  <2> DEFINE s == [Slot EXCEPT !.pc = First(op), !.op = op, !.child = n, !.job = 0]
  <2>1. First(op) \in {"abandon", "start", "mutate"} BY DEF First
  <2>2. s \in TaskStates /\ s.pc # "settle" BY <2>1, SlotType DEF TaskStates, PCs
  <2>3. Become(t, s) /\ UNCHANGED <<parent, running, jobs, made>> BY <1>8 DEF Operate, Start
  <2>4. spent' \in Spending BY <1>0, <1>8, SpendType DEF Operate, Spend
  <2> HIDE DEF s
  <2>. QED BY <1>0, <2>2, <2>3, <2>4, CallType
<1>9. CASE Restart
  <2>1. task' \in [Tasks -> TaskStates] /\ \A u \in Tasks : task'[u].pc # "settle"
    BY <1>9, SlotType DEF Restart
  <2>2. jobs' \in [1 .. made -> JobStates] BY <1>0, <1>9 DEF Restart, JobStates
  <2>3. spent' \in Spending BY <1>0, <1>9, SpendType DEF Restart
  <2>4. running' \in BOOLEAN /\ UNCHANGED <<parent, made>> BY <1>9 DEF Restart
  <2>. QED BY <1>0, <2>1, <2>2, <2>3, <2>4 DEF TypeInv, TypeOK
\* Calls that only change where they are.
<1>10. ASSUME NEW t \in Tasks, Synced(t) \/ Sweep(t) \/ Copied(t) \/ CopyFails(t) \/ Mutate(t)
       PROVE  TypeInv'
  <2>1. PICK s \in TaskStates : Become(t, s) /\ s.pc # "settle"
    <3>1. \/ Become(t, [Slot EXCEPT !.pc = "sweep"]) \/ Become(t, Slot)
          \/ \E pc \in {"promote", "mark", "lost", "apply"} :
                Become(t, [task[t] EXCEPT !.pc = pc, !.copy = parent])
      BY <1>10 DEF Synced, Sweep, Copied, CopyFails, Mutate, SweepBy, Done, Read
    <3>2. \A pc \in {"promote", "mark", "lost", "apply"} :
             /\ [task[t] EXCEPT !.pc = pc, !.copy = parent] \in TaskStates
             /\ [task[t] EXCEPT !.pc = pc, !.copy = parent].pc = pc
      <4>1. \A pc \in {"promote", "mark", "lost", "apply"} : pc \in PCs BY DEF PCs
      <4>2. \A pc \in PCs : [task[t] EXCEPT !.pc = pc, !.copy = parent].pc = pc
        BY <1>a DEF TaskStates
      <4>. QED BY <4>1, <4>2, StepTypes
    <3>3. [Slot EXCEPT !.pc = "sweep"].pc = "sweep" BY SlotType DEF TaskStates
    <3>. QED BY <3>1, <3>2, <3>3, SlotType, StepTypes
  <2>2. UNCHANGED <<parent, running, jobs, made, spent>>
    BY <1>10 DEF Synced, Sweep, Copied, CopyFails, Mutate
  <2>. QED BY <1>0, <2>1, <2>2, CallType
<1>11. ASSUME NEW t \in Tasks, ReadStopped(t) PROVE TypeInv'
  <2> DEFINE s == jobs[task[t].job].status
             read == [task[t] EXCEPT !.pc = "settle", !.op = s, !.copy = parent]
  <2>1. CASE Stops(s)
    <3>1. Become(t, read) BY <1>11, <2>1 DEF ReadStopped
    <3>2. s \in Stopped BY <2>1 DEF Stops
    <3> HIDE DEF s
    <3>3. read \in TaskStates /\ read.op \in Stopped BY <1>0, <1>a, <3>2 DEF TaskStates, PCs
    <3>4. UNCHANGED <<parent, running, jobs, made, spent>> BY <1>11 DEF ReadStopped
    <3> HIDE DEF read
    <3>. QED BY <1>0, <3>1, <3>3, <3>4, CallType
  <2>2. CASE ~Stops(s)
    <3>1. Become(t, Slot) /\ UNCHANGED <<parent, running, jobs, made, spent>>
      BY <1>11, <2>2 DEF ReadStopped
    <3>. QED BY <1>0, <3>1, SlotType, CallType
  <2>. QED BY <2>1, <2>2
\* Calls that store a list.
<1>12. ASSUME NEW t \in Tasks, Settle(t) PROVE TypeInv'
  <2> DEFINE new == [Copy(t).list EXCEPT ![task[t].child] = [status |-> task[t].op, job |-> task[t].job]]
             s == [task[t] EXCEPT !.pc = "sync", !.copy = Unread]
  <2>1. new \in Lists
    <3>1. task[t].op \in Stopped BY <1>12, <1>a DEF Settle, At
    <3>. QED BY <1>a, <3>1 DEF Lists, ChildStatuses, Settled, Satisfied, Halting, Stopped
  <2>2. Reconciled(new) \in Lists BY <2>1, ReconciledType
  <2>3. parent' \in Parents BY <1>0, <1>12, <2>2, StoreType DEF Settle
  <2>4. s \in TaskStates /\ s.pc = "sync"
    <3>1. "sync" \in PCs BY DEF PCs
    <3>2. s \in TaskStates BY <3>1, StepTypes
    <3>. QED BY <1>a, <3>2 DEF TaskStates
  <2>5. Become(t, s) /\ UNCHANGED <<running, jobs, made, spent>> BY <1>12 DEF Settle, GoOn
  <2> HIDE DEF s
  <2>. QED BY <1>0, <2>3, <2>4, <2>5, CallType
<1>13. ASSUME NEW t \in Tasks, Promote(t) PROVE TypeInv'
  <2> DEFINE new == Reconciled(Copy(t).list)
             s == [task[t] EXCEPT !.pc = "verdict", !.copy.list = new]
  <2>1. new \in Lists BY <1>a, ReconciledType
  <2>2. parent' \in Parents BY <1>0, <1>13, <2>1, StoreType DEF Promote
  <2>3. Become(t, s) /\ UNCHANGED <<running, jobs, made, spent>> BY <1>13 DEF Promote
  <2> HIDE DEF new
  <2>4. s \in TaskStates /\ s.pc = "verdict" BY <1>a, <2>1 DEF PCs, TaskStates, Parents, Copy
  <2> HIDE DEF s
  <2>. QED BY <1>0, <2>2, <2>3, <2>4, CallType
<1>14. ASSUME NEW t \in Tasks, Mark(t) \/ MarkFailed(t) PROVE TypeInv'
  <2> DEFINE s == [Slot EXCEPT !.pc = "dispatch", !.todo = task[t].todo]
  <2>1. PICK list \in Lists : StoreList(list)
    <3>1. [Copy(t).list EXCEPT ![task[t].child] = [status |-> "dispatched", job |-> task[t].job]] \in Lists
      BY <1>a DEF Lists, ChildStatuses
    <3>2. [Copy(t).list EXCEPT ![task[t].child].status = "failed"] \in Lists
      BY <1>a DEF Lists, ChildStatuses, Settled, Halting
    <3>. QED BY <1>14, <3>1, <3>2 DEF Mark, MarkFailed
  <2>2. jobs' \in [1 .. made -> JobStates] BY <1>0, <1>14, SetJobType DEF Mark, MarkFailed
  <2>3. Become(t, s) /\ UNCHANGED <<running, made, spent>> BY <1>14 DEF Mark, MarkFailed
  <2>4. s \in TaskStates /\ s.pc = "dispatch"
    BY <1>a, StepTypes, SlotType DEF TaskStates
  <2>5. parent' \in Parents BY <1>0, <2>1, StoreType
  <2> HIDE DEF s
  <2>. QED BY <1>0, <2>2, <2>3, <2>4, <2>5, CallType
<1>15. ASSUME NEW t \in Tasks, Apply(t) PROVE TypeInv'
  <2> DEFINE n == task[t].child
             new == [Copy(t).list EXCEPT ![n] = Changed(task[t].op, Copy(t).list[n])]
  <2>1. new \in Lists
    <3>1. Copy(t).list[n] \in Entries BY <1>a DEF Lists, Entries
    <3>2. Changed(task[t].op, Copy(t).list[n]) \in Entries BY <3>1, ChangedType
    <3>. QED BY <1>a, <3>2 DEF Lists, Entries
  <2>2. StoreList(Reconciled(new)) BY <1>15 DEF Apply
  <2>3. parent' \in Parents BY <1>0, <2>1, <2>2, ReconciledType, StoreType
  <2>4. PICK s \in TaskStates : Become(t, s) /\ s.pc # "settle"
    <3>1. Become(t, [task[t] EXCEPT !.pc = "rejob"]) \/ Become(t, [Slot EXCEPT !.pc = "sweep"])
      BY <1>15 DEF Apply, Go, SweepBy
    <3>2. [task[t] EXCEPT !.pc = "rejob"].pc = "rejob" /\ [Slot EXCEPT !.pc = "sweep"].pc = "sweep"
      BY <1>a, SlotType DEF TaskStates
    <3>3. "rejob" \in PCs BY DEF PCs
    <3>. QED BY <3>1, <3>2, <3>3, StepTypes
  <2>5. UNCHANGED <<running, jobs, made, spent>> BY <1>15 DEF Apply
  <2>. QED BY <1>0, <2>3, <2>4, <2>5, CallType
<1>16. ASSUME NEW t \in Tasks, Verdict(t) \/ Leave(t) PROVE TypeInv'
  <2>1. PICK s \in TaskStates : Become(t, s) /\ s.pc # "settle"
    <3>1. Become(t, Slot) \/ Become(t, [task[t] EXCEPT !.pc = "proceed"])
      BY <1>16 DEF Verdict, Leave, Done, Go
    <3>2. [task[t] EXCEPT !.pc = "proceed"].pc = "proceed" BY <1>a DEF TaskStates
    <3>3. "proceed" \in PCs BY DEF PCs
    <3>. QED BY <3>1, <3>2, <3>3, StepTypes, SlotType
  <2>2. parent' \in Parents /\ running' \in BOOLEAN
    BY <1>0, <1>16 DEF Verdict, Leave, Parents, Phases
  <2>3. UNCHANGED <<jobs, made, spent>> BY <1>16 DEF Verdict, Leave
  <2>. QED BY <1>0, <2>1, <2>2, <2>3, CallType
<1>17. ASSUME NEW t \in Tasks, Fill(t) \/ StartChild(t) PROVE TypeInv'
  <2>1. PICK s \in TaskStates : Become(t, s) /\ s.pc # "settle"
    <3>1. Become(t, Slot)
          \/ \E todo \in SUBSET Children : Become(t, [Slot EXCEPT !.pc = "dispatch", !.todo = todo])
      BY <1>17, <1>a DEF Fill, StartChild, With
    <3>2. \A todo \in SUBSET Children : [Slot EXCEPT !.pc = "dispatch", !.todo = todo].pc = "dispatch"
      BY SlotType DEF TaskStates
    <3>. QED BY <3>1, <3>2, StepTypes, SlotType
  <2>2. UNCHANGED <<parent, running, jobs, made, spent>> BY <1>17 DEF Fill, StartChild
  <2>. QED BY <1>0, <2>1, <2>2, CallType
<1>18. ASSUME NEW t \in Tasks, Dispatch(t) PROVE TypeInv'
  <2>1. CASE Done(t) /\ UNCHANGED <<jobs, made>>
    <3>1. Become(t, Slot) /\ UNCHANGED <<parent, running, jobs, made, spent>>
      BY <1>18, <2>1 DEF Dispatch, Done
    <3>. QED BY <1>0, <3>1, SlotType, CallType
  <2>2. ASSUME NEW n \in task[t].todo, made < MaxJobs, made' = made + 1,
               jobs' = [j \in 1 .. made + 1 |->
                           IF j \in 1 .. made THEN jobs[j]
                           ELSE [child |-> n, status |-> "made", run |-> FALSE]],
               Become(t, [task[t] EXCEPT !.pc = "copy", !.child = n, !.job = made + 1,
                                         !.todo = task[t].todo \ {n}])
        PROVE  TypeInv'
    <3> DEFINE s == [task[t] EXCEPT !.pc = "copy", !.child = n, !.job = made + 1,
                                    !.todo = task[t].todo \ {n}]
    <3>1. made' \in 0 .. MaxJobs /\ made + 1 \in Jobs /\ n \in Children
      BY <1>0, <1>a, <2>2 DEF Jobs
    <3>2. jobs' \in [1 .. made' -> JobStates]
      <4>1. [child |-> n, status |-> "made", run |-> FALSE] \in JobStates BY <3>1 DEF JobStates
      <4>2. \A j \in 1 .. made : jobs[j] \in JobStates BY <1>0
      <4>. QED BY <2>2, <4>1, <4>2
    <3>3. s \in TaskStates /\ s.pc = "copy" BY <1>a, <3>1 DEF TaskStates, PCs
    <3>4. Become(t, s) BY <2>2
    <3>5. UNCHANGED <<parent, running, spent>> BY <1>18 DEF Dispatch
    <3> HIDE DEF s
    <3>. QED BY <1>0, <3>1, <3>2, <3>3, <3>4, <3>5, CallType
  <2>. QED BY <1>18, <2>1, <2>2 DEF Dispatch
<1>19. ASSUME NEW t \in Tasks, Abandon(t) PROVE TypeInv'
  <2> DEFINE j == parent.list[task[t].child].job
  <2>1. PICK s \in TaskStates : Become(t, s) /\ s.pc # "settle"
    <3>1. Become(t, [Slot EXCEPT !.pc = "sweep"]) \/ Become(t, [task[t] EXCEPT !.pc = "mutate"])
      BY <1>19 DEF Abandon, SweepBy, Go
    <3>2. [task[t] EXCEPT !.pc = "mutate"].pc = "mutate" /\ [Slot EXCEPT !.pc = "sweep"].pc = "sweep"
      BY <1>a, SlotType DEF TaskStates
    <3>3. "mutate" \in PCs BY DEF PCs
    <3>. QED BY <3>1, <3>2, <3>3, StepTypes
  <2>2. jobs' \in [1 .. made -> JobStates]
    <3>1. j \in 1 .. made => jobs[j].run \in BOOLEAN BY <1>0 DEF JobStates
    <3>2. jobs' = jobs \/ SetJob(j, "cancelled", jobs[j].run) BY <1>19 DEF Abandon
    <3> HIDE DEF j
    <3>3. "cancelled" \in {"made", "running", "parked"} \cup Stopped BY DEF Stopped
    <3>. QED BY <1>0, <3>1, <3>2, <3>3, SetJobType
  <2>3. UNCHANGED <<parent, running, made, spent>> BY <1>19 DEF Abandon
  <2>. QED BY <1>0, <2>1, <2>2, <2>3, CallType
<1>20. ASSUME NEW t \in Tasks, ResumeChildJob(t) PROVE TypeInv'
  <2> DEFINE j == Copy(t).list[task[t].child].job
  <2>1. PICK s \in TaskStates : Become(t, s) /\ s.pc # "settle"
    <3>1. Become(t, [Slot EXCEPT !.pc = "sweep"]) \/ Become(t, Slot)
      BY <1>20 DEF ResumeChildJob, SweepBy, Done
    <3>2. [Slot EXCEPT !.pc = "sweep"].pc = "sweep" BY SlotType DEF TaskStates
    <3>. QED BY <3>1, <3>2, StepTypes, SlotType
  <2>2. jobs' \in [1 .. made -> JobStates]
    <3>1. jobs' = jobs \/ SetJob(j, "running", TRUE) BY <1>20 DEF ResumeChildJob
    <3> HIDE DEF j
    <3>. QED BY <1>0, <3>1, SetJobType
  <2>3. UNCHANGED <<parent, running, made, spent>> BY <1>20 DEF ResumeChildJob
  <2>. QED BY <1>0, <2>1, <2>2, <2>3, CallType
<1>. QED
  BY <1>1, <1>2, <1>3, <1>3a, <1>4, <1>5, <1>6, <1>7, <1>8, <1>9, <1>10, <1>11, <1>12,
     <1>13, <1>14, <1>15, <1>16, <1>17, <1>18, <1>19, <1>20
     DEF Next, CallStep

\* The variables keep their types.
THEOREM TypeCorrect == Spec => []TypeOK
<1>. QED BY InitType, TypeKept, PTL DEF Spec, TypeInv
-----------------------------------------------------------------------------
(* With the local state backend a call that holds a copy of the parent runs  *)
(* on until it has stored it: the copy is never stale.                       *)

Blocked(list) ==
    \A n \in With(list, "pending") : \E d \in Deps[n] : list[d].status \notin Satisfied

Copying == {"settle", "promote", "verdict", "mark", "lost", "apply"}
Informed(t) ==
    /\ task[t].pc \in Copying => Copy(t) = parent
    /\ task[t].pc = "verdict" => Blocked(parent.list)
    /\ task[t].pc = "proceed" => /\ Copy(t).list = parent.list /\ Copy(t).phase = parent.phase
                                 /\ ~HasHalted(parent.list) /\ Blocked(parent.list)

CampaignInv ==
    /\ TypeInv
    /\ PendingIsBlocked
    /\ \A t \in Tasks : Informed(t)

\* Reconciling satisfies no child, and leaves no pending one unblocked.
LEMMA ReconciledBlocks ==
    ASSUME NEW list \in Lists
    PROVE  /\ \A n \in Children : Reconciled(list)[n].status \in Satisfied
                                     <=> list[n].status \in Satisfied
           /\ Blocked(Reconciled(list))
<1>1. \A n \in Children : Reconciled(list)[n].status \in Satisfied
                             <=> list[n].status \in Satisfied
  BY ReconciledType DEF Satisfied
<1>2. \A n \in Children : Deps[n] \in SUBSET Children BY CampaignAssumption
<1>3. ASSUME NEW n \in With(Reconciled(list), "pending")
      PROVE  \E d \in Deps[n] : Reconciled(list)[d].status \notin Satisfied
  <2>1. n \in Children /\ Reconciled(list)[n].status = "pending" BY <1>3 DEF With
  <2>2. list[n].status = "pending" BY <2>1, ReconciledType
  <2>3. PICK d \in Deps[n] : list[d].status \notin Satisfied
    <3> SUFFICES ASSUME \A d \in Deps[n] : list[d].status \in Satisfied PROVE FALSE
      OBVIOUS
    <3>1. list[n] \in Entries BY <2>1 DEF Lists, Entries
    <3>2. Reconciled(list)[n] = [list[n] EXCEPT !.status = "ready"]
      BY <2>1, <2>2 DEF Reconciled
    <3>. QED BY <2>1, <3>1, <3>2 DEF Entries
  <2>. QED BY <1>1, <1>2, <2>1, <2>3
<1>. QED BY <1>1, <1>3 DEF Blocked

\* A child that stops being pending, or is no longer satisfied, unblocks none.
LEMMA BlockedStays ==
    ASSUME NEW list \in Lists, Blocked(list), NEW n \in Children, NEW e \in Entries,
           e.status # "pending", e.status \notin Satisfied
    PROVE  Blocked([list EXCEPT ![n] = e])
<1> DEFINE new == [list EXCEPT ![n] = e]
<1>1. new[n] = e /\ \A m \in Children \ {n} : new[m] = list[m] BY DEF Lists
<1>2. \A m \in Children : Deps[m] \in SUBSET Children BY CampaignAssumption
<1> HIDE DEF new
<1>3. Blocked(new) BY <1>1, <1>2 DEF Blocked, With
<1>. QED BY <1>3 DEF new

\* Whoever steps finds every other call at rest: only what the stepping call
\* knows afterwards has to be shown.
LEMMA Alone ==
    ASSUME Hybrid = FALSE, NEW t \in Tasks, MayStep(t),
           \A u \in Tasks \ {t} : task'[u] = task[u], Informed(t)'
    PROVE  \A u \in Tasks : Informed(u)'
<1>1. ASSUME NEW u \in Tasks \ {t} PROVE Informed(u)'
  <2>1. task'[u] = task[u] OBVIOUS
  <2>2. task[u].pc \in Resting BY DEF MayStep
  <2>. QED BY <2>1, <2>2 DEF Informed, Resting, Copying
<1>. QED BY <1>1

LEMMA AllRest ==
    ASSUME \A u \in Tasks : task'[u].pc \notin Copying \cup {"proceed"}
    PROVE  \A u \in Tasks : Informed(u)'
BY DEF Informed, Copying

LEMMA RestAndBecome ==
    ASSUME Hybrid = FALSE, CampaignInv, NEW t \in Tasks, NEW s, Become(t, s), Between,
           s.pc \notin Copying \cup {"proceed"}
    PROVE  \A u \in Tasks : Informed(u)'
<1>1. \A u \in Tasks : task[u].pc \in Resting BY DEF Between
<1>2. task'[t] = s /\ \A u \in Tasks \ {t} : task'[u] = task[u]
  BY DEF Become, CampaignInv, TypeInv, TypeOK
<1>3. \A u \in Tasks : task'[u].pc \notin Copying \cup {"proceed"}
  BY <1>1, <1>2 DEF Resting, Copying
<1>. QED BY <1>3, AllRest
\* What a call knows after its step.
LEMMA StepInforms ==
    ASSUME Hybrid = FALSE, CampaignInv, TypeOK', NEW t \in Tasks, CallStep(t)
    PROVE  \A u \in Tasks : Informed(u)'
<1>0. /\ task \in [Tasks -> TaskStates] /\ task[t] \in TaskStates /\ Informed(t)
      /\ parent \in Parents /\ Copy(t) \in Parents /\ Copy(t).list \in Lists
      /\ task' \in [Tasks -> TaskStates]
  BY DEF CampaignInv, TypeInv, TypeOK, TaskStates, Copy, Parents
<1>s. Slot.pc = "idle" /\ Slot \in TaskStates BY SlotType
<1>1. MayStep(t) /\ \A u \in Tasks \ {t} : task'[u] = task[u]
  <2>1. CASE ReadStopped(t) \/ Settle(t) \/ Synced(t)
    BY <1>0, <2>1 DEF ReadStopped, Settle, Synced, GoOn, SweepBy, At, Become
  <2>2. CASE Sweep(t) \/ Promote(t) \/ Verdict(t) \/ Leave(t)
    BY <1>0, <2>2 DEF Sweep, Promote, Verdict, Leave, Go, Done, Read, At, Become
  <2>3. CASE Fill(t) \/ Dispatch(t) \/ Copied(t) \/ CopyFails(t)
    BY <1>0, <2>3 DEF Fill, Dispatch, Copied, CopyFails, Done, Read, At, Become
  <2>4. CASE Mark(t) \/ MarkFailed(t) \/ StartChild(t) \/ Abandon(t)
    BY <1>0, <2>4 DEF Mark, MarkFailed, StartChild, Abandon, Go, SweepBy, At, Become
  <2>5. CASE Mutate(t) \/ Apply(t) \/ ResumeChildJob(t)
    BY <1>0, <2>5 DEF Mutate, Apply, ResumeChildJob, Go, Done, Read, SweepBy, At, Become
  <2>. QED BY <2>1, <2>2, <2>3, <2>4, <2>5 DEF CallStep
<1>2. SUFFICES Informed(t)' BY <1>1, Alone
<1>3. CASE ReadStopped(t) \/ Sweep(t) \/ Copied(t) \/ CopyFails(t) \/ Mutate(t)
  <2>1. UNCHANGED parent BY <1>3 DEF ReadStopped, Sweep, Copied, CopyFails, Mutate
  <2>2. \/ task'[t] = Slot
        \/ task'[t].copy = parent /\ task'[t].pc \notin {"verdict", "proceed"}
    <3>1. \/ task'[t] = Slot
          \/ task'[t] = [task[t] EXCEPT !.pc = "settle", !.op = jobs[task[t].job].status,
                                        !.copy = parent]
          \/ \E pc \in {"promote", "mark", "lost", "apply"} :
                task'[t] = [task[t] EXCEPT !.pc = pc, !.copy = parent]
      BY <1>0, <1>3 DEF ReadStopped, Sweep, Copied, CopyFails, Mutate, Done, Read, Become
    <3>. QED BY <1>0, <3>1 DEF TaskStates
  <2>. QED BY <1>s, <2>1, <2>2 DEF Informed, Copying, Copy
<1>4. CASE Promote(t)
  <2> DEFINE new == Reconciled(Copy(t).list)
  <2>1. Copy(t) = parent BY <1>0, <1>4 DEF Promote, At, Informed, Copying
  <2>2. task'[t] = [task[t] EXCEPT !.pc = "verdict", !.copy.list = new]
    BY <1>0, <1>4 DEF Promote, Become
  <2>3. parent' = [parent EXCEPT !.list = new]
    <3>1. CASE new = Copy(t).list
      BY <1>0, <1>4, <2>1, <3>1 DEF Promote, Parents
    <3>2. CASE new # Copy(t).list
      BY <1>4, <3>2 DEF Promote, StoreList
    <3>. QED BY <3>1, <3>2
  <2>4. Blocked(new) BY <1>0, ReconciledBlocks
  <2> HIDE DEF new
  <2>5. parent'.list = new BY <1>0, <2>3 DEF Parents
  <2>6. task'[t].pc = "verdict" /\ task'[t].copy = parent'
    BY <1>0, <2>1, <2>2, <2>3 DEF TaskStates, Copy
  <2>7. Blocked(parent'.list) BY <2>4, <2>5
  <2>. QED BY <2>6, <2>7 DEF Informed, Copying, Copy, Blocked, With
<1>5. CASE Verdict(t)
  <2>1. Copy(t) = parent BY <1>0, <1>5 DEF Verdict, At, Informed, Copying
  <2>2. CASE HasHalted(Copy(t).list)
    <3>1. task'[t] = Slot BY <1>0, <1>5, <2>2 DEF Verdict, Done, Become
    <3>. QED BY <1>s, <3>1 DEF Informed, Copying
  <2>3. CASE ~HasHalted(Copy(t).list)
    <3>1. task'[t] = [task[t] EXCEPT !.pc = "proceed"]
      BY <1>0, <1>5, <2>3 DEF Verdict, Go, Become
    <3>2. task'[t].pc = "proceed" /\ task'[t].copy = parent BY <1>0, <2>1, <3>1 DEF TaskStates, Copy
    <3>3. parent'.list = parent.list /\ parent'.phase = parent.phase
      BY <1>0, <1>5 DEF Verdict, Parents
    <3>4. Blocked(parent.list) BY <1>0, <1>5 DEF Verdict, At, Informed
    <3>. QED BY <2>1, <2>3, <3>2, <3>3, <3>4 DEF Informed, Copying, Copy, HasHalted, Blocked, With
  <2>. QED BY <2>2, <2>3
\* The other calls have stored their copy, or go on without one.
<1>6. CASE \/ Settle(t) \/ Synced(t) \/ Leave(t) \/ Fill(t) \/ Dispatch(t) \/ Mark(t)
           \/ MarkFailed(t) \/ StartChild(t) \/ Abandon(t) \/ Apply(t) \/ ResumeChildJob(t)
  <2>1. task'[t].pc \in {"idle", "sync", "sweep", "dispatch", "copy", "mutate", "rejob"}
    <3>1. \A pc \in {"sync", "mutate", "rejob", "copy"} : \A s \in TaskStates : [s EXCEPT !.pc = pc].pc = pc
      BY DEF TaskStates
    <3>2. [Slot EXCEPT !.pc = "sweep"].pc = "sweep" BY <1>s DEF TaskStates
    <3>3. CASE Settle(t) \/ Dispatch(t)
      <4>1. \/ task'[t] = Slot
            \/ task'[t] = [task[t] EXCEPT !.pc = "sync", !.copy = Unread]
            \/ \E n : task'[t] = [task[t] EXCEPT !.pc = "copy", !.child = n, !.job = made + 1,
                                               !.todo = task[t].todo \ {n}]
        BY <1>0, <3>3 DEF Settle, Dispatch, GoOn, Done, Become
      <4>. QED BY <1>0, <1>s, <4>1 DEF TaskStates
    <3>4. CASE Synced(t) \/ Leave(t) \/ ResumeChildJob(t)
      BY <1>0, <1>s, <3>2, <3>4 DEF Synced, Leave, ResumeChildJob, SweepBy, Done, Become
    <3>5. CASE Abandon(t) \/ Apply(t)
      BY <1>0, <3>1, <3>2, <3>5 DEF Abandon, Apply, SweepBy, Go, Become
    <3>6. CASE Fill(t) \/ Mark(t) \/ MarkFailed(t) \/ StartChild(t)
      <4>1. \/ task'[t] = Slot
            \/ \E todo : task'[t] = [Slot EXCEPT !.pc = "dispatch", !.todo = todo]
        BY <1>0, <3>6 DEF Fill, Mark, MarkFailed, StartChild, Become
      <4>. QED BY <1>s, <4>1 DEF TaskStates
    <3>. QED BY <1>6, <3>3, <3>4, <3>5, <3>6
  <2>. QED BY <2>1 DEF Informed, Copying
<1>. QED BY <1>3, <1>4, <1>5, <1>6 DEF CallStep
\* How the list of children may change: not at all, by a dispatch or its
\* failure, by a registration while the planner runs, or by a reconciliation
\* of a list in which no other child is ready.
Kept == parent'.list = parent.list
Marked == \E n \in Children, e \in Entries :
             /\ parent'.list = [parent.list EXCEPT ![n] = e]
             /\ e.status \in {"dispatched", "failed"}
Added == \E n \in Children :
            /\ parent'.list = [parent.list EXCEPT ![n].status = "pending"]
            /\ parent'.phase = "planning"
Renewed == \E list \in Lists :
              /\ parent'.list = Reconciled(list)
              /\ \A n \in Children : list[n].status = "ready" => parent.list[n].status = "ready"

LEMMA ListStep ==
    ASSUME Hybrid = FALSE, CampaignInv, [Next]_vars
    PROVE  Kept \/ Marked \/ Added \/ Renewed
<1>0. /\ task \in [Tasks -> TaskStates] /\ TypeOK /\ Unread \in Parents
      /\ parent \in Parents /\ parent.list \in Lists
  BY SlotType DEF CampaignInv, TypeInv, TypeOK, Parents
<1>a. \A t \in Tasks : /\ task[t] \in TaskStates /\ Informed(t) /\ Copy(t).list \in Lists
                       /\ task[t].child \in Children /\ task[t].job \in Jobs \cup {0}
                       /\ task[t].pc = "settle" => task[t].op \in Stopped
  BY <1>0 DEF TaskStates, Copy, CampaignInv, TypeInv, Parents
<1>1. ASSUME UNCHANGED parent PROVE Kept BY <1>1 DEF Kept
<1>2. CASE Answer \/ Remediate \/ CancelCampaign
  BY <1>0, <1>2 DEF Answer, Remediate, CancelCampaign, Kept, Parents
<1>3. ASSUME NEW t \in Tasks, PlannerEnds(t) \/ Continue(t) \/ Leave(t) \/ Verdict(t) PROVE Kept
  BY <1>0, <1>3 DEF PlannerEnds, Continue, Leave, Verdict, Kept, Parents
<1>5. ASSUME NEW n \in Children, Register(n) PROVE Added
  <2>1. parent' = [parent EXCEPT !.list = [parent.list EXCEPT ![n].status = "pending"]]
    BY <1>5 DEF Register, StoreList
  <2>2. parent.phase = "planning" BY <1>5 DEF Register, Planning
  <2>. QED BY <1>0, <2>1, <2>2 DEF Added, Parents
<1>6. ASSUME NEW t \in Tasks, Mark(t) \/ MarkFailed(t) PROVE Marked
  <2> DEFINE n == task[t].child
             e == IF Mark(t) THEN [status |-> "dispatched", job |-> task[t].job]
                             ELSE [parent.list[n] EXCEPT !.status = "failed"]
  <2>1. Copy(t) = parent BY <1>a, <1>6 DEF Mark, MarkFailed, At, Informed, Copying
  <2>2. e \in Entries /\ e.status \in {"dispatched", "failed"}
    <3>1. parent.list[n] \in Entries BY <1>0, <1>a DEF Lists, Entries
    <3>. QED BY <1>a, <3>1 DEF Entries, ChildStatuses, Settled, Halting
  <2>3. StoreList([parent.list EXCEPT ![n] = e])
    BY <1>6, <2>1 DEF Mark, MarkFailed
  <2> HIDE DEF e
  <2>4. parent'.list = [parent.list EXCEPT ![n] = e] BY <1>0, <2>3 DEF StoreList, Parents
  <2>5. n \in Children BY <1>a
  <2>. QED BY <2>2, <2>4, <2>5 DEF Marked
<1>7. CASE Finalize
  <2>1. parent'.list = Reconciled(parent.list)
    BY <1>0, <1>7, ReconciledType, StoreType DEF Finalize
  <2>. QED BY <1>0, <2>1, <1>7 DEF Renewed
<1>8. ASSUME NEW t \in Tasks, Promote(t) PROVE Kept \/ Renewed
  <2>1. Copy(t) = parent BY <1>a, <1>8 DEF Promote, At, Informed, Copying
  <2>2. UNCHANGED parent \/ StoreList(Reconciled(parent.list)) BY <1>8, <2>1 DEF Promote
  <2>3. CASE UNCHANGED parent BY <1>1, <2>3
  <2>4. CASE StoreList(Reconciled(parent.list))
    <3>1. parent'.list = Reconciled(parent.list) BY <1>0, <2>4 DEF StoreList, Parents
    <3>. QED BY <1>0, <3>1 DEF Renewed
  <2>. QED BY <2>2, <2>3, <2>4
<1>9. ASSUME NEW t \in Tasks, Settle(t) \/ Apply(t) PROVE Renewed
  <2> DEFINE n == task[t].child
             e == IF Settle(t) THEN [status |-> task[t].op, job |-> task[t].job]
                               ELSE Changed(task[t].op, parent.list[n])
             new == [parent.list EXCEPT ![n] = e]
  <2>1. Copy(t) = parent BY <1>a, <1>9 DEF Settle, Apply, At, Informed, Copying
  <2>2. parent.list[n] \in Entries /\ n \in Children BY <1>0, <1>a DEF Lists, Entries
  <2>3. e \in Entries /\ (e.status = "ready" => parent.list[n].status = "ready")
    <3>1. CASE Settle(t)
      <4>1. task[t].op \in Stopped BY <1>a, <3>1 DEF Settle, At
      <4>. QED BY <1>a, <3>1, <4>1 DEF Entries, ChildStatuses, Settled, Satisfied, Halting, Stopped
    <3>2. CASE ~Settle(t) BY <2>2, <3>2, ChangedType
    <3>. QED BY <3>1, <3>2
  <2>4. StoreList(Reconciled(new))
    <3>1. CASE Settle(t) BY <2>1, <3>1 DEF Settle
    <3>2. CASE ~Settle(t) BY <1>9, <2>1, <3>2 DEF Apply
    <3>. QED BY <3>1, <3>2
  <2> HIDE DEF e
  <2>5. /\ new \in Lists
        /\ \A m \in Children : new[m].status = "ready" => parent.list[m].status = "ready"
    BY <1>0, <2>2, <2>3 DEF Lists, Entries
  <2> HIDE DEF new
  <2>6. parent'.list = Reconciled(new) BY <1>0, <2>4 DEF StoreList, Parents
  <2>. QED BY <2>5, <2>6 DEF Renewed
<1>10. ASSUME NEW t \in Tasks, CallStep(t) PROVE Kept \/ Marked \/ Renewed
  <2>1. \/ UNCHANGED parent
        \/ Leave(t) \/ Verdict(t) \/ Mark(t) \/ MarkFailed(t) \/ Promote(t) \/ Settle(t) \/ Apply(t)
    BY <1>10 DEF CallStep, ReadStopped, Synced, Sweep, Fill, Dispatch, Copied, CopyFails,
       StartChild, Abandon, Mutate, ResumeChildJob
  <2>. QED BY <1>1, <1>3, <1>6, <1>8, <1>9, <2>1
<1>. QED
  BY <1>1, <1>2, <1>3, <1>5, <1>7, <1>10
     DEF Next, vars, JobStep, WakeJob, CancelJob, RunOverwritesCancel, RunEnds, Operate, Restart

LEMMA CampaignStart == Init => CampaignInv
<1> SUFFICES ASSUME Init PROVE CampaignInv
  OBVIOUS
<1>1. \A t \in Tasks : task[t].pc = "idle" BY SlotType DEF Init
<1>2. PendingIsBlocked BY DEF Init, Unread, PendingIsBlocked
<1>. QED BY <1>1, <1>2, InitType DEF CampaignInv, Informed, Copying

\* Only a restart is counted as one.
LEMMA RestartsKept ==
    ASSUME TypeOK, [Next]_vars, ~Restart
    PROVE  spent'.restarts = spent.restarts
<1>0. spent \in Spending BY DEF TypeOK
<1>1. \/ UNCHANGED spent
      \/ \E k : \/ spent' = [spent EXCEPT !.controls = k]
                \/ spent' = [spent EXCEPT !.rounds = k]
  <2>1. ASSUME NEW t \in Tasks, CallStep(t) PROVE UNCHANGED spent
    BY <2>1 DEF CallStep, ReadStopped, Settle, Synced, Sweep, Promote, Verdict, Leave, Fill,
       Dispatch, Copied, CopyFails, Mark, MarkFailed, StartChild, Abandon, Mutate, Apply,
       ResumeChildJob
  <2>. QED BY <2>1 DEF Next, vars, Finalize, PlannerEnds, Answer, Continue, RunEnds, Operate,
              Spend, Register, JobStep, WakeJob, CancelJob, RunOverwritesCancel, Remediate,
              CancelCampaign
<1>. QED BY <1>0, <1>1 DEF Spending

\* In coordination the list a step finds has no pending child that could go, or
\* the step sees to it: it reconciles the list, or a sweep is on its way.
LEMMA FoundBlocked ==
    ASSUME Hybrid = FALSE, CampaignInv, [Next]_vars,
           parent'.phase = "coordinating", spent'.restarts = 0, ~Promoting'
    PROVE  Blocked(parent.list) \/ Renewed
<1>0. /\ task \in [Tasks -> TaskStates] /\ TypeOK /\ spent \in Spending /\ parent \in Parents
      /\ parent.list \in Lists /\ Slot \in TaskStates
  BY SlotType DEF CampaignInv, TypeInv, TypeOK, Parents
<1>1. ~Restart BY <1>0 DEF Restart, Spending
<1>2. spent.restarts = 0 BY <1>0, <1>1, RestartsKept
<1>3. parent.phase = "coordinating" /\ ~Promoting => Blocked(parent.list)
  BY <1>2 DEF CampaignInv, PendingIsBlocked, Blocked
<1>4. Between => ~Promoting BY DEF Between, Promoting, Resting
<1>5. ASSUME NEW t \in Tasks, SweepBy(t) PROVE FALSE
  <2>1. task'[t].pc = "sweep" BY <1>0, <1>5 DEF SweepBy, Become, TaskStates
  <2>. QED BY <2>1 DEF Promoting
<1>6. ASSUME NEW t \in Tasks, CallStep(t) PROVE Blocked(parent.list) \/ Renewed
  <2>1. CASE Sweep(t)
    <3>1. CASE Registered(parent.list) = {}
      BY <3>1 DEF Blocked, With, Registered
    <3>2. CASE Registered(parent.list) # {}
      <4>1. task'[t].pc = "promote" BY <1>0, <2>1, <3>2 DEF Sweep, Read, Become, TaskStates
      <4>. QED BY <4>1 DEF Promoting
    <3>. QED BY <3>1, <3>2
  <2>2. CASE Promote(t)
    <3>1. Copy(t) = parent BY <2>2 DEF Promote, At, CampaignInv, Informed, Copying
    <3>2. parent'.list = Reconciled(parent.list)
      <4>1. CASE Reconciled(parent.list) = parent.list
        BY <2>2, <3>1, <4>1 DEF Promote
      <4>2. CASE Reconciled(parent.list) # parent.list
        BY <1>0, <2>2, <3>1, <4>2, ReconciledType, StoreType DEF Promote
      <4>. QED BY <4>1, <4>2
    <3>. QED BY <1>0, <3>2 DEF Renewed
  <2>3. CASE ~Sweep(t) /\ ~Promote(t)
    <3>1. MayStep(t) /\ task[t].pc \notin {"sweep", "promote"}
      BY <1>6, <2>3 DEF CallStep, ReadStopped, Settle, Synced, Verdict, Leave, Fill,
         Dispatch, Copied, CopyFails, Mark, MarkFailed, StartChild, Abandon, Mutate, Apply,
         ResumeChildJob, At
    <3>2. ~Promoting BY <3>1 DEF MayStep, Promoting, Resting
    <3>3. parent.phase = "coordinating"
      <4>1. parent'.phase = parent.phase \/ parent'.phase = "after"
        BY <1>0, <1>6 DEF CallStep, ReadStopped, Settle, Synced, Sweep, Promote, Verdict, Leave,
           Fill, Dispatch, Copied, CopyFails, Mark, MarkFailed, StartChild, Abandon, Mutate,
           Apply, ResumeChildJob, StoreList, Parents
      <4>. QED BY <4>1
    <3>. QED BY <1>3, <3>2, <3>3
  <2>. QED BY <2>1, <2>2, <2>3
<1>7. CASE \/ \E n \in Children : Register(n)
           \/ Finalize \/ Answer \/ Remediate
  BY <1>0, <1>7, StoreType, ReconciledType
     DEF Register, Finalize, Answer, Remediate, Planning, StoreList, Parents
<1>8. ASSUME NEW t \in Tasks, PlannerEnds(t) \/ Continue(t) PROVE FALSE
  BY <1>0, <1>5, <1>8 DEF PlannerEnds, Continue, Planning, Parents
<1>9. ASSUME Between, parent'.phase = parent.phase PROVE Blocked(parent.list)
  BY <1>3, <1>4, <1>9
<1>10. CASE CancelCampaign
  BY <1>0, <1>9, <1>10 DEF CancelCampaign, Parents
<1>11. ASSUME NEW t \in Tasks, NEW j \in Jobs, RunEnds(t, j) PROVE Blocked(parent.list)
  BY <1>9, <1>11 DEF RunEnds
<1>12. ASSUME NEW t \in Tasks, NEW op \in Operations, NEW n \in Children, Operate(t, op, n)
       PROVE  Blocked(parent.list)
  BY <1>9, <1>12 DEF Operate
<1>13. ASSUME NEW j \in Jobs, JobStep(j) PROVE Blocked(parent.list)
  BY <1>9, <1>13 DEF JobStep, WakeJob, CancelJob, RunOverwritesCancel
<1>14. CASE UNCHANGED vars
  BY <1>3, <1>14 DEF vars, Promoting
<1>. QED BY <1>1, <1>6, <1>7, <1>8, <1>10, <1>11, <1>12, <1>13, <1>14 DEF Next

LEMMA CampaignKept ==
    ASSUME Hybrid = FALSE, CampaignInv, [Next]_vars
    PROVE  CampaignInv'
<1>0. /\ parent.list \in Lists /\ TypeInv' /\ TypeOK' /\ TypeInv
      /\ task \in [Tasks -> TaskStates]
  BY TypeKept DEF CampaignInv, TypeInv, TypeOK, Parents
<1>1. PendingIsBlocked'
  <2> SUFFICES ASSUME parent'.phase = "coordinating", spent'.restarts = 0, ~Promoting'
               PROVE  Blocked(parent'.list)
    BY DEF PendingIsBlocked, Blocked, With
  <2>1. CASE Renewed BY <2>1, ReconciledBlocks DEF Renewed
  <2>2. CASE ~Renewed
    <3>1. Blocked(parent.list) BY <2>2, FoundBlocked
    <3>2. ~Added BY DEF Added
    <3>3. CASE Marked BY <1>0, <3>1, <3>3, BlockedStays DEF Marked, Satisfied
    <3>. QED BY <2>2, <3>1, <3>2, <3>3, ListStep DEF Kept
  <2>. QED BY <2>1, <2>2
<1>2. \A u \in Tasks : Informed(u)'
  <2>1. ASSUME NEW t \in Tasks, CallStep(t) PROVE \A u \in Tasks : Informed(u)'
    BY <1>0, <2>1, StepInforms
  \* Nothing but a call, or a restart, moves while a call is not at rest.
  <2>2. ASSUME Between, UNCHANGED task PROVE \A u \in Tasks : Informed(u)'
    <3>1. \A u \in Tasks : task'[u].pc \in Resting BY <2>2 DEF Between
    <3>. QED BY <3>1, AllRest DEF Resting, Copying
  <2>3. ASSUME NEW t \in Tasks, PlannerEnds(t) \/ Continue(t) PROVE \A u \in Tasks : Informed(u)'
    <3>1. Between /\ (UNCHANGED task \/ Become(t, [Slot EXCEPT !.pc = "sweep"]))
      BY <2>3 DEF PlannerEnds, Continue, SweepBy
    <3>2. [Slot EXCEPT !.pc = "sweep"].pc = "sweep" BY SlotType DEF TaskStates
    <3>. QED BY <2>2, <3>1, <3>2, RestAndBecome DEF Copying
  <2>4. ASSUME NEW t \in Tasks, NEW j \in Jobs, RunEnds(t, j)
        PROVE  \A u \in Tasks : Informed(u)'
    <3>1. Between /\ (\/ UNCHANGED task
                      \/ Become(t, [Slot EXCEPT !.pc = "stopped", !.op = "none",
                                                !.child = jobs[j].child, !.job = j]))
      BY <2>4 DEF RunEnds, Start
    <3>2. [Slot EXCEPT !.pc = "stopped", !.op = "none", !.child = jobs[j].child, !.job = j].pc = "stopped"
      BY SlotType DEF TaskStates
    <3>. QED BY <2>2, <3>1, <3>2, RestAndBecome DEF Copying
  <2>5. ASSUME NEW t \in Tasks, NEW op \in Operations, NEW n \in Children, Operate(t, op, n)
        PROVE  \A u \in Tasks : Informed(u)'
    <3> DEFINE s == [Slot EXCEPT !.pc = First(op), !.op = op, !.child = n, !.job = 0]
    <3>1. Between /\ Become(t, s) BY <2>5 DEF Operate, Start
    <3>2. First(op) \in {"abandon", "start", "mutate"} BY DEF First
    <3>3. s.pc = First(op) BY SlotType DEF TaskStates
    <3> HIDE DEF s
    <3>. QED BY <3>1, <3>2, <3>3, RestAndBecome DEF Copying
  <2>6. CASE Restart
    <3>1. \A u \in Tasks : task'[u].pc = "idle" BY <2>6, SlotType DEF Restart
    <3>. QED BY <3>1, AllRest DEF Copying
  <2>7. CASE Finalize \/ Answer \/ Remediate \/ CancelCampaign
    BY <2>2, <2>7 DEF Finalize, Answer, Remediate, CancelCampaign
  <2>8. ASSUME NEW n \in Children, Register(n) PROVE \A u \in Tasks : Informed(u)'
    BY <2>2, <2>8 DEF Register
  <2>9. ASSUME NEW j \in Jobs, JobStep(j) PROVE \A u \in Tasks : Informed(u)'
    BY <2>2, <2>9 DEF JobStep, WakeJob, CancelJob, RunOverwritesCancel
  <2>10. CASE UNCHANGED vars
    <3>1. UNCHANGED <<parent, task>> BY <2>10 DEF vars
    <3>2. \A u \in Tasks : Informed(u) BY DEF CampaignInv
    <3>. QED BY <3>1, <3>2 DEF Informed, Copy, Blocked, With, HasHalted
  <2>. QED BY <2>1, <2>3, <2>4, <2>5, <2>6, <2>7, <2>8, <2>9, <2>10 DEF Next
<1>. QED BY <1>0, <1>1, <1>2 DEF CampaignInv

\* With the local state backend a child whose dependencies are met is never
\* left pending in coordination, whatever list the planner left: a sweep of the
\* campaign is on its way, every write of the list that can meet a dependency
\* reconciles it, and no write is made from a stale copy.
THEOREM PendingChildrenAreBlocked ==
    ASSUME Hybrid = FALSE
    PROVE  Spec => []PendingIsBlocked
<1>1. CampaignInv /\ [Next]_vars => CampaignInv' BY CampaignKept
<1>2. CampaignInv => PendingIsBlocked
  BY DEF CampaignInv
<1>. QED BY <1>1, <1>2, CampaignStart, PTL DEF Spec

\* With the local state backend a child becomes ready only when all it depends
\* on is satisfied: a reconciliation makes it so, and nothing else.
THEOREM ReadyChildrenEarnedIt ==
    ASSUME Hybrid = FALSE
    PROVE  Spec => ReadyIsEarned
<1> DEFINE Earned == \A n \in Children :
                        parent.list[n].status # "ready" /\ parent'.list[n].status = "ready"
                           => \A d \in Deps[n] : parent'.list[d].status \in Satisfied
<1>1. ASSUME CampaignInv, [Next]_vars PROVE Earned
  <2> SUFFICES ASSUME NEW n \in Children, parent.list[n].status # "ready",
                      parent'.list[n].status = "ready"
               PROVE  \A d \in Deps[n] : parent'.list[d].status \in Satisfied
    OBVIOUS
  <2>0. parent.list \in Lists /\ Deps[n] \in SUBSET Children
    BY <1>1, CampaignAssumption DEF CampaignInv, TypeInv, TypeOK, Parents
  <2>1. PICK list \in Lists :
           /\ parent'.list = Reconciled(list)
           /\ \A m \in Children : list[m].status = "ready" => parent.list[m].status = "ready"
    <3>1. ~Kept BY DEF Kept
    <3>2. ~Marked /\ ~Added BY <2>0 DEF Marked, Added, Lists
    <3>. QED BY <1>1, <3>1, <3>2, ListStep DEF Renewed
  <2>2. \A d \in Deps[n] : list[d].status \in Satisfied BY <2>1, ReconciledType
  <2>. QED BY <2>0, <2>1, <2>2, ReconciledBlocks
<1>2. CampaignInv /\ [Next]_vars => [Earned]_vars
  BY <1>1
<1>3. CampaignInv /\ [Next]_vars => CampaignInv' BY CampaignKept
<1>. QED BY <1>2, <1>3, CampaignStart, PTL DEF Spec, ReadyIsEarned

\* With the local state backend the parent leaves coordination only with every
\* child done or given up: the sweep that resumes it read the list that is
\* still stored.
THEOREM CampaignEndsSettled ==
    ASSUME Hybrid = FALSE
    PROVE  Spec => CoordinationEndsSettled
<1> DEFINE Ends == parent.phase = "coordinating" /\ parent'.phase = "after"
                      => \A n \in Registered(parent.list) : parent.list[n].status \in Satisfied
<1>1. ASSUME CampaignInv, [Next]_vars, parent.phase = "coordinating", parent'.phase = "after"
      PROVE  \A n \in Registered(parent.list) : parent.list[n].status \in Satisfied
  <2>0. parent \in Parents BY <1>1 DEF CampaignInv, TypeInv, TypeOK
  <2>1. PICK t \in Tasks : Leave(t)
    <3>1. ASSUME NEW t \in Tasks, CallStep(t), ~Leave(t) PROVE FALSE
      <4>1. parent'.phase = parent.phase
        BY <2>0, <3>1 DEF CallStep, ReadStopped, Settle, Synced, Sweep, Promote, Verdict, Fill,
           Dispatch, Copied, CopyFails, Mark, MarkFailed, StartChild, Abandon, Mutate, Apply,
           ResumeChildJob, StoreList, Parents
      <4>. QED BY <1>1, <4>1
    <3>2. ~UNCHANGED parent BY <1>1
    <3>3. ~Finalize /\ ~Answer /\ \A t \in Tasks : ~PlannerEnds(t)
      BY <1>1 DEF Finalize, Answer, PlannerEnds, Planning
    <3>4. \A t \in Tasks : ~Continue(t) BY <1>1, <2>0 DEF Continue, Parents
    <3>5. ~Remediate /\ ~CancelCampaign /\ \A n \in Children : ~Register(n)
      BY <1>1, <2>0 DEF Remediate, CancelCampaign, Register, Planning, Parents
    <3>. QED BY <1>1, <3>1, <3>2, <3>3, <3>4, <3>5
             DEF Next, vars, JobStep, WakeJob, CancelJob, RunOverwritesCancel, RunEnds, Operate,
                 Restart
  <2>2. Copy(t).list = parent.list /\ ~HasHalted(parent.list) /\ AllSettled(parent.list)
    BY <1>1, <2>1 DEF Leave, At, CampaignInv, Informed
  <2>. QED BY <2>2 DEF AllSettled, HasHalted, Registered, Settled
<1>2. CampaignInv /\ [Next]_vars => [Ends]_vars
  BY <1>1
<1>3. CampaignInv /\ [Next]_vars => CampaignInv' BY CampaignKept
<1>. QED BY <1>2, <1>3, CampaignStart, PTL DEF Spec, CoordinationEndsSettled

-----------------------------------------------------------------------------
(* Why a waiting parent has something to wait for.  A developer's cancel of  *)
(* a child's job, and a context copy that fails, are left out: nothing tells *)
(* the parent of them.                                                       *)

Untroubled ==
    /\ Hybrid = FALSE
    /\ "copy" \notin Mishaps /\ "cancel-job" \notin Controls

Entry(n) == parent.list[n]
Names == Registered(parent.list)

Rested == parent.phase = "coordinating" => ~running

\* What a call in flight relies on.
GoesOn(j) == jobs[j].run \/ jobs[j].status \notin {"complete", "cancelled"}
Knows(t) ==
    /\ task[t].pc # "lost"
    /\ task[t].todo \subseteq Names
    /\ task[t].pc \in {"stopped", "settle", "copy", "mark", "abandon", "mutate", "apply", "rejob", "start"}
          => task[t].child \in Names
    /\ task[t].pc \in {"stopped", "settle", "copy", "mark"}
          => task[t].job \in 1 .. made /\ jobs[task[t].job].child = task[t].child
    /\ task[t].pc = "abandon" => task[t].op = "abandon"
    /\ task[t].pc = "stopped" => Stops(jobs[task[t].job].status)
    /\ task[t].pc = "settle" => task[t].op = jobs[task[t].job].status
    /\ task[t].pc = "apply" => ~Refused(task[t].op, Entry(task[t].child))
    /\ task[t].pc = "rejob" => /\ Entry(task[t].child).status = "dispatched"
                               /\ Entry(task[t].child).job = Copy(t).list[task[t].child].job
                               /\ GoesOn(Entry(task[t].child).job)

\* The job of an entry is one of that child, and a dispatched child's job can
\* still report; while a call brings the entry up to date it need not.
Linked(n) ==
    /\ Entry(n).job # 0 => Entry(n).job \in 1 .. made /\ jobs[Entry(n).job].child = n
    /\ Entry(n).status = "dispatched" => Entry(n).job # 0
Fit(n) ==
    /\ Entry(n).status = "dispatched"
          => jobs[Entry(n).job].run \/ jobs[Entry(n).job].status = "parked"
    /\ Entry(n).status \in Halting /\ Entry(n).job # 0 => GoesOn(Entry(n).job)
Mends(t, n) ==
    /\ task[t].child = n
    /\ \/ task[t].pc \in {"stopped", "settle", "rejob"}
       \/ (task[t].pc \in {"mutate", "apply"} /\ task[t].op = "abandon")

\* The parent waits for a child, or a call will look at the campaign again.
Reason == \E j \in 1 .. made : /\ jobs[j].run \/ jobs[j].status = "parked"
                               /\ Entry(jobs[j].child).status = "dispatched"
Owes(t) ==
    \/ task[t].pc \in {"stopped", "settle", "sync", "sweep", "promote", "verdict", "proceed",
                       "copy", "mark", "apply", "rejob"}
    \/ task[t].pc = "dispatch" /\ task[t].todo # {}
    \/ task[t].pc = "mutate" /\ ~Refused(task[t].op, Entry(task[t].child))
Waits == parent.phase = "coordinating" /\ parent.status = "children" /\ Sound(parent.list)
Owed == Waits => Reason \/ \E t \in Tasks : Owes(t)

InOrder ==
    /\ Rested /\ Owed
    /\ \A j \in 1 .. made : jobs[j].child \in Names
    /\ \A t \in Tasks : Knows(t)
    /\ \A n \in Children : Linked(n) /\ (Fit(n) \/ \E t \in Tasks : Mends(t, n))
WaitInv == spent.restarts = 0 => InOrder

\* A step that concerns no child but c.
Frame(c) ==
    /\ Names \subseteq Names'
    /\ made' \in Nat /\ made <= made'
    /\ \A j \in 1 .. made : /\ jobs'[j].child = jobs[j].child
                            /\ jobs[j].child # c => jobs'[j] = jobs[j]
    /\ \A j \in 1 .. made' : jobs'[j].child \in Names'
    /\ \A n \in Children \ {c} :
          /\ parent'.list[n].job = parent.list[n].job
          /\ \/ parent'.list[n].status = parent.list[n].status
             \/ parent'.list[n].status \in {"pending", "ready"}
Steady(u) == task'[u] = task[u] /\ task[u].pc \in Resting

LEMMA SoundStays ==
    ASSUME Names' = Names
    PROVE  Sound(parent.list)' <=> Sound(parent.list)
BY DEF Names, Sound, Registered, Dangling, Cyclic

LEMMA InOrderKept ==
    ASSUME TypeOK, TypeOK', InOrder, NEW c \in Children, Frame(c), Rested', Owed',
           \A u \in Tasks : Steady(u) \/ Knows(u)',
           \A u \in Tasks : \A n \in Children \ {c} : ~Mends(u, n),
           Linked(c)', Fit(c)' \/ \E u \in Tasks : Mends(u, c)'
    PROVE  InOrder'
<1>0. /\ made \in Nat /\ made' \in Nat /\ 0 \notin 1 .. made
      /\ \A n \in Children : Entry(n) \in Entries
  BY CampaignAssumption DEF TypeOK, Parents, Lists, Entries, Entry
<1>1. (\A j \in 1 .. made : jobs[j].child \in Names)' BY DEF Frame
<1>2. ASSUME NEW u \in Tasks PROVE Knows(u)'
  <2>1. CASE Steady(u)
    <3>1. Knows(u) BY DEF InOrder
    <3>2. \A j \in 1 .. made : j \in 1 .. made' /\ jobs'[j].child = jobs[j].child
      BY <1>0 DEF Frame
    <3>3. Names \subseteq Names' BY DEF Frame
    <3>. QED BY <2>1, <3>1, <3>2, <3>3 DEF Steady, Resting, Knows
  <2>. QED BY <2>1
<1>3. ASSUME NEW n \in Children, n # c PROVE Linked(n)' /\ Fit(n)'
  <2>1. Linked(n) /\ Fit(n) BY <1>3 DEF InOrder
  <2>2. parent'.list[n].job = parent.list[n].job
        /\ (\/ parent'.list[n].status = parent.list[n].status
            \/ parent'.list[n].status \in {"pending", "ready"})
    BY <1>3 DEF Frame
  <2>3. Linked(n)'
    BY <1>0, <1>3, <2>1, <2>2 DEF Linked, Entry, Frame
  <2>4. Entry(n).job # 0 => jobs'[Entry(n).job] = jobs[Entry(n).job]
    BY <1>0, <1>3, <2>1 DEF Linked, Frame
  <2>5. Fit(n)' BY <1>3, <2>1, <2>2, <2>4 DEF Fit, Linked, Entry, GoesOn, Halting
  <2>. QED BY <2>3, <2>5
<1>. QED BY <1>1, <1>2, <1>3 DEF InOrder

\* A call steps alone, so that what it leaves in order is in order.
LEMMA CallKeeps ==
    ASSUME Untroubled, TypeOK, TypeOK', InOrder, NEW t \in Tasks, MayStep(t),
           \A u \in Tasks \ {t} : task'[u] = task[u],
           parent'.phase = parent.phase, UNCHANGED running, Names' = Names,
           NEW c \in Children, task[t].child = c, Frame(c), Knows(t)',
           Linked(c)', Fit(c)' \/ Mends(t, c)',
           \/ Owes(t)' \/ Reason' \/ ~Waits'
           \/ (~Owes(t) /\ (Reason => Reason') /\ parent'.status = parent.status)
    PROVE  InOrder'
<1>2. \A u \in Tasks \ {t} : Steady(u) BY DEF Untroubled, MayStep, Steady
<1>3. \A u \in Tasks : \A n \in Children \ {c} : ~Mends(u, n)
  BY <1>2 DEF Mends, Steady, Resting
<1>4. Rested' BY DEF InOrder, Rested
<1>5. ASSUME NEW u \in Tasks \ {t}, Owes(u) PROVE Owes(u)'
  BY <1>2, <1>5 DEF Owes, Steady, Resting
<1>6. Owed'
  <2>1. CASE Owes(t)' \/ Reason' \/ ~Waits' BY <2>1 DEF Owed
  <2>2. CASE ~Owes(t) /\ (Reason => Reason') /\ parent'.status = parent.status
    <3>1. Waits' => Reason \/ \E u \in Tasks \ {t} : Owes(u)
      BY <2>2, SoundStays DEF Waits, Owed, InOrder
    <3>. QED BY <1>5, <2>2, <3>1 DEF Owed
  <2>. QED BY <2>1, <2>2
<1>7. \A u \in Tasks : Steady(u) \/ Knows(u)' BY <1>2
<1>8. Fit(c)' \/ \E u \in Tasks : Mends(u, c)' OBVIOUS
<1>. QED BY <1>3, <1>4, <1>6, <1>7, <1>8, InOrderKept

\* A call that changes neither the list nor a job.
LEMMA LookKeeps ==
    ASSUME Untroubled, TypeOK, TypeOK', InOrder, NEW t \in Tasks, MayStep(t),
           \A u \in Tasks \ {t} : task'[u] = task[u],
           parent'.phase = parent.phase, parent'.list = parent.list,
           UNCHANGED <<running, jobs, made>>, Knows(t)',
           NEW c \in Children, task[t].child = c,
           Mends(t, c) => Fit(c) \/ Mends(t, c)',
           \/ Owes(t)' \/ ~Waits' \/ Reason
           \/ (~Owes(t) /\ parent'.status = parent.status)
    PROVE  InOrder'
<1>1. made \in Nat BY CampaignAssumption DEF TypeOK
<1>2. Names' = Names BY DEF Names, Registered
<1>3. Frame(c) BY <1>1, <1>2 DEF Frame, InOrder
<1>4. \A u \in Tasks \ {t} : ~Mends(u, c)
  BY DEF Untroubled, MayStep, Mends, Resting
<1>5. Linked(c) /\ (Fit(c) \/ Mends(t, c)) BY <1>4 DEF InOrder
<1>6. Linked(c)' BY <1>5 DEF Linked, Entry
<1>7. Fit(c) => Fit(c)' BY DEF Fit, Entry, GoesOn
<1>8. Reason => Reason' BY DEF Reason, Entry
<1>9. Fit(c)' \/ Mends(t, c)' BY <1>5, <1>7
<1>. QED BY <1>2, <1>3, <1>6, <1>8, <1>9, CallKeeps

LEMMA ReadsKeep ==
    ASSUME Untroubled, CampaignInv, TypeOK', InOrder, NEW t \in Tasks,
           ReadStopped(t) \/ Synced(t) \/ Sweep(t) \/ Copied(t) \/ Mutate(t) \/ StartChild(t)
    PROVE  InOrder'
<1> SUFFICES ASSUME NEW c \in Children, task[t].child = c PROVE InOrder'
  BY DEF CampaignInv, TypeInv, TypeOK, TaskStates
<1>0. /\ task \in [Tasks -> TaskStates] /\ task[t] \in TaskStates /\ TypeOK
      /\ Slot \in TaskStates /\ Slot.pc = "idle" /\ Slot.todo = {}
  BY SlotType DEF CampaignInv, TypeInv, TypeOK, Slot
<1>1. /\ MayStep(t) /\ UNCHANGED <<parent, running, jobs, made, spent>>
      /\ \A u \in Tasks \ {t} : task'[u] = task[u]
  BY <1>0 DEF ReadStopped, Synced, Sweep, Copied, Mutate, StartChild, At, Become, Done, Read, SweepBy
<1>2. Knows(t) BY DEF InOrder
<1>3. ASSUME task'[t] = Slot PROVE Knows(t)'
  BY <1>0, <1>3 DEF Knows
<1>4. ASSUME task'[t] = [Slot EXCEPT !.pc = "sweep"] PROVE Knows(t)' /\ Owes(t)'
  <2>1. task'[t].pc = "sweep" /\ task'[t].todo = {} BY <1>0, <1>4 DEF TaskStates
  <2>. QED BY <2>1 DEF Knows, Owes
<1>5. CASE ReadStopped(t)
  <2>1. /\ task[t].pc = "stopped" /\ Stops(jobs[task[t].job].status)
        /\ task'[t] = [task[t] EXCEPT !.pc = "settle", !.op = jobs[task[t].job].status,
                                      !.copy = parent]
    BY <1>0, <1>2, <1>5 DEF ReadStopped, At, Become, Knows
  <2>2. /\ task'[t].pc = "settle" /\ task'[t].op = jobs[task[t].job].status
        /\ task'[t].child = c /\ task'[t].job = task[t].job /\ task'[t].todo = task[t].todo
    BY <1>0, <2>1 DEF TaskStates
  <2>3. Knows(t)' BY <1>1, <1>2, <2>1, <2>2 DEF Knows, Names, Registered
  <2>4. Owes(t)' /\ Mends(t, c)' BY <2>2 DEF Owes, Mends
  <2>. QED BY <1>0, <1>1, <2>2, <2>3, <2>4, LookKeeps
<1>6. CASE Synced(t)
  <2>1. task'[t] = [Slot EXCEPT !.pc = "sweep"] /\ task[t].pc = "sync"
    BY <1>0, <1>6 DEF Synced, SweepBy, At, Become
  <2>2. ~Mends(t, c) BY <2>1 DEF Mends
  <2>. QED BY <1>0, <1>1, <1>4, <2>1, <2>2, LookKeeps
<1>7. CASE Sweep(t)
  <2>1. task[t].pc = "sweep" BY <1>7 DEF Sweep, At
  <2>2. ~Mends(t, c) BY <2>1 DEF Mends
  <2>3. CASE Names = {}
    <3>1. task'[t] = Slot BY <1>0, <1>7, <2>3 DEF Sweep, Done, Become, Names
    <3>2. ~Waits' BY <1>1, <2>3, SoundStays DEF Waits, Sound, Names, Registered
    <3>. QED BY <1>0, <1>1, <1>3, <2>2, <3>1, <3>2, LookKeeps
  <2>4. CASE Names # {}
    <3>1. task'[t] = [task[t] EXCEPT !.pc = "promote", !.copy = parent]
      BY <1>0, <1>7, <2>4 DEF Sweep, Read, Become, Names
    <3>2. task'[t].pc = "promote" /\ task'[t].todo = task[t].todo BY <1>0, <3>1 DEF TaskStates
    <3>3. Knows(t)' /\ Owes(t)' BY <1>1, <1>2, <3>2 DEF Knows, Owes, Names, Registered
    <3>. QED BY <1>0, <1>1, <2>2, <3>3, LookKeeps
  <2>. QED BY <2>3, <2>4
<1>8. CASE Copied(t)
  <2>1. task'[t] = [task[t] EXCEPT !.pc = "mark", !.copy = parent] /\ task[t].pc = "copy"
    BY <1>0, <1>8 DEF Copied, Read, Become, At
  <2>2. /\ task'[t].pc = "mark" /\ task'[t].todo = task[t].todo /\ task'[t].child = c
        /\ task'[t].job = task[t].job
    BY <1>0, <2>1 DEF TaskStates
  <2>3. Knows(t)' /\ Owes(t)' BY <1>1, <1>2, <2>1, <2>2 DEF Knows, Owes, Names, Registered
  <2>4. ~Mends(t, c) BY <2>1 DEF Mends
  <2>. QED BY <1>0, <1>1, <2>3, <2>4, LookKeeps
<1>9. CASE Mutate(t)
  <2>1. task[t].pc = "mutate" BY <1>9 DEF Mutate, At
  <2>2. CASE Refused(task[t].op, Entry(c))
    <3>1. task'[t] = Slot BY <1>0, <1>9, <2>2 DEF Mutate, Done, Become, Entry
    <3>2. ~Owes(t) BY <2>1, <2>2 DEF Owes
    <3>3. Mends(t, c) => Fit(c)
      BY <2>1, <2>2 DEF Mends, Refused, Fit, Satisfied, Halting
    <3>. QED BY <1>0, <1>1, <1>3, <3>1, <3>2, <3>3, LookKeeps
  <2>3. CASE ~Refused(task[t].op, Entry(c))
    <3>1. task'[t] = [task[t] EXCEPT !.pc = "apply", !.copy = parent]
      BY <1>0, <1>9, <2>3 DEF Mutate, Read, Become, Entry
    <3>2. /\ task'[t].pc = "apply" /\ task'[t].todo = task[t].todo /\ task'[t].child = c
          /\ task'[t].op = task[t].op
      BY <1>0, <3>1 DEF TaskStates
    <3>3. ~Refused(task'[t].op, Entry(c)') BY <1>1, <2>3, <3>2 DEF Entry
    <3>4. Knows(t)' /\ Owes(t)' BY <1>1, <1>2, <2>1, <3>2, <3>3 DEF Knows, Owes, Names, Registered, Entry
    <3>5. Mends(t, c) => Mends(t, c)' BY <2>1, <3>2 DEF Mends
    <3>. QED BY <1>0, <1>1, <3>2, <3>4, <3>5, LookKeeps
  <2>. QED BY <2>2, <2>3
<1>10. CASE StartChild(t)
  <2>1. task[t].pc = "start" BY <1>10 DEF StartChild, At
  <2>2. ~Mends(t, c) /\ ~Owes(t) BY <2>1 DEF Mends, Owes
  <2>3. Knows(t)'
    <3>1. \/ task'[t] = Slot
          \/ task'[t] = [Slot EXCEPT !.pc = "dispatch", !.todo = {c}]
      BY <1>0, <1>10 DEF StartChild, Become
    <3>2. CASE task'[t] = [Slot EXCEPT !.pc = "dispatch", !.todo = {c}]
      <4>1. task'[t].pc = "dispatch" /\ task'[t].todo = {c} BY <1>0, <3>2 DEF TaskStates
      <4>2. c \in Names BY <1>2, <2>1 DEF Knows
      <4>. QED BY <1>1, <4>1, <4>2 DEF Knows, Names, Registered
    <3>. QED BY <1>3, <3>1, <3>2
  <2>. QED BY <1>0, <1>1, <2>2, <2>3, LookKeeps
<1>. QED BY <1>5, <1>6, <1>7, <1>8, <1>9, <1>10

\* A plan that can be carried out, with no child out and none halted, is
\* settled or has a child to dispatch: a pending child waits for another one.
LEMMA SomethingIsOut ==
    ASSUME CampaignInv, Sound(parent.list), Blocked(parent.list), ~HasHalted(parent.list),
           ~AllSettled(parent.list), With(parent.list, "ready") = {}
    PROVE  With(parent.list, "dispatched") # {}
<1> DEFINE C == With(parent.list, "pending")
<1>2. ~Dangling(Names) /\ ~Cyclic(Names) BY DEF Sound, Names
<1>3. \A n \in Children : parent.list[n].status \in ChildStatuses /\ Deps[n] \in SUBSET Children
  BY CampaignAssumption DEF CampaignInv, TypeInv, TypeOK, Parents, Lists
<1> SUFFICES ASSUME With(parent.list, "dispatched") = {} PROVE FALSE
  OBVIOUS
<1>4. \A n \in Names : parent.list[n].status \in Satisfied \/ n \in C
  BY <1>3 DEF Names, Registered, HasHalted, With, ChildStatuses, Settled
<1>5. C \subseteq Names BY DEF With, Names, Registered
<1>6. C # {}
  BY <1>4 DEF AllSettled, Names, Settled
<1>7. ASSUME NEW n \in C PROVE Deps[n] \cap C # {}
  <2>1. PICK d \in Deps[n] : parent.list[d].status \notin Satisfied BY DEF Blocked
  <2>2. d \in Names BY <1>2, <1>5 DEF Dangling
  <2>. QED BY <1>4, <2>1, <2>2
<1>. QED BY <1>2, <1>5, <1>6, <1>7 DEF Cyclic

LEMMA DispatchedIsReason ==
    ASSUME TypeOK, InOrder, NEW n \in With(parent.list, "dispatched"), Fit(n)
    PROVE  Reason
<1>1. n \in Children /\ Entry(n).status = "dispatched" BY DEF With, Entry
<1>2. Entry(n).job \in 1 .. made /\ jobs[Entry(n).job].child = n
  BY <1>1 DEF InOrder, Linked
<1>. QED BY <1>1, <1>2 DEF Reason, Fit

LEMMA DecisionsKeep ==
    ASSUME Untroubled, CampaignInv, TypeOK', InOrder, NEW t \in Tasks,
           Verdict(t) \/ Leave(t) \/ Fill(t)
    PROVE  InOrder'
<1> SUFFICES ASSUME NEW c \in Children, task[t].child = c PROVE InOrder'
  BY DEF CampaignInv, TypeInv, TypeOK, TaskStates
<1>0. /\ task \in [Tasks -> TaskStates] /\ task[t] \in TaskStates /\ TypeOK
      /\ Slot \in TaskStates /\ Slot.pc = "idle" /\ Slot.todo = {} /\ parent \in Parents
  BY SlotType DEF CampaignInv, TypeInv, TypeOK, Slot
<1>1. /\ MayStep(t) /\ UNCHANGED <<jobs, made, spent>>
      /\ \A u \in Tasks \ {t} : task'[u] = task[u]
  BY <1>0 DEF Verdict, Leave, Fill, At, Become, Done, Go
<1>2. Knows(t) /\ Informed(t) BY DEF InOrder, CampaignInv
<1>3. /\ task[t].pc \in {"verdict", "proceed"}
      /\ ~Mends(t, c) /\ parent'.list = parent.list /\ Names' = Names
  <2>1. parent'.list = parent.list BY <1>0 DEF Verdict, Leave, Fill, Parents
  <2>2. task[t].pc \in {"verdict", "proceed"} BY DEF Verdict, Leave, Fill, At
  <2>. QED BY <2>1, <2>2 DEF Mends, Names, Registered
<1>4. ASSUME task'[t] = Slot PROVE Knows(t)'
  BY <1>0, <1>4 DEF Knows
<1>5. CASE Verdict(t)
  <2>1. Copy(t) = parent BY <1>2, <1>5 DEF Verdict, At, Informed, Copying
  <2>2. parent'.phase = parent.phase /\ UNCHANGED running BY <1>0, <1>5 DEF Verdict, Parents
  <2>3. CASE HasHalted(parent.list)
    <3>1. task'[t] = Slot BY <1>0, <1>5, <2>1, <2>3 DEF Verdict, Done, Become
    <3>2. parent'.status = "input" BY <1>0, <1>5, <2>1, <2>3 DEF Verdict, Parents
    <3>3. ~Waits' BY <3>2 DEF Waits
    <3>. QED BY <1>0, <1>1, <1>3, <1>4, <2>2, <3>1, <3>3, LookKeeps
  <2>4. CASE ~HasHalted(parent.list)
    <3>1. task'[t] = [task[t] EXCEPT !.pc = "proceed"]
      BY <1>0, <1>5, <2>1, <2>4 DEF Verdict, Go, Become
    <3>2. task'[t].pc = "proceed" /\ task'[t].todo = task[t].todo BY <1>0, <3>1 DEF TaskStates
    <3>3. Knows(t)' /\ Owes(t)' BY <1>2, <1>3, <3>2 DEF Knows, Owes
    <3>. QED BY <1>0, <1>1, <1>3, <2>2, <3>3, LookKeeps
  <2>. QED BY <2>3, <2>4
<1>6. CASE Leave(t)
  <2>1. task'[t] = Slot BY <1>0, <1>6 DEF Leave, Done, Become
  <2>2. Copy(t).phase = parent.phase BY <1>2, <1>6 DEF Leave, At, Informed
  <2>3. CASE parent.phase = "coordinating" /\ ~running /\ parent.status # "cancelled"
    <3>1. parent'.phase = "after" BY <1>0, <1>6, <2>2, <2>3 DEF Leave, Parents
    <3>2. Rested' /\ Owed' BY <3>1 DEF Rested, Owed, Waits
    <3>3. \A u \in Tasks \ {t} : Steady(u) /\ ~Mends(u, c)
      BY <1>1 DEF Untroubled, MayStep, Steady, Mends, Resting
    <3>4. \A u \in Tasks : \A n \in Children \ {c} : ~Mends(u, n)
      BY <3>3 DEF Mends, Steady, Resting
    <3>5. Linked(c) /\ Fit(c) BY <1>3, <3>3 DEF InOrder
    <3>6. Linked(c)' /\ Fit(c)' BY <1>1, <1>3, <3>5 DEF Linked, Fit, Entry, GoesOn
    <3>7. made \in Nat BY <1>0, CampaignAssumption DEF TypeOK
    <3>8. Frame(c) BY <1>1, <1>3, <3>7 DEF Frame, InOrder
    <3>9. \A u \in Tasks : Steady(u) \/ Knows(u)' BY <1>4, <2>1, <3>3
    <3>. QED BY <1>0, <3>2, <3>4, <3>6, <3>8, <3>9, InOrderKept
  <2>4. CASE ~(parent.phase = "coordinating" /\ ~running /\ parent.status # "cancelled")
    <3>1. UNCHANGED <<parent, running>> BY <1>6, <2>2, <2>4 DEF Leave
    <3>2. ~Waits' BY <2>4, <3>1 DEF Waits, InOrder, Rested
    <3>. QED BY <1>0, <1>1, <1>3, <1>4, <2>1, <3>1, <3>2, LookKeeps
  <2>. QED BY <2>3, <2>4
<1>7. CASE Fill(t)
  <2> DEFINE ready == With(parent.list, "ready")
             out == Cardinality(With(parent.list, "dispatched"))
             slots == IF out < Cap THEN Cap - out ELSE 0
  <2>1. /\ Copy(t).list = parent.list /\ ~HasHalted(parent.list) /\ ~AllSettled(parent.list)
        /\ Blocked(parent.list) /\ UNCHANGED <<parent, running>>
    BY <1>2, <1>7 DEF Fill, At, Informed
  <2>2. PICK chosen \in SUBSET ready :
           /\ Cardinality(chosen) < slots => chosen = ready
           /\ task'[t] = [Slot EXCEPT !.pc = "dispatch", !.todo = chosen]
    BY <1>0, <1>7, <2>1 DEF Fill, Become
  <2>3. task'[t].pc = "dispatch" /\ task'[t].todo = chosen BY <1>0, <2>2 DEF TaskStates
  <2>4. chosen \subseteq Names' BY <1>3 DEF With, Names, Registered
  <2>5. Knows(t)' BY <2>3, <2>4 DEF Knows
  <2>6. Owes(t)' \/ ~Waits' \/ Reason
    <3> SUFFICES ASSUME chosen = {}, Sound(parent.list) PROVE Reason
      BY <1>3, <2>1, <2>3, SoundStays DEF Owes, Waits
    <3>1. With(parent.list, "dispatched") # {}
      <4> SUFFICES ASSUME With(parent.list, "dispatched") = {} PROVE FALSE
        OBVIOUS
      <4>1. out = 0 /\ Cardinality(chosen) = 0 BY FS_EmptySet
      <4>2. ready = {} BY <2>2, <4>1, CampaignAssumption
      <4>. QED BY <2>1, <4>2, SomethingIsOut
    <3>2. PICK n \in With(parent.list, "dispatched") : TRUE BY <3>1
    <3>3. \A u \in Tasks : ~Mends(u, n)
      BY <1>1, <1>3 DEF Untroubled, MayStep, Mends, Resting
    <3>4. Fit(n) BY <3>3 DEF InOrder, With
    <3>. QED BY <1>0, <3>4, DispatchedIsReason
  <2>. QED BY <1>0, <1>1, <1>3, <2>1, <2>5, <2>6, LookKeeps
<1>. QED BY <1>5, <1>6, <1>7

\* A reconciliation of the list, and of what a call made of one entry.
LEMMA RenewedFrame ==
    ASSUME TypeOK, InOrder, UNCHANGED made, NEW c \in Children, NEW list \in Lists,
           \A n \in Children \ {c} : list[n] = parent.list[n],
           list[c].status # "absent", c \in Names, parent'.list = Reconciled(list),
           \A j \in 1 .. made : /\ jobs'[j].child = jobs[j].child
                                /\ jobs[j].child # c => jobs'[j] = jobs[j]
    PROVE  /\ Names' = Names /\ Frame(c)
           /\ \/ Entry(c)' = list[c]
              \/ list[c].status = "pending" /\ Entry(c)' = [list[c] EXCEPT !.status = "ready"]
<1>1. \A n \in Children :
         \/ parent'.list[n] = list[n]
         \/ list[n].status = "pending" /\ parent'.list[n] = [list[n] EXCEPT !.status = "ready"]
  BY DEF Reconciled
<1>2. \A n \in Children : list[n] \in Entries /\ parent.list[n] \in Entries
  BY DEF TypeOK, Parents, Lists, Entries
<1>3. \A n \in Children : /\ parent'.list[n].job = list[n].job
                           /\ \/ parent'.list[n].status = list[n].status
                              \/ /\ parent'.list[n].status = "ready"
                                 /\ list[n].status = "pending"
  BY <1>1, <1>2 DEF Entries
<1>4. \A n \in Children : parent'.list[n].status # "absent" <=> parent.list[n].status # "absent"
  BY <1>3 DEF Names, Registered
<1>5. Names' = Names BY <1>4 DEF Names, Registered
<1>6. made \in Nat BY CampaignAssumption DEF TypeOK
<1>7. \A j \in 1 .. made' : jobs'[j].child \in Names' BY <1>5 DEF InOrder
<1>8. Frame(c) BY <1>3, <1>5, <1>6, <1>7 DEF Frame
<1>. QED BY <1>1, <1>5, <1>8 DEF Entry

LEMMA StoresKeep ==
    ASSUME Untroubled, CampaignInv, TypeOK', InOrder, NEW t \in Tasks,
           Settle(t) \/ Promote(t) \/ Apply(t) \/ Mark(t)
    PROVE  InOrder'
<1> SUFFICES ASSUME NEW c \in Children, task[t].child = c PROVE InOrder'
  BY DEF CampaignInv, TypeInv, TypeOK, TaskStates
<1>0. /\ task \in [Tasks -> TaskStates] /\ task[t] \in TaskStates /\ TypeOK
      /\ Slot \in TaskStates /\ parent \in Parents /\ parent.list \in Lists
      /\ parent.list[c] \in Entries /\ made \in Nat
  BY SlotType, CampaignAssumption DEF CampaignInv, TypeInv, TypeOK, Parents, Lists, Entries
<1>1. /\ MayStep(t) /\ UNCHANGED <<running, made, spent>> /\ parent'.phase = parent.phase
      /\ \A u \in Tasks \ {t} : task'[u] = task[u]
  <2>1. /\ MayStep(t) /\ UNCHANGED <<running, made, spent>>
        /\ \A u \in Tasks \ {t} : task'[u] = task[u]
    BY <1>0 DEF Settle, Promote, Apply, Mark, At, Become, GoOn, Go, SweepBy
  <2>2. parent'.phase = parent.phase
    BY <1>0 DEF Settle, Promote, Apply, Mark, StoreList, Parents
  <2>. QED BY <2>1, <2>2
<1>2. Knows(t) /\ Informed(t) BY DEF InOrder, CampaignInv
<1>3. Copy(t) = parent /\ task[t].pc \in {"settle", "promote", "apply", "mark"}
  BY <1>2 DEF Settle, Promote, Apply, Mark, At, Informed, Copying
<1>4. \A list \in Lists : StoreList(list) => parent'.list = list BY <1>0, StoreType
<1>5. Linked(c) /\ (Fit(c) \/ Mends(t, c))
  <2>1. \A u \in Tasks \ {t} : ~Mends(u, c) BY <1>1 DEF Untroubled, MayStep, Mends, Resting
  <2>. QED BY <2>1 DEF InOrder
<1>6. CASE Settle(t)
  <2> DEFINE e == [status |-> task[t].op, job |-> task[t].job]
             list == [parent.list EXCEPT ![c] = e]
  <2>1. /\ task[t].pc = "settle" /\ task[t].op \in Stopped /\ c \in Names
        /\ task[t].job \in 1 .. made /\ jobs[task[t].job].child = c
        /\ task[t].op = jobs[task[t].job].status
    BY <1>2, <1>6 DEF Settle, At, Knows, CampaignInv, TypeInv
  <2>2. e \in Entries /\ e.status \notin {"absent", "pending", "dispatched"}
    BY <1>0, <2>1 DEF Entries, TaskStates, ChildStatuses, Settled, Satisfied, Halting, Stopped
  <2>3. list \in Lists /\ list[c] = e BY <1>0, <2>2 DEF Lists, Entries
  <2>4. StoreList(Reconciled(list)) BY <1>3, <1>6 DEF Settle
  <2>5. parent'.list = Reconciled(list) BY <1>4, <2>3, <2>4, ReconciledType
  <2>6. UNCHANGED jobs BY <1>6 DEF Settle
  <2>7. \A n \in Children \ {c} : list[n] = parent.list[n] BY <1>0 DEF Lists
  <2> HIDE DEF list
  <2>8. Names' = Names /\ Frame(c) /\ Entry(c)' = e
    BY <1>0, <1>1, <2>1, <2>2, <2>3, <2>5, <2>6, <2>7, RenewedFrame
  <2>9. Linked(c)' BY <1>1, <2>1, <2>2, <2>6, <2>8 DEF Linked
  <2>10. Fit(c)'
    BY <2>1, <2>2, <2>6, <2>8 DEF Fit, GoesOn, Halting
  <2>11. task'[t] = [task[t] EXCEPT !.pc = "sync", !.copy = Unread]
    BY <1>0, <1>6 DEF Settle, GoOn, Become
  <2>12. task'[t].pc = "sync" /\ task'[t].todo = task[t].todo BY <1>0, <2>11 DEF TaskStates
  <2>13. Knows(t)' /\ Owes(t)' BY <1>2, <2>8, <2>12 DEF Knows, Owes
  <2>. QED BY <1>0, <1>1, <2>8, <2>9, <2>10, <2>13, CallKeeps
<1>7. CASE Promote(t)
  <2> DEFINE new == Reconciled(parent.list)
  <2>1. new \in Lists BY <1>0, ReconciledType
  <2>2. parent'.list = new
    <3>1. (parent' = parent /\ new = parent.list) \/ StoreList(new)
      BY <1>3, <1>7 DEF Promote
    <3> HIDE DEF new
    <3>. QED BY <1>4, <2>1, <3>1
  <2>3. task'[t] = [task[t] EXCEPT !.pc = "verdict", !.copy.list = new]
    BY <1>0, <1>3, <1>7 DEF Promote, Become
  <2>4. UNCHANGED jobs BY <1>7 DEF Promote
  <2>5. Names' = Names /\ made' = made /\ made \in Nat
        /\ \A n \in Children : /\ parent'.list[n].job = parent.list[n].job
                                 /\ \/ parent'.list[n] = parent.list[n]
                                    \/ parent'.list[n].status = "ready"
    <3>1. \A n \in Children : parent.list[n] \in Entries /\ parent.list[n].status \in ChildStatuses
      BY <1>0 DEF Lists, Entries
    <3>2. \A n \in Children :
             \/ new[n] = parent.list[n]
             \/ new[n] = [parent.list[n] EXCEPT !.status = "ready"] /\ parent.list[n].status = "pending"
      BY DEF Reconciled
    <3> HIDE DEF new
    <3>3. \A n \in Children :
             \/ new[n] = parent.list[n]
             \/ /\ new[n].status = "ready" /\ parent.list[n].status = "pending"
                /\ new[n].job = parent.list[n].job
      BY <3>1, <3>2 DEF Entries
    <3>4. \A n \in Children : new[n].status # "absent" <=> parent.list[n].status # "absent"
      BY <3>3
    <3>5. Names' = Names BY <2>2, <3>4 DEF Names, Registered
    <3>. QED BY <1>0, <1>1, <2>2, <3>3, <3>5
  <2>6. Frame(c) BY <2>4, <2>5 DEF Frame, InOrder
  <2>7. Linked(c)' BY <1>5, <2>4, <2>5 DEF Linked, Entry
  <2>8. ~Mends(t, c) BY <1>7 DEF Promote, At, Mends
  <2>9. Fit(c)' BY <1>5, <2>4, <2>5, <2>8 DEF Fit, Entry, GoesOn, Halting
  <2> HIDE DEF new
  <2>10. task'[t].pc = "verdict" /\ task'[t].todo = task[t].todo BY <1>0, <2>3 DEF TaskStates
  <2>11. Knows(t)' /\ Owes(t)' BY <1>2, <2>5, <2>10 DEF Knows, Owes
  <2>. QED BY <1>0, <1>1, <2>5, <2>6, <2>7, <2>9, <2>11, CallKeeps
<1>8. CASE Apply(t)
  <2> DEFINE old == parent.list[c]
             e == Changed(task[t].op, old)
             list == [parent.list EXCEPT ![c] = e]
  <2>1. task[t].pc = "apply" /\ c \in Names /\ ~Refused(task[t].op, old)
    BY <1>2, <1>8 DEF Apply, At, Knows, Entry
  <2>2. /\ e \in Entries /\ e.status # "absent"
        /\ \/ task[t].op \in {"skip", "abandon"} /\ e.job = old.job
                /\ e.status \in {"cancelled", "skipped"}
           \/ task[t].op = "rerun" /\ e.job = 0 /\ e.status = "pending"
           \/ task[t].op = "resume" /\ e.job = old.job /\ e.job # 0 /\ e.status = "dispatched"
                /\ old.status \in Halting
    <3>1. e \in Entries BY <1>0, ChangedType
    <3>2. task[t].op \in {"skip", "abandon", "rerun", "resume"} BY <2>1 DEF Refused
    <3>3. CASE task[t].op = "skip"
      <4>1. \E x \in {"cancelled", "skipped"} : e = [old EXCEPT !.status = x] BY <3>3 DEF Changed
      <4>. QED BY <1>0, <3>1, <3>3, <4>1 DEF Entries
    <3>4. CASE task[t].op = "abandon"
      <4>1. e = [old EXCEPT !.status = "cancelled"] BY <3>4 DEF Changed
      <4>. QED BY <1>0, <3>1, <3>4, <4>1 DEF Entries
    <3>5. CASE task[t].op = "rerun"
      <4>1. e = [status |-> "pending", job |-> 0] BY <3>5 DEF Changed
      <4>. QED BY <3>1, <3>5, <4>1
    <3>6. CASE task[t].op = "resume"
      <4>1. e = [old EXCEPT !.status = "dispatched"] BY <3>6 DEF Changed
      <4>2. old.status \in Halting /\ old.job # 0 BY <2>1, <3>6 DEF Refused
      <4>. QED BY <1>0, <3>1, <3>6, <4>1, <4>2 DEF Entries
    <3>. QED BY <3>2, <3>3, <3>4, <3>5, <3>6
  <2>3. StoreList(Reconciled(list)) BY <1>3, <1>8 DEF Apply
  <2> HIDE DEF e
  <2>4. list \in Lists /\ list[c] = e BY <1>0, <2>2 DEF Lists, Entries
  <2>5. \A n \in Children \ {c} : list[n] = parent.list[n] BY <1>0 DEF Lists
  <2>6. parent'.list = Reconciled(list) BY <1>4, <2>3, <2>4, ReconciledType
  <2>7. UNCHANGED jobs BY <1>8 DEF Apply
  <2> HIDE DEF list
  <2>8. /\ Names' = Names /\ Frame(c)
        /\ \/ Entry(c)' = e
           \/ e.status = "pending" /\ Entry(c)' = [e EXCEPT !.status = "ready"]
    BY <1>0, <1>1, <2>1, <2>2, <2>4, <2>5, <2>6, <2>7, RenewedFrame
  <2>9. /\ Entry(c)'.job = e.job
        /\ \/ Entry(c)'.status = e.status
           \/ e.status = "pending" /\ Entry(c)'.status = "ready"
    BY <2>2, <2>8 DEF Entries
  <2>10. Linked(c)' BY <1>1, <1>5, <2>2, <2>7, <2>9 DEF Linked, Entry
  <2>11. CASE task[t].op = "resume"
    <3>1. task'[t] = [task[t] EXCEPT !.pc = "rejob"] BY <1>0, <1>8, <2>11 DEF Apply, Go, Become
    <3>2. /\ task'[t].pc = "rejob" /\ task'[t].todo = task[t].todo /\ task'[t].child = c
          /\ task'[t].copy = parent
      BY <1>0, <1>3, <3>1 DEF TaskStates, Copy
    <3>3. GoesOn(old.job) /\ old.job # 0
      <4>1. ~Mends(t, c) BY <2>1, <2>11 DEF Mends
      <4>. QED BY <1>5, <2>2, <2>11, <4>1 DEF Fit, Entry
    <3>4. Entry(c)'.status = "dispatched" /\ Entry(c)'.job = old.job BY <2>2, <2>9, <2>11
    <3>5. GoesOn(Entry(c).job)' BY <2>7, <3>3, <3>4 DEF GoesOn
    <3>6. Knows(t)'
      BY <1>2, <2>1, <2>8, <3>2, <3>4, <3>5 DEF Knows, Copy
    <3>7. Owes(t)' /\ Mends(t, c)' BY <3>2 DEF Owes, Mends
    <3>. QED BY <1>0, <1>1, <2>8, <2>10, <3>6, <3>7, CallKeeps
  <2>12. CASE task[t].op # "resume"
    <3>1. task'[t] = [Slot EXCEPT !.pc = "sweep"] BY <1>0, <1>8, <2>12 DEF Apply, SweepBy, Become
    <3>2. task'[t].pc = "sweep" /\ task'[t].todo = {} BY <1>0, <3>1 DEF TaskStates, Slot
    <3>3. Knows(t)' /\ Owes(t)' BY <3>2 DEF Knows, Owes
    <3>4. Fit(c)' BY <2>2, <2>9, <2>12 DEF Fit, Halting
    <3>. QED BY <1>0, <1>1, <2>8, <2>10, <3>3, <3>4, CallKeeps
  <2>. QED BY <2>11, <2>12
<1>9. CASE Mark(t)
  <2> DEFINE e == [status |-> "dispatched", job |-> task[t].job]
             list == [parent.list EXCEPT ![c] = e]
  <2>1. c \in Names /\ task[t].job \in 1 .. made /\ jobs[task[t].job].child = c
    BY <1>2, <1>9 DEF Mark, At, Knows
  <2>2. list \in Lists /\ list[c] = e /\ \A n \in Children \ {c} : list[n] = parent.list[n]
    BY <1>0 DEF Lists, TaskStates, ChildStatuses
  <2>3. StoreList(list) BY <1>3, <1>9 DEF Mark
  <2>4. parent'.list = list BY <1>4, <2>2, <2>3
  <2>5. SetJob(task[t].job, "running", TRUE)
        /\ task'[t] = [Slot EXCEPT !.pc = "dispatch", !.todo = task[t].todo]
    BY <1>0, <1>9 DEF Mark, Become
  <2>6. /\ \A j \in 1 .. made : /\ jobs'[j].child = jobs[j].child
                                /\ jobs[j].child # c => jobs'[j] = jobs[j]
        /\ jobs'[task[t].job].run
    <3>1. jobs \in [1 .. made -> JobStates] BY <1>0 DEF TypeOK
    <3>. QED BY <2>1, <2>5, <3>1 DEF SetJob, JobStates
  <2> HIDE DEF list
  <2>7. \A n \in Children : parent'.list[n].status # "absent" <=> parent.list[n].status # "absent"
    BY <2>1, <2>2, <2>4 DEF Names, Registered
  <2>8. Names' = Names BY <2>7 DEF Names, Registered
  <2>9. Frame(c) BY <1>0, <1>1, <2>2, <2>4, <2>6, <2>8 DEF Frame, InOrder
  <2>10. Entry(c)' = e BY <2>2, <2>4 DEF Entry
  <2>11. Linked(c)' /\ Fit(c)' /\ Reason'
    <3>1. Entry(c)'.status = "dispatched" /\ Entry(c)'.job = task[t].job BY <2>10
    <3>2. jobs'[task[t].job].child = c /\ task[t].job # 0 BY <1>0, <2>1, <2>6
    <3>. QED BY <1>1, <2>1, <2>6, <3>1, <3>2 DEF Linked, Fit, Reason, Halting
  <2>12. task'[t].pc = "dispatch" /\ task'[t].todo = task[t].todo BY <1>0, <2>5 DEF TaskStates
  <2>13. Knows(t)' BY <1>2, <2>8, <2>12 DEF Knows
  <2>. QED BY <1>0, <1>1, <2>8, <2>9, <2>11, <2>13, CallKeeps
<1>. QED BY <1>6, <1>7, <1>8, <1>9

\* A job of one child is changed, and no entry of the list.
LEMMA JobFrame ==
    ASSUME TypeOK, InOrder, NEW c \in Children, NEW j \in 1 .. made, jobs[j].child = c,
           NEW status, NEW run, SetJob(j, status, run),
           parent'.list = parent.list, UNCHANGED made
    PROVE  /\ Names' = Names /\ Frame(c)
           /\ \A n \in Children : (Linked(n) => Linked(n)')
           /\ \A i \in 1 .. made \ {j} : jobs'[i] = jobs[i]
           /\ jobs'[j].child = c /\ jobs'[j].status = status /\ jobs'[j].run = run
<1>0. made \in Nat /\ jobs \in [1 .. made -> JobStates] BY CampaignAssumption DEF TypeOK
<1>1. /\ \A i \in 1 .. made \ {j} : jobs'[i] = jobs[i]
      /\ jobs'[j].child = c /\ jobs'[j].status = status /\ jobs'[j].run = run
  BY <1>0 DEF SetJob, JobStates
<1>2. \A i \in 1 .. made : jobs'[i].child = jobs[i].child BY <1>1
<1>3. Names' = Names BY DEF Names, Registered
<1>4. Frame(c) BY <1>0, <1>1, <1>2, <1>3 DEF Frame, InOrder
<1>5. \A n \in Children : (Linked(n) => Linked(n)') BY <1>2 DEF Linked, Entry
<1>. QED BY <1>1, <1>3, <1>4, <1>5

LEMMA JobsKeep ==
    ASSUME Untroubled, CampaignInv, TypeOK', InOrder, NEW t \in Tasks,
           Dispatch(t) \/ Abandon(t) \/ ResumeChildJob(t)
    PROVE  InOrder'
<1> SUFFICES ASSUME NEW c \in Children, task[t].child = c PROVE InOrder'
  BY DEF CampaignInv, TypeInv, TypeOK, TaskStates
<1>0. /\ task \in [Tasks -> TaskStates] /\ task[t] \in TaskStates /\ TypeOK
      /\ Slot \in TaskStates /\ Slot.pc = "idle" /\ Slot.todo = {} /\ made \in Nat
      /\ jobs \in [1 .. made -> JobStates]
  BY SlotType, CampaignAssumption DEF CampaignInv, TypeInv, TypeOK, Slot
<1>1. /\ MayStep(t) /\ UNCHANGED <<parent, running, spent>>
      /\ \A u \in Tasks \ {t} : task'[u] = task[u]
  BY <1>0 DEF Dispatch, Abandon, ResumeChildJob, At, Become, Done, Go, SweepBy
<1>2. Knows(t) BY DEF InOrder
<1>3. Linked(c) /\ (Fit(c) \/ Mends(t, c)) /\ Names' = Names
  <2>1. \A u \in Tasks \ {t} : ~Mends(u, c) BY <1>1 DEF Untroubled, MayStep, Mends, Resting
  <2>. QED BY <1>1, <2>1 DEF InOrder, Names, Registered
<1>4. ASSUME task'[t] = Slot PROVE Knows(t)'
  BY <1>0, <1>4 DEF Knows
<1>5. ASSUME task'[t] = [Slot EXCEPT !.pc = "sweep"] PROVE Knows(t)' /\ Owes(t)'
  <2>1. task'[t].pc = "sweep" /\ task'[t].todo = {} BY <1>0, <1>5 DEF TaskStates
  <2>. QED BY <2>1 DEF Knows, Owes
<1>6. CASE Dispatch(t)
  <2>1. task[t].pc = "dispatch" BY <1>6 DEF Dispatch, At
  <2>2. ~Mends(t, c) BY <2>1 DEF Mends
  <2>3. CASE task[t].todo = {}
    <3>1. task'[t] = Slot /\ UNCHANGED <<jobs, made>>
      BY <1>0, <1>6, <2>3 DEF Dispatch, Done, Become
    <3>2. ~Owes(t) BY <2>1, <2>3 DEF Owes
    <3>. QED BY <1>0, <1>1, <1>4, <2>2, <3>1, <3>2, LookKeeps
  <2>4. CASE task[t].todo # {}
    <3>1. PICK n \in task[t].todo :
             /\ made' = made + 1
             /\ jobs' = [j \in 1 .. made + 1 |->
                            IF j \in 1 .. made THEN jobs[j]
                            ELSE [child |-> n, status |-> "made", run |-> FALSE]]
             /\ task'[t] = [task[t] EXCEPT !.pc = "copy", !.child = n, !.job = made + 1,
                                           !.todo = task[t].todo \ {n}]
      BY <1>0, <1>6, <2>4 DEF Dispatch, Become
    <3>2. /\ made' \in Nat /\ \A j \in 1 .. made : j \in 1 .. made' /\ jobs'[j] = jobs[j]
          /\ made' \in 1 .. made' /\ jobs'[made'].child = n
          /\ \A j \in 1 .. made' : j \in 1 .. made \/ j = made'
      BY <1>0, <3>1
    <3>3. n \in Names BY <1>2, <3>1 DEF Knows
    <3>4. Frame(c) BY <1>0, <1>1, <1>3, <3>1, <3>2, <3>3 DEF Frame, InOrder
    <3>5. /\ task'[t].pc = "copy" /\ task'[t].child = n /\ task'[t].job = made'
          /\ task'[t].todo \subseteq task[t].todo
      BY <1>0, <3>1 DEF TaskStates
    <3>6. Knows(t)' BY <1>2, <1>3, <3>2, <3>3, <3>5 DEF Knows
    <3>7. Linked(c)' BY <1>1, <1>3, <3>2 DEF Linked, Entry
    <3>8. Fit(c)' BY <1>0, <1>1, <1>3, <2>2, <3>2 DEF Fit, Linked, Entry, GoesOn
    <3>9. Owes(t)' BY <3>5 DEF Owes
    <3>. QED BY <1>0, <1>1, <1>3, <3>4, <3>6, <3>7, <3>8, <3>9, CallKeeps
  <2>. QED BY <2>3, <2>4
<1>7. CASE Abandon(t)
  <2> DEFINE j == Entry(c).job
  <2>1. /\ task[t].pc = "abandon" /\ task[t].op = "abandon" /\ c \in Names
    BY <1>2, <1>7 DEF Abandon, At, Knows
  <2>2. ~Mends(t, c) /\ ~Owes(t) BY <2>1 DEF Mends, Owes
  <2>3. CASE task'[t] = [Slot EXCEPT !.pc = "sweep"] /\ UNCHANGED <<jobs, made>>
    BY <1>0, <1>1, <1>5, <2>2, <2>3, LookKeeps
  <2>4. CASE /\ task'[t] = [task[t] EXCEPT !.pc = "mutate"]
             /\ UNCHANGED jobs \/ (j # 0 /\ SetJob(j, "cancelled", jobs[j].run))
    <3>1. /\ task'[t].pc = "mutate" /\ task'[t].op = "abandon" /\ task'[t].child = c
          /\ task'[t].todo = task[t].todo
      BY <1>0, <2>1, <2>4 DEF TaskStates
    <3>2. Knows(t)' BY <1>2, <1>3, <2>1, <3>1 DEF Knows
    <3>3. Mends(t, c)' BY <3>1 DEF Mends
    <3>4. UNCHANGED made BY <1>7 DEF Abandon
    <3>5. CASE UNCHANGED jobs
      BY <1>0, <1>1, <2>2, <3>2, <3>3, <3>4, <3>5, LookKeeps
    <3>6. CASE j # 0 /\ SetJob(j, "cancelled", jobs[j].run)
      <4>1. j \in 1 .. made /\ jobs[j].child = c BY <1>3, <3>6 DEF Linked
      <4> HIDE DEF j
      <4>2. /\ Frame(c) /\ Linked(c)' /\ \A i \in 1 .. made \ {j} : jobs'[i] = jobs[i]
        BY <1>0, <1>1, <1>3, <3>4, <3>6, <4>1, JobFrame
      <4>3. Owes(t)' \/ (Reason => Reason')
        <5> SUFFICES ASSUME Refused("abandon", Entry(c)), Reason PROVE Reason'
          BY <1>1, <3>1 DEF Owes, Entry
        <5>1. Entry(c).status # "dispatched" BY DEF Refused, Satisfied
        <5>2. PICK i \in 1 .. made : /\ jobs[i].run \/ jobs[i].status = "parked"
                                     /\ Entry(jobs[i].child).status = "dispatched"
          BY DEF Reason
        <5>3. i # j BY <4>1, <5>1, <5>2
        <5>4. jobs'[i] = jobs[i] BY <4>2, <5>3
        <5>. QED BY <1>1, <3>4, <5>2, <5>4 DEF Reason, Entry
      <4>. QED BY <1>0, <1>1, <1>3, <2>2, <3>2, <3>3, <4>2, <4>3, CallKeeps
    <3>. QED BY <2>4, <3>5, <3>6
  <2>. QED BY <1>0, <1>7, <2>3, <2>4 DEF Abandon, SweepBy, Go, Become, Entry
<1>8. CASE ResumeChildJob(t)
  <2> DEFINE j == Entry(c).job
  <2>1. /\ task[t].pc = "rejob" /\ Entry(c).status = "dispatched" /\ GoesOn(j)
        /\ j = Copy(t).list[c].job
    BY <1>2, <1>8 DEF ResumeChildJob, At, Knows
  <2>2. j \in 1 .. made /\ jobs[j].child = c BY <1>3, <2>1 DEF Linked
  <2>3. UNCHANGED made BY <1>8 DEF ResumeChildJob
  <2>4. CASE task'[t] = Slot /\ UNCHANGED jobs /\ jobs[j].run
    <3>1. Fit(c) BY <2>1, <2>4 DEF Fit, Halting
    <3>2. Reason BY <2>1, <2>2, <2>4 DEF Reason
    <3>. QED BY <1>0, <1>1, <1>4, <2>3, <2>4, <3>1, <3>2, LookKeeps
  <2>5. CASE task'[t] = [Slot EXCEPT !.pc = "sweep"] /\ SetJob(j, "running", TRUE)
    <3> HIDE DEF j
    <3>1. Frame(c) /\ Linked(c)'
      <4>1. PICK run : run = TRUE OBVIOUS
      <4>2. SetJob(j, "running", run) BY <2>5, <4>1
      <4>. QED BY <1>0, <1>1, <1>3, <2>2, <2>3, <4>2, JobFrame
    <3>2. jobs'[j].run BY <1>0, <2>2, <2>5 DEF SetJob, JobStates
    <3>3. Fit(c)' BY <1>1, <2>1, <3>2 DEF Fit, Entry, j, Halting
    <3>. QED BY <1>0, <1>1, <1>3, <1>5, <2>5, <3>1, <3>3, CallKeeps
  <2>6. \/ jobs[j].run /\ Done(t) /\ UNCHANGED jobs
        \/ SetJob(j, "running", TRUE) /\ SweepBy(t)
    BY <1>8, <2>1 DEF ResumeChildJob, GoesOn
  <2>. QED BY <1>0, <2>4, <2>5, <2>6 DEF Done, SweepBy, Become
<1>. QED BY <1>6, <1>7, <1>8

\* What may happen between the calls finds every call at rest.
LEMMA AtRest ==
    ASSUME Untroubled, InOrder, Between
    PROVE  /\ \A u \in Tasks : task[u].pc \in Resting
           /\ \A u \in Tasks : \A n \in Children : ~Mends(u, n)
           /\ \A n \in Children : Linked(n) /\ Fit(n)
<1>1. \A u \in Tasks : task[u].pc \in Resting BY DEF Untroubled, Between
<1>2. \A u \in Tasks : \A n \in Children : ~Mends(u, n) BY <1>1 DEF Mends, Resting
<1>. QED BY <1>1, <1>2 DEF InOrder

\* A child job that runs, or may be woken, gives no call anything to do.
LEMMA JobGoesOn ==
    ASSUME Untroubled, TypeOK, TypeOK', InOrder, Between, NEW j \in 1 .. made,
           NEW status, NEW run, SetJob(j, status, run),
           (run = TRUE /\ status = "running") \/ status = "parked",
           UNCHANGED <<parent, running, made, task>>
    PROVE  InOrder'
<1>0. made \in Nat /\ jobs \in [1 .. made -> JobStates] /\ 0 \notin 1 .. made
  BY CampaignAssumption DEF TypeOK
<1>1. PICK c \in Children : jobs[j].child = c BY <1>0 DEF JobStates
<1>2. /\ Names' = Names /\ Frame(c) /\ (Linked(c) => Linked(c)')
      /\ \A i \in 1 .. made \ {j} : jobs'[i] = jobs[i]
      /\ jobs'[j].child = c /\ jobs'[j].status = status /\ jobs'[j].run = run
  BY <1>1, JobFrame
<1>3. jobs'[j].run \/ jobs'[j].status = "parked" BY <1>2
<1>4. GoesOn(j)' BY <1>2 DEF GoesOn
<1>5. /\ \A u \in Tasks : Steady(u) /\ (Owes(u) => Owes(u)')
      /\ \A u \in Tasks : \A n \in Children \ {c} : ~Mends(u, n)
      /\ Linked(c) /\ Fit(c)
  BY AtRest DEF Steady, Owes, Resting
<1>6. Fit(c)'
  <2>1. CASE Entry(c).job = j BY <1>3, <1>4, <2>1 DEF Fit, Entry
  <2>2. CASE Entry(c).job # j
    <3>1. Entry(c).job # 0 => jobs'[Entry(c).job] = jobs[Entry(c).job]
      BY <1>2, <1>5, <2>2 DEF Linked
    <3>. QED BY <1>5, <3>1 DEF Fit, Linked, Entry, GoesOn
  <2>. QED BY <2>1, <2>2
<1>7. Reason => Reason'
  <2> SUFFICES ASSUME NEW i \in 1 .. made, jobs[i].run \/ jobs[i].status = "parked",
                      Entry(jobs[i].child).status = "dispatched"
               PROVE  Reason'
    BY DEF Reason
  <2>1. jobs'[i].run \/ jobs'[i].status = "parked" BY <1>2, <1>3
  <2>2. jobs'[i].child = jobs[i].child BY <1>1, <1>2
  <2>. QED BY <2>1, <2>2 DEF Reason, Entry
<1>8. Rested' BY DEF InOrder, Rested
<1>9. Owed' BY <1>2, <1>5, <1>7, SoundStays DEF InOrder, Owed, Waits
<1>. QED BY <1>2, <1>5, <1>6, <1>8, <1>9, InOrderKept

\* The parent's row changes between the calls, and a call may be started.
LEMMA OutsideKeeps ==
    ASSUME Untroubled, TypeOK, TypeOK', InOrder, Between, UNCHANGED <<jobs, made>>,
           NEW t, \A u \in Tasks \ {t} : task'[u] = task[u],
           t \in Tasks => UNCHANGED task \/ Knows(t)',
           Names' = Names, Rested', Owed',
           \A n \in Children :
              /\ parent'.list[n].job = parent.list[n].job
              /\ \/ parent'.list[n].status = parent.list[n].status
                 \/ parent'.list[n].status \in {"pending", "ready"}
    PROVE  InOrder'
<1>1. PICK c \in Children : TRUE BY CampaignAssumption
<1>2. /\ \A u \in Tasks : Steady(u) \/ Knows(u)'
      /\ \A u \in Tasks : \A n \in Children \ {c} : ~Mends(u, n)
      /\ Linked(c) /\ Fit(c)
  BY AtRest DEF Steady
<1>3. made \in Nat BY CampaignAssumption DEF TypeOK
<1>4. Frame(c) BY <1>3 DEF Frame, InOrder
<1>5. Linked(c)' /\ Fit(c)' BY <1>2 DEF Linked, Fit, Entry, GoesOn, Halting
<1>. QED BY <1>2, <1>4, <1>5, InOrderKept

LEMMA PlannerKeeps ==
    ASSUME Untroubled, CampaignInv, TypeOK', InOrder,
           \/ \E n \in Children : Register(n)
           \/ \E t \in Tasks : PlannerEnds(t) \/ Continue(t)
           \/ Finalize \/ Answer \/ Remediate \/ CancelCampaign
    PROVE  InOrder'
<1>0. /\ task \in [Tasks -> TaskStates] /\ parent \in Parents /\ TypeOK /\ made \in Nat
      /\ parent.list \in Lists /\ Slot \in TaskStates /\ Slot.todo = {}
      /\ Between /\ UNCHANGED <<jobs, made>>
  <2>1. Between /\ UNCHANGED <<jobs, made>>
    BY DEF Register, Finalize, PlannerEnds, Answer, Continue, Remediate, CancelCampaign
  <2>. QED BY <2>1, SlotType, CampaignAssumption DEF CampaignInv, TypeInv, TypeOK, Parents, Slot
<1>1. ASSUME NEW t \in Tasks, SweepBy(t)
      PROVE  Knows(t)' /\ Owes(t)' /\ \A u \in Tasks \ {t} : task'[u] = task[u]
  <2>1. task'[t] = [Slot EXCEPT !.pc = "sweep"] /\ \A u \in Tasks \ {t} : task'[u] = task[u]
    BY <1>0, <1>1 DEF SweepBy, Become
  <2>2. task'[t].pc = "sweep" /\ task'[t].todo = {} BY <1>0, <2>1 DEF TaskStates
  <2>. QED BY <2>1, <2>2 DEF Knows, Owes
<1>2. ASSUME NEW n \in Children, Register(n) PROVE InOrder'
  <2>1. /\ parent' = [parent EXCEPT !.list = [parent.list EXCEPT ![n].status = "pending"]]
        /\ parent.phase = "planning" /\ running /\ UNCHANGED <<running, task>>
    BY <1>2 DEF Register, StoreList, Planning
  <2>2. /\ parent'.phase = "planning" /\ parent'.list[n].status = "pending"
        /\ parent'.list[n].job = parent.list[n].job
        /\ \A m \in Children \ {n} : parent'.list[m] = parent.list[m]
    BY <1>0, <2>1 DEF Parents, Lists
  <2>3. Rested' /\ Owed' BY <2>1, <2>2 DEF Rested, Owed, Waits
  <2>4. Names \subseteq Names' BY <2>2 DEF Names, Registered
  <2>5. Frame(n) BY <1>0, <2>2, <2>4 DEF Frame, InOrder
  <2>6. /\ \A u \in Tasks : Steady(u)
        /\ \A u \in Tasks : \A m \in Children \ {n} : ~Mends(u, m)
        /\ Linked(n)
    BY <1>0, <2>1, AtRest DEF Steady
  <2>7. Linked(n)' /\ Fit(n)' BY <1>0, <2>2, <2>6 DEF Linked, Fit, Entry, Halting
  <2>. QED BY <1>0, <2>3, <2>5, <2>6, <2>7, InOrderKept
<1>3. CASE Finalize
  <2> DEFINE new == Reconciled(parent.list)
  <2>1. Names # {} /\ parent.phase = "planning" /\ StoreList(new) /\ UNCHANGED <<running, task>>
    BY <1>3 DEF Finalize, Planning, Names, Sound
  <2>2. new \in Lists BY <1>0, ReconciledType
  <2>3. PICK c \in Names : TRUE BY <2>1
  <2>4. c \in Children /\ parent.list[c].status # "absent" BY DEF Names, Registered
  <2>5. parent'.list = new /\ parent'.phase = "planning"
    <3> HIDE DEF new
    <3>. QED BY <1>0, <2>1, <2>2, StoreType
  <2>6. Names' = Names BY <1>0, <2>3, <2>4, <2>5, RenewedFrame
  <2>7. \A n \in Children :
           /\ parent'.list[n].job = parent.list[n].job
           /\ \/ parent'.list[n].status = parent.list[n].status
              \/ parent'.list[n].status \in {"pending", "ready"}
    <3>1. \A n \in Children : parent.list[n] \in Entries BY <1>0 DEF Lists, Entries
    <3>2. \A n \in Children :
             \/ new[n] = parent.list[n]
             \/ new[n] = [parent.list[n] EXCEPT !.status = "ready"]
      BY DEF Reconciled
    <3> HIDE DEF new
    <3>. QED BY <2>5, <3>1, <3>2 DEF Entries
  <2>8. Rested' /\ Owed' BY <2>5 DEF Rested, Owed, Waits
  <2> HIDE DEF new
  <2>. QED BY <1>0, <2>1, <2>6, <2>7, <2>8, OutsideKeeps
\* The others leave the list alone, and sweep when they start to coordinate.
<1>4. ASSUME parent'.list = parent.list, Rested', UNCHANGED task, ~Waits' PROVE InOrder'
  <2>1. Names' = Names BY <1>4 DEF Names, Registered
  <2>2. Owed' BY <1>4 DEF Owed
  <2>. QED BY <1>0, <1>4, <2>1, <2>2, OutsideKeeps
<1>5. ASSUME NEW t \in Tasks, parent'.list = parent.list, Rested', SweepBy(t) PROVE InOrder'
  <2>1. Names' = Names BY <1>5 DEF Names, Registered
  <2>2. Owed' BY <1>1, <1>5 DEF Owed
  <2>. QED BY <1>0, <1>1, <1>5, <2>1, <2>2, OutsideKeeps
<1>6. ASSUME NEW t \in Tasks, PlannerEnds(t) PROVE InOrder'
  <2>1. /\ parent'.list = parent.list /\ running' = FALSE
        /\ \/ UNCHANGED task /\ parent'.phase = "planning"
           \/ SweepBy(t)
    BY <1>0, <1>6 DEF PlannerEnds, Planning, Parents
  <2>2. Rested' BY <2>1 DEF Rested
  <2>. QED BY <1>4, <1>5, <2>1, <2>2 DEF Waits
<1>7. ASSUME NEW t \in Tasks, Continue(t) PROVE InOrder'
  <2>1. parent'.list = parent.list /\ ~running' /\ SweepBy(t)
    BY <1>0, <1>7 DEF Continue, Parents
  <2>2. Rested' BY <2>1 DEF Rested
  <2>. QED BY <1>5, <2>1, <2>2
<1>8. CASE Answer \/ Remediate
  <2>1. parent'.list = parent.list /\ parent'.phase = "planning" /\ UNCHANGED task
    BY <1>0, <1>8 DEF Answer, Remediate, Parents
  <2>. QED BY <1>4, <2>1 DEF Rested, Waits
<1>9. CASE CancelCampaign
  <2>1. /\ parent'.list = parent.list /\ parent'.status = "cancelled" /\ ~running'
        /\ UNCHANGED task
    BY <1>0, <1>9 DEF CancelCampaign, Parents
  <2>. QED BY <1>4, <2>1 DEF Rested, Waits
<1>. QED BY <1>2, <1>3, <1>6, <1>7, <1>8, <1>9

LEMMA RunEndsKeeps ==
    ASSUME Untroubled, CampaignInv, TypeOK', InOrder, NEW t \in Tasks, NEW j \in Jobs,
           RunEnds(t, j)
    PROVE  InOrder'
<1>0. /\ task \in [Tasks -> TaskStates] /\ TypeOK /\ Slot \in TaskStates /\ Slot.todo = {}
      /\ jobs \in [1 .. made -> JobStates]
      /\ Between /\ j \in 1 .. made /\ UNCHANGED <<parent, running, made>>
  BY SlotType DEF CampaignInv, TypeInv, TypeOK, Slot, RunEnds, Job
<1>1. PICK s : /\ SetJob(j, s, FALSE)
               /\ s \in Stopped \cup {"parked"}
               /\ IF Stops(s) THEN Start(t, "stopped", "none", jobs[j].child, j)
                              ELSE UNCHANGED task
  BY DEF RunEnds, Stopped
<1>2. CASE s = "parked"
  <2>1. UNCHANGED task BY <1>1, <1>2 DEF Stops, Stopped
  <2>2. PICK run : run = FALSE OBVIOUS
  <2>. QED BY <1>0, <1>1, <1>2, <2>1, <2>2, JobGoesOn
<1>3. CASE s # "parked"
  <2>1. PICK c \in Children : jobs[j].child = c BY <1>0 DEF JobStates
  <2>2. PICK run : run = FALSE OBVIOUS
  <2>3. /\ Names' = Names /\ Frame(c) /\ (Linked(c) => Linked(c)')
        /\ jobs'[j].child = c /\ jobs'[j].status = s
    <3>1. SetJob(j, s, run) BY <1>1, <2>2
    <3>. QED BY <1>0, <2>1, <3>1, JobFrame
  <2>4. Stops(s) /\ s \in Stopped BY <1>1, <1>3 DEF Stops
  <2>5. task'[t] = [Slot EXCEPT !.pc = "stopped", !.op = "none", !.child = c, !.job = j]
        /\ \A u \in Tasks \ {t} : task'[u] = task[u]
    BY <1>0, <1>1, <2>1, <2>4 DEF Start, Become
  <2>6. /\ task'[t].pc = "stopped" /\ task'[t].child = c /\ task'[t].job = j /\ task'[t].todo = {}
    BY <1>0, <2>5 DEF TaskStates
  <2>7. c \in Names BY <1>0, <2>1 DEF InOrder
  <2>8. Knows(t)' BY <1>0, <2>3, <2>4, <2>6, <2>7 DEF Knows, Stops
  <2>9. Owes(t)' /\ Mends(t, c)' BY <2>6 DEF Owes, Mends
  <2>10. Rested' /\ Owed' BY <1>0, <2>9 DEF InOrder, Rested, Owed
  <2>11. /\ \A u \in Tasks : Steady(u) \/ Knows(u)'
         /\ \A u \in Tasks : \A n \in Children \ {c} : ~Mends(u, n)
         /\ Linked(c)
    BY <1>0, <2>5, <2>8, AtRest DEF Steady
  <2>12. Fit(c)' \/ \E u \in Tasks : Mends(u, c)' BY <2>9
  <2>. QED BY <1>0, <2>3, <2>10, <2>11, <2>12, InOrderKept
<1>. QED BY <1>2, <1>3

LEMMA OperateKeeps ==
    ASSUME Untroubled, CampaignInv, TypeOK', InOrder, NEW t \in Tasks, NEW op \in Operations,
           NEW n \in Children, Operate(t, op, n)
    PROVE  InOrder'
<1>0. /\ task \in [Tasks -> TaskStates] /\ TypeOK /\ Slot \in TaskStates /\ Slot.todo = {}
      /\ Between /\ task[t].pc = "idle" /\ n \in Names
      /\ UNCHANGED <<parent, running, jobs, made>>
  BY SlotType DEF CampaignInv, TypeInv, TypeOK, Slot, Operate, Free, Names, Registered
<1> DEFINE s == [Slot EXCEPT !.pc = First(op), !.op = op, !.child = n, !.job = 0]
<1>1. task'[t] = s /\ \A u \in Tasks \ {t} : task'[u] = task[u]
  BY <1>0 DEF Operate, Start, Become
<1>2. /\ task'[t].pc = First(op) /\ task'[t].op = op /\ task'[t].child = n /\ task'[t].todo = {}
  BY <1>0, <1>1 DEF TaskStates
<1>3. First(op) \in {"abandon", "start", "mutate"} /\ (First(op) = "abandon" => op = "abandon")
  BY DEF First
<1>4. Names' = Names BY <1>0 DEF Names, Registered
<1>5. Knows(t)' BY <1>0, <1>2, <1>3, <1>4 DEF Knows
<1>6. \A u \in Tasks : Owes(u) => Owes(u)'
  <2>1. ~Owes(t) BY <1>0 DEF Owes
  <2>2. \A u \in Tasks \ {t} : task[u].pc \in Resting BY <1>0, AtRest
  <2>3. \A u \in Tasks \ {t} : Owes(u) => Owes(u)' BY <1>1, <2>2 DEF Owes, Resting
  <2>. QED BY <2>1, <2>3
<1>7. Reason => Reason' BY <1>0 DEF Reason, Entry
<1>8. Rested' /\ Owed'
  BY <1>0, <1>4, <1>6, <1>7, SoundStays DEF InOrder, Rested, Owed, Waits
<1>. QED BY <1>0, <1>1, <1>4, <1>5, <1>8, OutsideKeeps

LEMMA WaitStart == Init => WaitInv
<1> SUFFICES ASSUME Init PROVE InOrder
  BY DEF WaitInv
<1>1. \A t \in Tasks : task[t].pc = "idle" /\ task[t].todo = {}
  BY SlotType DEF Init, Slot
<1>2. /\ made = 0 /\ running /\ parent.phase = "planning"
      /\ \A n \in Children : Entry(n).status = "absent" /\ Entry(n).job = 0
  BY DEF Init, Unread, Entry
<1>3. \A t \in Tasks : Knows(t) BY <1>1 DEF Knows
<1>4. \A n \in Children : Linked(n) /\ Fit(n) BY <1>2 DEF Linked, Fit, Halting
<1>. QED BY <1>2, <1>3, <1>4 DEF InOrder, Rested, Owed, Waits

LEMMA WaitKept ==
    ASSUME Untroubled, CampaignInv, CampaignInv', WaitInv, [Next]_vars
    PROVE  WaitInv'
<1>0. TypeOK /\ TypeOK' /\ spent \in Spending BY DEF CampaignInv, TypeInv, TypeOK
<1>1. CASE Restart
  <2>1. spent'.restarts = 1 BY <1>0, <1>1 DEF Restart, Spending
  <2>. QED BY <2>1 DEF WaitInv
<1>2. CASE ~Restart
  <2>1. spent'.restarts = spent.restarts BY <1>0, <1>2, RestartsKept
  <2> SUFFICES ASSUME InOrder PROVE InOrder'
    BY <2>1 DEF WaitInv
  <2>2. ASSUME NEW t \in Tasks, CallStep(t) PROVE InOrder'
    <3>1. ~CopyFails(t) /\ ~MarkFailed(t)
      BY DEF Untroubled, CopyFails, MarkFailed, At, InOrder, Knows
    <3>. QED BY <1>0, <2>2, <3>1, ReadsKeep, DecisionsKeep, StoresKeep, JobsKeep DEF CallStep
  <2>3. ASSUME NEW j \in Jobs, JobStep(j) PROVE InOrder'
    <3>1. ~CancelJob(j) BY DEF Untroubled, CancelJob
    <3>2. /\ SetJob(j, "running", TRUE) /\ j \in 1 .. made /\ Between
          /\ UNCHANGED <<parent, running, made, task>>
      BY <2>3, <3>1 DEF JobStep, WakeJob, RunOverwritesCancel, Job
    <3>3. PICK run : run = TRUE OBVIOUS
    <3>. QED BY <1>0, <3>2, <3>3, JobGoesOn
  <2>4. CASE UNCHANGED vars
    BY <2>4 DEF vars, InOrder, Rested, Owed, Waits, Sound, Reason, Owes, Knows, GoesOn, Linked,
       Fit, Mends, Entry, Names, Registered, Dangling, Cyclic, Copy, Refused
  <2>. QED BY <1>0, <1>2, <2>2, <2>3, <2>4, PlannerKeeps, RunEndsKeeps, OperateKeeps DEF Next
<1>. QED BY <1>1, <1>2

\* With the local state backend, no cancel of a child's job by a developer and
\* no context copy that fails, a coordinating parent with no call in flight and
\* a list that could be finalized waits for a dispatched child whose job runs or
\* is parked, until a restart forgets the calls: every call that takes such a
\* child away sweeps the campaign again, and a sweep that dispatches nothing has
\* found a child that is out.  The planner need not have finalized the list.
THEOREM ParentHasSomethingToWaitFor ==
    ASSUME Untroubled
    PROVE  Spec => []WaitingHasAReason
<1>1. CampaignInv /\ [Next]_vars => CampaignInv' BY CampaignKept DEF Untroubled
<1>2. CampaignInv /\ CampaignInv' /\ WaitInv /\ [Next]_vars => WaitInv' BY WaitKept
<1>3. WaitInv => WaitingHasAReason
  <2> SUFFICES ASSUME WaitInv, Waits, spent.restarts = 0, \A t \in Tasks : Free(t) PROVE Reason
    BY DEF WaitingHasAReason, Waits, Reason, Entry
  <2>1. \A t \in Tasks : ~Owes(t) BY DEF Free, Owes
  <2>. QED BY <2>1 DEF WaitInv, InOrder, Owed
<1>. QED BY <1>1, <1>2, <1>3, CampaignStart, WaitStart, PTL DEF Spec
=============================================================================
