------------------------------ MODULE Polling ------------------------------
(***************************************************************************)
(* The polling transport of local mode (state/polling-transport.ts) and    *)
(* what the dispatcher does with the events it makes up (handlePluginEvent *)
(* in jobs/dispatcher.ts).  One job has opened the pull requests PRs.  A   *)
(* cycle reads the job's row once, then asks the provider for one pull     *)
(* request after the other and hands what changed to the dispatcher, event *)
(* by event; every call it awaits lets the run, people, the provider and   *)
(* a restart in between.                                                   *)
(***************************************************************************)
EXTENDS JobStatus, Integers, Sequences, SequencesExt, FiniteSets

CONSTANTS
    PRs,            \* the pull requests the job has opened
    Threshold,      \* FAILURE_THRESHOLD
    Awaitable,      \* what await_event may name: "merged", "approved", "rejected"; or "input"
    Mishaps,        \* what may go wrong: "provider" (out of reach), "handler" (throws),
                    \* "noise" (the wake gate takes comments for noise)
    MaxReviews, MaxParks, MaxMishaps, MaxRestarts   \* bounds

ASSUME PollingAssumption ==
    /\ IsFiniteSet(PRs) /\ PRs # {}
    /\ Threshold \in Nat \ {0}
    /\ Awaitable \subseteq {"merged", "approved", "rejected", "input"}
    /\ Mishaps \subseteq {"provider", "handler", "noise"}
    /\ {MaxReviews, MaxParks, MaxMishaps, MaxRestarts} \subseteq Nat

VARIABLES
    job,         \* its row: the status, and the verb and pull request it awaits
    stamped,     \* the pull requests whose mapping has mergedAt
    run,         \* the job's run: "off", "on", or "ending" between its last write and finally
    queued,      \* the kinds of events that arrived for the running job
    scm,         \* the provider's truth about each pull request
    reach,       \* the pull requests the provider answers for
    snapshots,   \* last reading of each pull request
    failures,    \* failed polls of each in a row
    unreachable, \* unreachableRefs
    stopped,     \* isStoppedWithReason of the cycle's copy of the job's row
    todo,        \* the pull requests the cycle has left, the one it is at first
    pending,     \* what is left to do with the one it is at
    told,        \* history: the comments handed over, per pull request
    lost,        \* history: the pull requests of which an event was lost, in the handler
                 \* or, after a merge was stamped, with the process
    bounds       \* reviewers' acts, parks, mishaps and restarts so far

poller == <<snapshots, failures, unreachable, stopped, todo, pending>>
dispatcher == <<job, stamped, run, queued>>
history == <<told, lost>>
vars == <<dispatcher, scm, reach, poller, history, bounds>>

Nothing == "none"
Unread == [state |-> Nothing, approvals |-> 0, comments |-> 0]
Readings == [state : {"open", "merged", "declined"},
             approvals : 0..MaxReviews, comments : 0..MaxReviews]
Keys == {"pullrequest:fulfilled", "pullrequest:rejected", "pullrequest:updated",
         "pullrequest:approved", "pullrequest:comment_created", "cold_start", "escalate"}
Event(k) == [key |-> k, comment |-> 0]

TypeOK ==
    /\ job \in [status : Statuses, verb : Awaitable \cup {Nothing},
                pr : PRs \cup {Nothing}]
    /\ stamped \subseteq PRs
    /\ run \in {"off", "on", "ending"} /\ queued \subseteq Keys
    /\ scm \in [PRs -> Readings] /\ reach \subseteq PRs
    /\ snapshots \in [PRs -> Readings \cup {Unread}]
    /\ failures \in [PRs -> 0..(Threshold - 1)] /\ unreachable \subseteq PRs
    /\ stopped \in BOOLEAN /\ todo \in Seq(PRs)
    /\ pending \in Seq([key : Keys, comment : 0..MaxReviews])
    /\ told \in [PRs -> Seq(1..MaxReviews)] /\ lost \subseteq PRs
    /\ bounds \in [reviews : 0..MaxReviews, parks : 0..MaxParks,
                   mishaps : 0..MaxMishaps, restarts : 0..MaxRestarts]

\* await_event, or a question to the developer
ParkedFor(v, p) ==
    IF v = "input" THEN [status |-> AwaitingInput, verb |-> Nothing, pr |-> Nothing]
    ELSE [status |-> AwaitingEvent, verb |-> v, pr |-> p]

\* the job parks for the first time: until then the poller has nothing to ask
Init ==
    /\ \E v \in Awaitable, p \in PRs : job = ParkedFor(v, p)
    /\ stamped = {} /\ run = "ending" /\ queued = {}
    /\ scm = [p \in PRs |-> [Unread EXCEPT !.state = "open"]] /\ reach = PRs
    /\ snapshots = [p \in PRs |-> Unread] /\ failures = [p \in PRs |-> 0]
    /\ unreachable = {} /\ stopped = FALSE /\ todo = <<>> /\ pending = <<>>
    /\ told = [p \in PRs |-> <<>>] /\ lost = {}
    /\ bounds = [reviews |-> 0, parks |-> 0, mishaps |-> 0, restarts |-> 0]

-----------------------------------------------------------------------------
(* A cycle.                                                                *)

\* prIdsToPoll: the open mappings, or the awaited one when all are merged
Pollable ==
    IF stamped # PRs THEN PRs \ stamped ELSE {job.pr} \ {Nothing}

\* isStoppedWithReason
StoppedWithReason(s) == s \in {Escalated, Failed}

\* poll: the job is listed, once for the cycle
CycleStarts ==
    /\ todo = <<>>
    /\ Parking(job.status) /\ Pollable # {}
    /\ todo' = SetToSeq(Pollable)
    /\ stopped' = StoppedWithReason(job.status)
    /\ UNCHANGED <<dispatcher, scm, reach, snapshots, failures, unreachable, pending,
                   history, bounds>>

At == Head(todo)
Free == todo # <<>> /\ pending = <<>>

\* the cycle moves on when the pull request it is at leaves nothing to do
GoesOn(rest) ==
    /\ pending' = rest
    /\ todo' = IF rest = <<>> THEN Tail(todo) ELSE todo
    /\ stopped' = (stopped /\ todo' # <<>>)

\* a reference given up on stays skipped while the job, as listed, is stopped
SkippedFault(p) == p \in unreachable
Skipped(p) == p \in unreachable /\ stopped

Skips ==
    /\ Free /\ Skipped(At)
    /\ GoesOn(<<>>)
    /\ UNCHANGED <<dispatcher, scm, reach, snapshots, failures, unreachable, history, bounds>>

\* checkPr: how two readings in a row differ, as events
StateChange(prev, cur) ==
    IF cur.state = prev.state THEN <<>>
    ELSE <<Event(CASE cur.state = "merged" -> "pullrequest:fulfilled"
                   [] cur.state = "declined" -> "pullrequest:rejected"
                   [] OTHER -> "pullrequest:updated")>>

NewApproval(prev, cur) ==
    IF cur.approvals > prev.approvals THEN <<Event("pullrequest:approved")>> ELSE <<>>

NewCommentsFault(prev, cur) ==
    IF cur.comments = prev.comments THEN <<>>
    ELSE [i \in 1..cur.comments |-> [key |-> "pullrequest:comment_created", comment |-> i]]
NewComments(prev, cur) ==
    [i \in 1..(cur.comments - prev.comments) |->
        [key |-> "pullrequest:comment_created", comment |-> prev.comments + i]]

Changes(prev, cur) ==
    IF prev = Unread THEN <<Event("cold_start")>>
    ELSE StateChange(prev, cur) \o NewApproval(prev, cur) \o NewComments(prev, cur)

\* the provider answers; the reading is stored before anything is delivered
Answers ==
    /\ Free /\ ~Skipped(At) /\ At \in reach
    /\ unreachable' = unreachable \ {At}
    /\ failures' = [failures EXCEPT ![At] = 0]
    /\ snapshots' = [snapshots EXCEPT ![At] = scm[At]]
    /\ GoesOn(Changes(snapshots[At], scm[At]))
    /\ UNCHANGED <<dispatcher, scm, reach, history, bounds>>

\* handlePollError: the count starts again when the job is escalated
CountedFault(n) == n + 1
Counted(n) == IF n + 1 < Threshold THEN n + 1 ELSE 0

Errs(p) ==
    LET givenUp == failures[p] + 1 >= Threshold IN
    /\ failures' = [failures EXCEPT ![p] = Counted(@)]
    /\ unreachable' = IF givenUp THEN unreachable \cup {p} ELSE unreachable \ {p}
    /\ snapshots' = IF givenUp THEN [snapshots EXCEPT ![p] = Unread] ELSE snapshots
    /\ GoesOn(IF givenUp /\ ~stopped THEN <<Event("escalate")>> ELSE <<>>)

Fails ==
    /\ Free /\ ~Skipped(At) /\ At \notin reach
    /\ Errs(At)
    /\ UNCHANGED <<dispatcher, scm, reach, history, bounds>>

\* escalateUnreachablePr, whatever the row says by now
Escalates ==
    /\ pending = <<Event("escalate")>>
    /\ job' = [job EXCEPT !.status = Escalated]
    /\ GoesOn(<<>>)
    /\ UNCHANGED <<stamped, run, queued, scm, reach, snapshots, failures, unreachable, history, bounds>>

-----------------------------------------------------------------------------
(* The dispatcher's end.                                                   *)

\* injectAndResume and fireAndForget: the row is rewritten and a run starts
Woken == [job EXCEPT !.status = Running, !.verb = Nothing, !.pr = Nothing]

\* screenInbound: a live wake gate may drop events with a text, and only comments have one
Noise(keys) == "noise" \in Mishaps /\ keys \subseteq {"pullrequest:comment_created"}
Wakes(keys) ==
    \/ run' = "on" /\ job' = Woken
    \/ Noise(keys) /\ run' = "off" /\ UNCHANGED job

\* handlePluginEvent, with reconcileMergedMapping
Handles(p, e) ==
    IF ~Resumable(job.status) THEN UNCHANGED dispatcher
    ELSE /\ stamped' = IF e.key = "pullrequest:fulfilled" THEN stamped \cup {p} ELSE stamped
         /\ queued' = IF run = "off" THEN queued ELSE queued \cup {e.key}
         /\ IF run = "off" /\ Parking(job.status) THEN Wakes({e.key})
            ELSE UNCHANGED <<run, job>>

Comment(e) == IF e.comment = 0 THEN <<>> ELSE <<e.comment>>

Delivers ==
    /\ pending # <<>> /\ Head(pending).key \notin {"cold_start", "escalate"}
    /\ Handles(At, Head(pending))
    /\ told' = [told EXCEPT ![At] = @ \o Comment(Head(pending))]
    /\ GoesOn(Tail(pending))
    /\ UNCHANGED <<scm, reach, snapshots, failures, unreachable, lost, bounds>>

\* eventKeyMatchesAwaited, for what the row awaits now
AwaitedFault(r) ==
    IF r.state = "declined" /\ job.verb = "rejected" THEN <<Event("pullrequest:rejected")>>
    ELSE IF r.approvals > 0 /\ job.verb = "approved" THEN <<Event("pullrequest:approved")>>
    ELSE <<>>
Awaited(r) ==
    IF r.state = "merged" /\ job.verb = "merged" THEN <<Event("pullrequest:fulfilled")>>
    ELSE IF r.state = "declined" /\ job.verb = "rejected" THEN <<Event("pullrequest:rejected")>>
    ELSE IF r.approvals > 0 /\ job.verb = "approved" THEN <<Event("pullrequest:approved")>>
    ELSE <<>>

\* the first reading wakes the job only with what it awaits
ColdStarts ==
    /\ pending = <<Event("cold_start")>>
    /\ GoesOn(Awaited(snapshots[At]))
    /\ UNCHANGED <<dispatcher, scm, reach, snapshots, failures, unreachable, history, bounds>>

\* the handler throws before it changed anything: the rest is not delivered
HandlerFails ==
    /\ "handler" \in Mishaps /\ bounds.mishaps < MaxMishaps
    /\ pending # <<>> /\ Head(pending).key \notin {"cold_start", "escalate"}
    /\ Errs(At)
    /\ lost' = lost \cup {At}
    /\ bounds' = [bounds EXCEPT !.mishaps = @ + 1]
    /\ UNCHANGED <<dispatcher, scm, reach, told>>

-----------------------------------------------------------------------------
(* The run, people, the provider, the process.                             *)

Parks(v, p) ==
    /\ run = "on" /\ bounds.parks < MaxParks
    /\ job' = ParkedFor(v, p)
    /\ run' = "ending"
    /\ bounds' = [bounds EXCEPT !.parks = @ + 1]
    /\ UNCHANGED <<stamped, queued, scm, reach, poller, history>>

\* it escalates, finishes, or finds its row stopped and leaves it
Stops ==
    /\ run = "on"
    /\ \/ job' = [job EXCEPT !.status = Escalated]
       \/ job' = [job EXCEPT !.status = Complete]
       \/ Parking(job.status) /\ job' = job
    /\ run' = "ending"
    /\ UNCHANGED <<stamped, queued, scm, reach, poller, history, bounds>>

\* the run's finally: events queued meanwhile wake a job that parked
Ends ==
    /\ run = "ending"
    /\ queued' = {}
    /\ IF queued # {} /\ Parking(job.status) THEN Wakes(queued)
       ELSE run' = "off" /\ UNCHANGED job
    /\ UNCHANGED <<stamped, scm, reach, poller, history, bounds>>

\* resumeJob or sendMessage
Resumes ==
    /\ run = "off" /\ Resumable(job.status)
    /\ run' = "on" /\ job' = Woken
    /\ UNCHANGED <<stamped, queued, scm, reach, poller, history, bounds>>

\* a reviewer merges, declines, approves, reopens or comments
Reviewed(p) ==
    /\ bounds.reviews < MaxReviews
    /\ bounds' = [bounds EXCEPT !.reviews = @ + 1]
    /\ \/ /\ scm[p].state = "open"
          /\ \/ \E s \in {"merged", "declined"} : scm' = [scm EXCEPT ![p].state = s]
             \/ scm' = [scm EXCEPT ![p].approvals = @ + 1]
       \/ scm[p].state = "declined" /\ scm' = [scm EXCEPT ![p].state = "open"]
       \/ scm' = [scm EXCEPT ![p].comments = @ + 1]
    /\ UNCHANGED <<dispatcher, reach, poller, history>>

\* deleted, renamed or forbidden, and found again
Vanishes(p) ==
    /\ "provider" \in Mishaps /\ bounds.mishaps < MaxMishaps
    /\ p \in reach
    /\ reach' = reach \ {p}
    /\ bounds' = [bounds EXCEPT !.mishaps = @ + 1]
    /\ UNCHANGED <<dispatcher, scm, poller, history>>

Returns(p) ==
    /\ p \notin reach
    /\ reach' = reach \cup {p}
    /\ UNCHANGED <<dispatcher, scm, poller, history, bounds>>

\* a delivery cut short may have stamped a merge and not yet woken the job
StampedByThen ==
    IF pending # <<>> /\ Head(pending).key = "pullrequest:fulfilled" /\ Resumable(job.status)
    THEN {stamped, stamped \cup {At}} ELSE {stamped}

\* the process dies and starts: rows stay, everything in memory goes
Restarts ==
    /\ bounds.restarts < MaxRestarts
    /\ stamped' \in StampedByThen
    /\ lost' = lost \cup IF "pullrequest:fulfilled" \in queued THEN stamped'
                          ELSE stamped' \ stamped
    /\ run' = "off" /\ queued' = {}
    /\ snapshots' = [p \in PRs |-> Unread] /\ failures' = [p \in PRs |-> 0]
    /\ unreachable' = {} /\ stopped' = FALSE /\ todo' = <<>> /\ pending' = <<>>
    /\ bounds' = [bounds EXCEPT !.restarts = @ + 1]
    /\ UNCHANGED <<job, scm, reach, told>>

Cycle == CycleStarts \/ Skips \/ Answers \/ Fails \/ Escalates \/ ColdStarts \/ Delivers
Run == (\E v \in Awaitable, p \in PRs : Parks(v, p)) \/ Stops \/ Ends

Next ==
    \/ Cycle \/ HandlerFails \/ Run \/ Resumes \/ Restarts
    \/ \E p \in PRs : Reviewed(p) \/ Vanishes(p) \/ Returns(p)

Spec == Init /\ [][Next]_vars

\* the interval timer and answered calls move a cycle; every run ends its turn
FairSpec == Spec /\ WF_vars(Cycle) /\ WF_vars(Run)

-----------------------------------------------------------------------------
(* A comment reaches the dispatcher at most once and after the ones before *)
(* it, across failed deliveries, pull requests given up on and found       *)
(* again, and restarts (checkPr keeps the count it sliced at).             *)
CommentsAreToldOnce ==
    \A p \in PRs : \A i, j \in DOMAIN told[p] : i < j => told[p][i] < told[p][j]

(* A job that awaits a merge leaves that wait - it wakes, escalates or is  *)
(* stopped - and a stamp on its row is not enough: the merge is found by   *)
(* the next reading, in the first one after a restart and after an outage  *)
(* too, and wakes the job even when it arrives while the run that parked   *)
(* it is still ending.  Left out are a merge the poller has read before    *)
(* the job awaited it, which checkPr does not tell again (nor does it ask  *)
(* about a mapping it has stamped), and a pull request of which an event   *)
(* was lost, in the handler or when the process died between the stamp and *)
(* the wake-up: it is not delivered again either.                          *)
WaitsForMerge ==
    job.status = AwaitingEvent /\ job.verb = "merged" /\ scm[job.pr].state = "merged"
AwaitsMerge == WaitsForMerge /\ job.pr \notin lost
Passed == snapshots[job.pr].state = "merged" \/ job.pr \in stamped
AwaitedMergeIsHeard == (AwaitsMerge /\ ~Passed) ~> ~AwaitsMerge

(* The same across a restart, from "Run an immediate poll so any           *)
(* already-merged PRs are detected on startup" (polling-transport.ts:115): *)
(* fails even with Mishaps = {}.  The merge is stamped and queued for a    *)
(* run that is ending, or stamped just before the wake-up; the process     *)
(* dies, and a stamped mapping is not polled while another is open.        *)
MergeIsHeardAfterRestart == (WaitsForMerge /\ ~Passed) ~> ~WaitsForMerge

(* A job does not wait for ever on a pull request nobody can reach: after  *)
(* enough failed polls a person is told, also when the job had been        *)
(* escalated for it before and was resumed (unreachableRefs).              *)
WaitsInVain(p) == job.status = AwaitingEvent /\ p \in Pollable \ reach
LostPullRequestIsReported == \A p \in PRs : WaitsInVain(p) ~> ~WaitsInVain(p)

(* "Leaves an already-stopped job alone: whatever escalation is on it now  *)
(* is at least as informative as ours, and overwriting it would bury the   *)
(* original reason the job stopped" (polling-transport.ts:398-400).        *)
ReasonIsKept == [][Escalates => ~StoppedWithReason(job.status)]_vars
=============================================================================
