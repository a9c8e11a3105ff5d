------------------------------ MODULE RunnerLink -------------------------------
(***************************************************************************)
(* How events of a team get from the cloud control plane to its runners:   *)
(* WebSocketTransport on the runner, WsGateway and RunnerRegistry in the   *)
(* cloud, and the start of a hybrid runner.  Events are what the routes of *)
(* the cloud send: a dispatch of a new job, or a webhook or control event  *)
(* for a job.                                                              *)
(*                                                                         *)
(* Each end notices by itself that a connection is gone.  A socket is      *)
(* named by its runner and a number; the cloud's end of it may stay open   *)
(* after the runner has opened the next one.  A process draws its runnerId *)
(* when it starts, so a restarted runner is another member of Runners.  No *)
(* heartbeat names a job, so sendToJob never finds a runner and every      *)
(* event takes the way of sendToTeam; marks of stale runners change no     *)
(* route either.                                                           *)
(***************************************************************************)
EXTENDS Naturals, Sequences

CONSTANTS
    Runners,    (* bound: processes of the team, named by their runnerId       *)
    MaxEvents,  (* bound: events in a behaviour                                *)
    MaxBreaks,  (* bound: connections that break                               *)
    Mishaps     (* "runner": its process ends; "cloud": the control plane's    *)

ASSUME LinkAssumption ==
    /\ MaxEvents \in Nat /\ MaxBreaks \in Nat
    /\ Mishaps \subseteq {"runner", "cloud"}

VARIABLES
    up,        (* the runner's open socket, 0: none                            *)
    opened,    (* how many sockets it has opened                               *)
    handler,   (* which events the runner's process listens to                 *)
    wire,      (* frames under way to the runner on its socket                 *)
    open,      (* sockets whose close the cloud has not seen                   *)
    closing,   (* those of them that it asked to close                         *)
    hello,     (* sockets whose registration the cloud has yet to read         *)
    asked,     (* sockets on which the runner waits for the list of jobs       *)
    registry,  (* the socket registered for each runner, 0: none               *)
    queue,     (* events that wait for a runner                                *)
    event,     (* the events so far and what became of them                    *)
    breaks     (* how many connections broke, and restarts                     *)

vars == <<up, opened, handler, wire, open, closing, hello, asked, registry, queue,
          event, breaks>>
runner == <<up, opened, handler, wire>>
cloud == <<open, closing, hello, asked, registry, queue>>

Kinds == {"dispatch", "control"}
Fates == {"queued", "wire", "handled", "unheard", "broken", "forgotten"}
Sockets == Runners \X (Nat \ {0})

\* A frame: the number of an event, or the answer to the list of jobs.
Answer == 0

Init ==
    /\ up = [r \in Runners |-> 0] /\ opened = up
    /\ handler = [r \in Runners |-> "none"]
    /\ wire = [r \in Runners |-> <<>>]
    /\ open = {} /\ closing = {} /\ hello = {} /\ asked = {}
    /\ registry = [r \in Runners |-> 0]
    /\ queue = <<>> /\ event = <<>> /\ breaks = 0

Become(events, fate) ==
    event' = [n \in DOMAIN event |->
                 IF n \in events THEN [event[n] EXCEPT !.fate = fate] ELSE event[n]]

-----------------------------------------------------------------------------
(* The runner's end.                                                         *)

Mine(r) == <<r, up[r]>>

RedialsFault(r) == opened[r] = 0
Redials(r) == handler[r] # "gone"

\* doConnect, at start or after a close; the registration goes out at once.
Connect(r) ==
    /\ up[r] = 0 /\ Redials(r)
    /\ opened' = [opened EXCEPT ![r] = @ + 1]
    /\ up' = [up EXCEPT ![r] = opened'[r]]
    /\ open' = open \cup {<<r, opened'[r]>>}
    /\ hello' = hello \cup {<<r, opened'[r]>>}
    /\ UNCHANGED <<handler, wire, closing, asked, registry, queue, event, breaks>>

\* The Dispatcher listens, but not to dispatches yet: bootstrap of the rate
\* limit scheduler first lists the jobs, with an RPC.
StartDispatcher(r) ==
    /\ handler[r] = "none" /\ opened[r] # 0
    /\ handler' = [handler EXCEPT ![r] = IF up[r] = 0 THEN "all" ELSE "base"]
    /\ asked' = asked \cup ({Mine(r)} \cap open)
    /\ UNCHANGED <<up, opened, wire, open, closing, hello, registry, queue, event, breaks>>

\* Three timeouts in a row end bootstrap without an answer.
GiveUpListing(r) ==
    /\ handler[r] = "base"
    /\ handler' = [handler EXCEPT ![r] = "all"]
    /\ UNCHANGED <<up, opened, wire, cloud, event, breaks>>

\* handleCloudMessage drops what arrives before there is a handler; that of
\* the Dispatcher ignores dispatches.
Hears(r, kind) ==
    \/ handler[r] = "all"
    \/ handler[r] = "base" /\ kind = "control"

Receive(r) ==
    /\ wire[r] # <<>>
    /\ wire' = [wire EXCEPT ![r] = Tail(@)]
    /\ LET n == Head(wire[r])
       IN IF n = Answer
          THEN /\ handler' = [handler EXCEPT ![r] = "all"]
               /\ UNCHANGED event
          ELSE /\ Become({n}, IF Hears(r, event[n].kind) THEN "handled" ELSE "unheard")
               /\ UNCHANGED handler
    /\ UNCHANGED <<up, opened, cloud, breaks>>

OnWire(r) == {wire[r][i] : i \in DOMAIN wire[r]} \ {Answer}
CutFault(r) == wire
Cut(r) == [wire EXCEPT ![r] = <<>>]

\* The runner sees its socket close: the cloud closed it, or the connection
\* broke.  Waiting RPCs fail, which ends bootstrap too.
SeeClose(r) ==
    /\ up[r] # 0
    /\ IF Mine(r) \in open \ closing THEN breaks < MaxBreaks /\ breaks' = breaks + 1
                                     ELSE UNCHANGED breaks
    /\ up' = [up EXCEPT ![r] = 0]
    /\ wire' = Cut(r)
    /\ Become(OnWire(r), "broken")
    /\ handler' = [handler EXCEPT ![r] = IF @ = "base" THEN "all" ELSE @]
    /\ UNCHANGED <<opened, cloud>>

\* The process ends; another one of the team is left to be started.
EndRunner(r) ==
    /\ "runner" \in Mishaps /\ handler[r] # "gone"
    /\ \E q \in Runners \ {r} : handler[q] # "gone"
    /\ up' = [up EXCEPT ![r] = 0]
    /\ wire' = Cut(r)
    /\ Become(OnWire(r), "broken")
    /\ handler' = [handler EXCEPT ![r] = "gone"]
    /\ UNCHANGED <<opened, cloud, breaks>>

-----------------------------------------------------------------------------
(* The cloud's end.                                                          *)

\* Frames put on a socket that the runner has left go nowhere.
Put(socket, frames) ==
    LET r == socket[1]
    IN IF socket = Mine(r)
       THEN /\ wire' = [wire EXCEPT ![r] = @ \o frames]
            /\ Become({frames[i] : i \in DOMAIN frames}, "wire")
       ELSE /\ UNCHANGED wire
            /\ Become({frames[i] : i \in DOMAIN frames}, "broken")

DrainedFault == queue
Drained == <<>>

\* handleRegister: a new registration replaces the runner's old one, whose
\* socket is asked to close, and takes the queue whole.
Register(s) ==
    /\ s \in hello \ closing
    /\ hello' = hello \ {s}
    /\ closing' = closing \cup ({<<s[1], registry[s[1]]>>} \cap (open \ {s}))
    /\ registry' = [registry EXCEPT ![s[1]] = s[2]]
    /\ Put(s, queue)
    /\ queue' = Drained
    /\ UNCHANGED <<up, opened, handler, open, asked, breaks>>

\* The RPC for the jobs is read after the registration on the same socket.
ListJobs(s) ==
    /\ s \in asked \ hello
    /\ asked' = asked \ {s}
    /\ wire' = IF s = Mine(s[1]) THEN [wire EXCEPT ![s[1]] = Append(@, Answer)] ELSE wire
    /\ UNCHANGED <<up, opened, handler, open, closing, hello, registry, queue, event, breaks>>

\* unregisterByWs: a close takes out only the entry that has this socket.
LeavesFault(s) == TRUE
Leaves(s) == registry[s[1]] = s[2]

Close(s) ==
    /\ s \in open
    /\ IF s = Mine(s[1]) /\ s \notin closing THEN breaks < MaxBreaks /\ breaks' = breaks + 1
                                             ELSE UNCHANGED breaks
    /\ open' = open \ {s}
    /\ closing' = closing \ {s}
    /\ hello' = hello \ {s}
    /\ asked' = asked \ {s}
    /\ registry' = IF Leaves(s) THEN [registry EXCEPT ![s[1]] = 0] ELSE registry
    /\ UNCHANGED <<runner, queue, event>>

\* sendToTeam: to a runner whose socket is open, or to the queue.
Reachable == {r \in Runners : registry[r] # 0 /\ <<r, registry[r]>> \in open \ closing}

Send(kind) ==
    /\ Len(event) < MaxEvents
    /\ LET n == Len(event) + 1
           With(fate) == event' = Append(event, [kind |-> kind, fate |-> fate,
                                                 waited |-> fate = "queued"])
       IN IF Reachable = {}
          THEN queue' = Append(queue, n) /\ With("queued") /\ UNCHANGED wire
          ELSE /\ \E r \in Reachable :
                    IF registry[r] = up[r]
                    THEN wire' = [wire EXCEPT ![r] = Append(@, n)] /\ With("wire")
                    ELSE UNCHANGED wire /\ With("broken")
               /\ UNCHANGED queue
    /\ UNCHANGED <<up, opened, handler, open, closing, hello, asked, registry, breaks>>

\* The registry and the queue live in the memory of the control plane.
RestartCloud ==
    /\ "cloud" \in Mishaps /\ breaks < MaxBreaks /\ breaks' = breaks + 1
    /\ open' = {} /\ closing' = {} /\ hello' = {} /\ asked' = {}
    /\ registry' = [r \in Runners |-> 0]
    /\ queue' = <<>>
    /\ Become({queue[i] : i \in DOMAIN queue}, "forgotten")
    /\ UNCHANGED runner

-----------------------------------------------------------------------------
Link(r) == Connect(r) \/ StartDispatcher(r) \/ Receive(r)
Gateway(r) == \E s \in open : s[1] = r /\ (Register(s) \/ ListJobs(s))

Next ==
    \/ \E r \in Runners : \/ Link(r) \/ GiveUpListing(r) \/ SeeClose(r) \/ EndRunner(r)
                          \/ Gateway(r)
    \/ \E s \in open : Close(s)
    \/ \E kind \in Kinds : Send(kind)
    \/ RestartCloud

Spec == Init /\ [][Next]_vars

\* A process that once had a connection tries until it has the next one; what
\* was sent arrives, and a close that one end asked for reaches the other.
FairSpec ==
    /\ Spec
    /\ \A r \in Runners :
          /\ WF_vars(opened[r] # 0 /\ Link(r))
          /\ WF_vars(Mine(r) \notin open /\ SeeClose(r))
          /\ WF_vars(\E s \in closing : s[1] = r /\ Close(s))
          /\ WF_vars(Gateway(r))

-----------------------------------------------------------------------------
\* The type invariant: frames are under way on an open socket only.
TypeOK ==
    /\ opened \in [Runners -> Nat]
    /\ up \in [Runners -> Nat] /\ \A r \in Runners : up[r] \in {0, opened[r]}
    /\ handler \in [Runners -> {"none", "base", "all", "gone"}]
    /\ wire \in [Runners -> Seq(Nat)] /\ \A r \in Runners : up[r] = 0 => wire[r] = <<>>
    /\ open \subseteq Sockets /\ closing \subseteq open /\ hello \subseteq open /\ asked \subseteq open
    /\ registry \in [Runners -> Nat]
    /\ queue \in Seq(1 .. Len(event))
    /\ event \in Seq([kind: Kinds, fate: Fates, waited: BOOLEAN])
    /\ breaks \in 0 .. MaxBreaks

\* Events reach a runner in the order in which the cloud accepted them, and none
\* twice: queues, sockets and registrations that replace each other never let a
\* later event overtake an earlier one on its way to the same runner.
EventsKeepTheirOrder ==
    /\ \A r \in Runners : \A i, j \in DOMAIN wire[r] :
          i < j /\ Answer \notin {wire[r][i], wire[r][j]} => wire[r][i] < wire[r][j]
    /\ \A r \in Runners : \A n \in OnWire(r) : event[n].fate = "wire"
    /\ \A i \in DOMAIN queue : \A r \in Runners : \A n \in OnWire(r) : n < queue[i]

\* The late close of a socket that was replaced does not unregister the runner:
\* a socket open at both ends whose registration was read is the runner's entry,
\* unless the cloud has asked to close it, so that the runner opens another one.
LiveSocketIsRegistered ==
    \A r \in Runners :
        Mine(r) \in open \ (hello \cup closing) => registry[r] = up[r]

\* "delivered on the next runner registration" (sendToJobOrTeam): while a process
\* of the team lives the queue does not wait for ever, however connections break
\* and registrations replace each other.
Lives(r) == opened[r] # 0 /\ handler[r] # "gone"
QueueIsTaken ==
    \A r \in Runners : queue # <<>> /\ Lives(r) ~> queue = <<>> \/ ~Lives(r)

\* "queued here and delivered on reconnect" (runner-registry.ts): an event that
\* waited for a runner is heard by the runner it is given to.
WaitingEventsAreHeard ==
    \A n \in DOMAIN event : event[n].waited => event[n].fate # "unheard"
=============================================================================
