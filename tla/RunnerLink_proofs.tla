-------------------------- MODULE RunnerLink_proofs ---------------------------
(***************************************************************************)
(* What RunnerLink promises, for any number of runners, events, breaks and *)
(* restarts.                                                               *)
(***************************************************************************)
EXTENDS RunnerLink, SequenceTheorems, TLAPS

-----------------------------------------------------------------------------
(* Types.                                                                    *)

Events == [kind: Kinds, fate: Fates, waited: BOOLEAN]

\* The fate of events changes, and nothing else of them.
LEMMA BecomeType ==
    ASSUME event \in Seq(Events), NEW events, NEW fate \in Fates, Become(events, fate)
    PROVE  /\ event' \in Seq(Events) /\ Len(event') = Len(event)
           /\ DOMAIN event' = DOMAIN event
           /\ \A n \in DOMAIN event :
                 event'[n].fate = IF n \in events THEN fate ELSE event[n].fate
<1>1. \A n \in 1 .. Len(event) : event[n] \in Events OBVIOUS
<1>2. event' \in [1 .. Len(event) -> Events] BY <1>1 DEF Become, Events
<1>3. event' \in Seq(Events) /\ Len(event') = Len(event) BY <1>2
<1>4. \A n \in DOMAIN event :
         event'[n].fate = IF n \in events THEN fate ELSE event[n].fate
  BY <1>1 DEF Become, Events
<1>. QED BY <1>2, <1>3, <1>4

LEMMA InitType == Init => TypeOK
BY LinkAssumption DEF Init, TypeOK, Sockets

LEMMA PutType ==
    ASSUME TypeOK, NEW s \in open, NEW frames \in Seq(1 .. Len(event)), Put(s, frames)
    PROVE  /\ wire' \in [Runners -> Seq(Nat)]
           /\ \A r \in Runners : up[r] = 0 => wire'[r] = <<>>
           /\ event' \in Seq(Events) /\ Len(event') = Len(event)
<1> DEFINE r == s[1]
<1>1. r \in Runners /\ s = <<r, s[2]>> /\ s[2] # 0 BY DEF TypeOK, Sockets
<1>2. event \in Seq(Events) BY DEF TypeOK, Events
<1>3. event' \in Seq(Events) /\ Len(event') = Len(event)
  BY <1>2, BecomeType DEF Put, Fates
<1>4. CASE s = Mine(r)
  <2>1. up[r] # 0 BY <1>1, <1>4 DEF Mine
  <2>2. frames \in Seq(Nat)
    <3>1. \A i \in 1 .. Len(frames) : frames[i] \in Nat BY DEF TypeOK
    <3>. QED BY <3>1
  <2>3. wire[r] \o frames \in Seq(Nat) BY <1>1, <2>2 DEF TypeOK
  <2>4. wire' = [wire EXCEPT ![r] = wire[r] \o frames] BY <1>4 DEF Put
  <2>. QED BY <1>1, <1>3, <2>1, <2>3, <2>4 DEF TypeOK
<1>5. CASE s # Mine(r)
  BY <1>3, <1>5 DEF Put, TypeOK
<1>. QED BY <1>4, <1>5

LEMMA TypeKept == TypeOK /\ [Next]_vars => TypeOK'
<1> SUFFICES ASSUME TypeOK, [Next]_vars PROVE TypeOK'
  OBVIOUS
<1>0. event \in Seq(Events) /\ Len(event) \in Nat BY DEF TypeOK, Events
<1>1. CASE UNCHANGED vars
  BY <1>1 DEF TypeOK, vars
<1>2. ASSUME NEW r \in Runners, Connect(r) PROVE TypeOK'
  <2>1. opened' \in [Runners -> Nat] /\ opened'[r] = opened[r] + 1
        /\ \A q \in Runners \ {r} : opened'[q] = opened[q]
    BY <1>2 DEF Connect, TypeOK
  <2>2. up' \in [Runners -> Nat] /\ \A q \in Runners : up'[q] \in {0, opened'[q]}
    BY <1>2, <2>1 DEF Connect, TypeOK
  <2>3. \A q \in Runners : up'[q] = 0 => wire'[q] = <<>>
    BY <1>2, <2>1 DEF Connect, TypeOK
  <2>4. <<r, opened'[r]>> \in Sockets BY <2>1 DEF Sockets, TypeOK
  <2>. QED BY <1>2, <2>1, <2>2, <2>3, <2>4 DEF Connect, TypeOK
<1>3. ASSUME NEW r \in Runners, StartDispatcher(r) PROVE TypeOK'
  <2>1. handler' \in [Runners -> {"none", "base", "all", "gone"}] /\ asked' \subseteq open
    BY <1>3 DEF StartDispatcher, TypeOK
  <2>. QED BY <1>3, <2>1 DEF StartDispatcher, TypeOK
<1>4. ASSUME NEW r \in Runners, GiveUpListing(r) PROVE TypeOK'
  <2>1. handler' \in [Runners -> {"none", "base", "all", "gone"}]
    BY <1>4 DEF GiveUpListing, TypeOK
  <2>. QED BY <1>4, <2>1 DEF GiveUpListing, TypeOK, cloud
<1>5. ASSUME NEW r \in Runners, Receive(r) PROVE TypeOK'
  <2>1. wire[r] \in Seq(Nat) /\ wire[r] # <<>> BY <1>5 DEF Receive, TypeOK
  <2>2. Tail(wire[r]) \in Seq(Nat) BY <2>1
  <2>3. wire' \in [Runners -> Seq(Nat)] /\ \A q \in Runners : up[q] = 0 => wire'[q] = <<>>
    BY <1>5, <2>2 DEF Receive, TypeOK
  <2>4. handler' \in [Runners -> {"none", "base", "all", "gone"}]
    BY <1>5 DEF Receive, TypeOK
  <2>5. event' \in Seq(Events) /\ Len(event') = Len(event)
    <3>1. CASE Head(wire[r]) = Answer BY <1>0, <1>5, <3>1 DEF Receive
    <3>2. CASE Head(wire[r]) # Answer
      <4>1. PICK fate \in Fates : Become({Head(wire[r])}, fate)
        BY <1>5, <3>2 DEF Receive, Fates
      <4>. QED BY <1>0, <4>1, BecomeType
    <3>. QED BY <3>1, <3>2
  <2>. QED BY <1>5, <2>3, <2>4, <2>5 DEF Receive, TypeOK, Events, cloud
<1>6. ASSUME NEW r \in Runners, SeeClose(r) PROVE TypeOK'
  <2>1. up' \in [Runners -> Nat] /\ \A q \in Runners : up'[q] \in {0, opened[q]}
    BY <1>6 DEF SeeClose, TypeOK
  <2>2. wire' \in [Runners -> Seq(Nat)] /\ \A q \in Runners : up'[q] = 0 => wire'[q] = <<>>
    BY <1>6 DEF SeeClose, Cut, TypeOK
  <2>3. handler' \in [Runners -> {"none", "base", "all", "gone"}]
    BY <1>6 DEF SeeClose, TypeOK
  <2>4. event' \in Seq(Events) /\ Len(event') = Len(event)
    BY <1>0, <1>6, BecomeType DEF SeeClose, Fates
  <2>5. breaks' \in 0 .. MaxBreaks BY <1>6, LinkAssumption DEF SeeClose, TypeOK
  <2>. QED BY <1>6, <2>1, <2>2, <2>3, <2>4, <2>5 DEF SeeClose, TypeOK, Events, cloud
<1>7. ASSUME NEW r \in Runners, EndRunner(r) PROVE TypeOK'
  <2>1. up' \in [Runners -> Nat] /\ \A q \in Runners : up'[q] \in {0, opened[q]}
    BY <1>7 DEF EndRunner, TypeOK
  <2>2. wire' \in [Runners -> Seq(Nat)] /\ \A q \in Runners : up'[q] = 0 => wire'[q] = <<>>
    BY <1>7 DEF EndRunner, Cut, TypeOK
  <2>3. handler' \in [Runners -> {"none", "base", "all", "gone"}]
    BY <1>7 DEF EndRunner, TypeOK
  <2>4. event' \in Seq(Events) /\ Len(event') = Len(event)
    BY <1>0, <1>7, BecomeType DEF EndRunner, Fates
  <2>. QED BY <1>7, <2>1, <2>2, <2>3, <2>4 DEF EndRunner, TypeOK, Events, cloud
<1>8. ASSUME NEW s \in open, Register(s) PROVE TypeOK'
  <2>1. s[1] \in Runners /\ s[2] \in Nat BY DEF TypeOK, Sockets
  <2>2. /\ wire' \in [Runners -> Seq(Nat)]
        /\ \A r \in Runners : up[r] = 0 => wire'[r] = <<>>
        /\ event' \in Seq(Events) /\ Len(event') = Len(event)
    BY <1>8, PutType DEF Register, TypeOK
  <2>3. registry' \in [Runners -> Nat] BY <1>8, <2>1 DEF Register, TypeOK
  <2>4. queue' \in Seq(1 .. Len(event')) BY <1>8 DEF Register, Drained
  <2>. QED BY <1>8, <2>2, <2>3, <2>4 DEF Register, TypeOK, Events
<1>9. ASSUME NEW s \in open, ListJobs(s) PROVE TypeOK'
  <2>1. s[1] \in Runners /\ s = <<s[1], s[2]>> /\ s[2] # 0 BY DEF TypeOK, Sockets
  <2>2. wire' \in [Runners -> Seq(Nat)] /\ \A q \in Runners : up[q] = 0 => wire'[q] = <<>>
    <3>1. CASE s = Mine(s[1])
      <4>1. up[s[1]] # 0 BY <2>1, <3>1 DEF Mine
      <4>2. Append(wire[s[1]], Answer) \in Seq(Nat) BY <2>1 DEF TypeOK, Answer
      <4>. QED BY <1>9, <2>1, <3>1, <4>1, <4>2 DEF ListJobs, TypeOK
    <3>2. CASE s # Mine(s[1]) BY <1>9, <3>2 DEF ListJobs, TypeOK
    <3>. QED BY <3>1, <3>2
  <2>. QED BY <1>9, <2>2 DEF ListJobs, TypeOK
<1>10. ASSUME NEW s \in open, Close(s) PROVE TypeOK'
  <2>1. registry' \in [Runners -> Nat] BY <1>10 DEF Close, TypeOK
  <2>2. breaks' \in 0 .. MaxBreaks BY <1>10, LinkAssumption DEF Close, TypeOK
  <2>3. open' \subseteq Sockets /\ closing' \subseteq open' /\ hello' \subseteq open'
        /\ asked' \subseteq open'
    BY <1>10 DEF Close, TypeOK
  <2>. QED BY <1>10, <2>1, <2>2, <2>3 DEF Close, TypeOK, runner
<1>11. ASSUME NEW kind \in Kinds, Send(kind) PROVE TypeOK'
  <2> DEFINE n == Len(event) + 1
  <2>1. PICK fate \in Fates : event' = Append(event, [kind |-> kind, fate |-> fate,
                                                      waited |-> fate = "queued"])
    BY <1>11 DEF Send, Fates
  <2>2. event' \in Seq(Events) /\ Len(event') = n
    BY <1>0, <2>1 DEF Events
  <2>3. /\ wire' \in [Runners -> Seq(Nat)]
        /\ \A r \in Runners : up[r] = 0 => wire'[r] = <<>>
    <3>1. CASE UNCHANGED wire BY <3>1 DEF TypeOK
    <3>2. ASSUME NEW r \in Reachable, registry[r] = up[r],
                 wire' = [wire EXCEPT ![r] = Append(wire[r], n)]
          PROVE  <2>3!1 /\ <2>3!2
      <4>1. r \in Runners /\ up[r] # 0 BY <3>2 DEF Reachable
      <4>2. Append(wire[r], n) \in Seq(Nat) BY <1>0, <4>1 DEF TypeOK
      <4>. QED BY <3>2, <4>1, <4>2 DEF TypeOK
    <3>. QED BY <1>11, <3>1, <3>2 DEF Send
  <2>4. queue' \in Seq(1 .. Len(event'))
    <3>1. queue \in Seq(1 .. n)
      <4>1. \A i \in 1 .. Len(queue) : queue[i] \in 1 .. n
        <5>1. \A i \in 1 .. Len(queue) : queue[i] \in 1 .. Len(event) BY DEF TypeOK
        <5>. QED BY <1>0, <5>1
      <4>. QED BY <4>1 DEF TypeOK
    <3>2. n \in 1 .. n BY <1>0
    <3>3. Append(queue, n) \in Seq(1 .. n) BY <3>1, <3>2
    <3>4. queue' = queue \/ queue' = Append(queue, n) BY <1>11 DEF Send
    <3>. QED BY <2>2, <3>1, <3>3, <3>4
  <2>. QED BY <1>11, <2>2, <2>3, <2>4 DEF Send, TypeOK, Events
<1>12. CASE RestartCloud
  <2>1. event' \in Seq(Events) /\ Len(event') = Len(event)
    BY <1>0, <1>12, BecomeType DEF RestartCloud, Fates
  <2>2. breaks' \in 0 .. MaxBreaks BY <1>12, LinkAssumption DEF RestartCloud, TypeOK
  <2>. QED BY <1>12, <2>1, <2>2 DEF RestartCloud, TypeOK, Events, runner
<1>. QED
  BY <1>1, <1>2, <1>3, <1>4, <1>5, <1>6, <1>7, <1>8, <1>9, <1>10, <1>11, <1>12
     DEF Next, Link, Gateway

\* The variables keep their types.
THEOREM TypeCorrect == Spec => []TypeOK
<1>. QED BY InitType, TypeKept, PTL DEF Spec

-----------------------------------------------------------------------------
(* Registration.                                                             *)

LEMMA LiveKept == TypeOK /\ LiveSocketIsRegistered /\ [Next]_vars => LiveSocketIsRegistered'
<1> SUFFICES ASSUME TypeOK, LiveSocketIsRegistered, [Next]_vars,
                    NEW r \in Runners, (Mine(r) \in open \ (hello \cup closing))'
             PROVE  registry'[r] = up'[r]
  BY DEF LiveSocketIsRegistered
<1>0. Mine(r) \in open \ (hello \cup closing) => registry[r] = up[r]
  BY DEF LiveSocketIsRegistered
<1>1. CASE UNCHANGED vars
  BY <1>0, <1>1 DEF vars, Mine
<1>2. ASSUME NEW q \in Runners, Connect(q) PROVE registry'[r] = up'[r]
  <2>1. q # r BY <1>2 DEF Connect, Mine, TypeOK
  <2>. QED BY <1>0, <1>2, <2>1 DEF Connect, Mine, TypeOK
<1>3. ASSUME NEW q \in Runners, StartDispatcher(q) \/ GiveUpListing(q) \/ Receive(q)
      PROVE  registry'[r] = up'[r]
  BY <1>0, <1>3 DEF StartDispatcher, GiveUpListing, Receive, Mine, cloud
<1>4. ASSUME NEW q \in Runners, SeeClose(q) \/ EndRunner(q) PROVE registry'[r] = up'[r]
  <2>1. /\ up' = [up EXCEPT ![q] = 0]
        /\ open' = open /\ hello' = hello /\ closing' = closing /\ registry' = registry
    BY <1>4 DEF SeeClose, EndRunner, cloud
  <2>2. q # r BY <2>1 DEF Mine, TypeOK, Sockets
  <2>. QED BY <1>0, <2>1, <2>2 DEF Mine, TypeOK
\* The close of an older socket, or a registration on one, finds the live
\* socket in the registry, and either leaves it there or asks for its close.
<1>5. ASSUME NEW s \in open, Register(s) PROVE registry'[r] = up'[r]
  <2>1. s[1] \in Runners /\ s = <<s[1], s[2]>> BY DEF TypeOK, Sockets
  <2>2. Mine(r)' = Mine(r) /\ up' = up BY <1>5 DEF Register, Mine
  <2>3. CASE s = Mine(r) BY <1>5, <2>1, <2>2, <2>3 DEF Register, Mine, TypeOK
  <2>4. CASE s # Mine(r)
    <3>1. registry[r] = up[r] BY <1>0, <1>5, <2>2, <2>4 DEF Register
    <3>2. s[1] # r
      <4> SUFFICES ASSUME s[1] = r PROVE FALSE
        OBVIOUS
      <4>1. Mine(r) \in open \ {s} BY <1>5, <2>2, <2>4 DEF Register
      <4>2. Mine(r) = <<s[1], registry[s[1]]>> BY <3>1 DEF Mine
      <4>3. Mine(r) \in closing' BY <1>5, <4>1, <4>2 DEF Register
      <4>. QED BY <2>2, <4>3
    <3>. QED BY <1>5, <2>1, <2>2, <3>1, <3>2 DEF Register, TypeOK
  <2>. QED BY <2>3, <2>4
<1>6. ASSUME NEW s \in open, ListJobs(s) PROVE registry'[r] = up'[r]
  BY <1>0, <1>6 DEF ListJobs, Mine
<1>7. ASSUME NEW s \in open, Close(s) PROVE registry'[r] = up'[r]
  <2>1. s[1] \in Runners /\ s = <<s[1], s[2]>> BY DEF TypeOK, Sockets
  <2>2. Mine(r)' = Mine(r) /\ up' = up BY <1>7 DEF Close, Mine, runner
  <2>3. s # Mine(r) BY <1>7, <2>2 DEF Close
  <2>4. registry[r] = up[r] BY <1>0, <1>7, <2>2, <2>3 DEF Close
  <2>5. CASE s[1] = r
    <3>1. ~Leaves(s) BY <2>1, <2>3, <2>4, <2>5 DEF Leaves, Mine
    <3>. QED BY <1>7, <2>2, <2>4, <3>1 DEF Close
  <2>6. CASE s[1] # r
    BY <1>7, <2>1, <2>2, <2>4, <2>6 DEF Close, TypeOK
  <2>. QED BY <2>5, <2>6
<1>8. ASSUME NEW kind \in Kinds, Send(kind) PROVE registry'[r] = up'[r]
  BY <1>0, <1>8 DEF Send, Mine
<1>9. CASE RestartCloud
  BY <1>9 DEF RestartCloud
<1>. QED
  BY <1>1, <1>2, <1>3, <1>4, <1>5, <1>6, <1>7, <1>8, <1>9 DEF Next, Link, Gateway

\* A socket open at both ends whose registration was read is the runner's entry
\* in the registry: the late close of a socket it replaced does not take it out.
THEOREM LiveSocketStays == Spec => []LiveSocketIsRegistered
<1>1. Init => LiveSocketIsRegistered BY DEF Init, LiveSocketIsRegistered
<1>2. TypeOK /\ LiveSocketIsRegistered /\ [Next]_vars => LiveSocketIsRegistered' BY LiveKept
<1>. QED BY <1>1, <1>2, TypeCorrect, PTL DEF Spec

-----------------------------------------------------------------------------
(* Order.  What is on the wires is older than what waits in the queue, and   *)
(* no event is on two wires.  The queue is only used while no runner can be  *)
(* reached, so that a new event never finds one older than it still waiting. *)

Sorted(w) == \A i, j \in DOMAIN w : i < j /\ Answer \notin {w[i], w[j]} => w[i] < w[j]

Numbers(w) == {w[i] : i \in DOMAIN w} \ {Answer}

\* w, q and e stand for wire, queue and event.
Ordered(w, q, e) ==
    /\ \A r \in Runners : Sorted(w[r])
    /\ \A i, j \in DOMAIN q : i < j => q[i] < q[j]
    /\ \A r \in Runners : \A n \in Numbers(w[r]) : n \in DOMAIN e /\ e[n].fate = "wire"
    /\ \A i \in DOMAIN q, r \in Runners : \A n \in Numbers(w[r]) : n < q[i]
    /\ \A r, p \in Runners : r # p => Numbers(w[r]) \cap Numbers(w[p]) = {}

OrderInv == Ordered(wire, queue, event)

\* Who is registered and on what: a queue means that nobody can be reached.
QueueInv ==
    /\ \A r \in Runners : registry[r] <= opened[r]
    /\ \A s \in open : s[2] <= opened[s[1]]
    /\ queue # <<>> => Reachable = {}

LEMMA QueueKept == TypeOK /\ QueueInv /\ [Next]_vars => QueueInv'
<1> SUFFICES ASSUME TypeOK, QueueInv, [Next]_vars PROVE QueueInv'
  OBVIOUS
<1> USE DEF QueueInv
<1>1. CASE UNCHANGED vars
  BY <1>1 DEF vars, Reachable
<1>2. ASSUME NEW r \in Runners, Connect(r) PROVE QueueInv'
  <2>1. /\ opened' \in [Runners -> Nat] /\ opened'[r] = opened[r] + 1
        /\ \A q \in Runners \ {r} : opened'[q] = opened[q]
        /\ open' = open \cup {<<r, opened'[r]>>}
        /\ registry' = registry /\ closing' = closing /\ queue' = queue
    BY <1>2 DEF Connect, TypeOK
  <2>2. \A q \in Runners : registry'[q] <= opened[q] /\ opened[q] <= opened'[q]
                           /\ registry[q] \in Nat /\ opened[q] \in Nat /\ opened'[q] \in Nat
    BY <2>1 DEF TypeOK
  <2>3. \A q \in Runners : registry'[q] <= opened'[q] BY <2>1, <2>2
  <2>4. \A s \in open' : s[2] <= opened'[s[1]]
    BY <2>1, <2>2 DEF TypeOK, Sockets
  <2>5. Reachable' \subseteq Reachable
    <3> SUFFICES ASSUME NEW q \in Reachable' PROVE q \in Reachable
      OBVIOUS
    <3>1. q \in Runners /\ registry[q] # 0 /\ <<q, registry[q]>> \in open' \ closing
      BY <2>1 DEF Reachable
    <3>2. <<q, registry[q]>> # <<r, opened'[r]>> BY <2>1, <2>2, <3>1
    <3>. QED BY <2>1, <3>1, <3>2 DEF Reachable
  <2>. QED BY <2>1, <2>3, <2>4, <2>5
<1>3. ASSUME NEW r \in Runners,
             StartDispatcher(r) \/ GiveUpListing(r) \/ Receive(r) \/ SeeClose(r) \/ EndRunner(r)
      PROVE  QueueInv'
  <2>1. UNCHANGED <<opened, open, closing, registry, queue>>
    BY <1>3 DEF StartDispatcher, GiveUpListing, Receive, SeeClose, EndRunner, cloud
  <2>. QED BY <2>1 DEF Reachable
<1>4. ASSUME NEW s \in open, Register(s) PROVE QueueInv'
  <2>1. s[1] \in Runners /\ s[2] \in Nat BY DEF TypeOK, Sockets
  <2>2. \A r \in Runners : registry'[r] <= opened[r] BY <1>4, <2>1 DEF Register, TypeOK
  <2>. QED BY <1>4, <2>2 DEF Register, Drained
<1>5. ASSUME NEW s \in open, ListJobs(s) PROVE QueueInv'
  BY <1>5 DEF ListJobs, Reachable
<1>6. ASSUME NEW s \in open, Close(s) PROVE QueueInv'
  <2>1. /\ open' = open \ {s} /\ closing' = closing \ {s}
        /\ opened' = opened /\ queue' = queue
        /\ registry' = registry \/ registry' = [registry EXCEPT ![s[1]] = 0]
    BY <1>6 DEF Close, runner
  <2>2. \A r \in Runners : registry'[r] \in {0, registry[r]} /\ opened[r] \in Nat
    BY <2>1 DEF TypeOK
  <2>3. \A r \in Runners : registry'[r] <= opened[r] BY <2>2
  <2>4. Reachable' \subseteq Reachable BY <2>1, <2>2 DEF Reachable
  <2>. QED BY <2>1, <2>3, <2>4
<1>7. ASSUME NEW kind \in Kinds, Send(kind) PROVE QueueInv'
  <2>1. UNCHANGED <<opened, open, closing, registry>> BY <1>7 DEF Send
  <2>2. CASE Reachable = {} BY <2>1, <2>2 DEF Reachable
  <2>3. CASE Reachable # {} BY <1>7, <2>1, <2>3 DEF Send, Reachable
  <2>. QED BY <2>2, <2>3
<1>8. CASE RestartCloud
  BY <1>8 DEF RestartCloud, runner, TypeOK, Reachable
<1>. QED
  BY <1>1, <1>2, <1>3, <1>4, <1>5, <1>6, <1>7, <1>8 DEF Next, Link, Gateway

LEMMA SortedTail ==
    ASSUME NEW w \in Seq(Nat), w # <<>>, Sorted(w)
    PROVE  /\ Sorted(Tail(w)) /\ Numbers(Tail(w)) \subseteq Numbers(w)
           /\ Head(w) \notin Numbers(Tail(w))
           /\ Head(w) # Answer => Head(w) \in Numbers(w)
<1>1. /\ Len(w) \in Nat \ {0} /\ DOMAIN w = 1 .. Len(w)
      /\ DOMAIN Tail(w) = 1 .. (Len(w) - 1) /\ Head(w) = w[1]
      /\ \A i \in 1 .. (Len(w) - 1) : Tail(w)[i] = w[i + 1] /\ i + 1 \in DOMAIN w
  OBVIOUS
<1>2. Sorted(Tail(w)) BY <1>1 DEF Sorted
<1>3. Numbers(Tail(w)) \subseteq Numbers(w) BY <1>1 DEF Numbers
<1>4. ASSUME Head(w) \in Numbers(Tail(w)) PROVE FALSE
  <2>1. PICK i \in 1 .. (Len(w) - 1) : w[1] = w[i + 1] /\ w[1] # Answer
    BY <1>1, <1>4 DEF Numbers
  <2>2. w[1] < w[i + 1] BY <1>1, <2>1 DEF Sorted
  <2>3. w[1] \in Nat BY <1>1
  <2>. QED BY <2>1, <2>2, <2>3
<1>5. Head(w) # Answer => Head(w) \in Numbers(w) BY <1>1 DEF Numbers
<1>. QED BY <1>2, <1>3, <1>4, <1>5

LEMMA SortedConcat ==
    ASSUME NEW w \in Seq(Nat), NEW q \in Seq(Nat), Sorted(w), Sorted(q),
           \A m \in Numbers(w), n \in Numbers(q) : m < n
    PROVE  Sorted(w \o q) /\ Numbers(w \o q) = Numbers(w) \cup Numbers(q)
<1> DEFINE wq == w \o q
<1>1. /\ Len(w) \in Nat /\ Len(q) \in Nat /\ DOMAIN wq = 1 .. (Len(w) + Len(q))
      /\ \A i \in 1 .. Len(w) : wq[i] = w[i]
      /\ \A i \in 1 .. Len(q) : wq[Len(w) + i] = q[i]
      /\ DOMAIN w = 1 .. Len(w) /\ DOMAIN q = 1 .. Len(q)
  OBVIOUS
<1> HIDE DEF wq
<1>2. \A i \in DOMAIN wq : \/ i \in DOMAIN w /\ wq[i] = w[i]
                           \/ i > Len(w) /\ i - Len(w) \in DOMAIN q /\ wq[i] = q[i - Len(w)]
  <2> SUFFICES ASSUME NEW i \in DOMAIN wq, i \notin DOMAIN w
               PROVE  i > Len(w) /\ i - Len(w) \in DOMAIN q /\ wq[i] = q[i - Len(w)]
    BY <1>1
  <2>1. i > Len(w) /\ i - Len(w) \in 1 .. Len(q) BY <1>1
  <2>2. wq[Len(w) + (i - Len(w))] = q[i - Len(w)] BY <1>1, <2>1
  <2>3. Len(w) + (i - Len(w)) = i BY <1>1
  <2>. QED BY <1>1, <2>1, <2>2, <2>3
<1>3. Sorted(wq)
  <2> SUFFICES ASSUME NEW i \in DOMAIN wq, NEW j \in DOMAIN wq, i < j,
                      wq[i] # Answer, wq[j] # Answer
               PROVE  wq[i] < wq[j]
    BY DEF Sorted
  <2>1. CASE i \in DOMAIN w /\ j \in DOMAIN w BY <1>1, <2>1 DEF Sorted
  <2>2. CASE i \in DOMAIN w /\ j \notin DOMAIN w
    <3>1. wq[i] \in Numbers(w) BY <1>1, <2>2 DEF Numbers
    <3>2. wq[j] \in Numbers(q) BY <1>2, <2>2 DEF Numbers
    <3>. QED BY <3>1, <3>2
  <2>3. CASE i \notin DOMAIN w /\ j \notin DOMAIN w
    <3>1. i - Len(w) \in DOMAIN q /\ j - Len(w) \in DOMAIN q /\ i - Len(w) < j - Len(w)
      BY <1>1, <1>2, <2>3
    <3>2. wq[i] = q[i - Len(w)] /\ wq[j] = q[j - Len(w)] BY <1>2, <2>3
    <3>. QED BY <3>1, <3>2 DEF Sorted
  <2>4. CASE i \notin DOMAIN w /\ j \in DOMAIN w BY <1>1, <2>4
  <2>. QED BY <2>1, <2>2, <2>3, <2>4
<1>4. Numbers(wq) \subseteq Numbers(w) \cup Numbers(q) BY <1>2 DEF Numbers
<1>5. Numbers(w) \subseteq Numbers(wq) BY <1>1 DEF Numbers
<1>6. Numbers(q) \subseteq Numbers(wq)
  <2> SUFFICES ASSUME NEW i \in DOMAIN q, q[i] # Answer PROVE q[i] \in Numbers(wq)
    BY DEF Numbers
  <2>1. Len(w) + i \in DOMAIN wq /\ wq[Len(w) + i] = q[i] BY <1>1
  <2>. QED BY <2>1 DEF Numbers
<1>. QED BY <1>3, <1>4, <1>5, <1>6 DEF wq

LEMMA SortedAppend ==
    ASSUME NEW w \in Seq(Nat), NEW n \in Nat, Sorted(w), \A m \in Numbers(w) : n # Answer => m < n
    PROVE  Sorted(Append(w, n)) /\ Numbers(Append(w, n)) = Numbers(w) \cup ({n} \ {Answer})
<1> DEFINE q == <<n>>
<1>1. Append(w, n) = w \o q /\ q \in Seq(Nat) OBVIOUS
<1>2. Sorted(q) /\ Numbers(q) = {n} \ {Answer}
  <2>1. DOMAIN q = {1} /\ q[1] = n OBVIOUS
  <2>. QED BY <2>1 DEF Sorted, Numbers
<1> HIDE DEF q
<1>3. \A m \in Numbers(w), k \in Numbers(q) : m < k BY <1>2
<1>4. Sorted(w \o q) /\ Numbers(w \o q) = Numbers(w) \cup Numbers(q)
  BY <1>1, <1>2, <1>3, SortedConcat
<1>. QED BY <1>1, <1>2, <1>4

\* Events go from the wires and keep their fate while they are there; the queue
\* stays or is emptied.
LEMMA OrderedLess ==
    ASSUME NEW w, NEW q, NEW e, NEW w2, NEW q2, NEW e2, Ordered(w, q, e),
           q2 \in {q, <<>>}, DOMAIN e \subseteq DOMAIN e2,
           \A r \in Runners : Sorted(w2[r]) /\ Numbers(w2[r]) \subseteq Numbers(w[r]),
           \A r \in Runners : \A n \in Numbers(w2[r]) : e2[n].fate = e[n].fate
    PROVE  Ordered(w2, q2, e2)
<1>1. DOMAIN q2 \subseteq DOMAIN q /\ \A i \in DOMAIN q2 : q2[i] = q[i] OBVIOUS
<1>2. \A i, j \in DOMAIN q2 : i < j => q2[i] < q2[j] BY <1>1 DEF Ordered
<1>3. \A r \in Runners : \A n \in Numbers(w2[r]) : n \in DOMAIN e2 /\ e2[n].fate = "wire"
  BY DEF Ordered
<1>4. \A i \in DOMAIN q2, r \in Runners : \A n \in Numbers(w2[r]) : n < q2[i]
  BY <1>1 DEF Ordered
<1>5. \A r, p \in Runners : r # p => Numbers(w2[r]) \cap Numbers(w2[p]) = {}
  BY DEF Ordered
<1>. QED BY <1>2, <1>3, <1>4, <1>5 DEF Ordered

\* Events from elsewhere come onto the wire of s, with nothing left in the queue.
LEMMA OrderedMore ==
    ASSUME NEW w, NEW q, NEW e, NEW w2, NEW e2, NEW s \in Runners, NEW new, Ordered(w, q, e),
           DOMAIN e \subseteq DOMAIN e2, \A r \in Runners \ {s} : w2[r] = w[r],
           Sorted(w2[s]), Numbers(w2[s]) = Numbers(w[s]) \cup new,
           \A r \in Runners : new \cap Numbers(w[r]) = {},
           \A r \in Runners : \A n \in Numbers(w[r]) : e2[n].fate = e[n].fate,
           \A n \in new : n \in DOMAIN e2 /\ e2[n].fate = "wire"
    PROVE  Ordered(w2, <<>>, e2)
<1>1. \A r \in Runners : Sorted(w2[r]) BY DEF Ordered
<1>2. \A r \in Runners : \A n \in Numbers(w2[r]) : n \in DOMAIN e2 /\ e2[n].fate = "wire"
  BY DEF Ordered
<1>3. \A r, p \in Runners : r # p => Numbers(w2[r]) \cap Numbers(w2[p]) = {}
  BY DEF Ordered
<1>. QED BY <1>1, <1>2, <1>3 DEF Ordered

\* The queue holds numbers of events.
LEMMA QueueFacts ==
    ASSUME TypeOK, OrderInv
    PROVE  /\ queue \in Seq(Nat) /\ Sorted(queue)
           /\ Numbers(queue) = {queue[i] : i \in DOMAIN queue}
           /\ Numbers(queue) \subseteq DOMAIN event
           /\ \A r \in Runners : \A m \in Numbers(wire[r]), n \in Numbers(queue) : m < n
           /\ \A r \in Runners : Numbers(queue) \cap Numbers(wire[r]) = {}
           /\ \A r \in Runners : wire[r] \in Seq(Nat) /\ Numbers(wire[r]) = OnWire(r)
<1>1. /\ DOMAIN queue = 1 .. Len(queue) /\ Len(queue) \in Nat /\ Len(event) \in Nat
      /\ \A i \in DOMAIN queue : queue[i] \in 1 .. Len(event)
      /\ DOMAIN event = 1 .. Len(event)
  BY DEF TypeOK
<1>2. queue \in Seq(Nat)
  <2>1. \A i \in 1 .. Len(queue) : queue[i] \in Nat BY <1>1
  <2>. QED BY <2>1 DEF TypeOK
<1>3. Sorted(queue) BY DEF Sorted, OrderInv, Ordered
<1>4. Numbers(queue) = {queue[i] : i \in DOMAIN queue} BY <1>1 DEF Numbers, Answer
<1>5. Numbers(queue) \subseteq DOMAIN event BY <1>1, <1>4
<1>6. \A r \in Runners : \A m \in Numbers(wire[r]), n \in Numbers(queue) : m < n
  BY <1>4 DEF OrderInv, Ordered
<1>7. \A r \in Runners : Numbers(queue) \cap Numbers(wire[r]) = {}
  <2> SUFFICES ASSUME NEW r \in Runners, NEW n \in Numbers(queue), n \in Numbers(wire[r])
               PROVE  FALSE
    OBVIOUS
  <2>1. n < n /\ n \in Nat BY <1>1, <1>5, <1>6
  <2>. QED BY <2>1
<1>8. \A r \in Runners : wire[r] \in Seq(Nat) /\ Numbers(wire[r]) = OnWire(r)
  BY DEF TypeOK, Numbers, OnWire
<1>. QED BY <1>2, <1>3, <1>4, <1>5, <1>6, <1>7, <1>8

LEMMA OrderKept == TypeOK /\ QueueInv /\ OrderInv /\ [Next]_vars => OrderInv'
<1> SUFFICES ASSUME TypeOK, QueueInv, OrderInv, [Next]_vars PROVE OrderInv'
  OBVIOUS
<1> DEFINE Fixed == UNCHANGED <<wire, queue, event>>
<1>0. /\ event \in Seq(Events) /\ Len(event) \in Nat /\ DOMAIN event = 1 .. Len(event)
      /\ Ordered(wire, queue, event)
  BY DEF TypeOK, Events, OrderInv
<1>1. ASSUME Fixed PROVE OrderInv'
  BY <1>0, <1>1 DEF OrderInv
<1>2. ASSUME NEW r \in Runners, Connect(r) \/ StartDispatcher(r) \/ GiveUpListing(r)
      PROVE  OrderInv'
  BY <1>1, <1>2 DEF Connect, StartDispatcher, GiveUpListing, cloud
<1>3. ASSUME NEW r \in Runners, Receive(r) PROVE OrderInv'
  <2> DEFINE n == Head(wire[r])
  <2>1. wire[r] \in Seq(Nat) /\ wire[r] # <<>> /\ Sorted(wire[r])
    BY <1>0, <1>3 DEF Receive, TypeOK, Ordered
  <2>2. /\ Sorted(Tail(wire[r])) /\ Numbers(Tail(wire[r])) \subseteq Numbers(wire[r])
        /\ n \notin Numbers(Tail(wire[r])) /\ (n # Answer => n \in Numbers(wire[r]))
    BY <2>1, SortedTail
  <2>3. queue' = queue /\ wire' = [wire EXCEPT ![r] = Tail(wire[r])] /\ wire \in [Runners -> Seq(Nat)]
    BY <1>3 DEF Receive, cloud, TypeOK
  <2>4. \A q \in Runners : Sorted(wire'[q]) /\ Numbers(wire'[q]) \subseteq Numbers(wire[q])
    BY <1>0, <2>2, <2>3 DEF Ordered
  <2>5. \A q \in Runners : n # Answer => n \notin Numbers(wire'[q])
    <3> SUFFICES ASSUME NEW q \in Runners, q # r, n # Answer PROVE n \notin Numbers(wire'[q])
      BY <2>2, <2>3
    <3>. QED BY <1>0, <2>2, <2>3 DEF Ordered
  <2>6. /\ DOMAIN event' = DOMAIN event
        /\ \A m \in DOMAIN event : m # n \/ n = Answer => event'[m].fate = event[m].fate
    <3>1. CASE n = Answer BY <1>3, <3>1 DEF Receive
    <3>2. CASE n # Answer
      <4>1. PICK fate \in Fates : Become({n}, fate) BY <1>3, <3>2 DEF Receive, Fates
      <4>. QED BY <1>0, <3>2, <4>1, BecomeType
    <3>. QED BY <3>1, <3>2
  <2>7. \A q \in Runners : \A m \in Numbers(wire'[q]) : event'[m].fate = event[m].fate
    BY <1>0, <2>4, <2>5, <2>6 DEF Ordered
  <2>8. DOMAIN event \subseteq DOMAIN event' /\ queue' \in {queue, <<>>} BY <2>3, <2>6
  <2>9. Ordered(wire', queue', event') BY <1>0, <2>4, <2>7, <2>8, OrderedLess
  <2>. QED BY <2>9 DEF OrderInv
<1>4. ASSUME NEW r \in Runners, SeeClose(r) \/ EndRunner(r) PROVE OrderInv'
  <2>1. /\ queue' = queue /\ wire' = [wire EXCEPT ![r] = <<>>] /\ wire \in [Runners -> Seq(Nat)]
        /\ Become(OnWire(r), "broken")
    BY <1>4 DEF SeeClose, EndRunner, cloud, Cut, TypeOK
  <2>2. Numbers(<<>>) = {} /\ Sorted(<<>>) BY DEF Numbers, Sorted
  <2>3. \A q \in Runners : Sorted(wire'[q]) /\ Numbers(wire'[q]) \subseteq Numbers(wire[q])
    BY <1>0, <2>1, <2>2 DEF Ordered
  <2>4. \A q \in Runners : Numbers(wire'[q]) \cap OnWire(r) = {}
    BY <1>0, <2>1, <2>2, QueueFacts DEF Ordered, OrderInv
  <2>5. /\ DOMAIN event' = DOMAIN event
        /\ \A m \in DOMAIN event : m \notin OnWire(r) => event'[m].fate = event[m].fate
    BY <1>0, <2>1, BecomeType DEF Fates
  <2>6. \A q \in Runners : \A m \in Numbers(wire'[q]) : event'[m].fate = event[m].fate
    BY <1>0, <2>3, <2>4, <2>5 DEF Ordered
  <2>7. Ordered(wire', queue', event') BY <1>0, <2>1, <2>3, <2>5, <2>6, OrderedLess
  <2>. QED BY <2>7 DEF OrderInv
<1>5. ASSUME NEW s \in open, Register(s) PROVE OrderInv'
  <2> DEFINE r == s[1]
             F == {queue[i] : i \in DOMAIN queue}
  <2>1. r \in Runners /\ queue' = <<>> /\ F = Numbers(queue)
    BY <1>5, QueueFacts DEF Register, Drained, TypeOK, Sockets
  <2>2. CASE s = Mine(r)
    <3>1. wire' = [wire EXCEPT ![r] = wire[r] \o queue] /\ Become(F, "wire")
      BY <1>5, <2>2 DEF Register, Put
    <3>2. wire'[r] = wire[r] \o queue /\ \A q \in Runners \ {r} : wire'[q] = wire[q]
      BY <2>1, <3>1 DEF TypeOK
    <3>3. Sorted(wire'[r]) /\ Numbers(wire'[r]) = Numbers(wire[r]) \cup Numbers(queue)
      <4>1. wire[r] \in Seq(Nat) /\ Sorted(wire[r]) BY <1>0, <2>1, QueueFacts DEF Ordered
      <4>2. \A m \in Numbers(wire[r]), n \in Numbers(queue) : m < n BY <2>1, QueueFacts
      <4>. QED BY <3>2, <4>1, <4>2, QueueFacts, SortedConcat
    <3>4. /\ DOMAIN event' = DOMAIN event
          /\ \A m \in DOMAIN event :
                event'[m].fate = IF m \in Numbers(queue) THEN "wire" ELSE event[m].fate
      BY <1>0, <2>1, <3>1, BecomeType DEF Fates
    <3>5. \A q \in Runners : \A m \in Numbers(wire[q]) : event'[m].fate = event[m].fate
      BY <1>0, <3>4 DEF Ordered
    <3>6. \A m \in Numbers(queue) : m \in DOMAIN event' /\ event'[m].fate = "wire"
      BY <3>4, QueueFacts
    <3>7. \A q \in Runners : Numbers(queue) \cap Numbers(wire[q]) = {} BY QueueFacts
    <3>8. DOMAIN event \subseteq DOMAIN event' BY <3>4
    <3>9. Sorted(wire'[r]) BY <3>3
    <3>10. Numbers(wire'[r]) = Numbers(wire[r]) \cup Numbers(queue) BY <3>3
    <3>11. \A q \in Runners \ {r} : wire'[q] = wire[q] BY <3>2
    <3> DEFINE new == Numbers(queue)
    <3>12. /\ \A q \in Runners : new \cap Numbers(wire[q]) = {}
           /\ \A m \in new : m \in DOMAIN event' /\ event'[m].fate = "wire"
           /\ Numbers(wire'[r]) = Numbers(wire[r]) \cup new
      BY <3>6, <3>7, <3>10
    <3>13. r \in Runners /\ Ordered(wire, queue, event) BY <1>0, <2>1
    <3> HIDE DEF new, r
    <3>14. Ordered(wire', <<>>, event')
      BY <3>5, <3>8, <3>9, <3>11, <3>12, <3>13, OrderedMore
    <3>. QED BY <2>1, <3>14 DEF OrderInv
  <2>3. CASE s # Mine(r)
    <3>1. wire' = wire /\ Become(F, "broken") BY <1>5, <2>3 DEF Register, Put
    <3>2. /\ DOMAIN event' = DOMAIN event
          /\ \A m \in DOMAIN event : m \notin Numbers(queue) => event'[m].fate = event[m].fate
      BY <1>0, <2>1, <3>1, BecomeType DEF Fates
    <3>3. \A q \in Runners : \A m \in Numbers(wire'[q]) : event'[m].fate = event[m].fate
      BY <1>0, <3>1, <3>2, QueueFacts DEF Ordered
    <3>4. \A q \in Runners : Sorted(wire'[q]) /\ Numbers(wire'[q]) \subseteq Numbers(wire[q])
      BY <1>0, <3>1 DEF Ordered
    <3>5. Ordered(wire', queue', event') BY <1>0, <2>1, <3>2, <3>3, <3>4, OrderedLess
    <3>. QED BY <3>5 DEF OrderInv
  <2>. QED BY <2>2, <2>3
<1>6. ASSUME NEW s \in open, ListJobs(s) PROVE OrderInv'
  <2> DEFINE r == s[1]
  <2>1. r \in Runners /\ queue' = queue /\ event' = event
    BY <1>6 DEF ListJobs, TypeOK, Sockets
  <2>2. CASE s # Mine(r) BY <1>1, <1>6, <2>1, <2>2 DEF ListJobs
  <2>3. CASE s = Mine(r)
    <3>1. wire'[r] = Append(wire[r], Answer) /\ \A q \in Runners \ {r} : wire'[q] = wire[q]
      BY <1>6, <2>1, <2>3 DEF ListJobs, TypeOK
    <3>2. Sorted(wire'[r]) /\ Numbers(wire'[r]) = Numbers(wire[r])
      <4>1. wire[r] \in Seq(Nat) /\ Sorted(wire[r]) BY <1>0, <2>1, QueueFacts DEF Ordered
      <4>2. Answer \in Nat BY DEF Answer
      <4>3. \A m \in Numbers(wire[r]) : Answer # Answer => m < Answer OBVIOUS
      <4>4. Sorted(Append(wire[r], Answer))
            /\ Numbers(Append(wire[r], Answer)) = Numbers(wire[r]) \cup ({Answer} \ {Answer})
        BY <4>1, <4>2, <4>3, SortedAppend
      <4>. QED BY <3>1, <4>4
    <3>3. \A q \in Runners : Sorted(wire'[q]) /\ Numbers(wire'[q]) \subseteq Numbers(wire[q])
      BY <1>0, <3>1, <3>2 DEF Ordered
    <3>4. Ordered(wire', queue', event') BY <1>0, <2>1, <3>3, OrderedLess
    <3>. QED BY <3>4 DEF OrderInv
  <2>. QED BY <2>2, <2>3
<1>7. ASSUME NEW s \in open, Close(s) PROVE OrderInv'
  BY <1>1, <1>7 DEF Close, runner
<1>8. ASSUME NEW kind \in Kinds, Send(kind) PROVE OrderInv'
  <2> DEFINE n == Len(event) + 1
  <2>1. PICK fate \in Fates : event' = Append(event, [kind |-> kind, fate |-> fate,
                                                      waited |-> fate = "queued"])
    BY <1>8 DEF Send, Fates
  <2>2. /\ DOMAIN event \subseteq DOMAIN event' /\ n \in DOMAIN event' /\ event'[n].fate = fate
        /\ \A m \in DOMAIN event : event'[m].fate = event[m].fate
    BY <1>0, <2>1
  <2>3. \A r \in Runners : \A m \in Numbers(wire[r]) :
           m \in Nat /\ m < n /\ event'[m].fate = event[m].fate
    BY <1>0, <2>2 DEF Ordered
  <2>4. CASE UNCHANGED <<wire, queue>>
    <3>1. \A r \in Runners : Sorted(wire'[r]) /\ Numbers(wire'[r]) \subseteq Numbers(wire[r])
      BY <1>0, <2>4 DEF Ordered
    <3>2. Ordered(wire', queue', event') BY <1>0, <2>2, <2>3, <2>4, <3>1, OrderedLess
    <3>. QED BY <3>2 DEF OrderInv
  <2>5. CASE queue' = Append(queue, n) /\ wire' = wire
    <3>1. /\ DOMAIN queue' = 1 .. (Len(queue) + 1) /\ Len(queue) \in Nat
          /\ DOMAIN queue = 1 .. Len(queue)
          /\ queue'[Len(queue) + 1] = n
          /\ \A i \in DOMAIN queue : queue'[i] = queue[i] /\ queue[i] \in Nat /\ queue[i] < n
      BY <1>0, <2>5 DEF TypeOK
    <3>2. \A i, j \in DOMAIN queue' : i < j => queue'[i] < queue'[j]
      <4> SUFFICES ASSUME NEW i \in DOMAIN queue', NEW j \in DOMAIN queue', i < j
                   PROVE  queue'[i] < queue'[j]
        OBVIOUS
      <4>1. i \in DOMAIN queue /\ (j \in DOMAIN queue \/ j = Len(queue) + 1) BY <3>1
      <4>. QED BY <1>0, <3>1, <4>1 DEF Ordered
    <3>3. \A i \in DOMAIN queue' : i \in DOMAIN queue \/ queue'[i] = n BY <3>1
    <3>4. \A i \in DOMAIN queue', r \in Runners : \A m \in Numbers(wire[r]) : m < queue'[i]
      BY <1>0, <2>3, <3>1, <3>3 DEF Ordered
    <3>5. \A r \in Runners : \A m \in Numbers(wire[r]) : m \in DOMAIN event' /\ event'[m].fate = "wire"
      BY <1>0, <2>2, <2>3 DEF Ordered
    <3>6. Ordered(wire, queue', event') BY <1>0, <3>2, <3>4, <3>5 DEF Ordered
    <3>. QED BY <2>5, <3>6 DEF OrderInv
  <2>6. ASSUME NEW r \in Reachable, wire' = [wire EXCEPT ![r] = Append(wire[r], n)],
               fate = "wire", queue' = queue
        PROVE  OrderInv'
    <3>1. r \in Runners /\ queue' = <<>> BY <2>6 DEF Reachable, QueueInv
    <3>2. wire'[r] = Append(wire[r], n) /\ \A q \in Runners \ {r} : wire'[q] = wire[q]
      BY <2>6, <3>1 DEF TypeOK
    <3>3. Sorted(wire'[r]) /\ Numbers(wire'[r]) = Numbers(wire[r]) \cup {n}
      <4>1. wire[r] \in Seq(Nat) /\ Sorted(wire[r]) BY <1>0, <3>1, QueueFacts DEF Ordered
      <4>2. n \in Nat /\ n # Answer BY <1>0 DEF Answer
      <4>3. \A m \in Numbers(wire[r]) : n # Answer => m < n BY <2>3, <3>1
      <4>4. Sorted(Append(wire[r], n)) /\ Numbers(Append(wire[r], n)) = Numbers(wire[r]) \cup ({n} \ {Answer})
        BY <4>1, <4>2, <4>3, SortedAppend
      <4>. QED BY <3>2, <4>2, <4>4
    <3>4. \A q \in Runners : {n} \cap Numbers(wire[q]) = {}
      <4> SUFFICES ASSUME NEW q \in Runners, n \in Numbers(wire[q]) PROVE FALSE
        OBVIOUS
      <4>. QED BY <2>3
    <3>5. \A m \in {n} : m \in DOMAIN event' /\ event'[m].fate = "wire" BY <2>2, <2>6
    <3>6. \A q \in Runners : \A m \in Numbers(wire[q]) : event'[m].fate = event[m].fate
      BY <2>3
    <3>7. DOMAIN event \subseteq DOMAIN event' BY <2>2
    <3> DEFINE new == {n}
    <3>8. /\ \A q \in Runners : new \cap Numbers(wire[q]) = {}
          /\ \A m \in new : m \in DOMAIN event' /\ event'[m].fate = "wire"
          /\ Numbers(wire'[r]) = Numbers(wire[r]) \cup new
      BY <3>3, <3>4, <3>5
    <3> HIDE DEF new, n
    <3>9. Sorted(wire'[r]) BY <3>3
    <3>10. \A q \in Runners \ {r} : wire'[q] = wire[q] BY <3>2
    <3>11. Ordered(wire', <<>>, event')
      BY <1>0, <3>1, <3>6, <3>7, <3>8, <3>9, <3>10, OrderedMore
    <3>. QED BY <3>1, <3>11 DEF OrderInv
  <2>7. \/ UNCHANGED <<wire, queue>>
        \/ queue' = Append(queue, n) /\ wire' = wire
        \/ /\ queue' = queue /\ fate = "wire"
           /\ \E r \in Reachable : wire' = [wire EXCEPT ![r] = Append(wire[r], n)]
    <3>1. CASE Reachable = {} BY <1>8, <3>1 DEF Send
    <3>2. CASE Reachable # {}
      <4>1. queue' = queue BY <1>8, <3>2 DEF Send
      <4>2. PICK r \in Reachable :
                 \/ /\ wire' = [wire EXCEPT ![r] = Append(wire[r], n)]
                    /\ event' = Append(event, [kind |-> kind, fate |-> "wire",
                                               waited |-> "wire" = "queued"])
                 \/ UNCHANGED wire
        BY <1>8, <3>2 DEF Send
      <4>3. CASE UNCHANGED wire BY <4>1, <4>3
      <4>4. CASE ~ UNCHANGED wire
        <5>1. event'[n].fate = "wire" BY <1>0, <4>2, <4>4
        <5>. QED BY <2>2, <4>1, <4>2, <4>4, <5>1
      <4>. QED BY <4>3, <4>4
    <3>. QED BY <3>1, <3>2
  <2>. QED BY <2>4, <2>5, <2>6, <2>7
<1>9. CASE RestartCloud
  <2> DEFINE F == {queue[i] : i \in DOMAIN queue}
  <2>1. queue' = <<>> /\ wire' = wire /\ Become(F, "forgotten") /\ F = Numbers(queue)
    BY <1>9, QueueFacts DEF RestartCloud, runner
  <2>2. /\ DOMAIN event' = DOMAIN event
        /\ \A m \in DOMAIN event : m \notin Numbers(queue) => event'[m].fate = event[m].fate
    BY <1>0, <2>1, BecomeType DEF Fates
  <2>3. \A q \in Runners : \A m \in Numbers(wire'[q]) : event'[m].fate = event[m].fate
    BY <1>0, <2>1, <2>2, QueueFacts DEF Ordered
  <2>4. \A q \in Runners : Sorted(wire'[q]) /\ Numbers(wire'[q]) \subseteq Numbers(wire[q])
    BY <1>0, <2>1 DEF Ordered
  <2>5. Ordered(wire', queue', event') BY <1>0, <2>1, <2>2, <2>3, <2>4, OrderedLess
  <2>. QED BY <2>5 DEF OrderInv
<1>. QED
  BY <1>1, <1>2, <1>3, <1>4, <1>5, <1>6, <1>7, <1>8, <1>9 DEF Next, Link, Gateway, vars

\* Events reach a runner in the order in which the cloud accepted them and none
\* twice, through queues, registrations, replaced sockets and restarts.
THEOREM EventsInOrder == Spec => []EventsKeepTheirOrder
<1>1. Init => QueueInv /\ OrderInv
  <2> SUFFICES ASSUME Init PROVE QueueInv /\ OrderInv
    OBVIOUS
  <2>1. Numbers(<<>>) = {} /\ Sorted(<<>>) BY DEF Numbers, Sorted
  <2>2. OrderInv BY <2>1 DEF Init, OrderInv, Ordered
  <2>3. QueueInv BY DEF Init, QueueInv
  <2>. QED BY <2>2, <2>3
<1>2. TypeOK /\ OrderInv => EventsKeepTheirOrder
  <2> SUFFICES ASSUME TypeOK, OrderInv PROVE EventsKeepTheirOrder
    OBVIOUS
  <2>1. \A r \in Runners : Numbers(wire[r]) = OnWire(r) BY QueueFacts
  <2>. QED BY <2>1 DEF OrderInv, Ordered, Sorted, EventsKeepTheirOrder
<1>. QED BY <1>1, <1>2, TypeCorrect, QueueKept, OrderKept, PTL DEF Spec
=============================================================================
