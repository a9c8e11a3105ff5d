---------------------------- MODULE Polling_proofs ----------------------------
(***************************************************************************)
(* What Polling promises, for any pull requests, threshold and number of   *)
(* reviews, parks, mishaps and restarts.                                   *)
(***************************************************************************)
EXTENDS Polling, FiniteSetTheorems, TLAPS

EventsToTell == [key : Keys, comment : 0..MaxReviews]

Bounds == [reviews : 0..MaxReviews, parks : 0..MaxParks,
           mishaps : 0..MaxMishaps, restarts : 0..MaxRestarts]

\* Readings never run ahead of the provider, nor the provider of its reviewers,
\* and a cycle that has something left to do is at a pull request.
Shape ==
    /\ \A p \in PRs : /\ scm[p].approvals <= bounds.reviews
                      /\ scm[p].comments <= bounds.reviews
                      /\ snapshots[p].comments <= scm[p].comments
    /\ pending # <<>> => todo # <<>>

TypeInv == TypeOK /\ Shape

-----------------------------------------------------------------------------
(* The pieces.                                                               *)

LEMMA AtType ==
    ASSUME TypeOK, todo # <<>>
    PROVE  At \in PRs /\ Tail(todo) \in Seq(PRs)
BY DEF TypeOK, At

LEMMA EmptySeq ==
    ASSUME NEW S
    PROVE  <<>> \in Seq(S)
OBVIOUS

LEMMA GoesOnType ==
    ASSUME TypeOK, todo # <<>>, NEW rest \in Seq(EventsToTell), GoesOn(rest)
    PROVE  /\ pending' = rest /\ pending' \in Seq([key : Keys, comment : 0..MaxReviews])
           /\ todo' \in Seq(PRs) /\ stopped' \in BOOLEAN
           /\ pending' # <<>> => todo' = todo /\ todo' # <<>>
<1>1. pending' = rest /\ todo' = (IF rest = <<>> THEN Tail(todo) ELSE todo) BY DEF GoesOn
<1>2. todo' \in Seq(PRs) BY <1>1, AtType DEF TypeOK
<1>3. stopped' \in BOOLEAN BY DEF GoesOn
<1>. QED BY <1>1, <1>2, <1>3 DEF EventsToTell

LEMMA EventType ==
    /\ <<>> \in Seq(EventsToTell)
    /\ \A k \in Keys : Event(k) \in EventsToTell /\ <<Event(k)>> \in Seq(EventsToTell)
                       /\ Event(k).comment = 0
BY PollingAssumption DEF Event, EventsToTell

\* What a cycle lists are pull requests of the job.
LEMMA ListedType ==
    ASSUME TypeOK
    PROVE  SetToSeq(Pollable) \in Seq(PRs)
<1>1. Pollable \subseteq PRs BY DEF Pollable, TypeOK
<1>2. IsFiniteSet(Pollable) BY <1>1, PollingAssumption, FS_Subset
<1>3. Cardinality(Pollable) \in Nat /\ ExistsBijection(1..Cardinality(Pollable), Pollable)
  BY <1>2, FS_CardinalityType
<1>4. \E f \in [1..Cardinality(Pollable) -> Pollable] : IsInjective(f)
  BY <1>3 DEF ExistsBijection, Bijection, Injection
<1>5. SetToSeq(Pollable) \in [1..Cardinality(Pollable) -> Pollable]
  BY <1>4 DEF SetToSeq
<1>6. SetToSeq(Pollable) \in [1..Cardinality(Pollable) -> PRs] BY <1>1, <1>5
<1>. QED BY <1>3, <1>6

LEMMA ConcatFacts ==
    ASSUME NEW S, NEW s \in Seq(S), NEW t \in Seq(S)
    PROVE  /\ s \o t \in Seq(S) /\ DOMAIN (s \o t) = 1..(Len(s) + Len(t))
           /\ \A i \in 1..Len(s) : (s \o t)[i] = s[i]
           /\ \A i \in 1..Len(t) : (s \o t)[Len(s) + i] = t[i]
<1>1. \A i \in 1..Len(t) : Len(s) + i \in 1..(Len(s) + Len(t)) /\ Len(s) + i > Len(s)
                            /\ Len(s) + i - Len(s) = i
  OBVIOUS
<1>2. \A i \in 1..Len(t) : (s \o t)[Len(s) + i] = t[i] BY <1>1
<1>. QED BY <1>2

\* The comments a reading tells are those after the last one of the reading
\* before it, in their order.
LEMMA ChangesTell ==
    ASSUME NEW prev \in Readings \cup {Unread}, NEW cur \in Readings,
           prev.comments <= cur.comments
    PROVE  /\ Changes(prev, cur) \in Seq(EventsToTell)
           /\ prev = Unread => \A i \in DOMAIN Changes(prev, cur) : Changes(prev, cur)[i].comment = 0
           /\ \A i \in DOMAIN Changes(prev, cur) :
                 Changes(prev, cur)[i].comment # 0 =>
                    prev.comments < Changes(prev, cur)[i].comment
                    /\ Changes(prev, cur)[i].comment <= cur.comments
           /\ \A i, j \in DOMAIN Changes(prev, cur) :
                 i < j /\ Changes(prev, cur)[i].comment # 0 /\ Changes(prev, cur)[j].comment # 0
                    => Changes(prev, cur)[i].comment < Changes(prev, cur)[j].comment
<1> DEFINE c == Changes(prev, cur)
<1>0. /\ prev.comments \in Nat /\ cur.comments \in 0..MaxReviews /\ MaxReviews \in Nat
      /\ "cold_start" \in Keys
  BY PollingAssumption DEF Readings, Unread, Keys
<1>1. CASE prev = Unread
  <2>1. c = <<Event("cold_start")>> BY <1>1 DEF Changes
  <2>2. c \in Seq(EventsToTell) /\ Event("cold_start").comment = 0
    BY <1>0, <2>1, EventType
  <2> HIDE DEF c
  <2>3. \A i \in DOMAIN c : i = 1 /\ c[i] = Event("cold_start") BY <2>1
  <2>4. \A i \in DOMAIN c : c[i].comment = 0 BY <2>2, <2>3
  <2>. QED BY <1>1, <2>2, <2>4 DEF c
<1>2. CASE prev # Unread
  <2> DEFINE a == StateChange(prev, cur)
             b == NewApproval(prev, cur)
             d == NewComments(prev, cur)
             n == cur.comments - prev.comments
  <2>1. a \in Seq(EventsToTell) /\ \A i \in DOMAIN a : a[i].comment = 0
    <3>1. CASE cur.state = prev.state BY <3>1, EventType DEF StateChange
    <3>2. CASE cur.state # prev.state
      <4>1. PICK k \in Keys : a = <<Event(k)>> BY <3>2 DEF StateChange, Keys
      <4>. QED BY <4>1, EventType
    <3>. QED BY <3>1, <3>2
  <2>2. b \in Seq(EventsToTell) /\ \A i \in DOMAIN b : b[i].comment = 0
    <3>1. "pullrequest:approved" \in Keys BY DEF Keys
    <3>. QED BY <3>1, EventType DEF NewApproval
  <2>3. n \in Nat /\ d \in Seq(EventsToTell) /\ Len(d) = n
        /\ \A i \in 1..n : d[i].comment = prev.comments + i
    <3>1. n \in Nat
      <4>1. cur.comments \in Nat /\ prev.comments \in Nat BY <1>0
      <4>2. \A x, y \in Nat : x <= y => y - x \in Nat OBVIOUS
      <4>. QED BY <4>1, <4>2
    <3>2. \A i \in 1..n : prev.comments + i \in 0..MaxReviews
      <4>1. \A x \in Nat, y \in 0..MaxReviews : \A i \in 1..(y - x) : x + i \in 0..MaxReviews
        BY <1>0
      <4>. QED BY <1>0, <4>1
    <3>3. "pullrequest:comment_created" \in Keys BY DEF Keys
    <3>4. d = [i \in 1..n |-> [key |-> "pullrequest:comment_created",
                               comment |-> prev.comments + i]]
      BY DEF NewComments
    <3>5. d \in [1..n -> EventsToTell] BY <3>2, <3>3, <3>4 DEF EventsToTell
    <3> HIDE DEF n
    <3>6. d \in Seq(EventsToTell) /\ Len(d) = n
      <4> HIDE DEF d
      <4>. QED BY <3>1, <3>5
    <3>. QED BY <3>1, <3>4, <3>6
  <2>4. c = (a \o b) \o d BY <1>2 DEF Changes
  <2> DEFINE m == Len(a) + Len(b)
  <2> HIDE DEF a, b, c, d, n
  <2>5. /\ a \o b \in Seq(EventsToTell) /\ m \in Nat /\ Len(a \o b) = m
        /\ \A i \in 1..m : (a \o b)[i].comment = 0
    BY <2>1, <2>2
  <2>6. /\ c \in Seq(EventsToTell) /\ DOMAIN c = 1..(m + n)
        /\ \A i \in 1..m : c[i].comment = 0
        /\ \A i \in 1..n : c[m + i].comment = prev.comments + i
    <3> DEFINE ab == a \o b
    <3>1. c = ab \o d BY <2>4
    <3>2. ab \in Seq(EventsToTell) /\ m \in Nat /\ Len(ab) = m
          /\ \A i \in 1..m : ab[i].comment = 0
      BY <2>5
    <3> HIDE DEF ab, m
    <3>3. ab \in Seq(EventsToTell) /\ d \in Seq(EventsToTell) BY <2>3, <3>2
    <3>4. /\ ab \o d \in Seq(EventsToTell) /\ DOMAIN (ab \o d) = 1..(Len(ab) + Len(d))
          /\ \A i \in 1..Len(ab) : (ab \o d)[i] = ab[i]
          /\ \A i \in 1..Len(d) : (ab \o d)[Len(ab) + i] = d[i]
      BY <3>3, ConcatFacts
    <3>. QED BY <2>3, <3>1, <3>2, <3>4
  <2> HIDE DEF m
  <2>7. \A i \in DOMAIN c : c[i].comment = 0
                            \/ (i - m \in 1..n /\ c[i].comment = prev.comments + (i - m))
    <3> SUFFICES ASSUME NEW i \in DOMAIN c, c[i].comment # 0
                 PROVE  i - m \in 1..n /\ c[i].comment = prev.comments + (i - m)
      OBVIOUS
    <3>1. i \in 1..(m + n) /\ i \notin 1..m /\ m \in Nat /\ n \in Nat BY <2>3, <2>5, <2>6
    <3>2. i - m \in 1..n /\ m + (i - m) = i BY <3>1
    <3> DEFINE k == i - m
    <3> HIDE DEF k
    <3>3. k \in 1..n => c[m + k].comment = prev.comments + k BY <2>6
    <3>. QED BY <3>2, <3>3 DEF k
  <2>8. \A i \in DOMAIN c : c[i].comment # 0 => prev.comments < c[i].comment
                                               /\ c[i].comment <= cur.comments
    BY <1>0, <2>7 DEF n
  <2>9. \A i, j \in DOMAIN c : i < j /\ c[i].comment # 0 /\ c[j].comment # 0
                                  => c[i].comment < c[j].comment
    <3> SUFFICES ASSUME NEW i \in DOMAIN c, NEW j \in DOMAIN c, i < j,
                        c[i].comment # 0, c[j].comment # 0
                 PROVE  c[i].comment < c[j].comment
      OBVIOUS
    <3>1. c[i].comment = prev.comments + (i - m) /\ c[j].comment = prev.comments + (j - m)
      BY <2>7
    <3>2. i \in Nat /\ j \in Nat /\ m \in Nat /\ prev.comments \in Nat
      BY <1>0, <2>3, <2>5, <2>6
    <3>. QED BY <3>1, <3>2
  <2>. QED BY <1>2, <2>6, <2>8, <2>9 DEF c
<1>. QED BY <1>1, <1>2

\* After a failed poll of a pull request nothing but an escalation is left.
LEMMA ErrsType ==
    ASSUME TypeOK, todo # <<>>, Errs(At)
    PROVE  /\ failures' \in [PRs -> 0..(Threshold - 1)] /\ unreachable' \subseteq PRs
           /\ snapshots' \in [PRs -> Readings \cup {Unread}]
           /\ \A p \in PRs : snapshots'[p] \in {snapshots[p], Unread}
           /\ \E rest \in {<<>>, <<Event("escalate")>>} : GoesOn(rest)
           /\ \E rest \in Seq(EventsToTell) : GoesOn(rest)
<1>1. At \in PRs BY AtType
<1>2. failures' \in [PRs -> 0..(Threshold - 1)]
  <2>1. \A n \in 0..(Threshold - 1) : Counted(n) \in 0..(Threshold - 1)
    BY PollingAssumption DEF Counted
  <2>. QED BY <1>1, <2>1 DEF TypeOK, Errs
<1>3. unreachable' \subseteq PRs BY <1>1 DEF TypeOK, Errs
<1>4. snapshots' = snapshots \/ snapshots' = [snapshots EXCEPT ![At] = Unread]
  BY DEF Errs
<1>5. snapshots' \in [PRs -> Readings \cup {Unread}]
      /\ \A p \in PRs : snapshots'[p] \in {snapshots[p], Unread}
  BY <1>1, <1>4 DEF TypeOK
<1>6. \E rest \in {<<>>, <<Event("escalate")>>} : GoesOn(rest) BY DEF Errs
<1>7. <<Event("escalate")>> \in Seq(EventsToTell) /\ <<>> \in Seq(EventsToTell)
  BY EventType DEF Keys
<1>. QED BY <1>2, <1>3, <1>5, <1>6, <1>7

LEMMA HandlesType ==
    ASSUME TypeOK, NEW p \in PRs, NEW e, e.key \in Keys, Handles(p, e)
    PROVE  /\ job' \in [status : Statuses, verb : Awaitable \cup {Nothing}, pr : PRs \cup {Nothing}]
           /\ stamped' \subseteq PRs /\ run' \in {"off", "on", "ending"} /\ queued' \subseteq Keys
<1>1. CASE ~Resumable(job.status) BY <1>1 DEF Handles, dispatcher, TypeOK
<1>2. CASE Resumable(job.status)
  <2>1. stamped' \subseteq PRs BY <1>2 DEF Handles, TypeOK
  <2>2. queued' \subseteq Keys BY <1>2 DEF Handles, TypeOK
  <2>3. Woken \in [status : Statuses, verb : Awaitable \cup {Nothing}, pr : PRs \cup {Nothing}]
    BY DEF Woken, Statuses, TypeOK
  <2>4. \/ run' = "on" /\ job' = Woken
        \/ run' \in {run, "off"} /\ job' = job
    BY <1>2 DEF Handles, Wakes
  <2>. QED BY <2>1, <2>2, <2>3, <2>4 DEF TypeOK
<1>. QED BY <1>1, <1>2

-----------------------------------------------------------------------------
(* Types.                                                                    *)

LEMMA BoundsType ==
    ASSUME TypeOK
    PROVE  /\ bounds \in Bounds /\ bounds.reviews \in Nat
           /\ bounds.reviews < MaxReviews =>
                 /\ [bounds EXCEPT !.reviews = @ + 1] \in Bounds
                 /\ [bounds EXCEPT !.reviews = @ + 1].reviews = bounds.reviews + 1
           /\ bounds.parks < MaxParks =>
                 /\ [bounds EXCEPT !.parks = @ + 1] \in Bounds
                 /\ [bounds EXCEPT !.parks = @ + 1].reviews = bounds.reviews
           /\ bounds.mishaps < MaxMishaps =>
                 /\ [bounds EXCEPT !.mishaps = @ + 1] \in Bounds
                 /\ [bounds EXCEPT !.mishaps = @ + 1].reviews = bounds.reviews
           /\ bounds.restarts < MaxRestarts =>
                 /\ [bounds EXCEPT !.restarts = @ + 1] \in Bounds
                 /\ [bounds EXCEPT !.restarts = @ + 1].reviews = bounds.reviews
<1>0. bounds \in Bounds BY DEF TypeOK, Bounds
<1>1. \A m \in Nat : \A n \in 0..m : n \in Nat /\ (n < m => n + 1 \in 0..m) OBVIOUS
<1>2. MaxReviews \in Nat /\ MaxParks \in Nat /\ MaxMishaps \in Nat /\ MaxRestarts \in Nat
  BY PollingAssumption
<1>3. /\ bounds.reviews \in 0..MaxReviews /\ bounds.parks \in 0..MaxParks
      /\ bounds.mishaps \in 0..MaxMishaps /\ bounds.restarts \in 0..MaxRestarts
  BY <1>0 DEF Bounds
<1>4. /\ bounds.reviews < MaxReviews => bounds.reviews + 1 \in 0..MaxReviews
      /\ bounds.parks < MaxParks => bounds.parks + 1 \in 0..MaxParks
      /\ bounds.mishaps < MaxMishaps => bounds.mishaps + 1 \in 0..MaxMishaps
      /\ bounds.restarts < MaxRestarts => bounds.restarts + 1 \in 0..MaxRestarts
  BY <1>1, <1>2, <1>3
<1>5. bounds.reviews \in Nat BY <1>2, <1>3
<1>. QED BY <1>0, <1>4, <1>5 DEF Bounds

LEMMA InitType == Init => TypeInv
<1> SUFFICES ASSUME Init PROVE TypeInv
  OBVIOUS
<1>0. MaxReviews \in Nat /\ MaxParks \in Nat /\ MaxMishaps \in Nat /\ MaxRestarts \in Nat
      /\ Threshold \in Nat \ {0}
  BY PollingAssumption
<1>1. [Unread EXCEPT !.state = "open"] \in Readings
      /\ [Unread EXCEPT !.state = "open"].approvals = 0
      /\ [Unread EXCEPT !.state = "open"].comments = 0
  BY <1>0 DEF Unread, Readings
<1>2. scm \in [PRs -> Readings] /\ \A p \in PRs : scm[p].approvals = 0 /\ scm[p].comments = 0
  BY <1>1 DEF Init
<1>3. job \in [status : Statuses, verb : Awaitable \cup {Nothing}, pr : PRs \cup {Nothing}]
  BY DEF Init, ParkedFor, Statuses
<1>4. /\ snapshots \in [PRs -> Readings \cup {Unread}]
      /\ \A p \in PRs : snapshots[p].comments = 0
  BY DEF Init, Unread
<1>5. failures \in [PRs -> 0..(Threshold - 1)] BY <1>0 DEF Init
<1>6. bounds \in Bounds /\ bounds.reviews = 0
  BY <1>0 DEF Init, Bounds
<1>7. /\ told \in [PRs -> Seq(1..MaxReviews)] /\ lost \subseteq PRs
      /\ todo \in Seq(PRs) /\ pending \in Seq(EventsToTell)
  BY DEF Init
<1>8. /\ stamped \subseteq PRs /\ run \in {"off", "on", "ending"} /\ queued \subseteq Keys
      /\ reach \subseteq PRs /\ unreachable \subseteq PRs /\ stopped \in BOOLEAN
  BY DEF Init
<1>9. TypeOK
  BY <1>2, <1>3, <1>4, <1>5, <1>6, <1>7, <1>8 DEF TypeOK, Bounds, EventsToTell
<1>10. Shape BY <1>2, <1>4, <1>6 DEF Init, Shape
<1>. QED BY <1>9, <1>10 DEF TypeInv

\* A step that leaves rows, readings and the bounds alone, and works off events.
LEMMA WorkType ==
    ASSUME TypeInv, todo # <<>>, NEW rest \in Seq(EventsToTell), GoesOn(rest),
           UNCHANGED <<dispatcher, scm, reach, snapshots, failures, unreachable, history, bounds>>
    PROVE  TypeInv'
<1>1. /\ pending' = rest /\ pending' \in Seq([key : Keys, comment : 0..MaxReviews])
      /\ todo' \in Seq(PRs) /\ stopped' \in BOOLEAN
      /\ pending' # <<>> => todo' = todo /\ todo' # <<>>
  BY GoesOnType DEF TypeInv
<1>2. TypeOK' BY <1>1 DEF TypeInv, TypeOK, dispatcher, history
<1>3. Shape' BY <1>1 DEF TypeInv, Shape
<1>. QED BY <1>2, <1>3 DEF TypeInv

LEMMA TypeKept == TypeInv /\ [Next]_vars => TypeInv'
<1> SUFFICES ASSUME TypeInv, [Next]_vars PROVE TypeInv'
  OBVIOUS
<1> USE DEF TypeInv
<1>0. /\ MaxReviews \in Nat /\ MaxParks \in Nat /\ MaxMishaps \in Nat /\ MaxRestarts \in Nat
      /\ Threshold \in Nat \ {0}
  BY PollingAssumption
<1>1. CASE UNCHANGED vars
  BY <1>1 DEF TypeOK, Shape, vars, dispatcher, poller, history
<1>2. CASE CycleStarts
  <2>1. todo' \in Seq(PRs) BY <1>2, ListedType DEF CycleStarts
  <2>2. stopped' \in BOOLEAN BY <1>2 DEF CycleStarts, StoppedWithReason
  <2>3. TypeOK' BY <1>2, <2>1, <2>2 DEF CycleStarts, TypeOK, dispatcher, history
  <2>4. pending = <<>> BY <1>2 DEF CycleStarts, Shape
  <2>. QED BY <1>2, <2>3, <2>4 DEF CycleStarts, Shape
<1>3. CASE Skips
  BY <1>3, WorkType, EventType DEF Skips, Free
<1>4. CASE Answers
  <2> DEFINE p == At
             c == Changes(snapshots[p], scm[p])
  <2>1. p \in PRs /\ todo # <<>> BY <1>4, AtType DEF Answers, Free
  <2>2. c \in Seq(EventsToTell)
    <3>1. snapshots[p] \in Readings \cup {Unread} /\ scm[p] \in Readings BY <2>1 DEF TypeOK
    <3>2. snapshots[p].comments <= scm[p].comments BY <2>1 DEF Shape
    <3>. QED BY <3>1, <3>2, ChangesTell
  <2>3. GoesOn(c) BY <1>4 DEF Answers
  <2>4. /\ pending' \in Seq([key : Keys, comment : 0..MaxReviews])
        /\ todo' \in Seq(PRs) /\ stopped' \in BOOLEAN
        /\ pending' # <<>> => todo' # <<>>
    BY <2>1, <2>2, <2>3, GoesOnType
  <2>5. /\ snapshots' \in [PRs -> Readings \cup {Unread}]
        /\ \A q \in PRs : snapshots'[q] = snapshots[q] \/ snapshots'[q] = scm[q]
    BY <1>4, <2>1 DEF Answers, TypeOK
  <2>6. failures' \in [PRs -> 0..(Threshold - 1)] /\ unreachable' \subseteq PRs
    BY <1>0, <1>4, <2>1 DEF Answers, TypeOK
  <2>7. TypeOK' BY <1>4, <2>4, <2>5, <2>6 DEF Answers, TypeOK, dispatcher, history
  <2>8. \A q \in PRs : snapshots'[q].comments <= scm[q].comments
    <3>1. \A q \in PRs : scm[q].comments \in Nat BY <1>0 DEF TypeOK, Readings
    <3>. QED BY <2>5, <3>1 DEF Shape
  <2>9. Shape' BY <1>4, <2>4, <2>8 DEF Answers, Shape
  <2>. QED BY <2>7, <2>9
<1>5. CASE Fails \/ HandlerFails
  <2>1. Errs(At) /\ todo # <<>> BY <1>5 DEF Fails, HandlerFails, Free, Shape
  <2>2. PICK rest \in Seq(EventsToTell) : GoesOn(rest) BY <2>1, ErrsType
  <2>3. /\ pending' \in Seq([key : Keys, comment : 0..MaxReviews])
        /\ todo' \in Seq(PRs) /\ stopped' \in BOOLEAN
        /\ pending' # <<>> => todo' # <<>>
    BY <2>1, <2>2, GoesOnType
  <2>4. /\ failures' \in [PRs -> 0..(Threshold - 1)] /\ unreachable' \subseteq PRs
        /\ snapshots' \in [PRs -> Readings \cup {Unread}]
        /\ \A p \in PRs : snapshots'[p] \in {snapshots[p], Unread}
    BY <2>1, ErrsType
  <2>5. UNCHANGED <<dispatcher, scm, reach, told>> BY <1>5 DEF Fails, HandlerFails, history
  <2>6. lost' \subseteq PRs BY <1>5, <2>1, AtType DEF Fails, HandlerFails, history, TypeOK
  <2>7. /\ bounds' \in Bounds
        /\ bounds'.reviews = bounds.reviews
    BY <1>5, BoundsType DEF Fails, HandlerFails, history
  <2>8. TypeOK' BY <2>3, <2>4, <2>5, <2>6, <2>7 DEF TypeOK, Bounds, dispatcher
  <2>9. \A p \in PRs : snapshots'[p].comments <= scm[p].comments
    <3>1. \A p \in PRs : scm[p].comments \in Nat BY <1>0 DEF TypeOK, Readings
    <3>. QED BY <2>4, <3>1 DEF Shape, Unread
  <2>10. Shape' BY <2>3, <2>5, <2>7, <2>9 DEF Shape
  <2>. QED BY <2>8, <2>10
<1>6. CASE Escalates
  <2>1. /\ pending' = <<>> /\ todo' \in Seq(PRs) /\ stopped' \in BOOLEAN
    BY <1>6, GoesOnType, EventType DEF Escalates, Shape
  <2>2. job' \in [status : Statuses, verb : Awaitable \cup {Nothing}, pr : PRs \cup {Nothing}]
    BY <1>6 DEF Escalates, TypeOK, Statuses
  <2>3. TypeOK' BY <1>6, <2>1, <2>2 DEF Escalates, TypeOK, history
  <2>. QED BY <1>6, <2>1, <2>3 DEF Escalates, Shape
<1>7. CASE ColdStarts
  <2>1. Awaited(snapshots[At]) \in Seq(EventsToTell)
    <3>1. {"pullrequest:fulfilled", "pullrequest:rejected", "pullrequest:approved"} \subseteq Keys
      BY DEF Keys
    <3>. QED BY <3>1, EventType DEF Awaited
  <2>. QED BY <1>7, <2>1, WorkType DEF ColdStarts, Shape
<1>8. CASE Delivers
  <2>1. todo # <<>> /\ At \in PRs BY <1>8, AtType DEF Delivers, Shape
  <2>2. Head(pending) \in EventsToTell /\ Tail(pending) \in Seq(EventsToTell)
    <3>1. pending \in Seq(EventsToTell) /\ pending # <<>>
      BY <1>8 DEF Delivers, TypeOK, EventsToTell
    <3>. QED BY <3>1
  <2>3. /\ pending' \in Seq([key : Keys, comment : 0..MaxReviews])
        /\ todo' \in Seq(PRs) /\ stopped' \in BOOLEAN
        /\ pending' # <<>> => todo' # <<>>
    BY <1>8, <2>1, <2>2, GoesOnType DEF Delivers
  <2>4. /\ job' \in [status : Statuses, verb : Awaitable \cup {Nothing}, pr : PRs \cup {Nothing}]
        /\ stamped' \subseteq PRs /\ run' \in {"off", "on", "ending"} /\ queued' \subseteq Keys
    <3>1. Head(pending).key \in Keys BY <2>2 DEF EventsToTell
    <3>. QED BY <1>8, <2>1, <3>1, HandlesType DEF Delivers
  <2>5. told' \in [PRs -> Seq(1..MaxReviews)]
    <3>1. Comment(Head(pending)) \in Seq(1..MaxReviews)
      <4> DEFINE n == Head(pending).comment
      <4>1. n \in 0..MaxReviews BY <2>2 DEF EventsToTell
      <4>2. n # 0 => n \in 1..MaxReviews BY <1>0, <4>1
      <4>3. Comment(Head(pending)) = IF n = 0 THEN <<>> ELSE <<n>> BY DEF Comment
      <4> HIDE DEF n
      <4>4. CASE n = 0 BY <4>3, <4>4, EmptySeq
      <4>5. CASE n # 0
        <5>1. <<n>> \in Seq(1..MaxReviews) BY <4>2, <4>5
        <5>. QED BY <4>3, <4>5, <5>1
      <4>. QED BY <4>4, <4>5
    <3>2. told[At] \o Comment(Head(pending)) \in Seq(1..MaxReviews)
      BY <2>1, <3>1 DEF TypeOK
    <3>. QED BY <1>8, <2>1, <3>2 DEF Delivers, TypeOK
  <2>6. TypeOK' BY <1>8, <2>3, <2>4, <2>5 DEF Delivers, TypeOK
  <2>. QED BY <1>8, <2>3, <2>6 DEF Delivers, Shape
<1>9. ASSUME NEW v \in Awaitable, NEW p \in PRs, Parks(v, p) PROVE TypeInv'
  <2>1. job' \in [status : Statuses, verb : Awaitable \cup {Nothing}, pr : PRs \cup {Nothing}]
    BY <1>9 DEF Parks, ParkedFor, Statuses
  <2>2. /\ bounds' \in Bounds
        /\ bounds'.reviews = bounds.reviews
    BY <1>9, BoundsType DEF Parks
  <2>3. TypeOK' BY <1>9, <2>1, <2>2 DEF Parks, TypeOK, Bounds, poller, history
  <2>. QED BY <1>9, <2>2, <2>3 DEF Parks, Shape, poller
<1>10. CASE Stops \/ Ends \/ Resumes
  <2>1. job' \in [status : Statuses, verb : Awaitable \cup {Nothing}, pr : PRs \cup {Nothing}]
    BY <1>10 DEF Stops, Ends, Wakes, Resumes, Woken, Statuses, TypeOK
  <2>2. /\ run' \in {"off", "on", "ending"} /\ queued' \subseteq Keys
        /\ UNCHANGED <<stamped, scm, reach, poller, history, bounds>>
    BY <1>10 DEF Stops, Ends, Wakes, Resumes, TypeOK
  <2>3. TypeOK' BY <2>1, <2>2 DEF TypeOK, poller, history
  <2>. QED BY <2>2, <2>3 DEF Shape, poller
<1>11. CASE Restarts
  <2>1. /\ snapshots' \in [PRs -> Readings \cup {Unread}]
        /\ \A p \in PRs : snapshots'[p].comments = 0
    BY <1>11 DEF Restarts, Unread
  <2>2. failures' \in [PRs -> 0..(Threshold - 1)] BY <1>0, <1>11 DEF Restarts
  <2>3. /\ bounds' \in Bounds
        /\ bounds'.reviews = bounds.reviews
    BY <1>11, BoundsType DEF Restarts
  <2>4. TypeOK'
    <3>1. /\ run' \in {"off", "on", "ending"} /\ queued' = {} /\ stopped' \in BOOLEAN
          /\ unreachable' \subseteq PRs /\ todo' = <<>> /\ pending' = <<>>
      BY <1>11 DEF Restarts
    <3>2. UNCHANGED <<job, scm, reach, told>> BY <1>11 DEF Restarts
    <3>3. todo' \in Seq(PRs) /\ pending' \in Seq(EventsToTell) BY <3>1, EmptySeq
    <3>4. stamped' \subseteq PRs
      <4>1. pending # <<>> => At \in PRs BY AtType DEF Shape
      <4>. QED BY <1>11, <4>1 DEF Restarts, StampedByThen, TypeOK
    <3>5. lost' \subseteq PRs BY <1>11, <3>4 DEF Restarts, TypeOK
    <3>. QED BY <2>1, <2>2, <2>3, <3>1, <3>2, <3>3, <3>4, <3>5 DEF TypeOK, Bounds, EventsToTell
  <2>5. \A p \in PRs : scm[p].comments \in Nat BY <1>0 DEF TypeOK, Readings
  <2>. QED BY <1>11, <2>1, <2>3, <2>4, <2>5 DEF Restarts, Shape
<1>12. ASSUME NEW p \in PRs, Reviewed(p) PROVE TypeInv'
  <2>1. /\ bounds' \in Bounds
        /\ bounds'.reviews = bounds.reviews + 1 /\ bounds.reviews \in Nat
        /\ bounds.reviews < MaxReviews
    BY <1>12, BoundsType DEF Reviewed
  <2> DEFINE Shapes == [state : {"open", "merged", "declined"}, approvals : Nat, comments : Nat]
             Becomes(r) == /\ scm' = [scm EXCEPT ![p] = r]
                           /\ r.approvals <= scm[p].approvals + 1
                           /\ scm[p].comments <= r.comments
                           /\ r.comments <= scm[p].comments + 1
  <2>2. PICK r \in Shapes : Becomes(r)
    <3>1. /\ scm[p] \in Readings /\ scm[p].approvals \in Nat /\ scm[p].comments \in Nat
      BY <1>0 DEF TypeOK, Readings
    <3>2. ASSUME NEW s \in {"open", "merged", "declined"}, scm' = [scm EXCEPT ![p].state = s]
          PROVE  \E r \in Shapes : Becomes(r)
      <4> DEFINE r == [scm[p] EXCEPT !.state = s]
      <4>1. /\ r \in Shapes
            /\ r.approvals = scm[p].approvals /\ r.comments = scm[p].comments
        BY <3>1 DEF Readings
      <4>2. scm' = [scm EXCEPT ![p] = r] BY <3>2
      <4>3. Becomes(r) BY <3>1, <4>1, <4>2
      <4>. QED BY <4>1, <4>3
    <3>3. ASSUME scm' = [scm EXCEPT ![p].approvals = @ + 1] PROVE \E r \in Shapes : Becomes(r)
      <4> DEFINE r == [scm[p] EXCEPT !.approvals = @ + 1]
      <4>1. /\ r \in Shapes
            /\ r.approvals = scm[p].approvals + 1 /\ r.comments = scm[p].comments
        BY <3>1 DEF Readings
      <4>2. scm' = [scm EXCEPT ![p] = r] BY <3>3
      <4>3. Becomes(r) BY <3>1, <4>1, <4>2
      <4>. QED BY <4>1, <4>3
    <3>4. ASSUME scm' = [scm EXCEPT ![p].comments = @ + 1] PROVE \E r \in Shapes : Becomes(r)
      <4> DEFINE r == [scm[p] EXCEPT !.comments = @ + 1]
      <4>1. /\ r \in Shapes
            /\ r.approvals = scm[p].approvals /\ r.comments = scm[p].comments + 1
        BY <3>1 DEF Readings
      <4>2. scm' = [scm EXCEPT ![p] = r] BY <3>4
      <4>3. Becomes(r) BY <3>1, <4>1, <4>2
      <4>. QED BY <4>1, <4>3
    <3>. QED BY <1>12, <3>2, <3>3, <3>4 DEF Reviewed
  <2>3. scm'[p] = r /\ \A q \in PRs \ {p} : scm'[q] = scm[q] BY <2>2 DEF TypeOK
  <2>4. r \in Readings /\ r.approvals <= bounds'.reviews /\ r.comments <= bounds'.reviews
    <3>1. scm[p].approvals \in Nat /\ scm[p].comments \in Nat BY <1>0 DEF TypeOK, Readings
    <3>2. scm[p].approvals <= bounds.reviews /\ scm[p].comments <= bounds.reviews BY DEF Shape
    <3>3. r.approvals \in 0..MaxReviews /\ r.comments \in 0..MaxReviews
          /\ r.approvals <= bounds'.reviews /\ r.comments <= bounds'.reviews
      BY <1>0, <2>1, <2>2, <3>1, <3>2
    <3>. QED BY <2>2, <3>3 DEF Readings
  <2>5. scm' \in [PRs -> Readings] BY <2>2, <2>4 DEF TypeOK
  <2>6. TypeOK' BY <1>12, <2>1, <2>5 DEF Reviewed, TypeOK, Bounds, dispatcher, poller, history
  <2>7. \A q \in PRs : scm'[q].approvals <= bounds'.reviews /\ scm'[q].comments <= bounds'.reviews
                        /\ snapshots[q].comments <= scm'[q].comments
    <3> SUFFICES ASSUME NEW q \in PRs
                 PROVE  scm'[q].approvals <= bounds'.reviews /\ scm'[q].comments <= bounds'.reviews
                        /\ snapshots[q].comments <= scm'[q].comments
      OBVIOUS
    <3>1. scm[q].approvals \in Nat /\ scm[q].comments \in Nat /\ snapshots[q].comments \in Nat
      <4>1. scm[q] \in Readings /\ (snapshots[q] \in Readings \/ snapshots[q] = Unread)
        BY DEF TypeOK
      <4>2. Unread.comments \in Nat BY DEF Unread
      <4>. QED BY <1>0, <4>1, <4>2 DEF Readings
    <3>2. scm[q].approvals <= bounds.reviews /\ scm[q].comments <= bounds.reviews
          /\ snapshots[q].comments <= scm[q].comments
      BY DEF Shape
    <3>3. CASE q = p BY <2>2, <2>3, <2>4, <3>1, <3>2, <3>3
    <3>4. CASE q # p BY <2>1, <2>3, <3>1, <3>2, <3>4
    <3>. QED BY <3>3, <3>4
  <2>8. UNCHANGED <<snapshots, todo, pending>> BY <1>12 DEF Reviewed, poller
  <2>. QED BY <2>6, <2>7, <2>8 DEF Shape
<1>13. ASSUME NEW p \in PRs, Vanishes(p) \/ Returns(p) PROVE TypeInv'
  <2>1. reach' \subseteq PRs BY <1>13 DEF Vanishes, Returns, TypeOK
  <2>2. /\ bounds' \in Bounds
        /\ bounds'.reviews = bounds.reviews
    BY <1>13, BoundsType DEF Vanishes, Returns
  <2>3. UNCHANGED <<dispatcher, scm, poller, history>> BY <1>13 DEF Vanishes, Returns
  <2>4. TypeOK' BY <2>1, <2>2, <2>3 DEF TypeOK, Bounds, dispatcher, poller, history
  <2>. QED BY <2>2, <2>3, <2>4 DEF Shape, poller
<1>. QED
  BY <1>1, <1>2, <1>3, <1>4, <1>5, <1>6, <1>7, <1>8, <1>9, <1>10, <1>11, <1>12, <1>13
     DEF Next, Cycle, Run

\* The variables keep their types.
THEOREM TypeCorrect == Spec => []TypeOK
<1>. QED BY InitType, TypeKept, PTL DEF Spec, TypeInv

-----------------------------------------------------------------------------
(* Comments.  What was told of a pull request is never above the provider's  *)
(* count, nor above the reading kept of it; what a cycle has left to tell is *)
(* above all that was told.  A reading that is dropped, by an outage or by a *)
(* restart, starts from the provider's count again and tells nothing.        *)

Rising(s) == \A i, j \in DOMAIN s : i < j => s[i] < s[j]
UpTo(s, n) == \A i \in DOMAIN s : s[i] <= n

\* Events that tell comments above those of s, up to the n-th.
News(events, s, n) ==
    /\ \A i, j \in DOMAIN events :
          i < j /\ events[i].comment # 0 /\ events[j].comment # 0
             => events[i].comment < events[j].comment
    /\ \A i \in DOMAIN events : events[i].comment # 0 =>
          /\ events[i].comment <= n
          /\ \A k \in DOMAIN s : s[k] < events[i].comment

ToldInv ==
    /\ \A p \in PRs : /\ Rising(told[p]) /\ UpTo(told[p], scm[p].comments)
                      /\ snapshots[p] # Unread => UpTo(told[p], snapshots[p].comments)
    /\ \A i \in DOMAIN pending : pending[i].comment # 0 => snapshots[At] # Unread
    /\ pending # <<>> => News(pending, told[At], snapshots[At].comments)

LEMMA SilentKept ==
    ASSUME ToldInv, UNCHANGED <<scm, told>>,
           \A p \in PRs : snapshots'[p] \in {snapshots[p], Unread},
           \A i \in DOMAIN pending' : pending'[i].comment = 0
    PROVE  ToldInv'
<1>1. \A p \in PRs : /\ Rising(told'[p]) /\ UpTo(told'[p], scm'[p].comments)
                     /\ snapshots'[p] # Unread => UpTo(told'[p], snapshots'[p].comments)
  BY DEF ToldInv
<1>2. \A s, n : News(pending', s, n) BY DEF News
<1>. QED BY <1>1, <1>2 DEF ToldInv

LEMMA ToldKept == TypeInv /\ ToldInv /\ [Next]_vars => ToldInv'
<1> SUFFICES ASSUME TypeInv, ToldInv, [Next]_vars PROVE ToldInv'
  OBVIOUS
<1>0. MaxReviews \in Nat /\ (todo = <<>> => pending = <<>>)
  BY PollingAssumption DEF TypeInv, Shape
<1>1. ASSUME UNCHANGED <<scm, told, snapshots, todo, pending>> PROVE ToldInv'
  BY <1>1 DEF ToldInv, At
<1>2. CASE CycleStarts
  <2>1. /\ \A i \in DOMAIN pending' : pending'[i].comment = 0
        /\ UNCHANGED <<scm, told, snapshots>>
    BY <1>0, <1>2 DEF CycleStarts, history
  <2>. QED BY <2>1, SilentKept
<1>3. CASE Skips \/ Escalates
  <2>1. /\ \A i \in DOMAIN pending' : pending'[i].comment = 0
        /\ UNCHANGED <<scm, told, snapshots>>
    BY <1>3 DEF Skips, Escalates, GoesOn, history
  <2>. QED BY <2>1, SilentKept
<1>4. CASE Answers
  <2> DEFINE p == At
             c == Changes(snapshots[p], scm[p])
  <2>1. p \in PRs /\ todo # <<>> BY <1>4, AtType DEF Answers, Free, TypeInv
  <2>2. /\ snapshots[p] \in Readings \cup {Unread} /\ scm[p] \in Readings
        /\ snapshots[p].comments <= scm[p].comments
    BY <2>1 DEF TypeInv, TypeOK, Shape
  <2>3. c \in Seq(EventsToTell) BY <2>2, ChangesTell
  <2>4. pending' = c /\ (pending' # <<>> => todo' = todo)
    BY <1>4, <2>1, <2>3, GoesOnType DEF Answers, TypeInv
  <2>5. snapshots' = [snapshots EXCEPT ![p] = scm[p]] /\ UNCHANGED <<scm, told>>
        /\ snapshots \in [PRs -> Readings \cup {Unread}]
    BY <1>4 DEF Answers, history, TypeInv, TypeOK
  <2>6. \A q \in PRs : /\ Rising(told'[q]) /\ UpTo(told'[q], scm'[q].comments)
                       /\ snapshots'[q] # Unread => UpTo(told'[q], snapshots'[q].comments)
    BY <2>1, <2>5 DEF ToldInv
  <2>7. CASE pending' = <<>> BY <2>6, <2>7 DEF ToldInv
  <2>8. CASE pending' # <<>>
    <3>1. At' = p BY <2>4, <2>8 DEF At
    <3>2. snapshots'[p] = scm[p] /\ scm[p] # Unread
      BY <2>1, <2>2, <2>5 DEF Readings, Unread, Nothing
    <3>3. News(c, told[p], scm[p].comments)
      <4>1. CASE snapshots[p] = Unread
        <5>1. \A i \in DOMAIN c : c[i].comment = 0 BY <2>2, <4>1, ChangesTell
        <5>. QED BY <5>1 DEF News
      <4>2. CASE snapshots[p] # Unread
        <5>1. \A i \in DOMAIN c : c[i].comment # 0 =>
                 snapshots[p].comments < c[i].comment /\ c[i].comment <= scm[p].comments
          BY <2>2, ChangesTell
        <5>2. \A i, j \in DOMAIN c : i < j /\ c[i].comment # 0 /\ c[j].comment # 0
                                        => c[i].comment < c[j].comment
          BY <2>2, ChangesTell
        <5>3. \A k \in DOMAIN told[p] : told[p][k] <= snapshots[p].comments
          BY <2>1, <4>2 DEF ToldInv, UpTo
        <5>4. \A k \in DOMAIN told[p] : told[p][k] \in Nat BY <1>0, <2>1 DEF TypeInv, TypeOK
        <5>5. snapshots[p].comments \in Nat BY <1>0, <2>2 DEF Readings, Unread
        <5>6. \A i \in DOMAIN c : c[i].comment \in Nat
          <6>1. \A i \in DOMAIN c : c[i] \in EventsToTell BY <2>3
          <6>. QED BY <1>0, <6>1 DEF EventsToTell
        <5> HIDE DEF c, p
        <5>7. \A i \in DOMAIN c : c[i].comment # 0 =>
                 \A k \in DOMAIN told[p] : told[p][k] < c[i].comment
          BY <5>1, <5>3, <5>4, <5>5, <5>6
        <5>. QED BY <5>1, <5>2, <5>7 DEF News
      <4>. QED BY <4>1, <4>2
    <3>. QED BY <2>4, <2>5, <2>6, <3>1, <3>2, <3>3 DEF ToldInv
  <2>. QED BY <2>7, <2>8
<1>5. CASE Fails \/ HandlerFails
  <2>1. Errs(At) /\ todo # <<>> BY <1>0, <1>5 DEF Fails, HandlerFails, Free
  <2>2. /\ \A p \in PRs : snapshots'[p] \in {snapshots[p], Unread}
        /\ \E rest \in {<<>>, <<Event("escalate")>>} : GoesOn(rest)
    BY <2>1, ErrsType DEF TypeInv
  <2>3. \A i \in DOMAIN pending' : pending'[i].comment = 0
    <3>1. pending' = <<>> \/ pending' = <<Event("escalate")>> BY <2>2 DEF GoesOn
    <3>2. Event("escalate").comment = 0 BY DEF Event
    <3>. QED BY <3>1, <3>2
  <2>4. UNCHANGED <<scm, told>> BY <1>5 DEF Fails, HandlerFails, history
  <2>. QED BY <2>2, <2>3, <2>4, SilentKept
<1>6. CASE ColdStarts
  <2>1. \A i \in DOMAIN pending' : pending'[i].comment = 0
    <3>1. PICK k \in Keys : pending' \in {<<>>, <<Event(k)>>}
      BY <1>6 DEF ColdStarts, GoesOn, Awaited, Keys
    <3>2. Event(k).comment = 0 BY DEF Event
    <3>. QED BY <3>1, <3>2
  <2>2. UNCHANGED <<scm, told, snapshots>> BY <1>6 DEF ColdStarts, history
  <2>. QED BY <2>1, <2>2, SilentKept
<1>7. CASE Delivers
  <2> DEFINE p == At
             n == Head(pending).comment
             s == told[p]
             m == snapshots[p].comments
             rest == Tail(pending)
  <2>1. /\ p \in PRs /\ todo # <<>> /\ pending \in Seq(EventsToTell) /\ pending # <<>>
        /\ s \in Seq(1..MaxReviews)
    BY <1>0, <1>7, AtType DEF Delivers, TypeInv, TypeOK, EventsToTell
  <2>2. /\ Head(pending) = pending[1] /\ 1 \in DOMAIN pending /\ rest \in Seq(EventsToTell)
        /\ \A i \in DOMAIN rest : i + 1 \in DOMAIN pending /\ rest[i] = pending[i + 1] /\ i \in Nat /\ i > 0
    BY <2>1
  <2>3. n \in 0..MaxReviews /\ News(pending, s, m)
    <3>1. Head(pending) \in EventsToTell BY <2>1
    <3>2. News(pending, told[At], snapshots[At].comments) BY <2>1 DEF ToldInv
    <3>. QED BY <3>1, <3>2 DEF EventsToTell
  <2>4. pending' = rest /\ (pending' # <<>> => todo' = todo)
    BY <1>7, <2>1, <2>2, GoesOnType DEF Delivers, TypeInv
  <2>5. /\ told' = [told EXCEPT ![p] = s \o Comment(Head(pending))]
        /\ UNCHANGED <<scm, snapshots>> /\ told \in [PRs -> Seq(1..MaxReviews)]
    BY <1>7 DEF Delivers, TypeInv, TypeOK
  <2>6. /\ \A i, j \in DOMAIN rest :
              i < j /\ rest[i].comment # 0 /\ rest[j].comment # 0
                 => rest[i].comment < rest[j].comment
        /\ \A i \in DOMAIN rest : rest[i].comment # 0 =>
              /\ rest[i].comment <= m
              /\ \A k \in DOMAIN s : s[k] < rest[i].comment
              /\ n # 0 => n < rest[i].comment
    <3> HIDE DEF rest, s, m
    <3>1. ASSUME NEW i \in DOMAIN rest, rest[i].comment # 0
          PROVE  /\ rest[i].comment <= m
                 /\ \A k \in DOMAIN s : s[k] < rest[i].comment
                 /\ n # 0 => n < rest[i].comment
      <4>1. i + 1 \in DOMAIN pending /\ rest[i] = pending[i + 1] /\ 1 < i + 1 BY <2>2
      <4>. QED BY <2>2, <2>3, <3>1, <4>1 DEF News
    <3>2. ASSUME NEW i \in DOMAIN rest, NEW j \in DOMAIN rest, i < j,
                 rest[i].comment # 0, rest[j].comment # 0
          PROVE  rest[i].comment < rest[j].comment
      <4>1. /\ i + 1 \in DOMAIN pending /\ rest[i] = pending[i + 1]
            /\ j + 1 \in DOMAIN pending /\ rest[j] = pending[j + 1]
            /\ i + 1 < j + 1
        BY <2>2, <3>2
      <4>. QED BY <2>3, <3>2, <4>1 DEF News
    <3>. QED BY <3>1, <3>2
  <2>7. CASE n = 0
    <3>1. Comment(Head(pending)) = <<>> BY <2>7 DEF Comment
    <3>2. s \o <<>> = s BY <2>1
    <3>3. told' = told BY <2>1, <2>5, <3>1, <3>2
    <3>4. pending' # <<>> => At' = p BY <2>4 DEF At
    <3>5. News(rest, s, m) BY <2>6 DEF News
    <3>6. \A i \in DOMAIN rest : rest[i].comment # 0 => snapshots[p] # Unread
      BY <2>2 DEF ToldInv
    <3>7. \A q \in PRs : /\ Rising(told'[q]) /\ UpTo(told'[q], scm'[q].comments)
                         /\ snapshots'[q] # Unread => UpTo(told'[q], snapshots'[q].comments)
      BY <2>5, <3>3 DEF ToldInv
    <3>8. CASE pending' = <<>> BY <3>7, <3>8 DEF ToldInv
    <3>9. CASE pending' # <<>>
      <4>1. At' = p BY <3>4, <3>9
      <4>2. \A i \in DOMAIN pending' : pending'[i].comment # 0 => snapshots'[At'] # Unread
        BY <2>4, <2>5, <3>6, <4>1
      <4>3. News(pending', told'[At'], snapshots'[At'].comments)
        BY <2>4, <2>5, <3>3, <3>5, <4>1
      <4>. QED BY <3>7, <4>2, <4>3 DEF ToldInv
    <3>. QED BY <3>8, <3>9
  <2>8. CASE n # 0
    <3> DEFINE t == s \o <<n>>
    <3>1. Comment(Head(pending)) = <<n>> BY <2>8 DEF Comment
    <3>2. told'[p] = t /\ \A q \in PRs \ {p} : told'[q] = told[q]
      BY <2>1, <2>5, <3>1
    <3>3. \A k \in DOMAIN s : s[k] < n BY <2>2, <2>3, <2>8 DEF News
    <3>4. n <= m /\ snapshots[p] # Unread BY <2>2, <2>3, <2>8 DEF News, ToldInv
    <3>5. /\ Len(s) \in Nat /\ DOMAIN s = 1..Len(s) /\ DOMAIN t = 1..(Len(s) + 1)
          /\ \A k \in DOMAIN s : t[k] = s[k]
          /\ t[Len(s) + 1] = n
      BY <2>1
    <3> HIDE DEF t
    <3>6. \A k \in DOMAIN t : k \in DOMAIN s \/ (k = Len(s) + 1 /\ t[k] = n) BY <3>5
    <3>7. Rising(s) /\ UpTo(s, m) BY <2>1, <3>4 DEF ToldInv
    <3>8. Rising(t)
      <4> SUFFICES ASSUME NEW i \in DOMAIN t, NEW j \in DOMAIN t, i < j PROVE t[i] < t[j]
        BY DEF Rising
      <4>1. i \in DOMAIN s BY <3>5, <3>6
      <4>2. CASE j \in DOMAIN s BY <3>5, <3>7, <4>1, <4>2 DEF Rising
      <4>3. CASE j \notin DOMAIN s BY <3>3, <3>5, <3>6, <4>1, <4>3
      <4>. QED BY <4>2, <4>3
    <3>9. UpTo(t, m) BY <3>4, <3>5, <3>6, <3>7 DEF UpTo
    <3>10. UpTo(t, scm[p].comments)
      <4>1. /\ m <= scm[p].comments /\ m \in Nat /\ scm[p].comments \in Nat
        <5>1. m <= scm[p].comments BY <2>1 DEF TypeInv, Shape
        <5>2. snapshots[p] \in Readings /\ scm[p] \in Readings
          BY <2>1, <3>4 DEF TypeInv, TypeOK
        <5>. QED BY <1>0, <5>1, <5>2 DEF Readings
      <4>2. \A k \in DOMAIN t : t[k] \in Nat
        <5>1. \A k \in DOMAIN s : s[k] \in Nat BY <1>0, <2>1
        <5>2. n \in Nat BY <1>0, <2>3
        <5>. QED BY <3>5, <3>6, <5>1, <5>2
      <4> HIDE DEF m
      <4>. QED BY <3>9, <4>1, <4>2 DEF UpTo
    <3>11. \A q \in PRs : /\ Rising(told'[q]) /\ UpTo(told'[q], scm'[q].comments)
                          /\ snapshots'[q] # Unread => UpTo(told'[q], snapshots'[q].comments)
      BY <2>5, <3>2, <3>8, <3>9, <3>10 DEF ToldInv
    <3>12. News(rest, t, m)
      <4> HIDE DEF rest, s, m
      <4>. QED BY <2>6, <2>8, <3>5, <3>6 DEF News
    <3>13. CASE pending' = <<>> BY <3>11, <3>13 DEF ToldInv
    <3>14. CASE pending' # <<>>
      <4>1. At' = p BY <2>4, <3>14 DEF At
      <4>2. snapshots'[At'] # Unread /\ News(pending', told'[At'], snapshots'[At'].comments)
        BY <2>4, <2>5, <3>2, <3>4, <3>12, <4>1
      <4>. QED BY <3>11, <4>2 DEF ToldInv
    <3>. QED BY <3>13, <3>14
  <2>. QED BY <2>7, <2>8
<1>8. ASSUME \/ \E v \in Awaitable, p \in PRs : Parks(v, p)
             \/ Stops \/ Ends \/ Resumes
             \/ \E p \in PRs : Vanishes(p) \/ Returns(p)
      PROVE  ToldInv'
  BY <1>1, <1>8 DEF Parks, Stops, Ends, Resumes, Vanishes, Returns, poller, history
<1>9. CASE Restarts
  <2>1. /\ \A i \in DOMAIN pending' : pending'[i].comment = 0
        /\ UNCHANGED <<scm, told>> /\ \A p \in PRs : snapshots'[p] = Unread
    BY <1>9 DEF Restarts, history
  <2>. QED BY <2>1, SilentKept
<1>10. ASSUME NEW p \in PRs, Reviewed(p) PROVE ToldInv'
  <2>1. UNCHANGED <<told, snapshots, todo, pending>> BY <1>10 DEF Reviewed, poller, history
  <2>2. \A q \in PRs : scm'[q].comments = scm[q].comments
                       \/ scm'[q].comments = scm[q].comments + 1
    <3>1. scm \in [PRs -> Readings] BY DEF TypeInv, TypeOK
    <3>2. scm[p] \in [state : {"open", "merged", "declined"},
                     approvals : 0..MaxReviews, comments : 0..MaxReviews]
      BY <3>1 DEF Readings
    <3>3. ASSUME NEW r, scm' = [scm EXCEPT ![p] = r], r.comments \in {scm[p].comments, scm[p].comments + 1}
          PROVE  <2>2
      BY <3>1, <3>3
    <3>4. ASSUME NEW x, scm' = [scm EXCEPT ![p].state = x] PROVE <2>2
      <4>1. [scm[p] EXCEPT !.state = x].comments = scm[p].comments BY <3>2
      <4>. QED BY <3>3, <3>4, <4>1
    <3>5. ASSUME scm' = [scm EXCEPT ![p].approvals = @ + 1] PROVE <2>2
      <4>1. [scm[p] EXCEPT !.approvals = @ + 1].comments = scm[p].comments BY <3>2
      <4>. QED BY <3>3, <3>5, <4>1
    <3>6. ASSUME scm' = [scm EXCEPT ![p].comments = @ + 1] PROVE <2>2
      <4>1. [scm[p] EXCEPT !.comments = @ + 1].comments = scm[p].comments + 1 BY <3>2
      <4>. QED BY <3>3, <3>6, <4>1
    <3>. QED BY <1>10, <3>4, <3>5, <3>6 DEF Reviewed
  <2>3. \A q \in PRs : UpTo(told[q], scm'[q].comments)
    <3> SUFFICES ASSUME NEW q \in PRs, NEW k \in DOMAIN told[q]
                 PROVE  told[q][k] <= scm'[q].comments
      BY DEF UpTo
    <3>1. told[q][k] \in Nat /\ scm[q].comments \in Nat
      <4>1. told[q] \in Seq(1..MaxReviews) /\ scm[q] \in Readings BY DEF TypeInv, TypeOK
      <4>. QED BY <1>0, <4>1 DEF Readings
    <3>2. told[q][k] <= scm[q].comments BY DEF ToldInv, UpTo
    <3>. QED BY <2>2, <3>1, <3>2
  <2>. QED BY <2>1, <2>3 DEF ToldInv, At
<1>11. CASE UNCHANGED vars
  BY <1>1, <1>11 DEF vars, poller, history
<1>. QED
  BY <1>2, <1>3, <1>4, <1>5, <1>6, <1>7, <1>8, <1>9, <1>10, <1>11 DEF Next, Cycle, Run

\* A comment is told at most once and after the ones before it, over failed
\* deliveries, outages and restarts.
THEOREM CommentsInOrder == Spec => []CommentsAreToldOnce
<1>1. Init => ToldInv
  BY DEF Init, ToldInv, Rising, UpTo
<1>2. ToldInv => CommentsAreToldOnce BY DEF ToldInv, Rising, CommentsAreToldOnce
<1>. QED BY <1>1, <1>2, InitType, TypeKept, ToldKept, PTL DEF Spec
=============================================================================
