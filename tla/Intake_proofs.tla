---------------------------- MODULE Intake_proofs -----------------------------
(***************************************************************************)
(* What Intake promises, for any number of tabs, messages, requests and    *)
(* lapses.                                                                 *)
(***************************************************************************)
EXTENDS Intake, SequenceTheorems, TLAPS

\* A function on an interval that starts with 1 is a sequence, also when the
\* interval is empty because its end is negative.
LEMMA IntervalIsSeq ==
    ASSUME NEW S, NEW k \in Int, NEW f \in [1 .. k -> S]
    PROVE  f \in Seq(S) /\ Len(f) = (IF k < 0 THEN 0 ELSE k)
<1>1. CASE k \in Nat BY <1>1
<1>2. CASE k \notin Nat
  <2>1. 1 .. k = 1 .. 0 BY <1>2
  <2>2. f \in [1 .. 0 -> S] BY <2>1
  <2>. QED BY <1>2, <2>2
<1>. QED BY <1>1, <1>2

LEMMA HotType ==
    ASSUME TypeOK
    PROVE  Hot \in Seq(Turns)
BY DEF TypeOK, Hot, Missing

\* Reconciling only adds exchanges, and adds them behind what the session has.
LEMMA ReconciledExtends ==
    ASSUME TypeOK, NEW messages \in Seq(Numbers)
    PROVE  /\ Reconciled(messages) \in Seq(Turns)
           /\ ToSet(Hot) \subseteq ToSet(Reconciled(messages))
<1> DEFINE k == Len(messages) - Len(Hot)
           more == [i \in 1 .. k |-> Retold(messages[Len(Hot) + i])]
<1>1. Hot \in Seq(Turns) BY HotType
<1>2. k \in Int BY <1>1
<1>3. more \in [1 .. k -> Turns]
  <2> SUFFICES ASSUME NEW i \in 1 .. k PROVE Retold(messages[Len(Hot) + i]) \in Turns
    OBVIOUS
  <2>1. Len(Hot) + i \in 1 .. Len(messages) BY <1>1
  <2>2. messages[Len(Hot) + i] \in Numbers BY <2>1
  <2>. QED BY <2>2 DEF Retold, Turns
<1>4. more \in Seq(Turns) BY <1>2, <1>3, IntervalIsSeq
<1> HIDE DEF more
<1>5. Hot \o more \in Seq(Turns) BY <1>1, <1>4
<1>6. ToSet(Hot) \subseteq ToSet(Hot \o more)
  <2> SUFFICES ASSUME NEW i \in DOMAIN Hot
               PROVE  Hot[i] \in ToSet(Hot \o more)
    BY DEF ToSet
  <2>1. i \in DOMAIN (Hot \o more) /\ (Hot \o more)[i] = Hot[i] BY <1>1, <1>4
  <2>. QED BY <2>1 DEF ToSet
<1>7. Reconciled(messages) = Hot \o more BY DEF Reconciled, more
<1>. QED BY <1>5, <1>6, <1>7

LEMMA AppendKeeps ==
    ASSUME NEW S, NEW s \in Seq(S), NEW x \in S
    PROVE  /\ Append(s, x) \in Seq(S) /\ Append(s, x) # <<>>
           /\ ToSet(Append(s, x)) = ToSet(s) \cup {x}
<1>1. Append(s, x) \in Seq(S) /\ Len(Append(s, x)) = Len(s) + 1 OBVIOUS
<1>2. ASSUME NEW y \in ToSet(s) PROVE y \in ToSet(Append(s, x))
  <2>1. PICK i \in DOMAIN s : y = s[i] BY <1>2 DEF ToSet
  <2>2. i \in DOMAIN Append(s, x) /\ Append(s, x)[i] = y BY <2>1
  <2>. QED BY <2>2 DEF ToSet
<1>3. x \in ToSet(Append(s, x))
  <2>1. Len(s) + 1 \in DOMAIN Append(s, x) /\ Append(s, x)[Len(s) + 1] = x OBVIOUS
  <2>. QED BY <2>1 DEF ToSet
<1>4. ASSUME NEW y \in ToSet(Append(s, x)) PROVE y \in ToSet(s) \cup {x}
  <2>1. PICK i \in DOMAIN Append(s, x) : y = Append(s, x)[i] BY <1>4 DEF ToSet
  <2>2. CASE i = Len(s) + 1 BY <2>1, <2>2
  <2>3. CASE i \in DOMAIN s BY <2>1, <2>3 DEF ToSet
  <2>. QED BY <2>1, <2>2, <2>3
<1>. QED BY <1>1, <1>2, <1>3, <1>4

-----------------------------------------------------------------------------
(* Types.                                                                    *)

LEMMA MergeType ==
    ASSUME TypeOK,
           NEW items, items = Missing \/ items \in [kind: {"pane"}, messages: Seq(Numbers)],
           NEW turns, turns = Missing \/ turns \in [kind: {"session"}, turns: Seq(Turns)]
    PROVE  /\ Merge(items, turns) \in [kind: {"row"}, items: Seq(Numbers), turns: Seq(Turns)]
           /\ Merge(items, turns) # Missing
           /\ turns # Missing => Merge(items, turns).turns = turns.turns
BY DEF TypeOK, Merge, Row, Missing

LEMMA PersistLiveType ==
    ASSUME TypeOK, NEW turns \in Seq(Turns), PersistLive(Session(turns))
    PROVE  row' = Missing \/ row' \in [kind: {"row"}, items: Seq(Numbers), turns: Seq(Turns)]
<1>1. Session(turns) \in [kind: {"session"}, turns: Seq(Turns)]
  BY DEF Session
<1>2. Merge(Missing, Session(turns)) \in [kind: {"row"}, items: Seq(Numbers), turns: Seq(Turns)]
  BY <1>1, MergeType
<1>. QED BY <1>2 DEF PersistLive, TypeOK

LEMMA RepliesType ==
    ASSUME NEW turns \in Seq(Turns)
    PROVE  Replies(turns) \in Seq(Numbers)
<1>1. ASSUME NEW i \in 1 .. Len(turns) PROVE turns[i].of \in Numbers
  <2>1. turns[i] \in Turns OBVIOUS
  <2>. QED BY <2>1 DEF Turns
<1>2. Replies(turns) \in [1 .. Len(turns) -> Numbers] BY <1>1 DEF Replies
<1>. QED BY <1>2

LEMMA InitType == Init => TypeOK
<1> SUFFICES ASSUME Init PROVE TypeOK
  OBVIOUS
<1>1. Pane(<<>>) \in [kind: {"pane"}, messages: Seq(Numbers)] BY DEF Pane
<1>2. \A t \in Tabs : tab[t] = Pane(<<>>) BY DEF Init
<1>3. /\ turn \in 0 .. sent /\ sent \in 0 .. MaxMessages
      /\ requests \in 0 .. MaxRequests /\ lapses \in 0 .. MaxLapses
  BY IntakeAssumption DEF Init
<1>4. live = Missing /\ row = Missing /\ discarded = FALSE /\ starting = {} /\ told = {}
  BY DEF Init
<1>. QED BY <1>1, <1>2, <1>3, <1>4 DEF TypeOK

LEMMA TypeKept == TypeOK /\ [Next]_vars => TypeOK'
<1> SUFFICES ASSUME TypeOK, [Next]_vars PROVE TypeOK'
  OBVIOUS
<1>1. CASE UNCHANGED vars
  BY <1>1 DEF TypeOK, vars
<1>2. ASSUME NEW t \in Tabs, Send(t) PROVE TypeOK'
  <2>1. sent' \in 0 .. MaxMessages /\ sent' = sent + 1 /\ sent' \in Numbers
    BY <1>2, IntakeAssumption DEF Send, TypeOK, Numbers
  <2>2. CASE Busy
    BY <1>2, <2>1, <2>2 DEF Send, Busy, TypeOK
  <2>3. CASE ~Busy
    <3>1. tab[t] \in [kind: {"pane"}, messages: Seq(Numbers)]
      BY <1>2 DEF Send, TypeOK
    <3>2. Append(tab[t].messages, sent') \in Seq(Numbers)
      BY <2>1, <3>1
    <3>3. \A u \in Tabs : tab'[u] = Closed
                          \/ tab'[u] \in [kind: {"pane"}, messages: Seq(Numbers)]
      <4>1. tab' = [tab EXCEPT ![t] = Pane(Append(tab[t].messages, sent'))]
        BY <1>2, <2>3 DEF Send, Shown
      <4>2. Pane(Append(tab[t].messages, sent')) \in [kind: {"pane"}, messages: Seq(Numbers)]
        BY <3>2 DEF Pane
      <4>. QED BY <4>1, <4>2 DEF TypeOK
    <3>4. live' \in [kind: {"session"}, turns: Seq(Turns)]
      <4>1. Reconciled(tab[t].messages) \in Seq(Turns) BY <3>1, ReconciledExtends
      <4>. QED BY <1>2, <2>3, <4>1 DEF Send, Session
    <3>5. turn' \in 0 .. sent' /\ told' \subseteq (1 .. sent') \ {turn'}
      <4>1. turn' = sent' /\ told' = told BY <1>2, <2>3 DEF Send
      <4>2. told \subseteq 1 .. sent /\ sent \in Nat BY DEF TypeOK
      <4>. QED BY <4>1, <4>2, <2>1
    <3>. QED BY <1>2, <2>1, <3>3, <3>4, <3>5 DEF Send, TypeOK
  <2>. QED BY <2>2, <2>3
<1>3. CASE Answer
  <2>1. turn \in Numbers /\ Read(turn) \in Turns
    BY <1>3, IntakeAssumption DEF Answer, TypeOK, Numbers, Read, Turns
  <2>2. Append(Hot, Read(turn)) \in Seq(Turns) BY <2>1, HotType
  <2>3. row' = Missing \/ row' \in [kind: {"row"}, items: Seq(Numbers), turns: Seq(Turns)]
    <3>1. PersistLive(Session(Append(Hot, Read(turn)))) BY <1>3 DEF Answer
    <3>. QED BY <3>1, <2>2, PersistLiveType
  <2>4. live' \in [kind: {"session"}, turns: Seq(Turns)]
    BY <1>3, <2>2 DEF Answer, Session
  <2>5. turn' = 0 /\ told' \subseteq (1 .. sent) \ {0}
    <3>1. turn \in 1 .. sent BY <1>3 DEF Answer, TypeOK
    <3>2. told' \subseteq told \cup {turn} BY <1>3 DEF Answer
    <3>3. told \subseteq 1 .. sent BY DEF TypeOK
    <3>4. turn' = 0 BY <1>3 DEF Answer, Ended
    <3>5. \A n \in 1 .. sent : n # 0 BY DEF TypeOK
    <3>. QED BY <3>1, <3>2, <3>3, <3>4, <3>5
  <2>. QED BY <1>3, <2>3, <2>4, <2>5 DEF Answer, TypeOK
<1>4. CASE Fail
  BY <1>4 DEF Fail, Ended, TypeOK
<1>5. ASSUME NEW t \in Tabs, Autosave(t) PROVE TypeOK'
  <2>1. tab[t] \in [kind: {"pane"}, messages: Seq(Numbers)]
    BY <1>5 DEF Autosave, TypeOK
  <2>2. Merge(tab[t], live) \in [kind: {"row"}, items: Seq(Numbers), turns: Seq(Turns)]
    <3>1. live = Missing \/ live \in [kind: {"session"}, turns: Seq(Turns)] BY DEF TypeOK
    <3>. QED BY <2>1, <3>1, MergeType
  <2>. QED BY <1>5, <2>2 DEF Autosave, TypeOK
<1>6. ASSUME NEW t \in Tabs, SetAccess(t) PROVE TypeOK'
  <2>1. Hot \in Seq(Turns) BY HotType
  <2>2. row' = Missing \/ row' \in [kind: {"row"}, items: Seq(Numbers), turns: Seq(Turns)]
    <3>1. PersistLive(Session(Hot)) BY <1>6 DEF SetAccess
    <3>. QED BY <3>1, <2>1, PersistLiveType
  <2>3. live' \in [kind: {"session"}, turns: Seq(Turns)] BY <1>6, <2>1 DEF SetAccess, Session
  <2>4. requests' \in 0 .. MaxRequests
    BY <1>6, IntakeAssumption DEF SetAccess, TypeOK
  <2>. QED BY <1>6, <2>2, <2>3, <2>4 DEF SetAccess, TypeOK
<1>7. ASSUME NEW t \in Tabs, Open(t) PROVE TypeOK'
  <2>1. row \in [kind: {"row"}, items: Seq(Numbers), turns: Seq(Turns)]
    BY <1>7 DEF Open, TypeOK
  <2>2. live' \in [kind: {"session"}, turns: Seq(Turns)] BY <1>7, <2>1 DEF Open, Session
  <2>3. \A u \in Tabs : tab'[u] = Closed
                        \/ tab'[u] \in [kind: {"pane"}, messages: Seq(Numbers)]
    <3>1. PICK messages \in Seq(Numbers) : tab' = [tab EXCEPT ![t] = Pane(messages)]
      <4>1. Replies(row.turns) \in Seq(Numbers) /\ row.items \in Seq(Numbers)
        BY <2>1, RepliesType
      <4>. QED BY <4>1, <1>7 DEF Open
    <3>. QED BY <3>1 DEF TypeOK, Pane
  <2>4. requests' \in 0 .. MaxRequests
    BY <1>7, IntakeAssumption DEF Open, TypeOK
  <2>. QED BY <1>7, <2>2, <2>3, <2>4 DEF Open, TypeOK
<1>8. ASSUME NEW t \in Tabs, Discard(t) PROVE TypeOK'
  BY <1>8 DEF Discard, TypeOK
<1>9. CASE Restart
  <2>1. lapses' \in 0 .. MaxLapses /\ turn' \in 0 .. sent'
    BY <1>9, IntakeAssumption DEF Restart, TypeOK
  <2>2. live' = Missing /\ discarded' = FALSE /\ told' = {} BY <1>9 DEF Restart
  <2>3. starting' = {} /\ UNCHANGED <<tab, row, sent, requests>> BY <1>9 DEF Restart
  <2>. QED BY <2>1, <2>2, <2>3 DEF TypeOK
<1>10. CASE Expire
  <2>1. lapses' \in 0 .. MaxLapses BY <1>10, IntakeAssumption DEF Expire, TypeOK
  <2>2. live' = Missing /\ discarded' = FALSE /\ told' = {} BY <1>10 DEF Expire
  <2>3. UNCHANGED <<tab, turn, starting, row, sent, requests>> BY <1>10 DEF Expire
  <2>. QED BY <2>1, <2>2, <2>3 DEF TypeOK
<1>11. ASSUME NEW t \in Tabs, Dispatch(t) PROVE TypeOK'
  <2>1. requests' \in 0 .. MaxRequests
    BY <1>11, IntakeAssumption DEF Dispatch, TypeOK
  <2>. QED BY <1>11, <2>1 DEF Dispatch, TypeOK
<1>12. ASSUME NEW t \in Tabs, MarkDispatched(t) PROVE TypeOK'
  <2>1. Merge(Missing, Missing) \in [kind: {"row"}, items: Seq(Numbers), turns: Seq(Turns)]
    BY MergeType
  <2>. QED BY <1>12, <2>1 DEF MarkDispatched, TypeOK
<1>. QED
  BY <1>1, <1>2, <1>3, <1>4, <1>5, <1>6, <1>7, <1>8, <1>9, <1>10, <1>11, <1>12 DEF Next

\* The variables keep their types.
THEOREM TypeCorrect == Spec => []TypeOK
<1>1. Init => TypeOK BY InitType
<1>2. TypeOK /\ [Next]_vars => TypeOK' BY TypeKept
<1>. QED BY <1>1, <1>2, PTL DEF Spec

-----------------------------------------------------------------------------
(* Discards and recorded turns.  A turn in flight ends after its            *)
(* conversation was discarded without a trace in told, so that the two     *)
(* promises need each other.                                                *)

ChatInv == /\ RecordedTurnsStay
           /\ DiscardedStaysGone
           /\ discarded => told = {}

LEMMA InitChat == Init => ChatInv
BY DEF Init, ChatInv, RecordedTurnsStay, DiscardedStaysGone

\* What is in Hot stays in the row that PersistLive writes.
LEMMA PersistLiveKeeps ==
    ASSUME TypeOK, ~discarded, NEW turns \in Seq(Turns), turns # <<>>,
           PersistLive(Session(turns))
    PROVE  row' # Missing /\ row'.turns = turns
<1>1. Session(turns) \in [kind: {"session"}, turns: Seq(Turns)] /\ Session(turns) # Missing
      /\ Session(turns).turns = turns
  BY DEF Session, Missing
<1>2. row' = Merge(Missing, Session(turns))
  BY <1>1 DEF PersistLive, Guard
<1>. QED BY <1>1, <1>2, MergeType

LEMMA ChatKept == TypeOK /\ TypeOK' /\ ChatInv /\ [Next]_vars => ChatInv'
<1> SUFFICES ASSUME TypeOK, TypeOK', ChatInv, [Next]_vars PROVE ChatInv'
  OBVIOUS
<1> USE DEF ChatInv
<1>1. CASE UNCHANGED vars
  BY <1>1 DEF vars, RecordedTurnsStay, DiscardedStaysGone, Hot
<1>2. ASSUME NEW t \in Tabs, Send(t) PROVE ChatInv'
  <2>1. CASE Busy
    BY <1>2, <2>1 DEF Send, Busy, RecordedTurnsStay, DiscardedStaysGone, Hot
  <2>2. CASE ~Busy
    <3>1. Hot' = Reconciled(tab[t].messages)
      BY <1>2, <2>2 DEF Send, Hot, Session, Missing
    <3>2. ToSet(Hot) \subseteq ToSet(Hot')
      <4>1. tab[t].messages \in Seq(Numbers) BY <1>2 DEF Send, TypeOK
      <4>. QED BY <3>1, <4>1, ReconciledExtends
    <3>. QED BY <1>2, <3>2 DEF Send, RecordedTurnsStay, DiscardedStaysGone
  <2>. QED BY <2>1, <2>2
<1>3. CASE Answer
  <2>1. turn \in Numbers /\ Read(turn) \in Turns
    BY <1>3, IntakeAssumption DEF Answer, TypeOK, Numbers, Read, Turns
  <2>2. /\ Append(Hot, Read(turn)) \in Seq(Turns) /\ Append(Hot, Read(turn)) # <<>>
        /\ ToSet(Append(Hot, Read(turn))) = ToSet(Hot) \cup {Read(turn)}
    BY <2>1, HotType, AppendKeeps
  <2>3. PersistLive(Session(Append(Hot, Read(turn)))) /\ Hot' = Append(Hot, Read(turn))
    BY <1>3 DEF Answer, Hot, Session, Missing
  <2>4. CASE discarded
    BY <1>3, <2>3, <2>4 DEF Answer, PersistLive, Guard, RecordedTurnsStay, DiscardedStaysGone
  <2>5. CASE ~discarded
    <3>1. row' # Missing /\ row'.turns = Append(Hot, Read(turn))
      BY <2>2, <2>3, <2>5, PersistLiveKeeps
    <3>2. \A n \in told' : Read(n) \in ToSet(Append(Hot, Read(turn)))
      BY <1>3, <2>2, <2>5 DEF Answer, RecordedTurnsStay
    <3>. QED BY <1>3, <2>3, <2>5, <3>1, <3>2 DEF Answer, RecordedTurnsStay, DiscardedStaysGone
  <2>. QED BY <2>4, <2>5
<1>4. CASE Fail
  BY <1>4 DEF Fail, RecordedTurnsStay, DiscardedStaysGone, Hot
<1>5. ASSUME NEW t \in Tabs, Autosave(t) PROVE ChatInv'
  <2>1. Hot' = Hot /\ told' = told /\ discarded' = discarded
    BY <1>5 DEF Autosave, Hot
  <2>2. CASE discarded \/ told = {}
    BY <1>5, <2>1, <2>2 DEF Autosave, Guard, RecordedTurnsStay, DiscardedStaysGone
  <2>3. CASE ~discarded /\ told # {}
    <3>1. live # Missing
      BY <2>3 DEF RecordedTurnsStay, Hot, ToSet
    <3>2. live \in [kind: {"session"}, turns: Seq(Turns)] BY <3>1 DEF TypeOK
    <3>3. tab[t] \in [kind: {"pane"}, messages: Seq(Numbers)] BY <1>5 DEF Autosave, TypeOK
    <3>4. row' # Missing /\ row'.turns = Hot
      BY <1>5, <2>3, <3>1, <3>2, <3>3, MergeType DEF Autosave, Guard, Hot
    <3>. QED BY <2>1, <2>3, <3>4 DEF RecordedTurnsStay, DiscardedStaysGone
  <2>. QED BY <2>2, <2>3
<1>6. ASSUME NEW t \in Tabs, SetAccess(t) PROVE ChatInv'
  <2>1. Hot \in Seq(Turns) /\ PersistLive(Session(Hot)) /\ Hot' = Hot
    BY <1>6, HotType DEF SetAccess, Hot, Session, Missing
  <2>2. told' = told /\ discarded' = discarded BY <1>6 DEF SetAccess
  <2>3. CASE discarded \/ told = {}
    BY <2>1, <2>2, <2>3 DEF PersistLive, Guard, RecordedTurnsStay, DiscardedStaysGone
  <2>4. CASE ~discarded /\ told # {}
    <3>1. Hot # <<>> BY <2>4 DEF RecordedTurnsStay, ToSet
    <3>2. row' # Missing /\ row'.turns = Hot BY <2>1, <2>4, <3>1, PersistLiveKeeps
    <3>. QED BY <2>1, <2>2, <2>4, <3>2 DEF RecordedTurnsStay, DiscardedStaysGone
  <2>. QED BY <2>3, <2>4
<1>7. ASSUME NEW t \in Tabs, Open(t) PROVE ChatInv'
  <2>1. Hot' = row.turns BY <1>7 DEF Open, Hot, Session, Missing
  <2>. QED BY <1>7, <2>1 DEF Open, RecordedTurnsStay, DiscardedStaysGone
<1>8. ASSUME NEW t \in Tabs, Discard(t) PROVE ChatInv'
  BY <1>8 DEF Discard, RecordedTurnsStay, DiscardedStaysGone
<1>9. CASE Restart
  BY <1>9 DEF Restart, RecordedTurnsStay, DiscardedStaysGone
<1>10. CASE Expire
  BY <1>10 DEF Expire, RecordedTurnsStay, DiscardedStaysGone
<1>11. ASSUME NEW t \in Tabs, Dispatch(t) PROVE ChatInv'
  BY <1>11 DEF Dispatch, RecordedTurnsStay, DiscardedStaysGone, Hot
<1>12. ASSUME NEW t \in Tabs, MarkDispatched(t) PROVE ChatInv'
  <2>1. row' = Row(IF row # Missing THEN row.items ELSE <<>>,
                   IF row # Missing THEN row.turns ELSE <<>>)
    BY <1>12 DEF MarkDispatched, Merge
  <2>2. row' # Missing BY <2>1 DEF Row, Missing
  <2>3. row # Missing => row'.items = row.items /\ row'.turns = row.turns
    BY <2>1 DEF Row
  <2>4. row = Missing => row'.items = <<>> /\ row'.turns = <<>> BY <2>1 DEF Row
  <2>5. UNCHANGED <<live, discarded, told>> BY <1>12 DEF MarkDispatched
  <2>. QED BY <2>2, <2>3, <2>4, <2>5 DEF RecordedTurnsStay, DiscardedStaysGone, Hot
<1>. QED
  BY <1>1, <1>2, <1>3, <1>4, <1>5, <1>6, <1>7, <1>8, <1>9, <1>10, <1>11, <1>12 DEF Next

LEMMA ChatAlways == Spec => []ChatInv
<1>1. Init => ChatInv BY InitChat
<1>2. TypeOK /\ TypeOK' /\ ChatInv /\ [Next]_vars => ChatInv' BY ChatKept
<1>. QED BY <1>1, <1>2, TypeCorrect, PTL DEF Spec

\* Nothing that was said in a conversation the developer discarded is stored
\* while the runner remembers: neither a turn in flight nor another tab, its
\* autosaves or the runs it dispatches bring it back.
THEOREM DiscardIsFinal == Spec => []DiscardedStaysGone
<1>1. ChatInv => DiscardedStaysGone BY DEF ChatInv
<1>. QED BY <1>1, ChatAlways, PTL

\* A turn recorded since the last lapse keeps its evidence in the session and in
\* the row, whatever the tabs send and save.
THEOREM RecordedTurnsAreKept == Spec => []RecordedTurnsStay
<1>1. ChatInv => RecordedTurnsStay BY DEF ChatInv
<1>. QED BY <1>1, ChatAlways, PTL
=============================================================================
