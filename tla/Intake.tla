-------------------------------- MODULE Intake ---------------------------------
(***************************************************************************)
(* One conversation of the intake chat: the browser tabs that show it      *)
(* (plan-session.tsx), the runner's hot copy of it (intake/session-store), *)
(* the turn that is being answered (intake/handler.ts), its row in the     *)
(* investigations table (intake/persist.ts, state/investigation.ts) and    *)
(* the runs dispatched from it (Dispatcher.dispatch).                      *)
(*                                                                         *)
(* The state backend is SQLite, whose awaits are microtasks: a request     *)
(* runs to its end before the next one; only the answer of the model and   *)
(* the files of a new run are waited for.  An exchange is its number, with whether the results of  *)
(* the tools it used (the evidence) are kept with it.                      *)
(***************************************************************************)
EXTENDS Integers, Sequences, SequencesExt

CONSTANTS
    Tabs,         (* browser tabs                                              *)
    MaxMessages,  (* bound: messages the developer sends                       *)
    MaxRequests,  (* bound: openings of a tab, changes of tool access and runs *)
    MaxLapses     (* bound: runner restarts and idle lifetimes that end        *)

ASSUME IntakeAssumption ==
    MaxMessages \in Nat /\ MaxRequests \in Nat /\ MaxLapses \in Nat

VARIABLES
    tab,        (* the messages each tab shows, or Closed                      *)
    live,       (* the turns of the hot session, or Missing                    *)
    turn,       (* activeTurns: the message being answered, 0: none            *)
    discarded,  (* the runner's tombstone of the conversation                  *)
    starting,   (* the tabs whose dispatch of a run is under way               *)
    row,        (* its row: the UI's items and the runner's turns, or Missing  *)
    told,       (* history: turns recorded with evidence since the last lapse  *)
    sent,       (* the number of messages so far                               *)
    requests, lapses

vars == <<tab, live, turn, discarded, starting, row, told, sent, requests, lapses>>

Missing == [kind |-> "missing"]
Closed == [kind |-> "closed"]
Session(turns) == [kind |-> "session", turns |-> turns]
Row(items, turns) == [kind |-> "row", items |-> items, turns |-> turns]
Pane(messages) == [kind |-> "pane", messages |-> messages]

Read(n) == [of |-> n, evidence |-> TRUE]
Retold(n) == [of |-> n, evidence |-> FALSE]

Init ==
    /\ tab = [t \in Tabs |-> Pane(<<>>)]
    /\ live = Missing /\ turn = 0 /\ discarded = FALSE /\ starting = {} /\ row = Missing
    /\ told = {} /\ sent = 0 /\ requests = 0 /\ lapses = 0

-----------------------------------------------------------------------------
(* The hot session and the row.                                              *)

\* getIntakeSession: an empty session is made where there is none.
Hot == IF live = Missing THEN <<>> ELSE live.turns

\* reconcileIntakeSession: the browser's transcript seeds an empty session
\* and adds the pairs beyond the turns of an established one.
ReconciledFault(messages) == [i \in DOMAIN messages |-> Retold(messages[i])]
Reconciled(messages) ==
    Hot \o [i \in 1 .. (Len(messages) - Len(Hot)) |-> Retold(messages[Len(Hot) + i])]

\* mergeInvestigation: what a patch does not name keeps its value.
Merge(items, turns) ==
    Row(IF items # Missing THEN items.messages ELSE IF row # Missing THEN row.items ELSE <<>>,
        IF turns # Missing THEN turns.turns ELSE IF row # Missing THEN row.turns ELSE <<>>)

\* persistLiveIntakeSession
GuardFault == FALSE
Guard == discarded
PersistLive(session) ==
    row' = IF Guard \/ session.turns = <<>> THEN row ELSE Merge(Missing, session)

-----------------------------------------------------------------------------
(* A message and its answer.                                                 *)

Shown(t, n) == [tab EXCEPT ![t] = Pane(Append(@.messages, n))]

\* POST /intake/stream while a turn runs is refused, and the tab takes its
\* message back; otherwise the turn begins with the tab's transcript.
Busy == turn # 0

Send(t) ==
    /\ tab[t] # Closed /\ sent < MaxMessages
    /\ sent' = sent + 1
    /\ IF Busy
       THEN UNCHANGED <<tab, live, turn>>
       ELSE /\ tab' = Shown(t, sent')
            /\ live' = Session(Reconciled(tab[t].messages))
            /\ turn' = sent'
    /\ UNCHANGED <<discarded, starting, row, told, requests, lapses>>

\* endIntakeTurn, in a finally.
EndedFault == turn
Ended == 0

\* recordIntakeTurn makes a new session where the old one was dropped.
Answer ==
    /\ turn # 0
    /\ live' = Session(Append(Hot, Read(turn)))
    /\ PersistLive(live')
    /\ told' = IF discarded THEN told ELSE told \cup {turn}
    /\ turn' = Ended
    /\ UNCHANGED <<tab, discarded, starting, sent, requests, lapses>>

\* A rate limit, an empty answer or any other throw records nothing.
Fail ==
    /\ turn # 0
    /\ turn' = Ended
    /\ UNCHANGED <<tab, live, discarded, starting, row, told, sent, requests, lapses>>

-----------------------------------------------------------------------------
(* Requests of the dashboard.                                                *)

\* PUT /intake/sessions/:id (persistIntakeSnapshot): the tab's items, with the
\* turns of the hot session when there is one.
Autosave(t) ==
    /\ tab[t] # Closed /\ tab[t].messages # <<>>
    /\ row' = IF Guard THEN row ELSE Merge(tab[t], live)
    /\ UNCHANGED <<tab, live, turn, discarded, starting, told, sent, requests, lapses>>

\* PUT .../tool-access: the session's access changes, so there is one.
SetAccess(t) ==
    /\ tab[t] # Closed
    /\ requests < MaxRequests /\ requests' = requests + 1
    /\ live' = Session(Hot)
    /\ PersistLive(live')
    /\ UNCHANGED <<tab, turn, discarded, starting, told, sent, lapses>>

\* GET /intake/sessions/:id (hydrateIntakeSession): a tab that is reloaded or
\* opens the conversation shows the row's items with the recorded replies.
Replies(turns) == [i \in DOMAIN turns |-> turns[i].of]
Open(t) ==
    /\ row # Missing
    /\ requests < MaxRequests /\ requests' = requests + 1
    /\ live' = Session(row.turns)
    /\ tab' = [tab EXCEPT ![t] = Pane(IF Len(row.items) < Len(row.turns) THEN Replies(row.turns)
                                                                        ELSE row.items)]
    /\ UNCHANGED <<turn, discarded, starting, row, told, sent, lapses>>

\* DELETE /intake/sessions/:id; the tab leaves the conversation for good.
Discard(t) ==
    /\ tab[t] # Closed
    /\ tab' = [tab EXCEPT ![t] = Closed]
    /\ live' = Missing /\ row' = Missing
    /\ discarded' = TRUE
    /\ told' = {}
    /\ UNCHANGED <<turn, starting, sent, requests, lapses>>

-----------------------------------------------------------------------------
(* A run dispatched from the conversation (Dispatcher.dispatch).             *)

\* POST /jobs: the job is made, and the plan is copied into its files.
Dispatch(t) ==
    /\ tab[t] # Closed /\ t \notin starting
    /\ requests < MaxRequests /\ requests' = requests + 1
    /\ starting' = starting \cup {t}
    /\ UNCHANGED <<tab, live, turn, discarded, row, told, sent, lapses>>

\* markInvestigationDispatched: a patch of neither items nor turns, which makes
\* the row where there is none and does not ask whether it was discarded.
MarkDispatched(t) ==
    /\ t \in starting
    /\ starting' = starting \ {t}
    /\ row' = Merge(Missing, Missing)
    /\ UNCHANGED <<tab, live, turn, discarded, told, sent, requests, lapses>>

-----------------------------------------------------------------------------
\* The runner's process starts anew.
Restart ==
    /\ lapses < MaxLapses /\ lapses' = lapses + 1
    /\ live' = Missing /\ turn' = 0 /\ discarded' = FALSE /\ starting' = {} /\ told' = {}
    /\ UNCHANGED <<tab, row, sent, requests>>

\* sweep: after twelve idle hours the session and the tombstone are dropped.
Expire ==
    /\ turn = 0
    /\ lapses < MaxLapses /\ lapses' = lapses + 1
    /\ live' = Missing /\ discarded' = FALSE /\ told' = {}
    /\ UNCHANGED <<tab, turn, starting, row, sent, requests>>

Next ==
    \/ \E t \in Tabs : \/ Send(t) \/ Autosave(t) \/ SetAccess(t) \/ Open(t) \/ Discard(t)
                       \/ Dispatch(t) \/ MarkDispatched(t)
    \/ Answer \/ Fail
    \/ Restart \/ Expire

Spec == Init /\ [][Next]_vars
-----------------------------------------------------------------------------
Numbers == 1 .. MaxMessages
Turns == [of: Numbers, evidence: BOOLEAN]

TypeOK ==
    /\ \A t \in Tabs : tab[t] = Closed \/ tab[t] \in [kind: {"pane"}, messages: Seq(Numbers)]
    /\ live = Missing \/ live \in [kind: {"session"}, turns: Seq(Turns)]
    /\ turn \in 0 .. sent /\ sent \in 0 .. MaxMessages
    /\ discarded \in BOOLEAN /\ starting \subseteq Tabs
    /\ row = Missing \/ row \in [kind: {"row"}, items: Seq(Numbers), turns: Seq(Turns)]
    /\ told \subseteq (1 .. sent) \ {turn}
    /\ requests \in 0 .. MaxRequests /\ lapses \in 0 .. MaxLapses

\* A discarded conversation does not reappear "carrying that one turn"
\* (session-store.ts): neither the turn that was running nor another tab writes
\* what was said back while the runner remembers the discard.  A run that
\* another tab dispatches may leave a row with nothing in it.
DiscardedStaysGone == discarded => row = Missing \/ (row.items = <<>> /\ row.turns = <<>>)

\* "True once this conversation has been deleted.  Nothing may persist it again."
\* (session-store.ts).  It fails: the dispatch of a run brings an empty row back.
DiscardedRowStaysGone == discarded => row = Missing

\* While the runner keeps the session, a turn it recorded keeps its evidence, in
\* the hot session and in the row, through autosaves and messages of tabs with
\* an older transcript, reloads and turns that fail.
RecordedTurnsStay ==
    \A n \in told :
        /\ Read(n) \in ToSet(Hot)
        /\ row # Missing /\ Read(n) \in ToSet(row.turns)

\* "a dashboard PUT must not wipe runner turns" (mergeInvestigation): an exchange
\* the row has stays in it while the row stays.
PutKeepsTurns ==
    [][row # Missing /\ row' # Missing =>
          ToSet(Replies(row.turns)) \subseteq ToSet(Replies(row'.turns))]_vars
=============================================================================
