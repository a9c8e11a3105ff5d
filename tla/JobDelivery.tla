----------------------------- MODULE JobDelivery ------------------------------
(***************************************************************************)
(* JobLifecycle implements NoteDelivery: the fate of each note, read off   *)
(* the places where the dispatcher and the runner keep it.                 *)
(***************************************************************************)
EXTENDS JobLifecycle

\* Between reading the row and building the prompt a run goes by its own copy
\* of pendingPrompt.
WillPrompt(t) == task[t].pc \in {"loading", "top", "prep"}

Held == queue \cup inbox \cup row.prompt
        \cup (UNION {task[t].notes : t \in Tasks})
        \cup (UNION {task[t].live.prompt : t \in {u \in Tasks : WillPrompt(u)}})

\* A note that an agent was given and that waits to be given again has no fate
\* NoteDelivery knows.
Fate(n) == CASE n \in Held \ seen -> "held"
             [] n \in seen \ Held -> "delivered"
             [] n \in seen \cap Held -> "repeated"
             [] n \in sent \ (seen \cup Held) -> "dropped"
             [] OTHER -> "fresh"

fates == [n \in Notes |-> Fate(n)]
Delivery == INSTANCE NoteDelivery WITH fate <- fates

\* With the local state backend every message and every event is given to an
\* agent at most once and never comes back after it was dropped, whatever calls,
\* timers and restarts interleave.
NotesAreDeliveredAtMostOnce == Delivery!Spec
=============================================================================
