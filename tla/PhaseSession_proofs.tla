------------------------- MODULE PhaseSession_proofs -------------------------
(***************************************************************************)
(* What PhaseSession promises, for any messages, number of sessions, calls *)
(* and nudges, and any limit on failed heals.                              *)
(***************************************************************************)
EXTENDS PhaseSession, SequenceTheorems, TLAPS

Transport == [tool : BOOLEAN, ready : BOOLEAN, healing : {"no", "asked", "queued"},
              again : BOOLEAN, failures : 0 .. HealLimit, dead : BOOLEAN,
              owed : BOOLEAN, recent : BOOLEAN]

\* A heal that runs may still fail: without it the count of failures has no end.
HealMayFail(m) == m.healing # "no" => m.failures < HealLimit

Blocked(m, n) == m.ready \/ m.healing # "no" \/ n > 0

-----------------------------------------------------------------------------
(* The repair of the transport.                                              *)

\* A heal changes nothing, or queues behind the one that runs, or begins.
LEMMA HealKeeps ==
    ASSUME NEW m \in Transport, NEW why \in {"asked", "queued"}, HealMayFail(m)
    PROVE  /\ Heal(m, why) \in Transport
           /\ HealMayFail(Heal(m, why))
           /\ \A n \in Nat : Blocked(m, n) => Blocked(Heal(m, why), n)
           /\ Heal(m, why).owed = m.owed /\ Heal(m, why).tool = m.tool
           /\ (m.again => m.healing # "no") =>
                  (Heal(m, why).again => Heal(m, why).healing # "no")
<1>1. CASE m.dead \/ m.failures >= HealLimit
  BY <1>1 DEF Heal
<1>2. CASE ~(m.dead \/ m.failures >= HealLimit) /\ m.healing # "no"
  BY <1>2 DEF Heal, Transport, HealMayFail, Blocked
<1>3. CASE ~(m.dead \/ m.failures >= HealLimit) /\ m.healing = "no"
  <2>1. Heal(m, why) = [m EXCEPT !.healing = why, !.ready = FALSE]
    BY <1>3 DEF Heal
  <2>2. m.failures < HealLimit BY <1>3, SessionAssumption DEF Transport
  <2>. QED BY <2>1, <2>2 DEF Transport, HealMayFail, Blocked
<1>. QED BY <1>1, <1>2, <1>3

\* A tool that is no longer in flight has no heal waiting for it.
LEMMA ClearToolKeeps ==
    ASSUME NEW m \in Transport, HealMayFail(m)
    PROVE  /\ ClearTool(m) \in Transport
           /\ HealMayFail(ClearTool(m))
           /\ \A n \in Nat : Blocked(m, n) => Blocked(ClearTool(m), n)
           /\ ~ClearTool(m).owed /\ ~ClearTool(m).tool
           /\ (m.again => m.healing # "no") =>
                  (ClearTool(m).again => ClearTool(m).healing # "no")
<1> DEFINE cleared == [m EXCEPT !.tool = FALSE, !.owed = FALSE]
<1>1. /\ cleared \in Transport /\ HealMayFail(cleared)
      /\ ~cleared.tool /\ ~cleared.owed
      /\ cleared.again = m.again /\ cleared.healing = m.healing
      /\ \A n \in Nat : Blocked(cleared, n) <=> Blocked(m, n)
  BY DEF Transport, HealMayFail, Blocked
<1>2. ClearTool(m) = (IF m.owed THEN Heal(cleared, "asked") ELSE cleared)
  BY DEF ClearTool
<1> HIDE DEF cleared
<1>3. CASE m.owed BY <1>1, <1>2, <1>3, HealKeeps
<1>4. CASE ~m.owed BY <1>1, <1>2, <1>4
<1>. QED BY <1>3, <1>4

\* The end of a heal unblocks the tools, or hands over to the heal that waited.
LEMMA HealedKeeps ==
    ASSUME NEW m \in Transport, NEW ok \in BOOLEAN, HealMayFail(m), m.healing # "no"
    PROVE  /\ Healed(m, ok) \in Transport
           /\ HealMayFail(Healed(m, ok))
           /\ \A n \in Nat : Blocked(Healed(m, ok), n)
           /\ Healed(m, ok).owed = m.owed /\ Healed(m, ok).tool = m.tool
           /\ Healed(m, ok).again => Healed(m, ok).healing # "no"
<1> DEFINE over == [m EXCEPT !.failures = IF ok THEN 0 ELSE @ + 1, !.ready = TRUE,
                             !.healing = "no", !.recent = TRUE, !.again = FALSE]
<1>1. (IF ok THEN 0 ELSE m.failures + 1) \in 0 .. HealLimit
  BY SessionAssumption DEF Transport, HealMayFail
<1>2. /\ over \in Transport /\ HealMayFail(over)
      /\ over.owed = m.owed /\ over.tool = m.tool /\ ~over.again
      /\ \A n \in Nat : Blocked(over, n)
  BY <1>1 DEF Transport, HealMayFail, Blocked
<1>3. Healed(m, ok) = (IF m.again THEN Heal(over, "queued") ELSE over)
  BY DEF Healed
<1> HIDE DEF over
<1>4. CASE m.again BY <1>2, <1>3, <1>4, HealKeeps
<1>5. CASE ~m.again BY <1>2, <1>3, <1>5
<1>. QED BY <1>4, <1>5

LEMMA FreshIsTransport ==
    Fresh \in Transport /\ HealMayFail(Fresh) /\ \A n \in Nat : Blocked(Fresh, n)
BY SessionAssumption DEF Fresh, Transport, HealMayFail, Blocked

-----------------------------------------------------------------------------
(* The input and its reader.                                                 *)

Stream == [buffer : Seq(Texts), closed : BOOLEAN]
Readers == {"none", "awake", "parked", "ended"}
StreamOK == input \in Stream /\ reader \in Readers /\ NoLostWakeup

LEMMA PushKeeps ==
    ASSUME StreamOK, NEW x \in Texts, Push(x)
    PROVE  StreamOK'
<1>1. Append(input.buffer, x) \in Seq(Texts) BY DEF StreamOK, Stream
<1>2. reader' \in Readers /\ reader' # "parked" BY DEF Push, Wake, StreamOK, Readers
<1>. QED BY <1>1, <1>2 DEF Push, StreamOK, Stream, NoLostWakeup

LEMMA CloseKeeps ==
    ASSUME StreamOK, Close
    PROVE  StreamOK'
<1>1. reader' \in Readers /\ reader' # "parked" BY DEF Close, Wake, StreamOK, Readers
<1>. QED BY <1>1 DEF Close, StreamOK, Stream, NoLostWakeup

LEMMA TextTypes == /\ Kickoff \in Texts /\ RetryNotice \in Texts /\ IdleNudge \in Texts
                   /\ \A n \in Notes : n \in Texts
BY DEF Texts

\* Every step leaves the input a sequence of texts and a reader that sleeps only
\* when there is nothing for it.
LEMMA StreamKept == StreamOK /\ [Next]_vars => StreamOK'
<1> SUFFICES ASSUME StreamOK, [Next]_vars PROVE StreamOK'
  OBVIOUS
<1>1. CASE UNCHANGED stream BY <1>1 DEF stream, StreamOK, NoLostWakeup
<1>2. CASE UNCHANGED vars BY <1>1, <1>2 DEF vars, stream
<1>3. CASE ReaderTakes
  <2>1. Tail(input.buffer) \in Seq(Texts)
    BY <1>3 DEF ReaderTakes, StreamOK, Stream
  <2>2. reader' = reader /\ reader = "awake" BY <1>3 DEF ReaderTakes, Reading
  <2>. QED BY <1>3, <2>1, <2>2 DEF ReaderTakes, StreamOK, Stream, NoLostWakeup
<1>4. CASE ReaderParks
  BY <1>4 DEF ReaderParks, StreamOK, Stream, Readers, NoLostWakeup
<1>5. CASE ReaderEnds
  BY <1>5 DEF ReaderEnds, StreamOK, Stream, Readers, NoLostWakeup
<1>6. CASE AuthPasses
  <2>1. <<Kickoff>> \in Seq(Texts) BY TextTypes
  <2>. QED BY <1>6, <2>1 DEF AuthPasses, StreamOK, Stream, Readers, NoLostWakeup
<1>7. CASE SessionEnds
  BY <1>7 DEF SessionEnds, StreamOK, Stream, Readers, NoLostWakeup
<1>8. CASE LeavesAtBoot BY <1>8, CloseKeeps DEF LeavesAtBoot
<1>9. ASSUME NEW final \in BOOLEAN, Result(final) PROVE StreamOK'
  BY <1>1, <1>9, CloseKeeps DEF Result
<1>10. ASSUME NEW ok \in BOOLEAN, HealEnds(ok) PROVE StreamOK'
  BY <1>1, <1>10, PushKeeps, TextTypes DEF HealEnds
<1>11. ASSUME NEW n \in Notes, Send(n) PROVE StreamOK'
  BY <1>1, <1>11, PushKeeps, TextTypes DEF Send
<1>12. CASE Nudge BY <1>12, PushKeeps, TextTypes DEF Nudge
<1>13. CASE \/ Prepare \/ AuthFails \/ StreamBreaks \/ Attached \/ StreamEnds
            \/ CallsTool \/ Summarises \/ Signals
            \/ DebounceEnds \/ ControlStreamDies \/ Stop \/ NudgeInterrupts
            \/ InterruptEnds \/ \E outcome \in {"ok", "reset", "closed"} : ToolReturns(outcome)
  BY <1>1, <1>13
     DEF Prepare, AuthFails, StreamBreaks, Attached, StreamEnds, CallsTool, Summarises,
         Signals, DebounceEnds, ControlStreamDies, Stop, NudgeInterrupts, InterruptEnds,
         ToolReturns, stream
<1>. QED
  BY <1>2, <1>3, <1>4, <1>5, <1>6, <1>7, <1>8, <1>9, <1>10, <1>11, <1>12, <1>13
     DEF Next, Reader, Executor, Agent, Healing, Completes, Breaks, Throws

-----------------------------------------------------------------------------
(* What the executor knows of the transport, with the interrupts under way   *)
(* and the calls in flight.                                                  *)

SteerOK == /\ mcp \in Transport /\ HealMayFail(mcp)
           /\ interrupts \in Nat /\ calls \in 0 .. 2
           /\ Blocked(mcp, interrupts)
           /\ PutOffHealIsTaken

LEMMA SteerKept == SteerOK /\ [Next]_vars => SteerOK'
<1> SUFFICES ASSUME SteerOK, [Next]_vars PROVE SteerOK'
  OBVIOUS
<1>1. CASE UNCHANGED <<mcp, interrupts, calls, pc>>
  BY <1>1 DEF SteerOK, HealMayFail, Blocked, PutOffHealIsTaken
<1>2. CASE UNCHANGED vars BY <1>1, <1>2 DEF vars, place, work, steer
\* the phase is not in the event loop
<1>3. CASE /\ UNCHANGED <<mcp, interrupts, calls>> /\ pc' \notin {"boot", "loop"}
  BY <1>3 DEF SteerOK, HealMayFail, Blocked, PutOffHealIsTaken
<1>4. CASE mcp' = Fresh /\ interrupts' = 0 /\ calls' = 0
  <2>1. /\ mcp' \in Transport /\ HealMayFail(mcp') /\ Blocked(mcp', interrupts')
        /\ interrupts' \in Nat /\ calls' \in 0 .. 2
    BY <1>4, FreshIsTransport
  <2>2. PutOffHealIsTaken' BY <1>4 DEF PutOffHealIsTaken, Fresh
  <2>. QED BY <2>1, <2>2 DEF SteerOK, HealMayFail, Blocked
<1>5. CASE Attached
  BY <1>5 DEF Attached, SteerOK, PutOffHealIsTaken, HealMayFail, Blocked, work, steer
<1>6. CASE CallsTool
  <2>1. mcp' = [mcp EXCEPT !.tool = TRUE] /\ interrupts' = interrupts
    BY <1>6 DEF CallsTool, steer
  <2>2. calls' \in 1 .. 2 BY <1>6 DEF CallsTool, SteerOK
  <2>3. /\ mcp' \in Transport /\ HealMayFail(mcp') /\ Blocked(mcp', interrupts')
        /\ mcp'.tool /\ mcp'.again = mcp.again /\ mcp'.healing = mcp.healing
    BY <2>1 DEF SteerOK, Transport, HealMayFail, Blocked
  <2>4. mcp.again => mcp.healing # "no"
    BY <1>6 DEF CallsTool, SteerOK, PutOffHealIsTaken
  <2>. QED BY <2>1, <2>2, <2>3, <2>4 DEF SteerOK, PutOffHealIsTaken, HealMayFail, Blocked
<1>7. ASSUME NEW m \in Transport, HealMayFail(m), Blocked(m, interrupts),
             ~m.owed, ~m.tool, m.again => m.healing # "no",
             mcp' = m, UNCHANGED <<interrupts, pc>>, calls' \in 0 .. 2
      PROVE  SteerOK'
  BY <1>7 DEF SteerOK, PutOffHealIsTaken, HealMayFail, Blocked
<1>8. CASE pc = "loop" /\ mcp' = ClearTool(mcp) /\ UNCHANGED <<interrupts, pc>> /\ calls' \in 0 .. 2
  BY <1>7, <1>8, ClearToolKeeps DEF SteerOK, PutOffHealIsTaken
<1>9. CASE Summarises
  BY <1>8, <1>9 DEF Summarises, SteerOK, work, place, steer
<1>10. ASSUME NEW outcome \in {"ok", "reset", "closed"}, ToolReturns(outcome)
       PROVE  SteerOK'
  <2> DEFINE cleared == ClearTool(mcp)
  <2>1. /\ cleared \in Transport /\ HealMayFail(cleared) /\ Blocked(cleared, interrupts)
        /\ ~cleared.owed /\ ~cleared.tool
        /\ cleared.again => cleared.healing # "no"
    BY <1>10, ClearToolKeeps DEF SteerOK, PutOffHealIsTaken, ToolReturns
  <2>2. UNCHANGED <<interrupts, pc>> /\ calls' \in 0 .. 2 /\ pc = "loop"
    BY <1>10 DEF ToolReturns, SteerOK, place, steer
  <2>3. CASE outcome = "ok" BY <1>8, <1>10, <2>2, <2>3 DEF ToolReturns
  <2>4. CASE outcome = "reset"
    <3>1. mcp' = IF cleared.recent THEN cleared ELSE Heal(cleared, "asked")
      BY <1>10, <2>4 DEF ToolReturns, HealSoon
    <3> HIDE DEF cleared
    <3>2. CASE cleared.recent BY <1>7, <2>1, <2>2, <3>1, <3>2
    <3>3. CASE ~cleared.recent
      <4>1. interrupts \in Nat BY DEF SteerOK
      <4>. QED BY <1>7, <2>1, <2>2, <3>1, <3>3, <4>1, HealKeeps
    <3>. QED BY <3>2, <3>3
  <2>5. CASE outcome = "closed"
    <3>1. mcp' = [cleared EXCEPT !.dead = TRUE]
      BY <1>10, <2>5 DEF ToolReturns
    <3> HIDE DEF cleared
    <3>2. /\ mcp' \in Transport /\ HealMayFail(mcp') /\ Blocked(mcp', interrupts)
          /\ ~mcp'.owed /\ ~mcp'.tool
          /\ mcp'.again => mcp'.healing # "no"
      BY <2>1, <3>1 DEF Transport, HealMayFail, Blocked
    <3>3. PutOffHealIsTaken' BY <3>2 DEF PutOffHealIsTaken
    <3>. QED BY <2>2, <3>2, <3>3 DEF SteerOK, HealMayFail, Blocked
  <2>. QED BY <2>3, <2>4, <2>5
<1>11. CASE DebounceEnds
  BY <1>11 DEF DebounceEnds, SteerOK, PutOffHealIsTaken, HealMayFail, Blocked, Transport,
              place, work, steer
<1>12. CASE ControlStreamDies
  BY <1>12 DEF ControlStreamDies, SteerOK, PutOffHealIsTaken, HealMayFail, Blocked, Transport,
              place, work, steer
<1>13. ASSUME NEW ok \in BOOLEAN, HealEnds(ok) PROVE SteerOK'
  <2>1. mcp' = Healed(mcp, ok) /\ mcp.healing # "no" /\ UNCHANGED <<interrupts, calls, pc>>
    BY <1>13 DEF HealEnds, place, work, steer
  <2>. QED BY <2>1, HealedKeeps DEF SteerOK, PutOffHealIsTaken
<1>14. ASSUME UNCHANGED <<calls, pc>>, InterruptBegins(mcp) PROVE SteerOK'
  <2>1. mcp' = [mcp EXCEPT !.ready = FALSE] /\ interrupts' = interrupts + 1
    BY <1>14 DEF InterruptBegins
  <2>2. /\ mcp' \in Transport /\ HealMayFail(mcp')
        /\ mcp'.tool = mcp.tool /\ mcp'.owed = mcp.owed
        /\ mcp'.again = mcp.again /\ mcp'.healing = mcp.healing
    BY <2>1 DEF SteerOK, Transport, HealMayFail
  <2>3. interrupts' \in Nat /\ Blocked(mcp', interrupts')
    BY <2>1 DEF SteerOK, Blocked
  <2>4. PutOffHealIsTaken'
    BY <1>14, <2>2 DEF SteerOK, PutOffHealIsTaken
  <2>. QED BY <1>14, <2>2, <2>3, <2>4 DEF SteerOK, HealMayFail, Blocked
<1>15. CASE InterruptEnds
  <2> DEFINE open == [mcp EXCEPT !.ready = TRUE]
  <2>1. mcp' = Heal(open, "asked") /\ UNCHANGED <<calls, pc>> /\ interrupts' \in Nat
    BY <1>15 DEF InterruptEnds, InterruptEffect, SteerOK, place, work
  <2>2. /\ open \in Transport /\ HealMayFail(open) /\ Blocked(open, interrupts')
        /\ open.owed = mcp.owed /\ open.tool = mcp.tool
        /\ open.again = mcp.again /\ open.healing = mcp.healing
    BY DEF SteerOK, Transport, HealMayFail, Blocked
  <2> HIDE DEF open
  <2>3. /\ mcp' \in Transport /\ HealMayFail(mcp') /\ Blocked(mcp', interrupts')
        /\ mcp'.owed = mcp.owed /\ mcp'.tool = mcp.tool
        /\ (mcp.again => mcp.healing # "no") => (mcp'.again => mcp'.healing # "no")
    BY <2>1, <2>2, HealKeeps
  <2>. QED BY <2>1, <2>3 DEF SteerOK, PutOffHealIsTaken
<1>16. ASSUME NEW n \in Notes, Send(n) PROVE SteerOK'
  <2>1. UNCHANGED <<calls, pc>> BY <1>16 DEF Send, place, work
  <2>2. CASE ~controlled BY <1>1, <1>16, <2>1, <2>2 DEF Send
  <2>3. CASE controlled /\ mcp.tool
    <3>1. mcp' = [mcp EXCEPT !.owed = TRUE] /\ interrupts' = interrupts
      BY <1>16, <2>3 DEF Send
    <3>. QED
      BY <2>1, <2>3, <3>1 DEF SteerOK, PutOffHealIsTaken, HealMayFail, Blocked, Transport
  <2>4. CASE controlled /\ ~mcp.tool BY <1>14, <1>16, <2>1, <2>4 DEF Send
  <2>. QED BY <2>2, <2>3, <2>4
<1>17. CASE Stop BY <1>14, <1>17 DEF Stop, place, work
<1>18. CASE NudgeInterrupts BY <1>14, <1>18 DEF NudgeInterrupts, place, work
<1>19. CASE ReaderTakes \/ ReaderParks \/ ReaderEnds \/ Signals \/ Nudge
            \/ \E final \in BOOLEAN : Result(final)
  BY <1>1, <1>19 DEF ReaderTakes, ReaderParks, ReaderEnds, Signals, Nudge, Result,
                     place, work, steer
<1>20. CASE Prepare \/ AuthFails \/ LeavesAtBoot \/ StreamEnds \/ StreamBreaks
  BY <1>3, <1>20 DEF Prepare, AuthFails, LeavesAtBoot, StreamEnds, StreamBreaks, work, steer
<1>21. CASE AuthPasses \/ Completes \/ Breaks \/ Throws
  BY <1>4, <1>21 DEF AuthPasses, Completes, Breaks, Throws, SessionEnds
<1>. QED
  BY <1>2, <1>5, <1>6, <1>9, <1>10, <1>11, <1>12, <1>13, <1>15, <1>16, <1>17, <1>18,
     <1>19, <1>20, <1>21
     DEF Next, Reader, Executor, Agent, Healing

-----------------------------------------------------------------------------
(* The other variables.                                                      *)

Spent == [sessions : 0 .. MaxSessions, calls : 0 .. MaxCalls, nudges : 0 .. MaxNudges]
Agents == [busy : BOOLEAN, more : BOOLEAN]
RestOK == /\ pc \in {"between", "auth", "boot", "loop", "done"}
          /\ channel \in {"none", "mute", "wired"} /\ controlled \in BOOLEAN
          /\ agent \in Agents
          /\ nudging \in BOOLEAN /\ aborted \in BOOLEAN /\ signalled \in BOOLEAN
          /\ sent \subseteq Notes /\ read \subseteq Notes
          /\ spent \in Spent

LEMMA TypeIsTheParts == StreamOK /\ SteerOK /\ RestOK => TypeOK
BY DEF StreamOK, SteerOK, RestOK, TypeOK, Stream, Readers, Transport, Spent, Agents

LEMMA RestKept == RestOK /\ [Next]_vars => RestOK'
<1> SUFFICES ASSUME RestOK, [Next]_vars PROVE RestOK'
  OBVIOUS
<1> USE DEF RestOK
<1>1. CASE UNCHANGED vars BY <1>1 DEF vars, place, work, steer
<1>2. CASE Prepare
  <2>1. spent' \in Spent BY <1>2, SessionAssumption DEF Prepare, Spent
  <2>. QED BY <1>2, <2>1 DEF Prepare, work
<1>3. CASE AuthPasses \/ Completes \/ Breaks \/ Throws
  <2>1. [busy |-> FALSE, more |-> FALSE] \in Agents BY DEF Agents
  <2>. QED BY <1>3, <2>1 DEF AuthPasses, Completes, Breaks, Throws, SessionEnds
<1>4. CASE AuthFails \/ StreamBreaks \/ Attached \/ LeavesAtBoot \/ StreamEnds
  BY <1>4 DEF AuthFails, StreamBreaks, Attached, LeavesAtBoot, StreamEnds, work, steer
<1>5. CASE ReaderTakes
  <2>1. agent' \in Agents BY <1>5 DEF ReaderTakes, Agents
  <2>. QED BY <1>5, <2>1 DEF ReaderTakes, place, steer
<1>6. CASE ReaderParks \/ ReaderEnds
  BY <1>6 DEF ReaderParks, ReaderEnds, place, work, steer
<1>7. CASE CallsTool
  <2>1. spent' \in Spent BY <1>7, SessionAssumption DEF CallsTool, Spent
  <2>. QED BY <1>7, <2>1 DEF CallsTool, place, steer
<1>8. CASE Summarises \/ Signals \/ DebounceEnds \/ ControlStreamDies
  BY <1>8 DEF Summarises, Signals, DebounceEnds, ControlStreamDies, place, work, steer
<1>9. ASSUME NEW outcome \in {"ok", "reset", "closed"}, ToolReturns(outcome) PROVE RestOK'
  BY <1>9 DEF ToolReturns, place, steer
<1>10. ASSUME NEW final \in BOOLEAN, Result(final) PROVE RestOK'
  <2>1. agent' \in Agents BY <1>10 DEF Result, Agents
  <2>. QED BY <1>10, <2>1 DEF Result, place, steer
<1>11. ASSUME NEW ok \in BOOLEAN, HealEnds(ok) PROVE RestOK'
  BY <1>11 DEF HealEnds, place, work, steer
<1>12. CASE InterruptEnds \/ Stop \/ NudgeInterrupts
  BY <1>12 DEF InterruptEnds, Stop, NudgeInterrupts, place, work
<1>13. CASE Nudge
  <2>1. spent' \in Spent BY <1>13, SessionAssumption DEF Nudge, Spent
  <2>. QED BY <1>13, <2>1 DEF Nudge, place, work
<1>14. ASSUME NEW n \in Notes, Send(n) PROVE RestOK'
  BY <1>14 DEF Send, place, work
<1>. QED
  BY <1>1, <1>2, <1>3, <1>4, <1>5, <1>6, <1>7, <1>8, <1>9, <1>10, <1>11, <1>12, <1>13, <1>14
     DEF Next, Reader, Executor, Agent, Healing

LEMMA InitRest == Init => RestOK
<1> SUFFICES ASSUME Init PROVE RestOK
  OBVIOUS
<1>1. spent \in Spent BY SessionAssumption DEF Init, Spent
<1>2. agent \in Agents BY DEF Init, Agents
<1>. QED BY <1>1, <1>2 DEF Init, RestOK

-----------------------------------------------------------------------------
(* The theorems.                                                             *)

LEMMA InitOK == Init => StreamOK /\ SteerOK
<1> SUFFICES ASSUME Init PROVE StreamOK /\ SteerOK
  OBVIOUS
<1>1. StreamOK
  <2>1. <<>> \in Seq(Texts) OBVIOUS
  <2>. QED BY <2>1 DEF Init, StreamOK, Stream, Readers, NoLostWakeup
<1>2. SteerOK
  BY FreshIsTransport DEF Init, SteerOK, PutOffHealIsTaken
<1>. QED BY <1>1, <1>2

LEMMA StreamAlways == Spec => []StreamOK
<1>1. Init => StreamOK BY InitOK
<1>. QED BY <1>1, StreamKept, PTL DEF Spec

LEMMA SteerAlways == Spec => []SteerOK
<1>1. Init => SteerOK BY InitOK
<1>. QED BY <1>1, SteerKept, PTL DEF Spec

\* The variables keep their types; the count of failed heals never passes the
\* limit, whichever steps begin the heals.
THEOREM TypeCorrect == Spec => []TypeOK
<1>1. Init => RestOK BY InitRest
<1>2. Spec => []RestOK BY <1>1, RestKept, PTL DEF Spec
<1>3. StreamOK /\ SteerOK /\ RestOK => TypeOK BY TypeIsTheParts
<1>. QED BY <1>2, <1>3, StreamAlways, SteerAlways, PTL

\* The SDK never sleeps on an input that has something for it or was closed:
\* steering and the end of a phase get through however pushes, closes and reads
\* interleave.
THEOREM ReaderIsWoken == Spec => []NoLostWakeup
<1>1. StreamOK => NoLostWakeup BY DEF StreamOK
<1>. QED BY <1>1, StreamAlways, PTL

\* MCP tools are refused only while a heal or an interrupt is under way.
THEOREM BlocksEnd == Spec => []BlockedToolsHaveACause
<1>1. SteerOK => BlockedToolsHaveACause
  BY DEF SteerOK, Blocked, BlockedToolsHaveACause
<1>. QED BY <1>1, SteerAlways, PTL

\* A heal that safe steering put off waits for a call that really is in flight,
\* and a queued heal for one that runs: neither is forgotten.
THEOREM HealsAreNotForgotten == Spec => []PutOffHealIsTaken
<1>1. SteerOK => PutOffHealIsTaken BY DEF SteerOK
<1>. QED BY <1>1, SteerAlways, PTL
=============================================================================
