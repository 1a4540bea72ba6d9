-------------------------- MODULE NativeBashProofs --------------------------
(***************************************************************************)
(* Proofs about native commands, for any tools, sandboxes, executions and  *)
(* both kinds of provider: a command begins once in a sandbox, one death   *)
(* never repeats it, and no sandbox and no usage interval is lost.         *)
(***************************************************************************)
EXTENDS NativeBash, SequenceTheorems, FiniteSetTheorems, TLAPS

TypeOK ==
  /\ turn \in {"running", "interrupted", "stopped"}
  /\ call \in Tools \cup {None} /\ escalated \in SUBSET Tools
  /\ result \in [Tools -> {"none", "ok", "error"}]
  /\ handle \in 0 .. MaxBoxes /\ meter \in {"off", "on", "uncertain"}
  /\ discarded \in SUBSET Boxes
  /\ box \in [Boxes -> {"none", "running", "paused", "gone"}] /\ pausing \in SUBSET Boxes
  /\ starting \in [Boxes -> SUBSET Tools] /\ marked \in [Boxes -> SUBSET Tools]
  /\ journal \in [Boxes -> SUBSET Tools] /\ ran \in Seq(Boxes \X Tools)
  /\ pc \in InCall \cup {"idle", "returned", "cleaning", "off"}
  /\ attached \in 0 .. MaxBoxes /\ created \in 0 .. MaxBoxes
  /\ outcome \in {"ok", "error"} /\ abort \in {"none", "stop", "close"}
  /\ lives \in 1 .. MaxLives /\ orphans \in SUBSET Boxes

\* Where a call is suspended says what it holds: it works in the session's sandbox, and
\* looks for another only when there is none or it is gone.
Control ==
  /\ pc \in InCall \cup {"returned"} => call \in Tools /\ turn = "running"
  /\ pc = "idle" => turn = "running"
  /\ call # None => result[call] = "none"
  /\ pc \in {"off", "cleaning"} => attached = 0
  /\ pc = "cleaning" => turn = "stopped"
  /\ attached \in {0, handle}
  /\ pc \in Launching \cup {"ready", "polling", "collected"} => attached # 0
  /\ pc \in Resuming \cup {"pausing"} => handle # 0
  /\ pc \in {"creating", "recording"} => attached = 0 /\ (handle = 0 \/ box[handle] = "gone")
  /\ created # 0 <=> pc = "recording"

\* A call whose dispatch is durable.
Past == Launching \cup {"relaunching", "relaunchingLast", "repolling", "polling", "collected"}

\* A supervisor is started only after the dispatch is durable, and leaves its mark.
Dispatched ==
  /\ \A b \in Boxes : starting[b] \subseteq escalated
  /\ \A i \in DOMAIN ran :
       /\ ran[i][2] \in escalated
       /\ ran[i][2] \in marked[ran[i][1]] \/ box[ran[i][1]] = "gone"
  /\ \A i, j \in DOMAIN ran : ran[i] = ran[j] => i = j
  /\ pc \in Past => call \in escalated
  /\ \A t \in escalated : result[t] = "none" => t = call

\* A command that began, or may begin, in a sandbox.
In(b, t) == t \in starting[b] \/ \E i \in DOMAIN ran : ran[i] = <<b, t>>

\* As long as the process died at most once a command belongs to one sandbox: the
\* session's, unless the second execution has found that one gone and gives up.
GivingUp == lives = 2 /\ pc \in {"failing", "pausing", "returned", "off"}
OneBox ==
  /\ lives = 1 => /\ pc = "idle" => call = None
                  /\ pc \in {"resuming", "creating", "recording", "ready"} => call \notin escalated
  /\ lives <= 2 => \A t \in Tools :
       /\ \A b, c \in Boxes : In(b, t) /\ In(c, t) => b = c
       /\ result[t] = "none" /\ turn # "stopped" =>
            (\A b \in Boxes : In(b, t) => b = handle) \/ (t = call /\ GivingUp)

Faithful == TypeOK /\ Control /\ Dispatched /\ OneBox
-----------------------------------------------------------------------------
LEMMA LostTypes ==
  ASSUME TypeOK, NEW b, Lose(b)
  PROVE  /\ box' \in [Boxes -> {"none", "running", "paused", "gone"}]
         /\ starting' \in [Boxes -> SUBSET Tools] /\ marked' \in [Boxes -> SUBSET Tools]
         /\ journal' \in [Boxes -> SUBSET Tools]
  BY DEF TypeOK, Lose

LEMMA TypeStep == TypeOK /\ Control /\ [Next]_vars => TypeOK'
<1> SUFFICES ASSUME TypeOK, Control, [Next]_vars
             PROVE  TypeOK'
  OBVIOUS
<1> USE DEF TypeOK, durable, remote, process, calls, inside, rest, Goto, Forget
<1>0. /\ \A s : Observed(s) \in {"off", "on", "uncertain"}
      /\ Resuming \cup Launching \cup {"creating", "recording", "ready", "polling", "collected",
           "failing", "pausing"} = InCall
  BY DEF Observed, InCall
<1>1. CASE Attach
  <2>1. pc' \in InCall \cup {"idle", "returned", "cleaning", "off"}
    BY <1>1 DEF Attach, InCall, Launching
  <2> QED  BY <1>0, <1>1, <2>1 DEF Attach
<1>2. CASE Missing
  <2>1. pc' \in InCall \cup {"idle", "returned", "cleaning", "off"}
    BY <1>2 DEF Missing, InCall
  <2> QED  BY <1>0, <1>2, <2>1, BoundsAssumption DEF Missing
<1>3. CASE Create
  BY <1>0, <1>3 DEF Create, Boxes
<1>4. CASE RecordBox
  BY <1>0, <1>4, BoundsAssumption DEF RecordBox
<1>5. CASE DiscardBox
  <2>1. created \in Boxes  BY <1>5 DEF DiscardBox, Control, Boxes
  <2> QED  BY <1>0, <1>5, <2>1, BoundsAssumption DEF DiscardBox
<1>6. CASE Escalate
  BY <1>0, <1>6 DEF Escalate, Control, Launching
<1>7. CASE Launch
  BY <1>0, <1>7 DEF Launch, Control
<1>8. CASE LaunchLost
  <2>1. pc' \in InCall \cup {"idle", "returned", "cleaning", "off"}
    BY <1>8 DEF LaunchLost, InCall, Resuming
  <2>2. starting' \in [Boxes -> SUBSET Tools]
    BY <1>0, <1>8 DEF LaunchLost, Control
  <2> QED  BY <1>8, <2>1, <2>2 DEF LaunchLost
<1>9. CASE PollLost \/ Deadline \/ Fault
  BY <1>0, <1>9 DEF PollLost, Deadline, Fault, Resuming
<1>10. CASE Collect
  BY <1>0, <1>10 DEF Collect
<1>11. CASE PauseIdle
  <2>1. attached \in Boxes  BY <1>11 DEF PauseIdle, Boxes
  <2> QED  BY <1>0, <1>11, <2>1, BoundsAssumption DEF PauseIdle
<1>12. CASE PauseFailed \/ Paused
  BY <1>0, <1>12 DEF PauseFailed, Paused
<1>13. CASE Fail
  BY <1>0, <1>13 DEF Fail
<1>14. ASSUME NEW t \in Tools, Call(t)
       PROVE  TypeOK'
  BY <1>0, <1>14 DEF Call, Resuming
<1>15. CASE Commit
  BY <1>0, <1>15 DEF Commit
<1>16. ASSUME NEW why \in {"stop", "close"}, Abort(why)
       PROVE  TypeOK'
  BY <1>16 DEF Abort
<1>17. CASE EndTurn
  BY <1>17, BoundsAssumption DEF EndTurn
<1>18. CASE Cleanup
  <2>1. CASE UNCHANGED <<box, starting, marked, journal, handle, meter>>
    BY <1>18, <2>1 DEF Cleanup
  <2>2. CASE handle # 0 /\ Lose(handle) /\ meter' = Observed("deleted") /\ handle' = 0
    <3>1. /\ box' \in [Boxes -> {"none", "running", "paused", "gone"}]
          /\ starting' \in [Boxes -> SUBSET Tools] /\ marked' \in [Boxes -> SUBSET Tools]
          /\ journal' \in [Boxes -> SUBSET Tools]
      BY <2>2, LostTypes
    <3>2. handle' \in 0 .. MaxBoxes  BY <2>2, BoundsAssumption
    <3> QED  BY <1>0, <1>18, <2>2, <3>1, <3>2 DEF Cleanup
  <2> QED  BY <1>18, <2>1, <2>2 DEF Cleanup
<1>19. CASE Crash
  <2>1. created # 0 => created \in Boxes  BY DEF Boxes
  <2> QED  BY <1>19, <2>1, BoundsAssumption DEF Crash
<1>20. CASE ResumeTurn
  <2>1. meter' \in {"off", "on", "uncertain"}  BY <1>20 DEF ResumeTurn, Inherited
  <2>2. lives' \in 1 .. MaxLives  BY <1>20, BoundsAssumption DEF ResumeTurn
  <2> QED  BY <1>20, <2>1, <2>2 DEF ResumeTurn
<1>21. CASE Unpause
  BY <1>21 DEF Unpause
<1>22. ASSUME NEW b \in Boxes, PauseTakesEffect(b)
       PROVE  TypeOK'
  BY <1>22 DEF PauseTakesEffect
<1>23. ASSUME NEW b \in Boxes, Vanish(b)
       PROVE  TypeOK'
  BY <1>23, LostTypes DEF Vanish
<1>24. ASSUME NEW b \in Boxes, NEW t \in Tools, Supervise(b, t)
       PROVE  TypeOK'
  <2>1. <<b, t>> \in Boxes \X Tools  OBVIOUS
  <2>2. Append(ran, <<b, t>>) \in Seq(Boxes \X Tools)  BY <2>1, AppendProperties
  <2>3. ran' \in Seq(Boxes \X Tools)  BY <1>24, <2>2 DEF Supervise
  <2>4. starting' \in [Boxes -> SUBSET Tools] /\ marked' \in [Boxes -> SUBSET Tools]
    BY <1>24 DEF Supervise
  <2> QED  BY <1>24, <2>3, <2>4 DEF Supervise
<1>25. ASSUME NEW b \in Boxes, NEW t \in Tools, PublishJournal(b, t)
       PROVE  TypeOK'
  BY <1>25 DEF PublishJournal
<1>26. CASE UNCHANGED vars
  BY <1>26 DEF vars
<1> QED
  BY <1>1, <1>2, <1>3, <1>4, <1>5, <1>6, <1>7, <1>8, <1>9, <1>10, <1>11, <1>12, <1>13, <1>14,
     <1>15, <1>16, <1>17, <1>18, <1>19, <1>20, <1>21, <1>22, <1>23, <1>24, <1>25, <1>26
  DEF Next, NativeCall, Host, Provider

LEMMA ControlStep == TypeOK /\ Control /\ [Next]_vars => Control'
<1> SUFFICES ASSUME TypeOK, Control, [Next]_vars
             PROVE  Control'
  OBVIOUS
<1> USE DEF Control, durable, remote, process, calls, inside, rest, Goto, Forget,
            InCall, Resuming, Launching
<1>1. CASE Attach
  BY <1>1 DEF Attach, TypeOK
<1>2. CASE Missing
  BY <1>2 DEF Missing, TypeOK
<1>3. CASE Create
  <2>1. \A b \in Boxes : b # 0  BY DEF Boxes
  <2>2. handle # 0 => handle \in Boxes  BY DEF TypeOK, Boxes
  <2> QED  BY <1>3, <2>1, <2>2 DEF Create, TypeOK
<1>4. CASE RecordBox
  BY <1>4 DEF RecordBox, TypeOK
<1>5. CASE DiscardBox
  BY <1>5 DEF DiscardBox, TypeOK
<1>6. CASE Escalate \/ Launch
  BY <1>6 DEF Escalate, Launch, TypeOK
<1>7. CASE LaunchLost
  BY <1>7 DEF LaunchLost, TypeOK
<1>8. CASE PollLost \/ Deadline \/ Fault
  BY <1>8 DEF PollLost, Deadline, Fault, TypeOK
<1>9. CASE Collect
  BY <1>9 DEF Collect, TypeOK
<1>10. CASE PauseIdle
  BY <1>10 DEF PauseIdle, TypeOK
<1>11. CASE PauseFailed \/ Paused
  BY <1>11 DEF PauseFailed, Paused, TypeOK
<1>12. CASE Fail
  BY <1>12 DEF Fail, TypeOK
<1>13. ASSUME NEW t \in Tools, Call(t)
       PROVE  Control'
  BY <1>13 DEF Call, TypeOK
<1>14. CASE Commit
  BY <1>14 DEF Commit, TypeOK
<1>15. ASSUME NEW why \in {"stop", "close"}, Abort(why)
       PROVE  Control'
  BY <1>15 DEF Abort, TypeOK
<1>16. CASE EndTurn
  BY <1>16 DEF EndTurn, TypeOK
<1>17. CASE Cleanup
  BY <1>17 DEF Cleanup, Lose, TypeOK
<1>18. CASE Crash
  BY <1>18 DEF Crash, TypeOK
<1>19. CASE ResumeTurn
  BY <1>19 DEF ResumeTurn, TypeOK
<1>20. CASE Unpause
  BY <1>20 DEF Unpause, TypeOK
<1>21. ASSUME NEW b \in Boxes, PauseTakesEffect(b) \/ Vanish(b)
       PROVE  Control'
  <2>1. handle # 0 => handle \in Boxes  BY DEF TypeOK, Boxes
  <2>2. box[handle] = "gone" /\ handle # 0 => box'[handle] = "gone"
    BY <1>21, <2>1 DEF PauseTakesEffect, Vanish, Lose, TypeOK
  <2> QED  BY <1>21, <2>2 DEF PauseTakesEffect, Vanish
<1>22. ASSUME NEW b \in Boxes, NEW t \in Tools, Supervise(b, t) \/ PublishJournal(b, t)
       PROVE  Control'
  BY <1>22 DEF Supervise, PublishJournal
<1>23. CASE UNCHANGED vars
  BY <1>23 DEF vars
<1> QED
  BY <1>1, <1>2, <1>3, <1>4, <1>5, <1>6, <1>7, <1>8, <1>9, <1>10, <1>11, <1>12, <1>13, <1>14,
     <1>15, <1>16, <1>17, <1>18, <1>19, <1>20, <1>21, <1>22, <1>23
  DEF Next, NativeCall, Host, Provider

\* A step that starts nothing in a sandbox, commits no result and only goes on with its call.
QuietStep ==
  /\ UNCHANGED <<starting, marked, ran, escalated, result, call>>
  /\ \A b \in Boxes : box[b] = "gone" => box'[b] = "gone"
  /\ pc' \in Past => pc \in Past

LEMMA QuietDispatched == TypeOK /\ Dispatched /\ QuietStep => Dispatched'
<1> SUFFICES ASSUME TypeOK, Dispatched, QuietStep
             PROVE  Dispatched'
  OBVIOUS
<1>1. \A i \in DOMAIN ran : ran[i] \in Boxes \X Tools
  <2>1. ran \in Seq(Boxes \X Tools)  BY DEF TypeOK
  <2> QED  BY <2>1
<1> QED  BY <1>1 DEF Dispatched, QuietStep

\* A sandbox is lost with its supervisors and marks.
LEMMA LostDispatched ==
  ASSUME TypeOK, Dispatched, NEW b \in Boxes, Lose(b),
         UNCHANGED <<ran, escalated, result, call>>, pc' \in Past => pc \in Past
  PROVE  Dispatched'
  <1>1. \A i \in DOMAIN ran : ran[i] \in Boxes \X Tools
    <2>1. ran \in Seq(Boxes \X Tools)  BY DEF TypeOK
    <2> QED  BY <2>1
  <1>2. /\ box'[b] = "gone" /\ starting'[b] = {}
        /\ \A c \in Boxes : c # b => box'[c] = box[c] /\ starting'[c] = starting[c]
                                     /\ marked'[c] = marked[c]
    BY DEF Lose, TypeOK
  <1> QED  BY <1>1, <1>2 DEF Dispatched

\* The steps that are quiet.
LEMMA Quiet ==
  ASSUME TypeOK, Control,
         \/ Attach \/ Missing \/ Create \/ RecordBox \/ DiscardBox
         \/ PollLost \/ Collect \/ Deadline \/ Fault
         \/ PauseIdle \/ PauseFailed \/ Paused \/ Fail
         \/ \E why \in {"stop", "close"} : Abort(why)
         \/ EndTurn \/ Crash \/ ResumeTurn
         \/ Unpause \/ \E b \in Boxes : PauseTakesEffect(b)
         \/ \E b \in Boxes, t \in Tools : PublishJournal(b, t)
         \/ UNCHANGED vars
  PROVE  QuietStep
  <1> USE DEF Control, durable, remote, process, calls, inside, rest, Goto, Forget,
              InCall, Resuming, Launching, Past, QuietStep
  <1>1. CASE Attach \/ Missing  BY <1>1 DEF Attach, Missing
  <1>2. CASE Create  BY <1>2 DEF Create, TypeOK
  <1>3. CASE RecordBox  BY <1>3 DEF RecordBox
  <1>4. CASE DiscardBox  BY <1>4 DEF DiscardBox, TypeOK
  <1>5. CASE PollLost \/ Collect \/ Deadline \/ Fault
    BY <1>5 DEF PollLost, Collect, Deadline, Fault
  <1>6. CASE PauseIdle \/ PauseFailed \/ Paused \/ Fail
    BY <1>6 DEF PauseIdle, PauseFailed, Paused, Fail
  <1>7. CASE \E why \in {"stop", "close"} : Abort(why)  BY <1>7 DEF Abort
  <1>8. CASE EndTurn \/ Crash \/ ResumeTurn  BY <1>8 DEF EndTurn, Crash, ResumeTurn
  <1>9. CASE Unpause \/ \E b \in Boxes : PauseTakesEffect(b)
    BY <1>9 DEF Unpause, PauseTakesEffect, TypeOK
  <1>10. CASE \E b \in Boxes, t \in Tools : PublishJournal(b, t)  BY <1>10 DEF PublishJournal
  <1>11. CASE UNCHANGED vars  BY <1>11 DEF vars
  <1> QED  BY <1>1, <1>2, <1>3, <1>4, <1>5, <1>6, <1>7, <1>8, <1>9, <1>10, <1>11

\* A supervisor that may have been started is one of the call, in the session's sandbox.
LEMMA Launched ==
  ASSUME TypeOK, Control, Launch \/ LaunchLost
  PROVE  /\ attached \in Boxes /\ attached = handle /\ call \in Tools /\ pc \in Launching
         /\ turn = "running" /\ result[call] = "none" /\ pc' # "idle"
         /\ pc' \notin {"resuming", "creating", "recording", "ready"}
         /\ UNCHANGED <<turn, call, escalated, result, handle, box, marked, ran, lives>>
         /\ \A b \in Boxes : starting'[b] = starting[b] \/
              (b = attached /\ starting'[b] = starting[b] \cup {call})
  <1>1. pc \in Launching  BY DEF Launch, LaunchLost
  <1>2. attached \in Boxes /\ attached = handle /\ call \in Tools /\ turn = "running" /\ result[call] = "none"
    BY <1>1, NoneAssumption DEF Control, TypeOK, Boxes, InCall
  <1>3. /\ UNCHANGED <<turn, call, escalated, result, handle, box, marked, ran, lives>>
        /\ pc' \in {"polling", "relaunching", "relaunchingLast", "failing"}
    BY DEF Launch, LaunchLost, durable, rest, Goto
  <1>4. \A b \in Boxes : starting'[b] = starting[b] \/
              (b = attached /\ starting'[b] = starting[b] \cup {call})
    BY <1>2 DEF Launch, LaunchLost, TypeOK
  <1> QED  BY <1>1, <1>2, <1>3, <1>4

LEMMA DispatchedStep == TypeOK /\ Control /\ Dispatched /\ [Next]_vars => Dispatched'
<1> SUFFICES ASSUME TypeOK, Control, Dispatched, [Next]_vars
             PROVE  Dispatched'
  OBVIOUS
<1>0. \A i \in DOMAIN ran : ran[i] \in Boxes \X Tools /\ ran[i] = <<ran[i][1], ran[i][2]>>
  <2>1. ran \in Seq(Boxes \X Tools)  BY DEF TypeOK
  <2> QED  BY <2>1
<1>1. CASE QuietStep
  BY <1>1, QuietDispatched
<1>2. CASE Escalate
  <2>1. /\ escalated' = escalated \cup {call} /\ call' = call
        /\ UNCHANGED <<starting, marked, ran, box, result>>
    BY <1>2 DEF Escalate, remote
  <2> QED  BY <1>0, <2>1 DEF Dispatched
<1>3. CASE Launch \/ LaunchLost
  <2>1. call \in escalated  BY <1>3, Launched DEF Dispatched, Past
  <2> QED  BY <1>0, <1>3, <2>1, Launched DEF Dispatched
<1>4. ASSUME NEW t \in Tools, Call(t)
      PROVE  Dispatched'
  <2>1. /\ UNCHANGED <<starting, marked, ran, box, escalated, result>>
        /\ call' = t /\ call \in {None, t} /\ pc' \notin Past
    BY <1>4 DEF Call, remote, Goto, Past, Launching
  <2>2. \A u \in escalated : result[u] = "none" => u = t
    BY <2>1, NoneAssumption DEF Dispatched, TypeOK
  <2> QED  BY <1>0, <2>1, <2>2 DEF Dispatched
<1>5. CASE Commit
  <2>1. /\ UNCHANGED <<starting, marked, ran, box, escalated>> /\ pc' \notin Past
        /\ result' = [result EXCEPT ![call] = outcome] /\ call \in Tools
    BY <1>5 DEF Commit, remote, Goto, Past, Launching, Control
  <2>2. \A u \in escalated : result'[u] # "none"
    BY <2>1 DEF Dispatched, TypeOK
  <2> QED  BY <1>0, <2>1, <2>2 DEF Dispatched
<1>6. CASE Cleanup
  <2>1. UNCHANGED <<ran, escalated, result, call>> /\ pc' \notin Past
    BY <1>6 DEF Cleanup, calls, Goto, Past, Launching
  <2>2. CASE UNCHANGED <<box, starting, marked, journal, handle, meter>>
    BY <2>1, <2>2, QuietDispatched DEF QuietStep
  <2>3. CASE handle # 0 /\ Lose(handle)
    BY <2>1, <2>3, LostDispatched DEF TypeOK, Boxes
  <2> QED  BY <1>6, <2>2, <2>3 DEF Cleanup
<1>7. ASSUME NEW b \in Boxes, Vanish(b)
      PROVE  Dispatched'
  BY <1>7, LostDispatched DEF Vanish, durable, calls, process
<1>8. ASSUME NEW b \in Boxes, NEW t \in Tools, Supervise(b, t)
      PROVE  Dispatched'
  <2>1. /\ box[b] = "running" /\ t \in starting[b]
        /\ starting' = [starting EXCEPT ![b] = @ \ {t}]
        /\ UNCHANGED <<pc, box, escalated, result, call>>
    BY <1>8 DEF Supervise, durable, process
  <2>2. t \in escalated /\ \A c \in Boxes : starting'[c] \subseteq starting[c]
    BY <2>1 DEF Dispatched, TypeOK
  <2>3. CASE UNCHANGED <<marked, ran>>
    BY <1>0, <2>1, <2>2, <2>3 DEF Dispatched
  <2>4. CASE /\ t \notin marked[b] /\ marked' = [marked EXCEPT ![b] = @ \cup {t}]
             /\ ran' = Append(ran, <<b, t>>)
    <3>1. <<b, t>> \in Boxes \X Tools /\ ran \in Seq(Boxes \X Tools)  BY DEF TypeOK
    <3>2. /\ Len(ran) \in Nat /\ DOMAIN ran = 1 .. Len(ran) /\ DOMAIN ran' = 1 .. Len(ran) + 1
          /\ (\A i \in DOMAIN ran : ran'[i] = ran[i]) /\ ran'[Len(ran) + 1] = <<b, t>>
      BY <2>4, <3>1, AppendProperties, LenProperties
    <3>3. \A c \in Boxes : marked[c] \subseteq marked'[c]  BY <2>4 DEF TypeOK
    <3>4. t \in marked'[b]  BY <2>4 DEF TypeOK
    <3>5. \A i \in DOMAIN ran : ran[i] # <<b, t>>  BY <1>0, <2>1, <2>4 DEF Dispatched
    <3>6. \A i \in DOMAIN ran' :
            /\ ran'[i][2] \in escalated
            /\ ran'[i][2] \in marked'[ran'[i][1]] \/ box[ran'[i][1]] = "gone"
      BY <1>0, <2>2, <3>2, <3>3, <3>4 DEF Dispatched
    <3>7. \A i, j \in DOMAIN ran' : ran'[i] = ran'[j] => i = j
      BY <3>2, <3>5 DEF Dispatched
    <3> QED  BY <2>1, <2>2, <3>6, <3>7 DEF Dispatched
  <2> QED  BY <1>8, <2>3, <2>4 DEF Supervise
<1> QED
  BY <1>1, <1>2, <1>3, <1>4, <1>5, <1>6, <1>7, <1>8, Quiet
  DEF Next, NativeCall, Host, Provider

-----------------------------------------------------------------------------
(* One sandbox for a command.                                              *)
Early == {"resuming", "creating", "recording", "ready"}

\* What the commands that began, or may begin, have in common.
LEMMA InEscalated ==
  ASSUME TypeOK, Dispatched, NEW b \in Boxes, NEW t \in Tools, In(b, t), result[t] = "none"
  PROVE  t \in escalated /\ t = call
  <1>1. t \in escalated  BY DEF In, Dispatched
  <1> QED  BY <1>1 DEF Dispatched

\* A step that begins nothing, keeps the sandbox and does not take a call up that was given up.
LEMMA KeptOneBox ==
  ASSUME TypeOK, OneBox,
         UNCHANGED <<result, call, escalated, handle, lives>>,
         \A b \in Boxes, t \in Tools : In(b, t)' => In(b, t),
         turn' # "stopped" => turn # "stopped" /\ (GivingUp => GivingUp'),
         lives = 1 /\ pc' = "idle" => pc = "idle",
         lives = 1 /\ pc' \in Early => pc \in Early
  PROVE  OneBox'
  <1>1. lives' = 1 => /\ pc' = "idle" => call' = None
                      /\ pc' \in Early => call' \notin escalated'
    BY DEF OneBox, Early
  <1>2. ASSUME lives' <= 2, NEW t \in Tools
        PROVE  /\ \A b, c \in Boxes : In(b, t)' /\ In(c, t)' => b = c
               /\ result'[t] = "none" /\ turn' # "stopped" =>
                    (\A b \in Boxes : In(b, t)' => b = handle') \/ (t = call' /\ GivingUp')
    BY <1>2 DEF OneBox
  <1> QED  BY <1>1, <1>2 DEF OneBox, Early

LEMMA OneBoxStep == TypeOK /\ Control /\ Dispatched /\ OneBox /\ [Next]_vars => OneBox'
<1> SUFFICES ASSUME TypeOK, Control, Dispatched, OneBox, [Next]_vars
             PROVE  OneBox'
  OBVIOUS
<1> USE DEF durable, remote, process, calls, inside, rest, Goto, Forget
<1>0. UNCHANGED <<starting, ran>> => \A b, t : In(b, t)' <=> In(b, t)
  BY DEF In
<1>1. CASE Attach \/ Missing \/ Create \/ DiscardBox
  BY <1>0, <1>1, KeptOneBox
  DEF Attach, Missing, Create, DiscardBox, Control, GivingUp, Early, Resuming
<1>2. CASE PollLost \/ Collect \/ Deadline \/ Fault
  BY <1>0, <1>2, KeptOneBox
  DEF PollLost, Collect, Deadline, Fault, Control, GivingUp, Early, Resuming
<1>3. CASE PauseIdle \/ PauseFailed \/ Paused \/ Fail
  BY <1>0, <1>3, KeptOneBox
  DEF PauseIdle, PauseFailed, Paused, Fail, GivingUp, Early
<1>4. ASSUME NEW why \in {"stop", "close"}, Abort(why)
      PROVE  OneBox'
  BY <1>0, <1>4, KeptOneBox DEF Abort, GivingUp
<1>5. CASE EndTurn
  BY <1>0, <1>5, KeptOneBox DEF EndTurn, Control, GivingUp, Early, InCall
<1>6. CASE Crash
  BY <1>0, <1>6, KeptOneBox DEF Crash, GivingUp, Early
<1>7. CASE Unpause \/ \E b \in Boxes : PauseTakesEffect(b)
  BY <1>0, <1>7, KeptOneBox DEF Unpause, PauseTakesEffect, GivingUp
<1>8. CASE \E b \in Boxes, t \in Tools : PublishJournal(b, t)
  BY <1>0, <1>8, KeptOneBox DEF PublishJournal, GivingUp
<1>9. CASE UNCHANGED vars
  BY <1>0, <1>9, KeptOneBox DEF vars, GivingUp
<1>10. CASE RecordBox
  <2>1. /\ UNCHANGED <<turn, call, escalated, result, starting, ran, lives>>
        /\ pc = "recording" /\ pc' = IF call \in escalated THEN "failing" ELSE "ready"
    BY <1>10 DEF RecordBox
  <2>2. lives' = 1 => call \notin escalated /\ pc' = "ready"  BY <2>1 DEF OneBox
  <2>3. ASSUME lives <= 2, NEW t \in Tools, result[t] = "none", NEW b \in Boxes, In(b, t)
        PROVE  t = call /\ GivingUp'
    <3>1. t = call /\ call \in escalated  BY <2>3, InEscalated
    <3>2. lives = 2  BY <2>1, <2>2, <2>3, <3>1 DEF TypeOK
    <3> QED  BY <2>1, <3>1, <3>2 DEF GivingUp
  <2> QED  BY <1>0, <2>1, <2>2, <2>3 DEF OneBox
<1>11. CASE Escalate
  <2>1. /\ UNCHANGED <<turn, call, result, handle, starting, ran, lives>>
        /\ pc = "ready" /\ pc' = "launching"
    BY <1>11 DEF Escalate
  <2> QED  BY <1>0, <2>1 DEF OneBox, GivingUp
<1>12. CASE Launch \/ LaunchLost
  <2>1. /\ attached \in Boxes /\ attached = handle /\ call \in Tools /\ pc \in Launching
        /\ turn = "running" /\ result[call] = "none" /\ pc' # "idle" /\ pc' \notin Early
        /\ UNCHANGED <<turn, call, escalated, result, handle, ran, lives>>
        /\ \A b \in Boxes : starting'[b] = starting[b] \/
             (b = attached /\ starting'[b] = starting[b] \cup {call})
    BY <1>12, Launched DEF Early
  <2>2. \A b \in Boxes, t \in Tools : In(b, t)' => In(b, t) \/ (b = handle /\ t = call)
    BY <2>1 DEF In
  <2>3. ~GivingUp  BY <2>1 DEF GivingUp, Launching
  <2>4. lives <= 2 => \A b \in Boxes : In(b, call) => b = handle
    BY <2>1, <2>3 DEF OneBox
  <2>5. ASSUME lives <= 2, NEW t \in Tools
        PROVE  /\ \A b, c \in Boxes : In(b, t)' /\ In(c, t)' => b = c
               /\ result[t] = "none" => \A b \in Boxes : In(b, t)' => b = handle
    <3>1. CASE t = call  BY <2>2, <2>4, <2>5, <3>1
    <3>2. CASE t # call  BY <2>1, <2>2, <2>3, <2>5, <3>2 DEF OneBox
    <3> QED  BY <3>1, <3>2
  <2> QED  BY <2>1, <2>5 DEF OneBox, Early
<1>13. ASSUME NEW t \in Tools, Call(t)
       PROVE  OneBox'
  <2>1. /\ UNCHANGED <<turn, escalated, result, handle, starting, ran, lives>>
        /\ pc = "idle" /\ pc' \in Early /\ result[t] = "none" /\ call' = t
    BY <1>13 DEF Call, Early
  <2>2. lives = 1 => t \notin escalated
    BY <2>1, NoneAssumption DEF OneBox, Dispatched
  <2>3. ~GivingUp  BY <2>1 DEF GivingUp
  <2> QED  BY <1>0, <2>1, <2>2, <2>3 DEF OneBox, Early
<1>14. CASE Commit
  <2>1. /\ UNCHANGED <<turn, escalated, handle, starting, ran, lives>>
        /\ pc' = "idle" /\ call' = None /\ result' = [result EXCEPT ![call] = outcome]
        /\ call \in Tools
    BY <1>14 DEF Commit, Control
  <2>2. result'[call] # "none" /\ \A t \in Tools : t # call => result'[t] = result[t]
    BY <2>1 DEF TypeOK
  <2> QED  BY <1>0, <2>1, <2>2 DEF OneBox
<1>15. CASE Cleanup
  <2>1. turn = "stopped" /\ UNCHANGED <<calls, lives, ran>> /\ pc' = "off"
    BY <1>15 DEF Cleanup, Control
  <2>2. \A b \in Boxes : starting'[b] \subseteq starting[b]
    BY <1>15 DEF Cleanup, Lose, TypeOK
  <2>3. \A b \in Boxes, t \in Tools : In(b, t)' => In(b, t)  BY <2>1, <2>2 DEF In
  <2> QED  BY <2>1, <2>3 DEF OneBox
<1>16. CASE ResumeTurn
  <2>1. /\ UNCHANGED <<call, escalated, result, handle, starting, ran>> /\ lives' = lives + 1
        /\ turn = "interrupted" /\ lives \in Nat /\ lives >= 1
    BY <1>16 DEF ResumeTurn, TypeOK
  <2>2. lives' # 1 /\ (lives' <= 2 => lives <= 2 /\ ~GivingUp)
    BY <2>1 DEF GivingUp
  <2> QED  BY <1>0, <2>1, <2>2 DEF OneBox
<1>17. ASSUME NEW b \in Boxes, Vanish(b)
       PROVE  OneBox'
  <2>1. UNCHANGED <<durable, process, ran>> /\ \A c \in Boxes : starting'[c] \subseteq starting[c]
    BY <1>17 DEF Vanish, Lose, TypeOK
  <2>2. \A c \in Boxes, t \in Tools : In(c, t)' => In(c, t)  BY <2>1 DEF In
  <2> QED  BY <2>1, <2>2, KeptOneBox DEF GivingUp
<1>18. ASSUME NEW b \in Boxes, NEW u \in Tools, Supervise(b, u)
       PROVE  OneBox'
  <2>1. /\ UNCHANGED <<durable, process>> /\ u \in starting[b]
        /\ \A c \in Boxes : starting'[c] \subseteq starting[c]
    BY <1>18 DEF Supervise, TypeOK
  <2>2. \A i \in DOMAIN ran' : (i \in DOMAIN ran /\ ran'[i] = ran[i]) \/ ran'[i] = <<b, u>>
    <3>1. CASE ran' = ran  BY <3>1
    <3>2. CASE ran' = Append(ran, <<b, u>>)
      <4>1. <<b, u>> \in Boxes \X Tools /\ ran \in Seq(Boxes \X Tools)  BY DEF TypeOK
      <4> QED  BY <3>2, <4>1, AppendProperties, LenProperties
    <3> QED  BY <1>18, <3>1, <3>2 DEF Supervise
  <2>3. \A c \in Boxes, t \in Tools : In(c, t)' => In(c, t)  BY <2>1, <2>2 DEF In
  <2> QED  BY <2>1, <2>3, KeptOneBox DEF GivingUp
<1> QED
  BY <1>1, <1>2, <1>3, <1>4, <1>5, <1>6, <1>7, <1>8, <1>9, <1>10, <1>11, <1>12, <1>13, <1>14,
     <1>15, <1>16, <1>17, <1>18
  DEF Next, NativeCall, Host, Provider
-----------------------------------------------------------------------------
(* The specification.                                                      *)
LEMMA InitFaithful == Init => Faithful
<1> SUFFICES ASSUME Init
             PROVE  Faithful
  OBVIOUS
<1>1. TypeOK  BY EmptySeq, BoundsAssumption DEF Init, TypeOK
<1>2. Control  BY DEF Init, Control, InCall, Resuming, Launching
<1>3. Dispatched  BY DEF Init, Dispatched, Past, Launching
<1>4. OneBox  BY DEF Init, OneBox, In
<1> QED  BY <1>1, <1>2, <1>3, <1>4 DEF Faithful

\* Whatever the provider does and wherever the process dies, a call stands where the code
\* left it, its dispatch is durable before a command can begin, and until a second death
\* all that it began is in one sandbox.
THEOREM CallsAreFaithful == Spec => []Faithful
<1>1. Faithful /\ [Next]_vars => Faithful'
  BY TypeStep, ControlStep, DispatchedStep, OneBoxStep DEF Faithful
<1> QED  BY InitFaithful, <1>1, PTL DEF Spec

\* However often a launch is repeated, by a reconnect or by the next process, a command
\* begins at most once in a sandbox, and never before its dispatch is durable.
THEOREM CommandsBeginOnce == Spec => []OncePerSandbox
<1>1. Faithful => OncePerSandbox
  BY DEF Faithful, Dispatched, OncePerSandbox
<1> QED  BY CallsAreFaithful, <1>1, PTL

\* One death of the process, with any number of lost sandboxes, never repeats a command.
THEOREM DispatchedIsNotReplayed == Spec => []OneDeathNeverReplays
<1>1. Faithful => OneDeathNeverReplays
  <2> SUFFICES ASSUME Faithful, lives <= 2, NEW t \in Tools
               PROVE  Cardinality(Runs(t)) <= 1
    BY DEF OneDeathNeverReplays
  <2>1. \A i \in Runs(t) : ran[i] \in Boxes \X Tools /\ ran[i] = <<ran[i][1], t>> /\ In(ran[i][1], t)
    <3>1. ran \in Seq(Boxes \X Tools)  BY DEF Faithful, TypeOK
    <3>2. \A i \in DOMAIN ran : ran[i] \in Boxes \X Tools  BY <3>1
    <3> QED  BY <3>2 DEF Runs, In
  <2>2. \A i, j \in Runs(t) : i = j
    <3> SUFFICES ASSUME NEW i \in Runs(t), NEW j \in Runs(t)
                 PROVE  i = j
      OBVIOUS
    <3>1. ran[i][1] = ran[j][1]  BY <2>1 DEF Faithful, OneBox
    <3>2. ran[i] = ran[j]  BY <2>1, <3>1
    <3> QED  BY <3>2 DEF Faithful, Dispatched, Runs
  <2>3. Runs(t) = {} \/ \E i : Runs(t) = {i}  BY <2>2
  <2> QED  BY <2>3, FS_EmptySet, FS_Singleton
<1> QED  BY CallsAreFaithful, <1>1, PTL

\* Every sandbox that exists is held by the session, being recorded, charged as
\* discarded, or left behind by a process that died while it was being recorded.
THEOREM NoBoxIsLost == Spec => []BoxesAreAccountedFor
<1>1. Init => BoxesAreAccountedFor
  BY DEF Init, BoxesAreAccountedFor
<1>2. ASSUME Faithful, BoxesAreAccountedFor, [Next]_vars
      PROVE  BoxesAreAccountedFor'
  <2> USE DEF BoxesAreAccountedFor, durable, remote, process, calls, inside, rest, Goto
  <2>1. TypeOK /\ Control  BY <1>2 DEF Faithful
  <2>2. CASE UNCHANGED <<box, handle, created, discarded, orphans>>
    BY <1>2, <2>2
  <2>3. CASE Create
    <3>1. created = 0 /\ \A b \in Boxes : b # 0  BY <2>1, <2>3 DEF Create, Control, Boxes
    <3>2. PICK b \in Boxes : box[b] = "none" /\ box' = [box EXCEPT ![b] = "running"] /\ created' = b
      BY <2>3 DEF Create
    <3>3. \A c \in Boxes : c # b => box'[c] = box[c]  BY <2>1, <3>2 DEF TypeOK
    <3> QED  BY <1>2, <2>3, <3>1, <3>2, <3>3 DEF Create
  <2>4. CASE RecordBox
    <3>1. \A b \in Boxes : b = handle => box[b] = "gone"
      BY <2>1, <2>4 DEF RecordBox, Control, Boxes
    <3> QED  BY <1>2, <2>4, <3>1 DEF RecordBox
  <2>5. CASE DiscardBox
    BY <1>2, <2>1, <2>5 DEF DiscardBox, TypeOK
  <2>6. CASE Crash
    BY <1>2, <2>6 DEF Crash, Boxes
  <2>7. ASSUME NEW b \in Boxes, Lose(b), UNCHANGED <<created, discarded, orphans>>,
               handle' = handle \/ handle = b
        PROVE  BoxesAreAccountedFor'
    <3>1. box'[b] = "gone" /\ \A c \in Boxes : c # b => box'[c] = box[c]
      BY <2>1, <2>7 DEF Lose, TypeOK
    <3> QED  BY <1>2, <2>7, <3>1
  <2>8. CASE Cleanup
    <3>1. handle # 0 => handle \in Boxes  BY <2>1 DEF TypeOK, Boxes
    <3> QED  BY <2>2, <2>7, <2>8, <3>1 DEF Cleanup
  <2>9. ASSUME NEW b \in Boxes, Vanish(b)
        PROVE  BoxesAreAccountedFor'
    BY <2>7, <2>9 DEF Vanish
  <2>10. CASE Unpause
    <3>1. \A c \in Boxes : c # handle => box'[c] = box[c]  BY <2>1, <2>10 DEF Unpause, TypeOK
    <3> QED  BY <1>2, <2>10, <3>1 DEF Unpause
  <2>11. ASSUME NEW b \in Boxes, PauseTakesEffect(b)
         PROVE  BoxesAreAccountedFor'
    <3>1. \A c \in Boxes : box'[c] = box[c] \/ (box[c] = "running" /\ box'[c] = "paused")
      BY <2>1, <2>11 DEF PauseTakesEffect, TypeOK
    <3> QED  BY <1>2, <2>11, <3>1 DEF PauseTakesEffect
  <2>12. CASE Attach \/ Missing \/ Escalate \/ Launch \/ LaunchLost \/ PollLost \/ Collect
              \/ Deadline \/ Fault \/ PauseIdle \/ PauseFailed \/ Paused \/ Fail
    BY <2>2, <2>12
    DEF Attach, Missing, Escalate, Launch, LaunchLost, PollLost, Collect, Deadline, Fault,
        PauseIdle, PauseFailed, Paused, Fail
  <2>13. CASE \/ \E t \in Tools : Call(t)
              \/ Commit \/ \E why \in {"stop", "close"} : Abort(why) \/ EndTurn \/ ResumeTurn
    BY <2>2, <2>13 DEF Call, Commit, Abort, EndTurn, ResumeTurn
  <2>14. CASE \E b \in Boxes, t \in Tools : Supervise(b, t) \/ PublishJournal(b, t)
    BY <2>2, <2>14 DEF Supervise, PublishJournal
  <2>15. CASE UNCHANGED vars  BY <2>2, <2>15 DEF vars
  <2> QED
    BY <1>2, <2>3, <2>4, <2>5, <2>6, <2>8, <2>9, <2>10, <2>11, <2>12, <2>13, <2>14, <2>15
    DEF Next, NativeCall, Host, Provider
<1>3. Faithful /\ BoxesAreAccountedFor /\ [Next]_vars => BoxesAreAccountedFor'
  BY <1>2
<1> QED  BY CallsAreFaithful, <1>1, <1>3, PTL DEF Spec

\* A usage interval ends only when its sandbox has stopped running: a pause that failed, a
\* deletion that failed and the death of the process leave it open.
THEOREM MeterRunsWithBox == Spec => MeterStopsWithBox
<1>1. ASSUME TypeOK, [Next]_vars
      PROVE  meter # "off" /\ meter' = "off" => box'[handle] # "running"
  <2> SUFFICES ASSUME meter # "off", meter' = "off"
               PROVE  box'[handle] # "running"
    OBVIOUS
  <2> USE <1>1 DEF durable, remote, process, calls, inside, rest
  <2>1. meter' # meter  OBVIOUS
  <2>2. CASE Missing  BY <2>1, <2>2 DEF Missing
  <2>3. CASE Paused  BY <2>1, <2>3 DEF Paused
  <2>4. CASE Cleanup
    <3>1. handle # 0 /\ Lose(handle)  BY <2>1, <2>4 DEF Cleanup
    <3>2. handle \in Boxes  BY <3>1 DEF TypeOK, Boxes
    <3> QED  BY <3>1, <3>2 DEF Lose, TypeOK
  <2>5. CASE ResumeTurn
    <3>1. handle # 0 /\ box[handle] = "gone" /\ box' = box  BY <2>5 DEF ResumeTurn, Inherited
    <3> QED  BY <3>1
  <2>6. ~Attach /\ ~PauseFailed /\ ~RecordBox
    BY <2>1 DEF Attach, PauseFailed, RecordBox, Observed
  <2>7. ~Create /\ ~DiscardBox /\ ~Escalate /\ ~Launch /\ ~LaunchLost /\ ~PollLost
        /\ ~Collect /\ ~Deadline /\ ~Fault /\ ~PauseIdle /\ ~Fail
    BY <2>1 DEF Create, DiscardBox, Escalate, Launch, LaunchLost, PollLost, Collect, Deadline,
                Fault, PauseIdle, Fail
  <2>8. /\ \A t \in Tools : ~Call(t)
        /\ ~Commit /\ (\A why \in {"stop", "close"} : ~Abort(why)) /\ ~EndTurn /\ ~Crash
    BY <2>1 DEF Call, Commit, Abort, EndTurn, Crash
  <2>9. /\ ~Unpause
        /\ \A b \in Boxes : ~PauseTakesEffect(b) /\ ~Vanish(b)
        /\ \A b \in Boxes, t \in Tools : ~Supervise(b, t) /\ ~PublishJournal(b, t)
    BY <2>1 DEF Unpause, PauseTakesEffect, Vanish, Supervise, PublishJournal
  <2>10. ~UNCHANGED vars  BY <2>1 DEF vars
  <2> QED
    BY <2>2, <2>3, <2>4, <2>5, <2>6, <2>7, <2>8, <2>9, <2>10 DEF Next, NativeCall, Host, Provider
<1>2. Faithful /\ [Next]_vars =>
        [meter # "off" /\ meter' = "off" => box'[handle] # "running"]_vars
  BY <1>1 DEF Faithful
<1> QED  BY CallsAreFaithful, <1>2, PTL DEF Spec, MeterStopsWithBox
=============================================================================
