----------------------------- MODULE NativeBash -----------------------------
(***************************************************************************)
(* The native command of a tool call: dispatched to a disposable sandbox   *)
(* under a once-only supervisor, collected from its journal, and dispatched *)
(* again by the next process after a death (packages/runtime/src/          *)
(* native-bash.ts and the host that runtime.ts 217-282 gives it).          *)
(*                                                                         *)
(* A provider call takes effect at the provider at some time before its    *)
(* answer, and may take effect although its answer is an error.            *)
(***************************************************************************)
EXTENDS Naturals, Sequences, FiniteSets

CONSTANTS
  Tools,      \* IDs of the turn's native tool calls
  None,       \* no tool call
  Pausable,   \* the provider can pause a sandbox (E2B) or not (Docker)
  MaxBoxes,   \* bound: sandboxes created
  MaxLives    \* bound: executions of the turn, the first one included

ASSUME NoneAssumption == None \notin Tools
ASSUME PausableAssumption == Pausable \in BOOLEAN
ASSUME BoundsAssumption == MaxBoxes \in Nat \ {0} /\ MaxLives \in Nat \ {0}

Boxes == 1 .. MaxBoxes

VARIABLES
  (* The state root. *)
  turn,       \* "running", "interrupted" or "stopped"
  call,       \* the tool call that has no result yet, or None
  escalated,  \* tool calls with a tier.escalated event
  result,     \* result[t]: "none", "ok" or "error"
  handle,     \* the session's sandboxState, 0 for none
  meter,      \* its open usage interval: "off", "on" or "uncertain"
  discarded,  \* sandboxes in the usage ledger as discarded
  (* The provider and the sandboxes. *)
  box,        \* box[b]: "none", "running", "paused" or "gone"
  pausing,    \* sandboxes with a pause on its way
  starting,   \* starting[b]: supervisors of these tool calls have been started
  marked,     \* marked[b]: job directories
  journal,    \* journal[b]: published results
  ran,        \* <<sandbox, tool call>> of every command that began, in order
  (* The process. *)
  pc,         \* where the native call is suspended
  attached,   \* the variable `session`, 0 for null
  created,    \* a sandbox that is not recorded yet, 0 for none
  outcome,    \* what the call will return: "ok" or "error"
  abort,      \* why the signal was aborted: "none", "stop" or "close"
  lives,      \* executions so far
  orphans     \* sandboxes whose creation a dead process never recorded

durable == <<turn, call, escalated, result, handle, meter, discarded>>
remote == <<box, pausing, starting, marked, journal, ran>>
process == <<pc, attached, created, outcome, abort, lives, orphans>>
vars == <<durable, remote, process>>
calls == <<turn, call, escalated, result>>
inside == <<starting, marked, journal, ran>>
rest == <<outcome, abort, lives, orphans>>

\* What was known of the call, and of an abort, is gone with the execution.
Forget == abort' = "none" /\ outcome' = "error"

Resuming == {"resuming", "relaunching", "relaunchingLast", "repolling"}
Launching == {"launching", "launchingAgain", "launchingLast"}
InCall == Resuming \cup Launching \cup
            {"creating", "recording", "ready", "polling", "collected", "failing", "pausing"}

Init ==
  /\ turn = "running" /\ call = None
  /\ escalated = {} /\ result = [t \in Tools |-> "none"]
  /\ handle = 0 /\ meter = "off" /\ discarded = {}
  /\ box = [b \in Boxes |-> "none"] /\ pausing = {}
  /\ starting = [b \in Boxes |-> {}] /\ marked = [b \in Boxes |-> {}]
  /\ journal = [b \in Boxes |-> {}] /\ ran = <<>>
  /\ pc = "idle" /\ attached = 0 /\ created = 0 /\ outcome = "error"
  /\ abort = "none" /\ lives = 1 /\ orphans = {}
-----------------------------------------------------------------------------
(* The usage meter, without its clock.                                     *)

\* recordSandboxTransition: what an observed transition leaves of the interval.
Observed(transition) ==
  IF handle = 0 THEN meter
  ELSE CASE transition = "running"    -> "on"
         [] transition = "unobserved" -> IF meter = "off" THEN "off" ELSE "uncertain"
         [] OTHER                     -> "off"

\* inheritSandboxUsage: an open interval was not observed while no process was up; one
\* whose sandbox has met the provider's deadline is settled.
Inherited ==
  IF meter = "off" THEN {"off"}
  ELSE {"uncertain"} \cup (IF handle # 0 /\ box[handle] = "gone" THEN {"off"} ELSE {})
-----------------------------------------------------------------------------
(* One native call.                                                        *)
Goto(where) == pc' = where

Call(t) ==
  /\ pc = "idle" /\ turn = "running" /\ abort = "none"
  /\ result[t] = "none" /\ call \in {None, t}
  /\ call' = t
  /\ Goto(IF attached # 0 THEN "ready" ELSE IF handle # 0 THEN "resuming" ELSE "creating")
  /\ UNCHANGED <<turn, escalated, result, handle, meter, discarded, remote, attached, created, rest>>

\* The provider answers a resume.  A reconnect goes back to what it interrupted; the
\* first resume of a call still has an event to append.
Attach ==
  /\ pc \in Resuming
  /\ box[handle] = "running"
  /\ attached' = handle
  /\ meter' = Observed("running")
  /\ Goto(CASE pc = "relaunching"     -> "launchingAgain"
            [] pc = "relaunchingLast" -> "launchingLast"
            [] pc = "repolling"       -> "polling"
            [] OTHER                  -> IF abort = "none" THEN "ready" ELSE "failing")
  /\ UNCHANGED <<calls, handle, discarded, remote, created, rest>>

Missing ==
  /\ pc \in Resuming
  /\ box[handle] = "gone"
  /\ attached' = 0
  /\ meter' = Observed("missing")
  /\ Goto(IF pc = "resuming" THEN "creating" ELSE "failing")
  /\ UNCHANGED <<calls, handle, discarded, remote, created, rest>>

Create ==
  /\ pc = "creating"
  /\ \E b \in Boxes :
       /\ box[b] = "none"
       /\ \A c \in 1 .. b - 1 : box[c] # "none"
       /\ box' = [box EXCEPT ![b] = "running"]
       /\ created' = b
  /\ Goto("recording")
  /\ UNCHANGED <<durable, pausing, inside, attached, rest>>

\* recordState while the turn is active.  A command that was dispatched before is not
\* dispatched to a new sandbox.
\* Fault: the events are not looked at.
RecordBoxUnasked ==
  /\ pc = "recording" /\ abort = "none"
  /\ handle' = created /\ attached' = created /\ created' = 0
  /\ meter' = IF meter = "off" THEN "on" ELSE meter
  /\ Goto("ready")
  /\ UNCHANGED <<calls, discarded, remote, rest>>
RecordBox ==
  /\ pc = "recording" /\ abort = "none"
  /\ handle' = created /\ attached' = created /\ created' = 0
  /\ meter' = IF meter = "off" THEN "on" ELSE meter
  /\ Goto(IF call \in escalated THEN "failing" ELSE "ready")
  /\ UNCHANGED <<calls, discarded, remote, rest>>

\* Recording fails, or is refused because the turn has ended meanwhile: the sandbox is
\* stopped, or may go on running, and is metered either way.
DiscardBox ==
  /\ pc = "recording"
  /\ box' \in {box, [box EXCEPT ![created] = "gone"]}
  /\ discarded' = discarded \cup {created}
  /\ created' = 0
  /\ Goto("failing")
  /\ UNCHANGED <<calls, handle, meter, pausing, inside, attached, rest>>

\* The intent is durable before the command can begin.
Escalate ==
  /\ pc = "ready" /\ abort = "none"
  /\ box[attached] = "running"
  /\ escalated' = escalated \cup {call}
  /\ Goto("launching")
  /\ UNCHANGED <<turn, call, result, handle, meter, discarded, remote, attached, created, rest>>

\* The supervisor is started, and the answer says so.
Launch ==
  /\ pc \in Launching
  /\ box[attached] = "running"
  /\ starting' = [starting EXCEPT ![attached] = @ \cup {call}]
  /\ Goto("polling")
  /\ UNCHANGED <<durable, box, pausing, marked, journal, ran, attached, created, rest>>

\* The answer is not a success, whether or not the supervisor was started.  With a
\* pausable provider a first launch that throws is repeated after a reconnect, and so is
\* a first or second one that times out; any other failure fails the call.
LaunchLost ==
  /\ pc \in Launching
  /\ \/ UNCHANGED starting
     \/ /\ box[attached] = "running"
        /\ starting' = [starting EXCEPT ![attached] = @ \cup {call}]
  /\ \/ Pausable /\ abort = "none" /\ pc = "launching" /\ Goto("relaunching")
     \/ Pausable /\ abort = "none" /\ pc # "launchingLast" /\ Goto("relaunchingLast")
     \/ Goto("failing")
  /\ UNCHANGED <<durable, box, pausing, marked, journal, ran, attached, created, rest>>

\* The journal cannot be read: a pause that an earlier owner asked for, a transient error.
PollLost ==
  /\ pc = "polling"
  /\ Goto(IF Pausable /\ abort = "none" THEN "repolling" ELSE "failing")
  /\ UNCHANGED <<durable, remote, attached, created, rest>>

Collect ==
  /\ pc = "polling" /\ abort = "none"
  /\ box[attached] = "running"
  /\ call \in journal[attached]
  /\ outcome' = "ok"
  /\ Goto(IF Pausable THEN "collected" ELSE "returned")
  /\ UNCHANGED <<durable, remote, attached, created, abort, lives, orphans>>

\* Fault: the time limit is looked at when a journal is there.
DeadlineWithJournal ==
  /\ pc = "polling" /\ call \in journal[attached]
  /\ Goto("failing")
  /\ UNCHANGED <<durable, remote, attached, created, rest>>
Deadline ==
  /\ pc = "polling"
  /\ Goto("failing")
  /\ UNCHANGED <<durable, remote, attached, created, rest>>

\* A provider call, the journal or the workspace it holds is refused; an aborted signal
\* is noticed.
Fault ==
  /\ \/ pc \in Resuming \cup {"creating", "ready"}
     \/ pc = "polling" /\ (abort # "none" \/ call \in journal[attached])
     \/ pc = "collected" /\ abort # "none"
  /\ Goto("failing")
  /\ UNCHANGED <<durable, remote, attached, created, rest>>
-----------------------------------------------------------------------------
(* The end of a call: pauseIdle, and what the engine commits.              *)

PauseIdle ==
  /\ pc \in {"collected", "failing"} /\ abort = "none"
  /\ Pausable /\ attached # 0
  /\ pausing' = pausing \cup {attached}
  /\ attached' = 0
  /\ outcome' = IF pc = "failing" THEN "error" ELSE outcome
  /\ Goto("pausing")
  /\ UNCHANGED <<durable, box, inside, created, abort, lives, orphans>>

\* Fault: a pause that failed is recorded as a pause.
PauseFailedIgnored ==
  /\ pc = "pausing"
  /\ pausing' \in {pausing, pausing \ {handle}}
  /\ meter' = Observed("paused")
  /\ Goto(IF abort = "none" THEN "returned" ELSE "failing")
  /\ UNCHANGED <<calls, handle, discarded, box, inside, attached, created, rest>>
PauseFailed ==
  /\ pc = "pausing"
  /\ pausing' \in {pausing, pausing \ {handle}}
  /\ meter' = Observed("unobserved")
  /\ Goto(IF abort = "none" THEN "returned" ELSE "failing")
  /\ UNCHANGED <<calls, handle, discarded, box, inside, attached, created, rest>>

Paused ==
  /\ pc = "pausing"
  /\ box[handle] = "paused" /\ handle \notin pausing
  /\ meter' = Observed("paused")
  /\ Goto(IF abort = "none" THEN "returned" ELSE "failing")
  /\ UNCHANGED <<calls, handle, discarded, remote, attached, created, rest>>

\* Nothing to pause: the call fails at once.
Fail ==
  /\ pc = "failing" /\ abort = "none"
  /\ ~Pausable \/ attached = 0
  /\ outcome' = "error"
  /\ Goto("returned")
  /\ UNCHANGED <<durable, remote, attached, created, abort, lives, orphans>>

\* commitTool: a result or an error becomes the durable result of the call.
Commit ==
  /\ pc = "returned" /\ abort = "none"
  /\ result' = [result EXCEPT ![call] = outcome]
  /\ call' = None
  /\ Forget
  /\ Goto("idle")
  /\ UNCHANGED <<turn, escalated, handle, meter, discarded, remote, attached, created, lives, orphans>>
-----------------------------------------------------------------------------
(* The runtime around it.                                                  *)
Abort(why) ==
  /\ pc \notin {"off", "cleaning"} /\ abort = "none"
  /\ abort' = why
  /\ UNCHANGED <<durable, remote, pc, attached, created, outcome, lives, orphans>>

\* The executor ends; a close keeps the sandbox, a stop goes on to delete it.
EndTurn ==
  /\ pc \in {"idle", "returned", "failing"} /\ abort # "none"
  /\ turn' = IF abort = "stop" THEN "stopped" ELSE "interrupted"
  /\ attached' = 0
  /\ Forget
  /\ Goto(IF abort = "stop" THEN "cleaning" ELSE "off")
  /\ UNCHANGED <<call, escalated, result, handle, meter, discarded, remote, created, lives, orphans>>

\* A sandbox is gone with its processes and its files.
Lose(b) ==
  /\ box' = [box EXCEPT ![b] = "gone"]
  /\ starting' = [starting EXCEPT ![b] = {}]
  /\ marked' = [marked EXCEPT ![b] = {}]
  /\ journal' = [journal EXCEPT ![b] = {}]

\* A provider that fails to delete leaves the handle for the next owner.
\* Fault: the handle is dropped all the same.
CleanupForgetting ==
  /\ pc = "cleaning"
  /\ handle' = 0
  /\ UNCHANGED <<box, meter>>
  /\ Goto("off")
  /\ UNCHANGED <<calls, discarded, pausing, inside, attached, created, rest>>
Cleanup ==
  /\ pc = "cleaning"
  /\ \/ UNCHANGED <<box, starting, marked, journal, handle, meter>>
     \/ /\ handle # 0
        /\ Lose(handle)
        /\ meter' = Observed("deleted")
        /\ handle' = 0
  /\ Goto("off")
  /\ UNCHANGED <<calls, discarded, pausing, ran, attached, created, rest>>

\* The process dies; whatever it had asked of the provider goes on.
Crash ==
  /\ pc # "off"
  /\ orphans' = IF created # 0 THEN orphans \cup {created} ELSE orphans
  /\ turn' = IF turn = "running" THEN "interrupted" ELSE turn
  /\ attached' = 0 /\ created' = 0
  /\ Forget
  /\ Goto("off")
  /\ UNCHANGED <<call, escalated, result, handle, meter, discarded, remote, lives>>

\* A new process opens the root and resumes the turn with a native bash of its own.
ResumeTurn ==
  /\ pc = "off" /\ turn = "interrupted"
  /\ lives < MaxLives
  /\ lives' = lives + 1
  /\ turn' = "running"
  /\ meter' \in Inherited
  /\ Goto("idle")
  /\ UNCHANGED <<call, escalated, result, handle, discarded, remote, attached, created,
                 outcome, abort, orphans>>
-----------------------------------------------------------------------------
(* The provider and the sandbox.                                           *)

\* A resume takes effect; its answer comes later, or never.
Unpause ==
  /\ pc \in Resuming
  /\ box[handle] = "paused"
  /\ box' = [box EXCEPT ![handle] = "running"]
  /\ UNCHANGED <<durable, process, pausing, inside>>

PauseTakesEffect(b) ==
  /\ b \in pausing
  /\ pausing' = pausing \ {b}
  /\ box' = [box EXCEPT ![b] = IF @ = "running" THEN "paused" ELSE @]
  /\ UNCHANGED <<durable, process, inside>>

\* A sandbox is lost, or reaches the end of its lifetime.
Vanish(b) ==
  /\ box[b] \in {"running", "paused"}
  /\ Lose(b)
  /\ UNCHANGED <<durable, process, pausing, ran>>

\* The supervisor takes its job directory, or finds it taken and exits.
\* Fault: the directory is made if it is not there.
SuperviseAgain(b, t) ==
  /\ box[b] = "running" /\ t \in starting[b]
  /\ starting' = [starting EXCEPT ![b] = @ \ {t}]
  /\ marked' = [marked EXCEPT ![b] = @ \cup {t}]
  /\ ran' = Append(ran, <<b, t>>)
  /\ Len(ran) < 2 * MaxLives
  /\ UNCHANGED <<durable, process, box, pausing, journal>>
Supervise(b, t) ==
  /\ box[b] = "running" /\ t \in starting[b]
  /\ starting' = [starting EXCEPT ![b] = @ \ {t}]
  /\ IF t \in marked[b] THEN UNCHANGED <<marked, ran>>
     ELSE /\ marked' = [marked EXCEPT ![b] = @ \cup {t}]
          /\ ran' = Append(ran, <<b, t>>)
  /\ UNCHANGED <<durable, process, box, pausing, journal>>

PublishJournal(b, t) ==
  /\ box[b] = "running" /\ t \in marked[b] \ journal[b]
  /\ journal' = [journal EXCEPT ![b] = @ \cup {t}]
  /\ UNCHANGED <<durable, process, box, pausing, starting, marked, ran>>

NativeCall ==
  \/ Attach \/ Missing
  \/ Create \/ RecordBox \/ DiscardBox
  \/ Escalate \/ Launch \/ LaunchLost
  \/ PollLost \/ Collect \/ Deadline \/ Fault
  \/ PauseIdle \/ PauseFailed \/ Paused \/ Fail

Host ==
  \/ \E t \in Tools : Call(t)
  \/ Commit
  \/ \E why \in {"stop", "close"} : Abort(why)
  \/ EndTurn \/ Cleanup \/ Crash \/ ResumeTurn

Provider ==
  \/ Unpause
  \/ \E b \in Boxes : PauseTakesEffect(b) \/ Vanish(b)
  \/ \E b \in Boxes, t \in Tools : Supervise(b, t) \/ PublishJournal(b, t)

Next == NativeCall \/ Host \/ Provider

Spec == Init /\ [][Next]_vars

\* Provider calls answer or fail, promise callbacks run, and the loop always comes back
\* to its time limit; nothing makes a command end or a sandbox stay.
FairSpec ==
  /\ Spec
  /\ WF_vars(NativeCall)
  /\ WF_vars(EndTurn)
  /\ SF_vars(Deadline)
-----------------------------------------------------------------------------
(* Properties.                                                             *)
Runs(t) == {i \in DOMAIN ran : ran[i][2] = t}

\* "Repeated launches exit without replay": however often a launch is repeated, by a
\* reconnect or by the next process, a command begins at most once in a sandbox, and
\* never before its dispatch is durable.
OncePerSandbox ==
  /\ \A i, j \in DOMAIN ran : ran[i] = ran[j] => i = j
  /\ \A i \in DOMAIN ran : ran[i][2] \in escalated

\* "Does not replay a dispatched command when its environment is gone": one death of the
\* process, with any number of lost sandboxes, never repeats a command.
OneDeathNeverReplays ==
  lives <= 2 => \A t \in Tools : Cardinality(Runs(t)) <= 1

\* A usage interval ends only when its sandbox has stopped running.
MeterStopsWithBox ==
  [][meter # "off" /\ meter' = "off" => box'[handle] # "running"]_vars

\* Every sandbox that exists is one the session holds, one that is being recorded, one
\* that the ledger has charged as discarded, or one whose creator died before it could
\* record it.
BoxesAreAccountedFor ==
  \A b \in Boxes : box[b] \in {"running", "paused"} =>
    b = handle \/ b = created \/ b \in discarded \cup orphans

\* Every native call returns or throws, whatever the provider does.
CallsEnd == pc \in InCall ~> pc \notin InCall

\* "Native bash reattaches to its supervisor journal by tool call id instead of running
\* twice" (pi-harness-engine.ts:409).
NeverRunsTwice == \A t \in Tools : Cardinality(Runs(t)) <= 1
=============================================================================
