------------------------------ MODULE Runtime ------------------------------
(***************************************************************************)
(* NimplexRuntime: the one owner of a state root.  It accepts requests,    *)
(* starts, stops, resumes and finishes turns, branches sessions, recovers  *)
(* what a dead process left behind and shuts down                          *)
(* (packages/runtime/src/runtime.ts, sessions.ts, store.ts).               *)
(*                                                                         *)
(* A SQLite transaction is one step.  JavaScript runs one callback at a    *)
(* time, so code between two awaits is one step too; an await on real work *)
(* (an executor, a provider call) separates two actions.                   *)
(***************************************************************************)
EXTENDS Naturals, Sequences

CONSTANTS
  Sessions,   \* session IDs a runtime may create
  Turns,      \* turn IDs
  Requests,   \* request IDs
  Engine,     \* the engine of the sessions: "pi-harness" or "pi-executor"
  None,       \* stands for an absent session, turn, reason or error
  MaxOpens    \* bound: how many times a process opens the state root

ASSUME NoneAssumption == None \notin Sessions \cup Turns
ASSUME EngineAssumption == Engine \in {"pi-harness", "pi-executor"}
ASSUME OpensAssumption == MaxOpens \in Nat \ {0}

Terminal == {"completed", "failed", "killed", "canceled"}
Statuses == Terminal \cup {"none", "running"}
Errors   == {"none", "runtime_interrupted", "canceled", "duration_exceeded", "fault"}
Reasons  == {"none", "runtime_interrupted", "canceled", "duration_exceeded"}
Outcomes == {"none", "completed", "failed", "aborted"}
Lifecycle == {"run.started", "run.resumed", "run.interrupted",
              "run.completed", "run.failed", "run.killed", "run.canceled"}

\* What ownership of one session's execution is made of: an entry of the map
\* `active`, its abort controller's reason and how far `execute` has got.
NoTask == [turn |-> None, phase |-> "idle", reason |-> "none", outcome |-> "none"]
Tasks == {NoTask} \cup [turn : Turns,
                        phase : {"executing", "settled", "cleaning", "ending"},
                        reason : Reasons,
                        outcome : Outcomes]

VARIABLES
  (* The state root: rows that survive the process. *)
  session,    \* session[s]: "absent", "stored" or "deleted"
  turnIds,    \* turnIds[s]: the turns of session s, inherited ones first
  parent,     \* parent[s]: the session s was branched from, or None
  titled,     \* titled[s]: s has turns or a title other than the default
  sandbox,    \* sandbox[s]: s holds the durable handle of a sandbox
  status,     \* status[t]: the turn's result.status ("none": no such row)
  error,      \* error[t]: the turn's result.error
  owner,      \* owner[t]: the session that ran t
  verdict,    \* verdict[t]: the outcome the engine itself has made durable
  accepted,   \* the table accepted_inputs
  log,        \* log[t]: the lifecycle events of t, in seq order
  (* The process. *)
  up,         \* "down", "open" or "closing"
  task,       \* task[s]: the execution of session s
  unswept,    \* sessions `close` has not visited yet
  opens       \* how many processes have opened the root

store == <<session, turnIds, parent, titled, sandbox, status, error, owner,
           verdict, accepted, log>>
vars == <<store, up, task, unswept, opens>>

TypeOK ==
  /\ session \in [Sessions -> {"absent", "stored", "deleted"}]
  /\ turnIds \in [Sessions -> Seq(Turns)]
  /\ parent \in [Sessions -> Sessions \cup {None}]
  /\ titled \in [Sessions -> BOOLEAN]
  /\ sandbox \in [Sessions -> BOOLEAN]
  /\ status \in [Turns -> Statuses]
  /\ error \in [Turns -> Errors]
  /\ owner \in [Turns -> Sessions \cup {None}]
  /\ verdict \in [Turns -> Outcomes]
  /\ accepted \subseteq [session : Sessions, request : Requests, turn : Turns]
  /\ log \in [Turns -> Seq(Lifecycle)]
  /\ up \in {"down", "open", "closing"}
  /\ task \in [Sessions -> Tasks]
  /\ unswept \in SUBSET Sessions
  /\ opens \in 0 .. MaxOpens

Init ==
  /\ session = [s \in Sessions |-> "absent"]
  /\ turnIds = [s \in Sessions |-> <<>>]
  /\ parent = [s \in Sessions |-> None]
  /\ titled = [s \in Sessions |-> FALSE]
  /\ sandbox = [s \in Sessions |-> FALSE]
  /\ status = [t \in Turns |-> "none"]
  /\ error = [t \in Turns |-> "none"]
  /\ owner = [t \in Turns |-> None]
  /\ verdict = [t \in Turns |-> "none"]
  /\ accepted = {}
  /\ log = [t \in Turns |-> <<>>]
  /\ up = "down"
  /\ task = [s \in Sessions |-> NoTask]
  /\ unswept = {}
  /\ opens = 0
-----------------------------------------------------------------------------
IsTerminal(t) == status[t] \in Terminal
Interrupted(t) == error[t] = "runtime_interrupted"
Active(s) == task[s].phase # "idle"
HasTurns(s) == turnIds[s] # <<>>
LastTurn(s) == turnIds[s][Len(turnIds[s])]

Launched(t) == [turn |-> t, phase |-> "executing", reason |-> "none", outcome |-> "none"]

\* The row a request must not find: the table's primary key.
Accepted(s, r) == \E a \in accepted : a.session = s /\ a.request = r
-----------------------------------------------------------------------------
(* Opening: the constructor takes the owner lock and, in one transaction,  *)
(* fails every turn a dead process left running.                           *)
\* Fault: recovery looks at no turn.
NoOrphans == {}
Orphans == {t \in Turns : status[t] = "running"}

OpenRuntime ==
  /\ up = "down"
  /\ opens < MaxOpens
  /\ up' = "open"
  /\ opens' = opens + 1
  /\ status' = [t \in Turns |-> IF t \in Orphans THEN "failed" ELSE status[t]]
  /\ error' = [t \in Turns |-> IF t \in Orphans THEN "runtime_interrupted" ELSE error[t]]
  /\ log' = [t \in Turns |-> IF t \in Orphans THEN Append(log[t], "run.interrupted") ELSE log[t]]
  /\ UNCHANGED <<session, turnIds, parent, titled, sandbox, owner, verdict,
                 accepted, task, unswept>>

CreateSession(s, named) ==
  /\ up = "open"
  /\ session[s] = "absent"
  /\ session' = [session EXCEPT ![s] = "stored"]
  /\ titled' = [titled EXCEPT ![s] = named]
  /\ UNCHANGED <<turnIds, parent, sandbox, status, error, owner, verdict,
                 accepted, log, up, task, unswept, opens>>

\* A title is of no consequence once there are turns: from then on a rename changes
\* nothing that is modelled.
RenameSession(s, named) ==
  /\ up = "open"
  /\ session[s] = "stored"
  /\ ~HasTurns(s)
  /\ titled' = [titled EXCEPT ![s] = named]
  /\ UNCHANGED <<session, turnIds, parent, sandbox, status, error, owner, verdict,
                 accepted, log, up, task, unswept, opens>>

\* The previous turn must be terminal and must not be waiting to be resumed.
\* Fault: an interrupted turn may be superseded.
MayFollowAnyEnded(s) == HasTurns(s) => IsTerminal(LastTurn(s))
MayFollow(s) == HasTurns(s) => IsTerminal(LastTurn(s)) /\ ~Interrupted(LastTurn(s))

\* A retry of an accepted ID answers from the table and changes nothing, so only
\* the first use of a request ID is a step; t is the ID randomUUID() draws.
StartTurn(s, r, t) ==
  /\ up = "open"
  /\ session[s] = "stored"
  /\ ~Accepted(s, r)
  /\ ~Active(s)
  /\ MayFollow(s)
  /\ status[t] = "none"
  /\ turnIds' = [turnIds EXCEPT ![s] = Append(@, t)]
  /\ titled' = [titled EXCEPT ![s] = TRUE]
  /\ status' = [status EXCEPT ![t] = "running"]
  /\ owner' = [owner EXCEPT ![t] = s]
  /\ accepted' = accepted \cup {[session |-> s, request |-> r, turn |-> t]}
  /\ log' = [log EXCEPT ![t] = Append(@, "run.started")]
  /\ task' = [task EXCEPT ![s] = Launched(t)]
  /\ UNCHANGED <<session, parent, sandbox, error, verdict, up, unswept, opens>>

\* Fault: any ended turn may be resumed.
MayResumeAnyEnded(s) ==
  HasTurns(s) /\ owner[LastTurn(s)] = s /\ IsTerminal(LastTurn(s))
MayResume(s) ==
  HasTurns(s) /\ owner[LastTurn(s)] = s /\ Interrupted(LastTurn(s))

ResumeTurn(s) ==
  LET t == LastTurn(s) IN
  /\ up = "open"
  /\ session[s] = "stored"
  /\ ~Active(s)
  /\ MayResume(s)
  /\ status' = [status EXCEPT ![t] = "running"]
  /\ error' = [error EXCEPT ![t] = "none"]
  /\ log' = [log EXCEPT ![t] = Append(@, "run.resumed")]
  /\ task' = [task EXCEPT ![s] = Launched(t)]
  /\ UNCHANGED <<session, turnIds, parent, titled, sandbox, owner, verdict,
                 accepted, up, unswept, opens>>
-----------------------------------------------------------------------------
(* Branching.  A branch shares the turns up to the selected one and, for   *)
(* the Pi harness, copies Pi's path out of the scope that holds the turn's *)
(* result: the source's own or that of the nearest ancestor which ran it.  *)
\* The sessions the lookup may reach from s: the smallest set that holds s and, for
\* each stored member, the parent its row names.
Lineage(s) ==
  {a \in Sessions : \A A \in SUBSET Sessions :
     s \in A /\ (\A x \in A : session[x] = "stored" => parent[x] \in A \cup {None})
       => a \in A}

\* The lookup reads the row of each session on its way to the result's owner.
\* Fault: the lookup stops at the source.
ResultInSource(s, t) == owner[t] = s /\ verdict[t] # "none"
ResultFound(s, t) == owner[t] \in Lineage(s) /\ verdict[t] # "none"

\* Fault: an interrupted turn may be branched from.
MayBranchAtAnyEnded(t) == IsTerminal(t)
MayBranchAt(t) == IsTerminal(t) /\ ~Interrupted(t)

AddBranch(s, b, ids) ==
  /\ up = "open"
  /\ session[s] = "stored"
  /\ session[b] = "absent"
  /\ session' = [session EXCEPT ![b] = "stored"]
  /\ turnIds' = [turnIds EXCEPT ![b] = ids]
  /\ parent' = [parent EXCEPT ![b] = s]
  /\ titled' = [titled EXCEPT ![b] = TRUE]
  /\ UNCHANGED <<sandbox, status, error, owner, verdict, accepted, log, up, task,
                 unswept, opens>>

ForkSession(s, b, n) ==
  /\ MayBranchAt(turnIds[s][n])
  /\ Engine = "pi-harness" => ResultFound(s, turnIds[s][n])
  /\ AddBranch(s, b, SubSeq(turnIds[s], 1, n))

\* Without turns there is nothing to select and nothing of Pi's to copy.
ForkEmptySession(s, b) ==
  /\ ~HasTurns(s)
  /\ AddBranch(s, b, <<>>)
-----------------------------------------------------------------------------
(* Execution of the turn that task[s] owns.                                *)

\* The first sandbox of the session is recorded by the running turn.
RecordSandbox(s) ==
  /\ task[s].phase = "executing"
  /\ task[s].reason = "none"
  /\ status[task[s].turn] = "running"
  /\ ~sandbox[s]
  /\ sandbox' = [sandbox EXCEPT ![s] = TRUE]
  /\ UNCHANGED <<session, turnIds, parent, titled, status, error, owner, verdict,
                 accepted, log, up, task, unswept, opens>>

\* An abort controller keeps the first reason it is given.
AbortTask(k, why) == IF k.phase \in {"executing", "settled"} /\ k.reason = "none"
                     THEN [k EXCEPT !.reason = why] ELSE k

Abort(s, why) ==
  /\ up # "down"
  /\ task[s].phase \in {"executing", "settled"}
  /\ task[s].reason = "none"
  /\ task' = [task EXCEPT ![s] = AbortTask(@, why)]
  /\ UNCHANGED <<store, up, unswept, opens>>

StopTurn(s) == Abort(s, "canceled")
\* Fault: the timer is not armed again when a turn is resumed.
TimeoutOnce(s) == opens = 1 /\ Abort(s, "duration_exceeded")
Timeout(s) == Abort(s, "duration_exceeded")

\* The engine's own record of an outcome: Pi's result for the harness, the
\* committed final response for the legacy loop.  It fixes every later answer.
Durable(o) == Engine = "pi-harness" \/ o = "completed"

\* The engine settles outcome o and returns it, or reports a failure of its own
\* found on the way out (a denied attempt, an extension error); `finish` has not
\* run yet.
Settle(s, o, returned) ==
  LET t == task[s].turn IN
  /\ task[s].phase = "executing"
  /\ verdict[t] \in {"none", o}
  /\ Engine = "pi-executor" => o # "aborted" /\ returned = o
  /\ returned \in {o, "failed"}
  /\ task' = [task EXCEPT ![s].phase = "settled", ![s].outcome = returned]
  /\ verdict' = [verdict EXCEPT ![t] = IF Durable(o) THEN o ELSE @]
  /\ UNCHANGED <<session, turnIds, parent, titled, sandbox, status, error, owner,
                 accepted, log, up, unswept, opens>>

StatusOf(why) == IF why = "canceled" THEN "canceled"
                 ELSE IF why = "duration_exceeded" THEN "killed" ELSE "failed"

RunEvent == [completed |-> "run.completed", failed |-> "run.failed",
             killed |-> "run.killed", canceled |-> "run.canceled"]

\* `finish`: one transaction that leaves an already terminal turn alone.
Record(t, st, err) ==
  IF IsTerminal(t) THEN UNCHANGED <<status, error, log>>
  ELSE /\ status' = [status EXCEPT ![t] = st]
       /\ error' = [error EXCEPT ![t] = err]
       /\ log' = [log EXCEPT ![t] = Append(@, RunEvent[st])]

\* What is left of a task after `execute`: what that knew is gone.
Executed(k, p) == [turn |-> k.turn, phase |-> p, reason |-> "none", outcome |-> "none"]

\* After an abort the task deletes the sandbox first, unless the process is shutting
\* down and the turn may be resumed.
LeaveExecute(s, aborted) ==
  task' = [task EXCEPT ![s] = Executed(@,
    IF aborted /\ task[s].reason # "runtime_interrupted" THEN "cleaning" ELSE "ending")]

\* The executor, a credential or an extension throws, or observes the abort: the
\* catch clause classifies by the abort's reason.
FailTurn(s) ==
  LET k == task[s]
      aborted == k.reason # "none" IN
  /\ k.phase = "executing"
  /\ Record(k.turn, IF aborted THEN StatusOf(k.reason) ELSE "failed",
            IF aborted THEN k.reason ELSE "fault")
  /\ LeaveExecute(s, aborted)
  /\ UNCHANGED <<session, turnIds, parent, titled, sandbox, owner, verdict, accepted,
                 up, unswept, opens>>

\* A completed outcome stands whatever has been aborted since; any other gives
\* way to the abort.
\* Fault: an abort that lands after the settlement reclassifies the turn.
GivesWayAlways(k) == k.reason # "none"
GivesWay(k) == k.outcome # "completed" /\ k.reason # "none"

FinishTurn(s) ==
  LET k == task[s]
      aborted == GivesWay(k) IN
  /\ k.phase = "settled"
  /\ IF aborted THEN Record(k.turn, StatusOf(k.reason), k.reason)
     ELSE CASE k.outcome = "completed" -> Record(k.turn, "completed", "none")
            [] k.outcome = "aborted"   -> Record(k.turn, "canceled", "canceled")
            [] OTHER                   -> Record(k.turn, "failed", "fault")
  /\ LeaveExecute(s, aborted)
  /\ UNCHANGED <<session, turnIds, parent, titled, sandbox, owner, verdict, accepted,
                 up, unswept, opens>>

\* `cleanupSandbox`: a provider that fails to delete leaves the handle.
DeletesSandbox(s) == sandbox' \in {sandbox, [sandbox EXCEPT ![s] = FALSE]}

CleanupTask(s) ==
  /\ task[s].phase = "cleaning"
  /\ DeletesSandbox(s)
  /\ task' = [task EXCEPT ![s].phase = "ending"]
  /\ UNCHANGED <<session, turnIds, parent, titled, status, error, owner, verdict,
                 accepted, log, up, unswept, opens>>

\* The `finally` of launch releases the session.
EndTask(s) ==
  /\ task[s].phase = "ending"
  /\ task' = [task EXCEPT ![s] = NoTask]
  /\ UNCHANGED <<store, up, unswept, opens>>
-----------------------------------------------------------------------------
(* Shutdown and process death.                                             *)
Idle == \A s \in Sessions : ~Active(s)

Close ==
  /\ up = "open"
  /\ up' = "closing"
  /\ task' = [s \in Sessions |-> AbortTask(task[s], "runtime_interrupted")]
  /\ unswept' = {s \in Sessions : session[s] = "stored"}
  /\ UNCHANGED <<store, opens>>

Untouched(s) == ~HasTurns(s) /\ ~sandbox[s] /\ ~titled[s]
\* Fault: shutdown looks at the status, which recovery and finish have overwritten.
ResumableWhileRunning(s) == HasTurns(s) /\ status[LastTurn(s)] = "running"
Resumable(s) == HasTurns(s) /\ Interrupted(LastTurn(s))

\* Once every task has ended, close visits each session.
SweepSession(s) ==
  /\ up = "closing"
  /\ Idle
  /\ s \in unswept
  /\ unswept' = unswept \ {s}
  /\ IF Untouched(s)
     THEN /\ session' = [session EXCEPT ![s] = "deleted"]
          /\ UNCHANGED sandbox
     ELSE /\ UNCHANGED session
          /\ IF Resumable(s) THEN UNCHANGED sandbox ELSE DeletesSandbox(s)
  /\ UNCHANGED <<turnIds, parent, titled, status, error, owner, verdict, accepted, log,
                 up, task, opens>>

\* Fault: the store waits until every sandbox is gone.
CloseStoreWithoutSandboxes ==
  /\ up = "closing"
  /\ Idle
  /\ unswept = {} /\ \A s \in Sessions : ~sandbox[s]
  /\ up' = "down"
  /\ UNCHANGED <<store, task, unswept, opens>>
CloseStore ==
  /\ up = "closing"
  /\ Idle
  /\ unswept = {}
  /\ up' = "down"
  /\ UNCHANGED <<store, task, unswept, opens>>

\* The process dies; the lock of the state root goes with it.
Crash ==
  /\ up # "down"
  /\ up' = "down"
  /\ task' = [s \in Sessions |-> NoTask]
  /\ unswept' = {}
  /\ UNCHANGED <<store, opens>>
-----------------------------------------------------------------------------
Command(s) ==
  \/ \E named \in BOOLEAN : CreateSession(s, named) \/ RenameSession(s, named)
  \/ \E r \in Requests, t \in Turns : StartTurn(s, r, t)
  \/ ResumeTurn(s)
  \/ \E b \in Sessions : \E n \in DOMAIN turnIds[s] : ForkSession(s, b, n)
  \/ \E b \in Sessions : ForkEmptySession(s, b)
  \/ StopTurn(s)

Execution(s) ==
  \/ RecordSandbox(s)
  \/ Timeout(s)
  \/ \E o, returned \in Outcomes \ {"none"} : Settle(s, o, returned)
  \/ FailTurn(s)
  \/ FinishTurn(s)
  \/ CleanupTask(s)
  \/ EndTask(s)

Process ==
  \/ OpenRuntime
  \/ Close
  \/ \E s \in Sessions : SweepSession(s)
  \/ CloseStore
  \/ Crash

Next == Process \/ \E s \in Sessions : Command(s) \/ Execution(s)

Spec == Init /\ [][Next]_vars

\* What runs by itself: timers fire, an aborted executor observes its signal, a
\* provider call returns, and promise callbacks run.
ObserveAbort(s) == task[s].reason # "none" /\ FailTurn(s)

Fairness ==
  /\ \A s \in Sessions :
       /\ WF_vars(Timeout(s))
       /\ WF_vars(ObserveAbort(s))
       /\ WF_vars(FinishTurn(s))
       /\ WF_vars(CleanupTask(s))
       /\ WF_vars(EndTask(s))
       /\ WF_vars(SweepSession(s))
  /\ WF_vars(CloseStore)

FairSpec == Spec /\ Fairness
-----------------------------------------------------------------------------
(* Properties.                                                             *)
Unsettled(t) == status[t] = "running" \/ Interrupted(t)

\* While a process is up, every running turn is being executed by the session that
\* owns it, and a session executes only its newest turn: nothing runs unobserved
\* after a recovery, a resume or a close, and nothing runs twice.
OneOwner ==
  /\ up # "down" => \A t \in Turns : status[t] = "running" => task[owner[t]].turn = t
  /\ \A s \in Sessions : Active(s) =>
       /\ HasTurns(s) /\ task[s].turn = LastTurn(s) /\ owner[task[s].turn] = s
       /\ task[s].phase \in {"executing", "settled"} <=> status[task[s].turn] = "running"

\* "An interrupted turn cannot be forked or superseded before explicit recovery":
\* a turn that runs or may run again is the newest of the session that owns it and
\* is in no branch, so what a branch shares is settled for good.
OnlyNewestUnsettled ==
  \A s \in Sessions : \A i \in DOMAIN turnIds[s] :
    Unsettled(turnIds[s][i]) => owner[turnIds[s][i]] = s /\ i = Len(turnIds[s])

\* A settled turn never changes again, whatever its sessions and branches do: the
\* only way out of a terminal status is the resumption of an interrupted turn.
SettledIsFrozen ==
  [][\A t \in Turns : IsTerminal(t) /\ ~Interrupted(t)
       => UNCHANGED <<status[t], error[t], owner[t], log[t]>>]_vars

\* "Ancestors cannot disappear": the Pi result of every settled turn of a session,
\* inherited turns included, can be found by walking up from that session.
AncestorsPersist ==
  \A s \in Sessions : session[s] = "stored" =>
    \A i \in DOMAIN turnIds[s] :
      verdict[turnIds[s][i]] # "none" => ResultFound(s, turnIds[s][i])

\* "A cancel or timer landing after Pi settled the turn must not reclassify it", and
\* a stop or a timer that came before a shutdown is not turned into an interruption.
AbortClassifies ==
  [][\A s \in Sessions :
       LET k == task[s] IN
       k.phase \in {"executing", "settled"} /\ task'[s].phase \in {"cleaning", "ending"} =>
         /\ k.outcome = "completed" => status'[k.turn] = "completed"
         /\ k.outcome # "completed" /\ k.reason # "none" =>
              status'[k.turn] = StatusOf(k.reason)
         /\ error'[k.turn] = "runtime_interrupted" =>
              k.reason = "runtime_interrupted" /\ task'[s].phase = "ending"]_vars

\* The handle of a sandbox that an interrupted turn may reattach to is never
\* dropped: not by a close, a crash, or the cleanup of an abort.
SandboxKeptForResume ==
  [][\A s \in Sessions : sandbox[s] /\ ~sandbox'[s] => ~Interrupted(LastTurn(s))]_vars

\* A close ends, whatever the tasks and the providers were doing.
CloseEnds == up = "closing" ~> up = "down"

\* Every execution ends, at the latest by its own timer, whatever was stopped or
\* failed on the way: its turn comes to rest and its session can be used again.
ExecutionsEnd == \A s \in Sessions : Active(s) ~> ~Active(s)
-----------------------------------------------------------------------------
(* What a product surface may rely on: SessionLedger.                      *)
PhaseOf(t) == IF status[t] = "none" THEN "new"
              ELSE IF status[t] = "running" THEN "open"
              ELSE IF Interrupted(t) THEN "interrupted" ELSE status[t]

Ledger == INSTANCE SessionLedger
            WITH history <- turnIds,
                 phase   <- [t \in Turns |-> PhaseOf(t)],
                 opened  <- {<<a.session, a.request, a.turn>> : a \in accepted}

\* Every behaviour of the runtime is one the ledger allows.
ImplementsLedger == Ledger!LedgerSpec
=============================================================================
