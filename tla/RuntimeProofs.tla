--------------------------- MODULE RuntimeProofs ---------------------------
(***************************************************************************)
(* Theorems about Runtime, for any sets of sessions, turns and requests,   *)
(* either engine and any number of process lifetimes.                      *)
(***************************************************************************)
EXTENDS Runtime, SequenceTheorems, TLAPS

-----------------------------------------------------------------------------
(* Facts about the helpers.                                                *)

\* Every result has its event.
LEMMA RunEventType == \A st \in Terminal : RunEvent[st] \in Lifecycle
  BY DEF RunEvent, Terminal, Lifecycle

\* A reason becomes a terminal status.
LEMMA StatusOfType == \A why \in Reasons : StatusOf(why) \in Terminal
  BY DEF StatusOf, Reasons, Terminal

\* The fields of a task that executes.
LEMMA TaskFields ==
  ASSUME NEW k \in Tasks, k.phase # "idle"
  PROVE  /\ k.turn \in Turns
         /\ k.phase \in {"executing", "settled", "cleaning", "ending"}
         /\ k.reason \in Reasons
         /\ k.outcome \in Outcomes
  BY DEF Tasks, NoTask

\* An abort changes nothing of a task but its reason.
LEMMA AbortTaskKeeps ==
  ASSUME NEW k \in Tasks, NEW why \in Reasons
  PROVE  /\ AbortTask(k, why) \in Tasks
         /\ AbortTask(k, why).turn = k.turn
         /\ AbortTask(k, why).phase = k.phase
         /\ AbortTask(k, why).outcome = k.outcome
  BY DEF AbortTask, Tasks, NoTask

\* A new task and an idle one are well-formed.
LEMMA FreshTasks == NoTask \in Tasks /\ \A t \in Turns : Launched(t) \in Tasks
  BY DEF NoTask, Launched, Tasks, Reasons, Outcomes

\* What `finish` writes is well-typed.
LEMMA RecordType ==
  ASSUME TypeOK, NEW t \in Turns, NEW st \in Terminal, NEW err \in Errors, Record(t, st, err)
  PROVE  /\ status' \in [Turns -> Statuses]
         /\ error' \in [Turns -> Errors]
         /\ log' \in [Turns -> Seq(Lifecycle)]
  <1>1. CASE IsTerminal(t)
    BY <1>1 DEF Record, TypeOK
  <1>2. CASE ~IsTerminal(t)
    <2>1. RunEvent[st] \in Lifecycle
      BY RunEventType
    <2>2. Append(log[t], RunEvent[st]) \in Seq(Lifecycle)
      BY <2>1, AppendProperties DEF TypeOK
    <2>3. log' \in [Turns -> Seq(Lifecycle)]
      BY <1>2, <2>2 DEF Record, TypeOK
    <2>4. status' \in [Turns -> Statuses] /\ error' \in [Turns -> Errors]
      BY <1>2 DEF Record, TypeOK, Statuses
    <2>5. QED BY <2>3, <2>4
  <1>3. QED BY <1>1, <1>2

\* A step of the session's execution moves its task to another phase.
LEMMA PhaseType ==
  ASSUME TypeOK, NEW s \in Sessions, Active(s),
         NEW p \in {"executing", "settled", "cleaning", "ending"}
  PROVE  [task EXCEPT ![s].phase = p] \in [Sessions -> Tasks]
  <1>1. task[s] \in Tasks \ {NoTask}
    BY DEF TypeOK, NoTask, Active
  <1>2. [task[s] EXCEPT !.phase = p] \in Tasks
    BY <1>1 DEF Tasks
  <1>3. QED BY <1>2 DEF TypeOK

\* What leaves `execute` is a task of the same turn, whatever its reason was.
LEMMA ExecutedType ==
  ASSUME TypeOK, NEW s \in Sessions, Active(s), NEW p \in {"cleaning", "ending"}
  PROVE  [task EXCEPT ![s] = Executed(task[s], p)] \in [Sessions -> Tasks]
  <1>1. task[s].turn \in Turns
    BY TaskFields DEF TypeOK, Active
  <1>2. Executed(task[s], p) \in Tasks
    BY <1>1 DEF Executed, Tasks, Reasons, Outcomes
  <1>3. QED BY <1>2 DEF TypeOK

-----------------------------------------------------------------------------
(* Type correctness.                                                       *)

\* Every step of the runtime preserves the types.
LEMMA TypeStep == TypeOK /\ [Next]_vars => TypeOK'
<1> SUFFICES ASSUME TypeOK, [Next]_vars
             PROVE  TypeOK'
  OBVIOUS
<1> USE DEF TypeOK
<1>1. CASE OpenRuntime
  <2>1. \A t \in Turns : Append(log[t], "run.interrupted") \in Seq(Lifecycle)
    BY AppendProperties DEF Lifecycle
  <2>2. opens' \in 0 .. MaxOpens
    BY <1>1, OpensAssumption DEF OpenRuntime
  <2>3. QED BY <1>1, <2>1, <2>2 DEF OpenRuntime, Orphans, Statuses, Errors, Terminal
<1>2. ASSUME NEW s \in Sessions, NEW named \in BOOLEAN, CreateSession(s, named)
      PROVE  TypeOK'
  BY <1>2 DEF CreateSession
<1>3. ASSUME NEW s \in Sessions, NEW named \in BOOLEAN, RenameSession(s, named)
      PROVE  TypeOK'
  BY <1>3 DEF RenameSession
<1>4. ASSUME NEW s \in Sessions, NEW r \in Requests, NEW t \in Turns, StartTurn(s, r, t)
      PROVE  TypeOK'
  <2>1. Append(log[t], "run.started") \in Seq(Lifecycle)
    BY AppendProperties DEF Lifecycle
  <2>2. Append(turnIds[s], t) \in Seq(Turns)
    BY AppendProperties
  <2>3. task' \in [Sessions -> Tasks]
    BY <1>4, FreshTasks DEF StartTurn
  <2>4. QED BY <1>4, <2>1, <2>2, <2>3 DEF StartTurn, Statuses
<1>5. ASSUME NEW s \in Sessions, ResumeTurn(s)
      PROVE  TypeOK'
  <2> DEFINE t == LastTurn(s)
  <2>1. t \in Turns
    BY <1>5 DEF ResumeTurn, MayResume, HasTurns, LastTurn
  <2>2. Append(log[t], "run.resumed") \in Seq(Lifecycle)
    BY <2>1, AppendProperties DEF Lifecycle
  <2>3. task' \in [Sessions -> Tasks]
    BY <1>5, <2>1, FreshTasks DEF ResumeTurn
  <2>4. QED BY <1>5, <2>1, <2>2, <2>3 DEF ResumeTurn, Statuses, Errors
<1>6. ASSUME NEW s \in Sessions, NEW b \in Sessions, NEW n \in DOMAIN turnIds[s],
             ForkSession(s, b, n)
      PROVE  TypeOK'
  <2>1. SubSeq(turnIds[s], 1, n) \in Seq(Turns)
    BY SubSeqProperties
  <2>2. QED BY <1>6, <2>1 DEF ForkSession, AddBranch
<1>7. ASSUME NEW s \in Sessions, NEW b \in Sessions, ForkEmptySession(s, b)
      PROVE  TypeOK'
  BY <1>7 DEF ForkEmptySession, AddBranch
<1>8. ASSUME NEW s \in Sessions, RecordSandbox(s)
      PROVE  TypeOK'
  BY <1>8 DEF RecordSandbox
<1>9. ASSUME NEW s \in Sessions, StopTurn(s) \/ Timeout(s)
      PROVE  TypeOK'
  <2>1. PICK why \in Reasons : Abort(s, why)
    BY <1>9 DEF StopTurn, Timeout, Reasons
  <2>2. AbortTask(task[s], why) \in Tasks
    BY AbortTaskKeeps
  <2>3. QED BY <2>1, <2>2 DEF Abort, store
<1>10. ASSUME NEW s \in Sessions, NEW o \in Outcomes \ {"none"},
              NEW returned \in Outcomes \ {"none"}, Settle(s, o, returned)
       PROVE  TypeOK'
  <2>1. [task[s] EXCEPT !.phase = "settled", !.outcome = returned] \in Tasks
    <3>1. task[s] \in Tasks \ {NoTask}
      BY <1>10 DEF Settle, NoTask
    <3>2. QED BY <3>1 DEF Tasks
  <2>2. task' \in [Sessions -> Tasks]
    BY <1>10, <2>1 DEF Settle
  <2>3. verdict' \in [Turns -> Outcomes]
    BY <1>10 DEF Settle
  <2>4. QED BY <1>10, <2>2, <2>3 DEF Settle
<1>11. ASSUME NEW s \in Sessions, FailTurn(s)
       PROVE  TypeOK'
  <2> DEFINE t == task[s].turn
  <2>1. t \in Turns /\ task[s].reason \in Reasons /\ Active(s)
    BY <1>11, TaskFields DEF FailTurn, Active
  <2>2. PICK st \in Terminal, err \in Errors : Record(t, st, err)
    <3>1. CASE task[s].reason # "none"
      BY <1>11, <2>1, <3>1, StatusOfType DEF FailTurn, Reasons, Errors
    <3>2. CASE task[s].reason = "none"
      BY <1>11, <2>1, <3>2 DEF FailTurn, Terminal, Errors
    <3>3. QED BY <3>1, <3>2
  <2>3. /\ status' \in [Turns -> Statuses]
        /\ error' \in [Turns -> Errors]
        /\ log' \in [Turns -> Seq(Lifecycle)]
    BY <2>1, <2>2, RecordType
  <2>4. task' \in [Sessions -> Tasks]
    BY <1>11, <2>1, ExecutedType DEF FailTurn, LeaveExecute
  <2>5. QED BY <1>11, <2>3, <2>4 DEF FailTurn
<1>12. ASSUME NEW s \in Sessions, FinishTurn(s)
       PROVE  TypeOK'
  <2> DEFINE t == task[s].turn
  <2>1. t \in Turns /\ task[s].reason \in Reasons /\ Active(s)
    BY <1>12, TaskFields DEF FinishTurn, Active
  <2>2. PICK st \in Terminal, err \in Errors : Record(t, st, err)
    <3>1. CASE GivesWay(task[s])
      BY <1>12, <2>1, <3>1, StatusOfType DEF FinishTurn, Reasons, Errors
    <3>2. CASE ~GivesWay(task[s])
      BY <1>12, <2>1, <3>2 DEF FinishTurn, Terminal, Errors
    <3>3. QED BY <3>1, <3>2
  <2>3. /\ status' \in [Turns -> Statuses]
        /\ error' \in [Turns -> Errors]
        /\ log' \in [Turns -> Seq(Lifecycle)]
    BY <2>1, <2>2, RecordType
  <2>4. task' \in [Sessions -> Tasks]
    BY <1>12, <2>1, ExecutedType DEF FinishTurn, LeaveExecute
  <2>5. QED BY <1>12, <2>3, <2>4 DEF FinishTurn
<1>13. ASSUME NEW s \in Sessions, CleanupTask(s)
       PROVE  TypeOK'
  <2>1. task' \in [Sessions -> Tasks]
    BY <1>13, PhaseType DEF CleanupTask, Active
  <2>2. QED BY <1>13, <2>1 DEF CleanupTask, DeletesSandbox
<1>14. ASSUME NEW s \in Sessions, EndTask(s)
       PROVE  TypeOK'
  BY <1>14, FreshTasks DEF EndTask, store
<1>15. CASE Close
  <2>1. task' \in [Sessions -> Tasks]
    BY <1>15, AbortTaskKeeps DEF Close, Reasons
  <2>2. QED BY <1>15, <2>1 DEF Close, store
<1>16. ASSUME NEW s \in Sessions, SweepSession(s)
       PROVE  TypeOK'
  BY <1>16 DEF SweepSession, DeletesSandbox
<1>17. CASE CloseStore
  BY <1>17 DEF CloseStore, store
<1>18. CASE Crash
  BY <1>18, FreshTasks DEF Crash, store
<1>19. CASE UNCHANGED vars
  BY <1>19 DEF vars, store
<1>20. QED
  BY <1>1, <1>2, <1>3, <1>4, <1>5, <1>6, <1>7, <1>8, <1>9, <1>10, <1>11, <1>12, <1>13,
     <1>14, <1>15, <1>16, <1>17, <1>18, <1>19
     DEF Next, Process, Command, Execution

\* Every variable keeps its type: in particular an entry of `active` names a turn
\* and a sequence of inherited turns holds turns only.
THEOREM Typing == Spec => []TypeOK
<1>1. Init => TypeOK
  BY OpensAssumption DEF Init, TypeOK, NoTask, Tasks, Statuses, Errors, Outcomes, Reasons
<1>2. QED BY <1>1, TypeStep, PTL DEF Spec
-----------------------------------------------------------------------------
(* Ownership.  OneOwner and OnlyNewestUnsettled are not inductive alone:   *)
(* that a fresh turn is in no history, that a session without a row has    *)
(* neither turns nor a task, and that a dead process executes nothing is   *)
(* what carries them over a start, a branch and a restart.                 *)

\* A turn without a row is in no history, names no error and no acceptance; a
\* session without a row has no turns and executes none.
RowsFirst ==
  /\ \A s \in Sessions : \A i \in DOMAIN turnIds[s] : status[turnIds[s][i]] # "none"
  /\ \A t \in Turns : status[t] = "none" => error[t] = "none"
  /\ \A s \in Sessions : session[s] = "absent" => ~HasTurns(s) /\ ~Active(s)

\* Only a failed turn is interrupted, and only a turn with a row has an owner to run it.
ErrorsFit ==
  /\ \A t \in Turns : Interrupted(t) => status[t] = "failed"
  /\ \A t \in Turns : status[t] # "none" => owner[t] \in Sessions

DeadIsIdle == up = "down" => Idle

Ownership == TypeOK /\ RowsFirst /\ ErrorsFit /\ DeadIsIdle /\ OneOwner /\ OnlyNewestUnsettled

Live(k) == k.phase \in {"executing", "settled"}

\* An idle entry is the empty one, which names no turn.
LEMMA IdleTask ==
  ASSUME TypeOK, NEW s \in Sessions
  PROVE  /\ ~Active(s) => task[s] = NoTask
         /\ task[s].turn \in Turns <=> Active(s)
  <1>1. CASE task[s] = NoTask
    BY <1>1, NoneAssumption DEF NoTask, Active
  <1>2. CASE task[s] # NoTask
    <2>1. task[s] \in Tasks \ {NoTask}
      BY <1>2 DEF TypeOK
    <2>2. task[s].turn \in Turns /\ task[s].phase # "idle"
      BY <2>1 DEF Tasks
    <2>3. QED BY <2>2 DEF Active
  <1>3. QED BY <1>1, <1>2

\* A live task executes the newest turn of its session, which is running and owned.
LEMMA LiveTask ==
  ASSUME Ownership, NEW s \in Sessions, Live(task[s])
  PROVE  /\ Active(s)
         /\ task[s].turn \in Turns
         /\ status[task[s].turn] = "running"
         /\ owner[task[s].turn] = s
         /\ HasTurns(s)
         /\ task[s].turn = LastTurn(s)
  BY IdleTask DEF Ownership, Live, Active, OneOwner

\* A step that leaves turns and histories alone and at most moves, releases or (in
\* dying) drops tasks keeps ownership.
LEMMA QuietStep ==
  ASSUME Ownership, TypeOK',
         UNCHANGED <<turnIds, status, error, owner>>,
         \A s \in Sessions : session'[s] = "absent" => session[s] = "absent",
         \A s \in Sessions :
           \/ task'[s] = NoTask /\ (Live(task[s]) => up' = "down")
           \/ /\ task'[s].turn = task[s].turn
              /\ Live(task'[s]) <=> Live(task[s])
              /\ task'[s].phase = "idle" <=> task[s].phase = "idle",
         up' = "down" => \A s \in Sessions : task'[s] = NoTask,
         up' # "down" => up # "down"
  PROVE  Ownership'
<1>1. RowsFirst'
  BY DEF Ownership, RowsFirst, HasTurns, Active, NoTask
<1>2. ErrorsFit'
  BY DEF Ownership, ErrorsFit, Interrupted
<1>3. DeadIsIdle'
  BY DEF DeadIsIdle, Idle, Active, NoTask
<1>4. OnlyNewestUnsettled'
  BY DEF Ownership, OnlyNewestUnsettled, Unsettled, Interrupted
<1>5. OneOwner'
  <2>1. ASSUME NEW t \in Turns, status'[t] = "running", up' # "down"
        PROVE  task'[owner'[t]].turn = t
    <3> DEFINE s == owner[t]
    <3>1. s \in Sessions /\ task[s].turn = t
      BY <2>1 DEF Ownership, ErrorsFit, OneOwner
    <3>2. Live(task[s])
      BY <2>1, <3>1, IdleTask DEF Ownership, OneOwner, Live
    <3>3. QED BY <2>1, <3>1, <3>2
  <2>2. ASSUME NEW s \in Sessions, Active(s)'
        PROVE  /\ HasTurns(s)' /\ task'[s].turn = LastTurn(s)' /\ owner'[task'[s].turn] = s
               /\ Live(task'[s]) <=> status'[task'[s].turn] = "running"
    <3>1. /\ task'[s].turn = task[s].turn
          /\ Live(task'[s]) <=> Live(task[s])
          /\ Active(s)
      BY <2>2 DEF Active, NoTask
    <3>2. QED BY <3>1 DEF Ownership, OneOwner, HasTurns, LastTurn, Live
  <2>3. QED BY <2>1, <2>2 DEF OneOwner, Live
<1>6. QED BY <1>1, <1>2, <1>3, <1>4, <1>5 DEF Ownership

\* Ending the turn of a live task, whatever its result, keeps ownership.
LEMMA EndedStep ==
  ASSUME Ownership, TypeOK', NEW s \in Sessions, Live(task[s]),
         NEW st \in Terminal, NEW err \in Errors, NEW p \in {"cleaning", "ending"},
         err = "runtime_interrupted" => st = "failed",
         status' = [status EXCEPT ![task[s].turn] = st],
         error' = [error EXCEPT ![task[s].turn] = err],
         task' = [task EXCEPT ![s] = Executed(task[s], p)],
         UNCHANGED <<session, turnIds, owner, up>>
  PROVE  Ownership'
<1> DEFINE t == task[s].turn
<1>1. /\ t \in Turns /\ status[t] = "running" /\ owner[t] = s
      /\ HasTurns(s) /\ t = LastTurn(s) /\ Active(s)
  BY LiveTask
<1>2. /\ task'[s].turn = t /\ task'[s].phase = p
      /\ \A u \in Sessions \ {s} : task'[u] = task[u]
  BY DEF Ownership, TypeOK, Executed
<1>3. /\ status'[t] = st /\ error'[t] = err /\ st \notin {"none", "running"}
      /\ \A u \in Turns \ {t} : status'[u] = status[u] /\ error'[u] = error[u]
  BY <1>1 DEF Ownership, TypeOK, Terminal
<1>4. RowsFirst'
  <2>1. \A u \in Sessions : \A i \in DOMAIN turnIds[u] : turnIds[u][i] \in Turns
    BY DEF Ownership, TypeOK
  <2>2. \A u \in Sessions : session[u] = "absent" => ~HasTurns(u)' /\ ~Active(u)'
    BY <1>1, <1>2 DEF Ownership, RowsFirst, HasTurns, Active
  <2>3. QED BY <1>1, <1>3, <2>1, <2>2 DEF Ownership, RowsFirst
<1>5. ErrorsFit'
  BY <1>1, <1>3 DEF Ownership, ErrorsFit, Interrupted
<1>6. DeadIsIdle'
  BY <1>1 DEF Ownership, DeadIsIdle, Idle
<1>7. OnlyNewestUnsettled'
  <2>1. \A u \in Turns : Unsettled(u)' => Unsettled(u)
    BY <1>1, <1>3 DEF Unsettled, Interrupted
  <2>2. \A u \in Sessions : \A i \in DOMAIN turnIds[u] : turnIds[u][i] \in Turns
    BY DEF Ownership, TypeOK
  <2>3. QED BY <2>1, <2>2 DEF Ownership, OnlyNewestUnsettled
<1>8. OneOwner'
  <2>1. ASSUME NEW u \in Turns, status'[u] = "running", up' # "down"
        PROVE  task'[owner'[u]].turn = u
    <3>1. u # t /\ status[u] = "running"
      BY <1>3, <2>1
    <3>2. owner[u] \in Sessions /\ task[owner[u]].turn = u
      BY <2>1, <3>1 DEF Ownership, ErrorsFit, OneOwner
    <3>3. QED BY <1>2, <3>1, <3>2
  <2>2. ASSUME NEW u \in Sessions, Active(u)'
        PROVE  /\ HasTurns(u)' /\ task'[u].turn = LastTurn(u)' /\ owner'[task'[u].turn] = u
               /\ Live(task'[u]) <=> status'[task'[u].turn] = "running"
    <3>1. CASE u = s
      BY <1>1, <1>2, <1>3, <3>1 DEF HasTurns, LastTurn, Live
    <3>2. CASE u # s
      <4>1. task'[u] = task[u] /\ Active(u)
        BY <1>2, <2>2, <3>2 DEF Active
      <4>2. /\ HasTurns(u) /\ task[u].turn = LastTurn(u) /\ owner[task[u].turn] = u
            /\ Live(task[u]) <=> status[task[u].turn] = "running"
        BY <4>1 DEF Ownership, OneOwner, Live
      <4>3. task[u].turn \in Turns \ {t}
        BY <1>1, <3>2, <4>1, <4>2, IdleTask DEF Ownership
      <4>4. QED BY <1>3, <4>1, <4>2, <4>3 DEF HasTurns, LastTurn
    <3>3. QED BY <3>1, <3>2
  <2>3. QED BY <2>1, <2>2 DEF OneOwner, Live
<1>9. QED BY <1>4, <1>5, <1>6, <1>7, <1>8 DEF Ownership

\* A branch of turns that have rows and are settled keeps ownership.
LEMMA BranchStep ==
  ASSUME Ownership, TypeOK', NEW s \in Sessions, NEW b \in Sessions, NEW ids \in Seq(Turns),
         AddBranch(s, b, ids),
         \A i \in DOMAIN ids : status[ids[i]] # "none" /\ ~Unsettled(ids[i])
  PROVE  Ownership'
<1>1. /\ turnIds'[b] = ids /\ session'[b] = "stored" /\ ~Active(b)
      /\ \A u \in Sessions \ {b} : turnIds'[u] = turnIds[u] /\ session'[u] = session[u]
      /\ UNCHANGED <<status, error, owner, task, up>>
  BY DEF AddBranch, Ownership, TypeOK, RowsFirst
<1>2. RowsFirst'
  <2>1. \A u \in Sessions : \A i \in DOMAIN turnIds'[u] : status'[turnIds'[u][i]] # "none"
    BY <1>1 DEF Ownership, RowsFirst
  <2>2. \A u \in Sessions : session'[u] = "absent" => ~HasTurns(u)' /\ ~Active(u)'
    BY <1>1 DEF Ownership, RowsFirst, HasTurns, Active
  <2>3. QED BY <1>1, <2>1, <2>2 DEF Ownership, RowsFirst
<1>3. ErrorsFit'
  BY <1>1 DEF Ownership, ErrorsFit, Interrupted
<1>4. DeadIsIdle'
  BY <1>1 DEF Ownership, DeadIsIdle, Idle, Active
<1>5. OnlyNewestUnsettled'
  BY <1>1 DEF Ownership, OnlyNewestUnsettled, Unsettled, Interrupted
<1>6. OneOwner'
  <2>1. \A u \in Turns : status'[u] = "running" /\ up' # "down" => task'[owner'[u]].turn = u
    BY <1>1 DEF Ownership, OneOwner
  <2>2. ASSUME NEW u \in Sessions, Active(u)'
        PROVE  /\ HasTurns(u)' /\ task'[u].turn = LastTurn(u)' /\ owner'[task'[u].turn] = u
               /\ Live(task'[u]) <=> status'[task'[u].turn] = "running"
    <3>1. u # b /\ Active(u)
      BY <1>1, <2>2 DEF Active
    <3>2. QED BY <1>1, <3>1 DEF Ownership, OneOwner, HasTurns, LastTurn, Live
  <2>3. QED BY <2>1, <2>2 DEF OneOwner, Live
<1>7. QED BY <1>2, <1>3, <1>4, <1>5, <1>6 DEF Ownership

\* Every step of the runtime keeps ownership.
LEMMA OwnershipStep == Ownership /\ [Next]_vars => Ownership'
<1> SUFFICES ASSUME Ownership, [Next]_vars
             PROVE  Ownership'
  OBVIOUS
<1>0. TypeOK /\ TypeOK'
  BY TypeStep DEF Ownership
<1>1. CASE OpenRuntime
  <2>1. \A t \in Turns : Unsettled(t)' => Unsettled(t)
    BY <1>0, <1>1 DEF OpenRuntime, Orphans, Unsettled, Interrupted, TypeOK
  <2>2. \A t \in Turns : status'[t] # "running" /\ (status'[t] = "none" <=> status[t] = "none")
    BY <1>0, <1>1 DEF OpenRuntime, Orphans, TypeOK
  <2>3. \A s \in Sessions : ~Active(s)'
    BY <1>1 DEF OpenRuntime, Ownership, DeadIsIdle, Idle, Active
  <2>4. \A s \in Sessions : \A i \in DOMAIN turnIds[s] : turnIds[s][i] \in Turns
    BY <1>0 DEF TypeOK
  <2>5. RowsFirst'
    <3>1. \A t \in Turns : status'[t] = "none" => error'[t] = "none"
      BY <1>0, <1>1 DEF OpenRuntime, Orphans, Ownership, RowsFirst, TypeOK
    <3>2. QED BY <1>1, <2>2, <2>3, <2>4, <3>1 DEF OpenRuntime, Ownership, RowsFirst, HasTurns
  <2>6. ErrorsFit'
    BY <1>0, <1>1, <2>2 DEF OpenRuntime, Orphans, Ownership, ErrorsFit, Interrupted, TypeOK
  <2>7. OneOwner'
    BY <2>2, <2>3 DEF OneOwner
  <2>8. OnlyNewestUnsettled'
    BY <1>1, <2>1, <2>4 DEF OpenRuntime, Ownership, OnlyNewestUnsettled
  <2>9. DeadIsIdle'
    BY <2>3 DEF DeadIsIdle, Idle
  <2>10. QED BY <1>0, <2>5, <2>6, <2>7, <2>8, <2>9 DEF Ownership
<1>2. ASSUME NEW s \in Sessions, NEW named \in BOOLEAN, CreateSession(s, named)
      PROVE  Ownership'
  <2>1. \A u \in Sessions : session'[u] = "absent" => session[u] = "absent"
    BY <1>0, <1>2 DEF CreateSession, TypeOK
  <2>2. QED BY <1>0, <1>2, <2>1, QuietStep DEF CreateSession
<1>3. ASSUME NEW s \in Sessions, NEW named \in BOOLEAN, RenameSession(s, named)
      PROVE  Ownership'
  BY <1>0, <1>3, QuietStep DEF RenameSession
<1>4. ASSUME NEW s \in Sessions, NEW r \in Requests, NEW t \in Turns, StartTurn(s, r, t)
      PROVE  Ownership'
  <2>1. /\ status[t] = "none" /\ error[t] = "none"
        /\ \A u \in Sessions : \A i \in DOMAIN turnIds[u] :
             turnIds[u][i] \in Turns \ {t}
    BY <1>0, <1>4 DEF StartTurn, Ownership, RowsFirst, TypeOK
  <2>2. /\ status'[t] = "running" /\ owner'[t] = s
        /\ \A u \in Turns \ {t} : status'[u] = status[u] /\ owner'[u] = owner[u]
        /\ UNCHANGED error
    BY <1>0, <1>4 DEF StartTurn, TypeOK
  <2>3. /\ task'[s] = Launched(t)
        /\ \A u \in Sessions \ {s} : task'[u] = task[u]
    BY <1>0, <1>4 DEF StartTurn, TypeOK
  <2>4. /\ turnIds'[s] = Append(turnIds[s], t)
        /\ \A u \in Sessions \ {s} : turnIds'[u] = turnIds[u]
    BY <1>0, <1>4 DEF StartTurn, TypeOK
  <2>5. /\ Len(turnIds'[s]) = Len(turnIds[s]) + 1
        /\ DOMAIN turnIds'[s] = 1 .. Len(turnIds[s]) + 1
        /\ \A i \in DOMAIN turnIds[s] : turnIds'[s][i] = turnIds[s][i]
        /\ turnIds'[s][Len(turnIds[s]) + 1] = t
        /\ DOMAIN turnIds[s] = 1 .. Len(turnIds[s]) /\ Len(turnIds[s]) \in Nat
    <3>1. turnIds[s] \in Seq(Turns) /\ turnIds'[s] \in Seq(Turns)
      BY <1>0 DEF TypeOK
    <3>2. /\ Len(turnIds'[s]) = Len(turnIds[s]) + 1
          /\ \A i \in 1 .. Len(turnIds[s]) : turnIds'[s][i] = turnIds[s][i]
          /\ turnIds'[s][Len(turnIds[s]) + 1] = t
      BY <2>4, <3>1, AppendProperties
    <3>3. /\ DOMAIN turnIds[s] = 1 .. Len(turnIds[s]) /\ Len(turnIds[s]) \in Nat
          /\ DOMAIN turnIds'[s] = 1 .. Len(turnIds'[s])
      BY <3>1, LenProperties
    <3>4. QED BY <3>2, <3>3
  <2>6. RowsFirst'
    <3>1. \A u \in Sessions : \A i \in DOMAIN turnIds'[u] : status'[turnIds'[u][i]] # "none"
      BY <2>1, <2>2, <2>4, <2>5 DEF Ownership, RowsFirst
    <3>2. \A u \in Turns : status'[u] = "none" => error'[u] = "none"
      BY <2>2 DEF Ownership, RowsFirst
    <3>3. \A u \in Sessions : session'[u] = "absent" => ~HasTurns(u)' /\ ~Active(u)'
      BY <1>4, <2>3, <2>4 DEF StartTurn, Ownership, RowsFirst, HasTurns, Active
    <3>4. QED BY <3>1, <3>2, <3>3 DEF RowsFirst
  <2>7. ErrorsFit'
    BY <2>1, <2>2 DEF Ownership, ErrorsFit, Interrupted
  <2>8. DeadIsIdle'
    BY <1>4 DEF StartTurn, DeadIsIdle
  <2>9. OnlyNewestUnsettled'
    <3>1. \A u \in Turns \ {t} : Unsettled(u)' <=> Unsettled(u)
      BY <2>2 DEF Unsettled, Interrupted
    <3>2. ASSUME NEW i \in DOMAIN turnIds[s]
          PROVE  ~Unsettled(turnIds[s][i])
      <4>1. i # Len(turnIds[s]) => ~Unsettled(turnIds[s][i])
        BY DEF Ownership, OnlyNewestUnsettled
      <4>2. HasTurns(s)
        BY <2>5, <3>2, EmptySeq DEF HasTurns
      <4>3. ~Unsettled(LastTurn(s))
        BY <1>4, <4>2 DEF StartTurn, MayFollow, IsTerminal, Terminal, Unsettled
      <4>4. QED BY <4>1, <4>3 DEF LastTurn
    <3>3. ASSUME NEW u \in Sessions, NEW i \in DOMAIN turnIds'[u], Unsettled(turnIds[u][i])'
          PROVE  owner'[turnIds'[u][i]] = u /\ i = Len(turnIds'[u])
      <4>1. CASE u = s
        BY <2>1, <2>2, <2>5, <3>1, <3>2, <3>3, <4>1
      <4>2. CASE u # s
        BY <2>1, <2>2, <2>4, <3>1, <3>3, <4>2 DEF Ownership, OnlyNewestUnsettled
      <4>3. QED BY <4>1, <4>2
    <3>4. QED BY <3>3 DEF OnlyNewestUnsettled
  <2>10. OneOwner'
    <3>1. ASSUME NEW u \in Turns, status'[u] = "running", up' # "down"
          PROVE  task'[owner'[u]].turn = u
      <4>1. CASE u = t
        BY <2>2, <2>3, <4>1 DEF Launched
      <4>2. CASE u # t
        <5>1. owner[u] \in Sessions /\ task[owner[u]].turn = u
          BY <1>4, <2>2, <3>1, <4>2 DEF StartTurn, Ownership, ErrorsFit, OneOwner
        <5>2. owner[u] # s
          BY <1>0, <1>4, <5>1, IdleTask DEF StartTurn
        <5>3. QED BY <2>2, <2>3, <4>2, <5>1, <5>2
      <4>3. QED BY <4>1, <4>2
    <3>2. ASSUME NEW u \in Sessions, Active(u)'
          PROVE  /\ HasTurns(u)' /\ task'[u].turn = LastTurn(u)' /\ owner'[task'[u].turn] = u
                 /\ Live(task'[u]) <=> status'[task'[u].turn] = "running"
      <4>1. CASE u = s
        <5>1. HasTurns(s)' /\ LastTurn(s)' = t
          BY <2>5 DEF HasTurns, LastTurn
        <5>2. QED BY <2>2, <2>3, <4>1, <5>1 DEF Launched, Live
      <4>2. CASE u # s
        <5>1. task'[u] = task[u] /\ Active(u)
          BY <2>3, <3>2, <4>2 DEF Active
        <5>2. /\ HasTurns(u) /\ task[u].turn = LastTurn(u) /\ owner[task[u].turn] = u
              /\ Live(task[u]) <=> status[task[u].turn] = "running"
          BY <5>1 DEF Ownership, OneOwner, Live
        <5>3. task[u].turn \in Turns \ {t}
          <6>1. task[u].turn \in Turns
            BY <1>0, <5>1, IdleTask
          <6>2. turnIds[u] \in Seq(Turns) /\ turnIds[u] # <<>>
            BY <1>0, <5>2 DEF TypeOK, HasTurns
          <6>3. Len(turnIds[u]) \in DOMAIN turnIds[u]
            BY <6>2, EmptySeq, LenProperties
          <6>4. task[u].turn # t
            BY <2>1, <5>2, <6>3 DEF LastTurn
          <6>5. QED BY <6>1, <6>4
        <5>4. QED BY <2>2, <2>4, <4>2, <5>1, <5>2, <5>3 DEF HasTurns, LastTurn
      <4>3. QED BY <4>1, <4>2
    <3>3. QED BY <3>1, <3>2 DEF OneOwner, Live
  <2>11. QED BY <1>0, <2>6, <2>7, <2>8, <2>9, <2>10 DEF Ownership
<1>5. ASSUME NEW s \in Sessions, ResumeTurn(s)
      PROVE  Ownership'
  <2> DEFINE t == LastTurn(s)
  <2>1. /\ HasTurns(s) /\ owner[t] = s /\ Interrupted(t) /\ ~Active(s) /\ up = "open"
        /\ t \in Turns /\ session[s] = "stored"
    BY <1>0, <1>5 DEF ResumeTurn, MayResume, HasTurns, LastTurn, TypeOK
  <2>2. /\ status'[t] = "running" /\ error'[t] = "none"
        /\ \A u \in Turns \ {t} : status'[u] = status[u] /\ error'[u] = error[u]
        /\ UNCHANGED <<session, turnIds, owner, up>>
    BY <1>0, <1>5, <2>1 DEF ResumeTurn, TypeOK
  <2>3. /\ task'[s] = Launched(t)
        /\ \A u \in Sessions \ {s} : task'[u] = task[u]
    BY <1>0, <1>5 DEF ResumeTurn, TypeOK
  <2>4. \A u \in Sessions : \A i \in DOMAIN turnIds[u] : turnIds[u][i] \in Turns
    BY <1>0 DEF TypeOK
  <2>5. RowsFirst'
    <3>1. \A u \in Sessions : session[u] = "absent" => ~HasTurns(u)' /\ ~Active(u)'
      BY <2>1, <2>2, <2>3 DEF Ownership, RowsFirst, HasTurns, Active
    <3>2. QED BY <2>1, <2>2, <2>4, <3>1 DEF Ownership, RowsFirst
  <2>6. ErrorsFit'
    BY <2>1, <2>2 DEF Ownership, ErrorsFit, Interrupted
  <2>7. DeadIsIdle'
    BY <2>1, <2>2 DEF DeadIsIdle
  <2>8. OnlyNewestUnsettled'
    <3>1. \A u \in Turns : Unsettled(u)' => Unsettled(u)
      BY <2>1, <2>2 DEF Unsettled, Interrupted
    <3>2. QED BY <2>2, <2>4, <3>1 DEF Ownership, OnlyNewestUnsettled
  <2>9. OneOwner'
    <3>1. ASSUME NEW u \in Turns, status'[u] = "running", up' # "down"
          PROVE  task'[owner'[u]].turn = u
      <4>1. CASE u = t
        BY <2>1, <2>2, <2>3, <4>1 DEF Launched
      <4>2. CASE u # t
        <5>1. owner[u] \in Sessions /\ task[owner[u]].turn = u
          BY <2>1, <2>2, <3>1, <4>2 DEF Ownership, ErrorsFit, OneOwner
        <5>2. owner[u] # s
          BY <1>0, <2>1, <5>1, IdleTask
        <5>3. QED BY <2>2, <2>3, <5>1, <5>2
      <4>3. QED BY <4>1, <4>2
    <3>2. ASSUME NEW u \in Sessions, Active(u)'
          PROVE  /\ HasTurns(u)' /\ task'[u].turn = LastTurn(u)' /\ owner'[task'[u].turn] = u
                 /\ Live(task'[u]) <=> status'[task'[u].turn] = "running"
      <4>1. CASE u = s
        BY <2>1, <2>2, <2>3, <4>1 DEF Launched, Live, HasTurns, LastTurn
      <4>2. CASE u # s
        <5>1. task'[u] = task[u] /\ Active(u)
          BY <2>3, <3>2, <4>2 DEF Active
        <5>2. /\ HasTurns(u) /\ task[u].turn = LastTurn(u) /\ owner[task[u].turn] = u
              /\ Live(task[u]) <=> status[task[u].turn] = "running"
          BY <5>1 DEF Ownership, OneOwner, Live
        <5>3. task[u].turn \in Turns \ {t}
          BY <1>0, <2>1, <4>2, <5>1, <5>2, IdleTask
        <5>4. QED BY <2>2, <5>1, <5>2, <5>3 DEF HasTurns, LastTurn
      <4>3. QED BY <4>1, <4>2
    <3>3. QED BY <3>1, <3>2 DEF OneOwner, Live
  <2>10. QED BY <1>0, <2>5, <2>6, <2>7, <2>8, <2>9 DEF Ownership
<1>6. ASSUME NEW s \in Sessions, NEW b \in Sessions, NEW n \in DOMAIN turnIds[s],
             ForkSession(s, b, n)
      PROVE  Ownership'
  <2> DEFINE ids == SubSeq(turnIds[s], 1, n)
  <2>1. turnIds[s] \in Seq(Turns) /\ n \in 1 .. Len(turnIds[s])
    BY <1>0, LenProperties DEF TypeOK
  <2>2. /\ ids \in Seq(Turns) /\ DOMAIN ids = 1 .. n
        /\ \A i \in 1 .. n : ids[i] = turnIds[s][i]
    BY <2>1, SubSeqProperties, LenProperties
  <2>3. ASSUME NEW i \in DOMAIN ids
        PROVE  status[ids[i]] # "none" /\ ~Unsettled(ids[i])
    <3>1. ids[i] = turnIds[s][i] /\ i \in DOMAIN turnIds[s] /\ i \in 1 .. n
      BY <2>1, <2>2, LenProperties
    <3>2. CASE i = n
      BY <1>6, <3>1, <3>2 DEF ForkSession, MayBranchAt, IsTerminal, Terminal, Unsettled
    <3>3. CASE i # n
      BY <2>1, <3>1, <3>3 DEF Ownership, RowsFirst, OnlyNewestUnsettled
    <3>4. QED BY <3>2, <3>3
  <2>4. QED BY <1>0, <1>6, <2>2, <2>3, BranchStep DEF ForkSession
<1>7. ASSUME NEW s \in Sessions, NEW b \in Sessions, ForkEmptySession(s, b)
      PROVE  Ownership'
  <2>1. <<>> \in Seq(Turns) /\ DOMAIN << >> = {}
    OBVIOUS
  <2>2. QED BY <1>0, <1>7, <2>1, BranchStep DEF ForkEmptySession
<1>8. ASSUME NEW s \in Sessions, RecordSandbox(s)
      PROVE  Ownership'
  <2>1. up # "down"
    BY <1>8 DEF RecordSandbox, Ownership, DeadIsIdle, Idle, Active
  <2>2. QED BY <1>0, <1>8, <2>1, QuietStep DEF RecordSandbox
<1>9. ASSUME NEW s \in Sessions, StopTurn(s) \/ Timeout(s)
      PROVE  Ownership'
  <2>1. PICK why \in Reasons : Abort(s, why)
    BY <1>9 DEF StopTurn, Timeout, Reasons
  <2>2. /\ task' = [task EXCEPT ![s] = AbortTask(task[s], why)]
        /\ AbortTask(task[s], why).turn = task[s].turn
        /\ AbortTask(task[s], why).phase = task[s].phase
    BY <1>0, <2>1, AbortTaskKeeps DEF Abort, TypeOK
  <2>3. \A u \in Sessions : task'[u].turn = task[u].turn /\ task'[u].phase = task[u].phase
    BY <1>0, <2>2 DEF TypeOK
  <2>4. QED BY <1>0, <2>1, <2>3, QuietStep DEF Abort, store, Live
<1>10. ASSUME NEW s \in Sessions, NEW o \in Outcomes \ {"none"},
              NEW returned \in Outcomes \ {"none"}, Settle(s, o, returned)
       PROVE  Ownership'
  <2>1. task[s] \in Tasks \ {NoTask}
    BY <1>0, <1>10 DEF Settle, NoTask, TypeOK
  <2>2. /\ task'[s].turn = task[s].turn /\ task'[s].phase = "settled"
        /\ \A u \in Sessions \ {s} : task'[u] = task[u]
    BY <1>0, <1>10, <2>1 DEF Settle, TypeOK, Tasks
  <2>3. \A u \in Sessions :
          /\ task'[u].turn = task[u].turn
          /\ Live(task'[u]) <=> Live(task[u])
          /\ task'[u].phase = "idle" <=> task[u].phase = "idle"
    BY <1>10, <2>2 DEF Settle, Live
  <2>4. UNCHANGED <<turnIds, status, error, owner, session, up>> /\ up # "down"
    BY <1>10, <2>1 DEF Settle, Ownership, DeadIsIdle, Idle, Active
  <2>5. QED BY <1>0, <2>3, <2>4, QuietStep
<1>11. ASSUME NEW s \in Sessions, FailTurn(s)
       PROVE  Ownership'
  <2> DEFINE k == task[s]
  <2>1. Live(k) /\ k.turn \in Turns /\ k.reason \in Reasons /\ status[k.turn] = "running"
    BY <1>0, <1>11, LiveTask, TaskFields DEF FailTurn, Live, TypeOK
  <2>2. PICK st \in Terminal, err \in Errors :
          Record(k.turn, st, err) /\ (err = "runtime_interrupted" => st = "failed")
    <3>1. CASE k.reason # "none"
      BY <1>11, <2>1, <3>1, StatusOfType DEF FailTurn, Reasons, Errors, StatusOf
    <3>2. CASE k.reason = "none"
      BY <1>11, <2>1, <3>2 DEF FailTurn, Terminal, Errors
    <3>3. QED BY <3>1, <3>2
  <2>3. PICK p \in {"cleaning", "ending"} : task' = [task EXCEPT ![s] = Executed(k, p)]
    BY <1>11 DEF FailTurn, LeaveExecute
  <2>4. /\ status' = [status EXCEPT ![k.turn] = st]
        /\ error' = [error EXCEPT ![k.turn] = err]
    BY <2>1, <2>2 DEF Record, IsTerminal, Terminal
  <2>5. UNCHANGED <<session, turnIds, owner, up>>
    BY <1>11 DEF FailTurn
  <2>6. QED BY <1>0, <2>1, <2>2, <2>3, <2>4, <2>5, EndedStep
<1>12. ASSUME NEW s \in Sessions, FinishTurn(s)
       PROVE  Ownership'
  <2> DEFINE k == task[s]
  <2>1. Live(k) /\ k.turn \in Turns /\ k.reason \in Reasons /\ status[k.turn] = "running"
    BY <1>0, <1>12, LiveTask, TaskFields DEF FinishTurn, Live, TypeOK
  <2>2. PICK st \in Terminal, err \in Errors :
          Record(k.turn, st, err) /\ (err = "runtime_interrupted" => st = "failed")
    <3>1. CASE GivesWay(k)
      BY <1>12, <2>1, <3>1, StatusOfType DEF FinishTurn, Reasons, Errors, StatusOf
    <3>2. CASE ~GivesWay(k)
      BY <1>12, <2>1, <3>2 DEF FinishTurn, Terminal, Errors
    <3>3. QED BY <3>1, <3>2
  <2>3. PICK p \in {"cleaning", "ending"} : task' = [task EXCEPT ![s] = Executed(k, p)]
    BY <1>12 DEF FinishTurn, LeaveExecute
  <2>4. /\ status' = [status EXCEPT ![k.turn] = st]
        /\ error' = [error EXCEPT ![k.turn] = err]
    BY <2>1, <2>2 DEF Record, IsTerminal, Terminal
  <2>5. UNCHANGED <<session, turnIds, owner, up>>
    BY <1>12 DEF FinishTurn
  <2>6. QED BY <1>0, <2>1, <2>2, <2>3, <2>4, <2>5, EndedStep
<1>13. ASSUME NEW s \in Sessions, CleanupTask(s)
       PROVE  Ownership'
  <2>1. task[s] \in Tasks \ {NoTask}
    BY <1>0, <1>13 DEF CleanupTask, NoTask, TypeOK
  <2>2. /\ task'[s].turn = task[s].turn /\ task'[s].phase = "ending"
        /\ \A u \in Sessions \ {s} : task'[u] = task[u]
    BY <1>0, <1>13, <2>1 DEF CleanupTask, TypeOK, Tasks
  <2>3. \A u \in Sessions :
          /\ task'[u].turn = task[u].turn
          /\ Live(task'[u]) <=> Live(task[u])
          /\ task'[u].phase = "idle" <=> task[u].phase = "idle"
    BY <1>13, <2>2 DEF CleanupTask, Live
  <2>4. UNCHANGED <<turnIds, status, error, owner, session, up>> /\ up # "down"
    BY <1>13, <2>1 DEF CleanupTask, Ownership, DeadIsIdle, Idle, Active
  <2>5. QED BY <1>0, <2>3, <2>4, QuietStep
<1>14. ASSUME NEW s \in Sessions, EndTask(s)
       PROVE  Ownership'
  <2>1. /\ ~Live(task[s]) /\ Active(s) /\ task'[s] = NoTask
        /\ \A u \in Sessions \ {s} : task'[u] = task[u]
    BY <1>0, <1>14 DEF EndTask, Live, Active, TypeOK
  <2>2. UNCHANGED <<turnIds, status, error, owner, session, up>> /\ up # "down"
    BY <1>14, <2>1 DEF EndTask, store, Ownership, DeadIsIdle, Idle
  <2>3. QED BY <1>0, <2>1, <2>2, QuietStep
<1>15. CASE Close
  <2>1. \A u \in Sessions : task'[u].turn = task[u].turn /\ task'[u].phase = task[u].phase
    BY <1>0, <1>15, AbortTaskKeeps DEF Close, TypeOK, Reasons
  <2>2. QED BY <1>0, <1>15, <2>1, QuietStep DEF Close, store, Live
<1>16. ASSUME NEW s \in Sessions, SweepSession(s)
       PROVE  Ownership'
  <2>1. \A u \in Sessions : session'[u] = "absent" => session[u] = "absent"
    BY <1>0, <1>16 DEF SweepSession, TypeOK
  <2>2. QED BY <1>0, <1>16, <2>1, QuietStep DEF SweepSession
<1>17. CASE CloseStore
  <2>1. \A s \in Sessions : task'[s] = NoTask /\ ~Live(task[s])
    BY <1>0, <1>17, IdleTask DEF CloseStore, Idle, Active, Live
  <2>2. QED BY <1>0, <1>17, <2>1, QuietStep DEF CloseStore, store
<1>18. CASE Crash
  BY <1>0, <1>18, QuietStep DEF Crash, store
<1>19. CASE UNCHANGED vars
  <2>1. up = "down" => \A s \in Sessions : task[s] = NoTask
    BY <1>0, IdleTask DEF Ownership, DeadIsIdle, Idle
  <2>2. UNCHANGED <<turnIds, status, error, owner, session, up, task>>
    BY <1>19 DEF vars, store
  <2>3. QED BY <1>0, <2>1, <2>2, QuietStep
<1>20. QED
  BY <1>1, <1>2, <1>3, <1>4, <1>5, <1>6, <1>7, <1>8, <1>9, <1>10, <1>11, <1>12, <1>13,
     <1>14, <1>15, <1>16, <1>17, <1>18, <1>19
     DEF Next, Process, Command, Execution

\* The empty store and the idle process satisfy ownership.
LEMMA InitiallyOwned == Init => Ownership
<1> SUFFICES ASSUME Init
             PROVE  Ownership
  OBVIOUS
<1>1. TypeOK
  BY OpensAssumption DEF Init, TypeOK, NoTask, Tasks, Statuses, Errors, Outcomes, Reasons
<1>2. \A s \in Sessions : DOMAIN turnIds[s] = {} /\ ~HasTurns(s) /\ ~Active(s)
  <2> SUFFICES ASSUME NEW s \in Sessions
               PROVE  DOMAIN turnIds[s] = {} /\ ~HasTurns(s) /\ ~Active(s)
    OBVIOUS
  <2>1. turnIds[s] = <<>> /\ task[s] = NoTask
    BY DEF Init
  <2>2. DOMAIN turnIds[s] = {}
    BY <2>1
  <2>3. ~HasTurns(s)
    BY <2>1 DEF HasTurns
  <2>4. ~Active(s)
    BY <2>1 DEF Active, NoTask
  <2>5. QED BY <2>2, <2>3, <2>4
<1>3. QED BY <1>1, <1>2 DEF Init, Ownership, RowsFirst, ErrorsFit, DeadIsIdle, Idle, OneOwner,
                            OnlyNewestUnsettled, Interrupted

\* Ownership holds of every reachable state.
LEMMA Owned == Spec => []Ownership
  BY InitiallyOwned, OwnershipStep, PTL DEF Spec

\* While a process is up every running turn is executed by the one session that owns
\* it, as its newest turn, through starts, stops, resumes, crashes and restarts.
THEOREM ExecutionHasOneOwner == Spec => []OneOwner
  BY Owned, PTL DEF Ownership

\* What runs or may run again is never superseded in its session and never in a branch.
THEOREM InterruptedIsNewest == Spec => []OnlyNewestUnsettled
  BY Owned, PTL DEF Ownership
-----------------------------------------------------------------------------
(* What `finish` writes, and when.                                         *)

\* The end of an execution writes one result on the turn of the live task: it never
\* meets a turn that has already ended.
LEMMA EndWrites ==
  ASSUME Ownership, NEW s \in Sessions, FailTurn(s) \/ FinishTurn(s)
  PROVE  /\ task[s].turn \in Turns /\ status[task[s].turn] = "running"
         /\ \E st \in Terminal, err \in Errors :
              /\ err = "runtime_interrupted" => st = "failed"
              /\ status' = [status EXCEPT ![task[s].turn] = st]
              /\ error' = [error EXCEPT ![task[s].turn] = err]
              /\ log' = [log EXCEPT ![task[s].turn] = Append(@, RunEvent[st])]
         /\ UNCHANGED <<session, turnIds, owner, accepted>>
<1> DEFINE k == task[s]
<1>1. Live(k) /\ k.turn \in Turns /\ k.reason \in Reasons /\ status[k.turn] = "running"
  BY LiveTask, TaskFields DEF FailTurn, FinishTurn, Live, Ownership, TypeOK
<1>2. PICK st \in Terminal, err \in Errors :
        Record(k.turn, st, err) /\ (err = "runtime_interrupted" => st = "failed")
  <2>1. CASE FailTurn(s) /\ k.reason # "none"
    BY <1>1, <2>1, StatusOfType DEF FailTurn, Reasons, Errors, StatusOf
  <2>2. CASE FailTurn(s) /\ k.reason = "none"
    BY <1>1, <2>2 DEF FailTurn, Terminal, Errors
  <2>3. CASE FinishTurn(s) /\ GivesWay(k)
    <3>1. k.reason # "none"
      BY <2>3 DEF GivesWay
    <3>2. QED BY <1>1, <2>3, <3>1, StatusOfType DEF FinishTurn, Reasons, Errors, StatusOf
  <2>4. CASE FinishTurn(s) /\ ~GivesWay(k)
    BY <1>1, <2>4 DEF FinishTurn, Terminal, Errors
  <2>5. QED BY <2>1, <2>2, <2>3, <2>4
<1>3. UNCHANGED <<session, turnIds, owner, accepted>>
  BY DEF FailTurn, FinishTurn
<1>4. QED BY <1>1, <1>2, <1>3 DEF Record, IsTerminal, Terminal

\* Steps other than these five leave every turn as it is, and of those only a fork
\* changes a history.
LEMMA OtherSteps ==
  ASSUME [Next]_vars, ~OpenRuntime,
         \A s \in Sessions : ~ResumeTurn(s) /\ ~FailTurn(s) /\ ~FinishTurn(s),
         \A s \in Sessions, r \in Requests, t \in Turns : ~StartTurn(s, r, t)
  PROVE  /\ UNCHANGED <<status, error, owner, log, accepted>>
         /\ \/ UNCHANGED turnIds
            \/ \E s, b \in Sessions : \E n \in DOMAIN turnIds[s] : ForkSession(s, b, n)
            \/ \E s, b \in Sessions : ForkEmptySession(s, b)
<1>1. CASE \E s \in Sessions : \E named \in BOOLEAN :
             CreateSession(s, named) \/ RenameSession(s, named)
  BY <1>1 DEF CreateSession, RenameSession
<1>2. CASE \E s, b \in Sessions : \E n \in DOMAIN turnIds[s] : ForkSession(s, b, n)
  BY <1>2 DEF ForkSession, AddBranch
<1>3. CASE \E s, b \in Sessions : ForkEmptySession(s, b)
  BY <1>3 DEF ForkEmptySession, AddBranch
<1>4. CASE \E s \in Sessions : StopTurn(s) \/ Timeout(s)
  BY <1>4 DEF StopTurn, Timeout, Abort, store
<1>5. CASE \E s \in Sessions : RecordSandbox(s) \/ CleanupTask(s) \/ EndTask(s)
  BY <1>5 DEF RecordSandbox, CleanupTask, EndTask, store
<1>6. CASE \E s \in Sessions : \E o, returned \in Outcomes \ {"none"} : Settle(s, o, returned)
  BY <1>6 DEF Settle
<1>7. CASE Close \/ CloseStore \/ Crash \/ \E s \in Sessions : SweepSession(s)
  BY <1>7 DEF Close, CloseStore, Crash, SweepSession, store
<1>8. CASE UNCHANGED vars
  BY <1>8 DEF vars, store
<1>9. CASE Next
  BY <1>1, <1>2, <1>3, <1>4, <1>5, <1>6, <1>7, <1>9
     DEF Next, Process, Command, Execution
<1>10. QED BY <1>8, <1>9

\* A settled turn is out of reach of every step.
LEMMA FrozenStep ==
  ASSUME Ownership, [Next]_vars, NEW t \in Turns, IsTerminal(t), ~Interrupted(t)
  PROVE  UNCHANGED <<status[t], error[t], owner[t], log[t]>>
<1> USE DEF Ownership, TypeOK, IsTerminal, Terminal
<1>1. CASE OpenRuntime
  BY <1>1 DEF OpenRuntime, Orphans
<1>2. ASSUME NEW s \in Sessions, NEW r \in Requests, NEW u \in Turns, StartTurn(s, r, u)
      PROVE  UNCHANGED <<status[t], error[t], owner[t], log[t]>>
  BY <1>2 DEF StartTurn
<1>3. ASSUME NEW s \in Sessions, ResumeTurn(s)
      PROVE  UNCHANGED <<status[t], error[t], owner[t], log[t]>>
  BY <1>3 DEF ResumeTurn, MayResume
<1>4. ASSUME NEW s \in Sessions, FailTurn(s) \/ FinishTurn(s)
      PROVE  UNCHANGED <<status[t], error[t], owner[t], log[t]>>
  <2>1. t # task[s].turn /\ task[s].turn \in Turns
    BY <1>4, EndWrites
  <2>2. QED BY <1>4, <2>1, EndWrites
<1>5. QED BY <1>1, <1>2, <1>3, <1>4, OtherSteps

\* A settled turn never changes again: no later turn, branch, recovery, abort or
\* shutdown rewrites its status, error, owner or lifecycle events.
THEOREM SettledTurnsAreFrozen == Spec => SettledIsFrozen
<1>1. Ownership /\ [Next]_vars =>
        [\A t \in Turns : IsTerminal(t) /\ ~Interrupted(t)
           => UNCHANGED <<status[t], error[t], owner[t], log[t]>>]_vars
  BY FrozenStep
<1>2. QED BY <1>1, Owned, PTL DEF Spec, SettledIsFrozen
-----------------------------------------------------------------------------
(* What an end and a shutdown keep.  That AbortClassifies holds of a turn  *)
(* which fails takes that no outcome exists before it is settled;          *)
(* SandboxKeptForResume takes that only tasks which leave no interrupted   *)
(* turn clean up, and that a handle is recorded by a turn, so that the     *)
(* session which holds it has turns and is never deleted unseen.           *)
Kept ==
  /\ \A s \in Sessions : task[s].phase = "executing" => task[s].outcome = "none"
  /\ \A s \in Sessions : task[s].phase = "cleaning" => ~Interrupted(task[s].turn)
  /\ \A s \in Sessions : sandbox[s] => HasTurns(s)
  /\ \A s \in Sessions : HasTurns(s) => session[s] = "stored"

\* What the end of an execution writes, by outcome and reason; it cleans up only
\* where it does not leave the turn interrupted.
LEMMA EndClassifies ==
  ASSUME Ownership, Kept, NEW s \in Sessions, FailTurn(s) \/ FinishTurn(s)
  PROVE  LET k == task[s] IN
         /\ Live(k) /\ k.turn \in Turns
         /\ k.outcome = "completed" => status'[k.turn] = "completed"
         /\ k.outcome # "completed" /\ k.reason # "none" => status'[k.turn] = StatusOf(k.reason)
         /\ error'[k.turn] = "runtime_interrupted" =>
              k.reason = "runtime_interrupted" /\ task'[s].phase = "ending"
         /\ \E p \in {"cleaning", "ending"} : task' = [task EXCEPT ![s] = Executed(k, p)]
         /\ UNCHANGED <<session, turnIds, sandbox, parent, owner>>
<1> DEFINE k == task[s]
<1>1. /\ Live(k) /\ k.turn \in Turns /\ k.reason \in Reasons /\ k.outcome \in Outcomes
      /\ ~IsTerminal(k.turn) /\ s \in DOMAIN task /\ k.turn \in DOMAIN status
      /\ k.turn \in DOMAIN error
  BY LiveTask, TaskFields DEF FailTurn, FinishTurn, Live, Ownership, TypeOK, IsTerminal, Terminal
<1>2. UNCHANGED <<session, turnIds, sandbox, parent, owner>>
  BY DEF FailTurn, FinishTurn
<1>3. ASSUME NEW st, NEW err, Record(k.turn, st, err)
      PROVE  status'[k.turn] = st /\ error'[k.turn] = err
  BY <1>1, <1>3 DEF Record
<1>4. ASSUME NEW aborted \in BOOLEAN, LeaveExecute(s, aborted)
      PROVE  /\ \E p \in {"cleaning", "ending"} : task' = [task EXCEPT ![s] = Executed(k, p)]
             /\ task'[s].phase = IF aborted /\ k.reason # "runtime_interrupted"
                                 THEN "cleaning" ELSE "ending"
  BY <1>1, <1>4 DEF LeaveExecute, Executed
<1>5. CASE FailTurn(s)
  <2>1. k.outcome = "none"
    BY <1>5 DEF FailTurn, Kept
  <2>2. CASE k.reason # "none"
    <3>1. Record(k.turn, StatusOf(k.reason), k.reason) /\ LeaveExecute(s, TRUE)
      BY <1>5, <2>2 DEF FailTurn
    <3>2. status'[k.turn] = StatusOf(k.reason) /\ error'[k.turn] = k.reason
      BY <1>3, <3>1
    <3>3. QED BY <1>1, <1>2, <1>4, <2>1, <3>1, <3>2
  <2>3. CASE k.reason = "none"
    <3>1. Record(k.turn, "failed", "fault") /\ LeaveExecute(s, FALSE)
      BY <1>5, <2>3 DEF FailTurn
    <3>2. error'[k.turn] = "fault"
      BY <1>3, <3>1
    <3>3. QED BY <1>1, <1>2, <1>4, <2>1, <2>3, <3>1, <3>2
  <2>4. QED BY <2>2, <2>3
<1>6. CASE FinishTurn(s)
  <2>1. CASE GivesWay(k)
    <3>1. k.outcome # "completed"
      BY <2>1 DEF GivesWay
    <3>2. Record(k.turn, StatusOf(k.reason), k.reason) /\ LeaveExecute(s, TRUE)
      BY <1>6, <2>1 DEF FinishTurn
    <3>3. status'[k.turn] = StatusOf(k.reason) /\ error'[k.turn] = k.reason
      BY <1>3, <3>2
    <3>4. QED BY <1>1, <1>2, <1>4, <3>1, <3>2, <3>3
  <2>2. CASE ~GivesWay(k) /\ k.outcome = "completed"
    <3>1. Record(k.turn, "completed", "none")
      BY <1>6, <2>2 DEF FinishTurn
    <3>2. LeaveExecute(s, FALSE)
      BY <1>6, <2>2 DEF FinishTurn, LeaveExecute
    <3>3. status'[k.turn] = "completed" /\ error'[k.turn] = "none"
      BY <1>3, <3>1
    <3>4. QED BY <1>1, <1>2, <1>4, <2>2, <3>2, <3>3
  <2>3. CASE ~GivesWay(k) /\ k.outcome # "completed"
    <3>1. k.reason = "none"
      BY <2>3 DEF GivesWay
    <3>2. Record(k.turn, "canceled", "canceled") \/ Record(k.turn, "failed", "fault")
      BY <1>6, <2>3 DEF FinishTurn
    <3>3. LeaveExecute(s, FALSE)
      BY <1>6, <2>3 DEF FinishTurn, LeaveExecute
    <3>4. error'[k.turn] \in {"canceled", "fault"}
      BY <1>3, <3>2
    <3>5. QED BY <1>1, <1>2, <1>4, <2>3, <3>1, <3>3, <3>4
  <2>4. QED BY <2>1, <2>2, <2>3
<1>7. QED BY <1>5, <1>6

\* A step after which every executing task is one without an outcome, every cleaning
\* task was cleaning, and sandboxes and histories are as before.
LEMMA KeptQuietly ==
  ASSUME Kept,
         UNCHANGED <<sandbox, turnIds, error>>,
         \A s \in Sessions : session[s] = "stored" => session'[s] = "stored",
         \A s \in Sessions :
           /\ task'[s].phase = "executing" => task'[s].outcome = "none"
           /\ task'[s].phase = "cleaning" =>
                task[s].phase = "cleaning" /\ task'[s].turn = task[s].turn
  PROVE  Kept'
  BY DEF Kept, Interrupted, HasTurns

\* Every step keeps what is kept.
LEMMA KeptStep == Ownership /\ Kept /\ [Next]_vars => Kept'
<1> SUFFICES ASSUME Ownership, Kept, [Next]_vars
             PROVE  Kept'
  OBVIOUS
<1>0. TypeOK /\ TypeOK' /\ Ownership'
  BY TypeStep, OwnershipStep DEF Ownership
<1>1. CASE OpenRuntime
  <2>1. \A s \in Sessions : task[s] = NoTask
    BY <1>0, <1>1, IdleTask DEF OpenRuntime, Ownership, DeadIsIdle, Idle
  <2>2. UNCHANGED <<session, turnIds, sandbox, task>>
    BY <1>1 DEF OpenRuntime
  <2>3. QED BY <2>1, <2>2 DEF Kept, NoTask, HasTurns
<1>2. ASSUME NEW s \in Sessions, NEW named \in BOOLEAN,
             CreateSession(s, named) \/ RenameSession(s, named)
      PROVE  Kept'
  <2>1. /\ UNCHANGED <<sandbox, turnIds, error, task>>
        /\ \A u \in Sessions : session[u] = "stored" => session'[u] = "stored"
    BY <1>0, <1>2 DEF CreateSession, RenameSession, TypeOK
  <2>2. QED BY <2>1, KeptQuietly DEF Kept
<1>3. ASSUME NEW s \in Sessions, NEW r \in Requests, NEW t \in Turns, StartTurn(s, r, t)
      PROVE  Kept'
  <2>1. /\ session[s] = "stored" /\ task' = [task EXCEPT ![s] = Launched(t)]
        /\ turnIds' = [turnIds EXCEPT ![s] = Append(turnIds[s], t)]
        /\ UNCHANGED <<session, sandbox, error>>
    BY <1>3 DEF StartTurn
  <2>2. turnIds'[s] # <<>> /\ \A u \in Sessions \ {s} : turnIds'[u] = turnIds[u]
    <3>1. turnIds[s] \in Seq(Turns)
      BY <1>0 DEF TypeOK
    <3>2. Append(turnIds[s], t) # <<>>
      BY <3>1, AppendProperties, EmptySeq
    <3>3. QED BY <1>0, <2>1, <3>2 DEF TypeOK
  <2>3. task'[s] = Launched(t) /\ \A u \in Sessions \ {s} : task'[u] = task[u]
    BY <1>0, <2>1 DEF TypeOK
  <2>4. QED BY <2>1, <2>2, <2>3 DEF Kept, Launched, HasTurns, Interrupted
<1>4. ASSUME NEW s \in Sessions, ResumeTurn(s)
      PROVE  Kept'
  <2> DEFINE t == LastTurn(s)
  <2>1. /\ ~Active(s) /\ HasTurns(s) /\ task' = [task EXCEPT ![s] = Launched(t)]
        /\ error' = [error EXCEPT ![t] = "none"]
        /\ UNCHANGED <<session, sandbox, turnIds>>
    BY <1>4 DEF ResumeTurn, MayResume
  <2>2. t \in Turns
    BY <1>0, <2>1 DEF HasTurns, LastTurn, TypeOK
  <2>3. \A u \in Turns : error'[u] = "runtime_interrupted" => error[u] = "runtime_interrupted"
    BY <1>0, <2>1 DEF TypeOK
  <2>4. task'[s] = Launched(t) /\ \A u \in Sessions \ {s} : task'[u] = task[u]
    BY <1>0, <2>1 DEF TypeOK
  <2>5. ASSUME NEW u \in Sessions, task'[u].phase = "cleaning"
        PROVE  error'[task'[u].turn] # "runtime_interrupted"
    <3>1. u # s /\ task'[u] = task[u]
      BY <2>4, <2>5 DEF Launched
    <3>2. task[u].turn \in Turns
      BY <1>0, <2>5, <3>1, IdleTask DEF Active
    <3>3. QED BY <2>3, <2>5, <3>1, <3>2 DEF Kept, Interrupted
  <2>6. QED BY <2>1, <2>4, <2>5 DEF Kept, Launched, HasTurns, Interrupted
<1>5. ASSUME NEW s \in Sessions, NEW b \in Sessions, NEW ids, AddBranch(s, b, ids)
      PROVE  Kept'
  <2>1. /\ ~HasTurns(b) /\ session'[b] = "stored"
        /\ \A u \in Sessions \ {b} : session'[u] = session[u] /\ turnIds'[u] = turnIds[u]
        /\ UNCHANGED <<sandbox, error, task>>
    BY <1>0, <1>5 DEF AddBranch, Ownership, RowsFirst, TypeOK
  <2>2. QED BY <2>1 DEF Kept, HasTurns, Interrupted
<1>6. ASSUME NEW s \in Sessions, RecordSandbox(s)
      PROVE  Kept'
  <2>1. HasTurns(s)
    BY <1>6, LiveTask DEF RecordSandbox, Live
  <2>2. \A u \in Sessions : sandbox'[u] => sandbox[u] \/ u = s
    BY <1>0, <1>6 DEF RecordSandbox, TypeOK
  <2>3. QED BY <1>6, <2>1, <2>2 DEF RecordSandbox, Kept, HasTurns, Interrupted
<1>7. ASSUME NEW s \in Sessions, StopTurn(s) \/ Timeout(s)
      PROVE  Kept'
  <2>1. PICK why \in Reasons : Abort(s, why)
    BY <1>7 DEF StopTurn, Timeout, Reasons
  <2>2. \A u \in Sessions :
          /\ task'[u].turn = task[u].turn
          /\ task'[u].phase = task[u].phase
          /\ task'[u].outcome = task[u].outcome
    BY <1>0, <2>1, AbortTaskKeeps DEF Abort, TypeOK
  <2>3. UNCHANGED <<session, sandbox, turnIds, error>>
    BY <2>1 DEF Abort, store
  <2>4. QED BY <2>2, <2>3, KeptQuietly DEF Kept
<1>8. ASSUME NEW s \in Sessions, NEW o \in Outcomes \ {"none"},
             NEW returned \in Outcomes \ {"none"}, Settle(s, o, returned)
      PROVE  Kept'
  <2>1. task[s] \in Tasks \ {NoTask}
    BY <1>0, <1>8 DEF Settle, NoTask, TypeOK
  <2>2. task'[s].phase = "settled" /\ \A u \in Sessions \ {s} : task'[u] = task[u]
    BY <1>0, <1>8, <2>1 DEF Settle, TypeOK, Tasks
  <2>3. UNCHANGED <<session, sandbox, turnIds, error>>
    BY <1>8 DEF Settle
  <2>4. QED BY <2>2, <2>3, KeptQuietly DEF Kept
<1>9. ASSUME NEW s \in Sessions, FailTurn(s) \/ FinishTurn(s)
      PROVE  Kept'
  <2> DEFINE t == task[s].turn
  <2>1. /\ t \in Turns /\ Live(task[s])
        /\ error'[t] = "runtime_interrupted" => task'[s].phase = "ending"
        /\ UNCHANGED <<session, turnIds, sandbox>>
    BY <1>9, EndClassifies
  <2>2. PICK p \in {"cleaning", "ending"} : task' = [task EXCEPT ![s] = Executed(task[s], p)]
    BY <1>9, EndClassifies
  <2>3. /\ task'[s].phase = p /\ task'[s].turn = t
        /\ \A u \in Sessions \ {s} : task'[u] = task[u]
    BY <1>0, <2>2 DEF TypeOK, Executed
  <2>4. \A u \in Turns \ {t} : error'[u] = error[u]
    <3>1. PICK err \in Errors : error' = [error EXCEPT ![t] = err]
      BY <1>9, EndWrites
    <3>2. QED BY <1>0, <3>1 DEF TypeOK
  <2>5. ASSUME NEW u \in Sessions, task'[u].phase = "cleaning"
        PROVE  error'[task'[u].turn] # "runtime_interrupted"
    <3>1. CASE u = s
      BY <2>1, <2>3, <2>5, <3>1 DEF Interrupted
    <3>2. CASE u # s
      <4>1. task'[u] = task[u] /\ Active(u)
        BY <2>3, <2>5, <3>2 DEF Active
      <4>2. task[u].turn \in Turns \ {t}
        BY <1>0, <2>1, <3>2, <4>1, IdleTask, LiveTask DEF Ownership, OneOwner
      <4>3. QED BY <2>4, <2>5, <4>1, <4>2 DEF Kept, Interrupted
    <3>3. QED BY <3>1, <3>2
  <2>6. QED BY <2>1, <2>3, <2>5 DEF Kept, HasTurns, Interrupted
<1>10. ASSUME NEW s \in Sessions, CleanupTask(s)
       PROVE  Kept'
  <2>1. task[s] \in Tasks \ {NoTask}
    BY <1>0, <1>10 DEF CleanupTask, NoTask, TypeOK
  <2>2. task'[s].phase = "ending" /\ \A u \in Sessions \ {s} : task'[u] = task[u]
    BY <1>0, <1>10, <2>1 DEF CleanupTask, TypeOK, Tasks
  <2>3. /\ \A u \in Sessions : sandbox'[u] => sandbox[u]
        /\ UNCHANGED <<session, turnIds, error>>
    BY <1>0, <1>10 DEF CleanupTask, DeletesSandbox, TypeOK
  <2>4. QED BY <2>2, <2>3 DEF Kept, HasTurns, Interrupted
<1>11. ASSUME NEW s \in Sessions, EndTask(s)
       PROVE  Kept'
  <2>1. \A u \in Sessions : task'[u] = NoTask \/ task'[u] = task[u]
    BY <1>0, <1>11 DEF EndTask, TypeOK
  <2>2. UNCHANGED <<session, sandbox, turnIds, error>>
    BY <1>11 DEF EndTask, store
  <2>3. QED BY <2>1, <2>2, KeptQuietly DEF Kept, NoTask
<1>12. CASE Close
  <2>1. \A u \in Sessions :
          /\ task'[u].turn = task[u].turn
          /\ task'[u].phase = task[u].phase
          /\ task'[u].outcome = task[u].outcome
    BY <1>0, <1>12, AbortTaskKeeps DEF Close, TypeOK, Reasons
  <2>2. UNCHANGED <<session, sandbox, turnIds, error>>
    BY <1>12 DEF Close, store
  <2>3. QED BY <2>1, <2>2, KeptQuietly DEF Kept
<1>13. ASSUME NEW s \in Sessions, SweepSession(s)
       PROVE  Kept'
  <2>1. UNCHANGED <<turnIds, error, task>>
    BY <1>13 DEF SweepSession
  <2>2. \A u \in Sessions : sandbox'[u] => sandbox[u]
    BY <1>0, <1>13 DEF SweepSession, DeletesSandbox, TypeOK
  <2>3. \A u \in Sessions : HasTurns(u) => session'[u] = session[u]
    BY <1>0, <1>13 DEF SweepSession, Untouched, TypeOK
  <2>4. QED BY <2>1, <2>2, <2>3 DEF Kept, HasTurns, Interrupted
<1>14. CASE Crash
  BY <1>14, KeptQuietly DEF Crash, store, NoTask
<1>15. CASE CloseStore \/ UNCHANGED vars
  BY <1>15 DEF CloseStore, vars, store, Kept, HasTurns, Interrupted
<1>16. QED
  BY <1>1, <1>2, <1>3, <1>4, <1>5, <1>6, <1>7, <1>8, <1>9, <1>10, <1>11, <1>12, <1>13,
     <1>14, <1>15
     DEF Next, Process, Command, Execution, ForkSession, ForkEmptySession

\* Ownership and what it keeps hold of every reachable state.
LEMMA OwnedAndKept == Spec => [](Ownership /\ Kept)
<1>1. Init => Ownership /\ Kept
  <2> SUFFICES ASSUME Init
               PROVE  Ownership /\ Kept
    OBVIOUS
  <2>1. Ownership
    BY InitiallyOwned
  <2>2. Kept
    BY DEF Init, Kept, NoTask, HasTurns
  <2>3. QED BY <2>1, <2>2
<1>2. QED BY <1>1, OwnershipStep, KeptStep, PTL DEF Spec

\* Only the end of its execution takes a live task to cleanup or to its end.
LEMMA LeavesByEnd ==
  ASSUME Ownership, [Next]_vars, NEW s \in Sessions, Live(task[s]),
         task'[s].phase \in {"cleaning", "ending"}
  PROVE  FailTurn(s) \/ FinishTurn(s)
<1> USE DEF Live
<1>0. TypeOK
  BY DEF Ownership
<1>1. ASSUME UNCHANGED task
      PROVE  FALSE
  BY <1>1
<1>2. ASSUME NEW u \in Sessions, NEW k, task' = [task EXCEPT ![u] = k],
             k.phase \notin {"cleaning", "ending"}
      PROVE  FALSE
  BY <1>0, <1>2 DEF TypeOK
<1>3. ASSUME NEW u \in Sessions, \E r \in Requests, t \in Turns : StartTurn(u, r, t)
      PROVE  FALSE
  BY <1>2, <1>3 DEF StartTurn, Launched
<1>4. ASSUME NEW u \in Sessions, ResumeTurn(u)
      PROVE  FALSE
  BY <1>2, <1>4 DEF ResumeTurn, Launched
<1>5. ASSUME NEW u \in Sessions, StopTurn(u) \/ Timeout(u)
      PROVE  FALSE
  <2>1. PICK why \in Reasons : Abort(u, why)
    BY <1>5 DEF StopTurn, Timeout, Reasons
  <2>2. task'[s].phase = task[s].phase
    BY <1>0, <2>1, AbortTaskKeeps DEF Abort, TypeOK
  <2>3. QED BY <2>2
<1>6. ASSUME NEW u \in Sessions, \E o, returned \in Outcomes \ {"none"} : Settle(u, o, returned)
      PROVE  FALSE
  <2>1. PICK returned : task' = [task EXCEPT ![u].phase = "settled", ![u].outcome = returned]
    BY <1>6 DEF Settle
  <2>2. task[u] \in Tasks \ {NoTask}
    BY <1>0, <1>6 DEF Settle, NoTask, TypeOK
  <2>3. u = s => task'[s].phase = "settled"
    BY <1>0, <2>1, <2>2 DEF TypeOK, Tasks
  <2>4. u # s => task'[s] = task[s]
    BY <1>0, <2>1 DEF TypeOK
  <2>5. QED BY <2>3, <2>4
<1>7. ASSUME NEW u \in Sessions, u # s, FailTurn(u) \/ FinishTurn(u)
      PROVE  FALSE
  BY <1>0, <1>7 DEF FailTurn, FinishTurn, LeaveExecute, TypeOK
<1>8. ASSUME NEW u \in Sessions, CleanupTask(u) \/ EndTask(u)
      PROVE  FALSE
  <2>1. u # s
    BY <1>8 DEF CleanupTask, EndTask
  <2>2. task'[s] = task[s]
    BY <1>0, <1>8, <2>1 DEF CleanupTask, EndTask, TypeOK
  <2>3. QED BY <2>2
<1>9. ASSUME Close
      PROVE  FALSE
  BY <1>0, <1>9, AbortTaskKeeps DEF Close, TypeOK, Reasons
<1>10. ASSUME Crash
       PROVE  FALSE
  BY <1>10 DEF Crash, NoTask
<1>11. ASSUME OpenRuntime \/ CloseStore \/ UNCHANGED vars \/ \E u \in Sessions : SweepSession(u)
       PROVE  FALSE
  BY <1>1, <1>11 DEF OpenRuntime, CloseStore, SweepSession, vars
<1>12. ASSUME NEW u \in Sessions,
              \/ \E named \in BOOLEAN : CreateSession(u, named) \/ RenameSession(u, named)
              \/ \E b \in Sessions : \E n \in DOMAIN turnIds[u] : ForkSession(u, b, n)
              \/ \E b \in Sessions : ForkEmptySession(u, b)
              \/ RecordSandbox(u)
       PROVE  FALSE
  BY <1>1, <1>12
     DEF CreateSession, RenameSession, ForkSession, ForkEmptySession, AddBranch, RecordSandbox
<1>13. QED
  BY <1>3, <1>4, <1>5, <1>6, <1>7, <1>8, <1>9, <1>10, <1>11, <1>12
     DEF Next, Process, Command, Execution

\* A late cancel or timer reclassifies no settled turn, an earlier abort decides the
\* status, and only a shutdown leaves a turn interrupted, with its sandbox.
THEOREM AbortsClassify == Spec => AbortClassifies
<1>1. Ownership /\ Kept /\ [Next]_vars =>
        [\A s \in Sessions :
           LET k == task[s] IN
           k.phase \in {"executing", "settled"} /\ task'[s].phase \in {"cleaning", "ending"} =>
             /\ k.outcome = "completed" => status'[k.turn] = "completed"
             /\ k.outcome # "completed" /\ k.reason # "none" =>
                  status'[k.turn] = StatusOf(k.reason)
             /\ error'[k.turn] = "runtime_interrupted" =>
                  k.reason = "runtime_interrupted" /\ task'[s].phase = "ending"]_vars
  BY LeavesByEnd, EndClassifies DEF Live
<1>2. QED BY <1>1, OwnedAndKept, PTL DEF Spec, AbortClassifies

\* Steps other than a cleanup and a sweep drop no handle.
LEMMA DropsSandbox ==
  ASSUME TypeOK, [Next]_vars, NEW s \in Sessions, sandbox[s], ~sandbox'[s]
  PROVE  CleanupTask(s) \/ SweepSession(s)
<1>1. ~UNCHANGED sandbox
  OBVIOUS
<1>2. \A u \in Sessions : ~RecordSandbox(u)
  BY DEF RecordSandbox, TypeOK
<1>3. \A u \in Sessions \ {s} : ~CleanupTask(u) /\ ~SweepSession(u)
  BY DEF CleanupTask, SweepSession, DeletesSandbox, TypeOK
<1>4. ~OpenRuntime /\ ~Close /\ ~CloseStore /\ ~Crash /\ ~UNCHANGED vars
  BY <1>1 DEF OpenRuntime, Close, CloseStore, Crash, vars, store
<1>5. \A u \in Sessions :
        /\ \A named \in BOOLEAN : ~CreateSession(u, named) /\ ~RenameSession(u, named)
        /\ \A r \in Requests, t \in Turns : ~StartTurn(u, r, t)
        /\ \A b \in Sessions : \A n \in DOMAIN turnIds[u] : ~ForkSession(u, b, n)
        /\ \A b \in Sessions : ~ForkEmptySession(u, b)
        /\ ~ResumeTurn(u) /\ ~StopTurn(u)
  BY <1>1 DEF CreateSession, RenameSession, StartTurn, ForkSession, ForkEmptySession, AddBranch,
              ResumeTurn, StopTurn, Abort, store
<1>6. \A u \in Sessions :
        /\ \A o, returned \in Outcomes \ {"none"} : ~Settle(u, o, returned)
        /\ ~Timeout(u) /\ ~FailTurn(u) /\ ~FinishTurn(u) /\ ~EndTask(u)
  BY <1>1 DEF Settle, Timeout, Abort, FailTurn, FinishTurn, EndTask, store
<1>7. QED BY <1>2, <1>3, <1>4, <1>5, <1>6 DEF Next, Process, Command, Execution

\* An interrupted turn finds the sandbox it was using: neither the cleanup after an
\* abort nor a shutdown's sweep drops the handle.
THEOREM SandboxesOutliveInterruption == Spec => SandboxKeptForResume
<1>1. ASSUME Ownership, Kept, [Next]_vars, NEW s \in Sessions, sandbox[s], ~sandbox'[s]
      PROVE  ~Interrupted(LastTurn(s))
  <2>1. HasTurns(s)
    BY <1>1 DEF Kept
  <2>2. CASE CleanupTask(s)
    <3>1. Active(s) /\ ~Interrupted(task[s].turn)
      BY <1>1, <2>2 DEF CleanupTask, Active, Kept
    <3>2. QED BY <1>1, <3>1 DEF Ownership, OneOwner
  <2>3. CASE SweepSession(s)
    <3>1. ~Resumable(s)
      BY <1>1, <2>1, <2>3 DEF SweepSession, Untouched
    <3>2. QED BY <2>1, <3>1 DEF Resumable
  <2>4. QED BY <1>1, <2>2, <2>3, DropsSandbox DEF Ownership
<1>2. Ownership /\ Kept /\ [Next]_vars =>
        [\A s \in Sessions : sandbox[s] /\ ~sandbox'[s] => ~Interrupted(LastTurn(s))]_vars
  BY <1>1
<1>3. QED BY <1>2, OwnedAndKept, PTL DEF Spec, SandboxKeptForResume
-----------------------------------------------------------------------------
(* Ancestors.  The walk from a branch to the session that ran an inherited *)
(* turn meets only sessions which hold that turn too, and a session with   *)
(* turns is never deleted.  The walk is stated without counting steps: a   *)
(* set closed under the parents of the holders contains the owner.         *)
Holds(s, t) == \E i \in DOMAIN turnIds[s] : turnIds[s][i] = t
Rising(t, A) == \A a \in A : Holds(a, t) /\ owner[t] # a => parent[a] \in A \cup {None}

Traceable ==
  \A s \in Sessions, t \in Turns : \A A \in SUBSET Sessions :
    Holds(s, t) /\ s \in A /\ Rising(t, A) => owner[t] \in A

\* What a session holds has a row.
LEMMA HeldTurns ==
  ASSUME Ownership, NEW s \in Sessions, NEW t, Holds(s, t)
  PROVE  t \in Turns /\ status[t] # "none" /\ HasTurns(s)
  BY DEF Ownership, TypeOK, RowsFirst, Holds, HasTurns

\* A branch is one step away from its source, which holds all that it inherits.
LEMMA TraceableBranch ==
  ASSUME Ownership, Traceable, NEW s \in Sessions, NEW b \in Sessions, NEW ids,
         AddBranch(s, b, ids),
         \A i \in DOMAIN ids : Holds(s, ids[i])
  PROVE  Traceable'
<1>1. /\ b # s /\ ~HasTurns(b)
      /\ turnIds'[b] = ids /\ parent'[b] = s
      /\ \A u \in Sessions \ {b} : turnIds'[u] = turnIds[u] /\ parent'[u] = parent[u]
      /\ UNCHANGED owner
  BY DEF AddBranch, Ownership, RowsFirst, TypeOK
<1>2. \A u \in Sessions \ {b}, t \in Turns : Holds(u, t)' <=> Holds(u, t)
  BY <1>1 DEF Holds
<1>3. \A t \in Turns : Holds(b, t)' => Holds(s, t)
  BY <1>1 DEF Holds
<1>4. \A t \in Turns : ~Holds(b, t)
  BY <1>1, HeldTurns
<1>5. SUFFICES ASSUME NEW u \in Sessions, NEW t \in Turns, NEW A \in SUBSET Sessions,
                      Holds(u, t)', u \in A, Rising(t, A)'
               PROVE  owner[t] \in A
  BY <1>1 DEF Traceable
<1>6. Rising(t, A)
  BY <1>1, <1>2, <1>4, <1>5 DEF Rising
<1>7. CASE u # b
  BY <1>2, <1>5, <1>6, <1>7 DEF Traceable
<1>8. CASE u = b /\ owner[t] # b
  <2>1. parent'[b] \in A \cup {None}
    BY <1>1, <1>5, <1>8 DEF Rising
  <2>2. s \in A
    BY <1>1, <2>1, NoneAssumption
  <2>3. QED BY <1>3, <1>5, <1>6, <1>8, <2>2 DEF Traceable
<1>9. QED BY <1>5, <1>7, <1>8

\* No step cuts the way to an owner.
LEMMA TraceableStep == Ownership /\ Traceable /\ [Next]_vars => Traceable'
<1> SUFFICES ASSUME Ownership, Traceable, [Next]_vars
             PROVE  Traceable'
  OBVIOUS
<1>0. TypeOK
  BY DEF Ownership
<1>1. CASE UNCHANGED <<turnIds, owner, parent>>
  <2>1. \A s \in Sessions, t \in Turns : Holds(s, t)' <=> Holds(s, t)
    BY <1>1 DEF Holds
  <2>2. \A t \in Turns, A \in SUBSET Sessions : Rising(t, A)' <=> Rising(t, A)
    BY <1>1, <2>1 DEF Rising
  <2>3. QED BY <1>1, <2>1, <2>2 DEF Traceable
<1>2. ASSUME NEW s \in Sessions, NEW r \in Requests, NEW t \in Turns, StartTurn(s, r, t)
      PROVE  Traceable'
  <2>1. /\ status[t] = "none" /\ UNCHANGED parent /\ owner'[t] = s
        /\ \A u \in Turns \ {t} : owner'[u] = owner[u]
        /\ turnIds'[s] = Append(turnIds[s], t) /\ turnIds[s] \in Seq(Turns)
        /\ \A a \in Sessions \ {s} : turnIds'[a] = turnIds[a]
    BY <1>0, <1>2 DEF StartTurn, TypeOK
  <2>2. ASSUME NEW a \in Sessions, NEW u \in Turns \ {t}
        PROVE  Holds(a, u)' <=> Holds(a, u)
    <3>1. CASE a # s
      BY <2>1, <3>1 DEF Holds
    <3>2. CASE a = s
      <4>1. /\ DOMAIN turnIds'[s] = 1 .. Len(turnIds[s]) + 1
            /\ turnIds'[s][Len(turnIds[s]) + 1] = t
            /\ \A i \in 1 .. Len(turnIds[s]) : turnIds'[s][i] = turnIds[s][i]
            /\ DOMAIN turnIds[s] = 1 .. Len(turnIds[s]) /\ Len(turnIds[s]) \in Nat
        BY <2>1, AppendProperties, LenProperties
      <4>2. \A i : i \in 1 .. Len(turnIds[s]) + 1 <=>
                     i \in 1 .. Len(turnIds[s]) \/ i = Len(turnIds[s]) + 1
        BY <4>1
      <4>3. QED BY <3>2, <4>1, <4>2 DEF Holds
    <3>3. QED BY <3>1, <3>2
  <2>3. \A a \in Sessions : Holds(a, t)' => a = s
    <3>1. \A a \in Sessions : ~Holds(a, t)
      BY <2>1, HeldTurns
    <3>2. QED BY <2>1, <3>1 DEF Holds
  <2>4. SUFFICES ASSUME NEW a \in Sessions, NEW u \in Turns, NEW A \in SUBSET Sessions,
                        Holds(a, u)', a \in A, Rising(u, A)'
                 PROVE  owner'[u] \in A
    BY DEF Traceable
  <2>5. CASE u = t
    BY <2>1, <2>3, <2>4, <2>5
  <2>6. CASE u # t
    <3>1. Rising(u, A)
      BY <2>1, <2>2, <2>4, <2>6 DEF Rising
    <3>2. QED BY <2>1, <2>2, <2>4, <2>6, <3>1 DEF Traceable
  <2>7. QED BY <2>5, <2>6
<1>3. ASSUME NEW s \in Sessions, NEW b \in Sessions, NEW n \in DOMAIN turnIds[s],
             ForkSession(s, b, n)
      PROVE  Traceable'
  <2> DEFINE ids == SubSeq(turnIds[s], 1, n)
  <2>1. turnIds[s] \in Seq(Turns) /\ n \in 1 .. Len(turnIds[s])
    BY <1>0, LenProperties DEF TypeOK
  <2>2. /\ ids \in Seq(Turns) /\ DOMAIN ids = 1 .. n
        /\ \A i \in 1 .. n : ids[i] = turnIds[s][i] /\ i \in DOMAIN turnIds[s]
    BY <2>1, SubSeqProperties, LenProperties
  <2>3. \A i \in DOMAIN ids : Holds(s, ids[i])
    BY <2>2 DEF Holds
  <2>4. AddBranch(s, b, ids)
    BY <1>3 DEF ForkSession
  <2> HIDE DEF ids
  <2>5. QED BY <2>3, <2>4, TraceableBranch
<1>4. ASSUME NEW s \in Sessions, NEW b \in Sessions, ForkEmptySession(s, b)
      PROVE  Traceable'
  <2>1. DOMAIN << >> = {}
    OBVIOUS
  <2>2. QED BY <1>4, <2>1, TraceableBranch DEF ForkEmptySession
<1>5. CASE \/ OpenRuntime \/ Close \/ CloseStore \/ Crash \/ UNCHANGED vars
           \/ \E s \in Sessions : SweepSession(s)
  BY <1>1, <1>5 DEF OpenRuntime, Close, CloseStore, Crash, SweepSession, vars, store
<1>6. CASE \E s \in Sessions :
             \/ \E named \in BOOLEAN : CreateSession(s, named) \/ RenameSession(s, named)
             \/ ResumeTurn(s) \/ StopTurn(s)
  BY <1>1, <1>6 DEF CreateSession, RenameSession, ResumeTurn, StopTurn, Abort, store
<1>7. CASE \E s \in Sessions : Execution(s)
  <2>1. CASE \E s \in Sessions : FailTurn(s) \/ FinishTurn(s)
    BY <1>1, <2>1 DEF FailTurn, FinishTurn
  <2>2. CASE \E s \in Sessions : RecordSandbox(s) \/ Timeout(s) \/ CleanupTask(s) \/ EndTask(s)
    BY <1>1, <2>2 DEF RecordSandbox, Timeout, Abort, CleanupTask, EndTask, store
  <2>3. CASE \E s \in Sessions : \E o, returned \in Outcomes \ {"none"} : Settle(s, o, returned)
    BY <1>1, <2>3 DEF Settle
  <2>4. QED BY <1>7, <2>1, <2>2, <2>3 DEF Execution
<1>8. QED
  BY <1>2, <1>3, <1>4, <1>5, <1>6, <1>7 DEF Next, Process, Command

\* A set which the lookup's walk cannot leave contains the owner of every turn that the
\* session it starts from holds.
LEMMA WalkFindsOwner ==
  ASSUME Ownership, Kept, Traceable, NEW s \in Sessions, NEW t \in Turns, Holds(s, t)
  PROVE  owner[t] \in Lineage(s)
<1>1. owner[t] \in Sessions
  BY HeldTurns DEF Ownership, ErrorsFit
<1>2. ASSUME NEW A \in SUBSET Sessions, s \in A,
             \A x \in A : session[x] = "stored" => parent[x] \in A \cup {None}
      PROVE  owner[t] \in A
  <2>1. Rising(t, A)
    BY <1>2, HeldTurns DEF Rising, Kept
  <2>2. QED BY <1>2, <2>1 DEF Traceable
<1>3. QED BY <1>1, <1>2 DEF Lineage

\* "Ancestors cannot disappear": whatever is branched, renamed, deleted or restarted, a
\* settled turn's Pi result is found from every session whose history holds the turn.
THEOREM AncestorsStay == Spec => []AncestorsPersist
<1>1. Init => Traceable
  BY DEF Init, Traceable, Holds
<1>2. ASSUME Ownership, Kept, Traceable
      PROVE  AncestorsPersist
  <2>1. ASSUME NEW s \in Sessions, NEW i \in DOMAIN turnIds[s]
        PROVE  owner[turnIds[s][i]] \in Lineage(s)
    <3>1. Holds(s, turnIds[s][i]) /\ turnIds[s][i] \in Turns
      BY <1>2 DEF Holds, Ownership, TypeOK
    <3>2. QED BY <1>2, <3>1, WalkFindsOwner
  <2>2. QED BY <2>1 DEF AncestorsPersist, ResultFound
<1>3. QED BY <1>1, <1>2, OwnedAndKept, TraceableStep, PTL DEF Spec
-----------------------------------------------------------------------------
(* Refinement of SessionLedger.                                            *)
PhaseMap == [t \in Turns |-> PhaseOf(t)]
Key(a) == <<a.session, a.request, a.turn>>
OpenedMap == {<<a.session, a.request, a.turn>> : a \in accepted}

\* The phases the ledger tells apart, in the runtime's terms.
LEMMA PhaseFacts ==
  ASSUME Ownership, NEW t \in Turns
  PROVE  /\ PhaseOf(t) = "new" <=> status[t] = "none"
         /\ PhaseOf(t) = "open" <=> status[t] = "running"
         /\ PhaseOf(t) = "interrupted" <=> Interrupted(t)
         /\ PhaseOf(t) \in Ledger!Results <=> IsTerminal(t) /\ ~Interrupted(t)
  BY DEF Ownership, TypeOK, ErrorsFit, PhaseOf, Interrupted, IsTerminal, Terminal, Statuses,
         Ledger!Results

\* A turn that is not unsettled but has a row is settled in the ledger.
LEMMA SettledInLedger ==
  ASSUME Ownership, NEW t \in Turns, status[t] # "none", ~Unsettled(t)
  PROVE  PhaseMap[t] \in Ledger!Results
  BY PhaseFacts DEF PhaseMap, Unsettled, IsTerminal, Ownership, TypeOK, Statuses

\* A step that keeps status, error, acceptances and histories is a stutter.
LEMMA StutterStep ==
  ASSUME UNCHANGED <<turnIds, status, error, accepted>>
  PROVE  UNCHANGED Ledger!ledgerVars
  BY DEF Ledger!ledgerVars, PhaseOf, Interrupted

\* The initial store is the empty ledger.
LEMMA LedgerInitially == Init => Ledger!LedgerInit
  BY DEF Init, Ledger!LedgerInit, PhaseOf

\* Every step of the runtime is a step of the ledger or leaves it alone.
LEMMA LedgerStep == Ownership /\ [Next]_vars => [Ledger!LedgerNext]_(Ledger!ledgerVars)
<1> SUFFICES ASSUME Ownership, [Next]_vars
             PROVE  Ledger!LedgerNext \/ UNCHANGED Ledger!ledgerVars
  OBVIOUS
<1>0. TypeOK /\ TypeOK' /\ Ownership'
  BY TypeStep, OwnershipStep DEF Ownership
<1>1. CASE OpenRuntime
  <2>1. Ledger!Interrupt(Orphans)
    <3>1. \A t \in Orphans : PhaseMap[t] = "open"
      BY PhaseFacts DEF Orphans, PhaseMap
    <3>2. PhaseMap' = [t \in Turns |-> IF t \in Orphans THEN "interrupted" ELSE PhaseMap[t]]
      BY <1>0, <1>1 DEF OpenRuntime, Orphans, PhaseMap, PhaseOf, Interrupted, TypeOK
    <3>3. UNCHANGED <<turnIds, accepted>>
      BY <1>1 DEF OpenRuntime
    <3>4. QED BY <3>1, <3>2, <3>3 DEF Ledger!Interrupt, PhaseMap, OpenedMap
  <2>2. QED BY <2>1 DEF Ledger!LedgerNext, Orphans
<1>2. ASSUME NEW s \in Sessions, NEW r \in Requests, NEW t \in Turns, StartTurn(s, r, t)
      PROVE  Ledger!LedgerNext
  <2>1. PhaseMap[t] = "new"
    BY <1>2, PhaseFacts DEF StartTurn, PhaseMap
  <2>2. ASSUME NEW i \in DOMAIN turnIds[s]
        PROVE  PhaseMap[turnIds[s][i]] \in Ledger!Results
    <3>1. turnIds[s][i] \in Turns /\ status[turnIds[s][i]] # "none"
      BY DEF Ownership, TypeOK, RowsFirst
    <3>2. HasTurns(s)
      BY <2>2 DEF HasTurns
    <3>3. i # Len(turnIds[s]) => ~Unsettled(turnIds[s][i])
      BY DEF Ownership, OnlyNewestUnsettled
    <3>4. ~Unsettled(LastTurn(s))
      BY <1>2, <3>2 DEF StartTurn, MayFollow, IsTerminal, Terminal, Unsettled
    <3>5. QED BY <3>1, <3>3, <3>4, SettledInLedger DEF LastTurn
  <2>3. \A u \in Turns : <<s, r, u>> \notin OpenedMap
    BY <1>2 DEF StartTurn, Accepted, OpenedMap
  <2>4. turnIds' = [turnIds EXCEPT ![s] = Append(@, t)]
    BY <1>2 DEF StartTurn
  <2>5. PhaseMap' = [PhaseMap EXCEPT ![t] = "open"]
    BY <1>0, <1>2 DEF StartTurn, PhaseMap, PhaseOf, Interrupted, TypeOK
  <2>6. OpenedMap' = OpenedMap \cup {<<s, r, t>>}
    <3> DEFINE a == [session |-> s, request |-> r, turn |-> t]
    <3>1. accepted' = accepted \cup {a}
      BY <1>2 DEF StartTurn
    <3>2. OpenedMap = {Key(x) : x \in accepted} /\ OpenedMap' = {Key(x) : x \in accepted'}
      BY DEF OpenedMap, Key
    <3>3. {Key(x) : x \in accepted \cup {a}} = {Key(x) : x \in accepted} \cup {Key(a)}
      BY Zenon
    <3>4. Key(a) = <<s, r, t>>
      BY DEF Key
    <3>5. QED BY <3>1, <3>2, <3>3, <3>4, Zenon
  <2>7. Ledger!Accept(s, r, t)
    BY <2>1, <2>2, <2>3, <2>4, <2>5, <2>6
       DEF Ledger!Accept, Ledger!Settled, PhaseMap, OpenedMap
  <2>8. QED BY <2>7 DEF Ledger!LedgerNext
<1>3. ASSUME NEW s \in Sessions, ResumeTurn(s)
      PROVE  Ledger!LedgerNext
  <2> DEFINE t == LastTurn(s)
  <2>1. t \in Turns /\ Interrupted(t)
    BY <1>0, <1>3 DEF ResumeTurn, MayResume, HasTurns, LastTurn, TypeOK
  <2>2. PhaseMap[t] = "interrupted"
    BY <2>1, PhaseFacts DEF PhaseMap
  <2>3. PhaseMap' = [PhaseMap EXCEPT ![t] = "open"]
    BY <1>0, <1>3, <2>1 DEF ResumeTurn, PhaseMap, PhaseOf, Interrupted, TypeOK
  <2>4. UNCHANGED <<turnIds, accepted>>
    BY <1>3 DEF ResumeTurn
  <2>5. Ledger!Reopen(t)
    BY <2>2, <2>3, <2>4 DEF Ledger!Reopen, PhaseMap, OpenedMap
  <2>6. QED BY <2>1, <2>5 DEF Ledger!LedgerNext
<1>4. ASSUME NEW s \in Sessions, NEW b \in Sessions, NEW n \in DOMAIN turnIds[s],
             ForkSession(s, b, n)
      PROVE  Ledger!LedgerNext
  <2>1. n \in 1 .. Len(turnIds[s])
    BY <1>0, LenProperties DEF TypeOK
  <2>2. ASSUME NEW i \in 1 .. n
        PROVE  PhaseMap[turnIds[s][i]] \in Ledger!Results
    <3>1. i \in DOMAIN turnIds[s]
      BY <1>0, <2>1, LenProperties DEF TypeOK
    <3>2. turnIds[s][i] \in Turns /\ status[turnIds[s][i]] # "none"
      BY <3>1 DEF Ownership, TypeOK, RowsFirst
    <3>3. CASE i = n
      BY <1>4, <3>2, <3>3, PhaseFacts DEF ForkSession, MayBranchAt, PhaseMap
    <3>4. CASE i # n
      BY <2>1, <3>1, <3>2, <3>4, SettledInLedger DEF Ownership, OnlyNewestUnsettled
    <3>5. QED BY <3>3, <3>4
  <2>3. turnIds[b] = <<>>
    BY <1>4 DEF ForkSession, AddBranch, Ownership, RowsFirst, HasTurns
  <2>4. /\ turnIds' = [turnIds EXCEPT ![b] = SubSeq(turnIds[s], 1, n)]
        /\ UNCHANGED <<status, error, accepted>>
    BY <1>4 DEF ForkSession, AddBranch
  <2>5. PhaseMap' = PhaseMap
    BY <2>4 DEF PhaseMap, PhaseOf, Interrupted
  <2>6. Ledger!Branch(s, b, n)
    BY <2>1, <2>2, <2>3, <2>4, <2>5 DEF Ledger!Branch, Ledger!Settled, PhaseMap, OpenedMap
  <2>7. QED BY <2>1, <2>6 DEF Ledger!LedgerNext
<1>5. ASSUME NEW s \in Sessions, NEW b \in Sessions, ForkEmptySession(s, b)
      PROVE  UNCHANGED Ledger!ledgerVars
  <2>1. turnIds[b] = <<>> /\ turnIds' = [turnIds EXCEPT ![b] = <<>>]
    BY <1>5 DEF ForkEmptySession, AddBranch, Ownership, RowsFirst, HasTurns
  <2>2. turnIds' = turnIds
    BY <1>0, <2>1 DEF TypeOK
  <2>3. QED BY <1>5, <2>2, StutterStep DEF ForkEmptySession, AddBranch
<1>6. ASSUME NEW s \in Sessions, FailTurn(s) \/ FinishTurn(s)
      PROVE  Ledger!LedgerNext
  <2> DEFINE t == task[s].turn
  <2>1. t \in Turns /\ status[t] = "running" /\ UNCHANGED <<turnIds, accepted>>
    BY <1>6, EndWrites
  <2>2. PICK st \in Terminal, err \in Errors :
          /\ err = "runtime_interrupted" => st = "failed"
          /\ status' = [status EXCEPT ![t] = st]
          /\ error' = [error EXCEPT ![t] = err]
    BY <1>6, EndWrites
  <2>3. PhaseMap[t] = "open"
    BY <2>1, PhaseFacts DEF PhaseMap
  <2>4. CASE err = "runtime_interrupted"
    <3>1. PhaseMap' = [u \in Turns |-> IF u \in {t} THEN "interrupted" ELSE PhaseMap[u]]
      BY <1>0, <2>1, <2>2, <2>4 DEF PhaseMap, PhaseOf, Interrupted, TypeOK, Terminal
    <3>2. Ledger!Interrupt({t})
      BY <2>1, <2>3, <3>1 DEF Ledger!Interrupt, PhaseMap, OpenedMap
    <3>3. QED BY <2>1, <3>2 DEF Ledger!LedgerNext
  <2>5. CASE err # "runtime_interrupted"
    <3>1. PhaseMap' = [PhaseMap EXCEPT ![t] = st]
      BY <1>0, <2>1, <2>2, <2>5 DEF PhaseMap, PhaseOf, Interrupted, TypeOK, Terminal
    <3>2. Ledger!Conclude(t, st)
      BY <2>1, <2>3, <3>1 DEF Ledger!Conclude, PhaseMap, OpenedMap
    <3>3. QED BY <2>1, <3>2 DEF Ledger!LedgerNext, Ledger!Results, Terminal
  <2>6. QED BY <2>4, <2>5
<1>7. CASE UNCHANGED <<turnIds, status, error, accepted>>
  BY <1>7, StutterStep
<1>8. QED
  <2>1. \/ OpenRuntime
        \/ \E s \in Sessions, r \in Requests, t \in Turns : StartTurn(s, r, t)
        \/ \E s \in Sessions : ResumeTurn(s) \/ FailTurn(s) \/ FinishTurn(s)
        \/ \E s, b \in Sessions : \E n \in DOMAIN turnIds[s] : ForkSession(s, b, n)
        \/ \E s, b \in Sessions : ForkEmptySession(s, b)
        \/ UNCHANGED <<turnIds, status, error, accepted>>
    BY OtherSteps
  <2>2. QED BY <1>1, <1>2, <1>3, <1>4, <1>5, <1>6, <1>7, <2>1

\* The runtime implements the ledger: at most one unsettled turn per session, one turn
\* per request ID, branches of settled prefixes, and re-execution by resumption only.
THEOREM RuntimeImplementsLedger == Spec => ImplementsLedger
<1>1. QED BY LedgerInitially, LedgerStep, Owned, PTL DEF Spec, ImplementsLedger, Ledger!LedgerSpec
=============================================================================
