---------------------------- MODULE HarnessProofs ----------------------------
(* Proofs about a turn on the Pi harness engine, for any tool calls, inputs    *)
(* and bounds: the turn's records and Pi's agree across aborts, faults, deaths *)
(* and resumption, and no commit of Pi meets a projection that cannot explain  *)
(* it.                                                                         *)
EXTENDS Harness, SequenceTheorems, TLAPS

Calls      == [usage : Nat, by : Nat]
Ats        == {"none", "accepted", "navigation", "effect_pending", "tools", "settled"}
Outcomes   == {"none", "completed", "failed", "aborted"}
Operation  == [at : Ats, usage : Nat, cancel : BOOLEAN, outcome : Outcomes]
EngineType == [attempts : SUBSET Nat, captured : SUBSET Nat, known : BOOLEAN, inbox : SUBSET Inputs,
               started : SUBSET Tools, pending : Nat, denied : BOOLEAN, reconciles : BOOLEAN]
ToolType   == [Tools -> [started : Nat, result : Nat]]
InputType  == [Inputs -> [queued : Nat, consumed : Nat]]
OpsType    == [Operations -> Operation]
BatchType  == [Tools -> {"absent", "planned", "effect_pending", "done"}]
CallsType  == Seq(Calls)
Places     == {"down", "opened", "reconcile", "recovered", "check", "align", "context", "resumed",
               "accept", "accepting", "prompt", "driving", "faulted"}

TypeOK ==
    /\ mode \in {"continue", "reset", "compact"} /\ trivial \in BOOLEAN
    /\ status \in {"running", "interrupted", "completed", "failed", "canceled"}
    /\ calls \in CallsType
    /\ tools \in ToolType
    /\ inputs \in InputType
    /\ ops \in OpsType
    /\ batch \in BatchType
    /\ inbox \in SUBSET Inputs /\ aligned \in BOOLEAN
    /\ used \in Nat /\ lives \in Nat /\ faults \in Nat
    /\ pc \in Places /\ pass \in 1 .. 2 /\ current \in Owned /\ opened \in Operations \cup {"none"}
    /\ engine \in EngineType
    /\ request \in {"none", "due", "starting", "live", "answered", "failed"}
    /\ abort \in {"none", "cancel", "detach"} /\ target \in Owned \cup {"none"}

\* Where the drive stands says which operations there can be: at most one is open, another
\* turn's before this turn's own, and the context operation before the prompt.
Sequence ==
    /\ mode = "continue" => trivial
    /\ trivial => ops["context"].at = "none"
    /\ ops["context"].at # "none" => aligned /\ ~Open("other")
    /\ PromptFollowsContext
    /\ ops["run"].at # "navigation" /\ ops["context"].at \notin {"navigation", "tools"}
    /\ ops["context"].at = "effect_pending" => mode = "compact"
    /\ pc \in {"context", "resumed", "accept", "accepting"} => aligned
    /\ pc \in {"align", "context", "resumed", "accept", "accepting"} => ops["run"].at = "none"
    /\ pc \in {"accept", "accepting"} => trivial \/ ops["context"].at = "settled"
    /\ pc = "context" => ~trivial /\ ops["context"].at = "none"
    /\ pc = "resumed" => Open("context")
    /\ pc = "prompt" => ops["run"].at # "none"
    /\ pc = "driving" => ops[current].at # "none" /\ (current = "context" => ops["run"].at = "none")
    /\ pc \notin {"down", "opened", "reconcile", "faulted"} => ~Open("other")
    /\ pc = "reconcile" => opened = "other" /\ ops["run"].at = "none" /\ ~Open("context")
    /\ pc = "recovered" => opened \in Owned
    /\ pc \in {"opened", "recovered", "check", "align"} =>
          /\ \A o \in Operations : Open(o) => opened = o
          /\ opened \in Owned => Open(opened)
          /\ pc = "opened" /\ opened = "other" => Open("other")
    /\ \A o \in Owned : ops[o].at = "settled" => ops[o].outcome # "none"
    /\ status = "completed" => pc = "down" /\ ops["run"].at = "settled"

\* The inbox last seen is the durable one, and the events tell what is in it.
Boxed == engine.inbox = inbox /\ InputsLogged

\* The engine knows which tool intents are recorded, and has the assistant message of a
\* batch before Pi can write an intent.
Tooled ==
    /\ ToolsOnce
    /\ engine.started = {t \in Tools : batch[t] \in {"effect_pending", "done"}}
    /\ pc \notin {"down", "opened", "faulted"} /\ ops["run"].at = "tools" => engine.known

\* Every attempt is for a request of its own, and waits for it as long as Pi does.
Waited(u) == \E o \in Owned : ops[o].at = "effect_pending" /\ ops[o].usage = u
Ledger ==
    /\ \A c, d \in DOMAIN calls : calls[c].usage = calls[d].usage => c = d
    /\ \A c \in DOMAIN calls : /\ calls[c].usage # NoUsage /\ calls[c].usage <= used
                               /\ calls[c].by \in {NoUsage, calls[c].usage}
                               /\ Unsettled(c) => Waited(calls[c].usage)
    /\ \A o \in Owned : ops[o].at = "effect_pending" => ops[o].usage # NoUsage /\ ops[o].usage <= used

\* The engine's attempts are the unsettled ones, but for one that is being registered, and
\* where the request stands says which attempt the next commit of Pi will find.
Asking ==
    /\ request # "none" => pc = "driving" /\ ops[current].at = "effect_pending"
    /\ request = "due" => /\ engine.pending = ops[current].usage
                          /\ \A c \in DOMAIN calls : calls[c].usage # ops[current].usage
    /\ request = "starting" => /\ Len(calls) \in DOMAIN calls /\ Unsettled(Len(calls))
                               /\ calls[Len(calls)].usage = ops[current].usage
    /\ request \in {"live", "answered"} => Settles(ops[current].usage) # {}
    /\ request \in {"answered", "failed"} /\ current = "context" =>
          Settles(ops[current].usage) \subseteq engine.captured
    /\ pc \notin {"down", "faulted"} =>
          engine.attempts = {c \in DOMAIN calls : Unsettled(c) /\ ~(request = "starting" /\ c = Len(calls))}
    /\ pc \notin {"down", "faulted", "opened", "recovered"} /\ request = "none"
         /\ ops["context"].at = "effect_pending" => \A c \in DOMAIN calls : ~Unsettled(c)

InAgreement == TypeOK /\ Sequence /\ Boxed /\ Tooled /\ Ledger /\ Asking
------------------------------------------------------------------------------
(* Types.                                                                     *)

LEMMA ToolsType == ASSUME TypeOK, NEW b, ProjectIntents(b)
                   PROVE  tools' \in ToolType
  BY DEF TypeOK, ProjectIntents, ToolType

LEMMA InputsType == ASSUME TypeOK, NEW next, ProjectInbox(next)
                    PROVE  inputs' \in InputType
  BY DEF TypeOK, ProjectInbox, InputType

LEMMA CallsAre == ASSUME TypeOK
                  PROVE  /\ Len(calls) \in Nat /\ DOMAIN calls = 1 .. Len(calls)
                         /\ \A c \in DOMAIN calls : /\ calls[c] \in Calls
                                                    /\ calls[c].usage \in Nat /\ calls[c].by \in Nat
  <1>1. calls \in Seq(Calls)  BY DEF TypeOK, CallsType
  <1>2. \A c \in DOMAIN calls : calls[c] \in Calls  BY <1>1
  <1> QED  BY <1>1, <1>2 DEF Calls

LEMMA SettleCallsIs ==
    ASSUME TypeOK, NEW C, NEW u \in Nat, SettleCalls(C, u)
    PROVE  /\ calls' \in CallsType /\ Len(calls') = Len(calls) /\ DOMAIN calls' = DOMAIN calls
           /\ \A c \in DOMAIN calls : /\ calls'[c].usage = calls[c].usage
                                      /\ calls'[c].by = IF c \in C /\ Unsettled(c) THEN u ELSE calls[c].by
  <1>1. calls' = [c \in DOMAIN calls |->
                    IF c \in C /\ Unsettled(c) THEN [calls[c] EXCEPT !.by = u] ELSE calls[c]]
    BY DEF SettleCalls
  <1>2. \A c \in DOMAIN calls : [calls[c] EXCEPT !.by = u] \in Calls
    BY CallsAre DEF Calls
  <1>3. \A c \in DOMAIN calls : calls'[c] \in Calls
    BY <1>1, <1>2, CallsAre
  <1>4. calls' \in Seq(Calls) /\ Len(calls') = Len(calls)
    BY <1>1, <1>3, CallsAre
  <1> QED  BY <1>1, <1>4, CallsAre DEF Calls, CallsType

LEMMA OpsAre ==
    ASSUME TypeOK
    PROVE  /\ "run" \in Operations /\ "context" \in Operations /\ "other" \in Operations
           /\ "run" \in Owned /\ "context" \in Owned /\ Owned \subseteq Operations
           /\ ops \in [Operations -> Operation] /\ engine \in EngineType
           /\ \A o \in Operations : ops[o].usage \in Nat /\ ops[o].outcome \in Outcomes
  BY DEF TypeOK, OpsType, Operation, Operations, Owned

LEMMA BeginType == ASSUME TypeOK, NEW n \in 1 .. 2, Begin(n)
                   PROVE  /\ pc' \in Places /\ pass' \in 1 .. 2 /\ current' \in Owned
                          /\ opened' \in Operations \cup {"none"}
                          /\ engine' \in EngineType
                          /\ request' = "none" /\ target' = "none"
  <1>1. DOMAIN calls \in SUBSET Nat  BY CallsAre
  <1>2. Restored \in EngineType
    BY <1>1 DEF TypeOK, Restored, EngineType, NoUsage
  <1>3. (CHOOSE o \in Operations : Open(o)) \in Operations \/ ~(\E o \in Operations : Open(o))
    OBVIOUS
  <1> QED  BY <1>2, <1>3 DEF Begin, Places, Owned, Operations

LEMMA LeaveType ==
    ASSUME TypeOK, NEW s \in {"thrown", "canceled", "completed", "failed"}, Leave(s)
    PROVE  TypeOK'
  <1>1. status' \in {"running", "interrupted", "completed", "failed", "canceled"}
    BY DEF Leave
  <1>2. /\ pc' = "down" /\ request' = "none" /\ target' = "none"
        /\ UNCHANGED <<constants, calls, tools, inputs, ops, batch, inbox, aligned,
                       used, lives, faults, pass, current, opened, engine, abort>>
    BY DEF Leave
  <1> QED  BY <1>1, <1>2 DEF TypeOK, constants, Places

------------------------------------------------------------------------------
(* What the actions do to the fields of the records.                          *)

\* The operations after a step that may have changed one of them.
OpsKept(o) ==
    /\ ops' \in OpsType
    /\ \A p \in Operations : p # o => ops'[p].at = ops[p].at /\ ops'[p].usage = ops[p].usage
                                      /\ ops'[p].outcome = ops[p].outcome
MovedTo(o, at) == OpsKept(o) /\ ops'[o].at = at /\ ops'[o].usage = ops[o].usage

\* The attempts that a commit of Pi settles.
Answered(o) == IF o = "context" /\ request = "none" THEN {} ELSE Settles(ops[o].usage)

LEMMA EngineIs == ASSUME TypeOK
                  PROVE  /\ engine.attempts \in SUBSET Nat /\ engine.captured \in SUBSET Nat
                         /\ engine.pending \in Nat
  BY DEF TypeOK, EngineType

LEMMA SettleIs ==
    ASSUME TypeOK, NEW o \in Owned, NEW n \in Nexts(o), Settle(o, n), pc' # "misfit"
    PROVE  /\ pc = "driving" /\ pc' = pc /\ current = o /\ ops[o].at = "effect_pending"
           /\ request \in {"none", "answered", "failed"} /\ request' = "none"
           /\ SettleCalls(Answered(o), ops[o].usage)
           /\ MovedTo(o, IF n \in {"accepted", "tools"} THEN n ELSE "settled")
           /\ ops'[o].at = "settled" => ops'[o].outcome # "none"
           /\ n = "tools" => o = "run"
           /\ engine' \in EngineType
           /\ engine'.attempts = engine.attempts \ Answered(o)
           /\ engine'.captured = engine.captured \ Answered(o)
           /\ engine'.inbox = engine.inbox /\ engine'.started = engine.started
           /\ batch' \in BatchType
           /\ \A t \in Tools : batch'[t] = batch[t] \/ (batch[t] = "absent" /\ batch'[t] = "planned")
           /\ UNCHANGED <<constants, status, tools, inputs, inbox, aligned, used, lives, faults,
                          pass, current, opened, abort, target>>
  <1>1. n \in {"aborted", "accepted", "failed", "completed", "tools"} /\ (n = "tools" => o = "run")
    BY DEF Nexts
  <1>2. /\ pc = "driving" /\ pc' = pc /\ current = o /\ ops[o].at = "effect_pending"
        /\ request \in {"none", "answered", "failed"} /\ request' = "none"
        /\ SettleCalls(Answered(o), ops[o].usage)
        /\ UNCHANGED <<constants, status, tools, inputs, inbox, aligned, used, lives, faults,
                       pass, current, opened, abort, target>>
    BY DEF Settle, Driving, PiOnly, Answered
  <1>3. engine' = [engine EXCEPT !.attempts = @ \ Answered(o), !.captured = @ \ Answered(o),
                                 !.known = o = "run"]
    BY DEF Settle, Answered
  <1>4. /\ engine' \in EngineType
        /\ engine'.attempts = engine.attempts \ Answered(o)
        /\ engine'.captured = engine.captured \ Answered(o)
        /\ engine'.inbox = engine.inbox /\ engine'.started = engine.started
    <2> DEFINE k == o = "run"
               A == engine.attempts \ Answered(o)
               C == engine.captured \ Answered(o)
    <2>1. engine' = [engine EXCEPT !.attempts = A, !.captured = C, !.known = k]  BY <1>3
    <2>2. k \in BOOLEAN /\ A \in SUBSET Nat /\ C \in SUBSET Nat  BY EngineIs
    <2> HIDE DEF k, A, C
    <2>3. /\ engine' \in EngineType /\ engine'.attempts = A /\ engine'.captured = C
          /\ engine'.inbox = engine.inbox /\ engine'.started = engine.started
      BY <2>1, <2>2, OpsAre DEF EngineType
    <2> QED  BY <2>3 DEF A, C
  <1>5. ops' = [ops EXCEPT ![o] = IF n \in {"accepted", "tools"} THEN [@ EXCEPT !.at = n]
                                  ELSE [@ EXCEPT !.at = "settled", !.outcome = n]]
    BY DEF Settle
  <1>6. MovedTo(o, IF n \in {"accepted", "tools"} THEN n ELSE "settled")
        /\ (ops'[o].at = "settled" => ops'[o].outcome # "none")
    <2>1. o \in Operations  BY OpsAre
    <2>2. CASE n \in {"accepted", "tools"}
      <3>1. ops' = [ops EXCEPT ![o].at = n]  BY <1>5, <2>2
      <3> QED  BY <2>1, <2>2, <3>1, OpsAre DEF MovedTo, OpsKept, OpsType, Operation, Ats
    <2>3. CASE n \in {"aborted", "failed", "completed"}
      <3>1. ops' = [ops EXCEPT ![o].at = "settled", ![o].outcome = n]  BY <1>5, <2>3
      <3> QED  BY <2>1, <2>3, <3>1, OpsAre DEF MovedTo, OpsKept, OpsType, Operation, Ats, Outcomes
    <2> QED  BY <1>1, <2>2, <2>3
  <1>7. /\ batch' \in BatchType
        /\ \A t \in Tools : batch'[t] = batch[t] \/ (batch[t] = "absent" /\ batch'[t] = "planned")
    BY DEF Settle, TypeOK, BatchType
  <1> QED  BY <1>1, <1>2, <1>4, <1>6, <1>7

LEMMA SettleKnows ==
    ASSUME TypeOK, NEW n \in Nexts("run"), Settle("run", n), pc' # "misfit"
    PROVE  engine'.known
  <1>1. engine' = [engine EXCEPT !.attempts = @ \ Answered("run"), !.captured = @ \ Answered("run"),
                                 !.known = TRUE]
    BY DEF Settle, Answered
  <1> QED  BY <1>1, OpsAre DEF EngineType

LEMMA SettleAtIs ==
    ASSUME TypeOK, NEW o \in Operations, NEW n \in Outcomes \ {"none"}, SettleAt(o, n)
    PROVE  /\ MovedTo(o, "settled") /\ ops'[o].outcome # "none"
           /\ UNCHANGED <<constants, status, calls, tools, inputs, batch, inbox, aligned, used, lives,
                          faults, pc, pass, current, opened, engine, request, abort, target>>
  <1>1. ops' = [ops EXCEPT ![o].at = "settled", ![o].outcome = n]  BY DEF SettleAt
  <1>2. MovedTo(o, "settled") /\ ops'[o].outcome = n
    BY <1>1, OpsAre DEF MovedTo, OpsKept, OpsType, Operation, Ats, Outcomes
  <1> QED  BY <1>2 DEF SettleAt, PiOnly

LEMMA AcceptIs == ASSUME TypeOK, NEW o \in Owned, Accept(o)
                  PROVE  /\ MovedTo(o, "accepted")
                         /\ UNCHANGED <<constants, status, calls, tools, inputs, batch, inbox, aligned, used,
                                        lives, faults, pass, current, opened, engine, request, abort, target>>
  BY OpsAre DEF Accept, constants, MovedTo, OpsKept, OpsType, Operation, Ats

LEMMA IntendIs ==
    ASSUME TypeOK, NEW o \in Owned, Intend(o)
    PROVE  /\ pc = "driving" /\ current = o /\ Open(o) /\ AtBoundary(o) /\ (o = "run" \/ mode = "compact")
           /\ used' = used + 1 /\ request' = "due"
           /\ OpsKept(o) /\ ops'[o].at = "effect_pending" /\ ops'[o].usage = used + 1
           /\ engine' \in EngineType /\ engine'.pending = used + 1
           /\ engine'.attempts = engine.attempts /\ engine'.captured = engine.captured
           /\ engine'.inbox = engine.inbox /\ engine'.started = engine.started
           /\ UNCHANGED <<constants, status, calls, tools, inputs, batch, inbox, aligned, lives, faults,
                          pc, pass, current, opened, abort, target>>
  <1> DEFINE u == used + 1
  <1>1. u \in Nat  BY DEF TypeOK
  <1>2. ops' = [ops EXCEPT ![o].at = "effect_pending", ![o].usage = u]
        /\ engine' = [engine EXCEPT !.pending = u]
    BY DEF Intend
  <1>3. /\ pc = "driving" /\ current = o /\ Open(o) /\ AtBoundary(o) /\ (o = "run" \/ mode = "compact")
        /\ used' = u /\ request' = "due"
        /\ UNCHANGED <<constants, status, calls, tools, inputs, batch, inbox, aligned, lives, faults,
                       pc, pass, current, opened, abort, target>>
    BY DEF Intend, Driving, PiOnly
  <1> HIDE DEF u
  <1>4. OpsKept(o) /\ ops'[o].at = "effect_pending" /\ ops'[o].usage = u
    BY <1>1, <1>2, OpsAre DEF OpsKept, OpsType, Operation, Ats
  <1>5. /\ engine' \in EngineType /\ engine'.pending = u
        /\ engine'.attempts = engine.attempts /\ engine'.captured = engine.captured
        /\ engine'.inbox = engine.inbox /\ engine'.started = engine.started
    BY <1>1, <1>2, OpsAre DEF EngineType
  <1> QED  BY <1>3, <1>4, <1>5 DEF u

LEMMA RequestAbortIs ==
    ASSUME TypeOK, RequestAbort, pc' # "misfit", Intents(batch) = {}
    PROVE  /\ OpsKept("none") /\ UNCHANGED tools
           /\ engine' \in EngineType
           /\ engine'.attempts = engine.attempts /\ engine'.captured = engine.captured
           /\ engine'.inbox = engine.inbox /\ engine'.started = engine.started
           /\ engine'.pending = engine.pending
           /\ target # "none" /\ target' = "none"
           /\ UNCHANGED <<constants, status, calls, inputs, batch, inbox, aligned, used, lives, faults,
                          pc, pass, current, opened, request, abort>>
  <1>1. OpsKept("none")
    <2> DEFINE c == ops[target].cancel \/ Open(target)
    <2>1. target \in Operations /\ ops' \in {ops, [ops EXCEPT ![target].cancel = c]}
      BY OpsAre DEF RequestAbort, TypeOK
    <2>2. c \in BOOLEAN  OBVIOUS
    <2> HIDE DEF c
    <2> QED  BY <2>1, <2>2, OpsAre DEF Operation, OpsType, OpsKept
  <1>2. UNCHANGED tools
    <2>1. ProjectIntents(batch) => tools' = tools
      BY DEF ProjectIntents, TypeOK, ToolType
    <2> QED  BY <2>1 DEF RequestAbort
  <1>3. engine' = [engine EXCEPT !.started = @ \cup {}]
    BY DEF RequestAbort
  <1>4. /\ engine' \in EngineType
        /\ engine'.attempts = engine.attempts /\ engine'.captured = engine.captured
        /\ engine'.inbox = engine.inbox /\ engine'.started = engine.started
        /\ engine'.pending = engine.pending
    BY <1>3, OpsAre DEF EngineType
  <1> QED  BY <1>1, <1>2, <1>4 DEF RequestAbort

LEMMA InboxIs ==
    ASSUME TypeOK, NEW next \in SUBSET Inputs, SetInbox(next)
    PROVE  /\ inbox' = next /\ engine'.inbox = next /\ ProjectInbox(next)
           /\ engine' \in EngineType
           /\ engine'.attempts = engine.attempts /\ engine'.captured = engine.captured
           /\ engine'.started = engine.started /\ engine'.pending = engine.pending
           /\ UNCHANGED <<constants, status, calls, tools, ops, batch, aligned, used, lives, faults,
                          pc, pass, current, opened, request, abort, target>>
  BY OpsAre DEF SetInbox, EngineType, constants

\* What a step of the request leaves of the engine.
RequestOnly ==
    /\ engine' \in EngineType /\ engine'.inbox = engine.inbox /\ engine'.started = engine.started
    /\ UNCHANGED <<constants, status, tools, inputs, ops, batch, inbox, aligned, used, lives,
                   pc, pass, current, opened, abort, target>>

LEMMA StartModelIs ==
    ASSUME TypeOK, StartModel
    PROVE  /\ pc = "driving" /\ request = "due" /\ request' = "starting"
           /\ calls' = Append(calls, [usage |-> engine.pending, by |-> NoUsage])
           /\ RequestOnly /\ UNCHANGED engine
  BY OpsAre DEF StartModel, RequestOnly, PiOnly

LEMMA RegisterIs ==
    ASSUME TypeOK, Register
    PROVE  /\ pc = "driving" /\ request = "starting" /\ request' \in {"failed", "live"}
           /\ engine'.attempts = engine.attempts \cup {Len(calls)}
           /\ request' = "failed" /\ current = "context" =>
                engine'.captured = engine.captured \cup {Len(calls)}
           /\ RequestOnly /\ UNCHANGED calls
  <1> DEFINE k == ops[current].cancel
             C == IF k THEN Captured({Len(calls)}) ELSE engine.captured
             A == engine.attempts \cup {Len(calls)}
  <1>1. k \in BOOLEAN  BY OpsAre DEF Operation, TypeOK
  <1>2. Len(calls) \in Nat  BY CallsAre
  <1>3. A \in SUBSET Nat /\ C \in SUBSET Nat
    BY <1>2, EngineIs DEF Captured
  <1>4. engine' = [engine EXCEPT !.attempts = A, !.denied = k, !.captured = C]  BY DEF Register
  <1>5. request' = (IF k THEN "failed" ELSE "live") /\ pc = "driving" /\ request = "starting"
        /\ UNCHANGED <<calls, tools, inputs, ops, batch, inbox, used, pc>> /\ PiOnly
    BY DEF Register
  <1>6. request' = "failed" /\ current = "context" => C = engine.captured \cup {Len(calls)}
    BY <1>5 DEF Captured
  <1> HIDE DEF k, C, A
  <1>7. /\ engine' \in EngineType /\ engine'.inbox = engine.inbox /\ engine'.started = engine.started
        /\ engine'.attempts = A /\ engine'.captured = C
    BY <1>1, <1>3, <1>4, OpsAre DEF EngineType
  <1> QED  BY <1>5, <1>6, <1>7 DEF RequestOnly, PiOnly, A

LEMMA DenyIs ==
    ASSUME TypeOK, Deny
    PROVE  /\ pc = "driving" /\ request = "due" /\ request' = "failed"
           /\ engine'.attempts = engine.attempts /\ engine'.captured = engine.captured
           /\ RequestOnly /\ UNCHANGED calls
  BY OpsAre DEF Deny, EngineType, RequestOnly, durable, constants

LEMMA AnswerIs ==
    ASSUME TypeOK, Answer
    PROVE  /\ pc = "driving" /\ request = "live" /\ request' = "answered"
           /\ engine'.attempts = engine.attempts
           /\ engine'.captured = Captured(Settles(ops[current].usage))
           /\ RequestOnly /\ UNCHANGED calls
  <1>1. Captured(Settles(ops[current].usage)) \in SUBSET Nat
    BY EngineIs DEF Settles, Captured
  <1> QED  BY <1>1, OpsAre DEF Answer, EngineType, RequestOnly, PiOnly

LEMMA TypeStep == TypeOK /\ Sequence /\ [Next]_vars => TypeOK' \/ pc' = "misfit"
<1> SUFFICES ASSUME TypeOK, Sequence, [Next]_vars, pc' # "misfit"
             PROVE  TypeOK'
  OBVIOUS
<1> USE DEF constants, durable, volatile, Goto
<1>1. CASE Execute
  BY <1>1, BeginType DEF Execute, TypeOK
<1>2. CASE RefuseForeign \/ ThrowIfAborted \/ CompactionFailed \/ GiveUp \/ Detach
  BY <1>2, LeaveType DEF RefuseForeign, ThrowIfAborted, CompactionFailed, GiveUp, Detach
<1>3. CASE Reconcile \/ Reconciled \/ NothingOpen
  <2>1. engine' \in EngineType
    BY OpsAre, <1>3 DEF Reconcile, Reconciled, NothingOpen, EngineType
  <2> QED  BY <1>3, <2>1 DEF Reconcile, Reconciled, NothingOpen, TypeOK, Places
<1>4. CASE Recover
  <2>1. engine' \in EngineType  BY OpsAre, <1>4 DEF Recover, EngineType
  <2> QED  BY <1>4, <2>1 DEF Recover, TypeOK, Places
<1>5. CASE SettleOrphan
  <2>1. engine' \in EngineType  BY OpsAre, <1>5 DEF SettleOrphan, EngineType
  <2>2. calls' \in CallsType  BY <1>5, OpsAre, SettleCallsIs DEF SettleOrphan
  <2>3. current' \in Owned
    <3>1. pc = "recovered" /\ (current' = opened \/ current' = current)  BY <1>5 DEF SettleOrphan
    <3> QED  BY <3>1 DEF TypeOK, Sequence
  <2>4. /\ pc' \in {"driving", "check"}
        /\ UNCHANGED <<constants, status, tools, inputs, ops, batch, inbox, aligned,
                   used, lives, faults, pass, opened, request, abort, target>>
    BY <1>5 DEF SettleOrphan
  <2> QED  BY <2>1, <2>2, <2>3, <2>4 DEF TypeOK, Places
<1>6. CASE Attach \/ Align \/ BeginAccept \/ Drive \/ ContextDriven
  BY <1>6 DEF Attach, Align, BeginAccept, Drive, ContextDriven, Owned, TypeOK, Places
<1>7. CASE AcceptContext \/ AcceptPrompt
  <2>1. ops' \in OpsType
    BY OpsAre, <1>7 DEF AcceptContext, AcceptPrompt, Accept, Operation, Ats, OpsType
  <2> QED  BY <1>7, <2>1 DEF AcceptContext, AcceptPrompt, Accept, TypeOK, Places
<1>8. CASE RunDriven
  <2>1. ops["run"].outcome \in {"completed", "failed", "aborted"}
    BY <1>8, OpsAre DEF RunDriven, Driven, Sequence, Outcomes
  <2> QED  BY <1>8, <2>1, LeaveType DEF RunDriven
<1>9. CASE Reopen
  BY <1>9, BeginType DEF Reopen, TypeOK
<1>10. CASE RequestAbort
  <2>1. ops' \in OpsType
    <3> DEFINE c == ops[target].cancel \/ Open(target)
    <3>1. target \in Operations /\ ops' \in {ops, [ops EXCEPT ![target].cancel = c]}
      BY <1>10, OpsAre DEF RequestAbort, TypeOK
    <3>2. c \in BOOLEAN  OBVIOUS
    <3> HIDE DEF c
    <3> QED  BY <3>1, <3>2, OpsAre DEF Operation, OpsType
  <2>2. engine' \in EngineType
    BY OpsAre, <1>10 DEF RequestAbort, EngineType, Intents
  <2>3. tools' \in ToolType
    BY <1>10, ToolsType DEF RequestAbort, TypeOK
  <2> QED  BY <1>10, <2>1, <2>2, <2>3 DEF RequestAbort, TypeOK
<1>11. CASE StartModel
  <2>1. [usage |-> engine.pending, by |-> NoUsage] \in Calls
    BY OpsAre DEF EngineType, Calls, NoUsage
  <2>2. calls' \in CallsType
    BY <1>11, <2>1, AppendProperties DEF StartModel, CallsType, TypeOK
  <2> QED  BY <1>11, <2>2 DEF StartModel, PiOnly, TypeOK, Places
<1>12. CASE Register \/ Deny \/ Answer
  <2>1. Len(calls) \in Nat  BY CallsAre
  <2>2. Settles(ops[current].usage) \in SUBSET Nat
    BY OpsAre DEF Settles, EngineType
  <2>3. engine.captured \in SUBSET Nat /\ engine.attempts \in SUBSET Nat
    BY OpsAre DEF EngineType
  <2>4. /\ Captured({Len(calls)}) \in SUBSET Nat
        /\ Captured(Settles(ops[current].usage)) \in SUBSET Nat
    BY <2>1, <2>2, <2>3 DEF Captured
  <2>5. CASE Register
    <3>1. ops[current].cancel \in BOOLEAN  BY OpsAre DEF Operation, TypeOK
    <3>2. engine' \in EngineType
      BY <2>1, <2>3, <2>4, <2>5, <3>1, OpsAre DEF Register, EngineType
    <3> QED  BY <2>5, <3>2 DEF Register, PiOnly, TypeOK, Places
  <2>6. CASE Deny
    <3>1. engine' \in EngineType  BY <2>6, OpsAre DEF Deny, EngineType
    <3> QED  BY <2>6, <3>1 DEF Deny, TypeOK, Places
  <2>7. CASE Answer
    <3>1. engine' \in EngineType  BY <2>4, <2>7, OpsAre DEF Answer, EngineType
    <3> QED  BY <2>7, <3>1 DEF Answer, PiOnly, TypeOK, Places
  <2> QED  BY <1>12, <2>5, <2>6, <2>7
<1>13. ASSUME NEW o \in Operations, NEW n \in Outcomes, SettleAt(o, n)
       PROVE  TypeOK'
  <2>1. ops' \in OpsType
    BY OpsAre, <1>13 DEF SettleAt, Operation, Ats, OpsType
  <2> QED  BY <1>13, <2>1 DEF SettleAt, PiOnly, TypeOK
<1>14. ASSUME NEW o \in Owned, Intend(o)
       PROVE  TypeOK'
  <2>1. used + 1 \in Nat  BY DEF TypeOK
  <2>2. ops' \in OpsType
    <3> DEFINE u == used + 1
    <3>1. ops' = [ops EXCEPT ![o].at = "effect_pending", ![o].usage = u]  BY <1>14 DEF Intend
    <3> HIDE DEF u
    <3>2. u \in Nat  BY <2>1 DEF u
    <3> QED  BY <3>1, <3>2, OpsAre DEF Operation, Ats, OpsType
  <2>3. engine' \in EngineType
    <3> DEFINE u == used + 1
    <3>1. engine' = [engine EXCEPT !.pending = u]  BY <1>14 DEF Intend
    <3> HIDE DEF u
    <3>2. u \in Nat  BY <2>1 DEF u
    <3> QED  BY <3>1, <3>2, OpsAre DEF EngineType
  <2> QED  BY <1>14, <2>1, <2>2, <2>3 DEF Intend, PiOnly, TypeOK
<1>16. ASSUME NEW t \in Tools, StartTool(t)
       PROVE  TypeOK'
  <2>1. batch' \in BatchType
    BY <1>16 DEF StartTool, Batch, BatchType, TypeOK
  <2>2. engine' \in EngineType
    BY OpsAre, <1>16 DEF StartTool, Batch, EngineType, Intents
  <2>3. tools' \in ToolType
    BY <1>16, ToolsType DEF StartTool, Batch, TypeOK
  <2> QED  BY <1>16, <2>1, <2>2, <2>3 DEF StartTool, Batch, PiOnly, TypeOK
<1>17. ASSUME NEW t \in Tools, FinishTool(t)
       PROVE  TypeOK'
  <2>1. batch' \in BatchType  BY <1>17 DEF FinishTool, BatchType, TypeOK
  <2>2. tools' \in ToolType  BY <1>17 DEF FinishTool, ToolType, TypeOK
  <2> QED  BY <1>17, <2>1, <2>2 DEF FinishTool, PiOnly, TypeOK
<1>18. ASSUME NEW k \in {"cancel", "detach"}, Abort(k)
       PROVE  TypeOK'
  BY <1>18 DEF Abort, TypeOK
<1>19. ASSUME NEW next \in SUBSET Inputs, SetInbox(next)
       PROVE  TypeOK'
  <2>1. inputs' \in InputType  BY <1>19, InputsType DEF SetInbox
  <2>2. engine' \in EngineType  BY <1>19, OpsAre DEF SetInbox, EngineType
  <2> QED  BY <1>19, <2>1, <2>2 DEF SetInbox, TypeOK
<1>20. CASE RefuseCommit \/ Crash
  BY <1>20 DEF RefuseCommit, Crash, TypeOK, Places
<1>21. CASE UNCHANGED vars  BY <1>21 DEF vars, TypeOK
<1>22. ASSUME NEW o \in Owned, NEW n \in Nexts(o), Settle(o, n)
       PROVE  TypeOK'
  <2>1. calls' \in CallsType  BY <1>22, SettleIs, SettleCallsIs, OpsAre
  <2> QED  BY <1>22, <2>1, SettleIs DEF TypeOK, MovedTo, OpsKept
<1>23. CASE Navigate \/ SettleForeign \/ \E o \in Owned : Exhausted(o) \/ SettleAborted(o)
  BY <1>13, <1>23, OpsAre DEF Navigate, SettleForeign, Exhausted, SettleAborted, Outcomes
<1>24. ASSUME NEW i \in Inputs, Queue(i) \/ CancelQueued(i) \/ Deliver(i)
       PROVE  TypeOK'
  BY <1>19, <1>24 DEF Queue, CancelQueued, Deliver, TypeOK
<1> QED
  BY <1>1, <1>2, <1>3, <1>4, <1>5, <1>6, <1>7, <1>8, <1>9, <1>10, <1>11, <1>12, <1>14,
     <1>16, <1>17, <1>18, <1>20, <1>21, <1>22, <1>23, <1>24
  DEF Next, Engine, Pi, Outside
------------------------------------------------------------------------------
(* The steps that only move the drive, or leave it.                           *)
Control ==
    \/ RefuseForeign \/ Reconcile \/ Reconciled \/ NothingOpen \/ Recover
    \/ Attach \/ ThrowIfAborted \/ Align \/ BeginAccept \/ Drive
    \/ ContextDriven \/ CompactionFailed \/ RunDriven \/ GiveUp \/ Detach
    \/ \E k \in {"cancel", "detach"} : Abort(k)
    \/ RefuseCommit \/ Crash \/ UNCHANGED vars
Begins     == Execute \/ Reopen
Accepts    == AcceptContext \/ AcceptPrompt
Requests   == StartModel \/ Register \/ Deny \/ Answer
Ends       == Navigate \/ SettleForeign \/ \E o \in Owned : Exhausted(o) \/ SettleAborted(o)
Inboxes    == \E i \in Inputs : Queue(i) \/ CancelQueued(i) \/ Deliver(i)

EngineKept ==
    /\ engine' \in EngineType /\ engine'.pending = engine.pending
    /\ engine'.attempts = engine.attempts /\ engine'.captured = engine.captured
    /\ engine'.inbox = engine.inbox /\ engine'.started = engine.started

LEMMA ControlIs ==
    ASSUME TypeOK, Sequence, Control
    PROVE  /\ EngineKept /\ UNCHANGED <<constants, calls, tools, inputs, ops, batch, inbox, used>>
           /\ \/ pc' \in {"down", "faulted"} /\ (request' = "none" \/ (request' = request /\ pc' = pc))
              \/ /\ pc \notin {"down", "faulted"} /\ pc' \notin {"down", "faulted"} /\ request' = request
                 /\ pc = "driving" => (current' = current /\ pc' = pc) \/ ops[current].at = "settled"
                 /\ pc \in {"opened", "recovered"} => pc' \in {"opened", "recovered"} \/ ~Open("context")
  <1> USE DEF constants, durable, volatile, Goto
  <1>1. CASE RefuseForeign \/ ThrowIfAborted \/ CompactionFailed \/ RunDriven \/ GiveUp \/ Detach
    <2>1. \E s : Leave(s)
      BY <1>1 DEF RefuseForeign, ThrowIfAborted, CompactionFailed, RunDriven, GiveUp, Detach
    <2> QED  BY <2>1, OpsAre DEF Leave, EngineKept
  <1>2. CASE Reconcile
    <2>1. EngineKept  BY <1>2, OpsAre DEF Reconcile, EngineKept, EngineType
    <2>2. ~Open("context")  BY <1>2, OpsAre DEF Reconcile, Sequence
    <2> QED  BY <1>2, <2>1, <2>2 DEF Reconcile
  <1>3. CASE Reconciled
    <2>1. EngineKept  BY <1>3, OpsAre DEF Reconciled, EngineKept, EngineType
    <2> QED  BY <1>3, <2>1 DEF Reconciled
  <1>4. CASE Recover
    <2>1. EngineKept  BY <1>4, OpsAre DEF Recover, EngineKept, EngineType
    <2> QED  BY <1>4, <2>1 DEF Recover
  <1>5. CASE NothingOpen
    <2>1. ~Open("context")  BY <1>5, OpsAre DEF NothingOpen, Sequence
    <2> QED  BY <1>5, <2>1, OpsAre DEF NothingOpen, EngineKept
  <1>6. CASE Attach \/ Align \/ BeginAccept \/ Drive
    BY <1>6, OpsAre DEF Attach, Align, BeginAccept, Drive, EngineKept
  <1>7. CASE ContextDriven
    BY <1>7, OpsAre DEF ContextDriven, Driven, EngineKept
  <1>8. CASE \E k \in {"cancel", "detach"} : Abort(k)
    BY <1>8, OpsAre DEF Abort, EngineKept
  <1>9. CASE RefuseCommit \/ Crash
    BY <1>9, OpsAre DEF RefuseCommit, Crash, EngineKept
  <1>10. CASE UNCHANGED vars
    BY <1>10, OpsAre DEF vars, EngineKept
  <1> QED  BY <1>1, <1>2, <1>3, <1>4, <1>5, <1>6, <1>7, <1>8, <1>9, <1>10 DEF Control

LEMMA BeginIs ==
    ASSUME TypeOK, Begins
    PROVE  /\ UNCHANGED <<constants, calls, tools, inputs, ops, batch, inbox, aligned, used>>
           /\ pc' = "opened" /\ request' = "none"
           /\ opened' = IF \E o \in Operations : Open(o) THEN CHOOSE o \in Operations : Open(o) ELSE "none"
           /\ engine'.attempts = {c \in DOMAIN calls : Unsettled(c)}
           /\ engine'.inbox = inbox /\ engine'.started = {t \in Tools : tools[t].started > 0}
  <1>1. \E n : Begin(n)  BY DEF Begins, Execute, Reopen
  <1> QED  BY <1>1 DEF Begins, Execute, Reopen, Begin, Restored, constants, durable

LEMMA SettleOrphanIs ==
    ASSUME TypeOK, SettleOrphan
    PROVE  /\ pc = "recovered" /\ request' = request
           /\ SettleCalls(Orphans, ops["context"].usage)
           /\ engine'.attempts = engine.attempts \ Orphans
           /\ engine'.inbox = engine.inbox /\ engine'.started = engine.started
           /\ \/ pc' = "driving" /\ current' = opened
              \/ pc' = "check"
           /\ UNCHANGED <<constants, status, tools, inputs, ops, batch, inbox, aligned, used, opened>>
  BY OpsAre DEF SettleOrphan, EngineType

LEMMA InboxStep == TypeOK /\ Inboxes => \E next \in SUBSET Inputs : SetInbox(next)
  BY DEF TypeOK, Inboxes, Queue, CancelQueued, Deliver

LEMMA EndIs ==
    ASSUME TypeOK, Sequence, Ends
    PROVE  \E o \in Operations, n \in Outcomes \ {"none"} :
             /\ SettleAt(o, n)
             /\ \/ pc = "reconcile" /\ o = "other"
                \/ pc = "driving" /\ current = o /\ o \in Owned /\ ops[o].at # "effect_pending"
  <1>1. CASE Navigate
    BY <1>1, OpsAre DEF Navigate, Driving, Sequence, Outcomes
  <1>2. CASE SettleForeign
    BY <1>2, OpsAre DEF SettleForeign, Outcomes
  <1>3. ASSUME NEW o \in Owned, Exhausted(o) \/ SettleAborted(o)
        PROVE  \E n \in Outcomes \ {"none"} :
                 SettleAt(o, n) /\ pc = "driving" /\ current = o /\ ops[o].at # "effect_pending"
    BY <1>3 DEF Exhausted, SettleAborted, Driving, AtBoundary, Outcomes
  <1> QED  BY <1>1, <1>2, <1>3, OpsAre DEF Ends

LEMMA StartToolIs ==
    ASSUME TypeOK, Tooled, NEW t \in Tools, StartTool(t), Sequence
    PROVE  /\ pc = "driving" /\ pc' = pc /\ batch[t] = "planned"
           /\ batch' = [batch EXCEPT ![t] = "effect_pending"]
           /\ tools' = [tools EXCEPT ![t].started = @ + 1]
           /\ engine' \in EngineType /\ engine'.pending = engine.pending
           /\ engine'.attempts = engine.attempts /\ engine'.captured = engine.captured
           /\ engine'.inbox = engine.inbox /\ engine'.started = engine.started \cup {t}
           /\ UNCHANGED <<constants, status, calls, ops, inputs, inbox, aligned, used, request, current, opened>>
  <1> DEFINE b == [batch EXCEPT ![t] = "effect_pending"]
  <1>1. pc = "driving" /\ ops["run"].at = "tools" /\ batch[t] = "planned" /\ Batch(b)
        /\ \A u \in Tools : batch[u] # "effect_pending"
    BY DEF StartTool, Driving
  <1>2. Intents(b) = {t}
    BY <1>1 DEF Intents, TypeOK, BatchType, Tooled
  <1>3. engine.known  BY <1>1 DEF Tooled
  <1>4. batch' = b /\ ProjectIntents(b) /\ pc' = pc
        /\ engine' = [engine EXCEPT !.started = @ \cup {t}]
    BY <1>1, <1>2, <1>3 DEF Batch
  <1>5. tools' = [tools EXCEPT ![t].started = @ + 1]
    BY <1>2, <1>4 DEF ProjectIntents, TypeOK, ToolType
  <1>6. /\ engine' \in EngineType /\ engine'.pending = engine.pending
        /\ engine'.attempts = engine.attempts /\ engine'.captured = engine.captured
        /\ engine'.inbox = engine.inbox /\ engine'.started = engine.started \cup {t}
    BY <1>4, OpsAre DEF EngineType
  <1>7. UNCHANGED <<constants, status, calls, ops, inputs, inbox, aligned, used, request, current, opened>>
    BY <1>1 DEF Batch, PiOnly
  <1> QED  BY <1>1, <1>4, <1>5, <1>6, <1>7

LEMMA NoIntents == Tooled => Intents(batch) = {}
  BY DEF Tooled, Intents

------------------------------------------------------------------------------
(* The inbox.                                                                 *)
LEMMA BoxedStep == TypeOK /\ Sequence /\ Tooled /\ Boxed /\ [Next]_vars /\ pc' # "misfit" => Boxed'
<1> SUFFICES ASSUME TypeOK, Sequence, Tooled, Boxed, [Next]_vars, pc' # "misfit"
             PROVE  Boxed'
  OBVIOUS
<1>1. engine'.inbox = engine.inbox /\ UNCHANGED <<inbox, inputs>> => Boxed'
  BY DEF Boxed, InputsLogged
<1>2. CASE Control  BY <1>1, <1>2, ControlIs DEF EngineKept
<1>3. CASE Begins  BY <1>3, BeginIs DEF Boxed, InputsLogged
<1>4. CASE SettleOrphan  BY <1>1, <1>4, SettleOrphanIs
<1>5. CASE Accepts
  BY <1>1, <1>5, AcceptIs, OpsAre DEF Accepts, AcceptContext, AcceptPrompt
<1>6. CASE RequestAbort  BY <1>1, <1>6, RequestAbortIs, NoIntents
<1>7. CASE Requests
  BY <1>1, <1>7, StartModelIs, RegisterIs, DenyIs, AnswerIs DEF Requests, RequestOnly
<1>8. CASE Ends  BY <1>1, <1>8, EndIs, SettleAtIs
<1>9. ASSUME NEW o \in Owned, Intend(o)
      PROVE  Boxed'
  BY <1>1, <1>9, IntendIs
<1>10. ASSUME NEW o \in Owned, NEW n \in Nexts(o), Settle(o, n)
       PROVE  Boxed'
  BY <1>1, <1>10, SettleIs
<1>11. ASSUME NEW t \in Tools, StartTool(t) \/ FinishTool(t)
       PROVE  Boxed'
  BY <1>1, <1>11, StartToolIs DEF FinishTool
<1>12. ASSUME NEW next \in SUBSET Inputs, SetInbox(next)
       PROVE  Boxed'
  <2>1. inbox' = next /\ engine'.inbox = next /\ ProjectInbox(next)  BY <1>12, InboxIs
  <2>2. \A i \in Inputs : inputs[i].queued \in Nat /\ inputs[i].consumed \in Nat
    BY DEF TypeOK, InputType
  <2>3. \A i \in Inputs :
          /\ inputs'[i].queued = inputs[i].queued + IF i \in next \ inbox THEN 1 ELSE 0
          /\ inputs'[i].consumed = inputs[i].consumed + IF i \in inbox \ next THEN 1 ELSE 0
    BY <2>1 DEF ProjectInbox, Boxed
  <2> QED  BY <2>1, <2>2, <2>3 DEF Boxed, InputsLogged
<1> QED
  BY <1>2, <1>3, <1>4, <1>5, <1>6, <1>7, <1>8, <1>9, <1>10, <1>11, <1>12, InboxStep
  DEF Next, Engine, Pi, Outside, Control, Begins, Accepts, Requests, Ends, Inboxes
------------------------------------------------------------------------------
(* The tools.                                                                 *)
LEMMA KnownKept ==
    ASSUME TypeOK, engine.known,
           \/ Reconciled \/ Attach \/ ThrowIfAborted \/ Align \/ BeginAccept \/ Drive
           \/ ContextDriven \/ CompactionFailed \/ RunDriven \/ GiveUp \/ Detach
           \/ \E k \in {"cancel", "detach"} : Abort(k)
           \/ RefuseCommit \/ Crash \/ UNCHANGED vars
           \/ SettleOrphan \/ Accepts \/ Requests \/ Ends \/ Inboxes
           \/ RequestAbort \/ \E t \in Tools : StartTool(t) \/ FinishTool(t)
           \/ \E o \in Owned : Intend(o)
    PROVE  engine'.known
  <1> USE OpsAre DEF EngineType
  <1>1. CASE \/ Reconciled \/ Attach \/ ThrowIfAborted \/ Align \/ BeginAccept \/ Drive
             \/ ContextDriven \/ CompactionFailed \/ RunDriven \/ GiveUp \/ Detach
             \/ \E k \in {"cancel", "detach"} : Abort(k)
             \/ RefuseCommit \/ Crash \/ UNCHANGED vars
    <2>1. engine' \in {engine, [engine EXCEPT !.reconciles = FALSE]}
      BY <1>1 DEF Reconciled, Attach, ThrowIfAborted, Align, BeginAccept, Drive, ContextDriven,
         CompactionFailed, RunDriven, GiveUp, Detach, Leave, Goto, Abort, RefuseCommit, Crash, vars, volatile
    <2> QED  BY <2>1
  <1>2. CASE SettleOrphan  BY <1>2 DEF SettleOrphan
  <1>3. CASE Accepts  BY <1>3 DEF Accepts, AcceptContext, AcceptPrompt, Accept
  <1>4. CASE StartModel \/ Deny  BY <1>4 DEF StartModel, Deny
  <1>5. CASE Register
    <2>1. \E A, C, d : engine' = [engine EXCEPT !.attempts = A, !.denied = d, !.captured = C]
      BY <1>5 DEF Register
    <2> QED  BY <2>1
  <1>6. CASE Answer
    <2>1. \E C : engine' = [engine EXCEPT !.captured = C]  BY <1>6 DEF Answer
    <2> QED  BY <2>1
  <1>7. CASE Ends
    BY <1>7 DEF Ends, Navigate, SettleForeign, Exhausted, SettleAborted, SettleAt
  <1>8. CASE Inboxes
    <2>1. \E next : engine' = [engine EXCEPT !.inbox = next]
      BY <1>8 DEF Inboxes, Queue, CancelQueued, Deliver, SetInbox
    <2> QED  BY <2>1
  <1>9. CASE RequestAbort \/ \E t \in Tools : StartTool(t) \/ FinishTool(t)
    <2>1. engine' = engine \/ \E S : engine' = [engine EXCEPT !.started = S]
      BY <1>9 DEF RequestAbort, StartTool, Batch, FinishTool
    <2> QED  BY <2>1
  <1>10. CASE \E o \in Owned : Intend(o)
    <2>1. \E u : engine' = [engine EXCEPT !.pending = u]  BY <1>10 DEF Intend
    <2> QED  BY <2>1
  <1> QED  BY <1>1, <1>2, <1>3, <1>4, <1>5, <1>6, <1>7, <1>8, <1>9, <1>10 DEF Requests

LEMMA KnownStep ==
    ASSUME TypeOK, Sequence, Tooled, [Next]_vars, pc' # "misfit",
           pc' \notin {"down", "opened", "faulted"}, ops'["run"].at = "tools"
    PROVE  engine'.known
  <1>1. CASE Begins  BY <1>1, BeginIs
  <1>2. CASE Reconcile \/ NothingOpen
    <2>1. ops["run"].at # "tools" /\ ops' = ops
      BY <1>2, OpsAre DEF Reconcile, NothingOpen, Goto, durable, Sequence, PromptFollowsContext, Open
    <2> QED  BY <2>1
  <1>3. CASE Recover
    <2>1. ops' = ops /\ opened = "run" /\ pc = "opened"
      BY <1>3, OpsAre DEF Recover, Sequence, durable, Open
    <2>2. engine' = [engine EXCEPT !.known = TRUE]  BY <1>3, <2>1 DEF Recover
    <2> QED  BY <2>2, OpsAre DEF EngineType
  <1>4. CASE RefuseForeign  BY <1>4 DEF RefuseForeign, Leave
  <1>5. ASSUME NEW o \in Owned, NEW n \in Nexts(o), Settle(o, n)
        PROVE  engine'.known
    <2>1. CASE o = "run"  BY <1>5, <2>1, SettleKnows
    <2>2. CASE o = "context"
      <3>1. pc = "driving" /\ current = "context" /\ ops'["run"].at = ops["run"].at
        BY <1>5, <2>2, SettleIs, OpsAre DEF MovedTo, OpsKept
      <3> QED  BY <3>1 DEF Sequence
    <2> QED  BY <2>1, <2>2 DEF Owned
  <1>6. CASE \/ Reconciled \/ Attach \/ ThrowIfAborted \/ Align \/ BeginAccept \/ Drive
             \/ ContextDriven \/ CompactionFailed \/ RunDriven \/ GiveUp \/ Detach
             \/ \E k \in {"cancel", "detach"} : Abort(k)
             \/ RefuseCommit \/ Crash \/ UNCHANGED vars
             \/ SettleOrphan \/ Accepts \/ Requests \/ Ends \/ Inboxes
             \/ RequestAbort \/ \E t \in Tools : StartTool(t) \/ FinishTool(t)
             \/ \E o \in Owned : Intend(o)
    <2>1. pc \notin {"down", "opened", "faulted"}
      <3>1. CASE \/ Reconciled \/ Attach \/ ThrowIfAborted \/ Align \/ BeginAccept \/ Drive
                 \/ ContextDriven \/ CompactionFailed \/ RunDriven \/ GiveUp \/ Detach
                 \/ \E k \in {"cancel", "detach"} : Abort(k)
                 \/ RefuseCommit \/ Crash \/ UNCHANGED vars
        BY <3>1 DEF Reconciled, Attach, ThrowIfAborted, Align, BeginAccept, Drive, ContextDriven, Driven,
           CompactionFailed, RunDriven, GiveUp, Detach, Leave, Abort, RefuseCommit, Crash, vars, volatile
      <3>2. CASE SettleOrphan \/ Accepts \/ Requests \/ Ends
        BY <3>2, SettleOrphanIs, StartModelIs, RegisterIs, DenyIs, AnswerIs, EndIs
        DEF Accepts, AcceptContext, AcceptPrompt, Requests
      <3>3. CASE Inboxes  BY <3>3, InboxStep, InboxIs
      <3>4. CASE RequestAbort  BY <3>4, RequestAbortIs, NoIntents
      <3>5. CASE (\E t \in Tools : StartTool(t) \/ FinishTool(t)) \/ \E o \in Owned : Intend(o)
        BY <3>5 DEF StartTool, FinishTool, Intend, Driving
      <3> QED  BY <1>6, <3>1, <3>2, <3>3, <3>4, <3>5
    <2>2. ops["run"].at = "tools"
      <3>1. CASE \/ Reconciled \/ Attach \/ ThrowIfAborted \/ Align \/ BeginAccept \/ Drive
                 \/ ContextDriven \/ CompactionFailed \/ RunDriven \/ GiveUp \/ Detach
                 \/ \E k \in {"cancel", "detach"} : Abort(k)
                 \/ RefuseCommit \/ Crash \/ UNCHANGED vars
        BY <3>1, ControlIs DEF Control
      <3>2. CASE SettleOrphan \/ Requests
        BY <3>2, SettleOrphanIs, StartModelIs, RegisterIs, DenyIs, AnswerIs DEF Requests, RequestOnly
      <3>3. CASE Accepts
        BY <3>3, AcceptIs, OpsAre DEF Accepts, AcceptContext, AcceptPrompt, MovedTo, OpsKept
      <3>4. CASE Ends  BY <3>4, EndIs, SettleAtIs, OpsAre DEF MovedTo, OpsKept
      <3>5. CASE Inboxes  BY <3>5, InboxStep, InboxIs
      <3>6. CASE RequestAbort  BY <3>6, RequestAbortIs, NoIntents, OpsAre DEF OpsKept
      <3>7. CASE \E t \in Tools : StartTool(t) \/ FinishTool(t)
        BY <3>7, StartToolIs DEF FinishTool
      <3>8. CASE \E o \in Owned : Intend(o)
        BY <3>8, IntendIs, OpsAre DEF OpsKept
      <3> QED  BY <1>6, <3>1, <3>2, <3>3, <3>4, <3>5, <3>6, <3>7, <3>8
    <2> QED  BY <1>6, <2>1, <2>2, KnownKept DEF Tooled
  <1> QED
    BY <1>1, <1>2, <1>3, <1>4, <1>5, <1>6
    DEF Next, Engine, Pi, Outside, Begins, Accepts, Requests, Ends, Inboxes

LEMMA TooledStep == TypeOK /\ Sequence /\ Tooled /\ [Next]_vars /\ pc' # "misfit" => Tooled'
<1> SUFFICES ASSUME TypeOK, Sequence, Tooled, [Next]_vars, pc' # "misfit"
             PROVE  Tooled'
  OBVIOUS
<1>0. pc' \notin {"down", "opened", "faulted"} /\ ops'["run"].at = "tools" => engine'.known
  BY KnownStep
<1>1. engine'.started = engine.started /\ UNCHANGED <<tools, batch>> => Tooled'
  BY <1>0 DEF Tooled, ToolsOnce
<1>2. CASE Control  BY <1>1, <1>2, ControlIs DEF EngineKept
<1>3. CASE Begins
  BY <1>0, <1>3, BeginIs DEF Tooled, ToolsOnce
<1>4. CASE SettleOrphan  BY <1>1, <1>4, SettleOrphanIs
<1>5. CASE Accepts
  BY <1>1, <1>5, AcceptIs, OpsAre DEF Accepts, AcceptContext, AcceptPrompt
<1>6. CASE RequestAbort  BY <1>1, <1>6, RequestAbortIs, NoIntents
<1>7. CASE Requests
  BY <1>1, <1>7, StartModelIs, RegisterIs, DenyIs, AnswerIs DEF Requests, RequestOnly
<1>8. CASE Ends  BY <1>1, <1>8, EndIs, SettleAtIs
<1>9. ASSUME NEW o \in Owned, Intend(o)
      PROVE  Tooled'
  BY <1>1, <1>9, IntendIs
<1>10. ASSUME NEW o \in Owned, NEW n \in Nexts(o), Settle(o, n)
       PROVE  Tooled'
  BY <1>0, <1>10, SettleIs DEF Tooled, ToolsOnce
<1>11. ASSUME NEW t \in Tools, StartTool(t)
       PROVE  Tooled'
  <2>1. /\ batch[t] = "planned" /\ batch' = [batch EXCEPT ![t] = "effect_pending"]
        /\ tools' = [tools EXCEPT ![t].started = @ + 1]
        /\ engine'.started = engine.started \cup {t}
    BY <1>11, StartToolIs
  <2>2. /\ batch'[t] = "effect_pending" /\ \A u \in Tools : u # t => batch'[u] = batch[u]
        /\ tools'[t].started = tools[t].started + 1 /\ tools'[t].result = tools[t].result
        /\ \A u \in Tools : u # t => tools'[u] = tools[u]
    BY <2>1 DEF TypeOK, BatchType, ToolType
  <2> QED  BY <1>0, <2>1, <2>2 DEF Tooled, ToolsOnce
<1>12. ASSUME NEW t \in Tools, FinishTool(t)
       PROVE  Tooled'
  <2>1. /\ batch[t] = "effect_pending" /\ batch' = [batch EXCEPT ![t] = "done"]
        /\ tools' = [tools EXCEPT ![t].result = @ + 1]
        /\ engine' = engine
    BY <1>12 DEF FinishTool
  <2>2. /\ batch'[t] = "done" /\ \A u \in Tools : u # t => batch'[u] = batch[u]
        /\ tools'[t].started = tools[t].started /\ tools'[t].result = tools[t].result + 1
        /\ \A u \in Tools : u # t => tools'[u] = tools[u]
    BY <2>1 DEF TypeOK, BatchType, ToolType
  <2> QED  BY <1>0, <2>1, <2>2 DEF Tooled, ToolsOnce
<1>13. ASSUME NEW next \in SUBSET Inputs, SetInbox(next)
       PROVE  Tooled'
  BY <1>1, <1>13, InboxIs
<1> QED
  BY <1>2, <1>3, <1>4, <1>5, <1>6, <1>7, <1>8, <1>9, <1>10, <1>11, <1>12, <1>13, InboxStep
  DEF Next, Engine, Pi, Outside, Control, Begins, Accepts, Requests, Ends, Inboxes
------------------------------------------------------------------------------
(* The attempts.                                                              *)

\* An attempt that is settled with the usage of its own request stays in balance.
LEMMA SettledIs ==
    ASSUME TypeOK, Ledger, NEW C, NEW u \in Nat, SettleCalls(C, u),
           \A c \in C : calls[c].usage = u, UNCHANGED used
    PROVE  /\ \A c, d \in DOMAIN calls' : calls'[c].usage = calls'[d].usage => c = d
           /\ \A c \in DOMAIN calls' : /\ calls'[c].usage # NoUsage /\ calls'[c].usage <= used'
                                       /\ calls'[c].by \in {NoUsage, calls'[c].usage}
                                       /\ Unsettled(c)' <=> Unsettled(c) /\ c \notin C
           /\ Len(calls') = Len(calls) /\ DOMAIN calls' = DOMAIN calls
           /\ \A c \in DOMAIN calls : calls'[c].usage = calls[c].usage
  <1>1. /\ Len(calls') = Len(calls) /\ DOMAIN calls' = DOMAIN calls
        /\ \A c \in DOMAIN calls : /\ calls'[c].usage = calls[c].usage
                                   /\ calls'[c].by = IF c \in C /\ Unsettled(c) THEN u ELSE calls[c].by
    BY SettleCallsIs
  <1> QED  BY <1>1 DEF Ledger, Unsettled

\* The operations of the turn wait as before.
LEMMA LedgerKept ==
    ASSUME Ledger, UNCHANGED <<calls, used>>,
           \A o \in Owned : \/ ops'[o].at = ops[o].at /\ ops'[o].usage = ops[o].usage
                            \/ ops[o].at # "effect_pending" /\ ops'[o].at # "effect_pending"
    PROVE  Ledger'
  BY DEF Ledger, Waited, Unsettled

\* The commit of Pi that ends a wait settles whatever waited for it.
LEMMA AnsweredIs ==
    ASSUME TypeOK, Sequence, Ledger, Asking, NEW o \in Owned,
           pc = "driving", current = o, ops[o].at = "effect_pending", request \in {"none", "answered", "failed"}
    PROVE  /\ \A c \in Answered(o) : c \in DOMAIN calls /\ calls[c].usage = ops[o].usage
           /\ \A c \in DOMAIN calls : Unsettled(c) => c \in Answered(o)
  <1>1. engine.attempts = {c \in DOMAIN calls : Unsettled(c)}
    BY DEF Asking
  <1>2. \A p \in Owned : ops[p].at = "effect_pending" => p = o
    BY DEF Sequence, PromptFollowsContext, Owned
  <1>3. \A c \in DOMAIN calls : Unsettled(c) => calls[c].usage = ops[o].usage
    BY <1>2 DEF Ledger, Waited
  <1>4. CASE o = "context" /\ request = "none"
    BY <1>4 DEF Asking, Answered
  <1>5. CASE ~(o = "context" /\ request = "none")
    BY <1>1, <1>3, <1>5 DEF Answered, Settles
  <1> QED  BY <1>4, <1>5

LEMMA LedgerStep ==
    TypeOK /\ Sequence /\ Tooled /\ Ledger /\ Asking /\ [Next]_vars /\ pc' # "misfit" => Ledger'
<1> SUFFICES ASSUME TypeOK, Sequence, Tooled, Ledger, Asking, [Next]_vars, pc' # "misfit"
             PROVE  Ledger'
  OBVIOUS
<1>1. UNCHANGED <<calls, used, ops>> => Ledger'
  BY LedgerKept
<1>2. CASE Control  BY <1>1, <1>2, ControlIs
<1>3. CASE Begins  BY <1>1, <1>3, BeginIs
<1>4. CASE SettleOrphan
  <2>1. \A c \in Orphans : calls[c].usage = ops["context"].usage  BY DEF Orphans
  <2>2. UNCHANGED <<ops, used>> /\ SettleCalls(Orphans, ops["context"].usage)
    BY <1>4, SettleOrphanIs
  <2>3. /\ \A c, d \in DOMAIN calls' : calls'[c].usage = calls'[d].usage => c = d
        /\ \A c \in DOMAIN calls' : /\ calls'[c].usage # NoUsage /\ calls'[c].usage <= used'
                                    /\ calls'[c].by \in {NoUsage, calls'[c].usage}
                                    /\ Unsettled(c)' => Unsettled(c)
        /\ DOMAIN calls' = DOMAIN calls
        /\ \A c \in DOMAIN calls : calls'[c].usage = calls[c].usage
    BY <2>1, <2>2, SettledIs, OpsAre
  <2>4. ASSUME NEW c \in DOMAIN calls'
        PROVE  /\ calls'[c].usage # NoUsage /\ calls'[c].usage <= used'
               /\ calls'[c].by \in {NoUsage, calls'[c].usage}
               /\ Unsettled(c)' => Waited(calls[c].usage)'
    BY <2>2, <2>3 DEF Ledger, Waited
  <2>5. \A o \in Owned : ops'[o].at = "effect_pending" => ops'[o].usage # NoUsage /\ ops'[o].usage <= used'
    BY <2>2 DEF Ledger
  <2> QED  BY <2>3, <2>4, <2>5 DEF Ledger
<1>5. CASE Accepts
  <2>1. CASE AcceptContext
    <3>1. pc = "context" /\ Accept("context")  BY <2>1 DEF AcceptContext
    <3>2. ops["context"].at # "effect_pending"  BY <3>1 DEF Sequence
    <3> QED  BY <3>1, <3>2, AcceptIs, LedgerKept, OpsAre DEF MovedTo, OpsKept
  <2>2. CASE AcceptPrompt
    <3>1. pc = "accepting" /\ Accept("run")  BY <2>2 DEF AcceptPrompt
    <3>2. ops["run"].at # "effect_pending"  BY <3>1 DEF Sequence
    <3> QED  BY <3>1, <3>2, AcceptIs, LedgerKept, OpsAre DEF MovedTo, OpsKept
  <2> QED  BY <1>5, <2>1, <2>2 DEF Accepts
<1>6. CASE RequestAbort
  BY <1>6, RequestAbortIs, NoIntents, LedgerKept, OpsAre DEF OpsKept, Owned
<1>7. CASE StartModel
  <2>1. /\ pc = "driving" /\ request = "due"
        /\ calls' = Append(calls, [usage |-> engine.pending, by |-> NoUsage])
        /\ UNCHANGED <<ops, used>>
    BY <1>7, StartModelIs DEF RequestOnly
  <2> DEFINE u == ops[current].usage
  <2>2. /\ current \in Owned /\ ops[current].at = "effect_pending" /\ engine.pending = u
        /\ u # NoUsage /\ u <= used /\ \A c \in DOMAIN calls : calls[c].usage # u
    BY <2>1 DEF Asking, Ledger, TypeOK
  <2>3. /\ DOMAIN calls' = DOMAIN calls \cup {Len(calls) + 1}
        /\ \A c \in DOMAIN calls : calls'[c] = calls[c] /\ c # Len(calls) + 1
        /\ calls'[Len(calls) + 1] = [usage |-> u, by |-> NoUsage]
    <3>1. calls \in Seq(Calls)  BY DEF TypeOK, CallsType
    <3>2. [usage |-> u, by |-> NoUsage] \in Calls  BY <2>2, OpsAre DEF Calls, NoUsage
    <3> QED  BY <2>1, <2>2, <3>1, <3>2, CallsAre, AppendProperties
  <2>4. calls'[Len(calls) + 1].usage = u /\ calls'[Len(calls) + 1].by = NoUsage  BY <2>3
  <2> HIDE DEF u
  <2>5. \A c, d \in DOMAIN calls' : calls'[c].usage = calls'[d].usage => c = d
    BY <2>2, <2>3, <2>4 DEF Ledger
  <2>6. ASSUME NEW c \in DOMAIN calls'
        PROVE  /\ calls'[c].usage # NoUsage /\ calls'[c].usage <= used'
               /\ calls'[c].by \in {NoUsage, calls'[c].usage}
               /\ Unsettled(c)' => Waited(calls[c].usage)'
    <3>1. CASE c \in DOMAIN calls  BY <2>1, <2>3, <3>1 DEF Ledger, Unsettled, Waited
    <3>2. CASE c = Len(calls) + 1  BY <2>1, <2>2, <2>4, <3>2 DEF Waited, u
    <3> QED  BY <2>3, <3>1, <3>2
  <2> QED  BY <2>1, <2>5, <2>6 DEF Ledger
<1>8. CASE Register \/ Deny \/ Answer
  BY <1>1, <1>8, RegisterIs, DenyIs, AnswerIs DEF RequestOnly
<1>9. CASE Ends
  BY <1>9, EndIs, SettleAtIs, LedgerKept, OpsAre DEF MovedTo, OpsKept, Owned
<1>10. ASSUME NEW o \in Owned, Intend(o)
       PROVE  Ledger'
  <2>1. /\ AtBoundary(o) /\ UNCHANGED calls /\ used' = used + 1 /\ used \in Nat
        /\ OpsKept(o) /\ ops'[o].at = "effect_pending" /\ ops'[o].usage = used + 1
    BY <1>10, IntendIs DEF TypeOK
  <2>2. ops[o].at # "effect_pending"  BY <2>1 DEF AtBoundary
  <2>3. \A p \in Owned : p # o => ops'[p].at = ops[p].at /\ ops'[p].usage = ops[p].usage
    BY <2>1, OpsAre DEF OpsKept
  <2>4. \A c \in DOMAIN calls : Unsettled(c)' <=> Unsettled(c)  BY <2>1 DEF Unsettled
  <2>5. \A c \in DOMAIN calls : Unsettled(c)' => Waited(calls[c].usage)'
    BY <2>1, <2>2, <2>3, <2>4 DEF Ledger, Waited
  <2>6. \A p \in Owned : ops'[p].at = "effect_pending" => ops'[p].usage # NoUsage /\ ops'[p].usage <= used'
    BY <2>1, <2>3, OpsAre DEF Ledger, NoUsage
  <2>7. \A c \in DOMAIN calls : calls[c].usage <= used'
    BY <2>1, CallsAre DEF Ledger
  <2> QED  BY <2>1, <2>5, <2>6, <2>7 DEF Ledger
<1>11. ASSUME NEW o \in Owned, NEW n \in Nexts(o), Settle(o, n)
       PROVE  Ledger'
  <2>1. /\ pc = "driving" /\ current = o /\ ops[o].at = "effect_pending"
        /\ request \in {"none", "answered", "failed"} /\ UNCHANGED used
        /\ SettleCalls(Answered(o), ops[o].usage) /\ OpsKept(o) /\ ops'[o].at # "effect_pending"
    BY <1>11, SettleIs DEF MovedTo
  <2>2. /\ \A c \in Answered(o) : c \in DOMAIN calls /\ calls[c].usage = ops[o].usage
        /\ \A c \in DOMAIN calls : Unsettled(c) => c \in Answered(o)
    BY <2>1, AnsweredIs
  <2>3. \A c \in DOMAIN calls' : ~Unsettled(c)'
    BY <2>1, <2>2, SettledIs, OpsAre
  <2>4. \A p \in Owned : ops'[p].at = "effect_pending" => ops'[p].usage # NoUsage /\ ops'[p].usage <= used'
    BY <2>1, OpsAre DEF Ledger, OpsKept
  <2> QED  BY <2>1, <2>2, <2>3, <2>4, SettledIs, OpsAre DEF Ledger
<1>12. ASSUME NEW t \in Tools, StartTool(t) \/ FinishTool(t)
       PROVE  Ledger'
  BY <1>1, <1>12, StartToolIs DEF FinishTool, PiOnly
<1>13. ASSUME NEW next \in SUBSET Inputs, SetInbox(next)
       PROVE  Ledger'
  BY <1>1, <1>13, InboxIs
<1> QED
  BY <1>2, <1>3, <1>4, <1>5, <1>6, <1>7, <1>8, <1>9, <1>10, <1>11, <1>12, <1>13, InboxStep
  DEF Next, Engine, Pi, Outside, Control, Begins, Accepts, Requests, Ends, Inboxes
------------------------------------------------------------------------------
(* The request.                                                               *)
LEMMA AskingStep ==
    TypeOK /\ Sequence /\ Tooled /\ Ledger /\ Asking /\ [Next]_vars /\ pc' # "misfit" => Asking'
<1> SUFFICES ASSUME TypeOK, Sequence, Tooled, Ledger, Asking, [Next]_vars, pc' # "misfit"
             PROVE  Asking'
  OBVIOUS
<1>0. /\ current \in Owned /\ DOMAIN calls = 1 .. Len(calls) /\ Len(calls) \in Nat
      /\ request \in {"none", "due", "starting", "live", "answered", "failed"}
  BY CallsAre DEF TypeOK
<1>1. CASE Control
  <2>1. /\ EngineKept /\ UNCHANGED <<calls, ops>>
        /\ \/ pc' \in {"down", "faulted"} /\ (request' = "none" \/ (request' = request /\ pc' = pc))
           \/ /\ pc \notin {"down", "faulted"} /\ pc' \notin {"down", "faulted"} /\ request' = request
              /\ pc = "driving" => (current' = current /\ pc' = pc) \/ ops[current].at = "settled"
              /\ pc \in {"opened", "recovered"} => pc' \in {"opened", "recovered"} \/ ~Open("context")
    BY <1>1, ControlIs
  <2>2. request' = request \/ request' = "none"  BY <2>1
  <2>3. request' # "none" => UNCHANGED <<pc, current, request>>
    BY <2>1 DEF Asking
  <2>4. \A u : Settles(u)' = Settles(u)
    BY <2>1 DEF Settles, EngineKept
  <2>5. CASE request' # "none"
    BY <2>1, <2>3, <2>4, <2>5 DEF Asking, EngineKept, Unsettled
  <2>6. CASE request' = "none"
    <3>1. pc' \notin {"down", "faulted"} => request = "none"  BY <2>1, <2>6
    <3>2. pc' \notin {"down", "faulted"} => engine'.attempts = {c \in DOMAIN calls : Unsettled(c)}
      BY <2>1, <3>1 DEF Asking, EngineKept
    <3>3. pc' \notin {"down", "faulted", "opened", "recovered"} /\ ops'["context"].at = "effect_pending"
            => \A c \in DOMAIN calls : ~Unsettled(c)
      BY <2>1, <3>1 DEF Asking, Open
    <3> QED  BY <2>1, <2>6, <3>2, <3>3 DEF Asking, Unsettled
  <2> QED  BY <2>5, <2>6
<1>2. CASE Begins
  BY <1>2, BeginIs DEF Asking, Unsettled
<1>3. CASE SettleOrphan
  <2>1. /\ pc = "recovered" /\ request' = request /\ pc' \in {"driving", "check"}
        /\ SettleCalls(Orphans, ops["context"].usage)
        /\ engine'.attempts = engine.attempts \ Orphans
        /\ UNCHANGED <<ops, used>>
    BY <1>3, SettleOrphanIs
  <2>2. request = "none" /\ engine.attempts = {c \in DOMAIN calls : Unsettled(c)}
    BY <2>1 DEF Asking
  <2>3. \A c \in Orphans : calls[c].usage = ops["context"].usage  BY DEF Orphans
  <2>4. DOMAIN calls' = DOMAIN calls
        /\ \A c \in DOMAIN calls : Unsettled(c)' <=> Unsettled(c) /\ c \notin Orphans
    BY <2>1, <2>3, SettledIs, OpsAre
  <2>5. ASSUME ops["context"].at = "effect_pending", NEW c \in DOMAIN calls, Unsettled(c)
        PROVE  c \in Orphans
    <3>1. opened = "context"
      BY <2>1, <2>5, OpsAre DEF Sequence, Open
    <3>2. ops["run"].at # "effect_pending"
      BY <2>1, <3>1, OpsAre DEF Sequence, Open
    <3>3. calls[c].usage = ops["context"].usage
      BY <2>5, <3>2 DEF Ledger, Waited, Owned
    <3> QED  BY <2>2, <2>5, <3>1, <3>3 DEF Orphans
  <2>6. engine'.attempts = {c \in DOMAIN calls' : Unsettled(c)'}
    BY <2>1, <2>2, <2>4
  <2> QED  BY <2>1, <2>2, <2>4, <2>5, <2>6 DEF Asking
<1>4. CASE Accepts
  <2>1. /\ pc \in {"context", "accepting"} /\ pc' \in {"resumed", "prompt"} /\ request' = request
        /\ UNCHANGED <<calls, engine>>
        /\ \/ pc = "context" /\ MovedTo("context", "accepted")
           \/ pc = "accepting" /\ MovedTo("run", "accepted")
    BY <1>4, AcceptIs, OpsAre DEF Accepts, AcceptContext, AcceptPrompt
  <2>2. request = "none" /\ engine.attempts = {c \in DOMAIN calls : Unsettled(c)}
    BY <2>1 DEF Asking
  <2>3. ops'["context"].at = "effect_pending" => ops["context"].at = "effect_pending"
    BY <2>1, OpsAre DEF MovedTo, OpsKept
  <2> QED  BY <2>1, <2>2, <2>3 DEF Asking, Unsettled
<1>5. ASSUME \A o \in Owned : ops'[o].at = ops[o].at /\ ops'[o].usage = ops[o].usage,
             UNCHANGED <<calls, pc, request, current>>,
             engine'.attempts = engine.attempts, engine'.captured = engine.captured,
             engine'.pending = engine.pending
      PROVE  Asking'
  <2>1. \A u : Settles(u)' = Settles(u)
    BY <1>5 DEF Settles
  <2> QED  BY <1>0, <1>5, <2>1, OpsAre DEF Asking, Unsettled
<1>6. CASE RequestAbort
  BY <1>5, <1>6, RequestAbortIs, NoIntents, OpsAre DEF OpsKept, Owned
<1>7. ASSUME NEW t \in Tools, StartTool(t) \/ FinishTool(t)
      PROVE  Asking'
  BY <1>5, <1>7, StartToolIs DEF FinishTool, PiOnly
<1>8. ASSUME NEW next \in SUBSET Inputs, SetInbox(next)
      PROVE  Asking'
  BY <1>5, <1>8, InboxIs
<1>9. CASE StartModel
  <2>1. /\ pc = "driving" /\ request = "due" /\ request' = "starting"
        /\ calls' = Append(calls, [usage |-> engine.pending, by |-> NoUsage])
        /\ UNCHANGED <<ops, pc, current, engine>>
    BY <1>9, StartModelIs DEF RequestOnly
  <2> DEFINE u == ops[current].usage
  <2>2. ops[current].at = "effect_pending" /\ engine.pending = u  BY <2>1 DEF Asking
  <2>3. /\ Len(calls') = Len(calls) + 1 /\ DOMAIN calls' = DOMAIN calls \cup {Len(calls) + 1}
        /\ \A c \in DOMAIN calls : calls'[c] = calls[c] /\ c # Len(calls) + 1
        /\ calls'[Len(calls) + 1] = [usage |-> u, by |-> NoUsage]
    <3>1. calls \in Seq(Calls)  BY DEF TypeOK, CallsType
    <3>2. [usage |-> u, by |-> NoUsage] \in Calls  BY <1>0, OpsAre DEF Calls, NoUsage
    <3> QED  BY <2>1, <2>2, <3>1, <3>2, CallsAre, AppendProperties
  <2>4. calls'[Len(calls) + 1].usage = u /\ calls'[Len(calls) + 1].by = NoUsage  BY <2>3
  <2> HIDE DEF u
  <2>5. engine.attempts = {c \in DOMAIN calls : Unsettled(c)}  BY <2>1 DEF Asking
  <2>6. engine.attempts = {c \in DOMAIN calls' : Unsettled(c)' /\ c # Len(calls')}
    BY <2>3, <2>5 DEF Unsettled
  <2> QED  BY <2>1, <2>2, <2>3, <2>4, <2>6 DEF Asking, Unsettled, u
<1>10. CASE Register
  <2>1. /\ pc = "driving" /\ request = "starting" /\ request' \in {"failed", "live"}
        /\ engine'.attempts = engine.attempts \cup {Len(calls)}
        /\ request' = "failed" /\ current = "context" =>
             engine'.captured = engine.captured \cup {Len(calls)}
        /\ UNCHANGED <<calls, ops, pc, current>>
    BY <1>10, RegisterIs DEF RequestOnly
  <2>2. /\ Len(calls) \in DOMAIN calls /\ Unsettled(Len(calls))
        /\ calls[Len(calls)].usage = ops[current].usage /\ ops[current].at = "effect_pending"
        /\ engine.attempts = {c \in DOMAIN calls : Unsettled(c) /\ c # Len(calls)}
    BY <2>1 DEF Asking
  <2>3. engine'.attempts = {c \in DOMAIN calls : Unsettled(c)}  BY <2>1, <2>2
  <2>4. Settles(ops[current].usage)' = {Len(calls)}
    BY <2>1, <2>2, <2>3 DEF Settles, Ledger
  <2> QED  BY <2>1, <2>2, <2>3, <2>4 DEF Asking, Unsettled
<1>11. CASE Deny
  <2>1. /\ pc = "driving" /\ request = "due" /\ request' = "failed"
        /\ engine'.attempts = engine.attempts /\ UNCHANGED <<calls, ops, pc, current>>
    BY <1>11, DenyIs DEF RequestOnly
  <2>2. /\ ops[current].at = "effect_pending" /\ engine.attempts = {c \in DOMAIN calls : Unsettled(c)}
        /\ \A c \in DOMAIN calls : calls[c].usage # ops[current].usage
    BY <2>1 DEF Asking
  <2>3. Settles(ops[current].usage)' = {}  BY <2>1, <2>2 DEF Settles
  <2> QED  BY <2>1, <2>2, <2>3 DEF Asking, Unsettled
<1>12. CASE Answer
  <2>1. /\ pc = "driving" /\ request = "live" /\ request' = "answered"
        /\ engine'.attempts = engine.attempts /\ UNCHANGED <<calls, ops, pc, current>>
        /\ engine'.captured = Captured(Settles(ops[current].usage))
    BY <1>12, AnswerIs DEF RequestOnly
  <2>2. /\ ops[current].at = "effect_pending" /\ engine.attempts = {c \in DOMAIN calls : Unsettled(c)}
        /\ Settles(ops[current].usage) # {}
    BY <2>1 DEF Asking
  <2>3. Settles(ops[current].usage)' = Settles(ops[current].usage)  BY <2>1 DEF Settles
  <2>4. current = "context" => Settles(ops[current].usage) \subseteq engine'.captured
    BY <2>1 DEF Captured
  <2> QED  BY <2>1, <2>2, <2>3, <2>4 DEF Asking, Unsettled
<1>13. CASE Ends
  <2>1. PICK o \in Operations, n \in Outcomes \ {"none"} :
             /\ SettleAt(o, n)
             /\ \/ pc = "reconcile" /\ o = "other"
                \/ pc = "driving" /\ current = o /\ o \in Owned /\ ops[o].at # "effect_pending"
    BY <1>13, EndIs
  <2>2. /\ MovedTo(o, "settled") /\ UNCHANGED <<calls, pc, current, engine, request>>
    BY <2>1, SettleAtIs
  <2>3. request = "none" /\ engine.attempts = {c \in DOMAIN calls : Unsettled(c)}
    BY <2>1 DEF Asking
  <2>4. ops'["context"].at = "effect_pending" => ops["context"].at = "effect_pending"
    BY <2>2, OpsAre DEF MovedTo, OpsKept
  <2> QED  BY <2>1, <2>2, <2>3, <2>4 DEF Asking, Unsettled
<1>14. ASSUME NEW o \in Owned, Intend(o)
       PROVE  Asking'
  <2>1. /\ pc = "driving" /\ current = o /\ AtBoundary(o) /\ UNCHANGED <<calls, pc, current>>
        /\ request' = "due" /\ engine'.pending = used + 1 /\ engine'.attempts = engine.attempts
        /\ ops'[o].at = "effect_pending" /\ ops'[o].usage = used + 1 /\ used \in Nat
    BY <1>14, IntendIs DEF TypeOK
  <2>2. request = "none" /\ engine.attempts = {c \in DOMAIN calls : Unsettled(c)}
    BY <2>1 DEF Asking, AtBoundary
  <2>3. \A c \in DOMAIN calls : calls[c].usage # used + 1
    BY <2>1, CallsAre DEF Ledger
  <2> QED  BY <2>1, <2>2, <2>3 DEF Asking, Unsettled
<1>15. ASSUME NEW o \in Owned, NEW n \in Nexts(o), Settle(o, n)
       PROVE  Asking'
  <2>1. /\ pc = "driving" /\ pc' = pc /\ current = o /\ ops[o].at = "effect_pending" /\ request' = "none"
        /\ request \in {"none", "answered", "failed"} /\ UNCHANGED <<used, current>>
        /\ SettleCalls(Answered(o), ops[o].usage) /\ OpsKept(o) /\ ops'[o].at # "effect_pending"
        /\ engine'.attempts = engine.attempts \ Answered(o)
    BY <1>15, SettleIs DEF MovedTo
  <2>2. /\ \A c \in Answered(o) : c \in DOMAIN calls /\ calls[c].usage = ops[o].usage
        /\ \A c \in DOMAIN calls : Unsettled(c) => c \in Answered(o)
    BY <2>1, AnsweredIs
  <2>3. DOMAIN calls' = DOMAIN calls /\ \A c \in DOMAIN calls : ~Unsettled(c)'
    BY <2>1, <2>2, SettledIs, OpsAre
  <2>4. engine.attempts = {c \in DOMAIN calls : Unsettled(c)}  BY <2>1 DEF Asking
  <2>5. engine'.attempts = {}  BY <2>1, <2>2, <2>4
  <2> QED  BY <2>1, <2>3, <2>5 DEF Asking
<1> QED
  BY <1>1, <1>2, <1>3, <1>4, <1>6, <1>7, <1>8, <1>9, <1>10, <1>11, <1>12, <1>13, <1>14, <1>15, InboxStep
  DEF Next, Engine, Pi, Outside, Control, Begins, Accepts, Requests, Ends, Inboxes
------------------------------------------------------------------------------
(* The operations.                                                            *)

\* An operation moved on, where the drive and the records it leaves stay as they are.
LEMMA MovedSequence ==
    ASSUME TypeOK, Sequence, NEW o \in Owned, OpsKept(o),
           UNCHANGED <<mode, trivial, aligned, status, pc, opened, current>>,
           pc = "driving", current = o, ops'[o].at # "none",
           o = "context" => ops'[o].at \notin {"navigation", "tools"},
           o = "context" /\ ops'[o].at = "effect_pending" => mode = "compact",
           o = "run" => ops'[o].at # "navigation",
           ops'[o].at = "settled" => ops'[o].outcome # "none"
    PROVE  Sequence'
  <1>1. CASE o = "context"
    <2>1. /\ ops'["run"].at = ops["run"].at /\ ops'["other"].at = ops["other"].at
          /\ ops'["run"].outcome = ops["run"].outcome
      BY <1>1, OpsAre DEF OpsKept
    <2> QED  BY <1>1, <2>1 DEF Sequence, PromptFollowsContext, Open, Owned
  <1>2. CASE o = "run"
    <2>1. /\ ops'["context"].at = ops["context"].at /\ ops'["other"].at = ops["other"].at
          /\ ops'["context"].outcome = ops["context"].outcome
      BY <1>2, OpsAre DEF OpsKept
    <2> QED  BY <1>2, <2>1 DEF Sequence, PromptFollowsContext, Open, Owned
  <1> QED  BY <1>1, <1>2 DEF Owned

\* Nothing moved on.
LEMMA SameSequence ==
    ASSUME TypeOK, Sequence, UNCHANGED <<mode, trivial, aligned, status, pc, opened, current>>,
           \A o \in Operations : ops'[o].at = ops[o].at /\ ops'[o].outcome = ops[o].outcome
    PROVE  Sequence'
  <1>1. current \in Owned  BY DEF TypeOK
  <1> QED  BY <1>1, OpsAre DEF Sequence, PromptFollowsContext, Open

LEMMA SequenceStep ==
    TypeOK /\ Sequence /\ Tooled /\ [Next]_vars /\ pc' # "misfit" => Sequence'
<1> SUFFICES ASSUME TypeOK, Sequence, Tooled, [Next]_vars, pc' # "misfit"
             PROVE  Sequence'
  OBVIOUS
<1> USE DEF constants, durable, volatile, Goto
<1>1. CASE Begins
  <2>1. /\ UNCHANGED <<constants, ops, aligned>> /\ pc' = "opened"
        /\ opened' = IF \E o \in Operations : Open(o) THEN CHOOSE o \in Operations : Open(o) ELSE "none"
    BY <1>1, BeginIs
  <2>2. \A o, p \in Operations : Open(o) /\ Open(p) => o = p
    BY OpsAre DEF Sequence, PromptFollowsContext, Open, Operations, Owned
  <2>3. /\ \A o \in Operations : Open(o) => opened' = o
        /\ opened' \in Owned => Open(opened')
    BY <2>1, <2>2 DEF Owned
  <2>4. status' # "completed"
    BY <1>1 DEF Begins, Execute, Reopen, Sequence
  <2> QED  BY <2>1, <2>3, <2>4 DEF Sequence, PromptFollowsContext, Open
<1>2. ASSUME NEW s \in {"thrown", "canceled", "completed", "failed"}, Leave(s),
             s = "completed" => ops["run"].at = "settled"
      PROVE  Sequence'
  <2>1. /\ pc' = "down" /\ UNCHANGED <<constants, ops, aligned>>
        /\ status' = "completed" => ops["run"].at = "settled"
    BY <1>2 DEF Leave
  <2> QED  BY <2>1 DEF Sequence, PromptFollowsContext, Open
<1>3. CASE RefuseForeign \/ ThrowIfAborted \/ CompactionFailed \/ GiveUp \/ Detach
  BY <1>2, <1>3 DEF RefuseForeign, ThrowIfAborted, CompactionFailed, GiveUp, Detach
<1>4. CASE RunDriven
  <2>1. ops["run"].outcome \in {"completed", "failed", "aborted"}
    BY <1>4, OpsAre DEF RunDriven, Driven, Sequence, Outcomes
  <2> QED  BY <1>2, <1>4, <2>1 DEF RunDriven, Driven
<1>5. CASE Reconcile \/ Reconciled
  <2>1. UNCHANGED <<constants, status, ops, aligned, opened, current>>
    BY <1>5 DEF Reconcile, Reconciled
  <2>2. CASE Reconcile
    <3>1. pc = "opened" /\ pc' = "reconcile" /\ opened = "other"  BY <2>2 DEF Reconcile
    <3>2. Open("other") /\ ops["run"].at = "none" /\ ops["context"].at = "none"
      BY <3>1 DEF Sequence, PromptFollowsContext
    <3> QED  BY <2>1, <3>1, <3>2 DEF Sequence, PromptFollowsContext, Open
  <2>3. CASE Reconciled
    <3>1. pc = "reconcile" /\ pc' = "check" /\ ~Open("other")  BY <2>3 DEF Reconciled, Open
    <3>2. opened = "other" /\ ops["run"].at = "none" /\ status # "completed"
      BY <3>1 DEF Sequence
    <3>3. ~Open("context")  BY <3>1 DEF Sequence
    <3> QED
      BY <2>1, <3>1, <3>2, <3>3 DEF Sequence, PromptFollowsContext, Open, Operations, Owned
  <2> QED  BY <1>5, <2>2, <2>3
<1>6. CASE NothingOpen \/ Recover
  BY <1>6, OpsAre DEF NothingOpen, Recover, Sequence, PromptFollowsContext, Open, Owned, Operations
<1>7. CASE SettleOrphan
  <2>1. /\ pc = "recovered"
        /\ \/ pc' = "driving" /\ current' = opened
           \/ pc' = "check"
        /\ UNCHANGED <<constants, status, ops, aligned, opened>>
    BY <1>7, SettleOrphanIs
  <2> QED  BY <2>1, OpsAre DEF Sequence, PromptFollowsContext, Open, Owned, Operations
<1>8. CASE Attach
  BY <1>8, OpsAre DEF Attach, Sequence, PromptFollowsContext, Open
<1>9. CASE Align
  BY <1>9, OpsAre DEF Align, Sequence, PromptFollowsContext, Open, Owned
<1>10. CASE AcceptContext
  <2>1. /\ pc = "context" /\ pc' = "resumed" /\ MovedTo("context", "accepted")
        /\ UNCHANGED <<constants, status, aligned>>
    BY <1>10, AcceptIs, OpsAre DEF AcceptContext
  <2>2. ops'["run"].at = ops["run"].at /\ ops'["other"].at = ops["other"].at
        /\ ops'["run"].outcome = ops["run"].outcome
    BY <2>1, OpsAre DEF MovedTo, OpsKept
  <2> QED  BY <2>1, <2>2 DEF MovedTo, Sequence, PromptFollowsContext, Open, Owned
<1>11. CASE BeginAccept \/ Drive \/ ContextDriven
  BY <1>11, OpsAre DEF BeginAccept, Drive, ContextDriven, Driven, Sequence, PromptFollowsContext, Open
<1>12. CASE AcceptPrompt
  <2>1. /\ pc = "accepting" /\ pc' = "prompt" /\ MovedTo("run", "accepted")
        /\ UNCHANGED <<constants, status, aligned>>
    BY <1>12, AcceptIs, OpsAre DEF AcceptPrompt
  <2>2. ops'["context"].at = ops["context"].at /\ ops'["other"].at = ops["other"].at
        /\ ops'["context"].outcome = ops["context"].outcome
    BY <2>1, OpsAre DEF MovedTo, OpsKept
  <2> QED  BY <2>1, <2>2 DEF MovedTo, Sequence, PromptFollowsContext, Open, Owned
<1>13. CASE RequestAbort
  BY <1>13, RequestAbortIs, NoIntents, SameSequence DEF OpsKept, Operations, Owned
<1>14. CASE Requests
  BY <1>14, StartModelIs, RegisterIs, DenyIs, AnswerIs, SameSequence DEF Requests, RequestOnly
<1>15. CASE Ends
  <2>1. PICK o \in Operations, n \in Outcomes \ {"none"} :
             /\ SettleAt(o, n)
             /\ \/ pc = "reconcile" /\ o = "other"
                \/ pc = "driving" /\ current = o /\ o \in Owned /\ ops[o].at # "effect_pending"
    BY <1>15, EndIs
  <2>2. /\ OpsKept(o) /\ ops'[o].at = "settled" /\ ops'[o].outcome # "none"
        /\ UNCHANGED <<mode, trivial, aligned, status, pc, opened, current>>
    BY <2>1, SettleAtIs DEF MovedTo
  <2>3. CASE pc = "driving" /\ current = o /\ o \in Owned
    BY <2>2, <2>3, MovedSequence
  <2>4. CASE pc = "reconcile" /\ o = "other"
    <3>1. \A p \in Owned : ops'[p].at = ops[p].at /\ ops'[p].outcome = ops[p].outcome
      BY <2>2, <2>4 DEF OpsKept, Operations, Owned
    <3>2. ~Open("other")'  BY <2>2, <2>4 DEF Open
    <3> QED  BY <2>2, <2>4, <3>1, <3>2, OpsAre DEF Sequence, PromptFollowsContext, Open
  <2> QED  BY <2>1, <2>3, <2>4
<1>16. ASSUME NEW o \in Owned, Intend(o)
       PROVE  Sequence'
  BY <1>16, IntendIs, MovedSequence
<1>17. ASSUME NEW o \in Owned, NEW n \in Nexts(o), Settle(o, n)
       PROVE  Sequence'
  <2>1. n \in {"aborted", "accepted", "failed", "completed", "tools"}  BY <1>17 DEF Nexts
  <2> QED  BY <1>17, <2>1, SettleIs, MovedSequence DEF MovedTo
<1>18. ASSUME NEW t \in Tools, StartTool(t) \/ FinishTool(t)
       PROVE  Sequence'
  BY <1>18, StartToolIs, SameSequence DEF FinishTool, PiOnly
<1>19. ASSUME NEW next \in SUBSET Inputs, SetInbox(next)
       PROVE  Sequence'
  BY <1>19, InboxIs, SameSequence
<1>20. ASSUME NEW k \in {"cancel", "detach"}, Abort(k)
       PROVE  Sequence'
  BY <1>20, SameSequence DEF Abort
<1>21. CASE RefuseCommit \/ Crash
  BY <1>21 DEF RefuseCommit, Crash, Sequence, PromptFollowsContext, Open
<1>22. CASE UNCHANGED vars
  BY <1>22, SameSequence DEF vars
<1> QED
  BY <1>1, <1>3, <1>4, <1>5, <1>6, <1>7, <1>8, <1>9, <1>10, <1>11, <1>12, <1>13, <1>14, <1>15,
     <1>16, <1>17, <1>18, <1>19, <1>20, <1>21, <1>22, InboxStep
  DEF Next, Engine, Pi, Outside, Begins, Requests, Ends, Inboxes
------------------------------------------------------------------------------
(* The specification.                                                         *)

\* The commits of Pi that the engine could fail to explain are those it has what it takes for.
LEMMA NothingMisfits ==
    ASSUME TypeOK, Sequence, Tooled, Asking, [Next]_vars
    PROVE  pc' # "misfit"
<1> USE DEF constants, durable, volatile, Goto
<1>0. pc # "misfit"  BY DEF TypeOK, Places
<1>1. CASE RequestAbort
  BY <1>0, <1>1, NoIntents DEF RequestAbort
<1>2. ASSUME NEW o \in Owned, NEW n \in Nexts(o), Settle(o, n)
      PROVE  pc' # "misfit"
  <2>1. /\ pc = "driving" /\ current = o /\ request \in {"none", "answered", "failed"}
        /\ \/ pc' = pc
           \/ request = "answered" /\ Answered(o) = {}
           \/ o = "context" /\ ~(Answered(o) \subseteq engine.captured)
    BY <1>2 DEF Settle, Driving, Answered
  <2>2. request = "answered" => Answered(o) # {}
    BY <2>1 DEF Asking, Answered
  <2>3. o = "context" => Answered(o) \subseteq engine.captured
    BY <2>1 DEF Asking, Answered
  <2> QED  BY <2>1, <2>2, <2>3
<1>3. ASSUME NEW t \in Tools, StartTool(t)
      PROVE  pc' # "misfit"
  <2>1. pc = "driving" /\ engine.known /\ \E b : Batch(b)
    BY <1>3 DEF StartTool, Driving, Tooled
  <2> QED  BY <2>1 DEF Batch
<1>4. CASE Control
  BY <1>0, <1>4, ControlIs
  DEF Control, RefuseForeign, Reconcile, Reconciled, NothingOpen, Recover, Attach, ThrowIfAborted, Align,
      BeginAccept, Drive, ContextDriven, CompactionFailed, RunDriven, GiveUp, Detach, Leave, Abort,
      RefuseCommit, Crash, vars
<1>5. CASE Begins \/ SettleOrphan \/ Accepts
  BY <1>5, BeginIs, SettleOrphanIs DEF Accepts, AcceptContext, AcceptPrompt
<1>6. CASE Requests \/ Ends
  BY <1>0, <1>6, StartModelIs, RegisterIs, DenyIs, AnswerIs, EndIs, SettleAtIs DEF Requests, RequestOnly
<1>7. CASE Inboxes  BY <1>0, <1>7, InboxStep, InboxIs
<1>8. CASE (\E t \in Tools : FinishTool(t)) \/ \E o \in Owned : Intend(o)
  BY <1>0, <1>8, IntendIs DEF FinishTool
<1> QED
  BY <1>1, <1>2, <1>3, <1>4, <1>5, <1>6, <1>7, <1>8
  DEF Next, Engine, Pi, Outside, Control, Begins, Accepts, Requests, Ends, Inboxes

LEMMA InitAgreement == Init => InAgreement
<1> SUFFICES ASSUME Init
             PROVE  InAgreement
  OBVIOUS
<1>1. calls = <<>> /\ DOMAIN calls = {} /\ calls \in CallsType
  BY EmptySeq DEF Init, CallsType
<1>2. /\ tools \in ToolType /\ inputs \in InputType /\ batch \in BatchType
      /\ inbox \in SUBSET Inputs /\ engine = Restored
  BY DEF Init, ToolType, InputType, BatchType
<1>3. ops \in OpsType /\ ops["run"].at = "none" /\ ops["context"].at = "none"
  <2>1. PICK at \in {"none", "accepted", "navigation"}, cancel \in BOOLEAN :
          ops = [o \in Operations |->
                    IF o = "other" THEN [NewOperation EXCEPT !.at = at, !.cancel = cancel]
                    ELSE NewOperation]
    BY DEF Init
  <2>2. NewOperation \in Operation  BY DEF NewOperation, Operation, Ats, Outcomes, NoUsage
  <2>3. [NewOperation EXCEPT !.at = at, !.cancel = cancel] \in Operation
    BY DEF NewOperation, Operation, Ats, Outcomes, NoUsage
  <2> QED  BY <2>1, <2>2, <2>3 DEF OpsType, Operations, Owned, NewOperation
<1>4. engine \in EngineType
  BY <1>1, <1>2 DEF Restored, EngineType, NoUsage
<1>5. TypeOK
  BY <1>1, <1>2, <1>3, <1>4, HarnessAssumption DEF Init, TypeOK, Places, Owned
<1>6. Sequence
  BY <1>3 DEF Init, Sequence, PromptFollowsContext, Open, Owned
<1>7. Boxed
  BY <1>2 DEF Init, Restored, Boxed, InputsLogged
<1>8. Tooled
  BY <1>2 DEF Init, Restored, Tooled, ToolsOnce
<1>9. Ledger
  BY <1>1, <1>3 DEF Ledger, Owned
<1>10. Asking
  BY <1>1, <1>2, <1>3 DEF Init, Asking
<1> QED  BY <1>5, <1>6, <1>7, <1>8, <1>9, <1>10 DEF InAgreement

\* The turn's records and Pi's agree in every reachable state, whatever is aborted, refused
\* or resumed and wherever the process dies, for any tool calls, inputs and bounds.
THEOREM LedgersAgree == Spec => []InAgreement
<1>1. InAgreement /\ [Next]_vars => InAgreement'
  <2> SUFFICES ASSUME InAgreement, [Next]_vars
               PROVE  InAgreement'
    OBVIOUS
  <2>1. TypeOK /\ Sequence /\ Boxed /\ Tooled /\ Ledger /\ Asking  BY DEF InAgreement
  <2>2. pc' # "misfit"  BY <2>1, NothingMisfits
  <2> QED
    BY <2>1, <2>2, TypeStep, SequenceStep, BoxedStep, TooledStep, LedgerStep, AskingStep DEF InAgreement
<1> QED  BY InitAgreement, <1>1, PTL DEF Spec

\* An attempt is settled once, by the usage of the request it was made for, one that is
\* not settled belongs to a request that an open operation of Pi waits for, and a completed
\* turn has none left.
THEOREM AttemptsAreSettled == Spec => []AttemptsBalance
<1>1. InAgreement => AttemptsBalance
  <2> SUFFICES ASSUME InAgreement
               PROVE  AttemptsBalance
    OBVIOUS
  <2>1. Ledger /\ Sequence  BY DEF InAgreement
  <2>2. \A o \in Owned : ops["run"].at = "settled" => ops[o].at # "effect_pending"
    BY <2>1 DEF Sequence, PromptFollowsContext, Owned
  <2> QED  BY <2>1, <2>2 DEF AttemptsBalance, Ledger, Sequence, Waited
<1> QED  BY LedgersAgree, <1>1, PTL

\* However often Pi writes a batch again, a tool's intent and its result are recorded once.
THEOREM ToolsAreRecordedOnce == Spec => []ToolsOnce
<1>1. InAgreement => ToolsOnce  BY DEF InAgreement, Tooled
<1> QED  BY LedgersAgree, <1>1, PTL

\* The input events tell just what is in the durable inbox.
THEOREM InputsAreLogged == Spec => []InputsLogged
<1>1. InAgreement => InputsLogged  BY DEF InAgreement, Boxed
<1> QED  BY LedgersAgree, <1>1, PTL

\* No commit of Pi meets a projection that cannot explain it.
THEOREM EveryCommitFits == Spec => []NeverMisfits
<1>1. InAgreement => NeverMisfits  BY DEF InAgreement, TypeOK, Places, NeverMisfits
<1> QED  BY LedgersAgree, <1>1, PTL

\* A prompt is accepted on a lane with the turn's own settings, after the context
\* operation and with no operation of another turn open.
THEOREM PromptsFollowContext == Spec => []PromptFollowsContext
<1>1. InAgreement => PromptFollowsContext  BY DEF InAgreement, Sequence
<1> QED  BY LedgersAgree, <1>1, PTL
==============================================================================
