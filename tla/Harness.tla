------------------------------- MODULE Harness -------------------------------
(* One turn on the Pi harness engine: pi-harness-engine.ts over the local     *)
(* host of pi-harness-local-host.ts.                                          *)
(*                                                                            *)
(* Pi owns the loop and keeps its operations in its storage; the engine sees  *)
(* the writes of each of Pi's commits, derives the turn's own records from    *)
(* them (planCommit) and stores both in one transaction.  The dispatch intent *)
(* of a model request is a transaction of its own, made from inside the       *)
(* request.  The module is about the agreement of the two ledgers across      *)
(* retries, aborts, storage faults, deaths of the process and resumption.     *)
(*                                                                            *)
(* Durable: status, calls, tools, inputs (the turn's events, counted by the   *)
(* identity they carry) and ops, batch, inbox, aligned (Pi's records).        *)
(* Lost with the process: everything from pc on.                              *)
EXTENDS Naturals, Sequences, FiniteSets

CONSTANTS
    Tools,      \* the tool calls a model may make, each with an ID of its own
    Inputs,     \* steering and follow-up messages
    MaxUsage,   \* bound: model requests Pi makes for the turn
    MaxLives,   \* bound: executions of the turn
    MaxFaults   \* bound: transactions that SQLite refuses

ASSUME HarnessAssumption ==
    /\ MaxUsage \in Nat /\ MaxLives \in Nat /\ MaxFaults \in Nat
    /\ IsFiniteSet(Tools) /\ IsFiniteSet(Inputs)

VARIABLES
    mode, trivial,              \* contextMode; is there nothing to reset or compact
    status, calls, tools, inputs,
    ops, batch, inbox, aligned,
    used, lives, faults,        \* counters behind the bounds
    pc, pass, current, opened, engine, request, abort, target

constants == <<mode, trivial>>
durable   == <<status, calls, tools, inputs, ops, batch, inbox, aligned>>
volatile  == <<pc, pass, current, opened, engine, request, abort, target>>
vars      == <<constants, durable, used, lives, faults, volatile>>

Owned      == {"context", "run"}
Operations == Owned \cup {"other"}      \* "other": what an earlier turn left open in the lane
NoUsage    == 0

Open(o)      == ops[o].at \notin {"none", "settled"}
Unsettled(c) == calls[c].by = NoUsage

\* EngineState, as driveHarnessTurn builds it from the turn's events.
\* Fault: the attempts are not restored.
RestoredWithoutAttempts ==
    [attempts |-> {}, captured |-> {}, known |-> FALSE, inbox |-> inbox,
     started |-> {t \in Tools : tools[t].started > 0},
     pending |-> NoUsage, denied |-> FALSE, reconciles |-> FALSE]
Restored ==
    [attempts |-> {c \in DOMAIN calls : Unsettled(c)},
     captured |-> {},
     known    |-> FALSE,        \* the assistant message of the open tool batch
     inbox    |-> inbox,
     started  |-> {t \in Tools : tools[t].started > 0},
     pending  |-> NoUsage,
     denied   |-> FALSE,
     reconciles |-> FALSE]      \* this drive only brings an open operation to its end

NewOperation == [at |-> "none", usage |-> NoUsage, cancel |-> FALSE, outcome |-> "none"]

Init ==
    /\ mode \in {"continue", "reset", "compact"}
    /\ trivial \in BOOLEAN /\ (mode = "continue" => trivial)
    /\ status = "running" /\ calls = <<>>
    /\ tools = [t \in Tools |-> [started |-> 0, result |-> 0]]
    /\ inbox \in SUBSET Inputs
    /\ inputs = [i \in Inputs |-> [queued |-> IF i \in inbox THEN 1 ELSE 0, consumed |-> 0]]
    /\ \E at \in {"none", "accepted", "navigation"}, cancel \in BOOLEAN :
          ops = [o \in Operations |->
                    IF o = "other" THEN [NewOperation EXCEPT !.at = at, !.cancel = cancel]
                    ELSE NewOperation]
    /\ batch = [t \in Tools |-> "absent"]
    /\ aligned \in BOOLEAN
    /\ used = 0 /\ lives = 0 /\ faults = 0
    /\ pc = "down" /\ pass = 1 /\ current = "run" /\ opened = "none"
    /\ engine = Restored /\ request = "none" /\ abort = "none" /\ target = "none"

------------------------------------------------------------------------------
(* planCommit: what a commit of Pi projects to, stored with it by host.commit *)

\* The usage row of request u.  A request that was refused before its dispatch has no
\* attempt and leaves no record.
Settles(u) == {c \in engine.attempts : calls[c].usage = u}
SettleCalls(C, by) ==
    calls' = [c \in DOMAIN calls |->
                IF c \in C /\ Unsettled(c) THEN [calls[c] EXCEPT !.by = by] ELSE calls[c]]

\* pi.lane.state: the difference between the new inbox and the last one seen.
ProjectInbox(next) ==
    inputs' = [i \in Inputs |->
                 [queued   |-> inputs[i].queued   + IF i \in next \ engine.inbox THEN 1 ELSE 0,
                  consumed |-> inputs[i].consumed + IF i \in engine.inbox \ next THEN 1 ELSE 0]]

\* pi.op.state of a tool batch: the intents that no event records yet.
\* Fault: a state that Pi writes again records its intents again.
IntentsAgain(b) == {t \in Tools : b[t] = "effect_pending"}
Intents(b) == {t \in Tools : b[t] = "effect_pending"} \ engine.started
ProjectIntents(b) ==
    tools' = [t \in Tools |-> IF t \in Intents(b) THEN [tools[t] EXCEPT !.started = @ + 1]
                              ELSE tools[t]]

------------------------------------------------------------------------------
(* driveHarnessTurn, around Pi's drive                                        *)

\* Up to AgentHarness.create, which reports the lane's open operation.
Begin(n) ==
    /\ pc' = "opened" /\ pass' = n /\ current' = "run"
    /\ opened' = IF \E o \in Operations : Open(o) THEN CHOOSE o \in Operations : Open(o) ELSE "none"
    /\ engine' = Restored /\ request' = "none" /\ target' = "none"

Execute ==
    /\ pc = "down" /\ lives < MaxLives /\ status \in {"running", "interrupted"}
    /\ lives' = lives + 1 /\ status' = "running" /\ abort' = "none"
    /\ Begin(1)
    /\ UNCHANGED <<constants, calls, tools, inputs, ops, batch, inbox, aligned, used, faults>>

\* The turn's status, from the outcome or, when that gives way to it, from the abort.
Leave(outcome) ==
    /\ pc' = "down" /\ request' = "none" /\ target' = "none"
    /\ status' = CASE outcome # "thrown"  -> outcome
                   [] abort = "cancel"    -> "canceled"
                   [] abort = "detach"    -> "interrupted"
                   [] OTHER               -> "failed"
    /\ UNCHANGED <<constants, calls, tools, inputs, ops, batch, inbox, aligned,
                   used, lives, faults, pass, current, opened, engine, abort>>

Goto(l) == pc' = l /\ UNCHANGED <<constants, durable, used, lives, faults, pass, opened, request, abort, target>>

\* Another turn's operation may be reconciled here only if that cannot dispatch work.
Reconcilable  == ops["other"].cancel \/ ops["other"].at = "navigation"
RefuseForeign == pc = "opened" /\ opened = "other" /\ ~Reconcilable /\ Leave("thrown")
Reconcile ==
    /\ pc = "opened" /\ opened = "other" /\ Reconcilable
    /\ Goto("reconcile") /\ engine' = [engine EXCEPT !.reconciles = TRUE] /\ UNCHANGED current
Reconciled ==
    /\ pc = "reconcile" /\ ops["other"].at = "settled"
    /\ Goto("check") /\ engine' = [engine EXCEPT !.reconciles = FALSE] /\ UNCHANGED current
NothingOpen == pc = "opened" /\ opened = "none" /\ Goto("check") /\ UNCHANGED <<engine, current>>

\* The turn's own operation is open.  Its assistant message is read again, so that the
\* state Pi rewrites to record a cancellation can be projected.
\* Fault: it is not read again.
RecoverUnread ==
    /\ pc = "opened" /\ opened \in Owned
    /\ pc' = "recovered" /\ target' = IF abort = "cancel" THEN opened ELSE "none"
    /\ UNCHANGED <<constants, durable, used, lives, faults, pass, current, opened, engine, request, abort>>
Recover ==
    /\ pc = "opened" /\ opened \in Owned
    /\ engine' = [engine EXCEPT !.known = ops[opened].at = "tools"]
    /\ pc' = "recovered" /\ target' = IF abort = "cancel" THEN opened ELSE "none"
    /\ UNCHANGED <<constants, durable, used, lives, faults, pass, current, opened, request, abort>>

\* Pi never settles the usage of an interrupted summary: settleOrphanedStructural does.
Orphans == {c \in engine.attempts : /\ opened = "context" /\ ops[opened].at = "effect_pending"
                                    /\ calls[c].usage = ops[opened].usage}
SettleOrphan ==
    /\ pc = "recovered" /\ target = "none"
    /\ SettleCalls(Orphans, ops["context"].usage)
    /\ engine' = [engine EXCEPT !.attempts = @ \ Orphans, !.reconciles = abort = "cancel"]
    /\ IF abort = "cancel" THEN pc' = "driving" /\ current' = opened
                           ELSE pc' = "check" /\ UNCHANGED current
    /\ UNCHANGED <<constants, status, tools, inputs, ops, batch, inbox, aligned,
                   used, lives, faults, pass, opened, request, abort, target>>

\* signal.throwIfAborted, then the listener: what follows hears an abort.
Attach ==
    /\ pc = "check" /\ abort = "none"
    /\ Goto(IF ops["run"].at # "none" THEN "prompt" ELSE "align")
    /\ UNCHANGED <<engine, current>>
ThrowIfAborted == pc \in {"check", "accept"} /\ abort # "none" /\ Leave("thrown")

\* A lane keeps the model, thinking level and tools of an earlier turn until now.
\* Fault: a context operation that a dead process left open is taken for done.
AlignPastOpen ==
    /\ pc = "align"
    /\ aligned' = TRUE
    /\ pc' = IF trivial \/ ops["context"].at # "none" THEN "accept" ELSE "context"
    /\ UNCHANGED <<constants, status, calls, tools, inputs, ops, batch, inbox, used, lives, faults,
                   pass, current, opened, engine, request, abort, target>>
Align ==
    /\ pc = "align"
    /\ aligned' = TRUE
    /\ pc' = IF trivial \/ ops["context"].at = "settled" THEN "accept"
             ELSE IF opened = "context" THEN "resumed" ELSE "context"
    /\ UNCHANGED <<constants, status, calls, tools, inputs, ops, batch, inbox, used, lives, faults,
                   pass, current, opened, engine, request, abort, target>>

Accept(o) ==
    /\ ops' = [ops EXCEPT ![o].at = "accepted"]
    /\ UNCHANGED <<constants, status, calls, tools, inputs, batch, inbox, aligned, used, lives, faults,
                   pass, current, opened, engine, request, abort, target>>
AcceptContext == pc = "context" /\ pc' = "resumed" /\ Accept("context")
BeginAccept   == pc = "accept" /\ abort = "none" /\ Goto("accepting") /\ UNCHANGED <<engine, current>>
AcceptPrompt  == pc = "accepting" /\ pc' = "prompt" /\ Accept("run")

Drive ==
    /\ \/ pc = "resumed" /\ current' = "context"
       \/ pc = "prompt"  /\ current' = "run"
    /\ Goto("driving") /\ UNCHANGED engine

\* After drive.  Only the execution that accepted a compaction looks at how it ended.
Driven(o) == pc = "driving" /\ current = o /\ ops[o].at = "settled"
Compacted == opened = "context" \/ mode = "reset" \/ ops["context"].outcome = "completed"
ContextDriven    == Driven("context") /\ Compacted /\ Goto("accept") /\ UNCHANGED <<engine, current>>
CompactionFailed == Driven("context") /\ ~Compacted /\ Leave("thrown")

\* A completed prompt stands whatever was aborted, unless it was driven for an abort; a
\* denied dispatch does not.
RunDriven ==
    /\ Driven("run")
    /\ LET outcome == ops["run"].outcome IN
       Leave(CASE engine.reconciles \/ engine.denied         -> "thrown"
               [] outcome # "completed" /\ abort # "none" -> "thrown"
               [] outcome = "aborted"                     -> "canceled"
               [] OTHER                                   -> outcome)

\* A rejected commit seals Pi's lane.  A cancelled turn reopens it, once, to reconcile.
Recoverable == pass = 1 /\ abort = "cancel"
Reopen ==
    /\ pc = "faulted" /\ Recoverable /\ Begin(2)
    /\ UNCHANGED <<constants, durable, used, lives, faults, abort>>
GiveUp == pc \in {"faulted", "misfit"} /\ ~Recoverable /\ Leave("thrown")

------------------------------------------------------------------------------
(* From outside: aborts, input, faults and death                              *)

Up        == pc # "down"
Listening == pc \notin {"down", "opened", "reconcile", "recovered", "check", "faulted", "misfit"}

\* stopTurn and the timer cancel, close detaches.  The listener cancels the operation that
\* is current at that moment.
Abort(kind) ==
    /\ Up /\ abort = "none" /\ abort' = kind
    /\ target' = IF kind = "cancel" /\ Listening THEN current ELSE target
    /\ UNCHANGED <<constants, durable, used, lives, faults, pc, pass, current, opened, engine, request>>

\* requestAbort waits its turn in the lane, and is refused if the operation is not open.
\* Pi rewrites the operation's state, and the projection sees its batch again.
RequestAbort ==
    /\ target # "none" /\ pc \notin {"accepting", "down", "faulted", "misfit"} /\ target' = "none"
    /\ LET rewrites == Open(target) /\ target = "run" /\ ops["run"].at = "tools"
           again    == IF rewrites THEN Intents(batch) ELSE {} IN
       IF again # {} /\ ~engine.known
       THEN pc' = "misfit" /\ UNCHANGED <<ops, tools, engine>>
       ELSE /\ ops' = [ops EXCEPT ![target].cancel = @ \/ Open(target)]
            /\ IF rewrites THEN ProjectIntents(batch) ELSE UNCHANGED tools
            /\ engine' = [engine EXCEPT !.started = @ \cup again] /\ UNCHANGED pc
    /\ UNCHANGED <<constants, status, calls, inputs, batch, inbox, aligned, used, lives, faults,
                   pass, current, opened, request, abort>>

\* Closing the harness ends the drive and leaves the operation open.
Detach == Listening /\ abort = "detach" /\ Leave("thrown")

\* Fault: the inbox last seen is not kept.
SetInboxUnseen(next) ==
    /\ inbox' = next /\ ProjectInbox(next)
    /\ UNCHANGED <<constants, status, calls, tools, ops, batch, aligned, used, lives, faults, volatile>>
SetInbox(next) ==
    /\ inbox' = next /\ ProjectInbox(next) /\ engine' = [engine EXCEPT !.inbox = next]
    /\ UNCHANGED <<constants, status, calls, tools, ops, batch, aligned, used, lives, faults,
                   pc, pass, current, opened, request, abort, target>>
Queue(i)        == Listening /\ abort = "none" /\ inputs[i].queued = 0 /\ SetInbox(inbox \cup {i})
CancelQueued(i) == Listening /\ abort = "none" /\ i \in inbox /\ SetInbox(inbox \ {i})

\* SQLite refuses one of Pi's commits: the lane is sealed, nothing was stored.
RefuseCommit ==
    /\ faults < MaxFaults /\ faults' = faults + 1
    /\ \/ pc \in {"reconcile", "align", "context", "accepting"}
       \/ (pc = "driving" /\ Open(current))
    /\ pc' = "faulted" /\ request' = "none" /\ target' = "none"
    /\ UNCHANGED <<constants, durable, used, lives, pass, current, opened, engine, abort>>

Crash ==
    /\ Up /\ pc' = "down" /\ status' = "interrupted" /\ request' = "none" /\ target' = "none"
    /\ UNCHANGED <<constants, calls, tools, inputs, ops, batch, inbox, aligned,
                   used, lives, faults, pass, current, opened, engine, abort>>

------------------------------------------------------------------------------
(* Pi's drive, as far as the engine relies on it                              *)

Driving(o) == pc = "driving" /\ current = o /\ Open(o)
BatchDone  == \A t \in Tools : batch[t] \in {"absent", "done"}
AtBoundary(o) == ops[o].at = "accepted" \/ (ops[o].at = "tools" /\ BatchDone)
PiOnly == UNCHANGED <<constants, status, aligned, lives, faults, pass, current, opened, abort, target>>

\* The intent of a request: planCommit remembers its usage ID for the dispatch to come.
Intend(o) ==
    /\ Driving(o) /\ AtBoundary(o) /\ ~ops[o].cancel /\ used < MaxUsage
    /\ o = "run" \/ mode = "compact"
    /\ used' = used + 1
    /\ ops' = [ops EXCEPT ![o].at = "effect_pending", ![o].usage = used + 1]
    /\ engine' = [engine EXCEPT !.pending = used + 1]
    /\ request' = "due"
    /\ UNCHANGED <<calls, tools, inputs, batch, inbox, pc>> /\ PiOnly

\* onPayload: the attempt is committed, then registered when the promise resolves.
StartModel ==
    /\ pc = "driving" /\ request = "due" /\ ~ops[current].cancel
    /\ calls' = Append(calls, [usage |-> engine.pending, by |-> NoUsage])
    /\ request' = "starting"
    /\ UNCHANGED <<tools, inputs, ops, batch, inbox, used, pc, engine>> /\ PiOnly

Captured(C) == IF current = "context" THEN engine.captured \cup C ELSE engine.captured
Register ==
    /\ pc = "driving" /\ request = "starting"
    /\ engine' = [engine EXCEPT !.attempts = @ \cup {Len(calls)}, !.denied = ops[current].cancel,
                                !.captured = IF ops[current].cancel THEN Captured({Len(calls)}) ELSE @]
    /\ request' = IF ops[current].cancel THEN "failed" ELSE "live"
    /\ UNCHANGED <<calls, tools, inputs, ops, batch, inbox, used, pc>> /\ PiOnly

\* The dispatch is denied: Pi's signal is aborted, or SQLite refuses the intent.
Deny ==
    /\ pc = "driving" /\ request = "due"
    /\ \/ ops[current].cancel /\ UNCHANGED faults
       \/ faults < MaxFaults /\ faults' = faults + 1
    /\ engine' = [engine EXCEPT !.denied = TRUE] /\ request' = "failed"
    /\ UNCHANGED <<constants, durable, used, lives, pc, pass, current, opened, abort, target>>

\* The provider answers, or the request fails; a summary's response is kept for its usage.
Answer ==
    /\ pc = "driving" /\ request = "live" /\ request' = "answered"
    /\ engine' = [engine EXCEPT !.captured = Captured(Settles(ops[current].usage))]
    /\ UNCHANGED <<calls, tools, inputs, ops, batch, inbox, used, pc>> /\ PiOnly

\* Pi stores the response with its usage and moves on.  A request of a dead process is
\* settled as interrupted, unless it was a summary: Pi has no usage row for that.
Settle(o, next) ==
    /\ Driving(o) /\ ops[o].at = "effect_pending" /\ request \in {"none", "answered", "failed"}
    /\ LET C      == IF o = "context" /\ request = "none" THEN {} ELSE Settles(ops[o].usage)
           misfit == \/ request = "answered" /\ C = {}
                     \/ o = "context" /\ ~(C \subseteq engine.captured)
           S      == IF next = "tools" THEN {t \in Tools : batch[t] = "absent"} ELSE {} IN
       IF misfit
       THEN pc' = "misfit" /\ UNCHANGED <<calls, ops, batch, engine, request>>
       ELSE /\ SettleCalls(C, ops[o].usage)
            /\ engine' = [engine EXCEPT !.attempts = @ \ C, !.captured = @ \ C, !.known = o = "run"]
            /\ \E T \in SUBSET S : /\ (next = "tools") = (T # {})
                                   /\ batch' = [t \in Tools |-> IF t \in T THEN "planned" ELSE batch[t]]
            /\ ops' = [ops EXCEPT ![o] = IF next \in {"accepted", "tools"} THEN [@ EXCEPT !.at = next]
                                         ELSE [@ EXCEPT !.at = "settled", !.outcome = next]]
            /\ request' = "none" /\ UNCHANGED pc
    /\ UNCHANGED <<tools, inputs, inbox, used>> /\ PiOnly

\* What a response can lead to: a cancelled operation ends, an error is retried or final.
Nexts(o) == IF ops[o].cancel THEN {"aborted"}
            ELSE {"accepted", "failed"} \cup
                 (IF request # "answered" THEN {} ELSE {"completed"} \cup (IF o = "run" THEN {"tools"} ELSE {}))

\* At a boundary Pi delivers queued input in the commit that takes it out of the inbox.
Deliver(i) ==
    /\ Driving("run") /\ AtBoundary("run") /\ ~ops["run"].cancel
    /\ i \in inbox /\ SetInbox(inbox \ {i})

Batch(b) ==
    /\ IF Intents(b) # {} /\ ~engine.known
       THEN pc' = "misfit" /\ UNCHANGED <<batch, tools, engine>>
       ELSE /\ batch' = b /\ ProjectIntents(b)
            /\ engine' = [engine EXCEPT !.started = @ \cup Intents(b)] /\ UNCHANGED pc
    /\ UNCHANGED <<calls, inputs, ops, inbox, used, request>> /\ PiOnly
StartTool(t) ==
    /\ Driving("run") /\ ops["run"].at = "tools" /\ ~ops["run"].cancel
    /\ batch[t] = "planned" /\ \A u \in Tools : batch[u] # "effect_pending"
    /\ Batch([batch EXCEPT ![t] = "effect_pending"])

\* The outcome of a tool, with the workspace it left: one commit, one revision.
FinishTool(t) ==
    /\ Driving("run") /\ ops["run"].at = "tools" /\ batch[t] = "effect_pending"
    /\ batch' = [batch EXCEPT ![t] = "done"]
    /\ tools' = [tools EXCEPT ![t].result = @ + 1]
    /\ UNCHANGED <<calls, inputs, ops, inbox, used, pc, engine, request>> /\ PiOnly

\* Operations that end without another request: a navigation, a cancellation, the last retry.
SettleAt(o, outcome) ==
    /\ ops' = [ops EXCEPT ![o].at = "settled", ![o].outcome = outcome]
    /\ UNCHANGED <<calls, tools, inputs, batch, inbox, used, pc, engine, request>> /\ PiOnly
Navigate      == Driving("context") /\ mode = "reset" /\ ~ops["context"].cancel /\ SettleAt("context", "completed")
SettleForeign == pc = "reconcile" /\ Open("other") /\ SettleAt("other", "aborted")
Exhausted(o)  == Driving(o) /\ AtBoundary(o) /\ used = MaxUsage /\ ~ops[o].cancel /\ SettleAt(o, "failed")
SettleAborted(o) ==
    /\ Driving(o) /\ ops[o].cancel /\ ops[o].at \in {"accepted", "tools"}
    /\ \A t \in Tools : batch[t] # "effect_pending"
    /\ SettleAt(o, "aborted")

Engine ==
    \/ Execute \/ RefuseForeign \/ Reconcile \/ Reconciled \/ NothingOpen \/ Recover \/ SettleOrphan
    \/ Attach \/ ThrowIfAborted \/ Align \/ AcceptContext \/ BeginAccept \/ AcceptPrompt \/ Drive
    \/ ContextDriven \/ CompactionFailed \/ RunDriven \/ Reopen \/ GiveUp \/ RequestAbort \/ Detach
Pi ==
    \/ StartModel \/ Register \/ Deny \/ Answer \/ Navigate \/ SettleForeign
    \/ \E o \in Owned : Intend(o) \/ Exhausted(o) \/ SettleAborted(o) \/ \E n \in Nexts(o) : Settle(o, n)
    \/ \E t \in Tools : StartTool(t) \/ FinishTool(t)
Outside ==
    \/ \E k \in {"cancel", "detach"} : Abort(k)
    \/ \E i \in Inputs : Queue(i) \/ CancelQueued(i) \/ Deliver(i)
    \/ RefuseCommit \/ Crash

Next == Engine \/ Pi \/ Outside
Spec == Init /\ [][Next]_vars

------------------------------------------------------------------------------
(* Properties                                                                 *)

\* The two ledgers balance at every instant, also between two lives of the process: an
\* attempt the turn has recorded is settled once, by the usage of the very request it was
\* made for, and one that is not settled belongs to a request that an open operation of Pi
\* still waits for.  So nothing is left over when the turn completes.
AttemptsBalance ==
    /\ \A c, d \in DOMAIN calls : calls[c].usage = calls[d].usage => c = d
    /\ \A c \in DOMAIN calls :
          /\ calls[c].by \in {NoUsage, calls[c].usage}
          /\ Unsettled(c) => \E o \in Owned : ops[o].at = "effect_pending" /\ ops[o].usage = calls[c].usage
    /\ status = "completed" => \A c \in DOMAIN calls : ~Unsettled(c)

\* However often Pi writes a batch again, for a cancellation or after a death, a tool's
\* intent and its result are recorded once and agree with the batch.
ToolsOnce ==
    \A t \in Tools : /\ tools[t].started = IF batch[t] \in {"effect_pending", "done"} THEN 1 ELSE 0
                     /\ tools[t].result  = IF batch[t] = "done" THEN 1 ELSE 0

\* input.queued and input.consumed, derived from differences, tell just what is in the
\* durable inbox: nothing is consumed twice, delivered after its cancellation or forgotten
\* by a restart.
InputsLogged ==
    \A i \in Inputs : inputs[i].queued = inputs[i].consumed + IF i \in inbox THEN 1 ELSE 0

\* No commit of Pi meets a projection that cannot explain it: a dispatched request without
\* its attempt, a summary without its response, a tool intent without its assistant message.
NeverMisfits == pc # "misfit"

\* The prompt is accepted on a lane that has the turn's own settings, with no operation of
\* another turn open and the context operation, if there is anything to do, settled.
PromptFollowsContext ==
    ops["run"].at # "none" => aligned /\ (trivial \/ ops["context"].at = "settled") /\ ~Open("other")

=============================================================================
