----------------------------- MODULE LegacyLoop -----------------------------
(***************************************************************************)
(* One turn on the pi-executor engine: the loop that asks the model, runs  *)
(* the tools it calls and commits each step before the next, stopped,      *)
(* killed and resumed at any point (packages/runtime/src/pi-executor.ts,   *)
(* checkpoints.ts, context.ts, core's conversation.ts and the loop of      *)
(* runtime.ts 323-369).                                                    *)
(*                                                                         *)
(* The committed log and workspace survive; the transcript, the shell's    *)
(* file system and the queue of tool calls are rebuilt from them. A long   *)
(* transcript is compacted into a checkpoint that stands for the log so    *)
(* far.                                                                    *)
(***************************************************************************)
EXTENDS Naturals, Sequences, FiniteSets, SequencesExt

CONSTANTS
  Tools,      \* tool call IDs a model may choose
  MaxCalls,   \* bound: requests to the model
  MaxLives    \* bound: executions of the turn, the first one included

ASSUME CallsAssumption == MaxCalls \in Nat \ {0}
ASSUME LivesAssumption == MaxLives \in Nat \ {0}

Calls == 1 .. MaxCalls
Stops == {"stop", "toolUse", "length", "error", "aborted"}
Uncertain == {"error", "aborted"}

\* The messages of a transcript.
User(text) == [role |-> "user", text |-> text]
Assistant(stop, tools) == [role |-> "assistant", stop |-> stop, tools |-> tools]
ToolResult(tool) == [role |-> "toolResult", tool |-> tool]

VARIABLES
  (* Committed. *)
  log,        \* the turn's events
  workspace,  \* what tools have done to the files, in order
  status,     \* "running", "interrupted", "completed", "failed" or "stopped"
  (* The execution. *)
  pc,         \* where it is suspended
  vfs,        \* the files of the in-memory shell
  queue,      \* tool calls of the last response still without a result
  stopReason, \* the stop reason of the response that made those calls, or "none"
  answer,     \* the stop reason of this iteration's response, or "none"
  abort,      \* why the signal was aborted: "none", "stop" or "close"
  lives,      \* executions so far
  (* The turn. *)
  prior       \* the messages of the conversation before it

process == <<pc, vfs, queue, stopReason, answer, abort, lives>>
vars == <<log, workspace, status, process, prior>>

Executing == {"loop", "tools", "waiting", "working", "publishing", "returned", "failing"}

\* The tool calls that are in a set, in their order.
Kept(tools, set) ==
  FlattenSeq([k \in DOMAIN tools |-> IF tools[k] \in set THEN <<tools[k]>> ELSE <<>>])

\* continuationMessages: what a conversation keeps of a turn that is over, wherever its
\* log ends. Calls without an outcome go, and a message that held nothing else with them.
Continuation(events) ==
  LET outcomes == {events[i].tool : i \in {j \in DOMAIN events : events[j].type = "tool.result"}}
      known(tools) == Kept(tools, outcomes)
      message(entry) ==
        CASE entry.type = "model.call" ->
               IF ~entry.text /\ known(entry.tools) = <<>> THEN <<>>
               ELSE <<Assistant(entry.stop, known(entry.tools))>>
          [] entry.type = "tool.result" -> <<ToolResult(entry.tool)>>
          [] entry.type = "message.continue" -> <<User("continue")>>
  IN <<User("earlier")>> \o FlattenSeq([i \in DOMAIN events |-> message(events[i])])

\* A turn before this one, which was stopped or killed after any of its commits: two
\* calls, with words or without, then an answer.
ParentLogs ==
  LET call(text) == [type |-> "model.call", stop |-> "toolUse", tools |-> <<"p", "q">>, text |-> text]
      result(tool) == [type |-> "tool.result", tool |-> tool]
      final == [type |-> "model.call", stop |-> "stop", tools |-> <<>>, text |-> TRUE]
      whole(text) == <<call(text), result("p"), result("q"), final>>
  IN {SubSeq(whole(text), 1, n) : text \in BOOLEAN, n \in 0 .. 4}

\* And what the conversation kept of the turns before that one: nothing, or an answer.
Before == {<<>>, <<User("earlier"), Assistant("stop", <<>>)>>}

\* startTurn has committed the turn and launched it, after such turns or as the first.
Init ==
  /\ log = <<>>
  /\ workspace = <<>>
  /\ status = "running"
  /\ pc = "loop"
  /\ vfs = <<>>
  /\ queue = <<>>
  /\ stopReason = "none"
  /\ answer = "none"
  /\ abort = "none"
  /\ lives = 1
  /\ prior \in {<<>>} \cup {before \o Continuation(events) : before \in Before, events \in ParentLogs}
-----------------------------------------------------------------------------
(* Projections of the log.                                                 *)
At(type) == {i \in DOMAIN log : log[i].type = type}
Latest(type) == CHOOSE i \in At(type) : \A j \in At(type) : j <= i

\* The latest checkpoint stands for the log up to its high water.
LatestCheckpoint ==
  IF At("context.checkpoint") = {}
  THEN [messages |-> Append(prior, User("prompt")), highWater |-> 0]
  ELSE log[Latest("context.checkpoint")]

Message(entry) ==
  CASE entry.type = "model.call" -> <<Assistant(entry.stop, entry.tools)>>
    [] entry.type = "tool.result" -> <<ToolResult(entry.tool)>>
    [] entry.type = "message.continue" -> <<User("continue")>>
    [] OTHER -> <<>>

\* projectMessages: the transcript.
History ==
  LET checkpoint == LatestCheckpoint
      tail == SubSeq(log, checkpoint.highWater + 1, Len(log))
  IN checkpoint.messages \o FlattenSeq([i \in DOMAIN tail |-> Message(tail[i])])

\* compactContext: the first message, a summary, and everything from the second last
\* response on. How long a transcript must be for it is data.
Assistants(messages) == {i \in DOMAIN messages : messages[i].role = "assistant"}
SecondLast(messages) ==
  CHOOSE i \in Assistants(messages) :
    Cardinality({j \in Assistants(messages) : j > i}) = 1
MayCompact == Cardinality(Assistants(History)) >= 3

\* Fault: the last messages are kept, whatever they answer.
CompactContextTail(messages) ==
  <<messages[1], User("summary")>> \o SubSeq(messages, Len(messages) - 1, Len(messages))
CompactContext(messages) ==
  <<messages[1], User("summary")>> \o SubSeq(messages, SecondLast(messages), Len(messages))

Checkpoint == [type |-> "context.checkpoint", messages |-> CompactContext(History),
               highWater |-> Len(log)]

\* The last response is unanswered when no user message follows it.
LastOf(role, messages) ==
  {i \in DOMAIN messages : /\ messages[i].role = role
                           /\ \A j \in i + 1 .. Len(messages) : messages[j].role # role}
Pending ==
  LET messages == History IN
  \E i \in LastOf("assistant", messages) : \A j \in LastOf("user", messages) : j < i
LastResponse ==
  LET messages == History IN messages[CHOOSE i \in LastOf("assistant", messages) : TRUE]

Missing ==
  LET messages == History
      answered(tool) == \E i \in LastOf("assistant", messages), j \in DOMAIN messages :
                          i < j /\ messages[j] = ToolResult(tool)
  IN IF Pending
     THEN Kept(LastResponse.tools, {tool \in Range(LastResponse.tools) : ~answered(tool)})
     ELSE <<>>

Answered == Pending /\ LastResponse.stop = "stop"
Used == UNION {Range(log[i].tools) : i \in At("model.call")}
-----------------------------------------------------------------------------
(* The executor.                                                           *)

\* One iteration starts from what is committed: restore the workspace, project the
\* transcript, perhaps compact it, and see what the last response still lacks.
\* Fault: the shell starts with the files it was given last time.
BeginWithoutRestore(compacts) ==
  /\ pc = "loop"
  /\ abort = "none"
  /\ compacts => MayCompact
  /\ log' = IF compacts THEN Append(log, Checkpoint) ELSE log
  /\ queue' = Missing
  /\ stopReason' = IF Pending THEN LastResponse.stop ELSE "none"
  /\ IF Answered THEN pc' = "returned" /\ answer' = "stop"
                 ELSE pc' = "tools" /\ answer' = "none"
  /\ UNCHANGED <<workspace, status, vfs, abort, lives, prior>>
Begin(compacts) ==
  /\ pc = "loop"
  /\ abort = "none"
  /\ compacts => MayCompact
  /\ log' = IF compacts THEN Append(log, Checkpoint) ELSE log
  /\ vfs' = workspace
  /\ queue' = Missing
  /\ stopReason' = IF Pending THEN LastResponse.stop ELSE "none"
  /\ IF Answered THEN pc' = "returned" /\ answer' = "stop"
                 ELSE pc' = "tools" /\ answer' = "none"
  /\ UNCHANGED <<workspace, status, abort, lives, prior>>

\* The intent is committed before the provider sees the request.
Ask ==
  LET call == Cardinality(At("model.started")) + 1 IN
  /\ pc = "tools" /\ queue = <<>> /\ answer = "none"
  /\ abort = "none"
  /\ call \in Calls
  /\ log' = Append(log, [type |-> "model.started", call |-> call])
  /\ pc' = "waiting"
  /\ UNCHANGED <<workspace, status, vfs, queue, stopReason, answer, abort, lives, prior>>

\* The response, or an error or abort in its place, settles the attempt.
Settlement(call, stop, tools) ==
  IF stop \in Uncertain THEN <<[type |-> "model.unknown", call |-> call]>>
  ELSE <<[type |-> "model.call", call |-> call, stop |-> stop, tools |-> tools]>>
       \o (IF stop = "length" /\ tools = <<>>
           THEN <<[type |-> "message.continue"]>> ELSE <<>>)

\* What a response with this stop reason may call, each call with a new ID.
Requested(stop, tools) ==
  /\ Range(tools) \cap Used = {}
  /\ stop = "toolUse" => tools # <<>>
  /\ stop \notin {"toolUse", "length"} => tools = <<>>

Respond(stop, tools) ==
  /\ pc = "waiting"
  /\ stop = "aborted" => abort # "none"
  /\ Requested(stop, tools)
  /\ log' = log \o Settlement(log[Latest("model.started")].call, stop, tools)
  /\ queue' = tools
  /\ stopReason' = stop
  /\ answer' = stop
  /\ pc' = IF stop \in Uncertain THEN "returned" ELSE "tools"
  /\ UNCHANGED <<workspace, status, vfs, abort, lives, prior>>

\* A tool's intent is committed before it touches anything.
StartTool ==
  /\ pc = "tools" /\ queue # <<>>
  /\ abort = "none"
  /\ stopReason = "toolUse"
  /\ log' = Append(log, [type |-> "tool.started", tool |-> Head(queue)])
  /\ vfs' = Append(vfs, [tool |-> Head(queue), whole |-> FALSE])
  /\ pc' = "working"
  /\ UNCHANGED <<workspace, status, queue, stopReason, answer, abort, lives, prior>>

\* The calls of a truncated response get an error result and do not run.
RefuseTool ==
  /\ pc = "tools" /\ queue # <<>>
  /\ abort = "none"
  /\ stopReason = "length"
  /\ pc' = "publishing"
  /\ UNCHANGED <<log, workspace, status, vfs, queue, stopReason, answer, abort, lives, prior>>

\* Nothing of a tool that an abort cut short goes further.
EndTool ==
  /\ pc = "working"
  /\ abort = "none"
  /\ vfs' = [vfs EXCEPT ![Len(vfs)].whole = TRUE]
  /\ pc' = "publishing"
  /\ UNCHANGED <<log, workspace, status, queue, stopReason, answer, abort, lives, prior>>

\* commitTool: the result and the workspace become durable together.
Publish ==
  /\ pc = "publishing"
  /\ log' = Append(log, [type |-> "tool.result", tool |-> Head(queue),
                         refused |-> stopReason = "length"])
  /\ workspace' = vfs
  /\ queue' = Tail(queue)
  /\ pc' = "tools"
  /\ UNCHANGED <<status, vfs, stopReason, answer, abort, lives, prior>>

Return ==
  /\ pc = "tools" /\ queue = <<>> /\ answer # "none"
  /\ pc' = "returned"
  /\ UNCHANGED <<log, workspace, status, vfs, queue, stopReason, answer, abort, lives, prior>>

\* Every place that looks at the signal throws once it is aborted.
ObserveAbort ==
  /\ abort # "none"
  /\ \/ pc \in {"loop", "working"}
     \/ pc = "tools" /\ (queue # <<>> \/ answer = "none")
     \/ pc = "returned" /\ answer # "stop"
  /\ pc' = "failing"
  /\ UNCHANGED <<log, workspace, status, vfs, queue, stopReason, answer, abort, lives, prior>>

\* A credential, the provider before dispatch, or a transaction fails; a commit that
\* exceeds the workspace limits throws and is rolled back.
Fault ==
  /\ pc \in {"loop", "tools", "waiting", "publishing"}
  /\ pc' = "failing"
  /\ UNCHANGED <<log, workspace, status, vfs, queue, stopReason, answer, abort, lives, prior>>
-----------------------------------------------------------------------------
(* The runtime around it.                                                  *)
Continue ==
  /\ pc = "returned"
  /\ abort = "none"
  /\ answer \in {"toolUse", "length"}
  /\ pc' = "loop"
  /\ UNCHANGED <<log, workspace, status, vfs, queue, stopReason, answer, abort, lives, prior>>

\* Nothing the executor held outlives it.
Forget == vfs' = <<>> /\ queue' = <<>> /\ stopReason' = "none" /\ answer' = "none" /\ abort' = "none"

Finish(result) ==
  /\ status' = result
  /\ pc' = "off"
  /\ Forget
  /\ UNCHANGED <<log, workspace, lives, prior>>

FinishAnswered ==
  /\ pc = "returned"
  /\ \/ answer = "stop" /\ Finish("completed")
     \/ answer = "error" /\ abort = "none" /\ Finish("failed")

FinishFailed ==
  /\ pc = "failing"
  /\ Finish(CASE abort = "none"  -> "failed"
              [] abort = "stop"  -> "stopped"
              [] abort = "close" -> "interrupted")

\* A stop, the turn's timer, or the close of the runtime.
Abort(why) ==
  /\ pc \in Executing
  /\ abort = "none"
  /\ abort' = why
  /\ UNCHANGED <<log, workspace, status, pc, vfs, queue, stopReason, answer, lives, prior>>

\* The process dies; the next one to open the root finds the turn running.
Crash ==
  /\ pc \in Executing
  /\ Finish("interrupted")

\* A new process resumes the turn with nothing but what was committed.
ResumeTurn ==
  /\ pc = "off"
  /\ status = "interrupted"
  /\ lives < MaxLives
  /\ lives' = lives + 1
  /\ status' = "running"
  /\ pc' = "loop"
  /\ UNCHANGED <<log, workspace, vfs, queue, stopReason, answer, abort, prior>>

\* Up to two calls in one response.
Chosen == {<<>>} \cup {<<a>> : a \in Tools} \cup {<<p[1], p[2]>> : p \in
            {q \in Tools \X Tools : q[1] # q[2]}}

Executor ==
  \/ \E compacts \in BOOLEAN : Begin(compacts)
  \/ Ask
  \/ \E stop \in Stops, tools \in Chosen : Respond(stop, tools)
  \/ StartTool
  \/ RefuseTool
  \/ EndTool
  \/ Publish
  \/ Return
  \/ ObserveAbort
  \/ Fault

Next ==
  \/ Executor
  \/ Continue
  \/ FinishAnswered
  \/ FinishFailed
  \/ \E why \in {"stop", "close"} : Abort(why)
  \/ Crash
  \/ ResumeTurn

Spec == Init /\ [][Next]_vars
-----------------------------------------------------------------------------
(* Properties.                                                             *)
\* Every transcript the model is sent is one it can answer, however often the turn was
\* killed between a response and its results, compacted, or started after a turn that
\* was: it begins with the first message of the conversation, each response is followed
\* by exactly the results of its calls in their order, no result answers anything else,
\* and what comes last is not a response of the model itself.
Transcript(messages) ==
  LET runs == {i \in DOMAIN messages : messages[i].role = "toolResult"}
      answers(i) == {i + k : k \in DOMAIN messages[i].tools} IN
  /\ \A i \in Assistants(messages) : \A k \in DOMAIN messages[i].tools :
       i + k \in runs /\ messages[i + k].tool = messages[i].tools[k]
  /\ runs \subseteq UNION {answers(i) : i \in Assistants(messages)}
  /\ messages[Len(messages)].role # "assistant"
TranscriptIsWhole ==
  pc = "waiting" =>
    LET messages == History IN
    Transcript(messages) /\ messages[1] = Append(prior, User("prompt"))[1]

\* "Only the missing tool calls execute, against the last committed workspace": the
\* committed files are the effects of the tool calls with a result that were not
\* refused, each once, in the order of the log, and none that an abort cut short.
Ran == {i \in At("tool.result") : ~log[i].refused}
Rank(i) == Cardinality({j \in Ran : j <= i})
EffectsOnce ==
  /\ Len(workspace) = Cardinality(Ran)
  /\ \A i \in Ran : workspace[Rank(i)].tool = log[i].tool /\ workspace[Rank(i)].whole
=============================================================================
