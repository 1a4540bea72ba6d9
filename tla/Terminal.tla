------------------------------ MODULE Terminal ------------------------------
(* The terminal over one runtime: terminal/controller.ts (the conversations,  *)
(* their tasks, submit, observe, resume, stop, fork), the timed keys of       *)
(* terminal/keyboard.ts, and the headless front end plain.ts.                 *)
(*                                                                            *)
(* Everything runs on one thread, and whatever is awaited may be              *)
(* interleaved with keys: a read of the terminal can hold several keys, which *)
(* are handled before the continuation of the first.  (An answer that is there*)
(* at once is taken in the step that asks for it, but for startTurn's, which a*)
(* stop may overtake.)  A conversation is held in objects: the one its task   *)
(* writes to, and the copies that were listed.  What fills the screen and the *)
(* commands that only read or set a preference are left out.                  *)
EXTENDS Naturals, Sequences, FiniteSets

CONSTANTS
    Sessions, First,        \* conversations, and the one that is there at the start
    MaxRuns, MaxEvents,     \* bounds: runs, and events of a run before its last
    MaxObjects              \* bound: objects that hold a conversation

ASSUME TerminalAssumption ==
    /\ First \in Sessions /\ {MaxRuns, MaxEvents, MaxObjects} \subseteq Nat

VARIABLES
    runs,       \* the runtime's, external: session, state, events so far, and whether it was told to stop
    turnIds,    \* the runs of each session, <<0>> before it is created
    objects,    \* objects that hold a conversation: the session and its turns
    shown,      \* the one on the screen
    tasks,      \* which call observes the running turn of a session
    calls,      \* the calls of submit, and the observers that resume leaves behind
    resuming,   \* the call of resume: a dialog over an object
    closed,     \* "open", "key" when a key closed it (other ways out end here), "plain" without one
    exit,       \* the key for exit that waits for its second press, which closes the terminal
    warned,     \* history: the key for exit of the last warning, if nothing came after it
    plain       \* the headless front end: its turn, and whether it was interrupted

runtime  == <<runs, turnIds>>
held     == <<objects, shown, tasks, calls, resuming>>
keyboard == <<exit, warned>>
vars     == <<runtime, held, closed, keyboard, plain>>

None     == "none"
Kinds    == {"submit", "resume"}
NoCall   == [at |-> "idle", obj |-> 0, turn |-> 0, after |-> 0, batch |-> 0, stop |-> FALSE]
NoDialog == [at |-> "idle", obj |-> 0]

Run(s, at, log) == [session |-> s, at |-> at, log |-> log, stop |-> FALSE]
Turn(run, log, over) == [run |-> run, events |-> [i \in 1..log |-> i], over |-> over, cut |-> FALSE]

Init ==
    /\ closed \in {"open", "plain"}
    /\ \/ runs = <<Run(First, "interrupted", 1)>>
       \/ runs = <<Run(First, "ended", 1)>> /\ closed = "plain"
       \/ runs = <<>> /\ closed = "open"     \* the first start
    /\ \E s \in Sessions \ {First} :    \* the constructor creates a conversation
         /\ turnIds = [u \in Sessions |-> CASE u = s -> <<>>
                                           [] u = First /\ runs # <<>> -> <<1>>
                                           [] OTHER -> <<0>>]
         /\ objects = <<[session |-> s, turns |-> <<>>]>>
    /\ shown = 1 /\ tasks = [s \in Sessions |-> None]
    /\ calls = [s \in Sessions |-> [k \in Kinds |-> NoCall]]
    /\ resuming = NoDialog /\ exit = None /\ warned = None
    /\ plain = [at |-> "ready", run |-> 0, interrupted |-> FALSE]

Open    == closed = "open"
Overlay == resuming.at # "idle"
Visible == objects[shown].session
Task    == tasks[Visible]

------------------------------------------------------------------------------
(* The runtime, as it answers these front ends                                *)

Created(s) == turnIds[s] # <<0>>
Running(r) == runs[r].at = "running"
Busy(s)    == \E r \in DOMAIN runs : runs[r].session = s /\ Running(r)
HeadOf(s)  == turnIds[s][Len(turnIds[s])]

\* startTurn accepts, unless a turn runs or an interrupted one waits for its resumption.
Accepts(s) == ~Busy(s) /\ (turnIds[s] = <<>> \/ runs[HeadOf(s)].at # "interrupted")
StartTurn(s) ==
    /\ Len(runs) < MaxRuns
    /\ runs' = Append(runs, Run(s, "running", 0))
    /\ turnIds' = [turnIds EXCEPT ![s] = Append(@, Len(runs) + 1)]

\* stopTurn: what has ended stays as it is.
Told(stopped) == [r \in DOMAIN runs |-> IF r \in stopped /\ Running(r) THEN [runs[r] EXCEPT !.stop = TRUE] ELSE runs[r]]

Emits(r) == Running(r) /\ runs[r].log < MaxEvents /\ runs' = [runs EXCEPT ![r].log = @ + 1]
Ends(r)  == Running(r) /\ runs' = [runs EXCEPT ![r].log = @ + 1, ![r].at = "ended", ![r].stop = FALSE]
RunEmits  == \E r \in DOMAIN runs : Emits(r) /\ UNCHANGED <<turnIds, held, closed, keyboard, plain>>
RunEnds   == \E r \in DOMAIN runs : Ends(r) /\ UNCHANGED <<turnIds, held, closed, keyboard, plain>>
StopEnds  == \E r \in DOMAIN runs : runs[r].stop /\ Ends(r) /\ UNCHANGED <<turnIds, held, closed, keyboard, plain>>

\* getSession: a new object, of what is committed now.
Snapshot(s) ==
    [session |-> s,
     turns |-> [i \in DOMAIN turnIds[s] |-> LET r == turnIds[s][i] IN Turn(r, runs[r].log, ~Running(r))]]
Hold(object) == Len(objects) < MaxObjects /\ objects' = Append(objects, object)

------------------------------------------------------------------------------
(* Keys, and what they must not forget                                        *)

\* A key for an overlay ends the wait of exit, as every key does but the two for exit.
\* Fault: it goes to the overlay only.
ToOverlayKept == UNCHANGED exit /\ warned' = None
ToOverlay == exit' = None /\ warned' = None
Typed     == exit' = None /\ warned' = None

\* A second later.
Expire == /\ Open /\ exit # None /\ exit' = None /\ warned' = None
          /\ UNCHANGED <<runtime, held, closed, plain>>

\* A notice may come up at any time, over whatever there is.
Dismiss == Open /\ exit # None /\ ToOverlay /\ UNCHANGED <<runtime, held, closed, plain>>
Command == Open /\ ~Overlay /\ Typed /\ UNCHANGED <<closed, plain>>

------------------------------------------------------------------------------
(* submit and observe                                                         *)

\* The turn is on the screen and the task is set before the runtime is asked.
Submit ==
    /\ Command /\ Task = None /\ calls[Visible]["submit"].at = "idle"
    /\ LET s == Visible   at == IF Accepts(s) THEN "starting" ELSE "refused" IN
       /\ IF Accepts(s) THEN StartTurn(s) ELSE UNCHANGED runtime
       /\ objects' = [objects EXCEPT ![shown].turns = Append(@, Turn(0, 0, FALSE))]
       /\ calls' = [calls EXCEPT ![s]["submit"] =
                      [NoCall EXCEPT !.at = at, !.obj = shown, !.turn = Len(objects[shown].turns) + 1]]
       /\ tasks' = [tasks EXCEPT ![s] = "submit"]
    /\ UNCHANGED <<shown, resuming>>

CallOnly == UNCHANGED <<turnIds, shown, resuming, closed, keyboard, plain>>
Finally(s, k) == tasks' = [tasks EXCEPT ![s] = None] /\ calls' = [calls EXCEPT ![s][k] = NoCall]

\* The end of the batch that events() reads when it is first asked, 0 if there is none yet.
FirstBatch(r, after) == IF runs[r].log > after THEN runs[r].log ELSE 0

\* The answer: a stop that came before it is passed on now.
\* Fault: it was looked for before the turn was started.
StopNowNever(c) == FALSE
StopNow(c) == c.stop
Answer(s) ==
    LET c == calls[s]["submit"]   r == HeadOf(s) IN
    /\ Open /\ c.at = "starting"
    /\ objects' = [objects EXCEPT ![c.obj].turns[c.turn].run = r]
    /\ calls' = [calls EXCEPT ![s]["submit"].at = IF StopNow(c) THEN "stopping" ELSE "watching",
                              ![s]["submit"].batch = IF StopNow(c) THEN 0 ELSE FirstBatch(r, 0)]
    /\ runs' = IF StopNow(c) THEN Told({r}) ELSE runs
    /\ UNCHANGED <<tasks>> /\ CallOnly
Refused(s) ==
    LET c == calls[s]["submit"] IN
    /\ Open /\ c.at = "refused"
    /\ objects' = [objects EXCEPT ![c.obj].turns = SubSeq(@, 1, c.turn - 1)]
    /\ Finally(s, "submit") /\ UNCHANGED runs /\ CallOnly
StopAnswered(s) ==
    LET c == calls[s]["submit"]   r == objects[c.obj].turns[c.turn].run IN
    /\ Open /\ c.at = "stopping" /\ ~Running(r)
    /\ calls' = [calls EXCEPT ![s]["submit"].at = "watching", ![s]["submit"].batch = FirstBatch(r, 0)]
    /\ UNCHANGED <<runs, objects, tasks>> /\ CallOnly

Watching(s, k) == Open /\ calls[s][k].at = "watching"
Watched(s, k)  == LET c == calls[s][k] IN objects[c.obj].turns[c.turn].run
\* An event of the batch; the next batch is read after the last of one.
Observe(s, k) ==
    LET c == calls[s][k]   r == Watched(s, k) IN
    /\ Watching(s, k) /\ c.after < runs[r].log
    /\ objects' = [objects EXCEPT ![c.obj].turns[c.turn].events = Append(@, c.after + 1)]
    /\ calls' = [calls EXCEPT ![s][k].after = @ + 1,
                              ![s][k].batch = IF c.after < @ THEN @ ELSE runs[r].log]
    /\ UNCHANGED <<runs, tasks>> /\ CallOnly
\* events() ends after a batch when the turn no longer runs, also if events came meanwhile:
\* the turn is over and they are not read.
Observed(s, k) ==
    LET c == calls[s][k]   r == Watched(s, k) IN
    /\ Watching(s, k) /\ ~Running(r)
    /\ c.after = runs[r].log \/ (c.batch > 0 /\ c.after = c.batch)
    /\ objects' = [objects EXCEPT ![c.obj].turns[c.turn].over = TRUE,
                                  ![c.obj].turns[c.turn].cut = c.after < runs[r].log]
    /\ Finally(s, k) /\ UNCHANGED <<runs>> /\ CallOnly
\* Reading the events fails: the user may resume the conversation.
Breaks(s, k) ==
    Watching(s, k) /\ Finally(s, k) /\ UNCHANGED <<runs, objects>> /\ CallOnly

------------------------------------------------------------------------------
(* Conversations                                                              *)

Unused == {s \in Sessions : ~Created(s)}
Show(s, ids) ==
    /\ turnIds' = [turnIds EXCEPT ![s] = ids]
    /\ Hold([session |-> s, turns |-> [i \in DOMAIN ids |-> Turn(ids[i], runs[ids[i]].log, TRUE)]])
    /\ shown' = Len(objects) + 1
    /\ UNCHANGED <<runs, tasks, calls, resuming>>
Fresh == Command /\ \E s \in Unused : Show(s, <<>>)

\* /fork branches from the last turn and /rewind from an earlier one; either must be over,
\* on the screen and in the runtime.  The fork of an empty conversation is a fresh one.
Forkable(turn) == turn.run # 0 /\ turn.over /\ runs[turn.run].at = "ended"
Fork ==
    /\ Command
    /\ \E s \in Unused, i \in DOMAIN objects[shown].turns :
         Forkable(objects[shown].turns[i]) /\ Show(s, SubSeq(turnIds[Visible], 1, i))

\* The conversations are listed, and one is chosen from the list later.
List(s) ==
    /\ Command /\ resuming.at = "idle" /\ Created(s)
    /\ Hold(Snapshot(s)) /\ resuming' = [at |-> "listed", obj |-> Len(objects) + 1]
    /\ UNCHANGED <<runtime, shown, tasks, calls>>
Dialog(at) == Open /\ resuming.at = at /\ ToOverlay /\ UNCHANGED <<closed, plain>>
Leave(at) ==
    Dialog(at) /\ resuming' = NoDialog /\ UNCHANGED <<runtime, objects, shown, tasks, calls>>

\* What is behind the turn that was read is added to it.
\* Fault: the events are read from the start.
CaughtUpTwice(turn) == [turn EXCEPT !.events = @ \o [i \in 1..runs[turn.run].log |-> i], !.over = TRUE]
CaughtUp(turn) ==
    LET n == Len(turn.events) IN
    [turn EXCEPT !.events = @ \o [i \in 1..(runs[turn.run].log - n) |-> n + i], !.over = TRUE]

\* resume of a session in an object of its own, which a task's object goes before.
Begin(o, object) ==
    LET s == object.session   n == Len(object.turns) IN
    IF tasks[s] # None \/ n = 0
    THEN /\ shown' = IF tasks[s] # None THEN calls[s][tasks[s]].obj ELSE o
         /\ objects' = [objects EXCEPT ![o] = object]
         /\ resuming' = NoDialog /\ UNCHANGED <<tasks, calls>>
    ELSE LET turn == object.turns[n]   at == runs[turn.run].at IN
         /\ shown' = o
         /\ objects' = [objects EXCEPT ![o] = IF at = "ended" THEN [object EXCEPT !.turns[n] = CaughtUp(turn)]
                                                              ELSE object]
         /\ resuming' = IF at = "interrupted" THEN [at |-> "asking", obj |-> o] ELSE NoDialog
         /\ IF at = "running"
            THEN /\ tasks' = [tasks EXCEPT ![s] = "resume"]
                 /\ calls' = [calls EXCEPT ![s]["resume"] =
                                [at |-> "watching", obj |-> o, turn |-> n, after |-> Len(turn.events),
                                 batch |-> FirstBatch(turn.run, Len(turn.events)), stop |-> FALSE]]
            ELSE UNCHANGED <<tasks, calls>>
Pick == Dialog("listed") /\ Begin(resuming.obj, objects[resuming.obj]) /\ UNCHANGED runtime

\* The interrupted turn is only viewed, or the dialog is left: what was missed is replayed.
View ==
    LET o == resuming.obj   n == Len(objects[o].turns) IN
    /\ Dialog("asking") /\ resuming' = NoDialog /\ runs[objects[o].turns[n].run].at = "interrupted"
    /\ objects' = [objects EXCEPT ![o].turns[n] = CaughtUp(@)]
    /\ UNCHANGED <<runtime, shown, tasks, calls>>

\* The runtime resumes the turn, and the conversation is read again.
ResumeTurn ==
    LET o == resuming.obj   s == objects[o].session   r == HeadOf(s)
        fresh == [Snapshot(s) EXCEPT !.turns[Len(turnIds[s])].over = FALSE] IN
    /\ Dialog("asking") /\ ~Busy(s) /\ runs[r].at = "interrupted"
    /\ runs' = [runs EXCEPT ![r].at = "running"]
    /\ objects' = [objects EXCEPT ![o] = fresh] /\ shown' = o /\ resuming' = NoDialog
    /\ tasks' = [tasks EXCEPT ![s] = "resume"]
    /\ calls' = [calls EXCEPT ![s]["resume"] =
                   [at |-> "watching", obj |-> o, turn |-> Len(fresh.turns), after |-> runs[r].log,
                    batch |-> 0, stop |-> FALSE]]
    /\ UNCHANGED turnIds

------------------------------------------------------------------------------
(* stop, stopAll and the keys that call them                                  *)

HasRun(s) == tasks[s] # None /\ calls[s][tasks[s]].at \in {"stopping", "watching"}
Stop(targets) ==
    LET stopped == {Watched(s, tasks[s]) : s \in {u \in targets : HasRun(u)}} IN
    /\ calls' = [s \in Sessions |-> IF s \in targets THEN [calls[s] EXCEPT ![tasks[s]].stop = TRUE] ELSE calls[s]]
    /\ runs' = Told(stopped)
    /\ UNCHANGED <<turnIds, objects, shown, tasks, resuming>>
Key == Open /\ ~Overlay /\ UNCHANGED plain
Same == UNCHANGED <<runtime, held>>

Escape == Key /\ Typed /\ Task # None /\ Stop({Visible}) /\ UNCHANGED closed
AnyKey == Key /\ exit # None /\ Typed /\ Same /\ UNCHANGED closed

\* close: the observers are aborted, the runtime is closed, and the process ends.
Close ==
    /\ closed' = "key" /\ objects' = <<>> /\ shown' = 0 /\ resuming' = NoDialog
    /\ tasks' = [s \in Sessions |-> None] /\ calls' = [s \in Sessions |-> [k \in Kinds |-> NoCall]]
    /\ runs' = [r \in DOMAIN runs |-> IF Running(r) THEN Run(runs[r].session, "interrupted", runs[r].log)
                                                   ELSE runs[r]]
    /\ UNCHANGED <<turnIds, keyboard>>

\* exit: the second press of a key in time closes the terminal, the first only warns.
Exit(key) == \/ exit = key /\ Close
             \/ exit # key /\ exit' = key /\ warned' = key /\ UNCHANGED closed /\ Same
StopPress == warned' = None /\ exit' = None
CtrlC == /\ Key
         /\ IF Task # None THEN StopPress /\ Stop({Visible}) /\ UNCHANGED closed ELSE Exit("Ctrl+C")
CtrlD == Key /\ Exit("Ctrl+D")     \* in an empty editor, also while a task works

\* Ctrl+X Ctrl+K, for the second time in three seconds.
StopAll == Key /\ Typed /\ Stop({s \in Sessions : tasks[s] # None}) /\ UNCHANGED closed

------------------------------------------------------------------------------
(* plain.ts: one turn after another, and an interrupt at any time             *)

PlainOnly == closed = "plain" /\ UNCHANGED <<held, closed, keyboard>>
PlainStart ==
    /\ PlainOnly /\ plain.at = "ready" /\ Accepts(First) /\ StartTurn(First)
    /\ plain' = [plain EXCEPT !.at = "starting", !.run = Len(runs) + 1]
PlainResume ==
    /\ PlainOnly /\ plain.at = "ready" /\ runs[HeadOf(First)].at = "interrupted" /\ ~Busy(First)
    /\ runs' = [runs EXCEPT ![HeadOf(First)].at = "running"]
    /\ plain' = [plain EXCEPT !.at = "starting", !.run = HeadOf(First)] /\ UNCHANGED turnIds
PlainWatch ==
    /\ PlainOnly /\ plain.at = "starting" /\ plain' = [plain EXCEPT !.at = "watching"]
    /\ runs' = IF plain.interrupted THEN Told({plain.run}) ELSE runs
    /\ UNCHANGED turnIds
PlainEnds ==
    /\ PlainOnly /\ plain.at = "watching" /\ ~Running(plain.run)
    /\ plain' = [plain EXCEPT !.at = IF plain.interrupted THEN "done" ELSE "ready"] /\ UNCHANGED runtime
Interrupt ==
    /\ PlainOnly /\ plain.at # "done" /\ plain' = [plain EXCEPT !.interrupted = TRUE]
    /\ runs' = IF plain.at = "watching" THEN Told({plain.run}) ELSE runs
    /\ UNCHANGED turnIds

------------------------------------------------------------------------------
CallStep(s, k) ==
    \/ k = "submit" /\ (Answer(s) \/ Refused(s) \/ StopAnswered(s))
    \/ Observe(s, k) \/ Observed(s, k)
PlainSteps == PlainWatch \/ PlainEnds

Next ==
    \/ RunEmits \/ RunEnds \/ Expire
    \/ \E s \in Sessions, k \in Kinds : CallStep(s, k) \/ Breaks(s, k)
    \/ Submit \/ Fresh \/ Fork \/ Pick \/ ResumeTurn \/ View \/ Leave("listed")
    \/ \E s \in Sessions : List(s)
    \/ Dismiss \/ Escape \/ AnyKey \/ CtrlC \/ CtrlD \/ StopAll
    \/ PlainStart \/ PlainResume \/ PlainSteps \/ Interrupt

Spec == Init /\ [][Next]_vars

\* Calls are answered and events arrive; a turn need not end unless it was told to.
FairSpec ==
    /\ Spec /\ WF_vars(StopEnds) /\ WF_vars(PlainSteps)
    /\ \A s \in Sessions, k \in Kinds : WF_vars(CallStep(s, k))

------------------------------------------------------------------------------
(* Properties                                                                 *)

\* Each copy of a turn holds the first events of its run, each once and in order, whichever
\* of submit, resume and replay filled it; and one that is over on the screen holds them all,
\* unless the stream that its own observer read had ended before the last of them came: the
\* copy that is read when the conversation is opened again is whole.
AtRest(o) == o = shown /\ tasks[objects[o].session] = None /\ resuming.at = "idle"
TurnsAreWhole ==
    \A o \in DOMAIN objects : \A i \in DOMAIN objects[o].turns :
        LET turn == objects[o].turns[i] IN
        /\ \A n \in DOMAIN turn.events : turn.events[n] = n
        /\ turn.run # 0 => Len(turn.events) <= runs[turn.run].log
        /\ AtRest(o) /\ turn.run # 0 /\ turn.over /\ ~turn.cut /\ runs[turn.run].at = "ended"
           => Len(turn.events) = runs[turn.run].log

\* A stop ends the turn it was meant for, also one that had no run yet, while another
\* conversation is on the screen, or in the headless front end.
StopsArrive ==
    /\ \A s \in Sessions : \A k \in Kinds : calls[s][k].stop ~> calls[s][k].at = "idle" \/ ~Open
    /\ plain.interrupted /\ plain.at \in {"starting", "watching"} ~> plain.at \in {"ready", "done"}

\* A key closes the terminal only when the last key for exit was answered by the warning for
\* this very key: not after one that stopped a turn, and not after one an overlay took.
ExitWasAnnounced == closed = "key" => warned = exit
=============================================================================
