--------------------------- MODULE FrontEndProofs ---------------------------
(* Proofs about the front end: that the terminal shows turns whole and never  *)
(* exits unannounced, and that the stream it follows a turn by delivers events *)
(* one by one and in order.                                                    *)
EXTENDS Terminal, EventStream, SequenceTheorems, TLAPS

\* The types of what the terminal holds.
RunRow       == [session : Sessions, at : {"running", "ended", "interrupted"}, log : Nat, stop : BOOLEAN]
TurnCopy     == [run : Nat, events : Seq(Nat), over : BOOLEAN, cut : BOOLEAN]
Conversation == [session : Sessions, turns : Seq(TurnCopy)]
Call         == [at : {"idle", "starting", "refused", "stopping", "watching"}, obj : Nat, turn : Nat,
                 after : Nat, batch : Nat, stop : BOOLEAN]

WellTyped ==
    /\ runs \in Seq(RunRow) /\ turnIds \in [Sessions -> Seq(Nat)]
    /\ objects \in Seq(Conversation) /\ shown \in Nat
    /\ tasks \in [Sessions -> Kinds \cup {None}] /\ calls \in [Sessions -> [Kinds -> Call]]
    /\ resuming \in [at : {"idle", "listed", "asking"}, obj : Nat]

\* Of the turns of a session all are over for good but the last, which no other session has
\* before it is.
Histories ==
    \A s \in Sessions : Created(s) => \A i \in DOMAIN turnIds[s] :
        /\ turnIds[s][i] \in DOMAIN runs
        /\ \/ runs[turnIds[s][i]].at = "ended"
           \/ i = Len(turnIds[s]) /\ runs[turnIds[s][i]].session = s

\* The copies: of a turn of the session, at its place, and the first of its events.
IsCopy(turn, s, i) ==
    /\ \A n \in DOMAIN turn.events : turn.events[n] = n
    /\ turn.run # 0 => /\ i \in DOMAIN turnIds[s] /\ turn.run = turnIds[s][i]
                       /\ Len(turn.events) <= runs[turn.run].log
Copies ==
    \A o \in DOMAIN objects :
        /\ Created(objects[o].session)
        /\ \A i \in DOMAIN objects[o].turns : IsCopy(objects[o].turns[i], objects[o].session, i)

\* What may come to the screen again: a copy that is over there is over, and whole unless its
\* stream ended too early.
Live(o) ==
    \/ o = shown
    \/ resuming.at # "idle" /\ o = resuming.obj
    \/ \E s \in Sessions, k \in Kinds : calls[s][k].at # "idle" /\ o = calls[s][k].obj
IsSettled(turn) ==
    turn.run # 0 /\ turn.over => ~Running(turn.run) /\ (turn.cut \/ Len(turn.events) = runs[turn.run].log)
Settled ==
    \A o \in DOMAIN objects : Live(o) => \A i \in DOMAIN objects[o].turns : IsSettled(objects[o].turns[i])

\* The copy of a turn that has no run yet.
Unsent == [run |-> 0, events |-> <<>>, over |-> FALSE, cut |-> FALSE]

\* A call is the task of its session, and at the last turn of its object.
AtTurn(s, c) ==
    LET turns == objects[c.obj].turns IN
    /\ c.obj \in DOMAIN objects /\ objects[c.obj].session = s
    /\ c.turn = Len(turns) /\ c.turn # 0
    /\ Len(turns) = IF c.at = "refused" THEN Len(turnIds[s]) + 1 ELSE Len(turnIds[s])
    /\ c.after = Len(turns[c.turn].events)
    /\ c.at = "starting" => turns[c.turn] = Unsent
    /\ \A i \in DOMAIN turns : turns[i].run = 0 <=> i = c.turn /\ c.at \in {"starting", "refused"}
Engaged ==
    \A s \in Sessions, k \in Kinds :
        /\ calls[s][k].at # "idle" <=> tasks[s] = k
        /\ calls[s][k].at # "idle" => AtTurn(s, calls[s][k])

\* An object without a task that has all the turns of its session.
Current(o) ==
    /\ o \in DOMAIN objects
    /\ Len(objects[o].turns) = Len(turnIds[objects[o].session])
    /\ \A i \in DOMAIN objects[o].turns : objects[o].turns[i].run # 0
Screen ==
    /\ Open => /\ shown \in DOMAIN objects
               /\ IF Task = None THEN Current(shown) ELSE shown = calls[Visible][Task].obj
    /\ Overlay => /\ Open /\ Current(resuming.obj)
                  /\ resuming.at = "asking" => shown = resuming.obj /\ Task = None /\ turnIds[Visible] # <<>>
    /\ ~Open => /\ \A o \in DOMAIN objects : objects[o].turns = <<>>
                /\ \A s \in Sessions : tasks[s] = None
    /\ closed = "plain" => Created(First) /\ turnIds[First] # <<>>

Watchful == WellTyped /\ Histories /\ Copies /\ Settled /\ Engaged /\ Screen

\* A key for exit that waits is the one the last warning was for.
Announced == (exit # None => warned = exit) /\ ExitWasAnnounced
------------------------------------------------------------------------------
(* Steps of the runs                                                          *)

\* The runs go on: none is lost, none that has ended begins again.
GoesOn(r) ==
    /\ r \in DOMAIN runs' /\ runs'[r].session = runs[r].session /\ runs[r].log <= runs'[r].log
    /\ runs[r].at = "ended" => runs'[r].at = "ended"
RunsGoOn == \A r \in DOMAIN runs : GoesOn(r)

\* A function on 1 .. n is a sequence of length n.
LEMMA FunctionIsSeq ==
    ASSUME NEW n \in Nat, NEW S, NEW f \in [1 .. n -> S]
    PROVE  f \in Seq(S) /\ Len(f) = n /\ DOMAIN f = 1 .. n
  <1>1. f \in Seq(S)  OBVIOUS
  <1>2. Len(f) \in Nat /\ DOMAIN f = 1 .. Len(f)  BY <1>1, LenProperties
  <1>3. \A k : k \in 1 .. n <=> k \in 1 .. Len(f)  BY <1>2
  <1>4. Len(f) = n  BY <1>2, <1>3
  <1> QED  BY <1>1, <1>4

LEMMA RunTypes ==
    ASSUME WellTyped
    PROVE  /\ DOMAIN runs = 1 .. Len(runs) /\ Len(runs) \in Nat /\ \A r \in DOMAIN runs : runs[r] \in RunRow
           /\ DOMAIN objects = 1 .. Len(objects) /\ Len(objects) \in Nat
           /\ \A o \in DOMAIN objects :
                 /\ objects[o] \in Conversation /\ objects[o].session \in Sessions
                 /\ objects[o].turns \in Seq(TurnCopy)
                 /\ Len(objects[o].turns) \in Nat /\ DOMAIN objects[o].turns = 1 .. Len(objects[o].turns)
                 /\ \A i \in DOMAIN objects[o].turns :
                      LET turn == objects[o].turns[i] IN
                      /\ turn \in TurnCopy /\ turn.run \in Nat /\ turn.over \in BOOLEAN
                      /\ turn.events \in Seq(Nat) /\ Len(turn.events) \in Nat
                      /\ DOMAIN turn.events = 1 .. Len(turn.events)
           /\ \A s \in Sessions : /\ turnIds[s] \in Seq(Nat) /\ Len(turnIds[s]) \in Nat
                                 /\ DOMAIN turnIds[s] = 1 .. Len(turnIds[s])
           /\ \A s \in Sessions, k \in Kinds : calls[s][k] \in Call
  <1>1. \A o \in DOMAIN objects : objects[o] \in Conversation  BY DEF WellTyped
  <1>2. \A o \in DOMAIN objects : objects[o].session \in Sessions /\ objects[o].turns \in Seq(TurnCopy)
    BY <1>1 DEF Conversation
  <1>3. \A o \in DOMAIN objects : \A i \in DOMAIN objects[o].turns : objects[o].turns[i] \in TurnCopy
    BY <1>2
  <1>4. \A o \in DOMAIN objects : \A i \in DOMAIN objects[o].turns :
            LET turn == objects[o].turns[i] IN
            turn.run \in Nat /\ turn.over \in BOOLEAN /\ turn.events \in Seq(Nat)
    BY <1>3 DEF TurnCopy
  <1>5. \A o \in DOMAIN objects : /\ Len(objects[o].turns) \in Nat
                                  /\ DOMAIN objects[o].turns = 1 .. Len(objects[o].turns)
    BY <1>2, LenProperties
  <1>6. \A o \in DOMAIN objects : \A i \in DOMAIN objects[o].turns :
            LET turn == objects[o].turns[i] IN
            Len(turn.events) \in Nat /\ DOMAIN turn.events = 1 .. Len(turn.events)
    BY <1>4, LenProperties
  <1>7. /\ DOMAIN runs = 1 .. Len(runs) /\ Len(runs) \in Nat /\ \A r \in DOMAIN runs : runs[r] \in RunRow
        /\ DOMAIN objects = 1 .. Len(objects) /\ Len(objects) \in Nat
    BY LenProperties DEF WellTyped
  <1>8. \A s \in Sessions : /\ turnIds[s] \in Seq(Nat) /\ Len(turnIds[s]) \in Nat
                            /\ DOMAIN turnIds[s] = 1 .. Len(turnIds[s])
    BY LenProperties DEF WellTyped
  <1>9. \A s \in Sessions, k \in Kinds : calls[s][k] \in Call  BY DEF WellTyped
  <1> QED  BY <1>1, <1>2, <1>3, <1>4, <1>5, <1>6, <1>7, <1>8, <1>9

LEMMA OnScreen ==
    ASSUME Watchful, Open
    PROVE  /\ shown \in DOMAIN objects /\ Visible \in Sessions /\ Created(Visible)
           /\ Task \in Kinds \cup {None}
  <1>1. shown \in DOMAIN objects  BY DEF Watchful, Screen
  <1>2. Visible \in Sessions /\ Created(Visible)  BY <1>1, RunTypes DEF Watchful, Visible, Copies
  <1> QED  BY <1>1, <1>2 DEF Watchful, WellTyped, Task

LEMMA HistoriesGoOn == ASSUME Histories, RunsGoOn, UNCHANGED turnIds PROVE Histories'
  <1>1. ASSUME NEW s \in Sessions, Created(s), NEW i \in DOMAIN turnIds[s]
        PROVE  /\ turnIds[s][i] \in DOMAIN runs'
               /\ \/ runs'[turnIds[s][i]].at = "ended"
                  \/ i = Len(turnIds[s]) /\ runs'[turnIds[s][i]].session = s
    <2> DEFINE r == turnIds[s][i]
    <2>1. r \in DOMAIN runs /\ (runs[r].at = "ended" \/ (i = Len(turnIds[s]) /\ runs[r].session = s))
      BY <1>1 DEF Histories
    <2> HIDE DEF r
    <2>2a. GoesOn(r)  BY <2>1 DEF RunsGoOn
    <2>2. /\ r \in DOMAIN runs' /\ runs'[r].session = runs[r].session
          /\ runs[r].at = "ended" => runs'[r].at = "ended"
      BY <2>2a DEF GoesOn
    <2> QED  BY <2>1, <2>2 DEF r
  <1> QED  BY <1>1 DEF Histories, Created

LEMMA RunOfCopy ==
    ASSUME WellTyped, Histories, Copies, NEW o \in DOMAIN objects, NEW i \in DOMAIN objects[o].turns,
           objects[o].turns[i].run # 0
    PROVE  LET turn == objects[o].turns[i]   s == objects[o].session IN
           /\ s \in Sessions /\ i \in DOMAIN turnIds[s] /\ turn.run = turnIds[s][i]
           /\ turn.run \in DOMAIN runs /\ Len(turn.events) <= runs[turn.run].log
           /\ runs[turn.run].log \in Nat /\ Len(turn.events) \in Nat
           /\ runs[turn.run].at = "ended" \/ (i = Len(turnIds[s]) /\ runs[turn.run].session = s)
  <1> DEFINE turn == objects[o].turns[i]
             s    == objects[o].session
  <1>1. s \in Sessions /\ Created(s)  BY RunTypes DEF Copies
  <1>2. IsCopy(turn, s, i)  BY DEF Copies
  <1>3. i \in DOMAIN turnIds[s] /\ turn.run = turnIds[s][i] /\ Len(turn.events) <= runs[turn.run].log
    BY <1>2 DEF IsCopy
  <1>4. /\ turn.run \in DOMAIN runs
        /\ runs[turn.run].at = "ended" \/ (i = Len(turnIds[s]) /\ runs[turn.run].session = s)
    BY <1>1, <1>3 DEF Histories
  <1>5. runs[turn.run] \in RunRow  BY <1>4, RunTypes
  <1>6. runs[turn.run].log \in Nat  BY <1>5 DEF RunRow
  <1>7. Len(turn.events) \in Nat  BY RunTypes
  <1> QED  BY <1>1, <1>3, <1>4, <1>6, <1>7

LEMMA CopiesGoOn ==
    ASSUME WellTyped, Histories, Copies, RunsGoOn, runs' \in Seq(RunRow), UNCHANGED <<turnIds, objects>>
    PROVE  Copies'
  <1>1. ASSUME NEW o \in DOMAIN objects, NEW i \in DOMAIN objects[o].turns,
               objects[o].turns[i].run # 0
        PROVE  Len(objects[o].turns[i].events) <= runs'[objects[o].turns[i].run].log
    <2> DEFINE r == objects[o].turns[i].run
    <2>1. /\ r \in DOMAIN runs /\ Len(objects[o].turns[i].events) <= runs[r].log
          /\ runs[r].log \in Nat /\ Len(objects[o].turns[i].events) \in Nat
      BY <1>1, RunOfCopy
    <2> HIDE DEF r
    <2>2a. GoesOn(r)  BY <2>1 DEF RunsGoOn
    <2>2. r \in DOMAIN runs' /\ runs[r].log <= runs'[r].log  BY <2>2a DEF GoesOn
    <2>3. runs'[r] \in RunRow  BY <2>2
    <2>4. runs'[r].log \in Nat  BY <2>3 DEF RunRow
    <2> QED  BY <2>1, <2>2, <2>4 DEF r
  <1> QED  BY <1>1 DEF Copies, IsCopy, Created
\* A step of runs that leaves those alone that do not run.
StaysOver(r) == ~Running(r) => runs'[r].at # "running" /\ runs'[r].log = runs[r].log

LEMMA SettledGoesOn ==
    ASSUME WellTyped, Histories, Copies, Settled, \A r \in DOMAIN runs : StaysOver(r), UNCHANGED objects,
           \A o \in DOMAIN objects : Live(o)' => Live(o)
    PROVE  Settled'
  <1>1. ASSUME NEW o \in DOMAIN objects, Live(o)', NEW i \in DOMAIN objects[o].turns
        PROVE  IsSettled(objects[o].turns[i])'
    <2> DEFINE turn == objects[o].turns[i]
    <2>1. SUFFICES ASSUME turn.run # 0, turn.over
                   PROVE  /\ runs'[turn.run].at # "running"
                          /\ turn.cut \/ Len(turn.events) = runs'[turn.run].log
      BY DEF IsSettled, Running
    <2>2. turn.run \in DOMAIN runs  BY <2>1, RunOfCopy
    <2>3. IsSettled(turn)  BY <1>1 DEF Settled
    <2>4. ~Running(turn.run) /\ (turn.cut \/ Len(turn.events) = runs[turn.run].log)
      BY <2>1, <2>3 DEF IsSettled
    <2>5. StaysOver(turn.run)  BY <2>2
    <2> QED  BY <2>4, <2>5 DEF StaysOver
  <1> QED  BY <1>1 DEF Settled

\* A call that only differs in whether it was told to stop.
SameCall(s, k) ==
    /\ calls'[s][k].at = calls[s][k].at /\ calls'[s][k].obj = calls[s][k].obj
    /\ calls'[s][k].turn = calls[s][k].turn /\ calls'[s][k].after = calls[s][k].after

\* Steps of the runs, of what tells them to stop, and of the keys.
LEMMA RunsStep ==
    ASSUME Watchful, runs' \in Seq(RunRow), \A r \in DOMAIN runs : GoesOn(r) /\ StaysOver(r),
           calls' \in [Sessions -> [Kinds -> Call]], \A s \in Sessions, k \in Kinds : SameCall(s, k),
           UNCHANGED <<turnIds, objects, shown, tasks, resuming, closed>>
    PROVE  Watchful'
  <1>1. WellTyped'  BY DEF Watchful, WellTyped
  <1>2. Histories'  BY HistoriesGoOn DEF Watchful, RunsGoOn
  <1>3. Copies'  BY CopiesGoOn DEF Watchful, RunsGoOn
  <1>4. ASSUME NEW o \in DOMAIN objects, Live(o)' PROVE Live(o)
    BY Zenon, <1>4 DEF Live, SameCall
  <1>5. Settled'  BY <1>4, SettledGoesOn DEF Watchful
  <1>6. Engaged'
    <2> SUFFICES ASSUME NEW s \in Sessions, NEW k \in Kinds
                 PROVE  /\ calls'[s][k].at # "idle" <=> tasks[s] = k
                        /\ calls'[s][k].at # "idle" => AtTurn(s, calls[s][k])'
      BY DEF Engaged
    <2>1. SameCall(s, k)  OBVIOUS
    <2>2. /\ calls[s][k].at # "idle" <=> tasks[s] = k
          /\ calls[s][k].at # "idle" => AtTurn(s, calls[s][k])
      BY DEF Watchful, Engaged
    <2> QED  BY <2>1, <2>2 DEF SameCall, AtTurn
  <1>7. Screen'
    <2>1. ASSUME Open, Task # None PROVE calls'[Visible][Task].obj = calls[Visible][Task].obj
      <3>1. Visible \in Sessions /\ Task \in Kinds  BY <2>1, OnScreen
      <3> QED  BY <3>1 DEF SameCall
    <2> QED  BY <2>1 DEF Watchful, Screen, Open, Overlay, Visible, Task, Current, Created
  <1> QED  BY <1>1, <1>2, <1>3, <1>5, <1>6, <1>7 DEF Watchful
LEMMA ToldGoesOn ==
    ASSUME WellTyped, NEW S, runs' = Told(S)
    PROVE  runs' \in Seq(RunRow) /\ \A r \in DOMAIN runs : GoesOn(r) /\ StaysOver(r)
  <1>1. DOMAIN runs = 1 .. Len(runs) /\ Len(runs) \in Nat  BY RunTypes
  <1>2. ASSUME NEW r \in DOMAIN runs
        PROVE  /\ runs'[r] \in RunRow /\ runs'[r].session = runs[r].session
               /\ runs'[r].log = runs[r].log /\ runs'[r].at = runs[r].at /\ runs[r].log \in Nat
    <2>1. runs[r] \in RunRow  BY RunTypes
    <2>2. runs'[r] = runs[r] \/ runs'[r] = [runs[r] EXCEPT !.stop = TRUE]  BY DEF Told
    <2> QED  BY <2>1, <2>2 DEF RunRow
  <1>3. runs' \in [1 .. Len(runs) -> RunRow]  BY <1>1, <1>2 DEF Told
  <1>4. runs' \in Seq(RunRow)  BY <1>1, <1>3, FunctionIsSeq
  <1>5. ASSUME NEW r \in DOMAIN runs PROVE GoesOn(r) /\ StaysOver(r)
    <2>1. r \in DOMAIN runs'  BY <1>1, <1>3
    <2> QED  BY <1>2, <2>1 DEF GoesOn, StaysOver, Running
  <1> QED  BY <1>4, <1>5

LEMMA RunGoesOn ==
    ASSUME WellTyped, NEW r \in DOMAIN runs, Running(r),
           NEW row \in RunRow, row.session = runs[r].session, runs[r].log <= row.log,
           runs' = [runs EXCEPT ![r] = row]
    PROVE  runs' \in Seq(RunRow) /\ \A q \in DOMAIN runs : GoesOn(q) /\ StaysOver(q)
  <1>1. DOMAIN runs = 1 .. Len(runs) /\ Len(runs) \in Nat  BY RunTypes
  <1>2. runs' \in [1 .. Len(runs) -> RunRow]
    <2>1. \A q \in DOMAIN runs : runs'[q] \in RunRow  BY RunTypes
    <2> QED  BY <1>1, <2>1
  <1>3. runs' \in Seq(RunRow)  BY <1>1, <1>2, FunctionIsSeq
  <1>4. ASSUME NEW q \in DOMAIN runs PROVE GoesOn(q) /\ StaysOver(q)
    <2>1. q \in DOMAIN runs'  BY <1>1, <1>2
    <2>2. runs[q].log \in Nat  BY RunTypes DEF RunRow
    <2>3. CASE q = r  BY <2>1, <2>3 DEF GoesOn, StaysOver, Running
    <2>4. CASE q # r  BY <2>1, <2>2, <2>4 DEF GoesOn, StaysOver, Running
    <2> QED  BY <2>3, <2>4
  <1> QED  BY <1>3, <1>4

LEMMA EmitsStep == ASSUME Watchful, RunEmits PROVE Watchful'
  <1>1. PICK r \in DOMAIN runs : Emits(r)  BY DEF RunEmits
  <1> DEFINE row == [runs[r] EXCEPT !.log = @ + 1]
  <1>2. WellTyped /\ runs[r] \in RunRow  BY RunTypes DEF Watchful
  <1>3. row \in RunRow /\ row.session = runs[r].session /\ runs[r].log <= row.log  BY <1>2 DEF RunRow
  <1>4. runs' = [runs EXCEPT ![r] = row] /\ Running(r)  BY <1>1 DEF Emits
  <1> HIDE DEF row
  <1>5. runs' \in Seq(RunRow) /\ \A q \in DOMAIN runs : GoesOn(q) /\ StaysOver(q)
    BY <1>2, <1>3, <1>4, RunGoesOn
  <1>6. \A s \in Sessions, k \in Kinds : SameCall(s, k)  BY DEF RunEmits, held, SameCall
  <1> QED  BY <1>2, <1>5, <1>6, RunsStep DEF RunEmits, held, WellTyped

LEMMA EndsStep == ASSUME Watchful, RunEnds PROVE Watchful'
  <1>1. PICK r \in DOMAIN runs : Ends(r)  BY DEF RunEnds
  <1> DEFINE row == [runs[r] EXCEPT !.log = @ + 1, !.at = "ended", !.stop = FALSE]
  <1>2. WellTyped /\ runs[r] \in RunRow  BY RunTypes DEF Watchful
  <1>3. row \in RunRow /\ row.session = runs[r].session /\ runs[r].log <= row.log
    <2> DEFINE logged == [runs[r] EXCEPT !.log = @ + 1]
               ended  == [logged EXCEPT !.at = "ended"]
    <2>1. logged \in RunRow /\ logged.session = runs[r].session /\ logged.log = runs[r].log + 1
          /\ runs[r].log \in Nat
      BY <1>2 DEF RunRow
    <2>2. row = [ended EXCEPT !.stop = FALSE]  BY <1>2 DEF RunRow
    <2> HIDE DEF logged, row
    <2>3. ended \in RunRow /\ ended.session = logged.session /\ ended.log = logged.log
      BY <2>1 DEF RunRow
    <2> HIDE DEF ended
    <2>4. row \in RunRow /\ row.session = ended.session /\ row.log = ended.log
      BY <2>2, <2>3 DEF RunRow
    <2> QED  BY <2>1, <2>3, <2>4
  <1>4. runs' = [runs EXCEPT ![r] = row] /\ Running(r)  BY <1>1 DEF Ends
  <1> HIDE DEF row
  <1>5. runs' \in Seq(RunRow) /\ \A q \in DOMAIN runs : GoesOn(q) /\ StaysOver(q)
    BY <1>2, <1>3, <1>4, RunGoesOn
  <1>6. \A s \in Sessions, k \in Kinds : SameCall(s, k)  BY DEF RunEnds, held, SameCall
  <1> QED  BY <1>2, <1>5, <1>6, RunsStep DEF RunEnds, held, WellTyped

\* What stop does: the runs are told, and the calls of the sessions it was for.
LEMMA StopStep ==
    ASSUME Watchful, NEW targets \in SUBSET Sessions, \A s \in targets : tasks[s] # None, Stop(targets),
           UNCHANGED closed
    PROVE  Watchful'
  <1>1. WellTyped  BY DEF Watchful
  <1>2. PICK S : runs' = Told(S)  BY DEF Stop
  <1>3. runs' \in Seq(RunRow) /\ \A r \in DOMAIN runs : GoesOn(r) /\ StaysOver(r)  BY <1>1, <1>2, ToldGoesOn
  <1>4. ASSUME NEW s \in Sessions, NEW k \in Kinds
        PROVE  calls'[s][k] \in Call /\ SameCall(s, k)
    <2>1. calls[s] \in [Kinds -> Call] /\ calls[s][k] \in Call  BY <1>1 DEF WellTyped
    <2>2. calls'[s] = IF s \in targets THEN [calls[s] EXCEPT ![tasks[s]].stop = TRUE] ELSE calls[s]
      BY DEF Stop
    <2>3. calls'[s][k] = calls[s][k] \/ calls'[s][k] = [calls[s][k] EXCEPT !.stop = TRUE]
      BY <2>1, <2>2
    <2> QED  BY <2>1, <2>3 DEF Call, SameCall
  <1>5. calls' \in [Sessions -> [Kinds -> Call]]
    <2>1. ASSUME NEW s \in Sessions PROVE calls'[s] \in [Kinds -> Call]
      <3>1. DOMAIN calls'[s] = Kinds /\ calls'[s] = [k \in Kinds |-> calls'[s][k]]
        BY <1>1 DEF Stop, WellTyped
      <3> QED  BY <1>4, <3>1
    <2>2. calls' = [s \in Sessions |-> calls'[s]]  BY DEF Stop
    <2> QED  BY <2>1, <2>2
  <1> QED  BY <1>3, <1>4, <1>5, RunsStep DEF Stop
------------------------------------------------------------------------------
(* Turns that start                                                           *)

LEMMA AcceptedEnded ==
    ASSUME WellTyped, Histories, NEW s \in Sessions, Created(s), Accepts(s), NEW i \in DOMAIN turnIds[s]
    PROVE  runs[turnIds[s][i]].at = "ended"
  <1> DEFINE r == turnIds[s][i]
  <1>1. /\ r \in DOMAIN runs
        /\ runs[r].at = "ended" \/ (i = Len(turnIds[s]) /\ runs[r].session = s)
    BY DEF Histories
  <1>2. SUFFICES ASSUME i = Len(turnIds[s]), runs[r].session = s PROVE runs[r].at = "ended"
    BY <1>1
  <1>3. r = HeadOf(s)  BY <1>2 DEF HeadOf
  <1>4. runs[r].at \in {"running", "ended", "interrupted"}  BY <1>1, RunTypes DEF RunRow
  <1>5. turnIds[s] # <<>>  BY RunTypes
  <1>6. runs[r].at # "running"  BY <1>1, <1>2 DEF Accepts, Busy, Running
  <1>7. runs[r].at # "interrupted"  BY <1>3, <1>5 DEF Accepts
  <1> QED  BY <1>4, <1>6, <1>7

LEMMA Started ==
    ASSUME WellTyped, Histories, NEW s \in Sessions, Created(s), Accepts(s), StartTurn(s)
    PROVE  /\ runs' \in Seq(RunRow) /\ \A r \in DOMAIN runs : GoesOn(r) /\ StaysOver(r) /\ runs'[r] = runs[r]
           /\ turnIds' \in [Sessions -> Seq(Nat)]
           /\ Len(turnIds'[s]) = Len(turnIds[s]) + 1
           /\ \A i \in DOMAIN turnIds[s] : i \in DOMAIN turnIds'[s] /\ turnIds'[s][i] = turnIds[s][i]
           /\ turnIds'[s][Len(turnIds[s]) + 1] = Len(runs) + 1
           /\ \A u \in Sessions \ {s} : turnIds'[u] = turnIds[u]
           /\ \A u \in Sessions : Created(u) => Created(u)'
           /\ Histories'
  <1> DEFINE row == Run(s, "running", 0)
             ids == turnIds[s]
             n   == Len(ids)
             m   == Len(runs)
  <1>1. row \in RunRow /\ row.session = s  BY DEF RunRow, Run
  <1> HIDE DEF row
  <1>2. /\ ids \in Seq(Nat) /\ n \in Nat /\ DOMAIN ids = 1 .. n
        /\ m \in Nat /\ DOMAIN runs = 1 .. m /\ runs \in Seq(RunRow)
    BY RunTypes DEF WellTyped
  <1>3. runs' = Append(runs, row) /\ turnIds' = [turnIds EXCEPT ![s] = Append(ids, m + 1)]
    BY DEF StartTurn, row
  <1>4. /\ runs' \in Seq(RunRow) /\ Len(runs') = m + 1 /\ DOMAIN runs' = 1 .. m + 1
        /\ runs'[m + 1] = row /\ \A r \in 1 .. m : runs'[r] = runs[r]
    <2>1. runs' \in Seq(RunRow) /\ Len(runs') = m + 1  BY <1>1, <1>2, <1>3, AppendProperties
    <2>2. DOMAIN runs' = 1 .. m + 1  BY <2>1, LenProperties
    <2> QED  BY <1>1, <1>2, <1>3, <2>1, <2>2, AppendProperties
  <1>5. ASSUME NEW r \in DOMAIN runs PROVE GoesOn(r) /\ StaysOver(r) /\ runs'[r] = runs[r]
    <2>1. r \in 1 .. m /\ r \in DOMAIN runs' /\ runs'[r] = runs[r]  BY <1>2, <1>4
    <2>2. runs[r].log \in Nat  BY RunTypes DEF RunRow
    <2> QED  BY <2>1, <2>2 DEF GoesOn, StaysOver, Running
  <1>6. turnIds'[s] = Append(ids, m + 1) /\ \A u \in Sessions \ {s} : turnIds'[u] = turnIds[u]
    BY <1>3 DEF WellTyped
  <1>7. /\ turnIds'[s] \in Seq(Nat) /\ Len(turnIds'[s]) = n + 1 /\ DOMAIN turnIds'[s] = 1 .. n + 1
        /\ turnIds'[s][n + 1] = m + 1 /\ \A i \in 1 .. n : turnIds'[s][i] = ids[i]
    <2>1. Append(ids, m + 1) \in Seq(Nat) /\ Len(Append(ids, m + 1)) = n + 1
      BY <1>2, AppendProperties
    <2>2. DOMAIN Append(ids, m + 1) = 1 .. n + 1  BY <2>1, LenProperties
    <2>3. Append(ids, m + 1)[n + 1] = m + 1 /\ \A i \in 1 .. n : Append(ids, m + 1)[i] = ids[i]
      BY <1>2, AppendProperties
    <2> QED  BY <1>6, <2>1, <2>2, <2>3
  <1>8. turnIds' \in [Sessions -> Seq(Nat)]
    BY <1>3, <1>6, <1>7 DEF WellTyped
  <1>9. ASSUME NEW u \in Sessions, Created(u) PROVE Created(u)'
    <2>1. turnIds'[s] # << 0 >>  BY <1>2, <1>7
    <2> QED  BY <1>6, <1>9, <2>1 DEF Created
  <1>10. Histories'
    <2> SUFFICES ASSUME NEW u \in Sessions, Created(u)', NEW i \in DOMAIN turnIds'[u]
                 PROVE  /\ turnIds'[u][i] \in DOMAIN runs'
                        /\ \/ runs'[turnIds'[u][i]].at = "ended"
                           \/ i = Len(turnIds'[u]) /\ runs'[turnIds'[u][i]].session = u
      BY DEF Histories
    <2>1. CASE u # s
      <3>1. turnIds'[u] = turnIds[u] /\ Created(u)  BY <2>1, <1>6 DEF Created
      <3>2. /\ turnIds[u][i] \in DOMAIN runs
            /\ \/ runs[turnIds[u][i]].at = "ended"
               \/ i = Len(turnIds[u]) /\ runs[turnIds[u][i]].session = u
        BY <3>1 DEF Histories
      <3>3. turnIds[u][i] \in DOMAIN runs' /\ runs'[turnIds[u][i]] = runs[turnIds[u][i]]
        BY <3>2, <1>5 DEF GoesOn
      <3> QED  BY <3>1, <3>2, <3>3
    <2>2. CASE u = s /\ i = n + 1
      BY <1>1, <1>2, <1>4, <1>7, <2>2
    <2>3. CASE u = s /\ i # n + 1
      <3>1. i \in 1 .. n  BY SMTT(30), <1>2, <1>7, <2>3
      <3>2. turnIds'[u][i] = turnIds[s][i] /\ i \in DOMAIN turnIds[s]  BY <1>2, <1>7, <2>3, <3>1
      <3>3. runs[turnIds[s][i]].at = "ended"  BY <3>2, AcceptedEnded
      <3>4. turnIds[s][i] \in DOMAIN runs  BY <3>2 DEF Histories
      <3>5. turnIds[s][i] \in DOMAIN runs' /\ runs'[turnIds[s][i]] = runs[turnIds[s][i]]
        BY <3>4, <1>5 DEF GoesOn
      <3> QED  BY <3>2, <3>3, <3>5
    <2> QED  BY <2>1, <2>2, <2>3
  <1> QED  BY <1>2, <1>4, <1>5, <1>6, <1>7, <1>8, <1>9, <1>10

LEMMA RunsStay ==
    ASSUME WellTyped, UNCHANGED runs
    PROVE  runs' \in Seq(RunRow) /\ \A r \in DOMAIN runs : GoesOn(r) /\ StaysOver(r)
  <1>1. \A r \in DOMAIN runs : runs[r].log \in Nat  BY RunTypes DEF RunRow
  <1> QED  BY <1>1 DEF WellTyped, GoesOn, StaysOver, Running

\* Nothing but the keys and the headless front end changes.
LEMMA NothingChanges ==
    ASSUME Watchful, UNCHANGED <<runs, turnIds, objects, shown, tasks, calls, resuming, closed>>
    PROVE  Watchful'
  <1>1. WellTyped  BY DEF Watchful
  <1>2. runs' \in Seq(RunRow) /\ \A r \in DOMAIN runs : GoesOn(r) /\ StaysOver(r)  BY <1>1, RunsStay
  <1>3. \A s \in Sessions, k \in Kinds : SameCall(s, k)  BY DEF SameCall
  <1> QED  BY <1>1, <1>2, <1>3, RunsStep DEF WellTyped

\* The headless front end holds no copies.
LEMMA PlainStep ==
    ASSUME Watchful, closed = "plain", runs' \in Seq(RunRow), turnIds' \in [Sessions -> Seq(Nat)], Histories',
           \A s \in Sessions : Created(s) => Created(s)', turnIds'[First] # <<>>, UNCHANGED <<held, closed>>
    PROVE  Watchful'
  <1>1. /\ ~Open /\ ~Open' /\ ~Overlay /\ ~Overlay'
        /\ \A o \in DOMAIN objects : objects[o].turns = <<>>
        /\ \A s \in Sessions : tasks[s] = None
    BY DEF Watchful, Screen, Open, held, Overlay
  <1>2. WellTyped'  BY DEF Watchful, WellTyped, held
  <1>3. Copies'
    <2>1. ASSUME NEW o \in DOMAIN objects PROVE Created(objects[o].session)'
      <3> DEFINE s == objects[o].session
      <3>1. s \in Sessions /\ Created(s)  BY RunTypes DEF Watchful, Copies
      <3> HIDE DEF s
      <3>2. turnIds'[s] # << 0 >>  BY <3>1 DEF Created
      <3> QED  BY <3>2 DEF s, held, Created
    <2> QED  BY <1>1, <2>1 DEF Copies, held
  <1>4. Settled'  BY <1>1 DEF Settled, held
  <1>5. Engaged'
    <2>1. \A s \in Sessions, k \in Kinds : calls[s][k].at = "idle" /\ tasks[s] # k
      BY <1>1 DEF Watchful, Engaged, Kinds, None
    <2> QED  BY <2>1 DEF Engaged, held
  <1>6. Created(First)'  BY TerminalAssumption DEF Watchful, Screen
  <1>7. Screen'  BY <1>1, <1>6 DEF Screen, held
  <1> QED  BY <1>2, <1>3, <1>4, <1>5, <1>7 DEF Watchful

LEMMA PlainStartStep == ASSUME Watchful, PlainStart PROVE Watchful'
  <1>1. First \in Sessions /\ Created(First)
    BY TerminalAssumption DEF Watchful, Screen, PlainStart, PlainOnly
  <1>2. WellTyped /\ Histories  BY DEF Watchful
  <1>3. Accepts(First) /\ StartTurn(First)  BY DEF PlainStart
  <1>4. /\ runs' \in Seq(RunRow) /\ turnIds' \in [Sessions -> Seq(Nat)] /\ Histories'
        /\ \A s \in Sessions : Created(s) => Created(s)'
        /\ Len(turnIds'[First]) = Len(turnIds[First]) + 1
    BY <1>1, <1>2, <1>3, Started
  <1>5. turnIds'[First] # <<>>
    <2>1. Len(turnIds[First]) \in Nat  BY <1>1, <1>2, RunTypes
    <2> QED  BY <1>4, <2>1
  <1> QED  BY <1>4, <1>5, PlainStep DEF PlainStart, PlainOnly

\* A turn that was interrupted runs again.
LEMMA RunsAgain ==
    ASSUME WellTyped, NEW r \in DOMAIN runs, runs[r].at = "interrupted",
           runs' = [runs EXCEPT ![r].at = "running"]
    PROVE  /\ runs' \in Seq(RunRow) /\ \A q \in DOMAIN runs : GoesOn(q)
           /\ runs'[r].log = runs[r].log /\ runs'[r].at = "running"
           /\ \A q \in DOMAIN runs \ {r} : runs'[q] = runs[q]
  <1>1. DOMAIN runs = 1 .. Len(runs) /\ Len(runs) \in Nat /\ runs[r] \in RunRow  BY RunTypes
  <1> DEFINE row == [runs[r] EXCEPT !.at = "running"]
  <1>2. row \in RunRow /\ row.session = runs[r].session /\ row.log = runs[r].log /\ row.at = "running"
    BY <1>1 DEF RunRow
  <1>3. runs' = [runs EXCEPT ![r] = row]  OBVIOUS
  <1> HIDE DEF row
  <1>4. runs' \in [1 .. Len(runs) -> RunRow]
    <2>1. \A q \in DOMAIN runs : runs'[q] \in RunRow  BY <1>2, <1>3, RunTypes
    <2> QED  BY <1>1, <1>3, <2>1
  <1>5. runs' \in Seq(RunRow)  BY <1>1, <1>4, FunctionIsSeq
  <1>6. ASSUME NEW q \in DOMAIN runs PROVE GoesOn(q)
    <2>1. q \in DOMAIN runs'  BY <1>1, <1>4
    <2>2. runs[q].log \in Nat  BY RunTypes DEF RunRow
    <2> QED  BY <1>2, <1>3, <2>1, <2>2 DEF GoesOn
  <1> QED  BY <1>2, <1>3, <1>5, <1>6

LEMMA PlainResumeStep == ASSUME Watchful, PlainResume PROVE Watchful'
  <1>1. /\ First \in Sessions /\ Created(First) /\ turnIds[First] # <<>> /\ closed = "plain"
        /\ WellTyped /\ Histories
    BY TerminalAssumption DEF Watchful, Screen, PlainResume, PlainOnly
  <1>2. HeadOf(First) \in DOMAIN runs
    <2>1. Len(turnIds[First]) \in DOMAIN turnIds[First]  BY <1>1, RunTypes, EmptySeq
    <2> QED  BY <1>1, <2>1 DEF Histories, HeadOf
  <1>3. runs' \in Seq(RunRow) /\ \A q \in DOMAIN runs : GoesOn(q)
    BY <1>1, <1>2, RunsAgain DEF PlainResume
  <1>4. Histories'  BY <1>1, <1>3, HistoriesGoOn DEF PlainResume, RunsGoOn
  <1>5. \A s \in Sessions : Created(s) => Created(s)'  BY DEF PlainResume, Created
  <1> QED  BY <1>1, <1>3, <1>4, <1>5, PlainStep DEF PlainResume, PlainOnly, WellTyped

\* The headless front end looks on, and passes an interrupt on.
LEMMA PlainWatchStep == ASSUME Watchful, PlainWatch \/ Interrupt PROVE Watchful'
  <1>1. WellTyped  BY DEF Watchful
  <1>2. runs' = Told({plain.run}) \/ runs' = runs  BY DEF PlainWatch, Interrupt
  <1>3. runs' \in Seq(RunRow) /\ \A r \in DOMAIN runs : GoesOn(r) /\ StaysOver(r)
    BY <1>1, <1>2, ToldGoesOn, RunsStay
  <1>4. UNCHANGED <<turnIds, objects, shown, tasks, calls, resuming, closed>>
    BY DEF PlainWatch, Interrupt, PlainOnly, held
  <1>5. \A s \in Sessions, k \in Kinds : SameCall(s, k)  BY <1>4 DEF SameCall
  <1> QED  BY <1>1, <1>3, <1>4, <1>5, RunsStep DEF WellTyped
------------------------------------------------------------------------------
(* Steps of the calls                                                         *)

TurnIdsGrow ==
    \A s \in Sessions : Created(s) =>
        /\ Created(s)'
        /\ \A i \in DOMAIN turnIds[s] : i \in DOMAIN turnIds'[s] /\ turnIds'[s][i] = turnIds[s][i]

\* A copy that is left alone stays one, and stays settled.
LEMMA CopyGoesOn ==
    ASSUME WellTyped, Histories, Copies, RunsGoOn, runs' \in Seq(RunRow), TurnIdsGrow,
           NEW o \in DOMAIN objects, NEW i \in DOMAIN objects[o].turns,
           NEW t, t = objects[o].turns[i], NEW s, s = objects[o].session
    PROVE  IsCopy(t, s, i)'
  <1>1. \A n \in DOMAIN t.events : t.events[n] = n  BY DEF Copies, IsCopy
  <1>2. ASSUME t.run # 0
        PROVE  i \in DOMAIN turnIds'[s] /\ t.run = turnIds'[s][i] /\ Len(t.events) <= runs'[t.run].log
    <2>1. /\ s \in Sessions /\ i \in DOMAIN turnIds[s] /\ t.run = turnIds[s][i]
          /\ t.run \in DOMAIN runs /\ Len(t.events) <= runs[t.run].log
          /\ runs[t.run].log \in Nat /\ Len(t.events) \in Nat
      BY <1>2, RunOfCopy
    <2>2. Created(s)  BY DEF Copies
    <2>3. i \in DOMAIN turnIds'[s] /\ turnIds'[s][i] = turnIds[s][i]  BY <2>1, <2>2 DEF TurnIdsGrow
    <2>4. GoesOn(t.run)  BY <2>1 DEF RunsGoOn
    <2>5. t.run \in DOMAIN runs' /\ runs[t.run].log <= runs'[t.run].log  BY <2>4 DEF GoesOn
    <2>6. runs'[t.run] \in RunRow  BY <2>5
    <2>7. runs'[t.run].log \in Nat  BY <2>6 DEF RunRow
    <2> QED  BY <2>1, <2>3, <2>5, <2>7
  <1> QED  BY <1>1, <1>2 DEF IsCopy

LEMMA CopySettled ==
    ASSUME WellTyped, Histories, Copies, Settled, \A r \in DOMAIN runs : StaysOver(r),
           NEW o \in DOMAIN objects, Live(o), NEW i \in DOMAIN objects[o].turns, NEW t, t = objects[o].turns[i]
    PROVE  IsSettled(t)'
  <1>1. SUFFICES ASSUME t.run # 0, t.over
                 PROVE  runs'[t.run].at # "running" /\ (t.cut \/ Len(t.events) = runs'[t.run].log)
    BY DEF IsSettled, Running
  <1>2. t.run \in DOMAIN runs  BY <1>1, RunOfCopy
  <1>3. IsSettled(t)  BY DEF Settled
  <1>4. ~Running(t.run) /\ (t.cut \/ Len(t.events) = runs[t.run].log)  BY <1>1, <1>3 DEF IsSettled
  <1>5. StaysOver(t.run)  BY <1>2
  <1> QED  BY <1>4, <1>5 DEF StaysOver

LEMMA ObjectChanged ==
    ASSUME WellTyped, NEW o \in DOMAIN objects, NEW object \in Conversation,
           objects' = [objects EXCEPT ![o] = object]
    PROVE  /\ objects' \in Seq(Conversation) /\ DOMAIN objects' = DOMAIN objects
           /\ objects'[o] = object
           /\ \A p \in DOMAIN objects \ {o} : objects'[p] = objects[p]
  <1>1. /\ DOMAIN objects = 1 .. Len(objects) /\ Len(objects) \in Nat
        /\ \A p \in DOMAIN objects : objects[p] \in Conversation
    BY RunTypes
  <1>2. objects' \in [1 .. Len(objects) -> Conversation]  BY <1>1
  <1>3. objects' \in Seq(Conversation) /\ DOMAIN objects' = 1 .. Len(objects)  BY <1>1, <1>2, FunctionIsSeq
  <1> QED  BY <1>1, <1>3

ChangesTurn(o, i, t) == objects' = [objects EXCEPT ![o].turns[i] = t]
LEMMA TurnChanged ==
    ASSUME WellTyped, NEW o \in DOMAIN objects, NEW i \in DOMAIN objects[o].turns, NEW t \in TurnCopy,
           ChangesTurn(o, i, t)
    PROVE  /\ objects' \in Seq(Conversation) /\ DOMAIN objects' = DOMAIN objects
           /\ \A p \in DOMAIN objects \ {o} : objects'[p] = objects[p]
           /\ objects'[o].session = objects[o].session
           /\ Len(objects'[o].turns) = Len(objects[o].turns)
           /\ DOMAIN objects'[o].turns = DOMAIN objects[o].turns
           /\ objects'[o].turns[i] = t
           /\ \A j \in DOMAIN objects[o].turns \ {i} : objects'[o].turns[j] = objects[o].turns[j]
  <1> DEFINE turns == objects[o].turns
             n     == Len(turns)
             new   == [turns EXCEPT ![i] = t]
             object == [objects[o] EXCEPT !.turns = new]
  <1>1. /\ turns \in Seq(TurnCopy) /\ n \in Nat /\ DOMAIN turns = 1 .. n
        /\ objects[o] \in Conversation /\ objects \in Seq(Conversation)
        /\ DOMAIN objects = 1 .. Len(objects) /\ Len(objects) \in Nat
    BY RunTypes DEF WellTyped
  <1>2. objects' = [objects EXCEPT ![o] = object]  BY DEF ChangesTurn
  <1> HIDE DEF n
  <1>3. new \in [1 .. n -> TurnCopy]
    <2>1. \A j \in 1 .. n : turns[j] \in TurnCopy  BY <1>1
    <2> HIDE DEF turns
    <2> QED  BY <1>1, <2>1
  <1>4. new \in Seq(TurnCopy) /\ Len(new) = n /\ DOMAIN new = 1 .. n
    <2> HIDE DEF new
    <2> QED  BY <1>1, <1>3, FunctionIsSeq
  <1>5. new[i] = t /\ \A j \in DOMAIN turns \ {i} : new[j] = turns[j]  BY <1>1
  <1> HIDE DEF new
  <1>6. object \in Conversation /\ object.session = objects[o].session /\ object.turns = new
    BY <1>1, <1>4 DEF Conversation
  <1> HIDE DEF object
  <1>7. /\ objects' \in Seq(Conversation) /\ DOMAIN objects' = DOMAIN objects
        /\ objects'[o] = object /\ \A p \in DOMAIN objects \ {o} : objects'[p] = objects[p]
    BY <1>2, <1>6, ObjectChanged
  <1> QED  BY <1>1, <1>4, <1>5, <1>6, <1>7 DEF n

\* A call b that has been accepted, and its turn.
CallAt(s, k, b, o, i, old) ==
    /\ Open /\ s \in Sessions /\ k \in Kinds /\ b = calls[s][k] /\ b.at \notin {"idle", "refused"}
    /\ o = b.obj /\ i = b.turn /\ old = objects[o].turns[i]

\* Its step: the turn becomes t, and the call c, which may be its end.
CallBecomes(s, k, o, i, t, c) ==
    /\ c \in Call /\ calls' = [calls EXCEPT ![s][k] = c]
    /\ \/ tasks' = [tasks EXCEPT ![s] = None] /\ c.at = "idle"
       \/ /\ tasks' = tasks /\ c.at \in {"stopping", "watching"}
          /\ c.obj = o /\ c.turn = i /\ c.after = Len(t.events)
    /\ ChangesTurn(o, i, t) /\ t \in TurnCopy /\ t.run # 0 /\ UNCHANGED <<turnIds, shown, resuming, closed>>

LEMMA CallGoesOn ==
    ASSUME Watchful, NEW s, NEW k, NEW b, NEW o, NEW i, NEW old, CallAt(s, k, b, o, i, old),
           NEW t, NEW c, CallBecomes(s, k, o, i, t, c), IsCopy(t, s, i)', IsSettled(t)',
           runs' \in Seq(RunRow), \A r \in DOMAIN runs : GoesOn(r) /\ StaysOver(r)
    PROVE  Watchful'
  <1> /\ Open /\ s \in Sessions /\ k \in Kinds /\ calls[s][k].at \notin {"idle", "refused"}
      /\ o = calls[s][k].obj /\ i = calls[s][k].turn
    BY DEF CallAt
  <1> /\ c \in Call /\ calls' = [calls EXCEPT ![s][k] = c]
      /\ \/ tasks' = [tasks EXCEPT ![s] = None] /\ c.at = "idle"
         \/ /\ tasks' = tasks /\ c.at \in {"stopping", "watching"}
            /\ c.obj = o /\ c.turn = i /\ c.after = Len(t.events)
      /\ ChangesTurn(o, i, t) /\ t \in TurnCopy /\ t.run # 0 /\ UNCHANGED <<turnIds, shown, resuming, closed>>
    BY DEF CallBecomes
  <1>1. WellTyped /\ Histories /\ Copies /\ Settled /\ Engaged /\ Screen  BY DEF Watchful
  <1>2. tasks[s] = k /\ AtTurn(s, calls[s][k])  BY <1>1 DEF Engaged
  <1>3. /\ o \in DOMAIN objects /\ objects[o].session = s
        /\ i = Len(objects[o].turns) /\ i # 0 /\ i \in DOMAIN objects[o].turns
        /\ Len(objects[o].turns) = Len(turnIds[s])
        /\ \A j \in DOMAIN objects[o].turns \ {i} : objects[o].turns[j].run # 0
    <2>1. /\ o \in DOMAIN objects /\ objects[o].session = s
          /\ i = Len(objects[o].turns) /\ i # 0 /\ Len(objects[o].turns) = Len(turnIds[s])
      BY Zenon, <1>2 DEF AtTurn
    <2>2. \A j \in DOMAIN objects[o].turns \ {i} : objects[o].turns[j].run # 0
      BY <1>2 DEF AtTurn
    <2>3. Len(objects[o].turns) \in Nat /\ DOMAIN objects[o].turns = 1 .. Len(objects[o].turns)
      BY Zenon, <1>1, <2>1, RunTypes
    <2> QED  BY SMTT(30), <2>1, <2>2, <2>3
  <1>4. /\ objects' \in Seq(Conversation) /\ DOMAIN objects' = DOMAIN objects
        /\ \A p \in DOMAIN objects \ {o} : objects'[p] = objects[p]
        /\ objects'[o].session = objects[o].session
        /\ Len(objects'[o].turns) = Len(objects[o].turns)
        /\ DOMAIN objects'[o].turns = DOMAIN objects[o].turns
        /\ objects'[o].turns[i] = t
        /\ \A j \in DOMAIN objects[o].turns \ {i} : objects'[o].turns[j] = objects[o].turns[j]
    <2>1. o \in DOMAIN objects /\ i \in DOMAIN objects[o].turns  BY <1>3
    <2> QED  BY <1>1, <2>1, TurnChanged
  <1>4a. ASSUME NEW j \in DOMAIN objects'[o].turns PROVE objects'[o].turns[j].run # 0
    <2>1. CASE j = i  BY <1>4, <2>1
    <2>2. CASE j # i
      <3>1. j \in DOMAIN objects[o].turns \ {i}  BY <1>4, <2>2
      <3> QED  BY Zenon, <1>3, <1>4, <3>1
    <2> QED  BY Zenon, <2>1, <2>2
  <1>5. /\ calls'[s][k] = c
        /\ \A m \in Kinds \ {k} : calls'[s][m] = calls[s][m]
        /\ \A u \in Sessions \ {s} : calls'[u] = calls[u]
    BY <1>1 DEF WellTyped
  <1>6. calls' \in [Sessions -> [Kinds -> Call]]
    <2>1. calls[s] \in [Kinds -> Call]  BY <1>1 DEF WellTyped
    <2>2. [calls[s] EXCEPT ![k] = c] \in [Kinds -> Call]  BY <2>1
    <2>3. calls' = [calls EXCEPT ![s] = [calls[s] EXCEPT ![k] = c]]  OBVIOUS
    <2> QED  BY <1>1, <2>2, <2>3 DEF WellTyped
  <1>7. tasks' \in [Sessions -> Kinds \cup {None}] /\ \A u \in Sessions \ {s} : tasks'[u] = tasks[u]
    BY <1>1 DEF WellTyped
  <1>8. tasks'[s] = IF c.at = "idle" THEN None ELSE k  BY <1>1, <1>2 DEF WellTyped
  <1>9. WellTyped'  BY <1>1, <1>4, <1>6, <1>7 DEF WellTyped
  <1>10. RunsGoOn /\ TurnIdsGrow  BY DEF RunsGoOn, TurnIdsGrow, Created
  <1>11. Histories'  BY <1>1, <1>10, HistoriesGoOn
  <1>12. \A p \in DOMAIN objects : objects'[p].session = objects[p].session
    BY <1>3, <1>4
  <1>13. ASSUME NEW p \in DOMAIN objects, NEW j \in DOMAIN objects'[p].turns, NEW x, x = objects'[p].turns[j]
         PROVE  /\ \/ p = o /\ j = i /\ x = t
                   \/ j \in DOMAIN objects[p].turns /\ x = objects[p].turns[j]
                /\ IsCopy(x, objects[p].session, j)'
    <2>1. \/ p = o /\ j = i /\ x = t
          \/ j \in DOMAIN objects[p].turns /\ x = objects[p].turns[j]
      <3>1. CASE p # o  BY Zenon, <1>4, <1>13, <3>1
      <3>2. CASE p = o /\ j # i  BY Zenon, <1>4, <1>13, <3>2
      <3>3. CASE p = o /\ j = i  BY <1>4, <1>13, <3>3
      <3> QED  BY Zenon, <3>1, <3>2, <3>3
    <2>2. ASSUME p = o, j = i, x = t PROVE IsCopy(x, objects[p].session, j)'
      <3>1. objects'[p].session = s  BY <1>3, <1>4, <2>2
      <3> QED  BY Zenon, <2>2, <3>1 DEF IsCopy
    <2>3. ASSUME j \in DOMAIN objects[p].turns, x = objects[p].turns[j]
          PROVE  IsCopy(x, objects[p].session, j)'
      <3>1. ASSUME NEW u, u = objects[p].session PROVE IsCopy(x, u, j)'
        BY Zenon, <1>1, <1>10, <2>3, <3>1, CopyGoesOn
      <3> QED  BY <1>12, <2>1, <3>1 DEF IsCopy
    <2> QED  BY <2>1, <2>2, <2>3
  <1>14. Copies'
    <2>1. \A p \in DOMAIN objects : Created(objects[p].session)'
      BY <1>1, <1>12 DEF Copies, Created
    <2> QED  BY <1>4, <1>13, <2>1 DEF Copies
  <1>15. ASSUME NEW p \in DOMAIN objects, Live(p)' PROVE Live(p)
    BY <1>5, <1>15 DEF Live
  <1>16. Settled'
    <2> SUFFICES ASSUME NEW p \in DOMAIN objects, Live(p)', NEW j \in DOMAIN objects'[p].turns
                 PROVE  IsSettled(objects[p].turns[j])'
      BY <1>4 DEF Settled
    <2>1. ASSUME NEW x, x = objects'[p].turns[j] PROVE IsSettled(x)'
      <3>1. \/ x = t
            \/ j \in DOMAIN objects[p].turns /\ x = objects[p].turns[j]
        BY <1>13, <2>1
      <3>2. Live(p)  BY <1>15
      <3> QED  BY <1>1, <3>1, <3>2, CopySettled
    <2> QED  BY Zenon, <2>1 DEF IsSettled, Running
  <1>17. Engaged'
    <2> SUFFICES ASSUME NEW u \in Sessions, NEW m \in Kinds
                 PROVE  /\ calls'[u][m].at # "idle" <=> tasks'[u] = m
                        /\ calls'[u][m].at # "idle" => AtTurn(u, calls[u][m])'
      BY DEF Engaged
    <2>1. calls[u][m].at # "idle" <=> tasks[u] = m  BY <1>1 DEF Engaged
    <2>2. CASE u = s /\ m # k
      <3>1. calls'[u][m].at = "idle"  BY <1>2, <1>5, <2>1, <2>2
      <3> QED  BY <1>8, <2>2, <3>1 DEF None, Kinds
    <2>3. CASE u = s /\ m = k
      <3>1. c.at # "idle" => AtTurn(u, calls[u][m])'
        <4> SUFFICES ASSUME c.at # "idle" PROVE AtTurn(u, calls[u][m])'  OBVIOUS
        <4>1. c.at \in {"stopping", "watching"} /\ c.obj = o /\ c.turn = i /\ c.after = Len(t.events)
          OBVIOUS
        <4>2. calls'[u][m] = c  BY Zenon, <1>5, <2>3
        <4>3. o \in DOMAIN objects' /\ objects'[o].session = u /\ i = Len(objects'[o].turns) /\ i # 0
              /\ Len(objects'[o].turns) = Len(turnIds'[u]) /\ objects'[o].turns[i] = t
          BY <1>3, <1>4, <2>3
        <4> QED  BY Zenon, <1>4a, <4>1, <4>2, <4>3 DEF AtTurn
      <3> QED  BY Zenon, <1>5, <1>8, <2>3, <3>1 DEF None, Kinds
    <2>4. CASE u # s
      <3>1. calls'[u][m] = calls[u][m] /\ tasks'[u] = tasks[u]  BY Zenon, <1>5, <1>7, <2>4
      <3>2. ASSUME calls[u][m].at # "idle" PROVE AtTurn(u, calls[u][m])'
        <4>1. AtTurn(u, calls[u][m])  BY <1>1, <3>2 DEF Engaged
        <4>2. calls[u][m].obj # o /\ calls[u][m].obj \in DOMAIN objects  BY Zenon, <1>3, <2>4, <4>1 DEF AtTurn
        <4>3. objects'[calls[u][m].obj] = objects[calls[u][m].obj]  BY Zenon, <1>4, <4>2
        <4> DEFINE q == calls[u][m]
        <4>4. calls'[u][m] = q /\ q.obj \in DOMAIN objects' /\ objects'[q.obj] = objects[q.obj]
          BY <1>4, <3>1, <4>2, <4>3
        <4> QED  BY Zenon, <4>1, <4>4 DEF AtTurn
      <3> QED  BY <2>1, <3>1, <3>2
    <2> QED  BY <2>2, <2>3, <2>4
  <1>18. ASSUME NEW p \in DOMAIN objects, Current(p) PROVE Current(p)'
    <2>1. Len(objects[p].turns) = Len(turnIds[objects[p].session])
          /\ \A j \in DOMAIN objects[p].turns : objects[p].turns[j].run # 0
      BY Zenon, <1>18 DEF Current
    <2>2. /\ p \in DOMAIN objects' /\ objects'[p].session = objects[p].session
          /\ Len(objects'[p].turns) = Len(objects[p].turns)
      BY Zenon, <1>4
    <2>3. \A j \in DOMAIN objects'[p].turns : objects'[p].turns[j].run # 0
      <3>1. CASE p = o  BY <1>4a, <3>1
      <3>2. CASE p # o
        <4>1. objects'[p] = objects[p]  BY Zenon, <1>4, <3>2
        <4> QED  BY Zenon, <2>1, <4>1
      <3> QED  BY <3>1, <3>2
    <2> QED  BY <2>1, <2>2, <2>3 DEF Current
  <1>19. Screen'
    <2>1. shown \in DOMAIN objects /\ Visible \in Sessions /\ Visible' = Visible
      BY <1>12, OnScreen DEF Visible
    <2>2. Open' /\ (Overlay' <=> Overlay)  BY DEF Open, Overlay
    <2>3. IF Task' = None THEN Current(shown)' ELSE shown' = calls'[Visible'][Task'].obj
      <3>1. CASE Visible = s /\ c.at = "idle"
        <4>1. shown = o  BY <1>1, <1>2, <3>1 DEF Screen, Task, None, Kinds
        <4>2. Current(o)'
          <5>1. o \in DOMAIN objects' /\ Len(objects'[o].turns) = Len(turnIds'[objects'[o].session])
            BY <1>3, <1>4
          <5> QED  BY <1>4a, <5>1 DEF Current
        <4> QED  BY <1>8, <2>1, <3>1, <4>1, <4>2 DEF Task
      <3>2. CASE Visible = s /\ c.at # "idle"
        <4>1. shown = o  BY <1>1, <1>2, <3>2 DEF Screen, Task, None, Kinds
        <4> QED  BY <1>5, <1>8, <2>1, <3>2, <4>1 DEF Task, None, Kinds
      <3>3. CASE Visible # s
        <4>1. Task' = Task  BY <1>7, <2>1, <3>3 DEF Task
        <4>2. IF Task = None THEN Current(shown) ELSE shown = calls[Visible][Task].obj
          BY <1>1 DEF Screen
        <4> QED  BY <1>5, <1>18, <2>1, <3>3, <4>1, <4>2
      <3> QED  BY <3>1, <3>2, <3>3
    <2>4. ASSUME Overlay
          PROVE  /\ Current(resuming.obj)'
                 /\ resuming.at = "asking" => /\ shown = resuming.obj /\ Task' = None
                                             /\ turnIds[Visible] # <<>>
      <3>1. /\ Current(resuming.obj)
            /\ resuming.at = "asking" => shown = resuming.obj /\ Task = None /\ turnIds[Visible] # <<>>
        BY <1>1, <2>4 DEF Screen
      <3>2. resuming.obj \in DOMAIN objects  BY <3>1 DEF Current
      <3>3. Current(resuming.obj)'  BY <1>18, <3>1, <3>2
      <3>4. ASSUME Task = None PROVE Task' = None
        BY Zenon, <1>7, <1>8, <1>2, <2>1, <3>4 DEF Task, None, Kinds
      <3> QED  BY <3>1, <3>3, <3>4
    <2> QED  BY <1>1, <1>4, <2>1, <2>2, <2>3, <2>4 DEF Screen, Open, Created
  <1> QED  BY <1>9, <1>11, <1>14, <1>16, <1>17, <1>19 DEF Watchful

\* A call that waits for its turn: the turn, and what its copy is.
LEMMA TurnOfCall ==
    ASSUME Watchful, NEW s, NEW k, NEW c, NEW o, NEW i, NEW old, CallAt(s, k, c, o, i, old)
    PROVE  /\ o \in DOMAIN objects /\ objects[o].session = s /\ i \in DOMAIN objects[o].turns
           /\ i = Len(turnIds[s]) /\ i \in DOMAIN turnIds[s] /\ turnIds[s][i] \in DOMAIN runs
           /\ c \in Call /\ tasks[s] = k /\ Created(s)
           /\ old \in TurnCopy /\ c.after = Len(old.events) /\ IsCopy(old, s, i) /\ IsSettled(old)
           /\ c.at = "starting" => old = Unsent
           /\ c.at # "starting" => old.run # 0 /\ old.run \in DOMAIN runs
  <1> /\ s \in Sessions /\ k \in Kinds /\ c = calls[s][k] /\ c.at \notin {"idle", "refused"}
      /\ o = c.obj /\ i = c.turn /\ old = objects[o].turns[i]
    BY Zenon DEF CallAt
  <1>1. WellTyped /\ Histories /\ Copies /\ Settled /\ Engaged  BY Zenon DEF Watchful
  <1>2. AtTurn(s, c) /\ tasks[s] = k  BY Zenon, <1>1 DEF Engaged
  <1>3. /\ o \in DOMAIN objects /\ objects[o].session = s /\ i = Len(objects[o].turns) /\ i # 0
        /\ i = Len(turnIds[s]) /\ c.after = Len(objects[o].turns[i].events)
        /\ c.at = "starting" => objects[o].turns[i] = Unsent
    BY Zenon, <1>2 DEF AtTurn
  <1>4. i \in DOMAIN objects[o].turns /\ objects[o].turns[i] \in TurnCopy
    <2>1. Len(objects[o].turns) \in Nat /\ DOMAIN objects[o].turns = 1 .. Len(objects[o].turns)
      BY <1>1, <1>3, RunTypes
    <2>2. i \in DOMAIN objects[o].turns  BY <1>3, <2>1
    <2> QED  BY Zenon, <1>1, <1>3, <2>2, RunTypes
  <1>5. i \in DOMAIN turnIds[s]  BY <1>1, <1>3, RunTypes
  <1>6. Created(s) /\ IsCopy(objects[o].turns[i], s, i)  BY Zenon, <1>1, <1>3, <1>4 DEF Copies
  <1>7. turnIds[s][i] \in DOMAIN runs  BY Zenon, <1>1, <1>5, <1>6 DEF Histories
  <1>8. Live(o)  BY DEF Live
  <1>9. IsSettled(objects[o].turns[i])  BY Zenon, <1>1, <1>3, <1>4, <1>8 DEF Settled
  <1>10. c.at # "starting" => objects[o].turns[i].run # 0  BY Zenon, <1>2, <1>4 DEF AtTurn
  <1>11. c.at # "starting" => objects[o].turns[i].run \in DOMAIN runs
    BY <1>1, <1>3, <1>4, <1>10, RunOfCopy
  <1>12. c \in Call  BY <1>1 DEF WellTyped
  <1> QED  BY Zenon, <1>2, <1>3, <1>4, <1>5, <1>6, <1>7, <1>9, <1>10, <1>11, <1>12

LEMMA SameTurn ==
    ASSUME WellTyped, NEW o \in DOMAIN objects, NEW i \in DOMAIN objects[o].turns,
           NEW t, t = objects[o].turns[i], UNCHANGED objects
    PROVE  ChangesTurn(o, i, t)
  <1> DEFINE turns == objects[o].turns
  <1>1. turns \in Seq(TurnCopy) /\ objects[o] \in Conversation /\ objects \in Seq(Conversation)
    BY RunTypes DEF WellTyped
  <1>2. [turns EXCEPT ![i] = t] = turns  BY <1>1
  <1>3. [objects[o] EXCEPT !.turns = [turns EXCEPT ![i] = t]] = objects[o]  BY <1>1, <1>2 DEF Conversation
  <1>4. [objects EXCEPT ![o] = objects[o]] = objects  BY <1>1
  <1> QED  BY <1>3, <1>4 DEF ChangesTurn

\* What the batch of a stream is, and calls of which two fields change.
LEMMA FirstBatchTypes ==
    ASSUME WellTyped, NEW r \in DOMAIN runs, NEW after PROVE FirstBatch(r, after) \in Nat
  <1>1. runs[r].log \in Nat  BY RunTypes DEF RunRow
  <1> QED  BY <1>1 DEF FirstBatch
Moved(c, at, batch, d) == d = [[c EXCEPT !.at = at] EXCEPT !.batch = batch]
MovedTo(c, at, d) == d \in Call /\ d.at = at /\ d.obj = c.obj /\ d.turn = c.turn /\ d.after = c.after
Moves(s, k, at, batch) == calls' = [calls EXCEPT ![s][k].at = at, ![s][k].batch = batch]
Puts(s, k, d) == calls' = [calls EXCEPT ![s][k] = d]
LEMMA TwoFields ==
    ASSUME NEW c \in Call, NEW at, at \in {"stopping", "watching"}, NEW batch \in Nat,
           NEW d, Moved(c, at, batch, d)
    PROVE  MovedTo(c, at, d)
  <1>1. PICK m : m = [c EXCEPT !.at = at]  OBVIOUS
  <1>2. m \in Call /\ m.at = at /\ m.obj = c.obj /\ m.turn = c.turn /\ m.after = c.after  BY <1>1 DEF Call
  <1>3. d = [m EXCEPT !.batch = batch]  BY <1>1 DEF Moved
  <1> QED  BY <1>2, <1>3 DEF Call, MovedTo
LEMMA CallChanged ==
    ASSUME WellTyped, NEW s \in Sessions, NEW k \in Kinds, NEW c \in Call, c = calls[s][k], NEW at, NEW batch,
           Moves(s, k, at, batch), NEW d, Moved(c, at, batch, d)
    PROVE  Puts(s, k, d)
  <1> USE DEF Moves, Moved, Puts
  <1>1. PICK m, row : m = [c EXCEPT !.at = at] /\ row = [calls[s] EXCEPT ![k] = m]  OBVIOUS
  <1>2. calls \in [Sessions -> [Kinds -> Call]]  BY DEF WellTyped
  <1>3. PICK mid : mid = [calls EXCEPT ![s] = row]  OBVIOUS
  <1>4. mid[s] = row /\ row[k] = m  BY <1>1, <1>2, <1>3
  <1>5. calls' = [mid EXCEPT ![s][k].batch = batch]  BY <1>1, <1>3
  <1>6. calls' = [mid EXCEPT ![s] = [row EXCEPT ![k] = [m EXCEPT !.batch = batch]]]  BY <1>4, <1>5
  <1>7. d = [m EXCEPT !.batch = batch]  BY <1>1
  <1>8. [row EXCEPT ![k] = d] = [calls[s] EXCEPT ![k] = d]  BY <1>1, <1>2
  <1> QED  BY <1>2, <1>3, <1>6, <1>7, <1>8

LEMMA AnswerStep == ASSUME Watchful, NEW s \in Sessions, Answer(s) PROVE Watchful'
  <1>1. PICK c, k, o, i, r, old : /\ k = "submit" /\ c = calls[s][k] /\ o = c.obj /\ i = c.turn
                                  /\ r = HeadOf(s) /\ old = objects[o].turns[i]
    BY Zenon
  <1>2. CallAt(s, k, c, o, i, old) /\ c.at = "starting"  BY Zenon, <1>1 DEF Answer, Kinds, CallAt
  <1>3. /\ o \in DOMAIN objects /\ objects[o].session = s /\ i \in DOMAIN objects[o].turns
        /\ i = Len(turnIds[s]) /\ i \in DOMAIN turnIds[s] /\ turnIds[s][i] \in DOMAIN runs /\ c \in Call
        /\ old \in TurnCopy /\ c.after = Len(old.events) /\ old = Unsent
    BY <1>2, TurnOfCall
  <1>4. WellTyped  BY DEF Watchful
  <1>5. r = turnIds[s][i] /\ r \in DOMAIN runs /\ r \in Nat /\ r # 0
    <2>1. r = turnIds[s][i]  BY <1>1, <1>3 DEF HeadOf
    <2> QED  BY <1>3, <1>4, <2>1, RunTypes
  <1>6. PICK t : t = [old EXCEPT !.run = r]  BY Zenon
  <1>7. t.events = <<>> /\ t.run = r /\ t.over = FALSE /\ t \in TurnCopy /\ Len(t.events) = c.after
    <2>1. /\ old.events = <<>> /\ old.over = FALSE
          /\ old \in [run : Nat, events : Seq(Nat), over : BOOLEAN, cut : BOOLEAN]
      BY <1>3 DEF Unsent, TurnCopy
    <2>2. t.events = <<>> /\ t.run = r /\ t.over = FALSE /\ t \in TurnCopy
      BY <1>5, <1>6, <2>1 DEF TurnCopy
    <2> QED  BY <1>3, <2>1, <2>2
  <1>8. ChangesTurn(o, i, t)  BY Zenon, <1>1, <1>6 DEF Answer, ChangesTurn
  <1>9. runs' \in Seq(RunRow) /\ \A q \in DOMAIN runs : GoesOn(q) /\ StaysOver(q)
    BY Zenon, <1>4, ToldGoesOn, RunsStay DEF Answer
  <1>10. runs'[r].log \in Nat
    <2>1. GoesOn(r)  BY <1>5, <1>9
    <2>2. r \in DOMAIN runs'  BY <2>1 DEF GoesOn
    <2>3. runs'[r] \in RunRow  BY <1>9, <2>2
    <2> QED  BY <2>3 DEF RunRow
  <1>11. PICK at, batch, d : /\ at = IF StopNow(c) THEN "stopping" ELSE "watching"
                             /\ batch = IF StopNow(c) THEN 0 ELSE FirstBatch(r, 0)
                             /\ Moved(c, at, batch, d)
    BY Zenon DEF Moved
  <1>12. d \in Call /\ d.at \in {"stopping", "watching"} /\ d.obj = o /\ d.turn = i /\ d.after = Len(t.events)
    <2>1. at \in {"stopping", "watching"} /\ batch \in Nat  BY <1>4, <1>5, <1>11, FirstBatchTypes
    <2>2. MovedTo(c, at, d)  BY Zenon, <1>3, <1>11, <2>1, TwoFields
    <2>3. d \in Call /\ d.at = at /\ d.obj = c.obj /\ d.turn = c.turn /\ d.after = c.after
      BY Zenon, <2>2 DEF MovedTo
    <2> QED  BY <1>1, <1>7, <2>1, <2>3
  <1>13. calls' = [calls EXCEPT ![s][k] = d]
    <2>1. c \in Call /\ c = calls[s][k] /\ k \in Kinds  BY <1>1, <1>2, <1>3 DEF CallAt
    <2>2. Moves(s, k, at, batch)  BY Zenon, <1>1, <1>11 DEF Answer, Moves
    <2>3. Puts(s, k, d)  BY Zenon, <1>4, <1>11, <2>1, <2>2, CallChanged
    <2> QED  BY Zenon, <2>3 DEF Puts
  <1>14. UNCHANGED <<turnIds, shown, resuming, closed, tasks>>  BY Zenon DEF Answer, CallOnly
  <1>15. IsSettled(t)'  BY <1>7 DEF IsSettled
  <1>16. IsCopy(t, s, i)'  BY <1>3, <1>5, <1>7, <1>10, <1>14 DEF IsCopy
  <1>17. CallBecomes(s, k, o, i, t, d)  BY <1>5, <1>7, <1>8, <1>12, <1>13, <1>14 DEF CallBecomes
  <1> QED  BY <1>2, <1>9, <1>15, <1>16, <1>17, CallGoesOn

\* A call whose copy stays as it is goes on or ends.
LEMMA CallOnlySteps ==
    ASSUME Watchful, NEW s, NEW k, NEW b, NEW o, NEW i, NEW old, CallAt(s, k, b, o, i, old), b.at # "starting",
           NEW c, c \in Call, calls' = [calls EXCEPT ![s][k] = c],
           \/ tasks' = [tasks EXCEPT ![s] = None] /\ c.at = "idle"
           \/ /\ tasks' = tasks /\ c.at \in {"stopping", "watching"}
              /\ c.obj = o /\ c.turn = i /\ c.after = b.after,
           UNCHANGED <<runs, turnIds, objects, shown, resuming, closed>>
    PROVE  Watchful'
  <1>1. /\ o \in DOMAIN objects /\ i \in DOMAIN objects[o].turns
        /\ old \in TurnCopy /\ b.after = Len(old.events) /\ IsCopy(old, s, i) /\ IsSettled(old)
        /\ old.run # 0
    BY TurnOfCall
  <1>2. WellTyped /\ old = objects[o].turns[i]  BY DEF Watchful, CallAt
  <1>3. ChangesTurn(o, i, old)  BY <1>1, <1>2, SameTurn
  <1>4. IsCopy(old, s, i)' /\ IsSettled(old)'  BY <1>1 DEF IsCopy, IsSettled, Running
  <1>5. CallBecomes(s, k, o, i, old, c)  BY <1>1, <1>3 DEF CallBecomes
  <1> QED  BY <1>2, <1>4, <1>5, RunsStay, CallGoesOn

LEMMA StopAnsweredStep == ASSUME Watchful, NEW s \in Sessions, StopAnswered(s) PROVE Watchful'
  <1>1. PICK c, k, o, i, old : /\ k = "submit" /\ c = calls[s][k] /\ o = c.obj /\ i = c.turn
                               /\ old = objects[o].turns[i]
    OBVIOUS
  <1>2. CallAt(s, k, c, o, i, old) /\ c.at = "stopping"  BY <1>1 DEF StopAnswered, Kinds, CallAt
  <1>3. c \in Call  BY <1>2, TurnOfCall
  <1>4. PICK at, batch, d : /\ at = "watching" /\ batch = FirstBatch(old.run, 0)
                            /\ Moved(c, at, batch, d)
    BY Zenon DEF Moved
  <1>5. d \in Call /\ d.at = "watching" /\ d.obj = o /\ d.turn = i /\ d.after = c.after
    <2>1. old.run \in DOMAIN runs  BY <1>2, TurnOfCall
    <2>2. batch \in Nat  BY <1>4, <2>1, FirstBatchTypes DEF Watchful
    <2>3. at \in {"stopping", "watching"}  BY <1>4
    <2>4. MovedTo(c, at, d)  BY Zenon, <1>3, <1>4, <2>2, <2>3, TwoFields
    <2> QED  BY Zenon, <1>1, <1>4, <2>4 DEF MovedTo
  <1>6. calls' = [calls EXCEPT ![s][k] = d] /\ tasks' = tasks
    <2>1. Moves(s, k, at, batch)  BY Zenon, <1>1, <1>4 DEF StopAnswered, Moves
    <2>2. WellTyped /\ k \in Kinds  BY <1>1 DEF Watchful, Kinds
    <2>3. Puts(s, k, d)  BY Zenon, <1>1, <1>3, <1>4, <2>1, <2>2, CallChanged
    <2> QED  BY Zenon, <2>3 DEF StopAnswered, Puts
  <1>7. UNCHANGED <<runs, turnIds, objects, shown, resuming, closed>>  BY DEF StopAnswered, CallOnly
  <1>8. c.at # "starting"  BY <1>2
  <1> QED  BY <1>2, <1>5, <1>6, <1>7, <1>8, CallOnlySteps

LEMMA BreaksStep == ASSUME Watchful, NEW s \in Sessions, NEW k \in Kinds, Breaks(s, k) PROVE Watchful'
  <1>1. PICK c, o, i, old : c = calls[s][k] /\ o = c.obj /\ i = c.turn /\ old = objects[o].turns[i]
    OBVIOUS
  <1>2. CallAt(s, k, c, o, i, old) /\ c.at = "watching"  BY <1>1 DEF Breaks, Watching, CallAt
  <1>3. NoCall \in Call /\ NoCall.at = "idle"  BY DEF NoCall, Call
  <1>4. calls' = [calls EXCEPT ![s][k] = NoCall] /\ tasks' = [tasks EXCEPT ![s] = None]
    BY DEF Breaks, Finally
  <1>5. UNCHANGED <<runs, turnIds, objects, shown, resuming, closed>>  BY DEF Breaks, CallOnly
  <1>6. c.at # "starting"  BY <1>2
  <1> QED  BY <1>2, <1>3, <1>4, <1>5, <1>6, CallOnlySteps

Reads(s, k, all) == calls' = [calls EXCEPT ![s][k].after = @ + 1,
                                           ![s][k].batch = IF calls[s][k].after < @ THEN @ ELSE all]
IsRead(c, n, all, batch, mid, d) ==
    /\ batch = IF c.after < c.batch THEN c.batch ELSE all
    /\ mid = [c EXCEPT !.after = n] /\ d = [mid EXCEPT !.batch = batch]
LEMMA ObservedCall ==
    ASSUME WellTyped, NEW s \in Sessions, NEW k \in Kinds, NEW c \in Call, c = calls[s][k], NEW all,
           Reads(s, k, all), NEW n, n = c.after + 1, NEW batch, NEW mid, NEW d, IsRead(c, n, all, batch, mid, d)
    PROVE  Puts(s, k, d)
  <1> USE DEF Reads, IsRead, Puts
  <1>1. PICK row, first : row = [calls[s] EXCEPT ![k] = mid] /\ first = [calls EXCEPT ![s] = row]  OBVIOUS
  <1>2. calls \in [Sessions -> [Kinds -> Call]]  BY DEF WellTyped
  <1>3. first[s] = row /\ row[k] = mid /\ mid.batch = c.batch  BY <1>1, <1>2 DEF Call
  <1>4. first = [calls EXCEPT ![s][k].after = @ + 1]  BY <1>1
  <1>5. calls' = [first EXCEPT ![s][k].batch = IF calls[s][k].after < @ THEN @ ELSE all]  BY <1>4
  <1>6. calls' = [first EXCEPT ![s] = [row EXCEPT ![k] = [mid EXCEPT !.batch = batch]]]  BY <1>3, <1>5
  <1>7. [row EXCEPT ![k] = d] = [calls[s] EXCEPT ![k] = d]  BY <1>1, <1>2
  <1>8. calls' = [first EXCEPT ![s] = [calls[s] EXCEPT ![k] = d]]  BY ONLY <1>6, <1>7, IsRead(c, n, all, batch, mid, d)
  <1>9. [first EXCEPT ![s] = [calls[s] EXCEPT ![k] = d]] = [calls EXCEPT ![s] = [calls[s] EXCEPT ![k] = d]]
    BY <1>1, <1>2
  <1> QED  BY ONLY <1>8, <1>9

LEMMA ObserveStep == ASSUME Watchful, NEW s \in Sessions, NEW k \in Kinds, Observe(s, k) PROVE Watchful'
  <1>1. PICK c, o, i, old : c = calls[s][k] /\ o = c.obj /\ i = c.turn /\ old = objects[o].turns[i]
    OBVIOUS
  <1>2. CallAt(s, k, c, o, i, old) /\ c.at = "watching"  BY Zenon, <1>1 DEF Observe, Watching, CallAt
  <1>3. /\ o \in DOMAIN objects /\ i \in DOMAIN objects[o].turns /\ c \in Call
        /\ old \in TurnCopy /\ c.after = Len(old.events) /\ IsCopy(old, s, i) /\ IsSettled(old)
        /\ old.run # 0 /\ old.run \in DOMAIN runs
    BY <1>2, TurnOfCall
  <1>4. WellTyped  BY DEF Watchful
  <1>5. c.after < runs[old.run].log /\ runs[old.run].log \in Nat
    <2>1. c.after < runs[old.run].log  BY Zenon, <1>1 DEF Observe, Watched
    <2>2. runs[old.run] \in RunRow  BY <1>3, <1>4, RunTypes
    <2> QED  BY Zenon, <2>1, <2>2 DEF RunRow
  <1>6. PICK n, events : n = c.after + 1 /\ events = Append(old.events, n)  OBVIOUS
  <1>7. /\ events \in Seq(Nat) /\ Len(events) = n /\ n \in Nat /\ DOMAIN events = 1 .. n
        /\ \A m \in 1 .. n : events[m] = m
    <2>1. old.events \in Seq(Nat) /\ Len(old.events) \in Nat /\ DOMAIN old.events = 1 .. Len(old.events)
      BY <1>3, LenProperties DEF TurnCopy
    <2>2. n \in Nat /\ n = Len(old.events) + 1  BY <1>3, <1>6, <2>1
    <2>3. events \in Seq(Nat) /\ Len(events) = n /\ events[n] = n
          /\ \A m \in 1 .. Len(old.events) : events[m] = old.events[m]
      BY <1>6, <2>1, <2>2, AppendProperties
    <2>4. \A m \in 1 .. Len(old.events) : old.events[m] = m  BY <1>3, <2>1 DEF IsCopy
    <2>5. \A m \in 1 .. n : m = n \/ m \in 1 .. Len(old.events)  BY <2>1, <2>2
    <2> QED  BY <2>2, <2>3, <2>4, <2>5, LenProperties
  <1>8. PICK t : t = [old EXCEPT !.events = events]  OBVIOUS
  <1>9. t \in TurnCopy /\ t.events = events /\ t.run = old.run /\ t.over = old.over /\ t.cut = old.cut
    BY Zenon, <1>3, <1>7, <1>8 DEF TurnCopy
  <1>10. ChangesTurn(o, i, t)  BY Zenon, <1>1, <1>6, <1>8 DEF Observe, ChangesTurn
  <1>11. PICK all, batch, mid, d : all = runs[old.run].log /\ IsRead(c, n, all, batch, mid, d)
    BY Zenon DEF IsRead
  <1>12. d \in Call /\ d.at = "watching" /\ d.obj = o /\ d.turn = i /\ d.after = n
    <2>1. batch \in Nat  BY <1>3, <1>5, <1>11 DEF Call, IsRead
    <2>2. mid \in Call /\ mid.at = "watching" /\ mid.obj = o /\ mid.turn = i /\ mid.after = n
      BY Zenon, <1>1, <1>2, <1>3, <1>7, <1>11 DEF Call, IsRead
    <2> QED  BY <1>11, <2>1, <2>2 DEF Call, IsRead
  <1>13. calls' = [calls EXCEPT ![s][k] = d] /\ tasks' = tasks
    <2>1. Watched(s, k) = old.run  BY <1>1 DEF Watched
    <2>2. tasks' = tasks /\ Reads(s, k, all)  BY Zenon, <1>11, <2>1 DEF Observe, Reads
    <2>3. k \in Kinds /\ s \in Sessions /\ n = c.after + 1  BY <1>2, <1>6 DEF CallAt
    <2>4. Puts(s, k, d)  BY Zenon, <1>1, <1>3, <1>4, <1>11, <2>2, <2>3, ObservedCall
    <2> QED  BY Zenon, <2>2, <2>4 DEF Puts
  <1>14. UNCHANGED <<runs, turnIds, shown, resuming, closed>>  BY Zenon DEF Observe, CallOnly
  <1>15. CallBecomes(s, k, o, i, t, d)  BY <1>3, <1>7, <1>9, <1>10, <1>12, <1>13, <1>14 DEF CallBecomes
  <1>16. IsCopy(t, s, i)'
    <2>1. n <= runs[t.run].log  BY <1>3, <1>5, <1>6, <1>9 DEF Call
    <2>2. i \in DOMAIN turnIds[s] /\ t.run = turnIds[s][i]  BY <1>3, <1>9 DEF IsCopy
    <2> QED  BY <1>7, <1>9, <1>14, <2>1, <2>2 DEF IsCopy
  <1>17. IsSettled(t)'
    <2>1. c.after # runs[old.run].log  BY <1>3, <1>5 DEF Call
    <2>2. old.over => old.cut /\ ~Running(old.run)  BY <1>3, <2>1 DEF IsSettled
    <2>3. runs' = runs  BY Zenon DEF Observe
    <2> QED  BY <1>9, <2>2, <2>3 DEF IsSettled, Running
  <1> QED  BY Zenon, <1>2, <1>4, <1>14, <1>15, <1>16, <1>17, RunsStay, CallGoesOn

EndsTurn(o, i, cut) == objects' = [objects EXCEPT ![o].turns[i].over = TRUE, ![o].turns[i].cut = cut]
LEMMA OverAndCut ==
    ASSUME WellTyped, NEW o \in DOMAIN objects, NEW i \in DOMAIN objects[o].turns, NEW cut,
           EndsTurn(o, i, cut), NEW old, old = objects[o].turns[i],
           NEW mid, mid = [old EXCEPT !.over = TRUE], NEW t, t = [mid EXCEPT !.cut = cut]
    PROVE  ChangesTurn(o, i, t)
  <1> USE DEF EndsTurn
  <1>1. PICK turns, other : turns = objects[o].turns /\ other = [turns EXCEPT ![i] = mid]  OBVIOUS
  <1>2. turns \in Seq(TurnCopy) /\ objects[o] \in Conversation /\ objects \in Seq(Conversation)
    BY <1>1, RunTypes DEF WellTyped
  <1>3. PICK object, first : /\ object = [objects[o] EXCEPT !.turns = other]
                             /\ first = [objects EXCEPT ![o] = object]
    OBVIOUS
  <1>4. first[o] = object /\ object.turns = other /\ other[i] = mid  BY <1>1, <1>2, <1>3 DEF Conversation
  <1>5. first = [objects EXCEPT ![o].turns[i].over = TRUE]  BY <1>1, <1>3
  <1>6. objects' = [first EXCEPT ![o].turns[i].cut = cut]  BY <1>5
  <1>7. objects' = [first EXCEPT ![o] = [object EXCEPT !.turns = [other EXCEPT ![i] = t]]]  BY <1>4, <1>6
  <1>8. [other EXCEPT ![i] = t] = [turns EXCEPT ![i] = t]  BY <1>1, <1>2
  <1>9. [object EXCEPT !.turns = [other EXCEPT ![i] = t]] = [objects[o] EXCEPT !.turns = [turns EXCEPT ![i] = t]]
    BY <1>2, <1>3, <1>8 DEF Conversation
  <1>10. objects' = [objects EXCEPT ![o] = [objects[o] EXCEPT !.turns = [turns EXCEPT ![i] = t]]]
    BY <1>2, <1>3, <1>7, <1>9
  <1> QED  BY <1>1, <1>10 DEF ChangesTurn

LEMMA ObservedStep == ASSUME Watchful, NEW s \in Sessions, NEW k \in Kinds, Observed(s, k) PROVE Watchful'
  <1>1. PICK c, o, i, old : c = calls[s][k] /\ o = c.obj /\ i = c.turn /\ old = objects[o].turns[i]
    OBVIOUS
  <1>2. CallAt(s, k, c, o, i, old) /\ c.at = "watching"  BY Zenon, <1>1 DEF Observed, Watching, CallAt
  <1>3. /\ o \in DOMAIN objects /\ i \in DOMAIN objects[o].turns
        /\ old \in TurnCopy /\ c.after = Len(old.events) /\ IsCopy(old, s, i)
        /\ old.run # 0 /\ old.run \in DOMAIN runs /\ c \in Call
    BY <1>2, TurnOfCall
  <1>4. WellTyped  BY DEF Watchful
  <1>5. PICK cut, mid, t : /\ cut = (c.after < runs[old.run].log)
                           /\ mid = [old EXCEPT !.over = TRUE] /\ t = [mid EXCEPT !.cut = cut]
    BY Zenon
  <1>6. t \in TurnCopy /\ t.events = old.events /\ t.run = old.run /\ t.cut = cut /\ t.over = TRUE
    <2>1. mid \in TurnCopy /\ mid.events = old.events /\ mid.run = old.run /\ mid.over = TRUE
      BY <1>3, <1>5 DEF TurnCopy
    <2>2. cut \in BOOLEAN
      <3>1. cut = (c.after < runs[old.run].log)  BY Zenon, <1>5
      <3> QED  BY ONLY <3>1
    <2>3. t = [mid EXCEPT !.cut = cut]  BY Zenon, <1>5
    <2> QED  BY Zenon, <2>1, <2>2, <2>3 DEF TurnCopy
  <1>7. ChangesTurn(o, i, t)
    <2>1. Watched(s, k) = old.run  BY <1>1 DEF Watched
    <2>2. EndsTurn(o, i, cut)  BY Zenon, <1>1, <1>5, <2>1 DEF Observed, EndsTurn
    <2> QED  BY Zenon, <1>1, <1>3, <1>4, <1>5, <2>2, OverAndCut
  <1>8. (cut \/ c.after = runs[old.run].log) /\ ~Running(old.run)
    <2>1. ~Running(old.run)
      <3>1. ~Running(Watched(s, k))  BY Zenon DEF Observed
      <3>2. Watched(s, k) = old.run  BY <1>1 DEF Watched
      <3> QED  BY Zenon, <3>1, <3>2
    <2>2. c.after \in Nat /\ runs[old.run].log \in Nat /\ c.after <= runs[old.run].log
      <3>1. c.after = Len(old.events) /\ Len(old.events) <= runs[old.run].log  BY <1>3 DEF IsCopy
      <3>2. runs[old.run] \in RunRow  BY <1>3, <1>4, RunTypes
      <3> QED  BY <1>3, <3>1, <3>2 DEF Call, RunRow
    <2>3. (c.after < runs[old.run].log) \/ c.after = runs[old.run].log  BY ONLY <2>2
    <2>4. (c.after < runs[old.run].log) => cut  BY ONLY Zenon, <1>5
    <2> QED  BY ONLY Zenon, <2>1, <2>3, <2>4
  <1>9. NoCall \in Call /\ NoCall.at = "idle"  BY DEF NoCall, Call
  <1>10. calls' = [calls EXCEPT ![s][k] = NoCall] /\ tasks' = [tasks EXCEPT ![s] = None]
    <2>1. Finally(s, k)  BY Zenon DEF Observed
    <2> QED  BY Zenon, <2>1 DEF Finally
  <1>11. UNCHANGED <<runs, turnIds, shown, resuming, closed>>  BY DEF Observed, CallOnly
  <1>12. CallBecomes(s, k, o, i, t, NoCall)  BY <1>3, <1>6, <1>7, <1>9, <1>10, <1>11 DEF CallBecomes
  <1>13. IsCopy(t, s, i)'  BY <1>3, <1>6, <1>11 DEF IsCopy
  <1>14. IsSettled(t)'  BY <1>3, <1>6, <1>8, <1>11 DEF IsSettled, Running
  <1> QED  BY Zenon, <1>2, <1>4, <1>11, <1>12, <1>13, <1>14, RunsStay, CallGoesOn
------------------------------------------------------------------------------
(* Steps of the objects                                                       *)

\* Each copy is one from before, or a new one.
OldTurn(p, j, x) ==
    /\ p \in DOMAIN objects /\ j \in DOMAIN objects[p].turns /\ x = objects[p].turns[j]
    /\ objects'[p].session = objects[p].session
    /\ Live(p)' => Live(p) /\ (x.run # 0 => StaysOver(x.run))
NewTurn(p, j, x) ==
    /\ \A u : u = objects'[p].session => IsCopy(x, u, j)'
    /\ Live(p)' => IsSettled(x)'

LEMMA TurnsFrom ==
    ASSUME WellTyped, Histories, Copies, Settled, RunsGoOn, runs' \in Seq(RunRow), TurnIdsGrow,
           \A p \in DOMAIN objects' : turnIds'[objects'[p].session] # << 0 >>,
           \A p \in DOMAIN objects' : \A j \in DOMAIN objects'[p].turns : \A x :
               x = objects'[p].turns[j] => OldTurn(p, j, x) \/ NewTurn(p, j, x)
    PROVE  Copies' /\ Settled'
  <1>1. ASSUME NEW p \in DOMAIN objects', NEW j \in DOMAIN objects'[p].turns, NEW x, x = objects'[p].turns[j],
               NEW u, u = objects'[p].session
        PROVE  IsCopy(x, u, j)' /\ (Live(p)' => IsSettled(x)')
    <2>1. OldTurn(p, j, x) \/ NewTurn(p, j, x)  BY <1>1
    <2>2. CASE NewTurn(p, j, x)  BY <1>1, <2>2 DEF NewTurn
    <2>3. CASE OldTurn(p, j, x)
      <3>1. /\ p \in DOMAIN objects /\ j \in DOMAIN objects[p].turns /\ x = objects[p].turns[j]
            /\ u = objects[p].session
            /\ Live(p)' => Live(p) /\ (x.run # 0 => StaysOver(x.run))
        BY <1>1, <2>3 DEF OldTurn
      <3>2. IsCopy(x, u, j)'  BY <3>1, CopyGoesOn
      <3>3. ASSUME Live(p)' PROVE IsSettled(x)'
        <4>1. Live(p) /\ (x.run # 0 => StaysOver(x.run))  BY <3>1, <3>3
        <4>2. IsSettled(x)  BY <3>1, <4>1 DEF Settled
        <4>3. x.run # 0 /\ x.over => /\ runs'[x.run].at # "running"
                                     /\ x.cut \/ Len(x.events) = runs'[x.run].log
          BY <4>1, <4>2 DEF IsSettled, StaysOver
        <4> QED  BY <4>3 DEF IsSettled, Running
      <3> QED  BY <3>2, <3>3
    <2> QED  BY <2>1, <2>2, <2>3
  <1>2. Copies'  BY <1>1 DEF Copies, Created
  <1>3. Settled'
    <2> SUFFICES ASSUME NEW p \in DOMAIN objects', Live(p)', NEW j \in DOMAIN objects'[p].turns
                 PROVE  IsSettled(objects[p].turns[j])'
      BY DEF Settled
    <2>1. \A x : x = objects'[p].turns[j] => IsSettled(x)'  BY <1>1
    <2> QED  BY <2>1 DEF IsSettled, Running
  <1> QED  BY <1>2, <1>3

LEMMA AtTurnKept ==
    ASSUME NEW u, NEW q, AtTurn(u, q), q.obj \in DOMAIN objects', objects'[q.obj] = objects[q.obj],
           turnIds'[u] = turnIds[u]
    PROVE  AtTurn(u, q)'
  BY DEF AtTurn

\* No turn is accepted: the copy of it goes.
LEMMA RefusedStep == ASSUME Watchful, NEW s \in Sessions, Refused(s) PROVE Watchful'
  <1>1. PICK c, k, o, i, turns : /\ k = "submit" /\ c = calls[s][k] /\ o = c.obj /\ i = c.turn
                                 /\ turns = objects[o].turns
    OBVIOUS
  <1>2. Open /\ c.at = "refused" /\ k \in Kinds  BY <1>1 DEF Refused, Kinds
  <1>3. WellTyped /\ Histories /\ Copies /\ Settled /\ Engaged /\ Screen  BY DEF Watchful
  <1>4. tasks[s] = k /\ AtTurn(s, c)  BY <1>1, <1>2, <1>3 DEF Engaged
  <1>5. /\ o \in DOMAIN objects /\ objects[o].session = s /\ i = Len(turns) /\ i # 0
        /\ Len(turns) = Len(turnIds[s]) + 1
        /\ \A j \in DOMAIN turns : turns[j].run = 0 <=> j = i
    BY <1>1, <1>2, <1>4 DEF AtTurn
  <1>6. /\ turns \in Seq(TurnCopy) /\ i \in Nat \ {0} /\ DOMAIN turns = 1 .. i /\ objects[o] \in Conversation
    BY <1>1, <1>3, <1>5, RunTypes
  <1>7. PICK kept : kept = SubSeq(turns, 1, i - 1)  OBVIOUS
  <1>8. /\ kept \in Seq(TurnCopy) /\ Len(kept) = i - 1 /\ DOMAIN kept = 1 .. i - 1
        /\ \A j \in 1 .. i - 1 : kept[j] = turns[j]
    <2>1. kept \in Seq(TurnCopy) /\ Len(kept) = i - 1 /\ \A j \in 1 .. i - 1 : kept[j] = turns[j]
      BY <1>5, <1>6, <1>7, SubSeqProperties
    <2> QED  BY <1>6, <2>1, LenProperties
  <1>9. PICK object : object = [objects[o] EXCEPT !.turns = kept]  OBVIOUS
  <1>10. object \in Conversation /\ object.session = s /\ object.turns = kept
    BY Zenon, <1>5, <1>6, <1>8, <1>9 DEF Conversation
  <1>11. objects' = [objects EXCEPT ![o] = object]  BY <1>1, <1>7, <1>9 DEF Refused
  <1>12. /\ objects' \in Seq(Conversation) /\ DOMAIN objects' = DOMAIN objects /\ objects'[o] = object
         /\ \A p \in DOMAIN objects \ {o} : objects'[p] = objects[p]
    BY <1>3, <1>5, <1>10, <1>11, ObjectChanged
  <1>13. /\ calls' = [calls EXCEPT ![s][k] = NoCall] /\ tasks' = [tasks EXCEPT ![s] = None]
         /\ UNCHANGED <<runs, turnIds, shown, resuming, closed>>
    BY <1>1 DEF Refused, Finally, CallOnly
  <1>14. NoCall \in Call /\ NoCall.at = "idle"  BY DEF NoCall, Call
  <1>15. /\ calls' \in [Sessions -> [Kinds -> Call]] /\ calls'[s][k] = NoCall
         /\ \A m \in Kinds \ {k} : calls'[s][m] = calls[s][m]
         /\ \A u \in Sessions \ {s} : calls'[u] = calls[u] /\ tasks'[u] = tasks[u]
         /\ tasks' \in [Sessions -> Kinds \cup {None}] /\ tasks'[s] = None
    <2>1. calls[s] \in [Kinds -> Call]  BY <1>3 DEF WellTyped
    <2>2. [calls[s] EXCEPT ![k] = NoCall] \in [Kinds -> Call]  BY <1>14, <2>1
    <2>3. calls' = [calls EXCEPT ![s] = [calls[s] EXCEPT ![k] = NoCall]]  BY <1>13
    <2> QED  BY <1>2, <1>3, <1>13, <2>1, <2>2, <2>3 DEF WellTyped
  <1>16. WellTyped'  BY <1>3, <1>12, <1>13, <1>15 DEF WellTyped
  <1>17. Histories'  BY <1>3, <1>13 DEF Histories, Created
  <1>18. \A p \in DOMAIN objects : objects'[p].session = objects[p].session
    BY <1>5, <1>10, <1>12
  <1>19. ASSUME NEW p, Live(p)' PROVE Live(p)
    BY <1>13, <1>14, <1>15, <1>19 DEF Live
  <1>20. Copies' /\ Settled'
    <2>1. runs' \in Seq(RunRow) /\ \A r \in DOMAIN runs : GoesOn(r) /\ StaysOver(r)  BY <1>3, <1>13, RunsStay
    <2>2. RunsGoOn /\ TurnIdsGrow  BY <1>13, <2>1 DEF RunsGoOn, TurnIdsGrow, Created
    <2>3. \A p \in DOMAIN objects' : turnIds'[objects'[p].session] # << 0 >>
      BY <1>3, <1>12, <1>13, <1>18 DEF Copies, Created
    <2>4. ASSUME NEW p \in DOMAIN objects', NEW j \in DOMAIN objects'[p].turns,
                 NEW x, x = objects'[p].turns[j]
          PROVE  OldTurn(p, j, x)
      <3>1. p \in DOMAIN objects /\ j \in DOMAIN objects[p].turns /\ x = objects[p].turns[j]
        <4>1. CASE p = o
          <5>1. j \in 1 .. i - 1 /\ x = turns[j]  BY <1>8, <1>10, <1>12, <2>4, <4>1
          <5>2. j \in DOMAIN turns  BY <1>6, <5>1
          <5> QED  BY <1>1, <1>5, <4>1, <5>1, <5>2
        <4>2. CASE p # o  BY <1>12, <2>4, <4>2
        <4> QED  BY <4>1, <4>2
      <3>2. x.run # 0 => StaysOver(x.run)
        <4>1. x.run # 0 => x.run \in DOMAIN runs  BY <1>3, <3>1, RunOfCopy
        <4> QED  BY <2>1, <4>1
      <3> QED  BY <1>18, <1>19, <3>1, <3>2 DEF OldTurn
    <2> QED  BY <1>3, <2>1, <2>2, <2>3, <2>4, TurnsFrom
  <1>21. Engaged'
    <2> SUFFICES ASSUME NEW u \in Sessions, NEW m \in Kinds
                 PROVE  /\ calls'[u][m].at # "idle" <=> tasks'[u] = m
                        /\ calls'[u][m].at # "idle" => AtTurn(u, calls[u][m])'
      BY DEF Engaged
    <2>1. calls[u][m].at # "idle" <=> tasks[u] = m  BY <1>3 DEF Engaged
    <2>2. CASE u = s
      <3>1. calls'[u][m].at = "idle"  BY <1>4, <1>14, <1>15, <2>1, <2>2
      <3> QED  BY <1>15, <2>2, <3>1 DEF None, Kinds
    <2>3. CASE u # s
      <3>1. calls'[u][m] = calls[u][m] /\ tasks'[u] = tasks[u]  BY <1>15, <2>3
      <3>2. PICK q : q = calls[u][m]  OBVIOUS
      <3>3. ASSUME q.at # "idle" PROVE AtTurn(u, q)'
        <4>1. AtTurn(u, q)  BY <1>3, <3>2, <3>3 DEF Engaged
        <4>2. q.obj # o /\ q.obj \in DOMAIN objects  BY Zenon, <1>5, <2>3, <4>1 DEF AtTurn
        <4> QED  BY <1>12, <1>13, <4>1, <4>2, AtTurnKept
      <3>4. q.at # "idle" => AtTurn(u, calls[u][m])'  BY <3>1, <3>2, <3>3 DEF AtTurn
      <3> QED  BY <2>1, <3>1, <3>2, <3>4
    <2> QED  BY <2>2, <2>3
  <1>22. ASSUME NEW p \in DOMAIN objects \ {o}, Current(p) PROVE Current(p)'
    <2>1. p \in DOMAIN objects' /\ objects'[p] = objects[p] /\ turnIds' = turnIds  BY <1>12, <1>13
    <2> QED  BY <1>22, <2>1 DEF Current
  <1>23. Screen'
    <2>1. shown \in DOMAIN objects /\ Visible \in Sessions /\ Visible' = Visible
      BY <1>2, <1>13, <1>18, OnScreen DEF Visible
    <2>2. Open' /\ (Overlay' <=> Overlay) /\ closed' = closed  BY <1>2, <1>13 DEF Open, Overlay
    <2>3. IF Task' = None THEN Current(shown)' ELSE shown' = calls'[Visible'][Task'].obj
      <3>1. CASE Visible = s
        <4>1. shown = o  BY <1>1, <1>2, <1>3, <1>4, <3>1 DEF Screen, Task, None, Kinds
        <4>2. Current(o)'
          <5>1. o \in DOMAIN objects' /\ Len(objects'[o].turns) = Len(turnIds'[objects'[o].session])
            <6>1. Len(turnIds[s]) \in Nat  BY <1>3, RunTypes
            <6> QED  BY <1>5, <1>8, <1>10, <1>12, <1>13, <6>1
          <5>2. ASSUME NEW j \in DOMAIN objects'[o].turns PROVE objects'[o].turns[j].run # 0
            <6>1. j \in 1 .. i - 1 /\ objects'[o].turns[j] = turns[j]  BY <1>8, <1>10, <1>12, <5>2
            <6> QED  BY <1>5, <1>6, <6>1
          <5> QED  BY <5>1, <5>2 DEF Current
        <4> QED  BY <1>13, <1>15, <2>1, <3>1, <4>1, <4>2 DEF Task
      <3>2. CASE Visible # s
        <4>1. Task' = Task /\ calls'[Visible] = calls[Visible]  BY <1>15, <2>1, <3>2 DEF Task
        <4>2. IF Task = None THEN Current(shown) ELSE shown = calls[Visible][Task].obj
          BY <1>2, <1>3 DEF Screen
        <4>3. shown # o  BY <1>5, <3>2 DEF Visible
        <4>4. Current(shown) => Current(shown)'
          <5>1. ASSUME NEW p, p = shown, Current(p) PROVE Current(p)'  BY <1>22, <2>1, <4>3, <5>1
          <5> QED  BY <1>13, <5>1 DEF Current
        <4> QED  BY <1>13, <2>1, <4>1, <4>2, <4>4
      <3> QED  BY <3>1, <3>2
    <2>4. ASSUME Overlay
          PROVE  /\ Current(resuming.obj)'
                 /\ resuming.at = "asking" => /\ shown = resuming.obj /\ Task' = None
                                             /\ turnIds[Visible] # <<>>
      <3>1. /\ Current(resuming.obj)
            /\ resuming.at = "asking" => shown = resuming.obj /\ Task = None /\ turnIds[Visible] # <<>>
        BY <1>3, <2>4 DEF Screen
      <3>2. resuming.obj \in DOMAIN objects /\ resuming.obj # o
        <4>1. Len(turnIds[s]) \in Nat  BY <1>3, RunTypes
        <4> QED  BY <1>1, <1>5, <3>1, <4>1 DEF Current
      <3>3. Current(resuming.obj)'
        <4>1. ASSUME NEW p, p = resuming.obj PROVE Current(p)'  BY <1>22, <3>1, <3>2, <4>1
        <4> QED  BY <1>13, <4>1 DEF Current
      <3>4. ASSUME Task = None PROVE Task' = None
        BY <1>4, <1>15, <2>1, <3>4 DEF Task, None, Kinds
      <3> QED  BY <3>1, <3>3, <3>4
    <2> QED  BY <1>2, <1>3, <1>12, <1>13, <2>1, <2>2, <2>3, <2>4 DEF Screen, Open, Created
  <1> QED  BY <1>16, <1>17, <1>20, <1>21, <1>23 DEF Watchful

\* The copy of a turn is on the screen before the runtime is asked.
LEMMA SubmitStep == ASSUME Watchful, Submit PROVE Watchful'
  <1>1. PICK s, k, o, turns : s = Visible /\ k = "submit" /\ o = shown /\ turns = objects[o].turns
    OBVIOUS
  <1>2. Open /\ ~Overlay /\ tasks[s] = None /\ k \in Kinds  BY <1>1 DEF Submit, Command, Task, Kinds
  <1>3. WellTyped /\ Histories /\ Copies /\ Settled /\ Engaged /\ Screen  BY DEF Watchful
  <1>4. s \in Sessions /\ o \in DOMAIN objects /\ objects[o].session = s /\ Created(s)
    BY <1>1, <1>2, OnScreen DEF Visible
  <1>5. /\ Current(o) /\ Len(turns) = Len(turnIds[s])
        /\ \A j \in DOMAIN turns : turns[j].run # 0
    BY <1>1, <1>2, <1>3, <1>4 DEF Screen, Task, Current
  <1>6. PICK n : n = Len(turns)  OBVIOUS
  <1>7. /\ turns \in Seq(TurnCopy) /\ n \in Nat /\ DOMAIN turns = 1 .. n /\ objects[o] \in Conversation
    BY <1>1, <1>3, <1>4, <1>6, RunTypes
  <1>8. PICK more : more = Append(turns, Unsent)  OBVIOUS
  <1>9. Unsent \in TurnCopy /\ Unsent.run = 0 /\ Unsent.events = <<>>  BY DEF Unsent, TurnCopy
  <1>10. /\ more \in Seq(TurnCopy) /\ Len(more) = n + 1 /\ DOMAIN more = 1 .. n + 1
         /\ more[n + 1] = Unsent /\ \A j \in 1 .. n : more[j] = turns[j]
    <2>1. /\ more \in Seq(TurnCopy) /\ Len(more) = n + 1
          /\ more[n + 1] = Unsent /\ \A j \in 1 .. n : more[j] = turns[j]
      BY <1>6, <1>7, <1>8, <1>9, AppendProperties
    <2> QED  BY <1>7, <2>1, LenProperties
  <1>11. PICK object : object = [objects[o] EXCEPT !.turns = more]  OBVIOUS
  <1>12. object \in Conversation /\ object.session = s /\ object.turns = more
    BY <1>4, <1>7, <1>10, <1>11 DEF Conversation
  <1>13. objects' = [objects EXCEPT ![o] = object]
    <2>1. [j \in 1 .. 0 |-> j] = <<>>  OBVIOUS
    <2>2. objects' = [objects EXCEPT ![o].turns = Append(@, Unsent)]
      BY <1>1, <2>1 DEF Submit, Unsent, Turn
    <2> QED  BY <1>1, <1>8, <1>11, <2>2
  <1>14. /\ objects' \in Seq(Conversation) /\ DOMAIN objects' = DOMAIN objects /\ objects'[o] = object
         /\ \A p \in DOMAIN objects \ {o} : objects'[p] = objects[p]
    BY <1>3, <1>4, <1>12, <1>13, ObjectChanged
  <1>15. PICK c : c = [NoCall EXCEPT !.at = IF Accepts(s) THEN "starting" ELSE "refused",
                                     !.obj = o, !.turn = n + 1]
    OBVIOUS
  <1>16. /\ c \in Call /\ c.at = IF Accepts(s) THEN "starting" ELSE "refused"
         /\ c.obj = o /\ c.turn = n + 1 /\ c.after = 0
    <2>1. shown \in Nat  BY <1>3 DEF WellTyped
    <2>2. c = [at |-> IF Accepts(s) THEN "starting" ELSE "refused", obj |-> o, turn |-> n + 1,
               after |-> 0, batch |-> 0, stop |-> FALSE]
      BY <1>15 DEF NoCall
    <2> QED  BY <1>1, <1>7, <2>1, <2>2 DEF Call
  <1>17. /\ calls' = [calls EXCEPT ![s][k] = c] /\ tasks' = [tasks EXCEPT ![s] = k]
         /\ UNCHANGED <<shown, resuming, closed>>
    BY <1>1, <1>6, <1>15 DEF Submit, Command
  <1>18. /\ calls' \in [Sessions -> [Kinds -> Call]] /\ calls'[s][k] = c
         /\ \A m \in Kinds \ {k} : calls'[s][m] = calls[s][m]
         /\ \A u \in Sessions \ {s} : calls'[u] = calls[u] /\ tasks'[u] = tasks[u]
         /\ tasks' \in [Sessions -> Kinds \cup {None}] /\ tasks'[s] = k
    <2>1. calls[s] \in [Kinds -> Call]  BY <1>3, <1>4 DEF WellTyped
    <2>2. [calls[s] EXCEPT ![k] = c] \in [Kinds -> Call]  BY <1>16, <2>1
    <2>3. calls' = [calls EXCEPT ![s] = [calls[s] EXCEPT ![k] = c]]  BY <1>17
    <2> QED  BY <1>2, <1>3, <1>4, <1>17, <2>1, <2>2, <2>3 DEF WellTyped
  <1>19. /\ runs' \in Seq(RunRow) /\ \A r \in DOMAIN runs : GoesOn(r) /\ StaysOver(r)
         /\ turnIds' \in [Sessions -> Seq(Nat)] /\ Histories' /\ TurnIdsGrow
         /\ Len(turnIds'[s]) = IF Accepts(s) THEN n + 1 ELSE n
         /\ \A u \in Sessions \ {s} : turnIds'[u] = turnIds[u]
    <2>1. CASE Accepts(s)
      <3>1. StartTurn(s)  BY <1>1, <2>1 DEF Submit
      <3>2. /\ runs' \in Seq(RunRow) /\ \A r \in DOMAIN runs : GoesOn(r) /\ StaysOver(r) /\ runs'[r] = runs[r]
            /\ turnIds' \in [Sessions -> Seq(Nat)]
            /\ Len(turnIds'[s]) = Len(turnIds[s]) + 1
            /\ \A i \in DOMAIN turnIds[s] : i \in DOMAIN turnIds'[s] /\ turnIds'[s][i] = turnIds[s][i]
            /\ \A u \in Sessions \ {s} : turnIds'[u] = turnIds[u]
            /\ \A u \in Sessions : Created(u) => Created(u)'
            /\ Histories'
        BY <1>3, <1>4, <2>1, <3>1, Started
      <3>3. TurnIdsGrow  BY <3>2 DEF TurnIdsGrow
      <3> QED  BY <1>5, <1>6, <2>1, <3>2, <3>3
    <2>2. CASE ~Accepts(s)
      <3>1. UNCHANGED <<runs, turnIds>>  BY <1>1, <2>2 DEF Submit, runtime
      <3>2. Histories' /\ TurnIdsGrow  BY <1>3, <3>1 DEF Histories, TurnIdsGrow, Created
      <3> QED  BY <1>3, <1>5, <1>6, <2>2, <3>1, <3>2, RunsStay DEF WellTyped
    <2> QED  BY <2>1, <2>2
  <1>20. WellTyped'  BY <1>3, <1>14, <1>17, <1>18, <1>19 DEF WellTyped
  <1>21. \A p \in DOMAIN objects : objects'[p].session = objects[p].session
    BY <1>4, <1>12, <1>14
  <1>22. ASSUME NEW p, Live(p)' PROVE Live(p)
    <2>1. CASE p = o  BY <1>1, <2>1 DEF Live
    <2>2. CASE p # o  BY <1>16, <1>17, <1>18, <1>22, <2>2 DEF Live
    <2> QED  BY <2>1, <2>2
  <1>23. Copies' /\ Settled'
    <2>1. RunsGoOn  BY <1>19 DEF RunsGoOn
    <2>2. ASSUME NEW p \in DOMAIN objects' PROVE turnIds'[objects'[p].session] # << 0 >>
      <3>1. PICK u : u = objects[p].session  OBVIOUS
      <3>2. u \in Sessions /\ Created(u)  BY <1>3, <1>14, <3>1, RunTypes DEF Copies
      <3>3. Created(u)'  BY <1>19, <3>2 DEF TurnIdsGrow
      <3> QED  BY <1>14, <1>21, <3>1, <3>3 DEF Created
    <2>3. ASSUME NEW p \in DOMAIN objects', NEW j \in DOMAIN objects'[p].turns,
                 NEW x, x = objects'[p].turns[j]
          PROVE  OldTurn(p, j, x) \/ NewTurn(p, j, x)
      <3>1. CASE p = o /\ j = n + 1
        <4>1. x = Unsent  BY <1>10, <1>12, <1>14, <2>3, <3>1
        <4>2. \A u : IsCopy(x, u, j)'  BY <1>9, <4>1 DEF IsCopy
        <4>3. IsSettled(x)'  BY <1>9, <4>1 DEF IsSettled
        <4> QED  BY <4>2, <4>3 DEF NewTurn
      <3>2. CASE ~(p = o /\ j = n + 1)
        <4>1. p \in DOMAIN objects /\ j \in DOMAIN objects[p].turns /\ x = objects[p].turns[j]
          <5>1. CASE p = o
            <6>1. j \in 1 .. n /\ x = turns[j]  BY <1>7, <1>10, <1>12, <1>14, <2>3, <3>2, <5>1
            <6> QED  BY <1>1, <1>4, <1>7, <5>1, <6>1
          <5>2. CASE p # o  BY <1>14, <2>3, <5>2
          <5> QED  BY <5>1, <5>2
        <4>2. x.run # 0 => StaysOver(x.run)
          <5>1. x.run # 0 => x.run \in DOMAIN runs  BY <1>3, <4>1, RunOfCopy
          <5> QED  BY <1>19, <5>1
        <4> QED  BY <1>21, <1>22, <4>1, <4>2 DEF OldTurn
      <3> QED  BY <3>1, <3>2
    <2> QED  BY <1>3, <1>19, <2>1, <2>2, <2>3, TurnsFrom
  <1>24. Engaged'
    <2> SUFFICES ASSUME NEW u \in Sessions, NEW m \in Kinds
                 PROVE  /\ calls'[u][m].at # "idle" <=> tasks'[u] = m
                        /\ calls'[u][m].at # "idle" => AtTurn(u, calls[u][m])'
      BY DEF Engaged
    <2>1. calls[u][m].at # "idle" <=> tasks[u] = m  BY <1>3 DEF Engaged
    <2>2. CASE u = s /\ m # k
      <3>1. calls'[u][m].at = "idle"  BY <1>2, <1>18, <2>1, <2>2 DEF None, Kinds
      <3> QED  BY <1>18, <2>2, <3>1
    <2>3. CASE u = s /\ m = k
      <3>1. AtTurn(s, c)'
        <4>1. o \in DOMAIN objects' /\ objects'[o].session = s /\ objects'[o].turns = more
          BY <1>4, <1>12, <1>14
        <4>2. Len(more) = IF c.at = "refused" THEN Len(turnIds'[s]) + 1 ELSE Len(turnIds'[s])
          BY <1>10, <1>16, <1>19
        <4>3. \A j \in DOMAIN more : more[j].run = 0 <=> j = n + 1 /\ c.at \in {"starting", "refused"}
          <5>1. ASSUME NEW j \in DOMAIN more PROVE more[j].run = 0 <=> j = n + 1
            <6>1. CASE j = n + 1  BY <1>9, <1>10, <6>1
            <6>2. CASE j # n + 1  BY <1>5, <1>7, <1>10, <5>1, <6>2
            <6> QED  BY <6>1, <6>2
          <5>2. c.at \in {"starting", "refused"}  BY <1>16
          <5> QED  BY <5>1, <5>2
        <4>4. c.turn = Len(more) /\ c.turn # 0 /\ c.obj = o /\ more[c.turn] = Unsent
              /\ c.after = Len(more[c.turn].events)
          BY <1>7, <1>9, <1>10, <1>16
        <4> QED  BY <1>10, <4>1, <4>2, <4>3, <4>4 DEF AtTurn
      <3> QED  BY <1>16, <1>18, <2>3, <3>1 DEF AtTurn
    <2>4. CASE u # s
      <3>1. calls'[u][m] = calls[u][m] /\ tasks'[u] = tasks[u]  BY <1>18, <2>4
      <3>2. PICK q : q = calls[u][m]  OBVIOUS
      <3>3. ASSUME q.at # "idle" PROVE AtTurn(u, q)'
        <4>1. AtTurn(u, q)  BY <1>3, <3>2, <3>3 DEF Engaged
        <4>2. q.obj # o /\ q.obj \in DOMAIN objects  BY <1>4, <2>4, <4>1 DEF AtTurn
        <4> QED  BY <1>14, <1>19, <2>4, <4>1, <4>2, AtTurnKept
      <3>4. q.at # "idle" => AtTurn(u, calls[u][m])'  BY <3>1, <3>2, <3>3 DEF AtTurn
      <3> QED  BY <2>1, <3>1, <3>2, <3>4
    <2> QED  BY <2>2, <2>3, <2>4
  <1>25. Screen'
    <2>1. Visible' = s /\ shown' = o  BY <1>1, <1>4, <1>17, <1>21 DEF Visible
    <2>2. Open' /\ ~Overlay' /\ closed' # "plain"  BY <1>2, <1>17 DEF Open, Overlay
    <2>3. Task' = k /\ calls'[Visible'][Task'].obj = o  BY <1>16, <1>18, <2>1 DEF Task
    <2> QED  BY <1>2, <1>4, <1>14, <2>1, <2>2, <2>3 DEF Screen, None, Kinds
  <1> QED  BY <1>19, <1>20, <1>23, <1>24, <1>25 DEF Watchful
------------------------------------------------------------------------------
(* Conversations that are shown, listed and resumed                           *)

\* A copy with all the events of its run there are.
LEMMA CopyOfRun ==
    ASSUME WellTyped, NEW r \in DOMAIN runs, NEW over \in BOOLEAN,
           NEW t, t = [run |-> r, events |-> [n \in 1 .. runs[r].log |-> n], over |-> over, cut |-> FALSE]
    PROVE  /\ t \in TurnCopy /\ t.run = r /\ r # 0 /\ t.over = over /\ Len(t.events) = runs[r].log
           /\ \A n \in DOMAIN t.events : t.events[n] = n
  <1>1. r \in Nat /\ r # 0 /\ runs[r].log \in Nat  BY RunTypes DEF RunRow
  <1>2. PICK events, m : m = runs[r].log /\ events = [n \in 1 .. m |-> n]  OBVIOUS
  <1>3. events \in [1 .. m -> Nat] /\ m \in Nat  BY <1>1, <1>2
  <1>4. events \in Seq(Nat) /\ Len(events) = m /\ DOMAIN events = 1 .. m  BY <1>3, FunctionIsSeq
  <1>5. t = [run |-> r, events |-> events, over |-> over, cut |-> FALSE]  BY <1>2
  <1> QED  BY <1>1, <1>2, <1>4, <1>5 DEF TurnCopy

\* The calls and their objects are left alone.
CallsKept ==
    /\ UNCHANGED <<tasks, calls>>
    /\ \A s \in Sessions, k \in Kinds : \A q : q = calls[s][k] /\ q.at # "idle" =>
         q.obj \in DOMAIN objects' /\ objects'[q.obj] = objects[q.obj] /\ turnIds'[s] = turnIds[s]
LEMMA EngagedKept == ASSUME Engaged, CallsKept PROVE Engaged'
  <1> SUFFICES ASSUME NEW u \in Sessions, NEW m \in Kinds
               PROVE  /\ calls'[u][m].at # "idle" <=> tasks'[u] = m
                      /\ calls'[u][m].at # "idle" => AtTurn(u, calls[u][m])'
    BY DEF Engaged
  <1>1. calls[u][m].at # "idle" <=> tasks[u] = m  BY DEF Engaged
  <1>2. calls'[u][m] = calls[u][m] /\ tasks'[u] = tasks[u]  BY DEF CallsKept
  <1>3. PICK q : q = calls[u][m]  OBVIOUS
  <1>4. ASSUME q.at # "idle" PROVE AtTurn(u, q)'
    <2>1. AtTurn(u, q)  BY <1>3, <1>4 DEF Engaged
    <2>2. q.obj \in DOMAIN objects' /\ objects'[q.obj] = objects[q.obj] /\ turnIds'[u] = turnIds[u]
      BY <1>3, <1>4 DEF CallsKept
    <2> QED  BY <2>1, <2>2, AtTurnKept
  <1>5. q.at # "idle" => AtTurn(u, calls[u][m])'  BY <1>2, <1>3, <1>4 DEF AtTurn
  <1> QED  BY <1>1, <1>2, <1>3, <1>5

\* One more object, which nothing else has before.
HoldsMore(object) == objects' = Append(objects, object)
LEMMA ObjectHeld ==
    ASSUME WellTyped, NEW object \in Conversation, HoldsMore(object)
    PROVE  /\ objects' \in Seq(Conversation) /\ DOMAIN objects' = 1 .. Len(objects) + 1
           /\ objects'[Len(objects) + 1] = object /\ Len(objects) + 1 \notin DOMAIN objects
           /\ \A p \in DOMAIN objects : p \in DOMAIN objects' /\ objects'[p] = objects[p]
  <1>1. objects \in Seq(Conversation) /\ DOMAIN objects = 1 .. Len(objects) /\ Len(objects) \in Nat
    BY RunTypes DEF WellTyped
  <1>2. /\ objects' \in Seq(Conversation) /\ Len(objects') = Len(objects) + 1
        /\ objects'[Len(objects) + 1] = object
        /\ \A p \in 1 .. Len(objects) : objects'[p] = objects[p]
    BY <1>1, AppendProperties DEF HoldsMore
  <1>3. DOMAIN objects' = 1 .. Len(objects) + 1  BY <1>2, LenProperties
  <1> QED  BY <1>1, <1>2, <1>3

\* A conversation that was not there before is shown, of turns that are over.
Shows(s, ids) ==
    /\ Open /\ ~Overlay /\ s \in Sessions /\ ~Created(s) /\ ids \in Seq(Nat)
    /\ \A i \in DOMAIN ids : ids[i] \in DOMAIN runs /\ runs[ids[i]].at = "ended"
    /\ Show(s, ids) /\ UNCHANGED closed
LEMMA ShowStep == ASSUME Watchful, NEW s, NEW ids, Shows(s, ids) PROVE Watchful'
  <1>1. /\ Open /\ ~Overlay /\ s \in Sessions /\ ~Created(s) /\ ids \in Seq(Nat)
        /\ \A i \in DOMAIN ids : ids[i] \in DOMAIN runs /\ runs[ids[i]].at = "ended"
        /\ Show(s, ids) /\ UNCHANGED <<closed, runs, tasks, calls, resuming>>
    BY DEF Shows, Show
  <1>2. WellTyped /\ Histories /\ Copies /\ Settled /\ Engaged /\ Screen  BY DEF Watchful
  <1>3. PICK n, o, turns : /\ n = Len(ids) /\ o = Len(objects) + 1
                           /\ turns = [i \in DOMAIN ids |-> [run |-> ids[i],
                                         events |-> [m \in 1 .. runs[ids[i]].log |-> m],
                                         over |-> TRUE, cut |-> FALSE]]
    OBVIOUS
  <1>4. n \in Nat /\ DOMAIN ids = 1 .. n  BY <1>1, <1>3, LenProperties
  <1>5. ASSUME NEW i \in 1 .. n, NEW t, t = turns[i]
        PROVE  /\ t \in TurnCopy /\ t.run = ids[i] /\ t.run # 0 /\ t.over = TRUE
               /\ Len(t.events) = runs[t.run].log /\ \A m \in DOMAIN t.events : t.events[m] = m
    <2>1. PICK r, over : r = ids[i] /\ over = TRUE  OBVIOUS
    <2>2. t = [run |-> r, events |-> [m \in 1 .. runs[r].log |-> m], over |-> over, cut |-> FALSE]
      BY <1>3, <1>4, <1>5, <2>1
    <2>3. r \in DOMAIN runs /\ over \in BOOLEAN  BY <1>1, <1>4, <2>1
    <2>4. /\ t \in TurnCopy /\ t.run = r /\ r # 0 /\ t.over = over /\ Len(t.events) = runs[r].log
          /\ \A m \in DOMAIN t.events : t.events[m] = m
      BY <1>2, <2>2, <2>3, CopyOfRun
    <2> QED  BY <2>1, <2>4
  <1>6. turns \in Seq(TurnCopy) /\ Len(turns) = n /\ DOMAIN turns = 1 .. n
    <2>1. DOMAIN turns = 1 .. n  BY <1>3, <1>4
    <2>2. turns = [i \in 1 .. n |-> turns[i]]  BY <1>3, <1>4
    <2>3. turns \in [1 .. n -> TurnCopy]  BY <1>5, <2>2
    <2> QED  BY <1>4, <2>3, FunctionIsSeq
  <1>7. PICK object : object = [session |-> s, turns |-> turns]  OBVIOUS
  <1>8. object \in Conversation /\ object.session = s /\ object.turns = turns
    BY <1>1, <1>6, <1>7 DEF Conversation
  <1>9. HoldsMore(object)  BY <1>1, <1>3, <1>7 DEF Show, Hold, Turn, HoldsMore
  <1>10. /\ objects' \in Seq(Conversation) /\ DOMAIN objects' = 1 .. Len(objects) + 1
         /\ objects'[Len(objects) + 1] = object /\ Len(objects) + 1 \notin DOMAIN objects
         /\ \A p \in DOMAIN objects : p \in DOMAIN objects' /\ objects'[p] = objects[p]
         /\ DOMAIN objects = 1 .. Len(objects) /\ Len(objects) \in Nat
    BY <1>2, <1>8, <1>9, ObjectHeld, RunTypes
  <1>11. /\ turnIds' \in [Sessions -> Seq(Nat)] /\ turnIds'[s] = ids
         /\ \A u \in Sessions \ {s} : turnIds'[u] = turnIds[u]
         /\ shown' = o
    BY <1>1, <1>2, <1>3 DEF Show, WellTyped
  <1>12. WellTyped'
    <2>1. shown' \in Nat  BY <1>3, <1>10, <1>11
    <2> QED  BY <1>1, <1>2, <1>10, <1>11, <2>1 DEF WellTyped
  <1>13. ids # << 0 >>
    <2>1. SUFFICES ASSUME ids = << 0 >> PROVE FALSE  OBVIOUS
    <2>2. 1 \in DOMAIN ids /\ ids[1] = 0  BY <2>1
    <2>3. 0 \in DOMAIN runs  BY <1>1, <2>2
    <2> QED  BY <1>2, <2>3, RunTypes
  <1>14. Histories'
    <2> SUFFICES ASSUME NEW u \in Sessions, Created(u)', NEW i \in DOMAIN turnIds'[u]
                 PROVE  /\ turnIds'[u][i] \in DOMAIN runs
                        /\ \/ runs[turnIds'[u][i]].at = "ended"
                           \/ i = Len(turnIds'[u]) /\ runs[turnIds'[u][i]].session = u
      BY <1>1 DEF Histories
    <2>1. CASE u = s  BY <1>1, <1>11, <2>1
    <2>2. CASE u # s
      <3>1. turnIds'[u] = turnIds[u] /\ Created(u)  BY <1>11, <2>2 DEF Created
      <3> QED  BY <1>2, <3>1 DEF Histories
    <2> QED  BY <2>1, <2>2
  <1>15. /\ runs' \in Seq(RunRow) /\ \A r \in DOMAIN runs : GoesOn(r) /\ StaysOver(r)
         /\ RunsGoOn /\ TurnIdsGrow
    <2>1. runs' \in Seq(RunRow) /\ \A r \in DOMAIN runs : GoesOn(r) /\ StaysOver(r)
      BY <1>1, <1>2, RunsStay
    <2>2. ASSUME NEW u \in Sessions, Created(u)
          PROVE  Created(u)' /\ turnIds'[u] = turnIds[u]
      <3>1. u # s  BY <1>1, <2>2
      <3> QED  BY <1>11, <2>2, <3>1 DEF Created
    <2> QED  BY <2>1, <2>2 DEF RunsGoOn, TurnIdsGrow
  <1>16. \A p \in DOMAIN objects : objects[p].session # s /\ objects[p].session \in Sessions
    BY <1>1, <1>2, RunTypes DEF Copies
  <1>17. ASSUME NEW p, p # o, Live(p)' PROVE Live(p)
    BY <1>1, <1>11, <1>17 DEF Live
  <1>18. Copies' /\ Settled'
    <2>2. ASSUME NEW p \in DOMAIN objects' PROVE turnIds'[objects'[p].session] # << 0 >>
      <3>1. CASE p = o  BY <1>3, <1>8, <1>10, <1>11, <1>13, <3>1
      <3>2. CASE p # o
        <4>1. p \in DOMAIN objects  BY <1>3, <1>10, <3>2
        <4>2. PICK u : u = objects[p].session  OBVIOUS
        <4>3. u \in Sessions /\ Created(u)  BY <1>2, <4>1, <4>2, RunTypes DEF Copies
        <4>4. Created(u)'  BY <1>15, <4>3 DEF TurnIdsGrow
        <4> QED  BY <1>10, <4>1, <4>2, <4>4 DEF Created
      <3> QED  BY <3>1, <3>2
    <2>3. ASSUME NEW p \in DOMAIN objects', NEW j \in DOMAIN objects'[p].turns,
                 NEW x, x = objects'[p].turns[j]
          PROVE  OldTurn(p, j, x) \/ NewTurn(p, j, x)
      <3>1. CASE p = o
        <4>1. j \in 1 .. n /\ x = turns[j]  BY <1>3, <1>6, <1>8, <1>10, <2>3, <3>1
        <4>2. /\ x.run = ids[j] /\ Len(x.events) = runs[x.run].log
              /\ \A m \in DOMAIN x.events : x.events[m] = m
          BY <1>5, <4>1
        <4>3. runs[ids[j]].at = "ended" /\ runs[ids[j]].log \in Nat
          BY <1>1, <1>2, <1>4, <4>1, RunTypes DEF RunRow
        <4>4. objects'[p].session = s  BY <1>3, <1>8, <1>10, <3>1
        <4>5. IsCopy(x, s, j)'  BY <1>1, <1>4, <1>11, <4>1, <4>2, <4>3 DEF IsCopy
        <4>6. IsSettled(x)'  BY <1>1, <4>2, <4>3 DEF IsSettled, Running
        <4> QED  BY <4>4, <4>5, <4>6 DEF NewTurn, IsCopy
      <3>2. CASE p # o
        <4>1. p \in DOMAIN objects /\ j \in DOMAIN objects[p].turns /\ x = objects[p].turns[j]
              /\ objects'[p] = objects[p]
          BY <1>3, <1>10, <2>3, <3>2
        <4>2. x.run # 0 => StaysOver(x.run)
          <5>1. x.run # 0 => x.run \in DOMAIN runs  BY <1>2, <4>1, RunOfCopy
          <5> QED  BY <1>15, <5>1
        <4> QED  BY <1>17, <3>2, <4>1, <4>2 DEF OldTurn
      <3> QED  BY <3>1, <3>2
    <2> QED  BY <1>2, <1>15, <2>2, <2>3, TurnsFrom
  <1>19. Engaged'
    <2>1. ASSUME NEW u \in Sessions, NEW k \in Kinds, NEW q, q = calls[u][k], q.at # "idle"
          PROVE  q.obj \in DOMAIN objects' /\ objects'[q.obj] = objects[q.obj] /\ turnIds'[u] = turnIds[u]
      <3>1. AtTurn(u, q)  BY <1>2, <2>1 DEF Engaged
      <3>2. q.obj \in DOMAIN objects /\ objects[q.obj].session = u  BY <3>1 DEF AtTurn
      <3>3. u # s  BY <1>16, <3>2
      <3> QED  BY <1>10, <1>11, <3>2, <3>3
    <2> QED  BY <1>1, <1>2, <2>1, EngagedKept DEF CallsKept
  <1>20. tasks[s] = None
    <2>1. SUFFICES ASSUME tasks[s] # None PROVE FALSE  OBVIOUS
    <2>2. PICK k, q : k = tasks[s] /\ q = calls[s][k]  OBVIOUS
    <2>3. k \in Kinds  BY <1>1, <1>2, <2>1, <2>2 DEF WellTyped
    <2>4. AtTurn(s, q)  BY <1>1, <1>2, <2>2, <2>3 DEF Engaged
    <2>5. q.obj \in DOMAIN objects /\ objects[q.obj].session = s  BY <2>4 DEF AtTurn
    <2> QED  BY <1>16, <2>5
  <1>21. Screen'
    <2>1. shown' \in DOMAIN objects' /\ objects'[shown'] = object  BY <1>3, <1>10, <1>11
    <2>2. Visible' = s /\ Task' = None  BY <1>1, <1>8, <1>20, <2>1 DEF Visible, Task
    <2>3. ASSUME NEW j \in DOMAIN turns PROVE turns[j].run # 0  BY <1>5, <1>6
    <2>4. Current(shown)'
      BY <1>3, <1>6, <1>8, <1>11, <2>1, <2>3 DEF Current
    <2> QED  BY <1>1, <2>1, <2>2, <2>4 DEF Screen, Open, Overlay
  <1> QED  BY <1>12, <1>14, <1>18, <1>19, <1>21 DEF Watchful

\* A fresh conversation, and one that branches from turns that are over.
LEMMA FreshStep == ASSUME Watchful, Fresh PROVE Watchful'
  <1>1. PICK s \in Unused : Show(s, <<>>)  BY DEF Fresh
  <1>2. s \in Sessions /\ ~Created(s)  BY DEF Unused
  <1>3. Shows(s, <<>>)  BY <1>1, <1>2 DEF Shows, Fresh, Command
  <1> QED  BY <1>3, ShowStep

LEMMA ForkStep == ASSUME Watchful, Fork PROVE Watchful'
  <1>1. PICK s \in Unused, i \in DOMAIN objects[shown].turns :
            Forkable(objects[shown].turns[i]) /\ Show(s, SubSeq(turnIds[Visible], 1, i))
    BY DEF Fork
  <1>2. PICK u, t, ids : u = Visible /\ t = objects[shown].turns[i] /\ ids = SubSeq(turnIds[Visible], 1, i)
    OBVIOUS
  <1>3. Open /\ ~Overlay /\ UNCHANGED closed /\ s \in Sessions /\ ~Created(s)
    BY DEF Fork, Command, Unused
  <1>4. WellTyped /\ Histories /\ Copies  BY DEF Watchful
  <1>5. shown \in DOMAIN objects /\ u \in Sessions /\ Created(u)  BY <1>2, <1>3, OnScreen
  <1>6. t.run # 0 /\ runs[t.run].at = "ended"  BY <1>1, <1>2 DEF Forkable
  <1>7. i \in DOMAIN turnIds[u] /\ t.run = turnIds[u][i]
    BY <1>2, <1>4, <1>5, <1>6, RunOfCopy DEF Visible
  <1>8. /\ turnIds[u] \in Seq(Nat) /\ Len(turnIds[u]) \in Nat /\ DOMAIN turnIds[u] = 1 .. Len(turnIds[u])
    BY <1>4, <1>5, RunTypes
  <1>9. ids \in Seq(Nat) /\ Len(ids) = i /\ \A j \in 1 .. i : ids[j] = turnIds[u][j]
    <2>1. PICK w, n : w = turnIds[u] /\ n = Len(w)  OBVIOUS
    <2>2. w \in Seq(Nat) /\ n \in Nat /\ i \in 1 .. n /\ ids = SubSeq(w, 1, i)  BY <1>2, <1>7, <1>8, <2>1
    <2>3. ids \in Seq(Nat) /\ Len(ids) = i /\ \A j \in 1 .. i : ids[j] = w[j]
      BY <2>1, <2>2, SubSeqProperties
    <2> QED  BY <2>1, <2>3
  <1>10. ASSUME NEW j \in DOMAIN ids PROVE ids[j] \in DOMAIN runs /\ runs[ids[j]].at = "ended"
    <2>1. j \in 1 .. i /\ j \in DOMAIN turnIds[u] /\ ids[j] = turnIds[u][j]
      BY <1>7, <1>8, <1>9, LenProperties
    <2>2. /\ turnIds[u][j] \in DOMAIN runs
          /\ runs[turnIds[u][j]].at = "ended" \/ j = Len(turnIds[u])
      BY <1>4, <1>5, <2>1 DEF Histories
    <2>3. j = Len(turnIds[u]) => j = i  BY <1>7, <1>8, <2>1
    <2> QED  BY <1>6, <1>7, <2>1, <2>2, <2>3
  <1>11. Shows(s, ids)  BY <1>1, <1>2, <1>3, <1>9, <1>10 DEF Shows
  <1> QED  BY <1>11, ShowStep

\* The copy that is listed is of what is committed now.
IsWhole(t, r) ==
    /\ t \in TurnCopy /\ r \in DOMAIN runs /\ t.run = r /\ r # 0
    /\ t.over = ~Running(r) /\ Len(t.events) = runs[r].log /\ runs[r].log \in Nat
    /\ \A m \in DOMAIN t.events : t.events[m] = m
IsSnapshot(object, s, n) ==
    /\ object \in Conversation /\ object.session = s /\ n \in Nat /\ n = Len(turnIds[s])
    /\ Len(object.turns) = n /\ DOMAIN object.turns = 1 .. n /\ DOMAIN turnIds[s] = 1 .. n
    /\ \A j \in 1 .. n : IsWhole(object.turns[j], turnIds[s][j])
LEMMA SnapshotOf ==
    ASSUME WellTyped, Histories, NEW s \in Sessions, Created(s), NEW n, n = Len(turnIds[s]),
           NEW object, object = Snapshot(s)
    PROVE  IsSnapshot(object, s, n)
  <1>1. n \in Nat /\ DOMAIN turnIds[s] = 1 .. n  BY RunTypes
  <1>2. PICK turns : turns = object.turns  OBVIOUS
  <1>3. turns = [i \in 1 .. n |-> [run |-> turnIds[s][i],
                   events |-> [m \in 1 .. runs[turnIds[s][i]].log |-> m], over |-> ~Running(turnIds[s][i]),
                   cut |-> FALSE]]
    BY <1>1, <1>2 DEF Snapshot, Turn
  <1>4. ASSUME NEW j \in 1 .. n, NEW r, NEW t, r = turnIds[s][j], t = turns[j]
        PROVE  t \in TurnCopy /\ IsWhole(t, r)
    <2>1. PICK over : over = ~Running(r)  OBVIOUS
    <2>2. over \in BOOLEAN  BY <2>1 DEF Running
    <2>3. r \in DOMAIN runs  BY <1>1, <1>4 DEF Histories
    <2>4. t = [run |-> r, events |-> [m \in 1 .. runs[r].log |-> m], over |-> over, cut |-> FALSE]
      BY <1>3, <1>4, <2>1
    <2>5. /\ t \in TurnCopy /\ t.run = r /\ r # 0 /\ t.over = over /\ Len(t.events) = runs[r].log
          /\ \A m \in DOMAIN t.events : t.events[m] = m
      BY <2>2, <2>3, <2>4, CopyOfRun
    <2>6. runs[r].log \in Nat  BY <2>3, RunTypes DEF RunRow
    <2> QED  BY <2>1, <2>3, <2>5, <2>6 DEF IsWhole
  <1>5. turns \in Seq(TurnCopy) /\ Len(turns) = n /\ DOMAIN turns = 1 .. n
    <2>1. turns = [i \in 1 .. n |-> turns[i]]  BY <1>3
    <2>2. turns \in [1 .. n -> TurnCopy]  BY <1>4, <2>1
    <2> QED  BY <1>1, <2>2, FunctionIsSeq
  <1>6. object = [session |-> s, turns |-> turns]  BY <1>2 DEF Snapshot
  <1>7. object \in Conversation /\ object.session = s  BY <1>5, <1>6 DEF Conversation
  <1>8. ASSUME NEW j \in 1 .. n PROVE IsWhole(object.turns[j], turnIds[s][j])
    <2>1. PICK r, t : r = turnIds[s][j] /\ t = turns[j]  OBVIOUS
    <2>2. IsWhole(t, r)  BY <1>4, <2>1
    <2> QED  BY <1>2, <2>1, <2>2
  <1> QED  BY <1>1, <1>2, <1>5, <1>7, <1>8 DEF IsSnapshot

LEMMA ListStep == ASSUME Watchful, NEW s \in Sessions, List(s) PROVE Watchful'
  <1>1. PICK o, n, object : o = Len(objects) + 1 /\ n = Len(turnIds[s]) /\ object = Snapshot(s)  OBVIOUS
  <1>2. /\ Open /\ ~Overlay /\ Created(s) /\ UNCHANGED <<closed, runs, turnIds, shown, tasks, calls>>
        /\ HoldsMore(object) /\ resuming' = [at |-> "listed", obj |-> o]
    BY <1>1 DEF List, Command, runtime, Hold, HoldsMore
  <1>3. WellTyped /\ Histories /\ Copies /\ Settled /\ Engaged /\ Screen  BY DEF Watchful
  <1>3a. IsSnapshot(object, s, n)  BY <1>1, <1>2, <1>3, SnapshotOf
  <1>4. /\ object \in Conversation /\ object.session = s
        /\ n \in Nat /\ Len(object.turns) = n /\ DOMAIN object.turns = 1 .. n /\ DOMAIN turnIds[s] = 1 .. n
        /\ \A j \in 1 .. n : IsWhole(object.turns[j], turnIds[s][j])
    BY <1>3a DEF IsSnapshot
  <1>5. /\ objects' \in Seq(Conversation) /\ DOMAIN objects' = 1 .. Len(objects) + 1
        /\ objects'[Len(objects) + 1] = object /\ Len(objects) + 1 \notin DOMAIN objects
        /\ \A p \in DOMAIN objects : p \in DOMAIN objects' /\ objects'[p] = objects[p]
        /\ DOMAIN objects = 1 .. Len(objects) /\ Len(objects) \in Nat
    BY <1>2, <1>3, <1>4, ObjectHeld, RunTypes
  <1>6. WellTyped'
    <2>1. o \in Nat  BY <1>1, <1>5
    <2> QED  BY <1>2, <1>3, <1>5, <2>1 DEF WellTyped
  <1>7. Histories'  BY <1>2, <1>3 DEF Histories, Created
  <1>8. /\ runs' \in Seq(RunRow) /\ \A r \in DOMAIN runs : GoesOn(r) /\ StaysOver(r)
        /\ RunsGoOn /\ TurnIdsGrow
    <2>1. runs' \in Seq(RunRow) /\ \A r \in DOMAIN runs : GoesOn(r) /\ StaysOver(r)
      BY <1>2, <1>3, RunsStay
    <2> QED  BY <1>2, <2>1 DEF RunsGoOn, TurnIdsGrow, Created
  <1>9. ASSUME NEW p, p # o, Live(p)' PROVE Live(p)
    BY <1>2, <1>9 DEF Live
  <1>10. Copies' /\ Settled'
    <2>1. ASSUME NEW p \in DOMAIN objects' PROVE turnIds'[objects'[p].session] # << 0 >>
      <3>1. CASE p = o  BY <1>1, <1>2, <1>4, <1>5, <3>1 DEF Created
      <3>2. CASE p # o
        <4>1. p \in DOMAIN objects  BY <1>1, <1>5, <3>2
        <4> QED  BY <1>2, <1>3, <1>5, <4>1 DEF Created, Copies
      <3> QED  BY <3>1, <3>2
    <2>2. ASSUME NEW p \in DOMAIN objects', NEW j \in DOMAIN objects'[p].turns,
                 NEW x, x = objects'[p].turns[j]
          PROVE  OldTurn(p, j, x) \/ NewTurn(p, j, x)
      <3>1. CASE p = o
        <4>1. PICK r : r = turnIds[s][j]  OBVIOUS
        <4>2. j \in 1 .. n /\ x = object.turns[j] /\ objects'[p].session = s
          BY <1>1, <1>4, <1>5, <2>2, <3>1
        <4>3. /\ x.run = r /\ r # 0 /\ x.over = ~Running(r) /\ Len(x.events) = runs[r].log
              /\ runs[r].log \in Nat /\ \A m \in DOMAIN x.events : x.events[m] = m
          BY <1>4, <4>1, <4>2 DEF IsWhole
        <4>4. IsCopy(x, s, j)'  BY <1>2, <1>4, <4>1, <4>2, <4>3 DEF IsCopy
        <4>5. IsSettled(x)'  BY <1>2, <4>3 DEF IsSettled, Running
        <4> QED  BY <4>2, <4>4, <4>5 DEF NewTurn, IsCopy
      <3>2. CASE p # o
        <4>1. p \in DOMAIN objects /\ j \in DOMAIN objects[p].turns /\ x = objects[p].turns[j]
              /\ objects'[p] = objects[p]
          BY <1>1, <1>5, <2>2, <3>2
        <4>2. x.run # 0 => StaysOver(x.run)
          <5>1. x.run # 0 => x.run \in DOMAIN runs  BY <1>3, <4>1, RunOfCopy
          <5> QED  BY <1>8, <5>1
        <4> QED  BY <1>9, <3>2, <4>1, <4>2 DEF OldTurn
      <3> QED  BY <3>1, <3>2
    <2> QED  BY <1>3, <1>8, <2>1, <2>2, TurnsFrom
  <1>11. Engaged'
    <2>1. ASSUME NEW u \in Sessions, NEW k \in Kinds, NEW q, q = calls[u][k], q.at # "idle"
          PROVE  q.obj \in DOMAIN objects' /\ objects'[q.obj] = objects[q.obj] /\ turnIds'[u] = turnIds[u]
      <3>1. AtTurn(u, q)  BY <1>3, <2>1 DEF Engaged
      <3>2. q.obj \in DOMAIN objects  BY <3>1 DEF AtTurn
      <3> QED  BY <1>2, <1>5, <3>2
    <2> QED  BY <1>2, <1>3, <2>1, EngagedKept DEF CallsKept
  <1>12. Screen'
    <2>1. shown \in DOMAIN objects /\ shown' = shown /\ objects'[shown] = objects[shown] /\ Visible' = Visible
          /\ shown \in DOMAIN objects'
      BY <1>2, <1>5, OnScreen DEF Visible
    <2>2. Task' = Task  BY <1>2, <2>1 DEF Task
    <2>3. Current(shown) => Current(shown)'  BY <1>2, <2>1 DEF Current
    <2>4. Current(o)'
      <3>1. o \in DOMAIN objects' /\ objects'[o] = object  BY <1>1, <1>5
      <3>2. \A j \in 1 .. n : object.turns[j].run # 0  BY <1>4 DEF IsWhole
      <3>3. Len(turnIds'[s]) = n  BY <1>1, <1>2
      <3> QED  BY <1>4, <3>1, <3>2, <3>3 DEF Current
    <2>5. resuming'.at = "listed" /\ resuming'.obj = o /\ Open' /\ closed' # "plain"  BY <1>2 DEF Open
    <2>6. Current(resuming.obj)'  BY <2>4, <2>5 DEF Current
    <2>7. IF Task = None THEN Current(shown) ELSE shown = calls[Visible][Task].obj  BY <1>2, <1>3 DEF Screen
    <2> QED  BY <1>2, <2>1, <2>2, <2>3, <2>5, <2>6, <2>7 DEF Screen
  <1> QED  BY <1>6, <1>7, <1>10, <1>11, <1>12 DEF Watchful

\* Steps after which each conversation is as it was, and something else is looked at.
LEMMA ViewStep ==
    ASSUME Watchful, UNCHANGED <<runs, turnIds, objects>>, WellTyped', Engaged', Screen',
           \A p : Live(p)' => Live(p)
    PROVE  Watchful'
  <1>1. WellTyped /\ Histories /\ Copies /\ Settled  BY DEF Watchful
  <1>2. runs' \in Seq(RunRow) /\ \A r \in DOMAIN runs : GoesOn(r) /\ StaysOver(r)  BY <1>1, RunsStay
  <1>3. Histories' /\ Copies'  BY <1>1 DEF Histories, Copies, Created, IsCopy
  <1>4. Settled'  BY <1>1, <1>2, SettledGoesOn
  <1> QED  BY <1>3, <1>4 DEF Watchful

\* The dialog is left.
LEMMA LeaveStep == ASSUME Watchful, NEW at, Leave(at) PROVE Watchful'
  <1>1. WellTyped /\ Engaged /\ Screen  BY DEF Watchful
  <1>2. /\ Open /\ UNCHANGED <<runs, turnIds, objects, shown, tasks, calls, closed>> /\ resuming' = NoDialog
    BY DEF Leave, Dialog, runtime
  <1>3. NoDialog.at = "idle" /\ NoDialog \in [at : {"idle", "listed", "asking"}, obj : Nat]  BY DEF NoDialog
  <1>4. WellTyped'  BY Zenon, <1>1, <1>2, <1>3 DEF WellTyped
  <1>5. Engaged'  BY <1>1, <1>2 DEF Engaged, AtTurn
  <1>6. Screen'  BY <1>1, <1>2, <1>3 DEF Screen, Open, Overlay, Visible, Task, Current, Created
  <1>7. \A p : Live(p)' => Live(p)  BY <1>2, <1>3 DEF Live
  <1> QED  BY <1>2, <1>4, <1>5, <1>6, <1>7, ViewStep

\* What the dialog is about, the object o with n turns of the session s, when it is left.
Chosen(o, object, s, n) ==
    /\ Open /\ closed' = closed /\ resuming.at # "idle" /\ o = resuming.obj /\ object = objects[o]
    /\ s = object.session /\ n = Len(object.turns) /\ UNCHANGED <<runs, turnIds>>
LEMMA ChosenObject ==
    ASSUME Watchful, NEW o, NEW object, NEW s, NEW n, Chosen(o, object, s, n)
    PROVE  /\ Open' /\ closed' # "plain" /\ o \in DOMAIN objects /\ o \in Nat /\ Live(o) /\ Current(o)
           /\ object \in Conversation /\ s \in Sessions /\ Created(s) /\ tasks[s] \in Kinds \cup {None}
           /\ n \in Nat /\ n = Len(turnIds[s]) /\ DOMAIN object.turns = 1 .. n /\ DOMAIN turnIds[s] = 1 .. n
           /\ \A j \in 1 .. n : object.turns[j].run # 0
  <1> /\ Open /\ closed' = closed /\ resuming.at # "idle" /\ o = resuming.obj /\ object = objects[o]
      /\ s = object.session /\ n = Len(object.turns) /\ UNCHANGED <<runs, turnIds>>
    BY DEF Chosen
  <1>1. Current(o) /\ o \in DOMAIN objects  BY DEF Watchful, Screen, Overlay, Current
  <1>2. n = Len(turnIds[s]) /\ \A j \in DOMAIN object.turns : object.turns[j].run # 0
    BY <1>1 DEF Current
  <1>3. /\ object \in Conversation /\ s \in Sessions /\ n \in Nat /\ DOMAIN object.turns = 1 .. n
        /\ o \in Nat
    BY <1>1, RunTypes DEF Watchful
  <1>4. DOMAIN turnIds[s] = 1 .. n  BY <1>2, <1>3, RunTypes DEF Watchful
  <1>5. Created(s)  BY <1>1 DEF Watchful, Copies
  <1>6. tasks[s] \in Kinds \cup {None}  BY <1>3 DEF Watchful, WellTyped
  <1>7. Open' /\ closed' # "plain" /\ Live(o)  BY DEF Open, Live
  <1> QED  BY <1>1, <1>2, <1>3, <1>4, <1>5, <1>6, <1>7

\* It has a task, or no turn: its object is shown.
LEMMA PickShows ==
    ASSUME Watchful, NEW o, NEW object, NEW s, NEW n, Chosen(o, object, s, n), UNCHANGED <<objects, tasks, calls>>,
           NEW p, shown' = p, p = IF tasks[s] # None THEN calls[s][tasks[s]].obj ELSE o, resuming' = NoDialog
    PROVE  Watchful'
  <1>1. WellTyped /\ Engaged /\ Screen  BY DEF Watchful
  <1>2. /\ Open' /\ closed' # "plain" /\ o \in DOMAIN objects /\ o \in Nat /\ Live(o) /\ Current(o)
        /\ s \in Sessions /\ tasks[s] \in Kinds \cup {None}
    BY ChosenObject
  <1>3. objects[o].session = s /\ UNCHANGED <<runs, turnIds>> /\ closed' = closed  BY DEF Chosen
  <1>4. /\ p \in DOMAIN objects /\ p \in Nat /\ objects[p].session = s /\ Live(p)
        /\ tasks[s] = None => p = o
    <2>1. CASE tasks[s] = None  BY <1>2, <1>3, <2>1
    <2>2. CASE tasks[s] # None
      <3>1. PICK k, q : k = tasks[s] /\ q = calls[s][k]  OBVIOUS
      <3>2. k \in Kinds /\ q.at # "idle" /\ AtTurn(s, q) /\ p = q.obj
        BY <1>1, <1>2, <2>2, <3>1 DEF Engaged
      <3>3. p \in DOMAIN objects /\ objects[p].session = s  BY <3>2 DEF AtTurn
      <3>4. Live(p)  BY <1>2, <3>1, <3>2 DEF Live
      <3> QED  BY <1>1, <2>2, <3>3, <3>4, RunTypes
    <2> QED  BY <2>1, <2>2
  <1>5. NoDialog.at = "idle" /\ NoDialog \in [at : {"idle", "listed", "asking"}, obj : Nat]  BY DEF NoDialog
  <1>6. WellTyped'  BY Zenon, <1>1, <1>3, <1>4, <1>5 DEF WellTyped
  <1>7. Engaged'  BY <1>1, <1>3 DEF Engaged, AtTurn
  <1>8. Visible' = s /\ Task' = tasks[s] /\ ~Overlay'  BY Zenon, <1>3, <1>4, <1>5 DEF Visible, Task, Overlay
  <1>9. IF tasks[s] = None THEN Current(shown)' ELSE shown' = calls'[s][tasks[s]].obj
    <2>1. Current(o) => Current(o)'  BY <1>3 DEF Current
    <2>2. tasks[s] = None => Current(p)'  BY <1>2, <1>4, <2>1
    <2> QED  BY <2>2 DEF Current
  <1>10. Screen'  BY <1>2, <1>4, <1>8, <1>9 DEF Screen
  <1>11. ASSUME NEW x, Live(x)' PROVE Live(x)
    BY <1>4, <1>5, <1>11 DEF Live
  <1> QED  BY <1>3, <1>6, <1>7, <1>10, <1>11, ViewStep

\* Its last turn was interrupted: the user is asked.
LEMMA PickAsks ==
    ASSUME Watchful, NEW o, NEW object, NEW s, NEW n, Chosen(o, object, s, n), UNCHANGED <<objects, tasks, calls>>,
           tasks[s] = None, n # 0, shown' = o, resuming' = [at |-> "asking", obj |-> o]
    PROVE  Watchful'
  <1>1. WellTyped /\ Engaged /\ Screen  BY DEF Watchful
  <1>2. /\ Open' /\ closed' # "plain" /\ o \in DOMAIN objects /\ o \in Nat /\ Live(o) /\ Current(o)
        /\ s \in Sessions /\ n = Len(turnIds[s])
    BY ChosenObject
  <1>3. objects[o].session = s /\ UNCHANGED <<runs, turnIds>> /\ closed' = closed  BY DEF Chosen
  <1>4. WellTyped'  BY Zenon, <1>1, <1>2, <1>3 DEF WellTyped
  <1>5. Engaged'  BY <1>1, <1>3 DEF Engaged, AtTurn
  <1>6. Visible' = s /\ Task' = None  BY <1>3 DEF Visible, Task
  <1>7. Current(o)'  BY <1>2, <1>3 DEF Current
  <1>8. turnIds'[s] # <<>>  BY <1>2, <1>3
  <1>9. Screen'  BY <1>2, <1>6, <1>7, <1>8 DEF Screen
  <1>10. ASSUME NEW x, Live(x)' PROVE Live(x)
    BY <1>2, <1>10 DEF Live
  <1> QED  BY <1>3, <1>4, <1>5, <1>9, <1>10, ViewStep

\* A call of resume watches the last turn.
Watches(s, o, n, after, batch) ==
    /\ shown' = o /\ resuming' = NoDialog
    /\ tasks' = [tasks EXCEPT ![s] = "resume"]
    /\ calls' = [calls EXCEPT ![s]["resume"] =
                   [at |-> "watching", obj |-> o, turn |-> n, after |-> after, batch |-> batch, stop |-> FALSE]]
LEMMA WatchesCall ==
    ASSUME WellTyped, Engaged, NEW s \in Sessions, NEW o \in Nat, NEW n \in Nat, NEW after \in Nat,
           NEW batch \in Nat, tasks[s] = None, Watches(s, o, n, after, batch),
           objects' \in Seq(Conversation), runs' \in Seq(RunRow),
           NEW k, k = "resume", NEW c, c = calls'[s][k], UNCHANGED turnIds
    PROVE  /\ WellTyped' /\ c.at = "watching" /\ c.obj = o /\ c.turn = n /\ c.after = after
           /\ tasks'[s] = k /\ k \in Kinds /\ k # None
           /\ \A m \in Kinds \ {k} : calls'[s][m] = calls[s][m] /\ calls'[s][m].at = "idle"
           /\ \A u \in Sessions \ {s} : calls'[u] = calls[u] /\ tasks'[u] = tasks[u]
           /\ shown' = o /\ ~Overlay'
  <1>1. PICK d : d = [at |-> "watching", obj |-> o, turn |-> n, after |-> after, batch |-> batch, stop |-> FALSE]
    OBVIOUS
  <1>2. d \in Call /\ d.at = "watching" /\ d.obj = o /\ d.turn = n /\ d.after = after  BY <1>1 DEF Call
  <1>3. k \in Kinds /\ k # None  BY DEF Kinds, None
  <1>4. calls' = [calls EXCEPT ![s][k] = d] /\ tasks' = [tasks EXCEPT ![s] = k]  BY <1>1 DEF Watches
  <1>5. calls[s] \in [Kinds -> Call]  BY DEF WellTyped
  <1>6. [calls[s] EXCEPT ![k] = d] \in [Kinds -> Call]  BY <1>2, <1>5
  <1>7. calls' = [calls EXCEPT ![s] = [calls[s] EXCEPT ![k] = d]]  BY <1>4
  <1>8. /\ calls' \in [Sessions -> [Kinds -> Call]] /\ calls'[s][k] = d
        /\ \A m \in Kinds \ {k} : calls'[s][m] = calls[s][m]
        /\ \A u \in Sessions \ {s} : calls'[u] = calls[u] /\ tasks'[u] = tasks[u]
        /\ tasks' \in [Sessions -> Kinds \cup {None}] /\ tasks'[s] = k
    BY <1>3, <1>4, <1>5, <1>6, <1>7 DEF WellTyped
  <1>9. \A m \in Kinds : calls[s][m].at = "idle"
    <2>1. \A m \in Kinds : m # None  BY DEF Kinds, None
    <2> QED  BY <2>1 DEF Engaged
  <1>10. NoDialog.at = "idle" /\ NoDialog \in [at : {"idle", "listed", "asking"}, obj : Nat]  BY DEF NoDialog
  <1>11. shown' = o /\ resuming' = NoDialog  BY DEF Watches
  <1>12. WellTyped'  BY <1>8, <1>10, <1>11 DEF WellTyped
  <1>13. ~Overlay'  BY <1>10, <1>11 DEF Overlay
  <1> QED  BY <1>2, <1>3, <1>8, <1>9, <1>11, <1>12, <1>13

\* The object that it watches.
WatchedObject(s, o, n, after) ==
    /\ Open /\ closed' = closed /\ tasks[s] = None
    /\ o \in DOMAIN objects /\ objects[o].session = s /\ DOMAIN objects' = DOMAIN objects
    /\ objects'[o].session = s /\ n = Len(objects'[o].turns) /\ n = Len(turnIds[s]) /\ n # 0
    /\ DOMAIN objects'[o].turns = 1 .. n
    /\ after = Len(objects'[o].turns[n].events)
    /\ \A j \in 1 .. n : objects'[o].turns[j].run # 0
    /\ \A p \in DOMAIN objects \ {o} : objects'[p] = objects[p]
    /\ UNCHANGED turnIds
LEMMA WatchesView ==
    ASSUME WellTyped, Engaged, NEW s \in Sessions, NEW o \in Nat, NEW n \in Nat, NEW after \in Nat,
           NEW batch \in Nat, Watches(s, o, n, after, batch),
           objects' \in Seq(Conversation), runs' \in Seq(RunRow), WatchedObject(s, o, n, after)
    PROVE  WellTyped' /\ Engaged' /\ Screen' /\ \A p \in DOMAIN objects \ {o} : Live(p)' => Live(p)
  <1> /\ Open /\ closed' = closed /\ tasks[s] = None
      /\ o \in DOMAIN objects /\ objects[o].session = s /\ DOMAIN objects' = DOMAIN objects
      /\ objects'[o].session = s /\ n = Len(objects'[o].turns) /\ n = Len(turnIds[s]) /\ n # 0
      /\ DOMAIN objects'[o].turns = 1 .. n
      /\ after = Len(objects'[o].turns[n].events)
      /\ \A j \in 1 .. n : objects'[o].turns[j].run # 0
      /\ \A p \in DOMAIN objects \ {o} : objects'[p] = objects[p]
      /\ UNCHANGED turnIds
    BY DEF WatchedObject
  <1>1. PICK k, c : k = "resume" /\ c = calls'[s][k]  OBVIOUS
  <1>2. /\ WellTyped' /\ c.at = "watching" /\ c.obj = o /\ c.turn = n /\ c.after = after
        /\ tasks'[s] = k /\ k \in Kinds /\ k # None
        /\ \A m \in Kinds \ {k} : calls'[s][m] = calls[s][m] /\ calls'[s][m].at = "idle"
        /\ \A u \in Sessions \ {s} : calls'[u] = calls[u] /\ tasks'[u] = tasks[u]
        /\ shown' = o /\ ~Overlay'
    BY SMTT(30), <1>1, WatchesCall
  <1>3. Engaged'
    <2> SUFFICES ASSUME NEW u \in Sessions, NEW m \in Kinds
                 PROVE  /\ calls'[u][m].at # "idle" <=> tasks'[u] = m
                        /\ calls'[u][m].at # "idle" => AtTurn(u, calls[u][m])'
      BY DEF Engaged
    <2>1. CASE u = s /\ m # k  BY SMTT(30), <1>2, <2>1
    <2>2. CASE u = s /\ m = k
      <3>1. PICK x : x = objects'[o]  OBVIOUS
      <3>2. /\ c.obj \in DOMAIN objects' /\ x.session = s /\ n = Len(x.turns) /\ after = Len(x.turns[n].events)
            /\ DOMAIN x.turns = 1 .. n /\ \A j \in 1 .. n : x.turns[j].run # 0
        BY <1>2, <3>1
      <3>3. c.at # "starting" /\ c.at # "refused"  BY <1>2
      <3>4. AtTurn(s, c)'  BY <1>2, <3>1, <3>2, <3>3 DEF AtTurn
      <3> QED  BY <1>1, <1>2, <2>2, <3>4 DEF AtTurn
    <2>3. CASE u # s
      <3>1. calls'[u][m] = calls[u][m] /\ tasks'[u] = tasks[u]  BY <1>2, <2>3
      <3>2. PICK q : q = calls[u][m]  OBVIOUS
      <3>3. q.at # "idle" <=> tasks[u] = m  BY <3>2 DEF Engaged
      <3>4. ASSUME q.at # "idle" PROVE AtTurn(u, q)'
        <4>1. AtTurn(u, q)  BY <3>2, <3>4 DEF Engaged
        <4>2. q.obj # o /\ q.obj \in DOMAIN objects  BY Zenon, <2>3, <4>1 DEF AtTurn
        <4> QED  BY <4>1, <4>2, AtTurnKept
      <3>5. q.at # "idle" => AtTurn(u, calls[u][m])'  BY Zenon, <3>1, <3>2, <3>4 DEF AtTurn
      <3> QED  BY <3>1, <3>2, <3>3, <3>5
    <2> QED  BY <2>1, <2>2, <2>3
  <1>4. Screen'
    <2>1. Visible' = s /\ shown' \in DOMAIN objects'  BY <1>2 DEF Visible
    <2>2. Task' = k  BY <1>2, <2>1 DEF Task
    <2>3. Open' /\ closed' # "plain"  BY DEF Open
    <2>4. shown' = calls'[s][k].obj  BY <1>1, <1>2
    <2> QED  BY Zenon, <1>2, <2>1, <2>2, <2>3, <2>4 DEF Screen
  <1>5. ASSUME NEW p \in DOMAIN objects \ {o}, Live(p)' PROVE Live(p)
    <2>1. shown' = o /\ resuming'.at = "idle"  BY <1>2 DEF Overlay
    <2>2. PICK u \in Sessions, m \in Kinds : calls'[u][m].at # "idle" /\ p = calls'[u][m].obj
      BY <1>5, <2>1 DEF Live
    <2>3. CASE u = s /\ m = k  BY <1>1, <1>2, <2>2, <2>3
    <2>4. CASE u = s /\ m # k  BY <1>2, <2>2, <2>4
    <2>5. CASE u # s  BY <1>2, <2>2, <2>5 DEF Live
    <2> QED  BY <2>3, <2>4, <2>5
  <1> QED  BY <1>2, <1>3, <1>4, <1>5

LEMMA PickWatches ==
    ASSUME Watchful, NEW o, NEW object, NEW s, NEW n, Chosen(o, object, s, n), objects' = objects,
           tasks[s] = None, n # 0, NEW after, after = Len(object.turns[n].events),
           NEW batch \in Nat, Watches(s, o, n, after, batch)
    PROVE  Watchful'
  <1>1. WellTyped /\ Engaged  BY DEF Watchful
  <1>2. /\ o \in DOMAIN objects /\ o \in Nat /\ Live(o) /\ s \in Sessions
        /\ n \in Nat /\ n = Len(turnIds[s]) /\ DOMAIN object.turns = 1 .. n
        /\ \A j \in 1 .. n : object.turns[j].run # 0
    BY ChosenObject
  <1>3. /\ Open /\ closed' = closed /\ object = objects[o] /\ s = object.session /\ n = Len(object.turns)
        /\ UNCHANGED <<runs, turnIds>>
    BY DEF Chosen
  <1>4. after \in Nat
    <2>1. n \in DOMAIN objects[o].turns  BY <1>2, <1>3
    <2> QED  BY <1>1, <1>2, <1>3, <2>1, RunTypes
  <1>5. WatchedObject(s, o, n, after)  BY <1>2, <1>3 DEF WatchedObject
  <1>6. objects' \in Seq(Conversation) /\ runs' \in Seq(RunRow)  BY <1>1, <1>3 DEF WellTyped
  <1>7. WellTyped' /\ Engaged' /\ Screen' /\ \A p \in DOMAIN objects \ {o} : Live(p)' => Live(p)
    BY <1>1, <1>2, <1>4, <1>5, <1>6, WatchesView
  <1>8. Settled'
    <2>1. \A p \in DOMAIN objects : Live(p)' => Live(p)  BY <1>2, <1>7
    <2>2. \A r \in DOMAIN runs : StaysOver(r)  BY <1>1, <1>3, RunsStay
    <2> QED  BY <1>1, <2>1, <2>2, SettledGoesOn DEF Watchful
  <1>9. Histories' /\ Copies'  BY <1>3 DEF Watchful, Histories, Copies, Created, IsCopy
  <1> QED  BY <1>7, <1>8, <1>9 DEF Watchful

\* The events behind those that were read complete the copy.
LEMMA CaughtUpTurn ==
    ASSUME WellTyped, NEW old \in TurnCopy, NEW r, r = old.run, r \in DOMAIN runs, r # 0,
           NEW s, NEW p, IsCopy(old, s, p), NEW t, t = CaughtUp(old)
    PROVE  /\ t \in TurnCopy /\ t.run = r /\ Len(t.events) = runs[r].log /\ runs[r].log \in Nat
           /\ \A m \in DOMAIN t.events : t.events[m] = m
  <1>1. PICK old1, n, total : old1 = old.events /\ n = Len(old.events) /\ total = runs[r].log  OBVIOUS
  <1>2. old1 \in Seq(Nat) /\ n \in Nat /\ DOMAIN old1 = 1 .. n /\ total \in Nat /\ n <= total /\ n = Len(old1)
    <2>1. old1 \in Seq(Nat)  BY <1>1 DEF TurnCopy
    <2>2. total \in Nat  BY <1>1, RunTypes DEF RunRow
    <2>3. n <= total  BY <1>1 DEF IsCopy
    <2> QED  BY <1>1, <2>1, <2>2, <2>3, LenProperties
  <1>3. PICK d, rest : d = total - n /\ rest = [i \in 1 .. d |-> n + i]  OBVIOUS
  <1>4. d \in Nat /\ rest \in [1 .. d -> Nat]  BY <1>2, <1>3
  <1>5. rest \in Seq(Nat) /\ Len(rest) = d /\ DOMAIN rest = 1 .. d  BY <1>4, FunctionIsSeq
  <1>6. PICK events : events = old1 \o rest  OBVIOUS
  <1>7. /\ events \in Seq(Nat) /\ Len(events) = total
        /\ \A m \in 1 .. total : events[m] = IF m <= n THEN old1[m] ELSE rest[m - n]
    <2>1. Len(events) = n + d  BY <1>2, <1>5, <1>6, ConcatProperties
    <2>2. n + d = total  BY <1>2, <1>3
    <2>3. \A m \in 1 .. n + d : events[m] = IF m <= n THEN old1[m] ELSE rest[m - n]
      BY <1>2, <1>5, <1>6, ConcatProperties
    <2>4. events \in Seq(Nat)  BY <1>2, <1>5, <1>6, ConcatProperties
    <2> QED  BY <2>1, <2>2, <2>3, <2>4
  <1>8. ASSUME NEW m \in 1 .. total PROVE events[m] = m
    <2>1. CASE m <= n
      <3>1. m \in DOMAIN old.events /\ old1[m] = old.events[m]  BY <1>1, <1>2, <2>1
      <3>2. old.events[m] = m  BY <3>1 DEF IsCopy
      <3> QED  BY <1>7, <2>1, <3>1, <3>2
    <2>2. CASE ~(m <= n)
      <3>1. PICK i : i = m - n  OBVIOUS
      <3>2. i \in 1 .. d /\ n + i = m  BY <1>2, <1>3, <2>2, <3>1
      <3>3. rest[i] = n + i  BY <1>3, <3>2
      <3>4. events[m] = rest[i]  BY <1>7, <2>2, <3>1
      <3> QED  BY <3>2, <3>3, <3>4
    <2> QED  BY <2>1, <2>2
  <1>9. t = [old EXCEPT !.events = events, !.over = TRUE]
    BY <1>1, <1>3, <1>6 DEF CaughtUp
  <1>10. PICK mid : mid = [old EXCEPT !.events = events]  OBVIOUS
  <1>11. mid \in TurnCopy /\ mid.run = r /\ mid.events = events  BY <1>7, <1>10 DEF TurnCopy
  <1>12. t = [mid EXCEPT !.over = TRUE]  BY <1>9, <1>10 DEF TurnCopy
  <1>13. t \in TurnCopy /\ t.run = r /\ t.events = events  BY <1>11, <1>12 DEF TurnCopy
  <1> QED  BY <1>1, <1>2, <1>7, <1>8, <1>13, LenProperties

LEMMA PickCatchesUp ==
    ASSUME Watchful, NEW o, NEW object, NEW s, NEW n, Chosen(o, object, s, n), UNCHANGED <<tasks, calls>>,
           tasks[s] = None, n # 0, shown' = o, resuming' = NoDialog,
           NEW t, t = CaughtUp(object.turns[n]), runs[object.turns[n].run].at # "running", ChangesTurn(o, n, t)
    PROVE  Watchful'
  <1>1. WellTyped /\ Histories /\ Copies /\ Settled /\ Engaged  BY DEF Watchful
  <1>2. /\ o \in DOMAIN objects /\ o \in Nat /\ Live(o) /\ s \in Sessions /\ Created(s)
        /\ n \in Nat /\ n = Len(turnIds[s]) /\ DOMAIN object.turns = 1 .. n /\ DOMAIN turnIds[s] = 1 .. n
        /\ \A j \in 1 .. n : object.turns[j].run # 0
    BY ChosenObject
  <1>3. /\ Open /\ closed' = closed /\ object = objects[o] /\ s = object.session /\ n = Len(object.turns)
        /\ UNCHANGED <<runs, turnIds>> /\ n \in 1 .. n
    BY <1>2 DEF Chosen
  <1>4. PICK old, r : old = object.turns[n] /\ r = old.run  BY Zenon
  <1>5. old \in TurnCopy /\ r \in DOMAIN runs /\ r = turnIds[s][n] /\ Len(old.events) <= runs[r].log
    BY <1>1, <1>2, <1>3, <1>4, RunTypes, RunOfCopy
  <1>6. IsCopy(old, s, n) /\ r # 0 /\ t = CaughtUp(old)  BY <1>1, <1>2, <1>3, <1>4 DEF Copies
  <1>7. /\ t \in TurnCopy /\ t.run = r /\ Len(t.events) = runs[r].log /\ runs[r].log \in Nat
        /\ \A m \in DOMAIN t.events : t.events[m] = m
    BY Zenon, <1>1, <1>4, <1>5, <1>6, CaughtUpTurn
  <1>8. /\ objects' \in Seq(Conversation) /\ DOMAIN objects' = DOMAIN objects
        /\ \A p \in DOMAIN objects \ {o} : objects'[p] = objects[p]
        /\ objects'[o].session = objects[o].session
        /\ Len(objects'[o].turns) = Len(objects[o].turns)
        /\ DOMAIN objects'[o].turns = DOMAIN objects[o].turns
        /\ objects'[o].turns[n] = t
        /\ \A j \in DOMAIN objects[o].turns \ {n} : objects'[o].turns[j] = objects[o].turns[j]
    <2>1. object = objects[o] /\ o \in DOMAIN objects /\ n \in DOMAIN objects[o].turns /\ objects \in Seq(Conversation)
      BY <1>1, <1>2, <1>3 DEF WellTyped
    <2> QED  BY <1>1, <2>1, <1>7, TurnChanged
  <1>9. NoDialog.at = "idle" /\ NoDialog \in [at : {"idle", "listed", "asking"}, obj : Nat]  BY DEF NoDialog
  <1>10. WellTyped'  BY <1>1, <1>2, <1>3, <1>8, <1>9 DEF WellTyped
  <1>11. Histories'  BY <1>1, <1>3 DEF Histories, Created
  <1>12. /\ runs' \in Seq(RunRow) /\ \A q \in DOMAIN runs : GoesOn(q) /\ StaysOver(q)
         /\ RunsGoOn /\ TurnIdsGrow
    <2>1. runs' \in Seq(RunRow) /\ \A q \in DOMAIN runs : GoesOn(q) /\ StaysOver(q)
      BY <1>1, <1>3, RunsStay
    <2> QED  BY <1>3, <2>1 DEF RunsGoOn, TurnIdsGrow, Created
  <1>13. ASSUME NEW p, Live(p)' PROVE Live(p)
    BY <1>2, <1>9, <1>13 DEF Live
  <1>14. \A p \in DOMAIN objects : objects'[p].session = objects[p].session  BY <1>8
  <1>15. Copies' /\ Settled'
    <2>1. \A p \in DOMAIN objects' : turnIds'[objects'[p].session] # << 0 >>
      BY <1>1, <1>3, <1>8, <1>14 DEF Copies, Created
    <2>2. ASSUME NEW p \in DOMAIN objects', NEW j \in DOMAIN objects'[p].turns,
                 NEW x, x = objects'[p].turns[j]
          PROVE  OldTurn(p, j, x) \/ NewTurn(p, j, x)
      <3>1. CASE p = o /\ j = n
        <4>1. x = t /\ objects'[p].session = s  BY <1>3, <1>8, <2>2, <3>1
        <4>2. /\ j \in DOMAIN turnIds'[s] /\ x.run = turnIds'[s][j] /\ runs'[x.run] = runs[r]
              /\ Len(x.events) <= runs'[x.run].log
          <5>1. runs' = runs /\ turnIds' = turnIds  BY <1>3
          <5>2. x.run = r /\ Len(x.events) = runs[r].log /\ runs[r].log \in Nat  BY <1>7, <4>1
          <5>3. j \in DOMAIN turnIds[s] /\ r = turnIds[s][j]  BY <1>2, <1>3, <1>5, <3>1
          <5>4. runs'[x.run] = runs[r]  BY <5>1, <5>2
          <5>5. j \in DOMAIN turnIds'[s] /\ x.run = turnIds'[s][j]  BY <5>1, <5>2, <5>3
          <5> QED  BY <5>2, <5>4, <5>5
        <4>2a. IsCopy(x, s, j)'  BY <1>7, <4>1, <4>2 DEF IsCopy
        <4>3. IsSettled(x)'  BY <1>3, <1>4, <1>7, <4>1 DEF IsSettled, Running
        <4> QED  BY <4>1, <4>2a, <4>3 DEF NewTurn, IsCopy
      <3>2. CASE ~(p = o /\ j = n)
        <4>1. p \in DOMAIN objects /\ j \in DOMAIN objects[p].turns /\ x = objects[p].turns[j]
          <5>1. CASE p = o  BY <1>8, <2>2, <3>2, <5>1
          <5>2. CASE p # o  BY <1>8, <2>2, <5>2
          <5> QED  BY <5>1, <5>2
        <4>2. x.run # 0 => StaysOver(x.run)
          <5>1. x.run # 0 => x.run \in DOMAIN runs  BY <1>1, <4>1, RunOfCopy
          <5> QED  BY <1>12, <5>1
        <4> QED  BY <1>13, <1>14, <4>1, <4>2 DEF OldTurn
      <3> QED  BY <3>1, <3>2
    <2> QED  BY <1>1, <1>12, <2>1, <2>2, TurnsFrom
  <1>16. Engaged'
    <2>1. ASSUME NEW u \in Sessions, NEW k \in Kinds, NEW q, q = calls[u][k], q.at # "idle"
          PROVE  q.obj \in DOMAIN objects' /\ objects'[q.obj] = objects[q.obj] /\ turnIds'[u] = turnIds[u]
      <3>1. AtTurn(u, q) /\ tasks[u] = k  BY <1>1, <2>1 DEF Engaged
      <3>2. q.obj \in DOMAIN objects /\ objects[q.obj].session = u  BY <3>1 DEF AtTurn
      <3>3. u # s  BY <3>1 DEF None, Kinds
      <3>4. q.obj # o  BY <1>3, <3>2, <3>3
      <3> QED  BY <1>3, <1>8, <3>2, <3>4
    <2> QED  BY <1>1, <2>1, EngagedKept DEF CallsKept
  <1>17. Screen'
    <2>1. Visible' = s /\ shown' \in DOMAIN objects'  BY <1>2, <1>3, <1>8 DEF Visible
    <2>2. Task' = None  BY <2>1 DEF Task
    <2>3. Open' /\ closed' # "plain" /\ ~Overlay'  BY Zenon, <1>3, <1>9 DEF Open, Overlay
    <2>4. Current(shown)'
      <3>1. ASSUME NEW j \in DOMAIN objects'[o].turns PROVE objects'[o].turns[j].run # 0
        <4>1. j \in 1 .. n  BY Zenon, <1>2, <1>3, <1>8, <3>1
        <4>2. CASE j = n  BY Zenon, <1>2, <1>4, <1>7, <1>8, <4>1, <4>2
        <4>3. CASE j # n  BY <1>2, <1>3, <1>8, <4>1, <4>3
        <4> QED  BY Zenon, <4>2, <4>3
      <3> QED  BY <1>2, <1>3, <1>8, <2>1, <3>1 DEF Current
    <2> QED  BY Zenon, <2>1, <2>2, <2>3, <2>4 DEF Screen
  <1> QED  BY <1>10, <1>11, <1>15, <1>16, <1>17 DEF Watchful

LEMMA PickStep == ASSUME Watchful, Pick PROVE Watchful'
  <1>1. PICK o, object, s, n : o = resuming.obj /\ object = objects[o] /\ s = object.session
                               /\ n = Len(object.turns)
    OBVIOUS
  <1>2. /\ Open /\ closed' = closed /\ resuming.at = "listed" /\ UNCHANGED <<runs, turnIds>>
        /\ Begin(o, object)
    BY <1>1 DEF Pick, Dialog, runtime
  <1>3. Chosen(o, object, s, n)  BY <1>1, <1>2 DEF Chosen
  <1>4. /\ o \in DOMAIN objects /\ s \in Sessions /\ n \in Nat /\ DOMAIN object.turns = 1 .. n
        /\ \A j \in 1 .. n : object.turns[j].run # 0
    BY <1>3, ChosenObject
  <1>5. WellTyped /\ Histories /\ Copies  BY DEF Watchful
  <1>6. CASE tasks[s] # None \/ n = 0
    <2>1. /\ objects' = [objects EXCEPT ![o] = object] /\ resuming' = NoDialog /\ UNCHANGED <<tasks, calls>>
          /\ shown' = IF tasks[s] # None THEN calls[s][tasks[s]].obj ELSE o
      BY <1>1, <1>2, <1>6 DEF Begin
    <2>2. objects' = objects  BY <1>1, <1>4, <1>5, <2>1 DEF WellTyped
    <2> QED  BY <1>3, <2>1, <2>2, PickShows
  <1>7. CASE tasks[s] = None /\ n # 0
    <2>1. PICK turn, at, after, batch :
            /\ turn = object.turns[n] /\ at = runs[turn.run].at
            /\ after = Len(object.turns[n].events) /\ batch = FirstBatch(turn.run, after)
      OBVIOUS
    <2>2. /\ shown' = o
          /\ objects' = [objects EXCEPT ![o] = IF at = "ended" THEN [object EXCEPT !.turns[n] = CaughtUp(turn)]
                                               ELSE object]
          /\ resuming' = IF at = "interrupted" THEN [at |-> "asking", obj |-> o] ELSE NoDialog
          /\ IF at = "running"
             THEN /\ tasks' = [tasks EXCEPT ![s] = "resume"]
                  /\ calls' = [calls EXCEPT ![s]["resume"] =
                                 [at |-> "watching", obj |-> o, turn |-> n, after |-> after, batch |-> batch,
                                  stop |-> FALSE]]
             ELSE UNCHANGED <<tasks, calls>>
      BY <1>1, <1>2, <1>7, <2>1 DEF Begin
    <2>3. at \in {"running", "ended", "interrupted"} /\ turn.run \in DOMAIN runs
      <3>1. n \in DOMAIN objects[o].turns /\ objects[o].turns[n].run # 0 /\ turn = objects[o].turns[n]
        BY <1>1, <1>4, <1>7, <2>1
      <3>2. turn.run \in DOMAIN runs  BY <1>4, <1>5, <3>1, RunOfCopy
      <3> QED  BY <1>5, <2>1, <3>2, RunTypes DEF RunRow
    <2>4. at # "ended" => objects' = objects  BY <1>1, <1>4, <1>5, <2>2 DEF WellTyped
    <2>5. CASE at = "running"
      <3>1. resuming' = NoDialog /\ objects' = objects  BY <2>2, <2>4, <2>5
      <3>2. Watches(s, o, n, after, batch)  BY <2>2, <2>5, <3>1 DEF Watches
      <3>3. batch \in Nat  BY <1>5, <2>1, <2>3, FirstBatchTypes
      <3> QED  BY <1>3, <1>7, <2>1, <3>1, <3>2, <3>3, PickWatches
    <2>6. CASE at = "interrupted"
      <3>1. resuming' = [at |-> "asking", obj |-> o] /\ objects' = objects /\ UNCHANGED <<tasks, calls>>
        BY <2>2, <2>4, <2>6
      <3> QED  BY <1>3, <1>7, <2>2, <3>1, PickAsks
    <2>7. CASE at = "ended"
      <3>1. PICK t : t = CaughtUp(object.turns[n])  OBVIOUS
      <3>2. resuming' = NoDialog /\ UNCHANGED <<tasks, calls>>  BY <2>2, <2>7
      <3>3. ChangesTurn(o, n, t)  BY <1>1, <2>1, <2>2, <2>7, <3>1 DEF ChangesTurn
      <3>4. runs[object.turns[n].run].at # "running"  BY <2>1, <2>7
      <3> QED  BY <1>3, <1>7, <2>2, <3>1, <3>2, <3>3, <3>4, PickCatchesUp
    <2> QED  BY <2>3, <2>5, <2>6, <2>7
  <1> QED  BY <1>6, <1>7

\* The turn is only viewed.
LEMMA ViewTurnStep == ASSUME Watchful, View PROVE Watchful'
  <1>1. PICK o, object, s, n : o = resuming.obj /\ object = objects[o] /\ s = object.session
                               /\ n = Len(object.turns)
    OBVIOUS
  <1>2. PICK t : t = CaughtUp(object.turns[n])  OBVIOUS
  <1>3. /\ Open /\ closed' = closed /\ resuming.at = "asking" /\ resuming' = NoDialog
        /\ UNCHANGED <<runs, turnIds, shown, tasks, calls>>
        /\ runs[object.turns[n].run].at = "interrupted"
        /\ objects' = [objects EXCEPT ![o].turns[n] = CaughtUp(@)]
    BY <1>1 DEF View, Dialog, runtime
  <1>4. ChangesTurn(o, n, t)  BY <1>1, <1>2, <1>3 DEF ChangesTurn
  <1>5. Chosen(o, object, s, n)  BY <1>1, <1>3 DEF Chosen
  <1>6. shown = o /\ Task = None /\ turnIds[Visible] # <<>>  BY <1>1, <1>3 DEF Watchful, Screen, Overlay
  <1>7. tasks[s] = None /\ turnIds[s] # <<>>  BY <1>1, <1>6 DEF Visible, Task
  <1>8. n # 0
    <2>1. n = Len(turnIds[s]) /\ s \in Sessions  BY <1>5, ChosenObject
    <2>2. turnIds[s] \in Seq(Nat)  BY <2>1, RunTypes DEF Watchful
    <2> QED  BY <1>7, <2>1, <2>2, EmptySeq
  <1>9. runs[object.turns[n].run].at # "running"  BY <1>3
  <1> QED  BY <1>2, <1>3, <1>4, <1>5, <1>6, <1>7, <1>8, <1>9, PickCatchesUp

\* The runtime resumes the turn, and the copy is made anew.
LEMMA ResumeTurnStep == ASSUME Watchful, ResumeTurn PROVE Watchful'
  <1>1. PICK o, s, r, n, snap : /\ o = resuming.obj /\ s = objects[o].session /\ r = HeadOf(s)
                                /\ n = Len(turnIds[s]) /\ snap = Snapshot(s)
    OBVIOUS
  <1>2. PICK object : object = [snap EXCEPT !.turns[n].over = FALSE]  OBVIOUS
  <1>3. WellTyped /\ Histories /\ Copies /\ Settled /\ Engaged /\ Screen  BY DEF Watchful
  <1>4. /\ Open /\ closed' = closed /\ resuming.at = "asking" /\ turnIds' = turnIds
        /\ runs[r].at = "interrupted" /\ runs' = [runs EXCEPT ![r].at = "running"]
        /\ objects' = [objects EXCEPT ![o] = object]
    BY Zenon, <1>1, <1>2 DEF ResumeTurn, Dialog
  <1>5. PICK after : after = runs[r].log  OBVIOUS
  <1>6. PICK m : m = Len(object.turns)  BY Zenon
  <1>7. Watches(s, o, m, after, 0)  BY Zenon, <1>1, <1>2, <1>5, <1>6 DEF ResumeTurn, Watches
  <1>8. /\ o \in DOMAIN objects /\ o \in Nat /\ shown = o /\ tasks[s] = None /\ turnIds[s] # <<>>
        /\ s \in Sessions /\ Created(s)
    <2>1. Current(o) /\ shown = o /\ Task = None /\ turnIds[Visible] # <<>>
      BY <1>1, <1>3, <1>4 DEF Screen, Overlay
    <2>2. o \in DOMAIN objects  BY <2>1 DEF Current
    <2>3. s = Visible  BY <1>1, <2>1 DEF Visible
    <2>4. tasks[s] = None /\ turnIds[s] # <<>>  BY <2>1, <2>3 DEF Task
    <2>5. s \in Sessions /\ o \in Nat  BY <1>1, <1>3, <2>2, RunTypes
    <2>6. Created(s)  BY <1>1, <1>3, <2>2 DEF Copies
    <2> QED  BY <2>1, <2>2, <2>4, <2>5, <2>6
  <1>9. IsSnapshot(snap, s, n)  BY <1>1, <1>3, <1>8, SnapshotOf
  <1>10. /\ snap \in Conversation /\ snap.session = s /\ n \in Nat
         /\ Len(snap.turns) = n /\ DOMAIN snap.turns = 1 .. n /\ DOMAIN turnIds[s] = 1 .. n
         /\ \A j \in 1 .. n : IsWhole(snap.turns[j], turnIds[s][j])
    BY <1>9 DEF IsSnapshot
  <1>11. n # 0 /\ n \in 1 .. n /\ r = turnIds[s][n]
    <2>1. n # 0  BY <1>1, <1>3, <1>8, <1>10, EmptySeq DEF WellTyped
    <2> QED  BY <1>1, <1>10, <2>1 DEF HeadOf
  <1>12. PICK old, last : old = snap.turns[n] /\ last = [old EXCEPT !.over = FALSE]  OBVIOUS
  <1>13. IsWhole(old, r)  BY <1>10, <1>11, <1>12
  <1>14. /\ last \in TurnCopy /\ last.run = r /\ last.events = old.events /\ last.over = FALSE
         /\ r \in DOMAIN runs /\ r # 0 /\ Len(last.events) = after /\ after \in Nat
         /\ \A i \in DOMAIN last.events : last.events[i] = i
    <2>1. old \in TurnCopy  BY <1>13 DEF IsWhole
    <2>2. last \in TurnCopy /\ last.run = old.run /\ last.events = old.events /\ last.over = FALSE
      BY <1>12, <2>1 DEF TurnCopy
    <2>3. old.run = r /\ r \in DOMAIN runs /\ r # 0 /\ Len(old.events) = after /\ after \in Nat
          /\ \A i \in DOMAIN old.events : old.events[i] = i
      BY <1>5, <1>13 DEF IsWhole
    <2> QED  BY <2>2, <2>3
  <1>15. PICK turns : turns = [snap.turns EXCEPT ![n] = last]  OBVIOUS
  <1>16. /\ turns \in Seq(TurnCopy) /\ Len(turns) = n /\ DOMAIN turns = 1 .. n
         /\ turns[n] = last /\ \A j \in 1 .. n : j # n => turns[j] = snap.turns[j]
    <2>1. \A j \in 1 .. n : snap.turns[j] \in TurnCopy  BY <1>10 DEF IsWhole
    <2>2. snap.turns = [j \in 1 .. n |-> snap.turns[j]]  BY <1>10 DEF Conversation
    <2>3. turns \in [1 .. n -> TurnCopy]  BY <1>10, <1>14, <1>15, <2>1, <2>2
    <2>4. turns \in Seq(TurnCopy) /\ Len(turns) = n /\ DOMAIN turns = 1 .. n  BY <1>10, <2>3, FunctionIsSeq
    <2> QED  BY <1>10, <1>11, <1>15, <2>4
  <1>17. object \in Conversation /\ object.session = s /\ object.turns = turns /\ m = n
    <2>1. object = [snap EXCEPT !.turns = turns]  BY <1>2, <1>12, <1>15
    <2> QED  BY <1>6, <1>10, <1>16, <2>1 DEF Conversation
  <1>18. /\ objects' \in Seq(Conversation) /\ DOMAIN objects' = DOMAIN objects
         /\ objects'[o] = object
         /\ \A p \in DOMAIN objects \ {o} : objects'[p] = objects[p]
    BY <1>3, <1>4, <1>8, <1>17, ObjectChanged
  <1>19. /\ runs' \in Seq(RunRow) /\ \A q \in DOMAIN runs : GoesOn(q)
         /\ runs'[r].log = runs[r].log /\ runs'[r].at = "running"
         /\ \A q \in DOMAIN runs \ {r} : runs'[q] = runs[q]
    BY <1>3, <1>4, <1>14, RunsAgain
  <1>20. ASSUME NEW j \in 1 .. n PROVE turns[j].run = turnIds[s][j] /\ turns[j].run # 0
    <2>1. CASE j = n  BY <1>11, <1>14, <1>16, <2>1
    <2>2. CASE j # n  BY SMTT(30), <1>10, <1>16, <2>2 DEF IsWhole
    <2> QED  BY <2>1, <2>2
  <1>21. WatchedObject(s, o, n, after)
    BY <1>1, <1>4, <1>8, <1>11, <1>14, <1>16, <1>17, <1>18, <1>20 DEF WatchedObject
  <1>22. WellTyped' /\ Engaged' /\ Screen' /\ \A p \in DOMAIN objects \ {o} : Live(p)' => Live(p)
    BY <1>3, <1>7, <1>8, <1>10, <1>14, <1>17, <1>18, <1>19, <1>21, WatchesView
  <1>23. RunsGoOn /\ TurnIdsGrow  BY <1>4, <1>19 DEF RunsGoOn, TurnIdsGrow, Created
  <1>24. Histories'  BY <1>3, <1>4, <1>23, HistoriesGoOn
  <1>25. ASSUME NEW q \in DOMAIN runs, q # r PROVE StaysOver(q)
    <2>1. runs'[q] = runs[q]  BY <1>19, <1>25
    <2> QED  BY <2>1 DEF StaysOver, Running
  <1>26. runs[r].session = s
    <2>1. runs[r].at = "ended" \/ runs[r].session = s  BY <1>3, <1>8, <1>10, <1>11 DEF Histories
    <2> QED  BY <1>4, <2>1
  <1>27. ASSUME NEW p \in DOMAIN objects \ {o}, Live(p)', NEW j \in DOMAIN objects[p].turns,
                NEW x, x = objects[p].turns[j], x.run # 0
         PROVE  StaysOver(x.run)
    <2>1. SUFFICES ASSUME x.run = r PROVE FALSE
      <3>1. x.run \in DOMAIN runs  BY <1>3, <1>27, RunOfCopy
      <3> QED  BY <1>25, <3>1
    <2>2. runs[x.run].at = "ended" \/ runs[x.run].session = objects[p].session  BY <1>3, <1>27, RunOfCopy
    <2>3. objects[p].session = s  BY <1>4, <1>26, <2>1, <2>2
    <2>4. shown' = o /\ resuming'.at = "idle"  BY <1>7 DEF Watches, NoDialog
    <2>5. PICK u \in Sessions, k \in Kinds : calls'[u][k].at # "idle" /\ p = calls'[u][k].obj
      BY <1>27, <2>4 DEF Live
    <2>6. PICK c : c = calls'[u][k]  BY Zenon
    <2>7. AtTurn(u, c)'  BY <1>22, <2>5, <2>6 DEF Engaged, AtTurn
    <2>8. objects'[p].session = u  BY <2>5, <2>6, <2>7 DEF AtTurn
    <2>9. u = s  BY <1>18, <2>3, <2>8
    <2>10. tasks'[s] = k  BY <1>22, <2>5, <2>9 DEF Engaged
    <2>11. tasks'[s] = "resume"  BY <1>3, <1>7, <1>8 DEF Watches, WellTyped
    <2>12. calls'[s]["resume"].obj = o
      BY <1>3, <1>7, <1>8 DEF Watches, WellTyped, Kinds
    <2> QED  BY <2>5, <2>9, <2>10, <2>11, <2>12
  <1>28. Copies' /\ Settled'
    <2>1. \A p \in DOMAIN objects' : turnIds'[objects'[p].session] # << 0 >>
      <3>1. \A p \in DOMAIN objects : objects'[p].session = objects[p].session  BY <1>1, <1>17, <1>18
      <3> QED  BY <1>3, <1>4, <1>18, <3>1 DEF Copies, Created
    <2>2. ASSUME NEW p \in DOMAIN objects', NEW j \in DOMAIN objects'[p].turns,
                 NEW x, x = objects'[p].turns[j]
          PROVE  OldTurn(p, j, x) \/ NewTurn(p, j, x)
      <3>1. CASE p = o /\ j = n
        <4>1. x = last /\ objects'[p].session = s  BY <1>16, <1>17, <1>18, <2>2, <3>1
        <4>2. runs'[x.run].log = after /\ x.run = turnIds'[s][j] /\ j \in DOMAIN turnIds'[s]
          BY <1>4, <1>5, <1>10, <1>11, <1>14, <1>19, <3>1, <4>1
        <4>3. IsCopy(x, s, j)'  BY <1>14, <4>1, <4>2 DEF IsCopy
        <4>4. IsSettled(x)'  BY <1>14, <4>1 DEF IsSettled
        <4> QED  BY <4>1, <4>3, <4>4 DEF NewTurn, IsCopy
      <3>2. CASE p = o /\ j # n
        <4>1. j \in 1 .. n /\ x = snap.turns[j] /\ objects'[p].session = s
          BY <1>16, <1>17, <1>18, <2>2, <3>2
        <4>2. PICK q : q = turnIds[s][j]  OBVIOUS
        <4>3. IsWhole(x, q)  BY <1>10, <4>1, <4>2
        <4>4. /\ x.run = q /\ q \in DOMAIN runs /\ Len(x.events) = runs[q].log /\ runs[q].log \in Nat
              /\ \A i \in DOMAIN x.events : x.events[i] = i
          BY <4>3 DEF IsWhole
        <4>5. runs[q].at = "ended"  BY <1>1, <1>3, <1>8, <1>10, <3>2, <4>1, <4>2 DEF Histories
        <4>6. runs'[q] = runs[q]  BY <1>4, <1>19, <4>4, <4>5
        <4>7. j \in DOMAIN turnIds'[s] /\ x.run = turnIds'[s][j]  BY <1>4, <1>10, <4>1, <4>2, <4>4
        <4>8. IsCopy(x, s, j)'  BY <4>4, <4>6, <4>7 DEF IsCopy
        <4>9. IsSettled(x)'  BY <4>4, <4>5, <4>6 DEF IsSettled, Running
        <4> QED  BY <4>1, <4>8, <4>9 DEF NewTurn, IsCopy
      <3>3. CASE p # o
        <4>1. p \in DOMAIN objects \ {o} /\ j \in DOMAIN objects[p].turns /\ x = objects[p].turns[j]
              /\ objects'[p] = objects[p]
          BY <1>18, <2>2, <3>3
        <4>2. Live(p)' => Live(p)  BY <1>22, <4>1
        <4>3. Live(p)' /\ x.run # 0 => StaysOver(x.run)  BY <1>27, <4>1
        <4> QED  BY <4>1, <4>2, <4>3 DEF OldTurn
      <3> QED  BY <3>1, <3>2, <3>3
    <2> QED  BY <1>3, <1>19, <1>23, <2>1, <2>2, TurnsFrom
  <1> QED  BY <1>22, <1>24, <1>28 DEF Watchful
------------------------------------------------------------------------------
(* Keys, and the end                                                          *)

\* The terminal is closed: what ran is interrupted, and nothing is held.
LEMMA CloseStep == ASSUME Watchful, Close PROVE Watchful'
  <1>1. WellTyped /\ Histories  BY DEF Watchful
  <1>2. /\ closed' = "key" /\ objects' = <<>> /\ shown' = 0 /\ resuming' = NoDialog /\ turnIds' = turnIds
        /\ tasks' = [s \in Sessions |-> None] /\ calls' = [s \in Sessions |-> [k \in Kinds |-> NoCall]]
    BY DEF Close
  <1>3. DOMAIN runs = 1 .. Len(runs) /\ Len(runs) \in Nat /\ \A r \in DOMAIN runs : runs[r] \in RunRow
    BY <1>1, RunTypes
  <1>4. ASSUME NEW r \in DOMAIN runs
        PROVE  /\ runs'[r] \in RunRow /\ runs'[r].session = runs[r].session
               /\ runs'[r].log = runs[r].log /\ runs[r].log \in Nat
               /\ runs[r].at = "ended" => runs'[r].at = "ended"
    <2>1. runs[r] \in RunRow  BY <1>3
    <2>2. runs'[r] = IF Running(r) THEN Run(runs[r].session, "interrupted", runs[r].log) ELSE runs[r]
      BY DEF Close
    <2>3. CASE ~Running(r)  BY <2>1, <2>2, <2>3 DEF RunRow
    <2>4. CASE Running(r)
      <3>1. runs'[r] = [session |-> runs[r].session, at |-> "interrupted", log |-> runs[r].log, stop |-> FALSE]
        BY <2>2, <2>4 DEF Run
      <3>2. runs[r].at # "ended"  BY <2>4 DEF Running
      <3> QED  BY <2>1, <3>1, <3>2 DEF RunRow
    <2> QED  BY <2>3, <2>4
  <1>5. runs' \in [1 .. Len(runs) -> RunRow]
    <2>1. runs' = [r \in DOMAIN runs |-> runs'[r]]  BY DEF Close
    <2> QED  BY <1>3, <1>4, <2>1
  <1>6. runs' \in Seq(RunRow) /\ DOMAIN runs' = DOMAIN runs  BY <1>3, <1>5, FunctionIsSeq
  <1>7. RunsGoOn  BY <1>4, <1>6 DEF RunsGoOn, GoesOn
  <1>8. Histories'  BY <1>1, <1>2, <1>7, HistoriesGoOn
  <1>9. NoCall \in Call /\ NoCall.at = "idle"  BY DEF NoCall, Call
  <1>10. NoDialog.at = "idle" /\ NoDialog \in [at : {"idle", "listed", "asking"}, obj : Nat]  BY DEF NoDialog
  <1>11. WellTyped'
    <2>1. calls' \in [Sessions -> [Kinds -> Call]] /\ tasks' \in [Sessions -> Kinds \cup {None}]
      BY <1>2, <1>9
    <2> QED  BY <1>1, <1>2, <1>6, <1>10, <2>1 DEF WellTyped
  <1>12. Copies' /\ Settled'  BY <1>2 DEF Copies, Settled
  <1>13. Engaged'
    <2>1. \A s \in Sessions, k \in Kinds : calls'[s][k].at = "idle" /\ tasks'[s] # k
      BY <1>2, <1>9 DEF None, Kinds
    <2> QED  BY <2>1 DEF Engaged
  <1>14. Screen'  BY <1>2, <1>10 DEF Screen, Open, Overlay
  <1> QED  BY <1>8, <1>11, <1>12, <1>13, <1>14 DEF Watchful

LEMMA ExitStep == ASSUME Watchful, NEW key, Exit(key) PROVE Watchful'
  <1>1. CASE Close  BY <1>1, CloseStep
  <1>2. CASE Same /\ UNCHANGED closed
    <2>1. UNCHANGED <<runs, turnIds, objects, shown, tasks, calls, resuming, closed>>
      BY <1>2 DEF Same, runtime, held
    <2> QED  BY <2>1, NothingChanges
  <1> QED  BY <1>1, <1>2 DEF Exit

\* The keys that stop turns, that close the terminal, and the others.
LEMMA KeySteps ==
    ASSUME Watchful, Expire \/ Dismiss \/ Escape \/ AnyKey \/ CtrlC \/ CtrlD \/ StopAll
    PROVE  Watchful'
  <1>1. CASE Expire \/ Dismiss \/ AnyKey
    <2>1. UNCHANGED <<runs, turnIds, objects, shown, tasks, calls, resuming, closed>>
      BY <1>1 DEF Expire, Dismiss, AnyKey, Same, runtime, held
    <2> QED  BY <2>1, NothingChanges
  <1>2. ASSUME Open, Task # None, Stop({Visible}), UNCHANGED closed PROVE Watchful'
    <2>1. Visible \in Sessions  BY <1>2, OnScreen
    <2>2. {Visible} \in SUBSET Sessions /\ \A s \in {Visible} : tasks[s] # None  BY <1>2, <2>1 DEF Task
    <2> QED  BY <1>2, <2>2, StopStep
  <1>3. CASE Escape  BY <1>2, <1>3 DEF Escape, Key
  <1>4. CASE CtrlC
    <2>1. CASE Task # None  BY <1>2, <1>4, <2>1 DEF CtrlC, Key
    <2>2. CASE Task = None  BY <1>4, <2>2, ExitStep DEF CtrlC
    <2> QED  BY <2>1, <2>2
  <1>5. CASE CtrlD  BY <1>5, ExitStep DEF CtrlD
  <1>6. CASE StopAll
    <2>1. PICK targets : targets = {s \in Sessions : tasks[s] # None}  OBVIOUS
    <2>2. targets \in SUBSET Sessions /\ \A s \in targets : tasks[s] # None  BY <2>1
    <2>3. Stop(targets) /\ UNCHANGED closed  BY <1>6, <2>1 DEF StopAll
    <2> QED  BY <2>2, <2>3, StopStep
  <1> QED  BY <1>1, <1>3, <1>4, <1>5, <1>6

LEMMA PlainEndsStep == ASSUME Watchful, PlainEnds PROVE Watchful'
  <1>1. UNCHANGED <<runs, turnIds, objects, shown, tasks, calls, resuming, closed>>
    BY DEF PlainEnds, PlainOnly, runtime, held
  <1> QED  BY <1>1, NothingChanges

LEMMA InitWatchful == ASSUME Init PROVE Watchful
  <1>1. PICK s \in Sessions \ {First} :
          /\ turnIds = [u \in Sessions |-> CASE u = s -> <<>>
                                             [] u = First /\ runs # <<>> -> << 1 >>
                                             [] OTHER -> << 0 >>]
          /\ objects = <<[session |-> s, turns |-> <<>>]>>
    BY DEF Init
  <1>2. /\ closed \in {"open", "plain"} /\ shown = 1 /\ tasks = [u \in Sessions |-> None]
        /\ calls = [u \in Sessions |-> [k \in Kinds |-> NoCall]] /\ resuming = NoDialog
        /\ closed = "plain" => runs # <<>>
    <2>1. /\ closed \in {"open", "plain"} /\ shown = 1 /\ tasks = [u \in Sessions |-> None]
          /\ calls = [u \in Sessions |-> [k \in Kinds |-> NoCall]] /\ resuming = NoDialog
      BY DEF Init
    <2>2. \A x : <<x>> # <<>>  OBVIOUS
    <2>3. closed = "plain" => \E x : runs = <<x>>  BY DEF Init
    <2> QED  BY <2>1, <2>2, <2>3
  <1>3. First \in Sessions /\ First # s  BY <1>1, TerminalAssumption
  <1>4. PICK row : /\ runs = <<>> \/ runs = <<row>>
                   /\ row \in RunRow /\ row.session = First /\ row.at \in {"ended", "interrupted"}
    <2>1. Run(First, "interrupted", 1) \in RunRow /\ Run(First, "ended", 1) \in RunRow
      BY <1>3 DEF Run, RunRow
    <2>2. PICK one, two : one = Run(First, "interrupted", 1) /\ two = Run(First, "ended", 1)  OBVIOUS
    <2>3. /\ one \in RunRow /\ one.session = First /\ one.at = "interrupted"
          /\ two \in RunRow /\ two.session = First /\ two.at = "ended"
      BY <2>1, <2>2 DEF Run
    <2>4. runs = <<one>> \/ runs = <<two>> \/ runs = <<>>  BY <2>2 DEF Init
    <2> QED  BY <2>3, <2>4
  <1>5. runs \in Seq(RunRow)
    <2>1. <<row>> \in Seq(RunRow) /\ <<>> \in Seq(RunRow)  BY <1>4
    <2> QED  BY <1>4, <2>1
  <1>6. /\ turnIds[s] = <<>> /\ \A u \in Sessions \ {s, First} : turnIds[u] = << 0 >>
        /\ turnIds[First] = IF runs # <<>> THEN << 1 >> ELSE << 0 >>
    BY <1>1, <1>3
  <1>7. turnIds \in [Sessions -> Seq(Nat)]
    <2>1. <<>> \in Seq(Nat) /\ << 1 >> \in Seq(Nat) /\ << 0 >> \in Seq(Nat)  OBVIOUS
    <2>2. \A u \in Sessions : turnIds[u] \in Seq(Nat)  BY <1>6, <2>1
    <2>3. turnIds = [u \in Sessions |-> turnIds[u]]  BY <1>1
    <2> QED  BY <2>2, <2>3
  <1>8. PICK object : object = [session |-> s, turns |-> <<>>]  OBVIOUS
  <1>9. object \in Conversation /\ objects = <<object>> /\ object.session = s /\ object.turns = <<>>
    <2>1. <<>> \in Seq(TurnCopy)  OBVIOUS
    <2> QED  BY <1>1, <1>8, <2>1 DEF Conversation
  <1>10. objects \in Seq(Conversation) /\ DOMAIN objects = {1} /\ objects[1] = object  BY <1>9
  <1>11. NoCall \in Call /\ NoCall.at = "idle"  BY DEF NoCall, Call
  <1>12. NoDialog.at = "idle" /\ NoDialog \in [at : {"idle", "listed", "asking"}, obj : Nat]  BY DEF NoDialog
  <1>13. WellTyped
    <2>1. calls \in [Sessions -> [Kinds -> Call]] /\ tasks \in [Sessions -> Kinds \cup {None}]
      BY <1>2, <1>11
    <2> QED  BY <1>2, <1>5, <1>7, <1>10, <1>12, <2>1 DEF WellTyped
  <1>14. Histories
    <2> SUFFICES ASSUME NEW u \in Sessions, Created(u), NEW i \in DOMAIN turnIds[u]
                 PROVE  /\ turnIds[u][i] \in DOMAIN runs
                        /\ \/ runs[turnIds[u][i]].at = "ended"
                           \/ i = Len(turnIds[u]) /\ runs[turnIds[u][i]].session = u
      BY DEF Histories
    <2>1. CASE u = s  BY <1>6, <2>1
    <2>2. CASE u = First
      <3>1. turnIds[u] = << 1 >> /\ runs = <<row>>  BY <1>4, <1>6, <2>2 DEF Created
      <3>2. i = 1 /\ Len(turnIds[u]) = 1 /\ turnIds[u][i] = 1  BY <3>1
      <3>3. 1 \in DOMAIN runs /\ runs[1] = row  BY <3>1
      <3> QED  BY <1>4, <2>2, <3>2, <3>3
    <2>3. CASE u \notin {s, First}  BY <1>6, <2>3 DEF Created
    <2> QED  BY <2>1, <2>2, <2>3
  <1>15. turnIds[s] # << 0 >>  BY <1>6
  <1>16. Copies /\ Settled  BY <1>9, <1>10, <1>15 DEF Copies, Settled, Created
  <1>17. Engaged
    <2>1. \A u \in Sessions, k \in Kinds : calls[u][k].at = "idle" /\ tasks[u] # k
      BY <1>2, <1>11 DEF None, Kinds
    <2> QED  BY <2>1 DEF Engaged
  <1>18. Screen
    <2>1. Visible = s /\ Task = None  BY <1>1, <1>2, <1>9, <1>10 DEF Visible, Task
    <2>2. Current(shown)
      <3>1. Len(object.turns) = Len(turnIds[s])  BY <1>6, <1>9
      <3> QED  BY <1>2, <1>9, <1>10, <3>1 DEF Current
    <2>3. closed = "plain" => Created(First) /\ turnIds[First] # <<>>
      <3>1. closed = "plain" => turnIds[First] = << 1 >>  BY <1>2, <1>6
      <3> QED  BY <3>1 DEF Created
    <2>4. \A o \in DOMAIN objects : objects[o].turns = <<>>  BY <1>9, <1>10
    <2>5. \A u \in Sessions : tasks[u] = None  BY <1>2
    <2> QED  BY <1>2, <1>10, <1>12, <2>1, <2>2, <2>3, <2>4, <2>5 DEF Screen, Overlay
  <1> QED  BY <1>13, <1>14, <1>16, <1>17, <1>18 DEF Watchful

LEMMA NextWatchful == ASSUME Watchful, [Next]_vars PROVE Watchful'
  <1>1. CASE UNCHANGED vars
    <2>1. UNCHANGED <<runs, turnIds, objects, shown, tasks, calls, resuming, closed>>
      BY <1>1 DEF vars, runtime, held
    <2> QED  BY <2>1, NothingChanges
  <1>2. CASE RunEmits \/ RunEnds  BY <1>2, EmitsStep, EndsStep
  <1>3. CASE \E s \in Sessions, k \in Kinds : CallStep(s, k) \/ Breaks(s, k)
    <2>1. PICK s \in Sessions, k \in Kinds : CallStep(s, k) \/ Breaks(s, k)  BY <1>3
    <2>2. CASE Answer(s) \/ Refused(s) \/ StopAnswered(s)  BY <2>2, AnswerStep, RefusedStep, StopAnsweredStep
    <2>3. CASE Observe(s, k) \/ Observed(s, k) \/ Breaks(s, k)
      BY <2>3, ObserveStep, ObservedStep, BreaksStep
    <2> QED  BY <2>1, <2>2, <2>3 DEF CallStep
  <1>4. CASE Submit \/ Fresh \/ Fork \/ Pick \/ ResumeTurn
    BY <1>4, SubmitStep, FreshStep, ForkStep, PickStep, ResumeTurnStep
  <1>5. CASE View \/ Leave("listed")  BY <1>5, ViewTurnStep, LeaveStep
  <1>6. CASE \E s \in Sessions : List(s)  BY <1>6, ListStep
  <1>7. CASE Expire \/ Dismiss \/ Escape \/ AnyKey \/ CtrlC \/ CtrlD \/ StopAll  BY <1>7, KeySteps
  <1>8. CASE PlainStart \/ PlainResume \/ PlainSteps \/ Interrupt
    BY <1>8, PlainStartStep, PlainResumeStep, PlainWatchStep, PlainEndsStep DEF PlainSteps
  <1> QED  BY <1>1, <1>2, <1>3, <1>4, <1>5, <1>6, <1>7, <1>8 DEF Next

\* Whichever of submit, resume and replay filled it, each copy of a turn holds the first events
\* of its run, each once and in order, and one that is over on the screen holds them all unless
\* the stream of its own observer had ended before the last of them came: for every number of
\* conversations, of turns, of events and of copies.
THEOREM TurnsStayWhole == Spec => []TurnsAreWhole
  <1>1. Init => Watchful  BY InitWatchful
  <1>2. Watchful /\ [Next]_vars => Watchful'  BY NextWatchful
  <1>3. Watchful => TurnsAreWhole
    <2> SUFFICES ASSUME Watchful, NEW o \in DOMAIN objects, NEW i \in DOMAIN objects[o].turns,
                        NEW t, t = objects[o].turns[i]
                 PROVE  /\ \A n \in DOMAIN t.events : t.events[n] = n
                        /\ t.run # 0 => Len(t.events) <= runs[t.run].log
                        /\ AtRest(o) /\ t.run # 0 /\ t.over /\ ~t.cut /\ runs[t.run].at = "ended"
                           => Len(t.events) = runs[t.run].log
      BY DEF TurnsAreWhole
    <2>1. IsCopy(t, objects[o].session, i)  BY DEF Watchful, Copies
    <2>2. AtRest(o) => IsSettled(t)  BY DEF Watchful, Settled, AtRest, Live
    <2> QED  BY <2>1, <2>2 DEF IsCopy, IsSettled
  <1> QED  BY <1>1, <1>2, <1>3, PTL DEF Spec

\* A key closes the terminal only when the last key for exit was answered by the warning for
\* this very key.
THEOREM ExitIsAnnounced == Spec => []ExitWasAnnounced
  <1>1. Init => Announced
    BY DEF Init, Announced, ExitWasAnnounced
  <1>2. Announced /\ [Next]_vars => Announced'
    <2> SUFFICES ASSUME Announced, [Next]_vars PROVE Announced'  OBVIOUS
    <2>1. ASSUME UNCHANGED <<closed, exit, warned>> PROVE Announced'
      BY <2>1 DEF Announced, ExitWasAnnounced
    <2>2. ASSUME Open, UNCHANGED closed, exit' = None PROVE Announced'
      BY <2>2 DEF Announced, ExitWasAnnounced, Open
    <2>3. CASE UNCHANGED vars  BY <2>1, <2>3 DEF vars, keyboard
    <2>4. CASE RunEmits \/ RunEnds  BY <2>1, <2>4 DEF RunEmits, RunEnds, keyboard
    <2>5. CASE \E s \in Sessions, k \in Kinds : CallStep(s, k) \/ Breaks(s, k)
      <3>1. PICK s \in Sessions, k \in Kinds : CallStep(s, k) \/ Breaks(s, k)  BY <2>5
      <3>2. CallOnly
        BY Zenon, <3>1 DEF CallStep, Breaks, Answer, Refused, StopAnswered, Observe, Observed
      <3> QED  BY Zenon, <2>1, <3>2 DEF CallOnly, keyboard
    <2>6. CASE Submit \/ Fresh \/ Fork \/ \E s \in Sessions : List(s)
      <3>1. Command  BY Zenon, <2>6 DEF Submit, Fresh, Fork, List
      <3> QED  BY <2>2, <3>1 DEF Command, Typed
    <2>7. CASE Pick \/ ResumeTurn \/ View \/ Leave("listed")
      <3>1. PICK at : Dialog(at)  BY Zenon, <2>7 DEF Pick, ResumeTurn, View, Leave
      <3> QED  BY <2>2, <3>1 DEF Dialog, ToOverlay
    <2>8. CASE Expire \/ Dismiss \/ Escape \/ AnyKey \/ StopAll
      BY <2>2, <2>8 DEF Expire, Dismiss, Escape, AnyKey, StopAll, Key, Typed, ToOverlay
    <2>9. ASSUME Open, NEW key, key # None, Exit(key) PROVE Announced'
      <3>1. CASE exit = key /\ Close
        BY <2>9, <3>1 DEF Close, keyboard, Announced, ExitWasAnnounced
      <3>2. CASE exit' = key /\ warned' = key /\ UNCHANGED closed
        BY <2>9, <3>2 DEF Announced, ExitWasAnnounced, Open
      <3> QED  BY <2>9, <3>1, <3>2 DEF Exit
    <2>10. CASE CtrlC
      <3>1. CASE Task # None  BY <2>2, <2>10, <3>1 DEF CtrlC, Key, StopPress
      <3>2. CASE Task = None  BY <2>9, <2>10, <3>2 DEF CtrlC, Key, None
      <3> QED  BY <3>1, <3>2
    <2>11. CASE CtrlD  BY <2>9, <2>11 DEF CtrlD, Key, None
    <2>12. CASE PlainStart \/ PlainResume \/ PlainSteps \/ Interrupt
      <3>1. PlainOnly  BY <2>12 DEF PlainStart, PlainResume, PlainSteps, PlainWatch, PlainEnds, Interrupt
      <3> QED  BY <2>1, <3>1 DEF PlainOnly, keyboard
    <2> QED  BY <2>3, <2>4, <2>5, <2>6, <2>7, <2>8, <2>10, <2>11, <2>12 DEF Next
  <1>3. Announced => ExitWasAnnounced  BY DEF Announced
  <1> QED  BY <1>1, <1>2, <1>3, PTL DEF Spec
------------------------------------------------------------------------------
(* The stream of events that a turn is followed by, for any consumers and any  *)
(* number of events (EventStream). It has a state of its own, from which the   *)
(* terminal takes what arrives and when.                                       *)

\* The rows of a turn are numbered from 0 without a gap.
Numbered == \E n \in Nat : log = 0 .. n

\* What a generator holds: it has sent what lies between its cursors, and its batch, which
\* may be older than the log, is what follows on from there.
Generator ==
  [at : {"idle", "done", "left"} \cup Suspended, from : Int, after : Int,
   batch : SUBSET Int, woken : BOOLEAN, aborted : BOOLEAN, sent : Seq(Int)]
Delivers(k) ==
  /\ k \in Generator
  /\ k.after >= -1
  /\ k.from + Len(k.sent) = k.after
  /\ \A i \in 1 .. Len(k.sent) : k.sent[i] = k.from + i
  /\ \E m \in Int : k.batch = k.after + 1 .. m
  /\ k.at = "idle" => k.sent = <<>> /\ ~k.aborted

Following ==
  /\ Numbered
  /\ reader \in [Readers -> Generator]
  /\ \A r \in Readers : Delivers(reader[r])
-----------------------------------------------------------------------------
LEMMA MinOfInterval == ASSUME NEW a \in Int, NEW b \in Int, a <= b PROVE Min(a .. b) = a
  <1>1. a \in a .. b /\ \A y \in a .. b : a =< y  OBVIOUS
  <1>2. \A x \in a .. b : (\A y \in a .. b : x =< y) => x = a  BY <1>1
  <1> QED  BY <1>1, <1>2 DEF Min

LEMMA MaxOfInterval == ASSUME NEW a \in Int, NEW b \in Int, a <= b PROVE Max(a .. b) = b
  <1>1. b \in a .. b /\ \A y \in a .. b : b >= y  OBVIOUS
  <1>2. \A x \in a .. b : (\A y \in a .. b : x >= y) => x = b  BY <1>1
  <1> QED  BY <1>1, <1>2 DEF Max

\* One turn of the generator's loop: an event that is sent is the next one.
LEMMA DrainDelivers == ASSUME NEW k, Delivers(k) PROVE Delivers(Drain(k))
  <1>1. CASE k.batch = {}
    <2>1. \E at \in {"done", "waiting"} : Drain(k) = [k EXCEPT !.at = at]  BY <1>1 DEF Drain
    <2> QED  BY <2>1 DEF Delivers, Generator, Suspended
  <1>2. CASE k.batch # {}
    <2>1. PICK m \in Int : k.batch = k.after + 1 .. m  BY DEF Delivers
    <2>2. k.after \in Int /\ k.sent \in Seq(Int) /\ k.from \in Int  BY DEF Delivers, Generator
    <2>3. k.after + 1 <= m  BY <1>2, <2>1, <2>2
    <2>4. Min(k.batch) = k.after + 1  BY <2>1, <2>2, <2>3, MinOfInterval
    <2> DEFINE q == k.after + 1
               d == [k EXCEPT !.at = "yielded", !.after = q, !.batch = k.batch \ {q},
                              !.sent = Append(k.sent, q)]
    <2>5. Drain(k) = d  BY <1>2, <2>4 DEF Drain
    <2>6. k.batch \ {q} = q + 1 .. m  BY <2>1, <2>2, <2>3
    <2>7. Append(k.sent, q) \in Seq(Int) /\ Len(Append(k.sent, q)) = Len(k.sent) + 1
      BY <2>2
    <2>8. \A i \in 1 .. Len(Append(k.sent, q)) : Append(k.sent, q)[i] = k.from + i
      <3>1. Len(k.sent) \in Nat /\ q = k.from + Len(k.sent) + 1  BY <2>2 DEF Delivers
      <3>2. ASSUME NEW i \in 1 .. Len(k.sent) PROVE Append(k.sent, q)[i] = k.from + i
        BY <2>2, <3>2 DEF Delivers
      <3>3. Append(k.sent, q)[Len(k.sent) + 1] = q  BY <2>2
      <3> HIDE DEF q
      <3>4. ASSUME NEW i \in 1 .. Len(k.sent) + 1 PROVE Append(k.sent, q)[i] = k.from + i
        <4>1. i \in 1 .. Len(k.sent) \/ i = Len(k.sent) + 1  BY <3>1
        <4>2. k.from + (Len(k.sent) + 1) = q  BY <2>2, <3>1
        <4> QED  BY <3>2, <3>3, <4>1, <4>2
      <3> QED  BY <2>7, <3>4
    <2>9. d \in Generator
      <3>1. k \in Generator /\ q \in Int  BY <2>2 DEF Delivers
      <3>2. k.batch \ {q} \in SUBSET Int  BY <3>1 DEF Generator
      <3> HIDE DEF q
      <3> QED  BY <2>7, <3>1, <3>2 DEF Generator, Suspended
    <2>10. d.from = k.from /\ d.after = q /\ d.batch = q + 1 .. m /\ d.at = "yielded"
           /\ d.sent = Append(k.sent, q)
      BY <2>6 DEF Delivers, Generator
    <2>11. k.from + Len(Append(k.sent, q)) = q  BY <2>2, <2>7, LenProperties DEF Delivers
    <2>12. q >= -1  BY <2>2 DEF Delivers
    <2> HIDE DEF d, q
    <2>13. Delivers(d)  BY <2>8, <2>9, <2>10, <2>11, <2>12 DEF Delivers
    <2> QED  BY <2>5, <2>13
  <1> QED  BY <1>1, <1>2

\* A new batch is all that follows on from the cursor.
LEMMA LoopDelivers == ASSUME NEW k, Delivers(k), Numbered PROVE Delivers(Loop(k))
  <1>1. PICK n \in Nat : log = 0 .. n  BY DEF Numbered
  <1>2. k.after \in Int /\ k.after >= -1  BY DEF Delivers, Generator
  <1>3. Unread(k) = k.after + 1 .. n  BY <1>1, <1>2 DEF Unread
  <1>4. Delivers([k EXCEPT !.woken = FALSE, !.batch = Unread(k)])
    <2> DEFINE d == [k EXCEPT !.woken = FALSE, !.batch = Unread(k)]
    <2>1. Unread(k) \in SUBSET Int  BY <1>2, <1>3
    <2>2. k \in Generator  BY DEF Delivers
    <2>3. d \in Generator  BY <2>1, <2>2 DEF Generator
    <2>4. d.at = k.at /\ d.aborted = k.aborted /\ d.from = k.from /\ d.after = k.after
          /\ d.sent = k.sent /\ d.batch = k.after + 1 .. n
      BY <1>3, <2>2 DEF Generator
    <2> HIDE DEF d
    <2>5. \E m \in Int : d.batch = d.after + 1 .. m  BY <2>4
    <2>6. Delivers(d)  BY <2>3, <2>4, <2>5 DEF Delivers
    <2> QED  BY <2>6 DEF d
  <1>5. Delivers([k EXCEPT !.at = "done"])  BY DEF Delivers, Generator
  <1> QED  BY <1>4, <1>5, DrainDelivers DEF Loop

LEMMA SubscribeDelivers ==
  ASSUME NEW k, Delivers(k), k.at = "idle", Numbered, NEW from \in {-1} \cup log
  PROVE  Delivers(Loop([k EXCEPT !.from = from, !.after = from]))
  <1>1. from \in Int /\ from >= -1  BY DEF Numbered
  <1>2. k \in Generator /\ k.sent = <<>>  BY DEF Delivers
  <1> DEFINE d == [k EXCEPT !.from = from, !.after = from]
             e == [d EXCEPT !.batch = {}]
  <1>3. d \in Generator /\ d.aborted = k.aborted /\ d.after = from  BY <1>1, <1>2 DEF Generator
  <1>4. e \in Generator /\ e.from = from /\ e.after = from /\ e.sent = <<>> /\ e.batch = {}
    BY <1>1, <1>2 DEF Generator
  <1>5. [e EXCEPT !.woken = FALSE, !.batch = Unread(e)]
          = [d EXCEPT !.woken = FALSE, !.batch = Unread(d)]
    BY <1>3, <1>4 DEF Generator, Unread
  <1>6. ~e.aborted  BY <1>2 DEF Delivers, Generator
  <1>7. Delivers(e)
    <2>1. {} = from + 1 .. from  BY <1>1
    <2> HIDE DEF e
    <2> QED  BY <1>1, <1>4, <1>6, <2>1 DEF Delivers
  <1>8. e.aborted = d.aborted  BY <1>2 DEF Generator
  <1> HIDE DEF d
  <1>9. Delivers(Loop(e))  BY <1>7, LoopDelivers
  <1>10. Loop(d) = Loop(e)  BY <1>5, <1>6, <1>8 DEF Loop
  <1> QED  BY <1>9, <1>10 DEF d

\* Rows are appended behind the newest.
LEMMA AppendNumbers == ASSUME NEW n \in Nat, Numbered, AppendEvents(n) PROVE Numbered'
  <1>1. PICK m \in Nat : log = 0 .. m  BY DEF Numbered
  <1>2. Max(log) = m  BY <1>1, MaxOfInterval
  <1>3. log' = 0 .. m \cup (m + 1 .. m + n)  BY <1>1, <1>2 DEF AppendEvents
  <1>4. log' = 0 .. m + n  BY <1>3
  <1> QED  BY <1>4 DEF Numbered
-----------------------------------------------------------------------------
LEMMA InitFollowing == StreamInit => Following
  <1> SUFFICES ASSUME StreamInit PROVE Following  OBVIOUS
  <1>1. Numbered
    <2>1. CASE log = 0 .. 1  BY <2>1 DEF Numbered
    <2>2. ASSUME NEW n \in 1 .. MaxRows - 1, log = 0 .. n PROVE Numbered
      BY <2>2, EventsAssumption DEF Numbered
    <2> QED  BY <2>1, <2>2 DEF StreamInit
  <1>2. NotStarted.batch = NotStarted.after + 1 .. -1  BY DEF NotStarted
  <1>3. Delivers(NotStarted)  BY <1>2 DEF Delivers, NotStarted, Generator, Suspended
  <1>4. NotStarted \in Generator  BY <1>3 DEF Delivers
  <1>5. StreamInit => reader = [r \in Readers |-> NotStarted]  BY DEF StreamInit
  <1> HIDE DEF NotStarted
  <1>6. reader \in [Readers -> Generator] /\ \A r \in Readers : Delivers(reader[r])
    BY <1>3, <1>4, <1>5
  <1> QED  BY <1>1, <1>6 DEF Following

\* A step of one reader.
LEMMA OneReader ==
  ASSUME Following, NEW r \in Readers, NEW k, Delivers(k), reader' = [reader EXCEPT ![r] = k],
         UNCHANGED log
  PROVE  Following'
  <1>1. Numbered'  BY DEF Following, Numbered
  <1>2. k \in Generator  BY DEF Delivers
  <1>3. reader \in [Readers -> Generator]  BY DEF Following
  <1>4. reader' \in [Readers -> Generator]  BY <1>2, <1>3
  <1>5. ASSUME NEW u \in Readers PROVE Delivers(reader'[u])
    <2>1. reader'[u] = IF u = r THEN k ELSE reader[u]  BY <1>3
    <2>2. Delivers(reader[u])  BY DEF Following
    <2> QED  BY <2>1, <2>2
  <1> QED  BY <1>1, <1>4, <1>5 DEF Following

LEMMA NotifyFollowing == ASSUME Following, Notify, Numbered' PROVE Following'
  <1>1. ASSUME NEW k, Delivers(k) PROVE Delivers([k EXCEPT !.woken = TRUE])
    BY <1>1 DEF Delivers, Generator
  <1>2. ASSUME NEW r \in Readers PROVE Delivers(reader'[r])
    <2>1. reader'[r] = reader[r] \/ reader'[r] = [reader[r] EXCEPT !.woken = TRUE]
      BY DEF Notify
    <2>2. Delivers(reader[r])  BY DEF Following
    <2> QED  BY <1>1, <2>1, <2>2
  <1>3. ASSUME NEW r \in Readers PROVE reader'[r] \in Generator  BY <1>2 DEF Delivers
  <1>4. reader' \in [Readers -> Generator]  BY <1>3 DEF Notify
  <1> QED  BY <1>2, <1>4 DEF Following

LEMMA ConsumerFollowing == ASSUME Following, NEW r \in Readers, Consumer(r) PROVE Following'
  <1> Delivers(reader[r]) /\ Numbered  BY DEF Following
  <1>1. CASE \E from \in {-1} \cup log : Subscribe(r, from)
    BY <1>1, SubscribeDelivers, OneReader DEF Subscribe, Following
  <1>2. CASE Pull(r)  BY <1>2, DrainDelivers, OneReader DEF Pull, Following
  <1>3. CASE WakeUp(r)  BY <1>3, LoopDelivers, OneReader DEF WakeUp, Following
  <1>4. CASE Unsubscribe(r)
    <2>1. Delivers([reader[r] EXCEPT !.at = "left"])  BY DEF Delivers, Generator
    <2> QED  BY <1>4, <2>1, OneReader DEF Unsubscribe, Following
  <1>5. CASE AbortReader(r)
    <2>1. Delivers([reader[r] EXCEPT !.aborted = TRUE, !.woken = TRUE])
      BY <1>5 DEF AbortReader, Suspended, Delivers, Generator
    <2> QED  BY <1>5, <2>1, OneReader DEF AbortReader, Following
  <1> QED  BY <1>1, <1>2, <1>3, <1>4, <1>5 DEF Consumer

LEMMA NextFollowing == Following /\ [StreamNext]_streamVars => Following'
  <1> SUFFICES ASSUME Following, [StreamNext]_streamVars PROVE Following'  OBVIOUS
  <1> Numbered  BY DEF Following
  <1>1. CASE UNCHANGED streamVars  BY <1>1 DEF streamVars, Following, Numbered, Delivers
  <1>2. ASSUME NEW r \in Readers, Consumer(r) PROVE Following'  BY <1>2, ConsumerFollowing
  <1>3. ASSUME NEW n \in 1 .. 2, Commit(n) PROVE Following'
    <2>1. Numbered'  BY <1>3, AppendNumbers DEF Commit
    <2> QED  BY <1>3, <2>1 DEF Commit, Following
  <1>4. CASE Announce
    <2>1. Numbered'  BY <1>4 DEF Announce, Numbered
    <2> QED  BY <1>4, <2>1, NotifyFollowing DEF Announce
  <1>5. CASE Finish
    <2>1. Numbered'  BY <1>5, AppendNumbers DEF Finish
    <2> QED  BY <1>5, <2>1, NotifyFollowing DEF Finish
  <1>6. CASE Release
    <2>1. Numbered'  BY <1>6 DEF Release, Numbered
    <2> QED  BY <1>6, <2>1, NotifyFollowing DEF Release
  <1>7. CASE Resume
    <2>1. Numbered'  BY <1>7, AppendNumbers DEF Resume
    <2> QED  BY <1>7, <2>1, NotifyFollowing DEF Resume
  <1>8. CASE CloseRuntime
    <2>1. Numbered'  BY <1>8 DEF CloseRuntime, Numbered
    <2> QED  BY <1>8, <2>1, NotifyFollowing DEF CloseRuntime
  <1> QED  BY <1>1, <1>2, <1>3, <1>4, <1>5, <1>6, <1>7, <1>8 DEF StreamNext

\* A consumer gets the events after its cursor one by one, in commit order, none twice and
\* none left out, for any number of consumers and events.
THEOREM DeliveredInOrder == StreamSpec => []InOrder
  <1>1. Following => InOrder
    <2> SUFFICES ASSUME Following, NEW r \in Readers, NEW i \in DOMAIN reader[r].sent
                 PROVE  reader[r].sent[i] = reader[r].from + i
      BY DEF InOrder
    <2>1. Delivers(reader[r])  BY DEF Following
    <2>2. reader[r].sent \in Seq(Int)  BY DEF Following, Generator
    <2>3. i \in 1 .. Len(reader[r].sent)  BY <2>2, LenProperties
    <2> QED  BY <2>1, <2>3 DEF Delivers
  <1> QED  BY <1>1, InitFollowing, NextFollowing, PTL DEF StreamSpec
=============================================================================
