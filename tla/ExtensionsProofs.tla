-------------------------- MODULE ExtensionsProofs --------------------------
(* Proofs about the line of mutations, for any models, levels and number of   *)
(* operations: what commits, what a flush has waited for, what a dispatch     *)
(* finds in the lane and what the getters show.                               *)
EXTENDS Extensions, SequenceTheorems, TLAPS

Operations ==
    {op \in [kind : {"plain", "level", "model", "recover"}, model : Models \cup {None},
             level : AllLevels \cup {None}, intent : Nat] :
        /\ op.kind = "model" => op.model \in Models
        /\ op.kind = "level" => op.level \in AllLevels}
Configurations == [model : Models, level : AllLevels]
Changes ==
    {c \in [status : {None, "accepted", "applied"}, model : Models \cup {None},
            level : AllLevels \cup {None}] :
        c.status # None => c.model \in Models /\ c.level \in AllLevels}
Views == [model : Models \cup {None}, level : AllLevels \cup {None}, next : Nat, projected : Nat]

Refreshes == [by : {None, "hook", "event"}, model : Models \cup {None}, level : AllLevels \cup {None},
              since : Nat, n : Nat]
Notifications == [op : Nat \ {0}, at : {"waiting", "nested"}, on : Nat]
Waits == [at : {"idle", "waiting", "returned", "failed"}, observed : Nat, notes : SUBSET Nat]

TypeOK ==
    /\ preference \in [Reasoning -> Levels \cup {None}]
    /\ lane \in Configurations /\ whole \in Configurations /\ change \in Changes
    /\ up \in {"down", "starting", "open", "closed"}
    /\ ops \in Seq(Operations) /\ settled \in Nat /\ done \in Seq(Nat) /\ failure \in BOOLEAN
    /\ step \in {"queued", "accepted", "model", "level", "applied"}
    /\ view \in Views
    /\ up \in {"open", "closed"} => view.model \in Models /\ view.level \in AllLevels
    /\ refresh \in Refreshes /\ torn \in BOOLEAN
    /\ notes \subseteq Notifications
    /\ drain \in [Drains -> Waits]

\* Until the first failure everything that settles has committed; after it at most the
\* operation that runs does.
InLine ==
    /\ settled <= Staged
    /\ Len(done) <= settled /\ (~failure \/ step # "queued" => Len(done) = settled)
    /\ CommitsInOrder
    /\ step # "queued" => settled < Staged /\ ops[settled + 1].kind \in {"model", "recover"}
    /\ \A i \in DOMAIN ops : ops[i].kind = "recover" <=> i = 1
    /\ up = "down" => Staged = 0
    /\ up = "starting" => Staged = 1
    /\ up = "open" /\ ~failure => settled >= 1
    /\ \A note \in notes : note.op <= Staged

\* The lane is half changed only between the commits of an accepted change.
Whole ==
    /\ change.status # "accepted" => lane = whole
    /\ step \in {"accepted", "model", "level"} => change.status = "accepted"
    /\ step = "applied" => change.status = "applied"

\* Intents are numbered in the order of staging.
Intents ==
    /\ view.projected <= view.next
    /\ \A i \in DOMAIN ops : ops[i].kind = "model" =>
         /\ ops[i].intent <= view.next
         /\ \A k \in DOMAIN ops : i < k /\ ops[k].kind = "model" => ops[i].intent <= ops[k].intent

\* What has been read in a drained line is what the lane has.
Reads ==
    refresh.by # None =>
      /\ refresh.since <= settled
      /\ refresh.since = Staged => /\ refresh.model # None => refresh.model = lane.model
                                   /\ refresh.level # None => refresh.level = lane.level

\* The level shown is that of the last level staged, unless the last refresh was not drained;
\* a model change that is still to come shows its own exactly if no level has been staged
\* behind it.
LevelAfter(n) == \E j \in DOMAIN ops : n < j /\ ops[j].kind = "level"
Shown ==
    up = "open" /\ ~failure /\ ~torn =>
      /\ IF step \in {"model", "level", "applied"} THEN lane.model = change.model
                                                   ELSE view.model = lane.model
      /\ \A i \in DOMAIN ops :
           settled < i /\ ops[i].kind = "level" /\ ~LevelAfter(i) => view.level = ops[i].level
      /\ ~LevelAfter(settled) =>
           IF step \in {"level", "applied"} THEN lane.level = change.level
                                            ELSE view.level = lane.level
      /\ \A i \in DOMAIN ops :
           settled < i /\ ops[i].kind = "model" =>
             (LevelAfter(i) <=> ops[i].intent < view.projected)

Consistent == TypeOK /\ InLine /\ Whole /\ Intents /\ Reads /\ Shown
------------------------------------------------------------------------------
(* Types                                                                      *)

LEMMA ClampType ==
    ASSUME NEW m, NEW l \in AllLevels \cup {None}
    PROVE  Clamp(m, l) \in AllLevels \cup {None} /\ (l \in AllLevels => Clamp(m, l) \in AllLevels)
  BY DEF Clamp, AllLevels

\* What staging an operation makes of the line.
LEMMA Staging ==
    ASSUME ops \in Seq(Operations), NEW op \in Operations, Stage(op)
    PROVE  /\ ops' \in Seq(Operations)
           /\ Staged \in Nat /\ Staged' = Staged + 1
           /\ DOMAIN ops = 1 .. Staged /\ DOMAIN ops' = 1 .. Staged + 1
           /\ \A i \in DOMAIN ops : ops'[i] = ops[i]
           /\ ops'[Staged + 1] = op
  <1>1. /\ ops' \in Seq(Operations) /\ Len(ops') = Len(ops) + 1
        /\ \A i \in 1 .. Len(ops) : ops'[i] = ops[i]
        /\ ops'[Len(ops) + 1] = op
    BY AppendProperties DEF Stage
  <1>2. Len(ops) \in Nat /\ DOMAIN ops = 1 .. Len(ops) /\ DOMAIN ops' = 1 .. Len(ops')
    BY <1>1, LenProperties
  <1> QED  BY <1>1, <1>2 DEF Staged

\* The operation a setter stages.
LEMMA OpTypes ==
    /\ Op("plain", None, None, 0) \in Operations
    /\ Op("recover", None, None, 0) \in Operations
    /\ \A l \in AllLevels : Op("level", None, l, 0) \in Operations
    /\ \A m \in Models, n \in Nat : Op("model", m, None, n) \in Operations
  BY DEF Op, Operations

\* The next operation is one of the line.
LEMMA NextOperation ==
    ASSUME ops \in Seq(Operations), settled \in Nat, MayRun
    PROVE  /\ Staged \in Nat /\ settled + 1 \in DOMAIN ops /\ settled + 1 <= Staged
           /\ ops[settled + 1] \in Operations
  <1>1. Len(ops) \in Nat /\ DOMAIN ops = 1 .. Len(ops)  BY LenProperties
  <1>2. settled + 1 \in 1 .. Len(ops)  BY <1>1 DEF MayRun, Staged
  <1>3. ops[settled + 1] \in Operations  BY <1>2, ElementOfSeq
  <1> QED  BY <1>1, <1>2, <1>3 DEF Staged

\* The level that comes with a model.
LEMMA LevelForType ==
    ASSUME TypeOK, up \in {"open", "closed"}, NEW m \in Models
    PROVE  LevelFor(m) \in AllLevels
  BY DEF LevelFor, Clamp, TypeOK, AllLevels

\* The kinds that wait while no activation is open are recoveries.
LEMMA OpenKinds ==
    ASSUME TypeOK, InLine, MayRun, ops[settled + 1].kind # "recover"
    PROVE  up \in {"open", "closed"}
  <1>1. Staged \in Nat /\ settled + 1 \in DOMAIN ops /\ settled + 1 <= Staged /\ settled \in Nat
    BY NextOperation DEF TypeOK
  <1>2. settled + 1 # 1  BY <1>1 DEF InLine
  <1> QED  BY <1>1, <1>2 DEF InLine, TypeOK

\* Each commit of the line keeps the types.
LEMMA LineTypes == TypeOK /\ InLine /\ Whole /\ Line => TypeOK'
<1> SUFFICES ASSUME TypeOK, InLine, Whole, Line
             PROVE  TypeOK'
  OBVIOUS
<1> DEFINE op == ops[settled + 1]
<1>1. /\ MayRun => op \in Operations /\ settled + 1 \in Nat
      /\ Append(done, settled + 1) \in Seq(Nat)
  <2>1. settled + 1 \in Nat /\ done \in Seq(Nat)  BY DEF TypeOK
  <2>2. Append(done, settled + 1) \in Seq(Nat)  BY <2>1, AppendProperties
  <2> QED  BY <2>1, <2>2, NextOperation DEF TypeOK
<1>2. UNCHANGED <<preference, lives, up, ops, refresh, torn, drain>>
  BY DEF reading, Line, Skip, CommitPlain, CommitLevel, AcceptChange, ApplyModel, ApplyLevel, ApplyDone,
     ChangeSettles, Recover, Recovered, LineOnly
<1>3. CASE Skip
  BY <1>2, <1>3 DEF Skip, Settle, TypeOK, durable
<1>4. CASE CommitPlain
  BY <1>1, <1>2, <1>4 DEF CommitPlain, Running, Settle, Done, TypeOK, durable
<1>5. CASE CommitLevel
  <2>1. op.level \in AllLevels  BY <1>1, <1>5 DEF CommitLevel, Running, Operations
  <2>2. lane' \in Configurations /\ whole' \in Configurations
    BY <1>5, <2>1 DEF CommitLevel, TypeOK, Configurations
  <2> QED  BY <1>1, <1>2, <1>5, <2>2 DEF CommitLevel, Running, Settle, Done, TypeOK
<1>6. CASE AcceptChange
  <2>1. op.model \in Models /\ up \in {"open", "closed"}
    BY <1>1, <1>6, OpenKinds DEF AcceptChange, Running, Operations
  <2>2. LevelFor(op.model) \in AllLevels  BY <2>1, LevelForType
  <2>3. change' \in Changes  BY <1>6, <2>1, <2>2 DEF AcceptChange, Changes
  <2> QED  BY <1>2, <1>6, <2>3 DEF AcceptChange, TypeOK
<1>7. CASE ApplyModel
  <2>1. step = "accepted" /\ change \in Changes /\ lane \in Configurations
    BY <1>7 DEF ApplyModel, Applying, Running, TypeOK
  <2>2. lane' \in Configurations
    BY <1>7, <2>1 DEF ApplyModel, Whole, Configurations, Changes, None
  <2> QED  BY <1>2, <1>7, <2>2 DEF ApplyModel, TypeOK
<1>8. CASE ApplyLevel
  <2>1. step = "model" /\ change \in Changes /\ lane \in Configurations
    BY <1>8 DEF ApplyLevel, Applying, Running, TypeOK
  <2>2. lane' \in Configurations
    BY <1>8, <2>1 DEF ApplyLevel, Whole, Configurations, Changes, None
  <2> QED  BY <1>2, <1>8, <2>2 DEF ApplyLevel, TypeOK
<1>9. CASE ApplyDone
  <2>1. change.status = "accepted" /\ change \in Changes
    BY <1>9 DEF ApplyDone, Applying, Running, Whole, TypeOK
  <2>2. change' \in Changes  BY <1>9, <2>1 DEF ApplyDone, Changes, None
  <2> QED  BY <1>2, <1>9, <2>2 DEF ApplyDone, TypeOK
<1>10. CASE ChangeSettles
  <2>1. /\ change.status = "applied" /\ up \in {"open", "closed"}
        /\ change \in Changes /\ op \in Operations /\ view \in Views
        /\ view.level \in AllLevels
    BY <1>1, <1>10, OpenKinds DEF ChangeSettles, Running, Whole, TypeOK
  <2>2. change.model \in Models /\ change.level \in AllLevels /\ op.intent \in Nat
    BY <2>1 DEF Changes, None, Operations
  <2>3. view' \in Views /\ view'.model \in Models /\ view'.level \in AllLevels
    BY <1>10, <2>1, <2>2 DEF ChangeSettles, Show, Views
  <2> QED  BY <1>1, <1>2, <1>10, <2>3 DEF ChangeSettles, Running, Settle, Done, TypeOK, durable
<1>11. CASE Recover
  <2>1. settled' \in Nat /\ done' \in Seq(Nat) /\ step' \in {"queued", "accepted"}
    BY <1>1, <1>11 DEF Recover, Running, Settle, Done, TypeOK
  <2> QED  BY <1>2, <1>11, <2>1 DEF Recover, TypeOK, durable
<1>12. CASE Recovered
  BY <1>1, <1>2, <1>12 DEF Recovered, Running, Settle, Done, TypeOK, durable
<1> QED
  BY <1>3, <1>4, <1>5, <1>6, <1>7, <1>8, <1>9, <1>10, <1>11, <1>12 DEF Line

\* What a setter, or a handler that waits for another setModel, stages and shows.
Stages(op) ==
    /\ up = "open" /\ ~failure
    /\ op \in Operations /\ Stage(op)
    /\ UNCHANGED <<preference, durable, whole, up, settled, step, done, failure, reading, drain>>
    /\ notes' \subseteq Notifications
    /\ \A note \in notes' : note.op <= Staged + 1
    /\ \/ op.kind = "plain" /\ view' = view
       \/ /\ op.kind = "level"
          /\ view' = [view EXCEPT !.level = op.level, !.next = @ + 1, !.projected = view.next + 1]
       \/ /\ op.kind = "model" /\ op.intent = view.next + 1
          /\ view' = [view EXCEPT !.next = @ + 1]

LEMMA CallStages ==
    ASSUME TypeOK, InLine, Call
    PROVE  \E op \in Operations : Stages(op)
  <1>1. /\ up = "open" /\ ~failure /\ Setter
        /\ UNCHANGED <<preference, durable, whole, lives, up, settled, step, done, failure, reading, drain>>
    BY DEF Call, Healthy
  <1>2. Staged \in Nat  BY LenProperties DEF TypeOK, Staged
  <1>3. /\ Note(Staged + 1) \in Notifications
        /\ Note(Staged + 1).op = Staged + 1
    BY <1>2 DEF Note, Notifications
  <1>4. /\ notes \subseteq Notifications
        /\ \A note \in notes : note.op <= Staged + 1
    BY <1>2 DEF TypeOK, InLine, Notifications
  <1>5. notes' \in {notes, notes \cup {Note(Staged + 1)}} =>
          /\ notes' \subseteq Notifications
          /\ \A note \in notes' : note.op <= Staged + 1
    BY <1>2, <1>3, <1>4
  <1>6. CASE SetPlain \/ SetNamed
    <2> DEFINE op == Op("plain", None, None, 0)
    <2>1. op \in Operations /\ op.kind = "plain" /\ Stage(op) /\ view' = view
      BY <1>6, OpTypes DEF SetPlain, SetNamed, Op
    <2>2. notes' \in {notes, notes \cup {Note(Staged + 1)}}  BY <1>6 DEF SetPlain, SetNamed
    <2> QED  BY <1>1, <1>5, <2>1, <2>2 DEF Stages
  <1>7. ASSUME NEW l \in AllLevels, SetThinkingLevel(l)
        PROVE  \E op \in Operations : Stages(op)
    <2> DEFINE level == Clamp(view.model, l)
               op == Op("level", None, level, 0)
    <2>1. level \in AllLevels  BY ClampType
    <2>2. op \in Operations /\ op.kind = "level" /\ op.level = level
      BY <2>1, OpTypes DEF Op
    <2>3. /\ Stage(op)
          /\ view' = [view EXCEPT !.level = level, !.next = @ + 1, !.projected = view.next + 1]
          /\ notes' \in {notes, notes \cup {Note(Staged + 1)}}
      BY <1>7 DEF SetThinkingLevel
    <2> QED  BY <1>1, <1>5, <2>2, <2>3 DEF Stages
  <1>8. ASSUME NEW m \in Models, SetModel(m)
        PROVE  \E op \in Operations : Stages(op)
    <2> DEFINE op == Op("model", m, None, view.next + 1)
    <2>1. view.next + 1 \in Nat  BY DEF TypeOK, Views
    <2>2. op \in Operations /\ op.kind = "model" /\ op.intent = view.next + 1
      BY <2>1, OpTypes DEF Op
    <2>3. /\ Stage(op) /\ view' = [view EXCEPT !.next = @ + 1]
          /\ notes' \in {notes, notes \cup {Note(Staged + 1)}}
      BY <1>8 DEF SetModel
    <2> QED  BY <1>1, <1>5, <2>2, <2>3 DEF Stages
  <1> QED  BY <1>1, <1>6, <1>7, <1>8 DEF Setter

LEMMA AwaitStages ==
    ASSUME TypeOK, InLine, NEW note \in notes, NEW m \in Models, AwaitModel(note, m)
    PROVE  \E op \in Operations : Stages(op)
  <1> DEFINE op == Op("model", m, None, view.next + 1)
             nested == [note EXCEPT !.at = "nested", !.on = Staged + 1]
  <1>1. /\ up = "open" /\ ~failure /\ Stage(op) /\ view' = [view EXCEPT !.next = @ + 1]
        /\ notes' = (notes \ {note}) \cup {nested, Note(Staged + 1)}
        /\ UNCHANGED <<preference, durable, whole, up, settled, step, done, failure, reading, drain>>
    BY DEF AwaitModel, Healthy, NoteOnly
  <1>2. Staged \in Nat /\ view.next + 1 \in Nat
    BY LenProperties DEF TypeOK, Staged, Views
  <1>3. op \in Operations /\ op.kind = "model" /\ op.intent = view.next + 1
    BY <1>2, OpTypes DEF Op
  <1>4. note \in Notifications /\ note.op <= Staged /\ notes \subseteq Notifications
    BY DEF TypeOK, InLine
  <1>5. nested \in Notifications /\ nested.op <= Staged + 1
    <2>1. note.op \in Nat /\ note.op <= Staged + 1  BY <1>2, <1>4 DEF Notifications
    <2>2. \A n \in Nat : /\ [note EXCEPT !.at = "nested", !.on = n] \in Notifications
                         /\ [note EXCEPT !.at = "nested", !.on = n].op = note.op
      BY <1>4 DEF Notifications
    <2>3. Staged + 1 \in Nat  BY <1>2
    <2>4. nested \in Notifications /\ nested.op = note.op
      BY <2>2, <2>3
    <2> QED  BY <2>1, <2>4
  <1>6. Note(Staged + 1) \in Notifications /\ Note(Staged + 1).op = Staged + 1
    BY <1>2 DEF Note, Notifications
  <1>7. \A n \in notes : n.op <= Staged + 1
    BY <1>2 DEF TypeOK, InLine, Notifications
  <1> HIDE DEF nested, op
  <1>8. notes' \subseteq Notifications /\ \A n \in notes' : n.op <= Staged + 1
    BY <1>1, <1>2, <1>4, <1>5, <1>6, <1>7
  <1> QED  BY <1>1, <1>3, <1>8 DEF Stages

LEMMA StagesStep ==
    ASSUME Consistent, NEW op \in Operations, Stages(op)
    PROVE  Consistent'
  <1> USE DEF Consistent
  <1>1. /\ up = "open" /\ ~failure /\ view \in Views /\ settled \in Nat
        /\ UNCHANGED <<preference, lane, change, whole, up, settled, step, done, failure, refresh, torn, drain>>
    BY DEF Stages, durable, reading, TypeOK
  <1>2. /\ ops \in Seq(Operations) /\ ops' \in Seq(Operations) /\ Staged \in Nat /\ Staged' = Staged + 1
        /\ DOMAIN ops = 1 .. Staged /\ DOMAIN ops' = 1 .. Staged + 1
        /\ (\A i \in DOMAIN ops : ops'[i] = ops[i]) /\ ops'[Staged + 1] = op
    BY Staging DEF TypeOK, Stages
  <1>3. op.kind \in {"plain", "level", "model"} /\ op.intent \in Nat
        /\ (op.kind = "level" => op.level \in AllLevels)
    BY DEF Stages, Operations
  <1>4. /\ view.next \in Nat /\ view.projected \in Nat /\ view.projected <= view.next
        /\ \A i \in DOMAIN ops : ops[i].intent \in Nat
    <2>1. \A i \in DOMAIN ops : ops[i] \in Operations  BY <1>2
    <2> QED  BY <1>1, <2>1 DEF Views, Intents, Operations
  <1>5. /\ view' \in Views /\ view'.model = view.model
        /\ op.kind = "plain" => view' = view
        /\ op.kind = "level" =>
             view'.level = op.level /\ view'.next = view.next + 1 /\ view'.projected = view.next + 1
        /\ op.kind = "model" =>
             /\ view'.level = view.level /\ view'.next = view.next + 1
             /\ view'.projected = view.projected /\ op.intent = view.next + 1
    <2> DEFINE n == view.next + 1
    <2>1. n \in Nat  BY <1>4
    <2>2. \/ op.kind = "plain" /\ view' = view
          \/ op.kind = "level" /\ view' = [view EXCEPT !.level = op.level, !.next = n, !.projected = n]
          \/ op.kind = "model" /\ op.intent = n /\ view' = [view EXCEPT !.next = n]
      BY <1>1 DEF Stages, Views
    <2> HIDE DEF n
    <2> QED  BY <1>1, <1>3, <2>1, <2>2 DEF Views, n
  <1>6. TypeOK'
    <2>1. view'.level \in AllLevels /\ view'.model \in Models
      BY <1>1, <1>3, <1>5 DEF TypeOK
    <2> QED  BY <1>1, <1>2, <1>5, <2>1 DEF TypeOK, Stages
  <1>7. InLine'
    <2>1. settled' <= Staged' /\ 1 <= Staged /\ (step' # "queued" => settled' < Staged')
      BY <1>1, <1>2 DEF InLine
    <2>2. step' # "queued" => settled + 1 \in DOMAIN ops  BY <1>1, <1>2 DEF InLine
    <2>3. step' # "queued" => ops'[settled' + 1].kind \in {"model", "recover"}
      BY <1>1, <1>2, <2>2 DEF InLine
    <2>4. \A i \in DOMAIN ops' : ops'[i].kind = "recover" <=> i = 1
      BY <1>2, <1>3, <2>1 DEF InLine
    <2>5. \A note \in notes' : note.op <= Staged'  BY <1>2 DEF Stages
    <2> QED  BY <1>1, <2>1, <2>3, <2>4, <2>5 DEF InLine, CommitsInOrder
  <1>8. Whole'  BY <1>1 DEF Whole
  <1>9. Intents'
    <2>1. view'.projected <= view'.next /\ view.next <= view'.next  BY <1>3, <1>4, <1>5
    <2>2. ASSUME NEW i \in DOMAIN ops', ops'[i].kind = "model"
          PROVE  /\ ops'[i].intent <= view'.next
                 /\ \A k \in DOMAIN ops' : i < k /\ ops'[k].kind = "model" =>
                      ops'[i].intent <= ops'[k].intent
      <3>1. CASE i \in DOMAIN ops
        <4>1. ops'[i] = ops[i] /\ ops[i].intent \in Nat /\ ops[i].intent <= view.next
          BY <1>2, <1>4, <2>2, <3>1 DEF Intents
        <4>2. ops'[i].intent <= view'.next  BY <1>4, <1>5, <1>3, <4>1
        <4>3. ASSUME NEW k \in DOMAIN ops', i < k, ops'[k].kind = "model"
              PROVE  ops'[i].intent <= ops'[k].intent
          <5>1. CASE k \in DOMAIN ops  BY <1>2, <2>2, <3>1, <4>3, <5>1 DEF Intents
          <5>2. CASE k = Staged + 1  BY <1>2, <1>4, <1>5, <4>1, <4>3, <5>2
          <5> QED  BY <1>2, <5>1, <5>2
        <4> QED  BY <4>2, <4>3
      <3>2. CASE i = Staged + 1
        BY <1>2, <1>4, <1>5, <2>2, <3>2
      <3> QED  BY <1>2, <3>1, <3>2
    <2> QED  BY <2>1, <2>2 DEF Intents
  <1>10. \A n \in Nat : LevelAfter(n)' <=> LevelAfter(n) \/ (op.kind = "level" /\ n <= Staged)
    BY <1>2 DEF LevelAfter
  <1>11. Shown'
    <2> SUFFICES ASSUME ~torn  PROVE Shown'  BY <1>1 DEF Shown
    <2>1. IF step' \in {"model", "level", "applied"} THEN lane'.model = change'.model
                                                     ELSE view'.model = lane'.model
      BY <1>1, <1>5 DEF Shown
    <2>2. ASSUME NEW i \in DOMAIN ops', settled' < i, ops'[i].kind = "level", ~LevelAfter(i)'
          PROVE  view'.level = ops'[i].level
      <3>1. CASE i = Staged + 1  BY <1>2, <1>5, <2>2, <3>1
      <3>2. CASE i \in DOMAIN ops
        <4>1. op.kind # "level" /\ ~LevelAfter(i)  BY <1>2, <1>10, <2>2, <3>2
        <4>2. view'.level = view.level  BY <1>3, <1>5, <4>1
        <4> QED  BY <1>1, <1>2, <2>2, <3>2, <4>1, <4>2 DEF Shown
      <3> QED  BY <1>2, <3>1, <3>2
    <2>3. ASSUME ~LevelAfter(settled)'
          PROVE  IF step' \in {"level", "applied"} THEN lane'.level = change'.level
                                                   ELSE view'.level = lane'.level
      <3>1. settled <= Staged  BY DEF InLine
      <3>2. op.kind # "level" /\ ~LevelAfter(settled)  BY <1>1, <1>10, <2>3, <3>1 DEF LevelAfter
      <3>3. view'.level = view.level  BY <1>3, <1>5, <3>2
      <3> QED  BY <1>1, <3>2, <3>3 DEF Shown
    <2>4. ASSUME NEW i \in DOMAIN ops', settled' < i, ops'[i].kind = "model"
          PROVE  LevelAfter(i)' <=> ops'[i].intent < view'.projected
      <3>1. CASE i = Staged + 1
        <4>1. ~LevelAfter(i)'  BY <1>2, <3>1 DEF LevelAfter
        <4>2. op.kind = "model" /\ ops'[i] = op  BY <1>2, <2>4, <3>1
        <4>3. ~(op.intent < view'.projected)  BY <1>4, <1>5, <4>2
        <4> QED  BY <4>1, <4>2, <4>3
      <3>2. CASE i \in DOMAIN ops
        <4>1. ops'[i] = ops[i] /\ ops[i].intent \in Nat /\ ops[i].intent <= view.next /\ i \in Nat /\ i <= Staged
          BY <1>2, <1>4, <2>4, <3>2 DEF Intents
        <4>2. LevelAfter(i) <=> ops[i].intent < view.projected
          BY <1>1, <2>4, <3>2, <4>1 DEF Shown
        <4>3. CASE op.kind = "level"  BY <1>4, <1>5, <1>10, <4>1, <4>3
        <4>4. CASE op.kind # "level"
          <5>1. view'.projected = view.projected  BY <1>3, <1>5, <4>4
          <5> QED  BY <1>10, <4>1, <4>2, <4>4, <5>1
        <4> QED  BY <4>3, <4>4
      <3> QED  BY <1>2, <3>1, <3>2
    <2> QED  BY <2>1, <2>2, <2>3, <2>4 DEF Shown
  <1>12. Reads'
    <2>1. refresh.since \in Nat /\ settled <= Staged  BY DEF TypeOK, Refreshes, InLine
    <2> QED  BY <1>1, <1>2, <2>1 DEF Reads
  <1> QED  BY <1>6, <1>7, <1>8, <1>9, <1>11, <1>12

------------------------------------------------------------------------------
(* The line                                                                   *)

\* Which operations are behind the line's next one, when it has settled.
LEMMA NextLevels ==
    ASSUME TypeOK, MayRun
    PROVE  /\ settled \in Nat /\ Staged \in Nat /\ settled + 1 \in DOMAIN ops
           /\ LevelAfter(settled) <=> LevelAfter(settled + 1) \/ ops[settled + 1].kind = "level"
  <1>1. /\ settled \in Nat /\ Staged \in Nat /\ settled + 1 \in DOMAIN ops
        /\ DOMAIN ops = 1 .. Staged
    BY NextOperation, LenProperties DEF TypeOK, Staged
  <1> QED  BY <1>1 DEF LevelAfter

\* An operation that commits is the next one, and nothing before it has failed.
LEMMA CommitInLine ==
    ASSUME TypeOK, InLine, MayRun, ~failure \/ step # "queued", Settle, Done,
           UNCHANGED <<up, ops, failure, notes>>
    PROVE  InLine'
  <1>1. settled \in Nat /\ Staged \in Nat /\ settled + 1 <= Staged /\ done \in Seq(Nat)
    BY NextOperation DEF TypeOK
  <1>2. Len(done) = settled /\ DOMAIN done = 1 .. settled
    BY <1>1, LenProperties DEF InLine
  <1>3. /\ Len(done') = settled + 1 /\ (\A i \in 1 .. settled : done'[i] = done[i])
        /\ done'[settled + 1] = settled + 1 /\ DOMAIN done' = 1 .. settled + 1
    <2>1. done' = Append(done, settled + 1) /\ settled + 1 \in Nat  BY <1>1 DEF Done
    <2>2. /\ done' \in Seq(Nat) /\ Len(done') = Len(done) + 1
          /\ \A i \in 1 .. Len(done) : done'[i] = done[i]
          /\ done'[Len(done) + 1] = settled + 1
      BY <1>1, <2>1, AppendProperties
    <2>3. DOMAIN done' = 1 .. Len(done')  BY <2>2, LenProperties
    <2> QED  BY <1>2, <2>2, <2>3
  <1>4. CommitsInOrder'  BY <1>1, <1>2, <1>3 DEF InLine, CommitsInOrder
  <1>5. settled' = settled + 1 /\ step' = "queued" /\ Staged' = Staged
    BY DEF Settle, Staged
  <1> QED  BY <1>1, <1>3, <1>4, <1>5 DEF InLine

\* One that does not commit is the first to fail, or behind it.
LEMMA FailInLine ==
    ASSUME TypeOK, InLine, MayRun, Settle, failure', UNCHANGED <<up, ops, done, notes>>
    PROVE  InLine'
  <1>1. settled \in Nat /\ Staged \in Nat /\ settled + 1 <= Staged /\ Len(done) \in Nat
    BY NextOperation, LenProperties DEF TypeOK
  <1>2. settled' = settled + 1 /\ step' = "queued" /\ Staged' = Staged
    BY DEF Settle, Staged
  <1> QED  BY <1>1, <1>2 DEF InLine, CommitsInOrder

\* A commit within the application of a change.
LEMMA StepInLine ==
    ASSUME InLine, MayRun, ops[settled + 1].kind \in {"model", "recover"}, ~failure,
           UNCHANGED <<up, ops, settled, done, failure, notes>>
    PROVE  InLine'
  BY DEF InLine, CommitsInOrder, MayRun, Staged

\* Whoever runs has not failed.
LEMMA RunsHealthy ==
    ASSUME InLine, NEW kind, NEW s, Running(kind, s)
    PROVE  /\ MayRun /\ step = s /\ ops[settled + 1].kind = kind
           /\ ~failure \/ s = "applied"
  BY DEF InLine, Running, Refused

LEMMA LineInLine == TypeOK /\ InLine /\ (Line \/ LineThrows) => InLine'
<1> SUFFICES ASSUME TypeOK, InLine, Line \/ LineThrows
             PROVE  InLine'
  OBVIOUS
<1>1. CASE Skip
  BY <1>1, FailInLine DEF Skip, LineOnly, Refused
<1>2. CASE CommitPlain
  BY <1>2, RunsHealthy, CommitInLine DEF CommitPlain, LineOnly
<1>3. CASE CommitLevel
  BY <1>3, RunsHealthy, CommitInLine DEF CommitLevel, LineOnly
<1>4. CASE AcceptChange
  BY <1>4, RunsHealthy, StepInLine DEF AcceptChange, LineOnly
<1>5. CASE ApplyModel
  BY <1>5, RunsHealthy, StepInLine DEF ApplyModel, Applying, LineOnly
<1>6. CASE ApplyLevel
  BY <1>6, RunsHealthy, StepInLine DEF ApplyLevel, Applying, LineOnly
<1>7. CASE ApplyDone
  BY <1>7, RunsHealthy, StepInLine DEF ApplyDone, Applying, LineOnly
<1>8. CASE ChangeSettles
  BY <1>8, RunsHealthy, CommitInLine DEF ChangeSettles, LineOnly
<1>9. CASE Recover
  BY <1>9, RunsHealthy, CommitInLine, StepInLine DEF Recover, LineOnly
<1>10. CASE Recovered
  BY <1>10, RunsHealthy, CommitInLine DEF Recovered, LineOnly
<1>11. CASE Throw
  BY <1>11, FailInLine DEF Throw, LineOnly
<1>12. CASE Decline
  BY <1>12, RunsHealthy, CommitInLine DEF Decline, LineOnly
<1> QED
  BY <1>1, <1>2, <1>3, <1>4, <1>5, <1>6, <1>7, <1>8, <1>9, <1>10, <1>11, <1>12
  DEF Line, LineThrows

LEMMA LineWhole == TypeOK /\ InLine /\ Whole /\ (Line \/ LineThrows) => Whole'
<1> SUFFICES ASSUME TypeOK, InLine, Whole, Line \/ LineThrows
             PROVE  Whole'
  OBVIOUS
<1>1. CASE Skip \/ CommitPlain \/ ChangeSettles \/ Recovered \/ Throw \/ Decline
  BY <1>1 DEF Skip, CommitPlain, ChangeSettles, Recovered, Throw, Decline, Settle, Whole, durable
<1>2. CASE CommitLevel
  BY <1>2 DEF CommitLevel, Settle, Whole
<1>3. CASE AcceptChange
  BY <1>3 DEF AcceptChange, Whole
<1>4. CASE ApplyModel \/ ApplyLevel
  BY <1>4 DEF ApplyModel, ApplyLevel, Applying, Running, Whole
<1>5. CASE ApplyDone
  <2>1. change'.status = "applied"  BY <1>5 DEF ApplyDone, TypeOK, Changes
  <2> QED  BY <1>5, <2>1 DEF ApplyDone, Whole
<1>6. CASE Recover
  BY <1>6 DEF Recover, Settle, Whole, durable
<1> QED
  BY <1>1, <1>2, <1>3, <1>4, <1>5, <1>6 DEF Line, LineThrows

\* A change that settles has the intent it was staged with.
LEMMA LineIntents == TypeOK /\ InLine /\ Intents /\ (Line \/ LineThrows) => Intents'
<1> SUFFICES ASSUME TypeOK, InLine, Intents, Line \/ LineThrows
             PROVE  Intents'
  OBVIOUS
<1>1. ops' = ops
  BY DEF Line, LineThrows, Skip, CommitPlain, CommitLevel, AcceptChange, ApplyModel, ApplyLevel,
     ApplyDone, ChangeSettles, Recover, Recovered, Throw, Decline, LineOnly
<1>2. CASE ChangeSettles
  <2>1. settled + 1 \in DOMAIN ops /\ ops[settled + 1].kind = "model"
    BY <1>2, RunsHealthy, NextOperation DEF ChangeSettles, TypeOK
  <2>2. ops[settled + 1].intent <= view.next  BY <2>1 DEF Intents
  <2>3. view'.next = view.next /\ view'.projected \in {view.projected, ops[settled + 1].intent}
    BY <1>2 DEF ChangeSettles, Show, TypeOK, Views
  <2> QED  BY <1>1, <2>2, <2>3 DEF Intents
<1>3. CASE view' = view
  BY <1>1, <1>3 DEF Intents
<1> QED
  BY <1>2, <1>3 DEF Line, LineThrows, Skip, CommitPlain, CommitLevel, AcceptChange, ApplyModel,
     ApplyLevel, ApplyDone, Recover, Recovered, Throw, Decline

LEMMA LineShown == Consistent /\ (Line \/ LineThrows) => Shown'
<1> SUFFICES ASSUME Consistent, Line \/ LineThrows, up' = "open", ~failure', ~torn'
             PROVE  Shown'
  BY DEF Shown
<1> USE DEF Consistent
<1> DEFINE op == ops[settled + 1]
<1>1. UNCHANGED <<up, ops, torn>>
  BY DEF Line, LineThrows, Skip, CommitPlain, CommitLevel, AcceptChange, ApplyModel, ApplyLevel,
     ApplyDone, ChangeSettles, Recover, Recovered, Throw, Decline, LineOnly, reading
<1>2. \A n : LevelAfter(n)' <=> LevelAfter(n)  BY <1>1 DEF LevelAfter
<1>3. MayRun /\ ~failure
  BY DEF Line, LineThrows, Skip, CommitPlain, CommitLevel, AcceptChange, ApplyModel, ApplyLevel,
     ApplyDone, ChangeSettles, Recover, Recovered, Throw, Decline, Running, Applying
<1>4. /\ up = "open" /\ settled \in Nat /\ settled >= 1 /\ settled + 1 \in DOMAIN ops
      /\ Staged \in Nat /\ DOMAIN ops = 1 .. Staged
      /\ LevelAfter(settled) <=> LevelAfter(settled + 1) \/ op.kind = "level"
  BY <1>1, <1>3, NextLevels, LenProperties DEF InLine, TypeOK, Staged
<1>5. op \in Operations /\ op.kind # "recover"
  BY <1>3, <1>4, NextOperation DEF InLine, TypeOK
<1>6. lane \in Configurations /\ whole \in Configurations /\ change \in Changes /\ view \in Views
  BY DEF TypeOK
<1>7. CASE Skip \/ Throw \/ Recover \/ Recovered
  BY <1>3, <1>5, <1>7 DEF Skip, Throw, Recover, Recovered, Running, Refused
<1>8. CASE CommitPlain \/ Decline
  <2>1. /\ step = "queued" /\ step' = "queued" /\ settled' = settled + 1
        /\ UNCHANGED <<lane, change, view>> /\ op.kind # "level"
    BY <1>8 DEF CommitPlain, Decline, Running, Settle, durable
  <2>2. \A i \in DOMAIN ops : settled' < i => settled < i  BY <1>4, <2>1
  <2> QED  BY <1>1, <1>2, <1>3, <1>4, <2>1, <2>2 DEF Shown
<1>9. CASE CommitLevel
  <2>1. /\ step = "queued" /\ step' = "queued" /\ settled' = settled + 1
        /\ op.kind = "level" /\ UNCHANGED <<change, view>>
        /\ lane'.model = lane.model /\ lane'.level = op.level
    BY <1>6, <1>9 DEF CommitLevel, Running, Settle, Configurations
  <2>2. \A i \in DOMAIN ops : settled' < i => settled < i  BY <1>4, <2>1
  <2>3. ~LevelAfter(settled + 1) => view.level = op.level
    BY <1>1, <1>3, <1>4, <2>1 DEF Shown
  <2> QED  BY <1>1, <1>2, <1>3, <1>4, <2>1, <2>2, <2>3 DEF Shown
<1>10. CASE AcceptChange
  <2>1. step = "queued" /\ step' = "accepted" /\ UNCHANGED <<lane, view, settled>>
    BY <1>10 DEF AcceptChange, Running
  <2> QED  BY <1>1, <1>2, <1>3, <1>4, <2>1 DEF Shown
<1>11. CASE ApplyModel
  <2>1. /\ step = "accepted" /\ step' = "model" /\ UNCHANGED <<change, view, settled>>
        /\ lane'.model = change.model /\ lane'.level = lane.level
    BY <1>6, <1>11 DEF ApplyModel, Applying, Running, Configurations
  <2> QED  BY <1>1, <1>2, <1>3, <1>4, <2>1 DEF Shown
<1>12. CASE ApplyLevel
  <2>1. /\ step = "model" /\ step' = "level" /\ UNCHANGED <<change, view, settled>>
        /\ lane'.level = change.level /\ lane'.model = lane.model
    BY <1>6, <1>12 DEF ApplyLevel, Applying, Running, Configurations
  <2> QED  BY <1>1, <1>2, <1>3, <1>4, <2>1 DEF Shown
<1>13. CASE ApplyDone
  <2>1. /\ step = "level" /\ step' = "applied" /\ UNCHANGED <<lane, view, settled>>
        /\ change'.level = change.level /\ change'.model = change.model
    BY <1>6, <1>13 DEF ApplyDone, Applying, Running, Changes
  <2> QED  BY <1>1, <1>2, <1>3, <1>4, <2>1 DEF Shown
<1>14. CASE ChangeSettles
  <2>1. /\ step = "applied" /\ step' = "queued" /\ settled' = settled + 1
        /\ op.kind = "model" /\ UNCHANGED <<lane, change>> /\ Show(op.intent)
        /\ op.intent \in Nat /\ view.projected \in Nat
    BY <1>5, <1>6, <1>14 DEF ChangeSettles, Running, Settle, durable, Operations, Views
  <2>2. /\ view'.model = change.model
        /\ op.intent >= view.projected =>
             view'.level = change.level /\ view'.projected = op.intent
        /\ op.intent < view.projected =>
             view'.level = view.level /\ view'.projected = view.projected
    BY <1>6, <2>1 DEF Show, Views
  <2>3. /\ lane.model = change.model
        /\ LevelAfter(settled + 1) <=> op.intent < view.projected
        /\ ~LevelAfter(settled) => lane.level = change.level
    BY <1>1, <1>3, <1>4, <2>1 DEF Shown
  <2>4. \A i \in DOMAIN ops : settled' < i => settled < i /\ settled + 1 < i /\ i \in Nat
    BY <1>4, <2>1
  <2>5. CASE op.intent < view.projected
    BY <1>1, <1>2, <1>3, <1>4, <2>1, <2>2, <2>3, <2>4, <2>5 DEF Shown
  <2>6. CASE op.intent >= view.projected
    <3>1. ~LevelAfter(settled + 1)  BY <2>1, <2>3, <2>6
    <3>2. \A i \in DOMAIN ops : settled' < i => ~LevelAfter(i) /\ ops[i].kind # "level"
      BY <1>4, <2>4, <3>1 DEF LevelAfter
    <3>3. ASSUME NEW i \in DOMAIN ops, settled' < i, ops[i].kind = "model"
          PROVE  ~(ops[i].intent < view'.projected)
      <4>1. op.intent <= ops[i].intent  BY <1>4, <2>1, <2>4, <3>3 DEF Intents
      <4>2. ops[i].intent \in Nat  BY <3>3 DEF TypeOK, Operations
      <4> QED  BY <2>1, <2>2, <2>6, <4>1, <4>2
    <3>4. ~LevelAfter(settled) /\ view'.level = lane'.level
      BY <1>4, <2>1, <2>2, <2>3, <2>6, <3>1
    <3> QED  BY <1>1, <1>2, <1>3, <1>4, <2>1, <2>2, <2>3, <3>2, <3>3, <3>4 DEF Shown
  <2> QED  BY <2>1, <2>5, <2>6
<1> QED
  BY <1>7, <1>8, <1>9, <1>10, <1>11, <1>12, <1>13, <1>14 DEF Line, LineThrows

LEMMA ThrowTypes == TypeOK /\ InLine /\ LineThrows => TypeOK'
<1> SUFFICES ASSUME TypeOK, InLine, LineThrows
             PROVE  TypeOK'
  OBVIOUS
<1>1. settled + 1 \in Nat /\ Append(done, settled + 1) \in Seq(Nat)
  <2>1. settled + 1 \in Nat /\ done \in Seq(Nat)  BY DEF TypeOK
  <2> QED  BY <2>1, AppendProperties
<1>2. CASE Throw  BY <1>1, <1>2 DEF Throw, Settle, LineOnly, TypeOK, durable, reading
<1>3. CASE Decline  BY <1>1, <1>3 DEF Decline, Settle, Done, LineOnly, TypeOK, durable, reading
<1> QED  BY <1>2, <1>3 DEF LineThrows

\* What is being read while the line goes on was not read in a drained line.
LEMMA LineReads == TypeOK /\ InLine /\ Reads /\ (Line \/ LineThrows) => Reads'
<1> SUFFICES ASSUME TypeOK, InLine, Reads, Line \/ LineThrows
             PROVE  Reads'
  OBVIOUS
<1>1. UNCHANGED <<ops, refresh>>
  BY DEF Line, LineThrows, Skip, CommitPlain, CommitLevel, AcceptChange, ApplyModel, ApplyLevel,
     ApplyDone, ChangeSettles, Recover, Recovered, Throw, Decline, LineOnly, reading
<1>2. MayRun /\ settled' \in {settled, settled + 1}
  BY DEF Line, LineThrows, Skip, CommitPlain, CommitLevel, AcceptChange, ApplyModel, ApplyLevel,
     ApplyDone, ChangeSettles, Recover, Recovered, Throw, Decline, Running, Applying, Settle
<1>3. Staged' = Staged /\ Staged \in Nat /\ settled \in Nat /\ refresh.since \in Nat
  BY <1>1, LenProperties DEF TypeOK, Staged, Refreshes
<1> QED  BY <1>1, <1>2, <1>3 DEF Reads, MayRun

------------------------------------------------------------------------------
(* The invariant                                                              *)

\* A step that leaves the line, its view and the lane.
LEMMA AsideStep ==
    ASSUME Consistent, UNCHANGED <<preference, durable, whole, line, view, reading>>,
           notes' \subseteq notes,
           up' = up \/ (up = "open" /\ up' = "closed"),
           drain' \in [Drains -> Waits]
    PROVE  Consistent'
  <1> USE DEF Consistent, durable, line, reading
  <1>1. TypeOK'  BY DEF TypeOK
  <1>2. InLine'  BY DEF InLine, CommitsInOrder, Staged
  <1>3. Whole' /\ Intents' /\ Reads'  BY DEF Whole, Intents, Reads, Staged
  <1>4. \A n : LevelAfter(n)' <=> LevelAfter(n)  BY DEF LevelAfter
  <1>5. Shown'  BY <1>4 DEF Shown
  <1> QED  BY <1>1, <1>2, <1>3, <1>5

\* A wait that begins, or looks again, has seen the line as it is.
LEMMA ObserveType ==
    ASSUME TypeOK, NEW d \in Drains, Observe(d)
    PROVE  drain' \in [Drains -> Waits]
  <1>1. Staged \in Nat  BY LenProperties DEF TypeOK, Staged
  <1>2. Tracked \subseteq Nat  BY DEF TypeOK, Notifications, Tracked
  <1> QED  BY <1>1, <1>2 DEF Observe, TypeOK, Waits

\* Reading the lane leaves the line; what is shown at the end is the lane's if it was drained.
LEMMA RefreshStep ==
    ASSUME Consistent, (\E by \in Refreshers : BeginRefresh(by)) \/ Refreshing \/ RefreshThrows
    PROVE  Consistent'
  <1> USE DEF Consistent
  <1>1. UNCHANGED <<preference, lane, change, whole, up, ops, settled, step, done, notes>>
    BY DEF BeginRefresh, Refreshing, ReadModel, ReadLevel, Refreshed, RefreshThrows, RefreshEnds,
       RefreshOnly, durable
  <1>2. Staged' = Staged /\ Staged \in Nat /\ settled \in Nat /\ refresh \in Refreshes /\ lane \in Configurations
    BY <1>1, LenProperties DEF Staged, TypeOK
  <1>3. Whole'  BY <1>1 DEF Whole
  <1>4. \A n : LevelAfter(n)' <=> LevelAfter(n)  BY <1>1 DEF LevelAfter
  <1>5. failure' = failure \/ failure' = TRUE
    BY DEF BeginRefresh, Refreshing, ReadModel, ReadLevel, Refreshed, RefreshThrows
  <1>6. InLine'  BY <1>1, <1>2, <1>5 DEF InLine, CommitsInOrder
  <1>7. CASE UNCHANGED <<failure, view, torn, drain>> /\ refresh' \in Refreshes /\ Reads'
    <2>1. TypeOK'  BY <1>1, <1>7 DEF TypeOK
    <2>2. Intents'  BY <1>1, <1>7 DEF Intents
    <2>3. Shown'  BY <1>1, <1>4, <1>7 DEF Shown
    <2> QED  BY <1>3, <1>6, <1>7, <2>1, <2>2, <2>3
  <1>8. ASSUME NEW by \in Refreshers, BeginRefresh(by)
        PROVE  Consistent'
    <2>1. refresh' = [NoRefresh EXCEPT !.by = by, !.since = settled, !.n = refresh.n + 1]
      BY <1>8 DEF BeginRefresh
    <2>2. /\ refresh' \in Refreshes /\ refresh'.since = settled
          /\ refresh'.model = None /\ refresh'.level = None
      <3>1. refresh.n + 1 \in Nat /\ by \in {"hook", "event"}
        BY <1>2 DEF Refreshes, Refreshers
      <3> QED  BY <1>2, <2>1, <3>1 DEF Refreshes, NoRefresh
    <2>3. Reads'  BY <1>1, <1>2, <2>2 DEF Reads
    <2> QED  BY <1>7, <1>8, <2>2, <2>3 DEF BeginRefresh
  <1>9. CASE ReadModel
    <2>1. /\ refresh.by # None /\ refresh' \in Refreshes /\ refresh'.model = lane.model
          /\ refresh'.by = refresh.by /\ refresh'.level = refresh.level /\ refresh'.since = refresh.since
      BY <1>2, <1>9 DEF ReadModel, Refreshes, Configurations
    <2>2. Reads'  BY <1>1, <1>2, <2>1 DEF Reads
    <2> QED  BY <1>7, <1>9, <2>1, <2>2 DEF ReadModel
  <1>10. CASE ReadLevel
    <2>1. /\ refresh.by # None /\ refresh' \in Refreshes /\ refresh'.level = lane.level
          /\ refresh'.by = refresh.by /\ refresh'.model = refresh.model /\ refresh'.since = refresh.since
      BY <1>2, <1>10 DEF ReadLevel, Refreshes, Configurations
    <2>2. Reads'  BY <1>1, <1>2, <2>1 DEF Reads
    <2> QED  BY <1>7, <1>10, <2>1, <2>2 DEF ReadLevel
  <1>11. RefreshEnds => refresh' \in Refreshes /\ Reads' /\ drain' \in [Drains -> Waits]
    <2> SUFFICES ASSUME RefreshEnds
                 PROVE  refresh' \in Refreshes /\ Reads' /\ drain' \in [Drains -> Waits]
      OBVIOUS
    <2>1. refresh' = [NoRefresh EXCEPT !.n = refresh.n]  BY DEF RefreshEnds
    <2>2. refresh' \in Refreshes /\ refresh'.by = None  BY <1>2, <2>1 DEF Refreshes, NoRefresh
    <2>3. drain' \in [Drains -> Waits]
      <3>1. drain' = [d \in Drains |-> [drain[d] EXCEPT !.notes = @ \ {0}]]  BY DEF RefreshEnds
      <3>2. \A d \in Drains : drain[d] \in Waits  BY DEF TypeOK
      <3>3. \A w \in Waits : [w EXCEPT !.notes = @ \ {0}] \in Waits  BY DEF Waits
      <3> QED  BY <3>1, <3>2, <3>3
    <2> QED  BY <2>2, <2>3 DEF Reads
  <1>12. CASE RefreshThrows
    <2>1. RefreshEnds /\ failure' = TRUE /\ UNCHANGED <<view, torn>>  BY <1>12 DEF RefreshThrows
    <2>2. TypeOK'  BY <1>1, <1>11, <2>1 DEF TypeOK
    <2>3. Intents'  BY <1>1, <2>1 DEF Intents
    <2>4. Shown'  BY <2>1 DEF Shown
    <2> QED  BY <1>3, <1>6, <1>11, <2>1, <2>2, <2>3, <2>4
  <1>13. CASE Refreshed
    <2>1. /\ RefreshEnds /\ failure' = failure /\ torn' = (refresh.since # Staged)
          /\ refresh.by # None /\ refresh.model # None /\ refresh.level # None
      BY <1>13 DEF Refreshed
    <2>2. /\ view' \in Views /\ view'.model = refresh.model /\ view'.level = refresh.level
          /\ view'.next = view.next /\ view'.projected = view.projected
          /\ refresh.model \in Models /\ refresh.level \in AllLevels
      BY <1>2, <1>13, <2>1 DEF Refreshed, TypeOK, Views, Refreshes
    <2>3. torn' \in BOOLEAN  BY <2>1
    <2>4. TypeOK'  BY <1>1, <1>11, <2>1, <2>2, <2>3 DEF TypeOK
    <2>5. Intents'  BY <1>1, <2>2 DEF Intents
    <2>6. Shown'
      <3> SUFFICES ASSUME ~torn'  PROVE Shown'  BY DEF Shown
      <3>1. refresh.since = Staged  BY <2>1
      <3>2. settled = Staged  BY <1>2, <2>1, <3>1 DEF Reads, InLine
      <3>3. view'.model = lane.model /\ view'.level = lane.level  BY <2>1, <2>2, <3>1 DEF Reads
      <3>4. step = "queued" /\ DOMAIN ops = 1 .. Staged
        BY <1>2, <3>2, LenProperties DEF InLine, TypeOK, Staged
      <3>5. \A i \in DOMAIN ops : ~(settled < i)  BY <1>2, <3>2, <3>4
      <3> QED  BY <1>1, <3>3, <3>4, <3>5 DEF Shown
    <2> QED  BY <1>3, <1>6, <1>11, <2>1, <2>4, <2>5, <2>6
  <1> QED  BY <1>8, <1>9, <1>10, <1>12, <1>13 DEF Refreshing

LEMMA ConsistentStep == Consistent /\ [Next]_vars => Consistent'
<1> SUFFICES ASSUME Consistent, [Next]_vars
             PROVE  Consistent'
  OBVIOUS
<1>1. CASE Call
  <2>1. PICK op \in Operations : Stages(op)  BY <1>1, CallStages DEF Consistent
  <2> QED  BY <2>1, StagesStep
<1>2. CASE Line
  BY <1>2, LineTypes, LineInLine, LineWhole, LineIntents, LineReads, LineShown DEF Consistent
<1>3. CASE LineThrows
  BY <1>3, ThrowTypes, LineInLine, LineWhole, LineIntents, LineReads, LineShown DEF Consistent
<1>4. ASSUME NEW note \in notes, Reject(note)
      PROVE  Consistent'
  <2>1. failure
    <3>1. note.op \in Nat \ {0} /\ note.op <= settled /\ settled \in Nat
      BY <1>4 DEF Reject, Consistent, TypeOK, Notifications
    <3>2. ~failure => note.op \in DOMAIN done
      BY <3>1, LenProperties DEF Consistent, TypeOK, InLine
    <3>3. note.op \in DOMAIN done => done[note.op] = note.op
      BY DEF Consistent, InLine, CommitsInOrder
    <3> QED  BY <1>4, <3>2, <3>3 DEF Reject, Consistent, TypeOK
  <2>2. failure' = failure /\ notes' \subseteq notes /\ UNCHANGED <<ops, view>>
    BY <1>4, <2>1 DEF Reject, Ended
  <2> QED  BY <1>4, <2>2, AsideStep DEF Reject, NoteOnly, line, Consistent, TypeOK
<1>5. ASSUME NEW note \in notes, Emit(note) \/ Awaited(note)
      PROVE  Consistent'
  BY <1>5, AsideStep DEF Emit, Awaited, Ended, NoteOnly, line, Consistent, TypeOK
<1>6. ASSUME NEW note \in notes, NEW m \in Models, AwaitModel(note, m)
      PROVE  Consistent'
  <2>1. PICK op \in Operations : Stages(op)  BY <1>6, AwaitStages DEF Consistent
  <2> QED  BY <2>1, StagesStep
<1>7. CASE Flush
  BY <1>7, ObserveType, AsideStep DEF Flush, DrainOnly, Drains, Consistent
<1>8. ASSUME NEW d \in Drains, Again(d)
      PROVE  Consistent'
  BY <1>8, ObserveType, AsideStep DEF Again, DrainOnly, Consistent
<1>9. ASSUME NEW d \in Drains, Return(d)
      PROVE  Consistent'
  <2>1. drain' \in [Drains -> Waits]
    BY <1>9 DEF Return, Idle, Waits, Consistent, TypeOK
  <2> QED  BY <1>9, <2>1, AsideStep DEF Return, DrainOnly
<1>10. CASE Resume
  <2>1. drain' \in [Drains -> Waits]
    BY <1>10 DEF Resume, Idle, Waits, Consistent, TypeOK
  <2> QED  BY <1>10, <2>1, AsideStep DEF Resume, DrainOnly
<1>11. CASE Close
  BY <1>11, ObserveType, AsideStep DEF Close, DrainOnly, Drains, Consistent
<1>12. CASE Activate
  <2>1. /\ up' = "starting" /\ ops' = <<Op("recover", None, None, 0)>> /\ settled' = 0
        /\ step' = "queued" /\ done' = <<>> /\ failure' = FALSE /\ notes' = {}
        /\ drain' = [d \in Drains |-> Idle] /\ refresh' = NoRefresh /\ torn' = FALSE
        /\ view' = [model |-> None, level |-> None, next |-> 0, projected |-> 0]
        /\ UNCHANGED <<preference, lane, change, whole>>
    BY <1>12 DEF Activate, durable, NoView
  <2>2. TypeOK'
    <3>1. ops' \in Seq(Operations)  BY <2>1, OpTypes
    <3>2. done' \in Seq(Nat)  BY <2>1, EmptySeq
    <3>3. view' \in Views  BY <2>1 DEF Views
    <3>4. drain' \in [Drains -> Waits]  BY <2>1 DEF Idle, Waits
    <3>5. refresh' \in Refreshes  BY <2>1 DEF NoRefresh, Refreshes
    <3> QED  BY <2>1, <3>1, <3>2, <3>3, <3>4, <3>5 DEF Consistent, TypeOK
  <2>3. ops'[1].kind = "recover" /\ DOMAIN ops' = {1} /\ Staged' = 1
    BY <2>1 DEF Op, Staged
  <2>4. InLine'  BY <2>1, <2>3 DEF InLine, CommitsInOrder
  <2>5. Whole' /\ Intents' /\ Reads'  BY <2>1, <2>3 DEF Whole, Intents, Reads, NoRefresh, Consistent
  <2> QED  BY <2>1, <2>2, <2>4, <2>5 DEF Shown, Consistent
<1>13. CASE Start
  <2>1. /\ up = "starting" /\ done # <<>> /\ up' = "open"
        /\ view' = [view EXCEPT !.model = lane.model, !.level = lane.level]
        /\ UNCHANGED <<preference, lane, change, whole, ops, settled, step, done, failure, refresh, torn,
                       notes, drain>>
    BY <1>13 DEF Start, durable, line, reading
  <2>2. /\ view'.model = lane.model /\ view'.level = lane.level /\ view' \in Views
        /\ view'.next = view.next /\ view'.projected = view.projected
        /\ lane.model \in Models /\ lane.level \in AllLevels
    BY <2>1 DEF Consistent, TypeOK, Views, Configurations
  <2>3. settled = 1 /\ Staged = 1 /\ DOMAIN ops = {1} /\ ops[1].kind = "recover" /\ Staged' = 1
    <3>1. Staged = 1 /\ settled <= Staged /\ settled \in Nat /\ Len(done) <= settled
      BY <2>1 DEF Consistent, InLine, TypeOK
    <3>2. Len(done) \in Nat /\ Len(done) # 0  BY <2>1, LenProperties, EmptySeq DEF Consistent, TypeOK
    <3>3. DOMAIN ops = {1}  BY <3>1, LenProperties DEF Consistent, TypeOK, Staged
    <3> QED  BY <2>1, <3>1, <3>2, <3>3 DEF Consistent, InLine, Staged
  <2>4. step = "queued"  BY <2>3 DEF Consistent, InLine
  <2>5. TypeOK'  BY <2>1, <2>2 DEF Consistent, TypeOK
  <2>6. InLine'  BY <2>1, <2>3, <2>4 DEF Consistent, InLine, CommitsInOrder
  <2>7. Whole' /\ Intents' /\ Reads'  BY <2>1, <2>2 DEF Whole, Intents, Reads, Staged, Consistent
  <2>8. Shown'  BY <2>1, <2>2, <2>3, <2>4 DEF Shown, LevelAfter
  <2> QED  BY <2>5, <2>6, <2>7, <2>8 DEF Consistent
<1>14. CASE Leave
  <2>1. /\ up' = "down" /\ ops' = <<>> /\ settled' = 0
        /\ step' = "queued" /\ done' = <<>> /\ failure' = FALSE /\ notes' = {}
        /\ drain' = [d \in Drains |-> Idle] /\ refresh' = NoRefresh /\ torn' = FALSE
        /\ view' = [model |-> None, level |-> None, next |-> 0, projected |-> 0]
        /\ UNCHANGED <<preference, lane, change, whole>>
    BY <1>14 DEF Leave, durable, NoView
  <2>2. TypeOK'
    <3>1. ops' \in Seq(Operations) /\ done' \in Seq(Nat)  BY <2>1, EmptySeq
    <3>2. view' \in Views  BY <2>1 DEF Views
    <3>3. drain' \in [Drains -> Waits]  BY <2>1 DEF Idle, Waits
    <3>4. refresh' \in Refreshes  BY <2>1 DEF NoRefresh, Refreshes
    <3> QED  BY <2>1, <3>1, <3>2, <3>3, <3>4 DEF Consistent, TypeOK
  <2>3. DOMAIN ops' = {} /\ Staged' = 0  BY <2>1 DEF Staged
  <2>4. InLine'  BY <2>1, <2>3 DEF InLine, CommitsInOrder
  <2>5. Whole' /\ Intents' /\ Reads'  BY <2>1, <2>3 DEF Whole, Intents, Reads, NoRefresh, Consistent
  <2> QED  BY <2>1, <2>2, <2>4, <2>5 DEF Shown, Consistent
<1>15. CASE UNCHANGED vars
  BY <1>15, AsideStep DEF vars, Consistent, TypeOK
<1>16. CASE (\E by \in Refreshers : BeginRefresh(by)) \/ Refreshing \/ RefreshThrows
  BY <1>16, RefreshStep
<1> QED
  BY <1>1, <1>2, <1>3, <1>4, <1>5, <1>6, <1>7, <1>8, <1>9, <1>10, <1>11, <1>12, <1>13, <1>14, <1>15, <1>16
  DEF Next, Notes, Draining

LEMMA InitConsistent == Init => Consistent
<1> SUFFICES ASSUME Init  PROVE  Consistent
  OBVIOUS
<1>1. /\ up = "down" /\ ops = <<>> /\ settled = 0 /\ step = "queued" /\ done = <<>>
      /\ failure = FALSE /\ notes = {} /\ change = NoChange /\ whole = lane
      /\ view = [model |-> None, level |-> None, next |-> 0, projected |-> 0]
      /\ refresh = NoRefresh /\ torn = FALSE
      /\ preference \in [Reasoning -> Levels \cup {None}]
  BY DEF Init, NoView
<1>2. lane \in Configurations
  BY ClampType DEF Init, Configurations, AllLevels
<1>3. change \in Changes /\ change.status # "accepted"  BY <1>1 DEF NoChange, Changes, None
<1>4. TypeOK
  <2>1. ops \in Seq(Operations) /\ done \in Seq(Nat)  BY <1>1, EmptySeq
  <2>2. view \in Views  BY <1>1 DEF Views
  <2>3. drain \in [Drains -> Waits]  BY DEF Init, Idle, Waits
  <2>4. refresh \in Refreshes  BY <1>1 DEF NoRefresh, Refreshes
  <2> QED  BY <1>1, <1>2, <1>3, <2>1, <2>2, <2>3, <2>4 DEF TypeOK
<1>5. DOMAIN ops = {} /\ Staged = 0  BY <1>1 DEF Staged
<1>6. InLine  BY <1>1, <1>5 DEF InLine, CommitsInOrder
<1>7. Whole /\ Intents /\ Reads /\ Shown
  BY <1>1, <1>3, <1>5 DEF Whole, Intents, Reads, NoRefresh, Shown
<1> QED  BY <1>4, <1>6, <1>7 DEF Consistent
------------------------------------------------------------------------------
(* Theorems                                                                   *)

\* The line, the lane and the view agree whatever extensions call, and whatever throws.
THEOREM LineIsConsistent == Spec => []Consistent
<1>1. Consistent /\ [Next]_vars => Consistent'  BY ConsistentStep
<1> QED  BY <1>1, InitConsistent, PTL DEF Spec

\* What commits is a prefix of what was staged: mutations.ts runs an operation only behind
\* those before it, and none behind a failure.
THEOREM CommittedInOrder == Spec => []CommitsInOrder
<1>1. Consistent => CommitsInOrder  BY DEF Consistent, InLine
<1> QED  BY <1>1, LineIsConsistent, PTL

\* When the line is idle the getters show what the lane has, if the last refresh that ended
\* ran at a drained boundary from its first read on.
THEOREM GettersMatchLane == Spec => []ViewMatchesLane
<1>1. Consistent => ViewMatchesLane
  <2> SUFFICES ASSUME Consistent, up = "open", settled = Staged, ~failure, ~torn
               PROVE  view.model = lane.model /\ view.level = lane.level
    BY DEF ViewMatchesLane, Idling, Agrees
  <2>1. Staged \in Nat /\ DOMAIN ops = 1 .. Staged
    BY LenProperties DEF Consistent, TypeOK, Staged
  <2>2. step = "queued" /\ ~LevelAfter(settled)
    BY <2>1 DEF Consistent, InLine, LevelAfter
  <2> QED  BY <2>2 DEF Consistent, Shown
<1> QED  BY <1>1, LineIsConsistent, PTL

\* guardDispatch lets an effect go only when the lane holds a change as a whole or not at all,
\* deaths between its commits included.
THEOREM DispatchesAreWhole == Spec => []DispatchesSeeWholeChanges
<1>1. Consistent => DispatchesSeeWholeChanges
  BY DEF Consistent, Whole, MayDispatch, DispatchesSeeWholeChanges
<1> QED  BY <1>1, LineIsConsistent, PTL

\* What waited for a flush goes on only when all that was staged has committed.
THEOREM FlushesSettle == Spec => FlushSettlesAll
<1> DEFINE Flushed == drain["hook"].at = "waiting" /\ drain'["hook"].at = "returned"
                        => Len(done) = Staged /\ notes = {} /\ refresh.by # "event" /\ ~failure
<1>1. Consistent /\ [Next]_vars => [Flushed]_vars
  <2> SUFFICES ASSUME Consistent, Next, drain["hook"].at = "waiting",
                      drain'["hook"].at = "returned"
               PROVE  Len(done) = Staged /\ notes = {} /\ refresh.by # "event" /\ ~failure
    OBVIOUS
  <2>1. ASSUME NEW d \in Drains, Observe(d)  PROVE  FALSE
    BY <2>1 DEF Observe, Consistent, TypeOK, Drains
  <2>2. \E d \in Drains : Return(d)
    <3>1. drain' # drain  OBVIOUS
    <3>2. ~Call /\ ~Line /\ ~LineThrows /\ ~Start
      BY <3>1 DEF Call, Line, LineThrows, Skip, CommitPlain, CommitLevel, AcceptChange, ApplyModel,
         ApplyLevel, ApplyDone, ChangeSettles, Recover, Recovered, Throw, Decline, LineOnly, Start
    <3>3. ~Notes /\ ~\E note \in notes, m \in Models : AwaitModel(note, m)
      BY <3>1 DEF Notes, Reject, Emit, Awaited, AwaitModel, NoteOnly
    <3>4. ~Flush /\ ~Close /\ \A d \in Drains : ~Again(d)
      BY <2>1 DEF Flush, Close, Again, Drains
    <3>5. ~Resume  BY DEF Resume
    <3>6. ~Activate /\ ~Leave  BY DEF Activate, Leave, Idle, Drains
    <3>7. ~((\E by \in Refreshers : BeginRefresh(by)) \/ ReadModel \/ ReadLevel)
      BY <3>1 DEF BeginRefresh, ReadModel, ReadLevel
    <3>8. ~RefreshEnds
      <4> SUFFICES ASSUME RefreshEnds  PROVE FALSE  OBVIOUS
      <4>1. drain["hook"] \in Waits  BY DEF Consistent, TypeOK, Drains
      <4>2. drain'["hook"] = [drain["hook"] EXCEPT !.notes = @ \ {0}]  BY DEF RefreshEnds, Drains
      <4> QED  BY <4>1, <4>2 DEF Waits
    <3> QED  BY <3>2, <3>3, <3>4, <3>5, <3>6, <3>7, <3>8 DEF Next, Draining, Refreshing, Refreshed, RefreshThrows
  <2>3. PICK d \in Drains : Return(d)  BY <2>2
  <2>4. d = "hook"
    BY <2>3 DEF Return, Consistent, TypeOK
  <2>5. /\ Tracked = {} /\ drain["hook"].observed = Staged /\ settled >= Staged
        /\ drain'["hook"].at = "returned" => ~failure
    BY <2>3, <2>4 DEF Return, Drained, Seen, Consistent, TypeOK, Idle
  <2>6. settled = Staged
    BY <2>5, LenProperties DEF Consistent, TypeOK, InLine, Staged
  <2>7. notes = {} /\ refresh.by # "event"  BY <2>5 DEF Tracked
  <2> QED  BY <2>5, <2>6, <2>7 DEF Consistent, InLine
<1> QED  BY <1>1, LineIsConsistent, PTL DEF Spec, FlushSettlesAll
=============================================================================
