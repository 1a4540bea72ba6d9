----------------------------- MODULE Extensions -----------------------------
(* The mutations an extension makes to its session, in one activation after   *)
(* another: pi-extensions/mutations.ts (the line), settings-actions.ts (the   *)
(* setters), model-change.ts (a change of two settings as one), tools.ts and  *)
(* bridge.ts (what waits for the line).                                       *)
(*                                                                            *)
(* A setter of Pi answers at once: it stages an operation on the line and     *)
(* shows the value to come.  Operations commit one by one; a notification     *)
(* runs beside the line when its operation has committed, and its handler may *)
(* call setters again, and wait for them.  Whatever depends on the settings   *)
(* first waits until line and notifications are drained.                      *)
EXTENDS Naturals, Sequences, FiniteSets

CONSTANTS
    Models, Levels,     \* models, and thinking levels besides "off"
    Reasoning,          \* the models that can think: of the others every level is "off"
    MaxStaged,          \* bound: operations staged and refreshes begun in an activation
    MaxLives            \* bound: activations

ASSUME ExtensionsAssumption ==
    /\ Reasoning \subseteq Models /\ Models # {}
    /\ {MaxStaged, MaxLives} \subseteq Nat

VARIABLES
    preference,     \* the user's settings: the thinking level for a model, if there is one
    lane,           \* durable: the lane's model and level
    change,         \* durable: the last model change
    whole,          \* history: the configuration after the last change that was completed
    lives, up,      \* "down", "starting", "open" or "closed"
    ops, settled,   \* operations in the order of their staging, and how many have settled
    step,           \* how far the next one is
    done,           \* operations that committed, in that order
    failure,        \* the first failure, latched
    view,           \* the values the getters show, with the counters behind them
    refresh,        \* a reading of the lane's settings for the view, in an open activation
    torn,           \* history: the last one did not run at a drained boundary
    notes,          \* notifications that have not ended
    drain           \* the waits of a hook's flush and of close

durable  == <<lane, change>>
line     == <<ops, settled, step, done, failure>>
reading  == <<refresh, torn>>
vars     == <<preference, durable, whole, lives, up, line, view, reading, notes, drain>>

None      == "none"
AllLevels == Levels \cup {"off"}
Clamp(model, level) == IF model \in Reasoning THEN level ELSE "off"
Drains    == {"hook", "close"}
Refreshers == {"hook", "event"}      \* who reads the view again, one at a time
Idle      == [at |-> "idle", observed |-> 0, notes |-> {}]
NoView    == [model |-> None, level |-> None, next |-> 0, projected |-> 0]
NoRefresh == [by |-> None, model |-> None, level |-> None, since |-> 0, n |-> 0]
NoChange  == [status |-> None, model |-> None, level |-> None]

Init ==
    /\ preference \in [Reasoning -> Levels \cup {None}]
    /\ lane \in {[model |-> m, level |-> Clamp(m, l)] : m \in Models, l \in AllLevels}
    /\ change = NoChange /\ whole = lane
    /\ lives = 0 /\ up = "down"
    /\ ops = <<>> /\ settled = 0 /\ step = "queued" /\ done = <<>> /\ failure = FALSE
    /\ view = NoView /\ refresh = NoRefresh /\ torn = FALSE
    /\ notes = {} /\ drain = [d \in Drains |-> Idle]

Closed  == up = "closed"
Healthy == ~failure /\ ~Closed

------------------------------------------------------------------------------
(* The setters.  Each asks first whether the activation is healthy.           *)

Op(kind, model, level, intent) == [kind |-> kind, model |-> model, level |-> level, intent |-> intent]
Staged == Len(ops)
Bounded == Staged + refresh.n < MaxStaged
Stage(op) == ops' = Append(ops, op)

\* A notification of an operation: it waits for it, then its handler runs.
Note(n) == [op |-> n, at |-> "waiting", on |-> 0]

\* setActiveTools, and sendMessage and sendUserMessage of the bridge.
SetPlain == Stage(Op("plain", None, None, 0)) /\ UNCHANGED <<view, notes>>

\* setSessionName and setLabel: something is to be done when they have committed.
SetNamed == Stage(Op("plain", None, None, 0)) /\ notes' = notes \cup {Note(Staged + 1)} /\ UNCHANGED view

\* Sees the value staged last; a level that is shown already is not set again.
SetThinkingLevel(level) ==
    LET effective == Clamp(view.model, level) IN
    /\ effective # view.level
    /\ Stage(Op("level", None, effective, 0))
    /\ view' = [view EXCEPT !.level = effective, !.next = @ + 1, !.projected = view.next + 1]
    /\ notes' = notes \cup {Note(Staged + 1)}

SetModel(model) ==
    /\ Stage(Op("model", model, None, view.next + 1))
    /\ view' = [view EXCEPT !.next = @ + 1]
    /\ notes' = notes \cup {Note(Staged + 1)}

Setter == \/ SetPlain \/ SetNamed
          \/ \E l \in AllLevels : SetThinkingLevel(l)
          \/ \E m \in Models : SetModel(m)

\* Extension code calls a setter, from a hook or from a callback of its own.
Call ==
    /\ up = "open" /\ Healthy /\ Bounded
    /\ Setter
    /\ UNCHANGED <<preference, durable, whole, lives, up, settled, step, done, failure, reading, drain>>

------------------------------------------------------------------------------
(* The line                                                                   *)

\* Fault: an operation waits for the notifications of those before it, too.
MayRunAfterNotes == settled < Staged /\ \A note \in notes : note.op > settled
MayRun == settled < Staged

LineOnly == UNCHANGED <<preference, lives, up, ops, reading, drain>>
Settle == settled' = settled + 1 /\ step' = "queued"
Done   == done' = Append(done, settled + 1)

\* An operation runs only if nothing has failed, and with a failure that is latched meanwhile
\* its next commit is refused; the first failure stays.
\* Fault: the operations after a failure run.
RefusedNever == FALSE
Refused == failure
Skip ==
    /\ MayRun /\ step # "applied" /\ Refused
    /\ Settle /\ UNCHANGED <<durable, whole, done, failure, view, notes>> /\ LineOnly
Throw ==
    /\ MayRun /\ ~Refused
    /\ Settle /\ failure' = TRUE /\ UNCHANGED <<durable, whole, done, view, notes>> /\ LineOnly

Running(kind, s) == MayRun /\ step = s /\ (s # "applied" => ~Refused) /\ ops[settled + 1].kind = kind

CommitPlain ==
    /\ Running("plain", "queued")
    /\ Settle /\ Done /\ UNCHANGED <<durable, whole, failure, view, notes>> /\ LineOnly
CommitLevel ==
    /\ Running("level", "queued")
    /\ lane' = [lane EXCEPT !.level = ops[settled + 1].level]
    /\ whole' = [whole EXCEPT !.level = ops[settled + 1].level]
    /\ Settle /\ Done /\ UNCHANGED <<change, failure, view, notes>> /\ LineOnly

\* PiExtensionModelChanges.set: without credentials nothing happens.
Decline ==
    /\ Running("model", "queued")
    /\ Settle /\ Done /\ UNCHANGED <<durable, whole, failure, view, notes>> /\ LineOnly

\* The level for the model: the user's preference, or the one that is shown now.
LevelFor(model) ==
    IF model \in Reasoning /\ preference[model] # None THEN preference[model] ELSE Clamp(model, view.level)
AcceptChange ==
    /\ Running("model", "queued") /\ change.status # "accepted"
    /\ LET model == ops[settled + 1].model IN
       change' = [status |-> "accepted", model |-> model, level |-> LevelFor(model)]
    /\ step' = "accepted"
    /\ UNCHANGED <<lane, whole, settled, done, failure, view, notes>> /\ LineOnly

\* apply: two commits of Pi's, and a third that closes the change.
Applying(s) == Running("model", s) \/ Running("recover", s)
ApplyModel ==
    /\ Applying("accepted") /\ lane' = [lane EXCEPT !.model = change.model] /\ step' = "model"
    /\ UNCHANGED <<change, whole, settled, done, failure, view, notes>> /\ LineOnly
ApplyLevel ==
    /\ Applying("model") /\ lane' = [lane EXCEPT !.level = change.level] /\ step' = "level"
    /\ UNCHANGED <<change, whole, settled, done, failure, view, notes>> /\ LineOnly
ApplyDone ==
    /\ Applying("level") /\ change' = [change EXCEPT !.status = "applied"] /\ whole' = lane /\ step' = "applied"
    /\ UNCHANGED <<lane, settled, done, failure, view, notes>> /\ LineOnly

\* setModel goes on: the level it chose is shown unless one was set since.
\* Fault: it is shown in any case.
ShowAlways(intent) ==
    view' = [view EXCEPT !.model = change.model, !.level = change.level, !.projected = intent]
Show(intent) ==
    view' = IF intent >= view.projected
            THEN [view EXCEPT !.model = change.model, !.level = change.level, !.projected = intent]
            ELSE [view EXCEPT !.model = change.model]
ChangeSettles ==
    /\ Running("model", "applied") /\ Show(ops[settled + 1].intent)
    /\ Settle /\ Done /\ UNCHANGED <<durable, whole, failure, notes>> /\ LineOnly

\* recover, the first operation of an activation.
Recover ==
    /\ Running("recover", "queued")
    /\ IF change.status = "accepted" THEN step' = "accepted" /\ UNCHANGED <<settled, done>>
                                     ELSE Settle /\ Done
    /\ UNCHANGED <<durable, whole, failure, view, notes>> /\ LineOnly
Recovered ==
    /\ Running("recover", "applied")
    /\ Settle /\ Done /\ UNCHANGED <<durable, whole, failure, view, notes>> /\ LineOnly

Line == \/ Skip \/ CommitPlain \/ CommitLevel \/ AcceptChange \/ ApplyModel \/ ApplyLevel \/ ApplyDone
        \/ ChangeSettles \/ Recover \/ Recovered
LineThrows == Throw \/ Decline

------------------------------------------------------------------------------
(* Notifications, tracked beside the line                                     *)

NoteOnly == UNCHANGED <<preference, durable, whole, lives, up, settled, step, done, reading, drain>>
Ended(note) == notes' = notes \ {note}

\* One whose operation did not commit is rejected with it, and latches the failure.
Reject(note) ==
    /\ note.at = "waiting" /\ note.op <= settled /\ \A i \in DOMAIN done : done[i] # note.op
    /\ Ended(note) /\ failure' = TRUE /\ UNCHANGED <<ops, view>> /\ NoteOnly
Committed(note) == note.at = "waiting" /\ \E i \in DOMAIN done : done[i] = note.op
Emit(note) == Committed(note) /\ Ended(note) /\ UNCHANGED <<ops, failure, view>> /\ NoteOnly

\* A handler waits for another setModel: for the notification that this one tracks.
AwaitModel(note, model) ==
    /\ Committed(note) /\ up = "open" /\ Healthy /\ Bounded
    /\ Stage(Op("model", model, None, view.next + 1))
    /\ view' = [view EXCEPT !.next = @ + 1]
    /\ notes' = (notes \ {note}) \cup {[note EXCEPT !.at = "nested", !.on = Staged + 1], Note(Staged + 1)}
    /\ UNCHANGED failure /\ NoteOnly
Awaited(note) ==
    /\ note.at = "nested" /\ \A other \in notes : other.op # note.on
    /\ Ended(note) /\ UNCHANGED <<ops, failure, view>> /\ NoteOnly

------------------------------------------------------------------------------
(* Draining                                                                   *)

DrainOnly == UNCHANGED <<preference, durable, whole, lives, line, view, reading, notes>>

\* What a drain waits for besides the line: notifications, and a refresh that is tracked (0).
Tracked == {note.op : note \in notes} \cup (IF refresh.by = "event" THEN {0} ELSE {})
Observe(d) == drain' = [drain EXCEPT ![d] = [at |-> "waiting", observed |-> Staged, notes |-> Tracked]]
Seen(d) == /\ drain[d].at = "waiting" /\ settled >= drain[d].observed
           /\ Tracked \cap drain[d].notes = {}

\* The loop of drain: until nothing has been staged or tracked since it last looked.
\* Fault: it looks once.
DrainedOnce(d) == Seen(d)
Drained(d) == Seen(d) /\ drain[d].observed = Staged /\ Tracked = {}

Flush == /\ up = "open" /\ drain["hook"].at = "idle" /\ Observe("hook")
         /\ UNCHANGED up /\ DrainOnly
Again(d) == Seen(d) /\ ~Drained(d) /\ Observe(d) /\ UNCHANGED up /\ DrainOnly
Return(d) ==
    /\ Drained(d)
    /\ drain' = [drain EXCEPT ![d] = [Idle EXCEPT !.at = IF failure \/ (d = "hook" /\ Closed)
                                                         THEN "failed" ELSE "returned"]]
    /\ UNCHANGED up /\ DrainOnly

\* What waited for a flush goes on: a tool runs or a hook answers, and may come again.
Resume == drain["hook"].at \in {"returned", "failed"} /\ drain' = [drain EXCEPT !["hook"] = Idle]
          /\ UNCHANGED up /\ DrainOnly

Close == /\ up = "open" /\ up' = "closed" /\ Observe("close") /\ DrainOnly

------------------------------------------------------------------------------
(* refresh: the view is read from the lane again, over awaits, while whatever *)
(* else goes on.  A hook of Pi's waits for it (before_compaction has flushed  *)
(* just before), or the event of a compaction that ended starts and tracks it.*)

RefreshOnly == UNCHANGED <<preference, durable, whole, lives, up, ops, settled, step, done, notes>>
BeginRefresh(by) ==
    /\ up = "open" /\ refresh.by = None /\ Bounded
    /\ by = "event" => Healthy
    /\ refresh' = [NoRefresh EXCEPT !.by = by, !.since = settled, !.n = refresh.n + 1]
    /\ UNCHANGED <<failure, view, torn, drain>> /\ RefreshOnly
ReadModel ==
    /\ refresh.by # None /\ refresh.model = None /\ refresh' = [refresh EXCEPT !.model = lane.model]
    /\ UNCHANGED <<failure, view, torn, drain>> /\ RefreshOnly
ReadLevel ==
    /\ refresh.by # None /\ refresh.level = None /\ refresh' = [refresh EXCEPT !.level = lane.level]
    /\ UNCHANGED <<failure, view, torn, drain>> /\ RefreshOnly

\* The one that was tracked is no longer waited for.
RefreshEnds ==
    /\ refresh' = [NoRefresh EXCEPT !.n = refresh.n]
    /\ drain' = [d \in Drains |-> [drain[d] EXCEPT !.notes = @ \ {0}]]
    /\ RefreshOnly
\* What was read is shown, also if something has been staged or has committed meanwhile.
Refreshed ==
    /\ refresh.by # None /\ refresh.model # None /\ refresh.level # None
    /\ view' = [view EXCEPT !.model = refresh.model, !.level = refresh.level]
    /\ torn' = (refresh.since # Staged)
    /\ UNCHANGED failure /\ RefreshEnds
RefreshThrows ==
    refresh.by # None /\ failure' = TRUE /\ UNCHANGED <<view, torn>> /\ RefreshEnds

Refreshing == ReadModel \/ ReadLevel \/ Refreshed

------------------------------------------------------------------------------
(* Pi's dispatches, and the life of an activation                             *)

\* guardDispatch, in the storage path: Pi may dispatch an effect, with the lane's settings.
\* Fault: there is no such guard.
MayDispatchUnguarded == up # "down" /\ Healthy
MayDispatch == up # "down" /\ Healthy /\ change.status # "accepted"

\* PiExtensionSettingsActions.create stages the recovery, then reads the settings.
Activate ==
    /\ up = "down" /\ lives < MaxLives
    /\ lives' = lives + 1 /\ up' = "starting"
    /\ ops' = <<Op("recover", None, None, 0)>> /\ settled' = 0 /\ step' = "queued" /\ done' = <<>>
    /\ failure' = FALSE /\ notes' = {} /\ drain' = [d \in Drains |-> Idle]
    /\ view' = NoView /\ refresh' = NoRefresh /\ torn' = FALSE
    /\ UNCHANGED <<preference, durable, whole>>
\* The first refresh: nothing can be staged or commit before it ends.
Start ==
    /\ up = "starting" /\ done # <<>>
    /\ up' = "open" /\ view' = [view EXCEPT !.model = lane.model, !.level = lane.level]
    /\ UNCHANGED <<preference, durable, whole, lives, line, reading, notes, drain>>

\* The process dies, or an activation that closed or could not start is left.
Leave ==
    /\ up # "down" /\ up' = "down"
    /\ ops' = <<>> /\ settled' = 0 /\ step' = "queued" /\ done' = <<>> /\ failure' = FALSE
    /\ notes' = {} /\ drain' = [d \in Drains |-> Idle]
    /\ view' = NoView /\ refresh' = NoRefresh /\ torn' = FALSE
    /\ UNCHANGED <<preference, durable, whole, lives>>

Notes == \E note \in notes : Reject(note) \/ Emit(note) \/ Awaited(note)
Draining == \/ \E d \in Drains : Again(d) \/ Return(d)
            \/ Resume
Next ==
    \/ Call \/ Line \/ LineThrows \/ Notes
    \/ \E note \in notes, m \in Models : AwaitModel(note, m)
    \/ Flush \/ Draining \/ Close
    \/ \E by \in Refreshers : BeginRefresh(by)
    \/ Refreshing \/ RefreshThrows
    \/ Activate \/ Start \/ Leave

Spec == Init /\ [][Next]_vars

\* Commits and handlers come to an end, and promises settle.
FairSpec == Spec /\ WF_vars(Line) /\ WF_vars(Notes) /\ WF_vars(Draining) /\ WF_vars(Refreshing)

------------------------------------------------------------------------------
(* Properties                                                                 *)

\* What has committed is what was staged first, in that order: after a failure, that of a
\* notification included, nothing that was staged behind it commits, even though Pi
\* swallows the error of the handler that met it.
CommitsInOrder == \A i \in DOMAIN done : done[i] = i

\* An effect that waited for a flush goes on only when all that was staged by then has
\* committed, also what the handlers of notifications staged meanwhile.
FlushSettlesAll ==
    [][drain["hook"].at = "waiting" /\ drain'["hook"].at = "returned"
       => Len(done) = Staged /\ notes = {} /\ refresh.by # "event" /\ ~failure]_vars

\* The getters, which run ahead of the line, agree with the lane when the line is idle: always
\* if each refresh runs at a drained boundary, as its comment asks, from its first read until
\* it ends; and again once one has, after others that did not.
Idling == up = "open" /\ settled = Staged /\ ~failure
Agrees == view.model = lane.model /\ view.level = lane.level
ViewMatchesLane == Idling /\ ~torn => Agrees

\* No effect is dispatched with the model of one change and the thinking level of another,
\* although they are committed apart and a death may come between.
DispatchesSeeWholeChanges == MayDispatch => lane = whole

\* Draining ends, although it waits for notifications whose handlers wait for operations
\* staged behind those it waits for.
DrainsEnd == \A d \in Drains : drain[d].at = "waiting" ~> drain[d].at # "waiting"
=============================================================================
