---------------------------- MODULE EventStream ----------------------------
(***************************************************************************)
(* NimplexRuntime.events: the async generator through which a product      *)
(* surface follows the committed events of one turn, against the execution *)
(* that appends them and the listeners it notifies (runtime.ts 425-453).   *)
(*                                                                         *)
(* The generator runs without interruption from one `yield` or `await` to  *)
(* the next: that is one step.  Between two of them anything may happen,   *)
(* for as long as the consumer's loop body takes.                          *)
(***************************************************************************)
EXTENDS Integers, Sequences, FiniteSetsExt

CONSTANTS
  Readers,    \* consumers, each with a generator of its own
  MaxRows   \* bound: how many events the turn commits

ASSUME EventsAssumption == MaxRows \in Nat \ {0, 1}

VARIABLES
  log,        \* the sequence numbers of the turn's rows in `events`
  status,     \* "running", "interrupted" or "settled"
  active,     \* the runtime's map `active` holds the turn
  owed,       \* a commit has returned and its notify has not run yet
  closing,    \* close has been called
  reader      \* reader[r]: the generator of r, at its last suspension

streamVars == <<log, status, active, owed, closing, reader>>

NotStarted == [at |-> "idle", from |-> -1, after |-> -1, batch |-> {}, woken |-> FALSE,
               aborted |-> FALSE, sent |-> <<>>]

Suspended == {"yielded", "waiting"}

\* A fresh turn has two events; one that an earlier process left has more, and is
\* settled or waits to be resumed.
StreamInit ==
  /\ \/ log = 0 .. 1 /\ status = "running" /\ active = TRUE
     \/ /\ \E n \in 1 .. MaxRows - 1 : log = 0 .. n
        /\ status \in {"interrupted", "settled"}
        /\ active = FALSE
  /\ owed = FALSE
  /\ closing = FALSE
  /\ reader = [r \in Readers |-> NotStarted]
-----------------------------------------------------------------------------
(* The generator.                                                          *)
Over == ~active /\ status # "running"

\* Fault: the cursor is included in the next read.
UnreadInclusive(k) == {q \in log : q >= k.after}
Unread(k) == {q \in log : q > k.after}

\* From a `yield` or the top of the loop to the next suspension: the batch that was
\* read first, then the two returns, then the wait.
Drain(k) ==
  IF k.batch # {}
  THEN LET q == Min(k.batch) IN
       [k EXCEPT !.at = "yielded", !.after = q, !.batch = @ \ {q}, !.sent = Append(@, q)]
  ELSE IF Over \/ closing \/ k.aborted THEN [k EXCEPT !.at = "done"]
  ELSE [k EXCEPT !.at = "waiting"]

\* The promise to wait for is made before the log is read.
Loop(k) ==
  IF k.aborted THEN [k EXCEPT !.at = "done"]
  ELSE Drain([k EXCEPT !.woken = FALSE, !.batch = Unread(k)])

\* The first `next()` registers the listener and runs to the first suspension.
Subscribe(r, from) ==
  /\ reader[r].at = "idle"
  /\ reader' = [reader EXCEPT ![r] = Loop([@ EXCEPT !.from = from, !.after = from])]
  /\ UNCHANGED <<log, status, active, owed, closing>>

\* The consumer asks for the next event.
Pull(r) ==
  /\ reader[r].at = "yielded"
  /\ reader' = [reader EXCEPT ![r] = Drain(@)]
  /\ UNCHANGED <<log, status, active, owed, closing>>

WakeUp(r) ==
  /\ reader[r].at = "waiting"
  /\ reader[r].woken
  /\ reader' = [reader EXCEPT ![r] = Loop(@)]
  /\ UNCHANGED <<log, status, active, owed, closing>>

\* The consumer breaks out of its loop; `finally` unregisters the listener.
Unsubscribe(r) ==
  /\ reader[r].at = "yielded"
  /\ reader' = [reader EXCEPT ![r].at = "left"]
  /\ UNCHANGED <<log, status, active, owed, closing>>

AbortReader(r) ==
  /\ reader[r].at \in Suspended
  /\ ~reader[r].aborted
  /\ reader' = [reader EXCEPT ![r].aborted = TRUE, ![r].woken = TRUE]
  /\ UNCHANGED <<log, status, active, owed, closing>>
-----------------------------------------------------------------------------
(* The execution, and what it tells the listeners.                         *)

\* `notify` resolves the promise each registered generator has made last.
Notify ==
  reader' = [r \in Readers |-> IF reader[r].at \in Suspended
                               THEN [reader[r] EXCEPT !.woken = TRUE] ELSE reader[r]]

\* One transaction appends n events after the newest row.
AppendEvents(n) ==
  /\ Cardinality(log) + n <= MaxRows
  /\ log' = log \cup (Max(log) + 1 .. Max(log) + n)

\* The harness engine commits inside an async function and notifies when it returns.
Commit(n) ==
  /\ active
  /\ status = "running"
  /\ AppendEvents(n)
  /\ owed' = TRUE
  /\ UNCHANGED <<status, active, closing, reader>>

\* Fault: a commit is not announced.
AnnounceNothing == owed /\ owed' = FALSE /\ UNCHANGED <<log, status, active, closing, reader>>
Announce ==
  /\ owed
  /\ Notify
  /\ owed' = FALSE
  /\ UNCHANGED <<log, status, active, closing>>

\* `finish` commits the last event of an execution and notifies at once.
Finish ==
  /\ active
  /\ status = "running"
  /\ AppendEvents(1)
  /\ status' = IF closing THEN "interrupted" ELSE "settled"
  /\ Notify
  /\ UNCHANGED <<active, owed, closing>>

\* The `finally` of launch removes the task, then notifies.
Release ==
  /\ active
  /\ status # "running"
  /\ active' = FALSE
  /\ Notify
  /\ UNCHANGED <<log, status, owed, closing>>

\* resumeTurn commits run.resumed and launches, which notifies.
Resume ==
  /\ ~active
  /\ ~closing
  /\ status = "interrupted"
  /\ AppendEvents(1)
  /\ status' = "running"
  /\ active' = TRUE
  /\ Notify
  /\ UNCHANGED <<owed, closing>>

CloseRuntime ==
  /\ ~closing
  /\ closing' = TRUE
  /\ Notify
  /\ UNCHANGED <<log, status, active, owed>>

Consumer(r) ==
  \/ \E from \in {-1} \cup log : Subscribe(r, from)
  \/ Pull(r)
  \/ WakeUp(r)
  \/ Unsubscribe(r)
  \/ AbortReader(r)

StreamNext ==
  \/ \E r \in Readers : Consumer(r)
  \/ \E n \in 1 .. 2 : Commit(n)
  \/ Announce
  \/ Finish
  \/ Release
  \/ Resume
  \/ CloseRuntime

StreamSpec == StreamInit /\ [][StreamNext]_streamVars

\* Consumers keep asking, resolved promises run on, and what the execution has begun
\* to tell it tells; nothing makes a turn finish.
StreamFairSpec ==
  /\ StreamSpec
  /\ \A r \in Readers : WF_streamVars(Pull(r)) /\ WF_streamVars(WakeUp(r))
  /\ WF_streamVars(Announce)
  /\ WF_streamVars(Release)
-----------------------------------------------------------------------------
(* Properties.                                                             *)
Ended(r) == reader[r].at \in {"done", "left"}

\* A consumer gets the events after its cursor one by one, in commit order, none
\* twice and none left out, however commits fall between its reads.
InOrder ==
  \A r \in Readers : \A i \in DOMAIN reader[r].sent : reader[r].sent[i] = reader[r].from + i

\* What is committed while a consumer follows is delivered to it, or its stream ends; and
\* the stream of a turn that is over for good, or of a runtime that closes, does end.
FollowersCatchUp ==
  \A r \in Readers :
    /\ \A q \in 0 .. MaxRows - 1 :
         q \in log /\ reader[r].at \in Suspended /\ q > reader[r].after
           ~> (reader[r].at \in Suspended /\ reader[r].after >= q) \/ Ended(r)
    /\ (Over /\ status = "settled") \/ closing ~> reader[r].at = "idle" \/ Ended(r)

=============================================================================
