---------------------------- MODULE SandboxUsage ----------------------------
(***************************************************************************)
(* The usage meter of a session's sandbox: intervals opened and settled    *)
(* from what the runtime observes of a sandbox whose provider ends it at   *)
(* the lifetime set by the last create or resume (packages/runtime/src/    *)
(* sandbox-usage.ts, and the calls native-bash.ts and runtime.ts make).    *)
(*                                                                         *)
(* A provider call begins, takes effect and is answered at three times.    *)
(* Instants are naturals; a record is its interval without the price.      *)
(***************************************************************************)
EXTENDS Integers, Sequences

CONSTANTS
  Lifetime,   \* the provider's maxRunMs
  MaxTime,    \* bound: the last instant
  MaxCalls    \* bound: provider calls

ASSUME BoundsAssumption == Lifetime \in Nat \ {0} /\ MaxTime \in Nat /\ MaxCalls \in Nat

Instants == 0 .. MaxTime
Never == -1

VARIABLES
  now,
  (* The session record and its ledger. *)
  handle,     \* the session has a sandboxState
  meter,      \* sandboxRunningSince, sandboxRunningUncertain, sandboxRunDeadline
  ledger,     \* the table sandbox_usage, oldest first
  (* The process. *)
  up,         \* a process is up
  call,       \* the provider call it waits for, and when that call began
  calls,      \* how many calls have been made
  (* The provider. *)
  box,        \* the session's sandbox: "none", "running", "paused" or "gone"
  expiry,     \* when the provider ends it
  (* History. *)
  unseen,     \* it runs by a call whose caller died before recording it, or past the
              \* deadline of an interval settled as expired
  ran,        \* instants at which it ran
  ranUnseen,  \* those of them at which it did so unseen
  watched,    \* a process has been up, and sure of it, since the last observation
  blind       \* instants at which none was

session == <<handle, meter, ledger>>
process == <<up, call, calls>>
provider == <<box, expiry>>
history == <<unseen, ran, ranUnseen, watched, blind>>
vars == <<now, session, process, provider, history>>

Off == [since |-> Never, uncertain |-> FALSE, deadline |-> Never]
NoCall == [kind |-> "none", at |-> Never, done |-> FALSE]
Init ==
  /\ now = 0
  /\ handle = FALSE /\ meter = Off /\ ledger = <<>>
  /\ up = TRUE /\ call = NoCall /\ calls = 0
  /\ box = "none" /\ expiry = 0
  /\ unseen = FALSE /\ ran = {} /\ ranUnseen = {} /\ watched = TRUE /\ blind = {}
-----------------------------------------------------------------------------
(* The meter.                                                              *)
Least(a, b) == IF a < b THEN a ELSE b
Most(a, b) == IF a < b THEN b ELSE a

\* Fault: an interval opens when the provider has answered.
StartWhenAnswered(m, at) ==
  IF m.since # Never THEN m
  ELSE [since |-> now, uncertain |-> FALSE, deadline |-> now + Lifetime]
Start(m, at) ==
  IF m.since # Never THEN m
  ELSE [since |-> at, uncertain |-> FALSE, deadline |-> at + Lifetime]

\* appendUsage: the record of a stretch of running time that was observed at an instant.
Charged(reason, from, to, at, certain) ==
  <<[reason |-> reason, from |-> from, to |-> to, observed |-> at, certain |-> certain]>>

\* What settling the open interval at an observed end appends to the ledger: nothing
\* past the deadline, and what was cut off there or was not observed is uncertain.
\* Fault: time that was not observed is charged as certain.
SettledAsCertain(m, reason, at, doubt) ==
  IF m.since = Never THEN <<>>
  ELSE LET end == Most(m.since, Least(at, m.deadline)) IN
       Charged(reason, m.since, end, Most(at, end), ~doubt /\ ~m.uncertain)
Settled(m, reason, at, doubt) ==
  IF m.since = Never THEN <<>>
  ELSE LET end == Most(m.since, Least(at, m.deadline)) IN
       Charged(reason, m.since, end, Most(at, end), ~doubt /\ ~m.uncertain /\ end >= at)

\* recordSandboxTransition.  A resume of a sandbox that was watched extends its deadline;
\* one of a sandbox that was not settles the unobserved stretch and starts another.
ObserveRunning(at) ==
  IF meter.since # Never /\ ~meter.uncertain
  THEN /\ meter' = [meter EXCEPT !.deadline = at + Lifetime]
       /\ UNCHANGED ledger
  ELSE /\ meter' = Start(Off, at)
       /\ ledger' = ledger \o Settled(meter, "reconnected", at, FALSE)

ObserveUnsure ==
  /\ meter' = IF meter.since = Never THEN meter ELSE [meter EXCEPT !.uncertain = TRUE]
  /\ UNCHANGED ledger

\* Fault: the end of an interval leaves it open.
ObserveEndOnly(reason, doubt) ==
  /\ meter' = meter
  /\ ledger' = ledger \o Settled(meter, reason, now, doubt)
ObserveEnd(reason, doubt) ==
  /\ meter' = Off
  /\ ledger' = ledger \o Settled(meter, reason, now, doubt)
-----------------------------------------------------------------------------
(* The runtime.                                                            *)
Begin(kind) ==
  /\ up /\ call = NoCall
  /\ calls < MaxCalls
  /\ calls' = calls + 1
  /\ CASE kind = "create" -> ~handle \/ (box = "gone" /\ meter = Off)
       [] kind = "resume" -> handle
       [] kind = "pause"  -> handle /\ meter # Off /\ ~meter.uncertain
       [] kind = "delete" -> handle
  /\ call' = [kind |-> kind, at |-> now, done |-> FALSE]
  /\ UNCHANGED <<now, session, up, provider, history>>

\* What a process knows from an answer it knows since it made the call.
Answered ==
  /\ call' = NoCall
  /\ watched' = TRUE
  /\ blind' = {t \in blind : t < call.at}
  /\ unseen' = FALSE
  /\ UNCHANGED <<now, up, calls, expiry, ran, ranUnseen>>

\* The sandbox is recorded with its interval, or the turn has ended meanwhile: the
\* sandbox is stopped, or charged up to its lifetime.
Created ==
  /\ call.kind = "create" /\ call.done
  /\ \/ /\ handle' = TRUE
        /\ meter' = Start(meter, call.at)
        /\ UNCHANGED <<ledger, box>>
     \/ /\ UNCHANGED <<handle, meter>>
        /\ box' = IF handle THEN "gone" ELSE "none"
        /\ \E stopped \in BOOLEAN :
             ledger' = ledger \o Charged("discarded", call.at,
                         IF stopped THEN now ELSE call.at + Lifetime, now, stopped)
  /\ Answered

Resumed ==
  /\ call.kind = "resume"
  /\ \/ call.done /\ ObserveRunning(call.at)
     \/ ~call.done /\ box = "gone" /\ ObserveEnd("missing", TRUE)
  /\ UNCHANGED <<handle, box>>
  /\ Answered

Paused ==
  /\ call.kind = "pause" /\ call.done
  /\ ObserveEnd("paused", FALSE)
  /\ UNCHANGED <<handle, box>>
  /\ Answered

\* A pause that fails may have taken effect.
PauseFails ==
  /\ call.kind = "pause"
  /\ ObserveUnsure
  /\ call' = NoCall
  /\ watched' = FALSE
  /\ UNCHANGED <<now, handle, up, calls, provider, unseen, ran, ranUnseen, blind>>

\* cleanupSandbox; a provider deletes a sandbox that is gone without complaint.
Deleted ==
  /\ call.kind = "delete" /\ call.done
  /\ ObserveEnd("deleted", FALSE)
  /\ handle' = FALSE
  /\ box' = "none"
  /\ Answered

\* A call fails with an error that says nothing of the sandbox.
CallFails ==
  /\ call.kind \in {"create", "resume", "delete"} /\ ~call.done
  /\ call' = NoCall
  /\ UNCHANGED <<now, session, up, calls, provider, history>>

\* What runs by a call that a dead process made is seen only if an interval was open; a
\* sandbox that was being created never becomes the session's.
Crash ==
  /\ up
  /\ up' = FALSE
  /\ call' = NoCall
  /\ watched' = FALSE
  /\ unseen' = (unseen \/ (call.kind = "resume" /\ call.done /\ meter = Off))
  /\ LET pending == {t \in ran : call # NoCall /\ t >= call.at} IN
       /\ ran' = IF call.kind = "create" THEN ran \ pending ELSE ran
       /\ ranUnseen' = IF call.kind = "resume" /\ meter = Off
                       THEN ranUnseen \cup pending ELSE ranUnseen
  /\ box' = IF call.kind = "create" /\ call.done THEN IF handle THEN "gone" ELSE "none" ELSE box
  /\ UNCHANGED <<now, session, calls, expiry, blind>>

\* inheritSandboxUsage, in the transaction that opens the state root.  The deadline is
\* counted from the call, the provider's lifetime from when the call took effect, so an
\* expired sandbox may run on for as long as that took.
Open ==
  /\ ~up
  /\ up' = TRUE
  /\ IF meter.since # Never /\ meter.deadline <= now
     THEN ObserveEnd("expired", TRUE) /\ unseen' = (box = "running")
     ELSE ObserveUnsure /\ UNCHANGED unseen
  /\ UNCHANGED <<now, handle, call, calls, provider, ran, ranUnseen, watched, blind>>
-----------------------------------------------------------------------------
(* The provider and the clock.                                             *)
TakeEffect ==
  /\ call.kind # "none" /\ ~call.done
  /\ call' = [call EXCEPT !.done = TRUE]
  /\ CASE call.kind = "create" -> box' = "running" /\ expiry' = now + Lifetime
       [] call.kind = "resume" -> /\ box \in {"running", "paused"}
                                  /\ box' = "running" /\ expiry' = now + Lifetime
       [] call.kind = "pause"  -> box = "running" /\ box' = "paused" /\ UNCHANGED expiry
       [] call.kind = "delete" -> box' = "gone" /\ UNCHANGED expiry
  /\ unseen' = (unseen /\ call.kind # "create")
  /\ UNCHANGED <<now, session, up, calls, ran, ranUnseen, watched, blind>>

\* Time passes; a sandbox that has reached the end of its lifetime is gone.
Tick ==
  /\ now < MaxTime
  /\ now' = now + 1
  /\ ran' = IF box = "running" THEN ran \cup {now} ELSE ran
  /\ ranUnseen' = IF box = "running" /\ unseen THEN ranUnseen \cup {now} ELSE ranUnseen
  /\ blind' = IF watched THEN blind ELSE blind \cup {now}
  /\ box' = IF box = "running" /\ expiry <= now + 1 THEN "gone" ELSE box
  /\ UNCHANGED <<session, process, expiry, unseen, watched>>

\* A sandbox is lost before its time.
Vanish ==
  /\ box \in {"running", "paused"}
  /\ box' = "gone"
  /\ UNCHANGED <<now, session, process, expiry, history>>

Next ==
  \/ \E kind \in {"create", "resume", "pause", "delete"} : Begin(kind)
  \/ Created \/ Resumed \/ Paused \/ PauseFails \/ Deleted \/ CallFails
  \/ Crash \/ Open
  \/ TakeEffect \/ Tick \/ Vanish

Spec == Init /\ [][Next]_vars
-----------------------------------------------------------------------------
(* Properties.                                                             *)

\* No second is charged twice: the intervals of the session's sandboxes follow one
\* another, and the open one follows them all.
Own == {i \in DOMAIN ledger : ledger[i].reason # "discarded"}
IntervalsAreDisjoint ==
  \A i \in Own :
    /\ \A j \in Own : i < j => ledger[i].to <= ledger[j].from
    /\ meter # Off => ledger[i].to <= meter.since

\* Every instant the session's sandbox ran, except unseen, lies in a stretch that a
\* record or the open interval speaks for.
Spoken(t) ==
  \/ \E i \in DOMAIN ledger : ledger[i].from <= t /\ t < ledger[i].observed
  \/ meter # Off /\ meter.since <= t
  \/ call # NoCall /\ call.at <= t
RunningIsMetered == \A t \in ran \ ranUnseen : Spoken(t)

\* "Time nobody observed is marked uncertain": no certain record covers an instant at
\* which no process was up and sure of the sandbox, or an end that came before the
\* observation.
CertainWasWatched ==
  \A i \in DOMAIN ledger : ledger[i].certain =>
    /\ ledger[i].to = ledger[i].observed
    /\ \A t \in blind : ~(ledger[i].from <= t /\ t < ledger[i].to)

=============================================================================
