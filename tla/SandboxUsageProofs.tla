------------------------- MODULE SandboxUsageProofs -------------------------
(***************************************************************************)
(* Proofs about the usage meter, for any lifetime and any number of calls: *)
(* no second is charged twice, every second the sandbox ran in sight is    *)
(* spoken for, and a certain record covers watched time only.              *)
(***************************************************************************)
EXTENDS SandboxUsage, SequenceTheorems, TLAPS

Reasons == {"reconnected", "missing", "paused", "deleted", "expired", "discarded"}
Records == [reason : Reasons, from : Int, to : Int, observed : Int, certain : BOOLEAN]
Meters  == [since : Int, uncertain : BOOLEAN, deadline : Int]
Requests ==
  [kind : {"none", "create", "resume", "pause", "delete"}, at : Int, done : BOOLEAN]

TypeOK ==
  /\ now \in Nat
  /\ handle \in BOOLEAN /\ meter \in Meters /\ ledger \in Seq(Records)
  /\ up \in BOOLEAN /\ call \in Requests
  /\ box \in {"none", "running", "paused", "gone"}
  /\ unseen \in BOOLEAN /\ watched \in BOOLEAN
  /\ ran \in SUBSET Int /\ ranUnseen \in SUBSET Int /\ blind \in SUBSET Int

Calling == call # NoCall
Metered == meter # Off

\* An interval begins before the call that is on its way, and nothing lies in the future.
Clocked ==
  /\ call.kind = "none" => ~Calling
  /\ Calling => up /\ 0 <= call.at /\ call.at <= now
  /\ meter.since = Never => ~Metered
  /\ Metered => 0 <= meter.since /\ meter.since <= now /\ (Calling => meter.since <= call.at)
  /\ \A t \in ran : t < now

\* What is charged ends before the interval, or the call, from which the next can start.
Ordered ==
  \A i \in Own :
    /\ ledger[i].to <= now
    /\ Calling => ledger[i].to <= call.at
    /\ Metered => ledger[i].to <= meter.since
    /\ \A j \in Own : i < j => ledger[i].to <= ledger[j].from

\* A sandbox runs in sight by an open interval or by a call that will open one.
Taking == call.done /\ call.kind \in {"create", "resume"}
Covered(t) ==
  \/ \E i \in DOMAIN ledger : ledger[i].from <= t /\ t < ledger[i].observed
  \/ Metered /\ meter.since <= t
Seen ==
  /\ box = "running" /\ ~unseen => Metered \/ Taking
  /\ call.kind = "pause" => Metered /\ (call.done => box # "running")
  /\ \A t \in ran \ ranUnseen : Covered(t) \/ (Taking /\ call.at <= t)

\* While a process is up, an interval that is not uncertain has been watched throughout.
Watchful(r) ==
  r.certain => /\ r.to = r.observed /\ r.to <= now
               /\ \A t \in blind : ~(r.from <= t /\ t < r.to)
Sure ==
  /\ \A i \in DOMAIN ledger : Watchful(ledger[i])
  /\ up /\ Metered /\ ~meter.uncertain => watched /\ \A t \in blind : t < meter.since

Accounted == TypeOK /\ Clocked /\ Ordered /\ Seen /\ Sure
-----------------------------------------------------------------------------
(* The ledger.                                                             *)

\* A record is appended behind the others.
LEMMA Append1 ==
  ASSUME NEW l \in Seq(Records), NEW r \in Records
  PROVE  LET m == l \o <<r>> IN
         /\ m \in Seq(Records)
         /\ Len(l) \in Nat /\ DOMAIN l = 1 .. Len(l)
         /\ DOMAIN m = DOMAIN l \cup {Len(l) + 1}
         /\ \A i \in DOMAIN l : m[i] = l[i]
         /\ m[Len(l) + 1] = r
  <1> DEFINE m == l \o <<r>>
  <1>1. <<r>> \in Seq(Records) /\ Len(<<r>>) = 1 /\ <<r>>[1] = r  OBVIOUS
  <1>2. m \in Seq(Records) /\ Len(m) = Len(l) + 1
        /\ \A i \in 1 .. Len(l) + 1 : m[i] = IF i <= Len(l) THEN l[i] ELSE <<r>>[i - Len(l)]
    BY <1>1, ConcatProperties
  <1>3. Len(l) \in Nat /\ DOMAIN l = 1 .. Len(l)  BY LenProperties
  <1> HIDE DEF m
  <1>4. DOMAIN m = 1 .. Len(l) + 1  BY <1>2, LenProperties
  <1>5. m[Len(l) + 1] = r  BY <1>1, <1>2, <1>3
  <1> QED  BY <1>2, <1>3, <1>4, <1>5 DEF m

\* What settling an interval appends, at an instant that is not before its start.
Closes(r, m, at) ==
  /\ r.from = m.since /\ m.since <= r.to /\ r.to <= at /\ r.observed = at
  /\ r.certain => ~m.uncertain /\ r.to = at

LEMMA SettledRecord ==
  ASSUME NEW m \in Meters, NEW at \in Int, m.since # Never, m.since <= at,
         NEW reason \in Reasons, NEW doubt \in BOOLEAN
  PROVE  \E r \in Records : /\ Settled(m, reason, at, doubt) = <<r>>
                            /\ r.reason = reason /\ Closes(r, m, at)
                            /\ r.certain => ~doubt
  <1> DEFINE end == Most(m.since, Least(at, m.deadline))
             r == [reason |-> reason, from |-> m.since, to |-> end, observed |-> Most(at, end),
                   certain |-> ~doubt /\ ~m.uncertain /\ end >= at]
  <1>1. m.since \in Int /\ m.deadline \in Int /\ m.uncertain \in BOOLEAN  BY DEF Meters
  <1>2. end \in Int /\ m.since <= end /\ end <= at /\ Most(at, end) = at
    BY <1>1 DEF Most, Least
  <1>3. Settled(m, reason, at, doubt) = <<r>>  BY DEF Settled, Charged
  <1> HIDE DEF end
  <1>4. r \in Records  BY <1>1, <1>2 DEF Records
  <1>5. r.from = m.since /\ r.to = end /\ r.observed = at /\ r.reason = reason  BY <1>2
  <1>6. r.certain <=> ~doubt /\ ~m.uncertain /\ end >= at  BY Zenon
  <1> HIDE DEF r
  <1>7. r.certain => r.to = at  BY <1>1, <1>2, <1>5, <1>6
  <1>8. Closes(r, m, at) /\ (r.certain => ~doubt)  BY <1>2, <1>5, <1>6, <1>7 DEF Closes
  <1> QED  BY <1>3, <1>4, <1>5, <1>8

\* The step appends the record of the open interval, up to an instant.
Charges(reason, at, doubt) ==
  \E r \in Records : /\ ledger' = ledger \o <<r>>
                     /\ r.reason = reason /\ Closes(r, meter, at)
                     /\ r.certain => ~doubt

LEMMA EndCharges ==
  ASSUME TypeOK, Clocked, NEW reason \in Reasons, NEW doubt \in BOOLEAN,
         ObserveEnd(reason, doubt)
  PROVE  /\ meter' = Off /\ ledger' \in Seq(Records)
         /\ ~Metered => ledger' = ledger
         /\ Metered => Charges(reason, now, doubt)
  <1>1. meter' = Off  BY DEF ObserveEnd
  <1>2. CASE ~Metered
    <2>1. Settled(meter, reason, now, doubt) = <<>>
      BY <1>2 DEF Settled, Metered, Off
    <2> QED  BY <1>1, <1>2, <2>1, ConcatEmptySeq DEF ObserveEnd, TypeOK
  <1>3. CASE Metered
    <2>1. meter.since # Never /\ meter.since <= now /\ now \in Int /\ meter \in Meters
      BY <1>3 DEF Clocked, TypeOK
    <2> DEFINE new == Settled(meter, reason, now, doubt)
    <2>2. \E r \in Records : /\ new = <<r>> /\ r.reason = reason /\ Closes(r, meter, now)
                             /\ r.certain => ~doubt
      BY <2>1, SettledRecord
    <2>3. ledger' = ledger \o new  BY DEF ObserveEnd
    <2> HIDE DEF new
    <2>4. PICK r \in Records : /\ ledger' = ledger \o <<r>> /\ r.reason = reason
                              /\ Closes(r, meter, now) /\ (r.certain => ~doubt)
      BY <2>2, <2>3
    <2>5. ledger' \in Seq(Records)  BY <2>4, Append1 DEF TypeOK
    <2>6. Charges(reason, now, doubt)  BY <2>4 DEF Charges
    <2> QED  BY <1>1, <1>3, <2>5, <2>6
  <1> QED  BY <1>2, <1>3

LEMMA RunningCharges ==
  ASSUME TypeOK, Clocked, Calling, ObserveRunning(call.at)
  PROVE  /\ meter' \in Meters /\ ledger' \in Seq(Records)
         /\ \/ /\ Metered /\ ~meter.uncertain /\ ledger' = ledger
               /\ meter'.since = meter.since /\ meter'.uncertain = FALSE
            \/ /\ ~Metered /\ ledger' = ledger
               /\ meter'.since = call.at /\ meter'.uncertain = FALSE
            \/ /\ Metered /\ Charges("reconnected", call.at, TRUE)
               /\ meter'.since = call.at /\ meter'.uncertain = FALSE
  <1>1. meter \in Meters /\ call.at \in Int /\ ledger \in Seq(Records) /\ meter.uncertain \in BOOLEAN
        /\ call.at + Lifetime \in Int
    BY BoundsAssumption DEF TypeOK, Requests, Meters
  <1>2. CASE meter.since # Never /\ ~meter.uncertain
    <2>1. meter' = [meter EXCEPT !.deadline = call.at + Lifetime] /\ ledger' = ledger
      BY <1>2 DEF ObserveRunning
    <2>2. Metered  BY <1>2 DEF Metered, Off
    <2>3. meter' \in Meters /\ meter'.since = meter.since /\ meter'.uncertain = meter.uncertain
      BY <1>1, <2>1 DEF Meters
    <2>4. meter'.uncertain = FALSE  BY <1>1, <1>2, <2>3
    <2> QED  BY <1>1, <1>2, <2>1, <2>2, <2>3, <2>4
  <1>3. CASE ~(meter.since # Never /\ ~meter.uncertain)
    <2>1. meter' = Start(Off, call.at)
          /\ ledger' = ledger \o Settled(meter, "reconnected", call.at, FALSE)
      BY <1>3 DEF ObserveRunning
    <2>2. Start(Off, call.at) = [since |-> call.at, uncertain |-> FALSE, deadline |-> call.at + Lifetime]
      BY DEF Start, Off
    <2>3. meter' \in Meters /\ meter'.since = call.at /\ meter'.uncertain = FALSE
      BY <1>1, <2>1, <2>2 DEF Meters
    <2>4. CASE meter.since = Never
      <3>1. Settled(meter, "reconnected", call.at, FALSE) = <<>>  BY <2>4 DEF Settled
      <3>2. ledger' = ledger  BY <1>1, <2>1, <3>1, ConcatEmptySeq
      <3> QED  BY <1>1, <2>3, <2>4, <3>2 DEF Clocked
    <2>5. CASE meter.since # Never
      <3>1. Metered /\ meter.since <= call.at  BY <2>5 DEF Metered, Off, Clocked
      <3>2. PICK r \in Records : /\ Settled(meter, "reconnected", call.at, FALSE) = <<r>>
                                /\ r.reason = "reconnected" /\ Closes(r, meter, call.at)
        BY <1>1, <2>5, <3>1, SettledRecord DEF Reasons
      <3>3. ledger' = ledger \o <<r>>  BY <2>1, <3>2
      <3>4. ledger' \in Seq(Records)  BY <1>1, <3>3, Append1
      <3>5. meter.uncertain  BY <1>3, <2>5
      <3>6. ~r.certain  BY <3>2, <3>5 DEF Closes
      <3> QED  BY <2>3, <3>1, <3>2, <3>3, <3>4, <3>6 DEF Charges
    <2> QED  BY <2>4, <2>5
  <1> QED  BY <1>2, <1>3

-----------------------------------------------------------------------------
(* What a step that leaves the ledger alone or appends a record preserves. *)
Appends(r) == r \in Records /\ ledger' = ledger \o <<r>>

\* The order, when an instant parts what is charged from what is not.
LEMMA OrderedStep ==
  ASSUME TypeOK, TypeOK', Ordered,
         NEW b \in Int, \A i \in Own : ledger[i].to <= b,
         b <= now', Calling' => b <= call'.at, Metered' => b <= meter'.since,
         \/ ledger' = ledger
         \/ \E r \in Records :
              /\ Appends(r)
              /\ \/ r.reason = "discarded"
                 \/ r.to <= b /\ \A i \in Own : ledger[i].to <= r.from
  PROVE  Ordered'
  <1>1. now' \in Int /\ call'.at \in Int /\ meter'.since \in Int
    BY DEF TypeOK, Requests, Meters
  <1>2. ledger \in Seq(Records) /\ \A i \in DOMAIN ledger : ledger[i].to \in Int
    <2>1. ledger \in Seq(Records)  BY DEF TypeOK
    <2>2. \A i \in DOMAIN ledger : ledger[i] \in Records  BY <2>1
    <2> QED  BY <2>1, <2>2 DEF Records
  <1>3. CASE ledger' = ledger
    <2>1. Own' = Own  BY <1>3 DEF Own
    <2> QED  BY <1>1, <1>2, <1>3, <2>1 DEF Ordered, Own
  <1>4. ASSUME NEW r \in Records, Appends(r),
               \/ r.reason = "discarded"
               \/ r.to <= b /\ \A i \in Own : ledger[i].to <= r.from
        PROVE  Ordered'
    <2> DEFINE n == Len(ledger) + 1
    <2>1. /\ Len(ledger) \in Nat /\ DOMAIN ledger = 1 .. Len(ledger)
          /\ DOMAIN ledger' = DOMAIN ledger \cup {n}
          /\ (\A i \in DOMAIN ledger : ledger'[i] = ledger[i]) /\ ledger'[n] = r
      BY <1>2, <1>4, Append1 DEF Appends
    <2>2. \A i \in Own' : i \in Own \/ (i = n /\ r.reason # "discarded")
      BY <2>1 DEF Own
    <2>3. \A i \in Own : i \in DOMAIN ledger /\ i < n  BY <2>1 DEF Own
    <2>4. \A i \in Own' : ledger'[i].to <= b
      BY <1>4, <2>1, <2>2, <2>3
    <2>5. \A i \in Own' : ledger'[i].to \in Int
      BY <1>2, <2>1, <2>2, <2>3 DEF Records
    <2>6. ASSUME NEW i \in Own', NEW j \in Own', i < j
          PROVE  ledger'[i].to <= ledger'[j].from
      <3>1. i \in Own  BY <2>1, <2>2, <2>3, <2>6
      <3>2. CASE j \in Own  BY <2>1, <2>3, <2>6, <3>1, <3>2 DEF Ordered
      <3>3. CASE j = n /\ r.reason # "discarded"  BY <1>4, <2>1, <2>3, <3>1, <3>3
      <3> QED  BY <2>2, <3>2, <3>3
    <2> QED  BY <1>1, <2>4, <2>5, <2>6 DEF Ordered
  <1> QED  BY <1>3, <1>4

\* What an instant is spoken for by.
LEMMA CoveredStep ==
  ASSUME TypeOK, NEW t \in Int, Covered(t),
         \/ /\ ledger' = ledger
            /\ Metered /\ meter.since <= t => Metered' /\ meter'.since <= t
         \/ \E r \in Records :
              /\ Appends(r)
              /\ Metered /\ meter.since <= t =>
                   (r.from <= t /\ t < r.observed) \/ (Metered' /\ meter'.since <= t)
  PROVE  Covered(t)'
  <1>1. CASE /\ ledger' = ledger
             /\ Metered /\ meter.since <= t => Metered' /\ meter'.since <= t
    BY <1>1 DEF Covered
  <1>2. ASSUME NEW r \in Records, Appends(r),
               Metered /\ meter.since <= t =>
                 (r.from <= t /\ t < r.observed) \/ (Metered' /\ meter'.since <= t)
        PROVE  Covered(t)'
    <2> DEFINE n == Len(ledger) + 1
    <2>1. /\ DOMAIN ledger' = DOMAIN ledger \cup {n}
          /\ (\A i \in DOMAIN ledger : ledger'[i] = ledger[i]) /\ ledger'[n] = r
      BY <1>2, Append1 DEF Appends, TypeOK
    <2> QED  BY <1>2, <2>1 DEF Covered
  <1> QED  BY <1>1, <1>2

\* The certain records, while nothing but the present instant goes blind.
LEMMA CertainStep ==
  ASSUME TypeOK, TypeOK', Sure, now <= now', blind' \subseteq blind \cup {now},
         \/ ledger' = ledger
         \/ \E r \in Records : Appends(r) /\ Watchful(r)'
  PROVE  \A i \in DOMAIN ledger' : Watchful(ledger[i])'
  <1>1. now \in Int /\ now' \in Int /\ ledger \in Seq(Records)  BY DEF TypeOK
  <1>2. ASSUME NEW r \in Records, Watchful(r)  PROVE  Watchful(r)'
    BY <1>1, <1>2 DEF Watchful, Records, TypeOK
  <1>3. \A i \in DOMAIN ledger : ledger[i] \in Records /\ Watchful(ledger[i])
    BY <1>1 DEF Sure
  <1>4. CASE ledger' = ledger
    <2> SUFFICES ASSUME NEW i \in DOMAIN ledger  PROVE  Watchful(ledger[i])'
      BY <1>4
    <2>1. PICK r \in Records : r = ledger[i] /\ Watchful(r)  BY <1>3
    <2>2. Watchful(r)'  BY <1>2, <2>1
    <2> QED  BY <1>4, <2>1, <2>2 DEF Watchful
  <1>5. ASSUME NEW r \in Records, Appends(r), Watchful(r)'
        PROVE  \A i \in DOMAIN ledger' : Watchful(ledger[i])'
    <2> DEFINE n == Len(ledger) + 1
    <2>1. /\ DOMAIN ledger' = DOMAIN ledger \cup {n}
          /\ (\A i \in DOMAIN ledger : ledger'[i] = ledger[i]) /\ ledger'[n] = r
      BY <1>1, <1>5, Append1 DEF Appends
    <2> HIDE DEF n
    <2> SUFFICES ASSUME NEW i \in DOMAIN ledger'  PROVE  Watchful(ledger[i])'
      OBVIOUS
    <2>2. CASE i = n  BY <1>5, <2>1, <2>2 DEF Watchful
    <2>3. CASE i \in DOMAIN ledger
      <3>1. PICK q \in Records : q = ledger[i] /\ Watchful(q)  BY <1>3, <2>3
      <3>2. Watchful(q)'  BY <1>2, <3>1
      <3> QED  BY <2>1, <2>3, <3>1, <3>2 DEF Watchful
    <2> QED  BY <2>1, <2>2, <2>3
  <1> QED  BY <1>4, <1>5

-----------------------------------------------------------------------------
(* Types.                                                                  *)

\* An answer, a crash and a failed pause leave no call.
LEMMA AnsweredTypes ==
  ASSUME TypeOK, Answered
  PROVE  /\ now' \in Nat /\ up' \in BOOLEAN /\ call' \in Requests
         /\ unseen' \in BOOLEAN /\ watched' \in BOOLEAN
         /\ ran' \in SUBSET Int /\ ranUnseen' \in SUBSET Int /\ blind' \in SUBSET Int
  <1>1. NoCall \in Requests  BY DEF NoCall, Never, Requests
  <1>2. blind' \in SUBSET Int  BY DEF TypeOK, Answered
  <1> QED  BY <1>1, <1>2 DEF TypeOK, Answered

\* An interval that opens, and one that becomes uncertain, is an interval.
LEMMA MeterTypes ==
  ASSUME TypeOK
  PROVE  /\ Off \in Meters
         /\ \A at \in Int : Start(meter, at) \in Meters
         /\ ObserveUnsure => meter' \in Meters /\ ledger' = ledger
  <1>1. Off \in Meters  BY DEF Off, Never, Meters
  <1>2. \A at \in Int : Start(meter, at) \in Meters
    BY BoundsAssumption DEF TypeOK, Meters, Start
  <1>3. [meter EXCEPT !.uncertain = TRUE] \in Meters  BY DEF TypeOK, Meters
  <1> QED  BY <1>1, <1>2, <1>3 DEF TypeOK, ObserveUnsure

\* The record of a sandbox whose turn has ended while it was created.
LEMMA DiscardedRecord ==
  ASSUME TypeOK, NEW stopped \in BOOLEAN, Calling, Clocked
  PROVE  \E r \in Records :
           /\ Charged("discarded", call.at, IF stopped THEN now ELSE call.at + Lifetime,
                      now, stopped) = <<r>>
           /\ r.reason = "discarded" /\ r.from = call.at /\ r.observed = now
           /\ r.certain => r.to = now
  <1> DEFINE end == IF stopped THEN now ELSE call.at + Lifetime
             r == [reason |-> "discarded", from |-> call.at, to |-> end, observed |-> now,
                   certain |-> stopped]
  <1>1. call.at \in Int /\ now \in Int /\ end \in Int
    BY BoundsAssumption DEF TypeOK, Requests
  <1>2. stopped => end = now  OBVIOUS
  <1>3. Charged("discarded", call.at, end, now, stopped) = <<r>>  BY DEF Charged
  <1> HIDE DEF end
  <1>4. r \in Records  BY <1>1 DEF Records, Reasons
  <1>5. r.reason = "discarded" /\ r.from = call.at /\ r.observed = now /\ r.to = end
    OBVIOUS
  <1>6. r.certain <=> stopped  BY Zenon
  <1> HIDE DEF r
  <1>7. r.certain => r.to = now  BY <1>2, <1>5, <1>6
  <1> QED  BY <1>3, <1>4, <1>5, <1>7 DEF end

\* The kind of the call that a step waits for is that of a call.
LEMMA CallingKinds ==
  ASSUME TypeOK, call.kind # "none"
  PROVE  Calling
  BY DEF Calling, NoCall

LEMMA TypeStep == TypeOK /\ Clocked /\ [Next]_vars => TypeOK'
<1> SUFFICES ASSUME TypeOK, Clocked, [Next]_vars
             PROVE  TypeOK'
  OBVIOUS
<1>1. ASSUME NEW kind \in {"create", "resume", "pause", "delete"}, Begin(kind)
      PROVE  TypeOK'
  <2>1. call' \in Requests  BY <1>1 DEF Begin, Requests, TypeOK
  <2> QED  BY <1>1, <2>1 DEF Begin, TypeOK, session, provider, history
<1>2. CASE Created
  <2>1. Answered /\ Calling  BY <1>2, CallingKinds DEF Created
  <2>2. meter' \in Meters /\ handle' \in BOOLEAN /\ ledger' \in Seq(Records)
        /\ box' \in {"none", "running", "paused", "gone"}
    <3>1. CASE /\ handle' = TRUE /\ meter' = Start(meter, call.at)
               /\ UNCHANGED <<ledger, box>>
      BY <3>1, MeterTypes DEF TypeOK, Requests
    <3>2. ASSUME /\ UNCHANGED <<handle, meter>>
                 /\ box' = IF handle THEN "gone" ELSE "none",
                 NEW stopped \in BOOLEAN,
                 ledger' = ledger \o Charged("discarded", call.at,
                             IF stopped THEN now ELSE call.at + Lifetime, now, stopped)
          PROVE  /\ meter' \in Meters /\ handle' \in BOOLEAN /\ ledger' \in Seq(Records)
                 /\ box' \in {"none", "running", "paused", "gone"}
      <4>1. PICK r \in Records : ledger' = ledger \o <<r>>
        BY <2>1, <3>2, DiscardedRecord
      <4>2. ledger' \in Seq(Records)  BY <4>1, Append1 DEF TypeOK
      <4> QED  BY <3>2, <4>2 DEF TypeOK
    <3> QED  BY <1>2, <3>1, <3>2 DEF Created
  <2> QED  BY <2>1, <2>2, AnsweredTypes DEF TypeOK
<1>3. CASE Resumed
  <2>1. Answered /\ Calling /\ UNCHANGED <<handle, box>>
    BY <1>3, CallingKinds DEF Resumed
  <2>2. CASE ObserveRunning(call.at)
    BY <2>1, <2>2, AnsweredTypes, RunningCharges DEF TypeOK
  <2>3. CASE ObserveEnd("missing", TRUE)
    <3>1. meter' = Off /\ ledger' \in Seq(Records)  BY <2>3, EndCharges DEF Reasons
    <3> QED  BY <2>1, <3>1, AnsweredTypes, MeterTypes DEF TypeOK
  <2> QED  BY <1>3, <2>2, <2>3 DEF Resumed
<1>4. CASE Paused
  <2>1. meter' = Off /\ ledger' \in Seq(Records)
    BY <1>4, EndCharges DEF Paused, Reasons
  <2> QED  BY <1>4, <2>1, AnsweredTypes, MeterTypes DEF Paused, TypeOK
<1>5. CASE PauseFails
  <2>1. NoCall \in Requests  BY DEF NoCall, Never, Requests
  <2>2. meter' \in Meters /\ ledger' = ledger  BY <1>5, MeterTypes DEF PauseFails
  <2> QED  BY <1>5, <2>1, <2>2 DEF PauseFails, TypeOK, provider
<1>6. CASE Deleted
  <2>1. meter' = Off /\ ledger' \in Seq(Records)
    BY <1>6, EndCharges DEF Deleted, Reasons
  <2> QED  BY <1>6, <2>1, AnsweredTypes, MeterTypes DEF Deleted, TypeOK
<1>7. CASE CallFails
  BY <1>7 DEF CallFails, TypeOK, Requests, NoCall, Never, session, provider, history
<1>8. CASE Crash
  <2>1. unseen' \in BOOLEAN  BY <1>8 DEF Crash
  <2>2. ran' \in SUBSET Int /\ ranUnseen' \in SUBSET Int  BY <1>8 DEF Crash, TypeOK
  <2>3. box' \in {"none", "running", "paused", "gone"}  BY <1>8 DEF Crash, TypeOK
  <2>4. call' \in Requests  BY <1>8 DEF Crash, Requests, NoCall, Never
  <2> QED  BY <1>8, <2>1, <2>2, <2>3, <2>4 DEF Crash, TypeOK, session
<1>9. CASE Open
  <2>1. CASE ObserveEnd("expired", TRUE) /\ unseen' = (box = "running")
    <3>1. meter' = Off /\ ledger' \in Seq(Records)
      BY <2>1, EndCharges DEF Reasons
    <3>2. unseen' \in BOOLEAN  BY <2>1
    <3> QED  BY <1>9, <3>1, <3>2, MeterTypes DEF Open, TypeOK, provider
  <2>2. CASE ObserveUnsure /\ UNCHANGED unseen
    BY <1>9, <2>2, MeterTypes DEF Open, TypeOK, provider
  <2> QED  BY <1>9, <2>1, <2>2 DEF Open
<1>10. CASE TakeEffect
  <2>1. call' \in Requests  BY <1>10 DEF TakeEffect, TypeOK, Requests
  <2>2. box' \in {"none", "running", "paused", "gone"}  BY <1>10 DEF TakeEffect, TypeOK, Requests
  <2>3. unseen' \in BOOLEAN  BY <1>10 DEF TakeEffect
  <2> QED  BY <1>10, <2>1, <2>2, <2>3 DEF TakeEffect, TypeOK, session
<1>11. CASE Tick
  <2>1. ran' \in SUBSET Int /\ ranUnseen' \in SUBSET Int /\ blind' \in SUBSET Int
    BY <1>11 DEF Tick, TypeOK
  <2>2. box' \in {"none", "running", "paused", "gone"}  BY <1>11 DEF Tick, TypeOK
  <2> QED  BY <1>11, <2>1, <2>2 DEF Tick, TypeOK, session, process
<1>12. CASE Vanish
  BY <1>12 DEF Vanish, TypeOK, session, process, history
<1>13. CASE UNCHANGED vars
  BY <1>13 DEF vars, TypeOK, session, process, provider, history
<1> QED
  BY <1>1, <1>2, <1>3, <1>4, <1>5, <1>6, <1>7, <1>8, <1>9, <1>10, <1>11, <1>12, <1>13
  DEF Next

-----------------------------------------------------------------------------
(* The invariant.                                                          *)

\* A step that leaves the ledger, and when the open interval began.
LEMMA KeptStep ==
  ASSUME Accounted, TypeOK', ledger' = ledger, now <= now',
         meter'.since = meter.since, Metered' <=> Metered,
         Calling' => call'.at = now \/ (Calling /\ call'.at = call.at),
         blind' \subseteq blind \cup {now}
  PROVE  /\ Ordered'
         /\ \A t \in Int : Covered(t) => Covered(t)'
         /\ \A i \in DOMAIN ledger' : Watchful(ledger[i])'
  <1> USE DEF Accounted
  <1>1. \A i \in DOMAIN ledger : ledger[i].to \in Int
    <2>1. ledger \in Seq(Records)  BY DEF TypeOK
    <2>2. \A i \in DOMAIN ledger : ledger[i] \in Records  BY <2>1
    <2> QED  BY <2>2 DEF Records
  <1>2. now \in Int /\ now' \in Int  BY DEF TypeOK
  <1>3. Own' = Own /\ Own \subseteq DOMAIN ledger  BY DEF Own
  <1>4. Ordered'  BY <1>1, <1>2, <1>3 DEF Ordered
  <1>5. \A t \in Int : Covered(t) => Covered(t)'  BY CoveredStep
  <1>6. \A i \in DOMAIN ledger' : Watchful(ledger[i])'  BY CertainStep
  <1> QED  BY <1>4, <1>5, <1>6

\* A step that closes the interval now, if one is open, and leaves nothing running in sight.
LEMMA EndStep ==
  ASSUME Accounted, TypeOK', NEW reason \in Reasons, NEW doubt \in BOOLEAN,
         ObserveEnd(reason, doubt), doubt \/ up,
         ~Taking, call' = NoCall, now' = now, box' = "running" => unseen',
         blind' \subseteq blind, UNCHANGED <<ran, ranUnseen>>
  PROVE  Accounted'
  <1> USE DEF Accounted
  <1>1. now \in Int /\ meter.since \in Int /\ ~Metered' /\ ~Calling' /\ ~Taking' /\ call'.kind = "none"
        /\ meter'.since = Never
    BY EndCharges DEF TypeOK, Meters, Metered, Calling, Taking, NoCall, Off
  <1>2. Clocked'  BY <1>1 DEF Clocked
  <1>3. ~Metered => ledger' = ledger  BY EndCharges
  <1>4. ASSUME Metered
        PROVE  \E r \in Records : /\ Appends(r) /\ Watchful(r)'
                                 /\ r.from = meter.since /\ r.to <= now /\ r.observed = now
    <2>1. PICK r \in Records : /\ ledger' = ledger \o <<r>>
                              /\ Closes(r, meter, now) /\ (r.certain => ~doubt)
      BY <1>4, EndCharges DEF Charges
    <2>2. r.certain => up /\ ~meter.uncertain /\ r.to = r.observed
      BY <2>1 DEF Closes
    <2>3. Watchful(r)'
      BY <1>1, <1>4, <2>1, <2>2 DEF Watchful, Sure, Closes, TypeOK
    <2> QED  BY <2>1, <2>3 DEF Appends, Closes
  <1>5. Ordered'
    <2>1. CASE ~Metered
      BY <1>1, <1>3, <2>1, OrderedStep DEF Ordered
    <2>2. CASE Metered
      <3>1. \A i \in Own : ledger[i].to <= now /\ ledger[i].to <= meter.since
        BY <2>2 DEF Ordered
      <3>2. PICK r \in Records : Appends(r) /\ r.from = meter.since /\ r.to <= now
        BY <1>4, <2>2
      <3> QED  BY <1>1, <3>1, <3>2, OrderedStep
    <2> QED  BY <2>1, <2>2
  <1>6. Seen'
    <2>1. ASSUME NEW t \in ran \ ranUnseen  PROVE  Covered(t)'
      <3>1. t \in Int /\ t < now /\ Covered(t)
        BY <2>1 DEF Clocked, Seen, TypeOK
      <3>2. CASE ~Metered  BY <1>3, <3>1, <3>2, CoveredStep
      <3>3. CASE Metered
        <4>1. PICK r \in Records : Appends(r) /\ r.from = meter.since /\ r.observed = now
          BY <1>4, <3>3
        <4> QED  BY <3>1, <4>1, CoveredStep
      <3> QED  BY <3>2, <3>3
    <2> QED  BY <1>1, <2>1 DEF Seen
  <1>7. Sure'
    <2>1. \A i \in DOMAIN ledger' : Watchful(ledger[i])'
      BY <1>1, <1>3, <1>4, CertainStep
    <2> QED  BY <1>1, <2>1 DEF Sure
  <1> QED  BY <1>2, <1>5, <1>6, <1>7

\* A sandbox that was created is recorded, or discarded since its turn has ended.
LEMMA CreatedStep == Accounted /\ TypeOK' /\ Created => Accounted'
<1> SUFFICES ASSUME Accounted, TypeOK', Created
             PROVE  Clocked' /\ Ordered' /\ Seen' /\ Sure'
  BY DEF Accounted
<1> USE DEF Accounted
<1>1. /\ Answered /\ Calling /\ call.kind = "create" /\ Taking /\ 0 <= call.at /\ call.at <= now
      /\ now \in Int /\ call.at \in Int /\ meter.since \in Int /\ meter \in Meters
  BY CallingKinds DEF Created, Taking, Clocked, TypeOK, Requests, Meters
<1>2. /\ ~Calling' /\ ~Taking' /\ call'.kind = "none" /\ now' = now /\ unseen' = FALSE
      /\ UNCHANGED <<ran, ranUnseen, up>> /\ watched' = TRUE
      /\ blind' = {t \in blind : t < call.at}
  BY <1>1 DEF Answered, Calling, Taking, NoCall
<1>3. blind' \subseteq blind /\ \A t \in blind' : t < call.at /\ t \in Int
  BY <1>2 DEF TypeOK
<1>4. CASE /\ handle' = TRUE /\ meter' = Start(meter, call.at)
           /\ UNCHANGED <<ledger, box>>
  <2>1. /\ Metered' /\ meter'.since <= call.at /\ 0 <= meter'.since /\ meter'.since \in Int
        /\ meter'.since # Never
    BY <1>1, <1>4 DEF Start, Metered, Off, Clocked, Never
  <2>2. Metered => meter' = meter
    BY <1>1, <1>4 DEF Start, Clocked
  <2>3. ~Metered => meter'.since = call.at
    BY <1>1, <1>4 DEF Start, Metered, Off
  <2>4. Clocked'  BY <1>1, <1>2, <2>1 DEF Clocked
  <2>5. Ordered'
    <3>1. CASE Metered  BY <1>1, <1>2, <1>4, <2>1, <2>2, <3>1, OrderedStep DEF Ordered, Clocked
    <3>2. CASE ~Metered  BY <1>1, <1>2, <1>4, <2>3, <3>2, OrderedStep DEF Ordered
    <3> QED  BY <3>1, <3>2
  <2>6. ASSUME NEW t \in ran \ ranUnseen  PROVE  Covered(t)'
    <3>1. t \in Int /\ (Covered(t) \/ call.at <= t)  BY <2>6 DEF Seen, TypeOK
    <3>2. CASE call.at <= t  BY <1>1, <2>1, <3>1, <3>2 DEF Covered
    <3>3. CASE Covered(t)  BY <1>4, <2>1, <2>2, <3>1, <3>3, CoveredStep
    <3> QED  BY <3>1, <3>2, <3>3
  <2>7. Seen'  BY <1>2, <2>1, <2>6 DEF Seen
  <2>8. \A i \in DOMAIN ledger' : Watchful(ledger[i])'
    BY <1>1, <1>2, <1>3, <1>4, CertainStep
  <2>9. ~meter'.uncertain => \A t \in blind' : t < meter'.since
    <3>1. CASE Metered
      <4>1. up /\ (~meter.uncertain => \A t \in blind : t < meter.since)
        BY <1>1, <3>1 DEF Sure, Clocked
      <4> QED  BY <1>3, <2>2, <3>1, <4>1
    <3>2. CASE ~Metered  BY <1>3, <2>3, <3>2
    <3> QED  BY <3>1, <3>2
  <2>10. Sure'  BY <1>2, <2>8, <2>9 DEF Sure
  <2> QED  BY <2>4, <2>5, <2>7, <2>10
<1>5. ASSUME /\ UNCHANGED <<handle, meter>>
             /\ box' = IF handle THEN "gone" ELSE "none",
             NEW stopped \in BOOLEAN,
             ledger' = ledger \o Charged("discarded", call.at,
                         IF stopped THEN now ELSE call.at + Lifetime, now, stopped)
      PROVE  Clocked' /\ Ordered' /\ Seen' /\ Sure'
  <2>1. PICK r \in Records : /\ Appends(r) /\ r.reason = "discarded" /\ r.from = call.at
                            /\ r.observed = now /\ (r.certain => r.to = now)
    BY <1>1, <1>5, DiscardedRecord DEF Appends
  <2>2. Metered' = Metered /\ meter' = meter  BY <1>5 DEF Metered
  <2>3. Clocked'  BY <1>2, <2>2 DEF Clocked
  <2>4. Ordered'
    <3>1. CASE Metered
      BY <1>1, <1>2, <2>1, <2>2, <3>1, OrderedStep DEF Ordered, Clocked
    <3>2. CASE ~Metered
      BY <1>1, <1>2, <2>1, <2>2, <3>2, OrderedStep DEF Ordered
    <3> QED  BY <3>1, <3>2
  <2>5. ASSUME NEW t \in ran \ ranUnseen  PROVE  Covered(t)'
    <3>1. t \in Int /\ t < now /\ (Covered(t) \/ call.at <= t)
      BY <2>5 DEF Seen, TypeOK, Clocked
    <3>2. CASE Covered(t)  BY <2>1, <2>2, <3>1, <3>2, CoveredStep
    <3>3. CASE call.at <= t
      <4>1. (Len(ledger) + 1) \in DOMAIN ledger' /\ ledger'[Len(ledger) + 1] = r
        BY <2>1, Append1 DEF Appends, TypeOK
      <4> QED  BY <2>1, <3>1, <3>3, <4>1 DEF Covered
    <3> QED  BY <3>1, <3>2, <3>3
  <2>6. Seen'  BY <1>2, <1>5, <2>5 DEF Seen
  <2>7. Watchful(r)'
    <3>1. r.certain => r.to = r.observed /\ r.to <= now' /\ \A t \in blind' : ~(r.from <= t)
      BY <1>1, <1>2, <1>3, <2>1
    <3> QED  BY <3>1 DEF Watchful
  <2>8. \A i \in DOMAIN ledger' : Watchful(ledger[i])'
    BY <1>1, <1>2, <1>3, <2>1, <2>7, CertainStep
  <2>9. Sure'  BY <1>2, <1>3, <2>2, <2>8 DEF Sure
  <2> QED  BY <2>3, <2>4, <2>6, <2>9
<1> QED  BY <1>4, <1>5 DEF Created

\* A sandbox that is running when it answers.
LEMMA ReconnectStep ==
  ASSUME Accounted, TypeOK', Resumed, ObserveRunning(call.at)
  PROVE  Accounted'
  <1> USE DEF Accounted
  <1>1. /\ Answered /\ Calling /\ call.kind = "resume" /\ 0 <= call.at /\ call.at <= now
        /\ now \in Int /\ call.at \in Int /\ meter.since \in Int /\ meter'.since \in Int
    BY CallingKinds DEF Resumed, Clocked, TypeOK, Requests, Meters
  <1>2. /\ ~Calling' /\ ~Taking' /\ call'.kind = "none" /\ now' = now
        /\ UNCHANGED <<ran, ranUnseen, up>> /\ watched' = TRUE
        /\ blind' = {t \in blind : t < call.at}
    BY <1>1 DEF Answered, Calling, Taking, NoCall
  <1>3. blind' \subseteq blind /\ \A t \in blind' : t < call.at /\ t \in Int
    BY <1>2 DEF TypeOK
  <1>4. \/ /\ Metered /\ ~meter.uncertain /\ ledger' = ledger
           /\ meter'.since = meter.since
        \/ /\ ~Metered /\ ledger' = ledger /\ meter'.since = call.at
        \/ /\ Metered /\ meter'.since = call.at
           /\ \E r \in Records : Appends(r) /\ Closes(r, meter, call.at) /\ ~r.certain
    BY <1>1, RunningCharges DEF Charges, Appends
  <1>5. /\ 0 <= meter'.since /\ meter'.since <= call.at /\ Metered'
    <2>1. 0 <= meter'.since /\ meter'.since <= call.at  BY <1>1, <1>4 DEF Clocked
    <2> QED  BY <1>1, <2>1 DEF Metered, Off, Never
  <1>6. Clocked'  BY <1>1, <1>2, <1>5 DEF Clocked, Never
  <1>7. Ordered'
    <2>1. CASE /\ Metered /\ ~meter.uncertain /\ ledger' = ledger
               /\ meter'.since = meter.since
      BY <1>1, <1>2, <2>1, OrderedStep DEF Ordered, Clocked
    <2>2. CASE ~Metered /\ ledger' = ledger /\ meter'.since = call.at
      BY <1>1, <1>2, <2>2, OrderedStep DEF Ordered
    <2>3. ASSUME Metered, meter'.since = call.at,
                 NEW r \in Records, Appends(r), Closes(r, meter, call.at)
          PROVE  Ordered'
      BY <1>1, <1>2, <2>3, OrderedStep DEF Ordered, Closes
    <2> QED  BY <1>4, <2>1, <2>2, <2>3
  <1>8. ASSUME NEW t \in ran \ ranUnseen  PROVE  Covered(t)'
    <2>1. t \in Int /\ (Covered(t) \/ call.at <= t)  BY <1>8 DEF Seen, TypeOK
    <2>2. CASE call.at <= t  BY <1>1, <1>5, <2>1, <2>2 DEF Covered
    <2>3. CASE Covered(t) /\ t < call.at
      <3>1. CASE ledger' = ledger /\ (Metered => meter'.since = meter.since)
        BY <1>5, <2>1, <2>3, <3>1, CoveredStep
      <3>2. ASSUME NEW r \in Records, Appends(r), Closes(r, meter, call.at)
            PROVE  Covered(t)'
        BY <2>1, <2>3, <3>2, CoveredStep DEF Closes
      <3> QED  BY <1>4, <3>1, <3>2
    <2> QED  BY <1>1, <2>1, <2>2, <2>3
  <1>9. Seen'  BY <1>2, <1>5, <1>8 DEF Seen
  <1>10. \A i \in DOMAIN ledger' : Watchful(ledger[i])'
    <2>1. CASE ledger' = ledger  BY <1>1, <1>2, <1>3, <2>1, CertainStep
    <2>2. ASSUME NEW r \in Records, Appends(r), ~r.certain
          PROVE  \A i \in DOMAIN ledger' : Watchful(ledger[i])'
      <3>1. Watchful(r)'  BY <2>2 DEF Watchful
      <3> QED  BY <1>1, <1>2, <1>3, <2>2, <3>1, CertainStep
    <2> QED  BY <1>4, <2>1, <2>2
  <1>11. \A t \in blind' : t < meter'.since
    <2>1. CASE /\ Metered /\ ~meter.uncertain /\ meter'.since = meter.since
      <3>1. up  BY <1>1 DEF Clocked
      <3>2. \A t \in blind : t < meter.since  BY <2>1, <3>1 DEF Sure
      <3> QED  BY <1>3, <2>1, <3>2
    <2>2. CASE meter'.since = call.at  BY <1>3, <2>2
    <2> QED  BY <1>4, <2>1, <2>2
  <1>12. Sure'  BY <1>2, <1>10, <1>11 DEF Sure
  <1> QED  BY <1>6, <1>7, <1>9, <1>12

LEMMA AccountedStep == Accounted /\ [Next]_vars => Accounted'
<1> SUFFICES ASSUME Accounted, [Next]_vars
             PROVE  Accounted'
  OBVIOUS
<1> USE DEF Accounted
<1>0. TypeOK' /\ now \in Nat /\ meter \in Meters /\ call.at \in Int
  BY TypeStep DEF TypeOK, Requests
<1>1. ASSUME NEW kind \in {"create", "resume", "pause", "delete"}, Begin(kind)
      PROVE  Accounted'
  <2>1. /\ ~Calling /\ up /\ call' = [kind |-> kind, at |-> now, done |-> FALSE]
        /\ UNCHANGED <<now, meter, ledger, up, box, unseen, ran, ranUnseen, watched, blind>>
    BY <1>1 DEF Begin, Calling, session, provider, history
  <2>2. /\ call'.at = now /\ ~Taking' /\ ~Taking /\ Metered' = Metered
        /\ call'.kind = kind /\ call'.kind # "none" /\ call'.done = FALSE
    BY <2>1 DEF Taking, Metered, Calling, NoCall
  <2>3. Clocked'
    <3>1. Calling' => up' /\ 0 <= call'.at /\ call'.at <= now' /\ (Metered => meter.since <= call'.at)
      BY <1>0, <2>1, <2>2 DEF Clocked
    <3>2. call'.kind = "none" => ~Calling'  BY <2>2
    <3> QED  BY <2>1, <2>2, <3>1, <3>2 DEF Clocked
  <2>4. Ordered' /\ (\A t \in Int : Covered(t) => Covered(t)')
        /\ \A i \in DOMAIN ledger' : Watchful(ledger[i])'
    BY <1>0, <2>1, <2>2, KeptStep
  <2>5. kind = "pause" => Metered  BY <1>1 DEF Begin, Metered
  <2>6. Seen'  BY <1>0, <2>1, <2>2, <2>4, <2>5 DEF Seen, TypeOK
  <2>7. Sure'  BY <2>1, <2>2, <2>4 DEF Sure
  <2> QED  BY <1>0, <2>3, <2>4, <2>6, <2>7
<1>2. CASE Created
  BY <1>0, <1>2, CreatedStep
<1>3. CASE Resumed
  <2>1. CASE ObserveRunning(call.at)  BY <1>0, <1>3, <2>1, ReconnectStep
  <2>2. CASE ~call.done /\ box = "gone" /\ ObserveEnd("missing", TRUE)
    <3>1. Answered /\ box' = box /\ ~Taking  BY <1>3, <2>2 DEF Resumed, Taking
    <3>2. blind' \subseteq blind  BY <3>1 DEF Answered
    <3> QED  BY <1>0, <2>2, <3>1, <3>2, EndStep DEF Answered, Reasons
  <2> QED  BY <1>3, <2>1, <2>2 DEF Resumed
<1>4. CASE Paused
  <2>1. Answered /\ box' = box /\ ~Taking /\ Calling /\ ObserveEnd("paused", FALSE)
    BY <1>4, CallingKinds DEF Paused, Taking
  <2>2. up /\ box # "running" /\ blind' \subseteq blind
    BY <1>4, <2>1 DEF Paused, Answered, Clocked, Seen
  <2> QED  BY <1>0, <2>1, <2>2, EndStep DEF Answered, Reasons
<1>5. CASE PauseFails
  <2>1. /\ call.kind = "pause" /\ call' = NoCall /\ watched' = FALSE /\ ObserveUnsure
        /\ UNCHANGED <<now, up, box, unseen, ran, ranUnseen, blind>>
    BY <1>5 DEF PauseFails, provider
  <2>2. Metered /\ meter.since # Never  BY <2>1 DEF Seen, Clocked
  <2>3. /\ meter' = [meter EXCEPT !.uncertain = TRUE] /\ ledger' = ledger
    BY <2>1, <2>2 DEF ObserveUnsure
  <2>4. meter'.since = meter.since /\ meter'.uncertain = TRUE
    BY <1>0, <2>3 DEF Meters
  <2>5. Metered' /\ ~Calling' /\ ~Taking' /\ ~Taking /\ call'.kind = "none"
    BY <2>1, <2>2, <2>4 DEF Metered, Off, Calling, Taking, NoCall
  <2>6. Clocked'  BY <1>0, <2>1, <2>2, <2>4, <2>5 DEF Clocked
  <2>7. Ordered' /\ (\A t \in Int : Covered(t) => Covered(t)')
        /\ \A i \in DOMAIN ledger' : Watchful(ledger[i])'
    BY <1>0, <2>1, <2>2, <2>3, <2>4, <2>5, KeptStep
  <2>8. Seen'  BY <1>0, <2>1, <2>5, <2>7 DEF Seen, TypeOK
  <2>9. Sure'  BY <2>4, <2>7 DEF Sure
  <2> QED  BY <1>0, <2>6, <2>7, <2>8, <2>9
<1>6. CASE Deleted
  <2>1. Answered /\ box' = "none" /\ ~Taking /\ Calling /\ ObserveEnd("deleted", FALSE)
    BY <1>6, CallingKinds DEF Deleted, Taking
  <2>2. up /\ blind' \subseteq blind
    BY <2>1 DEF Answered, Clocked
  <2> QED  BY <1>0, <2>1, <2>2, EndStep DEF Answered, Reasons
<1>7. CASE CallFails
  <2>1. /\ ~Taking /\ call' = NoCall /\ call.kind # "pause"
        /\ UNCHANGED <<now, meter, ledger, up, box, unseen, ran, ranUnseen, watched, blind>>
    BY <1>7 DEF CallFails, Taking, session, provider, history
  <2>2. ~Calling' /\ ~Taking' /\ call'.kind = "none" /\ Metered' = Metered
    BY <2>1 DEF Calling, Taking, NoCall, Metered
  <2>3. Clocked'  BY <1>0, <2>1, <2>2 DEF Clocked
  <2>4. Ordered' /\ (\A t \in Int : Covered(t) => Covered(t)')
        /\ \A i \in DOMAIN ledger' : Watchful(ledger[i])'
    BY <1>0, <2>1, <2>2, KeptStep
  <2>5. Seen'  BY <1>0, <2>1, <2>2, <2>4 DEF Seen, TypeOK
  <2>6. Sure'  BY <2>1, <2>2, <2>4 DEF Sure
  <2> QED  BY <1>0, <2>3, <2>4, <2>5, <2>6
<1>8. CASE Crash
  <2>1. /\ up' = FALSE /\ call' = NoCall
        /\ UNCHANGED <<now, meter, ledger, blind>>
    BY <1>8 DEF Crash, session
  <2>2. ~Calling' /\ ~Taking' /\ call'.kind = "none" /\ Metered' = Metered
    BY <2>1 DEF Calling, Taking, NoCall, Metered
  <2>3. ran' \subseteq ran  BY <1>8 DEF Crash
  <2>4. Clocked'  BY <1>0, <2>1, <2>2, <2>3 DEF Clocked
  <2>5. Ordered' /\ (\A t \in Int : Covered(t) => Covered(t)')
        /\ \A i \in DOMAIN ledger' : Watchful(ledger[i])'
    BY <1>0, <2>1, <2>2, KeptStep
  <2>6. box' = "running" /\ ~unseen' => Metered
    <3>1. CASE call.kind = "create" /\ call.done  BY <1>8, <3>1 DEF Crash
    <3>2. CASE call.kind = "resume" /\ call.done  BY <1>8, <3>2 DEF Crash, Metered
    <3>3. CASE ~Taking
      <4>1. box' = box /\ (~unseen' => ~unseen)  BY <1>8, <3>3 DEF Crash, Taking
      <4> QED  BY <3>3, <4>1 DEF Seen
    <3> QED  BY <3>1, <3>2, <3>3 DEF Taking
  <2>7. ASSUME NEW t \in ran' \ ranUnseen'  PROVE  Covered(t)
    <3>1. t \in ran \ ranUnseen  BY <1>8, <2>7 DEF Crash
    <3>2. CASE Taking /\ call.at <= t
      <4>1. Calling /\ t >= call.at  BY <1>0, <3>1, <3>2, CallingKinds DEF Taking, TypeOK
      <4>2. call.kind # "create"  BY <1>8, <2>7, <3>1, <4>1 DEF Crash, Calling
      <4>3. call.kind = "resume" => Metered
        BY <1>8, <2>7, <3>1, <4>1 DEF Crash, Calling, Metered
      <4>4. Metered /\ meter.since <= call.at  BY <3>2, <4>1, <4>2, <4>3 DEF Taking, Clocked
      <4>5. meter.since <= t  BY <1>0, <3>1, <3>2, <4>4 DEF TypeOK, Meters
      <4> QED  BY <4>4, <4>5 DEF Covered
    <3> QED  BY <3>1, <3>2 DEF Seen
  <2>8. \A t \in ran' \ ranUnseen' : Covered(t)'  BY <1>0, <2>5, <2>7 DEF TypeOK
  <2>9. Seen'  BY <2>2, <2>6, <2>8 DEF Seen
  <2>10. Sure'  BY <2>1, <2>5 DEF Sure
  <2> QED  BY <1>0, <2>4, <2>5, <2>9, <2>10
<1>9. CASE Open
  <2>1. /\ ~Calling /\ call' = call /\ ~up
        /\ UNCHANGED <<now, box, ran, ranUnseen, watched, blind>>
    BY <1>9 DEF Open, Clocked, provider
  <2>2. call = NoCall /\ ~Taking  BY <2>1 DEF Calling, Taking, NoCall
  <2>3. CASE ObserveEnd("expired", TRUE) /\ unseen' = (box = "running")
    BY <1>0, <2>1, <2>2, <2>3, EndStep DEF Reasons
  <2>4. CASE ObserveUnsure /\ UNCHANGED unseen
    <3>1. ledger' = ledger /\ meter'.since = meter.since /\ (Metered' <=> Metered)
          /\ (Metered => meter'.uncertain)
      <4>1. CASE meter.since = Never
        BY <2>4, <4>1 DEF ObserveUnsure, Metered, Clocked
      <4>2. CASE meter.since # Never
        <5>1. meter' = [meter EXCEPT !.uncertain = TRUE] /\ ledger' = ledger
          BY <2>4, <4>2 DEF ObserveUnsure
        <5>2. meter'.since = meter.since /\ meter'.uncertain = TRUE
          BY <1>0, <5>1 DEF Meters
        <5> QED  BY <4>2, <5>1, <5>2 DEF Metered, Off
      <4> QED  BY <4>1, <4>2
    <3>2. ~Calling' /\ ~Taking' /\ call'.kind = "none"
      BY <2>1, <2>2 DEF Calling, Taking, NoCall
    <3>3. Clocked'  BY <1>0, <2>1, <3>1, <3>2 DEF Clocked
    <3>4. Ordered' /\ (\A t \in Int : Covered(t) => Covered(t)')
          /\ \A i \in DOMAIN ledger' : Watchful(ledger[i])'
      BY <1>0, <2>1, <3>1, <3>2, KeptStep
    <3>5. Seen'  BY <1>0, <2>1, <2>2, <2>4, <3>1, <3>2, <3>4 DEF Seen, TypeOK
    <3>6. Sure'  BY <3>1, <3>4 DEF Sure
    <3> QED  BY <1>0, <3>3, <3>4, <3>5, <3>6
  <2> QED  BY <1>9, <2>3, <2>4 DEF Open
<1>10. CASE TakeEffect
  <2>1. /\ call' = [call EXCEPT !.done = TRUE] /\ call.kind # "none" /\ ~call.done
        /\ unseen' = (unseen /\ call.kind # "create")
        /\ UNCHANGED <<now, meter, ledger, up, ran, ranUnseen, watched, blind>>
    BY <1>10 DEF TakeEffect, session
  <2>2. /\ call'.kind = call.kind /\ call'.at = call.at /\ call'.done = TRUE
        /\ Metered' = Metered /\ Calling /\ Calling'
    BY <2>1, CallingKinds DEF Metered, TypeOK, Requests, Calling, NoCall
  <2>3. ~Taking /\ (Taking' <=> call.kind \in {"create", "resume"})
    BY <2>1, <2>2 DEF Taking
  <2>4. Clocked'  BY <1>0, <2>1, <2>2 DEF Clocked
  <2>5. Ordered' /\ (\A t \in Int : Covered(t) => Covered(t)')
        /\ \A i \in DOMAIN ledger' : Watchful(ledger[i])'
    BY <1>0, <2>1, <2>2, KeptStep
  <2>6. \/ Taking'
        \/ call.kind = "pause" /\ box' = "paused"
        \/ call.kind = "delete" /\ box' = "gone"
    BY <1>0, <1>10, <2>1, <2>3 DEF TakeEffect, TypeOK, Requests
  <2>7. call.kind = "pause" => Metered /\ box' # "running"
    BY <2>3, <2>6 DEF Seen
  <2>8. box' = "running" => Taking'  BY <2>6
  <2>9. \A t \in ran \ ranUnseen : Covered(t)'  BY <1>0, <2>3, <2>5 DEF Seen, TypeOK
  <2>10. Seen'  BY <2>1, <2>2, <2>7, <2>8, <2>9 DEF Seen
  <2>11. Sure'  BY <2>1, <2>2, <2>5 DEF Sure
  <2> QED  BY <1>0, <2>4, <2>5, <2>10, <2>11
<1>11. CASE Tick
  <2>1. /\ now' = now + 1
        /\ UNCHANGED <<meter, ledger, up, call, unseen, watched>>
        /\ Metered' = Metered /\ Calling' = Calling /\ Taking' = Taking
    BY <1>11 DEF Tick, session, process, Metered, Calling, Taking
  <2>2. now' \in Int /\ now < now'  BY <1>0, <2>1
  <2>3. Clocked'
    <3>1. \A t \in ran' : t < now'  BY <1>0, <1>11, <2>2 DEF Tick, Clocked, TypeOK
    <3>2. \A n \in Int : n <= now => n <= now'  BY <1>0, <2>2
    <3> QED  BY <1>0, <2>1, <2>2, <3>1, <3>2 DEF Clocked, Meters
  <2>4. blind' \subseteq blind \cup {now} /\ (watched => blind' = blind)
    BY <1>11 DEF Tick
  <2>5. Ordered' /\ (\A t \in Int : Covered(t) => Covered(t)')
        /\ \A i \in DOMAIN ledger' : Watchful(ledger[i])'
    BY <1>0, <2>1, <2>2, <2>4, KeptStep
  <2>6. box' = "running" => box = "running"  BY <1>11 DEF Tick
  <2>7. ASSUME NEW t \in ran' \ ranUnseen'
        PROVE  Covered(t)' \/ (Taking /\ call.at <= t)
    <3>1. CASE t \in ran \ ranUnseen  BY <1>0, <2>5, <3>1 DEF Seen, TypeOK
    <3>2. CASE t = now /\ box = "running" /\ ~unseen
      <4>1. CASE Metered  BY <1>0, <2>1, <3>2, <4>1 DEF Covered, Clocked
      <4>2. CASE Taking  BY <1>0, <3>2, <4>2, CallingKinds DEF Taking, Clocked
      <4> QED  BY <3>2, <4>1, <4>2 DEF Seen
    <3> QED  BY <1>11, <2>7, <3>1, <3>2 DEF Tick
  <2>8. Seen'  BY <2>1, <2>6, <2>7 DEF Seen
  <2>9. Sure'  BY <2>1, <2>4, <2>5 DEF Sure
  <2> QED  BY <1>0, <2>3, <2>5, <2>8, <2>9
<1>12. CASE Vanish
  <2>1. /\ box' = "gone"
        /\ UNCHANGED <<now, meter, ledger, up, call, unseen, ran, ranUnseen, watched, blind>>
    BY <1>12 DEF Vanish, session, process, history
  <2>2. Metered' = Metered /\ Calling' = Calling /\ Taking' = Taking
    BY <2>1 DEF Metered, Calling, Taking
  <2>3. Clocked'  BY <2>1, <2>2 DEF Clocked
  <2>4. Ordered' /\ (\A t \in Int : Covered(t) => Covered(t)')
        /\ \A i \in DOMAIN ledger' : Watchful(ledger[i])'
    BY <1>0, <2>1, <2>2, KeptStep
  <2>5. Seen'  BY <1>0, <2>1, <2>2, <2>4 DEF Seen, TypeOK
  <2>6. Sure'  BY <2>1, <2>2, <2>4 DEF Sure
  <2> QED  BY <1>0, <2>3, <2>4, <2>5, <2>6
<1>13. CASE UNCHANGED vars
  BY <1>0, <1>13 DEF vars, session, process, provider, history, Clocked, Ordered, Own, Seen, Sure,
     Covered, Watchful, Calling, Metered, Taking
<1> QED
  BY <1>1, <1>2, <1>3, <1>4, <1>5, <1>6, <1>7, <1>8, <1>9, <1>10, <1>11, <1>12, <1>13
  DEF Next

\* The session starts with nothing charged, nothing running and nobody waited for.
LEMMA InitAccounted == Init => Accounted
<1> SUFFICES ASSUME Init  PROVE  Accounted
  OBVIOUS
<1>1. Off \in Meters /\ NoCall \in Requests
  BY DEF Off, NoCall, Never, Meters, Requests
<1>2. TypeOK
  <2>1. ledger \in Seq(Records)  BY EmptySeq DEF Init
  <2> QED  BY <1>1, <2>1 DEF Init, TypeOK
<1>3. ledger = <<>> /\ DOMAIN ledger = {} /\ ~Metered /\ ~Calling /\ ran = {} /\ box = "none"
      /\ call.kind = "none"
  BY DEF Init, Metered, Calling, NoCall
<1>4. Own = {}  BY <1>3 DEF Own
<1> QED  BY <1>2, <1>3, <1>4 DEF Accounted, Clocked, Ordered, Seen, Sure

\* The meter keeps its account whatever is called, fails, is lost or outlives its process.
THEOREM TimeIsAccounted == Spec => []Accounted
<1>1. Accounted /\ [Next]_vars => Accounted'  BY AccountedStep
<1> QED  BY <1>1, InitAccounted, PTL DEF Spec

\* No second of a session is charged twice, whatever the lifetime and however its sandbox
\* is created, resumed, lost and settled (sandbox-usage.ts, recordSandboxTransition).
THEOREM NothingChargedTwice == Spec => []IntervalsAreDisjoint
<1>1. Accounted => IntervalsAreDisjoint
  BY DEF Accounted, Ordered, Metered, IntervalsAreDisjoint
<1> QED  BY <1>1, TimeIsAccounted, PTL

\* What runs in sight is spoken for by a record, by the open interval or by the call on its
\* way.
THEOREM RunningIsSpokenFor == Spec => []RunningIsMetered
<1>1. Accounted => RunningIsMetered
  <2> SUFFICES ASSUME Accounted, NEW t \in ran \ ranUnseen  PROVE  Spoken(t)
    BY DEF RunningIsMetered
  <2>1. Taking => Calling  BY CallingKinds DEF Accounted, Taking
  <2> QED  BY <2>1 DEF Accounted, Seen, Covered, Spoken, Metered, Calling
<1> QED  BY <1>1, TimeIsAccounted, PTL

\* A record says it is certain only of time that was watched to its end.
THEOREM CertainIsWatched == Spec => []CertainWasWatched
<1>1. Accounted => CertainWasWatched
  BY DEF Accounted, Sure, Watchful, CertainWasWatched
<1> QED  BY <1>1, TimeIsAccounted, PTL
=============================================================================
