--------------------------- MODULE SessionLedger ---------------------------
(***************************************************************************)
(* What the runtime promises a product surface about sessions and turns,   *)
(* with nothing of how it keeps the promise: a session is an append-only   *)
(* history of turns, a request ID opens at most one turn of its session, a *)
(* session has at most one unsettled turn, an interrupted turn is the only *)
(* one that runs again, and a branch copies a settled prefix.              *)
(* Source: docs/product/2026-09-13-local-runtime.md (the acceptance and    *)
(* recovery contract); Runtime.tla is shown to implement it.               *)
(***************************************************************************)
EXTENDS Naturals, Sequences

CONSTANTS Sessions, Turns, Requests

Results == {"completed", "failed", "killed", "canceled"}

VARIABLES
  history,    \* history[s]: the turns of session s, oldest first
  phase,      \* phase[t]: "new", "open", "interrupted", or the result of t
  opened      \* <<session, request ID, turn>> of every acceptance

ledgerVars == <<history, phase, opened>>

Settled(t) == phase[t] \in Results

LedgerInit ==
  /\ history = [s \in Sessions |-> <<>>]
  /\ phase = [t \in Turns |-> "new"]
  /\ opened = {}

\* A request is accepted at the end of a history whose turns are all settled.
Accept(s, r, t) ==
  /\ phase[t] = "new"
  /\ \A i \in DOMAIN history[s] : Settled(history[s][i])
  /\ \A u \in Turns : <<s, r, u>> \notin opened
  /\ history' = [history EXCEPT ![s] = Append(@, t)]
  /\ phase' = [phase EXCEPT ![t] = "open"]
  /\ opened' = opened \cup {<<s, r, t>>}

Conclude(t, result) ==
  /\ phase[t] = "open"
  /\ phase' = [phase EXCEPT ![t] = result]
  /\ UNCHANGED <<history, opened>>

\* Process death interrupts every turn that was open, in one step.
Interrupt(T) ==
  /\ \A t \in T : phase[t] = "open"
  /\ phase' = [t \in Turns |-> IF t \in T THEN "interrupted" ELSE phase[t]]
  /\ UNCHANGED <<history, opened>>

Reopen(t) ==
  /\ phase[t] = "interrupted"
  /\ phase' = [phase EXCEPT ![t] = "open"]
  /\ UNCHANGED <<history, opened>>

Branch(s, b, n) ==
  /\ history[b] = <<>>
  /\ n \in 1 .. Len(history[s])
  /\ \A i \in 1 .. n : Settled(history[s][i])
  /\ history' = [history EXCEPT ![b] = SubSeq(history[s], 1, n)]
  /\ UNCHANGED <<phase, opened>>

LedgerNext ==
  \/ \E s \in Sessions, r \in Requests, t \in Turns : Accept(s, r, t)
  \/ \E t \in Turns, result \in Results : Conclude(t, result)
  \/ \E T \in SUBSET Turns : Interrupt(T)
  \/ \E t \in Turns : Reopen(t)
  \/ \E s, b \in Sessions : \E n \in 1 .. Len(history[s]) : Branch(s, b, n)

LedgerSpec == LedgerInit /\ [][LedgerNext]_ledgerVars
=============================================================================
