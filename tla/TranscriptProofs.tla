-------------------------- MODULE TranscriptProofs --------------------------
(***************************************************************************)
(* Theorems about LegacyLoop and PiProjection: the model is told every     *)
(* result of every call it made, and an extension reads on every lane the  *)
(* conversation the model is told, for any tool calls, lanes and entries.  *)
(***************************************************************************)
EXTENDS LegacyLoop, PiProjection, FiniteSetTheorems, SequenceTheorems,
        WellFoundedInduction, TLAPS

-----------------------------------------------------------------------------
(* Commits that add no result.                                             *)

\* A sequence, of whatever it holds.
IsSequence(seq) == seq \in Seq({seq[i] : i \in DOMAIN seq})

\* What is a sequence of something is one of what it holds.
LEMMA SequenceOf ==
  ASSUME NEW S, NEW seq \in Seq(S)
  PROVE  IsSequence(seq)
<1> DEFINE R == {seq[i] : i \in DOMAIN seq}
<1>1. Len(seq) \in Nat /\ seq \in [1 .. Len(seq) -> S]
  BY LenProperties
<1>2. seq \in [1 .. Len(seq) -> R]
  BY <1>1
<1> HIDE DEF R
<1>3. seq \in Seq(R)
  BY <1>1, <1>2, SeqDef
<1>4. QED BY <1>3 DEF R, IsSequence

\* What a sequence becomes when an entry is added to it.
LEMMA Appended ==
  ASSUME NEW seq, IsSequence(seq), NEW e
  PROVE  /\ IsSequence(Append(seq, e))
         /\ Len(seq) \in Nat
         /\ DOMAIN seq = 1 .. Len(seq)
         /\ Len(Append(seq, e)) = Len(seq) + 1
         /\ DOMAIN Append(seq, e) = 1 .. Len(seq) + 1
         /\ Append(seq, e)[Len(seq) + 1] = e
         /\ \A i \in 1 .. Len(seq) : Append(seq, e)[i] = seq[i]
<1> DEFINE S == {seq[i] : i \in DOMAIN seq} \cup {e}
<1>1. seq \in Seq(S) /\ e \in S
  <2>1. Len(seq) \in Nat /\ seq \in [1 .. Len(seq) -> {seq[i] : i \in DOMAIN seq}]
    BY LenProperties DEF IsSequence
  <2>2. seq \in [1 .. Len(seq) -> S]
    BY <2>1
  <2> HIDE DEF S
  <2>3. seq \in Seq(S)
    BY <2>1, <2>2, SeqDef
  <2>4. e \in S
    BY DEF S
  <2>5. QED BY <2>3, <2>4
<1> HIDE DEF S
<1>2. Append(seq, e) \in Seq(S)
  BY <1>1, AppendProperties
<1>3. IsSequence(Append(seq, e))
  BY <1>2, SequenceOf
<1>4. Len(seq) \in Nat /\ DOMAIN seq = 1 .. Len(seq)
  BY <1>1, LenProperties
<1>5. Len(Append(seq, e)) = Len(seq) + 1 /\ DOMAIN Append(seq, e) = 1 .. Len(seq) + 1
  BY <1>1, <1>2, <1>4, AppendProperties, LenProperties
<1>6. Append(seq, e)[Len(seq) + 1] = e /\ \A i \in 1 .. Len(seq) : Append(seq, e)[i] = seq[i]
  BY <1>1, <1>4, AppendProperties
<1>7. QED BY <1>3, <1>4, <1>5, <1>6

\* The results that ran, up to an entry of the log, are finitely many.
LEMMA RanIsFinite ==
  ASSUME IsSequence(log)
  PROVE  /\ Ran \subseteq 1 .. Len(log) /\ Len(log) \in Nat
         /\ IsFiniteSet(Ran) /\ Cardinality(Ran) \in Nat
         /\ \A i : Rank(i) \in Nat /\ Rank(i) <= Cardinality(Ran)
         /\ \A i \in Ran : Rank(i) >= 1
<1>1. Len(log) \in Nat /\ DOMAIN log = 1 .. Len(log)
  BY LenProperties DEF IsSequence
<1>2. Ran \subseteq 1 .. Len(log)
  BY <1>1 DEF Ran, At
<1>3. IsFiniteSet(Ran) /\ Cardinality(Ran) \in Nat
  <2>1. IsFiniteSet(1 .. Len(log))
    BY <1>1, FS_Interval
  <2>2. IsFiniteSet(Ran)
    BY <1>2, <2>1, FS_Subset
  <2>3. QED BY <2>2, FS_CardinalityType
<1>4. ASSUME NEW i
      PROVE  /\ Rank(i) \in Nat /\ Rank(i) <= Cardinality(Ran)
             /\ i \in Ran => Rank(i) >= 1
  <2> DEFINE upTo == {j \in Ran : j <= i}
  <2>1. IsFiniteSet(upTo) /\ Cardinality(upTo) <= Cardinality(Ran) /\ Cardinality(upTo) \in Nat
    BY <1>3, FS_Subset, FS_CardinalityType
  <2>2. i \in Ran => Cardinality(upTo) # 0
    <3>1. i \in Ran => i \in upTo
      BY <1>2
    <3>2. QED BY <2>1, <3>1, FS_EmptySet
  <2> HIDE DEF upTo
  <2>3. Cardinality(upTo) >= 1 <=> Cardinality(upTo) # 0
    BY <2>1
  <2>4. QED BY <2>1, <2>2, <2>3 DEF upTo, Rank
<1>5. QED BY <1>1, <1>2, <1>3, <1>4

\* Entries that are not results of tools that ran leave the results as they are.
LEMMA OtherEntries ==
  ASSUME IsSequence(log), IsSequence(log)', NEW n \in Nat, Len(log') = Len(log) + n,
         \A i \in 1 .. Len(log) : log'[i] = log[i],
         \A i \in Len(log) + 1 .. Len(log) + n : log'[i].type = "tool.result" => log'[i].refused
  PROVE  Ran' = Ran /\ \A i \in Ran : Rank(i)' = Rank(i) /\ log'[i] = log[i]
<1>1. Len(log) \in Nat /\ DOMAIN log = 1 .. Len(log) /\ DOMAIN log' = 1 .. Len(log) + n
  BY LenProperties DEF IsSequence
<1>2. \A i : i \in 1 .. Len(log) + n <=> i \in 1 .. Len(log) \/ i \in Len(log) + 1 .. Len(log) + n
  BY <1>1
<1>3. Ran' = Ran
  BY <1>1, <1>2 DEF Ran, At
<1>4. QED BY <1>1, <1>3 DEF Rank, Ran, At

\* The result of a tool that ran is the last of them.
LEMMA RunEntry ==
  ASSUME IsSequence(log), NEW e, log' = Append(log, e), e.type = "tool.result", ~e.refused,
         NEW n, n = Len(log) + 1
  PROVE  /\ IsSequence(log)' /\ Ran' = Ran \cup {n} /\ n \notin Ran
         /\ Cardinality(Ran)' = Cardinality(Ran) + 1
         /\ Rank(n)' = Cardinality(Ran) + 1 /\ log'[n] = e
         /\ \A i \in Ran : Rank(i)' = Rank(i) /\ log'[i] = log[i]
<1>1. /\ IsSequence(log') /\ Len(log) \in Nat /\ DOMAIN log = 1 .. Len(log)
      /\ DOMAIN log' = 1 .. n /\ log'[n] = e
      /\ \A i \in 1 .. Len(log) : log'[i] = log[i]
  BY Appended
<1>2. \A i : i \in 1 .. n <=> i \in 1 .. Len(log) \/ i = n
  BY <1>1
<1>3. Ran' = Ran \cup {n} /\ Ran \subseteq 1 .. Len(log)
  BY <1>1, <1>2 DEF Ran, At
<1>4. n \notin Ran /\ \A i \in Ran : i <= n /\ ~(n <= i)
  BY <1>1, <1>3
<1>5. Cardinality(Ran') = Cardinality(Ran) + 1
  <2>1. IsFiniteSet(Ran)
    BY RanIsFinite
  <2>2. QED BY <1>3, <1>4, <2>1, FS_AddElement
<1>6. Rank(n)' = Cardinality(Ran')
  <2>1. n <= n
    BY <1>1
  <2>2. {j \in Ran' : j <= n} = Ran'
    BY <1>3, <1>4, <2>1
  <2>3. QED BY <2>2 DEF Rank
<1>7. ASSUME NEW i \in Ran
      PROVE  Rank(i)' = Rank(i)
  <2>1. {j \in Ran' : j <= i} = {j \in Ran : j <= i}
    BY <1>3, <1>4
  <2>2. QED BY <2>1 DEF Rank
<1>8. QED BY <1>1, <1>3, <1>4, <1>5, <1>6, <1>7

-----------------------------------------------------------------------------
(* EffectsOnce is not inductive alone: it takes that the shell's files are *)
(* the committed ones between two calls, and one effect ahead while a call *)
(* that may run has no result.                                             *)
Files ==
  /\ pc \in {"tools", "waiting"} => vfs = workspace
  /\ pc = "working" =>
       stopReason = "toolUse" /\ vfs = Append(workspace, [tool |-> Head(queue), whole |-> FALSE])
  /\ pc = "publishing" =>
       \/ stopReason = "length" /\ vfs = workspace
       \/ stopReason = "toolUse" /\ vfs = Append(workspace, [tool |-> Head(queue), whole |-> TRUE])

Committed == IsSequence(log) /\ IsSequence(workspace) /\ EffectsOnce /\ Files

\* A step that commits neither a result of a tool that ran nor files keeps the effects.
LEMMA EffectsKept ==
  ASSUME Committed, UNCHANGED workspace,
         \/ UNCHANGED log
         \/ \E e : log' = Append(log, e) /\ (e.type = "tool.result" => e.refused)
         \/ \E e, f : /\ log' = Append(Append(log, e), f)
                      /\ e.type # "tool.result" /\ f.type # "tool.result"
  PROVE  IsSequence(log)' /\ IsSequence(workspace)' /\ EffectsOnce'
<1>1. IsSequence(log)' /\ Ran' = Ran /\ \A i \in Ran : Rank(i)' = Rank(i) /\ log'[i] = log[i]
  <2>1. CASE UNCHANGED log
    BY <2>1 DEF Ran, At, Rank, Committed, IsSequence
  <2>2. ASSUME NEW e, log' = Append(log, e), e.type = "tool.result" => e.refused
        PROVE  <1>1!:
    <3>1. /\ IsSequence(log') /\ Len(log) \in Nat /\ Len(log') = Len(log) + 1
          /\ log'[Len(log) + 1] = e
          /\ \A i \in 1 .. Len(log) : log'[i] = log[i]
      BY <2>2, Appended DEF Committed
    <3>2. \A i \in Len(log) + 1 .. Len(log) + 1 : i = Len(log) + 1
      BY <3>1
    <3>3. QED BY <2>2, <3>1, <3>2, OtherEntries DEF Committed
  <2>3. ASSUME NEW e, NEW f, log' = Append(Append(log, e), f),
               e.type # "tool.result", f.type # "tool.result"
        PROVE  <1>1!:
    <3> DEFINE l == Append(log, e)
    <3>1. /\ IsSequence(l) /\ Len(log) \in Nat /\ Len(l) = Len(log) + 1
          /\ l[Len(log) + 1] = e
          /\ \A i \in 1 .. Len(log) : l[i] = log[i]
      BY Appended DEF Committed
    <3> HIDE DEF l
    <3>2. log' = Append(l, f)
      BY <2>3 DEF l
    <3>3. /\ IsSequence(log') /\ Len(log') = Len(l) + 1
          /\ log'[Len(l) + 1] = f
          /\ \A i \in 1 .. Len(l) : log'[i] = l[i]
      BY <3>1, <3>2, Appended
    <3>4. /\ Len(log') = Len(log) + 2
          /\ log'[Len(log) + 2] = f /\ log'[Len(log) + 1] = e
          /\ \A i \in 1 .. Len(log) : log'[i] = log[i]
      BY <3>1, <3>3
    <3>5. \A i \in Len(log) + 1 .. Len(log) + 2 : i = Len(log) + 1 \/ i = Len(log) + 2
      BY <3>1
    <3>6. QED BY <2>3, <3>3, <3>4, <3>5, OtherEntries DEF Committed
  <2>4. QED BY <2>1, <2>2, <2>3
<1>2. QED BY <1>1 DEF Committed, EffectsOnce, IsSequence

\* What settles an attempt is one entry or two.
Unknown(call) == [type |-> "model.unknown", call |-> call]
Known(call, stop, tools) == [type |-> "model.call", call |-> call, stop |-> stop, tools |-> tools]
More == [type |-> "message.continue"]

LEMMA SettlementIs ==
  ASSUME IsSequence(log), NEW call, NEW stop, NEW tools
  PROVE  log \o Settlement(call, stop, tools) =
           IF stop \in Uncertain THEN Append(log, Unknown(call))
           ELSE IF stop = "length" /\ tools = <<>>
                THEN Append(Append(log, Known(call, stop, tools)), More)
                ELSE Append(log, Known(call, stop, tools))
<1>1. PICK unknown, known, more :
        unknown = Unknown(call) /\ known = Known(call, stop, tools) /\ more = More
  OBVIOUS
<1>2. Settlement(call, stop, tools) = IF stop \in Uncertain THEN <<unknown>>
                                      ELSE IF stop = "length" /\ tools = <<>>
                                           THEN <<known>> \o <<more>> ELSE <<known>> \o <<>>
  BY <1>1 DEF Settlement, Unknown, Known, More
<1> DEFINE S == {log[i] : i \in DOMAIN log} \cup {unknown, known, more}
<1>3. log \in Seq(S) /\ <<unknown>> \in Seq(S) /\ <<known>> \in Seq(S) /\ <<more>> \in Seq(S)
  BY SeqMonotonic DEF IsSequence
<1>4. unknown \in S /\ known \in S /\ more \in S
  OBVIOUS
<1> HIDE DEF S
<1>5. /\ log \o <<unknown>> = Append(log, unknown)
      /\ log \o <<known>> = Append(log, known)
      /\ <<known>> \o <<>> = <<known>>
  BY <1>3, <1>4, AppendIsConcat, ConcatEmptySeq
<1>6. log \o (<<known>> \o <<more>>) = Append(Append(log, known), more)
  <2>1. log \o (<<known>> \o <<more>>) = (log \o <<known>>) \o <<more>>
    BY <1>3, ConcatAssociative
  <2>2. Append(log, known) \in Seq(S)
    BY <1>3, <1>4, AppendProperties
  <2>3. Append(log, known) \o <<more>> = Append(Append(log, known), more)
    BY <1>4, <2>2, AppendIsConcat
  <2>4. QED BY <1>5, <2>1, <2>3
<1>7. QED BY <1>1, <1>2, <1>5, <1>6

\* It is no result.
LEMMA SettlementEntries ==
  ASSUME IsSequence(log), NEW call, NEW stop, NEW tools
  PROVE  \/ \E e : log \o Settlement(call, stop, tools) = Append(log, e) /\ e.type # "tool.result"
         \/ \E e, f : /\ log \o Settlement(call, stop, tools) = Append(Append(log, e), f)
                      /\ e.type # "tool.result" /\ f.type # "tool.result"
<1>1. /\ Unknown(call).type # "tool.result" /\ Known(call, stop, tools).type # "tool.result"
      /\ More.type # "tool.result"
  BY DEF Unknown, Known, More
<1>2. QED BY <1>1, SettlementIs

\* Every step keeps what is committed whole.
LEMMA CommittedStep == Committed /\ [Next]_vars => Committed'
<1> SUFFICES ASSUME Committed, [Next]_vars
             PROVE  Committed'
  OBVIOUS
<1>1. ASSUME NEW compacts \in BOOLEAN, Begin(compacts)
      PROVE  Committed'
  <2>1. UNCHANGED workspace /\ vfs' = workspace /\ pc' \in {"returned", "tools"}
    BY <1>1 DEF Begin
  <2>2. Checkpoint.type = "context.checkpoint"
    BY DEF Checkpoint
  <2>3. UNCHANGED log \/ log' = Append(log, Checkpoint)
    BY <1>1 DEF Begin
  <2>4. IsSequence(log)' /\ IsSequence(workspace)' /\ EffectsOnce'
    BY <2>1, <2>2, <2>3, EffectsKept
  <2>5. QED BY <2>1, <2>4 DEF Committed, Files
<1>2. CASE Ask
  <2>1. PICK call : log' = Append(log, [type |-> "model.started", call |-> call])
    BY <1>2 DEF Ask
  <2>2. IsSequence(log)' /\ IsSequence(workspace)' /\ EffectsOnce'
    BY <1>2, <2>1, EffectsKept DEF Ask
  <2>3. Files'
    BY <1>2 DEF Ask, Committed, Files
  <2>4. QED BY <2>2, <2>3 DEF Committed
<1>3. ASSUME NEW stop \in Stops, NEW tools \in Chosen, Respond(stop, tools)
      PROVE  Committed'
  <2>1. PICK call : log' = log \o Settlement(call, stop, tools)
    BY <1>3 DEF Respond
  <2>2. IsSequence(log)' /\ IsSequence(workspace)' /\ EffectsOnce'
    BY <1>3, <2>1, SettlementEntries, EffectsKept DEF Respond, Committed
  <2>3. Files'
    BY <1>3 DEF Respond, Committed, Files
  <2>4. QED BY <2>2, <2>3 DEF Committed
<1>4. CASE StartTool
  <2>1. IsSequence(log)' /\ IsSequence(workspace)' /\ EffectsOnce'
    BY <1>4, EffectsKept DEF StartTool
  <2>2. Files'
    BY <1>4 DEF StartTool, Committed, Files
  <2>3. QED BY <2>1, <2>2 DEF Committed
<1>5. CASE RefuseTool
  <2>1. IsSequence(log)' /\ IsSequence(workspace)' /\ EffectsOnce'
    BY <1>5, EffectsKept DEF RefuseTool
  <2>2. Files'
    BY <1>5 DEF RefuseTool, Committed, Files
  <2>3. QED BY <2>1, <2>2 DEF Committed
<1>6. CASE EndTool
  <2>1. IsSequence(log)' /\ IsSequence(workspace)' /\ EffectsOnce'
    BY <1>6, EffectsKept DEF EndTool
  <2>2. vfs' = Append(workspace, [tool |-> Head(queue), whole |-> TRUE])
    <3> DEFINE cut == [tool |-> Head(queue), whole |-> FALSE]
               done == [tool |-> Head(queue), whole |-> TRUE]
               n == Len(workspace) + 1
    <3>1. [cut EXCEPT !.whole = TRUE] = done
      <4>1. ASSUME NEW t, NEW a, NEW b
            PROVE  [[tool |-> t, whole |-> a] EXCEPT !.whole = b] = [tool |-> t, whole |-> b]
        OBVIOUS
      <4>2. QED BY <4>1
    <3>2. vfs = Append(workspace, cut) /\ vfs' = [vfs EXCEPT ![Len(vfs)].whole = TRUE]
      BY <1>6 DEF EndTool, Committed, Files
    <3> HIDE DEF cut, done
    <3>3. /\ IsSequence(vfs) /\ Len(vfs) = n /\ DOMAIN vfs = 1 .. n /\ vfs[n] = cut
          /\ \A i \in 1 .. Len(workspace) : vfs[i] = workspace[i]
          /\ Len(workspace) \in Nat
      BY <3>2, Appended DEF Committed
    <3>4. /\ IsSequence(Append(workspace, done)) /\ Len(Append(workspace, done)) = n
          /\ DOMAIN Append(workspace, done) = 1 .. n /\ Append(workspace, done)[n] = done
          /\ \A i \in 1 .. Len(workspace) : Append(workspace, done)[i] = workspace[i]
      BY Appended DEF Committed
    <3> HIDE DEF n
    <3>5. vfs' = [i \in 1 .. n |-> IF i = n THEN done ELSE vfs[i]]
      BY <3>1, <3>2, <3>3
    <3>6. \A i \in 1 .. n : i # n => i \in 1 .. Len(workspace)
      BY <3>3 DEF n
    <3>7. Append(workspace, done) = [i \in 1 .. n |-> Append(workspace, done)[i]]
      BY <3>4, LenProperties DEF IsSequence
    <3>8. QED BY <3>3, <3>4, <3>5, <3>6, <3>7 DEF done
  <2>3. stopReason' = "toolUse" /\ pc' = "publishing" /\ UNCHANGED <<workspace, queue>>
    BY <1>6 DEF EndTool, Committed, Files
  <2>4. QED BY <2>1, <2>2, <2>3 DEF Committed, Files
<1>7. CASE Publish
  <2> DEFINE tool == Head(queue)
             result == [type |-> "tool.result", tool |-> tool, refused |-> stopReason = "length"]
  <2>1. /\ log' = Append(log, result) /\ workspace' = vfs /\ UNCHANGED vfs /\ pc' = "tools"
        /\ pc = "publishing"
    BY <1>7 DEF Publish
  <2>2. Files'
    BY <2>1 DEF Files
  <2>3. result.type = "tool.result" /\ result.tool = tool
    OBVIOUS
  <2>4. CASE stopReason = "length"
    <3>1. result.refused /\ UNCHANGED workspace
      BY <2>1, <2>4 DEF Committed, Files
    <3> HIDE DEF result
    <3>2. IsSequence(log)' /\ IsSequence(workspace)' /\ EffectsOnce'
      BY <2>1, <3>1, EffectsKept
    <3>3. QED BY <2>2, <3>2 DEF Committed
  <2>5. CASE stopReason # "length"
    <3> DEFINE done == [tool |-> tool, whole |-> TRUE]
    <3>1. ~result.refused /\ workspace' = Append(workspace, done)
      BY <2>1, <2>5 DEF Committed, Files
    <3>2. done.tool = tool /\ done.whole
      OBVIOUS
    <3> HIDE DEF result, done, tool
    <3>3. /\ IsSequence(workspace') /\ Len(workspace) \in Nat
          /\ Len(workspace') = Len(workspace) + 1 /\ workspace'[Len(workspace) + 1] = done
          /\ \A i \in 1 .. Len(workspace) : workspace'[i] = workspace[i]
      BY <3>1, Appended DEF Committed
    <3>4. PICK n : n = Len(log) + 1
      OBVIOUS
    <3>5. /\ IsSequence(log)' /\ Ran' = Ran \cup {n} /\ n \notin Ran
          /\ Cardinality(Ran)' = Cardinality(Ran) + 1
          /\ Rank(n)' = Cardinality(Ran) + 1 /\ log'[n] = result
          /\ \A i \in Ran : Rank(i)' = Rank(i) /\ log'[i] = log[i]
      BY <2>1, <2>3, <3>1, <3>4, RunEntry DEF Committed
    <3>6. Len(workspace) = Cardinality(Ran)
      BY DEF Committed, EffectsOnce
    <3>7. ASSUME NEW i \in Ran'
          PROVE  workspace'[Rank(i)'].tool = log'[i].tool /\ workspace'[Rank(i)'].whole
      <4>1. CASE i = n
        BY <2>3, <3>2, <3>3, <3>5, <3>6, <4>1
      <4>2. CASE i # n
        <5>1. i \in Ran /\ Rank(i) \in 1 .. Len(workspace)
          BY <3>3, <3>5, <3>6, <3>7, <4>2, RanIsFinite DEF Committed
        <5>2. QED BY <3>3, <3>5, <5>1 DEF Committed, EffectsOnce
      <4>3. QED BY <4>1, <4>2
    <3>8. EffectsOnce'
      BY <3>3, <3>5, <3>6, <3>7 DEF EffectsOnce
    <3>9. QED BY <2>2, <3>3, <3>5, <3>8 DEF Committed, IsSequence
  <2>6. QED BY <2>4, <2>5
<1>8. CASE \/ Return \/ ObserveAbort \/ Fault \/ Continue \/ FinishAnswered \/ FinishFailed
           \/ Crash \/ ResumeTurn
  <2>1. /\ UNCHANGED <<log, workspace>>
        /\ pc' \in {"returned", "failing", "loop", "off"}
    BY <1>8 DEF Return, ObserveAbort, Fault, Continue, FinishAnswered, FinishFailed, Finish,
                Crash, ResumeTurn
  <2>2. IsSequence(log)' /\ IsSequence(workspace)' /\ EffectsOnce'
    BY <2>1, EffectsKept
  <2>3. QED BY <2>1, <2>2 DEF Committed, Files
<1>9. CASE (\E why \in {"stop", "close"} : Abort(why)) \/ UNCHANGED vars
  <2>1. UNCHANGED <<log, workspace, pc, vfs, queue, stopReason>>
    BY <1>9 DEF Abort, vars, process
  <2>2. IsSequence(log)' /\ IsSequence(workspace)' /\ EffectsOnce'
    BY <2>1, EffectsKept
  <2>3. QED BY <2>1, <2>2 DEF Committed, Files
<1>10. QED
  BY <1>1, <1>2, <1>3, <1>4, <1>5, <1>6, <1>7, <1>8, <1>9 DEF Next, Executor

\* What is committed is whole in every reachable state.
THEOREM CommitsAreWhole == Spec => []Committed
<1>1. Init => Committed
  <2> SUFFICES ASSUME Init
               PROVE  Committed
    OBVIOUS
  <2>1. IsSequence(<<>>) /\ Len(<<>>) = 0
    BY EmptySeq, SequenceOf
  <2>2. Ran = {}
    BY DEF Init, Ran, At
  <2>3. QED BY <2>1, <2>2, FS_EmptySet DEF Init, Committed, EffectsOnce, Files
<1>2. QED BY <1>1, CommittedStep, PTL DEF Spec

\* However often the turn is stopped, killed or resumed, its committed files are exactly
\* the effects of the tool calls with a result that were not refused, in the log's order.
THEOREM EffectsAreCommittedOnce == Spec => []EffectsOnce
  BY CommitsAreWhole, PTL DEF Committed
-----------------------------------------------------------------------------
(* Sequences made of sequences.                                            *)

\* Induction over Nat, as a fact about sets.
LEMMA NatSets ==
  ASSUME NEW S \in SUBSET Nat, 0 \in S, \A n \in S : n + 1 \in S
  PROVE  S = Nat
<1> DEFINE Less == {ss \in Nat \X Nat : ss[1] < ss[2]}
<1>1. IsWellFoundedOn(Less, Nat)
  BY NatLessThanWellFounded DEF OpToRel
<1> SUFFICES ASSUME Nat \ S # {}
             PROVE  FALSE
  OBVIOUS
<1>2. PICK n \in Nat \ S : \A m \in Nat \ S : ~(<<m, n>> \in Less)
  BY <1>1, WFMin
<1>3. n # 0 /\ n - 1 \in Nat /\ <<n - 1, n>> \in Less
  OBVIOUS
<1>4. n - 1 \in S /\ n - 1 + 1 = n
  BY <1>2, <1>3
<1>5. QED BY <1>4

\* A function on 1 .. n is a sequence of length n.
LEMMA FunctionIsSeq ==
  ASSUME NEW n \in Nat, NEW S, NEW f \in [1 .. n -> S]
  PROVE  f \in Seq(S) /\ Len(f) = n /\ DOMAIN f = 1 .. n
<1>1. f \in Seq(S)
  OBVIOUS
<1>2. Len(f) \in Nat /\ DOMAIN f = 1 .. Len(f)
  BY <1>1, LenProperties
<1>3. \A k : k \in 1 .. n <=> k \in 1 .. Len(f)
  BY <1>2
<1>4. Len(f) = n
  BY <1>2, <1>3
<1>5. QED BY <1>1, <1>4

\* The function by which FlattenSeq joins the first n sequences.
Flattens(seqs, n, f) == f = [i \in 1 .. n |-> IF i = 1 THEN seqs[i] ELSE f[i - 1] \o seqs[i]]

LEMMA FlattensAt ==
  ASSUME NEW seqs, NEW n, NEW f, Flattens(seqs, n, f), NEW i \in 1 .. n
  PROVE  f[i] = IF i = 1 THEN seqs[i] ELSE f[i - 1] \o seqs[i]
  BY Zenon DEF Flattens

\* The same, one further.
LEMMA FlattensNext ==
  ASSUME NEW seqs, NEW n \in Nat, NEW f, Flattens(seqs, n, f), NEW i \in Nat, i + 1 \in 1 .. n
  PROVE  f[i + 1] = IF i = 0 THEN seqs[i + 1] ELSE f[i] \o seqs[i + 1]
<1>1. PICK j : j = i + 1
  OBVIOUS
<1>2. j \in 1 .. n /\ j - 1 = i /\ (j = 1 <=> i = 0)
  BY <1>1
<1>3. f[j] = IF j = 1 THEN seqs[j] ELSE f[j - 1] \o seqs[j]
  BY <1>2, FlattensAt
<1>4. QED BY <1>1, <1>2, <1>3

LEMMA FlattenExists ==
  ASSUME NEW seqs, NEW n \in Nat
  PROVE  \E f : Flattens(seqs, n, f)
<1> DEFINE S == {m \in Nat : \E f : Flattens(seqs, m, f)}
<1>1. 0 \in S
  <2> DEFINE f == [i \in 1 .. 0 |-> seqs[i]]
  <2>1. \A i \in 1 .. 0 : FALSE
    OBVIOUS
  <2>2. f = [i \in 1 .. 0 |-> IF i = 1 THEN seqs[i] ELSE f[i - 1] \o seqs[i]]
    BY <2>1
  <2>3. Flattens(seqs, 0, f)
    BY <2>2 DEF Flattens
  <2>4. QED BY <2>3
<1>2. ASSUME NEW m \in S
      PROVE  m + 1 \in S
  <2>1. m \in Nat
    OBVIOUS
  <2>2. PICK g : Flattens(seqs, m, g)
    OBVIOUS
  <2> DEFINE h == [i \in 1 .. m + 1 |-> IF i = 1 THEN seqs[i]
                                        ELSE IF i = m + 1 THEN g[m] \o seqs[i] ELSE g[i]]
  <2>3. ASSUME NEW i \in 1 .. m + 1
        PROVE  h[i] = IF i = 1 THEN seqs[i] ELSE h[i - 1] \o seqs[i]
    <3>1. CASE i = 1
      BY <3>1
    <3>2. CASE i # 1
      <4>1. i - 1 \in 1 .. m /\ i - 1 \in 1 .. m + 1 /\ i - 1 # m + 1 /\ 1 \in 1 .. m
        BY <2>1, <3>2
      <4>2. g[1] = seqs[1]
        BY <2>2, <4>1 DEF Flattens
      <4>3. h[i - 1] = g[i - 1]
        BY <4>1, <4>2
      <4>4. CASE i = m + 1
        <5>1. h[i] = g[m] \o seqs[i]
          BY <3>2, <4>4
        <5>0. i - 1 = m
          BY <2>1, <4>4
        <5> HIDE DEF h
        <5>2. QED BY <3>2, <4>3, <5>0, <5>1
      <4>5. CASE i # m + 1
        <5>1. h[i] = g[i] /\ i \in 1 .. m
          BY <2>1, <3>2, <4>5
        <5>2. g[i] = g[i - 1] \o seqs[i]
          BY <2>2, <3>2, <5>1 DEF Flattens
        <5> HIDE DEF h
        <5>3. QED BY <3>2, <4>3, <5>1, <5>2
      <4>6. QED BY <4>4, <4>5
    <3>3. QED BY <3>1, <3>2
  <2>4. h = [i \in 1 .. m + 1 |-> IF i = 1 THEN seqs[i] ELSE h[i - 1] \o seqs[i]]
    <3>1. h = [i \in 1 .. m + 1 |-> h[i]]
      OBVIOUS
    <3> HIDE DEF h
    <3>2. [i \in 1 .. m + 1 |-> h[i]]
          = [i \in 1 .. m + 1 |-> IF i = 1 THEN seqs[i] ELSE h[i - 1] \o seqs[i]]
      BY <2>3
    <3>3. QED BY <3>1, <3>2
  <2> HIDE DEF h
  <2>5. Flattens(seqs, m + 1, h)
    BY <2>4 DEF Flattens
  <2>6. QED BY <2>1, <2>5
<1>3. S = Nat
  BY <1>1, <1>2, NatSets
<1>4. QED BY <1>3

\* Two functions are the same on 1 .. n.
SameUpTo(n, f, g) == \A i \in 1 .. n : g[i] = f[i]

\* Joining the same sequences, alone or with others behind them, gives the same.
LEMMA FlattensAgree ==
  ASSUME NEW seqs, NEW more, NEW n \in Nat, NEW m \in Nat, NEW f, NEW g, n <= m,
         Flattens(seqs, n, f), Flattens(more, m, g), SameUpTo(n, seqs, more)
  PROVE  SameUpTo(n, f, g)
<1>0. SUFFICES \A i \in 1 .. n : f[i] = g[i]
  BY DEF SameUpTo
<1> DEFINE S == {i \in Nat : i \in 1 .. n => f[i] = g[i]}
<1>1. 0 \in S
  OBVIOUS
<1>2. ASSUME NEW i \in S
      PROVE  i + 1 \in S
  <2> SUFFICES ASSUME i + 1 \in 1 .. n
               PROVE  f[i + 1] = g[i + 1]
    OBVIOUS
  <2>1. i \in Nat /\ i + 1 \in 1 .. m /\ i + 1 - 1 = i /\ (i # 0 => i \in 1 .. n)
    OBVIOUS
  <2>2. f[i + 1] = IF i = 0 THEN seqs[i + 1] ELSE f[i] \o seqs[i + 1]
    BY <2>1, FlattensNext
  <2>3. g[i + 1] = IF i = 0 THEN more[i + 1] ELSE g[i] \o more[i + 1]
    BY <2>1, FlattensNext
  <2>4. (i # 0 => f[i] = g[i]) /\ more[i + 1] = seqs[i + 1]
    BY <2>1 DEF SameUpTo
  <2>5. QED BY <2>1, <2>2, <2>3, <2>4
<1>3. S = Nat
  BY <1>1, <1>2, NatSets
<1>4. QED BY <1>3

\* What FlattenSeq chooses is such a function, and sequences over S are joined to one.
LEMMA FlattenIs ==
  ASSUME NEW S, NEW n \in Nat, n # 0, NEW seqs \in [1 .. n -> Seq(S)]
  PROVE  \E f : Flattens(seqs, n, f) /\ FlattenSeq(seqs) = f[n] /\ f[n] \in Seq(S)
<1> DEFINE f == CHOOSE f : Flattens(seqs, n, f)
<1>1. Flattens(seqs, n, f)
  BY FlattenExists
<1>2. Len(seqs) = n
  BY FunctionIsSeq
<1>3. FlattenSeq(seqs) = f[n]
  BY <1>2 DEF FlattenSeq, Flattens
<1> HIDE DEF f
<1> DEFINE R == {i \in Nat : i \in 1 .. n => f[i] \in Seq(S)}
<1>4. 0 \in R
  OBVIOUS
<1>5. ASSUME NEW i \in R
      PROVE  i + 1 \in R
  <2> SUFFICES ASSUME i + 1 \in 1 .. n
               PROVE  f[i + 1] \in Seq(S)
    OBVIOUS
  <2>1. i \in Nat /\ i + 1 - 1 = i /\ (i # 0 => i \in 1 .. n)
    OBVIOUS
  <2>2. f[i + 1] = IF i = 0 THEN seqs[i + 1] ELSE f[i] \o seqs[i + 1]
    BY <1>1, <2>1, FlattensNext
  <2>3. CASE i = 0
    BY <2>2, <2>3
  <2>4. CASE i # 0
    <3>1. f[i] \in Seq(S) /\ seqs[i + 1] \in Seq(S)
      BY <2>1, <2>4
    <3>2. f[i] \o seqs[i + 1] \in Seq(S)
      BY <3>1, ConcatProperties
    <3>3. f[i + 1] = f[i] \o seqs[i + 1]
      BY <2>1, <2>2, <2>4
    <3>4. QED BY <3>2, <3>3
  <2>5. QED BY <2>3, <2>4
<1>6. R = Nat
  BY <1>4, <1>5, NatSets
<1>7. f[n] \in Seq(S)
  <2>1. n \in R /\ n \in 1 .. n
    BY <1>6
  <2> HIDE DEF R
  <2>2. n \in R => (n \in 1 .. n => f[n] \in Seq(S))
    BY Zenon DEF R
  <2>3. QED BY <2>1, <2>2
<1>8. QED BY <1>1, <1>3, <1>7

\* With one sequence more behind them, what is joined is that behind what was joined.
LEMMA FlattenMore ==
  ASSUME NEW S, NEW n \in Nat, NEW seqs \in [1 .. n -> Seq(S)],
         NEW more \in [1 .. n + 1 -> Seq(S)], SameUpTo(n, seqs, more)
  PROVE  FlattenSeq(seqs) \in Seq(S) /\ FlattenSeq(more) = FlattenSeq(seqs) \o more[n + 1]
<1>1. n + 1 \in Nat /\ n + 1 # 0 /\ n + 1 \in 1 .. n + 1
  OBVIOUS
<1>2. PICK g : Flattens(more, n + 1, g) /\ FlattenSeq(more) = g[n + 1]
  BY <1>1, FlattenIs
<1>3. g[n + 1] = IF n = 0 THEN more[n + 1] ELSE g[n] \o more[n + 1]
  BY <1>1, <1>2, FlattensNext
<1>4. more[n + 1] \in Seq(S)
  BY <1>1
<1>5. CASE n = 0
  <2>1. Len(seqs) = 0 /\ seqs \in Seq(Seq(S))
    BY <1>5, FunctionIsSeq
  <2>2. seqs = <<>>
    BY <2>1, EmptySeq
  <2>3. FlattenSeq(seqs) = seqs
    BY <2>1 DEF FlattenSeq
  <2>4. FlattenSeq(seqs) = <<>> /\ <<>> \in Seq(S)
    BY <2>2, <2>3
  <2>5. QED BY <1>2, <1>3, <1>4, <1>5, <2>4, ConcatEmptySeq
<1>6. CASE n # 0
  <2>1. PICK f : Flattens(seqs, n, f) /\ FlattenSeq(seqs) = f[n] /\ f[n] \in Seq(S)
    BY <1>6, FlattenIs
  <2>2. f[n] = g[n]
    <3>1. n \in 1 .. n /\ n <= n + 1
      BY <1>6
    <3>2. PICK m : m = n + 1
      OBVIOUS
    <3>3. m \in Nat /\ n <= m /\ Flattens(more, m, g)
      BY <1>1, <1>2, <3>1, <3>2
    <3>4. SameUpTo(n, f, g)
      BY Zenon, <2>1, <3>3, FlattensAgree
    <3>5. QED BY <3>1, <3>4 DEF SameUpTo
  <2>3. QED BY <1>2, <1>3, <1>6, <2>1, <2>2
<1>7. QED BY <1>5, <1>6
-----------------------------------------------------------------------------
(* The transcript, as the log grows.                                       *)
\* The messages of a transcript.
IDs == Tools \cup {"p", "q"}
Messages ==
  [role : {"user"}, text : {"earlier", "prompt", "continue", "summary"}]
    \cup [role : {"assistant"}, stop : Stops, tools : Seq(IDs)]
    \cup [role : {"toolResult"}, tool : IDs]

\* What is in the log, and what stood before it, makes messages; a checkpoint stands for
\* entries before it.
Logged ==
  /\ IsSequence(log)
  /\ prior \in Seq(Messages)
  /\ \A i \in DOMAIN log :
       /\ Message(log[i]) \in Seq(Messages)
       /\ log[i].type = "context.checkpoint" =>
            log[i].messages \in Seq(Messages) /\ log[i].highWater \in Nat /\ log[i].highWater < i

\* A set of indices has a greatest.
LEMMA IndexMax ==
  ASSUME NEW n \in Nat, NEW S \in SUBSET (1 .. n), S # {}
  PROVE  \E a \in S : \A b \in S : b <= a
<1> DEFINE R == {m \in Nat : \A T \in SUBSET (1 .. m) : T # {} => \E a \in T : \A b \in T : b <= a}
<1>1. 0 \in R
  <2>1. \A T \in SUBSET (1 .. 0) : T = {}
    OBVIOUS
  <2>2. QED BY <2>1
<1>2. ASSUME NEW m \in R
      PROVE  m + 1 \in R
  <2> SUFFICES ASSUME NEW T \in SUBSET (1 .. m + 1), T # {}
               PROVE  \E a \in T : \A b \in T : b <= a
    OBVIOUS
  <2>1. CASE m + 1 \in T
    BY <2>1
  <2>2. CASE m + 1 \notin T
    <3>1. T \in SUBSET (1 .. m)
      BY <2>2
    <3>2. QED BY <3>1
  <2>3. QED BY <2>1, <2>2
<1>3. R = Nat
  BY <1>1, <1>2, NatSets
<1>4. QED BY <1>3

\* The latest entry of a type, when there is one.
LEMMA LatestIs ==
  ASSUME IsSequence(log), NEW type, At(type) # {}
  PROVE  Latest(type) \in At(type) /\ \A j \in At(type) : j <= Latest(type)
<1>1. Len(log) \in Nat /\ At(type) \in SUBSET (1 .. Len(log))
  BY LenProperties DEF IsSequence, At
<1>2. \E i \in At(type) : \A j \in At(type) : j <= i
  BY <1>1, IndexMax
<1>3. QED BY <1>2 DEF Latest

\* The checkpoint that counts.
LEMMA CheckpointIs ==
  ASSUME Logged
  PROVE  /\ LatestCheckpoint.messages \in Seq(Messages)
         /\ LatestCheckpoint.highWater \in 0 .. Len(log)
<1>1. Len(log) \in Nat /\ DOMAIN log = 1 .. Len(log)
  BY LenProperties DEF Logged, IsSequence
<1>2. CASE At("context.checkpoint") = {}
  <2>1. User("prompt") \in Messages
    BY DEF User, Messages
  <2>2. Append(prior, User("prompt")) \in Seq(Messages)
    BY <2>1, AppendProperties DEF Logged
  <2>3. LatestCheckpoint = [messages |-> Append(prior, User("prompt")), highWater |-> 0]
    BY <1>2 DEF LatestCheckpoint
  <2>4. QED BY <1>1, <2>2, <2>3
<1>3. CASE At("context.checkpoint") # {}
  <2>1. PICK i : i = Latest("context.checkpoint")
    OBVIOUS
  <2>2. i \in At("context.checkpoint")
    BY <1>3, <2>1, LatestIs DEF Logged
  <2>3. i \in DOMAIN log /\ log[i].type = "context.checkpoint"
    BY <2>2 DEF At
  <2>4. LatestCheckpoint = log[i]
    BY <1>3, <2>1 DEF LatestCheckpoint
  <2>5. log[i].messages \in Seq(Messages) /\ log[i].highWater \in Nat /\ log[i].highWater < i
    BY <2>3 DEF Logged
  <2>6. QED BY <1>1, <2>3, <2>4, <2>5
<1>4. QED BY <1>2, <1>3

\* The transcript of a log, from a checkpoint on.
Projection(c, l) ==
  LET tail == SubSeq(l, c.highWater + 1, Len(l)) IN
  c.messages \o FlattenSeq([i \in DOMAIN tail |-> Message(tail[i])])

\* All that comes behind the first h entries.
IsTail(tail, l, h) == DOMAIN tail = 1 .. Len(l) - h /\ \A i \in 1 .. Len(l) - h : tail[i] = l[h + i]

LEMMA TailOf ==
  ASSUME NEW l, NEW h, NEW tail, IsSequence(l), h \in 0 .. Len(l), tail = SubSeq(l, h + 1, Len(l))
  PROVE  IsTail(tail, l, h)
<1> DEFINE S == {l[i] : i \in DOMAIN l}
<1>1. Len(l) \in Nat /\ DOMAIN l = 1 .. Len(l)
  BY LenProperties DEF IsSequence
<1>2. h \in Nat /\ h <= Len(l) /\ h + 1 \in Int /\ Len(l) \in Int
  BY <1>1
<1>3. \A i \in h + 1 .. Len(l) : l[i] \in S
  BY <1>1, <1>2
<1> HIDE DEF S
<1>4. /\ tail \in Seq(S)
      /\ Len(tail) = IF h + 1 <= Len(l) THEN Len(l) - (h + 1) + 1 ELSE 0
      /\ \A i \in 1 .. Len(l) - (h + 1) + 1 : tail[i] = l[h + 1 + i - 1]
  BY <1>2, <1>3, SubSeqProperties
<1>5. Len(tail) = Len(l) - h /\ Len(l) - (h + 1) + 1 = Len(l) - h
  BY <1>2, <1>4
<1>6. DOMAIN tail = 1 .. Len(tail)
  BY <1>4, LenProperties
<1>7. ASSUME NEW i \in 1 .. Len(l) - h
      PROVE  tail[i] = l[h + i]
  <2>1. h + 1 + i - 1 = h + i
    BY <1>2
  <2>2. QED BY <1>4, <1>5, <2>1
<1>8. QED BY <1>5, <1>6, <1>7 DEF IsTail

LEMMA ProjectionMore ==
  ASSUME NEW c, NEW l, NEW e, IsSequence(l), c.messages \in Seq(Messages), c.highWater \in 0 .. Len(l),
         \A i \in DOMAIN l : Message(l[i]) \in Seq(Messages), Message(e) \in Seq(Messages)
  PROVE  /\ Projection(c, l) \in Seq(Messages)
         /\ Projection(c, Append(l, e)) = Projection(c, l) \o Message(e)
<1>1. PICK h, d, more, tail, rest :
        /\ h = c.highWater /\ d = Len(l) - h /\ more = Append(l, e)
        /\ tail = SubSeq(l, h + 1, Len(l)) /\ rest = SubSeq(more, h + 1, Len(more))
  OBVIOUS
<1>2. /\ IsSequence(more) /\ Len(l) \in Nat /\ DOMAIN l = 1 .. Len(l)
      /\ Len(more) = Len(l) + 1 /\ more[Len(l) + 1] = e /\ \A i \in 1 .. Len(l) : more[i] = l[i]
  BY <1>1, Appended
<1>3. h \in Nat /\ d \in Nat /\ h + d = Len(l) /\ h \in 0 .. Len(l) /\ h \in 0 .. Len(more)
      /\ Len(more) - h = d + 1
  BY <1>1, <1>2
<1>4. DOMAIN tail = 1 .. d /\ \A i \in 1 .. d : tail[i] = l[h + i]
  <2>1. IsTail(tail, l, h)
    BY Zenon, <1>1, <1>3, TailOf
  <2>2. QED BY <1>1, <2>1 DEF IsTail
<1>5. DOMAIN rest = 1 .. d + 1 /\ \A i \in 1 .. d + 1 : rest[i] = more[h + i]
  <2>1. IsTail(rest, more, h)
    BY Zenon, <1>1, <1>2, <1>3, TailOf
  <2>2. QED BY <1>3, <2>1 DEF IsTail
<1>6. \A i \in 1 .. d : h + i \in 1 .. Len(l) /\ i \in 1 .. d + 1 /\ rest[i] = tail[i]
  BY <1>2, <1>3, <1>4, <1>5
<1>7. rest[d + 1] = e /\ d + 1 \in 1 .. d + 1
  <2>1. h + (d + 1) = Len(l) + 1 /\ d + 1 \in 1 .. d + 1
    BY <1>2, <1>3
  <2>2. QED BY <1>2, <1>5, <2>1
<1>8. PICK seqs, seqs1 : /\ seqs = [i \in DOMAIN tail |-> Message(tail[i])]
                         /\ seqs1 = [i \in DOMAIN rest |-> Message(rest[i])]
  OBVIOUS
<1>9. seqs \in [1 .. d -> Seq(Messages)]
  <2>1. \A i \in 1 .. d : Message(tail[i]) \in Seq(Messages)
    BY <1>2, <1>4, <1>6
  <2>2. QED BY <1>4, <1>8, <2>1
<1>10. seqs1 \in [1 .. d + 1 -> Seq(Messages)] /\ seqs1[d + 1] = Message(e)
       /\ SameUpTo(d, seqs, seqs1)
  <2>1. \A i \in 1 .. d + 1 : i \in 1 .. d \/ i = d + 1
    BY <1>3
  <2>2. \A i \in 1 .. d : seqs1[i] = seqs[i]
    BY <1>4, <1>5, <1>6, <1>8
  <2>3. seqs1[d + 1] = Message(e)
    BY <1>5, <1>7, <1>8
  <2>4. \A i \in 1 .. d + 1 : seqs1[i] \in Seq(Messages)
    BY <1>9, <2>1, <2>2, <2>3
  <2>5. QED BY <1>5, <1>8, <2>2, <2>3, <2>4 DEF SameUpTo
<1>11. FlattenSeq(seqs) \in Seq(Messages) /\ FlattenSeq(seqs1) = FlattenSeq(seqs) \o Message(e)
  <2>1. FlattenSeq(seqs) \in Seq(Messages) /\ FlattenSeq(seqs1) = FlattenSeq(seqs) \o seqs1[d + 1]
    BY <1>3, <1>9, <1>10, FlattenMore
  <2>2. QED BY <1>10, <2>1
<1>12. Projection(c, l) = c.messages \o FlattenSeq(seqs)
  BY <1>1, <1>8 DEF Projection
<1>13. Projection(c, more) = c.messages \o FlattenSeq(seqs1)
  BY <1>1, <1>8 DEF Projection
<1>14. c.messages \o FlattenSeq(seqs) \in Seq(Messages)
  BY <1>11, ConcatProperties
<1>15. c.messages \o (FlattenSeq(seqs) \o Message(e)) = (c.messages \o FlattenSeq(seqs)) \o Message(e)
  <2>1. PICK a, b, x : a = c.messages /\ b = FlattenSeq(seqs) /\ x = Message(e)
    OBVIOUS
  <2>2. a \in Seq(Messages) /\ b \in Seq(Messages) /\ x \in Seq(Messages)
    BY <1>11, <2>1
  <2>3. a \o (b \o x) = (a \o b) \o x
    <3> HIDE <1>1
    <3>1. QED BY SMTT(30), <2>2, ConcatAssociative
  <2>4. QED BY <2>1, <2>3
<1>16. QED BY <1>1, <1>11, <1>12, <1>13, <1>14, <1>15

\* Nothing comes after a checkpoint that stands for the whole log.
LEMMA ProjectionOfAll ==
  ASSUME NEW c, NEW l, IsSequence(l), c.messages \in Seq(Messages), c.highWater = Len(l)
  PROVE  Projection(c, l) = c.messages
<1>1. Len(l) \in Nat /\ c.highWater + 1 > Len(l)
  BY LenProperties DEF IsSequence
<1>2. SubSeq(l, c.highWater + 1, Len(l)) = <<>>
  BY <1>1, SubSeqEmpty
<1>3. PICK seqs : seqs = [i \in DOMAIN <<>> |-> Message(<<>>[i])]
  OBVIOUS
<1>4. seqs = <<>> /\ Len(seqs) = 0
  BY <1>3
<1>5. FlattenSeq(seqs) = <<>>
  BY <1>4 DEF FlattenSeq
<1>6. Projection(c, l) = c.messages \o <<>>
  BY <1>2, <1>3, <1>5 DEF Projection
<1>7. QED BY <1>6, ConcatEmptySeq

LEMMA HistoryIs == History = Projection(LatestCheckpoint, log)
  BY DEF History, Projection

LEMMA HistoryTyped ==
  ASSUME Logged
  PROVE  History \in Seq(Messages)
<1>1. Message([type |-> "none"]) = <<>>
  BY DEF Message
<1>2. Message([type |-> "none"]) \in Seq(Messages)
  BY <1>1
<1>3. PICK c, e : c = LatestCheckpoint /\ e = [type |-> "none"]
  OBVIOUS
<1>4. c.messages \in Seq(Messages) /\ c.highWater \in 0 .. Len(log)
  BY <1>3, CheckpointIs
<1>5. \A i \in DOMAIN log : Message(log[i]) \in Seq(Messages)
  BY DEF Logged
<1>6. Projection(c, log) \in Seq(Messages)
  BY <1>2, <1>3, <1>4, <1>5, ProjectionMore DEF Logged
<1>7. QED BY <1>3, <1>6, HistoryIs

\* An entry that is no checkpoint adds its message to the transcript.
LEMMA HistoryAppends ==
  ASSUME Logged, NEW e, log' = Append(log, e), UNCHANGED prior, e.type # "context.checkpoint",
         Message(e) \in Seq(Messages)
  PROVE  Logged' /\ History' = History \o Message(e)
<1>1. /\ IsSequence(log') /\ Len(log) \in Nat /\ DOMAIN log = 1 .. Len(log)
      /\ DOMAIN log' = 1 .. Len(log) + 1 /\ log'[Len(log) + 1] = e
      /\ \A i \in 1 .. Len(log) : log'[i] = log[i]
  BY Appended DEF Logged
<1>2. \A i : i \in 1 .. Len(log) + 1 <=> i \in 1 .. Len(log) \/ i = Len(log) + 1
  BY <1>1
<1>3. Logged'
  BY <1>1, <1>2 DEF Logged
<1>4. At("context.checkpoint")' = At("context.checkpoint")
  BY <1>1, <1>2 DEF At
<1>5. LatestCheckpoint' = LatestCheckpoint
  <2>1. CASE At("context.checkpoint") = {}
    BY <1>4, <2>1 DEF LatestCheckpoint
  <2>2. CASE At("context.checkpoint") # {}
    <3>1. Latest("context.checkpoint") \in At("context.checkpoint")
      BY <2>2, LatestIs DEF Logged
    <3>2. Latest("context.checkpoint") \in 1 .. Len(log)
      BY <1>1, <3>1 DEF At
    <3>3. Latest("context.checkpoint")' = Latest("context.checkpoint")
      BY <1>4 DEF Latest
    <3>4. LatestCheckpoint = log[Latest("context.checkpoint")]
      BY <2>2 DEF LatestCheckpoint
    <3>5. LatestCheckpoint' = log'[Latest("context.checkpoint")']
      BY <1>4, <2>2 DEF LatestCheckpoint
    <3>6. QED BY <1>1, <3>2, <3>3, <3>4, <3>5
  <2>3. QED BY <2>1, <2>2
<1>6. \A i \in DOMAIN log : Message(log[i]) \in Seq(Messages)
  BY DEF Logged
<1>7. Projection(LatestCheckpoint, log') = Projection(LatestCheckpoint, log) \o Message(e)
  BY <1>6, CheckpointIs, ProjectionMore DEF Logged
<1>8. History' = Projection(LatestCheckpoint', log')
  BY DEF History, Projection
<1>9. QED BY <1>3, <1>5, <1>7, <1>8, HistoryIs
-----------------------------------------------------------------------------
(* The transcript, as it is compacted.                                     *)
\* The number of a response is its place.
LEMMA AssistantsAre ==
  ASSUME NEW m \in Seq(Messages)
  PROVE  Len(m) \in Nat /\ DOMAIN m = 1 .. Len(m) /\ Assistants(m) \in SUBSET (1 .. Len(m))
  BY LenProperties DEF Assistants

\* Where there are three responses, there is a second last one.
LEMMA SecondLastIs ==
  ASSUME NEW m \in Seq(Messages), Cardinality(Assistants(m)) >= 3
  PROVE  SecondLast(m) \in Assistants(m)
<1>1. PICK n, A : n = Len(m) /\ A = Assistants(m)
  OBVIOUS
<1>2. n \in Nat /\ A \in SUBSET (1 .. n)
  BY <1>1, AssistantsAre
<1>3. A # {}
  <2>1. ASSUME A = {}
        PROVE  FALSE
    <3>1. Cardinality(A) = 0
      BY <2>1, FS_EmptySet
    <3>2. QED BY <1>1, <3>1
  <2>2. QED BY <2>1
<1>4. PICK a \in A : \A b \in A : b <= a
  BY <1>2, <1>3, IndexMax
<1>5. A \ {a} # {} /\ A \ {a} \in SUBSET (1 .. n)
  <2>1. ASSUME A = {a}
        PROVE  FALSE
    <3>1. Cardinality({a}) = 1
      BY FS_Singleton
    <3>2. QED BY <1>1, <2>1, <3>1
  <2>2. QED BY <1>2, <2>1
<1>6. PICK b \in A \ {a} : \A k \in A \ {a} : k <= b
  BY <1>2, <1>5, IndexMax
<1>7. {j \in A : j > b} = {a}
  <2>1. a > b
    BY <1>2, <1>4, <1>6
  <2>2. \A j \in A : j > b => j = a
    BY <1>2, <1>6
  <2>3. QED BY <2>1, <2>2
<1>8. Cardinality({j \in Assistants(m) : j > b}) = 1 /\ b \in Assistants(m)
  BY <1>1, <1>7, FS_Singleton
<1>9. QED BY <1>8 DEF SecondLast

\* A compacted transcript: the first message, the summary, and what begins with a response.
LEMMA CompactedIs ==
  ASSUME NEW m \in Seq(Messages), Cardinality(Assistants(m)) >= 3,
         NEW s, s = SecondLast(m), NEW c, c = CompactContext(m)
  PROVE  /\ s \in Assistants(m) /\ c \in Seq(Messages) /\ Len(c) = Len(m) - s + 3
         /\ c[1] = m[1] /\ c[2] = User("summary")
         /\ \A j \in 3 .. Len(c) : c[j] = m[j + s - 3]
<1>1. s \in Assistants(m) /\ Len(m) \in Nat /\ DOMAIN m = 1 .. Len(m) /\ s \in 1 .. Len(m)
  BY SecondLastIs, AssistantsAre
<1>2. PICK n, t, f : n = Len(m) /\ t = SubSeq(m, s, n) /\ f = <<m[1], User("summary")>>
  OBVIOUS
<1>3. n \in Nat /\ s \in 1 .. n /\ 1 \in 1 .. n
  BY <1>1, <1>2
<1>4. User("summary") \in Messages /\ m[1] \in Messages
  BY <1>1, <1>2, <1>3 DEF User, Messages
<1>5. f \in Seq(Messages) /\ Len(f) = 2 /\ f[1] = m[1] /\ f[2] = User("summary")
  BY <1>2, <1>4
<1>6. t \in Seq(Messages) /\ Len(t) = n - s + 1 /\ \A i \in 1 .. n - s + 1 : t[i] = m[s + i - 1]
  <2>1. \A i \in s .. n : m[i] \in Messages
    BY <1>1, <1>2
  <2>2. s \in Int /\ n \in Int /\ s <= n
    BY <1>3
  <2>3. QED BY <1>2, <2>1, <2>2, SubSeqProperties
<1>7. c = f \o t
  BY <1>2 DEF CompactContext
<1>8. /\ c \in Seq(Messages) /\ Len(c) = Len(f) + Len(t)
      /\ \A j \in 1 .. Len(f) + Len(t) : c[j] = IF j <= Len(f) THEN f[j] ELSE t[j - Len(f)]
  <2>1. f \in Seq(Messages) /\ t \in Seq(Messages)
    BY <1>5, <1>6
  <2>2. /\ f \o t \in Seq(Messages) /\ Len(f \o t) = Len(f) + Len(t)
        /\ \A j \in 1 .. Len(f) + Len(t) :
             (f \o t)[j] = IF j <= Len(f) THEN f[j] ELSE t[j - Len(f)]
    BY Zenon, <2>1, ConcatProperties
  <2>3. QED BY Zenon, <1>7, <2>2
<1>9. Len(c) = n - s + 3
  BY <1>3, <1>5, <1>6, <1>8
<1>10. c[1] = m[1] /\ c[2] = User("summary")
  <2>1. 1 \in 1 .. Len(f) + Len(t) /\ 2 \in 1 .. Len(f) + Len(t) /\ 1 <= Len(f) /\ 2 <= Len(f)
    BY <1>3, <1>5, <1>6
  <2>2. QED BY <1>5, <1>8, <2>1
<1>11. ASSUME NEW j \in 3 .. Len(c)
       PROVE  c[j] = m[j + s - 3]
  <2>1. j \in 1 .. Len(f) + Len(t) /\ ~(j <= Len(f)) /\ j - Len(f) = j - 2
        /\ j - 2 \in 1 .. n - s + 1 /\ s + (j - 2) - 1 = j + s - 3
    BY <1>3, <1>5, <1>6, <1>9
  <2>2. c[j] = t[j - 2]
    BY <1>8, <2>1
  <2>3. QED BY <1>6, <2>1, <2>2
<1>12. QED BY <1>1, <1>2, <1>8, <1>9, <1>10, <1>11

\* A checkpoint puts the compacted transcript in the place of the transcript.
LEMMA HistoryCompacts ==
  ASSUME Logged, MayCompact, log' = Append(log, Checkpoint), UNCHANGED prior
  PROVE  Logged' /\ History' = CompactContext(History)
<1>1. PICK e, n : e = Checkpoint /\ n = Len(log)
  OBVIOUS
<1>2. /\ IsSequence(log') /\ n \in Nat /\ DOMAIN log = 1 .. n /\ Len(log') = n + 1
      /\ DOMAIN log' = 1 .. n + 1 /\ log'[n + 1] = e
      /\ \A i \in 1 .. n : log'[i] = log[i]
  BY <1>1, Appended DEF Logged
<1>3. e.messages = CompactContext(History) /\ e.highWater = n /\ e.type = "context.checkpoint"
  BY <1>1 DEF Checkpoint
<1>4. Message(e) = <<>>
  BY <1>3 DEF Message
<1>5. e.messages \in Seq(Messages) /\ Message(e) \in Seq(Messages)
  BY <1>3, <1>4, HistoryTyped, CompactedIs DEF MayCompact
<1>6. \A i : i \in 1 .. n + 1 <=> i \in 1 .. n \/ i = n + 1
  BY <1>2
<1>7. Logged'
  <2>1. ASSUME NEW i \in 1 .. n + 1
        PROVE  /\ Message(log'[i]) \in Seq(Messages)
               /\ log'[i].type = "context.checkpoint" =>
                    /\ log'[i].messages \in Seq(Messages)
                    /\ log'[i].highWater \in Nat /\ log'[i].highWater < i
    <3>1. CASE i = n + 1
      BY <1>2, <1>3, <1>5, <3>1
    <3>2. CASE i \in 1 .. n
      BY <1>2, <3>2 DEF Logged
    <3>3. QED BY <1>6, <3>1, <3>2
  <2>2. QED BY <1>2, <2>1 DEF Logged
<1>8. LatestCheckpoint' = e
  <2>1. n + 1 \in At("context.checkpoint")'
    BY <1>2, <1>3, <1>6 DEF At
  <2>2. \A j \in At("context.checkpoint")' : j \in 1 .. n + 1
    BY <1>2 DEF At
  <2>3. \A j \in At("context.checkpoint")' : j <= n + 1 /\ (n + 1 <= j => j = n + 1)
    BY <1>2, <2>2
  <2>4. Latest("context.checkpoint")' = n + 1
    <3>1. PICK k : k = Latest("context.checkpoint")'
      OBVIOUS
    <3>2. k \in At("context.checkpoint")' /\ \A j \in At("context.checkpoint")' : j <= k
      BY <2>1, <2>3, <3>1 DEF Latest
    <3>3. QED BY <2>1, <2>3, <3>1, <3>2
  <2>5. QED BY <1>2, <2>1, <2>4 DEF LatestCheckpoint
<1>9. Projection(e, log) = e.messages
  BY <1>1, <1>3, <1>5, ProjectionOfAll DEF Logged
<1>10. Projection(e, log') = Projection(e, log) \o Message(e)
  <2>1. \A i \in DOMAIN log : Message(log[i]) \in Seq(Messages)
    BY DEF Logged
  <2>2. e.highWater \in 0 .. Len(log) /\ log' = Append(log, e)
    BY <1>1, <1>2, <1>3
  <2>3. QED BY <1>5, <2>1, <2>2, ProjectionMore DEF Logged
<1>11. History' = Projection(LatestCheckpoint', log')
  BY DEF History, Projection
<1>12. QED BY <1>3, <1>4, <1>5, <1>7, <1>8, <1>9, <1>10, <1>11, ConcatEmptySeq
-----------------------------------------------------------------------------
(* A transcript that goes on.                                              *)
\* The calls of a response are different ones, what comes right after a response are the
\* results of its calls in their order, and every result is one of those.
Begun(m) ==
  /\ m \in Seq(Messages) /\ m # <<>> /\ m[1].role = "user"
  /\ \A i \in Assistants(m) : \A k, l \in DOMAIN m[i].tools : m[i].tools[k] = m[i].tools[l] => k = l
  /\ \A i \in Assistants(m) : \A k \in DOMAIN m[i].tools :
       i + k \in DOMAIN m => m[i + k] = ToolResult(m[i].tools[k])
  /\ \A j \in DOMAIN m : m[j].role = "toolResult" =>
       \E i \in Assistants(m) : j - i \in DOMAIN m[i].tools

\* What is still to come: the last calls of the response that the transcript ends with.
Owes(m, q) ==
  /\ \A i \in Assistants(m) : i + Len(m[i].tools) <= Len(m) + Len(q)
  /\ q # <<>> => \E i \in Assistants(m) :
       /\ i + Len(m[i].tools) = Len(m) + Len(q)
       /\ \A k \in DOMAIN q : q[k] = m[i].tools[Len(m) - i + k]

\* Responses, and that messages are what their roles say.
LEMMA ResponseIs ==
  ASSUME NEW m \in Seq(Messages), NEW i \in Assistants(m)
  PROVE  /\ i \in 1 .. Len(m) /\ m[i].role = "assistant"
         /\ m[i].tools \in Seq(IDs) /\ Len(m[i].tools) \in Nat
         /\ DOMAIN m[i].tools = 1 .. Len(m[i].tools)
<1>1. Len(m) \in Nat /\ DOMAIN m = 1 .. Len(m)
  BY LenProperties
<1>2. i \in 1 .. Len(m) /\ m[i].role = "assistant" /\ m[i] \in Messages
  BY <1>1 DEF Assistants
<1>3. m[i].tools \in Seq(IDs)
  BY <1>2 DEF Messages
<1>4. QED BY <1>2, <1>3, LenProperties

\* The results of a response end before the next response.
LEMMA ResponsesApart ==
  ASSUME NEW m, Begun(m), NEW i \in Assistants(m), NEW j \in Assistants(m), i < j
  PROVE  i + Len(m[i].tools) < j
<1>1. PICK n : n = Len(m[i].tools)
  OBVIOUS
<1>2. m \in Seq(Messages)
  BY DEF Begun
<1>3. i \in 1 .. Len(m) /\ j \in 1 .. Len(m) /\ n \in Nat /\ DOMAIN m[i].tools = 1 .. n
      /\ m[j].role = "assistant" /\ Len(m) \in Nat /\ DOMAIN m = 1 .. Len(m)
  BY <1>1, <1>2, ResponseIs, LenProperties
<1>4. SUFFICES ASSUME j <= i + n
               PROVE  FALSE
  BY <1>1, <1>3
<1>5. j - i \in 1 .. n /\ i + (j - i) = j
  BY <1>3, <1>4
<1>6. m[j] = ToolResult(m[i].tools[j - i])
  BY <1>3, <1>5 DEF Begun
<1>7. m[j].role = "toolResult"
  BY <1>6 DEF ToolResult
<1>8. QED BY <1>3, <1>7

\* The response whose results are still to come, and that it is the last.
LEMMA OwnerIs ==
  ASSUME NEW m, NEW q, Begun(m), Owes(m, q), q # <<>>, q \in Seq(IDs)
  PROVE  \E i \in Assistants(m) :
           /\ i + Len(m[i].tools) = Len(m) + Len(q)
           /\ \A k \in 1 .. Len(q) : q[k] = m[i].tools[Len(m) - i + k]
           /\ \A j \in Assistants(m) : j # i => j < i /\ j + Len(m[j].tools) < i
<1>1. PICK i \in Assistants(m) : /\ i + Len(m[i].tools) = Len(m) + Len(q)
                                 /\ \A k \in 1 .. Len(q) : q[k] = m[i].tools[Len(m) - i + k]
  BY LenProperties DEF Owes
<1>2. m \in Seq(Messages) /\ Len(m) \in Nat /\ Len(q) \in Nat /\ Len(q) # 0
  BY LenProperties, EmptySeq DEF Begun
<1>3. ASSUME NEW j \in Assistants(m), j # i
      PROVE  j < i /\ j + Len(m[j].tools) < i
  <2>1. i \in 1 .. Len(m) /\ j \in 1 .. Len(m) /\ Len(m[i].tools) \in Nat
    BY <1>2, ResponseIs
  <2>2. CASE i < j
    <3>1. i + Len(m[i].tools) < j
      BY <2>2, ResponsesApart
    <3>2. QED BY <1>1, <1>2, <2>1, <3>1
  <2>3. CASE j < i
    BY <2>3, ResponsesApart
  <2>4. QED BY <1>3, <2>1, <2>2, <2>3
<1>4. QED BY <1>1, <1>3

\* What an appended message leaves as it was.
Extends(m, x, n) ==
  /\ x \in Seq(Messages) /\ m \in Seq(Messages) /\ Len(m) \in Nat /\ Len(x) = Len(m) + 1
  /\ DOMAIN m = 1 .. Len(m) /\ DOMAIN x = 1 .. Len(m) + 1
  /\ x[Len(m) + 1] = n
  /\ \A i \in 1 .. Len(m) : x[i] = m[i]

LEMMA ExtendsIs ==
  ASSUME NEW m \in Seq(Messages), NEW n \in Messages
  PROVE  Extends(m, Append(m, n), n)
<1>1. PICK x : x = Append(m, n)
  OBVIOUS
<1>2. /\ x \in Seq(Messages) /\ Len(x) = Len(m) + 1 /\ x[Len(m) + 1] = n
      /\ \A i \in 1 .. Len(m) : x[i] = m[i]
  BY <1>1, AppendProperties
<1>3. Len(m) \in Nat /\ DOMAIN m = 1 .. Len(m) /\ DOMAIN x = 1 .. Len(x)
  BY <1>2, LenProperties
<1>4. Extends(m, x, n)
  BY <1>2, <1>3 DEF Extends
<1>5. QED BY <1>1, <1>4

LEMMA ResponsesMore ==
  ASSUME NEW m, NEW x, NEW n, Extends(m, x, n)
  PROVE  /\ Assistants(m) \subseteq Assistants(x)
         /\ \A i \in Assistants(x) : i \in Assistants(m) \/ (i = Len(m) + 1 /\ n.role = "assistant")
         /\ n.role = "assistant" => Len(m) + 1 \in Assistants(x)
<1>1. \A i : i \in 1 .. Len(m) + 1 <=> i \in 1 .. Len(m) \/ i = Len(m) + 1
  BY DEF Extends
<1>2. QED BY <1>1 DEF Extends, Assistants

\* A message that asks nothing and answers nothing, where nothing was to come.
LEMMA UserMore ==
  ASSUME NEW m, NEW n \in Messages, Begun(m), Owes(m, <<>>), n.role = "user"
  PROVE  Begun(Append(m, n)) /\ Owes(Append(m, n), <<>>)
<1>1. PICK x : x = Append(m, n)
  OBVIOUS
<1>2. Extends(m, x, n)
  BY <1>1, ExtendsIs DEF Begun
<1>3. Assistants(x) = Assistants(m)
  <2>1. n.role # "assistant"
    BY <1>2
  <2>2. Assistants(m) \subseteq Assistants(x) /\ \A i \in Assistants(x) : i \in Assistants(m)
    BY <1>2, <2>1, ResponsesMore
  <2>3. QED BY <2>2
<1>4. ASSUME NEW i \in Assistants(m)
      PROVE  /\ i \in 1 .. Len(m) /\ x[i] = m[i] /\ Len(m[i].tools) \in Nat
             /\ DOMAIN m[i].tools = 1 .. Len(m[i].tools) /\ i + Len(m[i].tools) <= Len(m)
  <2>1. Len(<<>>) = 0
    OBVIOUS
  <2>2. i \in 1 .. Len(m) /\ Len(m[i].tools) \in Nat /\ DOMAIN m[i].tools = 1 .. Len(m[i].tools)
    BY <1>2, ResponseIs DEF Extends
  <2>3. i + Len(m[i].tools) <= Len(m)
    BY <1>2, <2>1 DEF Owes, Extends
  <2>4. QED BY <1>2, <2>2, <2>3 DEF Extends
<1>5. x # <<>> /\ x[1].role = "user"
  <2>1. 1 \in 1 .. Len(m) /\ Len(x) # 0
    BY <1>2, EmptySeq DEF Extends, Begun
  <2>2. QED BY <1>2, <2>1 DEF Extends, Begun
<1>6. ASSUME NEW i \in Assistants(x)
      PROVE  /\ \A k, l \in DOMAIN x[i].tools : x[i].tools[k] = x[i].tools[l] => k = l
             /\ \A k \in DOMAIN x[i].tools : i + k \in DOMAIN x => x[i + k] = ToolResult(x[i].tools[k])
  <2>1. \A k, l \in DOMAIN x[i].tools : x[i].tools[k] = x[i].tools[l] => k = l
    BY <1>3, <1>4 DEF Begun
  <2>2. ASSUME NEW k \in DOMAIN x[i].tools
        PROVE  x[i + k] = ToolResult(x[i].tools[k])
    <3>1. i + k \in 1 .. Len(m)
      BY <1>2, <1>3, <1>4 DEF Extends
    <3>2. m[i + k] = ToolResult(m[i].tools[k])
      BY <1>2, <1>3, <1>4, <3>1 DEF Begun, Extends
    <3>3. QED BY <1>2, <1>3, <1>4, <3>1, <3>2 DEF Extends
  <2>3. QED BY <2>1, <2>2
<1>7. ASSUME NEW j \in DOMAIN x, x[j].role = "toolResult"
      PROVE  \E i \in Assistants(x) : j - i \in DOMAIN x[i].tools
  <2>1. j \in 1 .. Len(m) \/ j = Len(m) + 1
    BY <1>2 DEF Extends
  <2>2. j \in 1 .. Len(m) /\ m[j].role = "toolResult"
    BY <1>2, <1>7, <2>1 DEF Extends
  <2>3. PICK i \in Assistants(m) : j - i \in DOMAIN m[i].tools
    BY <1>2, <2>2 DEF Begun, Extends
  <2>4. QED BY <1>3, <1>4, <2>3
<1>8. Begun(x)
  BY <1>2, <1>5, <1>6, <1>7 DEF Begun, Extends
<1>9. Owes(x, <<>>)
  <2>1. Len(<<>>) = 0
    OBVIOUS
  <2>2. \A i \in Assistants(x) : i + Len(x[i].tools) <= Len(x) + 0
    BY <1>2, <1>3, <1>4 DEF Extends
  <2>3. QED BY <2>1, <2>2 DEF Owes
<1>10. QED BY <1>1, <1>8, <1>9

\* The calls of a response.
Distinct(tools) == \A k, l \in DOMAIN tools : tools[k] = tools[l] => k = l

\* A response, where nothing was to come, and then its calls are.
LEMMA ResponseMore ==
  ASSUME NEW m, NEW stop \in Stops, NEW tools \in Seq(IDs), Begun(m), Owes(m, <<>>), Distinct(tools)
  PROVE  Begun(Append(m, Assistant(stop, tools))) /\ Owes(Append(m, Assistant(stop, tools)), tools)
<1>1. PICK n, x, d : n = Assistant(stop, tools) /\ x = Append(m, n) /\ d = Len(m) + 1
  OBVIOUS
<1>2. n \in Messages /\ n.role = "assistant" /\ n.tools = tools
  BY <1>1 DEF Messages, Assistant
<1>3. Extends(m, x, n) /\ d \in Nat /\ d = Len(m) + 1
  BY <1>1, <1>2, ExtendsIs DEF Begun, Extends
<1>4. \A i \in Assistants(x) : i \in Assistants(m) \/ i = d
  BY <1>3, ResponsesMore
<1>5. Assistants(m) \subseteq Assistants(x) /\ d \in Assistants(x)
  BY <1>2, <1>3, ResponsesMore
<1>6. x[d].tools = tools /\ x[d].role = "assistant" /\ Len(tools) \in Nat /\ DOMAIN tools = 1 .. Len(tools)
  BY <1>2, <1>3, LenProperties DEF Extends
<1>7. ASSUME NEW i \in Assistants(m)
      PROVE  /\ i \in 1 .. Len(m) /\ x[i] = m[i] /\ Len(m[i].tools) \in Nat
             /\ DOMAIN m[i].tools = 1 .. Len(m[i].tools) /\ i + Len(m[i].tools) <= Len(m)
  <2>1. Len(<<>>) = 0
    OBVIOUS
  <2>2. i \in 1 .. Len(m) /\ Len(m[i].tools) \in Nat /\ DOMAIN m[i].tools = 1 .. Len(m[i].tools)
    BY <1>3, ResponseIs DEF Extends
  <2>3. i + Len(m[i].tools) <= Len(m)
    BY <1>3, <2>1 DEF Owes, Extends
  <2>4. QED BY <1>3, <2>2, <2>3 DEF Extends
<1>8. x # <<>> /\ x[1].role = "user"
  <2>1. 1 \in 1 .. Len(m) /\ Len(x) # 0
    BY <1>3, EmptySeq DEF Extends, Begun
  <2>2. QED BY <1>3, <2>1 DEF Extends, Begun
<1>9. ASSUME NEW i \in Assistants(x)
      PROVE  /\ \A k, l \in DOMAIN x[i].tools : x[i].tools[k] = x[i].tools[l] => k = l
             /\ \A k \in DOMAIN x[i].tools : i + k \in DOMAIN x => x[i + k] = ToolResult(x[i].tools[k])
  <2>1. CASE i = d
    <3>1. \A k \in 1 .. Len(tools) : d + k \notin 1 .. Len(m) + 1
      BY <1>3, <1>6
    <3>2. QED BY <1>3, <1>6, <2>1, <3>1 DEF Distinct, Extends
  <2>2. CASE i \in Assistants(m)
    <3>1. \A k, l \in DOMAIN x[i].tools : x[i].tools[k] = x[i].tools[l] => k = l
      BY <1>7, <2>2 DEF Begun
    <3>2. ASSUME NEW k \in DOMAIN x[i].tools
          PROVE  x[i + k] = ToolResult(x[i].tools[k])
      <4>1. i + k \in 1 .. Len(m)
        BY <1>3, <1>7, <2>2 DEF Extends
      <4>2. m[i + k] = ToolResult(m[i].tools[k])
        BY <1>3, <1>7, <2>2, <4>1 DEF Begun, Extends
      <4>3. QED BY <1>3, <1>7, <2>2, <4>1, <4>2 DEF Extends
    <3>3. QED BY <3>1, <3>2
  <2>3. QED BY <1>4, <2>1, <2>2
<1>10. ASSUME NEW j \in DOMAIN x, x[j].role = "toolResult"
       PROVE  \E i \in Assistants(x) : j - i \in DOMAIN x[i].tools
  <2>1. j \in 1 .. Len(m) \/ j = d
    BY <1>3 DEF Extends
  <2>2. j \in 1 .. Len(m) /\ m[j].role = "toolResult"
    BY <1>3, <1>6, <1>10, <2>1 DEF Extends
  <2>3. PICK i \in Assistants(m) : j - i \in DOMAIN m[i].tools
    BY <1>3, <2>2 DEF Begun, Extends
  <2>4. QED BY <1>5, <1>7, <2>3
<1>11. Begun(x)
  BY <1>3, <1>8, <1>9, <1>10 DEF Begun, Extends
<1>12. Owes(x, tools)
  <2>1. \A i \in Assistants(x) : i + Len(x[i].tools) <= d + Len(tools)
    BY <1>3, <1>4, <1>6, <1>7 DEF Extends
  <2>2. d + Len(x[d].tools) = d + Len(tools) /\ \A k \in DOMAIN tools : tools[k] = x[d].tools[d - d + k]
    BY <1>3, <1>6
  <2>3. Len(x) = d
    BY <1>3 DEF Extends
  <2>4. QED BY <1>5, <2>1, <2>2, <2>3 DEF Owes
<1>13. QED BY <1>1, <1>11, <1>12

\* The result that is next to come.
LEMMA ResultMore ==
  ASSUME NEW m, NEW q \in Seq(IDs), q # <<>>, Begun(m), Owes(m, q)
  PROVE  Begun(Append(m, ToolResult(Head(q)))) /\ Owes(Append(m, ToolResult(Head(q))), Tail(q))
<1>1. PICK n, x, d, h : n = ToolResult(h) /\ x = Append(m, n) /\ d = Len(m) + 1 /\ h = Head(q)
  OBVIOUS
<1>2. /\ h \in IDs /\ h = q[1] /\ Tail(q) \in Seq(IDs) /\ Len(q) \in Nat /\ Len(q) >= 1
      /\ Len(Tail(q)) = Len(q) - 1 /\ \A k \in 1 .. Len(Tail(q)) : Tail(q)[k] = q[k + 1]
      /\ DOMAIN Tail(q) = 1 .. Len(q) - 1
  <2>1. h \in IDs /\ Tail(q) \in Seq(IDs) /\ Len(Tail(q)) = Len(q) - 1
        /\ \A k \in 1 .. Len(Tail(q)) : Tail(q)[k] = q[k + 1]
    BY <1>1, HeadTailProperties
  <2>2. Len(q) \in Nat /\ Len(q) # 0 /\ h = q[1] /\ DOMAIN Tail(q) = 1 .. Len(Tail(q))
    BY <1>1, <2>1, LenProperties, EmptySeq
  <2>3. QED BY <2>1, <2>2
<1>3. n \in Messages /\ n.role = "toolResult"
  BY <1>1, <1>2 DEF Messages, ToolResult
<1>4. Extends(m, x, n) /\ d \in Nat /\ d = Len(m) + 1
  BY <1>1, <1>3, ExtendsIs DEF Begun, Extends
<1>5. Assistants(x) = Assistants(m)
  <2>1. n.role # "assistant"
    BY <1>3, <1>4
  <2>2. Assistants(m) \subseteq Assistants(x) /\ \A i \in Assistants(x) : i \in Assistants(m)
    BY <1>3, <1>4, <2>1, ResponsesMore
  <2>3. QED BY <2>2
<1>6. PICK o \in Assistants(m) :
        /\ o + Len(m[o].tools) = Len(m) + Len(q)
        /\ \A k \in 1 .. Len(q) : q[k] = m[o].tools[Len(m) - o + k]
        /\ \A j \in Assistants(m) : j # o => j < o /\ j + Len(m[j].tools) < o
  BY OwnerIs
<1>7. ASSUME NEW i \in Assistants(m)
      PROVE  /\ i \in 1 .. Len(m) /\ x[i] = m[i] /\ Len(m[i].tools) \in Nat
             /\ DOMAIN m[i].tools = 1 .. Len(m[i].tools)
  BY <1>4, ResponseIs DEF Extends
<1>8. x # <<>> /\ x[1].role = "user"
  <2>1. 1 \in 1 .. Len(m) /\ Len(x) # 0
    BY <1>4, EmptySeq DEF Extends, Begun
  <2>2. QED BY <1>4, <2>1 DEF Extends, Begun
<1>9. d - o \in 1 .. Len(m[o].tools) /\ q[1] = m[o].tools[d - o]
  <2>1. Len(m) - o + 1 = d - o /\ 1 \in 1 .. Len(q) /\ d - o \in 1 .. Len(m[o].tools)
    BY <1>2, <1>4, <1>6, <1>7
  <2>2. QED BY <1>6, <2>1
<1>10. ASSUME NEW i \in Assistants(x)
       PROVE  /\ \A k, l \in DOMAIN x[i].tools : x[i].tools[k] = x[i].tools[l] => k = l
              /\ \A k \in DOMAIN x[i].tools : i + k \in DOMAIN x => x[i + k] = ToolResult(x[i].tools[k])
  <2>1. \A k, l \in DOMAIN x[i].tools : x[i].tools[k] = x[i].tools[l] => k = l
    BY <1>5, <1>7 DEF Begun
  <2>2. ASSUME NEW k \in DOMAIN x[i].tools, i + k \in DOMAIN x
        PROVE  x[i + k] = ToolResult(x[i].tools[k])
    <3>1. i + k \in 1 .. Len(m) \/ i + k = d
      BY <1>4, <1>5, <1>7, <2>2 DEF Extends
    <3>2. CASE i + k \in 1 .. Len(m)
      <4>1. m[i + k] = ToolResult(m[i].tools[k])
        BY <1>4, <1>5, <1>7, <3>2 DEF Begun, Extends
      <4>2. QED BY <1>4, <1>5, <1>7, <3>2, <4>1 DEF Extends
    <3>3. CASE i + k = d
      <4>1. k \in 1 .. Len(m[i].tools) /\ i \in 1 .. Len(m) /\ o \in 1 .. Len(m)
        BY <1>5, <1>7
      <4>2. i = o
        BY <1>4, <1>5, <1>6, <1>7, <3>3, <4>1
      <4>3. k = d - o
        BY <1>4, <3>3, <4>1, <4>2
      <4>4. x[d] = ToolResult(h) /\ x[i] = m[o]
        BY <1>1, <1>4, <1>7, <4>2 DEF Extends
      <4>5. QED BY <1>2, <1>9, <3>3, <4>3, <4>4
    <3>4. QED BY <3>1, <3>2, <3>3
  <2>3. QED BY <2>1, <2>2
<1>11. ASSUME NEW j \in DOMAIN x, x[j].role = "toolResult"
       PROVE  \E i \in Assistants(x) : j - i \in DOMAIN x[i].tools
  <2>1. j \in 1 .. Len(m) \/ j = d
    BY <1>4 DEF Extends
  <2>2. CASE j = d
    BY <1>5, <1>7, <1>9, <2>2
  <2>3. CASE j \in 1 .. Len(m)
    <3>1. m[j].role = "toolResult"
      BY <1>4, <1>11, <2>3 DEF Extends
    <3>2. PICK i \in Assistants(m) : j - i \in DOMAIN m[i].tools
      BY <1>4, <2>3, <3>1 DEF Begun, Extends
    <3>3. QED BY <1>5, <1>7, <3>2
  <2>4. QED BY <2>1, <2>2, <2>3
<1>12. Begun(x)
  BY <1>4, <1>8, <1>10, <1>11 DEF Begun, Extends
<1>13. Owes(x, Tail(q))
  <2>1. Len(x) = d /\ d + Len(Tail(q)) = Len(m) + Len(q)
    BY <1>2, <1>4 DEF Extends
  <2>2. \A i \in Assistants(x) : i + Len(x[i].tools) <= Len(x) + Len(Tail(q))
    BY <1>5, <1>7, <2>1 DEF Owes
  <2>3. o + Len(x[o].tools) = Len(x) + Len(Tail(q))
    BY <1>6, <1>7, <2>1
  <2>4. ASSUME NEW k \in DOMAIN Tail(q)
        PROVE  Tail(q)[k] = x[o].tools[Len(x) - o + k]
    <3>1. k \in 1 .. Len(q) - 1 /\ k \in 1 .. Len(Tail(q)) /\ k + 1 \in 1 .. Len(q)
      BY <1>2
    <3>2. o \in 1 .. Len(m) /\ Len(x) - o + k = Len(m) - o + (k + 1)
      BY <1>4, <1>7, <2>1, <3>1
    <3>3. QED BY <1>2, <1>6, <1>7, <3>1, <3>2
  <2>5. QED BY <1>5, <2>2, <2>3, <2>4 DEF Owes
<1>14. QED BY <1>1, <1>12, <1>13

\* A compacted transcript owes what the transcript did, and begins and ends as it did.
LEMMA CompactedKeeps ==
  ASSUME NEW m, NEW q \in Seq(IDs), Begun(m), Owes(m, q), Cardinality(Assistants(m)) >= 3
  PROVE  /\ Begun(CompactContext(m)) /\ Owes(CompactContext(m), q)
         /\ CompactContext(m)[1] = m[1]
         /\ CompactContext(m)[Len(CompactContext(m))] = m[Len(m)]
<1>1. PICK s, c, z : s = SecondLast(m) /\ c = CompactContext(m) /\ z = Len(m)
  OBVIOUS
<1>2. m \in Seq(Messages) /\ z \in Nat /\ DOMAIN m = 1 .. z
  BY <1>1, LenProperties DEF Begun
<1>3. /\ s \in Assistants(m) /\ c \in Seq(Messages) /\ Len(c) = z - s + 3
      /\ c[1] = m[1] /\ c[2] = User("summary")
      /\ \A j \in 3 .. Len(c) : c[j] = m[j + s - 3]
  BY <1>1, <1>2, CompactedIs
<1>4. s \in 1 .. z /\ DOMAIN c = 1 .. z - s + 3 /\ c # <<>>
  BY <1>1, <1>2, <1>3, ResponseIs, LenProperties, EmptySeq
<1>5. c[1].role = "user" /\ c[2].role = "user"
  BY <1>3 DEF Begun, User
<1>6. ASSUME NEW i \in Assistants(c)
      PROVE  /\ i \in 3 .. z - s + 3 /\ i + s - 3 \in Assistants(m) /\ c[i] = m[i + s - 3]
  <2>1. i \in 1 .. z - s + 3 /\ c[i].role = "assistant"
    BY <1>4 DEF Assistants
  <2>2. i # 1 /\ i # 2
    BY <1>5, <2>1
  <2>3. i \in 3 .. z - s + 3 /\ i + s - 3 \in 1 .. z
    BY <1>2, <1>4, <2>1, <2>2
  <2>4. c[i] = m[i + s - 3]
    BY <1>3, <2>3
  <2>5. QED BY <1>2, <2>1, <2>3, <2>4 DEF Assistants
<1>7. ASSUME NEW o \in Assistants(m), s <= o
      PROVE  /\ o - s + 3 \in Assistants(c) /\ o - s + 3 \in 3 .. z - s + 3 /\ c[o - s + 3] = m[o]
  <2>1. o \in 1 .. z /\ m[o].role = "assistant"
    BY <1>2 DEF Assistants
  <2>2. o - s + 3 \in 3 .. z - s + 3 /\ o - s + 3 + s - 3 = o /\ o - s + 3 \in 1 .. z - s + 3
    BY <1>2, <1>4, <1>7, <2>1
  <2>3. c[o - s + 3] = m[o]
    BY <1>3, <2>2
  <2>4. QED BY <1>4, <2>1, <2>2, <2>3 DEF Assistants
<1>8. \A o \in Assistants(m) : o < s => o + Len(m[o].tools) < s
  BY <1>3, ResponsesApart
<1>9. ASSUME NEW i \in Assistants(m)
      PROVE  /\ i \in 1 .. z /\ Len(m[i].tools) \in Nat
             /\ DOMAIN m[i].tools = 1 .. Len(m[i].tools)
  BY <1>1, <1>2, ResponseIs
<1>10. ASSUME NEW i \in Assistants(c)
       PROVE  /\ \A k, l \in DOMAIN c[i].tools : c[i].tools[k] = c[i].tools[l] => k = l
              /\ \A k \in DOMAIN c[i].tools : i + k \in DOMAIN c => c[i + k] = ToolResult(c[i].tools[k])
  <2>1. PICK o : o = i + s - 3
    OBVIOUS
  <2>2. i \in 3 .. z - s + 3 /\ o \in Assistants(m) /\ c[i] = m[o]
    BY <1>6, <2>1
  <2>3. \A k, l \in DOMAIN c[i].tools : c[i].tools[k] = c[i].tools[l] => k = l
    BY <2>2 DEF Begun
  <2>4. ASSUME NEW k \in DOMAIN c[i].tools, i + k \in DOMAIN c
        PROVE  c[i + k] = ToolResult(c[i].tools[k])
    <3>1. k \in 1 .. Len(m[o].tools) /\ Len(m[o].tools) \in Nat
      BY <1>9, <2>2, <2>4
    <3>2. i + k \in 3 .. z - s + 3 /\ i + k + s - 3 = o + k /\ o + k \in 1 .. z
      <4>1. i \in Nat /\ k \in Nat /\ s \in Nat /\ i >= 3 /\ s >= 1 /\ s <= z
        BY <1>2, <1>4, <2>2, <3>1
      <4>2. i + k \in 1 .. z - s + 3
        BY <1>4, <2>4
      <4>3. i + k <= z - s + 3
        BY <4>2
      <4>4. QED BY <1>2, <2>1, <4>1, <4>3
    <3>3. c[i + k] = m[o + k]
      BY <1>3, <3>2
    <3>4. m[o + k] = ToolResult(m[o].tools[k])
      BY <1>2, <1>9, <2>2, <3>1, <3>2 DEF Begun
    <3>5. QED BY <2>2, <3>3, <3>4
  <2>5. QED BY <2>3, <2>4
<1>11. ASSUME NEW j \in DOMAIN c, c[j].role = "toolResult"
       PROVE  \E i \in Assistants(c) : j - i \in DOMAIN c[i].tools
  <2>1. j \in 3 .. z - s + 3 /\ j + s - 3 \in 1 .. z /\ j + s - 3 >= s
    <3>1. j # 1 /\ j # 2 /\ j \in 1 .. z - s + 3
      BY <1>4, <1>5, <1>11
    <3>2. QED BY <1>2, <1>4, <3>1
  <2>2. m[j + s - 3].role = "toolResult"
    BY <1>3, <1>11, <2>1
  <2>3. PICK o \in Assistants(m) : j + s - 3 - o \in DOMAIN m[o].tools
    <3>1. PICK a : a = j + s - 3
      OBVIOUS
    <3>2. a \in DOMAIN m /\ m[a].role = "toolResult"
      BY <1>2, <2>1, <2>2, <3>1
    <3>3. PICK o \in Assistants(m) : a - o \in DOMAIN m[o].tools
      BY <3>2 DEF Begun
    <3>4. j + s - 3 - o = a - o
      <4>1. j \in Int /\ s \in Int /\ o \in Int
        BY <1>4, <1>9, <2>1
      <4>2. QED BY <3>1, <4>1
    <3>5. QED BY <3>3, <3>4
  <2>4. j + s - 3 - o \in 1 .. Len(m[o].tools) /\ o \in 1 .. z /\ Len(m[o].tools) \in Nat
    BY <1>9, <2>3
  <2>5. s <= o
    BY <1>4, <1>8, <2>1, <2>4
  <2>6. /\ o - s + 3 \in Assistants(c) /\ c[o - s + 3] = m[o]
        /\ j - (o - s + 3) = j + s - 3 - o
    BY <1>4, <1>7, <2>1, <2>4, <2>5
  <2>7. QED BY <2>3, <2>6
<1>12. Begun(c)
  BY <1>3, <1>4, <1>5, <1>10, <1>11 DEF Begun
<1>13. Owes(c, q)
  <2>1. Len(q) \in Nat /\ DOMAIN q = 1 .. Len(q) /\ (q # <<>> => Len(q) >= 1)
    BY LenProperties, EmptySeq
  <2>2. ASSUME NEW i \in Assistants(c)
        PROVE  i + Len(c[i].tools) <= Len(c) + Len(q)
    <3>1. PICK o : o = i + s - 3
      OBVIOUS
    <3>2. i \in 3 .. z - s + 3 /\ o \in Assistants(m) /\ c[i] = m[o] /\ o + Len(m[o].tools) <= z + Len(q)
      BY <1>1, <1>6, <3>1 DEF Owes
    <3>3. Len(m[o].tools) \in Nat
      BY <1>9, <3>2
    <3>4. PICK a, b, e : a = Len(m[o].tools) /\ b = Len(q) /\ e = Len(c)
      OBVIOUS
    <3>5. i \in Nat /\ s \in Nat /\ a \in Nat /\ b \in Nat /\ o + a <= z + b /\ e = z - s + 3
      BY <1>2, <1>3, <1>4, <2>1, <3>2, <3>3, <3>4
    <3>6. i + a <= e + b
      BY <1>2, <3>1, <3>5
    <3>7. QED BY <3>2, <3>4, <3>6
  <2>3. ASSUME q # <<>>
        PROVE  \E i \in Assistants(c) :
                 /\ i + Len(c[i].tools) = Len(c) + Len(q)
                 /\ \A k \in DOMAIN q : q[k] = c[i].tools[Len(c) - i + k]
    <3>1. PICK o \in Assistants(m) : /\ o + Len(m[o].tools) = z + Len(q)
                                     /\ \A k \in DOMAIN q : q[k] = m[o].tools[z - o + k]
      BY <1>1, <2>3 DEF Owes
    <3>2. o \in 1 .. z /\ Len(m[o].tools) \in Nat
      BY <1>9
    <3>3. s <= o
      BY <1>2, <1>4, <1>8, <2>1, <2>3, <3>1, <3>2
    <3>4. PICK i : i = o - s + 3
      OBVIOUS
    <3>5. i \in Assistants(c) /\ c[i] = m[o]
      BY <1>7, <3>3, <3>4
    <3>6. i + Len(c[i].tools) = Len(c) + Len(q)
      <4>1. PICK a, b, e : a = Len(m[o].tools) /\ b = Len(q) /\ e = Len(c)
        OBVIOUS
      <4>2. o \in Nat /\ s \in Nat /\ a \in Nat /\ b \in Nat /\ o + a = z + b /\ e = z - s + 3
        BY <1>2, <1>3, <1>4, <2>1, <3>1, <3>2, <4>1
      <4>3. i + a = e + b
        BY <1>2, <3>4, <4>2
      <4>4. QED BY <3>5, <4>1, <4>3
    <3>7. Len(c) - i = z - o
      BY <1>2, <1>3, <1>4, <3>2, <3>4
    <3>8. QED BY <3>1, <3>5, <3>6, <3>7
  <2>4. QED BY <2>2, <2>3 DEF Owes
<1>14. c[Len(c)] = m[z]
  <2>1. Len(c) \in 3 .. Len(c) /\ Len(c) + s - 3 = z
    BY <1>2, <1>3, <1>4
  <2>2. QED BY <1>3, <2>1
<1>15. QED BY <1>1, <1>3, <1>12, <1>13, <1>14
-----------------------------------------------------------------------------
(* What a rebuilt transcript still lacks.                                  *)
\* What is kept of the first calls.
One(tools, set, k) == IF tools[k] \in set THEN <<tools[k]>> ELSE <<>>
UpTo(tools, set, m) == [k \in 1 .. m |-> One(tools, set, k)]

LEMMA UpToTyped ==
  ASSUME NEW tools \in Seq(IDs), NEW set, NEW m \in Nat, m <= Len(tools)
  PROVE  UpTo(tools, set, m) \in [1 .. m -> Seq(IDs)]
<1>1. ASSUME NEW k \in 1 .. m
      PROVE  One(tools, set, k) \in Seq(IDs)
  <2>1. tools[k] \in IDs
    BY LenProperties
  <2>2. QED BY <2>1 DEF One
<1>2. QED BY <1>1 DEF UpTo

LEMMA KeptNone ==
  ASSUME NEW tools \in Seq(IDs), NEW set
  PROVE  FlattenSeq(UpTo(tools, set, 0)) = <<>>
<1>1. PICK a : a = UpTo(tools, set, 0)
  OBVIOUS
<1>2. a \in [1 .. 0 -> Seq(IDs)]
  BY <1>1, LenProperties, UpToTyped
<1>3. a \in Seq(Seq(IDs)) /\ Len(a) = 0
  BY <1>2, FunctionIsSeq
<1>4. a = <<>>
  BY <1>3, EmptySeq
<1>5. FlattenSeq(a) = a
  BY <1>3 DEF FlattenSeq
<1>6. QED BY <1>1, <1>4, <1>5

LEMMA KeptMore ==
  ASSUME NEW tools \in Seq(IDs), NEW set, NEW m \in Nat, m + 1 <= Len(tools)
  PROVE  FlattenSeq(UpTo(tools, set, m + 1)) = FlattenSeq(UpTo(tools, set, m)) \o One(tools, set, m + 1)
<1>1. PICK a, b : a = UpTo(tools, set, m) /\ b = UpTo(tools, set, m + 1)
  OBVIOUS
<1>2. m <= Len(tools) /\ m + 1 \in Nat /\ m + 1 \in 1 .. m + 1
  BY LenProperties
<1>3. a \in [1 .. m -> Seq(IDs)] /\ b \in [1 .. m + 1 -> Seq(IDs)]
  BY <1>1, <1>2, UpToTyped
<1>4. SameUpTo(m, a, b) /\ b[m + 1] = One(tools, set, m + 1)
  <2>1. \A k \in 1 .. m : k \in 1 .. m + 1
    OBVIOUS
  <2>2. QED BY <1>1, <1>2, <2>1 DEF SameUpTo, UpTo
<1>5. FlattenSeq(b) = FlattenSeq(a) \o b[m + 1]
  BY <1>3, <1>4, FlattenMore
<1>6. QED BY <1>1, <1>4, <1>5

\* A sequence begins with its first entries.
LEMMA Beginning ==
  ASSUME NEW S, NEW q \in Seq(S), NEW j \in Nat, j <= Len(q)
  PROVE  /\ SubSeq(q, 1, j) \in Seq(S) /\ Len(SubSeq(q, 1, j)) = j
         /\ \A k \in 1 .. j : SubSeq(q, 1, j)[k] = q[k]
<1>1. \A k \in 1 .. j : q[k] \in S
  BY LenProperties
<1>2. /\ SubSeq(q, 1, j) \in Seq(S)
      /\ Len(SubSeq(q, 1, j)) = IF 1 <= j THEN j - 1 + 1 ELSE 0
      /\ \A k \in 1 .. j - 1 + 1 : SubSeq(q, 1, j)[k] = q[1 + k - 1]
  BY <1>1, SubSeqProperties
<1>3. \A k \in 1 .. j : k \in 1 .. j - 1 + 1 /\ 1 + k - 1 = k
  OBVIOUS
<1>4. QED BY <1>2, <1>3

LEMMA BeginningMore ==
  ASSUME NEW S, NEW q \in Seq(S), NEW j \in Nat, j + 1 <= Len(q)
  PROVE  SubSeq(q, 1, j) \o <<q[j + 1]>> = SubSeq(q, 1, j + 1)
<1>1. PICK y, u, e, f :
        y = SubSeq(q, 1, j) /\ u = SubSeq(q, 1, j + 1) /\ e = q[j + 1] /\ f = Append(y, e)
  OBVIOUS
<1>2. Len(q) \in Nat /\ j <= Len(q) /\ j + 1 \in Nat /\ e \in S
  BY <1>1, LenProperties
<1>3. y \in Seq(S) /\ Len(y) = j /\ \A k \in 1 .. j : y[k] = q[k]
  BY <1>1, <1>2, Beginning
<1>4. u \in Seq(S) /\ Len(u) = j + 1 /\ \A k \in 1 .. j + 1 : u[k] = q[k]
  BY <1>1, <1>2, Beginning
<1>5. f \in Seq(S) /\ Len(f) = j + 1 /\ f[j + 1] = e /\ \A k \in 1 .. j : f[k] = y[k]
  BY <1>1, <1>2, <1>3, AppendProperties
<1>6. \A k \in 1 .. j + 1 : f[k] = u[k]
  <2>1. \A k \in 1 .. j + 1 : k \in 1 .. j \/ k = j + 1
    OBVIOUS
  <2>2. QED BY <1>1, <1>2, <1>3, <1>4, <1>5, <2>1
<1>7. f = u
  BY <1>4, <1>5, <1>6, SeqEqual
<1>8. y \o <<e>> = f
  BY <1>1, <1>2, <1>3, AppendIsConcat
<1>9. QED BY <1>1, <1>7, <1>8

\* The calls kept are the last ones, when those are in the set and the ones before are not.
Lasts(tools, set, q) ==
  /\ Len(q) <= Len(tools)
  /\ \A k \in DOMAIN tools : tools[k] \in set <=> k > Len(tools) - Len(q)
  /\ \A k \in DOMAIN q : q[k] = tools[Len(tools) - Len(q) + k]

\* Of the first calls, those are kept that come after the first d.
KeptSoFar(tools, set, q, d, m) ==
  m <= Len(tools) => FlattenSeq(UpTo(tools, set, m)) = SubSeq(q, 1, m - d)

LEMMA KeptAre ==
  ASSUME NEW tools \in Seq(IDs), NEW set, NEW q \in Seq(IDs), Lasts(tools, set, q)
  PROVE  Kept(tools, set) = q
<1>1. PICK n, d : n = Len(tools) /\ d = Len(tools) - Len(q)
  OBVIOUS
<1>2. /\ n \in Nat /\ d \in Nat /\ Len(q) \in Nat /\ n = d + Len(q)
      /\ DOMAIN tools = 1 .. n /\ DOMAIN q = 1 .. Len(q)
  BY <1>1, LenProperties DEF Lasts
<1>3. /\ \A k \in 1 .. n : tools[k] \in set <=> k > d
      /\ \A k \in 1 .. Len(q) : q[k] = tools[d + k]
  BY <1>1, <1>2 DEF Lasts
<1> DEFINE R == {m \in Nat : KeptSoFar(tools, set, q, d, m)}
<1>4. 0 \in R
  <2>1. SubSeq(q, 1, 0 - d) = <<>>
    BY <1>2, SubSeqEmpty
  <2>2. QED BY <2>1, KeptNone DEF KeptSoFar
<1>5. ASSUME NEW m \in R
      PROVE  m + 1 \in R
  <2>1. m \in Nat /\ m + 1 \in Nat /\ KeptSoFar(tools, set, q, d, m)
    OBVIOUS
  <2> SUFFICES KeptSoFar(tools, set, q, d, m + 1)
    BY <2>1
  <2> HIDE DEF R
  <2>2. ASSUME m + 1 <= n
        PROVE  FlattenSeq(UpTo(tools, set, m + 1)) = SubSeq(q, 1, m + 1 - d)
    <3>1. PICK y, f : y = FlattenSeq(UpTo(tools, set, m)) /\ f = FlattenSeq(UpTo(tools, set, m + 1))
      OBVIOUS
    <3>2. f = y \o One(tools, set, m + 1)
      BY <1>1, <2>1, <2>2, <3>1, KeptMore
    <3>3. y = SubSeq(q, 1, m - d) /\ m + 1 \in 1 .. n
      <4>1. m <= Len(tools) /\ m + 1 \in 1 .. n
        BY <1>1, <1>2, <2>1, <2>2
      <4>2. QED BY <2>1, <3>1, <4>1 DEF KeptSoFar
    <3>4. CASE m + 1 <= d
      <4>1. tools[m + 1] \notin set
        BY <1>2, <1>3, <2>1, <3>3, <3>4
      <4>2. One(tools, set, m + 1) = <<>>
        BY <4>1 DEF One
      <4>3. y = <<>> /\ SubSeq(q, 1, m + 1 - d) = <<>>
        BY <1>2, <2>1, <3>3, <3>4, SubSeqEmpty
      <4>4. f = <<>> \o <<>>
        BY <3>2, <4>2, <4>3
      <4>5. <<>> \o <<>> = <<>>
        OBVIOUS
      <4>6. QED BY <3>1, <4>3, <4>4, <4>5
    <3>5. CASE m + 1 > d
      <4>1. PICK j : j = m - d
        OBVIOUS
      <4>2. j \in Nat /\ j + 1 <= Len(q) /\ j + 1 \in 1 .. Len(q) /\ d + (j + 1) = m + 1 /\ m + 1 - d = j + 1
        BY <1>2, <2>1, <2>2, <3>5, <4>1
      <4>3. tools[m + 1] = q[j + 1] /\ tools[m + 1] \in set
        <5>1. q[j + 1] = tools[d + (j + 1)]
          BY <1>3, <4>2
        <5>2. tools[m + 1] \in set
          BY <1>2, <1>3, <2>1, <3>3, <3>5
        <5>3. QED BY <4>2, <5>1, <5>2
      <4>4. f = y \o <<q[j + 1]>>
        BY <3>2, <4>3 DEF One
      <4>5. SubSeq(q, 1, j) \o <<q[j + 1]>> = SubSeq(q, 1, j + 1)
        BY <4>2, BeginningMore
      <4>6. QED BY <3>1, <3>3, <4>1, <4>2, <4>4, <4>5
    <3>6. m + 1 <= d \/ m + 1 > d
      BY <1>2, <2>1
    <3>7. QED BY Zenon, <3>4, <3>5, <3>6
  <2>3. QED BY <1>1, <1>2, <2>1, <2>2 DEF KeptSoFar
<1>6. R = Nat
  <2> HIDE DEF R
  <2>1. R \in SUBSET Nat
    BY DEF R
  <2>2. QED BY <1>4, <1>5, <2>1, NatSets
<1>7. FlattenSeq(UpTo(tools, set, n)) = SubSeq(q, 1, Len(q))
  <2>1. n <= Len(tools) /\ n - d = Len(q) /\ n \in R
    BY <1>1, <1>2, <1>6
  <2>2. KeptSoFar(tools, set, q, d, n)
    BY <2>1
  <2>3. QED BY <2>1, <2>2 DEF KeptSoFar
<1>8. Kept(tools, set) = FlattenSeq(UpTo(tools, set, n))
  BY <1>2 DEF Kept, UpTo, One
<1>9. SubSeq(q, 1, Len(q)) = q
  BY SubSeqFull
<1>10. QED BY <1>7, <1>8, <1>9

\* A response that no other follows is the last.
LEMMA LastResponses ==
  ASSUME NEW m \in Seq(Messages), NEW o \in Assistants(m), \A i \in Assistants(m) : i # o => i < o
  PROVE  LastOf("assistant", m) = {o}
<1>1. Len(m) \in Nat /\ DOMAIN m = 1 .. Len(m) /\ o \in 1 .. Len(m) /\ m[o].role = "assistant"
  BY ResponseIs, LenProperties
<1>2. ASSUME NEW j \in o + 1 .. Len(m)
      PROVE  m[j].role # "assistant"
  <2>1. j \in 1 .. Len(m) /\ j # o /\ ~(j < o)
    BY <1>1
  <2>2. QED BY <1>1, <2>1 DEF Assistants
<1>3. o \in LastOf("assistant", m)
  BY <1>1, <1>2 DEF LastOf
<1>4. ASSUME NEW i \in LastOf("assistant", m)
      PROVE  i = o
  <2>1. /\ i \in 1 .. Len(m) /\ m[i].role = "assistant"
        /\ \A j \in i + 1 .. Len(m) : m[j].role # "assistant"
    BY <1>1 DEF LastOf
  <2>2. i \in Assistants(m)
    BY <1>1, <2>1 DEF Assistants
  <2>3. i < o => o \in i + 1 .. Len(m)
    BY <1>1, <2>1
  <2>4. QED BY <1>1, <2>1, <2>2, <2>3
<1>5. QED BY <1>3, <1>4

\* A rebuilt transcript lacks exactly what is still to come.
LEMMA MissingIs ==
  ASSUME NEW q \in Seq(IDs), Begun(History), Owes(History, q)
  PROVE  Missing = q
<1>1. PICK m, z : m = History /\ z = Len(m)
  OBVIOUS
<1>2. m \in Seq(Messages) /\ z \in Nat /\ DOMAIN m = 1 .. z /\ Begun(m) /\ Owes(m, q)
  BY <1>1, LenProperties DEF Begun
<1> DEFINE answered(tool) == \E i \in LastOf("assistant", m), j \in DOMAIN m :
                               i < j /\ m[j] = ToolResult(tool)
<1>3. ASSUME NEW o \in Assistants(m), LastOf("assistant", m) = {o}, Pending,
             o + Len(m[o].tools) = z + Len(q) \/ (q = <<>> /\ o + Len(m[o].tools) <= z),
             \A k \in 1 .. Len(q) : q[k] = m[o].tools[z - o + k]
      PROVE  Missing = q
  <2>1. PICK tools, n : tools = m[o].tools /\ n = Len(tools)
    OBVIOUS
  <2>2. /\ tools \in Seq(IDs) /\ n \in Nat /\ DOMAIN tools = 1 .. n /\ o \in 1 .. z
        /\ Len(q) \in Nat /\ DOMAIN q = 1 .. Len(q) /\ (q = <<>> => Len(q) = 0)
    BY <1>1, <1>2, <2>1, ResponseIs, LenProperties, EmptySeq
  <2>3. Len(q) <= n /\ (q # <<>> => z - o = n - Len(q))
    BY <1>2, <1>3, <2>1, <2>2
  <2>4. LastResponse = m[o]
    BY <1>1, <1>3 DEF LastResponse
  <2>5. PICK set : set = {tool \in Range(tools) : ~answered(tool)}
    OBVIOUS
  <2>6. Missing = Kept(tools, set)
    BY <1>1, <1>3, <2>1, <2>4, <2>5 DEF Missing
  <2>7. ASSUME NEW tool
        PROVE  answered(tool) <=> \E j \in 1 .. z : o < j /\ m[j] = ToolResult(tool)
    BY <1>2, <1>3
  <2> HIDE DEF answered
  <2>8. ASSUME NEW k \in 1 .. n
        PROVE  m[o + k] = ToolResult(tools[k]) \/ o + k > z
    <3>1. o + k \in 1 .. z \/ o + k > z
      BY <1>2, <2>2
    <3>2. QED BY <1>2, <2>1, <2>2, <3>1 DEF Begun
  <2>9. ASSUME NEW k \in 1 .. n
        PROVE  answered(tools[k]) <=> k <= n - Len(q)
    <3>1. ASSUME k <= n - Len(q)
          PROVE  answered(tools[k])
      <4>1. o + k \in 1 .. z /\ o < o + k
        BY <1>2, <1>3, <2>1, <2>2, <2>3, <3>1
      <4>2. m[o + k] = ToolResult(tools[k])
        BY <1>2, <2>2, <2>8, <4>1
      <4>3. QED BY <2>7, <4>1, <4>2
    <3>2. ASSUME answered(tools[k])
          PROVE  k <= n - Len(q)
      <4>1. PICK j \in 1 .. z : o < j /\ m[j] = ToolResult(tools[k])
        BY <2>7, <3>2
      <4>2. CASE q = <<>>
        BY <2>2, <4>2
      <4>3. CASE q # <<>>
        <5>1. PICK l : l = j - o
          OBVIOUS
        <5>2. l \in 1 .. n /\ l <= n - Len(q) /\ o + l = j /\ ~(o + l > z)
          BY <1>2, <2>2, <2>3, <4>1, <4>3, <5>1
        <5>3. m[j] = ToolResult(tools[l])
          BY <2>8, <5>2
        <5>4. tools[l] = tools[k]
          BY <4>1, <5>3 DEF ToolResult
        <5>5. l = k
          BY <1>2, <2>1, <2>2, <5>2, <5>4 DEF Begun
        <5>6. QED BY <5>2, <5>5
      <4>4. QED BY <4>2, <4>3
    <3>3. QED BY <3>1, <3>2
  <2>10. Lasts(tools, set, q)
    <3>1. ASSUME NEW k \in 1 .. n
          PROVE  tools[k] \in set <=> k > n - Len(q)
      <4>1. tools[k] \in Range(tools)
        BY <2>2 DEF Range
      <4>2. tools[k] \in set <=> ~answered(tools[k])
        BY <2>5, <4>1
      <4>3. k > n - Len(q) <=> ~(k <= n - Len(q))
        BY <2>2
      <4>4. QED BY <2>9, <4>2, <4>3
    <3>2. ASSUME NEW k \in 1 .. Len(q)
          PROVE  q[k] = tools[n - Len(q) + k]
      <4>1. q # <<>>
        BY <2>2
      <4>2. q[k] = tools[z - o + k] /\ z - o = n - Len(q)
        BY <1>3, <2>1, <2>3, <4>1
      <4>3. QED BY <4>2
    <3>3. QED BY <2>1, <2>2, <2>3, <3>1, <3>2 DEF Lasts
  <2>11. QED BY <2>2, <2>6, <2>10, KeptAre
<1>4. CASE q # <<>>
  <2>1. PICK o \in Assistants(m) :
          /\ o + Len(m[o].tools) = z + Len(q)
          /\ \A k \in 1 .. Len(q) : q[k] = m[o].tools[z - o + k]
          /\ \A j \in Assistants(m) : j # o => j < o /\ j + Len(m[j].tools) < o
    BY <1>1, <1>2, <1>4, OwnerIs
  <2>2. LastOf("assistant", m) = {o}
    BY <1>2, <2>1, LastResponses
  <2>3. ASSUME NEW j \in LastOf("user", m)
        PROVE  j < o
    <3>1. j \in 1 .. z /\ m[j].role = "user"
      BY <1>2 DEF LastOf
    <3>2. o \in 1 .. z /\ m[o].role = "assistant" /\ DOMAIN m[o].tools = 1 .. Len(m[o].tools)
          /\ Len(m[o].tools) \in Nat /\ Len(q) \in Nat
      BY <1>1, <1>2, ResponseIs, LenProperties
    <3>3. SUFFICES ASSUME o < j
                   PROVE  FALSE
      BY <3>1, <3>2
    <3>4. PICK k : k = j - o
      OBVIOUS
    <3>5. k \in 1 .. Len(m[o].tools) /\ o + k = j
      BY <1>2, <2>1, <3>1, <3>2, <3>3, <3>4
    <3>6. m[j] = ToolResult(m[o].tools[k])
      BY <1>2, <3>1, <3>2, <3>5 DEF Begun
    <3>7. QED BY <3>1, <3>6 DEF ToolResult
  <2>4. Pending
    BY <1>1, <2>2, <2>3 DEF Pending
  <2>5. QED BY <1>3, <2>1, <2>2, <2>4
<1>5. CASE q = <<>>
  <2>1. CASE ~Pending
    BY <1>5, <2>1 DEF Missing
  <2>2. CASE Pending
    <3>1. PICK o \in LastOf("assistant", m) : TRUE
      BY <1>1, <2>2 DEF Pending
    <3>2. /\ o \in 1 .. z /\ m[o].role = "assistant"
          /\ \A j \in o + 1 .. z : m[j].role # "assistant"
      BY <1>1, <1>2 DEF LastOf
    <3>3. o \in Assistants(m)
      BY <1>2, <3>2 DEF Assistants
    <3>4. ASSUME NEW i \in Assistants(m), i # o
          PROVE  i < o
      <4>1. i \in 1 .. z /\ m[i].role = "assistant"
        BY <1>2 DEF Assistants
      <4>2. o < i => i \in o + 1 .. z
        BY <3>2, <4>1
      <4>3. QED BY <3>2, <3>4, <4>1, <4>2
    <3>5. LastOf("assistant", m) = {o}
      BY <1>2, <3>3, <3>4, LastResponses
    <3>6. Len(q) = 0 /\ o + Len(m[o].tools) <= z + 0
      BY <1>1, <1>2, <1>5, <3>3, EmptySeq DEF Owes
    <3>7. o + Len(m[o].tools) <= z /\ \A k \in 1 .. Len(q) : q[k] = m[o].tools[z - o + k]
      BY <1>2, <3>6
    <3>8. QED BY <1>3, <1>5, <2>2, <3>3, <3>5, <3>7
  <2>3. QED BY <2>1, <2>2
<1>6. QED BY <1>4, <1>5

\* A transcript that ends with a response ends with the one the executor looks at.
LEMMA LastIsPending ==
  ASSUME History \in Seq(Messages), History # <<>>, History[Len(History)].role = "assistant"
  PROVE  Pending /\ LastResponse = History[Len(History)]
<1>1. PICK m, z : m = History /\ z = Len(m)
  OBVIOUS
<1>2. m \in Seq(Messages) /\ z \in Nat /\ z \in 1 .. z /\ DOMAIN m = 1 .. z /\ m[z].role = "assistant"
  <2>1. m \in Seq(Messages) /\ m # <<>> /\ m[z].role = "assistant"
    BY <1>1
  <2>2. z \in Nat /\ z # 0 /\ DOMAIN m = 1 .. z
    BY <1>1, <2>1, LenProperties, EmptySeq
  <2>3. QED BY <2>1, <2>2
<1>3. z \in Assistants(m) /\ \A i \in Assistants(m) : i # z => i < z
  BY <1>2 DEF Assistants
<1>4. LastOf("assistant", m) = {z}
  BY <1>2, <1>3, LastResponses
<1>5. \A j \in LastOf("user", m) : j < z
  <2>1. ASSUME NEW j \in LastOf("user", m)
        PROVE  j < z
    <3>1. j \in 1 .. z /\ m[j].role = "user"
      BY <1>2 DEF LastOf
    <3>2. j # z
      BY <1>2, <3>1
    <3>3. QED BY <1>2, <3>1, <3>2
  <2>2. QED BY <2>1
<1>6. Pending
  BY <1>1, <1>4, <1>5 DEF Pending
<1>7. LastResponse = m[z]
  BY <1>1, <1>4 DEF LastResponse
<1>8. QED BY <1>1, <1>6, <1>7

\* A transcript that lacks nothing and does not end with a response is whole.
LEMMA WholeTranscript ==
  ASSUME NEW m, Begun(m), Owes(m, <<>>), m[Len(m)].role # "assistant"
  PROVE  Transcript(m)
<1>1. PICK z : z = Len(m)
  OBVIOUS
<1>2. m \in Seq(Messages) /\ z \in Nat /\ DOMAIN m = 1 .. z
  BY <1>1, LenProperties DEF Begun
<1>3. ASSUME NEW i \in Assistants(m)
      PROVE  /\ i \in 1 .. z /\ Len(m[i].tools) \in Nat
             /\ DOMAIN m[i].tools = 1 .. Len(m[i].tools) /\ i + Len(m[i].tools) <= z
  <2>1. Len(<<>>) = 0
    OBVIOUS
  <2>2. i \in 1 .. z /\ Len(m[i].tools) \in Nat /\ DOMAIN m[i].tools = 1 .. Len(m[i].tools)
    BY <1>1, <1>2, ResponseIs
  <2>3. i + Len(m[i].tools) <= z + 0
    BY <1>1, <2>1 DEF Owes
  <2>4. QED BY <1>2, <2>2, <2>3
<1>4. PICK runs : runs = {i \in DOMAIN m : m[i].role = "toolResult"}
  OBVIOUS
<1>5. ASSUME NEW i \in Assistants(m), NEW k \in DOMAIN m[i].tools
      PROVE  i + k \in runs /\ m[i + k].tool = m[i].tools[k]
  <2>1. i + k \in 1 .. z
    BY <1>2, <1>3
  <2>2. m[i + k] = ToolResult(m[i].tools[k])
    BY <1>2, <2>1 DEF Begun
  <2>3. m[i + k].role = "toolResult" /\ m[i + k].tool = m[i].tools[k]
    BY <2>2 DEF ToolResult
  <2>4. QED BY <1>2, <1>4, <2>1, <2>3
<1>6. runs \subseteq UNION {{i + k : k \in DOMAIN m[i].tools} : i \in Assistants(m)}
  <2>1. ASSUME NEW j \in runs
        PROVE  \E i \in Assistants(m) : j \in {i + k : k \in DOMAIN m[i].tools}
    <3>1. j \in 1 .. z /\ m[j].role = "toolResult"
      BY <1>2, <1>4
    <3>2. PICK i \in Assistants(m) : j - i \in DOMAIN m[i].tools
      BY <1>2, <3>1 DEF Begun
    <3>3. i + (j - i) = j
      BY <1>2, <1>3, <3>1
    <3>4. QED BY <3>2, <3>3
  <2>2. QED BY <2>1
<1>7. QED BY <1>4, <1>5, <1>6 DEF Transcript
-----------------------------------------------------------------------------
(* The turn before.                                                        *)
LEMMA FlattenNone == FlattenSeq(<<>>) = <<>>
  BY DEF FlattenSeq

LEMMA FlattenOne ==
  ASSUME NEW S, NEW a \in Seq(S)
  PROVE  FlattenSeq(<<a>>) = a
<1>1. PICK s, t : s = [i \in 1 .. 0 |-> a] /\ t = <<a>>
  OBVIOUS
<1>2. s \in [1 .. 0 -> Seq(S)] /\ t \in [1 .. 0 + 1 -> Seq(S)] /\ SameUpTo(0, s, t) /\ t[0 + 1] = a
  BY <1>1 DEF SameUpTo
<1>3. FlattenSeq(t) = FlattenSeq(s) \o a
  BY <1>2, FlattenMore
<1>4. s = <<>>
  BY <1>1
<1>5. QED BY <1>1, <1>3, <1>4, FlattenNone

LEMMA FlattenTwo ==
  ASSUME NEW S, NEW a \in Seq(S), NEW b \in Seq(S)
  PROVE  FlattenSeq(<<a, b>>) = a \o b
<1>1. PICK s, t : s = <<a>> /\ t = <<a, b>>
  OBVIOUS
<1>2. s \in [1 .. 1 -> Seq(S)] /\ t \in [1 .. 1 + 1 -> Seq(S)] /\ SameUpTo(1, s, t) /\ t[1 + 1] = b
  BY <1>1 DEF SameUpTo
<1>3. FlattenSeq(t) = FlattenSeq(s) \o b
  BY <1>2, FlattenMore
<1>4. FlattenSeq(s) = a
  BY <1>1, FlattenOne
<1>5. QED BY <1>1, <1>3, <1>4

LEMMA FlattenThree ==
  ASSUME NEW S, NEW a \in Seq(S), NEW b \in Seq(S), NEW c \in Seq(S)
  PROVE  FlattenSeq(<<a, b, c>>) = FlattenSeq(<<a, b>>) \o c
<1>1. PICK s, t : s = <<a, b>> /\ t = <<a, b, c>>
  OBVIOUS
<1>2. s \in [1 .. 2 -> Seq(S)] /\ t \in [1 .. 2 + 1 -> Seq(S)] /\ SameUpTo(2, s, t) /\ t[2 + 1] = c
  BY <1>1 DEF SameUpTo
<1>3. FlattenSeq(t) = FlattenSeq(s) \o c
  BY <1>2, FlattenMore
<1>4. QED BY <1>1, <1>3

LEMMA FlattenFour ==
  ASSUME NEW S, NEW a \in Seq(S), NEW b \in Seq(S), NEW c \in Seq(S), NEW d \in Seq(S)
  PROVE  FlattenSeq(<<a, b, c, d>>) = FlattenSeq(<<a, b, c>>) \o d
<1>1. PICK s, t : s = <<a, b, c>> /\ t = <<a, b, c, d>>
  OBVIOUS
<1>2. s \in [1 .. 3 -> Seq(S)] /\ t \in [1 .. 3 + 1 -> Seq(S)] /\ SameUpTo(3, s, t) /\ t[3 + 1] = d
  BY <1>1 DEF SameUpTo
<1>3. FlattenSeq(t) = FlattenSeq(s) \o d
  BY <1>2, FlattenMore
<1>4. QED BY <1>1, <1>3

\* Of a turn that was stopped or killed, what a conversation keeps is one of these.
Parents ==
  LET first == User("earlier") IN
  {<<first>>, <<first, Assistant("toolUse", <<>>)>>,
   <<first, Assistant("toolUse", <<"p">>), ToolResult("p")>>,
   <<first, Assistant("toolUse", <<"p", "q">>), ToolResult("p"), ToolResult("q")>>,
   <<first, Assistant("toolUse", <<"p", "q">>), ToolResult("p"), ToolResult("q"),
     Assistant("stop", <<>>)>>}

LEMMA KeptTwo ==
  ASSUME NEW set
  PROVE  Kept(<<"p", "q">>, set) = (IF "p" \in set THEN <<"p">> ELSE <<>>) \o (IF "q" \in set THEN <<"q">> ELSE <<>>)
<1>1. PICK a, b : /\ a = IF "p" \in set THEN <<"p">> ELSE <<>>
                  /\ b = IF "q" \in set THEN <<"q">> ELSE <<>>
  OBVIOUS
<1>2. a \in Seq(IDs) /\ b \in Seq(IDs)
  <2>1. "p" \in IDs /\ "q" \in IDs
    BY DEF IDs
  <2>2. <<"p">> \in Seq(IDs) /\ <<"q">> \in Seq(IDs) /\ <<>> \in Seq(IDs)
    BY <2>1
  <2>3. QED BY <1>1, <2>2
<1>3. [k \in DOMAIN <<"p", "q">> |-> IF <<"p", "q">>[k] \in set THEN <<<<"p", "q">>[k]>> ELSE <<>>] = <<a, b>>
  BY <1>1
<1>4. Kept(<<"p", "q">>, set) = FlattenSeq(<<a, b>>)
  BY <1>3 DEF Kept
<1>5. FlattenSeq(<<a, b>>) = a \o b
  BY <1>2, FlattenTwo
<1>6. QED BY <1>1, <1>4, <1>5

\* A sequence is what two are joined to when it has the entries of one and then the other's.
LEMMA JoinedIs ==
  ASSUME NEW S, NEW x \in Seq(S), NEW y \in Seq(S), NEW z \in Seq(S), Len(z) = Len(x) + Len(y),
         \A i \in 1 .. Len(x) + Len(y) : z[i] = IF i <= Len(x) THEN x[i] ELSE y[i - Len(x)]
  PROVE  x \o y = z
<1>1. /\ x \o y \in Seq(S) /\ Len(x \o y) = Len(x) + Len(y)
      /\ \A i \in 1 .. Len(x) + Len(y) : (x \o y)[i] = IF i <= Len(x) THEN x[i] ELSE y[i - Len(x)]
  BY ConcatProperties
<1>2. \A i \in 1 .. Len(x \o y) : (x \o y)[i] = z[i]
  BY <1>1
<1>3. QED BY <1>1, <1>2, SeqEqual

LEMMA OneOne ==
  ASSUME NEW a, NEW b
  PROVE  <<a>> \o <<b>> = <<a, b>>
<1>1. PICK x, y, z, S : x = <<a>> /\ y = <<b>> /\ z = <<a, b>> /\ S = {a, b}
  OBVIOUS
<1>2. /\ x \in Seq(S) /\ y \in Seq(S) /\ z \in Seq(S)
      /\ Len(x) = 1 /\ Len(y) = 1 /\ Len(z) = 2
  BY <1>1
<1>3. \A i \in 1 .. 2 : z[i] = IF i <= 1 THEN x[i] ELSE y[i - 1]
  <2>1. \A i \in 1 .. 2 : i = 1 \/ i = 2
    OBVIOUS
  <2>2. QED BY <1>1, <2>1
<1>4. Len(z) = Len(x) + Len(y) /\ \A i \in 1 .. Len(x) + Len(y) : z[i] = IF i <= Len(x) THEN x[i] ELSE y[i - Len(x)]
  BY <1>2, <1>3
<1>5. x \o y = z
  BY <1>2, <1>4, JoinedIs
<1>6. QED BY <1>1, <1>5

LEMMA TwoOne ==
  ASSUME NEW a, NEW b, NEW c
  PROVE  <<a, b>> \o <<c>> = <<a, b, c>>
<1>1. PICK x, y, z, S : x = <<a, b>> /\ y = <<c>> /\ z = <<a, b, c>> /\ S = {a, b, c}
  OBVIOUS
<1>2. /\ x \in Seq(S) /\ y \in Seq(S) /\ z \in Seq(S)
      /\ Len(x) = 2 /\ Len(y) = 1 /\ Len(z) = 3
  BY <1>1
<1>3. \A i \in 1 .. 3 : z[i] = IF i <= 2 THEN x[i] ELSE y[i - 2]
  <2>1. \A i \in 1 .. 3 : i = 1 \/ i = 2 \/ i = 3
    OBVIOUS
  <2>2. QED BY <1>1, <2>1
<1>4. Len(z) = Len(x) + Len(y) /\ \A i \in 1 .. Len(x) + Len(y) : z[i] = IF i <= Len(x) THEN x[i] ELSE y[i - Len(x)]
  BY <1>2, <1>3
<1>5. x \o y = z
  BY <1>2, <1>4, JoinedIs
<1>6. QED BY <1>1, <1>5

LEMMA ThreeOne ==
  ASSUME NEW a, NEW b, NEW c, NEW d
  PROVE  <<a, b, c>> \o <<d>> = <<a, b, c, d>>
<1>1. PICK x, y, z, S : x = <<a, b, c>> /\ y = <<d>> /\ z = <<a, b, c, d>> /\ S = {a, b, c, d}
  OBVIOUS
<1>2. /\ x \in Seq(S) /\ y \in Seq(S) /\ z \in Seq(S)
      /\ Len(x) = 3 /\ Len(y) = 1 /\ Len(z) = 4
  BY <1>1
<1>3. \A i \in 1 .. 4 : z[i] = IF i <= 3 THEN x[i] ELSE y[i - 3]
  <2>1. \A i \in 1 .. 4 : i = 1 \/ i = 2 \/ i = 3 \/ i = 4
    OBVIOUS
  <2>2. QED BY <1>1, <2>1
<1>4. Len(z) = Len(x) + Len(y) /\ \A i \in 1 .. Len(x) + Len(y) : z[i] = IF i <= Len(x) THEN x[i] ELSE y[i - Len(x)]
  BY <1>2, <1>3
<1>5. x \o y = z
  BY <1>2, <1>4, JoinedIs
<1>6. QED BY <1>1, <1>5

LEMMA OneTwo ==
  ASSUME NEW a, NEW b, NEW c
  PROVE  <<a>> \o <<b, c>> = <<a, b, c>>
<1>1. PICK x, y, z, S : x = <<a>> /\ y = <<b, c>> /\ z = <<a, b, c>> /\ S = {a, b, c}
  OBVIOUS
<1>2. /\ x \in Seq(S) /\ y \in Seq(S) /\ z \in Seq(S)
      /\ Len(x) = 1 /\ Len(y) = 2 /\ Len(z) = 3
  BY <1>1
<1>3. \A i \in 1 .. 3 : z[i] = IF i <= 1 THEN x[i] ELSE y[i - 1]
  <2>1. \A i \in 1 .. 3 : i = 1 \/ i = 2 \/ i = 3
    OBVIOUS
  <2>2. QED BY <1>1, <2>1
<1>4. Len(z) = Len(x) + Len(y) /\ \A i \in 1 .. Len(x) + Len(y) : z[i] = IF i <= Len(x) THEN x[i] ELSE y[i - Len(x)]
  BY <1>2, <1>3
<1>5. x \o y = z
  BY <1>2, <1>4, JoinedIs
<1>6. QED BY <1>1, <1>5

LEMMA OneThree ==
  ASSUME NEW a, NEW b, NEW c, NEW d
  PROVE  <<a>> \o <<b, c, d>> = <<a, b, c, d>>
<1>1. PICK x, y, z, S : x = <<a>> /\ y = <<b, c, d>> /\ z = <<a, b, c, d>> /\ S = {a, b, c, d}
  OBVIOUS
<1>2. /\ x \in Seq(S) /\ y \in Seq(S) /\ z \in Seq(S)
      /\ Len(x) = 1 /\ Len(y) = 3 /\ Len(z) = 4
  BY <1>1
<1>3. \A i \in 1 .. 4 : z[i] = IF i <= 1 THEN x[i] ELSE y[i - 1]
  <2>1. \A i \in 1 .. 4 : i = 1 \/ i = 2 \/ i = 3 \/ i = 4
    OBVIOUS
  <2>2. QED BY <1>1, <2>1
<1>4. Len(z) = Len(x) + Len(y) /\ \A i \in 1 .. Len(x) + Len(y) : z[i] = IF i <= Len(x) THEN x[i] ELSE y[i - Len(x)]
  BY <1>2, <1>3
<1>5. x \o y = z
  BY <1>2, <1>4, JoinedIs
<1>6. QED BY <1>1, <1>5

LEMMA OneFour ==
  ASSUME NEW a, NEW b, NEW c, NEW d, NEW e
  PROVE  <<a>> \o <<b, c, d, e>> = <<a, b, c, d, e>>
<1>1. PICK x, y, z, S : x = <<a>> /\ y = <<b, c, d, e>> /\ z = <<a, b, c, d, e>> /\ S = {a, b, c, d, e}
  OBVIOUS
<1>2. /\ x \in Seq(S) /\ y \in Seq(S) /\ z \in Seq(S)
      /\ Len(x) = 1 /\ Len(y) = 4 /\ Len(z) = 5
  BY <1>1
<1>3. \A i \in 1 .. 5 : z[i] = IF i <= 1 THEN x[i] ELSE y[i - 1]
  <2>1. \A i \in 1 .. 5 : i = 1 \/ i = 2 \/ i = 3 \/ i = 4 \/ i = 5
    OBVIOUS
  <2>2. QED BY <1>1, <2>1
<1>4. Len(z) = Len(x) + Len(y) /\ \A i \in 1 .. Len(x) + Len(y) : z[i] = IF i <= Len(x) THEN x[i] ELSE y[i - Len(x)]
  BY <1>2, <1>3
<1>5. x \o y = z
  BY <1>2, <1>4, JoinedIs
<1>6. QED BY <1>1, <1>5

LEMMA FirstOfFour ==
  ASSUME NEW a, NEW b, NEW c, NEW d
  PROVE  /\ SubSeq(<<a, b, c, d>>, 1, 0) = <<>>
         /\ SubSeq(<<a, b, c, d>>, 1, 1) = <<a>>
         /\ SubSeq(<<a, b, c, d>>, 1, 2) = <<a, b>>
         /\ SubSeq(<<a, b, c, d>>, 1, 3) = <<a, b, c>>
         /\ SubSeq(<<a, b, c, d>>, 1, 4) = <<a, b, c, d>>
<1> DEFINE S == {a, b, c, d}
<1>1. PICK s : s = <<a, b, c, d>>
  OBVIOUS
<1>2. s \in Seq(S) /\ Len(s) = 4 /\ s[1] = a /\ s[2] = b /\ s[3] = c /\ s[4] = d
  BY <1>1
<1>3. a \in S /\ b \in S /\ c \in S /\ d \in S
  OBVIOUS
<1> HIDE DEF S
<1>4. SubSeq(s, 1, 0) = <<>>
  BY SubSeqEmpty
<1>5. SubSeq(s, 1, 1) = <<a>>
  <2>1. SubSeq(s, 1, 0) \o <<s[0 + 1]>> = SubSeq(s, 1, 0 + 1)
    BY <1>2, BeginningMore
  <2>2. <<>> \o <<a>> = SubSeq(s, 1, 1)
    BY <1>2, <1>4, <2>1
  <2>3. <<a>> \in Seq(S)
    BY <1>3
  <2>4. QED BY <2>2, <2>3, ConcatEmptySeq
<1>6. SubSeq(s, 1, 2) = <<a, b>>
  <2>1. SubSeq(s, 1, 1) \o <<s[1 + 1]>> = SubSeq(s, 1, 1 + 1)
    BY <1>2, BeginningMore
  <2>2. <<a>> \o <<b>> = SubSeq(s, 1, 2)
    BY <1>2, <1>5, <2>1
  <2>3. QED BY Zenon, <2>2, OneOne
<1>7. SubSeq(s, 1, 3) = <<a, b, c>>
  <2>1. SubSeq(s, 1, 2) \o <<s[2 + 1]>> = SubSeq(s, 1, 2 + 1)
    BY <1>2, BeginningMore
  <2>2. <<a, b>> \o <<c>> = SubSeq(s, 1, 3)
    BY <1>2, <1>6, <2>1
  <2>3. QED BY Zenon, <2>2, TwoOne
<1>8. SubSeq(s, 1, 4) = <<a, b, c, d>>
  <2>1. SubSeq(s, 1, 3) \o <<s[3 + 1]>> = SubSeq(s, 1, 3 + 1)
    BY <1>2, BeginningMore
  <2>2. <<a, b, c>> \o <<d>> = SubSeq(s, 1, 4)
    BY <1>2, <1>7, <2>1
  <2>3. QED BY Zenon, <2>2, ThreeOne
<1>9. QED BY <1>1, <1>4, <1>5, <1>6, <1>7, <1>8

\* What the conversation keeps of an entry, once it is known which calls have an outcome.
Outcomes(events) == {events[i].tool : i \in {j \in DOMAIN events : events[j].type = "tool.result"}}
KeptMessage(outcomes, entry) ==
  CASE entry.type = "model.call" ->
         IF ~entry.text /\ Kept(entry.tools, outcomes) = <<>> THEN <<>>
         ELSE <<Assistant(entry.stop, Kept(entry.tools, outcomes))>>
    [] entry.type = "tool.result" -> <<ToolResult(entry.tool)>>
    [] entry.type = "message.continue" -> <<User("continue")>>

LEMMA ContinuationIs ==
  ASSUME NEW events
  PROVE  Continuation(events) =
           <<User("earlier")>> \o FlattenSeq([i \in DOMAIN events |-> KeptMessage(Outcomes(events), events[i])])
  BY DEF Continuation, KeptMessage, Outcomes

\* The entries of such a turn.
Call(text) == [type |-> "model.call", stop |-> "toolUse", tools |-> <<"p", "q">>, text |-> text]
Result(tool) == [type |-> "tool.result", tool |-> tool]
Final == [type |-> "model.call", stop |-> "stop", tools |-> <<>>, text |-> TRUE]

LEMMA ParentLogsAre ==
  ParentLogs = {SubSeq(<<Call(text), Result("p"), Result("q"), Final>>, 1, n) : text \in BOOLEAN, n \in 0 .. 4}
  BY SMT DEF ParentLogs, Call, Result, Final

LEMMA ContinuationsAre ==
  ASSUME NEW events \in ParentLogs
  PROVE  Continuation(events) \in Parents
<1>1. PICK text \in BOOLEAN, n \in 0 .. 4 :
        events = SubSeq(<<Call(text), Result("p"), Result("q"), Final>>, 1, n)
  BY SMT, ParentLogsAre
<1>2. PICK a, b, c, d : a = Call(text) /\ b = Result("p") /\ c = Result("q") /\ d = Final
  OBVIOUS
<1>3. /\ a.type = "model.call" /\ a.stop = "toolUse" /\ a.tools = <<"p", "q">> /\ a.text = text
      /\ b.type = "tool.result" /\ b.tool = "p" /\ c.type = "tool.result" /\ c.tool = "q"
      /\ d.type = "model.call" /\ d.stop = "stop" /\ d.tools = <<>> /\ d.text
  BY <1>2 DEF Call, Result, Final
<1>4. events = SubSeq(<<a, b, c, d>>, 1, n)
  BY <1>1, <1>2
<1>5. PICK first, P, Q, F, o : /\ first = User("earlier") /\ P = ToolResult("p") /\ Q = ToolResult("q")
                               /\ F = Assistant("stop", <<>>) /\ o = Outcomes(events)
  OBVIOUS
<1>6. KeptMessage(o, b) = <<P>> /\ KeptMessage(o, c) = <<Q>>
  BY <1>3, <1>5 DEF KeptMessage
<1>7. KeptMessage(o, d) = <<F>>
  <2>1. Kept(<<>>, o) = FlattenSeq(<<>>)
    BY DEF Kept
  <2>2. Kept(<<>>, o) = <<>>
    BY <2>1 DEF FlattenSeq
  <2>3. QED BY <1>3, <1>5, <2>2 DEF KeptMessage
<1>8. PICK k : k = Kept(<<"p", "q">>, o)
  OBVIOUS
<1>9. KeptMessage(o, a) = IF ~text /\ k = <<>> THEN <<>> ELSE <<Assistant("toolUse", k)>>
  BY <1>3, <1>8 DEF KeptMessage
<1>10. k = (IF "p" \in o THEN <<"p">> ELSE <<>>) \o (IF "q" \in o THEN <<"q">> ELSE <<>>)
  BY <1>8, KeptTwo
<1>11. PICK A : A = Assistant("toolUse", k)
  OBVIOUS
<1>12. PICK seqs : seqs = [i \in DOMAIN events |-> KeptMessage(o, events[i])]
  OBVIOUS
<1>13. Continuation(events) = <<first>> \o FlattenSeq(seqs)
  BY <1>5, <1>12, ContinuationIs
<1> DEFINE S == {A, P, Q, F}
<1>14. <<A>> \in Seq(S) /\ <<P>> \in Seq(S) /\ <<Q>> \in Seq(S) /\ <<F>> \in Seq(S)
  OBVIOUS
<1> HIDE DEF S
<1>15. CASE n = 0
  <2>1. events = <<>>
    BY <1>4, <1>15, FirstOfFour
  <2>2. seqs = <<>>
    BY <1>12, <2>1
  <2>3. FlattenSeq(seqs) = <<>>
    BY <2>2 DEF FlattenSeq
  <2>4. Continuation(events) = <<first>>
    BY <1>13, <2>3
  <2>5. QED BY <1>5, <2>4 DEF Parents
<1>16. CASE n = 1
  <2>1. events = <<a>>
    BY <1>4, <1>16, FirstOfFour
  <2>2. o = {}
    BY <1>3, <1>5, <2>1 DEF Outcomes
  <2>3. k = <<>>
    BY <1>10, <2>2
  <2>4. seqs = <<KeptMessage(o, a)>>
    BY <1>12, <2>1
  <2>5. CASE text
    <3>1. seqs = <<<<A>>>>
      BY <1>9, <1>11, <2>4, <2>5
    <3>2. FlattenSeq(seqs) = <<A>>
      BY <1>14, <3>1, FlattenOne
    <3>3. Continuation(events) = <<first, A>>
      <4>1. Continuation(events) = <<first>> \o <<A>>
        BY Zenon, <1>13, <3>2
      <4>2. QED BY Zenon, <4>1, OneOne
    <3>4. QED BY <1>5, <1>11, <2>3, <3>3 DEF Parents
  <2>6. CASE ~text
    <3>1. seqs = <<<<>>>>
      BY <1>9, <2>3, <2>4, <2>6
    <3>2. FlattenSeq(seqs) = <<>>
      <4>1. <<>> \in Seq(S)
        OBVIOUS
      <4>2. QED BY <3>1, <4>1, FlattenOne
    <3>3. Continuation(events) = <<first>>
      BY <1>13, <3>2
    <3>4. QED BY <1>5, <3>3 DEF Parents
  <2>7. QED BY <2>5, <2>6
<1>17. CASE n = 2
  <2>1. events = <<a, b>>
    BY <1>4, <1>17, FirstOfFour
  <2>2. o = {"p"}
    BY <1>3, <1>5, <2>1 DEF Outcomes
  <2>3. k = <<"p">> /\ k # <<>>
    BY <1>10, <2>2
  <2>4. seqs = <<<<A>>, <<P>>>>
    BY <1>6, <1>9, <1>11, <1>12, <2>1, <2>3
  <2>5. FlattenSeq(seqs) = <<A, P>>
    <3>1. FlattenSeq(seqs) = <<A>> \o <<P>>
      BY <1>14, <2>4, FlattenTwo
    <3>2. QED BY Zenon, <3>1, OneOne
  <2>6. Continuation(events) = <<first, A, P>>
    <3>1. Continuation(events) = <<first>> \o <<A, P>>
      BY Zenon, <1>13, <2>5
    <3>2. QED BY Zenon, <3>1, OneTwo
  <2>7. QED BY <1>5, <1>11, <2>3, <2>6 DEF Parents
<1>18. CASE n = 3
  <2>1. events = <<a, b, c>>
    BY <1>4, <1>18, FirstOfFour
  <2>2. "p" \in o /\ "q" \in o
    BY <1>3, <1>5, <2>1 DEF Outcomes
  <2>3. k = <<"p", "q">> /\ k # <<>>
    <3>1. k = <<"p">> \o <<"q">>
      BY <1>10, <2>2
    <3>2. k = <<"p", "q">>
      BY Zenon, <3>1, OneOne
    <3>3. QED BY <3>2
  <2>4. seqs = <<<<A>>, <<P>>, <<Q>>>>
    BY <1>6, <1>9, <1>11, <1>12, <2>1, <2>3
  <2>5. FlattenSeq(seqs) = <<A, P, Q>>
    <3>1. PICK x, y, z : x = <<A>> /\ y = <<P>> /\ z = <<Q>>
      OBVIOUS
    <3>2. x \in Seq(S) /\ y \in Seq(S) /\ z \in Seq(S) /\ seqs = <<x, y, z>>
      BY <1>14, <2>4, <3>1
    <3>3. FlattenSeq(<<x, y, z>>) = FlattenSeq(<<x, y>>) \o z /\ FlattenSeq(<<x, y>>) = x \o y
      <4>1. FlattenSeq(<<x, y, z>>) = FlattenSeq(<<x, y>>) \o z
        BY Zenon, <3>2, FlattenThree
      <4>2. FlattenSeq(<<x, y>>) = x \o y
        BY Zenon, <3>2, FlattenTwo
      <4>3. QED BY <4>1, <4>2
    <3>4. x \o y = <<A, P>>
      BY Zenon, <3>1, OneOne
    <3>5. <<A, P>> \o z = <<A, P, Q>>
      BY Zenon, <3>1, TwoOne
    <3>6. QED BY Zenon, <3>2, <3>3, <3>4, <3>5
  <2>6. Continuation(events) = <<first, A, P, Q>>
    <3>1. Continuation(events) = <<first>> \o <<A, P, Q>>
      BY Zenon, <1>13, <2>5
    <3>2. QED BY Zenon, <3>1, OneThree
  <2>7. QED BY <1>5, <1>11, <2>3, <2>6 DEF Parents
<1>19. CASE n = 4
  <2>1. events = <<a, b, c, d>>
    BY <1>4, <1>19, FirstOfFour
  <2>2. "p" \in o /\ "q" \in o
    BY <1>3, <1>5, <2>1 DEF Outcomes
  <2>3. k = <<"p", "q">> /\ k # <<>>
    <3>1. k = <<"p">> \o <<"q">>
      BY <1>10, <2>2
    <3>2. k = <<"p", "q">>
      BY Zenon, <3>1, OneOne
    <3>3. QED BY <3>2
  <2>4. seqs = <<<<A>>, <<P>>, <<Q>>, <<F>>>>
    BY <1>6, <1>7, <1>9, <1>11, <1>12, <2>1, <2>3
  <2>5. FlattenSeq(seqs) = <<A, P, Q, F>>
    <3>1. PICK x, y, z, w : x = <<A>> /\ y = <<P>> /\ z = <<Q>> /\ w = <<F>>
      OBVIOUS
    <3>2. x \in Seq(S) /\ y \in Seq(S) /\ z \in Seq(S) /\ w \in Seq(S) /\ seqs = <<x, y, z, w>>
      BY <1>14, <2>4, <3>1
    <3>3. /\ FlattenSeq(<<x, y, z, w>>) = FlattenSeq(<<x, y, z>>) \o w
          /\ FlattenSeq(<<x, y, z>>) = FlattenSeq(<<x, y>>) \o z /\ FlattenSeq(<<x, y>>) = x \o y
      <4>1. FlattenSeq(<<x, y, z, w>>) = FlattenSeq(<<x, y, z>>) \o w
        BY ZenonT(60), <3>2, FlattenFour
      <4>2. FlattenSeq(<<x, y, z>>) = FlattenSeq(<<x, y>>) \o z
        BY Zenon, <3>2, FlattenThree
      <4>3. FlattenSeq(<<x, y>>) = x \o y
        BY Zenon, <3>2, FlattenTwo
      <4>4. QED BY <4>1, <4>2, <4>3
    <3>4. x \o y = <<A, P>>
      BY Zenon, <3>1, OneOne
    <3>5. <<A, P>> \o z = <<A, P, Q>>
      BY Zenon, <3>1, TwoOne
    <3>6. <<A, P, Q>> \o w = <<A, P, Q, F>>
      BY Zenon, <3>1, ThreeOne
    <3>7. QED BY Zenon, <3>2, <3>3, <3>4, <3>5, <3>6
  <2>6. Continuation(events) = <<first, A, P, Q, F>>
    <3>1. Continuation(events) = <<first>> \o <<A, P, Q, F>>
      BY Zenon, <1>13, <2>5
    <3>2. QED BY Zenon, <3>1, OneFour
  <2>7. QED BY <1>5, <1>11, <2>3, <2>6 DEF Parents
<1>20. QED BY <1>15, <1>16, <1>17, <1>18, <1>19

\* A first message lacks nothing.
LEMMA FirstMessage ==
  ASSUME NEW n \in Messages, n.role = "user"
  PROVE  Begun(<<n>>) /\ Owes(<<n>>, <<>>)
<1>1. PICK m : m = <<n>>
  OBVIOUS
<1>2. m \in Seq(Messages) /\ m # <<>> /\ m[1] = n /\ DOMAIN m = {1}
  BY <1>1
<1>3. Assistants(m) = {}
  BY <1>2 DEF Assistants
<1>4. Begun(m) /\ Owes(m, <<>>)
  BY <1>2, <1>3 DEF Begun, Owes
<1>5. QED BY <1>1, <1>4

\* What such a turn makes of what stood before its first response.
Turns(m1) ==
  LET A(tools) == Append(m1, Assistant("toolUse", tools))
      whole == Append(Append(A(<<"p", "q">>), ToolResult("p")), ToolResult("q"))
  IN {m1, A(<<>>), Append(A(<<"p">>), ToolResult("p")), whole, Append(whole, Assistant("stop", <<>>))}

LEMMA TurnsFollow ==
  ASSUME NEW m1, Begun(m1), Owes(m1, <<>>), NEW m \in Turns(m1)
  PROVE  Begun(m) /\ Owes(m, <<>>)
<1>1. PICK P, Q, F, m2, m3, m4, m5, m6, m7 :
        /\ P = ToolResult("p") /\ Q = ToolResult("q") /\ F = Assistant("stop", <<>>)
        /\ m2 = Append(m1, Assistant("toolUse", <<>>))
        /\ m3 = Append(m1, Assistant("toolUse", <<"p">>)) /\ m4 = Append(m3, P)
        /\ m5 = Append(m1, Assistant("toolUse", <<"p", "q">>)) /\ m6 = Append(Append(m5, P), Q)
        /\ m7 = Append(m6, F)
  OBVIOUS
<1>2. m \in {m1, m2, m4, m6, m7}
  BY <1>1 DEF Turns
<1>3. "p" \in IDs /\ "q" \in IDs /\ "toolUse" \in Stops /\ "stop" \in Stops
  BY DEF IDs, Stops
<1>4. /\ <<>> \in Seq(IDs) /\ <<"p">> \in Seq(IDs) /\ <<"p", "q">> \in Seq(IDs) /\ <<"q">> \in Seq(IDs)
      /\ Distinct(<<>>) /\ Distinct(<<"p">>) /\ Distinct(<<"p", "q">>)
  BY <1>3 DEF Distinct
<1>5. Begun(m1) /\ Owes(m1, <<>>)
  OBVIOUS
<1>6. Begun(m2) /\ Owes(m2, <<>>)
  BY <1>1, <1>3, <1>4, <1>5, ResponseMore
<1>7. Begun(m4) /\ Owes(m4, <<>>)
  <2>1. Begun(m3) /\ Owes(m3, <<"p">>)
    BY <1>1, <1>3, <1>4, <1>5, ResponseMore
  <2>2. PICK q : q = <<"p">>
    OBVIOUS
  <2>3. q \in Seq(IDs) /\ q # <<>> /\ Head(q) = "p" /\ Tail(q) = <<>>
    BY <1>4, <2>2
  <2>4. m4 = Append(m3, ToolResult(Head(q)))
    BY <1>1, <2>3
  <2>5. Begun(m4) /\ Owes(m4, Tail(q))
    BY <2>1, <2>2, <2>3, <2>4, ResultMore
  <2>6. QED BY <2>3, <2>5
<1>8. Begun(m6) /\ Owes(m6, <<>>)
  <2>1. PICK q, r, l : q = <<"p", "q">> /\ r = <<"q">> /\ l = Append(m5, P)
    OBVIOUS
  <2>2. /\ q \in Seq(IDs) /\ q # <<>> /\ Head(q) = "p" /\ Tail(q) = r
        /\ r \in Seq(IDs) /\ r # <<>> /\ Head(r) = "q" /\ Tail(r) = <<>>
    BY <1>4, <2>1
  <2>3. Begun(m5) /\ Owes(m5, q)
    BY <1>1, <1>3, <1>4, <1>5, <2>1, ResponseMore
  <2>4. l = Append(m5, ToolResult(Head(q))) /\ m6 = Append(l, ToolResult(Head(r)))
    BY <1>1, <2>1, <2>2
  <2>5. Begun(l) /\ Owes(l, r)
    BY <2>2, <2>3, <2>4, ResultMore
  <2>6. Begun(m6) /\ Owes(m6, Tail(r))
    BY <2>2, <2>4, <2>5, ResultMore
  <2>7. QED BY <2>2, <2>6
<1>9. Begun(m7) /\ Owes(m7, <<>>)
  BY <1>1, <1>3, <1>4, <1>8, ResponseMore
<1>10. QED BY <1>2, <1>5, <1>6, <1>7, <1>8, <1>9

\* Appending behind what stands before.
LEMMA JoinMore ==
  ASSUME NEW g \in Seq(Messages), NEW t \in Seq(Messages), NEW x \in Messages
  PROVE  g \o Append(t, x) = Append(g \o t, x) /\ Append(t, x) \in Seq(Messages)
<1>1. Append(t, x) = t \o <<x>> /\ <<x>> \in Seq(Messages) /\ Append(t, x) \in Seq(Messages)
  BY AppendIsConcat
<1>2. g \o t \in Seq(Messages)
  BY ConcatProperties
<1>3. Append(g \o t, x) = (g \o t) \o <<x>>
  BY <1>2, AppendIsConcat
<1>4. (g \o t) \o <<x>> = g \o (t \o <<x>>)
  BY <1>1, ConcatAssociative
<1>5. QED BY <1>1, <1>3, <1>4

\* The same turn, after the turns before it.
LEMMA TurnsAfter ==
  ASSUME NEW g \in Seq(Messages), NEW m1 \in Seq(Messages), NEW m \in Turns(m1)
  PROVE  g \o m \in Turns(g \o m1)
<1>1. PICK A0, A1, A2, P, Q, F :
        /\ A0 = Assistant("toolUse", <<>>) /\ A1 = Assistant("toolUse", <<"p">>)
        /\ A2 = Assistant("toolUse", <<"p", "q">>)
        /\ P = ToolResult("p") /\ Q = ToolResult("q") /\ F = Assistant("stop", <<>>)
  OBVIOUS
<1>2. A0 \in Messages /\ A1 \in Messages /\ A2 \in Messages /\ P \in Messages /\ Q \in Messages /\ F \in Messages
  <2>1. "p" \in IDs /\ "q" \in IDs /\ "toolUse" \in Stops /\ "stop" \in Stops
    BY DEF IDs, Stops
  <2>2. <<>> \in Seq(IDs) /\ <<"p">> \in Seq(IDs) /\ <<"p", "q">> \in Seq(IDs)
    BY <2>1
  <2>3. QED BY <1>1, <2>1, <2>2 DEF Assistant, ToolResult, Messages
<1>3. PICK n, m2, m3, m4, m5, m6, m7, m8 :
        /\ n = g \o m1 /\ m2 = Append(m1, A0)
        /\ m3 = Append(m1, A1) /\ m4 = Append(m3, P)
        /\ m5 = Append(m1, A2) /\ m6 = Append(m5, P) /\ m7 = Append(m6, Q) /\ m8 = Append(m7, F)
  OBVIOUS
<1>4. m \in {m1, m2, m4, m7, m8}
  BY <1>1, <1>3 DEF Turns
<1>5. g \o m2 = Append(n, A0)
  <2>1. m1 \in Seq(Messages) /\ A0 \in Messages
    BY <1>2
  <2>2. g \o Append(m1, A0) = Append(g \o m1, A0) /\ Append(m1, A0) \in Seq(Messages)
    BY <2>1, JoinMore
  <2>3. QED BY <1>3, <2>2
<1>6. g \o m3 = Append(n, A1) /\ m3 \in Seq(Messages)
  <2>1. m1 \in Seq(Messages) /\ A1 \in Messages
    BY <1>2
  <2>2. g \o Append(m1, A1) = Append(g \o m1, A1) /\ Append(m1, A1) \in Seq(Messages)
    BY <2>1, JoinMore
  <2>3. QED BY <1>3, <2>2
<1>7. g \o m4 = Append(Append(n, A1), P)
  <2>1. m3 \in Seq(Messages) /\ P \in Messages
    BY <1>2, <1>6
  <2>2. g \o Append(m3, P) = Append(g \o m3, P) /\ Append(m3, P) \in Seq(Messages)
    BY <2>1, JoinMore
  <2>3. QED BY <1>3, <2>2, <1>6
<1>8. g \o m5 = Append(n, A2) /\ m5 \in Seq(Messages)
  <2>1. m1 \in Seq(Messages) /\ A2 \in Messages
    BY <1>2
  <2>2. g \o Append(m1, A2) = Append(g \o m1, A2) /\ Append(m1, A2) \in Seq(Messages)
    BY <2>1, JoinMore
  <2>3. QED BY <1>3, <2>2
<1>9. g \o m6 = Append(Append(n, A2), P) /\ m6 \in Seq(Messages)
  <2>1. m5 \in Seq(Messages) /\ P \in Messages
    BY <1>2, <1>8
  <2>2. g \o Append(m5, P) = Append(g \o m5, P) /\ Append(m5, P) \in Seq(Messages)
    BY <2>1, JoinMore
  <2>3. QED BY <1>3, <2>2, <1>8
<1>10. g \o m7 = Append(Append(Append(n, A2), P), Q) /\ m7 \in Seq(Messages)
  <2>1. m6 \in Seq(Messages) /\ Q \in Messages
    BY <1>2, <1>9
  <2>2. g \o Append(m6, Q) = Append(g \o m6, Q) /\ Append(m6, Q) \in Seq(Messages)
    BY <2>1, JoinMore
  <2>3. QED BY <1>3, <2>2, <1>9
<1>11. g \o m8 = Append(Append(Append(Append(n, A2), P), Q), F)
  <2>1. m7 \in Seq(Messages) /\ F \in Messages
    BY <1>2, <1>10
  <2>2. g \o Append(m7, F) = Append(g \o m7, F) /\ Append(m7, F) \in Seq(Messages)
    BY <2>1, JoinMore
  <2>3. QED BY <1>3, <2>2, <1>10
<1>12. Turns(n) = {n, Append(n, A0), Append(Append(n, A1), P), Append(Append(Append(n, A2), P), Q),
                   Append(Append(Append(Append(n, A2), P), Q), F)}
  BY <1>1 DEF Turns
<1>13. g \o m \in Turns(n)
  BY <1>3, <1>4, <1>5, <1>7, <1>10, <1>11, <1>12
<1>14. QED BY <1>3, <1>13

\* Each of these begins a conversation that lacks nothing.
LEMMA ParentsBegin ==
  ASSUME NEW before \in Before, NEW m \in Parents
  PROVE  Begun(before \o m) /\ Owes(before \o m, <<>>)
<1>1. PICK first, m1 : first = User("earlier") /\ m1 = <<first>>
  OBVIOUS
<1>2. first \in Messages /\ first.role = "user" /\ m1 \in Seq(Messages)
  BY <1>1 DEF Messages, User
<1>3. Begun(m1) /\ Owes(m1, <<>>)
  BY <1>1, <1>2, FirstMessage
<1>4. m \in Turns(m1)
  BY <1>1 DEF Parents, Turns
<1>5. CASE before = <<>>
  <2>1. Begun(m) /\ Owes(m, <<>>)
    BY <1>3, <1>4, TurnsFollow
  <2>2. m \in Seq(Messages)
    BY <2>1 DEF Begun
  <2>3. <<>> \o m = m
    BY <2>2, ConcatEmptySeq
  <2>4. QED BY <1>5, <2>1, <2>3
<1>6. CASE before # <<>>
  <2>1. PICK F, g : F = Assistant("stop", <<>>) /\ g = Append(m1, F)
    OBVIOUS
  <2>2. before = g
    BY <1>1, <1>6, <2>1 DEF Before
  <2>3. Begun(g) /\ Owes(g, <<>>)
    <3>1. "stop" \in Stops /\ <<>> \in Seq(IDs) /\ Distinct(<<>>)
      BY DEF Stops, Distinct
    <3>2. QED BY <1>3, <2>1, <3>1, ResponseMore
  <2>4. g \in Seq(Messages)
    BY <2>3 DEF Begun
  <2>5. g \o m1 = Append(g, first)
    BY <1>1, <1>2, <2>4, AppendIsConcat
  <2>6. Begun(g \o m1) /\ Owes(g \o m1, <<>>)
    BY <1>2, <2>3, <2>5, UserMore
  <2>7. g \o m \in Turns(g \o m1)
    BY <1>2, <1>4, <2>4, TurnsAfter
  <2>8. QED BY <2>2, <2>6, <2>7, TurnsFollow
<1>7. QED BY <1>5, <1>6
-----------------------------------------------------------------------------
(* The transcript, step by step.                                           *)
\* The transcript and what is logged depend on the log and on what stood before it.
LEMMA HistoryStays ==
  ASSUME Logged, UNCHANGED <<log, prior>>
  PROVE  Logged' /\ History' = History
<1>1. LatestCheckpoint' = LatestCheckpoint
  BY DEF LatestCheckpoint, At, Latest
<1>2. QED BY <1>1 DEF History, Logged

\* Two entries that are no checkpoints add their messages to the transcript.
LEMMA HistoryAppendsTwo ==
  ASSUME Logged, NEW e, NEW f, log' = Append(Append(log, e), f), UNCHANGED prior,
         e.type # "context.checkpoint", f.type # "context.checkpoint",
         Message(e) \in Seq(Messages), Message(f) \in Seq(Messages)
  PROVE  Logged' /\ History' = (History \o Message(e)) \o Message(f)
<1>1. PICK n, l, c : n = Len(log) /\ l = Append(log, e) /\ c = LatestCheckpoint
  OBVIOUS
<1>2. /\ IsSequence(l) /\ n \in Nat /\ DOMAIN log = 1 .. n /\ Len(l) = n + 1
      /\ DOMAIN l = 1 .. n + 1 /\ l[n + 1] = e /\ \A i \in 1 .. n : l[i] = log[i]
  BY <1>1, Appended DEF Logged
<1>3. /\ IsSequence(log') /\ DOMAIN log' = 1 .. n + 2 /\ log'[n + 2] = f /\ log'[n + 1] = e
      /\ \A i \in 1 .. n : log'[i] = log[i]
  <2>1. log' = Append(l, f)
    BY <1>1
  <2>2. /\ IsSequence(log') /\ DOMAIN log' = 1 .. Len(l) + 1 /\ log'[Len(l) + 1] = f
        /\ \A i \in 1 .. Len(l) : log'[i] = l[i]
    BY <1>2, <2>1, Appended
  <2>3. Len(l) + 1 = n + 2 /\ n + 1 \in 1 .. Len(l) /\ \A i \in 1 .. n : i \in 1 .. Len(l)
    BY <1>2
  <2>4. QED BY <1>2, <2>2, <2>3
<1>4. \A i : i \in 1 .. n + 2 <=> i \in 1 .. n \/ i = n + 1 \/ i = n + 2
  BY <1>2
<1>5. Logged'
  BY <1>2, <1>3, <1>4 DEF Logged
<1>6. At("context.checkpoint")' = At("context.checkpoint")
  BY <1>2, <1>3, <1>4 DEF At
<1>7. LatestCheckpoint' = c
  <2>1. CASE At("context.checkpoint") = {}
    BY <1>1, <1>6, <2>1 DEF LatestCheckpoint
  <2>2. CASE At("context.checkpoint") # {}
    <3>1. Latest("context.checkpoint") \in At("context.checkpoint")
      BY <2>2, LatestIs DEF Logged
    <3>2. Latest("context.checkpoint") \in 1 .. n
      BY <1>2, <3>1 DEF At
    <3>3. Latest("context.checkpoint")' = Latest("context.checkpoint")
      BY <1>6 DEF Latest
    <3>4. LatestCheckpoint = log[Latest("context.checkpoint")]
      BY <2>2 DEF LatestCheckpoint
    <3>5. LatestCheckpoint' = log'[Latest("context.checkpoint")']
      BY <1>6, <2>2 DEF LatestCheckpoint
    <3>6. QED BY <1>1, <1>3, <3>2, <3>3, <3>4, <3>5
  <2>3. QED BY <2>1, <2>2
<1>8. c.messages \in Seq(Messages) /\ c.highWater \in 0 .. Len(log) /\ c.highWater \in 0 .. Len(l)
  <2>1. c.messages \in Seq(Messages) /\ c.highWater \in 0 .. n
    BY <1>1, CheckpointIs
  <2>2. QED BY <1>1, <1>2, <2>1
<1>9. \A i \in DOMAIN log : Message(log[i]) \in Seq(Messages)
  BY DEF Logged
<1>10. Projection(c, l) = Projection(c, log) \o Message(e)
  BY <1>1, <1>8, <1>9, ProjectionMore DEF Logged
<1>11. \A i \in DOMAIN l : Message(l[i]) \in Seq(Messages)
  <2>1. \A i : i \in 1 .. n + 1 <=> i \in 1 .. n \/ i = n + 1
    BY <1>2
  <2>2. QED BY <1>2, <1>9, <2>1
<1>12. Projection(c, log') = Projection(c, l) \o Message(f)
  <2>1. Projection(c, Append(l, f)) = Projection(c, l) \o Message(f)
    BY <1>2, <1>8, <1>11, ProjectionMore
  <2>2. QED BY <1>1, <2>1
<1>13. History' = Projection(LatestCheckpoint', log')
  BY DEF History, Projection
<1>14. QED BY <1>1, <1>5, <1>7, <1>10, <1>12, <1>13, HistoryIs

\* How a transcript ends: with a response that calls tools, with the final one, or with a
\* message of another kind.
Ends(m) == m[Len(m)].role = "assistant" => m[Len(m)].tools # <<>> \/ m[Len(m)].stop = "stop"
Asked(m) == m[Len(m)].role = "assistant" => m[Len(m)].tools # <<>>

\* A transcript that lacks the results of these calls, and begins as the conversation did.
Lacks(m, q, first) ==
  q \in Seq(IDs) /\ Begun(m) /\ Owes(m, q) /\ Ends(m) /\ m[1] = first

\* TranscriptIsWhole is not inductive alone: a request is whole because at every moment the
\* transcript lacks the results of just the calls in the queue, wherever the turn is.
Lacking(q) ==
  /\ Lacks(History, q, Append(prior, User("prompt"))[1])
  /\ pc \in {"tools", "working", "publishing"} => queue = q
  /\ pc = "waiting" => q = <<>> /\ History[Len(History)].role # "assistant"
  /\ pc \in {"working", "publishing"} => q # <<>>
  /\ pc = "tools" /\ answer = "none" => Asked(History)
Talking == Logged /\ \E q : Lacking(q)

\* What comes last when a message is added, and what comes first.
LEMMA AddedLast ==
  ASSUME NEW m, NEW n \in Messages, Begun(m)
  PROVE  /\ Append(m, n)[Len(Append(m, n))] = n /\ Append(m, n)[1] = m[1]
         /\ m \o <<n>> = Append(m, n)
<1>1. PICK x : x = Append(m, n)
  OBVIOUS
<1>2. Extends(m, x, n)
  BY <1>1, ExtendsIs DEF Begun
<1>3. 1 \in 1 .. Len(m)
  BY <1>2, EmptySeq DEF Extends, Begun
<1>4. x[Len(x)] = n /\ x[1] = m[1]
  BY <1>2, <1>3 DEF Extends
<1>5. m \o <<n>> = x
  BY <1>1, AppendIsConcat DEF Begun
<1>6. QED BY <1>1, <1>4, <1>5

\* An entry without a message changes nothing in the transcript.
LEMMA SilentEntry ==
  ASSUME Logged, NEW e, log' = Append(log, e), UNCHANGED prior, e.type # "context.checkpoint",
         Message(e) = <<>>
  PROVE  Logged' /\ History' = History
<1>1. Message(e) \in Seq(Messages)
  OBVIOUS
<1>2. Logged' /\ History' = History \o Message(e)
  BY <1>1, HistoryAppends
<1>3. QED BY <1>2, HistoryTyped, ConcatEmptySeq

\* The calls a response may make are different ones.
LEMMA ChosenAre ==
  ASSUME NEW tools \in Chosen
  PROVE  tools \in Seq(IDs) /\ Distinct(tools)
<1>1. CASE tools = <<>>
  BY <1>1 DEF Distinct
<1>2. ASSUME NEW a \in Tools, tools = <<a>>
      PROVE  tools \in Seq(IDs) /\ Distinct(tools)
  <2>1. a \in IDs
    BY DEF IDs
  <2>2. QED BY <1>2, <2>1 DEF Distinct
<1>3. ASSUME NEW a \in Tools, NEW b \in Tools, a # b, tools = <<a, b>>
      PROVE  tools \in Seq(IDs) /\ Distinct(tools)
  <2>1. a \in IDs /\ b \in IDs
    BY DEF IDs
  <2>2. tools \in Seq(IDs) /\ DOMAIN tools = {1, 2} /\ tools[1] = a /\ tools[2] = b
    BY <1>3, <2>1
  <2>3. QED BY <1>3, <2>2 DEF Distinct
<1>4. tools = <<>> \/ (\E a \in Tools : tools = <<a>>) \/ \E a, b \in Tools : a # b /\ tools = <<a, b>>
  BY DEF Chosen
<1>5. QED BY <1>1, <1>2, <1>3, <1>4

\* A new iteration lacks what the one before it did, compacted or not.
LEMMA BeginLacks ==
  ASSUME NEW compacts \in BOOLEAN, Talking, Begin(compacts)
  PROVE  Talking'
<1>1. PICK q : Lacking(q)
  BY DEF Talking
<1>2. PICK m, n, first : m = History /\ n = History' /\ first = Append(prior, User("prompt"))[1]
  OBVIOUS
<1>3. Lacks(m, q, first) /\ Logged
  BY <1>1, <1>2 DEF Lacking, Talking
<1>4. queue' = q
  <2>1. Missing = q
    BY <1>2, <1>3, MissingIs DEF Lacks
  <2>2. QED BY <2>1 DEF Begin
<1>5. Logged' /\ Begun(n) /\ Owes(n, q) /\ n[1] = m[1] /\ n[Len(n)] = m[Len(m)]
  <2>1. CASE compacts
    <3>1. MayCompact /\ log' = Append(log, Checkpoint) /\ UNCHANGED prior
      BY <2>1 DEF Begin
    <3>2. Logged' /\ n = CompactContext(m)
      BY <1>2, <1>3, <3>1, HistoryCompacts
    <3>3. Cardinality(Assistants(m)) >= 3
      BY <1>2, <3>1 DEF MayCompact
    <3>4. /\ Begun(CompactContext(m)) /\ Owes(CompactContext(m), q)
          /\ CompactContext(m)[1] = m[1]
          /\ CompactContext(m)[Len(CompactContext(m))] = m[Len(m)]
      BY <1>3, <3>3, CompactedKeeps DEF Lacks
    <3>5. QED BY <3>2, <3>4
  <2>2. CASE ~compacts
    <3>1. UNCHANGED <<log, prior>>
      BY <2>2 DEF Begin
    <3>2. Logged' /\ n = m
      BY <1>2, <1>3, <3>1, HistoryStays
    <3>3. QED BY <1>3, <3>2 DEF Lacks
  <2>3. QED BY <2>1, <2>2
<1>6. Lacks(n, q, first) /\ (Asked(m) => Asked(n))
  BY <1>3, <1>5 DEF Lacks, Ends, Asked
<1>7. CASE Answered
  <2>1. pc' = "returned" /\ UNCHANGED prior
    BY <1>7 DEF Begin
  <2>2. Lacking(q)'
    BY <1>2, <1>6, <2>1 DEF Lacking
  <2>3. QED BY <1>5, <2>2 DEF Talking
<1>8. CASE ~Answered
  <2>1. pc' = "tools" /\ UNCHANGED prior
    BY <1>8 DEF Begin
  <2>2. Asked(m)
    <3>1. SUFFICES ASSUME m[Len(m)].role = "assistant", m[Len(m)].tools = <<>>
                   PROVE  FALSE
      BY DEF Asked
    <3>2. m[Len(m)].stop = "stop"
      BY <1>3, <3>1 DEF Lacks, Ends
    <3>3. m \in Seq(Messages) /\ m # <<>>
      BY <1>3 DEF Lacks, Begun
    <3>4. Pending /\ LastResponse = m[Len(m)]
      BY <1>2, <3>1, <3>3, LastIsPending
    <3>5. QED BY <1>8, <3>2, <3>4 DEF Answered
  <2>3. Lacking(q)'
    BY <1>2, <1>4, <1>6, <2>1, <2>2 DEF Lacking
  <2>4. QED BY <1>5, <2>3 DEF Talking
<1>9. QED BY <1>7, <1>8

\* A request is sent when nothing is lacking and the model has the word.
LEMMA AskLacks ==
  ASSUME Talking, Ask
  PROVE  Talking'
<1>1. PICK q : Lacking(q)
  BY DEF Talking
<1>2. pc = "tools" /\ queue = <<>> /\ answer = "none" /\ pc' = "waiting" /\ UNCHANGED prior
  BY DEF Ask
<1>3. q = <<>> /\ Asked(History)
  BY <1>1, <1>2 DEF Lacking
<1>4. PICK e : log' = Append(log, e) /\ e.type = "model.started"
  <2>1. PICK call : log' = Append(log, [type |-> "model.started", call |-> call])
    BY DEF Ask
  <2>2. [type |-> "model.started", call |-> call].type = "model.started"
    OBVIOUS
  <2>3. QED BY <2>1, <2>2
<1>5. Logged' /\ History' = History
  <2>1. Message(e) = <<>> /\ e.type # "context.checkpoint"
    BY <1>4 DEF Message
  <2>2. QED BY <1>2, <1>4, <2>1, SilentEntry DEF Talking
<1>6. PICK m, z : m = History /\ z = Len(m)
  OBVIOUS
<1>7. Begun(m) /\ Owes(m, <<>>) /\ m \in Seq(Messages) /\ z \in Nat /\ z \in 1 .. z /\ DOMAIN m = 1 .. z
  <2>1. Begun(m) /\ Owes(m, <<>>)
    BY <1>1, <1>3, <1>6 DEF Lacking, Lacks
  <2>2. m \in Seq(Messages) /\ m # <<>>
    BY <2>1 DEF Begun
  <2>3. z \in Nat /\ z # 0 /\ DOMAIN m = 1 .. z
    BY <1>6, <2>2, LenProperties, EmptySeq
  <2>4. QED BY <2>1, <2>2, <2>3
<1>8. m[z].role # "assistant"
  <2>1. SUFFICES ASSUME m[z].role = "assistant"
                 PROVE  FALSE
    OBVIOUS
  <2>2. z \in Assistants(m) /\ m[z].tools # <<>>
    BY <1>3, <1>6, <1>7, <2>1 DEF Asked, Assistants
  <2>3. m[z].tools \in Seq(IDs) /\ Len(m[z].tools) \in Nat
    BY <1>7, <2>2, ResponseIs
  <2>4. Len(<<>>) = 0
    OBVIOUS
  <2>5. z + Len(m[z].tools) <= z + 0
    BY <1>6, <1>7, <2>2, <2>4 DEF Owes
  <2>6. Len(m[z].tools) = 0
    BY <1>7, <2>3, <2>5
  <2>7. QED BY <2>2, <2>3, <2>6, EmptySeq
<1>9. Lacking(q)'
  BY <1>1, <1>2, <1>3, <1>5, <1>6, <1>8 DEF Lacking
<1>10. QED BY <1>5, <1>9 DEF Talking

\* After a response the transcript lacks the results of its calls; after an error it lacks
\* nothing, as before.
LEMMA RespondLacks ==
  ASSUME NEW stop \in Stops, NEW tools \in Chosen, Talking, Respond(stop, tools)
  PROVE  Talking'
<1>1. PICK q : Lacking(q)
  BY DEF Talking
<1>2. /\ pc = "waiting" /\ UNCHANGED prior /\ queue' = tools /\ answer' = stop
      /\ pc' = IF stop \in Uncertain THEN "returned" ELSE "tools"
  BY DEF Respond
<1>3. q = <<>>
  BY <1>1, <1>2 DEF Lacking
<1>4. PICK call : log' = log \o Settlement(call, stop, tools)
  BY DEF Respond
<1>5. PICK m, first : m = History /\ first = Append(prior, User("prompt"))[1]
  OBVIOUS
<1>6. Lacks(m, <<>>, first) /\ Logged
  BY <1>1, <1>3, <1>5 DEF Lacking, Talking
<1>7. tools \in Seq(IDs) /\ Distinct(tools)
  BY ChosenAre
<1>8. /\ stop = "toolUse" => tools # <<>>
      /\ stop \notin {"toolUse", "length"} => tools = <<>>
      /\ stop # "none"
  BY DEF Respond, Requested, Stops
<1>9. IsSequence(log)
  BY DEF Talking, Logged
<1>10. CASE stop \in Uncertain
  <2>1. PICK e : e = Unknown(call)
    OBVIOUS
  <2>2. log' = Append(log, e)
    BY <1>4, <1>9, <1>10, <2>1, SettlementIs
  <2>3. Message(e) = <<>> /\ e.type # "context.checkpoint"
    BY <2>1 DEF Unknown, Message
  <2>4. Logged' /\ History' = m
    BY <1>2, <1>5, <1>6, <2>2, <2>3, SilentEntry
  <2>5. pc' = "returned"
    BY <1>2, <1>10
  <2>6. Lacking(<<>>)'
    BY <1>2, <1>5, <1>6, <2>4, <2>5 DEF Lacking
  <2>7. QED BY <2>4, <2>6 DEF Talking
<1>11. CASE stop \notin Uncertain
  <2>1. PICK e, r : e = Known(call, stop, tools) /\ r = Assistant(stop, tools)
    OBVIOUS
  <2>2. e.type = "model.call" /\ e.stop = stop /\ e.tools = tools
    BY <2>1 DEF Known
  <2>3. Message(e) = <<r>> /\ e.type # "context.checkpoint"
    BY <2>1, <2>2 DEF Message
  <2>4. r \in Messages /\ r.role = "assistant" /\ r.tools = tools /\ r.stop = stop
    BY <1>7, <2>1 DEF Messages, Assistant
  <2>5. Message(e) \in Seq(Messages)
    BY <2>3, <2>4
  <2>6. PICK l : l = Append(m, r)
    OBVIOUS
  <2>7. Begun(l) /\ Owes(l, tools)
    BY <1>6, <1>7, <2>1, <2>6, ResponseMore DEF Lacks
  <2>8. l[Len(l)] = r /\ l[1] = first /\ m \o Message(e) = l
    <3>1. Begun(m) /\ m[1] = first
      BY <1>6 DEF Lacks
    <3>2. l[Len(l)] = r /\ l[1] = m[1] /\ m \o <<r>> = l
      BY <2>4, <2>6, <3>1, AddedLast
    <3>3. QED BY <2>3, <3>1, <3>2
  <2>9. pc' = "tools"
    BY <1>2, <1>11
  <2>10. CASE ~(stop = "length" /\ tools = <<>>)
    <3>1. log' = Append(log, e)
      BY <1>4, <1>9, <1>11, <2>1, <2>10, SettlementIs
    <3>2. Logged' /\ History' = l
      <4>1. Logged' /\ History' = History \o Message(e)
        BY <1>2, <1>6, <2>3, <2>5, <3>1, HistoryAppends
      <4>2. QED BY <1>5, <2>8, <4>1
    <3>3. stop = "stop" \/ tools # <<>>
      BY <1>8, <1>11, <2>10 DEF Stops, Uncertain
    <3>4. Lacks(l, tools, first)
      BY <1>7, <2>4, <2>7, <2>8, <3>3 DEF Lacks, Ends
    <3>5. Lacking(tools)'
      BY <1>2, <1>5, <1>8, <2>9, <3>2, <3>4 DEF Lacking
    <3>6. QED BY <3>2, <3>5 DEF Talking
  <2>11. CASE stop = "length" /\ tools = <<>>
    <3>1. PICK f, u, k : f = More /\ u = User("continue") /\ k = Append(l, u)
      OBVIOUS
    <3>2. log' = Append(Append(log, e), f)
      BY <1>4, <1>9, <1>11, <2>1, <2>11, <3>1, SettlementIs
    <3>3. Message(f) = <<u>> /\ f.type # "context.checkpoint"
      BY <3>1 DEF More, Message
    <3>4. u \in Messages /\ u.role = "user"
      BY <3>1 DEF User, Messages
    <3>5. Message(f) \in Seq(Messages)
      BY <3>3, <3>4
    <3>6. Logged' /\ History' = (m \o Message(e)) \o Message(f)
      <4>1. Logged' /\ History' = (History \o Message(e)) \o Message(f)
        BY <1>2, <1>6, <2>3, <2>5, <3>2, <3>3, <3>5, HistoryAppendsTwo
      <4>2. QED BY <1>5, <4>1
    <3>7. Begun(k) /\ Owes(k, <<>>)
      BY <2>7, <2>11, <3>1, <3>4, UserMore
    <3>8. k[Len(k)] = u /\ k[1] = first /\ l \o <<u>> = k
      BY <2>7, <2>8, <3>1, <3>4, AddedLast
    <3>9. History' = k
      BY <2>8, <3>3, <3>6, <3>8
    <3>10. Lacks(k, <<>>, first)
      BY <3>4, <3>7, <3>8 DEF Lacks, Ends
    <3>11. Lacking(<<>>)'
      BY <1>2, <1>5, <1>8, <2>9, <2>11, <3>9, <3>10 DEF Lacking
    <3>12. QED BY <3>6, <3>11 DEF Talking
  <2>12. QED BY <2>10, <2>11
<1>12. QED BY <1>10, <1>11

\* A result takes the first call off the queue and off what the transcript lacks.
LEMMA PublishLacks ==
  ASSUME Talking, Publish
  PROVE  Talking'
<1>1. PICK q : Lacking(q)
  BY DEF Talking
<1>2. pc = "publishing" /\ UNCHANGED prior /\ queue' = Tail(queue) /\ pc' = "tools"
  BY DEF Publish
<1>3. q # <<>> /\ queue = q
  BY <1>1, <1>2 DEF Lacking
<1>4. PICK m, first, t, n : /\ m = History /\ first = Append(prior, User("prompt"))[1]
                            /\ t = Tail(q) /\ n = ToolResult(Head(q))
  OBVIOUS
<1>5. Lacks(m, q, first) /\ Logged
  BY <1>1, <1>4 DEF Lacking, Talking
<1>6. q \in Seq(IDs) /\ Head(q) \in IDs /\ t \in Seq(IDs) /\ Begun(m) /\ Owes(m, q) /\ m[1] = first
  BY <1>3, <1>4, <1>5, HeadTailProperties DEF Lacks
<1>7. n \in Messages /\ n.role = "toolResult"
  BY <1>4, <1>6 DEF Messages, ToolResult
<1>8. PICK e : log' = Append(log, e) /\ e.type = "tool.result" /\ e.tool = Head(q)
  <2>1. PICK r : r = [type |-> "tool.result", tool |-> Head(queue), refused |-> stopReason = "length"]
    OBVIOUS
  <2>2. log' = Append(log, r) /\ r.type = "tool.result" /\ r.tool = Head(q)
    BY <1>3, <2>1 DEF Publish
  <2>3. QED BY <2>2
<1>9. Message(e) = <<n>> /\ e.type # "context.checkpoint"
  BY <1>4, <1>8 DEF Message
<1>10. PICK l : l = Append(m, n)
  OBVIOUS
<1>11. Logged' /\ History' = l
  <2>1. Message(e) \in Seq(Messages)
    BY <1>7, <1>9
  <2>2. Logged' /\ History' = History \o Message(e)
    BY <1>2, <1>5, <1>8, <1>9, <2>1, HistoryAppends
  <2>3. m \o <<n>> = l
    BY <1>6, <1>7, <1>10, AddedLast
  <2>4. QED BY <1>4, <1>9, <2>2, <2>3
<1>12. l[Len(l)] = n /\ l[1] = first
  BY <1>6, <1>7, <1>10, AddedLast
<1>13. Begun(l) /\ Owes(l, t)
  BY <1>3, <1>4, <1>6, <1>10, ResultMore
<1>14. Lacks(l, t, first) /\ Asked(l)
  BY <1>6, <1>7, <1>12, <1>13 DEF Lacks, Ends, Asked
<1>15. Lacking(t)'
  BY <1>2, <1>3, <1>4, <1>11, <1>14 DEF Lacking
<1>16. QED BY <1>11, <1>15 DEF Talking

\* Every step keeps the transcript lacking just the calls in the queue.
LEMMA TalkingStep == Talking /\ [Next]_vars => Talking'
<1> SUFFICES ASSUME Talking, [Next]_vars
             PROVE  Talking'
  OBVIOUS
<1>1. PICK q : Lacking(q)
  BY DEF Talking
<1>2. ASSUME UNCHANGED <<log, prior>>, pc' \in {"returned", "failing", "loop", "off"}
      PROVE  Talking'
  <2>1. Logged' /\ History' = History
    BY <1>2, HistoryStays DEF Talking
  <2>2. Lacking(q)'
    BY <1>1, <1>2, <2>1 DEF Lacking
  <2>3. QED BY <2>1, <2>2 DEF Talking
<1>3. ASSUME NEW compacts \in BOOLEAN, Begin(compacts)
      PROVE  Talking'
  BY <1>3, BeginLacks
<1>4. CASE Ask
  BY <1>4, AskLacks
<1>5. ASSUME NEW stop \in Stops, NEW tools \in Chosen, Respond(stop, tools)
      PROVE  Talking'
  BY <1>5, RespondLacks
<1>6. CASE StartTool
  <2>1. pc = "tools" /\ queue # <<>> /\ pc' = "working" /\ UNCHANGED <<prior, queue>>
    BY <1>6 DEF StartTool
  <2>2. PICK e : log' = Append(log, e) /\ e.type = "tool.started"
    <3>1. [type |-> "tool.started", tool |-> Head(queue)].type = "tool.started"
      OBVIOUS
    <3>2. QED BY <1>6, <3>1 DEF StartTool
  <2>3. Message(e) = <<>> /\ e.type # "context.checkpoint"
    BY <2>2 DEF Message
  <2>4. Logged' /\ History' = History
    BY <2>1, <2>2, <2>3, SilentEntry DEF Talking
  <2>5. Lacking(q)'
    BY <1>1, <2>1, <2>4 DEF Lacking
  <2>6. QED BY <2>4, <2>5 DEF Talking
<1>7. CASE RefuseTool \/ EndTool
  <2>1. /\ (pc = "tools" /\ queue # <<>>) \/ pc = "working"
        /\ pc' = "publishing" /\ UNCHANGED <<log, prior, queue>>
    BY <1>7 DEF RefuseTool, EndTool
  <2>2. Logged' /\ History' = History
    BY <2>1, HistoryStays DEF Talking
  <2>3. Lacking(q)'
    BY <1>1, <2>1, <2>2 DEF Lacking
  <2>4. QED BY <2>2, <2>3 DEF Talking
<1>8. CASE Publish
  BY <1>8, PublishLacks
<1>9. CASE \/ Return \/ ObserveAbort \/ Fault \/ Continue \/ FinishAnswered \/ FinishFailed
           \/ Crash \/ ResumeTurn
  <2>1. /\ UNCHANGED <<log, prior>>
        /\ pc' \in {"returned", "failing", "loop", "off"}
    BY <1>9 DEF Return, ObserveAbort, Fault, Continue, FinishAnswered, FinishFailed, Finish,
                Crash, ResumeTurn
  <2>2. QED BY <1>2, <2>1
<1>10. CASE (\E why \in {"stop", "close"} : Abort(why)) \/ UNCHANGED vars
  <2>1. UNCHANGED <<log, prior, pc, queue, answer>>
    BY <1>10 DEF Abort, vars, process
  <2>2. Logged' /\ History' = History
    BY <2>1, HistoryStays DEF Talking
  <2>3. Lacking(q)'
    BY <1>1, <2>1, <2>2 DEF Lacking
  <2>4. QED BY <2>2, <2>3 DEF Talking
<1>11. QED
  BY <1>3, <1>4, <1>5, <1>6, <1>7, <1>8, <1>9, <1>10 DEF Next, Executor

\* The turn starts from a transcript that lacks nothing, whatever became of the one before.
LEMMA TalkingInit == Init => Talking
<1> SUFFICES ASSUME Init
             PROVE  Talking
  OBVIOUS
<1>1. PICK n, m : n = User("prompt") /\ m = Append(prior, n)
  OBVIOUS
<1>2. n \in Messages /\ n.role = "user"
  BY <1>1 DEF Messages, User
<1>3. prior \in Seq(Messages) /\ Begun(m) /\ Owes(m, <<>>)
  <2>1. CASE prior = <<>>
    <3>1. m = <<n>>
      BY <1>1, <2>1
    <3>2. QED BY <1>2, <2>1, <3>1, FirstMessage
  <2>2. CASE prior # <<>>
    <3>1. PICK before \in Before, events \in ParentLogs : prior = before \o Continuation(events)
      BY <2>2 DEF Init
    <3>2. Begun(prior) /\ Owes(prior, <<>>)
      BY <3>1, ContinuationsAre, ParentsBegin
    <3>3. prior \in Seq(Messages)
      BY <3>2, Zenon DEF Begun
    <3>4. Begun(Append(prior, n)) /\ Owes(Append(prior, n), <<>>)
      BY <1>2, <3>2, UserMore, Zenon
    <3>5. QED BY <1>1, <3>3, <3>4, Zenon
  <2>3. QED BY <2>1, <2>2
<1>4. log = <<>> /\ Len(log) = 0 /\ DOMAIN log = {}
  BY DEF Init
<1>5. IsSequence(log)
  BY <1>4, EmptySeq, SequenceOf
<1>6. Logged
  BY <1>3, <1>4, <1>5 DEF Logged
<1>7. History = m
  <2>1. PICK c : c = LatestCheckpoint
    OBVIOUS
  <2>2. At("context.checkpoint") = {}
    BY <1>4 DEF At
  <2>3. c.messages = m /\ c.highWater = Len(log)
    BY <1>1, <1>4, <2>1, <2>2 DEF LatestCheckpoint
  <2>4. m \in Seq(Messages)
    BY <1>3 DEF Begun
  <2>5. Projection(c, log) = m
    BY <1>5, <2>3, <2>4, ProjectionOfAll
  <2>6. QED BY <2>1, <2>5, HistoryIs
<1>8. m[Len(m)].role = "user"
  <2>1. Extends(prior, m, n)
    BY <1>1, <1>2, <1>3, ExtendsIs
  <2>2. QED BY <1>2, <2>1 DEF Extends
<1>9. Lacks(m, <<>>, m[1])
  BY <1>3, <1>8 DEF Lacks, Ends
<1>10. pc = "loop"
  BY DEF Init
<1>11. Lacking(<<>>)
  BY <1>1, <1>7, <1>9, <1>10 DEF Lacking
<1>12. QED BY <1>6, <1>11 DEF Talking

\* In every state the transcript lacks the results of just the calls in the queue: wherever
\* a turn is stopped, killed or compacted, what is rebuilt from its log can go on.
THEOREM TranscriptsGoOn == Spec => []Talking
  BY TalkingInit, TalkingStep, PTL DEF Spec

\* Every transcript the model is sent is one it can answer: the first message of the
\* conversation, every response followed by exactly the results of its calls in their order,
\* no result of anything else, and last no response of the model itself.
THEOREM TranscriptsAreWhole == Spec => []TranscriptIsWhole
<1>1. Talking => TranscriptIsWhole
  <2>1. SUFFICES ASSUME Talking, pc = "waiting"
                 PROVE  Transcript(History) /\ History[1] = Append(prior, User("prompt"))[1]
    BY DEF TranscriptIsWhole
  <2>2. PICK q : Lacking(q)
    BY <2>1 DEF Talking
  <2>3. q = <<>> /\ History[Len(History)].role # "assistant"
    BY <2>1, <2>2 DEF Lacking
  <2>4. Begun(History) /\ Owes(History, <<>>) /\ History[1] = Append(prior, User("prompt"))[1]
    BY <2>2, <2>3 DEF Lacking, Lacks
  <2>5. Transcript(History)
    BY <2>3, <2>4, WholeTranscript
  <2>6. QED BY <2>4, <2>5
<1>2. QED BY <1>1, TranscriptsGoOn, PTL

-----------------------------------------------------------------------------
(* Branches of a tree, and what becomes of them when it grows.             *)

\* What joining two sequences gives.
IsJoin(p, q, r) ==
  /\ Len(p) \in Nat /\ Len(q) \in Nat /\ Len(r) = Len(p) + Len(q)
  /\ DOMAIN p = 1 .. Len(p) /\ DOMAIN q = 1 .. Len(q) /\ DOMAIN r = 1 .. Len(p) + Len(q)
  /\ \A i \in 1 .. Len(p) : r[i] = p[i]
  /\ \A i \in 1 .. Len(q) : r[Len(p) + i] = q[i]

LEMMA JoinIs ==
  ASSUME NEW S, NEW p \in Seq(S), NEW q \in Seq(S)
  PROVE  p \o q \in Seq(S) /\ IsJoin(p, q, p \o q)
<1>1. PICK r : r = p \o q
  OBVIOUS
<1>2. /\ r \in Seq(S) /\ Len(r) = Len(p) + Len(q)
      /\ \A i \in 1 .. Len(p) + Len(q) : r[i] = IF i <= Len(p) THEN p[i] ELSE q[i - Len(p)]
  BY <1>1, ConcatProperties
<1>3. /\ Len(p) \in Nat /\ Len(q) \in Nat
      /\ DOMAIN p = 1 .. Len(p) /\ DOMAIN q = 1 .. Len(q) /\ DOMAIN r = 1 .. Len(r)
  BY <1>2, LenProperties
<1>4. ASSUME NEW i \in 1 .. Len(q)
      PROVE  r[Len(p) + i] = q[i]
  <2>1. PICK j : j = Len(p) + i
    OBVIOUS
  <2>2. j \in 1 .. Len(p) + Len(q) /\ ~(j <= Len(p)) /\ j - Len(p) = i
    BY <1>3, <2>1
  <2>3. r[j] = q[j - Len(p)]
    BY <1>2, <2>2
  <2>4. QED BY <2>1, <2>2, <2>3
<1>5. \A i \in 1 .. Len(p) : r[i] = p[i]
  BY <1>2, <1>3
<1>6. IsJoin(p, q, r)
  BY <1>2, <1>3, <1>4, <1>5 DEF IsJoin
<1>7. QED BY <1>1, <1>2, <1>6

\* The branch that ends at an entry, from its root.
Line(parent, leaf, p) ==
  /\ p \in Seq(DOMAIN parent)
  /\ \A i, j \in DOMAIN p : p[i] = p[j] => i = j
  /\ IF leaf = None THEN p = <<>> ELSE p # <<>> /\ p[Len(p)] = leaf
  /\ \A i \in DOMAIN p : parent[p[i]] = IF i = 1 THEN None ELSE p[i - 1]

\* A tree: whoever climbs from an entry comes to the root.
Rooted(parent) ==
  /\ IsFiniteSet(DOMAIN parent) /\ None \notin DOMAIN parent
  /\ \A leaf \in DOMAIN parent \cup {None} : Line(parent, leaf, Branch(parent, leaf))

\* The function by which Branch climbs.
Climb(parent, u, n) ==
  IF Head(u[n - 1]) \notin DOMAIN parent THEN u[n - 1]
  ELSE <<parent[Head(u[n - 1])]>> \o u[n - 1]
Climbs(parent, leaf, m, u) ==
  u = [n \in 0 .. m |-> IF n = 0 THEN <<leaf>> ELSE Climb(parent, u, n)]

\* The end of a sequence.
LastOnes(q, n) == IF n < Len(q) THEN SubSeq(q, Len(q) - n, Len(q)) ELSE q

LEMMA LastOnesAre ==
  ASSUME NEW S, NEW q \in Seq(S), q # <<>>, NEW n \in Nat
  PROVE  /\ Len(q) \in Nat \ {0}
         /\ n < Len(q) => /\ LastOnes(q, n) \in Seq(S) /\ Len(LastOnes(q, n)) = n + 1
                          /\ \A i \in 1 .. n + 1 : LastOnes(q, n)[i] = q[Len(q) - n + i - 1]
         /\ ~(n < Len(q)) => LastOnes(q, n) = q
<1>1. Len(q) \in Nat \ {0}
  BY EmptySeq
<1>2. CASE n < Len(q)
  <2>1. PICK m : m = Len(q) - n
    OBVIOUS
  <2>2. m \in Int /\ m \in 1 .. Len(q) /\ Len(q) - m + 1 = n + 1
    BY <1>1, <1>2, <2>1
  <2>3. \A i \in m .. Len(q) : q[i] \in S
    BY <1>1, <2>2, LenProperties
  <2>4. /\ SubSeq(q, m, Len(q)) \in Seq(S)
        /\ Len(SubSeq(q, m, Len(q))) = Len(q) - m + 1
        /\ \A i \in 1 .. Len(q) - m + 1 : SubSeq(q, m, Len(q))[i] = q[m + i - 1]
    BY <1>1, <2>2, <2>3, SubSeqProperties
  <2>5. LastOnes(q, n) = SubSeq(q, m, Len(q))
    BY <1>2, <2>1 DEF LastOnes
  <2>6. \A i \in 1 .. n + 1 : m + i - 1 = Len(q) - n + i - 1
    BY <2>1
  <2>7. QED BY <1>1, <1>2, <2>1, <2>2, <2>4, <2>5
<1>3. CASE ~(n < Len(q))
  BY <1>1, <1>3 DEF LastOnes
<1>4. QED BY <1>2, <1>3

\* A branch is not longer than the tree.
LEMMA LineIsShort ==
  ASSUME NEW parent, NEW leaf, NEW p, IsFiniteSet(DOMAIN parent), Line(parent, leaf, p)
  PROVE  Cardinality(DOMAIN parent) \in Nat /\ Len(p) \in Nat /\ Len(p) <= Cardinality(DOMAIN parent)
<1> DEFINE D == DOMAIN parent
<1>1. Len(p) \in Nat /\ p \in [1 .. Len(p) -> D] /\ DOMAIN p = 1 .. Len(p)
  BY LenProperties DEF Line
<1>2. p \in Injection(1 .. Len(p), D)
  BY <1>1 DEF Line, Injection, IsInjective
<1>3. Cardinality(1 .. Len(p)) = Len(p)
  <2>1. 1 \in Int /\ Len(p) \in Int /\ (IF 1 > Len(p) THEN 0 ELSE Len(p) - 1 + 1) = Len(p)
    BY <1>1
  <2>2. QED BY <2>1, FS_Interval
<1>4. Cardinality(1 .. Len(p)) <= Cardinality(D)
  BY <1>2, FS_Injection
<1>5. Cardinality(D) \in Nat
  BY FS_CardinalityType
<1>6. QED BY <1>1, <1>3, <1>4, <1>5

\* Each step of the climb adds one entry, until the root is reached.
Reaches(parent, leaf, p, q) ==
  /\ q # <<>> /\ q \in Seq(DOMAIN parent \cup {None}) /\ Len(q) = Len(p) + 1
  /\ LastOnes(q, 0) = <<leaf>>
  /\ \A n \in Nat : LastOnes(q, n + 1) =
       IF Head(LastOnes(q, n)) \notin DOMAIN parent THEN LastOnes(q, n)
       ELSE <<parent[Head(LastOnes(q, n))]>> \o LastOnes(q, n)

LEMMA ClimbsTo ==
  ASSUME NEW parent, NEW leaf, NEW p, None \notin DOMAIN parent, Line(parent, leaf, p),
         NEW q, q = <<None>> \o p
  PROVE  Reaches(parent, leaf, p, q)
<1> DEFINE S == DOMAIN parent \cup {None}
<1>1. p \in Seq(S) /\ <<None>> \in Seq(S) /\ Len(<<None>>) = 1 /\ <<None>>[1] = None
  <2>1. DOMAIN parent \subseteq S
    OBVIOUS
  <2>2. p \in Seq(S)
    BY <2>1, SeqMonotonic DEF Line
  <2>3. QED BY <2>2
<1>2. PICK one : one = <<None>>
  OBVIOUS
<1>3. one \in Seq(S) /\ Len(one) = 1 /\ one[1] = None /\ q = one \o p
  BY <1>1, <1>2
<1>4. q \in Seq(S) /\ IsJoin(one, p, q)
  BY <1>1, <1>3, JoinIs
<1>5. Len(p) \in Nat /\ Len(q) = Len(p) + 1 /\ q[1] = None /\ \A i \in 1 .. Len(p) : q[i + 1] = p[i]
  <2>1. Len(p) \in Nat /\ Len(q) = 1 + Len(p) /\ q[1] = one[1] /\ \A i \in 1 .. Len(p) : q[1 + i] = p[i]
    BY <1>3, <1>4 DEF IsJoin
  <2>2. \A i \in 1 .. Len(p) : 1 + i = i + 1
    BY <2>1
  <2>3. QED BY <1>3, <2>1, <2>2
<1>6. q # <<>>
  BY <1>5
<1> HIDE DEF S
<1>7. \A n \in Nat : n < Len(q) =>
        /\ LastOnes(q, n) \in Seq(S) /\ Len(LastOnes(q, n)) = n + 1
        /\ \A i \in 1 .. n + 1 : LastOnes(q, n)[i] = q[Len(q) - n + i - 1]
  BY <1>4, <1>6, LastOnesAre
<1>8. q[Len(q)] = leaf
  <2>1. CASE leaf = None
    <3>1. Len(p) = 0
      BY <2>1 DEF Line
    <3>2. QED BY <1>5, <2>1, <3>1
  <2>2. CASE leaf # None
    <3>1. p # <<>> /\ p[Len(p)] = leaf
      BY <2>2 DEF Line
    <3>2. Len(p) \in 1 .. Len(p)
      BY <1>1, <1>5, <3>1, EmptySeq
    <3>3. q[Len(p) + 1] = p[Len(p)]
      BY <1>5, <3>2
    <3>4. QED BY <1>5, <3>1, <3>3
  <2>3. QED BY <2>1, <2>2
<1>9. LastOnes(q, 0) = <<leaf>>
  <2>1. PICK x : x = LastOnes(q, 0)
    OBVIOUS
  <2>2. 0 < Len(q)
    BY <1>5
  <2>3. x \in Seq(S) /\ Len(x) = 1 /\ x[1] = q[Len(q) - 0 + 1 - 1]
    BY <1>7, <2>1, <2>2
  <2>4. x[1] = leaf
    BY <1>5, <1>8, <2>3
  <2>5. x = <<leaf>>
    BY <2>3, <2>4
  <2>6. QED BY <2>1, <2>5
<1>10. ASSUME NEW n \in Nat
       PROVE  LastOnes(q, n + 1) =
              IF Head(LastOnes(q, n)) \notin DOMAIN parent THEN LastOnes(q, n)
              ELSE <<parent[Head(LastOnes(q, n))]>> \o LastOnes(q, n)
  <2>1. PICK x, y : x = LastOnes(q, n) /\ y = LastOnes(q, n + 1)
    OBVIOUS
  <2>2. CASE n + 1 < Len(q)
    <3>1. PICK k : k = Len(q) - n
      OBVIOUS
    <3>2. n < Len(q) /\ k \in Nat /\ k - 1 \in 1 .. Len(p) /\ k \in 1 .. Len(q) /\ k # 1 /\ k - 1 + 1 = k
      BY <1>5, <2>2, <3>1
    <3>3. x \in Seq(S) /\ Len(x) = n + 1 /\ \A i \in 1 .. n + 1 : x[i] = q[Len(q) - n + i - 1]
      BY <1>7, <2>1, <3>2
    <3>4. y \in Seq(S) /\ Len(y) = n + 2 /\ \A i \in 1 .. n + 2 : y[i] = q[Len(q) - (n + 1) + i - 1]
      <4>1. n + 1 \in Nat /\ n + 1 + 1 = n + 2
        OBVIOUS
      <4>2. /\ y \in Seq(S) /\ Len(y) = n + 1 + 1
            /\ \A i \in 1 .. n + 1 + 1 : y[i] = q[Len(q) - (n + 1) + i - 1]
        BY <1>7, <2>1, <2>2, <4>1
      <4>3. QED BY <4>1, <4>2
    <3>5. x[1] = q[k]
      <4>1. Len(q) - n + 1 - 1 = k /\ 1 \in 1 .. n + 1
        BY <1>5, <3>1
      <4>2. QED BY <3>3, <4>1
    <3>6. q[k] = p[k - 1]
      <4>1. q[k - 1 + 1] = p[k - 1]
        BY <1>5, <3>2
      <4>2. QED BY <3>2, <4>1
    <3>7. Head(x) = p[k - 1]
      <4>1. Len(x) = n + 1 /\ x \in Seq(S)
        BY <3>3
      <4>2. Head(x) = x[1]
        BY <4>1
      <4>3. QED BY <3>5, <3>6, <4>2
    <3>8. p[k - 1] \in DOMAIN parent
      BY <3>2 DEF Line
    <3>9. q[k - 1] = parent[p[k - 1]]
      <4>1. DOMAIN p = 1 .. Len(p)
        BY <1>1, LenProperties
      <4>2. parent[p[k - 1]] = IF k - 1 = 1 THEN None ELSE p[k - 1 - 1]
        BY <3>2, <4>1 DEF Line
      <4>3. CASE k - 1 = 1
        BY <1>5, <4>2, <4>3
      <4>4. CASE k - 1 # 1
        <5>1. k - 1 - 1 \in 1 .. Len(p) /\ k - 1 - 1 + 1 = k - 1
          BY <1>5, <3>2, <4>4
        <5>2. q[k - 1 - 1 + 1] = p[k - 1 - 1]
          BY <1>5, <5>1
        <5>3. QED BY <4>2, <4>4, <5>1, <5>2
      <4>5. QED BY <4>3, <4>4
    <3>10. PICK z : z = <<q[k - 1]>>
      OBVIOUS
    <3>11. z \in Seq(S) /\ Len(z) = 1 /\ z[1] = q[k - 1]
      <4>1. k - 1 \in 1 .. Len(q)
        BY <1>5, <3>2
      <4>2. q[k - 1] \in S
        BY <1>4, <4>1, ElementOfSeq
      <4>3. PICK e : e = q[k - 1]
        OBVIOUS
      <4>4. e \in S /\ z = <<e>>
        BY <3>10, <4>2, <4>3
      <4>5. z \in Seq(S) /\ Len(z) = 1 /\ z[1] = e
        BY <4>4
      <4>6. QED BY <4>3, <4>5
    <3>12. PICK w : w = z \o x
      OBVIOUS
    <3>13. w \in Seq(S) /\ IsJoin(z, x, w)
      BY <3>3, <3>11, <3>12, JoinIs
    <3>14. /\ Len(w) = n + 2 /\ w[1] = q[k - 1]
           /\ \A i \in 1 .. n + 1 : w[1 + i] = x[i]
      <4>1. /\ Len(w) = 1 + Len(x) /\ w[1] = z[1]
            /\ \A i \in 1 .. Len(x) : w[1 + i] = x[i]
        <5>1. Len(w) = Len(z) + Len(x) /\ \A i \in 1 .. Len(z) : w[i] = z[i]
          BY <3>13 DEF IsJoin
        <5>2. \A i \in 1 .. Len(x) : w[Len(z) + i] = x[i]
          BY <3>13 DEF IsJoin
        <5>3. 1 \in 1 .. Len(z)
          BY <3>11
        <5>4. QED BY <3>11, <5>1, <5>2, <5>3
      <4>2. 1 + Len(x) = n + 2
        BY <3>3
      <4>3. QED BY <3>3, <3>11, <4>1, <4>2
    <3>15. ASSUME NEW i \in 1 .. n + 2
           PROVE  w[i] = y[i]
      <4>1. y[i] = q[Len(q) - (n + 1) + i - 1]
        BY <3>4
      <4>2. CASE i = 1
        <5>1. Len(q) - (n + 1) + i - 1 = k - 1
          BY <1>5, <3>1, <4>2
        <5>2. QED BY <3>14, <4>1, <4>2, <5>1
      <4>3. CASE i # 1
        <5>1. PICK j : j = i - 1
          OBVIOUS
        <5>2. j \in 1 .. n + 1 /\ 1 + j = i /\ Len(q) - n + j - 1 = Len(q) - (n + 1) + i - 1
          BY <1>5, <4>3, <5>1
        <5>3. w[1 + j] = x[j] /\ x[j] = q[Len(q) - n + j - 1]
          BY <3>3, <3>14, <5>2
        <5>4. QED BY <4>1, <5>2, <5>3
      <4>4. QED BY <4>2, <4>3
    <3>16. w = y
      BY <3>4, <3>13, <3>14, <3>15, SeqEqual
    <3>17. y = <<parent[Head(x)]>> \o x
      BY <3>7, <3>9, <3>10, <3>12, <3>16
    <3>18. QED BY <2>1, <3>7, <3>8, <3>17
  <2>3. CASE n + 1 = Len(q)
    <3>1. x \in Seq(S) /\ Len(x) = n + 1 /\ \A i \in 1 .. n + 1 : x[i] = q[Len(q) - n + i - 1]
      <4>1. n < Len(q)
        BY <1>5, <2>3
      <4>2. QED BY <1>7, <2>1, <4>1
    <3>2. y = q
      BY <1>5, <2>1, <2>3 DEF LastOnes
    <3>3. \A i \in 1 .. Len(x) : x[i] = q[i]
      <4>1. PICK k : k = Len(q) - n
        OBVIOUS
      <4>2. k = 1
        BY <1>5, <2>3, <4>1
      <4>3. \A i \in 1 .. n + 1 : k + i - 1 = i
        BY <4>2
      <4>4. \A i \in 1 .. n + 1 : x[i] = q[k + i - 1]
        BY <3>1, <4>1
      <4>5. QED BY <3>1, <4>3, <4>4
    <3>4. x = q
      BY <1>4, <2>3, <3>1, <3>3, SeqEqual
    <3>5. Head(x) = None
      BY <1>5, <3>1, <3>3
    <3>6. QED BY <2>1, <3>2, <3>4, <3>5
  <2>4. CASE n + 1 > Len(q)
    <3>1. x = q /\ y = q
      BY <1>5, <2>1, <2>4 DEF LastOnes
    <3>2. Head(q) = None
      BY <1>4, <1>5, <1>6
    <3>3. QED BY <2>1, <3>1, <3>2
  <2>5. QED BY <1>5, <2>2, <2>3, <2>4
<1>11. QED BY <1>4, <1>5, <1>6, <1>9, <1>10 DEF S, Reaches

\* So Branch finds the line.
LEMMA LineIsBranch ==
  ASSUME NEW parent, NEW leaf, NEW p, IsFiniteSet(DOMAIN parent), None \notin DOMAIN parent,
         Line(parent, leaf, p)
  PROVE  Branch(parent, leaf) = p
<1>1. PICK q : q = <<None>> \o p
  OBVIOUS
<1>2. PICK m : m = Cardinality(DOMAIN parent)
  OBVIOUS
<1>3. m \in Nat /\ Len(p) \in Nat /\ Len(p) <= m
  BY <1>2, LineIsShort
<1>4. /\ q # <<>> /\ q \in Seq(DOMAIN parent \cup {None}) /\ Len(q) = Len(p) + 1
      /\ LastOnes(q, 0) = <<leaf>>
      /\ \A n \in Nat : LastOnes(q, n + 1) =
           IF Head(LastOnes(q, n)) \notin DOMAIN parent THEN LastOnes(q, n)
           ELSE <<parent[Head(LastOnes(q, n))]>> \o LastOnes(q, n)
  <2>1. Reaches(parent, leaf, p, q)
    BY <1>1, ClimbsTo, Zenon
  <2>2. QED BY <2>1 DEF Reaches
<1> DEFINE v == [n \in 0 .. m |-> LastOnes(q, n)]
<1>5. ASSUME NEW n \in 0 .. m
      PROVE  v[n] = IF n = 0 THEN <<leaf>> ELSE Climb(parent, v, n)
  <2>1. CASE n = 0
    BY <1>4, <2>1
  <2>2. CASE n # 0
    <3>1. PICK k : k = n - 1
      OBVIOUS
    <3>2. k \in Nat /\ k \in 0 .. m /\ k + 1 = n
      BY <1>3, <2>2, <3>1
    <3>3. v[k] = LastOnes(q, k) /\ v[n] = LastOnes(q, k + 1)
      BY <3>2
    <3>4. LastOnes(q, k + 1) = IF Head(LastOnes(q, k)) \notin DOMAIN parent THEN LastOnes(q, k)
                               ELSE <<parent[Head(LastOnes(q, k))]>> \o LastOnes(q, k)
      BY <1>4, <3>2
    <3> HIDE DEF v
    <3>5. v[n] = Climb(parent, v, n)
      BY <3>1, <3>3, <3>4 DEF Climb
    <3>6. QED BY <2>2, <3>5
  <2>3. QED BY <2>1, <2>2
<1>6. v = [n \in 0 .. m |-> IF n = 0 THEN <<leaf>> ELSE Climb(parent, v, n)]
  <2>1. v = [n \in 0 .. m |-> v[n]]
    OBVIOUS
  <2> HIDE DEF v
  <2>2. [n \in 0 .. m |-> v[n]] = [n \in 0 .. m |-> IF n = 0 THEN <<leaf>> ELSE Climb(parent, v, n)]
    BY <1>5
  <2>3. QED BY <2>1, <2>2
<1> DEFINE u == CHOOSE u : Climbs(parent, leaf, m, u)
<1>7. Climbs(parent, leaf, m, u)
  <2>1. Climbs(parent, leaf, m, v)
    BY <1>6 DEF Climbs
  <2>2. QED BY <2>1
<1>8. Branch(parent, leaf) = Tail(u[m])
  BY <1>2 DEF Branch, Climbs, Climb
<1> HIDE DEF u, v
<1> DEFINE T == {n \in Nat : n <= m => u[n] = LastOnes(q, n)}
<1>9. 0 \in T
  <2>1. 0 \in 0 .. m
    BY <1>3
  <2>2. u[0] = <<leaf>>
    BY <1>7, <2>1 DEF Climbs
  <2>3. QED BY <1>4, <2>2
<1>10. ASSUME NEW n \in T
       PROVE  n + 1 \in T
  <2>1. SUFFICES ASSUME n + 1 <= m
                 PROVE  u[n + 1] = LastOnes(q, n + 1)
    OBVIOUS
  <2>2. PICK k : k = n + 1
    OBVIOUS
  <2>3. n \in Nat /\ k \in 0 .. m /\ k # 0 /\ k - 1 = n /\ u[n] = LastOnes(q, n)
    BY <1>3, <2>1, <2>2
  <2>4. u[k] = Climb(parent, u, k)
    BY <1>7, <2>3 DEF Climbs
  <2>5. u[k] = IF Head(u[n]) \notin DOMAIN parent THEN u[n] ELSE <<parent[Head(u[n])]>> \o u[n]
    BY <2>3, <2>4 DEF Climb
  <2>6. LastOnes(q, n + 1) = IF Head(LastOnes(q, n)) \notin DOMAIN parent THEN LastOnes(q, n)
                             ELSE <<parent[Head(LastOnes(q, n))]>> \o LastOnes(q, n)
    BY <1>4, <2>3
  <2>7. QED BY <2>2, <2>3, <2>5, <2>6
<1>11. T = Nat
  BY <1>9, <1>10, NatSets
<1>12. u[m] = LastOnes(q, m)
  <2>1. m \in T => (m <= m => u[m] = LastOnes(q, m))
    OBVIOUS
  <2> HIDE DEF T
  <2>2. QED BY <1>3, <1>11, <2>1
<1>13. LastOnes(q, m) = q
  <2>1. CASE m < Len(q)
    <3>1. m = Len(p) /\ Len(q) - m = 1
      BY <1>3, <1>4, <2>1
    <3>2. SubSeq(q, 1, Len(q)) = q
      BY <1>4, SubSeqFull
    <3>3. QED BY <2>1, <3>1, <3>2 DEF LastOnes
  <2>2. CASE ~(m < Len(q))
    BY <2>2 DEF LastOnes
  <2>3. QED BY <2>1, <2>2
<1>14. Tail(q) = p
  <2>1. p \in Seq(DOMAIN parent \cup {None})
    <3>1. DOMAIN parent \subseteq DOMAIN parent \cup {None}
      OBVIOUS
    <3>2. QED BY <3>1, SeqMonotonic DEF Line
  <2>2. Tail(<<None>> \o p) = p
    BY <2>1
  <2>3. QED BY <1>1, <2>2
<1>15. QED BY <1>8, <1>12, <1>13, <1>14

\* A line of new entries that hangs from an entry of the tree, or from the root.
Grafted(parent, more, from, q) ==
  /\ IsSequence(q) /\ \A i, j \in DOMAIN q : q[i] = q[j] => i = j
  /\ \A i \in DOMAIN q : q[i] \notin DOMAIN parent \cup {None}
  /\ from \in DOMAIN parent \cup {None}
  /\ DOMAIN more = DOMAIN parent \cup {q[i] : i \in DOMAIN q}
  /\ \A id \in DOMAIN parent : more[id] = parent[id]
  /\ \A i \in DOMAIN q : more[q[i]] = IF i = 1 THEN from ELSE q[i - 1]

\* What was a branch is one still.
LEMMA LineStays ==
  ASSUME NEW parent, NEW more, NEW from, NEW q, Grafted(parent, more, from, q),
         NEW leaf, NEW p, Line(parent, leaf, p)
  PROVE  Line(more, leaf, p)
<1>1. DOMAIN parent \subseteq DOMAIN more
  BY DEF Grafted
<1>2. p \in Seq(DOMAIN more)
  BY <1>1, SeqMonotonic DEF Line
<1>3. ASSUME NEW i \in DOMAIN p
      PROVE  more[p[i]] = IF i = 1 THEN None ELSE p[i - 1]
  <2>1. p[i] \in DOMAIN parent
    BY LenProperties DEF Line
  <2>2. QED BY <2>1 DEF Grafted, Line
<1>4. QED BY <1>2, <1>3 DEF Line

\* The first of a sequence.
LEMMA FirstOnes ==
  ASSUME NEW q, IsSequence(q), NEW k \in DOMAIN q
  PROVE  /\ SubSeq(q, 1, k) \in Seq({q[i] : i \in DOMAIN q})
         /\ Len(q) \in Nat /\ DOMAIN q = 1 .. Len(q) /\ k \in Nat
         /\ Len(SubSeq(q, 1, k)) = k /\ DOMAIN SubSeq(q, 1, k) = 1 .. k
         /\ \A i \in 1 .. k : SubSeq(q, 1, k)[i] = q[i]
<1> DEFINE S == {q[i] : i \in DOMAIN q}
<1>1. Len(q) \in Nat /\ DOMAIN q = 1 .. Len(q)
  BY LenProperties DEF IsSequence
<1>2. \A i \in 1 .. k : q[i] \in S
  BY <1>1
<1>3. 1 \in Int /\ k \in Int /\ k \in Nat /\ 1 <= k /\ k - 1 + 1 = k /\ \A i \in 1 .. k : 1 + i - 1 = i
  BY <1>1
<1> HIDE DEF S
<1>4. /\ SubSeq(q, 1, k) \in Seq(S)
      /\ Len(SubSeq(q, 1, k)) = IF 1 <= k THEN k - 1 + 1 ELSE 0
      /\ \A i \in 1 .. k - 1 + 1 : SubSeq(q, 1, k)[i] = q[1 + i - 1]
  BY <1>2, <1>3, SubSeqProperties
<1>5. DOMAIN SubSeq(q, 1, k) = 1 .. Len(SubSeq(q, 1, k))
  BY <1>4, LenProperties
<1>6. QED BY <1>1, <1>3, <1>4, <1>5 DEF S

\* A new one is the branch it hangs from and the new entries up to its own.
LEMMA LineGrows ==
  ASSUME NEW parent, NEW more, NEW from, NEW q, Grafted(parent, more, from, q),
         None \notin DOMAIN parent, NEW p, Line(parent, from, p), NEW k \in DOMAIN q
  PROVE  Line(more, q[k], p \o SubSeq(q, 1, k))
<1>1. PICK s : s = SubSeq(q, 1, k)
  OBVIOUS
<1>2. /\ s \in Seq({q[i] : i \in DOMAIN q})
      /\ Len(q) \in Nat /\ DOMAIN q = 1 .. Len(q) /\ k \in Nat
      /\ Len(s) = k /\ DOMAIN s = 1 .. k /\ \A i \in 1 .. k : s[i] = q[i]
  BY <1>1, FirstOnes DEF Grafted
<1>3. s \in Seq(DOMAIN more) /\ p \in Seq(DOMAIN more)
  <2>1. {q[i] : i \in DOMAIN q} \subseteq DOMAIN more /\ DOMAIN parent \subseteq DOMAIN more
    BY DEF Grafted
  <2>2. s \in Seq(DOMAIN more)
    BY <1>2, <2>1, SeqMonotonic
  <2>3. p \in Seq(DOMAIN more)
    BY <2>1, SeqMonotonic DEF Line
  <2>4. QED BY <2>2, <2>3
<1>4. PICK r : r = p \o s
  OBVIOUS
<1>5. r \in Seq(DOMAIN more) /\ IsJoin(p, s, r)
  BY <1>3, <1>4, JoinIs
<1>6. PICK n : n = Len(p)
  OBVIOUS
<1>7. /\ n \in Nat /\ Len(r) = n + k /\ DOMAIN p = 1 .. n /\ DOMAIN r = 1 .. n + k
      /\ \A i \in 1 .. n : r[i] = p[i]
      /\ \A i \in 1 .. k : r[n + i] = q[i]
  BY <1>2, <1>5, <1>6 DEF IsJoin
<1>8. \A i \in 1 .. n : p[i] \in DOMAIN parent
  BY <1>7, LenProperties DEF Line
<1>9. \A i \in 1 .. n + k : i \notin 1 .. n => i - n \in 1 .. k /\ n + (i - n) = i
  BY <1>2, <1>7
<1>10. \A i \in 1 .. n + k : i \notin 1 .. n => r[i] = q[i - n] /\ i - n \in DOMAIN q
  <2>1. \A i \in 1 .. k : i \in DOMAIN q
    BY <1>2
  <2>2. QED BY <1>7, <1>9, <2>1
<1>11. ASSUME NEW i \in 1 .. n + k, NEW j \in 1 .. n + k, r[i] = r[j]
       PROVE  i = j
  <2>1. CASE i \in 1 .. n /\ j \in 1 .. n
    BY <1>7, <1>11, <2>1 DEF Line
  <2>2. CASE i \notin 1 .. n /\ j \notin 1 .. n
    <3>1. q[i - n] = q[j - n] /\ i - n \in DOMAIN q /\ j - n \in DOMAIN q
      BY <1>10, <1>11, <2>2
    <3>2. i - n = j - n
      BY <3>1 DEF Grafted
    <3>3. QED BY <1>2, <1>7, <3>2
  <2>3. CASE i \in 1 .. n /\ j \notin 1 .. n
    <3>1. r[i] \in DOMAIN parent /\ r[j] \notin DOMAIN parent
      BY <1>7, <1>8, <1>10, <2>3 DEF Grafted
    <3>2. QED BY <1>11, <3>1
  <2>4. CASE i \notin 1 .. n /\ j \in 1 .. n
    <3>1. r[j] \in DOMAIN parent /\ r[i] \notin DOMAIN parent
      BY <1>7, <1>8, <1>10, <2>4 DEF Grafted
    <3>2. QED BY <1>11, <3>1
  <2>5. QED BY <2>1, <2>2, <2>3, <2>4
<1>12. r # <<>> /\ r[Len(r)] = q[k] /\ q[k] # None
  <2>1. k \in 1 .. k /\ n + k # 0
    BY <1>2, <1>7
  <2>2. r[n + k] = q[k]
    BY <1>7, <2>1
  <2>3. r # <<>>
    BY <1>7, <2>1
  <2>4. q[k] # None
    BY DEF Grafted
  <2>5. QED BY <1>7, <2>2, <2>3, <2>4
<1>13. ASSUME NEW i \in 1 .. n + k
       PROVE  more[r[i]] = IF i = 1 THEN None ELSE r[i - 1]
  <2>1. CASE i \in 1 .. n
    <3>1. more[p[i]] = IF i = 1 THEN None ELSE p[i - 1]
      BY <1>7, <1>8, <2>1 DEF Grafted, Line
    <3>2. i # 1 => i - 1 \in 1 .. n
      BY <1>7, <2>1
    <3>3. QED BY <1>7, <2>1, <3>1, <3>2
  <2>2. CASE i \notin 1 .. n
    <3>1. PICK j : j = i - n
      OBVIOUS
    <3>2. j \in 1 .. k /\ j \in DOMAIN q /\ r[i] = q[j] /\ n + j = i
      BY <1>9, <1>10, <2>2, <3>1
    <3>3. more[r[i]] = IF j = 1 THEN from ELSE q[j - 1]
      BY <3>2 DEF Grafted
    <3>4. CASE j # 1
      <4>1. j - 1 \in 1 .. k /\ n + (j - 1) = i - 1 /\ i # 1
        BY <1>2, <1>7, <3>2, <3>4
      <4>2. r[n + (j - 1)] = q[j - 1]
        BY <1>7, <4>1
      <4>3. QED BY <3>3, <3>4, <4>1, <4>2
    <3>5. CASE j = 1
      <4>1. CASE from = None
        <5>1. p = <<>>
          BY <4>1 DEF Line
        <5>2. n = 0
          BY <1>6, <5>1
        <5>3. QED BY <3>2, <3>3, <3>5, <4>1, <5>2
      <4>2. CASE from # None
        <5>1. p # <<>> /\ p[n] = from
          BY <1>6, <4>2 DEF Line
        <5>2. n # 0
          BY <1>3, <1>6, <5>1, EmptySeq
        <5>3. n \in 1 .. n /\ i - 1 = n /\ i # 1
          BY <1>7, <3>2, <3>5, <5>2
        <5>4. QED BY <1>7, <3>3, <3>5, <5>1, <5>3
      <4>3. QED BY <4>1, <4>2
    <3>6. QED BY <3>4, <3>5
  <2>3. QED BY <2>1, <2>2
<1>14. Line(more, q[k], r)
  BY <1>5, <1>7, <1>11, <1>12, <1>13 DEF Line
<1>15. QED BY <1>1, <1>4, <1>14

\* A tree stays one when it grows; its branches stay, and the new ones follow from them.
Grows(parent, more, from, q) ==
  /\ Rooted(more)
  /\ \A leaf \in DOMAIN parent \cup {None} : Branch(more, leaf) = Branch(parent, leaf)
  /\ \A k \in DOMAIN q : Branch(more, q[k]) = Branch(parent, from) \o SubSeq(q, 1, k)

LEMMA LinesGrow ==
  ASSUME NEW parent, NEW more, NEW from, NEW q, Grafted(parent, more, from, q), Rooted(parent)
  PROVE  Grows(parent, more, from, q)
<1>1. IsFiniteSet(DOMAIN more) /\ None \notin DOMAIN more
  <2>1. IsFiniteSet({q[i] : i \in DOMAIN q})
    <3>1. DOMAIN q = 1 .. Len(q) /\ Len(q) \in Nat
      BY LenProperties DEF Grafted, IsSequence
    <3>2. IsFiniteSet(DOMAIN q)
      BY <3>1, FS_Interval
    <3>3. [i \in DOMAIN q |-> q[i]] \in Surjection(DOMAIN q, {q[i] : i \in DOMAIN q})
      BY DEF Surjection
    <3>4. QED BY <3>2, <3>3, FS_Surjection
  <2>2. IsFiniteSet(DOMAIN parent) /\ None \notin DOMAIN parent
    BY DEF Rooted
  <2>3. IsFiniteSet(DOMAIN parent \cup {q[i] : i \in DOMAIN q})
    BY <2>1, <2>2, FS_Union
  <2>4. QED BY <2>2, <2>3 DEF Grafted
<1>2. ASSUME NEW leaf \in DOMAIN parent \cup {None}
      PROVE  /\ Branch(more, leaf) = Branch(parent, leaf)
             /\ Line(more, leaf, Branch(more, leaf))
  <2>1. PICK p : p = Branch(parent, leaf)
    OBVIOUS
  <2>2. Line(parent, leaf, p)
    BY <2>1 DEF Rooted
  <2>3. Line(more, leaf, p)
    BY <2>2, LineStays
  <2>4. Branch(more, leaf) = p
    BY <1>1, <2>3, LineIsBranch
  <2>5. QED BY <2>1, <2>3, <2>4
<1>3. ASSUME NEW k \in DOMAIN q
      PROVE  /\ Branch(more, q[k]) = Branch(parent, from) \o SubSeq(q, 1, k)
             /\ Line(more, q[k], Branch(more, q[k]))
  <2>1. PICK p : p = Branch(parent, from)
    OBVIOUS
  <2>2. Line(parent, from, p) /\ None \notin DOMAIN parent
    BY <2>1 DEF Rooted, Grafted
  <2>3. Line(more, q[k], p \o SubSeq(q, 1, k))
    BY <2>2, LineGrows
  <2>4. Branch(more, q[k]) = p \o SubSeq(q, 1, k)
    BY <1>1, <2>3, LineIsBranch
  <2>5. QED BY <2>1, <2>3, <2>4
<1>4. \A leaf \in DOMAIN more \cup {None} :
        leaf \in DOMAIN parent \cup {None} \/ \E k \in DOMAIN q : leaf = q[k]
  BY DEF Grafted
<1>5. \A leaf \in DOMAIN more \cup {None} : Line(more, leaf, Branch(more, leaf))
  BY <1>2, <1>3, <1>4
<1>6. Rooted(more)
  BY <1>1, <1>5 DEF Rooted
<1>7. QED BY <1>2, <1>3, <1>6 DEF Grows
-----------------------------------------------------------------------------
(* The visible history, as entries are listed.                             *)

\* What the model may be told: entries of Pi, by their IDs.
Spoken == Nat \X {0}

\* The tree of a list.
Over(list) == [id \in IdsOf(list) |-> Entry(list, id).parentId]

\* What PiSessionView.build asks of a list, and that its entries speak.
IsHistory(list) ==
  /\ IsSequence(list)
  /\ \A i, j \in DOMAIN list : list[i].id = list[j].id => i = j
  /\ \A i \in DOMAIN list : list[i].parentId \in {None} \cup {list[j].id : j \in 1 .. i - 1}
  /\ \A i \in DOMAIN list : list[i].says \in Seq(Spoken)
  /\ Rooted(Over(list))

LEMMA EntryIs ==
  ASSUME NEW list, \A i, j \in DOMAIN list : list[i].id = list[j].id => i = j, NEW k \in DOMAIN list
  PROVE  Entry(list, list[k].id) = list[k]
<1>1. PICK i : i = CHOOSE j \in DOMAIN list : list[j].id = list[k].id
  OBVIOUS
<1>2. i \in DOMAIN list /\ list[i].id = list[k].id
  BY <1>1
<1>3. i = k
  BY <1>2
<1>4. QED BY <1>1, <1>3 DEF Entry

\* Entries that hang one from another, the first from a listed one or the root.
Hung(list, added, from) ==
  /\ IsSequence(added) /\ \A i \in DOMAIN added : added[i].says \in Seq(Spoken)
  /\ \A i, j \in DOMAIN added : added[i].id = added[j].id => i = j
  /\ \A i \in DOMAIN added : added[i].id \notin IdsOf(list) \cup {None}
  /\ \A i \in DOMAIN added : added[i].parentId = IF i = 1 THEN from ELSE added[i - 1].id
  /\ from \in IdsOf(list) \cup {None}

LEMMA HistoryIsTyped ==
  ASSUME NEW list, IsHistory(list)
  PROVE  Len(list) \in Nat /\ DOMAIN list = 1 .. Len(list) /\ list \in Seq({list[i] : i \in DOMAIN list})
  BY LenProperties DEF IsHistory, IsSequence

\* The list with these behind it.
Listed(list, added, new) ==
  /\ IsJoin(list, added, new) /\ IsSequence(new)
  /\ IdsOf(new) = IdsOf(list) \cup {added[i].id : i \in DOMAIN added}
  /\ \A i, j \in DOMAIN new : new[i].id = new[j].id => i = j
  /\ \A i \in DOMAIN new : new[i].says \in Seq(Spoken)
  /\ \A i \in DOMAIN new : new[i].parentId \in {None} \cup {new[j].id : j \in 1 .. i - 1}

LEMMA ListJoins ==
  ASSUME NEW list, IsHistory(list), NEW added, NEW from, Hung(list, added, from), NEW new,
         new = list \o added
  PROVE  Listed(list, added, new)
<1> DEFINE S == {list[i] : i \in DOMAIN list} \cup {added[i] : i \in DOMAIN added}
<1>1. list \in Seq(S) /\ added \in Seq(S)
  <2>1. {list[i] : i \in DOMAIN list} \subseteq S /\ {added[i] : i \in DOMAIN added} \subseteq S
    OBVIOUS
  <2>2. list \in Seq({list[i] : i \in DOMAIN list}) /\ added \in Seq({added[i] : i \in DOMAIN added})
    BY DEF IsHistory, Hung, IsSequence
  <2> HIDE DEF S
  <2>3. QED BY <2>1, <2>2, SeqMonotonic
<1>2. new \in Seq(S) /\ IsJoin(list, added, new)
  BY <1>1, JoinIs
<1>3. IsSequence(new)
  BY <1>2, SequenceOf
<1> HIDE DEF S
<1>4. PICK n, k : n = Len(list) /\ k = Len(added)
  OBVIOUS
<1>5. /\ n \in Nat /\ k \in Nat /\ DOMAIN list = 1 .. n /\ DOMAIN added = 1 .. k /\ DOMAIN new = 1 .. n + k
      /\ \A i \in 1 .. n : new[i] = list[i]
      /\ \A i \in 1 .. k : new[n + i] = added[i]
  BY <1>2, <1>4 DEF IsJoin
<1>6. ASSUME NEW i \in 1 .. n + k, i \notin 1 .. n
      PROVE  i - n \in 1 .. k /\ new[i] = added[i - n] /\ n + (i - n) = i
  <2>1. i - n \in 1 .. k /\ n + (i - n) = i
    BY <1>5, <1>6
  <2>2. new[n + (i - n)] = added[i - n]
    BY <1>5, <2>1
  <2>3. QED BY <2>1, <2>2
<1>7. IdsOf(new) = IdsOf(list) \cup {added[i].id : i \in DOMAIN added}
  <2>1. ASSUME NEW id \in IdsOf(new)
        PROVE  id \in IdsOf(list) \cup {added[i].id : i \in DOMAIN added}
    <3>1. PICK i \in 1 .. n + k : id = new[i].id
      BY <1>5 DEF IdsOf
    <3>2. CASE i \in 1 .. n
      BY <1>5, <3>1, <3>2 DEF IdsOf
    <3>3. CASE i \notin 1 .. n
      BY <1>5, <1>6, <3>1, <3>3
    <3>4. QED BY <3>2, <3>3
  <2>2. ASSUME NEW id \in IdsOf(list)
        PROVE  id \in IdsOf(new)
    <3>1. PICK i \in 1 .. n : id = list[i].id
      BY <1>5 DEF IdsOf
    <3>2. i \in 1 .. n + k /\ new[i] = list[i]
      BY <1>5
    <3>3. QED BY <1>5, <3>1, <3>2 DEF IdsOf
  <2>3. ASSUME NEW i \in 1 .. k
        PROVE  added[i].id \in IdsOf(new)
    <3>1. n + i \in 1 .. n + k /\ new[n + i] = added[i]
      BY <1>5
    <3>2. QED BY <1>5, <3>1 DEF IdsOf
  <2>4. QED BY <1>5, <2>1, <2>2, <2>3
<1>8. ASSUME NEW i \in 1 .. n
      PROVE  list[i].id \in IdsOf(list)
  BY <1>5 DEF IdsOf
<1>9. ASSUME NEW i \in 1 .. n + k, NEW j \in 1 .. n + k, new[i].id = new[j].id
      PROVE  i = j
  <2>1. CASE i \in 1 .. n /\ j \in 1 .. n
    BY <1>5, <1>9, <2>1 DEF IsHistory
  <2>2. CASE i \notin 1 .. n /\ j \notin 1 .. n
    <3>1. added[i - n].id = added[j - n].id /\ i - n \in DOMAIN added /\ j - n \in DOMAIN added
      BY <1>5, <1>6, <1>9, <2>2
    <3>2. i - n = j - n
      BY <3>1 DEF Hung
    <3>3. QED BY <1>5, <3>2
  <2>3. CASE i \in 1 .. n /\ j \notin 1 .. n
    <3>1. new[i].id \in IdsOf(list) /\ new[j].id \notin IdsOf(list)
      BY <1>5, <1>6, <1>8, <2>3 DEF Hung
    <3>2. QED BY <1>9, <3>1
  <2>4. CASE i \notin 1 .. n /\ j \in 1 .. n
    <3>1. new[j].id \in IdsOf(list)
      BY <1>5, <1>8, <2>4
    <3>2. new[i].id \notin IdsOf(list)
      <4>1. new[i] = added[i - n] /\ i - n \in DOMAIN added
        BY <1>5, <1>6, <2>4
      <4>2. QED BY <4>1 DEF Hung
    <3>3. QED BY <1>9, <3>1, <3>2
  <2>5. QED BY <2>1, <2>2, <2>3, <2>4
<1>10. ASSUME NEW i \in 1 .. n + k
       PROVE  new[i].says \in Seq(Spoken)
  <2>1. CASE i \in 1 .. n
    BY <1>5, <2>1 DEF IsHistory
  <2>2. CASE i \notin 1 .. n
    BY <1>5, <1>6, <2>2 DEF Hung
  <2>3. QED BY <2>1, <2>2
<1>11. ASSUME NEW i \in 1 .. n + k
       PROVE  new[i].parentId \in {None} \cup {new[j].id : j \in 1 .. i - 1}
  <2>1. CASE i \in 1 .. n
    <3>1. list[i].parentId \in {None} \cup {list[j].id : j \in 1 .. i - 1}
      BY <1>5, <2>1 DEF IsHistory
    <3>2. \A j \in 1 .. i - 1 : j \in 1 .. n
      BY <1>5, <2>1
    <3>3. QED BY <1>5, <2>1, <3>1, <3>2
  <2>2. CASE i \notin 1 .. n
    <3>1. PICK m : m = i - n
      OBVIOUS
    <3>2. m \in 1 .. k /\ new[i] = added[m] /\ n + m = i
      BY <1>6, <2>2, <3>1
    <3>3. CASE m = 1
      <4>1. new[i].parentId = from
        BY <1>5, <3>2, <3>3 DEF Hung
      <4>2. CASE from = None
        BY <4>1, <4>2
      <4>3. CASE from # None
        <5>1. PICK j \in 1 .. n : from = list[j].id
          BY <1>5, <4>3 DEF Hung, IdsOf
        <5>2. j \in 1 .. i - 1 /\ new[j].id = from
          BY <1>5, <3>2, <3>3, <5>1
        <5>3. QED BY <4>1, <5>2
      <4>4. QED BY <4>2, <4>3
    <3>4. CASE m # 1
      <4>1. new[i].parentId = added[m - 1].id
        BY <1>5, <3>2, <3>4 DEF Hung
      <4>2. m - 1 \in 1 .. k /\ n + (m - 1) = i - 1 /\ i - 1 \in 1 .. i - 1
        <5>1. n \in Nat /\ k \in Nat /\ m \in 1 .. k /\ n + m = i /\ m # 1
          BY <1>5, <3>2, <3>4
        <5>2. QED BY ONLY <5>1
      <4>3. new[i - 1].id = added[m - 1].id
        BY <1>5, <4>2
      <4>4. QED BY <4>1, <4>2, <4>3
    <3>5. QED BY <3>3, <3>4
  <2>3. QED BY <2>1, <2>2
<1>12. QED BY <1>2, <1>3, <1>5, <1>7, <1>9, <1>10, <1>11 DEF Listed

\* What they change of the history: they are behind the branch they hang from.
HistoryGrows(list, added, from, new) ==
  /\ IsHistory(new) /\ IdsOf(new) = IdsOf(list) \cup {added[i].id : i \in DOMAIN added}
  /\ \A id \in IdsOf(list) : Entry(new, id) = Entry(list, id)
  /\ \A i \in DOMAIN added : Entry(new, added[i].id) = added[i]
  /\ \A leaf \in IdsOf(list) \cup {None} : /\ PathIds(new, leaf) = PathIds(list, leaf)
                                           /\ VisibleBranch(new, leaf) = VisibleBranch(list, leaf)
  /\ \A k \in DOMAIN added :
       /\ IsJoin(PathIds(list, from), [i \in 1 .. k |-> added[i].id], PathIds(new, added[k].id))
       /\ IsJoin(VisibleBranch(list, from), [i \in 1 .. k |-> added[i]],
                 VisibleBranch(new, added[k].id))

\* The branches of a history.
LEMMA PathsAre ==
  ASSUME NEW list, IsHistory(list), NEW leaf \in IdsOf(list) \cup {None}
  PROVE  /\ Line(Over(list), leaf, PathIds(list, leaf))
         /\ PathIds(list, leaf) \in Seq(IdsOf(list)) /\ Len(PathIds(list, leaf)) \in Nat
         /\ DOMAIN PathIds(list, leaf) = 1 .. Len(PathIds(list, leaf))
         /\ Len(VisibleBranch(list, leaf)) = Len(PathIds(list, leaf))
         /\ DOMAIN VisibleBranch(list, leaf) = 1 .. Len(PathIds(list, leaf))
         /\ IsSequence(VisibleBranch(list, leaf))
         /\ \A i \in 1 .. Len(PathIds(list, leaf)) :
              /\ VisibleBranch(list, leaf)[i] = Entry(list, PathIds(list, leaf)[i])
              /\ VisibleBranch(list, leaf)[i].id = PathIds(list, leaf)[i]
              /\ VisibleBranch(list, leaf)[i].says \in Seq(Spoken)
<1>1. PICK p, b : p = PathIds(list, leaf) /\ b = VisibleBranch(list, leaf)
  OBVIOUS
<1>2. DOMAIN Over(list) = IdsOf(list)
  BY DEF Over
<1>3. p = Branch(Over(list), leaf)
  BY <1>1 DEF PathIds, Over
<1>4. Line(Over(list), leaf, p)
  BY <1>2, <1>3 DEF IsHistory, Rooted
<1>5. p \in Seq(IdsOf(list)) /\ Len(p) \in Nat /\ DOMAIN p = 1 .. Len(p)
  BY <1>2, <1>4, LenProperties DEF Line
<1>6. b = [i \in 1 .. Len(p) |-> Entry(list, p[i])]
  BY <1>1, <1>5 DEF VisibleBranch
<1>7. ASSUME NEW i \in 1 .. Len(p)
      PROVE  b[i] = Entry(list, p[i]) /\ b[i].id = p[i] /\ b[i].says \in Seq(Spoken)
  <2>1. p[i] \in IdsOf(list)
    BY <1>5, ElementOfSeq
  <2>2. PICK j \in DOMAIN list : p[i] = list[j].id
    BY <2>1 DEF IdsOf
  <2>3. Entry(list, p[i]) = list[j]
    BY <2>2, EntryIs DEF IsHistory
  <2>4. b[i] = list[j]
    BY <1>6, <2>3
  <2>5. QED BY <2>2, <2>3, <2>4 DEF IsHistory
<1>8. b \in Seq({b[i] : i \in 1 .. Len(p)}) /\ Len(b) = Len(p) /\ DOMAIN b = 1 .. Len(p)
  <2>1. b \in [1 .. Len(p) -> {b[i] : i \in 1 .. Len(p)}]
    BY <1>6
  <2>2. QED BY <1>5, <2>1, FunctionIsSeq
<1>9. IsSequence(b)
  BY <1>8 DEF IsSequence
<1>10. QED BY <1>1, <1>4, <1>5, <1>7, <1>8, <1>9

LEMMA ListGrows ==
  ASSUME NEW list, IsHistory(list), NEW added, NEW from, Hung(list, added, from)
  PROVE  HistoryGrows(list, added, from, list \o added)
<1>1. PICK new : new = list \o added
  OBVIOUS
<1>2. /\ IsJoin(list, added, new) /\ IsSequence(new)
      /\ IdsOf(new) = IdsOf(list) \cup {added[i].id : i \in DOMAIN added}
      /\ \A i, j \in DOMAIN new : new[i].id = new[j].id => i = j
      /\ \A i \in DOMAIN new : new[i].says \in Seq(Spoken)
      /\ \A i \in DOMAIN new : new[i].parentId \in {None} \cup {new[j].id : j \in 1 .. i - 1}
  <2>1. Listed(list, added, new)
    BY <1>1, ListJoins, Zenon
  <2>2. QED BY <2>1 DEF Listed
<1>3. PICK n, k : n = Len(list) /\ k = Len(added)
  OBVIOUS
<1>4. /\ n \in Nat /\ k \in Nat /\ DOMAIN list = 1 .. n /\ DOMAIN added = 1 .. k /\ DOMAIN new = 1 .. n + k
      /\ \A i \in 1 .. n : new[i] = list[i] /\ i \in DOMAIN new
      /\ \A i \in 1 .. k : new[n + i] = added[i] /\ n + i \in DOMAIN new
  BY <1>2, <1>3 DEF IsJoin
<1>5. ASSUME NEW id \in IdsOf(list)
      PROVE  Entry(new, id) = Entry(list, id)
  <2>1. PICK i \in 1 .. n : id = list[i].id
    BY <1>4 DEF IdsOf
  <2>2. Entry(list, id) = list[i]
    BY <1>4, <2>1, EntryIs DEF IsHistory
  <2>3. id = new[i].id /\ i \in DOMAIN new
    BY <1>4, <2>1
  <2>4. Entry(new, id) = new[i]
    BY <1>2, <2>3, EntryIs
  <2>5. QED BY <1>4, <2>2, <2>4
<1>6. ASSUME NEW i \in 1 .. k
      PROVE  Entry(new, added[i].id) = added[i]
  <2>1. added[i] = new[n + i] /\ n + i \in DOMAIN new
    BY <1>4
  <2>2. Entry(new, new[n + i].id) = new[n + i]
    BY <1>2, <2>1, EntryIs
  <2>3. QED BY <2>1, <2>2
<1> DEFINE q == [i \in 1 .. k |-> added[i].id]
<1>7. q \in Seq({q[i] : i \in 1 .. k}) /\ Len(q) = k /\ DOMAIN q = 1 .. k
  <2>1. PICK S : S = {q[i] : i \in 1 .. k}
    OBVIOUS
  <2>2. q \in [1 .. k -> S]
    BY <2>1
  <2> HIDE DEF q
  <2>3. QED BY <1>4, <2>1, <2>2, FunctionIsSeq
<1>8. Grafted(Over(list), Over(new), from, q)
  <2>1. DOMAIN Over(list) = IdsOf(list) /\ DOMAIN Over(new) = IdsOf(new)
    BY DEF Over
  <2>2. IsSequence(q)
    BY <1>7 DEF IsSequence
  <2>3. \A i, j \in DOMAIN q : q[i] = q[j] => i = j
    BY <1>4, <1>7 DEF Hung
  <2>4. \A i \in DOMAIN q : q[i] \notin IdsOf(list) \cup {None}
    BY <1>4, <1>7 DEF Hung
  <2>5. {added[i].id : i \in DOMAIN added} = {q[i] : i \in DOMAIN q}
    BY <1>4, <1>7
  <2>6. \A id \in IdsOf(list) : Over(new)[id] = Over(list)[id]
    <3>1. \A id \in IdsOf(list) : id \in IdsOf(new)
      BY <1>2
    <3>2. QED BY <1>5, <3>1 DEF Over
  <2>7. ASSUME NEW i \in 1 .. k
        PROVE  Over(new)[q[i]] = IF i = 1 THEN from ELSE q[i - 1]
    <3>1. added[i].id \in IdsOf(new)
      BY <1>2, <1>4
    <3>2. Over(new)[added[i].id] = added[i].parentId
      BY <1>6, <3>1 DEF Over
    <3>3. added[i].parentId = IF i = 1 THEN from ELSE added[i - 1].id
      BY <1>4 DEF Hung
    <3>4. i # 1 => i - 1 \in 1 .. k
      BY <1>4
    <3>5. QED BY <3>2, <3>3, <3>4
  <2>8. from \in IdsOf(list) \cup {None}
    BY DEF Hung
  <2> HIDE DEF q
  <2>9. QED BY <1>2, <1>7, <2>1, <2>2, <2>3, <2>4, <2>5, <2>6, <2>7, <2>8 DEF Grafted
<1> HIDE DEF q
<1>9. Grows(Over(list), Over(new), from, q)
  BY <1>8, LinesGrow DEF IsHistory
<1>10. IsHistory(new)
  BY <1>2, <1>9 DEF IsHistory, Grows
<1>11. \A l, leaf : PathIds(l, leaf) = Branch(Over(l), leaf)
  BY DEF PathIds, Over
<1>12. DOMAIN Over(list) = IdsOf(list)
  BY DEF Over
<1>13. ASSUME NEW leaf \in IdsOf(list) \cup {None}
       PROVE  PathIds(new, leaf) = PathIds(list, leaf) /\ VisibleBranch(new, leaf) = VisibleBranch(list, leaf)
  <2>1. PICK p : p = PathIds(list, leaf)
    OBVIOUS
  <2>2. PathIds(new, leaf) = p
    BY <1>9, <1>11, <1>12, <2>1 DEF Grows
  <2>3. p \in Seq(IdsOf(list)) /\ Len(p) \in Nat /\ DOMAIN p = 1 .. Len(p)
    BY <2>1, PathsAre
  <2>4. \A i \in DOMAIN p : Entry(new, p[i]) = Entry(list, p[i])
    BY <1>5, <2>3, ElementOfSeq
  <2>5. QED BY <2>1, <2>2, <2>4 DEF VisibleBranch
<1>14. ASSUME NEW m \in 1 .. k
       PROVE  /\ IsJoin(PathIds(list, from), [i \in 1 .. m |-> added[i].id], PathIds(new, added[m].id))
              /\ IsJoin(VisibleBranch(list, from), [i \in 1 .. m |-> added[i]],
                        VisibleBranch(new, added[m].id))
  <2>1. PICK p, s, r : p = PathIds(list, from) /\ s = SubSeq(q, 1, m) /\ r = PathIds(new, added[m].id)
    OBVIOUS
  <2>2. r = p \o s
    <3>1. q[m] = added[m].id
      BY DEF q
    <3>2. QED BY <1>7, <1>9, <1>11, <2>1, <3>1 DEF Grows
  <2>3. /\ s \in Seq({q[i] : i \in DOMAIN q}) /\ Len(s) = m /\ DOMAIN s = 1 .. m /\ m \in Nat
        /\ \A i \in 1 .. m : s[i] = q[i]
    <3>1. IsSequence(q) /\ m \in DOMAIN q
      BY <1>7 DEF IsSequence
    <3>2. QED BY <2>1, <3>1, FirstOnes
  <2>4. \A i \in 1 .. m : i \in 1 .. k
    BY <1>4
  <2>5. s = [i \in 1 .. m |-> added[i].id]
    <3>1. \A i \in 1 .. m : s[i] = added[i].id
      BY <2>3, <2>4 DEF q
    <3>2. s = [i \in 1 .. m |-> s[i]]
      BY <2>3
    <3>3. QED BY <3>1, <3>2
  <2>6. from \in IdsOf(list) \cup {None}
    BY DEF Hung
  <2>7. p \in Seq(IdsOf(list)) /\ Len(p) \in Nat /\ DOMAIN p = 1 .. Len(p)
    BY <2>1, <2>6, PathsAre
  <2>8. IsJoin(p, s, r)
    <3>1. p \in Seq(IdsOf(list) \cup {q[i] : i \in DOMAIN q})
      BY <2>7, SeqMonotonic
    <3>2. s \in Seq(IdsOf(list) \cup {q[i] : i \in DOMAIN q})
      BY <2>3, SeqMonotonic
    <3>3. QED BY <2>2, <3>1, <3>2, JoinIs
  <2>9. PICK b, c, t : /\ b = VisibleBranch(list, from) /\ c = VisibleBranch(new, added[m].id)
                       /\ t = [i \in 1 .. m |-> added[i]]
    OBVIOUS
  <2>10. Len(b) = Len(p) /\ DOMAIN b = 1 .. Len(p) /\ \A i \in 1 .. Len(p) : b[i] = Entry(list, p[i])
    BY <2>1, <2>6, <2>9, PathsAre
  <2>11. Len(c) = Len(r) /\ DOMAIN c = 1 .. Len(r) /\ \A i \in 1 .. Len(r) : c[i] = Entry(new, r[i])
    <3>1. added[m].id \in IdsOf(new)
      BY <1>2, <1>4
    <3>2. QED BY <1>10, <2>1, <2>9, <3>1, PathsAre
  <2>12. Len(t) = m /\ DOMAIN t = 1 .. m
    <3>1. t \in [1 .. m -> {added[i] : i \in 1 .. m}]
      BY <2>9
    <3>2. QED BY <2>3, <3>1, FunctionIsSeq
  <2>13. Len(r) = Len(p) + m /\ Len(c) = Len(b) + m
    BY <2>3, <2>8, <2>10, <2>11 DEF IsJoin
  <2>14. ASSUME NEW i \in 1 .. Len(p)
         PROVE  c[i] = b[i]
    <3>1. r[i] = p[i] /\ i \in 1 .. Len(r)
      BY <2>3, <2>7, <2>8, <2>13 DEF IsJoin
    <3>2. p[i] \in IdsOf(list)
      BY <2>7, ElementOfSeq
    <3>3. QED BY <1>5, <2>10, <2>11, <3>1, <3>2
  <2>15. ASSUME NEW i \in 1 .. m
         PROVE  c[Len(b) + i] = t[i]
    <3>1. r[Len(p) + i] = s[i] /\ Len(p) + i \in 1 .. Len(r)
      BY <2>3, <2>7, <2>8, <2>13 DEF IsJoin
    <3>2. c[Len(p) + i] = Entry(new, added[i].id)
      BY <2>5, <2>11, <3>1
    <3>3. QED BY <1>6, <2>4, <2>9, <2>10, <3>2
  <2>16. IsJoin(b, t, c)
    BY <2>3, <2>7, <2>10, <2>11, <2>12, <2>13, <2>14, <2>15 DEF IsJoin
  <2>17. QED BY <2>1, <2>5, <2>8, <2>9, <2>16
<1>15. HistoryGrows(list, added, from, new)
  BY <1>2, <1>4, <1>5, <1>6, <1>10, <1>13, <1>14 DEF HistoryGrows
<1>16. QED BY <1>1, <1>15
-----------------------------------------------------------------------------
(* What a branch says, as it grows.                                        *)

\* What the entries of a branch say, from one of them to another.
Tell(path, i, j) == FlattenSeq([k \in 1 .. j - i + 1 |-> path[i + k - 1].says])

\* A branch whose entries say what the model may be told.
Speaks(path) ==
  /\ Len(path) \in Nat /\ DOMAIN path = 1 .. Len(path)
  /\ \A i \in 1 .. Len(path) : path[i].says \in Seq(Spoken)

\* A sequence with one element more.
Extended(path, e, r) ==
  /\ Len(path) \in Nat /\ Len(r) = Len(path) + 1
  /\ DOMAIN path = 1 .. Len(path) /\ DOMAIN r = 1 .. Len(path) + 1
  /\ \A i \in 1 .. Len(path) : r[i] = path[i]
  /\ r[Len(path) + 1] = e

LEMMA TellMore ==
  ASSUME NEW path, NEW e, NEW r, Extended(path, e, r), Speaks(path), e.says \in Seq(Spoken),
         NEW n, n = Len(path), NEW i \in 1 .. n + 1
  PROVE  /\ Speaks(r) /\ Tell(path, i, n) \in Seq(Spoken)
         /\ Tell(r, i, n + 1) = Tell(path, i, n) \o e.says
<1>1. /\ n \in Nat /\ Len(r) = n + 1 /\ DOMAIN r = 1 .. n + 1 /\ r[n + 1] = e
      /\ \A j \in 1 .. n : r[j] = path[j]
  BY DEF Extended
<1>2. \A j \in 1 .. n : path[j].says \in Seq(Spoken)
  BY DEF Speaks
<1>3. Speaks(r)
  <2>1. \A j \in 1 .. n + 1 : j \in 1 .. n \/ j = n + 1
    BY <1>1
  <2>2. n + 1 \in Nat
    BY <1>1
  <2>3. \A j \in 1 .. n + 1 : r[j].says \in Seq(Spoken)
    BY <1>1, <1>2, <2>1
  <2>4. QED BY <1>1, <2>2, <2>3 DEF Speaks
<1>4. PICK m : m = n - i + 1
  OBVIOUS
<1>5. m \in Nat /\ n + 1 - i + 1 = m + 1 /\ i + (m + 1) - 1 = n + 1
  BY <1>1, <1>4
<1>6. PICK s : s = [k \in 1 .. m |-> path[i + k - 1].says]
  OBVIOUS
<1>7. PICK t : t = [k \in 1 .. m + 1 |-> r[i + k - 1].says]
  OBVIOUS
<1>8. \A k \in 1 .. m : i + k - 1 \in 1 .. n
  BY <1>1, <1>4
<1>9. s \in [1 .. m -> Seq(Spoken)]
  BY <1>2, <1>6, <1>8
<1>10. \A k \in 1 .. m + 1 : k \in 1 .. m \/ k = m + 1
  BY <1>5
<1>11. t[m + 1] = e.says
  <2>1. m + 1 \in 1 .. m + 1
    BY <1>5
  <2>2. t[m + 1] = r[i + (m + 1) - 1].says
    BY <1>7, <2>1
  <2>3. QED BY <1>1, <1>5, <2>2
<1>12. \A k \in 1 .. m : t[k] = s[k]
  <2>1. \A k \in 1 .. m : k \in 1 .. m + 1
    BY <1>5
  <2>2. QED BY <1>1, <1>6, <1>7, <1>8, <2>1
<1>13. t \in [1 .. m + 1 -> Seq(Spoken)]
  <2>1. t = [k \in 1 .. m + 1 |-> t[k]]
    BY <1>7
  <2>2. \A k \in 1 .. m + 1 : t[k] \in Seq(Spoken)
    BY <1>9, <1>10, <1>11, <1>12
  <2>3. QED BY <2>1, <2>2
<1>14. SameUpTo(m, s, t)
  BY <1>12 DEF SameUpTo
<1>15. FlattenSeq(s) \in Seq(Spoken) /\ FlattenSeq(t) = FlattenSeq(s) \o t[m + 1]
  BY <1>5, <1>9, <1>13, <1>14, FlattenMore
<1>16. Tell(path, i, n) = FlattenSeq(s)
  BY <1>4, <1>6 DEF Tell
<1>17. Tell(r, i, n + 1) = FlattenSeq(t)
  <2>1. PICK w : w = n + 1 - i + 1
    OBVIOUS
  <2>2. w = m + 1
    BY <1>5, <2>1
  <2>3. Tell(r, i, n + 1) = FlattenSeq([k \in 1 .. w |-> r[i + k - 1].says])
    BY <2>1 DEF Tell
  <2>4. QED BY <1>7, <2>2, <2>3
<1>18. QED BY <1>3, <1>11, <1>15, <1>16, <1>17

\* It is a sequence, and nothing if there is no entry.
LEMMA TellNothing ==
  ASSUME NEW path, NEW n \in Nat
  PROVE  Tell(path, n + 1, n) = <<>>
<1>1. n - (n + 1) + 1 = 0
  OBVIOUS
<1>2. [k \in 1 .. 0 |-> path[(n + 1) + k - 1].says] = <<>>
  OBVIOUS
<1>3. Tell(path, n + 1, n) = FlattenSeq(<<>>)
  <2>1. PICK f : f = [k \in 1 .. n - (n + 1) + 1 |-> path[(n + 1) + k - 1].says]
    OBVIOUS
  <2>2. f = <<>>
    BY <1>1, <2>1
  <2>3. Tell(path, n + 1, n) = FlattenSeq(f)
    BY <2>1 DEF Tell
  <2>4. QED BY <2>2, <2>3
<1>4. QED BY <1>3, FlattenNone

\* The part of a branch up to an entry.
First(path, n) == [i \in 1 .. n |-> path[i]]
Prefix(path, n) ==
  /\ Speaks(First(path, n)) /\ Len(First(path, n)) = n
  /\ Extended(First(path, n), path[n + 1], First(path, n + 1))

LEMMA PrefixIs ==
  ASSUME NEW path, Speaks(path), NEW n \in Nat, n + 1 <= Len(path)
  PROVE  Prefix(path, n)
<1>1. ASSUME NEW m \in Nat, m <= Len(path), NEW p, p = [i \in 1 .. m |-> path[i]]
      PROVE  Len(p) = m /\ DOMAIN p = 1 .. m /\ \A i \in 1 .. m : p[i] = path[i] /\ i \in 1 .. Len(path)
  <2>1. PICK S : S = {path[i] : i \in 1 .. m}
    OBVIOUS
  <2>2. p \in [1 .. m -> S]
    BY <1>1, <2>1
  <2>3. Len(p) = m /\ DOMAIN p = 1 .. m
    BY <2>2, FunctionIsSeq
  <2>4. QED BY <1>1, <2>3 DEF Speaks
<1>2. PICK p, r : p = [i \in 1 .. n |-> path[i]] /\ r = [i \in 1 .. n + 1 |-> path[i]]
  OBVIOUS
<1>3. n \in Nat /\ n <= Len(path) /\ n + 1 \in Nat
  BY DEF Speaks
<1>4. Len(p) = n /\ DOMAIN p = 1 .. n /\ \A i \in 1 .. n : p[i] = path[i] /\ i \in 1 .. Len(path)
  BY <1>1, <1>2, <1>3
<1>5. Len(r) = n + 1 /\ DOMAIN r = 1 .. n + 1 /\ \A i \in 1 .. n + 1 : r[i] = path[i]
  BY <1>1, <1>2, <1>3
<1>6. Speaks(p)
  BY <1>3, <1>4 DEF Speaks
<1>7. Extended(p, path[n + 1], r)
  <2>1. n + 1 \in 1 .. n + 1 /\ \A i \in 1 .. n : i \in 1 .. n + 1
    BY <1>3
  <2>2. r[n + 1] = path[n + 1] /\ \A i \in 1 .. n : r[i] = p[i]
    BY <1>4, <1>5, <2>1
  <2>3. QED BY <1>3, <1>4, <1>5, <2>2 DEF Extended
<1>8. p = First(path, n) /\ r = First(path, n + 1)
  BY <1>2 DEF First
<1>9. QED BY <1>4, <1>6, <1>7, <1>8 DEF Prefix

\* What a part of a branch says is what its entries say.
LEMMA TellOfPart ==
  ASSUME NEW path, NEW n \in Nat, NEW i \in 1 .. n + 1
  PROVE  Tell(First(path, n), i, n) = Tell(path, i, n)
<1>1. \A k \in 1 .. n - i + 1 : i + k - 1 \in 1 .. n
  OBVIOUS
<1>2. \A k \in 1 .. n - i + 1 : First(path, n)[i + k - 1] = path[i + k - 1]
  BY <1>1 DEF First
<1>3. QED BY <1>2 DEF Tell

\* What all entries say from one on, when the others before it are left out.
Muted(path, m, k) == [i \in 1 .. m |-> IF k <= i THEN path[i].says ELSE <<>>]

LEMMA MutedTell ==
  ASSUME NEW path, Speaks(path), NEW n, n = Len(path), NEW k \in 1 .. n + 1
  PROVE  FlattenSeq(Muted(path, n, k)) = Tell(path, k, n) /\ Tell(path, k, n) \in Seq(Spoken)
<1>1. n \in Nat /\ \A i \in 1 .. n : path[i].says \in Seq(Spoken)
  BY DEF Speaks
<1>2. <<>> \in Seq(Spoken)
  OBVIOUS
<1>3. \A m \in Nat : m <= n => Muted(path, m, k) \in [1 .. m -> Seq(Spoken)]
  <2>1. TAKE m \in Nat
  <2>2. HAVE m <= n
  <2>3. \A i \in 1 .. m : i \in 1 .. n
    BY <1>1, <2>2
  <2>4. \A i \in 1 .. m : (IF k <= i THEN path[i].says ELSE <<>>) \in Seq(Spoken)
    BY <1>1, <1>2, <2>3
  <2>5. QED BY <2>4 DEF Muted
<1> DEFINE Good(m) ==
      FlattenSeq(Muted(path, m, k)) = IF m < k THEN <<>> ELSE Tell(path, k, m)
<1> DEFINE S == {m \in Nat : m <= n => Good(m)}
<1>4. 0 \in S
  <2>1. Muted(path, 0, k) = <<>>
    BY DEF Muted
  <2>2. 0 < k
    BY <1>1
  <2>3. QED BY <2>1, <2>2, FlattenNone
<1>5. ASSUME NEW m \in S
      PROVE  m + 1 \in S
  <2>1. SUFFICES ASSUME m + 1 <= n
                 PROVE  Good(m + 1)
    OBVIOUS
  <2>2. m \in Nat /\ m + 1 \in Nat /\ m <= n /\ Good(m)
    BY <1>1, <2>1
  <2> HIDE DEF Good, S
  <2>3. PICK s, t : s = Muted(path, m, k) /\ t = Muted(path, m + 1, k)
    OBVIOUS
  <2>4. s \in [1 .. m -> Seq(Spoken)] /\ t \in [1 .. m + 1 -> Seq(Spoken)]
    BY <1>3, <2>1, <2>2, <2>3
  <2>5. SameUpTo(m, s, t)
    <3>1. \A i \in 1 .. m : i \in 1 .. m + 1
      BY <2>2
    <3>2. QED BY <2>3, <3>1 DEF SameUpTo, Muted
  <2>6. FlattenSeq(s) \in Seq(Spoken) /\ FlattenSeq(t) = FlattenSeq(s) \o t[m + 1]
    BY <2>2, <2>4, <2>5, FlattenMore
  <2>7. t[m + 1] = IF k <= m + 1 THEN path[m + 1].says ELSE <<>>
    <3>1. m + 1 \in 1 .. m + 1
      BY <2>2
    <3>2. QED BY <2>3, <3>1 DEF Muted
  <2>8. FlattenSeq(s) = IF m < k THEN <<>> ELSE Tell(path, k, m)
    BY <2>2, <2>3 DEF Good
  <2>9. CASE m + 1 < k
    <3>1. FlattenSeq(t) = <<>> \o <<>>
      BY <1>1, <2>2, <2>6, <2>7, <2>8, <2>9
    <3>2. FlattenSeq(t) = <<>>
      BY <3>1
    <3>3. QED BY <2>3, <2>9, <3>2 DEF Good
  <2>10. CASE ~(m + 1 < k)
    <3>1. PICK p, r : p = First(path, m) /\ r = First(path, m + 1)
      OBVIOUS
    <3>2. Speaks(p) /\ Len(p) = m /\ Extended(p, path[m + 1], r)
      <4>1. m + 1 <= Len(path)
        BY <2>1
      <4>2. Prefix(path, m)
        <5>1. m \in Nat
          BY <2>2
        <5>2. QED BY <4>1, <5>1, PrefixIs, Zenon
      <4>3. QED BY <3>1, <4>2 DEF Prefix
    <3>3. path[m + 1].says \in Seq(Spoken)
      BY <1>1, <2>1, <2>2
    <3>4. k \in 1 .. m + 1
      BY <1>1, <2>2, <2>10
    <3>5. Tell(p, k, m) \in Seq(Spoken) /\ Tell(r, k, m + 1) = Tell(p, k, m) \o path[m + 1].says
      <4>1. m = Len(p)
        BY <3>2
      <4>2. QED BY <3>2, <3>3, <3>4, <4>1, TellMore, Zenon
    <3>6. Tell(p, k, m) = Tell(path, k, m)
      BY <2>2, <3>1, <3>4, TellOfPart
    <3>7. Tell(r, k, m + 1) = Tell(path, k, m + 1)
      <4>1. k \in 1 .. (m + 1) + 1
        BY <2>2, <3>4
      <4>2. QED BY <2>2, <3>1, <4>1, TellOfPart
    <3>8. FlattenSeq(s) = Tell(path, k, m)
      <4>1. CASE m < k
        <5>1. k = m + 1
          BY <2>2, <3>4, <4>1
        <5>2. Tell(path, k, m) = <<>>
          BY <2>2, <5>1, TellNothing
        <5>3. QED BY <2>8, <4>1, <5>2
      <4>2. CASE ~(m < k)
        BY <2>8, <4>2
      <4>3. QED BY <4>1, <4>2
    <3>9. t[m + 1] = path[m + 1].says
      BY <2>2, <2>7, <3>4
    <3>10. FlattenSeq(t) = Tell(path, k, m + 1)
      BY <2>6, <3>5, <3>6, <3>7, <3>8, <3>9
    <3>11. QED BY <2>3, <2>10, <3>10 DEF Good
  <2>11. QED BY <2>9, <2>10
<1>6. S = Nat
  BY <1>4, <1>5, NatSets
<1>7. Good(n)
  <2>1. n \in S => (n <= n => Good(n))
    OBVIOUS
  <2> HIDE DEF S, Good
  <2>2. QED BY <1>1, <1>6, <2>1
<1> HIDE DEF S
<1>8. FlattenSeq(Muted(path, n, k)) = Tell(path, k, n)
  <2>1. CASE n < k
    <3>1. k = n + 1
      BY <1>1, <2>1
    <3>2. Tell(path, k, n) = <<>>
      BY <1>1, <3>1, TellNothing
    <3>3. QED BY <1>7, <2>1, <3>2
  <2>2. CASE ~(n < k)
    BY <1>7, <2>2
  <2>3. QED BY <2>1, <2>2
<1>9. FlattenSeq(Muted(path, n, k)) \in Seq(Spoken)
  <2>1. CASE n = 0
    <3>1. Muted(path, n, k) = <<>>
      BY <2>1 DEF Muted
    <3>2. QED BY <1>2, <3>1, FlattenNone
  <2>2. CASE n # 0
    <3>1. Muted(path, n, k) \in [1 .. n -> Seq(Spoken)]
      BY <1>1, <1>3
    <3>2. PICK f : FlattenSeq(Muted(path, n, k)) = f[n] /\ f[n] \in Seq(Spoken)
      BY <1>1, <2>2, <3>1, FlattenIs
    <3>3. QED BY <3>2
  <2>3. QED BY <2>1, <2>2
<1>10. QED BY <1>8, <1>9

-----------------------------------------------------------------------------
(* What is sent for a branch: from the last entry that cuts it on.         *)

\* The last entry that cuts a branch, or 0.
IsLastCut(path, last) ==
  /\ last \in 0 .. Len(path)
  /\ last # 0 => path[last].type = "compaction"
  /\ \A i \in last + 1 .. Len(path) : path[i].type # "compaction"

\* What is sent for a branch, when open[i] is what entry i stands for if it cuts it.
Opened(open, last) == IF last = 0 THEN <<>> ELSE open[last]
Sends(path, open, context) ==
  \E last : IsLastCut(path, last) /\ context = Opened(open, last) \o Tell(path, last + 1, Len(path))
Opens(path, open) == \A i \in 1 .. Len(path) : open[i] \in Seq(Spoken)

\* All that a branch says, as a sequence.
LEMMA TellTyped ==
  ASSUME NEW path, Speaks(path), NEW n, n = Len(path), NEW i \in 1 .. n + 1
  PROVE  Tell(path, i, n) \in Seq(Spoken)
  BY MutedTell

LEMMA OpenedTyped ==
  ASSUME NEW path, NEW open, Opens(path, open), NEW last, IsLastCut(path, last), Len(path) \in Nat
  PROVE  Opened(open, last) \in Seq(Spoken)
<1>1. <<>> \in Seq(Spoken)
  OBVIOUS
<1>2. last # 0 => last \in 1 .. Len(path)
  BY DEF IsLastCut
<1>3. QED BY <1>1, <1>2 DEF Opened, Opens

LEMMA LastCutIsOne ==
  ASSUME NEW path, Len(path) \in Nat, NEW i, NEW j, IsLastCut(path, i), IsLastCut(path, j)
  PROVE  i = j
<1>1. i \in Nat /\ j \in Nat /\ i <= Len(path) /\ j <= Len(path)
  BY DEF IsLastCut
<1>2. CASE i < j
  <2>1. j \in i + 1 .. Len(path) /\ j # 0
    BY <1>1, <1>2
  <2>2. QED BY <2>1 DEF IsLastCut
<1>3. CASE j < i
  <2>1. i \in j + 1 .. Len(path) /\ i # 0
    BY <1>1, <1>3
  <2>2. QED BY <2>1 DEF IsLastCut
<1>4. QED BY <1>1, <1>2, <1>3

\* It is determined by the branch.
LEMMA SendsOne ==
  ASSUME NEW path, Len(path) \in Nat, NEW open, NEW c, NEW d, Sends(path, open, c), Sends(path, open, d)
  PROVE  c = d
<1>1. PICK i : IsLastCut(path, i) /\ c = Opened(open, i) \o Tell(path, i + 1, Len(path))
  BY Zenon DEF Sends
<1>2. PICK j : IsLastCut(path, j) /\ d = Opened(open, j) \o Tell(path, j + 1, Len(path))
  BY Zenon DEF Sends
<1>3. i = j
  BY <1>1, <1>2, LastCutIsOne
<1>4. QED BY <1>1, <1>2, <1>3

LEMMA SendsTyped ==
  ASSUME NEW path, Speaks(path), NEW open, Opens(path, open), NEW c, Sends(path, open, c)
  PROVE  c \in Seq(Spoken)
<1>1. PICK last : IsLastCut(path, last) /\ c = Opened(open, last) \o Tell(path, last + 1, Len(path))
  BY Zenon DEF Sends
<1>2. Opened(open, last) \in Seq(Spoken)
  BY <1>1, OpenedTyped DEF Speaks
<1>3. Tell(path, last + 1, Len(path)) \in Seq(Spoken)
  <2>1. PICK n, i : n = Len(path) /\ i = last + 1
    OBVIOUS
  <2>2. i \in 1 .. n + 1
    BY <1>1, <2>1 DEF IsLastCut, Speaks
  <2>3. QED BY <2>1, <2>2, TellTyped
<1>4. QED BY <1>1, <1>2, <1>3, ConcatProperties

\* An entry more that does not cut the branch is sent behind what was.
LEMMA SendsMore ==
  ASSUME NEW path, NEW e, NEW r, Extended(path, e, r), Speaks(path), e.says \in Seq(Spoken),
         e.type # "compaction", NEW open, NEW more, Opens(path, open),
         \A i \in 1 .. Len(path) : more[i] = open[i], NEW c, Sends(path, open, c)
  PROVE  Sends(r, more, c \o e.says)
<1>1. PICK n : n = Len(path)
  OBVIOUS
<1>2. n \in Nat /\ Len(r) = n + 1 /\ r[n + 1] = e /\ \A i \in 1 .. n : r[i] = path[i]
  BY <1>1 DEF Extended
<1>3. PICK last : IsLastCut(path, last) /\ c = Opened(open, last) \o Tell(path, last + 1, n)
  BY <1>1, Zenon DEF Sends
<1>4. last \in Nat /\ last <= n /\ last + 1 \in 1 .. n + 1
  BY <1>1, <1>2, <1>3 DEF IsLastCut
<1>5. IsLastCut(r, last)
  <2>1. last \in 0 .. n + 1 /\ (last # 0 => last \in 1 .. n)
    BY <1>2, <1>4
  <2>2. \A i \in last + 1 .. n + 1 : i = n + 1 \/ (i \in last + 1 .. n /\ i \in 1 .. n)
    BY <1>2, <1>4
  <2>3. last # 0 => r[last].type = "compaction"
    BY <1>2, <1>3, <2>1 DEF IsLastCut
  <2>4. \A i \in last + 1 .. n + 1 : r[i].type # "compaction"
    BY <1>1, <1>2, <1>3, <2>2 DEF IsLastCut
  <2>5. QED BY <1>2, <2>1, <2>3, <2>4 DEF IsLastCut
<1>6. Opened(more, last) = Opened(open, last)
  <2>1. last # 0 => last \in 1 .. Len(path)
    BY <1>1, <1>2, <1>4
  <2>2. QED BY <2>1 DEF Opened
<1>7. Opened(open, last) \in Seq(Spoken)
  BY <1>1, <1>2, <1>3, OpenedTyped
<1>8. Tell(path, last + 1, n) \in Seq(Spoken) /\ Tell(r, last + 1, n + 1) = Tell(path, last + 1, n) \o e.says
  <2>1. PICK i : i = last + 1
    OBVIOUS
  <2>2. i \in 1 .. n + 1
    BY <1>4, <2>1
  <2>3. Tell(path, i, n) \in Seq(Spoken) /\ Tell(r, i, n + 1) = Tell(path, i, n) \o e.says
    <3>1. e.says \in Seq(Spoken)
      OBVIOUS
    <3>2. QED BY <1>1, <2>2, <3>1, TellMore, ZenonT(30)
  <2>4. QED BY <2>1, <2>3
<1>9. PICK o, t : o = Opened(open, last) /\ t = Tell(path, last + 1, n)
  OBVIOUS
<1>10. o \o (t \o e.says) = (o \o t) \o e.says
  <2>1. PICK x : x = e.says
    OBVIOUS
  <2>2. o \in Seq(Spoken) /\ t \in Seq(Spoken) /\ x \in Seq(Spoken)
    BY <1>7, <1>8, <1>9, <2>1
  <2>3. (o \o t) \o x = o \o (t \o x)
    BY <2>2, ConcatAssociative
  <2>4. QED BY <2>1, <2>3
<1>11. c \o e.says = Opened(more, last) \o Tell(r, last + 1, Len(r))
  BY <1>2, <1>3, <1>6, <1>8, <1>9, <1>10
<1>12. QED BY <1>5, <1>11, Zenon DEF Sends

\* One that cuts it is sent as what it stands for.
LEMMA SendsCut ==
  ASSUME NEW path, NEW e, NEW r, Extended(path, e, r), Len(path) \in Nat,
         e.type = "compaction", NEW open, NEW c \in Seq(Spoken), open[Len(path) + 1] = c
  PROVE  Sends(r, open, c)
<1>1. PICK n, m : n = Len(path) /\ m = n + 1
  OBVIOUS
<1>2. n \in Nat /\ m \in Nat /\ Len(r) = m /\ r[m] = e /\ m # 0
  BY <1>1 DEF Extended
<1>3. IsLastCut(r, m)
  <2>1. m \in 0 .. m /\ m + 1 .. m = {}
    BY <1>2
  <2>2. QED BY <1>2, <2>1 DEF IsLastCut
<1>4. Tell(r, m + 1, m) = <<>>
  BY <1>2, TellNothing
<1>5. Opened(open, m) = c
  BY <1>1, <1>2 DEF Opened
<1>6. c \o <<>> = c
  BY ConcatEmptySeq
<1>7. c = Opened(open, m) \o Tell(r, m + 1, Len(r))
  BY <1>2, <1>4, <1>5, <1>6
<1>8. QED BY <1>3, <1>7, Zenon DEF Sends

\* Every branch has one that cuts it last, or none.
LEMMA BehindIs ==
  ASSUME NEW n \in Nat, NEW l \in 1 .. n
  PROVE  l \in 0 .. n /\ l # 0 /\ \A i \in l + 1 .. n : i \in 1 .. n /\ ~(i <= l)
  OBVIOUS

Cuts(path) == {i \in DOMAIN path : path[i].type = "compaction"}
Greatest(S) == CHOOSE i \in S : \A j \in S : j <= i
LastCut(path) == IF Cuts(path) = {} THEN 0 ELSE Greatest(Cuts(path))

LEMMA LastCutExists ==
  ASSUME NEW path, Len(path) \in Nat, DOMAIN path = 1 .. Len(path)
  PROVE  /\ IsLastCut(path, LastCut(path)) /\ (LastCut(path) = 0 <=> Cuts(path) = {})
         /\ LastCut(path) \in Nat /\ LastCut(path) <= Len(path)
<1>0. PICK cuts, last : cuts = Cuts(path) /\ last = LastCut(path)
  OBVIOUS
<1>a. cuts = {i \in 1 .. Len(path) : path[i].type = "compaction"}
  BY <1>0 DEF Cuts
<1>b. last = IF cuts = {} THEN 0 ELSE Greatest(cuts)
  BY <1>0 DEF LastCut
<1>1. CASE cuts = {}
  <2>1. \A i \in 0 + 1 .. Len(path) : i \in 1 .. Len(path)
    OBVIOUS
  <2>2. \A i \in 1 .. Len(path) : path[i].type # "compaction"
    BY <1>1, <1>a
  <2>3. last = 0
    BY <1>1, <1>b
  <2>4. IsLastCut(path, last)
    BY <2>1, <2>2, <2>3 DEF IsLastCut
  <2>5. QED BY <1>0, <1>1, <2>3, <2>4
<1>2. CASE cuts # {}
  <2>1. cuts \in SUBSET (1 .. Len(path))
    BY <1>a
  <2>2. \E i \in cuts : \A j \in cuts : j <= i
    BY <1>2, <2>1, IndexMax
  <2>3. last \in cuts /\ \A j \in cuts : j <= last
    BY <1>2, <1>b, <2>2 DEF Greatest
  <2>4. last \in 1 .. Len(path) /\ path[last].type = "compaction"
    BY <1>a, <2>3
  <2>5. ASSUME NEW i \in last + 1 .. Len(path)
        PROVE  path[i].type # "compaction"
    <3>1. i \in 1 .. Len(path) /\ ~(i <= last)
      BY <2>4, BehindIs
    <3>2. QED BY <1>a, <2>3, <3>1
  <2>6. last \in 0 .. Len(path) /\ last # 0 /\ last \in Nat /\ last <= Len(path)
    BY <2>4, BehindIs
  <2>7. IsLastCut(path, last)
    BY <2>4, <2>5, <2>6, Zenon DEF IsLastCut
  <2>8. QED BY <1>0, <1>2, <2>6, <2>7
<1>3. QED BY <1>1, <1>2
-----------------------------------------------------------------------------
(* What the extensions' reader makes of a branch.                          *)

\* What is kept before a compaction, entry by entry, and what it stands for.
KeptOf(path, i) ==
  [j \in 1 .. i - 1 |-> IF \E h \in 1 .. j : path[h].id = path[i].firstKeptEntryId
                        THEN path[j].says ELSE <<>>]
Openings(path) == [i \in DOMAIN path |-> path[i].says \o FlattenSeq(KeptOf(path, i))]

LEMMA FlattenTyped ==
  ASSUME NEW S, NEW n \in Nat, NEW seqs \in [1 .. n -> Seq(S)]
  PROVE  FlattenSeq(seqs) \in Seq(S)
<1>1. CASE n = 0
  <2>1. Len(seqs) = 0 /\ seqs \in Seq(Seq(S))
    BY <1>1, FunctionIsSeq
  <2>2. seqs = <<>>
    BY <2>1, EmptySeq
  <2>3. FlattenSeq(seqs) = <<>> /\ <<>> \in Seq(S)
    BY <2>2, FlattenNone
  <2>4. QED BY <2>3
<1>2. CASE n # 0
  <2>1. PICK f : FlattenSeq(seqs) = f[n] /\ f[n] \in Seq(S)
    BY <1>2, FlattenIs
  <2>2. QED BY <2>1
<1>3. QED BY <1>1, <1>2

LEMMA OpeningsTyped ==
  ASSUME NEW path, Speaks(path)
  PROVE  Opens(path, Openings(path))
<1> SUFFICES ASSUME NEW i \in 1 .. Len(path)
             PROVE  Openings(path)[i] \in Seq(Spoken)
  BY DEF Opens
<1>1. Len(path) \in Nat /\ DOMAIN path = 1 .. Len(path) /\ \A j \in 1 .. Len(path) : path[j].says \in Seq(Spoken)
  BY DEF Speaks
<1>2. PICK m : m = i - 1
  OBVIOUS
<1>3. m \in Nat /\ \A j \in 1 .. m : j \in 1 .. Len(path)
  BY <1>1, <1>2
<1>4. <<>> \in Seq(Spoken)
  OBVIOUS
<1>5. KeptOf(path, i) \in [1 .. m -> Seq(Spoken)]
  <2>1. \A j \in 1 .. m : path[j].says \in Seq(Spoken)
    BY <1>1, <1>3
  <2>2. QED BY <1>2, <1>4, <2>1 DEF KeptOf
<1>6. PICK f : f = FlattenSeq(KeptOf(path, i))
  OBVIOUS
<1>7. f \in Seq(Spoken)
  BY <1>3, <1>5, <1>6, FlattenTyped
<1>8. path[i].says \in Seq(Spoken)
  BY <1>1
<1>9. PICK x : x = path[i].says
  OBVIOUS
<1>10. x \o f \in Seq(Spoken)
  BY <1>7, <1>8, <1>9, ConcatProperties
<1>11. Openings(path)[i] = x \o f
  BY <1>1, <1>6, <1>9 DEF Openings
<1>12. QED BY <1>10, <1>11

\* An entry more changes nothing of what is before it.
LEMMA OpeningsStay ==
  ASSUME NEW path, NEW e, NEW r, Extended(path, e, r), NEW i \in 1 .. Len(path)
  PROVE  Openings(r)[i] = Openings(path)[i]
<1>1. PICK n : n = Len(path)
  OBVIOUS
<1>2. /\ n \in Nat /\ DOMAIN path = 1 .. n /\ DOMAIN r = 1 .. n + 1 /\ \A j \in 1 .. n : r[j] = path[j]
  BY <1>1 DEF Extended
<1>3. i \in 1 .. n /\ i \in 1 .. n + 1
  BY <1>1, <1>2
<1>4. \A j \in 1 .. i - 1 : j \in 1 .. n /\ \A h \in 1 .. j : h \in 1 .. n
  BY <1>2, <1>3
<1>5. \A j \in 1 .. i - 1 : r[j].says = path[j].says /\ \A h \in 1 .. j : r[h].id = path[h].id
  BY <1>2, <1>4
<1>6. r[i] = path[i]
  BY <1>2, <1>3
<1>7. KeptOf(r, i) = KeptOf(path, i)
  BY <1>5, <1>6 DEF KeptOf
<1>8. QED BY <1>2, <1>3, <1>6, <1>7 DEF Openings

\* A compaction stands for its summary and for what is said from its first kept entry on.
IsFirstKept(path, first, k) ==
  /\ k <= Len(path) => path[k].id = first
  /\ \A h \in 1 .. Len(path) : path[h].id = first => k <= h
StandsFor(path, e, r, n, k) ==
  /\ Openings(r)[n + 1] = e.says \o Tell(path, k, n)
  /\ Openings(r)[n + 1] \in Seq(Spoken)
LEMMA OpeningIs ==
  ASSUME NEW path, NEW e, NEW r, Extended(path, e, r), Speaks(path), e.says \in Seq(Spoken),
         NEW n, n = Len(path), NEW k \in 1 .. n + 1, IsFirstKept(path, e.firstKeptEntryId, k)
  PROVE  StandsFor(path, e, r, n, k)
<1>1. /\ n \in Nat /\ DOMAIN path = 1 .. n /\ DOMAIN r = 1 .. n + 1
      /\ r[n + 1] = e /\ \A j \in 1 .. n : r[j] = path[j]
  BY DEF Extended
<1>2. n + 1 - 1 = n /\ n + 1 \in 1 .. n + 1 /\ k \in Nat
  BY <1>1
<1>3. ASSUME NEW j \in 1 .. n
      PROVE  (\E h \in 1 .. j : r[h].id = r[n + 1].firstKeptEntryId) <=> k <= j
  <2>1. \A h \in 1 .. j : h \in 1 .. n /\ r[h] = path[h]
    BY <1>1
  <2>2. ASSUME NEW h \in 1 .. j, r[h].id = e.firstKeptEntryId
        PROVE  k <= j
    <3>1. k <= h
      BY <2>1, <2>2 DEF IsFirstKept
    <3>2. QED BY <1>1, <1>2, <3>1
  <2>3. ASSUME k <= j
        PROVE  k \in 1 .. j /\ r[k].id = e.firstKeptEntryId
    <3>1. k \in 1 .. j /\ k <= n
      BY <1>1, <1>2, <2>3
    <3>2. QED BY <2>1, <3>1 DEF IsFirstKept
  <2>4. QED BY <1>1, <2>2, <2>3
<1>4. KeptOf(r, n + 1) = Muted(path, n, k)
  <2>1. PICK m : m = n + 1 - 1
    OBVIOUS
  <2>2. KeptOf(r, n + 1) = [j \in 1 .. m |-> IF \E h \in 1 .. j : r[h].id = r[n + 1].firstKeptEntryId
                                              THEN r[j].says ELSE <<>>]
    BY <2>1 DEF KeptOf
  <2>3. m = n
    BY <1>2, <2>1
  <2>4. \A j \in 1 .. n : (IF \E h \in 1 .. j : r[h].id = r[n + 1].firstKeptEntryId THEN r[j].says ELSE <<>>)
                          = (IF k <= j THEN path[j].says ELSE <<>>)
    BY <1>1, <1>3
  <2>5. QED BY <2>2, <2>3, <2>4 DEF Muted
<1>5. FlattenSeq(Muted(path, n, k)) = Tell(path, k, n) /\ Tell(path, k, n) \in Seq(Spoken)
  BY MutedTell, Zenon
<1>6. Openings(r)[n + 1] = e.says \o Tell(path, k, n)
  <2>1. Openings(r)[n + 1] = r[n + 1].says \o FlattenSeq(KeptOf(r, n + 1))
    BY <1>1, <1>2 DEF Openings
  <2>2. QED BY <1>1, <1>4, <1>5, <2>1
<1>7. PICK x, t : x = e.says /\ t = Tell(path, k, n)
  OBVIOUS
<1>8. x \o t \in Seq(Spoken)
  BY <1>5, <1>7, ConcatProperties
<1>9. QED BY <1>6, <1>7, <1>8 DEF StandsFor

\* What the entries of a part of a branch say is what is told of them.
LEMMA SaidIsTold ==
  ASSUME NEW path, IsSequence(path), NEW n, n = Len(path), NEW i \in 1 .. n + 1
  PROVE  Said(SubSeq(path, i, n)) = Tell(path, i, n)
<1> DEFINE S == {path[j] : j \in DOMAIN path}
<1>1. n \in Nat /\ DOMAIN path = 1 .. n
  BY LenProperties DEF IsSequence
<1>2. \A j \in i .. n : path[j] \in S
  BY <1>1
<1>3. PICK s : s = SubSeq(path, i, n)
  OBVIOUS
<1>4. PICK m : m = n - i + 1
  OBVIOUS
<1>5. m \in Nat /\ i \in Int /\ n \in Int /\ m = IF i <= n THEN n - i + 1 ELSE 0
  BY <1>1, <1>4
<1> HIDE DEF S
<1>6. /\ s \in Seq(S) /\ Len(s) = IF i <= n THEN n - i + 1 ELSE 0
      /\ \A j \in 1 .. n - i + 1 : s[j] = path[i + j - 1]
  BY <1>2, <1>3, <1>5, SubSeqProperties
<1>7. DOMAIN s = 1 .. m /\ \A j \in 1 .. m : s[j] = path[i + j - 1]
  <2>1. DOMAIN s = 1 .. Len(s)
    BY <1>6, LenProperties
  <2>2. QED BY <1>4, <1>5, <1>6, <2>1
<1>8. Said(s) = FlattenSeq([j \in 1 .. m |-> path[i + j - 1].says])
  BY <1>7 DEF Said
<1>9. QED BY <1>3, <1>4, <1>8 DEF Tell

LEMMA SaidIsAll ==
  ASSUME NEW path, Len(path) \in Nat, DOMAIN path = 1 .. Len(path)
  PROVE  Said(path) = Tell(path, 1, Len(path))
<1>1. PICK n, m : n = Len(path) /\ m = n - 1 + 1
  OBVIOUS
<1>2. m = n /\ \A j \in 1 .. m : 1 + j - 1 = j
  BY <1>1
<1>3. Said(path) = FlattenSeq([j \in 1 .. n |-> path[j].says])
  BY <1>1 DEF Said
<1>4. Tell(path, 1, n) = FlattenSeq([j \in 1 .. m |-> path[1 + j - 1].says])
  BY <1>1 DEF Tell
<1>5. QED BY <1>1, <1>2, <1>3, <1>4

WordsFrom(path, last) ==
  path[last].says
  \o FlattenSeq([i \in 1 .. last - 1 |->
       IF i \in {k \in 1 .. last - 1 : \E j \in 1 .. k : path[j].id = path[last].firstKeptEntryId}
       THEN path[i].says ELSE <<>>])
  \o Said(SubSeq(path, last + 1, Len(path)))

LEMMA VisibleSends ==
  ASSUME NEW list, IsHistory(list), NEW leaf \in IdsOf(list) \cup {None}, NEW path, path = VisibleBranch(list, leaf)
  PROVE  Speaks(path) /\ Sends(path, Openings(path), VisibleContext(list, leaf))
<1>1. PICK n : n = Len(path)
  OBVIOUS
<1>2. n \in Nat /\ DOMAIN path = 1 .. n /\ IsSequence(path) /\ \A i \in 1 .. n : path[i].says \in Seq(Spoken)
  BY <1>1, PathsAre
<1>3. Speaks(path)
  BY <1>1, <1>2 DEF Speaks
<1>4. PICK last : last = LastCut(path)
  OBVIOUS
<1>5. IsLastCut(path, last) /\ (last = 0 <=> Cuts(path) = {}) /\ last \in Nat /\ last <= n
  BY <1>1, <1>2, <1>4, LastCutExists
<1>0. VisibleContext(list, leaf) = IF Cuts(path) = {} THEN Said(path) ELSE WordsFrom(path, Greatest(Cuts(path)))
  <2>1. VisibleContext(list, leaf)
        = IF Cuts(VisibleBranch(list, leaf)) = {} THEN Said(VisibleBranch(list, leaf))
          ELSE WordsFrom(VisibleBranch(list, leaf), Greatest(Cuts(VisibleBranch(list, leaf))))
    BY Zenon DEF VisibleContext, Cuts, Greatest, WordsFrom
  <2>2. QED BY <2>1
<1>6. CASE Cuts(path) = {}
  <2>1. VisibleContext(list, leaf) = Said(path)
    BY <1>0, <1>6
  <2>2. Said(path) = Tell(path, 1, n)
    BY <1>1, <1>2, SaidIsAll
  <2>3. last = 0 /\ Opened(Openings(path), last) = <<>>
    BY <1>5, <1>6 DEF Opened
  <2>4. Tell(path, 1, n) \in Seq(Spoken)
    BY <1>1, <1>2, <1>3, TellTyped
  <2>5. PICK t : t = Tell(path, 1, n)
    OBVIOUS
  <2>6. <<>> \o t = t
    BY <2>4, <2>5, ConcatEmptySeq
  <2>7. last + 1 = 1
    BY <2>3
  <2>8. VisibleContext(list, leaf) = Opened(Openings(path), last) \o Tell(path, last + 1, Len(path))
    BY <1>1, <2>1, <2>2, <2>3, <2>5, <2>6, <2>7
  <2>9. QED BY <1>3, <1>5, <2>8, Zenon DEF Sends
<1>7. CASE Cuts(path) # {}
  <2>1. VisibleContext(list, leaf) = WordsFrom(path, last)
    BY <1>0, <1>4, <1>7 DEF LastCut
  <2>3. last # 0 /\ last \in 1 .. n /\ last + 1 \in 1 .. n + 1
    BY <1>2, <1>5, <1>7
  <2>4. [i \in 1 .. last - 1 |->
           IF i \in {k \in 1 .. last - 1 : \E j \in 1 .. k : path[j].id = path[last].firstKeptEntryId}
           THEN path[i].says ELSE <<>>] = KeptOf(path, last)
    BY DEF KeptOf
  <2>5. Said(SubSeq(path, last + 1, n)) = Tell(path, last + 1, n)
    <3>1. PICK i : i = last + 1
      OBVIOUS
    <3>2. i \in 1 .. n + 1
      BY <2>3, <3>1
    <3>3. QED BY <1>1, <1>2, <3>1, <3>2, SaidIsTold
  <2>6. Opened(Openings(path), last) = path[last].says \o FlattenSeq(KeptOf(path, last))
    BY <1>2, <2>3 DEF Opened, Openings
  <2>7. VisibleContext(list, leaf) = Opened(Openings(path), last) \o Tell(path, last + 1, Len(path))
    BY <1>1, <2>1, <2>4, <2>5, <2>6 DEF WordsFrom
  <2>8. QED BY <1>3, <1>5, <2>7, Zenon DEF Sends
<1>8. QED BY <1>6, <1>7
-----------------------------------------------------------------------------
(* What Pi sends for a branch.                                             *)

\* Pi's tree: the entries that are placed, above one another.
Placed(nat) == {n \in DOMAIN nat : nat[n].parentId # Unplaced}
Nodes(nat) == {Id(n) : n \in Placed(nat)}
Above(nat) == [id \in Nodes(nat) |-> nat[id[1]].parentId]
IsNative(nat) ==
  /\ IsSequence(nat) /\ Rooted(Above(nat))
  /\ \A n \in DOMAIN nat : nat[n].retainedTail \in Seq(Spoken)

\* What its entries say, and what one stands for that cuts a branch.
Saying(nat, id) == [type |-> nat[id[1]].type, says |-> Says(id[1], nat[id[1]].type)]
Sayings(nat, p) == [i \in DOMAIN p |-> Saying(nat, p[i])]
Tails(nat, p) == [i \in DOMAIN p |-> <<p[i]>> \o nat[p[i][1]].retainedTail]

\* What is sent for a branch, and for a leaf.
Heard(nat, p) ==
  LET cuts == {i \in DOMAIN p : nat[p[i][1]].type = "compaction"}
      last == IF cuts = {} THEN 0 ELSE CHOOSE i \in cuts : \A j \in cuts : j <= i
      after == FlattenSeq([i \in 1 .. Len(p) - last |-> Says(p[last + i][1], nat[p[last + i][1]].type)])
  IN IF last = 0 THEN after ELSE <<p[last]>> \o nat[p[last][1]].retainedTail \o after
Root(nat, leaf) == Branch(Above(nat), leaf)
NContext(nat, leaf) == Heard(nat, Root(nat, leaf))

LEMMA NativeIsHeard ==
  ASSUME NEW leaf
  PROVE  NativeContext(leaf) = NContext(native, leaf)
<1>1. NativeBranch(leaf) = Root(native, leaf)
  BY DEF NativeBranch, Root, Above, Nodes, Placed, Records
<1>2. NativeContext(leaf) = Heard(native, NativeBranch(leaf))
  BY Zenon DEF NativeContext, Heard
<1>3. QED BY <1>1, <1>2 DEF NContext

LEMMA IdIs ==
  ASSUME NEW n
  PROVE  Id(n)[1] = n /\ Id(n)[2] = 0 /\ (n \in Nat => Id(n) \in Spoken) /\ (Id(n) = None <=> n = 0)
<1>1. Id(n) = <<n, 0>>
  BY DEF Id
<1>2. QED BY <1>1 DEF Spoken, None

LEMMA NodesAre ==
  ASSUME NEW nat, IsNative(nat)
  PROVE  /\ Len(nat) \in Nat /\ DOMAIN nat = 1 .. Len(nat) /\ DOMAIN Above(nat) = Nodes(nat)
         /\ \A id \in Nodes(nat) : id[1] \in Placed(nat) /\ id[1] \in DOMAIN nat /\ id = Id(id[1]) /\ id \in Spoken
<1>1. Len(nat) \in Nat /\ DOMAIN nat = 1 .. Len(nat)
  BY LenProperties DEF IsNative, IsSequence
<1>2. DOMAIN Above(nat) = Nodes(nat)
  BY DEF Above
<1>3. ASSUME NEW id \in Nodes(nat)
      PROVE  id[1] \in Placed(nat) /\ id[1] \in DOMAIN nat /\ id = Id(id[1]) /\ id \in Spoken
  <2>1. PICK n \in Placed(nat) : id = Id(n)
    BY DEF Nodes
  <2>2. n \in DOMAIN nat /\ n \in Nat
    BY <1>1 DEF Placed
  <2>3. QED BY <2>1, <2>2, IdIs
<1>4. QED BY <1>1, <1>2, <1>3

\* A branch of Pi's, its sayings and tails.
LEMMA RootsAre ==
  ASSUME NEW nat, IsNative(nat), NEW leaf \in Nodes(nat) \cup {None}, NEW p, p = Root(nat, leaf)
  PROVE  /\ Line(Above(nat), leaf, p) /\ p \in Seq(Nodes(nat)) /\ Len(p) \in Nat /\ DOMAIN p = 1 .. Len(p)
         /\ \A i \in 1 .. Len(p) : p[i] \in Nodes(nat)
<1>1. DOMAIN Above(nat) = Nodes(nat)
  BY DEF Above
<1>2. Line(Above(nat), leaf, p)
  BY <1>1 DEF IsNative, Rooted, Root
<1>3. p \in Seq(Nodes(nat)) /\ Len(p) \in Nat /\ DOMAIN p = 1 .. Len(p)
  BY <1>1, <1>2, LenProperties DEF Line
<1>4. \A i \in 1 .. Len(p) : p[i] \in Nodes(nat)
  BY <1>3, ElementOfSeq
<1>5. QED BY <1>2, <1>3, <1>4

LEMMA SayingsAre ==
  ASSUME NEW nat, IsNative(nat), NEW p \in Seq(Nodes(nat)), NEW s, s = Sayings(nat, p)
  PROVE  /\ Speaks(s) /\ Len(s) = Len(p) /\ DOMAIN s = 1 .. Len(p) /\ Opens(s, Tails(nat, p))
<1>1. Len(p) \in Nat /\ DOMAIN p = 1 .. Len(p) /\ \A i \in 1 .. Len(p) : p[i] \in Nodes(nat)
  BY LenProperties, ElementOfSeq
<1>2. s = [i \in 1 .. Len(p) |-> Saying(nat, p[i])]
  BY <1>1 DEF Sayings
<1>3. Len(s) = Len(p) /\ DOMAIN s = 1 .. Len(p)
  <2>1. s \in [1 .. Len(p) -> {s[i] : i \in 1 .. Len(p)}]
    BY <1>2
  <2>2. QED BY <1>1, <2>1, FunctionIsSeq
<1>4. ASSUME NEW i \in 1 .. Len(p)
      PROVE  s[i].says \in Seq(Spoken) /\ Tails(nat, p)[i] \in Seq(Spoken)
  <2>1. p[i] \in Spoken /\ p[i] = Id(p[i][1]) /\ p[i][1] \in DOMAIN nat
    BY <1>1, NodesAre
  <2>2. s[i].says = Says(p[i][1], nat[p[i][1]].type)
    BY <1>2 DEF Saying
  <2>3. PICK x : x = p[i]
    OBVIOUS
  <2>4. <<x>> \in Seq(Spoken) /\ <<>> \in Seq(Spoken)
    BY <2>1, <2>3
  <2>5. s[i].says \in Seq(Spoken)
    BY <2>1, <2>2, <2>3, <2>4 DEF Says
  <2>6. PICK t : t = nat[p[i][1]].retainedTail
    OBVIOUS
  <2>7. t \in Seq(Spoken)
    BY <2>1, <2>6 DEF IsNative
  <2>8. <<x>> \o t \in Seq(Spoken)
    BY <2>4, <2>7, ConcatProperties
  <2>9. Tails(nat, p)[i] = <<x>> \o t
    BY <1>1, <2>3, <2>6 DEF Tails
  <2>10. QED BY <2>5, <2>8, <2>9
<1>5. Speaks(s)
  BY <1>1, <1>3, <1>4 DEF Speaks
<1>6. Opens(s, Tails(nat, p))
  BY <1>3, <1>4 DEF Opens
<1>7. QED BY <1>3, <1>5, <1>6

\* What is heard of a branch, in the terms of what is sent.
NativeCuts(nat, p) == {i \in DOMAIN p : nat[p[i][1]].type = "compaction"}
NativeLast(nat, p) == IF NativeCuts(nat, p) = {} THEN 0 ELSE Greatest(NativeCuts(nat, p))
HeardAfter(nat, p, last) ==
  FlattenSeq([i \in 1 .. Len(p) - last |-> Says(p[last + i][1], nat[p[last + i][1]].type)])
HeardFrom(nat, p, last) ==
  IF last = 0 THEN HeardAfter(nat, p, last)
  ELSE <<p[last]>> \o nat[p[last][1]].retainedTail \o HeardAfter(nat, p, last)

LEMMA NativeSends ==
  ASSUME NEW nat, IsNative(nat), NEW p \in Seq(Nodes(nat))
  PROVE  Sends(Sayings(nat, p), Tails(nat, p), Heard(nat, p)) /\ Heard(nat, p) \in Seq(Spoken)
<1>1. PICK s, n, open : s = Sayings(nat, p) /\ n = Len(p) /\ open = Tails(nat, p)
  OBVIOUS
<1>2. Speaks(s) /\ Len(s) = n /\ DOMAIN s = 1 .. n /\ Opens(s, open)
  BY <1>1, SayingsAre
<1>3. n \in Nat /\ DOMAIN p = 1 .. n
  BY <1>1, LenProperties
<1>4. \A i \in 1 .. n : s[i].type = nat[p[i][1]].type /\ s[i].says = Says(p[i][1], nat[p[i][1]].type)
  BY <1>1, <1>3 DEF Sayings, Saying
<1>5. PICK last : last = LastCut(s)
  OBVIOUS
<1>6. IsLastCut(s, last) /\ last \in Nat /\ last <= n
  BY <1>2, <1>3, <1>5, LastCutExists
<1>7. NativeCuts(nat, p) = Cuts(s)
  BY <1>2, <1>3, <1>4 DEF NativeCuts, Cuts
<1>8. Heard(nat, p) = HeardFrom(nat, p, last)
  <2>1. Heard(nat, p) = HeardFrom(nat, p, NativeLast(nat, p))
    BY Zenon DEF Heard, HeardFrom, HeardAfter, NativeLast, NativeCuts, Greatest
  <2>2. NativeLast(nat, p) = last
    BY <1>5, <1>7 DEF NativeLast, LastCut
  <2>3. QED BY <2>1, <2>2
<1>9. HeardAfter(nat, p, last) = Tell(s, last + 1, n)
  <2>1. PICK m, w : m = n - last /\ w = n - (last + 1) + 1
    OBVIOUS
  <2>2. m = w /\ \A i \in 1 .. m : last + 1 + i - 1 = last + i /\ last + i \in 1 .. n
    BY <1>3, <1>6, <2>1
  <2>3. HeardAfter(nat, p, last) = FlattenSeq([i \in 1 .. m |-> Says(p[last + i][1], nat[p[last + i][1]].type)])
    BY <1>1, <2>1 DEF HeardAfter
  <2>4. Tell(s, last + 1, n) = FlattenSeq([i \in 1 .. w |-> s[last + 1 + i - 1].says])
    BY <2>1 DEF Tell
  <2>5. \A i \in 1 .. m : s[last + 1 + i - 1].says = Says(p[last + i][1], nat[p[last + i][1]].type)
    BY <1>4, <2>2
  <2>6. QED BY <2>2, <2>3, <2>4, <2>5
<1>10. Heard(nat, p) = Opened(open, last) \o Tell(s, last + 1, n)
  <2>1. CASE last = 0
    <3>1. Heard(nat, p) = Tell(s, last + 1, n) /\ Opened(open, last) = <<>>
      BY <1>8, <1>9, <2>1 DEF HeardFrom, Opened
    <3>2. PICK t : t = Tell(s, last + 1, n)
      OBVIOUS
    <3>3. last + 1 = 1 /\ 1 \in 1 .. n + 1
      BY <1>3, <2>1
    <3>4. t \in Seq(Spoken)
      BY <1>2, <3>2, <3>3, TellTyped
    <3>5. <<>> \o t = t
      BY <3>4, ConcatEmptySeq
    <3>6. QED BY <3>1, <3>2, <3>5
  <2>2. CASE last # 0
    <3>1. last \in 1 .. n
      BY <1>6, <2>2
    <3>2. Opened(open, last) = <<p[last]>> \o nat[p[last][1]].retainedTail
      BY <1>1, <1>3, <2>2, <3>1 DEF Opened, Tails
    <3>3. Heard(nat, p) = <<p[last]>> \o nat[p[last][1]].retainedTail \o Tell(s, last + 1, n)
      BY <1>8, <1>9, <2>2 DEF HeardFrom
    <3>4. QED BY <3>2, <3>3
  <2>3. QED BY <2>1, <2>2
<1>11. Sends(s, open, Heard(nat, p))
  BY <1>2, <1>6, <1>10, Zenon DEF Sends
<1>12. Heard(nat, p) \in Seq(Spoken)
  BY <1>2, <1>11, SendsTyped
<1>13. QED BY <1>1, <1>11, <1>12

\* What one entry more changes of it.
LEMMA HeardMore ==
  ASSUME NEW nat, IsNative(nat), NEW p \in Seq(Nodes(nat)), NEW id \in Nodes(nat),
         NEW r \in Seq(Nodes(nat)), Extended(p, id, r)
  PROVE  /\ nat[id[1]].type # "compaction" =>
              Heard(nat, r) = Heard(nat, p) \o Says(id[1], nat[id[1]].type)
         /\ nat[id[1]].type = "compaction" => Heard(nat, r) = <<id>> \o nat[id[1]].retainedTail
<1>1. PICK n, s, t, open, more, e : /\ n = Len(p) /\ s = Sayings(nat, p) /\ t = Sayings(nat, r)
                                    /\ open = Tails(nat, p) /\ more = Tails(nat, r) /\ e = Saying(nat, id)
  OBVIOUS
<1>2. n \in Nat /\ Len(r) = n + 1 /\ DOMAIN p = 1 .. n /\ DOMAIN r = 1 .. n + 1 /\ r[n + 1] = id
      /\ \A i \in 1 .. n : r[i] = p[i] /\ i \in 1 .. n + 1
  BY <1>1 DEF Extended
<1>3. Speaks(s) /\ Len(s) = n /\ DOMAIN s = 1 .. n /\ Opens(s, open)
  BY <1>1, SayingsAre
<1>4. Speaks(t) /\ Len(t) = n + 1 /\ DOMAIN t = 1 .. n + 1 /\ Opens(t, more)
  BY <1>1, <1>2, SayingsAre
<1>5. n + 1 \in 1 .. n + 1
  BY <1>2
<1>6. t[n + 1] = e /\ more[n + 1] = <<id>> \o nat[id[1]].retainedTail
  BY <1>1, <1>2, <1>5 DEF Sayings, Tails
<1>7. \A i \in 1 .. n : t[i] = s[i] /\ more[i] = open[i]
  BY <1>1, <1>2 DEF Sayings, Tails
<1>8. Extended(s, e, t)
  BY <1>2, <1>3, <1>4, <1>6, <1>7 DEF Extended
<1>9. e.says = Says(id[1], nat[id[1]].type) /\ e.type = nat[id[1]].type
  BY <1>1 DEF Saying
<1>10. e.says \in Seq(Spoken) /\ more[n + 1] \in Seq(Spoken)
  BY <1>4, <1>5, <1>6 DEF Speaks, Opens
<1>11. Sends(s, open, Heard(nat, p)) /\ Sends(t, more, Heard(nat, r))
  BY <1>1, NativeSends
<1>12. ASSUME e.type # "compaction"
       PROVE  Heard(nat, r) = Heard(nat, p) \o e.says
  <2>1. \A i \in 1 .. Len(s) : more[i] = open[i]
    BY <1>3, <1>7
  <2>2. Sends(t, more, Heard(nat, p) \o e.says)
    BY <1>3, <1>8, <1>10, <1>11, <1>12, <2>1, SendsMore
  <2>3. Len(t) \in Nat
    BY <1>2, <1>4
  <2>4. QED BY <1>11, <2>2, <2>3, SendsOne
<1>13. ASSUME e.type = "compaction"
       PROVE  Heard(nat, r) = <<id>> \o nat[id[1]].retainedTail
  <2>1. Len(s) \in Nat /\ Len(s) + 1 = n + 1
    BY <1>2, <1>3
  <2>2. Sends(t, more, more[n + 1])
    BY <1>8, <1>10, <1>13, <2>1, SendsCut
  <2>3. Len(t) \in Nat
    BY <1>2, <1>4
  <2>4. Heard(nat, r) = more[n + 1]
    BY <1>11, <2>2, <2>3, SendsOne
  <2>5. QED BY <1>6, <2>4
<1>14. QED BY <1>9, <1>12, <1>13

\* Entries placed one above the other, on a placed one or on the root.
NativeGrows(nat, more, from, q) ==
  /\ Grafted(Above(nat), Above(more), from, q)
  /\ IsSequence(more) /\ \A n \in DOMAIN more : more[n].retainedTail \in Seq(Spoken)
  /\ \A n \in Placed(nat) : more[n] = nat[n]

\* Pi's tree stays one, and so does what is sent for its entries.
LEMMA NativeStays ==
  ASSUME NEW nat, IsNative(nat), NEW more, NEW from, NEW q, NativeGrows(nat, more, from, q)
  PROVE  /\ IsNative(more) /\ Nodes(more) = Nodes(nat) \cup {q[i] : i \in DOMAIN q}
         /\ \A l \in Nodes(nat) \cup {None} : Root(more, l) = Root(nat, l) /\ NContext(more, l) = NContext(nat, l)
<1>1. Grows(Above(nat), Above(more), from, q)
  BY LinesGrow DEF NativeGrows, IsNative
<1>2. IsNative(more)
  BY <1>1 DEF NativeGrows, IsNative, Grows
<1>3. DOMAIN Above(nat) = Nodes(nat) /\ DOMAIN Above(more) = Nodes(more)
  BY DEF Above
<1>4. Nodes(more) = Nodes(nat) \cup {q[i] : i \in DOMAIN q}
  BY <1>3 DEF NativeGrows, Grafted
<1>5. ASSUME NEW l \in Nodes(nat) \cup {None}
      PROVE  Root(more, l) = Root(nat, l) /\ NContext(more, l) = NContext(nat, l)
  <2>1. PICK p : p = Root(nat, l)
    OBVIOUS
  <2>2. Root(more, l) = p
    BY <1>1, <1>3, <2>1 DEF Grows, Root
  <2>3. p \in Seq(Nodes(nat)) /\ Len(p) \in Nat /\ DOMAIN p = 1 .. Len(p) /\ \A i \in 1 .. Len(p) : p[i] \in Nodes(nat)
    BY <2>1, RootsAre
  <2>4. \A i \in 1 .. Len(p) : more[p[i][1]] = nat[p[i][1]]
    BY <2>3, NodesAre DEF NativeGrows
  <2>5. Sayings(more, p) = Sayings(nat, p) /\ Tails(more, p) = Tails(nat, p)
    BY <2>3, <2>4 DEF Sayings, Saying, Tails
  <2>6. p \in Seq(Nodes(more))
    BY <1>4, <2>3, SeqMonotonic
  <2>7. Sends(Sayings(nat, p), Tails(nat, p), Heard(nat, p)) /\ Sends(Sayings(nat, p), Tails(nat, p), Heard(more, p))
    BY <1>2, <2>3, <2>5, <2>6, NativeSends
  <2>8. Len(Sayings(nat, p)) \in Nat
    BY <2>3, SayingsAre
  <2>9. Heard(more, p) = Heard(nat, p)
    BY <2>7, <2>8, SendsOne
  <2>10. QED BY <2>1, <2>2, <2>9 DEF NContext
<1>6. QED BY <1>2, <1>4, <1>5

\* The branch of one of them is that of the one below and itself.
LEMMA RootMore ==
  ASSUME NEW nat, IsNative(nat), NEW more, NEW from, NEW q, NativeGrows(nat, more, from, q),
         NEW k \in DOMAIN q, NEW below, below = IF k = 1 THEN from ELSE q[k - 1]
  PROVE  /\ below \in Nodes(more) \cup {None} /\ q[k] \in Nodes(more)
         /\ Extended(Root(more, below), q[k], Root(more, q[k]))
<1>1. PICK b : b = Root(nat, from)
  OBVIOUS
<1>2. Grows(Above(nat), Above(more), from, q)
  BY LinesGrow DEF NativeGrows, IsNative
<1>3. /\ IsSequence(q) /\ from \in Nodes(nat) \cup {None}
      /\ DOMAIN Above(nat) = Nodes(nat) /\ Nodes(more) = Nodes(nat) \cup {q[i] : i \in DOMAIN q}
  BY DEF NativeGrows, Grafted, Above
<1>4. Len(q) \in Nat /\ DOMAIN q = 1 .. Len(q) /\ k \in Nat /\ k \in 1 .. Len(q)
  BY <1>3, LenProperties DEF IsSequence
<1>5. b \in Seq(Nodes(nat)) /\ Len(b) \in Nat
  BY <1>1, <1>3, RootsAre
<1>6. b \in Seq(Nodes(more))
  BY <1>3, <1>5, SeqMonotonic
<1>7. ASSUME NEW j \in DOMAIN q
      PROVE  /\ Len(Root(more, q[j])) = Len(b) + j
             /\ DOMAIN Root(more, q[j]) = 1 .. Len(b) + j
             /\ \A i \in 1 .. Len(b) : Root(more, q[j])[i] = b[i]
             /\ \A i \in 1 .. j : Root(more, q[j])[Len(b) + i] = q[i]
  <2>1. PICK s, r : s = SubSeq(q, 1, j) /\ r = Root(more, q[j])
    OBVIOUS
  <2>2. r = b \o s
    BY <1>1, <1>2, <2>1 DEF Grows, Root
  <2>3. /\ s \in Seq({q[i] : i \in DOMAIN q}) /\ j \in Nat
        /\ Len(s) = j /\ DOMAIN s = 1 .. j /\ \A i \in 1 .. j : s[i] = q[i]
    BY <1>3, <2>1, FirstOnes
  <2>4. s \in Seq(Nodes(more))
    BY <1>3, <2>3, SeqMonotonic
  <2>5. IsJoin(b, s, r)
    BY <1>6, <2>2, <2>4, JoinIs
  <2>6. QED BY <2>1, <2>3, <2>5 DEF IsJoin
<1>8. CASE k = 1
  <2>1. below = from /\ Root(more, below) = b
    BY <1>1, <1>3, <1>8, NativeStays
  <2>2. PICK r : r = Root(more, q[k])
    OBVIOUS
  <2>3. /\ Len(r) = Len(b) + 1 /\ DOMAIN r = 1 .. Len(b) + 1
        /\ \A i \in 1 .. Len(b) : r[i] = b[i]
        /\ \A i \in 1 .. 1 : r[Len(b) + i] = q[i]
    BY <1>7, <1>8, <2>2
  <2>4. r[Len(b) + 1] = q[k]
    BY <1>8, <2>3
  <2>5. DOMAIN b = 1 .. Len(b)
    BY <1>5, LenProperties
  <2>6. Extended(b, q[k], r)
    BY <1>5, <2>3, <2>4, <2>5 DEF Extended
  <2>7. QED BY <1>3, <2>1, <2>2, <2>6
<1>9. CASE k # 1
  <2>1. PICK j, m : j = k - 1 /\ m = Len(b) + j
    OBVIOUS
  <2>2. j \in Nat /\ j \in DOMAIN q /\ j + 1 = k /\ m \in Nat /\ Len(b) + k = m + 1
    BY <1>4, <1>5, <1>9, <2>1
  <2>3. below = q[j]
    BY <1>9, <2>1
  <2>4. PICK p, r : p = Root(more, q[j]) /\ r = Root(more, q[k])
    OBVIOUS
  <2>5. /\ Len(p) = m /\ DOMAIN p = 1 .. m
        /\ \A i \in 1 .. Len(b) : p[i] = b[i]
        /\ \A i \in 1 .. j : p[Len(b) + i] = q[i]
    BY <1>7, <2>1, <2>2, <2>4
  <2>6. /\ Len(r) = m + 1 /\ DOMAIN r = 1 .. m + 1
        /\ \A i \in 1 .. Len(b) : r[i] = b[i]
        /\ \A i \in 1 .. k : r[Len(b) + i] = q[i]
    BY <1>7, <2>2, <2>4
  <2>7. r[m + 1] = q[k]
    BY <1>4, <2>2, <2>6
  <2>8. ASSUME NEW i \in 1 .. m
        PROVE  r[i] = p[i]
    <3>1. CASE i \in 1 .. Len(b)
      BY <2>5, <2>6, <3>1
    <3>2. CASE i \notin 1 .. Len(b)
      <4>1. PICK h : h = i - Len(b)
        OBVIOUS
      <4>2. h \in 1 .. j /\ h \in 1 .. k /\ Len(b) + h = i
        BY <1>5, <2>1, <2>2, <3>2, <4>1
      <4>3. p[Len(b) + h] = q[h] /\ r[Len(b) + h] = q[h]
        BY <2>5, <2>6, <4>2
      <4>4. QED BY <4>2, <4>3
    <3>3. QED BY <3>1, <3>2
  <2>9. Extended(p, q[k], r)
    BY <2>2, <2>5, <2>6, <2>7, <2>8 DEF Extended
  <2>10. QED BY <1>3, <2>2, <2>3, <2>4, <2>9
<1>10. QED BY <1>8, <1>9

\* What is sent for one of them.
SentFor(more, below, id) ==
  /\ more[id[1]].type # "compaction" =>
       NContext(more, id) = NContext(more, below) \o Says(id[1], more[id[1]].type)
  /\ more[id[1]].type = "compaction" => NContext(more, id) = <<id>> \o more[id[1]].retainedTail
  /\ NContext(more, below) \in Seq(Spoken)

LEMMA NativeMore ==
  ASSUME NEW nat, IsNative(nat), NEW more, NEW from, NEW q, NativeGrows(nat, more, from, q),
         NEW k \in DOMAIN q, NEW below, below = IF k = 1 THEN from ELSE q[k - 1], NEW id, id = q[k]
  PROVE  SentFor(more, below, id)
<1>1. IsNative(more)
  BY NativeStays
<1>2. below \in Nodes(more) \cup {None} /\ id \in Nodes(more) /\ Extended(Root(more, below), id, Root(more, id))
  BY RootMore
<1>3. Root(more, below) \in Seq(Nodes(more)) /\ Root(more, id) \in Seq(Nodes(more))
  BY <1>1, <1>2, RootsAre
<1>4. Heard(more, Root(more, below)) \in Seq(Spoken)
  BY <1>1, <1>3, NativeSends
<1>5. /\ more[id[1]].type # "compaction" =>
           Heard(more, Root(more, id)) = Heard(more, Root(more, below)) \o Says(id[1], more[id[1]].type)
      /\ more[id[1]].type = "compaction" =>
           Heard(more, Root(more, id)) = <<id>> \o more[id[1]].retainedTail
  BY <1>1, <1>2, <1>3, HeardMore
<1>6. QED BY <1>4, <1>5 DEF NContext, SentFor
-----------------------------------------------------------------------------
(* The visible branches, as entries are listed.                            *)

\* What was said for an entry of the list is said still.
LEMMA VisibleStays ==
  ASSUME NEW list, IsHistory(list), NEW added, NEW from, Hung(list, added, from), NEW new, new = list \o added,
         NEW leaf \in IdsOf(list) \cup {None}
  PROVE  /\ VisibleContext(new, leaf) = VisibleContext(list, leaf) /\ PathIds(new, leaf) = PathIds(list, leaf)
         /\ VisibleBranch(new, leaf) = VisibleBranch(list, leaf)
<1>1. HistoryGrows(list, added, from, new)
  BY ListGrows
<1>2. PICK path : path = VisibleBranch(list, leaf)
  OBVIOUS
<1>3. VisibleBranch(new, leaf) = path /\ PathIds(new, leaf) = PathIds(list, leaf) /\ IsHistory(new) /\ leaf \in IdsOf(new) \cup {None}
  BY <1>1, <1>2 DEF HistoryGrows
<1>4. Speaks(path) /\ Sends(path, Openings(path), VisibleContext(list, leaf))
  BY <1>2, VisibleSends
<1>5. Sends(path, Openings(path), VisibleContext(new, leaf))
  BY <1>3, VisibleSends
<1>6. VisibleContext(new, leaf) = VisibleContext(list, leaf)
  BY <1>4, <1>5, SendsOne DEF Speaks
<1>7. QED BY <1>2, <1>3, <1>6

\* The branch of a new entry is that of the one below and itself.
LEMMA BranchMore ==
  ASSUME NEW list, IsHistory(list), NEW added, NEW from, Hung(list, added, from), NEW new, new = list \o added,
         NEW k \in DOMAIN added, NEW below, below = IF k = 1 THEN from ELSE added[k - 1].id
  PROVE  /\ below \in IdsOf(new) \cup {None} /\ added[k].id \in IdsOf(new)
         /\ Extended(VisibleBranch(new, below), added[k], VisibleBranch(new, added[k].id))
         /\ Extended(PathIds(new, below), added[k].id, PathIds(new, added[k].id))
<1>1. HistoryGrows(list, added, from, new)
  BY ListGrows
<1>2. Len(added) \in Nat /\ DOMAIN added = 1 .. Len(added) /\ from \in IdsOf(list) \cup {None} /\ k \in Nat
  BY LenProperties DEF Hung, IsSequence
<1>3. IsHistory(new) /\ IdsOf(new) = IdsOf(list) \cup {added[i].id : i \in DOMAIN added}
  BY <1>1 DEF HistoryGrows
<1>4. PICK p, b, n : p = PathIds(list, from) /\ b = VisibleBranch(list, from) /\ n = Len(p)
  OBVIOUS
<1>5. n \in Nat /\ DOMAIN p = 1 .. n /\ Len(b) = n /\ DOMAIN b = 1 .. n
  BY <1>2, <1>4, PathsAre
<1>6. ASSUME NEW j \in 1 .. Len(added)
      PROVE  /\ Len(PathIds(new, added[j].id)) = n + j /\ DOMAIN PathIds(new, added[j].id) = 1 .. n + j
             /\ Len(VisibleBranch(new, added[j].id)) = n + j /\ DOMAIN VisibleBranch(new, added[j].id) = 1 .. n + j
             /\ \A i \in 1 .. n : /\ PathIds(new, added[j].id)[i] = p[i]
                                  /\ VisibleBranch(new, added[j].id)[i] = b[i]
             /\ \A i \in 1 .. j : /\ PathIds(new, added[j].id)[n + i] = added[i].id
                                  /\ VisibleBranch(new, added[j].id)[n + i] = added[i]
  <2>1. PICK q, c, s, t : /\ q = PathIds(new, added[j].id) /\ c = VisibleBranch(new, added[j].id)
                          /\ s = [i \in 1 .. j |-> added[i].id] /\ t = [i \in 1 .. j |-> added[i]]
    OBVIOUS
  <2>2. IsJoin(p, s, q) /\ IsJoin(b, t, c)
    BY <1>1, <1>2, <1>4, <2>1 DEF HistoryGrows
  <2>3. Len(s) = j /\ Len(t) = j
    <3>1. j \in Nat /\ s \in [1 .. j -> {s[i] : i \in 1 .. j}] /\ t \in [1 .. j -> {t[i] : i \in 1 .. j}]
      BY <1>2, <2>1
    <3>2. QED BY <3>1, FunctionIsSeq
  <2>4. \A i \in 1 .. j : s[i] = added[i].id /\ t[i] = added[i]
    BY <2>1
  <2>5. QED BY <1>4, <1>5, <2>1, <2>2, <2>3, <2>4 DEF IsJoin
<1>7. added[k].id \in IdsOf(new)
  BY <1>3
<1>8. CASE k = 1
  <2>1. below = from
    BY <1>8
  <2>2. PathIds(new, from) = p /\ VisibleBranch(new, from) = b
    BY <1>1, <1>2, <1>4 DEF HistoryGrows
  <2>3. PICK q, c : q = PathIds(new, added[k].id) /\ c = VisibleBranch(new, added[k].id)
    OBVIOUS
  <2>4. /\ Len(q) = n + 1 /\ DOMAIN q = 1 .. n + 1 /\ Len(c) = n + 1 /\ DOMAIN c = 1 .. n + 1
        /\ \A i \in 1 .. n : q[i] = p[i] /\ c[i] = b[i]
        /\ \A i \in 1 .. 1 : q[n + i] = added[i].id /\ c[n + i] = added[i]
    BY <1>2, <1>6, <1>8, <2>3
  <2>5. q[n + 1] = added[k].id /\ c[n + 1] = added[k]
    BY <1>8, <2>4
  <2>6. Extended(p, added[k].id, q) /\ Extended(b, added[k], c)
    BY <1>4, <1>5, <2>4, <2>5 DEF Extended
  <2>7. QED BY <1>2, <1>3, <1>7, <2>1, <2>2, <2>3, <2>6
<1>9. CASE k # 1
  <2>1. PICK j, m : j = k - 1 /\ m = n + j
    OBVIOUS
  <2>2. j \in Nat /\ j \in 1 .. Len(added) /\ j + 1 = k /\ m \in Nat /\ n + k = m + 1
    BY <1>2, <1>5, <1>9, <2>1
  <2>3. below = added[j].id /\ below \in IdsOf(new)
    BY <1>2, <1>3, <1>9, <2>1, <2>2
  <2>4. PICK o, q, a, c : /\ o = PathIds(new, below) /\ q = PathIds(new, added[k].id)
                          /\ a = VisibleBranch(new, below) /\ c = VisibleBranch(new, added[k].id)
    OBVIOUS
  <2>5. /\ Len(o) = m /\ DOMAIN o = 1 .. m /\ Len(a) = m /\ DOMAIN a = 1 .. m
        /\ \A i \in 1 .. n : o[i] = p[i] /\ a[i] = b[i]
        /\ \A i \in 1 .. j : o[n + i] = added[i].id /\ a[n + i] = added[i]
    BY <1>6, <2>1, <2>2, <2>3, <2>4
  <2>6. /\ Len(q) = m + 1 /\ DOMAIN q = 1 .. m + 1 /\ Len(c) = m + 1 /\ DOMAIN c = 1 .. m + 1
        /\ \A i \in 1 .. n : q[i] = p[i] /\ c[i] = b[i]
        /\ \A i \in 1 .. k : q[n + i] = added[i].id /\ c[n + i] = added[i]
    BY <1>2, <1>6, <2>2, <2>4
  <2>7. q[m + 1] = added[k].id /\ c[m + 1] = added[k]
    <3>1. k \in 1 .. k
      BY <1>2
    <3>2. q[n + k] = added[k].id /\ c[n + k] = added[k]
      BY <2>6, <3>1
    <3>3. QED BY <2>2, <3>2
  <2>8. ASSUME NEW i \in 1 .. m
        PROVE  q[i] = o[i] /\ c[i] = a[i]
    <3>1. CASE i \in 1 .. n
      BY <2>5, <2>6, <3>1
    <3>2. CASE i \notin 1 .. n
      <4>1. PICK h : h = i - n
        OBVIOUS
      <4>2. h \in 1 .. j /\ h \in 1 .. k /\ n + h = i
        <5>1. h \in Int /\ h > 0 /\ h <= j /\ n + h = i
          BY <1>5, <2>1, <2>2, <3>2, <4>1
        <5>2. k \in Nat /\ j <= k
          BY <1>2, <2>1
        <5>3. QED BY <2>2, <5>1, <5>2
      <4>3. o[n + h] = added[h].id /\ a[n + h] = added[h] /\ q[n + h] = added[h].id /\ c[n + h] = added[h]
        BY <2>5, <2>6, <4>2
      <4>4. QED BY <4>2, <4>3
    <3>3. QED BY <3>1, <3>2
  <2>9. Extended(o, added[k].id, q) /\ Extended(a, added[k], c)
    BY <2>2, <2>5, <2>6, <2>7, <2>8 DEF Extended
  <2>10. QED BY <1>7, <2>3, <2>4, <2>9
<1>10. QED BY <1>8, <1>9

\* What it says to the model, unless it is a compaction.
SaidMore(new, below, e) ==
  /\ VisibleContext(new, e.id) = VisibleContext(new, below) \o e.says
  /\ VisibleContext(new, below) \in Seq(Spoken)

LEMMA VisibleMore ==
  ASSUME NEW list, IsHistory(list), NEW added, NEW from, Hung(list, added, from), NEW new, new = list \o added,
         NEW k \in DOMAIN added, NEW below, below = IF k = 1 THEN from ELSE added[k - 1].id,
         added[k].type # "compaction"
  PROVE  SaidMore(new, below, added[k])
<1>1. IsHistory(new)
  BY ListGrows, Zenon DEF HistoryGrows
<1>2. PICK a, c, e : a = VisibleBranch(new, below) /\ c = VisibleBranch(new, added[k].id) /\ e = added[k]
  OBVIOUS
<1>3. below \in IdsOf(new) \cup {None} /\ e.id \in IdsOf(new) /\ Extended(a, e, c)
  BY <1>2, BranchMore
<1>4. Speaks(a) /\ Sends(a, Openings(a), VisibleContext(new, below))
  BY <1>1, <1>2, <1>3, VisibleSends
<1>5. Speaks(c) /\ Sends(c, Openings(c), VisibleContext(new, e.id))
  BY <1>1, <1>2, <1>3, VisibleSends
<1>6. e.says \in Seq(Spoken) /\ e.type # "compaction"
  BY <1>2 DEF Hung
<1>7. Opens(a, Openings(a)) /\ \A i \in 1 .. Len(a) : Openings(c)[i] = Openings(a)[i]
  BY <1>3, <1>4, OpeningsTyped, OpeningsStay
<1>8. PICK x, o, w : x = VisibleContext(new, below) /\ o = Openings(a) /\ w = Openings(c)
  OBVIOUS
<1>9. Sends(c, w, x \o e.says)
  <2>1. /\ Sends(a, o, x) /\ Opens(a, o) /\ \A i \in 1 .. Len(a) : w[i] = o[i]
    BY <1>4, <1>7, <1>8
  <2>2. QED BY <1>3, <1>4, <1>6, <2>1, SendsMore
<1>10. VisibleContext(new, e.id) = x \o e.says
  BY <1>5, <1>8, <1>9, SendsOne DEF Speaks
<1>11. x \in Seq(Spoken)
  BY <1>4, <1>7, <1>8, SendsTyped
<1>12. QED BY <1>2, <1>8, <1>10, <1>11 DEF SaidMore

\* What a compaction says that is the last of the entries added: its summary and what is kept.
ShownCut(list, added, from, i) ==
  LET k == Len(added)
      a == VisibleBranch(list \o added, IF k = 1 THEN from ELSE added[k - 1].id)
  IN /\ IsHistory(list) /\ Hung(list, added, from) /\ k \in DOMAIN added
     /\ added[k].type = "compaction"
     /\ i \in 1 .. Len(a) + 1 /\ IsFirstKept(a, added[k].firstKeptEntryId, i)
CutSays(list, added, from, i) ==
  LET k == Len(added)
      a == VisibleBranch(list \o added, IF k = 1 THEN from ELSE added[k - 1].id)
  IN VisibleContext(list \o added, added[k].id) = added[k].says \o Tell(a, i, Len(a))

LEMMA LastCutSays ==
  ASSUME NEW list, NEW added, NEW from, NEW i, ShownCut(list, added, from, i)
  PROVE  CutSays(list, added, from, i)
<1>1. PICK k, new, below, a : /\ k = Len(added) /\ new = list \o added
                              /\ below = (IF k = 1 THEN from ELSE added[k - 1].id)
                              /\ a = VisibleBranch(new, below)
  OBVIOUS
<1>2. /\ IsHistory(list) /\ Hung(list, added, from) /\ k \in DOMAIN added /\ added[k].type = "compaction"
      /\ i \in 1 .. Len(a) + 1 /\ IsFirstKept(a, added[k].firstKeptEntryId, i)
  BY <1>1 DEF ShownCut
<1>3. IsHistory(new)
  BY <1>1, <1>2, ListGrows, Zenon DEF HistoryGrows
<1>4. PICK c, e, n : c = VisibleBranch(new, added[k].id) /\ e = added[k] /\ n = Len(a)
  OBVIOUS
<1>5. below \in IdsOf(new) \cup {None} /\ e.id \in IdsOf(new) /\ Extended(a, e, c)
  BY <1>1, <1>2, <1>4, BranchMore
<1>6. Speaks(a)
  BY <1>1, <1>3, <1>5, VisibleSends
<1>7. Speaks(c) /\ Sends(c, Openings(c), VisibleContext(new, e.id))
  BY <1>3, <1>4, <1>5, VisibleSends
<1>8. e.says \in Seq(Spoken) /\ e.type = "compaction"
  BY <1>2, <1>4 DEF Hung
<1>9. PICK w, x : w = Openings(c) /\ x = e.says \o Tell(a, i, n)
  OBVIOUS
<1>10. w[n + 1] = x /\ w[n + 1] \in Seq(Spoken)
  <2>1. IsFirstKept(a, e.firstKeptEntryId, i) /\ i \in 1 .. n + 1
    BY <1>2, <1>4
  <2>2. Openings(c)[n + 1] = e.says \o Tell(a, i, n) /\ Openings(c)[n + 1] \in Seq(Spoken)
    <3>1. Extended(a, e, c) /\ Speaks(a) /\ e.says \in Seq(Spoken) /\ n = Len(a)
      BY <1>4, <1>5, <1>6, <1>8
    <3>2. StandsFor(a, e, c, n, i)
      BY <2>1, <3>1, OpeningIs
    <3>3. QED BY <3>2 DEF StandsFor
  <2>3. QED BY <1>9, <2>2
<1>11. Sends(c, w, x)
  <2>1. Len(a) \in Nat /\ w[Len(a) + 1] = x /\ x \in Seq(Spoken)
    BY <1>4, <1>6, <1>10 DEF Speaks
  <2>2. QED BY <1>5, <1>8, <2>1, SendsCut
<1>12. VisibleContext(new, e.id) = x
  BY <1>7, <1>9, <1>11, SendsOne DEF Speaks
<1>13. VisibleContext(new, added[k].id) = added[k].says \o Tell(a, i, Len(a))
  BY <1>4, <1>9, <1>12
<1>14. QED BY <1>1, <1>13 DEF CutSays
-----------------------------------------------------------------------------
(* How a compaction is shown.                                              *)

LEMMA OneOf ==
  ASSUME NEW e, NEW s, s = <<e>>
  PROVE  IsSequence(s) /\ Len(s) = 1 /\ DOMAIN s = 1 .. 1 /\ s[1] = e /\ \A i \in DOMAIN s : i = 1
<1>1. s \in Seq({e}) /\ Len(s) = 1 /\ s[1] = e
  OBVIOUS
<1>2. IsSequence(s) /\ DOMAIN s = 1 .. Len(s)
  BY <1>1, SequenceOf, LenProperties
<1>3. QED BY <1>1, <1>2

\* One entry hung from the branch.
LEMMA OneHung ==
  ASSUME NEW list, NEW from \in IdsOf(list) \cup {None}, NEW e, e.id \notin IdsOf(list) \cup {None},
         e.parentId = from, e.says \in Seq(Spoken)
  PROVE  Hung(list, <<e>>, from)
<1>1. PICK s : s = <<e>>
  OBVIOUS
<1>2. IsSequence(s) /\ DOMAIN s = 1 .. 1 /\ s[1] = e /\ \A i \in DOMAIN s : i = 1
  BY <1>1, OneOf
<1>3. Hung(list, s, from)
  BY <1>2 DEF Hung
<1>4. QED BY <1>1, <1>3

\* Messages, each alone in a sequence, joined again.
Singles(s, k) == [i \in 1 .. k |-> <<s[i]>>]
Rejoined(S, s, k) ==
  /\ FlattenSeq(Singles(s, k)) \in Seq(S) /\ Len(FlattenSeq(Singles(s, k))) = k
  /\ \A i \in 1 .. k : FlattenSeq(Singles(s, k))[i] = s[i]
RejoinedUpTo(S, s) == {k \in Nat : k <= Len(s) => Rejoined(S, s, k)}

LEMMA RejoinMore ==
  ASSUME NEW S, NEW s \in Seq(S), NEW k \in Nat, k + 1 <= Len(s), Rejoined(S, s, k)
  PROVE  Rejoined(S, s, k + 1)
<1>1. /\ k <= Len(s) /\ k + 1 \in 1 .. Len(s) /\ k + 1 \in 1 .. k + 1
      /\ \A i \in 1 .. Len(s) : s[i] \in S
  BY LenProperties, ElementOfSeq
<1>2. PICK a, b, f, h : a = Singles(s, k) /\ b = Singles(s, k + 1) /\ f = FlattenSeq(a) /\ h = FlattenSeq(b)
  OBVIOUS
<1>3. f \in Seq(S) /\ Len(f) = k /\ \A i \in 1 .. k : f[i] = s[i]
  BY <1>2 DEF Rejoined
<1>4. \A i \in 1 .. k : i \in 1 .. k + 1
  OBVIOUS
<1>5. \A i \in 1 .. k + 1 : s[i] \in S
  BY <1>1
<1>6. a \in [1 .. k -> Seq(S)] /\ b \in [1 .. k + 1 -> Seq(S)]
  <2>1. \A i \in 1 .. k + 1 : <<s[i]>> \in Seq(S)
    BY <1>5
  <2>2. QED BY <1>2, <1>4, <2>1 DEF Singles
<1>7. SameUpTo(k, a, b)
  BY <1>2, <1>4 DEF SameUpTo, Singles
<1>8. b[k + 1] = <<s[k + 1]>>
  BY <1>1, <1>2 DEF Singles
<1>9. h = f \o b[k + 1]
  BY <1>2, <1>6, <1>7, FlattenMore
<1>10. PICK x : x = <<s[k + 1]>>
  OBVIOUS
<1>11. x \in Seq(S) /\ Len(x) = 1 /\ x[1] = s[k + 1]
  <2>1. PICK e : e = s[k + 1]
    OBVIOUS
  <2>2. e \in S /\ x = <<e>>
    BY <1>1, <1>10, <2>1
  <2>3. QED BY <2>1, <2>2
<1>12. h = f \o x
  BY <1>8, <1>9, <1>10
<1>13. h \in Seq(S) /\ IsJoin(f, x, h)
  BY <1>3, <1>11, <1>12, JoinIs
<1>14. Len(h) = k + 1 /\ (\A i \in 1 .. k : h[i] = s[i]) /\ h[k + 1] = s[k + 1]
  <2>1. 1 \in 1 .. Len(x) /\ Len(f) + 1 = k + 1
    BY <1>3, <1>11
  <2>2. QED BY <1>3, <1>11, <1>13, <2>1 DEF IsJoin
<1>15. \A i \in 1 .. k + 1 : i \in 1 .. k \/ i = k + 1
  OBVIOUS
<1>16. \A i \in 1 .. k + 1 : h[i] = s[i]
  BY <1>14, <1>15
<1>17. QED BY <1>2, <1>13, <1>14, <1>16 DEF Rejoined

LEMMA FlattenSingles ==
  ASSUME NEW S, NEW s \in Seq(S), NEW t, t = Len(s)
  PROVE  FlattenSeq([i \in 1 .. t |-> <<s[i]>>]) = s
<1>1. t \in Nat
  BY LenProperties
<1>2. 0 \in RejoinedUpTo(S, s)
  <2>1. Singles(s, 0) = <<>>
    BY DEF Singles
  <2>2. FlattenSeq(Singles(s, 0)) = <<>>
    BY <2>1, FlattenNone
  <2>3. <<>> \in Seq(S) /\ Len(<<>>) = 0
    OBVIOUS
  <2>4. Rejoined(S, s, 0)
    <3>1. PICK f : f = FlattenSeq(Singles(s, 0))
      OBVIOUS
    <3>2. f = <<>>
      BY <2>2, <3>1
    <3>3. f \in Seq(S) /\ Len(f) = 0 /\ \A i \in 1 .. 0 : f[i] = s[i]
      BY <2>3, <3>2
    <3>4. QED BY <3>1, <3>3 DEF Rejoined
  <2>5. QED BY <2>4 DEF RejoinedUpTo
<1>3. ASSUME NEW k \in RejoinedUpTo(S, s)
      PROVE  k + 1 \in RejoinedUpTo(S, s)
  <2>1. k \in Nat /\ k + 1 \in Nat /\ (k + 1 <= Len(s) => k <= Len(s)) /\ (k <= Len(s) => Rejoined(S, s, k))
    BY <1>1 DEF RejoinedUpTo
  <2>2. k + 1 <= Len(s) => Rejoined(S, s, k + 1)
    BY <2>1, RejoinMore
  <2>3. QED BY <2>1, <2>2 DEF RejoinedUpTo
<1>4. RejoinedUpTo(S, s) \subseteq Nat
  BY DEF RejoinedUpTo
<1>5. RejoinedUpTo(S, s) = Nat
  BY <1>2, <1>3, <1>4, NatSets
<1>6. Rejoined(S, s, t)
  <2>1. t \in RejoinedUpTo(S, s) /\ t <= t
    BY <1>1, <1>5
  <2>2. QED BY <2>1 DEF RejoinedUpTo
<1>7. PICK f : f = FlattenSeq(Singles(s, t))
  OBVIOUS
<1>8. f \in Seq(S) /\ Len(f) = t /\ \A i \in 1 .. t : f[i] = s[i]
  BY <1>6, <1>7 DEF Rejoined
<1>9. f = s
  BY <1>8, SeqEqual
<1>10. QED BY <1>7, <1>9 DEF Singles

\* A compaction as it is shown: behind the branch, and with the summary and the tail.
Cut(list, from, n, added, tail) ==
  /\ Hung(list, added, from)
  /\ Len(added) \in Nat \ {0} /\ DOMAIN added = 1 .. Len(added) /\ added[Len(added)].id = Id(n)
  /\ \A i \in DOMAIN added : added[i].type # "metadata" /\ \E j \in Nat : added[i].id = <<n, j>>
  /\ VisibleContext(list \o added, Id(n)) = <<Id(n)>> \o tail
Fresh(list, n) == n \in Nat \ {0} /\ \A j \in Nat : <<n, j>> \notin IdsOf(list)

LEMMA FreshIs ==
  ASSUME NEW list, NEW n, Fresh(list, n), NEW j \in Nat
  PROVE  <<n, j>> \notin IdsOf(list) \cup {None} /\ Id(n) \notin IdsOf(list) \cup {None}
<1>1. PICK x, y : x = <<n, j>> /\ y = <<n, 0>>
  OBVIOUS
<1>2. x # None /\ y # None
  BY <1>1 DEF Fresh, None
<1>3. x \notin IdsOf(list) /\ y \notin IdsOf(list)
  BY <1>1 DEF Fresh
<1>4. QED BY <1>1, <1>2, <1>3 DEF Id

\* Without derived nodes.
LEMMA CutAlone ==
  ASSUME NEW list, IsHistory(list), NEW from \in IdsOf(list) \cup {None}, NEW n, Fresh(list, n),
         NEW path, path = VisibleBranch(list, from), NEW first,
         NEW tail \in Seq(Spoken), NEW i \in 1 .. Len(path) + 1, IsFirstKept(path, first, i),
         Tell(path, i, Len(path)) = tail, NEW added,
         added = <<Shown(Id(n), "compaction", from, <<Id(n)>>, first)>>
  PROVE  Cut(list, from, n, added, tail)
<1>1. PICK e : e = Shown(Id(n), "compaction", from, <<Id(n)>>, first)
  OBVIOUS
<1>2. e.id = Id(n) /\ e.type = "compaction" /\ e.parentId = from /\ e.says = <<Id(n)>> /\ e.firstKeptEntryId = first
  BY <1>1 DEF Shown
<1>3. added = <<e>>
  BY <1>1
<1>4. IsSequence(added) /\ Len(added) = 1 /\ DOMAIN added = 1 .. 1 /\ added[1] = e /\ \A j \in DOMAIN added : j = 1
  BY <1>3, OneOf
<1>5. e.says \in Seq(Spoken)
  <2>1. PICK x : x = Id(n)
    OBVIOUS
  <2>2. x \in Spoken
    BY <2>1, IdIs DEF Fresh
  <2>3. <<x>> \in Seq(Spoken)
    BY <2>2
  <2>4. QED BY <1>2, <2>1, <2>3
<1>6. Id(n) \notin IdsOf(list) \cup {None}
  BY FreshIs
<1>7. Hung(list, added, from)
  BY <1>2, <1>3, <1>5, <1>6, OneHung
<1>8. PICK new : new = list \o added
  OBVIOUS
<1>9. VisibleBranch(new, from) = path
  BY <1>7, <1>8, VisibleStays
<1>10. VisibleContext(new, added[1].id) = added[1].says \o Tell(path, i, Len(path))
  <2>1. ShownCut(list, added, from, i)
    BY <1>2, <1>4, <1>7, <1>8, <1>9 DEF ShownCut
  <2>2. CutSays(list, added, from, i)
    BY <2>1, LastCutSays
  <2>3. QED BY <1>4, <1>8, <1>9, <2>2 DEF CutSays
<1>11. VisibleContext(new, Id(n)) = <<Id(n)>> \o tail
  BY <1>2, <1>4, <1>10
<1>12. \A j \in DOMAIN added : added[j].type # "metadata" /\ \E m \in Nat : added[j].id = <<n, m>>
  BY <1>2, <1>4 DEF Id
<1>13. Len(added) \in Nat \ {0} /\ DOMAIN added = 1 .. Len(added) /\ added[Len(added)].id = Id(n)
  BY <1>2, <1>4
<1>14. VisibleContext(list \o added, Id(n)) = <<Id(n)>> \o tail
  BY <1>8, <1>11
<1>15. QED BY <1>7, <1>12, <1>13, <1>14, Zenon DEF Cut

-----------------------------------------------------------------------------
(* A compaction whose tail the branch does not say is shown behind nodes   *)
(* derived from that tail.                                                 *)

Derived(n, from, tail) ==
  [i \in DOMAIN tail |->
     Shown(<<n, i>>, "message", IF i = 1 THEN from ELSE <<n, i - 1>>, <<tail[i]>>, None)]
WithDerived(n, from, tail, added) ==
  /\ Len(tail) \in Nat /\ Len(added) = Len(tail) + 1 /\ DOMAIN added = 1 .. Len(tail) + 1
  /\ IsSequence(added)
  /\ \A i \in 1 .. Len(tail) :
       added[i] = Shown(<<n, i>>, "message", IF i = 1 THEN from ELSE <<n, i - 1>>, <<tail[i]>>, None)
  /\ added[Len(tail) + 1] = Shown(Id(n), "compaction", <<n, Len(tail)>>, <<Id(n)>>, <<n, 1>>)

LEMMA DerivedJoin ==
  ASSUME NEW n, NEW from, NEW tail \in Seq(Spoken), NEW added,
         added = Derived(n, from, tail) \o <<Shown(Id(n), "compaction", <<n, Len(tail)>>, <<Id(n)>>, <<n, 1>>)>>
  PROVE  WithDerived(n, from, tail, added)
<1>1. PICK t, d, e, s : /\ t = Len(tail) /\ d = Derived(n, from, tail)
                        /\ e = Shown(Id(n), "compaction", <<n, Len(tail)>>, <<Id(n)>>, <<n, 1>>) /\ s = <<e>>
  OBVIOUS
<1>2. t \in Nat /\ DOMAIN tail = 1 .. t
  BY <1>1, LenProperties
<1> DEFINE S == {d[i] : i \in 1 .. t} \cup {e}
<1>3. d \in [1 .. t -> S]
  BY <1>1, <1>2 DEF Derived
<1>4. d \in Seq(S) /\ Len(d) = t
  BY <1>2, <1>3, FunctionIsSeq
<1>5. s \in Seq(S) /\ Len(s) = 1 /\ s[1] = e
  BY <1>1
<1> HIDE DEF S
<1>6. added = d \o s
  BY <1>1
<1>7. added \in Seq(S) /\ IsJoin(d, s, added)
  BY <1>4, <1>5, <1>6, JoinIs
<1>8. IsSequence(added)
  BY <1>7, SequenceOf
<1>9. Len(added) = t + 1 /\ DOMAIN added = 1 .. t + 1 /\ (\A i \in 1 .. t : added[i] = d[i]) /\ added[t + 1] = s[1]
  <2>1. 1 \in 1 .. Len(s)
    BY <1>5
  <2>2. QED BY <1>4, <1>5, <1>7, <2>1 DEF IsJoin
<1>10. \A i \in 1 .. t : d[i] = Shown(<<n, i>>, "message", IF i = 1 THEN from ELSE <<n, i - 1>>, <<tail[i]>>, None)
  BY <1>1, <1>2 DEF Derived
<1>11. QED BY <1>1, <1>2, <1>5, <1>8, <1>9, <1>10, Zenon DEF WithDerived

\* They hang one from another behind the branch.
HangsDerived(list, from, n, tail, added, t) ==
  /\ Hung(list, added, from) /\ t \in Nat \ {0}
  /\ \A i \in 1 .. t : added[i].id = <<n, i>> /\ added[i].type = "message" /\ added[i].says = <<tail[i]>>
  /\ added[t + 1].id = Id(n) /\ added[t + 1].type = "compaction" /\ added[t + 1].says = <<Id(n)>>
  /\ added[t + 1].firstKeptEntryId = <<n, 1>>

LEMMA DerivedHang ==
  ASSUME NEW list, NEW from \in IdsOf(list) \cup {None}, NEW n, Fresh(list, n), NEW tail \in Seq(Spoken),
         tail # <<>>, NEW added, WithDerived(n, from, tail, added), NEW t, t = Len(tail)
  PROVE  HangsDerived(list, from, n, tail, added, t)
<1>1. t \in Nat /\ DOMAIN added = 1 .. t + 1 /\ IsSequence(added)
  BY DEF WithDerived
<1>2. t # 0
  BY EmptySeq
<1>3. ASSUME NEW i \in 1 .. t
      PROVE  /\ added[i].id = <<n, i>> /\ added[i].type = "message" /\ added[i].says = <<tail[i]>>
             /\ added[i].parentId = IF i = 1 THEN from ELSE <<n, i - 1>>
  <2>1. added[i] = Shown(<<n, i>>, "message", IF i = 1 THEN from ELSE <<n, i - 1>>, <<tail[i]>>, None)
    BY DEF WithDerived
  <2>2. QED BY <2>1 DEF Shown
<1>4. /\ added[t + 1].id = Id(n) /\ added[t + 1].type = "compaction" /\ added[t + 1].says = <<Id(n)>>
      /\ added[t + 1].parentId = <<n, t>> /\ added[t + 1].firstKeptEntryId = <<n, 1>>
  <2>1. added[t + 1] = Shown(Id(n), "compaction", <<n, t>>, <<Id(n)>>, <<n, 1>>)
    BY DEF WithDerived
  <2>2. QED BY <2>1 DEF Shown
<1>5. \A i \in 1 .. t + 1 : i \in 1 .. t \/ i = t + 1
  BY <1>1
<1>6. \A i \in DOMAIN added : added[i].says \in Seq(Spoken)
  <2>1. ASSUME NEW i \in 1 .. t
        PROVE  added[i].says \in Seq(Spoken)
    <3>1. PICK x : x = tail[i]
      OBVIOUS
    <3>2. x \in Spoken
      BY <3>1, ElementOfSeq
    <3>3. <<x>> \in Seq(Spoken)
      BY <3>2
    <3>4. QED BY <1>3, <3>1, <3>3
  <2>2. added[t + 1].says \in Seq(Spoken)
    <3>1. PICK x : x = Id(n)
      OBVIOUS
    <3>2. x \in Spoken
      BY <3>1, IdIs DEF Fresh
    <3>3. <<x>> \in Seq(Spoken)
      BY <3>2
    <3>4. QED BY <1>4, <3>1, <3>3
  <2>3. QED BY <1>1, <1>5, <2>1, <2>2
<1>7. \A i \in DOMAIN added : added[i].id = <<n, IF i = t + 1 THEN 0 ELSE i>>
  <2>1. \A i \in 1 .. t : i # t + 1
    BY <1>1
  <2>2. Id(n) = <<n, 0>>
    BY DEF Id
  <2>3. QED BY <1>1, <1>3, <1>4, <1>5, <2>1, <2>2
<1>8. \A i, j \in DOMAIN added : added[i].id = added[j].id => i = j
  <2>1. SUFFICES ASSUME NEW i \in DOMAIN added, NEW j \in DOMAIN added, added[i].id = added[j].id
                 PROVE  i = j
    OBVIOUS
  <2>2. PICK a, b : a = (IF i = t + 1 THEN 0 ELSE i) /\ b = (IF j = t + 1 THEN 0 ELSE j)
    OBVIOUS
  <2>3. <<n, a>> = <<n, b>>
    BY <1>7, <2>1, <2>2
  <2>4. a = b
    BY <2>3
  <2>5. i \in 1 .. t + 1 /\ j \in 1 .. t + 1
    BY <1>1
  <2>6. QED BY <1>1, <2>2, <2>4, <2>5
<1>9. \A i \in DOMAIN added : added[i].id \notin IdsOf(list) \cup {None}
  <2>1. \A i \in DOMAIN added : (IF i = t + 1 THEN 0 ELSE i) \in Nat
    BY <1>1
  <2>2. QED BY <1>7, <2>1, FreshIs
<1>10. \A i \in DOMAIN added : added[i].parentId = IF i = 1 THEN from ELSE added[i - 1].id
  <2>1. ASSUME NEW i \in 1 .. t, i # 1
        PROVE  added[i - 1].id = <<n, i - 1>>
    <3>1. i - 1 \in 1 .. t
      BY <1>1, <2>1
    <3>2. QED BY <1>3, <3>1
  <2>2. t + 1 # 1 /\ t + 1 - 1 = t /\ t \in 1 .. t
    BY <1>1, <1>2
  <2>3. added[t + 1].parentId = added[t + 1 - 1].id
    BY <1>3, <1>4, <2>2
  <2>4. ASSUME NEW i \in DOMAIN added
        PROVE  added[i].parentId = IF i = 1 THEN from ELSE added[i - 1].id
    <3>1. CASE i \in 1 .. t /\ i = 1
      BY <1>3, <3>1
    <3>2. CASE i \in 1 .. t /\ i # 1
      BY <1>3, <2>1, <3>2
    <3>3. CASE i = t + 1
      BY <2>2, <2>3, <3>3
    <3>4. QED BY <1>1, <1>5, <3>1, <3>2, <3>3
  <2>5. QED BY <2>4
<1>11. Hung(list, added, from)
  BY <1>1, <1>6, <1>8, <1>9, <1>10 DEF Hung
<1>12. QED BY <1>1, <1>2, <1>3, <1>4, <1>11 DEF HangsDerived

LEMMA CutDerived ==
  ASSUME NEW list, IsHistory(list), NEW from \in IdsOf(list) \cup {None}, NEW n, Fresh(list, n),
         NEW tail \in Seq(Spoken), tail # <<>>, NEW added, WithDerived(n, from, tail, added)
  PROVE  Cut(list, from, n, added, tail)
<1>1. PICK t : t = Len(tail)
  OBVIOUS
<1>2. /\ Hung(list, added, from) /\ t \in Nat \ {0}
      /\ \A i \in 1 .. t : added[i].id = <<n, i>> /\ added[i].type = "message" /\ added[i].says = <<tail[i]>>
      /\ added[t + 1].id = Id(n) /\ added[t + 1].type = "compaction" /\ added[t + 1].says = <<Id(n)>>
      /\ added[t + 1].firstKeptEntryId = <<n, 1>>
  <2>1. HangsDerived(list, from, n, tail, added, t)
    BY <1>1, DerivedHang
  <2>2. QED BY <2>1 DEF HangsDerived
<1>3. Len(added) = t + 1 /\ DOMAIN added = 1 .. t + 1 /\ IsSequence(added)
  BY <1>1 DEF WithDerived
<1>4. PICK new, path, p, m, k : /\ new = list \o added /\ path = VisibleBranch(list, from) /\ p = PathIds(list, from)
                                /\ m = Len(p) /\ k = t + 1
  OBVIOUS
<1>5. /\ m \in Nat /\ Len(path) = m /\ DOMAIN path = 1 .. m /\ DOMAIN p = 1 .. m /\ p \in Seq(IdsOf(list))
      /\ \A i \in 1 .. m : path[i].id = p[i]
  BY <1>4, PathsAre
<1>6. \A i \in 1 .. m : path[i].id \in IdsOf(list)
  BY <1>4, <1>5, ElementOfSeq
<1>7. PICK a : a = VisibleBranch(new, added[t].id)
  OBVIOUS
<1>8. /\ Len(a) = m + t /\ \A i \in 1 .. m : a[i] = path[i]
      /\ \A i \in 1 .. t : a[m + i] = added[i]
  <2>1. HistoryGrows(list, added, from, new)
    BY <1>2, <1>4, ListGrows
  <2>2. t \in DOMAIN added
    BY <1>2, <1>3
  <2>3. PICK d : d = [i \in 1 .. t |-> added[i]]
    OBVIOUS
  <2>4. IsJoin(path, d, a)
    BY <1>4, <1>7, <2>1, <2>2, <2>3 DEF HistoryGrows
  <2>5. Len(d) = t
    <3>1. t \in Nat /\ d \in [1 .. t -> {d[i] : i \in 1 .. t}]
      BY <1>2, <2>3
    <3>2. QED BY <3>1, FunctionIsSeq
  <2>6. QED BY <1>5, <2>3, <2>4, <2>5 DEF IsJoin
<1>9. PICK f, j : f = <<n, 1>> /\ j = m + 1
  OBVIOUS
<1>10. f \notin IdsOf(list)
  BY <1>9 DEF Fresh
<1>11. j \in 1 .. Len(a) + 1 /\ IsFirstKept(a, f, j)
  <2>1. 1 \in 1 .. t /\ j \in 1 .. Len(a) + 1
    BY <1>2, <1>5, <1>8, <1>9
  <2>2. a[j].id = f
    BY <1>2, <1>8, <1>9, <2>1
  <2>3. ASSUME NEW h \in 1 .. Len(a), a[h].id = f
        PROVE  j <= h
    <3>1. h \notin 1 .. m
      BY <1>6, <1>8, <1>10, <2>3
    <3>2. QED BY <1>2, <1>5, <1>8, <1>9, <3>1
  <2>4. QED BY <2>1, <2>2, <2>3 DEF IsFirstKept
<1>12. Tell(a, j, Len(a)) = tail
  <2>1. PICK w : w = Len(a) - j + 1
    OBVIOUS
  <2>2. w = t /\ \A i \in 1 .. t : j + i - 1 = m + i
    BY <1>2, <1>5, <1>8, <1>9, <2>1
  <2>3. \A i \in 1 .. t : a[j + i - 1].says = <<tail[i]>>
    BY <1>2, <1>8, <2>2
  <2>4. Tell(a, j, Len(a)) = FlattenSeq([i \in 1 .. w |-> a[j + i - 1].says])
    BY <2>1 DEF Tell
  <2>5. [i \in 1 .. w |-> a[j + i - 1].says] = [i \in 1 .. t |-> <<tail[i]>>]
    BY <2>2, <2>3
  <2>6. FlattenSeq([i \in 1 .. t |-> <<tail[i]>>]) = tail
    BY <1>1, FlattenSingles
  <2>7. QED BY <2>4, <2>5, <2>6
<1>13. k # 1 /\ k - 1 = t /\ k \in DOMAIN added /\ Len(added) = k
  BY <1>2, <1>3, <1>4
<1>14. CutSays(list, added, from, j)
  <2>1. ShownCut(list, added, from, j)
    BY <1>2, <1>4, <1>7, <1>9, <1>11, <1>13 DEF ShownCut
  <2>2. QED BY <2>1, LastCutSays
<1>15. VisibleContext(new, Id(n)) = <<Id(n)>> \o tail
  BY <1>2, <1>4, <1>7, <1>12, <1>13, <1>14 DEF CutSays
<1>16. \A i \in DOMAIN added : added[i].type # "metadata" /\ \E h \in Nat : added[i].id = <<n, h>>
  <2>1. \A i \in DOMAIN added : i \in 1 .. t \/ i = t + 1
    BY <1>2, <1>3
  <2>2. \A i \in 1 .. t : i \in Nat
    BY <1>2
  <2>3. 0 \in Nat /\ Id(n) = <<n, 0>>
    BY DEF Id
  <2>4. QED BY <1>2, <2>1, <2>2, <2>3
<1>17. Len(added) \in Nat \ {0} /\ DOMAIN added = 1 .. Len(added) /\ added[Len(added)].id = Id(n)
  BY <1>2, <1>3
<1>18. VisibleContext(list \o added, Id(n)) = <<Id(n)>> \o tail
  BY <1>4, <1>15
<1>19. QED BY <1>2, <1>16, <1>17, <1>18, Zenon DEF Cut

\* The entry from which a branch says the tail is the first kept one.
LEMMA FirstKeptIs ==
  ASSUME NEW list, IsHistory(list), NEW from \in IdsOf(list) \cup {None},
         NEW path, path = VisibleBranch(list, from), NEW i \in 1 .. Len(path)
  PROVE  IsFirstKept(path, path[i].id, i)
<1>1. PICK p : p = PathIds(list, from)
  OBVIOUS
<1>2. /\ Line(Over(list), from, p) /\ Len(p) \in Nat /\ DOMAIN p = 1 .. Len(p) /\ Len(path) = Len(p)
      /\ \A j \in 1 .. Len(p) : path[j].id = p[j]
  BY <1>1, PathsAre
<1>3. \A h \in 1 .. Len(p) : path[h].id = path[i].id => h = i
  BY <1>2 DEF Line
<1>4. \A h \in 1 .. Len(path) : path[h].id = path[i].id => i <= h
  BY <1>2, <1>3
<1>5. QED BY <1>4 DEF IsFirstKept

LEMMA FirstKeptNone ==
  ASSUME NEW list, IsHistory(list), NEW from \in IdsOf(list) \cup {None},
         NEW path, path = VisibleBranch(list, from), NEW first, first \notin IdsOf(list)
  PROVE  /\ Len(path) \in Nat /\ Len(path) + 1 \in 1 .. Len(path) + 1
         /\ IsFirstKept(path, first, Len(path) + 1) /\ Tell(path, Len(path) + 1, Len(path)) = <<>>
<1>1. PICK p, n : p = PathIds(list, from) /\ n = Len(p)
  OBVIOUS
<1>2. /\ n \in Nat /\ Len(path) = n /\ p \in Seq(IdsOf(list)) /\ \A j \in 1 .. n : path[j].id = p[j]
  BY <1>1, PathsAre
<1>3. \A j \in 1 .. n : path[j].id # first
  BY <1>1, <1>2, ElementOfSeq
<1>4. ~(n + 1 <= n) /\ n + 1 \in 1 .. n + 1
  BY <1>2
<1>5. IsFirstKept(path, first, n + 1)
  BY <1>2, <1>3, <1>4 DEF IsFirstKept
<1>6. QED BY <1>2, <1>4, <1>5, TellNothing

\* Whichever way it is shown, a compaction says its summary and its retained tail.
KeepsOf(raw, path) ==
  /\ raw.retainedTail \in Seq(Spoken)
  /\ raw.boundary # None =>
       \E i \in 1 .. Len(path) : path[i].id = raw.boundary /\ Tell(path, i, Len(path)) = raw.retainedTail

LEMMA Compacted ==
  ASSUME NEW list, IsHistory(list), NEW from \in IdsOf(list) \cup {None}, NEW n, Fresh(list, n),
         NEW raw, KeepsOf(raw, VisibleBranch(list, from))
  PROVE  Cut(list, from, n, ProjectCompaction(n, raw, from, VisibleBranch(list, from)), raw.retainedTail)
<1>1. PICK path, tail, added, m : /\ path = VisibleBranch(list, from) /\ tail = raw.retainedTail
                                  /\ added = ProjectCompaction(n, raw, from, path) /\ m = Len(path)
  OBVIOUS
<1>2. /\ tail \in Seq(Spoken) /\ raw.retainedTail = tail
      /\ raw.boundary # None => \E i \in 1 .. m : path[i].id = raw.boundary /\ Tell(path, i, m) = tail
  BY <1>1 DEF KeepsOf
<1>3. m \in Nat /\ DOMAIN path = 1 .. m /\ IsSequence(path)
  BY <1>1, PathsAre
<1> DEFINE own(first) == <<Shown(Id(n), "compaction", from, <<Id(n)>>, first)>>
<1>4. ASSUME NEW first, NEW i \in 1 .. m + 1, IsFirstKept(path, first, i), Tell(path, i, m) = tail, added = own(first)
      PROVE  Cut(list, from, n, added, tail)
  BY <1>1, <1>2, <1>4, CutAlone
<1>5. ASSUME NEW i \in 1 .. m, Tell(path, i, m) = tail, added = own(path[i].id)
      PROVE  Cut(list, from, n, added, tail)
  <2>1. PICK first : first = path[i].id
    OBVIOUS
  <2>2. IsFirstKept(path, first, i) /\ i \in 1 .. m + 1
    BY <1>1, <1>3, <2>1, FirstKeptIs
  <2>3. added = own(first)
    BY <1>5, <2>1
  <2> HIDE DEF own
  <2>4. QED BY <1>4, <1>5, <2>2, <2>3
<1> DEFINE starts == {i \in DOMAIN path : path[i].says # <<>> /\ Said(SubSeq(path, i, Len(path))) = tail}
<1>6. /\ raw.boundary # None => added = own(raw.boundary)
      /\ raw.boundary = None /\ tail = <<>> => added = own(Id(n))
      /\ raw.boundary = None /\ tail # <<>> /\ starts # {} => added = own(path[CHOOSE i \in starts : TRUE].id)
      /\ raw.boundary = None /\ tail # <<>> /\ starts = {} =>
           added = Derived(n, from, tail)
                   \o <<Shown(Id(n), "compaction", <<n, Len(tail)>>, <<Id(n)>>, <<n, 1>>)>>
  BY <1>1, <1>2 DEF ProjectCompaction, Derived
<1>7. \A i \in starts : i \in 1 .. m /\ Tell(path, i, m) = tail
  <2>1. SUFFICES ASSUME NEW i \in starts
                 PROVE  i \in 1 .. m /\ Tell(path, i, m) = tail
    OBVIOUS
  <2>2. i \in 1 .. m /\ Said(SubSeq(path, i, m)) = tail
    BY <1>1, <1>3
  <2>3. i \in 1 .. m + 1
    BY <1>3, <2>2
  <2>4. QED BY <1>1, <1>3, <2>2, <2>3, SaidIsTold
<1> HIDE DEF own, starts
<1>8. CASE raw.boundary # None
  <2>1. PICK i \in 1 .. m : path[i].id = raw.boundary /\ Tell(path, i, m) = tail
    BY <1>2, <1>8
  <2>2. added = own(path[i].id)
    BY <1>6, <1>8, <2>1
  <2>3. QED BY <1>1, <1>5, <2>1, <2>2
<1>9. CASE raw.boundary = None /\ tail = <<>>
  <2>1. PICK f : f = Id(n)
    OBVIOUS
  <2>2. f \notin IdsOf(list)
    BY <2>1, FreshIs, 0 \in Nat
  <2>3. m + 1 \in 1 .. m + 1 /\ IsFirstKept(path, f, m + 1) /\ Tell(path, m + 1, m) = <<>>
    <3>1. /\ m + 1 \in 1 .. m + 1
          /\ IsFirstKept(path, f, Len(path) + 1) /\ Tell(path, Len(path) + 1, Len(path)) = <<>>
      BY <1>1, <2>2, FirstKeptNone
    <3>2. QED BY <1>1, <3>1
  <2>4. added = own(f)
    BY <1>6, <1>9, <2>1
  <2>5. QED BY <1>1, <1>4, <1>9, <2>3, <2>4
<1>10. CASE raw.boundary = None /\ tail # <<>> /\ starts # {}
  <2>1. PICK i \in starts : i = CHOOSE j \in starts : TRUE
    BY <1>10
  <2>2. added = own(path[i].id)
    BY <1>6, <1>10, <2>1
  <2>3. QED BY <1>1, <1>5, <1>7, <2>1, <2>2
<1>11. CASE raw.boundary = None /\ tail # <<>> /\ starts = {}
  <2>1. WithDerived(n, from, tail, added)
    BY <1>2, <1>6, <1>11, DerivedJoin
  <2>2. QED BY <1>1, <1>2, <1>11, <2>1, CutDerived
<1>12. QED BY <1>8, <1>9, <1>10, <1>11
-----------------------------------------------------------------------------
(* The two histories together.                                             *)

\* The metadata of a list, by which its next ID is chosen.
MetaOf(list) == {i \in DOMAIN list : list[i].type = "metadata"}
Fits(id, nat, list) ==
  /\ id \in Nat \X Nat /\ id # None /\ id[1] <= Len(nat)
  /\ id[1] = 0 => id[2] <= Cardinality(MetaOf(list))

\* Every entry of Pi is shown, and a branch that ends at a placed one, custom entries
\* and those in `off` aside, says the same in both histories.
Whole(nat, list, off) ==
  /\ IsNative(nat) /\ IsHistory(list)
  /\ \A id \in IdsOf(list) : Fits(id, nat, list)
  /\ \A n \in DOMAIN nat : Id(n) \in IdsOf(list)
  /\ \A n \in Placed(nat) :
       nat[n].type # "custom" /\ n \notin off => VisibleContext(list, Id(n)) = NContext(nat, Id(n))

\* Two tips, and two that say the same.
Standing(nat, list, l, v) ==
  l \in Nodes(nat) \cup {None} /\ v \in IdsOf(list) \cup {None}
Agree(nat, list, l, v) ==
  /\ l \in Nodes(nat) \cup {None} /\ v \in IdsOf(list) \cup {None}
  /\ VisibleContext(list, v) = NContext(nat, l)

\* What growing leaves alone in each.
NativeOn(nat, more) ==
  /\ IsNative(more) /\ Len(nat) \in Nat /\ Len(more) \in Nat /\ Len(nat) <= Len(more)
  /\ DOMAIN nat = 1 .. Len(nat) /\ DOMAIN more = 1 .. Len(more)
  /\ Placed(nat) \subseteq Placed(more) /\ Nodes(nat) \subseteq Nodes(more)
  /\ \A n \in Placed(nat) : more[n] = nat[n]
  /\ \A l \in Nodes(nat) \cup {None} : NContext(more, l) = NContext(nat, l)
ListOn(list, new) ==
  /\ IsHistory(new) /\ IdsOf(list) \subseteq IdsOf(new)
  /\ \A id \in IdsOf(list) : Entry(new, id) = Entry(list, id)
  /\ \A leaf \in IdsOf(list) \cup {None} : /\ PathIds(new, leaf) = PathIds(list, leaf)
                                           /\ VisibleContext(new, leaf) = VisibleContext(list, leaf)
MoreMeta(list, new) ==
  /\ Cardinality(MetaOf(list)) \in Nat /\ Cardinality(MetaOf(new)) \in Nat
  /\ Cardinality(MetaOf(list)) <= Cardinality(MetaOf(new))

\* They grow together, and two tips follow.
Onward(nat, list, more, new, off) ==
  /\ Whole(more, new, off) /\ ListOn(list, new)
  /\ \A l, v : /\ Standing(nat, list, l, v) => Standing(more, new, l, v)
               /\ Agree(nat, list, l, v) => Agree(more, new, l, v)
Follow(nat, list, l, v, more, new, m, w) ==
  Standing(more, new, m, w) /\ (Agree(nat, list, l, v) => Agree(more, new, m, w))

LEMMA StillKnown ==
  ASSUME NEW nat, NEW list, NEW more, NEW new, NativeOn(nat, more), ListOn(list, new),
         NEW l, NEW v, Standing(nat, list, l, v)
  PROVE  Standing(more, new, l, v)
  BY DEF Standing, NativeOn, ListOn

LEMMA StillAgree ==
  ASSUME NEW nat, NEW list, NEW more, NEW new, NativeOn(nat, more), ListOn(list, new),
         NEW l, NEW v, Agree(nat, list, l, v)
  PROVE  Agree(more, new, l, v)
<1>1. l \in Nodes(nat) \cup {None} /\ v \in IdsOf(list) \cup {None} /\ VisibleContext(list, v) = NContext(nat, l)
  BY DEF Agree
<1>2. l \in Nodes(more) \cup {None} /\ NContext(more, l) = NContext(nat, l)
  BY <1>1 DEF NativeOn
<1>3. v \in IdsOf(new) \cup {None} /\ VisibleContext(new, v) = VisibleContext(list, v)
  BY <1>1 DEF ListOn
<1>4. QED BY <1>1, <1>2, <1>3 DEF Agree

LEMMA WholeAgain ==
  ASSUME NEW nat, NEW list, NEW more, NEW new, NEW off, NEW far, Whole(nat, list, off), off \subseteq far,
         NativeOn(nat, more), ListOn(list, new), MoreMeta(list, new),
         \A id \in IdsOf(new) \ IdsOf(list) : Fits(id, more, new),
         \A n \in DOMAIN more \ DOMAIN nat : Id(n) \in IdsOf(new),
         \A n \in Placed(more) \ Placed(nat) :
           more[n].type # "custom" /\ n \notin far => VisibleContext(new, Id(n)) = NContext(more, Id(n))
  PROVE  Onward(nat, list, more, new, far)
<1>1. IsNative(more) /\ IsHistory(new) /\ IdsOf(list) \subseteq IdsOf(new)
  BY DEF NativeOn, ListOn
<1>2. ASSUME NEW id \in IdsOf(list)
      PROVE  Fits(id, more, new)
  <2>1. Fits(id, nat, list)
    BY DEF Whole
  <2>2. id \in Nat \X Nat /\ id # None /\ id[1] <= Len(nat) /\ (id[1] = 0 => id[2] <= Cardinality(MetaOf(list)))
    BY <2>1 DEF Fits
  <2>3. PICK a, b, c, d : a = Len(nat) /\ b = Len(more) /\ c = Cardinality(MetaOf(list)) /\ d = Cardinality(MetaOf(new))
    OBVIOUS
  <2>4. a \in Nat /\ b \in Nat /\ a <= b /\ c \in Nat /\ d \in Nat /\ c <= d
    BY <2>3 DEF NativeOn, MoreMeta
  <2>5. PICK x \in Nat, y \in Nat : id[1] = x /\ id[2] = y
    BY <2>2
  <2>6. x <= b /\ (x = 0 => y <= d)
    BY <2>2, <2>3, <2>4, <2>5
  <2>7. QED BY <2>2, <2>3, <2>5, <2>6 DEF Fits
<1>3. \A id \in IdsOf(new) : Fits(id, more, new)
  BY <1>2
<1>4. \A n \in DOMAIN more : Id(n) \in IdsOf(new)
  BY <1>1 DEF Whole
<1>5. ASSUME NEW n \in Placed(more), more[n].type # "custom", n \notin far
      PROVE  VisibleContext(new, Id(n)) = NContext(more, Id(n))
  <2>1. CASE n \in Placed(nat)
    <3>1. more[n] = nat[n] /\ n \in DOMAIN nat /\ Id(n) \in Nodes(nat)
      BY <2>1 DEF NativeOn, Placed, Nodes
    <3>2. VisibleContext(list, Id(n)) = NContext(nat, Id(n)) /\ Id(n) \in IdsOf(list)
      BY <1>5, <2>1, <3>1 DEF Whole
    <3>3. Agree(nat, list, Id(n), Id(n))
      BY <3>1, <3>2 DEF Agree
    <3>4. Agree(more, new, Id(n), Id(n))
      BY <3>3, StillAgree
    <3>5. QED BY <3>4 DEF Agree
  <2>2. CASE n \notin Placed(nat)
    BY <1>5, <2>2
  <2>3. QED BY <2>1, <2>2
<1>6. Whole(more, new, far)
  BY <1>1, <1>3, <1>4, <1>5 DEF Whole
<1>7. QED BY <1>6, StillAgree, StillKnown DEF Onward

\* New entries change nothing of those listed.
LEMMA ListGoesOn ==
  ASSUME NEW list, IsHistory(list), NEW added, NEW from, Hung(list, added, from), NEW new, new = list \o added
  PROVE  ListOn(list, new) /\ IdsOf(new) = IdsOf(list) \cup {added[i].id : i \in DOMAIN added}
<1>1. HistoryGrows(list, added, from, new)
  BY ListGrows
<1>2. \A leaf \in IdsOf(list) \cup {None} : /\ PathIds(new, leaf) = PathIds(list, leaf)
                                            /\ VisibleContext(new, leaf) = VisibleContext(list, leaf)
  BY VisibleStays
<1>3. QED BY <1>1, <1>2 DEF HistoryGrows, ListOn

LEMMA ListGoesNowhere ==
  ASSUME NEW list, IsHistory(list)
  PROVE  ListOn(list, list) /\ MoreMeta(list, list)
<1>1. Len(list) \in Nat /\ DOMAIN list = 1 .. Len(list)
  BY HistoryIsTyped
<1>2. IsFiniteSet(MetaOf(list))
  <2>1. IsFiniteSet(1 .. Len(list))
    BY <1>1, FS_Interval
  <2>2. MetaOf(list) \subseteq 1 .. Len(list)
    BY <1>1 DEF MetaOf
  <2>3. QED BY <2>1, <2>2, FS_Subset
<1>3. Cardinality(MetaOf(list)) \in Nat
  BY <1>2, FS_CardinalityType
<1>4. QED BY <1>3 DEF ListOn, MoreMeta

\* Metadata is counted.
Counts(list, added, new) ==
  /\ MoreMeta(list, new)
  /\ (\A i \in DOMAIN added : added[i].type # "metadata") =>
       Cardinality(MetaOf(new)) = Cardinality(MetaOf(list))
  /\ (Len(added) = 1 /\ added[1].type = "metadata") =>
       Cardinality(MetaOf(new)) = Cardinality(MetaOf(list)) + 1
LEMMA MetaCounts ==
  ASSUME NEW list, IsHistory(list), NEW added, NEW from, Hung(list, added, from), NEW new, new = list \o added
  PROVE  Counts(list, added, new)
<1>1. Listed(list, added, new)
  BY ListJoins
<1>2. PICK n, k : n = Len(list) /\ k = Len(added)
  OBVIOUS
<1>3. /\ n \in Nat /\ k \in Nat /\ DOMAIN list = 1 .. n /\ DOMAIN added = 1 .. k /\ DOMAIN new = 1 .. n + k
      /\ \A i \in 1 .. n : new[i] = list[i]
      /\ \A i \in 1 .. k : new[n + i] = added[i]
  BY <1>1, <1>2 DEF Listed, IsJoin
<1>4. PICK M, N : M = MetaOf(list) /\ N = MetaOf(new)
  OBVIOUS
<1>5. M \subseteq 1 .. n /\ N \subseteq 1 .. n + k /\ M \subseteq N /\ \A i \in N : i <= n => i \in M
  <2>1. M = {i \in 1 .. n : list[i].type = "metadata"} /\ N = {i \in 1 .. n + k : new[i].type = "metadata"}
    BY <1>3, <1>4 DEF MetaOf
  <2>2. \A i \in 1 .. n : i \in 1 .. n + k
    BY <1>3
  <2>3. \A i \in 1 .. n + k : i <= n => i \in 1 .. n
    BY <1>3
  <2>4. QED BY <1>3, <2>1, <2>2, <2>3
<1>6. IsFiniteSet(M) /\ IsFiniteSet(N)
  <2>1. n + k \in Nat /\ 1 \in Nat
    BY <1>3
  <2>2. IsFiniteSet(1 .. n) /\ IsFiniteSet(1 .. n + k)
    BY <1>3, <2>1, FS_Interval
  <2>3. QED BY <1>5, <2>2, FS_Subset
<1>7. Cardinality(M) \in Nat /\ Cardinality(N) \in Nat /\ Cardinality(M) <= Cardinality(N)
  BY <1>5, <1>6, FS_CardinalityType, FS_Subset
<1>8. \A i \in N : ~(i <= n) => \E j \in 1 .. k : i = n + j /\ added[j].type = "metadata"
  <2>1. SUFFICES ASSUME NEW i \in N, ~(i <= n)
                 PROVE  \E j \in 1 .. k : i = n + j /\ added[j].type = "metadata"
    OBVIOUS
  <2>2. i - n \in 1 .. k /\ n + (i - n) = i
    BY <1>3, <1>5, <2>1
  <2>3. new[i].type = "metadata"
    BY <1>4 DEF MetaOf
  <2>4. QED BY <1>3, <2>2, <2>3
<1>9. ASSUME \A i \in DOMAIN added : added[i].type # "metadata"
      PROVE  Cardinality(N) = Cardinality(M)
  <2>1. N = M
    BY <1>3, <1>5, <1>8, <1>9
  <2>2. QED BY <2>1
<1>10. ASSUME k = 1, added[1].type = "metadata"
       PROVE  Cardinality(N) = Cardinality(M) + 1
  <2>1. 1 \in 1 .. k /\ n + 1 \in 1 .. n + k /\ n + 1 \notin M
    BY <1>3, <1>5, <1>10
  <2>2. n + 1 \in N
    BY <1>3, <1>4, <1>10, <2>1 DEF MetaOf
  <2>3. \A i \in N : i \in M \/ i = n + 1
    BY <1>3, <1>5, <1>8, <1>10
  <2>4. N = M \cup {n + 1}
    BY <1>5, <2>2, <2>3
  <2>5. QED BY <1>6, <2>1, <2>4, FS_AddElement
<1>11. QED BY <1>2, <1>4, <1>7, <1>9, <1>10 DEF Counts, MoreMeta
-----------------------------------------------------------------------------
(* How Pi's history grows.                                                 *)

LEMMA FunctionIsSequence ==
  ASSUME NEW n \in Nat, NEW f, f = [i \in 1 .. n |-> f[i]]
  PROVE  IsSequence(f) /\ Len(f) = n /\ DOMAIN f = 1 .. n
<1>1. f \in [1 .. n -> {f[i] : i \in DOMAIN f}]
  OBVIOUS
<1>2. QED BY <1>1, FunctionIsSeq DEF IsSequence

LEMMA SequenceEmpty ==
  IsSequence(<<>>) /\ Len(<<>>) = 0 /\ DOMAIN <<>> = {}
  BY DEF IsSequence

LEMMA NoneIsPlaced ==
  ASSUME NEW nat, IsNative(nat), NEW l \in Nodes(nat) \cup {None}
  PROVE  l # Unplaced
<1>1. MaxMetadata + 1 # 0
  BY EntriesAssumption
<1>2. \A id \in Nodes(nat) : id = Id(id[1])
  BY NodesAre
<1>3. l = Id(l[1]) \/ l = None
  BY <1>2
<1>4. QED BY <1>1, <1>3 DEF Id, None, Unplaced

\* From what grows, what stays.
LEMMA NativeGoesOn ==
  ASSUME NEW nat, IsNative(nat), NEW more, NEW from, NEW q, NativeGrows(nat, more, from, q),
         Len(nat) <= Len(more), Placed(nat) \subseteq Placed(more)
  PROVE  NativeOn(nat, more)
<1>1. /\ IsNative(more) /\ Nodes(more) = Nodes(nat) \cup {q[i] : i \in DOMAIN q}
      /\ \A l \in Nodes(nat) \cup {None} : NContext(more, l) = NContext(nat, l)
  BY NativeStays
<1>2. Len(nat) \in Nat /\ Len(more) \in Nat /\ DOMAIN nat = 1 .. Len(nat) /\ DOMAIN more = 1 .. Len(more)
  BY <1>1, NodesAre
<1>3. \A n \in Placed(nat) : more[n] = nat[n]
  BY DEF NativeGrows
<1>4. QED BY <1>1, <1>2, <1>3 DEF NativeOn

\* An entry more.
Appends(nat, n, raw, more) ==
  /\ Extended(nat, raw, more) /\ IsSequence(more) /\ n = Len(nat) + 1
  /\ raw.retainedTail \in Seq(Spoken)

OneAppended(nat, n, raw, more) ==
  /\ n \in Nat \ {0} /\ Len(nat) \in Nat /\ n = Len(nat) + 1 /\ Len(more) = n
  /\ DOMAIN nat = 1 .. Len(nat) /\ DOMAIN more = 1 .. n /\ more[n] = raw /\ n \notin DOMAIN nat
  /\ DOMAIN more = DOMAIN nat \cup {n} /\ \A i \in DOMAIN nat : more[i] = nat[i]
  /\ \A i \in DOMAIN more : more[i].retainedTail \in Seq(Spoken)

LEMMA AppendIs ==
  ASSUME NEW nat, IsNative(nat), NEW n, NEW raw, NEW more, Appends(nat, n, raw, more)
  PROVE  OneAppended(nat, n, raw, more)
<1>1. /\ Len(nat) \in Nat /\ n = Len(nat) + 1 /\ Len(more) = n /\ DOMAIN nat = 1 .. Len(nat) /\ DOMAIN more = 1 .. n
      /\ more[n] = raw /\ \A i \in 1 .. Len(nat) : more[i] = nat[i]
  BY DEF Appends, Extended
<1>2. n \in Nat \ {0} /\ n \notin 1 .. Len(nat) /\ 1 .. n = 1 .. Len(nat) \cup {n}
  BY <1>1
<1>3. \A i \in DOMAIN more : more[i].retainedTail \in Seq(Spoken)
  BY <1>1, <1>2 DEF IsNative, Appends
<1>4. QED BY <1>1, <1>2, <1>3 DEF OneAppended

\* Placed on an entry or on the root.
PlacedOn(nat, n, raw, more) ==
  /\ NativeGrows(nat, more, raw.parentId, <<Id(n)>>) /\ NativeOn(nat, more)
  /\ Placed(more) = Placed(nat) \cup {n} /\ Id(n) \in Nodes(more)
  /\ raw.type # "compaction" => NContext(more, Id(n)) = NContext(nat, raw.parentId) \o Says(n, raw.type)
  /\ raw.type = "compaction" => NContext(more, Id(n)) = <<Id(n)>> \o raw.retainedTail
  /\ NContext(nat, raw.parentId) \in Seq(Spoken)

LEMMA NativePlaces ==
  ASSUME NEW nat, IsNative(nat), NEW n, NEW raw, NEW more, Appends(nat, n, raw, more),
         raw.parentId \in Nodes(nat) \cup {None}
  PROVE  PlacedOn(nat, n, raw, more)
<1>1. /\ n \in Nat \ {0} /\ Len(nat) \in Nat /\ n = Len(nat) + 1 /\ Len(more) = n
      /\ more[n] = raw /\ n \notin DOMAIN nat
      /\ DOMAIN more = DOMAIN nat \cup {n} /\ \A i \in DOMAIN nat : more[i] = nat[i]
      /\ \A i \in DOMAIN more : more[i].retainedTail \in Seq(Spoken)
  <2>1. OneAppended(nat, n, raw, more)
    BY AppendIs
  <2>2. QED BY <2>1 DEF OneAppended
<1>2. PICK l, id, q : l = raw.parentId /\ id = Id(n) /\ q = <<id>>
  OBVIOUS
<1>3. l \in Nodes(nat) \cup {None} /\ l # Unplaced
  BY <1>2, NoneIsPlaced
<1>4. IsSequence(q) /\ DOMAIN q = 1 .. 1 /\ q[1] = id /\ (\A i \in DOMAIN q : i = 1) /\ 1 \in DOMAIN q
  BY <1>2, OneOf
<1>5. Placed(more) = Placed(nat) \cup {n}
  BY <1>1, <1>2, <1>3 DEF Placed
<1>6. Nodes(more) = Nodes(nat) \cup {id}
  BY <1>2, <1>5 DEF Nodes
<1>7. id[1] = n /\ id # None /\ id \notin Nodes(nat)
  <2>1. id[1] = n /\ id # None
    BY <1>1, <1>2, IdIs
  <2>2. \A x \in Nodes(nat) : x[1] \in DOMAIN nat
    BY NodesAre
  <2>3. QED BY <1>1, <2>1, <2>2
<1>8. Grafted(Above(nat), Above(more), l, q)
  <2>1. DOMAIN Above(nat) = Nodes(nat) /\ DOMAIN Above(more) = Nodes(more)
    BY DEF Above
  <2>2. \A x \in Nodes(nat) : Above(more)[x] = Above(nat)[x]
    <3>1. \A x \in Nodes(nat) : x \in Nodes(more) /\ x[1] \in DOMAIN nat
      BY <1>6, NodesAre
    <3>2. QED BY <1>1, <3>1 DEF Above
  <2>3. Above(more)[id] = l
    BY <1>1, <1>2, <1>6, <1>7 DEF Above
  <2>4. DOMAIN Above(more) = DOMAIN Above(nat) \cup {q[i] : i \in DOMAIN q}
    BY <1>4, <1>6, <2>1
  <2>5. \A i \in DOMAIN q : Above(more)[q[i]] = IF i = 1 THEN l ELSE q[i - 1]
    BY <1>4, <2>3
  <2>6. \A i \in DOMAIN q : q[i] \notin DOMAIN Above(nat) \cup {None}
    BY <1>4, <1>7, <2>1
  <2>7. \A i, j \in DOMAIN q : q[i] = q[j] => i = j
    BY <1>4
  <2>8. QED BY <1>3, <1>4, <2>1, <2>2, <2>4, <2>5, <2>6, <2>7 DEF Grafted
<1>9. NativeGrows(nat, more, l, q)
  <2>1. IsSequence(more)
    BY DEF Appends
  <2>2. \A i \in Placed(nat) : more[i] = nat[i]
    BY <1>1 DEF Placed
  <2>3. QED BY <1>1, <1>8, <2>1, <2>2 DEF NativeGrows
<1>10. NativeOn(nat, more)
  <2>1. Len(nat) <= Len(more) /\ Placed(nat) \subseteq Placed(more)
    BY <1>1, <1>5
  <2>2. QED BY <1>9, <2>1, NativeGoesOn
<1>11. SentFor(more, l, id)
  <2>1. PICK k : k = 1
    OBVIOUS
  <2>2. k \in DOMAIN q /\ l = (IF k = 1 THEN l ELSE q[k - 1]) /\ id = q[k]
    BY <1>4, <2>1
  <2>3. QED BY <1>9, <2>2, NativeMore
<1>12. NContext(more, l) = NContext(nat, l)
  BY <1>3, <1>10 DEF NativeOn
<1>13. QED BY <1>1, <1>2, <1>5, <1>6, <1>7, <1>9, <1>10, <1>11, <1>12 DEF PlacedOn, SentFor

\* Accepted only: Pi's tree stays as it is.
LEMMA NativeAccepts ==
  ASSUME NEW nat, IsNative(nat), NEW n, NEW raw, NEW more, Appends(nat, n, raw, more),
         raw.parentId = Unplaced
  PROVE  NativeOn(nat, more) /\ Placed(more) = Placed(nat)
<1>1. /\ n \in Nat \ {0} /\ Len(nat) \in Nat /\ n = Len(nat) + 1 /\ Len(more) = n
      /\ more[n] = raw /\ n \notin DOMAIN nat
      /\ DOMAIN more = DOMAIN nat \cup {n} /\ \A i \in DOMAIN nat : more[i] = nat[i]
      /\ \A i \in DOMAIN more : more[i].retainedTail \in Seq(Spoken)
  <2>1. OneAppended(nat, n, raw, more)
    BY AppendIs
  <2>2. QED BY <2>1 DEF OneAppended
<1>2. Placed(more) = Placed(nat)
  BY <1>1 DEF Placed
<1>3. Nodes(more) = Nodes(nat)
  BY <1>2 DEF Nodes
<1>4. Above(more) = Above(nat)
  <2>1. \A x \in Nodes(nat) : x[1] \in DOMAIN nat
    BY NodesAre
  <2>2. \A x \in Nodes(nat) : more[x[1]].parentId = nat[x[1]].parentId
    BY <1>1, <2>1
  <2>3. QED BY <1>3, <2>2 DEF Above
<1>5. PICK q : q = <<>>
  OBVIOUS
<1>6. IsSequence(q) /\ DOMAIN q = {}
  BY <1>5, SequenceEmpty
<1>7. Grafted(Above(nat), Above(more), None, q)
  BY <1>4, <1>6 DEF Grafted
<1>8. NativeGrows(nat, more, None, q)
  <2>1. IsSequence(more)
    BY DEF Appends
  <2>2. \A i \in Placed(nat) : more[i] = nat[i]
    BY <1>1 DEF Placed
  <2>3. QED BY <1>1, <1>7, <2>1, <2>2 DEF NativeGrows
<1>9. Len(nat) <= Len(more) /\ Placed(nat) \subseteq Placed(more)
  BY <1>1, <1>2
<1>10. QED BY <1>2, <1>8, <1>9, NativeGoesOn

\* An inbox drained: its entries are placed one above the other.
Drains(nat, l, ns, more) ==
  /\ l \in Nodes(nat) \cup {None}
  /\ IsSequence(ns) /\ \A i, j \in DOMAIN ns : ns[i] = ns[j] => i = j
  /\ \A i \in DOMAIN ns : ns[i] \in DOMAIN nat \ Placed(nat)
  /\ IsSequence(more) /\ Len(more) = Len(nat)
  /\ \A n \in DOMAIN nat : (\A i \in DOMAIN ns : ns[i] # n) => more[n] = nat[n]
  /\ \A i \in DOMAIN ns : /\ more[ns[i]].parentId = IF i = 1 THEN l ELSE Id(ns[i - 1])
                          /\ more[ns[i]].type = "custom" /\ more[ns[i]].retainedTail = <<>>

\* They say nothing.
InboxDrained(nat, l, ns, more) ==
  /\ NativeOn(nat, more) /\ DOMAIN more = DOMAIN nat
  /\ Placed(more) = Placed(nat) \cup {ns[i] : i \in DOMAIN ns}
  /\ \A i \in DOMAIN ns : Id(ns[i]) \in Nodes(more) /\ NContext(more, Id(ns[i])) = NContext(nat, l)

LEMMA NativeDrainGrows ==
  ASSUME NEW nat, IsNative(nat), NEW l, NEW ns, NEW more, Drains(nat, l, ns, more),
         NEW q, q = [i \in DOMAIN ns |-> Id(ns[i])]
  PROVE  /\ NativeGrows(nat, more, l, q) /\ NativeOn(nat, more) /\ DOMAIN more = DOMAIN nat
         /\ Placed(more) = Placed(nat) \cup {ns[i] : i \in DOMAIN ns}
<1>1. Len(nat) \in Nat /\ DOMAIN nat = 1 .. Len(nat) /\ DOMAIN Above(nat) = Nodes(nat)
  BY NodesAre
<1>2. /\ Len(ns) \in Nat /\ DOMAIN ns = 1 .. Len(ns) /\ DOMAIN q = 1 .. Len(ns)
      /\ \A i \in 1 .. Len(ns) : q[i] = Id(ns[i])
  BY LenProperties DEF Drains, IsSequence
<1>3. IsSequence(q)
  <2>1. q = [i \in 1 .. Len(ns) |-> q[i]]
    BY <1>2
  <2>2. QED BY <1>2, <2>1, FunctionIsSequence
<1>4. DOMAIN more = DOMAIN nat /\ Len(more) = Len(nat)
  BY <1>1, LenProperties DEF Drains, IsSequence
<1>5. \A i \in DOMAIN ns : more[ns[i]].parentId # Unplaced
  <2>1. SUFFICES ASSUME NEW i \in DOMAIN ns
                 PROVE  more[ns[i]].parentId # Unplaced
    OBVIOUS
  <2>2. CASE i = 1
    BY <2>2, NoneIsPlaced DEF Drains
  <2>3. CASE i # 1
    <3>1. more[ns[i]].parentId = Id(ns[i - 1])
      BY <2>3 DEF Drains
    <3>2. MaxMetadata + 1 # 0
      BY EntriesAssumption
    <3>3. QED BY <3>1, <3>2 DEF Id, Unplaced
  <2>4. QED BY <2>2, <2>3
<1>6. \A n \in Placed(nat) : more[n] = nat[n] /\ \A i \in DOMAIN ns : ns[i] # n
  BY DEF Drains, Placed
<1>7. Placed(more) = Placed(nat) \cup {ns[i] : i \in DOMAIN ns}
  <2>1. ASSUME NEW n \in Placed(more)
        PROVE  n \in Placed(nat) \cup {ns[i] : i \in DOMAIN ns}
    <3>1. CASE \A i \in DOMAIN ns : ns[i] # n
      <4>1. n \in DOMAIN nat /\ more[n].parentId # Unplaced
        BY <1>4 DEF Placed
      <4>2. more[n] = nat[n]
        BY <3>1, <4>1 DEF Drains
      <4>3. QED BY <4>1, <4>2 DEF Placed
    <3>2. QED BY <3>1
  <2>2. ASSUME NEW n \in Placed(nat)
        PROVE  n \in Placed(more)
    BY <1>4, <1>6 DEF Placed
  <2>3. ASSUME NEW i \in DOMAIN ns
        PROVE  ns[i] \in Placed(more)
    <3>1. ns[i] \in DOMAIN more
      BY <1>4 DEF Drains
    <3>2. QED BY <1>5, <3>1 DEF Placed
  <2>4. QED BY <2>1, <2>2, <2>3
<1>8. Nodes(more) = Nodes(nat) \cup {q[i] : i \in DOMAIN q}
  BY <1>2, <1>7 DEF Nodes
<1>9. \A i \in DOMAIN q : q[i][1] = ns[i] /\ q[i] # None /\ q[i] \notin Nodes(nat)
  <2>1. SUFFICES ASSUME NEW i \in DOMAIN q
                 PROVE  q[i][1] = ns[i] /\ q[i] # None /\ q[i] \notin Nodes(nat)
    OBVIOUS
  <2>2. i \in DOMAIN ns /\ q[i] = Id(ns[i])
    BY <1>2
  <2>3. ns[i] \in DOMAIN nat \ Placed(nat) /\ ns[i] # 0
    BY <1>1, <2>2 DEF Drains
  <2>4. q[i][1] = ns[i] /\ q[i] # None
    BY <2>2, <2>3, IdIs
  <2>5. \A x \in Nodes(nat) : x[1] \in Placed(nat)
    BY NodesAre
  <2>6. QED BY <2>3, <2>4, <2>5
<1>10. Grafted(Above(nat), Above(more), l, q)
  <2>1. DOMAIN Above(more) = DOMAIN Above(nat) \cup {q[i] : i \in DOMAIN q}
    BY <1>1, <1>8 DEF Above
  <2>2. \A x \in Nodes(nat) : Above(more)[x] = Above(nat)[x]
    <3>1. \A x \in Nodes(nat) : x \in Nodes(more) /\ x[1] \in Placed(nat)
      BY <1>8, NodesAre
    <3>2. QED BY <1>6, <3>1 DEF Above
  <2>3. \A i \in DOMAIN q : Above(more)[q[i]] = IF i = 1 THEN l ELSE q[i - 1]
    <3>1. SUFFICES ASSUME NEW i \in DOMAIN q
                   PROVE  Above(more)[q[i]] = IF i = 1 THEN l ELSE q[i - 1]
      OBVIOUS
    <3>2. q[i] \in Nodes(more) /\ q[i][1] = ns[i] /\ i \in DOMAIN ns /\ i \in 1 .. Len(ns)
      BY <1>2, <1>8, <1>9
    <3>3. Above(more)[q[i]] = more[ns[i]].parentId
      BY <3>2 DEF Above
    <3>4. more[ns[i]].parentId = IF i = 1 THEN l ELSE Id(ns[i - 1])
      BY <3>2 DEF Drains
    <3>5. i # 1 => q[i - 1] = Id(ns[i - 1])
      <4>1. i # 1 => i - 1 \in 1 .. Len(ns)
        BY <1>2, <3>2
      <4>2. QED BY <1>2, <4>1
    <3>6. QED BY <3>3, <3>4, <3>5
  <2>4. \A i \in DOMAIN q : q[i] \notin DOMAIN Above(nat) \cup {None}
    BY <1>1, <1>9
  <2>5. \A i, j \in DOMAIN q : q[i] = q[j] => i = j
    <3>1. \A i, j \in DOMAIN q : q[i] = q[j] => ns[i] = ns[j]
      BY <1>9
    <3>2. QED BY <1>2, <3>1 DEF Drains
  <2>6. l \in DOMAIN Above(nat) \cup {None}
    BY <1>1 DEF Drains
  <2>7. QED BY <1>1, <1>3, <2>1, <2>2, <2>3, <2>4, <2>5, <2>6 DEF Grafted
<1>11. \A n \in DOMAIN more : more[n].retainedTail \in Seq(Spoken)
  <2>1. SUFFICES ASSUME NEW n \in DOMAIN more
                 PROVE  more[n].retainedTail \in Seq(Spoken)
    OBVIOUS
  <2>2. CASE \A i \in DOMAIN ns : ns[i] # n
    BY <1>4, <2>2 DEF Drains, IsNative
  <2>3. CASE \E i \in DOMAIN ns : ns[i] = n
    <3>1. more[n].retainedTail = <<>>
      BY <2>3 DEF Drains
    <3>2. <<>> \in Seq(Spoken)
      OBVIOUS
    <3>3. QED BY <3>1, <3>2
  <2>4. QED BY <2>2, <2>3
<1>12. NativeGrows(nat, more, l, q)
  BY <1>6, <1>10, <1>11 DEF NativeGrows, Drains
<1>13. Len(nat) <= Len(more) /\ Placed(nat) \subseteq Placed(more)
  BY <1>1, <1>4, <1>7
<1>14. NativeOn(nat, more)
  BY <1>12, <1>13, NativeGoesOn
<1>15. QED BY <1>4, <1>7, <1>12, <1>14

SilentUpTo(nat, l, ns, more) ==
  {k \in Nat : k + 1 \in DOMAIN ns => NContext(more, Id(ns[k + 1])) = NContext(nat, l)}

LEMMA NativeDrains ==
  ASSUME NEW nat, IsNative(nat), NEW l, NEW ns, NEW more, Drains(nat, l, ns, more)
  PROVE  InboxDrained(nat, l, ns, more)
<1>1. PICK q : q = [i \in DOMAIN ns |-> Id(ns[i])]
  OBVIOUS
<1>2. /\ NativeGrows(nat, more, l, q) /\ NativeOn(nat, more) /\ DOMAIN more = DOMAIN nat
      /\ Placed(more) = Placed(nat) \cup {ns[i] : i \in DOMAIN ns}
  BY <1>1, NativeDrainGrows
<1>3. Len(ns) \in Nat /\ DOMAIN ns = 1 .. Len(ns) /\ DOMAIN q = DOMAIN ns /\ \A i \in DOMAIN ns : q[i] = Id(ns[i])
  BY <1>1, LenProperties DEF Drains, IsSequence
<1>4. l \in Nodes(nat) \cup {None} /\ NContext(more, l) = NContext(nat, l)
  BY <1>2 DEF NativeOn, Drains
<1>5. ASSUME NEW k \in DOMAIN ns, NEW below, below = IF k = 1 THEN l ELSE q[k - 1],
             NContext(more, below) = NContext(nat, l)
      PROVE  NContext(more, q[k]) = NContext(nat, l)
  <2>1. PICK id : id = q[k]
    OBVIOUS
  <2>2. SentFor(more, below, id)
    BY <1>2, <1>3, <1>5, <2>1, NativeMore
  <2>3. id[1] = ns[k] /\ more[ns[k]].type = "custom"
    BY <1>3, <2>1, IdIs DEF Drains
  <2>4. NContext(more, id) = NContext(more, below) \o <<>> /\ NContext(more, below) \in Seq(Spoken)
    BY <2>2, <2>3 DEF SentFor, Says
  <2>5. PICK c : c = NContext(more, below)
    OBVIOUS
  <2>6. c \o <<>> = c
    BY <2>4, <2>5, ConcatEmptySeq
  <2>7. QED BY <1>5, <2>1, <2>4, <2>5, <2>6
<1>6. 0 \in SilentUpTo(nat, l, ns, more)
  <2>1. ASSUME 1 \in DOMAIN ns
        PROVE  NContext(more, Id(ns[1])) = NContext(nat, l)
    <3>1. PICK k : k = 1
      OBVIOUS
    <3>2. k \in DOMAIN ns /\ l = IF k = 1 THEN l ELSE q[k - 1]
      BY <2>1, <3>1
    <3>3. NContext(more, q[k]) = NContext(nat, l)
      BY <1>4, <1>5, <3>2
    <3>4. QED BY <1>3, <2>1, <3>1, <3>3
  <2>2. 0 + 1 = 1
    OBVIOUS
  <2>3. QED BY <2>1, <2>2 DEF SilentUpTo
<1>7. ASSUME NEW k \in SilentUpTo(nat, l, ns, more)
      PROVE  k + 1 \in SilentUpTo(nat, l, ns, more)
  <2>1. PICK m : m = k + 1
    OBVIOUS
  <2>2. k \in Nat /\ m \in Nat /\ (m \in DOMAIN ns => NContext(more, Id(ns[m])) = NContext(nat, l))
    BY <2>1 DEF SilentUpTo
  <2>3. ASSUME m + 1 \in DOMAIN ns
        PROVE  NContext(more, Id(ns[m + 1])) = NContext(nat, l)
    <3>1. PICK j, below : j = m + 1 /\ below = q[m]
      OBVIOUS
    <3>2. j \in DOMAIN ns /\ m \in DOMAIN ns /\ j # 1 /\ j - 1 = m
      BY <1>3, <2>1, <2>2, <2>3, <3>1
    <3>3. NContext(more, below) = NContext(nat, l) /\ below = IF j = 1 THEN l ELSE q[j - 1]
      BY <1>3, <2>2, <3>1, <3>2
    <3>4. NContext(more, q[j]) = NContext(nat, l)
      BY <1>5, <3>2, <3>3
    <3>5. QED BY <1>3, <3>1, <3>2, <3>4
  <2>4. QED BY <2>1, <2>2, <2>3 DEF SilentUpTo
<1>8. SilentUpTo(nat, l, ns, more) = Nat
  <2>1. SilentUpTo(nat, l, ns, more) \subseteq Nat
    BY DEF SilentUpTo
  <2>2. QED BY <1>6, <1>7, <2>1, NatSets
<1>9. ASSUME NEW i \in DOMAIN ns
      PROVE  Id(ns[i]) \in Nodes(more) /\ NContext(more, Id(ns[i])) = NContext(nat, l)
  <2>1. PICK k : k = i - 1
    OBVIOUS
  <2>2. k \in Nat /\ k + 1 = i
    BY <1>3, <2>1
  <2>3. NContext(more, Id(ns[i])) = NContext(nat, l)
    BY <1>8, <2>2 DEF SilentUpTo
  <2>4. Id(ns[i]) \in Nodes(more)
    BY <1>2 DEF Nodes
  <2>5. QED BY <2>3, <2>4
<1>10. QED BY <1>2, <1>9 DEF InboxDrained
-----------------------------------------------------------------------------
(* How the two grow together, commit by commit.                            *)

\* The visible tip has moved to entries that hang from it.
Behind(list, new, v, w) ==
  /\ w \in IdsOf(new) /\ v \in IdsOf(list) \cup {None}
  /\ Extended(PathIds(list, v), w, PathIds(new, w)) /\ Entry(new, w).says = <<>>

\* The ID of the next entry of Pi, and those derived for it, are not taken.
LEMMA FreshAbove ==
  ASSUME NEW nat, NEW list, NEW off, Whole(nat, list, off), NEW n, n = Len(nat) + 1, Len(nat) \in Nat
  PROVE  Fresh(list, n)
<1>1. n \in Nat \ {0} /\ ~(n <= Len(nat))
  OBVIOUS
<1>2. ASSUME NEW j \in Nat, <<n, j>> \in IdsOf(list)
      PROVE  FALSE
  <2>1. PICK id : id = <<n, j>>
    OBVIOUS
  <2>2. id[1] <= Len(nat) /\ id[1] = n
    BY <1>2, <2>1 DEF Whole, Fits
  <2>3. QED BY <1>1, <2>2
<1>3. QED BY <1>1, <1>2 DEF Fresh

\* What one entry hung from the visible tip makes of the list.
ShownBehind(list, from, e, new) ==
  /\ Hung(list, <<e>>, from) /\ ListOn(list, new) /\ IdsOf(new) = IdsOf(list) \cup {e.id}
  /\ Extended(PathIds(list, from), e.id, PathIds(new, e.id)) /\ Entry(new, e.id) = e
  /\ MoreMeta(list, new)
  /\ Cardinality(MetaOf(new)) = Cardinality(MetaOf(list)) + (IF e.type = "metadata" THEN 1 ELSE 0)
  /\ e.type # "compaction" => VisibleContext(new, e.id) = VisibleContext(list, from) \o e.says
  /\ VisibleContext(list, from) \in Seq(Spoken)

LEMMA OneShown ==
  ASSUME NEW list, IsHistory(list), NEW from \in IdsOf(list) \cup {None}, NEW e, e.id \notin IdsOf(list) \cup {None},
         e.parentId = from, e.says \in Seq(Spoken), NEW new, new = list \o <<e>>
  PROVE  ShownBehind(list, from, e, new)
<1>1. PICK s : s = <<e>>
  OBVIOUS
<1>2. IsSequence(s) /\ Len(s) = 1 /\ DOMAIN s = 1 .. 1 /\ s[1] = e /\ \A i \in DOMAIN s : i = 1
  BY <1>1, OneOf
<1>3. Hung(list, s, from)
  BY <1>1, OneHung
<1>4. new = list \o s
  BY <1>1
<1>5. ListOn(list, new) /\ IdsOf(new) = IdsOf(list) \cup {s[i].id : i \in DOMAIN s}
  BY <1>3, <1>4, ListGoesOn
<1>6. HistoryGrows(list, s, from, new)
  BY <1>3, <1>4, ListGrows
<1>7. Counts(list, s, new)
  BY <1>3, <1>4, MetaCounts
<1>8. PICK k : k = 1
  OBVIOUS
<1>9. k \in DOMAIN s /\ from = (IF k = 1 THEN from ELSE s[k - 1].id) /\ s[k] = e
  BY <1>2, <1>8
<1>10. Extended(PathIds(new, from), e.id, PathIds(new, e.id))
  <2>1. Extended(PathIds(new, from), s[k].id, PathIds(new, s[k].id))
    BY <1>3, <1>4, <1>9, BranchMore
  <2>2. QED BY <1>9, <2>1
<1>11. e.type # "compaction" => VisibleContext(new, e.id) = VisibleContext(new, from) \o e.says
  <2>1. ASSUME s[k].type # "compaction"
        PROVE  SaidMore(new, from, s[k])
    BY <1>3, <1>4, <1>9, <2>1, VisibleMore
  <2>2. QED BY <1>9, <2>1 DEF SaidMore
<1>12. PathIds(new, from) = PathIds(list, from) /\ VisibleContext(new, from) = VisibleContext(list, from)
  BY <1>5 DEF ListOn
<1>13. VisibleContext(list, from) \in Seq(Spoken)
  <2>1. PICK a : a = VisibleBranch(list, from)
    OBVIOUS
  <2>2. Speaks(a) /\ Sends(a, Openings(a), VisibleContext(list, from))
    BY <2>1, VisibleSends
  <2>3. QED BY <2>2, OpeningsTyped, SendsTyped
<1>14. IdsOf(new) = IdsOf(list) \cup {e.id} /\ Entry(new, e.id) = e
  BY <1>2, <1>5, <1>6 DEF HistoryGrows
<1>15. MoreMeta(list, new)
       /\ Cardinality(MetaOf(new)) = Cardinality(MetaOf(list)) + (IF e.type = "metadata" THEN 1 ELSE 0)
  BY <1>2, <1>7 DEF Counts, MoreMeta
<1>16. Hung(list, <<e>>, from)
  BY <1>1, <1>3
<1>17. QED BY <1>5, <1>10, <1>11, <1>12, <1>13, <1>14, <1>15, <1>16 DEF ShownBehind

\* A custom entry is accepted: it is shown behind the visible tip, and said nowhere.
LEMMA Accepts ==
  ASSUME NEW nat, NEW list, NEW off, Whole(nat, list, off), NEW l, NEW v, Standing(nat, list, l, v),
         NEW n, NEW raw, NEW more, Appends(nat, n, raw, more), raw.parentId = Unplaced,
         NEW new, new = list \o <<Shown(Id(n), "custom", v, <<>>, None)>>
  PROVE  /\ Onward(nat, list, more, new, off) /\ Follow(nat, list, l, v, more, new, l, Id(n))
         /\ Behind(list, new, v, Id(n))
<1>1. IsNative(nat) /\ IsHistory(list) /\ v \in IdsOf(list) \cup {None}
  BY DEF Whole, Standing
<1>2. OneAppended(nat, n, raw, more)
  BY <1>1, AppendIs
<1>3. NativeOn(nat, more) /\ Placed(more) = Placed(nat)
  BY <1>1, NativeAccepts
<1>4. PICK e, id : id = Id(n) /\ e = Shown(id, "custom", v, <<>>, None)
  OBVIOUS
<1>5. e.id = id /\ e.type = "custom" /\ e.parentId = v /\ e.says = <<>> /\ e.says \in Seq(Spoken)
  <2>1. e.id = id /\ e.type = "custom" /\ e.parentId = v /\ e.says = <<>>
    BY <1>4 DEF Shown
  <2>2. <<>> \in Seq(Spoken)
    OBVIOUS
  <2>3. QED BY <2>1, <2>2
<1>6. Fresh(list, n)
  BY <1>2, FreshAbove DEF OneAppended
<1>7. id \notin IdsOf(list) \cup {None}
  BY <1>4, <1>6, FreshIs, 0 \in Nat
<1>8. new = list \o <<e>>
  BY <1>4
<1>9. ShownBehind(list, v, e, new)
  BY <1>1, <1>5, <1>7, <1>8, OneShown
<1>10. /\ ListOn(list, new) /\ MoreMeta(list, new) /\ IdsOf(new) = IdsOf(list) \cup {id}
       /\ Extended(PathIds(list, v), id, PathIds(new, id)) /\ Entry(new, id) = e
       /\ VisibleContext(new, id) = VisibleContext(list, v) \o <<>> /\ VisibleContext(list, v) \in Seq(Spoken)
  BY <1>5, <1>9 DEF ShownBehind
<1>11. Fits(id, more, new)
  <2>1. n \in Nat \ {0} /\ Len(more) = n
    BY <1>2 DEF OneAppended
  <2>2. id = <<n, 0>>
    BY <1>4 DEF Id
  <2>3. n <= n
    BY <2>1
  <2>4. QED BY <1>7, <2>1, <2>2, <2>3 DEF Fits
<1>12. \A m \in DOMAIN more \ DOMAIN nat : Id(m) \in IdsOf(new)
  BY <1>2, <1>4, <1>10 DEF OneAppended
<1>13. Onward(nat, list, more, new, off)
  BY <1>3, <1>10, <1>11, <1>12, WholeAgain
<1>14. VisibleContext(new, id) = VisibleContext(list, v)
  <2>1. PICK c : c = VisibleContext(list, v)
    OBVIOUS
  <2>2. c \o <<>> = c
    BY <1>10, <2>1, ConcatEmptySeq
  <2>3. QED BY <1>10, <2>1, <2>2
<1>15. Follow(nat, list, l, v, more, new, l, id)
  <2>1. l \in Nodes(more) \cup {None} /\ NContext(more, l) = NContext(nat, l)
    BY <1>3 DEF Standing, NativeOn
  <2>2. QED BY <1>10, <1>14, <2>1 DEF Standing, Agree, Follow
<1>16. Behind(list, new, v, id)
  BY <1>1, <1>5, <1>10 DEF Behind
<1>17. QED BY <1>4, <1>13, <1>15, <1>16

\* Metadata is shown there too, and says nothing.
LEMMA Describes ==
  ASSUME NEW nat, NEW list, NEW off, Whole(nat, list, off), NEW l, NEW v, Standing(nat, list, l, v),
         NEW id, id = <<0, Cardinality(MetaOf(list)) + 1>>,
         NEW new, new = list \o <<Shown(id, "metadata", v, <<>>, None)>>
  PROVE  /\ Onward(nat, list, nat, new, off) /\ Follow(nat, list, l, v, nat, new, l, id)
         /\ Behind(list, new, v, id)
<1>1. IsNative(nat) /\ IsHistory(list) /\ v \in IdsOf(list) \cup {None}
  BY DEF Whole, Standing
<1>2. NativeOn(nat, nat)
  BY <1>1, NodesAre DEF NativeOn
<1>3. PICK c : c = Cardinality(MetaOf(list))
  OBVIOUS
<1>4. c \in Nat /\ id = <<0, c + 1>> /\ c + 1 # 0 /\ ~(c + 1 <= c) /\ c + 1 <= c + 1 /\ c + 1 \in Nat
  BY <1>1, <1>3, ListGoesNowhere DEF MoreMeta
<1>5. PICK e : e = Shown(id, "metadata", v, <<>>, None)
  OBVIOUS
<1>6. e.id = id /\ e.type = "metadata" /\ e.parentId = v /\ e.says = <<>> /\ e.says \in Seq(Spoken)
  <2>1. e.id = id /\ e.type = "metadata" /\ e.parentId = v /\ e.says = <<>>
    BY <1>5 DEF Shown
  <2>2. <<>> \in Seq(Spoken)
    OBVIOUS
  <2>3. QED BY <2>1, <2>2
<1>7. id \notin IdsOf(list) \cup {None} /\ id[1] = 0 /\ id[2] = c + 1 /\ id \in Nat \X Nat
  <2>1. id[1] = 0 /\ id[2] = c + 1 /\ id # None /\ id \in Nat \X Nat
    BY <1>4 DEF None
  <2>2. id \notin IdsOf(list)
    BY <1>3, <1>4, <2>1 DEF Whole, Fits
  <2>3. QED BY <2>1, <2>2
<1>8. new = list \o <<e>>
  BY <1>5
<1>9. ShownBehind(list, v, e, new)
  BY <1>1, <1>6, <1>7, <1>8, OneShown
<1>10. /\ ListOn(list, new) /\ MoreMeta(list, new) /\ IdsOf(new) = IdsOf(list) \cup {id}
       /\ Extended(PathIds(list, v), id, PathIds(new, id)) /\ Entry(new, id) = e
       /\ Cardinality(MetaOf(new)) = c + 1
       /\ VisibleContext(new, id) = VisibleContext(list, v) \o <<>> /\ VisibleContext(list, v) \in Seq(Spoken)
  BY <1>3, <1>6, <1>9 DEF ShownBehind
<1>11. Fits(id, nat, new)
  <2>1. 0 <= Len(nat)
    BY <1>2 DEF NativeOn
  <2>2. QED BY <1>4, <1>7, <1>10, <2>1 DEF Fits
<1>12. Onward(nat, list, nat, new, off)
  BY <1>2, <1>10, <1>11, WholeAgain
<1>13. VisibleContext(new, id) = VisibleContext(list, v)
  <2>1. PICK d : d = VisibleContext(list, v)
    OBVIOUS
  <2>2. d \o <<>> = d
    BY <1>10, <2>1, ConcatEmptySeq
  <2>3. QED BY <1>10, <2>1, <2>2
<1>14. Follow(nat, list, l, v, nat, new, l, id)
  BY <1>10, <1>13 DEF Standing, Agree, Follow
<1>15. Behind(list, new, v, id)
  BY <1>1, <1>6, <1>10 DEF Behind
<1>16. QED BY <1>12, <1>14, <1>15

\* A message or a summary of a branch is placed on the native tip and shown behind the
\* visible one.  It says the same in both when the tips do.
LEMMA RecordsOnTip ==
  ASSUME NEW nat, NEW list, NEW off, Whole(nat, list, off), NEW l, NEW v, Standing(nat, list, l, v),
         NEW n, NEW raw, NEW more, Appends(nat, n, raw, more), raw.parentId = l,
         raw.type \notin {"compaction", "custom", "metadata"},
         NEW new, new = list \o <<Shown(Id(n), raw.type, v, Says(n, raw.type), None)>>,
         NEW far, off \subseteq far, Agree(nat, list, l, v) \/ n \in far
  PROVE  Onward(nat, list, more, new, far) /\ Follow(nat, list, l, v, more, new, Id(n), Id(n))
<1>1. IsNative(nat) /\ IsHistory(list) /\ v \in IdsOf(list) \cup {None} /\ l \in Nodes(nat) \cup {None}
  BY DEF Whole, Standing
<1>2. OneAppended(nat, n, raw, more)
  BY <1>1, AppendIs
<1>3. PlacedOn(nat, n, raw, more)
  BY <1>1, NativePlaces
<1>4. PICK e, id : id = Id(n) /\ e = Shown(id, raw.type, v, Says(n, raw.type), None)
  OBVIOUS
<1>5. n \in Nat \ {0} /\ Len(more) = n /\ DOMAIN more \ DOMAIN nat = {n}
  BY <1>2 DEF OneAppended
<1>6. e.id = id /\ e.type = raw.type /\ e.parentId = v /\ e.says = <<id>> /\ e.says \in Seq(Spoken)
  <2>1. e.id = id /\ e.type = raw.type /\ e.parentId = v /\ e.says = <<id>>
    BY <1>4 DEF Shown, Says
  <2>2. id \in Spoken
    BY <1>4, <1>5, IdIs
  <2>3. <<id>> \in Seq(Spoken)
    BY <2>2
  <2>4. QED BY <2>1, <2>3
<1>7. Fresh(list, n)
  BY <1>2, FreshAbove DEF OneAppended
<1>8. id \notin IdsOf(list) \cup {None}
  BY <1>4, <1>7, FreshIs, 0 \in Nat
<1>9. new = list \o <<e>>
  BY <1>4
<1>10. ShownBehind(list, v, e, new)
  BY <1>1, <1>6, <1>8, <1>9, OneShown
<1>11. /\ ListOn(list, new) /\ MoreMeta(list, new) /\ IdsOf(new) = IdsOf(list) \cup {id}
       /\ VisibleContext(new, id) = VisibleContext(list, v) \o <<id>>
  BY <1>6, <1>10 DEF ShownBehind
<1>12. Fits(id, more, new)
  <2>1. id = <<n, 0>>
    BY <1>4 DEF Id
  <2>2. n <= n
    BY <1>5
  <2>3. QED BY <1>5, <1>8, <2>1, <2>2 DEF Fits
<1>13. \A m \in DOMAIN more \ DOMAIN nat : Id(m) \in IdsOf(new)
  BY <1>4, <1>5, <1>11
<1>14. /\ NativeOn(nat, more) /\ Placed(more) = Placed(nat) \cup {n} /\ id \in Nodes(more)
       /\ NContext(more, id) = NContext(nat, l) \o <<id>>
  BY <1>3, <1>4 DEF PlacedOn, Says
<1>15. Agree(nat, list, l, v) => VisibleContext(new, id) = NContext(more, id)
  BY <1>11, <1>14 DEF Agree
<1>16. \A m \in Placed(more) \ Placed(nat) :
         more[m].type # "custom" /\ m \notin far => VisibleContext(new, Id(m)) = NContext(more, Id(m))
  BY <1>4, <1>14, <1>15
<1>17. Onward(nat, list, more, new, far)
  BY <1>11, <1>12, <1>13, <1>14, <1>16, WholeAgain
<1>18. Follow(nat, list, l, v, more, new, id, id)
  BY <1>11, <1>14, <1>15 DEF Standing, Agree, Follow
<1>19. QED BY <1>4, <1>17, <1>18

\* A compaction is placed on the native tip and shown behind the visible one.  It says the
\* same in both whether or not the tips do.
LEMMA CompactsTip ==
  ASSUME NEW nat, NEW list, NEW off, Whole(nat, list, off), NEW l, NEW v, Standing(nat, list, l, v),
         NEW n, NEW raw, NEW more, Appends(nat, n, raw, more), raw.parentId = l,
         raw.type = "compaction", KeepsOf(raw, VisibleBranch(list, v)),
         NEW new, new = list \o ProjectCompaction(n, raw, v, VisibleBranch(list, v))
  PROVE  Onward(nat, list, more, new, off) /\ Agree(more, new, Id(n), Id(n))
<1>1. IsNative(nat) /\ IsHistory(list) /\ v \in IdsOf(list) \cup {None} /\ l \in Nodes(nat) \cup {None}
  BY DEF Whole, Standing
<1>2. OneAppended(nat, n, raw, more)
  BY <1>1, AppendIs
<1>3. PlacedOn(nat, n, raw, more)
  BY <1>1, NativePlaces
<1>4. n \in Nat \ {0} /\ Len(more) = n /\ DOMAIN more \ DOMAIN nat = {n}
  BY <1>2 DEF OneAppended
<1>5. Fresh(list, n)
  BY <1>2, FreshAbove DEF OneAppended
<1>6. PICK added, tail : added = ProjectCompaction(n, raw, v, VisibleBranch(list, v)) /\ tail = raw.retainedTail
  OBVIOUS
<1>7. new = list \o added
  BY <1>6
<1>8. Cut(list, v, n, added, tail)
  BY <1>1, <1>5, <1>6, Compacted
<1>9. /\ Hung(list, added, v)
      /\ Len(added) \in Nat \ {0} /\ DOMAIN added = 1 .. Len(added) /\ added[Len(added)].id = Id(n)
      /\ \A i \in DOMAIN added : added[i].type # "metadata" /\ \E j \in Nat : added[i].id = <<n, j>>
      /\ VisibleContext(new, Id(n)) = <<Id(n)>> \o tail
  BY <1>7, <1>8 DEF Cut
<1>10. ListOn(list, new) /\ IdsOf(new) = IdsOf(list) \cup {added[i].id : i \in DOMAIN added}
  BY <1>1, <1>7, <1>9, ListGoesOn
<1>11. MoreMeta(list, new)
  BY <1>1, <1>7, <1>9, MetaCounts DEF Counts
<1>12. \A id \in IdsOf(new) \ IdsOf(list) : Fits(id, more, new)
  <2>1. SUFFICES ASSUME NEW id \in IdsOf(new) \ IdsOf(list)
                 PROVE  Fits(id, more, new)
    OBVIOUS
  <2>2. PICK j \in Nat : id = <<n, j>>
    BY <1>9, <1>10
  <2>3. n <= n
    BY <1>4
  <2>4. QED BY <1>4, <2>2, <2>3 DEF Fits, None
<1>13. Id(n) \in IdsOf(new)
  <2>1. Len(added) \in DOMAIN added
    BY <1>9
  <2>2. QED BY <1>9, <1>10, <2>1
<1>14. \A m \in DOMAIN more \ DOMAIN nat : Id(m) \in IdsOf(new)
  BY <1>4, <1>13
<1>15. /\ NativeOn(nat, more) /\ Placed(more) = Placed(nat) \cup {n} /\ Id(n) \in Nodes(more)
       /\ NContext(more, Id(n)) = <<Id(n)>> \o tail
  BY <1>3, <1>6 DEF PlacedOn
<1>16. \A m \in Placed(more) \ Placed(nat) :
         more[m].type # "custom" => VisibleContext(new, Id(m)) = NContext(more, Id(m))
  BY <1>9, <1>15
<1>17. Onward(nat, list, more, new, off)
  BY <1>10, <1>11, <1>12, <1>14, <1>15, <1>16, WholeAgain
<1>18. Agree(more, new, Id(n), Id(n))
  BY <1>9, <1>13, <1>15 DEF Agree
<1>19. QED BY <1>17, <1>18

\* An inbox is drained: nothing is shown again.
LEMMA DrainsInbox ==
  ASSUME NEW nat, NEW list, NEW off, Whole(nat, list, off), NEW l, NEW v, Standing(nat, list, l, v),
         NEW ns, NEW more, Drains(nat, l, ns, more), NEW k \in DOMAIN ns
  PROVE  Onward(nat, list, more, list, off) /\ Follow(nat, list, l, v, more, list, Id(ns[k]), v)
<1>1. IsNative(nat) /\ IsHistory(list) /\ v \in IdsOf(list) \cup {None} /\ l \in Nodes(nat) \cup {None}
  BY DEF Whole, Standing
<1>2. InboxDrained(nat, l, ns, more)
  BY <1>1, NativeDrains
<1>3. /\ NativeOn(nat, more) /\ DOMAIN more = DOMAIN nat
      /\ Placed(more) = Placed(nat) \cup {ns[i] : i \in DOMAIN ns}
      /\ \A i \in DOMAIN ns : Id(ns[i]) \in Nodes(more) /\ NContext(more, Id(ns[i])) = NContext(nat, l)
  BY <1>2 DEF InboxDrained
<1>4. ListOn(list, list) /\ MoreMeta(list, list)
  BY <1>1, ListGoesNowhere
<1>5. \A m \in Placed(more) \ Placed(nat) : more[m].type = "custom"
  BY <1>3 DEF Drains
<1>6. Onward(nat, list, more, list, off)
  BY <1>3, <1>4, <1>5, WholeAgain
<1>7. Follow(nat, list, l, v, more, list, Id(ns[k]), v)
  BY <1>1, <1>3 DEF Standing, Agree, Follow
<1>8. QED BY <1>6, <1>7

\* Wherever a lane goes is known to both.
LEMMA TargetsKnown ==
  ASSUME NEW nat, NEW list, NEW off, Whole(nat, list, off), NEW target,
         target = None \/ \E n \in Placed(nat) : target = Id(n)
  PROVE  Standing(nat, list, target, target)
  BY DEF Whole, Standing, Placed, Nodes

\* At the root, and at a placed entry that no lane aside has placed, they say the same.
LEMMA TargetsAgree ==
  ASSUME NEW nat, NEW list, NEW off, Whole(nat, list, off), NEW target,
         target = None \/ \E n \in Placed(nat) : nat[n].type # "custom" /\ n \notin off /\ target = Id(n)
  PROVE  Agree(nat, list, target, target)
<1>1. CASE target = None
  <2>1. PICK p, s, b, c, d : /\ p = Root(nat, None) /\ s = Sayings(nat, p) /\ b = VisibleBranch(list, None)
                             /\ c = VisibleContext(list, None) /\ d = NContext(nat, None)
    OBVIOUS
  <2>2. IsNative(nat) /\ IsHistory(list)
    BY DEF Whole
  <2>3. p = <<>> /\ p \in Seq(Nodes(nat))
    <3>1. Line(Above(nat), None, p) /\ p \in Seq(Nodes(nat))
      BY <2>1, <2>2, RootsAre
    <3>2. QED BY <3>1 DEF Line
  <2>4. Len(PathIds(list, None)) = 0
    <3>1. PICK q : q = PathIds(list, None)
      OBVIOUS
    <3>2. Line(Over(list), None, q)
      BY <2>2, <3>1, PathsAre
    <3>3. q = <<>>
      BY <3>2 DEF Line
    <3>4. Len(q) = 0
      BY <3>3
    <3>5. QED BY <3>1, <3>4
  <2>5. Len(b) = 0 /\ DOMAIN b = 1 .. 0
    BY <2>1, <2>2, <2>4, PathsAre
  <2>6. Len(s) = 0
    <3>1. Len(s) = Len(p)
      BY <2>1, <2>2, <2>3, SayingsAre
    <3>2. Len(p) = 0
      BY <2>3
    <3>3. QED BY <3>1, <3>2
  <2>7. ASSUME NEW path, NEW open, NEW x, Len(path) = 0, Sends(path, open, x)
        PROVE  x = <<>>
    <3>1. PICK last : IsLastCut(path, last) /\ x = Opened(open, last) \o Tell(path, last + 1, Len(path))
      BY <2>7, Zenon DEF Sends
    <3>2. last = 0
      BY <2>7, <3>1 DEF IsLastCut
    <3>3. Opened(open, last) = <<>>
      BY <3>2 DEF Opened
    <3>4. Tell(path, last + 1, Len(path)) = <<>>
      <4>1. Tell(path, 0 + 1, 0) = <<>>
        BY TellNothing, 0 \in Nat
      <4>2. QED BY <2>7, <3>2, <4>1
    <3>5. <<>> \o <<>> = <<>>
      OBVIOUS
    <3>6. QED BY <3>1, <3>3, <3>4, <3>5
  <2>8. Sends(b, Openings(b), c)
    BY <2>1, <2>2, VisibleSends
  <2>9. Sends(s, Tails(nat, p), d)
    BY <2>1, <2>2, <2>3, NativeSends DEF NContext
  <2>10. c = <<>> /\ d = <<>>
    BY <2>5, <2>6, <2>7, <2>8, <2>9
  <2>11. QED BY <1>1, <2>1, <2>10 DEF Agree
<1>2. CASE \E n \in Placed(nat) : nat[n].type # "custom" /\ n \notin off /\ target = Id(n)
  <2>1. PICK n \in Placed(nat) : nat[n].type # "custom" /\ n \notin off /\ target = Id(n)
    BY <1>2
  <2>2. n \in DOMAIN nat /\ Id(n) \in Nodes(nat)
    BY DEF Placed, Nodes
  <2>3. QED BY <2>1, <2>2 DEF Whole, Agree
<1>3. QED BY <1>1, <1>2

\* Two steps of growth are one.
LEMMA OnwardTwice ==
  ASSUME NEW a, NEW b, NEW c, NEW d, NEW e, NEW f, NEW off, NEW far,
         Onward(a, b, c, d, off), Onward(c, d, e, f, far)
  PROVE  Onward(a, b, e, f, far)
<1>1. ListOn(b, d) /\ ListOn(d, f) /\ Whole(e, f, far)
  BY DEF Onward
<1>2. ListOn(b, f)
  <2>1. IsHistory(f) /\ IdsOf(b) \subseteq IdsOf(f)
    BY <1>1 DEF ListOn
  <2>2. ASSUME NEW id \in IdsOf(b)
        PROVE  Entry(f, id) = Entry(b, id)
    BY <1>1 DEF ListOn
  <2>3. ASSUME NEW leaf \in IdsOf(b) \cup {None}
        PROVE  PathIds(f, leaf) = PathIds(b, leaf) /\ VisibleContext(f, leaf) = VisibleContext(b, leaf)
    <3>1. leaf \in IdsOf(d) \cup {None}
      BY <1>1 DEF ListOn
    <3>2. PathIds(d, leaf) = PathIds(b, leaf) /\ VisibleContext(d, leaf) = VisibleContext(b, leaf)
      BY <1>1 DEF ListOn
    <3>3. PathIds(f, leaf) = PathIds(d, leaf) /\ VisibleContext(f, leaf) = VisibleContext(d, leaf)
      BY <1>1, <3>1 DEF ListOn
    <3>4. QED BY <3>2, <3>3
  <2>4. QED BY <2>1, <2>2, <2>3 DEF ListOn
<1>3. ASSUME NEW l, NEW v
      PROVE  (Standing(a, b, l, v) => Standing(e, f, l, v)) /\ (Agree(a, b, l, v) => Agree(e, f, l, v))
  BY DEF Onward
<1>4. QED BY <1>1, <1>2, <1>3 DEF Onward

-----------------------------------------------------------------------------
(* What a commit makes of its writes.                                      *)

\* The function on sets of indices that the fold of a commit's writes chooses.
Projections(g, p, w, n) ==
  g = [s \in SUBSET (1 .. n) |-> IF s = {} THEN p ELSE Project(g[s \ {Max(s)}], w[Max(s)])]
ProjectionOf(p, w, n) == (CHOOSE g : Projections(g, p, w, n))[1 .. n]

\* The history before the first of n writes and after each of them.
Projects(f, p, w, n) ==
  /\ DOMAIN f = 0 .. n
  /\ f[0] = p
  /\ \A i \in 1 .. n : f[i] = Project(f[i - 1], w[i])

\* The greatest of a set of indices that has n + 1.
LEMMA MaxOfUpTo ==
  ASSUME NEW n \in Nat, NEW s, s \subseteq 1 .. n + 1, n + 1 \in s
  PROVE  Max(s) = n + 1
<1>1. \A y \in s : n + 1 >= y
  OBVIOUS
<1>2. \A x \in s : (\A y \in s : x >= y) => x = n + 1
  OBVIOUS
<1>3. QED BY <1>1, <1>2 DEF Max

LEMMA ProjectionsExist ==
  ASSUME NEW p, NEW w, NEW n \in Nat
  PROVE  \E g : Projections(g, p, w, n)
<1> DEFINE S == {m \in Nat : \E g : Projections(g, p, w, m)}
<1>1. 0 \in S
  <2> DEFINE g == [s \in SUBSET (1 .. 0) |-> p]
  <2>1. \A s \in SUBSET (1 .. 0) : s = {}
    OBVIOUS
  <2>2. Projections(g, p, w, 0)
    BY <2>1 DEF Projections
  <2>3. QED BY <2>2
<1>2. ASSUME NEW m \in S
      PROVE  m + 1 \in S
  <2>1. m \in Nat
    OBVIOUS
  <2>2. PICK g : Projections(g, p, w, m)
    OBVIOUS
  <2> DEFINE h == [s \in SUBSET (1 .. m + 1) |->
                     IF m + 1 \in s THEN Project(g[s \ {m + 1}], w[m + 1]) ELSE g[s]]
  <2>3. ASSUME NEW s \in SUBSET (1 .. m + 1)
        PROVE  h[s] = IF s = {} THEN p ELSE Project(h[s \ {Max(s)}], w[Max(s)])
    <3>1. CASE m + 1 \in s
      <4>1. Max(s) = m + 1
        BY <2>1, <3>1, MaxOfUpTo
      <4>2. s \ {m + 1} \in SUBSET (1 .. m + 1) /\ m + 1 \notin s \ {m + 1}
        OBVIOUS
      <4>3. h[s \ {m + 1}] = g[s \ {m + 1}]
        BY <4>2
      <4>4. QED BY <3>1, <4>1, <4>3
    <3>2. CASE m + 1 \notin s
      <4>1. s \in SUBSET (1 .. m)
        BY <2>1, <3>2
      <4>2. g[s] = IF s = {} THEN p ELSE Project(g[s \ {Max(s)}], w[Max(s)])
        BY <2>2, <4>1 DEF Projections
      <4>3. s \ {Max(s)} \in SUBSET (1 .. m + 1) /\ m + 1 \notin s \ {Max(s)}
        BY <3>2
      <4>4. h[s \ {Max(s)}] = g[s \ {Max(s)}]
        BY <4>3
      <4>5. QED BY <3>2, <4>2, <4>4
    <3>3. QED BY <3>1, <3>2
  <2>4. h = [s \in SUBSET (1 .. m + 1) |-> IF s = {} THEN p ELSE Project(h[s \ {Max(s)}], w[Max(s)])]
    <3>1. h = [s \in SUBSET (1 .. m + 1) |-> h[s]]
      OBVIOUS
    <3> HIDE DEF h
    <3>2. [s \in SUBSET (1 .. m + 1) |-> h[s]]
          = [s \in SUBSET (1 .. m + 1) |-> IF s = {} THEN p ELSE Project(h[s \ {Max(s)}], w[Max(s)])]
      BY <2>3
    <3>3. QED BY <3>1, <3>2
  <2> HIDE DEF h
  <2>5. Projections(h, p, w, m + 1)
    BY <2>4 DEF Projections
  <2>6. QED BY <2>1, <2>5
<1>3. S = Nat
  BY <1>1, <1>2, NatSets
<1>4. QED BY <1>3

\* It is the end of a chain of single ones.
LEMMA ProjectionChain ==
  ASSUME NEW p, NEW w, NEW n \in Nat
  PROVE  \E f : Projects(f, p, w, n) /\ f[n] = ProjectionOf(p, w, n)
<1> DEFINE g == CHOOSE g : Projections(g, p, w, n)
<1>1. Projections(g, p, w, n)
  BY ProjectionsExist
<1> DEFINE f == [i \in 0 .. n |-> g[1 .. i]]
<1>2. f[0] = p
  <2>1. {} \in SUBSET (1 .. n) /\ 1 .. 0 = {}
    OBVIOUS
  <2>2. g[{}] = p
    BY <1>1, <2>1 DEF Projections
  <2> HIDE DEF g
  <2>3. QED BY <2>1, <2>2
<1>3. ASSUME NEW i \in 1 .. n
      PROVE  f[i] = Project(f[i - 1], w[i])
  <2> DEFINE s == 1 .. i
  <2>1. s \in SUBSET (1 .. n) /\ s # {}
    OBVIOUS
  <2>2. Max(s) = i
    <3>1. i - 1 \in Nat /\ i - 1 + 1 = i /\ s \subseteq 1 .. i - 1 + 1 /\ i \in s
      OBVIOUS
    <3> HIDE DEF s
    <3>2. QED BY <3>1, MaxOfUpTo
  <2>3. s \ {i} = 1 .. i - 1
    OBVIOUS
  <2>4. g[s] = Project(g[1 .. i - 1], w[i])
    <3> HIDE DEF g, s
    <3>1. g[s] = IF s = {} THEN p ELSE Project(g[s \ {Max(s)}], w[Max(s)])
      BY <1>1, <2>1 DEF Projections
    <3>2. QED BY <3>1, <2>1, <2>2, <2>3
  <2> HIDE DEF g
  <2>5. QED BY <2>4
<1>4. DOMAIN f = 0 .. n /\ f[n] = g[1 .. n]
  BY SMT
<1> HIDE DEF f
<1>5. Projects(f, p, w, n)
  BY <1>2, <1>3, <1>4 DEF Projects
<1>6. ProjectionOf(p, w, n) = g[1 .. n]
  BY DEF ProjectionOf, g
<1>7. QED BY <1>4, <1>5, <1>6

LEMMA ProjectAllIs ==
  ASSUME NEW p, NEW w, NEW n \in Nat, DOMAIN w = 1 .. n
  PROVE  \E f : Projects(f, p, w, n) /\ f[n] = ProjectAll(p, w)
<1>1. ProjectAll(p, w) = ProjectionOf(p, w, n)
  BY DEF ProjectionOf, ProjectAll, FoldLeft, MapThenFoldSet, Projections
<1>2. QED BY <1>1, ProjectionChain

\* Of one write, two and three.
LEMMA ProjectOne ==
  ASSUME NEW p, NEW a, NEW w, w = <<a>>
  PROVE  ProjectAll(p, w) = Project(p, a)
<1>1. DOMAIN w = 1 .. 1 /\ w[1] = a /\ 1 \in Nat
  BY OneOf
<1>2. PICK f : Projects(f, p, w, 1) /\ f[1] = ProjectAll(p, w)
  BY <1>1, ProjectAllIs
<1>3. 1 \in 1 .. 1 /\ 1 - 1 = 0
  OBVIOUS
<1>4. QED BY <1>1, <1>2, <1>3 DEF Projects

LEMMA ProjectTwo ==
  ASSUME NEW p, NEW a, NEW b, NEW w, w = <<a, b>>
  PROVE  ProjectAll(p, w) = Project(Project(p, a), b)
<1>1. DOMAIN w = 1 .. 2 /\ w[1] = a /\ w[2] = b /\ 2 \in Nat
  OBVIOUS
<1>2. PICK f : Projects(f, p, w, 2) /\ f[2] = ProjectAll(p, w)
  BY <1>1, ProjectAllIs
<1>3. 1 \in 1 .. 2 /\ 1 - 1 = 0 /\ 2 \in 1 .. 2 /\ 2 - 1 = 1
  OBVIOUS
<1>4. QED BY <1>1, <1>2, <1>3 DEF Projects

LEMMA ProjectThree ==
  ASSUME NEW p, NEW a, NEW b, NEW c, NEW w, w = <<a, b, c>>
  PROVE  ProjectAll(p, w) = Project(Project(Project(p, a), b), c)
<1>1. DOMAIN w = 1 .. 3 /\ w[1] = a /\ w[2] = b /\ w[3] = c /\ 3 \in Nat
  OBVIOUS
<1>2. PICK f : Projects(f, p, w, 3) /\ f[3] = ProjectAll(p, w)
  BY <1>1, ProjectAllIs
<1>3. 1 \in 1 .. 3 /\ 1 - 1 = 0 /\ 2 \in 1 .. 3 /\ 2 - 1 = 1 /\ 3 \in 1 .. 3 /\ 3 - 1 = 2
  OBVIOUS
<1>4. QED BY <1>1, <1>2, <1>3 DEF Projects
-----------------------------------------------------------------------------
(* What each write does.                                                   *)

Pos(list, v, l, M) == [entries |-> list, visibleTip |-> v, nativeTip |-> l, materialized |-> M]

LEMMA ProjectShown ==
  ASSUME NEW list, NEW v, NEW l, NEW M, NEW n, NEW raw, Id(n) \in IdsOf(list), raw.parentId # Unplaced
  PROVE  Project(Pos(list, v, l, M), RecordWrite(n, raw)) = Pos(list, v, Id(n), M \cup {Id(n)})
<1>1. PICK w : w = RecordWrite(n, raw)
  OBVIOUS
<1>2. w.write = "entry" /\ w.n = n /\ w.raw = raw
  BY <1>1 DEF RecordWrite
<1>3. Project(Pos(list, v, l, M), w) = ProjectRecord(Pos(list, v, l, M), n, raw)
  BY <1>2 DEF Project
<1>4. ProjectRecord(Pos(list, v, l, M), n, raw) = Pos(list, v, Id(n), M \cup {Id(n)})
  BY DEF ProjectRecord, Pos
<1>5. QED BY <1>1, <1>3, <1>4

LEMMA ProjectPlaced ==
  ASSUME NEW list, NEW v, NEW l, NEW M, NEW n, NEW raw, Id(n) \notin IdsOf(list), raw.parentId # Unplaced,
         raw.parentId = l, raw.type # "compaction"
  PROVE  Project(Pos(list, v, l, M), RecordWrite(n, raw))
         = Pos(list \o <<Shown(Id(n), raw.type, v, Says(n, raw.type), None)>>, Id(n), Id(n), M \cup {Id(n)})
<1>1. PICK w : w = RecordWrite(n, raw)
  OBVIOUS
<1>2. w.write = "entry" /\ w.n = n /\ w.raw = raw
  BY <1>1 DEF RecordWrite
<1>3. Project(Pos(list, v, l, M), w) = ProjectRecord(Pos(list, v, l, M), n, raw)
  BY <1>2 DEF Project
<1>4. ProjectRecord(Pos(list, v, l, M), n, raw)
      = Pos(list \o <<Shown(Id(n), raw.type, v, Says(n, raw.type), None)>>, Id(n), Id(n), M \cup {Id(n)})
  BY DEF ProjectRecord, Pos
<1>5. QED BY <1>1, <1>3, <1>4

LEMMA ProjectCompacted ==
  ASSUME NEW list, NEW v, NEW l, NEW M, NEW n, NEW raw, Id(n) \notin IdsOf(list), raw.parentId # Unplaced,
         raw.parentId = l, raw.type = "compaction"
  PROVE  Project(Pos(list, v, l, M), RecordWrite(n, raw))
         = Pos(list \o ProjectCompaction(n, raw, v, VisibleBranch(list, v)), Id(n), Id(n), M \cup {Id(n)})
<1>1. PICK w : w = RecordWrite(n, raw)
  OBVIOUS
<1>2. w.write = "entry" /\ w.n = n /\ w.raw = raw
  BY <1>1 DEF RecordWrite
<1>3. Project(Pos(list, v, l, M), w) = ProjectRecord(Pos(list, v, l, M), n, raw)
  BY <1>2 DEF Project
<1>4. ProjectRecord(Pos(list, v, l, M), n, raw)
      = Pos(list \o ProjectCompaction(n, raw, v, VisibleBranch(list, v)), Id(n), Id(n), M \cup {Id(n)})
  BY DEF ProjectRecord, Pos
<1>5. QED BY <1>1, <1>3, <1>4

LEMMA ProjectAccepted ==
  ASSUME NEW list, NEW v, NEW l, NEW M, NEW n, NEW raw, Id(n) \notin IdsOf(list), raw.parentId = Unplaced,
         raw.type = "custom"
  PROVE  Project(Pos(list, v, l, M), RecordWrite(n, raw))
         = Pos(list \o <<Shown(Id(n), "custom", v, <<>>, None)>>, Id(n), l, M)
<1>1. PICK w : w = RecordWrite(n, raw)
  OBVIOUS
<1>2. w.write = "entry" /\ w.n = n /\ w.raw = raw
  BY <1>1 DEF RecordWrite
<1>3. Project(Pos(list, v, l, M), w) = ProjectRecord(Pos(list, v, l, M), n, raw)
  BY <1>2 DEF Project
<1>4. ProjectRecord(Pos(list, v, l, M), n, raw)
      = Pos(list \o <<Shown(Id(n), "custom", v, <<>>, None)>>, Id(n), l, M)
  BY DEF ProjectRecord, Pos, Says
<1>5. QED BY <1>1, <1>3, <1>4

LEMMA ProjectTip ==
  ASSUME NEW list, NEW v, NEW l, NEW M, NEW x
  PROVE  Project(Pos(list, v, l, M), TipWrite(x)) = Pos(list, IF x \in M THEN v ELSE x, x, M)
<1>1. PICK w : w = TipWrite(x)
  OBVIOUS
<1>2. w.write = "tip" /\ w.next = x
  BY <1>1 DEF TipWrite
<1>3. Project(Pos(list, v, l, M), w) = MoveTip(Pos(list, v, l, M), x)
  BY <1>2 DEF Project
<1>4. MoveTip(Pos(list, v, l, M), x) = Pos(list, IF x \in M THEN v ELSE x, x, M)
  <2>1. PICK p : p = Pos(list, v, l, M)
    OBVIOUS
  <2>2. /\ p = [entries |-> list, visibleTip |-> v, nativeTip |-> l, materialized |-> M]
        /\ p.visibleTip = v /\ p.materialized = M
    BY <2>1 DEF Pos
  <2>3. PICK y : y = IF x \in M THEN v ELSE x
    OBVIOUS
  <2>4. MoveTip(p, x) = [p EXCEPT !.visibleTip = y, !.nativeTip = x]
    BY <2>2, <2>3 DEF MoveTip
  <2>5. PICK q : q = [Pos(list, v, l, M) EXCEPT !.visibleTip = y]
    OBVIOUS
  <2>6. q = Pos(list, y, l, M)
    BY <2>5 DEF Pos
  <2>7. [q EXCEPT !.nativeTip = x] = Pos(list, y, x, M)
    <3>1. [Pos(list, y, l, M) EXCEPT !.nativeTip = x] = Pos(list, y, x, M)
      BY DEF Pos
    <3>2. QED BY <2>6, <3>1
  <2>8. MoveTip(p, x) = [q EXCEPT !.nativeTip = x]
    BY <2>1, <2>4, <2>5
  <2>9. QED BY <2>1, <2>3, <2>7, <2>8
<1>5. QED BY <1>1, <1>3, <1>4

LEMMA ProjectMetadata ==
  ASSUME NEW v, NEW l, NEW M, IsHistory(entries),
         NEW id, id = <<0, Cardinality(MetaOf(entries)) + 1>>
  PROVE  Project(Pos(entries, v, l, M), MetadataWrite)
         = Pos(entries \o <<Shown(id, "metadata", v, <<>>, None)>>, id, l, M)
<1>1. PICK w, e : w = MetadataWrite /\ e = Shown(id, "metadata", v, <<>>, None)
  OBVIOUS
<1>2. w.write = "metadata"
  BY <1>1 DEF MetadataWrite
<1>3. Project(Pos(entries, v, l, M), w) = Describe(Pos(entries, v, l, M))
  BY <1>2 DEF Project
<1>4. Metadata = MetaOf(entries)
  BY DEF Metadata, MetaOf
<1>5. Describe(Pos(entries, v, l, M)) = Pos(Append(entries, e), id, l, M)
  <2>1. PICK p : p = Pos(entries, v, l, M)
    OBVIOUS
  <2>2. /\ p = [entries |-> entries, visibleTip |-> v, nativeTip |-> l, materialized |-> M]
        /\ p.visibleTip = v /\ p.entries = entries
    BY <2>1 DEF Pos
  <2>3. PICK y : y = Append(entries, e)
    OBVIOUS
  <2>4. Describe(p) = [p EXCEPT !.entries = y, !.visibleTip = id]
    BY <1>1, <1>4, <2>2, <2>3 DEF Describe
  <2>5. PICK q : q = [Pos(entries, v, l, M) EXCEPT !.entries = y]
    OBVIOUS
  <2>6. q = Pos(y, v, l, M)
    BY <2>5 DEF Pos
  <2>7. [q EXCEPT !.visibleTip = id] = Pos(y, id, l, M)
    <3>1. [Pos(y, v, l, M) EXCEPT !.visibleTip = id] = Pos(y, id, l, M)
      BY DEF Pos
    <3>2. QED BY <2>6, <3>1
  <2>8. Describe(p) = [q EXCEPT !.visibleTip = id]
    BY <2>1, <2>4, <2>5
  <2>9. QED BY <2>1, <2>3, <2>7, <2>8
<1>6. Append(entries, e) = entries \o <<e>>
  <2>1. PICK S : entries \in Seq(S) /\ e \in S
    <3>1. entries \in Seq({entries[i] : i \in DOMAIN entries})
      BY HistoryIsTyped
    <3>2. {entries[i] : i \in DOMAIN entries} \subseteq {entries[i] : i \in DOMAIN entries} \cup {e}
      OBVIOUS
    <3>3. entries \in Seq({entries[i] : i \in DOMAIN entries} \cup {e})
      BY <3>1, <3>2, SeqMonotonic
    <3>4. QED BY <3>3
  <2>2. QED BY <2>1, AppendIsConcat
<1>7. QED BY <1>1, <1>3, <1>5, <1>6

-----------------------------------------------------------------------------
(* The inbox of a lane.                                                    *)

\* A set of numbers in ascending order.
Ascending(s, f) ==
  /\ f \in [1 .. Cardinality(s) -> s]
  /\ \A i, j \in DOMAIN f : i < j => f[i] < f[j]
AscendUpTo == {m \in Nat : \A s \in SUBSET (1 .. m) : \E f : Ascending(s, f)}

LEMMA AscendMore ==
  ASSUME NEW m \in Nat, NEW s \in SUBSET (1 .. m), NEW f, Ascending(s, f),
         NEW t, t = s \cup {m + 1}
  PROVE  \E g : Ascending(t, g)
<1>1. IsFiniteSet(s) /\ Cardinality(s) \in Nat
  <2>1. IsFiniteSet(1 .. m)
    BY FS_Interval
  <2>2. IsFiniteSet(s)
    BY <2>1, FS_Subset
  <2>3. QED BY <2>2, FS_CardinalityType
<1>2. PICK c : c = Cardinality(s)
  OBVIOUS
<1>3. c \in Nat /\ f \in [1 .. c -> s] /\ \A i, j \in 1 .. c : i < j => f[i] < f[j]
  BY <1>1, <1>2 DEF Ascending
<1>4. Cardinality(t) = c + 1
  <2>1. m + 1 \notin s
    OBVIOUS
  <2>2. QED BY <1>1, <1>2, <2>1, FS_AddElement
<1>5. PICK g : g = [i \in 1 .. c + 1 |-> IF i = c + 1 THEN m + 1 ELSE f[i]]
  OBVIOUS
<1>6. g \in [1 .. c + 1 -> t]
  <2>1. \A i \in 1 .. c + 1 : i # c + 1 => i \in 1 .. c
    BY <1>3
  <2>2. QED BY <1>3, <1>5, <2>1
<1>7. ASSUME NEW i \in 1 .. c + 1, NEW j \in 1 .. c + 1, i < j
      PROVE  g[i] < g[j]
  <2>1. i \in 1 .. c /\ g[i] = f[i] /\ f[i] \in s
    BY <1>3, <1>5, <1>7
  <2>2. CASE j = c + 1
    <3>1. g[j] = m + 1
      BY <1>5, <2>2
    <3>2. \A x \in s : x \in 1 .. m
      OBVIOUS
    <3>3. f[i] \in 1 .. m
      BY <2>1, <3>2
    <3>4. QED BY <2>1, <3>1, <3>3
  <2>3. CASE j # c + 1
    <3>1. j \in 1 .. c /\ g[j] = f[j]
      BY <1>3, <1>5, <2>3
    <3>2. QED BY <1>3, <1>7, <2>1, <3>1
  <2>4. QED BY <2>2, <2>3
<1>8. Ascending(t, g)
  BY <1>4, <1>6, <1>7 DEF Ascending
<1>9. QED BY <1>8

LEMMA Ascends ==
  ASSUME NEW m \in Nat, NEW s \in SUBSET (1 .. m)
  PROVE  \E f : Ascending(s, f)
<1>1. 0 \in AscendUpTo
  <2>1. SUFFICES ASSUME NEW r \in SUBSET (1 .. 0)
                 PROVE  \E f : Ascending(r, f)
    BY DEF AscendUpTo
  <2>2. r = {}
    OBVIOUS
  <2>3. Cardinality(r) = 0
    BY <2>2, FS_EmptySet
  <2>4. PICK f : f = [i \in 1 .. 0 |-> i]
    OBVIOUS
  <2>5. f \in [1 .. 0 -> r] /\ DOMAIN f = 1 .. 0
    BY <2>4
  <2>6. Ascending(r, f)
    BY <2>3, <2>5 DEF Ascending
  <2>7. QED BY <2>6
<1>2. ASSUME NEW k \in AscendUpTo
      PROVE  k + 1 \in AscendUpTo
  <2>1. k \in Nat /\ \A r \in SUBSET (1 .. k) : \E f : Ascending(r, f)
    BY DEF AscendUpTo
  <2>2. SUFFICES ASSUME NEW t \in SUBSET (1 .. k + 1)
                 PROVE  \E g : Ascending(t, g)
    BY <2>1 DEF AscendUpTo
  <2>3. CASE k + 1 \in t
    <3>1. PICK r : r = t \ {k + 1}
      OBVIOUS
    <3>2. r \in SUBSET (1 .. k) /\ t = r \cup {k + 1}
      BY <2>1, <2>3, <3>1
    <3>3. PICK f : Ascending(r, f)
      BY <2>1, <3>2
    <3>4. QED BY <2>1, <3>2, <3>3, AscendMore
  <2>4. CASE k + 1 \notin t
    <3>1. t \in SUBSET (1 .. k)
      BY <2>1, <2>4
    <3>2. QED BY <2>1, <3>1
  <2>5. QED BY <2>3, <2>4
<1>3. AscendUpTo = Nat
  <2>1. AscendUpTo \subseteq Nat
    BY DEF AscendUpTo
  <2>2. QED BY <1>1, <1>2, <2>1, NatSets
<1>4. QED BY <1>3 DEF AscendUpTo

\* It lists the entries that wait, none twice.
Lists(ns, waiting) ==
  /\ IsSequence(ns) /\ Len(ns) \in Nat \ {0} /\ DOMAIN ns = 1 .. Len(ns)
  /\ \A i, j \in DOMAIN ns : ns[i] = ns[j] => i = j
  /\ \A i \in DOMAIN ns : ns[i] \in waiting

LEMMA InboxLists ==
  ASSUME IsNative(native), NEW lane, Waiting(lane) # {}
  PROVE  Lists(Inbox(lane), Waiting(lane))
<1>1. PICK s, ns, m : s = Waiting(lane) /\ ns = Inbox(lane) /\ m = Len(native)
  OBVIOUS
<1>2. m \in Nat /\ DOMAIN native = 1 .. m
  BY <1>1, NodesAre
<1>3. s \in SUBSET (1 .. m) /\ s # {}
  BY <1>1, <1>2 DEF Waiting
<1>4. IsFiniteSet(s)
  <2>1. IsFiniteSet(1 .. m)
    BY <1>2, FS_Interval
  <2>2. QED BY <1>3, <2>1, FS_Subset
<1>5. Cardinality(s) \in Nat \ {0}
  BY <1>3, <1>4, FS_CardinalityType, FS_EmptySet
<1>6. \E f \in [1 .. Cardinality(s) -> s] : \A i, j \in DOMAIN f : i < j => f[i] < f[j]
  BY <1>2, <1>3, Ascends DEF Ascending
<1>7. ns = CHOOSE f \in [1 .. Cardinality(s) -> s] : \A i, j \in DOMAIN f : i < j => f[i] < f[j]
  BY <1>1 DEF Inbox
<1>8. ns \in [1 .. Cardinality(s) -> s] /\ \A i, j \in DOMAIN ns : i < j => ns[i] < ns[j]
  BY <1>6, <1>7
<1>9. Len(ns) = Cardinality(s) /\ DOMAIN ns = 1 .. Cardinality(s)
  BY <1>5, <1>8, FunctionIsSeq
<1>10. IsSequence(ns)
  <2>1. ns = [i \in 1 .. Cardinality(s) |-> ns[i]]
    BY <1>8
  <2>2. QED BY <1>5, <2>1, FunctionIsSequence
<1>11. ASSUME NEW i \in DOMAIN ns, NEW j \in DOMAIN ns, ns[i] = ns[j]
       PROVE  i = j
  <2>1. i \in Nat /\ j \in Nat
    BY <1>5, <1>9
  <2>2. ns[i] \in Nat /\ ns[j] \in Nat
    <3>1. \A x \in s : x \in 1 .. m
      BY <1>3
    <3>2. ns[i] \in s /\ ns[j] \in s
      BY <1>8
    <3>3. ns[i] \in 1 .. m /\ ns[j] \in 1 .. m
      BY <3>1, <3>2
    <3>4. QED BY <1>2, <3>3
  <2>3. ~(ns[i] < ns[j]) /\ ~(ns[j] < ns[i])
    BY <1>11, <2>2
  <2>4. ~(i < j) /\ ~(j < i)
    BY <1>8, <2>3
  <2>5. QED BY <2>1, <2>4
<1>12. \A i \in DOMAIN ns : ns[i] \in s
  BY <1>8
<1>13. QED BY <1>1, <1>5, <1>9, <1>10, <1>11, <1>12 DEF Lists
-----------------------------------------------------------------------------
(* What a commit stores.                                                   *)

Written(writes) == {i \in DOMAIN writes : writes[i].write = "entry"}
Tips(writes) == {i \in DOMAIN writes : writes[i].write = "tip"}

\* Each entry it writes, and the others as they were.
Stores(writes, nat, more, fresh) ==
  /\ more = [n \in 1 .. Len(nat) + Cardinality(fresh) |-> more[n]]
  /\ fresh = {writes[i].n : i \in Written(writes)} \ DOMAIN nat
  /\ \A n \in DOMAIN more : (\A i \in Written(writes) : writes[i].n # n) => more[n] = nat[n]
  /\ \A i \in Written(writes) : writes[i].n \in DOMAIN more => more[writes[i].n] = writes[i].raw

LEMMA StoredIs ==
  ASSUME NEW writes, \A i, j \in Written(writes) : writes[i].n = writes[j].n => i = j, NEW n
  PROVE  /\ (\A i \in Written(writes) : writes[i].n # n) => Stored(n, writes) = native[n]
         /\ \A i \in Written(writes) : writes[i].n = n => Stored(n, writes) = writes[i].raw
<1>1. PICK own : own = {i \in DOMAIN writes : writes[i].write = "entry" /\ writes[i].n = n}
  OBVIOUS
<1>2. Stored(n, writes) = IF own = {} THEN native[n] ELSE writes[CHOOSE i \in own : TRUE].raw
  BY <1>1 DEF Stored
<1>3. own = {i \in Written(writes) : writes[i].n = n}
  BY <1>1 DEF Written
<1>4. ASSUME NEW i \in Written(writes), writes[i].n = n
      PROVE  Stored(n, writes) = writes[i].raw
  <2>1. i \in own /\ \A j \in own : j = i
    BY <1>3, <1>4
  <2>2. PICK j : j \in own /\ j = CHOOSE h \in own : TRUE
    BY <2>1
  <2>3. j = i
    BY <2>1, <2>2
  <2>4. QED BY <1>2, <2>1, <2>2, <2>3
<1>5. (\A i \in Written(writes) : writes[i].n # n) => Stored(n, writes) = native[n]
  BY <1>2, <1>3
<1>6. QED BY <1>4, <1>5

LEMMA CommitStores ==
  ASSUME NEW lane, NEW writes, Commit(lane, writes),
         \A i, j \in Written(writes) : writes[i].n = writes[j].n => i = j
  PROVE  \E fresh : Stores(writes, native, native', fresh)
<1>1. PICK fresh : fresh = {writes[i].n : i \in Written(writes)} \ DOMAIN native
  OBVIOUS
<1>2. PICK more, m : more = native' /\ m = Len(native) + Cardinality(fresh)
  OBVIOUS
<1>3. more = [n \in 1 .. m |-> Stored(n, writes)]
  BY <1>1, <1>2 DEF Commit, Written
<1>4. more = [n \in 1 .. m |-> more[n]] /\ DOMAIN more = 1 .. m /\ \A n \in DOMAIN more : more[n] = Stored(n, writes)
  BY <1>3
<1>5. \A n \in DOMAIN more : (\A i \in Written(writes) : writes[i].n # n) => more[n] = native[n]
  <2>1. SUFFICES ASSUME NEW n \in DOMAIN more, \A i \in Written(writes) : writes[i].n # n
                 PROVE  more[n] = native[n]
    OBVIOUS
  <2>2. Stored(n, writes) = native[n]
    BY <2>1, StoredIs
  <2>3. QED BY <1>4, <2>2
<1>6. \A i \in Written(writes) : writes[i].n \in DOMAIN more => more[writes[i].n] = writes[i].raw
  <2>1. SUFFICES ASSUME NEW i \in Written(writes), writes[i].n \in DOMAIN more
                 PROVE  more[writes[i].n] = writes[i].raw
    OBVIOUS
  <2>2. PICK n : n = writes[i].n
    OBVIOUS
  <2>3. more[n] = Stored(n, writes)
    BY <1>4, <2>1, <2>2
  <2>4. QED BY <2>2, <2>3, StoredIs
<1>7. QED BY <1>1, <1>2, <1>4, <1>5, <1>6 DEF Stores

\* The last tip it writes.
LEMMA CommitTips ==
  ASSUME NEW lane, NEW writes, Commit(lane, writes)
  PROVE  /\ Tips(writes) = {} => tip' = tip
         /\ \A k \in Tips(writes) : (\A j \in Tips(writes) : j \in Int /\ j <= k) =>
              tip' = [tip EXCEPT ![lane] = writes[k].next]
<1>1. PICK tips : tips = Tips(writes)
  OBVIOUS
<1>2. tip' = IF tips = {} THEN tip
             ELSE [tip EXCEPT ![lane] = writes[CHOOSE i \in tips : \A j \in tips : j <= i].next]
  BY <1>1 DEF Commit, Tips
<1>3. ASSUME NEW k \in tips, \A j \in tips : j \in Int /\ j <= k
      PROVE  tip' = [tip EXCEPT ![lane] = writes[k].next]
  <2>1. PICK i : i \in tips /\ i = CHOOSE h \in tips : \A j \in tips : j <= h
    OBVIOUS
  <2>2. \A j \in tips : j <= i
    BY <1>3, <2>1
  <2>3. i = k
    BY <1>3, <2>1, <2>2
  <2>4. QED BY <1>2, <2>1, <2>3
<1>4. QED BY <1>1, <1>2, <1>3

\* Where its projection ends.
Start(lane) == Pos(entries, position[lane].visibleTip, position[lane].nativeTip, {})
LEMMA CommitEnds ==
  ASSUME NEW lane, NEW writes, Commit(lane, writes), NEW new, NEW v, NEW l, NEW M,
         ProjectAll(Start(lane), writes) = Pos(new, v, l, M)
  PROVE  entries' = new /\ position' = [position EXCEPT ![lane] = [nativeTip |-> l, visibleTip |-> v]]
<1>1. PICK end : end = ProjectAll(Start(lane), writes)
  OBVIOUS
<1>2. end.entries = new /\ end.nativeTip = l /\ end.visibleTip = v
  BY <1>1 DEF Pos
<1>3. entries' = end.entries
      /\ position' = [position EXCEPT ![lane] = [nativeTip |-> end.nativeTip, visibleTip |-> end.visibleTip]]
  BY <1>1 DEF Commit, Start, Pos
<1>4. QED BY <1>2, <1>3

\* Of one new entry, whatever else it moves.
OneRecord(writes, n, raw) ==
  \E k \in Written(writes) : writes[k].n = n /\ writes[k].raw = raw /\ \A i \in Written(writes) : i = k

LEMMA CommitAppends ==
  ASSUME IsNative(native), NEW lane, NEW writes, Commit(lane, writes), NEW n, n = Len(native) + 1, NEW raw,
         OneRecord(writes, n, raw), raw.retainedTail \in Seq(Spoken)
  PROVE  Appends(native, n, raw, native')
<1>1. PICK k \in Written(writes) : writes[k].n = n /\ writes[k].raw = raw /\ \A i \in Written(writes) : i = k
  BY DEF OneRecord
<1>2. \A i, j \in Written(writes) : writes[i].n = writes[j].n => i = j
  BY <1>1
<1>3. PICK fresh : Stores(writes, native, native', fresh)
  BY <1>2, CommitStores
<1>4. PICK m, more : m = Len(native) /\ more = native'
  OBVIOUS
<1>5. m \in Nat /\ n = m + 1 /\ n \in Nat /\ DOMAIN native = 1 .. m /\ n \notin DOMAIN native
  BY <1>4, NodesAre
<1>6. fresh = {n}
  BY <1>1, <1>3, <1>5 DEF Stores
<1>7. Cardinality(fresh) = 1
  BY <1>6, FS_Singleton
<1>8. more = [i \in 1 .. n |-> more[i]] /\ DOMAIN more = 1 .. n
  <2>1. more = [i \in 1 .. m + 1 |-> more[i]]
    BY <1>3, <1>4, <1>7 DEF Stores
  <2>2. more = [i \in 1 .. n |-> more[i]]
    BY <1>5, <2>1
  <2>3. QED BY <2>2
<1>9. IsSequence(more) /\ Len(more) = n
  BY <1>5, <1>8, FunctionIsSequence
<1>10. more[n] = raw
  <2>1. n \in DOMAIN more
    BY <1>5, <1>8
  <2>2. QED BY <1>1, <1>3, <1>4, <2>1 DEF Stores
<1>11. \A i \in 1 .. m : more[i] = native[i]
  <2>1. \A i \in 1 .. m : i \in DOMAIN more /\ i # n
    BY <1>5, <1>8
  <2>2. QED BY <1>1, <1>3, <1>4, <2>1 DEF Stores
<1>12. Extended(native, raw, more)
  BY <1>4, <1>5, <1>8, <1>9, <1>10, <1>11 DEF Extended
<1>13. QED BY <1>4, <1>9, <1>12 DEF Appends

LEMMA CommitKeeps ==
  ASSUME IsNative(native), NEW lane, NEW writes, Commit(lane, writes), Written(writes) = {}
  PROVE  native' = native
<1>1. \A i, j \in Written(writes) : writes[i].n = writes[j].n => i = j
  OBVIOUS
<1>2. PICK fresh : Stores(writes, native, native', fresh)
  BY <1>1, CommitStores
<1>3. PICK m, more : m = Len(native) /\ more = native'
  OBVIOUS
<1>4. m \in Nat /\ DOMAIN native = 1 .. m /\ native = [i \in 1 .. m |-> native[i]]
  <2>1. m \in Nat /\ DOMAIN native = 1 .. m
    BY <1>3, NodesAre
  <2>2. native \in [1 .. m -> {native[i] : i \in DOMAIN native}]
    BY <1>3, LenProperties DEF IsNative, IsSequence
  <2>3. QED BY <2>1, <2>2
<1>5. fresh = {}
  BY <1>2 DEF Stores
<1>6. Cardinality(fresh) = 0
  BY <1>5, FS_EmptySet
<1>7. more = [i \in 1 .. m |-> more[i]] /\ DOMAIN more = 1 .. m
  <2>1. more = [i \in 1 .. m + 0 |-> more[i]]
    BY <1>2, <1>3, <1>6 DEF Stores
  <2>2. m + 0 = m
    BY <1>4
  <2>3. more = [i \in 1 .. m |-> more[i]]
    BY <2>1, <2>2
  <2>4. QED BY <2>3
<1>8. \A i \in 1 .. m : more[i] = native[i]
  BY <1>2, <1>3, <1>7 DEF Stores
<1>9. [i \in 1 .. m |-> more[i]] = [i \in 1 .. m |-> native[i]]
  BY <1>8
<1>10. QED BY <1>3, <1>4, <1>7, <1>9

\* Of an inbox drained, alone or with a new entry behind it.
DrainedAs(writes, lane, l, ns) ==
  \A i \in DOMAIN ns : /\ i \in DOMAIN writes
                       /\ writes[i] = RecordWrite(ns[i], Raw("custom", IF i = 1 THEN l ELSE Id(ns[i - 1]), lane))

LEMMA CommitDrains ==
  ASSUME IsNative(native), NEW lane, NEW l \in Nodes(native) \cup {None}, NEW ns,
         Lists(ns, DOMAIN native \ Placed(native)),
         NEW writes, Commit(lane, writes), DrainedAs(writes, lane, l, ns), Written(writes) = DOMAIN ns
  PROVE  Drains(native, l, ns, native')
<1>1. ASSUME NEW i \in DOMAIN ns
      PROVE  /\ writes[i].n = ns[i] /\ writes[i].raw.type = "custom" /\ writes[i].raw.retainedTail = <<>>
             /\ writes[i].raw.parentId = IF i = 1 THEN l ELSE Id(ns[i - 1])
  <2>1. writes[i] = RecordWrite(ns[i], Raw("custom", IF i = 1 THEN l ELSE Id(ns[i - 1]), lane))
    BY DEF DrainedAs
  <2>2. QED BY <2>1 DEF RecordWrite, Raw
<1>2. \A i, j \in Written(writes) : writes[i].n = writes[j].n => i = j
  BY <1>1 DEF Lists
<1>3. PICK fresh : Stores(writes, native, native', fresh)
  BY <1>2, CommitStores
<1>4. PICK m, more : m = Len(native) /\ more = native'
  OBVIOUS
<1>5. m \in Nat /\ DOMAIN native = 1 .. m
  BY <1>4, NodesAre
<1>6. \A i \in DOMAIN ns : ns[i] \in DOMAIN native \ Placed(native)
  BY DEF Lists
<1>7. fresh = {}
  BY <1>1, <1>3, <1>6 DEF Stores
<1>8. Cardinality(fresh) = 0
  BY <1>7, FS_EmptySet
<1>9. more = [i \in 1 .. m |-> more[i]] /\ DOMAIN more = 1 .. m
  <2>1. more = [i \in 1 .. m + 0 |-> more[i]]
    BY <1>3, <1>4, <1>8 DEF Stores
  <2>2. m + 0 = m
    BY <1>5
  <2>3. more = [i \in 1 .. m |-> more[i]]
    BY <2>1, <2>2
  <2>4. QED BY <2>3
<1>10. IsSequence(more) /\ Len(more) = m
  BY <1>5, <1>9, FunctionIsSequence
<1>11. \A n \in DOMAIN native : (\A i \in DOMAIN ns : ns[i] # n) => more[n] = native[n]
  BY <1>1, <1>3, <1>4, <1>5, <1>9 DEF Stores
<1>12. ASSUME NEW i \in DOMAIN ns
       PROVE  more[ns[i]] = writes[i].raw
  <2>1. writes[i].n \in DOMAIN more /\ i \in Written(writes)
    BY <1>1, <1>5, <1>6, <1>9
  <2>2. QED BY <1>1, <1>3, <1>4, <2>1 DEF Stores
<1>13. QED BY <1>1, <1>4, <1>6, <1>10, <1>11, <1>12 DEF Drains, Lists

LEMMA CommitDrainsAppends ==
  ASSUME IsNative(native), NEW lane, NEW l \in Nodes(native) \cup {None}, NEW ns,
         Lists(ns, DOMAIN native \ Placed(native)),
         NEW writes, Commit(lane, writes), DrainedAs(writes, lane, l, ns),
         NEW k, k \in Written(writes), k \notin DOMAIN ns, Written(writes) = DOMAIN ns \cup {k},
         NEW n, n = Len(native) + 1, NEW raw, writes[k].n = n, writes[k].raw = raw,
         raw.retainedTail \in Seq(Spoken)
  PROVE  \E mid : Drains(native, l, ns, mid) /\ Appends(mid, n, raw, native')
<1>1. ASSUME NEW i \in DOMAIN ns
      PROVE  /\ writes[i].n = ns[i] /\ writes[i].raw.type = "custom" /\ writes[i].raw.retainedTail = <<>>
             /\ writes[i].raw.parentId = IF i = 1 THEN l ELSE Id(ns[i - 1])
  <2>1. writes[i] = RecordWrite(ns[i], Raw("custom", IF i = 1 THEN l ELSE Id(ns[i - 1]), lane))
    BY DEF DrainedAs
  <2>2. QED BY <2>1 DEF RecordWrite, Raw
<1>2. PICK m, more : m = Len(native) /\ more = native'
  OBVIOUS
<1>3. m \in Nat /\ DOMAIN native = 1 .. m /\ n = m + 1 /\ n \in Nat /\ n \notin DOMAIN native
  BY <1>2, NodesAre
<1>4. \A i \in DOMAIN ns : ns[i] \in DOMAIN native \ Placed(native)
  BY DEF Lists
<1>5. \A i, j \in Written(writes) : writes[i].n = writes[j].n => i = j
  <2>1. \A i \in DOMAIN ns : writes[i].n # n
    BY <1>1, <1>3, <1>4
  <2>2. \A i, j \in DOMAIN ns : writes[i].n = writes[j].n => i = j
    BY <1>1 DEF Lists
  <2>3. QED BY <2>1, <2>2
<1>6. PICK fresh : Stores(writes, native, more, fresh)
  BY <1>2, <1>5, CommitStores
<1>7. fresh = {n}
  <2>1. fresh = {writes[i].n : i \in Written(writes)} \ DOMAIN native
    BY <1>6 DEF Stores
  <2>2. \A i \in DOMAIN ns : writes[i].n \in DOMAIN native
    BY <1>1, <1>4
  <2>3. QED BY <1>3, <2>1, <2>2
<1>8. Cardinality(fresh) = 1
  BY <1>7, FS_Singleton
<1>9. more = [i \in 1 .. n |-> more[i]] /\ DOMAIN more = 1 .. n
  <2>1. more = [i \in 1 .. m + 1 |-> more[i]]
    BY <1>2, <1>6, <1>8 DEF Stores
  <2>2. more = [i \in 1 .. n |-> more[i]]
    BY <1>3, <2>1
  <2>3. QED BY <2>2
<1>10. IsSequence(more) /\ Len(more) = n
  BY <1>3, <1>9, FunctionIsSequence
<1>11. PICK mid : mid = [i \in 1 .. m |-> more[i]]
  OBVIOUS
<1>12. DOMAIN mid = 1 .. m /\ IsSequence(mid) /\ Len(mid) = m /\ \A i \in 1 .. m : mid[i] = more[i]
  <2>1. mid = [i \in 1 .. m |-> mid[i]] /\ DOMAIN mid = 1 .. m /\ \A i \in 1 .. m : mid[i] = more[i]
    BY <1>11
  <2>2. QED BY <1>3, <2>1, FunctionIsSequence
<1>13. \A i \in 1 .. m : i \in DOMAIN more /\ i # n
  BY <1>3, <1>9
<1>14. \A i \in DOMAIN native : (\A j \in DOMAIN ns : ns[j] # i) => mid[i] = native[i]
  <2>1. SUFFICES ASSUME NEW i \in DOMAIN native, \A j \in DOMAIN ns : ns[j] # i
                 PROVE  mid[i] = native[i]
    OBVIOUS
  <2>2. i \in DOMAIN more /\ i # n /\ mid[i] = more[i]
    BY <1>3, <1>12, <1>13
  <2>3. \A j \in Written(writes) : writes[j].n # i
    BY <1>1, <2>1, <2>2
  <2>4. QED BY <1>6, <2>2, <2>3 DEF Stores
<1>15. ASSUME NEW i \in DOMAIN ns
       PROVE  mid[ns[i]] = writes[i].raw
  <2>1. ns[i] \in 1 .. m
    BY <1>3, <1>4
  <2>2. writes[i].n \in DOMAIN more /\ i \in Written(writes)
    BY <1>1, <1>13, <2>1
  <2>3. more[writes[i].n] = writes[i].raw
    BY <1>6, <2>2 DEF Stores
  <2>4. QED BY <1>1, <1>12, <2>1, <2>3
<1>16. Drains(native, l, ns, mid)
  <2>1. \A i \in DOMAIN ns : /\ mid[ns[i]].parentId = IF i = 1 THEN l ELSE Id(ns[i - 1])
                             /\ mid[ns[i]].type = "custom" /\ mid[ns[i]].retainedTail = <<>>
    BY <1>1, <1>15
  <2>2. QED BY <1>2, <1>4, <1>12, <1>14, <2>1 DEF Drains, Lists
<1>17. more[n] = raw
  <2>1. n \in DOMAIN more
    BY <1>3, <1>9
  <2>2. QED BY <1>6, <2>1 DEF Stores
<1>18. Extended(mid, raw, more)
  BY <1>3, <1>9, <1>10, <1>12, <1>17 DEF Extended
<1>19. Appends(mid, n, raw, more)
  BY <1>3, <1>10, <1>12, <1>18 DEF Appends
<1>20. QED BY <1>2, <1>16, <1>19
-----------------------------------------------------------------------------
(* The writes of each operation.                                           *)

LEMMA WritesJoin ==
  ASSUME NEW a, NEW b, NEW c
  PROVE  <<>> \o <<b, c>> = <<b, c>> /\ <<a>> \o <<>> = <<a>> /\ <<a>> \o <<b, c>> = <<a, b, c>>
<1>1. <<a>> \in Seq({a, b, c}) /\ <<b, c>> \in Seq({a, b, c})
  OBVIOUS
<1>2. <<>> \o <<b, c>> = <<b, c>> /\ <<a>> \o <<>> = <<a>>
  BY <1>1, ConcatEmptySeq
<1>3. <<a>> \o <<b, c>> = <<a, b, c>>
  <2>1. PICK p, q, r, s : p = <<a>> /\ q = <<b, c>> /\ r = p \o q /\ s = <<a, b, c>>
    OBVIOUS
  <2>2. p \in Seq({a, b, c}) /\ q \in Seq({a, b, c}) /\ Len(p) = 1 /\ Len(q) = 2 /\ p[1] = a /\ q[1] = b /\ q[2] = c
    BY <1>1, <2>1
  <2>3. s \in Seq({a, b, c}) /\ Len(s) = 3 /\ s[1] = a /\ s[2] = b /\ s[3] = c
    BY <2>1
  <2>4. r \in Seq({a, b, c}) /\ IsJoin(p, q, r)
    BY <2>1, <2>2, JoinIs
  <2>5. Len(r) = 3 /\ r[1] = a /\ r[2] = b /\ r[3] = c
    <3>1. /\ Len(r) = 1 + 2 /\ (\A i \in 1 .. 1 : r[i] = p[i]) /\ \A i \in 1 .. 2 : r[1 + i] = q[i]
      BY <2>2, <2>4 DEF IsJoin
    <3>2. 1 + 2 = 3 /\ 1 \in 1 .. 1 /\ 1 \in 1 .. 2 /\ 2 \in 1 .. 2 /\ 1 + 1 = 2
      OBVIOUS
    <3>3. QED BY <2>2, <3>1, <3>2
  <2>6. \A i \in 1 .. Len(r) : r[i] = s[i]
    <3>1. \A i \in 1 .. 3 : i = 1 \/ i = 2 \/ i = 3
      OBVIOUS
    <3>2. QED BY <2>3, <2>5, <3>1
  <2>7. r = s
    BY <2>3, <2>4, <2>5, <2>6, SeqEqual
  <2>8. QED BY <2>1, <2>7
<1>4. QED BY <1>2, <1>3

\* What each kind of write is.
LEMMA WriteKinds ==
  ASSUME NEW n, NEW raw, NEW x
  PROVE  /\ RecordWrite(n, raw).write = "entry" /\ RecordWrite(n, raw).n = n /\ RecordWrite(n, raw).raw = raw
         /\ TipWrite(x).write = "tip" /\ TipWrite(x).next = x
         /\ MetadataWrite.write = "metadata"
  BY DEF RecordWrite, TipWrite, MetadataWrite

\* What a lane's commit leaves.
Moved(lane, more, new, l, v) ==
  /\ native' = more /\ entries' = new
  /\ tip' = [tip EXCEPT ![lane] = l]
  /\ position' = [position EXCEPT ![lane] = [nativeTip |-> l, visibleTip |-> v]]

\* Where a lane stands, and what its commit has to leave.
Positions ==
  /\ tip = [lane \in Lanes |-> tip[lane]]
  /\ position = [lane \in Lanes |-> position[lane]]
  /\ \A lane \in Lanes : position[lane].nativeTip = tip[lane]
Stands(lane, l, v) ==
  /\ Positions /\ lane \in Lanes /\ l = tip[lane] /\ v = position[lane].visibleTip
  /\ Whole(native, entries, astray) /\ Standing(native, entries, l, v)
  /\ lane \in aside \/ Agree(native, entries, l, v)
Lands(lane, l, v) ==
  /\ Onward(native, entries, native', entries', astray') /\ Standing(native', entries', l, v)
  /\ lane \in aside' \/ Agree(native', entries', l, v)
  /\ tip' = [tip EXCEPT ![lane] = l]
  /\ position' = [position EXCEPT ![lane] = [nativeTip |-> l, visibleTip |-> v]]

LEMMA StartIs ==
  ASSUME NEW lane, NEW l, NEW v, Stands(lane, l, v)
  PROVE  Start(lane) = Pos(entries, v, l, {}) /\ tip = [tip EXCEPT ![lane] = l]
<1>1. position[lane].nativeTip = l
  BY DEF Stands, Positions
<1>2. tip = [x \in Lanes |-> tip[x]] /\ l = tip[lane]
  BY DEF Stands, Positions
<1>3. tip = [tip EXCEPT ![lane] = l]
  BY <1>2, Zenon
<1>4. QED BY <1>1, <1>3 DEF Start, Stands

\* The next entry of Pi is not shown yet.
LEMMA NextIsNew ==
  ASSUME NEW lane, NEW l, NEW v, Stands(lane, l, v), NEW n, n = Len(native) + 1
  PROVE  Id(n) \notin IdsOf(entries) /\ l # Unplaced /\ IsNative(native) /\ IsHistory(entries)
         /\ l \in Nodes(native) \cup {None} /\ v \in IdsOf(entries) \cup {None}
<1>1. IsNative(native) /\ IsHistory(entries) /\ Whole(native, entries, astray)
  BY DEF Stands, Whole
<1>2. l \in Nodes(native) \cup {None} /\ v \in IdsOf(entries) \cup {None}
  BY DEF Stands, Standing
<1>3. Len(native) \in Nat
  BY <1>1, NodesAre
<1>4. Fresh(entries, n)
  BY <1>1, <1>3, FreshAbove
<1>5. PICK id : id = <<n, 0>>
  OBVIOUS
<1>6. id \notin IdsOf(entries)
  BY <1>4, <1>5, FreshIs, 0 \in Nat
<1>7. l # Unplaced
  BY <1>1, <1>2, NoneIsPlaced
<1>8. QED BY <1>1, <1>2, <1>5, <1>6, <1>7 DEF Id

\* One write alone.
LEMMA OnlyOne ==
  ASSUME NEW w, NEW writes, writes = <<w>>
  PROVE  /\ DOMAIN writes = 1 .. 1 /\ writes[1] = w
         /\ Written(writes) = {i \in {1} : w.write = "entry"} /\ Tips(writes) = {i \in {1} : w.write = "tip"}
<1>1. DOMAIN writes = 1 .. 1 /\ writes[1] = w
  BY OneOf
<1>2. 1 .. 1 = {1}
  OBVIOUS
<1>3. QED BY <1>1, <1>2 DEF Written, Tips

\* What a new entry n behind these tips asks of the history variables.
Counted(lane, n, l, v) ==
  /\ astray \subseteq astray'
  /\ Agree(native, entries, l, v) \/ n \in astray'
  /\ Agree(native, entries, l, v) \/ lane \in aside'

\* An entry is accepted.
LEMMA AcceptLands ==
  ASSUME NEW lane, NEW l, NEW v, Stands(lane, l, v), NEW n, n = Len(native) + 1, UNCHANGED asideVars,
         Commit(lane, <<RecordWrite(n, Raw("custom", Unplaced, lane))>>)
  PROVE  Lands(lane, l, Id(n)) /\ Behind(entries, entries', v, Id(n))
<1>1. PICK raw, w, writes : /\ raw = Raw("custom", Unplaced, lane) /\ w = RecordWrite(n, raw)
                            /\ writes = <<w>>
  OBVIOUS
<1>2. raw.type = "custom" /\ raw.parentId = Unplaced /\ raw.retainedTail = <<>> /\ <<>> \in Seq(Spoken)
  BY <1>1 DEF Raw
<1>3. Commit(lane, writes)
  BY <1>1
<1>4. w.write = "entry" /\ w.n = n /\ w.raw = raw
  BY <1>1, WriteKinds
<1>5. writes[1] = w /\ Written(writes) = {1} /\ Tips(writes) = {}
  BY <1>1, <1>4, OnlyOne
<1>6. Id(n) \notin IdsOf(entries) /\ IsNative(native)
  BY NextIsNew
<1>7. OneRecord(writes, n, raw)
  BY <1>4, <1>5 DEF OneRecord
<1>8. Appends(native, n, raw, native')
  BY <1>2, <1>3, <1>6, <1>7, CommitAppends
<1>9. PICK new : new = entries \o <<Shown(Id(n), "custom", v, <<>>, None)>>
  OBVIOUS
<1>10. ProjectAll(Start(lane), writes) = Pos(new, Id(n), l, {})
  <2>1. Start(lane) = Pos(entries, v, l, {})
    BY StartIs
  <2>2. ProjectAll(Start(lane), writes) = Project(Pos(entries, v, l, {}), w)
    BY <1>1, <2>1, ProjectOne
  <2>3. Project(Pos(entries, v, l, {}), RecordWrite(n, raw)) = Pos(new, Id(n), l, {})
    BY <1>2, <1>6, <1>9, ProjectAccepted
  <2>4. QED BY <1>1, <2>2, <2>3
<1>11. entries' = new /\ position' = [position EXCEPT ![lane] = [nativeTip |-> l, visibleTip |-> Id(n)]]
  BY <1>3, <1>10, CommitEnds
<1>12. tip' = [tip EXCEPT ![lane] = l]
  <2>1. tip' = tip
    BY <1>3, <1>5, CommitTips
  <2>2. QED BY <2>1, StartIs
<1>13. /\ Onward(native, entries, native', entries', astray)
       /\ Follow(native, entries, l, v, native', entries', l, Id(n))
       /\ Behind(entries, entries', v, Id(n))
  BY <1>2, <1>8, <1>9, <1>11, Accepts DEF Stands
<1>14. aside' = aside /\ astray' = astray
  BY DEF asideVars
<1>15. QED BY <1>11, <1>12, <1>13, <1>14 DEF Lands, Follow, Stands

\* Metadata changes.
LEMMA DescribeLands ==
  ASSUME NEW lane, NEW l, NEW v, Stands(lane, l, v), UNCHANGED asideVars, Commit(lane, <<MetadataWrite>>)
  PROVE  \E id : Lands(lane, l, id) /\ Behind(entries, entries', v, id)
<1>1. PICK w, writes : w = MetadataWrite /\ writes = <<w>>
  OBVIOUS
<1>2. Commit(lane, writes)
  BY <1>1
<1>3. w.write = "metadata"
  BY <1>1, WriteKinds
<1>4. Written(writes) = {} /\ Tips(writes) = {}
  BY <1>1, <1>3, OnlyOne
<1>5. IsNative(native) /\ IsHistory(entries)
  BY DEF Stands, Whole
<1>6. native' = native
  BY <1>2, <1>4, <1>5, CommitKeeps
<1>7. PICK id, new : /\ id = <<0, Cardinality(MetaOf(entries)) + 1>>
                     /\ new = entries \o <<Shown(id, "metadata", v, <<>>, None)>>
  OBVIOUS
<1>8. ProjectAll(Start(lane), writes) = Pos(new, id, l, {})
  <2>1. Start(lane) = Pos(entries, v, l, {})
    BY StartIs
  <2>2. ProjectAll(Start(lane), writes) = Project(Pos(entries, v, l, {}), w)
    BY <1>1, <2>1, ProjectOne
  <2>3. Project(Pos(entries, v, l, {}), MetadataWrite) = Pos(new, id, l, {})
    BY <1>5, <1>7, ProjectMetadata
  <2>4. QED BY <1>1, <2>2, <2>3
<1>9. entries' = new /\ position' = [position EXCEPT ![lane] = [nativeTip |-> l, visibleTip |-> id]]
  BY <1>2, <1>8, CommitEnds
<1>10. tip' = [tip EXCEPT ![lane] = l]
  <2>1. tip' = tip
    BY <1>2, <1>4, CommitTips
  <2>2. QED BY <2>1, StartIs
<1>11. /\ Onward(native, entries, native', entries', astray)
       /\ Follow(native, entries, l, v, native', entries', l, id)
       /\ Behind(entries, entries', v, id)
  BY <1>6, <1>7, <1>9, Describes DEF Stands
<1>12. aside' = aside /\ astray' = astray
  BY DEF asideVars
<1>13. QED BY <1>9, <1>10, <1>11, <1>12 DEF Lands, Follow, Stands

\* A new entry and the tip on it.
Recorded(lane, n, raw, new) ==
  /\ Appends(native, n, raw, native') /\ entries' = new
  /\ tip' = [tip EXCEPT ![lane] = Id(n)]
  /\ position' = [position EXCEPT ![lane] = [nativeTip |-> Id(n), visibleTip |-> Id(n)]]
LEMMA RecordAndTip ==
  ASSUME NEW lane, NEW l, NEW v, Stands(lane, l, v), NEW n, n = Len(native) + 1, NEW raw,
         raw.retainedTail \in Seq(Spoken), NEW writes, writes = <<RecordWrite(n, raw), TipWrite(Id(n))>>,
         Commit(lane, writes),
         NEW new, Project(Pos(entries, v, l, {}), RecordWrite(n, raw)) = Pos(new, Id(n), Id(n), {Id(n)})
  PROVE  Recorded(lane, n, raw, new)
<1>1. PICK a, b, id : a = RecordWrite(n, raw) /\ b = TipWrite(id) /\ id = Id(n)
  OBVIOUS
<1>2. a.write = "entry" /\ a.n = n /\ a.raw = raw /\ b.write = "tip" /\ b.next = id
  BY <1>1, WriteKinds
<1>3. writes = <<a, b>>
  BY <1>1
<1>4. DOMAIN writes = {1, 2} /\ writes[1] = a /\ writes[2] = b
  <2>1. DOMAIN writes = 1 .. 2 /\ writes[1] = a /\ writes[2] = b
    BY <1>3
  <2>2. 1 .. 2 = {1, 2}
    OBVIOUS
  <2>3. QED BY <2>1, <2>2
<1>5. Written(writes) = {1} /\ Tips(writes) = {2}
  BY <1>2, <1>4 DEF Written, Tips
<1>6. Appends(native, n, raw, native')
  <2>1. OneRecord(writes, n, raw)
    BY <1>2, <1>4, <1>5 DEF OneRecord
  <2>2. IsNative(native)
    BY NextIsNew
  <2>3. QED BY <2>1, <2>2, CommitAppends
<1>7. tip' = [tip EXCEPT ![lane] = id]
  <2>1. 2 \in Tips(writes) /\ \A j \in Tips(writes) : j \in Int /\ j <= 2
    BY <1>5
  <2>2. tip' = [tip EXCEPT ![lane] = writes[2].next]
    BY <2>1, CommitTips
  <2>3. QED BY <1>2, <1>4, <2>2
<1>8. ProjectAll(Start(lane), writes) = Pos(new, id, id, {id})
  <2>1. Start(lane) = Pos(entries, v, l, {})
    BY StartIs
  <2>2. ProjectAll(Start(lane), writes) = Project(Project(Pos(entries, v, l, {}), a), b)
    BY <1>3, <2>1, ProjectTwo
  <2>3. Project(Pos(entries, v, l, {}), a) = Pos(new, id, id, {id})
    BY <1>1
  <2>4. Project(Pos(new, id, id, {id}), b) = Pos(new, id, id, {id})
    <3>1. Project(Pos(new, id, id, {id}), TipWrite(id)) = Pos(new, IF id \in {id} THEN id ELSE id, id, {id})
      BY ProjectTip
    <3>2. QED BY <1>1, <3>1
  <2>5. QED BY <2>2, <2>3, <2>4
<1>9. entries' = new /\ position' = [position EXCEPT ![lane] = [nativeTip |-> id, visibleTip |-> id]]
  BY <1>8, CommitEnds
<1>10. QED BY <1>1, <1>6, <1>7, <1>9 DEF Recorded

\* A message.
LEMMA RecordLands ==
  ASSUME NEW lane, NEW l, NEW v, Stands(lane, l, v), NEW n, n = Len(native) + 1, NEW raw, Counted(lane, n, l, v),
         raw.retainedTail \in Seq(Spoken), raw.parentId = l, raw.type \notin {"compaction", "custom", "metadata"},
         Commit(lane, <<RecordWrite(n, raw), TipWrite(Id(n))>>)
  PROVE  Lands(lane, Id(n), Id(n))
<1>1. PICK new, writes : /\ new = entries \o <<Shown(Id(n), raw.type, v, Says(n, raw.type), None)>>
                         /\ writes = <<RecordWrite(n, raw), TipWrite(Id(n))>>
  OBVIOUS
<1>2. Commit(lane, writes)
  BY <1>1
<1>3. Id(n) \notin IdsOf(entries) /\ l # Unplaced
  BY NextIsNew
<1>4. PICK M : M = {}
  OBVIOUS
<1>5. Project(Pos(entries, v, l, M), RecordWrite(n, raw)) = Pos(new, Id(n), Id(n), M \cup {Id(n)})
  BY <1>1, <1>3, ProjectPlaced
<1>6. Project(Pos(entries, v, l, {}), RecordWrite(n, raw)) = Pos(new, Id(n), Id(n), {Id(n)})
  <2>1. M \cup {Id(n)} = {Id(n)}
    BY <1>4
  <2>2. QED BY <1>4, <1>5, <2>1
<1>7. /\ Appends(native, n, raw, native') /\ entries' = new
      /\ tip' = [tip EXCEPT ![lane] = Id(n)]
      /\ position' = [position EXCEPT ![lane] = [nativeTip |-> Id(n), visibleTip |-> Id(n)]]
  <2>1. Recorded(lane, n, raw, new)
    BY <1>1, <1>2, <1>6, RecordAndTip
  <2>2. QED BY <2>1 DEF Recorded
<1>8. /\ Onward(native, entries, native', entries', astray')
      /\ Follow(native, entries, l, v, native', entries', Id(n), Id(n))
  BY <1>1, <1>7, RecordsOnTip DEF Stands, Counted
<1>9. QED BY <1>7, <1>8 DEF Lands, Follow, Counted

\* A compaction.
LEMMA CompactLands ==
  ASSUME NEW lane, NEW l, NEW v, Stands(lane, l, v), NEW n, n = Len(native) + 1, NEW raw, UNCHANGED astray,
         raw.parentId = l, raw.type = "compaction", KeepsOf(raw, VisibleBranch(entries, v)),
         Commit(lane, <<RecordWrite(n, raw), TipWrite(Id(n))>>)
  PROVE  Lands(lane, Id(n), Id(n))
<1>1. PICK new, writes : /\ new = entries \o ProjectCompaction(n, raw, v, VisibleBranch(entries, v))
                         /\ writes = <<RecordWrite(n, raw), TipWrite(Id(n))>>
  OBVIOUS
<1>2. Commit(lane, writes)
  BY <1>1
<1>3. Id(n) \notin IdsOf(entries) /\ l # Unplaced
  BY NextIsNew
<1>4. PICK M : M = {}
  OBVIOUS
<1>5. Project(Pos(entries, v, l, M), RecordWrite(n, raw)) = Pos(new, Id(n), Id(n), M \cup {Id(n)})
  BY <1>1, <1>3, ProjectCompacted
<1>6. Project(Pos(entries, v, l, {}), RecordWrite(n, raw)) = Pos(new, Id(n), Id(n), {Id(n)})
  <2>1. M \cup {Id(n)} = {Id(n)}
    BY <1>4
  <2>2. QED BY <1>4, <1>5, <2>1
<1>7. raw.retainedTail \in Seq(Spoken)
  BY DEF KeepsOf
<1>8. /\ Appends(native, n, raw, native') /\ entries' = new
      /\ tip' = [tip EXCEPT ![lane] = Id(n)]
      /\ position' = [position EXCEPT ![lane] = [nativeTip |-> Id(n), visibleTip |-> Id(n)]]
  <2>1. Recorded(lane, n, raw, new)
    BY <1>1, <1>2, <1>6, <1>7, RecordAndTip
  <2>2. QED BY <2>1 DEF Recorded
<1>9. Onward(native, entries, native', entries', astray') /\ Agree(native', entries', Id(n), Id(n))
  BY <1>1, <1>8, CompactsTip DEF Stands
<1>10. QED BY <1>8, <1>9 DEF Lands, Standing, Agree

\* A navigation.
LEMMA TipLands ==
  ASSUME NEW lane, NEW l, NEW v, Stands(lane, l, v), NEW x, Standing(native, entries, x, x),
         lane \in aside' \/ Agree(native, entries, x, x), UNCHANGED astray,
         Commit(lane, <<TipWrite(x)>>)
  PROVE  Lands(lane, x, x)
<1>1. PICK w, writes : w = TipWrite(x) /\ writes = <<w>>
  OBVIOUS
<1>2. Commit(lane, writes)
  BY <1>1
<1>3. w.write = "tip" /\ w.next = x
  BY <1>1, WriteKinds
<1>4. writes[1] = w /\ Written(writes) = {} /\ Tips(writes) = {1}
  BY <1>1, <1>3, OnlyOne
<1>5. IsNative(native) /\ IsHistory(entries)
  BY NextIsNew
<1>6. native' = native
  BY <1>2, <1>4, <1>5, CommitKeeps
<1>7. tip' = [tip EXCEPT ![lane] = x]
  <2>1. 1 \in Tips(writes) /\ \A j \in Tips(writes) : j \in Int /\ j <= 1
    BY <1>4
  <2>2. tip' = [tip EXCEPT ![lane] = writes[1].next]
    BY <1>2, <2>1, CommitTips
  <2>3. QED BY <1>3, <1>4, <2>2
<1>8. ProjectAll(Start(lane), writes) = Pos(entries, x, x, {})
  <2>1. Start(lane) = Pos(entries, v, l, {})
    BY StartIs
  <2>2. ProjectAll(Start(lane), writes) = Project(Pos(entries, v, l, {}), w)
    BY <1>1, <2>1, ProjectOne
  <2>3. PICK M : M = {}
    OBVIOUS
  <2>4. Project(Pos(entries, v, l, M), TipWrite(x)) = Pos(entries, IF x \in M THEN v ELSE x, x, M)
    BY ProjectTip
  <2>5. (IF x \in M THEN v ELSE x) = x
    BY <2>3
  <2>6. QED BY <1>1, <2>2, <2>3, <2>4, <2>5
<1>9. entries' = entries /\ position' = [position EXCEPT ![lane] = [nativeTip |-> x, visibleTip |-> x]]
  BY <1>2, <1>8, CommitEnds
<1>10. Onward(native, entries, native, entries, astray)
  <2>1. ListOn(entries, entries)
    BY <1>5, ListGoesNowhere
  <2>2. QED BY <2>1 DEF Onward, Stands
<1>11. QED BY <1>6, <1>7, <1>9, <1>10 DEF Lands

\* With a summary of the branch left behind.
LEMMA TipRecordLands ==
  ASSUME NEW lane, NEW l, NEW v, Stands(lane, l, v), NEW x, Standing(native, entries, x, x),
         NEW n, n = Len(native) + 1, Counted(lane, n, x, x), NEW raw,
         raw.retainedTail \in Seq(Spoken), raw.parentId = x, raw.type \notin {"compaction", "custom", "metadata"},
         Commit(lane, <<TipWrite(x), RecordWrite(n, raw), TipWrite(Id(n))>>)
  PROVE  Lands(lane, Id(n), Id(n))
<1>1. PICK a, b, c, id, writes : /\ a = TipWrite(x) /\ b = RecordWrite(n, raw) /\ c = TipWrite(id) /\ id = Id(n)
                                 /\ writes = <<a, b, c>>
  OBVIOUS
<1>2. Commit(lane, writes)
  BY <1>1
<1>3. /\ a.write = "tip" /\ a.next = x /\ b.write = "entry" /\ b.n = n /\ b.raw = raw
      /\ c.write = "tip" /\ c.next = id
  BY <1>1, WriteKinds
<1>4. DOMAIN writes = {1, 2, 3} /\ writes[1] = a /\ writes[2] = b /\ writes[3] = c
  <2>1. DOMAIN writes = 1 .. 3 /\ writes[1] = a /\ writes[2] = b /\ writes[3] = c
    BY <1>1
  <2>2. 1 .. 3 = {1, 2, 3}
    OBVIOUS
  <2>3. QED BY <2>1, <2>2
<1>5. Written(writes) = {2} /\ Tips(writes) = {1, 3}
  BY <1>3, <1>4 DEF Written, Tips
<1>6. IsNative(native) /\ IsHistory(entries) /\ id \notin IdsOf(entries)
  BY <1>1, NextIsNew
<1>7. Appends(native, n, raw, native')
  <2>1. OneRecord(writes, n, raw)
    BY <1>3, <1>4, <1>5 DEF OneRecord
  <2>2. QED BY <1>2, <1>6, <2>1, CommitAppends
<1>8. tip' = [tip EXCEPT ![lane] = id]
  <2>1. 3 \in Tips(writes) /\ \A j \in Tips(writes) : j \in Int /\ j <= 3
    BY <1>5
  <2>2. tip' = [tip EXCEPT ![lane] = writes[3].next]
    BY <1>2, <2>1, CommitTips
  <2>3. QED BY <1>3, <1>4, <2>2
<1>9. PICK new, M : /\ new = entries \o <<Shown(Id(n), raw.type, x, Says(n, raw.type), None)>>
                    /\ M = {}
  OBVIOUS
<1>10. ProjectAll(Start(lane), writes) = Pos(new, id, id, {id})
  <2>1. Start(lane) = Pos(entries, v, l, M)
    BY <1>9, StartIs
  <2>2. ProjectAll(Start(lane), writes) = Project(Project(Project(Pos(entries, v, l, M), a), b), c)
    BY <1>1, <2>1, ProjectThree
  <2>3. Project(Pos(entries, v, l, M), a) = Pos(entries, x, x, M)
    <3>1. Project(Pos(entries, v, l, M), TipWrite(x)) = Pos(entries, IF x \in M THEN v ELSE x, x, M)
      BY ProjectTip
    <3>2. (IF x \in M THEN v ELSE x) = x
      BY <1>9
    <3>3. QED BY <1>1, <3>1, <3>2
  <2>4. Project(Pos(entries, x, x, M), b) = Pos(new, id, id, {id})
    <3>1. x # Unplaced
      <4>1. x \in Nodes(native) \cup {None}
        BY DEF Standing
      <4>2. QED BY <1>6, <4>1, NoneIsPlaced
    <3>2. Id(n) \notin IdsOf(entries) /\ raw.parentId # Unplaced /\ raw.type # "compaction"
      BY <1>1, <1>6, <3>1
    <3>3. Project(Pos(entries, x, x, M), RecordWrite(n, raw)) = Pos(new, Id(n), Id(n), M \cup {Id(n)})
      BY <1>9, <3>2, ProjectPlaced
    <3>4. M \cup {Id(n)} = {Id(n)}
      BY <1>9
    <3>5. QED BY <1>1, <3>3, <3>4
  <2>5. Project(Pos(new, id, id, {id}), c) = Pos(new, id, id, {id})
    <3>1. Project(Pos(new, id, id, {id}), TipWrite(id)) = Pos(new, IF id \in {id} THEN id ELSE id, id, {id})
      BY ProjectTip
    <3>2. QED BY <1>1, <3>1
  <2>6. QED BY <2>2, <2>3, <2>4, <2>5
<1>11. entries' = new /\ position' = [position EXCEPT ![lane] = [nativeTip |-> id, visibleTip |-> id]]
  BY <1>2, <1>10, CommitEnds
<1>12. /\ Onward(native, entries, native', entries', astray')
       /\ Follow(native, entries, x, x, native', entries', Id(n), Id(n))
  BY <1>7, <1>9, <1>11, RecordsOnTip DEF Stands, Counted
<1>13. QED BY <1>1, <1>8, <1>11, <1>12 DEF Lands, Follow, Counted

\* The writes that place an inbox, and others behind them.
Placing(lane, l, ns) ==
  [i \in DOMAIN ns |-> RecordWrite(ns[i], Raw("custom", IF i = 1 THEN l ELSE Id(ns[i - 1]), lane))]
PlacedFirst(writes, lane, l, ns, rest) ==
  /\ DrainedAs(writes, lane, l, ns) /\ Len(ns) \in Nat \ {0} /\ DOMAIN ns = 1 .. Len(ns) /\ Len(rest) \in Nat
  /\ DOMAIN writes = 1 .. Len(ns) + Len(rest) /\ DOMAIN rest = 1 .. Len(rest)
  /\ \A j \in 1 .. Len(rest) : writes[Len(ns) + j] = rest[j]

LEMMA PlacingIs ==
  ASSUME NEW lane, NEW l, NEW ns, NEW waiting, Lists(ns, waiting), NEW rest, IsSequence(rest),
         NEW writes, writes = Placing(lane, l, ns) \o rest
  PROVE  PlacedFirst(writes, lane, l, ns, rest)
<1>1. PICK d, k : d = Placing(lane, l, ns) /\ k = Len(ns)
  OBVIOUS
<1>2. k \in Nat \ {0} /\ DOMAIN ns = 1 .. k
  BY <1>1 DEF Lists
<1>3. /\ d = [i \in 1 .. k |-> d[i]] /\ DOMAIN d = 1 .. k
      /\ \A i \in 1 .. k : d[i] = RecordWrite(ns[i], Raw("custom", IF i = 1 THEN l ELSE Id(ns[i - 1]), lane))
  BY <1>1, <1>2 DEF Placing
<1>4. IsSequence(d) /\ Len(d) = k
  BY <1>2, <1>3, FunctionIsSequence
<1>5. IsJoin(d, rest, writes)
  <2>1. PICK S : S = {d[i] : i \in DOMAIN d} \cup {rest[i] : i \in DOMAIN rest}
    OBVIOUS
  <2>2. d \in Seq({d[i] : i \in DOMAIN d}) /\ rest \in Seq({rest[i] : i \in DOMAIN rest})
    BY <1>4 DEF IsSequence
  <2>3. {d[i] : i \in DOMAIN d} \subseteq S /\ {rest[i] : i \in DOMAIN rest} \subseteq S
    BY <2>1
  <2>4. d \in Seq(S) /\ rest \in Seq(S)
    BY <2>2, <2>3, SeqMonotonic
  <2>5. QED BY <1>1, <2>4, JoinIs
<1>6. /\ Len(rest) \in Nat /\ DOMAIN rest = 1 .. Len(rest) /\ DOMAIN writes = 1 .. k + Len(rest)
      /\ \A i \in 1 .. k : writes[i] = d[i]
      /\ \A j \in 1 .. Len(rest) : writes[k + j] = rest[j]
  BY <1>4, <1>5 DEF IsJoin
<1>7. DrainedAs(writes, lane, l, ns)
  <2>1. \A i \in 1 .. k : i \in 1 .. k + Len(rest)
    BY <1>2, <1>6
  <2>2. QED BY <1>2, <1>3, <1>6, <2>1 DEF DrainedAs
<1>8. QED BY <1>1, <1>2, <1>6, <1>7 DEF PlacedFirst

\* Placing an inbox moves only the native tip.
IdsTo(ns, i) == {Id(ns[j]) : j \in 1 .. i}
TipAt(l, ns, i) == IF i = 0 THEN l ELSE Id(ns[i])
ProjectedTo(f, list, v, l, ns, k) ==
  {i \in Nat : i <= k => f[i] = Pos(list, v, TipAt(l, ns, i), IdsTo(ns, i))}

DrainProjected(f, list, v, ns, k) ==
  f[k] = Pos(list, v, Id(ns[k]), IdsTo(ns, k)) /\ Id(ns[k]) \in IdsTo(ns, k)
LEMMA DrainProjects ==
  ASSUME NEW lane, NEW l, l # Unplaced, NEW v, NEW list, NEW ns, NEW rest, NEW writes,
         PlacedFirst(writes, lane, l, ns, rest), \A i \in DOMAIN ns : Id(ns[i]) \in IdsOf(list),
         NEW f, NEW m \in Nat, Len(ns) <= m, Projects(f, Pos(list, v, l, {}), writes, m), NEW k, k = Len(ns)
  PROVE  DrainProjected(f, list, v, ns, k)
<1>1. k \in Nat \ {0} /\ DOMAIN ns = 1 .. k
  BY DEF PlacedFirst
<1>2. f[0] = Pos(list, v, l, {}) /\ \A i \in 1 .. m : f[i] = Project(f[i - 1], writes[i])
  BY DEF Projects
<1> DEFINE S == ProjectedTo(f, list, v, l, ns, k)
<1>3. 0 \in S
  <2>1. IdsTo(ns, 0) = {} /\ TipAt(l, ns, 0) = l
    BY DEF IdsTo, TipAt
  <2>2. QED BY <1>2, <2>1 DEF ProjectedTo
<1>4. ASSUME NEW i \in S
      PROVE  i + 1 \in S
  <2>1. i \in Nat /\ (i <= k => f[i] = Pos(list, v, TipAt(l, ns, i), IdsTo(ns, i)))
    BY DEF ProjectedTo
  <2>2. PICK j : j = i + 1
    OBVIOUS
  <2>3. j \in Nat /\ j # 0 /\ j - 1 = i
    BY <2>1, <2>2
  <2>4. ASSUME j <= k
        PROVE  f[j] = Pos(list, v, TipAt(l, ns, j), IdsTo(ns, j))
    <3>1. i <= k /\ j \in 1 .. k /\ j \in 1 .. m
      BY <1>1, <2>1, <2>2, <2>4
    <3>2. PICK raw : raw = Raw("custom", IF j = 1 THEN l ELSE Id(ns[j - 1]), lane)
      OBVIOUS
    <3>3. writes[j] = RecordWrite(ns[j], raw)
      BY <1>1, <3>1, <3>2 DEF PlacedFirst, DrainedAs
    <3>4. raw.parentId # Unplaced
      <4>1. raw.parentId = IF j = 1 THEN l ELSE Id(ns[j - 1])
        BY <3>2 DEF Raw
      <4>2. Id(ns[j - 1]) # Unplaced
        <5>1. MaxMetadata + 1 # 0
          BY EntriesAssumption
        <5>2. QED BY <5>1 DEF Id, Unplaced
      <4>3. QED BY <4>1, <4>2
    <3>5. PICK t, M : t = TipAt(l, ns, i) /\ M = IdsTo(ns, i)
      OBVIOUS
    <3>6. f[j] = Project(Pos(list, v, t, M), RecordWrite(ns[j], raw))
      BY <1>2, <2>1, <2>3, <3>1, <3>3, <3>5
    <3>7. Project(Pos(list, v, t, M), RecordWrite(ns[j], raw)) = Pos(list, v, Id(ns[j]), M \cup {Id(ns[j])})
      <4>1. Id(ns[j]) \in IdsOf(list)
        BY <1>1, <3>1
      <4>2. QED BY <3>4, <4>1, ProjectShown
    <3>8. M \cup {Id(ns[j])} = IdsTo(ns, j)
      <4>1. 1 .. j = 1 .. i \cup {j}
        BY <2>1, <2>2
      <4>2. QED BY <3>5, <4>1 DEF IdsTo
    <3>9. TipAt(l, ns, j) = Id(ns[j])
      BY <2>3 DEF TipAt
    <3>10. QED BY <3>6, <3>7, <3>8, <3>9
  <2>5. QED BY <2>2, <2>3, <2>4 DEF ProjectedTo
<1>5. S = Nat
  <2>1. S \subseteq Nat
    BY DEF ProjectedTo
  <2> HIDE DEF S
  <2>2. QED BY <1>3, <1>4, <2>1, NatSets
<1>6. k <= k /\ k # 0 /\ k \in 1 .. k
  BY <1>1
<1>7. f[k] = Pos(list, v, TipAt(l, ns, k), IdsTo(ns, k))
  <2>1. k \in ProjectedTo(f, list, v, l, ns, k)
    BY <1>1, <1>5
  <2>2. QED BY <1>6, <2>1 DEF ProjectedTo
<1>8. TipAt(l, ns, k) = Id(ns[k])
  BY <1>6 DEF TipAt
<1>9. Id(ns[k]) \in IdsTo(ns, k)
  BY <1>6 DEF IdsTo
<1>10. QED BY <1>7, <1>8, <1>9 DEF DrainProjected

\* The inbox is drained.
LEMMA DrainLands ==
  ASSUME NEW lane, NEW l, NEW v, Stands(lane, l, v), NEW ns, Lists(ns, DOMAIN native \ Placed(native)),
         NEW k, k = Len(ns), UNCHANGED asideVars,
         Commit(lane, Placing(lane, l, ns) \o <<TipWrite(Id(ns[k]))>>)
  PROVE  Lands(lane, Id(ns[k]), v)
<1>1. PICK t, rest, writes, id : /\ id = Id(ns[k]) /\ t = TipWrite(id) /\ rest = <<t>>
                                 /\ writes = Placing(lane, l, ns) \o rest
  OBVIOUS
<1>2. Commit(lane, writes)
  BY <1>1
<1>3. IsSequence(rest) /\ Len(rest) = 1 /\ rest[1] = t
  BY <1>1, OneOf
<1>4. PlacedFirst(writes, lane, l, ns, rest)
  BY <1>1, <1>3, PlacingIs
<1>5. k \in Nat \ {0} /\ DOMAIN ns = 1 .. k /\ DOMAIN writes = 1 .. k + 1 /\ writes[k + 1] = t
      /\ DrainedAs(writes, lane, l, ns)
  <2>1. 1 \in 1 .. 1
    OBVIOUS
  <2>2. QED BY <1>3, <1>4, <2>1 DEF PlacedFirst
<1>6. t.write = "tip" /\ t.next = id /\ \A i \in DOMAIN ns : writes[i].write = "entry"
  BY <1>1, <1>5, WriteKinds DEF DrainedAs
<1>7. \A i \in 1 .. k + 1 : i \in 1 .. k \/ i = k + 1
  BY <1>5
<1>8. k + 1 \notin 1 .. k /\ k + 1 \in 1 .. k + 1 /\ \A i \in 1 .. k : i \in 1 .. k + 1
  BY <1>5
<1>9. Written(writes) = DOMAIN ns /\ Tips(writes) = {k + 1}
  BY <1>5, <1>6, <1>7, <1>8 DEF Written, Tips
<1>10. IsNative(native) /\ IsHistory(entries) /\ l # Unplaced /\ l \in Nodes(native) \cup {None}
  BY NextIsNew
<1>11. Drains(native, l, ns, native')
  BY <1>2, <1>5, <1>9, <1>10, CommitDrains
<1>12. tip' = [tip EXCEPT ![lane] = id]
  <2>1. k + 1 \in Tips(writes) /\ \A j \in Tips(writes) : j \in Int /\ j <= k + 1
    BY <1>5, <1>9
  <2>2. tip' = [tip EXCEPT ![lane] = writes[k + 1].next]
    BY <1>2, <2>1, CommitTips
  <2>3. QED BY <1>5, <1>6, <2>2
<1>13. ProjectAll(Start(lane), writes) = Pos(entries, v, id, IdsTo(ns, k))
  <2>1. Start(lane) = Pos(entries, v, l, {})
    BY StartIs
  <2>2. PICK m : m = k + 1
    OBVIOUS
  <2>3. m \in Nat /\ DOMAIN writes = 1 .. m /\ Len(ns) <= m /\ m \in 1 .. m /\ m - 1 = k
    BY <1>5, <2>2
  <2>4. PICK f : Projects(f, Pos(entries, v, l, {}), writes, m) /\ f[m] = ProjectAll(Start(lane), writes)
    BY <2>1, <2>3, ProjectAllIs
  <2>5. \A i \in DOMAIN ns : Id(ns[i]) \in IdsOf(entries)
    BY DEF Stands, Whole, Lists
  <2>6. f[k] = Pos(entries, v, id, IdsTo(ns, k)) /\ id \in IdsTo(ns, k)
    <3>1. DrainProjected(f, entries, v, ns, k)
      BY <1>4, <1>10, <2>3, <2>4, <2>5, DrainProjects
    <3>2. QED BY <1>1, <3>1 DEF DrainProjected
  <2>7. f[m] = Project(f[k], t)
    BY <1>5, <2>2, <2>3, <2>4 DEF Projects
  <2>8. Project(Pos(entries, v, id, IdsTo(ns, k)), TipWrite(id))
        = Pos(entries, IF id \in IdsTo(ns, k) THEN v ELSE id, id, IdsTo(ns, k))
    BY ProjectTip
  <2>9. QED BY <1>1, <2>4, <2>6, <2>7, <2>8
<1>14. entries' = entries /\ position' = [position EXCEPT ![lane] = [nativeTip |-> id, visibleTip |-> v]]
  BY <1>2, <1>13, CommitEnds
<1>15. k \in DOMAIN ns
  BY <1>5
<1>16. /\ Onward(native, entries, native', entries', astray)
       /\ Follow(native, entries, l, v, native', entries', Id(ns[k]), v)
  BY <1>11, <1>14, <1>15, DrainsInbox DEF Stands
<1>17. aside' = aside /\ astray' = astray
  BY DEF asideVars
<1>18. QED BY <1>1, <1>12, <1>14, <1>16, <1>17 DEF Lands, Follow, Stands

\* Together with a message.
LEMMA DrainRecordLands ==
  ASSUME NEW lane, NEW l, NEW v, Stands(lane, l, v), NEW ns, Lists(ns, DOMAIN native \ Placed(native)),
         NEW k, k = Len(ns), NEW n, n = Len(native) + 1, Counted(lane, n, l, v), NEW raw,
         raw.retainedTail \in Seq(Spoken), raw.parentId = Id(ns[k]),
         raw.type \notin {"compaction", "custom", "metadata"},
         Commit(lane, Placing(lane, l, ns) \o <<RecordWrite(n, raw), TipWrite(Id(n))>>)
  PROVE  Lands(lane, Id(n), Id(n))
<1>1. PICK r, t, rest, writes, below, id :
        /\ id = Id(n) /\ below = Id(ns[k]) /\ r = RecordWrite(n, raw) /\ t = TipWrite(id) /\ rest = <<r, t>>
        /\ writes = Placing(lane, l, ns) \o rest
  OBVIOUS
<1>2. Commit(lane, writes)
  BY <1>1
<1>3. IsSequence(rest) /\ Len(rest) = 2 /\ rest[1] = r /\ rest[2] = t
  <2>1. rest \in Seq({r, t}) /\ Len(rest) = 2 /\ rest[1] = r /\ rest[2] = t
    BY <1>1
  <2>2. QED BY <2>1, SequenceOf
<1>4. PlacedFirst(writes, lane, l, ns, rest)
  BY <1>1, <1>3, PlacingIs
<1>5. k \in Nat \ {0} /\ DOMAIN ns = 1 .. k /\ DOMAIN writes = 1 .. k + 2 /\ writes[k + 1] = r /\ writes[k + 2] = t
      /\ DrainedAs(writes, lane, l, ns)
  <2>1. 1 \in 1 .. 2 /\ 2 \in 1 .. 2
    OBVIOUS
  <2>2. QED BY <1>3, <1>4, <2>1 DEF PlacedFirst
<1>6. /\ r.write = "entry" /\ r.n = n /\ r.raw = raw /\ t.write = "tip" /\ t.next = id
      /\ \A i \in DOMAIN ns : writes[i].write = "entry"
  BY <1>1, <1>5, WriteKinds DEF DrainedAs
<1>7. \A i \in 1 .. k + 2 : i \in 1 .. k \/ i = k + 1 \/ i = k + 2
  BY <1>5
<1>8. /\ k + 1 \notin 1 .. k /\ k + 2 \notin 1 .. k /\ k + 1 # k + 2 /\ k + 1 \in 1 .. k + 2 /\ k + 2 \in 1 .. k + 2
      /\ \A i \in 1 .. k : i \in 1 .. k + 2
  BY <1>5
<1>9. Written(writes) = DOMAIN ns \cup {k + 1} /\ Tips(writes) = {k + 2}
  BY <1>5, <1>6, <1>7, <1>8 DEF Written, Tips
<1>10. IsNative(native) /\ IsHistory(entries) /\ l # Unplaced /\ l \in Nodes(native) \cup {None}
       /\ id \notin IdsOf(entries)
  BY <1>1, NextIsNew
<1>11. PICK mid : Drains(native, l, ns, mid) /\ Appends(mid, n, raw, native')
  <2>1. PICK h : h = k + 1
    OBVIOUS
  <2>2. h \in Written(writes) /\ h \notin DOMAIN ns /\ Written(writes) = DOMAIN ns \cup {h}
        /\ writes[h].n = n /\ writes[h].raw = raw
    BY <1>5, <1>6, <1>8, <1>9, <2>1
  <2>3. QED BY <1>2, <1>5, <1>10, <2>2, CommitDrainsAppends
<1>12. tip' = [tip EXCEPT ![lane] = id]
  <2>1. k + 2 \in Tips(writes) /\ \A j \in Tips(writes) : j \in Int /\ j <= k + 2
    BY <1>5, <1>9
  <2>2. tip' = [tip EXCEPT ![lane] = writes[k + 2].next]
    BY <1>2, <2>1, CommitTips
  <2>3. QED BY <1>5, <1>6, <2>2
<1>13. PICK new, M : /\ new = entries \o <<Shown(Id(n), raw.type, v, Says(n, raw.type), None)>>
                     /\ M = IdsTo(ns, k) \cup {id}
  OBVIOUS
<1>14. ProjectAll(Start(lane), writes) = Pos(new, id, id, M)
  <2>1. Start(lane) = Pos(entries, v, l, {})
    BY StartIs
  <2>2. PICK j, m : j = k + 1 /\ m = k + 2
    OBVIOUS
  <2>3. /\ m \in Nat /\ DOMAIN writes = 1 .. m /\ Len(ns) <= m /\ m \in 1 .. m /\ m - 1 = j
        /\ j \in 1 .. m /\ j - 1 = k
    BY <1>5, <2>2
  <2>4. PICK f : Projects(f, Pos(entries, v, l, {}), writes, m) /\ f[m] = ProjectAll(Start(lane), writes)
    BY <2>1, <2>3, ProjectAllIs
  <2>5. \A i \in DOMAIN ns : Id(ns[i]) \in IdsOf(entries)
    BY DEF Stands, Whole, Lists
  <2>6. f[k] = Pos(entries, v, below, IdsTo(ns, k))
    <3>1. DrainProjected(f, entries, v, ns, k)
      BY <1>4, <1>10, <2>3, <2>4, <2>5, DrainProjects
    <3>2. QED BY <1>1, <3>1 DEF DrainProjected
  <2>7. f[j] = Project(f[k], r) /\ f[m] = Project(f[j], t)
    BY <1>5, <2>2, <2>3, <2>4 DEF Projects
  <2>8. f[j] = Pos(new, id, id, M)
    <3>1. raw.parentId = below /\ below # Unplaced /\ raw.type # "compaction"
      <4>1. MaxMetadata + 1 # 0
        BY EntriesAssumption
      <4>2. below # Unplaced
        BY <1>1, <4>1 DEF Id, Unplaced
      <4>3. QED BY <1>1, <4>2
    <3>2. Id(n) \notin IdsOf(entries) /\ raw.parentId # Unplaced
      BY <1>1, <1>10, <3>1
    <3>3. Project(Pos(entries, v, below, IdsTo(ns, k)), RecordWrite(n, raw))
          = Pos(new, Id(n), Id(n), IdsTo(ns, k) \cup {Id(n)})
      BY <1>13, <3>1, <3>2, ProjectPlaced
    <3>4. QED BY <1>1, <1>13, <2>6, <2>7, <3>3
  <2>9. Project(Pos(new, id, id, M), TipWrite(id)) = Pos(new, IF id \in M THEN id ELSE id, id, M)
    BY ProjectTip
  <2>10. QED BY <1>1, <2>4, <2>7, <2>8, <2>9
<1>15. entries' = new /\ position' = [position EXCEPT ![lane] = [nativeTip |-> id, visibleTip |-> id]]
  BY <1>2, <1>14, CommitEnds
<1>16. Onward(native, entries, mid, entries, astray) /\ Follow(native, entries, l, v, mid, entries, below, v)
  <2>1. k \in DOMAIN ns
    BY <1>5
  <2>2. QED BY <1>1, <1>11, <2>1, DrainsInbox DEF Stands
<1>17. Onward(mid, entries, native', new, astray') /\ Follow(mid, entries, below, v, native', new, Id(n), Id(n))
  <2>1. Whole(mid, entries, astray)
    BY <1>16 DEF Onward
  <2>2. raw.parentId = below
    BY <1>1
  <2>3. Standing(mid, entries, below, v) /\ (Agree(mid, entries, below, v) \/ n \in astray')
    BY <1>16 DEF Follow, Counted
  <2>4. astray \subseteq astray'
    BY DEF Counted
  <2>5. QED BY <1>11, <1>13, <2>1, <2>2, <2>3, <2>4, RecordsOnTip
<1>18. Onward(native, entries, native', entries', astray')
  BY <1>15, <1>16, <1>17, OnwardTwice
<1>19. Standing(native', entries', id, id) /\ (lane \in aside' \/ Agree(native', entries', id, id))
  BY <1>1, <1>15, <1>16, <1>17 DEF Follow, Counted
<1>20. QED BY <1>1, <1>12, <1>15, <1>18, <1>19 DEF Lands

-----------------------------------------------------------------------------
(* What a hook has read.                                                   *)

SaidOf(list, branch, i) ==
  FlattenSeq([j \in 1 .. Len(branch) - i + 1 |-> Entry(list, branch[i + j - 1]).says])

\* The branch it has read begins the visible one, which has said nothing since.
Waits(list, h, v) ==
  /\ Len(h) \in Nat /\ DOMAIN h = 1 .. Len(h) /\ Len(h) <= Len(PathIds(list, v))
  /\ \A i \in 1 .. Len(h) : /\ h[i] = PathIds(list, v)[i]
                            /\ SaidOf(list, PathIds(list, v), i) = SaidOf(list, h, i)

LEMMA WaitsFirst ==
  ASSUME NEW list, IsHistory(list), NEW v \in IdsOf(list) \cup {None}
  PROVE  Waits(list, PathIds(list, v), v)
<1>1. PICK b : b = PathIds(list, v)
  OBVIOUS
<1>2. Len(b) \in Nat /\ DOMAIN b = 1 .. Len(b)
  BY <1>1, PathsAre
<1>3. QED BY <1>1, <1>2 DEF Waits

LEMMA SaidStays ==
  ASSUME NEW list, NEW new, ListOn(list, new), NEW q, Len(q) \in Nat,
         \A i \in 1 .. Len(q) : q[i] \in IdsOf(list), NEW i \in 1 .. Len(q)
  PROVE  SaidOf(new, q, i) = SaidOf(list, q, i)
<1>1. PICK n : n = Len(q) - i + 1
  OBVIOUS
<1>2. ASSUME NEW j \in 1 .. n
      PROVE  Entry(new, q[i + j - 1]).says = Entry(list, q[i + j - 1]).says
  <2>1. PICK m : m = i + j - 1
    OBVIOUS
  <2>2. m \in 1 .. Len(q)
    BY <1>1, <2>1
  <2>3. QED BY <2>1, <2>2 DEF ListOn
<1>3. [j \in 1 .. n |-> Entry(new, q[i + j - 1]).says] = [j \in 1 .. n |-> Entry(list, q[i + j - 1]).says]
  BY <1>2
<1>4. QED BY <1>1, <1>3 DEF SaidOf

LEMMA WaitsStays ==
  ASSUME NEW list, IsHistory(list), NEW new, ListOn(list, new), NEW v \in IdsOf(list) \cup {None},
         NEW h, Waits(list, h, v)
  PROVE  Waits(new, h, v)
<1>1. PICK b : b = PathIds(list, v)
  OBVIOUS
<1>2. PathIds(new, v) = b
  BY <1>1 DEF ListOn
<1>3. Len(b) \in Nat /\ DOMAIN b = 1 .. Len(b) /\ \A i \in 1 .. Len(b) : b[i] \in IdsOf(list)
  <2>1. Len(b) \in Nat /\ DOMAIN b = 1 .. Len(b) /\ b \in Seq(IdsOf(list))
    BY <1>1, PathsAre
  <2>2. QED BY <2>1, ElementOfSeq
<1>4. /\ Len(h) \in Nat /\ DOMAIN h = 1 .. Len(h) /\ Len(h) <= Len(b)
      /\ \A i \in 1 .. Len(h) : h[i] = b[i] /\ SaidOf(list, b, i) = SaidOf(list, h, i)
  BY <1>1 DEF Waits
<1>5. \A i \in 1 .. Len(h) : i \in 1 .. Len(b) /\ h[i] \in IdsOf(list)
  BY <1>3, <1>4
<1>6. ASSUME NEW i \in 1 .. Len(h)
      PROVE  SaidOf(new, b, i) = SaidOf(new, h, i)
  <2>1. SaidOf(new, b, i) = SaidOf(list, b, i)
    BY <1>3, <1>5, SaidStays
  <2>2. SaidOf(new, h, i) = SaidOf(list, h, i)
    BY <1>4, <1>5, SaidStays
  <2>3. QED BY <1>4, <2>1, <2>2
<1>7. QED BY <1>2, <1>4, <1>6 DEF Waits

LEMMA SaidIsTell ==
  ASSUME NEW list, IsHistory(list), NEW v \in IdsOf(list) \cup {None},
         NEW b, b = PathIds(list, v), NEW i \in 1 .. Len(b)
  PROVE  SaidOf(list, b, i) = Tell(VisibleBranch(list, v), i, Len(b))
<1>1. PICK n, path : n = Len(b) - i + 1 /\ path = VisibleBranch(list, v)
  OBVIOUS
<1>2. Len(b) \in Nat /\ \A k \in 1 .. Len(b) : path[k] = Entry(list, b[k])
  BY <1>1, PathsAre
<1>3. ASSUME NEW j \in 1 .. n
      PROVE  Entry(list, b[i + j - 1]).says = path[i + j - 1].says
  <2>1. PICK m : m = i + j - 1
    OBVIOUS
  <2>2. m \in 1 .. Len(b)
    BY <1>1, <1>2, <2>1
  <2>3. QED BY <1>2, <2>1, <2>2
<1>4. [j \in 1 .. n |-> Entry(list, b[i + j - 1]).says] = [j \in 1 .. n |-> path[i + j - 1].says]
  BY <1>3
<1>5. QED BY <1>1, <1>4 DEF SaidOf, Tell

\* What is shown behind it meanwhile says nothing.
LEMMA WaitsBehind ==
  ASSUME NEW list, IsHistory(list), NEW new, ListOn(list, new), NEW v \in IdsOf(list) \cup {None},
         NEW w, Behind(list, new, v, w), NEW h, Waits(list, h, v)
  PROVE  Waits(new, h, w)
<1>1. PICK b, r, m : b = PathIds(new, v) /\ r = PathIds(new, w) /\ m = Len(b)
  OBVIOUS
<1>2. IsHistory(new) /\ v \in IdsOf(new) \cup {None} /\ PathIds(list, v) = b
  BY <1>1 DEF ListOn
<1>3. w \in IdsOf(new) \cup {None} /\ Extended(b, w, r) /\ Entry(new, w).says = <<>>
  BY <1>1, <1>2 DEF Behind
<1>4. Waits(new, h, v)
  BY WaitsStays
<1>5. /\ Len(h) \in Nat /\ DOMAIN h = 1 .. Len(h) /\ Len(h) <= m
      /\ \A i \in 1 .. Len(h) : h[i] = b[i] /\ SaidOf(new, b, i) = SaidOf(new, h, i)
  BY <1>1, <1>4 DEF Waits
<1>6. /\ m \in Nat /\ Len(r) = m + 1 /\ DOMAIN b = 1 .. m /\ DOMAIN r = 1 .. m + 1
      /\ \A i \in 1 .. m : r[i] = b[i]
      /\ r[m + 1] = w
  BY <1>1, <1>3 DEF Extended
<1>7. PICK path, more, e : path = VisibleBranch(new, v) /\ more = VisibleBranch(new, w) /\ e = Entry(new, w)
  OBVIOUS
<1>8. Len(path) = m /\ DOMAIN path = 1 .. m /\ \A i \in 1 .. m : path[i] = Entry(new, b[i])
  BY <1>1, <1>2, <1>7, PathsAre
<1>9. Len(more) = m + 1 /\ DOMAIN more = 1 .. m + 1 /\ \A i \in 1 .. m + 1 : more[i] = Entry(new, r[i])
  BY <1>1, <1>2, <1>3, <1>6, <1>7, PathsAre
<1>10. Extended(path, e, more)
  <2>1. m + 1 \in 1 .. m + 1 /\ \A i \in 1 .. m : i \in 1 .. m + 1
    BY <1>6
  <2>2. \A i \in 1 .. m : more[i] = path[i]
    BY <1>6, <1>8, <1>9, <2>1
  <2>3. more[m + 1] = e
    BY <1>6, <1>7, <1>9, <2>1
  <2>4. QED BY <1>6, <1>8, <1>9, <2>2, <2>3 DEF Extended
<1>11. Speaks(path)
  BY <1>2, <1>7, VisibleSends
<1>12. e.says = <<>> /\ e.says \in Seq(Spoken)
  <2>1. <<>> \in Seq(Spoken)
    OBVIOUS
  <2>2. QED BY <1>3, <1>7, <2>1
<1>13. ASSUME NEW i \in 1 .. Len(h)
       PROVE  h[i] = r[i] /\ SaidOf(new, r, i) = SaidOf(new, h, i)
  <2>1. i \in 1 .. m /\ i \in 1 .. m + 1
    BY <1>5, <1>6
  <2>2. Tell(path, i, m) \in Seq(Spoken) /\ Tell(more, i, m + 1) = Tell(path, i, m) \o e.says
    BY <1>8, <1>10, <1>11, <1>12, <2>1, TellMore
  <2>3. PICK c : c = Tell(path, i, m)
    OBVIOUS
  <2>4. c \o <<>> = c
    BY <2>2, <2>3, ConcatEmptySeq
  <2>5. Tell(more, i, m + 1) = c
    BY <1>12, <2>2, <2>3, <2>4
  <2>6. SaidOf(new, b, i) = c
    BY <1>1, <1>2, <1>7, <2>1, <2>3, SaidIsTell
  <2>7. SaidOf(new, r, i) = Tell(more, i, m + 1)
    BY <1>1, <1>2, <1>3, <1>6, <1>7, <2>1, SaidIsTell
  <2>8. QED BY <1>5, <1>6, <2>1, <2>5, <2>6, <2>7
<1>14. Len(h) <= Len(r)
  BY <1>5, <1>6
<1>15. QED BY <1>1, <1>5, <1>13, <1>14 DEF Waits
-----------------------------------------------------------------------------
(* The invariant.                                                          *)

\* Both histories are whole and the tips of every lane that is not aside say the same in
\* them; what a hook has read is still there.
Waited(lane) == Idle(lane) \/ Waits(entries, hook[lane], position[lane].visibleTip)
HistoryInv ==
  /\ Positions /\ hook = [lane \in Lanes |-> hook[lane]]
  /\ Whole(native, entries, astray)
  /\ \A lane \in Lanes :
       /\ Standing(native, entries, tip[lane], position[lane].visibleTip)
       /\ lane \in aside \/ Agree(native, entries, tip[lane], position[lane].visibleTip)
       /\ Waited(lane)

LEMMA LaneStands ==
  ASSUME HistoryInv, NEW lane \in Lanes, NEW l, NEW v, l = tip[lane], v = position[lane].visibleTip
  PROVE  Stands(lane, l, v)
  BY DEF HistoryInv, Stands

\* A commit of one lane keeps it, when that lane's hook still has what it has read.
LaneWaits(lane, v) == hook'[lane] = NoHook \/ Waits(entries', hook'[lane], v)
HookOf(lane) ==
  hook' = [x \in Lanes |-> hook'[x]] /\ \A x \in Lanes \ {lane} : hook'[x] = hook[x]

LEMMA LandsKeeps ==
  ASSUME HistoryInv, NEW lane \in Lanes, NEW l, NEW v, Lands(lane, l, v), HookOf(lane), LaneWaits(lane, v),
         aside \ {lane} \subseteq aside'
  PROVE  HistoryInv'
<1>1. /\ tip = [x \in Lanes |-> tip[x]] /\ position = [x \in Lanes |-> position[x]]
      /\ \A x \in Lanes : position[x].nativeTip = tip[x]
      /\ Whole(native, entries, astray)
  BY DEF HistoryInv, Positions
<1>2. /\ Onward(native, entries, native', entries', astray') /\ Standing(native', entries', l, v)
      /\ lane \in aside' \/ Agree(native', entries', l, v)
      /\ tip' = [tip EXCEPT ![lane] = l]
      /\ position' = [position EXCEPT ![lane] = [nativeTip |-> l, visibleTip |-> v]]
  BY DEF Lands
<1>3. /\ tip' = [x \in Lanes |-> tip'[x]] /\ tip'[lane] = l
      /\ \A x \in Lanes \ {lane} : tip'[x] = tip[x]
  BY <1>1, <1>2
<1>4. /\ position' = [x \in Lanes |-> position'[x]]
      /\ position'[lane] = [nativeTip |-> l, visibleTip |-> v]
      /\ \A x \in Lanes \ {lane} : position'[x] = position[x]
  BY <1>1, <1>2
<1>5. position'[lane].nativeTip = l /\ position'[lane].visibleTip = v
  BY <1>4
<1>6. Positions'
  <2>1. \A x \in Lanes : position'[x].nativeTip = tip'[x]
    BY <1>1, <1>3, <1>4, <1>5
  <2>2. QED BY <1>3, <1>4, <2>1 DEF Positions
<1>7. Whole(native, entries, astray)' /\ ListOn(entries, entries')
      /\ \A t, w : /\ Standing(native, entries, t, w) => Standing(native', entries', t, w)
                   /\ Agree(native, entries, t, w) => Agree(native', entries', t, w)
  <2>1. Whole(native', entries', astray') /\ ListOn(entries, entries')
        /\ \A t, w : /\ Standing(native, entries, t, w) => Standing(native', entries', t, w)
                     /\ Agree(native, entries, t, w) => Agree(native', entries', t, w)
    BY <1>2 DEF Onward
  <2>2. QED BY <2>1
<1>8. ASSUME NEW x \in Lanes
      PROVE  /\ Standing(native', entries', tip'[x], position'[x].visibleTip)
             /\ x \in aside' \/ Agree(native', entries', tip'[x], position'[x].visibleTip)
             /\ hook'[x] = NoHook \/ Waits(entries', hook'[x], position'[x].visibleTip)
  <2>1. CASE x = lane
    BY <1>2, <1>3, <1>5, <2>1 DEF LaneWaits
  <2>2. CASE x # lane
    <3>1. PICK t, w, h : t = tip[x] /\ w = position[x].visibleTip /\ h = hook[x]
      OBVIOUS
    <3>2. tip'[x] = t /\ position'[x].visibleTip = w /\ hook'[x] = h
      BY <1>3, <1>4, <2>2, <3>1 DEF HookOf
    <3>3. Standing(native, entries, t, w) /\ (x \in aside \/ Agree(native, entries, t, w))
          /\ (h = NoHook \/ Waits(entries, h, w))
      BY <3>1 DEF HistoryInv, Waited, Idle
    <3>4. Standing(native', entries', t, w) /\ (x \in aside' \/ Agree(native', entries', t, w))
      BY <1>7, <2>2, <3>3
    <3>5. h = NoHook \/ Waits(entries', h, w)
      <4>1. CASE h = NoHook
        BY <4>1
      <4>2. CASE Waits(entries, h, w)
        <5>1. IsHistory(entries) /\ w \in IdsOf(entries) \cup {None}
          BY <1>1, <3>3 DEF Whole, Standing
        <5>2. QED BY <1>7, <4>2, <5>1, WaitsStays
      <4>3. QED BY <3>3, <4>1, <4>2
    <3>6. QED BY <3>2, <3>4, <3>5
  <2>3. QED BY <2>1, <2>2
<1>9. hook' = [x \in Lanes |-> hook'[x]]
  BY DEF HookOf
<1>10. QED BY <1>6, <1>7, <1>8, <1>9 DEF HistoryInv, Waited, Idle

\* Hooks left alone, and cleared.
LEMMA HooksStay ==
  ASSUME HistoryInv, NEW lane \in Lanes, UNCHANGED hook
  PROVE  HookOf(lane) /\ (Idle(lane) => \A v : LaneWaits(lane, v))
  BY DEF HistoryInv, HookOf, LaneWaits, Idle

LEMMA HookCleared ==
  ASSUME HistoryInv, NEW lane \in Lanes, hook' = [hook EXCEPT ![lane] = NoHook]
  PROVE  HookOf(lane) /\ \A v : LaneWaits(lane, v)
<1>1. hook = [x \in Lanes |-> hook[x]]
  BY DEF HistoryInv
<1>2. hook' = [x \in Lanes |-> hook'[x]] /\ hook'[lane] = NoHook /\ \A x \in Lanes \ {lane} : hook'[x] = hook[x]
  BY <1>1
<1>3. QED BY <1>2 DEF HookOf, LaneWaits

\* A hook that waits, when its lane's tip moves to what hangs from it.
LEMMA HookBehind ==
  ASSUME HistoryInv, NEW lane \in Lanes, UNCHANGED hook, NEW l, NEW v, Lands(lane, l, v),
         Behind(entries, entries', position[lane].visibleTip, v)
  PROVE  LaneWaits(lane, v)
<1>1. PICK w, h : w = position[lane].visibleTip /\ h = hook[lane]
  OBVIOUS
<1>2. h = NoHook \/ Waits(entries, h, w)
  BY <1>1 DEF HistoryInv, Waited, Idle
<1>3. IsHistory(entries) /\ w \in IdsOf(entries) \cup {None} /\ ListOn(entries, entries')
  BY <1>1 DEF HistoryInv, Whole, Standing, Lands, Onward
<1>4. Waits(entries, h, w) => Waits(entries', h, v)
  BY <1>1, <1>3, WaitsBehind
<1>5. QED BY <1>1, <1>2, <1>4 DEF LaneWaits
-----------------------------------------------------------------------------
(* Each operation keeps it.                                                *)

LEMMA AcceptCustomKeeps ==
  ASSUME HistoryInv, NEW lane \in Lanes, AcceptCustom(lane)
  PROVE  HistoryInv'
<1>1. PICK n, l, v : n = Len(native) + 1 /\ l = tip[lane] /\ v = position[lane].visibleTip
  OBVIOUS
<1>2. Commit(lane, <<RecordWrite(n, Raw("custom", Unplaced, lane))>>) /\ UNCHANGED hook /\ UNCHANGED asideVars
  BY <1>1 DEF AcceptCustom
<1>3. Stands(lane, l, v)
  BY <1>1, LaneStands
<1>4. Lands(lane, l, Id(n)) /\ Behind(entries, entries', v, Id(n))
  BY <1>1, <1>2, <1>3, AcceptLands
<1>5. LaneWaits(lane, Id(n))
  BY <1>1, <1>2, <1>4, HookBehind
<1>6. HookOf(lane) /\ aside' = aside
  BY <1>2, HooksStay DEF asideVars
<1>7. QED BY <1>4, <1>5, <1>6, LandsKeeps

LEMMA ConfigureKeeps ==
  ASSUME HistoryInv, NEW lane \in Lanes, Configure(lane)
  PROVE  HistoryInv'
<1>1. PICK l, v : l = tip[lane] /\ v = position[lane].visibleTip
  OBVIOUS
<1>2. Commit(lane, <<MetadataWrite>>) /\ UNCHANGED hook /\ UNCHANGED asideVars
  BY DEF Configure
<1>3. Stands(lane, l, v)
  BY <1>1, LaneStands
<1>4. PICK id : Lands(lane, l, id) /\ Behind(entries, entries', v, id)
  BY <1>2, <1>3, DescribeLands
<1>5. LaneWaits(lane, id)
  BY <1>1, <1>2, <1>4, HookBehind
<1>6. HookOf(lane) /\ aside' = aside
  BY <1>2, HooksStay DEF asideVars
<1>7. QED BY <1>4, <1>5, <1>6, LandsKeeps

\* The inbox of a lane, and what places it.
InboxPlaced(lane, l, ns, k) ==
  /\ Lists(ns, DOMAIN native \ Placed(native)) /\ k = Len(ns)
  /\ Drained(lane) = Placing(lane, l, ns) /\ DrainedTip(lane) = Id(ns[k])
LEMMA InboxIs ==
  ASSUME HistoryInv, NEW lane \in Lanes, Waiting(lane) # {}
  PROVE  \E ns, k : InboxPlaced(lane, tip[lane], ns, k)
<1>1. PICK ns, k : ns = Inbox(lane) /\ k = Len(ns)
  OBVIOUS
<1>2. IsNative(native)
  BY DEF HistoryInv, Whole
<1>3. Lists(ns, Waiting(lane))
  BY <1>1, <1>2, InboxLists
<1>4. Waiting(lane) \subseteq DOMAIN native \ Placed(native)
  BY DEF Waiting, Records, Placed
<1>5. Lists(ns, DOMAIN native \ Placed(native))
  BY <1>3, <1>4 DEF Lists
<1>6. Drained(lane) = Placing(lane, tip[lane], ns)
  BY <1>1 DEF Drained, Placing
<1>7. DrainedTip(lane) = Id(ns[k])
  BY <1>1 DEF DrainedTip, Last
<1>8. QED BY <1>1, <1>5, <1>6, <1>7 DEF InboxPlaced

LEMMA DrainKeeps ==
  ASSUME HistoryInv, NEW lane \in Lanes, Drain(lane)
  PROVE  HistoryInv'
<1>1. PICK l, v : l = tip[lane] /\ v = position[lane].visibleTip
  OBVIOUS
<1>2. /\ Idle(lane) /\ Waiting(lane) # {} /\ UNCHANGED hook /\ UNCHANGED asideVars
      /\ Commit(lane, Drained(lane) \o <<TipWrite(DrainedTip(lane))>>)
  BY DEF Drain
<1>3. Stands(lane, l, v)
  BY <1>1, LaneStands
<1>4. PICK ns, k : InboxPlaced(lane, l, ns, k)
  BY <1>1, <1>2, InboxIs
<1>5. Lists(ns, DOMAIN native \ Placed(native)) /\ k = Len(ns)
      /\ Drained(lane) = Placing(lane, l, ns) /\ DrainedTip(lane) = Id(ns[k])
  BY <1>4 DEF InboxPlaced
<1>6. Commit(lane, Placing(lane, l, ns) \o <<TipWrite(Id(ns[k]))>>)
  BY <1>2, <1>5
<1>7. Lands(lane, Id(ns[k]), v)
  BY <1>2, <1>3, <1>5, <1>6, DrainLands
<1>8. HookOf(lane) /\ LaneWaits(lane, v) /\ aside' = aside
  BY <1>2, HooksStay DEF asideVars
<1>9. QED BY <1>7, <1>8, LandsKeeps

LEMMA AppendMessageKeeps ==
  ASSUME HistoryInv, NEW lane \in Lanes, NEW drains \in BOOLEAN, AppendMessage(lane, drains)
  PROVE  HistoryInv'
<1>1. PICK l, v, n : l = tip[lane] /\ v = position[lane].visibleTip /\ n = Len(native) + 1
  OBVIOUS
<1>2. /\ Idle(lane) /\ UNCHANGED hook /\ (drains => Waiting(lane) # {})
      /\ astray' = IF lane \in aside THEN astray \cup {n} ELSE astray
      /\ aside' = aside
  BY <1>1 DEF AppendMessage
<1>3. Stands(lane, l, v)
  BY <1>1, LaneStands
<1>4. HookOf(lane) /\ LaneWaits(lane, Id(n)) /\ aside' = aside /\ Counted(lane, n, l, v)
  <2>1. Counted(lane, n, l, v)
    BY <1>2, <1>3 DEF Stands, Counted
  <2>2. QED BY <1>2, <2>1, HooksStay
<1>5. CASE ~drains
  <2>1. PICK raw : raw = Raw("message", l, lane)
    OBVIOUS
  <2>2. raw.parentId = l /\ raw.type = "message" /\ raw.retainedTail \in Seq(Spoken)
    <3>1. raw.parentId = l /\ raw.type = "message" /\ raw.retainedTail = <<>>
      BY <2>1 DEF Raw
    <3>2. <<>> \in Seq(Spoken)
      OBVIOUS
    <3>3. QED BY <3>1, <3>2
  <2>3. Commit(lane, <<>> \o <<RecordWrite(n, raw), TipWrite(Id(n))>>)
    BY <1>1, <1>5, <2>1 DEF AppendMessage
  <2>4. Commit(lane, <<RecordWrite(n, raw), TipWrite(Id(n))>>)
    BY <2>3, WritesJoin
  <2>5. Lands(lane, Id(n), Id(n))
    BY <1>1, <1>3, <1>4, <2>2, <2>4, RecordLands
  <2>6. QED BY <1>4, <2>5, LandsKeeps
<1>6. CASE drains
  <2>1. PICK ns, k : InboxPlaced(lane, l, ns, k)
    BY <1>1, <1>2, <1>6, InboxIs
  <2>2. Lists(ns, DOMAIN native \ Placed(native)) /\ k = Len(ns)
        /\ Drained(lane) = Placing(lane, l, ns) /\ DrainedTip(lane) = Id(ns[k])
    BY <2>1 DEF InboxPlaced
  <2>3. PICK raw : raw = Raw("message", Id(ns[k]), lane)
    OBVIOUS
  <2>4. raw.parentId = Id(ns[k]) /\ raw.type = "message" /\ raw.retainedTail \in Seq(Spoken)
    <3>1. raw.parentId = Id(ns[k]) /\ raw.type = "message" /\ raw.retainedTail = <<>>
      BY <2>3 DEF Raw
    <3>2. <<>> \in Seq(Spoken)
      OBVIOUS
    <3>3. QED BY <3>1, <3>2
  <2>5. Commit(lane, Placing(lane, l, ns) \o <<RecordWrite(n, raw), TipWrite(Id(n))>>)
    BY <1>1, <1>6, <2>2, <2>3 DEF AppendMessage
  <2>6. Lands(lane, Id(n), Id(n))
    BY <1>1, <1>3, <1>4, <2>2, <2>4, <2>5, DrainRecordLands
  <2>7. QED BY <1>4, <2>6, LandsKeeps
<1>7. QED BY <1>5, <1>6

LEMMA NavigateKeeps ==
  ASSUME HistoryInv, NEW lane \in Lanes, NEW target \in Targets, NEW summed \in BOOLEAN,
         Navigate(lane, target, summed)
  PROVE  HistoryInv'
<1>1. PICK l, v, n : l = tip[lane] /\ v = position[lane].visibleTip /\ n = Len(native) + 1
  OBVIOUS
<1>2. /\ Idle(lane) /\ UNCHANGED hook
      /\ aside' = IF Aside(target) THEN aside \cup {lane} ELSE aside \ {lane}
      /\ astray' = IF Aside(target) /\ summed THEN astray \cup {n} ELSE astray
  BY <1>1 DEF Navigate
<1>3. Stands(lane, l, v)
  BY <1>1, LaneStands
<1>4. HookOf(lane) /\ (\A w : LaneWaits(lane, w)) /\ aside \ {lane} \subseteq aside'
  BY <1>2, HooksStay
<1>5. Standing(native, entries, target, target) /\ (Aside(target) \/ Agree(native, entries, target, target))
  <2>1. target = None \/ \E m \in Placed(native) : target = Id(m)
    BY DEF Targets, Records, Placed
  <2>2. Whole(native, entries, astray)
    BY DEF HistoryInv
  <2>3. Aside(target) \/ target = None
        \/ \E m \in Placed(native) : native[m].type # "custom" /\ m \notin astray /\ target = Id(m)
    BY <2>1 DEF Aside, Records, Placed
  <2>4. QED BY <2>1, <2>2, <2>3, TargetsAgree, TargetsKnown
<1>6. CASE ~summed
  <2>1. Commit(lane, <<TipWrite(target)>> \o <<>>)
    BY <1>6 DEF Navigate
  <2>2. Commit(lane, <<TipWrite(target)>>)
    BY <2>1, WritesJoin
  <2>3. astray' = astray /\ (lane \in aside' \/ Agree(native, entries, target, target))
    BY <1>2, <1>5, <1>6
  <2>4. Lands(lane, target, target)
    BY <1>3, <1>5, <2>2, <2>3, TipLands
  <2>5. QED BY <1>4, <2>4, LandsKeeps
<1>7. CASE summed
  <2>1. PICK raw : raw = Raw("branch_summary", target, lane)
    OBVIOUS
  <2>2. raw.parentId = target /\ raw.type = "branch_summary" /\ raw.retainedTail \in Seq(Spoken)
    <3>1. raw.parentId = target /\ raw.type = "branch_summary" /\ raw.retainedTail = <<>>
      BY <2>1 DEF Raw
    <3>2. <<>> \in Seq(Spoken)
      OBVIOUS
    <3>3. QED BY <3>1, <3>2
  <2>3. Commit(lane, <<TipWrite(target)>> \o <<RecordWrite(n, raw), TipWrite(Id(n))>>)
    BY <1>1, <1>7, <2>1 DEF Navigate
  <2>4. Commit(lane, <<TipWrite(target), RecordWrite(n, raw), TipWrite(Id(n))>>)
    BY <2>3, WritesJoin
  <2>5. Counted(lane, n, target, target)
    BY <1>2, <1>5, <1>7 DEF Counted
  <2>6. Lands(lane, Id(n), Id(n))
    BY <1>1, <1>3, <1>5, <2>2, <2>4, <2>5, TipRecordLands
  <2>7. QED BY <1>4, <2>6, LandsKeeps
<1>8. QED BY <1>6, <1>7

LEMMA BeforeCompactionKeeps ==
  ASSUME HistoryInv, NEW lane \in Lanes, BeforeCompaction(lane)
  PROVE  HistoryInv'
<1>1. PICK v, b : v = position[lane].visibleTip /\ b = PathIds(entries, v)
  OBVIOUS
<1>2. hook' = [hook EXCEPT ![lane] = b] /\ UNCHANGED <<native, tip, entries, position, aside, astray>>
  BY <1>1 DEF BeforeCompaction, asideVars
<1>3. hook = [x \in Lanes |-> hook[x]]
  BY DEF HistoryInv
<1>4. hook' = [x \in Lanes |-> hook'[x]] /\ hook'[lane] = b /\ \A x \in Lanes \ {lane} : hook'[x] = hook[x]
  BY <1>2, <1>3
<1>5. Waits(entries, b, v)
  <2>1. IsHistory(entries) /\ v \in IdsOf(entries) \cup {None}
    BY <1>1 DEF HistoryInv, Whole, Standing
  <2>2. QED BY <1>1, <2>1, WaitsFirst
<1>6. ASSUME NEW x \in Lanes
      PROVE  hook'[x] = NoHook \/ Waits(entries, hook'[x], position[x].visibleTip)
  <2>1. CASE x = lane
    BY <1>1, <1>4, <1>5, <2>1
  <2>2. CASE x # lane
    BY <1>4, <2>2 DEF HistoryInv, Waited, Idle
  <2>3. QED BY <2>1, <2>2
<1>7. Positions' /\ Whole(native, entries, astray)'
  BY <1>2 DEF HistoryInv, Positions
<1>8. QED BY <1>2, <1>4, <1>6, <1>7 DEF HistoryInv, Waited, Idle

LEMMA AbandonCompactionKeeps ==
  ASSUME HistoryInv, NEW lane \in Lanes, AbandonCompaction(lane)
  PROVE  HistoryInv'
<1>1. hook' = [hook EXCEPT ![lane] = NoHook] /\ UNCHANGED <<native, tip, entries, position, aside, astray>>
  BY DEF AbandonCompaction, asideVars
<1>2. hook = [x \in Lanes |-> hook[x]]
  BY DEF HistoryInv
<1>3. hook' = [x \in Lanes |-> hook'[x]] /\ hook'[lane] = NoHook /\ \A x \in Lanes \ {lane} : hook'[x] = hook[x]
  BY <1>1, <1>2
<1>4. \A x \in Lanes : hook'[x] = NoHook \/ Waits(entries, hook'[x], position[x].visibleTip)
  BY <1>3 DEF HistoryInv, Waited, Idle
<1>5. Positions' /\ Whole(native, entries, astray)'
  BY <1>1 DEF HistoryInv, Positions
<1>6. QED BY <1>1, <1>3, <1>4, <1>5 DEF HistoryInv, Waited, Idle

\* A compaction keeps it, whoever chose what is kept.
LEMMA CompactKeeps ==
  ASSUME HistoryInv, NEW lane \in Lanes, NEW kept, Compact(lane, kept),
         KeepsOf(kept, VisibleBranch(entries, position[lane].visibleTip))
  PROVE  HistoryInv'
<1>1. PICK l, v, n, raw : /\ l = tip[lane] /\ v = position[lane].visibleTip /\ n = Len(native) + 1
                          /\ raw = [type |-> "compaction", parentId |-> l, lane |-> lane,
                                    retainedTail |-> kept.retainedTail, boundary |-> kept.boundary]
  OBVIOUS
<1>2. /\ Commit(lane, <<RecordWrite(n, raw), TipWrite(Id(n))>>) /\ hook' = [hook EXCEPT ![lane] = NoHook]
      /\ astray' = astray /\ aside' = aside \ {lane}
  BY <1>1 DEF Compact
<1>3. /\ raw.parentId = l /\ raw.type = "compaction"
      /\ raw.retainedTail = kept.retainedTail /\ raw.boundary = kept.boundary
  BY <1>1
<1>4. KeepsOf(raw, VisibleBranch(entries, v))
  BY <1>1, <1>3 DEF KeepsOf
<1>5. Stands(lane, l, v)
  BY <1>1, LaneStands
<1>6. Lands(lane, Id(n), Id(n))
  BY <1>1, <1>2, <1>3, <1>4, <1>5, CompactLands
<1>7. HookOf(lane) /\ LaneWaits(lane, Id(n)) /\ aside \ {lane} \subseteq aside'
  BY <1>2, HookCleared
<1>8. QED BY <1>6, <1>7, LandsKeeps

\* Pi keeps messages of its context.
LEMMA PiKeepsMessages ==
  ASSUME HistoryInv, NEW lane \in Lanes, NEW kept \in PiKeeps(lane), NEW path
  PROVE  KeepsOf(kept, path)
<1>1. PICK c, l : c = NativeContext(tip[lane]) /\ l = tip[lane]
  OBVIOUS
<1>2. c \in Seq(Spoken)
  <2>1. c = NContext(native, l)
    BY <1>1, NativeIsHeard
  <2>2. IsNative(native) /\ l \in Nodes(native) \cup {None}
    BY <1>1 DEF HistoryInv, Whole, Standing
  <2>3. PICK p : p = Root(native, l)
    OBVIOUS
  <2>4. p \in Seq(Nodes(native))
    BY <2>2, <2>3, RootsAre
  <2>5. Heard(native, p) \in Seq(Spoken)
    BY <2>2, <2>4, NativeSends
  <2>6. QED BY <2>1, <2>3, <2>5 DEF NContext
<1>3. PICK suffixes : suffixes = {SubSeq(c, i, Len(c)) : i \in 2 .. Len(c) + 1}
  OBVIOUS
<1>4. kept.retainedTail \in suffixes \cup {Reverse(s) : s \in suffixes} /\ kept.boundary = None
  BY <1>1, <1>3 DEF PiKeeps
<1>5. \A s \in suffixes : s \in Seq(Spoken)
  <2>1. SUFFICES ASSUME NEW i \in 2 .. Len(c) + 1
                 PROVE  SubSeq(c, i, Len(c)) \in Seq(Spoken)
    BY <1>3
  <2>2. Len(c) \in Nat /\ \A j \in 1 .. Len(c) : c[j] \in Spoken
    BY <1>2, ElementOfSeq
  <2>3. \A j \in i .. Len(c) : c[j] \in Spoken
    <3>1. \A j \in i .. Len(c) : j \in 1 .. Len(c)
      BY <2>2
    <3>2. QED BY <2>2, <3>1
  <2>4. i \in 1 .. Len(c) + 1
    BY <2>2
  <2>5. QED BY <2>2, <2>3, <2>4, SubSeqProperties
<1>6. \A s \in suffixes : Reverse(s) \in Seq(Spoken)
  <2>1. SUFFICES ASSUME NEW s \in suffixes
                 PROVE  Reverse(s) \in Seq(Spoken)
    OBVIOUS
  <2>2. s \in Seq(Spoken) /\ Len(s) \in Nat
    BY <1>5
  <2>3. PICK m : m = Len(s)
    OBVIOUS
  <2>4. ASSUME NEW i \in 1 .. m
        PROVE  s[(m - i) + 1] \in Spoken
    <3>1. PICK j : j = (m - i) + 1
      OBVIOUS
    <3>2. j \in 1 .. Len(s)
      BY <2>2, <2>3, <3>1
    <3>3. QED BY <2>2, <3>1, <3>2, ElementOfSeq
  <2>5. [i \in 1 .. m |-> s[(m - i) + 1]] \in Seq(Spoken)
    BY <2>2, <2>3, <2>4
  <2>6. QED BY <2>3, <2>5 DEF Reverse
<1>7. QED BY <1>4, <1>5, <1>6 DEF KeepsOf

\* An extension keeps what the visible branch says from one of its entries on.
LEMMA ExtensionKeepsBranch ==
  ASSUME HistoryInv, NEW lane \in Lanes, ~Idle(lane), NEW kept \in ExtensionKeeps(lane)
  PROVE  KeepsOf(kept, VisibleBranch(entries, position[lane].visibleTip)) /\ BoundaryHolds(lane, kept)
<1>1. PICK v, h, b, path : /\ v = position[lane].visibleTip /\ h = hook[lane] /\ b = PathIds(entries, v)
                           /\ path = VisibleBranch(entries, v)
  OBVIOUS
<1>2. IsHistory(entries) /\ v \in IdsOf(entries) \cup {None} /\ Waits(entries, h, v)
  BY <1>1 DEF HistoryInv, Whole, Standing, Waited
<1>3. /\ Len(h) \in Nat /\ DOMAIN h = 1 .. Len(h) /\ Len(h) <= Len(b)
      /\ \A i \in 1 .. Len(h) : h[i] = b[i] /\ SaidOf(entries, b, i) = SaidOf(entries, h, i)
  BY <1>1, <1>2 DEF Waits
<1>4. \A q, i : SaidFrom(q, i) = SaidOf(entries, q, i)
  BY DEF SaidFrom, SaidOf
<1>5. PICK i \in DOMAIN h : kept = [retainedTail |-> SaidFrom(h, i), boundary |-> h[i]]
  BY <1>1 DEF ExtensionKeeps
<1>6. kept.retainedTail = SaidOf(entries, b, i) /\ kept.boundary = b[i] /\ i \in 1 .. Len(h)
  BY <1>3, <1>4, <1>5
<1>7. Len(b) \in Nat /\ DOMAIN b = 1 .. Len(b) /\ Len(path) = Len(b) /\ \A j \in 1 .. Len(b) : path[j].id = b[j]
  BY <1>1, <1>2, PathsAre
<1>8. i \in 1 .. Len(b)
  BY <1>3, <1>6, <1>7
<1>9. Tell(path, i, Len(path)) = kept.retainedTail
  BY <1>1, <1>2, <1>6, <1>7, <1>8, SaidIsTell
<1>10. Speaks(path)
  BY <1>1, <1>2, VisibleSends
<1>11. Tell(path, i, Len(path)) \in Seq(Spoken)
  <2>1. i \in 1 .. Len(path) + 1
    BY <1>7, <1>8
  <2>2. QED BY <1>10, <2>1, TellTyped
<1>12. KeepsOf(kept, path)
  BY <1>6, <1>7, <1>8, <1>9, <1>11 DEF KeepsOf
<1>13. BoundaryHolds(lane, kept)
  BY <1>1, <1>4, <1>6, <1>7, <1>8 DEF BoundaryHolds
<1>14. QED BY <1>1, <1>12, <1>13
-----------------------------------------------------------------------------
(* The initial histories, and the theorems.                                *)

\* The tree of no entries.
LEMMA NothingRooted ==
  ASSUME NEW parent, DOMAIN parent = {}
  PROVE  Rooted(parent)
<1>1. IsFiniteSet(DOMAIN parent)
  BY FS_EmptySet
<1>2. PICK p, none : p = <<>> /\ none = None
  OBVIOUS
<1>3. Line(parent, none, p)
  <2>1. p \in Seq(DOMAIN parent) /\ DOMAIN p = {}
    BY <1>2
  <2>2. QED BY <1>2, <2>1 DEF Line
<1>4. Branch(parent, none) = p
  BY <1>1, <1>3, LineIsBranch
<1>5. QED BY <1>1, <1>2, <1>3, <1>4 DEF Rooted

LEMMA HistoryBegins ==
  HistoryInit => HistoryInv
<1> SUFFICES ASSUME HistoryInit
             PROVE  HistoryInv
  OBVIOUS
<1>1. PICK nat, list : nat = native /\ list = entries
  OBVIOUS
<1>2. nat = <<>> /\ list = <<>> /\ DOMAIN nat = {} /\ DOMAIN list = {} /\ IsSequence(nat) /\ IsSequence(list)
  BY <1>1, SequenceEmpty DEF HistoryInit
<1>3. IsNative(nat)
  <2>1. Nodes(nat) = {}
    BY <1>2 DEF Nodes, Placed
  <2>2. DOMAIN Above(nat) = {}
    BY <2>1 DEF Above
  <2>3. Rooted(Above(nat))
    BY <2>2, NothingRooted
  <2>4. QED BY <1>2, <2>3 DEF IsNative
<1>4. IdsOf(list) = {}
  BY <1>2 DEF IdsOf
<1>5. IsHistory(list)
  <2>1. DOMAIN Over(list) = {}
    BY <1>4 DEF Over
  <2>2. Rooted(Over(list))
    BY <2>1, NothingRooted
  <2>3. QED BY <1>2, <2>2 DEF IsHistory
<1>6. Placed(nat) = {}
  BY <1>2 DEF Placed
<1>7. Whole(native, entries, astray)
  BY <1>1, <1>2, <1>3, <1>4, <1>5, <1>6 DEF Whole
<1>8. Standing(native, entries, None, None) /\ Agree(native, entries, None, None)
  BY <1>7, TargetsAgree, TargetsKnown
<1>9. /\ tip = [lane \in Lanes |-> None] /\ hook = [lane \in Lanes |-> NoHook]
      /\ position = [lane \in Lanes |-> [nativeTip |-> None, visibleTip |-> None]]
  BY DEF HistoryInit
<1>10. \A lane \in Lanes : /\ tip[lane] = None /\ position[lane].nativeTip = None
                           /\ position[lane].visibleTip = None /\ hook[lane] = NoHook
  BY <1>9
<1>11. tip = [lane \in Lanes |-> tip[lane]] /\ hook = [lane \in Lanes |-> hook[lane]]
       /\ position = [lane \in Lanes |-> position[lane]]
  BY <1>9
<1>12. QED BY <1>7, <1>8, <1>10, <1>11 DEF HistoryInv, Positions, Waited, Idle

\* Every operation of every lane keeps the invariant.
LEMMA HistoryGoesOn ==
  HistoryInv /\ [HistoryNext]_historyVars => HistoryInv'
<1> SUFFICES ASSUME HistoryInv, [HistoryNext]_historyVars
             PROVE  HistoryInv'
  OBVIOUS
<1>1. ASSUME NEW lane \in Lanes, AcceptCustom(lane)
      PROVE  HistoryInv'
  BY <1>1, AcceptCustomKeeps
<1>2. ASSUME NEW lane \in Lanes, Drain(lane)
      PROVE  HistoryInv'
  BY <1>2, DrainKeeps
<1>3. ASSUME NEW lane \in Lanes, NEW drains \in BOOLEAN, AppendMessage(lane, drains)
      PROVE  HistoryInv'
  BY <1>3, AppendMessageKeeps
<1>4. ASSUME NEW lane \in Lanes, NEW target \in Targets, NEW summed \in BOOLEAN, Navigate(lane, target, summed)
      PROVE  HistoryInv'
  BY <1>4, NavigateKeeps
<1>5. ASSUME NEW lane \in Lanes, Configure(lane)
      PROVE  HistoryInv'
  BY <1>5, ConfigureKeeps
<1>6. ASSUME NEW lane \in Lanes, BeforeCompaction(lane)
      PROVE  HistoryInv'
  BY <1>6, BeforeCompactionKeeps
<1>7. ASSUME NEW lane \in Lanes, CompactByPi(lane)
      PROVE  HistoryInv'
  <2>1. PICK kept \in PiKeeps(lane) : Compact(lane, kept)
    BY <1>7 DEF CompactByPi
  <2>2. KeepsOf(kept, VisibleBranch(entries, position[lane].visibleTip))
    BY PiKeepsMessages
  <2>3. QED BY <2>1, <2>2, CompactKeeps
<1>8. ASSUME NEW lane \in Lanes, CompactByExtension(lane)
      PROVE  HistoryInv'
  <2>1. PICK kept \in ExtensionKeeps(lane) : Compact(lane, kept)
    BY <1>8 DEF CompactByExtension
  <2>2. ~Idle(lane)
    BY <1>8 DEF CompactByExtension
  <2>3. KeepsOf(kept, VisibleBranch(entries, position[lane].visibleTip))
    BY <2>2, ExtensionKeepsBranch
  <2>4. QED BY <2>1, <2>3, CompactKeeps
<1>9. ASSUME NEW lane \in Lanes, AbandonCompaction(lane)
      PROVE  HistoryInv'
  BY <1>9, AbandonCompactionKeeps
<1>10. CASE UNCHANGED historyVars
  BY <1>10 DEF historyVars, asideVars, HistoryInv, Positions, Waited, Idle
<1>11. QED BY <1>1, <1>2, <1>3, <1>4, <1>5, <1>6, <1>7, <1>8, <1>9, <1>10 DEF HistoryNext

\* In every state of both histories, however long they grow and however many lanes and
\* compactions there are, the invariant holds.
THEOREM HistoriesStayWhole ==
  HistorySpec => []HistoryInv
  BY HistoryBegins, HistoryGoesOn, PTL DEF HistorySpec

\* PiSessionView.build never refuses the history that compatibility-store.ts derives: IDs
\* are unique, every parent is listed before its child, every lane's leaf is listed, and no
\* entry of Pi is left out, in whatever order entries are accepted, drained, summed up and
\* compacted.
THEOREM HistoriesBuild ==
  HistorySpec => []SnapshotsBuild
<1>1. HistoryInv => SnapshotsBuild
  <2> SUFFICES ASSUME HistoryInv
               PROVE  SnapshotsBuild
    OBVIOUS
  <2>1. IsHistory(entries) /\ \A n \in DOMAIN native : Id(n) \in IdsOf(entries)
    BY DEF HistoryInv, Whole
  <2>2. \A lane \in Lanes : position[lane].visibleTip \in {None} \cup IdsOf(entries)
    BY DEF HistoryInv, Standing
  <2>3. QED BY <2>1, <2>2 DEF SnapshotsBuild, Builds, IsHistory
<1>2. QED BY <1>1, HistoriesStayWhole, PTL

\* On every lane an extension reads the conversation the model is sent: after any sequence
\* of acceptances, drains, turns, navigations, changes of metadata and compactions the
\* visible branch says what Pi's own branch does, except on a lane taken to a custom entry,
\* or to what was placed on a lane after one, until it compacts or is taken elsewhere.
THEOREM ContextsStayAgreed ==
  HistorySpec => []ContextsAgree
<1>1. HistoryInv => ContextsAgree
  <2> SUFFICES ASSUME HistoryInv, NEW lane \in Lanes \ aside
               PROVE  VisibleContext(entries, position[lane].visibleTip) = NativeContext(tip[lane])
    BY DEF ContextsAgree
  <2>1. VisibleContext(entries, position[lane].visibleTip) = NContext(native, tip[lane])
    BY DEF HistoryInv, Agree
  <2>2. QED BY <2>1, NativeIsHeard
<1>2. QED BY <1>1, HistoriesStayWhole, PTL

\* What an extension answers about the branch its before_compaction hook has read can still
\* be committed: the boundary it names is on the branch and says the same, although entries
\* accepted and metadata changed meanwhile have moved the visible tip.
THEOREM AnswersKeepStanding ==
  HistorySpec => []AnswersStand
<1>1. HistoryInv => AnswersStand
  <2> SUFFICES ASSUME HistoryInv, NEW lane \in Lanes, ~Idle(lane), NEW kept \in ExtensionKeeps(lane)
               PROVE  BoundaryHolds(lane, kept)
    BY DEF AnswersStand
  <2>1. QED BY ExtensionKeepsBranch
<1>2. QED BY <1>1, HistoriesStayWhole, PTL
=============================================================================
