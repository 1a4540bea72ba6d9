------------------------------- MODULE PiStore -------------------------------
(* Pi's storage on SQLite: pi-storage/sqlite.ts and schema.ts, with the copy  *)
(* of a session's path into a branch (sessions.ts).                           *)
(*                                                                            *)
(* A scope is one session's storage.  Every commit is journalled, immutable,  *)
(* with the sequence numbers it was given, and projected into tables that the *)
(* reads use.  The journal also has what was later deleted, and must always   *)
(* rebuild the tables.  A fork starts a scope with a copy of another's path.  *)
EXTENDS Integers, Sequences, FiniteSets, SequencesExt

CONSTANTS
    Scopes,     \* tenant and session of a storage
    Ids,        \* identities of entries and usage rows
    Keys,       \* addresses of values and of lists
    MaxWrites,  \* bound: writes committed over all scopes, besides what forks copy
    MaxBatch    \* bound: writes of a commit

ASSUME PiStoreAssumption == MaxWrites \in Nat /\ MaxBatch \in Nat /\ "null" \notin Ids

VARIABLES
    rows,       \* the projected tables and the statistics, with the number they expect next
    nextSeq,    \* pi_store_sessions.next_seq
    journal,    \* pi_store_commits, oldest first
    origin      \* the host's record of a branch: its source and the tip it was taken at

vars == <<rows, nextSeq, journal, origin>>

Null    == "null"
Types   == {"message", "custom"}
NoFork  == [from |-> Null, tip |-> Null]
Empty   == [next |-> 1, messages |-> 0, entries |-> {}, usage |-> {}, values |-> {}, lists |-> {}]

Init ==
    /\ rows = [s \in Scopes |-> Empty]
    /\ nextSeq = [s \in Scopes |-> 1]
    /\ journal = [s \in Scopes |-> <<>>]
    /\ origin = [s \in Scopes |-> NoFork]

------------------------------------------------------------------------------
(* Writes and their projection                                                *)

EntryIds(p) == {e.id : e \in p.entries}
UsageIds(p) == {u.id : u \in p.usage}

\* validateCommittedWrites, for one write after those before it: its number is the next, its
\* identity is new and its parent is there.
Valid(p, w) ==
    /\ w.seq = p.next
    /\ w.kind \in {"entry", "usage"} => w.id \notin EntryIds(p) \cup UsageIds(p)
    /\ w.kind = "entry" => w.parent \in EntryIds(p) \cup {Null}

At(table, key) == {r \in table : r.key = key}
Project(p, w) ==
    CASE w.kind = "entry"  -> [p EXCEPT !.entries = @ \cup {[id |-> w.id, parent |-> w.parent,
                                                             type |-> w.type, seq |-> w.seq]},
                                        !.messages = @ + IF w.type = "message" THEN 1 ELSE 0]
      [] w.kind = "usage"  -> [p EXCEPT !.usage = @ \cup {[id |-> w.id, seq |-> w.seq]}]
      [] w.kind = "set"    -> [p EXCEPT !.values = (@ \ At(@, w.key)) \cup {[key |-> w.key, seq |-> w.seq]}]
      [] w.kind = "delete" -> [p EXCEPT !.values = @ \ At(@, w.key)]
      [] w.kind = "append" -> [p EXCEPT !.lists = @ \cup {[key |-> w.key, seq |-> w.seq]}]
      [] w.kind = "clear"  -> [p EXCEPT !.lists = @ \ At(@, w.key)]

\* A batch is projected write by write; one that is not valid fails as a whole.
Refused == [Empty EXCEPT !.next = 0]
Apply(p, w) == IF p # Refused /\ Valid(p, w) THEN [Project(p, w) EXCEPT !.next = @ + 1] ELSE Refused
ApplyAll(p, writes) == FoldLeft(Apply, p, writes)

\* prepareStorageCommit and the renumbering of a fork: numbers from next_seq on.
Numbered(s, writes) == [i \in 1 .. Len(writes) |-> [writes[i] EXCEPT !.seq = nextSeq[s] + i - 1]]

\* Fault: the last number of a commit is taken for the first that is free.
RecordUpToNext(s, writes) ==
    [first |-> nextSeq[s], last |-> nextSeq[s] + Len(writes), writes |-> writes]
Record(s, writes) ==
    [first |-> nextSeq[s], last |-> nextSeq[s] + Len(writes) - 1, writes |-> writes]

\* applyCommitted, for numbered writes.  A batch without writes leaves no commit.
ApplyCommitted(s, writes) ==
    /\ ApplyAll(rows[s], writes) # Refused
    /\ rows' = [rows EXCEPT ![s] = ApplyAll(@, writes)]
    /\ nextSeq' = [nextSeq EXCEPT ![s] = @ + Len(writes)]
    /\ journal' = [journal EXCEPT ![s] = IF writes = <<>> THEN @ ELSE Append(@, Record(s, writes))]

------------------------------------------------------------------------------
(* Commits and rebuilds.  A handle runs them one at a time, each in a         *)
(* transaction that asserts at both ends that the process still owns the      *)
(* state root.  One that is refused, fails or loses the root rolls back, and  *)
(* close waits for those that were asked for before it: neither leaves a      *)
(* trace, so neither is a step here.                                          *)

Write == [kind : {"entry"}, id : Ids, parent : Ids \cup {Null}, type : Types, seq : {0}]
         \cup [kind : {"usage"}, id : Ids, seq : {0}]
         \cup [kind : {"set", "delete", "append", "clear"}, key : Keys, seq : {0}]

Copied(s) == IF origin[s] = NoFork THEN 0 ELSE journal[s][1].last
Written   == FoldSet(LAMBDA s, n : n + nextSeq[s] - 1 - Copied(s), 0, Scopes)
Batches(s) ==
    LET Extend(B) == {b \in {Append(c, w) : c \in B, w \in Write} : ApplyAll(rows[s], Numbered(s, b)) # Refused}
        Of[n \in 0 .. MaxBatch] == IF n = 0 THEN {<<>>} ELSE Extend(Of[n - 1]) IN
    UNION {Of[n] : n \in 0 .. LET left == MaxWrites - Written IN IF left < MaxBatch THEN left ELSE MaxBatch}
Commit(s, writes) ==
    /\ writes \in Seq(Write)
    /\ ApplyCommitted(s, Numbered(s, writes))
    /\ UNCHANGED origin

\* rebuildProjections: the tables again, from the journal alone.
Whole(p, c) == c.first = p.next /\ c.last = p.next + Len(c.writes) - 1
Replay(s) == FoldLeft(LAMBDA p, c : IF Whole(p, c) THEN ApplyAll(p, c.writes) ELSE Refused,
                      Empty, journal[s])
Rebuild(s) ==
    /\ Replay(s).next = nextSeq[s]
    /\ rows' = [rows EXCEPT ![s] = Replay(s)]
    /\ UNCHANGED <<nextSeq, journal, origin>>

------------------------------------------------------------------------------
(* Reads                                                                      *)

\* ORDER BY a column, which no two rows have the same of.
InOrder(table, by) ==
    [i \in 1 .. Cardinality(table) |->
        CHOOSE r \in table : Cardinality({q \in table : q[by] < r[by]}) = i - 1]
Page(limit, found) == SubSeq(found, 1, IF Len(found) < limit THEN Len(found) ELSE limit)
Directed(order, found) == IF order = "oldestFirst" THEN found ELSE Reverse(found)

\* The recursive query of branchRows: the row of start, the row of its parent, and so on.
Path(p, start) ==
    LET Closed(S) == \A e \in p.entries : e.id = start \/ (\E d \in S : d.parent = e.id) => e \in S IN
    {e \in p.entries : \A S \in SUBSET p.entries : Closed(S) => e \in S}

\* branchRows: the path up to the row it is told to stop at, and of that the rows that are
\* asked for.  A path whose oldest row has a parent is corrupt.
Corrupt(p, start) == Head(InOrder(Path(p, start), "seq")).parent # Null
BranchRows(p, start, order, stopAt, types, cursor, limit) ==
    LET path         == Path(p, start)
        Before(a, b) == IF order = "oldestFirst" THEN a < b ELSE b < a
        upTo         == {e \in path : ~\E d \in path : d.id = stopAt /\ Before(d.seq, e.seq)} IN
    Page(limit, Directed(order, InOrder({e \in upTo : e.type \in types /\ Before(cursor, e.seq)}, "seq")))

\* readList, from a cursor that is excluded; scanEntries and scanUsage, between two numbers.
ReadList(p, key, order, cursor, limit) ==
    Page(limit, Directed(order, InOrder({r \in At(p.lists, key) :
        IF order = "oldestFirst" THEN r.seq > cursor ELSE r.seq < cursor}, "seq")))
Scan(table, order, fromSeq, toSeq, limit) ==
    Page(limit, Directed(order, InOrder({r \in table : fromSeq <= r.seq /\ r.seq <= toSeq}, "seq")))

\* readCommits: the commits that end after a number, oldest first.
Commits(s) == {journal[s][i] : i \in DOMAIN journal[s]}
\* Fault: those that begin after it.
ReadCommitsBegun(s, afterSeq, limit) ==
    Page(limit, InOrder({c \in Commits(s) : c.first > afterSeq}, "first"))
ReadCommits(s, afterSeq, limit) ==
    Page(limit, InOrder({c \in Commits(s) : c.last > afterSeq}, "first"))

------------------------------------------------------------------------------
(* Forks                                                                      *)

\* Pi's fork policy: the entries up to the tip, and such values as it carries over.
\* Fault: the fork is taken before the tip instead of at it.
SnapshotBefore(p, tip, keys) ==
    {[kind |-> "entry", id |-> e.id, parent |-> e.parent, type |-> e.type, seq |-> e.seq] :
        e \in {e \in Path(p, tip) : e.id # tip}}
    \cup {[kind |-> "set", key |-> v.key, seq |-> v.seq] : v \in {v \in p.values : v.key \in keys}}
Snapshot(p, tip, keys) ==
    {[kind |-> "entry", id |-> e.id, parent |-> e.parent, type |-> e.type, seq |-> e.seq] : e \in Path(p, tip)}
    \cup {[kind |-> "set", key |-> v.key, seq |-> v.seq] : v \in {v \in p.values : v.key \in keys}}

\* forkPiSession and importForkSync, in the transaction that creates the branch.
ImportFork(source, s, tip, keys) ==
    LET copied == InOrder(Snapshot(rows[source], tip, keys), "seq") IN
    /\ source # s /\ nextSeq[s] = 1 /\ origin[s] = NoFork
    /\ tip \in EntryIds(rows[source])
    /\ ApplyCommitted(s, Numbered(s, copied))
    /\ origin' = [origin EXCEPT ![s] = [from |-> source, tip |-> tip]]

Next ==
    \/ \E s \in Scopes : \/ \E writes \in Batches(s) : Commit(s, writes)
                         \/ Rebuild(s)
    \/ \E source, s \in Scopes, tip \in Ids, keys \in SUBSET Keys : ImportFork(source, s, tip, keys)

Spec == Init /\ [][Next]_vars

------------------------------------------------------------------------------
(* Properties                                                                 *)

\* The journal rebuilds every table, the statistics and the next number, whatever was
\* overwritten, deleted or copied from another scope since: a rebuild never fails and
\* changes nothing.
Rebuildable == \A s \in Scopes : Replay(s) = rows[s] /\ Replay(s).next = nextSeq[s]

\* The branch of every entry reads down to its root, parents before children, and a fork
\* reads as its source did at the tip it was taken from, whatever either has added since.
Branch(p, id) == BranchRows(p, id, "oldestFirst", Null, Types, 0, p.next)
IdsOf(read)   == [i \in DOMAIN read |-> read[i].id]
BranchesReadWhole ==
    \A s \in Scopes :
      /\ origin[s] # NoFork => origin[s].tip \in EntryIds(rows[s])
      /\ \A e \in rows[s].entries :
        LET read == Branch(rows[s], e.id) IN
        /\ ~Corrupt(rows[s], e.id)
        /\ Last(read).id = e.id
        /\ \A i \in 2 .. Len(read) : read[i].parent = read[i - 1].id
        /\ origin[s].tip = e.id => IdsOf(read) = IdsOf(Branch(rows[origin[s].from], e.id))

\* Reading page by page, each from the last row of the one before, gives every row once and
\* then none, in both orders: of a branch for any type and stop, of a list, of a table, and
\* of the journal.
FollowsOn(Read(_, _), start, limit) ==
    LET all == Read(start, limit) IN
    \A i \in DOMAIN all : Read(all[i].seq, 1) = IF i = Len(all) THEN <<>> ELSE <<all[i + 1]>>
ScanFrom(table, order, next, cursor, limit) ==
    IF order = "oldestFirst" THEN Scan(table, order, cursor + 1, next, limit)
    ELSE Scan(table, order, 1, cursor - 1, limit)
PagesFollowOn ==
    \A s \in Scopes :
      LET p == rows[s] IN
      /\ \A order \in {"oldestFirst", "newestFirst"} :
          LET start == IF order = "oldestFirst" THEN 0 ELSE p.next IN
          /\ \A e \in p.entries, stopAt \in EntryIds(p) \cup {Null}, types \in {Types, {"message"}} :
                FollowsOn(LAMBDA c, n : BranchRows(p, e.id, order, stopAt, types, c, n), start, p.next)
          /\ \A key \in Keys : FollowsOn(LAMBDA c, n : ReadList(p, key, order, c, n), start, p.next)
          /\ \A table \in {p.entries, p.usage} :
                FollowsOn(LAMBDA c, n : ScanFrom(table, order, p.next, c, n), start, p.next)
      /\ \A n \in 0 .. nextSeq[s] - 1 :
            LET page == ReadCommits(s, n, 1) IN
            IF n = nextSeq[s] - 1 THEN page = <<>>
            ELSE page # <<>> /\ page[1].first <= n + 1 /\ n + 1 <= page[1].last
=============================================================================
