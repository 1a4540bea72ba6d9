---------------------------- MODULE PiProjection ----------------------------
(***************************************************************************)
(* The history that Pi extensions read, derived commit by commit from the  *)
(* records Pi's harness writes, and the compactions extensions take over   *)
(* (packages/runtime/src/pi-extensions: compatibility-store.ts,            *)
(* structural-projection.ts, metadata-projection.ts, session-view.ts and   *)
(* compaction.ts).                                                         *)
(*                                                                         *)
(* A custom entry is shown where it was accepted, while the harness places *)
(* it later, where its inbox is drained: the two trees differ, and what    *)
(* they say to the model must not.                                         *)
(***************************************************************************)
EXTENDS Naturals, Sequences, FiniteSets, SequencesExt

CONSTANTS
  Lanes,        \* branches with a tip of their own
  MaxEntries,   \* bound: native entries, the accepted ones included
  MaxMetadata,  \* bound: metadata entries
  MaxMoves      \* bound: navigations

ASSUME EntriesAssumption == MaxEntries \in Nat /\ MaxMetadata \in Nat /\ MaxMoves \in Nat

VARIABLES
  native,   \* Pi's entries in the order of their acceptance
  tip,      \* pi.branch.tip of each lane
  entries,  \* the visible history, in the order of the list
  position, \* for each lane the native tip and the visible one
  hook,     \* the visible branch each lane's before_compaction hook has read
  moves,    \* navigations so far
  aside,    \* history: lanes whose two branches need not say the same
  astray    \* history: entries that such a lane has placed

historyVars == <<native, tip, entries, position, hook, moves, aside, astray>>
asideVars == <<aside, astray>>

(* Entry n of Pi is <<n, 0>>, the i-th node derived from its tail <<n, i>>, *)
(* and metadata entry k is <<0, k>>.                                        *)
None == <<0, 0>>
Unplaced == <<0, MaxMetadata + 1>>   \* the parent of an accepted custom entry
NoHook == <<None>>
Id(n) == <<n, 0>>

Records == {n \in DOMAIN native : native[n].parentId # Unplaced}
Waiting(lane) == {n \in DOMAIN native \ Records : native[n].lane = lane}
Metadata == {i \in DOMAIN entries : entries[i].type = "metadata"}

HistoryInit ==
  /\ native = <<>>
  /\ tip = [lane \in Lanes |-> None]
  /\ entries = <<>>
  /\ position = [lane \in Lanes |-> [nativeTip |-> None, visibleTip |-> None]]
  /\ hook = [lane \in Lanes |-> NoHook]
  /\ moves = 0
  /\ aside = {} /\ astray = {}
-----------------------------------------------------------------------------
(* What a branch says.                                                     *)

\* The branch that ends at an entry, from its root, where `parent` maps IDs to IDs.
Branch(parent, leaf) ==
  LET up[n \in 0 .. Cardinality(DOMAIN parent)] ==
        IF n = 0 THEN <<leaf>>
        ELSE IF Head(up[n - 1]) \notin DOMAIN parent THEN up[n - 1]
        ELSE <<parent[Head(up[n - 1])]>> \o up[n - 1]
  IN Tail(up[Cardinality(DOMAIN parent)])

NativeBranch(leaf) == Branch([id \in {Id(n) : n \in Records} |-> native[id[1]].parentId], leaf)

IdsOf(list) == {list[i].id : i \in DOMAIN list}
Entry(list, id) == list[CHOOSE i \in DOMAIN list : list[i].id = id]
PathIds(list, leaf) == Branch([id \in IdsOf(list) |-> Entry(list, id).parentId], leaf)
VisibleBranch(list, leaf) ==
  LET path == PathIds(list, leaf) IN [i \in DOMAIN path |-> Entry(list, path[i])]

\* The messages of a sequence of visible entries.
Said(path) == FlattenSeq([i \in DOMAIN path |-> path[i].says])

\* sessionEntryToContextMessages: custom entries and metadata say nothing to the model.
Says(n, type) == IF type = "custom" THEN <<>> ELSE <<Id(n)>>

\* What Pi sends for a branch: its last compaction's summary and retained tail, and
\* what follows it.
NativeContext(leaf) ==
  LET path == NativeBranch(leaf)
      cuts == {i \in DOMAIN path : native[path[i][1]].type = "compaction"}
      last == IF cuts = {} THEN 0 ELSE CHOOSE i \in cuts : \A j \in cuts : j <= i
      after == FlattenSeq([i \in 1 .. Len(path) - last |->
                 Says(path[last + i][1], native[path[last + i][1]].type)])
  IN IF last = 0 THEN after ELSE <<path[last]>> \o native[path[last][1]].retainedTail \o after

\* What the extensions' reader makes of one: the last compaction's summary, what is kept
\* before it from its first kept entry on, and what follows it.
VisibleContext(list, leaf) ==
  LET path == VisibleBranch(list, leaf)
      cuts == {i \in DOMAIN path : path[i].type = "compaction"}
      last == CHOOSE i \in cuts : \A j \in cuts : j <= i
      kept == {i \in 1 .. last - 1 : \E j \in 1 .. i : path[j].id = path[last].firstKeptEntryId}
  IN IF cuts = {} THEN Said(path)
     ELSE path[last].says
          \o FlattenSeq([i \in 1 .. last - 1 |-> IF i \in kept THEN path[i].says ELSE <<>>])
          \o Said(SubSeq(path, last + 1, Len(path)))
-----------------------------------------------------------------------------
(* Projecting one write of a commit. `p` holds the history so far, the     *)
(* lane's position and the records the commit has placed.                  *)

Shown(id, type, parentId, says, first) ==
  [id |-> id, type |-> type, parentId |-> parentId, says |-> says, firstKeptEntryId |-> first]

\* A compaction is shown after the branch it cuts. Its first kept entry is the one from
\* which the branch says the retained tail, or the first of nodes derived from that tail.
ProjectCompaction(n, raw, parentId, path) ==
  LET tail == raw.retainedTail
      starts == {i \in DOMAIN path : path[i].says # <<>> /\ Said(SubSeq(path, i, Len(path))) = tail}
      derived == [i \in DOMAIN tail |->
        Shown(<<n, i>>, "message", IF i = 1 THEN parentId ELSE <<n, i - 1>>, <<tail[i]>>, None)]
      own(parent, first) == <<Shown(Id(n), "compaction", parent, <<Id(n)>>, first)>>
  IN CASE raw.boundary # None -> own(parentId, raw.boundary)
       [] raw.boundary = None /\ tail = <<>> -> own(parentId, Id(n))
       [] raw.boundary = None /\ tail # <<>> /\ starts # {} ->
            own(parentId, path[CHOOSE i \in starts : TRUE].id)
       [] OTHER -> derived \o own(<<n, Len(tail)>>, <<n, 1>>)

\* A record not yet shown hangs from the visible tip when its native parent is the native
\* tip. One shown since its acceptance only moves the native tip.
\* Fault: the entry is shown again where the harness places it.
ProjectRecordAgain(p, n, raw) ==
  LET parentId == IF raw.parentId \in {Unplaced, p.nativeTip} THEN p.visibleTip ELSE raw.parentId
      added == IF raw.type = "compaction"
               THEN ProjectCompaction(n, raw, parentId, VisibleBranch(p.entries, parentId))
               ELSE <<Shown(Id(n), raw.type, parentId, Says(n, raw.type), None)>>
  IN [entries |-> p.entries \o added, visibleTip |-> Id(n),
      nativeTip |-> IF raw.parentId = Unplaced THEN p.nativeTip ELSE Id(n),
      materialized |-> p.materialized \cup {Id(n)}]
ProjectRecord(p, n, raw) ==
  LET parentId == IF raw.parentId \in {Unplaced, p.nativeTip} THEN p.visibleTip ELSE raw.parentId
      added == IF raw.type = "compaction"
               THEN ProjectCompaction(n, raw, parentId, VisibleBranch(p.entries, parentId))
               ELSE <<Shown(Id(n), raw.type, parentId, Says(n, raw.type), None)>>
      placed == IF raw.parentId = Unplaced THEN p.materialized ELSE p.materialized \cup {Id(n)}
  IN IF Id(n) \in IdsOf(p.entries)
     THEN [p EXCEPT !.nativeTip = Id(n), !.materialized = placed]
     ELSE [entries |-> p.entries \o added, visibleTip |-> Id(n),
           nativeTip |-> IF raw.parentId = Unplaced THEN p.nativeTip ELSE Id(n),
           materialized |-> placed]

\* A tip this commit has placed is shown already, perhaps above other entries.
\* Fault: the visible tip follows the native one.
MoveTipAlways(p, next) == [p EXCEPT !.visibleTip = next, !.nativeTip = next]
MoveTip(p, next) ==
  [p EXCEPT !.visibleTip = IF next \in p.materialized THEN @ ELSE next, !.nativeTip = next]

\* projectMetadata: a change of the model, of the thinking level, a name or a label.
Describe(p) ==
  LET id == <<0, Cardinality(Metadata) + 1>> IN
  [p EXCEPT !.entries = Append(@, Shown(id, "metadata", p.visibleTip, <<>>, None)),
            !.visibleTip = id]
-----------------------------------------------------------------------------
(* Commits: what Pi writes and its projection, in one transaction.         *)

RecordWrite(n, raw) == [write |-> "entry", n |-> n, raw |-> raw]
TipWrite(next) == [write |-> "tip", next |-> next]
MetadataWrite == [write |-> "metadata"]

Project(p, w) == CASE w.write = "entry"    -> ProjectRecord(p, w.n, w.raw)
                   [] w.write = "tip"      -> MoveTip(p, w.next)
                   [] w.write = "metadata" -> Describe(p)
ProjectAll(p, writes) == FoldLeft(Project, p, writes)

Stored(n, writes) ==
  LET own == {i \in DOMAIN writes : writes[i].write = "entry" /\ writes[i].n = n}
  IN IF own = {} THEN native[n] ELSE writes[CHOOSE i \in own : TRUE].raw

Commit(lane, writes) ==
  LET fresh == {writes[i].n : i \in {j \in DOMAIN writes : writes[j].write = "entry"}} \ DOMAIN native
      tips == {i \in DOMAIN writes : writes[i].write = "tip"}
      start == [entries |-> entries, visibleTip |-> position[lane].visibleTip,
                nativeTip |-> position[lane].nativeTip, materialized |-> {}]
      end == ProjectAll(start, writes)
  IN /\ native' = [n \in 1 .. Len(native) + Cardinality(fresh) |-> Stored(n, writes)]
     /\ tip' = IF tips = {} THEN tip
               ELSE [tip EXCEPT ![lane] = writes[CHOOSE i \in tips : \A j \in tips : j <= i].next]
     /\ entries' = end.entries
     /\ position' = [position EXCEPT ![lane] = [nativeTip |-> end.nativeTip,
                                                visibleTip |-> end.visibleTip]]

Raw(type, parentId, lane) ==
  [type |-> type, parentId |-> parentId, lane |-> lane, retainedTail |-> <<>>, boundary |-> None]

\* Pi runs one operation on a lane at a time: a compaction excludes turns and navigation.
Idle(lane) == hook[lane] = NoHook

\* An extension's custom entry is accepted into the lane's inbox, at any time.
AcceptCustom(lane) ==
  /\ Len(native) < MaxEntries
  /\ Commit(lane, <<RecordWrite(Len(native) + 1, Raw("custom", Unplaced, lane))>>)
  /\ UNCHANGED <<hook, moves, asideVars>>

\* The inbox of a lane, in the order of acceptance.
Inbox(lane) ==
  LET waiting == Waiting(lane) IN
  CHOOSE list \in [1 .. Cardinality(waiting) -> waiting] :
    \A i, j \in DOMAIN list : i < j => list[i] < list[j]

\* It is drained onto the branch.
Drained(lane) ==
  [i \in DOMAIN Inbox(lane) |-> RecordWrite(Inbox(lane)[i],
     Raw("custom", IF i = 1 THEN tip[lane] ELSE Id(Inbox(lane)[i - 1]), lane))]
DrainedTip(lane) == Id(Last(Inbox(lane)))

Drain(lane) ==
  /\ Idle(lane)
  /\ Waiting(lane) # {}
  /\ Commit(lane, Drained(lane) \o <<TipWrite(DrainedTip(lane))>>)
  /\ UNCHANGED <<hook, moves, asideVars>>

\* A message of a turn, alone or together with the inbox it drains.
AppendMessage(lane, drains) ==
  LET n == Len(native) + 1
      before == IF drains THEN Drained(lane) ELSE <<>>
      parentId == IF drains THEN DrainedTip(lane) ELSE tip[lane] IN
  /\ Idle(lane)
  /\ n <= MaxEntries
  /\ drains => Waiting(lane) # {}
  /\ Commit(lane, before \o <<RecordWrite(n, Raw("message", parentId, lane)), TipWrite(Id(n))>>)
  /\ astray' = IF lane \in aside THEN astray \cup {n} ELSE astray
  /\ UNCHANGED <<hook, moves, aside>>

\* Where a lane may go: to the root, or to an entry that has been placed.
Targets == {None} \cup {Id(n) : n \in Records}

\* The visible tip goes to where the target is shown.  For a custom entry that is where it was
\* accepted, without what was placed between its acceptance and its drain.
Aside(target) ==
  \E n \in Records : target = Id(n) /\ (native[n].type = "custom" \/ n \in astray)

\* With a summary, the branch left behind is summed up below the target.
Navigate(lane, target, summed) ==
  LET n == Len(native) + 1
      summary == <<RecordWrite(n, Raw("branch_summary", target, lane)), TipWrite(Id(n))>> IN
  /\ Idle(lane)
  /\ target # tip[lane]
  /\ moves < MaxMoves
  /\ summed => n <= MaxEntries
  /\ Commit(lane, <<TipWrite(target)>> \o (IF summed THEN summary ELSE <<>>))
  /\ moves' = moves + 1
  /\ aside' = IF Aside(target) THEN aside \cup {lane} ELSE aside \ {lane}
  /\ astray' = IF Aside(target) /\ summed THEN astray \cup {n} ELSE astray
  /\ UNCHANGED hook

\* A lane's configuration is shown on that lane, a name or a label on the main one, in a
\* commit of their own.
Configure(lane) ==
  /\ Cardinality(Metadata) < MaxMetadata
  /\ Commit(lane, <<MetadataWrite>>)
  /\ UNCHANGED <<hook, moves, asideVars>>
-----------------------------------------------------------------------------
(* Compaction.                                                             *)

\* Before Pi compacts a lane the line of mutations is flushed, the view refreshed, and
\* the extensions are asked; they may accept entries and change metadata before they
\* answer about the branch read here.
\* Fault: the branch is read from the native tip.
BeforeCompactionNative(lane) ==
  /\ Idle(lane)
  /\ NativeContext(tip[lane]) # <<>>
  /\ hook' = [hook EXCEPT ![lane] = PathIds(entries, tip[lane])]
  /\ UNCHANGED <<native, tip, entries, position, moves, asideVars>>
BeforeCompaction(lane) ==
  /\ Idle(lane)
  /\ NativeContext(tip[lane]) # <<>>
  /\ hook' = [hook EXCEPT ![lane] = PathIds(entries, position[lane].visibleTip)]
  /\ UNCHANGED <<native, tip, entries, position, moves, asideVars>>

\* Pi keeps the end of its context; another implementation may reorder what it keeps.
PiKeeps(lane) ==
  LET context == NativeContext(tip[lane])
      suffixes == {SubSeq(context, i, Len(context)) : i \in 2 .. Len(context) + 1}
  IN [retainedTail : suffixes \cup {Reverse(s) : s \in suffixes}, boundary : {None}]

\* nativeResult: an extension names the entry of the branch it was shown from which
\* everything said is kept.
SaidFrom(branch, i) == FlattenSeq([j \in 1 .. Len(branch) - i + 1 |->
                                     Entry(entries, branch[i + j - 1]).says])
ExtensionKeeps(lane) ==
  {[retainedTail |-> SaidFrom(hook[lane], i), boundary |-> hook[lane][i]] :
     i \in DOMAIN hook[lane]}

\* The commit is refused when the boundary no longer says the tail.
BoundaryHolds(lane, kept) ==
  LET branch == PathIds(entries, position[lane].visibleTip)
  IN \E i \in DOMAIN branch : /\ branch[i] = kept.boundary
                              /\ SaidFrom(branch, i) = kept.retainedTail

Compact(lane, kept) ==
  LET n == Len(native) + 1
      raw == [type |-> "compaction", parentId |-> tip[lane], lane |-> lane,
              retainedTail |-> kept.retainedTail, boundary |-> kept.boundary] IN
  /\ n <= MaxEntries
  /\ kept.boundary # None => BoundaryHolds(lane, kept)
  /\ Commit(lane, <<RecordWrite(n, raw), TipWrite(Id(n))>>)
  /\ hook' = [hook EXCEPT ![lane] = NoHook]
  /\ aside' = aside \ {lane}
  /\ UNCHANGED <<moves, astray>>

CompactByPi(lane) == ~Idle(lane) /\ \E kept \in PiKeeps(lane) : Compact(lane, kept)
CompactByExtension(lane) == ~Idle(lane) /\ \E kept \in ExtensionKeeps(lane) : Compact(lane, kept)

\* The extension declines, Pi fails or is aborted, or the process dies: nothing of the
\* compaction was committed.
AbandonCompaction(lane) ==
  /\ ~Idle(lane)
  /\ hook' = [hook EXCEPT ![lane] = NoHook]
  /\ UNCHANGED <<native, tip, entries, position, moves, asideVars>>

HistoryNext ==
  \/ \E lane \in Lanes :
       \/ AcceptCustom(lane)
       \/ Drain(lane)
       \/ \E drains \in BOOLEAN : AppendMessage(lane, drains)
       \/ \E target \in Targets, summed \in BOOLEAN : Navigate(lane, target, summed)
       \/ Configure(lane)
       \/ BeforeCompaction(lane)
       \/ CompactByPi(lane)
       \/ CompactByExtension(lane)
       \/ AbandonCompaction(lane)

HistorySpec == HistoryInit /\ [][HistoryNext]_historyVars
-----------------------------------------------------------------------------
(* Properties.                                                             *)

\* PiSessionView.build never refuses a snapshot: IDs are unique, a parent is listed
\* before its child, and every lane's leaf is known. And nothing accepted is left out:
\* each entry of Pi is in the list, however it was accepted, drained or summed up.
Builds(lane) ==
  /\ \A i, j \in DOMAIN entries : entries[i].id = entries[j].id => i = j
  /\ \A i \in DOMAIN entries :
       entries[i].parentId \in {None} \cup {entries[j].id : j \in 1 .. i - 1}
  /\ position[lane].visibleTip \in {None} \cup IdsOf(entries)
SnapshotsBuild ==
  /\ \A lane \in Lanes : Builds(lane)
  /\ {Id(n) : n \in DOMAIN native} \subseteq IdsOf(entries)

\* An extension reads the conversation the model is sent: on every lane the visible
\* branch says what the native one does, although custom entries, metadata and derived
\* nodes make them different trees.  Only a navigation to a custom entry, or to what was
\* placed on the lane after one, sets them apart, and a compaction brings them together.
ContextsAgree ==
  \A lane \in Lanes \ aside :
    VisibleContext(entries, position[lane].visibleTip) = NativeContext(tip[lane])

\* What an extension answers about the branch it was shown can still be committed,
\* although entries it accepted and metadata it changed meanwhile have moved the tip.
AnswersStand ==
  \A lane \in Lanes : ~Idle(lane) =>
    \A kept \in ExtensionKeeps(lane) : BoundaryHolds(lane, kept)
=============================================================================
