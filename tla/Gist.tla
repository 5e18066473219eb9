-------------------------------- MODULE Gist ---------------------------------
(***************************************************************************)
(* A GiST index over a range column under concurrent inserts, scans and    *)
(* VACUUM (access/gist).  A page split is two WAL records: one writes the  *)
(* halves, all but the rightmost flagged F_FOLLOW_RIGHT, and one inserts   *)
(* the downlinks in the parent.  Between them, and forever if the inserter *)
(* dies there, searches find the right half by its rightlink: when the     *)
(* flag is set, or when the NSN of the page is above the LSN its parent    *)
(* had when the downlink was read.                                         *)
(*                                                                         *)
(* A step holds at most the exclusive locks recorded in `lock'; what is    *)
(* done under a shared lock is one step, possible while nobody holds the   *)
(* page exclusively.  A page has room for Capacity tuples; which child     *)
(* gistchoose picks is left open.                                          *)
(***************************************************************************)
EXTENDS RangeSplit

CONSTANTS
    Inserters, Scanners, Vacuum,  \* the backends; Vacuum is the one that vacuums,
    Nobody,                       \* or Nobody
    NumBlocks,     \* bound on the blocks of the index file
    Capacity,      \* index tuples that fit on a page,
    Wide,          \* the heap TIDs whose index tuple takes the place of two
    MaxDeaths,     \* bound on inserts that end in an error or a crash
    MaxVacuums,    \* bound on VACUUMs, one after the other
    TupleKey,      \* the ranges to index, by heap TID
    DeadTuples,    \* the TIDs whose heap tuples are dead to everyone
    Queries,       \* the scan keys
    InitPages,     \* the index at the start
    InitFsm

ASSUME GistAssumption == /\ NumBlocks \in Nat /\ Capacity >= 2
                         /\ Vacuum \notin Inserters \cup Scanners
ASSUME InitPagesAssumption ==
    \A b \in DOMAIN InitPages :
        /\ DOMAIN InitPages[b] = {"kind", "items", "right", "nsn", "follow", "lsn", "keepFor"}
        /\ InitPages[b].lsn \in {0, 1}
        /\ InitPages[b].kind = "inner" => InitPages[b].lsn = 1
        /\ \A c \in DOMAIN InitPages :
             InitPages[b].kind = "leaf" /\ InitPages[c].kind = "deleted"
                 => InitPages[b].lsn # InitPages[c].lsn

VARIABLES
    pages,      \* the buffers of the index, by block number
    lsn,        \* end of the last WAL record
    lock,       \* who holds the buffer content lock exclusively
    ins,        \* what each inserter does: GISTInsertStack and the splits to finish
    scan,       \* GISTScanOpaque of each scanner
    vac,        \* GistVacState
    fsm,        \* the blocks the free space map has as free; it may be out of date
    indexed,    \* the TIDs whose aminsert has returned
    todo,       \* the TIDs still to be indexed
    deaths,
    refind      \* what has come of gistFindCorrectParent but the parent: see below

vars == <<pages, lsn, lock, ins, scan, vac, fsm, indexed, todo, deaths, refind>>

Blocks == 0 .. NumBlocks - 1
Root == 0
Invalid == NumBlocks            \* InvalidBlockNumber

Item(key, ptr) == [key |-> key, ptr |-> ptr, killed |-> FALSE]
Pointers(items) == {items[i].ptr : i \in DOMAIN items}
Killed(item) == [key |-> item.key, ptr |-> item.ptr, killed |-> TRUE]
Page(kind, items) == [kind |-> kind, items |-> items, right |-> Invalid, nsn |-> 0,
                      follow |-> FALSE, lsn |-> 1, keepFor |-> {}]
NewPage == [Page("new", <<>>) EXCEPT !.lsn = 0]

Frame(b, off) == [blkno |-> b, lsn |-> 0, off |-> off, retry |-> FALSE]
Idle == [pc |-> "idle", tid |-> 0, stack |-> <<>>, splits |-> <<>>,
         inserted |-> FALSE, fifo |-> <<>>]
NoScan == [pc |-> "idle", query |-> 0, queue |-> <<>>, found |-> {}, twice |-> FALSE,
           promised |-> {}, cur |-> [blk |-> Invalid, lsn |-> 0, offs |-> {}, last |-> {}]]
NoVacuum == [pc |-> "idle", blkno |-> 0, orig |-> 0, start |-> 0, inner |-> {}, empty |-> {},
             left |-> 0, parent |-> Invalid, todelete |-> <<>>, deleted |-> 0, runs |-> 0]

Init ==
    /\ pages = [b \in Blocks |-> IF b \in DOMAIN InitPages THEN InitPages[b] ELSE NewPage]
    /\ lsn = 1
    /\ lock = [b \in Blocks |-> Nobody]
    /\ ins = [p \in Inserters |-> Idle]
    /\ scan = [s \in Scanners |-> NoScan]
    /\ vac = NoVacuum
    /\ fsm = InitFsm
    /\ indexed = UNION {Pointers(pages[b].items) : b \in {x \in Blocks : pages[x].kind = "leaf"}}
    /\ todo = DOMAIN TupleKey \ indexed
    /\ deaths = 0
    /\ refind = {}

-----------------------------------------------------------------------------
(* Pages.                                                                  *)

Keys(items) == [i \in DOMAIN items |-> items[i].key]

(* range_gist_union: the key of a downlink to a page with these items.     *)
UnionKey(items) == FoldLeft(range_super_union, Head(items).key, Tail(Keys(items)))

(* gistgetadjusted: the key that also covers what is being inserted, or    *)
(* the old one when that does already.                                     *)
Adjusted(old, add) == range_super_union(old, add)
NeedsAdjusting(old, add) == ~range_gist_same(old, Adjusted(old, add))

(* The transactions that were running when the page was deleted may still  *)
(* come to it: deleteXid against RecentGlobalXmin.                         *)
Running(p) == IF p \in Inserters THEN ins[p].pc # "idle" ELSE scan[p].pc # "idle"

(* Mutant: a deleted page is free at once.                                 *)
RecyclableAtOnce(page) == page.kind = "deleted"

gistPageRecyclable(page) ==
    page.kind = "new" \/ (page.kind = "deleted" /\ page.keepFor = {})

NumPages(P) == Cardinality({b \in Blocks : P[b].kind # "new"})

(* What n calls of gistNewBuffer give: blocks of the free space map that   *)
(* are recyclable now, then new ones at the end of the file.  Every block  *)
(* looked at leaves the map.                                               *)
gistNewBuffer(P, n) ==
    LET usable == {b \in fsm : gistPageRecyclable(P[b]) /\ lock[b] = Nobody}
        free == SetToSortSeq(usable, <)
        k == Min({n, Len(free)})
    IN  [blks |-> SubSeq(free, 1, k) \o [i \in 1 .. n - k |-> NumPages(P) + i - 1],
         fsm |-> IF k < n THEN {} ELSE {b \in fsm : k > 0 => b > free[k]}]

Size(kind, items) ==
    Len(items) + Cardinality({i \in DOMAIN items : kind = "leaf" /\ items[i].ptr \in Wide})

(* gistnospace; only downlinks are replaced, and those are all alike.      *)
gistnospace(page, new, off) ==
    Size(page.kind, page.items) + Size(page.kind, new) - (IF off = 0 THEN 0 ELSE 1) > Capacity

(* gistprunepage, before a full leaf is split: drop what gistkillitems     *)
(* marked.                                                                 *)
gistprunepage(page, recptr) ==
    IF \E i \in DOMAIN page.items : page.items[i].killed
    THEN [page EXCEPT !.items = SelectSeq(@, LAMBDA it : ~it.killed), !.lsn = recptr]
    ELSE page

(* gistSplit: two pages as picksplit divides the tuples; a half that does  *)
(* not fit a page is divided again.                                        *)
Dealt(items, d) == <<[i \in DOMAIN d.left |-> items[d.left[i]]],
                     [i \in DOMAIN d.right |-> items[d.right[i]]]>>
Divided(items) == Dealt(items, gistUserPicksplit(Keys(items)))
Fitting(kind, half) == IF Size(kind, half) <= Capacity THEN <<half>> ELSE Divided(half)
FittingHalves(kind, two) == Fitting(kind, two[1]) \o Fitting(kind, two[2])
gistSplit(kind, items) == FittingHalves(kind, Divided(items))

-----------------------------------------------------------------------------
(* gistplacetopage.  Its outcome is a record of the pages after the WAL    *)
(* record and the halves of a split whose downlinks the caller owes.       *)

(* The left child of the downlink inserted: searches that read the parent  *)
(* from now on need not follow its rightlink, earlier ones must.           *)

MarkLeftChild(P, left, recptr) ==
    IF left = Invalid THEN P
    ELSE [P EXCEPT ![left].nsn = recptr, ![left].follow = FALSE, ![left].lsn = recptr]

(* Mutant: the halves are not flagged.                                     *)
HalfUnflagged(old, isroot, items, next, recptr) ==
    [Page(old.kind, items) EXCEPT
        !.right = IF next # Invalid \/ isroot THEN next ELSE old.right,
        !.nsn = IF isroot THEN 0 ELSE old.nsn,
        !.lsn = recptr]

(* One page of a split: `next' is its right neighbour in the split.        *)
Half(old, isroot, items, next, recptr) ==
    [Page(old.kind, items) EXCEPT
        !.right = IF next # Invalid \/ isroot THEN next ELSE old.right,
        !.nsn = IF isroot THEN 0 ELSE old.nsn,
        !.follow = next # Invalid /\ ~isroot,
        !.lsn = recptr]

Downlinks(blks, halves) == [i \in DOMAIN blks |-> Item(UnionKey(halves[i]), blks[i])]

(* lsn1 is the WAL position before the record, new what gistNewBuffer gave. *)
Placed(P, b, halves, left, lsn1, new) ==
    LET isroot == b = Root
        n == Len(halves)
        blks == IF isroot THEN new.blks ELSE <<b>> \o new.blks
        next(i) == IF i = n THEN Invalid ELSE blks[i + 1]
        after == [x \in Blocks |->
                    IF x \in Range(blks)
                    THEN LET i == CHOOSE j \in 1 .. n : blks[j] = x
                         IN  Half(P[b], isroot, halves[i], next(i), lsn1 + 1)
                    ELSE IF x = b
                    THEN [Page("inner", Downlinks(blks, halves)) EXCEPT !.lsn = lsn1 + 1]
                    ELSE P[x]]
    IN  [pages |-> MarkLeftChild(after, left, lsn1 + 1), lsn |-> lsn1 + 1, split |-> TRUE,
         fsm |-> new.fsm, halves |-> IF isroot THEN <<>> ELSE Downlinks(blks, halves)]

PlaceWithSplit(P, b, halves, left, lsn1) ==
    Placed(P, b, halves, left, lsn1, gistNewBuffer(P, IF b = Root THEN Len(halves) ELSE Len(halves) - 1))

PlaceWithoutSplit(P, b, items, left, lsn1) ==
    [pages |-> MarkLeftChild([P EXCEPT ![b].items = items, ![b].lsn = lsn1 + 1], left, lsn1 + 1),
     lsn |-> lsn1 + 1, split |-> FALSE, fsm |-> fsm, halves |-> <<>>]

(* A single tuple overwrites the old one in place; otherwise the old one   *)
(* goes and the new ones are appended.                                     *)
gistplacetopage(b, new, off, left) ==
    LET prune == /\ gistnospace(pages[b], new, off) /\ pages[b].kind = "leaf"
                 /\ \E i \in DOMAIN pages[b].items : pages[b].items[i].killed
        P == IF prune THEN [pages EXCEPT ![b] = gistprunepage(@, lsn + 1)] ELSE pages
        lsn1 == IF prune THEN lsn + 1 ELSE lsn
        old == P[b].items
    IN  IF gistnospace(P[b], new, off)
        THEN PlaceWithSplit(P, b, gistSplit(P[b].kind, (IF off = 0 THEN old ELSE RemoveAt(old, off)) \o new),
                            left, lsn1)
        ELSE PlaceWithoutSplit(P, b, IF off = 0 THEN old \o new
                                     ELSE IF Len(new) = 1 THEN [old EXCEPT ![off] = new[1]]
                                     ELSE RemoveAt(old, off) \o new, left, lsn1)

-----------------------------------------------------------------------------
(* gistdoinsert: down the tree.                                            *)

Top(p) == Head(ins[p].stack)
Split(at, halves, unlock) == [at |-> at, halves |-> halves, unlock |-> unlock, form |-> FALSE]

(* The end of p's transaction, which old pages may have been kept for.     *)
Ended(P, p) == [b \in Blocks |-> [P[b] EXCEPT !.keepFor = @ \ {p}]]
ReleaseAll(p) == lock' = [b \in Blocks |-> IF lock[b] = p THEN Nobody ELSE lock[b]]

(* Up to the nearest frame that no split of ours went through.             *)
Retried(stack) ==
    LET i == CHOOSE j \in DOMAIN stack : ~stack[j].retry /\ \A k \in 1 .. j - 1 : stack[k].retry
    IN  SubSeq(stack, i, Len(stack))

(* Pop the top frame and look at its parent again.                         *)
BackToParent(p) ==
    [ins[p] EXCEPT !.pc = "visit", !.stack = Retried(Tail(@)), !.splits = <<>>]

Unlocked(b) == [lock EXCEPT ![b] = Nobody]
AlsoLocked(p, blks) == [b \in Blocks |-> IF b \in blks THEN p ELSE lock[b]]

BeginInsert(p) ==
    /\ ins[p].pc = "idle" /\ todo # {}
    /\ ins' = [ins EXCEPT ![p] = [Idle EXCEPT !.pc = "visit", !.tid = Min(todo),
                                              !.stack = <<Frame(Root, 0)>>]]
    /\ todo' = todo \ {Min(todo)}
    /\ UNCHANGED <<pages, lsn, lock, scan, vac, fsm, indexed, deaths, refind>>

(* The page is read under a shared lock in "visit", under an exclusive one *)
(* in "xvisit".                                                            *)
Visits(p) == \/ ins[p].pc = "visit" /\ lock[Top(p).blkno] = Nobody
             \/ ins[p].pc = "xvisit" /\ lock[Top(p).blkno] \in {Nobody, p}
Exclusively(p) == ins[p].pc = "xvisit"

(* Mutant: an exclusive lock is kept on the way down.                      *)
ReleasedOnDescentLate(p) ==
    [lock EXCEPT ![Top(p).blkno] = IF ins[p].pc = "xvisit" THEN p ELSE Nobody]

ReleasedOnDescent(p) == Unlocked(Top(p).blkno)

(* Swap the shared lock for an exclusive one and look again.               *)
SwapsLock(p) == ins' = [ins EXCEPT ![p].pc = "xvisit"] /\ UNCHANGED lock

(* Mutant: the NSN is not looked at.                                       *)
StaleDownlinkNoNSN(stack, page) == page.kind = "deleted"

(* Mutant: nor is the flag of a deleted page.                              *)
StaleDownlinkNotDeleted(stack, page) == Len(stack) > 1 /\ stack[2].lsn < page.nsn

(* The page was split or deleted since its downlink was read.              *)
StaleDownlink(stack, page) ==
    \/ Len(stack) > 1 /\ stack[2].lsn < page.nsn
    \/ page.kind = "deleted"

(* Somebody died between the two records of a split: finish it first.      *)
MeetIncompleteSplit(p) ==
    /\ Visits(p)
    /\ pages[Top(p).blkno].follow
    /\ IF ~Exclusively(p) THEN SwapsLock(p)
       ELSE /\ ins' = [ins EXCEPT ![p].pc = "chain", ![p].splits = <<Split(1, <<>>, FALSE)>>]
            /\ lock' = AlsoLocked(p, {Top(p).blkno})
    /\ UNCHANGED <<pages, lsn, scan, vac, fsm, indexed, todo, deaths, refind>>

MeetConcurrentSplit(p) ==
    /\ Visits(p)
    /\ ~pages[Top(p).blkno].follow
    /\ StaleDownlink(ins[p].stack, pages[Top(p).blkno])
    /\ lock' = Unlocked(Top(p).blkno)
    /\ ins' = [ins EXCEPT ![p] = BackToParent(p)]
    /\ UNCHANGED <<pages, lsn, scan, vac, fsm, indexed, todo, deaths, refind>>

VisitsGood(p, kind) ==
    /\ Visits(p)
    /\ ~pages[Top(p).blkno].follow
    /\ ~StaleDownlink(ins[p].stack, pages[Top(p).blkno])
    /\ pages[Top(p).blkno].kind = kind

(* Mutant: the LSN first seen is kept when the page is read again.         *)
DescendedKeepsLSN(p, i) ==
    LET page == pages[Top(p).blkno]
    IN  [ins[p] EXCEPT !.pc = "visit",
                       !.stack = <<Frame(page.items[i].ptr, i),
                                   [Top(p) EXCEPT !.lsn = IF @ = 0 THEN page.lsn ELSE @]>> \o Tail(@)]

(* The frame of the inner page keeps the LSN it was read at.               *)
Descended(p, i) ==
    LET page == pages[Top(p).blkno]
    IN  [ins[p] EXCEPT !.pc = "visit",
                       !.stack = <<Frame(page.items[i].ptr, i), [Top(p) EXCEPT !.lsn = page.lsn]>>
                                 \o Tail(@)]

Descend(p) ==
    /\ VisitsGood(p, "inner")
    /\ \E i \in DOMAIN pages[Top(p).blkno].items :
         IF NeedsAdjusting(pages[Top(p).blkno].items[i].key, TupleKey[ins[p].tid])
         THEN ~Exclusively(p) /\ SwapsLock(p)
         ELSE ins' = [ins EXCEPT ![p] = Descended(p, i)] /\ lock' = ReleasedOnDescent(p)
    /\ UNCHANGED <<pages, lsn, scan, vac, fsm, indexed, todo, deaths, refind>>

(* The key of the chosen child is widened first.  If that splits the page, *)
(* the choice is made again: at the parent, or here when this is the root. *)
AdjustKey(p) ==
    LET b == Top(p).blkno IN
    /\ VisitsGood(p, "inner") /\ Exclusively(p)
    /\ \E i \in DOMAIN pages[b].items :
         LET it == pages[b].items[i]
             key == TupleKey[ins[p].tid]
         IN  /\ NeedsAdjusting(it.key, key)
             /\ \E o \in {gistplacetopage(b, <<[it EXCEPT !.key = Adjusted(it.key, key)]>>, i, Invalid)} :
                  /\ pages' = o.pages
                  /\ lsn' = o.lsn /\ fsm' = o.fsm
                  /\ CASE ~o.split ->
                            ins' = [ins EXCEPT ![p] = Descended(p, i)] /\ lock' = ReleasedOnDescent(p)
                       [] o.split /\ o.halves = <<>> -> UNCHANGED ins /\ lock' = AlsoLocked(p, {b})
                       [] OTHER ->
                            /\ ins' = [ins EXCEPT ![p].pc = "parent",
                                                  ![p].splits = <<Split(1, o.halves, FALSE)>>]
                            /\ lock' = AlsoLocked(p, Pointers(o.halves))
    /\ UNCHANGED <<scan, vac, indexed, todo, deaths, refind>>

(* At a leaf the lock is swapped and the page looked at again: it may have *)
(* been split, or have been a root that is no leaf any more.               *)
ReachLeaf(p) ==
    /\ VisitsGood(p, "leaf") /\ ~Exclusively(p)
    /\ ins' = [ins EXCEPT ![p].pc = "leaf"]
    /\ UNCHANGED <<pages, lsn, lock, scan, vac, fsm, indexed, todo, deaths, refind>>

LeafChanged(stack, page) ==
    IF Len(stack) = 1 THEN page.kind # "leaf" ELSE page.follow \/ StaleDownlink(stack, page)

LeafTaken(p) ==
    LET b == Top(p).blkno IN
    /\ ins[p].pc = "leaf" /\ lock[b] = Nobody
    /\ LeafChanged(ins[p].stack, pages[b])
    /\ ins' = [ins EXCEPT ![p] = IF b = Root THEN [@ EXCEPT !.pc = "visit"] ELSE BackToParent(p)]
    /\ UNCHANGED <<pages, lsn, lock, scan, vac, fsm, indexed, todo, deaths, refind>>

(* The leaf is locked and found unchanged.                                 *)
TakesLeaf(p) ==
    \/ /\ ins[p].pc = "leaf" /\ lock[Top(p).blkno] = Nobody
       /\ ~LeafChanged(ins[p].stack, pages[Top(p).blkno])
    \/ VisitsGood(p, "leaf") /\ Exclusively(p)

InsertInLeaf(p) ==
    LET b == Top(p).blkno IN
    /\ TakesLeaf(p)
    /\ \E o \in {gistplacetopage(b, <<Item(TupleKey[ins[p].tid], ins[p].tid)>>, 0, Invalid)} :
         /\ lsn' = o.lsn /\ fsm' = o.fsm
         /\ IF o.halves = <<>>
            THEN /\ pages' = Ended(o.pages, p)
                 /\ ins' = [ins EXCEPT ![p] = Idle]
                 /\ indexed' = indexed \cup {ins[p].tid}
                 /\ ReleaseAll(p)
            ELSE /\ pages' = o.pages
                 /\ ins' = [ins EXCEPT ![p].pc = "parent", ![p].inserted = TRUE,
                                       ![p].splits = <<Split(1, o.halves, FALSE)>>]
                 /\ UNCHANGED indexed
                 /\ lock' = AlsoLocked(p, Pointers(o.halves))
    /\ UNCHANGED <<scan, vac, todo, deaths, refind>>

-----------------------------------------------------------------------------
(* gistfinishsplit and gistfixsplit: up the tree.                          *)

ThisSplit(p) == Head(ins[p].splits)
ChildFrame(p) == ins[p].stack[ThisSplit(p).at]
ParentFrame(p) == ins[p].stack[ThisSplit(p).at + 1]
ParentPage(p) == pages[ParentFrame(p).blkno]

(* A page can be had when nobody has it locked, or when this backend has   *)
(* kept the lock: of a root it has split, of the page it is to complete, or *)
(* of a parent it has put a downlink on.  To ask again for the lock of a   *)
(* half it holds would be to wait for itself.                              *)
KeptLock(p, b) ==
    CASE ins[p].pc = "xvisit" -> TRUE
      [] ins[p].pc = "chain" -> ThisSplit(p).halves = <<>>
      [] ins[p].pc = "parent" -> \A i \in DOMAIN ins[p].splits : b \notin Pointers(ins[p].splits[i].halves)
      [] OTHER -> FALSE
Available(p, b) == lock[b] = Nobody \/ (lock[b] = p /\ KeptLock(p, b))

(* gistfixsplit follows the rightlinks of the halves and forms a downlink  *)
(* for each.  For an empty page gistformdownlink takes the key of the      *)
(* downlink that the first page has.                                       *)
NextHalf(p) == LET halves == ThisSplit(p).halves
               IN  IF halves = <<>> THEN Top(p).blkno ELSE pages[Last(halves).ptr].right
MoreHalves(p) == LET halves == ThisSplit(p).halves
                 IN  halves = <<>> \/ pages[Last(halves).ptr].follow

CollectHalves(p) ==
    LET sp == ThisSplit(p)
        b == NextHalf(p)
    IN  /\ ins[p].pc = "chain"
        /\ IF ~MoreHalves(p) THEN ins' = [ins EXCEPT ![p].pc = "parent"] /\ UNCHANGED lock
           ELSE /\ Available(p, b)
                /\ lock' = [lock EXCEPT ![b] = p]
                /\ ins' = [ins EXCEPT ![p] =
                     IF pages[b].items = <<>>
                     THEN [@ EXCEPT !.pc = "parent",
                                    !.splits = <<[sp EXCEPT !.form = TRUE]>>]
                     ELSE [@ EXCEPT !.splits =
                             <<[sp EXCEPT !.halves = Append(@, Item(UnionKey(pages[b].items), b))]>>]]
        /\ UNCHANGED <<pages, lsn, scan, vac, fsm, indexed, todo, deaths, refind>>

(* The parent is locked exclusively while the halves stay locked.          *)
LocksParent(p) == ins[p].pc = "parent" /\ Available(p, ParentFrame(p).blkno)

(* gistFindCorrectParent: where the downlink is, if on this page.          *)
DownlinkOffsets(child, parent, page) ==
    IF child.off # 0 /\ parent.lsn = page.lsn THEN {child.off}
    ELSE {i \in DOMAIN page.items : page.items[i].ptr = child.blkno}

ParentOffsets(p) == DownlinkOffsets(ChildFrame(p), ParentFrame(p), ParentPage(p))

(* The outcomes recorded in refind: "failed", the parent is not found and  *)
(* that is an error; "wrong", the downlink found leads to another page;    *)
(* "beyond", the search for it went right from a page whose own split was  *)
(* left incomplete, to a page that has no downlink yet; "unchecked",       *)
(* gistfixsplit was called for a page that had been split since its        *)
(* downlink was read, and its parent was found on another path than the    *)
(* one on which the insert has made the keys cover the new tuple.          *)
Beyond(p) == {x \in {"beyond"} : ParentPage(p).follow}
Unchecked(p) == {x \in {"unchecked"} : /\ ThisSplit(p).at = 1 /\ ~ins[p].inserted
                                       /\ StaleDownlink(ins[p].stack, pages[Top(p).blkno])}

(* Not here: try the right sibling, and after the last one the whole tree. *)
ParentMoved(p) ==
    LET at == ThisSplit(p).at
        b == ParentFrame(p).blkno
    IN  /\ LocksParent(p) /\ ParentOffsets(p) = {}
        /\ lock' = Unlocked(b)
        /\ ins' = [ins EXCEPT ![p] =
             IF pages[b].right # Invalid
             THEN [@ EXCEPT !.pc = "parent", !.stack[at].off = 0,
                            !.stack[at + 1].blkno = pages[b].right]
             ELSE [@ EXCEPT !.pc = "findpath", !.fifo = << <<Frame(Root, 0)>> >>]]
        /\ refind' = refind \cup Beyond(p) \cup Unchecked(p)
        /\ UNCHANGED <<pages, lsn, scan, vac, fsm, indexed, todo, deaths>>

(* The error of an inserter, or its death: all it owes is left undone.     *)
Failed(p) ==
    /\ ReleaseAll(p)
    /\ pages' = Ended(pages, p)
    /\ ins' = [ins EXCEPT ![p] = Idle]
    /\ UNCHANGED <<lsn, scan, vac, fsm, indexed, todo>>

(* Mutant: only the flag, which is an error, tells of splits.              *)
RightOfSplitNone(path, page) == <<>>

(* The page was split since its downlink was read: the child may be right. *)
RightOfSplit(path, page) ==
    IF Len(path) > 1 /\ path[2].lsn < page.nsn /\ page.right # Invalid
    THEN << <<Frame(page.right, 0)>> \o Tail(path) >> ELSE <<>>

(* gistFindPath: breadth first from the root, one shared lock at a time.   *)
(* Coming to a leaf, which a deleted page still is by its flags, or to the *)
(* end of the queue, is the error "failed to re-find parent of a page".    *)
FindPath(p) ==
    LET path == Head(ins[p].fifo)
        page == pages[path[1].blkno]
        here == <<[path[1] EXCEPT !.lsn = page.lsn]>> \o Tail(path)
        hits == {i \in DOMAIN page.items : page.items[i].ptr = ChildFrame(p).blkno}
        children == [i \in DOMAIN page.items |-> <<Frame(page.items[i].ptr, i)>> \o here]
        at == ThisSplit(p).at
    IN  /\ ins[p].pc = "findpath"
        /\ ins[p].fifo # <<>> => lock[path[1].blkno] = Nobody
        /\ IF ins[p].fifo = <<>> \/ page.kind \in {"leaf", "deleted"}
           THEN Failed(p) /\ refind' = refind \cup {"failed"}
           ELSE /\ page.kind = "inner" /\ ~page.follow
                /\ ins' = [ins EXCEPT ![p] =
                     IF hits = {} THEN [@ EXCEPT !.fifo = RightOfSplit(path, page) \o Tail(@) \o children]
                     ELSE [@ EXCEPT !.pc = "parent", !.fifo = <<>>,
                                    !.stack = Append(SubSeq(@, 1, at - 1),
                                                     [@[at] EXCEPT !.off = Min(hits)]) \o here]]
                /\ UNCHANGED <<pages, lsn, lock, scan, vac, fsm, indexed, todo, refind>>
        /\ UNCHANGED deaths

(* "concurrent GiST page split was incomplete"                             *)
ParentIncomplete(p) ==
    /\ \/ /\ ins[p].pc = "findpath" /\ ins[p].fifo # <<>>
          /\ LET b == Head(ins[p].fifo)[1].blkno
             IN  lock[b] = Nobody /\ pages[b].kind = "inner" /\ pages[b].follow
       \/ /\ LocksParent(p) /\ ParentOffsets(p) # {} /\ ~ThisSplit(p).form
          /\ ParentPage(p).follow
    /\ Failed(p) /\ UNCHANGED <<refind, deaths>>

FormDownlink(p) ==
    LET sp == ThisSplit(p)
        off == Min(ParentOffsets(p))
    IN  /\ LocksParent(p) /\ ParentOffsets(p) # {} /\ sp.form
        /\ lock' = Unlocked(ParentFrame(p).blkno)
        /\ ins' = [ins EXCEPT ![p].pc = "chain", ![p].stack[1].off = off,
                              ![p].splits = <<[sp EXCEPT !.form = FALSE,
                                 !.halves = Append(@, Item(ParentPage(p).items[off].key, NextHalf(p)))]>>]
        /\ UNCHANGED <<pages, lsn, scan, vac, fsm, indexed, todo, deaths, refind>>

(* The downlinks one gistinserttuples call inserts: the rightmost alone    *)
(* while there are more than two, the last two in place of the old one.    *)
NewDownlinks(halves) == IF Len(halves) = 2 THEN halves ELSE <<Last(halves)>>

(* What follows when the last split of the insert is finished.             *)
FinishedSplits(p, r) ==
    IF r.inserted THEN Idle
    ELSE [r EXCEPT !.pc = "visit", !.stack = Retried(Tail(@))]

(* The parent is locked, and the downlink of the child is on it.           *)
TakesParent(p) ==
    LocksParent(p) /\ ParentOffsets(p) # {} /\ ~ThisSplit(p).form /\ ~ParentPage(p).follow

InsertDownlinks(p) ==
    LET sp == ThisSplit(p)
        final == Len(sp.halves) = 2
        off == Min(ParentOffsets(p))
        pb == ParentFrame(p).blkno
        left == sp.halves[Len(sp.halves) - 1].ptr
        right == Last(sp.halves).ptr
        rest == IF final THEN Tail(ins[p].splits)
                ELSE <<[sp EXCEPT !.halves = Front(@)]>> \o Tail(ins[p].splits)
    IN  /\ TakesParent(p)
        /\ \E o \in {gistplacetopage(pb, NewDownlinks(sp.halves), IF final THEN off ELSE 0, left)} :
             LET owed == o.halves # <<>>
                 splits == IF owed THEN <<Split(sp.at + 1, o.halves, final)>> \o rest ELSE rest
                 next == [ins[p] EXCEPT !.splits = splits,
                                        !.stack[sp.at].off = IF o.split THEN 0 ELSE off,
                                        !.stack[sp.at].retry = @ \/ final]
                 done == splits = <<>>
             IN  /\ lsn' = o.lsn /\ fsm' = o.fsm
                 /\ pages' = IF done /\ next.inserted THEN Ended(o.pages, p) ELSE o.pages
                 /\ ins' = [ins EXCEPT ![p] = IF done THEN FinishedSplits(p, next) ELSE next]
                 /\ indexed' = IF done /\ next.inserted THEN indexed \cup {ins[p].tid} ELSE indexed
                 /\ IF done THEN ReleaseAll(p)
                    ELSE lock' = [x \in Blocks |->
                           IF x = right \/ (x = left /\ final /\ sp.unlock)
                              \/ (x = pb /\ final /\ ~owed) THEN Nobody
                           ELSE IF x = pb \/ x \in Pointers(o.halves) THEN p ELSE lock[x]]
        /\ refind' = refind \cup {x \in {"wrong"} : ParentPage(p).items[off].ptr # ChildFrame(p).blkno}
        /\ UNCHANGED <<scan, vac, todo, deaths>>

(* A backend may be cancelled or crash anywhere between two WAL records;   *)
(* recovery replays the records, each of them whole.                       *)
Die(p) ==
    /\ ins[p].pc # "idle" /\ deaths < MaxDeaths
    /\ deaths' = deaths + 1
    /\ Failed(p) /\ UNCHANGED refind

-----------------------------------------------------------------------------
(* Scans: gistgettuple, gistScanPage, gistkillitems.                       *)

BeginScan(s) ==
    /\ scan[s].pc = "idle"
    /\ \E q \in Queries :
         scan' = [scan EXCEPT ![s] =
           [NoScan EXCEPT !.pc = "scan", !.query = q, !.queue = <<[blkno |-> Root, parentlsn |-> 0]>>,
                          !.promised = {t \in indexed \ DeadTuples :
                                          range_gist_consistent(TRUE, TupleKey[t], q)}]]
    /\ UNCHANGED <<pages, lsn, lock, ins, vac, fsm, indexed, todo, deaths, refind>>

(* Mutant: only the flag is looked at.                                     *)
FollowsRightFlagOnly(item, page) == item.parentlsn # 0 /\ page.right # Invalid /\ page.follow

(* The page was split since the downlink to it was read, or its split was  *)
(* never finished.                                                         *)
FollowsRight(item, page) ==
    /\ item.parentlsn # 0 /\ page.right # Invalid
    /\ page.follow \/ item.parentlsn < page.nsn

Matches(page, query) ==
    {i \in DOMAIN page.items :
        /\ ~page.items[i].killed
        /\ range_gist_consistent(page.kind = "leaf", page.items[i].key, query)}
Downward(page, match) ==
    [i \in 1 .. Cardinality(match) |->
        [blkno |-> page.items[SetToSortSeq(match, <)[i]].ptr, parentlsn |-> page.lsn]]

(* On a leaf all matches are returned; the caller finds some of them dead  *)
(* to everyone, and killedItems gets their offsets.  cur.last is the last  *)
(* entry of pageData, if it is one of those.                               *)
Returned(sc, page, match) ==
    LET tids == {page.items[i].ptr : i \in match}
        dead == {i \in match : page.items[i].ptr \in DeadTuples}
    IN  [sc EXCEPT !.found = @ \cup tids, !.twice = @ \/ tids \cap sc.found # {},
                   !.cur.offs = dead, !.cur.last = {i \in dead : \A j \in match : j <= i}]

(* curPageLSN and pageData are of this page now.                           *)
ReadPage(sc, page, match) ==
    LET read == [sc EXCEPT !.cur.lsn = page.lsn, !.cur.offs = {}, !.cur.last = {}]
    IN  IF page.kind = "leaf" THEN Returned(read, page, match)
        ELSE [read EXCEPT !.queue = @ \o Downward(page, match)]

(* On a deleted page gistScanPage returns before it resets them, so that   *)
(* gistgettuple comes by the last tuple of pageData again and, if that was *)
(* dead, puts its offset in killedItems, for the block it has just taken   *)
(* off the queue.                                                          *)
MetDeleted(sc) == [sc EXCEPT !.cur.offs = sc.cur.last]

(* There are killedItems and a block they are for; reading the root, which *)
(* is not on the queue, sets none.                                         *)
HasToKill(cur) == cur.blk # Invalid /\ cur.offs # {}

(* The queue gives its items in any order.                                 *)
gistScanPage(s) ==
    /\ scan[s].pc = "scan" /\ ~HasToKill(scan[s].cur)
    /\ \E n \in DOMAIN scan[s].queue :
         LET item == scan[s].queue[n]
             page == pages[item.blkno]
             right == IF FollowsRight(item, page) THEN <<[item EXCEPT !.blkno = page.right]>> ELSE <<>>
             match == Matches(page, scan[s].query)
             rest == [scan[s] EXCEPT !.queue = RemoveAt(@, n) \o right,
                                     !.cur.blk = IF item.parentlsn = 0 THEN Invalid ELSE item.blkno]
         IN  /\ item.blkno \in Blocks /\ lock[item.blkno] = Nobody
             /\ scan' = [scan EXCEPT ![s] = IF page.kind = "deleted" THEN MetDeleted(rest)
                                            ELSE ReadPage(rest, page, match)]
    /\ UNCHANGED <<pages, lsn, lock, ins, vac, fsm, indexed, todo, deaths, refind>>

(* LP_DEAD goes to the remembered offsets only if the page is as it was.   *)
MayKill(page, cur) == page.lsn = cur.lsn

gistkillitems(s) ==
    LET cur == scan[s].cur IN
    /\ scan[s].pc = "scan" /\ HasToKill(cur)
    /\ lock[cur.blk] = Nobody
    /\ pages' = [pages EXCEPT ![cur.blk].items =
                   IF MayKill(pages[cur.blk], cur)
                   THEN [i \in DOMAIN @ |-> IF i \in cur.offs THEN Killed(@[i]) ELSE @[i]]
                   ELSE @]
    /\ scan' = [scan EXCEPT ![s].cur.offs = {}]
    /\ UNCHANGED <<lsn, lock, ins, vac, fsm, indexed, todo, deaths, refind>>

EndScan(s) ==
    /\ scan[s].pc = "scan" /\ scan[s].queue = <<>> /\ ~HasToKill(scan[s].cur)
    /\ scan' = [scan EXCEPT ![s].pc = "done", ![s].cur = NoScan.cur]
    /\ pages' = Ended(pages, s)
    /\ UNCHANGED <<lsn, lock, ins, vac, fsm, indexed, todo, deaths, refind>>

-----------------------------------------------------------------------------
(* VACUUM: gistvacuumscan goes over the file in physical order.            *)

(* startNSN may lag behind the last record, which only makes RecurseTo     *)
(* look at more pages.                                                     *)
BeginVacuum ==
    /\ vac.pc \in {"idle", "done"} /\ Vacuum # Nobody /\ vac.runs < MaxVacuums
    /\ vac' = [NoVacuum EXCEPT !.pc = "scan", !.start = lsn, !.runs = vac.runs + 1]
    /\ UNCHANGED <<pages, lsn, lock, ins, scan, fsm, indexed, todo, deaths, refind>>

(* Mutant: never back to a page already passed.                            *)
RecurseToNowhere(page) == Invalid

(* A split since the start may have moved tuples to a page already passed. *)
RecurseTo(page) ==
    IF (page.follow \/ vac.start < page.nsn) /\ page.right # Invalid /\ page.right < vac.orig
    THEN page.right ELSE Invalid

(* Mutant: the page keeps its LSN.                                         *)
VacuumedUnstamped(page, remain, recptr) == [page EXCEPT !.items = remain]

Vacuumed(page, remain, recptr) == [page EXCEPT !.items = remain, !.lsn = recptr]

gistvacuumpage ==
    LET b == vac.blkno
        page == pages[b]
        leaf == page.kind = "leaf"
        remain == SelectSeq(page.items, LAMBDA it : it.ptr \notin DeadTuples)
        removes == leaf /\ remain # page.items
        again == IF leaf THEN RecurseTo(page) ELSE Invalid
        noted == b = vac.orig
    IN  /\ vac.pc = "scan" /\ lock[b] = Nobody
        /\ pages' = IF removes THEN [pages EXCEPT ![b] = Vacuumed(@, remain, lsn + 1)] ELSE pages
        /\ lsn' = IF removes THEN lsn + 1 ELSE lsn
        /\ vac' = [vac EXCEPT
             !.inner = IF page.kind = "inner" /\ noted THEN @ \cup {b} ELSE @,
             !.empty = IF leaf /\ remain = <<>> /\ noted THEN @ \cup {b} ELSE @,
             !.left = IF leaf /\ remain = <<>> /\ noted THEN @ + 1 ELSE @,
             !.blkno = IF again # Invalid THEN again ELSE vac.orig + 1,
             !.orig = IF again # Invalid THEN @ ELSE @ + 1,
             !.pc = IF again # Invalid \/ vac.orig + 1 < NumPages(pages) THEN "scan" ELSE "inner"]
        /\ fsm' = IF gistPageRecyclable(page) THEN fsm \cup {b} ELSE fsm
        /\ UNCHANGED <<lock, ins, scan, indexed, todo, deaths, refind>>

(* gistvacuum_delete_empty_pages: the downlinks to empty leaves on the     *)
(* next inner page, one downlink at least being spared.                    *)
FindEmptyChildren ==
    LET b == Min(vac.inner)
        items == pages[b].items
        hits == SelectSeq([i \in DOMAIN items |-> [off |-> i, leaf |-> items[i].ptr]],
                          LAMBDA d : d.leaf \in vac.empty)
        n == Min({Len(hits), Len(items) - 1})
    IN  /\ vac.pc = "inner" /\ vac.left > 0 /\ vac.inner # {}
        /\ lock[b] = Nobody
        /\ vac' = [vac EXCEPT !.pc = "lockleaf", !.parent = b, !.inner = @ \ {b}, !.deleted = 0,
                              !.todelete = SubSeq(hits, 1, n), !.left = @ - n]
        /\ UNCHANGED <<pages, lsn, lock, ins, scan, fsm, indexed, todo, deaths, refind>>

EndVacuum ==
    /\ vac.pc = "inner" /\ (vac.left = 0 \/ vac.inner = {})
    /\ vac' = [NoVacuum EXCEPT !.pc = "done", !.runs = vac.runs]
    /\ UNCHANGED <<pages, lsn, lock, ins, scan, fsm, indexed, todo, deaths, refind>>

(* The child is locked before the parent, as by an insert.                 *)
DeleteOrder(parent, leaf) == <<leaf, parent>>

LockEmptyLeaf ==
    LET first == DeleteOrder(vac.parent, Head(vac.todelete).leaf)[1] IN
    /\ vac.pc = "lockleaf"
    /\ IF vac.todelete = <<>> \/ Len(pages[vac.parent].items) = 1
       THEN vac' = [vac EXCEPT !.pc = "inner", !.todelete = <<>>] /\ UNCHANGED lock
       ELSE /\ lock[first] = Nobody
            /\ lock' = [lock EXCEPT ![first] = Vacuum]
            /\ vac' = [vac EXCEPT !.pc = "delete"]
    /\ UNCHANGED <<pages, lsn, ins, scan, fsm, indexed, todo, deaths, refind>>

Deletable(leaf, parent, blk, off) ==
    /\ leaf.kind # "inner" /\ ~leaf.follow /\ leaf.items = <<>>
    /\ parent.kind = "inner"
    /\ Len(parent.items) > 1 /\ off <= Len(parent.items) /\ parent.items[off].ptr = blk

(* The deleted page keeps its rightlink and NSN for the scans under way.   *)
gistdeletepage ==
    LET d == Head(vac.todelete)
        off == d.off - vac.deleted
        ok == Deletable(pages[d.leaf], pages[vac.parent], d.leaf, off)
        order == DeleteOrder(vac.parent, d.leaf)
    IN  /\ vac.pc = "delete" /\ lock[order[2]] = Nobody
        /\ pages' = IF ~ok THEN pages
                    ELSE [pages EXCEPT ![d.leaf].kind = "deleted", ![d.leaf].lsn = lsn + 1,
                                       ![d.leaf].items = <<>>,
                                       ![d.leaf].keepFor = {p \in Inserters \cup Scanners : Running(p)},
                                       ![vac.parent].items = RemoveAt(@, off),
                                       ![vac.parent].lsn = lsn + 1]
        /\ lsn' = IF ok THEN lsn + 1 ELSE lsn
        /\ lock' = Unlocked(order[1])
        /\ vac' = [vac EXCEPT !.pc = "lockleaf", !.todelete = Tail(@),
                              !.deleted = IF ok THEN @ + 1 ELSE @]
        /\ UNCHANGED <<ins, scan, fsm, indexed, todo, deaths, refind>>

-----------------------------------------------------------------------------
InsertStep(p) ==
    \/ MeetIncompleteSplit(p) \/ MeetConcurrentSplit(p) \/ Descend(p)
    \/ AdjustKey(p) \/ ReachLeaf(p) \/ LeafTaken(p) \/ InsertInLeaf(p)
    \/ CollectHalves(p) \/ ParentMoved(p) \/ FindPath(p)
    \/ ParentIncomplete(p) \/ FormDownlink(p) \/ InsertDownlinks(p)
ScanStep(s) == gistScanPage(s) \/ gistkillitems(s) \/ EndScan(s)
VacuumStep == gistvacuumpage \/ FindEmptyChildren \/ EndVacuum \/ LockEmptyLeaf \/ gistdeletepage

(* Everything asked for has been done.                                     *)
Finished ==
    /\ todo = {} /\ \A p \in Inserters : ins[p].pc = "idle"
    /\ \A s \in Scanners : scan[s].pc = "done"
    /\ (vac.pc = "done" /\ vac.runs = MaxVacuums) \/ Vacuum = Nobody
    /\ UNCHANGED vars

Next ==
    \/ \E p \in Inserters : BeginInsert(p) \/ InsertStep(p) \/ Die(p)
    \/ \E s \in Scanners : BeginScan(s) \/ ScanStep(s)
    \/ BeginVacuum \/ VacuumStep
    \/ Finished

Spec == Init /\ [][Next]_vars

(* The page whose lock a backend asks for next.                            *)
Wanted(p) ==
    IF p = Vacuum
    THEN CASE vac.pc = "scan" -> vac.blkno
           [] vac.pc = "inner" /\ vac.inner # {} -> Min(vac.inner)
           [] vac.pc = "lockleaf" /\ vac.todelete # <<>> ->
                DeleteOrder(vac.parent, Head(vac.todelete).leaf)[1]
           [] vac.pc = "delete" -> DeleteOrder(vac.parent, Head(vac.todelete).leaf)[2]
           [] OTHER -> Invalid
    ELSE CASE ins[p].pc \in {"visit", "xvisit", "leaf"} -> Top(p).blkno
           [] ins[p].pc = "chain" /\ MoreHalves(p) -> NextHalf(p)
           [] ins[p].pc = "parent" -> ParentFrame(p).blkno
           [] ins[p].pc = "findpath" /\ ins[p].fifo # <<>> -> Head(ins[p].fifo)[1].blkno
           [] OTHER -> Invalid
Waits(p) == Wanted(p) # Invalid /\ IF p = Vacuum THEN lock[Wanted(p)] # Nobody
                                   ELSE ~Available(p, Wanted(p))

(* Weak fairness of InsertStep(p), its ENABLED spelled out: a backend that *)
(* can go on does.  That is scheduling; of the buffer content locks, which *)
(* LWLock does not hand over in the order asked for, nothing is assumed.   *)
Fairness ==
    \A p \in Inserters : <>[](ins[p].pc # "idle" /\ ~Waits(p)) => []<><<ins'[p] # ins[p]>>_ins

FairSpec == Spec /\ Fairness

-----------------------------------------------------------------------------
ItemType == [key : [empty : BOOLEAN, lower : RangeBound, upper : RangeBound, contain : BOOLEAN],
             ptr : Nat, killed : BOOLEAN]

(* Type invariant: no page holds more than fits on it, and only a          *)
(* backend at work holds a lock.                                           *)
TypeOK ==
    /\ \A b \in Blocks :
         /\ pages[b].kind \in {"new", "leaf", "inner", "deleted"}
         /\ Size(pages[b].kind, pages[b].items) <= Capacity
         /\ \A i \in DOMAIN pages[b].items : pages[b].items[i] \in ItemType
         /\ pages[b].right \in 0 .. Invalid
         /\ pages[b].nsn \in 0 .. lsn /\ pages[b].lsn \in 0 .. lsn
         /\ lock[b] \in Inserters \cup {Vacuum, Nobody}
         /\ lock[b] \in Inserters => ins[lock[b]].pc # "idle"
         /\ lock[b] = Vacuum /\ Vacuum # Nobody => vac.pc = "delete"
    /\ \A p \in Inserters : \A i \in DOMAIN ins[p].stack : ins[p].stack[i].blkno \in Blocks
    /\ fsm \subseteq Blocks
    /\ indexed \subseteq DOMAIN TupleKey /\ todo \subseteq DOMAIN TupleKey \ indexed

Linked(b) == pages[b].kind \in {"leaf", "inner"}

(* The downlinks, by page and offset, and, at offset 0, the rightlinks of  *)
(* the halves that are flagged.                                            *)
Ways == {w \in Blocks \X (0 .. Capacity) :
           IF w[2] = 0 THEN Linked(w[1]) /\ pages[w[1]].follow
           ELSE pages[w[1]].kind = "inner" /\ w[2] <= Len(pages[w[1]].items)}
LeadsTo(w) == IF w[2] = 0 THEN pages[w[1]].right ELSE pages[w[1]].items[w[2]].ptr

(* Every page in use is reached in exactly one way, by a downlink or, while *)
(* the downlink is owed, from the left half of its split; a deleted page is *)
(* reached in none, whatever the splits, deaths and deletions do; as long  *)
(* as gistFindCorrectParent has not gone beyond an incomplete split.       *)
OneWayToEachPage ==
    "beyond" \notin refind =>
        /\ {LeadsTo(w) : w \in Ways} = {b \in Blocks \ {Root} : Linked(b)}
        /\ \A v, w \in Ways : LeadsTo(v) = LeadsTo(w) => v = w

(* The page and the halves that still hang on it.                          *)
HangingOn(b) ==
    LET chain[x \in Blocks] == {x} \cup (IF pages[x].follow THEN chain[pages[x].right] ELSE {})
    IN  chain[b]

(* The key of a downlink covers every key on the page below and on the     *)
(* halves reached only through it: what lets a search skip the page.  The  *)
(* same proviso, and no insert has gone on from an unchecked parent.       *)
KeysCover ==
    refind \cap {"beyond", "unchecked"} = {} => \A b \in Blocks : pages[b].kind = "inner" =>
        \A i \in DOMAIN pages[b].items : \A c \in HangingOn(pages[b].items[i].ptr) :
            \A j \in DOMAIN pages[c].items : Covers(pages[b].items[i].key, pages[c].items[j].key)

(* A scan returns every tuple indexed before it began that matches its     *)
(* key, though inserts split and VACUUM deletes the pages it is among.     *)
ScanComplete == \A s \in Scanners : scan[s].pc = "done" => scan[s].promised \subseteq scan[s].found

(* gistgettuple returns no tuple twice, though tuples move right meanwhile. *)
NoTupleTwice == \A s \in Scanners : ~scan[s].twice

(* gistFindPath always finds the parent: its error "failed to re-find      *)
(* parent of a page" is not reached, and the downlink found is that of the *)
(* child unless the search went beyond an incomplete split.                *)
ParentRefound == "failed" \notin refind /\ ("wrong" \in refind => "beyond" \in refind)

(* gistFindCorrectParent finds the downlink of the child, and not another  *)
(* one: "Updates the stack so that child->parent is the correct parent of  *)
(* the child".                                                             *)
CorrectParent == "wrong" \notin refind

(* When gistvacuumscan is through, no dead tuple is left in the index, not  *)
(* even one that a split moved to a page already passed.                   *)
DeadTuplesRemoved ==
    vac.pc \notin {"idle", "scan"} =>
        \A b \in Blocks : pages[b].kind = "leaf" => Pointers(pages[b].items) \cap DeadTuples = {}

(* What is placed goes where it belongs: an inserter that is about to call *)
(* gistplacetopage has locked a leaf for a tuple and an inner page for     *)
(* downlinks, and "should never try to insert to a deleted page", though   *)
(* the page may have been deleted, or recycled, since its downlink was     *)
(* read.                                                                   *)
PlacesOnLivePage ==
    \A p \in Inserters :
        /\ TakesLeaf(p) => Top(p).blkno \in {b \in Blocks : pages[b].kind = "leaf"}
        /\ TakesParent(p) => ParentFrame(p).blkno \in {b \in Blocks : pages[b].kind = "inner"}

(* gistkillitems marks what the scan has seen: where it finds the LSN the  *)
(* scan remembers, the remembered offsets are there and hold tuples found  *)
(* dead, although others insert, split, vacuum and recycle between the two *)
(* locks of the page, and although the block may be that of a deleted page *)
(* while the LSN and the offset are those of a leaf read before.           *)
KillsWhatWasSeen ==
    \A s \in Scanners : LET cur == scan[s].cur IN
        cur.blk \in Blocks /\ MayKill(pages[cur.blk], cur) =>
            \A i \in cur.offs : /\ i \in DOMAIN pages[cur.blk].items
                                /\ pages[cur.blk].items[i].ptr \in DeadTuples

(* The backends that hold locks never all wait for each other: halves are  *)
(* locked before their parents, left siblings before right ones, and       *)
(* nothing is held on the way down.  Beyond an incomplete split they may:  *)
(* gistFindPath then comes to a left sibling of a page that is held.       *)
NoLockCycle ==
    LET active == {p \in Inserters : ins[p].pc # "idle"}
                  \cup {p \in {Vacuum} \ {Nobody} : vac.pc \notin {"idle", "done"}}
    IN  "beyond" \notin refind => \A stuck \in SUBSET active \ {{}} : \E p \in stuck :
            ~(Waits(p) /\ lock[Wanted(p)] \in stuck)

(* Every insert comes to an end: gistdoinsert does not go back to the      *)
(* parent for ever because of splits, finished or not, that others made;   *)
(* unless it is stuck as NoLockCycle allows.                               *)
InsertsEnd == \A p \in Inserters : (ins[p].pc # "idle") ~> (ins[p].pc = "idle" \/ "beyond" \in refind)
=============================================================================
