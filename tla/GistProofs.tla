----------------------------- MODULE GistProofs ------------------------------
(***************************************************************************)
(* The LSN of a GiST page, for every index, number of backends, page size  *)
(* and workload.  gistkillitems drops the lock of a leaf before it knows   *)
(* which of the tuples it returned are dead, and "need[s] no additional    *)
(* recheck, because, if page was modified, curPageLSN must have changed"   *)
(* (gistget.c).  Every other step of the index has a part in that: inserts *)
(* and splits, the pruning before them, VACUUM, the deletion and the reuse *)
(* of pages, and gistkillitems itself, which changes a page and leaves its *)
(* LSN alone.  After a deleted page the block gistkillitems locks is not   *)
(* the one its LSN and offsets are of; then the two pages must be told     *)
(* apart by their LSNs, as long as nothing is put on a deleted page.       *)
(***************************************************************************)
EXTENDS Gist, TLAPS

PageFields == {"kind", "items", "right", "nsn", "follow", "lsn", "keepFor"}
ScanFields == {"pc", "query", "queue", "found", "twice", "promised", "cur"}
CurFields == {"blk", "lsn", "offs", "last"}

(* P has the pages of the index.                                           *)
IsFile(P) == DOMAIN P = Blocks /\ \A b \in Blocks : DOMAIN P[b] = PageFields

(* The page is what it was, and its tuples are where they were.            *)
SameTuples(page, old) ==
    /\ page.kind = old.kind
    /\ DOMAIN page.items = DOMAIN old.items
    /\ \A i \in DOMAIN old.items : page.items[i].ptr = old.items[i].ptr

(* From the pages as they are to P, the last WAL record ending at L.       *)
MovesOn(P, L) ==
    /\ L \in Nat /\ lsn <= L /\ IsFile(P)
    /\ \A b \in Blocks : \/ P[b].lsn \in lsn + 1 .. L
                         \/ P[b].lsn = pages[b].lsn /\ SameTuples(P[b], pages[b])

(* No page has an LSN of the future.                                       *)
FileInv ==
    /\ lsn \in Nat /\ IsFile(pages)
    /\ \A b \in Blocks : pages[b].lsn \in 0 .. lsn

(* No record stamps both a leaf and a deleted page.                        *)
Apart(P) ==
    \A x, y \in Blocks : P[x].kind = "leaf" /\ P[y].kind = "deleted" => P[x].lsn # P[y].lsn

(* No scan remembers an LSN of the future, so that what a later record     *)
(* stamps on a page is none a scan remembers; and no deleted page has the  *)
(* LSN that goes with an offset gistgettuple may come by again.            *)
ScanInv ==
    /\ DOMAIN scan = Scanners
    /\ \A s \in Scanners :
         /\ DOMAIN scan[s] = ScanFields /\ DOMAIN scan[s].cur = CurFields
         /\ scan[s].cur.lsn \in 0 .. lsn
         /\ scan[s].cur.last # {} =>
              \A b \in Blocks : pages[b].kind = "deleted" => pages[b].lsn # scan[s].cur.lsn

(* The inductive invariant.                                                *)
KillInv == FileInv /\ Apart(pages) /\ ScanInv /\ KillsWhatWasSeen

-----------------------------------------------------------------------------
(* What the parts of gistplacetopage write has the LSN of their record, and *)
(* all but the left child is of the kind of the page placed on, or inner.  *)

LEMMA MarkLeftFields ==
    ASSUME NEW P, IsFile(P), NEW left, NEW recptr
    PROVE  /\ IsFile(MarkLeftChild(P, left, recptr))
           /\ \A x \in Blocks : \/ MarkLeftChild(P, left, recptr)[x] = P[x]
                                \/ /\ MarkLeftChild(P, left, recptr)[x].lsn = recptr
                                   /\ x = left
  BY DEF IsFile, MarkLeftChild, PageFields

LEMMA HalfShape ==
    ASSUME NEW old, NEW isroot, NEW items, NEW next, NEW recptr
    PROVE  /\ DOMAIN Half(old, isroot, items, next, recptr) = PageFields
           /\ Half(old, isroot, items, next, recptr).lsn = recptr
           /\ Half(old, isroot, items, next, recptr).kind = old.kind
  BY DEF Page, Half, PageFields

LEMMA PageShape ==
    ASSUME NEW kind, NEW items, NEW recptr
    PROVE  /\ DOMAIN [Page(kind, items) EXCEPT !.lsn = recptr] = PageFields
           /\ [Page(kind, items) EXCEPT !.lsn = recptr].lsn = recptr
           /\ [Page(kind, items) EXCEPT !.lsn = recptr].kind = kind
  BY DEF Page, PageFields

LEMMA PruneShape ==
    ASSUME NEW page, DOMAIN page = PageFields, NEW recptr
    PROVE  /\ DOMAIN gistprunepage(page, recptr) = PageFields
           /\ gistprunepage(page, recptr).kind = page.kind
  BY DEF gistprunepage, PageFields

(* A split writes whole pages and leaves the others alone.                 *)
LEMMA PlacedShape ==
    ASSUME NEW P, IsFile(P), NEW b, NEW halves, NEW left, NEW lsn1, NEW new
    PROVE  LET o == Placed(P, b, halves, left, lsn1, new) IN
           /\ o.lsn = lsn1 + 1 /\ IsFile(o.pages)
           /\ \A x \in Blocks : \/ /\ o.pages[x].lsn = lsn1 + 1
                                   /\ x = left \/ o.pages[x].kind \in {P[b].kind, "inner"}
                                \/ x # b /\ o.pages[x] = P[x]
  <1>. DEFINE isroot == b = Root
             n == Len(halves)
             blks == IF isroot THEN new.blks ELSE <<b>> \o new.blks
             next(i) == IF i = n THEN Invalid ELSE blks[i + 1]
             after == [x \in Blocks |->
                    IF x \in Range(blks)
                    THEN LET i == CHOOSE j \in 1 .. n : blks[j] = x
                         IN  Half(P[b], isroot, halves[i], next(i), lsn1 + 1)
                    ELSE IF x = b
                    THEN [Page("inner", Downlinks(blks, halves)) EXCEPT !.lsn = lsn1 + 1]
                    ELSE P[x]]
             o == Placed(P, b, halves, left, lsn1, new)
  <1>1. o.pages = MarkLeftChild(after, left, lsn1 + 1) /\ o.lsn = lsn1 + 1
    BY DEF Placed
  <1>2. DOMAIN after = Blocks
    BY Zenon
  <1>3. ASSUME NEW x \in Blocks
        PROVE  /\ DOMAIN after[x] = PageFields
               /\ \/ after[x].lsn = lsn1 + 1 /\ after[x].kind \in {P[b].kind, "inner"}
                  \/ x # b /\ after[x] = P[x]
    <2>1. CASE x \in Range(blks)
      <3>1. PICK hs, nx : after[x] = Half(P[b], isroot, hs, nx, lsn1 + 1)
        BY <2>1, Zenon
      <3>. HIDE DEF after
      <3>2. /\ DOMAIN Half(P[b], isroot, hs, nx, lsn1 + 1) = PageFields
            /\ Half(P[b], isroot, hs, nx, lsn1 + 1).lsn = lsn1 + 1
            /\ Half(P[b], isroot, hs, nx, lsn1 + 1).kind = P[b].kind
        <4>. HIDE DEF isroot
        <4>. QED  BY HalfShape
      <3>. QED  BY <3>1, <3>2, Zenon
    <2>2. CASE x \notin Range(blks) /\ x = b
      <3>1. after[x] = [Page("inner", Downlinks(blks, halves)) EXCEPT !.lsn = lsn1 + 1]
        BY <2>2, Zenon
      <3>. HIDE DEF after
      <3>2. PICK items : items = Downlinks(blks, halves)
        BY Zenon
      <3>3. /\ DOMAIN [Page("inner", items) EXCEPT !.lsn = lsn1 + 1] = PageFields
            /\ [Page("inner", items) EXCEPT !.lsn = lsn1 + 1].lsn = lsn1 + 1
            /\ [Page("inner", items) EXCEPT !.lsn = lsn1 + 1].kind = "inner"
        BY PageShape
      <3>. QED  BY <3>1, <3>2, <3>3, Zenon
    <2>3. CASE x \notin Range(blks) /\ x # b
      <3>1. after[x] = P[x]
        BY <2>3, Zenon
      <3>. HIDE DEF after
      <3>. QED  BY <2>3, <3>1, Zenon DEF IsFile
    <2>. QED  BY <2>1, <2>2, <2>3, Zenon
  <1>. HIDE DEF after, o
  <1>4. IsFile(after)
    BY <1>2, <1>3, Zenon DEF IsFile
  <1>5. /\ IsFile(o.pages)
        /\ \A x \in Blocks : o.pages[x] = after[x] \/ (o.pages[x].lsn = lsn1 + 1 /\ x = left)
    <2>. DEFINE M == MarkLeftChild(after, left, lsn1 + 1)
    <2>1. IsFile(M) /\ \A x \in Blocks : M[x] = after[x] \/ (M[x].lsn = lsn1 + 1 /\ x = left)
      BY <1>4, MarkLeftFields
    <2>. HIDE DEF M
    <2>2. o.pages = M
      BY <1>1, Zenon DEF M
    <2>. QED  BY <2>1, <2>2, Zenon
  <1>6. ASSUME NEW x \in Blocks
        PROVE  \/ /\ o.pages[x].lsn = lsn1 + 1
                  /\ x = left \/ o.pages[x].kind \in {P[b].kind, "inner"}
               \/ x # b /\ o.pages[x] = P[x]
    <2>1. \/ after[x].lsn = lsn1 + 1 /\ after[x].kind \in {P[b].kind, "inner"}
          \/ x # b /\ after[x] = P[x]
      BY <1>3, Zenon
    <2>. QED  BY <1>5, <2>1, Zenon
  <1>. QED  BY <1>1, <1>5, <1>6, Zenon DEF o

-----------------------------------------------------------------------------
(* gistplacetopage: what it changes carries a later LSN.                   *)
LEMMA PlaceMovesOn ==
    ASSUME FileInv, NEW b, NEW new, NEW off, NEW left
    PROVE  LET o == gistplacetopage(b, new, off, left) IN
           /\ MovesOn(o.pages, o.lsn)
           /\ b \in Blocks \/ pages[b].kind = "inner" =>
              \A x \in Blocks : \/ o.pages[x].lsn <= lsn
                                \/ x = left
                                \/ o.pages[x].kind \in {pages[b].kind, "inner"}
  <1>. DEFINE prune == /\ gistnospace(pages[b], new, off) /\ pages[b].kind = "leaf"
                      /\ \E i \in DOMAIN pages[b].items : pages[b].items[i].killed
             P == IF prune THEN [pages EXCEPT ![b] = gistprunepage(@, lsn + 1)] ELSE pages
             lsn1 == IF prune THEN lsn + 1 ELSE lsn
             old == P[b].items
             o == gistplacetopage(b, new, off, left)
  <1>1. \/ \E halves : o = PlaceWithSplit(P, b, halves, left, lsn1)
        \/ \E items : o = PlaceWithoutSplit(P, b, items, left, lsn1)
    BY Zenon DEF gistplacetopage
  <1>2. /\ lsn1 \in {lsn, lsn + 1} /\ IsFile(P)
        /\ b \in Blocks \/ pages[b].kind = "inner" => P[b].kind = pages[b].kind
        /\ \A x \in Blocks : x # b => P[x] = pages[x]
    <2>1. ASSUME prune
          PROVE  /\ IsFile(P) /\ \A x \in Blocks : x # b => P[x] = pages[x]
                 /\ b \in Blocks \/ pages[b].kind = "inner" => P[b].kind = pages[b].kind
      <3>1. P = [pages EXCEPT ![b] = gistprunepage(pages[b], lsn + 1)]
        BY <2>1, Zenon
      <3>. HIDE DEF P
      <3>2. DOMAIN P = Blocks /\ \A x \in Blocks : x # b => P[x] = pages[x]
        BY <3>1, Zenon DEF FileInv, IsFile
      <3>3. b \in Blocks => DOMAIN P[b] = PageFields /\ P[b].kind = pages[b].kind
        BY <3>1, PruneShape, Zenon DEF FileInv, IsFile
      <3>4. pages[b].kind # "inner"
        BY <2>1
      <3>. QED  BY <3>2, <3>3, <3>4, Zenon DEF FileInv, IsFile
    <2>2. ASSUME ~prune PROVE IsFile(P) /\ P = pages
      BY <2>2, Zenon DEF FileInv
    <2>3. lsn1 \in {lsn, lsn + 1}
      BY Zenon
    <2>. QED  BY <2>1, <2>2, <2>3, Zenon
  <1>. HIDE DEF P, lsn1, o
  <1>3. /\ o.lsn = lsn1 + 1 /\ IsFile(o.pages)
        /\ \A x \in Blocks : \/ /\ o.pages[x].lsn = lsn1 + 1
                                /\ x = left \/ o.pages[x].kind \in {P[b].kind, "inner"}
                             \/ x # b /\ o.pages[x] = P[x]
    <2>1. CASE \E halves : o = PlaceWithSplit(P, b, halves, left, lsn1)
      <3>1. PICK halves, nb : o = Placed(P, b, halves, left, lsn1, nb)
        BY <2>1, Zenon DEF PlaceWithSplit
      <3>. QED  BY <1>2, <3>1, PlacedShape
    <2>2. CASE \E items : o = PlaceWithoutSplit(P, b, items, left, lsn1)
      <3>1. PICK items : o = PlaceWithoutSplit(P, b, items, left, lsn1)
        BY <2>2
      <3>. DEFINE Q == [P EXCEPT ![b].items = items, ![b].lsn = lsn1 + 1]
                 M == MarkLeftChild(Q, left, lsn1 + 1)
      <3>2. o.pages = M /\ o.lsn = lsn1 + 1
        BY <3>1 DEF PlaceWithoutSplit
      <3>3. /\ IsFile(Q)
            /\ \A x \in Blocks : \/ Q[x].lsn = lsn1 + 1 /\ Q[x].kind = P[b].kind
                                 \/ x # b /\ Q[x] = P[x]
        BY <1>2 DEF IsFile, PageFields
      <3>. HIDE DEF Q
      <3>4. IsFile(M) /\ \A x \in Blocks : M[x] = Q[x] \/ (M[x].lsn = lsn1 + 1 /\ x = left)
        BY <3>3, MarkLeftFields
      <3>. HIDE DEF M
      <3>. QED  BY <3>2, <3>3, <3>4, Zenon
    <2>. QED  BY <1>1, <2>1, <2>2, Zenon
  <1>4. o.lsn \in Nat /\ lsn <= o.lsn /\ o.lsn \in lsn + 1 .. o.lsn
    BY <1>2, <1>3 DEF FileInv
  <1>5. ASSUME NEW x \in Blocks
        PROVE  \/ o.pages[x].lsn \in lsn + 1 .. o.lsn
               \/ o.pages[x].lsn = pages[x].lsn /\ SameTuples(o.pages[x], pages[x])
    <2>1. o.pages[x].lsn = o.lsn \/ o.pages[x] = pages[x]
      BY <1>2, <1>3, Zenon
    <2>. QED  BY <1>4, <2>1, Zenon DEF SameTuples
  <1>6. ASSUME NEW x \in Blocks, b \in Blocks \/ pages[b].kind = "inner"
        PROVE  \/ o.pages[x].lsn <= lsn
               \/ x = left
               \/ o.pages[x].kind \in {pages[b].kind, "inner"}
    <2>1. \/ x = left \/ o.pages[x].kind \in {pages[b].kind, "inner"}
          \/ o.pages[x] = pages[x]
      BY <1>2, <1>3, <1>6, Zenon
    <2>2. pages[x].lsn <= lsn
      BY DEF FileInv
    <2>. QED  BY <2>1, <2>2, Zenon
  <1>. QED  BY <1>3, <1>4, <1>5, <1>6, Zenon DEF MovesOn, o

(* The end of a transaction touches no tuple.                              *)
LEMMA EndedMovesOn ==
    ASSUME NEW P, NEW L, MovesOn(P, L), NEW p
    PROVE  /\ MovesOn(Ended(P, p), L)
           /\ \A x \in Blocks : Ended(P, p)[x].lsn = P[x].lsn /\ Ended(P, p)[x].kind = P[x].kind
  <1>. DEFINE E == Ended(P, p)
  <1>1. DOMAIN E = Blocks
    BY Zenon DEF Ended
  <1>2. ASSUME NEW b \in Blocks
        PROVE  /\ DOMAIN E[b] = PageFields
               /\ E[b].lsn = P[b].lsn /\ E[b].items = P[b].items /\ E[b].kind = P[b].kind
    <2>1. E[b] = [P[b] EXCEPT !.keepFor = P[b].keepFor \ {p}] /\ DOMAIN P[b] = PageFields
      BY Zenon DEF Ended, MovesOn, IsFile
    <2>. HIDE DEF E
    <2>. QED  BY <2>1 DEF PageFields
  <1>. HIDE DEF E
  <1>3. IsFile(E)
    BY <1>1, <1>2, Zenon DEF IsFile
  <1>4. ASSUME NEW b \in Blocks
        PROVE  \/ E[b].lsn \in lsn + 1 .. L
               \/ E[b].lsn = pages[b].lsn /\ SameTuples(E[b], pages[b])
    <2>1. E[b].lsn = P[b].lsn /\ E[b].items = P[b].items /\ E[b].kind = P[b].kind
      BY <1>2, Zenon
    <2>2. \/ P[b].lsn \in lsn + 1 .. L
          \/ P[b].lsn = pages[b].lsn /\ SameTuples(P[b], pages[b])
      BY Zenon DEF MovesOn
    <2>. QED  BY <2>1, <2>2, Zenon DEF SameTuples
  <1>. QED  BY <1>2, <1>3, <1>4, Zenon DEF MovesOn, E

(* Nothing happens to the pages.                                           *)
LEMMA Stays ==
    ASSUME FileInv
    PROVE  MovesOn(pages, lsn)
  BY DEF FileInv, MovesOn, SameTuples

(* The three steps that place tuples on a page, and what page that is.     *)
LEMMA PlacingStep ==
    ASSUME NEW p \in Inserters, AdjustKey(p) \/ InsertInLeaf(p) \/ InsertDownlinks(p)
    PROVE  \E b, new, off, left : LET o == gistplacetopage(b, new, off, left) IN
             /\ lsn' = o.lsn /\ (pages' = o.pages \/ pages' = Ended(o.pages, p))
             /\ PlacesOnLivePage => \/ pages[b].kind = "inner"
                                    \/ pages[b].kind = "leaf" /\ b \in Blocks /\ left = Invalid
  <1>1. CASE AdjustKey(p)
    <2>1. PICK i : \E o \in {gistplacetopage(Top(p).blkno,
                       <<[pages[Top(p).blkno].items[i] EXCEPT
                            !.key = Adjusted(pages[Top(p).blkno].items[i].key,
                                             TupleKey[ins[p].tid])]>>, i, Invalid)} :
              pages' = o.pages /\ lsn' = o.lsn
      BY <1>1, Zenon DEF AdjustKey
    <2>2. pages[Top(p).blkno].kind = "inner"
      BY <1>1, Zenon DEF AdjustKey, VisitsGood
    <2>3. PICK b, new : /\ pages[b].kind = "inner"
                        /\ \E o \in {gistplacetopage(b, new, i, Invalid)} :
                             pages' = o.pages /\ lsn' = o.lsn
      BY <2>1, <2>2, Zenon
    <2>. QED  BY <2>3, Zenon
  <1>2. CASE InsertInLeaf(p)
    <2>1. PICK new : \E o \in {gistplacetopage(Top(p).blkno, new, 0, Invalid)} :
             lsn' = o.lsn /\ (pages' = o.pages \/ pages' = Ended(o.pages, p))
      BY <1>2, Zenon DEF InsertInLeaf
    <2>2. PlacesOnLivePage => Top(p).blkno \in Blocks /\ pages[Top(p).blkno].kind = "leaf"
      BY <1>2, Zenon DEF InsertInLeaf, PlacesOnLivePage
    <2>3. PICK b : /\ PlacesOnLivePage => b \in Blocks /\ pages[b].kind = "leaf"
                   /\ \E o \in {gistplacetopage(b, new, 0, Invalid)} :
                        lsn' = o.lsn /\ (pages' = o.pages \/ pages' = Ended(o.pages, p))
      BY <2>1, <2>2, Zenon
    <2>. QED  BY <2>3, Zenon
  <1>3. CASE InsertDownlinks(p)
    <2>. DEFINE halves == ThisSplit(p).halves
               at == IF Len(halves) = 2 THEN Min(ParentOffsets(p)) ELSE 0
               lefthalf == halves[Len(halves) - 1].ptr
    <2>1. PICK o \in {gistplacetopage(ParentFrame(p).blkno, NewDownlinks(halves), at, lefthalf)} :
             lsn' = o.lsn /\ \E done : pages' = IF done THEN Ended(o.pages, p) ELSE o.pages
      BY <1>3, Zenon DEF InsertDownlinks
    <2>2. PlacesOnLivePage => pages[ParentFrame(p).blkno].kind = "inner"
      BY <1>3, Zenon DEF InsertDownlinks, PlacesOnLivePage
    <2>3. PICK b, new, off, left :
             /\ PlacesOnLivePage => pages[b].kind = "inner"
             /\ \E q \in {gistplacetopage(b, new, off, left)} :
                  lsn' = q.lsn /\ (pages' = q.pages \/ pages' = Ended(q.pages, p))
      BY <2>1, <2>2, Zenon
    <2>. QED  BY <2>3, Zenon
  <1>. QED  BY <1>1, <1>2, <1>3, Zenon

(* Every step of every backend moves the file on.                          *)
LEMMA StepMovesOn ==
    ASSUME FileInv, [Next]_vars
    PROVE  MovesOn(pages', lsn')
  <1>. lsn \in Nat /\ IsFile(pages)
    BY Zenon DEF FileInv
  <1>1. CASE UNCHANGED <<pages, lsn>>
    BY <1>1, Stays, Zenon
  <1>2. ASSUME NEW p, pages' = Ended(pages, p), UNCHANGED lsn
        PROVE  MovesOn(pages', lsn')
    BY <1>2, Stays, EndedMovesOn
  <1>3. ASSUME NEW p \in Inserters, AdjustKey(p) \/ InsertInLeaf(p) \/ InsertDownlinks(p)
        PROVE  MovesOn(pages', lsn')
    <2>1. PICK b, new, off, left : LET o == gistplacetopage(b, new, off, left) IN
             lsn' = o.lsn /\ (pages' = o.pages \/ pages' = Ended(o.pages, p))
      BY <1>3, PlacingStep, Zenon
    <2>. DEFINE o == gistplacetopage(b, new, off, left)
    <2>2. MovesOn(o.pages, o.lsn)
      BY PlaceMovesOn
    <2>3. lsn' = o.lsn /\ (pages' = o.pages \/ pages' = Ended(o.pages, p))
      BY <2>1, Zenon
    <2>. HIDE DEF o
    <2>4. MovesOn(Ended(o.pages, p), o.lsn)
      BY <2>2, EndedMovesOn
    <2>. QED  BY <2>2, <2>3, <2>4, Zenon
  <1>4. ASSUME NEW s \in Scanners, gistkillitems(s) PROVE MovesOn(pages', lsn')
    <2>. DEFINE cur == scan[s].cur
               kept == IF MayKill(pages[cur.blk], cur)
                       THEN [i \in DOMAIN pages[cur.blk].items |->
                               IF i \in cur.offs THEN Killed(pages[cur.blk].items[i])
                               ELSE pages[cur.blk].items[i]]
                       ELSE pages[cur.blk].items
    <2>1. pages' = [pages EXCEPT ![cur.blk].items = kept] /\ lsn' = lsn
      BY <1>4, Zenon DEF gistkillitems
    <2>2. /\ DOMAIN kept = DOMAIN pages[cur.blk].items
          /\ \A i \in DOMAIN kept : kept[i].ptr = pages[cur.blk].items[i].ptr
      BY DEF Killed
    <2>. HIDE DEF kept, cur
    <2>3. IsFile(pages') /\ \A b \in Blocks : /\ pages'[b].lsn = pages[b].lsn
                                             /\ SameTuples(pages'[b], pages[b])
      BY <2>1, <2>2 DEF IsFile, PageFields, SameTuples
    <2>. QED  BY <2>1, <2>3 DEF MovesOn
  <1>5. ASSUME gistvacuumpage PROVE MovesOn(pages', lsn')
    <2>1. CASE UNCHANGED <<pages, lsn>>
      BY <2>1, Stays, Zenon
    <2>2. CASE \E b, remain : /\ pages' = [pages EXCEPT ![b] = Vacuumed(pages[b], remain, lsn + 1)]
                              /\ lsn' = lsn + 1
      BY <2>2 DEF Vacuumed, MovesOn, IsFile, PageFields, SameTuples
    <2>. QED  BY <1>5, <2>1, <2>2, Zenon DEF gistvacuumpage
  <1>6. ASSUME gistdeletepage PROVE MovesOn(pages', lsn')
    <2>1. CASE UNCHANGED <<pages, lsn>>
      BY <2>1, Stays, Zenon
    <2>2. CASE \E b, c, keep, items :
                /\ pages' = [pages EXCEPT ![b].kind = "deleted", ![b].lsn = lsn + 1,
                                          ![b].items = <<>>, ![b].keepFor = keep,
                                          ![c].items = items, ![c].lsn = lsn + 1]
                /\ lsn' = lsn + 1
      <3>1. PICK b, c, keep, items :
                /\ pages' = [pages EXCEPT ![b].kind = "deleted", ![b].lsn = lsn + 1,
                                          ![b].items = <<>>, ![b].keepFor = keep,
                                          ![c].items = items, ![c].lsn = lsn + 1]
                /\ lsn' = lsn + 1
        BY <2>2
      <3>. DEFINE D == [pages EXCEPT ![b].kind = "deleted", ![b].lsn = lsn + 1,
                                    ![b].items = <<>>, ![b].keepFor = keep]
      <3>2. IsFile(D) /\ \A x \in Blocks : D[x] = pages[x] \/ D[x].lsn = lsn + 1
        BY DEF IsFile, PageFields
      <3>3. pages' = [D EXCEPT ![c].items = items, ![c].lsn = lsn + 1]
        BY <3>1, Zenon
      <3>. HIDE DEF D
      <3>4. IsFile(pages') /\ \A x \in Blocks : pages'[x] = D[x] \/ pages'[x].lsn = lsn + 1
        BY <3>2, <3>3 DEF IsFile, PageFields
      <3>5. \A x \in Blocks : pages'[x] = pages[x] \/ pages'[x].lsn = lsn + 1
        BY <3>2, <3>4, Zenon
      <3>6. lsn' \in Nat /\ lsn <= lsn' /\ lsn + 1 \in lsn + 1 .. lsn'
        BY <3>1
      <3>7. \A x \in Blocks : \/ pages'[x].lsn \in lsn + 1 .. lsn'
                              \/ pages'[x].lsn = pages[x].lsn /\ SameTuples(pages'[x], pages[x])
        BY <3>5, <3>6, Zenon DEF SameTuples
      <3>. QED  BY <3>4, <3>6, <3>7, Zenon DEF MovesOn
    <2>. QED  BY <1>6, <2>1, <2>2, Zenon DEF gistdeletepage
  <1>7. ASSUME NEW p \in Inserters, BeginInsert(p) \/ InsertStep(p) \/ Die(p)
        PROVE  MovesOn(pages', lsn')
    <2>1. \/ UNCHANGED <<pages, lsn>>
          \/ pages' = Ended(pages, p) /\ UNCHANGED lsn
          \/ AdjustKey(p) \/ InsertInLeaf(p) \/ InsertDownlinks(p)
      BY <1>7, Zenon DEF BeginInsert, InsertStep, Die, Failed, MeetIncompleteSplit,
         MeetConcurrentSplit, Descend, ReachLeaf, LeafTaken, CollectHalves, ParentMoved,
         FindPath, ParentIncomplete, FormDownlink
    <2>. QED  BY <1>1, <1>2, <1>3, <2>1, Zenon
  <1>8. ASSUME NEW s \in Scanners, BeginScan(s) \/ ScanStep(s) PROVE MovesOn(pages', lsn')
    <2>1. \/ UNCHANGED <<pages, lsn>>
          \/ pages' = Ended(pages, s) /\ UNCHANGED lsn
          \/ gistkillitems(s)
      BY <1>8, Zenon DEF BeginScan, ScanStep, gistScanPage, EndScan
    <2>. QED  BY <1>1, <1>2, <1>4, <2>1, Zenon
  <1>9. CASE BeginVacuum \/ VacuumStep
    BY <1>1, <1>5, <1>6, <1>9, Zenon
    DEF BeginVacuum, VacuumStep, FindEmptyChildren, EndVacuum, LockEmptyLeaf
  <1>. QED  BY <1>1, <1>7, <1>8, <1>9, Zenon DEF Next, Finished, vars

(* A step that changes nothing of the kind, or whose record stamps no leaf *)
(* or no deleted page, keeps the two apart.                                *)
LEMMA StaysApart ==
    ASSUME FileInv, Apart(pages), NEW P, NEW L, MovesOn(P, L),
           \A x, y \in Blocks : P[x].kind = "leaf" /\ P[y].kind = "deleted" =>
               P[x].lsn <= lsn \/ P[y].lsn <= lsn
    PROVE  Apart(P)
  <1>. SUFFICES ASSUME NEW x \in Blocks, NEW y \in Blocks,
                       P[x].kind = "leaf", P[y].kind = "deleted"
                PROVE  P[x].lsn # P[y].lsn
    BY Zenon DEF Apart
  <1>1. /\ lsn \in Nat /\ L \in Nat
        /\ pages[x].lsn \in 0 .. lsn /\ pages[y].lsn \in 0 .. lsn
    BY Zenon DEF FileInv, MovesOn
  <1>2. /\ P[x].lsn \in lsn + 1 .. L \/ (P[x].lsn = pages[x].lsn /\ P[x].kind = pages[x].kind)
        /\ P[y].lsn \in lsn + 1 .. L \/ (P[y].lsn = pages[y].lsn /\ P[y].kind = pages[y].kind)
    BY Zenon DEF MovesOn, SameTuples
  <1>3. pages[x].kind = "leaf" /\ pages[y].kind = "deleted" => pages[x].lsn # pages[y].lsn
    BY Zenon DEF Apart
  <1>4. P[x].lsn <= lsn \/ P[y].lsn <= lsn
    BY Zenon
  <1>. QED  BY <1>1, <1>2, <1>3, <1>4

LEMMA StepApart ==
    ASSUME FileInv, Apart(pages), PlacesOnLivePage, [Next]_vars
    PROVE  Apart(pages')
  <1>. DEFINE Old(x) == pages'[x].lsn <= lsn
             Goal == \A x, y \in Blocks : pages'[x].kind = "leaf" /\ pages'[y].kind = "deleted" =>
                                            Old(x) \/ Old(y)
  <1>. SUFFICES Goal
    BY StaysApart, StepMovesOn
  <1>. lsn \in Nat /\ IsFile(pages) /\ \A b \in Blocks : pages[b].lsn <= lsn
    BY DEF FileInv
  <1>1. CASE \A x \in Blocks : pages'[x].lsn = pages[x].lsn
    BY <1>1
  <1>2. ASSUME NEW p, pages' = Ended(pages, p) PROVE Goal
    <2>1. \A x \in Blocks : Ended(pages, p)[x].lsn = pages[x].lsn
      BY Stays, EndedMovesOn
    <2>. QED  BY <1>1, <1>2, <2>1, Zenon
  <1>3. ASSUME NEW p \in Inserters, AdjustKey(p) \/ InsertInLeaf(p) \/ InsertDownlinks(p)
        PROVE  Goal
    <2>1. PICK b, new, off, left : LET o == gistplacetopage(b, new, off, left) IN
             /\ lsn' = o.lsn /\ (pages' = o.pages \/ pages' = Ended(o.pages, p))
             /\ \/ pages[b].kind = "inner"
                \/ pages[b].kind = "leaf" /\ b \in Blocks /\ left = Invalid
      BY <1>3, PlacingStep, Zenon
    <2>. DEFINE o == gistplacetopage(b, new, off, left)
    <2>2. /\ MovesOn(o.pages, o.lsn)
          /\ \A x \in Blocks : \/ o.pages[x].lsn <= lsn
                               \/ x = left
                               \/ o.pages[x].kind \in {pages[b].kind, "inner"}
      BY <2>1, PlaceMovesOn
    <2>3. pages' = o.pages \/ pages' = Ended(o.pages, p)
      BY <2>1, Zenon
    <2>. HIDE DEF o
    <2>4. \A x \in Blocks : pages'[x].lsn = o.pages[x].lsn /\ pages'[x].kind = o.pages[x].kind
      <3>. DEFINE E == Ended(o.pages, p)
      <3>1. \A x \in Blocks : E[x].lsn = o.pages[x].lsn /\ E[x].kind = o.pages[x].kind
        BY <2>2, EndedMovesOn
      <3>. HIDE DEF E
      <3>2. pages' = o.pages \/ pages' = E
        BY <2>3, Zenon DEF E
      <3>. QED  BY <3>1, <3>2, Zenon
    <2>5. \A x \in Blocks : Old(x) \/ x = left \/ pages'[x].kind \in {pages[b].kind, "inner"}
      BY <2>2, <2>4
    <2>6. CASE pages[b].kind = "inner"
      <3>1. \A x \in Blocks : Old(x) \/ x = left \/ pages'[x].kind = "inner"
        BY <2>5, <2>6, Zenon
      <3>. QED  BY <3>1
    <2>7. CASE pages[b].kind = "leaf" /\ left = Invalid
      <3>1. \A x \in Blocks : Old(x) \/ pages'[x].kind \in {"leaf", "inner"}
        BY <2>5, <2>7, GistAssumption DEF Blocks, Invalid
      <3>. QED  BY <3>1
    <2>. QED  BY <2>1, <2>6, <2>7, Zenon
  <1>4. ASSUME NEW s \in Scanners, gistkillitems(s) PROVE Goal
    <2>1. PICK b, items : pages' = [pages EXCEPT ![b].items = items]
      BY <1>4, Zenon DEF gistkillitems
    <2>2. \A x \in Blocks : pages'[x].lsn = pages[x].lsn
      BY <2>1 DEF IsFile, PageFields
    <2>. QED  BY <1>1, <2>2, Zenon
  <1>5. ASSUME gistvacuumpage PROVE Goal
    <2>1. CASE pages' = pages
      BY <1>1, <2>1, Zenon
    <2>2. CASE \E b, remain : pages' = [pages EXCEPT ![b] = Vacuumed(pages[b], remain, lsn + 1)]
      <3>1. PICK b, remain : pages' = [pages EXCEPT ![b] = Vacuumed(pages[b], remain, lsn + 1)]
        BY <2>2
      <3>2. \A x \in Blocks : x # b => pages'[x] = pages[x]
        BY <3>1, Zenon DEF IsFile
      <3>. QED  BY <3>2
    <2>. QED  BY <1>5, <2>1, <2>2, Zenon DEF gistvacuumpage
  <1>6. ASSUME gistdeletepage PROVE Goal
    <2>1. CASE pages' = pages
      BY <1>1, <2>1, Zenon
    <2>2. CASE \E b, c, keep, items :
                /\ pages[c].kind = "inner"
                /\ pages' = [pages EXCEPT ![b].kind = "deleted", ![b].lsn = lsn + 1,
                                          ![b].items = <<>>, ![b].keepFor = keep,
                                          ![c].items = items, ![c].lsn = lsn + 1]
      <3>1. PICK b, c, keep, items :
                /\ pages[c].kind = "inner"
                /\ pages' = [pages EXCEPT ![b].kind = "deleted", ![b].lsn = lsn + 1,
                                          ![b].items = <<>>, ![b].keepFor = keep,
                                          ![c].items = items, ![c].lsn = lsn + 1]
        BY <2>2
      <3>. DEFINE D == [pages EXCEPT ![b].kind = "deleted", ![b].lsn = lsn + 1,
                                    ![b].items = <<>>, ![b].keepFor = keep]
      <3>2. /\ IsFile(D)
            /\ \A x \in Blocks : D[x] = pages[x] \/ D[x].kind = "deleted"
        BY DEF IsFile, PageFields
      <3>3. pages' = [D EXCEPT ![c].items = items, ![c].lsn = lsn + 1]
        BY <3>1, Zenon
      <3>. HIDE DEF D
      <3>4. \A x \in Blocks : pages'[x].kind = D[x].kind /\ (x # c => pages'[x] = D[x])
        BY <3>2, <3>3 DEF IsFile, PageFields
      <3>5. \A x \in Blocks : Old(x) \/ pages'[x].kind \in {"inner", "deleted"}
        BY <3>1, <3>2, <3>4
      <3>. QED  BY <3>5
    <2>. QED  BY <1>6, <2>1, <2>2, Zenon DEF gistdeletepage, Deletable
  <1>7. ASSUME NEW p \in Inserters, BeginInsert(p) \/ InsertStep(p) \/ Die(p)
        PROVE  Goal
    <2>1. \/ pages' = pages
          \/ pages' = Ended(pages, p)
          \/ AdjustKey(p) \/ InsertInLeaf(p) \/ InsertDownlinks(p)
      BY <1>7, Zenon DEF BeginInsert, InsertStep, Die, Failed, MeetIncompleteSplit,
         MeetConcurrentSplit, Descend, ReachLeaf, LeafTaken, CollectHalves, ParentMoved,
         FindPath, ParentIncomplete, FormDownlink
    <2>. QED  BY <1>1, <1>2, <1>3, <2>1, Zenon
  <1>8. ASSUME NEW s \in Scanners, BeginScan(s) \/ ScanStep(s) PROVE Goal
    <2>1. pages' = pages \/ pages' = Ended(pages, s) \/ gistkillitems(s)
      BY <1>8, Zenon DEF BeginScan, ScanStep, gistScanPage, EndScan
    <2>. QED  BY <1>1, <1>2, <1>4, <2>1, Zenon
  <1>9. CASE BeginVacuum \/ VacuumStep
    BY <1>1, <1>5, <1>6, <1>9, Zenon
    DEF BeginVacuum, VacuumStep, FindEmptyChildren, EndVacuum, LockEmptyLeaf
  <1>. QED  BY <1>1, <1>7, <1>8, <1>9, Zenon DEF Next, Finished, vars

(* What a scan remembers stays, but for the offsets gistkillitems is done  *)
(* with; is dropped; is read afresh off a page; or is met again with a     *)
(* deleted page.                                                           *)
Kept(new, old) ==
    new.blk = old.blk /\ new.lsn = old.lsn /\ new.last = old.last /\ new.offs \in {old.offs, {}}

Fresh(cur) ==
    \E b \in Blocks :
        /\ cur.blk \in {b, Invalid} /\ cur.lsn = pages[b].lsn
        /\ cur.last # {} => pages[b].kind = "leaf"
        /\ \A i \in cur.offs : /\ i \in DOMAIN pages[b].items
                               /\ pages[b].items[i].ptr \in DeadTuples

Mixed(new, old) ==
    /\ new.lsn = old.lsn /\ new.last = old.last /\ new.offs = old.last
    /\ new.blk \in Blocks => pages[new.blk].kind = "deleted"

Remembered(new, old) ==
    /\ DOMAIN new = CurFields
    /\ \/ Kept(new, old)
       \/ new = NoScan.cur
       \/ (Fresh(new) \/ Mixed(new, old)) /\ pages' = pages /\ lsn' = lsn

LEMMA ReadPageFresh ==
    ASSUME NEW sc, DOMAIN sc = ScanFields, DOMAIN sc.cur = CurFields, NEW b \in Blocks,
           sc.cur.blk \in {b, Invalid}, NEW query
    PROVE  LET r == ReadPage(sc, pages[b], Matches(pages[b], query)) IN
           DOMAIN r = ScanFields /\ DOMAIN r.cur = CurFields /\ Fresh(r.cur)
  <1>. DEFINE page == pages[b]
             match == Matches(page, query)
             read == [sc EXCEPT !.cur.lsn = page.lsn, !.cur.offs = {}, !.cur.last = {}]
             dead == {i \in match : page.items[i].ptr \in DeadTuples}
             last == {i \in dead : \A j \in match : j <= i}
             r == ReadPage(sc, page, match)
  <1>1. \A i \in dead : i \in DOMAIN page.items /\ page.items[i].ptr \in DeadTuples
    BY Zenon DEF Matches
  <1>2. /\ DOMAIN read = ScanFields /\ DOMAIN read.cur = CurFields
        /\ read.cur.blk = sc.cur.blk /\ read.cur.lsn = page.lsn
        /\ read.cur.offs = {} /\ read.cur.last = {}
    BY DEF ScanFields, CurFields
  <1>. HIDE DEF match, read, page
  <1>3. CASE page.kind = "leaf"
    <2>1. PICK found, twice :
             r = [read EXCEPT !.found = found, !.twice = twice, !.cur.offs = dead, !.cur.last = last]
      BY <1>3, Zenon DEF ReadPage, Returned, read
    <2>. HIDE DEF dead, last, r
    <2>2. /\ DOMAIN r = ScanFields /\ DOMAIN r.cur = CurFields
          /\ r.cur.blk = sc.cur.blk /\ r.cur.lsn = page.lsn
          /\ r.cur.offs = dead
      BY <1>2, <2>1 DEF ScanFields, CurFields
    <2>3. Fresh(r.cur)
      BY <1>1, <1>3, <2>2, Zenon DEF Fresh, page
    <2>. QED  BY <2>2, <2>3, Zenon DEF r, page, match
  <1>4. CASE page.kind # "leaf"
    <2>1. PICK queue : r = [read EXCEPT !.queue = queue]
      BY <1>4, Zenon DEF ReadPage, read
    <2>. HIDE DEF dead, last, r
    <2>2. /\ DOMAIN r = ScanFields /\ DOMAIN r.cur = CurFields
          /\ r.cur.blk = sc.cur.blk /\ r.cur.lsn = page.lsn
          /\ r.cur.offs = {} /\ r.cur.last = {}
      BY <1>2, <2>1 DEF ScanFields, CurFields
    <2>3. Fresh(r.cur)
      BY <2>2, Zenon DEF Fresh, page
    <2>. QED  BY <2>2, <2>3, Zenon DEF r, page, match
  <1>. QED  BY <1>3, <1>4, Zenon

LEMMA ScanRemembers ==
    ASSUME ScanInv, [Next]_vars
    PROVE  /\ DOMAIN scan' = Scanners
           /\ \A s \in Scanners : /\ DOMAIN scan'[s] = ScanFields
                                  /\ Remembered(scan'[s].cur, scan[s].cur)
  <1>. DEFINE Good(t) == DOMAIN scan'[t] = ScanFields /\ Remembered(scan'[t].cur, scan[t].cur)
             Goal == DOMAIN scan' = Scanners /\ \A t \in Scanners : Good(t)
  <1>. /\ DOMAIN scan = Scanners
       /\ \A t \in Scanners : DOMAIN scan[t] = ScanFields /\ DOMAIN scan[t].cur = CurFields
    BY Zenon DEF ScanInv
  <1>1. \A t \in Scanners : scan'[t] = scan[t] => Good(t)
    BY Zenon DEF Remembered, Kept
  <1>2. ASSUME NEW s \in Scanners, NEW r, scan' = [scan EXCEPT ![s] = r], DOMAIN r = ScanFields,
               Remembered(r.cur, scan[s].cur)
        PROVE  Goal
    <2>1. DOMAIN scan' = Scanners /\ scan'[s] = r /\ \A t \in Scanners : t # s => scan'[t] = scan[t]
      BY <1>2, Zenon
    <2>2. \A t \in Scanners : t # s => Good(t)
      BY <1>1, <2>1, Zenon
    <2>3. Good(s)
      BY <1>2, <2>1, Zenon
    <2>. QED  BY <2>1, <2>2, <2>3, Zenon
  <1>3. ASSUME NEW s \in Scanners, BeginScan(s) PROVE Goal
    <2>1. PICK q, queue, promised : scan' = [scan EXCEPT ![s] =
             [NoScan EXCEPT !.pc = "scan", !.query = q, !.queue = queue, !.promised = promised]]
      BY <1>3, Zenon DEF BeginScan
    <2>. DEFINE r == [NoScan EXCEPT !.pc = "scan", !.query = q, !.queue = queue, !.promised = promised]
    <2>2. DOMAIN r = ScanFields /\ r.cur = NoScan.cur /\ DOMAIN NoScan.cur = CurFields
      BY DEF NoScan, ScanFields, CurFields
    <2>3. scan' = [scan EXCEPT ![s] = r]
      BY <2>1, Zenon
    <2>. HIDE DEF r, Goal
    <2>4. Remembered(r.cur, scan[s].cur)
      BY <2>2, Zenon DEF Remembered
    <2>. QED  BY <1>2, <2>2, <2>3, <2>4, Zenon
  <1>4. ASSUME NEW s \in Scanners, gistkillitems(s) PROVE Goal
    <2>. DEFINE r == [scan[s] EXCEPT !.cur.offs = {}]
    <2>1. scan' = [scan EXCEPT ![s].cur.offs = {}]
      BY <1>4, Zenon DEF gistkillitems
    <2>2. scan' = [scan EXCEPT ![s] = r]
      BY <2>1, Zenon
    <2>3. /\ DOMAIN r = ScanFields /\ DOMAIN r.cur = CurFields
          /\ r.cur.blk = scan[s].cur.blk /\ r.cur.lsn = scan[s].cur.lsn
          /\ r.cur.last = scan[s].cur.last /\ r.cur.offs = {}
      BY DEF ScanFields, CurFields
    <2>. HIDE DEF r, Goal
    <2>4. Remembered(r.cur, scan[s].cur)
      BY <2>3, Zenon DEF Remembered, Kept
    <2>. QED  BY <1>2, <2>2, <2>3, <2>4, Zenon
  <1>5. ASSUME NEW s \in Scanners, EndScan(s) PROVE Goal
    <2>1. scan' = [scan EXCEPT ![s] = [scan[s] EXCEPT !.pc = "done", !.cur = NoScan.cur]]
      <3>. HIDE DEF Goal
      <3>1. scan' = [scan EXCEPT ![s].pc = "done", ![s].cur = NoScan.cur]
        BY <1>5, Zenon DEF EndScan
      <3>. QED  BY <3>1, Zenon
    <2>. DEFINE r == [scan[s] EXCEPT !.pc = "done", !.cur = NoScan.cur]
    <2>2. scan' = [scan EXCEPT ![s] = r]
      BY <2>1, Zenon
    <2>3. DOMAIN r = ScanFields /\ r.cur = NoScan.cur /\ DOMAIN NoScan.cur = CurFields
      BY DEF ScanFields, NoScan, CurFields
    <2>. HIDE DEF r, Goal
    <2>4. Remembered(r.cur, scan[s].cur)
      BY <2>3, Zenon DEF Remembered
    <2>. QED  BY <1>2, <2>2, <2>3, <2>4, Zenon
  <1>6. ASSUME NEW s \in Scanners, gistScanPage(s) PROVE Goal
    <2>1. PICK n \in DOMAIN scan[s].queue :
            LET item == scan[s].queue[n]
                page == pages[item.blkno]
                to == IF item.parentlsn = 0 THEN Invalid ELSE item.blkno
            IN  /\ item.blkno \in Blocks
                /\ \E queue : LET read == [scan[s] EXCEPT !.queue = queue, !.cur.blk = to] IN
                      scan' = [scan EXCEPT ![s] =
                        IF page.kind = "deleted" THEN MetDeleted(read)
                        ELSE ReadPage(read, page, Matches(page, scan[s].query))]
      BY <1>6, Zenon DEF gistScanPage
    <2>. DEFINE b == scan[s].queue[n].blkno
               blk == IF scan[s].queue[n].parentlsn = 0 THEN Invalid ELSE b
    <2>2. b \in Blocks /\ blk \in {b, Invalid}
      BY <2>1, Zenon
    <2>3. PICK queue : LET read == [scan[s] EXCEPT !.queue = queue, !.cur.blk = blk] IN
             scan' = [scan EXCEPT ![s] =
               IF pages[b].kind = "deleted" THEN MetDeleted(read)
               ELSE ReadPage(read, pages[b], Matches(pages[b], scan[s].query))]
      BY <2>1, Zenon
    <2>. HIDE DEF b, blk
    <2>. DEFINE rest == [scan[s] EXCEPT !.queue = queue, !.cur.blk = blk]
               match == Matches(pages[b], scan[s].query)
    <2>4. pages' = pages /\ lsn' = lsn
      BY <1>6, Zenon DEF gistScanPage
    <2>5. /\ DOMAIN rest = ScanFields /\ DOMAIN rest.cur = CurFields
          /\ rest.cur.blk = blk /\ rest.cur.lsn = scan[s].cur.lsn
          /\ rest.cur.last = scan[s].cur.last
      BY DEF ScanFields, CurFields
    <2>6. scan' = [scan EXCEPT ![s] = IF pages[b].kind = "deleted" THEN MetDeleted(rest)
                                      ELSE ReadPage(rest, pages[b], match)]
      BY <2>3, Zenon
    <2>. HIDE DEF rest, Goal
    <2>7. CASE pages[b].kind = "deleted"
      <3>. DEFINE r == MetDeleted(rest)
      <3>1. /\ DOMAIN r = ScanFields /\ DOMAIN r.cur = CurFields
            /\ r.cur.blk = blk /\ r.cur.lsn = scan[s].cur.lsn
            /\ r.cur.last = scan[s].cur.last /\ r.cur.offs = scan[s].cur.last
        BY <2>5 DEF MetDeleted, ScanFields, CurFields
      <3>2. scan' = [scan EXCEPT ![s] = r]
        BY <2>6, <2>7, Zenon
      <3>. HIDE DEF r
      <3>3. blk \in Blocks => blk = b
        BY <2>2, GistAssumption DEF Blocks, Invalid
      <3>4. Mixed(r.cur, scan[s].cur)
        BY <2>7, <3>1, <3>3, Zenon DEF Mixed
      <3>5. Remembered(r.cur, scan[s].cur)
        BY <2>4, <3>1, <3>4, Zenon DEF Remembered
      <3>. QED  BY <1>2, <3>1, <3>2, <3>5, Zenon
    <2>8. CASE pages[b].kind # "deleted"
      <3>. DEFINE r == ReadPage(rest, pages[b], match)
      <3>1. DOMAIN r = ScanFields /\ DOMAIN r.cur = CurFields /\ Fresh(r.cur)
        BY <2>5, <2>2, ReadPageFresh, Zenon
      <3>2. scan' = [scan EXCEPT ![s] = r]
        BY <2>6, <2>8, Zenon
      <3>. HIDE DEF r
      <3>3. Remembered(r.cur, scan[s].cur)
        BY <2>4, <3>1, Zenon DEF Remembered
      <3>. QED  BY <1>2, <3>1, <3>2, <3>3, Zenon
    <2>. QED  BY <2>7, <2>8, Zenon
  <1>7. ASSUME NEW p \in Inserters, BeginInsert(p) \/ InsertStep(p) \/ Die(p)
        PROVE  UNCHANGED scan
    <2>1. CASE \/ BeginInsert(p) \/ Die(p) \/ ParentIncomplete(p) \/ FindPath(p) \/ ParentMoved(p)
      BY <2>1, Zenon DEF BeginInsert, Die, ParentIncomplete, FindPath, Failed, ParentMoved
    <2>2. CASE AdjustKey(p) \/ InsertInLeaf(p) \/ InsertDownlinks(p) \/ CollectHalves(p) \/ FormDownlink(p)
      BY <2>2, Zenon DEF AdjustKey, InsertInLeaf, InsertDownlinks, CollectHalves, FormDownlink
    <2>3. CASE \/ MeetIncompleteSplit(p) \/ MeetConcurrentSplit(p) \/ Descend(p)
               \/ ReachLeaf(p) \/ LeafTaken(p)
      BY <2>3, Zenon DEF MeetIncompleteSplit, MeetConcurrentSplit, Descend, ReachLeaf, LeafTaken
    <2>. QED  BY <1>7, <2>1, <2>2, <2>3, Zenon DEF InsertStep
  <1>8. BeginVacuum \/ VacuumStep \/ Finished \/ UNCHANGED vars => UNCHANGED scan
    BY Zenon DEF BeginVacuum, VacuumStep, gistvacuumpage, FindEmptyChildren, EndVacuum,
       LockEmptyLeaf, gistdeletepage, Finished, vars
  <1>9. UNCHANGED scan => Goal
    BY <1>1, Zenon
  <1>. HIDE DEF Goal
  <1>10. \A s \in Scanners : BeginScan(s) \/ ScanStep(s) => Goal
    BY <1>3, <1>4, <1>5, <1>6, Zenon DEF ScanStep
  <1>11. Goal
    BY <1>7, <1>8, <1>9, <1>10, Zenon DEF Next
  <1>. QED  BY <1>11, Zenon DEF Goal

-----------------------------------------------------------------------------
(* The invariant holds at the start and every step preserves it.           *)

LEMMA KillInit == Init => KillInv
  <1>. SUFFICES ASSUME Init PROVE KillInv
    OBVIOUS
  <1>1. lsn = 1 /\ scan = [s \in Scanners |-> NoScan]
    BY Zenon DEF Init
  <1>2. /\ DOMAIN pages = Blocks
        /\ \A b \in Blocks : pages[b] = IF b \in DOMAIN InitPages THEN InitPages[b] ELSE NewPage
    BY Zenon DEF Init
  <1>3. DOMAIN NewPage = PageFields /\ NewPage.lsn = 0 /\ NewPage.kind = "new"
    BY DEF NewPage, Page, PageFields
  <1>4. FileInv
    <2>1. \A b \in DOMAIN InitPages : DOMAIN InitPages[b] = PageFields /\ InitPages[b].lsn \in {0, 1}
      BY InitPagesAssumption, Zenon DEF PageFields
    <2>. HIDE DEF PageFields
    <2>2. IsFile(pages) /\ \A b \in Blocks : pages[b].lsn \in {0, 1}
      BY <1>2, <1>3, <2>1, Zenon DEF IsFile
    <2>3. lsn \in Nat /\ \A b \in Blocks : pages[b].lsn \in 0 .. lsn
      BY <1>1, <2>2
    <2>. QED  BY <2>2, <2>3, Zenon DEF FileInv
  <1>5. Apart(pages)
    <2>1. NewPage.kind # "leaf" /\ NewPage.kind # "deleted"
      BY <1>3
    <2>2. \A x, y \in DOMAIN InitPages :
             InitPages[x].kind = "leaf" /\ InitPages[y].kind = "deleted"
                 => InitPages[x].lsn # InitPages[y].lsn
      BY InitPagesAssumption, Zenon
    <2>3. ASSUME NEW x \in Blocks, NEW y \in Blocks, pages[x].kind = "leaf", pages[y].kind = "deleted"
          PROVE  pages[x].lsn # pages[y].lsn
      <3>1. /\ x \in DOMAIN InitPages /\ pages[x] = InitPages[x]
            /\ y \in DOMAIN InitPages /\ pages[y] = InitPages[y]
        BY <1>2, <2>1, <2>3, Zenon
      <3>. QED  BY <2>2, <2>3, <3>1, Zenon
    <2>. QED  BY <2>3, Zenon DEF Apart
  <1>6. /\ DOMAIN NoScan = ScanFields /\ DOMAIN NoScan.cur = CurFields /\ NoScan.cur.lsn = 0
        /\ NoScan.cur.offs = {} /\ NoScan.cur.last = {}
    BY DEF NoScan, ScanFields, CurFields
  <1>7. DOMAIN scan = Scanners /\ \A s \in Scanners : scan[s] = NoScan
    BY <1>1, Zenon
  <1>8. ScanInv /\ KillsWhatWasSeen
    <2>1. 0 \in 0 .. lsn
      BY <1>1
    <2>. QED  BY <1>6, <1>7, <2>1, Zenon DEF ScanInv, KillsWhatWasSeen
  <1>. QED  BY <1>4, <1>5, <1>8, Zenon DEF KillInv

LEMMA FileStep ==
    ASSUME FileInv, [Next]_vars
    PROVE  FileInv'
  <1>1. MovesOn(pages', lsn')
    BY StepMovesOn
  <1>2. lsn' \in Nat /\ lsn <= lsn' /\ IsFile(pages')
    BY <1>1, Zenon DEF MovesOn
  <1>3. ASSUME NEW b \in Blocks PROVE pages'[b].lsn \in 0 .. lsn'
    <2>1. pages'[b].lsn \in lsn + 1 .. lsn' \/ pages'[b].lsn = pages[b].lsn
      BY <1>1, Zenon DEF MovesOn
    <2>2. lsn \in Nat /\ pages[b].lsn \in 0 .. lsn
      BY Zenon DEF FileInv
    <2>. QED  BY <1>2, <2>1, <2>2
  <1>. QED  BY <1>2, <1>3, Zenon DEF FileInv, IsFile

(* What a scan remembers of a page that has the LSN it remembers.          *)
Holds(P, cur) ==
    cur.blk \in Blocks /\ P[cur.blk].lsn = cur.lsn =>
        \A i \in cur.offs : /\ i \in DOMAIN P[cur.blk].items
                            /\ P[cur.blk].items[i].ptr \in DeadTuples

(* No deleted page has the LSN of the offset that may be met again.        *)
NotDeleted(P, cur) ==
    cur.last # {} => \A b \in Blocks : P[b].kind = "deleted" => P[b].lsn # cur.lsn

LEMMA KeptHolds ==
    ASSUME MovesOn(pages', lsn'), FileInv, NEW old, NEW new, Kept(new, old),
           old.lsn \in 0 .. lsn, Holds(pages, old), NotDeleted(pages, old)
    PROVE  new.lsn \in 0 .. lsn' /\ Holds(pages', new) /\ NotDeleted(pages', new)
  <1>1. lsn \in Nat /\ lsn' \in Nat /\ lsn <= lsn'
    BY Zenon DEF FileInv, MovesOn
  <1>2. new.lsn = old.lsn /\ new.blk = old.blk /\ new.last = old.last
    BY Zenon DEF Kept
  <1>3. new.lsn \in 0 .. lsn' /\ new.lsn \notin lsn + 1 .. lsn'
    BY <1>1, <1>2
  <1>4. \A b \in Blocks : pages'[b].lsn = new.lsn =>
           pages'[b].lsn = pages[b].lsn /\ SameTuples(pages'[b], pages[b])
    BY <1>3, Zenon DEF MovesOn
  <1>5. NotDeleted(pages', new)
    BY <1>2, <1>4, Zenon DEF NotDeleted, SameTuples
  <1>6. Holds(pages', new)
    <2>. SUFFICES ASSUME new.blk \in Blocks, pages'[new.blk].lsn = new.lsn, NEW i \in new.offs
                  PROVE  /\ i \in DOMAIN pages'[new.blk].items
                         /\ pages'[new.blk].items[i].ptr \in DeadTuples
      BY Zenon DEF Holds
    <2>1. pages'[new.blk].lsn = pages[new.blk].lsn /\ SameTuples(pages'[new.blk], pages[new.blk])
      BY <1>4, Zenon
    <2>2. i \in old.offs
      BY Zenon DEF Kept
    <2>3. i \in DOMAIN pages[new.blk].items /\ pages[new.blk].items[i].ptr \in DeadTuples
      BY <1>2, <2>1, <2>2, Zenon DEF Holds
    <2>. QED  BY <2>1, <2>3, Zenon DEF SameTuples
  <1>. QED  BY <1>3, <1>5, <1>6, Zenon

LEMMA KillStep ==
    ASSUME KillInv, PlacesOnLivePage, [Next]_vars
    PROVE  KillInv'
  <1>. FileInv /\ Apart(pages) /\ ScanInv /\ KillsWhatWasSeen
    BY Zenon DEF KillInv
  <1>1. MovesOn(pages', lsn') /\ FileInv'
    BY StepMovesOn, FileStep
  <1>2. Apart(pages')
    BY StepApart
  <1>3. ASSUME NEW s \in Scanners
        PROVE  LET cur == scan'[s].cur IN
               cur.lsn \in 0 .. lsn' /\ Holds(pages', cur) /\ NotDeleted(pages', cur)
    <2>. DEFINE cur == scan'[s].cur
               old == scan[s].cur
    <2>1. Remembered(cur, old)
      BY ScanRemembers, Zenon
    <2>2. old.lsn \in 0 .. lsn /\ Holds(pages, old) /\ NotDeleted(pages, old)
      BY Zenon DEF ScanInv, KillsWhatWasSeen, MayKill, Holds, NotDeleted
    <2>. HIDE DEF cur, old
    <2>3. CASE Kept(cur, old)
      BY <1>1, <2>2, <2>3, KeptHolds, Zenon DEF cur
    <2>4. CASE cur = NoScan.cur
      <3>1. cur.lsn = 0 /\ cur.offs = {} /\ cur.last = {}
        BY <2>4 DEF NoScan
      <3>2. 0 \in 0 .. lsn'
        BY <1>1 DEF MovesOn
      <3>. QED  BY <3>1, <3>2, Zenon DEF Holds, NotDeleted, cur
    <2>5. CASE Fresh(cur) /\ pages' = pages /\ lsn' = lsn
      <3>1. PICK b \in Blocks :
              /\ cur.blk \in {b, Invalid} /\ cur.lsn = pages[b].lsn
              /\ cur.last # {} => pages[b].kind = "leaf"
              /\ \A i \in cur.offs : /\ i \in DOMAIN pages[b].items
                                     /\ pages[b].items[i].ptr \in DeadTuples
        BY <2>5, Zenon DEF Fresh
      <3>2. cur.blk \in Blocks => cur.blk = b
        BY <3>1, GistAssumption DEF Blocks, Invalid
      <3>3. cur.lsn \in 0 .. lsn'
        BY <2>5, <3>1, Zenon DEF FileInv
      <3>4. Holds(pages, cur)
        BY <3>1, <3>2, Zenon DEF Holds
      <3>5. NotDeleted(pages, cur)
        BY <3>1, Zenon DEF NotDeleted, Apart
      <3>. QED  BY <2>5, <3>3, <3>4, <3>5, Zenon DEF cur
    <2>6. CASE Mixed(cur, old) /\ pages' = pages /\ lsn' = lsn
      <3>1. cur.lsn \in 0 .. lsn' /\ NotDeleted(pages, cur)
        BY <2>2, <2>6, Zenon DEF Mixed, NotDeleted
      <3>2. Holds(pages, cur)
        <4>. SUFFICES ASSUME cur.blk \in Blocks, pages[cur.blk].lsn = cur.lsn, NEW i \in cur.offs
                      PROVE  FALSE
          BY Zenon DEF Holds
        <4>1. cur.last # {} /\ pages[cur.blk].kind = "deleted"
          BY <2>6, Zenon DEF Mixed
        <4>. QED  BY <3>1, <4>1, Zenon DEF NotDeleted
      <3>. QED  BY <2>6, <3>1, <3>2, Zenon DEF cur
    <2>. QED  BY <2>1, <2>3, <2>4, <2>5, <2>6, Zenon DEF Remembered
  <1>4. KillsWhatWasSeen'
    BY <1>3, Zenon DEF KillsWhatWasSeen, MayKill, Holds
  <1>5. ScanInv'
    <2>1. DOMAIN scan' = Scanners /\ \A s \in Scanners : /\ DOMAIN scan'[s] = ScanFields
                                                         /\ DOMAIN scan'[s].cur = CurFields
      BY ScanRemembers, Zenon DEF Remembered
    <2>. QED  BY <1>3, <2>1, Zenon DEF ScanInv, NotDeleted
  <1>6. Apart(pages)'
    BY <1>2, Zenon DEF Apart
  <1>. QED  BY <1>1, <1>4, <1>5, <1>6, Zenon DEF KillInv

(* The LSN tells: a step that changes what a page is or which tuples are   *)
(* at which offsets of it stamps the page with a WAL position beyond all   *)
(* earlier ones, as the comment in gistkillitems says.                     *)
THEOREM LSNTellsChange == Spec => [][MovesOn(pages', lsn')]_vars
  <1>1. Init => FileInv
    BY KillInit DEF KillInv
  <1>2. FileInv /\ [Next]_vars => FileInv'
    BY FileStep
  <1>3. FileInv /\ [Next]_vars => [MovesOn(pages', lsn')]_vars
    BY StepMovesOn
  <1>. QED  BY <1>1, <1>2, <1>3, PTL DEF Spec

(* gistkillitems marks what the scan has seen: whenever it finds the LSN   *)
(* the scan remembers, the remembered offsets hold tuples dead to          *)
(* everyone, also where the block is a deleted one and the LSN and offset  *)
(* are those of a leaf read before.  It rests on what gistplacetopage      *)
(* asserts: were a downlink placed on a deleted page, the record would     *)
(* stamp that page and its leaf alike.                                     *)
THEOREM KillSafe == Spec /\ []PlacesOnLivePage => []KillsWhatWasSeen
  <1>1. Init => KillInv
    BY KillInit
  <1>2. KillInv /\ PlacesOnLivePage /\ [Next]_vars => KillInv'
    BY KillStep
  <1>3. KillInv => KillsWhatWasSeen
    BY DEF KillInv
  <1>. QED  BY <1>1, <1>2, <1>3, PTL DEF Spec
=============================================================================
