------------------------------- MODULE MCGist --------------------------------
(***************************************************************************)
(* Small GiST indexes for TLC.                                             *)
(***************************************************************************)
EXTENDS Gist

R(l, u) == range_serialize(LowerBound(l, TRUE), UpperBound(u, FALSE))
Q(strategy, arg) == [strategy |-> strategy, arg |-> arg]

(* Two levels, the root and block 1 full.  Three tuples, one of them the   *)
(* empty range and one wide, are inserted: leaves are split in two and in  *)
(* three, the root is split, and an inner page below it after that.        *)
FullKeys == [t \in 1 .. 6 |-> LeafKey(CASE t = 1 -> R(0, 1) [] t = 2 -> R(1, 2) [] t = 3 -> R(2, 4)
                                        [] t = 4 -> EmptyRange [] t = 5 -> R(1, 4) [] t = 6 -> R(2, 3))]
FullItem(t) == Item(FullKeys[t], t)
FullPages ==
    [b \in 0 .. 2 |->
       CASE b = 0 -> Page("inner", <<Item(LeafKey(R(0, 2)), 1), Item(LeafKey(R(2, 5)), 2)>>)
         [] b = 1 -> Page("leaf", <<FullItem(1), FullItem(2)>>)
         [] b = 2 -> Page("leaf", <<FullItem(3)>>)]

(* Two levels.  A split of block 1 into 1 and 3 was cut short by a crash,  *)
(* and VACUUM has emptied block 1 since; block 2 was deleted long ago, and *)
(* block 3 is full, its last tuple dead.  A wide tuple is inserted.  The   *)
(* free space map takes block 1 for free too.                              *)
FlatKeys == [t \in 1 .. 5 |-> LeafKey(CASE t = 1 -> R(4, 6) [] t = 2 -> R(3, 5) [] t = 3 -> R(2, 3)
                                        [] t = 4 -> R(6, 7) [] t = 5 -> R(0, 2))]
FlatPages ==
    [b \in 0 .. 4 |->
       CASE b = 0 -> Page("inner", <<Item(LeafKey(R(2, 6)), 1), Item(LeafKey(R(6, 7)), 4)>>)
         [] b = 1 -> [Page("leaf", <<>>) EXCEPT !.follow = TRUE, !.right = 3]
         [] b = 2 -> [Page("deleted", <<>>) EXCEPT !.lsn = 0]
         [] b = 3 -> Page("leaf", <<Item(FlatKeys[2], 2), Item(FlatKeys[3], 3), Item(FlatKeys[1], 1)>>)
         [] b = 4 -> Page("leaf", <<Item(FlatKeys[4], 4)>>)]
FlatDead == {1}
FlatFsm == {1, 2}
FlatQueries == {Q("overlaps", R(0, 7))}
=============================================================================
