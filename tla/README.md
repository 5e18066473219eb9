# Range statistics and their surroundings: a TLA+ verification project

The repository is a fork of PostgreSQL 13 (`src/postgres-ramen`) that changes how
statistics on range columns are collected and used. ANALYZE stores one more
histogram for a range column, a *frequency histogram*, and two planner functions
estimate `<<` and `&&` from it. This project models that code; the way the
statistics take from ANALYZE to the planner of another backend (catalog cache and
invalidation queue); and the GiST index of a range column, whose support functions
use the same bounds. TLC checks the models on small instances, and TLAPS proves
the central invariants for all instances. Paths below are relative to
`src/postgres-ramen/src/`.

## 1. The system

| Part | Code | State | Operations |
|---|---|---|---|
| Range bounds and operators | `backend/utils/adt/rangetypes.c` | values | comparison, serialization, order and containment operators |
| ANALYZE of a range column | `rangetypes_typanalyze.c`, `compute_range_stats` | the sample, three work arrays, loop cursors, statistics slots | scan, sort, pick bounds, pick lengths, store |
| Frequency histogram | same file, `ComputeFrequencyHistogram`, `count_frequencies` | a grid of intervals, two row cursors, counts | choose the grid, carry, enter and retire rows |
| Restriction estimate | `rangetypes_selfuncs.c`, `rangerestsel` | pinned statistics tuple, loop index, sum | checks with early returns, two loops, clamp |
| Join estimate | `geo_selfuncs.c`, `rangeoverlapsjoinsel` | two pinned tuples, two pairs of cursors, sum | checks, LOW loop, HIGH loop, `computeSelectivity` |
| Histogram lookup | `rangetypes_selfuncs.c`, `rbound_bsearch` and its callers | two cursors | binary search, interpolation |
| Invalidation queue | `storage/ipc/sinvaladt.c`, `sinval.c` | a ring in shared memory, two locks, one unlocked flag per backend, a static buffer per backend | send, receive (recursively), clean up, reset, signal |
| ANALYZE command and statistics cache | `commands/analyze.c`, `utils/cache/catcache.c`, `inval.c`, `xact.c`, `lmgr.c` | the `pg_statistic` row, caches, snapshots, locks, open transactions | update, search, flatten, commit, abort |
| GiST index | `access/gist` | pages with rightlinks, NSNs and flags; stacks and locks of the backends | insert, split and its completion, scan, VACUUM |
| GiST support of ranges | `rangetypes_gist.c`, `access/gist/gistproc.c` | keys | consistent, union, same, picksplit |

**Interactions.** `compute_range_stats` hands the bounds it picked for the bounds
histogram to `ComputeFrequencyHistogram`; the result goes to `pg_statistic`. The
planner finds the row in its catalog cache. It reads three things: the first
lower bound, the last upper bound and the frequencies. It does not read the grid, it
recomputes it. The cached row is thrown out when the message arrives that the
committing ANALYZE put in the invalidation queue; messages are read when a lock
is taken, so the locks decide who sees what.

**What is hard here.** The estimators run sequentially; their difficulties are in
the data: two cursors over independently sorted arrays; a subscript kept as an
integer and a fraction; a grid rounded twice and recomputed elsewhere; `int`
arithmetic that wraps (PostgreSQL is built with `-fwrapv`) and comparisons that
are unsigned because a `Datum` is; infinite bounds, whose value is 0. The queue,
the cache and the index are concurrent: flags read without a lock, buffers shared
by recursive calls, messages that arrive between a scan and the cache entry made
from it, pages that split after their downlink was read. `PROJECT.json` lists
these hazards line by line.

## 2. Modules

- **`Intervals`**: `int` arithmetic (`Wrap`, C division), `roundUpDivision`,
  `IsInRange`, and the grid: `NbOfIntervals` and `IntervalLength` of a column
  length. `IntMax` is a constant, so a run can bring the end of the integers
  close. `WeightInv` is 1/WEIGHT, 20 in the code. The divider `1 + WEIGHT*length`
  is truncated to an `int`, as in the call of `roundUpDivision`.
- **`RangeBounds`**: `range_cmp_bounds`, `range_cmp_bound_values`, and
  what `range_serialize` decides: an error, an empty range, or a range.
  **`RangeTypes`**: the operators on ranges that the GiST support calls.
- **`FreqHist`**: the frequency histogram. `fpc` is the loop the sweep is in; there
  is one action per iteration (`CarryRow`, `EnterRow`, `RetireRow`) and one per
  loop exit. A float count is a sum of fractions with one denominator per row;
  the model keeps the numerators, `count[row]`. `sigfpe` is a division by zero.
- **`TypAnalyze`**: `compute_range_stats`, with `FreqHist` as an instance
  for the call at its end. `qsort` is any ascending rearrangement, so that ties may
  end in any order. When fewer than two ranges were found, the arrays passed on
  are uninitialized: `FewValues` then either ends the backend (`segv`) or reads
  arbitrary values from the set `Garbage`.
- **`RestSel`**: `rangerestsel`. A call is a record with the outcome of every
  check and the statistics found. A `float8` is a fraction; the denominator is 0 for
  an infinity and, with the numerator 0, for NaN. The model keeps the set of
  intervals added to the sum. The bounds of the column are any for which ANALYZE
  lives to store statistics: those of unbounded columns, where `min` may be above
  `max` and the planner's interval length 0 or negative, are among them.
- **`JoinSel`**: `rangeoverlapsjoinsel`. The paired locals of the code (`x_low` and
  `y_low`, ...) are functions of the side. The model keeps the set of interval pairs
  multiplied. **`JoinSelSwapped`** instantiates the module with the sides
  exchanged and says that one execution implements the other.
- **`AnalyzeEstimate`**: `FreqHist` composed with `RestSel`: a column is analyzed,
  then a clause is planned from the stored frequencies. The two modules share no
  variable (the sweep has `fpc` and `fi` where the estimate has `pc` and `i`); `Plan` is
  the step between them. The float sums become integers over one denominator, the
  product of the row lengths (`Unit`).
- **`HistSearch`**: the two binary searches, and the scalar estimate interpolated
  in a bin (`calc_hist_selectivity_scalar`, `get_position`).
- **`SInval`**: the invalidation queue. One step is the code between two points at
  which another process can interfere: a lock taken or released, or a read or
  write of shared memory without one. A message is its own number in the order of
  sending; `base` is the number MsgNum 0 stands for, so that the lowering of all
  counters at `MSGNUMWRAPAROUND` is visible. The recursion of
  `ReceiveSharedInvalidMessages` is a stack of frames; the static buffer is shared by
  all of them, as in the code. **`InvalQueue`** is the abstract specification: one
  endless sequence that every backend reads in order or is told to reset.
- **`StatsCache`**: ANALYZE and planning of one column, with the queue of
  `InvalQueue` (`SInval` is shown to implement it) and one action per point at which
  messages are read: transaction start, each lock, the opening of catalogs, the
  flattening of a tuple with out-of-line fields.
- **`RangeGist`**, **`RangeSplit`**: the support functions of the range operator class:
  keys with the contain-empty flag, `range_super_union`, `consistent` for inner and
  leaf keys, and `picksplit` with its three methods. **`Gist`**: pages, insertion,
  splits and their completion, `gistFindCorrectParent` and `gistFindPath`, scans,
  killed items, VACUUM, page deletion and reuse. What is done under a shared lock is
  one step. `gistchoose` may choose any child: no property depends on the penalty.
- **`MC...`**: the instances for TLC. **`...Proofs`**: theorems.

Operators whose comment starts with "Mutant" are wrong variants of the definition
that follows them. No specification uses them. Each property is known to fail
when one of them replaces its original, so no property holds vacuously.

## 3. Runs

| Run | Shows |
|---|---|
| `freq_hist` | `SweepExact`: on columns without negative bounds the sweep agrees with a comparison of every interval with every row. `NeverUndercounts`: with negative bounds the unsigned comparisons take wrong branches, but only ever add. `GridCovers`, `RowMass`; `FreqTypeOK`, because `u` is kept within the rows only by a test that the code comments as normally not useful. |
| `typanalyze` | `EvenlySpaced`, `Quantiles`: the histograms are evenly spaced quantiles of the sample as it was read. `NoEmptyHistogramRange`: no pair of bounds is an empty or invalid range. |
| `join_sel` | `LowFindsOverlap`, `SumOverIntervals`, `SameGridDiagonal`; `SidesExchangeable`, a refinement: `b && a` takes the steps of `a && b` with the sides exchanged. |
| `rest_sel` | `OverlapComplete`, `LeftPrefix`, of bounded columns only. `Probability`, of unbounded columns too: the estimate is between 0 and 1, and NaN only where the planner's interval length is 0 or a stored frequency is not finite. |
| `analyze_estimate` | `NoFalseZero`, `CertainClauses`. |
| `hist_search` | `GreatestIndex`, `Monotone`, `Terminates`. |
| `sinval` | `QueueSound`: no unread message is overwritten. `NoLostWakeup`: the unlocked flag hides no completed insertion. `NothingDropped`, `ReceiveGuarantee`: recursive receives neither skip nor repeat a message, and each call processes what was queued before it was entered. `SenderFinishes`: a sender of the few messages of the run ends, whoever does not read; `ImplementsInvalQueue`, a refinement. |
| `stats_cache` | `ObsoleteEntriesAreDoomed`, `OnlyCommittedRowsSpread`, `PlannerSeesAnnounced`; `OnlyLateEntriesFail`: two ANALYZEs never collide, except through entries of rows with out-of-line fields. |
| `gist` | Two inserters that split leaves, inner pages and the root, one of which may die: `OneWayToEachPage`, `KeysCover`, `ParentRefound`, `NoLockCycle`, `InsertsEnd`. |
| `gist_vacuum` | An inserter, a scan and VACUUM: `ScanComplete`, `NoTupleTwice`, `DeadTuplesRemoved`. `PlacesOnLivePage`: an insertion that waited for its page never goes on with one that VACUUM has deleted. `KillsWhatWasSeen`: what `gistkillitems` marks is what the scan has found dead, also after a deleted page, where it pairs that block with the LSN and the last offset of the leaf before it. |

Two runs check a statement the repository makes of the code and that the code
does not keep; TLC shows how.

| Run | Statement | What happens |
|---|---|---|
| `typanalyze_unbounded` | "compute statistics (if not empty) ...", `rangetypes_typanalyze.c:221` | Infinite bounds have the value 0. The column length can be 0, and the grid computation divides by zero. |
| `gist_parent` | "Updates the stack so that child->parent is the correct parent of the child.", `access/gist/gist.c:1013` | Beyond an inner page whose own split was left incomplete, the block number of the parent is moved right and the offset and LSN are not; a later split believes the stale offset. |

**Bounds.** Columns are given by a few bound values, chosen around the points where
the grid changes: lengths below 20 (one value per interval up to length 19), 20 and 21, 40
and more, up to 382, where intervals hold 20 values and the number of them has
reached its limit of 20. Two or three rows suffice for rows that nest, overlap,
touch, coincide or are disjoint, which is all the sweep can tell apart; the
theorems below remove the bound. Samples have up to four rows of canonical
ranges, or three with any bounds, with targets 1 and 2 (the default), so the
subscript of the histogram loops has a carry. `IntMax` is 63 to 1023:
values near it make the grid wrap, and the properties that speak of exact
counts say so in a precondition (`FreqNoWrap`, `NoWrap`, `Proper`). `rest_sel` also
has columns with an infinite bound, whose `max` is below their `min`: their interval
length is 0 or negative, and some of their frequencies are not finite.

The ring of `sinval` holds three messages, of which a sender writes one per chunk and two
per transaction: with `MaxSent` 4 it fills, its slots are reused, backends are
signalled and reset, and the counters are lowered (`MSGNUMWRAPAROUND` 3) in the middle
of it. A read takes at most two messages, so a receive call has to read
again, and calls nest once (`MaxDepth` 2). Two backends come and go; the theorems
hold for any number. `stats_cache` has two backends and three row versions: two
ANALYZEs and one that overwrites their result, committed or aborted.
The index of `gist` starts with two levels and full pages of two tuples; the three
tuples inserted split leaves in two and in three, the root, and an inner page
below it. `gist_vacuum` starts from a split cut short by a crash, with an empty leaf, a dead
tuple, a page long deleted and a free space map that is wrong about one. The dead tuple is the
last of its leaf, so that a scan that next meets a deleted page takes its offset along.

**Fairness.** The specifications of sequential code have weak fairness of the whole
next-state relation: one backend executes the code, and a backend that runs makes
its next step. Terminal states stutter (`Ended`, `SearchReturned`, `Finished`), so that deadlock
is checked in every run but `sinval`, where nobody has to send. For `SenderFinishes`
and `InsertsEnd` each process has weak fairness of its steps: one that can go on, its lock being
free, does in the end. That is the operating system's scheduling and nothing more. `LWLockAcquire` retries
and may lose a free lock to a late-comer (`lwlock.c:1253-1263`), so no waiter is taken to be
served in turn. It need not be: the runs send and insert a bounded number of times, so contention
ends. Of an endless stream of competitors nothing is claimed. For `Gist` the
weak fairness of `InsertStep` is written out with `Waits` in place of `ENABLED`, which TLC is too slow for;
a backend that asks again for a lock it holds waits, for ever, and in `NoLockCycle` is a cycle of
its own. A backend that was sent the catch-up signal handles it in the end. No fairness is assumed of beginning anything.

## 4. Proofs

All theorems hold for every value of the constants that meets the named
assumptions: `IntMax` and `WeightInv` positive naturals, calls of the right
types, samples made of values `range_serialize` can store, a ring with room
for what one chunk writes, `None` different from what it stands beside.

- **`BasicsProofs`**: the data. `roundUpDivision` is the ceiling; a positive length
  has between 1 and `WeightInv` intervals, and they cover it (`GridOfLength`). The
  planner divides `max - min` where ANALYZE divides `max - min + 1`; the
  interval lengths are equal unless the number of intervals divides `max - min`
  (`PlannerGridLength`). `range_cmp_bounds` is antisymmetric and transitive over all
  kinds of bounds, and an ordered pair serializes without error to a non-empty range.
  For the keys of an index: covering is transitive, `range_super_union` covers both
  arguments, a downlink that `gistgetadjusted` leaves alone covers the new tuple
  (`UnchangedKeyCovers`), and `range_gist_consistent` descends through every key that
  covers a match (`SearchMissesNothing`).
- **`FreqHistProofs`**. `SweepExact`, `NeverUndercounts` and `GridCovers` are not inductive.
  `SweepInv` adds what the cursors mean: between intervals, rows below `l`
  are those that begin at or before `sup`, rows below `u` those that end at or
  before `sup + 1`; inside an interval the counts of the rows passed are right
  and the others are zero. Three lemmas (carried, entered, skipped row)
  give the count of one row, and `SweepStep` has one case per action.

  `RowMass` is about the sum over all intervals. `Summation` says that a function on the
  subsets of a finite set adds up another one; it exists (`SumExists`), is unique, may take
  any element first (`SumAnyOrder`) and is what the fold computes (`SumIs`). The intervals
  below `m` have together counted the values of a row before their end (`MassStep`,
  `MassOfPrefix`), and at the last interval that is all of them.
- **`TypAnalyzeProofs`**. `EvenlySpaced` follows from
  `pos * (num_hist - 1) + posfrac = i * (nvals - 1)`. `NoEmptyHistogramRange` needs
  that after two independent sorts the r-th lower bound is still not
  above the r-th upper bound. This is a pigeonhole argument (`SortedPairs`): of
  n rows, n - r have a lower bound ranked r or later and r + 1 an upper bound ranked
  r or earlier, so some row has both, and its bounds are ordered.

  `Quantiles` compares what is stored with the sample as it was read. `QuantileInv` says that
  each array holds the rows read so far in some order (`InOrder`, a bijection that the scan
  extends and a sort composes with a permutation), that it is ascending while it is picked from,
  and that what has been picked are quantiles. In an ascending array at most `pos`
  elements are below the one at `pos` and at least `pos + 1` are up to it (`Rank`), which with
  the equation for `pos` above is what a quantile is (`RankIsQuantile`).
- **`SelFuncsProofs`**: the join estimate and the searches. Only the column that begins first moves in the LOW loop, and only
  the one that ends last in the HIGH loop. Hence skipped intervals lie
  outside the other column, no side runs out in LOW, and the two windows keep at
  least one interval (`LowFindsOverlap`, `SumOverIntervals`). Two columns with the same bounds
  have the same grid; the first and the last intervals meet, so neither loop skips anything,
  and the cursors of the sum begin together and stay together (`DiagonalInv`, which gives
  `SameGridDiagonal`). `SidesExchangeable` is a step simulation: seen through the exchange every
  action of a side is the same action of the other side, since the conditions of the checks
  and of the loops are symmetric (`ExchangedConditions`).

  For the searches: entries up to `lower` are below the value and
  entries after `upper` are not; with transitivity of the comparison this is
  inductive (`SearchInv`) and gives `GreatestIndex`. `Monotone` compares the answer with that of a
  second search. If both end in one bin, the positions in it are fractions with the same
  denominator (`PositionMonotone`); if not, the first is at most the end of its
  bin and the second at least the beginning of a later one (`BetweenBins`).
- **`EstimateProofs`**: the restriction estimate, alone and after ANALYZE.
  - The interval ends increase with the index, so the intervals that
    meet the constant are contiguous. The invariant `LoopInv` says what the prefix of
    intervals seen so far contributed; at the loop exits it gives `OverlapComplete`
    and `LeftPrefix`. Both have as a precondition a bounded column without wrap-around (`NoWrap`).
  - Every return gives a default or a clamped fraction. The clamp leaves a fraction in bounds or
    0/0, and a denominator of 0 comes from a frequency or from the interval length only
    (`Probability`, of any column). Of a bounded column that ANALYZE has analyzed neither is
    possible: the frequencies have the denominator `Unit`, and the interval length is
    positive. Then the estimate is a number (`AnalyzedEstimateIsNumber`).
  - `EstimateInv` is the invariant of the two programs together: `SweepInv`; before the
    planner runs its locals are unset; while it runs the sweep has ended, the arguments of the call are
    what the sweep left (`PlannedCall`), `LoopInv` holds, and what is returned after the loops
    is the clamped share.
  - `CertainClauses` has two halves. The stored frequencies add up to at least `rows` (`StoredTotal`):
    row by row the intervals up to `m` hold at least the values before their end
    (`WeightedStep`). And every interval is added: the last interval of the
    planner begins inside the column although its grid is rounded differently
    (`LastIntervalInside`), so a constant around the column meets them all.
  - `NoFalseZero`: a value that a row and the constant have in common lies in some interval
    (`IntervalOfValue`); the sweep counted the row there, the loop adds the interval, and
    neither the sum nor the clamp loses it (`CommonInterval`).
- **`SInvalProofs`**: the queue.
  - `IInv` adds to `QueueSound` and `NoLostWakeup` what makes them inductive: who holds
    which lock at which point (`Control`), what each slot's reader has fetched and may
    rely on (`Receiver`), which ring slots hold which message (`Filled`), what a writer has
    stored but not published, and whom it has told so far (`Announced`, `Told`).
    One lemma per step shows that it is preserved; where a step takes the least
    of a set of numbers the lemma has as a hypothesis that the naturals are well ordered, which
    is discharged at the end from the library. A reader's copy of `maxMsgNum` may
    be old when it is used, but a lock keeps the minimum from passing it, and a backend
    that is told after the message is published is told in time.
  - `Receiving` is the invariant of the recursive receive, on top of `IInv`. The frames are
    nested: an outer call owes no more than an inner one (`Nested`), because it was entered
    earlier. What is in the static buffer, the messages taken (`InHand`) and the next
    message to be read are consecutive, so an inner call that uses up the buffer
    processes exactly what the outer calls had in hand, and the outer loops find it empty.
    It gives `NothingDropped` and `ReceiveGuarantee`.
  - `SInvalImplementsInvalQueue`: the ring implements the endless sequence. Message numbers are
    offset by `base`, which absorbs the wrap-around; a reset by the cleanup is a stutter, as
    the backend is only handed the reset when it reads.
- **`StatsCacheProofs`**: the four properties of `stats_cache`, for any number of backends and
  row versions. `CInv` says of each backend: a version it writes is announced by
  one of its two lists, and while it has one it has the table's lock (`Writing`); the holder of
  the lock is never behind in the queue, since only the holder could send anything
  (`Locking`); every cached version, and the snapshot, is the current one or is doomed, is at
  least the announced version when the backend has read all messages, and at least the
  planner's `floor` (`Cached`, `Snapped`); the row in hand is as good as the entry it came from while
  an ANALYZE uses it (`Holding`). A step of one backend is for the others one of
  few things (`Bystander`), which `BystanderKept` treats once for all steps.
- **`GistProofs`**: the LSN of a page tells whether its tuples are where they were, which is all
  that `gistkillitems` goes by when it locks a leaf a second time. `MovesOn` says it of one step
  and of every page: the page has the LSN and the tuples it had, or an LSN beyond the WAL
  position before the step. It is shown for each way to change a page (`PlaceMovesOn`
  for `gistplacetopage` with its pruning and its splits, whatever `picksplit` does; VACUUM; page
  deletion; `gistkillitems`, which changes flags only and keeps the LSN), and is the action
  property `LSNTellsChange`, which includes the kind of the page. `KillInv` adds that no page and no
  scan has an LSN of the future, and that what a scan remembers is what its leaf holds while the LSN
  is the same. That would do if block, LSN and offsets were of one page. After a deleted page the
  block is of that page and the rest of the leaf before it, so two pages must not be mistaken for one another: no
  deleted page has the LSN of a leaf (`Apart`). Two pages have the same LSN only if one record wrote both;
  the record of a split writes leaves or inner pages, that of a deletion
  the deleted leaf and its parent, an inner page (`StaysApart`). A record that put tuples on a deleted
  page would break this, and so `KillSafe` (`KillsWhatWasSeen`) has as its hypothesis that none does: `PlacesOnLivePage`, which
  `gistplacetopage` asserts (`gist.c:249`) and TLC checks in `gist_vacuum`; its proof would
  need the invariant of the whole tree. Of the index at the start it is assumed that its pages are
  pages, that none has an LSN beyond the first record, and that no deleted page has the LSN of a leaf
  (`InitPagesAssumption`).

The named inductive invariants (`QuantileInv`, `JoinInv`, `DiagonalInv`, `LoopInv`, `SearchInv`,
`EstimateInv`, `IInv`, `Receiving`, `CInv`, `KillInv`) also hold in TLC on the instances of the runs. The library's
induction theorems cannot be instantiated by the provers; where a proof needs induction over data
it takes the least counterexample (`NaturalsWellOrdered`, `SmallestSubset`).

**Only model-checked.** Liveness under fairness is out of the proof
system's reach: `Terminates`, `SenderFinishes`, `InsertsEnd`. The other properties of
`Gist` are about trees of pages of any height (`OneWayToEachPage`, `KeysCover`, `ParentRefound`,
`NoLockCycle`, `ScanComplete`, `NoTupleTwice`, `DeadTuplesRemoved`, `PlacesOnLivePage`). What is proved is what they need of the keys
(`BasicsProofs`) and of the LSNs (`GistProofs`).

## 5. Known deviations

What the code does and its comments or its callers do not expect. The two runs at
the end of section 3 show two of them; the others are visible in the models, and the
properties say where they exclude them.

- *ANALYZE, fewer than two ranges* (`rangetypes_typanalyze.c:505`). The comment at 477 says "store an
  empty array to mean "no histogram""; the frequency histogram is computed all the same,
  from arrays that were never assigned (`FewValues`).
- *Join estimate, index 0* (`geo_selfuncs.c:251`). The HIGH loop takes index 0 for "not found" and
  raises an error for columns that overlap in their first interval, where line 79 keeps a
  "Default selectivty in case something goes wrong."
- *Pins* (`geo_selfuncs.c:92,103,105`, `rangetypes_selfuncs.c:150`). Some early returns leave the
  statistics tuples pinned; `selfuncs.c:4728`: "Caller is responsible for doing
  ReleaseVariableStats() before exiting."
- *`<<` left of the column* (`rangetypes_selfuncs.c:252`). A constant left of the whole column stops the
  loop nowhere and gets the sum over every interval. `LeftPrefix` excludes it.
- *NaN* (`rangetypes_selfuncs.c:237,258`). An infinite bound has the value 0. For a column of ranges [50,) `max - min`
  is -50, ANALYZE stores 49 intervals, and the division rounds to an interval length of 0. For `<<`
  line 258 then multiplies the first frequency by a/0: that is NaN if the constant begins at 0 or the frequency
  is 0. `CLAMP_PROBABILITY` (`selfuncs.h:60-66`) compares, and lets NaN pass to the planner. A row such as [0,), whose two bound values are equal, makes the stored frequencies
  infinite, and infinity times 0 is NaN too. `Probability` says that these are the only ways; it
  excludes nothing else.
- *Default of `&&`* (`rangetypes_selfuncs.c:126,133`). It gets the default of `<<`.
- *Rows with out-of-line fields* (`catcache.c:1827-1830`). `toast_flatten_tuple` reads the queue before the
  entry is linked, so a message about the row finds nothing to remove and the entry stays.
  The properties of `stats_cache` call such entries late and exclude them. One consequence contradicts
  `analyze.c:1462-1464`: an ANALYZE can fail with "tuple concurrently updated" although the
  lock excludes every other one.
- *Catch-up signal* (`sinval.c:129-142`). "We are now caught up" need not be so: messages and the
  catch-up signal may arrive after the last look at the queue and before the test of
  `catchupInterruptPending`. The flag is then cleared with the messages unread, and the backend, whose
  `signaled` stays set, is not signalled again: an idle backend misses the "swift kick in the rear" of
  lines 29-33 and is reset once the ring is full. No message is lost by it.
- *Deadlock beyond an incomplete split*. `access/gist/README:253-256` says that locks taken in one order
  avoid deadlocks. Beyond a page whose split was left incomplete, `gistFindPath` can come to a left
  sibling of a page that is held; `NoLockCycle` and `InsertsEnd` exclude it.
- *Unchecked parent*. `gistdoinsert` tests `F_FOLLOW_RIGHT` before the NSN. It may complete the split of a
  page that was split since its downlink was read, find the parent on another path, and go on from
  there without a check that the keys above cover the new tuple, where the README (138-145) has them
  adjusted on the way down. `KeysCover` excludes it.
- *picksplit* (`rangetypes_gist.c`). `common_left` is computed as the number of common entries for the
  right side. For [0,9), [1,2), [2,3), [3,4) the left group becomes empty, and GiST falls back on a generic split. The
  overlap is meant to be "allowing negative values", but `call_subtype_diff` raises it to 0. Neither
  endangers the index: any division of the entries is allowed.

## 6. Limits

- The subtype is an integer, as for `int4range`. The new code uses
  `RangeBound.val` as an `int`, so other subtypes are outside what it supports.
- The rounding of float sums is left out; the counts are exact fractions. Which frequencies of an
  unbounded column are not finite is not computed: `RestSel` has any of them (`nonfinite`). `stawidth`, `stadistinct`, memory contexts and the
  byte layout of ranges are left out.
- An infinite bound in the constant of a clause has the value 0 in the code, and the
  model has it as an ordinary constant at 0; only `Probability` speaks of it.
- `OverlapComplete`, `LeftPrefix` and the properties of `analyze_estimate` are about bounded columns.
  On an unbounded one the grid does not follow the ranges, and nothing in the
  repository says what the sums should be.
- For two columns with different grids `computeSelectivity` skips some pairs of
  intervals that overlap. The code marks the sum as unfinished ("TODO normalize
  result") and nothing states what it should be, so only `SameGridDiagonal` and
  `SumOverIntervals` speak of the pairs.
- `NoFalseZero` has the precondition that the two grids agree. Without it, it
  fails: on the column of [0,3) and [60,380) ANALYZE uses 20 intervals of 20 values and
  the planner 20 intervals of 19.
- Of the queue, two-phase commit, `nextLXID` and the content of messages are left out. Of the
  statistics cache, one column is modelled, without subtransactions.
- Of GiST, the penalty (any child may be chosen), buffering builds, several columns, NULLs, ordered
  scans, the inside of the free space map and WAL redo are left out; a crash keeps what was logged.
- Not modelled: `rangesel` and its estimates, SP-GiST, the remaining range operators and constructors, and
  the rest of PostgreSQL.

## 7. Plan

1. Proofs: the invariant of `Gist` that gives `OneWayToEachPage`.
2. **`HistSel`**: `rangesel`, `calc_rangesel`, `calc_hist_selectivity`, the length
   histogram fraction, contained and contains, on top of `HistSearch`.
3. The remaining operators of `rangetypes.c`, with sets of points as the abstract specification.
