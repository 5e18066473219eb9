----------------------------- MODULE StatsCache -----------------------------
(***************************************************************************)
(* How the histograms of a range column get from ANALYZE to the planner of *)
(* another backend.  ANALYZE replaces the pg_statistic row of the column   *)
(* under a self-exclusive lock on the table (commands/analyze.c); the      *)
(* planner finds the row in its system cache (utils/cache/catcache.c),     *)
(* filled under a catalog snapshot, and drops it when the invalidation     *)
(* message arrives that the committing transaction sends                   *)
(* (utils/cache/inval.c) through the queue of InvalQueue.                  *)
(*                                                                         *)
(* One column, so that every message is about its cache entry.  A row      *)
(* version is a number; 0 stands for no row, and for the negative entry a  *)
(* search without a result leaves in the cache.                            *)
(***************************************************************************)
EXTENDS InvalQueue

CONSTANTS MaxVersion,   \* row versions written (bound)
          None          \* no cache entry, no snapshot, nobody

VARIABLES
    heap,       \* [cur: the committed version, next: number of the next one,
                \*  toasted: versions stored with out-of-line fields,
                \*  committed: history, versions of committed transactions]
    locker,     \* who holds ShareUpdateExclusiveLock on the table
    pc,         \* where each backend is
    xact,       \* the open transaction: see NoXact
    catSnap,    \* CatalogSnapshot: the version it sees, or None
    entry,      \* the live cache entry, or None: see Row
    held,       \* the row a search returned, or None
    failed,     \* history: the rows on which an update_attstats went wrong
    announced   \* history: the last version whose message has been sent

locals == <<catSnap, entry, held>>
vars == <<qvars, heap, locker, pc, xact, locals, failed, announced>>

Versions == 0 .. MaxVersion
\* A row version in the cache or in hand; late: entered after its messages were
\* read (see FlattenAndEnter).
Row(v, late) == [ver |-> v, late |-> late]

ASSUME StatsCacheAssumption ==
    /\ MaxVersion \in Nat
    /\ None \notin Backends
    /\ None \notin Versions
    /\ \A v \in Versions : \A late \in BOOLEAN : None # Row(v, late)

\* wip: the version written last, mine: all of them; visible: to the transaction
\* itself; current, prior: whether CurrentCmdInvalidMsgs and PriorCmdInvalidMsgs
\* hold its message; opened: the planner has locked the table; floor: announced
\* then; cmd: the command that is running.
NoXact == [wip |-> 0, mine |-> {}, visible |-> FALSE, current |-> FALSE, prior |-> FALSE,
           opened |-> FALSE, floor |-> 0, cmd |-> "none"]

Init ==
    /\ sent = 0 /\ seen = [b \in Backends |-> 0] /\ active = Backends
    /\ handed = [b \in Backends |-> <<>>]
    /\ heap = [cur |-> 0, next |-> 1, toasted |-> {}, committed |-> {0}]
    /\ locker = None
    /\ pc = [b \in Backends |-> "idle"]
    /\ xact = [b \in Backends |-> NoXact]
    /\ catSnap = [b \in Backends |-> None]
    /\ entry = [b \in Backends |-> None]
    /\ held = [b \in Backends |-> None]
    /\ failed = {}
    /\ announced = 0

Goto(b, l) == pc' = [pc EXCEPT ![b] = l]

(***************************************************************************)
(* AcceptInvalidationMessages                                              *)
(***************************************************************************)
Behind(b) == seen[b] < sent

\* Read the queue to its end, or take the reset.
Receive(b) ==
    \/ ~Behind(b) /\ UNCHANGED qvars
    \/ Behind(b) /\ (Deliver(b) \/ DeliverReset(b)) /\ seen'[b] = sent

\* LocalExecuteInvalidationMessage and InvalidateSystemCaches: the catalog
\* snapshot goes, and the entry; one that is referenced is only marked dead, so
\* that what a search returned (held) stays good.
Flush(f, b, yes) == IF yes THEN [f EXCEPT ![b] = None] ELSE f

AcceptInvalidationMessages(b) ==
    /\ Receive(b)
    /\ catSnap' = Flush(catSnap, b, Behind(b))
    /\ entry' = Flush(entry, b, Behind(b))

(***************************************************************************)
(* Start of a transaction, and of a command in it                          *)
(***************************************************************************)
StartTransaction(b) ==
    /\ pc[b] = "idle"
    /\ AcceptInvalidationMessages(b)
    /\ Goto(b, "xact")
    /\ UNCHANGED <<heap, locker, xact, held, failed, announced>>

\* Mutant: the planner takes the lock and does not look at the queue.
LockForPlanDeaf(b) ==
    /\ pc[b] = "xact"
    /\ xact' = [xact EXCEPT ![b].cmd = "plan", ![b].opened = TRUE,
                            ![b].floor = IF xact[b].opened THEN @ ELSE announced]
    /\ Goto(b, "search")
    /\ UNCHANGED <<qvars, catSnap, entry, heap, locker, held, failed, announced>>

\* The planner locks the table; it looks at the queue unless it has the lock.
\* floor: a version announced before cannot be missed from here on.
LockForPlan(b) ==
    /\ pc[b] = "xact"
    /\ \/ xact[b].opened /\ UNCHANGED <<qvars, catSnap, entry>>
       \/ ~xact[b].opened /\ AcceptInvalidationMessages(b)
    /\ xact' = [xact EXCEPT ![b].cmd = "plan", ![b].opened = TRUE,
                            ![b].floor = IF xact[b].opened THEN @ ELSE announced]
    /\ Goto(b, "search")
    /\ UNCHANGED <<heap, locker, held, failed, announced>>

\* analyze_rel: ShareUpdateExclusiveLock on the table.
LockForAnalyze(b) ==
    /\ pc[b] = "xact"
    /\ heap.next <= MaxVersion
    /\ \/ locker = None /\ AcceptInvalidationMessages(b)
       \/ locker = b /\ UNCHANGED <<qvars, catSnap, entry>>
    /\ locker' = b
    /\ xact' = [xact EXCEPT ![b].cmd = "analyze"]
    /\ Goto(b, "open")
    /\ UNCHANGED <<heap, held, failed, announced>>

\* update_attstats: table_open(StatisticRelationId, RowExclusiveLock).
OpenStatistic(b) ==
    /\ pc[b] = "open"
    /\ AcceptInvalidationMessages(b)
    /\ Goto(b, "search")
    /\ UNCHANGED <<heap, locker, xact, held, failed, announced>>

\* Any other relation the backend locks while it has a row in hand.
LockAnother(b) ==
    /\ pc[b] = "use"
    /\ Behind(b)
    /\ AcceptInvalidationMessages(b)
    /\ UNCHANGED <<heap, locker, pc, xact, held, failed, announced>>

(***************************************************************************)
(* SearchSysCache3(STATRELATTINH, ...)                                     *)
(***************************************************************************)
\* SearchCatCacheInternal finds an entry that is not dead.
SearchCatCacheHit(b) ==
    /\ pc[b] = "search" /\ entry[b] # None
    /\ held' = [held EXCEPT ![b] = entry[b]]
    /\ Goto(b, "use")
    /\ UNCHANGED <<qvars, heap, locker, xact, catSnap, entry, failed, announced>>

\* SearchCatCacheMiss: table_open(pg_statistic, AccessShareLock).
SearchCatCacheMiss(b) ==
    /\ pc[b] = "search" /\ entry[b] = None
    /\ AcceptInvalidationMessages(b)
    /\ Goto(b, "scan")
    /\ UNCHANGED <<heap, locker, xact, held, failed, announced>>

\* The catalog snapshot is kept from one scan to the next until a message or the
\* end of the transaction drops it.
Snapshot(b) == IF catSnap[b] = None THEN heap.cur ELSE catSnap[b]

\* The row the scan finds: the transaction's own once its command is over.
VisibleRow(b) == IF xact[b].visible THEN xact[b].wip ELSE Snapshot(b)

\* CatalogCacheCreateEntry, positive or negative, for a row without out-of-line
\* fields.
ScanCatalog(b) ==
    /\ pc[b] = "scan"
    /\ catSnap' = [catSnap EXCEPT ![b] = Snapshot(b)]
    /\ held' = [held EXCEPT ![b] = Row(VisibleRow(b), FALSE)]
    /\ IF VisibleRow(b) \in heap.toasted
       THEN Goto(b, "detoast") /\ UNCHANGED entry
       ELSE Goto(b, "use") /\ entry' = [entry EXCEPT ![b] = held'[b]]
    /\ UNCHANGED <<qvars, heap, locker, xact, failed, announced>>

\* toast_flatten_tuple opens the toast table, and so reads the queue, before the
\* entry is linked into the cache: a message about the row finds nothing to
\* remove.  late marks an entry that was entered after such messages.
FlattenAndEnter(b) ==
    /\ pc[b] = "detoast"
    /\ Receive(b)
    /\ catSnap' = Flush(catSnap, b, Behind(b))
    /\ held' = [held EXCEPT ![b].late = Behind(b)]
    /\ entry' = [entry EXCEPT ![b] = held'[b]]
    /\ Goto(b, "use")
    /\ UNCHANGED <<heap, locker, xact, failed, announced>>

(***************************************************************************)
(* What the backend does with the row                                      *)
(***************************************************************************)
\* The selectivity functions are done with the row: ReleaseSysCache.
ReleaseStats(b) ==
    /\ pc[b] = "use" /\ xact[b].cmd = "plan"
    /\ held' = [held EXCEPT ![b] = None]
    /\ Goto(b, "xact")
    /\ UNCHANGED <<qvars, heap, locker, xact, catSnap, entry, failed, announced>>

\* The row an update or an insert must be based on.
Latest(b) == IF xact[b].wip # 0 THEN xact[b].wip ELSE heap.cur

\* CatalogTupleUpdate or CatalogTupleInsert, and CacheInvalidateHeapTuple.
WriteStatistic(b) ==
    /\ pc[b] = "use" /\ xact[b].cmd = "analyze" /\ held[b].ver = Latest(b)
    /\ \E toasted \in BOOLEAN :
          heap' = [heap EXCEPT !.next = @ + 1,
                               !.toasted = IF toasted THEN @ \cup {heap.next} ELSE @]
    /\ xact' = [xact EXCEPT ![b].wip = heap.next, ![b].mine = @ \cup {heap.next},
                            ![b].visible = FALSE, ![b].current = TRUE]
    /\ held' = [held EXCEPT ![b] = None]
    /\ Goto(b, "written")
    /\ UNCHANGED <<qvars, locker, catSnap, entry, failed, announced>>

\* The row is not the latest: "tuple concurrently updated" from the update, or a
\* duplicate key from the insert; the transaction aborts.
WriteFails(b) ==
    /\ pc[b] = "use" /\ xact[b].cmd = "analyze" /\ held[b].ver # Latest(b)
    /\ failed' = failed \cup {held[b]}
    /\ Goto(b, "abort")
    /\ UNCHANGED <<qvars, heap, locker, xact, locals, announced>>

\* Mutant: the messages of the command are only noted, not executed locally.
CommandEndForgetsLocal(b) ==
    /\ pc[b] = "written"
    /\ xact' = [xact EXCEPT ![b].visible = TRUE, ![b].current = FALSE, ![b].prior = TRUE]
    /\ Goto(b, "xact")
    /\ UNCHANGED <<qvars, heap, locker, locals, failed, announced>>

\* CommandCounterIncrement and CommandEndInvalidationMessages.
CommandEnd(b) ==
    /\ pc[b] = "written"
    /\ xact' = [xact EXCEPT ![b].visible = TRUE, ![b].current = FALSE, ![b].prior = TRUE]
    /\ catSnap' = Flush(catSnap, b, TRUE)
    /\ entry' = Flush(entry, b, TRUE)
    /\ Goto(b, "xact")
    /\ UNCHANGED <<qvars, heap, locker, held, failed, announced>>

(***************************************************************************)
(* End of the transaction                                                  *)
(***************************************************************************)
\* Mutant: the table is unlocked with the commit, before the messages are sent.
RecordCommitUnlocks(b) ==
    /\ pc[b] \in {"xact", "written"}
    /\ heap' = [heap EXCEPT !.cur = Latest(b), !.committed = @ \cup xact[b].mine]
    /\ locker' = IF locker = b THEN None ELSE locker
    /\ Goto(b, "committed")
    /\ UNCHANGED <<qvars, xact, locals, failed, announced>>

\* RecordTransactionCommit and ProcArrayEndTransaction.
RecordCommit(b) ==
    /\ pc[b] \in {"xact", "written"}
    /\ heap' = [heap EXCEPT !.cur = Latest(b), !.committed = @ \cup xact[b].mine]
    /\ Goto(b, "committed")
    /\ UNCHANGED <<qvars, locker, xact, locals, failed, announced>>

\* AtEOXact_Inval(true): both lists go to the queue; the backend will read its
\* own messages at its next transaction start.
AtCommitInval(b) ==
    /\ pc[b] = "committed"
    /\ IF xact[b].current \/ xact[b].prior
       THEN Send /\ announced' = Latest(b)
       ELSE UNCHANGED <<qvars, announced>>
    /\ Goto(b, "sent")
    /\ UNCHANGED <<heap, locker, xact, locals, failed>>

\* Locks are released, and the catalog snapshot goes with the transaction.
EndCommit(b) ==
    /\ pc[b] = "sent"
    /\ locker' = IF locker = b THEN None ELSE locker
    /\ xact' = [xact EXCEPT ![b] = NoXact]
    /\ catSnap' = Flush(catSnap, b, TRUE)
    /\ Goto(b, "idle")
    /\ UNCHANGED <<qvars, heap, entry, held, failed, announced>>

\* Mutant: the abort does not execute the messages of finished commands.
AbortFlushesNever(b) == FALSE

\* AtEOXact_Inval(false): only what finished commands may have put in the cache.
AbortFlushes(b) == xact[b].prior

\* AbortTransaction, after an error or on request; nothing it does is visible to
\* others before the lock is released.
AbortTransaction(b) ==
    /\ pc[b] \notin {"idle", "committed", "sent"}
    /\ entry' = Flush(entry, b, AbortFlushes(b))
    /\ catSnap' = Flush(catSnap, b, TRUE)
    /\ held' = [held EXCEPT ![b] = None]
    /\ locker' = IF locker = b THEN None ELSE locker
    /\ xact' = [xact EXCEPT ![b] = NoXact]
    /\ Goto(b, "idle")
    /\ UNCHANGED <<qvars, heap, failed, announced>>

Next == \E b \in Backends :
    \/ StartTransaction(b) \/ LockForPlan(b) \/ LockForAnalyze(b) \/ OpenStatistic(b)
    \/ LockAnother(b) \/ SearchCatCacheHit(b) \/ SearchCatCacheMiss(b) \/ ScanCatalog(b)
    \/ FlattenAndEnter(b) \/ ReleaseStats(b) \/ WriteStatistic(b) \/ WriteFails(b)
    \/ CommandEnd(b) \/ RecordCommit(b) \/ AtCommitInval(b) \/ EndCommit(b)
    \/ AbortTransaction(b)

Spec == Init /\ [][Next]_vars

(***************************************************************************)
(* Properties                                                              *)
(***************************************************************************)
\* Type invariant.
TypeOK ==
    /\ heap \in [cur : Versions, next : 1 .. MaxVersion + 1, toasted : SUBSET Versions,
                committed : SUBSET Versions]
    /\ locker \in Backends \cup {None}
    /\ catSnap \in [Backends -> Versions \cup {None}]
    /\ \A b \in Backends : \A r \in {entry[b], held[b]} \ {None} : r \in [ver : Versions, late : BOOLEAN]

\* An entry that no longer shows the row the backend would find is still to be
\* invalidated: its message is in the queue and unread, or its sender has committed
\* and is about to send it, or it is the backend's own and the command has not
\* ended.  The exception are entries that were linked after the message was read.
ObsoleteEntriesAreDoomed ==
    \A b \in Backends :
        entry[b] # None /\ ~entry[b].late
        /\ entry[b].ver # (IF xact[b].visible THEN xact[b].wip ELSE heap.cur)
        => \/ Behind(b)
           \/ \E w \in Backends : pc[w] = "committed" /\ (xact[w].current \/ xact[w].prior)
           \/ xact[b].current

\* A version written by a transaction that aborted, or has not yet committed, is
\* in nobody's cache and in nobody's hands but its own.
OnlyCommittedRowsSpread ==
    \A b \in Backends : \A r \in {entry[b], held[b]} \ {None} :
        r.ver \in heap.committed \cup xact[b].mine

\* analyze.c: the lock taken in analyze_rel, kept past the sending of the messages,
\* leaves no race between two ANALYZEs of a table: update_attstats always finds
\* the latest row.  The exception is an entry linked after its message was read.
OnlyLateEntriesFail == \A f \in failed : f.late

\* A planner that locks the table after an ANALYZE has announced its row uses that
\* row or a later one.
PlannerSeesAnnounced ==
    \A b \in Backends :
        pc[b] = "use" /\ xact[b].cmd = "plan" /\ ~held[b].late => held[b].ver >= xact[b].floor

=============================================================================
