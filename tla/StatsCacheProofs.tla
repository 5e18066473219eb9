--------------------------- MODULE StatsCacheProofs ---------------------------
(***************************************************************************)
(* The statistics row of a column, its cached copies and the queue, for    *)
(* every number of backends and of row versions.                           *)
(***************************************************************************)
EXTENDS StatsCache, TLAPS

Rows == [ver : Versions, late : BOOLEAN]

PCs == {"idle", "xact", "open", "search", "scan", "detoast", "use", "written",
        "committed", "sent", "abort"}

Xacts == [wip : Versions, mine : SUBSET Versions, visible : BOOLEAN, current : BOOLEAN,
          prior : BOOLEAN, opened : BOOLEAN, floor : Versions, cmd : {"none", "plan", "analyze"}]

Types ==
    /\ sent \in Nat
    /\ seen \in [Backends -> Nat]
    /\ \A b \in Backends : seen[b] <= sent
    /\ active = Backends
    /\ heap \in [cur : Versions, next : 1 .. MaxVersion + 1, toasted : SUBSET Versions,
                 committed : SUBSET Versions]
    /\ locker \in Backends \cup {None}
    /\ pc \in [Backends -> PCs]
    /\ xact \in [Backends -> Xacts]
    /\ catSnap \in [Backends -> Versions \cup {None}]
    /\ entry \in [Backends -> Rows \cup {None}]
    /\ held \in [Backends -> Rows \cup {None}]
    /\ failed \in SUBSET Rows
    /\ announced \in Versions

\* The transaction of w has committed a row whose message it has not sent yet.
Committing(w) == pc[w] = "committed" /\ (xact[w].current = TRUE \/ xact[w].prior = TRUE)

\* Whatever b has cached will go when it next reads the queue.
Doomed(b) == Behind(b) \/ \E w \in Backends : Committing(w)

\* The states of a transaction between its commands or in one.
Inside == {"xact", "open", "search", "scan", "detoast", "use"}

\* The version a transaction writes, the lists its message is in and the lock.
Writing(b) ==
    /\ xact[b].wip # 0 <=> (xact[b].current = TRUE \/ xact[b].prior = TRUE)
    /\ xact[b].visible = TRUE => xact[b].prior = TRUE
    /\ xact[b].wip # 0 /\ xact[b].visible = FALSE => xact[b].current = TRUE
    /\ xact[b].wip # 0 /\ pc[b] \in Inside => xact[b].visible = TRUE /\ xact[b].current = FALSE
    /\ xact[b].wip # 0 =>
         /\ heap.cur <= xact[b].wip
         /\ xact[b].wip < heap.next
         /\ xact[b].wip \in xact[b].mine
         /\ locker = b
    /\ xact[b].prior = FALSE /\ xact[b].current = FALSE => xact[b].mine = {}
    /\ pc[b] \in {"committed", "sent"} =>
         /\ xact[b].mine \subseteq heap.committed
         /\ xact[b].wip # 0 => heap.cur = xact[b].wip
    /\ pc[b] = "written" => xact[b].wip # 0
    /\ pc[b] = "sent" /\ xact[b].wip # 0 => Behind(b)

\* An ANALYZE that has the lock and has not yet written the row.
Analyzing(b) ==
    xact[b].cmd = "analyze" /\ pc[b] \in {"open", "search", "scan", "detoast", "use"}

\* The lock of ANALYZE keeps every other sender out.
Locking(b) ==
    /\ pc[b] = "open" => xact[b].cmd = "analyze"
    /\ Analyzing(b) => locker = b /\ heap.next <= MaxVersion
    /\ pc[b] = "written" => locker = b
    /\ pc[b] = "idle" => locker # b /\ xact[b] = NoXact
    /\ locker = b /\ pc[b] # "sent" => ~Behind(b)

\* A version that is what b would find, or doomed.
Good(b, v) == IF xact[b].prior = TRUE THEN v = xact[b].wip \/ xact[b].current = TRUE
              ELSE v = heap.cur \/ Doomed(b)

\* A version that others may see, or b alone.
Spread(b, v) ==
    v \in heap.committed \/ (xact[b].prior = TRUE /\ v \in xact[b].mine)

\* What b may use of version v: late ones are only known to be committed.
Cached(b, r) ==
    /\ Spread(b, r.ver)
    /\ r.late = FALSE =>
         /\ Good(b, r.ver)
         /\ ~Behind(b) => announced <= r.ver
         /\ xact[b].opened = TRUE => xact[b].floor <= r.ver

\* The same for a catalog snapshot, which sees committed rows only.
Snapped(b, v) ==
    /\ v \in heap.committed
    /\ v = heap.cur \/ Doomed(b)
    /\ ~Behind(b) => announced <= v
    /\ xact[b].opened = TRUE => xact[b].floor <= v

Caches(b) ==
    /\ entry[b] # None => Cached(b, entry[b])
    /\ catSnap[b] # None => Snapped(b, catSnap[b])

\* The row a search has returned.
Holding(b) ==
    /\ held[b] # None <=> pc[b] \in {"detoast", "use", "abort"}
    /\ held[b] # None => Spread(b, held[b].ver)
    /\ pc[b] = "detoast" => Cached(b, held[b]) /\ held[b].late = FALSE
    /\ pc[b] = "use" /\ xact[b].cmd = "analyze" => Cached(b, held[b])
    /\ pc[b] = "use" /\ held[b].late = FALSE /\ xact[b].opened = TRUE =>
         xact[b].floor <= held[b].ver

\* The planner has locked the table before it searches.
Planning(b) ==
    /\ pc[b] \in {"search", "scan", "detoast", "use"} => xact[b].cmd # "none"
    /\ pc[b] \in {"search", "scan", "detoast", "use"} /\ xact[b].cmd = "plan" =>
         xact[b].opened = TRUE
    /\ xact[b].opened = TRUE => xact[b].floor <= announced

BackendInv(b) == Writing(b) /\ Locking(b) /\ Planning(b) /\ Holding(b) /\ Caches(b)

Heap ==
    /\ heap.cur < heap.next
    /\ heap.cur \in heap.committed
    /\ announced <= heap.cur

CInv ==
    /\ Types
    /\ Heap
    /\ \A b \in Backends : BackendInv(b)
    /\ \A f \in failed : f.late = TRUE

-----------------------------------------------------------------------------
\* Backend a is as it was, but for the messages others may have sent.
Same(a) ==
    /\ pc'[a] = pc[a] /\ xact'[a] = xact[a] /\ held'[a] = held[a]
    /\ catSnap'[a] = catSnap[a] /\ entry'[a] = entry[a] /\ seen'[a] = seen[a]

\* What the step of another backend may do to what a relies on: a version is
\* committed and announced only while a is told of it, and while a has the lock
\* nothing is.
Bystander(a) ==
    /\ Same(a)
    /\ sent <= sent'
    /\ Doomed(a) => Doomed(a)'
    /\ heap'.cur = heap.cur \/ Doomed(a)'
    /\ heap.cur <= heap'.cur /\ heap.next <= heap'.next
    /\ xact[a].wip # 0 => heap'.cur = heap.cur
    /\ heap.committed \subseteq heap'.committed
    /\ announced <= announced'
    /\ announced' = announced \/ Behind(a)'
    /\ locker = a <=> locker' = a
    /\ locker = a => sent' = sent /\ heap'.next = heap.next

(* What a step of another backend may do leaves the invariant of a backend *)
(* alone.                                                                  *)
LEMMA BystanderKept ==
    ASSUME Types, Types', NEW a \in Backends, BackendInv(a), Bystander(a)
    PROVE  BackendInv(a)'
<1> USE DEF Bystander, Same
<1>0. /\ sent \in Nat /\ sent' \in Nat /\ seen[a] \in Nat /\ announced \in Nat /\ announced' \in Nat
      /\ heap.cur \in Nat /\ heap'.cur \in Nat /\ heap.next \in Nat /\ heap'.next \in Nat
      /\ xact[a] \in Xacts /\ MaxVersion \in Nat
  BY StatsCacheAssumption DEF Types, Versions
<1>1. Behind(a) => Behind(a)'
  BY <1>0 DEF Behind
<1>2. Writing(a)'
  BY <1>0, <1>1, Zenon DEF BackendInv, Writing, Xacts, Versions
<1>3. Locking(a)'
  BY <1>0, Zenon DEF BackendInv, Locking, Analyzing, Behind
<1>4. Planning(a)'
  BY <1>0 DEF BackendInv, Planning, Xacts, Versions
<1>5. ASSUME NEW v \in Versions  PROVE Spread(a, v) => Spread(a, v)'
  BY Zenon DEF Spread
<1>6. ASSUME NEW v \in Versions  PROVE Good(a, v) => Good(a, v)'
  BY Zenon DEF Good
<1>7. ASSUME NEW r \in Rows, Cached(a, r)  PROVE Cached(a, r)'
  <2>1. r.ver \in Versions
    BY Zenon DEF Rows
  <2>2. Spread(a, r.ver)' /\ (Good(a, r.ver) => Good(a, r.ver)')
    BY <1>5, <1>6, <1>7, <2>1, Zenon DEF Cached
  <2>3. ~Behind(a)' => ~Behind(a) /\ announced' = announced
    BY <1>1, Zenon
  <2> QED  BY <1>7, <2>2, <2>3, Zenon DEF Cached
<1>8. held[a] \in Rows \cup {None} /\ entry[a] \in Rows \cup {None}
      /\ catSnap[a] \in Versions \cup {None}
  BY Zenon DEF Types
<1>9. Holding(a)'
  <2>1. held[a] # None => held[a] \in Rows /\ held[a].ver \in Versions
    BY <1>8, Zenon DEF Rows
  <2>2. held[a] # None => Spread(a, held[a].ver)'
    BY <1>5, <2>1, Zenon DEF BackendInv, Holding
  <2>3. pc[a] \in {"detoast", "use"} => held[a] # None
    BY Zenon DEF BackendInv, Holding
  <2>4. /\ pc[a] = "detoast" => Cached(a, held[a])'
        /\ pc[a] = "use" /\ xact[a].cmd = "analyze" => Cached(a, held[a])'
    <3>1. held[a] # None /\ Cached(a, held[a]) => Cached(a, held[a])'
      BY <1>7, <2>1, Zenon
    <3> QED  BY <2>3, <3>1, Zenon DEF BackendInv, Holding
  <2> QED  BY <2>2, <2>4, Zenon DEF BackendInv, Holding
<1>10. Caches(a)'
  <2>1. entry[a] # None => Cached(a, entry[a])'
    BY <1>7, <1>8, Zenon DEF BackendInv, Caches
  <2>2. catSnap[a] # None => Snapped(a, catSnap[a])'
    <3>1. ~Behind(a)' => ~Behind(a) /\ announced' = announced
      BY <1>1, Zenon
    <3> QED  BY <1>8, <3>1, Zenon DEF BackendInv, Caches, Snapped
  <2> QED  BY <2>1, <2>2, Zenon DEF Caches
<1> QED  BY <1>2, <1>3, <1>4, <1>9, <1>10, Zenon DEF BackendInv

(* Reading the queue: the backend has caught up, and kept its caches only  *)
(* if there was nothing to read.                                           *)
LEMMA ReceiveEffect ==
    ASSUME Types, NEW b \in Backends, Receive(b)
    PROVE  /\ sent' = sent /\ active' = Backends
           /\ seen' \in [Backends -> Nat]
           /\ seen'[b] = sent
           /\ ~Behind(b) => seen' = seen
           /\ \A a \in Backends \ {b} : seen'[a] = seen[a]
<1>1. CASE ~Behind(b) /\ UNCHANGED qvars
  <2>1. seen[b] = sent
    BY <1>1 DEF Types, Behind
  <2> QED  BY <1>1, <2>1, Zenon DEF qvars, Types
<1>2. CASE Behind(b) /\ Deliver(b) /\ seen'[b] = sent
  <2>1. PICK n \in 0 .. (sent - seen[b]) : seen' = [seen EXCEPT ![b] = @ + n]
    BY <1>2, Zenon DEF Deliver
  <2> QED  BY <1>2, <2>1, Zenon DEF Deliver, Types
<1>3. CASE Behind(b) /\ DeliverReset(b) /\ seen'[b] = sent
  <2>1. PICK m \in seen[b] .. sent : seen' = [seen EXCEPT ![b] = m]
    BY <1>3, Zenon DEF DeliverReset
  <2> QED  BY <1>3, <2>1, Zenon DEF DeliverReset, Types
<1> QED  BY <1>1, <1>2, <1>3, Zenon DEF Receive

(* AcceptInvalidationMessages: the same, with the entry and the snapshot.  *)
LEMMA AcceptEffect ==
    ASSUME Types, NEW b \in Backends, AcceptInvalidationMessages(b)
    PROVE  /\ sent' = sent /\ active' = Backends
           /\ seen' \in [Backends -> Nat]
           /\ seen'[b] = sent
           /\ catSnap' \in [Backends -> Versions \cup {None}]
           /\ entry' \in [Backends -> Rows \cup {None}]
           /\ \A a \in Backends \ {b} :
                seen'[a] = seen[a] /\ catSnap'[a] = catSnap[a] /\ entry'[a] = entry[a]
           /\ catSnap'[b] \in {None, catSnap[b]} /\ entry'[b] \in {None, entry[b]}
           /\ seen'[b] = seen[b] \/ (entry'[b] = None /\ catSnap'[b] = None)
<1>1. Receive(b)
  BY Zenon DEF AcceptInvalidationMessages
<1>2. CASE Behind(b)
  <2>1. catSnap' = [catSnap EXCEPT ![b] = None] /\ entry' = [entry EXCEPT ![b] = None]
    BY <1>2, Zenon DEF AcceptInvalidationMessages, Flush
  <2> QED  BY <1>1, <2>1, ReceiveEffect, Zenon DEF Types
<1>3. CASE ~Behind(b)
  <2>1. catSnap' = catSnap /\ entry' = entry
    BY <1>3, Zenon DEF AcceptInvalidationMessages, Flush
  <2> QED  BY <1>1, <1>3, <2>1, ReceiveEffect, Zenon DEF Types
<1> QED  BY <1>2, <1>3, Zenon

-----------------------------------------------------------------------------
(* Steps that touch no row and send nothing: quiet for the other backends. *)
Quiet(b) ==
    /\ heap' = heap /\ announced' = announced /\ sent' = sent
    /\ pc[b] # "committed" /\ pc'[b] # "committed"
    /\ \A a \in Backends \ {b} : Same(a) /\ (locker = a <=> locker' = a)

(* A quiet step commits nothing.                                           *)
LEMMA QuietCommitting ==
    ASSUME NEW b \in Backends, Quiet(b), NEW w \in Backends
    PROVE  Committing(w)' <=> Committing(w)
<1>1. CASE w = b
  BY <1>1, Zenon DEF Quiet, Committing
<1>2. CASE w # b
  BY <1>2, Zenon DEF Quiet, Committing, Same
<1> QED  BY <1>1, <1>2, Zenon

(* A quiet step of one backend preserves the invariant of all others.      *)
LEMMA QuietOthers ==
    ASSUME CInv, Types', NEW b \in Backends, Quiet(b), NEW a \in Backends \ {b}
    PROVE  BackendInv(a)'
<1>1. (\E w \in Backends : Committing(w)) => (\E w \in Backends : Committing(w)')
  BY QuietCommitting, Zenon
<1>2. Same(a) /\ (locker = a <=> locker' = a)
  BY Zenon DEF Quiet
<1>3. Doomed(a) => Doomed(a)'
  BY <1>1, <1>2, Zenon DEF Doomed, Behind, Same, Quiet
<1>4. /\ sent <= sent' /\ heap.cur <= heap'.cur /\ heap.next <= heap'.next
      /\ announced <= announced'
  BY DEF Quiet, CInv, Types, Versions
<1>5. Bystander(a)
  BY <1>2, <1>3, <1>4, Zenon DEF Bystander, Quiet
<1> QED  BY <1>5, BystanderKept, Zenon DEF CInv

\* The caches lose what the queue had messages for, and gain nothing.
Settled(b) ==
    /\ entry'[b] \in {None, entry[b]} /\ catSnap'[b] \in {None, catSnap[b]}
    /\ seen'[b] = seen[b] \/ (entry'[b] = None /\ catSnap'[b] = None)

\* The transaction writes nothing; the planner may lock the table.
ReadOnly(b) ==
    /\ xact'[b].wip = xact[b].wip /\ xact'[b].mine = xact[b].mine
    /\ xact'[b].visible = xact[b].visible
    /\ xact'[b].current = xact[b].current /\ xact'[b].prior = xact[b].prior
    /\ xact'[b].opened = TRUE =>
         \/ xact[b].opened = TRUE /\ xact'[b].floor = xact[b].floor
         \/ ~Behind(b)' /\ xact'[b].floor = announced

(* Without a look at the queue, a good version stays good.                 *)
LEMMA VersionKept ==
    ASSUME NEW b \in Backends, Quiet(b), ReadOnly(b), seen'[b] = seen[b]
    PROVE  /\ \A r : Cached(b, r) => Cached(b, r)'
           /\ \A v : Snapped(b, v) => Snapped(b, v)'
<1> USE DEF ReadOnly
<1>1. Behind(b)' <=> Behind(b)
  BY Zenon DEF Quiet, Behind
<1>2. (\E w \in Backends : Committing(w)) => (\E w \in Backends : Committing(w)')
  BY QuietCommitting, Zenon
<1>3. Doomed(b) => Doomed(b)'
  BY <1>1, <1>2, Zenon DEF Doomed
<1>4. heap' = heap /\ announced' = announced
  BY Zenon DEF Quiet
<1>5. ASSUME NEW v, Good(b, v)  PROVE Good(b, v)'
  BY <1>3, <1>4, <1>5, Zenon DEF Good
<1>6. ASSUME NEW v, Spread(b, v)  PROVE Spread(b, v)'
  BY <1>4, <1>6, Zenon DEF Spread
<1>7. ASSUME NEW r, Cached(b, r)  PROVE Cached(b, r)'
  <2>1. Spread(b, r.ver)' /\ (r.late = FALSE => Good(b, r.ver)')
    BY <1>5, <1>6, <1>7, Zenon DEF Cached
  <2> QED  BY <1>1, <1>4, <1>7, <2>1, Zenon DEF Cached
<1>8. ASSUME NEW v, Snapped(b, v)  PROVE Snapped(b, v)'
  BY <1>1, <1>3, <1>4, <1>8, Zenon DEF Snapped
<1> QED  BY <1>7, <1>8, Zenon

(* The caches of a backend that reads the queue, or does not look at it.   *)
LEMMA CachesKept ==
    ASSUME NEW b \in Backends, Caches(b), Quiet(b), Settled(b), ReadOnly(b)
    PROVE  Caches(b)'
<1> USE DEF Settled
<1>1. CASE entry'[b] = None /\ catSnap'[b] = None
  BY <1>1, Zenon DEF Caches
<1>2. CASE seen'[b] = seen[b]
  <2>1. PICK r, v : r = entry[b] /\ v = catSnap[b]
    BY Zenon
  <2>2. (Cached(b, r) => Cached(b, r)') /\ (Snapped(b, v) => Snapped(b, v)')
    BY <1>2, VersionKept, Zenon
  <2>3. entry'[b] # None => r = entry'[b] /\ Cached(b, r)'
    BY <2>1, <2>2, Zenon DEF Caches
  <2>4. catSnap'[b] # None => v = catSnap'[b] /\ Snapped(b, v)'
    BY <2>1, <2>2, Zenon DEF Caches
  <2> QED  BY <2>3, <2>4, Zenon DEF Caches
<1> QED  BY <1>1, <1>2, Zenon

(* A step that writes nothing keeps what is known of the transaction.      *)
LEMMA WritingKept ==
    ASSUME Types, Types', NEW b \in Backends, Writing(b), ReadOnly(b), heap' = heap,
           pc[b] \in Inside \/ xact[b].wip = 0, pc'[b] \in Inside,
           locker = b => locker' = b
    PROVE  Writing(b)'
BY Zenon DEF Writing, ReadOnly, Inside

(* A quiet step is over with its own backend.                              *)
LEMMA QuietStep ==
    ASSUME CInv, Types', NEW b \in Backends, Quiet(b), failed' = failed, BackendInv(b)'
    PROVE  CInv'
<1>1. \A a \in Backends : BackendInv(a)'
  BY QuietOthers, Zenon
<1>2. Heap'
  BY Zenon DEF CInv, Heap, Quiet
<1> QED  BY <1>1, <1>2, Zenon DEF CInv

(* The steps up to the scan, at all of which the backend may read the      *)
(* queue.                                                                  *)
LEMMA BeforeScan ==
    ASSUME CInv, Types', NEW b \in Backends, Quiet(b), failed' = failed, held' = held,
           Settled(b), ReadOnly(b), locker = b => locker' = b,
           pc[b] \in {"idle", "xact", "open", "search"},
           pc'[b] \in {"xact", "open", "search", "scan"},
           Locking(b)', Planning(b)'
    PROVE  CInv'
<1>1. BackendInv(b) /\ Types
  BY Zenon DEF CInv
<1>2. pc[b] \in Inside \/ xact[b].wip = 0
  BY <1>1 DEF BackendInv, Locking, NoXact, Inside
<1>3. Writing(b)'
  BY <1>1, <1>2, WritingKept, Zenon DEF BackendInv, Quiet, Inside
<1>4. Caches(b)'
  BY <1>1, CachesKept, Zenon DEF BackendInv
<1>5. Holding(b)'
  BY <1>1, Zenon DEF BackendInv, Holding
<1> QED  BY <1>3, <1>4, <1>5, QuietStep, Zenon DEF BackendInv

(* The start of a transaction reads the queue.                             *)
LEMMA StartTransactionStep ==
    ASSUME CInv, NEW b \in Backends, StartTransaction(b)  PROVE CInv'
<1> USE DEF StartTransaction, Goto
<1>1. Types /\ BackendInv(b)
  BY Zenon DEF CInv
<1>2. Types'
  BY <1>1, AcceptEffect DEF Types, PCs
<1>3. Quiet(b) /\ pc'[b] = "xact"
  BY <1>1, AcceptEffect, Zenon DEF Types, Quiet, Same
<1>4. Settled(b)
  BY <1>1, AcceptEffect, Zenon DEF Settled
<1>5. ReadOnly(b)
  BY Zenon DEF ReadOnly
<1>6. Locking(b)'
  BY <1>1, <1>3, AcceptEffect DEF Locking, Analyzing, Behind, Types
<1>7. Planning(b)'
  BY <1>1, <1>3, Zenon DEF BackendInv, Planning
<1> QED  BY <1>2, <1>3, <1>4, <1>5, <1>6, <1>7, BeforeScan, Zenon

(* The planner's lock: from here on a version announced before is not      *)
(* missed.                                                                 *)
LEMMA LockForPlanStep ==
    ASSUME CInv, NEW b \in Backends, LockForPlan(b)  PROVE CInv'
<1>0. /\ pc[b] = "xact" /\ pc' = [pc EXCEPT ![b] = "search"]
      /\ UNCHANGED <<heap, locker, held, failed, announced>>
  BY Zenon DEF LockForPlan, Goto
<1>1. Types /\ BackendInv(b)
  BY Zenon DEF CInv
<1>2. /\ seen' \in [Backends -> Nat] /\ sent' = sent /\ active' = Backends
      /\ \A a \in Backends : seen'[a] <= sent
      /\ catSnap' \in [Backends -> Versions \cup {None}]
      /\ entry' \in [Backends -> Rows \cup {None}]
      /\ \A a \in Backends \ {b} :
           seen'[a] = seen[a] /\ catSnap'[a] = catSnap[a] /\ entry'[a] = entry[a]
      /\ Settled(b)
      /\ xact[b].opened = TRUE \/ ~Behind(b)'
      /\ ~Behind(b) => ~Behind(b)'
  <2>1. CASE xact[b].opened /\ UNCHANGED <<qvars, catSnap, entry>>
    BY <1>1, <2>1, Zenon DEF Types, Xacts, qvars, Settled, Behind
  <2>2. CASE AcceptInvalidationMessages(b)
    <3>1. ~Behind(b)'
      BY <1>1, <2>2, AcceptEffect DEF Behind, Types
    <3>2. Settled(b)
      BY <1>1, <2>2, AcceptEffect, Zenon DEF Settled
    <3> QED  BY <1>1, <2>2, <3>1, <3>2, AcceptEffect DEF Types
  <2> QED  BY <2>1, <2>2, Zenon DEF LockForPlan
<1>3. PICK x \in Xacts : x = xact[b]
  BY <1>1, Zenon DEF Types
<1>4. PICK y : y = [x EXCEPT !.cmd = "plan", !.opened = TRUE,
                             !.floor = IF x.opened THEN @ ELSE announced]
  BY Zenon
<1>5. /\ y \in Xacts /\ y.cmd = "plan" /\ y.opened = TRUE
      /\ y.wip = x.wip /\ y.mine = x.mine /\ y.visible = x.visible /\ y.current = x.current
      /\ y.prior = x.prior /\ y.floor = IF x.opened = TRUE THEN x.floor ELSE announced
  BY <1>1, <1>3, <1>4, Zenon DEF Xacts, Types
<1>6. xact' = [xact EXCEPT ![b] = y]
  BY <1>3, <1>4, Zenon DEF LockForPlan
<1>7. Types'
  BY <1>0, <1>1, <1>2, <1>5, <1>6, Zenon DEF Types, PCs
<1>8. Quiet(b) /\ pc'[b] = "search" /\ xact'[b] = y
  BY <1>0, <1>1, <1>2, <1>6, Zenon DEF Types, Quiet, Same
<1>9. ReadOnly(b)
  BY <1>2, <1>3, <1>5, <1>8, Zenon DEF ReadOnly
<1>10. Locking(b)'
  BY <1>0, <1>1, <1>2, <1>3, <1>5, <1>8, Zenon DEF BackendInv, Locking, Analyzing
<1>11. Planning(b)'
  BY <1>0, <1>1, <1>3, <1>5, <1>8 DEF BackendInv, Planning, Types, Versions
<1> QED  BY <1>0, <1>2, <1>7, <1>8, <1>9, <1>10, <1>11, BeforeScan, Zenon

(* The lock of ANALYZE: its holder has read all messages, and nobody can   *)
(* send more.                                                              *)
LEMMA LockForAnalyzeStep ==
    ASSUME CInv, NEW b \in Backends, LockForAnalyze(b)  PROVE CInv'
<1> USE DEF LockForAnalyze, Goto
<1>1. Types /\ BackendInv(b)
  BY Zenon DEF CInv
<1>2. /\ seen' \in [Backends -> Nat] /\ sent' = sent /\ active' = Backends
      /\ \A a \in Backends : seen'[a] <= sent
      /\ catSnap' \in [Backends -> Versions \cup {None}]
      /\ entry' \in [Backends -> Rows \cup {None}]
      /\ \A a \in Backends \ {b} :
           seen'[a] = seen[a] /\ catSnap'[a] = catSnap[a] /\ entry'[a] = entry[a]
      /\ Settled(b)
      /\ ~Behind(b)'
      /\ locker = None \/ locker = b
  <2>1. CASE locker = b /\ UNCHANGED <<qvars, catSnap, entry>>
    BY <1>1, <2>1, Zenon DEF Types, Xacts, qvars, Settled, Behind, BackendInv, Locking
  <2>2. CASE locker = None /\ AcceptInvalidationMessages(b)
    <3>1. ~Behind(b)'
      BY <1>1, <2>2, AcceptEffect DEF Behind, Types
    <3>2. Settled(b)
      BY <1>1, <2>2, AcceptEffect, Zenon DEF Settled
    <3> QED  BY <1>1, <2>2, <3>1, <3>2, AcceptEffect DEF Types
  <2> QED  BY <2>1, <2>2, Zenon
<1>3. PICK x \in Xacts : x = xact[b]
  BY <1>1, Zenon DEF Types
<1>4. PICK y : y = [x EXCEPT !.cmd = "analyze"]
  BY Zenon
<1>5. /\ y \in Xacts /\ y.cmd = "analyze" /\ y.opened = x.opened /\ y.floor = x.floor
      /\ y.wip = x.wip /\ y.mine = x.mine /\ y.visible = x.visible /\ y.current = x.current
      /\ y.prior = x.prior
  BY <1>1, <1>3, <1>4, Zenon DEF Xacts
<1>6. xact' = [xact EXCEPT ![b] = y]
  BY <1>3, <1>4, Zenon
<1>7. Types'
  BY <1>1, <1>2, <1>5, <1>6 DEF Types, PCs
<1>8. Quiet(b) /\ pc'[b] = "open" /\ xact'[b] = y
  BY <1>1, <1>2, <1>6, StatsCacheAssumption DEF Types, Quiet, Same
<1>9. ReadOnly(b)
  BY <1>3, <1>5, <1>8, Zenon DEF ReadOnly
<1>10. Locking(b)'
  BY <1>1, <1>2, <1>5, <1>8, Zenon DEF Locking, Analyzing
<1>11. Planning(b)'
  BY <1>1, <1>3, <1>5, <1>8, Zenon DEF BackendInv, Planning
<1> QED  BY <1>2, <1>7, <1>8, <1>9, <1>10, <1>11, BeforeScan, Zenon

(* pg_statistic is opened.                                                 *)
LEMMA OpenStatisticStep ==
    ASSUME CInv, NEW b \in Backends, OpenStatistic(b)  PROVE CInv'
<1> USE DEF OpenStatistic, Goto
<1>1. Types /\ BackendInv(b)
  BY Zenon DEF CInv
<1>2. Types'
  BY <1>1, AcceptEffect DEF Types, PCs
<1>3. Quiet(b) /\ pc'[b] = "search"
  BY <1>1, AcceptEffect, Zenon DEF Types, Quiet, Same
<1>4. Settled(b)
  BY <1>1, AcceptEffect, Zenon DEF Settled
<1>5. ReadOnly(b)
  BY Zenon DEF ReadOnly
<1>6. Locking(b)'
  BY <1>1, <1>3, AcceptEffect DEF BackendInv, Locking, Analyzing, Behind, Types
<1>7. Planning(b)'
  BY <1>1, <1>3, Zenon DEF BackendInv, Planning, Locking
<1> QED  BY <1>2, <1>3, <1>4, <1>5, <1>6, <1>7, BeforeScan, Zenon

(* A search without an entry reads the queue before it scans.              *)
LEMMA SearchCatCacheMissStep ==
    ASSUME CInv, NEW b \in Backends, SearchCatCacheMiss(b)  PROVE CInv'
<1> USE DEF SearchCatCacheMiss, Goto
<1>1. Types /\ BackendInv(b)
  BY Zenon DEF CInv
<1>2. Types'
  BY <1>1, AcceptEffect DEF Types, PCs
<1>3. Quiet(b) /\ pc'[b] = "scan"
  BY <1>1, AcceptEffect, Zenon DEF Types, Quiet, Same
<1>4. Settled(b)
  BY <1>1, AcceptEffect, Zenon DEF Settled
<1>5. ReadOnly(b)
  BY Zenon DEF ReadOnly
<1>6. Locking(b)'
  BY <1>1, <1>3, AcceptEffect DEF BackendInv, Locking, Analyzing, Behind, Types
<1>7. Planning(b)'
  BY <1>1, <1>3, Zenon DEF BackendInv, Planning
<1> QED  BY <1>2, <1>3, <1>4, <1>5, <1>6, <1>7, BeforeScan, Zenon

(* A lock on another table is no step of an ANALYZE that has messages to   *)
(* read: it holds the table's lock, so there are none.                     *)
LEMMA LockAnotherStep ==
    ASSUME CInv, NEW b \in Backends, LockAnother(b)  PROVE CInv'
<1> USE DEF LockAnother
<1>1. Types /\ BackendInv(b)
  BY Zenon DEF CInv
<1>2. Types'
  BY <1>1, AcceptEffect DEF Types
<1>3. Quiet(b) /\ pc'[b] = "use" /\ xact'[b] = xact[b] /\ held'[b] = held[b]
  BY <1>1, AcceptEffect, Zenon DEF Types, Quiet, Same
<1>4. Settled(b)
  BY <1>1, AcceptEffect, Zenon DEF Settled
<1>5. ReadOnly(b)
  BY Zenon DEF ReadOnly
<1>6. ~Behind(b)' /\ xact[b].cmd # "analyze"
  BY <1>1, AcceptEffect DEF BackendInv, Locking, Analyzing, Behind, Types
<1>7. Locking(b)' /\ Planning(b)'
  BY <1>1, <1>3, <1>6, Zenon DEF BackendInv, Locking, Analyzing, Planning
<1>8. Writing(b)'
  BY <1>1, <1>2, <1>3, <1>5, WritingKept, Zenon DEF BackendInv, Inside
<1>9. Caches(b)'
  BY <1>1, <1>3, <1>4, <1>5, CachesKept, Zenon DEF BackendInv
<1>10. Holding(b)'
  BY <1>1, <1>3, <1>6, Zenon DEF BackendInv, Holding, Spread
<1> QED  BY <1>2, <1>3, <1>7, <1>8, <1>9, <1>10, QuietStep, Zenon DEF BackendInv

(* A search that finds an entry returns a row as good as the entry.        *)
LEMMA SearchCatCacheHitStep ==
    ASSUME CInv, NEW b \in Backends, SearchCatCacheHit(b)  PROVE CInv'
<1> USE DEF SearchCatCacheHit, Goto
<1>1. Types /\ BackendInv(b)
  BY Zenon DEF CInv
<1>2. Types'
  BY <1>1, Zenon DEF Types, PCs, qvars
<1>3. /\ Quiet(b) /\ pc'[b] = "use" /\ xact'[b] = xact[b] /\ held'[b] = entry[b]
      /\ entry'[b] = entry[b] /\ seen'[b] = seen[b] /\ locker' = locker /\ heap' = heap
  BY <1>1, Zenon DEF Types, Quiet, Same, qvars
<1>4. Settled(b) /\ ReadOnly(b)
  BY Zenon DEF Settled, ReadOnly, qvars
<1>5. Behind(b)' <=> Behind(b)
  BY Zenon DEF qvars, Behind
<1>6. Locking(b)' /\ Planning(b)'
  BY <1>1, <1>3, <1>5, Zenon DEF BackendInv, Locking, Analyzing, Planning
<1>7. Writing(b)'
  BY <1>1, <1>2, <1>3, <1>4, WritingKept, Zenon DEF BackendInv, Inside
<1>8. Caches(b)'
  BY <1>1, <1>3, <1>4, CachesKept, Zenon DEF BackendInv
<1>9. Holding(b)'
  <2>1. Cached(b, held[b])'
    BY <1>3, <1>8, Zenon DEF Caches
  <2> QED  BY <1>3, <2>1, Zenon DEF Holding, Cached
<1> QED  BY <1>2, <1>3, <1>6, <1>7, <1>8, <1>9, QuietStep, Zenon DEF BackendInv

(* The planner is done with the row.                                       *)
LEMMA ReleaseStatsStep ==
    ASSUME CInv, NEW b \in Backends, ReleaseStats(b)  PROVE CInv'
<1> USE DEF ReleaseStats, Goto
<1>1. Types /\ BackendInv(b)
  BY Zenon DEF CInv
<1>2. Types'
  BY <1>1, Zenon DEF Types, PCs, qvars
<1>3. /\ Quiet(b) /\ pc'[b] = "xact" /\ xact'[b] = xact[b] /\ held'[b] = None
      /\ seen'[b] = seen[b] /\ locker' = locker /\ heap' = heap
  BY <1>1, Zenon DEF Types, Quiet, Same, qvars
<1>4. Settled(b) /\ ReadOnly(b)
  BY Zenon DEF Settled, ReadOnly, qvars
<1>5. Behind(b)' <=> Behind(b)
  BY Zenon DEF qvars, Behind
<1>6. Locking(b)' /\ Planning(b)' /\ Holding(b)'
  BY <1>1, <1>3, <1>5, Zenon DEF BackendInv, Locking, Analyzing, Planning, Holding
<1>7. Writing(b)'
  BY <1>1, <1>2, <1>3, <1>4, WritingKept, Zenon DEF BackendInv, Inside
<1>8. Caches(b)'
  BY <1>1, <1>3, <1>4, CachesKept, Zenon DEF BackendInv
<1> QED  BY <1>2, <1>3, <1>6, <1>7, <1>8, QuietStep, Zenon DEF BackendInv

(* The scan finds the backend's own row, or what its snapshot sees.        *)
LEMMA FoundRow ==
    ASSUME CInv, NEW b \in Backends, pc[b] = "scan"
    PROVE  /\ Snapped(b, Snapshot(b))
           /\ Cached(b, Row(VisibleRow(b), FALSE))
           /\ Snapshot(b) \in Versions
           /\ Row(VisibleRow(b), FALSE) \in Rows
<1>1. Types /\ BackendInv(b) /\ Heap
  BY Zenon DEF CInv
<1>2. /\ xact[b] \in Xacts /\ announced \in Nat /\ heap.cur \in Nat /\ heap.cur \in Versions
      /\ xact[b].wip \in Versions /\ xact[b].wip \in Nat /\ xact[b].floor \in Nat
  BY <1>1 DEF Types, Xacts, Versions
<1>3. Snapped(b, Snapshot(b)) /\ Snapshot(b) \in Versions
  <2>1. CASE catSnap[b] = None
    BY <1>1, <1>2, <2>1 DEF Snapshot, Snapped, Heap, BackendInv, Planning
  <2>2. CASE catSnap[b] # None
    BY <1>1, <2>2, Zenon DEF Snapshot, BackendInv, Caches, Types
  <2> QED  BY <2>1, <2>2, Zenon
<1>4. PICK v : v = VisibleRow(b)
  BY Zenon
<1>5. /\ v \in Versions /\ Spread(b, v) /\ Good(b, v)
      /\ ~Behind(b) => announced <= v
      /\ xact[b].opened = TRUE => xact[b].floor <= v
  <2>1. CASE xact[b].visible = TRUE
    <3>1. v = xact[b].wip
      BY <1>4, <2>1, Zenon DEF VisibleRow
    <3>2. xact[b].prior = TRUE /\ xact[b].wip # 0 /\ heap.cur <= xact[b].wip /\ xact[b].wip \in xact[b].mine
      BY <1>1, <2>1, Zenon DEF BackendInv, Writing
    <3> QED  BY <1>1, <1>2, <3>1, <3>2 DEF Spread, Good, Heap, BackendInv, Planning
  <2>2. CASE xact[b].visible = FALSE
    <3>1. v = Snapshot(b)
      BY <1>4, <2>2, Zenon DEF VisibleRow
    <3>2. xact[b].prior = FALSE
      BY <1>1, <1>2, <2>2, Zenon DEF BackendInv, Writing, Inside, Xacts
    <3> QED  BY <1>3, <3>1, <3>2, Zenon DEF Spread, Good, Snapped
  <2> QED  BY <1>2, <2>1, <2>2, Zenon DEF Xacts
<1>6. Row(v, FALSE).ver = v /\ Row(v, FALSE).late = FALSE /\ Row(v, FALSE) \in Rows
  BY <1>5, Zenon DEF Row, Rows
<1>7. Cached(b, Row(v, FALSE))
  BY <1>5, <1>6, Zenon DEF Cached
<1> QED  BY <1>3, <1>4, <1>6, <1>7, Zenon

(* The row found is entered at once, or flattened first.                   *)
LEMMA ScanCatalogStep ==
    ASSUME CInv, NEW b \in Backends, ScanCatalog(b)  PROVE CInv'
<1>1. Types /\ BackendInv(b)
  BY Zenon DEF CInv
<1>2. PICK r, v : r = Row(VisibleRow(b), FALSE) /\ v = Snapshot(b)
  BY Zenon
<1>3. pc[b] = "scan"
  BY Zenon DEF ScanCatalog
<1>4. r \in Rows /\ v \in Versions /\ Cached(b, r) /\ Snapped(b, v) /\ r.late = FALSE /\ r # None
  <2>1. r.late = FALSE
    BY <1>2, Zenon DEF Row
  <2>2. r # None
    BY <1>2, <1>3, FoundRow, StatsCacheAssumption, Zenon DEF Row, Rows
  <2> QED  BY <1>2, <1>3, <2>1, <2>2, FoundRow, Zenon
<1>5. /\ catSnap' = [catSnap EXCEPT ![b] = v] /\ held' = [held EXCEPT ![b] = r]
      /\ UNCHANGED <<qvars, heap, locker, xact, failed, announced>>
  BY <1>2, Zenon DEF ScanCatalog
<1>6. held'[b] = r
  BY <1>1, <1>5, Zenon DEF Types
<1>7. \/ pc' = [pc EXCEPT ![b] = "detoast"] /\ entry' = entry
      \/ pc' = [pc EXCEPT ![b] = "use"] /\ entry' = [entry EXCEPT ![b] = r]
  BY <1>6, Zenon DEF ScanCatalog, Goto
<1> HIDE DEF ScanCatalog
<1>8. Types'
  <2>1. /\ pc' \in [Backends -> PCs] /\ entry' \in [Backends -> Rows \cup {None}]
        /\ held' \in [Backends -> Rows \cup {None}]
        /\ catSnap' \in [Backends -> Versions \cup {None}]
    BY <1>1, <1>4, <1>5, <1>7 DEF Types, PCs
  <2> QED  BY <1>1, <1>5, <2>1, Zenon DEF Types, qvars
<1>9. /\ Quiet(b) /\ pc'[b] \in {"detoast", "use"} /\ xact'[b] = xact[b] /\ catSnap'[b] = v
      /\ entry'[b] \in {entry[b], r} /\ seen'[b] = seen[b] /\ locker' = locker /\ heap' = heap
  BY <1>1, <1>3, <1>5, <1>7, Zenon DEF Types, Quiet, Same, qvars
<1>10. ReadOnly(b)
  BY <1>9, Zenon DEF ReadOnly
<1>11. Cached(b, r)' /\ Snapped(b, v)'
  BY <1>4, <1>9, <1>10, VersionKept, Zenon
<1>12. Caches(b)'
  <2>1. PICK e : e = entry[b]
    BY Zenon
  <2>2. Cached(b, e) => Cached(b, e)'
    BY <1>9, <1>10, VersionKept, Zenon
  <2>3. entry'[b] # None => Cached(b, entry[b])'
    BY <1>1, <1>9, <1>11, <2>1, <2>2, Zenon DEF BackendInv, Caches
  <2> QED  BY <1>9, <1>11, <2>3, Zenon DEF Caches
<1>13. Behind(b)' <=> Behind(b)
  BY <1>5, Zenon DEF qvars, Behind
<1>14. Locking(b)' /\ Planning(b)'
  BY <1>1, <1>3, <1>5, <1>9, <1>13, Zenon DEF BackendInv, Locking, Analyzing, Planning
<1>15. Writing(b)'
  BY <1>1, <1>3, <1>8, <1>9, <1>10, WritingKept, Zenon DEF BackendInv, Inside
<1>16. Holding(b)'
  BY <1>4, <1>6, <1>9, <1>11, Zenon DEF Holding, Cached
<1> QED  BY <1>5, <1>8, <1>9, <1>12, <1>14, <1>15, <1>16, QuietStep, Zenon DEF BackendInv

(* The entry that is linked after the queue was read is late if there was  *)
(* something to read, and as good as the scan found it otherwise.          *)
LEMMA FlattenAndEnterStep ==
    ASSUME CInv, NEW b \in Backends, FlattenAndEnter(b)  PROVE CInv'
<1>1. Types /\ BackendInv(b)
  BY Zenon DEF CInv
<1>2. pc[b] = "detoast" /\ Receive(b) /\ UNCHANGED <<heap, locker, xact, failed, announced>>
      /\ pc' = [pc EXCEPT ![b] = "use"]
  BY Zenon DEF FlattenAndEnter, Goto
<1>3. PICK r : r = held[b]
  BY Zenon
<1>4. r \in Rows /\ r # None /\ Cached(b, r) /\ r.late = FALSE
  BY <1>1, <1>2, <1>3, Zenon DEF BackendInv, Holding, Types
<1>5. PICK q : q = [r EXCEPT !.late = Behind(b)]
  BY Zenon
<1>6. q \in Rows /\ q.ver = r.ver /\ (q.late = FALSE <=> ~Behind(b)) /\ q # None
  <2>1. Behind(b) \in BOOLEAN
    BY DEF Behind
  <2>2. r = [ver |-> r.ver, late |-> FALSE] /\ r.ver \in Versions
    BY <1>4, Zenon DEF Rows
  <2>3. q = [ver |-> r.ver, late |-> Behind(b)]
    BY <1>5, <2>2, Zenon
  <2>4. q \in Rows /\ q = Row(r.ver, Behind(b))
    BY <2>1, <2>2, <2>3, Zenon DEF Rows, Row
  <2>5. q # None
    BY <2>1, <2>2, <2>4, StatsCacheAssumption, Zenon
  <2>6. q.ver = r.ver /\ q.late = Behind(b)
    BY <2>3, Zenon
  <2> QED  BY <2>1, <2>4, <2>5, <2>6, Zenon
<1>7. held' = [held EXCEPT ![b] = q]
  BY <1>3, <1>5, Zenon DEF FlattenAndEnter
<1>8. held'[b] = q
  BY <1>1, <1>7, Zenon DEF Types
<1>9. entry' = [entry EXCEPT ![b] = q]
  BY <1>8, Zenon DEF FlattenAndEnter
<1>10. catSnap' = [catSnap EXCEPT ![b] = None] \/ (~Behind(b) /\ catSnap' = catSnap)
  BY Zenon DEF FlattenAndEnter, Flush
<1>11. /\ sent' = sent /\ active' = Backends /\ seen' \in [Backends -> Nat] /\ seen'[b] = sent
       /\ ~Behind(b) => seen' = seen
       /\ \A a \in Backends \ {b} : seen'[a] = seen[a]
  BY <1>1, <1>2, ReceiveEffect, Zenon
<1>12. Types'
  <2>1. pc' \in [Backends -> PCs] /\ catSnap' \in [Backends -> Versions \cup {None}]
    BY <1>1, <1>2, <1>10, Zenon DEF Types, PCs
  <2>2. /\ entry' \in [Backends -> Rows \cup {None}]
        /\ held' \in [Backends -> Rows \cup {None}]
    BY <1>1, <1>6, <1>7, <1>9, Zenon DEF Types
  <2>3. \A a \in Backends : seen'[a] <= sent'
    BY <1>1, <1>11 DEF Types
  <2> QED  BY <1>1, <1>2, <1>11, <2>1, <2>2, <2>3, Zenon DEF Types
<1>13. /\ Quiet(b) /\ pc'[b] = "use" /\ xact'[b] = xact[b] /\ entry'[b] = q
       /\ locker' = locker /\ heap' = heap /\ catSnap'[b] \in {None, catSnap[b]}
  BY <1>1, <1>2, <1>7, <1>9, <1>10, <1>11, Zenon DEF Types, Quiet, Same
<1>14. ReadOnly(b) /\ ~Behind(b)'
  BY <1>1, <1>11, <1>13 DEF ReadOnly, Behind, Types
<1>15. Cached(b, q)'
  <2>1. CASE Behind(b)
    BY <1>4, <1>6, <1>13, <2>1, Zenon DEF Cached, Spread
  <2>2. CASE ~Behind(b)
    <3>1. Cached(b, r)'
      BY <1>4, <1>11, <1>13, <1>14, <2>2, VersionKept, Zenon
    <3> QED  BY <1>4, <1>6, <3>1, Zenon DEF Cached
  <2> QED  BY <2>1, <2>2, Zenon
<1>16. Caches(b)'
  <2>1. catSnap'[b] # None => Snapped(b, catSnap[b])'
    <3>1. PICK v : v = catSnap[b]
      BY Zenon
    <3>2. CASE catSnap'[b] # None
      <4>1. ~Behind(b) /\ catSnap'[b] = v
        BY <1>1, <1>10, <1>13, <3>1, <3>2, Zenon DEF Types
      <4>2. Snapped(b, v)
        BY <1>1, <1>13, <3>1, <3>2, Zenon DEF BackendInv, Caches
      <4>3. Snapped(b, v)'
        BY <1>11, <1>13, <1>14, <4>1, <4>2, VersionKept, Zenon
      <4> QED  BY <4>1, <4>3, Zenon
    <3> QED  BY <3>2, Zenon
  <2> QED  BY <1>13, <1>15, <2>1, Zenon DEF Caches
<1>17. Locking(b)' /\ Planning(b)'
  BY <1>1, <1>2, <1>13, <1>14, Zenon DEF BackendInv, Locking, Analyzing, Planning
<1>18. Writing(b)'
  BY <1>1, <1>2, <1>12, <1>13, <1>14, WritingKept, Zenon DEF BackendInv, Inside
<1>19. Holding(b)'
  BY <1>6, <1>8, <1>13, <1>15, Zenon DEF Holding, Cached
<1> QED  BY <1>2, <1>12, <1>13, <1>16, <1>17, <1>18, <1>19, QuietStep, Zenon DEF BackendInv

-----------------------------------------------------------------------------
(* The steps that write, commit and announce a row.                        *)

\* Every backend but b is a bystander.
Alone(b) == \A a \in Backends \ {b} : Bystander(a)

(* A step whose own backend keeps the invariant, and to which the others   *)
(* are bystanders, preserves it.                                           *)
LEMMA Others ==
    ASSUME CInv, Types', NEW b \in Backends, Alone(b), Heap', BackendInv(b)',
           \A f \in failed' : f.late = TRUE
    PROVE  CInv'
<1>1. ASSUME NEW a \in Backends \ {b}  PROVE BackendInv(a)'
  BY BystanderKept, Zenon DEF CInv, Alone
<1>2. \A a \in Backends : BackendInv(a)'
  BY <1>1, Zenon
<1> QED  BY <1>2, Zenon DEF CInv

(* Nobody else writes while b has the lock.                                *)
LEMMA OneWriter ==
    ASSUME CInv, NEW b \in Backends, locker = b, NEW a \in Backends \ {b}
    PROVE  xact[a].wip = 0 /\ ~Committing(a) /\ ~Analyzing(a)
BY Zenon DEF CInv, BackendInv, Writing, Locking, Committing

(* The new version is the writer's own, and the lock keeps everybody else  *)
(* from writing.                                                           *)
LEMMA WriteStatisticStep ==
    ASSUME CInv, NEW b \in Backends, WriteStatistic(b)  PROVE CInv'
<1>1. Types /\ BackendInv(b) /\ Heap
  BY Zenon DEF CInv
<1>2. /\ pc[b] = "use" /\ xact[b].cmd = "analyze"
      /\ pc' = [pc EXCEPT ![b] = "written"] /\ held' = [held EXCEPT ![b] = None]
      /\ UNCHANGED <<qvars, locker, catSnap, entry, failed, announced>>
  BY Zenon DEF WriteStatistic, Goto
<1>3. locker = b /\ heap.next \in Versions /\ heap.next # 0 /\ heap.next \in Nat
  BY <1>1, <1>2 DEF BackendInv, Locking, Analyzing, Types, Versions
<1>4. PICK t \in BOOLEAN : heap' = [heap EXCEPT !.next = @ + 1,
                                  !.toasted = IF t THEN @ \cup {heap.next} ELSE @]
  BY Zenon DEF WriteStatistic
<1>5. /\ heap' \in [cur : Versions, next : 1 .. MaxVersion + 1, toasted : SUBSET Versions,
                    committed : SUBSET Versions]
      /\ heap'.cur = heap.cur /\ heap'.committed = heap.committed /\ heap'.next = heap.next + 1
  <2>1. PICK T : T = IF t THEN heap.toasted \cup {heap.next} ELSE heap.toasted
    BY Zenon
  <2>2. T \in SUBSET Versions
    BY <1>1, <1>3, <2>1, Zenon DEF Types
  <2>3. heap' = [heap EXCEPT !.next = @ + 1, !.toasted = T]
    BY <1>4, <2>1, Zenon
  <2>4. heap.next + 1 \in 1 .. MaxVersion + 1
    BY <1>3, StatsCacheAssumption DEF Versions
  <2> QED  BY <1>1, <2>2, <2>3, <2>4, Zenon DEF Types
<1>6. PICK x \in Xacts : x = xact[b]
  BY <1>1, Zenon DEF Types
<1>7. PICK y : y = [x EXCEPT !.wip = heap.next, !.mine = @ \cup {heap.next},
                             !.visible = FALSE, !.current = TRUE]
  BY Zenon
<1>8. /\ y \in Xacts /\ y.cmd = x.cmd /\ y.opened = x.opened /\ y.floor = x.floor
      /\ y.prior = x.prior /\ y.wip = heap.next /\ y.mine = x.mine \cup {heap.next}
      /\ y.visible = FALSE /\ y.current = TRUE
  BY <1>3, <1>6, <1>7, Zenon DEF Xacts
<1>9. xact' = [xact EXCEPT ![b] = y]
  BY <1>6, <1>7, Zenon DEF WriteStatistic
<1>10. Types'
  BY <1>1, <1>2, <1>5, <1>8, <1>9, Zenon DEF Types, PCs, qvars
<1>11. /\ pc'[b] = "written" /\ xact'[b] = y /\ held'[b] = None /\ entry'[b] = entry[b]
       /\ catSnap'[b] = catSnap[b] /\ seen'[b] = seen[b] /\ sent' = sent /\ locker' = locker
       /\ announced' = announced /\ failed' = failed
       /\ \A a \in Backends \ {b} : Same(a)
  BY <1>1, <1>2, <1>9, Zenon DEF Types, Same, qvars
<1>12. ASSUME NEW a \in Backends \ {b}  PROVE Bystander(a)
  <2>1. Same(a)
    BY <1>11, Zenon
  <2>2. (\E w \in Backends : Committing(w)) => (\E w \in Backends : Committing(w)')
    <3>1. ASSUME NEW w \in Backends, Committing(w)  PROVE Committing(w)'
      BY <1>2, <1>11, <3>1, Zenon DEF Committing, Same
    <3> QED  BY <3>1, Zenon
  <2>3. Doomed(a) => Doomed(a)'
    BY <1>11, <2>1, <2>2, Zenon DEF Doomed, Behind, Same
  <2> QED  BY <1>1, <1>3, <1>5, <1>11, <2>1, <2>3 DEF Bystander, Types, Versions
<1>13. Heap'
  BY <1>1, <1>5, <1>11 DEF Heap, Types, Versions
<1>14. Writing(b)'
  BY <1>1, <1>3, <1>5, <1>8, <1>11 DEF Writing, Inside, Heap, Types, Versions
<1>15. Locking(b)' /\ Planning(b)' /\ Holding(b)'
  BY <1>1, <1>2, <1>3, <1>6, <1>8, <1>11, Zenon
     DEF BackendInv, Locking, Analyzing, Behind, Planning, Holding
<1>16. Caches(b)'
  <2>1. Behind(b)' <=> Behind(b)
    BY <1>11, Zenon DEF Behind
  <2>2. Doomed(b) => Doomed(b)'
    <3>1. ASSUME NEW w \in Backends, Committing(w)  PROVE Committing(w)'
      BY <1>2, <1>11, <3>1, Zenon DEF Committing, Same
    <3> QED  BY <2>1, <3>1, Zenon DEF Doomed
  <2>3. ASSUME NEW r, Cached(b, r)  PROVE Cached(b, r)'
    <3>1. Spread(b, r.ver)'
      BY <1>5, <1>6, <1>8, <1>11, <2>3, Zenon DEF Cached, Spread
    <3>2. Good(b, r.ver) => Good(b, r.ver)'
      BY <1>5, <1>6, <1>8, <1>11, <2>2, Zenon DEF Good
    <3> QED  BY <1>6, <1>8, <1>11, <2>1, <2>3, <3>1, <3>2, Zenon DEF Cached
  <2>4. ASSUME NEW v, Snapped(b, v)  PROVE Snapped(b, v)'
    BY <1>5, <1>6, <1>8, <1>11, <2>1, <2>2, <2>4, Zenon DEF Snapped
  <2>5. PICK e, v : e = entry[b] /\ v = catSnap[b]
    BY Zenon
  <2>6. (e # None => Cached(b, e)') /\ (v # None => Snapped(b, v)')
    BY <1>1, <2>3, <2>4, <2>5, Zenon DEF BackendInv, Caches
  <2> QED  BY <1>11, <2>5, <2>6, Zenon DEF Caches
<1>17. BackendInv(b)' /\ Alone(b)
  BY <1>12, <1>14, <1>15, <1>16, Zenon DEF BackendInv, Alone
<1> QED  BY <1>10, <1>11, <1>13, <1>17, Others, Zenon DEF CInv

(* The row in the hands of the one ANALYZE that has the lock is the        *)
(* latest, unless it was entered late.                                     *)
LEMMA HeldIsLatest ==
    ASSUME CInv, NEW b \in Backends, pc[b] = "use", xact[b].cmd = "analyze",
           held[b].late = FALSE
    PROVE  held[b].ver = Latest(b)
<1>1. Types /\ BackendInv(b)
  BY Zenon DEF CInv
<1>2. locker = b /\ ~Behind(b)
  BY <1>1, Zenon DEF BackendInv, Locking, Analyzing
<1>3. ~Doomed(b)
  <2>1. ASSUME NEW w \in Backends  PROVE ~Committing(w)
    BY <1>2, OneWriter, Zenon DEF Committing
  <2> QED  BY <1>2, <2>1, Zenon DEF Doomed
<1>4. Good(b, held[b].ver)
  BY <1>1, Zenon DEF BackendInv, Holding, Cached
<1>5. xact[b] \in Xacts
  BY <1>1, Zenon DEF Types
<1>6. CASE xact[b].prior = TRUE
  BY <1>1, <1>4, <1>6, Zenon DEF Good, BackendInv, Writing, Inside, Latest
<1>7. CASE xact[b].prior = FALSE
  BY <1>1, <1>3, <1>4, <1>7, Zenon DEF Good, BackendInv, Writing, Inside, Latest
<1> QED  BY <1>5, <1>6, <1>7, Zenon DEF Xacts

(* An update fails only on a row that was entered late.                    *)
LEMMA WriteFailsStep ==
    ASSUME CInv, NEW b \in Backends, WriteFails(b)  PROVE CInv'
<1>1. Types /\ BackendInv(b)
  BY Zenon DEF CInv
<1>2. /\ pc[b] = "use" /\ xact[b].cmd = "analyze" /\ held[b].ver # Latest(b)
      /\ failed' = failed \cup {held[b]} /\ pc' = [pc EXCEPT ![b] = "abort"]
      /\ UNCHANGED <<qvars, heap, locker, xact, locals, announced>>
  BY Zenon DEF WriteFails, Goto
<1>3. held[b] \in Rows /\ held[b] # None
  BY <1>1, <1>2, Zenon DEF BackendInv, Holding, Types
<1>4. held[b].late = TRUE
  BY <1>2, <1>3, HeldIsLatest, Zenon DEF Rows
<1>5. Types'
  BY <1>1, <1>2, <1>3, Zenon DEF Types, PCs, qvars, locals
<1>6. /\ Quiet(b) /\ pc'[b] = "abort" /\ xact'[b] = xact[b] /\ held'[b] = held[b]
      /\ seen'[b] = seen[b] /\ sent' = sent /\ locker' = locker /\ heap' = heap
      /\ announced' = announced
  BY <1>1, <1>2, Zenon DEF Types, Quiet, Same, qvars, locals
<1>7. Settled(b) /\ ReadOnly(b)
  BY <1>2, Zenon DEF Settled, ReadOnly, qvars, locals
<1>8. Writing(b)'
  BY <1>1, <1>2, <1>6, Zenon DEF BackendInv, Writing, Inside
<1>9. Locking(b)' /\ Planning(b)' /\ Holding(b)'
  BY <1>1, <1>3, <1>6, Zenon
     DEF BackendInv, Locking, Analyzing, Behind, Planning, Holding, Spread
<1>10. Caches(b)'
  BY <1>1, <1>6, <1>7, CachesKept, Zenon DEF BackendInv
<1>11. \A a \in Backends : BackendInv(a)'
  BY <1>5, <1>6, <1>8, <1>9, <1>10, QuietOthers, Zenon DEF BackendInv
<1>12. Heap'
  BY <1>6, Zenon DEF CInv, Heap
<1> QED  BY <1>2, <1>4, <1>5, <1>11, <1>12, Zenon DEF CInv

(* The messages of the command, executed locally, empty the caches.        *)
LEMMA CommandEndStep ==
    ASSUME CInv, NEW b \in Backends, CommandEnd(b)  PROVE CInv'
<1>1. Types /\ BackendInv(b)
  BY Zenon DEF CInv
<1>2. /\ pc[b] = "written" /\ pc' = [pc EXCEPT ![b] = "xact"]
      /\ catSnap' = [catSnap EXCEPT ![b] = None] /\ entry' = [entry EXCEPT ![b] = None]
      /\ UNCHANGED <<qvars, heap, locker, held, failed, announced>>
  BY Zenon DEF CommandEnd, Goto, Flush
<1>3. PICK x \in Xacts : x = xact[b]
  BY <1>1, Zenon DEF Types
<1>4. PICK y : y = [x EXCEPT !.visible = TRUE, !.current = FALSE, !.prior = TRUE]
  BY Zenon
<1>5. /\ y \in Xacts /\ y.cmd = x.cmd /\ y.opened = x.opened /\ y.floor = x.floor
      /\ y.wip = x.wip /\ y.mine = x.mine
      /\ y.visible = TRUE /\ y.current = FALSE /\ y.prior = TRUE
  BY <1>3, <1>4, Zenon DEF Xacts
<1>6. xact' = [xact EXCEPT ![b] = y]
  BY <1>3, <1>4, Zenon DEF CommandEnd
<1>7. Types'
  BY <1>1, <1>2, <1>5, <1>6, Zenon DEF Types, PCs, qvars
<1>8. /\ Quiet(b) /\ pc'[b] = "xact" /\ xact'[b] = y /\ held'[b] = held[b]
      /\ seen'[b] = seen[b] /\ sent' = sent /\ locker' = locker /\ heap' = heap
      /\ announced' = announced /\ catSnap'[b] = None /\ entry'[b] = None
  BY <1>1, <1>2, <1>6, Zenon DEF Types, Quiet, Same, qvars
<1>9. Writing(b)'
  BY <1>1, <1>2, <1>3, <1>5, <1>8, Zenon DEF BackendInv, Writing, Inside
<1>10. Locking(b)' /\ Planning(b)' /\ Holding(b)' /\ Caches(b)'
  BY <1>1, <1>2, <1>3, <1>5, <1>8, Zenon
     DEF BackendInv, Locking, Analyzing, Behind, Planning, Holding, Caches
<1> QED  BY <1>2, <1>7, <1>8, <1>9, <1>10, QuietStep, Zenon DEF BackendInv

(* After the commit what was the transaction's own is everybody's, and its *)
(* message is unread.                                                      *)
LEMMA EndCommitStep ==
    ASSUME CInv, NEW b \in Backends, EndCommit(b)  PROVE CInv'
<1>1. Types /\ BackendInv(b)
  BY Zenon DEF CInv
<1>2. /\ pc[b] = "sent" /\ pc' = [pc EXCEPT ![b] = "idle"]
      /\ locker' = (IF locker = b THEN None ELSE locker)
      /\ xact' = [xact EXCEPT ![b] = NoXact]
      /\ catSnap' = [catSnap EXCEPT ![b] = None]
      /\ UNCHANGED <<qvars, heap, entry, held, failed, announced>>
  BY Zenon DEF EndCommit, Goto, Flush
<1>3. NoXact \in Xacts /\ NoXact.wip = 0 /\ NoXact.opened = FALSE /\ NoXact.prior = FALSE
      /\ NoXact.current = FALSE /\ NoXact.visible = FALSE /\ NoXact.mine = {}
  BY StatsCacheAssumption DEF NoXact, Xacts, Versions
<1>4. Types'
  BY <1>1, <1>2, <1>3, Zenon DEF Types, PCs, qvars
<1>5. /\ Quiet(b) /\ pc'[b] = "idle" /\ xact'[b] = NoXact /\ held'[b] = held[b]
      /\ seen'[b] = seen[b] /\ sent' = sent /\ locker' # b /\ heap' = heap
      /\ announced' = announced /\ catSnap'[b] = None /\ entry'[b] = entry[b]
  BY <1>1, <1>2, StatsCacheAssumption, Zenon DEF Types, Quiet, Same, qvars
<1>6. Writing(b)'
  BY <1>3, <1>5, Zenon DEF Writing, Inside
<1>7. Locking(b)' /\ Planning(b)' /\ Holding(b)'
  BY <1>1, <1>2, <1>3, <1>5, Zenon
     DEF BackendInv, Locking, Analyzing, Behind, Planning, Holding
<1>8. Caches(b)'
  <2>1. Behind(b)' <=> Behind(b)
    BY <1>5, Zenon DEF Behind
  <2>2. Doomed(b) => Doomed(b)'
    BY <1>5, <2>1, QuietCommitting, Zenon DEF Doomed
  <2>3. ASSUME NEW r, Cached(b, r)  PROVE Cached(b, r)'
    <3>1. Spread(b, r.ver)'
      BY <1>1, <1>2, <1>5, <2>3, Zenon DEF Cached, Spread, BackendInv, Writing
    <3>2. r.late = FALSE => r.ver = heap.cur \/ Doomed(b)
      BY <1>1, <1>2, <2>3, Zenon DEF Cached, Good, BackendInv, Writing, Doomed
    <3>3. r.late = FALSE => Good(b, r.ver)'
      BY <1>3, <1>5, <2>2, <3>2, Zenon DEF Good
    <3> QED  BY <1>3, <1>5, <2>1, <2>3, <3>1, <3>3, Zenon DEF Cached
  <2>4. PICK e : e = entry[b]
    BY Zenon
  <2>5. e # None => Cached(b, e)'
    BY <1>1, <2>3, <2>4, Zenon DEF BackendInv, Caches
  <2> QED  BY <1>5, <2>4, <2>5, Zenon DEF Caches
<1> QED  BY <1>2, <1>4, <1>5, <1>6, <1>7, <1>8, QuietStep, Zenon DEF BackendInv

(* What an abort leaves in the cache was there before the transaction had  *)
(* a finished command, or is gone.                                         *)
LEMMA AbortTransactionStep ==
    ASSUME CInv, NEW b \in Backends, AbortTransaction(b)  PROVE CInv'
<1>1. Types /\ BackendInv(b)
  BY Zenon DEF CInv
<1>2. /\ pc[b] \notin {"idle", "committed", "sent"} /\ pc' = [pc EXCEPT ![b] = "idle"]
      /\ locker' = (IF locker = b THEN None ELSE locker)
      /\ xact' = [xact EXCEPT ![b] = NoXact]
      /\ catSnap' = [catSnap EXCEPT ![b] = None]
      /\ held' = [held EXCEPT ![b] = None]
      /\ UNCHANGED <<qvars, heap, failed, announced>>
  BY Zenon DEF AbortTransaction, Goto, Flush
<1>3. \/ xact[b].prior = TRUE /\ entry' = [entry EXCEPT ![b] = None]
      \/ xact[b].prior = FALSE /\ entry' = entry
  <2>1. xact[b].prior \in BOOLEAN
    BY <1>1, Zenon DEF Types, Xacts
  <2> QED  BY <2>1, Zenon DEF AbortTransaction, AbortFlushes, Flush
<1>4. NoXact \in Xacts /\ NoXact.wip = 0 /\ NoXact.opened = FALSE /\ NoXact.prior = FALSE
      /\ NoXact.current = FALSE /\ NoXact.visible = FALSE /\ NoXact.mine = {}
  BY StatsCacheAssumption DEF NoXact, Xacts, Versions
<1>5. Types'
  <2>1. entry' \in [Backends -> Rows \cup {None}]
    BY <1>1, <1>3, Zenon DEF Types
  <2> QED  BY <1>1, <1>2, <1>4, <2>1, Zenon DEF Types, PCs, qvars
<1>6. /\ Quiet(b) /\ pc'[b] = "idle" /\ xact'[b] = NoXact /\ held'[b] = None
      /\ seen'[b] = seen[b] /\ sent' = sent /\ locker' # b /\ heap' = heap
      /\ announced' = announced /\ catSnap'[b] = None
      /\ entry'[b] = None \/ (xact[b].prior = FALSE /\ entry'[b] = entry[b])
  BY <1>1, <1>2, <1>3, StatsCacheAssumption, Zenon DEF Types, Quiet, Same, qvars
<1>7. Writing(b)'
  BY <1>4, <1>6, Zenon DEF Writing, Inside
<1>8. Locking(b)' /\ Planning(b)' /\ Holding(b)'
  BY <1>1, <1>4, <1>6, Zenon DEF Locking, Analyzing, Planning, Holding
<1>9. Caches(b)'
  <2>1. Behind(b)' <=> Behind(b)
    BY <1>6, Zenon DEF Behind
  <2>2. Doomed(b) => Doomed(b)'
    BY <1>6, <2>1, QuietCommitting, Zenon DEF Doomed
  <2>3. ASSUME NEW r, Cached(b, r), xact[b].prior = FALSE  PROVE Cached(b, r)'
    <3>1. Spread(b, r.ver)'
      BY <1>6, <2>3, Zenon DEF Cached, Spread
    <3>2. r.late = FALSE => Good(b, r.ver)'
      BY <1>4, <1>6, <2>2, <2>3, Zenon DEF Cached, Good
    <3> QED  BY <1>4, <1>6, <2>1, <2>3, <3>1, <3>2, Zenon DEF Cached
  <2>4. PICK e : e = entry[b]
    BY Zenon
  <2>5. e # None /\ xact[b].prior = FALSE => Cached(b, e)'
    BY <1>1, <2>3, <2>4, Zenon DEF BackendInv, Caches
  <2> QED  BY <1>6, <2>4, <2>5, Zenon DEF Caches
<1> QED  BY <1>2, <1>5, <1>6, <1>7, <1>8, <1>9, QuietStep, Zenon DEF BackendInv

(* A commit that changes the row dooms every copy of the old one.          *)
LEMMA RecordCommitStep ==
    ASSUME CInv, NEW b \in Backends, RecordCommit(b)  PROVE CInv'
<1>1. Types /\ BackendInv(b) /\ Heap
  BY Zenon DEF CInv
<1>2. /\ pc[b] \in {"xact", "written"} /\ pc' = [pc EXCEPT ![b] = "committed"]
      /\ UNCHANGED <<qvars, locker, xact, locals, failed, announced>>
  BY Zenon DEF RecordCommit, Goto
<1>3. PICK l : l = Latest(b)
  BY Zenon
<1>4. heap' = [heap EXCEPT !.cur = l, !.committed = @ \cup xact[b].mine]
  BY <1>3, Zenon DEF RecordCommit
<1>5. xact[b] \in Xacts /\ xact[b].mine \in SUBSET Versions /\ xact[b].wip \in Versions
  BY <1>1, Zenon DEF Types, Xacts
<1>6. /\ l \in Versions /\ heap.cur <= l /\ l < heap.next
      /\ xact[b].wip = 0 => l = heap.cur
      /\ xact[b].wip # 0 => l = xact[b].wip /\ l \in xact[b].mine /\ locker = b
  BY <1>1, <1>3, <1>5 DEF Latest, BackendInv, Writing, Heap, Types, Versions
<1>7. /\ heap'.cur = l /\ heap'.committed = heap.committed \cup xact[b].mine
      /\ heap'.next = heap.next
      /\ heap' \in [cur : Versions, next : 1 .. MaxVersion + 1, toasted : SUBSET Versions,
                    committed : SUBSET Versions]
  BY <1>1, <1>4, <1>5, <1>6, Zenon DEF Types
<1>8. Types'
  BY <1>1, <1>2, <1>7, Zenon DEF Types, PCs, qvars, locals
<1>9. /\ pc'[b] = "committed" /\ xact'[b] = xact[b] /\ held'[b] = held[b]
      /\ entry'[b] = entry[b] /\ catSnap'[b] = catSnap[b] /\ seen'[b] = seen[b]
      /\ sent' = sent /\ locker' = locker /\ announced' = announced /\ failed' = failed
      /\ \A a \in Backends \ {b} : Same(a)
  BY <1>1, <1>2, Zenon DEF Types, Same, qvars, locals
<1>10. l # heap.cur => Committing(b)'
  BY <1>1, <1>6, <1>9, Zenon DEF BackendInv, Writing, Committing
<1>11. ASSUME NEW w \in Backends, Committing(w)  PROVE Committing(w)'
  BY <1>2, <1>9, <1>11, Zenon DEF Committing, Same
<1>12. ASSUME NEW a \in Backends
       PROVE  /\ Behind(a)' <=> Behind(a)
              /\ Doomed(a) => Doomed(a)'
              /\ l = heap.cur \/ Doomed(a)'
  <2>1. Behind(a)' <=> Behind(a)
    BY <1>2, Zenon DEF Behind, qvars
  <2> QED  BY <1>10, <1>11, <2>1, Zenon DEF Doomed
<1>13. ASSUME NEW a \in Backends \ {b}  PROVE Bystander(a)
  <2>1. Same(a)
    BY <1>9, Zenon
  <2>2. xact[a].wip # 0 => l = heap.cur
    BY <1>6, OneWriter, Zenon
  <2> QED  BY <1>1, <1>6, <1>7, <1>9, <1>12, <2>1, <2>2 DEF Bystander, Types, Versions
<1>14. Heap'
  BY <1>1, <1>6, <1>7, <1>9 DEF Heap, Types, Versions
<1>15. Writing(b)'
  <2>1. xact[b].wip # 0 => l <= xact[b].wip
    BY <1>5, <1>6 DEF Versions
  <2> QED  BY <1>1, <1>2, <1>6, <1>7, <1>9, <2>1, Zenon DEF BackendInv, Writing, Inside
<1>16. Locking(b)' /\ Planning(b)' /\ Holding(b)'
  BY <1>1, <1>2, <1>9, <1>12, Zenon
     DEF BackendInv, Locking, Analyzing, Planning, Holding
<1>17. Caches(b)'
  <2>1. ASSUME NEW r, Cached(b, r)  PROVE Cached(b, r)'
    <3>1. Spread(b, r.ver)'
      BY <1>7, <1>9, <2>1, Zenon DEF Cached, Spread
    <3>2. Good(b, r.ver) => Good(b, r.ver)'
      BY <1>7, <1>9, <1>12, Zenon DEF Good
    <3> QED  BY <1>9, <1>12, <2>1, <3>1, <3>2, Zenon DEF Cached
  <2>2. ASSUME NEW v, Snapped(b, v)  PROVE Snapped(b, v)'
    BY <1>7, <1>9, <1>12, <2>2, Zenon DEF Snapped
  <2>3. PICK e, v : e = entry[b] /\ v = catSnap[b]
    BY Zenon
  <2>4. (e # None => Cached(b, e)') /\ (v # None => Snapped(b, v)')
    BY <1>1, <2>1, <2>2, <2>3, Zenon DEF BackendInv, Caches
  <2> QED  BY <1>9, <2>3, <2>4, Zenon DEF Caches
<1>18. BackendInv(b)' /\ Alone(b)
  BY <1>13, <1>15, <1>16, <1>17, Zenon DEF BackendInv, Alone
<1> QED  BY <1>8, <1>9, <1>14, <1>18, Others, Zenon DEF CInv

(* With the message in the queue everybody is behind.                      *)
LEMMA AtCommitInvalStep ==
    ASSUME CInv, NEW b \in Backends, AtCommitInval(b)  PROVE CInv'
<1>1. Types /\ BackendInv(b) /\ Heap
  BY Zenon DEF CInv
<1>2. /\ pc[b] = "committed" /\ pc' = [pc EXCEPT ![b] = "sent"]
      /\ UNCHANGED <<heap, locker, xact, locals, failed>>
  BY Zenon DEF AtCommitInval, Goto
<1>3. \/ Committing(b) /\ Send /\ announced' = Latest(b)
      \/ ~Committing(b) /\ UNCHANGED <<qvars, announced>>
  <2>1. xact[b].current \in BOOLEAN /\ xact[b].prior \in BOOLEAN
    BY <1>1, Zenon DEF Types, Xacts
  <2> QED  BY <1>2, <2>1, Zenon DEF AtCommitInval, Committing
<1>4. /\ seen' = seen /\ active' = active /\ sent' \in Nat
      /\ \/ Committing(b) /\ sent < sent' /\ announced' = heap.cur
         \/ ~Committing(b) /\ sent' = sent /\ announced' = announced
  <2>1. CASE Committing(b) /\ Send /\ announced' = Latest(b)
    <3>1. PICK n \in 1 .. MaxChunk : sent' = sent + n
      BY <2>1, Zenon DEF Send
    <3>2. n \in Nat /\ n > 0
      OBVIOUS
    <3>3. Latest(b) = heap.cur
      BY <1>1, <1>2, <2>1, Zenon DEF BackendInv, Writing, Latest, Committing
    <3>4. seen' = seen /\ active' = active
      BY <2>1, Zenon DEF Send
    <3> QED  BY <1>1, <2>1, <3>1, <3>2, <3>3, <3>4 DEF Types
  <2>2. CASE ~Committing(b) /\ UNCHANGED <<qvars, announced>>
    BY <1>1, <2>2, Zenon DEF qvars, Types
  <2> QED  BY <1>3, <2>1, <2>2, Zenon
<1>5. announced' \in Versions /\ announced <= announced' /\ announced' <= heap.cur
  BY <1>1, <1>4 DEF Types, Heap, Versions
<1>6. Types'
  BY <1>1, <1>2, <1>4, <1>5 DEF Types, PCs, locals
<1>7. /\ pc'[b] = "sent" /\ xact'[b] = xact[b] /\ held'[b] = held[b]
      /\ entry'[b] = entry[b] /\ catSnap'[b] = catSnap[b] /\ seen'[b] = seen[b]
      /\ heap' = heap /\ locker' = locker /\ failed' = failed /\ sent <= sent'
      /\ \A a \in Backends \ {b} : Same(a)
  BY <1>1, <1>2, <1>4 DEF Types, Same, locals
<1>8. ASSUME NEW a \in Backends
      PROVE  /\ Behind(a) => Behind(a)'
             /\ Committing(b) => Behind(a)'
             /\ Doomed(a) => Doomed(a)'
             /\ announced' = announced \/ Behind(a)'
  <2>1. (Behind(a) => Behind(a)') /\ (Committing(b) => Behind(a)')
    BY <1>1, <1>4 DEF Behind, Types
  <2>2. ASSUME NEW w \in Backends, Committing(w), w # b  PROVE Committing(w)'
    BY <1>7, <2>2, Zenon DEF Committing, Same
  <2>3. Doomed(a) => Doomed(a)'
    BY <2>1, <2>2, Zenon DEF Doomed
  <2> QED  BY <1>4, <2>1, <2>3, Zenon
<1>9. ASSUME NEW a \in Backends \ {b}  PROVE Bystander(a)
  <2>1. Same(a)
    BY <1>7, Zenon
  <2>2. locker = a => ~Committing(b)
    BY <1>1, Zenon DEF BackendInv, Writing, Committing
  <2> QED  BY <1>1, <1>4, <1>5, <1>7, <1>8, <2>1, <2>2 DEF Bystander, Types, Versions
<1>10. Heap'
  BY <1>1, <1>5, <1>7, Zenon DEF Heap
<1>11. Writing(b)'
  <2>1. xact[b].wip # 0 => Committing(b)
    BY <1>1, <1>2, Zenon DEF BackendInv, Writing, Committing
  <2> QED  BY <1>1, <1>2, <1>7, <1>8, <2>1, Zenon DEF BackendInv, Writing, Inside
<1>12. Locking(b)' /\ Planning(b)' /\ Holding(b)'
  <2>1. xact[b].floor \in Nat /\ announced \in Nat /\ announced' \in Nat
    BY <1>1, <1>5 DEF Types, Xacts, Versions
  <2> QED  BY <1>1, <1>2, <1>5, <1>7, <2>1
              DEF BackendInv, Locking, Analyzing, Planning, Holding
<1>13. Caches(b)'
  <2>1. ASSUME NEW r, Cached(b, r)  PROVE Cached(b, r)'
    <3>1. Spread(b, r.ver)'
      BY <1>7, <2>1, Zenon DEF Cached, Spread
    <3>2. Good(b, r.ver) => Good(b, r.ver)'
      BY <1>7, <1>8, Zenon DEF Good
    <3> QED  BY <1>7, <1>8, <2>1, <3>1, <3>2, Zenon DEF Cached
  <2>2. ASSUME NEW v, Snapped(b, v)  PROVE Snapped(b, v)'
    BY <1>7, <1>8, <2>2, Zenon DEF Snapped
  <2>3. PICK e, v : e = entry[b] /\ v = catSnap[b]
    BY Zenon
  <2>4. (e # None => Cached(b, e)') /\ (v # None => Snapped(b, v)')
    BY <1>1, <2>1, <2>2, <2>3, Zenon DEF BackendInv, Caches
  <2> QED  BY <1>7, <2>3, <2>4, Zenon DEF Caches
<1>14. BackendInv(b)' /\ Alone(b)
  BY <1>9, <1>11, <1>12, <1>13, Zenon DEF BackendInv, Alone
<1> QED  BY <1>6, <1>7, <1>10, <1>14, Others, Zenon DEF CInv

-----------------------------------------------------------------------------
(* The invariant holds throughout.                                         *)

(* The invariant holds when nobody has cached anything.                    *)
LEMMA InitStep == Init => CInv
<1> SUFFICES ASSUME Init  PROVE CInv
  BY Zenon
<1> USE DEF Init
<1>1. 0 \in Versions
  BY StatsCacheAssumption DEF Versions
<1>2. /\ NoXact \in Xacts /\ NoXact.wip = 0 /\ NoXact.opened = FALSE /\ NoXact.prior = FALSE
      /\ NoXact.current = FALSE /\ NoXact.visible = FALSE /\ NoXact.mine = {}
  BY <1>1, Zenon DEF NoXact, Xacts
<1>3. Types
  BY <1>1, <1>2, StatsCacheAssumption DEF Types, PCs
<1>4. ASSUME NEW b \in Backends  PROVE BackendInv(b)
  BY <1>2, StatsCacheAssumption, Zenon
     DEF BackendInv, Writing, Locking, Analyzing, Planning, Holding, Caches, Inside, Behind
<1>5. Heap
  BY DEF Heap
<1> QED  BY <1>3, <1>4, <1>5, Zenon DEF CInv

(* Every step preserves the invariant.                                     *)
LEMMA NextStep == CInv /\ [Next]_vars => CInv'
<1> SUFFICES ASSUME CInv, [Next]_vars  PROVE CInv'
  BY Zenon
<1>1. CASE UNCHANGED vars
  BY <1>1 DEF vars, qvars, locals, CInv, Types, Heap, BackendInv, Writing, Locking, Analyzing,
     Planning, Holding, Caches, Cached, Snapped, Spread, Good, Doomed, Committing, Behind
<1>2. CASE Next
  <2>1. PICK b \in Backends :
          \/ StartTransaction(b) \/ LockForPlan(b) \/ LockForAnalyze(b) \/ OpenStatistic(b)
          \/ LockAnother(b) \/ SearchCatCacheHit(b) \/ SearchCatCacheMiss(b) \/ ScanCatalog(b)
          \/ FlattenAndEnter(b) \/ ReleaseStats(b) \/ WriteStatistic(b) \/ WriteFails(b)
          \/ CommandEnd(b) \/ RecordCommit(b) \/ AtCommitInval(b) \/ EndCommit(b)
          \/ AbortTransaction(b)
    BY <1>2, Zenon DEF Next
  <2> QED
    BY <2>1, StartTransactionStep, LockForPlanStep, LockForAnalyzeStep, OpenStatisticStep,
       LockAnotherStep, SearchCatCacheHitStep, SearchCatCacheMissStep, ScanCatalogStep,
       FlattenAndEnterStep, ReleaseStatsStep, WriteStatisticStep, WriteFailsStep,
       CommandEndStep, RecordCommitStep, AtCommitInvalStep, EndCommitStep,
       AbortTransactionStep, Zenon
<1> QED  BY <1>1, <1>2, Zenon

(* The invariant holds in every reachable state.                           *)
LEMMA Invariance == Spec => []CInv
BY InitStep, NextStep, PTL DEF Spec

(* The caches hold what they should hold, for every number of backends.    *)
THEOREM StatsCacheTypes == Spec => []TypeOK
<1>1. CInv => TypeOK
  BY Zenon DEF CInv, Types, TypeOK, Rows
<1> QED  BY <1>1, Invariance, PTL

(* A cached statistics row that is out of date always has a message under  *)
(* way to the backend (AtEOXact_Inval after RecordTransactionCommit),      *)
(* unless toast_flatten_tuple read the queue before it was entered.        *)
THEOREM StatsCacheDoomed == Spec => []ObsoleteEntriesAreDoomed
<1>1. ASSUME CInv, NEW b \in Backends, entry[b] # None, ~entry[b].late,
             entry[b].ver # (IF xact[b].visible THEN xact[b].wip ELSE heap.cur)
      PROVE  \/ Behind(b)
             \/ \E w \in Backends : pc[w] = "committed" /\ (xact[w].current \/ xact[w].prior)
             \/ xact[b].current
  <2>1. Types /\ BackendInv(b)
    BY <1>1, Zenon DEF CInv
  <2>2. \A w \in Backends : /\ xact[w].visible \in BOOLEAN /\ xact[w].current \in BOOLEAN
                           /\ xact[w].prior \in BOOLEAN
    BY <2>1, Zenon DEF Types, Xacts
  <2>3. entry[b].late \in BOOLEAN
    BY <1>1, <2>1, Zenon DEF Types, Rows
  <2>4. entry[b].late = FALSE
    BY <1>1, <2>3, Zenon
  <2>5. Good(b, entry[b].ver)
    BY <1>1, <2>1, <2>4, Zenon DEF BackendInv, Caches, Cached
  <2>6. CASE xact[b].visible = TRUE
    <3>1. entry[b].ver # xact[b].wip
      BY <1>1, <2>6, Zenon
    <3>2. xact[b].current = TRUE
      BY <2>1, <2>5, <2>6, <3>1, Zenon DEF Good, BackendInv, Writing
    <3> QED  BY <3>2, Zenon
  <2>7. CASE xact[b].visible = FALSE
    <3>1. entry[b].ver # heap.cur
      BY <1>1, <2>7, Zenon
    <3>2. xact[b].current = TRUE \/ Doomed(b)
      <4>1. CASE xact[b].prior = TRUE
        BY <2>1, <2>7, <4>1, Zenon DEF BackendInv, Writing
      <4>2. CASE xact[b].prior = FALSE
        BY <2>5, <3>1, <4>2, Zenon DEF Good
      <4> QED  BY <2>2, <4>1, <4>2, Zenon
    <3> QED  BY <3>2, Zenon DEF Doomed, Committing
  <2> QED  BY <2>2, <2>6, <2>7, Zenon
<1>2. CInv => ObsoleteEntriesAreDoomed
  BY <1>1, Zenon DEF ObsoleteEntriesAreDoomed
<1> QED  BY <1>2, Invariance, PTL

(* No backend ever has in its cache, or uses, a row of a transaction that  *)
(* aborted or is still open, except its own (AtEOXact_Inval(false) drops   *)
(* what a finished command let into the cache).                            *)
THEOREM StatsCacheCommittedRows == Spec => []OnlyCommittedRowsSpread
<1>1. CInv => OnlyCommittedRowsSpread
  BY Zenon DEF CInv, BackendInv, Caches, Holding, Cached, Spread, OnlyCommittedRowsSpread
<1> QED  BY <1>1, Invariance, PTL

(* update_attstats never finds that its row was updated by another         *)
(* ANALYZE: analyze_rel keeps the table's lock until the messages are      *)
(* sent.  The exception is a row entered into the cache late.              *)
THEOREM StatsCacheNoRace == Spec => []OnlyLateEntriesFail
<1>1. CInv => OnlyLateEntriesFail
  BY Zenon DEF CInv, OnlyLateEntriesFail
<1> QED  BY <1>1, Invariance, PTL

(* A planner that locks the table after an ANALYZE has sent its messages   *)
(* uses the statistics of that ANALYZE, or later ones.                     *)
THEOREM StatsCachePlanner == Spec => []PlannerSeesAnnounced
<1>1. ASSUME CInv, NEW b \in Backends, pc[b] = "use", xact[b].cmd = "plan", ~held[b].late
      PROVE  held[b].ver >= xact[b].floor
  <2>1. Types /\ BackendInv(b)
    BY <1>1, Zenon DEF CInv
  <2>2. held[b] \in Rows
    BY <1>1, <2>1, Zenon DEF Types, BackendInv, Holding
  <2>3. held[b].late \in BOOLEAN /\ held[b].ver \in Nat /\ xact[b].floor \in Nat
    BY <2>1, <2>2 DEF Types, Rows, Xacts, Versions
  <2>4. held[b].late = FALSE
    BY <1>1, <2>3, Zenon
  <2>5. xact[b].floor <= held[b].ver
    BY <1>1, <2>1, <2>4, Zenon DEF BackendInv, Planning, Holding
  <2> QED  BY <2>3, <2>5, Zenon
<1>2. CInv => PlannerSeesAnnounced
  BY <1>1, Zenon DEF PlannerSeesAnnounced
<1> QED  BY <1>2, Invariance, PTL
=============================================================================
