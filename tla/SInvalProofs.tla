----------------------------- MODULE SInvalProofs -----------------------------
(***************************************************************************)
(* The shared invalidation queue, for every number of backends, every size *)
(* of the ring and every number of messages: the queue is sound, no        *)
(* completed insertion is hidden by the unlocked flag, a receive call      *)
(* drops nothing and processes all it owes, and the ring implements the    *)
(* endless sequence of InvalQueue.                                         *)
(*                                                                         *)
(* The inductive invariant adds to the properties who holds which lock     *)
(* where, what a writer has done of its chunk, and what a reader has       *)
(* fetched: the locks are what makes the numbers it read still true when   *)
(* it uses them.                                                           *)
(***************************************************************************)
EXTENDS SInval, TLAPS

Resume  == {"drain", "process", "caughtup"}
Writing == {"space", "publish", "kick", "relock"}
Reading == Resume \cup {"max", "read", "wlock", "clean"}

MyType == [n : Nat, nthistime : Nat, i : Nat, max : Nat, needSig : 0 .. MaxBackends,
           messages : Seq(Int), nextmsg : Nat, nummsgs : Nat,
           catchupInterruptPending : BOOLEAN,
           frames : Seq([at : Resume, goal : Nat]), processed : Int]

Types == TypeOK /\ my \in [Slots -> MyType]

(* What the program counter of a process says of the locks and its locals. *)
Control(s) ==
    /\ pc[s] \in {"space", "publish", "kick", "clean"} => SInvalWriteLock = s
    /\ pc[s] \in {"max", "read"} => s \in SInvalReadLock
    /\ pc[s] = "exited" <=> ~procState[s].procPid
    /\ procState[s].procPid => s <= lastBackend
    /\ pc[s] = "insert" => my[s].n > 0
    /\ pc[s] \in Writing => my[s].nthistime \in 1 .. WRITE_QUANTUM
    /\ pc[s] = "signal" => my[s].nthistime <= WRITE_QUANTUM
    /\ pc[s] \in Reading => my[s].nthistime = 0
    /\ pc[s] \in Reading \/ (pc[s] = "signal" /\ my[s].nthistime = 0)
          => Receiver(s) /\ my[s].frames # <<>>
    /\ pc[s] = "idle" => my[s].nthistime = 0
    /\ pc[s] = "insert" => my[s].nthistime = 0
    /\ pc[s] # "kick" => my[s].i = 0
    /\ ~Receiver(s) => my[s].messages = <<>>
    /\ my[s].nummsgs <= Len(my[s].messages)
    /\ pc[s] \in {"max", "read"} => my[s].nummsgs = 0

(* The chunk a writer has copied into the ring but not yet published.      *)
Filled(s) ==
    pc[s] = "publish" =>
        /\ maxMsgNum - minMsgNum + my[s].nthistime <= MAXNUMMESSAGES
        /\ \A m \in maxMsgNum .. maxMsgNum + my[s].nthistime - 1 :
              buffer[m % MAXNUMMESSAGES] = base + m

(* How far a backend has read, and the maxMsgNum it has fetched.           *)
Position(s) ==
    /\ Receiver(s) => procState[s].nextMsgNum <= maxMsgNum
    /\ pc[s] = "read" => /\ procState[s].nextMsgNum <= my[s].max
                         /\ minMsgNum <= my[s].max /\ my[s].max <= maxMsgNum

(* A message or reset that the backend will find, whatever it reads next.  *)
WillSee(s, upto) ==
    \/ procState[s].hasMessages
    \/ pc[s] = "max"
    \/ (pc[s] = "read" /\ base + my[s].max >= upto)

(* Between Publish and Kicked the backends up to i have been told.         *)
Told(s) ==
    pc[s] = "kick" =>
        \A t \in 1 .. my[s].i :
            t \in Slots /\ Receiver(t) /\ procState[t].nextMsgNum < maxMsgNum
            => WillSee(t, base + maxMsgNum)

Announced ==
    /\ announced <= base + maxMsgNum
    /\ (\A s \in Slots : pc[s] # "kick") => announced = base + maxMsgNum

IInv ==
    /\ Types
    /\ \A s \in Slots : Control(s)
    /\ QueueSound
    /\ \A s \in Slots : Filled(s) /\ Position(s)
    /\ NoLostWakeup
    /\ \A s \in Slots : Told(s)
    /\ Announced

-----------------------------------------------------------------------------
(* Least and greatest members, and positions in the ring.                  *)

(* The naturals are well ordered.  SInvalProofs proves it, where the       *)
(* theorems need it; here it is a hypothesis of the lemmas that use it.    *)
WellOrdered == \A S \in SUBSET Nat : S # {} => \E x \in S : \A y \in S : x <= y

(* Min of a non-empty set of naturals is its least member.                 *)
LEMMA MinNat ==
    ASSUME WellOrdered, NEW S, S \subseteq Nat, S # {}
    PROVE  Min(S) \in S /\ \A y \in S : Min(S) <= y
<1>1. \E x \in S : \A y \in S : x <= y
  BY Zenon DEF WellOrdered
<1> QED  BY <1>1, Zenon DEF Min

(* Max of a non-empty, bounded set of naturals is its greatest member.     *)
LEMMA MaxNat ==
    ASSUME WellOrdered, NEW S, NEW b \in Nat, S \subseteq 0 .. b, S # {}
    PROVE  Max(S) \in S /\ \A y \in S : Max(S) >= y
<1> DEFINE T == {b - x : x \in S}
<1>1. T \subseteq Nat /\ T # {}
  <2>1. \A x \in S : b - x \in Nat
    OBVIOUS
  <2>2. T # {}
    BY Zenon
  <2> QED  BY <2>1, <2>2, Zenon
<1>2. Min(T) \in T /\ \A y \in T : Min(T) <= y
  BY <1>1, MinNat, Zenon
<1>3. PICK x \in S : Min(T) = b - x
  BY <1>2, Zenon
<1>4. \A y \in S : b - y \in T
  BY Zenon
<1>5. \A y \in S : x >= y
  <2> TAKE y \in S
  <2>1. b - x <= b - y
    BY <1>2, <1>3, <1>4, Zenon
  <2> QED  BY <2>1
<1> QED  BY <1>5, Zenon DEF Max

(* The smaller of two numbers.                                             *)
LEMMA MinPair ==
    ASSUME NEW a \in Int, NEW b \in Int
    PROVE  Min({a, b}) = IF a <= b THEN a ELSE b
<1>1. \E x \in {a, b} : \A y \in {a, b} : x <= y
  OBVIOUS
<1>2. Min({a, b}) \in {a, b} /\ \A y \in {a, b} : Min({a, b}) <= y
  BY <1>1, Zenon DEF Min
<1> QED  BY <1>2

(* The larger of two numbers.                                              *)
LEMMA MaxPair ==
    ASSUME NEW a \in Int, NEW b \in Int
    PROVE  Max({a, b}) = IF a >= b THEN a ELSE b
<1>1. \E x \in {a, b} : \A y \in {a, b} : x >= y
  OBVIOUS
<1>2. Max({a, b}) \in {a, b} /\ \A y \in {a, b} : Max({a, b}) >= y
  BY <1>1, Zenon DEF Max
<1> QED  BY <1>2

(* Max of a set with one member.                                           *)
LEMMA MaxSingleton == ASSUME NEW a \in Int PROVE Max({a}) = a
  BY DEF Max

(* Two messages less than a ring apart are in different entries.           *)
LEMMA RingDistinct ==
    ASSUME NEW M \in Nat \ {0}, NEW a \in Nat, NEW b \in Nat, a < b, b - a < M
    PROVE  a % M # b % M
<1> DEFINE p == a \div M  q == b \div M
<1>1. /\ p \in Int /\ q \in Int /\ a % M \in Int /\ b % M \in Int
      /\ a = M * p + (a % M) /\ b = M * q + (b % M)
      /\ 0 <= a % M /\ a % M < M /\ 0 <= b % M /\ b % M < M
  OBVIOUS
<1> HIDE DEF p, q
<1>2. SUFFICES ASSUME a % M = b % M PROVE FALSE
  BY Zenon
<1>3. b - a = M * (q - p)
  BY <1>1, <1>2
<1>4. q - p \in Int /\ M * (q - p) > 0 /\ M * (q - p) < M
  BY <1>1, <1>3
<1>5. q - p >= 1 => M * (q - p) >= M
  BY <1>1
<1>6. q - p <= 0 => M * (q - p) <= 0
  BY <1>1
<1> QED  BY <1>1, <1>4, <1>5, <1>6

(* Lowering a number by a multiple of the ring's size keeps its entry.     *)
LEMMA RingLowered ==
    ASSUME NEW M \in Nat \ {0}, NEW d \in Nat, d % M = 0, NEW a \in Nat, d <= a
    PROVE  (a - d) % M = a % M
<1> DEFINE p == a \div M  q == d \div M  r == (a - d) \div M
<1>1. /\ p \in Int /\ q \in Int /\ r \in Int /\ a % M \in Int /\ (a - d) % M \in Int
      /\ a = M * p + (a % M) /\ d = M * q + (d % M) /\ a - d = M * r + ((a - d) % M)
      /\ 0 <= a % M /\ a % M < M /\ 0 <= (a - d) % M /\ (a - d) % M < M
  OBVIOUS
<1> DEFINE e == p - q - r  x == a % M  y == (a - d) % M
<1>a. x \in 0 .. M - 1 /\ y \in 0 .. M - 1 /\ a = M * p + x /\ d = M * q /\ a - d = M * r + y
  BY <1>1
<1> HIDE DEF p, q, r, x, y
<1>b. e \in Int
  BY <1>1
<1>c. M * (p - q - r) = M * p - M * q - M * r
  BY <1>1
<1>2. M * e = y - x /\ e \in Int /\ x \in 0 .. M - 1 /\ y \in 0 .. M - 1
  <2>1. M * p \in Int /\ M * q \in Int /\ M * r \in Int
    BY <1>1
  <2> QED  BY <1>a, <1>b, <1>c, <2>1
<1> HIDE DEF e
<1>3. e >= 1 => M * e >= M
  BY <1>2
<1>4. e <= -1 => M * e <= -M
  BY <1>2
<1>5. e = 0
  BY <1>2, <1>3, <1>4
<1>6. x = y
  BY <1>2, <1>5
<1> QED  BY <1>6, Zenon DEF x, y

-----------------------------------------------------------------------------
(* The steps that change neither shared memory nor what is read from it.   *)

(* All locals but the flag and the target of the catchup signal.           *)
SameWork(t) ==
    /\ my'[t].n = my[t].n /\ my'[t].nthistime = my[t].nthistime /\ my'[t].i = my[t].i
    /\ my'[t].max = my[t].max /\ my'[t].messages = my[t].messages
    /\ my'[t].frames = my[t].frames /\ my'[t].nummsgs = my[t].nummsgs

(* A step that leaves the queue and the entries of the backends alone, by  *)
(* a process that is neither publishing nor reading, keeps the invariant   *)
(* when it keeps its own part of the control invariant.                    *)
LEMMA LocalStep ==
    ASSUME IInv, NEW s \in Slots,
           UNCHANGED <<seg, procState, announced, SInvalReadLock>>,
           my' \in [Slots -> MyType], pc' \in [Slots -> PcValues],
           \A t \in Slots : t # s => pc'[t] = pc[t] /\ SameWork(t),
           pc[s] \notin {"publish", "kick", "max", "read"},
           pc'[s] \notin {"publish", "kick", "max", "read"},
           SInvalWriteLock' \in 0 .. MaxBackends,
           \A t \in Slots : t # s /\ SInvalWriteLock = t => SInvalWriteLock' = t,
           Control(s)'
    PROVE  IInv'
<1> USE DEF seg
<1>1. Types'
  BY Zenon DEF IInv, Types, TypeOK
<1>2. \A t \in Slots : Receiver(t)' <=> Receiver(t)
  BY Zenon DEF Receiver
<1>3. \A t \in Slots : Control(t)'
  <2> SUFFICES ASSUME NEW t \in Slots, t # s PROVE Control(t)'
    BY Zenon
  <2>1. Control(t) /\ pc'[t] = pc[t] /\ SameWork(t)
    BY Zenon DEF IInv
  <2>2. SInvalWriteLock = t => SInvalWriteLock' = t
    BY Zenon
  <2> QED  BY <1>2, <2>1, <2>2 DEF Control, SameWork
<1>4. QueueSound'
  BY <1>2, Zenon DEF IInv, QueueSound
<1>5. \A t \in Slots : Filled(t)' /\ Position(t)'
  <2> SUFFICES ASSUME NEW t \in Slots PROVE Filled(t)' /\ Position(t)'
    BY Zenon
  <2>1. Filled(t) /\ Position(t)
    BY Zenon DEF IInv
  <2>2. CASE t = s
    BY <1>2, <2>1, <2>2, Zenon DEF Filled, Position
  <2>3. CASE t # s
    BY <1>2, <2>1, <2>3, Zenon DEF Filled, Position, SameWork
  <2> QED  BY <2>2, <2>3, Zenon
<1>6. \A t \in Slots : \A u : WillSee(t, u) => WillSee(t, u)'
  <2> SUFFICES ASSUME NEW t \in Slots, NEW u, WillSee(t, u) PROVE WillSee(t, u)'
    BY Zenon
  <2>1. CASE t = s
    BY <2>1, Zenon DEF WillSee
  <2>2. CASE t # s
    BY <2>2, Zenon DEF WillSee, SameWork
  <2> QED  BY <2>1, <2>2, Zenon
<1>7. NoLostWakeup'
  BY <1>2, <1>6, Zenon DEF IInv, NoLostWakeup, WillSee
<1>8. \A t \in Slots : Told(t)'
  <2> SUFFICES ASSUME NEW t \in Slots, pc'[t] = "kick" PROVE Told(t)'
    BY Zenon DEF Told
  <2>1. t # s /\ pc[t] = "kick" /\ my'[t].i = my[t].i /\ Told(t)
    BY Zenon DEF IInv, SameWork
  <2> QED  BY <1>2, <1>6, <2>1, Zenon DEF Told
<1>9. Announced'
  BY Zenon DEF IInv, Announced
<1> QED  BY <1>1, <1>3, <1>4, <1>5, <1>7, <1>8, <1>9, Zenon DEF IInv

(* Only s moved, and only the locals of s changed, to v.                   *)
LEMMA OwnStep ==
    ASSUME IInv, NEW s \in Slots, NEW v \in MyType, NEW l \in PcValues,
           UNCHANGED <<seg, procState, announced, SInvalReadLock>>,
           my' = [my EXCEPT ![s] = v], pc' = [pc EXCEPT ![s] = l],
           pc[s] \notin {"publish", "kick", "max", "read"},
           l \notin {"publish", "kick", "max", "read"},
           SInvalWriteLock' \in 0 .. MaxBackends,
           \A t \in Slots : t # s /\ SInvalWriteLock = t => SInvalWriteLock' = t,
           Control(s)'
    PROVE  IInv'
<1>1. my \in [Slots -> MyType] /\ pc \in [Slots -> PcValues]
  BY Zenon DEF IInv, Types, TypeOK
<1>2. my' \in [Slots -> MyType] /\ pc' \in [Slots -> PcValues] /\ pc'[s] = l
  BY <1>1, Zenon
<1>3. \A t \in Slots : t # s => pc'[t] = pc[t] /\ SameWork(t)
  BY <1>1, Zenon DEF SameWork
<1> QED  BY <1>2, <1>3, LocalStep, Zenon

(* The parts of the invariant about one process, for the steps below.      *)
LEMMA OfProcess ==
    ASSUME IInv, NEW s \in Slots
    PROVE  /\ my \in [Slots -> MyType] /\ my[s] \in MyType
           /\ pc \in [Slots -> PcValues] /\ pc[s] \in PcValues
           /\ Control(s) /\ s \in Nat \ {0} /\ s \in 0 .. MaxBackends
           /\ SInvalWriteLock \in 0 .. MaxBackends
           /\ announced \in Nat /\ base \in Nat /\ minMsgNum \in Nat /\ maxMsgNum \in Nat
<1>1. MaxBackends \in Nat
  BY SInvalAssumption, Zenon
<1> QED  BY <1>1 DEF IInv, Types, TypeOK, Slots

(* SendSharedInvalidMessages begins: nothing shared changes.               *)
LEMMA SendStep ==
    ASSUME IInv, NEW s \in Slots, SendSharedInvalidMessages(s)
    PROVE  IInv'
<1> USE OfProcess DEF SendSharedInvalidMessages, Goto
<1>1. PICK n \in Batches : my' = [my EXCEPT ![s].n = n]
  BY Zenon
<1> DEFINE v == [my[s] EXCEPT !.n = n]
<1>2. n \in Nat /\ n > 0
  BY SInvalAssumption
<1>3. v \in MyType /\ my' = [my EXCEPT ![s] = v]
  BY <1>1, <1>2, ZenonT(40) DEF MyType
<1>4. my'[s] = v /\ pc'[s] = "insert" /\ (Receiver(s)' <=> Receiver(s))
  BY <1>3, Zenon DEF Receiver
<1>5. /\ v.n = n /\ v.nthistime = my[s].nthistime /\ v.i = my[s].i
      /\ v.messages = my[s].messages /\ v.frames = my[s].frames /\ v.nummsgs = my[s].nummsgs
  BY Zenon DEF MyType
<1> HIDE DEF v
<1>6. Control(s)'
  BY <1>2, <1>4, <1>5, Zenon DEF Control, seg, locks, Writing, Reading, Resume
<1> QED  BY <1>3, <1>4, <1>6, OwnStep, Zenon DEF locks, PcValues

(* A receive begins: only the frames of the backend change.                *)
LEMMA AcceptStep ==
    ASSUME IInv, NEW s \in Slots, AcceptInvalidationMessages(s)
    PROVE  IInv'
<1> USE OfProcess DEF AcceptInvalidationMessages, Goto
<1> DEFINE f == <<[at |-> "drain", goal |-> announced]>>
           v == [my[s] EXCEPT !.frames = f]
<1>1. f \in Seq([at : Resume, goal : Nat]) /\ f # <<>>
  BY DEF Resume
<1> HIDE DEF f
<1>2. v \in MyType /\ my' = [my EXCEPT ![s] = v]
  BY <1>1, Zenon DEF MyType, f
<1>3. my'[s] = v /\ pc'[s] = "drain" /\ (Receiver(s)' <=> Receiver(s))
  BY <1>2, Zenon DEF Receiver
<1>4. /\ v.n = my[s].n /\ v.nthistime = my[s].nthistime /\ v.i = my[s].i
      /\ v.messages = my[s].messages /\ v.frames = f /\ v.nummsgs = my[s].nummsgs
  BY Zenon DEF MyType
<1> HIDE DEF v
<1>5. Receiver(s)
  BY Zenon DEF Receiver, Control
<1>6. Control(s)'
  BY <1>1, <1>3, <1>4, <1>5, Zenon DEF Control, seg, locks, Writing, Reading, Resume
<1> QED  BY <1>2, <1>3, <1>6, OwnStep, Zenon DEF locks, PcValues

(* A sender takes SInvalWriteLock for its next chunk.                      *)
LEMMA InsertChunkStep ==
    ASSUME IInv, NEW s \in Slots, InsertChunk(s)
    PROVE  IInv'
<1> USE OfProcess DEF InsertChunk, Goto
<1> DEFINE k == Min({my[s].n, WRITE_QUANTUM})
           v == [my[s] EXCEPT !.n = @ - k, !.nthistime = k]
<1>1. my[s].n \in Nat /\ WRITE_QUANTUM \in Nat \ {0} /\ my[s].n > 0
  BY SInvalAssumption, Zenon DEF MyType, Control
<1>a. k = IF my[s].n <= WRITE_QUANTUM THEN my[s].n ELSE WRITE_QUANTUM
  <2>1. my[s].n \in Int /\ WRITE_QUANTUM \in Int
    BY <1>1
  <2> QED  BY <2>1, MinPair, Zenon
<1>2. k \in 1 .. WRITE_QUANTUM /\ k \in Nat /\ my[s].n - k \in Nat
  <2> HIDE DEF k
  <2> QED  BY <1>1, <1>a
<1>3. my' = [my EXCEPT ![s] = v]
  BY Zenon
<1> HIDE DEF k
<1>4. v \in MyType
  <2>1. \A x \in MyType, a, b \in Nat : [x EXCEPT !.n = a, !.nthistime = b] \in MyType
    BY Zenon DEF MyType
  <2> QED  BY <1>2, <2>1, Zenon
<1>5. my'[s] = v /\ pc'[s] = "space" /\ (Receiver(s)' <=> Receiver(s)) /\ SInvalWriteLock' = s
  BY <1>3, Zenon DEF Receiver
<1>6. /\ v.nthistime = k /\ v.i = my[s].i /\ v.nummsgs = my[s].nummsgs
      /\ v.messages = my[s].messages /\ v.frames = my[s].frames
  BY Zenon DEF MyType
<1> HIDE DEF v
<1>7. Control(s)'
  BY <1>2, <1>5, <1>6, Zenon DEF Control, seg, Writing, Reading, Resume
<1>8. \A t \in Slots : SInvalWriteLock # t
  BY Zenon DEF Slots
<1> QED  BY <1>3, <1>4, <1>5, <1>7, <1>8, OwnStep, Zenon DEF PcValues

(* A callback leaves the process in one of the loops of                    *)
(* ReceiveSharedInvalidMessages, in the call that made it or a nested one. *)
LEMMA CallbackLocals ==
    ASSUME IInv, NEW s \in Slots, NEW v \in MyType, v.frames # <<>>, NEW l \in Resume,
           Callback(s, l, v)
    PROVE  \E w \in MyType, r \in Resume :
              /\ my' = [my EXCEPT ![s] = w] /\ pc' = [pc EXCEPT ![s] = r]
              /\ w.frames # <<>> /\ w.n = v.n /\ w.nthistime = v.nthistime /\ w.i = v.i
              /\ w.max = v.max /\ w.messages = v.messages /\ w.nummsgs = v.nummsgs
<1>1. CASE my' = [my EXCEPT ![s] = v] /\ Goto(s, l)
  BY <1>1, Zenon DEF Goto
<1>2. CASE ~(my' = [my EXCEPT ![s] = v] /\ Goto(s, l))
  <2> DEFINE F == [at : Resume, goal : Nat]
             f == <<[at |-> "drain", goal |-> announced]>> \o
                  <<[Head(v.frames) EXCEPT !.at = l]>> \o Tail(v.frames)
             w == [v EXCEPT !.frames = f]
  <2>1. my' = [my EXCEPT ![s] = w] /\ pc' = [pc EXCEPT ![s] = "drain"]
    BY <1>2, Zenon DEF Callback, Goto
  <2>2. v.frames \in Seq(F) /\ announced \in Nat
    BY OfProcess, Zenon DEF MyType
  <2>3. Head(v.frames) \in F /\ Tail(v.frames) \in Seq(F)
    <3> HIDE DEF F
    <3> QED  BY <2>2
  <2>4. [Head(v.frames) EXCEPT !.at = l] \in F /\ [at |-> "drain", goal |-> announced] \in F
    BY <2>2, <2>3, Zenon DEF Resume
  <2>5. f \in Seq(F) /\ f # <<>>
    <3> DEFINE a == [at |-> "drain", goal |-> announced]
               b == [Head(v.frames) EXCEPT !.at = l]
               c == Tail(v.frames)
    <3>1. a \in F /\ b \in F /\ c \in Seq(F)
      BY <2>3, <2>4, Zenon
    <3> HIDE DEF F, a, b, c
    <3>2. <<a>> \o <<b>> \o c \in Seq(F) /\ Len(<<a>> \o <<b>> \o c) >= 1
      BY <3>1
    <3>3. <<a>> \o <<b>> \o c # <<>>
      BY <3>2
    <3> QED  BY <3>2, <3>3, Zenon DEF a, b, c
  <2> HIDE DEF f
  <2>6. w \in MyType
    BY <2>5, Zenon DEF MyType
  <2>7. /\ w.frames = f /\ w.n = v.n /\ w.nthistime = v.nthistime /\ w.i = v.i
        /\ w.max = v.max /\ w.messages = v.messages /\ w.nummsgs = v.nummsgs
    BY Zenon DEF MyType
  <2> HIDE DEF w
  <2> QED  BY <2>1, <2>5, <2>6, <2>7, Zenon DEF Resume
<1> QED  BY <1>1, <1>2, Zenon


(* A callback takes a message from the buffer, and may receive again.      *)
LEMMA InvalFunctionStep ==
    ASSUME IInv, NEW s \in Slots, InvalFunction(s)
    PROVE  IInv'
<1> DEFINE msg == my[s].messages[my[s].nextmsg + 1]
           v == [my[s] EXCEPT !.nextmsg = @ + 1, !.processed = msg + 1]
<1>1. /\ my[s] \in MyType /\ Control(s) /\ pc[s] \in {"drain", "process"}
      /\ my[s].nextmsg < my[s].nummsgs /\ Callback(s, pc[s], v)
      /\ UNCHANGED <<seg, procState, locks, announced>>
  <2>1. my[s].nextmsg \in Nat /\ my[s].nummsgs \in Nat
    BY OfProcess, Zenon DEF MyType
  <2> QED  BY <2>1, OfProcess DEF InvalFunction, Exhausted
<1>2. msg \in Int
  BY <1>1 DEF Control, MyType
<1> HIDE DEF msg
<1>3. v \in MyType
  <2>1. \A x \in MyType, a \in Nat, b \in Int : [x EXCEPT !.nextmsg = a, !.processed = b] \in MyType
    BY Zenon DEF MyType
  <2>2. my[s].nextmsg + 1 \in Nat /\ msg + 1 \in Int
    BY <1>1, <1>2 DEF MyType
  <2> QED  BY <1>1, <2>1, <2>2, Zenon
<1>4. /\ v.nthistime = my[s].nthistime /\ v.i = my[s].i /\ v.messages = my[s].messages
      /\ v.frames = my[s].frames /\ v.nummsgs = my[s].nummsgs
  BY <1>1, Zenon DEF MyType
<1> HIDE DEF v
<1>5. v.frames # <<>> /\ pc[s] \in Resume
  BY <1>1, <1>4, Zenon DEF Control, Reading, Resume
<1>6. PICK w \in MyType, r \in Resume :
              /\ my' = [my EXCEPT ![s] = w] /\ pc' = [pc EXCEPT ![s] = r]
              /\ w.frames # <<>> /\ w.n = v.n /\ w.nthistime = v.nthistime /\ w.i = v.i
              /\ w.max = v.max /\ w.messages = v.messages /\ w.nummsgs = v.nummsgs
  BY <1>1, <1>3, <1>5, CallbackLocals, Zenon
<1>7. my'[s] = w /\ pc'[s] = r /\ (Receiver(s)' <=> Receiver(s))
  BY <1>1, <1>6, OfProcess, Zenon DEF Receiver
<1>8. Control(s)'
  BY <1>1, <1>4, <1>6, <1>7, Zenon DEF Control, seg, locks, Writing, Reading, Resume
<1>9. r \in PcValues /\ r \notin {"publish", "kick", "max", "read"}
  BY Zenon DEF PcValues, Resume
<1> QED  BY <1>1, <1>6, <1>8, <1>9, OfProcess, OwnStep, Zenon DEF locks

(* The test of hasMessages without a lock ends the read.                   *)
LEMMA NothingToReadStep ==
    ASSUME IInv, NEW s \in Slots, NothingToRead(s)
    PROVE  IInv'
<1> DEFINE v == [my[s] EXCEPT !.nextmsg = 0, !.nummsgs = 0]
<1>1. /\ my[s] \in MyType /\ my \in [Slots -> MyType] /\ pc \in [Slots -> PcValues]
      /\ Control(s) /\ pc[s] \in {"drain", "process"}
      /\ pc' = [pc EXCEPT ![s] = "caughtup"]
      /\ UNCHANGED <<seg, procState, locks, announced>>
  BY OfProcess, Zenon DEF NothingToRead, WantsMore, Goto
<1>2. my' = [my EXCEPT ![s] = v]
  BY <1>1, Zenon DEF NothingToRead
<1>3. v \in MyType
  BY <1>1, Zenon DEF MyType
<1>4. /\ v.nthistime = my[s].nthistime /\ v.i = my[s].i /\ v.messages = my[s].messages
      /\ v.frames = my[s].frames /\ v.nummsgs = 0 /\ v.messages \in Seq(Int)
  BY <1>1, Zenon DEF MyType
<1> HIDE DEF v
<1>5. my'[s] = v /\ pc'[s] = "caughtup" /\ (Receiver(s)' <=> Receiver(s))
  BY <1>1, <1>2, Zenon DEF Receiver
<1>6. Control(s)'
  BY <1>1, <1>4, <1>5 DEF Control, seg, locks, Writing, Reading, Resume
<1> QED  BY <1>1, <1>2, <1>3, <1>6, OfProcess, OwnStep, Zenon DEF locks, PcValues

(* The innermost receive call returns to the call below it, or to the      *)
(* idle loop.                                                              *)
LEMMA ReturnLocals ==
    ASSUME IInv, NEW s \in Slots, my[s].frames # <<>>
    PROVE  /\ Returned(s) \in MyType
           /\ ReturnTo(s) \in Resume \cup {"idle"}
           /\ ReturnTo(s) # "idle" => Returned(s).frames # <<>>
           /\ Returned(s).nthistime = my[s].nthistime /\ Returned(s).i = my[s].i
           /\ Returned(s).messages = my[s].messages /\ Returned(s).nummsgs = my[s].nummsgs
           /\ Returned(s).n = my[s].n /\ Returned(s).max = my[s].max
<1> DEFINE F == [at : Resume, goal : Nat]
           f == my[s].frames
<1>1. my[s] \in MyType /\ f \in Seq(F) /\ f # <<>> /\ 0 \in 0 .. MaxBackends
  <2>1. MaxBackends \in Nat /\ my[s] \in MyType
    BY OfProcess, SInvalAssumption, Zenon
  <2>2. f \in Seq(F)
    BY <2>1, Zenon DEF MyType
  <2> QED  BY <2>1, <2>2
<1>2. /\ Tail(f) \in Seq(F) /\ Len(f) \in Nat \ {0}
      /\ Len(f) # 1 => f[2] \in F /\ Tail(f) # <<>>
  <2> HIDE DEF F, f
  <2>1. Tail(f) \in Seq(F) /\ Len(f) \in Nat \ {0} /\ Len(Tail(f)) = Len(f) - 1
    BY <1>1
  <2>2. Len(f) # 1 => f[2] \in F
    BY <1>1, <2>1
  <2>3. Len(f) # 1 => Tail(f) # <<>>
    <3>1. Len(f) # 1 => Len(Tail(f)) # 0
      BY <2>1
    <3> QED  BY <3>1, Zenon
  <2> QED  BY <2>1, <2>2, <2>3, Zenon
<1>3. ReturnTo(s) \in Resume \cup {"idle"} /\ (ReturnTo(s) # "idle" => Tail(f) # <<>>)
  BY <1>2, Zenon DEF ReturnTo
<1>4. Returned(s) = [my[s] EXCEPT !.frames = Tail(f), !.needSig = 0]
  BY Zenon DEF Returned
<1> DEFINE r == Tail(f)  v == [my[s] EXCEPT !.frames = r, !.needSig = 0]
<1>5. r \in Seq(F) /\ (ReturnTo(s) # "idle" => r # <<>>)
  BY <1>2, <1>3, Zenon
<1> HIDE DEF f, r
<1>6. /\ v \in MyType /\ v.frames = r /\ v.nthistime = my[s].nthistime /\ v.i = my[s].i
      /\ v.messages = my[s].messages /\ v.nummsgs = my[s].nummsgs
      /\ v.n = my[s].n /\ v.max = my[s].max
  <2>1. [my[s] EXCEPT !.frames = r] \in MyType
    BY <1>1, <1>5, Zenon DEF MyType
  <2>2. v = [[my[s] EXCEPT !.frames = r] EXCEPT !.needSig = 0]
    BY Zenon
  <2>3. v \in MyType
    BY <1>1, <2>1, <2>2, Zenon DEF MyType
  <2> QED  BY <1>1, <2>3, Zenon DEF MyType
<1>7. Returned(s) = v
  BY <1>4, Zenon DEF r
<1> HIDE DEF v
<1> QED  BY <1>3, <1>5, <1>6, <1>7, Zenon

(* A receive returns to its caller.                                        *)
LEMMA CaughtUpStep ==
    ASSUME IInv, NEW s \in Slots, CaughtUp(s)
    PROVE  IInv'
<1> DEFINE v == Returned(s)  l == ReturnTo(s)
<1>1. /\ my \in [Slots -> MyType] /\ pc \in [Slots -> PcValues] /\ Control(s)
      /\ pc[s] \in {"process", "caughtup"}
      /\ my' = [my EXCEPT ![s] = v] /\ pc' = [pc EXCEPT ![s] = l]
      /\ UNCHANGED <<seg, procState, locks, announced>>
  BY OfProcess, Zenon DEF CaughtUp, AtEnd, Goto
<1>2. my[s].frames # <<>> /\ my[s].nthistime = 0 /\ Receiver(s)
  BY <1>1, Zenon DEF Control, Reading, Resume
<1>3. /\ v \in MyType /\ l \in Resume \cup {"idle"} /\ (l # "idle" => v.frames # <<>>)
      /\ v.nthistime = my[s].nthistime /\ v.i = my[s].i
      /\ v.messages = my[s].messages /\ v.nummsgs = my[s].nummsgs
  BY <1>2, ReturnLocals, Zenon
<1> HIDE DEF v, l
<1>4. my'[s] = v /\ pc'[s] = l /\ (Receiver(s)' <=> Receiver(s))
  BY <1>1, Zenon DEF Receiver
<1>5. Control(s)'
  BY <1>1, <1>2, <1>3, <1>4, Zenon DEF Control, seg, locks, Writing, Reading, Resume
<1>6. l \in PcValues /\ l \notin {"publish", "kick", "max", "read"}
  BY <1>3, Zenon DEF PcValues, Resume
<1> QED  BY <1>1, <1>3, <1>5, <1>6, OfProcess, OwnStep, Zenon DEF locks

(* A backend that was signalled is to clean up the queue.                  *)
LEMMA PassItOnStep ==
    ASSUME IInv, NEW s \in Slots, PassItOn(s)
    PROVE  IInv'
<1> DEFINE v == [my[s] EXCEPT !.catchupInterruptPending = FALSE]
<1>1. /\ my[s] \in MyType /\ my \in [Slots -> MyType] /\ pc \in [Slots -> PcValues]
      /\ Control(s) /\ pc[s] \in {"process", "caughtup"}
      /\ pc' = [pc EXCEPT ![s] = "wlock"]
      /\ UNCHANGED <<seg, procState, locks, announced>>
  BY OfProcess, Zenon DEF PassItOn, AtEnd, Goto
<1>2. my' = [my EXCEPT ![s] = v]
  BY <1>1, Zenon DEF PassItOn
<1>3. v \in MyType
  BY <1>1, Zenon DEF MyType
<1>4. /\ v.nthistime = my[s].nthistime /\ v.i = my[s].i /\ v.messages = my[s].messages
      /\ v.frames = my[s].frames /\ v.nummsgs = my[s].nummsgs
  BY <1>1, Zenon DEF MyType
<1> HIDE DEF v
<1>5. my'[s] = v /\ pc'[s] = "wlock" /\ (Receiver(s)' <=> Receiver(s))
  BY <1>1, <1>2, Zenon DEF Receiver
<1>6. Control(s)'
  BY <1>1, <1>4, <1>5, Zenon DEF Control, seg, locks, Writing, Reading, Resume
<1> QED  BY <1>1, <1>2, <1>3, <1>6, OfProcess, OwnStep, Zenon DEF locks, PcValues

(* SInvalWriteLock is taken for a cleanup, or again after the signal.      *)
LEMMA TakeWriteLockStep ==
    ASSUME IInv, NEW s \in Slots, TakeWriteLock(s)
    PROVE  IInv'
<1> DEFINE l == IF pc[s] = "wlock" THEN "clean" ELSE "space"
<1>1. /\ my \in [Slots -> MyType] /\ my[s] \in MyType /\ pc \in [Slots -> PcValues]
      /\ Control(s) /\ pc[s] \in {"wlock", "relock"} /\ s \in 0 .. MaxBackends
      /\ SInvalWriteLock = 0 /\ SInvalWriteLock' = s /\ my' = my
      /\ pc' = [pc EXCEPT ![s] = l]
      /\ UNCHANGED <<seg, procState, SInvalReadLock, announced>>
  BY OfProcess, Zenon DEF TakeWriteLock, Goto
<1>2. my' = [my EXCEPT ![s] = my[s]]
  BY <1>1, Zenon
<1>3. pc'[s] = l /\ (Receiver(s)' <=> Receiver(s))
  BY <1>1, Zenon DEF Receiver
<1>4. Control(s)'
  BY <1>1, <1>3, Zenon DEF Control, seg, Writing, Reading, Resume
<1>5. l \in PcValues /\ l \notin {"publish", "kick", "max", "read"}
  BY Zenon DEF PcValues
<1>6. \A t \in Slots : SInvalWriteLock # t
  BY <1>1 DEF Slots
<1> QED  BY <1>1, <1>2, <1>4, <1>5, <1>6, OwnStep, Zenon

(* The signal is sent with no lock held.                                   *)
LEMMA SendCatchupStep ==
    ASSUME IInv, NEW s \in Slots, SendCatchup(s)
    PROVE  IInv'
<1> DEFINE sending == my[s].nthistime > 0
           v == IF sending THEN [my[s] EXCEPT !.needSig = 0] ELSE Returned(s)
           l == IF sending THEN "relock" ELSE ReturnTo(s)
           told == [my EXCEPT ![s] = v]
           t == my[s].needSig
<1>1. /\ my \in [Slots -> MyType] /\ my[s] \in MyType /\ pc \in [Slots -> PcValues]
      /\ Control(s) /\ pc[s] = "signal" /\ pc' = [pc EXCEPT ![s] = l]
      /\ UNCHANGED <<seg, procState, locks, announced>>
      /\ my[s].nthistime \in Nat
  BY OfProcess, Zenon DEF SendCatchup, Goto, MyType
<1>2. my' = IF t = 0 THEN told ELSE [told EXCEPT ![t].catchupInterruptPending = TRUE]
  BY Zenon DEF SendCatchup
<1>3. ~sending => my[s].frames # <<>> /\ Receiver(s) /\ my[s].nthistime = 0
  BY <1>1 DEF Control
<1>4. /\ v \in MyType /\ v.nthistime = my[s].nthistime /\ v.i = my[s].i
      /\ v.messages = my[s].messages /\ v.nummsgs = my[s].nummsgs
      /\ ~sending /\ l # "idle" => v.frames # <<>>
  <2>1. CASE sending
    <3>1. 0 \in 0 .. MaxBackends
      BY SInvalAssumption
    <3> QED  BY <1>1, <2>1, <3>1, Zenon DEF MyType
  <2>2. CASE ~sending
    BY <1>3, <2>2, ReturnLocals, Zenon
  <2> QED  BY <2>1, <2>2, Zenon
<1>5. (sending => l = "relock") /\ (~sending => l \in Resume \cup {"idle"})
  BY <1>3, ReturnLocals, Zenon
<1>6. l \in PcValues /\ l \notin {"publish", "kick", "max", "read"}
  BY <1>5, Zenon DEF PcValues, Resume
<1>7. t \in 0 .. MaxBackends /\ (t # 0 => t \in Slots)
  <2>1. t \in 0 .. MaxBackends
    BY <1>1, Zenon DEF MyType
  <2> HIDE DEF t
  <2> QED  BY <2>1, SInvalAssumption DEF Slots
<1> HIDE DEF v, l, t
<1>8. told \in [Slots -> MyType] /\ told[s] = v /\ \A u \in Slots : u # s => told[u] = my[u]
  BY <1>1, <1>4, Zenon
<1> HIDE DEF told
<1>9. /\ my' \in [Slots -> MyType]
      /\ \A u \in Slots : /\ my'[u].n = told[u].n /\ my'[u].nthistime = told[u].nthistime
                          /\ my'[u].i = told[u].i /\ my'[u].max = told[u].max
                          /\ my'[u].messages = told[u].messages /\ my'[u].frames = told[u].frames
                          /\ my'[u].nummsgs = told[u].nummsgs
  <2>1. CASE t = 0
    BY <1>2, <1>8, <2>1, Zenon
  <2>2. CASE t # 0
    <3> DEFINE w == [told[t] EXCEPT !.catchupInterruptPending = TRUE]
    <3>1. told[t] \in MyType /\ my' = [told EXCEPT ![t] = w]
      BY <1>2, <1>7, <1>8, <2>2, Zenon
    <3>2. /\ w \in MyType /\ w.n = told[t].n /\ w.nthistime = told[t].nthistime
          /\ w.i = told[t].i /\ w.max = told[t].max /\ w.messages = told[t].messages
          /\ w.frames = told[t].frames /\ w.nummsgs = told[t].nummsgs
      BY <3>1, Zenon DEF MyType
    <3> HIDE DEF w
    <3> QED  BY <1>7, <1>8, <2>2, <3>1, <3>2, Zenon
  <2> QED  BY <2>1, <2>2, Zenon
<1>10. \A u \in Slots : u # s => pc'[u] = pc[u] /\ SameWork(u)
  BY <1>1, <1>8, <1>9 DEF SameWork
<1>11. /\ pc'[s] = l /\ (Receiver(s)' <=> Receiver(s)) /\ pc' \in [Slots -> PcValues]
       /\ my'[s].nthistime = v.nthistime /\ my'[s].i = v.i /\ my'[s].messages = v.messages
       /\ my'[s].frames = v.frames /\ my'[s].nummsgs = v.nummsgs
  BY <1>1, <1>6, <1>8, <1>9, Zenon DEF Receiver
<1>12. Control(s)'
  <2>1. CASE sending
    BY <1>1, <1>4, <1>5, <1>11, <2>1 DEF Control, seg, locks, Writing, Reading, Resume
  <2>2. CASE ~sending
    BY <1>1, <1>3, <1>4, <1>5, <1>11, <2>2, Zenon DEF Control, seg, locks, Writing, Reading, Resume
  <2> QED  BY <2>1, <2>2, Zenon
<1> QED  BY <1>1, <1>6, <1>9, <1>10, <1>11, <1>12, OfProcess, LocalStep, Zenon DEF locks

-----------------------------------------------------------------------------
(* The steps of a writer, which holds SInvalWriteLock.                     *)

(* Only the holder of SInvalWriteLock is at one of these places.           *)
LEMMA OneWriter ==
    ASSUME IInv, NEW s \in Slots, SInvalWriteLock = s
    PROVE  \A t \in Slots : t # s => pc[t] \notin {"space", "publish", "kick", "clean"}
  BY Zenon DEF IInv, Control

(* With SInvalWriteLock free nobody is.                                    *)
LEMMA NoWriter ==
    ASSUME IInv, SInvalWriteLock = 0
    PROVE  \A t \in Slots : pc[t] \notin {"space", "publish", "kick", "clean"}
<1>1. \A t \in Slots : t # 0
  BY DEF Slots
<1> QED  BY <1>1, Zenon DEF IInv, Control

(* Constants of the ring.                                                  *)
LEMMA RingConstants ==
    /\ MAXNUMMESSAGES \in Nat \ {0} /\ WRITE_QUANTUM \in Nat \ {0} /\ MaxBackends \in Nat \ {0}
    /\ WRITE_QUANTUM <= MAXNUMMESSAGES
    /\ MSGNUMWRAPAROUND \in Nat \ {0} /\ MSGNUMWRAPAROUND % MAXNUMMESSAGES = 0
  BY SInvalAssumption, Zenon

(* A message is stored in a slot of the ring that no reader needs.         *)
LEMMA FillStep ==
    ASSUME IInv, NEW s \in Slots, Fill(s)
    PROVE  IInv'
<1> DEFINE M == MAXNUMMESSAGES
           nth == my[s].nthistime
           New(k) == {m \in maxMsgNum .. maxMsgNum + nth - 1 : m % M = k}
<1>1. /\ pc \in [Slots -> PcValues] /\ pc[s] = "space" /\ Control(s) /\ SInvalWriteLock = s
      /\ my[s] \in MyType /\ nth \in 1 .. WRITE_QUANTUM
      /\ minMsgNum \in Nat /\ maxMsgNum \in Nat /\ base \in Nat
      /\ pc' = [pc EXCEPT ![s] = "publish"] /\ ~MustClean(s)
      /\ UNCHANGED <<minMsgNum, maxMsgNum, nextThreshold, lastBackend, base,
                     procState, locks, my, announced>>
  BY OfProcess, Zenon DEF Fill, Goto, Control, Writing
<1>2. buffer' = [k \in DOMAIN buffer |-> IF New(k) = {} THEN buffer[k] ELSE base + Max(New(k))]
  BY Zenon DEF Fill
<1>3. M \in Nat \ {0} /\ nth \in Nat /\ nth <= M /\ nth >= 1
  BY <1>1, RingConstants
<1>4. buffer \in [0 .. M - 1 -> Int] /\ minMsgNum <= maxMsgNum
  BY Zenon DEF IInv, Types, TypeOK, QueueSound
<1>5. maxMsgNum - minMsgNum + nth <= M
  BY <1>1, <1>3 DEF MustClean
<1> HIDE DEF M, nth
<1>6. \A m \in Nat : m % M \in 0 .. M - 1
  BY <1>3
<1>7. \A m \in maxMsgNum .. maxMsgNum + nth - 1 : New(m % M) = {m}
  <2> SUFFICES ASSUME NEW m \in maxMsgNum .. maxMsgNum + nth - 1,
                      NEW x \in maxMsgNum .. maxMsgNum + nth - 1, x # m
               PROVE  x % M # m % M
    BY Zenon
  <2>1. m \in Nat /\ x \in Nat /\ (x < m => m - x < M) /\ (m < x => x - m < M)
    BY <1>1, <1>3
  <2>2. CASE x < m
    BY <1>3, <2>1, <2>2, RingDistinct, Zenon
  <2>3. CASE m < x
    BY <1>3, <2>1, <2>3, RingDistinct, Zenon
  <2> QED  BY <2>1, <2>2, <2>3
<1>8. \A m \in minMsgNum .. maxMsgNum - 1 : New(m % M) = {}
  <2> SUFFICES ASSUME NEW m \in minMsgNum .. maxMsgNum - 1,
                      NEW x \in maxMsgNum .. maxMsgNum + nth - 1
               PROVE  x % M # m % M
    BY Zenon
  <2>1. m \in Nat /\ x \in Nat /\ m < x /\ x - m < M
    BY <1>1, <1>3, <1>5
  <2> QED  BY <1>3, <2>1, RingDistinct, Zenon
<1>9. \A m \in maxMsgNum .. maxMsgNum + nth - 1 : buffer'[m % M] = base + m
  <2> TAKE m \in maxMsgNum .. maxMsgNum + nth - 1
  <2>1. m \in Nat /\ m \in Int /\ m % M \in DOMAIN buffer /\ New(m % M) = {m}
    <3>1. m \in Nat /\ m \in Int
      BY <1>1, <1>3
    <3>2. m % M \in DOMAIN buffer
      BY <1>4, <1>6, <3>1, Zenon
    <3>3. New(m % M) = {m}
      BY <1>7, Zenon
    <3> QED  BY <3>1, <3>2, <3>3, Zenon
  <2>2. Max(New(m % M)) = m /\ New(m % M) # {}
    BY <2>1, MaxSingleton, Zenon
  <2> HIDE DEF New
  <2> QED  BY <1>2, <2>1, <2>2, Zenon
<1>10. \A m \in minMsgNum .. maxMsgNum - 1 : buffer'[m % M] = buffer[m % M]
  <2> TAKE m \in minMsgNum .. maxMsgNum - 1
  <2>1. m \in Nat /\ m % M \in DOMAIN buffer /\ New(m % M) = {}
    <3>1. m \in Nat
      BY <1>1
    <3>2. m % M \in DOMAIN buffer
      BY <1>4, <1>6, <3>1, Zenon
    <3>3. New(m % M) = {}
      BY <1>8, Zenon
    <3> QED  BY <3>1, <3>2, <3>3, Zenon
  <2> HIDE DEF New
  <2> QED  BY <1>2, <2>1, Zenon
<1>11. buffer' \in [0 .. M - 1 -> Int]
  <2>1. \A k \in 0 .. M - 1 : New(k) # {} => Max(New(k)) \in Int
    <3> SUFFICES ASSUME NEW k \in 0 .. M - 1, NEW m \in New(k) PROVE Max(New(k)) \in Int
      BY Zenon
    <3>1. m \in maxMsgNum .. maxMsgNum + nth - 1 /\ New(m % M) = New(k) /\ m \in Int
      BY <1>1, <1>3
    <3>2. New(k) = {m}
      BY <1>7, <3>1, Zenon
    <3> QED  BY <3>1, <3>2, MaxSingleton, Zenon
  <2> HIDE DEF New
  <2>2. \A k \in 0 .. M - 1 : base + Max(New(k)) \in Int \/ New(k) = {}
    BY <1>1, <2>1
  <2> QED  BY <1>2, <1>4, <2>2, Zenon
<1> HIDE DEF New
<1>12. \A t \in Slots : Receiver(t)' <=> Receiver(t)
  BY <1>1, Zenon DEF Receiver
<1>13. Types'
  BY <1>1, <1>11, Zenon DEF IInv, Types, TypeOK, locks, PcValues, M
<1>14. pc'[s] = "publish" /\ \A t \in Slots : t # s => pc'[t] = pc[t]
  BY <1>1, Zenon
<1>15. \A t \in Slots : Control(t)'
  <2> TAKE t \in Slots
  <2>1. Control(t)
    BY Zenon DEF IInv
  <2>2. CASE t = s
    BY <1>1, <1>12, <1>14, <2>1, <2>2, Zenon DEF Control, locks, Writing, Reading, Resume
  <2>3. CASE t # s
    BY <1>1, <1>12, <1>14, <2>1, <2>3, Zenon DEF Control, locks
  <2> QED  BY <2>2, <2>3, Zenon
<1>16. QueueSound'
  <2>1. \A m \in minMsgNum .. maxMsgNum - 1 : buffer'[m % M] = base + m
    BY <1>10, Zenon DEF IInv, QueueSound, M
  <2> QED  BY <1>1, <1>12, <2>1, Zenon DEF IInv, QueueSound, M
<1>17. \A t \in Slots : Filled(t)' /\ Position(t)'
  <2> TAKE t \in Slots
  <2>1. Position(t)'
    <3>1. Position(t)
      BY Zenon DEF IInv
    <3>2. pc'[t] = "read" => pc[t] = "read"
      BY <1>14, Zenon
    <3> QED  BY <1>1, <1>12, <3>1, <3>2, Zenon DEF Position
  <2>2. Filled(t)'
    <3>1. CASE t = s
      BY <1>1, <1>5, <1>9, <3>1, Zenon DEF Filled, M, nth
    <3>2. CASE t # s
      BY <1>1, <1>14, <3>2, OneWriter, Zenon DEF Filled
    <3> QED  BY <3>1, <3>2, Zenon
  <2> QED  BY <2>1, <2>2, Zenon
<1>18. \A t \in Slots : \A u : WillSee(t, u) => WillSee(t, u)'
  BY <1>1, <1>14, Zenon DEF WillSee
<1>19. NoLostWakeup'
  BY <1>1, <1>12, <1>18, Zenon DEF IInv, NoLostWakeup, WillSee
<1>20. \A t \in Slots : Told(t)'
  BY <1>1, <1>14, OneWriter, Zenon DEF Told
<1>21. Announced'
  BY <1>1, <1>14, Zenon DEF IInv, Announced
<1> QED  BY <1>13, <1>15, <1>16, <1>17, <1>19, <1>20, <1>21, Zenon DEF IInv

(* maxMsgNum is raised over the chunk that was stored.                     *)
LEMMA PublishStep ==
    ASSUME IInv, NEW s \in Slots, Publish(s)
    PROVE  IInv'
<1> DEFINE nth == my[s].nthistime
<1>1. /\ pc \in [Slots -> PcValues] /\ pc[s] = "publish" /\ Control(s) /\ SInvalWriteLock = s
      /\ my[s] \in MyType /\ nth \in 1 .. WRITE_QUANTUM /\ my[s].i = 0
      /\ minMsgNum \in Nat /\ maxMsgNum \in Nat /\ base \in Nat /\ announced \in Nat
      /\ pc' = [pc EXCEPT ![s] = "kick"] /\ maxMsgNum' = maxMsgNum + nth
      /\ UNCHANGED <<minMsgNum, nextThreshold, lastBackend, buffer, base,
                     procState, locks, my, announced>>
  BY OfProcess, Zenon DEF Publish, Goto, Control, Writing
<1>2. nth \in Nat /\ nth >= 1 /\ maxMsgNum' \in Nat /\ maxMsgNum' > maxMsgNum
  BY <1>1, RingConstants
<1>3. /\ maxMsgNum - minMsgNum + nth <= MAXNUMMESSAGES
      /\ \A m \in maxMsgNum .. maxMsgNum + nth - 1 : buffer[m % MAXNUMMESSAGES] = base + m
  BY <1>1, Zenon DEF IInv, Filled
<1> HIDE DEF nth
<1>4. \A t \in Slots : Receiver(t)' <=> Receiver(t)
  BY <1>1, Zenon DEF Receiver
<1>5. Types'
  BY <1>1, <1>2, Zenon DEF IInv, Types, TypeOK, locks, PcValues
<1>6. pc'[s] = "kick" /\ \A t \in Slots : t # s => pc'[t] = pc[t]
  BY <1>1, Zenon
<1>7. \A t \in Slots : Control(t)'
  <2> TAKE t \in Slots
  <2>1. Control(t)
    BY Zenon DEF IInv
  <2>2. CASE t = s
    BY <1>1, <1>4, <1>6, <2>1, <2>2, Zenon DEF Control, locks, Writing, Reading, Resume
  <2>3. CASE t # s
    BY <1>1, <1>4, <1>6, <2>1, <2>3, Zenon DEF Control, locks
  <2> QED  BY <2>2, <2>3, Zenon
<1>8. QueueSound'
  <2>1. QueueSound /\ procState \in [Slots -> [procPid : BOOLEAN, nextMsgNum : Int,
                         resetState : BOOLEAN, signaled : BOOLEAN, hasMessages : BOOLEAN,
                         sendOnly : BOOLEAN]]
    BY Zenon DEF IInv, Types, TypeOK
  <2>2. minMsgNum <= maxMsgNum' /\ maxMsgNum' - minMsgNum <= MAXNUMMESSAGES
    BY <1>1, <1>2, <1>3, <2>1 DEF QueueSound
  <2>3. \A m \in minMsgNum .. maxMsgNum' - 1 : buffer[m % MAXNUMMESSAGES] = base + m
    <3> TAKE m \in minMsgNum .. maxMsgNum' - 1
    <3>1. m \in minMsgNum .. maxMsgNum - 1 \/ m \in maxMsgNum .. maxMsgNum + nth - 1
      BY <1>1, <1>2
    <3> QED  BY <1>3, <2>1, <3>1, Zenon DEF QueueSound
  <2>4. \A t \in Slots : Receiver(t) /\ ~procState[t].resetState =>
          minMsgNum <= procState[t].nextMsgNum /\ procState[t].nextMsgNum <= maxMsgNum'
    <3> SUFFICES ASSUME NEW t \in Slots, Receiver(t), ~procState[t].resetState
                 PROVE  minMsgNum <= procState[t].nextMsgNum /\ procState[t].nextMsgNum <= maxMsgNum'
      BY Zenon
    <3>1. procState[t].nextMsgNum \in Int
      BY <2>1, Zenon
    <3>2. minMsgNum <= procState[t].nextMsgNum /\ procState[t].nextMsgNum <= maxMsgNum
      BY <2>1, Zenon DEF QueueSound
    <3> QED  BY <1>1, <1>2, <3>1, <3>2
  <2> QED  BY <1>1, <1>4, <2>2, <2>3, <2>4, Zenon DEF QueueSound
<1>9. \A t \in Slots : Filled(t)' /\ Position(t)'
  <2> TAKE t \in Slots
  <2>1. Position(t) /\ procState[t].nextMsgNum \in Int /\ my[t].max \in Int
    <3>1. my[t].max \in Int
      BY OfProcess DEF MyType
    <3>2. procState[t].nextMsgNum \in Int
      BY Zenon DEF IInv, Types, TypeOK
    <3> QED  BY <3>1, <3>2, Zenon DEF IInv
  <2>2. Position(t)'
    BY <1>1, <1>2, <1>4, <1>6, <2>1 DEF Position
  <2>3. Filled(t)'
    <3>1. pc'[t] # "publish"
      BY <1>1, <1>6, OneWriter, Zenon
    <3> QED  BY <3>1, Zenon DEF Filled
  <2> QED  BY <2>2, <2>3, Zenon
<1>10. \A t \in Slots : \A u : WillSee(t, u) => WillSee(t, u)'
  BY <1>1, <1>6, Zenon DEF WillSee
<1>11. NoLostWakeup'
  BY <1>1, <1>4, <1>10, Zenon DEF IInv, NoLostWakeup, WillSee
<1>12. \A t \in Slots : Told(t)'
  <2> TAKE t \in Slots
  <2>1. CASE t = s
    BY <1>1, <2>1 DEF Told
  <2>2. CASE t # s
    BY <1>1, <1>6, <2>2, OneWriter, Zenon DEF Told
  <2> QED  BY <2>1, <2>2, Zenon
<1>13. Announced'
  BY <1>1, <1>2, <1>6 DEF IInv, Announced
<1> QED  BY <1>5, <1>7, <1>8, <1>9, <1>11, <1>12, <1>13, Zenon DEF IInv

ProcType == [procPid : BOOLEAN, nextMsgNum : Int, resetState : BOOLEAN,
             signaled : BOOLEAN, hasMessages : BOOLEAN, sendOnly : BOOLEAN]

(* The type of the slots, alone.                                           *)
LEMMA OfEntry ==
    ASSUME IInv
    PROVE  procState \in [Slots -> ProcType]
  BY Zenon DEF IInv, Types, TypeOK, ProcType

(* hasMessages is set for one more backend.                                *)
LEMMA KickStep ==
    ASSUME IInv, NEW s \in Slots, Kick(s)
    PROVE  IInv'
<1> DEFINE j == my[s].i + 1
           p == [procState[j] EXCEPT !.hasMessages = TRUE]
           v == [my[s] EXCEPT !.i = j]
<1>1. /\ my \in [Slots -> MyType] /\ my[s] \in MyType /\ pc \in [Slots -> PcValues]
      /\ procState \in [Slots -> ProcType]
      /\ pc[s] = "kick" /\ Control(s) /\ SInvalWriteLock = s
      /\ lastBackend \in 0 .. MaxBackends /\ my[s].i \in Nat /\ my[s].i < lastBackend
      /\ UNCHANGED <<seg, locks, pc, announced>>
  BY OfProcess, OfEntry, Zenon DEF Kick, Control, MyType, IInv, Types, TypeOK
<1>2. procState' = [procState EXCEPT ![j] = p] /\ my' = [my EXCEPT ![s] = v]
  BY <1>1, Zenon DEF Kick
<1>3. j \in Slots /\ j \in Nat
  BY <1>1, RingConstants DEF Slots
<1>4. /\ p \in ProcType /\ p.procPid = procState[j].procPid /\ p.nextMsgNum = procState[j].nextMsgNum
      /\ p.resetState = procState[j].resetState /\ p.sendOnly = procState[j].sendOnly
      /\ p.hasMessages
  BY <1>1, <1>3, Zenon DEF ProcType
<1>5. /\ v \in MyType /\ v.i = j /\ v.n = my[s].n /\ v.nthistime = my[s].nthistime
      /\ v.max = my[s].max /\ v.messages = my[s].messages /\ v.frames = my[s].frames
      /\ v.nummsgs = my[s].nummsgs
  BY <1>1, <1>3, Zenon DEF MyType
<1> HIDE DEF p, v
<1>6. /\ procState' \in [Slots -> ProcType] /\ my' \in [Slots -> MyType]
      /\ \A t \in Slots : /\ procState'[t].procPid = procState[t].procPid
                          /\ procState'[t].nextMsgNum = procState[t].nextMsgNum
                          /\ procState'[t].resetState = procState[t].resetState
                          /\ procState'[t].sendOnly = procState[t].sendOnly
                          /\ procState[t].hasMessages => procState'[t].hasMessages
      /\ procState'[j].hasMessages
  BY <1>1, <1>2, <1>3, <1>4, <1>5, Zenon
<1>7. /\ my'[s].i = j
      /\ \A t \in Slots : /\ my'[t].n = my[t].n /\ my'[t].nthistime = my[t].nthistime
                          /\ my'[t].max = my[t].max /\ my'[t].messages = my[t].messages
                          /\ my'[t].frames = my[t].frames /\ my'[t].nummsgs = my[t].nummsgs
                          /\ t # s => my'[t].i = my[t].i
  BY <1>1, <1>2, <1>5, Zenon
<1> HIDE DEF j
<1>8. \A t \in Slots : Receiver(t)' <=> Receiver(t)
  BY <1>6, Zenon DEF Receiver
<1>9. Types'
  BY <1>1, <1>6, Zenon DEF IInv, Types, TypeOK, seg, locks, ProcType
<1>10. \A t \in Slots : Control(t)'
  <2> TAKE t \in Slots
  <2>1. Control(t)
    BY Zenon DEF IInv
  <2>2. pc[t] # "kick" => my'[t].i = my[t].i
    BY <1>1, <1>7, Zenon
  <2> QED  BY <1>1, <1>6, <1>7, <1>8, <2>1, <2>2, Zenon DEF Control, seg, locks
<1>11. QueueSound'
  BY <1>1, <1>6, <1>8, Zenon DEF IInv, QueueSound, seg
<1>12. \A t \in Slots : Filled(t)' /\ Position(t)'
  BY <1>1, <1>6, <1>7, <1>8 DEF IInv, Filled, Position, seg
<1>13. \A t \in Slots : \A u : WillSee(t, u) => WillSee(t, u)'
  BY <1>1, <1>6, <1>7, Zenon DEF WillSee, seg
<1>14. NoLostWakeup'
  BY <1>1, <1>6, <1>8, <1>13, Zenon DEF IInv, NoLostWakeup, WillSee, seg
<1>15. \A t \in Slots : Told(t)'
  <2> TAKE t \in Slots
  <2>1. CASE t # s
    BY <1>1, <2>1, OneWriter, Zenon DEF Told
  <2>2. CASE t = s
    <3> SUFFICES ASSUME NEW x \in 1 .. j, x \in Slots, Receiver(x)',
                        procState'[x].nextMsgNum < maxMsgNum'
                 PROVE  WillSee(x, base + maxMsgNum)'
      BY <1>1, <1>7, <2>2, Zenon DEF Told, seg
    <3>1. CASE x = j
      BY <1>6, <3>1, Zenon DEF WillSee
    <3>2. CASE x # j
      <4>1. x \in 1 .. my[s].i
        BY <1>1, <3>2 DEF j
      <4>2. WillSee(x, base + maxMsgNum)
        BY <1>1, <1>6, <1>8, <4>1, Zenon DEF IInv, Told, seg
      <4> QED  BY <1>1, <1>6, <1>7, <4>2, Zenon DEF WillSee, seg
    <3> QED  BY <3>1, <3>2, Zenon
  <2> QED  BY <2>1, <2>2, Zenon
<1>16. Announced'
  BY <1>1, Zenon DEF IInv, Announced, seg
<1> QED  BY <1>9, <1>10, <1>11, <1>12, <1>14, <1>15, <1>16, Zenon DEF IInv

(* Every backend has been told: the chunk is announced.                    *)
LEMMA KickedStep ==
    ASSUME IInv, NEW s \in Slots, Kicked(s)
    PROVE  IInv'
<1> DEFINE v == [my[s] EXCEPT !.nthistime = 0, !.i = 0]
           l == IF my[s].n > 0 THEN "insert" ELSE "idle"
<1>1. /\ my \in [Slots -> MyType] /\ my[s] \in MyType /\ pc \in [Slots -> PcValues]
      /\ pc[s] = "kick" /\ Control(s) /\ SInvalWriteLock = s /\ SInvalWriteLock' = 0
      /\ lastBackend \in 0 .. MaxBackends /\ my[s].i \in Nat /\ my[s].i >= lastBackend
      /\ base \in Nat /\ maxMsgNum \in Nat /\ announced \in Nat
      /\ announced' = base + maxMsgNum /\ pc' = [pc EXCEPT ![s] = l]
      /\ UNCHANGED <<seg, procState, SInvalReadLock>>
  BY OfProcess, Zenon DEF Kicked, Goto, Control, MyType, IInv, Types, TypeOK
<1>2. my' = [my EXCEPT ![s] = v]
  BY Zenon DEF Kicked
<1>3. /\ v \in MyType /\ v.i = 0 /\ v.nthistime = 0 /\ v.n = my[s].n
      /\ v.max = my[s].max /\ v.messages = my[s].messages /\ v.frames = my[s].frames
      /\ v.nummsgs = my[s].nummsgs
  <2>1. \A x \in MyType : [x EXCEPT !.nthistime = 0, !.i = 0] \in MyType
    BY Zenon DEF MyType
  <2>2. v \in MyType
    BY <1>1, <2>1, Zenon
  <2> QED  BY <1>1, <2>2, Zenon DEF MyType
<1>4. l \in {"insert", "idle"} /\ l \in PcValues /\ (l = "insert" => my[s].n > 0)
  BY Zenon DEF PcValues
<1> HIDE DEF v, l
<1>5. /\ my' \in [Slots -> MyType] /\ pc' \in [Slots -> PcValues]
      /\ my'[s] = v /\ pc'[s] = l
      /\ \A t \in Slots : t # s => my'[t] = my[t] /\ pc'[t] = pc[t]
  BY <1>1, <1>2, <1>3, <1>4, Zenon
<1>6. \A t \in Slots : Receiver(t)' <=> Receiver(t)
  BY <1>1, Zenon DEF Receiver
<1>7. Types'
  <2>1. announced' \in Nat /\ SInvalWriteLock' \in 0 .. MaxBackends
    BY <1>1, RingConstants
  <2> QED  BY <1>1, <1>5, <2>1, Zenon DEF IInv, Types, TypeOK, seg
<1>8. \A t \in Slots : Control(t)'
  <2> TAKE t \in Slots
  <2>1. Control(t)
    BY Zenon DEF IInv
  <2>2. CASE t = s
    BY <1>1, <1>3, <1>4, <1>5, <1>6, <2>1, <2>2, Zenon DEF Control, seg, Writing, Reading, Resume
  <2>3. CASE t # s
    BY <1>1, <1>5, <1>6, <2>1, <2>3, OneWriter, Zenon DEF Control, seg
  <2> QED  BY <2>2, <2>3, Zenon
<1>9. QueueSound'
  BY <1>1, <1>6, Zenon DEF IInv, QueueSound, seg
<1>10. \A t \in Slots : Filled(t)' /\ Position(t)'
  <2> TAKE t \in Slots
  <2>1. Filled(t) /\ Position(t)
    BY Zenon DEF IInv
  <2>2. CASE t = s
    BY <1>1, <1>4, <1>5, <1>6, <2>1, <2>2, Zenon DEF Filled, Position, seg
  <2>3. CASE t # s
    BY <1>1, <1>5, <1>6, <2>1, <2>3, Zenon DEF Filled, Position, seg
  <2> QED  BY <2>2, <2>3, Zenon
<1>11. NoLostWakeup'
  <2> SUFFICES ASSUME NEW t \in Slots, Receiver(t),
                      procState[t].resetState \/ base + procState[t].nextMsgNum < base + maxMsgNum
               PROVE  WillSee(t, announced)'
    BY <1>1, <1>6, Zenon DEF NoLostWakeup, WillSee, seg
  <2>1. /\ t # s => pc'[t] = pc[t] /\ my'[t] = my[t]
        /\ pc[s] \notin {"max", "read"}
    BY <1>1, <1>5, Zenon
  <2>2. procState[t].nextMsgNum \in Int /\ t \in Nat /\ my[t].max \in Nat
    BY OfEntry, OfProcess, Zenon DEF ProcType, MyType
  <2>3. t \in 1 .. my[s].i
    <3>1. t <= lastBackend
      BY Zenon DEF IInv, Control, Receiver
    <3>2. t \in Nat \ {0}
      BY OfProcess, Zenon
    <3> QED  BY <1>1, <3>1, <3>2
  <2>4. CASE procState[t].nextMsgNum < maxMsgNum
    <3>1. WillSee(t, base + maxMsgNum)
      BY <1>1, <2>3, <2>4, Zenon DEF IInv, Told
    <3> QED  BY <1>1, <2>1, <3>1, Zenon DEF WillSee, seg
  <2>5. CASE ~(procState[t].nextMsgNum < maxMsgNum)
    <3>1. procState[t].resetState
      BY <1>1, <2>2, <2>5
    <3>2. procState[t].hasMessages \/ pc[t] = "max" \/ pc[t] = "read"
      BY <3>1, Zenon DEF IInv, NoLostWakeup
    <3>3. pc[t] = "read" => base + my[t].max >= base + maxMsgNum
      <4>1. pc[t] = "read" => procState[t].nextMsgNum <= my[t].max
        BY Zenon DEF IInv, Position
      <4> QED  BY <1>1, <2>2, <2>5, <4>1
    <3> QED  BY <1>1, <2>1, <3>2, <3>3, Zenon DEF WillSee, seg
  <2> QED  BY <2>4, <2>5, Zenon
<1>12. \A t \in Slots : Told(t)'
  BY <1>1, <1>4, <1>5, OneWriter, Zenon DEF Told
<1>13. Announced'
  BY <1>1 DEF Announced, seg
<1> QED  BY <1>7, <1>8, <1>9, <1>10, <1>11, <1>12, <1>13, Zenon DEF IInv

-----------------------------------------------------------------------------
(* The steps of a reader, in SIGetDataEntries.                             *)

(* A reader changes its own entry, position and locals, nothing else: the  *)
(* invariant holds again when the parts about the reader do.               *)
LEMMA ReaderStep ==
    ASSUME IInv, NEW s \in Slots,
           UNCHANGED <<seg, SInvalWriteLock, announced>>,
           NEW p \in ProcType, procState' = [procState EXCEPT ![s] = p],
           NEW v \in MyType, my' = [my EXCEPT ![s] = v],
           NEW l \in PcValues, pc' = [pc EXCEPT ![s] = l],
           pc[s] \in Reading, l \notin {"publish", "kick"},
           SInvalReadLock' \subseteq Slots,
           \A t \in Slots : t # s /\ t \in SInvalReadLock => t \in SInvalReadLock',
           p.procPid = procState[s].procPid, p.sendOnly = procState[s].sendOnly,
           Control(s)', Position(s)',
           ~p.resetState => minMsgNum <= p.nextMsgNum /\ p.nextMsgNum <= maxMsgNum,
           p.resetState \/ base + p.nextMsgNum < announced => WillSee(s, announced)',
           p.nextMsgNum < maxMsgNum /\ WillSee(s, base + maxMsgNum)
              => WillSee(s, base + maxMsgNum)',
           procState[s].nextMsgNum <= p.nextMsgNum
    PROVE  IInv'
<1>1. /\ my \in [Slots -> MyType] /\ pc \in [Slots -> PcValues]
      /\ procState \in [Slots -> ProcType]
  BY OfProcess, OfEntry, Zenon
<1>2. /\ my' \in [Slots -> MyType] /\ pc' \in [Slots -> PcValues]
      /\ procState' \in [Slots -> ProcType]
      /\ my'[s] = v /\ pc'[s] = l /\ procState'[s] = p
      /\ \A t \in Slots : t # s => my'[t] = my[t] /\ pc'[t] = pc[t] /\ procState'[t] = procState[t]
  BY <1>1, Zenon
<1>3. \A t \in Slots : Receiver(t)' <=> Receiver(t)
  <2> TAKE t \in Slots
  <2>1. procState'[t].procPid = procState[t].procPid /\ procState'[t].sendOnly = procState[t].sendOnly
    BY <1>2, Zenon
  <2> QED  BY <2>1, Zenon DEF Receiver
<1>4. Types'
  BY <1>2, Zenon DEF IInv, Types, TypeOK, seg, ProcType
<1>5. \A t \in Slots : Control(t)'
  <2> SUFFICES ASSUME NEW t \in Slots, t # s PROVE Control(t)'
    BY Zenon
  <2>1. Control(t)
    BY Zenon DEF IInv
  <2> QED  BY <1>2, <1>3, <2>1 DEF Control, seg
<1>6. QueueSound'
  <2>1. \A t \in Slots : Receiver(t) /\ ~procState'[t].resetState =>
          minMsgNum <= procState'[t].nextMsgNum /\ procState'[t].nextMsgNum <= maxMsgNum
    <3> TAKE t \in Slots
    <3>1. CASE t = s
      BY <1>2, <3>1, Zenon
    <3>2. CASE t # s
      BY <1>2, <3>2, Zenon DEF IInv, QueueSound
    <3> QED  BY <3>1, <3>2, Zenon
  <2> QED  BY <1>3, <2>1, Zenon DEF IInv, QueueSound, seg
<1>7. \A t \in Slots : Filled(t)' /\ Position(t)'
  <2> TAKE t \in Slots
  <2>1. CASE t = s
    BY <1>2, <2>1, Zenon DEF Filled
  <2>2. CASE t # s
    BY <1>2, <1>3, <2>2 DEF IInv, Filled, Position, seg
  <2> QED  BY <2>1, <2>2, Zenon
<1>8. NoLostWakeup'
  <2> SUFFICES ASSUME NEW t \in Slots, Receiver(t),
                      procState'[t].resetState \/ base + procState'[t].nextMsgNum < announced
               PROVE  WillSee(t, announced)'
    BY <1>3, Zenon DEF NoLostWakeup, WillSee, seg
  <2>1. CASE t = s
    BY <1>2, <2>1, Zenon
  <2>2. CASE t # s
    BY <1>2, <2>2, Zenon DEF IInv, NoLostWakeup, WillSee, seg
  <2> QED  BY <2>1, <2>2, Zenon
<1>9. \A t \in Slots : Told(t)'
  <2> SUFFICES ASSUME NEW t \in Slots, pc'[t] = "kick",
                      NEW x \in 1 .. my'[t].i, x \in Slots, Receiver(x),
                      procState'[x].nextMsgNum < maxMsgNum
               PROVE  WillSee(x, base + maxMsgNum)'
    BY <1>3, Zenon DEF Told, seg
  <2>1. t # s /\ pc[t] = "kick" /\ x \in 1 .. my[t].i
    BY <1>2, Zenon
  <2>2. CASE x = s
    <3>1. procState[s].nextMsgNum < maxMsgNum
      <4>1. procState[s].nextMsgNum \in Int /\ p.nextMsgNum \in Int /\ maxMsgNum \in Int
        BY <1>1, OfProcess DEF ProcType
      <4> QED  BY <1>2, <2>2, <4>1
    <3>2. WillSee(s, base + maxMsgNum)
      BY <2>1, <2>2, <3>1, Zenon DEF IInv, Told
    <3> QED  BY <1>2, <2>2, <3>2, Zenon
  <2>3. CASE x # s
    <3>1. WillSee(x, base + maxMsgNum)
      BY <1>2, <2>1, <2>3, Zenon DEF IInv, Told
    <3> QED  BY <1>2, <2>3, <3>1, Zenon DEF WillSee, seg
  <2> QED  BY <2>2, <2>3, Zenon
<1>10. Announced'
  <2>1. \A t \in Slots : pc'[t] = "kick" <=> pc[t] = "kick"
    BY <1>2, Zenon DEF Reading, Resume
  <2> QED  BY <2>1, Zenon DEF IInv, Announced, seg
<1> QED  BY <1>4, <1>5, <1>6, <1>7, <1>8, <1>9, <1>10, Zenon DEF IInv

(* hasMessages is cleared before anything is read.                         *)
LEMMA BeginReadStep ==
    ASSUME IInv, NEW s \in Slots, BeginRead(s)
    PROVE  IInv'
<1> DEFINE v == [my[s] EXCEPT !.nextmsg = 0, !.nummsgs = 0]
           p == [procState[s] EXCEPT !.hasMessages = FALSE]
<1>1. /\ my[s] \in MyType /\ my \in [Slots -> MyType] /\ pc \in [Slots -> PcValues]
      /\ procState \in [Slots -> ProcType] /\ procState[s] \in ProcType
      /\ Control(s) /\ pc[s] \in {"drain", "process"}
      /\ pc' = [pc EXCEPT ![s] = "max"] /\ procState' = [procState EXCEPT ![s] = p]
      /\ my' = [my EXCEPT ![s] = v] /\ SInvalReadLock' = SInvalReadLock \cup {s}
      /\ UNCHANGED <<seg, SInvalWriteLock, announced>>
  BY OfProcess, OfEntry, Zenon DEF BeginRead, WantsMore, Goto
<1>2. v \in MyType /\ p \in ProcType
  BY <1>1, Zenon DEF MyType, ProcType
<1>3. /\ v.nthistime = my[s].nthistime /\ v.i = my[s].i /\ v.messages = my[s].messages
      /\ v.frames = my[s].frames /\ v.nummsgs = 0 /\ v.messages \in Seq(Int)
      /\ p.procPid = procState[s].procPid /\ p.sendOnly = procState[s].sendOnly
      /\ p.nextMsgNum = procState[s].nextMsgNum /\ p.resetState = procState[s].resetState
      /\ p.nextMsgNum \in Int
  BY <1>1, Zenon DEF MyType, ProcType
<1> HIDE DEF v, p
<1>4. my'[s] = v /\ pc'[s] = "max" /\ procState'[s] = p
  BY <1>1, Zenon
<1>5. (Receiver(s)' <=> Receiver(s)) /\ Receiver(s) /\ pc[s] \in Reading
  BY <1>1, <1>3, <1>4, Zenon DEF Receiver, Control, Reading, Resume
<1>6. Control(s)'
  BY <1>1, <1>3, <1>4, <1>5 DEF Control, seg, Writing, Reading, Resume
<1>7. Position(s)'
  BY <1>1, <1>3, <1>4, <1>5, Zenon DEF IInv, Position, seg
<1>8. ~p.resetState => minMsgNum <= p.nextMsgNum /\ p.nextMsgNum <= maxMsgNum
  BY <1>3, <1>5, Zenon DEF IInv, QueueSound
<1>9. WillSee(s, announced)' /\ WillSee(s, base + maxMsgNum)'
  BY <1>4, Zenon DEF WillSee
<1>10. procState[s].nextMsgNum <= p.nextMsgNum
  BY <1>3
<1>11. SInvalReadLock' \subseteq Slots
  BY <1>1, Zenon DEF IInv, Types, TypeOK
<1>12. \A t \in Slots : t # s /\ t \in SInvalReadLock => t \in SInvalReadLock'
  BY <1>1, Zenon
<1>13. "max" \in PcValues
  BY Zenon DEF PcValues
<1> QED  BY <1>1, <1>2, <1>3, <1>5, <1>6, <1>7, <1>8, <1>9, <1>10, <1>11, <1>12, <1>13, ReaderStep, Zenon

(* The reader copies maxMsgNum.                                            *)
LEMMA FetchMaxStep ==
    ASSUME IInv, NEW s \in Slots, FetchMax(s)
    PROVE  IInv'
<1> DEFINE v == [my[s] EXCEPT !.max = maxMsgNum]
           p == procState[s]
<1>1. /\ my[s] \in MyType /\ my \in [Slots -> MyType] /\ pc \in [Slots -> PcValues]
      /\ procState \in [Slots -> ProcType] /\ p \in ProcType
      /\ maxMsgNum \in Nat /\ base \in Nat /\ announced \in Nat
      /\ Control(s) /\ pc[s] = "max"
      /\ pc' = [pc EXCEPT ![s] = "read"] /\ procState' = procState
      /\ my' = [my EXCEPT ![s] = v]
      /\ UNCHANGED <<seg, locks, announced>>
  BY OfProcess, OfEntry, Zenon DEF FetchMax, Goto
<1>2. procState' = [procState EXCEPT ![s] = p]
  BY <1>1, Zenon
<1>3. /\ v \in MyType /\ v.nthistime = my[s].nthistime /\ v.i = my[s].i
      /\ v.messages = my[s].messages /\ v.frames = my[s].frames /\ v.nummsgs = my[s].nummsgs
      /\ v.max = maxMsgNum
  BY <1>1, Zenon DEF MyType
<1>4. p.nextMsgNum \in Int
  BY <1>1, Zenon DEF ProcType
<1> HIDE DEF v
<1>5. my'[s] = v /\ pc'[s] = "read" /\ procState'[s] = procState[s]
  BY <1>1, Zenon
<1>6. (Receiver(s)' <=> Receiver(s)) /\ Receiver(s) /\ pc[s] \in Reading
  BY <1>1, <1>5, Zenon DEF Receiver, Control, Reading, Resume
<1>7. Control(s)'
  BY <1>1, <1>3, <1>5, <1>6, Zenon DEF Control, seg, locks, Writing, Reading, Resume
<1>8. procState[s].nextMsgNum <= maxMsgNum /\ minMsgNum <= maxMsgNum
  BY <1>6, Zenon DEF IInv, Position, QueueSound
<1>9. Position(s)'
  BY <1>1, <1>3, <1>5, <1>8 DEF Position, seg
<1>10. ~p.resetState => minMsgNum <= p.nextMsgNum /\ p.nextMsgNum <= maxMsgNum
  BY <1>6, Zenon DEF IInv, QueueSound
<1>11. WillSee(s, announced)' /\ WillSee(s, base + maxMsgNum)'
  <2>1. announced <= base + maxMsgNum
    BY Zenon DEF IInv, Announced
  <2> QED  BY <1>1, <1>3, <1>5, <2>1 DEF WillSee, seg
<1>12. SInvalReadLock \subseteq Slots
  BY Zenon DEF IInv, Types, TypeOK
<1>13. p.nextMsgNum <= p.nextMsgNum
  BY <1>4
<1>14. "read" \in PcValues
  BY Zenon DEF PcValues
<1> QED  BY <1>1, <1>2, <1>3, <1>6, <1>7, <1>9, <1>10, <1>11, <1>12, <1>13, <1>14, ReaderStep, Zenon DEF locks

(* A backend that was left behind takes the reset.                         *)
LEMMA ReadResetStep ==
    ASSUME IInv, NEW s \in Slots, ReadReset(s)
    PROVE  IInv'
<1> DEFINE max == my[s].max
           p == TakeReset(procState[s], max)
           v == [my[s] EXCEPT !.messages = <<Reset>>, !.processed = base + max, !.max = 0]
<1>1. /\ my[s] \in MyType /\ my \in [Slots -> MyType] /\ pc \in [Slots -> PcValues]
      /\ procState \in [Slots -> ProcType] /\ procState[s] \in ProcType
      /\ maxMsgNum \in Nat /\ minMsgNum \in Nat /\ base \in Nat /\ announced \in Nat
      /\ max \in Nat /\ Control(s) /\ pc[s] = "read" /\ procState[s].resetState
      /\ procState' = [procState EXCEPT ![s] = p] /\ SInvalReadLock' = SInvalReadLock \ {s}
      /\ Callback(s, "caughtup", v) /\ UNCHANGED <<seg, SInvalWriteLock, announced>>
  BY OfProcess, OfEntry, Zenon DEF ReadReset, MyType
<1>2. v \in MyType
  <2>1. \A x \in MyType, a \in Seq(Int), b \in Int :
           [x EXCEPT !.messages = a, !.processed = b, !.max = 0] \in MyType
    BY Zenon DEF MyType
  <2>2. <<Reset>> \in Seq(Int) /\ base + max \in Int
    BY <1>1 DEF Reset
  <2> QED  BY <1>1, <2>1, <2>2, Zenon
<1>3. /\ v.nthistime = my[s].nthistime /\ v.i = my[s].i /\ v.messages = <<Reset>>
      /\ v.frames = my[s].frames /\ v.nummsgs = my[s].nummsgs
  BY <1>1, Zenon DEF MyType
<1>4. /\ p \in ProcType /\ p.nextMsgNum = max /\ ~p.resetState
      /\ p.procPid = procState[s].procPid /\ p.sendOnly = procState[s].sendOnly
      /\ p.hasMessages = procState[s].hasMessages /\ procState[s].nextMsgNum \in Int
  <2> DEFINE x == [procState[s] EXCEPT !.nextMsgNum = max]
             y == [x EXCEPT !.resetState = FALSE]
             z == [y EXCEPT !.signaled = FALSE]
  <2>1. p = z
    BY Zenon DEF TakeReset
  <2>2. /\ x \in ProcType /\ x.nextMsgNum = max /\ x.procPid = procState[s].procPid
        /\ x.sendOnly = procState[s].sendOnly /\ x.hasMessages = procState[s].hasMessages
    BY <1>1 DEF ProcType
  <2> HIDE DEF p, x
  <2>3. /\ y \in ProcType /\ y.nextMsgNum = x.nextMsgNum /\ y.procPid = x.procPid
        /\ y.sendOnly = x.sendOnly /\ y.hasMessages = x.hasMessages /\ ~y.resetState
    BY <2>2, Zenon DEF ProcType
  <2> HIDE DEF y
  <2>4. /\ z \in ProcType /\ z.nextMsgNum = y.nextMsgNum /\ z.procPid = y.procPid
        /\ z.sendOnly = y.sendOnly /\ z.hasMessages = y.hasMessages
        /\ z.resetState = y.resetState
    BY <2>3, Zenon DEF ProcType
  <2> HIDE DEF z
  <2>5. procState[s].nextMsgNum \in Int
    BY <1>1, Zenon DEF ProcType
  <2> QED  BY <2>1, <2>2, <2>3, <2>4, <2>5, Zenon
<1>5. Receiver(s) /\ pc[s] \in Reading /\ v.frames # <<>> /\ v.nthistime = 0 /\ v.nummsgs = 0
  BY <1>1, <1>3, Zenon DEF Control, Reading
<1>6. procState[s].nextMsgNum <= max /\ minMsgNum <= max /\ max <= maxMsgNum
  BY <1>1, Zenon DEF IInv, Position
<1> HIDE DEF p, v, max
<1>7. PICK w \in MyType, r \in Resume :
              /\ my' = [my EXCEPT ![s] = w] /\ pc' = [pc EXCEPT ![s] = r]
              /\ w.frames # <<>> /\ w.n = v.n /\ w.nthistime = v.nthistime /\ w.i = v.i
              /\ w.max = v.max /\ w.messages = v.messages /\ w.nummsgs = v.nummsgs
  <2>1. "caughtup" \in Resume
    BY Zenon DEF Resume
  <2> QED  BY <1>1, <1>2, <1>5, <2>1, CallbackLocals
<1>8. my'[s] = w /\ pc'[s] = r /\ procState'[s] = p
  BY <1>1, <1>7, Zenon
<1>9. Receiver(s)' <=> Receiver(s)
  BY <1>4, <1>8, Zenon DEF Receiver
<1>10. r \in PcValues /\ r \notin {"publish", "kick", "max", "read"}
  BY Zenon DEF PcValues, Resume
<1>11. Control(s)'
  <2>1. w.nummsgs <= Len(w.messages)
    BY <1>3, <1>5, <1>7
  <2>2. w.nthistime = 0 /\ w.i = 0
    BY <1>1, <1>3, <1>5, <1>7, Zenon DEF Control
  <2>3. p.procPid /\ s <= lastBackend'
    BY <1>1, <1>4, <1>5, Zenon DEF Control, seg, Receiver
  <2>4. r \notin {"space", "publish", "kick", "clean", "max", "read", "exited", "insert",
                  "signal", "idle", "relock"}
    BY Zenon DEF Resume
  <2>5. Receiver(s)' /\ w.frames # <<>>
    BY <1>5, <1>7, <1>9, Zenon
  <2> QED  BY <1>8, <2>1, <2>2, <2>3, <2>4, <2>5, Zenon DEF Control, Writing
<1>12. Position(s)'
  BY <1>1, <1>4, <1>6, <1>8, <1>10, Zenon DEF Position, seg
<1>13. base + p.nextMsgNum < announced => WillSee(s, announced)'
  <2>1. procState[s].hasMessages \/ base + max >= announced
    BY <1>1, <1>5, Zenon DEF IInv, NoLostWakeup, max
  <2>2. p.hasMessages => WillSee(s, announced)'
    BY <1>8, Zenon DEF WillSee
  <2> QED  BY <1>1, <1>4, <2>1, <2>2
<1>14. p.nextMsgNum < maxMsgNum /\ WillSee(s, base + maxMsgNum) => WillSee(s, base + maxMsgNum)'
  <2>1. WillSee(s, base + maxMsgNum) => procState[s].hasMessages \/ base + max >= base + maxMsgNum
    BY <1>1, Zenon DEF WillSee, max
  <2> QED  BY <1>1, <1>4, <1>8, <2>1 DEF WillSee
<1>15. SInvalReadLock' \subseteq Slots
  BY <1>1, Zenon DEF IInv, Types, TypeOK
<1>16. \A t \in Slots : t # s /\ t \in SInvalReadLock => t \in SInvalReadLock'
  BY <1>1, Zenon
<1> QED  BY <1>1, <1>4, <1>5, <1>6, <1>7, <1>10, <1>11, <1>12, <1>13, <1>14, <1>15, <1>16, ReaderStep, Zenon

(* The messages ReadMessages takes: at most MAXINVALMSGS of those up to    *)
(* the maxMsgNum it fetched.                                               *)
Taken(s) == Max({0, Min({MAXINVALMSGS, my[s].max - procState[s].nextMsgNum})})

(* How many messages a read takes: all there are, or a full buffer.        *)
LEMMA TakenCount ==
    ASSUME IInv, NEW s \in Slots, pc[s] = "read"
    PROVE  /\ Taken(s) \in Nat
           /\ procState[s].nextMsgNum + Taken(s) <= my[s].max
           /\ Taken(s) # MAXINVALMSGS => procState[s].nextMsgNum + Taken(s) = my[s].max
<1> DEFINE d == my[s].max - procState[s].nextMsgNum
           m == Min({MAXINVALMSGS, d})
<1>1. my[s].max \in Nat /\ procState[s].nextMsgNum \in Int
  BY OfProcess, OfEntry, Zenon DEF MyType, ProcType
<1>2. d \in Nat
  BY <1>1 DEF IInv, Position
<1>3. MAXINVALMSGS \in Nat \ {0}
  BY SInvalAssumption, Zenon
<1>4. Taken(s) = Max({0, m})
  BY Zenon DEF Taken
<1> HIDE DEF d
<1>5. m = IF MAXINVALMSGS <= d THEN MAXINVALMSGS ELSE d
  BY <1>2, <1>3, MinPair
<1> HIDE DEF m
<1>6. m \in Nat /\ m <= d
  BY <1>2, <1>3, <1>5
<1>7. Max({0, m}) = m
  BY <1>6, MaxPair
<1>8. m # MAXINVALMSGS => m = d
  BY <1>5, Zenon
<1>9. d = my[s].max - procState[s].nextMsgNum /\ Taken(s) = m
  BY <1>4, <1>7, Zenon DEF d
<1>10. procState[s].nextMsgNum + m <= my[s].max
  BY <1>1, <1>6, <1>9
<1>11. m = d => procState[s].nextMsgNum + m = my[s].max
  BY <1>1, <1>9
<1> QED  BY <1>6, <1>8, <1>9, <1>10, <1>11, Zenon

(* The reader copies messages up to its maximum and advances.              *)
LEMMA ReadMessagesStep ==
    ASSUME IInv, NEW s \in Slots, ReadMessages(s)
    PROVE  IInv'
<1> DEFINE max == my[s].max
           from == procState[s].nextMsgNum
           n == Taken(s)
           q == [k \in 1 .. n |-> buffer[(from + k - 1) % MAXNUMMESSAGES]]
           p == AfterRead(procState[s], from + n, max)
           v == [my[s] EXCEPT !.messages = q, !.nummsgs = n, !.max = 0]
<1>1. /\ my[s] \in MyType /\ my \in [Slots -> MyType] /\ pc \in [Slots -> PcValues]
      /\ procState \in [Slots -> ProcType] /\ procState[s] \in ProcType
      /\ maxMsgNum \in Nat /\ minMsgNum \in Nat /\ base \in Nat /\ announced \in Nat
      /\ max \in Nat /\ from \in Int
      /\ Control(s) /\ pc[s] = "read" /\ ~procState[s].resetState
      /\ SInvalReadLock' = SInvalReadLock \ {s} /\ pc' = [pc EXCEPT ![s] = "process"]
      /\ UNCHANGED <<seg, SInvalWriteLock, announced>>
  BY OfProcess, OfEntry, ZenonT(40) DEF ReadMessages, MyType, ProcType, Goto
<1>2. my' = [my EXCEPT ![s] = v] /\ procState' = [procState EXCEPT ![s] = p]
  BY <1>1, Zenon DEF ReadMessages, Taken
<1>3. n \in Nat /\ from + n <= max
  BY <1>1, TakenCount, Zenon
<1>4. Receiver(s) /\ pc[s] \in Reading /\ my[s].frames # <<>> /\ my[s].nthistime = 0
  BY <1>1, Zenon DEF Control, Reading
<1>5. from <= max /\ minMsgNum <= max /\ max <= maxMsgNum /\ minMsgNum <= from
  BY <1>1, <1>4, Zenon DEF IInv, Position, QueueSound
<1> HIDE DEF n
<1>6. q \in Seq(Int) /\ Len(q) = n
  <2>1. buffer \in [0 .. MAXNUMMESSAGES - 1 -> Int] /\ MAXNUMMESSAGES \in Nat \ {0}
    BY RingConstants, Zenon DEF IInv, Types, TypeOK
  <2>2. \A k \in 1 .. n : buffer[(from + k - 1) % MAXNUMMESSAGES] \in Int
    <3> TAKE k \in 1 .. n
    <3>1. from + k - 1 \in Nat
      BY <1>1, <1>3, <1>5
    <3>2. (from + k - 1) % MAXNUMMESSAGES \in 0 .. MAXNUMMESSAGES - 1
      BY <2>1, <3>1
    <3> QED  BY <2>1, <3>2, Zenon
  <2> QED  BY <1>3, <2>2
<1> HIDE DEF q
<1>7. v \in MyType
  <2>1. \A x \in MyType, a \in Seq(Int), b \in Nat :
           [x EXCEPT !.messages = a, !.nummsgs = b, !.max = 0] \in MyType
    BY Zenon DEF MyType
  <2> QED  BY <1>1, <1>3, <1>6, <2>1, Zenon
<1>8. /\ v.nthistime = my[s].nthistime /\ v.i = my[s].i /\ v.messages = q
      /\ v.frames = my[s].frames /\ v.nummsgs = n
  BY <1>1, Zenon DEF MyType
<1>9. /\ p \in ProcType /\ p.nextMsgNum = from + n /\ ~p.resetState
      /\ p.procPid = procState[s].procPid /\ p.sendOnly = procState[s].sendOnly
      /\ p.hasMessages <=> procState[s].hasMessages \/ from + n < max
  <2>1. from + n \in Int
    BY <1>1, <1>3
  <2>2. /\ p.nextMsgNum = from + n /\ p.resetState = procState[s].resetState
        /\ p.procPid = procState[s].procPid /\ p.sendOnly = procState[s].sendOnly
        /\ p.hasMessages = (procState[s].hasMessages \/ from + n < max)
    BY <1>1, Zenon DEF AfterRead, ProcType
  <2>3. p \in ProcType
    BY <1>1, <2>1, Zenon DEF AfterRead, ProcType
  <2> QED  BY <1>1, <2>2, <2>3, Zenon
<1> HIDE DEF p, v
<1>10. my'[s] = v /\ pc'[s] = "process" /\ procState'[s] = p
  BY <1>1, <1>2, Zenon
<1>11. Receiver(s)' <=> Receiver(s)
  BY <1>9, <1>10, Zenon DEF Receiver
<1>12. Control(s)'
  <2>1. v.nummsgs <= Len(v.messages)
    BY <1>3, <1>6, <1>8
  <2> QED  BY <1>1, <1>4, <1>8, <1>9, <1>10, <1>11, <2>1, Zenon DEF Control, seg, Writing, Reading, Resume
<1> HIDE DEF max, from
<1>13. Position(s)'
  <2>1. from + n <= maxMsgNum
    BY <1>1, <1>3, <1>5
  <2> QED  BY <1>1, <1>9, <1>10, <2>1, Zenon DEF Position, seg
<1>14. base + p.nextMsgNum < announced => WillSee(s, announced)'
  <2> SUFFICES ASSUME base + from + n < announced PROVE p.hasMessages
    BY <1>1, <1>3, <1>9, <1>10 DEF WillSee
  <2>1. base + from < announced
    BY <1>1, <1>3
  <2>2. procState[s].hasMessages \/ base + max >= announced
    BY <1>1, <1>4, <2>1, Zenon DEF IInv, NoLostWakeup, max, from
  <2> QED  BY <1>1, <1>3, <1>9, <2>2
<1>15. p.nextMsgNum < maxMsgNum /\ WillSee(s, base + maxMsgNum) => WillSee(s, base + maxMsgNum)'
  <2>1. WillSee(s, base + maxMsgNum) => procState[s].hasMessages \/ base + max >= base + maxMsgNum
    BY <1>1, Zenon DEF WillSee, max
  <2>2. p.nextMsgNum < maxMsgNum /\ base + max >= base + maxMsgNum => p.hasMessages
    BY <1>1, <1>3, <1>9
  <2> QED  BY <1>9, <1>10, <2>1, <2>2, Zenon DEF WillSee
<1>16. SInvalReadLock' \subseteq Slots
  BY <1>1, Zenon DEF IInv, Types, TypeOK
<1>17. \A t \in Slots : t # s /\ t \in SInvalReadLock => t \in SInvalReadLock'
  BY <1>1, Zenon
<1>18. minMsgNum <= p.nextMsgNum /\ p.nextMsgNum <= maxMsgNum /\ procState[s].nextMsgNum <= p.nextMsgNum
  BY <1>1, <1>3, <1>5, <1>9 DEF from
<1>19. "process" \in PcValues
  BY Zenon DEF PcValues
<1> QED  BY <1>1, <1>2, <1>4, <1>7, <1>9, <1>12, <1>13, <1>14, <1>15,
            <1>16, <1>17, <1>18, <1>19, ReaderStep, Zenon

-----------------------------------------------------------------------------
(* Start and exit of a backend, with nobody writing.                       *)

(* A step that changes one backend's entry and locals while nobody writes. *)
LEMMA EntryStep ==
    ASSUME IInv, NEW s \in Slots, SInvalWriteLock = 0,
           UNCHANGED <<minMsgNum, maxMsgNum, nextThreshold, buffer, base, locks, announced>>,
           lastBackend' \in 0 .. MaxBackends,
           NEW p \in ProcType, procState' = [procState EXCEPT ![s] = p],
           my' \in [Slots -> MyType],
           \A t \in Slots : t # s => SameWork(t),
           NEW l \in {"idle", "exited"}, pc' = [pc EXCEPT ![s] = l],
           Control(s)',
           p.procPid => p.nextMsgNum = maxMsgNum /\ ~p.resetState,
           \A t \in Slots : t # s /\ procState[t].procPid => t <= lastBackend'
    PROVE  IInv'
<1>1. /\ pc \in [Slots -> PcValues] /\ procState \in [Slots -> ProcType]
      /\ maxMsgNum \in Nat /\ minMsgNum \in Nat /\ base \in Nat /\ announced \in Nat
      /\ minMsgNum <= maxMsgNum /\ announced = base + maxMsgNum
  BY OfProcess, OfEntry, NoWriter, Zenon DEF IInv, QueueSound, Announced
<1>2. /\ pc' \in [Slots -> PcValues] /\ procState' \in [Slots -> ProcType]
      /\ pc'[s] = l /\ procState'[s] = p
      /\ \A t \in Slots : t # s => pc'[t] = pc[t] /\ procState'[t] = procState[t]
  BY <1>1, Zenon DEF PcValues
<1>3. \A t \in Slots : t # s => (Receiver(t)' <=> Receiver(t))
  BY <1>2, Zenon DEF Receiver
<1>4. Receiver(s)' => p.nextMsgNum = maxMsgNum /\ ~p.resetState
  BY <1>2, Zenon DEF Receiver
<1>5. Types'
  BY <1>2, Zenon DEF IInv, Types, TypeOK, locks, ProcType
<1>6. \A t \in Slots : Control(t)'
  <2> SUFFICES ASSUME NEW t \in Slots, t # s PROVE Control(t)'
    BY Zenon
  <2>1. Control(t) /\ SameWork(t) /\ (procState[t].procPid => t <= lastBackend')
    BY Zenon DEF IInv
  <2> QED  BY <1>2, <1>3, <2>1 DEF Control, SameWork, locks
<1>7. QueueSound'
  <2>1. \A t \in Slots : Receiver(t)' /\ ~procState'[t].resetState =>
          minMsgNum <= procState'[t].nextMsgNum /\ procState'[t].nextMsgNum <= maxMsgNum
    <3> TAKE t \in Slots
    <3>1. CASE t = s
      BY <1>1, <1>2, <1>4, <3>1
    <3>2. CASE t # s
      BY <1>2, <1>3, <3>2, Zenon DEF IInv, QueueSound
    <3> QED  BY <3>1, <3>2, Zenon
  <2> QED  BY <2>1, Zenon DEF IInv, QueueSound
<1>8. \A t \in Slots : Filled(t)' /\ Position(t)'
  <2> TAKE t \in Slots
  <2>1. CASE t = s
    BY <1>1, <1>2, <1>4, <2>1 DEF Filled, Position
  <2>2. CASE t # s
    <3>1. Position(t)'
      BY <1>2, <1>3, <2>2, Zenon DEF IInv, Position, SameWork
    <3>2. pc'[t] # "publish"
      BY <1>2, <2>2, NoWriter, Zenon
    <3> QED  BY <3>1, <3>2, Zenon DEF Filled
  <2> QED  BY <2>1, <2>2, Zenon
<1>9. NoLostWakeup'
  <2> SUFFICES ASSUME NEW t \in Slots, Receiver(t)',
                      procState'[t].resetState \/ base + procState'[t].nextMsgNum < announced
               PROVE  WillSee(t, announced)'
    BY Zenon DEF NoLostWakeup, WillSee
  <2>1. CASE t = s
    BY <1>1, <1>2, <1>4, <2>1
  <2>2. CASE t # s
    BY <1>2, <1>3, <2>2, Zenon DEF IInv, NoLostWakeup, WillSee, SameWork
  <2> QED  BY <2>1, <2>2, Zenon
<1>10. \A t \in Slots : pc'[t] # "kick"
  BY <1>2, NoWriter, Zenon
<1>11. Announced' /\ \A t \in Slots : Told(t)'
  BY <1>1, <1>10 DEF Announced, Told
<1> QED  BY <1>5, <1>6, <1>7, <1>8, <1>9, <1>11, Zenon DEF IInv

(* The locals of a process that starts.                                    *)
LEMMA FreshType ==
    ASSUME NEW m \in Int
    PROVE  /\ Fresh(m) \in MyType /\ Fresh(m).nthistime = 0 /\ Fresh(m).i = 0
           /\ Fresh(m).messages = <<>> /\ Fresh(m).nummsgs = 0
<1>1. 0 \in 0 .. MaxBackends /\ <<>> \in Seq(Int) /\ <<>> \in Seq([at : Resume, goal : Nat])
  BY RingConstants
<1> QED  BY <1>1, Zenon DEF Fresh, MyType

(* SharedInvalBackendInit takes a free entry, or the one after the last.   *)
LEMMA InitSlot ==
    ASSUME WellOrdered, IInv, SharedInvalBackendInit
    PROVE  \E s \in Slots, sendOnly \in BOOLEAN :
              /\ s <= lastBackend' /\ lastBackend <= lastBackend'
              /\ lastBackend' \in 0 .. MaxBackends /\ SInvalWriteLock = 0
              /\ procState' = [procState EXCEPT ![s] =
                      [procPid |-> TRUE, nextMsgNum |-> maxMsgNum, resetState |-> FALSE,
                       signaled |-> FALSE, hasMessages |-> FALSE, sendOnly |-> sendOnly]]
              /\ my' = [my EXCEPT ![s] = Fresh(base + maxMsgNum)]
              /\ pc' = [pc EXCEPT ![s] = "idle"]
              /\ UNCHANGED <<minMsgNum, maxMsgNum, nextThreshold, buffer, base, locks, announced>>
<1> DEFINE free == {t \in 1 .. lastBackend : ~procState[t].procPid}
           new == IF free # {} THEN Min(free) ELSE lastBackend + 1
<1>1. /\ SInvalWriteLock = 0 /\ ~TooManyBackends(new)
      /\ lastBackend' = IF free # {} THEN lastBackend ELSE new
  BY Zenon DEF SharedInvalBackendInit
<1>2. lastBackend \in 0 .. MaxBackends /\ MaxBackends \in Nat \ {0}
  BY RingConstants, Zenon DEF IInv, Types, TypeOK
<1>3. /\ new \in Slots /\ lastBackend' \in 0 .. MaxBackends
      /\ new <= lastBackend' /\ lastBackend <= lastBackend'
  <2>1. CASE free # {}
    <3>1. free \subseteq Nat
      BY <1>2
    <3>2. Min(free) \in free
      BY <2>1, <3>1, MinNat, Zenon
    <3> QED  BY <1>1, <1>2, <2>1, <3>2 DEF Slots
  <2>2. CASE free = {}
    <3>1. new = lastBackend + 1 /\ ~(new > MaxBackends)
      BY <1>1, <2>2, Zenon DEF TooManyBackends
    <3> QED  BY <1>1, <1>2, <2>2, <3>1 DEF Slots
  <2> QED  BY <2>1, <2>2, Zenon
<1> QED  BY <1>1, <1>3, Zenon DEF SharedInvalBackendInit, Goto

(* A backend takes a slot and starts with everything read.                 *)
LEMMA BackendInitStep ==
    ASSUME WellOrdered, IInv, SharedInvalBackendInit
    PROVE  IInv'
<1>1. PICK s \in Slots, sendOnly \in BOOLEAN :
        /\ s <= lastBackend' /\ lastBackend <= lastBackend'
        /\ lastBackend' \in 0 .. MaxBackends /\ SInvalWriteLock = 0
        /\ procState' = [procState EXCEPT ![s] =
                [procPid |-> TRUE, nextMsgNum |-> maxMsgNum, resetState |-> FALSE,
                 signaled |-> FALSE, hasMessages |-> FALSE, sendOnly |-> sendOnly]]
        /\ my' = [my EXCEPT ![s] = Fresh(base + maxMsgNum)]
        /\ pc' = [pc EXCEPT ![s] = "idle"]
        /\ UNCHANGED <<minMsgNum, maxMsgNum, nextThreshold, buffer, base, locks, announced>>
  BY InitSlot, Zenon
<1>2. /\ lastBackend \in 0 .. MaxBackends /\ MaxBackends \in Nat \ {0} /\ maxMsgNum \in Nat
      /\ base \in Nat /\ my \in [Slots -> MyType] /\ pc \in [Slots -> PcValues]
  BY RingConstants, Zenon DEF IInv, Types, TypeOK
<1>3. lastBackend <= lastBackend' /\ lastBackend' \in 0 .. MaxBackends
  BY <1>1, Zenon
<1>4. s <= lastBackend' /\ pc' = [pc EXCEPT ![s] = "idle"]
      /\ UNCHANGED <<minMsgNum, maxMsgNum, nextThreshold, buffer, base, locks, announced>>
  BY <1>1, Zenon
<1> DEFINE p == [procPid |-> TRUE, nextMsgNum |-> maxMsgNum, resetState |-> FALSE,
                 signaled |-> FALSE, hasMessages |-> FALSE, sendOnly |-> sendOnly]
           v == Fresh(base + maxMsgNum)
<1>5. p \in ProcType /\ p.nextMsgNum = maxMsgNum /\ ~p.resetState /\ p.procPid
  BY <1>2 DEF ProcType
<1>6. v \in MyType /\ v.nthistime = 0 /\ v.i = 0 /\ v.messages = <<>> /\ v.nummsgs = 0
  BY <1>2, FreshType
<1> HIDE DEF p, v
<1>7. procState' = [procState EXCEPT ![s] = p] /\ my' = [my EXCEPT ![s] = v]
  BY <1>1, Zenon DEF p, v
<1>8. /\ my' \in [Slots -> MyType] /\ my'[s] = v /\ pc'[s] = "idle" /\ procState'[s] = p
  BY <1>2, <1>4, <1>6, <1>7, OfEntry, Zenon
<1>9. \A t \in Slots : t # s => SameWork(t)
  BY <1>2, <1>7, Zenon DEF SameWork
<1>10. Control(s)'
  <2>1. v.nummsgs <= Len(v.messages)
    BY <1>6
  <2> QED  BY <1>4, <1>5, <1>6, <1>8, <2>1, Zenon DEF Control, Receiver, Writing, Reading, Resume
<1>11. \A t \in Slots : t # s /\ procState[t].procPid => t <= lastBackend'
  <2> SUFFICES ASSUME NEW t \in Slots, procState[t].procPid PROVE t <= lastBackend'
    BY Zenon
  <2>1. t <= lastBackend /\ t \in Nat
    BY OfProcess, Zenon DEF IInv, Control
  <2> QED  BY <1>2, <1>3, <2>1
<1> QED  BY <1>1, <1>3, <1>4, <1>5, <1>7, <1>8, <1>9, <1>10, <1>11, EntryStep, Zenon

(* A backend gives its slot back.                                          *)
LEMMA BackendExitStep ==
    ASSUME WellOrdered, IInv, NEW s \in Slots, CleanupInvalidationState(s)
    PROVE  IInv'
<1> DEFINE p == [procState[s] EXCEPT !.procPid = FALSE, !.nextMsgNum = 0,
                                     !.resetState = FALSE, !.signaled = FALSE]
           left == {0} \cup {t \in 1 .. lastBackend : procState'[t].procPid}
<1>1. /\ pc[s] = "idle" /\ SInvalWriteLock = 0 /\ pc' = [pc EXCEPT ![s] = "exited"]
      /\ procState' = [procState EXCEPT ![s] = p] /\ lastBackend' = Max(left)
      /\ my' = [t \in Slots |-> IF t = s THEN Fresh(0)
                                ELSE IF my[t].needSig = s THEN [my[t] EXCEPT !.needSig = 0]
                                ELSE my[t]]
      /\ UNCHANGED <<minMsgNum, maxMsgNum, nextThreshold, buffer, base, locks, announced>>
  BY OfEntry, Zenon DEF CleanupInvalidationState, Goto
<1>2. /\ lastBackend \in 0 .. MaxBackends /\ MaxBackends \in Nat \ {0}
      /\ my \in [Slots -> MyType] /\ pc \in [Slots -> PcValues]
      /\ procState \in [Slots -> ProcType] /\ procState[s] \in ProcType
  BY RingConstants, OfEntry, Zenon DEF IInv, Types, TypeOK
<1>3. p \in ProcType /\ ~p.procPid
  <2> DEFINE x == [procState[s] EXCEPT !.procPid = FALSE]
             y == [x EXCEPT !.nextMsgNum = 0]
             z == [y EXCEPT !.resetState = FALSE]
             w == [z EXCEPT !.signaled = FALSE]
  <2>1. p = w
    BY Zenon
  <2>2. x \in ProcType /\ ~x.procPid
    BY <1>2, Zenon DEF ProcType
  <2> HIDE DEF p, x
  <2>3. y \in ProcType /\ y.procPid = x.procPid
    BY <2>2 DEF ProcType
  <2> HIDE DEF y
  <2>4. z \in ProcType /\ z.procPid = y.procPid
    BY <2>3, Zenon DEF ProcType
  <2> HIDE DEF z
  <2>5. w \in ProcType /\ w.procPid = z.procPid
    BY <2>4, Zenon DEF ProcType
  <2> HIDE DEF w
  <2> QED  BY <2>1, <2>2, <2>3, <2>4, <2>5, Zenon
<1> HIDE DEF p
<1>4. lastBackend' \in left /\ \A t \in left : lastBackend' >= t
  <2>1. left \subseteq 0 .. lastBackend /\ left # {} /\ lastBackend \in Nat
    BY <1>2
  <2> HIDE DEF left
  <2> QED  BY <1>1, <2>1, MaxNat, Zenon
<1>5. lastBackend' \in 0 .. MaxBackends
  BY <1>2, <1>4
<1>6. \A t \in Slots : t # s /\ procState[t].procPid => t <= lastBackend'
  <2> SUFFICES ASSUME NEW t \in Slots, t # s, procState[t].procPid PROVE t <= lastBackend'
    BY Zenon
  <2>1. t <= lastBackend /\ t \in Nat \ {0}
    BY OfProcess, Zenon DEF IInv, Control
  <2>2. procState'[t].procPid
    BY <1>1, <1>2, Zenon
  <2>3. t \in left
    BY <1>2, <2>1, <2>2
  <2> QED  BY <1>4, <1>5, <2>1, <2>3, Zenon
<1>7. /\ my'[s] = Fresh(0) /\ Fresh(0) \in MyType /\ Fresh(0).nthistime = 0 /\ Fresh(0).i = 0
      /\ Fresh(0).messages = <<>> /\ Fresh(0).nummsgs = 0
  BY <1>1, FreshType
<1>8. \A t \in Slots : t # s => my'[t] \in MyType /\ SameWork(t)
  <2> SUFFICES ASSUME NEW t \in Slots, t # s PROVE my'[t] \in MyType /\ SameWork(t)
    BY Zenon
  <2> DEFINE w == [my[t] EXCEPT !.needSig = 0]
  <2>1. my[t] \in MyType /\ 0 \in 0 .. MaxBackends /\ my'[t] \in {my[t], w}
    BY <1>1, <1>2
  <2>2. /\ w \in MyType /\ w.n = my[t].n /\ w.nthistime = my[t].nthistime /\ w.i = my[t].i
        /\ w.max = my[t].max /\ w.messages = my[t].messages /\ w.frames = my[t].frames
        /\ w.nummsgs = my[t].nummsgs
    BY <2>1, Zenon DEF MyType
  <2> HIDE DEF w
  <2> QED  BY <2>1, <2>2, Zenon DEF SameWork
<1>9. my' \in [Slots -> MyType]
  <2>1. \A t \in Slots : my'[t] \in MyType
    BY <1>7, <1>8, Zenon
  <2>2. my' = [t \in Slots |-> my'[t]]
    BY <1>1, Zenon
  <2> QED  BY <2>1, <2>2, Zenon
<1>10. Control(s)'
  <2>1. pc'[s] = "exited" /\ procState'[s] = p
    BY <1>1, <1>2, Zenon
  <2>2. Fresh(0).nummsgs <= Len(Fresh(0).messages)
    BY <1>7
  <2> QED  BY <1>3, <1>7, <2>1, <2>2, Zenon DEF Control, Receiver, Writing, Reading, Resume
<1> QED  BY <1>1, <1>3, <1>5, <1>6, <1>8, <1>9, <1>10, EntryStep, Zenon

-----------------------------------------------------------------------------
(* SICleanupQueue, which holds both locks.                                 *)

(* The threshold for the next call is a number.                            *)
LEMMA ThresholdNat ==
    ASSUME NEW k \in Nat
    PROVE  NextThreshold(k) \in Nat
<1>1. CLEANUP_MIN \in Nat /\ CLEANUP_QUANTUM \in Nat \ {0}
  BY SInvalAssumption, Zenon
<1> DEFINE q == k \div CLEANUP_QUANTUM
<1>2. q \in Nat
  BY <1>1
<1> HIDE DEF q
<1>3. (q + 1) * CLEANUP_QUANTUM \in Nat
  BY <1>1, <1>2
<1> QED  BY <1>1, <1>3, Zenon DEF NextThreshold, q

(* What SICleanupQueue does to the numbers: it raises minMsgNum to the     *)
(* least position it keeps, lowers all of them by d, and sets resetState   *)
(* only for readers that have messages left to read.                       *)
LEMMA CleanupEffect ==
    ASSUME WellOrdered, IInv, NEW s \in Slots, SICleanupQueue(s)
    PROVE  \E d, min \in Nat, needSig \in 0 .. MaxBackends :
              /\ d % MAXNUMMESSAGES = 0 /\ d <= min
              /\ minMsgNum <= min /\ min <= maxMsgNum
              /\ minMsgNum' = min - d /\ maxMsgNum' = maxMsgNum - d /\ base' = base + d
              /\ nextThreshold' \in Nat
              /\ procState' \in [Slots -> ProcType]
              /\ \A t \in Slots :
                    /\ procState'[t].procPid = procState[t].procPid
                    /\ procState'[t].sendOnly = procState[t].sendOnly
                    /\ procState'[t].hasMessages = procState[t].hasMessages
                    /\ procState[t].procPid =>
                          procState'[t].nextMsgNum = procState[t].nextMsgNum - d
                    /\ Receiver(t) /\ procState'[t].resetState =>
                          procState[t].resetState \/ procState[t].nextMsgNum < maxMsgNum
                    /\ Receiver(t) /\ ~procState'[t].resetState =>
                          min <= procState[t].nextMsgNum
              /\ \/ /\ SInvalWriteLock' = 0
                    /\ my' = [my EXCEPT ![s].needSig = needSig] /\ Goto(s, "signal")
                 \/ /\ my[s].nthistime > 0 /\ UNCHANGED <<SInvalWriteLock, my>>
                    /\ Goto(s, "space")
                 \/ /\ ~(my[s].nthistime > 0) /\ SInvalWriteLock' = 0
                    /\ my' = [my EXCEPT ![s] = Returned(s)] /\ Goto(s, ReturnTo(s))
<1> DEFINE n(t)     == procState[t].nextMsgNum
           tooFar   == TooFar(maxMsgNum - MAXNUMMESSAGES + my[s].nthistime)
           kept     == Readers \ tooFar
           S        == {maxMsgNum} \cup {n(t) : t \in kept}
           min      == Min(S)
           behind   == {t \in kept : n(t) < maxMsgNum - SIG_THRESHOLD /\ ~procState[t].signaled}
           furthest == {t \in behind : \A u \in behind : n(t) <= n(u)}
           needSig  == IF behind = {} THEN 0 ELSE Min(furthest)
           d        == IF min >= MSGNUMWRAPAROUND THEN MSGNUMWRAPAROUND ELSE 0
           P(t)     == Lowered([procState[t] EXCEPT !.resetState = @ \/ t \in tooFar,
                                                    !.signaled = @ \/ t = needSig], d)
<1>1. /\ minMsgNum' = min - d /\ maxMsgNum' = maxMsgNum - d /\ base' = base + d
      /\ nextThreshold' = NextThreshold(maxMsgNum - min)
      /\ procState' = [t \in Slots |-> IF t > lastBackend THEN procState[t] ELSE P(t)]
      /\ \/ /\ SInvalWriteLock' = 0
            /\ my' = [my EXCEPT ![s].needSig = needSig] /\ Goto(s, "signal")
         \/ /\ my[s].nthistime > 0 /\ UNCHANGED <<SInvalWriteLock, my>>
            /\ Goto(s, "space")
         \/ /\ ~(my[s].nthistime > 0) /\ SInvalWriteLock' = 0
            /\ my' = [my EXCEPT ![s] = Returned(s)] /\ Goto(s, ReturnTo(s))
  BY ZenonT(40) DEF SICleanupQueue
<1>a. pc[s] \in {"clean", "space"}
  BY Zenon DEF SICleanupQueue
<1>2. /\ procState \in [Slots -> ProcType] /\ Control(s) /\ my[s] \in MyType
      /\ minMsgNum \in Nat /\ maxMsgNum \in Nat /\ minMsgNum <= maxMsgNum
      /\ lastBackend \in 0 .. MaxBackends
  BY OfEntry, OfProcess, Zenon DEF IInv, QueueSound, Types, TypeOK
<1>3. my[s].nthistime \in Nat /\ my[s].nthistime <= MAXNUMMESSAGES
  <2>1. my[s].nthistime \in Nat
    BY <1>2, Zenon DEF MyType
  <2>2. my[s].nthistime = 0 \/ my[s].nthistime \in 1 .. WRITE_QUANTUM
    BY <1>a, <1>2, Zenon DEF Control, Writing, Reading
  <2> QED  BY <2>1, <2>2, RingConstants
<1>4. /\ Readers \subseteq Slots /\ \A t \in Slots : n(t) \in Int
      /\ \A t \in Readers : n(t) \in minMsgNum .. maxMsgNum
  <2>1. Readers \subseteq Slots
    BY <1>2, RingConstants DEF Readers, Slots
  <2>2. \A t \in Slots : n(t) \in Int
    BY <1>2, Zenon DEF ProcType
  <2>3. \A t \in Readers : minMsgNum <= n(t) /\ n(t) <= maxMsgNum
    BY <2>1, Zenon DEF Readers, IInv, QueueSound, Receiver
  <2> QED  BY <1>2, <2>1, <2>2, <2>3
<1>5. S \subseteq Nat /\ S # {} /\ \A x \in S : x \in minMsgNum .. maxMsgNum
  BY <1>2, <1>4
<1>6. min \in S /\ \A x \in S : min <= x
  BY <1>5, MinNat, Zenon
<1>7. min \in Nat /\ minMsgNum <= min /\ min <= maxMsgNum /\ \A t \in kept : min <= n(t)
  BY <1>2, <1>4, <1>5, <1>6
<1> HIDE DEF min
<1>8. d \in Nat /\ d % MAXNUMMESSAGES = 0 /\ d <= min
  BY <1>7, RingConstants
<1> HIDE DEF d
<1>9. nextThreshold' \in Nat
  <2>1. maxMsgNum - min \in Nat
    BY <1>2, <1>7
  <2> QED  BY <1>1, <2>1, ThresholdNat, Zenon
<1>10. needSig \in 0 .. MaxBackends
  <2>1. CASE behind = {}
    BY <2>1, RingConstants
  <2>2. CASE behind # {}
    <3> DEFINE B == {n(t) : t \in behind}
    <3>1. behind \subseteq Slots /\ \A t \in behind : n(t) \in Nat
      BY <1>2, <1>4
    <3> HIDE DEF behind
    <3>2. B \subseteq Nat /\ B # {}
      BY <2>2, <3>1, Zenon
    <3>3. Min(B) \in B /\ \A y \in B : Min(B) <= y
      BY <3>2, MinNat, Zenon
    <3>4. PICK t \in behind : n(t) = Min(B)
      BY <3>3, Zenon
    <3>5. t \in furthest
      BY <3>3, <3>4, Zenon
    <3>6. furthest \subseteq behind /\ furthest # {}
      BY <3>5, Zenon
    <3>a. needSig = Min(furthest)
      BY <2>2, Zenon
    <3> HIDE DEF furthest, needSig
    <3>7. furthest \subseteq Nat /\ furthest \subseteq 1 .. MaxBackends
      BY <3>1, <3>6 DEF Slots
    <3>8. Min(furthest) \in furthest
      BY <3>6, <3>7, MinNat, Zenon
    <3>9. \A x \in 1 .. MaxBackends : x \in 0 .. MaxBackends
      BY RingConstants
    <3> QED  BY <3>a, <3>7, <3>8, <3>9, Zenon
  <2> QED  BY <2>1, <2>2, Zenon
<1> HIDE DEF needSig
<1>11. \A t \in Slots : t \in tooFar => t \in Readers /\ n(t) < maxMsgNum
  <2> SUFFICES ASSUME NEW t \in Slots, t \in tooFar PROVE t \in Readers /\ n(t) < maxMsgNum
    BY Zenon
  <2>1. t \in Readers /\ n(t) < maxMsgNum - MAXNUMMESSAGES + my[s].nthistime
    BY Zenon DEF TooFar
  <2> QED  BY <1>2, <1>3, <1>4, <2>1, RingConstants
<1>12. \A t \in Slots :
          /\ P(t) \in ProcType /\ P(t).nextMsgNum = n(t) - d
          /\ P(t).procPid = procState[t].procPid /\ P(t).sendOnly = procState[t].sendOnly
          /\ P(t).hasMessages = procState[t].hasMessages
          /\ P(t).resetState = (procState[t].resetState \/ t \in tooFar)
  <2> SUFFICES ASSUME NEW t \in Slots
               PROVE  /\ P(t) \in ProcType /\ P(t).nextMsgNum = n(t) - d
                      /\ P(t).procPid = procState[t].procPid
                      /\ P(t).sendOnly = procState[t].sendOnly
                      /\ P(t).hasMessages = procState[t].hasMessages
                      /\ P(t).resetState = (procState[t].resetState \/ t \in tooFar)
    BY Zenon
  <2> DEFINE a == (procState[t].resetState \/ t \in tooFar)
             b == (procState[t].signaled \/ t = needSig)
             c == n(t) - d
             x == [procState[t] EXCEPT !.resetState = a]
             y == [x EXCEPT !.signaled = b]
             z == [y EXCEPT !.nextMsgNum = c]
  <2>1. a \in BOOLEAN /\ b \in BOOLEAN /\ procState[t] \in ProcType
    BY <1>2, Zenon
  <2>2. c \in Int
    BY <1>4, <1>8
  <2>3. P(t) = z
    BY <2>1, Zenon DEF Lowered, ProcType
  <2> HIDE DEF a, b, c, P
  <2>4. /\ x \in ProcType /\ x.resetState = a /\ x.procPid = procState[t].procPid
        /\ x.sendOnly = procState[t].sendOnly /\ x.hasMessages = procState[t].hasMessages
    BY <2>1, Zenon DEF ProcType
  <2> HIDE DEF x
  <2>5. /\ y \in ProcType /\ y.resetState = x.resetState /\ y.procPid = x.procPid
        /\ y.sendOnly = x.sendOnly /\ y.hasMessages = x.hasMessages
    BY <2>1, <2>4, Zenon DEF ProcType
  <2> HIDE DEF y
  <2>6. /\ z \in ProcType /\ z.resetState = y.resetState /\ z.procPid = y.procPid
        /\ z.sendOnly = y.sendOnly /\ z.hasMessages = y.hasMessages /\ z.nextMsgNum = c
    BY <2>2, <2>5, Zenon DEF ProcType
  <2> HIDE DEF z
  <2> QED  BY <2>3, <2>4, <2>5, <2>6, Zenon DEF a, c
<1> HIDE DEF P
<1>13. procState' \in [Slots -> ProcType]
  BY <1>1, <1>2, <1>12, Zenon
<1>14. ASSUME NEW t \in Slots
       PROVE  /\ procState'[t].procPid = procState[t].procPid
              /\ procState'[t].sendOnly = procState[t].sendOnly
              /\ procState'[t].hasMessages = procState[t].hasMessages
  BY <1>1, <1>12, Zenon
<1>15. ASSUME NEW t \in Slots, procState[t].procPid
       PROVE  procState'[t] = P(t)
  <2>1. ~(t > lastBackend)
    BY <1>2, <1>15 DEF IInv, Control, Slots
  <2> QED  BY <1>1, <2>1, Zenon
<1>16. ASSUME NEW t \in Slots, Receiver(t), procState'[t].resetState
       PROVE  procState[t].resetState \/ procState[t].nextMsgNum < maxMsgNum
  BY <1>11, <1>12, <1>15, <1>16, Zenon DEF Receiver
<1>17. ASSUME NEW t \in Slots, Receiver(t), ~procState'[t].resetState
       PROVE  min <= procState[t].nextMsgNum
  <2>1. ~procState[t].resetState /\ t \notin tooFar
    BY <1>12, <1>15, <1>17, Zenon DEF Receiver
  <2>2. t \in Readers
    BY <1>2, <1>17, <2>1 DEF Readers, Receiver, IInv, Control, Slots
  <2> QED  BY <1>7, <2>1, <2>2, Zenon
<1>18. ASSUME NEW t \in Slots, procState[t].procPid
       PROVE  procState'[t].nextMsgNum = procState[t].nextMsgNum - d
  BY <1>12, <1>15, <1>18, Zenon
<1>19. \A t \in Slots :
          /\ procState'[t].procPid = procState[t].procPid
          /\ procState'[t].sendOnly = procState[t].sendOnly
          /\ procState'[t].hasMessages = procState[t].hasMessages
          /\ procState[t].procPid => procState'[t].nextMsgNum = procState[t].nextMsgNum - d
          /\ Receiver(t) /\ procState'[t].resetState =>
                procState[t].resetState \/ procState[t].nextMsgNum < maxMsgNum
          /\ Receiver(t) /\ ~procState'[t].resetState => min <= procState[t].nextMsgNum
  BY <1>14, <1>16, <1>17, <1>18, Zenon
<1> HIDE DEF tooFar, kept, S, behind, furthest
<1> d \in Nat /\ min \in Nat /\ needSig \in 0 .. MaxBackends
  BY <1>7, <1>8, <1>10, Zenon
<1> WITNESS d \in Nat, min \in Nat, needSig \in 0 .. MaxBackends
<1> QED  BY <1>1, <1>7, <1>8, <1>9, <1>13, <1>19, Zenon

(* How SICleanupQueue goes on: to the signal, back to the writer's loop,   *)
(* or out of the receive call that passed the signal on.                   *)
LEMMA CleanupLocals ==
    ASSUME IInv, NEW s \in Slots, pc[s] \in {"clean", "space"},
           NEW needSig \in 0 .. MaxBackends,
           \/ /\ SInvalWriteLock' = 0
              /\ my' = [my EXCEPT ![s].needSig = needSig] /\ Goto(s, "signal")
           \/ /\ my[s].nthistime > 0 /\ UNCHANGED <<SInvalWriteLock, my>>
              /\ Goto(s, "space")
           \/ /\ ~(my[s].nthistime > 0) /\ SInvalWriteLock' = 0
              /\ my' = [my EXCEPT ![s] = Returned(s)] /\ Goto(s, ReturnTo(s))
    PROVE  \E v \in MyType, l \in Resume \cup {"signal", "space", "idle"} :
              /\ my' = [my EXCEPT ![s] = v] /\ pc' = [pc EXCEPT ![s] = l]
              /\ v.nthistime = my[s].nthistime /\ v.i = my[s].i
              /\ v.messages = my[s].messages /\ v.nummsgs = my[s].nummsgs
              /\ l = "signal" => v.frames = my[s].frames
              /\ l = "space" => my[s].nthistime > 0 /\ SInvalWriteLock' = SInvalWriteLock
              /\ l \in Resume => my[s].nthistime = 0 /\ v.frames # <<>>
              /\ l = "idle" => my[s].nthistime = 0
              /\ SInvalWriteLock' \in 0 .. MaxBackends
<1>1. /\ my \in [Slots -> MyType] /\ my[s] \in MyType /\ Control(s)
      /\ SInvalWriteLock \in 0 .. MaxBackends /\ 0 \in 0 .. MaxBackends
  BY OfProcess, RingConstants
<1>2. CASE /\ SInvalWriteLock' = 0
           /\ my' = [my EXCEPT ![s].needSig = needSig] /\ Goto(s, "signal")
  <2> DEFINE v == [my[s] EXCEPT !.needSig = needSig]
  <2>1. /\ v \in MyType /\ v.nthistime = my[s].nthistime /\ v.i = my[s].i
        /\ v.messages = my[s].messages /\ v.nummsgs = my[s].nummsgs
        /\ v.frames = my[s].frames
    BY <1>1, Zenon DEF MyType
  <2>2. my' = [my EXCEPT ![s] = v]
    BY <1>2, Zenon
  <2> HIDE DEF v
  <2>3. "signal" \in Resume \cup {"signal", "space", "idle"} /\ "signal" \notin Resume
    BY Zenon DEF Resume
  <2> QED  BY <1>1, <1>2, <2>1, <2>2, <2>3, Zenon DEF Goto
<1>3. CASE /\ my[s].nthistime > 0 /\ UNCHANGED <<SInvalWriteLock, my>>
           /\ Goto(s, "space")
  <2>1. my' = [my EXCEPT ![s] = my[s]]
    BY <1>1, <1>3, Zenon
  <2>2. "space" \in Resume \cup {"signal", "space", "idle"} /\ "space" \notin Resume
    BY Zenon DEF Resume
  <2> QED  BY <1>1, <1>3, <2>1, <2>2, Zenon DEF Goto
<1>4. CASE /\ ~(my[s].nthistime > 0) /\ SInvalWriteLock' = 0
           /\ my' = [my EXCEPT ![s] = Returned(s)] /\ Goto(s, ReturnTo(s))
  <2>1. my[s].nthistime = 0
    BY <1>1, <1>4 DEF MyType
  <2>2. pc[s] # "space"
    BY <1>1, <2>1 DEF Control, Writing
  <2>3. my[s].frames # <<>>
    BY <1>1, <2>2, Zenon DEF Control, Reading
  <2> DEFINE v == Returned(s)  l == ReturnTo(s)
  <2>4. /\ v \in MyType /\ l \in Resume \cup {"idle"} /\ (l # "idle" => v.frames # <<>>)
        /\ v.nthistime = my[s].nthistime /\ v.i = my[s].i
        /\ v.messages = my[s].messages /\ v.nummsgs = my[s].nummsgs
    BY <2>3, ReturnLocals, Zenon
  <2>5. my' = [my EXCEPT ![s] = v] /\ pc' = [pc EXCEPT ![s] = l] /\ SInvalWriteLock' = 0
    BY <1>4, Zenon DEF Goto
  <2> HIDE DEF v, l
  <2>6. l \notin {"signal", "space"} /\ (l \in Resume => l # "idle")
    BY <2>4, Zenon DEF Resume
  <2> QED  BY <1>1, <2>1, <2>4, <2>5, <2>6, Zenon
<1> QED  BY <1>2, <1>3, <1>4, Zenon

(* SICleanupQueue: with both locks held nobody else writes or reads, so    *)
(* that the numbers can be lowered together.                               *)
LEMMA SICleanupQueueStep ==
    ASSUME WellOrdered, IInv, NEW s \in Slots, SICleanupQueue(s)
    PROVE  IInv'
<1>1. PICK d \in Nat, min \in Nat, needSig \in 0 .. MaxBackends :
        /\ d % MAXNUMMESSAGES = 0 /\ d <= min
        /\ minMsgNum <= min /\ min <= maxMsgNum
        /\ minMsgNum' = min - d /\ maxMsgNum' = maxMsgNum - d /\ base' = base + d
        /\ nextThreshold' \in Nat
        /\ procState' \in [Slots -> ProcType]
        /\ \A t \in Slots :
              /\ procState'[t].procPid = procState[t].procPid
              /\ procState'[t].sendOnly = procState[t].sendOnly
              /\ procState'[t].hasMessages = procState[t].hasMessages
              /\ procState[t].procPid => procState'[t].nextMsgNum = procState[t].nextMsgNum - d
              /\ Receiver(t) /\ procState'[t].resetState =>
                    procState[t].resetState \/ procState[t].nextMsgNum < maxMsgNum
              /\ Receiver(t) /\ ~procState'[t].resetState => min <= procState[t].nextMsgNum
        /\ \/ /\ SInvalWriteLock' = 0
              /\ my' = [my EXCEPT ![s].needSig = needSig] /\ Goto(s, "signal")
           \/ /\ my[s].nthistime > 0 /\ UNCHANGED <<SInvalWriteLock, my>>
              /\ Goto(s, "space")
           \/ /\ ~(my[s].nthistime > 0) /\ SInvalWriteLock' = 0
              /\ my' = [my EXCEPT ![s] = Returned(s)] /\ Goto(s, ReturnTo(s))
  BY CleanupEffect, ZenonT(40)
<1>2. /\ pc[s] \in {"clean", "space"} /\ SInvalReadLock = {}
      /\ UNCHANGED <<lastBackend, buffer, SInvalReadLock, announced>>
  BY Zenon DEF SICleanupQueue
<1>3. PICK v \in MyType, l \in Resume \cup {"signal", "space", "idle"} :
        /\ my' = [my EXCEPT ![s] = v] /\ pc' = [pc EXCEPT ![s] = l]
        /\ v.nthistime = my[s].nthistime /\ v.i = my[s].i
        /\ v.messages = my[s].messages /\ v.nummsgs = my[s].nummsgs
        /\ l = "signal" => v.frames = my[s].frames
        /\ l = "space" => my[s].nthistime > 0 /\ SInvalWriteLock' = SInvalWriteLock
        /\ l \in Resume => my[s].nthistime = 0 /\ v.frames # <<>>
        /\ l = "idle" => my[s].nthistime = 0
        /\ SInvalWriteLock' \in 0 .. MaxBackends
  BY <1>1, <1>2, CleanupLocals, Zenon
<1>4. /\ my \in [Slots -> MyType] /\ pc \in [Slots -> PcValues] /\ Control(s)
      /\ procState \in [Slots -> ProcType] /\ \A t \in Slots : procState[t].nextMsgNum \in Int
      /\ minMsgNum \in Nat /\ maxMsgNum \in Nat /\ base \in Nat /\ announced \in Nat
      /\ my[s].nthistime \in Nat /\ my[s] \in MyType
  <2>1. procState \in [Slots -> ProcType] /\ my[s] \in MyType
    BY OfEntry, OfProcess, Zenon
  <2>2. \A t \in Slots : procState[t].nextMsgNum \in Int
    BY <2>1, Zenon DEF ProcType
  <2>3. my[s].nthistime \in Nat
    BY <2>1, Zenon DEF MyType
  <2> QED  BY <2>1, <2>2, <2>3, OfProcess, Zenon
<1>5. SInvalWriteLock = s
  BY <1>2, <1>4, Zenon DEF Control
<1>6. /\ my'[s] = v /\ pc'[s] = l /\ pc' \in [Slots -> PcValues] /\ my' \in [Slots -> MyType]
      /\ \A t \in Slots : t # s => pc'[t] = pc[t] /\ my'[t] = my[t]
  BY <1>3, <1>4, Zenon DEF PcValues, Resume
<1>7. \A t \in Slots : /\ pc[t] \notin {"publish", "kick", "max", "read"}
                       /\ pc'[t] \notin {"publish", "kick", "max", "read"}
  <2> SUFFICES ASSUME NEW t \in Slots
               PROVE  /\ pc[t] \notin {"publish", "kick", "max", "read"}
                      /\ pc'[t] \notin {"publish", "kick", "max", "read"}
    BY Zenon
  <2>1. pc[t] \notin {"max", "read"}
    BY <1>2, Zenon DEF IInv, Control
  <2>2. t # s => pc[t] \notin {"publish", "kick"}
    BY <1>5, OneWriter, Zenon
  <2>3. l \notin {"publish", "kick", "max", "read"}
    BY <1>3, Zenon DEF Resume
  <2> QED  BY <1>2, <1>6, <2>1, <2>2, <2>3, Zenon
<1>8. \A t \in Slots : Receiver(t)' <=> Receiver(t)
  BY <1>1, Zenon DEF Receiver
<1>9. announced = base + maxMsgNum
  BY <1>7, Zenon DEF IInv, Announced
<1>10. Types'
  <2>1. minMsgNum' \in Nat /\ maxMsgNum' \in Nat /\ base' \in Nat
    BY <1>1, <1>4
  <2>2. procState' \in [Slots -> [procPid : BOOLEAN, nextMsgNum : Int, resetState : BOOLEAN,
                           signaled : BOOLEAN, hasMessages : BOOLEAN, sendOnly : BOOLEAN]]
    BY <1>1, Zenon DEF ProcType
  <2> QED  BY <1>1, <1>2, <1>3, <1>6, <2>1, <2>2, Zenon DEF IInv, Types, TypeOK
<1>11. Control(s)'
  <2>1. procState'[s].procPid = procState[s].procPid
    BY <1>1, Zenon
  <2>2. my[s].nthistime = 0 => pc[s] = "clean"
    BY <1>2, <1>4 DEF Control, Writing
  <2>3. my[s].nthistime > 0 => my[s].nthistime \in 1 .. WRITE_QUANTUM
    BY <1>2, <1>4 DEF Control, Writing, Reading
  <2>4. my[s].nthistime <= WRITE_QUANTUM
    BY <1>4, <2>3, RingConstants
  <2>5. /\ pc[s] = "clean" => Receiver(s) /\ my[s].frames # <<>>
        /\ my[s].i = 0 /\ procState[s].procPid /\ s <= lastBackend
        /\ ~Receiver(s) => my[s].messages = <<>>
        /\ my[s].nummsgs <= Len(my[s].messages)
    BY <1>2, <1>4, Zenon DEF Control, Reading
  <2>6. l \in Resume \/ l = "idle" => my[s].nthistime = 0
    BY <1>3, Zenon
  <2> QED  BY <1>2, <1>3, <1>5, <1>6, <1>8, <2>1, <2>2, <2>3, <2>4, <2>5, <2>6, Zenon
           DEF Control, Writing, Reading, Resume
<1>12. \A t \in Slots : Control(t)'
  <2> SUFFICES ASSUME NEW t \in Slots, t # s PROVE Control(t)'
    BY <1>11, Zenon
  <2>1. Control(t) /\ pc'[t] = pc[t] /\ my'[t] = my[t]
    BY <1>6, Zenon DEF IInv
  <2>2. pc[t] \notin {"space", "publish", "kick", "clean"}
    BY <1>5, OneWriter, Zenon
  <2>3. procState'[t].procPid = procState[t].procPid
    BY <1>1, Zenon
  <2> QED  BY <1>2, <1>8, <2>1, <2>2, <2>3, Zenon DEF Control
<1>13. QueueSound'
  <2>1. minMsgNum' <= maxMsgNum' /\ maxMsgNum' - minMsgNum' <= MAXNUMMESSAGES
    <3>1. maxMsgNum - minMsgNum <= MAXNUMMESSAGES
      BY Zenon DEF IInv, QueueSound
    <3> QED  BY <1>1, <1>4, <3>1, RingConstants
  <2>2. ASSUME NEW t \in Slots, Receiver(t)', ~procState'[t].resetState
        PROVE  minMsgNum' <= procState'[t].nextMsgNum /\ procState'[t].nextMsgNum <= maxMsgNum'
    <3>1. Receiver(t) /\ procState[t].procPid
      BY <1>8, <2>2, Zenon DEF Receiver
    <3>2. min <= procState[t].nextMsgNum /\ procState'[t].nextMsgNum = procState[t].nextMsgNum - d
      BY <1>1, <2>2, <3>1, Zenon
    <3>3. procState[t].nextMsgNum <= maxMsgNum
      BY <3>1, Zenon DEF IInv, Position
    <3> QED  BY <1>1, <1>4, <3>2, <3>3
  <2>3. ASSUME NEW m \in minMsgNum' .. maxMsgNum' - 1
        PROVE  buffer'[m % MAXNUMMESSAGES] = base' + m
    <3> DEFINE a == m + d
    <3>1. a \in minMsgNum .. maxMsgNum - 1 /\ a \in Nat /\ d <= a /\ a - d = m /\ m \in Nat
      BY <1>1, <1>4, <2>3
    <3> HIDE DEF a
    <3>2. (a - d) % MAXNUMMESSAGES = a % MAXNUMMESSAGES
      BY <1>1, <3>1, RingConstants, RingLowered, Zenon
    <3>3. buffer[a % MAXNUMMESSAGES] = base + a
      BY <3>1, Zenon DEF IInv, QueueSound
    <3>4. base + a = base' + m
      BY <1>1, <1>4, <3>1
    <3> QED  BY <1>2, <3>1, <3>2, <3>3, <3>4, Zenon
  <2> QED  BY <2>1, <2>2, <2>3, Zenon DEF QueueSound
<1>14. \A t \in Slots : Filled(t)' /\ Position(t)'
  <2> SUFFICES ASSUME NEW t \in Slots PROVE Filled(t)' /\ Position(t)'
    BY Zenon
  <2>1. ASSUME Receiver(t)' PROVE procState'[t].nextMsgNum <= maxMsgNum'
    <3>1. Receiver(t) /\ procState[t].procPid
      BY <1>8, <2>1, Zenon DEF Receiver
    <3>2. procState'[t].nextMsgNum = procState[t].nextMsgNum - d
      BY <1>1, <3>1, Zenon
    <3>3. procState[t].nextMsgNum <= maxMsgNum
      BY <3>1, Zenon DEF IInv, Position
    <3> QED  BY <1>1, <1>4, <3>2, <3>3
  <2> QED  BY <1>7, <2>1, Zenon DEF Filled, Position
<1>15. NoLostWakeup'
  <2> SUFFICES ASSUME NEW t \in Slots, Receiver(t)',
                      procState'[t].resetState \/ base' + procState'[t].nextMsgNum < announced'
               PROVE  procState'[t].hasMessages
    BY Zenon DEF NoLostWakeup
  <2>1. Receiver(t) /\ procState[t].procPid
    BY <1>8, Zenon DEF Receiver
  <2>2. procState'[t].nextMsgNum = procState[t].nextMsgNum - d /\ base' = base + d
    BY <1>1, <2>1, Zenon
  <2>3. base' + procState'[t].nextMsgNum = base + procState[t].nextMsgNum
    BY <1>4, <2>2
  <2>4. procState[t].resetState \/ base + procState[t].nextMsgNum < announced
    <3>1. CASE procState'[t].resetState
      <4>1. procState[t].resetState \/ procState[t].nextMsgNum < maxMsgNum
        BY <1>1, <2>1, <3>1, Zenon
      <4>2. procState[t].nextMsgNum < maxMsgNum => base + procState[t].nextMsgNum < announced
        BY <1>4, <1>9
      <4> QED  BY <4>1, <4>2, Zenon
    <3>2. CASE base' + procState'[t].nextMsgNum < announced'
      BY <1>2, <2>3, <3>2, Zenon
    <3> QED  BY <3>1, <3>2, Zenon
  <2>5. procState[t].hasMessages
    BY <1>7, <2>1, <2>4, Zenon DEF IInv, NoLostWakeup
  <2> QED  BY <1>1, <2>5, Zenon
<1>16. Announced' /\ \A t \in Slots : Told(t)'
  <2>1. announced' = base' + maxMsgNum'
    BY <1>1, <1>2, <1>4, <1>9
  <2>2. base' + maxMsgNum' \in Nat
    BY <1>1, <1>4
  <2> QED  BY <1>7, <2>1, <2>2 DEF Announced, Told
<1> QED  BY <1>10, <1>12, <1>13, <1>14, <1>15, <1>16, Zenon DEF IInv

-----------------------------------------------------------------------------
(* The invariant holds throughout.                                         *)

(* CreateSharedInvalidationState establishes it.                           *)
LEMMA InitStep == Init => IInv
<1> SUFFICES ASSUME Init PROVE IInv
  BY Zenon
<1> USE DEF Init
<1>1. Fresh(0) \in MyType /\ Fresh(0).nthistime = 0 /\ Fresh(0).i = 0
      /\ Fresh(0).messages = <<>> /\ Fresh(0).nummsgs = 0
  BY FreshType
<1>2. \A t \in Slots : my[t] = Fresh(0) /\ pc[t] = "exited" /\ ~procState[t].procPid
  BY Zenon
<1>3. Types
  <2>1. CLEANUP_MIN \in Nat /\ MaxBackends \in Nat /\ Reset \in Int
    BY SInvalAssumption DEF Reset
  <2>2. buffer \in [0 .. MAXNUMMESSAGES - 1 -> Int]
    BY <2>1, Zenon
  <2>3. my \in [Slots -> MyType] /\ pc \in [Slots -> PcValues]
    BY <1>1, Zenon DEF PcValues
  <2> QED  BY <2>1, <2>2, <2>3 DEF Types, TypeOK
<1>4. \A t \in Slots : Control(t)
  <2>1. 0 <= Len(<<>>)
    OBVIOUS
  <2> QED  BY <1>1, <1>2, <2>1, Zenon DEF Control, Receiver, Writing, Reading, Resume
<1>5. QueueSound
  BY <1>2, RingConstants DEF QueueSound, Receiver
<1>6. \A t \in Slots : Filled(t) /\ Position(t) /\ Told(t)
  BY <1>2, Zenon DEF Filled, Position, Told, Receiver
<1>7. NoLostWakeup /\ Announced
  BY <1>2 DEF NoLostWakeup, Announced, Receiver
<1> QED  BY <1>3, <1>4, <1>5, <1>6, <1>7, Zenon DEF IInv

(* Every step keeps it.                                                    *)
LEMMA NextStep ==
    ASSUME WellOrdered, IInv, [Next]_vars
    PROVE  IInv'
<1>1. CASE UNCHANGED vars
  <2>1. UNCHANGED vars
    BY <1>1, Zenon
  <2>2. Types' /\ Announced' /\ QueueSound'
    BY <2>1, Zenon DEF vars, seg, locks, IInv, Types, TypeOK, Announced, QueueSound, Receiver
  <2>3. \A s \in Slots : Control(s)'
    BY <2>1 DEF vars, seg, locks, IInv, Control, Receiver
  <2>4. \A s \in Slots : Filled(s)' /\ Position(s)'
    BY <2>1, Zenon DEF vars, seg, IInv, Filled, Position, Receiver
  <2>5. NoLostWakeup' /\ \A s \in Slots : Told(s)'
    BY <2>1, Zenon DEF vars, seg, IInv, NoLostWakeup, Told, WillSee, Receiver
  <2> QED  BY <2>2, <2>3, <2>4, <2>5, Zenon DEF IInv
<1>2. CASE SharedInvalBackendInit
  BY <1>2, BackendInitStep, Zenon
<1>3. ASSUME NEW s \in Slots, CleanupInvalidationState(s) PROVE IInv'
  BY <1>3, BackendExitStep, Zenon
<1>4. ASSUME NEW s \in Slots, SendSharedInvalidMessages(s) PROVE IInv'
  BY <1>4, SendStep, Zenon
<1>5. ASSUME NEW s \in Slots, AcceptInvalidationMessages(s) PROVE IInv'
  BY <1>5, AcceptStep, Zenon
<1>6. ASSUME NEW s \in Slots, Step(s) PROVE IInv'
  BY <1>6, InsertChunkStep, FillStep, PublishStep, KickStep, KickedStep, InvalFunctionStep,
     NothingToReadStep, BeginReadStep, FetchMaxStep, ReadResetStep, ReadMessagesStep,
     CaughtUpStep, PassItOnStep, TakeWriteLockStep, SICleanupQueueStep, SendCatchupStep, Zenon
     DEF Step
<1> QED  BY <1>1, <1>2, <1>3, <1>4, <1>5, <1>6, Zenon DEF Next

-----------------------------------------------------------------------------
(* ReceiveSharedInvalidMessages and its recursive calls.                   *)

(* A backend that has taken the messages below next out of the queue has   *)
(* handed them to callbacks or still has them in the static buffer.        *)
InHandOf(v, next) ==
    LET left == v.nummsgs - v.nextmsg
    IN  /\ left >= 0
        /\ v.processed + left = next
        /\ \A k \in 1 .. left : v.messages[v.nextmsg + k] = v.processed + k - 1

InHand(s) == Receiver(s) => InHandOf(my[s], base + procState[s].nextMsgNum)

(* The calls that are active: an inner one was entered later.              *)
Nested(f) ==
    /\ \A i \in DOMAIN f : f[i].goal <= announced
    /\ \A i, j \in DOMAIN f : i <= j => f[j].goal <= f[i].goal

(* The innermost call has done its work and is only to clean up.           *)
Ending(s) ==
    \/ pc[s] \in {"caughtup", "wlock", "clean"}
    \/ (pc[s] = "signal" /\ my[s].nthistime = 0)

(* What the innermost call owes is in the static buffer, is what the next  *)
(* read will give, or has been processed.                                  *)
Goals(s) ==
    /\ Nested(my[s].frames)
    /\ Ending(s) => Exhausted(s) /\ my[s].processed >= my[s].frames[1].goal
    /\ pc[s] = "process" /\ ~MoreToRead(s) =>
          base + procState[s].nextMsgNum >= my[s].frames[1].goal
    /\ pc[s] = "read" => base + my[s].max >= my[s].frames[1].goal

Receiving == \A s \in Slots : InHand(s) /\ Goals(s)

Frames == Seq([at : Resume, goal : Nat])

(* The innermost call returns.                                             *)
LEMMA PopGoals ==
    ASSUME NEW f \in Frames, f # <<>>
    PROVE  /\ Len(Tail(f)) = Len(f) - 1 /\ Len(f) \in Nat \ {0}
           /\ \A i \in 1 .. Len(f) - 1 : Tail(f)[i] = f[i + 1]
           /\ \A i \in 1 .. Len(f) : f[i].goal \in Nat
           /\ DOMAIN f = 1 .. Len(f) /\ DOMAIN Tail(f) = 1 .. Len(f) - 1
<1> DEFINE F == [at : Resume, goal : Nat]
<1>1. f \in Seq(F)
  BY Zenon DEF Frames
<1>2. \A x \in F : x.goal \in Nat
  BY Zenon
<1> HIDE DEF F
<1>3. Len(f) \in Nat \ {0} /\ DOMAIN f = 1 .. Len(f) /\ \A i \in 1 .. Len(f) : f[i] \in F
  BY <1>1
<1>4. Tail(f) \in Seq(F) /\ Len(Tail(f)) = Len(f) - 1
  BY <1>1
<1>5. \A i \in 1 .. Len(f) - 1 : Tail(f)[i] = f[i + 1]
  BY <1>1, <1>3
<1>6. DOMAIN Tail(f) = 1 .. Len(f) - 1
  BY <1>4
<1> QED  BY <1>2, <1>3, <1>4, <1>5, <1>6, Zenon

(* The length and the entries of a concatenation.                          *)
LEMMA Concatenation ==
    ASSUME NEW F, NEW p \in Seq(F), NEW q \in Seq(F)
    PROVE  /\ p \o q \in Seq(F) /\ Len(p \o q) = Len(p) + Len(q)
           /\ \A i \in 1 .. Len(p) + Len(q) :
                 (p \o q)[i] = IF i <= Len(p) THEN p[i] ELSE q[i - Len(p)]
  OBVIOUS

(* Two entries in front of a sequence.                                     *)
LEMMA InFront ==
    ASSUME NEW F, NEW a \in F, NEW b \in F, NEW q \in Seq(F)
    PROVE  LET g == <<a>> \o <<b>> \o q
           IN  /\ DOMAIN g = 1 .. Len(q) + 2 /\ g[1] = a /\ g[2] = b
               /\ \A i \in 3 .. Len(q) + 2 : g[i] = q[i - 2]
<1> DEFINE p == <<a>> \o <<b>>
           g == p \o q
<1>1. p \in Seq(F) /\ Len(p) = 2 /\ p[1] = a /\ p[2] = b
  OBVIOUS
<1> HIDE DEF p
<1>2. g \in Seq(F) /\ Len(g) = Len(p) + Len(q)
  BY <1>1, Concatenation, Zenon
<1>3. \A i \in 1 .. Len(p) + Len(q) : g[i] = IF i <= Len(p) THEN p[i] ELSE q[i - Len(p)]
  BY <1>1, Concatenation, Zenon
<1> HIDE DEF g
<1>4. Len(q) \in Nat /\ Len(p) + Len(q) = Len(q) + 2 /\ DOMAIN g = 1 .. Len(q) + 2
  BY <1>1, <1>2
<1>5. g[1] = a /\ g[2] = b /\ \A i \in 3 .. Len(q) + 2 : g[i] = q[i - 2]
  BY <1>1, <1>3, <1>4
<1> QED  BY <1>4, <1>5, Zenon DEF g, p

(* A call made by a callback is entered.                                   *)
LEMMA PushGoals ==
    ASSUME NEW F, NEW f \in Seq(F), f # <<>>,
           NEW a \in F, NEW b \in F, b.goal = Head(f).goal
    PROVE  LET g == <<a>> \o <<b>> \o Tail(f)
           IN  /\ DOMAIN g = 1 .. Len(f) + 1 /\ g[1] = a
               /\ \A i \in 2 .. Len(f) + 1 : g[i].goal = f[i - 1].goal
<1> DEFINE q == Tail(f)
           g == <<a>> \o <<b>> \o q
<1>1. /\ q \in Seq(F) /\ Len(f) \in Nat \ {0} /\ Len(q) = Len(f) - 1 /\ Head(f) = f[1]
  OBVIOUS
<1>2. \A i \in 1 .. Len(f) - 1 : q[i] = f[i + 1]
  OBVIOUS
<1> HIDE DEF q
<1>3. /\ DOMAIN g = 1 .. Len(q) + 2 /\ g[1] = a /\ g[2] = b
      /\ \A i \in 3 .. Len(q) + 2 : g[i] = q[i - 2]
  BY <1>1, InFront
<1> HIDE DEF g
<1>4. Len(q) + 2 = Len(f) + 1
  BY <1>1
<1>5. ASSUME NEW i \in 2 .. Len(f) + 1 PROVE g[i].goal = f[i - 1].goal
  <2>1. CASE i = 2
    <3>1. i - 1 = 1
      BY <2>1
    <3> QED  BY <1>1, <1>3, <2>1, <3>1, Zenon
  <2>2. CASE i # 2
    <3>1. i \in 3 .. Len(q) + 2 /\ i - 2 \in 1 .. Len(f) - 1 /\ (i - 2) + 1 = i - 1
      BY <1>1, <1>4, <2>2
    <3>2. g[i] = f[(i - 2) + 1]
      BY <1>2, <1>3, <3>1, Zenon
    <3> QED  BY <3>1, <3>2, Zenon
  <2> QED  BY <2>1, <2>2, Zenon
<1> QED  BY <1>3, <1>4, <1>5, Zenon DEF g, q

(* The fields ReceiveSharedInvalidMessages works with.                     *)
SameReceive(t) ==
    /\ my'[t].messages = my[t].messages /\ my'[t].nextmsg = my[t].nextmsg
    /\ my'[t].nummsgs = my[t].nummsgs /\ my'[t].processed = my[t].processed
    /\ my'[t].frames = my[t].frames /\ my'[t].max = my[t].max

(* Messages that are announced later than a call began do not concern it.  *)
LEMMA NestedKept ==
    ASSUME NEW f \in Frames, Nested(f), announced \in Nat, announced' \in Nat,
           announced <= announced', NEW g, g = f
    PROVE  /\ \A i \in DOMAIN g : g[i].goal <= announced'
           /\ \A i, j \in DOMAIN g : i <= j => g[j].goal <= g[i].goal
<1>1. CASE f = <<>>
  BY <1>1
<1>2. CASE f # <<>>
  <2>1. DOMAIN f = 1 .. Len(f) /\ \A i \in 1 .. Len(f) : f[i].goal \in Nat
    BY <1>2, PopGoals, Zenon
  <2> QED  BY <2>1 DEF Nested
<1> QED  BY <1>1, <1>2, Zenon

(* The static buffer and what the backend has read stay as they are.       *)
LEMMA BufferKept ==
    ASSUME NEW t, InHand(t), NEW v, my'[t] = v,
           v.messages = my[t].messages, v.nextmsg = my[t].nextmsg,
           v.nummsgs = my[t].nummsgs, v.processed = my[t].processed,
           Receiver(t)' => Receiver(t)
                           /\ base' + procState'[t].nextMsgNum = base + procState[t].nextMsgNum
    PROVE  InHand(t)'
<1> SUFFICES ASSUME Receiver(t)' PROVE InHandOf(v, base' + procState'[t].nextMsgNum)
  BY Zenon DEF InHand
<1>1. InHandOf(my[t], base' + procState'[t].nextMsgNum)
  BY Zenon DEF InHand
<1> QED  BY <1>1, Zenon DEF InHandOf

(* A step that leaves the receive calls of t alone.                        *)
LEMMA ReceiveKept ==
    ASSUME IInv, NEW t \in Slots, InHand(t), Goals(t), SameReceive(t),
           announced' \in Nat, announced <= announced',
           Receiver(t)' => Receiver(t)
                           /\ base' + procState'[t].nextMsgNum = base + procState[t].nextMsgNum,
           Ending(t)' => Ending(t),
           pc'[t] = "process" => pc[t] = "process" /\ Receiver(t)',
           pc'[t] = "read" => pc[t] = "read" /\ base' = base
    PROVE  InHand(t)' /\ Goals(t)'
<1>1. InHand(t)'
  BY Zenon DEF InHand, InHandOf, SameReceive
<1>2. my[t].frames \in Frames
  BY OfProcess, Zenon DEF MyType, Frames
<1>3. Nested(my[t].frames)'
  <2>1. Nested(my[t].frames) /\ announced \in Nat /\ my'[t].frames = my[t].frames
    BY OfProcess, Zenon DEF Goals, SameReceive
  <2> QED  BY <1>2, <2>1, NestedKept, Zenon DEF Nested
<1>4. (Ending(t) => Exhausted(t) /\ my[t].processed >= my[t].frames[1].goal)'
  BY Zenon DEF Goals, SameReceive, Exhausted
<1>5. (pc[t] = "process" /\ ~MoreToRead(t) =>
          base + procState[t].nextMsgNum >= my[t].frames[1].goal)'
  BY Zenon DEF Goals, SameReceive, MoreToRead
<1>6. (pc[t] = "read" => base + my[t].max >= my[t].frames[1].goal)'
  BY Zenon DEF Goals, SameReceive
<1> QED  BY <1>1, <1>3, <1>4, <1>5, <1>6, Zenon DEF Goals

(* A step of s alone, in the part about the other processes.               *)
LEMMA OthersReceive ==
    ASSUME IInv, Receiving, NEW s \in Slots,
           \A t \in Slots : t # s => SameReceive(t) /\ pc'[t] = pc[t]
                                     /\ my'[t].nthistime = my[t].nthistime,
           \A t \in Slots : t # s => procState'[t].procPid = procState[t].procPid
                                     /\ procState'[t].sendOnly = procState[t].sendOnly
                                     /\ procState'[t].nextMsgNum = procState[t].nextMsgNum,
           base' = base, announced' \in Nat, announced <= announced'
    PROVE  \A t \in Slots : t # s => InHand(t)' /\ Goals(t)'
<1> SUFFICES ASSUME NEW t \in Slots, t # s PROVE InHand(t)' /\ Goals(t)'
  BY Zenon
<1>1. SameReceive(t) /\ pc'[t] = pc[t] /\ my'[t].nthistime = my[t].nthistime
  BY Zenon
<1>2. (Receiver(t)' <=> Receiver(t)) /\ base' + procState'[t].nextMsgNum = base + procState[t].nextMsgNum
  BY Zenon DEF Receiver
<1>3. Ending(t)' => Ending(t)
  BY <1>1, Zenon DEF Ending
<1>4. pc[t] = "process" => Receiver(t)
  BY OfProcess, Zenon DEF Control, Reading, Resume
<1>5. InHand(t) /\ Goals(t)
  BY Zenon DEF Receiving
<1> QED  BY <1>1, <1>2, <1>3, <1>4, <1>5, ReceiveKept, Zenon

(* The same when only the locals of s change.                              *)
LEMMA OwnReceive ==
    ASSUME IInv, Receiving, NEW s \in Slots, NEW v \in MyType, NEW l \in PcValues,
           my' = [my EXCEPT ![s] = v], pc' = [pc EXCEPT ![s] = l],
           \A t \in Slots : t # s => procState'[t] = procState[t],
           base' = base, announced' \in Nat, announced <= announced'
    PROVE  /\ my'[s] = v /\ pc'[s] = l
           /\ \A t \in Slots : t # s => InHand(t)' /\ Goals(t)'
<1>1. my'[s] = v /\ pc'[s] = l
  BY OfProcess, Zenon
<1>2. \A t \in Slots : t # s => my'[t] = my[t] /\ pc'[t] = pc[t]
  BY OfProcess, Zenon
<1>3. \A t \in Slots : t # s => SameReceive(t) /\ pc'[t] = pc[t] /\ my'[t].nthistime = my[t].nthistime
  BY <1>2, Zenon DEF SameReceive
<1>4. \A t \in Slots : t # s => InHand(t)' /\ Goals(t)'
  BY <1>3, OthersReceive, Zenon
<1> QED  BY <1>1, <1>4, Zenon

(* A callback, from the loop l, with the locals v: it returns to the loop, *)
(* or the messages left in the static buffer are those of a nested call.   *)
LEMMA CallbackReceive ==
    ASSUME IInv, NEW s \in Slots, NEW v \in MyType, NEW l \in Resume, Callback(s, l, v),
           v.frames # <<>>, Nested(v.frames), announced' = announced,
           InHandOf(v, base' + procState'[s].nextMsgNum),
           l = "process" /\ v.nummsgs # MAXINVALMSGS =>
              base' + procState'[s].nextMsgNum >= v.frames[1].goal,
           l = "caughtup" => v.nextmsg >= v.nummsgs /\ v.processed >= v.frames[1].goal
    PROVE  InHand(s)' /\ Goals(s)'
<1>1. CASE my' = [my EXCEPT ![s] = v] /\ Goto(s, l)
  <2>1. my'[s] = v /\ pc'[s] = l
    BY <1>1, OfProcess, Zenon DEF Goto
  <2>2. Ending(s)' => l = "caughtup"
    BY <2>1, Zenon DEF Ending, Resume
  <2>3. Nested(my[s].frames)'
    BY <2>1, Zenon DEF Nested
  <2>4. l # "read"
    BY Zenon DEF Resume
  <2> QED  BY <2>1, <2>2, <2>3, <2>4, Zenon DEF InHand, Goals, Exhausted, MoreToRead
<1>2. CASE ~(my' = [my EXCEPT ![s] = v] /\ Goto(s, l))
  <2> DEFINE F == [at : Resume, goal : Nat]
             a == [at |-> "drain", goal |-> announced]
             b == [Head(v.frames) EXCEPT !.at = l]
             g == <<a>> \o <<b>> \o Tail(v.frames)
             w == [v EXCEPT !.frames = g]
  <2>1. my' = [my EXCEPT ![s] = w] /\ pc' = [pc EXCEPT ![s] = "drain"]
    BY <1>2, Zenon DEF Callback, Goto
  <2>2. my'[s] = w /\ pc'[s] = "drain"
    BY <2>1, OfProcess, Zenon
  <2>3. /\ w.frames = g /\ w.messages = v.messages /\ w.nextmsg = v.nextmsg
        /\ w.nummsgs = v.nummsgs /\ w.processed = v.processed
    <3> HIDE DEF g
    <3> QED  BY Zenon DEF MyType
  <2>4. v.frames \in Seq(F) /\ announced \in Nat
    BY OfProcess, Zenon DEF MyType
  <2>5. a \in F /\ b \in F /\ b.goal = Head(v.frames).goal
    <3>1. Head(v.frames) \in F
      <4> HIDE DEF F
      <4> QED  BY <2>4
    <3>2. \A h \in F : [h EXCEPT !.at = l] \in F /\ [h EXCEPT !.at = l].goal = h.goal
      BY Zenon
    <3> QED  BY <2>4, <3>1, <3>2, Zenon DEF Resume
  <2>6. /\ DOMAIN g = 1 .. Len(v.frames) + 1 /\ g[1] = a
        /\ \A i \in 2 .. Len(v.frames) + 1 : g[i].goal = v.frames[i - 1].goal
    <3> HIDE DEF F, a, b
    <3> QED  BY <2>4, <2>5, PushGoals
  <2>7. a.goal = announced
    BY Zenon
  <2> HIDE DEF a, b, g, w
  <2>8. Nested(g)
    <3> DEFINE f == v.frames
    <3>1. /\ Len(f) \in Nat \ {0} /\ DOMAIN f = 1 .. Len(f)
          /\ \A i \in 1 .. Len(f) : f[i].goal \in Nat
      BY <2>4, PopGoals, Zenon DEF Frames
    <3>2. /\ \A i \in 1 .. Len(f) : f[i].goal <= announced
          /\ \A i, j \in 1 .. Len(f) : i <= j => f[j].goal <= f[i].goal
      BY <3>1, Zenon DEF Nested
    <3>a. /\ DOMAIN g = 1 .. Len(f) + 1 /\ g[1].goal = announced
          /\ \A i \in 2 .. Len(f) + 1 : g[i].goal = f[i - 1].goal
      BY <2>6, <2>7, Zenon
    <3> HIDE DEF f
    <3>b. ASSUME NEW i \in 2 .. Len(f) + 1 PROVE i - 1 \in 1 .. Len(f)
      BY <3>1
    <3>3. ASSUME NEW i \in 2 .. Len(f) + 1
          PROVE  i - 1 \in 1 .. Len(f) /\ g[i].goal = f[i - 1].goal
      BY <3>a, <3>b, Zenon
    <3>4. ASSUME NEW i \in DOMAIN g PROVE g[i].goal <= announced
      <4>1. i = 1 \/ i \in 2 .. Len(f) + 1
        BY <3>1, <3>a
      <4>2. announced <= announced
        BY <2>4
      <4> QED  BY <3>2, <3>3, <3>a, <4>1, <4>2, Zenon
    <3>5. ASSUME NEW i \in DOMAIN g, NEW j \in DOMAIN g, i <= j PROVE g[j].goal <= g[i].goal
      <4>1. CASE i = 1
        BY <3>4, <3>a, <4>1, Zenon
      <4>2. CASE i # 1
        <5>1. i \in 2 .. Len(f) + 1 /\ j \in 2 .. Len(f) + 1 /\ i - 1 <= j - 1
          BY <3>1, <3>5, <3>a, <4>2
        <5> QED  BY <3>2, <3>3, <5>1, Zenon
      <4> QED  BY <4>1, <4>2, Zenon
    <3> QED  BY <3>4, <3>5, Zenon DEF Nested
  <2>9. Nested(my[s].frames)'
    BY <2>2, <2>3, <2>8, Zenon DEF Nested
  <2>10. InHand(s)'
    BY <2>2, <2>3, Zenon DEF InHand, InHandOf
  <2> QED  BY <2>2, <2>9, <2>10, Zenon DEF Goals, Ending
<1> QED  BY <1>1, <1>2, Zenon

(* The innermost call returns, in the locals and in the place it was made. *)
LEMMA ReturnReceive ==
    ASSUME IInv, NEW s \in Slots, InHand(s), Goals(s), Receiver(s), my[s].frames # <<>>,
           Exhausted(s), my[s].processed >= my[s].frames[1].goal, announced' = announced,
           NEW l, l = ReturnTo(s), pc'[s] = l, my'[s].frames = Tail(my[s].frames),
           my'[s].messages = my[s].messages, my'[s].nextmsg = my[s].nextmsg,
           my'[s].nummsgs = my[s].nummsgs, my'[s].processed = my[s].processed,
           Receiver(s)', base' + procState'[s].nextMsgNum = base + procState[s].nextMsgNum
    PROVE  InHand(s)' /\ Goals(s)'
<1> DEFINE f == my[s].frames
<1>1. /\ f \in Frames /\ my[s].nummsgs \in Nat /\ my[s].nextmsg \in Nat /\ my[s].processed \in Int
      /\ f \in Seq([at : Resume, goal : Nat])
  BY OfProcess, Zenon DEF MyType, Frames
<1>2. InHand(s)'
  BY Zenon DEF InHand, InHandOf
<1> HIDE DEF f
<1>3. /\ Len(Tail(f)) = Len(f) - 1 /\ Len(f) \in Nat \ {0}
      /\ \A i \in 1 .. Len(f) - 1 : Tail(f)[i] = f[i + 1]
      /\ \A i \in 1 .. Len(f) : f[i].goal \in Nat
      /\ DOMAIN f = 1 .. Len(f) /\ DOMAIN Tail(f) = 1 .. Len(f) - 1
  BY <1>1, PopGoals, Zenon DEF f
<1>4. /\ \A i \in 1 .. Len(f) : f[i].goal <= announced
      /\ \A i, j \in 1 .. Len(f) : i <= j => f[j].goal <= f[i].goal
  BY <1>3, Zenon DEF Nested, Goals, f
<1>5. Nested(Tail(f))
  <2>1. \A i \in DOMAIN Tail(f) : Tail(f)[i].goal <= announced
    BY <1>3, <1>4
  <2>2. \A i, j \in DOMAIN Tail(f) : i <= j => Tail(f)[j].goal <= Tail(f)[i].goal
    BY <1>3, <1>4
  <2> QED  BY <2>1, <2>2, Zenon DEF Nested
<1>6. Nested(my[s].frames)'
  BY <1>5, Zenon DEF Nested, f
<1>7. CASE Len(f) = 1
  <2>1. pc'[s] = "idle"
    BY <1>7, Zenon DEF ReturnTo, f
  <2> QED  BY <1>2, <1>6, <2>1, Zenon DEF Goals, Ending
<1>8. CASE Len(f) # 1
  <2>1. pc'[s] = f[2].at /\ f[2] \in [at : Resume, goal : Nat]
    <3>1. 2 \in 1 .. Len(f)
      BY <1>3, <1>8
    <3>2. \A F : f \in Seq(F) => \A i \in 1 .. Len(f) : f[i] \in F
      OBVIOUS
    <3>3. pc'[s] = f[2].at
      BY <1>8, Zenon DEF ReturnTo, f
    <3> QED  BY <1>1, <3>1, <3>2, <3>3, Zenon
  <2>2. pc'[s] \in Resume
    BY <2>1, Zenon
  <2>3. f[2].goal <= f[1].goal /\ Tail(f)[1] = f[2] /\ f[1].goal \in Nat /\ f[2].goal \in Nat
    <3>1. 1 \in 1 .. Len(f) - 1 /\ 2 \in 1 .. Len(f) /\ 1 \in 1 .. Len(f) /\ 1 <= 2 /\ 1 + 1 = 2
      BY <1>3, <1>8
    <3> QED  BY <1>3, <1>4, <3>1, Zenon
  <2>4. my'[s].processed >= f[2].goal
    <3>1. my'[s].processed \in Int /\ my'[s].processed >= f[1].goal
      BY <1>1, Zenon DEF f
    <3> QED  BY <2>3, <3>1
  <2>5. my[s].processed = base + procState[s].nextMsgNum
    <3>1. /\ my[s].nummsgs - my[s].nextmsg >= 0 /\ my[s].nextmsg >= my[s].nummsgs
          /\ my[s].processed + (my[s].nummsgs - my[s].nextmsg) = base + procState[s].nextMsgNum
      BY Zenon DEF InHand, InHandOf, Exhausted
    <3> QED  BY <1>1, <3>1
  <2>6. my'[s].frames[1].goal = f[2].goal /\ Exhausted(s)'
    BY <2>3, Zenon DEF Exhausted, f
  <2>7. base' + procState'[s].nextMsgNum >= f[2].goal
    BY <2>4, <2>5, Zenon
  <2>8. pc'[s] # "read"
    BY <2>2, Zenon DEF Resume
  <2> QED  BY <1>2, <1>6, <2>4, <2>6, <2>7, <2>8, Zenon DEF Goals
<1> QED  BY <1>7, <1>8, Zenon

(* The steps that are no part of a receive call.                           *)
LEMMA QuietReceive ==
    ASSUME IInv, Receiving, NEW s \in Slots, \A t \in Slots : SameReceive(t),
           \A t \in Slots : t # s => pc'[t] = pc[t] /\ my'[t].nthistime = my[t].nthistime,
           \A t \in Slots : /\ procState'[t].procPid = procState[t].procPid
                            /\ procState'[t].sendOnly = procState[t].sendOnly
                            /\ procState'[t].nextMsgNum = procState[t].nextMsgNum,
           base' = base, announced' \in Nat, announced <= announced',
           pc'[s] \notin {"process", "read"}, Ending(s)' => Ending(s)
    PROVE  Receiving'
<1>1. \A t \in Slots : t # s => InHand(t)' /\ Goals(t)'
  BY OthersReceive, Zenon
<1>2. InHand(s)' /\ Goals(s)'
  <2>1. Receiver(s)' => Receiver(s)
                        /\ base' + procState'[s].nextMsgNum = base + procState[s].nextMsgNum
    BY Zenon DEF Receiver
  <2>2. InHand(s) /\ Goals(s) /\ SameReceive(s)
    BY Zenon DEF Receiving
  <2>3. pc'[s] # "process" /\ pc'[s] # "read"
    BY Zenon
  <2> QED  BY <2>1, <2>2, <2>3, ReceiveKept, Zenon
<1> QED  BY <1>1, <1>2, Zenon DEF Receiving

(* The same when the step changes the locals of s only, to v.              *)
LEMMA QuietLocals ==
    ASSUME IInv, Receiving, NEW s \in Slots, NEW v, my' = [my EXCEPT ![s] = v],
           NEW l, pc' = [pc EXCEPT ![s] = l],
           v.messages = my[s].messages, v.nextmsg = my[s].nextmsg, v.nummsgs = my[s].nummsgs,
           v.processed = my[s].processed, v.frames = my[s].frames, v.max = my[s].max,
           \A t \in Slots : /\ procState'[t].procPid = procState[t].procPid
                            /\ procState'[t].sendOnly = procState[t].sendOnly
                            /\ procState'[t].nextMsgNum = procState[t].nextMsgNum,
           base' = base, announced' \in Nat, announced <= announced',
           l \notin {"process", "read", "caughtup", "wlock", "signal"}, l = "clean" => Ending(s)
    PROVE  Receiving'
<1>1. my'[s] = v /\ pc'[s] = l /\ \A t \in Slots : t # s => my'[t] = my[t] /\ pc'[t] = pc[t]
  BY OfProcess, Zenon
<1>2. \A t \in Slots : SameReceive(t)
  <2> SUFFICES ASSUME NEW t \in Slots PROVE SameReceive(t)
    BY Zenon
  <2> QED  BY <1>1, Zenon DEF SameReceive
<1>3. \A t \in Slots : t # s => pc'[t] = pc[t] /\ my'[t].nthistime = my[t].nthistime
  BY <1>1, Zenon
<1>4. Ending(s)' => Ending(s)
  BY <1>1, Zenon DEF Ending
<1>5. pc'[s] \notin {"process", "read"}
  BY <1>1, Zenon
<1> QED  BY <1>2, <1>3, <1>4, <1>5, QuietReceive, Zenon

(* The steps of a sender, and of a receiver that takes SInvalWriteLock.    *)
LEMMA SenderReceive ==
    ASSUME IInv, Receiving, NEW s \in Slots,
           \/ SendSharedInvalidMessages(s) \/ InsertChunk(s) \/ Fill(s) \/ Publish(s)
           \/ Kick(s) \/ Kicked(s) \/ TakeWriteLock(s)
    PROVE  Receiving'
<1>0. announced \in Nat /\ base \in Nat /\ maxMsgNum \in Nat /\ announced <= announced
      /\ announced <= base + maxMsgNum /\ base + maxMsgNum \in Nat
  <2>1. announced <= base + maxMsgNum
    BY Zenon DEF IInv, Announced
  <2> QED  BY <2>1, OfProcess
<1>a. my = [my EXCEPT ![s] = my[s]] /\ pc = [pc EXCEPT ![s] = pc[s]] /\ my[s] \in MyType
  BY OfProcess, Zenon
<1>1. CASE SendSharedInvalidMessages(s)
  <2>1. PICK n \in Batches : my' = [my EXCEPT ![s].n = n]
    BY <1>1, Zenon DEF SendSharedInvalidMessages
  <2> DEFINE v == [my[s] EXCEPT !.n = n]
  <2>2. /\ v.messages = my[s].messages /\ v.nextmsg = my[s].nextmsg /\ v.nummsgs = my[s].nummsgs
        /\ v.processed = my[s].processed /\ v.frames = my[s].frames /\ v.max = my[s].max
    BY <1>a, Zenon DEF MyType
  <2>3. my' = [my EXCEPT ![s] = v] /\ pc' = [pc EXCEPT ![s] = "insert"]
    BY <1>1, <2>1, Zenon DEF SendSharedInvalidMessages, Goto
  <2>4. UNCHANGED <<procState, base, announced>>
    BY <1>1, Zenon DEF SendSharedInvalidMessages, seg
  <2> HIDE DEF v
  <2> QED  BY <1>0, <2>2, <2>3, <2>4, QuietLocals, Zenon
<1>2. CASE InsertChunk(s)
  <2> DEFINE m == Min({my[s].n, WRITE_QUANTUM})
             v == [my[s] EXCEPT !.n = @ - m, !.nthistime = m]
  <2>1. my' = [my EXCEPT ![s] = v] /\ pc' = [pc EXCEPT ![s] = "space"]
    BY <1>2, <1>a, Zenon DEF InsertChunk, Goto
  <2> HIDE DEF m
  <2>2. /\ v.messages = my[s].messages /\ v.nextmsg = my[s].nextmsg /\ v.nummsgs = my[s].nummsgs
        /\ v.processed = my[s].processed /\ v.frames = my[s].frames /\ v.max = my[s].max
    BY <1>a, Zenon DEF MyType
  <2>4. UNCHANGED <<procState, base, announced>>
    BY <1>2, Zenon DEF InsertChunk, seg
  <2> HIDE DEF v
  <2> QED  BY <1>0, <2>1, <2>2, <2>4, QuietLocals, Zenon
<1>3. CASE Fill(s) \/ Publish(s) \/ TakeWriteLock(s)
  <2>1. PICK l \in {"publish", "kick", "clean", "space"} :
            pc' = [pc EXCEPT ![s] = l] /\ (l = "clean" => Ending(s))
    BY <1>3, Zenon DEF Fill, Publish, TakeWriteLock, Goto, Ending
  <2>2. UNCHANGED <<procState, base, announced, my>>
    BY <1>3, Zenon DEF Fill, Publish, TakeWriteLock, seg
  <2>3. my' = [my EXCEPT ![s] = my[s]]
    BY <1>a, <2>2, Zenon
  <2> QED  BY <1>0, <2>1, <2>2, <2>3, QuietLocals, Zenon
<1>4. CASE Kick(s)
  <2> DEFINE v == [my[s] EXCEPT !.i = @ + 1]
  <2>2. /\ v.messages = my[s].messages /\ v.nextmsg = my[s].nextmsg /\ v.nummsgs = my[s].nummsgs
        /\ v.processed = my[s].processed /\ v.frames = my[s].frames /\ v.max = my[s].max
    BY <1>a, Zenon DEF MyType
  <2>3. my' = [my EXCEPT ![s] = v] /\ pc' = [pc EXCEPT ![s] = "kick"]
    BY <1>4, <1>a, Zenon DEF Kick
  <2>4. UNCHANGED <<base, announced>>
    BY <1>4, Zenon DEF Kick, seg
  <2>5. \A t \in Slots : /\ procState'[t].procPid = procState[t].procPid
                         /\ procState'[t].sendOnly = procState[t].sendOnly
                         /\ procState'[t].nextMsgNum = procState[t].nextMsgNum
    BY <1>4, Zenon DEF Kick, IInv, Types, TypeOK
  <2> HIDE DEF v
  <2> QED  BY <1>0, <2>2, <2>3, <2>4, <2>5, QuietLocals, Zenon
<1>5. CASE Kicked(s)
  <2> DEFINE v == [my[s] EXCEPT !.nthistime = 0, !.i = 0]
  <2>2. /\ v.messages = my[s].messages /\ v.nextmsg = my[s].nextmsg /\ v.nummsgs = my[s].nummsgs
        /\ v.processed = my[s].processed /\ v.frames = my[s].frames /\ v.max = my[s].max
    BY <1>a, Zenon DEF MyType
  <2>1. my' = [my EXCEPT ![s] = v]
    BY <1>5, <1>a, Zenon DEF Kicked
  <2>3. PICK l \in {"insert", "idle"} : pc' = [pc EXCEPT ![s] = l]
    BY <1>5, Zenon DEF Kicked, Goto
  <2>4. UNCHANGED <<procState, base>> /\ announced' = base + maxMsgNum
    BY <1>5, Zenon DEF Kicked, seg
  <2> HIDE DEF v
  <2> QED  BY <1>0, <2>1, <2>2, <2>3, <2>4, QuietLocals, Zenon
<1> QED  BY <1>1, <1>2, <1>3, <1>4, <1>5, Zenon

(* The parts of the invariants the steps of a receive call use.            *)
LEMMA OfReceiver ==
    ASSUME IInv, Receiving, NEW s \in Slots, pc[s] \in Reading
    PROVE  /\ my[s].nextmsg \in Nat /\ my[s].nummsgs \in Nat /\ my[s].processed \in Int
           /\ my[s].max \in Nat /\ procState[s].nextMsgNum \in Int
           /\ my[s].frames \in Frames /\ my[s].frames # <<>> /\ Nested(my[s].frames)
           /\ my[s].frames[1].goal \in Nat /\ my[s].frames[1].goal <= announced
           /\ Receiver(s) /\ InHandOf(my[s], base + procState[s].nextMsgNum)
           /\ Exhausted(s) => /\ my[s].processed = base + procState[s].nextMsgNum
                              /\ my[s].nextmsg = my[s].nummsgs
<1>1. /\ my[s].nextmsg \in Nat /\ my[s].nummsgs \in Nat /\ my[s].processed \in Int
      /\ my[s].max \in Nat /\ my[s].frames \in Frames
  BY OfProcess, Zenon DEF MyType, Frames
<1>2. procState[s].nextMsgNum \in Int
  BY OfEntry, Zenon DEF ProcType
<1>3. Receiver(s) /\ my[s].frames # <<>>
  BY OfProcess, Zenon DEF Control
<1>4. Nested(my[s].frames) /\ InHandOf(my[s], base + procState[s].nextMsgNum)
  BY <1>3, Zenon DEF Receiving, InHand, Goals
<1>5. my[s].frames[1].goal \in Nat /\ my[s].frames[1].goal <= announced
  <2>1. /\ DOMAIN my[s].frames = 1 .. Len(my[s].frames) /\ Len(my[s].frames) \in Nat \ {0}
        /\ \A i \in 1 .. Len(my[s].frames) : my[s].frames[i].goal \in Nat
    BY <1>1, <1>3, PopGoals, Zenon
  <2>2. 1 \in 1 .. Len(my[s].frames)
    BY <2>1
  <2> QED  BY <1>4, <2>1, <2>2, Zenon DEF Nested
<1>6. ASSUME Exhausted(s)
      PROVE  my[s].processed = base + procState[s].nextMsgNum /\ my[s].nextmsg = my[s].nummsgs
  <2>1. /\ my[s].nummsgs - my[s].nextmsg >= 0 /\ my[s].nextmsg >= my[s].nummsgs
        /\ my[s].processed + (my[s].nummsgs - my[s].nextmsg) = base + procState[s].nextMsgNum
    BY <1>4, <1>6, Zenon DEF InHandOf, Exhausted
  <2> QED  BY <1>1, <2>1
<1> QED  BY <1>1, <1>2, <1>3, <1>4, <1>5, <1>6, Zenon

(* With an empty buffer everything taken has been processed.               *)
LEMMA NothingLeft ==
    ASSUME NEW v, v.nummsgs = 0, v.nextmsg = 0, v.processed \in Int
    PROVE  InHandOf(v, v.processed)
<1>1. v.nummsgs - v.nextmsg = 0 /\ v.processed + 0 = v.processed
  OBVIOUS
<1>2. 1 .. 0 = {}
  OBVIOUS
<1>3. 0 >= 0
  OBVIOUS
<1> QED  BY <1>1, <1>2, <1>3, Zenon DEF InHandOf

(* A call that is entered owes what was announced before, and no more than *)
(* the calls around it have in front of them.                              *)
LEMMA AcceptReceive ==
    ASSUME IInv, Receiving, NEW s \in Slots, AcceptInvalidationMessages(s)
    PROVE  Receiving'
<1> DEFINE a == [at |-> "drain", goal |-> announced]
           f == <<a>>
           v == [my[s] EXCEPT !.frames = f]
<1>1. /\ my' = [my EXCEPT ![s] = v] /\ pc' = [pc EXCEPT ![s] = "drain"]
      /\ UNCHANGED <<procState, base, announced>> /\ my[s] \in MyType /\ announced \in Nat
  BY OfProcess, Zenon DEF AcceptInvalidationMessages, Goto, seg
<1>2. DOMAIN f = {1} /\ f[1].goal = announced /\ announced <= announced
  BY <1>1
<1>3. f \in Seq([at : Resume, goal : Nat])
  BY <1>1 DEF Resume
<1> HIDE DEF f
<1>4. v \in MyType
  BY <1>1, <1>3, Zenon DEF MyType
<1>5. /\ v.messages = my[s].messages /\ v.nextmsg = my[s].nextmsg /\ v.nummsgs = my[s].nummsgs
      /\ v.processed = my[s].processed /\ v.frames = f
  BY <1>1, Zenon DEF MyType
<1> HIDE DEF v
<1>6. /\ my'[s] = v /\ pc'[s] = "drain"
      /\ \A t \in Slots : t # s => InHand(t)' /\ Goals(t)'
  BY <1>1, <1>2, <1>4, OwnReceive, Zenon DEF PcValues
<1>7. InHand(s)'
  <2>1. InHand(s) /\ (Receiver(s)' <=> Receiver(s))
    BY <1>1, Zenon DEF Receiving, Receiver
  <2> QED  BY <1>1, <1>5, <1>6, <2>1, BufferKept, Zenon
<1>8. Nested(f)
  <2>1. \A i \in DOMAIN f : f[i].goal = announced
    BY <1>2, Zenon
  <2> QED  BY <1>2, <2>1, Zenon DEF Nested
<1>9. Nested(my[s].frames)'
  BY <1>1, <1>5, <1>6, <1>8, Zenon DEF Nested
<1>10. Goals(s)'
  BY <1>6, <1>9, Zenon DEF Goals, Ending
<1> QED  BY <1>6, <1>7, <1>10, Zenon DEF Receiving

(* A callback processes the next message of the buffer, or enters the      *)
(* receive again.                                                          *)
LEMMA InvalFunctionReceive ==
    ASSUME IInv, Receiving, NEW s \in Slots, InvalFunction(s)
    PROVE  Receiving'
<1> DEFINE msg == my[s].messages[my[s].nextmsg + 1]
           v == [my[s] EXCEPT !.nextmsg = @ + 1, !.processed = msg + 1]
           next == base + procState[s].nextMsgNum
           left == my[s].nummsgs - my[s].nextmsg
<1>1. /\ Callback(s, pc[s], v) /\ pc[s] \in Resume /\ pc[s] \in Reading /\ ~Exhausted(s)
      /\ pc[s] \in {"drain", "process"}
      /\ UNCHANGED <<procState, base, announced>> /\ my[s] \in MyType /\ announced \in Nat
  BY OfProcess, Zenon DEF InvalFunction, seg, Resume, Reading
<1>2. /\ my[s].nextmsg \in Nat /\ my[s].nummsgs \in Nat /\ my[s].processed \in Int
      /\ my[s].frames # <<>> /\ Nested(my[s].frames) /\ InHandOf(my[s], next)
  BY <1>1, OfReceiver, Zenon
<1>3. /\ my[s].processed + left = next
      /\ \A k \in 1 .. left : my[s].messages[my[s].nextmsg + k] = my[s].processed + k - 1
  BY <1>2, Zenon DEF InHandOf
<1>4. left \in Nat /\ left >= 1
  BY <1>1, <1>2 DEF Exhausted
<1>5. msg = my[s].processed
  <2>1. 1 \in 1 .. left
    BY <1>4
  <2>2. msg = my[s].processed + 1 - 1
    BY <1>3, <2>1, Zenon
  <2> QED  BY <1>2, <2>2
<1> HIDE DEF msg
<1>6. /\ v.messages = my[s].messages /\ v.nextmsg = my[s].nextmsg + 1
      /\ v.nummsgs = my[s].nummsgs /\ v.processed = my[s].processed + 1
      /\ v.frames = my[s].frames
  <2>1. /\ v.messages = my[s].messages /\ v.nextmsg = my[s].nextmsg + 1
        /\ v.nummsgs = my[s].nummsgs /\ v.processed = msg + 1 /\ v.frames = my[s].frames
    BY <1>1, Zenon DEF MyType
  <2> QED  BY <1>5, <2>1, Zenon
<1>7. v \in MyType
  <2>1. my[s].nextmsg + 1 \in Nat /\ msg + 1 \in Int
    BY <1>2, <1>5
  <2> QED  BY <1>1, <2>1, Zenon DEF MyType
<1> HIDE DEF v
<1>8. InHandOf(v, next)
  <2>1. v.nummsgs - v.nextmsg = left - 1 /\ left - 1 >= 0
    BY <1>2, <1>4, <1>6
  <2>2. v.processed + (left - 1) = next
    BY <1>2, <1>3, <1>4, <1>6
  <2>3. ASSUME NEW k \in 1 .. left - 1
        PROVE  v.messages[v.nextmsg + k] = v.processed + k - 1
    <3>1. k + 1 \in 1 .. left
      BY <1>4
    <3>2. /\ (my[s].nextmsg + 1) + k = my[s].nextmsg + (k + 1)
          /\ (my[s].processed + 1) + k - 1 = my[s].processed + (k + 1) - 1
      <4>1. \A x, y \in Int : (x + 1) + y = x + (y + 1) /\ (x + 1) + y - 1 = x + (y + 1) - 1
        OBVIOUS
      <4>2. my[s].nextmsg \in Int /\ k \in Int
        BY <1>2
      <4> QED  BY <1>2, <4>1, <4>2, Zenon
    <3> QED  BY <1>3, <1>6, <3>1, <3>2, Zenon
  <2> QED  BY <2>1, <2>2, <2>3, Zenon DEF InHandOf
<1>9. pc[s] = "process" /\ v.nummsgs # MAXINVALMSGS => next >= v.frames[1].goal
  BY <1>6, Zenon DEF Receiving, Goals, MoreToRead
<1>10. InHand(s)' /\ Goals(s)'
  <2>1. base' + procState'[s].nextMsgNum = next /\ pc[s] # "caughtup"
    BY <1>1, Zenon
  <2> QED  BY <1>1, <1>2, <1>6, <1>7, <1>8, <1>9, <2>1, CallbackReceive, Zenon
<1>11. \A t \in Slots : t # s => InHand(t)' /\ Goals(t)'
  <2>1. PICK w \in MyType, r \in Resume : my' = [my EXCEPT ![s] = w] /\ pc' = [pc EXCEPT ![s] = r]
    BY <1>1, <1>2, <1>6, <1>7, CallbackLocals
  <2>2. r \in PcValues /\ announced <= announced
    BY <1>1 DEF PcValues, Resume
  <2> QED  BY <1>1, <2>1, <2>2, OwnReceive, Zenon
<1> QED  BY <1>10, <1>11, Zenon DEF Receiving

(* SIGetDataEntries finds nothing, or begins to read: the static buffer    *)
(* is empty.  Without hasMessages, the backend has read what is announced. *)
LEMMA GetReceive ==
    ASSUME IInv, Receiving, NEW s \in Slots, NothingToRead(s) \/ BeginRead(s)
    PROVE  Receiving'
<1> DEFINE v == [my[s] EXCEPT !.nextmsg = 0, !.nummsgs = 0]
           next == base + procState[s].nextMsgNum
<1>0. WantsMore(s) /\ Exhausted(s) /\ pc[s] \in {"drain", "process"}
  BY Zenon DEF NothingToRead, BeginRead, WantsMore
<1>1. /\ my[s] \in MyType /\ pc[s] \in Reading /\ announced \in Nat /\ base \in Nat
      /\ procState \in [Slots -> ProcType] /\ UNCHANGED <<base, announced>>
      /\ my' = [my EXCEPT ![s] = v]
  BY <1>0, OfProcess, OfEntry, Zenon DEF NothingToRead, BeginRead, seg, Reading, Resume
<1>2. /\ my[s].processed = next /\ my[s].processed \in Int /\ Nested(my[s].frames)
      /\ my[s].frames[1].goal \in Nat /\ my[s].frames[1].goal <= announced /\ Receiver(s)
  BY <1>0, <1>1, OfReceiver, Zenon
<1>3. /\ v.nextmsg = 0 /\ v.nummsgs = 0 /\ v.processed = my[s].processed
      /\ v.frames = my[s].frames
  BY <1>1, Zenon DEF MyType
<1>4. v \in MyType
  BY <1>1, Zenon DEF MyType
<1> HIDE DEF v
<1>5. PICK l \in {"caughtup", "max"} : /\ pc' = [pc EXCEPT ![s] = l]
                                       /\ l = "caughtup" => ~procState[s].hasMessages
  BY Zenon DEF NothingToRead, BeginRead, Goto
<1>6. /\ \A t \in Slots : t # s => procState'[t] = procState[t]
      /\ procState'[s].nextMsgNum = procState[s].nextMsgNum
  <2>1. CASE NothingToRead(s)
    BY <2>1, Zenon DEF NothingToRead
  <2>2. CASE BeginRead(s)
    <3>1. procState' = [procState EXCEPT ![s].hasMessages = FALSE]
      BY <2>2, Zenon DEF BeginRead
    <3> QED  BY <1>1, <3>1, Zenon DEF ProcType
  <2> QED  BY <2>1, <2>2, Zenon
<1>7. /\ my'[s] = v /\ pc'[s] = l
      /\ \A t \in Slots : t # s => InHand(t)' /\ Goals(t)'
  <2>1. l \in PcValues /\ announced <= announced
    BY <1>1 DEF PcValues
  <2> QED  BY <1>1, <1>4, <1>5, <1>6, <2>1, OwnReceive, Zenon
<1>8. InHand(s)'
  <2>1. InHandOf(v, v.processed)
    BY <1>2, <1>3, NothingLeft, Zenon
  <2>2. base' + procState'[s].nextMsgNum = v.processed
    BY <1>1, <1>2, <1>3, <1>6, Zenon
  <2> QED  BY <1>7, <2>1, <2>2, Zenon DEF InHand
<1>9. l = "caughtup" => v.nextmsg >= v.nummsgs /\ v.processed >= v.frames[1].goal
  <2> SUFFICES ASSUME l = "caughtup" PROVE v.processed >= v.frames[1].goal
    BY <1>3
  <2>1. ~procState[s].hasMessages /\ pc[s] # "max" /\ pc[s] # "read"
    BY <1>0, <1>5, Zenon
  <2>2. ~(next < announced)
    BY <1>2, <2>1, Zenon DEF IInv, NoLostWakeup
  <2>3. my[s].processed >= my[s].frames[1].goal
    BY <1>1, <1>2, <2>2
  <2> QED  BY <1>3, <2>3, Zenon
<1>10. Nested(my[s].frames)'
  BY <1>1, <1>2, <1>3, <1>7, Zenon DEF Nested
<1>11. Goals(s)'
  <2>1. Ending(s)' => l = "caughtup"
    BY <1>7, Zenon DEF Ending
  <2>2. l # "process" /\ l # "read"
    BY Zenon
  <2> QED  BY <1>7, <1>9, <1>10, <2>1, <2>2, Zenon DEF Goals, Exhausted
<1> QED  BY <1>7, <1>8, <1>11, Zenon DEF Receiving

(* The maxMsgNum a reader fetches covers what is announced.                *)
LEMMA FetchMaxReceive ==
    ASSUME IInv, Receiving, NEW s \in Slots, FetchMax(s)
    PROVE  Receiving'
<1> DEFINE v == [my[s] EXCEPT !.max = maxMsgNum]
<1>1. /\ my' = [my EXCEPT ![s] = v] /\ pc' = [pc EXCEPT ![s] = "read"]
      /\ UNCHANGED <<procState, base, announced>> /\ my[s] \in MyType /\ announced \in Nat
      /\ base \in Nat /\ maxMsgNum \in Nat /\ pc[s] \in Reading
  BY OfProcess, Zenon DEF FetchMax, Goto, seg, Reading
<1>2. /\ v.messages = my[s].messages /\ v.nextmsg = my[s].nextmsg /\ v.nummsgs = my[s].nummsgs
      /\ v.processed = my[s].processed /\ v.frames = my[s].frames /\ v.max = maxMsgNum
  BY <1>1, Zenon DEF MyType
<1>3. v \in MyType
  BY <1>1, Zenon DEF MyType
<1> HIDE DEF v
<1>4. /\ my'[s] = v /\ pc'[s] = "read"
      /\ \A t \in Slots : t # s => InHand(t)' /\ Goals(t)'
  <2>1. "read" \in PcValues /\ announced <= announced
    BY <1>1 DEF PcValues
  <2> QED  BY <1>1, <1>3, <2>1, OwnReceive, Zenon
<1>5. InHand(s)'
  <2>1. InHand(s) /\ (Receiver(s)' <=> Receiver(s))
    BY <1>1, Zenon DEF Receiving, Receiver
  <2> QED  BY <1>1, <1>2, <1>4, <2>1, BufferKept, Zenon
<1>6. /\ Nested(my[s].frames) /\ my[s].frames[1].goal \in Nat
      /\ my[s].frames[1].goal <= announced
  BY <1>1, OfReceiver, Zenon
<1>7. base + maxMsgNum >= my[s].frames[1].goal
  <2>1. announced <= base + maxMsgNum
    BY Zenon DEF IInv, Announced
  <2> QED  BY <1>1, <1>6, <2>1
<1>8. Nested(my[s].frames)'
  BY <1>1, <1>2, <1>4, <1>6, Zenon DEF Nested
<1>9. Goals(s)'
  BY <1>1, <1>2, <1>4, <1>7, <1>8, Zenon DEF Goals, Ending
<1> QED  BY <1>4, <1>5, <1>9, Zenon DEF Receiving

(* A reset: everything up to the maxMsgNum that was fetched is dealt with. *)
LEMMA ReadResetReceive ==
    ASSUME IInv, Receiving, NEW s \in Slots, ReadReset(s)
    PROVE  Receiving'
<1> DEFINE max == my[s].max
           p == TakeReset(procState[s], max)
           v == [my[s] EXCEPT !.messages = <<Reset>>, !.processed = base + max, !.max = 0]
<1>1. /\ Callback(s, "caughtup", v) /\ pc[s] = "read" /\ pc[s] \in Reading
      /\ UNCHANGED <<base, announced>> /\ my[s] \in MyType /\ announced \in Nat
      /\ procState' = [procState EXCEPT ![s] = p] /\ procState \in [Slots -> ProcType]
      /\ procState[s] \in ProcType /\ base \in Nat /\ max \in Nat /\ my[s].nummsgs = 0
  BY OfProcess, OfEntry, Zenon DEF ReadReset, seg, Reading, MyType, Control
<1>2. /\ my[s].nextmsg \in Nat /\ my[s].frames # <<>> /\ Nested(my[s].frames)
      /\ InHandOf(my[s], base + procState[s].nextMsgNum)
  BY <1>1, OfReceiver, Zenon
<1>3. my[s].nextmsg = 0
  <2>1. my[s].nummsgs - my[s].nextmsg >= 0
    BY <1>2, Zenon DEF InHandOf
  <2> QED  BY <1>1, <1>2, <2>1
<1>4. v \in MyType
  <2>1. \A x \in MyType, a \in Seq(Int), b \in Int :
           [x EXCEPT !.messages = a, !.processed = b, !.max = 0] \in MyType
    BY Zenon DEF MyType
  <2>2. <<Reset>> \in Seq(Int) /\ base + max \in Int
    BY <1>1 DEF Reset
  <2> QED  BY <1>1, <2>1, <2>2, Zenon
<1>5. /\ v.nextmsg = my[s].nextmsg /\ v.nummsgs = my[s].nummsgs /\ v.processed = base + max
      /\ v.frames = my[s].frames
  BY <1>1, Zenon DEF MyType
<1>6. p.nextMsgNum = max
  BY <1>1, Zenon DEF TakeReset, ProcType
<1> HIDE DEF p, v
<1>7. procState'[s] = p /\ \A t \in Slots : t # s => procState'[t] = procState[t]
  BY <1>1, Zenon
<1>8. InHandOf(v, base' + procState'[s].nextMsgNum)
  <2>1. base + max \in Int
    BY <1>1
  <2>2. InHandOf(v, v.processed)
    BY <1>1, <1>3, <1>5, <2>1, NothingLeft, Zenon
  <2> QED  BY <1>1, <1>5, <1>6, <1>7, <2>2, Zenon
<1>9. v.nextmsg >= v.nummsgs /\ v.processed >= v.frames[1].goal
  <2>1. base + max >= my[s].frames[1].goal
    BY <1>1, Zenon DEF Receiving, Goals
  <2>2. v.nextmsg >= v.nummsgs
    BY <1>1, <1>3, <1>5
  <2> QED  BY <1>5, <2>1, <2>2, Zenon
<1>10. "caughtup" \in Resume /\ "caughtup" # "process"
  BY Zenon DEF Resume
<1>11. InHand(s)' /\ Goals(s)'
  BY <1>1, <1>2, <1>4, <1>5, <1>8, <1>9, <1>10, CallbackReceive, Zenon
<1>12. \A t \in Slots : t # s => InHand(t)' /\ Goals(t)'
  <2>1. PICK w \in MyType, r \in Resume : my' = [my EXCEPT ![s] = w] /\ pc' = [pc EXCEPT ![s] = r]
    BY <1>1, <1>2, <1>4, <1>5, <1>10, CallbackLocals
  <2>2. r \in PcValues /\ announced <= announced
    BY <1>1 DEF PcValues, Resume
  <2> QED  BY <1>1, <1>7, <2>1, <2>2, OwnReceive, Zenon
<1> QED  BY <1>11, <1>12, Zenon DEF Receiving

(* The next messages go into the static buffer.  If they do not fill it,   *)
(* they reach up to the maxMsgNum that was fetched.                        *)
LEMMA ReadMessagesReceive ==
    ASSUME IInv, Receiving, NEW s \in Slots, ReadMessages(s)
    PROVE  Receiving'
<1> DEFINE max == my[s].max
           from == procState[s].nextMsgNum
           n == Taken(s)
           q == [k \in 1 .. n |-> buffer[(from + k - 1) % MAXNUMMESSAGES]]
           p == AfterRead(procState[s], from + n, max)
           v == [my[s] EXCEPT !.messages = q, !.nummsgs = n, !.max = 0]
<1>1. /\ pc[s] = "read" /\ pc[s] \in Reading /\ ~procState[s].resetState
      /\ UNCHANGED <<base, announced>> /\ my[s] \in MyType /\ announced \in Nat
      /\ procState \in [Slots -> ProcType] /\ procState[s] \in ProcType /\ base \in Nat
      /\ minMsgNum \in Nat /\ maxMsgNum \in Nat /\ my[s].nummsgs = 0
      /\ pc' = [pc EXCEPT ![s] = "process"]
  BY OfProcess, OfEntry, Zenon DEF ReadMessages, seg, Reading, Control, Goto
<1>2. my' = [my EXCEPT ![s] = v] /\ procState' = [procState EXCEPT ![s] = p]
  BY <1>1, Zenon DEF ReadMessages, Taken
<1>3. /\ my[s].nextmsg \in Nat /\ my[s].frames # <<>> /\ Nested(my[s].frames)
      /\ InHandOf(my[s], base + from) /\ my[s].processed \in Int /\ from \in Int /\ max \in Nat
      /\ Receiver(s)
  BY <1>1, OfReceiver, Zenon
<1>4. my[s].nextmsg = 0 /\ my[s].processed = base + from
  <2>1. /\ my[s].nummsgs - my[s].nextmsg >= 0
        /\ my[s].processed + (my[s].nummsgs - my[s].nextmsg) = base + from
    BY <1>3, Zenon DEF InHandOf
  <2> QED  BY <1>1, <1>3, <2>1
<1>5. n \in Nat /\ from + n <= max /\ (n # MAXINVALMSGS => from + n = max)
  BY <1>1, TakenCount, Zenon
<1>6. from <= max /\ max <= maxMsgNum /\ minMsgNum <= from
  BY <1>1, <1>3, Zenon DEF IInv, Position, QueueSound
<1> HIDE DEF n
<1>7. /\ v.messages = q /\ v.nextmsg = my[s].nextmsg /\ v.nummsgs = n
      /\ v.processed = my[s].processed /\ v.frames = my[s].frames
  <2> HIDE DEF q
  <2> QED  BY <1>1, Zenon DEF MyType
<1>8. p.nextMsgNum = from + n
  BY <1>1, Zenon DEF AfterRead, ProcType
<1>9. ASSUME NEW k \in 1 .. n PROVE q[k] = my[s].processed + k - 1
  <2>1. from + k - 1 \in minMsgNum .. maxMsgNum - 1
    <3> HIDE DEF from, max
    <3> QED  BY <1>1, <1>3, <1>5, <1>6
  <2>2. buffer[(from + k - 1) % MAXNUMMESSAGES] = base + (from + k - 1)
    BY <2>1, Zenon DEF IInv, QueueSound
  <2>3. base + (from + k - 1) = (base + from) + k - 1
    BY <1>1, <1>3, <1>5
  <2> QED  BY <1>4, <2>2, <2>3, Zenon
<1> HIDE DEF q, p, v
<1>10. /\ my'[s] = v /\ pc'[s] = "process" /\ procState'[s] = p
       /\ \A t \in Slots : t # s => procState'[t] = procState[t] /\ my'[t] = my[t] /\ pc'[t] = pc[t]
  BY <1>1, <1>2, OfProcess, Zenon
<1>11. InHandOf(v, base' + procState'[s].nextMsgNum)
  <2>1. n - 0 = n /\ n >= 0 /\ (base + from) + n = base + (from + n)
    BY <1>1, <1>3, <1>5
  <2>2. \A k \in 1 .. n : 0 + k = k
    BY <1>5
  <2>3. v.nummsgs - v.nextmsg = n /\ base' + procState'[s].nextMsgNum = v.processed + n
    BY <1>1, <1>4, <1>7, <1>8, <1>10, <2>1, Zenon
  <2>4. ASSUME NEW k \in 1 .. n PROVE v.messages[v.nextmsg + k] = v.processed + k - 1
    <3>1. v.nextmsg + k = k
      BY <1>4, <1>7, <2>2, Zenon
    <3>2. q[k] = my[s].processed + k - 1
      BY <1>9, Zenon
    <3> QED  BY <1>7, <3>1, <3>2, Zenon
  <2> QED  BY <2>1, <2>3, <2>4, Zenon DEF InHandOf
<1>12. n # MAXINVALMSGS => base' + procState'[s].nextMsgNum >= my[s].frames[1].goal
  BY <1>1, <1>5, <1>8, <1>10, Zenon DEF Receiving, Goals
<1>13. Nested(my[s].frames)'
  BY <1>1, <1>3, <1>7, <1>10, Zenon DEF Nested
<1>14. InHand(s)' /\ Goals(s)'
  <2>1. ~Ending(s)'
    BY <1>10, Zenon DEF Ending
  <2> QED  BY <1>7, <1>10, <1>11, <1>12, <1>13, <2>1, Zenon DEF InHand, Goals, MoreToRead
<1>15. \A t \in Slots : t # s => InHand(t)' /\ Goals(t)'
  <2>1. \A t \in Slots : t # s => SameReceive(t) /\ pc'[t] = pc[t]
                                  /\ my'[t].nthistime = my[t].nthistime
    BY <1>10, Zenon DEF SameReceive
  <2>2. announced <= announced'
    BY <1>1
  <2> QED  BY <1>1, <1>10, <2>1, <2>2, OthersReceive, Zenon
<1> QED  BY <1>14, <1>15, Zenon DEF Receiving

(* A call that has come to its end has processed what it owes.             *)
LEMMA AtEndReceive ==
    ASSUME IInv, Receiving, NEW s \in Slots,
           AtEnd(s) \/ pc[s] = "clean" \/ (pc[s] = "signal" /\ my[s].nthistime = 0)
    PROVE  /\ Exhausted(s) /\ my[s].processed >= my[s].frames[1].goal
           /\ Receiver(s) /\ my[s].frames # <<>> /\ my[s].frames \in Frames
<1>1. CASE pc[s] = "process" /\ Exhausted(s) /\ ~MoreToRead(s)
  <2>1. /\ my[s].processed = base + procState[s].nextMsgNum /\ Receiver(s)
        /\ my[s].frames # <<>> /\ my[s].frames \in Frames
    BY <1>1, OfReceiver, Zenon DEF Reading, Resume
  <2>2. base + procState[s].nextMsgNum >= my[s].frames[1].goal
    BY <1>1, Zenon DEF Receiving, Goals
  <2> QED  BY <1>1, <2>1, <2>2, Zenon
<1>2. CASE Ending(s)
  <2>1. Receiver(s) /\ my[s].frames # <<>> /\ my[s].frames \in Frames
    BY <1>2, OfProcess, Zenon DEF Ending, Control, Reading, Resume, MyType, Frames
  <2> QED  BY <1>2, <2>1, Zenon DEF Receiving, Goals
<1>3. Ending(s) \/ (pc[s] = "process" /\ Exhausted(s) /\ ~MoreToRead(s))
  BY Zenon DEF AtEnd, Ending
<1> QED  BY <1>1, <1>2, <1>3, Zenon

(* The locals of the innermost call when it returns.                       *)
LEMMA ReturnedFields ==
    ASSUME IInv, NEW s \in Slots
    PROVE  /\ Returned(s).frames = Tail(my[s].frames)
           /\ Returned(s).messages = my[s].messages /\ Returned(s).nextmsg = my[s].nextmsg
           /\ Returned(s).nummsgs = my[s].nummsgs /\ Returned(s).processed = my[s].processed
<1> DEFINE r == Tail(my[s].frames)
           v == [my[s] EXCEPT !.frames = r, !.needSig = 0]
<1>1. Returned(s) = v /\ my[s] \in MyType
  BY OfProcess, Zenon DEF Returned
<1> HIDE DEF r
<1>2. /\ v.frames = r /\ v.messages = my[s].messages /\ v.nextmsg = my[s].nextmsg
      /\ v.nummsgs = my[s].nummsgs /\ v.processed = my[s].processed
  BY <1>1, Zenon DEF MyType
<1> QED  BY <1>1, <1>2, Zenon DEF r

(* The innermost call returns, or goes on to pass the catchup signal on.   *)
LEMMA EndReceive ==
    ASSUME IInv, Receiving, NEW s \in Slots, CaughtUp(s) \/ PassItOn(s)
    PROVE  Receiving'
<1>1. /\ AtEnd(s) /\ UNCHANGED <<procState, base, announced>> /\ announced \in Nat
      /\ my[s] \in MyType /\ (Receiver(s)' <=> Receiver(s)) /\ announced <= announced
  <2>1. AtEnd(s) /\ UNCHANGED <<procState, base, announced>>
    BY Zenon DEF CaughtUp, PassItOn, seg
  <2> QED  BY <2>1, OfProcess DEF Receiver
<1>2. /\ Exhausted(s) /\ my[s].processed >= my[s].frames[1].goal
      /\ Receiver(s) /\ my[s].frames # <<>>
  BY <1>1, AtEndReceive, Zenon
<1>3. InHand(s) /\ Goals(s)
  BY Zenon DEF Receiving
<1>4. CASE CaughtUp(s)
  <2>1. my' = [my EXCEPT ![s] = Returned(s)] /\ pc' = [pc EXCEPT ![s] = ReturnTo(s)]
    BY <1>4, Zenon DEF CaughtUp, Goto
  <2>2. Returned(s) \in MyType /\ ReturnTo(s) \in Resume \cup {"idle"}
    BY <1>2, ReturnLocals, Zenon
  <2>3. ReturnTo(s) \in PcValues
    BY <2>2, Zenon DEF PcValues, Resume
  <2>4. /\ my'[s] = Returned(s) /\ pc'[s] = ReturnTo(s)
        /\ \A t \in Slots : t # s => InHand(t)' /\ Goals(t)'
    BY <1>1, <2>1, <2>2, <2>3, OwnReceive, Zenon
  <2>5. InHand(s)' /\ Goals(s)'
    BY <1>1, <1>2, <1>3, <2>4, ReturnedFields, ReturnReceive, Zenon
  <2> QED  BY <2>4, <2>5, Zenon DEF Receiving
<1>5. CASE PassItOn(s)
  <2> DEFINE v == [my[s] EXCEPT !.catchupInterruptPending = FALSE]
  <2>1. my' = [my EXCEPT ![s] = v] /\ pc' = [pc EXCEPT ![s] = "wlock"]
    BY <1>5, Zenon DEF PassItOn, Goto
  <2>2. v \in MyType
    BY <1>1, Zenon DEF MyType
  <2>3. /\ v.messages = my[s].messages /\ v.nextmsg = my[s].nextmsg /\ v.nummsgs = my[s].nummsgs
        /\ v.processed = my[s].processed /\ v.frames = my[s].frames
    BY <1>1, Zenon DEF MyType
  <2> HIDE DEF v
  <2>4. /\ my'[s] = v /\ pc'[s] = "wlock"
        /\ \A t \in Slots : t # s => InHand(t)' /\ Goals(t)'
    BY <1>1, <2>1, <2>2, OwnReceive, Zenon DEF PcValues
  <2>5. InHand(s)'
    BY <1>1, <1>3, <2>3, <2>4, BufferKept, Zenon
  <2>6. Nested(my[s].frames)'
    BY <1>1, <1>3, <2>3, <2>4, Zenon DEF Goals, Nested
  <2>7. Goals(s)'
    BY <1>2, <2>3, <2>4, <2>6, Zenon DEF Goals, Exhausted
  <2> QED  BY <2>4, <2>5, <2>7, Zenon DEF Receiving
<1> QED  BY <1>4, <1>5, Zenon

(* SendProcSignal: the target's flag does not touch its receive calls.     *)
LEMMA SendCatchupReceive ==
    ASSUME IInv, Receiving, NEW s \in Slots, SendCatchup(s)
    PROVE  Receiving'
<1> DEFINE sending == my[s].nthistime > 0
           v == IF sending THEN [my[s] EXCEPT !.needSig = 0] ELSE Returned(s)
           l == IF sending THEN "relock" ELSE ReturnTo(s)
           told == [my EXCEPT ![s] = v]
           t == my[s].needSig
<1>1. /\ my \in [Slots -> MyType] /\ my[s] \in MyType /\ pc \in [Slots -> PcValues]
      /\ Control(s) /\ pc[s] = "signal" /\ pc' = [pc EXCEPT ![s] = l]
      /\ UNCHANGED <<procState, base, announced>> /\ announced \in Nat
      /\ my[s].nthistime \in Nat /\ t \in 0 .. MaxBackends
  BY OfProcess, Zenon DEF SendCatchup, Goto, MyType, seg
<1>2. my' = IF t = 0 THEN told ELSE [told EXCEPT ![t].catchupInterruptPending = TRUE]
  BY Zenon DEF SendCatchup
<1>3. t # 0 => t \in Slots
  <2> HIDE DEF t
  <2> QED  BY <1>1, SInvalAssumption DEF Slots
<1>4. InHand(s) /\ Goals(s) /\ (Receiver(s)' <=> Receiver(s))
  BY <1>1, Zenon DEF Receiving, Receiver
<1>5. ~sending => /\ Exhausted(s) /\ my[s].processed >= my[s].frames[1].goal
                  /\ Receiver(s) /\ my[s].frames # <<>>
  <2>1. ~sending => my[s].nthistime = 0
    BY <1>1
  <2> QED  BY <1>1, <2>1, AtEndReceive, Zenon
<1>6. /\ v \in MyType /\ v.messages = my[s].messages /\ v.nextmsg = my[s].nextmsg
      /\ v.nummsgs = my[s].nummsgs /\ v.processed = my[s].processed
      /\ sending => v.frames = my[s].frames /\ v.max = my[s].max
      /\ ~sending => v.frames = Tail(my[s].frames)
  <2>1. CASE sending
    <3>1. 0 \in 0 .. MaxBackends
      BY SInvalAssumption
    <3> QED  BY <1>1, <2>1, <3>1, Zenon DEF MyType
  <2>2. CASE ~sending
    BY <1>5, <2>2, ReturnLocals, ReturnedFields, Zenon
  <2> QED  BY <2>1, <2>2, Zenon
<1> HIDE DEF v, l, t, sending
<1>7. told \in [Slots -> MyType] /\ told[s] = v /\ \A u \in Slots : u # s => told[u] = my[u]
  BY <1>1, <1>6, Zenon
<1> HIDE DEF told
<1>8. ASSUME NEW u \in Slots
      PROVE  /\ my'[u].messages = told[u].messages /\ my'[u].nextmsg = told[u].nextmsg
             /\ my'[u].nummsgs = told[u].nummsgs /\ my'[u].processed = told[u].processed
             /\ my'[u].frames = told[u].frames /\ my'[u].max = told[u].max
             /\ my'[u].nthistime = told[u].nthistime
  <2> DEFINE w == [told[u] EXCEPT !.catchupInterruptPending = TRUE]
  <2>1. my'[u] \in {told[u], w}
    BY <1>2, <1>3, <1>7, Zenon
  <2>2. /\ w.messages = told[u].messages /\ w.nextmsg = told[u].nextmsg
        /\ w.nummsgs = told[u].nummsgs /\ w.processed = told[u].processed
        /\ w.frames = told[u].frames /\ w.max = told[u].max
        /\ w.nthistime = told[u].nthistime
    <3>1. told[u] \in MyType
      BY <1>7, Zenon
    <3> QED  BY <3>1, Zenon DEF MyType
  <2> HIDE DEF w
  <2> QED  BY <2>1, <2>2, Zenon
<1>9. pc'[s] = l /\ \A u \in Slots : u # s => pc'[u] = pc[u]
  BY <1>1, Zenon
<1>10. \A u \in Slots : u # s => InHand(u)' /\ Goals(u)'
  <2>1. ASSUME NEW u \in Slots, u # s
        PROVE  SameReceive(u) /\ pc'[u] = pc[u] /\ my'[u].nthistime = my[u].nthistime
    <3>1. told[u] = my[u] /\ pc'[u] = pc[u]
      BY <1>7, <1>9, <2>1, Zenon
    <3> QED  BY <1>8, <3>1, Zenon DEF SameReceive
  <2>2. announced <= announced
    BY <1>1
  <2> QED  BY <1>1, <2>1, <2>2, OthersReceive, Zenon
<1>11. InHand(s)' /\ Goals(s)'
  <2>1. CASE sending
    <3>1. SameReceive(s)
      BY <1>6, <1>7, <1>8, <2>1, Zenon DEF SameReceive
    <3>2. pc'[s] = "relock"
      BY <1>9, <2>1, Zenon DEF l
    <3>3. ~Ending(s)' /\ announced <= announced
      BY <1>1, <3>2 DEF Ending
    <3>4. pc'[s] # "process" /\ pc'[s] # "read"
      BY <3>2, Zenon
    <3> QED  BY <1>1, <1>4, <3>1, <3>3, <3>4, ReceiveKept, Zenon
  <2>2. CASE ~sending
    <3>1. /\ my'[s].frames = Tail(my[s].frames) /\ my'[s].messages = my[s].messages
          /\ my'[s].nextmsg = my[s].nextmsg /\ my'[s].nummsgs = my[s].nummsgs
          /\ my'[s].processed = my[s].processed
      BY <1>6, <1>7, <1>8, <2>2, Zenon
    <3>2. pc'[s] = ReturnTo(s)
      BY <1>9, <2>2, Zenon DEF l
    <3> QED  BY <1>1, <1>4, <1>5, <2>2, <3>1, <3>2, ReturnReceive, Zenon
  <2> QED  BY <2>1, <2>2, Zenon
<1> QED  BY <1>10, <1>11, Zenon DEF Receiving

(* A backend starts with nothing taken out of the queue.                   *)
LEMMA BackendInitReceive ==
    ASSUME WellOrdered, IInv, Receiving, SharedInvalBackendInit
    PROVE  Receiving'
<1>1. PICK s \in Slots, sendOnly \in BOOLEAN :
        /\ procState' = [procState EXCEPT ![s] =
                [procPid |-> TRUE, nextMsgNum |-> maxMsgNum, resetState |-> FALSE,
                 signaled |-> FALSE, hasMessages |-> FALSE, sendOnly |-> sendOnly]]
        /\ my' = [my EXCEPT ![s] = Fresh(base + maxMsgNum)]
        /\ pc' = [pc EXCEPT ![s] = "idle"]
        /\ UNCHANGED <<base, announced>>
  BY InitSlot, Zenon
<1> DEFINE v == Fresh(base + maxMsgNum)
<1>2. /\ maxMsgNum \in Nat /\ base \in Nat /\ announced \in Nat /\ announced <= announced
      /\ procState \in [Slots -> ProcType]
  BY OfProcess, OfEntry
<1>3. /\ v \in MyType /\ v.nummsgs = 0 /\ v.nextmsg = 0 /\ v.processed = base + maxMsgNum
      /\ v.frames = <<>>
  <2>1. base + maxMsgNum \in Int
    BY <1>2
  <2> QED  BY <2>1, FreshType, Zenon DEF Fresh
<1>4. /\ procState'[s].nextMsgNum = maxMsgNum
      /\ \A t \in Slots : t # s => procState'[t] = procState[t]
  BY <1>1, <1>2, Zenon
<1> HIDE DEF v
<1>5. /\ my'[s] = v /\ pc'[s] = "idle"
      /\ \A t \in Slots : t # s => InHand(t)' /\ Goals(t)'
  <2>1. my' = [my EXCEPT ![s] = v] /\ "idle" \in PcValues
    BY <1>1, Zenon DEF v, PcValues
  <2> QED  BY <1>1, <1>2, <1>3, <1>4, <2>1, OwnReceive, Zenon
<1>6. InHand(s)'
  <2>1. InHandOf(v, v.processed)
    <3>1. base + maxMsgNum \in Int
      BY <1>2
    <3> QED  BY <1>3, <3>1, NothingLeft, Zenon
  <2> QED  BY <1>1, <1>3, <1>4, <1>5, <2>1, Zenon DEF InHand
<1>7. Goals(s)'
  <2>1. DOMAIN v.frames = {}
    BY <1>3
  <2>2. Nested(my[s].frames)'
    BY <1>5, <2>1, Zenon DEF Nested
  <2> QED  BY <1>5, <2>2, Zenon DEF Goals, Ending
<1> QED  BY <1>5, <1>6, <1>7, Zenon DEF Receiving

(* A backend exits: its entry is nobody's, and the others go on.           *)
LEMMA BackendExitReceive ==
    ASSUME IInv, Receiving, NEW s \in Slots, CleanupInvalidationState(s)
    PROVE  Receiving'
<1>1. /\ pc' = [pc EXCEPT ![s] = "exited"]
      /\ my' = [t \in Slots |-> IF t = s THEN Fresh(0)
                                ELSE IF my[t].needSig = s THEN [my[t] EXCEPT !.needSig = 0]
                                ELSE my[t]]
      /\ UNCHANGED <<base, announced>>
  BY Zenon DEF CleanupInvalidationState, Goto
<1>2. /\ my \in [Slots -> MyType] /\ pc \in [Slots -> PcValues]
      /\ announced \in Nat /\ announced <= announced /\ procState \in [Slots -> ProcType]
  BY OfProcess, OfEntry
<1>3. /\ procState'[s].procPid = FALSE
      /\ \A t \in Slots : t # s => procState'[t] = procState[t]
  <2>1. procState' = [procState EXCEPT ![s].procPid = FALSE, ![s].nextMsgNum = 0,
                                       ![s].resetState = FALSE, ![s].signaled = FALSE]
    BY Zenon DEF CleanupInvalidationState
  <2> QED  BY <1>2, <2>1, Zenon DEF ProcType
<1>4. /\ my'[s] = Fresh(0) /\ pc'[s] = "exited"
      /\ \A t \in Slots : t # s => /\ my'[t] \in {my[t], [my[t] EXCEPT !.needSig = 0]}
                                   /\ pc'[t] = pc[t] /\ my[t] \in MyType
  BY <1>1, <1>2, Zenon
<1>5. ASSUME NEW t \in Slots, t # s
      PROVE  SameReceive(t) /\ pc'[t] = pc[t] /\ my'[t].nthistime = my[t].nthistime
  <2> DEFINE w == [my[t] EXCEPT !.needSig = 0]
  <2>1. my'[t] \in {my[t], w} /\ my[t] \in MyType /\ pc'[t] = pc[t]
    BY <1>4, <1>5, Zenon
  <2>2. /\ w.messages = my[t].messages /\ w.nextmsg = my[t].nextmsg
        /\ w.nummsgs = my[t].nummsgs /\ w.processed = my[t].processed
        /\ w.frames = my[t].frames /\ w.max = my[t].max /\ w.nthistime = my[t].nthistime
    BY <2>1, Zenon DEF MyType
  <2> HIDE DEF w
  <2> QED  BY <2>1, <2>2, Zenon DEF SameReceive
<1>6. \A t \in Slots : t # s => InHand(t)' /\ Goals(t)'
  BY <1>1, <1>2, <1>3, <1>5, OthersReceive, Zenon
<1>7. InHand(s)' /\ Goals(s)'
  <2>1. Fresh(0).frames = <<>>
    BY Zenon DEF Fresh
  <2>2. DOMAIN Fresh(0).frames = {}
    BY <2>1
  <2>3. Nested(my[s].frames)'
    BY <1>4, <2>2, Zenon DEF Nested
  <2>4. ~Receiver(s)'
    BY <1>3, Zenon DEF Receiver
  <2> QED  BY <1>4, <2>3, <2>4, Zenon DEF InHand, Goals, Ending
<1> QED  BY <1>6, <1>7, Zenon DEF Receiving

(* SICleanupQueue lowers the numbers together, while nobody reads.         *)
LEMMA CleanupReceive ==
    ASSUME WellOrdered, IInv, Receiving, NEW s \in Slots, SICleanupQueue(s)
    PROVE  Receiving'
<1>1. PICK d \in Nat, needSig \in 0 .. MaxBackends :
        /\ base' = base + d
        /\ \A t \in Slots :
              /\ procState'[t].procPid = procState[t].procPid
              /\ procState'[t].sendOnly = procState[t].sendOnly
              /\ procState[t].procPid => procState'[t].nextMsgNum = procState[t].nextMsgNum - d
        /\ \/ my' = [my EXCEPT ![s].needSig = needSig] /\ Goto(s, "signal")
           \/ my[s].nthistime > 0 /\ UNCHANGED my /\ Goto(s, "space")
           \/ ~(my[s].nthistime > 0) /\ my' = [my EXCEPT ![s] = Returned(s)] /\ Goto(s, ReturnTo(s))
  BY CleanupEffect, ZenonT(40)
<1>2. /\ pc[s] \in {"clean", "space"} /\ SInvalReadLock = {}
      /\ UNCHANGED announced /\ announced \in Nat /\ base \in Nat /\ my[s] \in MyType
      /\ my \in [Slots -> MyType] /\ pc \in [Slots -> PcValues] /\ Control(s)
      /\ announced <= announced
  <2>1. (pc[s] = "clean" \/ pc[s] = "space") /\ SInvalReadLock = {} /\ UNCHANGED announced
    BY Zenon DEF SICleanupQueue
  <2> QED  BY <2>1, OfProcess
<1>3. \A t \in Slots : /\ Receiver(t)' <=> Receiver(t)
                       /\ Receiver(t) => base' + procState'[t].nextMsgNum
                                         = base + procState[t].nextMsgNum
  <2> SUFFICES ASSUME NEW t \in Slots
               PROVE  /\ Receiver(t)' <=> Receiver(t)
                      /\ Receiver(t) => base' + procState'[t].nextMsgNum
                                        = base + procState[t].nextMsgNum
    BY Zenon
  <2>1. procState[t].nextMsgNum \in Int
    BY OfEntry, Zenon DEF ProcType
  <2>2. Receiver(t)' <=> Receiver(t)
    BY <1>1, Zenon DEF Receiver
  <2>3. Receiver(t) => procState'[t].nextMsgNum = procState[t].nextMsgNum - d
    BY <1>1, Zenon DEF Receiver
  <2> QED  BY <1>1, <1>2, <2>1, <2>2, <2>3
<1>4. \A t \in Slots : pc[t] # "read"
  BY OfProcess, Zenon DEF SICleanupQueue, Control
<1>5. \A t \in Slots : t # s => my'[t] = my[t] /\ pc'[t] = pc[t]
  BY <1>1, <1>2, Zenon DEF Goto
<1>6. ASSUME NEW t \in Slots, t # s PROVE InHand(t)' /\ Goals(t)'
  <2>1. my'[t] = my[t] /\ pc'[t] = pc[t] /\ pc[t] # "read"
    BY <1>4, <1>5, <1>6, Zenon
  <2>2. SameReceive(t) /\ (Ending(t)' => Ending(t))
    BY <2>1, Zenon DEF SameReceive, Ending
  <2>3. pc[t] = "process" => Receiver(t)
    BY OfProcess, Zenon DEF Control, Reading, Resume
  <2>4. InHand(t) /\ Goals(t)
    BY Zenon DEF Receiving
  <2> QED  BY <1>2, <1>3, <2>1, <2>2, <2>3, <2>4, ReceiveKept, Zenon
<1>7. InHand(s) /\ Goals(s)
  BY Zenon DEF Receiving
<1>8. InHand(s)' /\ Goals(s)'
  <2>1. CASE my' = [my EXCEPT ![s].needSig = needSig] /\ Goto(s, "signal")
    <3> DEFINE v == [my[s] EXCEPT !.needSig = needSig]
    <3>1. my'[s] = v /\ pc'[s] = "signal"
      BY <1>2, <2>1, Zenon DEF Goto
    <3>2. /\ v.messages = my[s].messages /\ v.nextmsg = my[s].nextmsg
          /\ v.nummsgs = my[s].nummsgs /\ v.processed = my[s].processed
          /\ v.frames = my[s].frames /\ v.max = my[s].max /\ v.nthistime = my[s].nthistime
      BY <1>2, Zenon DEF MyType
    <3> HIDE DEF v
    <3>3. SameReceive(s)
      BY <3>1, <3>2, Zenon DEF SameReceive
    <3>4. my[s].nthistime = 0 => pc[s] = "clean"
      <4>1. pc[s] = "space" => my[s].nthistime \in 1 .. WRITE_QUANTUM
        BY <1>2, Zenon DEF Control, Writing
      <4> QED  BY <1>2, <4>1
    <3>5. Ending(s)' => Ending(s)
      BY <3>1, <3>2, <3>4, Zenon DEF Ending
    <3> QED  BY <1>2, <1>3, <1>7, <3>1, <3>3, <3>5, ReceiveKept, Zenon
  <2>2. CASE my[s].nthistime > 0 /\ UNCHANGED my /\ Goto(s, "space")
    <3>1. my'[s] = my[s] /\ pc'[s] = "space"
      BY <1>2, <2>2, Zenon DEF Goto
    <3>2. SameReceive(s) /\ ~Ending(s)'
      BY <3>1, Zenon DEF SameReceive, Ending
    <3> QED  BY <1>2, <1>3, <1>7, <3>1, <3>2, ReceiveKept, Zenon
  <2>3. CASE /\ ~(my[s].nthistime > 0) /\ my' = [my EXCEPT ![s] = Returned(s)]
             /\ Goto(s, ReturnTo(s))
    <3>1. pc[s] = "clean"
      <4>1. pc[s] = "space" => my[s].nthistime \in 1 .. WRITE_QUANTUM
        BY <1>2, Zenon DEF Control, Writing
      <4> QED  BY <1>2, <2>3, <4>1
    <3>2. /\ Exhausted(s) /\ my[s].processed >= my[s].frames[1].goal
          /\ Receiver(s) /\ my[s].frames # <<>>
      BY <3>1, AtEndReceive, Zenon
    <3>3. my'[s] = Returned(s) /\ pc'[s] = ReturnTo(s)
      BY <1>2, <2>3, Zenon DEF Goto
    <3> QED  BY <1>2, <1>3, <1>7, <3>2, <3>3, ReturnedFields, ReturnReceive, Zenon
  <2> QED  BY <1>1, <2>1, <2>2, <2>3, Zenon
<1> QED  BY <1>6, <1>8, Zenon DEF Receiving

(* At the start nobody receives.                                           *)
LEMMA InitReceive == Init => Receiving
<1> SUFFICES ASSUME Init, NEW s \in Slots PROVE InHand(s) /\ Goals(s)
  BY Zenon DEF Receiving
<1>1. /\ my[s] = Fresh(0) /\ pc[s] = "exited" /\ procState[s].procPid = FALSE
  BY Zenon DEF Init
<1>2. Fresh(0).frames = <<>>
  BY Zenon DEF Fresh
<1>3. DOMAIN my[s].frames = {}
  BY <1>1, <1>2
<1>4. Nested(my[s].frames)
  BY <1>3, Zenon DEF Nested
<1> QED  BY <1>1, <1>4, Zenon DEF InHand, Goals, Ending, Receiver

(* Every step preserves the invariant of the receive.                      *)
LEMMA NextReceive ==
    ASSUME WellOrdered, IInv, Receiving, [Next]_vars
    PROVE  Receiving'
<1>1. CASE SharedInvalBackendInit
  BY <1>1, BackendInitReceive, Zenon
<1>2. ASSUME NEW s \in Slots,
             CleanupInvalidationState(s) \/ AcceptInvalidationMessages(s)
      PROVE  Receiving'
  BY <1>2, BackendExitReceive, AcceptReceive, Zenon
<1>3. ASSUME NEW s \in Slots, SendSharedInvalidMessages(s) \/ Step(s) PROVE Receiving'
  <2>1. \/ SendSharedInvalidMessages(s) \/ InsertChunk(s) \/ Fill(s) \/ Publish(s)
        \/ Kick(s) \/ Kicked(s) \/ TakeWriteLock(s)
        \/ InvalFunction(s) \/ NothingToRead(s) \/ BeginRead(s) \/ FetchMax(s)
        \/ ReadReset(s) \/ ReadMessages(s) \/ CaughtUp(s) \/ PassItOn(s)
        \/ SICleanupQueue(s) \/ SendCatchup(s)
    BY <1>3, Zenon DEF Step
  <2> QED  BY <2>1, SenderReceive, InvalFunctionReceive, GetReceive, FetchMaxReceive,
              ReadResetReceive, ReadMessagesReceive, EndReceive, CleanupReceive,
              SendCatchupReceive, Zenon
<1>4. CASE UNCHANGED vars
  BY <1>4, Zenon DEF vars, seg, Receiving, InHand, InHandOf, Goals, Nested, Ending,
                     Exhausted, MoreToRead, Receiver
<1> QED  BY <1>1, <1>2, <1>3, <1>4, Zenon DEF Next

-----------------------------------------------------------------------------
(* The ring implements the endless sequence of InvalQueue.                 *)

(* What the refinement mapping makes of a backend.                         *)
SeenBy(s) == IF Receiver(s) THEN base + procState[s].nextMsgNum ELSE 0

(* A step that moves no message and no reader is a stuttering step.        *)
LEMMA Stutter ==
    ASSUME base' + maxMsgNum' = base + maxMsgNum,
           \A t \in Slots : /\ Receiver(t)' <=> Receiver(t)
                            /\ SeenBy(t)' = SeenBy(t)
                            /\ my'[t].messages = my[t].messages
    PROVE  UNCHANGED Abstract!qvars
<1>1. {t \in Slots : Receiver(t)}' = {t \in Slots : Receiver(t)}
  BY Zenon
<1>2. [t \in Slots |-> SeenBy(t)]' = [t \in Slots |-> SeenBy(t)]
  BY Zenon
<1>3. [t \in Slots |-> my[t].messages]' = [t \in Slots |-> my[t].messages]
  BY Zenon
<1> QED  BY <1>1, <1>2, <1>3, Zenon DEF Abstract!qvars, SeenBy

(* The same for a step that leaves the queue and the positions alone.      *)
LEMMA StutterHere ==
    ASSUME UNCHANGED <<base, maxMsgNum>>,
           \A t \in Slots : /\ procState'[t].procPid = procState[t].procPid
                            /\ procState'[t].sendOnly = procState[t].sendOnly
                            /\ procState'[t].nextMsgNum = procState[t].nextMsgNum
                            /\ my'[t].messages = my[t].messages
    PROVE  UNCHANGED Abstract!qvars
  BY Stutter, Zenon DEF Receiver, SeenBy

(* The steps of a process that only touch its locals, the locks and flags. *)
LEMMA QuietSteps ==
    ASSUME IInv, NEW s \in Slots,
           \/ SendSharedInvalidMessages(s) \/ AcceptInvalidationMessages(s)
           \/ InsertChunk(s) \/ Fill(s) \/ Kick(s) \/ Kicked(s)
           \/ NothingToRead(s) \/ BeginRead(s) \/ FetchMax(s)
           \/ CaughtUp(s) \/ PassItOn(s) \/ TakeWriteLock(s)
    PROVE  UNCHANGED Abstract!qvars
<1>1. /\ my \in [Slots -> MyType] /\ my[s] \in MyType /\ procState \in [Slots -> ProcType]
  BY OfProcess, OfEntry, Zenon
<1>2. UNCHANGED <<base, maxMsgNum>>
  BY Zenon DEF SendSharedInvalidMessages, AcceptInvalidationMessages, InsertChunk, Fill, Kick,
         Kicked, NothingToRead, BeginRead, FetchMax, CaughtUp, PassItOn, TakeWriteLock, seg
<1>3. \A t \in Slots : my'[t].messages = my[t].messages
  <2>a. ASSUME NEW w, my' = [my EXCEPT ![s] = w], w.messages = my[s].messages
        PROVE  \A t \in Slots : my'[t].messages = my[t].messages
    BY <1>1, <2>a, Zenon
  <2>1. CASE SendSharedInvalidMessages(s)
    <3>1. PICK x : my' = [my EXCEPT ![s] = [my[s] EXCEPT !.n = x]]
      BY <2>1, Zenon DEF SendSharedInvalidMessages
    <3>2. [my[s] EXCEPT !.n = x].messages = my[s].messages
      BY <1>1, Zenon DEF MyType
    <3> QED  BY <3>1, <3>2, <2>a, Zenon
  <2>2. CASE AcceptInvalidationMessages(s)
    <3> DEFINE w == [my[s] EXCEPT !.frames = <<[at |-> "drain", goal |-> announced]>>]
    <3>1. my' = [my EXCEPT ![s] = w]
      BY <2>2, Zenon DEF AcceptInvalidationMessages
    <3>2. w.messages = my[s].messages
      BY <1>1, Zenon DEF MyType
    <3> HIDE DEF w
    <3> QED  BY <3>1, <3>2, <2>a, Zenon
  <2>3. CASE InsertChunk(s)
    <3> DEFINE w == [my[s] EXCEPT !.n = @ - Min({my[s].n, WRITE_QUANTUM}),
                                      !.nthistime = Min({my[s].n, WRITE_QUANTUM})]
    <3>1. my' = [my EXCEPT ![s] = w]
      BY <2>3, Zenon DEF InsertChunk
    <3>2. w.messages = my[s].messages
      BY <1>1, Zenon DEF MyType
    <3> HIDE DEF w
    <3> QED  BY <3>1, <3>2, <2>a, Zenon
  <2>4. CASE Kick(s)
    <3> DEFINE w == [my[s] EXCEPT !.i = @ + 1]
    <3>1. my' = [my EXCEPT ![s] = w]
      BY <2>4, Zenon DEF Kick
    <3>2. w.messages = my[s].messages
      BY <1>1, Zenon DEF MyType
    <3> HIDE DEF w
    <3> QED  BY <3>1, <3>2, <2>a, Zenon
  <2>5. CASE Kicked(s)
    <3> DEFINE w == [my[s] EXCEPT !.nthistime = 0, !.i = 0]
    <3>1. my' = [my EXCEPT ![s] = w]
      BY <2>5, Zenon DEF Kicked
    <3>2. w.messages = my[s].messages
      BY <1>1, Zenon DEF MyType
    <3> HIDE DEF w
    <3> QED  BY <3>1, <3>2, <2>a, Zenon
  <2>6. CASE NothingToRead(s)
    <3> DEFINE w == [my[s] EXCEPT !.nextmsg = 0, !.nummsgs = 0]
    <3>1. my' = [my EXCEPT ![s] = w]
      BY <2>6, Zenon DEF NothingToRead
    <3>2. w.messages = my[s].messages
      BY <1>1, Zenon DEF MyType
    <3> HIDE DEF w
    <3> QED  BY <3>1, <3>2, <2>a, Zenon
  <2>7. CASE BeginRead(s)
    <3> DEFINE w == [my[s] EXCEPT !.nextmsg = 0, !.nummsgs = 0]
    <3>1. my' = [my EXCEPT ![s] = w]
      BY <2>7, Zenon DEF BeginRead
    <3>2. w.messages = my[s].messages
      BY <1>1, Zenon DEF MyType
    <3> HIDE DEF w
    <3> QED  BY <3>1, <3>2, <2>a, Zenon
  <2>8. CASE FetchMax(s)
    <3> DEFINE w == [my[s] EXCEPT !.max = maxMsgNum]
    <3>1. my' = [my EXCEPT ![s] = w]
      BY <2>8, Zenon DEF FetchMax
    <3>2. w.messages = my[s].messages
      BY <1>1, Zenon DEF MyType
    <3> HIDE DEF w
    <3> QED  BY <3>1, <3>2, <2>a, Zenon
  <2>9. CASE PassItOn(s)
    <3> DEFINE w == [my[s] EXCEPT !.catchupInterruptPending = FALSE]
    <3>1. my' = [my EXCEPT ![s] = w]
      BY <2>9, Zenon DEF PassItOn
    <3>2. w.messages = my[s].messages
      BY <1>1, Zenon DEF MyType
    <3> HIDE DEF w
    <3> QED  BY <3>1, <3>2, <2>a, Zenon
  <2>10. CASE Fill(s) \/ TakeWriteLock(s)
    BY <2>10, Zenon DEF Fill, TakeWriteLock
  <2>11. CASE CaughtUp(s)
    BY <1>1, <2>11, Zenon DEF CaughtUp, Returned, MyType
  <2> QED  BY <2>1, <2>2, <2>3, <2>4, <2>5, <2>6, <2>7, <2>8, <2>9, <2>10, <2>11
<1>4. \A t \in Slots : /\ procState'[t].procPid = procState[t].procPid
                       /\ procState'[t].sendOnly = procState[t].sendOnly
                       /\ procState'[t].nextMsgNum = procState[t].nextMsgNum
  <2>1. CASE procState' = procState
    BY <2>1, Zenon
  <2>2. CASE Kick(s) \/ BeginRead(s)
    BY <1>1, <2>2 DEF Kick, BeginRead, ProcType
  <2> QED  BY <2>1, <2>2, Zenon DEF SendSharedInvalidMessages, AcceptInvalidationMessages,
         InsertChunk, Fill, Kicked, NothingToRead, FetchMax, CaughtUp, PassItOn, TakeWriteLock
<1> QED  BY <1>2, <1>3, <1>4, StutterHere, Zenon

(* The callbacks, the signal and the clean-up.                             *)
LEMMA QuietCallsAndCleanup ==
    ASSUME WellOrdered, IInv, NEW s \in Slots,
           InvalFunction(s) \/ SendCatchup(s) \/ SICleanupQueue(s)
    PROVE  UNCHANGED Abstract!qvars
<1>1. /\ my \in [Slots -> MyType] /\ my[s] \in MyType /\ procState \in [Slots -> ProcType]
      /\ \A t \in Slots : procState[t].nextMsgNum \in Int
      /\ base \in Nat /\ maxMsgNum \in Nat
  <2>1. procState \in [Slots -> ProcType]
    BY OfEntry, Zenon
  <2> QED  BY <2>1, OfProcess, Zenon DEF ProcType
<1>2. CASE InvalFunction(s)
  <2>1. UNCHANGED <<seg, procState>>
    BY <1>2, Zenon DEF InvalFunction
  <2> DEFINE msg == my[s].messages[my[s].nextmsg + 1]
             v == [my[s] EXCEPT !.nextmsg = @ + 1, !.processed = msg + 1]
  <2>2. Callback(s, pc[s], v)
    BY <1>2, Zenon DEF InvalFunction
  <2>3. v.messages = my[s].messages
    BY <1>1, Zenon DEF MyType
  <2>4. my'[s].messages = my[s].messages
    <3>1. CASE my' = [my EXCEPT ![s] = v]
      BY <1>1, <2>3, <3>1, Zenon
    <3>2. CASE my' # [my EXCEPT ![s] = v]
      <4> DEFINE w == [v EXCEPT !.frames =
                   <<[at |-> "drain", goal |-> announced]>> \o
                   <<[Head(@) EXCEPT !.at = pc[s]]>> \o Tail(@)]
      <4>1. my' = [my EXCEPT ![s] = w]
        BY <2>2, <3>2, Zenon DEF Callback
      <4>2. w.messages = v.messages
        BY <1>1, Zenon DEF MyType
      <4> HIDE DEF w, v
      <4> QED  BY <1>1, <2>3, <4>1, <4>2, Zenon
    <3> QED  BY <3>1, <3>2, Zenon
  <2>5. \A t \in Slots : t # s => my'[t] = my[t]
    BY <1>1, <2>2, Zenon DEF Callback
  <2>6. \A t \in Slots : my'[t].messages = my[t].messages
    BY <2>4, <2>5, Zenon
  <2> QED  BY <2>1, <2>6, StutterHere, Zenon DEF seg
<1>3. CASE SendCatchup(s)
  <2>1. UNCHANGED <<seg, procState>>
    BY <1>3, Zenon DEF SendCatchup
  <2> DEFINE caller == IF my[s].nthistime > 0 THEN [my[s] EXCEPT !.needSig = 0] ELSE Returned(s)
             told   == [my EXCEPT ![s] = caller]
             u      == my[s].needSig
  <2>2. my' = IF u = 0 THEN told ELSE [told EXCEPT ![u].catchupInterruptPending = TRUE]
    BY <1>3, Zenon DEF SendCatchup
  <2>3. caller \in MyType /\ caller.messages = my[s].messages
    <3>1. CASE my[s].nthistime > 0
      <4>1. 0 \in 0 .. MaxBackends
        BY RingConstants
      <4> QED  BY <1>1, <3>1, <4>1, Zenon DEF MyType
    <3>2. CASE ~(my[s].nthistime > 0)
      <4>1. my[s].nthistime = 0
        BY <1>1, <3>2 DEF MyType
      <4>2. my[s].frames # <<>>
        BY <1>3, <4>1, OfProcess, Zenon DEF Control, SendCatchup
      <4> QED  BY <3>2, <4>2, ReturnLocals, Zenon
    <3> QED  BY <3>1, <3>2, Zenon
  <2> HIDE DEF caller
  <2>4. told \in [Slots -> MyType] /\ \A t \in Slots : told[t].messages = my[t].messages
    BY <1>1, <2>3, Zenon
  <2> HIDE DEF told
  <2>5. \A t \in Slots : my'[t].messages = my[t].messages
    <3>1. CASE u = 0
      BY <2>2, <2>4, <3>1, Zenon
    <3>2. CASE u # 0
      <4>1. my' = [told EXCEPT ![u].catchupInterruptPending = TRUE]
        BY <2>2, <3>2, Zenon
      <4>2. \A t \in Slots : my'[t].messages = told[t].messages
        BY <2>4, <4>1, Zenon DEF MyType
      <4> QED  BY <2>4, <4>2, Zenon
    <3> QED  BY <3>1, <3>2, Zenon
  <2> QED  BY <2>1, <2>5, StutterHere, Zenon DEF seg
<1>4. CASE SICleanupQueue(s)
  <2>1. PICK d \in Nat, needSig \in 0 .. MaxBackends :
        /\ maxMsgNum' = maxMsgNum - d /\ base' = base + d
        /\ \A t \in Slots :
              /\ procState'[t].procPid = procState[t].procPid
              /\ procState'[t].sendOnly = procState[t].sendOnly
              /\ procState[t].procPid => procState'[t].nextMsgNum = procState[t].nextMsgNum - d
        /\ \/ /\ SInvalWriteLock' = 0
              /\ my' = [my EXCEPT ![s].needSig = needSig] /\ Goto(s, "signal")
           \/ /\ my[s].nthistime > 0 /\ UNCHANGED <<SInvalWriteLock, my>>
              /\ Goto(s, "space")
           \/ /\ ~(my[s].nthistime > 0) /\ SInvalWriteLock' = 0
              /\ my' = [my EXCEPT ![s] = Returned(s)] /\ Goto(s, ReturnTo(s))
    BY <1>4, CleanupEffect, ZenonT(40)
  <2>2. pc[s] \in {"clean", "space"}
    BY <1>4, Zenon DEF SICleanupQueue
  <2>3. PICK v \in MyType : my' = [my EXCEPT ![s] = v] /\ v.messages = my[s].messages
    BY <2>1, <2>2, CleanupLocals, Zenon
  <2>4. \A t \in Slots : my'[t].messages = my[t].messages
    BY <1>1, <2>3, Zenon
  <2>5. base' + maxMsgNum' = base + maxMsgNum
    BY <1>1, <2>1
  <2>6. \A t \in Slots : Receiver(t)' <=> Receiver(t)
    BY <2>1, Zenon DEF Receiver
  <2>7. \A t \in Slots : SeenBy(t)' = SeenBy(t)
    <3> TAKE t \in Slots
    <3>1. CASE Receiver(t)
      <4>1. procState'[t].nextMsgNum = procState[t].nextMsgNum - d /\ base' = base + d
        BY <2>1, <3>1, Zenon DEF Receiver
      <4>2. base' + procState'[t].nextMsgNum = base + procState[t].nextMsgNum
        BY <1>1, <4>1
      <4> QED  BY <2>6, <3>1, <4>2, Zenon DEF SeenBy
    <3>2. CASE ~Receiver(t)
      BY <2>6, <3>2, Zenon DEF SeenBy
    <3> QED  BY <3>1, <3>2, Zenon
  <2> QED  BY <2>4, <2>5, <2>6, <2>7, Stutter, Zenon
<1> QED  BY <1>2, <1>3, <1>4, Zenon

(* The variables of InvalQueue, as the refinement mapping gives them.      *)
Seen   == [t \in Slots |-> SeenBy(t)]
Active == {t \in Slots : Receiver(t)}
Handed == [t \in Slots |-> my[t].messages]

(* One backend moves and the others stay.                                  *)
LEMMA OneMoves ==
    ASSUME NEW s \in Slots,
           \A t \in Slots : t # s => /\ Receiver(t)' <=> Receiver(t)
                                     /\ SeenBy(t)' = SeenBy(t)
                                     /\ my'[t].messages = my[t].messages
    PROVE  /\ Seen' = [Seen EXCEPT ![s] = SeenBy(s)']
           /\ Handed' = [Handed EXCEPT ![s] = my'[s].messages]
           /\ Receiver(s)' => Active' = Active \cup {s}
           /\ ~Receiver(s)' => Active' = Active \ {s}
<1>1. Seen' = [Seen EXCEPT ![s] = SeenBy(s)']
  BY Zenon DEF Seen
<1>2. Handed' = [Handed EXCEPT ![s] = my'[s].messages]
  BY Zenon DEF Handed
<1>3. (Receiver(s)' => Active' = Active \cup {s}) /\ (~Receiver(s)' => Active' = Active \ {s})
  BY Zenon DEF Active
<1> QED  BY <1>1, <1>2, <1>3, Zenon

(* A backend starts.                                                       *)
LEMMA InitImplements ==
    ASSUME WellOrdered, IInv, SharedInvalBackendInit
    PROVE  Abstract!QNext \/ UNCHANGED Abstract!qvars
<1> DEFINE free == {t \in 1 .. lastBackend : ~procState[t].procPid}
           new == IF free # {} THEN Min(free) ELSE lastBackend + 1
<1>1. /\ lastBackend \in 0 .. MaxBackends /\ MaxBackends \in Nat \ {0} /\ maxMsgNum \in Nat
      /\ base \in Nat /\ my \in [Slots -> MyType] /\ procState \in [Slots -> ProcType]
  BY RingConstants, OfEntry, Zenon DEF IInv, Types, TypeOK
<1>2. new \in Slots /\ ~procState[new].procPid
  <2>1. CASE free # {}
    <3>1. free \subseteq Nat
      BY <1>1
    <3>2. Min(free) \in free
      BY <2>1, <3>1, MinNat, Zenon
    <3> QED  BY <1>1, <2>1, <3>2 DEF Slots
  <2>2. CASE free = {}
    <3>1. new = lastBackend + 1 /\ ~(new > MaxBackends)
      BY <2>2, Zenon DEF SharedInvalBackendInit, TooManyBackends
    <3>2. new \in Slots /\ ~(new <= lastBackend)
      BY <1>1, <3>1 DEF Slots
    <3> QED  BY <3>2, Zenon DEF IInv, Control
  <2> QED  BY <2>1, <2>2, Zenon
<1>3. PICK s \in Slots, sendOnly \in BOOLEAN :
        /\ ~procState[s].procPid
        /\ procState' = [procState EXCEPT ![s] =
                [procPid |-> TRUE, nextMsgNum |-> maxMsgNum, resetState |-> FALSE,
                 signaled |-> FALSE, hasMessages |-> FALSE, sendOnly |-> sendOnly]]
        /\ my' = [my EXCEPT ![s] = Fresh(base + maxMsgNum)]
        /\ UNCHANGED <<maxMsgNum, base>>
  BY <1>2, Zenon DEF SharedInvalBackendInit
<1>4. /\ \A t \in Slots : t # s => procState'[t] = procState[t] /\ my'[t] = my[t]
      /\ my'[s].messages = <<>> /\ procState'[s].procPid /\ procState'[s].nextMsgNum = maxMsgNum
      /\ procState'[s].sendOnly = sendOnly
  <2>1. Fresh(base + maxMsgNum).messages = <<>>
    BY <1>1, FreshType
  <2> QED  BY <1>1, <1>3, <2>1, Zenon
<1>5. ~Receiver(s) /\ my[s].messages = <<>> /\ SeenBy(s) = 0
  BY <1>3, Zenon DEF IInv, Control, Receiver, SeenBy
<1>6. \A t \in Slots : t # s => /\ Receiver(t)' <=> Receiver(t)
                                /\ SeenBy(t)' = SeenBy(t)
                                /\ my'[t].messages = my[t].messages
  BY <1>3, <1>4 DEF Receiver, SeenBy
<1>7. CASE Receiver(s)'
  <2>1. SeenBy(s)' = base + maxMsgNum
    BY <1>3, <1>4, <1>7, Zenon DEF SeenBy
  <2>2. /\ s \notin Active /\ Active' = Active \cup {s}
        /\ Seen' = [Seen EXCEPT ![s] = base + maxMsgNum]
    BY <1>5, <1>6, <1>7, <2>1, OneMoves, Zenon DEF Active
  <2>3. Handed' = Handed
    BY <1>4, <1>5, <1>6, Zenon DEF Handed
  <2>4. base' + maxMsgNum' = base + maxMsgNum
    BY <1>3, Zenon
  <2>5. Abstract!Join(s)
    BY <2>2, <2>3, <2>4, Zenon DEF Abstract!Join, Seen, SeenBy, Active, Handed
  <2> QED  BY <2>5, Zenon DEF Abstract!QNext
<1>8. CASE ~Receiver(s)'
  <2>1. SeenBy(s)' = 0
    BY <1>8, Zenon DEF SeenBy
  <2> QED  BY <1>3, <1>4, <1>5, <1>6, <1>8, <2>1, Stutter, Zenon
<1> QED  BY <1>7, <1>8, Zenon

(* A backend exits.                                                        *)
LEMMA ExitImplements ==
    ASSUME IInv, NEW s \in Slots, CleanupInvalidationState(s)
    PROVE  Abstract!QNext \/ UNCHANGED Abstract!qvars
<1>1. my \in [Slots -> MyType] /\ procState \in [Slots -> ProcType] /\ procState[s] \in ProcType
  BY OfProcess, OfEntry, Zenon
<1>2. UNCHANGED <<base, maxMsgNum>>
  BY Zenon DEF CleanupInvalidationState
<1>3. /\ \A t \in Slots : t # s => procState'[t] = procState[t]
      /\ ~procState'[s].procPid
  BY <1>1, Zenon DEF CleanupInvalidationState, ProcType
<1>4. my'[s].messages = <<>>
  BY FreshType DEF CleanupInvalidationState
<1>5. ASSUME NEW t \in Slots, t # s PROVE my'[t].messages = my[t].messages
  <2>1. my[t] \in MyType /\ my'[t] \in {my[t], [my[t] EXCEPT !.needSig = 0]}
    BY <1>1, <1>5, Zenon DEF CleanupInvalidationState
  <2> QED  BY <2>1, Zenon DEF MyType
<1>6. \A t \in Slots : t # s => /\ Receiver(t)' <=> Receiver(t)
                                /\ SeenBy(t)' = SeenBy(t)
                                /\ my'[t].messages = my[t].messages
  BY <1>2, <1>3, <1>5, Zenon DEF Receiver, SeenBy
<1>7. ~Receiver(s)' /\ SeenBy(s)' = 0
  BY <1>3, Zenon DEF Receiver, SeenBy
<1>8. CASE Receiver(s)
  <2>1. /\ s \in Active /\ Active' = Active \ {s} /\ Seen' = [Seen EXCEPT ![s] = 0]
        /\ Handed' = [Handed EXCEPT ![s] = <<>>]
    BY <1>4, <1>6, <1>7, <1>8, OneMoves, Zenon DEF Active
  <2>2. base' + maxMsgNum' = base + maxMsgNum
    BY <1>2, Zenon
  <2>3. Abstract!Leave(s)
    BY <2>1, <2>2, Zenon DEF Abstract!Leave, Seen, SeenBy, Active, Handed
  <2> QED  BY <2>3, Zenon DEF Abstract!QNext
<1>9. CASE ~Receiver(s)
  <2>1. my[s].messages = <<>> /\ SeenBy(s) = 0
    BY <1>9, Zenon DEF IInv, Control, SeenBy
  <2> QED  BY <1>2, <1>4, <1>6, <1>7, <1>9, <2>1, Stutter, Zenon
<1> QED  BY <1>8, <1>9, Zenon

(* The writer publishes its chunk.                                         *)
LEMMA PublishImplements ==
    ASSUME IInv, NEW s \in Slots, Publish(s)
    PROVE  Abstract!QNext
<1>1. /\ my[s].nthistime \in 1 .. WRITE_QUANTUM /\ base \in Nat /\ maxMsgNum \in Nat
      /\ maxMsgNum' = maxMsgNum + my[s].nthistime /\ UNCHANGED <<base, procState, my>>
  BY OfProcess, Zenon DEF Publish, Control, Writing
<1>2. base' + maxMsgNum' = (base + maxMsgNum) + my[s].nthistime
  BY <1>1, RingConstants
<1>3. Seen' = Seen /\ Active' = Active /\ Handed' = Handed
  BY <1>1, Zenon DEF Seen, SeenBy, Active, Handed, Receiver
<1>4. Abstract!Send
  BY <1>1, <1>2, <1>3, Zenon DEF Abstract!Send, Seen, SeenBy, Active, Handed
<1> QED  BY <1>4, Zenon DEF Abstract!QNext

(* A reader is told to reset.                                              *)
LEMMA ResetImplements ==
    ASSUME IInv, NEW s \in Slots, ReadReset(s)
    PROVE  Abstract!QNext
<1> DEFINE max == my[s].max
           p == TakeReset(procState[s], max)
           v == [my[s] EXCEPT !.messages = <<Reset>>, !.processed = base + max, !.max = 0]
<1>1. /\ my[s] \in MyType /\ my \in [Slots -> MyType] /\ max \in Nat
      /\ procState \in [Slots -> ProcType] /\ procState[s] \in ProcType
      /\ maxMsgNum \in Nat /\ base \in Nat
      /\ Control(s) /\ pc[s] = "read"
      /\ procState' = [procState EXCEPT ![s] = p]
      /\ Callback(s, "caughtup", v) /\ UNCHANGED <<base, maxMsgNum>>
  BY OfProcess, OfEntry, Zenon DEF ReadReset, MyType, seg
<1>2. /\ procState[s].nextMsgNum \in Int /\ procState[s].nextMsgNum <= max
      /\ max <= maxMsgNum /\ Receiver(s)
  BY <1>1, Zenon DEF IInv, Position, ProcType, Control, Reading
<1>3. /\ procState'[s].nextMsgNum = max /\ procState'[s].procPid = procState[s].procPid
      /\ procState'[s].sendOnly = procState[s].sendOnly
      /\ \A t \in Slots : t # s => procState'[t] = procState[t]
  BY <1>1, Zenon DEF TakeReset, ProcType
<1>4. my'[s].messages = <<Reset>> /\ \A t \in Slots : t # s => my'[t] = my[t]
  <2>1. v \in MyType /\ v.messages = <<Reset>> /\ v.frames = my[s].frames
    <3>1. \A x \in MyType, a \in Seq(Int), b \in Int :
             [x EXCEPT !.messages = a, !.processed = b, !.max = 0] \in MyType
      BY Zenon DEF MyType
    <3>2. <<Reset>> \in Seq(Int) /\ base + max \in Int
      BY <1>1 DEF Reset
    <3>3. v \in MyType
      BY <1>1, <3>1, <3>2, Zenon
    <3> QED  BY <1>1, <3>3, Zenon DEF MyType
  <2>2. v.frames # <<>> /\ "caughtup" \in Resume
    BY <1>1, <2>1, Zenon DEF Control, Reading, Resume
  <2> HIDE DEF v
  <2>3. PICK w \in MyType : my' = [my EXCEPT ![s] = w] /\ w.messages = v.messages
    BY <1>1, <2>1, <2>2, CallbackLocals
  <2> QED  BY <1>1, <2>1, <2>3, Zenon
<1> HIDE DEF max
<1>5. SeenBy(s)' = base + max /\ Receiver(s)' /\ SeenBy(s) = base + procState[s].nextMsgNum
  BY <1>1, <1>2, <1>3, Zenon DEF SeenBy, Receiver
<1>6. \A t \in Slots : t # s => /\ Receiver(t)' <=> Receiver(t)
                                /\ SeenBy(t)' = SeenBy(t)
                                /\ my'[t].messages = my[t].messages
  BY <1>1, <1>3, <1>4, Zenon DEF Receiver, SeenBy
<1>7. /\ s \in Active /\ Active' = Active /\ Seen' = [Seen EXCEPT ![s] = base + max]
      /\ Handed' = [Handed EXCEPT ![s] = <<Reset>>]
  <2>1. s \in Active
    BY <1>2, Zenon DEF Active
  <2>2. /\ Seen' = [Seen EXCEPT ![s] = SeenBy(s)']
        /\ Handed' = [Handed EXCEPT ![s] = my'[s].messages]
        /\ Receiver(s)' => Active' = Active \cup {s}
    BY <1>6, OneMoves, Zenon
  <2>3. Active \cup {s} = Active
    BY <2>1, Zenon
  <2> QED  BY <1>4, <1>5, <2>1, <2>2, <2>3, Zenon
<1>8. base + max \in Seen[s] .. base + maxMsgNum
  BY <1>1, <1>2, <1>5 DEF Seen
<1>9. base' + maxMsgNum' = base + maxMsgNum
  BY <1>1, Zenon
<1>10. Abstract!DeliverReset(s)
  BY <1>7, <1>8, <1>9, Zenon DEF Abstract!DeliverReset, Seen, SeenBy, Active, Handed
<1> QED  BY <1>10, Zenon DEF Abstract!QNext

(* A reader takes the next messages: the ring still holds them.            *)
LEMMA ReadImplements ==
    ASSUME IInv, NEW s \in Slots, ReadMessages(s)
    PROVE  Abstract!QNext
<1> DEFINE max == my[s].max
           from == procState[s].nextMsgNum
           n == Taken(s)
           q == [k \in 1 .. n |-> buffer[(from + k - 1) % MAXNUMMESSAGES]]
<1>1. /\ my[s] \in MyType /\ my \in [Slots -> MyType] /\ max \in Nat /\ from \in Int
      /\ procState \in [Slots -> ProcType] /\ procState[s] \in ProcType
      /\ maxMsgNum \in Nat /\ minMsgNum \in Nat /\ base \in Nat
      /\ Control(s) /\ pc[s] = "read" /\ ~procState[s].resetState
      /\ UNCHANGED <<base, maxMsgNum>>
  BY OfProcess, OfEntry, ZenonT(40) DEF ReadMessages, MyType, ProcType, seg
<1>2. /\ my' = [my EXCEPT ![s] = [my[s] EXCEPT !.messages = q, !.nummsgs = n, !.max = 0]]
      /\ procState' = [procState EXCEPT ![s] = AfterRead(procState[s], from + n, max)]
  BY <1>1, Zenon DEF ReadMessages, Taken
<1>3. n \in Nat /\ from + n <= max
  BY <1>1, TakenCount, Zenon
<1>4. Receiver(s)
  BY <1>1, Zenon DEF Control, Reading
<1>5. from <= max /\ max <= maxMsgNum /\ minMsgNum <= from
  BY <1>1, <1>4, Zenon DEF IInv, Position, QueueSound
<1> HIDE DEF n
<1>6. /\ my'[s].messages = q /\ \A t \in Slots : t # s => my'[t] = my[t]
  BY <1>1, <1>2, Zenon DEF MyType
<1>7. /\ procState'[s].nextMsgNum = from + n /\ procState'[s].procPid = procState[s].procPid
      /\ procState'[s].sendOnly = procState[s].sendOnly
      /\ \A t \in Slots : t # s => procState'[t] = procState[t]
  BY <1>1, <1>2, Zenon DEF AfterRead, ProcType
<1>8. q = [k \in 1 .. n |-> (base + from) + k - 1]
  <2>1. ASSUME NEW k \in 1 .. n
        PROVE  buffer[(from + k - 1) % MAXNUMMESSAGES] = (base + from) + k - 1
    <3>1. from + k - 1 \in minMsgNum .. maxMsgNum - 1
      BY <1>1, <1>3, <1>5
    <3>2. buffer[(from + k - 1) % MAXNUMMESSAGES] = base + (from + k - 1)
      BY <3>1, Zenon DEF IInv, QueueSound
    <3>3. base + (from + k - 1) = (base + from) + k - 1
      BY <1>1, <1>3
    <3> QED  BY <3>2, <3>3, Zenon
  <2> QED  BY <2>1, Zenon
<1> HIDE DEF q
<1>9. Receiver(s)' /\ SeenBy(s) = base + from /\ SeenBy(s)' = (base + from) + n
  <2>1. base + (from + n) = (base + from) + n
    BY <1>1, <1>3
  <2> QED  BY <1>1, <1>4, <1>7, <2>1, Zenon DEF Receiver, SeenBy
<1> HIDE DEF from, max
<1>10. \A t \in Slots : t # s => /\ Receiver(t)' <=> Receiver(t)
                                 /\ SeenBy(t)' = SeenBy(t)
                                 /\ my'[t].messages = my[t].messages
  BY <1>1, <1>6, <1>7, Zenon DEF Receiver, SeenBy
<1>11. s \in Active /\ Seen[s] = base + from
  BY <1>4, <1>9, Zenon DEF Active, Seen
<1>12. /\ Active' = Active /\ Seen' = [Seen EXCEPT ![s] = Seen[s] + n]
       /\ Handed' = [Handed EXCEPT ![s] = [k \in 1 .. n |-> Seen[s] + k - 1]]
  <2>1. /\ Seen' = [Seen EXCEPT ![s] = SeenBy(s)']
        /\ Handed' = [Handed EXCEPT ![s] = my'[s].messages]
        /\ Receiver(s)' => Active' = Active \cup {s}
    BY <1>10, OneMoves, Zenon
  <2>2. Active \cup {s} = Active
    BY <1>11, Zenon
  <2> QED  BY <1>6, <1>8, <1>9, <1>11, <2>1, <2>2, Zenon
<1>13. n \in 0 .. (base + maxMsgNum) - Seen[s]
  BY <1>1, <1>3, <1>5, <1>11
<1>14. base' + maxMsgNum' = base + maxMsgNum
  BY <1>1, Zenon
<1>15. Abstract!Deliver(s)
  BY <1>11, <1>12, <1>13, <1>14, Zenon DEF Abstract!Deliver, Seen, SeenBy, Active, Handed
<1> QED  BY <1>15, Zenon DEF Abstract!QNext

-----------------------------------------------------------------------------
(* The theorems.                                                           *)

WellFounded == INSTANCE WellFoundedInduction

(* The hypothesis of the lemmas about least and greatest members.          *)
LEMMA NaturalsWellOrdered == WellOrdered
<1> SUFFICES ASSUME NEW S \in SUBSET Nat, S # {}
             PROVE  \E x \in S : \A y \in S : x <= y
  BY Zenon DEF WellOrdered
<1>1. \E x \in S : \A y \in S : ~(<<y, x>> \in WellFounded!OpToRel(<, Nat))
  BY WellFounded!NatLessThanWellFounded, WellFounded!WFMin, Zenon
<1>2. \A x, y \in Nat : y < x => <<y, x>> \in WellFounded!OpToRel(<, Nat)
  BY Zenon DEF WellFounded!OpToRel
<1>3. PICK x \in S : \A y \in S : ~(<<y, x>> \in WellFounded!OpToRel(<, Nat))
  BY <1>1, Zenon
<1>4. \A y \in S : x <= y
  <2> TAKE y \in S
  <2>1. ~(y < x)
    BY <1>2, <1>3, Zenon
  <2> QED  BY <2>1
<1> QED  BY <1>4, Zenon

(* The inductive invariant of the queue, in every reachable state.         *)
LEMMA Invariance == Spec => []IInv
<1>1. IInv /\ [Next]_vars => IInv'
  BY NaturalsWellOrdered, NextStep, Zenon
<1> QED  BY <1>1, InitStep, PTL DEF Spec

(* sinvaladt.c: the fields of SISeg and the locks keep their types for     *)
(* every number of backends and every size of the queue.                   *)
THEOREM SInvalTypes == Spec => []TypeOK
<1>1. IInv => TypeOK
  BY Zenon DEF IInv, Types
<1> QED  BY <1>1, Invariance, PTL

(* SIInsertDataEntries never overwrites a message that a backend may still *)
(* read, and the lowering of the counters in SICleanupQueue keeps every    *)
(* message in its entry of the ring.                                       *)
THEOREM SInvalQueueSound == Spec => []QueueSound
<1>1. IInv => QueueSound
  BY Zenon DEF IInv
<1> QED  BY <1>1, Invariance, PTL

(* The unlocked test of hasMessages in SIGetDataEntries hides neither a    *)
(* message whose insertion is complete nor a reset.                        *)
THEOREM SInvalNoLostWakeup == Spec => []NoLostWakeup
<1>1. IInv => NoLostWakeup
  BY Zenon DEF IInv
<1> QED  BY <1>1, Invariance, PTL

(* The invariant of the receive, in every reachable state.                 *)
LEMMA ReceivingInvariant == Spec => [](IInv /\ Receiving)
<1>1. IInv /\ Receiving /\ [Next]_vars => Receiving'
  BY NaturalsWellOrdered, NextReceive, Zenon
<1>2. Spec => []Receiving
  BY <1>1, InitReceive, Invariance, PTL DEF Spec
<1> QED  BY <1>2, Invariance, PTL

(* sinval.c: no message that was taken out of the queue is dropped or      *)
(* repeated by a recursive ReceiveSharedInvalidMessages, whatever the      *)
(* depth of the recursion and the size of the static buffer.               *)
THEOREM SInvalNothingDropped == Spec => []NothingDropped
<1>1. Receiving => NothingDropped
  BY Zenon DEF Receiving, InHand, InHandOf, NothingDropped
<1> QED  BY <1>1, ReceivingInvariant, PTL

(* sinval.c: "We guarantee to process all messages that had been queued    *)
(* before the routine was entered", for every call, recursive or not.      *)
THEOREM SInvalReceiveGuarantee == Spec => []ReceiveGuarantee
<1>1. IInv /\ Receiving => ReceiveGuarantee
  <2> SUFFICES ASSUME IInv, Receiving, NEW s \in Slots, AtEnd(s)
               PROVE  my[s].processed >= Head(my[s].frames).goal
    BY Zenon DEF ReceiveGuarantee
  <2>1. /\ my[s].processed >= my[s].frames[1].goal
        /\ my[s].frames # <<>> /\ my[s].frames \in Frames
    BY AtEndReceive, Zenon
  <2>2. \A f \in Frames : f # <<>> => Head(f) = f[1]
    BY DEF Frames
  <2> QED  BY <2>1, <2>2, Zenon
<1> QED  BY <1>1, ReceivingInvariant, PTL

(* sinvaladt.c: the ring buffer with its two locks, the unlocked flags,    *)
(* resets and the lowering of the counters hands every backend the         *)
(* messages of one endless sequence, each once and in order, or a reset.   *)
THEOREM SInvalImplementsInvalQueue == Spec => ImplementsInvalQueue
<1>1. Init => Abstract!QInit
  <2> SUFFICES ASSUME Init PROVE Abstract!QInit
    BY Zenon
  <2>1. \A t \in Slots : ~Receiver(t) /\ my[t].messages = <<>>
    BY FreshType DEF Init, Receiver
  <2> QED  BY <2>1 DEF Init, Abstract!QInit
<1>2. IInv /\ [Next]_vars => [Abstract!QNext]_(Abstract!qvars)
  <2> SUFFICES ASSUME IInv, [Next]_vars
               PROVE  Abstract!QNext \/ UNCHANGED Abstract!qvars
    BY Zenon
  <2>1. CASE UNCHANGED vars
    BY <2>1, StutterHere, Zenon DEF vars, seg
  <2>2. CASE SharedInvalBackendInit
    BY <2>2, NaturalsWellOrdered, InitImplements, Zenon
  <2>3. ASSUME NEW s \in Slots, CleanupInvalidationState(s)
        PROVE  Abstract!QNext \/ UNCHANGED Abstract!qvars
    BY <2>3, ExitImplements, Zenon
  <2>4. ASSUME NEW s \in Slots,
               \/ SendSharedInvalidMessages(s) \/ AcceptInvalidationMessages(s) \/ Step(s)
        PROVE  Abstract!QNext \/ UNCHANGED Abstract!qvars
    BY <2>4, NaturalsWellOrdered, QuietSteps, QuietCallsAndCleanup, PublishImplements,
       ResetImplements, ReadImplements DEF Step
  <2> QED  BY <2>1, <2>2, <2>3, <2>4, Zenon DEF Next
<1> QED  BY <1>1, <1>2, Invariance, PTL DEF Spec, ImplementsInvalQueue, Abstract!QSpec
=============================================================================
