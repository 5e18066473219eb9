------------------------------- MODULE SInval -------------------------------
(***************************************************************************)
(* The shared cache invalidation queue: storage/ipc/sinvaladt.c (the ring  *)
(* buffer in shared memory, its two locks and one unlocked flag per        *)
(* backend) and storage/ipc/sinval.c (the receive loop of a backend, which *)
(* can be re-entered from the callbacks it makes, and the catchup signal). *)
(* ANALYZE announces a new pg_statistic row through it, and the planner    *)
(* sees the new histogram only once it has read the message.               *)
(*                                                                         *)
(* A step of a process is the code between two points where another        *)
(* process can interfere: a lock taken or released, a read or write of     *)
(* shared memory that no lock protects.  A message is its own number in    *)
(* the order of sending.                                                   *)
(***************************************************************************)
EXTENDS Integers, Sequences, FiniteSetsExt

CONSTANTS MaxBackends,        \* entries of procState[]
          MAXNUMMESSAGES, MSGNUMWRAPAROUND, CLEANUP_MIN, CLEANUP_QUANTUM,
          SIG_THRESHOLD, WRITE_QUANTUM, MAXINVALMSGS,
          Batches,            \* numbers of messages one transaction sends (bound)
          MaxSent,            \* no send begins that would exceed it (bound)
          MaxDepth            \* nested receive calls (bound)

ASSUME SInvalAssumption ==
    /\ {MaxBackends, MAXNUMMESSAGES, CLEANUP_MIN, CLEANUP_QUANTUM, SIG_THRESHOLD,
        WRITE_QUANTUM, MAXINVALMSGS, MaxDepth} \subseteq Nat \ {0}
    /\ MaxSent \in Nat /\ Batches \subseteq Nat \ {0}
    /\ WRITE_QUANTUM <= MAXNUMMESSAGES
    /\ MSGNUMWRAPAROUND \in Nat \ {0} /\ MSGNUMWRAPAROUND % MAXNUMMESSAGES = 0

VARIABLES minMsgNum, maxMsgNum, nextThreshold, lastBackend, buffer, procState,
          SInvalWriteLock,    \* the holder, 0 if free
          SInvalReadLock,     \* the backends that hold it in shared mode
          pc, my,             \* per process: where it is, and its locals
          base,               \* history: number of the message MsgNum 0 stands for
          announced           \* history: messages whose insertion is complete

seg   == <<minMsgNum, maxMsgNum, nextThreshold, lastBackend, buffer, base>>
locks == <<SInvalWriteLock, SInvalReadLock>>
vars  == <<seg, procState, locks, pc, my, announced>>

Slots == 1 .. MaxBackends
Reset == -1

\* The locals of a process: of SIInsertDataEntries (n, nthistime, i), of
\* SIGetDataEntries (max), of SICleanupQueue (needSig), the statics of
\* ReceiveSharedInvalidMessages and one frame per active call of it.
\* processed counts the messages handed to a callback or covered by a reset.
Fresh(m) == [n |-> 0, nthistime |-> 0, i |-> 0, max |-> 0, needSig |-> 0,
             messages |-> <<>>, nextmsg |-> 0, nummsgs |-> 0,
             catchupInterruptPending |-> FALSE, frames |-> <<>>, processed |-> m]

\* CreateSharedInvalidationState
Init ==
    /\ minMsgNum = 0 /\ maxMsgNum = 0 /\ base = 0 /\ announced = 0
    /\ nextThreshold = CLEANUP_MIN
    /\ lastBackend = 0
    /\ buffer = [k \in 0 .. MAXNUMMESSAGES - 1 |-> Reset]
    /\ procState = [s \in Slots |->
                      [procPid |-> FALSE, nextMsgNum |-> 0, resetState |-> FALSE,
                       signaled |-> FALSE, hasMessages |-> FALSE, sendOnly |-> FALSE]]
    /\ SInvalWriteLock = 0
    /\ SInvalReadLock = {}
    /\ pc = [s \in Slots |-> "exited"]
    /\ my = [s \in Slots |-> Fresh(0)]

Goto(s, l) == pc' = [pc EXCEPT ![s] = l]

(***************************************************************************)
(* Start and exit of a backend                                             *)
(***************************************************************************)
\* The table of backends is full.
TooManyBackends(s) == s > MaxBackends

\* The first free entry below lastBackend, else a new one; without either the
\* backend gives up.  One process, startup, is the sendOnly one.
SharedInvalBackendInit ==
    LET free == {s \in 1 .. lastBackend : ~procState[s].procPid}
        s == IF free # {} THEN Min(free) ELSE lastBackend + 1
    IN  /\ SInvalWriteLock = 0
        /\ ~TooManyBackends(s)
        /\ lastBackend' = IF free # {} THEN lastBackend ELSE s
        /\ \E sendOnly \in BOOLEAN :
              /\ sendOnly => \A t \in Slots : ~procState[t].procPid
              /\ procState' = [procState EXCEPT ![s] =
                    [procPid |-> TRUE, nextMsgNum |-> maxMsgNum, resetState |-> FALSE,
                     signaled |-> FALSE, hasMessages |-> FALSE, sendOnly |-> sendOnly]]
        /\ my' = [my EXCEPT ![s] = Fresh(base + maxMsgNum)]
        /\ Goto(s, "idle")
        /\ UNCHANGED <<minMsgNum, maxMsgNum, nextThreshold, buffer, base, locks, announced>>

\* A signal on its way to the process is lost with it: SendProcSignal checks
\* the pid, and the next holder of the entry has another one.
CleanupInvalidationState(s) ==
    /\ pc[s] = "idle"
    /\ SInvalWriteLock = 0
    /\ procState' = [procState EXCEPT ![s].procPid = FALSE, ![s].nextMsgNum = 0,
                                      ![s].resetState = FALSE, ![s].signaled = FALSE]
    /\ lastBackend' = Max({0} \cup {t \in 1 .. lastBackend : procState'[t].procPid})
    /\ my' = [t \in Slots |-> IF t = s THEN Fresh(0)
                              ELSE IF my[t].needSig = s THEN [my[t] EXCEPT !.needSig = 0]
                              ELSE my[t]]
    /\ Goto(s, "exited")
    /\ UNCHANGED <<minMsgNum, maxMsgNum, nextThreshold, buffer, base, locks, announced>>

(***************************************************************************)
(* SIInsertDataEntries                                                     *)
(***************************************************************************)
\* Messages on their way into the queue (only used for the bound).
Pending == MapThenSumSet(LAMBDA s : my[s].n + my[s].nthistime, Slots)

SendSharedInvalidMessages(s) ==
    /\ pc[s] = "idle"
    /\ \E n \in Batches :
          /\ base + maxMsgNum + Pending + n <= MaxSent
          /\ my' = [my EXCEPT ![s].n = n]
    /\ Goto(s, "insert")
    /\ UNCHANGED <<seg, procState, locks, announced>>

InsertChunk(s) ==
    /\ pc[s] = "insert"
    /\ SInvalWriteLock = 0
    /\ LET nthistime == Min({my[s].n, WRITE_QUANTUM})
       IN  my' = [my EXCEPT ![s].n = @ - nthistime, ![s].nthistime = nthistime]
    /\ SInvalWriteLock' = s
    /\ Goto(s, "space")
    /\ UNCHANGED <<seg, procState, SInvalReadLock, announced>>

\* Mutant: the size of the chunk is left out of the test for space.
MustCleanIgnoresChunk(s) ==
    \/ maxMsgNum - minMsgNum > MAXNUMMESSAGES
    \/ maxMsgNum - minMsgNum >= nextThreshold

\* Whether SICleanupQueue must run before the chunk is written.
MustClean(s) ==
    \/ maxMsgNum - minMsgNum + my[s].nthistime > MAXNUMMESSAGES
    \/ maxMsgNum - minMsgNum >= nextThreshold

Fill(s) ==
    /\ pc[s] = "space" /\ ~MustClean(s)
    /\ buffer' = [k \in DOMAIN buffer |->
                    LET new == {m \in maxMsgNum .. maxMsgNum + my[s].nthistime - 1 :
                                  m % MAXNUMMESSAGES = k}
                    IN  IF new = {} THEN buffer[k] ELSE base + Max(new)]
    /\ Goto(s, "publish")
    /\ UNCHANGED <<minMsgNum, maxMsgNum, nextThreshold, lastBackend, base,
                   procState, locks, my, announced>>

Publish(s) ==
    /\ pc[s] = "publish"
    /\ maxMsgNum' = maxMsgNum + my[s].nthistime
    /\ Goto(s, "kick")
    /\ UNCHANGED <<minMsgNum, nextThreshold, lastBackend, buffer, base,
                   procState, locks, my, announced>>

\* hasMessages is set without SInvalReadLock: a reader may clear it in between.
Kick(s) ==
    /\ pc[s] = "kick" /\ my[s].i < lastBackend
    /\ procState' = [procState EXCEPT ![my[s].i + 1].hasMessages = TRUE]
    /\ my' = [my EXCEPT ![s].i = @ + 1]
    /\ UNCHANGED <<seg, locks, pc, announced>>

Kicked(s) ==
    /\ pc[s] = "kick" /\ my[s].i >= lastBackend
    /\ SInvalWriteLock' = 0
    /\ my' = [my EXCEPT ![s].nthistime = 0, ![s].i = 0]
    /\ announced' = base + maxMsgNum
    /\ Goto(s, IF my[s].n > 0 THEN "insert" ELSE "idle")
    /\ UNCHANGED <<seg, procState, SInvalReadLock>>

(***************************************************************************)
(* ReceiveSharedInvalidMessages                                            *)
(***************************************************************************)
\* Entry of the top-level call: from AcceptInvalidationMessages whenever the
\* backend locks a relation or starts a transaction.  A frame remembers which
\* messages were queued before the call was entered.
AcceptInvalidationMessages(s) ==
    /\ pc[s] = "idle" /\ ~procState[s].sendOnly
    /\ my' = [my EXCEPT ![s].frames = <<[at |-> "drain", goal |-> announced]>>]
    /\ Goto(s, "drain")
    /\ UNCHANGED <<seg, procState, locks, announced>>

\* The locals once a callback made from the loop at label l has been called: it
\* may itself receive messages, and then the call that made it waits.
Callback(s, l, locals) ==
    \/ /\ my' = [my EXCEPT ![s] = locals]
       /\ Goto(s, l)
    \/ /\ Len(locals.frames) < MaxDepth
       /\ my' = [my EXCEPT ![s] = [locals EXCEPT !.frames =
                   <<[at |-> "drain", goal |-> announced]>> \o
                   <<[Head(@) EXCEPT !.at = l]>> \o Tail(@)]]
       /\ Goto(s, "drain")

Exhausted(s) == my[s].nextmsg >= my[s].nummsgs

\* Either loop over messages[nextmsg .. nummsgs - 1].
InvalFunction(s) ==
    /\ pc[s] \in {"drain", "process"}
    /\ ~Exhausted(s)
    /\ LET msg == my[s].messages[my[s].nextmsg + 1]
       IN  Callback(s, pc[s], [my[s] EXCEPT !.nextmsg = @ + 1, !.processed = msg + 1])
    /\ UNCHANGED <<seg, procState, locks, announced>>

\* Mutant: a full buffer is taken for the end of the queue.
MoreToReadNever(s) == FALSE

\* The last SIGetDataEntries call, perhaps of a recursive call, filled the buffer.
MoreToRead(s) == my[s].nummsgs = MAXINVALMSGS

\* Mutant: messages left over from the outer call are not dealt with first.
WantsMoreUndrained(s) ==
    pc[s] = "drain" \/ (pc[s] = "process" /\ Exhausted(s) /\ MoreToRead(s))

\* The call goes on to SIGetDataEntries, or has come to its end.
WantsMore(s) == Exhausted(s) /\ (pc[s] = "drain" \/ (pc[s] = "process" /\ MoreToRead(s)))
AtEnd(s) == pc[s] = "caughtup" \/ (pc[s] = "process" /\ Exhausted(s) /\ ~MoreToRead(s))

(***************************************************************************)
(* SIGetDataEntries                                                        *)
(***************************************************************************)
\* The quick test, made without a lock.
NothingToRead(s) ==
    /\ WantsMore(s) /\ ~procState[s].hasMessages
    /\ my' = [my EXCEPT ![s].nextmsg = 0, ![s].nummsgs = 0]
    /\ Goto(s, "caughtup")
    /\ UNCHANGED <<seg, procState, locks, announced>>

\* Only the backend itself clears the flag, so that it is still set when the
\* lock is granted.
BeginRead(s) ==
    /\ WantsMore(s) /\ procState[s].hasMessages
    /\ my' = [my EXCEPT ![s].nextmsg = 0, ![s].nummsgs = 0]
    /\ SInvalReadLock' = SInvalReadLock \cup {s}
    /\ procState' = [procState EXCEPT ![s].hasMessages = FALSE]
    /\ Goto(s, "max")
    /\ UNCHANGED <<seg, SInvalWriteLock, announced>>

FetchMax(s) ==
    /\ pc[s] = "max"
    /\ my' = [my EXCEPT ![s].max = maxMsgNum]
    /\ Goto(s, "read")
    /\ UNCHANGED <<seg, procState, locks, announced>>

\* The entry after a reset: whatever was queued counts as dealt with.
TakeReset(p, max) == [p EXCEPT !.nextMsgNum = max, !.resetState = FALSE, !.signaled = FALSE]

\* messages records the reset for the refinement; the code leaves it alone.
ReadReset(s) ==
    /\ pc[s] = "read" /\ procState[s].resetState
    /\ procState' = [procState EXCEPT ![s] = TakeReset(@, my[s].max)]
    /\ SInvalReadLock' = SInvalReadLock \ {s}
    /\ Callback(s, "caughtup", [my[s] EXCEPT !.messages = <<Reset>>,
                                             !.processed = base + my[s].max, !.max = 0])
    /\ UNCHANGED <<seg, SInvalWriteLock, announced>>

\* Mutant: a partial read leaves hasMessages cleared.
AfterReadForgetsFlag(p, next, max) ==
    [p EXCEPT !.nextMsgNum = next, !.signaled = @ /\ next < max]

\* The entry after reading up to next: caught up, or there is more.
AfterRead(p, next, max) ==
    [p EXCEPT !.nextMsgNum = next,
              !.signaled = @ /\ next < max,
              !.hasMessages = @ \/ next < max]

ReadMessages(s) ==
    /\ pc[s] = "read" /\ ~procState[s].resetState
    /\ LET from == procState[s].nextMsgNum
           n == Max({0, Min({MAXINVALMSGS, my[s].max - from})})
       IN  /\ my' = [my EXCEPT ![s].messages =
                       [k \in 1 .. n |-> buffer[(from + k - 1) % MAXNUMMESSAGES]],
                     ![s].nummsgs = n, ![s].max = 0]
           /\ procState' = [procState EXCEPT ![s] = AfterRead(@, from + n, my[s].max)]
    /\ SInvalReadLock' = SInvalReadLock \ {s}
    /\ Goto(s, "process")
    /\ UNCHANGED <<seg, SInvalWriteLock, announced>>

(***************************************************************************)
(* The end of ReceiveSharedInvalidMessages and SICleanupQueue              *)
(***************************************************************************)
\* Where the process goes when the innermost receive call returns, and its
\* locals then.
ReturnTo(s) == IF Len(my[s].frames) = 1 THEN "idle" ELSE my[s].frames[2].at
Returned(s) == [my[s] EXCEPT !.frames = Tail(@), !.needSig = 0]

CaughtUp(s) ==
    /\ AtEnd(s) /\ ~my[s].catchupInterruptPending
    /\ my' = [my EXCEPT ![s] = Returned(s)]
    /\ Goto(s, ReturnTo(s))
    /\ UNCHANGED <<seg, procState, locks, announced>>

\* Pass the catchup signal on: SICleanupQueue(false, 0).
PassItOn(s) ==
    /\ AtEnd(s) /\ my[s].catchupInterruptPending
    /\ my' = [my EXCEPT ![s].catchupInterruptPending = FALSE]
    /\ Goto(s, "wlock")
    /\ UNCHANGED <<seg, procState, locks, announced>>

\* SInvalWriteLock for SICleanupQueue(false, 0), or again after the signal.
TakeWriteLock(s) ==
    /\ pc[s] \in {"wlock", "relock"}
    /\ SInvalWriteLock = 0
    /\ SInvalWriteLock' = s
    /\ Goto(s, IF pc[s] = "wlock" THEN "clean" ELSE "space")
    /\ UNCHANGED <<seg, procState, SInvalReadLock, my, announced>>

\* Mutant: the counters of the backends are not lowered with the queue's.
LoweredQueueOnly(p, d) == p

\* An entry of procState when all message numbers are lowered by d.
Lowered(p, d) == [p EXCEPT !.nextMsgNum = @ - d]

\* The backends SICleanupQueue looks at.
Readers == {t \in 1 .. lastBackend :
              procState[t].procPid /\ ~procState[t].resetState /\ ~procState[t].sendOnly}

\* Mutant: nobody is reset for being in the way.
TooFarNobody(lowbound) == {}

\* The backends that keep the space in use that must be freed.
TooFar(lowbound) == {t \in Readers : procState[t].nextMsgNum < lowbound}

NextThreshold(numMsgs) ==
    IF numMsgs < CLEANUP_MIN THEN CLEANUP_MIN
    ELSE (numMsgs \div CLEANUP_QUANTUM + 1) * CLEANUP_QUANTUM

\* Both locks are held, so that the body is one step.  minFree is nthistime,
\* which is 0 in the call that passes the signal on.
SICleanupQueue(s) ==
    LET n(t)     == procState[t].nextMsgNum
        tooFar   == TooFar(maxMsgNum - MAXNUMMESSAGES + my[s].nthistime)
        kept     == Readers \ tooFar
        min      == Min({maxMsgNum} \cup {n(t) : t \in kept})
        behind   == {t \in kept : n(t) < maxMsgNum - SIG_THRESHOLD /\ ~procState[t].signaled}
        furthest == {t \in behind : \A u \in behind : n(t) <= n(u)}
        needSig  == IF behind = {} THEN 0 ELSE Min(furthest)
        d        == IF min >= MSGNUMWRAPAROUND THEN MSGNUMWRAPAROUND ELSE 0
    IN  /\ pc[s] = "clean" \/ (pc[s] = "space" /\ MustClean(s))
        /\ SInvalReadLock = {}
        /\ minMsgNum' = min - d
        /\ maxMsgNum' = maxMsgNum - d
        /\ base' = base + d
        /\ nextThreshold' = NextThreshold(maxMsgNum - min)
        /\ procState' = [t \in Slots |->
              IF t > lastBackend THEN procState[t]
              ELSE Lowered([procState[t] EXCEPT !.resetState = @ \/ t \in tooFar,
                                                !.signaled = @ \/ t = needSig], d)]
        /\ IF needSig # 0
           THEN /\ SInvalWriteLock' = 0
                /\ my' = [my EXCEPT ![s].needSig = needSig]
                /\ Goto(s, "signal")
           ELSE IF my[s].nthistime > 0
           THEN UNCHANGED <<SInvalWriteLock, my>> /\ Goto(s, "space")
           ELSE /\ SInvalWriteLock' = 0
                /\ my' = [my EXCEPT ![s] = Returned(s)]
                /\ Goto(s, ReturnTo(s))
        /\ UNCHANGED <<lastBackend, buffer, SInvalReadLock, announced>>

\* SendProcSignal, no lock held.  HandleCatchupInterrupt sets the flag of the
\* target, if the process is still there.
SendCatchup(s) ==
    LET caller == IF my[s].nthistime > 0 THEN [my[s] EXCEPT !.needSig = 0] ELSE Returned(s)
        told   == [my EXCEPT ![s] = caller]
        t      == my[s].needSig
    IN  /\ pc[s] = "signal"
        /\ my' = IF t = 0 THEN told ELSE [told EXCEPT ![t].catchupInterruptPending = TRUE]
        /\ Goto(s, IF my[s].nthistime > 0 THEN "relock" ELSE ReturnTo(s))
        /\ UNCHANGED <<seg, procState, locks, announced>>

\* An idle backend that was signaled is woken by its latch and receives.
ProcessCatchupInterrupt(s) ==
    my[s].catchupInterruptPending /\ AcceptInvalidationMessages(s)

\* The steps a process takes on its own once it has begun something.
Step(s) ==
    \/ InsertChunk(s) \/ Fill(s) \/ Publish(s) \/ Kick(s) \/ Kicked(s)
    \/ InvalFunction(s) \/ NothingToRead(s) \/ BeginRead(s) \/ FetchMax(s)
    \/ ReadReset(s) \/ ReadMessages(s)
    \/ CaughtUp(s) \/ PassItOn(s) \/ TakeWriteLock(s) \/ SICleanupQueue(s)
    \/ SendCatchup(s)

Next ==
    \/ SharedInvalBackendInit
    \/ \E s \in Slots : \/ CleanupInvalidationState(s)
                        \/ SendSharedInvalidMessages(s)
                        \/ AcceptInvalidationMessages(s)
                        \/ Step(s)

\* A process that can go on does, which is scheduling.  Of the locks nothing is
\* assumed: LWLock does not hand them over in the order asked for.
Fairness == \A s \in Slots : /\ WF_vars(Step(s))
                             /\ WF_vars(ProcessCatchupInterrupt(s))

Spec == Init /\ [][Next]_vars
FairSpec == Spec /\ Fairness

(***************************************************************************)
(* Properties                                                              *)
(***************************************************************************)
PcValues == {"exited", "idle", "insert", "space", "publish", "kick", "drain", "process",
             "max", "read", "caughtup", "wlock", "relock", "clean", "signal"}

\* Type invariant: the fields of shmInvalBuffer, the locks and the program counters.
TypeOK ==
    /\ minMsgNum \in Nat /\ maxMsgNum \in Nat /\ base \in Nat /\ announced \in Nat
    /\ nextThreshold \in Nat /\ lastBackend \in 0 .. MaxBackends
    /\ buffer \in [0 .. MAXNUMMESSAGES - 1 -> Int]
    /\ procState \in [Slots -> [procPid : BOOLEAN, nextMsgNum : Int, resetState : BOOLEAN,
                                signaled : BOOLEAN, hasMessages : BOOLEAN, sendOnly : BOOLEAN]]
    /\ SInvalWriteLock \in 0 .. MaxBackends /\ SInvalReadLock \subseteq Slots
    /\ pc \in [Slots -> PcValues]

\* A backend that reads the queue: active, and not the startup process.
Receiver(s) == procState[s].procPid /\ ~procState[s].sendOnly

\* The queue never holds more than MAXNUMMESSAGES messages; a backend that is not
\* to be reset stands between minMsgNum and maxMsgNum; and the buffer still holds,
\* unharmed, every message from minMsgNum on, across the lowering of the counters
\* at MSGNUMWRAPAROUND: no slot is overwritten that some backend may still read.
QueueSound ==
    /\ minMsgNum <= maxMsgNum /\ maxMsgNum - minMsgNum <= MAXNUMMESSAGES
    /\ \A s \in Slots : Receiver(s) /\ ~procState[s].resetState =>
          minMsgNum <= procState[s].nextMsgNum /\ procState[s].nextMsgNum <= maxMsgNum
    /\ \A m \in minMsgNum .. maxMsgNum - 1 : buffer[m % MAXNUMMESSAGES] = base + m

\* The unlocked test of hasMessages never hides a message whose insertion is
\* complete, nor a pending reset: whenever there is one, the flag is set, or the
\* backend is inside SIGetDataEntries and has yet to fetch maxMsgNum, or has
\* fetched a value that covers every completed insertion.
NoLostWakeup ==
    \A s \in Slots :
        Receiver(s) /\ (procState[s].resetState \/ base + procState[s].nextMsgNum < announced)
        => \/ procState[s].hasMessages
           \/ pc[s] = "max"
           \/ (pc[s] = "read" /\ base + my[s].max >= announced)

\* Every message taken out of the queue has been handed to the callback or still
\* waits in the static buffer for whichever call of ReceiveSharedInvalidMessages,
\* the outer or a recursive one, gets to it first; none is skipped or repeated.
NothingDropped ==
    \A s \in Slots : Receiver(s) =>
        LET left == my[s].nummsgs - my[s].nextmsg
        IN  /\ left >= 0
            /\ my[s].processed + left = base + procState[s].nextMsgNum
            /\ \A k \in 1 .. left :
                  my[s].messages[my[s].nextmsg + k] = my[s].processed + k - 1

\* sinval.c: "We guarantee to process all messages that had been queued before the
\* routine was entered", for recursive calls as well.
ReceiveGuarantee ==
    \A s \in Slots : AtEnd(s) => my[s].processed >= Head(my[s].frames).goal

\* A backend that sends messages is never held up for ever by one that does not
\* read: the loop that makes space ends, at the latest by resetting the reader.
SenderFinishes ==
    \A s \in Slots : pc[s] = "insert" ~> pc[s] = "idle"

\* The ring buffer, its locks and flags implement the endless sequence of messages
\* of InvalQueue: no backend misses, repeats or reorders a message.
Abstract == INSTANCE InvalQueue WITH
    Backends <- Slots, MaxChunk <- WRITE_QUANTUM,
    sent <- base + maxMsgNum,
    seen <- [s \in Slots |-> IF Receiver(s) THEN base + procState[s].nextMsgNum ELSE 0],
    active <- {s \in Slots : Receiver(s)},
    handed <- [s \in Slots |-> my[s].messages]

ImplementsInvalQueue == Abstract!QSpec
=============================================================================
