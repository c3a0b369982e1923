-------------------------- MODULE IpcReceiveProofs --------------------------
(***************************************************************************)
(* Theorems about IpcReceive: the table and its rings under receives,      *)
(* interrupts and the calls of the table, in a uniprocessor and in a       *)
(* multiprocessor build, for every set of threads, keys and messages.      *)
(***************************************************************************)
EXTENDS IpcReceive, IpcMsgqueProofs

-----------------------------------------------------------------------------
(***************************************************************************)
(* What enqueue and dequeue leave of a queue.                              *)
(***************************************************************************)

(* An enqueue on a ring that is not full: fields stay in range and agree.  *)
LEMMA EnqueuedQueue ==
  ASSUME NEW e \in Queue, FieldsAgree(e), ~ipc_msgque_isfull(e), NEW m \in Element
  PROVE  LET f == Enqueued(e, m) IN
         /\ f \in Queue /\ FieldsAgree(f) /\ Stored(f, e, m)
         /\ f.initkey = e.initkey /\ f.sharekey = e.sharekey /\ f.msqid = e.msqid
<1> DEFINE e1 == [e EXCEPT !.indx = NextIndex(e.indx)]
           e2 == [e1 EXCEPT !.element[NextIndex(e.indx)] = m]
           c  == (e.count + 1) % UINT32_MOD
           e3 == [e2 EXCEPT !.count = c]
<1>1. /\ e.indx \in Index /\ e.outdx \in Index /\ e.count \in UINT32
      /\ e.element \in [Index -> Element]
  BY DEF Queue
<1>2. NextIndex(e.indx) \in Index
  BY <1>1, NextIndexValue
<1>3. /\ e1 \in Queue /\ e1.indx = NextIndex(e.indx) /\ e1.outdx = e.outdx
      /\ e1.count = e.count /\ e1.initkey = e.initkey
      /\ e1.sharekey = e.sharekey /\ e1.msqid = e.msqid
      /\ e1.element = e.element
  BY <1>2 DEF Queue
<1>4. Enqueued(e,
m) = [[e1 EXCEPT !.element[NextIndex(e.indx)] = m] EXCEPT !.count = c]
  BY <1>3 DEF Enqueued, Queue
<1> HIDE DEF e1
<1>5. /\ e2 \in Queue /\ e2.indx = e1.indx /\ e2.outdx = e1.outdx
      /\ e2.count = e1.count /\ e2.initkey = e1.initkey
      /\ e2.sharekey = e1.sharekey /\ e2.msqid = e1.msqid
      /\ e2.element = [e1.element EXCEPT ![NextIndex(e.indx)] = m]
  BY <1>2, <1>3 DEF Queue
<1> HIDE DEF e2
<1>6. /\ c \in UINT32 /\ c = e.count + 1
      /\ Agree(NextIndex(e.indx), e.outdx, c)
      /\ InRange(c)
  <2>1. e.count < ELEMENT_NUM
    BY <1>1, RingAssumption DEF ipc_msgque_isfull, UINT32
  <2>2. QED
    BY <1>1, <2>1, EnqueueAgrees DEF FieldsAgree
<1> HIDE DEF c
<1>7. /\ e3 \in Queue /\ e3.indx = e2.indx /\ e3.outdx = e2.outdx
      /\ e3.count = c /\ e3.initkey = e2.initkey
      /\ e3.sharekey = e2.sharekey /\ e3.msqid = e2.msqid
      /\ e3.element = e2.element
  BY <1>5, <1>6 DEF Queue
<1>8. Enqueued(e, m) = e3
  BY <1>4 DEF e2
<1> HIDE DEF e3
<1>9. QED
  BY <1>3, <1>5, <1>6, <1>7, <1>8 DEF FieldsAgree, Stored

(* A dequeue on a ring that is not empty: fields stay in range and agree.  *)
LEMMA DequeuedQueue ==
  ASSUME NEW e \in Queue, FieldsAgree(e), ~ipc_msgque_isempty(e)
  PROVE  LET f == Dequeued(e) IN
         /\ f \in Queue /\ FieldsAgree(f) /\ Removed(f, e)
         /\ f.initkey = e.initkey /\ f.sharekey = e.sharekey /\ f.msqid = e.msqid
<1> DEFINE c  == (e.count + UINT32_MOD - 1) % UINT32_MOD
           e1 == [e EXCEPT !.outdx = NextIndex(e.outdx)]
           e2 == [e1 EXCEPT !.count = c]
<1>1. e.indx \in Index /\ e.outdx \in Index /\ e.count \in UINT32
  BY DEF Queue
<1>2. NextIndex(e.outdx) \in Index
  BY <1>1, NextIndexValue
<1>3. /\ e1 \in Queue /\ e1.indx = e.indx /\ e1.outdx = NextIndex(e.outdx)
      /\ e1.count = e.count /\ e1.initkey = e.initkey
      /\ e1.sharekey = e.sharekey /\ e1.msqid = e.msqid
  BY <1>2 DEF Queue
<1>4. Dequeued(e) = [e1 EXCEPT !.count = c]
  BY <1>3 DEF Dequeued, Queue
<1> HIDE DEF e1
<1>5. /\ c \in UINT32
      /\ Agree(e.indx, NextIndex(e.outdx), c)
      /\ InRange(c)
  BY <1>1, DequeueAgrees DEF FieldsAgree, ipc_msgque_isempty
<1> HIDE DEF c
<1>6. /\ e2 \in Queue /\ e2.indx = e1.indx /\ e2.outdx = e1.outdx
      /\ e2.count = c /\ e2.initkey = e1.initkey
      /\ e2.sharekey = e1.sharekey /\ e2.msqid = e1.msqid
  BY <1>3, <1>5 DEF Queue
<1> HIDE DEF e2
<1>7. Removed(Dequeued(e), e)
  BY DEF Dequeued, Queue, Removed
<1>8. QED
  BY <1>3, <1>4, <1>5, <1>6, <1>7 DEF FieldsAgree, e2

(* A ring changes and agrees again, the registration stays.                *)
LEMMA RingChanged ==
  ASSUME TableInv, NEW s \in Slots, NEW e \in Queue, FieldsAgree(e),
         msgQueTbl' = [msgQueTbl EXCEPT ![s] = e],
         e.initkey = msgQueTbl[s].initkey,
         e.sharekey = msgQueTbl[s].sharekey,
         e.msqid = msgQueTbl[s].msqid,
         UNCHANGED <<names, lock>>, Located',
         loc' \in [Threads -> [slot : Slots, key : Keys \cup {NoKey}]],
         ret' \in [Threads -> Int],
         \A t \in Threads :
           /\ pc'[t] = "fill" <=> pc[t] = "fill"
           /\ pc[t] = "fill" => loc'[t] = loc[t]
  PROVE  TableInv'
<1>1. TableDataOK /\ RingsAgree /\ Registry
  BY DEF TableInv
<1>2. /\ msgQueTbl' \in [Slots -> Queue]
      /\ msgQueTbl'[s] = e
      /\ \A r \in Slots \ {s} : msgQueTbl'[r] = msgQueTbl[r]
  BY <1>1 DEF TableDataOK
<1>3. TableDataOK'
  BY <1>1, <1>2 DEF TableDataOK, names
<1>4. RingsAgree'
  BY <1>1, <1>2 DEF RingsAgree
<1>5. Registry'
  BY <1>1, <1>2, RegistryKept
<1>6. QED
  BY <1>3, <1>4, <1>5 DEF TableInv

-----------------------------------------------------------------------------
(***************************************************************************)
(* The table under the steps of receives and of the interrupt handler.     *)
(***************************************************************************)

IrqRec == [at : IrqPlaces, slot : Slots, key : Keys \cup {NoKey},
           msg : Msgs \cup {<< >>}]

IrqTyped ==
  /\ irq \in IrqRec
  /\ irq.at # "idle" => irq.msg \in Msgs

(* A thread goes to another label.                                         *)
LEMMA GotoInv ==
  ASSUME TableInv, NEW t \in Threads, NEW label \in Places \ {"fill"},
         Goto(t, label), pc[t] # "fill",
         UNCHANGED <<msgQueTbl, names, lock, loc, ret>>
  PROVE  TableInv'
<1>1. TableDataOK /\ Located
  BY DEF TableInv
<1>2. TableDataOK' /\ Located'
  BY <1>1 DEF TableDataOK, Located, Goto, names
<1>3. \A u \in Threads : pc'[u] = "fill" <=> pc[u] = "fill"
  BY <1>1 DEF Located, Goto
<1>4. QED
  BY <1>2, <1>3, TableKept

(* A wakeup moves sleepers only.                                           *)
LEMMA WakeKeeps ==
  ASSUME Located, NEW s, Wake(s)
  PROVE  /\ Located'
         /\ \A u \in Threads :
              /\ pc'[u] = "fill" <=> pc[u] = "fill"
              /\ pc'[u] \in InReceive <=> pc[u] \in InReceive
  BY DEF Located, Places, TablePlaces, InLookup, Wake, InReceive

(* Return and lock aside, the table is not touched.                        *)
LEMMA ReturnInv ==
  ASSUME TableInv, NEW t \in Threads, NEW v \in Int, Return(t, v),
         pc[t] # "fill", UNCHANGED <<msgQueTbl, names>>,
         UNCHANGED lock \/ (lock = Free /\ LeakLock(t))
  PROVE  TableInv'
<1>1. msgQueTokenStr' \in [Slots -> Paths \cup {NoToken}]
  BY DEF TableInv, TableDataOK, names
<1>2. QED
  BY <1>1, QuietCall DEF names

(* ipc_msg_rcv begins.                                                     *)
LEMMA RcvCallInv ==
  ASSUME TableInv, NEW t \in Threads, NEW id, NEW tmo, NEW size,
         RcvCall(t, id, tmo, size)
  PROVE  TableInv'
<1>1. TableDataOK /\ Located
  BY DEF TableInv
<1>2. id \in Slots /\ msgQueTbl[id].sharekey \in Keys \cup {NoKey}
  BY <1>1, SlotTypes DEF RcvCall, IsRegistered
<1>3. loc' \in [Threads -> [slot : Slots, key : Keys \cup {NoKey}]]
  BY <1>1, <1>2 DEF RcvCall, TableDataOK
<1>4. TableDataOK' /\ Located'
  BY <1>1, <1>3 DEF RcvCall, Goto, TableDataOK, Located, Places, names
<1>5. \A u \in Threads :
        /\ pc'[u] = "fill" <=> pc[u] = "fill"
        /\ pc[u] = "fill" => loc'[u] = loc[u]
  BY <1>1 DEF RcvCall, Goto, TableDataOK, Located
<1>6. QED
  BY <1>4, <1>5, TableKept DEF RcvCall

(* The steps of a receive that only move its thread.                       *)
LEMMA RcvMovesInv ==
  ASSUME TableInv, NEW t \in Threads,
         RcvTest(t) \/ RcvPrep(t) \/ Signal(t) \/ Timeout(t)
  PROVE  TableInv'
<1>1. PICK label \in Places \ {"fill"} : Goto(t, label)
  BY DEF RcvTest, RcvPrep, Signal, Timeout, Places
<1>2. QED
  BY <1>1, GotoInv DEF RcvTest, RcvPrep, Signal, Timeout

(* The two looks after a wait, which go on or return.                      *)
LEMMA RcvChecksInv ==
  ASSUME TableInv, NEW t \in Threads, RcvWoken(t) \/ RcvRecheck(t)
  PROVE  TableInv'
<1>1. CASE \E v \in Int : Return(t, v)
  BY <1>1, ReturnInv DEF RcvWoken, RcvRecheck
<1>2. CASE /\ \E label \in Places \ {"fill"} : Goto(t, label)
           /\ UNCHANGED <<loc, ret>>
  BY <1>2, GotoInv DEF RcvWoken, RcvRecheck
<1>3. QED
  BY <1>1, <1>2 DEF RcvWoken, RcvRecheck, Places

(* A receive that fails; dequeue may leave with the lock.                  *)
LEMMA RcvFailsInv ==
  ASSUME TableInv, NEW t \in Threads, NEW id,
         RcvRefused(t, id) \/ RcvDequeueEmpty(t)
  PROVE  TableInv'
<1>1. PICK v \in Int : Return(t, v)
  BY DEF RcvRefused, RcvDequeueEmpty
<1>2. QED
  BY <1>1, ReturnInv DEF RcvRefused, RcvDequeueEmpty

(* What a receive returns is a number.                                     *)
LEMMA LengthsAreNats == \A m \in Element : Len(m) \in Nat
  BY TableAssumption, Zenon DEF Element

(* A receive takes an element.                                             *)
LEMMA RcvDequeueInv ==
  ASSUME TableInv, NEW t \in Threads, RcvDequeue(t)
  PROVE  TableInv'
<1> DEFINE s == loc[t].slot
           e == Dequeued(msgQueTbl[s])
<1>1. TableDataOK /\ Located /\ RingsAgree
  BY DEF TableInv
<1>2. s \in Slots
  BY <1>1 DEF TableDataOK
<1>3. msgQueTbl[s] \in Queue /\ FieldsAgree(msgQueTbl[s])
  BY <1>1, <1>2, SlotTypes DEF RingsAgree
<1>4. /\ e \in Queue /\ FieldsAgree(e)
      /\ e.initkey = msgQueTbl[s].initkey
      /\ e.sharekey = msgQueTbl[s].sharekey
      /\ e.msqid = msgQueTbl[s].msqid
  BY <1>3, DequeuedQueue DEF RcvDequeue, q
<1>5. msgQueTbl' = [msgQueTbl EXCEPT ![s] = e]
  BY DEF RcvDequeue
<1>6. PICK v \in Int : Return(t, v)
  <2>1. Front(q(t)) \in Element
    BY <1>1, <1>2, SlotTypes DEF Front, q
  <2>2. Len(Front(q(t))) \in Int
    BY <2>1, LengthsAreNats
  <2>3. QED
    BY <2>2 DEF RcvDequeue
<1>7. pc[t] # "fill" /\ UNCHANGED <<names, lock>>
  BY DEF RcvDequeue
<1> HIDE DEF e, s
<1>8. QED
  BY <1>1, <1>2, <1>4, <1>5, <1>6, <1>7, ReturnKept, RingChanged DEF Located

(* One processor: ipc_core_handle_func posts a message and wakes.          *)
LEMMA HandlerPostsInv ==
  ASSUME TableInv, NEW k \in Keys, NEW m \in Msgs, HandlerPosts(k, m)
  PROVE  TableInv'
<1> DEFINE s == First(QueuesWithKey(k))
           e == Enqueued(msgQueTbl[s], m)
<1>1. TableDataOK /\ Located /\ RingsAgree
  BY DEF TableInv
<1>2. s \in Slots
  BY FirstIsIn DEF HandlerPosts, QueuesWithKey
<1>3. msgQueTbl[s] \in Queue /\ FieldsAgree(msgQueTbl[s]) /\ m \in Element
  BY <1>1, <1>2, SlotTypes DEF RingsAgree, Element
<1>4. /\ e \in Queue /\ FieldsAgree(e)
      /\ e.initkey = msgQueTbl[s].initkey
      /\ e.sharekey = msgQueTbl[s].sharekey
      /\ e.msqid = msgQueTbl[s].msqid
  BY <1>3, EnqueuedQueue DEF HandlerPosts
<1>5. /\ msgQueTbl' = [msgQueTbl EXCEPT ![s] = e]
      /\ Wake(s) /\ UNCHANGED <<names, lock, loc, ret>>
  BY DEF HandlerPosts
<1> HIDE DEF e, s
<1>6. /\ loc' \in [Threads -> [slot : Slots, key : Keys \cup {NoKey}]]
      /\ ret' \in [Threads -> Int]
  BY <1>1, <1>5 DEF TableDataOK
<1>7. QED
  BY <1>1, <1>2, <1>4, <1>5, <1>6, WakeKeeps, RingChanged

(* Several processors: the enqueue of the handler, had it the lock.        *)
LEMMA IrqEnqueueInv ==
  ASSUME TableInv, IrqTyped, IrqEnqueue
  PROVE  TableInv'
<1> DEFINE s == irq.slot
           e == IF ipc_msgque_isfull(msgQueTbl[s]) THEN msgQueTbl[s]
                ELSE Enqueued(msgQueTbl[s], irq.msg)
<1>1. TableDataOK /\ Located /\ RingsAgree
  BY DEF TableInv
<1>2. CASE UNCHANGED receiveVars
  BY <1>2, TableStutters DEF receiveVars
<1>3. CASE ~UNCHANGED receiveVars
  <2>1. s \in Slots /\ irq.msg \in Element
    BY <1>3 DEF IrqEnqueue, IrqTyped, IrqRec, Element
  <2>2. msgQueTbl[s] \in Queue /\ FieldsAgree(msgQueTbl[s])
    BY <1>1, <2>1, SlotTypes DEF RingsAgree
  <2>3. /\ e \in Queue /\ FieldsAgree(e)
        /\ e.initkey = msgQueTbl[s].initkey
        /\ e.sharekey = msgQueTbl[s].sharekey
        /\ e.msqid = msgQueTbl[s].msqid
    BY <2>1, <2>2, EnqueuedQueue
  <2>4. /\ msgQueTbl' = [msgQueTbl EXCEPT ![s] = e]
        /\ Wake(s) /\ UNCHANGED <<names, lock, loc, ret>>
    BY <1>3 DEF IrqEnqueue
  <2> HIDE DEF e, s
  <2>5. /\ loc' \in [Threads -> [slot : Slots, key : Keys \cup {NoKey}]]
        /\ ret' \in [Threads -> Int]
    BY <1>1, <2>4 DEF TableDataOK
  <2>6. QED
    BY <1>1, <2>1, <2>3, <2>4, <2>5, WakeKeeps, RingChanged
<1>4. QED
  BY <1>2, <1>3

(* Several processors: ipc_msgque_msgpost takes the lock.                  *)
LEMMA IrqLocksInv ==
  ASSUME TableInv, IrqLocks
  PROVE  TableInv'
<1>1. TableDataOK /\ Located /\ FillsAlone
  BY DEF TableInv, Registry
<1>2. TableDataOK' /\ Located'
  BY <1>1 DEF IrqLocks, TableDataOK, Located, names
<1>3. \A t \in Threads : pc[t] # "fill" /\ pc'[t] # "fill"
  BY <1>1, NobodyFills DEF IrqLocks
<1>4. QED
  BY <1>2, <1>3, TableKept DEF IrqLocks

(* Every step of ReceiveNext keeps the invariant of the table.             *)
LEMMA ReceiveTableInv ==
  ASSUME TableInv, IrqTyped, [ReceiveNext]_receiveVars
  PROVE  TableInv'
<1>1. CASE TableNext \/ SmpNext
  BY <1>1, TableNextInv
<1>2. CASE \E k \in Keys : HandlerDrops(k) \/ \E m \in Msgs : HandlerPosts(k, m)
  BY <1>2, HandlerPostsInv, TableStutters DEF HandlerDrops, receiveVars
<1>3. CASE \/ \E k \in Keys, m \in Msgs : IrqLookup(k, m)
           \/ IrqStep
  BY <1>3, IrqEnqueueInv, IrqLocksInv, TableStutters
  DEF IrqLookup, IrqStep, IrqScan, IrqKey, IrqFound, IrqNext, IrqRefused
<1>4. ASSUME NEW t \in Threads,
             \/ \E id \in MsqIds : RcvRefused(t, id)
             \/ \E id \in MsqIds, tmo \in BOOLEAN, size \in Sizes :
                  RcvCall(t, id, tmo, size)
             \/ Signal(t) \/ Timeout(t) \/ ThreadStep(t)
      PROVE  TableInv'
  BY <1>4, RcvFailsInv, RcvCallInv, RcvMovesInv, RcvChecksInv, RcvDequeueInv
  DEF ThreadStep
<1>5. CASE UNCHANGED receiveVars
  BY <1>5, TableStutters DEF receiveVars
<1>6. QED
  BY <1>1, <1>2, <1>3, <1>4, <1>5 DEF ReceiveNext

-----------------------------------------------------------------------------
(***************************************************************************)
(* The records of receives and of the handler.                             *)
(***************************************************************************)

RcvRec == [tmo : BOOLEAN, expired : BOOLEAN, size : Sizes \cup {0}]

Delivered == {SubSeq(m, 1, 1) : m \in Element} \cup {<< >>}

RcvTyped ==
  /\ rcv \in [Threads -> RcvRec]
  /\ intr \in [Slots -> BOOLEAN]
  /\ out \in [Threads -> Delivered]
  /\ \A t \in Threads : pc[t] \notin InReceive => rcv[t] = NoRcv

(* There is no lock word on one processor, and no step between two locks.  *)
UpHasNoLock == ~SMP => lock = Free /\ irq.at = "idle"

RcvInv == TableInv /\ IrqTyped /\ RcvTyped /\ UpHasNoLock

(* The record of a thread that receives nothing.                           *)
LEMMA NoRcvTyped == NoRcv \in RcvRec
  BY DEF NoRcv, RcvRec

(* Calls of the table neither begin nor end a receive.                     *)
LEMMA TableKeepsReceives ==
  ASSUME Located, TableNext \/ SmpNext
  PROVE  \A u \in Threads : pc'[u] \in InReceive <=> pc[u] \in InReceive
  BY DEF Located, InReceive, InLookup, TableNext, SmpNext, TableCall, ShortCall,
         TableStep, ipc_msgque_ftok, GetRefused, GetAtOnce, GetPublish, GetFill,
         ScanStart, ScanSlot, ScanKey, ScanFound, ScanNext, RelUnregistered, RelDone,
         RelNoToken, Return

(* A receive ends: its record is wiped.                                    *)
LEMMA EndTyped ==
  ASSUME Located, RcvTyped, NEW t \in Threads, NEW v, Return(t, v),
         rcv' = [rcv EXCEPT ![t] = NoRcv]
  PROVE  /\ rcv' \in [Threads -> RcvRec]
         /\ \A u \in Threads : pc'[u] \notin InReceive => rcv'[u] = NoRcv
  BY NoRcvTyped DEF Located, RcvTyped, Return

(* A receive goes on.                                                      *)
LEMMA MoveTyped ==
  ASSUME Located, RcvTyped, NEW t \in Threads, NEW label \in InReceive,
         Goto(t, label), UNCHANGED rcv
  PROVE  \A u \in Threads : pc'[u] \notin InReceive => rcv'[u] = NoRcv
  BY DEF Located, RcvTyped, Goto

(* The steps a receiver takes by itself.                                   *)
LEMMA ThreadStepTyped ==
  ASSUME TableInv, RcvTyped, NEW t \in Threads, ThreadStep(t)
  PROVE  RcvTyped'
<1>1. Located /\ TableDataOK
  BY DEF TableInv
<1>2. CASE RcvTest(t) \/ RcvPrep(t)
  <2>1. PICK label \in InReceive : Goto(t, label)
    BY <1>2 DEF RcvTest, RcvPrep, InReceive
  <2>2. UNCHANGED <<rcv, intr, out>>
    BY <1>2 DEF RcvTest, RcvPrep
  <2>3. QED
    BY <1>1, <2>1, <2>2, MoveTyped DEF RcvTyped
<1>3. CASE RcvWoken(t)
  <2>1. intr' \in [Slots -> BOOLEAN] /\ UNCHANGED out
    <3>1. rcv[t].tmo \in BOOLEAN
      BY DEF RcvTyped, RcvRec
    <3>2. QED
      BY <1>3, <3>1 DEF RcvWoken, RcvTyped
  <2>2. CASE Goto(t, "recheck") /\ UNCHANGED rcv
    BY <1>1, <2>1, <2>2, MoveTyped DEF RcvTyped, InReceive
  <2>3. CASE Return(t, -1) /\ rcv' = [rcv EXCEPT ![t] = NoRcv]
    BY <1>1, <2>1, <2>3, EndTyped DEF RcvTyped
  <2>4. QED
    BY <1>3, <2>2, <2>3 DEF RcvWoken
<1>4. CASE RcvRecheck(t) \/ RcvDequeueEmpty(t)
  <2>1. UNCHANGED <<intr, out>>
    BY <1>4 DEF RcvRecheck, RcvDequeueEmpty
  <2>2. CASE Goto(t, "test") /\ UNCHANGED rcv
    BY <1>1, <2>1, <2>2, MoveTyped DEF RcvTyped, InReceive
  <2>3. CASE (\E v : Return(t, v)) /\ rcv' = [rcv EXCEPT ![t] = NoRcv]
    BY <1>1, <2>1, <2>3, EndTyped DEF RcvTyped
  <2>4. QED
    BY <1>4, <2>2, <2>3 DEF RcvRecheck, RcvDequeueEmpty
<1>5. CASE RcvDequeue(t)
  <2>1. Front(q(t)) \in Element
    <3>1. loc[t].slot \in Slots
      BY <1>1 DEF TableDataOK
    <3>2. QED
      BY <1>1, <3>1, SlotTypes DEF Front, q
  <2>2. out' \in [Threads -> Delivered]
    BY <1>5, <2>1 DEF RcvDequeue, RcvTyped, Delivered
  <2>3. PICK v : Return(t, v)
    BY <1>5 DEF RcvDequeue
  <2>4. rcv' = [rcv EXCEPT ![t] = NoRcv] /\ UNCHANGED intr
    BY <1>5 DEF RcvDequeue
  <2>5. QED
    BY <1>1, <2>2, <2>3, <2>4, EndTyped DEF RcvTyped
<1>6. QED
  BY <1>2, <1>3, <1>4, <1>5 DEF ThreadStep

(* Calls, signals and timeouts of receivers.                               *)
LEMMA CallTyped ==
  ASSUME Located, RcvTyped, NEW t \in Threads,
         \/ \E id \in MsqIds : RcvRefused(t, id)
         \/ \E id \in MsqIds, tmo \in BOOLEAN, size \in Sizes :
              RcvCall(t, id, tmo, size)
         \/ Signal(t) \/ Timeout(t)
  PROVE  RcvTyped'
<1>1. CASE \E id \in MsqIds : RcvRefused(t, id)
  BY <1>1 DEF RcvRefused, Return, RcvTyped, Located, InReceive
<1>2. ASSUME NEW id \in MsqIds, NEW tmo \in BOOLEAN, NEW size \in Sizes,
             RcvCall(t, id, tmo, size)
      PROVE  RcvTyped'
  <2>1. [tmo |-> tmo, expired |-> FALSE, size |-> size] \in RcvRec
    BY DEF RcvRec
  <2>2. QED
    BY <1>2, <2>1 DEF RcvCall, Goto, RcvTyped, Located, InReceive
<1>3. CASE Signal(t)
  BY <1>3, MoveTyped DEF Signal, RcvTyped, InReceive
<1>4. CASE Timeout(t)
  <2>1. [rcv[t] EXCEPT !.expired = ~WaitCondition(t)] \in RcvRec
    <3>1. rcv[t] \in RcvRec /\ (~WaitCondition(t)) \in BOOLEAN
      BY DEF RcvTyped
    <3>2. QED
      BY <3>1 DEF RcvRec
  <2>2. rcv' = [rcv EXCEPT ![t] = [rcv[t] EXCEPT !.expired = ~WaitCondition(t)]]
    BY <1>4 DEF Timeout
  <2>3. QED
    BY <1>4, <2>1, <2>2 DEF Timeout, Goto, RcvTyped, Located, InReceive
<1>5. QED
  BY <1>1, <1>2, <1>3, <1>4

(* The handler leaves the records of receivers alone.                      *)
LEMMA HandlerTyped ==
  ASSUME TableInv, RcvTyped, IrqTyped,
         \/ \E k \in Keys : HandlerDrops(k) \/ \E m \in Msgs : HandlerPosts(k, m)
         \/ \E k \in Keys, m \in Msgs : IrqLookup(k, m)
         \/ IrqStep
  PROVE  RcvTyped'
<1>1. Located
  BY DEF TableInv
<1>2. CASE UNCHANGED <<pc, rcv, intr, out>>
  BY <1>2 DEF RcvTyped
<1>3. CASE (\E s : Wake(s)) /\ UNCHANGED <<rcv, intr, out>>
  BY <1>1, <1>3, WakeKeeps DEF RcvTyped
<1>4. QED
  BY <1>2, <1>3
  DEF HandlerDrops, HandlerPosts, IrqLookup, IrqStep, IrqScan, IrqKey, IrqFound,
      IrqNext, IrqRefused, IrqLocks, IrqEnqueue, receiveVars, tableVars

(* Every step of ReceiveNext keeps the types of the records.               *)
LEMMA ReceiveTyped ==
  ASSUME TableInv, RcvTyped, IrqTyped, [ReceiveNext]_receiveVars
  PROVE  RcvTyped'
<1>1. CASE (TableNext \/ SmpNext) /\ UNCHANGED <<rcv, intr, irq, out>>
  BY <1>1, TableKeepsReceives DEF TableInv, RcvTyped
<1>2. CASE UNCHANGED receiveVars
  BY <1>2 DEF receiveVars, tableVars, RcvTyped
<1>3. QED
  BY <1>1, <1>2, ThreadStepTyped, CallTyped, HandlerTyped DEF ReceiveNext, TableInv

(* The record of a handler that does not run.                              *)
LEMMA NoIrqTyped == NoIrq \in IrqRec
  BY SlotsAreNat DEF NoIrq, IrqRec, IrqPlaces

(* Every step keeps the type of the record of the handler.                 *)
LEMMA IrqStaysTyped ==
  ASSUME TableDataOK, IrqTyped, [ReceiveNext]_receiveVars
  PROVE  IrqTyped'
<1>1. CASE UNCHANGED irq
  BY <1>1 DEF IrqTyped
<1>2. CASE irq' = NoIrq
  BY <1>2, NoIrqTyped DEF IrqTyped, NoIrq
<1>3. ASSUME NEW at \in IrqPlaces \ {"idle"}, irq.at # "idle",
             irq' = [irq EXCEPT !.at = at]
      PROVE  IrqTyped'
  BY <1>3 DEF IrqTyped, IrqRec
<1>4. ASSUME NEW k \in Keys, NEW m \in Msgs, IrqLookup(k, m)
      PROVE  IrqTyped'
  BY <1>4, SlotsAreNat DEF IrqLookup, IrqTyped, IrqRec, IrqPlaces, InLookup
<1>5. CASE IrqNext /\ irq.at \in InLookup
  <2>1. CASE irq.slot + 1 # QUEUE_NUM
    <3>1. irq.slot + 1 \in Slots
      BY <2>1, SizeAssumption DEF IrqTyped, IrqRec, Slots
    <3>2. irq' = [irq EXCEPT !.at = "scan", !.slot = irq.slot + 1]
      BY <1>5, <2>1 DEF IrqNext
    <3>3. QED
      BY <1>5, <3>1, <3>2 DEF IrqTyped, IrqRec, IrqPlaces, InLookup
  <2>2. QED
    BY <1>2, <1>5, <2>1 DEF IrqNext
<1>6. CASE IrqFound
  <2>1. msgQueTbl[irq.slot].msqid \in Slots
    BY SlotTypes DEF IrqTyped, IrqRec
  <2>2. QED
    BY <1>6, <2>1 DEF IrqFound, IrqTyped, IrqRec, IrqPlaces
<1>7. IrqScan \/ IrqKey => IrqTyped'
  BY <1>3, <1>5 DEF IrqScan, IrqKey, IrqPlaces, InLookup
<1>8. IrqLocks => IrqTyped'
  BY <1>3 DEF IrqLocks, IrqPlaces
<1>9. QED
  BY <1>1, <1>2, <1>4, <1>6, <1>7, <1>8
  DEF ReceiveNext, HandlerDrops, HandlerPosts, IrqStep, IrqRefused, IrqEnqueue,
      RcvRefused, RcvCall, Signal, Timeout, ThreadStep, RcvTest, RcvPrep, RcvWoken,
      RcvRecheck, RcvDequeueEmpty, RcvDequeue, receiveVars

(* One processor: no step leaves the lock taken.                           *)
LEMMA UpLockStays ==
  ASSUME UpHasNoLock, FillsAlone, [ReceiveNext]_receiveVars
  PROVE  UpHasNoLock'
<1> SUFFICES ASSUME ~SMP
             PROVE  lock' = Free /\ irq'.at = "idle"
  BY DEF UpHasNoLock
<1>1. lock = Free /\ irq.at = "idle"
  BY DEF UpHasNoLock
<1>2. ~IrqStep /\ ~SmpNext /\ \A k \in Keys, m \in Msgs : ~IrqLookup(k, m)
  BY <1>1, NobodyFills
  DEF IrqStep, IrqScan, IrqKey, IrqFound, IrqNext, IrqRefused, IrqLocks, IrqEnqueue,
      SmpNext, GetPublish, GetFill, IrqLookup
<1>3. CASE UNCHANGED <<lock, irq>>
  BY <1>1, <1>3
<1>4. UNCHANGED <<lock, irq>>
  BY <1>2
  DEF ReceiveNext, TableNext, TableCall, ShortCall, TableStep, ipc_msgque_ftok,
      GetRefused, GetAtOnce, ScanStart, ScanSlot, ScanKey, ScanFound, ScanNext,
      RelUnregistered, RelDone, RelNoToken, LeakLock, HandlerDrops, HandlerPosts,
      RcvRefused, RcvCall, Signal, Timeout, ThreadStep, RcvTest, RcvPrep, RcvWoken,
      RcvRecheck, RcvDequeueEmpty, RcvDequeue, receiveVars, tableVars
<1>5. QED
  BY <1>3, <1>4

(* The invariant of ReceiveSpec.                                           *)
LEMMA ReceiveInvariant == ReceiveSpec => []RcvInv
<1>1. ReceiveInit => RcvInv
  <2> SUFFICES ASSUME ReceiveInit PROVE RcvInv
    OBVIOUS
  <2>1. TableInv
    BY InitTableInv DEF ReceiveInit
  <2>2. IrqTyped
    BY NoIrqTyped DEF ReceiveInit, IrqTyped, NoIrq
  <2>3. RcvTyped
    BY NoRcvTyped DEF ReceiveInit, RcvTyped, Delivered
  <2>4. UpHasNoLock
    BY DEF ReceiveInit, TableInit, UpHasNoLock, NoIrq
  <2>5. QED
    BY <2>1, <2>2, <2>3, <2>4 DEF RcvInv
<1>2. RcvInv /\ [ReceiveNext]_receiveVars => RcvInv'
  BY ReceiveTableInv, IrqStaysTyped, ReceiveTyped, UpLockStays
  DEF RcvInv, TableInv, Registry
<1>3. QED
  BY <1>1, <1>2, PTL DEF ReceiveSpec

-----------------------------------------------------------------------------
(***************************************************************************)
(* What follows.                                                           *)
(***************************************************************************)

(* Under receives, interrupts and table calls every variable keeps its     *)
(* type, and a thread has the record of a receive only inside one.         *)
THEOREM ReceiveTypesHold == ReceiveSpec => []ReceiveTypeOK
<1>1. RcvInv => ReceiveTypeOK
  <2> SUFFICES ASSUME RcvInv PROVE ReceiveTypeOK
    OBVIOUS
  <2>1. pc \in [Threads -> TablePlaces \cup InReceive]
    BY DEF RcvInv, TableInv, Located, Places, InReceive
  <2>2. \A t \in Threads :
          /\ out[t] \in {SubSeq(m, 1, 1) : m \in Element} \cup {<< >>}
          /\ pc[t] \notin InReceive => rcv[t] = NoRcv
    BY DEF RcvInv, RcvTyped, Delivered
  <2>3. QED
    BY <2>1, <2>2 DEF RcvInv, TableInv, IrqTyped, IrqRec, RcvTyped, RcvRec,
                      ReceiveTypeOK
<1>2. QED
  BY <1>1, ReceiveInvariant, PTL

(* indx, outdx and count of every queue of the table agree, whatever       *)
(* ipc_msg_rcv, the handler, get and rel do to it at once.                 *)
THEOREM RingsAlwaysAgree == ReceiveSpec => []RingsAgree
<1>1. RcvInv => RingsAgree
  BY DEF RcvInv, TableInv
<1>2. QED
  BY <1>1, ReceiveInvariant, PTL

(* Between the two stores of ipc_msgque_get its thread holds the spinlock. *)
THEOREM FillsHoldLock == ReceiveSpec => []FillHoldsLock
<1>1. RcvInv => FillHoldsLock
  BY DEF RcvInv, TableInv, Registry, FillsAlone, FillHoldsLock
<1>2. QED
  BY <1>1, ReceiveInvariant, PTL

(* On several processors too, with gets of two steps, leaked locks and     *)
(* lookups that take none, a key has one queue.                            *)
THEOREM RegistrySound == ReceiveSpec => []KeysUnique
<1>1. RcvInv => KeysUnique
  BY DEF RcvInv, TableInv, Registry
<1>2. QED
  BY <1>1, ReceiveInvariant, PTL

(* Once rel or dequeue has returned with the spinlock, or the handler      *)
(* waits for itself, no queue, name or ring changes any more.              *)
THEOREM LeaksFreeze == ReceiveSpec => LeakFreezesTable
<1>1. RcvInv /\ [ReceiveNext]_receiveVars
        => [LockLost => UNCHANGED <<msgQueTbl, msgQueTokenStr, lock>>]_tableVars
  <2> SUFFICES ASSUME RcvInv, [ReceiveNext]_receiveVars, LockLost
               PROVE  UNCHANGED <<msgQueTbl, msgQueTokenStr, lock>>
    OBVIOUS
  <2>1. SMP /\ lock # Free /\ \A t \in Threads : pc[t] # "fill"
    BY NamesAssumption
    DEF RcvInv, UpHasNoLock, TableInv, Registry, FillsAlone, LockLost, Free, IRQ
  <2>2. QED
    BY <2>1
    DEF ReceiveNext, TableNext, SmpNext, TableCall, ShortCall, TableStep,
        ipc_msgque_ftok, GetRefused, GetAtOnce, GetPublish, GetFill, ScanStart,
        ScanSlot, ScanKey, ScanFound, ScanNext, RelUnregistered, RelDone, RelNoToken,
        HandlerDrops, HandlerPosts, IrqLookup, IrqStep, IrqScan, IrqKey, IrqFound,
        IrqNext, IrqRefused, IrqLocks, IrqEnqueue, RcvRefused, RcvCall, Signal,
        Timeout, ThreadStep, RcvTest, RcvPrep, RcvWoken, RcvRecheck, RcvDequeueEmpty,
        RcvDequeue, receiveVars, tableVars, names
<1>2. QED
  BY <1>1, ReceiveInvariant, PTL DEF ReceiveSpec, LeakFreezesTable

-----------------------------------------------------------------------------
(***************************************************************************)
(* What one step does to the rings.                                        *)
(***************************************************************************)

SameRing(f, e) ==
  /\ f.indx = e.indx /\ f.outdx = e.outdx
  /\ f.count = e.count /\ f.element = e.element

(* ipc_msgque_get has written the ring of slot s, or, where the slot looks *)
(* registered already, completes it.                                       *)
Resets(s) ==
  /\ msgQueTbl'[s].count = 0
  /\ msgQueTbl'[s].initkey
  /\ msgQueTbl[s].initkey => SMP

(* The handler has stored a message, and woken who waits for one.          *)
Stores(s) ==
  /\ ~ipc_msgque_isfull(msgQueTbl[s])
  /\ \E m \in Msgs : Stored(msgQueTbl'[s], msgQueTbl[s], m)
  /\ Wake(s)
  /\ IF SMP THEN irq.at = "enqueue" /\ lock = Free ELSE msgQueTbl[s].initkey

(* Thread t returns from ipc_msgque_dequeue with m, the size of which it   *)
(* reports, or with nothing if m is too long for it.                       *)
Delivers(t, s, m) ==
  /\ pc[t] = "deq" /\ loc[t].slot = s /\ pc'[t] = "idle"
  /\ \/ ret'[t] = -5 /\ out'[t] = out[t]
     \/ ret'[t] = Len(m) /\ out'[t] = SubSeq(m, 1, 1)

(* A receiver has taken a message, and returns.                            *)
Takes(s) ==
  /\ ~ipc_msgque_isempty(msgQueTbl[s])
  /\ Removed(msgQueTbl'[s], msgQueTbl[s])
  /\ \E t \in Threads : Delivers(t, s, Front(msgQueTbl[s]))

RingStep(s) ==
  \/ SameRing(msgQueTbl'[s], msgQueTbl[s])
  \/ Resets(s)
  \/ Stores(s)
  \/ Takes(s)

(* What ipc_msgque_get leaves is an empty ring.                            *)
LEMMA RegisteredResets ==
  ASSUME TableDataOK, NEW s \in Slots, NEW k
  PROVE  Registered(s, k).count = 0 /\ Registered(s, k).initkey = TRUE
<1> DEFINE e == RingReset(msgQueTbl[s])
<1>1. DOMAIN msgQueTbl[s] = {"initkey", "sharekey", "msqid", "indx", "outdx",
                             "count", "element"}
  BY SlotTypes DEF Queue
<1>2. e.count = 0 /\ DOMAIN e = DOMAIN msgQueTbl[s]
  BY <1>1 DEF RingReset
<1> HIDE DEF e
<1>3. Registered(s, k) = [e EXCEPT !.initkey = TRUE, !.msqid = s, !.sharekey = k]
  BY DEF Registered, e
<1>4. QED
  BY <1>1, <1>2, <1>3

(* A step that changes the registration of a slot leaves the others.       *)
LEMMA GetStepsRings ==
  ASSUME TableInv, TableNext \/ SmpNext, NEW r \in Slots
  PROVE  RingStep(r)
<1>1. TableDataOK /\ FillsAlone
  BY DEF TableInv, Registry
<1>2. CASE UNCHANGED msgQueTbl
  BY <1>2 DEF RingStep, SameRing
<1>3. CASE \E s \in Slots,
b \in BOOLEAN : msgQueTbl' = [msgQueTbl EXCEPT ![s].initkey = b]
  BY <1>1, <1>3, SlotTypes DEF TableDataOK, Queue, RingStep, SameRing
<1>4. ASSUME NEW s \in Slots, NEW k,
             msgQueTbl' = [msgQueTbl EXCEPT ![s] = Registered(s, k)],
             msgQueTbl[s].initkey => SMP
      PROVE  RingStep(r)
  <2>1. CASE r = s
    BY <1>1, <1>4, <2>1, RegisteredResets DEF TableDataOK, RingStep, Resets
  <2>2. CASE r # s
    BY <1>1, <1>4, <2>2 DEF TableDataOK, RingStep, SameRing
  <2>3. QED
    BY <2>1, <2>2
<1>5. ASSUME NEW t \in Threads, NEW k \in Keys, GetAtOnce(t, k)
      PROVE  RingStep(r)
  <2>1. First(FreeQueues) \in FreeQueues
    BY <1>5, FreeQueuesAreSlots, FirstIsIn DEF GetAtOnce
  <2>2. QED
    BY <1>4, <1>5, <2>1 DEF GetAtOnce, FreeQueues
<1>6. ASSUME NEW t \in Threads, NEW k \in Keys, GetPublish(t, k)
      PROVE  RingStep(r)
  <2>1. First(FreeQueues) \in Slots
    BY <1>6, FreeQueuesAreSlots, FirstIsIn DEF GetPublish
  <2>2. QED
    BY <1>3, <1>6, <2>1 DEF GetPublish
<1>7. ASSUME NEW t \in Threads, GetFill(t)
      PROVE  RingStep(r)
  <2>1. loc[t].slot \in Slots /\ SMP
    BY <1>1, <1>7 DEF GetFill, FillsAlone, TableDataOK
  <2>2. QED
    BY <1>4, <1>7, <2>1 DEF GetFill
<1>8. ASSUME NEW t \in Threads, NEW s \in Slots, RelDone(t, s)
      PROVE  RingStep(r)
  BY <1>3, <1>8 DEF RelDone
<1>9. QED
  BY <1>2, <1>5, <1>6, <1>7, <1>8
  DEF TableNext, SmpNext, TableCall, ShortCall, TableStep, ipc_msgque_ftok,
      GetRefused, ScanStart, ScanSlot, ScanKey, ScanFound, ScanNext, RelUnregistered,
      RelNoToken

(* A receiver takes a message from one ring.                               *)
LEMMA RcvStepsRings ==
  ASSUME TableInv, RcvTyped, NEW t \in Threads, RcvDequeue(t), NEW r \in Slots
  PROVE  RingStep(r)
<1> DEFINE s == loc[t].slot
<1>1. TableDataOK /\ RingsAgree /\ Located /\ s \in Slots
  BY DEF TableInv, TableDataOK
<1>2. /\ msgQueTbl' = [msgQueTbl EXCEPT ![s] = Dequeued(msgQueTbl[s])]
      /\ ~ipc_msgque_isempty(msgQueTbl[s]) /\ pc[t] = "deq"
  BY DEF RcvDequeue, q
<1>3. Delivers(t, s, Front(msgQueTbl[s]))
  BY <1>1 DEF RcvDequeue, Delivers, Return, Located, TableDataOK, RcvTyped, q
<1> HIDE DEF s
<1>4. CASE r = s
  <2>1. msgQueTbl'[r] = Dequeued(msgQueTbl[r])
    BY <1>1, <1>2, <1>4 DEF TableDataOK
  <2>2. Removed(msgQueTbl'[r], msgQueTbl[r])
    BY <1>1, <1>2, <1>4, <2>1, SlotTypes, DequeuedQueue DEF RingsAgree
  <2>3. QED
    BY <1>2, <1>3, <1>4, <2>2 DEF RingStep, Takes
<1>5. CASE r # s
  BY <1>1, <1>2, <1>5 DEF TableDataOK, RingStep, SameRing
<1>6. QED
  BY <1>4, <1>5

(* The handler stores a message in one ring.                               *)
LEMMA PostStepsRings ==
  ASSUME TableInv, NEW s \in Slots, NEW m \in Msgs,
         ~ipc_msgque_isfull(msgQueTbl[s]), Wake(s),
         msgQueTbl' = [msgQueTbl EXCEPT ![s] = Enqueued(msgQueTbl[s], m)],
         IF SMP THEN irq.at = "enqueue" /\ lock = Free ELSE msgQueTbl[s].initkey,
         NEW r \in Slots
  PROVE  RingStep(r)
<1>1. TableDataOK /\ RingsAgree
  BY DEF TableInv
<1>2. CASE r = s
  <2>1. msgQueTbl'[r] = Enqueued(msgQueTbl[r], m)
    BY <1>1, <1>2 DEF TableDataOK
  <2>2. Stored(msgQueTbl'[r], msgQueTbl[r], m)
    BY <1>1, <1>2, <2>1, SlotTypes, EnqueuedQueue DEF RingsAgree, Element
  <2>3. QED
    BY <1>2, <2>2 DEF RingStep, Stores
<1>3. CASE r # s
  BY <1>1, <1>3 DEF TableDataOK, RingStep, SameRing
<1>4. QED
  BY <1>2, <1>3

(* Every step does one thing to each ring.                                 *)
LEMMA StepsRings ==
  ASSUME RcvInv, [ReceiveNext]_receiveVars, NEW r \in Slots
  PROVE  RingStep(r)
<1>1. TableInv /\ TableDataOK /\ IrqTyped /\ RcvTyped
  BY DEF RcvInv, TableInv
<1>2. CASE TableNext \/ SmpNext
  BY <1>1, <1>2, GetStepsRings
<1>3. CASE UNCHANGED msgQueTbl
  BY <1>3 DEF RingStep, SameRing
<1>4. ASSUME NEW k \in Keys, NEW m \in Msgs, HandlerPosts(k, m)
      PROVE  RingStep(r)
  <2>1. First(QueuesWithKey(k)) \in Slots /\ First(QueuesWithKey(k)) \in QueuesWithKey(k)
    BY <1>4, FirstIsIn DEF HandlerPosts, QueuesWithKey
  <2>2. msgQueTbl[First(QueuesWithKey(k))].initkey
    BY <2>1 DEF QueuesWithKey, ipc_msgque_isvalid
  <2>3. QED
    BY <1>1, <1>4, <2>1, <2>2, PostStepsRings DEF HandlerPosts
<1>5. CASE IrqEnqueue /\ ~UNCHANGED msgQueTbl
  <2>1. SMP /\ irq.at = "enqueue" /\ lock = Free /\ irq.slot \in Slots /\ irq.msg \in Msgs
    BY <1>1, <1>5 DEF IrqEnqueue, IrqTyped, IrqRec, receiveVars, tableVars, RcvInv,
                      UpHasNoLock
  <2>2. ~ipc_msgque_isfull(msgQueTbl[irq.slot])
    BY <1>1, <1>5, <2>1 DEF IrqEnqueue, TableDataOK
  <2>3. QED
    BY <1>1, <1>5, <2>1, <2>2, PostStepsRings DEF IrqEnqueue
<1>6. QED
  BY <1>1, <1>2, <1>3, <1>4, <1>5, RcvStepsRings
  DEF ReceiveNext, HandlerDrops, IrqLookup, IrqStep, IrqScan, IrqKey, IrqFound,
      IrqNext, IrqRefused, IrqLocks, RcvRefused, RcvCall, Signal, Timeout,
      ThreadStep, RcvTest, RcvPrep, RcvWoken, RcvRecheck, RcvDequeueEmpty,
      receiveVars, tableVars

-----------------------------------------------------------------------------
(***************************************************************************)
(* Sleepers and accepted messages.                                         *)
(***************************************************************************)

(* What a sleeper without a timeout saw before schedule() stays true,      *)
(* whoever releases or takes the queue: every enqueue wakes it.            *)
SleepersSeeNone ==
  \A t \in Threads :
    pc[t] = "asleep" /\ ~rcv[t].tmo => q(t).count \notin 2 .. ELEMENT_NUM

(* Several processors: ipc_msgque_msgpost waits in enqueue for the lock it *)
(* holds, and no ring ever has a message.                                  *)
SmpTakesNothing ==
  SMP => /\ irq.at = "enqueue" => lock = IRQ
         /\ \A s \in Slots : msgQueTbl[s].count \notin 1 .. ELEMENT_NUM

(* A ring that isempty calls empty has at most one message.                *)
LEMMA EmptyHasNoBacklog ==
  ASSUME NEW e \in Queue, FieldsAgree(e), ipc_msgque_isempty(e)
  PROVE  e.count \notin 2 .. ELEMENT_NUM
<1>1. e.indx \in Index /\ e.outdx \in Index /\ e.count \in UINT32
  BY DEF Queue
<1>2. QED
  BY <1>1, RingAssumption
  DEF FieldsAgree, Agree, InRange, ipc_msgque_isempty, Index, UINT32

(* A dequeue from a ring that had less than n messages leaves less than n. *)
LEMMA DequeueNoBacklog ==
  ASSUME NEW e \in Queue, NEW f, FieldsAgree(e), ~ipc_msgque_isempty(e), Removed(f,
         e), NEW n \in {1, 2}, e.count \notin n .. ELEMENT_NUM
  PROVE  f.count \notin n .. ELEMENT_NUM
<1>1. /\ e.indx \in Index /\ e.outdx \in Index /\ e.count \in UINT32
      /\ Agree(e.indx, e.outdx, e.count) /\ InRange(e.count) /\ e.indx # e.outdx
  BY DEF Queue, FieldsAgree, ipc_msgque_isempty
<1> DEFINE c == (e.count + UINT32_MOD - 1) % UINT32_MOD
<1>2. e.count > ELEMENT_NUM => c > ELEMENT_NUM
  BY <1>1, DequeueAgrees
<1>3. c = IF e.count = 0 THEN UINT32_MOD - 1 ELSE e.count - 1
  BY <1>1, CountDown
<1>4. f.count = c
  BY DEF Removed
<1> HIDE DEF c
<1>5. ELEMENT_NUM > 1
  BY <1>1, RingAssumption DEF Index
<1>6. QED
  BY <1>1, <1>2, <1>3, <1>4, <1>5, RingAssumption DEF UINT32

(* A step that does not store leaves less than n messages where it found   *)
(* less than n.                                                            *)
LEMMA CountStays ==
  ASSUME RcvInv, NEW s \in Slots, RingStep(s), ~Stores(s),
         NEW n \in {1, 2}, msgQueTbl[s].count \notin n .. ELEMENT_NUM
  PROVE  msgQueTbl'[s].count \notin n .. ELEMENT_NUM
<1>1. msgQueTbl[s] \in Queue /\ FieldsAgree(msgQueTbl[s])
  BY SlotTypes DEF RcvInv, TableInv, RingsAgree
<1>2. CASE Takes(s)
  BY <1>1, <1>2, DequeueNoBacklog DEF Takes
<1>3. CASE Resets(s)
  BY <1>3, RingAssumption DEF Resets
<1>4. QED
  BY <1>2, <1>3 DEF RingStep, SameRing

(* Who is asleep after a step was asleep, for the same queue, or has just  *)
(* found it empty.                                                         *)
LEMMA AsleepBefore ==
  ASSUME RcvInv, [ReceiveNext]_receiveVars, NEW t \in Threads, pc'[t] = "asleep"
  PROVE  \/ pc[t] = "asleep" /\ loc'[t] = loc[t] /\ rcv'[t] = rcv[t]
         \/ RcvPrep(t) /\ ~WaitCondition(t)
<1>1. Located /\ loc \in [Threads -> [slot : Slots, key : Keys \cup {NoKey}]]
      /\ rcv \in [Threads -> RcvRec]
  BY DEF RcvInv, TableInv, TableDataOK, RcvTyped
<1>2. CASE UNCHANGED <<pc, loc, rcv>>
  BY <1>2
<1>3. CASE (\E s : Wake(s)) /\ UNCHANGED <<loc, rcv>>
  BY <1>1, <1>3 DEF Located, Wake
<1>4. ASSUME NEW u \in Threads, NEW v, Return(u, v),
             rcv' = rcv \/ rcv' = [rcv EXCEPT ![u] = NoRcv]
      PROVE  pc[t] = "asleep" /\ loc'[t] = loc[t] /\ rcv'[t] = rcv[t]
  BY <1>1, <1>4 DEF Located, Return
<1>5. ASSUME NEW u \in Threads, NEW label, Goto(u, label), label # "asleep",
             \A w \in Threads \ {u} : loc'[w] = loc[w] /\ rcv'[w] = rcv[w]
      PROVE  pc[t] = "asleep" /\ loc'[t] = loc[t] /\ rcv'[t] = rcv[t]
  BY <1>1, <1>5 DEF Located, Goto
<1>6. CASE (TableNext \/ SmpNext) /\ UNCHANGED <<rcv, intr, irq, out>>
  <2>1. ASSUME NEW u \in Threads, NEW k, ScanStart(u, k)
        PROVE  pc[t] = "asleep" /\ loc'[t] = loc[t] /\ rcv'[t] = rcv[t]
    BY <1>1, <1>6, <2>1 DEF ScanStart, Located
  <2>2. ASSUME NEW u \in Threads, NEW k, GetPublish(u, k)
        PROVE  pc[t] = "asleep" /\ loc'[t] = loc[t] /\ rcv'[t] = rcv[t]
    BY <1>1, <1>6, <2>2 DEF GetPublish, Located
  <2>3. ASSUME NEW u \in Threads, TableStep(u)
        PROVE  pc[t] = "asleep" /\ loc'[t] = loc[t] /\ rcv'[t] = rcv[t]
    <3>1. CASE \E v : Return(u, v)
      BY <1>4, <1>6, <3>1
    <3>2. CASE /\ \E label \in InLookup : pc' = [pc EXCEPT ![u] = label]
               /\ \A w \in Threads \ {u} : loc'[w] = loc[w]
               /\ pc[u] \in InLookup
      BY <1>1, <1>6, <3>2 DEF Located, InLookup
    <3>3. QED
      BY <1>1, <2>3, <3>1, <3>2
      DEF TableStep, ScanSlot, ScanKey, ScanFound, ScanNext, InLookup
  <2>4. CASE \E u \in Threads : \E v : Return(u, v)
    BY <1>4, <1>6, <2>4
  <2>5. QED
    BY <1>6, <2>1, <2>2, <2>3, <2>4
    DEF TableNext, SmpNext, TableCall, ShortCall, ipc_msgque_ftok, GetRefused,
        GetAtOnce, GetFill, RelUnregistered, RelDone, RelNoToken
<1>7. ASSUME NEW u \in Threads, NEW id, NEW tmo, NEW size, RcvCall(u, id, tmo, size)
      PROVE  pc[t] = "asleep" /\ loc'[t] = loc[t] /\ rcv'[t] = rcv[t]
  BY <1>1, <1>5, <1>7 DEF RcvCall
<1>8. ASSUME NEW u \in Threads, Timeout(u)
      PROVE  pc[t] = "asleep" /\ loc'[t] = loc[t] /\ rcv'[t] = rcv[t]
  BY <1>1, <1>5, <1>8 DEF Timeout
<1>9. ASSUME NEW u \in Threads, RcvPrep(u)
      PROVE  \/ pc[t] = "asleep" /\ loc'[t] = loc[t] /\ rcv'[t] = rcv[t]
             \/ RcvPrep(t) /\ ~WaitCondition(t)
  BY <1>1, <1>9 DEF RcvPrep, Goto, Located
<1>10. ASSUME NEW u \in Threads,
              \/ \E id \in MsqIds : RcvRefused(u, id)
              \/ Signal(u) \/ RcvTest(u) \/ RcvWoken(u) \/ RcvRecheck(u)
              \/ RcvDequeueEmpty(u) \/ RcvDequeue(u)
       PROVE  pc[t] = "asleep" /\ loc'[t] = loc[t] /\ rcv'[t] = rcv[t]
  <2>1. CASE (\E v : Return(u, v)) /\ (rcv' = rcv \/ rcv' = [rcv EXCEPT ![u] = NoRcv])
    BY <1>4, <2>1
  <2>2. CASE \E label : Goto(u, label) /\ label # "asleep" /\ UNCHANGED <<loc, rcv>>
    BY <1>5, <2>2
  <2>3. QED
    BY <1>10, <2>1, <2>2
    DEF RcvRefused, Signal, RcvTest, RcvWoken, RcvRecheck, RcvDequeueEmpty, RcvDequeue
<1>11. QED
  BY <1>2, <1>3, <1>6, <1>7, <1>8, <1>9, <1>10
  DEF ReceiveNext, HandlerDrops, HandlerPosts, IrqLookup, IrqStep, IrqScan, IrqKey,
      IrqFound, IrqNext, IrqRefused, IrqLocks, IrqEnqueue, ThreadStep, receiveVars,
      tableVars

(* Sleeping without a timeout over two or more messages stays out.         *)
LEMMA SleepersStay ==
  ASSUME RcvInv, SleepersSeeNone, [ReceiveNext]_receiveVars
  PROVE  SleepersSeeNone'
<1> SUFFICES ASSUME NEW t \in Threads, pc'[t] = "asleep", ~rcv'[t].tmo
             PROVE  q(t)'.count \notin 2 .. ELEMENT_NUM
  BY DEF SleepersSeeNone
<1> DEFINE s == loc[t].slot
<1>1. Located /\ TableDataOK /\ RingsAgree /\ s \in Slots
  BY DEF RcvInv, TableInv, TableDataOK
<1>2. CASE RcvPrep(t) /\ ~WaitCondition(t)
  <2>1. ipc_msgque_isempty(q(t)) /\ q(t)' = q(t)
    BY <1>2 DEF WaitCondition, RcvPrep, q
  <2>2. msgQueTbl[s].count \notin 2 .. ELEMENT_NUM
    BY <1>1, <2>1, SlotTypes, EmptyHasNoBacklog DEF RingsAgree, q
  <2>3. QED
    BY <2>1, <2>2 DEF q
<1>3. CASE pc[t] = "asleep" /\ loc'[t] = loc[t] /\ rcv'[t] = rcv[t]
  <2>1. ~Stores(s)
    <3> SUFFICES ASSUME Wake(s) PROVE FALSE
      BY DEF Stores
    <3>1. pc'[t] = "prep"
      BY <1>3 DEF Wake
    <3>2. QED
      BY <3>1
  <2>2. msgQueTbl[s].count \notin 2 .. ELEMENT_NUM
    BY <1>3 DEF SleepersSeeNone, q
  <2>3. RingStep(s)
    BY <1>1, StepsRings
  <2> HIDE DEF s
  <2>4. msgQueTbl'[s].count \notin 2 .. ELEMENT_NUM
    BY <1>1, <2>1, <2>2, <2>3, CountStays
  <2>5. QED
    BY <1>3, <2>4 DEF q, s
<1>4. QED
  BY <1>2, <1>3, AsleepBefore

(* Whoever has the lock on several processors keeps it from the handler.   *)
LEMMA SmpStaysEmpty ==
  ASSUME RcvInv, SmpTakesNothing, [ReceiveNext]_receiveVars
  PROVE  SmpTakesNothing'
<1> SUFFICES ASSUME SMP
             PROVE  /\ irq'.at = "enqueue" => lock' = IRQ
                    /\ \A s \in Slots : msgQueTbl'[s].count \notin 1 .. ELEMENT_NUM
  BY DEF SmpTakesNothing
<1>1. IrqTyped /\ FillsAlone /\ IRQ \notin Threads /\ IRQ # Free
  BY NamesAssumption DEF RcvInv, TableInv, Registry, IRQ, Free
<1>2. \A s \in Slots : msgQueTbl'[s].count \notin 1 .. ELEMENT_NUM
  <2> SUFFICES ASSUME NEW s \in Slots PROVE msgQueTbl'[s].count \notin 1 .. ELEMENT_NUM
    OBVIOUS
  <2>1. RingStep(s) /\ ~Stores(s)
    BY <1>1, StepsRings DEF Stores, SmpTakesNothing
  <2>2. QED
    BY <2>1, CountStays DEF SmpTakesNothing
<1>3. irq'.at = "enqueue" => lock' = IRQ
  <2>1. CASE IrqLocks
    BY <2>1 DEF IrqLocks
  <2>2. CASE irq'.at # "enqueue"
    BY <2>2
  <2>3. CASE UNCHANGED irq /\ (lock = IRQ => lock' = lock)
    BY <2>3 DEF SmpTakesNothing
  <2>4. \A k \in Keys, m \in Msgs : IrqLookup(k, m) => irq'.at # "enqueue"
    BY DEF IrqLookup
  <2>5. IrqRefused \/ IrqEnqueue => UNCHANGED <<irq, lock>> \/ irq'.at # "enqueue"
    BY DEF IrqRefused, IrqEnqueue, NoIrq, receiveVars, tableVars
  <2>6. (TableNext \/ SmpNext) /\ UNCHANGED <<rcv, intr, irq, out>>
          => UNCHANGED irq /\ (lock = IRQ => lock' = lock)
    BY <1>1
    DEF TableNext, SmpNext, TableCall, ShortCall, TableStep, ipc_msgque_ftok,
        GetRefused, GetAtOnce, GetPublish, GetFill, ScanStart, ScanSlot, ScanKey,
        ScanFound, ScanNext, RelUnregistered, RelDone, RelNoToken, FillsAlone
  <2>7. IrqScan \/ IrqKey \/ IrqFound => irq'.at # "enqueue"
    <3>1. irq \in IrqRec
      BY <1>1 DEF IrqTyped
    <3>2. IrqNext => irq'.at \in {"idle", "scan"}
      BY <3>1 DEF IrqNext, NoIrq, IrqRec
    <3>3. QED
      BY <3>1, <3>2 DEF IrqScan, IrqKey, IrqFound, IrqRec
  <2>8. QED
    BY <1>1, <2>1, <2>2, <2>3, <2>4, <2>5, <2>6, <2>7
    DEF ReceiveNext, HandlerDrops, HandlerPosts, IrqStep, RcvRefused, RcvCall,
        Signal, Timeout, ThreadStep, RcvTest, RcvPrep, RcvWoken, RcvRecheck,
        RcvDequeueEmpty, RcvDequeue, receiveVars, tableVars
<1>4. QED
  BY <1>2, <1>3

(* No lost wakeup: a receiver without a timeout is never asleep over two   *)
(* or more messages of its queue, in either build, however the receives,   *)
(* wakeups, releases and registrations of other threads fall between the   *)
(* look at the queue and schedule().                                       *)
THEOREM NoLostWakeup == ReceiveSpec => []SleeperHasNoBacklog
<1>1. ReceiveInit => SleepersSeeNone
  BY DEF ReceiveInit, TableInit, SleepersSeeNone
<1>2. RcvInv /\ SleepersSeeNone /\ [ReceiveNext]_receiveVars => SleepersSeeNone'
  BY SleepersStay
<1>3. SleepersSeeNone => SleeperHasNoBacklog
  BY DEF SleepersSeeNone, SleeperHasNoBacklog
<1>4. QED
  BY <1>1, <1>2, <1>3, ReceiveInvariant, PTL DEF ReceiveSpec

(* On several processors the handler never gets a message into a ring: it  *)
(* waits for the lock that ipc_msgque_msgpost holds around the enqueue.    *)
LEMMA SmpInvariant == ReceiveSpec => [](RcvInv /\ SmpTakesNothing)
<1>1. ReceiveInit => SmpTakesNothing
  BY DEF ReceiveInit, TableInit, SmpTakesNothing, NoIrq
<1>2. RcvInv /\ SmpTakesNothing /\ [ReceiveNext]_receiveVars => SmpTakesNothing'
  BY SmpStaysEmpty
<1>3. QED
  BY <1>1, <1>2, ReceiveInvariant, PTL DEF ReceiveSpec

(* A message accepted for a queue stays in its place until a receive takes *)
(* it, whatever ipc_msgque_get, rel, the handler and the receives of this  *)
(* and of other queues do; only a new registration of the slot drops it.   *)
THEOREM AcceptedMessagesStay == ReceiveSpec => AcceptedStays
<1> DEFINE Stays ==
      \A s \in Slots :
        ~(~msgQueTbl[s].initkey /\ msgQueTbl'[s].initkey) =>
          \A i \in LiveSlots(msgQueTbl[s]) :
            \/ /\ msgQueTbl'[s].element[i] = msgQueTbl[s].element[i]
               /\ i \in LiveSlots(msgQueTbl'[s])
            \/ /\ i = msgQueTbl[s].outdx
               /\ \E t \in Threads :
                    pc[t] = "deq" /\ loc[t].slot = s /\ pc'[t] = "idle"
<1>1. RcvInv /\ SmpTakesNothing /\ [ReceiveNext]_receiveVars => [Stays]_receiveVars
  <2> SUFFICES ASSUME RcvInv, SmpTakesNothing, [ReceiveNext]_receiveVars,
                      NEW s \in Slots,
                      ~(~msgQueTbl[s].initkey /\ msgQueTbl'[s].initkey),
                      NEW i \in LiveSlots(msgQueTbl[s])
               PROVE  \/ /\ msgQueTbl'[s].element[i] = msgQueTbl[s].element[i]
                         /\ i \in LiveSlots(msgQueTbl'[s])
                      \/ /\ i = msgQueTbl[s].outdx
                         /\ \E t \in Threads :
                              pc[t] = "deq" /\ loc[t].slot = s /\ pc'[t] = "idle"
    OBVIOUS
  <2>1. /\ msgQueTbl[s] \in Queue
        /\ InTurn(msgQueTbl[s])
        /\ msgQueTbl[s].element \in [Index -> Element]
        /\ msgQueTbl[s].count \in UINT32
    BY SlotTypes DEF RcvInv, TableInv, RingsAgree, InTurn
  <2>2. CASE SameRing(msgQueTbl'[s], msgQueTbl[s])
    BY <2>2 DEF SameRing, LiveSlots, Wrapped
  <2>3. CASE Resets(s)
    <3>1. SMP
      BY <2>3 DEF Resets
    <3>2. msgQueTbl[s].count \notin 1 .. ELEMENT_NUM
      BY <3>1 DEF SmpTakesNothing
    <3>3. LiveSlots(msgQueTbl[s]) = {}
      BY <2>1, <3>2, RingAssumption DEF LiveSlots, Wrapped, UINT32
    <3>4. QED
      BY <3>3
  <2>4. CASE Stores(s)
    BY <2>1, <2>4, EnqueueKeepsLive DEF Stores
  <2>5. CASE Takes(s)
    BY <2>1, <2>5, DequeueKeepsLive DEF Takes, Delivers, Removed
  <2>6. QED
    BY <2>2, <2>3, <2>4, <2>5, StepsRings DEF RingStep
<1>2. QED
  BY <1>1, SmpInvariant, PTL DEF ReceiveSpec, AcceptedStays

-----------------------------------------------------------------------------
(***************************************************************************)
(* Every ring of the table is a first-in, first-out queue.                 *)
(***************************************************************************)

(* What a step may do to the messages of slot s, in order:                 *)
(* nothing;                                                                *)
UnchangedQueue(s) ==
  /\ Contents(msgQueTbl'[s]) = Contents(msgQueTbl[s])
  /\ Wrapped(msgQueTbl'[s]) <=> Wrapped(msgQueTbl[s])

(* a registration empties it, and never loses a message of a queue;        *)
OpenedQueue(s) ==
  /\ msgQueTbl'[s].initkey
  /\ msgQueTbl[s].initkey => Contents(msgQueTbl[s]) = << >>
  /\ Contents(msgQueTbl'[s]) = << >>
  /\ ~Wrapped(msgQueTbl'[s])

(* the handler of the one processor appends to a registered queue;         *)
AppendedQueue(s) ==
  /\ ~SMP
  /\ msgQueTbl[s].initkey
  /\ ~Wrapped(msgQueTbl[s]) /\ ~Wrapped(msgQueTbl'[s])
  /\ Len(Contents(msgQueTbl[s])) < ELEMENT_NUM
  /\ \E m \in Msgs : Contents(msgQueTbl'[s]) = Append(Contents(msgQueTbl[s]), m)

(* a receive takes the oldest message;                                     *)
TakenQueue(s) ==
  /\ Contents(msgQueTbl[s]) # << >>
  /\ Contents(msgQueTbl'[s]) = Tail(Contents(msgQueTbl[s]))
  /\ ~Wrapped(msgQueTbl'[s])
  /\ \E t \in Threads : Delivers(t, s, Head(Contents(msgQueTbl[s])))

(* a receive finds no message, and returns what the ring held before: the  *)
(* count is below zero from then on.                                       *)
PhantomQueue(s) ==
  /\ Contents(msgQueTbl[s]) = << >>
  /\ Contents(msgQueTbl'[s]) = << >>
  /\ Wrapped(msgQueTbl'[s])
  /\ \E t \in Threads, m \in Element : Delivers(t, s, m)

QueueStep(s) ==
  \/ UnchangedQueue(s)
  \/ OpenedQueue(s)
  \/ AppendedQueue(s)
  \/ TakenQueue(s)
  \/ PhantomQueue(s)

(* A ring whose fields are copied is the same queue.                       *)
LEMMA SameRingSameQueue ==
  ASSUME NEW s \in Slots, SameRing(msgQueTbl'[s], msgQueTbl[s])
  PROVE  UnchangedQueue(s)
  BY DEF SameRing, UnchangedQueue, Contents, Wrapped

(* What the step of a ring does to its messages.                           *)
LEMMA RingStepIsQueueStep ==
  ASSUME RcvInv, RcvInv', SmpTakesNothing, NEW s \in Slots, RingStep(s)
  PROVE  QueueStep(s)
<1>1. /\ msgQueTbl[s] \in Queue
      /\ InTurn(msgQueTbl[s])
      /\ msgQueTbl[s].element \in [Index -> Element]
  BY SlotTypes DEF RcvInv, TableInv, RingsAgree, InTurn
<1>2. /\ InTurn(msgQueTbl'[s])
      /\ msgQueTbl'[s].element \in [Index -> Element]
  <2>1. TableDataOK' /\ RingsAgree'
    BY DEF RcvInv, TableInv
  <2>2. msgQueTbl'[s] \in Queue /\ FieldsAgree(msgQueTbl'[s])
    BY <2>1 DEF TableDataOK, RingsAgree
  <2>3. QED
    BY <2>2 DEF Queue, InTurn
<1>3. CASE SameRing(msgQueTbl'[s], msgQueTbl[s])
  BY <1>3, SameRingSameQueue DEF QueueStep
<1>4. CASE Resets(s)
  <2>1. ~Wrapped(msgQueTbl'[s]) /\ msgQueTbl'[s].count = 0
    BY <1>4, RingAssumption DEF Resets, Wrapped
  <2>2. Contents(msgQueTbl'[s]) = << >>
    BY <1>2, <2>1, ContentsOf, EmptySeq
  <2>3. msgQueTbl[s].initkey => Contents(msgQueTbl[s]) = << >>
    <3> SUFFICES ASSUME SMP PROVE Contents(msgQueTbl[s]) = << >>
      BY <1>4 DEF Resets
    <3>1. Wrapped(msgQueTbl[s]) \/ msgQueTbl[s].count = 0
      BY <1>1, RingAssumption DEF SmpTakesNothing, Wrapped, InTurn, UINT32
    <3>2. QED
      BY <1>1, <3>1, ContentsOf, EmptySeq
  <2>4. QED
    BY <1>4, <2>1, <2>2, <2>3 DEF QueueStep, OpenedQueue, Resets
<1>5. CASE Stores(s)
  <2>1. ~SMP /\ msgQueTbl[s].initkey
    BY <1>5, NamesAssumption DEF Stores, SmpTakesNothing, IRQ, Free
  <2>2. PICK m \in Msgs : Stored(msgQueTbl'[s], msgQueTbl[s], m)
    BY <1>5 DEF Stores
  <2>3. /\ ~Wrapped(msgQueTbl[s]) /\ ~Wrapped(msgQueTbl'[s])
        /\ Len(Contents(msgQueTbl[s])) < ELEMENT_NUM
        /\ Contents(msgQueTbl'[s]) = Append(Contents(msgQueTbl[s]), m)
    <3>1. m \in Element /\ ~ipc_msgque_isfull(msgQueTbl[s])
      BY <1>5 DEF Stores, Element
    <3>2. QED
      BY <1>1, <1>2, <2>2, <3>1, EnqueueAppends
  <2>4. QED
    BY <2>1, <2>3 DEF QueueStep, AppendedQueue
<1>6. CASE Takes(s)
  <2>1. PICK t \in Threads : Delivers(t, s, Front(msgQueTbl[s]))
    BY <1>6 DEF Takes
  <2>2. Removed(msgQueTbl'[s], msgQueTbl[s]) /\ ~ipc_msgque_isempty(msgQueTbl[s])
    BY <1>6 DEF Takes
  <2>3. CASE ~Wrapped(msgQueTbl[s]) /\ msgQueTbl[s].count # 0
    <3>1. /\ ~Wrapped(msgQueTbl'[s])
          /\ Contents(msgQueTbl[s]) # << >>
          /\ Front(msgQueTbl[s]) = Head(Contents(msgQueTbl[s]))
          /\ Contents(msgQueTbl'[s]) = Tail(Contents(msgQueTbl[s]))
      BY <1>1, <1>2, <2>2, <2>3, DequeueTakes
    <3>2. QED
      BY <2>1, <3>1 DEF QueueStep, TakenQueue
  <2>4. CASE Wrapped(msgQueTbl[s]) \/ msgQueTbl[s].count = 0
    <3>1. /\ Contents(msgQueTbl[s]) = << >>
          /\ Contents(msgQueTbl'[s]) = << >>
          /\ Wrapped(msgQueTbl'[s])
      BY <1>1, <2>2, <2>4, DequeueWedges
    <3>2. Front(msgQueTbl[s]) \in Element
      BY <1>1 DEF Front, Queue
    <3>3. QED
      BY <2>1, <3>1, <3>2 DEF QueueStep, PhantomQueue
  <2>5. QED
    BY <2>3, <2>4
<1>7. QED
  BY <1>3, <1>4, <1>5, <1>6 DEF RingStep

(* Whatever threads and the handler do, in either build, the messages of   *)
(* each queue of the table leave it in the order in which the handler      *)
(* accepted them, each once, to a caller of ipc_msgrcv on that queue, or   *)
(* are dropped because they are too long for it; get takes none from a     *)
(* registered queue, rel and the operations on other queues take none at   *)
(* all.  The one exception is the phantom: a receive that finds no message *)
(* returns an old element.                                                 *)
THEOREM EachRingIsAQueue == ReceiveSpec => [][\A s \in Slots : QueueStep(s)]_receiveVars
<1>1. RcvInv /\ RcvInv' /\ SmpTakesNothing /\ [ReceiveNext]_receiveVars
        => [\A s \in Slots : QueueStep(s)]_receiveVars
  BY StepsRings, RingStepIsQueueStep
<1>2. QED
  BY <1>1, SmpInvariant, PTL DEF ReceiveSpec

=============================================================================
