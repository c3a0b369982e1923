----------------------------- MODULE IpcReceive -----------------------------
(***************************************************************************)
(* The receive path: ipc_msg_rcv of drv_ipc_api.c, run by threads that     *)
(* sleep until a message arrives, against ipc_core_handle_func and         *)
(* ipc_msgque_msgpost, run by the interrupt another core raises, over the  *)
(* queue table of IpcMsgque, which other threads change meanwhile.         *)
(*                                                                         *)
(* ipc_msg_rcv takes no lock until it dequeues, so each look at the queue  *)
(* is a step of its own.  A message is a sequence of words; its length     *)
(* stands for its size.  pc is, in the order of the code:                  *)
(*   "test"     the condition of the while loop                            *)
(*   "prep"     in wait_event: queued as a waiter, about to look           *)
(*   "asleep"   in wait_event: schedule()                                  *)
(*   "woken"    wait_event has returned                                    *)
(*   "recheck"  the queue is still the one asked for                       *)
(*   "deq"      the loop is over                                           *)
(***************************************************************************)
EXTENDS IpcMsgque

CONSTANTS
  Sizes        \* values of msg_size callers pass

ASSUME ReceiveAssumption == Sizes \subseteq Nat

VARIABLES
  rcv,     \* per thread: timeout_ms given, timed out, and msg_size
  intr,    \* m_ctrl->readwait_interruptible
  irq,     \* the interrupt handler (SMP: where it is between two locks)
  out      \* what the last successful receive of a thread wrote to msg_data

receiveVars == <<tableVars, rcv, intr, irq, out>>

InReceive == {"test", "prep", "asleep", "woken", "recheck", "deq"}

IrqPlaces == {"idle", "post", "enqueue"} \cup InLookup

NoRcv == [tmo |-> FALSE, expired |-> FALSE, size |-> 0]

NoIrq == [at |-> "idle", slot |-> 0, key |-> NoKey, msg |-> << >>]

(* m_ctrl is zeroed.                                                       *)
ReceiveInit ==
  /\ TableInit
  /\ rcv = [t \in Threads |-> NoRcv]
  /\ intr = [s \in Slots |-> FALSE]
  /\ irq = NoIrq
  /\ out = [t \in Threads |-> << >>]

q(t) == msgQueTbl[loc[t].slot]      \* pmsgque of a call of thread t

IsValid(t) == ipc_msgque_isvalid(loc[t].slot, loc[t].key)

(* The condition ipc_msg_rcv gives to wait_event.                          *)
WaitCondition(t) == ~ipc_msgque_isempty(q(t)) \/ ~IsValid(t)

Goto(t, label) == pc' = [pc EXCEPT ![t] = label]

-----------------------------------------------------------------------------
(***************************************************************************)
(* The interrupt of another core.                                          *)
(***************************************************************************)

(* wake_up_interruptible leaves alone those who sleep in                   *)
(* wait_event_timeout; who is woken looks at the condition again.          *)
Wake(s) ==
  pc' = [t \in Threads |->
           IF pc[t] = "asleep" /\ loc[t].slot = s /\ (intr[s] => ~rcv[t].tmo)
           THEN "prep" ELSE pc[t]]

(* Variant: the handler posts without asking whether the ring is full.     *)
HandlerPostsUnchecked(k, m) ==
  /\ ~SMP
  /\ QueuesWithKey(k) # {}
  /\ LET s == First(QueuesWithKey(k)) IN
       /\ msgQueTbl' = [msgQueTbl EXCEPT ![s] = Enqueued(@, m)]
       /\ Wake(s)
  /\ UNCHANGED <<names, lock, loc, ret, rcv, intr, irq, out>>

(* Variant: the handler posts and wakes nobody.                            *)
HandlerPostsSilently(k, m) ==
  /\ ~SMP
  /\ QueuesWithKey(k) # {}
  /\ LET s == First(QueuesWithKey(k)) IN
       /\ ~ipc_msgque_isfull(msgQueTbl[s])
       /\ msgQueTbl' = [msgQueTbl EXCEPT ![s] = Enqueued(@, m)]
  /\ UNCHANGED <<names, lock, pc, loc, ret, rcv, intr, irq, out>>

(* Uniprocessor: no thread runs between the steps of the handler.  The     *)
(* message is dropped when no queue has its key and when the queue is      *)
(* full.                                                                   *)
HandlerDrops(k) ==
  /\ ~SMP
  /\ \/ QueuesWithKey(k) = {}
     \/ /\ QueuesWithKey(k) # {}
        /\ ipc_msgque_isfull(msgQueTbl[First(QueuesWithKey(k))])
  /\ UNCHANGED receiveVars

HandlerPosts(k, m) ==
  /\ ~SMP
  /\ QueuesWithKey(k) # {}
  /\ LET s == First(QueuesWithKey(k)) IN
       /\ ~ipc_msgque_isfull(msgQueTbl[s])
       /\ msgQueTbl' = [msgQueTbl EXCEPT ![s] = Enqueued(@, m)]
       /\ Wake(s)
  /\ UNCHANGED <<names, lock, loc, ret, rcv, intr, irq, out>>

(* Multiprocessor: the handler calls ipc_msgque_getIDbyKey, which takes no *)
(* lock, and ipc_msgque_msgpost looks at the slot again with it.           *)
IrqLookup(k, m) ==
  /\ SMP
  /\ irq.at = "idle"
  /\ irq' = [at |-> "scan", slot |-> 0, key |-> k, msg |-> m]
  /\ UNCHANGED <<tableVars, rcv, intr, out>>

(* The loop goes on, or ends and the message is dropped.                   *)
IrqNext ==
  irq' = IF irq.slot + 1 = QUEUE_NUM THEN NoIrq
         ELSE [irq EXCEPT !.at = "scan", !.slot = @ + 1]

IrqScan ==
  /\ irq.at = "scan"
  /\ \/ msgQueTbl[irq.slot].initkey /\ irq' = [irq EXCEPT !.at = "key"]
     \/ ~msgQueTbl[irq.slot].initkey /\ IrqNext
  /\ UNCHANGED <<tableVars, rcv, intr, out>>

IrqKey ==
  /\ irq.at = "key"
  /\ \/ /\ msgQueTbl[irq.slot].sharekey = irq.key
        /\ irq' = [irq EXCEPT !.at = "found"]
     \/ /\ msgQueTbl[irq.slot].sharekey # irq.key
        /\ IrqNext
  /\ UNCHANGED <<tableVars, rcv, intr, out>>

IrqFound ==
  /\ irq.at = "found"
  /\ irq' = [irq EXCEPT !.at = "post", !.slot = msgQueTbl[irq.slot].msqid]
  /\ UNCHANGED <<tableVars, rcv, intr, out>>

IrqRefused ==
  /\ irq.at = "post"
  /\ lock = Free
  /\ ~IsRegistered(irq.slot)
  /\ irq' = NoIrq
  /\ UNCHANGED <<tableVars, rcv, intr, out>>

(* ipc_msgque_msgpost holds the lock when it calls ipc_msgque_enqueue,     *)
(* whose first statement waits for that lock.                              *)
IrqLocks ==
  /\ irq.at = "post"
  /\ lock = Free
  /\ IsRegistered(irq.slot)
  /\ lock' = IRQ
  /\ irq' = [irq EXCEPT !.at = "enqueue"]
  /\ UNCHANGED <<msgQueTbl, names, pc, loc, ret, rcv, intr, out>>

IrqEnqueue ==
  /\ irq.at = "enqueue"
  /\ IF lock # Free
     THEN UNCHANGED receiveVars                                 \* spins
     ELSE /\ msgQueTbl' = [msgQueTbl EXCEPT ![irq.slot] =
                             IF ipc_msgque_isfull(@) THEN @ ELSE Enqueued(@, irq.msg)]
          /\ Wake(irq.slot)
          /\ irq' = NoIrq
          /\ UNCHANGED <<names, lock, loc, ret, rcv, intr, out>>

-----------------------------------------------------------------------------
(***************************************************************************)
(* ipc_msg_rcv.                                                            *)
(***************************************************************************)
RcvRefused(t, id) ==
  /\ pc[t] = "idle"
  /\ ~IsRegistered(id)
  /\ Return(t, -14)                                             \* -EFAULT
  /\ UNCHANGED <<msgQueTbl, names, lock, rcv, intr, irq, out>>

RcvCall(t, id, tmo, size) ==
  /\ pc[t] = "idle"
  /\ IsRegistered(id)
  /\ loc' = [loc EXCEPT ![t] = [slot |-> id, key |-> msgQueTbl[id].sharekey]]
  /\ rcv' = [rcv EXCEPT ![t] = [tmo |-> tmo, expired |-> FALSE, size |-> size]]
  /\ Goto(t, "test")
  /\ UNCHANGED <<msgQueTbl, names, lock, ret, intr, irq, out>>

RcvTest(t) ==
  /\ pc[t] = "test"
  /\ \/ ipc_msgque_isempty(q(t)) /\ Goto(t, "prep")
     \/ ~ipc_msgque_isempty(q(t)) /\ Goto(t, "deq")
  /\ UNCHANGED <<msgQueTbl, names, lock, loc, ret, rcv, intr, irq, out>>

(* Variant: the waiter goes to sleep on what it saw in the while loop.     *)
RcvPrepBlind(t) ==
  /\ pc[t] = "prep"
  /\ Goto(t, "asleep")
  /\ UNCHANGED <<msgQueTbl, names, lock, loc, ret, rcv, intr, irq, out>>

(* A waiter puts itself on the list before it looks, and is woken if the   *)
(* condition changes between the look and schedule().                      *)
RcvPrep(t) ==
  /\ pc[t] = "prep"
  /\ \/ WaitCondition(t) /\ Goto(t, "woken")
     \/ ~WaitCondition(t) /\ Goto(t, "asleep")
  /\ UNCHANGED <<msgQueTbl, names, lock, loc, ret, rcv, intr, irq, out>>

Signal(t) ==
  /\ pc[t] = "asleep"
  /\ ~rcv[t].tmo
  /\ Goto(t, "woken")
  /\ UNCHANGED <<msgQueTbl, names, lock, loc, ret, rcv, intr, irq, out>>

(* Variant: a wait that timed out is begun again.                          *)
TimeoutRetries(t) ==
  /\ pc[t] = "asleep"
  /\ rcv[t].tmo
  /\ Goto(t, "prep")
  /\ UNCHANGED <<msgQueTbl, names, lock, loc, ret, rcv, intr, irq, out>>

(* The time left carries over from one wakeup to the next look at the      *)
(* condition; wait_event_timeout returns 0 only if that is false still.    *)
Timeout(t) ==
  /\ pc[t] \in {"prep", "asleep"}
  /\ rcv[t].tmo
  /\ rcv' = [rcv EXCEPT ![t].expired = ~WaitCondition(t)]
  /\ Goto(t, "woken")
  /\ UNCHANGED <<msgQueTbl, names, lock, loc, ret, intr, irq, out>>

(* The flag that tells the handler how this thread sleeps is stored after  *)
(* the sleep.                                                              *)
RcvWoken(t) ==
  /\ pc[t] = "woken"
  /\ intr' = [intr EXCEPT ![loc[t].slot] = ~rcv[t].tmo]
  /\ \/ IsValid(t) /\ Goto(t, "recheck") /\ UNCHANGED <<loc, ret, rcv>>
     \/ ~IsValid(t) /\ Return(t, -1) /\ rcv' = [rcv EXCEPT ![t] = NoRcv]
  /\ UNCHANGED <<msgQueTbl, names, lock, irq, out>>

RcvRecheck(t) ==
  /\ pc[t] = "recheck"
  /\ \/ /\ rcv[t].expired
        /\ Return(t, -2)
        /\ rcv' = [rcv EXCEPT ![t] = NoRcv]
     \/ /\ ~rcv[t].expired
        /\ ipc_msgque_isempty(q(t))
        /\ Return(t, -3)
        /\ rcv' = [rcv EXCEPT ![t] = NoRcv]
     \/ /\ ~rcv[t].expired
        /\ ~ipc_msgque_isempty(q(t))
        /\ Goto(t, "test")
        /\ UNCHANGED <<loc, ret, rcv>>
  /\ UNCHANGED <<msgQueTbl, names, lock, intr, irq, out>>

(* ipc_msgque_dequeue looks again, under the lock, but only whether there  *)
(* is something in the ring, not whose ring it is by now; it leaves        *)
(* without unlocking when there is nothing.                                *)
RcvDequeueEmpty(t) ==
  /\ pc[t] = "deq"
  /\ lock = Free
  /\ ipc_msgque_isempty(q(t))
  /\ LeakLock(t)
  /\ Return(t, -4)
  /\ rcv' = [rcv EXCEPT ![t] = NoRcv]
  /\ UNCHANGED <<msgQueTbl, names, intr, irq, out>>

(* Variant: the dequeue does not wait for the lock.                        *)
RcvDequeueUnlocked(t) ==
  /\ pc[t] = "deq"
  /\ ~ipc_msgque_isempty(q(t))
  /\ msgQueTbl' = [msgQueTbl EXCEPT ![loc[t].slot] = Dequeued(@)]
  /\ Return(t, Len(Front(q(t))))
  /\ out' = [out EXCEPT ![t] = SubSeq(Front(q(t)), 1, 1)]
  /\ rcv' = [rcv EXCEPT ![t] = NoRcv]
  /\ UNCHANGED <<names, lock, intr, irq>>

(* The element leaves the ring whether it fits or not.  If it does, the    *)
(* size of its size field, one word, is what memcpy moves.                 *)
RcvDequeue(t) ==
  /\ pc[t] = "deq"
  /\ lock = Free
  /\ ~ipc_msgque_isempty(q(t))
  /\ msgQueTbl' = [msgQueTbl EXCEPT ![loc[t].slot] = Dequeued(@)]
  /\ LET m == Front(q(t)) IN
       \/ /\ Len(m) > rcv[t].size
          /\ Return(t, -5)
          /\ UNCHANGED out
       \/ /\ Len(m) <= rcv[t].size
          /\ Return(t, Len(m))
          /\ out' = [out EXCEPT ![t] = SubSeq(m, 1, 1)]
  /\ rcv' = [rcv EXCEPT ![t] = NoRcv]
  /\ UNCHANGED <<names, lock, intr, irq>>

-----------------------------------------------------------------------------

(* What a call that was started does next.                                 *)
ThreadStep(t) ==
  \/ RcvTest(t)
  \/ RcvPrep(t)
  \/ RcvWoken(t)
  \/ RcvRecheck(t)
  \/ RcvDequeueEmpty(t)
  \/ RcvDequeue(t)

IrqStep ==
  IrqScan \/ IrqKey \/ IrqFound \/ IrqRefused \/ IrqLocks \/ IrqEnqueue

ReceiveNext ==
  \/ TableNext /\ UNCHANGED <<rcv, intr, irq, out>>
  \/ SmpNext /\ UNCHANGED <<rcv, intr, irq, out>>
  \/ \E k \in Keys : HandlerDrops(k) \/ \E m \in Msgs : HandlerPosts(k, m)
  \/ \E k \in Keys, m \in Msgs : IrqLookup(k, m)
  \/ IrqStep
  \/ \E t \in Threads :
       \/ \E id \in MsqIds : RcvRefused(t, id)
       \/ \E id \in MsqIds, tmo \in BOOLEAN, size \in Sizes :
            RcvCall(t, id, tmo, size)
       \/ Signal(t)
       \/ Timeout(t)
       \/ ThreadStep(t)

ReceiveSpec == ReceiveInit /\ [][ReceiveNext]_receiveVars

(* Threads that can run are scheduled, clocks run, the handler goes on;    *)
(* calls, messages and signals may never come.                             *)
ReceiveFairness ==
  /\ \A t \in Threads :
       WF_receiveVars(ThreadStep(t)) /\ WF_receiveVars(Timeout(t))
  /\ \A t \in Threads :
       WF_receiveVars((TableStep(t) \/ GetFill(t)) /\ UNCHANGED <<rcv, intr, irq, out>>)
  /\ WF_receiveVars(IrqStep)

ReceiveFairSpec == ReceiveSpec /\ ReceiveFairness

-----------------------------------------------------------------------------
(***************************************************************************)
(* Properties.                                                             *)
(***************************************************************************)

(* A thread is at one point of one call, and the record of a receive is    *)
(* there while the call is.                                                *)
ReceiveTypeOK ==
  /\ TableDataOK
  /\ pc \in [Threads -> TablePlaces \cup InReceive]
  /\ rcv \in [Threads -> [tmo : BOOLEAN, expired : BOOLEAN, size : Sizes \cup {0}]]
  /\ intr \in [Slots -> BOOLEAN]
  /\ irq \in [at : IrqPlaces, slot : Slots, key : Keys \cup {NoKey},
               msg : Msgs \cup {<< >>}]
  /\ \A t \in Threads :
       /\ out[t] \in {SubSeq(m, 1, 1) : m \in Element} \cup {<< >>}
       /\ pc[t] \notin InReceive => rcv[t] = NoRcv

(* A message accepted for a queue stays in its place until a dequeue takes *)
(* it, whatever other threads and the handler do with this and the other   *)
(* queues; only a new registration of the slot drops it.                   *)
AcceptedStays ==
  [][\A s \in Slots :
       ~(~msgQueTbl[s].initkey /\ msgQueTbl'[s].initkey) =>
         \A i \in LiveSlots(msgQueTbl[s]) :
           \/ /\ msgQueTbl'[s].element[i] = msgQueTbl[s].element[i]
              /\ i \in LiveSlots(msgQueTbl'[s])
           \/ /\ i = msgQueTbl[s].outdx
              /\ \E t \in Threads :
                   pc[t] = "deq" /\ loc[t].slot = s /\ pc'[t] = "idle"]_receiveVars

(* No lost wakeup: who sleeps without a timeout does not sleep over two or *)
(* more messages of the queue it asked for.                                *)
SleeperHasNoBacklog ==
  \A t \in Threads :
    pc[t] = "asleep" /\ ~rcv[t].tmo /\ IsValid(t) =>
      q(t).count \notin 2 .. ELEMENT_NUM

(* Other threads that receive from the same queue.                         *)
Shared(t) ==
  \E u \in Threads \ {t} : pc[u] \in InReceive /\ loc[u].slot = loc[t].slot

(* api.c "have data in queue . proceed to handle data": where the loop has *)
(* ended for the only receiver of a queue, the queue has a message.        *)
NonEmptyHasData ==
  \A t \in Threads :
    pc[t] = "deq" /\ IsValid(t) /\ ~Shared(t) => q(t).count \in 1 .. ELEMENT_NUM

Receives(t) == pc[t] \in InReceive

(* A receive with a timeout returns, unless others share or release its    *)
(* queue.                                                                  *)
TimedReceiveReturns ==
  \A t \in Threads :
    Receives(t) /\ rcv[t].tmo ~> ~Receives(t) \/ Shared(t) \/ ~IsValid(t)

(* With two or more messages in its queue a receive returns, unless other  *)
(* threads share or release the queue.                                     *)
BacklogServed ==
  \A t \in Threads :
    Receives(t) /\ IsValid(t) /\ q(t).count \in 2 .. ELEMENT_NUM
      ~> ~Receives(t) \/ Shared(t) \/ ~IsValid(t)

=============================================================================
