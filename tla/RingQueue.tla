----------------------------- MODULE RingQueue -----------------------------
(***************************************************************************)
(* One slot of msgQueTbl from its first ipc_msgque_get on: its ring under  *)
(* every sequence of get, rel, enqueue and dequeue that the callers in     *)
(* drv_ipc_main.c and drv_ipc_api.c can make.  Each call runs under the    *)
(* spinlock and is one step; IpcMsgque and IpcReceive model the lock, the  *)
(* table and the threads.                                                  *)
(***************************************************************************)
EXTENDS MsgRing

CONSTANTS
  Msgs,   \* messages another core can post
  Junk    \* content of an element that was allocated and never written

ASSUME MsgsAssumption == Junk \notin Msgs

VARIABLES
  q,     \* the IPC_MSGQUE; initkey is TRUE when it equals CFG_IPC_INIT_KEY
  out,   \* the message the last successful dequeue copied to its caller
  ret    \* what the last enqueue or dequeue returned

vars == <<q, out, ret>>

Queue == [initkey : BOOLEAN,
          indx    : Index,
          outdx   : Index,
          count   : UINT32,
          element : [Index -> Msgs \cup {Junk}]]

(* g_msqinfo comes from kmalloc: the elements hold what was in memory.     *)
Init ==
  /\ q = [initkey |-> TRUE, indx |-> ELEMENT_NUM - 1, outdx |-> 0,
          count |-> 0, element |-> [i \in Index |-> Junk]]
  /\ out = Junk
  /\ ret = 0

-----------------------------------------------------------------------------

(* ipc_msgque_get takes the slot again after a release.                    *)
Get ==
  /\ ~q.initkey
  /\ q' = [RingReset(q) EXCEPT !.initkey = TRUE]
  /\ UNCHANGED <<out, ret>>

(* ipc_msgque_rel only clears initkey.                                     *)
Rel ==
  /\ q.initkey
  /\ q' = [q EXCEPT !.initkey = FALSE]
  /\ UNCHANGED <<out, ret>>

(* ipc_msgque_msgpost looks the queue up by its id, hence the guard on     *)
(* initkey.                                                                *)
Enqueue(m) ==
  /\ q.initkey
  /\ ~ipc_msgque_isfull(q)
  /\ q' = Enqueued(q, m)
  /\ ret' = 0
  /\ UNCHANGED out

EnqueueFull ==
  /\ q.initkey
  /\ ipc_msgque_isfull(q)
  /\ ret' = -1
  /\ UNCHANGED <<q, out>>

(* ipc_msgque_dequeue trusts its pointer: ipc_msg_rcv may call it after    *)
(* another thread has released the queue.                                  *)
Dequeue ==
  /\ ~ipc_msgque_isempty(q)
  /\ out' = Front(q)
  /\ q' = Dequeued(q)
  /\ ret' = 0

DequeueEmpty ==
  /\ ipc_msgque_isempty(q)
  /\ ret' = -1
  /\ UNCHANGED <<q, out>>

Next ==
  \/ Get
  \/ Rel
  \/ \E m \in Msgs : Enqueue(m)
  \/ EnqueueFull
  \/ Dequeue
  \/ DequeueEmpty

Spec == Init /\ [][Next]_vars

-----------------------------------------------------------------------------
(***************************************************************************)
(* Properties.                                                             *)
(***************************************************************************)

(* Every field stays in its C type and inside the ring.                    *)
TypeOK ==
  /\ q \in Queue
  /\ out \in Msgs \cup {Junk}
  /\ ret \in {0, -1}

(* indx, outdx and count, which enqueue and dequeue update in pairs and    *)
(* isempty and isfull read separately, never drift apart; a count that was *)
(* decremented below zero stays within one turn of the ring.               *)
RingConsistent == FieldsAgree(q)

(* A message that enqueue accepted stays in its slot until dequeue reaches *)
(* it: no later enqueue overwrites it, before or after indx has gone round *)
(* the ring.  Only a get of the slot discards what is left.                *)
AcceptedSurvives ==
  [][~(~q.initkey /\ q'.initkey) =>
       \A i \in LiveSlots(q) :
         \/ q'.element[i] = q.element[i] /\ i \in LiveSlots(q')
         \/ i = q.outdx /\ out' = q.element[i]]_vars

(* Once count has wrapped, isfull refuses every message for the rest of    *)
(* the life of the queue: dequeue cannot bring the count back into range.  *)
WrappedIsFinal ==
  [][Wrapped(q) /\ ~(~q.initkey /\ q'.initkey) => Wrapped(q')]_vars

(* The ring implements the abstract queue.                                 *)
F == INSTANCE Fifo WITH
       Capacity <- ELEMENT_NUM,
       open     <- q.initkey,
       buf      <- Contents(q),
       wedged   <- Wrapped(q)

ImplementsFifo == F!Spec

=============================================================================
