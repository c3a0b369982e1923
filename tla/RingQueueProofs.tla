-------------------------- MODULE RingQueueProofs --------------------------
(***************************************************************************)
(* Theorems about RingQueue for every ring size, count width and set of    *)
(* messages.                                                               *)
(***************************************************************************)
EXTENDS RingQueue, MsgRingLemmas

(* The inductive invariant: the types, and the agreement of indx, outdx    *)
(* and count without which dequeue could take count out of its range.      *)
IInv == TypeOK /\ RingConsistent

LEMMA InitIInv == Init => IInv
<1> SUFFICES ASSUME Init PROVE IInv
  OBVIOUS
<1>1. TypeOK
  BY RingAssumption DEF Init, TypeOK, Queue, Index, UINT32
<1>2. RingConsistent
  BY ResetAgrees DEF Init, RingConsistent, FieldsAgree
<1>3. QED
  BY <1>1, <1>2 DEF IInv

(* The fields of a queue, and what a get, an enqueue and a dequeue of the  *)
(* ring leave of them.                                                     *)
LEMMA FieldTypes ==
  ASSUME TypeOK
  PROVE  /\ q.initkey \in BOOLEAN
         /\ q.indx \in Index
         /\ q.outdx \in Index
         /\ q.count \in UINT32
         /\ q.element \in [Index -> Msgs \cup {Junk}]
  BY DEF TypeOK, Queue

LEMMA NextIInv == IInv /\ [Next]_vars => IInv'
<1> SUFFICES ASSUME TypeOK, RingConsistent, [Next]_vars
             PROVE  TypeOK' /\ RingConsistent'
  BY DEF IInv
<1> USE FieldTypes
<1>0. /\ Agree(q.indx, q.outdx, q.count)
      /\ InRange(q.count)
  BY DEF RingConsistent, FieldsAgree
<1>1. CASE Get
  <2>1. q' = [initkey |-> TRUE, indx |-> ELEMENT_NUM - 1, outdx |-> 0,
              count |-> 0, element |-> q.element]
    BY <1>1 DEF Get, RingReset, TypeOK, Queue
  <2>2. TypeOK'
    <3>1. ELEMENT_NUM - 1 \in Index /\ 0 \in Index /\ 0 \in UINT32
      BY RingAssumption DEF Index, UINT32
    <3>2. out' = out /\ ret' = ret
      BY <1>1 DEF Get
    <3>3. QED
      BY <2>1, <3>1, <3>2 DEF TypeOK, Queue
  <2>3. RingConsistent'
    BY <2>1, ResetAgrees DEF RingConsistent, FieldsAgree, TypeOK, Queue
  <2>4. QED
    BY <2>2, <2>3
<1>2. CASE Rel
  BY <1>2, <1>0 DEF Rel, TypeOK, Queue, RingConsistent, FieldsAgree
<1>3. ASSUME NEW m \in Msgs, Enqueue(m)
      PROVE  TypeOK' /\ RingConsistent'
  <2>1. q' = [initkey |-> q.initkey,
              indx    |-> NextIndex(q.indx),
              outdx   |-> q.outdx,
              count   |-> (q.count + 1) % UINT32_MOD,
              element |-> [q.element EXCEPT ![NextIndex(q.indx)] = m]]
    BY <1>3 DEF Enqueue, Enqueued, TypeOK, Queue
  <2>2. q.count < ELEMENT_NUM
    BY <1>3, RingAssumption DEF Enqueue, ipc_msgque_isfull, UINT32
  <2>3. /\ (q.count + 1) % UINT32_MOD \in UINT32
        /\ Agree(NextIndex(q.indx), q.outdx, (q.count + 1) % UINT32_MOD)
        /\ InRange((q.count + 1) % UINT32_MOD)
    BY <1>0, <2>2, EnqueueAgrees
  <2>4. TypeOK'
    BY <1>3, <2>1, <2>3, NextIndexValue DEF Enqueue, TypeOK, Queue
  <2>5. RingConsistent'
    BY <2>1, <2>3 DEF RingConsistent, FieldsAgree, TypeOK, Queue
  <2>6. QED
    BY <2>4, <2>5
<1>4. CASE EnqueueFull
  BY <1>4, <1>0 DEF EnqueueFull, TypeOK, RingConsistent, FieldsAgree
<1>5. CASE Dequeue
  <2>1. q' = [initkey |-> q.initkey,
              indx    |-> q.indx,
              outdx   |-> NextIndex(q.outdx),
              count   |-> (q.count + UINT32_MOD - 1) % UINT32_MOD,
              element |-> q.element]
    BY <1>5 DEF Dequeue, Dequeued, TypeOK, Queue
  <2>2. /\ (q.count + UINT32_MOD - 1) % UINT32_MOD \in UINT32
        /\ Agree(q.indx, NextIndex(q.outdx),
                 (q.count + UINT32_MOD - 1) % UINT32_MOD)
        /\ InRange((q.count + UINT32_MOD - 1) % UINT32_MOD)
    BY <1>0, <1>5, DequeueAgrees DEF Dequeue, ipc_msgque_isempty
  <2>3. out' \in Msgs \cup {Junk} /\ ret' = 0
    BY <1>5 DEF Dequeue, Front
  <2>4. TypeOK'
    BY <2>1, <2>2, <2>3, NextIndexValue DEF TypeOK, Queue
  <2>5. RingConsistent'
    BY <2>1, <2>2 DEF RingConsistent, FieldsAgree, TypeOK, Queue
  <2>6. QED
    BY <2>4, <2>5
<1>6. CASE DequeueEmpty
  BY <1>6, <1>0 DEF DequeueEmpty, TypeOK, RingConsistent, FieldsAgree
<1>7. CASE UNCHANGED vars
  BY <1>7, <1>0 DEF vars, TypeOK, RingConsistent, FieldsAgree
<1>8. QED
  BY <1>1, <1>2, <1>3, <1>4, <1>5, <1>6, <1>7 DEF Next

(* In every behaviour of enqueue, dequeue, get and rel the fields keep     *)
(* their types, and indx, outdx and count agree: enqueue and dequeue may   *)
(* be called at any time, on an empty or a released queue, and count is    *)
(* either the true number of elements or below zero by less than a turn.   *)
THEOREM RingIsConsistent == Spec => [](TypeOK /\ RingConsistent)
<1>1. Spec => []IInv
  BY InitIInv, NextIInv, PTL DEF Spec
<1>2. IInv => TypeOK /\ RingConsistent
  BY DEF IInv
<1>3. QED
  BY <1>1, <1>2, PTL

(* The types alone, which need the agreement of the fields to be kept.     *)
THEOREM RingTypesHold == Spec => []TypeOK
  BY RingIsConsistent, PTL

(* Once count has wrapped nothing but a new get brings it back, so that    *)
(* isfull refuses every message another core posts to this queue.          *)
THEOREM WrappedStaysWrapped == Spec => WrappedIsFinal
<1>1. IInv /\ [Next]_vars
        => [Wrapped(q) /\ ~(~q.initkey /\ q'.initkey) => Wrapped(q')]_vars
  <2> SUFFICES ASSUME IInv, [Next]_vars, Wrapped(q), ~(~q.initkey /\ q'.initkey)
               PROVE  Wrapped(q')
    BY DEF vars
  <2>1. TypeOK /\ RingConsistent
    BY DEF IInv
  <2>2. ~Get
    BY <2>1, FieldTypes DEF Get, RingReset, TypeOK, Queue
  <2>3. \A m \in Msgs : ~Enqueue(m)
    BY <2>1, FieldTypes, RingAssumption
    DEF Enqueue, ipc_msgque_isfull, Wrapped, UINT32
  <2>4. CASE Dequeue
    <3>1. (q.count + UINT32_MOD - 1) % UINT32_MOD > ELEMENT_NUM
      BY <2>1, <2>4, FieldTypes, DequeueAgrees
      DEF Dequeue, ipc_msgque_isempty, RingConsistent, FieldsAgree, Wrapped
    <3>2. QED
      BY <2>1, <2>4, <3>1 DEF Dequeue, Dequeued, Wrapped, TypeOK, Queue
  <2>5. CASE Rel \/ EnqueueFull \/ DequeueEmpty \/ UNCHANGED vars
    BY <2>1, <2>5
    DEF Rel, EnqueueFull, DequeueEmpty, vars, Wrapped, TypeOK, Queue
  <2>6. QED
    BY <2>2, <2>3, <2>4, <2>5 DEF Next
<1>2. QED
  BY InitIInv, NextIInv, <1>1, PTL DEF Spec, WrappedIsFinal

-----------------------------------------------------------------------------
(***************************************************************************)
(* The accepted messages.                                                  *)
(***************************************************************************)

(* What the lemmas about rings ask for.                                    *)
LEMMA QueueInTurn ==
  ASSUME IInv
  PROVE  InTurn(q) /\ q.element \in [Index -> Msgs \cup {Junk}]
  BY FieldTypes DEF IInv, RingConsistent, InTurn

(* The fields after an enqueue and after a dequeue.                        *)
LEMMA EnqueueStores ==
  ASSUME IInv, NEW m \in Msgs, Enqueue(m)
  PROVE  Stored(q', q, m) /\ q'.initkey = q.initkey
<1>1. (q.count + 1) % UINT32_MOD = q.count + 1
  <2>1. q.count < ELEMENT_NUM
    BY FieldTypes, RingAssumption DEF IInv, Enqueue, ipc_msgque_isfull, UINT32
  <2>2. QED
    BY <2>1, FieldTypes, EnqueueAgrees DEF IInv, RingConsistent, FieldsAgree
<1>2. q' = [initkey |-> q.initkey,
            indx    |-> NextIndex(q.indx),
            outdx   |-> q.outdx,
            count   |-> q.count + 1,
            element |-> [q.element EXCEPT ![NextIndex(q.indx)] = m]]
  BY <1>1 DEF IInv, Enqueue, Enqueued, TypeOK, Queue
<1>3. QED
  BY <1>2 DEF Stored

LEMMA DequeueRemoves ==
  ASSUME IInv, Dequeue
  PROVE  Removed(q', q) /\ q'.initkey = q.initkey
<1>1. q' = [initkey |-> q.initkey,
            indx    |-> q.indx,
            outdx   |-> NextIndex(q.outdx),
            count   |-> (q.count + UINT32_MOD - 1) % UINT32_MOD,
            element |-> q.element]
  BY DEF IInv, Dequeue, Dequeued, TypeOK, Queue
<1>2. QED
  BY <1>1 DEF Removed

(* A release leaves the ring as it is.                                     *)
LEMMA RelKeepsRing ==
  ASSUME IInv, Rel
  PROVE  /\ q.initkey /\ ~q'.initkey
         /\ q'.indx = q.indx /\ q'.outdx = q.outdx
         /\ q'.count = q.count /\ q'.element = q.element
  BY DEF IInv, Rel, TypeOK, Queue

(* No enqueue overwrites an accepted message and no dequeue passes one     *)
(* over, wherever indx and outdx are in the ring.                          *)
THEOREM AcceptedMessagesSurvive == Spec => AcceptedSurvives
<1>1. IInv /\ [Next]_vars
        => [~(~q.initkey /\ q'.initkey) =>
              \A i \in LiveSlots(q) :
                \/ q'.element[i] = q.element[i] /\ i \in LiveSlots(q')
                \/ i = q.outdx /\ out' = q.element[i]]_vars
  <2> SUFFICES ASSUME IInv, [Next]_vars, ~(~q.initkey /\ q'.initkey),
                      NEW i \in LiveSlots(q)
               PROVE  \/ q'.element[i] = q.element[i] /\ i \in LiveSlots(q')
                      \/ i = q.outdx /\ out' = q.element[i]
    OBVIOUS
  <2>1. ~Get
    BY FieldTypes DEF IInv, Get, RingReset, TypeOK, Queue
  <2>2. CASE Rel
    BY <2>2, RelKeepsRing DEF LiveSlots, Wrapped
  <2>3. CASE \E m \in Msgs : Enqueue(m)
    BY <2>3, QueueInTurn, EnqueueStores, EnqueueKeepsLive DEF Enqueue
  <2>4. CASE Dequeue
    <3>1. out' = q.element[q.outdx]
      BY <2>4 DEF Dequeue, Front
    <3>2. q'.element = q.element
      BY <2>4, DequeueRemoves DEF Removed
    <3>3. i = q.outdx \/ i \in LiveSlots(q')
      BY <2>4, QueueInTurn, DequeueRemoves, DequeueKeepsLive
    <3>4. QED
      BY <3>1, <3>2, <3>3
  <2>5. CASE EnqueueFull \/ DequeueEmpty \/ UNCHANGED vars
    BY <2>5 DEF EnqueueFull, DequeueEmpty, vars
  <2>6. QED
    BY <2>1, <2>2, <2>3, <2>4, <2>5 DEF Next
<1>2. QED
  BY InitIInv, NextIInv, <1>1, PTL DEF Spec, AcceptedSurvives

-----------------------------------------------------------------------------
(***************************************************************************)
(* The ring is a queue.                                                    *)
(***************************************************************************)

(* The abstract queue as seen from the ring.                               *)
LEMMA InitMaps == Init => F!Init
<1> SUFFICES ASSUME Init PROVE F!Init
  OBVIOUS
<1>1. ~Wrapped(q) /\ q.count = 0
  BY RingAssumption DEF Init, Wrapped
<1>2. IInv
  BY InitIInv
<1>3. Contents(q) \in Seq(Msgs \cup {Junk}) /\ Len(Contents(q)) = 0
  BY <1>1, <1>2, QueueInTurn, ContentsOf
<1>4. Contents(q) = << >>
  BY <1>3, EmptySeq
<1>5. QED
  BY <1>1, <1>4 DEF Init, F!Init

(* A get opens an empty queue.                                             *)
LEMMA GetMaps ==
  ASSUME IInv, IInv', Get
  PROVE  F!Open
<1>1. ~q.initkey /\ q'.initkey /\ q'.count = 0 /\ UNCHANGED <<out, ret>>
  BY FieldTypes DEF IInv, Get, RingReset, TypeOK, Queue
<1>2. ~Wrapped(q')
  BY <1>1, RingAssumption DEF Wrapped
<1>3. Contents(q') \in Seq(Msgs \cup {Junk}) /\ Len(Contents(q')) = 0
  <2>1. InTurn(q') /\ q'.element \in [Index -> Msgs \cup {Junk}]
    BY DEF IInv, RingConsistent, InTurn, TypeOK, Queue
  <2>2. QED
    BY <1>1, <1>2, <2>1, ContentsOf
<1>4. Contents(q') = << >>
  BY <1>3, EmptySeq
<1>5. QED
  BY <1>1, <1>2, <1>4 DEF F!Open

(* A release closes it.                                                    *)
LEMMA RelMaps ==
  ASSUME IInv, Rel
  PROVE  F!Close
  BY RelKeepsRing DEF Rel, F!Close, Contents, Wrapped

(* An enqueue puts a message behind those that are there.                  *)
LEMMA EnqueueMaps ==
  ASSUME IInv, IInv', NEW m \in Msgs, Enqueue(m)
  PROVE  F!Put(m)
<1>1. InTurn(q') /\ InTurn(q) /\ q.element \in [Index -> Msgs \cup {Junk}]
  BY QueueInTurn DEF IInv, RingConsistent, InTurn, TypeOK, Queue
<1>2. Stored(q', q, m) /\ q'.initkey = q.initkey /\ m \in Msgs \cup {Junk}
  BY EnqueueStores
<1>3. /\ ~Wrapped(q) /\ ~Wrapped(q')
      /\ Len(Contents(q)) < ELEMENT_NUM
      /\ Contents(q') = Append(Contents(q), m)
  BY <1>1, <1>2, EnqueueAppends DEF Enqueue
<1>4. /\ q.initkey /\ ret' = 0 /\ out' = out
      /\ Wrapped(q) = FALSE /\ Wrapped(q') = FALSE
  BY <1>3 DEF Enqueue, Wrapped
<1>5. QED
  BY <1>2, <1>3, <1>4 DEF F!Put

(* isfull refuses a full queue and a wedged one, and no other.             *)
LEMMA EnqueueFullMaps ==
  ASSUME IInv, EnqueueFull
  PROVE  F!Refuse
<1>1. Wrapped(q) \/ Len(Contents(q)) = ELEMENT_NUM
  <2>1. CASE ~Wrapped(q)
    <3>1. q.count = ELEMENT_NUM
      BY <2>1, FieldTypes, RingAssumption
      DEF IInv, EnqueueFull, ipc_msgque_isfull, Wrapped, UINT32
    <3>2. QED
      BY <2>1, <3>1, QueueInTurn, ContentsOf
  <2>2. QED
    BY <2>1
<1>2. QED
  BY <1>1 DEF EnqueueFull, F!Refuse

(* A dequeue takes the oldest message; from an empty or wedged queue it    *)
(* takes what is in memory, and the queue is wedged.                       *)
LEMMA DequeueMaps ==
  ASSUME IInv, IInv', Dequeue
  PROVE  F!Take \/ F!Phantom
<1>1. InTurn(q') /\ InTurn(q) /\ q.element \in [Index -> Msgs \cup {Junk}]
  BY QueueInTurn DEF IInv, RingConsistent, InTurn, TypeOK, Queue
<1>2. Removed(q', q) /\ q'.initkey = q.initkey
  BY DequeueRemoves
<1>3. out' = Front(q) /\ ret' = 0
  BY DEF Dequeue
<1>4. CASE ~Wrapped(q) /\ q.count # 0
  <2>1. /\ ~Wrapped(q')
        /\ Contents(q) # << >>
        /\ Front(q) = Head(Contents(q))
        /\ Contents(q') = Tail(Contents(q))
    BY <1>1, <1>2, <1>4, DequeueTakes
  <2>2. Wrapped(q') = Wrapped(q)
    BY <1>4, <2>1 DEF Wrapped
  <2>3. QED
    BY <1>2, <1>3, <2>1, <2>2 DEF F!Take
<1>5. CASE Wrapped(q) \/ q.count = 0
  <2>1. Contents(q) = << >> /\ Contents(q') = << >> /\ Wrapped(q')
    BY <1>1, <1>2, <1>5, DequeueWedges DEF Dequeue
  <2>2. Wrapped(q') = TRUE
    BY <2>1 DEF Wrapped
  <2>3. out' \in Msgs \cup {Junk}
    BY DEF IInv, TypeOK
  <2>4. QED
    BY <1>2, <1>3, <2>1, <2>2, <2>3 DEF F!Phantom
<1>6. QED
  BY <1>4, <1>5

(* isempty calls a queue empty that is wedged or has one message.          *)
LEMMA DequeueEmptyMaps ==
  ASSUME IInv, ELEMENT_NUM > 1, DequeueEmpty
  PROVE  F!Miss
<1>1. Wrapped(q) \/ Len(Contents(q)) = 1
  <2>1. CASE ~Wrapped(q)
    <3>1. q.count = 1
      BY <2>1, FieldTypes, RingAssumption
      DEF IInv, DequeueEmpty, ipc_msgque_isempty, RingConsistent, FieldsAgree, Agree,
          Wrapped, UINT32, Index
    <3>2. QED
      BY <2>1, <3>1, QueueInTurn, ContentsOf
  <2>2. QED
    BY <2>1
<1>2. QED
  BY <1>1 DEF DequeueEmpty, F!Miss

(* A ring with more than one slot (16 in the code) under any sequence of   *)
(* get, rel, enqueue and dequeue is the abstract queue: messages come out  *)
(* in the order in which they were accepted, once, until an empty queue is *)
(* read.                                                                   *)
THEOREM RingIsFifo ==
  ASSUME ELEMENT_NUM > 1
  PROVE  Spec => ImplementsFifo
<1>1. Init => F!Init
  BY InitMaps
<1>2. IInv /\ IInv' /\ [Next]_vars => [F!Next]_(F!fifoVars)
  <2> SUFFICES ASSUME IInv, IInv', [Next]_vars
               PROVE  [F!Next]_(F!fifoVars)
    OBVIOUS
  <2>1. CASE Get
    BY <2>1, GetMaps DEF F!Next
  <2>2. CASE Rel
    BY <2>2, RelMaps DEF F!Next
  <2>3. CASE \E m \in Msgs : Enqueue(m)
    BY <2>3, EnqueueMaps DEF F!Next
  <2>4. CASE EnqueueFull
    BY <2>4, EnqueueFullMaps DEF F!Next
  <2>5. CASE Dequeue
    BY <2>5, DequeueMaps DEF F!Next
  <2>6. CASE DequeueEmpty
    BY <2>6, DequeueEmptyMaps DEF F!Next
  <2>7. CASE UNCHANGED vars
    BY <2>7 DEF vars, F!fifoVars, Contents, Wrapped
  <2>8. QED
    BY <2>1, <2>2, <2>3, <2>4, <2>5, <2>6, <2>7 DEF Next
<1>3. QED
  BY <1>1, <1>2, InitIInv, NextIInv, PTL DEF Spec, ImplementsFifo, F!Spec
=============================================================================
