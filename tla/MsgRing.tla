------------------------------ MODULE MsgRing ------------------------------
(***************************************************************************)
(* The ring inside one IPC_MSGQUE of drv_ipc_msgque.c: the operators that  *)
(* read and update the fields indx, outdx, count and element of a queue.   *)
(* They act on any record that has these fields, so that the single queue  *)
(* of RingQueue and the queue table of IpcMsgque share them.               *)
(*                                                                         *)
(* indx is the slot of the element stored last, outdx the slot of the      *)
(* element to read next, count a UINT32 kept beside them.                  *)
(***************************************************************************)
EXTENDS Integers, Sequences

CONSTANTS
  ELEMENT_NUM,   \* IPC_MSG_ELEMENT_NUM: slots of one ring (16 in the code)
  UINT32_MOD     \* number of values of a UINT32 (2^32 in the code)

(* 16 divides 2^32, and 2^32 leaves room for a wrapped count.              *)
ASSUME RingAssumption ==
  /\ ELEMENT_NUM \in Nat \ {0}
  /\ UINT32_MOD \in Nat
  /\ UINT32_MOD % ELEMENT_NUM = 0
  /\ 2 * ELEMENT_NUM <= UINT32_MOD

Index == 0 .. ELEMENT_NUM - 1

UINT32 == 0 .. UINT32_MOD - 1

-----------------------------------------------------------------------------

(* Variant: get leaves the count of the former life of the slot.           *)
RingResetKeepsCount(q) == [q EXCEPT !.indx = ELEMENT_NUM - 1, !.outdx = 0]

(* What ipc_msgque_get writes into the ring; the elements keep whatever    *)
(* they held.                                                              *)
RingReset(q) ==
  [q EXCEPT !.indx = ELEMENT_NUM - 1, !.outdx = 0, !.count = 0]

ipc_msgque_isempty(q) == q.indx = q.outdx

(* Variants of isfull: one element too late, and only at the exact count.  *)
IsFullLate(q) == q.count > ELEMENT_NUM

IsFullExactly(q) == q.count = ELEMENT_NUM

ipc_msgque_isfull(q) == q.count >= ELEMENT_NUM

(* Variant: the index does not go round.                                   *)
NextIndexNoWrap(i) == i + 1

NextIndex(i) == (i + 1) % ELEMENT_NUM

(* The ring after a successful ipc_msgque_enqueue of m.                    *)
Enqueued(q, m) ==
  [q EXCEPT !.indx = NextIndex(@),
            !.element[NextIndex(q.indx)] = m,
            !.count = (@ + 1) % UINT32_MOD]

(* Variant: dequeue forgets to count.                                      *)
DequeuedUncounted(q) == [q EXCEPT !.outdx = NextIndex(@)]

(* The ring after a successful ipc_msgque_dequeue; count-- is unsigned.    *)
Dequeued(q) ==
  [q EXCEPT !.outdx = NextIndex(@),
            !.count = (@ + UINT32_MOD - 1) % UINT32_MOD]

(* Variant: dequeue reads after it has moved outdx on.                     *)
FrontAfterMove(q) == q.element[NextIndex(q.outdx)]

(* The element that dequeue copies to its caller.                          *)
Front(q) == q.element[q.outdx]

-----------------------------------------------------------------------------
(***************************************************************************)
(* Derived notions, used to state properties.                              *)
(***************************************************************************)

(* count has been decremented below zero.                                  *)
Wrapped(q) == q.count > ELEMENT_NUM

(* The slots that hold accepted messages not yet dequeued, oldest first.   *)
Contents(q) ==
  IF Wrapped(q)
  THEN << >>
  ELSE [i \in 1 .. q.count |-> q.element[(q.outdx + i - 1) % ELEMENT_NUM]]

LiveSlots(q) ==
  IF Wrapped(q)
  THEN {}
  ELSE {(q.outdx + i) % ELEMENT_NUM : i \in 0 .. q.count - 1}

(***************************************************************************)
(* The three fields agree: indx lies count slots ahead of outdx (minus     *)
(* one, since indx is the last slot written), modulo the size of the ring. *)
(* It is written without %: i + 1 - o lies between 2 - N and N, so that    *)
(* the count is at most one turn away from it, and a count that fell below *)
(* zero is as far below 2^32.                                              *)
(***************************************************************************)
Agree(i, o, c) ==
  LET ahead == i + 1 - o
      N     == ELEMENT_NUM
  IN  \/ c <= N /\ c \in {ahead - N, ahead, ahead + N}
      \/ c > N /\ c \in {UINT32_MOD + ahead - N, UINT32_MOD + ahead}

(* The only values a count ever takes: a true number of elements, or a     *)
(* number that fell below zero by less than one turn of the ring.          *)
InRange(c) ==
  \/ c \in 0 .. ELEMENT_NUM
  \/ c \in (UINT32_MOD - ELEMENT_NUM + 1) .. (UINT32_MOD - 1)

FieldsAgree(q) == Agree(q.indx, q.outdx, q.count) /\ InRange(q.count)

=============================================================================
