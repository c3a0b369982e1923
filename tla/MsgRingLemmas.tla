--------------------------- MODULE MsgRingLemmas ---------------------------
(***************************************************************************)
(* Facts about the operators of MsgRing, for every ring size and every     *)
(* width of count that RingAssumption admits.                              *)
(***************************************************************************)
EXTENDS MsgRing, SequenceTheorems, TLAPS

(* The two cases of % that indices and counters meet.                      *)
LEMMA ModSmall ==
  ASSUME NEW n \in Nat \ {0}, NEW a \in 0 .. n - 1
  PROVE  a % n = a
  OBVIOUS

LEMMA ModOnce ==
  ASSUME NEW n \in Nat \ {0}, NEW a \in n .. 2 * n - 1
  PROVE  a % n = a - n
  OBVIOUS

(* An index steps to its neighbour, the last one to the first.             *)
LEMMA NextIndexValue ==
  ASSUME NEW i \in Index
  PROVE  /\ NextIndex(i) \in Index
         /\ NextIndex(i) = IF i = ELEMENT_NUM - 1 THEN 0 ELSE i + 1
<1>1. CASE i = ELEMENT_NUM - 1
  BY <1>1, RingAssumption, ModOnce DEF NextIndex, Index
<1>2. CASE i # ELEMENT_NUM - 1
  <2>1. i + 1 \in 0 .. ELEMENT_NUM - 1
    BY <1>2, RingAssumption DEF Index
  <2>2. (i + 1) % ELEMENT_NUM = i + 1
    BY <2>1, ModSmall, RingAssumption
  <2>3. QED
    BY <1>2, <2>1, <2>2 DEF NextIndex, Index
<1>3. QED
  BY <1>1, <1>2

(* count++ and count-- on a UINT32.                                        *)
LEMMA CountUp ==
  ASSUME NEW c \in UINT32
  PROVE  (c + 1) % UINT32_MOD = IF c = UINT32_MOD - 1 THEN 0 ELSE c + 1
<1>1. UINT32_MOD \in Nat \ {0}
  BY RingAssumption
<1>2. CASE c = UINT32_MOD - 1
  BY <1>1, <1>2, ModOnce DEF UINT32
<1>3. CASE c # UINT32_MOD - 1
  <2>1. c + 1 \in 0 .. UINT32_MOD - 1
    BY <1>1, <1>3 DEF UINT32
  <2>2. QED
    BY <1>1, <1>3, <2>1, ModSmall
<1>4. QED
  BY <1>2, <1>3

LEMMA CountDown ==
  ASSUME NEW c \in UINT32
  PROVE  (c + UINT32_MOD - 1) % UINT32_MOD
           = IF c = 0 THEN UINT32_MOD - 1 ELSE c - 1
<1>1. UINT32_MOD \in Nat \ {0}
  BY RingAssumption
<1>2. CASE c = 0
  <2>1. c + UINT32_MOD - 1 \in 0 .. UINT32_MOD - 1
    BY <1>1, <1>2
  <2>2. QED
    BY <1>1, <1>2, <2>1, ModSmall
<1>3. CASE c # 0
  <2>1. c + UINT32_MOD - 1 \in UINT32_MOD .. 2 * UINT32_MOD - 1
    BY <1>1, <1>3 DEF UINT32
  <2>2. QED
    BY <1>1, <1>3, <2>1, ModOnce DEF UINT32
<1>4. QED
  BY <1>2, <1>3

-----------------------------------------------------------------------------

(* What get writes agrees.                                                 *)
LEMMA ResetAgrees == Agree(ELEMENT_NUM - 1, 0, 0) /\ InRange(0)
  BY RingAssumption DEF Agree, InRange

(* The fields of a ring that is not full agree after an enqueue.           *)
LEMMA EnqueueAgrees ==
  ASSUME NEW i \in Index, NEW o \in Index, NEW c \in UINT32,
         Agree(i, o, c), InRange(c), c < ELEMENT_NUM
  PROVE  LET d == (c + 1) % UINT32_MOD IN
         /\ d = c + 1
         /\ d \in UINT32
         /\ Agree(NextIndex(i), o, d)
         /\ InRange(d)
<1>1. /\ ELEMENT_NUM \in Nat \ {0}
      /\ UINT32_MOD \in Nat
      /\ 2 * ELEMENT_NUM <= UINT32_MOD
  BY RingAssumption
<1>2. (c + 1) % UINT32_MOD = c + 1
  BY <1>1, CountUp DEF UINT32
<1>3. InRange(c + 1) /\ c + 1 \in UINT32
  BY <1>1 DEF InRange, UINT32
<1>4. Agree(NextIndex(i), o, c + 1)
  <2>1. CASE i = ELEMENT_NUM - 1
    <3>1. NextIndex(i) = 0
      BY <2>1, NextIndexValue
    <3>2. QED
      BY <1>1, <2>1, <3>1 DEF Agree, InRange, Index, UINT32
  <2>2. CASE i # ELEMENT_NUM - 1
    <3>1. NextIndex(i) = i + 1
      BY <2>2, NextIndexValue
    <3>2. QED
      BY <1>1, <2>2, <3>1 DEF Agree, InRange, Index, UINT32
  <2>3. QED
    BY <2>1, <2>2
<1>5. QED
  BY <1>2, <1>3, <1>4

(* The fields of a ring that isempty does not call empty agree after a     *)
(* dequeue, and the count stays in range although it may fall below zero:  *)
(* isempty stops the reader before it has gone round the ring once.        *)
LEMMA DequeueAgrees ==
  ASSUME NEW i \in Index, NEW o \in Index, NEW c \in UINT32,
         Agree(i, o, c), InRange(c), i # o
  PROVE  LET d == (c + UINT32_MOD - 1) % UINT32_MOD IN
         /\ d \in UINT32
         /\ Agree(i, NextIndex(o), d)
         /\ InRange(d)
         /\ c > ELEMENT_NUM => d > ELEMENT_NUM
<1> DEFINE d == (c + UINT32_MOD - 1) % UINT32_MOD
<1>1. /\ ELEMENT_NUM \in Nat \ {0}
      /\ UINT32_MOD \in Nat
      /\ 2 * ELEMENT_NUM <= UINT32_MOD
  BY RingAssumption
<1>2. d = IF c = 0 THEN UINT32_MOD - 1 ELSE c - 1
  BY CountDown
<1>3. d \in UINT32
  BY <1>1, <1>2 DEF UINT32
<1>4. InRange(d) /\ (c > ELEMENT_NUM => d > ELEMENT_NUM)
  BY <1>1, <1>2 DEF Agree, InRange, Index, UINT32
<1>5. Agree(i, NextIndex(o), d)
  <2>1. CASE o = ELEMENT_NUM - 1
    <3>1. NextIndex(o) = 0
      BY <2>1, NextIndexValue
    <3>2. QED
      BY <1>1, <1>2, <2>1, <3>1 DEF Agree, InRange, Index, UINT32
  <2>2. CASE o # ELEMENT_NUM - 1
    <3>1. NextIndex(o) = o + 1
      BY <2>2, NextIndexValue
    <3>2. QED
      BY <1>1, <1>2, <2>2, <3>1 DEF Agree, InRange, Index, UINT32
  <2>3. QED
    BY <2>1, <2>2
<1>6. QED
  BY <1>3, <1>4, <1>5

-----------------------------------------------------------------------------
(***************************************************************************)
(* Places in the ring, counted from outdx.                                 *)
(***************************************************************************)

(* The slot k places after index o.                                        *)
LEMMA PlaceValue ==
  ASSUME NEW o \in Index, NEW k \in 0 .. ELEMENT_NUM
  PROVE  /\ (o + k) % ELEMENT_NUM \in Index
         /\ (o + k) % ELEMENT_NUM
              = IF o + k < ELEMENT_NUM THEN o + k ELSE o + k - ELEMENT_NUM
<1>1. ELEMENT_NUM \in Nat \ {0}
  BY RingAssumption
<1>2. CASE o + k < ELEMENT_NUM
  <2>1. o + k \in 0 .. ELEMENT_NUM - 1
    BY <1>1, <1>2 DEF Index
  <2>2. QED
    BY <1>1, <1>2, <2>1, ModSmall DEF Index
<1>3. CASE ~(o + k < ELEMENT_NUM)
  <2>1. o + k \in ELEMENT_NUM .. 2 * ELEMENT_NUM - 1
    BY <1>1, <1>3 DEF Index
  <2>2. QED
    BY <1>1, <1>3, <2>1, ModOnce DEF Index
<1>4. QED
  BY <1>2, <1>3

(* The slot that enqueue writes is the one behind the accepted messages.   *)
LEMMA NextFree ==
  ASSUME NEW i \in Index, NEW o \in Index, NEW c \in 0 .. ELEMENT_NUM,
         Agree(i, o, c)
  PROVE  NextIndex(i) = (o + c) % ELEMENT_NUM
<1>1. ELEMENT_NUM \in Nat \ {0}
  BY RingAssumption
<1>2. c \in {i + 1 - o - ELEMENT_NUM, i + 1 - o, i + 1 - o + ELEMENT_NUM}
  BY <1>1 DEF Agree, Index
<1>3. NextIndex(i) = IF i = ELEMENT_NUM - 1 THEN 0 ELSE i + 1
  BY NextIndexValue
<1>4. (o + c) % ELEMENT_NUM
        = IF o + c < ELEMENT_NUM THEN o + c ELSE o + c - ELEMENT_NUM
  BY PlaceValue
<1>5. QED
  BY <1>1, <1>2, <1>3, <1>4 DEF Index

(* Two places less than a turn apart are different slots.                  *)
LEMMA PlacesDiffer ==
  ASSUME NEW o \in Index, NEW c \in 0 .. ELEMENT_NUM - 1, NEW k \in 0 .. c - 1
  PROVE  (o + k) % ELEMENT_NUM # (o + c) % ELEMENT_NUM
<1>1. ELEMENT_NUM \in Nat \ {0}
  BY RingAssumption
<1>2. c \in 0 .. ELEMENT_NUM /\ k \in 0 .. ELEMENT_NUM
  BY <1>1
<1>3. (o + c) % ELEMENT_NUM
        = IF o + c < ELEMENT_NUM THEN o + c ELSE o + c - ELEMENT_NUM
  BY <1>2, PlaceValue
<1>4. (o + k) % ELEMENT_NUM
        = IF o + k < ELEMENT_NUM THEN o + k ELSE o + k - ELEMENT_NUM
  BY <1>2, PlaceValue
<1>5. QED
  BY <1>1, <1>3, <1>4 DEF Index

(* Moving outdx on by one and counting places from there.                  *)
LEMMA NextPlace ==
  ASSUME NEW o \in Index, NEW k \in 0 .. ELEMENT_NUM - 1
  PROVE  (NextIndex(o) + k) % ELEMENT_NUM = (o + (k + 1)) % ELEMENT_NUM
<1>1. ELEMENT_NUM \in Nat \ {0}
  BY RingAssumption
<1>2. /\ NextIndex(o) \in Index
      /\ NextIndex(o) = IF o = ELEMENT_NUM - 1 THEN 0 ELSE o + 1
  BY NextIndexValue
<1>3. k \in 0 .. ELEMENT_NUM /\ k + 1 \in 0 .. ELEMENT_NUM
  BY <1>1
<1>4. (NextIndex(o) + k) % ELEMENT_NUM
        = IF NextIndex(o) + k < ELEMENT_NUM THEN NextIndex(o) + k
          ELSE NextIndex(o) + k - ELEMENT_NUM
  BY <1>2, <1>3, PlaceValue
<1>5. (o + (k + 1)) % ELEMENT_NUM
        = IF o + (k + 1) < ELEMENT_NUM THEN o + (k + 1)
          ELSE o + (k + 1) - ELEMENT_NUM
  BY <1>3, PlaceValue
<1>6. QED
  BY <1>1, <1>2, <1>4, <1>5 DEF Index

-----------------------------------------------------------------------------
(***************************************************************************)
(* The accepted messages of a ring e before a step and f after it.         *)
(***************************************************************************)
InTurn(e) ==
  /\ e.indx \in Index /\ e.outdx \in Index /\ e.count \in UINT32
  /\ FieldsAgree(e)

Stored(f, e, m) ==
  /\ f.indx = NextIndex(e.indx)
  /\ f.outdx = e.outdx
  /\ f.count = e.count + 1
  /\ f.element = [e.element EXCEPT ![NextIndex(e.indx)] = m]

Removed(f, e) ==
  /\ f.indx = e.indx
  /\ f.outdx = NextIndex(e.outdx)
  /\ f.count = (e.count + UINT32_MOD - 1) % UINT32_MOD
  /\ f.element = e.element

(* Where a ring that is not wrapped has its messages.                      *)
LEMMA LivePlaces ==
  ASSUME NEW e, InTurn(e), ~Wrapped(e)
  PROVE  /\ e.count \in 0 .. ELEMENT_NUM
         /\ NextIndex(e.indx) = (e.outdx + e.count) % ELEMENT_NUM
<1>1. e.count \in 0 .. ELEMENT_NUM
  BY RingAssumption DEF InTurn, Wrapped, UINT32
<1>2. QED
  BY <1>1, NextFree DEF InTurn, FieldsAgree

(* An enqueue on a ring that is not full leaves every accepted message     *)
(* where it is.                                                            *)
LEMMA EnqueueKeepsLive ==
  ASSUME NEW e, NEW f, NEW m, InTurn(e), ~ipc_msgque_isfull(e), Stored(f, e, m),
         NEW i \in LiveSlots(e), NEW S, e.element \in [Index -> S]
  PROVE  f.element[i] = e.element[i] /\ i \in LiveSlots(f)
<1>1. /\ ELEMENT_NUM \in Nat \ {0}
      /\ e.count \in 0 .. ELEMENT_NUM - 1
      /\ ~Wrapped(e)
  BY RingAssumption DEF InTurn, UINT32, ipc_msgque_isfull, Wrapped
<1>2. PICK k \in 0 .. e.count - 1 : i = (e.outdx + k) % ELEMENT_NUM
  BY <1>1 DEF LiveSlots
<1>3. i # NextIndex(e.indx)
  BY <1>1, <1>2, LivePlaces, PlacesDiffer DEF InTurn
<1>4. i \in Index
  BY <1>1, <1>2, PlaceValue DEF InTurn
<1>5. f.element[i] = e.element[i]
  BY <1>3, <1>4 DEF Stored
<1>6. ~Wrapped(f) /\ k \in 0 .. f.count - 1
  BY <1>1 DEF Stored, Wrapped
<1>7. QED
  BY <1>2, <1>5, <1>6 DEF LiveSlots, Stored

(* A dequeue on a ring that isempty does not call empty takes the oldest   *)
(* accepted message and no other.                                          *)
LEMMA DequeueKeepsLive ==
  ASSUME NEW e, NEW f, InTurn(e), Removed(f, e), NEW i \in LiveSlots(e)
  PROVE  i = e.outdx \/ i \in LiveSlots(f)
<1>1. /\ ELEMENT_NUM \in Nat \ {0}
      /\ e.count \in 0 .. ELEMENT_NUM
      /\ ~Wrapped(e)
  BY RingAssumption DEF InTurn, UINT32, LiveSlots, Wrapped
<1>2. PICK k \in 0 .. e.count - 1 : i = (e.outdx + k) % ELEMENT_NUM
  BY <1>1 DEF LiveSlots
<1>3. CASE k = 0
  <2>1. e.outdx \in 0 .. ELEMENT_NUM - 1
    BY DEF InTurn, Index
  <2>2. e.outdx + k = e.outdx
    BY <1>1, <1>3, <2>1
  <2>3. QED
    BY <1>1, <1>2, <2>1, <2>2, ModSmall
<1>4. CASE k # 0
  <2>1. f.count = e.count - 1
    BY <1>1, <1>2, CountDown DEF Removed, InTurn
  <2>2. k - 1 \in 0 .. f.count - 1 /\ ~Wrapped(f)
    BY <1>1, <1>4, <2>1 DEF Wrapped
  <2>3. (f.outdx + (k - 1)) % ELEMENT_NUM = (e.outdx + ((k - 1) + 1)) % ELEMENT_NUM
    BY <1>1, <1>4, NextPlace DEF Removed, InTurn
  <2>4. (k - 1) + 1 = k
    OBVIOUS
  <2>5. QED
    BY <1>2, <2>2, <2>3, <2>4 DEF LiveSlots
<1>5. QED
  BY <1>3, <1>4


(* The accepted messages as a sequence.                                    *)
LEMMA ContentsOf ==
  ASSUME NEW e, InTurn(e), NEW S, e.element \in [Index -> S]
  PROVE  /\ Contents(e) \in Seq(S)
         /\ Wrapped(e) => Contents(e) = << >>
         /\ ~Wrapped(e) =>
              /\ Len(Contents(e)) = e.count
              /\ \A j \in 1 .. e.count :
                   Contents(e)[j] = e.element[(e.outdx + (j - 1)) % ELEMENT_NUM]
<1>1. CASE Wrapped(e)
  BY <1>1, EmptySeq DEF Contents
<1>2. CASE ~Wrapped(e)
  <2>1. /\ ELEMENT_NUM \in Nat \ {0}
        /\ e.count \in 0 .. ELEMENT_NUM
        /\ e.outdx \in Index
    BY <1>2, LivePlaces, RingAssumption DEF InTurn
  <2>2. Contents(e) = [j \in 1 .. e.count |->
                         e.element[(e.outdx + j - 1) % ELEMENT_NUM]]
    BY <1>2 DEF Contents
  <2>3. ASSUME NEW j \in 1 .. e.count
        PROVE  /\ e.outdx + j - 1 = e.outdx + (j - 1)
               /\ (e.outdx + (j - 1)) % ELEMENT_NUM \in Index
    <3>1. j - 1 \in 0 .. ELEMENT_NUM
      BY <2>1
    <3>2. e.outdx + j - 1 = e.outdx + (j - 1)
      BY <2>1 DEF Index
    <3>3. QED
      BY <2>1, <3>1, <3>2, PlaceValue
  <2>4. Contents(e) \in [1 .. e.count -> S]
    BY <2>2, <2>3
  <2>5. Contents(e) \in Seq(S) /\ Len(Contents(e)) = e.count
    BY <2>1, <2>4
  <2>6. QED
    BY <1>2, <2>2, <2>3, <2>5
<1>3. QED
  BY <1>1, <1>2

(* An enqueue appends to them.                                             *)
LEMMA EnqueueAppends ==
  ASSUME NEW e, NEW f, NEW S, NEW m \in S, InTurn(e), InTurn(f),
         e.element \in [Index -> S], ~ipc_msgque_isfull(e), Stored(f, e, m)
  PROVE  /\ ~Wrapped(e) /\ ~Wrapped(f)
         /\ Len(Contents(e)) < ELEMENT_NUM
         /\ Contents(f) = Append(Contents(e), m)
<1>1. /\ ELEMENT_NUM \in Nat \ {0}
      /\ e.count \in 0 .. ELEMENT_NUM - 1
      /\ f.count = e.count + 1
      /\ ~Wrapped(e) /\ ~Wrapped(f)
  BY RingAssumption DEF InTurn, UINT32, ipc_msgque_isfull, Wrapped, Stored
<1>2. NextIndex(e.indx) \in Index /\ NextIndex(e.indx) = (e.outdx + e.count) % ELEMENT_NUM
  BY <1>1, LivePlaces, NextIndexValue DEF InTurn
<1>3. f.element \in [Index -> S]
  BY <1>2 DEF Stored
<1>4. /\ Contents(e) \in Seq(S) /\ Len(Contents(e)) = e.count
      /\ \A j \in 1 .. e.count :
           Contents(e)[j] = e.element[(e.outdx + (j - 1)) % ELEMENT_NUM]
  BY <1>1, ContentsOf
<1>5. /\ Contents(f) \in Seq(S) /\ Len(Contents(f)) = f.count
      /\ \A j \in 1 .. f.count :
           Contents(f)[j] = f.element[(e.outdx + (j - 1)) % ELEMENT_NUM]
  <2>1. f.outdx = e.outdx
    BY DEF Stored
  <2>2. QED
    BY <1>1, <1>3, <2>1, ContentsOf
<1>6. /\ Append(Contents(e), m) \in Seq(S)
      /\ Len(Append(Contents(e), m)) = e.count + 1
      /\ \A j \in 1 .. e.count : Append(Contents(e), m)[j] = Contents(e)[j]
      /\ Append(Contents(e), m)[e.count + 1] = m
  BY <1>4, AppendProperties
<1>7. ASSUME NEW j \in 1 .. f.count
      PROVE  Contents(f)[j] = Append(Contents(e), m)[j]
  <2>1. CASE j = f.count
    <3>1. (e.outdx + (j - 1)) % ELEMENT_NUM = NextIndex(e.indx)
      BY <1>1, <1>2, <2>1
    <3>2. f.element[NextIndex(e.indx)] = m
      BY <1>2 DEF Stored
    <3>3. QED
      BY <1>1, <1>5, <1>6, <2>1, <3>1, <3>2
  <2>2. CASE j # f.count
    <3>1. j \in 1 .. e.count /\ j - 1 \in 0 .. e.count - 1
      BY <1>1, <2>2
    <3>2. (e.outdx + (j - 1)) % ELEMENT_NUM # NextIndex(e.indx)
      BY <1>1, <1>2, <3>1, PlacesDiffer DEF InTurn
    <3>3. (e.outdx + (j - 1)) % ELEMENT_NUM \in Index
      <4>1. j - 1 \in 0 .. ELEMENT_NUM
        BY <1>1, <3>1
      <4>2. QED
        BY <4>1, PlaceValue DEF InTurn
    <3>4. f.element[(e.outdx + (j - 1)) % ELEMENT_NUM]
            = e.element[(e.outdx + (j - 1)) % ELEMENT_NUM]
      BY <3>2, <3>3 DEF Stored
    <3>5. QED
      BY <1>4, <1>5, <1>6, <3>1, <3>4
  <2>3. QED
    BY <2>1, <2>2
<1>8. Contents(f) = Append(Contents(e), m)
  BY <1>1, <1>5, <1>6, <1>7, SeqEqual
<1>9. QED
  BY <1>1, <1>4, <1>8

(* A dequeue takes the first of them.                                      *)
LEMMA DequeueTakes ==
  ASSUME NEW e, NEW f, NEW S, InTurn(e), InTurn(f), e.element \in [Index -> S],
         Removed(f, e), ~Wrapped(e), e.count # 0
  PROVE  /\ ~Wrapped(f)
         /\ Contents(e) # << >>
         /\ Front(e) = Head(Contents(e))
         /\ Contents(f) = Tail(Contents(e))
<1>1. /\ ELEMENT_NUM \in Nat \ {0}
      /\ e.count \in 1 .. ELEMENT_NUM
  BY LivePlaces, RingAssumption
<1>2. f.count = e.count - 1 /\ f.element = e.element
  BY <1>1, CountDown DEF Removed, InTurn
<1>3. ~Wrapped(f)
  BY <1>1, <1>2 DEF Wrapped
<1>4. /\ Contents(e) \in Seq(S) /\ Len(Contents(e)) = e.count
      /\ \A j \in 1 .. e.count :
           Contents(e)[j] = e.element[(e.outdx + (j - 1)) % ELEMENT_NUM]
  BY ContentsOf
<1>5. /\ Contents(f) \in Seq(S) /\ Len(Contents(f)) = f.count
      /\ \A j \in 1 .. f.count :
           Contents(f)[j] = e.element[(f.outdx + (j - 1)) % ELEMENT_NUM]
  BY <1>2, <1>3, ContentsOf
<1>6. Contents(e) # << >>
  BY <1>1, <1>4, EmptySeq
<1>7. Front(e) = Head(Contents(e))
  <2>1. Head(Contents(e)) = Contents(e)[1]
    BY <1>4, <1>6
  <2>2. 1 \in 1 .. e.count /\ e.outdx \in 0 .. ELEMENT_NUM - 1
    BY <1>1 DEF InTurn, Index
  <2>3. e.outdx + (1 - 1) = e.outdx
    BY <1>1, <2>2
  <2>4. e.outdx % ELEMENT_NUM = e.outdx
    BY <1>1, <2>2, ModSmall
  <2>5. QED
    BY <1>4, <2>1, <2>2, <2>3, <2>4 DEF Front
<1>8. /\ Tail(Contents(e)) \in Seq(S)
      /\ Len(Tail(Contents(e))) = f.count
      /\ \A j \in 1 .. f.count : Tail(Contents(e))[j] = Contents(e)[j + 1]
  BY <1>2, <1>4, <1>6, HeadTailProperties
<1>9. ASSUME NEW j \in 1 .. f.count
      PROVE  Contents(f)[j] = Tail(Contents(e))[j]
  <2>1. j + 1 \in 1 .. e.count /\ j - 1 \in 0 .. ELEMENT_NUM - 1
    BY <1>1, <1>2
  <2>2. (f.outdx + (j - 1)) % ELEMENT_NUM = (e.outdx + ((j - 1) + 1)) % ELEMENT_NUM
    BY <2>1, NextPlace DEF Removed, InTurn
  <2>3. (j - 1) + 1 = (j + 1) - 1
    BY <2>1
  <2>4. QED
    BY <1>4, <1>5, <1>8, <2>1, <2>2, <2>3
<1>10. Contents(f) = Tail(Contents(e))
  BY <1>5, <1>8, <1>9, SeqEqual
<1>11. QED
  BY <1>3, <1>6, <1>7, <1>10

(* A dequeue from a ring without messages takes count below zero, or       *)
(* leaves it there.                                                        *)
LEMMA DequeueWedges ==
  ASSUME NEW e, NEW f, NEW S, InTurn(e), e.element \in [Index -> S],
         ~ipc_msgque_isempty(e), Removed(f, e), Wrapped(e) \/ e.count = 0
  PROVE  /\ Contents(e) = << >>
         /\ Contents(f) = << >>
         /\ Wrapped(f)
<1>1. /\ ELEMENT_NUM \in Nat \ {0} /\ UINT32_MOD \in Nat
      /\ 2 * ELEMENT_NUM <= UINT32_MOD
      /\ e.indx \in Index /\ e.outdx \in Index /\ e.indx # e.outdx
  BY RingAssumption DEF InTurn, ipc_msgque_isempty
<1>2. Contents(e) = << >>
  <2>1. CASE Wrapped(e)
    BY <2>1, ContentsOf
  <2>2. CASE ~Wrapped(e)
    BY <2>2, ContentsOf, EmptySeq
  <2>3. QED
    BY <2>1, <2>2
<1>3. Wrapped(f)
  <2>1. CASE e.count = 0
    <3>1. f.count = UINT32_MOD - 1
      BY <1>1, <2>1, CountDown DEF InTurn, Removed
    <3>2. ELEMENT_NUM > 1
      BY <1>1 DEF Index
    <3>3. QED
      BY <1>1, <3>1, <3>2 DEF Wrapped
  <2>2. CASE Wrapped(e)
    BY <1>1, <2>2, DequeueAgrees DEF InTurn, FieldsAgree, Wrapped, Removed
  <2>3. QED
    BY <2>1, <2>2
<1>4. QED
  BY <1>2, <1>3 DEF Contents
=============================================================================
