-------------------------- MODULE IpcMsgqueProofs --------------------------
(***************************************************************************)
(* Theorems about the queue table of IpcMsgque and the lookups of          *)
(* IpcLookup for every set of threads, keys and names, every size of the   *)
(* table and of its rings, and lemmas about the steps of the table in      *)
(* either build, which IpcReceiveProofs and IpcDriverProofs use again.     *)
(***************************************************************************)
EXTENDS IpcLookup, MsgRingLemmas, WellFoundedInduction

(* The table has a slot, and slots are numbers.                            *)
LEMMA SlotsAreNat == 0 \in Slots /\ Slots \subseteq Nat
  BY SizeAssumption DEF Slots

(* The loops over the table find a slot if there is one.                   *)
LEMMA FirstIsIn ==
  ASSUME NEW S \in SUBSET Slots, S # {}
  PROVE  First(S) \in S
<1> DEFINE R == OpToRel(<, Nat)
<1>1. R = {ss \in Nat \X Nat : ss[1] < ss[2]}
  BY DEF OpToRel
<1>2. IsWellFoundedOn(R, Nat)
  BY NatLessThanWellFounded
<1> HIDE DEF R
<1>3. S \subseteq Nat
  BY SlotsAreNat
<1>4. \E x \in S : \A y \in S : <<y, x>> \notin R
  BY <1>2, <1>3, WFMin
<1>5. \A x, y \in S : <<y, x>> \notin R => x <= y
  <2> SUFFICES ASSUME NEW x \in S, NEW y \in S, y < x
               PROVE  <<y, x>> \in R
    BY <1>3
  <2>1. <<y, x>> \in Nat \X Nat /\ <<y, x>>[1] < <<y, x>>[2]
    BY <1>3
  <2>2. QED
    BY <1>1, <2>1, Zenon
<1>6. QED
  BY <1>4, <1>5 DEF First

-----------------------------------------------------------------------------
(***************************************************************************)
(* The invariant.                                                          *)
(***************************************************************************)

(* All labels a thread can be at, those of IpcReceive among them.          *)
Places == TablePlaces \cup {"test", "prep", "asleep", "woken", "recheck", "deq"}

Located == pc \in [Threads -> Places]

(* A get between its two stores holds the lock, and no other queue that    *)
(* looks registered has its key.                                           *)
FillsAlone ==
  \A t \in Threads :
    pc[t] = "fill" =>
      /\ SMP /\ lock = t /\ loc[t].key \in Keys
      /\ \A r \in Slots \ {loc[t].slot} : ~ipc_msgque_isvalid(r, loc[t].key)

(* Keys and ids are stored together, and neither is ever cleared.          *)
IdsFilled == \A s \in Slots : msgQueTbl[s].sharekey \in Keys => msgQueTbl[s].msqid = s

Registry == FillsAlone /\ KeysUnique /\ IdsFilled

TableInv == TableDataOK /\ Located /\ RingsAgree /\ Registry

Indices == 0 \in Slots /\ 0 \in Index /\ ELEMENT_NUM - 1 \in Index /\ 0 \in UINT32

(* What ipc_msgque_get stores lies in the range of its field.              *)
LEMMA IndicesThere == Indices
  BY RingAssumption, SlotsAreNat DEF Indices, Index, UINT32

(* The fields of a slot.                                                   *)
LEMMA SlotTypes ==
  ASSUME TableDataOK, NEW s \in Slots
  PROVE  /\ msgQueTbl[s] \in Queue
         /\ msgQueTbl[s].initkey \in BOOLEAN
         /\ msgQueTbl[s].sharekey \in Keys \cup {NoKey}
         /\ msgQueTbl[s].msqid \in Slots
         /\ msgQueTbl[s].indx \in Index
         /\ msgQueTbl[s].outdx \in Index
         /\ msgQueTbl[s].count \in UINT32
         /\ msgQueTbl[s].element \in [Index -> Element]
  BY DEF TableDataOK, Queue

(* What ipc_msgque_get leaves in a slot: one assignment after the other.   *)
LEMMA RegisteredQueue ==
  ASSUME TableDataOK, NEW s \in Slots, NEW k \in Keys
  PROVE  /\ Registered(s, k) \in Queue
         /\ Registered(s, k).initkey = TRUE
         /\ Registered(s, k).sharekey = k
         /\ Registered(s, k).msqid = s
         /\ FieldsAgree(Registered(s, k))
<1> DEFINE e0 == msgQueTbl[s]
           e1 == [e0 EXCEPT !.indx = ELEMENT_NUM - 1]
           e2 == [e1 EXCEPT !.outdx = 0]
           e3 == [e2 EXCEPT !.count = 0]
           e4 == [e3 EXCEPT !.initkey = TRUE]
           e5 == [e4 EXCEPT !.msqid = s]
           e6 == [e5 EXCEPT !.sharekey = k]
<1>0. Indices
  BY IndicesThere
<1>1. e0 \in Queue
  BY SlotTypes
<1>2. Registered(s, k) = e6
  BY DEF Registered, RingReset
<1> HIDE DEF e0
<1>3. e1 \in Queue /\ e1.indx = ELEMENT_NUM - 1
  BY <1>0, <1>1 DEF Queue, Indices
<1> HIDE DEF e1
<1>4. e2 \in Queue /\ e2.indx = e1.indx /\ e2.outdx = 0
  BY <1>0, <1>3 DEF Queue, Indices
<1> HIDE DEF e2
<1>5. e3 \in Queue /\ e3.indx = e2.indx /\ e3.outdx = e2.outdx /\ e3.count = 0
  BY <1>0, <1>4 DEF Queue, Indices
<1> HIDE DEF e3
<1>6. /\ e4 \in Queue /\ e4.initkey = TRUE
      /\ e4.indx = e3.indx /\ e4.outdx = e3.outdx /\ e4.count = e3.count
  BY <1>5 DEF Queue
<1> HIDE DEF e4
<1>7. /\ e5 \in Queue /\ e5.initkey = e4.initkey /\ e5.msqid = s
      /\ e5.indx = e4.indx /\ e5.outdx = e4.outdx /\ e5.count = e4.count
  BY <1>6 DEF Queue
<1> HIDE DEF e5
<1>8. /\ e6 \in Queue /\ e6.initkey = e5.initkey /\ e6.msqid = e5.msqid
      /\ e6.sharekey = k
      /\ e6.indx = e5.indx /\ e6.outdx = e5.outdx /\ e6.count = e5.count
  BY <1>7 DEF Queue
<1> HIDE DEF e6
<1>9. e6.indx = ELEMENT_NUM - 1 /\ e6.outdx = 0 /\ e6.count = 0
  BY <1>3, <1>4, <1>5, <1>6, <1>7, <1>8
<1>10. FieldsAgree(e6)
  BY <1>9, ResetAgrees DEF FieldsAgree
<1>11. QED
  BY <1>2, <1>6, <1>7, <1>8, <1>10

(* ipc_msgque_init leaves a table without queues.                          *)
LEMMA InitTableInv == TableInit => TableInv
<1> SUFFICES ASSUME TableInit PROVE TableInv
  OBVIOUS
<1>1. PICK e \in Leftovers :
        msgQueTbl = [s \in Slots |->
          [initkey |-> FALSE, sharekey |-> NoKey, msqid |-> 0,
           indx |-> ELEMENT_NUM - 1, outdx |-> 0, count |-> 0,
           element |-> [i \in Index |-> e]]]
  BY DEF TableInit
<1>2. msgQueTbl \in [Slots -> Queue]
  BY <1>1, IndicesThere DEF Queue, Indices, Element
<1>3. TableDataOK
  <2>1. msgQueTokenStr \in [Slots -> Paths \cup {NoToken}] /\ tail \in [Slots -> Tails]
    BY DEF TableInit
  <2>2. loc \in [Threads -> [slot : Slots, key : Keys \cup {NoKey}]]
    BY SlotsAreNat DEF TableInit, NoLocals
  <2>3. ret \in [Threads -> Int] /\ lock \in Threads \cup {Free, IRQ}
    BY DEF TableInit
  <2>4. QED
    BY <1>2, <2>1, <2>2, <2>3 DEF TableDataOK
<1>4. Located
  BY DEF TableInit, Located, Places, TablePlaces
<1>5. RingsAgree
  BY <1>1, ResetAgrees DEF RingsAgree, FieldsAgree
<1>6. Registry
  <2>1. NoKey \notin Keys
    BY KeyAssumption DEF NoKey
  <2>2. QED
    BY <1>1, <2>1
    DEF TableInit, Registry, FillsAlone, KeysUnique, IdsFilled, Settled
<1>7. QED
  BY <1>3, <1>4, <1>5, <1>6 DEF TableInv

-----------------------------------------------------------------------------
(***************************************************************************)
(* Steps that neither register nor release a queue.                        *)
(***************************************************************************)

(* No get begins or ends, keys and ids stay.                               *)
LEMMA RegistryKept ==
  ASSUME Registry,
         \A s \in Slots :
           /\ msgQueTbl'[s].initkey = msgQueTbl[s].initkey
           /\ msgQueTbl'[s].sharekey = msgQueTbl[s].sharekey
           /\ msgQueTbl'[s].msqid = msgQueTbl[s].msqid,
         \A t \in Threads :
           /\ pc'[t] = "fill" <=> pc[t] = "fill"
           /\ pc[t] = "fill" => loc'[t] = loc[t] /\ lock' = lock
  PROVE  Registry'
<1>1. \A s \in Slots : Settled(s)' <=> Settled(s)
  BY DEF Settled
<1>2. FillsAlone'
  BY DEF Registry, FillsAlone, ipc_msgque_isvalid
<1>3. KeysUnique' /\ IdsFilled'
  BY <1>1 DEF Registry, KeysUnique, IdsFilled
<1>4. QED
  BY <1>2, <1>3 DEF Registry

(* The table stays as it is.                                               *)
LEMMA TableKept ==
  ASSUME TableInv, UNCHANGED msgQueTbl, TableDataOK', Located',
         \A t \in Threads :
           /\ pc'[t] = "fill" <=> pc[t] = "fill"
           /\ pc[t] = "fill" => loc'[t] = loc[t] /\ lock' = lock
  PROVE  TableInv'
<1>1. Registry'
  BY RegistryKept DEF TableInv
<1>2. RingsAgree'
  BY DEF TableInv, RingsAgree
<1>3. QED
  BY <1>1, <1>2 DEF TableInv

(* A thread that was not at "fill" comes back from its call.               *)
LEMMA ReturnKept ==
  ASSUME TableDataOK, Located, NEW t \in Threads, NEW v \in Int, Return(t, v),
         pc[t] # "fill"
  PROVE  /\ pc' \in [Threads -> Places]
         /\ loc' \in [Threads -> [slot : Slots, key : Keys \cup {NoKey}]]
         /\ ret' \in [Threads -> Int]
         /\ \A u \in Threads :
              /\ pc'[u] = "fill" <=> pc[u] = "fill"
              /\ pc[u] = "fill" => loc'[u] = loc[u]
<1>1. NoLocals \in [slot : Slots, key : Keys \cup {NoKey}]
  BY IndicesThere DEF NoLocals, Indices
<1>2. QED
  BY <1>1 DEF TableDataOK, Located, Places, TablePlaces, Return

(***************************************************************************)
(* Calls of the table.                                                     *)
(***************************************************************************)

(* A key can be returned like an error code.                               *)
LEMMA KeysAreInts == Keys \subseteq Int
  BY KeyAssumption

(* ipc_msgque_ftok returns a number.                                       *)
LEMMA HashIsKey == \A p \in Paths : ipc_msgque_namehash(p) \in Int
  BY HashAssumption, KeysAreInts

(* A call that looks, or fails, and leaves the table as it is.             *)
LEMMA QuietCall ==
  ASSUME TableInv, NEW t \in Threads, NEW v \in Int, Return(t, v),
         pc[t] # "fill", UNCHANGED <<msgQueTbl, tail>>,
         msgQueTokenStr' \in [Slots -> Paths \cup {NoToken}],
         \/ UNCHANGED lock
         \/ lock = Free /\ LeakLock(t)
  PROVE  TableInv'
<1>1. TableDataOK /\ Located /\ FillsAlone
  BY DEF TableInv, Registry
<1>2. lock' \in Threads \cup {Free, IRQ}
  BY <1>1 DEF TableDataOK, LeakLock
<1>3. \A u \in Threads : pc[u] = "fill" => lock' = lock
  BY <1>1, NamesAssumption DEF FillsAlone
<1>4. TableDataOK' /\ Located'
  BY <1>1, <1>2, ReturnKept DEF TableDataOK, Located
<1>5. QED
  BY <1>1, <1>3, <1>4, ReturnKept, TableKept

(* ipc_msgque_ftok, which may record a name.                               *)
LEMMA FtokInv ==
  ASSUME TableInv, NEW t \in Threads, NEW p \in Paths, ipc_msgque_ftok(t, p)
  PROVE  TableInv'
<1>1. msgQueTokenStr \in [Slots -> Paths \cup {NoToken}]
  BY DEF TableInv, TableDataOK
<1>2. msgQueTokenStr' \in [Slots -> Paths \cup {NoToken}]
  BY <1>1 DEF ipc_msgque_ftok, names
<1>3. QED
  BY <1>2, HashIsKey, QuietCall DEF ipc_msgque_ftok, names

(* ipc_msgque_get that fails.                                              *)
LEMMA GetRefusedInv ==
  ASSUME TableInv, NEW t \in Threads, NEW k \in Keys, GetRefused(t, k)
  PROVE  TableInv'
<1>1. PICK v \in Int : Return(t, v)
  BY DEF GetRefused
<1>2. QED
  BY <1>1, QuietCall DEF GetRefused, names, TableInv, TableDataOK

(* ipc_msgque_rel that fails.                                              *)
LEMMA RelRefusedInv ==
  ASSUME TableInv, NEW t \in Threads, NEW id,
         RelUnregistered(t, id) \/ RelNoToken(t, id)
  PROVE  TableInv'
<1>1. PICK v \in Int : Return(t, v)
  BY DEF RelUnregistered, RelNoToken
<1>2. QED
  BY <1>1, QuietCall DEF RelUnregistered, RelNoToken, names, TableInv, TableDataOK

(* ipc_msgque_getIDbyKey begins its loop.                                  *)
LEMMA ScanStartInv ==
  ASSUME TableInv, NEW t \in Threads, NEW k \in Keys, ScanStart(t, k)
  PROVE  TableInv'
<1>1. TableDataOK /\ Located
  BY DEF TableInv
<1>2. loc' \in [Threads -> [slot : Slots, key : Keys \cup {NoKey}]]
  BY <1>1, SlotsAreNat DEF TableDataOK, ScanStart
<1>3. TableDataOK' /\ Located'
  BY <1>1, <1>2 DEF TableDataOK, ScanStart, Located, Places, TablePlaces, InLookup, names
<1>4. \A u \in Threads :
        /\ pc'[u] = "fill" <=> pc[u] = "fill"
        /\ pc[u] = "fill" => loc'[u] = loc[u]
  BY <1>1 DEF TableDataOK, ScanStart, Located
<1>5. QED
  BY <1>3, <1>4, TableKept DEF ScanStart

(* The loop goes on to the next slot, or ends.                             *)
LEMMA ScanNextInv ==
  ASSUME TableInv, NEW t \in Threads, pc[t] \in InLookup, ScanNext(t),
         UNCHANGED <<msgQueTbl, names, lock>>
  PROVE  TableInv'
<1>1. TableDataOK /\ Located /\ loc[t].slot \in Slots /\ pc[t] # "fill"
  BY DEF TableInv, TableDataOK, InLookup
<1>2. CASE Return(t, -3)
  BY <1>1, <1>2, QuietCall DEF names, TableDataOK
<1>3. CASE /\ loc[t].slot + 1 < QUEUE_NUM
           /\ pc' = [pc EXCEPT ![t] = "scan"]
           /\ loc' = [loc EXCEPT ![t].slot = loc[t].slot + 1]
           /\ UNCHANGED ret
  <2>1. loc[t].slot + 1 \in Slots
    BY <1>1, <1>3, SizeAssumption DEF Slots
  <2>2. loc' \in [Threads -> [slot : Slots, key : Keys \cup {NoKey}]]
    BY <1>1, <1>3, <2>1 DEF TableDataOK
  <2>3. TableDataOK' /\ Located'
    BY <1>1, <1>3, <2>2 DEF TableDataOK, Located, Places, TablePlaces, InLookup, names
  <2>4. \A u \in Threads :
          /\ pc'[u] = "fill" <=> pc[u] = "fill"
          /\ pc[u] = "fill" => loc'[u] = loc[u]
    BY <1>1, <1>3 DEF TableDataOK, Located
  <2>5. QED
    BY <2>3, <2>4, TableKept
<1>4. QED
  BY <1>2, <1>3 DEF ScanNext

(* A read that makes the loop look closer.                                 *)
LEMMA ScanMoveInv ==
  ASSUME TableInv, NEW t \in Threads, pc[t] \in InLookup,
         NEW l \in InLookup, pc' = [pc EXCEPT ![t] = l],
         UNCHANGED <<msgQueTbl, names, lock, loc, ret>>
  PROVE  TableInv'
<1>1. TableDataOK /\ Located /\ l # "fill" /\ pc[t] # "fill"
  BY DEF TableInv, InLookup
<1>2. TableDataOK' /\ Located'
  BY <1>1 DEF TableDataOK, Located, Places, TablePlaces, names
<1>3. \A u \in Threads : pc'[u] = "fill" <=> pc[u] = "fill"
  BY <1>1 DEF Located
<1>4. QED
  BY <1>2, <1>3, TableKept

(* The steps of ipc_msgque_getIDbyKey.                                     *)
LEMMA ScanInv ==
  ASSUME TableInv, NEW t \in Threads, TableStep(t)
  PROVE  TableInv'
<1>1. CASE ScanSlot(t)
  BY <1>1, ScanNextInv, ScanMoveInv DEF ScanSlot, InLookup
<1>2. CASE ScanKey(t)
  BY <1>2, ScanNextInv, ScanMoveInv DEF ScanKey, InLookup
<1>3. CASE ScanFound(t)
  <2>1. msgQueTbl[loc[t].slot].msqid \in Int
    BY SlotTypes, SlotsAreNat DEF TableInv, TableDataOK, Slots
  <2>2. QED
    BY <1>3, <2>1, QuietCall DEF ScanFound, names, TableInv, TableDataOK
<1>4. QED
  BY <1>1, <1>2, <1>3 DEF TableStep

(* The loop of ipc_msgque_get finds slots of the table.                    *)
LEMMA FreeQueuesAreSlots == FreeQueues \subseteq Slots
  BY DEF FreeQueues

(* No get is between its stores where the lock is free, or is none.        *)
LEMMA NobodyFills ==
  ASSUME FillsAlone, lock = Free \/ ~SMP
  PROVE  \A t \in Threads : pc[t] # "fill"
  BY NamesAssumption DEF FillsAlone

(* One processor: slot and key are registered in one step.                 *)
LEMMA GetAtOnceInv ==
  ASSUME TableInv, NEW t \in Threads, NEW k \in Keys, GetAtOnce(t, k)
  PROVE  TableInv'
<1> DEFINE s == First(FreeQueues)
<1>1. TableDataOK /\ Located /\ Registry /\ RingsAgree
  BY DEF TableInv
<1>2. /\ s \in Slots /\ ~msgQueTbl[s].initkey
      /\ msgQueTbl' = [msgQueTbl EXCEPT ![s] = Registered(s, k)]
      /\ Return(t, s) /\ UNCHANGED <<names, lock>>
      /\ \A r \in Slots : ~ipc_msgque_isvalid(r, k)
      /\ ~SMP /\ pc[t] # "fill"
  <2>1. s \in FreeQueues
    BY FreeQueuesAreSlots, FirstIsIn DEF GetAtOnce
  <2>2. QED
    BY <2>1 DEF GetAtOnce, FreeQueues, QueuesWithKey
<1> HIDE DEF s
<1>3. /\ msgQueTbl'[s] = Registered(s, k)
      /\ \A r \in Slots \ {s} : msgQueTbl'[r] = msgQueTbl[r]
      /\ msgQueTbl' \in [Slots -> Queue]
  BY <1>1, <1>2, RegisteredQueue DEF TableDataOK
<1>4. TableDataOK' /\ Located'
  <2>1. s \in Int
    BY <1>2, SlotsAreNat
  <2>2. QED
    BY <1>1, <1>2, <1>3, <2>1, ReturnKept DEF TableDataOK, Located, names
<1>5. RingsAgree'
  BY <1>1, <1>2, <1>3, RegisteredQueue DEF RingsAgree
<1>6. \A u \in Threads : pc[u] # "fill" /\ pc'[u] # "fill"
  <2>1. \A u \in Threads : pc[u] # "fill"
    BY <1>1, <1>2, NobodyFills DEF Registry
  <2>2. s \in Int
    BY <1>2, SlotsAreNat
  <2>3. QED
    BY <1>1, <1>2, <2>1, <2>2, ReturnKept
<1>7. /\ \A r \in Slots : Settled(r) <=> msgQueTbl[r].initkey
      /\ \A r \in Slots : Settled(r)' <=> msgQueTbl'[r].initkey
  BY <1>1, <1>3, <1>6, SlotTypes DEF Settled, Queue
<1>8. KeysUnique'
  <2>1. msgQueTbl'[s].sharekey = k
    BY <1>1, <1>2, <1>3, RegisteredQueue
  <2>2. \A r \in Slots \ {s} : Settled(r)' => Settled(r) /\ msgQueTbl'[r].sharekey # k
    BY <1>2, <1>3, <1>7 DEF ipc_msgque_isvalid
  <2>3. QED
    BY <1>1, <1>3, <2>1, <2>2 DEF Registry, KeysUnique
<1>9. IdsFilled'
  <2>1. msgQueTbl'[s].msqid = s
    BY <1>1, <1>2, <1>3, RegisteredQueue
  <2>2. QED
    BY <1>1, <1>3, <1>7, <2>1 DEF Registry, IdsFilled
<1>10. FillsAlone'
  BY <1>6 DEF FillsAlone
<1>11. QED
  BY <1>4, <1>5, <1>8, <1>9, <1>10 DEF TableInv, Registry

(* Several processors: the slot looks registered before it has the key.    *)
LEMMA GetPublishInv ==
  ASSUME TableInv, NEW t \in Threads, NEW k \in Keys, GetPublish(t, k)
  PROVE  TableInv'
<1> DEFINE s == First(FreeQueues)
<1>1. TableDataOK /\ Located /\ Registry /\ RingsAgree
  BY DEF TableInv
<1>2. /\ s \in Slots
      /\ msgQueTbl' = [msgQueTbl EXCEPT ![s].initkey = TRUE]
      /\ loc' = [loc EXCEPT ![t] = [slot |-> s, key |-> k]]
      /\ pc' = [pc EXCEPT ![t] = "fill"]
      /\ SMP /\ lock = Free /\ lock' = t
      /\ UNCHANGED <<names, ret>>
      /\ \A r \in Slots : ~ipc_msgque_isvalid(r, k)
  <2>1. s \in FreeQueues
    BY FreeQueuesAreSlots, FirstIsIn DEF GetPublish
  <2>2. QED
    BY <2>1 DEF GetPublish, FreeQueues, QueuesWithKey
<1> HIDE DEF s
<1>3. msgQueTbl' \in [Slots -> Queue]
  <2>1. msgQueTbl[s] \in Queue
    BY <1>1, <1>2, SlotTypes
  <2>2. [msgQueTbl[s] EXCEPT !.initkey = TRUE] \in Queue
    BY <2>1 DEF Queue
  <2>3. QED
    BY <1>1, <1>2, <2>2 DEF TableDataOK
<1>4. /\ \A r \in Slots \ {s} : msgQueTbl'[r] = msgQueTbl[r]
      /\ \A r \in Slots :
           /\ msgQueTbl'[r].sharekey = msgQueTbl[r].sharekey
           /\ msgQueTbl'[r].msqid = msgQueTbl[r].msqid
           /\ msgQueTbl'[r].indx = msgQueTbl[r].indx
           /\ msgQueTbl'[r].outdx = msgQueTbl[r].outdx
           /\ msgQueTbl'[r].count = msgQueTbl[r].count
  BY <1>1, <1>2, SlotTypes DEF TableDataOK, Queue
<1>5. /\ pc'[t] = "fill" /\ loc'[t].slot = s /\ loc'[t].key = k
      /\ \A u \in Threads \ {t} : pc'[u] # "fill"
      /\ \A u \in Threads : pc[u] # "fill"
  <2>1. \A u \in Threads : pc[u] # "fill"
    BY <1>1, <1>2, NobodyFills DEF Registry
  <2>2. QED
    BY <1>1, <1>2, <2>1 DEF TableDataOK, Located
<1>6. TableDataOK' /\ Located'
  BY <1>1, <1>2, <1>3 DEF TableDataOK, Located, Places, TablePlaces, names
<1>7. RingsAgree'
  BY <1>1, <1>4 DEF RingsAgree, FieldsAgree
<1>8. \A r \in Slots : Settled(r)' => r # s /\ Settled(r)
  BY <1>4, <1>5 DEF Settled
<1>9. KeysUnique' /\ IdsFilled'
  BY <1>1, <1>4, <1>8 DEF Registry, KeysUnique, IdsFilled
<1>10. FillsAlone'
  BY <1>2, <1>4, <1>5 DEF FillsAlone, ipc_msgque_isvalid
<1>11. QED
  BY <1>6, <1>7, <1>9, <1>10 DEF TableInv, Registry

(* Several processors: the slot gets its key, id and empty ring.           *)
LEMMA GetFillInv ==
  ASSUME TableInv, NEW t \in Threads, GetFill(t)
  PROVE  TableInv'
<1> DEFINE s == loc[t].slot
           k == loc[t].key
<1>1. TableDataOK /\ Located /\ Registry /\ RingsAgree
  BY DEF TableInv
<1>2. /\ s \in Slots /\ k \in Keys /\ SMP /\ lock = t
      /\ \A r \in Slots \ {s} : ~ipc_msgque_isvalid(r, k)
      /\ \A u \in Threads \ {t} : pc[u] # "fill"
  BY <1>1 DEF GetFill, Registry, FillsAlone, TableDataOK
<1>3. /\ msgQueTbl' = [msgQueTbl EXCEPT ![s] = Registered(s, k)]
      /\ pc' = [pc EXCEPT ![t] = "idle"]
      /\ loc' = [loc EXCEPT ![t] = NoLocals]
      /\ ret' = [ret EXCEPT ![t] = s]
      /\ lock' = Free /\ UNCHANGED names /\ pc[t] = "fill"
  BY DEF GetFill, Return
<1> HIDE DEF s, k
<1>4. /\ Registered(s, k) \in Queue
      /\ Registered(s, k).sharekey = k
      /\ Registered(s, k).msqid = s
      /\ FieldsAgree(Registered(s, k))
  <2>1. TableDataOK /\ s \in Slots /\ k \in Keys
    BY <1>1, <1>2
  <2>2. QED
    BY <2>1, RegisteredQueue
<1>5. /\ msgQueTbl'[s] = Registered(s, k)
      /\ \A r \in Slots \ {s} : msgQueTbl'[r] = msgQueTbl[r]
      /\ msgQueTbl' \in [Slots -> Queue]
  BY <1>1, <1>2, <1>3, <1>4 DEF TableDataOK
<1>6. TableDataOK' /\ Located'
  <2>1. loc' \in [Threads -> [slot : Slots, key : Keys \cup {NoKey}]]
    BY <1>1, <1>3, SlotsAreNat DEF TableDataOK, NoLocals
  <2>2. s \in Int
    BY <1>2, SlotsAreNat
  <2>3. ret' \in [Threads -> Int]
    BY <1>1, <1>3, <2>2 DEF TableDataOK
  <2>4. QED
    BY <1>1, <1>3, <1>5, <2>1, <2>3 DEF TableDataOK, Located, Places, TablePlaces, names
<1>7. RingsAgree'
  BY <1>1, <1>2, <1>4, <1>5 DEF RingsAgree
<1>8. \A u \in Threads : pc'[u] # "fill"
  BY <1>1, <1>2, <1>3 DEF Located
<1>9. \A r \in Slots \ {s} : Settled(r)' => Settled(r) /\ msgQueTbl'[r].sharekey # k
  <2> SUFFICES ASSUME NEW r \in Slots \ {s}, Settled(r)'
               PROVE  Settled(r) /\ msgQueTbl'[r].sharekey # k
    OBVIOUS
  <2>1. msgQueTbl[r].initkey
    BY <1>5 DEF Settled
  <2>2. ~\E u \in Threads : pc[u] = "fill" /\ loc[u].slot = r
    BY <1>2 DEF s
  <2>3. QED
    BY <1>2, <1>5, <2>1, <2>2 DEF Settled, ipc_msgque_isvalid
<1>10. KeysUnique'
  <2>1. msgQueTbl'[s].sharekey = k
    BY <1>4, <1>5
  <2>2. QED
    BY <1>1, <1>5, <1>9, <2>1 DEF Registry, KeysUnique
<1>11. IdsFilled'
  <2>1. msgQueTbl'[s].msqid = s
    BY <1>4, <1>5
  <2>2. QED
    BY <1>1, <1>5, <1>9, <2>1 DEF Registry, IdsFilled
<1>12. FillsAlone'
  BY <1>8 DEF FillsAlone
<1>13. QED
  BY <1>6, <1>7, <1>10, <1>11, <1>12 DEF TableInv, Registry

(* ipc_msgque_rel that succeeds: the slot is free again.                   *)
LEMMA RelDoneInv ==
  ASSUME TableInv, NEW t \in Threads, NEW s \in Slots, RelDone(t, s)
  PROVE  TableInv'
<1>1. TableDataOK /\ Located /\ Registry /\ RingsAgree
  BY DEF TableInv
<1>2. /\ msgQueTbl' = [msgQueTbl EXCEPT ![s].initkey = FALSE]
      /\ Return(t, 0) /\ UNCHANGED <<tail, lock>> /\ lock = Free /\ pc[t] # "fill"
      /\ \E i : msgQueTokenStr' = [msgQueTokenStr EXCEPT ![i] = NoToken]
  BY DEF RelDone
<1>3. msgQueTbl' \in [Slots -> Queue]
  <2>1. msgQueTbl[s] \in Queue
    BY <1>1, SlotTypes
  <2>2. [msgQueTbl[s] EXCEPT !.initkey = FALSE] \in Queue
    BY <2>1 DEF Queue
  <2>3. QED
    BY <1>1, <1>2, <2>2 DEF TableDataOK
<1>4. /\ ~msgQueTbl'[s].initkey
      /\ \A r \in Slots \ {s} : msgQueTbl'[r] = msgQueTbl[r]
      /\ \A r \in Slots :
           /\ msgQueTbl'[r].sharekey = msgQueTbl[r].sharekey
           /\ msgQueTbl'[r].msqid = msgQueTbl[r].msqid
           /\ msgQueTbl'[r].indx = msgQueTbl[r].indx
           /\ msgQueTbl'[r].outdx = msgQueTbl[r].outdx
           /\ msgQueTbl'[r].count = msgQueTbl[r].count
  BY <1>1, <1>2, SlotTypes DEF TableDataOK, Queue
<1>5. TableDataOK' /\ Located'
  <2>1. msgQueTokenStr' \in [Slots -> Paths \cup {NoToken}]
    BY <1>1, <1>2 DEF TableDataOK
  <2>2. QED
    BY <1>1, <1>2, <1>3, <2>1, ReturnKept DEF TableDataOK, Located
<1>6. RingsAgree'
  BY <1>1, <1>4 DEF RingsAgree, FieldsAgree
<1>7. \A u \in Threads : pc[u] # "fill" /\ pc'[u] # "fill"
  <2>1. \A u \in Threads : pc[u] # "fill"
    BY <1>1, <1>2, NobodyFills DEF Registry
  <2>2. QED
    BY <1>1, <1>2, <2>1, ReturnKept
<1>8. \A r \in Slots : Settled(r)' => r # s /\ Settled(r)
  BY <1>4, <1>7 DEF Settled
<1>9. KeysUnique' /\ IdsFilled'
  BY <1>1, <1>4, <1>8 DEF Registry, KeysUnique, IdsFilled
<1>10. FillsAlone'
  BY <1>7 DEF FillsAlone
<1>11. QED
  BY <1>5, <1>6, <1>9, <1>10 DEF TableInv, Registry

(* Every step of the table, in either build.                               *)
LEMMA TableNextInv == TableInv /\ (TableNext \/ SmpNext) => TableInv'
  BY FtokInv, GetRefusedInv, GetAtOnceInv, ScanStartInv, RelRefusedInv, RelDoneInv,
     ScanInv, GetPublishInv, GetFillInv
  DEF TableNext, TableCall, ShortCall, SmpNext

(* Nothing happens to the table.                                           *)
LEMMA TableStutters == TableInv /\ UNCHANGED tableVars => TableInv'
<1> SUFFICES ASSUME TableInv, UNCHANGED tableVars PROVE TableInv'
  OBVIOUS
<1>1. TableDataOK' /\ Located'
  BY DEF TableInv, TableDataOK, Located, tableVars, names
<1>2. QED
  BY <1>1, TableKept DEF tableVars

-----------------------------------------------------------------------------
(***************************************************************************)
(* The table by itself.                                                    *)
(***************************************************************************)

(* Without the two steps of a get no thread is at "fill".                  *)
NoFill == pc \in [Threads -> {"idle"} \cup InLookup]

(* On one processor a get has no step in between.                          *)
LEMMA NextNoFill == NoFill /\ [TableNext]_tableVars => NoFill'
  BY DEF NoFill, InLookup, TableNext, TableCall, ShortCall, TableStep,
         ipc_msgque_ftok, GetRefused, GetAtOnce, ScanStart, ScanSlot, ScanKey,
         ScanFound, ScanNext, RelUnregistered, RelDone, RelNoToken, Return, tableVars

(* The invariant of the table under TableSpec.                             *)
LEMMA TableInvariant == TableSpec => [](TableInv /\ NoFill)
<1>1. TableInit => TableInv /\ NoFill
  BY InitTableInv DEF TableInit, NoFill
<1>2. TableInv /\ NoFill /\ [TableNext]_tableVars => (TableInv /\ NoFill)'
  BY TableNextInv, TableStutters, NextNoFill
<1>3. QED
  BY <1>1, <1>2, PTL DEF TableSpec

(* Under any sequence of ftok, get, rel and getIDbyKey no field of a queue,*)
(* no name and no local leaves its type.                                   *)
THEOREM TableTypesHold == TableSpec => []TableTypeOK
<1>1. TableInv /\ NoFill => TableTypeOK
  BY DEF TableInv, NoFill, TableTypeOK, TablePlaces
<1>2. QED
  BY <1>1, TableInvariant, PTL

(* ipc_msgque_get never registers two queues under one key.                *)
THEOREM KeysStayUnique == TableSpec => []KeysUnique
<1>1. TableInv => KeysUnique
  BY DEF TableInv, Registry
<1>2. QED
  BY <1>1, TableInvariant, PTL

-----------------------------------------------------------------------------
(***************************************************************************)
(* Lookups.                                                                *)
(***************************************************************************)

(* What a lookup under way knows of the slot it is at: if the key is the   *)
(* one it looks for, the slot has been registered under it since the       *)
(* lookup read initkey or a get filled it; and queues it must not miss are *)
(* still ahead.                                                            *)
Knows(t) ==
  /\ loc[t].key \in Keys
  /\ \A s \in seen[t] : s \in Slots /\ msgQueTbl[s].msqid = s
  /\ pc[t] = "key" /\ msgQueTbl[loc[t].slot].sharekey = loc[t].key
       => loc[t].slot \in seen[t]
  /\ pc[t] = "found" => loc[t].slot \in seen[t]
  /\ kept[t] \subseteq Matching(t)
  /\ \A s \in kept[t] : loc[t].slot <= s

LookupsKnow == \A t \in Threads : Looks(t) => Knows(t)

(* A step changes a slot by registering or releasing it.                   *)
LEMMA StepsRegister ==
  ASSUME TableInv, TableNext, NEW s \in Slots
  PROVE  \/ /\ msgQueTbl'[s].sharekey = msgQueTbl[s].sharekey
            /\ msgQueTbl'[s].msqid = msgQueTbl[s].msqid
         \/ msgQueTbl'[s].initkey /\ msgQueTbl'[s].msqid = s
<1>1. TableDataOK
  BY DEF TableInv
<1>2. ASSUME NEW t \in Threads, NEW k \in Keys, GetAtOnce(t, k)
      PROVE  \/ msgQueTbl'[s] = msgQueTbl[s]
             \/ msgQueTbl'[s].initkey /\ msgQueTbl'[s].msqid = s
  <2>1. First(FreeQueues) \in Slots
    BY <1>2, FirstIsIn, FreeQueuesAreSlots DEF GetAtOnce
  <2>2. /\ Registered(First(FreeQueues), k).initkey
        /\ Registered(First(FreeQueues), k).msqid = First(FreeQueues)
    BY <1>1, <2>1, RegisteredQueue
  <2>3. QED
    BY <1>1, <1>2, <2>1, <2>2 DEF GetAtOnce, TableDataOK
<1>3. ASSUME NEW t \in Threads, NEW r \in Slots, RelDone(t, r)
      PROVE  /\ msgQueTbl'[s].sharekey = msgQueTbl[s].sharekey
             /\ msgQueTbl'[s].msqid = msgQueTbl[s].msqid
  BY <1>1, <1>3, SlotTypes DEF RelDone, TableDataOK, Queue
<1>4. CASE UNCHANGED msgQueTbl
  BY <1>4
<1>5. QED
  BY <1>2, <1>3, <1>4
  DEF TableNext, TableCall, ShortCall, TableStep, ipc_msgque_ftok, GetRefused,
      ScanStart, ScanSlot, ScanKey, ScanFound, RelUnregistered, RelNoToken

(* A thread in a lookup stays where it is or reads.                        *)
LEMMA LookersStep ==
  ASSUME TableInv, TableNext, NEW t \in Threads, Looks(t)
  PROVE  TableStep(t) \/ (pc'[t] = pc[t] /\ loc'[t] = loc[t])
<1>1. pc \in [Threads -> Places] /\ DOMAIN loc = Threads /\ pc[t] # "idle"
  BY DEF TableInv, Located, TableDataOK, Looks, InLookup
<1>2. ASSUME NEW u \in Threads \ {t}, TableStep(u)
      PROVE  pc'[t] = pc[t] /\ loc'[t] = loc[t]
  BY <1>1, <1>2 DEF TableStep, ScanSlot, ScanKey, ScanFound, ScanNext, Return,
                    TableInv, TableDataOK
<1>3. ASSUME NEW u \in Threads, TableCall(u)
      PROVE  pc'[t] = pc[t] /\ loc'[t] = loc[t]
  <2>1. u # t
    BY <1>1, <1>3 DEF TableCall, ShortCall, ipc_msgque_ftok, GetRefused, GetAtOnce,
                      ScanStart, RelUnregistered, RelDone, RelNoToken
  <2>2. QED
    BY <1>1, <1>3, <2>1
    DEF TableCall, ShortCall, ipc_msgque_ftok, GetRefused, GetAtOnce, ScanStart,
        RelUnregistered, RelDone, RelNoToken, Return, TableInv, TableDataOK
<1>4. QED
  BY <1>2, <1>3 DEF TableNext

(* On one processor every slot that looks registered is.                   *)
LEMMA SettledAtOnce ==
  NoFill => \A s : Settled(s) <=> msgQueTbl[s].initkey
  BY DEF NoFill, Settled, InLookup

(* A lookup that goes on.                                                  *)
LEMMA KnowsNext ==
  ASSUME TableInv, TableInv', NoFill, NoFill', TableNext, Recorded,
         NEW t \in Threads, Looks(t), Knows(t), Looks(t)'
  PROVE  Knows(t)'
<1> DEFINE s0 == loc[t].slot
<1>1. /\ s0 \in Slots /\ TableDataOK /\ DOMAIN pc = Threads /\ DOMAIN loc = Threads
      /\ loc[t] \in [slot : Slots, key : Keys \cup {NoKey}]
  BY DEF TableInv, TableDataOK, Located
<1>2. /\ seen'[t] = seen[t] \cup Matching(t)'
      /\ kept'[t] = kept[t] \cap Matching(t)'
  BY DEF Recorded
<1>3. \/ TableStep(t) /\ UNCHANGED msgQueTbl
      \/ pc'[t] = pc[t] /\ loc'[t] = loc[t]
  BY LookersStep DEF TableStep, ScanSlot, ScanKey, ScanFound
<1>4. loc'[t].key = loc[t].key
  BY <1>1, <1>3 DEF TableStep, ScanSlot, ScanKey, ScanFound, ScanNext, Return,
                    Looks, InLookup
<1>5. \A s \in seen'[t] : s \in Slots /\ msgQueTbl'[s].msqid = s
  <2>1. ASSUME NEW s \in seen[t]
        PROVE  s \in Slots /\ msgQueTbl'[s].msqid = s
    BY <2>1, StepsRegister DEF Knows
  <2>2. ASSUME NEW s \in Matching(t)'
        PROVE  s \in Slots /\ msgQueTbl'[s].msqid = s
    BY <1>4, <2>2 DEF Matching, Knows, TableInv, Registry, IdsFilled
  <2>3. QED
    BY <1>2, <2>1, <2>2
<1>6. \A s \in Slots :
        msgQueTbl'[s].initkey /\ msgQueTbl'[s].sharekey = loc[t].key => s \in seen'[t]
  BY <1>2, <1>4, SettledAtOnce DEF Matching, Settled, NoFill, InLookup
<1>7. CASE pc'[t] = pc[t] /\ loc'[t] = loc[t]
  <2>1. pc'[t] = "key" /\ msgQueTbl'[s0].sharekey = loc[t].key => s0 \in seen'[t]
    BY <1>1, <1>2, <1>6, <1>7, StepsRegister DEF Knows
  <2>2. QED
    BY <1>2, <1>4, <1>5, <1>7, <2>1 DEF Knows
<1>8. CASE ScanSlot(t)
  <2>1. UNCHANGED msgQueTbl
    BY <1>8 DEF ScanSlot
  <2>2. CASE msgQueTbl[s0].initkey /\ pc' = [pc EXCEPT ![t] = "key"] /\ UNCHANGED loc
    BY <1>1, <1>2, <1>4, <1>5, <1>6, <2>1, <2>2 DEF Knows
  <2>3. CASE ~msgQueTbl[s0].initkey /\ ScanNext(t)
    <3>1. pc'[t] = "scan" /\ loc'[t].slot = s0 + 1
      BY <1>1, <2>3 DEF ScanNext, Return, Looks, InLookup
    <3>2. s0 \notin kept[t] /\ \A s \in kept[t] : s \in Slots /\ s0 <= s
      BY <2>3 DEF Knows, Matching, Settled
    <3>3. \A s \in kept[t] : s0 + 1 <= s
      <4> SUFFICES ASSUME NEW s \in kept[t]
                   PROVE  s0 + 1 <= s
        OBVIOUS
      <4>1. s \in Nat /\ s0 \in Nat /\ s0 <= s /\ s # s0
        BY <1>1, <3>2, SlotsAreNat
      <4> HIDE DEF s0
      <4>2. QED
        BY <4>1
    <3>4. QED
      BY <1>2, <1>4, <1>5, <3>1, <3>3 DEF Knows
  <2>4. QED
    BY <1>8, <2>2, <2>3 DEF ScanSlot
<1>9. CASE ScanKey(t)
  <2>1. UNCHANGED msgQueTbl /\ pc[t] = "key"
    BY <1>9 DEF ScanKey
  <2>2. CASE /\ msgQueTbl[s0].sharekey = loc[t].key
             /\ pc' = [pc EXCEPT ![t] = "found"] /\ UNCHANGED loc
    BY <1>1, <1>2, <1>4, <1>5, <2>1, <2>2 DEF Knows
  <2>3. CASE msgQueTbl[s0].sharekey # loc[t].key /\ ScanNext(t)
    <3>1. pc'[t] = "scan" /\ loc'[t].slot = s0 + 1
      BY <1>1, <2>3 DEF ScanNext, Return, Looks, InLookup
    <3>2. s0 \notin kept[t] /\ \A s \in kept[t] : s \in Slots /\ s0 <= s
      BY <2>3 DEF Knows, Matching
    <3>3. \A s \in kept[t] : s0 + 1 <= s
      <4> SUFFICES ASSUME NEW s \in kept[t]
                   PROVE  s0 + 1 <= s
        OBVIOUS
      <4>1. s \in Nat /\ s0 \in Nat /\ s0 <= s /\ s # s0
        BY <1>1, <3>2, SlotsAreNat
      <4> HIDE DEF s0
      <4>2. QED
        BY <4>1
    <3>4. QED
      BY <1>2, <1>4, <1>5, <3>1, <3>3 DEF Knows
  <2>4. QED
    BY <1>9, <2>2, <2>3 DEF ScanKey
<1>10. ~ScanFound(t)
  BY <1>1 DEF ScanFound, Return, Looks, InLookup
<1>11. QED
  BY <1>3, <1>7, <1>8, <1>9, <1>10 DEF TableStep

(* A lookup that begins: it has read nothing.                              *)
LEMMA KnowsStart ==
  ASSUME TableInv, TableInv', NoFill, TableNext, Recorded,
         NEW t \in Threads, ~Looks(t), Looks(t)'
  PROVE  Knows(t)'
<1>1. DOMAIN pc = Threads /\ DOMAIN loc = Threads /\ pc[t] = "idle"
  BY DEF TableInv, TableDataOK, Located, NoFill, Looks
<1>2. PICK k \in Keys : ScanStart(t, k)
  <2>1. ASSUME NEW u \in Threads \ {t}, TableCall(u) \/ TableStep(u)
        PROVE  pc'[t] = pc[t]
    BY <1>1, <2>1
    DEF TableCall, ShortCall, TableStep, ipc_msgque_ftok, GetRefused, GetAtOnce,
        ScanStart, ScanSlot, ScanKey, ScanFound, ScanNext, RelUnregistered,
        RelDone, RelNoToken, Return
  <2>2. ShortCall(t) => pc'[t] = "idle"
    BY <1>1 DEF ShortCall, ipc_msgque_ftok, GetRefused, GetAtOnce, RelUnregistered,
                RelDone, RelNoToken, Return
  <2>3. ~TableStep(t)
    BY <1>1 DEF TableStep, ScanSlot, ScanKey, ScanFound
  <2>4. pc'[t] # "idle"
    BY DEF Looks, InLookup
  <2>5. TableCall(t)
    BY <1>1, <2>1, <2>3, <2>4 DEF TableNext
  <2>6. QED
    BY <2>2, <2>4, <2>5 DEF TableCall
<1>3. pc'[t] = "scan" /\ loc'[t].slot = 0 /\ loc'[t].key = k
  BY <1>1, <1>2 DEF ScanStart
<1>4. seen'[t] = Matching(t)' /\ kept'[t] = Matching(t)'
  BY DEF Recorded
<1>5. \A s \in Matching(t)' : s \in Slots /\ msgQueTbl'[s].msqid = s
  BY <1>3 DEF Matching, TableInv, Registry, IdsFilled
<1>6. \A s \in Slots : 0 <= s
  BY SlotsAreNat
<1>7. QED
  BY <1>3, <1>4, <1>5, <1>6 DEF Knows, Matching

LEMMA NextLookupsKnow ==
  TableInv /\ NoFill /\ LookupsKnow /\ [LookupNext]_lookupVars => LookupsKnow'
<1> SUFFICES ASSUME TableInv, NoFill, LookupsKnow, [LookupNext]_lookupVars
             PROVE  LookupsKnow'
  OBVIOUS
<1>1. CASE UNCHANGED lookupVars
  BY <1>1 DEF lookupVars, tableVars, LookupsKnow, Knows, Looks, Matching, Settled
<1>2. CASE LookupNext
  <2>1. TableNext /\ Recorded /\ TableInv' /\ NoFill'
    BY <1>2, TableNextInv, NextNoFill DEF LookupNext
  <2>2. QED
    BY <2>1, KnowsNext, KnowsStart DEF LookupsKnow
<1>3. QED
  BY <1>1, <1>2

LEMMA LookupInvariant == LookupSpec => [](TableInv /\ NoFill /\ LookupsKnow)
<1>1. LookupInit => TableInv /\ NoFill /\ LookupsKnow
  BY InitTableInv DEF LookupInit, TableInit, NoFill, LookupsKnow, Looks, InLookup
<1>2. TableInv /\ NoFill /\ LookupsKnow /\ [LookupNext]_lookupVars
        => (TableInv /\ NoFill /\ LookupsKnow)'
  BY TableNextInv, TableStutters, NextNoFill, NextLookupsKnow
  DEF LookupNext, lookupVars
<1>3. QED
  BY <1>1, <1>2, PTL DEF LookupSpec

(* The step in which a lookup answers.                                     *)
LEMMA AnswerStep ==
  ASSUME TableInv, NoFill, LookupNext, NEW t \in Threads, Answers(t)
  PROVE  \/ ScanFound(t)
         \/ /\ loc[t].slot + 1 = QUEUE_NUM
            /\ loc[t].slot \notin Matching(t)
            /\ ret'[t] = -3
<1>1. Looks(t) /\ ~Looks(t)' /\ TableNext
      /\ DOMAIN pc = Threads /\ DOMAIN ret = Threads
  BY DEF Answers, LookupNext, TableInv, TableDataOK, Located
<1>2. TableStep(t)
  BY <1>1, LookersStep DEF Looks
<1>3. CASE ScanSlot(t)
  BY <1>1, <1>3 DEF ScanSlot, ScanNext, Return, Looks, InLookup, Matching, Settled
<1>4. CASE ScanKey(t)
  BY <1>1, <1>4 DEF ScanKey, ScanNext, Return, Looks, InLookup, Matching
<1>5. QED
  BY <1>2, <1>3, <1>4 DEF TableStep

(* The id that ipc_msgque_getIDbyKey returns is that of a queue that was   *)
(* registered under the key at some moment of the call, whatever gets and  *)
(* releases run between its reads.                                         *)
THEOREM LookupsAreSound == LookupSpec => LookupSound
<1> DEFINE Sound == \A t \in Threads : Answers(t) /\ ret'[t] # -3 => ret'[t] \in seen[t]
<1>1. TableInv /\ NoFill /\ LookupsKnow /\ [LookupNext]_lookupVars => [Sound]_lookupVars
  <2> SUFFICES ASSUME TableInv, NoFill, LookupsKnow, LookupNext,
                      NEW t \in Threads, Answers(t), ret'[t] # -3
               PROVE  ret'[t] \in seen[t]
    OBVIOUS
  <2>1. ScanFound(t)
    BY AnswerStep
  <2>2. Knows(t)
    BY DEF LookupsKnow, Answers
  <2>3. loc[t].slot \in seen[t]
    BY <2>1, <2>2 DEF ScanFound, Knows
  <2>4. ret'[t] = msgQueTbl[loc[t].slot].msqid
    BY <2>1 DEF ScanFound, Return, TableInv, TableDataOK
  <2>5. QED
    BY <2>2, <2>3, <2>4 DEF Knows
<1>2. QED
  BY <1>1, LookupInvariant, PTL DEF LookupSpec, LookupSound

(* Where ipc_msgque_getIDbyKey finds nothing, no queue was registered      *)
(* under the key from the beginning of the call to its end.                *)
THEOREM LookupsAreComplete == LookupSpec => LookupComplete
<1> DEFINE Complete == \A t \in Threads : Answers(t) /\ ret'[t] = -3 => kept[t] = {}
<1>1. TableInv /\ NoFill /\ LookupsKnow /\ [LookupNext]_lookupVars
        => [Complete]_lookupVars
  <2> SUFFICES ASSUME TableInv, NoFill, LookupsKnow, LookupNext,
                      NEW t \in Threads, Answers(t), ret'[t] = -3
               PROVE  kept[t] = {}
    OBVIOUS
  <2>1. TableDataOK /\ loc[t].slot \in Slots
    BY DEF TableInv, TableDataOK
  <2>2. ~ScanFound(t)
    <3>1. msgQueTbl[loc[t].slot].msqid \in Nat
      BY <2>1, SlotTypes, SlotsAreNat
    <3>2. ScanFound(t) => ret'[t] = msgQueTbl[loc[t].slot].msqid
      BY <2>1 DEF ScanFound, Return, TableDataOK
    <3>3. QED
      BY <3>1, <3>2
  <2>3. loc[t].slot + 1 = QUEUE_NUM /\ loc[t].slot \notin Matching(t)
    BY <2>2, AnswerStep
  <2>4. kept[t] \subseteq Matching(t) /\ \A s \in kept[t] : loc[t].slot <= s
    BY DEF LookupsKnow, Answers, Knows
  <2>5. \A s \in kept[t] : s \in Slots /\ s # loc[t].slot /\ loc[t].slot <= s
    BY <2>3, <2>4 DEF Matching
  <2>6. QED
    BY <2>1, <2>3, <2>5, SizeAssumption DEF Slots
<1>2. QED
  BY <1>1, LookupInvariant, PTL DEF LookupSpec, LookupComplete

=============================================================================
