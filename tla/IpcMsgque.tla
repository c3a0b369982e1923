----------------------------- MODULE IpcMsgque -----------------------------
(***************************************************************************)
(* The queue table of drv_ipc_msgque.c: names (tokens), keys and slots,    *)
(* under the calls ftok, get, getIDbyKey and rel of several threads.       *)
(*                                                                         *)
(* The spinlock.  In a uniprocessor build (SMP = FALSE) spin_lock_irqsave  *)
(* only keeps interrupts and preemption out: a critical section is one     *)
(* step, the lock word does not exist and leaving without unlocking has no *)
(* effect beyond the system call.  In a multiprocessor build (SMP = TRUE)  *)
(* the lock is a word that whoever does not release keeps for ever; code   *)
(* that takes no lock runs between the stores of a critical section, which *)
(* is why get then has two steps.                                          *)
(***************************************************************************)
EXTENDS MsgRing, FiniteSets

CONSTANTS
  Threads,     \* threads in process context that call the driver
  QUEUE_NUM,   \* IPC_MSG_QUEUE_NUM: slots of the table (12 in the code)
  Keys,        \* keys callers use: 16-bit values, 0 for the empty name
  Paths,       \* names passed to ftok, as sequences of character codes
  MAXLEN,      \* IPC_MSG_QUEUE_TOKEN_STR_MAXLEN (32 in the code)
  Tails,       \* what the last byte of an entry for names may hold
  Msgs,        \* messages another core can post, sequences of words
  Leftovers,   \* elements as found in memory that nobody has written
  SMP          \* the kernel is built for several processors

Slots == 0 .. QUEUE_NUM - 1

MsqIds == 0 .. QUEUE_NUM       \* the ids callers use, an invalid one among them

UINT16_MOD == 65536            \* hashes are unsigned short

(***************************************************************************)
(* ipc_msgque_namehash: the sum of the characters, rotated right by one    *)
(* bit before each is added, in 16 bits.                                   *)
(***************************************************************************)
ipc_msgque_namehash(pname) ==
  LET hash[n \in 0 .. Len(pname)] ==
        IF n = 0 THEN 0
        ELSE LET h == hash[n - 1]
             IN  ((UINT16_MOD \div 2) * (h % 2) + (h \div 2) + pname[n]) % UINT16_MOD
  IN  hash[Len(pname)]

ASSUME SizeAssumption == QUEUE_NUM \in Nat \ {0}

ASSUME KeyAssumption == Keys \subseteq 0 .. UINT16_MOD - 1

ASSUME TableAssumption ==
  /\ Tails # {} /\ Tails \subseteq 0 .. 127
  /\ Leftovers # {} /\ Leftovers \cap Msgs = {}
  /\ \A m \in Msgs \cup Leftovers : Len(m) \in Nat
  /\ SMP \in BOOLEAN

ASSUME PathAssumption == \A p \in Paths : Len(p) <= MAXLEN

(* Callers use the keys of these names, and may use others.                *)
ASSUME HashAssumption == \A p \in Paths : ipc_msgque_namehash(p) \in Keys

NoToken == << >>     \* token[0] == 0
NoKey == -1          \* sharekey of a slot that was never registered
Free == "free"       \* nobody holds the lock
IRQ == "irq"         \* the interrupt handler as holder of the lock

ASSUME NamesAssumption ==
  NoToken \notin Paths /\ Free \notin Threads /\ IRQ \notin Threads

VARIABLES
  msgQueTbl,        \* the queues; initkey is TRUE for CFG_IPC_INIT_KEY
  msgQueTokenStr,   \* the names ftok recorded
  tail,             \* the last byte of each entry, which nobody writes
  lock,             \* who holds the spinlock
  pc,               \* where each thread is
  loc,              \* the locals of its call: p_msgque or i, and the key
  ret               \* what its last call returned

names == <<msgQueTokenStr, tail>>

tableVars == <<msgQueTbl, names, lock, pc, loc, ret>>

Element == Msgs \cup Leftovers

Queue == [initkey  : BOOLEAN,
          sharekey : Keys \cup {NoKey},
          msqid    : Slots,
          indx     : Index,
          outdx    : Index,
          count    : UINT32,
          element  : [Index -> Element]]

NoLocals == [slot |-> 0, key |-> NoKey]

(* ipc_msgque_init, on memory from kmalloc: only initkey and the first     *)
(* byte of each token are written, and the other fields are not read       *)
(* before a get writes them.                                               *)
TableInit ==
  /\ \E e \in Leftovers :
       msgQueTbl = [s \in Slots |->
         [initkey |-> FALSE, sharekey |-> NoKey, msqid |-> 0,
          indx |-> ELEMENT_NUM - 1, outdx |-> 0, count |-> 0,
          element |-> [i \in Index |-> e]]]
  /\ msgQueTokenStr = [s \in Slots |-> NoToken]
  /\ tail \in [Slots -> Tails]
  /\ lock = Free
  /\ pc = [t \in Threads |-> "idle"]
  /\ loc = [t \in Threads |-> NoLocals]
  /\ ret = [t \in Threads |-> 0]

-----------------------------------------------------------------------------
(***************************************************************************)
(* Helpers.                                                                *)
(***************************************************************************)

(* The loops over the table stop at the first slot that qualifies.         *)
First(S) == CHOOSE s \in S : \A r \in S : s <= r

FreeQueues == {s \in Slots : ~msgQueTbl[s].initkey}

FreeTokens == {s \in Slots : msgQueTokenStr[s] = NoToken}

ipc_msgque_isvalid(s, key) ==
  msgQueTbl[s].initkey /\ msgQueTbl[s].sharekey = key

QueuesWithKey(k) == {s \in Slots : ipc_msgque_isvalid(s, k)}

(* ipc_msgque_getQuebyID finds a queue.                                    *)
IsRegistered(id) == id \in Slots /\ msgQueTbl[id].initkey

(* What is read as the name of an entry: one of MAXLEN characters has no   *)
(* end of its own, and where the byte after it is none either, the next    *)
(* entry is read as well.  The index behind the last entry ends it.        *)
TokenStr(s) ==
  LET text[i \in 0 .. QUEUE_NUM] ==
        IF i = QUEUE_NUM THEN NoToken
        ELSE IF Len(msgQueTokenStr[i]) < MAXLEN \/ tail[i] = 0
        THEN msgQueTokenStr[i]
        ELSE msgQueTokenStr[i] \o <<tail[i]>> \o text[i + 1]
  IN  text[s]

(* The hash of a stored name; the empty name of a free entry hashes to 0.  *)
TokenKey(s) == ipc_msgque_namehash(TokenStr(s))

TokensWithKey(k) == {s \in Slots : TokenKey(s) = k}

(* The fields ipc_msgque_get writes into slot s for key k.                 *)
Registered(s, k) ==
  [RingReset(msgQueTbl[s]) EXCEPT !.initkey = TRUE, !.msqid = s, !.sharekey = k]

(* A path that returns with the lock held keeps it for ever where there is *)
(* a lock word.                                                            *)
LeakLock(t) == lock' = IF SMP THEN t ELSE lock

Return(t, v) ==
  /\ pc' = [pc EXCEPT ![t] = "idle"]
  /\ loc' = [loc EXCEPT ![t] = NoLocals]
  /\ ret' = [ret EXCEPT ![t] = v]

-----------------------------------------------------------------------------
(***************************************************************************)
(* ipc_msgque_ftok: the name goes to the first free entry, if there is     *)
(* one, even when it is already recorded; the key is returned in any case. *)
(***************************************************************************)
ipc_msgque_ftok(t, p) ==
  /\ pc[t] = "idle"
  /\ lock = Free
  /\ \/ /\ FreeTokens = {}
        /\ UNCHANGED names
     \/ /\ FreeTokens # {}
        /\ msgQueTokenStr' = [msgQueTokenStr EXCEPT ![First(FreeTokens)] = p]
        /\ UNCHANGED tail
  /\ Return(t, ipc_msgque_namehash(p))
  /\ UNCHANGED <<msgQueTbl, lock>>

(***************************************************************************)
(* ipc_msgque_get, the only call that creates a queue.                     *)
(***************************************************************************)
GetRefused(t, k) ==
  /\ pc[t] = "idle"
  /\ lock = Free
  /\ \/ /\ QueuesWithKey(k) # {}
        /\ Return(t, -1)
     \/ /\ QueuesWithKey(k) = {}
        /\ FreeQueues = {}
        /\ Return(t, -2)
  /\ UNCHANGED <<msgQueTbl, names, lock>>

(* Variant: get does not look for the key.                                 *)
GetAtOnceAnyKey(t, k) ==
  /\ ~SMP
  /\ pc[t] = "idle"
  /\ FreeQueues # {}
  /\ LET s == First(FreeQueues) IN
       /\ msgQueTbl' = [msgQueTbl EXCEPT ![s] = Registered(s, k)]
       /\ Return(t, s)
  /\ UNCHANGED <<names, lock>>

GetAtOnce(t, k) ==
  /\ ~SMP
  /\ pc[t] = "idle"
  /\ QueuesWithKey(k) = {}
  /\ FreeQueues # {}
  /\ LET s == First(FreeQueues) IN
       /\ msgQueTbl' = [msgQueTbl EXCEPT ![s] = Registered(s, k)]
       /\ Return(t, s)
  /\ UNCHANGED <<names, lock>>

(* Variant: get takes no lock.                                             *)
GetPublishUnlocked(t, k) ==
  /\ SMP
  /\ pc[t] = "idle"
  /\ QueuesWithKey(k) = {}
  /\ FreeQueues # {}
  /\ LET s == First(FreeQueues) IN
       /\ msgQueTbl' = [msgQueTbl EXCEPT ![s].initkey = TRUE]
       /\ loc' = [loc EXCEPT ![t] = [slot |-> s, key |-> k]]
  /\ pc' = [pc EXCEPT ![t] = "fill"]
  /\ UNCHANGED <<names, lock, ret>>

(* initkey is stored first, and from then on the slot looks registered,    *)
(* under the key of its former life, to whoever takes no lock.             *)
GetPublish(t, k) ==
  /\ SMP
  /\ pc[t] = "idle"
  /\ lock = Free
  /\ QueuesWithKey(k) = {}
  /\ FreeQueues # {}
  /\ LET s == First(FreeQueues) IN
       /\ msgQueTbl' = [msgQueTbl EXCEPT ![s].initkey = TRUE]
       /\ loc' = [loc EXCEPT ![t] = [slot |-> s, key |-> k]]
  /\ lock' = t
  /\ pc' = [pc EXCEPT ![t] = "fill"]
  /\ UNCHANGED <<names, ret>>

GetFill(t) ==
  /\ pc[t] = "fill"
  /\ LET s == loc[t].slot IN
       /\ msgQueTbl' = [msgQueTbl EXCEPT ![s] = Registered(s, loc[t].key)]
       /\ Return(t, s)
  /\ lock' = Free
  /\ UNCHANGED names

(***************************************************************************)
(* ipc_msgque_getIDbyKey takes no lock: threads that get and release run   *)
(* between any two of its reads.  Of one slot it reads initkey ("scan"),   *)
(* sharekey ("key") and, to return it, msqid ("found").                    *)
(***************************************************************************)
ScanStart(t, k) ==
  /\ pc[t] = "idle"
  /\ pc' = [pc EXCEPT ![t] = "scan"]
  /\ loc' = [loc EXCEPT ![t] = [slot |-> 0, key |-> k]]
  /\ UNCHANGED <<msgQueTbl, names, lock, ret>>

(* Variant: the loop looks one slot too far.                               *)
ScanNextTooFar(t) ==
  /\ pc' = [pc EXCEPT ![t] = "scan"]
  /\ loc' = [loc EXCEPT ![t].slot = @ + 1]
  /\ UNCHANGED ret

(* Variant: the loop ends before the last slot.                            *)
ScanNextTooShort(t) ==
  \/ /\ loc[t].slot + 2 >= QUEUE_NUM
     /\ Return(t, -3)
  \/ /\ loc[t].slot + 2 < QUEUE_NUM
     /\ pc' = [pc EXCEPT ![t] = "scan"]
     /\ loc' = [loc EXCEPT ![t].slot = @ + 1]
     /\ UNCHANGED ret

(* The loop goes on to the next slot, or ends.                             *)
ScanNext(t) ==
  \/ /\ loc[t].slot + 1 = QUEUE_NUM
     /\ Return(t, -3)
  \/ /\ loc[t].slot + 1 < QUEUE_NUM
     /\ pc' = [pc EXCEPT ![t] = "scan"]
     /\ loc' = [loc EXCEPT ![t].slot = @ + 1]
     /\ UNCHANGED ret

(* Variant: the loop looks at the key only.                                *)
ScanSlotByKey(t) ==
  /\ pc[t] = "scan"
  /\ pc' = [pc EXCEPT ![t] = "key"]
  /\ UNCHANGED <<msgQueTbl, names, lock, loc, ret>>

ScanSlot(t) ==
  /\ pc[t] = "scan"
  /\ \/ /\ msgQueTbl[loc[t].slot].initkey
        /\ pc' = [pc EXCEPT ![t] = "key"]
        /\ UNCHANGED <<loc, ret>>
     \/ /\ ~msgQueTbl[loc[t].slot].initkey
        /\ ScanNext(t)
  /\ UNCHANGED <<msgQueTbl, names, lock>>

ScanKey(t) ==
  /\ pc[t] = "key"
  /\ \/ /\ msgQueTbl[loc[t].slot].sharekey = loc[t].key
        /\ pc' = [pc EXCEPT ![t] = "found"]
        /\ UNCHANGED <<loc, ret>>
     \/ /\ msgQueTbl[loc[t].slot].sharekey # loc[t].key
        /\ ScanNext(t)
  /\ UNCHANGED <<msgQueTbl, names, lock>>

ScanFound(t) ==
  /\ pc[t] = "found"
  /\ Return(t, msgQueTbl[loc[t].slot].msqid)
  /\ UNCHANGED <<msgQueTbl, names, lock>>

(***************************************************************************)
(* ipc_msgque_rel.  A queue without a name is not released, and that path  *)
(* returns without unlocking.                                              *)
(***************************************************************************)
RelUnregistered(t, id) ==
  /\ pc[t] = "idle"
  /\ lock = Free
  /\ ~IsRegistered(id)
  /\ Return(t, -1)
  /\ UNCHANGED <<msgQueTbl, names, lock>>

RelDone(t, s) ==
  /\ pc[t] = "idle"
  /\ lock = Free
  /\ msgQueTbl[s].initkey
  /\ TokensWithKey(msgQueTbl[s].sharekey) # {}
  /\ msgQueTokenStr' =
       [msgQueTokenStr EXCEPT
          ![First(TokensWithKey(msgQueTbl[s].sharekey))] = NoToken]
  /\ msgQueTbl' = [msgQueTbl EXCEPT ![s].initkey = FALSE]
  /\ Return(t, 0)
  /\ UNCHANGED <<tail, lock>>

RelNoToken(t, s) ==
  /\ pc[t] = "idle"
  /\ lock = Free
  /\ msgQueTbl[s].initkey
  /\ TokensWithKey(msgQueTbl[s].sharekey) = {}
  /\ LeakLock(t)
  /\ Return(t, -2)
  /\ UNCHANGED <<msgQueTbl, names>>

(* The calls a thread can start: those that are one step, and getIDbyKey;   *)
(* a get on several processors is apart.                                   *)
ShortCall(t) ==
  \/ \E p \in Paths : ipc_msgque_ftok(t, p)
  \/ \E k \in Keys : GetRefused(t, k) \/ GetAtOnce(t, k)
  \/ \E id \in MsqIds : RelUnregistered(t, id)
  \/ \E s \in Slots : RelDone(t, s) \/ RelNoToken(t, s)

TableCall(t) == ShortCall(t) \/ \E k \in Keys : ScanStart(t, k)

TableStep(t) == ScanSlot(t) \/ ScanKey(t) \/ ScanFound(t)

TableNext == \E t \in Threads : TableCall(t) \/ TableStep(t)

SmpNext == \E t \in Threads : (\E k \in Keys : GetPublish(t, k)) \/ GetFill(t)

(* The table by itself, on one processor; IpcReceive has both builds.      *)
TableSpec == TableInit /\ [][TableNext]_tableVars

-----------------------------------------------------------------------------
(***************************************************************************)
(* Properties.                                                             *)
(***************************************************************************)

(* A slot whose registration is complete: initkey is set and no get is     *)
(* between storing it and storing the rest.                                *)
Settled(s) ==
  /\ msgQueTbl[s].initkey
  /\ ~\E t \in Threads : pc[t] = "fill" /\ loc[t].slot = s

(* The loop of getIDbyKey, and where a thread is in a call of the table.   *)
InLookup == {"scan", "key", "found"}

TablePlaces == {"idle", "fill"} \cup InLookup

(* Every variable stays within the C types and the table; a key that a     *)
(* call returns is no error.                                               *)
TableDataOK ==
  /\ msgQueTbl \in [Slots -> Queue]
  /\ msgQueTokenStr \in [Slots -> Paths \cup {NoToken}]
  /\ tail \in [Slots -> Tails]
  /\ lock \in Threads \cup {Free, IRQ}
  /\ loc \in [Threads -> [slot : Slots, key : Keys \cup {NoKey}]]
  /\ ret \in [Threads -> Int]

TableTypeOK == TableDataOK /\ pc \in [Threads -> TablePlaces]

(* The fields of every ring agree, whichever thread or handler touched     *)
(* them last, in every state of the table.                                 *)
RingsAgree == \A s \in Slots : FieldsAgree(msgQueTbl[s])

(* Two queues are never registered under one key, whatever gets, releases  *)
(* and half-finished gets other threads have under way: messages for a key *)
(* have one destination.                                                   *)
KeysUnique ==
  \A r, s \in Slots :
    Settled(r) /\ Settled(s) /\ msgQueTbl[r].sharekey = msgQueTbl[s].sharekey
      => r = s

(* Whoever is between the two stores of a get holds the lock, so that two  *)
(* threads never register queues at the same time.                         *)
FillHoldsLock == \A t \in Threads : pc[t] = "fill" => lock = t

(* The lock is lost once a call that leaves without unlocking holds it, or *)
(* the interrupt handler, which then waits for itself.                     *)
LockLost == lock = IRQ \/ \E t \in Threads : lock = t /\ pc[t] # "fill"

(* From then on no thread registers, releases or names a queue, no message *)
(* enters or leaves a ring, and nobody returns the lock.                   *)
LeakFreezesTable ==
  [][LockLost => UNCHANGED <<msgQueTbl, msgQueTokenStr, lock>>]_tableVars

=============================================================================
