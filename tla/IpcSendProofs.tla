--------------------------- MODULE IpcSendProofs ---------------------------
(***************************************************************************)
(* Theorems about IpcSend for every set of senders, keys and messages.     *)
(***************************************************************************)
EXTENDS IpcSend, FiniteSetTheorems, TLAPS

SndRec == [sendTo : Dests, data : Data \cup {<<>>}, slot : Slot]

(* The part of SendTypeOK that the semaphores and buffers rest on.         *)
BuffersTyped ==
  /\ semid \in [Dests -> Nat]
  /\ pingponidx \in [Dests -> Slot]
  /\ mem \in [MemWords -> Nat]
  /\ pc \in [Senders -> Steps]
  /\ snd \in [Senders -> SndRec]

Inside(t, d) == pc[t] \in Holding /\ snd[t].sendTo = d

(* SemaphoreIsMutex without counting threads.                              *)
Exclusive ==
  \A d \in Dests :
    /\ semid[d] \in {0, 1}
    /\ \A t \in Senders : Inside(t, d) => semid[d] = 0
    /\ \A t, u \in Senders : Inside(t, d) /\ Inside(u, d) => t = u

(* BufferHoldsOwnData without the history.                                 *)
OwnData ==
  \A t \in Senders :
    pc[t] = "cmd" /\ snd[t].sendTo = Core1 =>
      /\ mem[Base(Core1, snd[t].slot)] = Core1
      /\ \A n \in 1 .. Len(snd[t].data) :
           Base(Core1, snd[t].slot) + n < Base(Core2, 0)
             => mem[Base(Core1, snd[t].slot) + n] = snd[t].data[n]

(* What is inductive for every step but SndInterrupted: what a thread has  *)
(* copied is still there when it hands the buffer over because nobody else *)
(* is inside.                                                              *)
IInv == BuffersTyped /\ Exclusive /\ OwnData

LEMMA NoSndTyped == NoSnd \in SndRec
  BY DEF NoSnd, SndRec, Dests, Core1, Core2, Core3, Max, Slot

(* Where the buffers are: those of core 1 in front of all others.          *)
LEMMA BasePlaces ==
  ASSUME NEW d \in Dests, NEW i \in Slot
  PROVE  /\ Base(d, i) \in MemWords /\ Base(d, i) \in Nat
         /\ Base(Core2, 0) = 8
         /\ d = Core1 => Base(d, i) = 4 * i
         /\ d # Core1 => Base(d, i) >= 8
  BY DEF Dests, Slot, Core1, Core2, Core3, Max, Base, MemWords, BufferWords, MAX_LENGTH

(* What the words of a message are.                                        *)
LEMMA DataTyped ==
  ASSUME NEW data \in Data \cup {<<>>}
  PROVE  Len(data) \in Nat /\ \A n \in 1 .. Len(data) : data[n] \in Nat
<1>1. CASE data \in Data
  BY <1>1, DataAssumption
<1>2. CASE data = <<>>
  BY <1>2
<1>3. QED
  BY <1>1, <1>2

(* What a copy writes: the words from the buffer on, and none in front.    *)
LEMMA CopyWrites ==
  ASSUME NEW t \in Senders, mem \in [MemWords -> Nat],
         snd[t] \in SndRec, SndCopy(t)
  PROVE  LET base == Base(snd[t].sendTo, snd[t].slot)
             data == snd[t].data
         IN  /\ mem' \in [MemWords -> Nat]
             /\ mem'[base] = snd[t].sendTo
             /\ \A n \in 1 .. Len(data) : base + n \in MemWords => mem'[base + n] = data[n]
             /\ \A a \in MemWords : a < base => mem'[a] = mem[a]
             /\ \A a \in MemWords : a > base + Len(data) => mem'[a] = mem[a]
<1> DEFINE base == Base(snd[t].sendTo, snd[t].slot)
           data == snd[t].data
<1>1. /\ snd[t].sendTo \in Dests /\ snd[t].slot \in Slot
      /\ data \in Data \cup {<<>>}
  BY DEF SndRec
<1>2. base \in MemWords /\ base \in Nat
  BY <1>1, BasePlaces
<1>3. Len(data) \in Nat /\ \A n \in 1 .. Len(data) : data[n] \in Nat
  BY <1>1, DataTyped
<1>4. snd[t].sendTo \in Nat
  BY <1>1 DEF Dests, Core1, Max, Core3
<1>5. \A a \in MemWords : a \in Int
  BY DEF MemWords, Max, Core3, BufferWords, MAX_LENGTH
<1> HIDE DEF base, data
<1>6. mem' = [a \in MemWords |->
                IF a = base THEN snd[t].sendTo
                ELSE IF a - base \in 1 .. Len(data) THEN data[a - base]
                ELSE mem[a]]
  BY DEF SndCopy, base, data
<1>7. mem' \in [MemWords -> Nat]
  BY <1>3, <1>4, <1>6
<1>8. ASSUME NEW n \in 1 .. Len(data), base + n \in MemWords
      PROVE  mem'[base + n] = data[n]
  <2>1. (base + n) - base = n /\ base + n # base
    BY <1>2, <1>3
  <2>2. QED
    BY <1>6, <1>8, <2>1
<1>9. \A a \in MemWords : a < base \/ a > base + Len(data) => mem'[a] = mem[a]
  BY <1>2, <1>3, <1>5, <1>6
<1>10. mem'[base] = snd[t].sendTo
  BY <1>2, <1>6
<1>11. QED
  BY <1>7, <1>8, <1>9, <1>10 DEF base, data

LEMMA InitIInv == SendInit => IInv
<1> SUFFICES ASSUME SendInit PROVE IInv
  OBVIOUS
<1>1. BuffersTyped
  BY NoSndTyped DEF SendInit, BuffersTyped, Slot, Steps
<1>2. Exclusive
  BY DEF SendInit, Exclusive, Inside, Holding
<1>3. OwnData
  BY DEF SendInit, OwnData
<1>4. QED
  BY <1>1, <1>2, <1>3 DEF IInv

(* Steps that leave every thread where it is, and the buffers too.         *)
LEMMA OthersKeepIInv ==
  ASSUME IInv, UNCHANGED <<bufferVars, pc, snd>>
  PROVE  IInv'
  BY DEF IInv, BuffersTyped, Exclusive, OwnData, Inside, bufferVars

(* A thread goes from one step inside to the next: the semaphores stay as  *)
(* they are, and so does its destination.                                  *)
LEMMA MoveKeepsExclusive ==
  ASSUME BuffersTyped, Exclusive, NEW t \in Senders, NEW label \in Holding,
         pc[t] \in Holding, Goto(t, label), UNCHANGED semid,
         \A u \in Senders : snd'[u].sendTo = snd[u].sendTo
  PROVE  Exclusive'
  BY DEF BuffersTyped, Exclusive, Inside, Goto, Steps, Holding

(* A thread leaves without the semaphore of anybody changing, or returns   *)
(* the one it holds.                                                       *)
LEMMA LeaveKeepsExclusive ==
  ASSUME BuffersTyped, Exclusive, NEW t \in Senders, NEW v, Return(t, v),
         \/ UNCHANGED semid
         \/ pc[t] \in Holding /\ semid' = [semid EXCEPT ![snd[t].sendTo] = @ + 1]
  PROVE  Exclusive'
<1>1. /\ pc'[t] = "idle"
      /\ \A u \in Senders \ {t} : pc'[u] = pc[u] /\ snd'[u] = snd[u]
  BY DEF Return, Goto, BuffersTyped
<1>2. \A u \in Senders, d \in Dests : Inside(u, d)' => u # t /\ Inside(u, d)
  BY <1>1 DEF Inside, Holding
<1>3. CASE UNCHANGED semid
  BY <1>2, <1>3 DEF Exclusive
<1>4. CASE pc[t] \in Holding /\ semid' = [semid EXCEPT ![snd[t].sendTo] = @ + 1]
  <2>1. snd[t].sendTo \in Dests /\ Inside(t, snd[t].sendTo)
    BY <1>4 DEF BuffersTyped, SndRec, Inside
  <2>2. semid[snd[t].sendTo] = 0
    BY <2>1 DEF Exclusive
  <2>3. \A d \in Dests : semid'[d] = IF d = snd[t].sendTo THEN 1 ELSE semid[d]
    BY <1>4, <2>1, <2>2 DEF BuffersTyped
  <2>4. QED
    BY <1>2, <2>1, <2>3 DEF Exclusive
<1>5. QED
  BY <1>3, <1>4

(* A thread that returns types its locals as before.                       *)
LEMMA ReturnTyped ==
  ASSUME BuffersTyped, NEW t \in Senders, NEW v, Return(t, v)
  PROVE  pc' \in [Senders -> Steps] /\ snd' \in [Senders -> SndRec]
  BY NoSndTyped DEF BuffersTyped, Return, Goto, Steps

(* Where no buffer is written, who is about to hand one over still has     *)
(* what it copied.                                                         *)
LEMMA BuffersKept ==
  ASSUME OwnData, UNCHANGED mem,
         \A u \in Senders :
           pc'[u] = "cmd" => pc[u] = "cmd" /\ snd'[u] = snd[u]
  PROVE  OwnData'
  BY DEF OwnData

(* Every step but SndInterrupted, which the history shows.                 *)
LEMMA NextIInv == ~signalled' /\ IInv /\ [SendNext]_sendVars => IInv'
<1> SUFFICES ASSUME ~signalled', BuffersTyped, Exclusive, OwnData,
                    [SendNext]_sendVars
             PROVE  IInv'
  BY DEF IInv
<1> USE DEF bufferVars, queueVars, ccVars
<1>1. CASE \/ \E k \in Keys : QueueGet(k)
           \/ QueueRel
           \/ CoreTakes
           \/ \E bit \in StsBits : CoreSets(bit)
           \/ UNCHANGED sendVars
  BY <1>1, OthersKeepIInv
  DEF IInv, QueueGet, QueueRel, CoreTakes, CoreSets, sendVars
<1>2. ASSUME NEW t \in Senders, NEW sendTo \in Core1 .. Max + 1,
             NEW toolong \in BOOLEAN, SndRefused(t, sendTo, toolong)
      PROVE  IInv'
  <2>1. PICK v : Return(t, v)
    BY <1>2 DEF SndRefused
  <2>2. UNCHANGED <<semid, pingponidx, mem>>
    BY <1>2 DEF SndRefused
  <2>3. BuffersTyped'
    BY <2>1, <2>2, ReturnTyped DEF BuffersTyped
  <2>4. Exclusive'
    BY <2>1, <2>2, LeaveKeepsExclusive
  <2>5. OwnData'
    BY <2>1, <2>2, BuffersKept DEF Return, Goto, BuffersTyped
  <2>6. QED
    BY <2>3, <2>4, <2>5 DEF IInv
<1>3. ASSUME NEW t \in Senders, NEW sendTo \in Dests, NEW data \in Data,
             SndCall(t, sendTo, data)
      PROVE  IInv'
  <2>1. /\ pc[t] = "idle" /\ pc' = [pc EXCEPT ![t] = "down"]
        /\ snd' = [snd EXCEPT ![t] = [sendTo |-> sendTo, data |-> data, slot |-> 0]]
        /\ UNCHANGED <<semid, pingponidx, mem>>
    BY <1>3 DEF SndCall, Goto
  <2>2. BuffersTyped'
    BY <2>1 DEF BuffersTyped, Steps, SndRec, Slot
  <2>3. Exclusive'
    <3>1. \A u \in Senders, d \in Dests : Inside(u, d)' => Inside(u, d)
      BY <2>1 DEF Inside, Holding, BuffersTyped
    <3>2. QED
      BY <2>1, <3>1 DEF Exclusive
  <2>4. OwnData'
    BY <2>1, BuffersKept DEF BuffersTyped
  <2>5. QED
    BY <2>2, <2>3, <2>4 DEF IInv
<1>4. ASSUME NEW t \in Senders, SndDown(t)
      PROVE  IInv'
  <2> DEFINE d == snd[t].sendTo
  <2>1. /\ pc[t] = "down" /\ semid[d] > 0
        /\ semid' = [semid EXCEPT ![d] = @ - 1]
        /\ pc' = [pc EXCEPT ![t] = "peek"]
        /\ UNCHANGED <<pingponidx, mem, snd>>
    BY <1>4 DEF SndDown, Goto
  <2>2. d \in Dests
    BY DEF BuffersTyped, SndRec
  <2>3. semid[d] = 1 /\ semid'[d] = 0 /\ \A e \in Dests \ {d} : semid'[e] = semid[e]
    BY <2>1, <2>2 DEF Exclusive, BuffersTyped
  <2>4. \A u \in Senders, e \in Dests :
          Inside(u, e)' <=> Inside(u, e) \/ (u = t /\ e = d)
    BY <2>1 DEF Inside, Holding, BuffersTyped
  <2>5. \A u \in Senders : ~Inside(u, d)
    BY <2>2, <2>3 DEF Exclusive
  <2>6. Exclusive'
    BY <2>3, <2>4, <2>5 DEF Exclusive
  <2>7. BuffersTyped'
    BY <2>1, <2>2, <2>3 DEF BuffersTyped, Steps, Holding
  <2>8. OwnData'
    BY <2>1, BuffersKept DEF BuffersTyped
  <2>9. QED
    BY <2>6, <2>7, <2>8 DEF IInv
<1>5. ASSUME NEW t \in Senders, SndInterrupted(t)
      PROVE  IInv'
  BY <1>5 DEF SndInterrupted
<1>6. ASSUME NEW t \in Senders, SndPeek(t)
      PROVE  IInv'
  <2>1. /\ pc[t] = "peek" /\ Goto(t, "flip")
        /\ snd' = [snd EXCEPT ![t].slot = pingponidx[snd[t].sendTo]]
        /\ UNCHANGED <<semid, pingponidx, mem>>
    BY <1>6 DEF SndPeek
  <2>2. pingponidx[snd[t].sendTo] \in Slot
    BY DEF BuffersTyped, SndRec
  <2>3. BuffersTyped'
    BY <2>1, <2>2 DEF BuffersTyped, Goto, Steps, Holding, SndRec
  <2>4. \A u \in Senders : snd'[u].sendTo = snd[u].sendTo
    BY <2>1 DEF BuffersTyped, SndRec
  <2>5. Exclusive'
    BY <2>1, <2>4, MoveKeepsExclusive DEF Holding
  <2>6. OwnData'
    BY <2>1, BuffersKept DEF BuffersTyped, Goto
  <2>7. QED
    BY <2>3, <2>5, <2>6 DEF IInv
<1>7. ASSUME NEW t \in Senders, SndFlip(t)
      PROVE  IInv'
  <2>1. /\ pc[t] = "flip" /\ Goto(t, "copy")
        /\ pingponidx' = [pingponidx EXCEPT ![snd[t].sendTo] = 1 - snd[t].slot]
        /\ UNCHANGED <<semid, mem, snd>>
    BY <1>7 DEF SndFlip
  <2>2. 1 - snd[t].slot \in Slot
    <3>1. snd[t].slot \in Slot
      BY DEF BuffersTyped, SndRec
    <3>2. QED
      BY <3>1 DEF Slot
  <2>3. BuffersTyped'
    BY <2>1, <2>2 DEF BuffersTyped, Goto, Steps, Holding
  <2>4. Exclusive'
    BY <2>1, MoveKeepsExclusive DEF Holding
  <2>5. OwnData'
    BY <2>1, BuffersKept DEF BuffersTyped, Goto
  <2>6. QED
    BY <2>3, <2>4, <2>5 DEF IInv
<1>8. ASSUME NEW t \in Senders, SndCopy(t)
      PROVE  IInv'
  <2> DEFINE d == snd[t].sendTo
             base == Base(d, snd[t].slot)
  <2>1. /\ pc[t] = "copy" /\ Goto(t, "cmd")
        /\ UNCHANGED <<semid, pingponidx, snd>>
    BY <1>8 DEF SndCopy
  <2>2. d \in Dests /\ snd[t] \in SndRec /\ snd[t].slot \in Slot
    BY DEF BuffersTyped, SndRec
  <2>3. /\ mem' \in [MemWords -> Nat]
        /\ mem'[base] = d
        /\ \A n \in 1 .. Len(snd[t].data) :
             base + n \in MemWords => mem'[base + n] = snd[t].data[n]
        /\ \A a \in MemWords : a < base => mem'[a] = mem[a]
    BY <1>8, <2>2, CopyWrites DEF BuffersTyped
  <2>4. BuffersTyped'
    BY <2>1, <2>3 DEF BuffersTyped, Goto, Steps, Holding
  <2>5. Exclusive'
    BY <2>1, MoveKeepsExclusive DEF Holding
  <2>6. ASSUME NEW u \in Senders, pc'[u] = "cmd", snd[u].sendTo = Core1
        PROVE  /\ mem'[Base(Core1, snd[u].slot)] = Core1
               /\ \A n \in 1 .. Len(snd[u].data) :
                    Base(Core1, snd[u].slot) + n < Base(Core2, 0)
                      => mem'[Base(Core1, snd[u].slot) + n] = snd[u].data[n]
    <3> DEFINE ubase == Base(Core1, snd[u].slot)
    <3>1. /\ snd[u].slot \in Slot /\ snd[u].data \in Data \cup {<<>>}
          /\ Core1 \in Dests
      BY DEF BuffersTyped, SndRec, Dests, Core1, Max, Core3
    <3>2. ubase \in Nat /\ ubase < 8 /\ Base(Core2, 0) = 8
      BY <3>1, BasePlaces DEF Slot
    <3>3. Len(snd[u].data) \in Nat
      BY <3>1, DataTyped
    <3>4. \A a \in Nat : a < 8 => a \in MemWords
      BY DEF MemWords, Max, Core3, BufferWords, MAX_LENGTH
    <3> HIDE DEF ubase
    <3>5. CASE u = t
      BY <2>3, <2>6, <3>2, <3>3, <3>4, <3>5 DEF ubase
    <3>6. CASE u # t
      <4>1. pc[u] = "cmd"
        BY <2>1, <2>6, <3>6 DEF Goto, BuffersTyped
      <4>2. d # Core1
        BY <2>1, <2>2, <2>6, <3>6, <4>1 DEF Exclusive, Inside, Holding
      <4>3. base >= 8 /\ base \in Nat
        BY <2>2, <4>2, BasePlaces
      <4>4. \A a \in Nat : a < 8 => mem'[a] = mem[a]
        BY <2>3, <3>4, <4>3
      <4>5. /\ mem[ubase] = Core1
            /\ \A n \in 1 .. Len(snd[u].data) :
                 ubase + n < 8 => mem[ubase + n] = snd[u].data[n]
        BY <2>6, <3>2, <4>1 DEF OwnData, ubase
      <4>6. QED
        BY <3>2, <3>3, <4>4, <4>5 DEF ubase
    <3>7. QED
      BY <3>5, <3>6
  <2>7. OwnData'
    BY <2>1, <2>6 DEF OwnData
  <2>8. QED
    BY <2>4, <2>5, <2>7 DEF IInv
<1>9. ASSUME NEW t \in Senders, SndCmd(t)
      PROVE  IInv'
  <2>1. /\ pc[t] = "cmd" /\ Goto(t, "up")
        /\ UNCHANGED <<semid, pingponidx, mem, snd>>
    BY <1>9 DEF SndCmd
  <2>2. BuffersTyped'
    BY <2>1 DEF BuffersTyped, Goto, Steps, Holding
  <2>3. Exclusive'
    BY <2>1, MoveKeepsExclusive DEF Holding
  <2>4. OwnData'
    BY <2>1, BuffersKept DEF BuffersTyped, Goto
  <2>5. QED
    BY <2>2, <2>3, <2>4 DEF IInv
<1>10. ASSUME NEW t \in Senders, SndSameCore(t)
       PROVE  IInv'
  <2>1. Return(t, -6) /\ UNCHANGED <<semid, pingponidx, mem>>
    BY <1>10 DEF SndSameCore
  <2>2. BuffersTyped'
    BY <2>1, ReturnTyped DEF BuffersTyped
  <2>3. Exclusive'
    BY <2>1, LeaveKeepsExclusive
  <2>4. OwnData'
    BY <2>1, BuffersKept DEF Return, Goto, BuffersTyped
  <2>5. QED
    BY <2>2, <2>3, <2>4 DEF IInv
<1>11. ASSUME NEW t \in Senders, SndUp(t)
       PROVE  IInv'
  <2>1. /\ pc[t] = "up"
        /\ semid' = [semid EXCEPT ![snd[t].sendTo] = @ + 1]
        /\ UNCHANGED <<pingponidx, mem>>
    BY <1>11 DEF SndUp
  <2>2. PICK v \in {0, -1} : Return(t, v)
    BY <1>11 DEF SndUp
  <2>3. snd[t].sendTo \in Dests
    BY DEF BuffersTyped, SndRec
  <2>4. BuffersTyped'
    BY <2>1, <2>2, <2>3, ReturnTyped DEF BuffersTyped
  <2>5. Exclusive'
    BY <2>1, <2>2, LeaveKeepsExclusive DEF Holding
  <2>6. OwnData'
    BY <2>1, <2>2, BuffersKept DEF Return, Goto, BuffersTyped
  <2>7. QED
    BY <2>4, <2>5, <2>6 DEF IInv
<1>12. QED
  BY <1>1, <1>2, <1>3, <1>4, <1>5, <1>6, <1>7, <1>8, <1>9, <1>10, <1>11
  DEF SendNext, SndStep

-----------------------------------------------------------------------------

(* The inductive form counts as the property says: no thread is inside,    *)
(* or exactly one.                                                         *)
LEMMA ExclusiveCounts == Exclusive => SemaphoreIsMutex
<1> SUFFICES ASSUME Exclusive, NEW d \in Dests
             PROVE  semid[d] + Cardinality({t \in Senders : Inside(t, d)}) <= 1
  BY DEF SemaphoreIsMutex, Inside
<1> DEFINE inside == {t \in Senders : Inside(t, d)}
<1>1. CASE inside = {}
  BY <1>1, FS_EmptySet DEF Exclusive
<1>2. CASE inside # {}
  <2>1. PICK t \in Senders : Inside(t, d)
    BY <1>2
  <2>2. inside = {t}
    BY <2>1 DEF Exclusive
  <2>3. Cardinality(inside) = 1
    BY <2>2, FS_Singleton
  <2>4. semid[d] = 0
    BY <2>1 DEF Exclusive
  <2>5. QED
    BY <2>3, <2>4
<1>3. QED
  BY <1>1, <1>2

(* signalled is never reset.                                               *)
LEMMA SignalledStays == signalled /\ [SendNext]_sendVars => signalled'
<1> SUFFICES ASSUME signalled, [SendNext]_sendVars PROVE signalled'
  OBVIOUS
<1>1. CASE \E t \in Senders : SndInterrupted(t)
  BY <1>1 DEF SndInterrupted
<1>2. CASE ~\E t \in Senders : SndInterrupted(t)
  BY <1>2 DEF SendNext, SndStep, QueueGet, QueueRel, CoreTakes, CoreSets, SndRefused,
              SndCall, SndDown, SndPeek, SndFlip, SndCopy, SndCmd, SndSameCore,
              SndUp, queueVars, sendVars
<1>3. QED
  BY <1>1, <1>2

(* Hence the inductive invariant of the specification.                     *)
UntilSignal == ~signalled => IInv

LEMMA NextUntilSignal == UntilSignal /\ [SendNext]_sendVars => UntilSignal'
  BY NextIInv, SignalledStays DEF UntilSignal

(* lockSndMsgBuff and unlockSndMsgBuff work as a mutex for every number of *)
(* threads and whatever the queues do, until a signal ends a wait; the     *)
(* path that never unlocks does not break it.                              *)
THEOREM SemaphoreExcludes == SendSpec => []SemaphoreIsMutex
<1>1. SendInit => UntilSignal
  BY InitIInv DEF UntilSignal
<1>2. UntilSignal => SemaphoreIsMutex
  BY ExclusiveCounts DEF UntilSignal, IInv, SemaphoreIsMutex
<1>3. QED
  BY <1>1, <1>2, NextUntilSignal, PTL DEF SendSpec

(* Hence what a thread hands to another core is its caller's message.      *)
THEOREM SentDataIsOwn == SendSpec => []BufferHoldsOwnData
<1>1. SendInit => UntilSignal
  BY InitIInv DEF UntilSignal
<1>2. UntilSignal => BufferHoldsOwnData
  BY DEF UntilSignal, IInv, OwnData, BufferHoldsOwnData
<1>3. QED
  BY <1>1, <1>2, NextUntilSignal, PTL DEF SendSpec

-----------------------------------------------------------------------------

LEMMA InitTyped == SendInit => SendTypeOK
<1>1. NoWord \in Words
  BY DEF Words
<1>2. 0 \in Slot
  BY DEF Slot
<1>3. SendInit => regs \in [CmdRegs -> Words]
  BY <1>1 DEF SendInit
<1>4. SendInit => mem \in [MemWords -> Nat]
  BY DEF SendInit
<1>5. SendInit => snd \in [Senders -> SndRec]
  BY NoSndTyped DEF SendInit
<1>6. SendInit => /\ initkey \in BOOLEAN
                  /\ trigger \in BOOLEAN
                  /\ sts \subseteq StsBits
                  /\ signalled \in BOOLEAN
  BY DEF SendInit
<1>7. SendInit => /\ sharekey \in Keys
                  /\ semid \in [Dests -> Nat]
                  /\ pingponidx \in [Dests -> Slot]
                  /\ pc \in [Senders -> Steps]
                  /\ ret \in [Senders -> Int]
  BY <1>2 DEF SendInit, Steps
<1>8. QED
  BY <1>3, <1>4, <1>5, <1>6, <1>7 DEF SendTypeOK, SndRec

(* A call that returns.                                                    *)
LEMMA ReturnTypes ==
  ASSUME SendTypeOK, NEW t \in Senders, NEW v \in Int, Return(t, v)
  PROVE  /\ pc' \in [Senders -> Steps]
         /\ snd' \in [Senders -> SndRec]
         /\ ret' \in [Senders -> Int]
  BY NoSndTyped DEF SendTypeOK, Return, Goto, Steps, SndRec

(* SendTypeOK is inductive by itself, signals included.                    *)
LEMMA NextTyped == SendTypeOK /\ [SendNext]_sendVars => SendTypeOK'
<1> SUFFICES ASSUME SendTypeOK, [SendNext]_sendVars PROVE SendTypeOK'
  OBVIOUS
<1> USE DEF bufferVars, queueVars, ccVars
<1>1. CASE UNCHANGED sendVars
  BY <1>1 DEF sendVars, SendTypeOK
<1>2. CASE \E k \in Keys : QueueGet(k)
  BY <1>2 DEF QueueGet, SendTypeOK
<1>3. CASE QueueRel \/ CoreTakes \/ \E bit \in StsBits : CoreSets(bit)
  BY <1>3 DEF QueueRel, CoreTakes, CoreSets, SendTypeOK
<1>4. ASSUME NEW t \in Senders, NEW sendTo \in Core1 .. Max + 1,
             NEW toolong \in BOOLEAN, SndRefused(t, sendTo, toolong)
      PROVE  SendTypeOK'
  <2>1. PICK v \in Int : Return(t, v)
    BY <1>4 DEF SndRefused
  <2>2. QED
    BY <1>4, <2>1, ReturnTypes DEF SndRefused, SendTypeOK, SndRec
<1>5. ASSUME NEW t \in Senders, NEW sendTo \in Dests, NEW data \in Data,
             SndCall(t, sendTo, data)
      PROVE  SendTypeOK'
  BY <1>5 DEF SndCall, Goto, SendTypeOK, Steps, Slot
<1>6. ASSUME NEW t \in Senders, SndDown(t)
      PROVE  SendTypeOK'
  BY <1>6 DEF SndDown, Goto, SendTypeOK, Steps, Holding
<1>7. ASSUME NEW t \in Senders, SndInterrupted(t)
      PROVE  SendTypeOK'
  BY <1>7 DEF SndInterrupted, Goto, SendTypeOK, Steps, Holding
<1>8. ASSUME NEW t \in Senders, SndPeek(t)
      PROVE  SendTypeOK'
  <2>1. pingponidx[snd[t].sendTo] \in Slot
    BY DEF SendTypeOK
  <2>2. QED
    BY <1>8, <2>1 DEF SndPeek, Goto, SendTypeOK, Steps, Holding
<1>9. ASSUME NEW t \in Senders, SndFlip(t)
      PROVE  SendTypeOK'
  <2>1. 1 - snd[t].slot \in Slot
    <3>1. snd[t].slot \in Slot
      BY DEF SendTypeOK
    <3>2. QED
      BY <3>1 DEF Slot
  <2>2. QED
    BY <1>9, <2>1 DEF SndFlip, Goto, SendTypeOK, Steps, Holding
<1>10. ASSUME NEW t \in Senders, SndCopy(t)
       PROVE  SendTypeOK'
  <2>1. mem' \in [MemWords -> Nat]
    BY <1>10, CopyWrites DEF SendTypeOK, SndRec
  <2>2. QED
    BY <1>10, <2>1 DEF SndCopy, Goto, SendTypeOK, Steps, Holding
<1>11. ASSUME NEW t \in Senders, SndCmd(t)
       PROVE  SendTypeOK'
  <2>1. snd[t].sendTo \in Dests /\ snd[t].slot \in Slot /\ sharekey \in Keys
    BY DEF SendTypeOK
  <2>2. /\ KeyWord(sharekey) \in Words
        /\ AddrWord(snd[t].sendTo, snd[t].slot) \in Words
        /\ SizeWord \in Words
    BY <2>1 DEF Words
  <2>3. regs' \in [CmdRegs -> Words]
    BY <1>11, <2>2 DEF SndCmd, SendTypeOK
  <2>4. sts' \subseteq StsBits
    BY <1>11 DEF SndCmd, SendTypeOK
  <2>5. QED
    BY <1>11, <2>3, <2>4 DEF SndCmd, Goto, SendTypeOK, Steps, Holding
<1>12. ASSUME NEW t \in Senders, SndSameCore(t) \/ SndUp(t)
       PROVE  SendTypeOK'
  <2>1. PICK v \in Int : Return(t, v)
    BY <1>12 DEF SndSameCore, SndUp
  <2>2. semid' \in [Dests -> Nat]
    BY <1>12 DEF SndSameCore, SndUp, SendTypeOK
  <2>3. QED
    BY <1>12, <2>1, <2>2, ReturnTypes DEF SndSameCore, SndUp, SendTypeOK, SndRec
<1>13. QED
  BY <1>1, <1>2, <1>3, <1>4, <1>5, <1>6, <1>7, <1>8, <1>9, <1>10, <1>11, <1>12
  DEF SendNext, SndStep

(* Whatever signals arrive, the index of the ping-pong buffers stays 0 or  *)
(* 1, no semaphore falls below 0, and threads are at steps of ipc_msg_snd. *)
THEOREM SendTypesHold == SendSpec => []SendTypeOK
  BY InitTyped, NextTyped, PTL DEF SendSpec
-----------------------------------------------------------------------------
(***************************************************************************)
(* Signals: the bound on the semaphores.                                   *)
(***************************************************************************)

InsideOf(d) == {t \in Senders : Inside(t, d)}

(* A set of threads inside is counted by a number no greater than that of  *)
(* all threads.                                                            *)
LEMMA InsideCounts ==
  ASSUME NEW S \in SUBSET Senders
  PROVE  /\ IsFiniteSet(S)
         /\ Cardinality(S) \in Nat
         /\ Cardinality(Senders) \in Nat
         /\ Cardinality(S) <= Cardinality(Senders)
  BY SendersAssumption, FS_Subset, FS_CardinalityType

(* Steps after which no thread is inside that was not, and the semaphore   *)
(* is what it was.                                                         *)
LEMMA FewerInside ==
  ASSUME SendTypeOK, NEW d \in Dests,
         semid[d] + Cardinality(InsideOf(d)) <= Cardinality(Senders),
         semid'[d] = semid[d], InsideOf(d)' \subseteq InsideOf(d)
  PROVE  semid'[d] + Cardinality(InsideOf(d)') <= Cardinality(Senders)
<1>1. InsideOf(d) \in SUBSET Senders /\ InsideOf(d)' \in SUBSET Senders
  BY DEF InsideOf
<1>2. IsFiniteSet(InsideOf(d)) /\ Cardinality(InsideOf(d)) \in Nat
  BY <1>1, InsideCounts
<1>3. Cardinality(InsideOf(d)') \in Nat /\ Cardinality(Senders) \in Nat
  BY <1>1, InsideCounts
<1>4. InsideOf(d)' \in SUBSET InsideOf(d)
  OBVIOUS
<1>5. Cardinality(InsideOf(d)') <= Cardinality(InsideOf(d))
  BY <1>2, <1>4, FS_Subset
<1>6. semid[d] \in Nat
  BY DEF SendTypeOK
<1>7. QED
  BY <1>2, <1>3, <1>5, <1>6

(* The bound is kept by every step.  Where a signal lets a thread in, the  *)
(* semaphore is 0, and the threads inside are not more than there are.     *)
LEMMA NextBounded ==
  ASSUME SendTypeOK, SendTypeOK', [SendNext]_sendVars, NEW d \in Dests,
         semid[d] + Cardinality(InsideOf(d)) <= Cardinality(Senders)
  PROVE  semid'[d] + Cardinality(InsideOf(d)') <= Cardinality(Senders)
<1> DEFINE n == Cardinality(InsideOf(d))
           N == Cardinality(Senders)
<1>1. InsideOf(d) \in SUBSET Senders /\ InsideOf(d)' \in SUBSET Senders
  BY DEF InsideOf
<1>2. /\ IsFiniteSet(InsideOf(d)) /\ n \in Nat /\ N \in Nat
      /\ Cardinality(InsideOf(d)') \in Nat /\ Cardinality(InsideOf(d)') <= N
  BY <1>1, InsideCounts
<1>3. /\ pc \in [Senders -> Steps] /\ snd \in [Senders -> SndRec]
      /\ semid \in [Dests -> Nat]
  BY DEF SendTypeOK, SndRec
<1>4. CASE UNCHANGED <<semid, pc, snd>>
  BY <1>4, FewerInside DEF InsideOf, Inside
<1>5. ASSUME NEW t \in Senders, NEW v, Return(t, v), semid'[d] = semid[d]
      PROVE  semid'[d] + Cardinality(InsideOf(d)') <= N
  <2>1. InsideOf(d)' \subseteq InsideOf(d)
    BY <1>3, <1>5 DEF InsideOf, Inside, Return, Goto, Holding
  <2>2. QED
    BY <1>5, <2>1, FewerInside
<1>6. ASSUME NEW t \in Senders, pc[t] \notin Holding, pc'[t] \notin Holding,
             UNCHANGED semid,
             \A u \in Senders \ {t} : pc'[u] = pc[u] /\ snd'[u] = snd[u]
      PROVE  semid'[d] + Cardinality(InsideOf(d)') <= N
  <2>1. InsideOf(d)' \subseteq InsideOf(d)
    BY <1>6 DEF InsideOf, Inside
  <2>2. QED
    BY <1>6, <2>1, FewerInside
<1>7. ASSUME NEW t \in Senders, pc[t] \in Holding, UNCHANGED semid,
             \A u \in Senders \ {t} : pc'[u] = pc[u],
             \A u \in Senders : snd'[u].sendTo = snd[u].sendTo
      PROVE  semid'[d] + Cardinality(InsideOf(d)') <= N
  <2>1. InsideOf(d)' \subseteq InsideOf(d)
    BY <1>7 DEF InsideOf, Inside
  <2>2. QED
    BY <1>7, <2>1, FewerInside
<1>8. ASSUME NEW t \in Senders, SndDown(t)
      PROVE  semid'[d] + Cardinality(InsideOf(d)') <= N
  <2>1. /\ pc[t] = "down" /\ pc' = [pc EXCEPT ![t] = "peek"] /\ UNCHANGED snd
        /\ semid[snd[t].sendTo] > 0
        /\ semid' = [semid EXCEPT ![snd[t].sendTo] = @ - 1]
    BY <1>8 DEF SndDown, Goto
  <2>2. CASE snd[t].sendTo = d
    <3>1. InsideOf(d)' = InsideOf(d) \cup {t} /\ t \notin InsideOf(d)
      BY <1>3, <2>1, <2>2 DEF InsideOf, Inside, Holding
    <3>2. Cardinality(InsideOf(d)') = n + 1
      BY <1>2, <3>1, FS_AddElement
    <3>3. semid'[d] = semid[d] - 1 /\ semid[d] \in Nat
      BY <1>3, <2>1, <2>2
    <3>4. QED
      BY <1>2, <3>2, <3>3
  <2>3. CASE snd[t].sendTo # d
    <3>1. InsideOf(d)' \subseteq InsideOf(d) /\ semid'[d] = semid[d]
      BY <1>3, <2>1, <2>3 DEF InsideOf, Inside
    <3>2. QED
      BY <3>1, FewerInside
  <2>4. QED
    BY <2>2, <2>3
<1>9. ASSUME NEW t \in Senders, SndInterrupted(t)
      PROVE  semid'[d] + Cardinality(InsideOf(d)') <= N
  <2>1. /\ pc' = [pc EXCEPT ![t] = "peek"] /\ UNCHANGED <<snd, semid>>
        /\ semid[snd[t].sendTo] = 0
    BY <1>9 DEF SndInterrupted, Goto, bufferVars
  <2>2. CASE snd[t].sendTo = d
    BY <1>2, <2>1, <2>2
  <2>3. CASE snd[t].sendTo # d
    <3>1. InsideOf(d)' \subseteq InsideOf(d)
      BY <1>3, <2>1, <2>3 DEF InsideOf, Inside
    <3>2. QED
      BY <2>1, <3>1, FewerInside
  <2>4. QED
    BY <2>2, <2>3
<1>10. ASSUME NEW t \in Senders, SndUp(t)
       PROVE  semid'[d] + Cardinality(InsideOf(d)') <= N
  <2>1. /\ pc[t] = "up"
        /\ semid' = [semid EXCEPT ![snd[t].sendTo] = @ + 1]
    BY <1>10 DEF SndUp
  <2>2. PICK v : Return(t, v)
    BY <1>10 DEF SndUp
  <2>3. CASE snd[t].sendTo = d
    <3>1. InsideOf(d)' = InsideOf(d) \ {t} /\ t \in InsideOf(d)
      BY <1>3, <2>1, <2>2, <2>3 DEF InsideOf, Inside, Holding, Return, Goto
    <3>2. Cardinality(InsideOf(d)') = n - 1
      BY <1>2, <3>1, FS_RemoveElement
    <3>3. semid'[d] = semid[d] + 1 /\ semid[d] \in Nat
      BY <1>3, <2>1, <2>3
    <3>4. QED
      BY <1>2, <3>2, <3>3
  <2>4. CASE snd[t].sendTo # d
    <3>1. semid'[d] = semid[d]
      BY <1>3, <2>1, <2>4
    <3>2. QED
      BY <1>5, <2>2, <3>1
  <2>5. QED
    BY <2>3, <2>4
<1>11. ASSUME NEW t \in Senders, SndPeek(t) \/ SndFlip(t) \/ SndCopy(t) \/ SndCmd(t)
       PROVE  semid'[d] + Cardinality(InsideOf(d)') <= N
  <2>1. pc[t] \in Holding /\ UNCHANGED semid
    BY <1>11 DEF SndPeek, SndFlip, SndCopy, SndCmd, Holding, bufferVars
  <2>2. \A u \in Senders \ {t} : pc'[u] = pc[u]
    BY <1>3, <1>11 DEF SndPeek, SndFlip, SndCopy, SndCmd, Goto
  <2>3. \A u \in Senders : snd'[u].sendTo = snd[u].sendTo
    BY <1>3, <1>11 DEF SndPeek, SndFlip, SndCopy, SndCmd, SndRec
  <2>4. QED
    BY <1>7, <2>1, <2>2, <2>3
<1>12. ASSUME NEW t \in Senders, NEW sendTo, NEW data, SndCall(t, sendTo, data)
       PROVE  semid'[d] + Cardinality(InsideOf(d)') <= N
  BY <1>3, <1>6, <1>12 DEF SndCall, Goto, Holding, bufferVars
<1>13. ASSUME NEW t \in Senders,
              \/ \E sendTo, toolong : SndRefused(t, sendTo, toolong)
              \/ SndSameCore(t)
       PROVE  semid'[d] + Cardinality(InsideOf(d)') <= N
  <2>1. PICK v : Return(t, v)
    BY <1>13 DEF SndRefused, SndSameCore
  <2>2. QED
    BY <1>5, <1>13, <2>1 DEF SndRefused, SndSameCore, bufferVars
<1>14. QED
  BY <1>4, <1>8, <1>9, <1>10, <1>11, <1>12, <1>13
  DEF SendNext, SndStep, QueueGet, QueueRel, CoreTakes, CoreSets, sendVars, bufferVars

(* A thread that a signal lets in without the semaphore returns it all the *)
(* same, but however many signals arrive, the count and the threads inside *)
(* together never exceed the number of threads.                            *)
THEOREM SemaphoresBounded == SendSpec => []SemaphoreBounded
<1> DEFINE B == \A d \in Dests :
                  semid[d] + Cardinality(InsideOf(d)) <= Cardinality(Senders)
<1>1. SendInit => B
  <2> SUFFICES ASSUME SendInit, NEW d \in Dests
               PROVE  semid[d] + Cardinality(InsideOf(d)) <= Cardinality(Senders)
    OBVIOUS
  <2>1. InsideOf(d) = {} /\ semid[d] = 1
    BY DEF SendInit, InsideOf, Inside, Holding
  <2>2. Cardinality(Senders) \in Nat /\ Cardinality(Senders) # 0
    BY SendersAssumption, FS_CardinalityType, FS_EmptySet
  <2>3. QED
    BY <2>1, <2>2, FS_EmptySet
<1>2. SendTypeOK /\ SendTypeOK' /\ B /\ [SendNext]_sendVars => B'
  BY NextBounded
<1>3. B => SemaphoreBounded
  BY DEF SemaphoreBounded, InsideOf, Inside
<1>4. QED
  BY <1>1, <1>2, <1>3, SendTypesHold, PTL DEF SendSpec

-----------------------------------------------------------------------------
(***************************************************************************)
(* The two buffers of core 1.                                              *)
(***************************************************************************)

(* No thread writes, or is about to hand over, the buffer whose address    *)
(* the register has; and the next buffer to be used is the other one.      *)
PingPong ==
  /\ \A t \in Senders :
       snd[t].sendTo = Core1 =>
         /\ pc[t] = "flip" => snd[t].slot = pingponidx[Core1]
         /\ pc[t] \in {"copy", "cmd"} =>
              /\ snd[t].slot = 1 - pingponidx[Core1]
              /\ regs["cmdbuf3"] # AddrWord(Core1, snd[t].slot)
  /\ (\A t \in Senders : ~(snd[t].sendTo = Core1 /\ pc[t] \in {"copy", "cmd"}))
       => regs["cmdbuf3"] # AddrWord(Core1, pingponidx[Core1])

(* Addresses of different buffers differ, and no size is one.              *)
LEMMA AddrWordsDiffer ==
  /\ \A i, j : AddrWord(Core1, i) = AddrWord(Core1, j) => i = j
  /\ \A d, i, j : d # Core1 => AddrWord(d, i) # AddrWord(Core1, j)
  /\ \A i : SizeWord # AddrWord(Core1, i) /\ NoWord # AddrWord(Core1, i)
  BY DEF AddrWord, SizeWord, NoWord

(* A step that leaves index and register, and moves nobody inside.         *)
LEMMA PingPongKept ==
  ASSUME PingPong, UNCHANGED <<pingponidx, regs>>,
         \A u \in Senders :
           \/ pc'[u] \in {"idle", "down", "peek"}
              /\ ~(snd[u].sendTo = Core1 /\ pc[u] \in {"copy", "cmd"})
           \/ pc'[u] = pc[u] /\ snd'[u] = snd[u]
  PROVE  PingPong'
  BY DEF PingPong

(* A step of one thread inside for core 1, alone.                          *)
LEMMA AloneInside ==
  ASSUME BuffersTyped, Exclusive, NEW t \in Senders, snd[t].sendTo = Core1,
         pc[t] \in Holding, NEW u \in Senders \ {t}, snd[u].sendTo = Core1
  PROVE  pc[u] \notin Holding
  BY DEF Exclusive, Inside, Dests, Core1, Max, Core3

(* Every step but SndInterrupted keeps the buffers apart.                  *)
LEMMA NextPingPong ==
  ASSUME SendTypeOK, IInv, PingPong, ~signalled', [SendNext]_sendVars
  PROVE  PingPong'
<1> USE DEF bufferVars, queueVars, ccVars
<1>1. /\ pc \in [Senders -> Steps] /\ snd \in [Senders -> SndRec]
      /\ pingponidx \in [Dests -> Slot] /\ regs \in [CmdRegs -> Words]
      /\ BuffersTyped /\ Exclusive /\ Core1 \in Dests
  BY DEF SendTypeOK, SndRec, IInv, Dests, Core1, Max, Core3
<1>2. CASE UNCHANGED <<pingponidx, regs, pc, snd>>
  BY <1>2, PingPongKept
<1>3. ASSUME NEW t \in Senders, NEW v, Return(t, v), UNCHANGED <<pingponidx, regs>>,
             ~(snd[t].sendTo = Core1 /\ pc[t] \in {"copy", "cmd"})
      PROVE  PingPong'
  <2>1. pc'[t] = "idle" /\ \A u \in Senders \ {t} : pc'[u] = pc[u] /\ snd'[u] = snd[u]
    BY <1>1, <1>3 DEF Return, Goto
  <2>2. QED
    BY <1>3, <2>1, PingPongKept
<1>4. ASSUME NEW t \in Senders, NEW sendTo, NEW data, SndCall(t, sendTo, data)
      PROVE  PingPong'
  <2>1. /\ pc[t] = "idle" /\ pc'[t] = "down"
        /\ \A u \in Senders \ {t} : pc'[u] = pc[u] /\ snd'[u] = snd[u]
        /\ UNCHANGED <<pingponidx, regs>>
    BY <1>1, <1>4 DEF SndCall, Goto
  <2>2. QED
    BY <2>1, PingPongKept
<1>5. ASSUME NEW t \in Senders, SndDown(t)
      PROVE  PingPong'
  <2>1. /\ pc[t] = "down" /\ pc'[t] = "peek"
        /\ \A u \in Senders \ {t} : pc'[u] = pc[u]
        /\ UNCHANGED <<pingponidx, regs, snd>>
    BY <1>1, <1>5 DEF SndDown, Goto
  <2>2. QED
    BY <2>1, PingPongKept
<1>6. ASSUME NEW t \in Senders, SndPeek(t)
      PROVE  PingPong'
  <2>1. /\ pc[t] = "peek" /\ pc'[t] = "flip"
        /\ \A u \in Senders \ {t} : pc'[u] = pc[u] /\ snd'[u] = snd[u]
        /\ snd'[t].sendTo = snd[t].sendTo
        /\ snd'[t].slot = pingponidx[snd[t].sendTo]
        /\ UNCHANGED <<pingponidx, regs>>
    BY <1>1, <1>6 DEF SndPeek, Goto, SndRec
  <2>2. QED
    BY <2>1 DEF PingPong
<1>7. ASSUME NEW t \in Senders, SndFlip(t)
      PROVE  PingPong'
  <2>1. /\ pc[t] = "flip" /\ pc'[t] = "copy"
        /\ \A u \in Senders \ {t} : pc'[u] = pc[u]
        /\ pingponidx' = [pingponidx EXCEPT ![snd[t].sendTo] = 1 - snd[t].slot]
        /\ UNCHANGED <<regs, snd>>
    BY <1>1, <1>7 DEF SndFlip, Goto
  <2>2. CASE snd[t].sendTo = Core1
    <3>1. \A u \in Senders \ {t} : snd[u].sendTo = Core1 => pc[u] \notin Holding
      BY <1>1, <2>1, <2>2, AloneInside DEF Holding
    <3>2. pingponidx'[Core1] = 1 - snd[t].slot /\ snd[t].slot \in Slot
      BY <1>1, <2>1, <2>2 DEF SndRec
    <3>3. snd[t].slot = 1 - pingponidx'[Core1]
      BY <3>2 DEF Slot
    <3>4. regs["cmdbuf3"] # AddrWord(Core1, snd[t].slot)
      BY <2>1, <2>2, <3>1 DEF PingPong, Holding
    <3>5. ASSUME NEW u \in Senders, snd'[u].sendTo = Core1
          PROVE  /\ pc'[u] # "flip"
                 /\ pc'[u] \in {"copy", "cmd"} => u = t
      BY <2>1, <3>1, <3>5 DEF Holding
    <3>6. ~\A u \in Senders : ~(snd'[u].sendTo = Core1 /\ pc'[u] \in {"copy", "cmd"})
      BY <2>1, <2>2
    <3>7. snd'[t].slot = 1 - pingponidx'[Core1] /\ regs' = regs /\ snd' = snd
      BY <2>1, <3>3
    <3>8. QED
      BY <3>4, <3>5, <3>6, <3>7 DEF PingPong
  <2>3. CASE snd[t].sendTo # Core1
    <3>1. pingponidx'[Core1] = pingponidx[Core1]
      BY <1>1, <2>1, <2>3
    <3>2. QED
      BY <2>1, <2>3, <3>1 DEF PingPong
  <2>4. QED
    BY <2>2, <2>3
<1>8. ASSUME NEW t \in Senders, SndCopy(t)
      PROVE  PingPong'
  <2>1. /\ pc[t] = "copy" /\ pc'[t] = "cmd"
        /\ \A u \in Senders \ {t} : pc'[u] = pc[u]
        /\ UNCHANGED <<pingponidx, regs, snd>>
    BY <1>1, <1>8 DEF SndCopy, Goto
  <2>2. QED
    BY <2>1 DEF PingPong
<1>9. ASSUME NEW t \in Senders, SndCmd(t)
      PROVE  PingPong'
  <2> DEFINE d == snd[t].sendTo
             a == AddrWord(d, snd[t].slot)
  <2>1. /\ pc[t] = "cmd" /\ pc'[t] = "up"
        /\ \A u \in Senders \ {t} : pc'[u] = pc[u]
        /\ UNCHANGED <<pingponidx, snd>>
    BY <1>1, <1>9 DEF SndCmd, Goto
  <2>2. regs'["cmdbuf3"] \in {a, SizeWord}
    BY <1>1, <1>9 DEF SndCmd, CmdRegs
  <2>3. CASE d = Core1
    <3>1. \A u \in Senders \ {t} : snd[u].sendTo = Core1 => pc[u] \notin Holding
      BY <1>1, <2>1, <2>3, AloneInside DEF Holding
    <3>2. snd[t].slot = 1 - pingponidx[Core1] /\ pingponidx[Core1] \in Slot
      BY <1>1, <2>1, <2>3 DEF PingPong
    <3>3. a # AddrWord(Core1, pingponidx[Core1])
      BY <2>3, <3>2, AddrWordsDiffer DEF Slot
    <3>4. regs'["cmdbuf3"] # AddrWord(Core1, pingponidx[Core1])
      BY <2>2, <3>3, AddrWordsDiffer
    <3>5. QED
      BY <2>1, <3>1, <3>4 DEF PingPong, Holding
  <2>4. CASE d # Core1
    <3>1. \A i : regs'["cmdbuf3"] # AddrWord(Core1, i)
      BY <2>2, <2>4, AddrWordsDiffer
    <3>2. QED
      BY <2>1, <2>4, <3>1 DEF PingPong
  <2>5. QED
    BY <2>3, <2>4
<1>10. ASSUME NEW t \in Senders, SndUp(t) \/ SndSameCore(t)
       PROVE  PingPong'
  <2>1. CASE SndUp(t)
    BY <1>3, <2>1 DEF SndUp
  <2>2. CASE SndSameCore(t)
    <3>1. PICK core \in SendToRead(t) : core # Core1
      BY <2>2 DEF SndSameCore
    <3>2. pc[t] = "cmd"
      BY <2>2 DEF SndSameCore
    <3>3. snd[t].sendTo # Core1
      BY <3>1, <3>2 DEF SendToRead, IInv, OwnData
    <3>4. QED
      BY <1>3, <2>2, <3>3 DEF SndSameCore
  <2>3. QED
    BY <1>10, <2>1, <2>2
<1>11. ASSUME NEW t \in Senders, NEW sendTo, NEW toolong, SndRefused(t, sendTo, toolong)
       PROVE  PingPong'
  BY <1>3, <1>11 DEF SndRefused
<1>12. QED
  BY <1>2, <1>4, <1>5, <1>6, <1>7, <1>8, <1>9, <1>10, <1>11
  DEF SendNext, SndStep, QueueGet, QueueRel, CoreTakes, CoreSets, SndInterrupted, sendVars

PongUntilSignal == ~signalled => PingPong

(* While a thread prepares a message for core 1 nobody writes the buffer   *)
(* whose address cmdbuf3 has, nor one that a thread is about to hand over, *)
(* until a signal ends a wait - but for messages longer than a buffer:     *)
(* one in the first buffer runs over into the second.                      *)
THEOREM ShortMessagesStay == SendSpec => OnlyLongCopiesIntrude
<1> DEFINE OnlyLong ==
             ~signalled =>
               \A i \in Slot : Disturbed(i) =>
                 /\ i = 1
                 /\ \E t \in Senders :
                      /\ pc[t] = "copy" /\ pc'[t] = "cmd"
                      /\ snd[t].sendTo = Core1 /\ snd[t].slot = 0
                      /\ Len(snd[t].data) > MAX_LENGTH
<1>1. SendInit => UntilSignal /\ PongUntilSignal
  <2>1. SendInit => PingPong
    BY AddrWordsDiffer DEF SendInit, PingPong, CmdRegs
  <2>2. QED
    BY <2>1, InitIInv DEF UntilSignal, PongUntilSignal
<1>2. /\ SendTypeOK /\ UntilSignal /\ PongUntilSignal
      /\ [SendNext]_sendVars
      => UntilSignal' /\ PongUntilSignal'
  BY NextUntilSignal, NextPingPong, SignalledStays DEF UntilSignal, PongUntilSignal
<1>3. SendTypeOK /\ UntilSignal /\ PongUntilSignal /\ [SendNext]_sendVars
        => [OnlyLong]_sendVars
  <2> SUFFICES ASSUME IInv, PingPong, SendNext, NEW i \in Slot, InUse(i),
                      NEW a \in Buffer(Core1, i), mem'[a] # mem[a]
               PROVE  /\ i = 1
                      /\ \E t \in Senders :
                           /\ pc[t] = "copy" /\ pc'[t] = "cmd"
                           /\ snd[t].sendTo = Core1 /\ snd[t].slot = 0
                           /\ Len(snd[t].data) > MAX_LENGTH
    BY DEF UntilSignal, PongUntilSignal, Disturbed
  <2>1. BuffersTyped /\ Exclusive /\ Core1 \in Dests
    BY DEF IInv, Dests, Core1, Max, Core3
  <2>2. PICK t \in Senders : SndCopy(t)
    BY DEF SendNext, SndStep, QueueGet, QueueRel, CoreTakes, CoreSets, SndRefused,
           SndCall, SndDown, SndInterrupted, SndPeek, SndFlip, SndCmd, SndSameCore,
           SndUp, bufferVars
  <2> DEFINE j == snd[t].slot
  <2>3. /\ pc[t] = "copy" /\ pc'[t] = "cmd"
        /\ snd[t] \in SndRec /\ snd[t].sendTo \in Dests /\ j \in Slot
        /\ snd[t].data \in Data \cup {<<>>}
    BY <2>1, <2>2 DEF SndCopy, Goto, BuffersTyped, SndRec
  <2>4. a \in 4 * i .. 4 * i + 3
    BY <2>1, BasePlaces DEF Buffer, MAX_LENGTH
  <2>5. a \in Int /\ a \in MemWords /\ a < 8
    BY <2>4 DEF Slot, MemWords, Max, Core3, BufferWords, MAX_LENGTH
  <2>6. /\ a >= Base(snd[t].sendTo, j)
        /\ a <= Base(snd[t].sendTo, j) + Len(snd[t].data)
    <3>1. Len(snd[t].data) \in Nat /\ Base(snd[t].sendTo, j) \in Nat
      BY <2>3, DataTyped, BasePlaces
    <3>2. /\ \A b \in MemWords : b < Base(snd[t].sendTo, j) => mem'[b] = mem[b]
          /\ \A b \in MemWords :
               b > Base(snd[t].sendTo, j) + Len(snd[t].data) => mem'[b] = mem[b]
      BY <2>1, <2>2, <2>3, CopyWrites DEF BuffersTyped
    <3>3. QED
      BY <2>5, <3>1, <3>2
  <2>7. snd[t].sendTo = Core1
    BY <2>3, <2>5, <2>6, BasePlaces
  <2>8. Base(snd[t].sendTo, j) = 4 * j
    BY <2>3, <2>7, BasePlaces
  <2>9. i # j
    <3>1. \A u \in Senders \ {t} : snd[u].sendTo = Core1 => pc[u] \notin Holding
      BY <2>1, <2>3, <2>7, AloneInside DEF Holding
    <3>2. regs["cmdbuf3"] # AddrWord(Core1, j)
      BY <2>3, <2>7 DEF PingPong
    <3>3. QED
      BY <2>3, <3>1, <3>2 DEF InUse, Holding
  <2>10. i = 1 /\ j = 0 /\ Len(snd[t].data) > MAX_LENGTH
    <3>1. Len(snd[t].data) \in Nat
      BY <2>3, DataTyped
    <3>2. QED
      BY <2>3, <2>4, <2>6, <2>8, <2>9, <3>1 DEF Slot, MAX_LENGTH
  <2>11. QED
    BY <2>3, <2>7, <2>10
<1>4. QED
  BY <1>1, <1>2, <1>3, SendTypesHold, PTL DEF SendSpec, OnlyLongCopiesIntrude
=============================================================================
