------------------------------- MODULE IpcSend -------------------------------
(***************************************************************************)
(* The send path: ipc_msg_snd of drv_ipc_api.c, run by several threads,    *)
(* the ping-pong buffers and semaphores of drv_ipc_msgque.c it locks, and  *)
(* the registers ipc_cc_send_cmd of ipc-cc.c writes for core 1, on core 2. *)
(* The queue a send is made on may be released and registered anew while   *)
(* it runs.  Memory is counted in words of 32 bits.                        *)
(*                                                                         *)
(* pc is, in the order of the code:                                        *)
(*   "down"   in down_interruptible                                        *)
(*   "peek"   reads pingponidx          "flip"   stores pingponidx         *)
(*   "copy"   writes the buffer         "cmd"    hands it to core sendTo   *)
(*   "up"     returns the semaphore                                        *)
(***************************************************************************)
EXTENDS Integers, Sequences, FiniteSets

CONSTANTS
  Senders,   \* threads that send
  Keys,      \* keys the queue is registered under
  Data       \* messages, sequences of words

MAX_LENGTH == 3                 \* words of a buffer for the message
ElementWords == 6               \* IPC_MSG_ELEMENT_SIZE, what a caller may pass

ASSUME SendersAssumption == Senders # {} /\ IsFiniteSet(Senders)
ASSUME DataAssumption ==
  \A data \in Data : data \in Seq(Nat) /\ Len(data) <= ElementWords

Core1 == 1
Core2 == 2
Core3 == 3
Max == Core3                    \* IPC_SENDTO_MAX
Dests == Core1 .. Max           \* IPC_SENDTO

Slot == {0, 1}                  \* sndmsg[0] and sndmsg[1]

(* The buffers lie one behind the other in syscmdbuf_vir.  An IPC_SEND_MSG *)
(* is the word sendTo and MAX_LENGTH words of the message.                 *)
BufferWords == 1 + MAX_LENGTH
Base(d, i) == BufferWords * (2 * (d - 1) + i)
Buffer(d, i) == Base(d, i) .. Base(d, i) + MAX_LENGTH
MemWords == 0 .. 2 * Max * BufferWords - 1

(* Bits of the status register of core 2.                                  *)
Events == {"event"} \X {Core1, Core3}
StsBits == Events \cup ({"ack"} \X {Core1, Core3})

(* Words that registers hold.                                              *)
KeyWord(k) == <<"key", k>>
AddrWord(d, i) == <<"addr", d, i>>
SizeWord == <<"size">>
NoWord == <<"none">>

CmdRegs == {"cmdbuf1", "cmdbuf2", "cmdbuf3"}

Words == {KeyWord(k) : k \in Keys} \cup {AddrWord(d, i) : d \in Dests, i \in Slot}
           \cup {SizeWord, NoWord}

VARIABLES
  initkey, sharekey,   \* of the queue the sends name
  semid,               \* semaphore of each destination
  pingponidx,          \* next buffer of each destination
  mem,                 \* the words of the buffers
  regs,                \* command registers from this core to core 1
  trigger,             \* core 1 has been told of a command and has not come
  sts,                 \* bits set in the status register of core 2
  pc, snd,             \* where each thread is, and the locals of its call
  ret,                 \* what its last call returned
  signalled            \* history: a signal has ended a wait for a semaphore

sendVars == <<initkey, sharekey, semid, pingponidx, mem, regs, trigger,
              sts, pc, snd, ret, signalled>>

NoSnd == [sendTo |-> Core1, data |-> <<>>, slot |-> 0]

SendInit ==
  /\ initkey = FALSE
  /\ sharekey \in Keys
  /\ semid = [d \in Dests |-> 1]
  /\ pingponidx = [d \in Dests |-> 0]
  /\ mem = [a \in MemWords |-> 0]
  /\ regs = [r \in CmdRegs |-> NoWord]
  /\ trigger = FALSE
  /\ sts = {}
  /\ pc = [t \in Senders |-> "idle"]
  /\ snd = [t \in Senders |-> NoSnd]
  /\ ret = [t \in Senders |-> 0]
  /\ signalled = FALSE

queueVars == <<initkey, sharekey, signalled>>
bufferVars == <<semid, pingponidx, mem>>
ccVars == <<regs, trigger, sts>>

Goto(t, label) == pc' = [pc EXCEPT ![t] = label]

Return(t, v) ==
  /\ Goto(t, "idle")
  /\ snd' = [snd EXCEPT ![t] = NoSnd]
  /\ ret' = [ret EXCEPT ![t] = v]

-----------------------------------------------------------------------------
(***************************************************************************)
(* The queue and the other core.                                           *)
(***************************************************************************)
QueueGet(k) ==
  /\ ~initkey
  /\ initkey' = TRUE
  /\ sharekey' = k
  /\ UNCHANGED <<bufferVars, ccVars, pc, snd, ret, signalled>>

QueueRel ==
  /\ initkey
  /\ initkey' = FALSE
  /\ UNCHANGED <<sharekey, bufferVars, ccVars, pc, snd, ret, signalled>>

(* Core 1 takes the command: it reads the registers and the memory.        *)
CoreTakes ==
  /\ trigger
  /\ trigger' = FALSE
  /\ UNCHANGED <<queueVars, bufferVars, regs, sts, pc, snd, ret>>

(* Another core sends a command or acknowledges one.                       *)
CoreSets(bit) ==
  /\ sts' = sts \cup {bit}
  /\ UNCHANGED <<queueVars, bufferVars, regs, trigger, pc, snd, ret>>

-----------------------------------------------------------------------------
(***************************************************************************)
(* ipc_msg_snd.  sendTo is unsigned and compared with its maximum only;    *)
(* callers pass no 0 here.                                                 *)
(***************************************************************************)
SndRefused(t, sendTo, toolong) ==
  /\ pc[t] = "idle"
  /\ \/ ~initkey /\ Return(t, -1)
     \/ initkey /\ sendTo > Max /\ Return(t, -3)
     \/ initkey /\ sendTo <= Max /\ toolong /\ Return(t, -4)
  /\ UNCHANGED <<queueVars, bufferVars, ccVars>>

SndCall(t, sendTo, data) ==
  /\ pc[t] = "idle"
  /\ initkey
  /\ sendTo <= Max
  /\ snd' = [snd EXCEPT ![t] = [sendTo |-> sendTo, data |-> data, slot |-> 0]]
  /\ Goto(t, "down")
  /\ UNCHANGED <<queueVars, bufferVars, ccVars, ret>>

(* Variant: the semaphore lets everybody in.                               *)
SndDownOpen(t) ==
  /\ pc[t] = "down"
  /\ Goto(t, "peek")
  /\ UNCHANGED <<queueVars, bufferVars, ccVars, snd, ret>>

(* ipc_msgque_lockSndMsgBuff.                                              *)
SndDown(t) ==
  /\ pc[t] = "down"
  /\ semid[snd[t].sendTo] > 0
  /\ semid' = [semid EXCEPT ![snd[t].sendTo] = @ - 1]
  /\ Goto(t, "peek")
  /\ UNCHANGED <<queueVars, pingponidx, mem, ccVars, snd, ret>>

(* Variant: a signal ends the wait of a thread that could have gone on.    *)
SndInterruptedAnyTime(t) ==
  /\ pc[t] = "down"
  /\ signalled' = TRUE
  /\ Goto(t, "peek")
  /\ UNCHANGED <<initkey, sharekey, bufferVars, ccVars, snd, ret>>

(* down_interruptible returns -EINTR without the semaphore, and nobody     *)
(* looks at what it returned.                                              *)
SndInterrupted(t) ==
  /\ pc[t] = "down"
  /\ semid[snd[t].sendTo] = 0
  /\ signalled' = TRUE
  /\ Goto(t, "peek")
  /\ UNCHANGED <<initkey, sharekey, bufferVars, ccVars, snd, ret>>

SndPeek(t) ==
  /\ pc[t] = "peek"
  /\ snd' = [snd EXCEPT ![t].slot = pingponidx[snd[t].sendTo]]
  /\ Goto(t, "flip")
  /\ UNCHANGED <<queueVars, bufferVars, ccVars, ret>>

(* Variant: the index counts on.                                           *)
SndFlipCounts(t) ==
  /\ pc[t] = "flip"
  /\ pingponidx' = [pingponidx EXCEPT ![snd[t].sendTo] = snd[t].slot + 1]
  /\ Goto(t, "copy")
  /\ UNCHANGED <<queueVars, semid, mem, ccVars, snd, ret>>

(* Variant: the index stays where it is.                                   *)
SndNoFlip(t) ==
  /\ pc[t] = "flip"
  /\ Goto(t, "copy")
  /\ UNCHANGED <<queueVars, bufferVars, ccVars, snd, ret>>

SndFlip(t) ==
  /\ pc[t] = "flip"
  /\ pingponidx' = [pingponidx EXCEPT ![snd[t].sendTo] = 1 - snd[t].slot]
  /\ Goto(t, "copy")
  /\ UNCHANGED <<queueVars, semid, mem, ccVars, snd, ret>>

(* The whole message is copied: one longer than MAX_LENGTH goes on into    *)
(* the buffer behind, its word sendTo first; behind the last buffer there  *)
(* is the rest of the page.                                                *)
SndCopy(t) ==
  /\ pc[t] = "copy"
  /\ LET base == Base(snd[t].sendTo, snd[t].slot)
         data == snd[t].data
     IN  mem' = [a \in MemWords |->
                   IF a = base THEN snd[t].sendTo
                   ELSE IF a - base \in 1 .. Len(data) THEN data[a - base]
                   ELSE mem[a]]
  /\ Goto(t, "cmd")
  /\ UNCHANGED <<queueVars, semid, pingponidx, ccVars, snd, ret>>

(* What p_sendmsg->sendTo is found to be: the word in the memory, or what  *)
(* was stored if the compiler kept it.                                     *)
SendToRead(t) == {snd[t].sendTo, mem[Base(snd[t].sendTo, snd[t].slot)]}

(* ipc_cc_send_cmd for core 1, under its own lock.  CLEAR_ACK, a word that *)
(* no file defines, is stored over the whole status register: which events *)
(* survive depends on it.  cmdbuf2_reg_ofs ends up as the offset of        *)
(* CMDBUF3, and cmdbuf3_reg_ofs is never set, so that the size goes        *)
(* anywhere, outside the three registers included.                         *)
SndCmd(t) ==
  /\ pc[t] = "cmd"
  /\ Core1 \in SendToRead(t)
  /\ sts' \in SUBSET (sts \cap Events)
  /\ LET addr == AddrWord(snd[t].sendTo, snd[t].slot)
         wrote == [regs EXCEPT !["cmdbuf1"] = KeyWord(sharekey),
                               !["cmdbuf3"] = addr]
     IN  \E S \in {{}} \cup {{r} : r \in CmdRegs} :
           regs' = [r \in CmdRegs |-> IF r \in S THEN SizeWord ELSE wrote[r]]
  /\ trigger' = TRUE
  /\ Goto(t, "up")
  /\ UNCHANGED <<queueVars, bufferVars, snd, ret>>

(* The test for core 3 compares the address of the buffer with 3: whoever  *)
(* finds another core than core 1 ends here, with the semaphore.           *)
SndSameCore(t) ==
  /\ pc[t] = "cmd"
  /\ \E core \in SendToRead(t) : core # Core1
  /\ Return(t, -6)
  /\ UNCHANGED <<queueVars, bufferVars, ccVars>>

(* Variant: the thread leaves with the semaphore.                          *)
SndUpForgotten(t) ==
  /\ pc[t] = "up"
  /\ Return(t, 0)
  /\ UNCHANGED <<queueVars, bufferVars, ccVars>>

(* ipc_msgque_unlockSndMsgBuff, and the end of a function that returns no  *)
(* value: the caller finds any.                                            *)
SndUp(t) ==
  /\ pc[t] = "up"
  /\ semid' = [semid EXCEPT ![snd[t].sendTo] = @ + 1]
  /\ \E v \in {0, -1} : Return(t, v)
  /\ UNCHANGED <<queueVars, pingponidx, mem, ccVars>>

SndStep(t) ==
  \/ SndPeek(t)
  \/ SndFlip(t)
  \/ SndCopy(t)
  \/ SndCmd(t)
  \/ SndSameCore(t)
  \/ SndUp(t)

SendNext ==
  \/ \E k \in Keys : QueueGet(k)
  \/ QueueRel
  \/ CoreTakes
  \/ \E bit \in StsBits : CoreSets(bit)
  \/ \E t \in Senders :
       \/ \E sendTo \in Core1 .. Max + 1, toolong \in BOOLEAN :
            SndRefused(t, sendTo, toolong)
       \/ \E sendTo \in Dests, data \in Data : SndCall(t, sendTo, data)
       \/ SndDown(t)
       \/ SndInterrupted(t)
       \/ SndStep(t)

SendSpec == SendInit /\ [][SendNext]_sendVars

(* Threads are scheduled.  A semaphore hands itself to its waiters in the  *)
(* order in which they came, so that a waiter is not passed over for ever. *)
SendFairness ==
  \A t \in Senders : WF_sendVars(SndStep(t)) /\ SF_sendVars(SndDown(t))

SendFairSpec == SendSpec /\ SendFairness

-----------------------------------------------------------------------------
(***************************************************************************)
(* Properties.                                                             *)
(***************************************************************************)
Holding == {"peek", "flip", "copy", "cmd", "up"}

Steps == {"idle", "down"} \cup Holding

(* Threads are at a step of ipc_msg_snd, and buffers, registers and        *)
(* indices hold what the code can put there.                               *)
SendTypeOK ==
  /\ initkey \in BOOLEAN
  /\ sharekey \in Keys
  /\ semid \in [Dests -> Nat]
  /\ pingponidx \in [Dests -> Slot]
  /\ mem \in [MemWords -> Nat]
  /\ regs \in [CmdRegs -> Words]
  /\ trigger \in BOOLEAN
  /\ sts \subseteq StsBits
  /\ pc \in [Senders -> Steps]
  /\ snd \in [Senders -> [sendTo : Dests, data : Data \cup {<<>>}, slot : Slot]]
  /\ ret \in [Senders -> Int]
  /\ signalled \in BOOLEAN

(* msgque.c "init semaphore like mutex": at most one thread is between     *)
(* lock and unlock for one destination, and none while the semaphore can   *)
(* be had - until the first signal that ends a wait.                       *)
SemaphoreIsMutex ==
  ~signalled =>
    \A d \in Dests :
      LET inside == {t \in Senders : pc[t] \in Holding /\ snd[t].sendTo = d}
      IN  semid[d] + Cardinality(inside) <= 1

(* With signals the semaphore is no mutex, but the damage is bounded: a    *)
(* thread that got in without it and returned it anyway raises the count   *)
(* only while it is 0, so that it never exceeds the number of threads.     *)
SemaphoreBounded ==
  \A d \in Dests :
    LET inside == {t \in Senders : pc[t] \in Holding /\ snd[t].sendTo = d}
    IN  semid[d] + Cardinality(inside) <= Cardinality(Senders)

(* api.c "protect sent data and get back pingpong buff": what a thread     *)
(* hands to core 1 is what its caller passed, not what another sender      *)
(* wrote there meanwhile - until the first signal, and as far as the       *)
(* message lies in the buffers of core 1, which no longer message for      *)
(* another core reaches.                                                   *)
BufferHoldsOwnData ==
  ~signalled =>
    \A t \in Senders :
      pc[t] = "cmd" /\ snd[t].sendTo = Core1 =>
        LET base == Base(Core1, snd[t].slot)
        IN  /\ mem[base] = Core1
            /\ \A n \in 1 .. Len(snd[t].data) :
                 base + n < Base(Core2, 0) => mem[base + n] = snd[t].data[n]

(* A buffer of core 1 in use: its address is in the register that core 1   *)
(* reads, or a thread has filled it and is about to hand it over.          *)
InUse(i) ==
  \/ regs["cmdbuf3"] = AddrWord(Core1, i)
  \/ \E t \in Senders :
       pc[t] \in {"cmd", "up"} /\ snd[t].sendTo = Core1 /\ snd[t].slot = i

Disturbed(i) == InUse(i) /\ \E a \in Buffer(Core1, i) : mem'[a] # mem[a]

(* api.c "protect sent data and get back pingpong buff", and the purpose   *)
(* of two buffers: while a thread prepares its message, the buffer handed  *)
(* over last is not written - until the first signal.                      *)
HandedOverIntact == [][~signalled => \A i \in Slot : ~Disturbed(i)]_sendVars

(* It is so for messages that fit: only the copy of one that is longer     *)
(* than its buffer, and lies in front, writes a buffer of core 1 in use -  *)
(* until the first signal.                                                 *)
OnlyLongCopiesIntrude ==
  [][~signalled =>
       \A i \in Slot : Disturbed(i) =>
         /\ i = 1
         /\ \E t \in Senders :
              /\ pc[t] = "copy" /\ pc'[t] = "cmd"
              /\ snd[t].sendTo = Core1 /\ snd[t].slot = 0
              /\ Len(snd[t].data) > MAX_LENGTH
    ]_sendVars

(* A send to core 1 returns, however many threads send and whatever long   *)
(* messages run over - until a signal lets two threads in, of which one    *)
(* may overwrite the word by which the other finds its way to unlock.      *)
SendReturns ==
  \A t \in Senders :
    pc[t] = "down" /\ snd[t].sendTo = Core1 ~> pc[t] = "idle" \/ signalled

(* api.c "transfer phyaddr to others core": so does a send to core 3.      *)
SendToCore3Returns ==
  \A t \in Senders : pc[t] = "down" /\ snd[t].sendTo = Core3 ~> pc[t] = "idle"

=============================================================================
