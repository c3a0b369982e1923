# Specifications of the IPC message queue

The repository is a Linux driver and a user library that pass messages between
the cores of a multicore chip through message queues. This directory holds TLA+
modules translated from its C code, the TLC configurations that check them on
small instances, and proofs for instances of any size.

Paths below are under `src/`. `main.c`, `api.c`, `msgque.c` stand for
`kernel_space/drv_chardev/drv_ipc_main.c`, `drv_ipc_api.c`, `drv_ipc_msgque.c`;
`ipc-cc.c` for `kernel_space/drv-cc/ipc-cc.c`; `ipclib.c` for
`user_space/libipc/ipclib.c`.

## The system

| Component | State | Operations | Called by |
|---|---|---|---|
| Queue ring (`msgque.c`) | `indx`, `outdx`, `count`, `element[16]` of one queue | enqueue, dequeue, isempty, isfull | receive path, handler |
| Queue table and names (`msgque.c`) | `msgQueTbl[12]`, `msgQueTokenStr[12]`, one spinlock | ftok with its hash, get, getIDbyKey, rel, getQuebyID, isvalid | device, in-kernel callers, handler |
| Receive path (`api.c`, `main.c`) | one wait queue and one flag `readwait_interruptible` per slot | `ipc_msg_rcv`; `ipc_core_handle_func` from the interrupt | device (no timeout), in-kernel callers; core communicator |
| Send path (`api.c`, `msgque.c`) | two buffers, an index and a semaphore per destination | `ipc_msg_snd`, lock and unlock of the buffers | device |
| Core communicator (`ipc-cc.c`) | the pointer `ipc_cc_dev`, a handler per core, status, enable, command and acknowledge registers | probe, open, close, remove, register, unregister, send_cmd, get_cmd, send_ack, irq handler, suspend, resume | send path, life cycle, interrupts |
| Character device (`main.c`) | a bit mask of queues per file, `ipc_mutex` | open, ioctl GET/REL/FTOK/SND/RCV, release | user library |
| Life cycle (`main.c`, `msgque.c`) | what is allocated, mapped and registered; the pointer to the table | probe with its labels, remove, `ipc_msgque_init`, `ipc_msgque_exit`, loading and unloading | kernel |
| User library (`ipclib.c`) | `ipcfd`, `msqcnt`, a mutex | open, close, ftok, get, rel, snd, rcv | applications |

What is hard in it:

* Threads in process context, an interrupt handler and other cores work on the
  same rings. Only part of the code takes the spinlock: `ipc_msgque_getIDbyKey`
  and the whole of `ipc_msg_rcv` up to the dequeue look without it.
* `isempty` and `isfull` decide from different fields of the ring.
* A queue may be released and its slot registered under another key at any
  moment of a receive or a send; nothing counts references.
* Error paths leave with the spinlock, a semaphore or the mutex held.
* `ipc_msg_rcv` mixes sleeping with and without a timeout on one wait queue.
* Two drivers come and go independently. Interrupts and system calls meet every
  step of probe, of its failures and of remove; pointers stay set to memory and
  code that are gone.
* The library shares a descriptor and a count among threads, and its mutex
  guards one of the three functions that change them.

### What makes each part correct

* Ring: the three fields agree; no accepted message is overwritten, lost out of
  turn or delivered twice; it is a queue.
* Table: one queue per key; a lookup, which takes no lock, answers with a queue that
  had the key while it looked, and misses none that had it throughout.
* Receive path: no lost wakeup, a timed receive ends, a received message is the
  one that was posted.
* Send path: the buffers are used by one thread at a time, core 1 is given what the
  caller passed, the buffer handed over last is left alone, every send returns.
* Device: a file gives back the queues it holds when it is closed; every call
  returns.
* Core communicator: no event is lost, interrupts are enabled only while there
  is a handler, a command is posted once and then acknowledged.
* Life cycle: nothing is used before it is there or after it is gone; a failed
  probe leaves nothing a process could open; a bound driver hears both cores.
* Library: one descriptor, open while a queue is held, and no file of the rest
  of the program is closed.

## Modules

| Module | Models |
|---|---|
| `MsgRing` | the ring operations as operators on a record, and the relation `FieldsAgree` between the fields |
| `Fifo` | abstract queue: `open`, `buf`, `wedged` (refuses everything until opened again) |
| `RingQueue` | one queue: get, rel, enqueue, dequeue as atomic steps; implements `Fifo` |
| `IpcMsgque` | the table, the names with their hash, and the spinlock under several threads |
| `IpcLookup` | extends `IpcMsgque` with two histories: the slots that have had the key of a lookup since it began, and those that have had it all the time |
| `IpcReceive` | extends `IpcMsgque` with `ipc_msg_rcv` and the interrupt handler |
| `IpcDriver` | extends `IpcMsgque` with files, ioctl calls and `ipc_mutex` |
| `IpcSend` | `ipc_msg_snd`, the buffers word by word, semaphores, `ipc_cc_send_cmd` for core 1 |
| `IpcCC` | the communicator: probe and remove, handler table, registers, what a command does to the status register, its interrupt handler |
| `IpcLife` | extends `IpcCC` with probe, remove and unloading of the message queue driver, its event handler and a process whose calls stop anywhere |
| `IpcLib` | the library in a process of several threads |
| `MsgRingLemmas`, `RingQueueProofs`, `IpcSendProofs`, `IpcMsgqueProofs`, `IpcReceiveProofs`, `IpcDriverProofs`, `IpcLibProofs`, `IpcLifeProofs` | proofs |
| `MC*` | instances for TLC |

Definitions keep the names of the code. Those marked *Variant* differ from the
code on purpose, by one plausible mistake; they show that a property notices it
and are part of no specification.

### From the code to the actions

* *Threads.* `pc[t]` is the place in the code, `loc[t]` the locals that live
  across a step. A look at a queue or at a table slot that is not under the lock
  is a step of its own: a lookup reads `initkey`, then `sharekey`, then `msqid` of each
  slot, and gets and releases come in between. Both fields `isempty` reads are read in
  one step.
* *Spinlock.* `SMP = FALSE`: `spin_lock_irqsave` disables interrupts, a critical
  section is atomic, a path that returns without unlocking leaves nothing behind
  once the call is over, and `ipc_msgque_msgpost` may call
  `ipc_msgque_enqueue`, which takes the same lock. `SMP = TRUE`: the lock is a
  word; the leaking paths of rel and dequeue keep it, and `msgpost` spins on its
  own lock. `ipc_msgque_get` has two steps there, since lookups without the lock
  see the slot between the stores of `initkey` and `sharekey`.
* *Names* are sequences of character codes. The copy into the table has `MAXLEN`
  bytes; a name that fills them is stored without an end, and its hash runs into
  the byte after it (`tail`, with values `Tails`). The hash has 16 bits.
* *Waiting.* `wait_event*` puts the thread on the list, looks at the condition,
  and sleeps; `Wake` sends it back to look again. `wait_event_timeout` reports a
  timeout only if the condition is false when the time is up. Wakeups with
  `wake_up_interruptible` pass over threads that sleep uninterruptibly, which is
  how threads with a timeout sleep.
* *Handler.* `ipc_cc_get_cmd` reports failure in every case and may leave the
  command unset, which `ipc_core_handle_func` does not look at: any key and any
  message may arrive.
* *Memory.* The table comes from `kmalloc`: elements hold `Leftovers` until they
  are written. The control block comes from `kzalloc`.
* *Messages* are sequences of words; a length of one word stands for four bytes. A
  caller may pass 24 bytes, six words (api.c:28, main.c:171, ipclib.c:110,
  ipc-common.h:15, 65), and a buffer has three (ipc-common.h:40). `IpcSend` lays the
  buffers out as `ipc_msgque_init` does, one behind the other, each with the word
  `sendTo` in front: a long message goes on into the next one.
* *Semaphore.* `down_interruptible` may return without the semaphore when a
  signal arrives, and the caller does not look at the result. The history variable
  `signalled` records that this has happened.
* *Command registers.* `ipc_cc_send_cmd` never sets `cmdbuf3_reg_ofs`: the size goes
  to an arbitrary address, one of the three registers or elsewhere.
* *The word `sendTo`.* api.c:44 reads it back from the buffer, which another thread's
  long message may have overwritten meanwhile; a compiler may also keep the value stored.
  The model allows both (`SendToRead`).
* *`CLEAR_ACK`*, which `ipc_cc_send_cmd` stores to the whole status register before a command
  (ipc-cc.c:174-175), is defined in no file: whatever it is, some of the event bits
  survive, and the models (`SndCmd`, `IpcCC.ipc_cc_send_cmd`) let any of them.
* *Return value.* `ipc_msg_snd` ends without `return`: any value.
* *Device.* `call[t]` is the frame of an ioctl or a close, `pc[t]` that of the table
  call inside it. `ipc_release` runs when no call uses the file, which is what the
  kernel guarantees. Failing `copy_from_user`, `copy_to_user` and `kzalloc` are left out.
* *Communicator and life cycle.* One processor runs Linux: while the interrupt handler
  runs no thread does, but other cores go on between its steps. Which core it is comes
  from `run-core` in the device tree (ipc-cc.c:512-520) and is the constant
  `running_core`; the proofs hold for every value, TLC uses core 2. For cores 1 and 3 the
  code sets up no registers: `ipc_cc_open` and the interrupt handler do nothing, and a
  command is written to offsets nobody has set (the fault "offset"). `IpcSend` is about
  core 2. Every call into the kernel may fail. A use of something that is not there
  sets `fault` and stops the system. A pointer is null, live or freed; the code tests
  for null alone.
* *User calls* may stop between their steps, and the driver may be removed meanwhile: a
  call has "tested" `g_msqinfo`, or "holds" a pointer into the table, to a queue it sleeps
  on or to a semaphore it waits for, which is "stale" once the table is freed. The
  history `undisturbed` says that the driver has been bound since the call began.
* *Status and acknowledge registers.* `ipc_cc_open` reads the status register and
  writes it back, a plain store: event bits become what they were. An event that is
  not acknowledged interrupts again. The bit the code writes to `ACK_REG` takes the
  event back and tells the other core; that is the device, which is external.
* *Suspend and resume* of the communicator are exported and called by nobody in the
  tree; they may be called at any time, at most `MaxDepth` times at once.
  `ipc_suspend` and `ipc_resume` of `main.c` are empty.
* *Class.* The kernel takes a class name once: while a class of an earlier life is
  registered, `class_create` fails. `cdev_alloc` returns null when it fails, which the
  test for an error does not see.
* *Library.* Each use of `ipcfd` and `msqcnt` is a step, `msqcnt++` is two. An ioctl
  goes to whatever `ipcfd` names when it is made. `open` answers with the lowest free
  descriptor. The device may answer anything: `ipc_ioctl` returns no value. In this
  code a REL never comes back (see the run `rel_returns`); the library is modelled over
  one that may. `held`, `closes`, `overlapped` and `proper` are histories, on which
  only properties depend.

### How code that does not compile is read

The tree does not compile as it stands. Where the meaning is beyond doubt the
models use it:

* `if(i = 0; ...; i++)` (msgque.c:179) is `for`; `&long` (msgque.c:386, 403, 472)
  is `&lock`, the only spinlock of the file; `sharekey = ` in a condition
  (msgque.c:371) is `==`; undeclared `ret` and `i` are locals; missing `&`,
  `->`, `;` are added.
* `getQuebyID(msqid)` (api.c:105) and `ipc_msg_rcv(...)` (main.c:187) get the core id
  their declarations ask for.
* `IPC_CC_CORE_CPU3` (main.c) is `IPC_CC_CORE_DSP`, the third core of `ipc-cc.h`.
* `mutex_lock(&ipc_mutex)` where an unlock is expected (main.c:138) is a valid
  call and stays what it says. So do the double assignment of `cmdbuf2_reg_ofs`
  (ipc-cc.c:152), the `sizeof` of a size (api.c:160), the comparison of a
  pointer with `IPC_SENDTO_CORE3` (api.c:54), and the labels of class and node
  that have changed places (main.c:401-404).
* The second `case IPC_CC_CORE_CPU2` of `ipc_cc_close` is that of the third core. The
  `break` before it leaves the switch, and the unlock is inside (ipc-cc.c:431): on
  one processor a spinlock is no lock.

## Runs

Every configuration names its bounds. Sizes of rings and tables are constants;
`UINT32_MOD` replaces 2^32 by a small multiple of the ring size, so that `count`
wraps within reach, which `RingAssumption` asks for.

| Run | Question | Bounds |
|---|---|---|
| `ring` | Is one ring a queue under every order of calls? Fields agree (`RingConsistent`), accepted messages survive, a wrapped count is final, `Fifo` is implemented | ring of 4, count mod 16, 2 messages: indices go round, every fill level and every wrapped count is reached |
| `table` | Are keys unique, and is a lookup that is overtaken at each of its reads sound and complete (`LookupSound`, `LookupComplete`)? | 2 threads, 3 slots, the names "bc" and "db" with one hash, "ababbabaaamz" that fills its entry and whose hash is 0, the key of free entries; keys of all of them and one more |
| `receive` | Do the rings of the table agree, do accepted messages stay, does no thread sleep over a backlog, do timed receives return, is a backlog served? | 2 threads, 1 slot, ring of 3, 2 keys, buffers large enough and too small |
| `receive_smp` | Who holds the lock, and what is left once it is lost | 2 threads, multiprocessor build, ring of 2 |
| `send` | Until the first signal: does the semaphore exclude, is core 1 given the caller's data, do only over-long messages write a buffer in use, does every send to core 1 return? With signals: is the semaphore bounded? | 2 senders, a message that fits and one of 5 words, all destinations, any number of signals |
| `driver` | Does a GET return until a REL keeps the mutex, does a close return even then, and does it give back what the mask names? | 2 threads, 2 files, 2 slots, a key with and a key without a name |
| `life` | Is what is used there but at the moments that are named (`FaultHasCause`), are both cores heard, do failures leave nothing to open, do interrupts go before their handler, which events are lost (`EventKept`), are commands posted once? | 2 other cores, of which core 1 waits for acknowledgements and the DSP does not; one file, one call at each of its stages; suspended once at most; any number of lives |
| `lib` | The device is open once and while a queue is held; no foreign file is closed | 2 threads, 2 queues, 2 descriptors, 2 calls of `ipc_close`, `msqcnt` from -2 to 2 |
| `rcv_phantom`, `send_long`, `send_core3`, `rel_returns` | violations, see below | small |

Two threads are enough for the races between two calls that these modules have:
each call works on one slot, one destination, one file or the one descriptor. Where a
third would matter, with a sleeper, the one who wrote the flag before it and another who
changes the table, the theorems `RingsAlwaysAgree`, `NoLostWakeup` and
`AcceptedMessagesStay` hold for any number. The runs `table`, `receive`, `send` and
`driver` reach full and empty tables and rings, and released and registered slots. In
`lib` the second descriptor is the file of the rest of the program that a stale `ipcfd`
may hit, or a second opening.

`table`, `receive`, `driver`, `rel_returns` and the three runs of `IpcSend` use a `VIEW`: it
leaves out variables that no guard and no property of the run reads again (what a call
returned, the key of a free slot where nothing reads it, the mask of a closed file, in
`IpcSend` the buffers once a signal has come); TLC evaluates action properties on the full
step. `table` and `lib`, which check no liveness, use symmetry of threads, `lib` of
queues too. Five runs do not check for deadlock, because there the system may really stop:
`receive_smp`, `driver` and `rel_returns`, where every thread may wait for ever for the
leaked spinlock or in REL, `life`, where a fault is the end, and `lib`, where counts,
closes and descriptors may be used up. The first three have properties about just that.

### Fairness

* A thread that can run is scheduled (weak fairness per thread and step of a call).
  No call, message, signal or close has to happen.
* A clock runs: the timeout of a wait is eventually up, however often the thread
  is woken, since `wait_event_timeout` keeps the time that is left.
* `down_interruptible` serves waiters in order (strong fairness of `SndDown`).
* `ipc_mutex` needs none: until it is taken for ever nobody holds it for longer than a step.

### What the runs found

Checked as violations:

* `rcv_phantom`: a queue without messages is not empty for `ipc_msgque_isempty`
  (get sets `indx` to 15 and `outdx` to 0), so a receive on a fresh queue returns
  whatever the memory held, and takes `count` to 2^32 - 1, after which the queue
  refuses every message (`WrappedIsFinal`).
* `send_long`: a message of 13 to 24 bytes, which the library, the device and
  `ipc_msg_snd` all admit, overwrites the buffer that core 1 was given before.
  (`OnlyLongCopiesIntrude` says that nothing else does.)
* `send_core3`: a send to a core other than core 1 keeps the semaphore of its
  destination; the next one never returns.
* `rel_returns`: the first REL of a queue that a file holds locks `ipc_mutex` twice and
  never returns.

Seen in counterexamples to stronger forms of the properties, which are stated the
way the code satisfies them:

* A single message in a queue looks like an empty queue and is picked up only when
  the next one arrives (hence "two or more" in `SleeperHasNoBacklog`, `BacklogServed`).
* `ipc_msgque_rel` wakes nobody; a receiver without timeout stays asleep.
* A queue may be released and its slot registered anew between the last test and
  the dequeue of a receive, which then takes the message of another key.
* A thread that sleeps with a timeout is not woken by a message if the last one
  that woke up slept without (it finds the message when its time is up).
* In a multiprocessor build the first message makes the handler wait for itself,
  and `getIDbyKey` may report a slot under the key of its former life.
* The queue a lookup answers may be gone when it does: `LookupSound` speaks of some moment
  of the call.
* After a signal two senders may hold one buffer: `SemaphoreIsMutex`,
  `BufferHoldsOwnData`, `OnlyLongCopiesIntrude` and `SendReturns` speak of the time before
  `signalled`. After it, a sender to core 1 may find the word `sendTo` of its buffer
  overwritten by the long message of another, and leave with the semaphore.
* The long message of a sender to core 1 may run into the buffers of core 2, and so
  send on to core 1 what was meant for core 2.
* A command may be written over one that core 1 has not taken.
* A bit of a file's mask may outlive its queue; closing the file then releases the
  queue that has the slot by then.
* A name whose hash is 0 has the key of free entries, and a name that fills its entry
  has another key in the table than the one ftok returned: releasing its queue frees no
  name, or that of another queue with this hash.
* A failed `device_create` leaves the class registered, and no probe succeeds again
  (`LeakedClassIsFinal`).
* An event that comes while `ipc_cc_open` has read the status register and not written
  it back is lost, and so may be any event when a message is sent, with the `CLEAR_ACK` in
  front of it. `EventKept` names these two moments, and says that there are no others.
* `ipc_cc_unregister_handler` clears the entry of core 2 whatever core it is given: after
  a remove or a failed probe an event still runs the handler, and after the module
  was unloaded it runs code that is gone. Remove unmaps the memory first and frees the
  table before it clears the pointer; `ipc_msgque_init` shows the table before it is
  written. A call under which the driver is removed looks at a pointer that is null
  again, or sleeps on a queue or a semaphore that is freed. `FaultHasCause` ties every
  kind of fault to such a moment, and says that a call which begins and ends on a bound
  driver finds the table.
* `ipc_cc_dev` stays set when the communicator is gone: registering and sending then use
  freed memory.
* A second `ipc_close`, or a call after the first, works on whatever file has the number by
  then; two releases at once close the device twice or forget one that was opened anew.

## Proofs

Every safety invariant and every action property of the passing runs is a theorem about
the same specification, for every value of the constants that satisfies the named
assumptions. The proofs are inductive: each module states the strengthened invariant, proves
that it holds initially and that each action keeps it, and derives the properties from it.

### The ring

`RingQueueProofs` proves, for every ring size and count width with
`RingAssumption` (the size divides the width, and the width is at least twice the
size: true of 16 and 2^32) and every set of messages:

* `RingIsConsistent`: `Spec => [](TypeOK /\ RingConsistent)`. The types alone are
  not inductive: that dequeue keeps `count` in range depends on `isempty` stopping
  the reader before it has gone round the ring, which only the relation of the three
  fields shows. `FieldsAgree` states it without `%`: `count` is
  `indx + 1 - outdx`, give or take one turn of the ring, or lies as far below zero;
  and `count` is a number of elements or below zero by less than a turn. With it,
  `IInv == TypeOK /\ RingConsistent` is inductive.
* `RingTypesHold`: `[]TypeOK`, the part of it that a run checks by itself.
* `WrappedStaysWrapped`: `Spec => WrappedIsFinal`, from the same invariant.
* `AcceptedMessagesSurvive`: `Spec => AcceptedSurvives`. The message `j` places behind
  `outdx` is at `(outdx + j) % ELEMENT_NUM`, different `j` give different places
  (`PlacesDiffer`), and the place an enqueue writes is the one behind the last message
  (`NextFree`), which is free as long as the ring is not full.
* `RingIsFifo`: `Spec => ImplementsFifo`, the refinement of `Fifo` step by step, for rings of
  more than one slot. `Contents` reads the ring from `outdx` on; `EnqueueAppends`,
  `DequeueTakes` and `DequeueWedges` say what an operation does to it as a sequence. With
  one slot `indx = outdx` always, so `isempty` calls any queue empty and the answer
  "empty" is not one `Fifo` gives to a fresh queue; the code has 16.

`MsgRingLemmas` holds what the proofs need of `%` (two cases: below the modulus, and
one turn above) and the lemmas that enqueue and dequeue preserve the
agreement, on the three numbers alone, and what they do to the messages.

### The table and the receive path

`IpcMsgqueProofs` (under `TableSpec`, one processor) and `IpcReceiveProofs` (under
`ReceiveSpec`, both builds) assume of the constants that the table has a slot, that keys
are 16-bit numbers and contain the hash of every name, and `RingAssumption`. They hold
for every number of threads, slots, names, keys and messages:

* `KeysStayUnique` and `TableTypesHold` of the table;
* `LookupsAreSound` and `LookupsAreComplete` (under `LookupSpec`), of lookups overtaken at
  every read. The invariant is `LookupsKnow`: a slot whose key a lookup has found to be its own
  is in `seen`, and the slots that have had the key throughout lie ahead of it. It needs
  `IdsFilled`: a slot that has had a key, released or not, has its own index as `msqid`;
* `RegistrySound` (keys again), `FillsHoldLock`, `RingsAlwaysAgree`, `LeaksFreeze` and
  `ReceiveTypesHold` of receives, interrupts and table calls together;
* `NoLostWakeup`: `[]SleeperHasNoBacklog`, in both builds, whoever releases and registers
  queues between the look at the ring and `schedule()`;
* `AcceptedMessagesStay`: `AcceptedStays`;
* `EachRingIsAQueue`: every step does to the messages of a slot, in order, one of five
  things: nothing, empty it by a registration (which never drops messages of a registered
  queue), append one from the handler, take the oldest for a receive of this queue (which
  reports its length, or -5 when it is too long for the caller), or the phantom, a receive
  that finds none. It carries `RingIsFifo` over to the whole table with its concurrency,
  and is stated as an action property, without `Fifo`, because `Fifo` speaks of calls that
  return in one step, and a receive takes several.

Both rest on `TableInv`. That keys are unique is not inductive on several processors: a get
shows its slot before it has stored the key, so another get that looked in between would
not see it. `FillsAlone` adds what keeps them apart: a thread between the two stores holds
the spinlock, and no other queue has the key it is about to store. On one processor
nobody is ever between them (`NoFill`, `UpHasNoLock`). `RingsAgree` lifts the lemmas of the
ring to each slot: a dequeue comes after a test that saw the ring not empty, made under
the lock. That the loops which look for a slot find one of the table follows from
well-founded induction on slots (`FirstIsIn`). `LeaksFreeze` needs that a lock without a
thread that would give it back is never free again.

For the properties of messages, `StepsRings` sorts every step by what it does to one ring
(`RingStep`: the same, `Resets`, `Stores`, `Takes`), so that they are proved by four cases
instead of one for each action. `NoLostWakeup` rests on `SleepersSeeNone`: who sleeps without
a timeout saw at most one message when it looked, only `Stores` adds one, and it wakes
every sleeper of the slot. On several processors there is one more invariant,
`SmpTakesNothing`: the handler waits in enqueue for the lock that `msgpost` holds, so that no
message ever gets into a ring. It is needed because a registration there writes the ring
after it has shown the slot, and it says for every size what a counterexample showed for
one: the first message makes the handler wait for itself.

### The device

`IpcDriverProofs` proves under `DriverSpec`, for every number of threads, files and slots:

* `DeviceTypesHold`: `[]DriverTypeOK`. That `ipc_release` runs alone needs `FileUsers` (a
  file is not closed while calls run on it) and `Closers` (the file that is closing
  has one thread, which is closing it).
* `DeviceImplementsTable`: `DriverSpec => TableSpec`. The table sees nothing of files and
  masks but calls of get and rel, one at a time. The bits `ipc_release` goes through are ids of
  slots, by `DeviceTyped`, and a GET stores no other bit, by `FramesFit`.
* `DeviceKeepsTable`: hence rings agree and keys are unique behind the device.
* `FirstRelIsLast`: a step after which a REL holds the mutex is the last one at which a GET
  stores its bit or a REL clears one: `ipc_mutex` is never given back. Together with the
  run `rel_returns` this is what the lock at main.c:138 costs.

### Sending

`IpcSendProofs` proves, for every finite set of senders, every set of keys and every set of
messages of at most six words:

* `SemaphoreExcludes`: `SendSpec => []SemaphoreIsMutex`.
* `SentDataIsOwn`: `SendSpec => []BufferHoldsOwnData`.
* `SendTypesHold`: `SendSpec => []SendTypeOK`.
* `SemaphoresBounded`: `SendSpec => []SemaphoreBounded`, signals included.
* `ShortMessagesStay`: `SendSpec => OnlyLongCopiesIntrude`.

The first two speak of the time until the first signal and are not inductive alone. The
invariant is `Exclusive`, which says without counting that a semaphore is 0 or 1, that it is
0 while a thread is inside, and that no two threads are inside for one destination. A thread
that leaves without unlocking (a send to core 2 or 3) keeps the semaphore at 0, which
`Exclusive` admits. That copied data is still there when it is handed over follows
from the third part: whoever else copies does so for another destination, and the buffers
of core 1 lie in front of all others (`BasePlaces`, `CopyWrites`), so that no copy for another
core runs into them.
`ExclusiveCounts` leads back to the number of threads in `SemaphoreIsMutex`.

`SemaphoresBounded` is about what remains after signals and needs no stronger
invariant than types, but an argument about cardinalities: a thread that gets in without
the semaphore does so while it is 0, and the threads inside are some of finitely many
(`SendersAssumption`). `ShortMessagesStay` needs `PingPong`, which relates three things:
the index of the buffers, the buffer each thread inside is working on, and the address
in the command register, which is not that of the buffer about to be written: so a copy
that stays in its own buffer disturbs nothing, and one that does not can only run from
buffer 0 into buffer 1.

### The library

`IpcLibProofs` proves, for every number of threads, queues and descriptors, under `LibSpec`:

* `LibTypesHold`, with the owner of the mutex;
* `OneDescriptorAtMost`: `[]OneDescriptor`. The mutex alone does not give it, since
  `ipc_msg_rel` changes `ipcfd` without it. `OneOpen` says why one release at a time does no
  harm: from its count to its last store `ipcfd` is set, so that nobody opens the device
  meanwhile; while somebody opens it, `ipcfd` is -1; and a descriptor of the device is in
  `ipcfd` or in the local of the thread that is about to store it.
* `ClosesNoOtherFile`: `ClosesOwnFileOnly`, with `OwnFile`: without overlapping calls and
  before `ipc_close` returns, a set `ipcfd` is on the device but between the last two steps
  of a release.
* `HeldQueuesKeepDevice`: `[]HeldKeepsDevice`. `Counted` says of a process that keeps to the
  rules (`Orderly`) that `msqcnt` is the number of queues it holds, and one more while a
  release on the device is done and not yet counted; `held` is finite because calls do not
  overlap, whatever the number of threads.

### The life cycle

`IpcLifeProofs` proves under `LifeSpec`, for every `running_core`, every `Polite` (the cores
that wait for an acknowledgement before they send again) and every `MaxDepth`:

* `EnabledHasItsHandler`: `[]EnabledHasHandler`, from `IrqInv`: the pointer of the
  communicator is live exactly while it is bound or on its way there, and interrupts are
  enabled in the bound state only.
* `NothingStaysReachable`: `[]NothingReachable`, from `ResInv`, which bounds at each step of
  probe and remove what the driver may have registered with the kernel.
* `LeakedClassStays`: `LeakedClassIsFinal`. `ClassTaken` is kept by every step: with the name
  taken, probe gets as far as `class_create`, and its labels spare the class.
* `BothCoresHeard`: `[]BothCoresServed`, from `HandlerInv` with `IrqInv`: only a new probe of
  the communicator wipes the table of handlers, and unregistering clears one entry only, that
  of core 2.
* `FaultsHaveCause`: `[]FaultHasCause`. `MemoryInv` says at which steps the control block, the
  shared memory and the table are there, and that a handler which has found a queue is done
  before any thread goes on; `CallInv` says of user calls that an undisturbed one runs on a
  bound driver, and that a stale pointer belongs to a disturbed one. A fault is the end, so
  its cause can still be seen afterwards.

* `LifeTypesHold`: `[]LifeTypeOK`, in two halves that need each other little: `EventTyped`
  of registers and the handler, `DriverTyped` of the drivers.
* `PoliteCoresServedOnce`: `[]PoliteServedOnce`. The command states alone are not inductive.
  `PoliteInv` says that a bit of such a core, in the status register, in the copy `ipc_cc_open`
  is about to write back or in the list of the handler, stands for a command not yet
  acknowledged, and that a command is posted exactly while the handler is about to
  acknowledge it: so it cannot be taken a second time.
* `EventsStay`: `EventKept`, step by step over everything that writes the status register:
  the acknowledgement, `ipc_cc_open`, and the `CLEAR_ACK` of a command.

### Model-checked only

All liveness (`BacklogServed`, `TimedReceiveReturns`, `SendReturns`, `GetReturns`,
`CloseReturns`, `ClosingReleases`) is: fairness is out of reach of the prover, and TLC checks
it under the fairness above. What `ipc_msgque_namehash` computes is a fold over the characters
of a name and is checked on the names of the runs; the proofs use that it is some key.
The four runs that expect a violation are counterexamples and need no proof.

## Not modelled

* The life cycle and the communicator do not look into a command: `IpcCC` has what
  `ipc_cc_send_cmd` does to the status register, `IpcSend` the rest of it, on core 2.
  `ipc_cc_get_cmd`, which always fails, is the free choice of a command.
* The life cycle on several processors, where a handler runs while probe or remove goes on.
* `sendTo = 0`, for which the code indexes the buffers with -1; a posted message of
  more than 12 bytes, which leaves the local it is copied into (msgque.c:424) and comes from
  another core; failing copies from and to user space; `ipc_mmap`, which is named in
  `main.c` and defined nowhere.
* The test application has no state of its own; its calls are those of the library.
* Layouts of registers and of ioctl records.

The code has some faults that no property speaks of, because a single look shows them:
`cmdbuf3_reg_ofs` is never set (ipc-cc.c:152), `ipc_cc_get_cmd` returns -1 in every case
(ipc-cc.c:239), `CLEAR_ACK` is defined nowhere (ipc-cc.c:175), a receive copies the `sizeof`
of a size, four bytes, and reports the length of the message (api.c:160), enqueue on a full
ring returns with the lock (msgque.c:387; `msgpost` looks before it), the limit of a message
is 24 bytes and an element holds 12 (msgque.c:424), `cdev_alloc` is tested for an error and
returns null (main.c:330), `ipc_cc_open` and `ipc_cc_close` take the lock of the interrupt
handler with interrupts on, and close may leave with it (ipc-cc.c:381, 431), `disable_irq`
waits under that lock (ipc-cc.c:368), and the key of ftok is a signed 16-bit number, so that
half of all names give one the library takes for an error (ipclib.c:56).

## Plan

1. The life cycle on several processors: the handler beside the steps of probe and remove.
2. `IpcLib` over `IpcDriver`, with the calls the device really answers.
