------------------------------- MODULE IpcLib -------------------------------
(***************************************************************************)
(* The user library ipclib.c in one process of several threads: its three  *)
(* static variables mutex, ipcfd and msqcnt, and the descriptor numbers of *)
(* the process, which the rest of the program uses too.  Only ipc_open     *)
(* takes the mutex; everything else reads and writes the two others as     *)
(* they are.  The device and the queues behind it answer as they like, and *)
(* so does the value ipc_ioctl forgets to return.                          *)
(*                                                                         *)
(* pc is, in the order of the code:                                        *)
(*   "lock", "test", "device", "assign", "check", "value"   of ipc_open    *)
(*   "ioctl"                       of every other call                     *)
(*   "load", "count"               msqcnt++ of get and msqcnt-- of rel     *)
(*   "zero", "last", "forget"      the end of rel                          *)
(*   "closing", "close"            of ipc_close                            *)
(***************************************************************************)
EXTENDS Integers, FiniteSets, FiniteSetsExt

CONSTANTS
  Threads,      \* threads of the process
  Ids,          \* queues the device can answer with
  Fds,          \* numbers descriptors of the process have
  MaxCount,     \* bound: msqcnt stays between -MaxCount and MaxCount
  MaxCloses,    \* bound: calls of ipc_close
  Free          \* the owner of a mutex nobody holds

ASSUME LibAssumption ==
  /\ Fds \in SUBSET Nat
  /\ MaxCount \in Nat
  /\ MaxCloses \in Nat
  /\ Free \notin Threads

VARIABLES
  mutex, ipcfd, msqcnt,   \* of the library
  fdtab,        \* what each descriptor is open on: "ipc", "other" or "free"
  pc, call,     \* where each thread is, the call it makes and its queue
  local,        \* what it has read of a static variable or got from open
  held,         \* history: queues got and not released since
  closes,       \* history: calls of ipc_close
  overlapped,   \* history: "calls" if two of get, rel and close have run at
                \*   once, "rels" if two rel have
  proper        \* history: no queue was got twice, or released without

libVars == <<mutex, ipcfd, msqcnt>>
history == <<held, closes, overlapped, proper>>
vars == <<libVars, fdtab, pc, call, local, history>>

NoCall == [op |-> "none", ids |-> {}]

LibInit ==
  /\ mutex = Free
  /\ ipcfd = -1
  /\ msqcnt = 0
  /\ fdtab = [f \in Fds |-> "free"]
  /\ pc = [t \in Threads |-> "idle"]
  /\ call = [t \in Threads |-> NoCall]
  /\ local = [t \in Threads |-> 0]
  /\ held = {}
  /\ closes = 0
  /\ overlapped = {}
  /\ proper = TRUE

Remember(t, value) == local' = [local EXCEPT ![t] = value]

Goto(t, label) == pc' = [pc EXCEPT ![t] = label] /\ UNCHANGED call

Return(t) ==
  /\ pc' = [pc EXCEPT ![t] = "idle"]
  /\ call' = [call EXCEPT ![t] = NoCall]

(* The lowest number that is free, and what a number is open on.           *)
FreeFds == {f \in Fds : fdtab[f] = "free"}

OpenOn(fd) == IF fd \in Fds THEN fdtab[fd] ELSE "free"

Closed(fd) == [f \in Fds |-> IF f = fd THEN "free" ELSE fdtab[f]]

-----------------------------------------------------------------------------
(***************************************************************************)
(* The rest of the program opens and closes files of its own.              *)
(***************************************************************************)
OtherOpens ==
  /\ FreeFds # {}
  /\ fdtab' = [fdtab EXCEPT ![Min(FreeFds)] = "other"]
  /\ UNCHANGED <<libVars, pc, call, local, history>>

OtherCloses ==
  \E f \in Fds :
    /\ fdtab[f] = "other"
    /\ fdtab' = Closed(f)
    /\ UNCHANGED <<libVars, pc, call, local, history>>

-----------------------------------------------------------------------------
(***************************************************************************)
(* A call begins.  "use" is ftok, snd or rcv, which keep nothing, or       *)
(* ipc_open alone.                                                         *)
(***************************************************************************)
Begins(t, op, ids, label) ==
  /\ pc[t] = "idle"
  /\ pc' = [pc EXCEPT ![t] = label]
  /\ call' = [call EXCEPT ![t] = [op |-> op, ids |-> ids]]
  /\ LET others == {call[u].op : u \in Threads} \cap {"get", "rel", "close"}
     IN  overlapped' = overlapped
           \cup (IF op # "use" /\ others # {} THEN {"calls"} ELSE {})
           \cup (IF op = "rel" /\ "rel" \in others THEN {"rels"} ELSE {})
  /\ UNCHANGED <<libVars, fdtab, local, held>>

CallOpens(t) ==
  /\ \E op \in {"get", "use"} : Begins(t, op, {}, "lock")
  /\ UNCHANGED <<closes, proper>>

CallRel(t, id) ==
  /\ Begins(t, "rel", {id}, "ioctl")
  /\ proper' = (proper /\ id \in held)
  /\ UNCHANGED closes

CallClose(t) ==
  /\ closes < MaxCloses
  /\ Begins(t, "close", {}, "closing")
  /\ closes' = closes + 1
  /\ UNCHANGED proper

(***************************************************************************)
(* ipc_open.                                                               *)
(***************************************************************************)
(* Variant: no mutex.                                                      *)
LibLockNot(t) ==
  /\ pc[t] = "lock"
  /\ Goto(t, "test")
  /\ UNCHANGED <<libVars, fdtab, local, history>>

LibLock(t) ==
  /\ pc[t] = "lock"
  /\ mutex = Free
  /\ mutex' = t
  /\ Goto(t, "test")
  /\ UNCHANGED <<ipcfd, msqcnt, fdtab, local, history>>

LibTest(t) ==
  /\ pc[t] = "test"
  /\ IF ipcfd < 0
     THEN Goto(t, "device") /\ UNCHANGED mutex
     ELSE Goto(t, "value") /\ mutex' = Free
  /\ UNCHANGED <<ipcfd, msqcnt, fdtab, local, history>>

LibOpens(t) ==
  /\ pc[t] = "device"
  /\ FreeFds # {}
  /\ fdtab' = [fdtab EXCEPT ![Min(FreeFds)] = "ipc"]
  /\ Remember(t, Min(FreeFds))
  /\ Goto(t, "assign")
  /\ UNCHANGED <<libVars, history>>

LibOpenFails(t) ==
  /\ pc[t] = "device"
  /\ Remember(t, -1)
  /\ Goto(t, "assign")
  /\ UNCHANGED <<libVars, fdtab, history>>

LibAssign(t) ==
  /\ pc[t] = "assign"
  /\ ipcfd' = local[t]
  /\ Remember(t, 0)
  /\ Goto(t, "check")
  /\ UNCHANGED <<mutex, msqcnt, fdtab, history>>

(* Variant: the mutex is kept when the device could not be opened.         *)
LibCheckForgets(t) ==
  /\ pc[t] = "check"
  /\ IF ipcfd < 0
     THEN Return(t) /\ UNCHANGED mutex
     ELSE Goto(t, "value") /\ mutex' = Free
  /\ UNCHANGED <<ipcfd, msqcnt, fdtab, local, history>>

LibCheck(t) ==
  /\ pc[t] = "check"
  /\ mutex' = Free
  /\ IF ipcfd < 0 THEN Return(t) ELSE Goto(t, "value")
  /\ UNCHANGED <<ipcfd, msqcnt, fdtab, local, history>>

(* ipcfd is read once more to be returned, after the mutex.                *)
LibValue(t) ==
  /\ pc[t] = "value"
  /\ IF ipcfd < 0 THEN Return(t) ELSE Goto(t, "ioctl")
  /\ UNCHANGED <<libVars, fdtab, local, history>>

(* Nothing but ipc_open was called, or snd and rcv refuse their arguments. *)
UseRefused(t) ==
  /\ pc[t] = "ioctl"
  /\ call[t].op = "use"
  /\ Return(t)
  /\ UNCHANGED <<libVars, fdtab, local, history>>

(***************************************************************************)
(* ioctl, on whatever ipcfd is now.                                        *)
(***************************************************************************)
(* Variant: only what the device has stored counts, not that ioctl failed; *)
(* nobody has initialised it.                                              *)
IoctlFailureIgnored(t) ==
  /\ pc[t] = "ioctl"
  /\ IF call[t].op = "rel" THEN Goto(t, "load") ELSE Return(t)
  /\ UNCHANGED <<libVars, fdtab, local, history>>

(* Another file, or none, or the device with an error or a refusal.        *)
IoctlFails(t) ==
  /\ pc[t] = "ioctl"
  /\ Return(t)
  /\ UNCHANGED <<libVars, fdtab, local, history>>

UseDone(t) ==
  /\ pc[t] = "ioctl"
  /\ call[t].op = "use"
  /\ OpenOn(ipcfd) = "ipc"
  /\ Return(t)
  /\ UNCHANGED <<libVars, fdtab, local, history>>

GetDone(t, id) ==
  /\ pc[t] = "ioctl"
  /\ call[t].op = "get"
  /\ OpenOn(ipcfd) = "ipc"
  /\ proper' = (proper /\ id \notin held)
  /\ call' = [call EXCEPT ![t].ids = {id}]
  /\ pc' = [pc EXCEPT ![t] = "load"]
  /\ UNCHANGED <<libVars, fdtab, local, held, closes, overlapped>>

(* Variant: a queue the device does not release is counted too.            *)
RelDoneOrNot(t) ==
  /\ pc[t] = "ioctl"
  /\ call[t].op = "rel"
  /\ OpenOn(ipcfd) = "ipc"
  /\ \/ held' = held \ call[t].ids
     \/ UNCHANGED held
  /\ Goto(t, "load")
  /\ UNCHANGED <<libVars, fdtab, local, closes, overlapped, proper>>

RelDone(t) ==
  /\ pc[t] = "ioctl"
  /\ call[t].op = "rel"
  /\ OpenOn(ipcfd) = "ipc"
  /\ held' = held \ call[t].ids
  /\ Goto(t, "load")
  /\ UNCHANGED <<libVars, fdtab, local, closes, overlapped, proper>>

(***************************************************************************)
(* msqcnt, without the mutex.                                              *)
(***************************************************************************)
CountLoad(t) ==
  /\ pc[t] = "load"
  /\ Remember(t, msqcnt)
  /\ Goto(t, "count")
  /\ UNCHANGED <<libVars, fdtab, history>>

CountUp(t) ==
  /\ pc[t] = "count"
  /\ call[t].op = "get"
  /\ local[t] < MaxCount
  /\ msqcnt' = local[t] + 1
  /\ held' = held \cup call[t].ids
  /\ Remember(t, 0)
  /\ Return(t)
  /\ UNCHANGED <<mutex, ipcfd, fdtab, closes, overlapped, proper>>

CountDown(t) ==
  /\ pc[t] = "count"
  /\ call[t].op = "rel"
  /\ local[t] > -MaxCount
  /\ msqcnt' = local[t] - 1
  /\ Remember(t, 0)
  /\ Goto(t, "zero")
  /\ UNCHANGED <<mutex, ipcfd, fdtab, history>>

RelNotLast(t) ==
  /\ pc[t] = "zero"
  /\ msqcnt # 0
  /\ Return(t)
  /\ UNCHANGED <<libVars, fdtab, local, history>>

RelLast(t) ==
  /\ pc[t] = "zero"
  /\ msqcnt = 0
  /\ Goto(t, "last")
  /\ UNCHANGED <<libVars, fdtab, local, history>>

RelCloses(t) ==
  /\ pc[t] = "last"
  /\ fdtab' = Closed(ipcfd)
  /\ Goto(t, "forget")
  /\ UNCHANGED <<libVars, local, history>>

RelForgets(t) ==
  /\ pc[t] = "forget"
  /\ ipcfd' = -1
  /\ Return(t)
  /\ UNCHANGED <<mutex, msqcnt, fdtab, local, history>>

(***************************************************************************)
(* ipc_close leaves ipcfd as it is.                                        *)
(***************************************************************************)
CloseTest(t) ==
  /\ pc[t] = "closing"
  /\ IF ipcfd >= 0 THEN Goto(t, "close") ELSE Return(t)
  /\ UNCHANGED <<libVars, fdtab, local, history>>

CloseCloses(t) ==
  /\ pc[t] = "close"
  /\ fdtab' = Closed(ipcfd)
  /\ Return(t)
  /\ UNCHANGED <<libVars, local, history>>

-----------------------------------------------------------------------------

LibNext ==
  \/ OtherOpens
  \/ OtherCloses
  \/ \E t \in Threads :
       \/ CallOpens(t)
       \/ \E id \in Ids : CallRel(t, id)
       \/ CallClose(t)
       \/ LibLock(t)
       \/ LibTest(t)
       \/ LibOpens(t)
       \/ LibOpenFails(t)
       \/ LibAssign(t)
       \/ LibCheck(t)
       \/ LibValue(t)
       \/ UseRefused(t)
       \/ IoctlFails(t)
       \/ UseDone(t)
       \/ \E id \in Ids : GetDone(t, id)
       \/ RelDone(t)
       \/ CountLoad(t)
       \/ CountUp(t)
       \/ CountDown(t)
       \/ RelNotLast(t)
       \/ RelLast(t)
       \/ RelCloses(t)
       \/ RelForgets(t)
       \/ CloseTest(t)
       \/ CloseCloses(t)

LibSpec == LibInit /\ [][LibNext]_vars

-----------------------------------------------------------------------------
(***************************************************************************)
(* Properties.                                                             *)
(***************************************************************************)
Opening == {"test", "device", "assign", "check"}

(* msqcnt is a count, ipcfd a descriptor or -1, and mutex belongs to the   *)
(* thread that is inside ipc_open, to nobody if none is.                   *)
LibTypeOK ==
  /\ mutex \in Threads \cup {Free}
  /\ ipcfd \in Fds \cup {-1}
  /\ msqcnt \in -MaxCount .. MaxCount
  /\ fdtab \in [Fds -> {"ipc", "other", "free"}]
  /\ \A t \in Threads : mutex = t <=> pc[t] \in Opening
  /\ held \subseteq Ids

(* "static pthread_mutex_t mutex": the process has the device open at most *)
(* once, whatever gets, sends, receives and closes run at once - unless    *)
(* two threads release at once, which the mutex does not keep apart.       *)
OneDescriptor ==
  "rels" \notin overlapped =>
    Cardinality({f \in Fds : fdtab[f] = "ipc"}) <= 1

(* The library closes no file of the rest of the program, unless           *)
(* ipc_close, which leaves ipcfd set, is called a second time, or calls    *)
(* that may close the device overlap.                                      *)
ClosesOwnFileOnly ==
  [][\A f \in Fds :
       fdtab[f] = "other" /\ fdtab'[f] # "other" /\ pc' # pc
         => closes > 1 \/ "calls" \in overlapped]_vars

(* What msqcnt is for: while the process has a queue it has the device     *)
(* open, through ipcfd.  That takes a process that releases what it has    *)
(* got, once, does not make two of these calls at once, and has not called *)
(* ipc_close.                                                              *)
HeldKeepsDevice ==
  proper /\ closes = 0 /\ overlapped = {} /\ held # {} => OpenOn(ipcfd) = "ipc"

=============================================================================
