----------------------------- MODULE IpcDriver -----------------------------
(***************************************************************************)
(* The character device of drv_ipc_main.c: what ipc_open, ipc_ioctl and    *)
(* ipc_release do to the bit mask of a file and to ipc_mutex, around the   *)
(* calls into the queue table of IpcMsgque.  The table is modelled as on   *)
(* one processor.  SND and RCV change nothing of this state but what       *)
(* IpcSend and IpcReceive model.                                           *)
(*                                                                         *)
(* A thread inside an operation of the device may be inside a call of the  *)
(* table: call is the frame of the operation, pc that of the inner call.   *)
(*   "get"    GET: looking the key up, then waiting for ipc_mutex          *)
(*   "rel"    REL: the queue is released, waiting for ipc_mutex            *)
(*   "stuck"  REL: waiting for ipc_mutex once more, which it holds         *)
(*   "close"  the loop of ipc_release                                      *)
(* GET does not create a queue; in-kernel callers do (ShortCall).  Who     *)
(* looks a key up outside GET leaves no trace here.                        *)
(***************************************************************************)
EXTENDS IpcMsgque

CONSTANT Files        \* open file descriptions, each reused after a close

ASSUME DriverAssumption == ~SMP

VARIABLES
  file,          \* whether each is "closed", "open" or "closing"
  storequebit,   \* the bit mask of its struct ipc_device, as a set
  ipc_mutex,     \* the thread that holds it
  call           \* the operation a thread is in, its file and queue

driverVars == <<tableVars, file, storequebit, ipc_mutex, call>>

deviceVars == <<file, storequebit, ipc_mutex>>

Call(op, f, id) == [op |-> op, file |-> {f}, id |-> id]

NoCall == [op |-> "none", file |-> {}, id |-> 0]

DriverInit ==
  /\ TableInit
  /\ file = [f \in Files |-> "closed"]
  /\ storequebit = [f \in Files |-> {}]
  /\ ipc_mutex = Free
  /\ call = [t \in Threads |-> NoCall]

(* The thread is in no operation, and in no call of the table either.      *)
AtRest(t) == call[t] = NoCall /\ pc[t] = "idle"

ipc_msgque_rel(t, id) ==
  \/ RelUnregistered(t, id)
  \/ id \in Slots /\ (RelDone(t, id) \/ RelNoToken(t, id))

-----------------------------------------------------------------------------

ipc_open(f) ==
  /\ file[f] = "closed"
  /\ file' = [file EXCEPT ![f] = "open"]
  /\ storequebit' = [storequebit EXCEPT ![f] = {}]
  /\ UNCHANGED <<tableVars, ipc_mutex, call>>

(***************************************************************************)
(* GET, on any file that is open.                                          *)
(***************************************************************************)
IoctlGet(t, f, k) ==
  /\ AtRest(t)
  /\ file[f] = "open"
  /\ ScanStart(t, k)
  /\ call' = [call EXCEPT ![t] = Call("get", f, 0)]
  /\ UNCHANGED deviceVars

IoctlGetNone(t) ==
  /\ call[t].op = "get"
  /\ pc[t] = "idle"
  /\ ret[t] < 0
  /\ call' = [call EXCEPT ![t] = NoCall]
  /\ UNCHANGED <<tableVars, deviceVars>>

(* Variant: GET locks twice, as REL does.                                  *)
GetStoreKeepsMutex(t) ==
  /\ call[t].op = "get"
  /\ pc[t] = "idle"
  /\ ret[t] >= 0
  /\ ipc_mutex = Free
  /\ ipc_mutex' = t
  /\ storequebit' = [f \in Files |->
       IF f \in call[t].file THEN storequebit[f] \cup {ret[t]} ELSE storequebit[f]]
  /\ call' = [call EXCEPT ![t] = NoCall]
  /\ UNCHANGED <<tableVars, file>>

(* The bit is set for the id that was found some time ago.                 *)
IoctlGetStore(t) ==
  /\ call[t].op = "get"
  /\ pc[t] = "idle"
  /\ ret[t] >= 0
  /\ ipc_mutex = Free
  /\ storequebit' = [f \in Files |->
       IF f \in call[t].file THEN storequebit[f] \cup {ret[t]} ELSE storequebit[f]]
  /\ call' = [call EXCEPT ![t] = NoCall]
  /\ UNCHANGED <<tableVars, file, ipc_mutex>>

(***************************************************************************)
(* REL releases first, whatever that returns, and clears the bit later.    *)
(* Where it should unlock ipc_mutex it locks it again, for ever.           *)
(***************************************************************************)
IoctlRel(t, f, id) ==
  /\ AtRest(t)
  /\ file[f] = "open"
  /\ ipc_msgque_rel(t, id)
  /\ call' = [call EXCEPT ![t] = Call("rel", f, id)]
  /\ UNCHANGED deviceVars

IoctlRelClear(t) ==
  /\ call[t].op = "rel"
  /\ ipc_mutex = Free
  /\ ipc_mutex' = t
  /\ storequebit' = [f \in Files |->
       IF f \in call[t].file THEN storequebit[f] \ {call[t].id} ELSE storequebit[f]]
  /\ call' = [call EXCEPT ![t].op = "stuck"]
  /\ UNCHANGED <<tableVars, file>>

(***************************************************************************)
(* ipc_release runs when the last reference is dropped, and a call on the  *)
(* file is a reference.  It does not take ipc_mutex.                       *)
(***************************************************************************)
Close(t, f) ==
  /\ AtRest(t)
  /\ file[f] = "open"
  /\ \A u \in Threads : f \notin call[u].file
  /\ file' = [file EXCEPT ![f] = "closing"]
  /\ call' = [call EXCEPT ![t] = Call("close", f, 0)]
  /\ UNCHANGED <<tableVars, storequebit, ipc_mutex>>

(* Variant: the loop takes the mutex, as the other two users of the mask   *)
(* do.                                                                     *)
CloseSlotLocked(t) ==
  /\ call[t].op = "close"
  /\ ipc_mutex = Free
  /\ call[t].id < QUEUE_NUM
  /\ \E f \in call[t].file :
       IF call[t].id \in storequebit[f]
       THEN ipc_msgque_rel(t, call[t].id)
       ELSE UNCHANGED tableVars
  /\ call' = [call EXCEPT ![t].id = @ + 1]
  /\ UNCHANGED deviceVars

(* Variant: the loop ends at the first queue that is not released.         *)
CloseSlotGivesUp(t) ==
  /\ call[t].op = "close"
  /\ call[t].id < QUEUE_NUM
  /\ \E f \in call[t].file :
       IF call[t].id \in storequebit[f]
       THEN ipc_msgque_rel(t, call[t].id)
       ELSE UNCHANGED tableVars
  /\ call' = [call EXCEPT ![t].id = IF ret'[t] < 0 THEN QUEUE_NUM ELSE @ + 1]
  /\ UNCHANGED deviceVars

CloseSlot(t) ==
  /\ call[t].op = "close"
  /\ call[t].id < QUEUE_NUM
  /\ \E f \in call[t].file :
       IF call[t].id \in storequebit[f]
       THEN ipc_msgque_rel(t, call[t].id)
       ELSE UNCHANGED tableVars
  /\ call' = [call EXCEPT ![t].id = @ + 1]
  /\ UNCHANGED deviceVars

CloseDone(t) ==
  /\ call[t].op = "close"
  /\ call[t].id = QUEUE_NUM
  /\ file' = [f \in Files |-> IF f \in call[t].file THEN "closed" ELSE file[f]]
  /\ call' = [call EXCEPT ![t] = NoCall]
  /\ UNCHANGED <<tableVars, storequebit, ipc_mutex>>

-----------------------------------------------------------------------------

(* What an operation that was started does next.                           *)
DeviceStep(t) ==
  \/ TableStep(t) /\ UNCHANGED <<deviceVars, call>>
  \/ IoctlGetNone(t)
  \/ IoctlGetStore(t)
  \/ IoctlRelClear(t)
  \/ CloseSlot(t)
  \/ CloseDone(t)

DriverNext ==
  \/ \E f \in Files : ipc_open(f)
  \/ \E t \in Threads :
       \/ AtRest(t) /\ ShortCall(t) /\ UNCHANGED <<deviceVars, call>>
       \/ \E f \in Files :
            \/ \E k \in Keys : IoctlGet(t, f, k)
            \/ \E id \in MsqIds : IoctlRel(t, f, id)
            \/ Close(t, f)
       \/ DeviceStep(t)

DriverSpec == DriverInit /\ [][DriverNext]_driverVars

(* Threads inside an operation are scheduled; the mutex is free until it   *)
(* is taken for ever.  Nobody has to begin anything.                       *)
DriverFairSpec ==
  DriverSpec /\ \A t \in Threads : WF_driverVars(DeviceStep(t))

-----------------------------------------------------------------------------
(***************************************************************************)
(* Properties.                                                             *)
(***************************************************************************)

(* Masks hold ids of slots, and a file is closing exactly while some       *)
(* thread runs ipc_release on it, alone.                                   *)
DriverTypeOK ==
  /\ TableTypeOK
  /\ file \in [Files -> {"closed", "open", "closing"}]
  /\ storequebit \in [Files -> SUBSET Slots]
  /\ ipc_mutex \in Threads \cup {Free}
  /\ \A t \in Threads :
       /\ call[t].op \in {"none", "get", "rel", "stuck", "close"}
       /\ call[t].id \in 0 .. QUEUE_NUM
  /\ \A f \in Files :
       LET users == {t \in Threads : f \in call[t].file}
       IN  /\ file[f] = "closed" => users = {}
           /\ file[f] = "closing" =>
                \E t \in Threads : users = {t} /\ call[t].op = "close"

(* A GET returns, whatever other GETs and closes run, unless a REL is      *)
(* stuck.                                                                  *)
GetReturns ==
  \A t \in Threads :
    call[t].op = "get" ~> \/ call[t].op # "get"
                          \/ \E u \in Threads : call[u].op = "stuck"

(* "ioctl return value ... send back return value to user space": a REL    *)
(* returns, to whichever thread that has called it.                        *)
RelReturns == \A t \in Threads : call[t].op = "rel" ~> call[t] = NoCall

(* A file can be closed even when other threads are stuck in a REL.        *)
CloseReturns == \A t \in Threads : call[t].op = "close" ~> call[t].op # "close"

(* The loop of ipc_release on file f has a registered queue s before it.   *)
AboutToRelease(f, s) ==
  /\ file[f] = "closing"
  /\ s \in storequebit[f]
  /\ msgQueTbl[s].initkey
  /\ \A t \in Threads : f \in call[t].file => call[t].id <= s

(* ipc_release "need release all of msgque": a queue the file has obtained *)
(* is released when the file is closed, unless its name is gone, whatever  *)
(* becomes of the queues before it in the mask.                            *)
ClosingReleases ==
  \A f \in Files, s \in Slots :
    AboutToRelease(f, s) ~> \/ ~msgQueTbl[s].initkey
                            \/ TokensWithKey(msgQueTbl[s].sharekey) = {}

=============================================================================
