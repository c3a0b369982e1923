------------------------------- MODULE IpcLife -------------------------------
(***************************************************************************)
(* The life cycle of the message queue driver (ipc_probe and ipc_remove of *)
(* drv_ipc_main.c, ipc_msgque_init and ipc_msgque_exit), its handler for   *)
(* events of other cores, and user calls, over the core communicator of    *)
(* IpcCC, which comes and goes on its own.  Every call into the kernel may *)
(* fail.                                                                   *)
(*                                                                         *)
(* ipc is where the driver is: "unbound"; the call of ipc_probe that comes *)
(* next ("region", "class", ..., "dma"); "bound"; the step of ipc_remove   *)
(* that comes next ("rm_..."); or the label ipc_probe has jumped to.       *)
(***************************************************************************)
EXTENDS IpcCC

VARIABLES
  ipc,        \* see above
  loaded,     \* the module is in the kernel
  res,        \* registered: "region", "class", "node", "cdev"
  cls,        \* the pointer to the class: "null", "valid", or an "error"
  m_ctrl,     \* "null", "live", "freed"
  shm,        \* shared memory: "null", "mapped", "unmapped"
  g_msqinfo,  \* "null", "raw" (not written yet), "ready",
              \* "cleared" (no queue registered), "freed"
  file,       \* a process has the device open
  user,       \* its call: "none", has "tested" g_msqinfo, "holds" a pointer
              \* into the table, or a "stale" one
  undisturbed, \* history: the driver has been bound since the call began
  steady      \* history: ipc_cc_dev is the one that ipc_probe began with

ipcVars == <<ipc, loaded, res, cls, m_ctrl, shm, g_msqinfo, file, user,
             undisturbed, steady>>
lifeVars == <<ccVars, ipcVars>>

memVars == <<m_ctrl, shm, g_msqinfo>>
userVars == <<file, user, undisturbed>>

LifeInit ==
  /\ CCInit
  /\ ipc = "unbound" /\ loaded = TRUE
  /\ res = {} /\ cls = "null"
  /\ m_ctrl = "null" /\ shm = "null" /\ g_msqinfo = "null"
  /\ file = FALSE /\ user = "none" /\ undisturbed = FALSE
  /\ steady = FALSE

(* The driver goes from one step to another.                               *)
Go(from, to) == ipc = from /\ ipc' = to

Fault(kind) ==
  /\ fault' = kind
  /\ UNCHANGED <<devVars, regVars, evtVars, ipcVars>>

-----------------------------------------------------------------------------
(***************************************************************************)
(* ipc_probe, up to the character device.  The class has a name of its own *)
(* in the kernel, which takes it once.                                     *)
(***************************************************************************)
ProbeRegion ==
  /\ loaded
  /\ Go("unbound", "class")
  /\ res' = res \cup {"region"}
  /\ steady' = TRUE
  /\ UNCHANGED <<ccVars, loaded, cls, memVars, userVars>>

ProbeClass ==
  /\ \/ /\ "class" \notin res
        /\ Go("class", "node")
        /\ res' = res \cup {"class"}
        /\ cls' = "valid"
     \/ /\ Go("class", "FAILED_CREATE_CLASS_DEVICE")
        /\ cls' = "error"
        /\ UNCHANGED res
  /\ UNCHANGED <<ccVars, loaded, memVars, userVars, steady>>

ProbeNode ==
  /\ \/ Go("node", "cdev") /\ res' = res \cup {"node"}
     \/ Go("node", "FAILED_CREATE_DEVICE") /\ UNCHANGED res
  /\ UNCHANGED <<ccVars, loaded, cls, memVars, userVars, steady>>

(* Variant: the node is forgotten when cdev_add fails.                     *)
ProbeCdevForgets ==
  /\ \/ Go("cdev", "ctrl") /\ res' = res \cup {"cdev"}
     \/ Go("cdev", "FAILED_CREATE_CLASS_DEVICE") /\ UNCHANGED res
  /\ UNCHANGED <<ccVars, loaded, cls, memVars, userVars, steady>>

ProbeCdev ==
  /\ \/ Go("cdev", "ctrl") /\ res' = res \cup {"cdev"}
     \/ Go("cdev", "FAILED_CDEV_ADD") /\ UNCHANGED res
  /\ UNCHANGED <<ccVars, loaded, cls, memVars, userVars, steady>>

(* cdev_alloc returns null when it fails, the test is for an error.        *)
ProbeCdevNull == ipc = "cdev" /\ Fault("cdev")

-----------------------------------------------------------------------------
(***************************************************************************)
(* ipc_probe, from the control block on: the device is open to users.      *)
(***************************************************************************)
ProbeCtrl ==
  /\ \/ Go("ctrl", "map") /\ m_ctrl' = "live"
     \/ Go("ctrl", "FAILED_CDEV_ADD") /\ m_ctrl' = "null"
  /\ UNCHANGED <<ccVars, loaded, res, cls, shm, g_msqinfo, userVars, steady>>

ProbeMap ==
  /\ \/ Go("map", "cpu1") /\ shm' = "mapped"
     \/ Go("map", "FAILED_ALLOC_MEM") /\ shm' = "null"
  /\ UNCHANGED <<ccVars, loaded, res, cls, m_ctrl, g_msqinfo, userVars, steady>>

(* The two calls of ipc_cc_register_handler.                               *)
ProbeRegister(core, this, next, failed) ==
  /\ \/ /\ Go(this, next)
        /\ ipc_cc_register_handler(core)
     \/ /\ ipc_cc_dev = "null"
        /\ Go(this, failed)
        /\ UNCHANGED handler
  /\ UNCHANGED <<cc, ipc_cc_dev, depth, regVars, evtVars, fault,
                 loaded, res, cls, memVars, userVars, steady>>

(* Variant: core 1 is registered twice.                                    *)
ProbeHandlersCpu1Twice ==
  \/ ProbeRegister("cpu1", "cpu1", "dsp", "FAILED_ALLOC_MEM")
  \/ ProbeRegister("cpu1", "dsp", "init", "FAILED_INIT_CORE_HANDLER")

ProbeHandlers ==
  \/ ProbeRegister("cpu1", "cpu1", "dsp", "FAILED_ALLOC_MEM")
  \/ ProbeRegister("dsp", "dsp", "init", "FAILED_INIT_CORE_HANDLER")

(* ipc_msgque_init.  The pointer is set before the table is written.       *)
InitAlloc ==
  /\ \/ Go("init", "dma") /\ g_msqinfo = "null" /\ g_msqinfo' = "raw"
     \/ Go("init", "FAILED_INIT_CORE_HANDLER") /\ UNCHANGED g_msqinfo
  /\ UNCHANGED <<ccVars, loaded, res, cls, m_ctrl, shm, userVars, steady>>

(* Variant: ipc_probe goes on into the labels.                             *)
InitTableFallsThrough ==
  /\ \/ Go("dma", "bound") /\ g_msqinfo' = "ready" /\ m_ctrl' = "freed"
     \/ Go("dma", "dma_failed") /\ g_msqinfo' = "freed" /\ UNCHANGED m_ctrl
  /\ UNCHANGED <<ccVars, loaded, res, cls, shm, userVars, steady>>

InitTable ==
  /\ \/ Go("dma", "bound") /\ g_msqinfo' = "ready"
     \/ Go("dma", "dma_failed") /\ g_msqinfo' = "freed"
  /\ UNCHANGED <<ccVars, loaded, res, cls, m_ctrl, shm, userVars, steady>>

InitFailed ==
  /\ Go("dma_failed", "FAILED_INIT_CORE_HANDLER")
  /\ g_msqinfo' = "null"
  /\ UNCHANGED <<ccVars, loaded, res, cls, m_ctrl, shm, userVars, steady>>

-----------------------------------------------------------------------------
(***************************************************************************)
(* The labels of ipc_probe.  The memory stays mapped, the handlers stay    *)
(* registered, and the two labels of class and node have changed places.   *)
(***************************************************************************)
UnwindHandler ==
  /\ Go("FAILED_INIT_CORE_HANDLER", "FAILED_ALLOC_MEM")
  /\ \/ ipc_cc_unregister_handler("cpu1")
     \/ ipc_cc_dev = "null" /\ UNCHANGED handler
  /\ UNCHANGED <<cc, ipc_cc_dev, depth, regVars, evtVars, fault,
                 loaded, res, cls, memVars, userVars, steady>>

UnwindCtrl ==
  /\ Go("FAILED_ALLOC_MEM", "FAILED_CDEV_ADD")
  /\ m_ctrl' = "freed"
  /\ UNCHANGED <<ccVars, loaded, res, cls, shm, g_msqinfo, userVars, steady>>

UnwindCdev ==
  /\ Go("FAILED_CDEV_ADD", "FAILED_CDEV_ALLOC")
  /\ res' = res \ {"cdev"}
  /\ UNCHANGED <<ccVars, loaded, cls, memVars, userVars, steady>>

UnwindNode ==
  /\ Go("FAILED_CDEV_ALLOC", "FAILED_CREATE_CLASS_DEVICE")
  /\ res' = res \ {"node"}
  /\ UNCHANGED <<ccVars, loaded, cls, memVars, userVars, steady>>

(* Variant: the class is destroyed by its name.                            *)
UnwindClassByName ==
  /\ Go("FAILED_CREATE_CLASS_DEVICE", "FAILED_CREATE_DEVICE")
  /\ res' = res \ {"class"}
  /\ UNCHANGED <<ccVars, loaded, cls, memVars, userVars, steady>>

(* class_destroy does nothing with an error.                               *)
UnwindClass ==
  /\ Go("FAILED_CREATE_CLASS_DEVICE", "FAILED_CREATE_DEVICE")
  /\ res' = IF cls = "valid" THEN res \ {"class"} ELSE res
  /\ UNCHANGED <<ccVars, loaded, cls, memVars, userVars, steady>>

UnwindRegion ==
  /\ Go("FAILED_CREATE_DEVICE", "unbound")
  /\ res' = res \ {"region"}
  /\ UNCHANGED <<ccVars, loaded, cls, memVars, userVars, steady>>

Unwind ==
  \/ UnwindHandler
  \/ UnwindCtrl
  \/ UnwindCdev
  \/ UnwindNode
  \/ UnwindClass
  \/ UnwindRegion

-----------------------------------------------------------------------------
(***************************************************************************)
(* ipc_remove: first the device, then the mapping, then the handlers, and  *)
(* the table last.  The control block stays.                               *)
(***************************************************************************)
RemoveDevice ==
  /\ Go("bound", "rm_map")
  /\ res' = {}
  /\ undisturbed' = FALSE
  /\ UNCHANGED <<ccVars, loaded, cls, memVars, file, user, steady>>

RemoveMap ==
  /\ Go("rm_map", "rm_cpu1")
  /\ shm' = "unmapped"
  /\ UNCHANGED <<ccVars, loaded, res, cls, m_ctrl, g_msqinfo, userVars, steady>>

RemoveHandlers ==
  /\ \/ Go("rm_cpu1", "rm_dsp")
     \/ Go("rm_dsp", "rm_clear")
  /\ \/ ipc_cc_unregister_handler(ipc)
     \/ ipc_cc_dev = "null" /\ UNCHANGED handler
  /\ UNCHANGED <<cc, ipc_cc_dev, depth, regVars, evtVars, fault,
                 loaded, res, cls, memVars, userVars, steady>>

(* ipc_msgque_exit: the queues, the memory, the pointer.  Nobody waits for *)
(* calls that sleep on a queue or a semaphore of the table, or stopped in  *)
(* the middle.                                                             *)
ExitQueues ==
  /\ Go("rm_clear", "rm_free")
  /\ g_msqinfo' = "cleared"
  /\ UNCHANGED <<ccVars, loaded, res, cls, m_ctrl, shm, userVars, steady>>

ExitFree ==
  /\ Go("rm_free", "rm_null")
  /\ g_msqinfo' = "freed"
  /\ user' = IF user = "holds" THEN "stale" ELSE user
  /\ UNCHANGED <<ccVars, loaded, res, cls, m_ctrl, shm, file, undisturbed, steady>>

ExitNull ==
  /\ Go("rm_null", "unbound")
  /\ g_msqinfo' = "null"
  /\ UNCHANGED <<ccVars, loaded, res, cls, m_ctrl, shm, userVars, steady>>

ProbeOrRemove ==
  \/ ProbeRegion
  \/ ProbeClass
  \/ ProbeNode
  \/ ProbeCdev
  \/ ProbeCdevNull
  \/ ProbeCtrl
  \/ ProbeMap
  \/ ProbeHandlers
  \/ InitAlloc
  \/ InitTable
  \/ InitFailed
  \/ Unwind
  \/ RemoveDevice
  \/ RemoveMap
  \/ RemoveHandlers
  \/ ExitQueues
  \/ ExitFree
  \/ ExitNull

(* Variant: the operations of the device do not name their module, and the *)
(* kernel lets it go while the device is open.                             *)
UnloadWhileOpen ==
  /\ loaded /\ ipc = "unbound"
  /\ loaded' = FALSE
  /\ handler' = [c \in Cores |-> IF handler[c] = "ipc" THEN "stale" ELSE handler[c]]
  /\ m_ctrl' = "null" /\ shm' = "null" /\ g_msqinfo' = "null" /\ cls' = "null"
  /\ UNCHANGED <<cc, ipc_cc_dev, depth, regVars, evtVars, fault,
                 ipc, res, userVars, steady>>

(* ipc_exit unregisters the driver, and an unbound one has nothing to      *)
(* remove; the kernel keeps a module whose device is open.  What the table *)
(* of handlers points to is no code any more, and a new module starts with *)
(* new variables.                                                          *)
Unload ==
  /\ loaded /\ ipc = "unbound" /\ ~file
  /\ loaded' = FALSE
  /\ handler' = [c \in Cores |-> IF handler[c] = "ipc" THEN "stale" ELSE handler[c]]
  /\ m_ctrl' = "null" /\ shm' = "null" /\ g_msqinfo' = "null" /\ cls' = "null"
  /\ UNCHANGED <<cc, ipc_cc_dev, depth, regVars, evtVars, fault,
                 ipc, res, userVars, steady>>

Load ==
  /\ ~loaded
  /\ loaded' = TRUE
  /\ UNCHANGED <<ccVars, ipc, res, cls, memVars, userVars, steady>>

(* Registering with, or unregistering from, a communicator that was freed. *)
CallsFreedCC ==
  /\ ipc \in {"cpu1", "dsp", "FAILED_INIT_CORE_HANDLER", "rm_cpu1", "rm_dsp"}
  /\ UseFreedCC
  /\ UNCHANGED ipcVars

-----------------------------------------------------------------------------
(***************************************************************************)
(* ipc_core_handle_func, in the interrupt handler.  Other cores go on      *)
(* between its steps, threads do not.                                      *)
(***************************************************************************)
Called == irq.at = "call" /\ handler[IrqCore] = "ipc"

(* ipc_msgque_getIDbyKey finds no queue.                                   *)
HandlerNoQueue ==
  /\ Called
  /\ g_msqinfo \in {"null", "ready", "cleared"}
  /\ NextCore
  /\ UNCHANGED <<devVars, regVars, cmd, fault, ipcVars>>

HandlerFinds ==
  /\ Called
  /\ g_msqinfo = "ready"
  /\ irq' = [irq EXCEPT !.at = "post"]
  /\ UNCHANGED <<devVars, regVars, cmd, fault, ipcVars>>

(* It reads a table that was not written, or was freed.                    *)
HandlerNoTable ==
  /\ Called
  /\ g_msqinfo \in {"raw", "freed"}
  /\ Fault("table")

(* The message is in the shared memory, whose address is in m_ctrl.        *)
HandlerNoMemory ==
  /\ irq.at = "post"
  /\ m_ctrl # "live" \/ shm # "mapped"
  /\ Fault("memory")

(* A full queue refuses the message: no acknowledgement.                   *)
HandlerRefused ==
  /\ irq.at = "post"
  /\ m_ctrl = "live" /\ shm = "mapped"
  /\ NextCore
  /\ UNCHANGED <<devVars, regVars, cmd, fault, ipcVars>>

(* Variant: the acknowledgement is sent before the message is posted.      *)
HandlerAcksFirst ==
  /\ irq.at = "post"
  /\ m_ctrl = "live" /\ shm = "mapped"
  /\ ipc_cc_send_ack(IrqCore)
  /\ NextCore
  /\ UNCHANGED <<devVars, inten, stsRead, fault, ipcVars>>

HandlerPosts ==
  /\ irq.at = "post"
  /\ m_ctrl = "live" /\ shm = "mapped"
  /\ cmd' = [cmd EXCEPT ![IrqCore] = IF @ = "sent" THEN "posted" ELSE "twice"]
  /\ irq' = [irq EXCEPT !.at = "ack"]
  /\ UNCHANGED <<devVars, regVars, fault, ipcVars>>

HandlerAcks ==
  /\ irq.at = "ack"
  /\ ipc_cc_send_ack(IrqCore)
  /\ NextCore
  /\ UNCHANGED <<devVars, inten, stsRead, fault, ipcVars>>

Handler ==
  \/ HandlerNoQueue
  \/ HandlerFinds
  \/ HandlerNoTable
  \/ HandlerNoMemory
  \/ HandlerRefused
  \/ HandlerPosts
  \/ HandlerAcks

-----------------------------------------------------------------------------
(***************************************************************************)
(* A process.  A call tests g_msqinfo, then looks for its queue in the     *)
(* table, then works on what it found, asleep at times: waiting for a      *)
(* message on the queue, or for the semaphore of the buffers, which is in  *)
(* the table, too.                                                         *)
(***************************************************************************)
UserOpen ==
  /\ "cdev" \in res
  /\ ~file /\ file' = TRUE
  /\ UNCHANGED <<ccVars, ipc, loaded, res, cls, memVars, user, undisturbed, steady>>

UserClose ==
  /\ file /\ user = "none"
  /\ file' = FALSE
  /\ UNCHANGED <<ccVars, ipc, loaded, res, cls, memVars, user, undisturbed, steady>>

UserTests ==
  /\ file /\ user = "none"
  /\ g_msqinfo # "null"
  /\ user' = "tested"
  /\ undisturbed' = (ipc = "bound")
  /\ UNCHANGED <<ccVars, ipc, loaded, res, cls, memVars, file, steady>>

UserFinds ==
  /\ user = "tested"
  /\ g_msqinfo = "ready"
  /\ user' = "holds"
  /\ UNCHANGED <<ccVars, ipc, loaded, res, cls, memVars, file, undisturbed, steady>>

(* The table was not written, was freed, or g_msqinfo is null again.       *)
UserNoTable ==
  /\ user = "tested"
  /\ g_msqinfo \in {"raw", "freed", "null"}
  /\ Fault("table")

(* There is no such queue, or the call has done what it had to do.         *)
UserReturns ==
  /\ \/ user = "tested" /\ g_msqinfo \in {"ready", "cleared"}
     \/ user = "holds"
  /\ user' = "none"
  /\ undisturbed' = FALSE
  /\ UNCHANGED <<ccVars, ipc, loaded, res, cls, memVars, file, steady>>

(* It reads the queue or the semaphore it slept on.                        *)
UserWakesLate == user = "stale" /\ Fault("queue")

(* ipc_msg_snd, and its return.                                            *)
UserSends ==
  /\ user = "holds"
  /\ ipc_cc_send_cmd
  /\ user' = "none"
  /\ undisturbed' = FALSE
  /\ UNCHANGED <<devVars, inten, stsRead, evtVars, ipc, loaded, res, cls, memVars,
                 file, steady>>

UserSendsFreedCC ==
  /\ user = "holds"
  /\ UseFreedCC
  /\ UNCHANGED ipcVars

User ==
  \/ UserOpen
  \/ UserClose
  \/ UserTests
  \/ UserFinds
  \/ UserNoTable
  \/ UserReturns
  \/ UserWakesLate
  \/ UserSends
  \/ UserSendsFreedCC

-----------------------------------------------------------------------------

(* A thread goes on when no interrupt is being handled; a fault is the end.*)
ThreadsRun == fault = "none" /\ irq.at = "none"

LifeNext ==
  \/ ThreadsRun /\ (ProbeOrRemove \/ Unload \/ Load \/ CallsFreedCC \/ User)
  \/ /\ ThreadsRun
     /\ CcThread
     /\ steady' = (steady /\ ipc_cc_dev' = ipc_cc_dev)
     /\ UNCHANGED <<ipc, loaded, res, cls, memVars, userVars>>
  \/ fault = "none" /\ (Handler \/ (CcIrq /\ UNCHANGED ipcVars))
  \/ fault = "none" /\ \E c \in Others : CoreSends(c) /\ UNCHANGED ipcVars

LifeSpec == LifeInit /\ [][LifeNext]_lifeVars

-----------------------------------------------------------------------------
(***************************************************************************)
(* Properties.                                                             *)
(***************************************************************************)
Probing == {"class", "node", "cdev", "ctrl", "map", "cpu1", "dsp", "init",
            "dma", "dma_failed"}

Failed == {"FAILED_INIT_CORE_HANDLER", "FAILED_ALLOC_MEM", "FAILED_CDEV_ADD",
           "FAILED_CDEV_ALLOC", "FAILED_CREATE_CLASS_DEVICE", "FAILED_CREATE_DEVICE"}

Removing == {"rm_map", "rm_cpu1", "rm_dsp", "rm_clear", "rm_free", "rm_null"}

(* The driver is at a step of its life, the communicator at one of its     *)
(* own, and a module that is gone has registered nothing new.              *)
LifeTypeOK ==
  /\ CCTypeOK
  /\ ipc \in {"unbound", "bound"} \cup Probing \cup Failed \cup Removing
  /\ res \subseteq {"region", "class", "node", "cdev"}
  /\ cls \in {"null", "valid", "error"}
  /\ m_ctrl \in {"null", "live", "freed"}
  /\ shm \in {"null", "mapped", "unmapped"}
  /\ g_msqinfo \in {"null", "raw", "ready", "cleared", "freed"}
  /\ user \in {"none", "tested", "holds", "stale"}
  /\ undisturbed \in BOOLEAN
  /\ user # "none" => file
  /\ ~loaded => ipc = "unbound" /\ ~file
  /\ fault \in {"none", "cc_dev", "offset", "text", "cdev", "table", "memory", "queue"}

(* Interrupts and user calls at any moment of ipc_probe, of its failures   *)
(* and of what they leave behind, find what they use in place, but for     *)
(* these: ipc_remove has unmapped the memory and not yet cleared the       *)
(* table; the table is allocated and not written, or freed and still       *)
(* pointed to; cdev_alloc failed; the module was unloaded and its          *)
(* successor is not bound; the communicator is unbound, or runs on another *)
(* core than core 2; and a call, between its test and its look or while it *)
(* holds a queue or waits for a semaphore, under which the driver was      *)
(* removed.  A call that begins and ends on a bound driver finds its table.*)
FaultHasCause ==
  /\ fault = "memory" => ipc \in {"rm_cpu1", "rm_dsp", "rm_clear"}
  /\ fault = "table" =>
       \/ ipc \in {"dma", "dma_failed", "rm_null"}
       \/ user = "tested" /\ ~undisturbed
  /\ fault = "queue" => user = "stale" /\ ~undisturbed
  /\ fault = "cdev" => ipc = "cdev"
  /\ fault = "text" => ipc # "bound"
  /\ fault = "cc_dev" => cc = "unbound"
  /\ fault = "offset" => ~OnCore2

(* A bound driver hears both other cores, whatever happened in earlier     *)
(* lives, as long as the communicator stays.                               *)
BothCoresServed ==
  ipc = "bound" /\ steady => handler["cpu1"] = "ipc" /\ handler["dsp"] = "ipc"

(* A driver that is not bound has no device number, no node and no         *)
(* character device: neither a failed probe nor a remove leaves anything a *)
(* process could open.                                                     *)
NothingReachable == ipc = "unbound" => res \subseteq {"class"}

(* The class that a failed device_create leaves behind is there for good:  *)
(* no later probe succeeds, not even after the module was loaded anew.     *)
LeakedClassIsFinal ==
  [](ipc = "unbound" /\ "class" \in res => [](ipc # "bound"))

(* An event bit goes by its acknowledgement, or because the event came     *)
(* while ipc_cc_open had read the register and not written it back, or     *)
(* with the CLEAR_ACK of a user's message: nothing prevents either.        *)
EventKept ==
  [][\A c \in Others :
       c \in sts /\ c \notin sts' =>
         \/ irq.at = "ack" /\ IrqCore = c
         \/ cc = "write" /\ c \notin stsRead
         \/ OnCore2 /\ ipc_cc_dev = "live" /\ user = "holds" /\ user' = "none"
    ]_lifeVars

=============================================================================
