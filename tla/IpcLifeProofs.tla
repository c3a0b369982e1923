---------------------------- MODULE IpcLifeProofs ----------------------------
(***************************************************************************)
(* Theorems about the life cycle of IpcLife, on whichever core it runs,    *)
(* whichever other cores wait for acknowledgements and however often the   *)
(* interrupt is disabled at once.                                          *)
(***************************************************************************)
EXTENDS IpcLife, TLAPS

-----------------------------------------------------------------------------
(***************************************************************************)
(* Interrupts of the communicator.                                         *)
(***************************************************************************)

(* Interrupts are enabled by the last step of ipc_cc_open and disabled by  *)
(* ipc_cc_close; in between the interrupt is requested and the memory its  *)
(* handler works on is there.  On other cores than core 2 they never are.  *)
IrqInv ==
  /\ inten \subseteq Others
  /\ depth \in Int
  /\ cc \in {"unbound", "setup", "read", "write", "enable", "bound", "closed"}
  /\ cc # "bound" => inten = {}
  /\ ~OnCore2 => inten = {} /\ cc \notin {"read", "write", "enable"}
  /\ cc \in {"read", "write", "enable", "bound", "closed"} => depth >= 0
  /\ cc = "unbound" <=> ipc_cc_dev # "live"

(* What the communicator does by itself.                                   *)
LEMMA CcThreadIrq ==
  ASSUME IrqInv, CcThread
  PROVE  IrqInv'
<1>1. CASE CcAlloc \/ CcAllocFails \/ CcSetupFails \/ CcRequestIrq
  BY <1>1 DEF IrqInv, CcAlloc, CcAllocFails, CcSetupFails, CcRequestIrq, regVars
<1>2. CASE CcOpenRead \/ CcOpenWrite \/ CcOpenEnable
  BY <1>2
  DEF IrqInv, CcOpenRead, CcOpenWrite, CcOpenEnable, Others, Cores, OnCore2
<1>3. CASE CcClose
  BY <1>3 DEF IrqInv, CcClose, Others, Cores, OnCore2
<1>4. CASE CcFree
  BY <1>4 DEF IrqInv, CcFree, regVars, NotRequested
<1>5. CASE ipc_cc_suspend \/ ipc_cc_resume
  BY <1>5 DEF IrqInv, ipc_cc_suspend, ipc_cc_resume, regVars
<1>6. QED
  BY <1>1, <1>2, <1>3, <1>4, <1>5 DEF CcThread

(* Everything else leaves its state and its enable register alone.         *)
LEMMA OthersKeepIrq ==
  ASSUME [LifeNext]_lifeVars
  PROVE  CcThread \/ UNCHANGED <<cc, ipc_cc_dev, depth, inten>>
<1> USE DEF devVars, regVars, ccVars
<1>1. CASE ProbeOrRemove
  BY <1>1
  DEF ProbeOrRemove, ProbeRegion, ProbeClass, ProbeNode, ProbeCdev, ProbeCdevNull,
      ProbeCtrl, ProbeMap, ProbeHandlers, ProbeRegister, InitAlloc, InitTable,
      InitFailed, Unwind, UnwindHandler, UnwindCtrl, UnwindCdev, UnwindNode,
      UnwindClass, UnwindRegion, RemoveDevice, RemoveMap, RemoveHandlers,
      ExitQueues, ExitFree, ExitNull, Fault
<1>2. CASE Unload \/ Load \/ CallsFreedCC \/ User
  BY <1>2
  DEF Unload, Load, CallsFreedCC, UseFreedCC, User, UserOpen, UserClose, UserTests,
      UserFinds, UserNoTable, UserReturns, UserWakesLate, UserSends, ipc_cc_send_cmd,
      UserSendsFreedCC, Fault
<1>3. CASE Handler \/ CcIrq
  BY <1>3
  DEF Handler, HandlerNoQueue, HandlerFinds, HandlerNoTable, HandlerNoMemory,
      HandlerRefused, HandlerPosts, HandlerAcks, Fault, CcIrq, IrqEnter,
      IrqNoHandler, IrqStaleHandler
<1>4. CASE \E c \in Others : CoreSends(c)
  BY <1>4 DEF CoreSends
<1>5. CASE UNCHANGED lifeVars
  BY <1>5 DEF lifeVars
<1>6. QED
  BY <1>1, <1>2, <1>3, <1>4, <1>5 DEF LifeNext

(* The invariant of the communicator under LifeSpec.                       *)
LEMMA IrqInvariant == LifeSpec => []IrqInv
<1>1. LifeInit => IrqInv
  BY DEF LifeInit, CCInit, IrqInv, NotRequested
<1>2. IrqInv /\ [LifeNext]_lifeVars => IrqInv'
  <2> SUFFICES ASSUME IrqInv, [LifeNext]_lifeVars PROVE IrqInv'
    OBVIOUS
  <2>1. CASE UNCHANGED <<cc, ipc_cc_dev, depth, inten>>
    BY <2>1 DEF IrqInv
  <2>2. QED
    BY <2>1, OthersKeepIrq, CcThreadIrq
<1>3. QED
  BY <1>1, <1>2, PTL DEF LifeSpec

(* Over all probes that fail and all removals, nothing interrupts while    *)
(* the interrupt is not requested or the memory of its handler is gone.    *)
THEOREM EnabledHasItsHandler == LifeSpec => []EnabledHasHandler
<1>1. IrqInv => EnabledHasHandler
  BY DEF IrqInv, EnabledHasHandler, NotRequested
<1>2. QED
  BY <1>1, IrqInvariant, PTL

-----------------------------------------------------------------------------
(***************************************************************************)
(* What a probe registers.                                                 *)
(***************************************************************************)

(* At each step of ipc_probe, of its labels and of ipc_remove: what may be *)
(* registered then.  A class may be left from an earlier life.             *)
Registered ==
  [at \in {"unbound", "bound"} \cup Probing \cup Failed \cup Removing |->
     CASE at = "unbound" -> {"class"}
       [] at \in {"class", "node", "FAILED_CREATE_CLASS_DEVICE",
                  "FAILED_CREATE_DEVICE"} -> {"class", "region"}
       [] at \in {"cdev", "FAILED_CDEV_ALLOC"} -> {"class", "region", "node"}
       [] at \in Removing -> {}
       [] OTHER -> {"class", "region", "node", "cdev"}]

ResInv == ipc \in DOMAIN Registered /\ res \subseteq Registered[ipc]

(* The steps of the driver that go elsewhere, or register something.       *)
LEMMA DriverKeepsRes ==
  ASSUME ResInv, ProbeOrRemove
  PROVE  ResInv'
<1> USE DEF ResInv, Registered, Probing, Failed, Removing, Go
<1>1. CASE ProbeRegion \/ ProbeClass \/ ProbeNode \/ ProbeCdev
  BY <1>1 DEF ProbeRegion, ProbeClass, ProbeNode, ProbeCdev
<1>2. CASE ProbeCdevNull \/ ProbeCtrl \/ ProbeMap \/ ProbeHandlers
  BY <1>2 DEF ProbeCdevNull, ProbeCtrl, ProbeMap, ProbeHandlers, ProbeRegister, Fault,
              ipcVars
<1>3. CASE InitAlloc \/ InitTable \/ InitFailed
  BY <1>3 DEF InitAlloc, InitTable, InitFailed
<1>4. CASE Unwind
  BY <1>4
  DEF Unwind, UnwindHandler, UnwindCtrl, UnwindCdev, UnwindNode, UnwindClass,
      UnwindRegion
<1>5. CASE \/ RemoveDevice \/ RemoveMap \/ RemoveHandlers
           \/ ExitQueues \/ ExitFree \/ ExitNull
  BY <1>5 DEF RemoveDevice, RemoveMap, RemoveHandlers, ExitQueues, ExitFree, ExitNull
<1>6. QED
  BY <1>1, <1>2, <1>3, <1>4, <1>5 DEF ProbeOrRemove

(* Nobody else moves the driver or registers for it.                       *)
LEMMA OthersKeepRes ==
  ASSUME [LifeNext]_lifeVars
  PROVE  ProbeOrRemove \/ UNCHANGED <<ipc, res>>
<1> USE DEF ipcVars
<1>1. CASE Unload \/ Load \/ CallsFreedCC \/ User
  BY <1>1
  DEF Unload, Load, CallsFreedCC, User, UserOpen, UserClose, UserTests, UserFinds,
      UserNoTable, UserReturns, UserWakesLate, UserSends, ipc_cc_send_cmd,
      UserSendsFreedCC, Fault
<1>2. CASE Handler
  BY <1>2
  DEF Handler, HandlerNoQueue, HandlerFinds, HandlerNoTable, HandlerNoMemory,
      HandlerRefused, HandlerPosts, HandlerAcks, Fault
<1>3. QED
  BY <1>1, <1>2 DEF LifeNext, lifeVars

(* The invariant of what is registered.                                    *)
LEMMA ResInvariant == LifeSpec => []ResInv
<1>1. LifeInit => ResInv
  BY DEF LifeInit, ResInv, Registered
<1>2. ResInv /\ [LifeNext]_lifeVars => ResInv'
  BY OthersKeepRes, DriverKeepsRes DEF ResInv
<1>3. QED
  BY <1>1, <1>2, PTL DEF LifeSpec

(* A driver that is not bound, because ipc_probe failed anywhere or        *)
(* ipc_remove is done, has left nothing that a process could open.         *)
THEOREM NothingStaysReachable == LifeSpec => []NothingReachable
<1>1. ResInv => NothingReachable
  BY DEF ResInv, Registered, NothingReachable
<1>2. QED
  BY <1>1, ResInvariant, PTL

-----------------------------------------------------------------------------
(***************************************************************************)
(* The class that stays.                                                   *)
(***************************************************************************)

(* Where a driver gets that finds the name of its class taken.             *)
ClassTaken ==
  /\ "class" \in res
  /\ ipc \in {"unbound", "class",
              "FAILED_CREATE_CLASS_DEVICE", "FAILED_CREATE_DEVICE"}
  /\ ipc = "FAILED_CREATE_CLASS_DEVICE" => cls = "error"

(* Nobody but the driver changes that, nor does unloading it.              *)
LEMMA OthersKeepClass ==
  ASSUME [LifeNext]_lifeVars
  PROVE  ProbeOrRemove \/ Unload \/ UNCHANGED <<ipc, res, cls>>
<1> USE DEF ipcVars
<1>1. CASE Load \/ CallsFreedCC \/ User
  BY <1>1
  DEF Load, CallsFreedCC, User, UserOpen, UserClose, UserTests, UserFinds,
      UserNoTable, UserReturns, UserWakesLate, UserSends, ipc_cc_send_cmd,
      UserSendsFreedCC, Fault
<1>2. CASE Handler
  BY <1>2
  DEF Handler, HandlerNoQueue, HandlerFinds, HandlerNoTable, HandlerNoMemory,
      HandlerRefused, HandlerPosts, HandlerAcks, Fault
<1>3. QED
  BY <1>1, <1>2 DEF LifeNext, lifeVars

(* The driver fails at class_create, and its labels spare the class.       *)
LEMMA TakenStays == ClassTaken /\ [LifeNext]_lifeVars => ClassTaken'
<1> SUFFICES ASSUME ClassTaken, [LifeNext]_lifeVars PROVE ClassTaken'
  OBVIOUS
<1>1. CASE UNCHANGED <<ipc, res, cls>>
  BY <1>1 DEF ClassTaken
<1>2. CASE Unload
  BY <1>2 DEF ClassTaken, Unload
<1>3. CASE ProbeOrRemove
  <2>1. ProbeRegion \/ ProbeClass \/ UnwindClass \/ UnwindRegion
    BY <1>3
    DEF ClassTaken, Go, ProbeOrRemove, ProbeNode, ProbeCdev, ProbeCdevNull, ProbeCtrl,
        ProbeMap, ProbeHandlers, ProbeRegister, InitAlloc, InitTable, InitFailed,
        Unwind, UnwindHandler, UnwindCtrl, UnwindCdev, UnwindNode, RemoveDevice,
        RemoveMap, RemoveHandlers, ExitQueues, ExitFree, ExitNull
  <2>2. QED
    BY <2>1 DEF ClassTaken, Go, ProbeRegion, ProbeClass, UnwindClass, UnwindRegion
<1>4. QED
  BY <1>1, <1>2, <1>3, OthersKeepClass

(* After a failed device_create has left the class behind, the driver is   *)
(* never bound again.                                                      *)
THEOREM LeakedClassStays == LifeSpec => LeakedClassIsFinal
<1>1. ipc = "unbound" /\ "class" \in res => ClassTaken
  BY DEF ClassTaken
<1>2. ClassTaken => ipc # "bound"
  BY DEF ClassTaken
<1>3. QED
  BY <1>1, <1>2, TakenStays, PTL DEF LifeSpec, LeakedClassIsFinal

-----------------------------------------------------------------------------
(***************************************************************************)
(* The table of handlers.                                                  *)
(***************************************************************************)

(* From their registration on the handlers are there, while the            *)
(* communicator is the one the probe began with, and are not those of a    *)
(* module that is gone, whatever the communicator does.                    *)
HandlerInv ==
  /\ handler \in [Cores -> {"null", "ipc", "stale"}]
  /\ ipc \in {"dsp", "init", "dma", "bound"} => handler["cpu1"] # "stale"
  /\ ipc \in {"init", "dma", "bound"} => handler["dsp"] # "stale"
  /\ steady /\ ipc \in {"dsp", "init", "dma", "bound"} => handler["cpu1"] = "ipc"
  /\ steady /\ ipc \in {"init", "dma", "bound"} => handler["dsp"] = "ipc"

(* The communicator wipes the table when it is probed, and only then.      *)
LEMMA CcKeepsHandlers ==
  ASSUME IrqInv, HandlerInv, CcThread,
         steady' = (steady /\ ipc_cc_dev' = ipc_cc_dev), UNCHANGED ipc
  PROVE  HandlerInv'
<1>1. CASE CcAlloc
  BY <1>1 DEF IrqInv, HandlerInv, CcAlloc, Cores
<1>2. CASE UNCHANGED handler
  BY <1>2 DEF HandlerInv
<1>3. QED
  BY <1>1, <1>2
  DEF CcThread, CcAllocFails, CcSetupFails, CcRequestIrq, CcOpenRead, CcOpenWrite,
      CcOpenEnable, CcClose, CcFree, ipc_cc_suspend, ipc_cc_resume

(* The driver registers them one after the other, and unregistering clears *)
(* the entry of this core only.                                              *)
LEMMA DriverHandlers ==
  ASSUME HandlerInv, ProbeOrRemove
  PROVE  HandlerInv'
<1> USE CCAssumption DEF HandlerInv, Go, ccVars, devVars, Cores
<1>1. CASE ProbeRegion \/ ProbeClass \/ ProbeNode \/ ProbeCdev \/ ProbeCdevNull
  BY <1>1 DEF ProbeRegion, ProbeClass, ProbeNode, ProbeCdev, ProbeCdevNull, Fault,
              ipcVars
<1>2. CASE ProbeCtrl \/ ProbeMap \/ InitAlloc \/ InitTable \/ InitFailed
  BY <1>2 DEF ProbeCtrl, ProbeMap, InitAlloc, InitTable, InitFailed
<1>3. CASE ProbeHandlers
  BY <1>3 DEF ProbeHandlers, ProbeRegister, ipc_cc_register_handler
<1>4. CASE Unwind
  BY <1>4
  DEF Unwind, UnwindHandler, UnwindCtrl, UnwindCdev, UnwindNode, UnwindClass,
      UnwindRegion, ipc_cc_unregister_handler
<1>5. CASE RemoveDevice \/ RemoveMap \/ ExitQueues \/ ExitFree \/ ExitNull
  BY <1>5 DEF RemoveDevice, RemoveMap, ExitQueues, ExitFree, ExitNull
<1>6. CASE RemoveHandlers
  BY <1>6 DEF RemoveHandlers, ipc_cc_unregister_handler
<1>7. QED
  BY <1>1, <1>2, <1>3, <1>4, <1>5, <1>6 DEF ProbeOrRemove

(* The steps of all others.                                                *)
LEMMA OthersKeepHandlers ==
  ASSUME [LifeNext]_lifeVars
  PROVE  \/ ProbeOrRemove
         \/ Unload
         \/ CcThread /\ steady' = (steady /\ ipc_cc_dev' = ipc_cc_dev) /\ UNCHANGED ipc
         \/ UNCHANGED <<handler, steady, ipc>>
<1> USE DEF ccVars, devVars, ipcVars
<1>1. CASE Load \/ CallsFreedCC \/ User
  BY <1>1
  DEF Load, CallsFreedCC, UseFreedCC, User, UserOpen, UserClose, UserTests,
      UserFinds, UserNoTable, UserReturns, UserWakesLate, UserSends, ipc_cc_send_cmd,
      UserSendsFreedCC, Fault
<1>2. CASE Handler \/ (CcIrq /\ UNCHANGED ipcVars)
  BY <1>2
  DEF Handler, HandlerNoQueue, HandlerFinds, HandlerNoTable, HandlerNoMemory,
      HandlerRefused, HandlerPosts, HandlerAcks, Fault, CcIrq, IrqEnter,
      IrqNoHandler, IrqStaleHandler
<1>3. CASE \E c \in Others : CoreSends(c) /\ UNCHANGED ipcVars
  BY <1>3 DEF CoreSends
<1>4. QED
  BY <1>1, <1>2, <1>3 DEF LifeNext, lifeVars

(* The invariant of the table of handlers.                                 *)
LEMMA HandlerInvariant == LifeSpec => []HandlerInv
<1>1. LifeInit => HandlerInv
  BY DEF LifeInit, CCInit, HandlerInv
<1>2. IrqInv /\ HandlerInv /\ [LifeNext]_lifeVars => HandlerInv'
  <2> SUFFICES ASSUME IrqInv, HandlerInv, [LifeNext]_lifeVars PROVE HandlerInv'
    OBVIOUS
  <2>1. CASE Unload
    BY <2>1 DEF HandlerInv, Unload
  <2>2. CASE UNCHANGED <<handler, steady, ipc>>
    BY <2>2 DEF HandlerInv
  <2>3. QED
    BY <2>1, <2>2, OthersKeepHandlers, CcKeepsHandlers, DriverHandlers
<1>3. QED
  BY <1>1, <1>2, IrqInvariant, PTL DEF LifeSpec

(* A bound driver hears both other cores while the communicator stays,     *)
(* whatever earlier lives have left in the table of handlers.              *)
THEOREM BothCoresHeard == LifeSpec => []BothCoresServed
<1>1. HandlerInv => BothCoresServed
  BY DEF HandlerInv, BothCoresServed
<1>2. QED
  BY <1>1, HandlerInvariant, PTL

-----------------------------------------------------------------------------
(***************************************************************************)
(* What is there, and when it is used.                                     *)
(***************************************************************************)

(* The steps at which the control block and the shared memory are there,   *)
(* and for each state of the table the steps at which it may be in it.     *)
(* A handler that has found a queue runs before any thread does.           *)
MemoryInv ==
  /\ ipc \in {"map", "cpu1", "dsp", "init", "dma", "bound", "rm_map"} => m_ctrl = "live"
  /\ ipc \in {"cpu1", "dsp", "init", "dma", "bound", "rm_map"} => shm = "mapped"
  /\ ipc = "bound" => g_msqinfo = "ready"
  /\ g_msqinfo = "raw" => ipc = "dma"
  /\ g_msqinfo = "ready" => ipc \in {"bound", "rm_map", "rm_cpu1", "rm_dsp", "rm_clear"}
  /\ g_msqinfo = "cleared" => ipc = "rm_free"
  /\ g_msqinfo = "freed" => ipc \in {"dma_failed", "rm_null"}
  /\ irq.at = "post" => g_msqinfo = "ready"

(* The steps of the driver, while no handler runs.                         *)
LEMMA DriverMemory ==
  ASSUME MemoryInv, ProbeOrRemove, irq.at = "none"
  PROVE  MemoryInv'
<1> USE DEF MemoryInv, Go, ccVars, evtVars, memVars
<1>1. CASE ProbeRegion \/ ProbeClass \/ ProbeNode \/ ProbeCdev \/ ProbeCdevNull
  BY <1>1 DEF ProbeRegion, ProbeClass, ProbeNode, ProbeCdev, ProbeCdevNull, Fault,
              ipcVars
<1>2. CASE ProbeCtrl \/ ProbeMap
  BY <1>2 DEF ProbeCtrl, ProbeMap
<1>3. CASE ProbeHandlers
  BY <1>3 DEF ProbeHandlers, ProbeRegister
<1>4. CASE InitAlloc \/ InitTable \/ InitFailed
  BY <1>4 DEF InitAlloc, InitTable, InitFailed
<1>5. CASE Unwind
  BY <1>5
  DEF Unwind, UnwindHandler, UnwindCtrl, UnwindCdev, UnwindNode, UnwindClass,
      UnwindRegion
<1>6. CASE RemoveDevice \/ RemoveMap \/ RemoveHandlers
  BY <1>6 DEF RemoveDevice, RemoveMap, RemoveHandlers
<1>7. CASE ExitQueues \/ ExitFree \/ ExitNull
  BY <1>7 DEF ExitQueues, ExitFree, ExitNull
<1>8. QED
  BY <1>1, <1>2, <1>3, <1>4, <1>5, <1>6, <1>7 DEF ProbeOrRemove

(* The steps of the interrupt handler.                                     *)
LEMMA HandlerMemory ==
  ASSUME MemoryInv, Handler \/ (CcIrq /\ UNCHANGED ipcVars)
  PROVE  MemoryInv'
<1> USE DEF MemoryInv, ipcVars, evtVars, NextCore, NoIrq
<1>1. CASE HandlerNoQueue \/ HandlerFinds \/ HandlerNoTable
  BY <1>1 DEF HandlerNoQueue, HandlerFinds, HandlerNoTable, Fault
<1>2. CASE HandlerNoMemory \/ HandlerRefused \/ HandlerPosts \/ HandlerAcks
  BY <1>2 DEF HandlerNoMemory, HandlerRefused, HandlerPosts, HandlerAcks, Fault
<1>3. CASE CcIrq /\ UNCHANGED ipcVars
  BY <1>3 DEF CcIrq, IrqEnter, IrqNoHandler, IrqStaleHandler
<1>4. QED
  BY <1>1, <1>2, <1>3 DEF Handler

(* All others.                                                             *)
LEMMA OthersKeepMemory ==
  ASSUME [LifeNext]_lifeVars
  PROVE  \/ ProbeOrRemove /\ irq.at = "none"
         \/ Handler \/ (CcIrq /\ UNCHANGED ipcVars)
         \/ Unload
         \/ UNCHANGED <<ipc, m_ctrl, shm, g_msqinfo, irq>>
<1> USE DEF ccVars, evtVars, ipcVars, memVars
<1>1. CASE Load \/ CallsFreedCC \/ User
  BY <1>1
  DEF Load, CallsFreedCC, UseFreedCC, User, UserOpen, UserClose, UserTests,
      UserFinds, UserNoTable, UserReturns, UserWakesLate, UserSends, ipc_cc_send_cmd,
      UserSendsFreedCC, Fault
<1>2. CASE CcThread /\ UNCHANGED <<ipc, memVars>>
  BY <1>2
  DEF CcThread, CcAlloc, CcAllocFails, CcSetupFails, CcRequestIrq, CcOpenRead,
      CcOpenWrite, CcOpenEnable, CcClose, CcFree, ipc_cc_suspend, ipc_cc_resume
<1>3. CASE \E c \in Others : CoreSends(c) /\ UNCHANGED ipcVars
  BY <1>3 DEF CoreSends
<1>4. QED
  BY <1>1, <1>2, <1>3 DEF LifeNext, ThreadsRun, lifeVars

(* The invariant of what is there.                                         *)
LEMMA MemoryInvariant == LifeSpec => []MemoryInv
<1>1. LifeInit => MemoryInv
  BY DEF LifeInit, CCInit, MemoryInv, NoIrq
<1>2. MemoryInv /\ [LifeNext]_lifeVars => MemoryInv'
  <2> SUFFICES ASSUME MemoryInv, [LifeNext]_lifeVars PROVE MemoryInv'
    OBVIOUS
  <2>1. CASE Unload
    BY <2>1 DEF MemoryInv, Unload, evtVars
  <2>2. CASE UNCHANGED <<ipc, m_ctrl, shm, g_msqinfo, irq>>
    BY <2>2 DEF MemoryInv
  <2>3. QED
    BY <2>1, <2>2, OthersKeepMemory, DriverMemory, HandlerMemory
<1>3. QED
  BY <1>1, <1>2, PTL DEF LifeSpec

(* A call that nobody has disturbed runs on a bound driver, and one that   *)
(* holds a stale pointer was disturbed.                                    *)
CallInv ==
  /\ undisturbed \in BOOLEAN
  /\ undisturbed => ipc = "bound"
  /\ user = "stale" => ~undisturbed

(* The driver leaves "bound" by ipc_remove's first step.                   *)
LEMMA DriverCall ==
  ASSUME CallInv, ProbeOrRemove
  PROVE  CallInv'
<1> USE DEF CallInv, Go, userVars
<1>1. CASE ProbeRegion \/ ProbeClass \/ ProbeNode \/ ProbeCdev \/ ProbeCdevNull
  BY <1>1 DEF ProbeRegion, ProbeClass, ProbeNode, ProbeCdev, ProbeCdevNull, Fault,
              ipcVars
<1>2. CASE ProbeCtrl \/ ProbeMap \/ ProbeHandlers
  BY <1>2 DEF ProbeCtrl, ProbeMap, ProbeHandlers, ProbeRegister
<1>3. CASE InitAlloc \/ InitTable \/ InitFailed
  BY <1>3 DEF InitAlloc, InitTable, InitFailed
<1>4. CASE Unwind
  BY <1>4
  DEF Unwind, UnwindHandler, UnwindCtrl, UnwindCdev, UnwindNode, UnwindClass,
      UnwindRegion
<1>5. CASE RemoveDevice
  <2>1. undisturbed' = FALSE
    BY <1>5 DEF RemoveDevice
  <2>2. QED
    BY <2>1
<1>6. CASE RemoveMap \/ RemoveHandlers
  BY <1>6 DEF RemoveMap, RemoveHandlers
<1>7. CASE ExitQueues \/ ExitFree \/ ExitNull
  BY <1>7 DEF ExitQueues, ExitFree, ExitNull
<1>8. QED
  BY <1>1, <1>2, <1>3, <1>4, <1>5, <1>6, <1>7 DEF ProbeOrRemove

(* The call itself, and everybody else.                                    *)
LEMMA OthersKeepCall ==
  ASSUME CallInv, [LifeNext]_lifeVars, ~ProbeOrRemove
  PROVE  CallInv'
<1> USE DEF CallInv, ipcVars, userVars
<1>1. CASE Unload \/ Load \/ CallsFreedCC
  BY <1>1 DEF Unload, Load, CallsFreedCC, userVars
<1>2. CASE User
  <2>1. CASE UserTests
    <3>1. user' = "tested" /\ undisturbed' = (ipc = "bound") /\ UNCHANGED ipc
      BY <2>1 DEF UserTests
    <3>2. QED
      BY <3>1
  <2>2. CASE UserReturns \/ UserSends
    <3>1. user' = "none" /\ undisturbed' = FALSE
      BY <2>2 DEF UserReturns, UserSends
    <3>2. QED
      BY <3>1
  <2>3. CASE UserOpen \/ UserClose \/ UserFinds
    BY <2>3 DEF UserOpen, UserClose, UserFinds
  <2>4. CASE UserNoTable \/ UserWakesLate \/ UserSendsFreedCC
    BY <2>4 DEF UserNoTable, UserWakesLate, UserSendsFreedCC, Fault
  <2>5. QED
    BY <1>2, <2>1, <2>2, <2>3, <2>4 DEF User
<1>3. CASE Handler
  BY <1>3
  DEF Handler, HandlerNoQueue, HandlerFinds, HandlerNoTable, HandlerNoMemory,
      HandlerRefused, HandlerPosts, HandlerAcks, Fault
<1>4. QED
  BY <1>1, <1>2, <1>3 DEF LifeNext, lifeVars

(* The invariant of the call.                                              *)
LEMMA CallInvariant == LifeSpec => []CallInv
<1>1. LifeInit => CallInv
  BY DEF LifeInit, CallInv
<1>2. CallInv /\ [LifeNext]_lifeVars => CallInv'
  BY DriverCall, OthersKeepCall
<1>3. QED
  BY <1>1, <1>2, PTL DEF LifeSpec

(* The steps that use something which may not be there.                    *)
LEMMA FaultingSteps ==
  ASSUME LifeNext, fault' # fault
  PROVE  /\ UNCHANGED <<ipc, cc>>
         /\ \/ ProbeCdevNull \/ HandlerNoTable \/ HandlerNoMemory
            \/ IrqStaleHandler \/ UseFreedCC \/ UserWakesLate \/ UserNoTable
            \/ UserSends
<1> USE DEF ccVars, ipcVars, devVars
<1>1. CASE ProbeOrRemove
  BY <1>1
  DEF ProbeOrRemove, ProbeRegion, ProbeClass, ProbeNode, ProbeCdev, ProbeCdevNull,
      ProbeCtrl, ProbeMap, ProbeHandlers, ProbeRegister, InitAlloc, InitTable,
      InitFailed, Unwind, UnwindHandler, UnwindCtrl, UnwindCdev, UnwindNode,
      UnwindClass, UnwindRegion, RemoveDevice, RemoveMap, RemoveHandlers,
      ExitQueues, ExitFree, ExitNull, Fault
<1>2. CASE Unload \/ Load \/ CallsFreedCC \/ User
  BY <1>2
  DEF Unload, Load, CallsFreedCC, UseFreedCC, User, UserOpen, UserClose, UserTests,
      UserFinds, UserNoTable, UserReturns, UserWakesLate, UserSends, ipc_cc_send_cmd,
      UserSendsFreedCC, Fault
<1>3. CASE Handler \/ (CcIrq /\ UNCHANGED ipcVars)
  BY <1>3
  DEF Handler, HandlerNoQueue, HandlerFinds, HandlerNoTable, HandlerNoMemory,
      HandlerRefused, HandlerPosts, HandlerAcks, Fault, CcIrq, IrqEnter,
      IrqNoHandler, IrqStaleHandler
<1>4. CASE CcThread
  BY <1>4
  DEF CcThread, CcAlloc, CcAllocFails, CcSetupFails, CcRequestIrq, CcOpenRead,
      CcOpenWrite, CcOpenEnable, CcClose, CcFree, ipc_cc_suspend, ipc_cc_resume
<1>5. CASE \E c \in Others : CoreSends(c)
  BY <1>5 DEF CoreSends
<1>6. QED
  BY <1>1, <1>2, <1>3, <1>4, <1>5 DEF LifeNext

(* A fault is the end, so its cause can be seen from then on.              *)
LEMMA FaultsAreFinal ==
  ASSUME LifeNext
  PROVE  fault = "none"
  BY DEF LifeNext, ThreadsRun

(* Interrupts and user calls, at any moment of ipc_probe, its failures and *)
(* ipc_remove, find what they use in place but at the moments that         *)
(* FaultHasCause names; a call that is stopped anywhere finds its table    *)
(* and its queue as long as the driver stays bound.                        *)
THEOREM FaultsHaveCause == LifeSpec => []FaultHasCause
<1>1. LifeInit => FaultHasCause
  BY DEF LifeInit, CCInit, FaultHasCause
<1>2. IrqInv /\ HandlerInv /\ MemoryInv /\ CallInv /\ FaultHasCause
      /\ [LifeNext]_lifeVars
        => FaultHasCause'
  <2> SUFFICES ASSUME IrqInv, HandlerInv, MemoryInv, CallInv, FaultHasCause,
                      [LifeNext]_lifeVars
               PROVE  FaultHasCause'
    OBVIOUS
  <2>1. CASE UNCHANGED lifeVars
    BY <2>1 DEF FaultHasCause, lifeVars, ccVars, ipcVars
  <2>2. CASE LifeNext /\ UNCHANGED fault
    BY <2>2, FaultsAreFinal DEF FaultHasCause
  <2>3. CASE LifeNext /\ fault' # fault
    <3>1. UNCHANGED <<ipc, cc>>
      BY <2>3, FaultingSteps
    <3>2. CASE ProbeCdevNull \/ UserWakesLate
      BY <3>2 DEF FaultHasCause, CallInv, ProbeCdevNull, UserWakesLate, Fault, ipcVars
    <3>3. CASE HandlerNoTable
      BY <3>1, <3>3 DEF FaultHasCause, MemoryInv, HandlerNoTable, Fault
    <3>4. CASE UserNoTable
      BY <3>1, <3>4 DEF FaultHasCause, MemoryInv, CallInv, UserNoTable, Fault, ipcVars
    <3>5. CASE UserSends
      BY <2>3, <3>5 DEF FaultHasCause, UserSends, ipc_cc_send_cmd
    <3>6. CASE HandlerNoMemory
      BY <3>1, <3>6 DEF FaultHasCause, MemoryInv, HandlerNoMemory, Fault
    <3>7. CASE IrqStaleHandler
      BY <3>1, <3>7 DEF FaultHasCause, HandlerInv, IrqStaleHandler, IrqCore
    <3>8. CASE UseFreedCC
      BY <3>1, <3>8 DEF FaultHasCause, IrqInv, UseFreedCC
    <3>9. QED
      BY <2>3, <3>2, <3>3, <3>4, <3>5, <3>6, <3>7, <3>8, FaultingSteps
  <2>4. QED
    BY <2>1, <2>2, <2>3
<1>3. QED
  BY <1>1, <1>2, IrqInvariant, HandlerInvariant, MemoryInvariant, CallInvariant,
     PTL DEF LifeSpec

-----------------------------------------------------------------------------
(***************************************************************************)
(* Where everybody is.                                                     *)
(***************************************************************************)

(* The handler has events to look at while it runs, and it runs only while *)
(* the communicator is bound.  A register value is waiting to be written   *)
(* back during ipc_cc_open alone.                                          *)
EventTyped ==
  /\ sts \subseteq Others /\ stsRead \subseteq Others
  /\ irq \in [at : {"none", "call", "post", "ack"}, todo : SUBSET Others]
  /\ irq.at = "none" <=> irq.todo = {}
  /\ cmd \in [Others -> CmdState]
  /\ cc # "bound" => irq.at = "none"
  /\ cc # "write" => stsRead = {}
  /\ irq.at # "none" => OnCore2

(* The handler looks at one of the events it has read.                     *)
LEMMA CoreIsOther ==
  ASSUME EventTyped, irq.at # "none"
  PROVE  IrqCore \in irq.todo /\ IrqCore \in Others
  BY DEF EventTyped, IrqCore, Others, Cores, OnCore2

(* The steps that touch the registers, the handler or a command.           *)
LEMMA EventSteps ==
  ASSUME [LifeNext]_lifeVars
  PROVE  \/ UNCHANGED <<cc, sts, stsRead, irq, cmd>>
         \/ CcThread /\ irq.at = "none"
         \/ IrqEnter
         \/ IrqNoHandler \/ HandlerNoQueue \/ HandlerRefused
         \/ HandlerFinds
         \/ HandlerPosts
         \/ HandlerAcks
         \/ \E c \in Others : CoreSends(c)
         \/ UserSends
<1> USE DEF devVars, regVars, evtVars, ccVars
<1>1. CASE ProbeOrRemove
  BY <1>1
  DEF ProbeOrRemove, ProbeRegion, ProbeClass, ProbeNode, ProbeCdev, ProbeCdevNull,
      ProbeCtrl, ProbeMap, ProbeHandlers, ProbeRegister, InitAlloc, InitTable,
      InitFailed, Unwind, UnwindHandler, UnwindCtrl, UnwindCdev, UnwindNode,
      UnwindClass, UnwindRegion, RemoveDevice, RemoveMap, RemoveHandlers,
      ExitQueues, ExitFree, ExitNull, Fault
<1>2. CASE Unload \/ Load \/ CallsFreedCC \/ User
  BY <1>2
  DEF Unload, Load, CallsFreedCC, UseFreedCC, User, UserOpen, UserClose, UserTests,
      UserFinds, UserNoTable, UserReturns, UserWakesLate, UserSendsFreedCC, Fault
<1>3. CASE Handler
  BY <1>3 DEF Handler, HandlerNoTable, HandlerNoMemory, Fault
<1>4. CASE CcIrq
  BY <1>4 DEF CcIrq, IrqStaleHandler
<1>5. QED
  BY <1>1, <1>2, <1>3, <1>4 DEF LifeNext, ThreadsRun, lifeVars

(* The handler is done with a core.                                        *)
LEMMA NextCoreTyped ==
  ASSUME EventTyped, irq.at # "none", NextCore
  PROVE  /\ irq' \in [at : {"none", "call", "post", "ack"}, todo : SUBSET Others]
         /\ irq'.at = "none" <=> irq'.todo = {}
         /\ irq'.todo = irq.todo \ {IrqCore}
         /\ irq'.at \in {"none", "call"}
<1> DEFINE rest == irq.todo \ {IrqCore}
<1>1. CASE rest = {}
  BY <1>1 DEF NextCore, NoIrq
<1>2. CASE rest # {}
  BY <1>2 DEF NextCore, EventTyped
<1>3. QED
  BY <1>1, <1>2

(* The invariant holds over every step.                                    *)
LEMMA EventNextTyped ==
  ASSUME IrqInv, EventTyped, [LifeNext]_lifeVars
  PROVE  EventTyped'
<1>1. CASE UNCHANGED <<cc, sts, stsRead, irq, cmd>>
  BY <1>1 DEF EventTyped
<1>2. CASE CcThread /\ irq.at = "none"
  BY <1>2
  DEF EventTyped, CcThread, CcAlloc, CcAllocFails, CcSetupFails, CcRequestIrq,
      CcOpenRead, CcOpenWrite, CcOpenEnable, CcClose, CcFree, ipc_cc_suspend,
      ipc_cc_resume, regVars, evtVars
<1>3. CASE IrqEnter
  <2>1. irq' = [at |-> "call", todo |-> sts \cap inten] /\ sts \cap inten # {}
    BY <1>3 DEF IrqEnter
  <2>2. cc = "bound" /\ OnCore2
    BY <2>1 DEF IrqInv
  <2>3. UNCHANGED <<cc, sts, stsRead, cmd>>
    BY <1>3 DEF IrqEnter, devVars, regVars
  <2>4. QED
    BY <2>1, <2>2, <2>3 DEF EventTyped
<1>4. CASE IrqNoHandler \/ HandlerNoQueue \/ HandlerRefused
  <2>1. NextCore /\ irq.at # "none" /\ UNCHANGED <<cc, sts, stsRead, cmd>>
    BY <1>4 DEF IrqNoHandler, HandlerNoQueue, HandlerRefused, Called, devVars, regVars
  <2>2. QED
    BY <2>1, NextCoreTyped DEF EventTyped
<1>5. CASE HandlerFinds
  BY <1>5 DEF EventTyped, HandlerFinds, Called, devVars, regVars
<1>6. CASE HandlerPosts
  <2>1. IrqCore \in Others
    BY <1>6, CoreIsOther DEF HandlerPosts
  <2>2. QED
    BY <1>6, <2>1 DEF EventTyped, HandlerPosts, devVars, regVars, CmdState
<1>7. CASE HandlerAcks
  <2>1. irq.at # "none" /\ NextCore /\ UNCHANGED <<cc, stsRead>>
    BY <1>7 DEF HandlerAcks, devVars
  <2>2. sts' \subseteq Others /\ cmd' \in [Others -> CmdState]
    BY <1>7 DEF EventTyped, HandlerAcks, ipc_cc_send_ack, CmdState
  <2>3. QED
    BY <2>1, <2>2, NextCoreTyped DEF EventTyped
<1>8. ASSUME NEW c \in Others, CoreSends(c)
      PROVE  EventTyped'
  BY <1>8 DEF EventTyped, CoreSends, devVars, CmdState
<1>9. CASE UserSends
  BY <1>9 DEF EventTyped, UserSends, ipc_cc_send_cmd, devVars, evtVars
<1>10. QED
  BY <1>1, <1>2, <1>3, <1>4, <1>5, <1>6, <1>7, <1>8, <1>9, EventSteps

(* The invariant of the events under LifeSpec.                             *)
LEMMA EventInvariant == LifeSpec => []EventTyped
<1>1. LifeInit => EventTyped
  BY DEF LifeInit, CCInit, EventTyped, NoIrq, CmdState
<1>2. IrqInv /\ EventTyped /\ [LifeNext]_lifeVars => EventTyped'
  BY EventNextTyped
<1>3. QED
  BY <1>1, <1>2, IrqInvariant, PTL DEF LifeSpec

(* What remains of the types: how often the interrupt is disabled, the     *)
(* pointers of the driver, its user, and that a module which is gone has   *)
(* neither.                                                                *)
DriverTyped ==
  /\ ipc_cc_dev \in {"null", "live", "freed"}
  /\ depth \in NotRequested .. MaxDepth
  /\ cls \in {"null", "valid", "error"}
  /\ m_ctrl \in {"null", "live", "freed"}
  /\ shm \in {"null", "mapped", "unmapped"}
  /\ g_msqinfo \in {"null", "raw", "ready", "cleared", "freed"}
  /\ user \in {"none", "tested", "holds", "stale"}
  /\ undisturbed \in BOOLEAN
  /\ user # "none" => file
  /\ ~loaded => ipc = "unbound" /\ ~file
  /\ fault \in {"none", "cc_dev", "offset", "text", "cdev", "table", "memory", "queue"}

(* The steps of the driver.                                                *)
LEMMA ProbeOrRemoveTyped ==
  ASSUME DriverTyped, ProbeOrRemove
  PROVE  DriverTyped'
<1> USE DEF DriverTyped, Go, ccVars, devVars, memVars, userVars
<1>1. CASE ProbeRegion \/ ProbeClass \/ ProbeNode \/ ProbeCdev
  BY <1>1 DEF ProbeRegion, ProbeClass, ProbeNode, ProbeCdev
<1>2. CASE ProbeCdevNull \/ ProbeCtrl \/ ProbeMap
  BY <1>2 DEF ProbeCdevNull, ProbeCtrl, ProbeMap, Fault, ipcVars
<1>3. CASE ProbeHandlers
  BY <1>3 DEF ProbeHandlers, ProbeRegister
<1>4. CASE InitAlloc \/ InitTable \/ InitFailed
  BY <1>4 DEF InitAlloc, InitTable, InitFailed
<1>5. CASE Unwind
  BY <1>5
  DEF Unwind, UnwindHandler, UnwindCtrl, UnwindCdev, UnwindNode, UnwindClass,
      UnwindRegion
<1>6. CASE RemoveDevice \/ RemoveMap \/ RemoveHandlers
  BY <1>6 DEF RemoveDevice, RemoveMap, RemoveHandlers
<1>7. CASE ExitQueues \/ ExitFree \/ ExitNull
  BY <1>7 DEF ExitQueues, ExitFree, ExitNull
<1>8. QED
  BY <1>1, <1>2, <1>3, <1>4, <1>5, <1>6, <1>7 DEF ProbeOrRemove

(* The communicator.                                                       *)
LEMMA CcThreadTyped ==
  ASSUME DriverTyped, CcThread,
         UNCHANGED <<ipc, loaded, res, cls, memVars, userVars>>
  PROVE  DriverTyped'
<1> USE CCAssumption DEF DriverTyped, memVars, userVars, NotRequested
<1>1. CASE CcAlloc \/ CcAllocFails \/ CcSetupFails \/ CcRequestIrq
  BY <1>1 DEF CcAlloc, CcAllocFails, CcSetupFails, CcRequestIrq
<1>2. CASE CcOpenRead \/ CcOpenWrite \/ CcOpenEnable \/ CcClose \/ CcFree
  BY <1>2 DEF CcOpenRead, CcOpenWrite, CcOpenEnable, CcClose, CcFree
<1>3. CASE ipc_cc_suspend \/ ipc_cc_resume
  BY <1>3 DEF ipc_cc_suspend, ipc_cc_resume
<1>4. QED
  BY <1>1, <1>2, <1>3 DEF CcThread

(* The module and the process: only a device that is there can be opened.  *)
LEMMA UserTyped ==
  ASSUME ResInv, DriverTyped, Unload \/ Load \/ CallsFreedCC \/ User
  PROVE  DriverTyped'
<1> USE DEF DriverTyped, ccVars, devVars, ipcVars, memVars, userVars
<1>1. CASE Unload \/ Load \/ CallsFreedCC
  BY <1>1 DEF Unload, Load, CallsFreedCC, UseFreedCC
<1>2. CASE UserOpen
  BY <1>2 DEF UserOpen, ResInv, Registered
<1>3. CASE UserClose \/ UserTests \/ UserFinds \/ UserReturns
  BY <1>3 DEF UserClose, UserTests, UserFinds, UserReturns
<1>4. CASE UserWakesLate \/ UserNoTable \/ UserSends \/ UserSendsFreedCC
  BY <1>4
  DEF UserWakesLate, UserNoTable, UserSends, ipc_cc_send_cmd, UserSendsFreedCC,
      UseFreedCC, Fault
<1>5. QED
  BY <1>1, <1>2, <1>3, <1>4 DEF User

(* The interrupt handler.                                                  *)
LEMMA HandlerTyped ==
  ASSUME DriverTyped, Handler \/ (CcIrq /\ UNCHANGED ipcVars)
  PROVE  DriverTyped'
<1> USE DEF DriverTyped, devVars, ipcVars
<1>1. CASE HandlerNoQueue \/ HandlerFinds \/ HandlerNoTable \/ HandlerNoMemory
  BY <1>1 DEF HandlerNoQueue, HandlerFinds, HandlerNoTable, HandlerNoMemory, Fault
<1>2. CASE HandlerRefused \/ HandlerPosts \/ HandlerAcks
  BY <1>2 DEF HandlerRefused, HandlerPosts, HandlerAcks
<1>3. CASE CcIrq /\ UNCHANGED ipcVars
  BY <1>3 DEF CcIrq, IrqEnter, IrqNoHandler, IrqStaleHandler
<1>4. QED
  BY <1>1, <1>2, <1>3 DEF Handler

(* The type invariant of LifeSpec: the communicator and the driver are at  *)
(* steps of their own, whatever failed and whatever interrupted, and no    *)
(* process has the device of a module that is gone.                        *)
THEOREM LifeTypesHold == LifeSpec => []LifeTypeOK
<1>1. LifeInit => DriverTyped
  <2> SUFFICES ASSUME LifeInit PROVE DriverTyped
    OBVIOUS
  <2>1. depth \in NotRequested .. MaxDepth
    BY CCAssumption DEF LifeInit, CCInit, NotRequested
  <2>2. QED
    BY <2>1 DEF LifeInit, CCInit, DriverTyped
<1>2. ResInv /\ DriverTyped /\ [LifeNext]_lifeVars => DriverTyped'
  <2> SUFFICES ASSUME ResInv, DriverTyped, [LifeNext]_lifeVars
               PROVE  DriverTyped'
    OBVIOUS
  <2>1. CASE UNCHANGED lifeVars
    BY <2>1 DEF DriverTyped, lifeVars, ccVars, ipcVars
  <2>2. CASE \E c \in Others : CoreSends(c) /\ UNCHANGED ipcVars
    BY <2>2 DEF DriverTyped, CoreSends, devVars, ipcVars
  <2>3. QED
    BY <2>1, <2>2, ProbeOrRemoveTyped, CcThreadTyped, UserTyped, HandlerTyped
    DEF LifeNext
<1>3. IrqInv /\ ResInv /\ HandlerInv /\ EventTyped /\ DriverTyped => LifeTypeOK
  <2> SUFFICES ASSUME IrqInv, ResInv, HandlerInv, EventTyped, DriverTyped
               PROVE  LifeTypeOK
    OBVIOUS
  <2>1. CCTypeOK
    BY DEF IrqInv, HandlerInv, EventTyped, DriverTyped, CCTypeOK
  <2>2. /\ ipc \in {"unbound", "bound"} \cup Probing \cup Failed \cup Removing
        /\ res \subseteq {"region", "class", "node", "cdev"}
    BY DEF ResInv, Registered
  <2>3. QED
    BY <2>1, <2>2 DEF DriverTyped, LifeTypeOK
<1>4. QED
  BY <1>1, <1>2, <1>3, IrqInvariant, ResInvariant, HandlerInvariant, EventInvariant,
     PTL DEF LifeSpec

-----------------------------------------------------------------------------
(***************************************************************************)
(* Commands and their events.                                              *)
(***************************************************************************)

(* The bit of a polite core, in the status register, in the copy that      *)
(* ipc_cc_open holds of it or in what the handler has read, stands for a   *)
(* command that is not acknowledged; and one that is posted is the one the *)
(* handler is about to acknowledge.                                        *)
PoliteInv ==
  \A c \in Polite :
    /\ cmd[c] \in {"idle", "sent", "posted"}
    /\ c \in sts \cup stsRead \cup irq.todo => cmd[c] # "idle"
    /\ cmd[c] = "posted" <=> irq.at = "ack" /\ IrqCore = c

(* A handler that is done with a core without posting has nothing to       *)
(* acknowledge.                                                            *)
LEMMA NextCorePolite ==
  ASSUME EventTyped, PoliteInv, irq.at \in {"call", "post"}, NextCore,
         UNCHANGED <<sts, stsRead, cmd>>
  PROVE  PoliteInv'
<1>1. irq'.todo \subseteq irq.todo /\ irq'.at # "ack"
  BY NextCoreTyped
<1>2. QED
  BY <1>1 DEF PoliteInv

(* The invariant holds over every step.                                    *)
LEMMA PoliteNext ==
  ASSUME IrqInv, EventTyped, PoliteInv, [LifeNext]_lifeVars
  PROVE  PoliteInv'
<1>0. Polite \subseteq Others
  BY CCAssumption
<1>1. CASE UNCHANGED <<cc, sts, stsRead, irq, cmd>>
  BY <1>1 DEF PoliteInv, IrqCore
<1>2. CASE CcThread /\ irq.at = "none"
  <2>1. UNCHANGED evtVars /\ sts' \cup stsRead' \subseteq sts \cup stsRead
    BY <1>2
    DEF CcThread, CcAlloc, CcAllocFails, CcSetupFails, CcRequestIrq, CcOpenRead,
        CcOpenWrite, CcOpenEnable, CcClose, CcFree, ipc_cc_suspend, ipc_cc_resume,
        regVars
  <2>2. QED
    BY <2>1 DEF PoliteInv, IrqCore, evtVars
<1>3. CASE IrqEnter
  BY <1>3 DEF PoliteInv, IrqEnter, regVars
<1>4. CASE IrqNoHandler \/ HandlerNoQueue \/ HandlerRefused
  BY <1>4, NextCorePolite
  DEF IrqNoHandler, HandlerNoQueue, HandlerRefused, Called, regVars
<1>5. CASE HandlerFinds
  BY <1>5 DEF PoliteInv, EventTyped, IrqCore, HandlerFinds, Called, regVars
<1>6. CASE HandlerPosts
  <2>1. irq.at = "post" /\ IrqCore \in irq.todo /\ IrqCore \in Others
    BY <1>6, CoreIsOther DEF HandlerPosts
  <2>2. irq'.at = "ack" /\ irq'.todo = irq.todo /\ IrqCore' = IrqCore
    BY <1>6 DEF HandlerPosts, EventTyped, IrqCore
  <2>3. UNCHANGED <<sts, stsRead>>
    BY <1>6 DEF HandlerPosts, regVars
  <2>4. \A c \in Others : cmd'[c] = IF c = IrqCore
                                    THEN IF cmd[c] = "sent" THEN "posted" ELSE "twice"
                                    ELSE cmd[c]
    BY <1>6, <2>1 DEF HandlerPosts, EventTyped
  <2>5. QED
    BY <1>0, <2>1, <2>2, <2>3, <2>4 DEF PoliteInv
<1>7. CASE HandlerAcks
  <2>1. irq.at = "ack" /\ IrqCore \in irq.todo /\ IrqCore \in Others
    BY <1>7, CoreIsOther DEF HandlerAcks
  <2>2. stsRead = {} /\ UNCHANGED stsRead
    BY <1>7, <2>1 DEF HandlerAcks, EventTyped
  <2>3. irq'.todo = irq.todo \ {IrqCore} /\ irq'.at # "ack"
    BY <1>7, <2>1, NextCoreTyped DEF HandlerAcks
  <2>4. /\ sts' = sts \ {IrqCore}
        /\ \A c \in Others : cmd'[c] = IF c = IrqCore
                                       THEN IF cmd[c] = "posted" THEN "idle" ELSE "early"
                                       ELSE cmd[c]
    BY <1>7, <2>1 DEF HandlerAcks, ipc_cc_send_ack, EventTyped
  <2>5. QED
    BY <1>0, <2>1, <2>2, <2>3, <2>4 DEF PoliteInv
<1>8. ASSUME NEW c \in Others, CoreSends(c)
      PROVE  PoliteInv'
  <2>1. /\ c \in Polite => cmd[c] = "idle"
        /\ sts' = sts \cup {c}
        /\ \A d \in Others : cmd'[d] = IF d = c THEN "sent" ELSE cmd[d]
        /\ UNCHANGED <<stsRead, irq>>
    BY <1>8 DEF CoreSends, EventTyped
  <2>2. QED
    BY <1>0, <2>1 DEF PoliteInv, IrqCore
<1>9. CASE UserSends
  <2>1. sts' \subseteq sts /\ UNCHANGED <<stsRead, irq, cmd>>
    BY <1>9 DEF UserSends, ipc_cc_send_cmd, evtVars
  <2>2. QED
    BY <2>1 DEF PoliteInv, IrqCore
<1>10. QED
  BY <1>1, <1>2, <1>3, <1>4, <1>5, <1>6, <1>7, <1>8, <1>9, EventSteps

(* A core that waits for its acknowledgements has each of its commands put *)
(* into a queue at most once, and acknowledged after that: no bit outlives *)
(* its acknowledgement, not even one that ipc_cc_open writes back.         *)
THEOREM PoliteCoresServedOnce == LifeSpec => []PoliteServedOnce
<1>1. LifeInit => PoliteInv
  <2> SUFFICES ASSUME LifeInit, NEW c \in Polite
               PROVE  /\ cmd[c] = "idle"
                      /\ sts \cup stsRead \cup irq.todo = {}
                      /\ irq.at = "none"
    BY DEF PoliteInv
  <2>1. c \in Others
    BY CCAssumption
  <2>2. QED
    BY <2>1 DEF LifeInit, CCInit, NoIrq
<1>2. IrqInv /\ EventTyped /\ PoliteInv /\ [LifeNext]_lifeVars => PoliteInv'
  BY PoliteNext
<1>3. PoliteInv => PoliteServedOnce
  BY DEF PoliteInv, PoliteServedOnce
<1>4. QED
  BY <1>1, <1>2, <1>3, IrqInvariant, EventInvariant, PTL DEF LifeSpec

(* An event bit goes by its acknowledgement, is overwritten by             *)
(* ipc_cc_open, which had read the register before the event came, or by   *)
(* the CLEAR_ACK with which a user's message is sent on core 2.            *)
THEOREM EventsStay == LifeSpec => EventKept
<1> DEFINE Kept == \A c \in Others :
                     c \in sts /\ c \notin sts' =>
                       \/ irq.at = "ack" /\ IrqCore = c
                       \/ cc = "write" /\ c \notin stsRead
                       \/ OnCore2 /\ ipc_cc_dev = "live"
                          /\ user = "holds" /\ user' = "none"
<1>1. [LifeNext]_lifeVars => [Kept]_lifeVars
  <2> SUFFICES ASSUME [LifeNext]_lifeVars, sts' # sts
               PROVE  Kept
    OBVIOUS
  <2>1. CASE CcThread
    BY <2>1
    DEF CcThread, CcAlloc, CcAllocFails, CcSetupFails, CcRequestIrq, CcOpenRead,
        CcOpenWrite, CcOpenEnable, CcClose, CcFree, ipc_cc_suspend, ipc_cc_resume,
        regVars
  <2>2. CASE HandlerAcks
    BY <2>2 DEF HandlerAcks, ipc_cc_send_ack
  <2>3. CASE \E c \in Others : CoreSends(c)
    BY <2>3 DEF CoreSends
  <2>4. CASE UserSends
    BY <2>4 DEF UserSends, ipc_cc_send_cmd
  <2>5. QED
    BY <2>1, <2>2, <2>3, <2>4, EventSteps
    DEF IrqEnter, IrqNoHandler, HandlerNoQueue, HandlerRefused, HandlerFinds,
        HandlerPosts, regVars
<1>2. QED
  BY <1>1, PTL DEF LifeSpec, EventKept
=============================================================================
