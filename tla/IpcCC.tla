-------------------------------- MODULE IpcCC --------------------------------
(***************************************************************************)
(* The core communicator of ipc-cc.c: its probe and remove, the            *)
(* table of handlers, the status and interrupt enable registers, and the   *)
(* interrupt handler up to the call of a registered function.  What that   *)
(* function does, and who registers it, is in IpcLife.                     *)
(*                                                                         *)
(* One processor runs Linux: a thread does nothing while the interrupt     *)
(* handler runs, but the other cores go on, and an interrupt may come      *)
(* between any two steps of a thread.                                      *)
(*                                                                         *)
(* cc is where the driver is in its life:                                  *)
(*   "unbound"  "setup"  request the interrupt                             *)
(*   "read", "write", "enable"   the register accesses of ipc_cc_open      *)
(*   "bound"    "closed" interrupts are off, devm has not freed anything   *)
(***************************************************************************)
EXTENDS Integers

Cores == {"cpu1", "cpu2", "dsp"}

CONSTANTS
  running_core, \* run-core of the device tree, or IPC_CC_DEFAULT_RUN_CORE
  Polite,      \* other cores that wait for the acknowledgement of a command
  MaxDepth     \* bound: how often the interrupt is disabled at once

Others == Cores \ {running_core}

ASSUME CCAssumption ==
  running_core \in Cores /\ Polite \subseteq Others /\ MaxDepth \in Nat

(* Probe, remove and the sending of commands touch registers on core 2     *)
(* alone; for the other two the cases of their switches are empty.         *)
OnCore2 == running_core = "cpu2"

NotRequested == -1

VARIABLES
  cc,           \* see above
  ipc_cc_dev,   \* the pointer: "null", "live", or "freed" and still set
  handler,      \* per core "null", "ipc", or "stale": code that is gone
  depth,        \* how often the requested interrupt is disabled
  sts,          \* cores whose event bit is set in the status register
  inten,        \* cores whose events interrupt
  stsRead,      \* the status register as ipc_cc_open read it
  irq,          \* the interrupt handler: its step, and the events it read
  cmd,          \* the last command of each other core, see below
  fault         \* the first use of something that is not there, or "none"

ccVars == <<cc, ipc_cc_dev, handler, depth, sts, inten, stsRead, irq, cmd, fault>>

devVars == <<cc, ipc_cc_dev, handler, depth>>
regVars == <<sts, inten, stsRead>>
evtVars == <<irq, cmd>>

(* A command is "sent", then "posted" to a queue, then "idle" when it is   *)
(* acknowledged; "early" if the acknowledgement came first, and "twice" if *)
(* it was posted again.                                                    *)
CmdState == {"idle", "sent", "posted", "early", "twice"}

NoIrq == [at |-> "none", todo |-> {}]

CCInit ==
  /\ cc = "unbound"
  /\ ipc_cc_dev = "null"
  /\ handler = [c \in Cores |-> "null"]
  /\ depth = NotRequested
  /\ sts = {} /\ inten = {} /\ stsRead = {}
  /\ irq = NoIrq
  /\ cmd = [c \in Others |-> "idle"]
  /\ fault = "none"

-----------------------------------------------------------------------------
(***************************************************************************)
(* ipc_cc_probe.  The pointer is set before anything else is there; when a *)
(* later step fails, devm frees what it points to.                         *)
(***************************************************************************)
CcAlloc ==
  /\ cc = "unbound"
  /\ cc' = "setup"
  /\ ipc_cc_dev' = "live"
  /\ handler' = [c \in Cores |-> "null"]
  /\ UNCHANGED <<depth, regVars, evtVars, fault>>

CcAllocFails ==
  /\ cc = "unbound"
  /\ ipc_cc_dev' = "null"
  /\ UNCHANGED <<cc, handler, depth, regVars, evtVars, fault>>

(* No memory resource, no interrupt, no mapping, or it cannot be requested.*)
CcSetupFails ==
  /\ cc = "setup"
  /\ cc' = "unbound"
  /\ ipc_cc_dev' = "freed"
  /\ UNCHANGED <<handler, depth, regVars, evtVars, fault>>

(* ipc_cc_open is next, which has nothing to do but on core 2.             *)
CcRequestIrq ==
  /\ cc = "setup"
  /\ cc' = IF OnCore2 THEN "read" ELSE "bound"
  /\ depth' = 0
  /\ UNCHANGED <<ipc_cc_dev, handler, regVars, evtVars, fault>>

(* ipc_cc_open clears the acknowledge bits by reading the register and     *)
(* writing it back: the event bits become what they were when it was read. *)
CcOpenRead ==
  /\ cc = "read"
  /\ cc' = "write"
  /\ stsRead' = sts
  /\ UNCHANGED <<ipc_cc_dev, handler, depth, sts, inten, evtVars, fault>>

(* Variant: zero is written.                                               *)
CcOpenWriteZero ==
  /\ cc = "write"
  /\ cc' = "enable"
  /\ sts' = {}
  /\ stsRead' = {}
  /\ UNCHANGED <<ipc_cc_dev, handler, depth, inten, evtVars, fault>>

CcOpenWrite ==
  /\ cc = "write"
  /\ cc' = "enable"
  /\ sts' = stsRead
  /\ stsRead' = {}
  /\ UNCHANGED <<ipc_cc_dev, handler, depth, inten, evtVars, fault>>

CcOpenEnable ==
  /\ cc = "enable"
  /\ cc' = "bound"
  /\ inten' = (inten \ {"cpu2"}) \cup {"cpu1", "dsp"}
  /\ UNCHANGED <<ipc_cc_dev, handler, depth, sts, stsRead, evtVars, fault>>

(***************************************************************************)
(* ipc_cc_remove is ipc_cc_close; then devm frees the interrupt and the    *)
(* memory.  The pointer stays.                                             *)
(***************************************************************************)
(* Variant: close forgets one of the two cores.                            *)
CcCloseOne ==
  /\ cc = "bound"
  /\ cc' = "closed"
  /\ inten' = inten \ {"cpu1"}
  /\ UNCHANGED <<ipc_cc_dev, handler, depth, sts, stsRead, evtVars, fault>>

CcClose ==
  /\ cc = "bound"
  /\ cc' = "closed"
  /\ inten' = IF OnCore2 THEN inten \ {"cpu1", "dsp"} ELSE inten
  /\ UNCHANGED <<ipc_cc_dev, handler, depth, sts, stsRead, evtVars, fault>>

CcFree ==
  /\ cc = "closed"
  /\ cc' = "unbound"
  /\ ipc_cc_dev' = "freed"
  /\ depth' = NotRequested
  /\ UNCHANGED <<handler, regVars, evtVars, fault>>

-----------------------------------------------------------------------------
(***************************************************************************)
(* Calls of other drivers.  All of them give up on a null pointer and use  *)
(* one that is set, whatever it points to.                                 *)
(***************************************************************************)
UseFreedCC ==
  /\ ipc_cc_dev = "freed"
  /\ fault' = "cc_dev"
  /\ UNCHANGED <<devVars, regVars, evtVars>>

ipc_cc_register_handler(core) ==
  /\ ipc_cc_dev = "live"
  /\ handler' = [handler EXCEPT ![core] = "ipc"]

(* The entry of the core that runs is cleared, not that of core.           *)
ipc_cc_unregister_handler(core) ==
  /\ ipc_cc_dev = "live"
  /\ handler' = [handler EXCEPT ![running_core] = "null"]

ipc_cc_suspend ==
  /\ ipc_cc_dev = "live"
  /\ depth \in 0 .. MaxDepth - 1
  /\ depth' = depth + 1
  /\ UNCHANGED <<cc, ipc_cc_dev, handler, regVars, evtVars, fault>>

ipc_cc_resume ==
  /\ ipc_cc_dev = "live"
  /\ depth > 0
  /\ depth' = depth - 1
  /\ UNCHANGED <<cc, ipc_cc_dev, handler, regVars, evtVars, fault>>

(* On core 2 a command begins with CLEAR_ACK, a word that no file defines, *)
(* stored over the whole status register: which events survive depends on  *)
(* it.  On another core everything is written to offsets nobody has set.   *)
ipc_cc_send_cmd ==
  /\ ipc_cc_dev = "live"
  /\ IF OnCore2 THEN sts' \in SUBSET sts /\ UNCHANGED fault
                ELSE fault' = "offset" /\ UNCHANGED sts

(* The device takes the event back and tells the other core.               *)
ipc_cc_send_ack(core) ==
  /\ sts' = sts \ {core}
  /\ cmd' = [cmd EXCEPT ![core] = IF @ = "posted" THEN "idle" ELSE "early"]

-----------------------------------------------------------------------------
(***************************************************************************)
(* Another core sends a command, over one that has not been taken if it is *)
(* not polite (ipc-cc.c "need wait for previous tx ack ready TODO").       *)
(***************************************************************************)
CoreSends(c) ==
  /\ c \in Polite => cmd[c] = "idle"
  /\ cmd' = [cmd EXCEPT ![c] = "sent"]
  /\ sts' = sts \cup {c}
  /\ UNCHANGED <<devVars, inten, stsRead, irq, fault>>

(***************************************************************************)
(* ipc_cc_irq_handler: one look at the registers, then one core after the  *)
(* other, core 1 first.  An event that is not acknowledged interrupts      *)
(* again.                                                                  *)
(***************************************************************************)
IrqEnter ==
  /\ irq.at = "none"
  /\ depth = 0
  /\ sts \cap inten # {}
  /\ irq' = [at |-> "call", todo |-> sts \cap inten]
  /\ UNCHANGED <<devVars, regVars, cmd, fault>>

IrqCore == IF "cpu1" \in irq.todo THEN "cpu1" ELSE "dsp"

(* The function for this core has returned, or there was none.             *)
NextCore ==
  LET rest == irq.todo \ {IrqCore}
  IN  irq' = IF rest = {} THEN NoIrq ELSE [at |-> "call", todo |-> rest]

IrqNoHandler ==
  /\ irq.at = "call"
  /\ handler[IrqCore] = "null"
  /\ NextCore
  /\ UNCHANGED <<devVars, regVars, cmd, fault>>

IrqStaleHandler ==
  /\ irq.at = "call"
  /\ handler[IrqCore] = "stale"
  /\ fault' = "text"
  /\ UNCHANGED <<devVars, regVars, evtVars>>

-----------------------------------------------------------------------------

CcThread ==
  \/ CcAlloc
  \/ CcAllocFails
  \/ CcSetupFails
  \/ CcRequestIrq
  \/ CcOpenRead
  \/ CcOpenWrite
  \/ CcOpenEnable
  \/ CcClose
  \/ CcFree
  \/ ipc_cc_suspend
  \/ ipc_cc_resume

CcIrq == IrqEnter \/ IrqNoHandler \/ IrqStaleHandler

-----------------------------------------------------------------------------
(***************************************************************************)
(* Properties.                                                             *)
(***************************************************************************)
CCTypeOK ==
  /\ cc \in {"unbound", "setup", "read", "write", "enable", "bound", "closed"}
  /\ ipc_cc_dev \in {"null", "live", "freed"}
  /\ handler \in [Cores -> {"null", "ipc", "stale"}]
  /\ depth \in NotRequested .. MaxDepth
  /\ sts \subseteq Others /\ inten \subseteq Others /\ stsRead \subseteq Others
  /\ irq.at \in {"none", "call", "post", "ack"}
  /\ irq.todo \subseteq Others /\ (irq.at = "none" <=> irq.todo = {})
  /\ cmd \in [Others -> CmdState]

(* No event can interrupt while nobody has requested the interrupt or the  *)
(* memory its handler works on is gone, over all probes that fail and all  *)
(* removals: ipc_cc_close undoes what ipc_cc_open did.                     *)
EnabledHasHandler ==
  inten # {} => depth # NotRequested /\ ipc_cc_dev = "live"

(* A command of a core that waits for its acknowledgement is put into a    *)
(* queue once and acknowledged after that, however often its interrupt is  *)
(* taken, refused because the queue is full, and taken again.              *)
PoliteServedOnce == \A c \in Polite : cmd[c] \in {"idle", "sent", "posted"}

=============================================================================
