--------------------------- MODULE IpcDriverProofs ---------------------------
(***************************************************************************)
(* Theorems about the character device of IpcDriver, for every set of      *)
(* threads, files, keys and names and every size of the table.             *)
(***************************************************************************)
EXTENDS IpcDriver, IpcMsgqueProofs

Frame == [op : {"none", "get", "rel", "stuck", "close"},
          file : SUBSET Files, id : 0 .. QUEUE_NUM]

DeviceTyped ==
  /\ file \in [Files -> {"closed", "open", "closing"}]
  /\ storequebit \in [Files -> SUBSET Slots]
  /\ ipc_mutex \in Threads \cup {Free}
  /\ call \in [Threads -> Frame]

(* Only a GET has a call of the table with more than one step inside, and  *)
(* when that is over it has returned the id of a slot, or -3.              *)
Fit(t) ==
  /\ call[t].op = "none" => call[t].file = {}
  /\ call[t].op \in {"rel", "stuck", "close"} => pc[t] = "idle"
  /\ call[t].op = "get" /\ pc[t] = "idle" => ret[t] \in Slots \cup {-3}

FramesFit == \A t \in Threads : Fit(t)

(* A file is open while calls run on it, and closing while ipc_release     *)
(* runs on it, alone.                                                      *)
FileUsers ==
  \A t \in Threads, f \in Files :
    f \in call[t].file =>
      /\ file[f] # "closed"
      /\ call[t].op = "close" => file[f] = "closing"

Closers ==
  \A f \in Files :
    file[f] = "closing" =>
      \E t \in Threads :
        /\ f \in call[t].file /\ call[t].op = "close"
        /\ \A u \in Threads \ {t} : f \notin call[u].file

DriverInv == TableInv /\ NoFill /\ DeviceTyped /\ FramesFit /\ FileUsers /\ Closers

-----------------------------------------------------------------------------
(***************************************************************************)
(* The table inside the calls of the device.                               *)
(***************************************************************************)

(* ipc_msgque_rel is one of the calls of the table.                        *)
LEMMA RelIsTableCall ==
  ASSUME NEW t \in Threads, NEW id, id \in MsqIds, ipc_msgque_rel(t, id)
  PROVE  TableNext
  BY DEF ipc_msgque_rel, TableNext, TableCall, ShortCall

(* Ids and slots are among the numbers that callers of rel use.            *)
LEMMA SlotsAreIds == \A n \in 0 .. QUEUE_NUM : n \in MsqIds
  BY DEF MsqIds

(* The loop of ipc_release changes the table by calls of rel.              *)
LEMMA CloseSlotTable ==
  ASSUME DeviceTyped, NEW t \in Threads, CloseSlot(t)
  PROVE  \/ ipc_msgque_rel(t, call[t].id) /\ TableNext
         \/ UNCHANGED tableVars
<1>1. call[t].id \in 0 .. QUEUE_NUM
  BY DEF DeviceTyped, Frame
<1>2. QED
  BY <1>1, SlotsAreIds, RelIsTableCall DEF CloseSlot

(* Every step of the device is one of the table, or leaves it.             *)
LEMMA DriverStepsTable ==
  ASSUME DeviceTyped, [DriverNext]_driverVars
  PROVE  [TableNext]_tableVars
<1>1. ASSUME NEW t \in Threads, NEW f \in Files, NEW k \in Keys, IoctlGet(t, f, k)
      PROVE  TableNext
  BY <1>1 DEF IoctlGet, TableNext, TableCall
<1>2. ASSUME NEW t \in Threads, NEW f \in Files, NEW id \in MsqIds, IoctlRel(t, f, id)
      PROVE  TableNext
  BY <1>2, RelIsTableCall DEF IoctlRel
<1>3. QED
  BY <1>1, <1>2, CloseSlotTable
  DEF DriverNext, ipc_open, Close, DeviceStep, IoctlGetNone, IoctlGetStore,
      IoctlRelClear, CloseDone, TableNext, TableCall, driverVars

(* The invariant of the table.                                             *)
LEMMA DriverTableInv ==
  ASSUME TableInv, NoFill, DeviceTyped, [DriverNext]_driverVars
  PROVE  TableInv' /\ NoFill'
  BY DriverStepsTable, TableNextInv, TableStutters, NextNoFill

(* A call of rel by one thread is over in one step, and leaves the others. *)
LEMMA RelIsOver ==
  ASSUME TableDataOK, NoFill, NEW t \in Threads, NEW id, ipc_msgque_rel(t, id)
  PROVE  /\ pc[t] = "idle" /\ pc' = pc
         /\ \A u \in Threads \ {t} : ret'[u] = ret[u]
<1>1. PICK v : Return(t, v)
  BY DEF ipc_msgque_rel, RelUnregistered, RelDone, RelNoToken
<1>2. pc[t] = "idle"
  BY DEF ipc_msgque_rel, RelUnregistered, RelDone, RelNoToken
<1>3. QED
  BY <1>1, <1>2 DEF TableDataOK, NoFill, Return

(* So does every call and step of the table.                               *)
LEMMA TableStepsAlone ==
  ASSUME TableDataOK, NoFill, NEW t \in Threads, TableCall(t) \/ TableStep(t)
  PROVE  \A u \in Threads \ {t} : pc'[u] = pc[u] /\ ret'[u] = ret[u]
<1>1. CASE \E v : Return(t, v)
  BY <1>1 DEF TableDataOK, NoFill, Return
<1>2. CASE UNCHANGED ret /\ \E p \in InLookup : pc' = [pc EXCEPT ![t] = p]
  BY <1>2 DEF NoFill
<1>3. ScanNext(t) => \/ \E v : Return(t, v)
                     \/ UNCHANGED ret /\ \E p \in InLookup : pc' = [pc EXCEPT ![t] = p]
  BY DEF ScanNext, InLookup
<1>4. TableStep(t) => \/ \E v : Return(t, v)
                      \/ UNCHANGED ret /\ \E p \in InLookup : pc' = [pc EXCEPT ![t] = p]
  BY <1>3 DEF TableStep, ScanSlot, ScanKey, ScanFound, InLookup
<1>5. TableCall(t) => \/ \E v : Return(t, v)
                      \/ UNCHANGED ret /\ \E p \in InLookup : pc' = [pc EXCEPT ![t] = p]
  BY DEF TableCall, ShortCall, ipc_msgque_ftok, GetRefused, GetAtOnce, ScanStart,
         RelUnregistered, RelDone, RelNoToken, InLookup
<1>6. QED
  BY <1>1, <1>2, <1>4, <1>5

(* The loop of ipc_msgque_getIDbyKey ends with an id of a slot, or -3.     *)
LEMMA ScanReturns ==
  ASSUME TableDataOK, NoFill, NEW t \in Threads, TableStep(t), pc'[t] = "idle"
  PROVE  ret'[t] \in Slots \cup {-3}
<1>1. msgQueTbl[loc[t].slot].msqid \in Slots
  BY SlotTypes DEF TableDataOK
<1>2. \A v : Return(t, v) => ret'[t] = v
  BY DEF Return, TableDataOK
<1>3. ScanNext(t) => ret'[t] = -3
  BY <1>2 DEF ScanNext, NoFill
<1>4. ScanSlot(t) \/ ScanKey(t) => ret'[t] = -3
  BY <1>3 DEF ScanSlot, ScanKey, NoFill
<1>5. QED
  BY <1>1, <1>2, <1>4 DEF TableStep, ScanFound

-----------------------------------------------------------------------------
(***************************************************************************)
(* The frames of the device.                                               *)
(***************************************************************************)

(* What a thread has while it runs no operation.                           *)
LEMMA NoCallIsFrame == NoCall \in Frame
  BY SizeAssumption DEF NoCall, Frame

(* A step of one thread, whose new frame fits.                             *)
LEMMA FrameReplaced ==
  ASSUME DeviceTyped, FramesFit, NEW t \in Threads, NEW c \in Frame,
         call' = [call EXCEPT ![t] = c],
         \A u \in Threads \ {t} : pc'[u] = pc[u] /\ ret'[u] = ret[u],
         Fit(t)'
  PROVE  call' \in [Threads -> Frame] /\ FramesFit'
<1>1. \A u \in Threads \ {t} : call'[u] = call[u]
  BY DEF DeviceTyped
<1>2. \A u \in Threads \ {t} : Fit(u)'
  BY <1>1 DEF FramesFit, Fit
<1>3. QED
  BY <1>2 DEF DeviceTyped, FramesFit

(* Types and frames after the steps that leave call.                       *)
LEMMA SameFrames ==
  ASSUME TableInv, NoFill, DeviceTyped, FramesFit, NEW t \in Threads,
         \/ AtRest(t) /\ TableCall(t)
         \/ TableStep(t),
         UNCHANGED <<deviceVars, call>>
  PROVE  DeviceTyped' /\ FramesFit'
<1>1. DeviceTyped'
  BY DEF DeviceTyped, deviceVars
<1>2. TableDataOK
  BY DEF TableInv
<1>3. \A u \in Threads \ {t} : Fit(u)'
  BY <1>2, TableStepsAlone DEF FramesFit, Fit
<1>4. Fit(t)'
  <2>1. CASE AtRest(t)
    BY <2>1 DEF AtRest, NoCall, Fit
  <2>2. CASE TableStep(t)
    <3>1. call[t].op \notin {"rel", "stuck", "close"}
      BY <2>2 DEF TableStep, ScanSlot, ScanKey, ScanFound, FramesFit, Fit
    <3>2. QED
      BY <1>2, <2>2, <3>1, ScanReturns DEF FramesFit, Fit
  <2>3. QED
    BY <2>1, <2>2
<1>5. QED
  BY <1>1, <1>3, <1>4 DEF FramesFit

(* Types and frames after the steps of GET, REL and close.                 *)
LEMMA NewFrames ==
  ASSUME TableInv, NoFill, DeviceTyped, FramesFit, NEW t \in Threads,
         \/ \E f \in Files : \/ \E k \in Keys : IoctlGet(t, f, k)
                             \/ \E id \in MsqIds : IoctlRel(t, f, id)
                             \/ Close(t, f)
         \/ IoctlGetNone(t) \/ IoctlGetStore(t) \/ IoctlRelClear(t)
         \/ CloseSlot(t) \/ CloseDone(t)
  PROVE  DeviceTyped' /\ FramesFit'
<1>1. TableDataOK /\ call[t] \in Frame /\ Fit(t)
  BY DEF TableInv, DeviceTyped, FramesFit
<1>2. ASSUME NEW f \in Files, NEW k \in Keys, IoctlGet(t, f, k)
      PROVE  DeviceTyped' /\ FramesFit'
  <2>1. Call("get", f, 0) \in Frame
    BY SizeAssumption DEF Call, Frame
  <2>2. call' = [call EXCEPT ![t] = Call("get", f, 0)]
    BY <1>2 DEF IoctlGet
  <2>3. \A u \in Threads \ {t} : pc'[u] = pc[u] /\ ret'[u] = ret[u]
    BY <1>1, <1>2, TableStepsAlone DEF IoctlGet, TableCall
  <2>4. Fit(t)'
    BY <1>2, <2>2 DEF IoctlGet, ScanStart, Fit, Call, DeviceTyped, NoFill
  <2>5. QED
    BY <1>2, <2>1, <2>2, <2>3, <2>4, FrameReplaced DEF IoctlGet, DeviceTyped,
                                                       deviceVars
<1>3. ASSUME NEW f \in Files, NEW id \in MsqIds, IoctlRel(t, f, id)
      PROVE  DeviceTyped' /\ FramesFit'
  <2>1. Call("rel", f, id) \in Frame
    BY DEF Call, Frame, MsqIds
  <2>2. call' = [call EXCEPT ![t] = Call("rel", f, id)]
    BY <1>3 DEF IoctlRel
  <2>3. /\ pc'[t] = "idle"
        /\ \A u \in Threads \ {t} : pc'[u] = pc[u] /\ ret'[u] = ret[u]
    BY <1>1, <1>3, RelIsOver DEF IoctlRel
  <2>4. Fit(t)'
    BY <2>2, <2>3 DEF Fit, Call, DeviceTyped
  <2>5. QED
    BY <1>3, <2>1, <2>2, <2>3, <2>4, FrameReplaced DEF IoctlRel, DeviceTyped,
                                                       deviceVars
<1>4. ASSUME NEW f \in Files, Close(t, f)
      PROVE  DeviceTyped' /\ FramesFit'
  <2>1. Call("close", f, 0) \in Frame
    BY SizeAssumption DEF Call, Frame
  <2>2. call' = [call EXCEPT ![t] = Call("close", f, 0)]
    BY <1>4 DEF Close
  <2>3. pc'[t] = "idle" /\ UNCHANGED <<pc, ret>>
    BY <1>4 DEF Close, AtRest, tableVars
  <2>4. Fit(t)'
    BY <2>2, <2>3 DEF Fit, Call, DeviceTyped
  <2>5. file' \in [Files -> {"closed", "open", "closing"}]
    BY <1>4 DEF Close, DeviceTyped
  <2>6. QED
    BY <1>4, <2>1, <2>2, <2>3, <2>4, <2>5, FrameReplaced DEF Close, DeviceTyped
<1>5. CASE IoctlGetNone(t) \/ IoctlGetStore(t) \/ CloseDone(t)
  <2>1. call' = [call EXCEPT ![t] = NoCall] /\ UNCHANGED <<pc, ret>>
    BY <1>5 DEF IoctlGetNone, IoctlGetStore, CloseDone, tableVars
  <2>2. Fit(t)'
    BY <2>1 DEF Fit, NoCall, DeviceTyped
  <2>3. call' \in [Threads -> Frame] /\ FramesFit'
    BY <2>1, <2>2, NoCallIsFrame, FrameReplaced
  <2>4. CASE IoctlGetNone(t)
    BY <2>3, <2>4 DEF IoctlGetNone, DeviceTyped, deviceVars
  <2>5. CASE IoctlGetStore(t)
    <3>1. ret[t] \in Slots
      BY <1>1, <2>5 DEF IoctlGetStore, Fit
    <3>2. storequebit' \in [Files -> SUBSET Slots]
      BY <2>5, <3>1 DEF IoctlGetStore, DeviceTyped
    <3>3. QED
      BY <2>3, <2>5, <3>2 DEF IoctlGetStore, DeviceTyped
  <2>6. CASE CloseDone(t)
    <3>1. file' \in [Files -> {"closed", "open", "closing"}]
      BY <2>6 DEF CloseDone, DeviceTyped
    <3>2. QED
      BY <2>3, <2>6, <3>1 DEF CloseDone, DeviceTyped
  <2>7. QED
    BY <1>5, <2>4, <2>5, <2>6
<1>6. CASE IoctlRelClear(t)
  <2>1. call' = [call EXCEPT ![t] = [call[t] EXCEPT !.op = "stuck"]]
    BY <1>6 DEF IoctlRelClear
  <2>2. [call[t] EXCEPT !.op = "stuck"] \in Frame /\ UNCHANGED <<pc, ret>>
    BY <1>1, <1>6 DEF Frame, IoctlRelClear, tableVars
  <2>3. Fit(t)'
    BY <1>1, <1>6, <2>1, <2>2 DEF Fit, IoctlRelClear, DeviceTyped, Frame
  <2>4. call' \in [Threads -> Frame] /\ FramesFit'
    BY <2>1, <2>2, <2>3, FrameReplaced
  <2>5. storequebit' \in [Files -> SUBSET Slots]
    BY <1>6 DEF IoctlRelClear, DeviceTyped
  <2>6. QED
    BY <1>6, <2>4, <2>5 DEF IoctlRelClear, DeviceTyped
<1>7. CASE CloseSlot(t)
  <2>1. call' = [call EXCEPT ![t] = [call[t] EXCEPT !.id = call[t].id + 1]]
    BY <1>7 DEF CloseSlot
  <2>2. call[t].id + 1 \in 0 .. QUEUE_NUM
    BY <1>1, <1>7, SizeAssumption DEF CloseSlot, Frame
  <2>3. [call[t] EXCEPT !.id = call[t].id + 1] \in Frame
    BY <1>1, <2>2 DEF Frame
  <2>4. /\ pc' = pc
        /\ \A u \in Threads \ {t} : pc'[u] = pc[u] /\ ret'[u] = ret[u]
    BY <1>1, <1>7, CloseSlotTable, RelIsOver DEF tableVars
  <2>5. Fit(t)'
    BY <1>1, <1>7, <2>1, <2>4 DEF Fit, CloseSlot, DeviceTyped, Frame
  <2>6. QED
    BY <1>7, <2>1, <2>3, <2>4, <2>5, FrameReplaced DEF CloseSlot, DeviceTyped,
                                                       deviceVars
<1>8. QED
  BY <1>2, <1>3, <1>4, <1>5, <1>6, <1>7

-----------------------------------------------------------------------------
(***************************************************************************)
(* Files and those who use them.                                           *)
(***************************************************************************)

(* A thread outside every operation begins one on an open file that        *)
(* ipc_release does not run on.                                            *)
LEMMA UseBegins ==
  ASSUME DeviceTyped, FramesFit, FileUsers, Closers, NEW t \in Threads, AtRest(t),
         NEW f \in Files, file[f] = "open", NEW op \in {"get", "rel"}, NEW id,
         call' = [call EXCEPT ![t] = Call(op, f, id)], UNCHANGED file
  PROVE  FileUsers' /\ Closers'
<1>1. /\ call'[t].file = {f} /\ call'[t].op = op
      /\ \A u \in Threads \ {t} : call'[u] = call[u]
  BY DEF DeviceTyped, Call
<1>2. call[t].op = "none" /\ call[t].file = {}
  BY DEF AtRest, NoCall
<1>3. FileUsers'
  BY <1>1 DEF FileUsers
<1>4. Closers'
  BY <1>1, <1>2 DEF Closers
<1>5. QED
  BY <1>3, <1>4

(* An operation other than ipc_release goes on or ends.                    *)
LEMMA UseGoesOn ==
  ASSUME DeviceTyped, FileUsers, Closers, NEW t \in Threads, call[t].op # "close",
         NEW c, call' = [call EXCEPT ![t] = c], c.op # "close",
         c.file = {} \/ c.file = call[t].file, UNCHANGED file
  PROVE  FileUsers' /\ Closers'
<1>1. call'[t] = c /\ \A u \in Threads \ {t} : call'[u] = call[u]
  BY DEF DeviceTyped
<1>2. FileUsers'
  BY <1>1 DEF FileUsers
<1>3. Closers'
  BY <1>1 DEF Closers
<1>4. QED
  BY <1>2, <1>3

(* Every step keeps files and their users together.                        *)
LEMMA UsersKept ==
  ASSUME DeviceTyped, FramesFit, FileUsers, Closers, [DriverNext]_driverVars
  PROVE  FileUsers' /\ Closers'
<1>1. CASE UNCHANGED <<file, call>>
  BY <1>1 DEF FileUsers, Closers
<1>2. ASSUME NEW f \in Files, ipc_open(f)
      PROVE  FileUsers' /\ Closers'
  <2>1. /\ file[f] = "closed" /\ file'[f] = "open"
        /\ \A g \in Files \ {f} : file'[g] = file[g]
        /\ UNCHANGED call
    BY <1>2 DEF ipc_open, DeviceTyped
  <2>2. QED
    BY <2>1 DEF FileUsers, Closers
<1>3. ASSUME NEW t \in Threads, NEW f \in Files, NEW k \in Keys, IoctlGet(t, f, k)
      PROVE  FileUsers' /\ Closers'
  BY <1>3, UseBegins DEF IoctlGet, deviceVars
<1>4. ASSUME NEW t \in Threads, NEW f \in Files, NEW id \in MsqIds, IoctlRel(t, f, id)
      PROVE  FileUsers' /\ Closers'
  BY <1>4, UseBegins DEF IoctlRel, deviceVars
<1>5. ASSUME NEW t \in Threads, IoctlGetNone(t) \/ IoctlGetStore(t)
      PROVE  FileUsers' /\ Closers'
  <2>1. NoCall.op # "close" /\ NoCall.file = {}
    BY DEF NoCall
  <2>2. QED
    BY <1>5, <2>1, UseGoesOn DEF IoctlGetNone, IoctlGetStore, deviceVars
<1>6. ASSUME NEW t \in Threads, IoctlRelClear(t)
      PROVE  FileUsers' /\ Closers'
  <2> DEFINE c == [call[t] EXCEPT !.op = "stuck"]
  <2>1. call[t] \in Frame
    BY DEF DeviceTyped
  <2>2. c.op # "close" /\ c.file = call[t].file
    BY <2>1 DEF Frame
  <2>3. call' = [call EXCEPT ![t] = c] /\ UNCHANGED file /\ call[t].op # "close"
    BY <1>6 DEF IoctlRelClear
  <2> HIDE DEF c
  <2>4. QED
    BY <2>2, <2>3, UseGoesOn
<1>7. ASSUME NEW t \in Threads, NEW f \in Files, Close(t, f)
      PROVE  FileUsers' /\ Closers'
  <2>1. /\ call'[t].file = {f} /\ call'[t].op = "close"
        /\ \A u \in Threads \ {t} : call'[u] = call[u]
    BY <1>7 DEF DeviceTyped, Close, Call
  <2>2. call[t].op = "none" /\ call[t].file = {}
    BY <1>7 DEF Close, AtRest, NoCall
  <2>3. /\ file'[f] = "closing" /\ file[f] = "open"
        /\ \A g \in Files \ {f} : file'[g] = file[g]
    BY <1>7 DEF DeviceTyped, Close
  <2>4. \A u \in Threads : f \notin call[u].file
    BY <1>7 DEF Close
  <2>5. FileUsers'
    BY <2>1, <2>3, <2>4 DEF FileUsers
  <2>6. Closers'
    BY <2>1, <2>2, <2>3, <2>4 DEF Closers
  <2>7. QED
    BY <2>5, <2>6
<1>8. ASSUME NEW t \in Threads, CloseSlot(t)
      PROVE  FileUsers' /\ Closers'
  <2> DEFINE c == [call[t] EXCEPT !.id = call[t].id + 1]
  <2>1. call[t] \in Frame
    BY DEF DeviceTyped
  <2>2. c.op = call[t].op /\ c.file = call[t].file
    BY <2>1 DEF Frame
  <2>3. call' = [call EXCEPT ![t] = c] /\ UNCHANGED file
    BY <1>8 DEF CloseSlot, deviceVars
  <2> HIDE DEF c
  <2>4. \A u \in Threads : call'[u].op = call[u].op /\ call'[u].file = call[u].file
    BY <2>2, <2>3 DEF DeviceTyped
  <2>5. QED
    BY <2>3, <2>4 DEF FileUsers, Closers
<1>9. ASSUME NEW t \in Threads, CloseDone(t)
      PROVE  FileUsers' /\ Closers'
  <2>1. /\ call'[t].file = {} /\ call[t].op = "close"
        /\ \A u \in Threads \ {t} : call'[u] = call[u]
    BY <1>9 DEF DeviceTyped, CloseDone, NoCall
  <2>2. /\ \A g \in call[t].file : g \in Files => file[g] = "closing"
        /\ \A g \in Files : file'[g] = IF g \in call[t].file THEN "closed" ELSE file[g]
    BY <1>9 DEF CloseDone, FileUsers
  <2>3. \A u \in Threads \ {t},
  g \in Files : g \in call[u].file => g \notin call[t].file
    BY <2>1, <2>2 DEF Closers
  <2>4. FileUsers'
    BY <2>1, <2>2, <2>3 DEF FileUsers
  <2>5. Closers'
    BY <2>1, <2>2 DEF Closers
  <2>6. QED
    BY <2>4, <2>5
<1>10. QED
  BY <1>1, <1>2, <1>3, <1>4, <1>5, <1>6, <1>7, <1>8, <1>9
  DEF DriverNext, DeviceStep, driverVars, deviceVars

(* The invariant of DriverSpec.                                            *)
LEMMA DriverInvariant == DriverSpec => []DriverInv
<1>1. DriverInit => DriverInv
  <2> SUFFICES ASSUME DriverInit PROVE DriverInv
    OBVIOUS
  <2>1. TableInv /\ NoFill
    BY InitTableInv DEF DriverInit, TableInit, NoFill
  <2>2. DeviceTyped
    BY NoCallIsFrame DEF DriverInit, DeviceTyped
  <2>3. FramesFit /\ FileUsers /\ Closers
    BY DEF DriverInit, FramesFit, Fit, FileUsers, Closers, NoCall
  <2>4. QED
    BY <2>1, <2>2, <2>3 DEF DriverInv
<1>2. DriverInv /\ [DriverNext]_driverVars => DriverInv'
  <2> SUFFICES ASSUME DriverInv, [DriverNext]_driverVars PROVE DriverInv'
    OBVIOUS
  <2>1. TableInv' /\ NoFill' /\ FileUsers' /\ Closers'
    BY DriverTableInv, UsersKept DEF DriverInv
  <2>2. DeviceTyped' /\ FramesFit'
    <3>1. ASSUME NEW f \in Files, ipc_open(f)
          PROVE  DeviceTyped' /\ FramesFit'
      BY <3>1 DEF DriverInv, ipc_open, DeviceTyped, FramesFit, Fit, tableVars
    <3>2. CASE UNCHANGED driverVars
      BY <3>2 DEF DriverInv, DeviceTyped, FramesFit, Fit, driverVars, tableVars
    <3>3. QED
      BY <3>1, <3>2, SameFrames, NewFrames
      DEF DriverInv, DriverNext, DeviceStep, TableCall
  <2>3. QED
    BY <2>1, <2>2 DEF DriverInv
<1>3. QED
  BY <1>1, <1>2, PTL DEF DriverSpec

-----------------------------------------------------------------------------
(***************************************************************************)
(* What follows.                                                           *)
(***************************************************************************)

(* The bits of a mask are ids of slots, no operation runs on a file that   *)
(* is closed, and ipc_release runs on a file alone and once, whatever      *)
(* threads call open, ioctl and close on whatever files.                   *)
THEOREM DeviceTypesHold == DriverSpec => []DriverTypeOK
<1>1. DriverInv => DriverTypeOK
  <2> SUFFICES ASSUME DriverInv PROVE DriverTypeOK
    OBVIOUS
  <2>1. TableTypeOK
    BY DEF DriverInv, TableInv, NoFill, TableTypeOK, TablePlaces, InLookup
  <2>2. ASSUME NEW t \in Threads
        PROVE  /\ call[t].op \in {"none", "get", "rel", "stuck", "close"}
               /\ call[t].id \in 0 .. QUEUE_NUM
    BY DEF DriverInv, DeviceTyped, Frame
  <2>3. ASSUME NEW f \in Files
        PROVE  LET users == {t \in Threads : f \in call[t].file}
               IN  /\ file[f] = "closed" => users = {}
                   /\ file[f] = "closing" =>
                        \E t \in Threads : users = {t} /\ call[t].op = "close"
    BY DEF DriverInv, FileUsers, Closers
  <2>4. QED
    BY <2>1, <2>2, <2>3 DEF DriverInv, DeviceTyped, DriverTypeOK
<1>2. QED
  BY <1>1, DriverInvariant, PTL

(* Whatever threads do with the device, the table sees nothing but calls   *)
(* of get and rel, one after the other: the device is an implementation of *)
(* the table.                                                              *)
THEOREM DeviceImplementsTable == DriverSpec => TableSpec
<1>1. DriverInit => TableInit
  BY DEF DriverInit
<1>2. DriverInv /\ [DriverNext]_driverVars => [TableNext]_tableVars
  BY DriverStepsTable DEF DriverInv
<1>3. QED
  BY <1>1, <1>2, DriverInvariant, PTL DEF DriverSpec, TableSpec

(* So the table behind the device stays consistent: rings agree and a key  *)
(* has one queue, whatever opens, closes and ioctls run, the closes that   *)
(* release another program's queue among them.                             *)
THEOREM DeviceKeepsTable == DriverSpec => [](RingsAgree /\ KeysUnique)
<1>1. DriverInv => RingsAgree /\ KeysUnique
  BY DEF DriverInv, TableInv, Registry
<1>2. QED
  BY <1>1, DriverInvariant, PTL

(* Once a REL has locked ipc_mutex where it should unlock it, nothing but  *)
(* ipc_open writes a mask and no call returns from GET with a queue or     *)
(* from REL, whoever makes it and on whatever file.                        *)
RelKeepsMutex ==
  ipc_mutex # Free =>
    /\ ipc_mutex' = ipc_mutex
    /\ \A f \in Files :
         storequebit'[f] # storequebit[f] => file[f] = "closed"
    /\ \A t \in Threads :
         call[t].op \in {"get", "rel", "stuck"} /\ call'[t] # call[t]
           => call[t].op = "get" /\ ret[t] < 0

(* The first REL that reaches ipc_mutex is the last call that does.        *)
THEOREM FirstRelIsLast == DriverSpec => [][RelKeepsMutex]_driverVars
<1>1. DriverInv /\ [DriverNext]_driverVars => [RelKeepsMutex]_driverVars
  <2> SUFFICES ASSUME DeviceTyped, DriverNext, ipc_mutex # Free
               PROVE  RelKeepsMutex
    BY DEF DriverInv, RelKeepsMutex
  <2>1. ASSUME NEW f \in Files, ipc_open(f) PROVE RelKeepsMutex
    BY <2>1 DEF ipc_open, DeviceTyped, RelKeepsMutex
  <2>2. CASE UNCHANGED <<deviceVars, call>>
    BY <2>2 DEF deviceVars, RelKeepsMutex
  <2>3. ASSUME NEW t \in Threads, UNCHANGED <<storequebit, ipc_mutex>>,
               \A u \in Threads \ {t} : call'[u] = call[u],
               \/ call[t].op \notin {"get", "rel", "stuck"}
               \/ call[t].op = "get" /\ ret[t] < 0
        PROVE  RelKeepsMutex
    BY <2>3 DEF RelKeepsMutex
  <2>4. ASSUME NEW t \in Threads, NEW f \in Files,
               \/ \E k \in Keys : IoctlGet(t, f, k)
               \/ \E id \in MsqIds : IoctlRel(t, f, id)
               \/ Close(t, f)
        PROVE  RelKeepsMutex
    <3>1. call[t].op = "none"
      BY <2>4 DEF IoctlGet, IoctlRel, Close, AtRest, NoCall
    <3>2. QED
      BY <2>3, <2>4, <3>1 DEF IoctlGet, IoctlRel, Close, DeviceTyped, deviceVars
  <2>5. ASSUME NEW t \in Threads, IoctlGetNone(t) \/ CloseSlot(t) \/ CloseDone(t)
        PROVE  RelKeepsMutex
    BY <2>3, <2>5 DEF IoctlGetNone, CloseSlot, CloseDone, DeviceTyped, deviceVars
  <2>6. QED
    BY <2>1, <2>2, <2>4, <2>5
    DEF DriverNext, DeviceStep, IoctlGetStore, IoctlRelClear
<1>2. QED
  BY <1>1, DriverInvariant, PTL DEF DriverSpec

=============================================================================
