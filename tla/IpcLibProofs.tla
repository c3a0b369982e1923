---------------------------- MODULE IpcLibProofs ----------------------------
(***************************************************************************)
(* Theorems about the user library of IpcLib for every number of threads,  *)
(* queues and descriptors.                                                 *)
(***************************************************************************)
EXTENDS IpcLib, FiniteSetTheorems, WellFoundedInduction, TLAPS

(* open(2) answers with a free descriptor.                                 *)
LEMMA MinIsIn ==
  ASSUME NEW S \in SUBSET Fds, S # {}
  PROVE  Min(S) \in S
<1> DEFINE R == OpToRel(<, Nat)
<1>1. R = {ss \in Nat \X Nat : ss[1] < ss[2]}
  BY DEF OpToRel
<1>2. IsWellFoundedOn(R, Nat)
  BY NatLessThanWellFounded
<1> HIDE DEF R
<1>3. S \subseteq Nat
  BY LibAssumption
<1>4. \E x \in S : \A y \in S : <<y, x>> \notin R
  BY <1>2, <1>3, WFMin
<1>5. \A x, y \in S : <<y, x>> \notin R => x <= y
  <2> SUFFICES ASSUME NEW x \in S, NEW y \in S, y < x
               PROVE  <<y, x>> \in R
    BY <1>3
  <2>1. <<y, x>> \in Nat \X Nat /\ <<y, x>>[1] < <<y, x>>[2]
    BY <1>3
  <2>2. QED
    BY <1>1, <2>1
<1>6. QED
  BY <1>4, <1>5 DEF Min

(* Descriptors are numbers, and -1 is none.                                *)
LEMMA FdsAreNats == Fds \subseteq Nat /\ -1 \notin Fds
  BY LibAssumption

-----------------------------------------------------------------------------
(***************************************************************************)
(* The invariant.                                                          *)
(***************************************************************************)
InOpen == {"lock", "test", "device", "assign", "check", "value"}

Releasing == {"load", "count", "zero", "last", "forget"}

Labels == {"idle", "ioctl", "closing", "close"} \cup InOpen \cup Releasing

Counts == -MaxCount .. MaxCount

LibData ==
  /\ ipcfd \in Fds \cup {-1}
  /\ msqcnt \in Counts
  /\ fdtab \in [Fds -> {"ipc", "other", "free"}]
  /\ pc \in [Threads -> Labels]
  /\ call \in [Threads -> [op : {"none", "get", "use", "rel", "close"},
                           ids : SUBSET Ids]]
  /\ local \in [Threads -> Int]
  /\ held \subseteq Ids
  /\ closes \in Nat

(* What a thread has read fits the variable it is about to write.          *)
LocalsFit ==
  \A t \in Threads :
    /\ pc[t] = "assign" => local[t] \in Fds \cup {-1}
    /\ pc[t] = "count" => local[t] \in Counts

MutexHeld ==
  /\ mutex \in Threads \cup {Free}
  /\ \A t \in Threads : mutex = t <=> pc[t] \in Opening

(* Each label belongs to some of the calls.                                *)
Placed ==
  \A t \in Threads :
    /\ pc[t] = "idle" => call[t].op = "none"
    /\ pc[t] \in InOpen => call[t].op \in {"get", "use"}
    /\ pc[t] \in {"load", "count"} => call[t].op \in {"get", "rel"}
    /\ pc[t] \in {"zero", "last", "forget"} => call[t].op = "rel"
    /\ pc[t] \in {"closing", "close"} => call[t].op = "close"
    /\ call[t].op = "close" => closes > 0

(* The calls that may close the device, or keep a queue in it.             *)
MayClose == {"get", "rel", "close"}

Overlaps ==
  /\ "rels" \notin overlapped =>
       \A t, u \in Threads : call[t].op = "rel" /\ call[u].op = "rel" => t = u
  /\ "calls" \notin overlapped =>
       /\ "rels" \notin overlapped
       /\ \A t, u \in Threads :
            call[t].op \in MayClose /\ call[u].op \in MayClose => t = u

(* While one thread at a time releases, ipcfd is set until it forgets it,  *)
(* nobody opens the device meanwhile, and the only descriptor of the       *)
(* device is in ipcfd, or on its way there.                                *)
OneOpen ==
  "rels" \notin overlapped =>
    /\ \A t \in Threads : call[t].op = "rel" /\ pc[t] \in Releasing => ipcfd \in Fds
    /\ \A t \in Threads : pc[t] \in {"device", "assign"} => ipcfd = -1
    /\ \A f \in Fds :
         fdtab[f] = "ipc" =>
           f = ipcfd \/ \E t \in Threads : pc[t] = "assign" /\ local[t] = f
    /\ \A t \in Threads : pc[t] = "forget" => \A f \in Fds : fdtab[f] # "ipc"

(* Without overlapping calls, and until ipc_close has returned, ipcfd is   *)
(* on the device but between the last two steps of a release.              *)
OwnFile ==
  "calls" \notin overlapped =>
    /\ closes = 0 \/ (closes = 1 /\ \E t \in Threads : call[t].op = "close") =>
         (ipcfd \in Fds =>
            fdtab[ipcfd] = "ipc" \/ \E t \in Threads : pc[t] = "forget")
    /\ \A t \in Threads :
         call[t].op = "rel" /\ pc[t] \in Releasing \ {"forget"} => fdtab[ipcfd] = "ipc"
    /\ \A t \in Threads :
         pc[t] = "assign" /\ local[t] \in Fds => fdtab[local[t]] = "ipc"

LibInv ==
  /\ LibData /\ LocalsFit /\ MutexHeld /\ Placed /\ Overlaps /\ OneOpen /\ OwnFile

-----------------------------------------------------------------------------
(***************************************************************************)
(* The steps.                                                              *)
(***************************************************************************)

(* Other files come and go on free descriptors.                            *)
LEMMA OthersInv ==
  ASSUME LibInv, OtherOpens \/ OtherCloses
  PROVE  LibInv'
<1>1. /\ fdtab' \in [Fds -> {"ipc", "other", "free"}]
      /\ \A f \in Fds : fdtab'[f] = "ipc" <=> fdtab[f] = "ipc"
  <2>1. CASE OtherOpens
    <3>1. Min(FreeFds) \in FreeFds
      BY <2>1, MinIsIn DEF OtherOpens, FreeFds
    <3>2. QED
      BY <2>1, <3>1 DEF OtherOpens, LibInv, LibData, FreeFds
  <2>2. CASE OtherCloses
    BY <2>2 DEF OtherCloses, Closed, LibInv, LibData
  <2>3. QED
    BY <2>1, <2>2
<1>2. UNCHANGED <<libVars, pc, call, local, history>>
  BY DEF OtherOpens, OtherCloses
<1>3. LibData' /\ LocalsFit' /\ MutexHeld' /\ Placed' /\ Overlaps'
  BY <1>1, <1>2 DEF LibInv, LibData, LocalsFit, MutexHeld, Placed, Overlaps,
                    libVars, history
<1>4. OneOpen'
  BY <1>1, <1>2 DEF LibInv, OneOpen, libVars, history
<1>5. OwnFile'
  BY <1>1, <1>2 DEF LibInv, Overlaps, OneOpen, OwnFile, libVars, history
<1>6. QED
  BY <1>3, <1>4, <1>5 DEF LibInv

(* A call begins.                                                          *)
LEMMA BeginsInv ==
  ASSUME LibInv, NEW t \in Threads, NEW op \in {"get", "use", "rel", "close"},
         NEW ids \in SUBSET Ids, NEW label \in {"lock", "ioctl", "closing"},
         Begins(t, op, ids, label),
         label = "lock" => op \in {"get", "use"},
         label = "ioctl" => op = "rel",
         label = "closing" => op = "close",
         closes' = IF op = "close" THEN closes + 1 ELSE closes
  PROVE  LibInv'
<1> USE DEF Begins
<1>1. LibData' /\ LocalsFit' /\ MutexHeld' /\ Placed'
  BY DEF LibInv, LibData, LocalsFit, MutexHeld, Placed, Labels, InOpen, libVars,
         Opening
<1>2. Overlaps'
  <2> DEFINE others == {call[u].op : u \in Threads} \cap MayClose
  <2>1. /\ overlapped \subseteq overlapped'
        /\ op # "use" /\ others # {} => "calls" \in overlapped'
        /\ op = "rel" /\ "rel" \in others => "rels" \in overlapped'
        /\ "rels" \in overlapped' =>
             "rels" \in overlapped \/ (op = "rel" /\ "rel" \in others)
    BY DEF MayClose
  <2>2. \A u \in Threads : call[u].op \in MayClose => call[u].op \in others
    OBVIOUS
  <2>3. /\ call'[t].op = op /\ call[t].op = "none"
        /\ \A u \in Threads \ {t} : call'[u] = call[u]
    BY DEF LibInv, LibData, Placed
  <2> HIDE DEF others
  <2>4. "rels" \notin overlapped' =>
          \A u, v \in Threads : call'[u].op = "rel" /\ call'[v].op = "rel" => u = v
    BY DEF LibInv, Overlaps
  <2>5. "calls" \notin overlapped' =>
          \A u, v \in Threads :
            call'[u].op \in MayClose /\ call'[v].op \in MayClose => u = v
    BY DEF LibInv, Overlaps, MayClose
  <2>6. "calls" \notin overlapped' => "rels" \notin overlapped'
    BY DEF LibInv, Overlaps
  <2>7. QED
    BY <2>4, <2>5, <2>6 DEF Overlaps
<1>3. OneOpen'
  BY DEF LibInv, OneOpen, Releasing, libVars
<1>4. OwnFile'
  BY DEF LibInv, LibData, OwnFile, Releasing, libVars
<1>5. QED
  BY <1>1, <1>2, <1>3, <1>4 DEF LibInv

(* A call that ends, or goes on, overlaps with nothing new.                *)
LEMMA OverlapsKept ==
  ASSUME LibInv, NEW t \in Threads, Return(t) \/ UNCHANGED call, UNCHANGED overlapped
  PROVE  Overlaps'
<1>1. \A u \in Threads :
        /\ call'[u].op = "rel" => call[u].op = "rel"
        /\ call'[u].op \in MayClose => call[u].op \in MayClose
  BY DEF LibInv, LibData, Return, NoCall, MayClose
<1>2. QED
  BY <1>1 DEF LibInv, Overlaps

(* ipc_open takes the mutex.                                               *)
LEMMA LockInv ==
  ASSUME LibInv, NEW t \in Threads, LibLock(t)
  PROVE  LibInv'
<1>1. LibData' /\ LocalsFit'
  BY DEF LibInv, LibData, LocalsFit, Labels, InOpen, history, LibLock, Goto
<1>2. MutexHeld' /\ Placed'
  BY LibAssumption
  DEF LibInv, LibData, MutexHeld, Placed, InOpen, Opening, history, LibLock, Goto
<1>3. Overlaps'
  BY OverlapsKept DEF LibLock, Goto, history
<1>4. OneOpen'
  BY DEF LibInv, OneOpen, Releasing, history, LibLock, Goto
<1>5. OwnFile'
  BY DEF LibInv, OwnFile, Releasing, history, LibLock, Goto
<1>6. QED
  BY <1>1, <1>2, <1>3, <1>4, <1>5 DEF LibInv

(* ipc_open looks at ipcfd.                                                *)
LEMMA TestInv ==
  ASSUME LibInv, NEW t \in Threads, LibTest(t)
  PROVE  LibInv'
<1>1. LibData' /\ LocalsFit'
  BY DEF LibInv, LibData, LocalsFit, Labels, InOpen, history, LibTest, Goto
<1>2. MutexHeld' /\ Placed'
  BY LibAssumption
  DEF LibInv, LibData, MutexHeld, Placed, InOpen, Opening, history, LibTest, Goto
<1>3. Overlaps'
  BY OverlapsKept DEF LibTest, Goto, history
<1>4. OneOpen'
  BY FdsAreNats DEF LibInv, LibData, OneOpen, Releasing, history, LibTest, Goto
<1>5. OwnFile'
  BY DEF LibInv, LibData, OwnFile, Releasing, history, LibTest, Goto
<1>6. QED
  BY <1>1, <1>2, <1>3, <1>4, <1>5 DEF LibInv

(* The device cannot be opened.                                            *)
LEMMA OpenFailsInv ==
  ASSUME LibInv, NEW t \in Threads, LibOpenFails(t)
  PROVE  LibInv'
<1>1. LibData' /\ LocalsFit'
  BY DEF LibInv, LibData, LocalsFit, Labels, InOpen, libVars, history, LibOpenFails,
         Remember, Goto
<1>2. MutexHeld' /\ Placed'
  BY DEF LibInv, MutexHeld, Placed, InOpen, Opening, libVars, history, LibOpenFails,
         Goto
<1>3. Overlaps'
  BY OverlapsKept DEF LibOpenFails, Goto, history
<1>4. OneOpen'
  BY DEF LibInv, OneOpen, Releasing, libVars, history, LibOpenFails, Remember, Goto
<1>5. OwnFile'
  BY FdsAreNats
  DEF LibInv, LibData, OwnFile, Releasing, libVars, history, LibOpenFails, Remember,
      Goto
<1>6. QED
  BY <1>1, <1>2, <1>3, <1>4, <1>5 DEF LibInv

(* ipcfd is set.                                                           *)
LEMMA AssignInv ==
  ASSUME LibInv, NEW t \in Threads, LibAssign(t)
  PROVE  LibInv'
<1>1. LibData' /\ LocalsFit'
  BY DEF LibInv, LibData, LocalsFit, Labels, InOpen, history, LibAssign, Remember,
         Goto
<1>2. MutexHeld' /\ Placed'
  BY DEF LibInv, MutexHeld, Placed, InOpen, Opening, history, LibAssign, Goto
<1>3. Overlaps'
  BY OverlapsKept DEF LibAssign, Goto, history
<1>4. OneOpen'
  BY FdsAreNats
  DEF LibInv, LibData, MutexHeld, OneOpen, Releasing, Opening, history, LibAssign,
      Goto
<1>5. OwnFile'
  BY FdsAreNats
  DEF LibInv, LibData, Overlaps, OneOpen, OwnFile, Releasing, history, LibAssign,
      Remember, Goto
<1>6. QED
  BY <1>1, <1>2, <1>3, <1>4, <1>5 DEF LibInv

(* ipc_open gives the mutex back.                                          *)
LEMMA CheckInv ==
  ASSUME LibInv, NEW t \in Threads, LibCheck(t)
  PROVE  LibInv'
<1>1. LibData' /\ LocalsFit'
  BY LibAssumption
  DEF LibInv, LibData, LocalsFit, Labels, InOpen, Releasing, libVars, history,
     LibCheck, Goto, Return, NoCall
<1>2. MutexHeld' /\ Placed'
  BY LibAssumption
  DEF LibInv, LibData, MutexHeld, Placed, InOpen, Opening, history, LibCheck, Goto,
      Return, NoCall
<1>3. Overlaps'
  BY OverlapsKept DEF LibCheck, Goto, history
<1>4. OneOpen'
  BY DEF LibInv, LibData, OneOpen, Releasing, history, LibCheck, Goto, Return
<1>5. OwnFile'
  BY LibAssumption
  DEF LibInv, LibData, Overlaps, OneOpen, OwnFile, Releasing, history, LibCheck,
      Goto, Return
<1>6. QED
  BY <1>1, <1>2, <1>3, <1>4, <1>5 DEF LibInv

(* ipc_open returns ipcfd.                                                 *)
LEMMA ValueInv ==
  ASSUME LibInv, NEW t \in Threads, LibValue(t)
  PROVE  LibInv'
<1>1. LibData' /\ LocalsFit'
  BY DEF LibInv, LibData, LocalsFit, Labels, Releasing, libVars, history, LibValue,
         Goto, Return, NoCall
<1>2. MutexHeld' /\ Placed'
  BY DEF LibInv, LibData, MutexHeld, Placed, Labels, InOpen, Releasing, Opening,
     libVars, history, LibValue, Goto, Return, NoCall
<1>3. Overlaps'
  BY OverlapsKept DEF LibValue, Goto, history
<1>4. OneOpen'
  BY DEF LibInv, LibData, Overlaps, OneOpen, libVars, history, LibValue, Goto,
         Return, NoCall
<1>5. OwnFile'
  BY DEF LibInv, LibData, OneOpen, OwnFile, Releasing, libVars, history, LibValue,
         Goto, Return, NoCall
<1>6. QED
  BY <1>1, <1>2, <1>3, <1>4, <1>5 DEF LibInv

(* Calls that fail, or that keep nothing.                                  *)
LEMMA QuietInv ==
  ASSUME LibInv, NEW t \in Threads, UseRefused(t) \/ IoctlFails(t) \/ UseDone(t)
  PROVE  LibInv'
<1>1. /\ pc[t] = "ioctl"
      /\ Return(t)
      /\ UNCHANGED <<libVars, fdtab, local, history>>
  BY DEF UseRefused, IoctlFails, UseDone
<1>2. LibData' /\ LocalsFit'
  BY <1>1 DEF LibInv, LibData, LocalsFit, Labels, libVars, history, Return, NoCall
<1>3. MutexHeld' /\ Placed'
  BY <1>1 DEF LibInv, LibData, MutexHeld, Placed, InOpen, Opening, libVars, history,
              Return, NoCall
<1>4. Overlaps'
  BY <1>1, OverlapsKept DEF history
<1>5. OneOpen'
  BY <1>1 DEF LibInv, LibData, Overlaps, OneOpen, libVars, history, Return, NoCall
<1>6. OwnFile'
  BY <1>1 DEF LibInv, LibData, OwnFile, libVars, history, Return, NoCall
<1>7. QED
  BY <1>2, <1>3, <1>4, <1>5, <1>6 DEF LibInv

(* The device answers a get.                                               *)
LEMMA GetDoneInv ==
  ASSUME LibInv, NEW t \in Threads, NEW id \in Ids, GetDone(t, id)
  PROVE  LibInv'
<1>1. LibData' /\ LocalsFit'
  BY DEF LibInv, LibData, LocalsFit, Labels, Releasing, libVars, GetDone
<1>2. MutexHeld' /\ Placed'
  BY DEF LibInv, MutexHeld, Placed, Opening, libVars, GetDone
<1>3. Overlaps'
  BY DEF LibInv, Overlaps, GetDone
<1>4. OneOpen'
  BY DEF LibInv, OneOpen, libVars, GetDone
<1>5. OwnFile'
  BY DEF LibInv, OwnFile, libVars, GetDone
<1>6. QED
  BY <1>1, <1>2, <1>3, <1>4, <1>5 DEF LibInv

(* The device answers a release.                                           *)
LEMMA RelDoneInv ==
  ASSUME LibInv, NEW t \in Threads, RelDone(t)
  PROVE  LibInv'
<1>1. LibData' /\ LocalsFit'
  BY DEF LibInv, LibData, LocalsFit, Labels, Releasing, libVars, RelDone, Goto
<1>2. MutexHeld' /\ Placed'
  BY DEF LibInv, MutexHeld, Placed, InOpen, Opening, libVars, RelDone, Goto
<1>3. Overlaps'
  BY OverlapsKept DEF RelDone, Goto
<1>4. OneOpen'
  BY DEF LibInv, OneOpen, libVars, RelDone, OpenOn, Goto
<1>5. OwnFile'
  BY DEF LibInv, OwnFile, libVars, RelDone, OpenOn, Goto
<1>6. QED
  BY <1>1, <1>2, <1>3, <1>4, <1>5 DEF LibInv

(* msqcnt is read.                                                         *)
LEMMA LoadInv ==
  ASSUME LibInv, NEW t \in Threads, CountLoad(t)
  PROVE  LibInv'
<1>1. LibData' /\ LocalsFit'
  BY DEF LibInv, LibData, LocalsFit, Labels, Releasing, libVars, history, CountLoad,
         Remember, Counts, Goto
<1>2. MutexHeld' /\ Placed'
  BY DEF LibInv, MutexHeld, Placed, InOpen, Opening, libVars, history, CountLoad, Goto
<1>3. Overlaps'
  BY OverlapsKept DEF CountLoad, Goto, history
<1>4. OneOpen'
  BY DEF LibInv, OneOpen, Releasing, libVars, history, CountLoad, Remember, Goto
<1>5. OwnFile'
  BY DEF LibInv, OwnFile, Releasing, libVars, history, CountLoad, Remember, Goto
<1>6. QED
  BY <1>1, <1>2, <1>3, <1>4, <1>5 DEF LibInv

(* msqcnt++, and the get returns.                                          *)
LEMMA UpInv ==
  ASSUME LibInv, NEW t \in Threads, CountUp(t)
  PROVE  LibInv'
<1>1. LibData' /\ LocalsFit'
  BY LibAssumption
  DEF LibInv, LibData, LocalsFit, Labels, CountUp, Remember, Counts, Return, NoCall
<1>2. MutexHeld' /\ Placed'
  BY DEF LibInv, LibData, MutexHeld, Placed, InOpen, Opening, CountUp, Return, NoCall
<1>3. Overlaps'
  BY OverlapsKept DEF CountUp
<1>4. OneOpen'
  BY DEF LibInv, OneOpen, CountUp, Remember, Return, NoCall
<1>5. OwnFile'
  BY DEF LibInv, OwnFile, CountUp, Remember, Return, NoCall
<1>6. QED
  BY <1>1, <1>2, <1>3, <1>4, <1>5 DEF LibInv

(* msqcnt--.                                                               *)
LEMMA DownInv ==
  ASSUME LibInv, NEW t \in Threads, CountDown(t)
  PROVE  LibInv'
<1>1. LibData' /\ LocalsFit'
  BY LibAssumption
  DEF LibInv, LibData, LocalsFit, Labels, Releasing, history, CountDown, Remember,
      Counts, Goto
<1>2. MutexHeld' /\ Placed'
  BY DEF LibInv, MutexHeld, Placed, InOpen, Opening, history, CountDown, Goto
<1>3. Overlaps'
  BY OverlapsKept DEF CountDown, Goto, history
<1>4. OneOpen'
  BY LibAssumption DEF LibInv, OneOpen, Releasing, history, CountDown, Goto
<1>5. OwnFile'
  BY DEF LibInv, OwnFile, Releasing, history, CountDown, Remember, Goto
<1>6. QED
  BY <1>1, <1>2, <1>3, <1>4, <1>5 DEF LibInv

(* A release looks at msqcnt.                                              *)
LEMMA ZeroInv ==
  ASSUME LibInv, NEW t \in Threads, RelNotLast(t) \/ RelLast(t)
  PROVE  LibInv'
<1>1. LibData' /\ LocalsFit'
  BY DEF LibInv, LibData, LocalsFit, Labels, Releasing, libVars, history,
         RelNotLast, RelLast, Goto, Return, NoCall
<1>2. MutexHeld' /\ Placed'
  BY DEF LibInv, LibData, MutexHeld, Placed, InOpen, Opening, libVars, history,
         RelNotLast, RelLast, Goto, Return, NoCall
<1>3. Overlaps'
  BY OverlapsKept DEF RelNotLast, RelLast, Goto, history
<1>4. OneOpen'
  BY DEF LibInv, LibData, OneOpen, Releasing, libVars, history, RelNotLast, RelLast,
         Goto, Return
<1>5. OwnFile'
  BY DEF LibInv, LibData, OneOpen, OwnFile, Releasing, libVars, history, RelNotLast,
         RelLast, Goto, Return, NoCall
<1>6. QED
  BY <1>1, <1>2, <1>3, <1>4, <1>5 DEF LibInv

(* The last release closes the device.                                     *)
LEMMA RelClosesInv ==
  ASSUME LibInv, NEW t \in Threads, RelCloses(t)
  PROVE  LibInv'
<1>1. LibData' /\ LocalsFit'
  BY DEF LibInv, LibData, LocalsFit, Labels, Releasing, libVars, history, RelCloses,
         Closed, Goto
<1>2. MutexHeld' /\ Placed'
  BY DEF LibInv, MutexHeld, Placed, InOpen, Opening, libVars, history, RelCloses, Goto
<1>3. Overlaps'
  BY OverlapsKept DEF RelCloses, Goto, history
<1>4. /\ pc' = [pc EXCEPT ![t] = "forget"]
      /\ pc[t] = "last" /\ call[t].op = "rel"
      /\ \A f \in Fds : fdtab'[f] = IF f = ipcfd THEN "free" ELSE fdtab[f]
      /\ UNCHANGED <<ipcfd, call, local, overlapped>>
  BY DEF LibInv, Placed, RelCloses, Closed, Goto, libVars, history
<1>5. ASSUME "rels" \notin overlapped
      PROVE  /\ ipcfd \in Fds
             /\ \A u \in Threads : pc[u] \notin {"device", "assign"}
             /\ \A f \in Fds : fdtab'[f] # "ipc"
  BY <1>4, <1>5, FdsAreNats DEF LibInv, OneOpen, Releasing
<1>6. OneOpen'
  BY <1>4, <1>5 DEF OneOpen
<1>7. \A u \in Threads : pc'[u] = IF u = t THEN "forget" ELSE pc[u]
  BY <1>4 DEF LibInv, LibData
<1>8. OwnFile'
  BY <1>4, <1>5, <1>7 DEF LibInv, Overlaps, OwnFile
<1>9. QED
  BY <1>1, <1>2, <1>3, <1>6, <1>8 DEF LibInv

(* The last release resets ipcfd.                                          *)
LEMMA ForgetsInv ==
  ASSUME LibInv, NEW t \in Threads, RelForgets(t)
  PROVE  LibInv'
<1>1. LibData' /\ LocalsFit'
  BY DEF LibInv, LibData, LocalsFit, Labels, history, RelForgets, Return, NoCall
<1>2. MutexHeld' /\ Placed'
  BY DEF LibInv, LibData, MutexHeld, Placed, InOpen, Opening, history, RelForgets,
         Return, NoCall
<1>3. Overlaps'
  BY OverlapsKept DEF RelForgets, history
<1>4. OneOpen'
  <2>1. /\ pc[t] = "forget" /\ call[t].op = "rel"
        /\ \A u \in Threads : pc'[u] = IF u = t THEN "idle" ELSE pc[u]
        /\ \A u \in Threads : call'[u].op = "rel" => u # t /\ call[u].op = "rel"
        /\ ipcfd' = -1
        /\ UNCHANGED <<fdtab, local, overlapped>>
    BY DEF LibInv, LibData, Placed, RelForgets, Return, NoCall, history
  <2>2. "rels" \notin overlapped =>
          /\ \A f \in Fds : fdtab[f] # "ipc"
          /\ \A u \in Threads : call[u].op = "rel" => u = t
    BY <2>1 DEF LibInv, OneOpen, Overlaps
  <2>3. QED
    BY <2>1, <2>2 DEF OneOpen
<1>5. OwnFile'
  BY FdsAreNats
  DEF LibInv, Placed, Overlaps, OwnFile, Releasing, history, RelForgets, Return
<1>6. QED
  BY <1>1, <1>2, <1>3, <1>4, <1>5 DEF LibInv

(* ipc_close looks at ipcfd.                                               *)
LEMMA CloseTestInv ==
  ASSUME LibInv, NEW t \in Threads, CloseTest(t)
  PROVE  LibInv'
<1>1. LibData' /\ LocalsFit'
  BY DEF LibInv, LibData, LocalsFit, Labels, InOpen, libVars, history, CloseTest,
         Goto, Return, NoCall
<1>2. MutexHeld' /\ Placed'
  BY DEF LibInv, LibData, MutexHeld, Placed, InOpen, Opening, libVars, history,
         CloseTest, Goto, Return, NoCall
<1>3. Overlaps'
  BY OverlapsKept DEF CloseTest, Goto, history
<1>4. OneOpen'
  BY DEF LibInv, LibData, OneOpen, libVars, history, CloseTest, Goto, Return, NoCall
<1>5. OwnFile'
  BY DEF LibInv, LibData, Placed, OwnFile, libVars, history, CloseTest, Goto,
         Return, NoCall
<1>6. QED
  BY <1>1, <1>2, <1>3, <1>4, <1>5 DEF LibInv

(* ipc_close closes what ipcfd names.                                      *)
LEMMA ClosesInv ==
  ASSUME LibInv, NEW t \in Threads, CloseCloses(t)
  PROVE  LibInv'
<1>1. LibData' /\ LocalsFit'
  BY DEF LibInv, LibData, LocalsFit, Labels, libVars, history, CloseCloses, Closed,
         Return, NoCall
<1>2. MutexHeld' /\ Placed'
  BY DEF LibInv, LibData, MutexHeld, Placed, InOpen, Opening, libVars, history,
         CloseCloses, Return, NoCall
<1>3. Overlaps'
  BY OverlapsKept DEF CloseCloses, history
<1>4. OneOpen'
  BY DEF LibInv, OneOpen, Releasing, libVars, history, CloseCloses, Closed, Return
<1>5. OwnFile'
  <2>1. /\ \A u \in Threads : pc'[u] = IF u = t THEN "idle" ELSE pc[u]
        /\ \A u \in Threads : call'[u].op = IF u = t THEN "none" ELSE call[u].op
        /\ call[t].op = "close"
        /\ \A f \in Fds : fdtab'[f] = IF f = ipcfd THEN "free" ELSE fdtab[f]
        /\ UNCHANGED <<ipcfd, local, overlapped, closes>>
    BY DEF LibInv, LibData, Placed, CloseCloses, Closed, Return, NoCall,
           libVars, history
  <2>2. SUFFICES ASSUME "calls" \notin overlapped
                 PROVE  OwnFile'
    BY <2>1 DEF OwnFile
  <2>3. \A u \in Threads : call[u].op \in MayClose => u = t
    BY <2>1, <2>2 DEF LibInv, Overlaps, MayClose
  <2>4. /\ closes > 0 /\ closes \in Nat
        /\ \A u \in Threads : call'[u].op \notin {"close", "rel"}
    BY <2>1, <2>3 DEF LibInv, LibData, Placed, MayClose
  <2>5. \A u \in Threads : pc[u] = "assign" => ipcfd = -1
    BY <2>2 DEF LibInv, Overlaps, OneOpen
  <2>6. ~(closes' = 0 \/ (closes' = 1 /\ \E u \in Threads : call'[u].op = "close"))
    BY <2>1, <2>4
  <2>7. ASSUME NEW u \in Threads, pc'[u] = "assign", local'[u] \in Fds
        PROVE  fdtab'[local'[u]] = "ipc"
    <3>1. pc[u] = "assign" /\ local[u] \in Fds /\ local[u] # ipcfd
      BY <2>1, <2>5, <2>7, FdsAreNats
    <3>2. fdtab[local[u]] = "ipc"
      BY <2>2, <3>1 DEF LibInv, OwnFile
    <3>3. QED
      BY <2>1, <3>1, <3>2
  <2>8. QED
    BY <2>4, <2>6, <2>7 DEF OwnFile
<1>6. QED
  BY <1>1, <1>2, <1>3, <1>4, <1>5 DEF LibInv

(* The device is opened, on a descriptor that was free.                    *)
LEMMA OpensInv ==
  ASSUME LibInv, NEW t \in Threads, LibOpens(t)
  PROVE  LibInv'
<1> DEFINE fd == Min(FreeFds)
<1>1. fd \in Fds /\ fdtab[fd] = "free"
  <2>1. fd \in FreeFds
    BY MinIsIn DEF LibOpens, FreeFds
  <2>2. QED
    BY <2>1 DEF FreeFds
<1> HIDE DEF fd
<1>2. /\ pc[t] = "device"
      /\ \A u \in Threads : pc'[u] = IF u = t THEN "assign" ELSE pc[u]
      /\ \A u \in Threads : local'[u] = IF u = t THEN fd ELSE local[u]
      /\ \A f \in Fds : fdtab'[f] = IF f = fd THEN "ipc" ELSE fdtab[f]
      /\ UNCHANGED <<call, libVars, history>>
  BY DEF fd, LibInv, LibData, LibOpens, Remember, Goto
<1>3. /\ fdtab' \in [Fds -> {"ipc", "other", "free"}]
      /\ pc' \in [Threads -> Labels]
      /\ local' \in [Threads -> Int]
  <2>1. fd \in Int
    BY <1>1, FdsAreNats
  <2>2. /\ fdtab' = [fdtab EXCEPT ![fd] = "ipc"]
        /\ pc' = [pc EXCEPT ![t] = "assign"]
        /\ local' = [local EXCEPT ![t] = fd]
    BY DEF fd, LibOpens, Remember, Goto
  <2>3. QED
    BY <2>1, <2>2 DEF LibInv, LibData, Labels, InOpen
<1>4. LibData' /\ LocalsFit'
  BY <1>1, <1>2, <1>3 DEF LibInv, LibData, LocalsFit, libVars, history
<1>5. MutexHeld' /\ Placed'
  BY <1>2 DEF LibInv, MutexHeld, Placed, InOpen, Opening, libVars, history
<1>6. Overlaps'
  BY <1>2, OverlapsKept DEF history
<1>7. \A u \in Threads : pc[u] # "assign"
  BY <1>2 DEF LibInv, MutexHeld, Opening
<1>8. "rels" \notin overlapped => ipcfd = -1 /\ \A f \in Fds : fdtab[f] # "ipc"
  BY <1>2, <1>7, FdsAreNats DEF LibInv, OneOpen
<1>9. OneOpen'
  <2> SUFFICES ASSUME "rels" \notin overlapped
               PROVE  OneOpen'
    BY <1>2 DEF OneOpen, history
  <2>1. \A u \in Threads : ~(call'[u].op = "rel" /\ pc'[u] \in Releasing)
    BY <1>2, FdsAreNats DEF LibInv, OneOpen, Releasing
  <2>2. \A f \in Fds : fdtab'[f] = "ipc" => pc'[t] = "assign" /\ local'[t] = f
    BY <1>2, <1>8
  <2>3. ipcfd' = -1 /\ \A u \in Threads : pc'[u] # "forget"
    BY <1>2, FdsAreNats DEF LibInv, Placed, OneOpen, libVars, Releasing
  <2>4. QED
    BY <2>1, <2>2, <2>3 DEF OneOpen
<1>10. OwnFile'
  BY <1>2, <1>8 DEF LibInv, Overlaps, OneOpen, OwnFile, Releasing, libVars, history
<1>11. QED
  BY <1>4, <1>5, <1>6, <1>9, <1>10 DEF LibInv

(* Every step.                                                             *)
LEMMA LibNextInv == LibInv /\ [LibNext]_vars => LibInv'
<1> SUFFICES ASSUME LibInv, [LibNext]_vars PROVE LibInv'
  OBVIOUS
<1>1. CASE UNCHANGED vars
  BY <1>1 DEF vars, libVars, history, LibInv, LibData, LocalsFit, MutexHeld, Placed,
              Overlaps, OneOpen, OwnFile
<1>2. ASSUME NEW t \in Threads,
             CallOpens(t) \/ CallClose(t) \/ \E id \in Ids : CallRel(t, id)
      PROVE  LibInv'
  <2>1. CASE CallOpens(t)
    BY <2>1, BeginsInv DEF CallOpens
  <2>2. CASE CallClose(t)
    BY <2>2, BeginsInv DEF CallClose
  <2>3. ASSUME NEW id \in Ids, CallRel(t, id)
        PROVE  LibInv'
    BY <2>3, BeginsInv DEF CallRel
  <2>4. QED
    BY <1>2, <2>1, <2>2, <2>3
<1>3. QED
  BY <1>1, <1>2, OthersInv, LockInv, TestInv, OpensInv, OpenFailsInv, AssignInv,
     CheckInv, ValueInv, QuietInv, GetDoneInv, RelDoneInv, LoadInv, UpInv, DownInv,
     ZeroInv, RelClosesInv, ForgetsInv, CloseTestInv, ClosesInv
  DEF LibNext

(* The invariant of LibSpec.                                               *)
LEMMA LibInvariant == LibSpec => []LibInv
<1>1. LibInit => LibInv
  <2> SUFFICES ASSUME LibInit PROVE LibInv
    OBVIOUS
  <2>1. LibData /\ LocalsFit /\ MutexHeld /\ Placed
    BY LibAssumption
    DEF LibInit, LibData, LocalsFit, MutexHeld, Placed, Labels, Counts, InOpen,
        Opening, NoCall
  <2>2. Overlaps /\ OneOpen /\ OwnFile
    BY FdsAreNats DEF LibInit, Overlaps, OneOpen, OwnFile, NoCall, MayClose
  <2>3. QED
    BY <2>1, <2>2 DEF LibInv
<1>2. QED
  BY <1>1, LibNextInv, PTL DEF LibSpec

-----------------------------------------------------------------------------
(***************************************************************************)
(* The theorems.                                                           *)
(***************************************************************************)

(* The library's variables keep their types, and its mutex belongs to the  *)
(* thread that is inside ipc_open, to nobody if none is.                   *)
THEOREM LibTypesHold == LibSpec => []LibTypeOK
<1>1. LibInv => LibTypeOK
  BY DEF LibInv, LibData, MutexHeld, LibTypeOK, Counts
<1>2. QED
  BY <1>1, LibInvariant, PTL

(* While no two threads release at once the process has the device open at *)
(* most once, although only ipc_open takes the mutex.                      *)
THEOREM OneDescriptorAtMost == LibSpec => []OneDescriptor
<1>1. LibInv => OneDescriptor
  <2> SUFFICES ASSUME LibInv, "rels" \notin overlapped
               PROVE  Cardinality({f \in Fds : fdtab[f] = "ipc"}) <= 1
    BY DEF OneDescriptor
  <2> DEFINE open == {f \in Fds : fdtab[f] = "ipc"}
  <2>1. \E x : open \subseteq {x}
    <3>1. CASE \E t \in Threads : pc[t] = "assign"
      <4>1. PICK t \in Threads : pc[t] = "assign"
        BY <3>1
      <4>2. \A u \in Threads : pc[u] = "assign" => u = t
        BY <4>1 DEF LibInv, MutexHeld, Opening
      <4>3. \A f \in open : f = local[t]
        BY <4>1, <4>2, FdsAreNats DEF LibInv, OneOpen
      <4>4. QED
        BY <4>3
    <3>2. CASE \A t \in Threads : pc[t] # "assign"
      <4>1. \A f \in open : f = ipcfd
        BY <3>2 DEF LibInv, OneOpen
      <4>2. QED
        BY <4>1
    <3>3. QED
      BY <3>1, <3>2
  <2>2. PICK x : open \subseteq {x}
    BY <2>1
  <2>3. IsFiniteSet({x}) /\ Cardinality({x}) = 1
    BY FS_Singleton
  <2>4. Cardinality(open) <= Cardinality({x})
    BY <2>2, <2>3, FS_Subset
  <2>5. QED
    BY <2>3, <2>4
<1>2. QED
  BY <1>1, LibInvariant, PTL

(* Calls that do not overlap close no file of the rest of the program      *)
(* before ipc_close has been called twice.                                 *)
THEOREM ClosesNoOtherFile == LibSpec => ClosesOwnFileOnly
<1> DEFINE Own == \A f \in Fds :
                    fdtab[f] = "other" /\ fdtab'[f] # "other" /\ pc' # pc
                      => closes > 1 \/ "calls" \in overlapped
<1>1. LibInv /\ [LibNext]_vars => [Own]_vars
  <2> SUFFICES ASSUME LibInv, LibNext,
                      NEW f \in Fds, fdtab[f] = "other", fdtab'[f] # "other",
                      pc' # pc, "calls" \notin overlapped
               PROVE  closes > 1
    OBVIOUS
  <2>1. PICK t \in Threads : LibOpens(t) \/ RelCloses(t) \/ CloseCloses(t)
    BY DEF LibNext, OtherOpens, OtherCloses, CallOpens, CallRel, CallClose, Begins,
           LibLock, LibTest, LibOpenFails, LibAssign, LibCheck, LibValue, UseRefused,
           IoctlFails, UseDone, GetDone, RelDone, CountLoad, CountUp, CountDown,
           RelNotLast, RelLast, RelForgets, CloseTest
  <2>2. CASE LibOpens(t)
    <3>1. fdtab[Min(FreeFds)] = "free"
      BY <2>2, MinIsIn DEF LibOpens, FreeFds
    <3>2. QED
      BY <2>2, <3>1 DEF LibOpens
  <2>3. CASE RelCloses(t)
    <3>1. f = ipcfd /\ pc[t] = "last" /\ call[t].op = "rel"
      BY <2>3 DEF RelCloses, Closed, LibInv, Placed
    <3>2. QED
      BY <3>1 DEF LibInv, OwnFile, Releasing
  <2>4. CASE CloseCloses(t)
    <3>1. f = ipcfd /\ pc[t] = "close" /\ call[t].op = "close"
      BY <2>4 DEF CloseCloses, Closed, LibInv, Placed
    <3>2. \A u \in Threads : pc[u] # "forget"
      BY <3>1 DEF LibInv, Placed, Overlaps, MayClose
    <3>3. closes # 1 /\ closes > 0 /\ closes \in Nat
      BY <3>1, <3>2 DEF LibInv, LibData, OwnFile
    <3>4. QED
      BY <3>3
  <2>5. QED
    BY <2>1, <2>2, <2>3, <2>4
<1>2. QED
  BY <1>1, LibInvariant, PTL DEF LibSpec, ClosesOwnFileOnly

-----------------------------------------------------------------------------
(***************************************************************************)
(* What msqcnt is for.                                                     *)
(***************************************************************************)

(* A program that releases what it has got, once, one call at a time.      *)
Orderly == proper /\ closes = 0 /\ overlapped = {}

Counting == {"load", "count"}

(* t has released a queue that msqcnt still counts.                        *)
Uncounted(t) == call[t].op = "rel" /\ pc[t] \in Counting

(* In such a program msqcnt is the number of queues the process has, and   *)
(* one more while a release is on its way to count it; what a get is about *)
(* to count is new, and the device is open meanwhile.                      *)
Counted ==
  Orderly =>
    /\ IsFiniteSet(held)
    /\ (\E t \in Threads : Uncounted(t)) => msqcnt = Cardinality(held) + 1
    /\ (\A t \in Threads : ~Uncounted(t)) => msqcnt = Cardinality(held)
    /\ \A t \in Threads :
         /\ pc[t] = "count" => local[t] = msqcnt
         /\ call[t].op = "get" /\ pc[t] \in Counting =>
              ipcfd \in Fds /\ \E id : id \notin held /\ call[t].ids = {id}
         /\ call[t].op = "rel" /\ pc[t] = "ioctl" =>
              \E id : id \in held /\ call[t].ids = {id}
         /\ pc[t] \in {"last", "forget"} => held = {}
    /\ held # {} => ipcfd \in Fds

(* Steps that neither count nor change what the process has.               *)
LEMMA UncountedSteps ==
  ASSUME LibInv, Counted,
         UNCHANGED <<ipcfd, msqcnt, held>>, Orderly' => Orderly,
         \A u \in Threads :
           /\ pc[u] \in Counting \/ pc'[u] \in Counting =>
                pc'[u] = pc[u] /\ call'[u] = call[u] /\ local'[u] = local[u]
           /\ call'[u].op = "rel" /\ pc'[u] = "ioctl" =>
                pc[u] = "ioctl" /\ call'[u] = call[u]
           /\ pc'[u] \in {"last", "forget"} => pc[u] \in {"last", "forget"}
  PROVE  Counted'
<1> SUFFICES ASSUME Orderly, Orderly'
             PROVE  Counted'
  BY DEF Counted
<1>1. \A u \in Threads : Uncounted(u)' <=> Uncounted(u)
  BY DEF Uncounted
<1>2. QED
  BY <1>1 DEF Counted, Counting

(* The threads that open the device, or close it.                          *)
LEMMA OpensCounted ==
  ASSUME LibInv, Counted, NEW t \in Threads,
         \/ LibLock(t) \/ LibTest(t) \/ LibOpens(t) \/ LibOpenFails(t)
         \/ LibCheck(t) \/ LibValue(t) \/ RelCloses(t)
         \/ CloseTest(t) \/ CloseCloses(t)
  PROVE  Counted'
<1> USE DEF Goto, Return, Remember, libVars, history, Orderly, Counting, NoCall
<1>1. CASE LibLock(t) \/ LibTest(t) \/ LibCheck(t)
  BY <1>1, UncountedSteps DEF LibInv, LibData, LibLock, LibTest, LibCheck
<1>2. CASE LibOpens(t) \/ LibOpenFails(t)
  <2>1. \A u \in Threads \ {t} : local'[u] = local[u]
    BY <1>2 DEF LibInv, LibData, LibOpens, LibOpenFails
  <2>2. QED
    BY <1>2, <2>1, UncountedSteps DEF LibInv, LibData, LibOpens, LibOpenFails
<1>3. CASE LibValue(t)
  BY <1>3, UncountedSteps DEF LibInv, LibData, Placed, InOpen, LibValue
<1>4. CASE RelCloses(t) \/ CloseTest(t) \/ CloseCloses(t)
  BY <1>4, UncountedSteps DEF LibInv, LibData, RelCloses, CloseTest, CloseCloses
<1>5. QED
  BY <1>1, <1>2, <1>3, <1>4

(* ipcfd is set while the process has no queue.                            *)
LEMMA AssignCounted ==
  ASSUME LibInv, Counted, NEW t \in Threads, LibAssign(t)
  PROVE  Counted'
<1> SUFFICES ASSUME Orderly, Orderly'
             PROVE  Counted'
  BY DEF Counted, Orderly, LibAssign, history
<1>1. ipcfd \notin Fds
  BY FdsAreNats DEF LibInv, OneOpen, Orderly, LibAssign
<1>2. held = {} /\ \A u \in Threads : ~(call[u].op = "get" /\ pc[u] \in Counting)
  BY <1>1 DEF Counted
<1>3. /\ pc[t] = "assign"
      /\ \A u \in Threads : pc'[u] = IF u = t THEN "check" ELSE pc[u]
      /\ \A u \in Threads : local'[u] = IF u = t THEN 0 ELSE local[u]
      /\ UNCHANGED <<call, msqcnt, held>>
  BY DEF LibInv, LibData, LibAssign, Goto, Remember, history
<1>4. \A u \in Threads : Uncounted(u)' <=> Uncounted(u)
  BY <1>3 DEF Uncounted, Counting
<1>5. QED
  BY <1>2, <1>3, <1>4 DEF Counted, Counting

(* A call begins: an orderly program releases what it has.                 *)
LEMMA BeginsCounted ==
  ASSUME LibInv, Counted, NEW t \in Threads,
         CallOpens(t) \/ CallClose(t) \/ \E id \in Ids : CallRel(t, id)
  PROVE  Counted'
<1> SUFFICES ASSUME Orderly'
             PROVE  Counted'
  BY DEF Counted
<1>1. Orderly /\ UNCHANGED <<ipcfd, msqcnt, held, local>>
  <2>1. overlapped \subseteq overlapped' /\ UNCHANGED <<ipcfd, msqcnt, held, local>>
    BY DEF CallOpens, CallClose, CallRel, Begins, libVars
  <2>2. closes' \in {closes, closes + 1} /\ closes \in Nat
    BY DEF LibInv, LibData, CallOpens, CallClose, CallRel
  <2>3. proper' => proper
    BY DEF CallOpens, CallClose, CallRel
  <2>4. QED
    BY <2>1, <2>2, <2>3 DEF Orderly
<1>2. /\ pc[t] = "idle"
      /\ \A u \in Threads : u # t => pc'[u] = pc[u] /\ call'[u] = call[u]
      /\ pc'[t] \in {"lock", "closing", "ioctl"}
  BY DEF LibInv, LibData, CallOpens, CallClose, CallRel, Begins
<1>3. call'[t].op = "rel" /\ pc'[t] = "ioctl" =>
        \E id : id \in held /\ call'[t].ids = {id}
  <2>1. CASE CallOpens(t) \/ CallClose(t)
    BY <2>1 DEF CallOpens, CallClose, Begins, LibInv, LibData
  <2>2. ASSUME NEW id \in Ids, CallRel(t, id)
        PROVE  id \in held /\ call'[t].ids = {id}
    BY <2>2 DEF CallRel, Begins, Orderly, LibInv, LibData
  <2>3. QED
    BY <2>1, <2>2
<1>4. \A u \in Threads : Uncounted(u)' <=> Uncounted(u)
  BY <1>2 DEF Uncounted, Counting
<1>5. QED
  BY <1>1, <1>2, <1>3, <1>4 DEF Counted, Counting

(* Calls the device refuses, or that keep nothing, and the end of a        *)
(* release that is not the last.                                           *)
LEMMA EndsCounted ==
  ASSUME LibInv, Counted, NEW t \in Threads,
         UseRefused(t) \/ IoctlFails(t) \/ UseDone(t) \/ RelNotLast(t)
  PROVE  Counted'
<1>1. /\ pc[t] \in {"ioctl", "zero"} /\ Return(t)
      /\ UNCHANGED <<libVars, fdtab, local, history>>
  BY DEF UseRefused, IoctlFails, UseDone, RelNotLast
<1>2. QED
  BY <1>1, UncountedSteps
  DEF LibInv, LibData, Return, NoCall, libVars, history, Orderly, Counting

(* The device answers a get with a queue the process has not.              *)
LEMMA GetDoneCounted ==
  ASSUME LibInv, Counted, NEW t \in Threads, NEW id \in Ids, GetDone(t, id)
  PROVE  Counted'
<1> SUFFICES ASSUME Orderly, Orderly'
             PROVE  Counted'
  BY DEF Counted, Orderly, GetDone
<1>1. /\ pc[t] = "ioctl" /\ call[t].op = "get" /\ ipcfd \in Fds /\ id \notin held
      /\ \A u \in Threads : pc'[u] = IF u = t THEN "load" ELSE pc[u]
      /\ \A u \in Threads : u # t => call'[u] = call[u]
      /\ call'[t].op = "get" /\ call'[t].ids = {id}
      /\ UNCHANGED <<ipcfd, msqcnt, held, local>>
  BY DEF LibInv, LibData, GetDone, OpenOn, Orderly, libVars
<1>2. \A u \in Threads : Uncounted(u)' <=> Uncounted(u)
  BY <1>1 DEF Uncounted, Counting
<1>3. QED
  BY <1>1, <1>2 DEF Counted, Counting

(* The device releases a queue the process has, and the only one.          *)
LEMMA RelDoneCounted ==
  ASSUME LibInv, Counted, NEW t \in Threads, RelDone(t)
  PROVE  Counted'
<1> SUFFICES ASSUME Orderly, Orderly'
             PROVE  Counted'
  BY DEF Counted, Orderly, RelDone
<1>1. /\ pc[t] = "ioctl" /\ call[t].op = "rel" /\ ipcfd \in Fds
      /\ \A u \in Threads : pc'[u] = IF u = t THEN "load" ELSE pc[u]
      /\ held' = held \ call[t].ids
      /\ UNCHANGED <<ipcfd, msqcnt, call, local>>
  BY DEF LibInv, LibData, RelDone, OpenOn, Goto, libVars
<1>2. \A u \in Threads : call[u].op \in MayClose => u = t
  BY <1>1 DEF LibInv, Overlaps, Orderly, MayClose
<1>3. PICK id : id \in held /\ call[t].ids = {id}
  BY <1>1 DEF Counted
<1>4. IsFiniteSet(held') /\ Cardinality(held') = Cardinality(held) - 1
  BY <1>1, <1>3, FS_RemoveElement DEF Counted
<1>5. IsFiniteSet(held) /\ Cardinality(held) \in Nat /\ msqcnt = Cardinality(held)
  BY <1>1, <1>2, FS_CardinalityType DEF Counted, Uncounted, Counting, MayClose
<1>6. \A u \in Threads : Uncounted(u)' <=> u = t
  BY <1>1, <1>2 DEF Uncounted, Counting, MayClose
<1>7. \A u \in Threads : pc'[u] \notin {"count", "last", "forget"}
  BY <1>1, <1>2 DEF LibInv, Placed, MayClose
<1>8. QED
  BY <1>1, <1>2, <1>4, <1>5, <1>6, <1>7 DEF Counted, Counting, MayClose

(* msqcnt is read.                                                         *)
LEMMA LoadCounted ==
  ASSUME LibInv, Counted, NEW t \in Threads, CountLoad(t)
  PROVE  Counted'
<1> SUFFICES ASSUME Orderly, Orderly'
             PROVE  Counted'
  BY DEF Counted, Orderly, CountLoad, history
<1>1. /\ pc[t] = "load"
      /\ \A u \in Threads : pc'[u] = IF u = t THEN "count" ELSE pc[u]
      /\ \A u \in Threads : local'[u] = IF u = t THEN msqcnt ELSE local[u]
      /\ UNCHANGED <<ipcfd, msqcnt, call, held>>
  BY DEF LibInv, LibData, CountLoad, Goto, Remember, libVars, history
<1>2. \A u \in Threads : Uncounted(u)' <=> Uncounted(u)
  BY <1>1 DEF Uncounted, Counting
<1>3. QED
  BY <1>1, <1>2 DEF Counted, Counting

(* msqcnt++.                                                               *)
LEMMA UpCounted ==
  ASSUME LibInv, Counted, NEW t \in Threads, CountUp(t)
  PROVE  Counted'
<1> SUFFICES ASSUME Orderly, Orderly'
             PROVE  Counted'
  BY DEF Counted, Orderly, CountUp
<1>1. /\ pc[t] = "count" /\ call[t].op = "get" /\ ipcfd \in Fds
      /\ \A u \in Threads : pc'[u] = IF u = t THEN "idle" ELSE pc[u]
      /\ \A u \in Threads : call'[u] = IF u = t THEN NoCall ELSE call[u]
      /\ msqcnt' = msqcnt + 1
      /\ held' = held \cup call[t].ids
      /\ UNCHANGED ipcfd
  BY DEF LibInv, LibData, CountUp, Return, Counted, Counting
<1>2. \A u \in Threads : call[u].op \in MayClose => u = t
  BY <1>1 DEF LibInv, Overlaps, Orderly, MayClose
<1>3. PICK id : id \notin held /\ call[t].ids = {id}
  BY <1>1 DEF Counted, Counting
<1>4. IsFiniteSet(held') /\ Cardinality(held') = Cardinality(held) + 1
  BY <1>1, <1>3, FS_AddElement DEF Counted
<1>5. msqcnt = Cardinality(held)
  BY <1>1, <1>2 DEF Counted, Uncounted, MayClose
<1>6. \A u \in Threads : /\ pc'[u] \notin Counting \cup {"last", "forget"}
                         /\ call'[u].op \notin MayClose
  BY <1>1, <1>2 DEF LibInv, Placed, NoCall, Counting, MayClose
<1>7. QED
  BY <1>1, <1>4, <1>5, <1>6 DEF Counted, Uncounted, Counting, MayClose

(* msqcnt--.                                                               *)
LEMMA DownCounted ==
  ASSUME LibInv, Counted, NEW t \in Threads, CountDown(t)
  PROVE  Counted'
<1> SUFFICES ASSUME Orderly, Orderly'
             PROVE  Counted'
  BY DEF Counted, Orderly, CountDown, history
<1>1. /\ pc[t] = "count" /\ call[t].op = "rel"
      /\ \A u \in Threads : pc'[u] = IF u = t THEN "zero" ELSE pc[u]
      /\ msqcnt' = msqcnt - 1
      /\ UNCHANGED <<ipcfd, call, held>>
  BY DEF LibInv, LibData, CountDown, Goto, Counted, history
<1>2. \A u \in Threads : call[u].op \in MayClose => u = t
  BY <1>1 DEF LibInv, Overlaps, Orderly, MayClose
<1>3. /\ IsFiniteSet(held) /\ Cardinality(held) \in Nat
      /\ msqcnt = Cardinality(held) + 1
  BY <1>1, FS_CardinalityType DEF Counted, Uncounted, Counting
<1>4. \A u \in Threads : pc'[u] \notin Counting \cup {"last", "forget"}
  BY <1>1, <1>2 DEF LibInv, Placed, Counting, MayClose
<1>5. QED
  BY <1>1, <1>2, <1>3, <1>4 DEF Counted, Uncounted, Counting, MayClose

(* A release finds that it was the last one.                               *)
LEMMA LastCounted ==
  ASSUME LibInv, Counted, NEW t \in Threads, RelLast(t)
  PROVE  Counted'
<1> SUFFICES ASSUME Orderly, Orderly'
             PROVE  Counted'
  BY DEF Counted, Orderly, RelLast, history
<1>1. /\ pc[t] = "zero" /\ msqcnt = 0 /\ call[t].op = "rel"
      /\ \A u \in Threads : pc'[u] = IF u = t THEN "last" ELSE pc[u]
      /\ UNCHANGED <<ipcfd, msqcnt, call, held, local>>
  BY DEF LibInv, LibData, Placed, RelLast, Goto, libVars, history
<1>2. \A u \in Threads : call[u].op \in MayClose => u = t
  BY <1>1 DEF LibInv, Overlaps, Orderly, MayClose
<1>3. \A u \in Threads : ~Uncounted(u) /\ ~Uncounted(u)'
  BY <1>1, <1>2 DEF Uncounted, Counting, MayClose
<1>4. held = {}
  BY <1>1, <1>3, FS_EmptySet DEF Counted
<1>5. QED
  BY <1>1, <1>3, <1>4 DEF Counted, Counting

(* The last release forgets ipcfd: the process has nothing.                *)
LEMMA ForgetsCounted ==
  ASSUME LibInv, Counted, NEW t \in Threads, RelForgets(t)
  PROVE  Counted'
<1> SUFFICES ASSUME Orderly, Orderly'
             PROVE  Counted'
  BY DEF Counted, Orderly, RelForgets, history
<1>1. /\ pc[t] = "forget" /\ call[t].op = "rel" /\ held = {}
      /\ \A u \in Threads : pc'[u] = IF u = t THEN "idle" ELSE pc[u]
      /\ \A u \in Threads : call'[u] = IF u = t THEN NoCall ELSE call[u]
      /\ UNCHANGED <<msqcnt, held, local>>
  BY DEF LibInv, LibData, Placed, RelForgets, Return, Counted, history
<1>2. \A u \in Threads : call[u].op \in MayClose => u = t
  BY <1>1 DEF LibInv, Overlaps, Orderly, MayClose
<1>3. \A u \in Threads : /\ pc'[u] \notin Counting \cup {"last", "forget"}
                         /\ call'[u].op \notin MayClose
  BY <1>1, <1>2 DEF LibInv, Placed, NoCall, Counting, MayClose
<1>4. \A u \in Threads : ~Uncounted(u) /\ ~Uncounted(u)'
  BY <1>1, <1>2, <1>3 DEF Uncounted, Counting, MayClose
<1>5. QED
  BY <1>1, <1>3, <1>4 DEF Counted, Counting, MayClose

(* Every step.                                                             *)
LEMMA CountedNext == LibInv /\ Counted /\ [LibNext]_vars => Counted'
<1> SUFFICES ASSUME LibInv, Counted, [LibNext]_vars PROVE Counted'
  OBVIOUS
<1>1. CASE UNCHANGED vars
  BY <1>1 DEF vars, libVars, history, Counted, Orderly, Uncounted
<1>2. CASE OtherOpens \/ OtherCloses
  BY <1>2 DEF OtherOpens, OtherCloses, libVars, history, Counted, Orderly, Uncounted
<1>3. QED
  BY <1>1, <1>2, OpensCounted, AssignCounted, BeginsCounted, EndsCounted,
     GetDoneCounted, RelDoneCounted, LoadCounted, UpCounted, DownCounted,
     LastCounted, ForgetsCounted
  DEF LibNext

(* While a process that releases what it has got, once and one call at a   *)
(* time, has a queue, the library has not closed the device: msqcnt, which *)
(* no mutex protects, has counted every get and every release.             *)
THEOREM HeldQueuesKeepDevice == LibSpec => []HeldKeepsDevice
<1>1. LibInit => Counted
  BY FS_EmptySet DEF LibInit, Counted, Uncounted, Counting, NoCall
<1>2. LibInv /\ Counted => HeldKeepsDevice
  <2> SUFFICES ASSUME LibInv, Counted, Orderly, held # {}
               PROVE  OpenOn(ipcfd) = "ipc"
    BY DEF HeldKeepsDevice, Orderly
  <2>1. ipcfd \in Fds /\ \A t \in Threads : pc[t] # "forget"
    BY DEF Counted
  <2>2. QED
    BY <2>1 DEF LibInv, OwnFile, Orderly, OpenOn
<1>3. QED
  BY <1>1, <1>2, CountedNext, LibInvariant, PTL DEF LibSpec
=============================================================================
