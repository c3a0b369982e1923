----------------------------- MODULE IpcLookup -----------------------------
(***************************************************************************)
(* What ipc_msgque_getIDbyKey may answer.  Its loop takes no lock, so the  *)
(* table may be another one at each of its reads, and by the time it       *)
(* returns the queue it found may be gone.  What its answer can promise is *)
(* a relation to the states the table had while it ran: two history        *)
(* variables record them, and nothing of IpcMsgque reads them.             *)
(***************************************************************************)
EXTENDS IpcMsgque

VARIABLES
  seen,     \* per thread in a lookup, the slots registered under its key at
            \* some moment since it began
  kept      \* the slots registered under its key ever since it began

lookupVars == <<tableVars, seen, kept>>

Looks(t) == pc[t] \in InLookup

(* The queues a lookup of thread t may find at this moment.                *)
Matching(t) ==
  {s \in Slots : Settled(s) /\ msgQueTbl[s].sharekey = loc[t].key}

(* A step, seen by the lookups it begins, meets or ends.                   *)
Recorded ==
  /\ seen' = [t \in Threads |->
       IF ~Looks(t)' THEN {}
       ELSE IF Looks(t) THEN seen[t] \cup Matching(t)' ELSE Matching(t)']
  /\ kept' = [t \in Threads |->
       IF ~Looks(t)' THEN {}
       ELSE IF Looks(t) THEN kept[t] \cap Matching(t)' ELSE Matching(t)']

LookupInit ==
  /\ TableInit
  /\ seen = [t \in Threads |-> {}]
  /\ kept = [t \in Threads |-> {}]

LookupNext == TableNext /\ Recorded

LookupSpec == LookupInit /\ [][LookupNext]_lookupVars

-----------------------------------------------------------------------------
(***************************************************************************)
(* Properties.                                                             *)
(***************************************************************************)

Answers(t) == Looks(t) /\ ~Looks(t)'

(* getIDbyKey "get msq id by key": the id it returns is that of a queue    *)
(* that was registered under the key at some moment of the call, although  *)
(* initkey, sharekey and msqid are read one after the other and gets and   *)
(* releases change the slot in between.                                    *)
LookupSound ==
  [][\A t \in Threads :
       Answers(t) /\ ret'[t] # -3 => ret'[t] \in seen[t]]_lookupVars

(* And it does not miss a queue: where it finds none, no queue has had the *)
(* key from its beginning to its end, whatever other slots were registered *)
(* and released behind its back.                                           *)
LookupComplete ==
  [][\A t \in Threads :
       Answers(t) /\ ret'[t] = -3 => kept[t] = {}]_lookupVars

=============================================================================
