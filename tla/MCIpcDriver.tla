---------------------------- MODULE MCIpcDriver ----------------------------
(***************************************************************************)
(* Instance of IpcDriver for TLC: two slots, a key with a name and a key   *)
(* without one.  No message is posted: rings have one element each.        *)
(***************************************************************************)
EXTENDS IpcDriver

MCKeys == {1, 2}
MCPaths == {<<1>>}
MCMsgs == {}
MCLeftovers == {<<"junk">>}

(* States that differ only in what nobody reads again behave alike: the    *)
(* id a free slot had and, unless a lookup is about to read it, its key;   *)
(* which entries hold the only name; the mask of a file that is closed or  *)
(* will never be, and the bits a close has passed; what a call returned    *)
(* unless a GET waits to store it; and, once the mutex is gone for good,   *)
(* the ids that threads wait to store or to clear.                         *)
Registrations ==
  [s \in Slots |->
     IF msgQueTbl[s].initkey \/ \E t \in Threads : pc[t] = "key" /\ loc[t].slot = s
     THEN <<msgQueTbl[s].initkey, msgQueTbl[s].sharekey>> ELSE << >>]

Names == Cardinality(FreeTokens)

Waits(t) == ipc_mutex # Free /\ call[t].op \in {"rel", "stuck"}

Unpassed(f) ==
  {s \in storequebit[f] :
     \A t \in Threads :
       call[t].op = "close" /\ f \in call[t].file => s >= call[t].id}

Masks ==
  [f \in Files |->
     IF file[f] = "closed" \/ \E t \in Threads : Waits(t) /\ f \in call[t].file
     THEN {} ELSE Unpassed(f)]

Found ==
  [t \in Threads |->
     IF call[t].op = "get" /\ pc[t] = "idle"
     THEN IF ipc_mutex # Free /\ ret[t] >= 0 THEN 0 ELSE ret[t]
     ELSE 0]

Calls ==
  [t \in Threads |-> IF Waits(t) THEN [call[t] EXCEPT !.id = 0] ELSE call[t]]

Looking == [t \in Threads |-> IF pc[t] = "found" THEN loc[t].slot ELSE loc[t]]

View == <<Registrations, Names, pc, Looking, file, Masks, ipc_mutex, Calls, Found>>
=============================================================================
