----------------------------- MODULE MCIpcMsgque -----------------------------
(***************************************************************************)
(* An instance of IpcLookup for TLC: "bc" and "db", whose hashes collide,  *)
(* and "ababbabaaamz", which fills its entry and whose hash is the key 0   *)
(* of free entries; and a key no name has.                                 *)
(***************************************************************************)
EXTENDS IpcLookup, TLC

LongName == <<97, 98, 97, 98, 98, 97, 98, 97, 97, 97, 109, 122>>
MCPaths == {<<98, 99>>, <<100, 98>>, LongName}
MCKeys == {0, 148, 1}
MCMsgs == {}
MCLeftovers == {<<"junk">>}

(* What a call returned is looked at in the step that returns it.  Of a    *)
(* free slot the key is read by a lookup that found the slot registered,   *)
(* and nothing else, before a get writes it again.                         *)
KeysRead ==
  [s \in Slots |->
     IF msgQueTbl[s].initkey \/ \E t \in Threads : pc[t] = "key" /\ loc[t].slot = s
     THEN msgQueTbl[s].sharekey ELSE NoKey]

InUse == {s \in Slots : msgQueTbl[s].initkey}

Ids == [s \in Slots |-> msgQueTbl[s].msqid]

View == <<InUse, KeysRead, Ids, names, lock, pc, loc, seen, kept>>

Symmetry == Permutations(Threads)
=============================================================================
