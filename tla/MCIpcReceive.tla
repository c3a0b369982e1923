---------------------------- MODULE MCIpcReceive ----------------------------
(***************************************************************************)
(* Instances of IpcReceive for TLC: one name, a key with that name and a   *)
(* key without, and messages of one word.                                 *)
(***************************************************************************)
EXTENDS IpcReceive

CONSTANTS w1, junk

OneKey == {1}
TwoKeys == {1, 2}
OnePath == {<<1>>}
ShortMsg == {<<w1>>}
ShortLeftover == {<<junk>>}

(* No guard and no invariant reads ret and out: states that differ only    *)
(* there behave alike.  TLC checks action properties on every step, before *)
(* it compares states.                                                     *)
View == <<msgQueTbl, msgQueTokenStr, lock, pc, loc, rcv, intr, irq>>
=============================================================================
