----------------------------- MODULE MCIpcSend -----------------------------
(***************************************************************************)
(* Instances of IpcSend for TLC.  One message fits a buffer; the other one *)
(* runs over its end and puts core 1 where the word sendTo of the buffer   *)
(* behind is.                                                              *)
(***************************************************************************)
EXTENDS IpcSend

MCData == {<<7>>, <<8, 8, 8, 1, 8>>}
ShortData == {<<7>>}

(* What decides the future of the properties checked.  What a call         *)
(* returned, the last key, the status bits and the trigger are read by     *)
(* nobody afterwards.  A word sendTo is looked at after it was copied; the *)
(* message, until the comparison with what is handed to core 1; the        *)
(* buffers, those of core 1 until the first signal.                        *)
Local(t) ==
  LET s == snd[t]
  IN  CASE pc[t] = "up" -> <<s.sendTo, s.slot>>
        [] pc[t] = "cmd" /\ (s.sendTo # Core1 \/ signalled)
             -> <<s.sendTo, s.slot, SendToRead(t)>>
        [] pc[t] = "cmd" -> <<s, SendToRead(t)>>
        [] OTHER -> s

Where == <<initkey, semid, pc, [t \in Senders |-> Local(t)], pingponidx>>

HandedOver == {i \in Slot : regs["cmdbuf3"] = AddrWord(Core1, i)}

View ==
  IF signalled THEN <<TRUE, Where>>
  ELSE <<FALSE, Where, HandedOver, [a \in 0 .. Base(Core2, 0) - 1 |-> mem[a]]>>
=============================================================================
