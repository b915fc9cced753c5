----------------------------- MODULE CottiI2CInv -----------------------------
(***************************************************************************)
(* The inductive invariant of CottiI2C when no answer is late: what holds  *)
(* at each statement of cotti_i2c_read and cotti_i2c_write.                *)
(***************************************************************************)
EXTENDS CottiI2C

(* At most one process reads: without this ReadReturnsOwn is not true.     *)
OneReader == \A p, q \in Readers : p = q

Length(p) == IF IsRead(p) THEN 1 ELSE 2

(* What the sensor has to do for a call of p that succeeds by writing.     *)
Stored(p) == did[p] = <<req[p].reg, req[p].val>>

Quiet == mode = "idle" /\ irq = {}

Buffer(p) ==
    IF IsRead(p) THEN gWrite[0] = req[p].reg
    ELSE gWrite[1] = req[p].reg /\ gWrite[0] = req[p].val

(* While p waits for the bytes of its first transfer to leave.             *)
Sending(p) ==
    /\ Buffer(p)
    /\ mode # "rx" /\ compRead = 0 /\ "RRDY" \notin irq
    /\ cnt <= Length(p)
    /\ cnt > 0 \/ IsRead(p) => did[p] = None
    /\ "XRDY" \in irq => tx = None /\ cnt > 0 /\ gLen = cnt
    /\ mode = "tx" =>
         /\ compStop = 0 /\ "ARDY" \notin irq
         /\ tx = None => gLen = cnt
         /\ tx # None => cnt > 0 /\ gLen = cnt - 1 /\ tx = gWrite[gLen]
         /\ due = "reg" <=> cnt = Length(p)
    /\ mode = "tx" \/ cnt = 0 => irq \cap {"AL", "NACK"} = {}
    /\ cnt < Length(p) => ptr = req[p].reg
    /\ cnt = 0 /\ ~IsRead(p) => Stored(p)
    /\ cnt = 0 => gLen = 0
    /\ mode = "idle" /\ cnt = 0 =>
         \/ compStop = 1 /\ "ARDY" \notin irq
         \/ compStop = 0 /\ "ARDY" \in irq
    /\ mode = "idle" /\ cnt > 0 => compStop = 0 /\ "ARDY" \notin irq

(* While p, a reader, waits for the byte of its second transfer.           *)
Receiving(p) ==
    /\ mode # "tx" /\ "XRDY" \notin irq
    /\ ptr = req[p].reg
    /\ mode = "rx" \/ cnt = 0 => irq \cap {"AL", "NACK"} = {}
    /\ cnt = 1 =>
         /\ pc[p] = "rxdata" /\ did[p] = None
         /\ gLen = 1 /\ compRead = 0 /\ compStop = 0
         /\ irq \cap {"RRDY", "ARDY"} = {}
    /\ cnt # 1 => cnt = 0 /\ did[p] = <<req[p].reg, rx>>
    /\ "RRDY" \in irq => pc[p] = "rxdata" /\ gLen = 1 /\ compRead = 0
    /\ cnt = 0 /\ "RRDY" \notin irq =>
         gRead = rx /\ compRead = (IF pc[p] = "rxdata" THEN 1 ELSE 0)
    /\ cnt = 0 /\ mode = "rx" => compStop = 0 /\ "ARDY" \notin irq
    /\ cnt = 0 /\ mode = "idle" =>
         \/ compStop = 1 /\ "ARDY" \notin irq
         \/ compStop = 0 /\ "ARDY" \in irq

(* What holds at each statement of a call.                                 *)
At(p) ==
    /\ pc[p] \in {"poll", "lock", "count", "start"} => did[p] = None
    /\ pc[p] \in {"count", "start", "rxcount", "rxstart", "finish"} =>
         compRead = 0 /\ compStop = 0
    /\ pc[p] = "start" => Buffer(p) /\ gLen = Length(p) /\ cnt = Length(p)
    /\ pc[p] \in {"drain", "stop"} => Sending(p)
    /\ pc[p] = "fail" => compRead = 0
    /\ pc[p] \in {"rxcount", "rxstart"} => did[p] = None /\ ptr = req[p].reg
    /\ pc[p] = "rxstart" => gLen = 1 /\ cnt = 1
    /\ pc[p] \in {"rxdata", "rxstop"} => Receiving(p)
    /\ pc[p] \in {"rxcount", "rxstart", "rxdata", "rxstop", "rxfail", "ret"} =>
         IsRead(p)
    /\ pc[p] = "finish" =>
         IF IsRead(p) THEN did[p] = <<req[p].reg, gRead>> ELSE Stored(p)
    /\ pc[p] = "ret" /\ OneReader => did[p] = <<req[p].reg, gRead>>
    /\ pc[p] = "idle" /\ req[p] \in Writes /\ res[p] # Err => Stored(p)
    /\ pc[p] = "idle" /\ IsRead(p) /\ res[p] # Err /\ OneReader =>
         did[p] = <<req[p].reg, res[p]>>

(* The controller is at rest unless a process waits for it, and then it    *)
(* works for the holder of the lock.                                       *)
AtRest == (\A p \in Procs : pc[p] \notin Waiting) => Quiet
Owned  == ~Quiet => owner = lock

(* No completion is left behind when the lock is free.                     *)
Empty == lock = None => compRead = 0 /\ compStop = 0

(* The invariant without the types.                                        *)
InvBody == LockPaired /\ AtRest /\ Owned /\ Empty /\ \A p \in Procs : At(p)

(* The inductive invariant: who holds lock_bus, who owns the controller,   *)
(* and how far its transfer and its call have come.                        *)
IInv == TypeOK /\ InvBody
=============================================================================
