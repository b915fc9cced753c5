-------------------------- MODULE CottiI2CReaders --------------------------
(***************************************************************************)
(* What a byte that cotti_i2c_read returns is worth when several processes *)
(* read.  g_read is loaded after lock_bus has been released, so it may be  *)
(* the byte of another call (I2C_two_readers); it is still never one that  *)
(* was in g_read before the call.                                          *)
(***************************************************************************)
EXTENDS CottiI2CInv

VARIABLE sent    \* history: for each reader, the bytes that the sensor has
                 \* sent to anyone since the reader's call began

readersVars == <<vars, sent>>

(* The sensor sends these bytes: every call in progress notes them.        *)
Note(bytes) ==
    sent' = [p \in Readers |-> IF pc[p] = "idle" THEN {}
                               ELSE sent[p] \cup bytes]

ReadersInit == Init /\ sent = [p \in Readers |-> {}]

ReadersNext ==
    \/ HwRecv /\ Note({mem[ptr]})
    \/ /\ \/ \E p \in Procs : Call(p) \/ Proceed(p) \/ DrainSignal(p)
          \/ Isr \/ HwXrdy \/ HwSend \/ HwStop \/ HwAbort
       /\ Note({})

ReadersSpec == ReadersInit /\ [][ReadersNext]_readersVars

ReadersLiveSpec == ReadersSpec /\ ProcFairness /\ HwFairness

SentTypes == sent \in [Readers -> SUBSET Byte]

(* cotti_i2c_read, with any number of readers, returns a byte the sensor   *)
(* sent, to this call or to another one, between the start of this call    *)
(* and its return.                                                         *)
ReadIsFresh ==
    [][\A p \in Readers :
          pc[p] = "ret" /\ pc'[p] = "idle" => res'[p] \in sent[p]]_readersVars

(* Where the byte is that a reader will return.                            *)
SentAt(p) ==
    /\ pc[p] \in {"rxdata", "rxstop"} /\ cnt = 0 => rx \in sent[p]
    /\ pc[p] = "finish" /\ IsRead(p) => gRead \in sent[p]
    /\ pc[p] = "ret" =>
         /\ gRead \in sent[p]
         /\ "RRDY" \in irq => rx \in sent[p]

(* What g_read holds, or is about to hold, for each reader's call.         *)
SentInv == SentTypes /\ \A p \in Readers : SentAt(p)
=============================================================================
