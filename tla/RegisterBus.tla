----------------------------- MODULE RegisterBus -----------------------------
(***************************************************************************)
(* What cotti_i2c_read and cotti_i2c_write promise their callers           *)
(* (bmp280_driver/src/cotti_i2c.c:213-217 and :250-253): between the call  *)
(* and the return the sensor performs the operation at most once and in    *)
(* one step; a call that succeeds has been performed and returns what the  *)
(* sensor answered; a call that returns -1 may or may not have been.       *)
(***************************************************************************)
EXTENDS Integers

CONSTANTS Procs, Readers, Byte, None

VARIABLES
    mem,      \* the registers of the sensor
    active,   \* processes inside a call
    req,      \* the arguments of each process's call
    did,      \* what the sensor did for it: register and byte
    res       \* what the last call returned

vars == <<mem, active, req, did, res>>

Err == -1

Writes == [op : {"write"}, reg : Byte, val : Byte]
Reads  == [op : {"read"}, reg : Byte, val : {None}]

Init ==
    /\ mem = [b \in Byte |-> 0]
    /\ active = {}
    /\ req = [p \in Procs |-> None]
    /\ did = [p \in Procs |-> None]
    /\ res = [p \in Procs |-> Err]

(* Process p calls with the arguments r.                                   *)
Ask(p, r) ==
    /\ p \notin active
    /\ active' = active \cup {p}
    /\ req' = [req EXCEPT ![p] = r]
    /\ did' = [did EXCEPT ![p] = None]
    /\ res' = [res EXCEPT ![p] = Err]
    /\ UNCHANGED mem

Invoke(p) ==
    \E r \in Writes \cup (IF p \in Readers THEN Reads ELSE {}) : Ask(p, r)

PerformWrite(p) ==
    /\ p \in active /\ did[p] = None
    /\ req[p] \in Writes
    /\ mem' = [mem EXCEPT ![req[p].reg] = req[p].val]
    /\ did' = [did EXCEPT ![p] = <<req[p].reg, req[p].val>>]
    /\ UNCHANGED <<active, req, res>>

PerformRead(p) ==
    /\ p \in active /\ did[p] = None
    /\ req[p] \in Reads
    /\ did' = [did EXCEPT ![p] = <<req[p].reg, mem[req[p].reg]>>]
    /\ UNCHANGED <<mem, active, req, res>>

Succeed(p) ==
    /\ p \in active /\ did[p] # None
    /\ active' = active \ {p}
    /\ res' = [res EXCEPT ![p] = IF req[p] \in Reads THEN did[p][2] ELSE 0]
    /\ UNCHANGED <<mem, req, did>>

Refuse(p) ==
    /\ p \in active
    /\ active' = active \ {p}
    /\ res' = [res EXCEPT ![p] = Err]
    /\ UNCHANGED <<mem, req, did>>

Next ==
    \E p \in Procs :
        Invoke(p) \/ PerformWrite(p) \/ PerformRead(p) \/ Succeed(p) \/ Refuse(p)

Spec == Init /\ [][Next]_vars
=============================================================================
