----------------------------- MODULE EchoDevice -----------------------------
(***************************************************************************)
(* kernel/002_char_device/char_device.c: what is written to the device is  *)
(* kept in a buffer, and a read returns it.                                *)
(*                                                                         *)
(* Neither the buffer nor its length has a lock.  A copy from or to a user *)
(* program goes byte by byte, can be interrupted after each, and can end   *)
(* early where the program's memory ends.  copy_from_user then clears the  *)
(* rest of what it was to fill.                                            *)
(***************************************************************************)
EXTENDS Integers, Sequences

CONSTANTS
    Clients,    \* programs that have the device open
    Letters,    \* bytes
    Texts,      \* what they write
    Counts,     \* how many bytes they ask for
    BufferSize, \* sizeof(buffer)
    Blank, Nul, \* the byte 0, as the loader left it and as a failed copy did
    Idle        \* no call, or no text

ASSUME TextsAreSequences == Texts \subseteq Seq(Letters)
ASSUME CountsAreNaturals == Counts \subseteq Nat
ASSUME BufferIsThere     == BufferSize \in Nat \ {0}
ASSUME NoLetterIsBlank   == Blank # Nul /\ Blank \notin Letters

VARIABLES
    buffer,
    buffer_pointer,
    call,       \* the driver_read or driver_write that each program is in
    clean       \* history: the text of the last write, Idle while it is not the
                \* only one, or was not while it ran

echoVars == <<buffer, buffer_pointer, call, clean>>

Least(a, b) == IF a < b THEN a ELSE b

EchoInit ==
    /\ buffer = [i \in 1..BufferSize |-> Blank]
    /\ buffer_pointer = 0
    /\ call = [c \in Clients |-> Idle]
    /\ clean = <<>>

Calls(op) == {c \in Clients : call[c] # Idle /\ call[c].op = op}

-----------------------------------------------------------------------------
(* driver_write *)

(* A write that begins makes an end of every other call's being alone.     *)
Overlapped ==
    [c \in Clients |-> IF call[c] = Idle THEN Idle ELSE [call[c] EXCEPT !.alone = FALSE]]

(* A write call; to_copy = min(count, sizeof(buffer)).                     *)
WriteOf(t) ==
    [op |-> "write", text |-> SubSeq(t, 1, Least(Len(t), BufferSize)), done |-> 0,
     alone |-> Calls("write") = {}]

\* The length is published before the bytes are there.
BeginWriteLengthFirst(c) ==
    /\ call[c] = Idle
    /\ \E t \in Texts :
         /\ call' = [Overlapped EXCEPT ![c] = WriteOf(t)]
         /\ buffer_pointer' = Len(WriteOf(t).text)
    /\ clean' = Idle
    /\ UNCHANGED buffer

BeginWrite(c) ==
    /\ call[c] = Idle
    /\ \E t \in Texts : call' = [Overlapped EXCEPT ![c] = WriteOf(t)]
    /\ clean' = Idle
    /\ UNCHANGED <<buffer, buffer_pointer>>

WriteByte(c) ==
    /\ c \in Calls("write") /\ call[c].done < Len(call[c].text)
    /\ LET i == call[c].done + 1
       IN  /\ buffer' = [buffer EXCEPT ![i] = call[c].text[i]]
           /\ call' = [call EXCEPT ![c].done = i]
    /\ UNCHANGED <<buffer_pointer, clean>>

(* The program's memory ends here: zeros are stored from now on.           *)
FaultInWrite(c) ==
    /\ c \in Calls("write") /\ call[c].done < Len(call[c].text)
    /\ call' = [call EXCEPT ![c].text =
                  [i \in DOMAIN @ |-> IF i <= call[c].done THEN @[i] ELSE Nul]]
    /\ UNCHANGED <<buffer, buffer_pointer, clean>>

\* The length only grows.
EndWriteGrows(c) ==
    /\ c \in Calls("write") /\ call[c].done = Len(call[c].text)
    /\ buffer_pointer' =
         IF call[c].done > buffer_pointer THEN call[c].done ELSE buffer_pointer
    /\ clean' = IF call[c].alone THEN call[c].text ELSE Idle
    /\ call' = [call EXCEPT ![c] = Idle]
    /\ UNCHANGED buffer

(* buffer_pointer = to_copy, whatever could not be copied.                 *)
EndWrite(c) ==
    /\ c \in Calls("write") /\ call[c].done = Len(call[c].text)
    /\ buffer_pointer' = call[c].done
    /\ clean' = IF call[c].alone THEN call[c].text ELSE Idle
    /\ call' = [call EXCEPT ![c] = Idle]
    /\ UNCHANGED buffer

-----------------------------------------------------------------------------
(* driver_read: it always starts at the first byte.                        *)

BeginRead(c) ==
    /\ call[c] = Idle
    /\ \E count \in Counts :
         call' = [call EXCEPT ![c] =
             [op |-> "read", todo |-> Least(count, buffer_pointer), count |-> count,
              out |-> <<>>, text |-> clean, alone |-> Calls("write") = {}]]
    /\ UNCHANGED <<buffer, buffer_pointer, clean>>

ReadByte(c) ==
    /\ c \in Calls("read") /\ Len(call[c].out) < call[c].todo
    /\ call' = [call EXCEPT ![c].out = Append(@, buffer[Len(@) + 1])]
    /\ UNCHANGED <<buffer, buffer_pointer, clean>>

(* It returns after the last byte, or where the program's memory ends.     *)
EndRead(c) ==
    /\ c \in Calls("read")
    /\ call' = [call EXCEPT ![c] = Idle]
    /\ UNCHANGED <<buffer, buffer_pointer, clean>>

EchoNext ==
    \E c \in Clients :
        \/ BeginWrite(c) \/ WriteByte(c) \/ FaultInWrite(c) \/ EndWrite(c)
        \/ BeginRead(c) \/ ReadByte(c) \/ EndRead(c)

EchoSpec == EchoInit /\ [][EchoNext]_echoVars

-----------------------------------------------------------------------------
(* Properties *)

Bytes == Letters \cup {Nul, Blank}

Stored == Seq(Letters \cup {Nul})

WriteCalls == [op : {"write"}, text : Stored, done : Nat, alone : BOOLEAN]

ReadCalls ==
    [op : {"read"}, todo : Nat, count : Counts, out : Seq(Bytes),
     text : Stored \cup {Idle}, alone : BOOLEAN]

(* No call goes beyond the buffer, whatever overlaps.                      *)
EchoTypeOK ==
    /\ buffer \in [1..BufferSize -> Bytes]
    /\ buffer_pointer \in 0..BufferSize
    /\ clean \in Stored \cup {Idle}
    /\ DOMAIN call = Clients
    /\ \A c \in Clients : call[c] # Idle => call[c] \in WriteCalls \cup ReadCalls
    /\ \A c \in Calls("write") :
         Len(call[c].text) <= BufferSize /\ call[c].done <= Len(call[c].text)
    /\ \A c \in Calls("read") :
         call[c].todo <= BufferSize /\ Len(call[c].out) <= call[c].todo

(* A read that no write overlaps, after a write that no other overlapped,  *)
(* returns that text: as much of it as the program asked for.              *)
EchoWhenAlone ==
    \A c \in Calls("read") :
        call[c].alone /\ call[c].text # Idle =>
            /\ call[c].todo = Least(call[c].count, Len(call[c].text))
            /\ call[c].out = SubSeq(call[c].text, 1, Len(call[c].out))

(* However reads and writes overlap, every byte that a read returns was    *)
(* stored by a write: the length never runs ahead of the bytes.            *)
NoBlankIsRead ==
    \A c \in Calls("read"), i \in 1..BufferSize :
        i <= Len(call[c].out) => call[c].out[i] # Blank
=============================================================================
