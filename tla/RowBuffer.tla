----------------------------- MODULE RowBuffer -----------------------------
(***************************************************************************)
(* The rows of values of an OPPRF and the memory they share with the OPRF  *)
(* outputs they are made from (sep_opprf.cpp).                             *)
(*                                                                         *)
(* A buffer holds n rows of m bytes.  Row j is an addend plus block j of   *)
(* the OPRF's outputs, cut off when a row is shorter than a block,         *)
(* expanded by AES in counter mode when it is longer.  Three operations    *)
(* make rows:                                                              *)
(*   receive  SepOpprfReceiver::online_receive: the addends are decoded    *)
(*            last, and added;                                             *)
(*   send     SepOpprfSender::online_send: the addends are the values to   *)
(*            program, in a buffer of their own;                           *)
(*   eval     SepOpprfSender::eval: the addends are decoded first, into    *)
(*            the buffer itself.                                           *)
(* To save memory the OPRF's outputs are put in the buffer where that is   *)
(* thought to do no harm, and the rows are made from the first to the      *)
(* last, each over whatever is there.                                      *)
(*                                                                         *)
(* The buffer starts at an aligned address, as a vector of blocks does.    *)
(* Memory is a function from addresses to bytes; a byte is a set of atoms  *)
(* under XOR, as a block is in Blocks.                                     *)
(***************************************************************************)
EXTENDS Blocks

CONSTANT Cases  \* what to start from: values of op, n and m

Operation == {"receive", "send", "eval"}

ASSUME CasesAssumption == Cases \subseteq [op : Operation, n : Nat \ {0}, m : Nat \ {0}]

BlockSize == 16  \* sizeof(block)

VARIABLES op,   \* the operation
          n,    \* the number of rows
          m,    \* the bytes of a row
          mem,  \* mem[a]: the byte at address a
          i,    \* the row that is made next
          pc    \* how far the operation is

vars == <<op, n, m, mem, i, pc>>

(* Byte k of: OPRF output j, what it is expanded to, the addend of row j.  *)
Key(j, k)      == {<<"key", j, k>>}
Expanded(j, k) == {<<"expanded", j, k>>}
Addend(j, k)   == {<<"addend", j, k>>}
Other          == {<<"other", 0, 0>>}

(* The buffer of rows, that of the values to program, and temp.            *)
End == n * m
Values == End
Temp == 2 * End
Addresses == 0 .. Temp + BlockSize * n - 1

(* Faulty variant: whether the addends are in the buffer is not looked at. *)
BugOprfOutput ==
    IF op = "receive"
    THEN IF m >= BlockSize THEN End - (End % BlockSize) - BlockSize * n ELSE Temp
    ELSE IF m = BlockSize THEN 0 ELSE Temp

(* Where the OPRF's outputs are put: for the receiver below the last       *)
(* aligned address of the buffer, for the sender at its start, or in temp. *)
OprfOutput ==
    IF op = "receive"
    THEN IF m >= BlockSize THEN End - (End % BlockSize) - BlockSize * n ELSE Temp
    ELSE IF m = BlockSize /\ op # "eval" THEN 0 ELSE Temp

KeyAddress(j, k) == OprfOutput + BlockSize * j + k
RowAddresses(j) == j * m .. j * m + m - 1

(* A row is expanded from its OPRF output if that is still what it was.    *)
Intact(j) == \A k \in 0 .. BlockSize - 1 : mem[KeyAddress(j, k)] = Key(j, k)

(* What row j takes from the memory of the OPRF outputs, by bytes.         *)
Pad(j, k) == IF m <= BlockSize THEN mem[KeyAddress(j, k)]
             ELSE IF Intact(j) THEN Expanded(j, k) ELSE Other

Init ==
    /\ \E case \in Cases : op = case.op /\ n = case.n /\ m = case.m
    /\ mem = [a \in Addresses |->
                IF op = "send" /\ a \in Values .. Temp - 1
                THEN Addend((a - Values) \div m, (a - Values) % m)
                ELSE IF op = "eval" /\ a < End THEN Addend(a \div m, a % m)
                ELSE Other]
    /\ i = 0
    /\ pc = "oprf"

(* The OPRF fills oprfOutput.                                              *)
RunOprf ==
    /\ pc = "oprf"
    /\ mem' = [a \in Addresses |->
                 IF a \in KeyAddress(0, 0) .. KeyAddress(n - 1, BlockSize - 1)
                 THEN Key((a - OprfOutput) \div BlockSize, (a - OprfOutput) % BlockSize)
                 ELSE mem[a]]
    /\ pc' = "rows"
    /\ UNCHANGED <<op, n, m, i>>

(* The sender adds the next OPRF output to the addend, for the row.        *)
AddPad ==
    /\ op # "receive" /\ pc = "rows"
    /\ i < n
    /\ LET addends == IF op = "send" THEN Values ELSE 0
       IN  mem' = [a \in Addresses |->
                     IF a \in RowAddresses(i) THEN mem[addends + a] (+) Pad(i, a % m)
                                              ELSE mem[a]]
    /\ i' = i + 1
    /\ UNCHANGED <<op, n, m, pc>>

(* The receiver copies or expands the next OPRF output into its row; rows  *)
(* of a block are in place.                                                *)
MakeRow ==
    /\ op = "receive" /\ pc = "rows"
    /\ m # BlockSize
    /\ i < n
    /\ mem' = [a \in Addresses |->
                 IF a \in RowAddresses(i) THEN Pad(i, a % m) ELSE mem[a]]
    /\ i' = i + 1
    /\ UNCHANGED <<op, n, m, pc>>

(* The receiver decodes the addends and adds them to all rows.             *)
AddDecoded ==
    /\ op = "receive" /\ pc = "rows"
    /\ i = n \/ m = BlockSize
    /\ mem' = [a \in Addresses |->
                 IF a < End THEN mem[a] (+) Addend(a \div m, a % m) ELSE mem[a]]
    /\ pc' = "done"
    /\ UNCHANGED <<op, n, m, i>>

SenderReturns ==
    /\ op # "receive" /\ pc = "rows"
    /\ i = n
    /\ pc' = "done"
    /\ UNCHANGED <<op, n, m, mem, i>>

Returned == pc = "done" /\ UNCHANGED vars

Next == RunOprf \/ AddPad \/ MakeRow \/ AddDecoded \/ SenderReturns \/ Returned

Spec == Init /\ [][Next]_vars

-----------------------------------------------------------------------------
(***************************************************************************)
(* Every row is its own addend plus its own OPRF output, although outputs  *)
(* and addends share memory with the rows and are overwritten while rows   *)
(* are made: it is reused without a trace ("reuse memory",                 *)
(* sep_opprf.cpp:236; oprfEval's test for out.data() == add.data(), 15).   *)
(***************************************************************************)
RowsFromOwnOutputs ==
    pc = "done" =>
        \A j \in 0 .. n - 1 : \A k \in 0 .. m - 1 :
            mem[j * m + k] =
                Addend(j, k) (+) (IF m <= BlockSize THEN Key(j, k) ELSE Expanded(j, k))

-----------------------------------------------------------------------------
(* The inductive invariant behind it.                                      *)

(***************************************************************************)
(* For which shapes the receiver's buffer is large enough: aligning the    *)
(* outputs takes off at most what a row has beyond a block.  It does for   *)
(* rows of at most a block, and of 31 bytes or more.                       *)
(***************************************************************************)
Roomy(rows, bytes) ==
    bytes > BlockSize => (rows * bytes) % BlockSize <= bytes - BlockSize

Row == 0 .. n - 1
Byte == 0 .. m - 1

TypeOK ==
    /\ op \in Operation /\ n \in Nat \ {0} /\ m \in Nat \ {0}
    /\ DOMAIN mem = Addresses
    /\ i \in 0 .. n
    /\ pc \in {"oprf", "rows", "done"}
    /\ pc = "oprf" => i = 0

(* The addends of the rows still to be made are there.                     *)
AddendsInv ==
    pc # "done" =>
        /\ op = "send" => \A j \in Row, k \in Byte : mem[Values + (j * m + k)] = Addend(j, k)
        /\ op = "eval" => \A j \in i .. n - 1, k \in Byte : mem[j * m + k] = Addend(j, k)

(* So are the OPRF's outputs for them, and the rows before are made.       *)
KeysInv == pc = "rows" => \A j \in i .. n - 1 : Intact(j)

Output(j, k) == IF m <= BlockSize THEN Key(j, k) ELSE Expanded(j, k)

MadeInv ==
    pc = "rows" => \A j \in 0 .. i - 1, k \in Byte :
        mem[j * m + k] = IF op = "receive" THEN Output(j, k) ELSE Addend(j, k) (+) Output(j, k)

RoomyInv == /\ TypeOK /\ AddendsInv /\ KeysInv /\ MadeInv
            /\ RowsFromOwnOutputs
            /\ op = "receive" => Roomy(n, m)

(***************************************************************************)
(* Without that room the last output is overwritten before it is used, and *)
(* the last row is made from something else.                               *)
(***************************************************************************)
TightInv ==
    /\ TypeOK
    /\ op = "receive" /\ ~Roomy(n, m)
    /\ pc = "rows" /\ KeyAddress(n - 1, 0) < i * m =>
          mem[KeyAddress(n - 1, 0)] # Key(n - 1, 0)
    /\ pc = "rows" /\ i = n => mem[(n - 1) * m] = Other
    /\ pc = "done" => mem[(n - 1) * m] = Other (+) Addend(n - 1, 0)
=============================================================================
