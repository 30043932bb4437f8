-------------------------- MODULE RowBufferProofs --------------------------
(***************************************************************************)
(* Rows and OPRF outputs share a buffer without harm, for any number and   *)
(* any size of rows, exactly when the receiver's buffer is roomy: then     *)
(* every row is its own addend plus its own output (RowsAreOwn); for every *)
(* other shape the last row never is (LastRowIsNot).                       *)
(*                                                                         *)
(* Rows are made from the first to the last.  In a roomy buffer the output *)
(* for row j begins no earlier than row j, so that a row overwrites only   *)
(* outputs that have been used.  Where there is no such room, the last     *)
(* output begins in a row before it.                                       *)
(***************************************************************************)
EXTENDS RowBuffer, Integers, TLAPS

-----------------------------------------------------------------------------
(* Division.                                                               *)

LEMMA Division ==
    ASSUME NEW d \in Nat \ {0}, NEW a \in Nat
    PROVE  /\ a \div d \in Nat
           /\ a % d \in 0 .. d - 1
           /\ a = (a \div d) * d + (a % d)
OBVIOUS

(* Quotient and remainder of a number that is given by them.               *)
LEMMA Quotient ==
    ASSUME NEW d \in Nat \ {0}, NEW q \in Nat, NEW r \in 0 .. d - 1
    PROVE  (q * d + r) \div d = q /\ (q * d + r) % d = r
<1> DEFINE a == q * d + r
           s == a \div d
           t == a % d
<1>0. a \in Nat
  OBVIOUS
<1> HIDE DEF a
<1>1. s \in Nat /\ t \in 0 .. d - 1 /\ a = s * d + t
  BY <1>0, Division
<1> HIDE DEF s, t
<1>2. (s - q) * d = r - t
  BY <1>1 DEF a
<1>3. s = q
  <2>1. s > q => (s - q) * d >= d
    BY <1>1
  <2>2. s < q => (q - s) * d >= d
    BY <1>1
  <2> QED BY <1>1, <1>2, <2>1, <2>2
<1> QED BY <1>1, <1>2, <1>3 DEF s, t, a

(* Rows of r bytes, one after the other: the places of different rows are  *)
(* different, and all are below the end of the last row.                   *)
LEMMA Places ==
    ASSUME NEW rows \in Nat \ {0}, NEW r \in Nat \ {0},
           NEW j \in 0 .. rows - 1, NEW k \in 0 .. r - 1
    PROVE  /\ j * r \in Nat
           /\ j * r + k < j * r + r
           /\ j * r + r <= rows * r
           /\ (j + 1) * r = j * r + r
           /\ \A l \in 0 .. rows - 1 : /\ l < j => l * r + r <= j * r
                                       /\ l > j => j * r + r <= l * r
<1>1. \A u, v \in Nat : u < v => u * r + r <= v * r
  <2> SUFFICES ASSUME NEW u \in Nat, NEW v \in Nat, u < v PROVE u * r + r <= v * r
    OBVIOUS
  <2>1. (u + 1) * r <= v * r
    OBVIOUS
  <2> QED BY <2>1
<1>2. j * r \in Nat
  OBVIOUS
<1>3. (j + 1) * r = j * r + r
  OBVIOUS
<1>4. j \in Nat /\ rows \in Nat /\ j < rows
  OBVIOUS
<1>5. \A l \in 0 .. rows - 1 : l \in Nat
  OBVIOUS
<1> QED BY <1>1, <1>2, <1>3, <1>4, <1>5

-----------------------------------------------------------------------------
(* Where things are.                                                       *)

Shape == n \in Nat \ {0} /\ m \in Nat \ {0} /\ op \in Operation

(* A byte of a row, in the buffer and in the values to program.            *)
LEMMA RowPlace ==
    ASSUME Shape, NEW j \in Row, NEW k \in Byte
    PROVE  /\ j * m + k \in Nat /\ j * m + k < End
           /\ j * m + k \in Addresses /\ Values + (j * m + k) \in Addresses
           /\ Values + (j * m + k) \in Values .. Temp - 1
           /\ (j * m + k) \div m = j /\ (j * m + k) % m = k
           /\ \A l \in Row : j * m + k \in RowAddresses(l) <=> l = j
           /\ \A l \in Row : Values + (j * m + k) \notin RowAddresses(l)
<1> USE DEF Shape, Row, Byte
<1>1. n * m \in Nat /\ BlockSize * n \in Nat /\ BlockSize * n >= 16
  BY DEF BlockSize
<1>2. /\ j * m \in Nat /\ j * m + m <= n * m
      /\ \A l \in Row : /\ l * m \in Nat /\ l * m + m <= n * m
                        /\ l < j => l * m + m <= j * m
                        /\ l > j => j * m + m <= l * m
  BY Places
<1>3. (j * m + k) \div m = j /\ (j * m + k) % m = k
  BY Quotient
<1>4. \A l \in Row : l \in Nat
  OBVIOUS
<1>5. \A l \in Row : j * m + k \in RowAddresses(l) <=> l = j
  BY <1>2, <1>4 DEF RowAddresses
<1>6. \A l \in Row : Values + (j * m + k) \notin RowAddresses(l)
  BY <1>1, <1>2 DEF RowAddresses, Values, End
<1>7. j * m + k \in Nat /\ j * m + k < n * m
  BY <1>2
<1>8. 2 * (n * m) = n * m + n * m
  BY <1>1
<1> QED BY <1>1, <1>3, <1>5, <1>6, <1>7, <1>8 DEF Addresses, Temp, Values, End

(***************************************************************************)
(* The outputs are below the end of the buffer, at its start or further    *)
(* down as the shape says, or else in temp.                                *)
(***************************************************************************)
LEMMA OutputPlace ==
    ASSUME Shape
    PROVE  /\ OprfOutput \in Nat
           /\ OprfOutput + BlockSize * n <= End \/ OprfOutput = Temp
           /\ m = BlockSize /\ op # "eval" => OprfOutput = 0
           /\ op = "receive" /\ m > BlockSize =>
                 OprfOutput = End - (End % BlockSize) - BlockSize * n
           /\ op = "eval" \/ m < BlockSize => OprfOutput = Temp
           /\ op = "send" /\ m > BlockSize => OprfOutput = Temp
<1> USE DEF Shape, BlockSize
<1>1. End \in Nat /\ Temp \in Nat /\ 16 * n \in Nat
  BY DEF End, Temp
<1>2. m = 16 => End = 16 * n
  BY DEF End
<1>3. \A a \in Nat : (16 * a) % 16 = 0 /\ (a % 16) \in 0 .. 15
  OBVIOUS
<1>4. m > 16 => End - (End % 16) >= 16 * n
  <2> SUFFICES ASSUME m > 16 PROVE End - (End % 16) >= 16 * n
    OBVIOUS
  <2>1. End >= 16 * n
    BY DEF End
  <2>2. \A a, b \in Nat : a >= 16 * b => a - (a % 16) >= 16 * b
    OBVIOUS
  <2> QED BY <1>1, <2>1, <2>2
<1>5. m >= 16 /\ op = "receive" => /\ OprfOutput \in Nat
                                   /\ OprfOutput + 16 * n <= End
                                   /\ OprfOutput = End - (End % 16) - 16 * n
                                   /\ m = 16 => OprfOutput = 0
  <2>1. CASE m = 16 /\ op = "receive"
    BY <1>1, <1>2, <1>3, <2>1 DEF OprfOutput
  <2>2. CASE m > 16 /\ op = "receive"
    BY <1>1, <1>3, <1>4, <2>2 DEF OprfOutput
  <2> QED BY <2>1, <2>2
<1>6. m < 16 \/ op # "receive" =>
          OprfOutput = IF op # "receive" /\ m = 16 /\ op # "eval" THEN 0 ELSE Temp
  BY DEF OprfOutput
<1> QED BY <1>1, <1>2, <1>5, <1>6 DEF Operation

(* A byte of an output, which the OPRF puts in its place.                  *)
LEMMA KeyPlace ==
    ASSUME Shape, NEW j \in Row, NEW k \in 0 .. BlockSize - 1
    PROVE  /\ KeyAddress(j, k) \in Addresses
           /\ KeyAddress(j, k) \in KeyAddress(0, 0) .. KeyAddress(n - 1, BlockSize - 1)
           /\ (KeyAddress(j, k) - OprfOutput) \div BlockSize = j
           /\ (KeyAddress(j, k) - OprfOutput) % BlockSize = k
<1> USE DEF Shape, Row, BlockSize
<1>1. /\ OprfOutput \in Nat
      /\ OprfOutput + BlockSize * n <= End \/ OprfOutput = Temp
  BY OutputPlace
<1>2. End \in Nat /\ Temp = End + End
  BY DEF End, Temp
<1>3. (j * 16 + k) \div 16 = j /\ (j * 16 + k) % 16 = k
  BY Quotient
<1>4. KeyAddress(j, k) = OprfOutput + (j * 16 + k)
  BY <1>1 DEF KeyAddress
<1>5. KeyAddress(j, k) - OprfOutput = j * 16 + k
  BY <1>1, <1>4
<1>6. KeyAddress(0, 0) = OprfOutput /\ KeyAddress(n - 1, 15) = OprfOutput + (16 * n - 1)
  BY <1>1 DEF KeyAddress
<1>7. j * 16 + k \in 0 .. 16 * n - 1
  OBVIOUS
<1> QED BY <1>1, <1>2, <1>3, <1>4, <1>5, <1>6, <1>7 DEF Addresses

(* The outputs are put where there are no addends.                         *)
LEMMA AddendsAside ==
    ASSUME Shape, NEW a \in KeyAddress(0, 0) .. KeyAddress(n - 1, BlockSize - 1)
    PROVE  /\ op = "send" => a \notin Values .. Temp - 1
           /\ op = "eval" => ~ (a < End)
<1> USE DEF Shape, BlockSize
<1>1. /\ OprfOutput \in Nat
      /\ OprfOutput + BlockSize * n <= End \/ OprfOutput = Temp
      /\ op = "eval" => OprfOutput = Temp
  BY OutputPlace
<1>2. End \in Nat /\ Temp = End + End
  BY DEF End, Temp
<1>3. a \in OprfOutput .. OprfOutput + (16 * n - 1)
  BY <1>1 DEF KeyAddress
<1> QED BY <1>1, <1>2, <1>3 DEF Values

(* In a roomy buffer no row reaches the output for a row after it.         *)
LEMMA RowsBehind ==
    ASSUME Shape, op = "receive" => Roomy(n, m), NEW l \in Row, NEW j \in Row, l < j,
           NEW k \in 0 .. BlockSize - 1
    PROVE  KeyAddress(j, k) \notin RowAddresses(l)
<1> USE DEF Shape, Row, BlockSize
<1>1. /\ OprfOutput \in Nat
      /\ m = 16 /\ op # "eval" => OprfOutput = 0
      /\ op = "receive" /\ m > 16 => OprfOutput = End - (End % 16) - 16 * n
      /\ op = "eval" \/ m < 16 \/ (op = "send" /\ m > 16) => OprfOutput = Temp
  BY OutputPlace
<1>2. End \in Nat /\ Temp = End + End
  BY DEF End, Temp
<1>3. l * m \in Nat /\ l * m + m <= j * m /\ l * m + m <= End
  BY Places DEF End
<1>4. KeyAddress(j, k) >= OprfOutput + 16 * j
  BY <1>1 DEF KeyAddress
<1>5. KeyAddress(j, k) \in Int
  BY <1>1 DEF KeyAddress
<1>6. RowAddresses(l) = l * m .. l * m + m - 1
  BY DEF RowAddresses
<1>7. CASE OprfOutput = Temp
  BY <1>2, <1>3, <1>4, <1>5, <1>6, <1>7
<1>8. CASE m = 16 /\ OprfOutput = 0
  <2>1. j * m = 16 * j
    BY <1>8
  <2> QED BY <1>3, <1>4, <1>5, <1>6, <1>8, <2>1
<1>9. CASE op = "receive" /\ m > 16
  <2>1. (End % 16) \in Nat /\ (End % 16) <= m - 16
    BY <1>2, <1>9 DEF Roomy, End
  <2>2. OprfOutput = End - (End % 16) - 16 * n
    BY <1>1, <1>9
  <2>3. (n - 1 - j) * m >= 16 * (n - 1 - j)
    BY <1>9
  <2>4. (n - 1 - j) * m = n * m - m - j * m
    OBVIOUS
  <2>5. OprfOutput + 16 * j >= j * m
    BY <1>2, <1>3, <2>1, <2>2, <2>3, <2>4 DEF End
  <2>6. j * m \in Nat /\ 16 * j \in Nat
    OBVIOUS
  <2>7. KeyAddress(j, k) >= j * m
    BY <1>1, <1>4, <1>5, <2>5, <2>6
  <2> QED BY <1>3, <1>5, <1>6, <2>6, <2>7
<1> QED BY <1>1, <1>7, <1>8, <1>9 DEF Operation

-----------------------------------------------------------------------------
(* The rows of a roomy buffer.                                             *)

RoomyCases == \A case \in Cases : case.op = "receive" => Roomy(case.n, case.m)

(* The operations start from buffers that satisfy the invariant.           *)
LEMMA RoomyInit == RoomyCases /\ Init => RoomyInv
<1> SUFFICES ASSUME RoomyCases, Init PROVE RoomyInv
  OBVIOUS
<1>1. Shape /\ (op = "receive" => Roomy(n, m)) /\ i = 0 /\ pc = "oprf"
  <2>1. PICK case \in Cases : op = case.op /\ n = case.n /\ m = case.m
    BY DEF Init
  <2>2. case \in [op : Operation, n : Nat \ {0}, m : Nat \ {0}]
    BY CasesAssumption
  <2> QED BY <2>1, <2>2 DEF Init, RoomyCases, Shape
<1>2. TypeOK
  BY <1>1 DEF TypeOK, Shape, Init
<1>3. AddendsInv
  <2>1. ASSUME op = "send", NEW j \in Row, NEW k \in Byte
        PROVE  mem[Values + (j * m + k)] = Addend(j, k)
    <3>1. Values \in Nat
      BY <1>1 DEF Shape, Values, End
    <3>2. (Values + (j * m + k)) - Values = j * m + k
      BY <1>1, <3>1, RowPlace
    <3> DEFINE a == Values + (j * m + k)
               b == a - Values
    <3>3. a \in Addresses /\ a \in Values .. Temp - 1
      BY <1>1, RowPlace
    <3>4. mem[a] = Addend(b \div m, b % m)
      BY <2>1, <3>3 DEF Init
    <3>5. b \div m = j /\ b % m = k
      <4>1. b = j * m + k
        BY <3>2
      <4> HIDE DEF b
      <4> QED BY <1>1, <4>1, RowPlace
    <3> QED BY <3>4, <3>5
  <2>2. ASSUME op = "eval", NEW j \in i .. n - 1, NEW k \in Byte
        PROVE  mem[j * m + k] = Addend(j, k)
    <3>1. j \in Row
      BY <1>1 DEF Row
    <3>2. mem[j * m + k] = Addend((j * m + k) \div m, (j * m + k) % m)
      BY <1>1, <2>2, <3>1, RowPlace DEF Init
    <3> QED BY <1>1, <3>1, <3>2, RowPlace
  <2> QED BY <2>1, <2>2 DEF AddendsInv
<1> QED BY <1>1, <1>2, <1>3 DEF RoomyInv, KeysInv, MadeInv, RowsFromOwnOutputs

(* Once the OPRF has run all its outputs are there.                        *)
LEMMA RoomyOprf == RoomyInv /\ RunOprf => RoomyInv'
<1> SUFFICES ASSUME RoomyInv, RunOprf PROVE RoomyInv'
  OBVIOUS
<1> USE DEF RunOprf
<1>1. Shape /\ (op = "receive" => Roomy(n, m)) /\ i = 0 /\ TypeOK /\ AddendsInv
  BY DEF RoomyInv, TypeOK, Shape
<1>2. /\ \A j : RowAddresses(j)' = RowAddresses(j)
      /\ \A j, k : KeyAddress(j, k)' = KeyAddress(j, k)
      /\ Row' = Row /\ Byte' = Byte /\ Addresses' = Addresses
      /\ Values' = Values /\ End' = End
  BY DEF RowAddresses, KeyAddress, OprfOutput, Row, Byte, Addresses, Values, Temp, End
<1>3. TypeOK'
  BY <1>1, <1>2 DEF TypeOK
<1>4. AddendsInv'
  <2>1. ASSUME op = "send", NEW j \in Row, NEW k \in Byte
        PROVE  mem'[Values + (j * m + k)] = Addend(j, k)
    <3> DEFINE a == Values + (j * m + k)
    <3>1. a \in Addresses /\ a \in Values .. Temp - 1
      BY <1>1, RowPlace
    <3>2. a \notin KeyAddress(0, 0) .. KeyAddress(n - 1, BlockSize - 1)
      BY <1>1, <2>1, <3>1, AddendsAside
    <3>3. mem'[a] = mem[a]
      BY <3>1, <3>2
    <3> QED BY <1>1, <2>1, <3>3 DEF AddendsInv
  <2>2. ASSUME op = "eval", NEW j \in i .. n - 1, NEW k \in Byte
        PROVE  mem'[j * m + k] = Addend(j, k)
    <3> DEFINE a == j * m + k
    <3>0. j \in Row
      BY <1>1 DEF Row
    <3>1. a \in Addresses /\ a < End
      BY <1>1, <3>0, RowPlace
    <3>2. a \notin KeyAddress(0, 0) .. KeyAddress(n - 1, BlockSize - 1)
      BY <1>1, <2>2, <3>1, AddendsAside
    <3>3. mem'[a] = mem[a]
      BY <3>1, <3>2
    <3> QED BY <1>1, <2>2, <3>3 DEF AddendsInv
  <2> QED BY <1>2, <2>1, <2>2 DEF AddendsInv
<1>5. KeysInv'
  <2>1. ASSUME NEW j \in i .. n - 1, NEW k \in 0 .. BlockSize - 1
        PROVE  mem'[KeyAddress(j, k)] = Key(j, k)
    <3>1. j \in Row
      BY <1>1 DEF Row
    <3> QED BY <1>1, <3>1, KeyPlace
  <2> QED BY <1>2, <2>1 DEF KeysInv, Intact
<1>6. MadeInv'
  BY <1>1 DEF MadeInv
<1> QED BY <1>1, <1>3, <1>4, <1>5, <1>6 DEF RoomyInv, RowsFromOwnOutputs

(* What is taken for the next row is its own output.                       *)
LEMMA OwnPad ==
    ASSUME Shape, i < n, i \in Nat, pc = "rows", KeysInv, NEW k \in Byte
    PROVE  Pad(i, k) = Output(i, k)
<1>1. Intact(i)
  BY DEF KeysInv, Shape
<1>2. m <= BlockSize => mem[KeyAddress(i, k)] = Key(i, k)
  BY <1>1 DEF Intact, Shape, Byte, BlockSize
<1> QED BY <1>1, <1>2 DEF Pad, Output

(***************************************************************************)
(* A step that makes row i, out of its output and of what it finds in one  *)
(* place, and changes nothing else, keeps what the rows after it need.     *)
(***************************************************************************)
LEMMA MakingRow ==
    ASSUME RoomyInv, pc = "rows", i < n, i' = i + 1, UNCHANGED <<op, n, m, pc>>,
           DOMAIN mem' = Addresses,
           \A a \in Addresses : a \notin RowAddresses(i) => mem'[a] = mem[a],
           \A k \in Byte :
               mem'[i * m + k] = IF op = "receive" THEN Output(i, k)
                                                  ELSE Addend(i, k) (+) Output(i, k)
    PROVE  RoomyInv'
<1>1. /\ Shape /\ (op = "receive" => Roomy(n, m)) /\ i \in Row /\ i \in Nat /\ TypeOK
      /\ AddendsInv /\ KeysInv /\ MadeInv
  BY DEF RoomyInv, TypeOK, Shape, Row
<1>2. /\ \A j : RowAddresses(j)' = RowAddresses(j)
      /\ \A j, k : KeyAddress(j, k)' = KeyAddress(j, k)
      /\ Row' = Row /\ Byte' = Byte /\ Addresses' = Addresses
      /\ Values' = Values /\ End' = End
  BY DEF RowAddresses, KeyAddress, OprfOutput, Row, Byte, Addresses, Values, Temp, End
<1>3. TypeOK'
  BY <1>1, <1>2 DEF TypeOK, Shape
<1>4. AddendsInv'
  <2>1. ASSUME op = "send", NEW j \in Row, NEW k \in Byte
        PROVE  mem'[Values + (j * m + k)] = Addend(j, k)
    <3>1. /\ Values + (j * m + k) \in Addresses
          /\ Values + (j * m + k) \notin RowAddresses(i)
      BY <1>1, RowPlace
    <3> QED BY <1>1, <2>1, <3>1 DEF AddendsInv
  <2>2. ASSUME op = "eval", NEW j \in i + 1 .. n - 1, NEW k \in Byte
        PROVE  mem'[j * m + k] = Addend(j, k)
    <3>1. j \in Row /\ j # i /\ j \in i .. n - 1
      BY <1>1 DEF Row, Shape
    <3>2. j * m + k \in Addresses /\ j * m + k \notin RowAddresses(i)
      BY <1>1, <3>1, RowPlace
    <3> QED BY <1>1, <2>2, <3>1, <3>2 DEF AddendsInv
  <2> QED BY <1>2, <2>1, <2>2 DEF AddendsInv
<1>5. KeysInv'
  <2>1. ASSUME NEW j \in i + 1 .. n - 1, NEW k \in 0 .. BlockSize - 1
        PROVE  mem'[KeyAddress(j, k)] = Key(j, k)
    <3>1. j \in Row /\ i < j /\ j \in i .. n - 1
      BY <1>1 DEF Row, Shape
    <3>2. KeyAddress(j, k) \in Addresses /\ KeyAddress(j, k) \notin RowAddresses(i)
      BY <1>1, <3>1, KeyPlace, RowsBehind
    <3>3. mem[KeyAddress(j, k)] = Key(j, k)
      BY <1>1, <3>1 DEF KeysInv, Intact
    <3> QED BY <3>2, <3>3
  <2> QED BY <1>2, <2>1 DEF KeysInv, Intact
<1>6. MadeInv'
  <2>1. ASSUME NEW j \in 0 .. i, NEW k \in Byte
        PROVE  mem'[j * m + k] = IF op = "receive" THEN Output(j, k)
                                                  ELSE Addend(j, k) (+) Output(j, k)
    <3>1. CASE j = i
      BY <3>1
    <3>2. CASE j # i
      <4>1. j \in 0 .. i - 1 /\ j \in Row
        BY <1>1, <3>2 DEF Row, Shape
      <4>2. j * m + k \in Addresses /\ j * m + k \notin RowAddresses(i)
        BY <1>1, <3>2, <4>1, RowPlace
      <4> QED BY <1>1, <4>1, <4>2 DEF MadeInv
    <3> QED BY <3>1, <3>2
  <2>2. \A j, k : Output(j, k)' = Output(j, k)
    BY DEF Output
  <2>3. 0 .. i' - 1 = 0 .. i
    BY <1>1
  <2> QED BY <1>2, <2>1, <2>2, <2>3 DEF MadeInv
<1> QED BY <1>1, <1>3, <1>4, <1>5, <1>6 DEF RoomyInv, RowsFromOwnOutputs

(* The sender makes a row from the addend it finds.                        *)
LEMMA RoomyAddPad == RoomyInv /\ AddPad => RoomyInv'
<1> SUFFICES ASSUME RoomyInv, AddPad PROVE RoomyInv'
  OBVIOUS
<1> USE DEF AddPad
<1>1. Shape /\ i \in Row /\ i \in Nat /\ AddendsInv /\ KeysInv /\ op \in {"send", "eval"}
  BY DEF RoomyInv, TypeOK, Shape, Row, Operation
<1> DEFINE addends == IF op = "send" THEN Values ELSE 0
<1>2. DOMAIN mem' = Addresses
  OBVIOUS
<1>3. \A a \in Addresses : a \notin RowAddresses(i) => mem'[a] = mem[a]
  OBVIOUS
<1>4. ASSUME NEW k \in Byte
      PROVE  mem'[i * m + k] = Addend(i, k) (+) Output(i, k)
  <2>1. /\ i * m + k \in Addresses /\ i * m + k \in RowAddresses(i)
        /\ (i * m + k) % m = k /\ i * m + k \in Nat
    BY <1>1, RowPlace
  <2>2. mem'[i * m + k] = mem[addends + (i * m + k)] (+) Pad(i, k)
    BY <2>1
  <2>3. mem[addends + (i * m + k)] = Addend(i, k)
    BY <1>1, <2>1 DEF AddendsInv, Shape
  <2> QED BY <1>1, <2>2, <2>3, OwnPad
<1> QED BY <1>2, <1>3, <1>4, MakingRow

(* The receiver makes a row from the output alone.                         *)
LEMMA RoomyMakeRow == RoomyInv /\ MakeRow => RoomyInv'
<1> SUFFICES ASSUME RoomyInv, MakeRow PROVE RoomyInv'
  OBVIOUS
<1> USE DEF MakeRow
<1>1. Shape /\ i \in Row /\ i \in Nat /\ KeysInv
  BY DEF RoomyInv, TypeOK, Shape, Row
<1>2. DOMAIN mem' = Addresses
  OBVIOUS
<1>3. \A a \in Addresses : a \notin RowAddresses(i) => mem'[a] = mem[a]
  OBVIOUS
<1>4. ASSUME NEW k \in Byte PROVE mem'[i * m + k] = Output(i, k)
  <2>1. /\ i * m + k \in Addresses /\ i * m + k \in RowAddresses(i)
        /\ (i * m + k) % m = k
    BY <1>1, RowPlace
  <2>2. mem'[i * m + k] = Pad(i, k)
    BY <2>1
  <2> QED BY <1>1, <2>2, OwnPad
<1> QED BY <1>2, <1>3, <1>4, MakingRow

(* The receiver's rows become what they are to be.                         *)
LEMMA RoomyAddDecoded == RoomyInv /\ AddDecoded => RoomyInv'
<1> SUFFICES ASSUME RoomyInv, AddDecoded PROVE RoomyInv'
  OBVIOUS
<1> USE DEF AddDecoded
<1>1. /\ Shape /\ Roomy(n, m) /\ i \in Nat /\ i <= n /\ TypeOK
      /\ KeysInv /\ MadeInv
  BY DEF RoomyInv, TypeOK, Shape
<1>2. /\ \A j : RowAddresses(j)' = RowAddresses(j)
      /\ \A j, k : KeyAddress(j, k)' = KeyAddress(j, k)
      /\ Row' = Row /\ Byte' = Byte /\ Addresses' = Addresses
      /\ Values' = Values /\ End' = End
  BY DEF RowAddresses, KeyAddress, OprfOutput, Row, Byte, Addresses, Values, Temp, End
<1>3. TypeOK'
  BY <1>1, <1>2 DEF TypeOK
<1>4. ASSUME NEW j \in Row, NEW k \in Byte PROVE mem[j * m + k] = Output(j, k)
  <2>1. j \in Nat /\ j < n
    BY <1>1 DEF Row, Shape
  <2>2. CASE j < i
    BY <1>1, <2>1, <2>2 DEF MadeInv
  <2>3. CASE ~ (j < i)
    <3>1. m = BlockSize /\ j \in i .. n - 1
      BY <1>1, <2>1, <2>3 DEF Shape
    <3>2. mem[KeyAddress(j, k)] = Key(j, k)
      BY <1>1, <3>1 DEF KeysInv, Intact, Byte
    <3>3. OprfOutput = 0
      BY <1>1, <3>1, OutputPlace
    <3>4. KeyAddress(j, k) = j * m + k
      BY <2>1, <3>1, <3>3 DEF KeyAddress, BlockSize, Byte
    <3> QED BY <3>1, <3>2, <3>4 DEF Output, BlockSize
  <2> QED BY <2>2, <2>3
<1>5. ASSUME NEW j \in Row, NEW k \in Byte
      PROVE  mem'[j * m + k] = Addend(j, k) (+) Output(j, k)
  <2>1. /\ j * m + k \in Addresses /\ j * m + k < End
        /\ (j * m + k) \div m = j /\ (j * m + k) % m = k
    BY <1>1, RowPlace
  <2>2. mem'[j * m + k] = mem[j * m + k] (+) Addend(j, k)
    BY <2>1
  <2>3. \A x, y : x (+) y = y (+) x
    BY DEF (+)
  <2> QED BY <1>4, <2>2, <2>3
<1>6. RowsFromOwnOutputs'
  BY <1>5 DEF RowsFromOwnOutputs, Row, Byte, Output
<1> QED BY <1>1, <1>3, <1>6 DEF RoomyInv, AddendsInv, KeysInv, MadeInv

(* No step breaks the invariant.                                           *)
LEMMA RoomyStep == RoomyInv /\ [Next]_vars => RoomyInv'
<1> SUFFICES ASSUME RoomyInv, [Next]_vars PROVE RoomyInv'
  OBVIOUS
<1>1. CASE RunOprf
  BY <1>1, RoomyOprf
<1>2. CASE AddPad
  BY <1>2, RoomyAddPad
<1>3. CASE MakeRow
  BY <1>3, RoomyMakeRow
<1>4. CASE AddDecoded
  BY <1>4, RoomyAddDecoded
<1>5. CASE SenderReturns
  <2>1. TypeOK'
    BY <1>5 DEF SenderReturns, RoomyInv, TypeOK, Addresses, Temp, End
  <2>2. RowsFromOwnOutputs'
    BY <1>5 DEF SenderReturns, RoomyInv, TypeOK, MadeInv, RowsFromOwnOutputs, Output, Byte
  <2> QED BY <1>5, <2>1, <2>2
          DEF SenderReturns, RoomyInv, AddendsInv, KeysInv, MadeInv
<1>6. CASE UNCHANGED vars
  BY <1>6 DEF vars, RoomyInv, TypeOK, AddendsInv, KeysInv, MadeInv, RowsFromOwnOutputs,
              Addresses, Temp, Values, End, Row, Byte, Intact, KeyAddress, OprfOutput, Output
<1> QED BY <1>1, <1>2, <1>3, <1>4, <1>5, <1>6 DEF Next, Returned

(***************************************************************************)
(* If the receiver's buffers are roomy, every row is made from its own     *)
(* addend and its own OPRF output, for any number and any size of rows.    *)
(***************************************************************************)
THEOREM RowsAreOwn == ASSUME RoomyCases PROVE Spec => []RowsFromOwnOutputs
<1>1. Init => RoomyInv
  BY RoomyInit
<1>2. RoomyInv => RowsFromOwnOutputs
  BY DEF RoomyInv
<1> QED BY <1>1, <1>2, RoomyStep, PTL DEF Spec

(* Rows of at most a block or of 31 bytes or more always leave the room.   *)
LEMMA RoomForMostSizes ==
    \A rows, bytes \in Nat \ {0} : bytes <= BlockSize \/ bytes >= 31 => Roomy(rows, bytes)
<1>1. ASSUME NEW rows \in Nat \ {0}, NEW bytes \in Nat \ {0}, bytes >= 31
      PROVE  (rows * bytes) % 16 <= bytes - 16
  <2>1. rows * bytes \in Nat
    OBVIOUS
  <2>2. (rows * bytes) % 16 \in 0 .. 15
    BY <2>1, Division
  <2> QED BY <1>1, <2>2
<1> QED BY <1>1 DEF Roomy, BlockSize

(* No received row is a little longer than a block.                        *)
UsualSizes == \A case \in Cases : case.op = "receive" => case.m <= BlockSize \/ case.m >= 31

(***************************************************************************)
(* However many rows are received, with at most a block or with 31 bytes   *)
(* or more to a row each is made from its own addend and its own output:   *)
(* only rows in between can be wrong.                                      *)
(***************************************************************************)
THEOREM RowsOfUsualSizesAreOwn == ASSUME UsualSizes PROVE Spec => []RowsFromOwnOutputs
<1>1. RoomyCases
  <2> SUFFICES ASSUME NEW case \in Cases, case.op = "receive" PROVE Roomy(case.n, case.m)
    BY DEF RoomyCases
  <2>1. case.n \in Nat \ {0} /\ case.m \in Nat \ {0}
    BY CasesAssumption
  <2>2. case.m <= BlockSize \/ case.m >= 31
    BY DEF UsualSizes
  <2> QED BY <2>1, <2>2, RoomForMostSizes
<1> QED BY <1>1, RowsAreOwn

-----------------------------------------------------------------------------
(* The rows of every other buffer.                                         *)

(* Outputs, what they are expanded to, addends and other bytes differ.     *)
LEMMA AtomsDiffer ==
    /\ \A j, k, l, h : Expanded(j, k) # Key(l, h) /\ Other # Key(l, h)
    /\ \A j, k : Other (+) Addend(j, k) # Addend(j, k) (+) Expanded(j, k)
<1>1. \A j, k, l, h :
        /\ <<"expanded", j, k>> # <<"key", l, h>>
        /\ <<"other", 0, 0>> # <<"key", l, h>>
        /\ <<"other", 0, 0>> # <<"addend", l, h>>
        /\ <<"other", 0, 0>> # <<"expanded", l, h>>
  OBVIOUS
<1>2. \A j, k, l, h : Expanded(j, k) # Key(l, h) /\ Other # Key(l, h)
  BY <1>1 DEF Expanded, Key, Other
<1>3. ASSUME NEW j, NEW k PROVE Other (+) Addend(j, k) # Addend(j, k) (+) Expanded(j, k)
  <2>1. <<"other", 0, 0>> \in Other (+) Addend(j, k)
    BY <1>1 DEF Other, Addend, (+)
  <2>2. <<"other", 0, 0>> \notin Addend(j, k) (+) Expanded(j, k)
    BY <1>1 DEF Expanded, Addend, (+)
  <2> QED BY <2>1, <2>2
<1> QED BY <1>2, <1>3

TightCases == \A case \in Cases : case.op = "receive" /\ ~ Roomy(case.n, case.m)

(* The last output is where a row before the last one is to be.            *)
LEMMA LastOutput ==
    ASSUME Shape, op = "receive", ~ Roomy(n, m)
    PROVE  /\ m > BlockSize /\ n - 1 \in Row /\ 0 \in Byte
           /\ KeyAddress(n - 1, 0) \in Nat /\ KeyAddress(n - 1, 0) < (n - 1) * m
           /\ KeyAddress(n - 1, 0) \in Addresses
<1> USE DEF Shape, BlockSize
<1>1. m > 16 /\ n - 1 \in Row /\ 0 \in Byte /\ 0 \in 0 .. BlockSize - 1
  BY DEF Roomy, Row, Byte
<1>2. /\ OprfOutput \in Nat
      /\ OprfOutput = End - (End % 16) - 16 * n
  BY <1>1, OutputPlace
<1>3. End \in Nat /\ (n - 1) * m = End - m /\ (End % 16) \in 0 .. 15
  BY DEF End
<1>4. (End % 16) > m - 16
  BY <1>3 DEF Roomy, End
<1>5. KeyAddress(n - 1, 0) = OprfOutput + 16 * n - 16
  BY <1>2 DEF KeyAddress
<1>6. KeyAddress(n - 1, 0) \in Addresses
  BY <1>1, KeyPlace
<1> QED BY <1>1, <1>2, <1>3, <1>4, <1>5, <1>6 DEF Addresses

LEMMA TightInit == TightCases /\ Init => TightInv
<1> SUFFICES ASSUME TightCases, Init PROVE TightInv
  OBVIOUS
<1>1. Shape /\ op = "receive" /\ ~ Roomy(n, m) /\ i = 0 /\ pc = "oprf"
  <2>1. PICK case \in Cases : op = case.op /\ n = case.n /\ m = case.m
    BY DEF Init
  <2>2. case \in [op : Operation, n : Nat \ {0}, m : Nat \ {0}]
    BY CasesAssumption
  <2> QED BY <2>1, <2>2 DEF Init, TightCases, Shape
<1>2. TypeOK
  BY <1>1 DEF TypeOK, Shape, Init
<1> QED BY <1>1, <1>2 DEF TightInv

(* Making rows overwrites the last output, and the last row shows it.      *)
LEMMA TightMakeRow == TightInv /\ MakeRow => TightInv'
<1> SUFFICES ASSUME TightInv, MakeRow PROVE TightInv'
  OBVIOUS
<1> USE DEF MakeRow
<1>1. Shape /\ op = "receive" /\ ~ Roomy(n, m) /\ i \in Row /\ i \in Nat /\ TypeOK
  BY DEF TightInv, TypeOK, Shape, Row
<1> DEFINE last == KeyAddress(n - 1, 0)
<1>2. /\ m > BlockSize /\ n - 1 \in Row /\ 0 \in Byte
      /\ last \in Nat /\ last < (n - 1) * m /\ last \in Addresses
  BY <1>1, LastOutput
<1>3. last' = last /\ Addresses' = Addresses /\ Roomy(n, m)' = Roomy(n, m)
  BY DEF KeyAddress, OprfOutput, Temp, End, Addresses, Roomy
<1>4. TypeOK'
  BY <1>1, <1>3 DEF TypeOK, Row, Shape
<1>5. ASSUME last < (i + 1) * m PROVE mem'[last] # Key(n - 1, 0)
  <2>1. CASE last \in RowAddresses(i)
    <3>1. mem'[last] = Pad(i, last % m)
      BY <1>2, <2>1
    <3>2. Pad(i, last % m) \in {Expanded(i, last % m), Other}
      BY <1>1, <1>2 DEF Pad, Shape, BlockSize
    <3> QED BY <3>1, <3>2, AtomsDiffer
  <2>2. CASE last \notin RowAddresses(i)
    <3>1. i * m \in Nat /\ (i + 1) * m = i * m + m
      BY <1>1 DEF Shape
    <3>2. last < i * m
      BY <1>1, <1>2, <1>5, <2>2, <3>1 DEF RowAddresses, Shape
    <3>3. mem'[last] = mem[last]
      BY <1>2, <2>2
    <3> QED BY <3>2, <3>3 DEF TightInv
  <2> QED BY <2>1, <2>2
<1>6. ASSUME i + 1 = n PROVE mem'[(n - 1) * m] = Other
  <2>1. i = n - 1
    BY <1>1, <1>6 DEF Shape
  <2>2. mem[last] # Key(n - 1, 0)
    BY <1>2, <2>1 DEF TightInv
  <2>3. ~ Intact(i)
    BY <2>1, <2>2 DEF Intact, BlockSize
  <2>4. /\ i * m + 0 \in Addresses /\ i * m + 0 \in RowAddresses(i) /\ i * m + 0 = i * m
    BY <1>1, <1>2, RowPlace DEF Shape
  <2>5. mem'[i * m] = Pad(i, (i * m) % m)
    BY <2>4
  <2>6. Pad(i, (i * m) % m) = Other
    BY <1>1, <1>2, <2>3 DEF Pad, Shape, BlockSize
  <2> QED BY <2>1, <2>5, <2>6
<1> QED BY <1>1, <1>3, <1>4, <1>5, <1>6 DEF TightInv

(* No step breaks the invariant.                                           *)
LEMMA TightStep == TightInv /\ [Next]_vars => TightInv'
<1> SUFFICES ASSUME TightInv, [Next]_vars PROVE TightInv'
  OBVIOUS
<1>0. Shape /\ op = "receive" /\ ~ Roomy(n, m) /\ TypeOK
  BY DEF TightInv, TypeOK, Shape
<1>1. CASE RunOprf
  <2>1. /\ KeyAddress(n - 1, 0) \in Nat
        /\ KeyAddress(n - 1, 0)' = KeyAddress(n - 1, 0)
    BY <1>0, <1>1, LastOutput DEF RunOprf, KeyAddress, OprfOutput, Temp, End
  <2>2. i = 0 /\ i' = 0 /\ i' * m' = 0 /\ n' # 0
    BY <1>0, <1>1 DEF RunOprf, TypeOK
  <2>3. TypeOK'
    BY <1>0, <1>1 DEF RunOprf, TypeOK, Addresses, Temp, End
  <2> QED BY <1>0, <1>1, <2>1, <2>2, <2>3 DEF RunOprf, TightInv, Roomy
<1>2. CASE MakeRow
  BY <1>2, TightMakeRow
<1>3. CASE AddDecoded
  <2>1. i = n /\ mem[(n - 1) * m] = Other
    BY <1>0, <1>3, LastOutput DEF AddDecoded, TightInv, Shape, BlockSize
  <2>2. /\ (n - 1) * m + 0 \in Addresses /\ (n - 1) * m + 0 < End
        /\ ((n - 1) * m + 0) \div m = n - 1 /\ ((n - 1) * m + 0) % m = 0
        /\ (n - 1) * m + 0 = (n - 1) * m
    BY <1>0, LastOutput, RowPlace DEF Shape
  <2>3. mem'[(n - 1) * m] = Other (+) Addend(n - 1, 0)
    BY <1>3, <2>1, <2>2 DEF AddDecoded
  <2>4. TypeOK'
    BY <1>0, <1>3 DEF AddDecoded, TypeOK, Addresses, Temp, End
  <2> QED BY <1>0, <1>3, <2>3, <2>4 DEF AddDecoded, TightInv, Roomy
<1>4. CASE AddPad
  BY <1>0, <1>4 DEF AddPad
<1>5. CASE SenderReturns
  BY <1>0, <1>5 DEF SenderReturns
<1>6. CASE UNCHANGED vars
  BY <1>6 DEF vars, TightInv, TypeOK, Roomy, Addresses, Temp, End, KeyAddress, OprfOutput
<1> QED BY <1>1, <1>2, <1>3, <1>4, <1>5, <1>6 DEF Next, Returned

(***************************************************************************)
(* If they are not roomy, the last row never is what it is to be: the room *)
(* RowsAreOwn asks for is needed, for every shape.                         *)
(***************************************************************************)
THEOREM LastRowIsNot == ASSUME TightCases PROVE Spec => [](pc = "done" => ~ RowsFromOwnOutputs)
<1>1. Init => TightInv
  BY TightInit
<1>2. TightInv => (pc = "done" => ~ RowsFromOwnOutputs)
  <2> SUFFICES ASSUME TightInv, pc = "done", RowsFromOwnOutputs PROVE FALSE
    OBVIOUS
  <2>1. Shape /\ op = "receive" /\ ~ Roomy(n, m)
    BY DEF TightInv, TypeOK, Shape
  <2>2. /\ m > BlockSize /\ n - 1 \in 0 .. n - 1 /\ 0 \in 0 .. m - 1
        /\ (n - 1) * m + 0 = (n - 1) * m
    BY <2>1, LastOutput DEF Row, Byte, Shape
  <2>3. mem[(n - 1) * m] = Other (+) Addend(n - 1, 0)
    BY DEF TightInv
  <2>4. mem[(n - 1) * m + 0] = Addend(n - 1, 0) (+) Expanded(n - 1, 0)
    BY <2>1, <2>2 DEF RowsFromOwnOutputs, Shape, BlockSize
  <2> QED BY <2>2, <2>3, <2>4, AtomsDiffer
<1> QED BY <1>1, <1>2, TightStep, PTL DEF Spec
=============================================================================
