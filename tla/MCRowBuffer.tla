---------------------------- MODULE MCRowBuffer ----------------------------
(***************************************************************************)
(* Instances of RowBuffer: all small shapes for which the receiver's last  *)
(* row is far enough from its output, and those for which it is not.       *)
(***************************************************************************)
EXTENDS RowBuffer

MaxRows == 5   \* bound on n
MaxCols == 34  \* bound on m: a little over two blocks

Shapes == (1 .. MaxRows) \X (1 .. MaxCols)

Case(operation, s) == [op |-> operation, n |-> s[1], m |-> s[2]]

ReceiverTight == {Case("receive", s) : s \in {t \in Shapes : ~Roomy(t[1], t[2])}}
AllOthers == {Case(operation, s) : operation \in Operation, s \in Shapes} \ ReceiverTight
=============================================================================
