---------------------------- MODULE MCPsiFaults ----------------------------
(***************************************************************************)
(* Instances of PsiFaults for TLC.                                         *)
(***************************************************************************)
EXTENDS PsiFaults

(* SepPSI::run with sends that complete at once or on receipt; sockets of  *)
(* the system, which buffer.                                               *)
MCSettings == [mode : {"run"}, buffered : BOOLEAN] \cup [mode : {"asio"}, buffered : {TRUE}]

(***************************************************************************)
(* No task throws; or those of one participant's zero sharing (its set is  *)
(* empty); or those of the conversations between two participants, one of  *)
(* them or several (an instance failed offline; sets cannot be encoded).   *)
(***************************************************************************)
Between(q, r) == {c \in Conv : {c.from, c.to} = {q, r}}
MCFaults ==
    {{}} \cup {{t \in Task : Owner(t) = q /\ t.conv.kind = "zs"} : q \in Party}
         \cup {{t \in Task : t.conv \in Between(q, r)} : q, r \in Party}
=============================================================================
