------------------------------ MODULE MCSepOpprf ------------------------------
(***************************************************************************)
(* Instances of SepOpprf for TLC: chunks of 8 blocks, the least size for   *)
(* which the unrolled xor loop runs.                                       *)
(***************************************************************************)
EXTENDS SepOpprf

(* Offline, then online, as SepPSI calls it.                               *)
Once == <<"offline", "online">>

(* The objects used again, with and without a VOLE for each use, and used  *)
(* unprepared.                                                             *)
Again == {<<"offline", "online", "offline", "online">>,
          <<"offline", "online", "online">>,
          <<"offline", "offline", "online", "online", "offline", "online">>,
          <<"online">>}

(* Either mode, with sends that complete at once or on receipt; the mode   *)
(* SepPSI uses.                                                            *)
AllModes == [malicious : BOOLEAN, buffered : BOOLEAN]
Honest == [malicious : {FALSE}, buffered : BOOLEAN]

Case(size, mode, calls) ==
    [n |-> size, malicious |-> mode.malicious, buffered |-> mode.buffered, plan |-> calls]

(* Vectors of less than two chunks: in the code, of less than 2^29 blocks.  *)
Short == {Case(size, mode, Once) : size \in 1 .. 15, mode \in AllModes}
            \cup {Case(size, mode, calls) : size \in {1, 12}, mode \in AllModes, calls \in Again}

(* Exactly two chunks, two and a part, three, and more.                    *)
Long == {Case(size, mode, Once) : size \in {16, 17, 24, 30}, mode \in Honest}
===============================================================================
