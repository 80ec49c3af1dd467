---------------------------- MODULE TwoWriteTable ----------------------------
(* What a table with two write ports promises: the flip-flop array written  *)
(*    if (we0) t[a0] <= d0;  if (we1) t[a1] <= d1;                          *)
(* that rtl/compat/ap040_xc7_ram2w.v replaces.  Port 1 wins a double write  *)
(* of one row.                                                              *)

CONSTANTS Rows,     \* row addresses
          Bits      \* bit positions of one row

VARIABLES table,    \* table[row][bit]
          in        \* what the two ports are given in this clock

Data == [Bits -> BOOLEAN]
Zero == [b \in Bits |-> FALSE]

Inputs == [we0 : BOOLEAN, a0 : Rows, d0 : Data, we1 : BOOLEAN, a1 : Rows, d1 : Data]

Init == table = [r \in Rows |-> Zero] /\ in \in Inputs

\* One clock: each port writes or not.
Clock(we0, a0, d0, we1, a1, d1) ==
    table' = [r \in Rows |-> IF we1 /\ r = a1 THEN d1
                             ELSE IF we0 /\ r = a0 THEN d0
                             ELSE table[r]]

Next == /\ Clock(in.we0, in.a0, in.d0, in.we1, in.a1, in.d1)
        /\ in' \in Inputs

Spec == Init /\ [][Next]_<<table, in>>
====
