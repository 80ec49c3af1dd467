---- MODULE Ram2w ----
(* rtl/compat/ap040_xc7_ram2w.v: a table with two write ports made of two   *)
(* single-write banks.  Port 0 writes bank 0 with d0 XOR bank1[a0], port 1  *)
(* writes bank 1 with d1 XOR bank0[a1]; a row reads b0[a] XOR b1[a].  The   *)
(* cache keeps its valid bits and round-robin pointers in two of these.     *)

CONSTANTS Rows, Bits

VARIABLES b0, b1,
          in          \* what the two ports are given in this clock

banks == <<b0, b1, in>>

Data == [Bits -> BOOLEAN]
Zero == [b \in Bits |-> FALSE]

Inputs == [we0 : BOOLEAN, a0 : Rows, d0 : Data, we1 : BOOLEAN, a1 : Rows, d1 : Data]

BanksTypeOK == /\ b0 \in [Rows -> Data]
          /\ b1 \in [Rows -> Data]
          /\ in \in Inputs

XorBits(x, y) == [b \in Bits |-> x[b] # y[b]]

\* The asynchronous read port: rd = b0[a] ^ b1[a].
Rd(a) == XorBits(b0[a], b1[a])

BanksInit == /\ b0 = [r \in Rows |-> Zero]
        /\ b1 = [r \in Rows |-> Zero]
        /\ in \in Inputs

\* Mutant of Same: the double write of one row is not singled out.
SameNever(we0, a0, we1, a1) == FALSE

\* Both ports address one row: only port 1 writes.
Same(we0, a0, we1, a1) == we0 /\ we1 /\ a0 = a1

\* One clock edge.  Both right-hand sides read the banks as they were.
BanksClock(we0, a0, d0, we1, a1, d1) ==
    /\ b0' = IF we0 /\ ~Same(we0, a0, we1, a1)
             THEN [b0 EXCEPT ![a0] = XorBits(d0, b1[a0])] ELSE b0
    /\ b1' = IF we1
             THEN [b1 EXCEPT ![a1] = XorBits(d1, b0[a1])] ELSE b1

BanksNext == /\ BanksClock(in.we0, in.a0, in.d0, in.we1, in.a1, in.d1)
        /\ in' \in Inputs

BanksSpec == BanksInit /\ [][BanksNext]_banks

\* The table the read ports show.
Abs == INSTANCE TwoWriteTable WITH table <- [r \in Rows |-> Rd(r)]

(* Seen through its read ports the two-bank arrangement is the plain         *)
(* two-write table given the same inputs, double writes of a row included.   *)
ImplementsTable == Abs!Spec
====
