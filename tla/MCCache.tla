---- MODULE MCCache ----
(* Small instances of CacheSystem: lines 0, 2 and 4 meet in set 0.  Lines 0   *)
(* and 4 are mapped copyback, 4 has the descriptors; line 2 is chip memory,   *)
(* write-through or cache-inhibited.  The misaligned accesses run from line 0 *)
(* into line 1, set 1.                                                        *)
EXTENDS CacheSystem

Line(k) == k * Beats
Acc(k, a, n, ci, cb, miss) == [kind |-> k, a |-> a, n |-> n, ci |-> ci, cb |-> cb, miss |-> miss]
Kinds == {"read", "write"}

SmallOps == {Acc(k, Line(l), 1, FALSE, TRUE, FALSE) : k \in Kinds, l \in {0, 4}}
       \cup {Acc("read", Line(2), 1, FALSE, FALSE, miss) : miss \in BOOLEAN}
       \cup {Acc("write", Line(2), 1, ci, FALSE, FALSE) : ci \in BOOLEAN}
       \cup {Acc("read", Line(2), 1, TRUE, FALSE, FALSE)}
       \cup {Acc(k, Line(1) - 1, 2, FALSE, FALSE, FALSE) : k \in Kinds}
SmallDma == {Line(2)}
SmallDescs == {Line(4)}
====
