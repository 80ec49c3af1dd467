---- MODULE MCBcu ----
(* A small page of three longwords (Page = 12) and the start of the next:     *)
(* posted and synchronous stores, a byte inside a longword, a push, a         *)
(* misaligned store and one in another longword; reads of a longword, across  *)
(* two longwords, and of the alias in the other page.                         *)
EXTENDS Bcu

MCBytes == 0..15
St(a, n, push, post) == [a |-> a, n |-> n, push |-> push, post |-> post]
Rd(a, n) == [id |-> 0, a |-> a, n |-> n]
MCSmall == {St(0, 4, FALSE, TRUE), St(1, 1, FALSE, TRUE), St(0, 4, FALSE, FALSE), St(0, 4, TRUE, TRUE)}
MCReads == {Rd(0, 4), Rd(2, 4), Rd(12, 4)}
MCStores == MCSmall \cup {St(2, 4, FALSE, TRUE), St(8, 4, FALSE, TRUE)}
\* Faults and splitting, with one store more than the FIFO holds, so that one
\* waits in WB for a place: a posted store that goes out in pieces and a
\* synchronous one across the page boundary (a fault of a whole transfer acts
\* like a fault of the first piece); reads over the same bytes, and one that
\* is aligned, the only kind a late dispatch is made for.
MCFaultStores == {St(5, 4, FALSE, TRUE), St(10, 4, FALSE, FALSE)}
MCFaultReads == {Rd(4, 4), Rd(5, 4), Rd(10, 4), Rd(12, 4)}

MCFewStores == {St(0, 4, FALSE, TRUE), St(0, 4, FALSE, FALSE)}
====
