---- MODULE Bus16Proofs ----
(***************************************************************************)
(* The 16-bit bus adapter: every operand is moved whole and once, for      *)
(* every address space that wraps on a word and any set of starts.         *)
(*                                                                         *)
(* The invariant says where an operand stands at every clock: the bytes    *)
(* before the cycle on the bus have been moved, the shift registers hold   *)
(* the rest, and the target has the bytes of the cycle on the bus exactly  *)
(* when it shows anything but "idle".                                      *)
(***************************************************************************)
EXTENDS Bus16, SequenceTheorems, TLAPS

\* The address of the operand's i-th byte, and how many bytes are behind us.
At(i) == Plus(op.addr, i - 1)
moved == op.size - bytes_left

\* What a read has collected, and what the target has taken, after n bytes.
ReadBytes(n) == [i \in 1..n |-> At(i)]
TakenBytes(n) == [i \in 1..n |-> [at |-> At(i), byte |-> i]]

Raised == active /\ ~subcycle_gap
Captured == Raised /\ target # "idle"

\* The bus shows the saved request's next bytes, or IDLE.
BusShowsRequest ==
    bus = IF Raised THEN CycleAt(kind_r, cur_addr, bytes_left, wshift) ELSE IDLE

\* The registers of an operand under way stand at its next byte.
OperandUnderWay ==
    active =>
        /\ mem_req /\ ~mem_ack
        /\ kind_r = op.kind /\ bytes_left \in 1..op.size
        /\ cur_addr = Plus(op.addr, moved)
        /\ wshift = [i \in 1..bytes_left |-> moved + i]
        /\ rshift = IF op.kind = "write" THEN <<>> ELSE ReadBytes(moved)

\* The target has the cycle on the bus, and the bytes of a write up to it.
TargetHasCycle == Captured => t_bus = bus
TargetHasBytes ==
    /\ active /\ op.kind = "write" =>
           taken = TakenBytes(IF Captured THEN moved + consumed ELSE moved)
    /\ ~active /\ mem_req /\ ~mem_ack => taken = <<>>

\* A bus error that outlives its cycle meets no request.
ErrorIsSpent == ~active /\ target = "berr" => ~mem_req

AdapterInv ==
    /\ AdapterTypeOK
    /\ BusShowsRequest /\ OperandUnderWay
    /\ TargetHasCycle /\ TargetHasBytes
    /\ ErrorIsSpent /\ AckIsWholeOperand

----------------------------------------------------------------------------
(* Addresses and sequences *)

\* One lap at most: n below or at the modulus.
LEMMA ModOnce ==
    ASSUME NEW m \in Nat \ {0}, NEW x \in 0..m - 1, NEW n \in 0..m
    PROVE  (x + n) % m = IF x + n < m THEN x + n ELSE x + n - m
<1>1. CASE x + n < m
  BY <1>1
<1>2. CASE ~(x + n < m)
  <2> DEFINE y == x + n - m
  <2>1. y \in 0..m - 1 /\ x + n = y + m
    BY <1>2
  <2> HIDE DEF y
  <2>2. (y + m) % m = y
    BY <2>1
  <2> QED
    BY <1>2, <2>1, <2>2
<1> QED
  BY <1>1, <1>2

\* Stepping through an operand wraps at the end of the space, at most once.
LEMMA PlusWraps ==
    ASSUME NEW a \in Addr, NEW n \in 0..4
    PROVE  /\ Plus(a, n) = IF a + n < Space THEN a + n ELSE a + n - Space
           /\ Plus(a, n) \in Addr
<1>1. Space \in Nat \ {0} /\ a \in 0..Space - 1 /\ n \in 0..Space
  BY SpaceAssumption DEF Addr
<1>2. Plus(a, n) = IF a + n < Space THEN a + n ELSE a + n - Space
  BY <1>1, ModOnce DEF Plus
<1> QED
  BY <1>1, <1>2 DEF Addr

\* Two steps are one.
LEMMA PlusPlus ==
    ASSUME NEW a \in Addr, NEW n \in 0..4, NEW m \in 0..4, n + m <= 4
    PROVE  Plus(Plus(a, n), m) = Plus(a, n + m)
<1> DEFINE b == Plus(a, n)
<1>1. b \in Addr /\ b = IF a + n < Space THEN a + n ELSE a + n - Space
  BY PlusWraps
<1>2. Plus(b, m) = IF b + m < Space THEN b + m ELSE b + m - Space
  BY <1>1, PlusWraps
<1>3. Plus(a, n + m) = IF a + (n + m) < Space THEN a + (n + m) ELSE a + (n + m) - Space
  <2>1. n + m \in 0..4
    OBVIOUS
  <2> QED
    BY <2>1, PlusWraps
<1>4. Space \in Nat /\ Space >= 4 /\ a \in Int
  BY SpaceAssumption DEF Addr
<1> HIDE DEF b
<1>5. Plus(b, m) = Plus(a, n + m)
  BY <1>1, <1>2, <1>3, <1>4 DEF Addr
<1> QED
  BY <1>5 DEF b

\* The word of a byte: an even one and its successor, neither of which wraps.
LEMMA WordOf ==
    ASSUME NEW a \in Addr
    PROVE  LET even == a - (a % 2) IN
           /\ Odd(a) => even + 1 = a
           /\ ~Odd(a) => even = a /\ even + 1 = Plus(a, 1) /\ a + 1 \in Addr
           /\ a = Plus(a, 0)
<1>1. a \in Int /\ a % 2 \in {0, 1}
  BY DEF Addr
<1>2. Odd(a) => a - (a % 2) + 1 = a
  BY <1>1 DEF Odd
<1>3. Plus(a, 0) = a
  BY PlusWraps, SpaceAssumption DEF Addr
<1>4. ASSUME ~Odd(a) PROVE a - (a % 2) = a /\ a + 1 \in Addr
  <2>1. a % 2 = 0
    BY <1>1, <1>4 DEF Odd
  <2>2. a + 1 # Space
    BY <1>1, <2>1, SpaceAssumption
  <2> QED
    BY <1>1, <2>1, <2>2, SpaceAssumption DEF Addr
<1>5. ASSUME ~Odd(a) PROVE a + 1 = Plus(a, 1)
  <2>1. a + 1 < Space
    BY <1>4, <1>5, SpaceAssumption DEF Addr
  <2>2. Plus(a, 1) = IF a + 1 < Space THEN a + 1 ELSE a + 1 - Space
    BY PlusWraps
  <2> QED
    BY <2>1, <2>2
<1> QED
  BY <1>2, <1>3, <1>4, <1>5

\* A function on 1..n is a sequence of length n.
LEMMA FcnIsSeq ==
    ASSUME NEW S, NEW n \in Nat, NEW f \in [1..n -> S]
    PROVE  f \in Seq(S) /\ Len(f) = n
OBVIOUS

\* A sequence that goes on as f does makes f's prefix longer.
LEMMA PrefixGrows ==
    ASSUME NEW S, NEW n \in Nat, NEW c \in Nat, NEW f \in [1..n + c -> S],
           NEW s \in Seq(S), Len(s) = c, \A j \in 1..c : s[j] = f[n + j]
    PROVE  [i \in 1..n |-> f[i]] \o s = f
<1> DEFINE p == [i \in 1..n |-> f[i]]
<1>1. p \in Seq(S) /\ Len(p) = n
  <2>1. p \in [1..n -> S]
    OBVIOUS
  <2> HIDE DEF p
  <2> QED
    BY <2>1, FcnIsSeq
<1>2. f \in Seq(S) /\ Len(f) = n + c
  BY FcnIsSeq
<1>3. \A i \in 1..n : p[i] = f[i]
  OBVIOUS
<1> HIDE DEF p
<1>4. /\ p \o s \in Seq(S) /\ Len(p \o s) = n + c
      /\ \A i \in 1..n + c : (p \o s)[i] = IF i <= n THEN p[i] ELSE s[i - n]
  <2>1. /\ p \o s \in Seq(S) /\ Len(p \o s) = Len(p) + Len(s)
        /\ \A i \in 1..Len(p) + Len(s) :
               (p \o s)[i] = IF i <= Len(p) THEN p[i] ELSE s[i - Len(p)]
    BY <1>1, ConcatProperties, Zenon
  <2>2. Len(p) = n /\ Len(s) = c
    BY <1>1
  <2> QED
    BY <2>1, <2>2
<1>5. ASSUME NEW i \in 1..n + c PROVE (p \o s)[i] = f[i]
  <2>1. CASE i <= n
    BY <1>3, <1>4, <2>1
  <2>2. CASE ~(i <= n)
    <3>1. i - n \in 1..c /\ n + (i - n) = i
      BY <2>2
    <3>2. s[i - n] = f[n + (i - n)]
      BY <3>1
    <3> QED
      BY <1>4, <2>2, <3>1, <3>2
  <2> QED
    BY <1>5, <2>1, <2>2
<1>6. p \o s = f
  BY <1>2, <1>4, <1>5, SeqEqual
<1> QED
  BY <1>6 DEF p

\* The operand is small and starts in the space.
LEMMA Operand ==
    ASSUME AdapterTypeOK
    PROVE  op.addr \in Addr /\ op.size \in {1, 2, 4} /\ op.kind \in OperandKinds
BY SpaceAssumption DEF AdapterTypeOK, Operands, Sizes

\* Where an operand under way stands, and what its cycle moves.
LEMMA CycleFacts ==
    ASSUME AdapterTypeOK, OperandUnderWay, active
    PROVE  /\ moved \in 0..3 /\ bytes_left \in 1..4 /\ moved + bytes_left = op.size
           /\ consumed \in {1, 2} /\ consumed <= bytes_left
           /\ next_left \in 0..3 /\ next_left = bytes_left - consumed
           /\ next_left = op.size - (moved + consumed)
           /\ consumed = 2 <=> ~Odd(cur_addr) /\ bytes_left >= 2
           /\ cur_addr \in Addr /\ cur_addr = At(moved + 1)
           /\ consumed = 2 => Plus(cur_addr, 1) = At(moved + 2)
           /\ Plus(cur_addr, consumed) = Plus(op.addr, moved + consumed)
           /\ wshift[1] = moved + 1
           /\ consumed = 2 => wshift[2] = moved + 2
<1>1. op.addr \in Addr /\ op.size \in {1, 2, 4} /\ bytes_left \in 1..op.size
  BY Operand DEF OperandUnderWay
<1>2. moved \in 0..3 /\ bytes_left \in 1..4 /\ moved + bytes_left = op.size
  <2>1. op.size \in 1..4 /\ bytes_left \in Int /\ 1 <= bytes_left /\ bytes_left <= op.size
    BY <1>1
  <2> QED
    BY <2>1 DEF moved
<1>3. /\ consumed \in {1, 2} /\ consumed <= bytes_left
      /\ consumed = 2 <=> ~Odd(cur_addr) /\ bytes_left >= 2
  BY <1>2 DEF consumed
<1>4. /\ next_left \in 0..3 /\ next_left = bytes_left - consumed
      /\ next_left = op.size - (moved + consumed)
  BY <1>2, <1>3 DEF next_left
<1>5. cur_addr = Plus(op.addr, moved) /\ cur_addr \in Addr
  BY <1>1, <1>2, PlusWraps DEF OperandUnderWay
<1>6. cur_addr = At(moved + 1)
  BY <1>2, <1>5 DEF At
<1>7. ASSUME NEW m \in 0..2, moved + m <= 4
      PROVE  Plus(cur_addr, m) = Plus(op.addr, moved + m)
  <2>1. moved \in 0..4 /\ m \in 0..4
    BY <1>2
  <2>2. Plus(Plus(op.addr, moved), m) = Plus(op.addr, moved + m)
    BY <1>1, <1>7, <2>1, PlusPlus
  <2> QED
    BY <1>5, <2>2
<1>8. Plus(cur_addr, consumed) = Plus(op.addr, moved + consumed)
  <2>1. consumed \in 0..2 /\ moved + consumed <= 4
    BY <1>1, <1>2, <1>3
  <2> QED
    BY <1>7, <2>1
<1>9. consumed = 2 => Plus(cur_addr, 1) = At(moved + 2)
  <2>1. (moved + 2) - 1 = moved + 1
    BY <1>2
  <2> QED
    BY <1>2, <1>7, <2>1 DEF At
<1>10. wshift = [i \in 1..bytes_left |-> moved + i]
  BY DEF OperandUnderWay
<1>11. wshift[1] = moved + 1 /\ (consumed = 2 => wshift[2] = moved + 2)
  BY <1>2, <1>3, <1>10
<1> QED
  BY <1>2, <1>3, <1>4, <1>5, <1>6, <1>8, <1>9, <1>11

Moves == [at : Addr, byte : 0..4]

\* The lanes of the cycle on the bus carry its bytes, each at its own address.
LEMMA StrobedBytes ==
    ASSUME AdapterTypeOK, OperandUnderWay, active,
           bus = CycleAt(kind_r, cur_addr, bytes_left, wshift)
    PROVE  /\ Strobed(bus) \in Seq(Moves) /\ Len(Strobed(bus)) = consumed
           /\ \A j \in 1..consumed :
                  Strobed(bus)[j] = [at |-> At(moved + j), byte |-> moved + j]
<1> DEFINE a == cur_addr
           even == a - (a % 2)
           one == [at |-> At(moved + 1), byte |-> moved + 1]
           two == [at |-> At(moved + 2), byte |-> moved + 2]
<1>1. /\ moved \in 0..3 /\ bytes_left \in 1..4 /\ consumed \in {1, 2}
      /\ consumed = 2 <=> ~Odd(a) /\ bytes_left >= 2
      /\ a \in Addr /\ a = At(moved + 1)
      /\ consumed = 2 => Plus(a, 1) = At(moved + 2)
      /\ wshift[1] = moved + 1
      /\ consumed = 2 => wshift[2] = moved + 2
      /\ consumed <= bytes_left /\ moved + bytes_left <= 4
  BY CycleFacts, Operand
<1>2. /\ Odd(a) => even + 1 = a
      /\ ~Odd(a) => even = a /\ even + 1 = Plus(a, 1)
  BY <1>1, WordOf
<1>3. one \in Moves
  BY <1>1 DEF Moves
<1>4. consumed = 2 => two \in Moves
  <2>1. consumed = 2 => Plus(a, 1) \in Addr
    BY <1>1, PlusWraps
  <2> QED
    BY <1>1, <2>1 DEF Moves
<1>5. /\ bus.addr = a
      /\ bus.hi <=> ~Odd(a)
      /\ bus.lo <=> Odd(a) \/ (~Odd(a) /\ bytes_left >= 2)
      /\ bus.data = IF ~Odd(a) /\ bytes_left >= 2 THEN <<wshift[1], wshift[2]>>
                    ELSE <<wshift[1], wshift[1]>>
  BY DEF CycleAt
<1>6. Strobed(bus) = (IF bus.hi THEN <<[at |-> even, byte |-> bus.data[1]]>> ELSE <<>>) \o
                     (IF bus.lo THEN <<[at |-> even + 1, byte |-> bus.data[2]]>> ELSE <<>>)
  BY <1>5 DEF Strobed
<1>7. CASE consumed = 2
  <2>1. bus.hi /\ bus.lo /\ bus.data[1] = moved + 1 /\ bus.data[2] = moved + 2
    BY <1>1, <1>5, <1>7
  <2>2. Strobed(bus) = <<one>> \o <<two>>
    BY <1>1, <1>2, <1>6, <1>7, <2>1
  <2> HIDE DEF one, two
  <2>3. Strobed(bus) \in Seq(Moves) /\ Len(Strobed(bus)) = 2
        /\ Strobed(bus)[1] = one /\ Strobed(bus)[2] = two
    BY <1>3, <1>4, <1>7, <2>2
  <2> QED
    BY <1>7, <2>3 DEF one, two
<1>8. CASE consumed = 1
  <2>1. Strobed(bus) = <<one>>
    <3>1. CASE Odd(a)
      <4>1. ~bus.hi /\ bus.lo /\ bus.data[2] = moved + 1
        BY <1>1, <1>5, <3>1
      <4>2. Strobed(bus) = <<>> \o <<one>>
        BY <1>1, <1>2, <1>6, <3>1, <4>1
      <4> QED
        BY <4>2
    <3>2. CASE ~Odd(a)
      <4>1. bus.hi /\ ~bus.lo /\ bus.data[1] = moved + 1
        BY <1>1, <1>5, <1>8, <3>2
      <4>2. Strobed(bus) = <<one>> \o <<>>
        BY <1>1, <1>2, <1>6, <3>2, <4>1
      <4> QED
        BY <4>2
    <3> QED
      BY <3>1, <3>2
  <2> HIDE DEF one
  <2>2. Strobed(bus) \in Seq(Moves) /\ Len(Strobed(bus)) = 1 /\ Strobed(bus)[1] = one
    BY <1>3, <2>1
  <2> QED
    BY <1>8, <2>2 DEF one
<1> QED
  BY <1>1, <1>7, <1>8

\* The word the target drives back holds the bytes of the cycle it took.
LEMMA DataInBytes ==
    ASSUME AdapterTypeOK, OperandUnderWay, active, t_bus.addr = cur_addr
    PROVE  /\ data_in \in Seq(Addr) /\ Len(data_in) = consumed
           /\ \A j \in 1..consumed : data_in[j] = At(moved + j)
<1> DEFINE a == cur_addr
           even == a - (a % 2)
<1>1. /\ moved \in 0..3 /\ bytes_left \in 1..4 /\ consumed \in {1, 2}
      /\ consumed = 2 <=> ~Odd(a) /\ bytes_left >= 2
      /\ a \in Addr /\ a = At(moved + 1)
      /\ consumed = 2 => Plus(a, 1) = At(moved + 2)
  BY CycleFacts
<1>2. /\ Odd(a) => even + 1 = a
      /\ ~Odd(a) => even = a /\ even + 1 = Plus(a, 1) /\ a + 1 \in Addr
  BY <1>1, WordOf
<1>3. data_in = IF Odd(a) THEN <<even + 1>>
                ELSE IF bytes_left >= 2 THEN <<even, even + 1>> ELSE <<even>>
  BY DEF data_in
<1>4. CASE consumed = 2
  <2>1. data_in = <<a, a + 1>> /\ a + 1 = At(moved + 2) /\ a + 1 \in Addr
    BY <1>1, <1>2, <1>3, <1>4
  <2> QED
    BY <1>1, <1>4, <2>1
<1>5. CASE consumed = 1
  <2>1. data_in = <<a>>
    BY <1>1, <1>2, <1>3, <1>5
  <2> QED
    BY <1>1, <1>5, <2>1
<1> QED
  BY <1>1, <1>4, <1>5

\* So what has been moved grows by the cycle's bytes.
LEMMA TakenGrows ==
    ASSUME AdapterTypeOK, OperandUnderWay, active,
           bus = CycleAt(kind_r, cur_addr, bytes_left, wshift)
    PROVE  TakenBytes(moved) \o Strobed(bus) = TakenBytes(moved + consumed)
<1> DEFINE n == moved
           c == consumed
           f == TakenBytes(n + c)
<1>1. n \in 0..3 /\ c \in {1, 2} /\ n + c <= 4
  BY CycleFacts, Operand
<1>2. \A i \in 1..n + c : At(i) \in Addr
  BY <1>1, Operand, PlusWraps DEF At
<1> DEFINE s == Strobed(bus)
<1>3. /\ s \in Seq(Moves) /\ Len(s) = c
      /\ \A j \in 1..c : s[j] = [at |-> At(n + j), byte |-> n + j]
  BY StrobedBytes
<1> HIDE DEF n, c, s
<1>4. f \in [1..n + c -> Moves]
  BY <1>1, <1>2 DEF TakenBytes, Moves
<1>5. \A i \in 1..n + c : f[i] = [at |-> At(i), byte |-> i]
  BY DEF TakenBytes
<1>6. \A j \in 1..c : s[j] = f[n + j]
  BY <1>1, <1>3, <1>5
<1>7. TakenBytes(n) = [i \in 1..n |-> f[i]]
  BY <1>1, <1>5 DEF TakenBytes
<1> HIDE DEF f
<1>8. [i \in 1..n |-> f[i]] \o s = f
  BY <1>1, <1>3, <1>4, <1>6, PrefixGrows
<1> QED
  BY <1>7, <1>8 DEF f, n, c, s

LEMMA ReadGrows ==
    ASSUME AdapterTypeOK, OperandUnderWay, active, t_bus.addr = cur_addr
    PROVE  ReadBytes(moved) \o data_in = ReadBytes(moved + consumed)
<1> DEFINE n == moved
           c == consumed
           f == ReadBytes(n + c)
<1>1. n \in 0..3 /\ c \in {1, 2} /\ n + c <= 4
  BY CycleFacts, Operand
<1>2. \A i \in 1..n + c : At(i) \in Addr
  BY <1>1, Operand, PlusWraps DEF At
<1> DEFINE s == data_in
<1>3. s \in Seq(Addr) /\ Len(s) = c /\ \A j \in 1..c : s[j] = At(n + j)
  BY DataInBytes
<1> HIDE DEF n, c, s
<1>4. f \in [1..n + c -> Addr]
  BY <1>1, <1>2 DEF ReadBytes
<1>5. \A i \in 1..n + c : f[i] = At(i)
  BY DEF ReadBytes
<1>6. \A j \in 1..c : s[j] = f[n + j]
  BY <1>1, <1>3, <1>5
<1>7. ReadBytes(n) = [i \in 1..n |-> f[i]]
  BY <1>1, <1>5 DEF ReadBytes
<1> HIDE DEF f
<1>8. [i \in 1..n |-> f[i]] \o s = f
  BY <1>1, <1>3, <1>4, <1>6, PrefixGrows
<1> QED
  BY <1>7, <1>8 DEF f, n, c, s

----------------------------------------------------------------------------
(* The parts of a clock *)

\* A cycle raised for an operand is a cycle, never IDLE.
LEMMA RaisedCycle ==
    ASSUME NEW kind \in OperandKinds, NEW a \in Addr, NEW left, NEW bytes,
           bytes[1] \in 0..4, left >= 2 => bytes[2] \in 0..4
    PROVE  CycleAt(kind, a, left, bytes) \in Cycle /\ CycleAt(kind, a, left, bytes) # IDLE
<1> DEFINE c == CycleAt(kind, a, left, bytes)
<1>1. /\ c.kind = kind /\ c.kind # IDLE.kind
  BY DEF CycleAt, OperandKinds, IDLE
<1>2. (IF ~Odd(a) /\ left >= 2 THEN <<bytes[1], bytes[2]>> ELSE <<bytes[1], bytes[1]>>)
          \in [1..2 -> 0..4]
  <2>1. ASSUME NEW x \in 0..4, NEW y \in 0..4 PROVE <<x, y>> \in [1..2 -> 0..4]
    OBVIOUS
  <2> QED
    BY <2>1
<1>3. (~Odd(a)) \in BOOLEAN /\ (Odd(a) \/ (~Odd(a) /\ left >= 2)) \in BOOLEAN
  BY DEF Odd
<1>4. c \in Cycle
  BY <1>2, <1>3 DEF CycleAt, Cycle
<1> QED
  BY <1>1, <1>4

\* The adapter shows a cycle exactly in the clocks it raises one.
LEMMA BusIs ==
    ASSUME AdapterInv
    PROVE  /\ bus # IDLE <=> Raised
           /\ bus # IDLE => bus = CycleAt(kind_r, cur_addr, bytes_left, wshift)
<1>1. CASE Raised
  <2>1. /\ cur_addr \in Addr /\ wshift[1] = moved + 1 /\ moved \in 0..3
        /\ bytes_left >= 2 => wshift[2] = moved + 2 /\ moved \in 0..2
    <3>1. /\ cur_addr \in Addr /\ moved \in 0..3 /\ bytes_left \in 1..4
          /\ moved + bytes_left = op.size /\ op.size \in {1, 2, 4}
      BY <1>1, CycleFacts, Operand DEF AdapterInv, Raised
    <3>2. wshift = [i \in 1..bytes_left |-> moved + i]
      BY <1>1 DEF AdapterInv, OperandUnderWay, Raised
    <3> QED
      BY <3>1, <3>2
  <2>2. wshift[1] \in 0..4 /\ (bytes_left >= 2 => wshift[2] \in 0..4)
    BY <2>1
  <2>3. kind_r \in OperandKinds
    BY DEF AdapterInv, AdapterTypeOK
  <2> QED
    BY <1>1, <2>1, <2>2, <2>3, RaisedCycle DEF AdapterInv, BusShowsRequest
<1>2. CASE ~Raised
  BY <1>2 DEF AdapterInv, BusShowsRequest
<1> QED
  BY <1>1, <1>2

\* The target, whatever it answers: it takes what it sees when it is idle, keeps
\* its answer while it sees a cycle, and is idle again after it has seen IDLE.
LEMMA TargetStep ==
    ASSUME AdapterTypeOK, NEW answer \in Answers, TargetClock(answer)
    PROVE  /\ target' \in {"idle", "busy", "ack", "berr"} /\ t_bus' \in Cycle \cup {IDLE}
           /\ bus = IDLE => target' = "idle"
           /\ bus # IDLE => target' # "idle"
           /\ bus # IDLE /\ target = "idle" => t_bus' = bus
           /\ ~(bus # IDLE /\ target = "idle") => t_bus' = t_bus
           /\ bus # IDLE /\ target \in {"ack", "berr"} => target' = target
BY DEF AdapterTypeOK, Answers, TargetClock, TargetAccepts

\* While an operand is under way and no error ends it the client holds its request.
LEMMA ClientHolds ==
    ASSUME AdapterTypeOK, mem_req, target # "berr", ~mem_ack, ClientClock
    PROVE  mem_req' = mem_req /\ op' = op /\ taken' = taken
BY DEF ClientClock

\* A bus error withdraws the request.
LEMMA ClientDrops ==
    ASSUME AdapterTypeOK, mem_req, target = "berr", ClientClock
    PROVE  mem_req' = FALSE /\ op' = op /\ taken' = taken
BY DEF ClientClock, DropRequest

\* In any clock in which it may, the client ends with its operand, none or a new one.
LEMMA ClientMoves ==
    ASSUME AdapterTypeOK, ~mem_req \/ mem_ack, ClientClock
    PROVE  /\ mem_req' \in BOOLEAN /\ op' \in Operands
           /\ mem_req' => taken' = <<>>
<1>1. CASE ~mem_req
  BY <1>1 DEF ClientClock, NewRequest, AdapterTypeOK
<1>2. CASE mem_req /\ target = "berr"
  BY <1>2 DEF ClientClock, DropRequest, AdapterTypeOK
<1>3. CASE mem_req /\ target # "berr" /\ mem_ack
  BY <1>3 DEF ClientClock, DropRequest, NewRequest, AdapterTypeOK
<1> QED
  BY <1>1, <1>2, <1>3

\* With the operand unchanged its bytes are the same.
LEMMA SameBytes ==
    ASSUME op' = op
    PROVE  /\ \A n : [i \in 1..n |-> At(i)'] = ReadBytes(n)
           /\ \A n : [i \in 1..n |-> [at |-> At(i)', byte |-> i]] = TakenBytes(n)
BY DEF At, ReadBytes, TakenBytes

----------------------------------------------------------------------------
(* The steps *)

\* A clock without the enable: only the target moves, and may take the cycle.
LEMMA WaitStep ==
    ASSUME AdapterInv, NEW answer \in Answers, TargetClock(answer),
           UNCHANGED <<adapter, mem_req, op>>,
           taken' = IF TargetAccepts /\ Len(taken) < 5
                    THEN taken \o Strobed(bus) ELSE taken
    PROVE  AdapterInv'
<1>1. /\ mem_req' = mem_req /\ op' = op /\ active' = active /\ subcycle_gap' = subcycle_gap
      /\ kind_r' = kind_r /\ cur_addr' = cur_addr /\ bytes_left' = bytes_left
      /\ wshift' = wshift /\ rshift' = rshift
      /\ mem_ack' = mem_ack /\ mem_rdata' = mem_rdata /\ bus' = bus
  BY DEF adapter
<1>2. /\ target' \in {"idle", "busy", "ack", "berr"} /\ t_bus' \in Cycle \cup {IDLE}
      /\ bus = IDLE => target' = "idle"
      /\ bus # IDLE => target' # "idle"
      /\ bus # IDLE /\ target = "idle" => t_bus' = bus
      /\ ~(bus # IDLE /\ target = "idle") => t_bus' = t_bus
  BY TargetStep DEF AdapterInv
<1>3. bus # IDLE <=> Raised
  BY BusIs
<1>4. Raised' = Raised /\ moved' = moved /\ consumed' = consumed
  BY <1>1 DEF Raised, moved, consumed
<1>5. AdapterTypeOK'
  BY <1>1, <1>2 DEF AdapterInv, AdapterTypeOK
<1>6. BusShowsRequest'
  BY <1>1, <1>4 DEF AdapterInv, BusShowsRequest
<1>7. OperandUnderWay'
  BY <1>1, <1>4 DEF AdapterInv, OperandUnderWay, ReadBytes, At
<1>8. TargetHasCycle'
  BY <1>1, <1>2, <1>3, <1>4 DEF AdapterInv, TargetHasCycle, Captured
<1>9. \A n : TakenBytes(n)' = TakenBytes(n)
  BY <1>1 DEF TakenBytes, At
<1>10. ASSUME active, op.kind = "write"
       PROVE  taken' = TakenBytes(IF Captured' THEN moved + consumed ELSE moved)
  <2>1. taken = TakenBytes(IF Captured THEN moved + consumed ELSE moved)
    BY <1>10 DEF AdapterInv, TargetHasBytes
  <2>2. CASE Raised /\ target = "idle"
    <3>1. taken = TakenBytes(moved) /\ ~Captured /\ Captured'
      BY <1>2, <1>3, <1>4, <2>1, <2>2 DEF Captured
    <3>2. bus = CycleAt(kind_r, cur_addr, bytes_left, wshift)
      BY <2>2, <1>3, BusIs
    <3>3. TakenBytes(moved) \o Strobed(bus) = TakenBytes(moved + consumed)
      BY <1>10, <3>2, TakenGrows DEF AdapterInv
    <3>4. Len(taken) < 5
      <4>1. moved \in 0..3
        BY <1>10, CycleFacts DEF AdapterInv
      <4>2. Len(TakenBytes(moved)) = moved
        BY <4>1 DEF TakenBytes
      <4> QED
        BY <3>1, <4>1, <4>2
    <3>5. TargetAccepts
      BY <1>3, <2>2 DEF TargetAccepts
    <3> QED
      BY <3>1, <3>3, <3>4, <3>5
  <2>3. CASE ~(Raised /\ target = "idle")
    <3>1. ~TargetAccepts
      BY <1>3, <2>3 DEF TargetAccepts
    <3>2. Captured' = Captured
      BY <1>2, <1>3, <1>4, <2>3 DEF Captured
    <3> QED
      BY <2>1, <3>1, <3>2
  <2> QED
    BY <2>2, <2>3
<1>11. ASSUME ~active PROVE taken' = taken
  BY <1>3, <1>11 DEF TargetAccepts, Raised
<1>12. TargetHasBytes'
  <2>1. active /\ op.kind = "write" =>
            taken' = TakenBytes(IF Captured' THEN moved + consumed ELSE moved)
    BY <1>10
  <2>2. active' /\ op'.kind = "write" =>
            taken' = TakenBytes(IF Captured THEN moved + consumed ELSE moved)'
    BY <1>1, <1>4, <2>1 DEF TakenBytes, At
  <2>3. ~active' /\ mem_req' /\ ~mem_ack' => taken' = <<>>
    <3>1. ~active /\ mem_req /\ ~mem_ack => taken = <<>>
      BY DEF AdapterInv, TargetHasBytes
    <3> QED
      BY <1>1, <1>11, <3>1
  <2> QED
    BY <2>2, <2>3 DEF TargetHasBytes
<1>13. ErrorIsSpent'
  BY <1>1, <1>2, <1>3 DEF ErrorIsSpent, Raised
<1>14. AckIsWholeOperand'
  <2>1. mem_ack => ~active
    BY DEF AdapterInv, OperandUnderWay
  <2>2. mem_ack => taken' = taken
    BY <1>11, <2>1
  <2>3. mem_ack => /\ mem_req
                   /\ op.kind = "write" => taken = TakenBytes(op.size)
                   /\ op.kind # "write" => mem_rdata = ReadBytes(op.size)
    BY DEF AdapterInv, AckIsWholeOperand, TakenBytes, ReadBytes, At
  <2>4. mem_ack' => /\ mem_req'
                    /\ op'.kind = "write" => taken' = TakenBytes(op.size)
                    /\ op'.kind # "write" => mem_rdata' = ReadBytes(op.size)
    <3>1. /\ mem_ack' <=> mem_ack
          /\ mem_req' <=> mem_req
          /\ op' = op /\ mem_rdata' = mem_rdata
      BY <1>1
    <3> QED
      BY <2>2, <2>3, <3>1
  <2> QED
    BY <1>1, <2>4 DEF AckIsWholeOperand, TakenBytes, ReadBytes, At
<1> QED
  BY <1>5, <1>6, <1>7, <1>8, <1>12, <1>13, <1>14 DEF AdapterInv

\* A clock that leaves the adapter at rest, with no acknowledge.
LEMMA RestHolds ==
    ASSUME AdapterTypeOK', ~active', ~mem_ack', bus' = IDLE,
           target' = "berr" => ~mem_req', mem_req' => taken' = <<>>
    PROVE  AdapterInv'
<1>1. ~Raised' /\ ~Captured'
  BY DEF Raised, Captured
<1>2. BusShowsRequest'
  BY <1>1 DEF BusShowsRequest
<1>3. OperandUnderWay' /\ AckIsWholeOperand' /\ ErrorIsSpent'
  BY DEF OperandUnderWay, AckIsWholeOperand, ErrorIsSpent
<1>4. TargetHasCycle' /\ TargetHasBytes'
  BY <1>1 DEF TargetHasCycle, TargetHasBytes
<1> QED
  BY <1>2, <1>3, <1>4 DEF AdapterInv

\* A bus error ends the operand, and the client withdraws the request with it.
LEMMA AbortStep ==
    ASSUME AdapterInv, NEW answer \in Answers, TargetClock(answer),
           AbortsNow, Abort, ClientClock
    PROVE  AdapterInv'
<1>1. active /\ target = "berr" /\ mem_req
  BY DEF AbortsNow, AdapterInv, OperandUnderWay
<1>2. mem_req' = FALSE /\ op' = op
  BY <1>1, ClientDrops DEF AdapterInv
<1>3. AdapterTypeOK'
  BY <1>2, TargetStep DEF AdapterInv, AdapterTypeOK, Abort
<1> QED
  BY <1>2, <1>3, RestHolds DEF Abort

\* Nothing to start: the acknowledge has been up, or there is no request.
LEMMA QuietStep ==
    ASSUME AdapterInv, NEW answer \in Answers, TargetClock(answer),
           ~active, ~StartsNow, Quiet, ClientClock
    PROVE  AdapterInv'
<1>1. ~mem_req \/ mem_ack
  BY DEF StartsNow
<1>2. mem_req' \in BOOLEAN /\ op' \in Operands /\ (mem_req' => taken' = <<>>)
  BY <1>1, ClientMoves DEF AdapterInv
<1>3. bus = IDLE
  BY BusIs DEF Raised
<1>4. target' = "idle" /\ t_bus' = t_bus
  BY <1>3, TargetStep DEF AdapterInv
<1>5. AdapterTypeOK'
  BY <1>2, <1>4 DEF AdapterInv, AdapterTypeOK, Quiet
<1> QED
  BY <1>2, <1>3, <1>4, <1>5, RestHolds DEF Quiet

\* A reset takes the client with it.
LEMMA ResetStep ==
    ASSUME AdapterInv, NEW answer \in Answers, AdapterReset(answer)
    PROVE  AdapterInv'
<1>1. mem_req' = FALSE /\ op' = op
  BY DEF AdapterReset, DropRequest
<1>2. 0 \in Addr /\ 0 \in 0..4 /\ "read" \in OperandKinds
  BY SpaceAssumption DEF Addr, OperandKinds
<1>3. <<>> \in Seq(Addr) /\ <<>> \in Seq(0..4) /\ Len(<<>>) <= 4
  OBVIOUS
<1>4. TargetClock(answer)
  BY DEF AdapterReset
<1>5. target' \in {"idle", "busy", "ack", "berr"} /\ t_bus' \in Cycle \cup {IDLE}
  BY <1>4, TargetStep DEF AdapterInv
<1>6. AdapterTypeOK'
  BY <1>1, <1>2, <1>3, <1>5 DEF AdapterInv, AdapterTypeOK, AdapterReset, ResetAdapter
<1> QED
  BY <1>1, <1>6, RestHolds DEF AdapterReset, ResetAdapter

\* A request starts with none of its bytes moved.
LEMMA StartStep ==
    ASSUME AdapterInv, NEW answer \in Answers, TargetClock(answer),
           StartsNow, Start, ClientClock
    PROVE  AdapterInv'
<1>1. ~active /\ mem_req /\ ~mem_ack /\ target # "berr" /\ taken = <<>>
  BY DEF StartsNow, AdapterInv, ErrorIsSpent, TargetHasBytes
<1>2. mem_req' = mem_req /\ op' = op /\ taken' = <<>>
  BY <1>1, ClientHolds DEF AdapterInv
<1>3. bus = IDLE
  BY <1>1, BusIs DEF Raised
<1>4. target' = "idle" /\ t_bus' = t_bus
  BY <1>3, TargetStep DEF AdapterInv
<1>5. op.addr \in Addr /\ op.size \in {1, 2, 4} /\ op.kind \in OperandKinds /\ op \in Operands
  BY Operand DEF AdapterInv, AdapterTypeOK
<1>6. /\ active' = TRUE /\ subcycle_gap' = FALSE
      /\ kind_r' = op.kind /\ cur_addr' = op.addr /\ bytes_left' = op.size
      /\ wshift' = [i \in 1..op.size |-> i] /\ rshift' = <<>>
      /\ bus' = CycleAt(op.kind, op.addr, op.size, [i \in 1..op.size |-> i])
      /\ mem_ack' = FALSE /\ mem_rdata' = mem_rdata
  BY DEF Start
<1>7. Raised' /\ ~Captured' /\ moved' = 0
  BY <1>2, <1>4, <1>5, <1>6 DEF Raised, Captured, moved
<1>8. BusShowsRequest'
  BY <1>6, <1>7 DEF BusShowsRequest
<1>9. OperandUnderWay'
  <2>1. op.addr = Plus(op.addr, 0)
    BY <1>5, WordOf
  <2>2. bytes_left' \in 1..op'.size /\ cur_addr' = Plus(op'.addr, moved')
    BY <1>2, <1>5, <1>6, <1>7, <2>1
  <2>3. wshift' = [i \in 1..bytes_left' |-> moved' + i]
    <3>1. \A i \in 1..op.size : i = 0 + i
      BY <1>5
    <3> QED
      BY <1>6, <1>7, <3>1
  <2>4. ReadBytes(moved)' = <<>>
    BY <1>7 DEF ReadBytes
  <2> QED
    BY <1>1, <1>2, <1>6, <2>2, <2>3, <2>4 DEF OperandUnderWay
<1>10. TargetHasCycle' /\ ErrorIsSpent' /\ AckIsWholeOperand'
  BY <1>4, <1>6, <1>7 DEF TargetHasCycle, ErrorIsSpent, AckIsWholeOperand
<1>11. TargetHasBytes'
  <2>1. taken' = TakenBytes(IF Captured THEN moved + consumed ELSE moved)'
    BY <1>2, <1>7 DEF TakenBytes
  <2> QED
    BY <1>6, <2>1 DEF TargetHasBytes
<1>12. AdapterTypeOK'
  <2>1. [i \in 1..op.size |-> i] \in Seq(0..4)
    BY <1>5
  <2>2. bus' \in Cycle
    <3>1. ([i \in 1..op.size |-> i])[1] \in 0..4
      BY <1>5
    <3>2. op.size >= 2 => ([i \in 1..op.size |-> i])[2] \in 0..4
      BY <1>5
    <3> QED
      BY <1>5, <1>6, <3>1, <3>2, RaisedCycle
  <2>3. op.size \in 0..4 /\ <<>> \in Seq(Addr) /\ Len(<<>>) <= 4
    BY <1>5
  <2> QED
    BY <1>2, <1>4, <1>5, <1>6, <2>1, <2>2, <2>3 DEF AdapterInv, AdapterTypeOK
<1> QED
  BY <1>8, <1>9, <1>10, <1>11, <1>12 DEF AdapterInv

\* The boundary is left: the target has seen IDLE and is idle again.
LEMMA LeaveGapStep ==
    ASSUME AdapterInv, NEW answer \in Answers, TargetClock(answer),
           ~AbortsNow, active, subcycle_gap, LeaveGap, ClientClock
    PROVE  AdapterInv'
<1>1. mem_req /\ ~mem_ack /\ target # "berr"
  BY DEF AbortsNow, AdapterInv, OperandUnderWay
<1>2. mem_req' = mem_req /\ op' = op /\ taken' = taken
  BY <1>1, ClientHolds DEF AdapterInv
<1>3. bus = IDLE /\ ~Captured
  BY BusIs DEF Raised, Captured
<1>4. target' = "idle" /\ t_bus' = t_bus
  BY <1>3, TargetStep DEF AdapterInv
<1>5. /\ active' = active /\ subcycle_gap' = FALSE
      /\ kind_r' = kind_r /\ cur_addr' = cur_addr /\ bytes_left' = bytes_left
      /\ wshift' = wshift /\ rshift' = rshift
      /\ bus' = CycleAt(kind_r, cur_addr, bytes_left, wshift)
      /\ mem_ack' = FALSE /\ mem_rdata' = mem_rdata
  BY DEF LeaveGap
<1>6. Raised' /\ ~Captured' /\ moved' = moved
  BY <1>2, <1>4, <1>5 DEF Raised, Captured, moved
<1>7. BusShowsRequest'
  BY <1>5, <1>6 DEF BusShowsRequest
<1>8. OperandUnderWay'
  BY <1>1, <1>2, <1>5, <1>6 DEF AdapterInv, OperandUnderWay, ReadBytes, At
<1>9. TargetHasCycle' /\ ErrorIsSpent' /\ AckIsWholeOperand'
  BY <1>4, <1>5, <1>6 DEF TargetHasCycle, ErrorIsSpent, AckIsWholeOperand
<1>10. TargetHasBytes'
  <2>1. op.kind = "write" => taken' = TakenBytes(moved)
    BY <1>2, <1>3 DEF AdapterInv, TargetHasBytes
  <2>2. op'.kind = "write" =>
            taken' = TakenBytes(IF Captured THEN moved + consumed ELSE moved)'
    BY <1>2, <1>6, <2>1 DEF TakenBytes, At
  <2> QED
    BY <1>5, <2>2 DEF TargetHasBytes
<1>11. AdapterTypeOK'
  <2>1. bus' \in Cycle
    <3>1. /\ moved \in 0..3 /\ bytes_left \in 1..4 /\ moved + bytes_left = op.size
          /\ op.size \in {1, 2, 4} /\ cur_addr \in Addr /\ wshift[1] = moved + 1
      BY CycleFacts, Operand DEF AdapterInv
    <3>2. wshift = [i \in 1..bytes_left |-> moved + i]
      BY DEF AdapterInv, OperandUnderWay
    <3>3. wshift[1] \in 0..4 /\ (bytes_left >= 2 => wshift[2] \in 0..4)
      BY <3>1, <3>2
    <3>4. kind_r \in OperandKinds
      BY DEF AdapterInv, AdapterTypeOK
    <3> QED
      BY <1>5, <3>1, <3>3, <3>4, RaisedCycle
  <2> QED
    BY <1>2, <1>4, <1>5, <2>1 DEF AdapterInv, AdapterTypeOK
<1> QED
  BY <1>7, <1>8, <1>9, <1>10, <1>11 DEF AdapterInv

\* What a cycle that has been acknowledged leaves: its bytes are with the target,
\* or in the shift register.
LEMMA Completed ==
    ASSUME AdapterInv, NEW answer \in Answers, TargetClock(answer),
           ~AbortsNow, CanEnable, active, ~subcycle_gap, CompleteCycle, ClientClock
    PROVE  /\ mem_req' = mem_req /\ op' = op /\ mem_req /\ taken' = taken
           /\ kind_r' = kind_r /\ target' = "ack" /\ t_bus' = t_bus
           /\ op.kind = "write" => taken = TakenBytes(moved + consumed) /\ rshift' = rshift
           /\ op.kind # "write" => rshift \o data_in = ReadBytes(moved + consumed)
                                   /\ rshift' = ReadBytes(moved + consumed)
<1>1. /\ mem_req /\ ~mem_ack /\ target # "berr" /\ kind_r = op.kind
      /\ rshift = IF op.kind = "write" THEN <<>> ELSE ReadBytes(moved)
  BY DEF AbortsNow, AdapterInv, OperandUnderWay
<1>2. mem_req' = mem_req /\ op' = op /\ taken' = taken
  BY <1>1, ClientHolds DEF AdapterInv
<1>3. Raised /\ bus # IDLE /\ bus = CycleAt(kind_r, cur_addr, bytes_left, wshift)
  BY BusIs DEF Raised
<1>4. target = "ack" /\ Captured
  BY <1>1, <1>3 DEF CanEnable, Captured
<1>5. t_bus = bus /\ t_bus.addr = cur_addr
  BY <1>3, <1>4 DEF AdapterInv, TargetHasCycle, CycleAt
<1>6. target' = "ack" /\ t_bus' = t_bus
  BY <1>3, <1>4, TargetStep DEF AdapterInv
<1>7. op.kind = "write" => taken = TakenBytes(moved + consumed)
  BY <1>4 DEF AdapterInv, TargetHasBytes
<1>8. ReadBytes(moved) \o data_in = ReadBytes(moved + consumed)
  BY <1>5, ReadGrows DEF AdapterInv
<1>9. /\ rshift' = IF kind_r = "write" THEN rshift ELSE rshift \o data_in
      /\ kind_r' = kind_r
  BY DEF CompleteCycle
<1> QED
  BY <1>1, <1>2, <1>6, <1>7, <1>8, <1>9

\* The shift register stays a short sequence of addresses.
LEMMA CollectedBytes ==
    ASSUME AdapterTypeOK, OperandUnderWay, active
    PROVE  /\ ReadBytes(moved + consumed) \in Seq(Addr)
           /\ Len(ReadBytes(moved + consumed)) <= 4
<1> DEFINE n == moved + consumed
<1>1. n \in 0..4
  BY CycleFacts, Operand
<1> HIDE DEF n
<1>2. \A i \in 1..n : At(i) \in Addr
  <2> SUFFICES ASSUME NEW i \in 1..n PROVE At(i) \in Addr
    OBVIOUS
  <2>1. i - 1 \in 0..4
    BY <1>1
  <2> QED
    BY <2>1, Operand, PlusWraps DEF At
<1>3. ReadBytes(n) \in [1..n -> Addr]
  BY <1>2 DEF ReadBytes
<1>4. ReadBytes(n) \in Seq(Addr) /\ Len(ReadBytes(n)) = n
  BY <1>1, <1>3, FcnIsSeq
<1>5. Len(ReadBytes(n)) <= 4
  BY <1>1, <1>4
<1> QED
  BY <1>4, <1>5 DEF n

\* The last bytes: the operand is acknowledged, whole.
LEMMA FinishStep ==
    ASSUME AdapterInv, NEW answer \in Answers, TargetClock(answer),
           ~AbortsNow, CanEnable, active, ~subcycle_gap, CompleteCycle, ClientClock,
           next_left = 0
    PROVE  AdapterInv'
<1>1. /\ mem_req' = mem_req /\ op' = op /\ mem_req /\ taken' = taken
      /\ kind_r' = kind_r /\ target' = "ack" /\ t_bus' = t_bus
      /\ op.kind = "write" => taken = TakenBytes(moved + consumed) /\ rshift' = rshift
      /\ op.kind # "write" => rshift \o data_in = ReadBytes(moved + consumed)
                              /\ rshift' = ReadBytes(moved + consumed)
  BY Completed
<1>2. /\ active' = FALSE /\ subcycle_gap' = FALSE /\ bus' = IDLE /\ mem_ack' = TRUE
      /\ mem_rdata' = IF kind_r = "write" THEN mem_rdata ELSE rshift \o data_in
      /\ cur_addr' = cur_addr /\ bytes_left' = bytes_left /\ wshift' = wshift
  BY DEF CompleteCycle, FinishOperand
<1>3. moved + consumed = op.size /\ kind_r = op.kind
  <2>1. /\ next_left = op.size - (moved + consumed)
        /\ moved \in 0..3 /\ consumed \in {1, 2} /\ op.size \in {1, 2, 4}
    BY CycleFacts, Operand DEF AdapterInv
  <2> QED
    BY <2>1 DEF AdapterInv, OperandUnderWay
<1>4. AckIsWholeOperand'
  <2>1. /\ op.kind = "write" => taken' = TakenBytes(op.size)
        /\ op.kind # "write" => mem_rdata' = ReadBytes(op.size)
    BY <1>1, <1>2, <1>3
  <2> QED
    BY <1>1, <2>1 DEF AckIsWholeOperand, TakenBytes, ReadBytes, At
<1>5. ~Raised' /\ ~Captured'
  BY <1>2 DEF Raised, Captured
<1>6. BusShowsRequest' /\ OperandUnderWay' /\ TargetHasCycle' /\ TargetHasBytes' /\ ErrorIsSpent'
  BY <1>1, <1>2, <1>5 DEF BusShowsRequest, OperandUnderWay, TargetHasCycle,
                          TargetHasBytes, ErrorIsSpent
<1>7. AdapterTypeOK'
  <2>1. ReadBytes(moved + consumed) \in Seq(Addr) /\ Len(ReadBytes(moved + consumed)) <= 4
    BY CollectedBytes DEF AdapterInv
  <2>2. rshift' \in Seq(Addr) /\ Len(rshift') <= 4 /\ mem_rdata' \in Seq(Addr)
    BY <1>1, <1>2, <1>3, <2>1 DEF AdapterInv, AdapterTypeOK
  <2> QED
    BY <1>1, <1>2, <2>2 DEF AdapterInv, AdapterTypeOK
<1> QED
  BY <1>4, <1>6, <1>7 DEF AdapterInv

\* More to move: the registers step over the cycle's bytes, and the bus shows IDLE.
LEMMA NextCycleStep ==
    ASSUME AdapterInv, NEW answer \in Answers, TargetClock(answer),
           ~AbortsNow, CanEnable, active, ~subcycle_gap, CompleteCycle, ClientClock,
           next_left # 0
    PROVE  AdapterInv'
<1>1. /\ mem_req' = mem_req /\ op' = op /\ mem_req /\ taken' = taken
      /\ kind_r' = kind_r /\ target' = "ack" /\ t_bus' = t_bus
      /\ op.kind = "write" => taken = TakenBytes(moved + consumed) /\ rshift' = rshift
      /\ op.kind # "write" => rshift \o data_in = ReadBytes(moved + consumed)
                              /\ rshift' = ReadBytes(moved + consumed)
  BY Completed
<1>2. /\ cur_addr' = Plus(cur_addr, consumed) /\ bytes_left' = next_left
      /\ wshift' = SubSeq(wshift, consumed + 1, Len(wshift))
      /\ bus' = IDLE /\ subcycle_gap' = TRUE /\ mem_ack' = FALSE
      /\ active' = active /\ mem_rdata' = mem_rdata
  BY DEF CompleteCycle, NextCycle
<1>3. /\ moved \in 0..3 /\ bytes_left \in 1..4 /\ moved + bytes_left = op.size
      /\ consumed \in {1, 2} /\ consumed <= bytes_left
      /\ next_left \in 1..3 /\ next_left = bytes_left - consumed
      /\ Plus(cur_addr, consumed) = Plus(op.addr, moved + consumed)
      /\ cur_addr \in Addr /\ op.size \in {1, 2, 4}
  BY CycleFacts, Operand DEF AdapterInv
<1>4. moved' = moved + consumed /\ bytes_left' \in 1..op.size
  BY <1>1, <1>2, <1>3 DEF moved
<1>5. wshift' = [i \in 1..bytes_left' |-> moved' + i] /\ wshift' \in Seq(0..4)
  <2> DEFINE w == [i \in 1..bytes_left |-> moved + i]
             v == [i \in 1..next_left |-> (moved + consumed) + i]
             u == SubSeq(w, consumed + 1, Len(w))
  <2>1. wshift = w
    BY DEF AdapterInv, OperandUnderWay
  <2>2. w \in Seq(1..4) /\ Len(w) = bytes_left
    <3>1. w \in [1..bytes_left -> 1..4]
      BY <1>3
    <3> HIDE DEF w
    <3> QED
      BY <1>3, <3>1, FcnIsSeq
  <2>3. v \in Seq(1..4) /\ Len(v) = next_left
    <3>1. v \in [1..next_left -> 1..4]
      BY <1>3
    <3> HIDE DEF v
    <3> QED
      BY <1>3, <3>1, FcnIsSeq
  <2>4. /\ u \in Seq(1..4) /\ Len(u) = next_left
        /\ \A i \in 1..next_left : u[i] = w[i + consumed]
    <3> HIDE DEF w
    <3>1. \A i \in consumed + 1..Len(w) : w[i] \in 1..4
      BY <1>3, <2>2
    <3>2. /\ SubSeq(w, consumed + 1, Len(w)) \in Seq(1..4)
          /\ Len(SubSeq(w, consumed + 1, Len(w))) = next_left
          /\ \A i \in 1..next_left :
                 SubSeq(w, consumed + 1, Len(w))[i] = w[(consumed + 1) + i - 1]
      BY <1>3, <2>2, <3>1, SubSeqProperties
    <3>3. \A i \in 1..next_left : (consumed + 1) + i - 1 = i + consumed
      BY <1>3
    <3> QED
      BY <3>2, <3>3
  <2>5. \A i \in 1..next_left : u[i] = v[i]
    <3>1. \A i \in 1..next_left : w[i + consumed] = moved + (i + consumed)
      BY <1>3
    <3>2. \A i \in 1..next_left : v[i] = moved + (i + consumed)
      BY <1>3
    <3> HIDE DEF u, v, w
    <3> QED
      BY <2>4, <3>1, <3>2
  <2>6. u = v
    <3> HIDE DEF u, v, w
    <3> QED
      BY <1>3, <2>3, <2>4, <2>5, SeqEqual
  <2>7. v \in Seq(0..4)
    <3>1. v \in [1..next_left -> 0..4]
      BY <1>3
    <3> HIDE DEF v
    <3> QED
      BY <1>3, <3>1, FcnIsSeq
  <2> QED
    BY <1>2, <1>4, <2>1, <2>6, <2>7
<1>6. ~Raised' /\ ~Captured'
  BY <1>2 DEF Raised, Captured
<1>7. BusShowsRequest' /\ TargetHasCycle' /\ ErrorIsSpent' /\ AckIsWholeOperand'
  BY <1>1, <1>2, <1>6 DEF BusShowsRequest, TargetHasCycle, ErrorIsSpent, AckIsWholeOperand
<1>8. OperandUnderWay'
  <2>1. cur_addr' = Plus(op'.addr, moved') /\ bytes_left' \in 1..op'.size
    BY <1>1, <1>2, <1>3, <1>4
  <2>2. mem_req' /\ ~mem_ack' /\ kind_r' = op'.kind
    BY <1>1, <1>2 DEF AdapterInv, OperandUnderWay
  <2>3. rshift' = IF op.kind = "write" THEN <<>> ELSE ReadBytes(moved + consumed)
    BY <1>1 DEF AdapterInv, OperandUnderWay
  <2>4. ReadBytes(moved)' = ReadBytes(moved + consumed)
    BY <1>1, <1>4 DEF ReadBytes, At
  <2> QED
    BY <1>1, <1>5, <2>1, <2>2, <2>3, <2>4 DEF OperandUnderWay
<1>9. TargetHasBytes'
  <2>1. op.kind = "write" => taken' = TakenBytes(moved + consumed)
    BY <1>1
  <2>2. op'.kind = "write" =>
            taken' = TakenBytes(IF Captured THEN moved + consumed ELSE moved)'
    BY <1>1, <1>4, <1>6, <2>1 DEF TakenBytes, At
  <2> QED
    BY <1>2, <2>2 DEF TargetHasBytes
<1>10. AdapterTypeOK'
  <2>1. ReadBytes(moved + consumed) \in Seq(Addr) /\ Len(ReadBytes(moved + consumed)) <= 4
    BY CollectedBytes DEF AdapterInv
  <2>2. rshift' \in Seq(Addr) /\ Len(rshift') <= 4
    BY <1>1, <2>1 DEF AdapterInv, AdapterTypeOK
  <2>3. cur_addr' \in Addr /\ bytes_left' \in 0..4
    BY <1>2, <1>3, PlusWraps
  <2> QED
    BY <1>1, <1>2, <1>5, <2>2, <2>3 DEF AdapterInv, AdapterTypeOK
<1> QED
  BY <1>7, <1>8, <1>9, <1>10 DEF AdapterInv

----------------------------------------------------------------------------
(* The theorems *)

LEMMA AdapterFirst == ASSUME AdapterInit PROVE AdapterInv
<1>1. /\ 0 \in Addr /\ 0 \in 0..4 /\ "read" \in OperandKinds
      /\ <<>> \in Seq(Addr) /\ <<>> \in Seq(0..4) /\ Len(<<>>) <= 4
  BY SpaceAssumption DEF Addr, OperandKinds
<1>2. AdapterTypeOK
  BY <1>1 DEF AdapterInit, AdapterTypeOK
<1>3. ~Raised /\ ~Captured
  BY DEF AdapterInit, Raised, Captured
<1> QED
  BY <1>2, <1>3 DEF AdapterInit, AdapterInv, BusShowsRequest, OperandUnderWay, TargetHasCycle,
                    TargetHasBytes, ErrorIsSpent, AckIsWholeOperand

LEMMA AdapterStep == ASSUME AdapterInv, [AdapterNext]_adapterVars PROVE AdapterInv'
<1>1. ASSUME NEW ce \in BOOLEAN, NEW answer \in Answers, BusClock(ce, answer)
      PROVE  AdapterInv'
  <2>1. TargetClock(answer)
    BY <1>1 DEF BusClock
  <2>2. CASE ~ce
    BY <1>1, <2>1, <2>2, WaitStep DEF BusClock
  <2>3. CASE ce
    <3>1. CanEnable /\ AdapterClock /\ ClientClock
      BY <1>1, <2>3 DEF BusClock
    <3>2. CASE AbortsNow
      BY <2>1, <3>1, <3>2, AbortStep DEF AdapterClock
    <3>3. CASE ~active /\ StartsNow
      BY <2>1, <3>1, <3>3, StartStep DEF AdapterClock, AbortsNow
    <3>4. CASE ~active /\ ~StartsNow
      BY <2>1, <3>1, <3>4, QuietStep DEF AdapterClock, AbortsNow
    <3>5. CASE ~AbortsNow /\ active /\ subcycle_gap
      BY <2>1, <3>1, <3>5, LeaveGapStep DEF AdapterClock
    <3>6. CASE ~AbortsNow /\ active /\ ~subcycle_gap
      <4>1. CompleteCycle
        BY <3>1, <3>6 DEF AdapterClock
      <4> QED
        BY <2>1, <3>1, <3>6, <4>1, FinishStep, NextCycleStep
    <3> QED
      BY <3>2, <3>3, <3>4, <3>5, <3>6
  <2> QED
    BY <2>2, <2>3
<1>2. ASSUME NEW answer \in Answers, AdapterReset(answer) PROVE AdapterInv'
  BY <1>2, ResetStep
<1>3. CASE UNCHANGED adapterVars
  BY <1>3 DEF adapterVars, adapter, AdapterInv, AdapterTypeOK, BusShowsRequest, OperandUnderWay, Raised,
              Captured, moved, consumed, ReadBytes, TakenBytes, At, TargetHasCycle,
              TargetHasBytes, ErrorIsSpent, AckIsWholeOperand
<1> QED
  BY <1>1, <1>2, <1>3 DEF AdapterNext

\* The invariant holds in every reachable state, for every space and all starts.
THEOREM AdapterInductive == AdapterSpec => []AdapterInv
<1>1. AdapterInit => AdapterInv
  BY AdapterFirst
<1>2. AdapterInv /\ [AdapterNext]_adapterVars => AdapterInv'
  BY AdapterStep
<1> QED
  BY <1>1, <1>2, PTL DEF AdapterSpec

\* An acknowledged request has moved exactly its own bytes, each once, at its own
\* address and on its own lane (ap040_bus16_adapter.v:147-206).
THEOREM AdapterWhole == AdapterSpec => []AckIsWholeOperand
<1>1. AdapterInv => AckIsWholeOperand
  BY DEF AdapterInv
<1> QED
  BY <1>1, AdapterInductive, PTL

\* No cycle is put under the level acknowledge of the one before
\* (ap040_bus16_adapter.v:194).
THEOREM AdapterStable == AdapterSpec => []CycleStableUnderAck
<1>1. AdapterInv => CycleStableUnderAck
  BY BusIs DEF AdapterInv, TargetHasCycle, Captured, CycleStableUnderAck
<1> QED
  BY <1>1, AdapterInductive, PTL

\* No cycle outlives, or is replayed after, the request it belongs to.
THEOREM AdapterHeld == AdapterSpec => []CycleIsOfHeldRequest
<1>1. AdapterInv => CycleIsOfHeldRequest
  BY BusIs DEF AdapterInv, OperandUnderWay, Raised, CycleIsOfHeldRequest, CycleAt, moved
<1> QED
  BY <1>1, AdapterInductive, PTL
====
