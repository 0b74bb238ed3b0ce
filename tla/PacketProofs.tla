---------------------------- MODULE PacketProofs -----------------------------
(* Proofs about the packets of Minecraft and of RCON, for values and texts *)
(* of every length.                                                        *)
EXTENDS Packet, RconPacket, FiniteSetTheorems, SequenceTheorems, TLAPS
-----------------------------------------------------------------------------
(* Induction.  The library's induction theorems are about an operator; for *)
(* a set of numbers the well-founded order of the finite sets 0 .. n will  *)
(* do instead.                                                             *)

LEMMA LeastNumber ==
  ASSUME NEW S \in SUBSET Nat, S # {}
  PROVE  \E m \in S : \A k \in S : m <= k
<1> DEFINE T == {0 .. m : m \in S}
<1>1. IsWellFoundedOn(StrictSubsetOrdering(Nat), FiniteSubsetsOf(Nat))
  BY FS_StrictSubsetOrderingWellFounded
<1>2. T \subseteq FiniteSubsetsOf(Nat) /\ T # {}
  <2>1. \A m \in S : IsFiniteSet(0 .. m) /\ 0 .. m \in SUBSET Nat
    BY FS_Interval
  <2>2. FiniteSubsetsOf(Nat) = {U \in SUBSET Nat : IsFiniteSet(U)}
    BY DEF FiniteSubsetsOf
  <2> QED
    BY <2>1, <2>2
<1>3. \E x \in T : \A y \in T : <<y, x>> \notin StrictSubsetOrdering(Nat)
  <2> HIDE DEF T
  <2> QED
    BY <1>1, <1>2, WFMin
<1>4. PICK m \in S : \A k \in S : <<0 .. k, 0 .. m>> \notin StrictSubsetOrdering(Nat)
  BY <1>3
<1>5. ASSUME NEW k \in S, k < m
      PROVE  FALSE
  <2>1. 0 .. k \subseteq 0 .. m /\ m \in 0 .. m /\ m \notin 0 .. k
    BY <1>5
  <2>2. 0 .. k # 0 .. m
    BY <2>1
  <2>3. <<0 .. k, 0 .. m>> \in StrictSubsetOrdering(Nat)
    BY <2>1, <2>2 DEF StrictSubsetOrdering
  <2> QED
    BY <1>4, <2>3
<1> QED
  BY <1>5

\* A set of numbers with each number that has all smaller ones in the set.
LEMMA NumberInduction ==
  ASSUME NEW S, \A n \in Nat : (\A m \in 0 .. n - 1 : m \in S) => n \in S
  PROVE  \A n \in Nat : n \in S
<1> DEFINE Missing == Nat \ S
<1> SUFFICES ASSUME Missing # {}
             PROVE  FALSE
  OBVIOUS
<1>1. PICK m \in Missing : \A k \in Missing : m <= k
  <2> Missing \in SUBSET Nat
    OBVIOUS
  <2> HIDE DEF Missing
  <2> QED
    BY LeastNumber
<1>2. \A k \in 0 .. m - 1 : k \in S
  BY <1>1
<1> QED
  BY <1>2
-----------------------------------------------------------------------------
(* The powers of Radix.                                                    *)

\* g is the powers up to n.
IsPower(g, n) ==
  /\ g \in [0 .. n -> Nat]
  /\ g[0] = 1
  /\ \A i \in 1 .. n : g[i] = Radix * g[i - 1]

LEMMA PowersUpTo == \A n \in Nat : \E g : IsPower(g, n)
<1> DEFINE S == {n \in Nat : \E g : IsPower(g, n)}
<1>1. ASSUME NEW n \in Nat, \A m \in 0 .. n - 1 : m \in S
      PROVE  n \in S
  <2>1. CASE n = 0
    <3> IsPower([i \in 0 .. n |-> 1], n)
      BY <2>1 DEF IsPower
    <3> QED
      OBVIOUS
  <2>2. CASE n # 0
    <3>1. n - 1 \in S
      BY <1>1, <2>2
    <3>2. PICK g : IsPower(g, n - 1)
      BY <3>1
    <3> DEFINE h == [i \in 0 .. n |-> IF i = n THEN Radix * g[n - 1] ELSE g[i]]
    <3>3. Radix * g[n - 1] \in Nat
      BY <2>2, <3>2, PacketAssumption DEF IsPower
    <3>4. h \in [0 .. n -> Nat] /\ h[0] = 1
      BY <2>2, <3>2, <3>3 DEF IsPower
    <3>5. \A i \in 1 .. n : h[i] = Radix * h[i - 1]
      BY <2>2, <3>2 DEF IsPower
    <3>6. IsPower(h, n)
      BY <3>4, <3>5 DEF IsPower
    <3> QED
      BY <3>6
  <2> QED
    BY <2>1, <2>2
<1>2. \A n \in Nat : n \in S
  <2> HIDE DEF S
  <2> QED
    BY <1>1, NumberInduction
<1> QED
  BY <1>2

LEMMA PowersAgree ==
  ASSUME NEW n \in Nat, NEW m \in Nat, NEW g, NEW h, IsPower(g, n), IsPower(h, m)
  PROVE  \A i \in Nat : i <= n /\ i <= m => g[i] = h[i]
<1> DEFINE S == {i \in Nat : i <= n /\ i <= m => g[i] = h[i]}
<1>1. ASSUME NEW i \in Nat, \A j \in 0 .. i - 1 : j \in S
      PROVE  i \in S
  <2>1. CASE i = 0
    BY <2>1 DEF IsPower
  <2>2. CASE i # 0
    <3>1. i - 1 \in S
      BY <1>1, <2>2
    <3> QED
      BY <2>2, <3>1 DEF IsPower
  <2> QED
    BY <2>1, <2>2
<1>2. \A i \in Nat : i \in S
  <2> HIDE DEF S
  <2> QED
    BY <1>1, NumberInduction
<1> QED
  BY <1>2

\* The recursive definition of Power has a solution.
LEMMA PowerDef ==
  /\ Power[0] = 1
  /\ \A k \in Nat \ {0} : Power[k] = Radix * Power[k - 1]
<1> DEFINE G(n) == CHOOSE g : IsPower(g, n)
           F == [n \in Nat |-> G(n)[n]]
<1>1. \A n \in Nat : IsPower(G(n), n)
  BY PowersUpTo
<1>2. F[0] = 1
  BY <1>1 DEF IsPower
<1>3. ASSUME NEW k \in Nat \ {0}
      PROVE  F[k] = Radix * F[k - 1]
  <2>1. G(k)[k] = Radix * G(k)[k - 1]
    <3> HIDE DEF G
    <3> QED
      BY <1>1 DEF IsPower
  <2>2. G(k)[k - 1] = G(k - 1)[k - 1]
    <3> HIDE DEF G
    <3> QED
      BY <1>1, PowersAgree
  <2> QED
    BY <2>1, <2>2
<1>4. F = [k \in Nat |-> IF k = 0 THEN 1 ELSE Radix * F[k - 1]]
  <2> HIDE DEF F
  <2>1. F = [k \in Nat |-> F[k]]
    BY DEF F
  <2> QED
    BY <1>2, <1>3, <2>1
<1>5. \E f : f = [k \in Nat |-> IF k = 0 THEN 1 ELSE Radix * f[k - 1]]
  <2> HIDE DEF F
  <2> QED
    BY <1>4
<1>6. Power = [k \in Nat |-> IF k = 0 THEN 1 ELSE Radix * Power[k - 1]]
  BY <1>5, Zenon DEF Power
<1> QED
  BY <1>6

LEMMA PowerBounds == \A k \in Nat : Power[k] \in Nat /\ Power[k] > k
<1> DEFINE S == {k \in Nat : Power[k] \in Nat /\ Power[k] > k}
<1>1. ASSUME NEW k \in Nat, \A j \in 0 .. k - 1 : j \in S
      PROVE  k \in S
  <2>1. CASE k = 0
    BY <2>1, PowerDef
  <2>2. CASE k # 0
    <3> DEFINE p == Power[k - 1]
    <3>1. p \in Nat /\ p > k - 1 /\ Power[k] = Radix * p
      BY <1>1, <2>2, PowerDef
    <3>2. Radix * p \in Nat /\ Radix * p >= 2 * p
      <4> HIDE DEF p
      <4> QED
        BY <3>1, PacketAssumption
    <3> QED
      BY <2>2, <3>1, <3>2
  <2> QED
    BY <2>1, <2>2
<1>2. \A k \in Nat : k \in S
  <2> HIDE DEF S
  <2> QED
    BY <1>1, NumberInduction
<1> QED
  BY <1>2

LEMMA PowerMonotone == \A j, k \in Nat : j <= k => Power[j] <= Power[k]
<1> SUFFICES ASSUME NEW j \in Nat
             PROVE  \A k \in Nat : j <= k => Power[j] <= Power[k]
  OBVIOUS
<1> DEFINE S == {k \in Nat : j <= k => Power[j] <= Power[k]}
<1>1. ASSUME NEW k \in Nat, \A i \in 0 .. k - 1 : i \in S
      PROVE  k \in S
  <2>1. CASE k <= j
    BY <2>1, PowerBounds
  <2>2. CASE k > j
    <3>1. Power[j] <= Power[k - 1] /\ Power[k] = Radix * Power[k - 1]
      BY <1>1, <2>2, PowerDef
    <3>2. \A p \in Nat : p <= Radix * p
      BY PacketAssumption
    <3> QED
      BY <2>2, <3>1, <3>2, PowerBounds, PacketAssumption
  <2> QED
    BY <2>1, <2>2
<1>2. \A k \in Nat : k \in S
  <2> HIDE DEF S
  <2> QED
    BY <1>1, NumberInduction
<1> QED
  BY <1>2
-----------------------------------------------------------------------------
(* The digits of a VarInt.                                                 *)

\* n has k digits.
HasSize(n, k) == n < Power[k] /\ (k > 1 => n >= Power[k - 1])

LEMMA SizeExists == \A n \in Nat : \E k \in 1 .. n + 1 : HasSize(n, k)
<1> SUFFICES ASSUME NEW n \in Nat
             PROVE  \E k \in 1 .. n + 1 : HasSize(n, k)
  OBVIOUS
<1> DEFINE S == {k \in Nat : k >= 1 /\ n < Power[k]}
<1>1. n + 1 \in S
  BY PowerBounds
<1>2. PICK k \in S : \A j \in S : k <= j
  <2> S \in SUBSET Nat
    OBVIOUS
  <2> HIDE DEF S
  <2> QED
    BY <1>1, LeastNumber
<1>3. k \in 1 .. n + 1
  BY <1>1, <1>2
<1>4. k > 1 => n >= Power[k - 1]
  <2>1. k > 1 => k - 1 \notin S
    BY <1>2
  <2> QED
    BY <1>2, <2>1, PowerBounds
<1> QED
  BY <1>2, <1>3, <1>4 DEF HasSize

LEMMA SizeUnique ==
  ASSUME NEW n \in Nat, NEW j \in Nat \ {0}, NEW k \in Nat \ {0}, HasSize(n, j), HasSize(n, k)
  PROVE  j = k
<1>1. ASSUME NEW a \in Nat \ {0}, NEW b \in Nat \ {0}, HasSize(n, a), HasSize(n, b), a < b
      PROVE  FALSE
  <2>1. Power[a] <= Power[b - 1]
    BY <1>1, PowerMonotone
  <2> QED
    BY <1>1, <2>1, PowerBounds DEF HasSize
<1> QED
  BY <1>1

LEMMA WireSizeIs ==
  ASSUME NEW n \in Nat, NEW k \in Nat \ {0}, HasSize(n, k)
  PROVE  WireSize(n) = k
<1> DEFINE c == CHOOSE j \in 1 .. n + 1 : HasSize(n, j)
<1>1. c \in 1 .. n + 1 /\ HasSize(n, c)
  BY SizeExists
<1>2. c = k
  <2> HIDE DEF c
  <2> QED
    BY <1>1, SizeUnique
<1> QED
  BY <1>2 DEF WireSize, HasSize

LEMMA WireSizeHas == \A n \in Nat : WireSize(n) \in Nat \ {0} /\ HasSize(n, WireSize(n))
BY SizeExists, WireSizeIs

\* A number below Radix has one digit, any other one more than its quotient.
LEMMA WireSizeStep ==
  ASSUME NEW n \in Nat
  PROVE  /\ n < Radix => WireSize(n) = 1
         /\ n >= Radix => WireSize(n) = WireSize(n \div Radix) + 1
<1>0. Radix \in Nat /\ Radix >= 2
  BY PacketAssumption
<1>1. Power[0] = 1 /\ Power[1] = Radix
  BY <1>0, PowerDef
<1>2. CASE n < Radix
  BY <1>0, <1>1, <1>2, WireSizeIs DEF HasSize
<1>3. CASE n >= Radix
  <2> DEFINE q == n \div Radix
             k == WireSize(q)
  <2>1. q \in Nat /\ Radix * q <= n /\ n < Radix * (q + 1)
    BY <1>0
  <2>2. k \in Nat \ {0} /\ HasSize(q, k)
    BY <2>1, WireSizeHas
  <2> HIDE DEF q, k
  <2>3. Power[k + 1] = Radix * Power[k] /\ (k > 1 => Power[k] = Radix * Power[k - 1])
    BY <2>2, PowerDef
  <2>4. \A p \in Nat : (q < p => n < Radix * p) /\ (q >= p => n >= Radix * p)
    BY <1>0, <2>1
  <2>5. n < Power[k + 1]
    BY <2>2, <2>3, <2>4, PowerBounds DEF HasSize
  <2>6. n >= Power[k]
    BY <1>1, <1>3, <2>2, <2>3, <2>4, PowerBounds DEF HasSize
  <2>7. HasSize(n, k + 1)
    BY <2>2, <2>5, <2>6 DEF HasSize
  <2> QED
    BY <1>0, <1>3, <2>2, <2>7, WireSizeIs DEF q, k
<1> QED
  BY <1>0, <1>2, <1>3

LEMMA Prepended ==
  ASSUME NEW S, NEW a \in S, NEW s \in Seq(S)
  PROVE  /\ <<a>> \o s \in Seq(S)
         /\ Len(<<a>> \o s) = Len(s) + 1
         /\ (<<a>> \o s)[1] = a
         /\ \A i \in 1 .. Len(s) : (<<a>> \o s)[i + 1] = s[i]
<1> DEFINE first == <<a>>
<1>1. first \in Seq(S) /\ Len(first) = 1 /\ first[1] = a
  OBVIOUS
<1>2. Len(s) \in Nat
  OBVIOUS
<1> HIDE DEF first
<1>3. /\ first \o s \in Seq(S)
      /\ Len(first \o s) = Len(first) + Len(s)
      /\ \A i \in 1 .. Len(first) + Len(s) :
           (first \o s)[i] = IF i <= Len(first) THEN first[i] ELSE s[i - Len(first)]
  BY <1>1, ConcatProperties
<1>4. (first \o s)[1] = a
  BY <1>1, <1>2, <1>3
<1>5. ASSUME NEW i \in 1 .. Len(s)
      PROVE  (first \o s)[i + 1] = s[i]
  <2>1. i + 1 \in 1 .. Len(first) + Len(s) /\ ~(i + 1 <= Len(first)) /\ i + 1 - Len(first) = i
    BY <1>1, <1>2
  <2> QED
    BY <1>3, <2>1
<1> QED
  BY <1>1, <1>3, <1>4, <1>5 DEF first

LEMMA WireVarIntOne == \A n \in Nat : n < Radix => WireVarInt(n) = <<n>>
<1> SUFFICES ASSUME NEW n \in Nat, n < Radix
             PROVE  WireVarInt(n) = <<n>>
  OBVIOUS
<1>1. WireSize(n) = 1 /\ Power[0] = 1
  BY WireSizeStep, PowerDef
<1>2. (n \div 1) % Radix = n
  BY PacketAssumption
<1>3. WireVarInt(n) = [i \in 1 .. 1 |-> n]
  BY <1>1, <1>2 DEF WireVarInt
<1> QED
  BY <1>3

LEMMA WireVarIntType == \A n \in Nat : WireVarInt(n) \in Seq(Nat) /\ Len(WireVarInt(n)) = WireSize(n)
<1> SUFFICES ASSUME NEW n \in Nat
             PROVE  WireVarInt(n) \in Seq(Nat) /\ Len(WireVarInt(n)) = WireSize(n)
  OBVIOUS
<1>1. WireSize(n) \in Nat
  BY WireSizeHas
<1>2. \A i \in 1 .. WireSize(n) :
        ((n \div Power[i - 1]) % Radix) + (IF i < WireSize(n) THEN Radix ELSE 0) \in Nat
  <2> SUFFICES ASSUME NEW i \in 1 .. WireSize(n)
               PROVE  (n \div Power[i - 1]) % Radix \in Nat
    BY PacketAssumption
  <2>1. Power[i - 1] \in Nat /\ Power[i - 1] > 0
    BY PowerBounds
  <2>2. n \div Power[i - 1] \in Nat
    BY <2>1
  <2> QED
    BY <2>2, PacketAssumption
<1> QED
  BY <1>1, <1>2 DEF WireVarInt

\* The lowest digit first, with the mark that more come.
LEMMA WireVarIntMore ==
  ASSUME NEW n \in Nat, n >= Radix
  PROVE  WireVarInt(n) = <<(n % Radix) + Radix>> \o WireVarInt(n \div Radix)
<1>0. Radix \in Nat /\ Radix >= 2
  BY PacketAssumption
<1> DEFINE q == n \div Radix
           k == WireSize(q)
           w == WireVarInt(n)
           v == WireVarInt(q)
           a == (n % Radix) + Radix
<1>1. q \in Nat
  BY <1>0
<1>2. k \in Nat \ {0} /\ WireSize(n) = k + 1
  BY <1>1, WireSizeHas, WireSizeStep
<1>3. w \in Seq(Nat) /\ v \in Seq(Nat) /\ Len(w) = k + 1 /\ Len(v) = k
  BY <1>1, <1>2, WireVarIntType
<1>4. a \in Nat
  BY <1>0
<1>5. w[1] = a
  <2>1. n \div Power[0] = n
    BY PowerDef
  <2> QED
    BY <1>2, <2>1 DEF WireVarInt
<1>6. ASSUME NEW i \in 2 .. k + 1
      PROVE  w[i] = v[i - 1]
  <2> DEFINE p == Power[i - 2]
  <2>1. p \in Nat /\ p >= 1 /\ Power[i - 1] = Radix * p
    BY PowerBounds, PowerDef
  <2>2. n \div (Radix * p) = q \div p
    <3> HIDE DEF p
    <3> QED
      BY <1>0, <2>1
  <2>3. w[i] = ((n \div Power[i - 1]) % Radix) + (IF i < k + 1 THEN Radix ELSE 0)
    BY <1>2 DEF WireVarInt
  <2>4. v[i - 1] = ((q \div Power[i - 2]) % Radix) + (IF i - 1 < k THEN Radix ELSE 0)
    BY <1>2 DEF WireVarInt
  <2> HIDE DEF p, w, v, q, k
  <2> QED
    BY <1>2, <2>1, <2>2, <2>3, <2>4 DEF p
<1> HIDE DEF q, k, w, v, a
<1>7. /\ <<a>> \o v \in Seq(Nat) /\ Len(<<a>> \o v) = k + 1
      /\ (<<a>> \o v)[1] = a
      /\ \A i \in 1 .. k : (<<a>> \o v)[i + 1] = v[i]
  <2>1. v \in Seq(Nat) /\ a \in Nat
    BY <1>3, <1>4
  <2>2. /\ <<a>> \o v \in Seq(Nat) /\ Len(<<a>> \o v) = Len(v) + 1
        /\ (<<a>> \o v)[1] = a
        /\ \A i \in 1 .. Len(v) : (<<a>> \o v)[i + 1] = v[i]
    BY <2>1, Prepended
  <2>3. Len(v) = k
    BY <1>3
  <2> QED
    BY <2>2, <2>3
<1>8. ASSUME NEW i \in 1 .. k + 1
      PROVE  (<<a>> \o v)[i] = w[i]
  <2>1. CASE i = 1
    BY <1>5, <1>7, <2>1
  <2>2. CASE i # 1
    <3>1. i - 1 \in 1 .. k /\ (i - 1) + 1 = i /\ i \in 2 .. k + 1
      BY <1>2, <2>2
    <3>2. (<<a>> \o v)[(i - 1) + 1] = v[i - 1]
      BY <1>7, <3>1
    <3> QED
      BY <1>6, <3>1, <3>2
  <2> QED
    BY <2>1, <2>2
<1>9. <<a>> \o v = w
  BY <1>3, <1>7, <1>8, SeqEqual
<1> QED
  BY <1>9 DEF q, v, w, a
-----------------------------------------------------------------------------
(* What addVarInt computes.                                                *)

\* The loop has a meaning: its recursive definition has a solution, namely
\* the digits.
LEMMA addVarIntDef ==
  \A n \in Nat : addVarInt[n] = IF n < Radix THEN <<n>>
                               ELSE <<(n % Radix) + Radix>> \o addVarInt[n \div Radix]
<1> DEFINE W == [n \in Nat |-> WireVarInt(n)]
<1>1. \A n \in Nat : n \div Radix \in Nat
  BY PacketAssumption
<1>2. \A n \in Nat : W[n] = IF n < Radix THEN <<n>>
                           ELSE <<(n % Radix) + Radix>> \o W[n \div Radix]
  <2> SUFFICES ASSUME NEW n \in Nat
               PROVE  WireVarInt(n) = IF n < Radix THEN <<n>>
                                      ELSE <<(n % Radix) + Radix>> \o WireVarInt(n \div Radix)
    BY <1>1
  <2>1. n < Radix \/ n >= Radix
    BY PacketAssumption
  <2> QED
    BY <2>1, WireVarIntOne, WireVarIntMore
<1>3. W = [n \in Nat |-> W[n]]
  OBVIOUS
<1> HIDE DEF W
<1>4. W = [n \in Nat |-> IF n < Radix THEN <<n>>
                        ELSE <<(n % Radix) + Radix>> \o W[n \div Radix]]
  BY <1>2, <1>3
<1>5. addVarInt = [n \in Nat |-> IF n < Radix THEN <<n>>
                        ELSE <<(n % Radix) + Radix>> \o addVarInt[n \div Radix]]
  BY <1>4, Zenon DEF addVarInt
<1> QED
  BY <1>5

\* addVarInt writes every number as the protocol has it, in any number of
\* bytes: the loop over value & 0x7F and value >>= 7.
THEOREM AddVarIntIsWire == \A n \in Nat : addVarInt[n] = WireVarInt(n)
<1> DEFINE S == {n \in Nat : addVarInt[n] = WireVarInt(n)}
<1>1. ASSUME NEW n \in Nat, \A m \in 0 .. n - 1 : m \in S
      PROVE  n \in S
  <2>1. CASE n < Radix
    BY <2>1, addVarIntDef, WireVarIntOne
  <2>2. CASE n >= Radix
    <3>1. n \div Radix \in 0 .. n - 1
      BY <2>2, PacketAssumption
    <3>2. addVarInt[n \div Radix] = WireVarInt(n \div Radix)
      BY <1>1, <3>1
    <3>3. addVarInt[n] = <<(n % Radix) + Radix>> \o addVarInt[n \div Radix]
      <4>1. ~(n < Radix)
        BY <2>2, PacketAssumption
      <4> QED
        BY <4>1, addVarIntDef, Zenon
    <3> QED
      BY <2>2, <3>2, <3>3, WireVarIntMore
  <2> QED
    BY <2>1, <2>2, PacketAssumption
<1>2. \A n \in Nat : n \in S
  <2> HIDE DEF S
  <2> QED
    BY <1>1, NumberInduction
<1> QED
  BY <1>2

\* A number below Radix squared takes two bytes.
LEMMA WireVarIntTwo ==
  ASSUME NEW n \in Radix .. Radix * Radix - 1
  PROVE  WireVarInt(n) = <<(n % Radix) + Radix, n \div Radix>>
<1>1. n \in Nat /\ n >= Radix /\ n \div Radix \in Nat /\ n \div Radix < Radix
  BY PacketAssumption
<1>2. WireVarInt(n) = <<(n % Radix) + Radix>> \o <<n \div Radix>>
  BY <1>1, WireVarIntMore, WireVarIntOne
<1> DEFINE a == (n % Radix) + Radix
           b == n \div Radix
<1>3. a \in Nat /\ b \in Nat
  BY <1>1, PacketAssumption
<1> HIDE DEF a, b
<1>4. <<a>> \o <<b>> = <<a, b>>
  <2>1. <<b>> \in Seq(Nat) /\ Len(<<b>>) = 1 /\ <<b>>[1] = b
    BY <1>3
  <2>2. <<a, b>> \in Seq(Nat) /\ Len(<<a, b>>) = 2 /\ <<a, b>>[1] = a /\ <<a, b>>[2] = b
    BY <1>3
  <2> DEFINE s == <<b>>
             t == <<a, b>>
             u == <<a>> \o s
  <2>3. u \in Seq(Nat) /\ Len(u) = Len(s) + 1 /\ u[1] = a /\ \A i \in 1 .. Len(s) : u[i + 1] = s[i]
    BY <1>3, <2>1, Prepended
  <2> HIDE DEF s, t, u
  <2>4. Len(u) = 2 /\ u[2] = b
    <3>1. u[1 + 1] = s[1]
      BY <2>1, <2>3 DEF s
    <3> QED
      BY <2>1, <2>3, <3>1 DEF s
  <2>5. u = t
    <3>1. t \in Seq(Nat) /\ Len(t) = 2 /\ t[1] = a /\ t[2] = b
      BY <2>2 DEF t
    <3>2. \A i \in 1 .. Len(u) : i = 1 \/ i = 2
      BY <2>4
    <3>3. \A i \in 1 .. Len(u) : u[i] = t[i]
      BY <2>3, <2>4, <3>1, <3>2
    <3> QED
      BY <2>3, <2>4, <3>1, <3>3, SeqEqual
  <2> QED
    BY <2>5 DEF s, t, u
<1> QED
  BY <1>2, <1>4 DEF a, b
-----------------------------------------------------------------------------
(* Where the parts of a packet lie.                                        *)

LEMMA ConcatParts ==
  ASSUME NEW S, NEW s \in Seq(S), NEW t \in Seq(S)
  PROVE  /\ s \o t \in Seq(S)
         /\ Len(s \o t) = Len(s) + Len(t)
         /\ \A i \in 1 .. Len(s) : (s \o t)[i] = s[i]
         /\ \A i \in 1 .. Len(t) : (s \o t)[Len(s) + i] = t[i]
<1>1. Len(s) \in Nat /\ Len(t) \in Nat
  OBVIOUS
<1>2. /\ s \o t \in Seq(S)
      /\ Len(s \o t) = Len(s) + Len(t)
      /\ \A i \in 1 .. Len(s) + Len(t) : (s \o t)[i] = IF i <= Len(s) THEN s[i] ELSE t[i - Len(s)]
  BY ConcatProperties
<1>3. ASSUME NEW i \in 1 .. Len(s)
      PROVE  (s \o t)[i] = s[i]
  BY <1>1, <1>2
<1>4. ASSUME NEW i \in 1 .. Len(t)
      PROVE  (s \o t)[Len(s) + i] = t[i]
  <2>1. Len(s) + i \in 1 .. Len(s) + Len(t) /\ ~(Len(s) + i <= Len(s)) /\ (Len(s) + i) - Len(s) = i
    BY <1>1
  <2> QED
    BY <1>2, <2>1
<1> QED
  BY <1>2, <1>3, <1>4

\* The two sizes of VarInts that the fixed offsets allow for, as sequences
\* over any set that has the numbers.
LEMMA WireVarIntSizes ==
  ASSUME NEW S, Nat \subseteq S, NEW n \in Nat
  PROVE  /\ WireVarInt(n) \in Seq(S)
         /\ n < Radix => Len(WireVarInt(n)) = 1 /\ WireVarInt(n)[1] = n
         /\ n \in Radix .. Radix * Radix - 1 => Len(WireVarInt(n)) = 2
<1>1. WireVarInt(n) \in Seq(Nat)
  BY WireVarIntType
<1>2. WireVarInt(n) \in Seq(S)
  BY <1>1, SeqMonotonic
<1>3. n < Radix => Len(WireVarInt(n)) = 1 /\ WireVarInt(n)[1] = n
  BY WireVarIntOne
<1>4. n \in Radix .. Radix * Radix - 1 => Len(WireVarInt(n)) = 2
  BY WireVarIntTwo
<1> QED
  BY <1>2, <1>3, <1>4

LEMMA WireStringParts ==
  ASSUME NEW S, Nat \subseteq S, NEW str \in Seq(S), NEW size \in Nat,
         Len(WireVarInt(Len(str))) = size
  PROVE  /\ WireString(str) \in Seq(S)
         /\ Len(WireString(str)) = size + Len(str)
         /\ \A i \in 1 .. size : WireString(str)[i] = WireVarInt(Len(str))[i]
         /\ \A i \in 1 .. Len(str) : WireString(str)[size + i] = str[i]
<1> DEFINE v == WireVarInt(Len(str))
<1>1. Len(str) \in Nat
  OBVIOUS
<1>2. v \in Seq(S)
  BY <1>1, WireVarIntSizes
<1> HIDE DEF v
<1>3. /\ v \o str \in Seq(S)
      /\ Len(v \o str) = Len(v) + Len(str)
      /\ \A i \in 1 .. Len(v) : (v \o str)[i] = v[i]
      /\ \A i \in 1 .. Len(str) : (v \o str)[Len(v) + i] = str[i]
  BY <1>2, ConcatParts
<1>4. WireString(str) = v \o str /\ Len(v) = size
  BY DEF v, WireString
<1> QED
  BY <1>3, <1>4 DEF v

LEMMA WirePacketParts ==
  ASSUME NEW S, Nat \subseteq S, NEW id \in Nat, NEW body \in Seq(S), NEW size \in Nat,
         Len(WireVarInt(Len(body) + 1)) = size
  PROVE  /\ WirePacket(id, body) \in Seq(S)
         /\ Len(WirePacket(id, body)) = size + 1 + Len(body)
         /\ \A i \in 1 .. Len(body) : WirePacket(id, body)[size + 1 + i] = body[i]
<1> DEFINE v == WireVarInt(Len(body) + 1)
           w == <<id>>
           h == v \o w
<1>1. Len(body) + 1 \in Nat
  OBVIOUS
<1>2. v \in Seq(S) /\ Len(v) = size /\ w \in Seq(S) /\ Len(w) = 1
  BY <1>1, WireVarIntSizes
<1> HIDE DEF v, w, h
<1>3. v \o w \in Seq(S) /\ Len(v \o w) = Len(v) + Len(w)
  BY <1>2, ConcatParts
<1>4. h \in Seq(S)
  BY <1>3 DEF h
<1>5. Len(h) = size + 1
  BY <1>2, <1>3 DEF h
<1>6. /\ h \o body \in Seq(S)
      /\ Len(h \o body) = Len(h) + Len(body)
      /\ \A i \in 1 .. Len(body) : (h \o body)[Len(h) + i] = body[i]
  BY <1>4, ConcatParts
<1>7. WirePacket(id, body) = h \o body
  BY DEF WirePacket, h, v, w
<1> QED
  BY <1>5, <1>6, <1>7

\* A status whose two lengths take two bytes each has its text at offset 5.
LEMMA StatusParts ==
  ASSUME NEW S, Nat \subseteq S, NEW text \in Seq(S), Len(text) \in Radix .. Radix * Radix - 4
  PROVE  LET wire == WirePacket(0, WireString(text))
         IN  /\ wire \in Seq(S)
             /\ Len(wire) = 5 + Len(text)
             /\ \A i \in 1 .. Len(text) : wire[5 + i] = text[i]
<1> DEFINE str == WireString(text)
           wire == WirePacket(0, str)
<1>1. Len(text) \in Nat /\ Len(text) \in Radix .. Radix * Radix - 1
  BY PacketAssumption
<1>2. Len(WireVarInt(Len(text))) = 2
  BY <1>1, WireVarIntSizes
<1>3. str \in Seq(S) /\ Len(str) = 2 + Len(text) /\ \A i \in 1 .. Len(text) : str[2 + i] = text[i]
  <2> DEFINE size == Len(WireVarInt(Len(text)))
  <2>1. size = 2 /\ size \in Nat
    BY <1>2
  <2> HIDE DEF str
  <2>2. /\ str \in Seq(S)
        /\ Len(str) = size + Len(text)
        /\ \A i \in 1 .. Len(text) : str[size + i] = text[i]
    BY <2>1, WireStringParts DEF str
  <2> HIDE DEF size
  <2> QED
    BY <2>1, <2>2
<1> HIDE DEF str
<1>4. Len(str) + 1 \in Radix .. Radix * Radix - 1
  BY <1>1, <1>3, PacketAssumption
<1>5. Len(WireVarInt(Len(str) + 1)) = 2
  <2> DEFINE n == Len(str) + 1
  <2>1. n \in Nat /\ n \in Radix .. Radix * Radix - 1
    BY <1>3, <1>4
  <2> HIDE DEF n
  <2>2. Len(WireVarInt(n)) = 2
    BY <2>1, WireVarIntSizes
  <2> QED
    BY <2>2 DEF n
<1> HIDE DEF wire
<1>6. /\ wire \in Seq(S)
      /\ Len(wire) = 2 + 1 + Len(str)
      /\ \A i \in 1 .. Len(str) : wire[2 + 1 + i] = str[i]
  <2> DEFINE size == Len(WireVarInt(Len(str) + 1))
  <2>1. size = 2 /\ size \in Nat
    BY <1>5
  <2>2. Len(WireVarInt(Len(str) + 1)) = size
    OBVIOUS
  <2> HIDE DEF size
  <2>3. /\ WirePacket(0, str) \in Seq(S)
        /\ Len(WirePacket(0, str)) = size + 1 + Len(str)
        /\ \A i \in 1 .. Len(str) : WirePacket(0, str)[size + 1 + i] = str[i]
    <3>1. /\ 0 \in Nat
          /\ str \in Seq(S)
          /\ size \in Nat
          /\ Nat \subseteq S
      BY <1>3, <2>1
    <3> QED
      BY <2>2, <3>1, WirePacketParts
  <2> QED
    BY <2>1, <2>3 DEF wire
<1>7. ASSUME NEW i \in 1 .. Len(text)
      PROVE  wire[5 + i] = text[i]
  <2>1. 2 + i \in 1 .. Len(str) /\ 2 + 1 + (2 + i) = 5 + i
    BY <1>1, <1>3
  <2>2. wire[2 + 1 + (2 + i)] = str[2 + i]
    BY <1>6, <2>1
  <2> QED
    BY <1>3, <2>1, <2>2
<1> QED
  BY <1>1, <1>3, <1>6, <1>7 DEF str, wire

\* The body of a handshake: its third byte is the length of the text, its last
\* one the next state.
LEMMA HandshakeBody ==
  ASSUME NEW S, Nat \subseteq S, NEW s, s.text \in Seq(S), Len(s.text) < Radix,
         s.version \in Radix .. Radix * Radix - 1, s.port \in Nat,
         s.nextState \in Nat, s.nextState < Radix
  PROVE  /\ WireHandshake(s) \in Seq(S)
         /\ Len(WireHandshake(s)) = Len(s.text) + 6
         /\ WireHandshake(s)[3] = Len(s.text)
         /\ WireHandshake(s)[Len(s.text) + 6] = s.nextState
<1> DEFINE n == Len(s.text)
           v == WireVarInt(s.version)
           t == WireString(s.text)
           p == addUShort(s.port)
           e == WireVarInt(s.nextState)
           vt == v \o t
           vtp == vt \o p
           h == vtp \o e
<1>0. n \in Nat
  OBVIOUS
<1>1. v \in Seq(S) /\ Len(v) = 2
  <2>1. s.version \in Nat
    BY PacketAssumption
  <2> QED
    BY <2>1, WireVarIntSizes
<1>2. t \in Seq(S) /\ Len(t) = 1 + n /\ t[1] = n
  <2> DEFINE w == WireVarInt(Len(s.text))
             size == Len(w)
  <2>1. size = 1 /\ size \in Nat /\ w[1] = n
    BY <1>0, WireVarIntSizes
  <2>2. /\ t \in Seq(S)
        /\ Len(t) = size + n
        /\ \A i \in 1 .. size : t[i] = w[i]
    BY <2>1, WireStringParts
  <2> HIDE DEF w, t, n
  <2> QED
    BY <2>1, <2>2
<1>3. p \in Seq(S) /\ Len(p) = 2
  BY DEF addUShort
<1>4. e \in Seq(S) /\ Len(e) = 1 /\ e[1] = s.nextState
  BY WireVarIntSizes
<1>5. WireHandshake(s) = h
  BY DEF WireHandshake
<1> HIDE DEF n, v, t, p, e, vt, vtp, h
<1>6. vt \in Seq(S) /\ Len(vt) = n + 3 /\ vt[3] = n
  <2>0. v \in Seq(S) /\ t \in Seq(S)
    BY <1>1, <1>2
  <2>1. /\ v \o t \in Seq(S)
        /\ Len(v \o t) = Len(v) + Len(t)
        /\ \A i \in 1 .. Len(t) : (v \o t)[Len(v) + i] = t[i]
    BY <2>0, ConcatParts
  <2>2. (v \o t)[2 + 1] = t[1]
    BY <1>0, <1>1, <1>2, <2>1
  <2> QED
    BY <1>0, <1>1, <1>2, <2>1, <2>2 DEF vt
<1>7. vtp \in Seq(S) /\ Len(vtp) = n + 5 /\ vtp[3] = n
  <2>0. vt \in Seq(S) /\ p \in Seq(S)
    BY <1>3, <1>6
  <2>1. /\ vt \o p \in Seq(S)
        /\ Len(vt \o p) = Len(vt) + Len(p)
        /\ \A i \in 1 .. Len(vt) : (vt \o p)[i] = vt[i]
    BY <2>0, ConcatParts
  <2> QED
    BY <1>0, <1>3, <1>6, <2>1 DEF vtp
<1>8. h \in Seq(S) /\ Len(h) = n + 6 /\ h[3] = n /\ h[n + 6] = s.nextState
  <2>0. vtp \in Seq(S) /\ e \in Seq(S)
    BY <1>4, <1>7
  <2>1. /\ vtp \o e \in Seq(S)
        /\ Len(vtp \o e) = Len(vtp) + Len(e)
        /\ \A i \in 1 .. Len(vtp) : (vtp \o e)[i] = vtp[i]
        /\ \A i \in 1 .. Len(e) : (vtp \o e)[Len(vtp) + i] = e[i]
    BY <2>0, ConcatParts
  <2>2. (vtp \o e)[(n + 5) + 1] = e[1]
    BY <1>0, <1>4, <1>7, <2>1
  <2> QED
    BY <1>0, <1>4, <1>7, <2>1, <2>2 DEF h
<1> QED
  BY <1>5, <1>8 DEF n

\* A handshake whose version takes two bytes and whose other VarInts take one
\* has the length of its text at offset 4 and the next state behind 7 bytes
\* and the text; what the client sends with it comes after.
LEMMA HandshakeParts ==
  ASSUME NEW S, Nat \subseteq S, NEW s, s.kind = "handshake", s.text \in Seq(S),
         AtFixedOffsets(s), s.port \in Nat, s.nextState \in 1 .. 3
  PROVE  /\ Wire(s) \in Seq(S)
         /\ Len(Wire(s)) = Len(s.text) + 10
         /\ Wire(s)[5] = Len(s.text)
         /\ Wire(s)[8 + Len(s.text)] = s.nextState
<1> DEFINE n == Len(s.text)
           body == WireHandshake(s)
           w == WirePacket(0, body)
           after == <<1, 0>>
<1>0. n \in Nat
  OBVIOUS
<1>1. n + 7 < Radix /\ s.version \in Radix .. Radix * Radix - 1
  BY DEF AtFixedOffsets
<1>2. body \in Seq(S) /\ Len(body) = n + 6 /\ body[3] = n /\ body[n + 6] = s.nextState
  <2>1. n < Radix /\ s.nextState \in Nat /\ s.nextState < Radix
    BY <1>0, <1>1, PacketAssumption
  <2> QED
    BY <1>1, <2>1, HandshakeBody
<1>3. after \in Seq(S) /\ Len(after) = 2
  OBVIOUS
<1>4. Wire(s) = w \o after
  BY DEF Wire
<1> HIDE DEF n, body, w, after
<1>5. Len(WireVarInt(Len(body) + 1)) = 1
  <2> DEFINE m == Len(body) + 1
  <2>1. m \in Nat /\ m < Radix
    BY <1>0, <1>1, <1>2, PacketAssumption
  <2> HIDE DEF m
  <2>2. Len(WireVarInt(m)) = 1
    BY <2>1, WireVarIntSizes
  <2> QED
    BY <2>2 DEF m
<1>6. w \in Seq(S) /\ Len(w) = n + 8 /\ w[5] = n /\ w[n + 8] = s.nextState
  <2> DEFINE size == Len(WireVarInt(Len(body) + 1))
  <2>1. size = 1 /\ size \in Nat
    BY <1>5
  <2>2. /\ w \in Seq(S)
        /\ Len(w) = size + 1 + Len(body)
        /\ \A i \in 1 .. Len(body) : w[size + 1 + i] = body[i]
    <3>1. Len(WireVarInt(Len(body) + 1)) = size
      OBVIOUS
    <3> HIDE DEF size
    <3>2. 0 \in Nat /\ body \in Seq(S) /\ size \in Nat /\ Nat \subseteq S
      BY <1>2, <2>1
    <3>3. /\ WirePacket(0, body) \in Seq(S)
          /\ Len(WirePacket(0, body)) = size + 1 + Len(body)
          /\ \A i \in 1 .. Len(body) : WirePacket(0, body)[size + 1 + i] = body[i]
      BY <3>1, <3>2, WirePacketParts
    <3> QED
      BY <3>3 DEF w
  <2> HIDE DEF size
  <2>3. w[1 + 1 + 3] = body[3] /\ w[1 + 1 + (n + 6)] = body[n + 6]
    BY <1>0, <1>2, <2>1, <2>2
  <2> QED
    BY <1>0, <1>2, <2>1, <2>2, <2>3
<1>7. /\ w \o after \in Seq(S)
      /\ Len(w \o after) = Len(w) + Len(after)
      /\ \A i \in 1 .. Len(w) : (w \o after)[i] = w[i]
  <2>1. w \in Seq(S) /\ after \in Seq(S)
    BY <1>3, <1>6
  <2> QED
    BY <2>1, ConcatParts
<1> QED
  BY <1>0, <1>3, <1>4, <1>6, <1>7 DEF n
-----------------------------------------------------------------------------
(* What is built.                                                          *)

\* build frames every body as the protocol demands.
LEMMA BuildFrames ==
  ASSUME NEW S, NEW id \in S, NEW body \in Seq(S), Nat \subseteq S
  PROVE  build(id, body) = WirePacket(id, body)
<1> DEFINE data == <<id>> \o body
           v == WireVarInt(Len(body) + 1)
           w == <<id>>
<1>1. Len(data) = Len(body) + 1 /\ Len(body) + 1 \in Nat
  <2>1. Len(<<id>> \o body) = Len(body) + 1
    BY Prepended
  <2> QED
    BY <2>1
<1>2. addVarInt[Len(data)] = v
  BY <1>1, AddVarIntIsWire
<1>3. v \in Seq(S) /\ w \in Seq(S)
  BY <1>1, WireVarIntSizes
<1>4. build(id, body) = v \o (w \o body)
  BY <1>2 DEF build
<1>5. WirePacket(id, body) = (v \o w) \o body
  BY DEF WirePacket
<1> HIDE DEF v, w
<1>6. (v \o w) \o body = v \o (w \o body)
  BY <1>3, ConcatAssociative
<1> QED
  BY <1>4, <1>5, <1>6

\* addString writes a string of the protocol.
LEMMA StringIsWire ==
  ASSUME NEW S, Nat \subseteq S, NEW str \in Seq(S)
  PROVE  addString(str) = WireString(str) /\ WireString(str) \in Seq(S)
<1> DEFINE size == Len(WireVarInt(Len(str)))
<1>1. Len(str) \in Nat
  OBVIOUS
<1>2. addString(str) = WireString(str)
  BY <1>1, AddVarIntIsWire DEF addString, WireString
<1>3. size \in Nat
  BY <1>1, WireVarIntType
<1>4. Len(WireVarInt(Len(str))) = size
  OBVIOUS
<1> HIDE DEF size
<1>5. WireString(str) \in Seq(S)
  BY <1>3, <1>4, WireStringParts
<1> QED
  BY <1>2, <1>5

\* What getStatus adds one after the other is the body of a handshake.
LEMMA HandshakeIsWire ==
  ASSUME NEW S, Nat \subseteq S, NEW s, s.version \in Nat, s.text \in Seq(S),
         s.port \in Nat, s.nextState \in Nat
  PROVE  /\ addVarInt[s.version] \o addString(s.text) \o addUShort(s.port)
              \o addVarInt[s.nextState] = WireHandshake(s)
         /\ WireHandshake(s) \in Seq(S)
<1> DEFINE v == WireVarInt(s.version)
           str == WireString(s.text)
           p == addUShort(s.port)
           state == WireVarInt(s.nextState)
<1>1. v \in Seq(S) /\ state \in Seq(S)
  BY WireVarIntSizes
<1>2. str \in Seq(S) /\ addString(s.text) = str
  BY StringIsWire
<1>3. p \in Seq(S)
  <2>1. ((s.port \div 256) % 256) \in Nat /\ (s.port % 256) \in Nat
    OBVIOUS
  <2> QED
    BY <2>1 DEF addUShort
<1>4. addVarInt[s.version] = v /\ addVarInt[s.nextState] = state
  BY AddVarIntIsWire
<1>5. WireHandshake(s) = v \o str \o p \o state
  BY DEF WireHandshake
<1> HIDE DEF v, str, p, state
<1>6. v \o str \o p \o state \in Seq(S)
  BY <1>1, <1>2, <1>3
<1> QED
  BY <1>2, <1>4, <1>5, <1>6 DEF p

\* Class Packet makes the packets of the protocol: the answer that tpcListener
\* gives of addString and build, and the handshake that getStatus sends of all
\* four methods, from every text, version, port and next state.
THEOREM BuildIsWire ==
  ASSUME NEW S, Nat \subseteq S
  PROVE  /\ \A text \in Seq(S) : build(0, addString(text)) = WirePacket(0, WireString(text))
         /\ \A s : s.version \in Nat /\ s.text \in Seq(S) /\ s.port \in Nat /\ s.nextState \in Nat
              => build(0, addVarInt[s.version] \o addString(s.text) \o addUShort(s.port)
                            \o addVarInt[s.nextState])
                   = WirePacket(0, WireHandshake(s))
<1>1. ASSUME NEW text \in Seq(S)
      PROVE  build(0, addString(text)) = WirePacket(0, WireString(text))
  <2> DEFINE body == WireString(text)
  <2>1. addString(text) = body /\ body \in Seq(S)
    BY StringIsWire
  <2> HIDE DEF body
  <2>2. build(0, body) = WirePacket(0, body)
    BY <2>1, BuildFrames
  <2> QED
    BY <2>1, <2>2 DEF body
<1>2. ASSUME NEW s, s.version \in Nat, s.text \in Seq(S), s.port \in Nat, s.nextState \in Nat
      PROVE  build(0, addVarInt[s.version] \o addString(s.text) \o addUShort(s.port)
                        \o addVarInt[s.nextState])
               = WirePacket(0, WireHandshake(s))
  <2> DEFINE body == WireHandshake(s)
             added == addVarInt[s.version] \o addString(s.text) \o addUShort(s.port)
                        \o addVarInt[s.nextState]
  <2>1. added = body /\ body \in Seq(S)
    BY <1>2, HandshakeIsWire
  <2> HIDE DEF body, added
  <2>2. build(0, body) = WirePacket(0, body)
    BY <2>1, BuildFrames
  <2> QED
    BY <2>1, <2>2 DEF body, added
<1> QED
  BY <1>1, <1>2
-----------------------------------------------------------------------------
(* The packets of RCON.                                                    *)

\* The twelve bytes before the text.
Header(length, id, type) == Int32(length) \o Int32(id) \o Int32(type)

LEMMA Int32Type ==
  ASSUME NEW S, Nat \subseteq S, NEW n \in Int
  PROVE  Int32(n) \in Seq(S) /\ Len(Int32(n)) = 4
<1> DEFINE a == n % 256
           b == (n \div 256) % 256
           c == (n \div 65536) % 256
           d == (n \div 16777216) % 256
<1>1. a \in S /\ b \in S /\ c \in S /\ d \in S
  OBVIOUS
<1> HIDE DEF a, b, c, d
<1>2. <<a, b, c, d>> \in Seq(S) /\ Len(<<a, b, c, d>>) = 4
  BY <1>1
<1> QED
  BY <1>2 DEF Int32, a, b, c, d

\* h has the id at offset 4.
IdAt4(h, id) == \A i \in 1 .. 4 : h[4 + i] = Int32(id)[i]

LEMMA HeaderParts ==
  ASSUME NEW S, Nat \subseteq S, NEW length \in Int, NEW id \in Int, NEW type \in Int
  PROVE  /\ Header(length, id, type) \in Seq(S)
         /\ Len(Header(length, id, type)) = 12
         /\ IdAt4(Header(length, id, type), id)
<1> DEFINE a == Int32(length)
           b == Int32(id)
           c == Int32(type)
           ab == a \o b
           abc == ab \o c
<1>1. /\ a \in Seq(S) /\ b \in Seq(S) /\ c \in Seq(S)
      /\ Len(a) = 4 /\ Len(b) = 4 /\ Len(c) = 4
  BY Int32Type
<1> HIDE DEF a, b, c, ab, abc
<1>2. a \in Seq(S) /\ b \in Seq(S) /\ c \in Seq(S)
  BY <1>1
<1>3. ab \in Seq(S) /\ Len(ab) = 8 /\ \A i \in 1 .. 4 : ab[4 + i] = b[i]
  <2>1. /\ a \o b \in Seq(S)
        /\ Len(a \o b) = Len(a) + Len(b)
        /\ \A i \in 1 .. Len(b) : (a \o b)[Len(a) + i] = b[i]
    BY <1>2, ConcatParts
  <2> QED
    BY <1>1, <2>1 DEF ab
<1>4. ab \in Seq(S)
  BY <1>3
<1>5. abc \in Seq(S) /\ Len(abc) = 12 /\ \A i \in 1 .. 8 : abc[i] = ab[i]
  <2>1. /\ ab \o c \in Seq(S)
        /\ Len(ab \o c) = Len(ab) + Len(c)
        /\ \A i \in 1 .. Len(ab) : (ab \o c)[i] = ab[i]
    BY <1>2, <1>4, ConcatParts
  <2> QED
    BY <1>1, <1>3, <2>1 DEF abc
<1>6. \A i \in 1 .. 4 : 4 + i \in 1 .. 8
  OBVIOUS
<1>7. Header(length, id, type) = abc
  BY DEF Header, a, b, c, ab, abc
<1> QED
  BY <1>3, <1>5, <1>6, <1>7 DEF b, IdAt4

\* What serialize writes into its string of zeros.
Written(id, type, text) == Header(Len(text) + 10, id, type) \o text

Terminators == <<0, 0>>

\* A reply has the id at offset 4, the text at offset 12, and two zeros after.
LEMMA ReplyParts ==
  ASSUME NEW S, Nat \subseteq S, NEW id \in Int, NEW type \in Int, NEW text \in Seq(S)
  PROVE  /\ WireReply(id, type, text) \in Seq(S)
         /\ Len(WireReply(id, type, text)) = Len(text) + 14
         /\ WireReply(id, type, text) = Written(id, type, text) \o Terminators
         /\ Written(id, type, text) \in Seq(S)
         /\ Len(Written(id, type, text)) = Len(text) + 12
         /\ \A i \in 1 .. 4 : WireReply(id, type, text)[4 + i] = Int32(id)[i]
         /\ \A i \in 1 .. Len(text) : WireReply(id, type, text)[12 + i] = text[i]
<1> DEFINE n == Len(text)
           h == Header(n + 10, id, type)
           ht == h \o text
           z == Terminators
           wire == ht \o z
<1>0. n \in Nat
  OBVIOUS
<1>1. h \in Seq(S) /\ Len(h) = 12 /\ \A i \in 1 .. 4 : h[4 + i] = Int32(id)[i]
  <2> DEFINE m == n + 10
  <2>1. m \in Int
    BY <1>0
  <2> HIDE DEF m
  <2>2. Header(m, id, type) \in Seq(S) /\ Len(Header(m, id, type)) = 12
    BY <2>1, HeaderParts
  <2>3. IdAt4(Header(m, id, type), id)
    BY <2>1, HeaderParts
  <2> QED
    BY <2>2, <2>3 DEF m, IdAt4
<1>2. z \in Seq(S) /\ Len(z) = 2
  BY DEF Terminators
<1>3. WireReply(id, type, text) = wire
  BY DEF WireReply, Header, Terminators
<1> HIDE DEF n, h, ht, z, wire
<1>4. h \in Seq(S)
  BY <1>1
<1>5. /\ h \o text \in Seq(S)
      /\ Len(h \o text) = Len(h) + Len(text)
      /\ \A i \in 1 .. Len(h) : (h \o text)[i] = h[i]
      /\ \A i \in 1 .. Len(text) : (h \o text)[Len(h) + i] = text[i]
  BY <1>4, ConcatParts
<1>6. /\ ht \in Seq(S) /\ Len(ht) = n + 12
      /\ \A i \in 1 .. 12 : ht[i] = h[i]
      /\ \A i \in 1 .. n : ht[12 + i] = text[i]
  <2>1. Len(h) = 12 /\ Len(text) = n
    BY <1>1 DEF n
  <2>2. /\ ht \in Seq(S) /\ Len(ht) = 12 + n
        /\ \A i \in 1 .. 12 : ht[i] = h[i]
        /\ \A i \in 1 .. n : ht[12 + i] = text[i]
    BY <1>5, <2>1 DEF ht
  <2> QED
    BY <1>0, <2>2
<1>7. ht \in Seq(S) /\ z \in Seq(S)
  BY <1>2, <1>6
<1>8. /\ ht \o z \in Seq(S)
      /\ Len(ht \o z) = Len(ht) + Len(z)
      /\ \A i \in 1 .. Len(ht) : (ht \o z)[i] = ht[i]
  BY <1>7, ConcatParts
<1>9. /\ wire \in Seq(S) /\ Len(wire) = n + 14
      /\ \A i \in 1 .. n + 12 : wire[i] = ht[i]
  BY <1>0, <1>2, <1>6, <1>8 DEF wire
<1>10. ASSUME NEW i \in 1 .. 4
       PROVE  wire[4 + i] = Int32(id)[i]
  <2>1. 4 + i \in 1 .. 12 /\ 4 + i \in 1 .. n + 12
    BY <1>0
  <2> QED
    BY <1>1, <1>6, <1>9, <2>1
<1>11. ASSUME NEW i \in 1 .. n
       PROVE  wire[12 + i] = text[i]
  <2>1. 12 + i \in 1 .. n + 12
    BY <1>0
  <2> QED
    BY <1>6, <1>9, <2>1
<1>12. wire = ht \o Terminators
  BY DEF wire, z
<1>13. Written(id, type, text) = ht
  BY DEF Written, ht, h, n
<1> QED
  BY <1>0, <1>3, <1>6, <1>9, <1>10, <1>11, <1>12, <1>13 DEF n

\* What set and serialize make of a text is what the protocol demands: the
\* fields in place, and the zeros of the string as its two terminators.
THEOREM SerializeIsWire ==
  ASSUME NEW S, Nat \subseteq S, NEW id \in Int, NEW type \in Int, NEW text \in Seq(S)
  PROVE  serialize(set(id, type, text)) = WireReply(id, type, text)
<1> DEFINE n == Len(text)
           written == Written(id, type, text)
           wire == WireReply(id, type, text)
           made == [i \in 1 .. n + 14 |-> IF i <= Len(written) THEN written[i] ELSE 0]
           z == Terminators
<1>0. n \in Nat
  OBVIOUS
<1>1. /\ wire \in Seq(S) /\ Len(wire) = n + 14 /\ wire = written \o z
      /\ written \in Seq(S) /\ Len(written) = n + 12
  <2>1. WireReply(id, type, text) \in Seq(S)
    BY ReplyParts
  <2>2. Len(WireReply(id, type, text)) = Len(text) + 14
    BY ReplyParts
  <2>3. WireReply(id, type, text) = written \o z
    BY ReplyParts
  <2>4. written \in Seq(S)
    BY ReplyParts
  <2>5. Len(written) = Len(text) + 12
    BY ReplyParts
  <2> QED
    BY <2>1, <2>2, <2>3, <2>4, <2>5
<1>2. serialize(set(id, type, text)) = made
  <2>1. 4 + 4 + n + 2 = n + 10 /\ (n + 10) + 4 = n + 14
    BY <1>0
  <2>2. set(id, type, text) = [length |-> n + 10, requestId |-> id, type |-> type, payload |-> text]
    BY <2>1 DEF set
  <2> QED
    BY <2>1, <2>2 DEF serialize, Written, Header
<1>3. z \in Seq(S) /\ Len(z) = 2 /\ z[1] = 0 /\ z[2] = 0
  BY DEF Terminators
<1> HIDE DEF n, written, wire, z
<1>4. written \in Seq(S) /\ z \in Seq(S)
  BY <1>1, <1>3
<1>5. /\ \A i \in 1 .. Len(written) : (written \o z)[i] = written[i]
      /\ \A i \in 1 .. Len(z) : (written \o z)[Len(written) + i] = z[i]
  BY <1>4, ConcatParts
<1>6. wire[(n + 12) + 1] = 0 /\ wire[(n + 12) + 2] = 0
  <2>1. 1 \in 1 .. Len(z) /\ 2 \in 1 .. Len(z)
    BY <1>3
  <2>2. (written \o z)[Len(written) + 1] = z[1] /\ (written \o z)[Len(written) + 2] = z[2]
    BY <1>5, <2>1
  <2> QED
    BY <1>1, <1>3, <2>2
<1>7. ASSUME NEW i \in 1 .. n + 14
      PROVE  wire[i] = made[i] /\ made[i] \in S
  <2>1. CASE i <= n + 12
    <3>1. i \in 1 .. Len(written) /\ made[i] = written[i]
      BY <1>0, <1>1, <2>1
    <3>2. written[i] \in S
      BY <1>4, <3>1, ElementOfSeq
    <3> QED
      BY <1>1, <1>5, <3>1, <3>2
  <2>2. CASE i > n + 12
    <3>1. (i = (n + 12) + 1 \/ i = (n + 12) + 2) /\ ~(i <= Len(written))
      BY <1>0, <1>1, <2>2
    <3> QED
      BY <1>6, <3>1
  <2> QED
    BY <1>0, <2>1, <2>2
<1>8. made \in Seq(S) /\ Len(made) = n + 14
  BY <1>0, <1>7
<1> HIDE DEF made
<1>9. wire = made
  BY <1>1, <1>7, <1>8, SeqEqual
<1> QED
  BY <1>2, <1>9 DEF wire
=============================================================================
