--------------------------- MODULE FONcValues_proofs ---------------------------
(***************************************************************************)
(* What is true of the values of every variable, whatever the sizes of its *)
(* dimensions: where nc_put_var puts the k-th value of a buffer and where  *)
(* the loop of FONcArray::write on var_start puts the k-th string; and     *)
(* what the module leaves with the framework.                              *)
(***************************************************************************)
EXTENDS FONcValues, NumberInduction

---------------------------------------------------------------------------
(* Numbers.                                                                *)

LEMMA Division ==
  ASSUME NEW a \in Int, NEW b \in Nat \ {0}
  PROVE  a \div b \in Int /\ a % b \in 0..(b - 1) /\ a = b * (a \div b) + (a % b)
OBVIOUS

LEMMA DivisionIs ==
  ASSUME NEW b \in Nat \ {0}, NEW q \in Int, NEW r \in 0..(b - 1)
  PROVE  (b * q + r) \div b = q /\ (b * q + r) % b = r
OBVIOUS

LEMMA Quotient ==
  ASSUME NEW a \in Nat, NEW b \in Nat \ {0}
  PROVE  a \div b \in Nat
OBVIOUS

(* One more: the remainder is the next or 0, the quotient the same or the  *)
(* next.                                                                   *)
LEMMA Successor ==
  ASSUME NEW k \in Nat, NEW b \in Nat \ {0}
  PROVE  /\ (k + 1) % b = IF (k % b) + 1 = b THEN 0 ELSE (k % b) + 1
         /\ (k + 1) \div b = IF (k + 1) % b = 0 THEN (k \div b) + 1 ELSE k \div b
<1> DEFINE q == k \div b  r == k % b
<1>1. q \in Int /\ r \in 0..(b - 1) /\ k = b * q + r
  BY Division
<1> HIDE DEF q, r
<1>2. CASE r + 1 < b
  <2>1. (b * q + (r + 1)) \div b = q /\ (b * q + (r + 1)) % b = r + 1
    BY <1>1, <1>2, DivisionIs
  <2>2. k + 1 = b * q + (r + 1)
    BY <1>1
  <2>3. QED
    BY <2>1, <2>2, <1>1, <1>2 DEF q, r
<1>3. CASE r + 1 = b
  <2>1. (b * (q + 1) + 0) \div b = q + 1 /\ (b * (q + 1) + 0) % b = 0
    BY <1>1, DivisionIs
  <2>2. k + 1 = b * (q + 1) + 0
    BY <1>1, <1>3
  <2>3. QED
    BY <2>1, <2>2, <1>1, <1>3 DEF q, r
<1>4. QED
  BY <1>1, <1>2, <1>3

(* A multiple of a * b is a multiple of b whose quotient is one of a.      *)
LEMMA BlockStart ==
  ASSUME NEW n \in Nat, NEW a \in Nat \ {0}, NEW b \in Nat \ {0}
  PROVE  n % (a * b) = 0 <=> n % b = 0 /\ (n \div b) % a = 0
<1>0. a * b \in Nat \ {0}
  OBVIOUS
<1>1. ASSUME n % (a * b) = 0 PROVE n % b = 0 /\ (n \div b) % a = 0
  <2> DEFINE m == a * b  p == n \div m
  <2> HIDE DEF m
  <2>1. p \in Int /\ n = m * p
    <3>1. m \in Nat \ {0} /\ n % m = 0
      BY <1>0, <1>1 DEF m
    <3>2. QED
      BY <3>1, Division
  <2> DEFINE q == a * p
  <2> HIDE DEF p
  <2>2. n = b * q + 0 /\ q \in Int
    BY <2>1 DEF m
  <2>3. (a * p + 0) % a = 0 /\ q = a * p + 0
    BY <2>1, DivisionIs
  <2> HIDE DEF q
  <2>4. (b * q + 0) \div b = q /\ (b * q + 0) % b = 0
    BY <2>2, DivisionIs
  <2>5. QED
    BY <2>2, <2>3, <2>4
<1>2. ASSUME n % b = 0, (n \div b) % a = 0 PROVE n % (a * b) = 0
  <2> DEFINE q == n \div b  p == q \div a
  <2>1. q \in Int /\ n = b * q
    BY <1>2, Division
  <2>2. p \in Int /\ q = a * p
    BY <1>2, <2>1, Division
  <2> HIDE DEF q, p
  <2>3. n = (a * b) * p + 0
    BY <2>1, <2>2
  <2>4. QED
    BY <1>0, <2>2, <2>3, DivisionIs, SMTT(30)
<1>3. QED
  BY <1>1, <1>2

LEMMA DivisionTwice ==
  ASSUME NEW n \in Nat, NEW a \in Nat \ {0}, NEW b \in Nat \ {0}
  PROVE  n \div (a * b) = (n \div b) \div a
<1> DEFINE q == n \div b  r == n % b  p == q \div a  t == q % a
<1>1. q \in Int /\ r \in 0..(b - 1) /\ n = b * q + r
  BY Division
<1>2. p \in Int /\ t \in 0..(a - 1) /\ q = a * p + t
  BY <1>1, Division
<1> HIDE DEF q, r, p, t
<1>3. n = (a * b) * p + (b * t + r)
  BY <1>1, <1>2
<1>4. b * t + r \in 0..(a * b - 1)
  <2>1. b * t \in Nat /\ b * t <= b * (a - 1)
    BY <1>2
  <2>2. b * (a - 1) = a * b - b
    OBVIOUS
  <2>3. QED
    BY <1>1, <2>1, <2>2
<1>5. a * b \in Nat \ {0}
  OBVIOUS
<1>6. ((a * b) * p + (b * t + r)) \div (a * b) = p
  BY <1>2, <1>4, <1>5, DivisionIs
<1>7. QED
  BY <1>3, <1>6 DEF p, q

---------------------------------------------------------------------------
(* The product of the sizes.                                               *)
Sizes == Seq(Nat \ {0})
IsUpto(f, s) ==
  /\ f \in [0..Len(s) -> Nat \ {0}]
  /\ f[0] = 1
  /\ \A k \in 1..Len(s) : f[k] = s[k] * f[k - 1]

(* The function that Product defines by recursion exists.                  *)
LEMMA UptoExists ==
  ASSUME NEW s \in Sizes
  PROVE  \E f : IsUpto(f, s)
<1> DEFINE Up(f, n) == /\ f \in [0..n -> Nat \ {0}]
                       /\ f[0] = 1
                       /\ \A k \in 1..n : f[k] = s[k] * f[k - 1]
           Exists(n) == n <= Len(s) => \E f : Up(f, n)
           T == {n \in Nat : Exists(n)}
<1>1. 0 \in T
  <2>1. Up([k \in 0..0 |-> 1], 0)
    OBVIOUS
  <2>2. QED
    BY <2>1
<1>2. ASSUME NEW n \in Nat, n \in T PROVE n + 1 \in T
  <2>1. SUFFICES ASSUME n + 1 <= Len(s) PROVE \E f : Up(f, n + 1)
    <3> HIDE DEF Up
    <3>1. Exists(n + 1) => n + 1 \in T
      OBVIOUS
    <3>2. QED
      BY <2>1, <3>1
  <2>2. PICK f : Up(f, n)
    <3> HIDE DEF Up
    <3>1. \E f : Up(f, n)
      BY <1>2, <2>1 DEF Sizes
    <3>2. QED
      BY <3>1
  <2>3. s[n + 1] \in Nat \ {0}
    BY <2>1 DEF Sizes
  <2> DEFINE g == [k \in 0..(n + 1) |-> IF k = n + 1 THEN s[n + 1] * f[n] ELSE f[k]]
  <2>4. Up(g, n + 1)
    <3>1. f[n] \in Nat \ {0} /\ s[n + 1] * f[n] \in Nat \ {0}
      BY <2>2, <2>3
    <3>2. g \in [0..(n + 1) -> Nat \ {0}] /\ g[0] = 1
      BY <2>2, <3>1
    <3>3. ASSUME NEW k \in 1..(n + 1) PROVE g[k] = s[k] * g[k - 1]
      <4>1. CASE k = n + 1
        BY <4>1
      <4>2. CASE k # n + 1
        BY <4>2, <2>2
      <4>3. QED
        BY <4>1, <4>2
    <3>4. QED
      BY <3>2, <3>3
  <2>5. QED
    BY <2>4
<1> HIDE DEF T
<1>3. Len(s) \in T
  BY <1>1, <1>2, Induction DEF Sizes
<1>4. QED
  BY <1>3 DEF T, IsUpto, Sizes

LEMMA UptoUnique ==
  ASSUME NEW s \in Sizes, NEW f, NEW g, IsUpto(f, s), IsUpto(g, s)
  PROVE  f = g
<1> DEFINE T == {n \in Nat : n <= Len(s) => f[n] = g[n]}
<1>1. 0 \in T
  BY DEF IsUpto
<1>2. ASSUME NEW n \in Nat, n \in T PROVE n + 1 \in T
  BY <1>2 DEF IsUpto, Sizes
<1> HIDE DEF T
<1>3. Nat \subseteq T
  BY <1>1, <1>2, Induction
<1>4. QED
  BY <1>3 DEF T, IsUpto

LEMMA ProductIs ==
  ASSUME NEW s \in Sizes, NEW f, IsUpto(f, s)
  PROVE  Product(s) = f[Len(s)] /\ Product(s) \in Nat \ {0}
<1> DEFINE Def(h) == h = [k \in 0..Len(s) |-> IF k = 0 THEN 1 ELSE s[k] * h[k - 1]]
<1>1. Product(s) = (CHOOSE h : Def(h))[Len(s)]
  BY DEF Product
<1>2. Def(f)
  BY DEF IsUpto, Sizes
<1>3. ASSUME NEW h, Def(h) PROVE h = f
  <2> DEFINE T == {n \in Nat : n <= Len(s) => h[n] = f[n]}
  <2>1. 0 \in T
    BY <1>3 DEF IsUpto, Sizes
  <2>2. ASSUME NEW n \in Nat, n \in T PROVE n + 1 \in T
    BY <2>2, <1>3 DEF IsUpto, Sizes
  <2> HIDE DEF T
  <2>3. Nat \subseteq T
    BY <2>1, <2>2, Induction
  <2>4. QED
    BY <2>3, <1>3 DEF T, IsUpto
<1>4. (CHOOSE h : Def(h)) = f
  BY <1>2, <1>3
<1> HIDE DEF Def
<1>5. Product(s) = f[Len(s)]
  BY <1>1, <1>4
<1>6. QED
  BY <1>5 DEF IsUpto, Sizes

(* The values a step along dimension d skips.                              *)
Block(s, d) == Product(SubSeq(s, d + 1, Len(s)))

LEMMA BlockStep ==
  ASSUME NEW s \in Sizes
  PROVE  /\ Block(s, Len(s)) = 1
         /\ Block(s, 0) = Product(s)
         /\ \A d \in 0..Len(s) : Block(s, d) \in Nat \ {0}
         /\ \A d \in 1..Len(s) : Block(s, d - 1) = s[d] * Block(s, d)
<1>1. ASSUME NEW d \in 0..Len(s)
      PROVE  SubSeq(s, d + 1, Len(s)) \in Sizes /\ Block(s, d) \in Nat \ {0}
  <2>1. SubSeq(s, d + 1, Len(s)) \in Sizes
    BY DEF Sizes
  <2>2. QED
    BY <2>1, UptoExists, ProductIs DEF Block
<1>2. Block(s, Len(s)) = 1
  <2> DEFINE t == SubSeq(s, Len(s) + 1, Len(s))
  <2>1. t \in Sizes /\ Len(t) = 0
    BY DEF Sizes
  <2> HIDE DEF t
  <2>2. PICK f : IsUpto(f, t)
    BY <2>1, UptoExists
  <2>3. QED
    BY <2>1, <2>2, ProductIs DEF Block, t, IsUpto
<1>3. Block(s, 0) = Product(s)
  <2>1. SubSeq(s, 1, Len(s)) = s
    BY DEF Sizes
  <2>2. Block(s, 0) = Product(SubSeq(s, 0 + 1, Len(s))) /\ 0 + 1 = 1
    BY DEF Block
  <2>3. QED
    BY <2>1, <2>2
<1>4. ASSUME NEW d \in 1..Len(s) PROVE Block(s, d - 1) = s[d] * Block(s, d)
  <2> DEFINE t == SubSeq(s, d + 1, Len(s))  u == SubSeq(s, d, Len(s))
  <2>1. /\ t \in Sizes /\ u \in Sizes /\ Len(u) = Len(t) + 1 /\ Len(t) \in Nat
        /\ u[1] = s[d] /\ \A k \in 1..Len(t) : u[k + 1] = t[k]
        /\ s[d] \in Nat \ {0}
    BY DEF Sizes
  <2>2. Block(s, d) = Product(t) /\ Block(s, d - 1) = Product(u)
    BY DEF Block
  <2> HIDE DEF t, u
  <2>3. PICK f : IsUpto(f, t)
    BY <2>1, UptoExists
  <2> DEFINE g == [k \in 0..Len(u) |-> IF k = 0 THEN 1 ELSE s[d] * f[k - 1]]
  <2>4. IsUpto(g, u)
    <3>1. ASSUME NEW k \in 0..Len(t)
          PROVE  f[k] \in Nat \ {0} /\ g[k + 1] = s[d] * f[k] /\ s[d] * f[k] \in Nat \ {0}
      <4>1. f[k] \in Nat \ {0}
        BY <2>3 DEF IsUpto
      <4>2. k + 1 \in 0..Len(u) /\ k + 1 # 0 /\ (k + 1) - 1 = k
        BY <2>1
      <4>3. QED
        BY <4>1, <4>2, <2>1
    <3>2. g \in [0..Len(u) -> Nat \ {0}] /\ g[0] = 1
      <4>1. ASSUME NEW k \in 0..Len(u), k # 0 PROVE s[d] * f[k - 1] \in Nat \ {0}
        <5>1. k - 1 \in 0..Len(t)
          BY <4>1, <2>1
        <5>2. QED
          BY <5>1, <3>1
      <4>2. QED
        BY <4>1, <2>1
    <3>3. g[1] = u[1] * g[0]
      BY <2>1, <2>3 DEF IsUpto
    <3>4. ASSUME NEW k \in 1..Len(t) PROVE g[k + 1] = u[k + 1] * g[k]
      <4>1. f[k] = t[k] * f[k - 1] /\ t[k] \in Nat /\ f[k - 1] \in Nat
        <5>1. k - 1 \in 0..Len(t) /\ k \in 1..Len(t)
          BY <2>1
        <5>2. QED
          <6>1. f[k] = t[k] * f[k - 1]
            BY <5>1, <2>3 DEF IsUpto
          <6>2. t[k] \in Nat
            BY <5>1, <2>1 DEF Sizes
          <6>3. f[k - 1] \in Nat
            BY <5>1, <3>1
          <6>4. QED
            BY <6>1, <6>2, <6>3
      <4>2. g[k + 1] = s[d] * f[k] /\ g[k] = s[d] * f[k - 1] /\ u[k + 1] = t[k]
        BY <2>1
      <4>3. QED
        BY <4>1, <4>2, <2>1
    <3> HIDE DEF g
    <3>5. ASSUME NEW k \in 1..Len(u) PROVE g[k] = u[k] * g[k - 1]
      <4>1. CASE k = 1
        BY <4>1, <3>3
      <4>2. CASE k # 1
        <5>1. k - 1 \in 1..Len(t) /\ (k - 1) + 1 = k
          BY <4>2, <2>1
        <5>2. QED
          BY <5>1, <3>4
      <4>3. QED
        BY <4>1, <4>2
    <3>6. QED
      BY <3>2, <3>5 DEF IsUpto
  <2>5. Product(u) = g[Len(u)] /\ Product(t) = f[Len(t)]
    BY <2>1, <2>3, <2>4, ProductIs
  <2>6. QED
    BY <2>1, <2>2, <2>5
<1>5. QED
  BY <1>1, <1>2, <1>3, <1>4

---------------------------------------------------------------------------
(* The index of the k-th value.  Carry(n, s, d): n is the first number of  *)
(* a block of dimension d, all digits after d are 0.                       *)
Digit(k, s, d) == (k \div Block(s, d)) % s[d]
Carry(n, s, d) == n % Block(s, d) = 0

LEMMA IndexIs ==
  ASSUME NEW s \in Sizes, NEW k \in Nat
  PROVE  /\ DOMAIN IndexOf(k, s) = DOMAIN s
         /\ \A d \in DOMAIN s : /\ IndexOf(k, s)[d] = Digit(k, s, d)
                                /\ IndexOf(k, s)[d] \in 0..(s[d] - 1)
<1>1. ASSUME NEW d \in DOMAIN s PROVE IndexOf(k, s)[d] = Digit(k, s, d)
  BY DEF IndexOf, Digit, Block
<1>2. ASSUME NEW d \in DOMAIN s PROVE Digit(k, s, d) \in 0..(s[d] - 1)
  <2>1. s[d] \in Nat \ {0} /\ Block(s, d) \in Nat \ {0}
    BY BlockStep DEF Sizes
  <2>2. k \div Block(s, d) \in Int
    BY <2>1, Division
  <2>3. QED
    BY <2>1, <2>2, Division DEF Digit
<1>3. QED
  BY <1>1, <1>2 DEF IndexOf

(* The index of the first value.                                           *)
LEMMA IndexZero ==
  ASSUME NEW s \in Sizes
  PROVE  IndexOf(0, s) = [d \in DOMAIN s |-> 0]
<1>1. ASSUME NEW d \in DOMAIN s PROVE Digit(0, s, d) = 0
  <2>1. s[d] \in Nat \ {0} /\ Block(s, d) \in Nat \ {0}
    BY BlockStep DEF Sizes
  <2>2. (Block(s, d) * 0 + 0) \div Block(s, d) = 0
    BY <2>1, DivisionIs
  <2>3. (s[d] * 0 + 0) % s[d] = 0
    BY <2>1, DivisionIs
  <2>4. QED
    BY <2>1, <2>2, <2>3 DEF Digit
<1>2. QED
  BY <1>1 DEF IndexOf, Digit, Block

(* From one number to the next, each digit stays, or it is bumped up, or   *)
(* it starts again, as the digits after it say.                            *)
LEMMA DigitStep ==
  ASSUME NEW s \in Sizes, NEW k \in Nat, NEW d \in 1..Len(s)
  PROVE  /\ ~ Carry(k + 1, s, d) => Digit(k + 1, s, d) = Digit(k, s, d)
         /\ Carry(k + 1, s, d) =>
              Digit(k + 1, s, d) = IF Digit(k, s, d) + 1 = s[d] THEN 0 ELSE Digit(k, s, d) + 1
         /\ Carry(k + 1, s, d - 1) <=> Carry(k + 1, s, d) /\ Digit(k, s, d) + 1 = s[d]
<1> DEFINE b == Block(s, d)  a == s[d]  q == k \div b
<1>1. a \in Nat \ {0} /\ b \in Nat \ {0} /\ Block(s, d - 1) = a * b
  BY BlockStep DEF Sizes
<1>2. q \in Nat
  BY <1>1, Quotient
<1>3. (k + 1) \div b = IF (k + 1) % b = 0 THEN q + 1 ELSE q
  BY <1>1, Successor
<1>4. (q + 1) % a = IF (q % a) + 1 = a THEN 0 ELSE (q % a) + 1
  BY <1>1, <1>2, Successor
<1>5. q % a \in Nat
  <2> HIDE DEF a, b, q
  <2>1. a \in Nat \ {0} /\ q \in Int
    BY <1>1, <1>2
  <2>2. q % a \in 0..(a - 1)
    BY <2>1, Division
  <2>3. QED
    BY <2>1, <2>2
<1>6. /\ Carry(k + 1, s, d) <=> (k + 1) % b = 0
      /\ Digit(k, s, d) = q % a
      /\ Digit(k + 1, s, d) = ((k + 1) \div b) % a
  BY DEF Carry, Digit
<1>7. Carry(k + 1, s, d - 1) <=> (k + 1) % b = 0 /\ ((k + 1) \div b) % a = 0
  <2>1. (k + 1) % (a * b) = 0 <=> (k + 1) % b = 0 /\ ((k + 1) \div b) % a = 0
    BY <1>1, BlockStart, SMTT(30)
  <2>2. QED
    BY <2>1, <1>1 DEF Carry
<1> HIDE DEF a, b, q
<1>8. ASSUME (k + 1) % b = 0
      PROVE  ((k + 1) \div b) % a = IF (q % a) + 1 = a THEN 0 ELSE (q % a) + 1
  BY <1>3, <1>4, <1>8
<1>9. ASSUME (k + 1) % b # 0 PROVE ((k + 1) \div b) % a = q % a
  BY <1>3, <1>9
<1>10. QED
  BY <1>5, <1>6, <1>7, <1>8, <1>9 DEF a

(* Where a block starts, the smaller ones in it do.                        *)
LEMMA CarryAfter ==
  ASSUME NEW s \in Sizes, NEW k \in Nat, NEW d \in 0..Len(s), Carry(k + 1, s, d)
  PROVE  \A e \in d..Len(s) : Carry(k + 1, s, e)
<1> DEFINE T == {n \in Nat : d + n <= Len(s) => Carry(k + 1, s, d + n)}
<1>1. 0 \in T
  OBVIOUS
<1>2. ASSUME NEW n \in Nat, n \in T PROVE n + 1 \in T
  <2>1. SUFFICES ASSUME d + (n + 1) <= Len(s) PROVE Carry(k + 1, s, d + (n + 1))
    BY <2>1
  <2>2. d + (n + 1) \in 1..Len(s) /\ (d + (n + 1)) - 1 = d + n /\ d + n <= Len(s)
    BY <2>1 DEF Sizes
  <2>3. Carry(k + 1, s, d + n)
    BY <1>2, <2>2
  <2>4. QED
    BY <2>2, <2>3, DigitStep
<1> HIDE DEF T
<1>3. Nat \subseteq T
  BY <1>1, <1>2, Induction
<1>4. ASSUME NEW e \in d..Len(s) PROVE Carry(k + 1, s, e)
  <2>1. e - d \in T /\ d + (e - d) = e /\ e <= Len(s)
    BY <1>3 DEF Sizes
  <2>2. QED
    BY <2>1 DEF T
<1>5. QED
  BY <1>4

(* If the digits after d are at their ends, the next number starts a block *)
(* of d.                                                                   *)
AtEnds(k, s, d) == \A e \in DOMAIN s : d < e => Digit(k, s, e) + 1 = s[e]

LEMMA CarryTo ==
  ASSUME NEW s \in Sizes, NEW k \in Nat, NEW d \in 0..Len(s), AtEnds(k, s, d)
  PROVE  Carry(k + 1, s, d)
<1> DEFINE T == {n \in Nat : n <= Len(s) - d => Carry(k + 1, s, Len(s) - n)}
<1>1. 0 \in T
  <2>1. Block(s, Len(s)) = 1 /\ Len(s) - 0 = Len(s) /\ (k + 1) % 1 = 0
    BY BlockStep DEF Sizes
  <2>2. QED
    BY <2>1 DEF Carry
<1>2. ASSUME NEW n \in Nat, n \in T PROVE n + 1 \in T
  <2>1. SUFFICES ASSUME n + 1 <= Len(s) - d PROVE Carry(k + 1, s, Len(s) - (n + 1))
    BY <2>1
  <2>2. /\ Len(s) - n \in 1..Len(s) /\ Len(s) - n \in DOMAIN s /\ d < Len(s) - n
        /\ (Len(s) - n) - 1 = Len(s) - (n + 1) /\ n <= Len(s) - d
    BY <2>1 DEF Sizes
  <2>3. Carry(k + 1, s, Len(s) - n)
    BY <1>2, <2>2
  <2>4. Digit(k, s, Len(s) - n) + 1 = s[Len(s) - n]
    BY <2>2 DEF AtEnds
  <2>5. QED
    BY <2>2, <2>3, <2>4, DigitStep
<1> HIDE DEF T
<1>3. Nat \subseteq T
  BY <1>1, <1>2, Induction
<1>4. Len(s) - d \in T /\ Len(s) - (Len(s) - d) = d
  BY <1>3 DEF Sizes
<1>5. QED
  BY <1>4 DEF T

(* The while loop of FONcArray::write bumps the index of a value up to     *)
(* that of the next one: it walks through the array in row-major order.    *)
LEMMA BumpIsNext ==
  ASSUME var.sizes \in Sizes, NEW k \in Nat, k + 1 < Product(var.sizes)
  PROVE  Bump(IndexOf(k, var.sizes)) = IndexOf(k + 1, var.sizes)
<1> DEFINE s == var.sizes
           Movable == {d \in DOMAIN s : IndexOf(k, s)[d] + 1 # s[d]}
           dim == CHOOSE d \in Movable : \A e \in Movable : e <= d
<1>1. s \in Sizes
  OBVIOUS
<1>2. Bump(IndexOf(k, s)) =
        [d \in DOMAIN IndexOf(k, s) |->
           IF d < dim THEN IndexOf(k, s)[d] ELSE IF d = dim THEN IndexOf(k, s)[d] + 1 ELSE 0]
  <2>1. DOMAIN IndexOf(k, s) = DOMAIN s
    BY <1>1, IndexIs
  <2>2. QED
    BY <2>1 DEF Bump
<1>3. \A d \in DOMAIN s : d \in Movable <=> Digit(k, s, d) + 1 # s[d]
  BY <1>1, IndexIs
<1>4. Movable \subseteq DOMAIN s
  OBVIOUS
<1>5. DOMAIN s = 1..Len(s) /\ Len(s) \in Nat
  BY <1>1 DEF Sizes
<1>6. k + 1 < Product(s)
  OBVIOUS
<1> HIDE DEF s, Movable
<1>7. ~ Carry(k + 1, s, 0)
  <2>1. Block(s, 0) = Product(s) /\ Product(s) \in Nat \ {0}
    BY <1>1, <1>5, BlockStep
  <2>2. (Product(s) * 0 + (k + 1)) % Product(s) = k + 1
    BY <1>6, <2>1, DivisionIs
  <2>3. QED
    BY <2>1, <2>2 DEF Carry
<1>8. Movable # {}
  <2>1. SUFFICES ASSUME Movable = {} PROVE FALSE
    OBVIOUS
  <2>2. AtEnds(k, s, 0)
    BY <2>1, <1>3, <1>5 DEF AtEnds
  <2>3. QED
    BY <2>2, <1>1, <1>5, <1>7, CarryTo, 0 \in 0..Len(s)
<1>9. dim \in Movable /\ \A e \in Movable : e <= dim
  <2>1. Movable \subseteq Nat /\ \A e \in Movable : e <= Len(s)
    BY <1>4, <1>5
  <2>2. \E d \in Movable : \A e \in Movable : e <= d
    BY <1>5, <1>8, <2>1, GreatestNat
  <2>3. QED
    BY <2>2
<1> HIDE DEF dim
<1>10. dim \in 1..Len(s)
  BY <1>4, <1>5, <1>9
<1>11. AtEnds(k, s, dim)
  BY <1>3, <1>5, <1>9, <1>10 DEF AtEnds
<1>12. Carry(k + 1, s, dim)
  BY <1>1, <1>5, <1>10, <1>11, CarryTo
<1>13. ~ Carry(k + 1, s, dim - 1)
  <2>1. Digit(k, s, dim) + 1 # s[dim]
    BY <1>3, <1>5, <1>9, <1>10
  <2>2. QED
    BY <2>1, <1>1, <1>10, DigitStep
<1>14. ASSUME NEW d \in 1..Len(s)
       PROVE  Digit(k + 1, s, d) =
                IF d < dim THEN Digit(k, s, d) ELSE IF d = dim THEN Digit(k, s, d) + 1 ELSE 0
  <2>1. CASE d < dim
    <3>1. ~ Carry(k + 1, s, d)
      <4>1. SUFFICES ASSUME Carry(k + 1, s, d) PROVE FALSE
        OBVIOUS
      <4>2. dim - 1 \in d..Len(s) /\ d \in 0..Len(s)
        BY <2>1, <1>5, <1>10
      <4>3. QED
        BY <4>1, <4>2, <1>1, <1>13, CarryAfter
    <3>2. QED
      BY <3>1, <2>1, <1>1, DigitStep
  <2>2. CASE d = dim
    <3>1. Digit(k, s, dim) + 1 # s[dim]
      BY <1>3, <1>5, <1>9, <1>10
    <3>2. QED
      BY <2>2, <3>1, <1>1, <1>12, DigitStep
  <2>3. CASE d > dim
    <3>1. Digit(k, s, d) + 1 = s[d] /\ d \in dim..Len(s)
      BY <2>3, <1>5, <1>10, <1>11 DEF AtEnds
    <3>2. Carry(k + 1, s, d)
      BY <3>1, <1>1, <1>5, <1>10, <1>12, CarryAfter
    <3>3. QED
      BY <2>3, <3>1, <3>2, <1>1, <1>10, DigitStep
  <2>4. QED
    BY <2>1, <2>2, <2>3, <1>10
<1>15. IndexOf(k + 1, s) = [d \in DOMAIN s |-> Digit(k + 1, s, d)]
  BY DEF IndexOf, Digit, Block
<1>16. DOMAIN IndexOf(k, s) = DOMAIN s /\ \A d \in DOMAIN s : IndexOf(k, s)[d] = Digit(k, s, d)
  BY <1>1, IndexIs
<1>17. Bump(IndexOf(k, s)) = IndexOf(k + 1, s)
  BY <1>2, <1>5, <1>14, <1>15, <1>16
<1>18. QED
  BY <1>17 DEF s

(* No two values of an array have the same index.                          *)
LEMMA IndexInjective ==
  ASSUME NEW s \in Sizes, NEW j \in 0..(Product(s) - 1), NEW k \in 0..(Product(s) - 1),
         IndexOf(j, s) = IndexOf(k, s)
  PROVE  j = k
<1> DEFINE T == {n \in Nat : n <= Len(s) => j \div Block(s, n) = k \div Block(s, n)}
<1>0. j \in Nat /\ k \in Nat /\ Len(s) \in Nat
  BY DEF Sizes
<1>1. 0 \in T
  <2>1. Block(s, 0) = Product(s) /\ Product(s) \in Nat \ {0}
    BY <1>0, BlockStep
  <2>2. \A i \in 0..(Product(s) - 1) : (Product(s) * 0 + i) \div Product(s) = 0
    BY <2>1, DivisionIs
  <2>3. j \div Product(s) = 0 /\ k \div Product(s) = 0
    BY <2>1, <2>2
  <2>4. QED
    BY <2>1, <2>3
<1>2. ASSUME NEW n \in Nat, n \in T PROVE n + 1 \in T
  <2>1. SUFFICES ASSUME n + 1 <= Len(s)
                 PROVE  j \div Block(s, n + 1) = k \div Block(s, n + 1)
    BY <2>1
  <2> DEFINE a == s[n + 1]  b == Block(s, n + 1)
  <2>2. n + 1 \in 1..Len(s) /\ n + 1 \in DOMAIN s /\ n <= Len(s) /\ (n + 1) - 1 = n
    BY <1>0, <2>1 DEF Sizes
  <2>3. a \in Nat \ {0} /\ b \in Nat \ {0} /\ Block(s, n) = a * b
    BY <2>2, BlockStep DEF Sizes
  <2>4. j \div Block(s, n) = k \div Block(s, n)
    BY <1>2, <2>2
  <2>5. (j \div b) % a = (k \div b) % a
    BY <1>0, <2>2, IndexIs DEF Digit
  <2> HIDE DEF a, b
  <2>6. (j \div b) \div a = (k \div b) \div a
    <3>1. j \div (a * b) = (j \div b) \div a /\ k \div (a * b) = (k \div b) \div a
      BY <1>0, <2>3, DivisionTwice
    <3>2. QED
      BY <3>1, <2>3, <2>4
  <2>7. j \div b \in Int /\ k \div b \in Int
    BY <1>0, <2>3, Division
  <2>8. /\ j \div b = a * ((j \div b) \div a) + ((j \div b) % a)
        /\ k \div b = a * ((k \div b) \div a) + ((k \div b) % a)
    BY <2>3, <2>7, Division
  <2>9. j \div b = k \div b
    BY <2>5, <2>6, <2>8
  <2>10. QED
    BY <2>9 DEF b
<1> HIDE DEF T
<1>3. Len(s) \in T
  BY <1>0, <1>1, <1>2, Induction
<1>4. j \div 1 = k \div 1
  BY <1>0, <1>3, BlockStep DEF T
<1>5. QED
  BY <1>0, <1>4

---------------------------------------------------------------------------
(* The configuration.                                                      *)

(* Requests are served while the module is loaded, with the keys as they   *)
(* were read then, but for the directory, which may be an earlier one.     *)
LoadedInv ==
  /\ module = "in" => \E dir : conf = Configured(dir)
  /\ transmitters \subseteq Versions
  /\ transmitters # {} => module = "in"
  /\ pc # "idle" => module = "in"

(* Steps that are not of the module leave its variables alone, but for the *)
(* informational response, which Convert forgets.                          *)
Unmanaged == UNCHANGED <<module, keys, conf, handler, transmitters, formats>>

LEMMA Steps ==
  ASSUME Next PROVE Manage \/ Unmanaged
BY Zenon DEF Next, Unmanaged, Convert, Create, Defined, DefineArray, DefineString, DefineByte,
   DefineShort, DefineInt, DefineFloat, DefineDouble, Written, PutOne, PutText, WriteByte,
   WriteShort, WriteInt, WriteFloat, WriteDouble, WriteString, WriteNumbers, WriteElement,
   Fail, Proceed, Over, vars, module_vars

(* How the module may have been asked about itself.                        *)
LEMMA ManageSteps ==
  ASSUME Manage
  PROVE  \/ Initialize \/ InitializeFails \/ Terminate
         \/ /\ UNCHANGED <<module, keys, conf, handler, transmitters, formats>>
            /\ \E told \in {"cast error", "docs.opendap.org", keys.Reference, "version"} :
                 info' = told
BY DEF Manage, build_help, build_version, Answer

LEMMA LoadedInit ==
  Init => LoadedInv
BY DEF Init, ModuleInit, LoadedInv

LEMMA LoadedStep ==
  ASSUME LoadedInv, [Next]_vars PROVE LoadedInv'
<1>1. CASE Initialize /\ pc' = pc
  <2>1. PICK dir \in TempDirs \ {"throws"} : conf' = Configured(dir)
    BY <1>1 DEF Initialize
  <2>2. keys' = keys /\ module' = "in" /\ transmitters' = Versions
    BY <1>1 DEF Initialize
  <2>3. conf' = Configured(dir)'
    BY <2>1, <2>2 DEF Configured
  <2>4. QED
    BY <1>1, <2>2, <2>3 DEF LoadedInv
<1>2. CASE (InitializeFails \/ Terminate) /\ pc = "idle" /\ pc' = pc
  <2>1. transmitters' = {} /\ module' # "in"
    <3>1. CASE InitializeFails
      BY <3>1 DEF InitializeFails, LoadedInv
    <3>2. CASE Terminate
      <4>1. transmitters' = transmitters \ Versions /\ module' = "out"
        BY <3>2 DEF Terminate
      <4>2. transmitters \subseteq Versions
        BY DEF LoadedInv
      <4>3. QED
        BY <4>1, <4>2
    <3>3. QED
      BY <1>2, <3>1, <3>2
  <2>2. QED
    BY <1>2, <2>1 DEF LoadedInv
<1>3. CASE Unmanaged /\ (pc' = "idle" \/ pc # "idle" \/ transmitters # {})
  <2>1. \A dir : Configured(dir)' = Configured(dir)
    BY <1>3 DEF Unmanaged, Configured
  <2>2. QED
    BY <1>3, <2>1 DEF LoadedInv, Unmanaged
<1>4. CASE Manage
  BY <1>1, <1>2, <1>3, <1>4, ManageSteps DEF Manage, Unmanaged
<1>5. CASE UNCHANGED vars
  BY <1>3, <1>5 DEF vars, module_vars, Unmanaged
<1>6. CASE Next /\ ~Manage
  <2>1. Unmanaged
    BY <1>6, Steps
  <2>2. pc' = "idle" \/ pc # "idle" \/ transmitters # {}
    BY Zenon, <1>6 DEF Next, Convert, Create, Defined, DefineArray, DefineString, DefineByte,
       DefineShort, DefineInt, DefineFloat, DefineDouble, PutOne, PutText, WriteByte, WriteShort,
       WriteInt, WriteFloat, WriteDouble, WriteString, WriteNumbers, WriteElement, Fail, Proceed,
       Over, vars
  <2>3. QED
    BY <1>3, <2>1, <2>2
<1>7. QED
  BY <1>4, <1>5, <1>6

---------------------------------------------------------------------------
(* Storage.                                                                *)

(* What nc_create was given.  The configuration does not change while a    *)
(* request is under way.                                                   *)
ModeIs ==
  mode = IF returnAs = "netcdf" THEN {}
         ELSE {"NC_NETCDF4"} \cup (IF conf.classic_model THEN {"NC_CLASSIC_MODEL"} ELSE {})
StorageIs ==
  storage = IF class = "FONcArray" /\ isNetCDF4
            THEN [chunking |-> IF conf.chunk_size = 0 THEN "contiguous" ELSE "chunked",
                  deflate |-> conf.use_compression]
            ELSE NoStorage
StorageInv ==
  /\ returnAs \in Versions /\ version \in {"", returnAs}
  /\ pc \in {"define", "write"} => ModeIs
  /\ pc = "write" => StorageIs

LEMMA StorageStep ==
  ASSUME StorageInv, [Next]_vars PROVE StorageInv'
<1>1. CASE Manage
  BY <1>1 DEF StorageInv, Manage, made
<1>2. ASSUME NEW v \in Variables, NEW as \in Versions, NEW top \in BOOLEAN, Convert(v, as, top)
      PROVE  StorageInv'
  BY <1>2 DEF StorageInv, Convert
<1>3. CASE Create
  BY <1>3 DEF StorageInv, Create, ModeIs, made, module_vars
<1>4. ASSUME NEW type, NEW how, Defined(type, how),
             how = IF class = "FONcArray" /\ isNetCDF4
                   THEN [chunking |-> IF conf.chunk_size = 0 THEN "contiguous" ELSE "chunked",
                         deflate |-> conf.use_compression]
                   ELSE NoStorage
      PROVE  StorageInv'
  BY <1>4 DEF StorageInv, Defined, ModeIs, StorageIs, isNetCDF4, made, module_vars
<1>5. CASE DefineArray
  BY <1>4, <1>5 DEF DefineArray
<1>6. CASE DefineString \/ DefineByte \/ DefineShort \/ DefineInt \/ DefineFloat \/ DefineDouble
  BY <1>4, <1>6 DEF DefineString, DefineByte, DefineShort, DefineInt, DefineFloat, DefineDouble
<1>7. CASE Written
  BY <1>7 DEF StorageInv, Written, made, module_vars
<1>8. CASE pc = "write" /\ UNCHANGED <<pc, made, mode, nctype, storage, module_vars>>
  BY <1>8 DEF StorageInv, ModeIs, StorageIs, isNetCDF4, made, module_vars
<1>9. CASE Fail
  BY <1>9 DEF StorageInv, Fail, made, module_vars
<1>10. CASE Proceed
  BY <1>10 DEF StorageInv, Proceed, module_vars
<1>11. CASE UNCHANGED vars
  BY <1>11 DEF StorageInv, ModeIs, StorageIs, isNetCDF4, made, vars, module_vars
<1>12. QED
  BY Zenon, <1>1, <1>2, <1>3, <1>5, <1>6, <1>7, <1>8, <1>9, <1>10, <1>11
  DEF Next, WriteByte, WriteShort, WriteInt, WriteFloat, WriteDouble, PutOne, PutText,
      WriteString, WriteNumbers, WriteElement, Over

(* Chunks and compression are asked of netCDF-4 files only, whichever      *)
(* object asks; a top-level array of such a file is compressed unless      *)
(* FONc.UseCompression said otherwise when the module was last loaded,     *)
(* however often it was (FONcArray::define, FONcTransform::transform, the  *)
(* constructor of FONcRequestHandler).                                     *)
THEOREM StorageIsAllowed == Spec => []StorageAllowed
<1>1. Init => StorageInv
  BY DEF Init, StorageInv, Versions
<1>2. StorageInv /\ [Next]_vars => StorageInv'
  BY StorageStep
<1>3. LoadedInv /\ StorageInv => StorageAllowed
  <2>1. SUFFICES ASSUME LoadedInv, StorageInv, pc = "write" PROVE StorageAllowed
    BY DEF StorageAllowed
  <2>2. /\ returnAs = "netcdf" => mode = {}
        /\ returnAs = "netcdf-4" => "NC_NETCDF4" \in mode
        /\ version \in {"", returnAs} /\ returnAs \in {"netcdf", "netcdf-4"}
    <3>1. returnAs \in {"netcdf", "netcdf-4"} /\ version \in {"", returnAs} /\ ModeIs
      BY <2>1 DEF StorageInv, Versions
    <3>2. CASE returnAs = "netcdf"
      <4>1. mode = {}
        BY <3>1, <3>2 DEF ModeIs
      <4>2. QED
        BY <3>1, <3>2, <4>1
    <3>3. CASE returnAs # "netcdf"
      BY <3>1, <3>3 DEF ModeIs
    <3>4. QED
      BY <3>2, <3>3
  <2>3. CASE class = "FONcArray" /\ version = "netcdf-4"
    <3>1. storage = [chunking |-> IF conf.chunk_size = 0 THEN "contiguous" ELSE "chunked",
                     deflate |-> conf.use_compression]
      BY <2>1, <2>3 DEF StorageInv, StorageIs, isNetCDF4
    <3>2. PICK dir : conf = Configured(dir)
      BY <2>1 DEF LoadedInv
    <3>3. conf.use_compression = read_bool(keys.UseCompression, TRUE)
      BY <3>2 DEF Configured
    <3>4. storage.deflate = conf.use_compression
      BY <3>1
    <3>5. storage.deflate <=> keys.UseCompression \in {"absent", "true", "yes"}
      BY <3>3, <3>4 DEF read_bool
    <3>6. QED
      BY <2>2, <2>3, <3>5 DEF StorageAllowed
  <2>4. CASE ~ (class = "FONcArray" /\ version = "netcdf-4")
    <3>1. storage = NoStorage
      BY <2>1, <2>4 DEF StorageInv, StorageIs, isNetCDF4
    <3>2. QED
      BY <2>2, <2>4, <3>1 DEF StorageAllowed
  <2>5. QED
    BY <2>3, <2>4
<1>4. Init => LoadedInv
  BY LoadedInit
<1>5. LoadedInv /\ [Next]_vars => LoadedInv'
  BY LoadedStep
<1>6. QED
  BY <1>1, <1>2, <1>3, <1>4, <1>5, PTL DEF Spec

---------------------------------------------------------------------------
(* The values.                                                             *)

Total == Product(var.sizes)
FileType(v) == IF v.kind = "Array" THEN get_nc_type(v.type) ELSE scalar_type(v.type)

(* What becomes of the k-th value.                                         *)
Cell(k) ==
  IF class = "FONcByte" THEN Signed(var.data[k], ByteMax)
  ELSE IF class = "FONcShort" THEN Signed(var.data[k], ShortMax)
  ELSE IF class = "FONcInt" THEN Signed(var.data[k], IntMax)
  ELSE IF class = "FONcArray" THEN ArrayValue(var.type, var.data[k])
  ELSE var.data[k]

(* The first n values are in the file, each in its place.                  *)
Filled(n) ==
  /\ DOMAIN cells = {IndexOf(k, var.sizes) : k \in 0..(n - 1)}
  /\ \A k \in 0..(n - 1) : cells[IndexOf(k, var.sizes)] = Cell(k + 1)

NothingYet == start = << >> /\ element = 0 /\ cells = << >> /\ nctype = "NAT"
Asked ==
  /\ var \in Variables /\ class \in Classes /\ Made(var, class)
  /\ chunksizes = IF var.kind = "Array" THEN Chunks(var) ELSE << >>
Somewhere == \E k \in 0..(Total - 1) : start = IndexOf(k, var.sizes)

(* Between requests nothing is left; while one is under way the variable   *)
(* is one of those asked for.  The strings that precede the loop's index   *)
(* are in the file, and after the loop all values are.                     *)
ValuesInv ==
  /\ pc \in {"idle", "create", "define", "write", "done", "failed"}
  /\ pc = "idle" => var = NoVariable /\ class = "FONcByte" /\ chunksizes = << >>
  /\ pc # "idle" => Asked
  /\ pc \in {"idle", "create", "define"} => NothingYet
  /\ pc \in {"write", "done"} => nctype = FileType(var) /\ nctype # "NAT"
  /\ pc = "write" => /\ element \in 0..(Total - 1) /\ start = IndexOf(element, var.sizes)
                     /\ Filled(element)
                     /\ nctype # "CHAR" => element = 0
  /\ pc = "done" => element \in 0..Total /\ Somewhere /\ Filled(Total)
  /\ pc = "failed" => /\ element \in 0..Total /\ Filled(element)
                      /\ start = << >> \/ Somewhere

(* The class says what the variable is.                                    *)
LEMMA ClassIs ==
  ASSUME NEW v, IsVariable(v), NEW c \in Classes, Made(v, c)
  PROVE  /\ v.kind = "Array" <=> c = "FONcArray"
         /\ c = "FONcByte" => v.type = "Byte"
         /\ c = "FONcShort" => v.type \in {"Int16", "UInt16"}
         /\ c = "FONcInt" => v.type \in {"Int32", "UInt32"}
         /\ c = "FONcFloat" => v.type = "Float32"
         /\ c = "FONcDouble" => v.type = "Float64"
         /\ c = "FONcStr" => v.type \in {"String", "Url"}
BY DEF IsVariable, Made, Classes, FONcByte, FONcShort, FONcInt, FONcFloat, FONcDouble,
   FONcStr, FONcArray

LEMMA SizesAre ==
  ASSUME LegalVariables, NEW v \in Variables
  PROVE  /\ v.sizes \in Sizes /\ Product(v.sizes) \in Nat \ {0}
         /\ DOMAIN v.data = 1..Product(v.sizes)
         /\ v.kind = "Scalar" => v.sizes = << >> /\ Product(v.sizes) = 1
<1>1. v.sizes \in Sizes /\ IsVariable(v) /\ Len(v.data) = Product(v.sizes)
  BY DEF LegalVariables, IsVariable, Sizes
<1>2. Product(v.sizes) \in Nat \ {0}
  BY <1>1, UptoExists, ProductIs
<1>3. DOMAIN v.data = 1..Product(v.sizes)
  <2>1. CASE v.type \in NumTypes
    <3>1. v.data \in Seq(Int)
      BY <1>1, <2>1 DEF IsVariable
    <3>2. QED
      BY <1>1, <3>1
  <2>2. CASE v.type \notin NumTypes
    <3>1. v.data \in Seq(Text)
      BY <1>1, <2>2 DEF IsVariable
    <3>2. QED
      BY <1>1, <3>1
  <2>3. QED
    BY <2>1, <2>2
<1>4. ASSUME v.kind = "Scalar" PROVE v.sizes = << >> /\ Product(v.sizes) = 1
  <2>1. v.sizes = << >>
    BY <1>4 DEF LegalVariables
  <2>2. Len(v.sizes) = 0
    BY <2>1
  <2>3. Block(v.sizes, Len(v.sizes)) = 1 /\ Block(v.sizes, 0) = Product(v.sizes)
    BY <1>1, BlockStep
  <2>4. QED
    BY <2>1, <2>2, <2>3
<1>5. QED
  BY <1>1, <1>2, <1>3, <1>4

LEMMA NoneFilled ==
  ASSUME cells = << >> PROVE Filled(0)
BY DEF Filled

---------------------------------------------------------------------------
(* Every step keeps the invariant.                                         *)

LEMMA ValuesConvert ==
  ASSUME ValuesInv, NEW v \in Variables, NEW as \in Versions, NEW top \in BOOLEAN,
         Convert(v, as, top)
  PROVE  ValuesInv'
<1>1. Asked'
  BY DEF Convert, Asked
<1>2. pc' = "create" /\ NothingYet'
  BY DEF Convert, ValuesInv, NothingYet
<1>3. QED
  BY <1>1, <1>2 DEF ValuesInv

LEMMA ValuesDefine ==
  ASSUME LegalVariables, ValuesInv, NEW type, NEW how, Defined(type, how),
         type = FileType(var), type # "NAT"
  PROVE  ValuesInv'
<1>1. pc = "define" /\ Asked /\ NothingYet
  BY DEF Defined, ValuesInv
<1>2. /\ pc' = "write" /\ nctype' = FileType(var) /\ nctype' # "NAT"
      /\ var' = var /\ class' = class /\ element' = 0 /\ cells' = << >>
      /\ chunksizes' = chunksizes /\ start' = [d \in DOMAIN var.sizes |-> 0]
  BY <1>1 DEF Defined, NothingYet, made
<1>3. /\ var.sizes \in Sizes /\ Total \in Nat \ {0}
  BY <1>1, SizesAre DEF Asked, Total
<1>4. start' = IndexOf(0, var.sizes)
  BY <1>2, <1>3, IndexZero
<1>5. Filled(0)'
  BY <1>2 DEF Filled
<1>6. Asked'
  BY <1>1, <1>2 DEF Asked
<1>7. Total' = Total /\ FileType(var)' = FileType(var)
  BY <1>2 DEF Total, FileType
<1>8. element' \in 0..(Total' - 1)
  BY <1>2, <1>3, <1>7
<1>9. QED
  BY <1>2, <1>4, <1>5, <1>6, <1>7, <1>8 DEF ValuesInv

LEMMA ValuesDefines ==
  ASSUME LegalVariables, ValuesInv,
         DefineArray \/ DefineString \/ DefineByte \/ DefineShort \/ DefineInt \/ DefineFloat
           \/ DefineDouble
  PROVE  ValuesInv'
<1>1. pc = "define" /\ Asked
  BY DEF ValuesInv, Defined, DefineArray, DefineString, DefineByte, DefineShort, DefineInt,
         DefineFloat, DefineDouble
<1>2. IsVariable(var)
  BY <1>1 DEF Asked, LegalVariables
<1>3. /\ class = "FONcArray" => FileType(var) = get_nc_type(var.type)
      /\ class = "FONcByte" => FileType(var) = "BYTE"
      /\ class = "FONcShort" => FileType(var) = "SHORT"
      /\ class = "FONcInt" => FileType(var) = "INT"
      /\ class = "FONcFloat" => FileType(var) = "FLOAT"
      /\ class = "FONcDouble" => FileType(var) = "DOUBLE"
      /\ class = "FONcStr" => FileType(var) = "CHAR"
  BY <1>1, <1>2, ClassIs DEF Asked, FileType, scalar_type
<1>4. QED
  BY <1>3, ValuesDefine DEF DefineArray, DefineString, DefineByte, DefineShort, DefineInt,
     DefineFloat, DefineDouble

(* A simple variable.                                                      *)
LEMMA ValuesPutOne ==
  ASSUME LegalVariables, ValuesInv, class # "FONcArray", PutOne(Cell(1))
  PROVE  ValuesInv'
<1>1. /\ pc = "write" /\ Asked /\ nctype = FileType(var) /\ nctype # "NAT"
      /\ element \in 0..(Total - 1) /\ start = IndexOf(element, var.sizes)
  BY DEF PutOne, ValuesInv
<1>2. IsVariable(var) /\ var.kind = "Scalar"
  BY <1>1, ClassIs DEF Asked, LegalVariables, IsVariable
<1>3. var.sizes = << >> /\ Total = 1 /\ << >> \in Sizes
  BY <1>1, <1>2, SizesAre DEF Asked, Total
<1>4. IndexOf(0, << >>) = << >>
  BY <1>3, IndexZero
<1>5. /\ pc' = "done" /\ nctype' = nctype /\ var' = var /\ class' = class
      /\ element' = element /\ start' = start /\ chunksizes' = chunksizes
      /\ cells' = [i \in {<< >>} |-> Cell(1)]
  BY DEF PutOne, Written, made
<1>6. Asked' /\ Total' = Total /\ FileType(var)' = FileType(var) /\ Cell(1)' = Cell(1)
  BY <1>1, <1>5 DEF Asked, Total, FileType, Cell
<1>7. Filled(Total)'
  <2>1. 0..(Total - 1) = {0}
    BY <1>3
  <2>2. DOMAIN cells' = {IndexOf(k, var.sizes) : k \in 0..(Total - 1)}
    BY <1>3, <1>4, <1>5, <2>1
  <2>3. ASSUME NEW k \in 0..(Total - 1) PROVE cells'[IndexOf(k, var.sizes)] = Cell(k + 1)'
    <3>1. k = 0
      BY <2>1
    <3>2. cells'[<< >>] = Cell(1)
      BY <1>5
    <3>3. QED
      BY <1>3, <1>4, <1>6, <3>1, <3>2
  <2>4. QED
    BY <2>2, <2>3, <1>5, <1>6 DEF Filled
<1>8. Somewhere'
  BY <1>1, <1>5, <1>6 DEF Somewhere
<1>9. QED
  BY <1>1, <1>3, <1>5, <1>6, <1>7, <1>8 DEF ValuesInv

LEMMA ValuesScalars ==
  ASSUME LegalVariables, ValuesInv,
         WriteByte \/ WriteShort \/ WriteInt \/ WriteFloat \/ WriteDouble
  PROVE  ValuesInv'
<1>1. class # "FONcArray" /\ PutOne(Cell(1))
  BY DEF WriteByte, WriteShort, WriteInt, WriteFloat, WriteDouble, Cell
<1>2. QED
  BY <1>1, ValuesPutOne

(* All the numbers of an array.                                            *)
LEMMA ValuesNumbers ==
  ASSUME LegalVariables, ValuesInv, WriteNumbers
  PROVE  ValuesInv'
<1>1. /\ pc = "write" /\ Asked /\ nctype = FileType(var) /\ nctype # "NAT"
      /\ element \in 0..(Total - 1) /\ start = IndexOf(element, var.sizes)
      /\ class = "FONcArray"
  BY DEF WriteNumbers, ValuesInv
<1>2. /\ var.sizes \in Sizes /\ Total \in Nat \ {0} /\ DOMAIN var.data = 1..Total
  BY <1>1, SizesAre DEF Asked, Total
<1>3. /\ pc' = "done" /\ nctype' = nctype /\ var' = var /\ class' = class
      /\ element' = element /\ start' = start /\ chunksizes' = chunksizes
  BY DEF WriteNumbers, Written, made
<1>4. Asked' /\ Total' = Total /\ FileType(var)' = FileType(var)
  BY <1>1, <1>3 DEF Asked, Total, FileType
<1> DEFINE Picked(i) == CHOOSE j \in DOMAIN var.data : IndexOf(j - 1, var.sizes) = i
<1>5. cells' = [i \in {IndexOf(k - 1, var.sizes) : k \in DOMAIN var.data} |->
                  ArrayValue(var.type, var.data[Picked(i)])]
  BY DEF WriteNumbers
<1>6. ASSUME NEW k \in 1..Total PROVE Picked(IndexOf(k - 1, var.sizes)) = k
  <2> DEFINE i == IndexOf(k - 1, var.sizes)  j == Picked(i)
  <2>1. j \in 1..Total /\ IndexOf(j - 1, var.sizes) = i
    BY <1>2
  <2> HIDE DEF j
  <2>2. j - 1 \in 0..(Total - 1) /\ k - 1 \in 0..(Total - 1)
    BY <1>2, <2>1
  <2>3. j - 1 = k - 1
    BY <1>2, <2>1, <2>2, IndexInjective DEF Total
  <2>4. QED
    BY <2>1, <2>3 DEF j
<1> HIDE DEF Picked
<1>7. Filled(Total)'
  <2>1. DOMAIN cells' = {IndexOf(k, var.sizes) : k \in 0..(Total - 1)}
    <3>1. \A k \in 1..Total : k - 1 \in 0..(Total - 1)
      BY <1>2
    <3>2. \A k \in 0..(Total - 1) : k + 1 \in 1..Total /\ (k + 1) - 1 = k
      BY <1>2
    <3>3. QED
      BY <1>2, <1>5, <3>1, <3>2
  <2>2. ASSUME NEW k \in 0..(Total - 1)
        PROVE  cells'[IndexOf(k, var.sizes)] = Cell(k + 1)'
    <3>1. k + 1 \in 1..Total /\ (k + 1) - 1 = k
      BY <1>2
    <3>2. Picked(IndexOf(k, var.sizes)) = k + 1
      BY <1>6, <3>1
    <3>3. cells'[IndexOf(k, var.sizes)] = ArrayValue(var.type, var.data[k + 1])
      BY <1>2, <1>5, <3>1, <3>2
    <3>4. QED
      BY <1>1, <1>3, <3>3 DEF Cell
  <2>3. QED
    BY <2>1, <2>2, <1>3, <1>4 DEF Filled
<1>8. Somewhere'
  BY <1>1, <1>3, <1>4 DEF Somewhere
<1>9. QED
  BY <1>1, <1>2, <1>3, <1>4, <1>7, <1>8 DEF ValuesInv

(* A string.                                                               *)
LEMMA StringFilled ==
  ASSUME LegalVariables, ValuesInv, PutText, var' = var, class' = class,
         class \in {"FONcStr", "FONcArray"}
  PROVE  Filled(element)'
<1>1. /\ pc = "write" /\ Asked /\ nctype = FileType(var) /\ nctype = "CHAR"
      /\ element \in 0..(Total - 1) /\ start = IndexOf(element, var.sizes)
      /\ Filled(element)
  BY DEF PutText, ValuesInv
<1>2. /\ var.sizes \in Sizes /\ Total \in Nat \ {0} /\ DOMAIN var.data = 1..Total
  BY <1>1, SizesAre DEF Asked, Total
<1>3. var.type \notin {"UInt32"}
  <2>1. IsVariable(var)
    BY <1>1 DEF Asked, LegalVariables
  <2>2. CASE class = "FONcStr"
    BY <1>1, <2>1, <2>2, ClassIs DEF Asked
  <2>3. CASE class = "FONcArray"
    BY <1>1, <2>1, <2>3, ClassIs DEF Asked, FileType, get_nc_type
  <2>4. QED
    BY <2>2, <2>3
<1>4. cells' = [i \in DOMAIN cells \cup {start} |->
                  IF i = start THEN var.data[element + 1] ELSE cells[i]]
  BY DEF PutText
<1>5. \A k \in Nat : Cell(k)' = Cell(k) /\ Cell(k) = var.data[k]
  BY <1>3 DEF Cell, ArrayValue
<1> DEFINE n == element + 1
<1>6. n \in 1..Total /\ n - 1 = element /\ 0..(n - 1) = 0..(element - 1) \cup {element}
  BY <1>1, <1>2
<1>7. DOMAIN cells' = {IndexOf(k, var.sizes) : k \in 0..(n - 1)}
  BY <1>1, <1>4, <1>6 DEF Filled
<1>8. ASSUME NEW k \in 0..(n - 1) PROVE cells'[IndexOf(k, var.sizes)] = Cell(k + 1)'
  <2>1. CASE k = element
    <3>1. cells'[start] = var.data[element + 1]
      BY <1>4
    <3>2. QED
      BY <2>1, <3>1, <1>1, <1>5
  <2>2. CASE k # element
    <3>1. k \in 0..(element - 1) /\ k \in 0..(Total - 1) /\ k + 1 \in Nat
      BY <2>2, <1>1, <1>2, <1>6
    <3>2. IndexOf(k, var.sizes) # start
      BY <3>1, <2>2, <1>1, <1>2, IndexInjective DEF Total
    <3>3. IndexOf(k, var.sizes) \in DOMAIN cells /\ cells[IndexOf(k, var.sizes)] = Cell(k + 1)
      BY <3>1, <1>1 DEF Filled
    <3>4. QED
      BY <3>1, <3>2, <3>3, <1>4, <1>5
  <2>3. QED
    BY <2>1, <2>2
<1> HIDE DEF n
<1>9. \A m \in {n} : /\ DOMAIN cells' = {IndexOf(k, var'.sizes) : k \in 0..(m - 1)}
                     /\ \A k \in 0..(m - 1) : cells'[IndexOf(k, var'.sizes)] = Cell(k + 1)'
  BY <1>7, <1>8
<1>10. element' = n
  BY DEF PutText, n
<1>11. QED
  BY <1>9, <1>10 DEF Filled

LEMMA ValuesString ==
  ASSUME LegalVariables, ValuesInv, WriteString
  PROVE  ValuesInv'
<1>1. /\ pc = "write" /\ Asked /\ nctype = FileType(var) /\ nctype # "NAT"
      /\ element \in 0..(Total - 1) /\ start = IndexOf(element, var.sizes)
      /\ class = "FONcStr"
  BY DEF WriteString, PutText, ValuesInv
<1>2. /\ pc' = "done" /\ nctype' = nctype /\ var' = var /\ class' = class
      /\ element' = element + 1 /\ start' = start /\ chunksizes' = chunksizes
  BY DEF WriteString, PutText, Written, made
<1>3. Asked' /\ Total' = Total /\ FileType(var)' = FileType(var)
  BY <1>1, <1>2 DEF Asked, Total, FileType
<1>4. Total = 1
  <2>1. IsVariable(var) /\ var.kind = "Scalar"
    BY <1>1, ClassIs DEF Asked, LegalVariables, IsVariable
  <2>2. QED
    BY <1>1, <2>1, SizesAre DEF Asked, Total
<1>5. element' = Total' /\ element' \in 0..Total'
  BY <1>1, <1>2, <1>3, <1>4
<1>6. Filled(element)'
  BY <1>1, <1>2, StringFilled DEF WriteString
<1>7. Filled(Total)'
  BY <1>5, <1>6 DEF Filled
<1>8. Somewhere'
  BY <1>1, <1>2, <1>3 DEF Somewhere
<1>9. QED
  BY <1>1, <1>2, <1>3, <1>5, <1>7, <1>8 DEF ValuesInv

(* A turn of the loop over the strings of an array: the index is that of   *)
(* the next string, or all are written.                                    *)
LEMMA ValuesElement ==
  ASSUME LegalVariables, ValuesInv, WriteElement
  PROVE  ValuesInv'
<1>1. /\ pc = "write" /\ Asked /\ nctype = FileType(var) /\ nctype # "NAT" /\ nctype = "CHAR"
      /\ element \in 0..(Total - 1) /\ start = IndexOf(element, var.sizes)
      /\ class = "FONcArray"
  BY DEF WriteElement, PutText, ValuesInv
<1>2. /\ nctype' = nctype /\ var' = var /\ class' = class
      /\ element' = element + 1 /\ chunksizes' = chunksizes
  BY DEF WriteElement, PutText, Written, made
<1>3. Asked' /\ Total' = Total /\ FileType(var)' = FileType(var)
  BY <1>1, <1>2 DEF Asked, Total, FileType
<1>4. var.sizes \in Sizes /\ Total \in Nat \ {0}
  BY <1>1, SizesAre DEF Asked, Total
<1>5. Filled(element)'
  BY <1>1, <1>2, StringFilled DEF WriteElement
<1>6. CASE element + 1 < Total
  <2>1. pc' = pc /\ start' = Bump(start)
    BY <1>6 DEF WriteElement, Total
  <2>2. Bump(start) = IndexOf(element + 1, var.sizes)
    BY <1>1, <1>4, <1>6, BumpIsNext DEF Total
  <2>3. element' \in 0..(Total' - 1)
    BY <1>1, <1>2, <1>3, <1>4, <1>6
  <2>4. QED
    BY <1>1, <1>2, <1>3, <1>5, <2>1, <2>2, <2>3 DEF ValuesInv
<1>7. CASE ~ (element + 1 < Total)
  <2>1. pc' = "done" /\ start' = start
    BY <1>7 DEF WriteElement, Total, Written
  <2>2. element' = Total' /\ element' \in 0..Total'
    BY <1>1, <1>2, <1>3, <1>4, <1>7
  <2>3. Filled(Total)'
    BY <1>5, <2>2 DEF Filled
  <2>4. Somewhere'
    BY <1>1, <1>3, <1>2, <2>1 DEF Somewhere
  <2>5. QED
    BY <1>1, <1>2, <1>3, <2>1, <2>2, <2>3, <2>4 DEF ValuesInv
<1>8. QED
  BY <1>6, <1>7

LEMMA ValuesFail ==
  ASSUME LegalVariables, ValuesInv, Fail
  PROVE  ValuesInv'
<1>1. /\ pc' = "failed" /\ var' = var /\ class' = class /\ chunksizes' = chunksizes
      /\ start' = start /\ element' = element /\ cells' = cells /\ Asked
      /\ pc \in {"define", "write"}
  BY DEF Fail, made, ValuesInv
<1>2. Asked' /\ Total' = Total
  BY <1>1 DEF Asked, Total
<1>3. Total \in Nat \ {0}
  BY <1>1, SizesAre DEF Asked, Total
<1>4. Filled(element) /\ element \in 0..Total
  <2>1. CASE pc = "define"
    BY <1>3, <2>1, NoneFilled DEF ValuesInv, NothingYet
  <2>2. CASE pc = "write"
    BY <1>3, <2>2 DEF ValuesInv
  <2>3. QED
    BY <1>1, <2>1, <2>2
<1>5. start = << >> \/ Somewhere
  BY <1>1 DEF ValuesInv, NothingYet, Somewhere
<1>6. Filled(element)' /\ (Somewhere' <=> Somewhere)
  BY <1>1, <1>2, <1>4 DEF Filled, Somewhere, Cell
<1>7. QED
  BY <1>1, <1>2, <1>4, <1>5, <1>6 DEF ValuesInv

LEMMA ValuesSame ==
  ASSUME ValuesInv, UNCHANGED <<made, mode, nctype, storage, start, element, cells>>,
         UNCHANGED pc \/ (pc = "create" /\ pc' = "define")
  PROVE  ValuesInv'
<1>1. /\ var' = var /\ class' = class /\ chunksizes' = chunksizes /\ nctype' = nctype
      /\ start' = start /\ element' = element /\ cells' = cells
  BY DEF made
<1>2. /\ Total' = Total /\ FileType(var)' = FileType(var)
      /\ (Asked' <=> Asked) /\ (NothingYet' <=> NothingYet) /\ (Somewhere' <=> Somewhere)
  BY <1>1 DEF Asked, NothingYet, Somewhere, Total, FileType
<1>3. (Filled(element)' <=> Filled(element)) /\ (Filled(Total)' <=> Filled(Total))
  BY <1>1, <1>2 DEF Filled, Cell
<1>4. QED
  BY <1>1, <1>2, <1>3 DEF ValuesInv

LEMMA ValuesInductive ==
  LegalVariables => (Spec => []ValuesInv)
<1> SUFFICES ASSUME LegalVariables PROVE Spec => []ValuesInv
  OBVIOUS
<1>1. Init => ValuesInv
  BY DEF Init, ValuesInv, NothingYet
<1>2. ValuesInv /\ [Next]_vars => ValuesInv'
  <2>1. SUFFICES ASSUME ValuesInv, [Next]_vars PROVE ValuesInv'
    OBVIOUS
  <2>2. CASE Manage
    BY <2>1, <2>2, ValuesSame DEF Manage
  <2>3. ASSUME NEW v \in Variables, NEW as \in Versions, NEW top \in BOOLEAN, Convert(v, as, top)
        PROVE  ValuesInv'
    BY <2>1, <2>3, ValuesConvert
  <2>4. CASE Create
    <3>1. pc = "create" /\ pc' = "define" /\ UNCHANGED <<made, nctype, storage, start, element, cells>>
      BY <2>4 DEF Create
    <3>2. /\ var' = var /\ class' = class /\ chunksizes' = chunksizes
      BY <3>1 DEF made
    <3>3. Asked' /\ NothingYet'
      BY <2>1, <3>1, <3>2 DEF ValuesInv, Asked, NothingYet
    <3>4. QED
      BY <3>1, <3>3 DEF ValuesInv
  <2>5. CASE Proceed
    BY <2>5 DEF Proceed, ValuesInv, NothingYet
  <2>6. CASE Fail
    BY <2>1, <2>6, ValuesFail
  <2>7. CASE UNCHANGED vars
    BY <2>1, <2>7, ValuesSame DEF vars
  <2>8. QED
    BY Zenon, <2>1, <2>2, <2>3, <2>4, <2>5, <2>6, <2>7, ValuesDefines, ValuesScalars,
       ValuesString, ValuesNumbers, ValuesElement DEF Next, Over
<1>3. QED
  BY <1>1, <1>2, PTL DEF Spec

---------------------------------------------------------------------------
(* What follows from it.                                                   *)

(* The last bits of a number, as a signed one.                             *)
LEMMA SignedSame ==
  ASSUME NEW max \in Nat, NEW v \in (-max - 1)..(2 * max + 1)
  PROVE  /\ Signed(v, max) \in (-max - 1)..max
         /\ (v - Signed(v, max)) % (2 * max + 2) = 0
<1>1. CASE v > max
  <2>1. v - Signed(v, max) = (2 * max + 2) * 1 + 0
    BY <1>1 DEF Signed
  <2>2. ((2 * max + 2) * 1 + 0) % (2 * max + 2) = 0
    BY DivisionIs
  <2>3. QED
    BY <1>1, <2>1, <2>2 DEF Signed
<1>2. CASE v <= max
  <2>1. v - Signed(v, max) = (2 * max + 2) * 0 + 0
    BY <1>2 DEF Signed
  <2>2. ((2 * max + 2) * 0 + 0) % (2 * max + 2) = 0
    BY DivisionIs
  <2>3. QED
    BY <1>2, <2>1, <2>2 DEF Signed
<1>3. QED
  BY <1>1, <1>2

LEMMA SameItself ==
  ASSUME NEW max \in Nat, NEW v \in (-max - 1)..max
  PROVE  (v - v) % (2 * max + 2) = 0
<1>1. Signed(v, max) = v
  BY DEF Signed
<1>2. QED
  BY <1>1, SignedSame

(* Each number fits the type its variable has in the file, or its last     *)
(* bits are kept.                                                          *)
LEMMA CellIsNumber ==
  ASSUME IsVariable(var), class \in Classes, Made(var, class), var.type \in NumTypes,
         nctype = FileType(var), NEW k, var.data[k] \in Numbers(var.type)
  PROVE  SameNumber(nctype, var.data[k], Cell(k))
<1> DEFINE v == var.data[k]
<1>1. /\ ByteMax \in Nat /\ ShortMax \in Nat /\ IntMax \in Nat
      /\ 2 * ByteMax + 1 <= ShortMax /\ 2 * ShortMax + 1 <= IntMax
  BY SizeAssumption
<1>2. var.type \in {"Byte", "Int16", "UInt16", "Int32", "UInt32", "Float32", "Float64"}
  BY DEF NumTypes, DapTypes
<1> HIDE DEF v
<1>3. CASE class = "FONcByte"
  <2>1. nctype = "BYTE" /\ v \in (-ByteMax - 1)..(2 * ByteMax + 1) /\ Cell(k) = Signed(v, ByteMax)
    BY <1>1, <1>3, ClassIs DEF FileType, scalar_type, Numbers, Cell, v
  <2>2. QED
    BY <1>1, <2>1, SignedSame DEF SameNumber, MaxOf, v
<1>4. CASE class = "FONcShort"
  <2>1. nctype = "SHORT" /\ v \in (-ShortMax - 1)..(2 * ShortMax + 1) /\ Cell(k) = Signed(v, ShortMax)
    BY <1>1, <1>4, ClassIs DEF FileType, scalar_type, Numbers, Cell, v
  <2>2. QED
    BY <1>1, <2>1, SignedSame DEF SameNumber, MaxOf, v
<1>5. CASE class = "FONcInt"
  <2>1. nctype = "INT" /\ v \in (-IntMax - 1)..(2 * IntMax + 1) /\ Cell(k) = Signed(v, IntMax)
    BY <1>1, <1>5, ClassIs, SMTT(30) DEF FileType, scalar_type, Numbers, Cell, v
  <2>2. QED
    BY <1>1, <2>1, SignedSame DEF SameNumber, MaxOf, v
<1>6. CASE class \in {"FONcFloat", "FONcDouble"}
  <2>1. nctype \in {"FLOAT", "DOUBLE"} /\ Cell(k) = v
    BY <1>6, ClassIs DEF FileType, scalar_type, Cell, v
  <2>2. QED
    BY <2>1 DEF SameNumber, v
<1>7. CASE class = "FONcArray"
  <2>1. nctype = get_nc_type(var.type) /\ Cell(k) = ArrayValue(var.type, v)
    BY <1>7, ClassIs DEF FileType, Cell, v
  <2>2. CASE var.type \in {"Byte", "Int16"}
    <3>1. nctype = "SHORT" /\ v \in (-ShortMax - 1)..ShortMax /\ Cell(k) = v
      BY <1>1, <2>1, <2>2, SMTT(30) DEF get_nc_type, Numbers, ArrayValue, v
    <3>2. QED
      BY <1>1, <3>1, SameItself DEF SameNumber, MaxOf, v
  <2>3. CASE var.type \in {"UInt16", "Int32"}
    <3>1. nctype = "INT" /\ v \in (-IntMax - 1)..IntMax /\ Cell(k) = v
      BY <1>1, <2>1, <2>3, SMTT(30) DEF get_nc_type, Numbers, ArrayValue, v
    <3>2. QED
      BY <1>1, <3>1, SameItself DEF SameNumber, MaxOf, v
  <2>4. CASE var.type = "UInt32"
    <3>1. nctype = "INT" /\ v \in (-IntMax - 1)..(2 * IntMax + 1) /\ Cell(k) = Signed(v, IntMax)
      BY <1>1, <2>1, <2>4 DEF get_nc_type, Numbers, ArrayValue, v
    <3>2. QED
      BY <1>1, <3>1, SignedSame DEF SameNumber, MaxOf, v
  <2>5. CASE var.type \in {"Float32", "Float64"}
    <3>1. nctype \in {"FLOAT", "DOUBLE"} /\ Cell(k) = v
      BY <2>1, <2>5 DEF get_nc_type, ArrayValue
    <3>2. QED
      BY <3>1 DEF SameNumber, v
  <2>6. QED
    BY <1>2, <2>2, <2>3, <2>4, <2>5
<1>8. CASE class = "FONcStr"
  BY <1>8, <1>2, ClassIs
<1>9. QED
  BY <1>3, <1>4, <1>5, <1>6, <1>7, <1>8 DEF Classes

(* Every value of a variable that is written is in its place, in row-major *)
(* order, and is the same number if the type of the file has it: for       *)
(* arrays of any number of dimensions and of any size (the write methods). *)
THEOREM EveryValueKept == Spec => []ValuesKept
<1> SUFFICES ASSUME LegalVariables, LegalNumbers PROVE Spec => []ValuesKept
  BY VariablesAssumption
<1>1. ValuesInv => ValuesKept
  <2>1. SUFFICES ASSUME ValuesInv, pc = "done" PROVE ValuesKept
    BY DEF ValuesKept
  <2>2. /\ Asked /\ nctype = FileType(var) /\ Filled(Total)
    BY <2>1 DEF ValuesInv
  <2>3. /\ Total \in Nat \ {0} /\ DOMAIN var.data = 1..Total /\ IsVariable(var)
    BY <2>2, SizesAre DEF Asked, Total, LegalVariables
  <2>4. \A k \in DOMAIN var.data :
          /\ k - 1 \in 0..(Total - 1) /\ (k - 1) + 1 = k
          /\ cells[IndexOf(k - 1, var.sizes)] = Cell(k)
    <3>1. ASSUME NEW k \in DOMAIN var.data
          PROVE  k - 1 \in 0..(Total - 1) /\ (k - 1) + 1 = k
      BY <2>3
    <3>2. QED
      BY <2>2, <3>1 DEF Filled
  <2>5. DOMAIN cells = {IndexOf(k - 1, var.sizes) : k \in DOMAIN var.data}
    <3>1. \A k \in 0..(Total - 1) : k + 1 \in DOMAIN var.data /\ (k + 1) - 1 = k
      BY <2>3
    <3>2. QED
      BY <2>2, <2>4, <3>1 DEF Filled
  <2>6. ASSUME NEW k \in DOMAIN var.data, var.type \notin NumTypes
        PROVE  Cell(k) = var.data[k]
    <3>1. var.type \notin {"Byte", "Int16", "UInt16", "Int32", "UInt32"}
      BY <2>6 DEF NumTypes, DapTypes
    <3>2. QED
      BY <2>2, <2>3, <3>1, ClassIs DEF Asked, Cell, ArrayValue
  <2>7. ASSUME NEW k \in DOMAIN var.data, var.type \in NumTypes
        PROVE  SameNumber(nctype, var.data[k], Cell(k))
    <3>1. var.data[k] \in Numbers(var.type)
      BY <2>2, <2>7 DEF LegalNumbers, Asked
    <3>2. QED
      BY <2>2, <2>3, <2>7, <3>1, CellIsNumber DEF Asked
  <2>8. ASSUME NEW k \in DOMAIN var.data, var.kind = "Array", var.type # "UInt32"
        PROVE  Cell(k) = var.data[k]
    <3>1. class = "FONcArray"
      BY <2>2, <2>3, <2>8, ClassIs DEF Asked
    <3>2. QED
      BY <2>8, <3>1 DEF Cell, ArrayValue
  <2>9. ASSUME NEW k \in DOMAIN var.data
        PROVE  LET c == cells[IndexOf(k - 1, var.sizes)] IN
               IF var.type \notin NumTypes THEN c = var.data[k]
               ELSE /\ SameNumber(nctype, var.data[k], c)
                    /\ var.kind = "Array" /\ var.type # "UInt32" => c = var.data[k]
    BY <2>4, <2>6, <2>7, <2>8
  <2>10. QED
    BY <2>5, <2>9 DEF ValuesKept
<1>2. QED
  BY <1>1, ValuesInductive, PTL

---------------------------------------------------------------------------
(* Types.                                                                  *)

LEMMA GetNcType ==
  \A t : get_nc_type(t) \in NcTypes
BY DEF get_nc_type, NcTypes

Flags ==
  /\ mode \subseteq {"NC_NETCDF4", "NC_CLASSIC_MODEL"}
  /\ nctype \in NcTypes
  /\ storage \in [chunking : {"none", "contiguous", "chunked"}, deflate : BOOLEAN]

LEMMA ModuleTypes ==
  ASSUME ModuleTypeOK, [Next]_vars PROVE ModuleTypeOK'
<1>1. CASE UNCHANGED module_vars
  BY <1>1 DEF ModuleTypeOK, module_vars
<1>2. ASSUME NEW v \in Variables, NEW as \in Versions, NEW top \in BOOLEAN, Convert(v, as, top)
      PROVE  ModuleTypeOK'
  <2>1. UNCHANGED <<module, keys, conf, handler, transmitters, formats>> /\ info' = "nothing"
    BY <1>2 DEF Convert
  <2>2. QED
    BY <2>1 DEF ModuleTypeOK, Infos
<1>3. CASE Initialize
  <2>1. keys \in KeyFiles /\ conf \in Confs
    BY DEF ModuleTypeOK
  <2> DEFINE Dirs == {"", FONC_TEMP_DIR} \cup {k.Tempdir.dir : k \in KeyFiles}
  <2>2. TempDirs \ {"throws"} \subseteq Dirs
    <3>1. read_string(keys.Tempdir, FONC_TEMP_DIR)
            \subseteq {FONC_TEMP_DIR, keys.Tempdir.dir, "", "throws"}
      BY DEF read_string
    <3>2. conf.temp_dir \in Dirs
      BY <2>1 DEF Confs
    <3>3. QED
      BY <2>1, <3>1, <3>2 DEF TempDirs
  <2>3. conf' \in Confs
    <3>1. PICK dir \in TempDirs \ {"throws"} : conf' = Configured(dir)
      BY <1>3 DEF Initialize
    <3>2. dir \in Dirs
      BY <2>2
    <3>3. read_int(keys.ChunkSize, FONC_CHUNK_SIZE)
            \in {0, FONC_CHUNK_SIZE} \cup {k.ChunkSize.num : k \in KeyFiles}
      BY <2>1 DEF read_int
    <3>4. ASSUME NEW value PROVE read_bool(value, TRUE) \in BOOLEAN
      <4>1. CASE value = "absent" \/ value \in {"true", "yes"}
        BY <4>1 DEF read_bool
      <4>2. CASE value # "absent" /\ value \notin {"true", "yes"}
        BY <4>2 DEF read_bool
      <4>3. QED
        BY <4>1, <4>2
    <3> HIDE DEF Dirs
    <3>5. Configured(dir) \in [temp_dir : Dirs, byte_to_short : BOOLEAN, use_compression : BOOLEAN,
                               chunk_size : {0, FONC_CHUNK_SIZE} \cup {k.ChunkSize.num : k \in KeyFiles},
                               classic_model : BOOLEAN]
      BY <3>2, <3>3, <3>4 DEF Configured
    <3>6. QED
      BY <3>1, <3>5 DEF Confs, Dirs
  <2>4. /\ module' = "in" /\ keys' = keys /\ info' = info /\ handler' = TRUE
        /\ formats' = formats \cup Versions /\ transmitters' = Versions
    BY <1>3 DEF Initialize
  <2>5. QED
    BY <2>3, <2>4 DEF ModuleTypeOK
<1>4. CASE InitializeFails
  BY <1>4 DEF InitializeFails, ModuleTypeOK
<1>5. CASE Terminate
  <2>1. transmitters' \subseteq transmitters /\ handler' = FALSE
    BY <1>5 DEF Terminate
  <2>2. module' = "out" /\ UNCHANGED <<formats, info>> /\ keys' \in KeyFiles
    BY <1>5 DEF Terminate
  <2>3. conf' \in Confs
    <3>1. conf \in Confs
      BY DEF ModuleTypeOK
    <3>2. NoConf \in Confs
      BY DEF NoConf, Confs
    <3>3. QED
      BY <1>5, <3>1, <3>2 DEF Terminate
  <2>4. QED
    BY <2>1, <2>2, <2>3 DEF ModuleTypeOK
<1>6. ASSUME NEW r, build_help(r) \/ build_version(r) PROVE ModuleTypeOK'
  <2>1. UNCHANGED <<module, keys, conf, handler, transmitters, formats>>
    BY <1>6 DEF build_help, build_version, Answer
  <2>2. info' \in {"cast error", "docs.opendap.org", keys.Reference, "version"}
    BY <1>6 DEF build_help, build_version, Answer
  <2>3. keys \in KeyFiles
    BY DEF ModuleTypeOK
  <2>4. info' \in Infos
    BY <2>2, <2>3 DEF Infos
  <2>5. QED
    BY <2>1, <2>4 DEF ModuleTypeOK
<1>7. CASE Manage
  BY <1>3, <1>4, <1>5, <1>6, <1>7 DEF Manage
<1>8. QED
  BY Zenon, <1>1, <1>2, <1>7 DEF Next, vars, Create, Defined, DefineArray, DefineString, DefineByte,
     DefineShort, DefineInt, DefineFloat, DefineDouble, Written, PutOne, PutText, WriteByte,
     WriteShort, WriteInt, WriteFloat, WriteDouble, WriteString, WriteNumbers, WriteElement,
     Fail, Proceed, Over, module_vars

LEMMA FlagTypes ==
  ASSUME ModuleTypeOK, Flags, [Next]_vars PROVE Flags'
<1>1. CASE UNCHANGED <<mode, nctype, storage>>
  BY <1>1 DEF Flags
<1>2. CASE Create
  BY <1>2 DEF Create, Flags
<1>3. CASE Proceed
  BY <1>3 DEF Proceed, Flags, NoStorage, NcTypes
<1>4. ASSUME NEW type \in NcTypes, NEW how, Defined(type, how),
             how \in [chunking : {"none", "contiguous", "chunked"}, deflate : BOOLEAN]
      PROVE  Flags'
  BY <1>4 DEF Defined, Flags
<1>5. CASE DefineArray
  <2>1. conf.use_compression \in BOOLEAN
    <3>1. conf \in Confs
      BY DEF ModuleTypeOK
    <3>2. QED
      BY <3>1 DEF Confs
  <2>2. QED
    BY <1>4, <1>5, <2>1, GetNcType DEF DefineArray, NoStorage
<1>6. CASE DefineString \/ DefineByte \/ DefineShort \/ DefineInt \/ DefineFloat \/ DefineDouble
  BY <1>4, <1>6 DEF DefineString, DefineByte, DefineShort, DefineInt, DefineFloat, DefineDouble,
     NoStorage, NcTypes
<1>7. QED
  BY Zenon, <1>1, <1>2, <1>3, <1>5, <1>6 DEF Next, vars, Manage, Convert, Written, PutOne, PutText,
     WriteByte, WriteShort, WriteInt, WriteFloat, WriteDouble, WriteString, WriteNumbers,
     WriteElement, Fail, Over

LEMMA TypesInductive ==
  Spec => [](ModuleTypeOK /\ Flags)
<1>1. Init => ModuleTypeOK /\ Flags
  <2>1. NoConf \in Confs
    BY DEF NoConf, Confs
  <2>2. ASSUME Init PROVE ModuleTypeOK
    <3>1. /\ module = "out" /\ keys \in KeyFiles /\ conf = NoConf /\ handler = FALSE
          /\ transmitters = {} /\ formats = {} /\ info = "nothing"
      BY <2>2 DEF Init, ModuleInit
    <3>2. info \in Infos
      BY <3>1 DEF Infos
    <3>3. transmitters \subseteq Versions /\ handler \in BOOLEAN
      BY <3>1
    <3>4. QED
      BY <2>1, <3>1, <3>2, <3>3 DEF ModuleTypeOK
  <2>3. ASSUME Init PROVE Flags
    <3>1. mode = {} /\ nctype = "NAT" /\ storage = NoStorage
      BY <2>3 DEF Init
    <3>2. QED
      BY <3>1 DEF Flags, NoStorage, NcTypes
  <2>4. QED
    BY <2>2, <2>3
<1>2. ModuleTypeOK /\ Flags /\ [Next]_vars => (ModuleTypeOK /\ Flags)'
  BY ModuleTypes, FlagTypes
<1>3. QED
  BY <1>1, <1>2, PTL DEF Spec

(* The longest string.                                                     *)
LEMMA MaxLengthIs ==
  ASSUME NEW v, v.data \in Seq(Text)
  PROVE  MaxLength(v) \in Nat \ {0}
<1> DEFINE Bounded(n) == \E m \in Nat : \A k \in 1..n : k <= Len(v.data) => v.data[k].len <= m
           T == {n \in Nat : Bounded(n)}
           L == {0} \cup {v.data[k].len : k \in DOMAIN v.data}
<1>1. \A k \in DOMAIN v.data : v.data[k].len \in Nat
  <2>1. ASSUME NEW k \in DOMAIN v.data PROVE v.data[k].len \in Nat
    <3>1. v.data[k] \in Text
      OBVIOUS
    <3>2. QED
      BY <3>1 DEF Text
  <2>2. QED
    BY <2>1
<1>2. DOMAIN v.data = 1..Len(v.data) /\ Len(v.data) \in Nat
  OBVIOUS
<1>3. 0 \in T
  OBVIOUS
<1>4. ASSUME NEW n \in Nat, n \in T PROVE n + 1 \in T
  <2>1. PICK m \in Nat : \A k \in 1..n : k <= Len(v.data) => v.data[k].len <= m
    BY <1>4
  <2>2. CASE n + 1 <= Len(v.data)
    <3> DEFINE l == v.data[n + 1].len
    <3>1. l \in Nat
      BY <1>1, <1>2, <2>2
    <3>2. \A k \in 1..(n + 1) : k <= Len(v.data) => v.data[k].len <= m + l
      <4>1. SUFFICES ASSUME NEW k \in 1..(n + 1), k <= Len(v.data) PROVE v.data[k].len <= m + l
        OBVIOUS
      <4>2. v.data[k].len \in Nat
        BY <1>1, <1>2, <4>1
      <4>3. CASE k = n + 1
        BY <3>1, <4>3
      <4>4. CASE k # n + 1
        <5>1. v.data[k].len <= m
          BY <2>1, <4>1, <4>4
        <5>2. QED
          BY <3>1, <4>2, <5>1
      <4>5. QED
        BY <4>3, <4>4
    <3>3. m + l \in Nat
      BY <3>1
    <3>4. Bounded(n + 1)
      BY <3>2, <3>3
    <3>5. QED
      BY <3>4, SMTT(30)
  <2>3. CASE ~ (n + 1 <= Len(v.data))
    <3>1. \A k \in 1..(n + 1) : k <= Len(v.data) => k \in 1..n
      BY <1>2, <2>3
    <3>2. Bounded(n + 1)
      BY <2>1, <3>1
    <3>3. QED
      BY <3>2, SMTT(30)
  <2>4. QED
    BY <2>2, <2>3
<1>5. Bounded(Len(v.data))
  <2> HIDE DEF Bounded
  <2>1. Nat \subseteq T
    BY <1>3, <1>4, Induction
  <2>2. QED
    BY <1>2, <2>1
<1>6. PICK m \in Nat : \A k \in DOMAIN v.data : v.data[k].len <= m
  <2> HIDE DEF T, L
  <2>1. PICK m \in Nat : \A k \in 1..Len(v.data) : k <= Len(v.data) => v.data[k].len <= m
    BY <1>5
  <2>2. \A k \in DOMAIN v.data : v.data[k].len <= m
    BY <1>2, <2>1
  <2>3. QED
    BY <2>2
<1>7. L \subseteq Nat /\ L # {} /\ \A l \in L : l <= m
  BY <1>1, <1>6
<1>8. PICK g \in L : \A l \in L : l <= g
  <2> HIDE DEF L
  <2>1. QED
    BY <1>6, <1>7, GreatestNat
<1> DEFINE Greatest(n) == \A k \in DOMAIN v.data : v.data[k].len <= n
<1>9. \E n \in L : Greatest(n)
  BY <1>8
<1> DEFINE longest == CHOOSE n \in L : Greatest(n)
<1>10. longest \in L
  BY <1>9
<1>11. MaxLength(v) = 1 + longest
  BY DEF MaxLength
<1> HIDE DEF L, longest
<1>12. QED
  BY <1>7, <1>10, <1>11

LEMMA ChunksAre ==
  ASSUME NEW v, IsVariable(v)
  PROVE  /\ Chunks(v) \in Seq(1..MAX_CHUNK_SIZE)
         /\ Len(Chunks(v)) = IF get_nc_type(v.type) = "CHAR" THEN Len(v.sizes) + 1 ELSE Len(v.sizes)
         /\ \A d \in 1..Len(v.sizes) : Chunks(v)[d] <= v.sizes[d]
         /\ get_nc_type(v.type) = "CHAR" => Chunks(v)[Len(v.sizes) + 1] <= MaxLength(v)
<1>1. MAX_CHUNK_SIZE \in Nat \ {0}
  BY SizeAssumption
<1>2. \A n \in Nat \ {0} : Chunk(n) \in 1..MAX_CHUNK_SIZE /\ Chunk(n) <= n
  BY <1>1 DEF Chunk
<1> DEFINE s == v.sizes  c == [d \in DOMAIN s |-> Chunk(s[d])]
<1>3. s \in Seq(Nat \ {0})
  BY DEF IsVariable
<1>4. c \in Seq(1..MAX_CHUNK_SIZE) /\ Len(c) = Len(s) /\ \A d \in 1..Len(s) : c[d] <= s[d]
  <2> HIDE DEF s
  <2>1. \A d \in 1..Len(s) : s[d] \in Nat \ {0}
    BY <1>3
  <2>2. c \in [1..Len(s) -> 1..MAX_CHUNK_SIZE] /\ Len(s) \in Nat
    BY <1>2, <1>3, <2>1
  <2>3. QED
    BY <1>2, <1>3, <2>1, <2>2
<1>5. CASE get_nc_type(v.type) = "CHAR"
  <2>1. v.data \in Seq(Text)
    <3>1. v.type = "String"
      BY <1>5 DEF get_nc_type
    <3>2. QED
      BY <3>1 DEF IsVariable, NumTypes
  <2> DEFINE l == Chunk(MaxLength(v))
  <2>2. l \in 1..MAX_CHUNK_SIZE /\ l <= MaxLength(v)
    BY <1>2, <2>1, MaxLengthIs
  <2>3. Chunks(v) = c \o <<l>>
    BY <1>5 DEF Chunks
  <2> HIDE DEF c, l, s
  <2>4. /\ c \o <<l>> \in Seq(1..MAX_CHUNK_SIZE) /\ Len(c \o <<l>>) = Len(s) + 1
        /\ \A d \in 1..Len(s) : (c \o <<l>>)[d] = c[d]
        /\ (c \o <<l>>)[Len(s) + 1] = l
    BY <1>3, <1>4, <2>2
  <2>5. QED
    BY <1>4, <1>5, <2>2, <2>3, <2>4 DEF s
<1>6. CASE get_nc_type(v.type) # "CHAR"
  <2>1. Chunks(v) = c \o << >>
    BY <1>6 DEF Chunks
  <2> HIDE DEF c, s
  <2>2. c \o << >> = c
    BY <1>4
  <2>3. QED
    BY <1>4, <1>6, <2>1, <2>2 DEF s
<1>7. QED
  BY <1>5, <1>6

(* The chunk sizes a netCDF-4 array is defined with: one for each          *)
(* dimension, none larger than it (FONcArray::convert and define).         *)
THEOREM ChunksAlwaysFit == Spec => []ChunksFit
<1> SUFFICES ASSUME LegalVariables, LongEnough PROVE Spec => []ChunksFit
  BY VariablesAssumption
<1>1. Init => StorageInv
  BY DEF Init, StorageInv, Versions
<1>2. StorageInv /\ [Next]_vars => StorageInv'
  BY StorageStep
<1>3. ValuesInv /\ StorageInv => ChunksFit
  <2>1. SUFFICES ASSUME ValuesInv, StorageInv, pc = "write", storage.chunking # "none"
                 PROVE  ChunksFit
    BY DEF ChunksFit
  <2>2. class = "FONcArray" /\ Asked /\ nctype = FileType(var)
    <3>1. StorageIs /\ Asked /\ nctype = FileType(var)
      BY <2>1 DEF ValuesInv, StorageInv
    <3>2. NoStorage.chunking = "none"
      BY DEF NoStorage
    <3>3. QED
      BY <2>1, <3>1, <3>2 DEF StorageIs
  <2>3. IsVariable(var) /\ var.kind = "Array" /\ nctype = get_nc_type(var.type)
    BY <2>2, ClassIs DEF Asked, LegalVariables, FileType
  <2>4. chunksizes = Chunks(var)
    BY <2>2, <2>3 DEF Asked
  <2> DEFINE s == var.sizes  n == var.lendim
  <2>5. s \in Seq(Nat \ {0}) /\ n \in Nat
    BY <2>3 DEF IsVariable
  <2>6. CASE nctype = "CHAR"
    <3>1. var.type = "String"
      BY <2>3, <2>6 DEF get_nc_type
    <3>2. MaxLength(var) <= n
      BY <2>2, <2>3, <3>1 DEF LongEnough, Asked
    <3>3. MaxLength(var) \in Nat
      <4>1. var.data \in Seq(Text)
        BY <2>3, <3>1 DEF IsVariable, NumTypes
      <4>2. QED
        BY <4>1, MaxLengthIs
    <3>4. /\ chunksizes \in Seq(1..MAX_CHUNK_SIZE) /\ Len(chunksizes) = Len(s) + 1
          /\ \A d \in 1..Len(s) : chunksizes[d] <= s[d]
          /\ chunksizes[Len(s) + 1] <= MaxLength(var)
      BY <2>3, <2>4, <2>6, ChunksAre
    <3> HIDE DEF s, n
    <3>5. Append(s, n)[Len(s) + 1] = n /\ \A d \in 1..Len(s) : Append(s, n)[d] = s[d]
      BY <2>5
    <3>6. Len(Append(s, n)) = Len(s) + 1 /\ DOMAIN Append(s, n) = 1..(Len(s) + 1)
      BY <2>5
    <3>7. chunksizes[Len(s) + 1] \in Nat /\ Len(s) \in Nat
      BY <2>5, <3>4, SizeAssumption
    <3>8. chunksizes[Len(s) + 1] <= n
      BY <2>5, <3>2, <3>3, <3>4, <3>7
    <3>9. \A d \in DOMAIN Append(s, n) : chunksizes[d] <= Append(s, n)[d]
      BY <3>4, <3>5, <3>6, <3>7, <3>8
    <3>10. QED
      BY <2>6, <3>4, <3>6, <3>9 DEF ChunksFit, s, n
  <2>7. CASE nctype # "CHAR"
    BY <2>3, <2>4, <2>5, <2>7, ChunksAre DEF ChunksFit
  <2>8. QED
    BY <2>6, <2>7
<1>4. QED
  BY <1>1, <1>2, <1>3, ValuesInductive, PTL DEF Spec

(* Everything has its type, and an index under way is an index of the      *)
(* variable: the loop of FONcArray::write never leaves the array.          *)
THEOREM TypesAreKept == Spec => []TypeOK
<1> SUFFICES ASSUME LegalVariables PROVE Spec => []TypeOK
  BY VariablesAssumption
<1>1. Init => StorageInv
  BY DEF Init, StorageInv, Versions
<1>2. StorageInv /\ [Next]_vars => StorageInv'
  BY StorageStep
<1>3. ValuesInv /\ StorageInv /\ ModuleTypeOK /\ Flags => TypeOK
  <2>1. SUFFICES ASSUME ValuesInv, StorageInv, ModuleTypeOK, Flags PROVE TypeOK
    OBVIOUS
  <2>2. returnAs \in Versions /\ version \in Versions \cup {""}
    BY <2>1 DEF StorageInv
  <2>3. /\ pc \in {"idle", "create", "define", "write", "done", "failed"}
        /\ mode \subseteq {"NC_NETCDF4", "NC_CLASSIC_MODEL"} /\ nctype \in NcTypes
        /\ storage \in [chunking : {"none", "contiguous", "chunked"}, deflate : BOOLEAN]
    BY <2>1 DEF ValuesInv, Flags
  <2> DEFINE Rest ==
        /\ IsVariable(var) /\ class \in Classes
        /\ chunksizes \in Seq(1..MAX_CHUNK_SIZE)
        /\ element \in 0..Len(var.data)
        /\ pc \in {"write", "done"} => DOMAIN start = DOMAIN var.sizes
        /\ \A d \in DOMAIN start : start[d] \in 0..(var.sizes[d] - 1)
        /\ \A i \in DOMAIN cells : cells[i] \in IF var.type \in NumTypes THEN Int ELSE Text
  <2>4. CASE pc = "idle"
    <3>1. /\ var = NoVariable /\ class = "FONcByte" /\ chunksizes = << >>
          /\ start = << >> /\ element = 0 /\ cells = << >>
      BY <2>1, <2>4 DEF ValuesInv, NothingYet
    <3>2. IsVariable(NoVariable) /\ Len(NoVariable.data) = 0
      BY DEF NoVariable, IsVariable, NumTypes, DapTypes
    <3>3. Rest
      BY <2>4, <3>1, <3>2 DEF Classes
    <3>4. QED
      BY <2>1, <2>2, <2>3, <3>3 DEF TypeOK
  <2>5. CASE pc # "idle"
    <3>1. Asked
      BY <2>1, <2>5 DEF ValuesInv
    <3>2. /\ IsVariable(var) /\ var.sizes \in Sizes /\ Total \in Nat \ {0}
          /\ DOMAIN var.data = 1..Total /\ Len(var.data) = Total
      BY <3>1, SizesAre DEF Asked, Total, LegalVariables
    <3>3. chunksizes \in Seq(1..MAX_CHUNK_SIZE)
      <4>1. Chunks(var) \in Seq(1..MAX_CHUNK_SIZE)
        BY <3>2, ChunksAre
      <4>2. << >> \in Seq(1..MAX_CHUNK_SIZE)
        OBVIOUS
      <4>3. QED
        BY <3>1, <4>1, <4>2 DEF Asked
    <3>4. /\ element \in 0..Total
          /\ (start = << >> /\ pc \notin {"write", "done"}) \/ Somewhere
          /\ \E n \in 0..Total : Filled(n)
      <4>1. CASE pc \in {"create", "define"}
        <5>1. start = << >> /\ element = 0 /\ Filled(0)
          BY <2>1, <4>1, NoneFilled DEF ValuesInv, NothingYet
        <5>2. QED
          BY <3>2, <4>1, <5>1
      <4>2. CASE pc = "write"
        <5>1. element \in 0..(Total - 1) /\ start = IndexOf(element, var.sizes) /\ Filled(element)
          BY <2>1, <4>2 DEF ValuesInv
        <5>2. QED
          BY <3>2, <5>1 DEF Somewhere
      <4>3. CASE pc = "done"
        <5>1. element \in 0..Total /\ Somewhere /\ Filled(Total)
          BY <2>1, <4>3 DEF ValuesInv
        <5>2. QED
          BY <3>2, <5>1
      <4>4. CASE pc = "failed"
        <5>1. element \in 0..Total /\ Filled(element) /\ (start = << >> \/ Somewhere)
          BY <2>1, <4>4 DEF ValuesInv
        <5>2. QED
          BY <4>4, <5>1
      <4>5. QED
        BY <2>3, <2>5, <4>1, <4>2, <4>3, <4>4
    <3>5. /\ pc \in {"write", "done"} => DOMAIN start = DOMAIN var.sizes
          /\ \A d \in DOMAIN start : start[d] \in 0..(var.sizes[d] - 1)
      <4>1. CASE start = << >> /\ pc \notin {"write", "done"}
        BY <4>1
      <4>2. CASE Somewhere
        <5>1. PICK k \in 0..(Total - 1) : start = IndexOf(k, var.sizes)
          BY <4>2 DEF Somewhere
        <5>2. k \in Nat
          BY <3>2
        <5>3. QED
          BY <3>2, <5>1, <5>2, IndexIs
      <4>3. QED
        BY <3>4, <4>1, <4>2
    <3>6. \A k \in 1..Total : Cell(k) \in IF var.type \in NumTypes THEN Int ELSE Text
      <4>1. SUFFICES ASSUME NEW k \in 1..Total
                     PROVE  Cell(k) \in IF var.type \in NumTypes THEN Int ELSE Text
        OBVIOUS
      <4>2. CASE var.type \in NumTypes
        <5>1. var.data \in Seq(Int)
          BY <3>2, <4>2 DEF IsVariable
        <5>2. var.data[k] \in Int
          BY <3>2, <5>1
        <5>3. \A max \in Nat : Signed(var.data[k], max) \in Int
          BY <5>2 DEF Signed
        <5>4. ByteMax \in Nat /\ ShortMax \in Nat /\ IntMax \in Nat
          BY SizeAssumption
        <5>5. Cell(k) \in Int
          BY <5>2, <5>3, <5>4 DEF Cell, ArrayValue
        <5>6. QED
          BY <4>2, <5>5
      <4>3. CASE var.type \notin NumTypes
        <5>1. var.data \in Seq(Text)
          BY <3>2, <4>3 DEF IsVariable
        <5>2. var.data[k] \in Text
          BY <3>2, <5>1
        <5>3. var.type \notin {"Byte", "Int16", "UInt16", "Int32", "UInt32"}
          BY <4>3 DEF NumTypes, DapTypes
        <5>4. Cell(k) = var.data[k]
          BY <3>1, <3>2, <5>3, ClassIs DEF Asked, Cell, ArrayValue
        <5>5. QED
          BY <4>3, <5>2, <5>4
      <4>4. QED
        BY <4>2, <4>3
    <3>7. \A i \in DOMAIN cells : cells[i] \in IF var.type \in NumTypes THEN Int ELSE Text
      <4>1. PICK n \in 0..Total : Filled(n)
        BY <3>4
      <4>2. SUFFICES ASSUME NEW i \in DOMAIN cells
                     PROVE  cells[i] \in IF var.type \in NumTypes THEN Int ELSE Text
        OBVIOUS
      <4>3. PICK k \in 0..(n - 1) : i = IndexOf(k, var.sizes)
        BY <4>1 DEF Filled
      <4>4. cells[i] = Cell(k + 1) /\ k + 1 \in 1..Total
        BY <3>2, <4>1, <4>3 DEF Filled
      <4>5. QED
        BY <3>6, <4>4
    <3>8. class \in Classes /\ element \in 0..Len(var.data)
      BY <3>1, <3>2, <3>4 DEF Asked
    <3>9. Rest
      BY <3>2, <3>3, <3>5, <3>7, <3>8
    <3> HIDE DEF Rest
    <3>10. QED
      BY <2>1, <2>2, <2>3, <3>9 DEF TypeOK, Rest
  <2>6. QED
    BY <2>4, <2>5
<1>4. QED
  BY <1>1, <1>2, <1>3, ValuesInductive, TypesInductive, PTL DEF Spec
=============================================================================
