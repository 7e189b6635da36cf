------------------------------ MODULE Modular ------------------------------
(***************************************************************************)
(* Facts about residues, for sequence numbers modulo NET_MAX_SEQUENCE and  *)
(* queries in slots modulo the size of a ring.                             *)
(***************************************************************************)
EXTENDS Integers, TLAPS

\* Quotient and remainder.
LEMMA DivMod ==
    ASSUME NEW m \in Nat, m > 0, NEW a \in Nat
    PROVE  /\ a = m * (a \div m) + (a % m)
           /\ a \div m \in Nat
           /\ a % m \in 0 .. (m - 1)
BY SMT

\* One lap more is at least one circle more.
LEMMA Laps ==
    ASSUME NEW m \in Nat, NEW x \in Int, NEW y \in Int, x < y
    PROVE  m * x + m <= m * y
BY SMT

\* Two numbers less than a circle apart have different residues.
LEMMA ModUnique ==
    ASSUME NEW m \in Nat, m > 0, NEW a \in Nat, NEW b \in Nat,
           a % m = b % m, a - b < m, b - a < m
    PROVE  a = b
<1> DEFINE p == a \div m
           q == b \div m
<1>1. /\ a = m * p + (a % m) /\ b = m * q + (b % m)
      /\ p \in Nat /\ q \in Nat /\ a % m \in Int
  BY DivMod
<1>2. ~ (p < q)
  BY <1>1, Laps
<1>3. ~ (q < p)
  BY <1>1, Laps
<1> QED BY <1>1, <1>2, <1>3

\* The residue of a number a little way back is found by subtraction, with
\* or without a wrap.
LEMMA Behind ==
    ASSUME NEW m \in Nat, m > 0, NEW s \in Nat, NEW a \in Nat, a <= s, s - a < m
    PROVE  a % m = (s % m) - (s - a) \/ a % m = (s % m) - (s - a) + m
<1> DEFINE p == a \div m
           q == s \div m
<1>1. /\ a = m * p + (a % m) /\ s = m * q + (s % m)
      /\ p \in Nat /\ q \in Nat
      /\ a % m \in 0 .. (m - 1) /\ s % m \in 0 .. (m - 1)
  BY DivMod
<1>2. ~ (p > q)
  BY <1>1, Laps
<1>3. m * (p + 1) = m * p + m
  BY <1>1
<1>4. ~ (p + 1 < q)
  <2> SUFFICES ASSUME p + 1 < q PROVE FALSE
    OBVIOUS
  <2>1. m * (p + 1) + m <= m * q
    BY <1>1, Laps
  <2> QED BY <1>1, <1>3, <2>1
<1>5. p = q \/ p + 1 = q
  BY <1>1, <1>2, <1>4
<1> QED BY <1>1, <1>3, <1>5

\* Counting up by one, with a wrap.
LEMMA NextMod ==
    ASSUME NEW m \in Nat, m > 0, NEW a \in Nat
    PROVE  ((a % m) + 1) % m = (a + 1) % m
<1> DEFINE r == a % m
           q == a \div m
           b == ((r + 1) % m)
           p == (r + 1) \div m
           c == ((a + 1) % m)
           d == (a + 1) \div m
<1>1. a = m * q + r /\ q \in Nat /\ r \in 0 .. (m - 1)
  BY DivMod
<1>2. r + 1 = m * p + b /\ p \in Nat /\ b \in 0 .. (m - 1)
  BY <1>1, DivMod
<1>3. a + 1 = m * d + c /\ d \in Nat /\ c \in 0 .. (m - 1)
  BY DivMod
<1> HIDE DEF r, q, b, p, c, d
<1>4. m * (q + p) = m * q + m * p /\ q + p \in Nat
  BY <1>1, <1>2
<1>5. m * (q + p) + b = m * d + c
  BY <1>1, <1>2, <1>3, <1>4
<1>6. ~ (q + p < d)
  BY <1>2, <1>3, <1>4, <1>5, Laps
<1>7. ~ (d < q + p)
  BY <1>2, <1>3, <1>4, <1>5, Laps
<1>8. q + p = d
  BY <1>3, <1>4, <1>6, <1>7
<1>9. b = c
  BY <1>2, <1>3, <1>5, <1>8
<1> QED BY <1>9 DEF b, c, r
=============================================================================
