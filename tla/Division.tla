------------------------------- MODULE Division -------------------------------
(***************************************************************************)
(* Integer division as C++ does it, for the number of buffers: monotonic,  *)
(* and so is what is capped after it.                                      *)
(***************************************************************************)
EXTENDS Integers, TLAPS

Quotient(c, d) == IF c >= 0 THEN c \div d ELSE -((-c) \div d)

CappedQuotient(c, d, most) ==
  LET wanted == Quotient(c, d) + 2 IN IF wanted > most THEN most ELSE wanted

(* Integer division is monotonic.                                          *)
LEMMA DivMonotonic ==
  ASSUME NEW c \in Nat, NEW s \in Nat, NEW d \in Nat \ {0}, c <= s
  PROVE  /\ c \div d \in Nat
         /\ c \div d <= s \div d
<1> DEFINE q == c \div d  r == s \div d
<1>1. q \in Nat /\ r \in Nat
  OBVIOUS
<1>2. d * q <= c /\ s < d * (r + 1)
  OBVIOUS
<1>3. SUFFICES ASSUME r + 1 <= q
               PROVE  FALSE
  BY <1>1
<1>4. d * (r + 1) <= d * q
  <2> HIDE DEF q, r
  <2>1. PICK k \in Nat : q = (r + 1) + k
    BY <1>1, <1>3
  <2>2. d * q = d * (r + 1) + d * k
    BY <1>1, <2>1
  <2>3. d * k >= 0
    OBVIOUS
  <2> QED
    BY <1>1, <2>2, <2>3
<1> QED
  <2> HIDE DEF q, r
  <2> QED
    BY <1>1, <1>2, <1>4

(* A larger capacity, if positive or not, gives no smaller number of       *)
(* buffers.                                                                *)
LEMMA CappedMonotonic ==
  ASSUME NEW d \in Nat \ {0}, NEW most \in Nat, NEW c \in Int, NEW s \in Int,
         c <= s, Quotient(c, d) + 2 >= 0
  PROVE  /\ CappedQuotient(c, d, most) \in Nat
         /\ CappedQuotient(c, d, most) <= CappedQuotient(s, d, most)
<1>1. \A n \in Nat : n \div d \in Nat
  BY DivMonotonic
<1>2. Quotient(c, d) \in Int /\ Quotient(s, d) \in Int
  <2>1. \A x \in Int : Quotient(x, d) \in Int
    <3> SUFFICES ASSUME NEW x \in Int
                 PROVE  Quotient(x, d) \in Int
      OBVIOUS
    <3>1. CASE x >= 0
      BY <1>1, <3>1 DEF Quotient
    <3>2. CASE x < 0
      <4>1. -x \in Nat
        BY <3>2
      <4> QED
        BY <1>1, <3>2, <4>1 DEF Quotient
    <3> QED
      BY <3>1, <3>2
  <2> QED
    BY <2>1
<1>3. Quotient(c, d) <= Quotient(s, d)
  <2>1. CASE c >= 0
    <3>1. c \in Nat /\ s \in Nat
      BY <2>1
    <3> QED
      BY <2>1, <3>1, DivMonotonic DEF Quotient
  <2>2. CASE c < 0 /\ s >= 0
    <3>1. -c \in Nat /\ s \in Nat
      BY <2>2
    <3>2. (-c) \div d \in Nat /\ s \div d \in Nat
      BY <1>1, <3>1
    <3> QED
      BY <2>2, <3>2 DEF Quotient
  <2>3. CASE s < 0
    <3>1. -s \in Nat /\ -c \in Nat /\ -s <= -c
      BY <2>3
    <3>2. (-s) \div d <= (-c) \div d
      BY <3>1, DivMonotonic
    <3>3. (-s) \div d \in Nat /\ (-c) \div d \in Nat
      BY <1>1, <3>1
    <3> QED
      BY <2>3, <3>2, <3>3 DEF Quotient
  <2> QED
    BY <2>1, <2>2, <2>3
<1> QED
  BY <1>2, <1>3 DEF CappedQuotient
=============================================================================
