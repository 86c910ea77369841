------------------------- MODULE RingIndexTheorems --------------------------
(***************************************************************************)
(* What a step of either index does to the slots that wait in a ring, for  *)
(* every size of the ring; and quotient and remainder of a count that      *)
(* comes round, which an index and a tick counter are.                     *)
(***************************************************************************)
EXTENDS RingIndex, TLAPS

\* (i + 1) & mask without the modulus: the form the other proofs use.
LEMMA NextSlotIs ==
  ASSUME NEW n \in Nat, n > 1, NEW i \in Slots(n)
  PROVE  NextSlot(i, n) = IF i + 1 < n THEN i + 1 ELSE 0
BY DEF NextSlot, Slots

\* The masked index stays inside the buffer.
LEMMA NextSlotInRing ==
  ASSUME NEW n \in Nat, n > 1, NEW i \in Nat
  PROVE  NextSlot(i, n) \in Slots(n)
BY DEF NextSlot, Slots

\* At most n - 1 slots wait, and the slots counted from tail are slots.
LEMMA WaitingBounds ==
  ASSUME NEW n \in Nat, n > 1, NEW h \in Slots(n), NEW t \in Slots(n)
  PROVE  /\ Waiting(h, t, n) \in 0 .. n - 1
         /\ Waiting(h, t, n) = 0 <=> h = t
         /\ \A k \in 0..n : SlotAfter(t, k, n) \in Slots(n)
BY DEF Slots, Waiting, SlotAfter

\* Storing a byte when the full test passes: one more slot waits, it is the last,
\* and it was none of those that waited, nor the one read last.
LEMMA PutInRing ==
  ASSUME NEW n \in Nat, n > 1, NEW h \in Slots(n), NEW t \in Slots(n),
         t # NextSlot(h, n)
  PROVE  /\ Waiting(NextSlot(h, n), t, n) = Waiting(h, t, n) + 1
         /\ NextSlot(h, n) = SlotAfter(t, Waiting(h, t, n) + 1, n)
         /\ \A k \in 1 .. Waiting(h, t, n) : SlotAfter(t, k, n) # NextSlot(h, n)
BY NextSlotIs DEF Slots, SlotAfter, Waiting

\* Failing the full test means that n - 1 slots wait.
LEMMA FullRing ==
  ASSUME NEW n \in Nat, n > 1, NEW h \in Slots(n), NEW t \in Slots(n)
  PROVE  t = NextSlot(h, n) <=> Waiting(h, t, n) = n - 1
BY NextSlotIs DEF Slots, Waiting

\* Advancing the tail of a ring that is not empty: one slot fewer waits, and
\* those that remain are the same ones.
LEMMA GetFromRing ==
  ASSUME NEW n \in Nat, n > 1, NEW h \in Slots(n), NEW t \in Slots(n), h # t
  PROVE  /\ Waiting(h, NextSlot(t, n), n) = Waiting(h, t, n) - 1
         /\ NextSlot(t, n) = SlotAfter(t, 1, n)
         /\ \A k \in 1 .. Waiting(h, t, n) - 1 :
               SlotAfter(NextSlot(t, n), k, n) = SlotAfter(t, k + 1, n)
BY NextSlotIs DEF Slots, SlotAfter, Waiting

-----------------------------------------------------------------------------
(* Division with remainder                                                 *)

\* q = p * d + r, for the quotient and the remainder.
LEMMA Quotient ==
  ASSUME NEW q \in Nat, NEW p \in Nat, p > 0,
         NEW d \in Nat, d = q \div p, NEW r \in Nat, r = q % p
  PROVE  q = p * d + r
OBVIOUS

LEMMA DivMod ==
  ASSUME NEW q \in Nat, NEW p \in Nat, p > 0
  PROVE  \E d \in Nat : \E r \in 0 .. p - 1 : q = p * d + r /\ r = q % p
<1>1. q % p \in 0 .. p - 1 /\ q % p \in Nat /\ q \div p \in Nat
  OBVIOUS
<1>2. PICK d \in Nat : d = q \div p
  BY <1>1, Zenon
<1>3. PICK r \in 0 .. p - 1 : r = q % p
  BY <1>1, Zenon
<1>4. r \in Nat
  OBVIOUS
<1>5. q = p * d + r
  BY <1>2, <1>3, <1>4, Quotient
<1>6. QED
  BY <1>3, <1>5

LEMMA ModIs ==
  ASSUME NEW p \in Nat, p > 0, NEW d \in Nat, NEW r \in 0 .. p - 1, NEW q, q = p * d + r
  PROVE  q % p = r
<1>1. q \in Nat
  OBVIOUS
<1>2. PICK e \in Nat : \E s \in 0 .. p - 1 : q = p * e + s /\ s = q % p
  BY <1>1, DivMod
<1>3. PICK s \in 0 .. p - 1 : q = p * e + s /\ s = q % p
  BY <1>2
<1>4. d \in Int /\ e \in Int /\ p * d + r = p * e + s
  BY <1>3
<1>5. d = e
  <2>1. ASSUME NEW a \in Nat, NEW b \in Nat, NEW u \in 0 .. p - 1, NEW v \in 0 .. p - 1,
               a >= b + 1, p * a + u = p * b + v
        PROVE  FALSE
    <3>1. PICK k \in Nat : a = b + 1 + k
      BY <2>1, a - b - 1 \in Nat
    <3>2. p * a = p * b + p + p * k /\ p * k >= 0
      BY <3>1
    <3>3. QED
      BY <2>1, <3>2
  <2>2. CASE d >= e + 1
    BY <1>4, <2>1, <2>2
  <2>3. CASE e >= d + 1
    BY <1>4, <2>1, <2>3
  <2>4. QED
    BY <2>2, <2>3
<1>6. QED
  BY <1>3, <1>4, <1>5

\* One more, modulo p.
LEMMA ModStep ==
  ASSUME NEW q \in Nat, NEW p \in Nat, p > 0
  PROVE  /\ q % p \in 0 .. p - 1
         /\ (q + 1) % p = IF q % p = p - 1 THEN 0 ELSE (q % p) + 1
<1>1. PICK d \in Nat : \E r \in 0 .. p - 1 : q = p * d + r /\ r = q % p
  BY DivMod
<1>2. PICK r \in 0 .. p - 1 : q = p * d + r /\ r = q % p
  BY <1>1
<1>3. PICK n \in Nat : n = q + 1
  OBVIOUS
<1>4. CASE r = p - 1
  <2>1. PICK e \in Nat : e = d + 1
    OBVIOUS
  <2>2. PICK s \in 0 .. p - 1 : s = 0
    OBVIOUS
  <2>3. n = p * e + s
    BY <1>2, <1>3, <1>4, <2>1, <2>2
  <2>4. n % p = 0
    BY <2>2, <2>3, ModIs
  <2>5. QED
    BY <1>2, <1>3, <1>4, <2>4
<1>5. CASE r # p - 1
  <2>1. PICK s \in 0 .. p - 1 : s = r + 1
    BY <1>5
  <2>2. n = p * d + s
    <3>1. PICK m \in Nat : m = p * d
      OBVIOUS
    <3>2. q = m + r
      BY <1>2, <3>1
    <3>3. n = m + s
      BY <1>3, <2>1, <3>2
    <3>4. QED
      BY <3>1, <3>3
  <2>3. n % p = s
    BY <2>2, ModIs
  <2>4. QED
    BY <1>2, <1>3, <1>5, <2>1, <2>3
<1>6. QED
  BY <1>4, <1>5

\* A count that is less than another has come round no more often, and less often
\* if it stands higher in its round.
LEMMA RoundOrder ==
  ASSUME NEW p \in Nat, p > 0, NEW a \in Nat, NEW b \in Nat, a <= b
  PROVE  /\ a \div p \in Nat /\ b \div p \in Nat
         /\ a \div p <= b \div p
         /\ a % p > b % p => a \div p < b \div p
<1>1. /\ a \div p \in Nat /\ b \div p \in Nat
      /\ a % p \in 0 .. p - 1 /\ b % p \in 0 .. p - 1
  OBVIOUS
<1>2. PICK x \in Nat : x = a \div p
  BY <1>1, Zenon
<1>3. PICK y \in Nat : y = b \div p
  BY <1>1, Zenon
<1>4. PICK r \in 0 .. p - 1 : r = a % p
  BY <1>1, Zenon
<1>5. PICK s \in 0 .. p - 1 : s = b % p
  BY <1>1, Zenon
<1>6. a = p * x + r
  BY <1>2, <1>4, r \in Nat, Quotient
<1>7. b = p * y + s
  BY <1>3, <1>5, s \in Nat, Quotient
<1>8. x <= y
  <2>1. SUFFICES ASSUME x >= y + 1 PROVE FALSE
    OBVIOUS
  <2>2. PICK k \in Nat : x = y + 1 + k
    BY <2>1, x - y - 1 \in Nat
  <2>3. p * x = p * y + p + p * k /\ p * k >= 0
    BY <2>2
  <2>4. QED
    BY <1>6, <1>7, <2>3
<1>9. r > s => x # y
  BY <1>6, <1>7
<1>10. a \div p <= b \div p /\ (a % p > b % p => a \div p < b \div p)
  BY <1>2, <1>3, <1>4, <1>5, <1>8, <1>9
<1>11. QED
  BY <1>1, <1>10

\* Fractions that are equal have the same quotient.
LEMMA SameQuotient ==
  ASSUME NEW a \in Nat, NEW p \in Nat, p > 0, NEW b \in Nat, NEW q \in Nat, q > 0,
         a * q = b * p
  PROVE  a \div p = b \div q
<1>1. PICK x \in Nat : \E r \in 0 .. p - 1 : a = p * x + r /\ x = a \div p
  <2>1. a \div p \in Nat /\ a % p \in Nat /\ a % p \in 0 .. p - 1
    OBVIOUS
  <2>2. QED
    BY <2>1, Quotient
<1>2. PICK r \in 0 .. p - 1 : a = p * x + r /\ x = a \div p
  BY <1>1
<1>3. PICK y \in Nat : \E s \in 0 .. q - 1 : b = q * y + s /\ y = b \div q
  <2>1. b \div q \in Nat /\ b % q \in Nat /\ b % q \in 0 .. q - 1
    OBVIOUS
  <2>2. QED
    BY <2>1, Quotient
<1>4. PICK s \in 0 .. q - 1 : b = q * y + s /\ y = b \div q
  BY <1>3
<1>5. PICK pq \in Nat : pq = p * q
  OBVIOUS
<1>6. pq * x + r * q = pq * y + s * p
  BY <1>2, <1>4, <1>5
<1>7. r * q \in Nat /\ r * q < pq /\ s * p \in Nat /\ s * p < pq
  BY <1>5
<1>8. x = y
  <2>1. ASSUME NEW m \in Nat, NEW n \in Nat, NEW u \in Nat, NEW v \in Nat,
               u < pq, v < pq, m >= n + 1, pq * m + u = pq * n + v
        PROVE  FALSE
    <3>1. PICK k \in Nat : m = n + 1 + k
      BY <2>1, m - n - 1 \in Nat
    <3>2. pq * m = pq * n + pq + pq * k /\ pq * k >= 0
      BY <3>1
    <3>3. QED
      BY <2>1, <3>2
  <2>2. CASE x >= y + 1
    BY <1>6, <1>7, <2>1, <2>2
  <2>3. CASE y >= x + 1
    BY <1>6, <1>7, <2>1, <2>3
  <2>4. QED
    BY <2>2, <2>3
<1>9. QED
  BY <1>2, <1>4, <1>8

=============================================================================
