---------------------------- MODULE TxRingProofs ----------------------------
(***************************************************************************)
(* Proofs about TxRing for any ring, any limit of it and any width of the  *)
(* counters: the indices stay in order when they wrap, and every slot of   *)
(* the ring says what its descriptor needs.                                *)
(*                                                                         *)
(* The order of the indices is inductive once a post is known to have      *)
(* descriptors; what the slots say is a function of the three regions of   *)
(* the ring and of the list that is being posted.                          *)
(***************************************************************************)
EXTENDS TxRing, TLAPS

(* The remainder lies below the modulus.                                   *)
LEMMA ModRange ==
  ASSUME NEW n \in Nat \ {0}, NEW a \in Int
  PROVE  a % n \in 0..(n - 1)
OBVIOUS

(* Quotient and remainder.                                                 *)
LEMMA DivMod ==
  ASSUME NEW n \in Nat \ {0}, NEW a \in Int
  PROVE  a \div n \in Int /\ a = n * (a \div n) + (a % n)
OBVIOUS

(* The only multiple of n strictly between -n and n is 0.                  *)
LEMMA SmallMultiple ==
  ASSUME NEW n \in Nat \ {0}, NEW k \in Int, -n < n * k, n * k < n
  PROVE  k = 0
<1>1. CASE k >= 1
  <2>1. n * k = n + n * (k - 1)
    BY SMT
  <2>2. n * (k - 1) >= 0
    BY <1>1, SMT
  <2> QED
    BY <2>1, <2>2
<1>2. CASE k <= -1
  <2>1. n * k = n * (k + 1) - n
    BY SMT
  <2>2. n * (k + 1) <= 0
    BY <1>2, SMT
  <2> QED
    BY <2>1, <2>2
<1> QED
  BY <1>1, <1>2

(* Two numbers less than n apart with the same remainder are equal: a      *)
(* counter is recognised by its low bits.                                  *)
LEMMA ModInjective ==
  ASSUME NEW n \in Nat \ {0}, NEW a \in Int, NEW b \in Int,
         a % n = b % n, -n < a - b, a - b < n
  PROVE  a = b
<1>1. a - b = n * ((a \div n) - (b \div n))
  BY DivMod
<1>2. (a \div n) - (b \div n) = 0
  BY <1>1, SmallMultiple, DivMod
<1> QED
  BY <1>1, <1>2, DivMod

(* Quotient and remainder are determined by their ranges.                  *)
LEMMA ModUnique ==
  ASSUME NEW n \in Nat \ {0}, NEW q \in Int, NEW r \in 0..(n - 1)
  PROVE  (n * q + r) % n = r
<1> DEFINE a == n * q + r
<1>1. a \in Int
  OBVIOUS
<1>2. a \div n \in Int /\ a = n * (a \div n) + (a % n)
  BY <1>1, DivMod
<1>3. a % n \in 0..(n - 1)
  BY <1>1, ModRange
<1>4. n * (q - (a \div n)) = (a % n) - r
  BY <1>2, SMT
<1>5. q - (a \div n) = 0
  <2> HIDE DEF a
  <2> QED
    BY <1>1, <1>2, <1>3, <1>4, SmallMultiple, SMT
<1> QED
  BY <1>2, <1>5, SMT

-----------------------------------------------------------------------------
(* There is a packet in the fragment list while a post is under way and    *)
(* while the queue is blocked, and a stopped ring is empty.                *)
Control ==
  /\ st_lock = "none" <=> ppc = "idle"
  /\ ppc \in {"post", "full", "block", "recheck"} => st_n > 0
  /\ st_unblock # "NOT_BLOCKED" =>
       st_n > 0 /\ ppc \in {"idle", "recheck", "push", "exit"}
  /\ st_state = "INITIALIZED" => st_n = 0 /\ st_added = st_reaped

(* What every slot says, from the slots c that wait to be reaped, the      *)
(* slots w that wait for completion, those of the last descriptors l, and  *)
(* the slot f where the n descriptors of the fragment list will begin.     *)
Content(c, w, f, n, l) ==
  [i \in 0..(NDescs - 1) |->
     IF i \in c THEN (IF i \in l THEN "unbound" ELSE "none")
     ELSE IF i \in w THEN (IF i \in l THEN "map" ELSE "none")
     ELSE IF n > 0 /\ i = f THEN "map" ELSE "none"]

Contents ==
  info = Content(Slots(st_reaped, st_completed), Slots(st_completed, st_added),
                 Id(st_added), st_n, last)

IInv == IndexOrder /\ Control /\ Contents

-----------------------------------------------------------------------------
(* Unsigned arithmetic.                                                    *)
LEMMA Constants ==
  /\ NDescs \in Nat \ {0} /\ NDescs >= 2 /\ CtrMod \in Nat \ {0}
  /\ NDescs < CtrMod /\ CtrMod % NDescs = 0 /\ Limit \in Nat /\ Limit < NDescs
  /\ Batch \in Nat \ {0} /\ MaxFrag \in Nat \ {0} /\ Level1 \in Nat
BY TxRingAssumption DEF Limit

(* The distance from b up to a, with at most one wrap.                     *)
LEMMA MinusIs ==
  ASSUME NEW a \in Ctr, NEW b \in Ctr
  PROVE  /\ Minus(a, b) = IF a >= b THEN a - b ELSE a - b + CtrMod
         /\ Minus(a, b) \in Ctr
<1>1. CtrMod \in Nat \ {0} /\ a \in 0..(CtrMod - 1) /\ b \in 0..(CtrMod - 1)
  BY Constants DEF Ctr
<1>2. CASE a >= b
  <2>1. a - b \in 0..(CtrMod - 1) /\ a - b = CtrMod * 0 + (a - b)
    BY <1>1, <1>2
  <2>2. (CtrMod * 0 + (a - b)) % CtrMod = a - b
    BY <1>1, <2>1, ModUnique
  <2> QED
    BY <1>2, <2>1, <2>2 DEF Minus, Ctr
<1>3. CASE ~(a >= b)
  <2> DEFINE r == a - b + CtrMod
  <2>1. /\ r \in 0..(CtrMod - 1) /\ -1 \in Int
        /\ a - b = CtrMod * (-1) + r
    BY <1>1, <1>3
  <2> HIDE DEF r
  <2>2. (CtrMod * (-1) + r) % CtrMod = r
    BY <1>1, <2>1, ModUnique
  <2>3. Minus(a, b) = r
    BY <2>1, <2>2 DEF Minus
  <2> QED
    BY <1>3, <2>1, <2>3 DEF r, Ctr
<1> QED
  BY <1>2, <1>3

(* The sum of two counters, with at most one wrap.                         *)
LEMMA PlusIs ==
  ASSUME NEW a \in Ctr, NEW k \in Ctr
  PROVE  /\ Plus(a, k) = IF a + k < CtrMod THEN a + k ELSE a + k - CtrMod
         /\ Plus(a, k) \in Ctr
<1>1. CtrMod \in Nat \ {0} /\ a \in 0..(CtrMod - 1) /\ k \in 0..(CtrMod - 1)
  BY Constants DEF Ctr
<1>2. CASE a + k < CtrMod
  <2>1. a + k \in 0..(CtrMod - 1) /\ a + k = CtrMod * 0 + (a + k)
    BY <1>1, <1>2
  <2>2. (CtrMod * 0 + (a + k)) % CtrMod = a + k
    BY <1>1, <2>1, ModUnique
  <2> QED
    BY <1>2, <2>1, <2>2 DEF Plus, Ctr
<1>3. CASE ~(a + k < CtrMod)
  <2> DEFINE r == a + k - CtrMod
  <2>1. r \in 0..(CtrMod - 1) /\ a + k = CtrMod * 1 + r
    BY <1>1, <1>3
  <2> HIDE DEF r
  <2>2. (CtrMod * 1 + r) % CtrMod = r
    BY <1>1, <2>1, ModUnique
  <2>3. Plus(a, k) = r
    BY <2>1, <2>2 DEF Plus
  <2> QED
    BY <1>3, <2>1, <2>3 DEF r, Ctr
<1> QED
  BY <1>2, <1>3

(* The slot of a counter does not depend on its wrap.                      *)
LEMMA IdWraps ==
  ASSUME NEW x \in Int
  PROVE  Id(x - CtrMod) = Id(x) /\ Id(x) \in 0..(NDescs - 1)
<1> DEFINE n == NDescs
<1>1. n \in Nat \ {0} /\ CtrMod \in Int /\ CtrMod % n = 0
  BY Constants
<1>2. /\ x \div n \in Int /\ x = n * (x \div n) + (x % n)
      /\ CtrMod \div n \in Int /\ CtrMod = n * (CtrMod \div n) + (CtrMod % n)
      /\ x % n \in 0..(n - 1)
  BY <1>1, DivMod, ModRange
<1> HIDE DEF n
<1> DEFINE q == x \div n
           c == CtrMod \div n
           r == x % n
<1>3. q \in Int /\ c \in Int /\ r \in 0..(n - 1) /\ x = n * q + r
      /\ CtrMod = n * c
  BY <1>1, <1>2
<1> HIDE DEF q, c, r
<1>4. x - CtrMod = n * (q - c) + r
  <2>1. n * (q - c) = n * q - n * c
    BY <1>1, <1>3
  <2> QED
    BY <1>1, <1>3, <2>1
<1>5. q - c \in Int
  BY <1>3
<1>6. (n * (q - c) + r) % n = r
  BY <1>1, <1>3, <1>5, ModUnique
<1>7. (x - CtrMod) % n = x % n
  BY <1>4, <1>6 DEF r
<1> QED
  BY <1>2, <1>7 DEF Id, n

(* Two counters at most a ring apart with the same slot are equal.         *)
LEMMA IdApart ==
  ASSUME NEW x \in Int, NEW m \in 0..(NDescs - 1), NEW k \in 0..(NDescs - 1),
         Id(x + m) = Id(x + k)
  PROVE  m = k
<1>1. /\ NDescs \in Nat \ {0} /\ x + m \in Int /\ x + k \in Int
      /\ -NDescs < (x + m) - (x + k) /\ (x + m) - (x + k) < NDescs
  BY Constants
<1>2. (x + m) % NDescs = (x + k) % NDescs
  BY DEF Id
<1>3. x + m = x + k
  BY <1>1, <1>2, ModInjective
<1> QED
  BY <1>1, <1>3

(* The slots between two counters, counted from a third.                   *)
LEMMA SlotsFrom ==
  ASSUME NEW r \in Ctr, NEW a \in Ctr, NEW b \in Ctr,
         Minus(a, r) <= Minus(b, r)
  PROVE  /\ Minus(b, a) = Minus(b, r) - Minus(a, r)
         /\ Slots(a, b) = {Id(r + m) : m \in Minus(a, r)..(Minus(b, r) - 1)}
<1> DEFINE A == Minus(a, r)
           B == Minus(b, r)
<1>1. /\ CtrMod \in Nat \ {0} /\ r \in 0..(CtrMod - 1) /\ a \in 0..(CtrMod - 1)
      /\ b \in 0..(CtrMod - 1)
  BY Constants DEF Ctr
<1>2. /\ A = IF a >= r THEN a - r ELSE a - r + CtrMod
      /\ B = IF b >= r THEN b - r ELSE b - r + CtrMod
      /\ Minus(b, a) = IF b >= a THEN b - a ELSE b - a + CtrMod
      /\ A <= B
  BY MinusIs
<1> HIDE DEF A, B
<1>3. /\ Minus(b, a) = B - A /\ A \in Nat /\ B \in Nat
      /\ a = r + A \/ a = (r + A) - CtrMod
  BY <1>1, <1>2
<1>4. ASSUME NEW k \in 0..(B - A - 1) PROVE Id(a + k) = Id(r + (A + k))
  <2>1. r + (A + k) \in Int
    BY <1>1, <1>3
  <2>2. a + k = r + (A + k) \/ a + k = (r + (A + k)) - CtrMod
    BY <1>1, <1>3
  <2> QED
    BY <2>1, <2>2, IdWraps
<1>5. Slots(a, b) = {Id(a + k) : k \in 0..(B - A - 1)}
  BY <1>3 DEF Slots
<1>6. /\ \A k \in 0..(B - A - 1) : A + k \in A..(B - 1)
      /\ \A m \in A..(B - 1) : m - A \in 0..(B - A - 1) /\ A + (m - A) = m
  BY <1>3
<1>7. Slots(a, b) = {Id(r + m) : m \in A..(B - 1)}
  BY <1>4, <1>5, <1>6
<1> QED
  BY <1>3, <1>7 DEF A, B

(* A counter lies at its distance from any other.                          *)
LEMMA SlotOf ==
  ASSUME NEW r \in Ctr, NEW a \in Ctr
  PROVE  Id(a) = Id(r + Minus(a, r)) /\ Minus(a, r) \in Nat
<1>1. /\ CtrMod \in Nat \ {0} /\ r \in 0..(CtrMod - 1) /\ a \in 0..(CtrMod - 1)
      /\ Minus(a, r) \in 0..(CtrMod - 1)
  BY Constants, MinusIs DEF Ctr
<1>2. /\ r + Minus(a, r) \in Int
      /\ a = r + Minus(a, r) \/ a = (r + Minus(a, r)) - CtrMod
  BY <1>1, MinusIs
<1>3. CASE a = r + Minus(a, r)
  BY <1>1, <1>3
<1>4. CASE a = (r + Minus(a, r)) - CtrMod
  BY <1>1, <1>2, <1>4, IdWraps
<1> QED
  BY <1>2, <1>3, <1>4

(* The slots up to b are those up to a and those from there on, and the    *)
(* slot of b itself is not one of them.                                    *)
LEMMA SlotsSplit ==
  ASSUME NEW r \in Ctr, NEW a \in Ctr, NEW b \in Ctr,
         Minus(a, r) <= Minus(b, r), Minus(b, r) < NDescs
  PROVE  /\ Slots(r, b) = Slots(r, a) \cup Slots(a, b)
         /\ Slots(r, a) \cap Slots(a, b) = {} /\ Id(b) \notin Slots(r, b)
         /\ Slots(r, b) \subseteq 0..(NDescs - 1)
<1> DEFINE A == Minus(a, r)
           B == Minus(b, r)
           N == NDescs
<1>1. A \in Nat /\ B \in Nat /\ A <= B /\ B < N /\ r \in Int /\ N \in Nat
  BY Constants, SlotOf DEF Ctr
<1>2. Minus(r, r) = 0
  BY MinusIs, Constants DEF Ctr
<1>3. Slots(a, b) = {Id(r + m) : m \in A..(B - 1)}
  BY SlotsFrom
<1>4. Slots(r, b) = {Id(r + m) : m \in 0..(B - 1)}
  BY <1>1, <1>2, SlotsFrom
<1>5. Slots(r, a) = {Id(r + m) : m \in 0..(A - 1)}
  BY <1>1, <1>2, SlotsFrom
<1>6. Id(b) = Id(r + B)
  BY SlotOf
<1> HIDE DEF A, B, N
<1>7. \A m, k \in 0..(N - 1) : Id(r + m) = Id(r + k) => m = k
  BY <1>1, IdApart DEF N
<1>8. \A m \in 0..B : m \in 0..(N - 1) /\ r + m \in Int
  BY <1>1
<1>9. \A m \in 0..B : Id(r + m) \in 0..(N - 1)
  BY <1>8, IdWraps DEF N
<1>10. /\ 0..(B - 1) = (0..(A - 1)) \cup (A..(B - 1))
       /\ (0..(A - 1)) \cap (A..(B - 1)) = {}
       /\ B \notin 0..(B - 1) /\ B \in 0..B /\ 0..(B - 1) \subseteq 0..B
  BY <1>1
<1>11. Slots(r, b) = Slots(r, a) \cup Slots(a, b)
  BY <1>3, <1>4, <1>5, <1>10
<1>12. Slots(r, a) \cap Slots(a, b) = {}
  BY <1>3, <1>5, <1>7, <1>8, <1>10
<1>13. Id(b) \notin Slots(r, b)
  BY <1>4, <1>6, <1>7, <1>8, <1>10
<1>14. Slots(r, b) \subseteq 0..(N - 1)
  BY <1>4, <1>9, <1>10
<1> QED
  BY <1>11, <1>12, <1>13, <1>14 DEF N

(* There is no slot from a counter up to itself.                           *)
LEMMA SlotsNone ==
  ASSUME NEW a \in Ctr
  PROVE  Slots(a, a) = {} /\ Minus(a, a) = 0
<1>1. Minus(a, a) = 0
  BY MinusIs, Constants DEF Ctr
<1> QED
  BY <1>1 DEF Slots

(* The event names the descriptor k places on by its slot.                 *)
LEMMA DeltaIs ==
  ASSUME NEW p \in Ctr, st_pending = p, NEW k \in 1..(NDescs - 1)
  PROVE  Delta(Id(p + k - 1)) = k
<1> DEFINE n == NDescs
           c == p % n
           y == (p + k - 1) % n
           s == (y + 1) % n
<1>1. n \in Nat \ {0} /\ p \in Int /\ k \in 1..(n - 1) /\ n >= 2
  BY Constants DEF Ctr
<1>2. p + k - 1 \in Int
  BY <1>1
<1>3. /\ c \in 0..(n - 1) /\ p = n * (p \div n) + c /\ p \div n \in Int
      /\ y \in 0..(n - 1) /\ (p + k - 1) \div n \in Int
      /\ p + k - 1 = n * ((p + k - 1) \div n) + y
  BY <1>1, <1>2, DivMod, ModRange
<1> HIDE DEF n, c
<1> DEFINE q == p \div n
           u == (p + k - 1) \div n
<1>4. /\ q \in Int /\ u \in Int /\ p = n * q + c /\ p + k - 1 = n * u + y
      /\ y \in 0..(n - 1)
  BY <1>3
<1> HIDE DEF q, u, y
<1>5. s = IF c + k < n THEN c + k ELSE c + k - n
  <2>1. s = IF y + 1 < n THEN y + 1 ELSE 0
    <3>1. CASE y + 1 < n
      <4>1. y + 1 \in 0..(n - 1) /\ y + 1 = n * 0 + (y + 1)
        BY <1>1, <1>4, <3>1
      <4>2. (n * 0 + (y + 1)) % n = y + 1
        BY <1>1, <4>1, ModUnique
      <4> QED
        BY <3>1, <4>1, <4>2
    <3>2. CASE ~(y + 1 < n)
      <4>1. 0 \in 0..(n - 1) /\ y + 1 = n * 1 + 0
        BY <1>1, <1>4, <3>2
      <4>2. (n * 1 + 0) % n = 0
        BY <1>1, <4>1, ModUnique
      <4> QED
        BY <3>2, <4>1, <4>2
    <3> QED
      BY <3>1, <3>2
  <2>2. y = IF c + k - 1 < n THEN c + k - 1 ELSE c + k - 1 - n
    <3>1. CASE c + k - 1 < n
      <4>1. c + k - 1 \in 0..(n - 1) /\ p + k - 1 = n * q + (c + k - 1)
        BY <1>1, <1>3, <1>4, <3>1
      <4> DEFINE e == c + k - 1
      <4> HIDE DEF e
      <4>2. (n * q + e) % n = e
        BY <1>1, <1>4, <4>1, ModUnique DEF e
      <4> QED
        BY <3>1, <4>1, <4>2 DEF e, y
    <3>2. CASE ~(c + k - 1 < n)
      <4>1. /\ c + k - 1 - n \in 0..(n - 1) /\ q + 1 \in Int
            /\ n * (q + 1) = n * q + n
        BY <1>1, <1>3, <1>4, <3>2
      <4> DEFINE e == c + k - 1 - n
      <4>2. p + k - 1 = n * (q + 1) + e
        BY <1>1, <1>3, <1>4, <4>1
      <4> HIDE DEF e
      <4>3. (n * (q + 1) + e) % n = e
        BY <1>1, <4>1, ModUnique DEF e
      <4> QED
        BY <3>2, <4>2, <4>3 DEF e, y
    <3> QED
      BY <3>1, <3>2
  <2> HIDE DEF s
  <2> QED
    BY <1>1, <1>3, <1>4, <2>1, <2>2
<1> HIDE DEF s
<1>6. (IF s >= c THEN s - c ELSE n - c + s) = k
  BY <1>1, <1>3, <1>5
<1> QED
  BY <1>6 DEF Delta, Id, s, y, c, n

-----------------------------------------------------------------------------
(* The order of the indices.                                               *)
Indices ==
  /\ Minus(st_completed, st_reaped) <= Minus(st_pending, st_reaped)
  /\ Minus(st_pending, st_reaped) <= Minus(done, st_reaped)
  /\ Minus(done, st_reaped) <= Minus(wptr, st_reaped)
  /\ Minus(wptr, st_reaped) <= Minus(st_added, st_reaped)
  /\ Minus(st_added, st_reaped) <= Limit

(* IndexOrder, as the shape of the state and the order of the distances.   *)
LEMMA IndexIs == IndexOrder <=> TypeOK /\ Indices
BY DEF IndexOrder, Indices

(* A counter that moves on by k within the limit is k farther from         *)
(* st_reaped.                                                              *)
LEMMA PlusOff ==
  ASSUME NEW r \in Ctr, NEW a \in Ctr, NEW k \in Nat,
         Minus(a, r) + k <= Limit
  PROVE  /\ Plus(a, k) \in Ctr /\ k \in Ctr
         /\ Minus(Plus(a, k), r) = Minus(a, r) + k
         /\ Minus(Plus(a, k), a) = k
<1>1. /\ CtrMod \in Nat \ {0} /\ r \in 0..(CtrMod - 1) /\ a \in 0..(CtrMod - 1)
      /\ Limit < CtrMod /\ Limit \in Nat
  BY Constants DEF Ctr
<1>2. /\ Minus(a, r) \in Nat
      /\ Minus(a, r) = IF a >= r THEN a - r ELSE a - r + CtrMod
  BY SlotOf, MinusIs
<1>3. k \in Ctr
  BY <1>1, <1>2 DEF Ctr
<1> DEFINE b == Plus(a, k)
<1>4. /\ b = IF a + k < CtrMod THEN a + k ELSE a + k - CtrMod
      /\ b \in Ctr /\ b \in 0..(CtrMod - 1)
  BY <1>3, PlusIs DEF Ctr
<1> HIDE DEF b
<1>5. /\ Minus(b, r) = IF b >= r THEN b - r ELSE b - r + CtrMod
      /\ Minus(b, a) = IF b >= a THEN b - a ELSE b - a + CtrMod
  BY <1>4, MinusIs
<1> QED
  BY <1>1, <1>2, <1>3, <1>4, <1>5 DEF b

(* What the order says of the distances between neighbours.                *)
LEMMA Offsets ==
  ASSUME IndexOrder
  PROVE  /\ st_reaped \in Ctr /\ st_completed \in Ctr /\ st_pending \in Ctr
         /\ done \in Ctr /\ wptr \in Ctr /\ st_added \in Ctr
         /\ Minus(st_completed, st_reaped) \in Nat
         /\ Minus(st_pending, st_reaped) \in Nat
         /\ Minus(done, st_reaped) \in Nat /\ Minus(wptr, st_reaped) \in Nat
         /\ Minus(st_added, st_reaped) \in Nat
         /\ Minus(wptr, done) = Minus(wptr, st_reaped) - Minus(done, st_reaped)
         /\ Minus(done, st_pending)
              = Minus(done, st_reaped) - Minus(st_pending, st_reaped)
         /\ Minus(st_reaped, st_reaped) = 0
<1>1. /\ st_reaped \in Ctr /\ st_completed \in Ctr /\ st_pending \in Ctr
      /\ done \in Ctr /\ wptr \in Ctr /\ st_added \in Ctr
  BY IndexIs DEF TypeOK
<1> QED
  BY <1>1, SlotOf, SlotsFrom, SlotsNone, IndexIs DEF Indices

(* After a reap the distances are counted from st_completed.               *)
LEMMA ReapOffsets ==
  ASSUME IndexOrder
  PROVE  LET d == Minus(st_completed, st_reaped) IN
         /\ Minus(st_completed, st_completed) = 0
         /\ Minus(st_pending, st_completed) = Minus(st_pending, st_reaped) - d
         /\ Minus(done, st_completed) = Minus(done, st_reaped) - d
         /\ Minus(wptr, st_completed) = Minus(wptr, st_reaped) - d
         /\ Minus(st_added, st_completed) = Minus(st_added, st_reaped) - d
<1>1. /\ st_reaped \in Ctr /\ st_completed \in Ctr /\ st_pending \in Ctr
      /\ done \in Ctr /\ wptr \in Ctr /\ st_added \in Ctr
  BY Offsets
<1>2. /\ Minus(st_completed, st_reaped) <= Minus(st_pending, st_reaped)
      /\ Minus(st_completed, st_reaped) <= Minus(done, st_reaped)
      /\ Minus(st_completed, st_reaped) <= Minus(wptr, st_reaped)
      /\ Minus(st_completed, st_reaped) <= Minus(st_added, st_reaped)
  BY Offsets, IndexIs DEF Indices
<1> QED
  BY <1>1, <1>2, SlotsFrom, SlotsNone

(* sfxge_tx_qreap keeps the order: no index is passed by st_completed.     *)
LEMMA ReapKeepsOrder ==
  ASSUME IndexOrder, st_reaped' = st_completed,
         UNCHANGED <<st_completed, st_pending, done, wptr, st_added>>
  PROVE  Indices'
<1>1. Limit \in Nat
  BY Constants
<1> QED
  BY <1>1, Offsets, ReapOffsets, IndexIs DEF Indices

(* The order holds when only the slots or the threads change.              *)
LEMMA OrderKept ==
  ASSUME IndexOrder,
         UNCHANGED <<st_reaped, st_completed, st_pending, done, wptr, st_added>>
  PROVE  Indices'
BY IndexIs DEF Indices

(* A doorbell tells the hardware at most what was added.                   *)
LEMMA PushKeepsOrder ==
  ASSUME IndexOrder, wptr' \in {wptr, st_added},
         UNCHANGED <<st_reaped, st_completed, st_pending, done, st_added>>
  PROVE  Indices'
BY Offsets, IndexIs DEF Indices

(* Every counter has a slot in the ring.                                   *)
LEMMA SlotTypes == /\ \A x \in Ctr : Id(x) \in 0..(NDescs - 1)
                   /\ 0 \in Ctr /\ 1 \in Ctr
<1>1. /\ \A x \in Ctr : x \in Int
      /\ 0 \in Ctr /\ 1 \in Ctr
  BY Constants DEF Ctr
<1> QED
  BY <1>1, IdWraps

(* Emptying slots leaves an array of completion information.               *)
LEMMA Emptied ==
  ASSUME IndexOrder, NEW f, f = [i \in DOMAIN info |->
                                   IF i \in Slots(st_reaped, st_completed)
                                   THEN "none" ELSE info[i]]
  PROVE  f \in [0..(NDescs - 1) -> Infos]
BY IndexIs DEF TypeOK, Infos

(* A post: the index, the order and the slots of the new descriptors.      *)
LEMMA PostOffsets ==
  ASSUME IndexOrder, st_n \in Nat \ {0}, st_n <= Space, QPost
  PROVE  /\ st_added' \in Ctr
         /\ Minus(st_added', st_reaped) = Minus(st_added, st_reaped) + st_n
         /\ Minus(st_added', st_added) = st_n
         /\ Minus(st_added', st_reaped) <= Limit
         /\ Minus(st_added', 1) \in Ctr
         /\ Id(Minus(st_added', 1)) = Id(st_added + (st_n - 1))
<1>1. /\ st_reaped \in Ctr /\ st_added \in Ctr
      /\ Minus(st_added, st_reaped) \in Nat /\ Limit \in Nat
  BY Offsets, Constants
<1>2. Minus(st_added, st_reaped) + st_n <= Limit
  BY <1>1 DEF Space
<1>3. st_added' = Plus(st_added, st_n)
  BY DEF QPost
<1>4. /\ st_added' \in Ctr /\ st_n \in Ctr
      /\ Minus(st_added', st_reaped) = Minus(st_added, st_reaped) + st_n
      /\ Minus(st_added', st_added) = st_n
  BY <1>1, <1>2, <1>3, PlusOff
<1>5. /\ CtrMod \in Nat \ {0} /\ CtrMod >= 2 /\ 1 \in Ctr
      /\ st_added \in 0..(CtrMod - 1) /\ st_added' \in 0..(CtrMod - 1)
      /\ st_n \in 0..(CtrMod - 1)
  BY <1>1, <1>4, Constants DEF Ctr
<1>6. /\ Minus(st_added', 1) = IF st_added' >= 1 THEN st_added' - 1
                               ELSE st_added' - 1 + CtrMod
      /\ Minus(st_added', 1) \in Ctr
  BY <1>4, <1>5, MinusIs
<1>7. st_added' = IF st_added + st_n < CtrMod THEN st_added + st_n
                  ELSE st_added + st_n - CtrMod
  BY <1>1, <1>3, <1>4, PlusIs
<1>8. /\ st_added + (st_n - 1) \in Int
      /\ \/ Minus(st_added', 1) = st_added + (st_n - 1)
         \/ Minus(st_added', 1) = (st_added + (st_n - 1)) - CtrMod
  BY <1>5, <1>6, <1>7
<1>9. Id(Minus(st_added', 1)) = Id(st_added + (st_n - 1))
  BY <1>8, IdWraps
<1> QED
  BY <1>2, <1>4, <1>6, <1>9

(* An event names a descriptor of the ring.                                *)
LEMMA EventInRing ==
  ASSUME IndexOrder, NEW k \in 1..Minus(done, st_pending)
  PROVE  k \in 1..(NDescs - 1)
<1>1. /\ Minus(done, st_reaped) <= Limit /\ Minus(done, st_reaped) \in Nat
      /\ Minus(st_pending, st_reaped) \in Nat
      /\ Minus(done, st_pending)
           = Minus(done, st_reaped) - Minus(st_pending, st_reaped)
  BY Offsets, Constants, IndexIs DEF Indices
<1> QED
  BY <1>1, Constants

(* A post that finds room has descriptors to post.                         *)
LEMMA PostReady ==
  ASSUME IInv, PostOk
  PROVE  st_n \in Nat \ {0} /\ st_n <= Space /\ QPost
<1>1. st_n \in 0..MaxFrag
  BY IndexIs DEF IInv, TypeOK
<1>2. ppc = "post" /\ st_n <= Space /\ QPost
  BY DEF PostOk
<1> QED
  BY <1>1, <1>2, Constants DEF IInv, Control

(* Every step keeps the shape of the state.                                *)
LEMMA TypeNext == IInv /\ [Next]_vars => TypeOK'
<1> SUFFICES ASSUME IInv, [Next]_vars PROVE TypeOK'
  OBVIOUS
<1> USE IndexIs, SlotTypes DEF IInv, TypeOK
<1>1. CASE DrainEnter
  BY <1>1 DEF DrainEnter, idxvars, hwvars, postvars
<1>2. ASSUME NEW n \in 1..MaxFrag, Fragment(n) PROVE TypeOK'
  <2>1. info' \in [0..(NDescs - 1) -> Infos]
    BY <1>2 DEF Fragment, Infos
  <2>2. st_n' \in 0..MaxFrag
    BY <1>2, Constants DEF Fragment
  <2> QED
    BY <1>2, <2>1, <2>2 DEF Fragment, idxvars, hwvars
<1>3. CASE DrainEnd
  BY <1>3 DEF DrainEnd, idxvars, hwvars, postvars
<1>4. CASE PostOk
  <2>1. st_n \in Nat \ {0} /\ st_n <= Space /\ QPost
    BY <1>4, PostReady
  <2>2. st_added' \in Ctr /\ Minus(st_added', 1) \in Ctr
    BY <2>1, PostOffsets
  <2>3. /\ Id(st_added) \in 0..(NDescs - 1)
        /\ Id(Minus(st_added', 1)) \in 0..(NDescs - 1)
    BY <2>2, SlotTypes
  <2>4. info' \in [0..(NDescs - 1) -> Infos]
    BY <1>4, <2>3 DEF PostOk, Moved, Infos
  <2>5. last' \subseteq 0..(NDescs - 1)
    BY <1>4, <2>3 DEF PostOk
  <2>6. 0 \in 0..MaxFrag
    BY Constants
  <2> QED
    BY <1>4, <2>2, <2>4, <2>5, <2>6 DEF PostOk, hwvars
<1>5. CASE PostFull
  BY <1>5 DEF PostFull, idxvars, hwvars, postvars
<1>6. CASE PostReap
  <2>1. info' \in [0..(NDescs - 1) -> Infos] /\ st_reaped' \in Ctr
    BY <1>6, Emptied DEF PostReap, Reap
  <2> QED
    BY <1>6, <2>1 DEF PostReap, hwvars
<1>7. CASE StoreUnblock
  BY <1>7 DEF StoreUnblock, Missed, idxvars, hwvars, postvars
<1>8. CASE Recheck
  <2>1. info' \in [0..(NDescs - 1) -> Infos] /\ st_reaped' \in Ctr
    BY <1>8, Emptied DEF Recheck, Reap
  <2> QED
    BY <1>8, <2>1 DEF Recheck, hwvars
<1>9. CASE Posted
  BY <1>9 DEF Posted, QPush, idxvars
<1>10. CASE DrainPush
  BY <1>10 DEF DrainPush, LastPush, QPush, idxvars
<1>11. CASE Unlock
  BY <1>11 DEF Unlock, idxvars, hwvars, postvars
<1>12. CASE LoadEarly
  BY <1>12 DEF LoadEarly, idxvars, hwvars, postvars
<1>13. CASE HwDone
  <2>1. PICK k \in 1..Minus(wptr, done) : done' = Plus(done, k)
    BY <1>13 DEF HwDone
  <2>2. Minus(wptr, done) \in Ctr
    BY MinusIs
  <2>3. k \in Ctr
    BY <2>1, <2>2, Constants DEF Ctr
  <2>4. done' \in Ctr
    BY <2>1, <2>3, PlusIs
  <2> QED
    BY <1>13, <2>4 DEF HwDone, idxvars, postvars
<1>14. CASE EvTx
  <2>1. PICK k \in 1..Minus(done, st_pending) :
          st_pending' = Plus(st_pending, Delta(Id(st_pending + k - 1)))
    BY <1>14 DEF EvTx
  <2>2. k \in 1..(NDescs - 1)
    BY ONLY <2>1, IndexOrder, EventInRing
  <2>3. st_pending' = Plus(st_pending, k)
    BY <2>1, <2>2, DeltaIs
  <2>4. k \in Ctr
    BY <2>2, Constants DEF Ctr
  <2>5. st_pending' \in Ctr
    BY <2>3, <2>4, PlusIs
  <2> QED
    BY <1>14, <2>5 DEF EvTx, postvars, hwvars
<1>15. CASE QComplete
  <2>1. info' \in [0..(NDescs - 1) -> Infos]
    BY <1>15 DEF QComplete, Unbound, Infos
  <2> QED
    BY <1>15, <2>1 DEF QComplete, postvars, hwvars
<1>16. CASE Look
  BY <1>16 DEF Look, idxvars, hwvars, postvars
<1>17. CASE LevelTest
  BY <1>17 DEF LevelTest, idxvars, hwvars, postvars
<1>18. CASE QUnblock
  BY <1>18 DEF QUnblock, idxvars, hwvars, postvars
<1>19. CASE QFlush
  BY <1>19 DEF QFlush, idxvars, hwvars, postvars
<1>20. CASE QStop
  <2>1. info' \in [0..(NDescs - 1) -> Infos]
    BY <1>20 DEF QStop, Stopped, Infos
  <2>2. 0 \in 0..MaxFrag
    BY Constants
  <2> QED
    BY <1>20, <2>1, <2>2 DEF QStop, postvars
<1>21. CASE QStart
  BY <1>21 DEF QStart, idxvars, hwvars, postvars
<1>22. CASE UNCHANGED vars
  BY <1>22 DEF vars, idxvars, hwvars, postvars
<1> HIDE DEF IInv, TypeOK
<1> QED
  BY <1>1, <1>2, <1>3, <1>4, <1>5, <1>6, <1>7, <1>8, <1>9, <1>10, <1>11,
     <1>12, <1>13, <1>14, <1>15, <1>16, <1>17, <1>18, <1>19, <1>20, <1>21,
     <1>22 DEF Next, PostStep, Event

(* Every step keeps the indices in order.                                  *)
LEMMA IndexNext == IInv /\ [Next]_vars => Indices'
<1> SUFFICES ASSUME IInv, [Next]_vars PROVE Indices'
  OBVIOUS
<1> USE DEF IInv
<1>1. CASE DrainEnter
  BY <1>1, OrderKept DEF DrainEnter, idxvars, hwvars
<1>2. ASSUME NEW n \in 1..MaxFrag, Fragment(n) PROVE Indices'
  BY <1>2, OrderKept DEF Fragment, idxvars, hwvars
<1>3. CASE DrainEnd
  BY <1>3, OrderKept DEF DrainEnd, idxvars, hwvars
<1>4. CASE PostOk
  <2>1. st_n \in Nat \ {0} /\ st_n <= Space /\ QPost
    BY <1>4, PostReady
  <2>2. /\ Minus(st_added', st_reaped) = Minus(st_added, st_reaped) + st_n
        /\ Minus(st_added', st_reaped) <= Limit
    BY <2>1, PostOffsets
  <2>3. UNCHANGED <<st_reaped, st_completed, st_pending, done, wptr>>
    BY <1>4 DEF PostOk, hwvars
  <2> QED
    BY <2>1, <2>2, <2>3, Offsets, IndexIs DEF Indices
<1>5. CASE PostFull
  BY <1>5, OrderKept DEF PostFull, idxvars, hwvars
<1>6. CASE PostReap
  <2>1. st_reaped' = st_completed \/ st_reaped' = st_reaped
    BY <1>6 DEF PostReap, Reap
  <2>2. UNCHANGED <<st_completed, st_pending, done, wptr, st_added>>
    BY <1>6 DEF PostReap, hwvars
  <2> QED
    BY <2>1, <2>2, ReapKeepsOrder, OrderKept
<1>7. CASE StoreUnblock
  BY <1>7, OrderKept DEF StoreUnblock, idxvars, hwvars
<1>8. CASE Recheck
  <2>1. st_reaped' = st_completed \/ st_reaped' = st_reaped
    BY <1>8 DEF Recheck, Reap
  <2>2. UNCHANGED <<st_completed, st_pending, done, wptr, st_added>>
    BY <1>8 DEF Recheck, hwvars
  <2> QED
    BY <2>1, <2>2, ReapKeepsOrder, OrderKept
<1>9. CASE Posted
  <2>1. /\ wptr' \in {wptr, st_added}
        /\ UNCHANGED <<st_reaped, st_completed, st_pending, done, st_added>>
    BY <1>9 DEF Posted, LastPush, QPush, idxvars
  <2> QED
    BY <2>1, PushKeepsOrder
<1>10. CASE DrainPush
  <2>1. /\ wptr' \in {wptr, st_added}
        /\ UNCHANGED <<st_reaped, st_completed, st_pending, done, st_added>>
    BY <1>10 DEF DrainPush, LastPush, QPush, idxvars
  <2> QED
    BY <2>1, PushKeepsOrder
<1>11. CASE Unlock
  BY <1>11, OrderKept DEF Unlock, idxvars, hwvars
<1>12. CASE LoadEarly
  BY <1>12, OrderKept DEF LoadEarly, idxvars, hwvars
<1>13. CASE HwDone
  <2>1. PICK k \in 1..Minus(wptr, done) : done' = Plus(done, k)
    BY <1>13 DEF HwDone
  <2>2. UNCHANGED <<st_reaped, st_completed, st_pending, wptr, st_added>>
    BY <1>13 DEF HwDone, idxvars
  <2>3. /\ Limit \in Nat /\ k \in Nat
        /\ Minus(done, st_reaped) + k <= Minus(wptr, st_reaped)
        /\ Minus(wptr, st_reaped) <= Limit
    BY <2>1, Constants, Offsets, IndexIs DEF Indices
  <2>4. Minus(done, st_reaped) + k <= Limit
    BY <2>3, Offsets
  <2>5. Minus(done', st_reaped) = Minus(done, st_reaped) + k
    BY <2>1, <2>3, <2>4, Offsets, PlusOff
  <2> QED
    BY <2>2, <2>3, <2>5, Offsets, IndexIs DEF Indices
<1>14. CASE EvTx
  <2>1. PICK k \in 1..Minus(done, st_pending) :
          st_pending' = Plus(st_pending, Delta(Id(st_pending + k - 1)))
    BY <1>14 DEF EvTx
  <2>2. UNCHANGED <<st_reaped, st_completed, done, wptr, st_added>>
    BY <1>14 DEF EvTx, hwvars
  <2>3. k \in 1..(NDescs - 1)
    BY <2>1, EventInRing
  <2>4. st_pending' = Plus(st_pending, k)
    BY <2>1, <2>3, Offsets, DeltaIs
  <2>5. /\ Limit \in Nat /\ k \in Nat
        /\ Minus(st_pending, st_reaped) + k <= Minus(done, st_reaped)
    BY <2>1, Constants, Offsets
  <2>6. Minus(st_pending, st_reaped) + k <= Limit
    BY <2>5, Offsets, IndexIs DEF Indices
  <2>7. Minus(st_pending', st_reaped) = Minus(st_pending, st_reaped) + k
    BY <2>4, <2>5, <2>6, Offsets, PlusOff
  <2> QED
    BY <2>2, <2>5, <2>7, Offsets, IndexIs DEF Indices
<1>15. CASE QComplete
  <2>1. /\ st_completed' = st_pending
        /\ UNCHANGED <<st_reaped, st_pending, done, wptr, st_added>>
    BY <1>15 DEF QComplete, hwvars
  <2> QED
    BY <2>1, Offsets, IndexIs DEF Indices
<1>16. CASE Look
  BY <1>16, OrderKept DEF Look, idxvars, hwvars
<1>17. CASE LevelTest
  BY <1>17, OrderKept DEF LevelTest, idxvars, hwvars
<1>18. CASE QUnblock
  BY <1>18, OrderKept DEF QUnblock, idxvars, hwvars
<1>19. CASE QFlush
  BY <1>19, OrderKept DEF QFlush, idxvars, hwvars
<1>20. CASE QStop
  <2>1. PICK d \in {0, 1} :
          /\ st_added' = d /\ st_pending' = d /\ st_completed' = d
          /\ st_reaped' = d /\ wptr' = d /\ done' = d
    BY <1>20 DEF QStop
  <2>2. Minus(d, d) = 0 /\ Limit \in Nat
    BY SlotTypes, SlotsNone, Constants
  <2> QED
    BY <2>1, <2>2 DEF Indices
<1>21. CASE QStart
  <2>1. PICK d \in {0, 1} :
          /\ st_added' = d /\ st_pending' = d /\ st_completed' = d
          /\ st_reaped' = d /\ wptr' = d /\ done' = d
    BY <1>21 DEF QStart
  <2>2. Minus(d, d) = 0 /\ Limit \in Nat
    BY SlotTypes, SlotsNone, Constants
  <2> QED
    BY <2>1, <2>2 DEF Indices
<1>22. CASE UNCHANGED vars
  BY <1>22, OrderKept DEF vars, idxvars, hwvars
<1> QED
  BY <1>1, <1>2, <1>3, <1>4, <1>5, <1>6, <1>7, <1>8, <1>9, <1>10, <1>11,
     <1>12, <1>13, <1>14, <1>15, <1>16, <1>17, <1>18, <1>19, <1>20, <1>21,
     <1>22 DEF Next, PostStep, Event

(* The ring is made of what waits for the reap and what waits for          *)
(* completion.                                                             *)
LEMMA Regions ==
  ASSUME IndexOrder
  PROVE  /\ Slots(st_reaped, st_added)
              = Slots(st_reaped, st_completed)
                  \cup Slots(st_completed, st_added)
         /\ Slots(st_reaped, st_completed) \cap Slots(st_completed, st_added)
              = {}
         /\ Id(st_added) \notin Slots(st_reaped, st_added)
         /\ Id(st_added) \in 0..(NDescs - 1)
<1>1. st_reaped \in Ctr /\ st_completed \in Ctr /\ st_added \in Ctr
  BY Offsets
<1>2. /\ Minus(st_completed, st_reaped) <= Minus(st_added, st_reaped)
      /\ Minus(st_added, st_reaped) < NDescs
  BY Offsets, Constants, IndexIs DEF Indices
<1> QED
  BY ONLY <1>1, <1>2, SlotsSplit, SlotTypes

(* The slots of the descriptors that have an event and are not completed   *)
(* yet.                                                                    *)
LEMMA PendingRegion ==
  ASSUME IndexOrder
  PROVE  /\ Slots(st_reaped, st_pending) = Slots(st_reaped, st_completed)
                                     \cup Slots(st_completed, st_pending)
         /\ Slots(st_completed, st_added) = Slots(st_completed, st_pending)
                                     \cup Slots(st_pending, st_added)
         /\ Slots(st_completed, st_pending) \cap Slots(st_pending, st_added)
              = {}
<1>1. /\ st_reaped \in Ctr /\ st_completed \in Ctr /\ st_pending \in Ctr
      /\ st_added \in Ctr
  BY Offsets
<1>2. /\ Minus(st_completed, st_reaped) <= Minus(st_pending, st_reaped)
      /\ Minus(st_pending, st_reaped) < NDescs
  BY Offsets, Constants, IndexIs DEF Indices
<1>3. /\ Minus(st_pending, st_completed) <= Minus(st_added, st_completed)
      /\ Minus(st_added, st_completed) < NDescs
  BY Offsets, ReapOffsets, Constants, IndexIs DEF Indices
<1>4. Slots(st_reaped, st_pending) = Slots(st_reaped, st_completed)
                                     \cup Slots(st_completed, st_pending)
  BY ONLY <1>1, <1>2, SlotsSplit
<1>5. /\ Slots(st_completed, st_added) = Slots(st_completed, st_pending)
                                     \cup Slots(st_pending, st_added)
      /\ Slots(st_completed, st_pending) \cap Slots(st_pending, st_added) = {}
  BY ONLY <1>1, <1>3, SlotsSplit
<1> QED
  BY <1>4, <1>5

(* The slots of the descriptors of a post.                                 *)
LEMMA PostRegion ==
  ASSUME IndexOrder, st_n \in Nat \ {0}, st_n <= Space, QPost
  PROVE  /\ Slots(st_completed, st_added') = Slots(st_completed, st_added)
                                     \cup Slots(st_added, st_added')
         /\ Slots(st_added, st_added') \cap Slots(st_reaped, st_added) = {}
         /\ Id(st_added) \in Slots(st_added, st_added')
         /\ Id(Minus(st_added', 1)) \in Slots(st_added, st_added')
         /\ Id(Minus(st_added', 1)) \in 0..(NDescs - 1)
<1>1. /\ st_reaped \in Ctr /\ st_completed \in Ctr /\ st_added \in Ctr
      /\ st_added' \in Ctr
  BY Offsets, PostOffsets
<1>2. /\ Minus(st_added, st_reaped) <= Minus(st_added', st_reaped)
      /\ Minus(st_added', st_reaped) < NDescs
      /\ Minus(st_completed, st_reaped) <= Minus(st_added', st_reaped)
  BY PostOffsets, Offsets, Constants, IndexIs DEF Indices
<1>3. Slots(st_added, st_added') \cap Slots(st_reaped, st_added) = {}
  BY ONLY <1>1, <1>2, SlotsSplit
<1>4. /\ Minus(st_added', st_completed)
           = Minus(st_added', st_reaped) - Minus(st_completed, st_reaped)
      /\ Minus(st_added, st_completed)
           = Minus(st_added, st_reaped) - Minus(st_completed, st_reaped)
  BY <1>1, <1>2, ReapOffsets, SlotsFrom
<1>5. /\ Minus(st_added, st_completed) <= Minus(st_added', st_completed)
      /\ Minus(st_added', st_completed) < NDescs
  BY <1>2, <1>4, PostOffsets, Offsets, Constants
<1>6. Slots(st_completed, st_added') = Slots(st_completed, st_added)
                                     \cup Slots(st_added, st_added')
  BY ONLY <1>1, <1>5, SlotsSplit
<1>7. /\ Minus(st_added', st_added) = st_n
      /\ Id(Minus(st_added', 1)) = Id(st_added + (st_n - 1))
      /\ Minus(st_added', 1) \in Ctr
  BY PostOffsets
<1>8. Slots(st_added, st_added') = {Id(st_added + k) : k \in 0..(st_n - 1)}
  BY <1>7 DEF Slots
<1>9. /\ 0 \in 0..(st_n - 1) /\ st_n - 1 \in 0..(st_n - 1)
      /\ st_added + 0 = st_added
  BY <1>1, Constants DEF Ctr
<1>10. Id(st_added) \in Slots(st_added, st_added')
  BY ONLY <1>8, <1>9
<1>11. Id(Minus(st_added', 1)) \in Slots(st_added, st_added')
  BY ONLY <1>7, <1>8, <1>9
<1>12. Id(Minus(st_added', 1)) \in 0..(NDescs - 1)
  BY <1>7, SlotTypes
<1> QED
  BY <1>3, <1>6, <1>10, <1>11, <1>12

(* What the slots say is what SlotsAgree asks of them.                     *)
LEMMA Agree == IndexOrder /\ Contents => SlotsAgree
<1> SUFFICES ASSUME IndexOrder, Contents PROVE SlotsAgree
  OBVIOUS
<1> DEFINE C == Slots(st_reaped, st_completed)
           W == Slots(st_completed, st_added)
           R == Slots(st_reaped, st_added)
           F == Id(st_added)
<1>1. R = C \cup W /\ C \cap W = {} /\ F \notin R /\ F \in 0..(NDescs - 1)
  BY Regions
<1>2. info = Content(C, W, F, st_n, last)
  BY DEF Contents
<1> HIDE DEF C, W, R, F
<1>3. \A i \in DOMAIN info :
        /\ i \in C => info[i] # "map" /\ (info[i] # "none" <=> i \in last)
        /\ i \in W => info[i] # "unbound" /\ (info[i] # "none" <=> i \in last)
        /\ i \notin R => (info[i] # "none" <=> st_n > 0 /\ i = F)
  BY <1>1, <1>2 DEF Content
<1> QED
  BY <1>3 DEF SlotsAgree, C, W, R, F

(* Every step keeps the lock with its holder and the list with the post.   *)
LEMMA ControlNext == IInv /\ [Next]_vars => Control'
<1> SUFFICES ASSUME IInv, [Next]_vars PROVE Control'
  OBVIOUS
<1>1. IndexOrder /\ Control /\ TypeOK /\ st_n \in Nat
  BY IndexIs, Constants DEF IInv, TypeOK
<1>2. st_n > 0 => st_n # 0
  BY <1>1
<1>3. CASE DrainEnter
  BY <1>3, <1>1, <1>2 DEF DrainEnter, Control, idxvars, hwvars, postvars
<1>4. ASSUME NEW n \in 1..MaxFrag, Fragment(n) PROVE Control'
  <2>1. n > 0
    BY Constants
  <2> QED
    BY <1>4, <2>1, <1>1, <1>2 DEF Fragment, Control, idxvars, hwvars
<1>5. CASE DrainEnd
  BY <1>5, <1>1, <1>2 DEF DrainEnd, Control, idxvars, hwvars, postvars
<1>6. CASE PostOk
  <2>1. st_n' = 0 /\ ppc' = "posted" /\ ppc = "post"
    BY <1>6 DEF PostOk
  <2>2. st_n > 0
    BY <2>1, <1>1 DEF Control
  <2>3. st_state # "INITIALIZED"
    BY <2>2, <1>1 DEF Control
  <2> QED
    BY <1>6, <2>1, <2>3, <1>1, <1>2 DEF PostOk, Control
<1>7. CASE PostFull
  BY <1>7, <1>1, <1>2 DEF PostFull, Control, idxvars, hwvars, postvars
<1>8. CASE PostReap
  <2>1. ppc = "full" /\ ppc' \in {"post", "block"} /\ st_n' = st_n
    BY <1>8 DEF PostReap
  <2>2. st_n > 0
    BY <2>1, <1>1 DEF Control
  <2>3. st_state # "INITIALIZED"
    BY <2>2, <1>1 DEF Control
  <2> QED
    BY <1>8, <2>1, <2>2, <2>3, <1>1 DEF PostReap, Control
<1>9. CASE StoreUnblock
  BY <1>9, <1>1, <1>2 DEF StoreUnblock, Control, idxvars, hwvars, postvars
<1>10. CASE Recheck
  <2>1. /\ ppc = "recheck" /\ ppc' \in {"post", "push"} /\ st_n' = st_n
        /\ ppc' = "post" => st_unblock' = "NOT_BLOCKED"
        /\ ppc' = "push" => st_unblock' = st_unblock
    BY <1>10 DEF Recheck
  <2>2. st_n > 0
    BY <2>1, <1>1 DEF Control
  <2>3. st_state # "INITIALIZED"
    BY <2>2, <1>1 DEF Control
  <2>4. UNCHANGED <<st_state, st_lock>>
    BY <1>10 DEF Recheck
  <2> QED
    BY <2>1, <2>2, <2>3, <2>4, <1>1 DEF Control
<1>11. CASE Posted
  BY <1>11, <1>1, <1>2 DEF Posted, Control, idxvars, hwvars, postvars
<1>12. CASE DrainPush
  BY <1>12, <1>1, <1>2 DEF DrainPush, Control, idxvars, hwvars, postvars
<1>13. CASE Unlock
  BY <1>13, <1>1, <1>2 DEF Unlock, Control, idxvars, hwvars, postvars
<1>14. CASE LoadEarly
  BY <1>14, <1>1, <1>2 DEF LoadEarly, Control, idxvars, hwvars, postvars
<1>15. CASE HwDone
  BY <1>15, <1>1, <1>2 DEF HwDone, Control, idxvars, hwvars, postvars
<1>16. CASE EvTx
  BY <1>16, <1>1, <1>2 DEF EvTx, Control, idxvars, hwvars, postvars
<1>17. CASE QComplete
  BY <1>17, <1>1, <1>2 DEF QComplete, Control, idxvars, hwvars, postvars
<1>18. CASE Look
  BY <1>18, <1>1, <1>2 DEF Look, Control, idxvars, hwvars, postvars
<1>19. CASE LevelTest
  BY <1>19, <1>1, <1>2 DEF LevelTest, Control, idxvars, hwvars, postvars
<1>20. CASE QUnblock
  BY <1>20, <1>1, <1>2 DEF QUnblock, Control, idxvars, hwvars, postvars
<1>21. CASE QFlush
  BY <1>21, <1>1, <1>2 DEF QFlush, Control, idxvars, hwvars, postvars
<1>22. CASE QStop
  <2>1. /\ st_n' = 0 /\ st_added' = st_reaped' /\ st_unblock' = "NOT_BLOCKED"
        /\ UNCHANGED <<st_lock, ppc>> /\ st_lock = "none"
    BY <1>22 DEF QStop, postvars
  <2> QED
    BY <2>1, <1>1 DEF Control
<1>23. CASE QStart
  BY <1>23, <1>1, <1>2 DEF QStart, Control, idxvars, hwvars, postvars
<1>24. CASE UNCHANGED vars
  BY <1>24, <1>1 DEF vars, Control, idxvars, hwvars, postvars
<1> QED
  BY <1>3, <1>4, <1>5, <1>6, <1>7, <1>8, <1>9, <1>10, <1>11, <1>12, <1>13,
     <1>14, <1>15, <1>16, <1>17, <1>18, <1>19, <1>20, <1>21, <1>22, <1>23,
     <1>24 DEF Next, PostStep, Event

(* What the slots say is kept by a step that leaves ring and list alone.   *)
LEMMA ContentsKept ==
  ASSUME Contents,
         UNCHANGED <<st_reaped, st_completed, st_added, st_n, info, last>>
  PROVE  Contents'
BY DEF Contents, Content

(* sfxge_tx_qreap empties the slots it takes.                              *)
LEMMA ReapContents ==
  ASSUME IndexOrder, Contents, Reap,
         UNCHANGED <<st_completed, st_added, st_n, last>>
  PROVE  Contents'
<1> DEFINE C == Slots(st_reaped, st_completed)
           W == Slots(st_completed, st_added)
           F == Id(st_added)
<1>1. C \cap W = {} /\ F \notin C
  BY Regions
<1>2. info = Content(C, W, F, st_n, last)
  BY DEF Contents
<1>3. info' = [i \in DOMAIN info |-> IF i \in C THEN "none" ELSE info[i]]
  BY DEF Reap
<1>4. Contents' <=> info' = Content({}, W, F, st_n, last)
  <2>1. Slots(st_completed, st_completed) = {}
    BY Offsets, SlotsNone
  <2> QED
    BY <2>1 DEF Contents, Content, Reap
<1> HIDE DEF C, W, F
<1>5. info' = Content({}, W, F, st_n, last)
  BY <1>1, <1>2, <1>3 DEF Content
<1> QED
  BY <1>4, <1>5

(* Every step keeps each slot saying what its descriptor needs.            *)
LEMMA ContentsNext == IInv /\ [Next]_vars => Contents'
<1> SUFFICES ASSUME IInv, [Next]_vars PROVE Contents'
  OBVIOUS
<1>1. IndexOrder /\ Control /\ Contents
  BY DEF IInv
<1> USE <1>1
<1>2. CASE DrainEnter
  BY <1>2, ContentsKept DEF DrainEnter, idxvars, hwvars
<1>3. ASSUME NEW n \in 1..MaxFrag, Fragment(n) PROVE Contents'
  <2> DEFINE C == Slots(st_reaped, st_completed)
             W == Slots(st_completed, st_added)
             F == Id(st_added)
  <2>1. F \notin C \cup W /\ F \in 0..(NDescs - 1)
    BY Regions
  <2>2. info = Content(C, W, F, st_n, last)
    BY DEF Contents
  <2>3. n > 0
    BY Constants
  <2>4. info' = [info EXCEPT ![F] = "map"]
    BY <1>3 DEF Fragment
  <2>5. Contents' <=> info' = Content(C, W, F, n, last)
    BY <1>3 DEF Contents, Content, Fragment, idxvars
  <2> HIDE DEF C, W, F
  <2>6. info' = Content(C, W, F, n, last)
    BY <2>1, <2>2, <2>3, <2>4 DEF Content
  <2> QED
    BY <2>5, <2>6
<1>4. CASE DrainEnd
  BY <1>4, ContentsKept DEF DrainEnd, idxvars, hwvars
<1>5. CASE PostOk
  <2> DEFINE C == Slots(st_reaped, st_completed)
             W == Slots(st_completed, st_added)
             F == Id(st_added)
             New == Slots(st_added, st_added')
             z == Id(Minus(st_added', 1))
  <2>1. st_n \in Nat \ {0} /\ st_n <= Space /\ QPost
    BY <1>5, PostReady
  <2>2. /\ Slots(st_completed, st_added') = W \cup New
        /\ New \cap (C \cup W) = {} /\ F \in New /\ z \in New
        /\ z \in 0..(NDescs - 1)
    BY <2>1, PostRegion, Regions
  <2>3. F \notin C \cup W /\ F \in 0..(NDescs - 1)
    BY Regions
  <2>4. info = Content(C, W, F, st_n, last) /\ st_n > 0
    BY <2>1, Constants DEF Contents
  <2>5. /\ info' = [info EXCEPT ![F] = "none", ![z] = info[F]]
        /\ last' = (last \ New) \cup {z} /\ st_n' = 0
        /\ UNCHANGED <<st_reaped, st_completed>>
    BY <1>5 DEF PostOk, Moved
  <2>6. Contents' <=> info' = Content(C, W \cup New, Id(st_added'), 0, last')
    BY <2>2, <2>5 DEF Contents
  <2> HIDE DEF C, W, F, New, z
  <2> DEFINE f == Id(st_added')
             l == last'
  <2>7. l = (last \ New) \cup {z}
    BY <2>5
  <2> HIDE DEF f, l
  <2>8. info[F] = "map" /\ info \in [0..(NDescs - 1) -> Infos]
    BY <2>3, <2>4 DEF Content, Infos
  <2>9. info' = [i \in 0..(NDescs - 1) |-> IF i = z THEN "map"
                                 ELSE IF i = F THEN "none" ELSE info[i]]
    BY <2>2, <2>3, <2>5, <2>8
  <2>10. \A i \in 0..(NDescs - 1) :
           Content(C, W \cup New, f, 0, l)[i]
             = IF i = z THEN "map" ELSE IF i = F THEN "none" ELSE info[i]
    BY <2>2, <2>3, <2>4, <2>7 DEF Content
  <2>11. info' = Content(C, W \cup New, f, 0, l)
    BY <2>9, <2>10 DEF Content
  <2> QED
    BY <2>6, <2>11 DEF f, l
<1>6. CASE PostFull
  BY <1>6, ContentsKept DEF PostFull, idxvars, hwvars
<1>7. CASE PostReap
  <2>1. Reap \/ UNCHANGED <<st_reaped, info>>
    BY <1>7 DEF PostReap
  <2>2. UNCHANGED <<st_completed, st_added, st_n, last>>
    BY <1>7 DEF PostReap
  <2> QED
    BY <2>1, <2>2, ReapContents, ContentsKept
<1>8. CASE StoreUnblock
  BY <1>8, ContentsKept DEF StoreUnblock, idxvars, hwvars
<1>9. CASE Recheck
  <2>1. Reap \/ UNCHANGED <<st_reaped, info>>
    BY <1>9 DEF Recheck
  <2>2. UNCHANGED <<st_completed, st_added, st_n, last>>
    BY <1>9 DEF Recheck
  <2> QED
    BY <2>1, <2>2, ReapContents, ContentsKept
<1>10. CASE Posted
  BY <1>10, ContentsKept DEF Posted, idxvars, hwvars
<1>11. CASE DrainPush
  BY <1>11, ContentsKept DEF DrainPush, idxvars, hwvars
<1>12. CASE Unlock
  BY <1>12, ContentsKept DEF Unlock, idxvars, hwvars
<1>13. CASE LoadEarly
  BY <1>13, ContentsKept DEF LoadEarly, idxvars, hwvars
<1>14. CASE HwDone
  BY <1>14, ContentsKept DEF HwDone, idxvars, hwvars
<1>15. CASE EvTx
  BY <1>15, ContentsKept DEF EvTx, idxvars, hwvars
<1>16. CASE QComplete
  <2> DEFINE C == Slots(st_reaped, st_completed)
             P == Slots(st_completed, st_pending)
             W == Slots(st_pending, st_added)
             F == Id(st_added)
  <2>1. /\ Slots(st_reaped, st_pending) = C \cup P
        /\ Slots(st_completed, st_added) = P \cup W /\ P \cap W = {}
        /\ C \cap (P \cup W) = {} /\ F \notin C \cup (P \cup W)
    BY PendingRegion, Regions
  <2>2. info = Content(C, P \cup W, F, st_n, last)
    BY <2>1 DEF Contents
  <2>3. info' = [i \in DOMAIN info |->
                   IF i \in P /\ info[i] = "map" THEN "unbound" ELSE info[i]]
    BY <1>16 DEF QComplete, Unbound
  <2>4. Contents' <=> info' = Content(C \cup P, W, F, st_n, last)
    BY <1>16, <2>1 DEF Contents, Content, QComplete
  <2> HIDE DEF C, P, W, F
  <2>5. info' = Content(C \cup P, W, F, st_n, last)
    BY <2>1, <2>2, <2>3 DEF Content
  <2> QED
    BY <2>4, <2>5
<1>17. CASE Look
  BY <1>17, ContentsKept DEF Look, idxvars, hwvars
<1>18. CASE LevelTest
  BY <1>18, ContentsKept DEF LevelTest, idxvars, hwvars
<1>19. CASE QUnblock
  BY <1>19, ContentsKept DEF QUnblock, idxvars, hwvars
<1>20. CASE QFlush
  BY <1>20, ContentsKept DEF QFlush, idxvars, hwvars
<1>21. CASE QStop
  <2> DEFINE C == Slots(st_reaped, st_completed)
             W == Slots(st_completed, st_added)
             F == Id(st_added)
  <2>1. info = Content(C, W, F, st_n, last)
    BY DEF Contents
  <2>2. info' = [i \in DOMAIN info |->
                   IF i \in (C \cup W) \cup {F} THEN "none" ELSE info[i]]
    BY <1>21, Regions DEF QStop, Stopped
  <2>3. Slots(0, 0) = {}
    BY SlotTypes, SlotsNone
  <2>4. Contents' <=> info' = Content({}, {}, Id(0), 0, {})
    BY <1>21, <2>3 DEF Contents, Content, QStop
  <2> HIDE DEF C, W, F
  <2>5. info' = Content({}, {}, Id(0), 0, {})
    BY <2>1, <2>2 DEF Content
  <2> QED
    BY <2>4, <2>5
<1>22. CASE QStart
  <2>1. st_n = 0 /\ st_added = st_reaped
    BY <1>22 DEF QStart, Control
  <2>2. Slots(st_reaped, st_added) = {}
    BY <2>1, Offsets, SlotsNone
  <2>3. /\ Slots(st_reaped, st_completed) = {}
        /\ Slots(st_completed, st_added) = {}
    BY <2>2, Regions
  <2>4. info = Content({}, {}, Id(st_added), 0, last)
    BY <2>1, <2>3 DEF Contents
  <2>5. PICK d \in {0, 1} :
          st_added' = d /\ st_completed' = d /\ st_reaped' = d
    BY <1>22 DEF QStart
  <2>6. Slots(d, d) = {}
    BY SlotTypes, SlotsNone
  <2>7. Contents' <=> info' = Content({}, {}, Id(d), 0, last)
    BY <1>22, <2>1, <2>5, <2>6 DEF Contents, Content, QStart
  <2>8. info' = info
    BY <1>22 DEF QStart
  <2>9. ~(0 > 0)
    BY Constants
  <2>10. Content({}, {}, Id(d), 0, last)
           = Content({}, {}, Id(st_added), 0, last)
    BY ONLY <2>9 DEF Content
  <2> QED
    BY <2>4, <2>7, <2>8, <2>10
<1>23. CASE UNCHANGED vars
  BY <1>23, ContentsKept DEF vars, idxvars, hwvars
<1> QED
  BY <1>2, <1>3, <1>4, <1>5, <1>6, <1>7, <1>8, <1>9, <1>10, <1>11, <1>12,
     <1>13, <1>14, <1>15, <1>16, <1>17, <1>18, <1>19, <1>20, <1>21, <1>22,
     <1>23 DEF Next, PostStep, Event

(* The inductive invariant holds initially.                                *)
LEMMA InitInv == Init => IInv
<1> SUFFICES ASSUME Init PROVE IInv
  OBVIOUS
<1>1. /\ 0 \in Ctr /\ Slots(0, 0) = {} /\ Minus(0, 0) = 0 /\ Limit \in Nat
      /\ 0 \in 0..MaxFrag /\ ~(0 > 0)
  BY SlotTypes, SlotsNone, Constants
<1>2. TypeOK
  BY <1>1 DEF Init, TypeOK, Infos, None
<1>3. Indices
  BY <1>1 DEF Init, Indices
<1>4. Control
  BY <1>1 DEF Init, Control
<1>5. info = [i \in 0..(NDescs - 1) |-> "none"]
  BY DEF Init
<1>6. Content({}, {}, Id(0), 0, last) = [i \in 0..(NDescs - 1) |-> "none"]
  BY <1>1 DEF Content
<1>7. Contents
  BY <1>1, <1>5, <1>6 DEF Init, Contents
<1> QED
  BY <1>2, <1>3, <1>4, <1>7, IndexIs DEF IInv

(* The inductive invariant holds in every state of every behaviour.        *)
LEMMA Invariance == Spec => []IInv
<1>1. IInv /\ [Next]_vars => IInv'
  <2> SUFFICES ASSUME IInv, [Next]_vars PROVE IInv'
    OBVIOUS
  <2>1. TypeOK' /\ Indices' /\ Control' /\ Contents'
    BY TypeNext, IndexNext, ControlNext, ContentsNext
  <2>2. IndexOrder'
    BY <2>1 DEF IndexOrder, Indices
  <2> QED
    BY <2>1, <2>2 DEF IInv
<1> QED
  BY InitInv, <1>1, PTL DEF Spec

(* sfxge_tx_qlist_post, sfxge_ev_tx, sfxge_tx_qcomplete and sfxge_tx_qreap *)
(* keep reaped, completed, pending, done, pushed and added in this order,  *)
(* at most EFX_TXQ_LIMIT apart, for every ring, every limit of it and      *)
(* every width of the counters, and when the counters wrap.                *)
THEOREM IndexOrderAlways == Spec => []IndexOrder
<1>1. IInv => IndexOrder
  BY DEF IInv
<1> QED
  BY Invariance, <1>1, PTL

(* No step finds a slot that holds another packet, or misses one it        *)
(* expects: the completion information of a packet stays in the slot of    *)
(* its last descriptor from the post until the reap, whatever the sender   *)
(* and the event thread do in between.                                     *)
THEOREM SlotsAgreeAlways == Spec => []SlotsAgree
<1>1. IInv => SlotsAgree
  BY Agree DEF IInv
<1> QED
  BY Invariance, <1>1, PTL

=============================================================================
