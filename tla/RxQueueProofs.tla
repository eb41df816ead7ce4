---------------------------- MODULE RxQueueProofs ----------------------------
(***************************************************************************)
(* Proofs about RxQueue for any packets, any ring, any limit of it and any *)
(* width of the counters: every packet has one owner, the counts of the    *)
(* pool say how many are where, and the ring holds packets of the size the *)
(* hardware is told exactly where descriptors are outstanding.             *)
(*                                                                         *)
(* The invariant says which set of packets each owner has: they are        *)
(* disjoint, and together they are the packets that are allocated.  A list *)
(* has no packet twice and no two slots of the ring have the same, so that *)
(* lengths and numbers of slots count packets.                             *)
(***************************************************************************)
EXTENDS RxQueue, TLAPS, FiniteSetTheorems, SequenceTheorems

(* The remainder lies below the modulus.                                   *)
LEMMA ModRange ==
  ASSUME NEW n \in Nat \ {0}, NEW a \in Int
  PROVE  a % n \in 0..(n - 1)
OBVIOUS

(* Quotient and remainder.                                                 *)
LEMMA DivMod ==
  ASSUME NEW n \in Nat \ {0}, NEW a \in Int
  PROVE  a \div n \in Int /\ a = n * (a \div n) + (a % n)
OBVIOUS

(* The only multiple of n strictly between -n and n is 0.                  *)
LEMMA SmallMultiple ==
  ASSUME NEW n \in Nat \ {0}, NEW k \in Int, -n < n * k, n * k < n
  PROVE  k = 0
<1>1. CASE k >= 1
  <2>1. n * k = n + n * (k - 1)
    BY SMT
  <2>2. n * (k - 1) >= 0
    BY <1>1, SMT
  <2> QED
    BY <2>1, <2>2
<1>2. CASE k <= -1
  <2>1. n * k = n * (k + 1) - n
    BY SMT
  <2>2. n * (k + 1) <= 0
    BY <1>2, SMT
  <2> QED
    BY <2>1, <2>2
<1> QED
  BY <1>1, <1>2

(* Two numbers less than n apart with the same remainder are equal: a      *)
(* counter is recognised by its low bits.                                  *)
LEMMA ModInjective ==
  ASSUME NEW n \in Nat \ {0}, NEW a \in Int, NEW b \in Int,
         a % n = b % n, -n < a - b, a - b < n
  PROVE  a = b
<1>1. a - b = n * ((a \div n) - (b \div n))
  BY DivMod
<1>2. (a \div n) - (b \div n) = 0
  BY <1>1, SmallMultiple, DivMod
<1> QED
  BY <1>1, <1>2, DivMod

(* Quotient and remainder are determined by their ranges.                  *)
LEMMA ModUnique ==
  ASSUME NEW n \in Nat \ {0}, NEW q \in Int, NEW r \in 0..(n - 1)
  PROVE  (n * q + r) % n = r
<1> DEFINE a == n * q + r
<1>1. a \in Int
  OBVIOUS
<1>2. a \div n \in Int /\ a = n * (a \div n) + (a % n)
  BY <1>1, DivMod
<1>3. a % n \in 0..(n - 1)
  BY <1>1, ModRange
<1>4. n * (q - (a \div n)) = (a % n) - r
  BY <1>2, SMT
<1>5. q - (a \div n) = 0
  <2> HIDE DEF a
  <2> QED
    BY <1>1, <1>2, <1>3, <1>4, SmallMultiple, SMT
<1> QED
  BY <1>2, <1>5, SMT

(* A function on 1..n is a sequence.                                       *)
LEMMA FunctionIsSeq ==
  ASSUME NEW S, NEW n \in Nat, NEW f \in [1..n -> S]
  PROVE  f \in Seq(S) /\ Len(f) = n
OBVIOUS

-----------------------------------------------------------------------------
(* The queue away from the poll and from a started state.                  *)
Phases ==
  /\ epc # "idle" => sr_state = "STARTED"
  /\ epc \notin {"deliver", "post"} => up = {}
  /\ sr_state \notin {"STARTED", "STOPPING"} =>
       /\ sr_added = 0 /\ sr_pending = 0 /\ sr_completed = 0 /\ filled = 0
       /\ flows = {}
  /\ sr_state \in {"DESTROYING", "UNINITIALIZED"} => stack = {}
  /\ sr_state = "UNINITIALIZED" => put = << >> /\ get = << >>

(* The order of the indices, as distances from sr_completed; what is       *)
(* pushed is what was added, down to a whole group.                        *)
Off(x) == Minus(x, sr_completed)

Indices ==
  /\ Off(sr_pending) <= Off(filled) /\ Off(filled) <= Off(sr_pushed)
  /\ Off(sr_pushed) <= Off(sr_added) /\ Off(sr_added) <= Limit
  /\ sr_pushed = QPush(sr_added)

(* What the ring r holds when the slots in use are those in u, with sizes  *)
(* z and the size m wanted.                                                *)
RingOK(r, u, z, m) ==
  /\ \A i \in DOMAIN r : IF i \in u THEN r[i] \in Pkts /\ z[r[i]] = m
                         ELSE r[i] = NoPkt
  /\ \A i, j \in u : r[i] = r[j] => i = j

InUse == Slots(sr_completed, sr_added)
Ring  == RingOK(sr_srpp, InUse, size, mblksize)

(* The packets of the ring, and those allocated.                           *)
Held(r)  == {r[i] : i \in DOMAIN r} \ {NoPkt}
Alloc(z) == {p \in Pkts : z[p] # 0}

(* Each of the owners has its own packets, and together they have all.     *)
Parts(all, r, p, g, f, u, s) ==
  /\ all = r \cup p \cup g \cup f \cup u \cup s
  /\ r \cap (p \cup g \cup f \cup u \cup s) = {}
  /\ p \cap (g \cup f \cup u \cup s) = {}
  /\ g \cap (f \cup u \cup s) = {} /\ f \cap (u \cup s) = {} /\ u \cap s = {}

Inj(s) == \A i, j \in DOMAIN s : s[i] = s[j] => i = j

Owners ==
  /\ Inj(put) /\ Inj(get)
  /\ Parts(Alloc(size), Held(sr_srpp), Range(put), Range(get), flows, up, stack)

(* The counts of the pool.                                                 *)
Counts ==
  /\ srfpp_count = Len(get) /\ srfpp_min <= srfpp_count
  /\ srfpp_loaned = Len(put) + Cardinality(flows \cup up \cup stack) + lost

IInv == TypeOK /\ Phases /\ Indices /\ Ring /\ Owners /\ Counts

-----------------------------------------------------------------------------
(* Unsigned arithmetic.                                                    *)
LEMMA Constants ==
  /\ NDescs \in Nat \ {0} /\ NDescs >= 2 /\ CtrMod \in Nat \ {0}
  /\ NDescs < CtrMod /\ CtrMod % NDescs = 0
  /\ Limit \in Nat \ {0} /\ Limit < NDescs
  /\ WptrAlign \in Nat \ {0} /\ WptrAlign <= Limit /\ NDescs % WptrAlign = 0
  /\ IsFiniteSet(Pkts) /\ NoPkt \notin Pkts
BY RxQueueAssumption

(* The distance from b up to a, with at most one wrap.                     *)
LEMMA MinusIs ==
  ASSUME NEW a \in Ctr, NEW b \in Ctr
  PROVE  /\ Minus(a, b) = IF a >= b THEN a - b ELSE a - b + CtrMod
         /\ Minus(a, b) \in Ctr
<1>1. CtrMod \in Nat \ {0} /\ a \in 0..(CtrMod - 1) /\ b \in 0..(CtrMod - 1)
  BY Constants DEF Ctr
<1>2. CASE a >= b
  <2>1. a - b \in 0..(CtrMod - 1) /\ a - b = CtrMod * 0 + (a - b)
    BY <1>1, <1>2
  <2>2. (CtrMod * 0 + (a - b)) % CtrMod = a - b
    BY <1>1, <2>1, ModUnique
  <2> QED
    BY <1>2, <2>1, <2>2 DEF Minus, Ctr
<1>3. CASE ~(a >= b)
  <2> DEFINE r == a - b + CtrMod
  <2>1. /\ r \in 0..(CtrMod - 1) /\ -1 \in Int
        /\ a - b = CtrMod * (-1) + r
    BY <1>1, <1>3
  <2> HIDE DEF r
  <2>2. (CtrMod * (-1) + r) % CtrMod = r
    BY <1>1, <2>1, ModUnique
  <2>3. Minus(a, b) = r
    BY <2>1, <2>2 DEF Minus
  <2> QED
    BY <1>3, <2>1, <2>3 DEF r, Ctr
<1> QED
  BY <1>2, <1>3

(* The sum of two counters, with at most one wrap.                         *)
LEMMA PlusIs ==
  ASSUME NEW a \in Ctr, NEW k \in Ctr
  PROVE  /\ Plus(a, k) = IF a + k < CtrMod THEN a + k ELSE a + k - CtrMod
         /\ Plus(a, k) \in Ctr
<1>1. CtrMod \in Nat \ {0} /\ a \in 0..(CtrMod - 1) /\ k \in 0..(CtrMod - 1)
  BY Constants DEF Ctr
<1>2. CASE a + k < CtrMod
  <2>1. a + k \in 0..(CtrMod - 1) /\ a + k = CtrMod * 0 + (a + k)
    BY <1>1, <1>2
  <2>2. (CtrMod * 0 + (a + k)) % CtrMod = a + k
    BY <1>1, <2>1, ModUnique
  <2> QED
    BY <1>2, <2>1, <2>2 DEF Plus, Ctr
<1>3. CASE ~(a + k < CtrMod)
  <2> DEFINE r == a + k - CtrMod
  <2>1. r \in 0..(CtrMod - 1) /\ a + k = CtrMod * 1 + r
    BY <1>1, <1>3
  <2> HIDE DEF r
  <2>2. (CtrMod * 1 + r) % CtrMod = r
    BY <1>1, <2>1, ModUnique
  <2>3. Plus(a, k) = r
    BY <2>1, <2>2 DEF Plus
  <2> QED
    BY <1>3, <2>1, <2>3 DEF r, Ctr
<1> QED
  BY <1>2, <1>3

(* The slot of a counter does not depend on its wrap.                      *)
LEMMA IdWraps ==
  ASSUME NEW x \in Int
  PROVE  Id(x - CtrMod) = Id(x) /\ Id(x) \in 0..(NDescs - 1)
<1> DEFINE n == NDescs
<1>1. n \in Nat \ {0} /\ CtrMod \in Int /\ CtrMod % n = 0
  BY Constants
<1>2. /\ x \div n \in Int /\ x = n * (x \div n) + (x % n)
      /\ CtrMod \div n \in Int /\ CtrMod = n * (CtrMod \div n) + (CtrMod % n)
      /\ x % n \in 0..(n - 1)
  BY <1>1, DivMod, ModRange
<1> HIDE DEF n
<1> DEFINE q == x \div n
           c == CtrMod \div n
           r == x % n
<1>3. q \in Int /\ c \in Int /\ r \in 0..(n - 1) /\ x = n * q + r
      /\ CtrMod = n * c
  BY <1>1, <1>2
<1> HIDE DEF q, c, r
<1>4. x - CtrMod = n * (q - c) + r
  <2>1. n * (q - c) = n * q - n * c
    BY <1>1, <1>3
  <2> QED
    BY <1>1, <1>3, <2>1
<1>5. q - c \in Int
  BY <1>3
<1>6. (n * (q - c) + r) % n = r
  BY <1>1, <1>3, <1>5, ModUnique
<1>7. (x - CtrMod) % n = x % n
  BY <1>4, <1>6 DEF r
<1> QED
  BY <1>2, <1>7 DEF Id, n

(* Two counters at most a ring apart with the same slot are equal.         *)
LEMMA IdApart ==
  ASSUME NEW x \in Int, NEW m \in 0..(NDescs - 1), NEW k \in 0..(NDescs - 1),
         Id(x + m) = Id(x + k)
  PROVE  m = k
<1>1. /\ NDescs \in Nat \ {0} /\ x + m \in Int /\ x + k \in Int
      /\ -NDescs < (x + m) - (x + k) /\ (x + m) - (x + k) < NDescs
  BY Constants
<1>2. (x + m) % NDescs = (x + k) % NDescs
  BY DEF Id
<1>3. x + m = x + k
  BY <1>1, <1>2, ModInjective
<1> QED
  BY <1>1, <1>3

(* The slots between two counters, counted from a third.                   *)
LEMMA SlotsFrom ==
  ASSUME NEW r \in Ctr, NEW a \in Ctr, NEW b \in Ctr,
         Minus(a, r) <= Minus(b, r)
  PROVE  /\ Minus(b, a) = Minus(b, r) - Minus(a, r)
         /\ Slots(a, b) = {Id(r + m) : m \in Minus(a, r)..(Minus(b, r) - 1)}
<1> DEFINE A == Minus(a, r)
           B == Minus(b, r)
<1>1. /\ CtrMod \in Nat \ {0} /\ r \in 0..(CtrMod - 1) /\ a \in 0..(CtrMod - 1)
      /\ b \in 0..(CtrMod - 1)
  BY Constants DEF Ctr
<1>2. /\ A = IF a >= r THEN a - r ELSE a - r + CtrMod
      /\ B = IF b >= r THEN b - r ELSE b - r + CtrMod
      /\ Minus(b, a) = IF b >= a THEN b - a ELSE b - a + CtrMod
      /\ A <= B
  BY MinusIs
<1> HIDE DEF A, B
<1>3. /\ Minus(b, a) = B - A /\ A \in Nat /\ B \in Nat
      /\ a = r + A \/ a = (r + A) - CtrMod
  BY <1>1, <1>2
<1>4. ASSUME NEW k \in 0..(B - A - 1) PROVE Id(a + k) = Id(r + (A + k))
  <2>1. r + (A + k) \in Int
    BY <1>1, <1>3
  <2>2. a + k = r + (A + k) \/ a + k = (r + (A + k)) - CtrMod
    BY <1>1, <1>3
  <2> QED
    BY <2>1, <2>2, IdWraps
<1>5. Slots(a, b) = {Id(a + k) : k \in 0..(B - A - 1)}
  BY <1>3 DEF Slots
<1>6. /\ \A k \in 0..(B - A - 1) : A + k \in A..(B - 1)
      /\ \A m \in A..(B - 1) : m - A \in 0..(B - A - 1) /\ A + (m - A) = m
  BY <1>3
<1>7. Slots(a, b) = {Id(r + m) : m \in A..(B - 1)}
  BY <1>4, <1>5, <1>6
<1> QED
  BY <1>3, <1>7 DEF A, B

(* A counter lies at its distance from any other.                          *)
LEMMA SlotOf ==
  ASSUME NEW r \in Ctr, NEW a \in Ctr
  PROVE  Id(a) = Id(r + Minus(a, r)) /\ Minus(a, r) \in Nat
<1>1. /\ CtrMod \in Nat \ {0} /\ r \in 0..(CtrMod - 1) /\ a \in 0..(CtrMod - 1)
      /\ Minus(a, r) \in 0..(CtrMod - 1)
  BY Constants, MinusIs DEF Ctr
<1>2. /\ r + Minus(a, r) \in Int
      /\ a = r + Minus(a, r) \/ a = (r + Minus(a, r)) - CtrMod
  BY <1>1, MinusIs
<1>3. CASE a = r + Minus(a, r)
  BY <1>1, <1>3
<1>4. CASE a = (r + Minus(a, r)) - CtrMod
  BY <1>1, <1>2, <1>4, IdWraps
<1> QED
  BY <1>2, <1>3, <1>4

(* The slots up to b are those up to a and those from there on, and the    *)
(* slot of b itself is not one of them.                                    *)
LEMMA SlotsSplit ==
  ASSUME NEW r \in Ctr, NEW a \in Ctr, NEW b \in Ctr,
         Minus(a, r) <= Minus(b, r), Minus(b, r) < NDescs
  PROVE  /\ Slots(r, b) = Slots(r, a) \cup Slots(a, b)
         /\ Slots(r, a) \cap Slots(a, b) = {} /\ Id(b) \notin Slots(r, b)
         /\ Slots(r, b) \subseteq 0..(NDescs - 1)
<1> DEFINE A == Minus(a, r)
           B == Minus(b, r)
           N == NDescs
<1>1. A \in Nat /\ B \in Nat /\ A <= B /\ B < N /\ r \in Int /\ N \in Nat
  BY Constants, SlotOf DEF Ctr
<1>2. Minus(r, r) = 0
  BY MinusIs, Constants DEF Ctr
<1>3. Slots(a, b) = {Id(r + m) : m \in A..(B - 1)}
  BY SlotsFrom
<1>4. Slots(r, b) = {Id(r + m) : m \in 0..(B - 1)}
  BY <1>1, <1>2, SlotsFrom
<1>5. Slots(r, a) = {Id(r + m) : m \in 0..(A - 1)}
  BY <1>1, <1>2, SlotsFrom
<1>6. Id(b) = Id(r + B)
  BY SlotOf
<1> HIDE DEF A, B, N
<1>7. \A m, k \in 0..(N - 1) : Id(r + m) = Id(r + k) => m = k
  BY <1>1, IdApart DEF N
<1>8. \A m \in 0..B : m \in 0..(N - 1) /\ r + m \in Int
  BY <1>1
<1>9. \A m \in 0..B : Id(r + m) \in 0..(N - 1)
  BY <1>8, IdWraps DEF N
<1>10. /\ 0..(B - 1) = (0..(A - 1)) \cup (A..(B - 1))
       /\ (0..(A - 1)) \cap (A..(B - 1)) = {}
       /\ B \notin 0..(B - 1) /\ B \in 0..B /\ 0..(B - 1) \subseteq 0..B
  BY <1>1
<1>11. Slots(r, b) = Slots(r, a) \cup Slots(a, b)
  BY <1>3, <1>4, <1>5, <1>10
<1>12. Slots(r, a) \cap Slots(a, b) = {}
  BY <1>3, <1>5, <1>7, <1>8, <1>10
<1>13. Id(b) \notin Slots(r, b)
  BY <1>4, <1>6, <1>7, <1>8, <1>10
<1>14. Slots(r, b) \subseteq 0..(N - 1)
  BY <1>4, <1>9, <1>10
<1> QED
  BY <1>11, <1>12, <1>13, <1>14 DEF N

(* There is no slot from a counter up to itself.                           *)
LEMMA SlotsNone ==
  ASSUME NEW a \in Ctr
  PROVE  Slots(a, a) = {} /\ Minus(a, a) = 0
<1>1. Minus(a, a) = 0
  BY MinusIs, Constants DEF Ctr
<1> QED
  BY <1>1 DEF Slots

(* A counter that moves on by k within the limit is k farther from         *)
(* another.                                                                *)
LEMMA PlusOff ==
  ASSUME NEW r \in Ctr, NEW a \in Ctr, NEW k \in Nat,
         Minus(a, r) + k <= Limit
  PROVE  /\ Plus(a, k) \in Ctr /\ k \in Ctr
         /\ Minus(Plus(a, k), r) = Minus(a, r) + k
         /\ Minus(Plus(a, k), a) = k
<1>1. /\ CtrMod \in Nat \ {0} /\ r \in 0..(CtrMod - 1) /\ a \in 0..(CtrMod - 1)
      /\ Limit < CtrMod /\ Limit \in Nat
  BY Constants DEF Ctr
<1>2. /\ Minus(a, r) \in Nat
      /\ Minus(a, r) = IF a >= r THEN a - r ELSE a - r + CtrMod
  BY SlotOf, MinusIs
<1>3. k \in Ctr
  BY <1>1, <1>2 DEF Ctr
<1> DEFINE b == Plus(a, k)
<1>4. /\ b = IF a + k < CtrMod THEN a + k ELSE a + k - CtrMod
      /\ b \in Ctr /\ b \in 0..(CtrMod - 1)
  BY <1>3, PlusIs DEF Ctr
<1> HIDE DEF b
<1>5. /\ Minus(b, r) = IF b >= r THEN b - r ELSE b - r + CtrMod
      /\ Minus(b, a) = IF b >= a THEN b - a ELSE b - a + CtrMod
  BY <1>4, MinusIs
<1> QED
  BY <1>1, <1>2, <1>3, <1>4, <1>5 DEF b

(* The slot of index i lies (i - Id(a)) % NDescs places on from that of a. *)
LEMMA PlaceOf ==
  ASSUME NEW a \in Ctr, NEW i \in 0..(NDescs - 1)
  PROVE  /\ (i - Id(a)) % NDescs \in 0..(NDescs - 1)
         /\ Id(a + ((i - Id(a)) % NDescs)) = i
<1> DEFINE n == NDescs
           r == a % n
           q == a \div n
           d == (i - r) % n
           e == (i - r) \div n
<1>1. n \in Nat \ {0} /\ a \in Int /\ i \in 0..(n - 1)
  BY Constants DEF Ctr
<1>2. r \in 0..(n - 1) /\ q \in Int /\ a = n * q + r
  BY <1>1, DivMod, ModRange
<1> HIDE DEF n, r, q
<1>3. i - r \in Int
  BY <1>1, <1>2
<1>4. d \in 0..(n - 1) /\ e \in Int /\ i - r = n * e + d
  BY <1>1, <1>3, DivMod, ModRange
<1> HIDE DEF d, e
<1>5. q - e \in Int /\ n * (q - e) = n * q - n * e
  BY <1>1, <1>2, <1>4
<1>6. n * q \in Int /\ n * e \in Int /\ n * (q - e) \in Int
  BY <1>1, <1>2, <1>4, <1>5
<1>7. a + d = n * (q - e) + i
  BY <1>1, <1>2, <1>4, <1>5, <1>6
<1>8. (n * (q - e) + i) % n = i
  BY <1>1, <1>5, ModUnique
<1> QED
  BY <1>4, <1>7, <1>8 DEF Id, d, r, n

(* The slots from a up to b, by their places.                              *)
LEMMA SlotsByPlace ==
  ASSUME NEW a \in Ctr, NEW b \in Ctr, Minus(b, a) < NDescs,
         NEW i \in 0..(NDescs - 1)
  PROVE  i \in Slots(a, b) <=> (i - Id(a)) % NDescs < Minus(b, a)
<1> DEFINE d == (i - Id(a)) % NDescs
           m == Minus(b, a)
<1>1. d \in 0..(NDescs - 1) /\ Id(a + d) = i
  BY PlaceOf
<1>2. m \in Nat /\ m < NDescs /\ NDescs \in Nat /\ a \in Int
  BY SlotOf, Constants DEF Ctr
<1>3. Slots(a, b) = {Id(a + k) : k \in 0..(m - 1)}
  BY DEF Slots
<1> HIDE DEF d, m
<1>4. ASSUME d < m PROVE i \in Slots(a, b)
  <2>1. d \in 0..(m - 1)
    BY <1>1, <1>2, <1>4
  <2> QED
    BY <1>1, <1>3, <2>1
<1>5. ASSUME i \in Slots(a, b) PROVE d < m
  <2>1. PICK k \in 0..(m - 1) : i = Id(a + k)
    BY <1>3, <1>5
  <2>2. k \in 0..(NDescs - 1)
    BY <1>2
  <2>3. k = d
    BY <1>1, <1>2, <2>1, <2>2, IdApart
  <2> QED
    BY <1>2, <2>3
<1> QED
  BY <1>4, <1>5 DEF d, m

-----------------------------------------------------------------------------
(* Whole groups of descriptors.                                            *)
LEMMA ModLeast ==
  ASSUME NEW n \in Nat \ {0}, NEW a \in Nat
  PROVE  a % n <= a
<1>1. CASE a < n
  <2>1. a \in 0..(n - 1) /\ a = n * 0 + a
    BY <1>1
  <2>2. (n * 0 + a) % n = a
    BY <2>1, ModUnique
  <2> QED
    BY <2>1, <2>2
<1>2. CASE ~(a < n)
  <2>1. a % n \in 0..(n - 1)
    BY ModRange
  <2> QED
    BY <1>2, <2>1
<1> QED
  BY <1>1, <1>2

(* A multiple of the modulus does not count.                               *)
LEMMA ModShift ==
  ASSUME NEW n \in Nat \ {0}, NEW q \in Int, NEW x \in Int
  PROVE  (n * q + x) % n = x % n
<1>1. x % n \in 0..(n - 1) /\ x \div n \in Int /\ x = n * (x \div n) + (x % n)
  BY DivMod, ModRange
<1> DEFINE r == x % n
           e == x \div n
<1>2. r \in 0..(n - 1) /\ e \in Int /\ x = n * e + r
  BY <1>1
<1> HIDE DEF r, e
<1>3. q + e \in Int /\ n * (q + e) = n * q + n * e
  BY <1>2
<1>4. n * q \in Int /\ n * e \in Int
  BY <1>2
<1>5. n * q + x = n * (q + e) + r
  BY <1>2, <1>3, <1>4
<1>6. (n * (q + e) + r) % n = r
  BY <1>2, <1>3, ModUnique
<1> QED
  BY <1>5, <1>6 DEF r

(* The counters hold whole groups.                                         *)
LEMMA GroupsWrap == \E q \in Int : CtrMod = WptrAlign * q
<1> DEFINE w == WptrAlign
           d == NDescs \div w
           c == CtrMod \div NDescs
<1>1. /\ d \in Int /\ NDescs = w * d + (NDescs % w)
      /\ c \in Int /\ CtrMod = NDescs * c + (CtrMod % NDescs)
  BY Constants, DivMod
<1>2. w \in Int /\ NDescs = w * d /\ CtrMod = NDescs * c
  BY <1>1, Constants
<1> HIDE DEF w, d, c
<1>3. d * c \in Int /\ (w * d) * c = w * (d * c)
  BY <1>1, <1>2
<1> QED
  BY <1>2, <1>3 DEF w

(* What is pushed after k more descriptors is no less than what was pushed *)
(* before, and no more than was added.                                     *)
LEMMA PushOff ==
  ASSUME NEW c \in Ctr, NEW a \in Ctr, NEW k \in Nat,
         Minus(QPush(a), c) <= Minus(a, c), QPush(a) \in Ctr,
         Minus(a, c) + k <= Limit
  PROVE  LET b == Plus(a, k)
             p == QPush(b)
         IN  /\ p \in Ctr /\ Minus(p, c) <= Minus(b, c)
             /\ Minus(QPush(a), c) <= Minus(p, c)
<1> DEFINE w == WptrAlign
           b == Plus(a, k)
           r == a % w
           s == b % w
           M == CtrMod
<1>1. /\ M \in Nat \ {0} /\ c \in 0..(M - 1) /\ a \in 0..(M - 1)
      /\ w \in Nat \ {0} /\ Limit \in Nat /\ Limit < M
  BY Constants DEF Ctr
<1>2. /\ b \in Ctr /\ b \in 0..(M - 1) /\ k \in Ctr
      /\ Minus(b, c) = Minus(a, c) + k
      /\ b = IF a + k < M THEN a + k ELSE a + k - M
  BY PlusOff, PlusIs DEF Ctr
<1> HIDE DEF b
<1>3. /\ r \in 0..(w - 1) /\ r <= a /\ s \in 0..(w - 1) /\ s <= b
  <2>1. a \in Nat /\ b \in Nat /\ a \in Int /\ b \in Int
    BY <1>1, <1>2
  <2> HIDE DEF w
  <2>2. r \in 0..(w - 1) /\ s \in 0..(w - 1)
    BY <1>1, <2>1, ModRange
  <2>3. r <= a /\ s <= b
    BY <1>1, <2>1, ModLeast
  <2> QED
    BY <2>2, <2>3
<1>4. s <= r + k
  <2>1. PICK q \in Int : M = w * q
    BY GroupsWrap
  <2>2. a + k \in Int /\ -1 \in Int /\ -q \in Int
    BY <1>1
  <2>3. w * (-q) = -(w * q) /\ w * q \in Int
    BY <1>1, <2>1, <2>2
  <2>4. a + k - M = w * (-q) + (a + k)
    BY <1>1, <2>1, <2>2, <2>3
  <2>5. (w * (-q) + (a + k)) % w = (a + k) % w
    BY <1>1, <2>2, ModShift
  <2>6. s = (a + k) % w
    BY <1>2, <2>4, <2>5
  <2>7. a \div w \in Int /\ a = w * (a \div w) + r
    BY <1>1, DivMod
  <2> DEFINE e == a \div w
  <2>8. e \in Int /\ a = w * e + r /\ w * e \in Int /\ r + k \in Nat
    BY <1>1, <1>3, <2>7
  <2> HIDE DEF e, r
  <2>9. a + k = w * e + (r + k)
    BY <1>1, <1>3, <2>8
  <2>10. (w * e + (r + k)) % w = (r + k) % w
    <3> DEFINE x == r + k
    <3>1. x \in Int /\ e \in Int /\ w \in Nat \ {0}
      BY <1>1, <2>8
    <3> HIDE DEF x, w
    <3>2. (w * e + x) % w = x % w
      BY <3>1, ModShift
    <3> QED
      BY <3>2 DEF x
  <2>11. (r + k) % w <= r + k
    BY <1>1, <2>8, ModLeast
  <2> QED
    BY <2>6, <2>9, <2>10, <2>11
<1> DEFINE p0 == QPush(a)
           p1 == QPush(b)
<1>5. p0 = a - r /\ p1 = b - s
  BY DEF QPush
<1>6. p0 \in Ctr /\ Minus(p0, c) <= Minus(a, c)
  OBVIOUS
<1> HIDE DEF p0, p1, r, s
<1>7. p0 \in 0..(M - 1) /\ p1 \in 0..(M - 1) /\ p1 \in Ctr
  BY <1>1, <1>2, <1>3, <1>5, <1>6 DEF Ctr
<1>8. /\ Minus(p0, c) = IF p0 >= c THEN p0 - c ELSE p0 - c + M
      /\ Minus(p1, c) = IF p1 >= c THEN p1 - c ELSE p1 - c + M
      /\ Minus(a, c) = IF a >= c THEN a - c ELSE a - c + M
      /\ Minus(b, c) = IF b >= c THEN b - c ELSE b - c + M
  BY <1>2, <1>6, <1>7, MinusIs
<1> HIDE DEF M
<1>9. Minus(p0, c) = Minus(a, c) - r /\ Minus(p0, c) >= 0
  BY <1>1, <1>3, <1>5, <1>6, <1>7, <1>8
<1>10. Minus(p1, c) = Minus(b, c) - s
  BY <1>1, <1>2, <1>3, <1>4, <1>5, <1>7, <1>8, <1>9
<1>11. Minus(a, c) \in Int /\ Minus(b, c) \in Int
  BY <1>1, <1>2, <1>8
<1> QED
  BY <1>2, <1>3, <1>4, <1>7, <1>9, <1>10, <1>11 DEF b, p0, p1

-----------------------------------------------------------------------------
(* Lists of packets without repetition.                                    *)
LEMMA ConcatType ==
  ASSUME NEW S, NEW s \in Seq(S), NEW t \in Seq(S)
  PROVE  /\ s \o t \in Seq(S) /\ Len(s \o t) = Len(s) + Len(t)
         /\ \A i \in 1..(Len(s) + Len(t)) :
              (s \o t)[i] = IF i <= Len(s) THEN s[i] ELSE t[i - Len(s)]
BY ConcatProperties

(* The members of a list.                                                  *)
LEMMA RangeType ==
  ASSUME NEW S, NEW s \in Seq(S)
  PROVE  /\ Range(s) \subseteq S /\ Len(s) \in Nat /\ DOMAIN s = 1..Len(s)
         /\ \A x : x \in Range(s) <=> \E i \in 1..Len(s) : s[i] = x
<1>1. DOMAIN s = 1..Len(s) /\ \A i \in 1..Len(s) : s[i] \in S
  OBVIOUS
<1> QED
  BY <1>1 DEF Range

(* Two lists of different packets, one after the other.                    *)
LEMMA ConcatInj ==
  ASSUME NEW S, NEW s \in Seq(S), NEW t \in Seq(S), Inj(s), Inj(t),
         Range(s) \cap Range(t) = {}
  PROVE  /\ s \o t \in Seq(S) /\ Len(s \o t) = Len(s) + Len(t)
         /\ Inj(s \o t) /\ Range(s \o t) = Range(s) \cup Range(t)
<1> DEFINE q == s \o t
           m == Len(s)
           n == Len(t)
<1>1. /\ q \in Seq(S) /\ Len(q) = m + n
      /\ \A i \in 1..(m + n) : q[i] = IF i <= m THEN s[i] ELSE t[i - m]
  BY ConcatType
<1>2. /\ DOMAIN q = 1..Len(q) /\ DOMAIN s = 1..m /\ DOMAIN t = 1..n
      /\ m \in Nat /\ n \in Nat
      /\ \A x : x \in Range(s) <=> \E i \in 1..m : s[i] = x
      /\ \A x : x \in Range(t) <=> \E i \in 1..n : t[i] = x
      /\ \A x : x \in Range(q) <=> \E i \in 1..Len(q) : q[i] = x
  <2> HIDE DEF q
  <2> QED
    BY <1>1, RangeType
<1> HIDE DEF q, m, n
<1>3. \A i \in 1..(m + n) : IF i <= m THEN i \in 1..m ELSE i - m \in 1..n
  BY <1>2
<1>4. Inj(q)
  <2> SUFFICES ASSUME NEW i \in 1..(m + n), NEW j \in 1..(m + n), q[i] = q[j]
               PROVE  i = j
    BY <1>1, <1>2 DEF Inj
  <2>1. CASE i <= m /\ j <= m
    BY <1>1, <1>2, <1>3, <2>1 DEF Inj
  <2>2. CASE i <= m /\ ~(j <= m)
    BY <1>1, <1>2, <1>3, <2>2
  <2>3. CASE ~(i <= m) /\ j <= m
    BY <1>1, <1>2, <1>3, <2>3
  <2>4. CASE ~(i <= m) /\ ~(j <= m)
    <3>1. i - m \in 1..n /\ j - m \in 1..n /\ t[i - m] = t[j - m]
      BY <1>1, <1>3, <2>4
    <3>2. i - m = j - m
      BY <1>2, <3>1 DEF Inj
    <3> QED
      BY <1>2, <3>2
  <2> QED
    BY <2>1, <2>2, <2>3, <2>4
<1>5. ASSUME NEW x \in Range(q) PROVE x \in Range(s) \cup Range(t)
  BY <1>1, <1>2, <1>3
<1>6. ASSUME NEW x \in Range(s) PROVE x \in Range(q)
  <2>1. PICK i \in 1..m : s[i] = x
    BY <1>2
  <2>2. i \in 1..(m + n) /\ i <= m
    BY <1>2
  <2> QED
    BY <1>1, <1>2, <2>1, <2>2
<1>7. ASSUME NEW x \in Range(t) PROVE x \in Range(q)
  <2>1. PICK i \in 1..n : t[i] = x
    BY <1>2
  <2>2. m + i \in 1..(m + n) /\ ~(m + i <= m) /\ (m + i) - m = i
    BY <1>2
  <2> QED
    BY <1>1, <1>2, <2>1, <2>2
<1> QED
  BY <1>1, <1>4, <1>5, <1>6, <1>7 DEF q, m, n

(* A list cut in two.                                                      *)
LEMMA CutInj ==
  ASSUME NEW S, NEW s \in Seq(S), Inj(s), NEW k \in 0..Len(s)
  PROVE  LET a == SubSeq(s, 1, k)
             b == SubSeq(s, k + 1, Len(s))
         IN  /\ a \in Seq(S) /\ b \in Seq(S) /\ Inj(a) /\ Inj(b)
             /\ Len(a) = k /\ Len(b) = Len(s) - k
             /\ Range(a) \cap Range(b) = {}
             /\ Range(a) \cup Range(b) = Range(s)
<1> DEFINE a == SubSeq(s, 1, k)
           b == SubSeq(s, k + 1, Len(s))
           n == Len(s)
<1>1. /\ n \in Nat /\ k \in Nat /\ k <= n /\ DOMAIN s = 1..n
      /\ \A i \in 1..n : s[i] \in S
  OBVIOUS
<1>2. /\ a \in Seq(S) /\ Len(a) = k /\ \A i \in 1..k : a[i] = s[i]
  <2>1. \A i \in 1..k : s[i] \in S /\ 1 + i - 1 = i
    BY <1>1
  <2>2. /\ a \in Seq(S) /\ Len(a) = IF 1 <= k THEN k - 1 + 1 ELSE 0
        /\ \A i \in 1..(k - 1 + 1) : a[i] = s[1 + i - 1]
    BY <1>1, <2>1, SubSeqProperties
  <2> HIDE DEF a
  <2> QED
    BY <1>1, <2>1, <2>2
<1>3. /\ b \in Seq(S) /\ Len(b) = n - k /\ \A i \in 1..(n - k) : b[i] = s[k + i]
  <2>1. \A i \in (k + 1)..n : s[i] \in S
    BY <1>1
  <2>2. /\ b \in Seq(S)
        /\ Len(b) = IF k + 1 <= n THEN n - (k + 1) + 1 ELSE 0
        /\ \A i \in 1..(n - (k + 1) + 1) : b[i] = s[(k + 1) + i - 1]
    BY <1>1, <2>1, SubSeqProperties
  <2> HIDE DEF b
  <2>3. Len(b) = n - k
    <3> HIDE DEF n
    <3> QED
      BY <1>1, <2>2
  <2>4. ASSUME NEW i \in 1..(n - k) PROVE b[i] = s[k + i]
    <3>1. i \in 1..(n - (k + 1) + 1) /\ (k + 1) + i - 1 = k + i
      BY <1>1
    <3> QED
      BY <2>2, <3>1
  <2> QED
    BY <2>2, <2>3, <2>4
<1> HIDE DEF a, b
<1>4. /\ DOMAIN a = 1..k /\ DOMAIN b = 1..(n - k)
      /\ \A x : x \in Range(a) <=> \E i \in 1..k : a[i] = x
      /\ \A x : x \in Range(b) <=> \E i \in 1..(n - k) : b[i] = x
      /\ \A x : x \in Range(s) <=> \E i \in 1..n : s[i] = x
  <2>1. s \in Seq(S)
    OBVIOUS
  <2> HIDE DEF n
  <2>2. DOMAIN a = 1..k /\ \A x : x \in Range(a) <=> \E i \in 1..k : a[i] = x
    BY <1>2, RangeType
  <2>3. /\ DOMAIN b = 1..(n - k)
        /\ \A x : x \in Range(b) <=> \E i \in 1..(n - k) : b[i] = x
    BY <1>3, RangeType
  <2>4. \A x : x \in Range(s) <=> \E i \in 1..n : s[i] = x
    BY <2>1, RangeType DEF n
  <2> QED
    BY <2>2, <2>3, <2>4
<1> HIDE DEF n
<1>5. /\ \A i \in 1..k : i \in 1..n
      /\ \A i \in 1..(n - k) : k + i \in 1..n /\ k + i \notin 1..k
      /\ \A i \in 1..n : i \in 1..k \/ (i - k \in 1..(n - k) /\ k + (i - k) = i)
  BY <1>1
<1>6. Inj(a)
  BY <1>1, <1>2, <1>4, <1>5 DEF Inj
<1>7. Inj(b)
  <2> SUFFICES ASSUME NEW i \in 1..(n - k), NEW j \in 1..(n - k), b[i] = b[j]
               PROVE  i = j
    BY <1>4 DEF Inj
  <2>1. k + i = k + j
    BY <1>1, <1>3, <1>5 DEF Inj
  <2> QED
    BY <1>1, <2>1
<1>8. Range(a) \cap Range(b) = {}
  <2> SUFFICES ASSUME NEW x \in Range(a), x \in Range(b) PROVE FALSE
    OBVIOUS
  <2>1. PICK i \in 1..k : s[i] = x
    BY <1>2, <1>4
  <2>2. PICK j \in 1..(n - k) : s[k + j] = x
    BY <1>3, <1>4
  <2> QED
    BY <1>1, <1>5, <2>1, <2>2 DEF Inj
<1>9. Range(a) \cup Range(b) = Range(s)
  <2>1. ASSUME NEW x \in Range(s) PROVE x \in Range(a) \cup Range(b)
    <3>1. PICK i \in 1..n : s[i] = x
      BY <1>4
    <3>2. CASE i \in 1..k
      BY <1>2, <1>4, <3>1, <3>2
    <3>3. CASE i - k \in 1..(n - k) /\ k + (i - k) = i
      BY <1>3, <1>4, <3>1, <3>3
    <3> QED
      BY <1>5, <3>2, <3>3
  <2>2. Range(a) \subseteq Range(s)
    BY <1>2, <1>4, <1>5
  <2>3. Range(b) \subseteq Range(s)
    BY <1>3, <1>4, <1>5
  <2> QED
    BY <2>1, <2>2, <2>3
<1> QED
  BY <1>2, <1>3, <1>6, <1>7, <1>8, <1>9 DEF a, b, n

(* The list that SetToSeq makes of a set of packets.                       *)
LEMMA SetSeq ==
  ASSUME NEW S, S \subseteq Pkts
  PROVE  /\ SetToSeq(S) \in Seq(Pkts) /\ Inj(SetToSeq(S))
         /\ Len(SetToSeq(S)) = Cardinality(S) /\ Cardinality(S) \in Nat
         /\ Range(SetToSeq(S)) = S
<1> DEFINE n == Cardinality(S)
           f == SetToSeq(S)
<1>1. IsFiniteSet(S) /\ n \in Nat /\ ExistsBijection(1..n, S)
  BY Constants, FS_Subset, FS_CardinalityType
<1>2. PICK g \in [1..n -> S] : \A i, j \in 1..n : g[i] = g[j] => i = j
  BY <1>1 DEF ExistsBijection, Bijection, Injection, Surjection, IsInjective
<1>3. g \in {h \in [1..n -> S] : IsInjective(h)}
  BY <1>2 DEF IsInjective
<1>4. f \in [1..n -> S] /\ IsInjective(f)
  BY <1>3 DEF SetToSeq
<1> HIDE DEF f
<1>5. f \in Injection(1..n, S)
  BY <1>4 DEF Injection, IsInjective
<1>6. IsFiniteSet(1..n) /\ Cardinality(1..n) = n
  <2> HIDE DEF n
  <2>1. 1 \in Int /\ n \in Int /\ (IF 1 > n THEN 0 ELSE n - 1 + 1) = n
    BY <1>1
  <2> QED
    BY <2>1, FS_Interval
<1>7. f \in Surjection(1..n, S)
  BY <1>1, <1>5, <1>6, FS_Injection
<1>8. \A i, j \in 1..n : f[i] = f[j] => i = j
  BY <1>4 DEF IsInjective
<1>9. f \in [1..n -> Pkts] /\ S = {f[i] : i \in 1..n}
  BY <1>4, <1>7 DEF Surjection
<1>10. /\ f \in Seq(Pkts) /\ Len(f) = n /\ Inj(f)
       /\ Range(f) = {f[i] : i \in 1..n}
  <2>1. n \in Nat /\ f \in [1..n -> Pkts]
    BY <1>1, <1>9
  <2> HIDE DEF n
  <2>2. f \in Seq(Pkts) /\ Len(f) = n /\ DOMAIN f = 1..n
    BY <2>1, FunctionIsSeq
  <2> QED
    BY <1>8, <2>2 DEF Inj, Range
<1> QED
  BY <1>1, <1>9, <1>10 DEF f

(* The packets of a list that fit, once each.                              *)
LEMMA FittingIs ==
  ASSUME NEW ps \in Seq(Pkts), Inj(ps)
  PROVE  /\ Fitting(ps) \in Seq(Pkts) /\ Inj(Fitting(ps))
         /\ Len(Fitting(ps)) \in 0..Len(ps)
         /\ Range(Fitting(ps)) = {p \in Range(ps) : Fits(p)}
<1> DEFINE at == {i \in DOMAIN ps : Fits(ps[i])}
           m == Len(ps)
           n == Cardinality(at)
           upto(i) == {j \in at : j <= i}
           rank == [i \in at |-> Cardinality(upto(i))]
           nth(k) == CHOOSE i \in at : Cardinality(upto(i)) = k
           f == [k \in 1..n |-> ps[nth(k)]]
<1>1. m \in Nat /\ DOMAIN ps = 1..m /\ at \subseteq 1..m /\ Range(ps) \subseteq Pkts
  BY RangeType
<1>2. IsFiniteSet(at) /\ n \in 0..m
  <2>1. IsFiniteSet(1..m) /\ Cardinality(1..m) = m
    <3> HIDE DEF m
    <3>1. 1 \in Int /\ m \in Int /\ (IF 1 > m THEN 0 ELSE m - 1 + 1) = m
      BY <1>1
    <3> QED
      BY <3>1, FS_Interval
  <2> HIDE DEF at, m
  <2>2. IsFiniteSet(at) /\ n <= m
    <3>1. at \in SUBSET (1..m)
      BY <1>1
    <3>2. IsFiniteSet(at) /\ Cardinality(at) <= Cardinality(1..m)
      BY <2>1, <3>1, FS_Subset
    <3> QED
      BY <2>1, <3>2
  <2>3. n \in Nat
    BY <2>2, FS_CardinalityType
  <2> QED
    BY <1>1, <2>2, <2>3
<1> HIDE DEF m, at
<1>3. ASSUME NEW i \in at
      PROVE  /\ Cardinality(upto(i)) \in 1..n
             /\ upto(i) \subseteq at /\ i \in upto(i) /\ IsFiniteSet(upto(i))
  <2>1. upto(i) \subseteq at /\ i \in upto(i)
    BY <1>1
  <2> HIDE DEF upto
  <2>2. IsFiniteSet(upto(i)) /\ Cardinality(upto(i)) <= n
    BY <1>2, <2>1, FS_Subset
  <2>3. Cardinality(upto(i)) \in Nat /\ Cardinality(upto(i)) # 0
    BY <2>1, <2>2, FS_CardinalityType, FS_EmptySet
  <2> QED
    BY <1>2, <2>1, <2>2, <2>3
<1>4. ASSUME NEW i \in at, NEW j \in at, i < j
      PROVE  Cardinality(upto(i)) # Cardinality(upto(j))
  <2>1. upto(i) \subseteq upto(j) /\ j \notin upto(i) /\ j \in upto(j)
    <3>1. \A x \in at : x \in Int
      BY <1>1
    <3>2. \A x \in at : x <= i => x <= j
      BY <1>4, <3>1
    <3>3. ~(j <= i) /\ j <= j
      BY <1>4, <3>1
    <3> QED
      BY <3>2, <3>3
  <2>2. IsFiniteSet(upto(j))
    BY <1>3
  <2> HIDE DEF upto
  <2> QED
    BY <2>1, <2>2, FS_Subset
<1>5. \A i, j \in at : Cardinality(upto(i)) = Cardinality(upto(j)) => i = j
  <2> SUFFICES ASSUME NEW i \in at, NEW j \in at,
                      Cardinality(upto(i)) = Cardinality(upto(j)), i # j
               PROVE  FALSE
    OBVIOUS
  <2>1. i < j \/ j < i
    BY <1>1
  <2> HIDE DEF upto
  <2> QED
    BY <1>4, <2>1
<1> HIDE DEF upto
<1>6. rank \in Injection(at, 1..n)
  <2>1. rank \in [at -> 1..n]
    BY <1>3
  <2>2. IsInjective(rank)
    BY <1>5 DEF IsInjective
  <2> QED
    BY <2>1, <2>2 DEF Injection
<1>7. IsFiniteSet(1..n) /\ Cardinality(1..n) = n
  <2> HIDE DEF n
  <2>1. 1 \in Int /\ n \in Int /\ (IF 1 > n THEN 0 ELSE n - 1 + 1) = n
    BY <1>1, <1>2
  <2> QED
    BY <2>1, FS_Interval
<1>8. rank \in Surjection(at, 1..n)
  <2> HIDE DEF rank
  <2> QED
    BY <1>6, <1>7, FS_Injection
<1>9. \A k \in 1..n : \E i \in at : Cardinality(upto(i)) = k
  BY <1>8 DEF Surjection
<1>10. \A k \in 1..n : nth(k) \in at /\ Cardinality(upto(nth(k))) = k
  BY <1>9
<1>11. ASSUME NEW i \in at PROVE \E k \in 1..n : nth(k) = i
  <2> DEFINE k == Cardinality(upto(i))
  <2>1. k \in 1..n
    BY <1>3
  <2>2. nth(k) \in at /\ Cardinality(upto(nth(k))) = k
    BY <1>10, <2>1
  <2>3. nth(k) = i
    <3> DEFINE z == nth(k)
    <3>1. z \in at /\ Cardinality(upto(z)) = Cardinality(upto(i))
      BY <2>2
    <3> HIDE DEF z
    <3>2. z = i
      BY <1>5, <3>1
    <3> QED
      BY <3>2 DEF z
  <2> QED
    BY <2>1, <2>3
<1> HIDE DEF nth
<1>12. \A i \in at : i \in 1..m /\ ps[i] \in Pkts /\ Fits(ps[i])
  <2>1. \A i \in 1..m : ps[i] \in Pkts
    BY DEF m
  <2> QED
    BY <1>1, <2>1 DEF at
<1>13. \A k, l \in 1..n : ps[nth(k)] = ps[nth(l)] => k = l
  <2> SUFFICES ASSUME NEW k \in 1..n, NEW l \in 1..n, ps[nth(k)] = ps[nth(l)]
               PROVE  k = l
    OBVIOUS
  <2>1. nth(k) = nth(l)
    BY <1>1, <1>10, <1>12 DEF Inj
  <2> QED
    BY <1>10, <2>1
<1>14. f \in [1..n -> Pkts]
  BY <1>10, <1>12
<1>15. f \in Seq(Pkts) /\ Len(f) = n /\ DOMAIN f = 1..n
  <2>1. n \in Nat
    BY <1>1, <1>2
  <2> HIDE DEF f, n
  <2> QED
    BY <1>14, <2>1, FunctionIsSeq
<1>16. Inj(f)
  BY <1>13, <1>15 DEF Inj
<1>17. Range(f) = {p \in Range(ps) : Fits(p)}
  <2>1. \A x : x \in Range(f) <=> \E k \in 1..n : ps[nth(k)] = x
    BY <1>15 DEF Range
  <2>2. \A x : x \in Range(ps) /\ Fits(x) <=> \E i \in at : ps[i] = x
    BY <1>1 DEF Range, at
  <2>3. \A x : (\E k \in 1..n : ps[nth(k)] = x) <=> \E i \in at : ps[i] = x
    BY <1>10, <1>11
  <2> QED
    BY <2>1, <2>2, <2>3
<1>18. f = Fitting(ps)
  BY DEF f, nth, upto, n, at, Fitting
<1> HIDE DEF f, n
<1> QED
  BY <1>2, <1>15, <1>16, <1>17, <1>18 DEF m

(* The lesser of two numbers.                                              *)
LEMMA MinIs ==
  ASSUME NEW a \in Int, NEW b \in Int
  PROVE  Min({a, b}) = IF a <= b THEN a ELSE b
<1> DEFINE z == IF a <= b THEN a ELSE b
<1>1. z \in {a, b} /\ \A y \in {a, b} : z <= y
  OBVIOUS
<1>2. \A x \in {a, b} : (\A y \in {a, b} : x <= y) => x = z
  OBVIOUS
<1> HIDE DEF z
<1>3. Min({a, b}) = z
  BY <1>1, <1>2 DEF Min
<1> QED
  BY <1>3 DEF z

(* Sets of packets are finite; disjoint ones are counted together.         *)
LEMMA Count ==
  ASSUME NEW A, NEW B, A \subseteq Pkts, B \subseteq Pkts, A \cap B = {}
  PROVE  /\ IsFiniteSet(A) /\ IsFiniteSet(B)
         /\ Cardinality(A) \in Nat /\ Cardinality(B) \in Nat
         /\ Cardinality(A \cup B) = Cardinality(A) + Cardinality(B)
<1>1. IsFiniteSet(A) /\ IsFiniteSet(B)
  BY Constants, FS_Subset
<1>2. Cardinality(A) \in Nat /\ Cardinality(B) \in Nat
  BY <1>1, FS_CardinalityType
<1>3. Cardinality(A \cup B) = Cardinality(A) + Cardinality(B) - Cardinality({})
  BY <1>1, FS_Union
<1> QED
  BY <1>1, <1>2, <1>3, FS_EmptySet

-----------------------------------------------------------------------------
(* Posting different packets that are not in the ring fills the slots from *)
(* sr_added on, and leaves the others.                                     *)
LEMMA PostedRing ==
  ASSUME sr_srpp \in [0..(NDescs - 1) -> Pkts \cup {NoPkt}],
         sr_added \in Ctr, sr_completed \in Ctr, Ring,
         NEW ps \in Seq(Pkts), Inj(ps), Off(sr_added) + Len(ps) <= Limit,
         Range(ps) \cap Held(sr_srpp) = {}, NEW z,
         \A p \in Held(sr_srpp) \cup Range(ps) : z[p] = mblksize
  PROVE  LET r == Posted(ps)
         IN  /\ r \in [0..(NDescs - 1) -> Pkts \cup {NoPkt}]
             /\ RingOK(r, Slots(sr_completed, Plus(sr_added, Len(ps))), z,
                       mblksize)
             /\ Held(r) = Held(sr_srpp) \cup Range(ps)
<1> DEFINE r == Posted(ps)
           m == Len(ps)
           b == Plus(sr_added, m)
           place(i) == (i - Id(sr_added)) % NDescs
           new == Slots(sr_added, b)
           old == Slots(sr_completed, sr_added)
           D == 0..(NDescs - 1)
<1>1. /\ m \in Nat /\ DOMAIN ps = 1..m /\ Range(ps) \subseteq Pkts
      /\ \A x : x \in Range(ps) <=> \E k \in 1..m : ps[k] = x
  BY RangeType
<1>2. /\ b \in Ctr /\ Minus(b, sr_completed) = Minus(sr_added, sr_completed) + m
      /\ Minus(b, sr_added) = m
  BY <1>1, PlusOff DEF Off
<1>3. /\ Minus(sr_added, sr_completed) \in Nat /\ Limit \in Nat
      /\ Limit < NDescs /\ NDescs \in Nat /\ sr_added \in Int
  <2>1. Minus(sr_added, sr_completed) \in Nat
    BY SlotOf
  <2>2. sr_added \in Int
    BY Constants DEF Ctr
  <2> QED
    BY <2>1, <2>2, Constants
<1>4. /\ Minus(sr_added, sr_completed) + m <= Limit
      /\ DOMAIN sr_srpp = D
  BY DEF Off
<1> HIDE DEF m, b
<1>5. m < NDescs
  BY <1>1, <1>3, <1>4
<1>6. \A i \in D : /\ place(i) \in D /\ Id(sr_added + place(i)) = i
                   /\ i \in new <=> place(i) < m
  BY <1>2, <1>5, PlaceOf, SlotsByPlace
<1>7. /\ Slots(sr_completed, b) = old \cup new /\ old \cap new = {}
      /\ Slots(sr_completed, b) \subseteq D
  BY <1>1, <1>2, <1>3, <1>4, SlotsSplit
<1>8. /\ r = [i \in D |-> IF 1 + place(i) <= m THEN ps[1 + place(i)]
                          ELSE sr_srpp[i]]
  BY <1>4 DEF Posted, m
<1> HIDE DEF r, D, place, new, old
<1>9. \A i \in new : /\ i \in D /\ 1 + place(i) \in 1..m
                     /\ r[i] = ps[1 + place(i)]
  BY <1>1, <1>6, <1>7, <1>8 DEF D
<1>10. \A i \in D : i \notin new => r[i] = sr_srpp[i]
  BY <1>1, <1>6, <1>8 DEF D
<1>11. \A k \in 1..m : \E i \in new : 1 + place(i) = k
  <2> SUFFICES ASSUME NEW k \in 1..m PROVE \E i \in new : 1 + place(i) = k
    OBVIOUS
  <2> DEFINE i == Id(sr_added + (k - 1))
  <2>1. k - 1 \in D /\ sr_added + (k - 1) \in Int
    BY <1>1, <1>3, <1>5 DEF D
  <2>2. i \in D
    BY <2>1, IdWraps DEF D
  <2>3. place(i) \in D /\ Id(sr_added + place(i)) = Id(sr_added + (k - 1))
    BY <1>6, <2>2
  <2> HIDE DEF i
  <2>4. place(i) = k - 1
    BY <1>3, <2>1, <2>3, IdApart DEF D
  <2>5. i \in new
    BY <1>1, <1>6, <2>2, <2>4
  <2> QED
    BY <2>4, <2>5
<1>12. r \in [0..(NDescs - 1) -> Pkts \cup {NoPkt}]
  <2>1. \A i \in D : r[i] \in Pkts \cup {NoPkt}
    <3>1. \A i \in D : sr_srpp[i] \in Pkts \cup {NoPkt}
      BY DEF D
    <3>2. \A k \in 1..m : ps[k] \in Pkts
      BY <1>1
    <3> QED
      BY <1>9, <1>10, <3>1, <3>2
  <2>2. r = [i \in D |-> r[i]]
    BY <1>8
  <2>3. r \in [D -> Pkts \cup {NoPkt}]
    BY <2>1, <2>2
  <2> QED
    BY <2>3 DEF D
<1>13. /\ \A i \in D : IF i \in old THEN sr_srpp[i] \in Pkts
                                      /\ size[sr_srpp[i]] = mblksize
                       ELSE sr_srpp[i] = NoPkt
       /\ \A i, j \in old : sr_srpp[i] = sr_srpp[j] => i = j
  BY <1>4 DEF Ring, RingOK, InUse, old
<1>14. \A x : x \in Held(sr_srpp) <=> \E i \in old : sr_srpp[i] = x
  BY <1>4, <1>7, <1>13, Constants DEF Held
<1>15. \A i \in old : r[i] = sr_srpp[i] /\ i \in D
  BY <1>7, <1>10
<1>16. \A i \in D : IF i \in old \cup new THEN r[i] \in Pkts /\ z[r[i]] = mblksize
                    ELSE r[i] = NoPkt
  <2>1. \A i \in old : r[i] \in Held(sr_srpp) /\ r[i] \in Pkts
    BY <1>13, <1>14, <1>15
  <2>2. \A i \in new : r[i] \in Range(ps)
    BY <1>1, <1>9
  <2>3. \A i \in D : i \notin old \cup new => r[i] = NoPkt
    BY <1>10, <1>13
  <2> QED
    BY <1>1, <2>1, <2>2, <2>3
<1>17. \A i, j \in old \cup new : r[i] = r[j] => i = j
  <2>1. \A i, j \in old : r[i] = r[j] => i = j
    BY <1>13, <1>15
  <2>2. \A i \in old, j \in new : r[i] # r[j]
    BY <1>1, <1>9, <1>14, <1>15
  <2>3. \A i, j \in new : r[i] = r[j] => place(i) = place(j)
    <3> SUFFICES ASSUME NEW i \in new, NEW j \in new, r[i] = r[j]
                 PROVE  place(i) = place(j)
      OBVIOUS
    <3>1. 1 + place(i) = 1 + place(j)
      BY <1>1, <1>9 DEF Inj
    <3>2. place(i) \in Int /\ place(j) \in Int
      BY <1>6, <1>9 DEF D
    <3> QED
      BY <3>1, <3>2
  <2>4. \A i, j \in new : place(i) = place(j) => i = j
    BY <1>6, <1>9
  <2> QED
    BY <2>1, <2>2, <2>3, <2>4
<1>18. Held(r) = Held(sr_srpp) \cup Range(ps)
  <2>1. \A x : x \in Held(r) <=> \E i \in old \cup new : r[i] = x
    BY <1>7, <1>8, <1>16, Constants DEF Held
  <2>2. \A x : (\E i \in old : r[i] = x) <=> x \in Held(sr_srpp)
    BY <1>14, <1>15
  <2>3. \A x : (\E i \in new : r[i] = x) <=> x \in Range(ps)
    BY <1>1, <1>9, <1>11
  <2> QED
    BY <2>1, <2>2, <2>3
<1>19. RingOK(r, Slots(sr_completed, b), z, mblksize)
  BY <1>7, <1>8, <1>16, <1>17 DEF RingOK
<1> QED
  BY <1>12, <1>18, <1>19 DEF r, b, m

(* A state of which the invariant speaks, as a refill leaves it: r is its  *)
(* result and z the sizes of the packets.                                  *)
RefillOK(r, z) ==
  /\ r.put \in Seq(Pkts) /\ r.get \in Seq(Pkts) /\ Inj(r.put) /\ Inj(r.get)
  /\ r.count = Len(r.get) /\ r.min \in Nat /\ r.min <= r.count
  /\ r.loaned = Len(r.put) + Cardinality(flows \cup up \cup stack) + lost
  /\ r.added \in Ctr /\ r.pushed \in Ctr /\ r.pushed = QPush(r.added)
  /\ Off(sr_pushed) <= Off(r.pushed) /\ Off(r.pushed) <= Off(r.added)
  /\ Off(r.added) <= Limit
  /\ r.srpp \in [0..(NDescs - 1) -> Pkts \cup {NoPkt}]
  /\ RingOK(r.srpp, Slots(sr_completed, r.added), z, mblksize)
  /\ z \in [Pkts -> Sizes \cup {0}]
  /\ Parts(Alloc(z), Held(r.srpp), Range(r.put), Range(r.get), flows, up, stack)

(* What Destroy leaves of the sizes.                                       *)
Freed(S) == [p \in Pkts |-> IF p \in S THEN 0 ELSE size[p]]

(* The room in the ring.                                                   *)
LEMMA TodoIs ==
  ASSUME NEW t \in Nat, Off(sr_added) \in Nat, Off(sr_added) <= Limit
  PROVE  /\ Todo(t) \in 0..t /\ Off(sr_added) + Todo(t) <= Limit
         /\ Todo(t) = IF Limit - Off(sr_added) <= t THEN Limit - Off(sr_added)
                      ELSE t
<1>1. Todo(t) = Min({Limit - Off(sr_added), t})
  BY DEF Todo, Off
<1>2. Limit \in Nat /\ Limit - Off(sr_added) \in Nat
  BY Constants
<1>3. Todo(t) = IF Limit - Off(sr_added) <= t THEN Limit - Off(sr_added) ELSE t
  BY <1>1, <1>2, MinIs
<1> HIDE DEF Off
<1> QED
  BY <1>2, <1>3

(* No packet is in the pool or the ring twice, and a list of the pool and  *)
(* the other have different packets.                                       *)
LEMMA PoolIs ==
  ASSUME TypeOK, Owners
  PROVE  /\ put \o get \in Seq(Pkts) /\ Len(put \o get) = Len(put) + Len(get)
         /\ Inj(put \o get) /\ Range(put \o get) = Range(put) \cup Range(get)
         /\ Len(put) \in Nat /\ Len(get) \in Nat
<1>1. put \in Seq(Pkts) /\ get \in Seq(Pkts)
  BY DEF TypeOK
<1>2. Inj(put) /\ Inj(get) /\ Range(put) \cap Range(get) = {}
  BY DEF Owners, Parts
<1> QED
  BY <1>1, <1>2, ConcatInj, RangeType

(* The distances of the counters.                                          *)
LEMMA OffType ==
  ASSUME TypeOK
  PROVE  /\ Off(sr_added) \in Nat /\ Off(sr_pushed) \in Nat
         /\ Off(sr_pending) \in Nat /\ Off(filled) \in Nat
<1>1. /\ sr_added \in Ctr /\ sr_pushed \in Ctr /\ sr_pending \in Ctr
      /\ filled \in Ctr /\ sr_completed \in Ctr
  BY DEF TypeOK
<1> QED
  BY <1>1, SlotOf DEF Off

(* A refill keeps the invariant's view of the pool and of the ring.        *)
LEMMA RefillKeeps ==
  ASSUME IInv, sr_state = "STARTED"
  PROVE  /\ RefillOK(Refilled, Freed(Refilled.stale))
         /\ Refilled.stale \subseteq Pkts
<1> DEFINE n == Todo(Limit)
           pool == put \o get
           k == Min({n, Len(pool)})
           taken == SubSeq(pool, 1, k)
           good == Fitting(taken)
           rest == SubSeq(pool, k + 1, Len(pool))
           stale == Range(taken) \ Range(good)
           z == Freed(stale)
           r == Refilled
<1>1. TypeOK /\ Indices /\ Ring /\ Owners /\ Counts
  BY DEF IInv
<1>2. /\ sr_added \in Ctr /\ sr_pushed \in Ctr /\ sr_completed \in Ctr
      /\ sr_srpp \in [0..(NDescs - 1) -> Pkts \cup {NoPkt}]
      /\ put \in Seq(Pkts) /\ get \in Seq(Pkts)
      /\ srfpp_count \in Nat /\ srfpp_loaned \in Nat /\ srfpp_min \in Nat
      /\ size \in [Pkts -> Sizes \cup {0}]
  BY <1>1 DEF TypeOK
<1>3. /\ srfpp_count = Len(get) /\ srfpp_min <= srfpp_count
      /\ srfpp_loaned = Len(put) + Cardinality(flows \cup up \cup stack) + lost
  BY <1>1 DEF Counts
<1>4. /\ Inj(put) /\ Inj(get)
      /\ Parts(Alloc(size), Held(sr_srpp), Range(put), Range(get), flows, up,
               stack)
  BY <1>1 DEF Owners
<1>5. /\ Off(sr_pushed) <= Off(sr_added) /\ Off(sr_added) <= Limit
      /\ sr_pushed = QPush(sr_added)
      /\ Off(sr_added) \in Nat /\ Off(sr_pushed) \in Nat
  BY <1>1, OffType DEF Indices
<1>6. n \in Nat /\ Off(sr_added) + n <= Limit
  BY <1>5, TodoIs, Constants
<1>7. /\ pool \in Seq(Pkts) /\ Len(pool) = Len(put) + Len(get) /\ Inj(pool)
      /\ Range(pool) = Range(put) \cup Range(get)
      /\ Len(put) \in Nat /\ Len(get) \in Nat
  BY <1>1, PoolIs
<1>8. k \in 0..Len(pool) /\ k <= n
  <2>1. n \in Int /\ Len(pool) \in Nat /\ Len(pool) \in Int
    BY <1>6, <1>7
  <2> HIDE DEF n, pool
  <2>2. k = IF n <= Len(pool) THEN n ELSE Len(pool)
    BY <2>1, MinIs
  <2> QED
    BY <1>6, <2>1, <2>2
<1> HIDE DEF n, pool, k
<1>9. /\ taken \in Seq(Pkts) /\ rest \in Seq(Pkts) /\ Inj(taken) /\ Inj(rest)
      /\ Len(taken) = k /\ Len(rest) = Len(pool) - k
      /\ Range(taken) \cap Range(rest) = {}
      /\ Range(taken) \cup Range(rest) = Range(pool)
  BY <1>7, <1>8, CutInj
<1> HIDE DEF taken, rest
<1>10. /\ good \in Seq(Pkts) /\ Inj(good) /\ Len(good) \in 0..k
       /\ Range(good) = {p \in Range(taken) : Fits(p)}
  BY <1>9, FittingIs
<1> HIDE DEF good
<1>11. /\ Range(good) \subseteq Range(taken) /\ Range(taken) \subseteq Pkts
       /\ stale \subseteq Range(taken)
       /\ stale \cap Range(good) = {} /\ stale \cup Range(good) = Range(taken)
       /\ \A p \in Range(good) : size[p] = mblksize
  BY <1>9, <1>10, RangeType DEF Fits
<1> HIDE DEF stale
<1>12. CASE n = 0
  <2>1. /\ r.put = put /\ r.get = get /\ r.count = srfpp_count
        /\ r.loaned = srfpp_loaned /\ r.min = Min({srfpp_min, srfpp_count})
        /\ r.stale = {} /\ r.srpp = sr_srpp /\ r.added = sr_added
        /\ r.pushed = sr_pushed
    BY <1>12 DEF Refilled, n
  <2> HIDE DEF r
  <2>2. r.min = srfpp_min
    BY <1>2, <1>3, <2>1, MinIs
  <2>3. Freed(r.stale) = size
    BY <1>2, <2>1 DEF Freed
  <2>4. /\ RingOK(r.srpp, Slots(sr_completed, r.added), size, mblksize)
    BY <1>1, <2>1 DEF Ring, InUse
  <2>5. RefillOK(r, size)
    BY <1>2, <1>3, <1>4, <1>5, <2>1, <2>2, <2>4 DEF RefillOK
  <2> QED
    BY <2>1, <2>3, <2>5 DEF r
<1>13. CASE n # 0
  <2> DEFINE cnt == srfpp_count + Len(put) - k
  <2>1. /\ r.put = << >> /\ r.get = rest /\ r.count = cnt
        /\ r.loaned = srfpp_loaned - Len(put) /\ r.min = Min({srfpp_min, cnt})
        /\ r.stale = stale /\ r.srpp = Posted(good)
        /\ r.added = Plus(sr_added, Len(good))
        /\ r.pushed = QPush(Plus(sr_added, Len(good)))
    <3>1. r = [put |-> << >>, get |-> rest, count |-> cnt, loaned |-> Loaned,
               min |-> Min({srfpp_min, cnt}), stale |-> stale,
               srpp |-> Posted(good), added |-> Plus(sr_added, Len(good)),
               pushed |-> QPush(Plus(sr_added, Len(good)))]
      <4>1. Len(SubSeq(pool, 1, k)) = k
        BY <1>9 DEF taken
      <4> QED
        BY <1>13, <4>1 DEF Refilled, n, pool, k, taken, good, rest, stale
    <3> HIDE DEF r, cnt
    <3> QED
      BY <3>1 DEF Loaned
  <2>2. cnt = Len(rest) /\ cnt \in Nat
    BY <1>3, <1>7, <1>8, <1>9
  <2> HIDE DEF r, cnt
  <2>3. r.min \in Nat /\ r.min <= cnt
    <3>1. srfpp_min \in Int /\ cnt \in Int
      BY <1>2, <2>2
    <3>2. Min({srfpp_min, cnt}) = IF srfpp_min <= cnt THEN srfpp_min ELSE cnt
      BY <3>1, MinIs
    <3> QED
      BY <1>2, <2>1, <2>2, <3>2
  <2>4. r.loaned = Len(r.put) + Cardinality(flows \cup up \cup stack) + lost
    <3>1. Cardinality(flows \cup up \cup stack) \in Nat
      <4>1. flows \cup up \cup stack \subseteq Pkts
        BY <1>1 DEF TypeOK
      <4> QED
        BY <4>1, Constants, FS_Subset, FS_CardinalityType
    <3>2. Len(r.put) = 0
      BY <2>1
    <3>3. lost \in Nat
      BY <1>1, RxQueueAssumption DEF TypeOK
    <3> QED
      BY <1>3, <1>7, <2>1, <3>1, <3>2, <3>3
  <2>5. Off(sr_added) + Len(good) <= Limit /\ Len(good) \in Nat /\ Limit \in Nat
    BY <1>5, <1>6, <1>8, <1>10, Constants
  <2>6. /\ r.added \in Ctr /\ r.pushed \in Ctr /\ r.pushed = QPush(r.added)
        /\ Off(sr_pushed) <= Off(r.pushed) /\ Off(r.pushed) <= Off(r.added)
        /\ Off(r.added) <= Limit
    <3>1. /\ Plus(sr_added, Len(good)) \in Ctr
          /\ Off(Plus(sr_added, Len(good))) = Off(sr_added) + Len(good)
      BY <1>2, <2>5, PlusOff DEF Off
    <3>2. /\ Minus(QPush(sr_added), sr_completed) <= Minus(sr_added, sr_completed)
          /\ QPush(sr_added) \in Ctr
          /\ Minus(sr_added, sr_completed) + Len(good) <= Limit
      BY <1>2, <1>5, <2>5 DEF Off
    <3>3. LET b == Plus(sr_added, Len(good))
          IN  /\ QPush(b) \in Ctr /\ Off(QPush(b)) <= Off(b)
              /\ Off(QPush(sr_added)) <= Off(QPush(b))
      BY <1>2, <2>5, <3>2, PushOff DEF Off
    <3> QED
      BY <1>5, <2>1, <2>5, <3>1, <3>3
  <2>7. Range(good) \cap Held(sr_srpp) = {} /\ stale \cap Held(sr_srpp) = {}
    BY <1>4, <1>7, <1>9, <1>11 DEF Parts
  <2>8. \A p \in Held(sr_srpp) : p \in Pkts /\ size[p] = mblksize
    BY <1>1, <1>2 DEF Ring, RingOK, InUse, Held
  <2>9. /\ z \in [Pkts -> Sizes \cup {0}]
        /\ \A p \in Pkts : z[p] = IF p \in stale THEN 0 ELSE size[p]
    BY <1>2 DEF Freed
  <2> HIDE DEF z
  <2>10. \A p \in Held(sr_srpp) \cup Range(good) : z[p] = mblksize
    BY <1>11, <2>7, <2>8, <2>9
  <2>11. /\ r.srpp \in [0..(NDescs - 1) -> Pkts \cup {NoPkt}]
         /\ RingOK(r.srpp, Slots(sr_completed, r.added), z, mblksize)
         /\ Held(r.srpp) = Held(sr_srpp) \cup Range(good)
    <3>1. LET q == Posted(good)
          IN  /\ q \in [0..(NDescs - 1) -> Pkts \cup {NoPkt}]
              /\ RingOK(q, Slots(sr_completed, Plus(sr_added, Len(good))), z,
                        mblksize)
              /\ Held(q) = Held(sr_srpp) \cup Range(good)
      BY <1>1, <1>2, <1>10, <2>5, <2>7, <2>10, PostedRing
    <3> QED
      BY <2>1, <3>1
  <2>12. Alloc(z) = Alloc(size) \ stale
    BY <2>9 DEF Alloc
  <2>13. Range(r.put) = {}
    BY <2>1 DEF Range
  <2>14. Parts(Alloc(z), Held(r.srpp), Range(r.put), Range(r.get), flows, up,
               stack)
    <3>1. Alloc(size) = Held(sr_srpp) \cup (Range(taken) \cup Range(rest))
                        \cup flows \cup up \cup stack
      BY <1>4, <1>7, <1>9 DEF Parts
    <3>2. /\ Held(sr_srpp) \cap (Range(taken) \cup Range(rest)) = {}
          /\ Held(sr_srpp) \cap (flows \cup up \cup stack) = {}
          /\ (Range(taken) \cup Range(rest)) \cap (flows \cup up \cup stack) = {}
          /\ flows \cap (up \cup stack) = {} /\ up \cap stack = {}
      BY <1>4, <1>7, <1>9 DEF Parts
    <3>3. Alloc(z) = (Held(sr_srpp) \cup Range(good)) \cup Range(rest)
                     \cup flows \cup up \cup stack
      BY <1>9, <1>11, <2>12, <3>1, <3>2
    <3>4. (Held(sr_srpp) \cup Range(good))
            \cap (Range(rest) \cup flows \cup up \cup stack) = {}
      BY <1>9, <1>11, <3>2
    <3>5. Range(rest) \cap (flows \cup up \cup stack) = {}
      BY <3>2
    <3> QED
      BY <2>1, <2>11, <2>13, <3>2, <3>3, <3>4, <3>5 DEF Parts
  <2>15. /\ r.put \in Seq(Pkts) /\ Inj(r.put) /\ r.get \in Seq(Pkts)
         /\ Inj(r.get)
    BY <1>9, <2>1 DEF Inj
  <2>16. RefillOK(r, z)
    BY <2>1, <2>2, <2>3, <2>4, <2>6, <2>9, <2>11, <2>14, <2>15 DEF RefillOK
  <2> QED
    BY <1>11, <2>1, <2>16 DEF r, z
<1> QED
  BY <1>12, <1>13

(* So does filling the ring with new packets.                              *)
LEMMA FillKeeps ==
  ASSUME IInv, NEW t \in Nat, NEW l \in Nat, QFill(t, l)
  PROVE  RefillOK([put |-> put, get |-> get, count |-> srfpp_count,
                   loaned |-> srfpp_loaned, min |-> srfpp_min,
                   srpp |-> sr_srpp', added |-> sr_added',
                   pushed |-> sr_pushed'], size')
<1> DEFINE free == {p \in Pkts : size[p] = 0}
           all == SetToSeq(free)
           most == Min({Todo(t), Cardinality(free)})
           r == [put |-> put, get |-> get, count |-> srfpp_count,
                 loaned |-> srfpp_loaned, min |-> srfpp_min,
                 srpp |-> sr_srpp', added |-> sr_added',
                 pushed |-> sr_pushed']
<1>1. TypeOK /\ Indices /\ Ring /\ Owners /\ Counts
  BY DEF IInv
<1>2. /\ sr_added \in Ctr /\ sr_pushed \in Ctr /\ sr_completed \in Ctr
      /\ sr_srpp \in [0..(NDescs - 1) -> Pkts \cup {NoPkt}]
      /\ put \in Seq(Pkts) /\ get \in Seq(Pkts) /\ srfpp_min \in Nat
      /\ size \in [Pkts -> Sizes \cup {0}] /\ mblksize \in Sizes
  BY <1>1 DEF TypeOK
<1>3. /\ srfpp_count = Len(get) /\ srfpp_min <= srfpp_count
      /\ srfpp_loaned = Len(put) + Cardinality(flows \cup up \cup stack) + lost
  BY <1>1 DEF Counts
<1>4. /\ Inj(put) /\ Inj(get)
      /\ Parts(Alloc(size), Held(sr_srpp), Range(put), Range(get), flows, up,
               stack)
  BY <1>1 DEF Owners
<1>5. /\ Off(sr_pushed) <= Off(sr_added) /\ Off(sr_added) <= Limit
      /\ sr_pushed = QPush(sr_added)
      /\ Off(sr_added) \in Nat /\ Off(sr_pushed) \in Nat
  BY <1>1, OffType DEF Indices
<1>6. mblksize # 0
  BY <1>2, RxQueueAssumption
<1>7. PICK k \in Min({l, most})..most :
        LET ps == SubSeq(all, 1, k)
        IN  /\ size' = [p \in Pkts |-> IF p \in Range(ps) THEN mblksize
                                       ELSE size[p]]
            /\ sr_srpp' = Posted(ps)
            /\ sr_added' = Plus(sr_added, k) /\ sr_pushed' = QPush(sr_added')
  BY DEF QFill
<1> DEFINE ps == SubSeq(all, 1, k)
<1>8. /\ size' = [p \in Pkts |-> IF p \in Range(ps) THEN mblksize ELSE size[p]]
      /\ sr_srpp' = Posted(ps)
      /\ sr_added' = Plus(sr_added, k) /\ sr_pushed' = QPush(sr_added')
  BY <1>7
<1>9. /\ all \in Seq(Pkts) /\ Inj(all) /\ Len(all) = Cardinality(free)
      /\ Cardinality(free) \in Nat /\ Range(all) = free
  <2>1. free \subseteq Pkts
    OBVIOUS
  <2> HIDE DEF free
  <2> QED
    BY <2>1, SetSeq
<1> HIDE DEF all
<1>10. Todo(t) \in Nat /\ Off(sr_added) + Todo(t) <= Limit
  BY <1>5, TodoIs
<1>11. k \in 0..Len(all) /\ k <= Todo(t) /\ k \in Nat
  <2>1. most = IF Todo(t) <= Cardinality(free) THEN Todo(t) ELSE Cardinality(free)
    <3>1. Todo(t) \in Int /\ Cardinality(free) \in Int
      BY <1>9, <1>10
    <3> HIDE DEF free
    <3> QED
      BY <3>1, MinIs
  <2>2. most \in Nat /\ most <= Todo(t) /\ most <= Cardinality(free)
    <3> HIDE DEF most, free
    <3> QED
      BY <1>9, <1>10, <2>1
  <2> HIDE DEF most
  <2>3. Min({l, most}) = IF l <= most THEN l ELSE most
    BY <2>2, MinIs
  <2>4. Min({l, most}) \in Nat
    BY <2>2, <2>3
  <2> DEFINE lo == Min({l, most})
  <2>5. lo \in Nat /\ k \in lo..most
    BY <2>4
  <2> HIDE DEF lo, free
  <2> QED
    BY <1>9, <1>10, <2>2, <2>5
<1>12. /\ ps \in Seq(Pkts) /\ Inj(ps) /\ Len(ps) = k /\ Range(ps) \subseteq free
  <2> HIDE DEF free, most
  <2>1. /\ ps \in Seq(Pkts) /\ Inj(ps) /\ Len(ps) = k
        /\ Range(ps) \subseteq Range(all)
    BY <1>9, <1>11, CutInj
  <2> QED
    BY <1>9, <2>1
<1> HIDE DEF ps
<1>13. /\ \A p \in Range(ps) : p \in Pkts /\ size[p] = 0
       /\ Range(ps) \cap Alloc(size) = {} /\ Range(ps) \subseteq Pkts
  BY <1>12 DEF Alloc
<1> HIDE DEF free, most
<1>14. Off(sr_added) + Len(ps) <= Limit
  BY <1>5, <1>10, <1>11, <1>12, Constants
<1>15. /\ \A p \in Pkts : size'[p] = IF p \in Range(ps) THEN mblksize
                                     ELSE size[p]
       /\ size' \in [Pkts -> Sizes \cup {0}]
  BY <1>2, <1>8
<1>16. Held(sr_srpp) \subseteq Alloc(size)
  BY <1>4 DEF Parts
<1>17. \A p \in Held(sr_srpp) : p \in Pkts /\ size[p] = mblksize
  BY <1>1, <1>2 DEF Ring, RingOK, InUse, Held
<1>18. \A p \in Held(sr_srpp) \cup Range(ps) : size'[p] = mblksize
  BY <1>13, <1>15, <1>17
<1>19. /\ sr_srpp' \in [0..(NDescs - 1) -> Pkts \cup {NoPkt}]
       /\ RingOK(sr_srpp', Slots(sr_completed, sr_added'), size', mblksize)
       /\ Held(sr_srpp') = Held(sr_srpp) \cup Range(ps)
  <2>1. Range(ps) \cap Held(sr_srpp) = {}
    BY <1>13, <1>16
  <2> DEFINE z == size'
  <2>2. \A p \in Held(sr_srpp) \cup Range(ps) : z[p] = mblksize
    BY <1>18
  <2> HIDE DEF z
  <2>3. LET q == Posted(ps)
        IN  /\ q \in [0..(NDescs - 1) -> Pkts \cup {NoPkt}]
            /\ RingOK(q, Slots(sr_completed, Plus(sr_added, Len(ps))), z,
                      mblksize)
            /\ Held(q) = Held(sr_srpp) \cup Range(ps)
    BY <1>1, <1>2, <1>12, <1>14, <2>1, <2>2, PostedRing
  <2> QED
    BY <1>8, <1>12, <2>3 DEF z
<1>20. Alloc(size') = Alloc(size) \cup Range(ps)
  BY <1>6, <1>13, <1>15 DEF Alloc
<1>21. Parts(Alloc(size'), Held(sr_srpp'), Range(put), Range(get), flows, up,
             stack)
  BY <1>4, <1>13, <1>19, <1>20 DEF Parts
<1>22. /\ sr_added' \in Ctr /\ sr_pushed' \in Ctr
       /\ Off(sr_pushed) <= Off(sr_pushed') /\ Off(sr_pushed') <= Off(sr_added')
       /\ Off(sr_added') <= Limit
  <2>1. /\ Plus(sr_added, k) \in Ctr
        /\ Off(Plus(sr_added, k)) = Off(sr_added) + k
    BY <1>2, <1>11, <1>12, <1>14, PlusOff DEF Off
  <2>2. /\ Minus(QPush(sr_added), sr_completed) <= Minus(sr_added, sr_completed)
        /\ QPush(sr_added) \in Ctr
        /\ Minus(sr_added, sr_completed) + k <= Limit
    BY <1>2, <1>5, <1>12, <1>14 DEF Off
  <2>3. LET b == Plus(sr_added, k)
        IN  /\ QPush(b) \in Ctr /\ Off(QPush(b)) <= Off(b)
            /\ Off(QPush(sr_added)) <= Off(QPush(b))
    BY <1>2, <1>11, <2>2, PushOff DEF Off
  <2>4. Off(sr_added) + k <= Limit
    BY <1>12, <1>14
  <2>5. QPush(sr_added) = sr_pushed
    BY <1>5
  <2> HIDE DEF Off
  <2> QED
    BY <1>8, <2>1, <2>3, <2>4, <2>5
<1>23. /\ r.put = put /\ r.get = get /\ r.count = srfpp_count
       /\ r.loaned = srfpp_loaned /\ r.min = srfpp_min /\ r.srpp = sr_srpp'
       /\ r.added = sr_added' /\ r.pushed = sr_pushed'
  OBVIOUS
<1> HIDE DEF r
<1>24. RefillOK(r, size')
  BY <1>2, <1>3, <1>4, <1>8, <1>15, <1>19, <1>21, <1>22, <1>23 DEF RefillOK
<1> QED
  BY <1>24 DEF r

(* And so does trimming what a refill left in the get list.                *)
LEMMA TrimKeeps ==
  ASSUME TypeOK, NEW r, NEW S, S \subseteq Pkts, RefillOK(r, Freed(S))
  PROVE  LET keep == Len(r.get) - r.min
             rest == SubSeq(r.get, keep + 1, Len(r.get))
         IN  RefillOK([put |-> r.put, get |-> SubSeq(r.get, 1, keep),
                       count |-> r.count - r.min, loaned |-> r.loaned,
                       min |-> r.count - r.min, srpp |-> r.srpp,
                       added |-> r.added, pushed |-> r.pushed],
                      Freed(S \cup Range(rest)))
<1> DEFINE keep == Len(r.get) - r.min
           first == SubSeq(r.get, 1, keep)
           rest == SubSeq(r.get, keep + 1, Len(r.get))
           q == [put |-> r.put, get |-> first, count |-> r.count - r.min,
                 loaned |-> r.loaned, min |-> r.count - r.min,
                 srpp |-> r.srpp, added |-> r.added, pushed |-> r.pushed]
           y == Freed(S)
           z == Freed(S \cup Range(rest))
<1>1. /\ r.put \in Seq(Pkts) /\ r.get \in Seq(Pkts) /\ Inj(r.put) /\ Inj(r.get)
      /\ r.count = Len(r.get) /\ r.min \in Nat /\ r.min <= r.count
      /\ r.loaned = Len(r.put) + Cardinality(flows \cup up \cup stack) + lost
      /\ r.added \in Ctr /\ r.pushed \in Ctr /\ r.pushed = QPush(r.added)
      /\ Off(sr_pushed) <= Off(r.pushed) /\ Off(r.pushed) <= Off(r.added)
      /\ Off(r.added) <= Limit
      /\ r.srpp \in [0..(NDescs - 1) -> Pkts \cup {NoPkt}]
      /\ RingOK(r.srpp, Slots(sr_completed, r.added), y, mblksize)
      /\ y \in [Pkts -> Sizes \cup {0}]
  BY DEF RefillOK
<1>2. Parts(Alloc(y), Held(r.srpp), Range(r.put), Range(r.get), flows, up, stack)
  BY DEF RefillOK
<1>3. /\ size \in [Pkts -> Sizes \cup {0}] /\ sr_completed \in Ctr
      /\ flows \cup up \cup stack \subseteq Pkts
  BY DEF TypeOK
<1>4. Len(r.get) \in Nat /\ keep \in 0..Len(r.get) /\ keep = r.count - r.min
  <2>1. Len(r.get) \in Nat
    BY <1>1, RangeType
  <2> QED
    BY <1>1, <2>1
<1> HIDE DEF keep
<1>5. /\ first \in Seq(Pkts) /\ rest \in Seq(Pkts) /\ Inj(first)
      /\ Len(first) = keep /\ Range(first) \cap Range(rest) = {}
      /\ Range(first) \cup Range(rest) = Range(r.get)
  BY <1>1, <1>4, CutInj
<1> HIDE DEF first, rest
<1>6. Range(rest) \subseteq Pkts
  BY <1>5, RangeType
<1>7. /\ q.put = r.put /\ q.get = first /\ q.count = keep
      /\ q.loaned = r.loaned /\ q.min = keep /\ q.srpp = r.srpp
      /\ q.added = r.added /\ q.pushed = r.pushed
  BY <1>4
<1>8. /\ \A p \in Pkts : z[p] = IF p \in Range(rest) THEN 0 ELSE y[p]
      /\ z \in [Pkts -> Sizes \cup {0}]
  BY <1>3, <1>6 DEF Freed
<1> HIDE DEF q, y, z
<1>9. Alloc(z) = Alloc(y) \ Range(rest)
  BY <1>8 DEF Alloc
<1>10. Parts(Alloc(z), Held(r.srpp), Range(r.put), Range(first), flows, up,
             stack)
  BY <1>2, <1>5, <1>9 DEF Parts
<1>11. RingOK(r.srpp, Slots(sr_completed, r.added), z, mblksize)
  <2> DEFINE u == Slots(sr_completed, r.added)
             s == r.srpp
  <2>1. /\ \A i \in DOMAIN s : IF i \in u THEN s[i] \in Pkts /\ y[s[i]] = mblksize
                               ELSE s[i] = NoPkt
        /\ \A i, j \in u : s[i] = s[j] => i = j
    BY <1>1 DEF RingOK
  <2>2. \A i \in DOMAIN s : s[i] \in Held(s) \cup {NoPkt}
    BY DEF Held
  <2>3. Held(s) \cap Range(rest) = {}
    BY <1>2, <1>5 DEF Parts
  <2> HIDE DEF s, u
  <2>4. \A i \in DOMAIN s : i \in u => s[i] \in Pkts /\ z[s[i]] = mblksize
    BY <1>8, <2>1, <2>2, <2>3, Constants
  <2>5. RingOK(s, u, z, mblksize)
    BY <2>1, <2>4 DEF RingOK
  <2> QED
    BY <2>5 DEF s, u
<1>12. RefillOK(q, z)
  BY <1>1, <1>4, <1>5, <1>7, <1>8, <1>10, <1>11 DEF RefillOK
<1> QED
  BY <1>4, <1>12 DEF q, z, first, rest, keep

(* The state itself is one that a refill may leave.                        *)
LEMMA SameOK ==
  ASSUME IInv
  PROVE  RefillOK([put |-> put, get |-> get, count |-> srfpp_count,
                   loaned |-> srfpp_loaned, min |-> srfpp_min,
                   srpp |-> sr_srpp, added |-> sr_added,
                   pushed |-> sr_pushed], size)
<1> DEFINE r == [put |-> put, get |-> get, count |-> srfpp_count,
                 loaned |-> srfpp_loaned, min |-> srfpp_min,
                 srpp |-> sr_srpp, added |-> sr_added,
                 pushed |-> sr_pushed]
<1>1. TypeOK /\ Indices /\ Ring /\ Owners /\ Counts
  BY DEF IInv
<1>2. /\ r.put = put /\ r.get = get /\ r.count = srfpp_count
      /\ r.loaned = srfpp_loaned /\ r.min = srfpp_min /\ r.srpp = sr_srpp
      /\ r.added = sr_added /\ r.pushed = sr_pushed
  OBVIOUS
<1> HIDE DEF r
<1>3. Off(sr_pushed) \in Nat
  BY <1>1, OffType
<1>4. /\ r.put \in Seq(Pkts) /\ r.get \in Seq(Pkts) /\ Inj(r.put) /\ Inj(r.get)
      /\ r.count = Len(r.get) /\ r.min \in Nat /\ r.min <= r.count
      /\ r.loaned = Len(r.put) + Cardinality(flows \cup up \cup stack) + lost
  BY <1>1, <1>2 DEF TypeOK, Owners, Counts
<1>5. /\ r.added \in Ctr /\ r.pushed \in Ctr /\ r.pushed = QPush(r.added)
      /\ Off(sr_pushed) <= Off(r.pushed) /\ Off(r.pushed) <= Off(r.added)
      /\ Off(r.added) <= Limit
      /\ r.srpp \in [0..(NDescs - 1) -> Pkts \cup {NoPkt}]
      /\ size \in [Pkts -> Sizes \cup {0}]
  BY <1>1, <1>2, <1>3 DEF TypeOK, Indices
<1>6. RingOK(r.srpp, Slots(sr_completed, r.added), size, mblksize)
  BY <1>1, <1>2 DEF Ring, InUse
<1>7. Parts(Alloc(size), Held(r.srpp), Range(r.put), Range(r.get), flows, up,
            stack)
  BY <1>1, <1>2 DEF Owners
<1>8. RefillOK(r, size)
  BY <1>4, <1>5, <1>6, <1>7 DEF RefillOK
<1> QED
  BY <1>8 DEF r

(* What a step of the poll does to the variables that a refill leaves.     *)
PollMoves ==
  /\ sr_state = "STARTED" /\ eop' \in BOOLEAN
  /\ epc' \in {"idle", "poll", "complete", "deliver", "post", "topup",
               "fill", "startrefill", "startfill"}
  /\ epc' \in {"deliver", "post"} \/ up = {}
  /\ UNCHANGED <<sr_state, sr_pending, sr_completed, filled, mblksize,
                 flows, up, stack, stops, lost>>

(* What follows when a step leaves such a state behind.                    *)
LEMMA RefillNext ==
  ASSUME IInv, NEW r, RefillOK(r, size'), put' = r.put, get' = r.get,
         srfpp_count' = r.count, srfpp_loaned' = r.loaned,
         srfpp_min' = r.min, sr_srpp' = r.srpp, sr_added' = r.added,
         sr_pushed' = r.pushed, PollMoves
  PROVE  IInv'
<1>1. TypeOK /\ Phases /\ Indices /\ Ring /\ Owners /\ Counts
  BY DEF IInv
<1> USE DEF PollMoves
<1>2. /\ r.put \in Seq(Pkts) /\ r.get \in Seq(Pkts) /\ Inj(r.put) /\ Inj(r.get)
      /\ r.count = Len(r.get) /\ r.min \in Nat /\ r.min <= r.count
      /\ r.loaned = Len(r.put) + Cardinality(flows \cup up \cup stack) + lost
      /\ r.added \in Ctr /\ r.pushed \in Ctr /\ r.pushed = QPush(r.added)
      /\ Off(sr_pushed) <= Off(r.pushed) /\ Off(r.pushed) <= Off(r.added)
      /\ Off(r.added) <= Limit
      /\ r.srpp \in [0..(NDescs - 1) -> Pkts \cup {NoPkt}]
      /\ RingOK(r.srpp, Slots(sr_completed, r.added), size', mblksize)
      /\ size' \in [Pkts -> Sizes \cup {0}]
  BY DEF RefillOK
<1>3. TypeOK'
  <2>1. /\ put' \in Seq(Pkts) /\ get' \in Seq(Pkts)
    BY <1>2
  <2>2. srfpp_count' \in Nat /\ srfpp_loaned' \in Nat /\ srfpp_min' \in Nat
    <3>1. Len(r.get) \in Nat /\ Len(r.put) \in Nat
      BY <1>2, RangeType
    <3>2. flows \cup up \cup stack \subseteq Pkts
      BY <1>1 DEF TypeOK
    <3>3. Cardinality(flows \cup up \cup stack) \in Nat
      BY <3>2, Constants, FS_Subset, FS_CardinalityType
    <3>4. lost \in Nat
      BY <1>1, RxQueueAssumption DEF TypeOK
    <3> QED
      BY <1>2, <3>1, <3>3, <3>4
  <2>3. /\ sr_added' \in Ctr /\ sr_pushed' \in Ctr
        /\ sr_srpp' \in [0..(NDescs - 1) -> Pkts \cup {NoPkt}]
    BY <1>2
  <2> QED
    BY <1>1, <1>2, <2>1, <2>2, <2>3 DEF TypeOK
<1>4. Phases'
  BY <1>1 DEF Phases
<1>5. Indices'
  <2>1. /\ Off(sr_pending) <= Off(filled) /\ Off(filled) <= Off(sr_pushed)
        /\ Off(sr_pushed) \in Nat /\ Off(filled) \in Nat
    BY <1>1, OffType DEF Indices
  <2>2. /\ Off(sr_pending)' = Off(sr_pending) /\ Off(filled)' = Off(filled)
        /\ Off(sr_pushed)' = Off(r.pushed) /\ Off(sr_added)' = Off(r.added)
    BY DEF Off, Minus
  <2>3. Off(r.pushed) \in Nat
    <3>1. sr_completed \in Ctr
      BY <1>1 DEF TypeOK
    <3> QED
      BY <1>2, <3>1, SlotOf DEF Off
  <2>4. Off(filled) <= Off(r.pushed)
    <3> HIDE DEF Off
    <3> QED
      BY <1>2, <2>1, <2>3
  <2> HIDE DEF Off
  <2> QED
    BY <1>2, <2>1, <2>2, <2>4 DEF Indices, QPush
<1>6. Ring'
  BY <1>2 DEF Ring, InUse, Slots, Id, Minus, RingOK
<1>7. Owners'
  <2>1. Parts(Alloc(size'), Held(sr_srpp'), Range(put'), Range(get'), flows',
              up', stack')
    BY DEF RefillOK
  <2> QED
    BY <1>2, <2>1 DEF Owners, Alloc, Held, Parts, Inj, Range
<1>8. Counts'
  BY <1>2 DEF Counts
<1> QED
  BY <1>3, <1>4, <1>5, <1>6, <1>7, <1>8 DEF IInv

-----------------------------------------------------------------------------
(* The steps of the poll that refill, fill or leave the ring alone.        *)
LEMMA RefillStep ==
  ASSUME IInv, QRefill, PollMoves
  PROVE  IInv'
<1> DEFINE r == Refilled
<1>1. /\ put' = r.put /\ get' = r.get /\ srfpp_count' = r.count
      /\ srfpp_loaned' = r.loaned /\ srfpp_min' = r.min
      /\ size' = Freed(r.stale) /\ sr_srpp' = r.srpp
      /\ sr_added' = r.added /\ sr_pushed' = r.pushed
  BY DEF QRefill, Destroy, Freed
<1>2. sr_state = "STARTED"
  BY DEF PollMoves
<1>3. RefillOK(r, size')
  BY <1>1, <1>2, RefillKeeps
<1> HIDE DEF r
<1> QED
  BY <1>1, <1>3, RefillNext

LEMMA FillStep ==
  ASSUME IInv, NEW t \in Nat, NEW l \in Nat, QFill(t, l), PollMoves,
         UNCHANGED <<put, get, srfpp_count, srfpp_loaned, srfpp_min>>
  PROVE  IInv'
<1> DEFINE r == [put |-> put, get |-> get, count |-> srfpp_count,
                 loaned |-> srfpp_loaned, min |-> srfpp_min,
                 srpp |-> sr_srpp', added |-> sr_added',
                 pushed |-> sr_pushed']
<1>1. RefillOK(r, size')
  BY FillKeeps
<1>2. /\ put' = r.put /\ get' = r.get /\ srfpp_count' = r.count
      /\ srfpp_loaned' = r.loaned /\ srfpp_min' = r.min
      /\ sr_srpp' = r.srpp /\ sr_added' = r.added /\ sr_pushed' = r.pushed
  OBVIOUS
<1> HIDE DEF r
<1> QED
  BY <1>1, <1>2, RefillNext

LEMMA QuietStep ==
  ASSUME IInv, PollMoves,
         UNCHANGED <<poolvars, sr_srpp, sr_added, sr_pushed>>
  PROVE  IInv'
<1> DEFINE r == [put |-> put, get |-> get, count |-> srfpp_count,
                 loaned |-> srfpp_loaned, min |-> srfpp_min,
                 srpp |-> sr_srpp, added |-> sr_added,
                 pushed |-> sr_pushed]
<1>1. RefillOK(r, size)
  BY SameOK
<1>2. /\ put' = r.put /\ get' = r.get /\ srfpp_count' = r.count
      /\ srfpp_loaned' = r.loaned /\ srfpp_min' = r.min
      /\ sr_srpp' = r.srpp /\ sr_added' = r.added /\ sr_pushed' = r.pushed
      /\ size' = size
  BY DEF poolvars, loanvars
<1> HIDE DEF r
<1>3. RefillOK(r, size')
  BY <1>1, <1>2
<1> QED
  BY <1>2, <1>3, RefillNext

(* The poll, from its end or a delivery on, the start and the trim.        *)
LEMMA PollKeeps ==
  ASSUME IInv,
         \/ PollEnd \/ RefillEmpty \/ TopUp \/ FillLow \/ StartRefill
         \/ StartFill \/ QfppTrim
  PROVE  IInv'
<1>1. TypeOK /\ Phases /\ Indices
  BY DEF IInv
<1>2. /\ eop \in BOOLEAN
      /\ epc # "idle" => sr_state = "STARTED"
  BY <1>1 DEF TypeOK, Phases
<1>3. epc \notin {"deliver", "post"} => up = {}
  BY <1>1 DEF Phases
<1>4. /\ sr_added \in Ctr /\ sr_completed \in Ctr /\ Limit \in Nat
      /\ Batch \in Nat /\ WptrAlign \in Nat
  BY <1>1, RxQueueAssumption, Constants DEF TypeOK
<1>5. CASE PollEnd
  <2>1. PollMoves
    BY <1>2, <1>3, <1>5 DEF PollEnd, PollMoves, idxvars, poolvars, loanvars
  <2>2. UNCHANGED <<poolvars, sr_srpp, sr_added, sr_pushed>>
    BY <1>5 DEF PollEnd, idxvars
  <2> QED
    BY <2>1, <2>2, QuietStep
<1>6. CASE RefillEmpty
  <2>1. PollMoves
    BY <1>2, <1>6 DEF RefillEmpty, PollMoves, QRefill, poolvars, loanvars
  <2>2. QRefill \/ UNCHANGED <<poolvars, sr_srpp, sr_added, sr_pushed>>
    BY <1>6 DEF RefillEmpty
  <2> QED
    BY <2>1, <2>2, QuietStep, RefillStep
<1>7. CASE TopUp
  <2>1. PollMoves
    BY <1>2, <1>3, <1>7 DEF TopUp, PollMoves, QRefill, poolvars, loanvars
  <2>2. QRefill \/ UNCHANGED <<poolvars, sr_srpp, sr_added, sr_pushed>>
    BY <1>7 DEF TopUp
  <2> QED
    BY <2>1, <2>2, QuietStep, RefillStep
<1>8. CASE FillLow
  <2>1. PollMoves /\ UNCHANGED <<put, get, srfpp_count, srfpp_loaned, srfpp_min>>
    BY <1>2, <1>3, <1>8 DEF FillLow, PollMoves
  <2>2. QFill(Limit, 0) \/ UNCHANGED <<poolvars, sr_srpp, sr_added, sr_pushed>>
    BY <1>8 DEF FillLow, poolvars, loanvars
  <2> QED
    BY <1>4, <2>1, <2>2, QuietStep, FillStep
<1>9. CASE StartRefill
  <2>1. PollMoves /\ QRefill
    BY <1>2, <1>3, <1>9 DEF StartRefill, PollMoves, QRefill
  <2> QED
    BY <2>1, RefillStep
<1>10. CASE StartFill
  <2> DEFINE level == Minus(sr_added, sr_completed)
             least == IF level < WptrAlign THEN WptrAlign - level ELSE 0
  <2>1. PollMoves /\ UNCHANGED <<put, get, srfpp_count, srfpp_loaned, srfpp_min>>
    BY <1>2, <1>3, <1>10 DEF StartFill, PollMoves
  <2>2. QFill(Batch, least) \/ UNCHANGED <<poolvars, sr_srpp, sr_added, sr_pushed>>
    BY <1>10 DEF StartFill, poolvars, loanvars
  <2>3. least \in Nat
    <3>1. level \in Nat
      BY <1>4, SlotOf
    <3> HIDE DEF level
    <3> QED
      BY <1>4, <3>1
  <2> HIDE DEF least
  <2> QED
    BY <1>4, <2>1, <2>2, <2>3, QuietStep, FillStep
<1>11. CASE QfppTrim
  <2> DEFINE r == Refilled
             keep == Len(r.get) - r.min
             rest == SubSeq(r.get, keep + 1, Len(r.get))
             q == [put |-> r.put, get |-> SubSeq(r.get, 1, keep),
                   count |-> r.count - r.min, loaned |-> r.loaned,
                   min |-> r.count - r.min, srpp |-> r.srpp,
                   added |-> r.added, pushed |-> r.pushed]
  <2>1. sr_state = "STARTED" /\ PollMoves
    BY <1>2, <1>3, <1>11 DEF QfppTrim, PollMoves
  <2>2. RefillOK(r, Freed(r.stale)) /\ r.stale \subseteq Pkts
    BY <2>1, RefillKeeps
  <2>3. /\ put' = q.put /\ get' = q.get /\ srfpp_count' = q.count
        /\ srfpp_loaned' = q.loaned /\ srfpp_min' = q.min
        /\ sr_srpp' = q.srpp /\ sr_added' = q.added /\ sr_pushed' = q.pushed
        /\ size' = Freed(r.stale \cup Range(rest))
    BY <1>11 DEF QfppTrim, Destroy, Freed
  <2> HIDE DEF r
  <2>4. RefillOK(q, Freed(r.stale \cup Range(rest)))
    BY <1>1, <2>2, TrimKeeps
  <2> HIDE DEF q, rest
  <2>5. RefillOK(q, size')
    BY <2>3, <2>4
  <2> QED
    BY <2>1, <2>3, <2>5, RefillNext
<1> QED
  BY <1>5, <1>6, <1>7, <1>8, <1>9, <1>10, <1>11

-----------------------------------------------------------------------------
(* What a step leaves alone.                                               *)
LEMMA IndicesSame ==
  ASSUME Indices, UNCHANGED idxvars
  PROVE  Indices'
BY DEF Indices, idxvars, Off, Minus, QPush

LEMMA RingSame ==
  ASSUME Ring, UNCHANGED <<sr_srpp, sr_completed, sr_added, size, mblksize>>
  PROVE  Ring'
BY DEF Ring, RingOK, InUse, Slots, Id, Minus

LEMMA OwnersSame ==
  ASSUME Owners, UNCHANGED <<put, get, size, sr_srpp, flows, up, stack>>
  PROVE  Owners'
BY DEF Owners, Parts, Alloc, Held, Inj, Range

LEMMA CountsSame ==
  ASSUME Counts, UNCHANGED <<put, get, srfpp_count, srfpp_loaned, srfpp_min,
                             flows, up, stack, lost>>
  PROVE  Counts'
BY DEF Counts

(* The numbers of packets that are out.                                    *)
LEMMA OutType ==
  ASSUME TypeOK
  PROVE  /\ Cardinality(flows \cup up \cup stack) \in Nat
         /\ Len(put) \in Nat /\ Len(get) \in Nat /\ lost \in Nat
<1>1. /\ flows \cup up \cup stack \subseteq Pkts
      /\ put \in Seq(Pkts) /\ get \in Seq(Pkts) /\ lost \in 0..MaxFails
  BY DEF TypeOK
<1>2. lost \in Nat
  BY <1>1, RxQueueAssumption
<1> QED
  BY <1>1, <1>2, Constants, FS_Subset, FS_CardinalityType, RangeType

(* Packets that come back are at the end of the put list, but for those   *)
(* that get no message block and are freed; both count as before.          *)
LEMMA RecycleIs ==
  ASSUME TypeOK, Inj(put), NEW S, S \subseteq Pkts,
         S \cap Range(put) = {}, Recycle(S)
  PROVE  \E F \in SUBSET S :
           /\ put' \in Seq(Pkts) /\ Inj(put')
           /\ Range(put') = Range(put) \cup (S \ F)
           /\ Len(put') + lost' = Len(put) + lost + Cardinality(S)
           /\ Len(put') \in Nat /\ Cardinality(S) \in Nat
           /\ lost' \in 0..MaxFails /\ lost' \in Nat
           /\ size' = Freed(F) /\ size' \in [Pkts -> Sizes \cup {0}]
           /\ Alloc(size') = Alloc(size) \ F
<1>1. /\ put \in Seq(Pkts) /\ size \in [Pkts -> Sizes \cup {0}]
      /\ lost \in Nat /\ Len(put) \in Nat
  BY OutType DEF TypeOK
<1>2. PICK F \in SUBSET S :
        /\ lost + Cardinality(F) <= MaxFails /\ lost' = lost + Cardinality(F)
        /\ put' = put \o SetToSeq(S \ F) /\ size' = Freed(F)
  BY DEF Recycle, Destroy, Freed
<1> DEFINE R == S \ F
           q == SetToSeq(R)
<1>3. /\ q \in Seq(Pkts) /\ Inj(q) /\ Len(q) = Cardinality(R)
      /\ Cardinality(R) \in Nat /\ Range(q) = R
  BY SetSeq
<1>4. R \subseteq Pkts /\ F \subseteq Pkts /\ R \cap F = {} /\ R \cup F = S
  OBVIOUS
<1>5. R \cap Range(put) = {} /\ put' = put \o q
  BY <1>2
<1> HIDE DEF q, R
<1>6. /\ put \o q \in Seq(Pkts) /\ Len(put \o q) = Len(put) + Len(q)
      /\ Inj(put \o q) /\ Range(put \o q) = Range(put) \cup Range(q)
  <2>1. Range(put) \cap Range(q) = {}
    BY <1>3, <1>5
  <2> QED
    BY <1>1, <1>3, <2>1, ConcatInj
<1>7. /\ Cardinality(S) = Cardinality(R) + Cardinality(F)
      /\ Cardinality(F) \in Nat
  BY <1>4, Count
<1>8. /\ put' \in Seq(Pkts) /\ Inj(put') /\ Range(put') = Range(put) \cup R
      /\ Len(put') = Len(put) + Cardinality(R)
  BY <1>3, <1>5, <1>6
<1>9. /\ Len(put') + lost' = Len(put) + lost + Cardinality(S)
      /\ Len(put') \in Nat /\ Cardinality(S) \in Nat /\ lost' \in Nat
  <2>1. /\ Len(put') = Len(put) + Cardinality(R)
        /\ lost' = lost + Cardinality(F)
        /\ Len(put) \in Nat /\ lost \in Nat
        /\ Cardinality(R) \in Nat /\ Cardinality(F) \in Nat
        /\ Cardinality(S) = Cardinality(R) + Cardinality(F)
    BY <1>1, <1>2, <1>3, <1>7, <1>8
  <2> QED
    BY ONLY <2>1
<1>10. lost' \in 0..MaxFails
  BY <1>2, <1>9, RxQueueAssumption
<1>11. size' \in [Pkts -> Sizes \cup {0}] /\ Alloc(size') = Alloc(size) \ F
  BY <1>1, <1>2, <1>4 DEF Freed, Alloc
<1> QED
  BY <1>2, <1>8, <1>9, <1>10, <1>11 DEF R

(* Freeing packets that are not in the ring leaves it as it is.            *)
LEMMA RingFreed ==
  ASSUME NEW r, NEW u, NEW m, RingOK(r, u, size, m), NEW F, F \subseteq Pkts,
         Held(r) \cap F = {}
  PROVE  RingOK(r, u, Freed(F), m)
<1>1. \A i \in DOMAIN r : r[i] \notin F
  BY Constants DEF Held
<1> QED
  BY <1>1 DEF RingOK, Freed

LEMMA RingStays ==
  ASSUME Ring, NEW F, F \subseteq Pkts, Held(sr_srpp) \cap F = {},
         size' = Freed(F),
         UNCHANGED <<sr_srpp, sr_completed, sr_added, mblksize>>
  PROVE  Ring'
<1>1. RingOK(sr_srpp, InUse, size', mblksize)
  BY RingFreed DEF Ring
<1>2. InUse' = InUse
  BY DEF InUse, Slots, Id, Minus
<1> QED
  BY <1>1, <1>2 DEF Ring, RingOK

(* The hardware fills a descriptor, and the driver sees some.              *)
LEMMA HwRxKeeps ==
  ASSUME IInv, HwRx
  PROVE  IInv'
<1>1. TypeOK /\ Phases /\ Indices /\ Ring /\ Owners /\ Counts
  BY DEF IInv
<1>2. /\ sr_pushed \in Ctr /\ sr_completed \in Ctr /\ filled \in Ctr
      /\ filled # sr_pushed
  BY <1>1 DEF TypeOK, HwRx
<1>3. /\ Off(sr_pending) <= Off(filled) /\ Off(filled) <= Off(sr_pushed)
      /\ Off(sr_pushed) <= Off(sr_added) /\ Off(sr_added) <= Limit
      /\ Off(sr_pending) \in Nat /\ Off(filled) \in Nat
      /\ Off(sr_pushed) \in Nat /\ Off(sr_added) \in Nat /\ Limit \in Nat
  BY <1>1, OffType, Constants DEF Indices
<1>4. Off(filled) # Off(sr_pushed)
  <2>1. /\ CtrMod \in Nat /\ sr_pushed \in 0..(CtrMod - 1)
        /\ sr_completed \in 0..(CtrMod - 1) /\ filled \in 0..(CtrMod - 1)
    BY <1>2, Constants DEF Ctr
  <2>2. /\ Off(filled) = IF filled >= sr_completed THEN filled - sr_completed
                         ELSE filled - sr_completed + CtrMod
        /\ Off(sr_pushed) = IF sr_pushed >= sr_completed
                            THEN sr_pushed - sr_completed
                            ELSE sr_pushed - sr_completed + CtrMod
    BY <1>2, MinusIs DEF Off
  <2> HIDE DEF Off
  <2> QED
    BY <1>2, <2>1, <2>2
<1>5. /\ Plus(filled, 1) \in Ctr /\ Off(Plus(filled, 1)) = Off(filled) + 1
  <2>1. Off(filled) + 1 <= Limit
    <3> HIDE DEF Off
    <3> QED
      BY <1>3, <1>4
  <2> QED
    BY <1>2, <2>1, PlusOff DEF Off
<1>6. TypeOK'
  BY <1>1, <1>5 DEF TypeOK, HwRx, poolvars, loanvars
<1>7. Phases'
  BY <1>1 DEF Phases, HwRx, poolvars, loanvars
<1>8. Indices'
  <2>1. /\ Off(sr_pending)' = Off(sr_pending) /\ Off(sr_pushed)' = Off(sr_pushed)
        /\ Off(sr_added)' = Off(sr_added)
        /\ Off(filled)' = Off(Plus(filled, 1))
        /\ sr_pushed' = sr_pushed /\ QPush(sr_added)' = QPush(sr_added)
    BY DEF HwRx, Off, Minus, QPush
  <2>2. sr_pushed = QPush(sr_added)
    BY <1>1 DEF Indices
  <2> HIDE DEF Off, QPush
  <2> QED
    BY <1>3, <1>4, <1>5, <2>1, <2>2 DEF Indices
<1>9. Ring'
  BY <1>1, RingSame DEF HwRx, poolvars, loanvars
<1>10. Owners'
  BY <1>1, OwnersSame DEF HwRx, poolvars, loanvars
<1>11. Counts'
  BY <1>1, CountsSame DEF HwRx, poolvars, loanvars
<1> QED
  BY <1>6, <1>7, <1>8, <1>9, <1>10, <1>11 DEF IInv

LEMMA EvRxKeeps ==
  ASSUME IInv, EvRx
  PROVE  IInv'
<1>1. TypeOK /\ Phases /\ Indices /\ Ring /\ Owners /\ Counts
  BY DEF IInv
<1>2. sr_pending \in Ctr /\ sr_completed \in Ctr /\ filled \in Ctr
  BY <1>1 DEF TypeOK
<1>3. /\ Off(sr_pending) <= Off(filled) /\ Off(filled) <= Off(sr_pushed)
      /\ Off(sr_pushed) <= Off(sr_added) /\ Off(sr_added) <= Limit
      /\ Off(sr_pending) \in Nat /\ Off(filled) \in Nat
      /\ Off(sr_pushed) \in Nat /\ Off(sr_added) \in Nat /\ Limit \in Nat
  BY <1>1, OffType, Constants DEF Indices
<1>4. Minus(filled, sr_pending) = Off(filled) - Off(sr_pending)
  BY <1>2, <1>3, SlotsFrom DEF Off
<1>5. PICK k \in 1..Minus(filled, sr_pending) :
        sr_pending' = Plus(sr_pending, k)
  BY DEF EvRx
<1>6. k \in Nat /\ Off(sr_pending) + k <= Off(filled)
  <2> HIDE DEF Off
  <2> QED
    BY <1>3, <1>4
<1>7. /\ sr_pending' \in Ctr
      /\ Off(Plus(sr_pending, k)) = Off(sr_pending) + k
  <2>1. Off(sr_pending) + k <= Limit
    <3> HIDE DEF Off
    <3> QED
      BY <1>3, <1>6
  <2> QED
    BY <1>2, <1>5, <1>6, <2>1, PlusOff DEF Off
<1>8. TypeOK'
  BY <1>1, <1>7 DEF TypeOK, EvRx, poolvars, loanvars
<1>9. Phases'
  BY <1>1 DEF Phases, EvRx, poolvars, loanvars
<1>10. Indices'
  <2>1. /\ Off(sr_pending)' = Off(Plus(sr_pending, k))
        /\ Off(sr_pushed)' = Off(sr_pushed) /\ Off(sr_added)' = Off(sr_added)
        /\ Off(filled)' = Off(filled)
        /\ sr_pushed' = sr_pushed /\ QPush(sr_added)' = QPush(sr_added)
    BY <1>5 DEF EvRx, Off, Minus, QPush
  <2>2. sr_pushed = QPush(sr_added)
    BY <1>1 DEF Indices
  <2> HIDE DEF Off, QPush
  <2> QED
    BY <1>3, <1>6, <1>7, <2>1, <2>2 DEF Indices
<1>11. Ring'
  BY <1>1, RingSame DEF EvRx, poolvars, loanvars
<1>12. Owners'
  BY <1>1, OwnersSame DEF EvRx, poolvars, loanvars
<1>13. Counts'
  BY <1>1, CountsSame DEF EvRx, poolvars, loanvars
<1> QED
  BY <1>8, <1>9, <1>10, <1>11, <1>12, <1>13 DEF IInv

(* The steps that change the state of the queue and nothing else, and a    *)
(* trim that comes late.                                                   *)
LEMMA PlainKeeps ==
  ASSUME IInv, LateTrim \/ QStart \/ QStop \/ QInit
  PROVE  IInv'
<1>1. TypeOK /\ Phases /\ Indices /\ Ring /\ Owners /\ Counts
  BY DEF IInv
<1>2. CASE LateTrim
  <2>1. TypeOK'
    BY <1>1, <1>2 DEF TypeOK, LateTrim, idxvars
  <2>2. Phases'
    BY <1>1, <1>2 DEF Phases, LateTrim, idxvars
  <2>3. Indices' /\ Ring' /\ Owners'
    BY <1>1, <1>2, IndicesSame, RingSame, OwnersSame DEF LateTrim, idxvars
  <2>4. Counts'
    BY <1>1, <1>2 DEF Counts, LateTrim, TypeOK
  <2> QED
    BY <2>1, <2>2, <2>3, <2>4 DEF IInv
<1>3. CASE QStart
  <2>1. TypeOK'
    BY <1>1, <1>3 DEF TypeOK, QStart, idxvars, poolvars, loanvars
  <2>2. Phases'
    BY <1>1, <1>3 DEF Phases, QStart, idxvars, poolvars, loanvars
  <2>3. Indices' /\ Owners' /\ Counts'
    BY <1>1, <1>3, IndicesSame, OwnersSame, CountsSame
       DEF QStart, idxvars, poolvars, loanvars
  <2>4. Ring'
    <3>1. sr_added = 0 /\ sr_completed = 0 /\ 0 \in Ctr
      BY <1>1, <1>3, Constants DEF QStart, Phases, Ctr
    <3>2. InUse = {}
      BY <3>1, SlotsNone DEF InUse
    <3>3. InUse' = InUse
      BY <1>3 DEF InUse, QStart, idxvars, Slots, Minus, Id
    <3> QED
      BY <1>1, <1>3, <3>2, <3>3 DEF Ring, RingOK, QStart, poolvars, loanvars
  <2> QED
    BY <2>1, <2>2, <2>3, <2>4 DEF IInv
<1>4. CASE QStop
  <2>1. TypeOK'
    BY <1>1, <1>4, RxQueueAssumption
       DEF TypeOK, QStop, idxvars, poolvars, loanvars
  <2>2. Phases'
    BY <1>1, <1>4 DEF Phases, QStop, idxvars, poolvars, loanvars
  <2>3. Indices' /\ Ring' /\ Owners' /\ Counts'
    BY <1>1, <1>4, IndicesSame, RingSame, OwnersSame, CountsSame
       DEF QStop, idxvars, poolvars, loanvars
  <2> QED
    BY <2>1, <2>2, <2>3 DEF IInv
<1>5. CASE QInit
  <2>1. TypeOK'
    BY <1>1, <1>5 DEF TypeOK, QInit, idxvars, poolvars, loanvars
  <2>2. Phases'
    BY <1>1, <1>5 DEF Phases, QInit, idxvars, poolvars, loanvars
  <2>3. Indices' /\ Ring' /\ Owners' /\ Counts'
    BY <1>1, <1>5, IndicesSame, RingSame, OwnersSame, CountsSame
       DEF QInit, idxvars, poolvars, loanvars
  <2> QED
    BY <2>1, <2>2, <2>3 DEF IInv
<1> QED
  BY <1>2, <1>3, <1>4, <1>5

-----------------------------------------------------------------------------
(* Packets move from owner to owner.                                       *)
LEMMA QPacketFreeKeeps ==
  ASSUME IInv, NEW p \in Pkts, QPacketFree(p)
  PROVE  IInv'
<1>1. TypeOK /\ Phases /\ Indices /\ Ring /\ Owners /\ Counts
  BY DEF IInv
<1>2. /\ p \in stack /\ stack' = stack \ {p} /\ Recycle({p})
      /\ UNCHANGED <<sr_state, idxvars, sr_srpp, get, srfpp_count,
                     srfpp_loaned, srfpp_min, mblksize, flows, up, epc,
                     eop, stops>>
  BY DEF QPacketFree
<1>3. /\ put \in Seq(Pkts) /\ Inj(put) /\ {p} \subseteq Pkts
      /\ {p} \cap Range(put) = {}
  BY <1>1, <1>2 DEF TypeOK, Owners, Parts
<1>4. PICK F \in SUBSET {p} :
        /\ put' \in Seq(Pkts) /\ Inj(put')
        /\ Range(put') = Range(put) \cup ({p} \ F)
        /\ Len(put') + lost' = Len(put) + lost + Cardinality({p})
        /\ Len(put') \in Nat /\ lost' \in Nat /\ lost' \in 0..MaxFails
        /\ size' = Freed(F) /\ size' \in [Pkts -> Sizes \cup {0}]
        /\ Alloc(size') = Alloc(size) \ F
  BY <1>1, <1>2, <1>3, RecycleIs
<1>5. TypeOK'
  BY <1>1, <1>2, <1>4 DEF TypeOK, idxvars
<1>6. Phases'
  BY <1>1, <1>2 DEF Phases, idxvars
<1>7. Indices' /\ Ring'
  <2>1. F \subseteq Pkts /\ Held(sr_srpp) \cap F = {}
    BY <1>1, <1>2, <1>4 DEF Owners, Parts
  <2>2. UNCHANGED <<sr_srpp, sr_completed, sr_added, mblksize>>
    BY <1>2 DEF idxvars
  <2> QED
    BY <1>1, <1>2, <1>4, <2>1, <2>2, IndicesSame, RingStays
<1>8. Owners'
  <2>1. /\ Inj(get')
        /\ Held(sr_srpp') = Held(sr_srpp)
        /\ Range(get') = Range(get) /\ flows' = flows /\ up' = up
    BY <1>1, <1>2 DEF Owners
  <2>2. Parts(Alloc(size), Held(sr_srpp), Range(put), Range(get), flows, up,
              stack)
    BY <1>1 DEF Owners
  <2>3. Parts(Alloc(size) \ F, Held(sr_srpp), Range(put) \cup ({p} \ F),
              Range(get), flows, up, stack \ {p})
    BY <1>2, <2>2 DEF Parts
  <2>4. Parts(Alloc(size'), Held(sr_srpp'), Range(put'), Range(get'), flows',
              up', stack')
    BY <1>2, <1>4, <2>1, <2>3
  <2>5. Inj(put') /\ Inj(get')
    BY <1>4, <2>1
  <2> QED
    BY <2>4, <2>5 DEF Owners, Alloc, Held, Inj, Range
<1>9. Counts'
  <2> DEFINE A == {p}
             B == flows' \cup up' \cup stack'
  <2>1. /\ A \subseteq Pkts /\ B \subseteq Pkts /\ A \cap B = {}
        /\ A \cup B = flows \cup up \cup stack
    BY <1>1, <1>2 DEF TypeOK, Owners, Parts
  <2>2. /\ Cardinality(A \cup B) = Cardinality(A) + Cardinality(B)
        /\ Cardinality(A) \in Nat /\ Cardinality(B) \in Nat
    <3> HIDE DEF A, B
    <3> QED
      BY <2>1, Count
  <2>3. /\ srfpp_loaned = Len(put) + Cardinality(A \cup B) + lost
        /\ Len(put) \in Nat /\ lost \in Nat
    BY <1>1, <2>1, OutType DEF Counts
  <2>4. /\ Len(put') + lost' = Len(put) + lost + Cardinality(A)
        /\ srfpp_loaned' = srfpp_loaned /\ Len(put') \in Nat /\ lost' \in Nat
    BY <1>2, <1>4
  <2> HIDE DEF A
  <2>5. srfpp_loaned' = Len(put') + Cardinality(B) + lost'
    <3> HIDE DEF B
    <3> QED
      BY <2>2, <2>3, <2>4
  <2> QED
    BY <1>1, <1>2, <2>5 DEF Counts
<1> QED
  BY <1>5, <1>6, <1>7, <1>8, <1>9 DEF IInv

(* The chain goes up, but for what is kept back.                           *)
LEMMA PostKeeps ==
  ASSUME IInv, Post
  PROVE  IInv'
<1>1. TypeOK /\ Phases /\ Indices /\ Ring /\ Owners /\ Counts
  BY DEF IInv
<1>2. PICK S \in Kept : Recycle(S) /\ stack' = stack \cup (up \ S)
  BY DEF Post
<1>3. S \subseteq up
  BY DEF Kept
<1>4. /\ epc = "post" /\ epc' = "topup" /\ up' = {}
      /\ UNCHANGED <<sr_state, idxvars, sr_srpp, get, srfpp_count,
                     srfpp_loaned, srfpp_min, mblksize, flows, eop,
                     stops>>
  BY DEF Post
<1>5. Parts(Alloc(size), Held(sr_srpp), Range(put), Range(get), flows, up,
            stack)
  BY <1>1 DEF Owners
<1>6. /\ put \in Seq(Pkts) /\ Inj(put) /\ S \subseteq Pkts
      /\ S \cap Range(put) = {}
  BY <1>1, <1>3, <1>5 DEF TypeOK, Owners, Parts
<1>7. PICK F \in SUBSET S :
        /\ put' \in Seq(Pkts) /\ Inj(put')
        /\ Range(put') = Range(put) \cup (S \ F)
        /\ Len(put') + lost' = Len(put) + lost + Cardinality(S)
        /\ Len(put') \in Nat /\ lost' \in Nat /\ lost' \in 0..MaxFails
        /\ size' = Freed(F) /\ size' \in [Pkts -> Sizes \cup {0}]
        /\ Alloc(size') = Alloc(size) \ F
  BY <1>1, <1>2, <1>6, RecycleIs
<1>8. TypeOK'
  BY <1>1, <1>2, <1>4, <1>7 DEF TypeOK, idxvars
<1>9. Phases'
  BY <1>1, <1>4 DEF Phases, idxvars
<1>10. Indices' /\ Ring'
  <2>1. F \subseteq Pkts /\ Held(sr_srpp) \cap F = {}
    BY <1>3, <1>5, <1>6, <1>7 DEF Parts
  <2>2. UNCHANGED <<sr_srpp, sr_completed, sr_added, mblksize>>
    BY <1>4 DEF idxvars
  <2> QED
    BY <1>1, <1>4, <1>7, <2>1, <2>2, IndicesSame, RingStays
<1>11. Owners'
  <2>1. /\ Held(sr_srpp') = Held(sr_srpp)
        /\ Range(get') = Range(get) /\ flows' = flows
    BY <1>4
  <2>2. Parts(Alloc(size) \ F, Held(sr_srpp), Range(put) \cup (S \ F),
              Range(get), flows, {}, stack \cup (up \ S))
    BY <1>3, <1>5 DEF Parts
  <2>3. Parts(Alloc(size'), Held(sr_srpp'), Range(put'), Range(get'), flows',
              up', stack')
    BY <1>2, <1>4, <1>7, <2>1, <2>2
  <2>4. Inj(put') /\ Inj(get')
    BY <1>1, <1>4, <1>7 DEF Owners
  <2> QED
    BY <2>3, <2>4 DEF Owners, Alloc, Held, Inj, Range
<1>12. Counts'
  <2> DEFINE B == flows' \cup up' \cup stack'
  <2>1. /\ B \subseteq Pkts /\ S \cap B = {}
        /\ S \cup B = flows \cup up \cup stack
    BY <1>1, <1>2, <1>3, <1>4, <1>5 DEF TypeOK, Parts
  <2>2. /\ Cardinality(S \cup B) = Cardinality(S) + Cardinality(B)
        /\ Cardinality(S) \in Nat /\ Cardinality(B) \in Nat
    <3> HIDE DEF B
    <3> QED
      BY <1>6, <2>1, Count
  <2>3. /\ srfpp_loaned = Len(put) + Cardinality(S \cup B) + lost
        /\ Len(put) \in Nat /\ lost \in Nat
    BY <1>1, <2>1, OutType DEF Counts
  <2>4. srfpp_loaned' = Len(put') + Cardinality(B) + lost'
    <3> HIDE DEF B
    <3> QED
      BY <1>4, <1>7, <2>2, <2>3
  <2> QED
    BY <1>1, <1>4, <2>4 DEF Counts
<1> QED
  BY <1>8, <1>9, <1>10, <1>11, <1>12 DEF IInv

(* What the ring holds in the slots of some counters.                      *)
LEMMA DoneIs ==
  ASSUME IInv
  PROVE  LET r == [i \in DOMAIN sr_srpp |->
                     IF i \in Slots(sr_completed, sr_pending) THEN NoPkt
                     ELSE sr_srpp[i]]
         IN  /\ Done \subseteq Held(sr_srpp) /\ Done \subseteq Pkts
             /\ r \in [0..(NDescs - 1) -> Pkts \cup {NoPkt}]
             /\ Held(r) = Held(sr_srpp) \ Done
             /\ RingOK(r, Slots(sr_pending, sr_added), size, mblksize)
<1> DEFINE old == Slots(sr_completed, sr_pending)
           new == Slots(sr_pending, sr_added)
           D == 0..(NDescs - 1)
           r == [i \in DOMAIN sr_srpp |-> IF i \in old THEN NoPkt
                                          ELSE sr_srpp[i]]
<1>1. TypeOK /\ Indices /\ Ring
  BY DEF IInv
<1>2. /\ sr_srpp \in [D -> Pkts \cup {NoPkt}] /\ DOMAIN sr_srpp = D
      /\ sr_added \in Ctr /\ sr_pending \in Ctr /\ sr_completed \in Ctr
  BY <1>1 DEF TypeOK
<1>3. /\ Minus(sr_pending, sr_completed) <= Minus(sr_added, sr_completed)
      /\ Minus(sr_added, sr_completed) < NDescs
  <2>1. /\ Off(sr_pending) <= Off(filled) /\ Off(filled) <= Off(sr_pushed)
        /\ Off(sr_pushed) <= Off(sr_added) /\ Off(sr_added) <= Limit
        /\ Off(sr_pending) \in Nat /\ Off(filled) \in Nat
        /\ Off(sr_pushed) \in Nat /\ Off(sr_added) \in Nat
        /\ Limit < NDescs /\ Limit \in Nat /\ NDescs \in Nat
    BY <1>1, OffType, Constants DEF Indices
  <2>2. Off(sr_pending) <= Off(sr_added) /\ Off(sr_added) < NDescs
    <3> HIDE DEF Off
    <3> QED
      BY <2>1
  <2> QED
    BY <2>2 DEF Off
<1>4. /\ Slots(sr_completed, sr_added) = old \cup new /\ old \cap new = {}
      /\ Slots(sr_completed, sr_added) \subseteq D
  BY <1>2, <1>3, SlotsSplit
<1>5. /\ \A i \in D : IF i \in old \cup new
                      THEN sr_srpp[i] \in Pkts /\ size[sr_srpp[i]] = mblksize
                      ELSE sr_srpp[i] = NoPkt
      /\ \A i, j \in old \cup new : sr_srpp[i] = sr_srpp[j] => i = j
  BY <1>1, <1>2, <1>4 DEF Ring, RingOK, InUse
<1>6. Done = {sr_srpp[i] : i \in old}
  BY DEF Done
<1> HIDE DEF old, new
<1>7. r = [i \in D |-> IF i \in old THEN NoPkt ELSE sr_srpp[i]]
  BY <1>2
<1>8. /\ \A i \in D : r[i] = IF i \in old THEN NoPkt ELSE sr_srpp[i]
      /\ DOMAIN r = D /\ r \in [D -> Pkts \cup {NoPkt}]
  BY <1>2, <1>7
<1> HIDE DEF r, D
<1>9. NoPkt \notin Pkts
  BY Constants
<1>10. \A x : x \in Held(sr_srpp) <=> \E i \in old \cup new : sr_srpp[i] = x
  BY <1>2, <1>4, <1>5, <1>9 DEF Held
<1>11. Done \subseteq Held(sr_srpp) /\ Done \subseteq Pkts
  BY <1>4, <1>5, <1>6, <1>10
<1>12. \A x : x \in Held(r) <=> \E i \in new : sr_srpp[i] = x
  BY <1>4, <1>5, <1>8, <1>9 DEF Held
<1>13. Held(r) = Held(sr_srpp) \ Done
  BY <1>4, <1>5, <1>6, <1>10, <1>12
<1>14. RingOK(r, new, size, mblksize)
  BY <1>4, <1>5, <1>8 DEF RingOK
<1> QED
  BY <1>8, <1>11, <1>13, <1>14 DEF r, old, new, D

(* A completion takes the packets of the pending slots out of the ring: to *)
(* the chain, to a flow or back to the pool.                               *)
LEMMA QCompleteKeeps ==
  ASSUME IInv, QComplete
  PROVE  IInv'
<1>1. TypeOK /\ Phases /\ Indices /\ Ring /\ Owners /\ Counts
  BY DEF IInv
<1>2. PICK good \in SUBSET Done :
        \E h \in (IF Coalesce /\ ~eop THEN SUBSET (flows \cup good) ELSE {{}}) :
          /\ flows' = h /\ up' = (flows \cup good) \ h
          /\ Recycle(Done \ good) /\ srfpp_loaned' = Loan
  BY DEF QComplete
<1>3. PICK held : /\ held \subseteq flows \cup good /\ good \subseteq Done
                  /\ flows' = held /\ up' = (flows \cup good) \ held
                  /\ Recycle(Done \ good) /\ srfpp_loaned' = Loan
  BY <1>2
<1>4. /\ epc = "complete" /\ epc' = "deliver" /\ sr_completed' = sr_pending
      /\ sr_srpp' = [i \in DOMAIN sr_srpp |->
                       IF i \in Slots(sr_completed, sr_pending) THEN NoPkt
                       ELSE sr_srpp[i]]
      /\ UNCHANGED <<sr_state, sr_added, sr_pushed, sr_pending, filled, get,
                     srfpp_count, srfpp_min, mblksize, stack, eop, stops>>
  BY DEF QComplete
<1>5. /\ Done \subseteq Held(sr_srpp) /\ Done \subseteq Pkts
      /\ sr_srpp' \in [0..(NDescs - 1) -> Pkts \cup {NoPkt}]
      /\ Held(sr_srpp') = Held(sr_srpp) \ Done
      /\ RingOK(sr_srpp', Slots(sr_pending, sr_added), size, mblksize)
  BY <1>4, DoneIs
<1>6. up = {} /\ sr_state = "STARTED"
  BY <1>1, <1>4 DEF Phases
<1>7. /\ Parts(Alloc(size), Held(sr_srpp), Range(put), Range(get), flows, up,
               stack)
      /\ Inj(put) /\ Inj(get)
  BY <1>1 DEF Owners
<1> DEFINE bad == Done \ good
<1>8. /\ put \in Seq(Pkts) /\ bad \subseteq Pkts /\ bad \cap Range(put) = {}
  BY <1>1, <1>3, <1>5, <1>7 DEF TypeOK, Parts
<1>9. PICK F \in SUBSET bad :
        /\ put' \in Seq(Pkts) /\ Inj(put')
        /\ Range(put') = Range(put) \cup (bad \ F)
        /\ Len(put') + lost' = Len(put) + lost + Cardinality(bad)
        /\ Cardinality(bad) \in Nat
        /\ Len(put') \in Nat /\ lost' \in Nat /\ lost' \in 0..MaxFails
        /\ size' = Freed(F) /\ size' \in [Pkts -> Sizes \cup {0}]
        /\ Alloc(size') = Alloc(size) \ F
  <2> HIDE DEF bad
  <2> QED
    BY <1>1, <1>3, <1>7, <1>8, RecycleIs DEF bad
<1>10. /\ Cardinality(flows \cup up \cup stack) \in Nat /\ Len(put) \in Nat
       /\ lost \in Nat
  BY <1>1, OutType
<1>11. /\ Cardinality(good) \in Nat
       /\ Cardinality(Done) = Cardinality(good) + Cardinality(bad)
  <2>1. /\ good \subseteq Pkts /\ bad \subseteq Pkts /\ good \cap bad = {}
        /\ good \cup bad = Done
    BY <1>3, <1>5
  <2> HIDE DEF bad
  <2>2. /\ Cardinality(good) \in Nat
        /\ Cardinality(good \cup bad) = Cardinality(good) + Cardinality(bad)
    BY <2>1, Count
  <2> QED
    BY <2>1, <2>2
<1>12. /\ srfpp_loaned' = srfpp_loaned + Cardinality(Done)
       /\ srfpp_loaned \in Nat
  BY <1>1, <1>3 DEF Loan, TypeOK
<1>13. TypeOK'
  <2>1. flows' \subseteq Pkts /\ up' \subseteq Pkts
    BY <1>1, <1>3, <1>5 DEF TypeOK
  <2>2. srfpp_loaned' \in Nat
    <3> HIDE DEF bad
    <3> QED
      BY <1>9, <1>11, <1>12
  <2> QED
    BY <1>1, <1>4, <1>5, <1>9, <2>1, <2>2 DEF TypeOK
<1>14. Phases'
  BY <1>1, <1>4, <1>6 DEF Phases
<1>15. Indices'
  <2>1. /\ Off(sr_pending) <= Off(filled) /\ Off(filled) <= Off(sr_pushed)
        /\ Off(sr_pushed) <= Off(sr_added) /\ Off(sr_added) <= Limit
        /\ sr_pushed = QPush(sr_added)
        /\ Off(sr_pending) \in Nat /\ Off(filled) \in Nat
        /\ Off(sr_pushed) \in Nat /\ Off(sr_added) \in Nat /\ Limit \in Nat
    BY <1>1, OffType, Constants DEF Indices
  <2>2. /\ sr_completed \in Ctr /\ sr_pending \in Ctr /\ filled \in Ctr
        /\ sr_pushed \in Ctr /\ sr_added \in Ctr
    BY <1>1 DEF TypeOK
  <2>3. ASSUME NEW x \in Ctr, Off(sr_pending) <= Off(x)
        PROVE  Minus(x, sr_pending) = Off(x) - Off(sr_pending)
    BY <2>2, <2>3, SlotsFrom DEF Off
  <2> HIDE DEF Off
  <2>4. /\ Off(sr_pending) <= Off(sr_pending) /\ Off(sr_pending) <= Off(sr_pushed)
        /\ Off(sr_pending) <= Off(sr_added)
    BY <2>1
  <2>5. /\ Minus(sr_pending, sr_pending) = Off(sr_pending) - Off(sr_pending)
        /\ Minus(filled, sr_pending) = Off(filled) - Off(sr_pending)
        /\ Minus(sr_pushed, sr_pending) = Off(sr_pushed) - Off(sr_pending)
        /\ Minus(sr_added, sr_pending) = Off(sr_added) - Off(sr_pending)
    BY <2>1, <2>2, <2>3, <2>4
  <2>6. /\ Off(sr_pending)' = Minus(sr_pending, sr_pending)
        /\ Off(filled)' = Minus(filled, sr_pending)
        /\ Off(sr_pushed)' = Minus(sr_pushed, sr_pending)
        /\ Off(sr_added)' = Minus(sr_added, sr_pending)
        /\ sr_pushed' = sr_pushed /\ QPush(sr_added)' = QPush(sr_added)
    BY <1>4 DEF Off, Minus, QPush
  <2> HIDE DEF Minus, QPush
  <2> QED
    BY <2>1, <2>5, <2>6 DEF Indices
<1>16. Ring'
  <2>1. F \subseteq Pkts /\ Held(sr_srpp') \cap F = {}
    BY <1>5, <1>8, <1>9
  <2> DEFINE r == sr_srpp'
  <2>2. RingOK(r, Slots(sr_pending, sr_added), size', mblksize)
    <3>1. Held(r) \cap F = {}
      BY <2>1
    <3> HIDE DEF r
    <3> QED
      BY <1>5, <1>9, <2>1, <3>1, RingFreed DEF r
  <2>3. InUse' = Slots(sr_pending, sr_added)
    BY <1>4 DEF InUse, Slots, Id, Minus
  <2> QED
    BY <1>4, <2>2, <2>3 DEF Ring, RingOK
<1>17. Owners'
  <2>1. Parts(Alloc(size) \ F, Held(sr_srpp) \ Done,
              Range(put) \cup (bad \ F), Range(get), held,
              (flows \cup good) \ held, stack)
    <3>1. Parts(Alloc(size), Held(sr_srpp) \ Done, Range(put) \cup bad,
                Range(get), held, (flows \cup good) \ held, stack)
      BY <1>3, <1>5, <1>6, <1>7 DEF Parts
    <3>2. F \cap Range(put) = {}
      BY <1>8, <1>9
    <3>3. F \subseteq bad
      BY <1>9
    <3> HIDE DEF bad
    <3> QED
      BY <3>1, <3>2, <3>3 DEF Parts
  <2>2. /\ Range(get') = Range(get)
        /\ stack' = stack /\ flows' = held /\ up' = (flows \cup good) \ held
    BY <1>3, <1>4
  <2>3. Parts(Alloc(size'), Held(sr_srpp'), Range(put'), Range(get'), flows',
              up', stack')
    <3> HIDE DEF bad
    <3> QED
      BY <1>5, <1>9, <2>1, <2>2
  <2>4. Inj(put') /\ Inj(get')
    BY <1>4, <1>7, <1>9
  <2> QED
    BY <2>3, <2>4 DEF Owners, Alloc, Held, Inj, Range
<1>18. Counts'
  <2> DEFINE A == flows \cup up \cup stack
             B == flows' \cup up' \cup stack'
  <2>1. /\ A \subseteq Pkts /\ good \subseteq Pkts /\ A \cap good = {}
        /\ A \cup good = B
    BY <1>1, <1>3, <1>4, <1>5, <1>6, <1>7 DEF TypeOK, Parts
  <2>2. Cardinality(B) = Cardinality(A) + Cardinality(good)
    <3> HIDE DEF A, B
    <3> QED
      BY <2>1, Count
  <2>3. srfpp_loaned = Len(put) + Cardinality(A) + lost
    BY <1>1 DEF Counts
  <2>4. Cardinality(A) \in Nat
    BY <1>10
  <2> HIDE DEF A
  <2>5. srfpp_loaned' = Len(put') + Cardinality(B) + lost'
    <3> HIDE DEF B, bad
    <3>1. /\ Len(put') + lost' = Len(put) + lost + Cardinality(bad)
          /\ Len(put') \in Nat /\ lost' \in Nat /\ Cardinality(bad) \in Nat
      BY <1>9
    <3>2. /\ Cardinality(good) \in Nat /\ Cardinality(A) \in Nat
          /\ Len(put) \in Nat /\ lost \in Nat
      BY <1>10, <1>11, <2>4
    <3>3. srfpp_loaned' = Len(put) + Cardinality(A) + lost + Cardinality(good)
                            + Cardinality(bad)
      BY <1>11, <1>12, <2>3, <3>1, <3>2
    <3> QED
      BY <2>2, <3>1, <3>2, <3>3
  <2> QED
    BY <1>1, <1>4, <2>5 DEF Counts
<1> QED
  BY <1>13, <1>14, <1>15, <1>16, <1>17, <1>18 DEF IInv

(* A stop takes everything out of the ring and the flows.                  *)
LEMMA QStoppedKeeps ==
  ASSUME IInv, QStopped
  PROVE  IInv'
<1> DEFINE ring == {sr_srpp[i] : i \in Slots(sr_completed, sr_added)}
<1>1. TypeOK /\ Phases /\ Indices /\ Ring /\ Owners /\ Counts
  BY DEF IInv
<1>2. PICK S \in (IF sr_pushed # sr_added \/ flows = {} THEN {{}}
                  ELSE SUBSET flows \ {{}}) :
        /\ Recycle(ring \cup S) /\ stack' = stack \cup (flows \ S)
        /\ srfpp_loaned' = srfpp_loaned + Cardinality(ring)
  BY DEF QStopped
<1>3. S \subseteq flows
  BY <1>2
<1>4. /\ sr_state = "STOPPING" /\ epc = "idle" /\ sr_state' = "INITIALIZED"
      /\ flows' = {} /\ sr_srpp' = [i \in DOMAIN sr_srpp |-> NoPkt]
      /\ sr_added' = 0 /\ sr_pushed' = 0 /\ sr_pending' = 0
      /\ sr_completed' = 0 /\ filled' = 0
      /\ UNCHANGED <<get, srfpp_count, srfpp_min, mblksize, up, epc, eop, stops>>
  BY DEF QStopped
<1>5. up = {} /\ up' = {}
  BY <1>1, <1>4 DEF Phases
<1>6. /\ Parts(Alloc(size), Held(sr_srpp), Range(put), Range(get), flows, up,
               stack)
      /\ Inj(put) /\ Inj(get)
  BY <1>1 DEF Owners
<1>7. ring = Held(sr_srpp) /\ ring \subseteq Pkts
  <2> DEFINE u == Slots(sr_completed, sr_added)
             D == 0..(NDescs - 1)
  <2>1. /\ sr_srpp \in [D -> Pkts \cup {NoPkt}] /\ DOMAIN sr_srpp = D
        /\ sr_completed \in Ctr /\ sr_added \in Ctr
    BY <1>1 DEF TypeOK
  <2>2. u \subseteq D
    <3>1. Minus(sr_added, sr_completed) < NDescs
      <4>1. Off(sr_added) <= Limit /\ Off(sr_added) \in Nat
        BY <1>1, OffType DEF Indices
      <4>2. Off(sr_added) < NDescs
        <5> HIDE DEF Off
        <5> QED
          BY <4>1, Constants
      <4> QED
        BY <4>2 DEF Off
    <3>2. Minus(sr_completed, sr_completed) <= Minus(sr_added, sr_completed)
      <4>1. Minus(sr_completed, sr_completed) = 0
        BY <2>1, SlotsNone
      <4>2. Minus(sr_added, sr_completed) \in Nat
        BY <2>1, SlotOf
      <4> QED
        BY <4>1, <4>2
    <3> QED
      BY <2>1, <3>1, <3>2, SlotsSplit
  <2>3. \A i \in D : IF i \in u THEN sr_srpp[i] \in Pkts ELSE sr_srpp[i] = NoPkt
    BY <1>1, <2>1 DEF Ring, RingOK, InUse
  <2> HIDE DEF u, D
  <2>4. ring = {sr_srpp[i] : i \in u}
    BY DEF u
  <2> HIDE DEF ring
  <2> QED
    BY <2>1, <2>2, <2>3, <2>4, Constants DEF Held
<1> HIDE DEF ring
<1>8. /\ put \in Seq(Pkts) /\ ring \cup S \subseteq Pkts
      /\ (ring \cup S) \cap Range(put) = {}
  BY <1>1, <1>3, <1>6, <1>7 DEF TypeOK, Parts
<1> DEFINE T == ring \cup S
<1>9. PICK F \in SUBSET T :
        /\ put' \in Seq(Pkts) /\ Inj(put')
        /\ Range(put') = Range(put) \cup (T \ F)
        /\ Len(put') + lost' = Len(put) + lost + Cardinality(T)
        /\ Cardinality(T) \in Nat
        /\ Len(put') \in Nat /\ lost' \in Nat /\ lost' \in 0..MaxFails
        /\ size' = Freed(F) /\ size' \in [Pkts -> Sizes \cup {0}]
        /\ Alloc(size') = Alloc(size) \ F
  <2>1. T \subseteq Pkts /\ T \cap Range(put) = {} /\ Recycle(T)
    BY <1>2, <1>8
  <2> HIDE DEF T
  <2> QED
    BY <1>1, <1>6, <2>1, RecycleIs
<1>10. /\ Cardinality(ring) \in Nat /\ Cardinality(S) \in Nat
       /\ Cardinality(ring \cup S) = Cardinality(ring) + Cardinality(S)
  <2>1. ring \cap S = {} /\ ring \subseteq Pkts /\ S \subseteq Pkts
    BY <1>3, <1>6, <1>7, <1>8 DEF Parts
  <2> QED
    BY <2>1, Count
<1>11. TypeOK'
  <2>1. /\ 0 \in Ctr /\ stack' \subseteq Pkts
        /\ sr_srpp' \in [0..(NDescs - 1) -> Pkts \cup {NoPkt}]
    BY <1>1, <1>2, <1>4, Constants DEF TypeOK, Ctr
  <2>2. srfpp_loaned' \in Nat
    BY <1>1, <1>2, <1>10 DEF TypeOK
  <2> QED
    BY <1>1, <1>4, <1>9, <2>1, <2>2 DEF TypeOK
<1>12. Phases'
  BY <1>1, <1>4, <1>5 DEF Phases
<1>13. Minus(0, 0) = 0 /\ Slots(0, 0) = {} /\ QPush(0) = 0
  <2>1. 0 \in Ctr
    BY Constants DEF Ctr
  <2>2. 0 % WptrAlign = 0
    <3>1. 0 % WptrAlign <= 0 /\ 0 % WptrAlign \in 0..(WptrAlign - 1)
      BY Constants, ModLeast, ModRange
    <3> QED
      BY <3>1, Constants
  <2> QED
    BY <2>1, <2>2, SlotsNone DEF QPush
<1>14. Indices'
  <2>1. /\ Off(sr_pending)' = Minus(0, 0) /\ Off(filled)' = Minus(0, 0)
        /\ Off(sr_pushed)' = Minus(0, 0) /\ Off(sr_added)' = Minus(0, 0)
        /\ QPush(sr_added)' = QPush(0)
    BY <1>4 DEF Off, Minus, QPush
  <2> HIDE DEF Off, QPush
  <2> QED
    BY <1>4, <1>13, <2>1, Constants DEF Indices
<1>15. Ring'
  <2>1. InUse' = Slots(0, 0)
    BY <1>4 DEF InUse, Slots, Minus, Id
  <2> QED
    BY <1>4, <1>13, <2>1 DEF Ring, RingOK
<1>16. Owners'
  <2>1. Held(sr_srpp') = {}
    BY <1>4 DEF Held
  <2>2. Range(get') = Range(get)
    BY <1>4
  <2>3. Parts(Alloc(size) \ F, {}, Range(put) \cup (T \ F), Range(get), {},
              {}, stack \cup (flows \ S))
    <3>1. Parts(Alloc(size), {}, Range(put) \cup T, Range(get), {}, {},
                stack \cup (flows \ S))
      BY <1>3, <1>5, <1>6, <1>7 DEF Parts
    <3>2. T \cap Range(put) = {}
      BY <1>8
    <3> HIDE DEF T
    <3> QED
      BY <1>9, <3>1, <3>2 DEF Parts
  <2>4. Parts(Alloc(size'), Held(sr_srpp'), Range(put'), Range(get'), flows',
              up', stack')
    BY <1>2, <1>4, <1>5, <1>9, <2>1, <2>2, <2>3
  <2>5. Inj(put') /\ Inj(get')
    BY <1>4, <1>6, <1>9
  <2> QED
    BY <2>4, <2>5 DEF Owners, Alloc, Held, Inj, Range
<1>17. Counts'
  <2> DEFINE B == flows' \cup up' \cup stack'
  <2>1. /\ S \subseteq Pkts /\ B \subseteq Pkts /\ S \cap B = {}
        /\ flows \cup up \cup stack = S \cup B
    BY <1>1, <1>2, <1>3, <1>4, <1>5, <1>6 DEF TypeOK, Parts
  <2>2. /\ Cardinality(S \cup B) = Cardinality(S) + Cardinality(B)
        /\ Cardinality(B) \in Nat
    <3> HIDE DEF B
    <3> QED
      BY <2>1, Count
  <2>3. /\ srfpp_loaned = Len(put) + Cardinality(S \cup B) + lost
        /\ Len(put) \in Nat /\ lost \in Nat
    BY <1>1, <2>1, OutType DEF Counts
  <2>4. srfpp_loaned' = Len(put') + Cardinality(B) + lost'
    <3> HIDE DEF B
    <3>1. /\ Len(put') + lost' = Len(put) + lost + Cardinality(ring \cup S)
          /\ Len(put') \in Nat /\ lost' \in Nat
          /\ srfpp_loaned' = srfpp_loaned + Cardinality(ring)
      BY <1>2, <1>9
    <3> QED
      BY ONLY <3>1, <1>10, <2>2, <2>3
  <2> QED
    BY <1>1, <1>4, <2>4 DEF Counts
<1> QED
  BY <1>11, <1>12, <1>14, <1>15, <1>16, <1>17 DEF IInv

(* The tear-down waits for the packets on loan, and frees the pool.        *)
LEMMA CanDestroyKeeps ==
  ASSUME IInv, CanDestroy
  PROVE  IInv'
<1>1. TypeOK /\ Phases /\ Indices /\ Ring /\ Owners /\ Counts
  BY DEF IInv
<1>2. /\ sr_state = "INITIALIZED" /\ epc = "idle"
      /\ put' = << >> /\ get' = put \o get
      /\ srfpp_loaned' = srfpp_loaned - Len(put)
      /\ srfpp_count' = srfpp_count + Len(put)
      /\ sr_state' = (IF srfpp_loaned - Len(put) = 0 THEN "DESTROYING"
                      ELSE sr_state)
      /\ UNCHANGED <<idxvars, sr_srpp, srfpp_min, size, mblksize, flows, up,
                     stack, epc, eop, stops, lost>>
  BY DEF CanDestroy, Loaned, AllBack
<1> DEFINE out == flows \cup up \cup stack
<1>3. /\ Cardinality(out) \in Nat /\ Len(put) \in Nat /\ Len(get) \in Nat
      /\ srfpp_count = Len(get) /\ srfpp_min <= srfpp_count
      /\ srfpp_loaned = Len(put) + Cardinality(out) + lost
      /\ srfpp_min \in Nat /\ lost \in Nat
  BY <1>1, OutType DEF Counts, TypeOK
<1>4. /\ put \o get \in Seq(Pkts) /\ Len(put \o get) = Len(put) + Len(get)
      /\ Inj(put \o get) /\ Range(put \o get) = Range(put) \cup Range(get)
  BY <1>1, PoolIs
<1>5. IsFiniteSet(out)
  <2>1. out \subseteq Pkts
    BY <1>1 DEF TypeOK
  <2> QED
    BY <2>1, Constants, FS_Subset
<1>6. srfpp_loaned' = Cardinality(out) + lost
  <2> HIDE DEF out
  <2> QED
    BY <1>2, <1>3
<1>7. sr_state' = "DESTROYING" => stack = {}
  <2>1. ASSUME sr_state' = "DESTROYING" PROVE out = {}
    <3> HIDE DEF out
    <3>1. Cardinality(out) = 0
      BY <1>2, <1>3, <2>1
    <3> QED
      BY <1>5, <3>1, FS_EmptySet
  <2> QED
    BY <2>1
<1>8. TypeOK'
  <2>1. put' \in Seq(Pkts) /\ get' \in Seq(Pkts)
    BY <1>2, <1>4
  <2>2. srfpp_loaned' \in Nat /\ srfpp_count' \in Nat
    <3> HIDE DEF out
    <3> QED
      BY <1>2, <1>3, <1>6
  <2>3. sr_state' \in {"INITIALIZED", "DESTROYING"}
    BY <1>2
  <2> QED
    BY <1>1, <1>2, <2>1, <2>2, <2>3 DEF TypeOK, idxvars
<1>9. Phases'
  BY <1>1, <1>2, <1>7 DEF Phases, idxvars
<1>10. Indices' /\ Ring'
  BY <1>1, <1>2, IndicesSame, RingSame DEF idxvars
<1>11. Owners'
  <2>1. Parts(Alloc(size), Held(sr_srpp), Range(put), Range(get), flows, up,
              stack)
    BY <1>1 DEF Owners
  <2>2. Range(put') = {} /\ Range(get') = Range(put) \cup Range(get)
    <3>1. Range(<< >>) = {}
      BY DEF Range
    <3> QED
      BY <1>2, <1>4, <3>1
  <2>3. Parts(Alloc(size'), Held(sr_srpp'), Range(put'), Range(get'), flows',
              up', stack')
    BY <1>2, <2>1, <2>2 DEF Parts
  <2>4. Inj(put') /\ Inj(get')
    BY <1>2, <1>4 DEF Inj
  <2> QED
    BY <2>3, <2>4 DEF Owners, Alloc, Held, Inj, Range
<1>12. Counts'
  <2>1. Len(put') = 0 /\ Len(get') = srfpp_count'
    BY <1>2, <1>3, <1>4
  <2>2. srfpp_min' <= srfpp_count'
    BY <1>2, <1>3
  <2>3. Cardinality(flows' \cup up' \cup stack') = Cardinality(out)
    BY <1>2
  <2>4. srfpp_loaned'
          = Len(put') + Cardinality(flows' \cup up' \cup stack') + lost'
    <3> HIDE DEF out
    <3> QED
      BY <1>2, <1>3, <1>6, <2>1, <2>3
  <2> QED
    BY <2>1, <2>2, <2>4 DEF Counts
<1> QED
  BY <1>8, <1>9, <1>10, <1>11, <1>12 DEF IInv

LEMMA QFiniKeeps ==
  ASSUME IInv, QFini
  PROVE  IInv'
<1>1. TypeOK /\ Phases /\ Indices /\ Ring /\ Owners /\ Counts
  BY DEF IInv
<1>2. /\ sr_state = "DESTROYING" /\ sr_state' = "UNINITIALIZED"
      /\ put' = << >> /\ get' = << >>
      /\ size' = [p \in Pkts |-> IF p \in Range(put \o get) THEN 0 ELSE size[p]]
      /\ srfpp_loaned' = srfpp_loaned - Len(put) /\ srfpp_min' = 0
      /\ srfpp_count' = srfpp_count + Len(put) - Len(put \o get)
      /\ UNCHANGED <<idxvars, sr_srpp, mblksize, flows, up, stack, epc, eop,
                     stops, lost>>
  BY DEF QFini, Destroy, Loaned
<1>3. flows = {} /\ up = {} /\ stack = {} /\ sr_added = 0 /\ sr_completed = 0
  BY <1>1, <1>2 DEF Phases
<1>4. /\ put \o get \in Seq(Pkts) /\ Len(put \o get) = Len(put) + Len(get)
      /\ Range(put \o get) = Range(put) \cup Range(get)
      /\ Len(put) \in Nat /\ Len(get) \in Nat
  BY <1>1, PoolIs
<1>5. srfpp_count' = 0 /\ srfpp_loaned' = lost /\ lost \in Nat
  <2>1. /\ srfpp_count = Len(get) /\ lost \in Nat
        /\ srfpp_loaned = Len(put) + Cardinality({}) + lost
    BY <1>1, <1>3, OutType DEF Counts
  <2> QED
    BY <1>2, <1>4, <2>1, FS_EmptySet
<1>6. InUse = {}
  <2>1. 0 \in Ctr
    BY Constants DEF Ctr
  <2> QED
    BY <1>3, <2>1, SlotsNone DEF InUse
<1>7. Held(sr_srpp) = {}
  BY <1>1, <1>6 DEF Ring, RingOK, Held
<1>8. size' \in [Pkts -> Sizes \cup {0}] /\ Alloc(size') = {}
  <2>1. Alloc(size) = Range(put \o get)
    BY <1>1, <1>3, <1>4, <1>7 DEF Owners, Parts
  <2>2. size \in [Pkts -> Sizes \cup {0}]
    BY <1>1 DEF TypeOK
  <2> QED
    BY <1>2, <2>1, <2>2 DEF Alloc
<1>9. TypeOK'
  BY <1>1, <1>2, <1>5, <1>8 DEF TypeOK, idxvars
<1>10. Phases'
  BY <1>1, <1>2, <1>3 DEF Phases, idxvars
<1>11. Indices'
  BY <1>1, <1>2, IndicesSame DEF idxvars
<1>12. Ring'
  <2>1. InUse' = InUse
    BY <1>2 DEF InUse, Slots, Minus, Id, idxvars
  <2> QED
    BY <1>1, <1>2, <1>6, <2>1 DEF Ring, RingOK
<1>13. Owners'
  <2>1. Range(put') = {} /\ Range(get') = {} /\ Held(sr_srpp') = {}
    BY <1>2, <1>7 DEF Range
  <2>2. Parts(Alloc(size'), Held(sr_srpp'), Range(put'), Range(get'), flows',
              up', stack')
    BY <1>2, <1>3, <1>8, <2>1 DEF Parts
  <2>3. Inj(put') /\ Inj(get')
    BY <1>2 DEF Inj
  <2> QED
    BY <2>2, <2>3 DEF Owners, Alloc, Held, Inj, Range
<1>14. Counts'
  BY <1>2, <1>3, <1>5, FS_EmptySet DEF Counts
<1> QED
  BY <1>9, <1>10, <1>11, <1>12, <1>13, <1>14 DEF IInv

-----------------------------------------------------------------------------
(* The inductive invariant: the owners have different packets, which are   *)
(* together those allocated, and the ring and the counts say so.           *)
LEMMA InitIInv == Init => IInv
<1> SUFFICES ASSUME Init PROVE IInv
  OBVIOUS
<1>1. 0 \in Ctr /\ Minus(0, 0) = 0 /\ Slots(0, 0) = {}
  <2>1. 0 \in Ctr
    BY Constants DEF Ctr
  <2> QED
    BY <2>1, SlotsNone
<1>2. QPush(0) = 0
  <2>1. 0 % WptrAlign <= 0 /\ 0 % WptrAlign \in 0..(WptrAlign - 1)
    BY Constants, ModLeast, ModRange
  <2>2. 0 % WptrAlign = 0
    BY <2>1, Constants
  <2> QED
    BY <2>2 DEF QPush
<1> USE DEF Init
<1>3. TypeOK
  <2>1. put \in Seq(Pkts) /\ get \in Seq(Pkts)
    OBVIOUS
  <2>2. stops \in 0..MaxStops /\ lost \in 0..MaxFails
    BY RxQueueAssumption
  <2>3. size \in [Pkts -> Sizes \cup {0}] /\ mblksize \in Sizes
    OBVIOUS
  <2>4. sr_srpp \in [0..(NDescs - 1) -> Pkts \cup {NoPkt}]
    OBVIOUS
  <2> QED
    BY <1>1, <2>1, <2>2, <2>3, <2>4 DEF TypeOK
<1>4. Phases
  BY DEF Phases
<1>5. Indices
  BY <1>1, <1>2, Constants DEF Indices, Off
<1>6. Ring
  BY <1>1 DEF Ring, RingOK, InUse
<1>7. Owners
  <2>1. Range(put) = {} /\ Range(get) = {} /\ Held(sr_srpp) = {} /\ Alloc(size) = {}
    BY DEF Range, Held, Alloc
  <2>2. Inj(put) /\ Inj(get)
    BY DEF Inj
  <2>3. flows = {} /\ up = {} /\ stack = {}
    OBVIOUS
  <2> QED
    BY ONLY <2>1, <2>2, <2>3 DEF Owners, Parts
<1>8. Counts
  BY FS_EmptySet DEF Counts
<1> QED
  BY <1>3, <1>4, <1>5, <1>6, <1>7, <1>8 DEF IInv

LEMMA NextIInv == IInv /\ [Next]_vars => IInv'
<1> SUFFICES ASSUME IInv, [Next]_vars PROVE IInv'
  OBVIOUS
<1>1. CASE HwRx
  BY <1>1, HwRxKeeps
<1>2. CASE EvRx
  BY <1>2, EvRxKeeps
<1>3. CASE PollStep
  BY <1>3, PollKeeps, QCompleteKeeps, PostKeeps DEF PollStep
<1>4. CASE QfppTrim
  BY <1>4, PollKeeps
<1>5. CASE LateTrim \/ QStart \/ QStop \/ QInit
  BY <1>5, PlainKeeps
<1>6. CASE \E p \in Pkts : QPacketFree(p)
  BY <1>6, QPacketFreeKeeps
<1>7. CASE QStopped
  BY <1>7, QStoppedKeeps
<1>8. CASE CanDestroy
  BY <1>8, CanDestroyKeeps
<1>9. CASE QFini
  BY <1>9, QFiniKeeps
<1>10. CASE UNCHANGED vars
  <2>1. TypeOK /\ Phases /\ Indices /\ Ring /\ Owners /\ Counts
    BY DEF IInv
  <2>2. TypeOK'
    BY <1>10, <2>1 DEF TypeOK, vars, idxvars, poolvars, loanvars
  <2>3. Phases'
    BY <1>10, <2>1 DEF Phases, vars, idxvars, poolvars, loanvars
  <2>4. Indices' /\ Ring' /\ Owners' /\ Counts'
    BY <1>10, <2>1, IndicesSame, RingSame, OwnersSame, CountsSame
       DEF vars, idxvars, poolvars, loanvars
  <2> QED
    BY <2>2, <2>3, <2>4 DEF IInv
<1> QED
  BY <1>1, <1>2, <1>3, <1>4, <1>5, <1>6, <1>7, <1>8, <1>9, <1>10 DEF Next

THEOREM PacketsAccountedFor == Spec => []IInv
BY InitIInv, NextIInv, PTL DEF Spec

(* RingHolds, which the run checks: a slot holds a packet exactly while    *)
(* its descriptor is outstanding, and of the size the hardware is told.    *)
THEOREM RingHoldsAlways == Spec => []RingHolds
<1>1. IInv => RingHolds
  <2> SUFFICES ASSUME IInv PROVE RingHolds
    OBVIOUS
  <2>1. TypeOK /\ Indices /\ Ring
    BY DEF IInv
  <2>2. \A i \in DOMAIN sr_srpp :
          IF i \in Slots(sr_completed, sr_added)
          THEN sr_srpp[i] # NoPkt /\ size[sr_srpp[i]] = mblksize
          ELSE sr_srpp[i] = NoPkt
    BY <2>1, Constants DEF Ring, RingOK, InUse
  <2> QED
    BY <2>1, <2>2 DEF RingHolds, Indices, Off
<1> QED
  BY <1>1, PacketsAccountedFor, PTL

(* What is somewhere at most once is counted as one or none.               *)
LEMMA Once ==
  ASSUME NEW D, NEW f, NEW p,
         \A i, j \in D : f[i] = p /\ f[j] = p => i = j
  PROVE  Cardinality({i \in D : f[i] = p})
           = IF \E i \in D : f[i] = p THEN 1 ELSE 0
<1> DEFINE A == {i \in D : f[i] = p}
<1>1. CASE \E i \in D : f[i] = p
  <2>1. PICK i \in D : f[i] = p
    BY <1>1
  <2>2. A = {i}
    BY <2>1
  <2> HIDE DEF A
  <2>3. Cardinality(A) = 1
    BY <2>2, FS_Singleton
  <2> QED
    BY <1>1, <2>3 DEF A
<1>2. CASE ~\E i \in D : f[i] = p
  <2>1. A = {}
    BY <1>2
  <2> HIDE DEF A
  <2>2. Cardinality(A) = 0
    BY <2>1, FS_EmptySet
  <2> QED
    BY <1>2, <2>2 DEF A
<1> QED
  BY <1>1, <1>2

(* The number of the sets, of flows, up and stack, that have a packet.     *)
LEMMA OutOnce ==
  ASSUME NEW f, NEW u, NEW s, NEW p, f \cap (u \cup s) = {}, u \cap s = {}
  PROVE  Cardinality({S \in {<<1, f>>, <<2, u>>, <<3, s>>} : p \in S[2]})
           = IF p \in f \cup u \cup s THEN 1 ELSE 0
<1> DEFINE a == <<1, f>>
           b == <<2, u>>
           c == <<3, s>>
           A == {S \in {a, b, c} : p \in S[2]}
<1>1. a[2] = f /\ b[2] = u /\ c[2] = s
  OBVIOUS
<1> HIDE DEF a, b, c
<1>2. CASE p \in f
  <2>1. A = {a}
    BY <1>1, <1>2
  <2> QED
    BY <1>2, <2>1, FS_Singleton DEF a, b, c
<1>3. CASE p \in u
  <2>1. A = {b}
    BY <1>1, <1>3
  <2> QED
    BY <1>3, <2>1, FS_Singleton DEF a, b, c
<1>4. CASE p \in s
  <2>1. A = {c}
    BY <1>1, <1>4
  <2> QED
    BY <1>4, <2>1, FS_Singleton DEF a, b, c
<1>5. CASE p \notin f \cup u \cup s
  <2>1. A = {}
    BY <1>1, <1>5
  <2> QED
    BY <1>5, <2>1, FS_EmptySet DEF a, b, c
<1> QED
  BY <1>2, <1>3, <1>4, <1>5

(* OneOwner, which the run checks: every packet that is allocated is in    *)
(* one place, the counts say how many are where, and none is left when the *)
(* queue is torn down.                                                     *)
THEOREM OneOwnerAlways == Spec => []OneOwner
<1>1. IInv => OneOwner
  <2> SUFFICES ASSUME IInv PROVE OneOwner
    OBVIOUS
  <2>1. TypeOK /\ Phases /\ Ring /\ Owners /\ Counts
    BY DEF IInv
  <2>2. /\ Inj(put) /\ Inj(get)
        /\ Parts(Alloc(size), Held(sr_srpp), Range(put), Range(get), flows, up,
                 stack)
    BY <2>1 DEF Owners
  <2>3. ASSUME NEW p \in Pkts
        PROVE  Cardinality({i \in DOMAIN sr_srpp : sr_srpp[i] = p})
                 = IF p \in Held(sr_srpp) THEN 1 ELSE 0
    <3>1. \A i \in DOMAIN sr_srpp : sr_srpp[i] = p => i \in InUse
      BY <2>1, Constants DEF Ring, RingOK
    <3>2. \A i, j \in DOMAIN sr_srpp : sr_srpp[i] = p /\ sr_srpp[j] = p => i = j
      BY <2>1, <3>1 DEF Ring, RingOK
    <3>3. (\E i \in DOMAIN sr_srpp : sr_srpp[i] = p) <=> p \in Held(sr_srpp)
      BY Constants DEF Held
    <3> DEFINE D == DOMAIN sr_srpp
    <3>4. Cardinality({i \in D : sr_srpp[i] = p})
            = IF \E i \in D : sr_srpp[i] = p THEN 1 ELSE 0
      <4>1. \A i, j \in D : sr_srpp[i] = p /\ sr_srpp[j] = p => i = j
        BY <3>2
      <4> HIDE DEF D
      <4> QED
        BY <4>1, Once
    <3> QED
      BY <3>3, <3>4
  <2>4. ASSUME NEW s, Inj(s), NEW p
        PROVE  Times(p, s) = IF p \in Range(s) THEN 1 ELSE 0
    <3>1. \A i, j \in DOMAIN s : s[i] = p /\ s[j] = p => i = j
      BY <2>4 DEF Inj
    <3>2. (\E i \in DOMAIN s : s[i] = p) <=> p \in Range(s)
      BY DEF Range
    <3> DEFINE D == DOMAIN s
    <3>3. Cardinality({i \in D : s[i] = p})
            = IF \E i \in D : s[i] = p THEN 1 ELSE 0
      <4>1. \A i, j \in D : s[i] = p /\ s[j] = p => i = j
        BY <3>1
      <4> HIDE DEF D
      <4> QED
        BY <4>1, Once
    <3> QED
      BY <3>2, <3>3 DEF Times
  <2>5. ASSUME NEW p \in Pkts
        PROVE  Cardinality({i \in DOMAIN sr_srpp : sr_srpp[i] = p})
               + Times(p, put) + Times(p, get)
               + Cardinality({S \in {<<1, flows>>, <<2, up>>, <<3, stack>>} :
                                p \in S[2]})
               = IF size[p] = 0 THEN 0 ELSE 1
    <3> DEFINE a == Cardinality({i \in DOMAIN sr_srpp : sr_srpp[i] = p})
               b == Times(p, put)
               c == Times(p, get)
               d == Cardinality({S \in {<<1, flows>>, <<2, up>>, <<3, stack>>} :
                                   p \in S[2]})
               out == flows \cup up \cup stack
    <3>1. a = IF p \in Held(sr_srpp) THEN 1 ELSE 0
      BY <2>3
    <3>2. /\ b = IF p \in Range(put) THEN 1 ELSE 0
          /\ c = IF p \in Range(get) THEN 1 ELSE 0
      BY <2>2, <2>4
    <3>3. d = IF p \in out THEN 1 ELSE 0
      <4>1. flows \cap (up \cup stack) = {} /\ up \cap stack = {}
        BY <2>2 DEF Parts
      <4> QED
        BY <4>1, OutOnce
    <3>4. /\ Alloc(size) = Held(sr_srpp) \cup Range(put) \cup Range(get) \cup out
          /\ Held(sr_srpp) \cap (Range(put) \cup Range(get) \cup out) = {}
          /\ Range(put) \cap (Range(get) \cup out) = {}
          /\ Range(get) \cap out = {}
      BY <2>2 DEF Parts
    <3>5. p \in Alloc(size) <=> size[p] # 0
      BY DEF Alloc
    <3> HIDE DEF a, b, c, d, out
    <3>6. a + b + c + d = IF size[p] = 0 THEN 0 ELSE 1
      <4>1. CASE p \in Held(sr_srpp)
        BY <3>1, <3>2, <3>3, <3>4, <3>5, <4>1
      <4>2. CASE p \in Range(put)
        BY <3>1, <3>2, <3>3, <3>4, <3>5, <4>2
      <4>3. CASE p \in Range(get)
        BY <3>1, <3>2, <3>3, <3>4, <3>5, <4>3
      <4>4. CASE p \in out
        BY <3>1, <3>2, <3>3, <3>4, <3>5, <4>4
      <4>5. CASE p \notin Alloc(size)
        BY <3>1, <3>2, <3>3, <3>4, <3>5, <4>5
      <4> QED
        BY <3>4, <4>1, <4>2, <4>3, <4>4, <4>5
    <3> QED
      BY <3>6 DEF a, b, c, d
  <2>6. sr_state = "UNINITIALIZED" => \A p \in Pkts : size[p] = 0
    <3> SUFFICES ASSUME sr_state = "UNINITIALIZED", NEW p \in Pkts
                 PROVE  size[p] = 0
      OBVIOUS
    <3>1. /\ epc = "idle" /\ up = {} /\ flows = {} /\ stack = {}
          /\ put = << >> /\ get = << >> /\ sr_added = 0 /\ sr_completed = 0
      BY <2>1 DEF Phases
    <3>2. InUse = {}
      <4>1. 0 \in Ctr
        BY Constants DEF Ctr
      <4> QED
        BY <3>1, <4>1, SlotsNone DEF InUse
    <3>3. Held(sr_srpp) = {}
      BY <2>1, <3>2 DEF Ring, RingOK, Held
    <3>4. Range(put) = {} /\ Range(get) = {}
      BY <3>1 DEF Range
    <3> QED
      BY <2>2, <3>1, <3>3, <3>4 DEF Parts, Alloc
  <2> QED
    BY <2>1, <2>5, <2>6 DEF OneOwner, Counts
<1> QED
  BY <1>1, PacketsAccountedFor, PTL

=============================================================================
