----------------------------- MODULE TxDplProofs -----------------------------
(***************************************************************************)
(* Proofs about TxDpl for any senders, packets and limits: every packet    *)
(* structure is in one place, the messages of a sender reach the ring in   *)
(* order, and the list assertions hold whenever the lock is free.          *)
(*                                                                         *)
(* The proofs look at the get list and the put list together, oldest       *)
(* packet first: the swizzle, which moves the one to the end of the other, *)
(* leaves this queue as it is, an accepted packet is appended to it        *)
(* whichever way it takes, and the drain takes its head.                   *)
(***************************************************************************)
EXTENDS TxDpl, TLAPS, FiniteSetTheorems, SequenceTheorems

(* A function on 1..n is a sequence.                                       *)
LEMMA FunctionIsSeq ==
  ASSUME NEW S, NEW n \in Nat, NEW f \in [1..n -> S]
  PROVE  f \in Seq(S) /\ Len(f) = n
OBVIOUS

-----------------------------------------------------------------------------
Real == [src : Senders, num : 1..MaxSend]

Steps == {"idle", "try", "alloc", "add", "read", "len", "cas", "retry",
          "enospc", "held", "service", "drain", "unlock", "check", "again",
          "complete", "unblock", "update"}

(* Shape of the state, in three parts.                                     *)
Threads ==
  /\ st_lock \in Agents \cup {NoThread, Kstat}
  /\ st_state \in {"UNINITIALIZED", "INITIALIZED", "STARTED", "FLUSHING"}
  /\ s_started \in BOOLEAN /\ stops \in 0..MaxStops
  /\ tpc \in [Agents -> Steps]
  /\ mine \in [Senders -> Pkts \cup {NoPkt}]
  /\ old \in [Senders -> Pkts \cup {NoPkt}]
  /\ nxt \in [Senders -> 1..(MaxSend + 1)]
  /\ woken \in [Senders -> BOOLEAN] /\ sent \in [Senders -> 0..MaxSend]

Lists ==
  /\ std_put \in Seq(Pkts) /\ std_get \in Seq(Pkts) /\ std_count \in Nat
  /\ stp \in [Pkts -> [msg : Msgs, put_len : Nat]]
  /\ st_fpp \in Seq(Pkts) /\ Len(st_fpp) <= PoolMax /\ cache \subseteq Pkts

Counts ==
  /\ frag \in Msgs /\ blocked \in BOOLEAN
  /\ np \in Nat /\ dn \in Nat /\ hw \in Nat /\ ev \in Nat /\ pend \in Nat
  /\ InRing <= RingSize

Holding  == {"add", "service", "drain", "unlock"}
Carrying == {"add", "read", "len", "cas"}
Offering == {"retry", "service", "drain", "unlock", "check", "again"}

(* Who holds the lock, who carries a packet, and where the event thread    *)
(* can be.                                                                 *)
LockInv ==
  /\ \A a \in Agents : tpc[a] \in Holding => st_lock = a
  /\ \A a \in Agents : st_lock = a => tpc[a] \in Holding \cup {"alloc"}
  /\ tpc[Evq] \in {"idle", "service", "drain", "unlock", "check", "again",
                   "complete", "unblock", "update"}
  /\ \A s \in Senders : tpc[s] \notin {"complete", "unblock", "update"}
  /\ \A s \in Senders : mine[s] # NoPkt <=> tpc[s] \in Carrying
  /\ \A s \in Senders : tpc[s] # "idle" => nxt[s] <= MaxSend

(* The lists while the lock changes hands.                                 *)
ListInv ==
  /\ (\A a \in Agents : tpc[a] # "drain") => std_count = Len(std_get)
  /\ \/ blocked \/ std_get = << >>
     \/ \E a \in Agents : tpc[a] \in {"service", "drain"}
  /\ \A a \in Agents : tpc[a] = "drain" => ~blocked
  /\ tpc[Evq] = "unblock" => blocked
  /\ blocked <=> frag # NoMsg
  /\ st_state \in {"INITIALIZED", "UNINITIALIZED"} => ~blocked
  /\ s_started => st_state = "STARTED"
  /\ st_state = "UNINITIALIZED" =>
       /\ std_put = << >> /\ std_get = << >>
       /\ \A a \in Agents : tpc[a] \in {"idle", "held"}

(* The packets of both lists, oldest first.                                *)
Queue == std_get \o Reverse(std_put)
Inj(s) == \A i, j \in DOMAIN s : s[i] = s[j] => i = j

(* The packets that the senders m hold, and what it means that each of     *)
(* four sets has its own packets and together they have all.               *)
MineOf(m) == {m[s] : s \in Senders} \ {NoPkt}
Distinct(m) == \A s, t \in Senders : m[s] = m[t] /\ m[s] # NoPkt => s = t
Parts(queued, pool, free, carried) ==
  /\ queued \cap pool = {} /\ queued \cap free = {} /\ queued \cap carried = {}
  /\ pool \cap free = {} /\ pool \cap carried = {} /\ free \cap carried = {}
  /\ Pkts \subseteq queued \cup pool \cup free \cup carried

(* Where the packet structures are.                                        *)
PlaceInv ==
  /\ Inj(Queue) /\ Inj(st_fpp) /\ Distinct(mine)
  /\ Parts(Range(Queue), Range(st_fpp), cache, MineOf(mine))

(* The number of the last message of each sender that was accepted.        *)
Accept(s) == IF tpc[s] \in Offering THEN nxt[s] ELSE nxt[s] - 1
Offer     == [s \in Senders |-> Accept(s)]

(* The messages of the fragment list f and of the packets of q, described  *)
(* by st, are not posted yet, not ahead of their sender, and in order.     *)
Between(m, posted, offer) ==
  m \in Real /\ posted[m.src] < m.num /\ m.num <= offer[m.src]
Before(m, n) == m.src = n.src => m.num < n.num

Ordered(q, st, f, posted, offer) ==
  /\ f # NoMsg => Between(f, posted, offer)
  /\ \A i \in DOMAIN q : Between(st[q[i]].msg, posted, offer)
  /\ \A i \in DOMAIN q : f # NoMsg => Before(f, st[q[i]].msg)
  /\ \A i, j \in DOMAIN q : i < j => Before(st[q[i]].msg, st[q[j]].msg)
  /\ \A s \in Senders : posted[s] <= offer[s]

MineInv == \A s \in Senders : mine[s] # NoPkt =>
             stp[mine[s]].msg = [src |-> s, num |-> nxt[s]]

OrderInv == Ordered(Queue, stp, frag, sent, Offer)

(* Who was missed.                                                         *)
MissedType == missed \subseteq {"reader", "count"}

IInv == /\ Threads /\ Lists /\ Counts /\ MissedType
        /\ LockInv /\ ListInv /\ PlaceInv /\ MineInv /\ OrderInv

-----------------------------------------------------------------------------
(* Sequences without repetition, their ranges and their reverse.           *)
LEMMA ReverseType ==
  ASSUME NEW S, NEW s \in Seq(S)
  PROVE  /\ Reverse(s) \in Seq(S) /\ Len(Reverse(s)) = Len(s)
         /\ \A i \in 1..Len(s) : Reverse(s)[i] = s[Len(s) - i + 1]
<1>1. Len(s) \in Nat /\ \A i \in 1..Len(s) : s[i] \in S
  OBVIOUS
<1>2. \A i \in 1..Len(s) : Len(s) - i + 1 \in 1..Len(s)
  BY <1>1
<1>3. Reverse(s) = [i \in 1..Len(s) |-> s[Len(s) - i + 1]]
  BY DEF Reverse
<1> DEFINE n == Len(s)
           f == [i \in 1..n |-> s[n - i + 1]]
<1>4. f \in [1..n -> S]
  BY <1>1, <1>2
<1>5. f \in Seq(S) /\ Len(f) = n
  <2> HIDE DEF n, f
  <2>1. n \in Nat
    BY <1>1 DEF n
  <2> QED
    BY <2>1, <1>4, FunctionIsSeq
<1> QED
  BY <1>3, <1>5

(* The elements of a concatenation.                                        *)
LEMMA ConcatType ==
  ASSUME NEW S, NEW s \in Seq(S), NEW t \in Seq(S)
  PROVE  /\ s \o t \in Seq(S) /\ Len(s \o t) = Len(s) + Len(t)
         /\ \A i \in 1..(Len(s) + Len(t)) :
              (s \o t)[i] = IF i <= Len(s) THEN s[i] ELSE t[i - Len(s)]
BY ConcatProperties

(* Two sequences are equal when their elements are.                        *)
LEMMA SameSeq ==
  ASSUME NEW S, NEW s \in Seq(S), NEW t \in Seq(S), Len(s) = Len(t),
         \A i \in 1..Len(s) : s[i] = t[i]
  PROVE  s = t
BY SeqEqual

(* The members of a sequence.                                              *)
LEMMA RangeType ==
  ASSUME NEW S, NEW s \in Seq(S)
  PROVE  /\ Range(s) \subseteq S
         /\ \A x : x \in Range(s) <=> \E i \in 1..Len(s) : s[i] = x
<1>1. DOMAIN s = 1..Len(s) /\ \A i \in 1..Len(s) : s[i] \in S
  OBVIOUS
<1> QED
  BY <1>1 DEF Range

(* A new element at the end keeps a sequence without repetition.           *)
LEMMA AppendInj ==
  ASSUME NEW S, NEW s \in Seq(S), NEW x \in S, Inj(s), x \notin Range(s)
  PROVE  /\ Inj(Append(s, x)) /\ Range(Append(s, x)) = Range(s) \cup {x}
<1> DEFINE t == Append(s, x)
           n == Len(s)
<1>1. /\ n \in Nat /\ DOMAIN s = 1..n /\ DOMAIN t = 1..(n + 1)
      /\ \A i \in 1..n : t[i] = s[i] /\ t[n + 1] = x
  OBVIOUS
<1>2. t \in Seq(S) /\ Len(t) = n + 1 /\ t[n + 1] = x
  OBVIOUS
<1> HIDE DEF t, n
<1>3. \A y : y \in Range(s) <=> \E i \in 1..n : s[i] = y
  BY <1>1 DEF Range
<1>4. Inj(t)
  BY <1>1, <1>2, <1>3 DEF Inj
<1>5. Range(t) = Range(s) \cup {x}
  BY <1>1, <1>2, <1>3 DEF Range
<1> QED
  BY <1>4, <1>5 DEF t

(* The tail of a sequence without repetition lacks just its head.          *)
LEMMA TailInj ==
  ASSUME NEW S, NEW s \in Seq(S), s # << >>, Inj(s)
  PROVE  /\ Inj(Tail(s)) /\ Range(Tail(s)) = Range(s) \ {Head(s)}
         /\ Head(s) \in Range(s) /\ Head(s) \in S /\ Tail(s) \in Seq(S)
<1> DEFINE t == Tail(s)
           n == Len(s)
           h == Head(s)
<1>1. /\ n \in Nat \ {0} /\ DOMAIN s = 1..n /\ DOMAIN t = 1..(n - 1)
      /\ \A i \in 1..(n - 1) : t[i] = s[i + 1]
  OBVIOUS
<1>2. h = s[1] /\ h \in S /\ t \in Seq(S)
  OBVIOUS
<1> HIDE DEF t, n, h
<1>3. Inj(t)
  BY <1>1 DEF Inj
<1>4. h \in Range(s)
  BY <1>1, <1>2 DEF Range
<1>5. Range(t) = Range(s) \ {h}
  <2>1. ASSUME NEW y \in Range(t) PROVE y \in Range(s) \ {h}
    <3>1. PICK i \in 1..(n - 1) : y = s[i + 1]
      BY <1>1 DEF Range
    <3>2. i + 1 \in 1..n /\ i + 1 # 1 /\ 1 \in 1..n
      BY <1>1
    <3> QED
      BY <1>1, <1>2, <3>1, <3>2 DEF Range, Inj
  <2>2. ASSUME NEW y \in Range(s), y # h PROVE y \in Range(t)
    <3>1. PICK i \in 1..n : y = s[i]
      BY <1>1 DEF Range
    <3>2. i - 1 \in 1..(n - 1) /\ (i - 1) + 1 = i
      BY <1>1, <1>2, <2>2, <3>1
    <3> QED
      BY <1>1, <3>1, <3>2 DEF Range
  <2> QED
    BY <2>1, <2>2
<1> QED
  BY <1>2, <1>3, <1>4, <1>5 DEF t, h

-----------------------------------------------------------------------------
(* What the operations on the lists make of the queue.                     *)
LEMMA QueueType ==
  ASSUME NEW g \in Seq(Pkts), NEW u \in Seq(Pkts)
  PROVE  LET q == g \o Reverse(u)
         IN  /\ q \in Seq(Pkts) /\ Len(q) = Len(g) + Len(u)
             /\ Len(g) \in Nat /\ Len(u) \in Nat
             /\ \A i \in 1..(Len(g) + Len(u)) :
                  q[i] = IF i <= Len(g) THEN g[i]
                         ELSE u[Len(u) - (i - Len(g)) + 1]
<1> DEFINE r == Reverse(u)
           q == g \o r
<1>1. /\ r \in Seq(Pkts) /\ Len(r) = Len(u)
      /\ \A i \in 1..Len(u) : r[i] = u[Len(u) - i + 1]
  BY ReverseType
<1>2. Len(g) \in Nat /\ Len(u) \in Nat
  OBVIOUS
<1> HIDE DEF r
<1>3. /\ q \in Seq(Pkts) /\ Len(q) = Len(g) + Len(u)
      /\ \A i \in 1..(Len(g) + Len(u)) :
           q[i] = IF i <= Len(g) THEN g[i] ELSE r[i - Len(g)]
  <2>1. r \in Seq(Pkts) /\ Len(r) = Len(u)
    BY <1>1
  <2>2. /\ q \in Seq(Pkts) /\ Len(q) = Len(g) + Len(r)
        /\ \A i \in 1..(Len(g) + Len(r)) :
             q[i] = IF i <= Len(g) THEN g[i] ELSE r[i - Len(g)]
    BY ONLY <2>1, ConcatType, g \in Seq(Pkts)
  <2> QED
    BY <2>1, <2>2
<1> HIDE DEF q
<1>4. \A i \in 1..(Len(g) + Len(u)) : i <= Len(g) \/ i - Len(g) \in 1..Len(u)
  BY <1>2
<1> QED
  BY <1>1, <1>2, <1>3, <1>4 DEF q, r

(* The members of the queue are those of the get and of the put list.      *)
LEMMA QueueRange ==
  ASSUME NEW g \in Seq(Pkts), NEW u \in Seq(Pkts)
  PROVE  Range(g \o Reverse(u)) = Range(g) \cup Range(u)
<1> DEFINE q == g \o Reverse(u)
<1>1. /\ q \in Seq(Pkts) /\ Len(q) = Len(g) + Len(u)
      /\ Len(g) \in Nat /\ Len(u) \in Nat
      /\ \A i \in 1..(Len(g) + Len(u)) :
           q[i] = IF i <= Len(g) THEN g[i] ELSE u[Len(u) - (i - Len(g)) + 1]
  BY QueueType
<1> HIDE DEF q
<1>2. /\ \A x : x \in Range(q) <=> \E i \in 1..Len(q) : q[i] = x
      /\ \A x : x \in Range(g) <=> \E i \in 1..Len(g) : g[i] = x
      /\ \A x : x \in Range(u) <=> \E i \in 1..Len(u) : u[i] = x
  BY <1>1, RangeType
<1>3. ASSUME NEW x \in Range(q) PROVE x \in Range(g) \cup Range(u)
  <2>1. PICK i \in 1..Len(q) : q[i] = x
    BY <1>2
  <2>2. CASE i <= Len(g)
    BY <1>1, <1>2, <2>1, <2>2
  <2>3. CASE ~(i <= Len(g))
    <3>1. Len(u) - (i - Len(g)) + 1 \in 1..Len(u)
      BY <1>1, <2>1, <2>3
    <3> QED
      BY <1>1, <1>2, <2>1, <2>3, <3>1
  <2> QED
    BY <2>2, <2>3
<1>4. ASSUME NEW x \in Range(g) PROVE x \in Range(q)
  <2>1. PICK i \in 1..Len(g) : g[i] = x
    BY <1>2
  <2>2. i \in 1..Len(q) /\ q[i] = x
    BY <1>1, <2>1
  <2> QED
    BY <1>2, <2>2
<1>5. ASSUME NEW x \in Range(u) PROVE x \in Range(q)
  <2>1. PICK j \in 1..Len(u) : u[j] = x
    BY <1>2
  <2> DEFINE i == Len(g) + (Len(u) - j + 1)
  <2>2. /\ i \in 1..Len(q) /\ ~(i <= Len(g))
        /\ Len(u) - (i - Len(g)) + 1 = j
    BY <1>1, <2>1
  <2>3. q[i] = x
    BY <1>1, <2>1, <2>2
  <2> QED
    BY <1>2, <2>2, <2>3
<1> QED
  BY <1>3, <1>4, <1>5 DEF q

(* A packet added at the end: through the get list, or as the newest of    *)
(* the put list.                                                           *)
LEMMA ReverseNil == Reverse(<< >>) = << >>
BY DEF Reverse

(* Nothing appended.                                                       *)
LEMMA ConcatNil ==
  ASSUME NEW g \in Seq(Pkts)
  PROVE  g \o << >> = g
BY ConcatEmptySeq

(* A packet pushed on the put list is the youngest of the queue.           *)
LEMMA PutAppends ==
  ASSUME NEW g \in Seq(Pkts), NEW u \in Seq(Pkts), NEW p \in Pkts
  PROVE  g \o Reverse(<<p>> \o u) = Append(g \o Reverse(u), p)
<1> DEFINE v == <<p>> \o u
           s == g \o Reverse(v)
           q == g \o Reverse(u)
           t == Append(q, p)
<1>1. /\ v \in Seq(Pkts) /\ Len(v) = Len(u) + 1 /\ Len(u) \in Nat
      /\ v[1] = p /\ \A i \in 1..Len(u) : v[i + 1] = u[i]
  <2>1. <<p>> \in Seq(Pkts) /\ Len(<<p>>) = 1 /\ <<p>>[1] = p /\ Len(u) \in Nat
    OBVIOUS
  <2>2. /\ v \in Seq(Pkts) /\ Len(v) = 1 + Len(u)
        /\ \A i \in 1..(1 + Len(u)) :
             v[i] = IF i <= 1 THEN <<p>>[i] ELSE u[i - 1]
    BY <2>1, ConcatType
  <2> HIDE DEF v
  <2>3. v[1] = p
    BY <2>1, <2>2
  <2>4. ASSUME NEW i \in 1..Len(u) PROVE v[i + 1] = u[i]
    <3>1. i + 1 \in 1..(1 + Len(u)) /\ ~(i + 1 <= 1) /\ (i + 1) - 1 = i
      BY <2>1
    <3> QED
      BY <2>2, <3>1
  <2> QED
    BY <2>1, <2>2, <2>3, <2>4
<1> HIDE DEF v
<1>2. /\ s \in Seq(Pkts) /\ Len(s) = Len(g) + Len(v)
      /\ Len(g) \in Nat
      /\ \A i \in 1..(Len(g) + Len(v)) :
           s[i] = IF i <= Len(g) THEN g[i] ELSE v[Len(v) - (i - Len(g)) + 1]
  BY <1>1, QueueType
<1>3. /\ q \in Seq(Pkts) /\ Len(q) = Len(g) + Len(u)
      /\ \A i \in 1..(Len(g) + Len(u)) :
           q[i] = IF i <= Len(g) THEN g[i] ELSE u[Len(u) - (i - Len(g)) + 1]
  BY QueueType
<1> HIDE DEF s, q
<1>4. /\ t \in Seq(Pkts) /\ Len(t) = Len(q) + 1 /\ t[Len(q) + 1] = p
      /\ \A i \in 1..Len(q) : t[i] = q[i]
  BY <1>3
<1> HIDE DEF t
<1>5. ASSUME NEW i \in 1..Len(s) PROVE s[i] = t[i]
  <2>1. CASE i <= Len(g)
    <3>1. i \in 1..(Len(g) + Len(v)) /\ i \in 1..(Len(g) + Len(u))
      BY <1>1, <1>2, <2>1
    <3>2. s[i] = g[i] /\ q[i] = g[i]
      BY <1>2, <1>3, <2>1, <3>1
    <3>3. t[i] = q[i]
      BY <1>3, <1>4, <3>1
    <3> QED
      BY <3>2, <3>3
  <2>2. CASE i = Len(g) + Len(u) + 1
    <3>1. Len(v) - (i - Len(g)) + 1 = 1 /\ ~(i <= Len(g))
      BY <1>1, <1>2, <2>2
    <3> QED
      BY <1>1, <1>2, <1>3, <1>4, <2>2, <3>1
  <2>3. CASE i > Len(g) /\ i <= Len(g) + Len(u)
    <3> DEFINE j == Len(u) - (i - Len(g)) + 1
    <3>1. /\ ~(i <= Len(g)) /\ j \in 1..Len(u) /\ i \in 1..Len(q)
          /\ Len(v) - (i - Len(g)) + 1 = j + 1
      BY <1>1, <1>2, <1>3, <2>3
    <3>2. s[i] = v[j + 1] /\ t[i] = u[j]
      BY <1>2, <1>3, <1>4, <3>1
    <3> QED
      BY <1>1, <3>1, <3>2
  <2>4. i <= Len(g) \/ i = Len(g) + Len(u) + 1
          \/ (i > Len(g) /\ i <= Len(g) + Len(u))
    <3>1. /\ Len(g) \in Nat /\ Len(u) \in Nat
          /\ i \in 1..(Len(g) + (Len(u) + 1))
      BY <1>1, <1>2
    <3> QED
      BY ONLY <3>1
  <2> QED
    BY <2>1, <2>2, <2>3, <2>4
<1>6. Len(s) = Len(t)
  BY <1>1, <1>2, <1>3, <1>4
<1>7. s = t
  BY <1>2, <1>4, <1>5, <1>6, SameSeq
<1> QED
  BY <1>7 DEF s, t, q, v

(* The head of the get list is the head of the queue.                      *)
LEMMA HeadTail ==
  ASSUME NEW g \in Seq(Pkts), NEW u \in Seq(Pkts), g # << >>
  PROVE  LET q == g \o Reverse(u)
         IN  /\ q # << >> /\ Head(q) = Head(g)
             /\ Tail(g) \o Reverse(u) = Tail(q)
<1> DEFINE q == g \o Reverse(u)
           h == Tail(g)
           s == h \o Reverse(u)
           t == Tail(q)
<1>1. /\ h \in Seq(Pkts) /\ Len(h) = Len(g) - 1 /\ Len(g) \in Nat \ {0}
      /\ \A i \in 1..Len(h) : h[i] = g[i + 1]
      /\ Head(g) = g[1] /\ Len(u) \in Nat
  OBVIOUS
<1> HIDE DEF h
<1>2. /\ q \in Seq(Pkts) /\ Len(q) = Len(g) + Len(u)
      /\ \A i \in 1..(Len(g) + Len(u)) :
           q[i] = IF i <= Len(g) THEN g[i] ELSE u[Len(u) - (i - Len(g)) + 1]
  BY QueueType
<1>3. /\ s \in Seq(Pkts) /\ Len(s) = Len(h) + Len(u)
      /\ \A i \in 1..(Len(h) + Len(u)) :
           s[i] = IF i <= Len(h) THEN h[i] ELSE u[Len(u) - (i - Len(h)) + 1]
  BY <1>1, QueueType
<1> HIDE DEF q, s
<1>4. q # << >> /\ Head(q) = q[1] /\ q[1] = g[1]
  BY <1>1, <1>2
<1>5. /\ t \in Seq(Pkts) /\ Len(t) = Len(q) - 1
      /\ \A i \in 1..Len(t) : t[i] = q[i + 1]
  BY <1>1, <1>2, <1>4
<1> HIDE DEF t
<1>6. ASSUME NEW i \in 1..Len(s) PROVE s[i] = t[i]
  <2>1. i \in 1..Len(t) /\ i + 1 \in 1..(Len(g) + Len(u))
    BY <1>1, <1>2, <1>3, <1>5
  <2>2. CASE i <= Len(h)
    BY <1>1, <1>2, <1>3, <1>5, <2>1, <2>2
  <2>3. CASE ~(i <= Len(h))
    <3>1. /\ ~(i + 1 <= Len(g))
          /\ Len(u) - (i - Len(h)) + 1 = Len(u) - ((i + 1) - Len(g)) + 1
      BY <1>1, <2>1, <2>3
    <3> QED
      BY <1>2, <1>3, <1>5, <2>1, <2>3, <3>1
  <2> QED
    BY <2>2, <2>3
<1>7. s = t
  <2>1. Len(s) = Len(t)
    BY <1>1, <1>2, <1>3, <1>5
  <2> QED
    BY <1>3, <1>5, <1>6, <2>1, SameSeq
<1> QED
  BY <1>1, <1>4, <1>7 DEF q, s, t, h

-----------------------------------------------------------------------------
(* The packets of the two lists, before and after a swizzle.               *)
LEMMA SwizzleQueue ==
  ASSUME Lists
  PROVE  /\ Queue \in Seq(Pkts)
         /\ Range(Queue) = Range(std_get) \cup Range(std_put)
         /\ Swizzled \in Seq(Pkts) /\ PutAfter \in Seq(Pkts)
         /\ Swizzled \o Reverse(PutAfter) = Queue
         /\ Len(Swizzled) \in Nat
         /\ std_count < GetLimit => PutAfter = << >> /\ Swizzled = Queue
         /\ std_count >= GetLimit => PutAfter = std_put /\ Swizzled = std_get
<1>1. /\ std_put \in Seq(Pkts) /\ std_get \in Seq(Pkts) /\ std_count \in Nat
      /\ GetLimit \in Nat
  BY TxDplAssumption DEF Lists
<1>2. Queue \in Seq(Pkts) /\ Range(Queue) = Range(std_get) \cup Range(std_put)
  BY <1>1, QueueType, QueueRange DEF Queue
<1>3. << >> \in Seq(Pkts)
  OBVIOUS
<1>4. CASE std_count >= GetLimit
  <2>1. PutAfter = std_put /\ Swizzled = std_get
    BY <1>4 DEF PutAfter, Swizzled
  <2>2. Len(std_get) \in Nat
    BY <1>1
  <2> QED
    BY <1>1, <1>2, <1>4, <2>1, <2>2 DEF Queue
<1>5. CASE ~(std_count >= GetLimit)
  <2>1. PutAfter = << >> /\ Swizzled = Queue
    BY <1>5 DEF PutAfter, Swizzled, Queue
  <2>2. Queue \o Reverse(<< >>) = Queue
    BY <1>2, ReverseNil, ConcatNil
  <2>3. Len(Queue) \in Nat
    BY <1>2
  <2> QED
    BY <1>1, <1>2, <1>3, <1>5, <2>1, <2>2, <2>3
<1> QED
  BY <1>4, <1>5

(* The head of the get list is the oldest of the queue.                    *)
LEMMA QueueHead ==
  ASSUME Lists, std_get # << >>
  PROVE  /\ Queue \in Seq(Pkts) /\ Queue # << >> /\ Head(Queue) = Head(std_get)
         /\ Tail(std_get) \o Reverse(std_put) = Tail(Queue)
         /\ Head(std_get) \in Pkts /\ Tail(std_get) \in Seq(Pkts)
         /\ Len(Queue) \in Nat \ {0} /\ Queue[1] = Head(std_get)
         /\ 1 \in DOMAIN Queue
<1>1. std_put \in Seq(Pkts) /\ std_get \in Seq(Pkts)
  BY DEF Lists
<1>2. /\ Queue # << >> /\ Head(Queue) = Head(std_get)
      /\ Tail(std_get) \o Reverse(std_put) = Tail(Queue)
      /\ Queue \in Seq(Pkts)
  BY <1>1, HeadTail, QueueType DEF Queue
<1>3. Head(std_get) \in Pkts /\ Tail(std_get) \in Seq(Pkts)
  BY <1>1
<1> HIDE DEF Queue
<1>4. Len(Queue) \in Nat \ {0} /\ Queue[1] = Head(Queue) /\ 1 \in DOMAIN Queue
  BY <1>2
<1> QED
  BY <1>2, <1>3, <1>4

(* A new packet structure comes from the cache.                            *)
LEMMA AllocFromCache == Allocatable \subseteq cache
<1> DEFINE stale == cache \cap Range(old)
<1>1. CASE cache = stale
  BY <1>1 DEF Allocatable
<1>2. CASE cache # stale
  <2>1. \E p \in cache \ stale : TRUE
    BY <1>2
  <2>2. (CHOOSE p \in cache \ stale : TRUE) \in cache \ stale
    BY <2>1
  <2> QED
    BY <2>2 DEF Allocatable
<1> QED
  BY <1>1, <1>2

(* The message at the head of the queue, and the fragment list, are        *)
(* messages that were sent.                                                *)
LEMMA RealMessages ==
  ASSUME Lists, OrderInv
  PROVE  /\ frag # NoMsg => frag \in Real
         /\ std_get # << >> => stp[Head(std_get)].msg \in Real
<1>1. frag # NoMsg => frag \in Real
  BY DEF OrderInv, Ordered, Between
<1>2. ASSUME std_get # << >> PROVE stp[Head(std_get)].msg \in Real
  <2>1. Queue[1] = Head(std_get) /\ 1 \in DOMAIN Queue
    BY <1>2, QueueHead
  <2> QED
    BY <2>1 DEF OrderInv, Ordered, Between
<1> QED
  BY <1>1, <1>2

(* A message of a sender is not the absent one.                            *)
LEMMA RealIsMsg ==
  /\ \A m \in Real : m \in Msgs /\ m # NoMsg /\ m.src \in Senders
                     /\ m.num \in 1..MaxSend
  /\ NoMsg \in Msgs /\ MaxSend \in Nat
BY TxDplAssumption DEF Real, Msgs, NoMsg, NoThread

(* The event thread is none of the senders.                                *)
LEMMA EvqIsNoSender == Evq \notin Senders /\ NoThread \notin Senders
                       /\ Evq # NoThread /\ NoPkt \notin Pkts
                       /\ Evq \in Agents /\ \A s \in Senders : s \in Agents
BY TxDplAssumption DEF Agents, Evq, NoThread

(* A free lock is held by no sender and no poll, nor is that of a reader.  *)
LEMMA NoThreadIsNoAgent == NoThread \notin Agents /\ Kstat \notin Agents
BY TxDplAssumption DEF Agents, Evq, NoThread, Kstat

(* Every step keeps the shape of the threads' part of the state.           *)
LEMMA ThreadsNext == IInv /\ [Next]_vars => Threads'
<1> SUFFICES ASSUME IInv, [Next]_vars PROVE Threads'
  OBVIOUS
<1> USE RealMessages, RealIsMsg, EvqIsNoSender DEF IInv, Threads, LockInv,
      Steps
<1>1. ASSUME NEW s \in Senders, PacketAdd(s) PROVE Threads'
  <2>1. nxt' = nxt \/ (s \in Senders /\ nxt' = [nxt EXCEPT ![s] = nxt[s] + 1]
                     /\ nxt[s] <= MaxSend)
    BY <1>1 DEF PacketAdd, Goto, listvars, ringvars, sendvars, lifevars
  <2>2. nxt' \in [Senders -> 1..(MaxSend + 1)]
    <3>1. CASE nxt' = nxt
      BY <3>1
    <3>2. CASE nxt' # nxt
      <4>1. /\ s \in Senders /\ nxt[s] + 1 \in 1..(MaxSend + 1)
            /\ nxt' = [nxt EXCEPT ![s] = nxt[s] + 1]
            /\ nxt \in [Senders -> 1..(MaxSend + 1)]
        BY <2>1, <3>2
      <4> QED
        BY ONLY <4>1
    <3> QED
      BY <3>1, <3>2
  <2>3. tpc' \in [Agents -> Steps]
    <3>1. \E b \in Agents, x \in Steps : tpc' = [tpc EXCEPT ![b] = x]
      BY <1>1 DEF PacketAdd, Goto, listvars, ringvars, sendvars, lifevars
    <3> HIDE DEF Steps
    <3> QED
      BY <3>1
  <2> QED
    BY <1>1, <2>2, <2>3
       DEF PacketAdd, Goto, listvars, ringvars, sendvars, lifevars
<1>2. ASSUME NEW s \in Senders, TryEnter(s) PROVE Threads'
  BY <1>2 DEF TryEnter, Goto, listvars, ringvars, sendvars, lifevars
<1>3. ASSUME NEW s \in Senders, PacketCreate(s) PROVE Threads'
  <2>1. mine'[s] \in Pkts /\ mine' = [mine EXCEPT ![s] = mine'[s]]
    <3>1. CASE FromPool(s)
      <4>1. Head(st_fpp) \in Pkts
        BY <3>1 DEF FromPool, Lists
      <4> QED
        BY <1>3, <3>1, <4>1 DEF PacketCreate, Fill
    <3>2. CASE ~FromPool(s)
      BY <1>3, <3>2, AllocFromCache DEF PacketCreate, Fill, Lists
    <3> QED
      BY <3>1, <3>2
  <2> QED
    BY <1>3, <2>1 DEF PacketCreate, Goto, lifevars, ringvars
<1>4. ASSUME NEW s \in Senders, CreateFail(s) PROVE Threads'
  BY <1>4
     DEF CreateFail, Goto, listvars, ringvars, sendvars, lifevars, FromPool
<1>5. ASSUME NEW s \in Senders, AddLocked(s) PROVE Threads'
  <2>1. tpc' \in [Agents -> Steps]
    <3>1. \E x \in Steps : tpc' = [tpc EXCEPT ![s] = x]
      BY <1>5 DEF AddLocked, Goto
    <3> HIDE DEF Steps
    <3> QED
      BY <3>1
  <2>2. mine' \in [Senders -> Pkts \cup {NoPkt}]
    BY <1>5 DEF AddLocked
  <2>3. st_lock' \in Agents \cup {NoThread, Kstat}
    BY <1>5 DEF AddLocked
  <2> QED
    BY <1>5, <2>1, <2>2, <2>3 DEF AddLocked, ringvars, lifevars
<1>6. ASSUME NEW s \in Senders, ReadPut(s) PROVE Threads'
  <2>1. std_put # << >> => Head(std_put) \in Pkts
    BY DEF Lists
  <2>2. old' \in [Senders -> Pkts \cup {NoPkt}]
    BY <1>6, <2>1 DEF ReadPut
  <2>3. tpc' \in [Agents -> Steps]
    BY <1>6 DEF ReadPut, Goto
  <2> QED
    BY <1>6, <2>2, <2>3 DEF ReadPut, listvars, ringvars, lifevars
<1>7. ASSUME NEW s \in Senders, ReadLen(s) PROVE Threads'
  <2>1. tpc' \in [Agents -> Steps]
    <3>1. \E x \in Steps : tpc' = [tpc EXCEPT ![s] = x]
      BY <1>7 DEF ReadLen, Goto
    <3> HIDE DEF Steps
    <3> QED
      BY <3>1
  <2>2. mine' \in [Senders -> Pkts \cup {NoPkt}]
    <3>1. mine' = mine \/ mine' = [mine EXCEPT ![s] = NoPkt]
      BY <1>7 DEF ReadLen
    <3> QED
      BY <3>1
  <2>3. old' \in [Senders -> Pkts \cup {NoPkt}]
    BY <1>7 DEF ReadLen
  <2> QED
    BY <1>7, <2>1, <2>2, <2>3 DEF ReadLen, ringvars, lifevars
<1>8. ASSUME NEW s \in Senders, Cas(s) PROVE Threads'
  <2>1. /\ old' \in [Senders -> Pkts \cup {NoPkt}]
        /\ mine' \in [Senders -> Pkts \cup {NoPkt}]
    <3>1. /\ mine' = mine \/ mine' = [mine EXCEPT ![s] = NoPkt]
          /\ old' = [old EXCEPT ![s] = NoPkt]
      BY <1>8 DEF Cas
    <3> QED
      BY <3>1
  <2>2. tpc' \in [Agents -> Steps]
    <3>1. \E x \in Steps : tpc' = [tpc EXCEPT ![s] = x]
      BY <1>8 DEF Cas, Goto
    <3> HIDE DEF Steps
    <3> QED
      BY <3>1
  <2> QED
    BY <1>8, <2>1, <2>2 DEF Cas, ringvars, lifevars
<1>9. ASSUME NEW s \in Senders, Retry(s) PROVE Threads'
  <2>1. nxt' = nxt \/ (s \in Senders /\ nxt' = [nxt EXCEPT ![s] = nxt[s] + 1]
                     /\ nxt[s] <= MaxSend)
    BY <1>9 DEF Retry, Goto, listvars, ringvars, sendvars, lifevars, Accepted
  <2>2. nxt' \in [Senders -> 1..(MaxSend + 1)]
    <3>1. CASE nxt' = nxt
      BY <3>1
    <3>2. CASE nxt' # nxt
      <4>1. /\ s \in Senders /\ nxt[s] + 1 \in 1..(MaxSend + 1)
            /\ nxt' = [nxt EXCEPT ![s] = nxt[s] + 1]
            /\ nxt \in [Senders -> 1..(MaxSend + 1)]
        BY <2>1, <3>2
      <4> QED
        BY ONLY <4>1
    <3> QED
      BY <3>1, <3>2
  <2>3. tpc' \in [Agents -> Steps]
    <3>1. \E b \in Agents, x \in Steps : tpc' = [tpc EXCEPT ![b] = x]
      BY <1>9 DEF Retry, Goto, listvars, ringvars, sendvars, lifevars, Accepted
    <3> HIDE DEF Steps
    <3> QED
      BY <3>1
  <2> QED
    BY <1>9, <2>2, <2>3
       DEF Retry, Goto, listvars, ringvars, sendvars, lifevars, Accepted
<1>10. ASSUME NEW s \in Senders, Enospc(s) PROVE Threads'
  BY <1>10 DEF Enospc, Goto, listvars, ringvars, sendvars, lifevars
<1>11. ASSUME NEW a \in Agents, Service(a) PROVE Threads'
  BY <1>11 DEF Service, Goto, listvars, ringvars, sendvars, lifevars
<1>12. ASSUME NEW a \in Agents, DrainPost(a) PROVE Threads'
  <2>1. sent' = sent \/ \E m \in Real : sent' = [sent EXCEPT ![m.src] = m.num]
    BY <1>12 DEF DrainPost, PostOk, PostBlocks
  <2>2. sent' \in [Senders -> 0..MaxSend]
    <3>1. CASE sent' = sent
      BY <3>1
    <3>2. CASE sent' # sent
      <4>1. PICK m \in Real : sent' = [sent EXCEPT ![m.src] = m.num]
        BY <2>1, <3>2
      <4>2. m.num \in 0..MaxSend /\ sent \in [Senders -> 0..MaxSend]
        BY RealIsMsg
      <4> QED
        BY ONLY <4>1, <4>2
    <3> QED
      BY <3>1, <3>2
  <2>3. tpc' \in [Agents -> Steps]
    BY <1>12 DEF DrainPost, Goto
  <2> QED
    BY <1>12, <2>2, <2>3 DEF DrainPost, lifevars, sendvars
<1>13. ASSUME NEW a \in Agents, DrainReject(a) PROVE Threads'
  BY <1>13
     DEF DrainReject, Goto, listvars, ringvars, sendvars, lifevars, FreeHead
<1>14. ASSUME NEW a \in Agents, DrainEnd(a) PROVE Threads'
  BY <1>14
     DEF DrainEnd, Goto, listvars, ringvars, sendvars, lifevars, Push, Hold
<1>15. ASSUME NEW a \in Agents, ServiceUnlock(a) PROVE Threads'
  BY <1>15 DEF ServiceUnlock, Goto, listvars, ringvars, sendvars, lifevars
<1>16. ASSUME NEW a \in Agents, ServiceCheck(a) PROVE Threads'
  <2>1. nxt' = nxt \/ (a \in Senders /\ nxt' = [nxt EXCEPT ![a] = nxt[a] + 1]
                     /\ nxt[a] <= MaxSend)
    BY <1>16
       DEF ServiceCheck, Goto, listvars, ringvars, sendvars, lifevars,
           PutPending, ServiceDone, Accepted, Agents
  <2>2. nxt' \in [Senders -> 1..(MaxSend + 1)]
    <3>1. CASE nxt' = nxt
      BY <3>1
    <3>2. CASE nxt' # nxt
      <4>1. /\ a \in Senders /\ nxt[a] + 1 \in 1..(MaxSend + 1)
            /\ nxt' = [nxt EXCEPT ![a] = nxt[a] + 1]
            /\ nxt \in [Senders -> 1..(MaxSend + 1)]
        BY <2>1, <3>2
      <4> QED
        BY ONLY <4>1
    <3> QED
      BY <3>1, <3>2
  <2>3. tpc' \in [Agents -> Steps]
    <3>1. \E b \in Agents, x \in Steps : tpc' = [tpc EXCEPT ![b] = x]
      BY <1>16
         DEF ServiceCheck, Goto, listvars, ringvars, sendvars, lifevars,
             PutPending, ServiceDone, Accepted, Agents
    <3> HIDE DEF Steps
    <3> QED
      BY <3>1
  <2> QED
    BY <1>16, <2>2, <2>3
       DEF ServiceCheck, Goto, listvars, ringvars, sendvars, lifevars,
           PutPending, ServiceDone, Accepted, Agents
<1>17. ASSUME NEW a \in Agents, ServiceAgain(a) PROVE Threads'
  <2>1. nxt' = nxt \/ (a \in Senders /\ nxt' = [nxt EXCEPT ![a] = nxt[a] + 1]
                     /\ nxt[a] <= MaxSend)
    BY <1>17
       DEF ServiceAgain, Goto, listvars, ringvars, sendvars, lifevars,
           ServiceDone, Accepted, Agents
  <2>2. nxt' \in [Senders -> 1..(MaxSend + 1)]
    <3>1. CASE nxt' = nxt
      BY <3>1
    <3>2. CASE nxt' # nxt
      <4>1. /\ a \in Senders /\ nxt[a] + 1 \in 1..(MaxSend + 1)
            /\ nxt' = [nxt EXCEPT ![a] = nxt[a] + 1]
            /\ nxt \in [Senders -> 1..(MaxSend + 1)]
        BY <2>1, <3>2
      <4> QED
        BY ONLY <4>1
    <3> QED
      BY <3>1, <3>2
  <2>3. tpc' \in [Agents -> Steps]
    <3>1. \E b \in Agents, x \in Steps : tpc' = [tpc EXCEPT ![b] = x]
      BY <1>17
         DEF ServiceAgain, Goto, listvars, ringvars, sendvars, lifevars,
             ServiceDone, Accepted, Agents
    <3> HIDE DEF Steps
    <3> QED
      BY <3>1
  <2> QED
    BY <1>17, <2>2, <2>3
       DEF ServiceAgain, Goto, listvars, ringvars, sendvars, lifevars,
           ServiceDone, Accepted, Agents
<1>18. CASE HwComplete
  BY <1>18 DEF HwComplete, Goto, listvars, ringvars, sendvars, lifevars
<1>19. CASE EvTx
  BY <1>19 DEF EvTx, Goto, listvars, ringvars, sendvars, lifevars
<1>20. CASE QComplete
  BY <1>20 DEF QComplete, Goto, listvars, ringvars, sendvars, lifevars
<1>21. CASE Update
  <2>1. CASE MacTxUpdate
    <3>1. woken' \in [Senders -> BOOLEAN]
      BY <2>1 DEF MacTxUpdate
    <3>2. \A a \in Agents : tpc[a] \in Steps /\ "idle" \in Steps
      OBVIOUS
    <3> HIDE DEF Steps
    <3>3. tpc' \in [Agents -> Steps]
      BY <2>1, <3>2 DEF MacTxUpdate
    <3> QED
      BY <1>21, <3>1, <3>3 DEF Update, lifevars, ringvars
  <2>2. CASE ~MacTxUpdate
    BY <1>21, <2>2 DEF Update, Goto, lifevars, ringvars
  <2> QED
    BY <2>1, <2>2
<1>22. CASE QUnblock
  <2>1. sent' = sent \/ \E m \in Real : sent' = [sent EXCEPT ![m.src] = m.num]
    BY <1>22 DEF QUnblock, PostOk, PostBlocks, ListInv
  <2>2. sent' \in [Senders -> 0..MaxSend]
    <3>1. CASE sent' = sent
      BY <3>1
    <3>2. CASE sent' # sent
      <4>1. PICK m \in Real : sent' = [sent EXCEPT ![m.src] = m.num]
        BY <2>1, <3>2
      <4>2. m.num \in 0..MaxSend /\ sent \in [Senders -> 0..MaxSend]
        BY RealIsMsg
      <4> QED
        BY ONLY <4>1, <4>2
    <3> QED
      BY <3>1, <3>2
  <2>3. tpc' \in [Agents -> Steps] /\ st_lock' \in Agents \cup {NoThread, Kstat}
    BY <1>22 DEF QUnblock, Goto
  <2> QED
    BY <1>22, <2>2, <2>3 DEF QUnblock, lifevars, sendvars
<1>23. CASE Stopping
  <2>1. stops' \in 0..MaxStops
    BY <1>23, TxDplAssumption DEF Stopping
  <2> QED
    BY <1>23, <2>1 DEF Stopping, ringvars, sendvars
<1>24. CASE QFlush
  BY <1>24 DEF QFlush, Goto, listvars, ringvars, sendvars, lifevars
<1>25. CASE QStop
  <2>1. CASE MacTxUpdate
    <3>1. woken' \in [Senders -> BOOLEAN]
      BY <2>1 DEF MacTxUpdate
    <3>2. \A a \in Agents : tpc[a] \in Steps /\ "idle" \in Steps
      OBVIOUS
    <3> HIDE DEF Steps
    <3>3. tpc' \in [Agents -> Steps]
      BY <2>1, <3>2 DEF MacTxUpdate
    <3> QED
      BY <1>25, <3>1, <3>3 DEF QStop
  <2>2. CASE ~MacTxUpdate
    BY <1>25, <2>2 DEF QStop
  <2> QED
    BY <2>1, <2>2
<1>26. CASE QStart
  BY <1>26 DEF QStart, Goto, listvars, ringvars, sendvars, lifevars
<1>27. CASE Started
  BY <1>27 DEF Started, Goto, listvars, ringvars, sendvars, lifevars
<1>28. CASE QFini
  BY <1>28 DEF QFini, Goto, listvars, ringvars, sendvars, lifevars, Destroy
<1>29. CASE QInit
  BY <1>29 DEF QInit, Goto, listvars, ringvars, sendvars, lifevars
<1>30. CASE UNCHANGED vars
  BY <1>30 DEF vars, listvars, ringvars, sendvars, lifevars
<1>31. CASE KstatEnter
  BY <1>31 DEF KstatEnter, listvars, ringvars, sendvars, lifevars
<1>32. CASE KstatExit
  BY <1>32 DEF KstatExit, listvars, ringvars, sendvars, lifevars
<1> HIDE DEF IInv, Threads, LockInv, Steps
<1> QED
  BY <1>1, <1>2, <1>3, <1>4, <1>5, <1>6, <1>7, <1>8, <1>9, <1>10, <1>11,
     <1>12, <1>13, <1>14, <1>15, <1>16, <1>17, <1>18, <1>19, <1>20, <1>21,
     <1>22, <1>23, <1>24, <1>25, <1>26, <1>27, <1>28, <1>29, <1>30, <1>31,
     <1>32 DEF Next,
     Send, ServiceStep, Event, Life

-----------------------------------------------------------------------------
(* Changes to the packet structures.                                       *)
Structs == [Pkts -> [msg : Msgs, put_len : Nat]]

(* Storing a length in a structure leaves its message.                     *)
LEMMA PutLenKeeps ==
  ASSUME NEW t \in Structs, NEW p \in Pkts, NEW n \in Nat
  PROVE  LET u == [t EXCEPT ![p].put_len = n]
         IN  u \in Structs /\ \A q \in Pkts : u[q].msg = t[q].msg
<1>1. t \in [Pkts -> [msg : Msgs, put_len : Nat]]
  BY DEF Structs
<1>2. [t[p] EXCEPT !.put_len = n] \in [msg : Msgs, put_len : Nat]
  BY <1>1
<1>3. [t[p] EXCEPT !.put_len = n].msg = t[p].msg
  BY <1>1
<1> QED
  BY <1>1, <1>2, <1>3 DEF Structs

(* A structure without a message is a structure.                           *)
LEMMA EmptyStruct == Empty \in [msg : Msgs, put_len : Nat]
BY DEF Empty, Msgs

(* Destroying structures leaves the others alone.                          *)
LEMMA DestroyKeeps ==
  ASSUME Lists, NEW ps \in SUBSET Pkts, Destroy(ps)
  PROVE  /\ stp' \in Structs /\ cache' \subseteq Pkts
         /\ cache' = cache \cup ps
         /\ \A p \in Pkts \ ps : stp'[p] = stp[p]
BY EmptyStruct DEF Destroy, Lists, Structs

(* Filling a structure leaves the others alone.                            *)
LEMMA FillType ==
  ASSUME Threads, Lists, NEW s \in Senders, NEW p \in Pkts, nxt[s] <= MaxSend,
         Fill(s, p)
  PROVE  /\ stp' \in Structs
         /\ stp'[p].msg = [src |-> s, num |-> nxt[s]]
         /\ \A q \in Pkts \ {p} : stp'[q] = stp[q]
         /\ mine' = [mine EXCEPT ![s] = p]
<1> DEFINE m == [src |-> s, num |-> nxt[s]]
           e == [msg |-> m, put_len |-> 0]
<1>1. nxt[s] \in 1..MaxSend
  <2>1. nxt[s] \in 1..(MaxSend + 1) /\ MaxSend \in Nat
    BY RealIsMsg DEF Threads
  <2> QED
    BY <2>1
<1>2. m \in Msgs
  BY <1>1 DEF Msgs
<1>3. e \in [msg : Msgs, put_len : Nat] /\ e.msg = m
  BY <1>2
<1>4. stp' = [stp EXCEPT ![p] = e] /\ mine' = [mine EXCEPT ![s] = p]
  BY DEF Fill
<1> HIDE DEF e
<1> QED
  BY <1>3, <1>4 DEF Lists, Structs

(* Freeing the oldest packet leaves the others alone.                      *)
LEMMA FreeHeadKeeps ==
  ASSUME Lists, std_get # << >>, FreeHead
  PROVE  LET h == Head(std_get)
         IN  /\ h \in Pkts /\ std_get' = Tail(std_get)
             /\ std_get' \in Seq(Pkts)
             /\ stp' \in Structs /\ \A p \in Pkts \ {h} : stp'[p] = stp[p]
             /\ st_fpp' \in Seq(Pkts) /\ Len(st_fpp') <= PoolMax
             /\ cache' \subseteq Pkts
             /\ \/ st_fpp' = <<h>> \o st_fpp /\ cache' = cache
                \/ st_fpp' = st_fpp /\ cache' = cache \cup {h}
<1> DEFINE h == Head(std_get)
<1>1. h \in Pkts /\ Tail(std_get) \in Seq(Pkts)
  BY QueueHead
<1> HIDE DEF h
<1>2. std_get' = Tail(std_get) /\ stp' = [stp EXCEPT ![h] = Empty]
  BY DEF FreeHead, h
<1>3. stp' \in Structs /\ \A p \in Pkts \ {h} : stp'[p] = stp[p]
  BY <1>1, <1>2, EmptyStruct DEF Lists, Structs
<1>4. CASE Len(st_fpp) < PoolMax
  <2>1. st_fpp' = <<h>> \o st_fpp /\ cache' = cache
    BY <1>4 DEF FreeHead, h
  <2>2. /\ st_fpp \in Seq(Pkts) /\ Len(st_fpp) \in Nat /\ <<h>> \in Seq(Pkts)
        /\ Len(<<h>>) = 1 /\ PoolMax \in Nat
    BY <1>1, TxDplAssumption DEF Lists
  <2>3. st_fpp' \in Seq(Pkts) /\ Len(st_fpp') = 1 + Len(st_fpp)
    BY <2>1, <2>2, ConcatType
  <2> QED
    BY <1>1, <1>2, <1>3, <1>4, <2>1, <2>2, <2>3 DEF Lists, h
<1>5. CASE ~(Len(st_fpp) < PoolMax)
  <2>1. st_fpp' = st_fpp /\ cache' = cache \cup {h}
    BY <1>5 DEF FreeHead, h
  <2> QED
    BY <1>1, <1>2, <1>3, <2>1 DEF Lists, h
<1> QED
  BY <1>4, <1>5

(* Every step keeps the shape of the lists.                                *)
LEMMA ListsNext == IInv /\ [Next]_vars => Lists'
<1> SUFFICES ASSUME IInv, [Next]_vars PROVE Lists'
  OBVIOUS
<1>1. Threads /\ Lists /\ LockInv
  BY DEF IInv
<1>2. \A s \in Senders : /\ tpc[s] # "idle" => nxt[s] <= MaxSend
                         /\ tpc[s] \in Carrying => mine[s] \in Pkts
  BY <1>1 DEF Threads, LockInv
<1>3. ASSUME NEW s \in Senders, PacketAdd(s) PROVE Lists'
  BY <1>3, <1>1 DEF PacketAdd, listvars, Lists
<1>4. ASSUME NEW s \in Senders, TryEnter(s) PROVE Lists'
  BY <1>4, <1>1 DEF TryEnter, listvars, Lists
<1>5. ASSUME NEW s \in Senders, PacketCreate(s) PROVE Lists'
  <2>1. nxt[s] <= MaxSend
    BY <1>5, <1>2 DEF PacketCreate
  <2>2. CASE FromPool(s)
    <3>1. st_fpp # << >> /\ st_fpp \in Seq(Pkts)
      BY <2>2, <1>1 DEF FromPool, Lists
    <3>2. /\ Head(st_fpp) \in Pkts /\ Tail(st_fpp) \in Seq(Pkts)
          /\ Len(Tail(st_fpp)) = Len(st_fpp) - 1 /\ Len(st_fpp) \in Nat
      BY <3>1
    <3>3. Fill(s, Head(st_fpp)) /\ st_fpp' = Tail(st_fpp) /\ cache' = cache
      BY <1>5, <2>2 DEF PacketCreate
    <3>4. stp' \in Structs
      BY <1>1, <2>1, <3>2, <3>3, FillType
    <3>5. Len(st_fpp') <= PoolMax
      <4>1. Len(st_fpp) <= PoolMax /\ PoolMax \in Nat
        BY <1>1, TxDplAssumption DEF Lists
      <4> QED
        BY <3>2, <3>3, <4>1
    <3> QED
      BY <1>5, <1>1, <3>2, <3>3, <3>4, <3>5 DEF PacketCreate, Lists, Structs
  <2>3. CASE ~FromPool(s)
    <3>1. PICK p \in Allocatable : Fill(s, p) /\ cache' = cache \ {p}
      BY <1>5, <2>3 DEF PacketCreate
    <3>2. p \in Pkts /\ st_fpp' = st_fpp
      BY <1>1, <1>5, <2>3, AllocFromCache DEF PacketCreate, Lists
    <3>3. stp' \in Structs
      BY <1>1, <2>1, <3>1, <3>2, FillType
    <3> QED
      BY <1>5, <3>1, <3>2, <3>3, <1>1 DEF PacketCreate, Lists, Structs
  <2> QED
    BY <2>2, <2>3
<1>6. ASSUME NEW s \in Senders, CreateFail(s) PROVE Lists'
  BY <1>6, <1>1 DEF CreateFail, listvars, Lists
<1>7. ASSUME NEW s \in Senders, AddLocked(s) PROVE Lists'
  <2>1. mine[s] \in Pkts
    BY <1>7, <1>2 DEF AddLocked, Carrying
  <2>2. CASE std_count >= GetLimit
    <3>1. Destroy({mine[s]}) /\ std_put' = std_put /\ std_get' = std_get
          /\ std_count' = std_count /\ st_fpp' = st_fpp
      BY <1>7, <2>2 DEF AddLocked
    <3>2. stp' \in Structs /\ cache' \subseteq Pkts
      BY <1>1, <2>1, <3>1, DestroyKeeps
    <3> QED
      BY <3>1, <3>2, <1>1 DEF Lists, Structs
  <2>3. CASE ~(std_count >= GetLimit)
    <3>1. /\ std_get' = Append(Swizzled, mine[s]) /\ std_count' = Len(std_get')
          /\ std_put' = PutAfter /\ stp' = stp /\ cache' = cache
          /\ st_fpp' = st_fpp
      BY <1>7, <2>3 DEF AddLocked, WithMine
    <3>2. std_get' \in Seq(Pkts) /\ Len(std_get') \in Nat
      BY <1>1, <2>1, <3>1, SwizzleQueue
    <3> QED
      BY <1>1, <3>1, <3>2, SwizzleQueue DEF Lists
  <2> QED
    BY <2>2, <2>3
<1>8. ASSUME NEW s \in Senders, ReadPut(s) PROVE Lists'
  BY <1>8, <1>1 DEF ReadPut, listvars, Lists
<1>9. ASSUME NEW s \in Senders, ReadLen(s) PROVE Lists'
  <2>1. mine[s] \in Pkts
    BY <1>9, <1>2 DEF ReadLen, Carrying
  <2> DEFINE len == IF old[s] = NoPkt THEN 1 ELSE stp[old[s]].put_len + 1
  <2>2. len \in Nat
    <3>1. old[s] \in Pkts \cup {NoPkt}
      BY <1>1 DEF Threads
    <3>2. old[s] # NoPkt => stp[old[s]] \in [msg : Msgs, put_len : Nat]
      BY <1>1, <3>1 DEF Lists
    <3>3. old[s] # NoPkt => stp[old[s]].put_len \in Nat
      BY <3>2
    <3> QED
      BY <3>3
  <2>3. std_put' = std_put /\ std_get' = std_get /\ std_count' = std_count
        /\ st_fpp' = st_fpp
    BY <1>9 DEF ReadLen
  <2>4. Destroy({mine[s]})
        \/ (stp' = [stp EXCEPT ![mine[s]].put_len = len] /\ cache' = cache)
    BY <1>9 DEF ReadLen
  <2> HIDE DEF len
  <2>5. stp' \in Structs /\ cache' \subseteq Pkts
    <3>1. CASE Destroy({mine[s]})
      BY <1>1, <2>1, <3>1, DestroyKeeps
    <3>2. CASE ~Destroy({mine[s]})
      <4>1. stp \in Structs /\ cache \subseteq Pkts
        BY <1>1 DEF Lists, Structs
      <4> QED
        BY <2>1, <2>2, <2>4, <3>2, <4>1, PutLenKeeps
    <3> QED
      BY <3>1, <3>2
  <2> QED
    BY <2>3, <2>5, <1>1 DEF Lists, Structs
<1>10. ASSUME NEW s \in Senders, Cas(s) PROVE Lists'
  <2>1. mine[s] \in Pkts
    BY <1>10, <1>2 DEF Cas, Carrying
  <2>2. <<mine[s]>> \in Seq(Pkts) /\ std_put \in Seq(Pkts)
    BY <2>1, <1>1 DEF Lists
  <2>3. <<mine[s]>> \o std_put \in Seq(Pkts)
    BY <2>2, ConcatType
  <2> QED
    BY <1>10, <2>3, <1>1 DEF Cas, Lists
<1>11. ASSUME NEW s \in Senders, Retry(s) PROVE Lists'
  BY <1>11, <1>1 DEF Retry, listvars, Lists
<1>12. ASSUME NEW s \in Senders, Enospc(s) PROVE Lists'
  BY <1>12, <1>1 DEF Enospc, listvars, Lists
<1>13. ASSUME NEW a \in Agents, Service(a) PROVE Lists'
  BY <1>1, <1>13, SwizzleQueue DEF Service, Lists
<1>14. ASSUME NEW a \in Agents, DrainPost(a) PROVE Lists'
  <2>1. std_get # << >> /\ FreeHead
    BY <1>14 DEF DrainPost
  <2>2. /\ std_get' \in Seq(Pkts) /\ stp' \in Structs
        /\ st_fpp' \in Seq(Pkts) /\ Len(st_fpp') <= PoolMax
        /\ cache' \subseteq Pkts
    BY <1>1, <2>1, FreeHeadKeeps
  <2>3. std_put' = std_put /\ std_count' \in Nat
    BY <1>14, <2>2, <1>1 DEF DrainPost, Lists
  <2> QED
    BY <2>2, <2>3, <1>1 DEF Lists, Structs
<1>15. ASSUME NEW a \in Agents, DrainReject(a) PROVE Lists'
  <2>1. std_get # << >> /\ FreeHead
    BY <1>15 DEF DrainReject
  <2>2. /\ std_get' \in Seq(Pkts) /\ stp' \in Structs
        /\ st_fpp' \in Seq(Pkts) /\ Len(st_fpp') <= PoolMax
        /\ cache' \subseteq Pkts
    BY <1>1, <2>1, FreeHeadKeeps
  <2>3. std_put' = std_put /\ std_count' \in Nat
    BY <1>15, <2>2, <1>1 DEF DrainReject, Lists
  <2> QED
    BY <2>2, <2>3, <1>1 DEF Lists, Structs
<1>16. ASSUME NEW a \in Agents, DrainEnd(a) PROVE Lists'
  BY <1>16, <1>1 DEF DrainEnd, Lists
<1>17. ASSUME NEW a \in Agents, ServiceUnlock(a) PROVE Lists'
  BY <1>17, <1>1 DEF ServiceUnlock, listvars, Lists
<1>18. ASSUME NEW a \in Agents, ServiceCheck(a) PROVE Lists'
  BY <1>18, <1>1 DEF ServiceCheck, listvars, Lists
<1>19. ASSUME NEW a \in Agents, ServiceAgain(a) PROVE Lists'
  BY <1>19, <1>1 DEF ServiceAgain, listvars, Lists
<1>20. CASE HwComplete
  BY <1>20, <1>1 DEF HwComplete, listvars, Lists
<1>21. CASE EvTx
  BY <1>21, <1>1 DEF EvTx, listvars, Lists
<1>22. CASE QComplete
  BY <1>22, <1>1 DEF QComplete, listvars, Lists
<1>23. CASE Update
  BY <1>23, <1>1 DEF Update, listvars, Lists
<1>24. CASE QUnblock
  BY <1>24, <1>1 DEF QUnblock, listvars, Lists
<1>25. CASE Stopping
  BY <1>25, <1>1 DEF Stopping, listvars, Lists
<1>26. CASE QFlush
  BY <1>26, <1>1 DEF QFlush, listvars, Lists
<1>27. CASE QStop
  <2>1. /\ Destroy(Range(Swizzled)) /\ std_put' = PutAfter /\ std_get' = << >>
        /\ std_count' = 0 /\ st_fpp' = st_fpp
    BY <1>27 DEF QStop, FlushLocked
  <2>2. Range(Swizzled) \subseteq Pkts /\ << >> \in Seq(Pkts)
    BY <1>1, SwizzleQueue, RangeType
  <2>3. stp' \in Structs /\ cache' \subseteq Pkts
    BY <1>1, <2>1, <2>2, DestroyKeeps
  <2> QED
    BY <1>1, <2>1, <2>2, <2>3, SwizzleQueue DEF Lists, Structs
<1>28. CASE QStart
  BY <1>28, <1>1 DEF QStart, listvars, Lists
<1>29. CASE Started
  BY <1>29, <1>1 DEF Started, listvars, Lists
<1>30. CASE QFini
  <2>1. /\ Destroy(Range(Swizzled) \cup Range(st_fpp)) /\ std_put' = PutAfter
        /\ std_get' = << >> /\ std_count' = 0 /\ st_fpp' = << >>
    BY <1>30 DEF QFini
  <2>2. /\ Range(Swizzled) \subseteq Pkts /\ Range(st_fpp) \subseteq Pkts
        /\ << >> \in Seq(Pkts) /\ Len(<< >>) = 0
    BY <1>1, SwizzleQueue, RangeType DEF Lists
  <2>3. stp' \in Structs /\ cache' \subseteq Pkts
    BY <1>1, <2>1, <2>2, DestroyKeeps
  <2> QED
    BY <1>1, <2>1, <2>2, <2>3, SwizzleQueue, TxDplAssumption DEF Lists, Structs
<1>31. CASE QInit
  BY <1>31, <1>1 DEF QInit, listvars, Lists
<1>32. CASE UNCHANGED vars
  BY <1>32, <1>1 DEF vars, listvars, Lists
<1>33. CASE KstatEnter
  BY <1>33, <1>1 DEF KstatEnter, listvars, Lists
<1>34. CASE KstatExit
  BY <1>34, <1>1 DEF KstatExit, listvars, Lists
<1> QED
  BY <1>3, <1>4, <1>5, <1>6, <1>7, <1>8, <1>9, <1>10, <1>11, <1>12, <1>13,
     <1>14, <1>15, <1>16, <1>17, <1>18, <1>19, <1>20, <1>21, <1>22, <1>23,
     <1>24, <1>25, <1>26, <1>27, <1>28, <1>29, <1>30, <1>31, <1>32, <1>33,
     <1>34 DEF Next,
     Send, ServiceStep, Event, Life

(* A ring has a size.                                                      *)
LEMMA RingSizeNat == RingSize \in Nat
BY TxDplAssumption

(* Every step keeps the counts of the ring within the ring.                *)
LEMMA CountsNext == IInv /\ [Next]_vars => Counts'
<1> SUFFICES ASSUME IInv, [Next]_vars PROVE Counts'
  OBVIOUS
<1> USE RealMessages, RealIsMsg, RingSizeNat DEF IInv, Counts, InRing
<1>1. ASSUME NEW s \in Senders, PacketAdd(s) PROVE Counts'
  BY <1>1 DEF PacketAdd, ringvars
<1>2. ASSUME NEW s \in Senders, TryEnter(s) PROVE Counts'
  BY <1>2 DEF TryEnter, ringvars
<1>3. ASSUME NEW s \in Senders, PacketCreate(s) PROVE Counts'
  BY <1>3 DEF PacketCreate, ringvars
<1>4. ASSUME NEW s \in Senders, CreateFail(s) PROVE Counts'
  BY <1>4 DEF CreateFail, ringvars
<1>5. ASSUME NEW s \in Senders, AddLocked(s) PROVE Counts'
  BY <1>5 DEF AddLocked, ringvars
<1>6. ASSUME NEW s \in Senders, ReadPut(s) PROVE Counts'
  BY <1>6 DEF ReadPut, ringvars
<1>7. ASSUME NEW s \in Senders, ReadLen(s) PROVE Counts'
  BY <1>7 DEF ReadLen, ringvars
<1>8. ASSUME NEW s \in Senders, Cas(s) PROVE Counts'
  BY <1>8 DEF Cas, ringvars
<1>9. ASSUME NEW s \in Senders, Retry(s) PROVE Counts'
  BY <1>9 DEF Retry, ringvars
<1>10. ASSUME NEW s \in Senders, Enospc(s) PROVE Counts'
  BY <1>10 DEF Enospc, ringvars
<1>11. ASSUME NEW a \in Agents, Service(a) PROVE Counts'
  BY <1>11 DEF Service, ringvars
<1>12. ASSUME NEW a \in Agents, DrainPost(a) PROVE Counts'
  <2>1. stp[Head(std_get)].msg \in Real
    BY <1>12 DEF DrainPost
  <2>2. frag' \in Msgs /\ blocked' \in BOOLEAN
    BY <1>12, <2>1 DEF DrainPost, PostOk, PostBlocks
  <2>3. /\ hw' \in Nat /\ np' \in Nat /\ dn' \in Nat
        /\ InRing' = InRing \/ (InRing' = InRing + 1 /\ InRing < RingSize)
    BY <1>12 DEF DrainPost, PostOk, PostBlocks, Push, Hold
  <2>4. InRing' <= RingSize
    <3>1. InRing \in Nat /\ InRing <= RingSize
      OBVIOUS
    <3> HIDE DEF InRing
    <3> QED
      BY <2>3, <3>1
  <2>5. ev' = ev /\ pend' = pend
    BY <1>12 DEF DrainPost
  <2> QED
    BY <2>2, <2>3, <2>4, <2>5
<1>13. ASSUME NEW a \in Agents, DrainReject(a) PROVE Counts'
  BY <1>13 DEF DrainReject, ringvars
<1>14. ASSUME NEW a \in Agents, DrainEnd(a) PROVE Counts'
  BY <1>14 DEF DrainEnd, Push, Hold
<1>15. ASSUME NEW a \in Agents, ServiceUnlock(a) PROVE Counts'
  BY <1>15 DEF ServiceUnlock, ringvars
<1>16. ASSUME NEW a \in Agents, ServiceCheck(a) PROVE Counts'
  BY <1>16 DEF ServiceCheck, ringvars
<1>17. ASSUME NEW a \in Agents, ServiceAgain(a) PROVE Counts'
  BY <1>17 DEF ServiceAgain, ringvars
<1>18. CASE HwComplete
  BY <1>18 DEF HwComplete
<1>19. CASE EvTx
  BY <1>19 DEF EvTx
<1>20. CASE QComplete
  BY <1>20 DEF QComplete
<1>21. CASE Update
  BY <1>21 DEF Update, ringvars
<1>22. CASE QUnblock
  <2>1. frag \in Msgs
    OBVIOUS
  <2>2. frag' \in Msgs /\ blocked' \in BOOLEAN
    BY <1>22, <2>1 DEF QUnblock, PostOk, PostBlocks
  <2>3. np' = np \/ (np' = np + 1 /\ InRing < RingSize)
    BY <1>22 DEF QUnblock, PostOk, PostBlocks
  <2> QED
    BY <1>22, <2>2, <2>3, TxDplAssumption DEF QUnblock
<1>23. CASE Stopping
  BY <1>23 DEF Stopping, ringvars
<1>24. CASE QFlush
  BY <1>24 DEF QFlush, ringvars
<1>25. CASE QStop
  <2>1. /\ frag' = NoMsg /\ blocked' = FALSE /\ dn' = dn
        /\ np' = 0 /\ hw' = 0 /\ ev' = 0 /\ pend' = 0
    BY <1>25 DEF QStop
  <2>2. InRing' = 0
    BY <2>1
  <2>3. InRing' <= RingSize
    BY <2>2, RingSizeNat
  <2> HIDE DEF InRing
  <2> QED
    BY <2>1, <2>3
<1>26. CASE QStart
  BY <1>26 DEF QStart, ringvars
<1>27. CASE Started
  BY <1>27 DEF Started, ringvars
<1>28. CASE QFini
  BY <1>28 DEF QFini, ringvars
<1>29. CASE QInit
  BY <1>29 DEF QInit, ringvars
<1>30. CASE UNCHANGED vars
  BY <1>30 DEF vars, ringvars
<1>31. CASE KstatEnter
  BY <1>31 DEF KstatEnter, ringvars
<1>32. CASE KstatExit
  BY <1>32 DEF KstatExit, ringvars
<1> HIDE DEF IInv, Counts, InRing
<1> QED
  BY <1>1, <1>2, <1>3, <1>4, <1>5, <1>6, <1>7, <1>8, <1>9, <1>10, <1>11,
     <1>12, <1>13, <1>14, <1>15, <1>16, <1>17, <1>18, <1>19, <1>20, <1>21,
     <1>22, <1>23, <1>24, <1>25, <1>26, <1>27, <1>28, <1>29, <1>30, <1>31,
     <1>32 DEF Next,
     Send, ServiceStep, Event, Life

(* Nobody services the list while the lock is free or a reader's.          *)
LEMMA FreeLock ==
  ASSUME LockInv, st_lock \in {NoThread, Kstat}
  PROVE  \A a \in Agents : tpc[a] \notin Holding
BY NoThreadIsNoAgent DEF LockInv

(* Every step keeps the lock with the thread that took it.                 *)
LEMMA LockNext == IInv /\ [Next]_vars => LockInv'
<1> SUFFICES ASSUME IInv, [Next]_vars PROVE LockInv'
  OBVIOUS
<1> USE EvqIsNoSender DEF IInv, Threads, LockInv, Steps, Holding, Carrying
<1>1. ASSUME NEW s \in Senders, PacketAdd(s) PROVE LockInv'
  BY <1>1 DEF PacketAdd, Goto, listvars, ringvars, sendvars, lifevars
<1>2. ASSUME NEW s \in Senders, TryEnter(s) PROVE LockInv'
  <2>1. /\ tpc[s] = "try" /\ mine' = mine /\ nxt' = nxt
        /\ tpc' = [tpc EXCEPT ![s] = "alloc"]
        /\ \/ st_lock = NoThread /\ st_lock' = s
           \/ st_lock' = st_lock
    BY <1>2 DEF TryEnter, Goto, sendvars
  <2>2. \A b \in Agents : tpc'[b] \in Holding => st_lock' = b
    <3>1. CASE st_lock = NoThread
      <4>1. \A b \in Agents : tpc[b] \notin Holding
        BY <3>1, FreeLock
      <4> QED
        BY <2>1, <3>1, <4>1
    <3>2. CASE st_lock # NoThread
      BY <2>1, <3>2
    <3> QED
      BY <3>1, <3>2
  <2>3. \A b \in Agents :
          st_lock' = b => tpc'[b] \in Holding \cup {"alloc"}
    BY <2>1
  <2>4. tpc'[Evq] \in {"idle", "service", "drain", "unlock", "check",
                      "again", "complete", "unblock", "update"}
    BY <2>1
  <2>5. \A r \in Senders :
          tpc'[r] \notin {"complete", "unblock", "update"}
    BY <2>1
  <2>6. \A r \in Senders : mine'[r] # NoPkt <=> tpc'[r] \in Carrying
    BY <2>1
  <2>7. \A r \in Senders : tpc'[r] # "idle" => nxt'[r] <= MaxSend
    BY <2>1
  <2> QED
    BY <2>2, <2>3, <2>4, <2>5, <2>6, <2>7
<1>3. ASSUME NEW s \in Senders, PacketCreate(s) PROVE LockInv'
  <2>1. mine' = [mine EXCEPT ![s] = mine'[s]] /\ mine'[s] # NoPkt
    <3>1. CASE FromPool(s)
      <4>1. Head(st_fpp) \in Pkts
        BY <3>1 DEF FromPool, Lists
      <4> QED
        BY <1>3, <3>1, <4>1, EvqIsNoSender DEF PacketCreate, Fill
    <3>2. CASE ~FromPool(s)
      BY <1>3, <3>2, AllocFromCache, EvqIsNoSender
         DEF PacketCreate, Fill, Lists
    <3> QED
      BY <3>1, <3>2
  <2> QED
    BY <1>3, <2>1 DEF PacketCreate, Goto, lifevars, ringvars
<1>4. ASSUME NEW s \in Senders, CreateFail(s) PROVE LockInv'
  <2>1. /\ tpc[s] = "alloc" /\ mine' = mine /\ nxt' = nxt
        /\ tpc' = [tpc EXCEPT ![s] = "enospc"]
        /\ \/ st_lock = s /\ st_lock' = NoThread
           \/ st_lock # s /\ st_lock' = st_lock
    BY <1>4 DEF CreateFail, Goto, sendvars
  <2>2. \A b \in Agents : tpc'[b] \in Holding => st_lock' = b
    BY <2>1
  <2>3. \A b \in Agents :
          st_lock' = b => tpc'[b] \in Holding \cup {"alloc"}
    BY <2>1, NoThreadIsNoAgent
  <2>4. tpc'[Evq] \in {"idle", "service", "drain", "unlock", "check",
                      "again", "complete", "unblock", "update"}
    BY <2>1
  <2>5. \A r \in Senders :
          tpc'[r] \notin {"complete", "unblock", "update"}
    BY <2>1
  <2>6. \A r \in Senders : mine'[r] # NoPkt <=> tpc'[r] \in Carrying
    BY <2>1
  <2>7. \A r \in Senders : tpc'[r] # "idle" => nxt'[r] <= MaxSend
    BY <2>1
  <2> QED
    BY <2>2, <2>3, <2>4, <2>5, <2>6, <2>7
<1>5. ASSUME NEW s \in Senders, AddLocked(s) PROVE LockInv'
  <2>1. /\ tpc[s] = "add" /\ mine' = [mine EXCEPT ![s] = NoPkt]
        /\ nxt' = nxt /\ st_lock = s
        /\ \/ /\ tpc' = [tpc EXCEPT ![s] = "enospc"]
              /\ st_lock' = NoThread
           \/ /\ tpc' = [tpc EXCEPT ![s] = "service"]
              /\ st_lock' = st_lock
    BY <1>5 DEF AddLocked, Goto
  <2>2. \A b \in Agents : tpc'[b] \in Holding => st_lock' = b
    BY <2>1
  <2>3. \A b \in Agents :
          st_lock' = b => tpc'[b] \in Holding \cup {"alloc"}
    BY <2>1, NoThreadIsNoAgent
  <2>4. tpc'[Evq] \in {"idle", "service", "drain", "unlock", "check",
                      "again", "complete", "unblock", "update"}
    BY <2>1
  <2>5. \A r \in Senders :
          tpc'[r] \notin {"complete", "unblock", "update"}
    BY <2>1
  <2>6. \A r \in Senders : mine'[r] # NoPkt <=> tpc'[r] \in Carrying
    BY <2>1
  <2>7. \A r \in Senders : tpc'[r] # "idle" => nxt'[r] <= MaxSend
    BY <2>1
  <2> QED
    BY <2>2, <2>3, <2>4, <2>5, <2>6, <2>7
<1>6. ASSUME NEW s \in Senders, ReadPut(s) PROVE LockInv'
  BY <1>6 DEF ReadPut, Goto, listvars, ringvars, sendvars, lifevars
<1>7. ASSUME NEW s \in Senders, ReadLen(s) PROVE LockInv'
  BY <1>7 DEF ReadLen, Goto, listvars, ringvars, sendvars, lifevars, Destroy
<1>8. ASSUME NEW s \in Senders, Cas(s) PROVE LockInv'
  <2>1. /\ tpc[s] = "cas" /\ st_lock' = st_lock /\ nxt' = nxt
        /\ \/ /\ tpc' = [tpc EXCEPT ![s] = "retry"]
              /\ mine' = [mine EXCEPT ![s] = NoPkt]
           \/ tpc' = [tpc EXCEPT ![s] = "read"] /\ mine' = mine
    BY <1>8 DEF Cas, Goto, lifevars
  <2>2. \A b \in Agents : tpc'[b] \in Holding => st_lock' = b
    BY <2>1
  <2>3. \A b \in Agents :
          st_lock' = b => tpc'[b] \in Holding \cup {"alloc"}
    BY <2>1
  <2>4. tpc'[Evq] \in {"idle", "service", "drain", "unlock", "check",
                      "again", "complete", "unblock", "update"}
    BY <2>1
  <2>5. \A r \in Senders :
          tpc'[r] \notin {"complete", "unblock", "update"}
    BY <2>1
  <2>6. \A r \in Senders : mine'[r] # NoPkt <=> tpc'[r] \in Carrying
    BY <2>1
  <2>7. \A r \in Senders : tpc'[r] # "idle" => nxt'[r] <= MaxSend
    BY <2>1
  <2> QED
    BY <2>2, <2>3, <2>4, <2>5, <2>6, <2>7
<1>9. ASSUME NEW s \in Senders, Retry(s) PROVE LockInv'
  <2>1. /\ tpc[s] = "retry" /\ mine' = mine
        /\ \/ /\ st_lock = NoThread /\ st_lock' = s /\ nxt' = nxt
              /\ tpc' = [tpc EXCEPT ![s] = "service"]
           \/ /\ st_lock' = st_lock
              /\ tpc' = [tpc EXCEPT ![s] = "idle"]
              /\ nxt' = [nxt EXCEPT ![s] = nxt[s] + 1]
    BY <1>9 DEF Retry, Accepted, Goto
  <2>2. \A b \in Agents : tpc'[b] \in Holding => st_lock' = b
    <3>1. CASE st_lock = NoThread
      <4>1. \A b \in Agents : tpc[b] \notin Holding
        BY <3>1, FreeLock
      <4> QED
        BY <2>1, <3>1, <4>1
    <3>2. CASE st_lock # NoThread
      BY <2>1, <3>2
    <3> QED
      BY <3>1, <3>2
  <2>3. \A b \in Agents :
          st_lock' = b => tpc'[b] \in Holding \cup {"alloc"}
    BY <2>1
  <2>4. tpc'[Evq] \in {"idle", "service", "drain", "unlock", "check",
                      "again", "complete", "unblock", "update"}
    BY <2>1
  <2>5. \A r \in Senders :
          tpc'[r] \notin {"complete", "unblock", "update"}
    BY <2>1
  <2>6. \A r \in Senders : mine'[r] # NoPkt <=> tpc'[r] \in Carrying
    BY <2>1
  <2>7. \A r \in Senders : tpc'[r] # "idle" => nxt'[r] <= MaxSend
    BY <2>1
  <2> QED
    BY <2>2, <2>3, <2>4, <2>5, <2>6, <2>7
<1>10. ASSUME NEW s \in Senders, Enospc(s) PROVE LockInv'
  BY <1>10 DEF Enospc, Goto, listvars, ringvars, sendvars, lifevars
<1>11. ASSUME NEW a \in Agents, Service(a) PROVE LockInv'
  BY <1>11 DEF Service, Goto, listvars, ringvars, sendvars, lifevars
<1>12. ASSUME NEW a \in Agents, DrainPost(a) PROVE LockInv'
  BY <1>12
     DEF DrainPost, Goto, listvars, ringvars, sendvars, lifevars, FreeHead,
         PostOk, PostBlocks, Push, Hold, InRing
<1>13. ASSUME NEW a \in Agents, DrainReject(a) PROVE LockInv'
  BY <1>13
     DEF DrainReject, Goto, listvars, ringvars, sendvars, lifevars, FreeHead
<1>14. ASSUME NEW a \in Agents, DrainEnd(a) PROVE LockInv'
  BY <1>14
     DEF DrainEnd, Goto, listvars, ringvars, sendvars, lifevars, Push, Hold
<1>15. ASSUME NEW a \in Agents, ServiceUnlock(a) PROVE LockInv'
  <2>1. /\ tpc[a] = "unlock" /\ st_lock' = NoThread /\ st_lock = a
        /\ tpc' = [tpc EXCEPT ![a] = "check"]
        /\ nxt' = nxt /\ mine' = mine
    BY <1>15 DEF ServiceUnlock, Goto, sendvars
  <2>2. \A b \in Agents : tpc'[b] \in Holding => st_lock' = b
    BY <2>1
  <2>3. \A b \in Agents :
          st_lock' = b => tpc'[b] \in Holding \cup {"alloc"}
    <3>1. \A b \in Agents : st_lock' # b
      BY <2>1, NoThreadIsNoAgent
    <3> QED
      BY <3>1
  <2>4. tpc'[Evq] \in {"idle", "service", "drain", "unlock", "check",
                      "again", "complete", "unblock", "update"}
    BY <2>1
  <2>5. \A r \in Senders :
          tpc'[r] \notin {"complete", "unblock", "update"}
    BY <2>1
  <2>6. \A r \in Senders : mine'[r] # NoPkt <=> tpc'[r] \in Carrying
    BY <2>1
  <2>7. \A r \in Senders : tpc'[r] # "idle" => nxt'[r] <= MaxSend
    BY <2>1
  <2> QED
    BY <2>2, <2>3, <2>4, <2>5, <2>6, <2>7
<1>16. ASSUME NEW a \in Agents, ServiceCheck(a) PROVE LockInv'
  <2>1. /\ tpc[a] = "check" /\ st_lock' = st_lock /\ mine' = mine
        /\ \/ nxt' = nxt /\ tpc' = [tpc EXCEPT ![a] = "again"]
           \/ /\ a \in Senders /\ tpc' = [tpc EXCEPT ![a] = "idle"]
              /\ nxt' = [nxt EXCEPT ![a] = nxt[a] + 1]
           \/ /\ a = Evq /\ nxt' = nxt
              /\ tpc' = [tpc EXCEPT ![a] = "update"]
    BY <1>16 DEF ServiceCheck, ServiceDone, Accepted, Goto, Agents
  <2>2. \A b \in Agents : tpc'[b] \in Holding => st_lock' = b
    BY <2>1
  <2>3. \A b \in Agents :
          st_lock' = b => tpc'[b] \in Holding \cup {"alloc"}
    BY <2>1
  <2>4. tpc'[Evq] \in {"idle", "service", "drain", "unlock", "check",
                      "again", "complete", "unblock", "update"}
    BY <2>1
  <2>5. \A r \in Senders :
          tpc'[r] \notin {"complete", "unblock", "update"}
    BY <2>1
  <2>6. \A r \in Senders : mine'[r] # NoPkt <=> tpc'[r] \in Carrying
    BY <2>1
  <2>7. \A r \in Senders : tpc'[r] # "idle" => nxt'[r] <= MaxSend
    BY <2>1
  <2> QED
    BY <2>2, <2>3, <2>4, <2>5, <2>6, <2>7
<1>17. ASSUME NEW a \in Agents, ServiceAgain(a) PROVE LockInv'
  <2>1. /\ tpc[a] = "again" /\ mine' = mine
        /\ \/ /\ st_lock = NoThread /\ st_lock' = a /\ nxt' = nxt
              /\ tpc' = [tpc EXCEPT ![a] = "service"]
           \/ /\ st_lock' = st_lock /\ a \in Senders
              /\ tpc' = [tpc EXCEPT ![a] = "idle"]
              /\ nxt' = [nxt EXCEPT ![a] = nxt[a] + 1]
           \/ /\ st_lock' = st_lock /\ a = Evq /\ nxt' = nxt
              /\ tpc' = [tpc EXCEPT ![a] = "update"]
    BY <1>17 DEF ServiceAgain, ServiceDone, Accepted, Goto, Agents
  <2>2. \A b \in Agents : tpc'[b] \in Holding => st_lock' = b
    <3>1. CASE st_lock = NoThread
      <4>1. \A b \in Agents : tpc[b] \notin Holding
        BY <3>1, FreeLock
      <4> QED
        BY <2>1, <3>1, <4>1
    <3>2. CASE st_lock # NoThread
      BY <2>1, <3>2
    <3> QED
      BY <3>1, <3>2
  <2>3. \A b \in Agents :
          st_lock' = b => tpc'[b] \in Holding \cup {"alloc"}
    BY <2>1
  <2>4. tpc'[Evq] \in {"idle", "service", "drain", "unlock", "check",
                      "again", "complete", "unblock", "update"}
    BY <2>1
  <2>5. \A r \in Senders :
          tpc'[r] \notin {"complete", "unblock", "update"}
    BY <2>1
  <2>6. \A r \in Senders : mine'[r] # NoPkt <=> tpc'[r] \in Carrying
    BY <2>1
  <2>7. \A r \in Senders : tpc'[r] # "idle" => nxt'[r] <= MaxSend
    BY <2>1
  <2> QED
    BY <2>2, <2>3, <2>4, <2>5, <2>6, <2>7
<1>18. CASE HwComplete
  BY <1>18 DEF HwComplete, sendvars, lifevars
<1>19. CASE EvTx
  BY <1>19 DEF EvTx, Goto, listvars, ringvars, sendvars, lifevars
<1>20. CASE QComplete
  BY <1>20 DEF QComplete, Goto, listvars, ringvars, sendvars, lifevars
<1>21. CASE Update
  BY <1>21
     DEF Update, Goto, listvars, ringvars, sendvars, lifevars, MacTxUpdate
<1>22. CASE QUnblock
  <2>1. /\ tpc[Evq] = "unblock" /\ st_lock = NoThread /\ mine' = mine
        /\ nxt' = nxt
        /\ \/ /\ tpc' = [tpc EXCEPT ![Evq] = "update"] /\ st_lock' = st_lock
           \/ /\ tpc' = [tpc EXCEPT ![Evq] = "service"] /\ st_lock' = Evq
    BY <1>22 DEF QUnblock, Goto, sendvars
  <2>2. \A b \in Agents : tpc'[b] \in Holding => st_lock' = b
    <3>1. CASE st_lock = NoThread
      <4>1. \A b \in Agents : tpc[b] \notin Holding
        BY <3>1, FreeLock
      <4> QED
        BY <2>1, <3>1, <4>1
    <3>2. CASE st_lock # NoThread
      BY <2>1, <3>2
    <3> QED
      BY <3>1, <3>2
  <2>3. \A b \in Agents :
          st_lock' = b => tpc'[b] \in Holding \cup {"alloc"}
    BY <2>1
  <2>4. tpc'[Evq] \in {"idle", "service", "drain", "unlock", "check",
                      "again", "complete", "unblock", "update"}
    BY <2>1
  <2>5. \A r \in Senders :
          tpc'[r] \notin {"complete", "unblock", "update"}
    BY <2>1
  <2>6. \A r \in Senders : mine'[r] # NoPkt <=> tpc'[r] \in Carrying
    BY <2>1
  <2>7. \A r \in Senders : tpc'[r] # "idle" => nxt'[r] <= MaxSend
    BY <2>1
  <2> QED
    BY <2>2, <2>3, <2>4, <2>5, <2>6, <2>7
<1>23. CASE Stopping
  BY <1>23 DEF Stopping, sendvars, lifevars
<1>24. CASE QFlush
  BY <1>24 DEF QFlush, sendvars, lifevars
<1>25. CASE QStop
  <2>1. /\ tpc[Evq] = "idle" /\ st_lock = NoThread /\ mine' = mine
        /\ nxt' = nxt /\ st_lock' = st_lock
        /\ \/ tpc' = tpc
           \/ tpc' = [a \in Agents |->
                IF tpc[a] = "held" \/ a = Evq THEN "idle" ELSE tpc[a]]
    BY <1>25 DEF QStop, MacTxUpdate
  <2>2. \A b \in Agents : tpc'[b] \in Holding => st_lock' = b
    BY <2>1
  <2>3. \A b \in Agents :
          st_lock' = b => tpc'[b] \in Holding \cup {"alloc"}
    BY <2>1
  <2>4. tpc'[Evq] \in {"idle", "service", "drain", "unlock", "check",
                      "again", "complete", "unblock", "update"}
    BY <2>1
  <2>5. \A r \in Senders :
          tpc'[r] \notin {"complete", "unblock", "update"}
    BY <2>1
  <2>6. \A r \in Senders : mine'[r] # NoPkt <=> tpc'[r] \in Carrying
    BY <2>1
  <2>7. \A r \in Senders : tpc'[r] # "idle" => nxt'[r] <= MaxSend
    BY <2>1
  <2> QED
    BY <2>2, <2>3, <2>4, <2>5, <2>6, <2>7
<1>26. CASE QStart
  BY <1>26 DEF QStart, sendvars, lifevars
<1>27. CASE Started
  BY <1>27 DEF Started, sendvars, lifevars
<1>28. CASE QFini
  BY <1>28 DEF QFini, sendvars, lifevars
<1>29. CASE QInit
  BY <1>29 DEF QInit, sendvars, lifevars
<1>30. CASE UNCHANGED vars
  BY <1>30 DEF vars, sendvars, lifevars
<1>31. CASE KstatEnter
  <2>1. /\ tpc' = tpc /\ mine' = mine /\ nxt' = nxt
        /\ st_lock \in {NoThread, Kstat} /\ st_lock' \in {NoThread, Kstat}
    BY <1>31 DEF KstatEnter, sendvars
  <2>2. \A a \in Agents : tpc[a] \notin Holding /\ st_lock' # a
    BY <2>1, FreeLock, NoThreadIsNoAgent
  <2> QED
    BY <2>1, <2>2
<1>32. CASE KstatExit
  <2>1. /\ tpc' = tpc /\ mine' = mine /\ nxt' = nxt
        /\ st_lock \in {NoThread, Kstat} /\ st_lock' \in {NoThread, Kstat}
    BY <1>32 DEF KstatExit, sendvars
  <2>2. \A a \in Agents : tpc[a] \notin Holding /\ st_lock' # a
    BY <2>1, FreeLock, NoThreadIsNoAgent
  <2> QED
    BY <2>1, <2>2
<1> HIDE DEF IInv, Threads, LockInv, Steps, Holding, Carrying
<1> QED
  BY <1>1, <1>2, <1>3, <1>4, <1>5, <1>6, <1>7, <1>8, <1>9, <1>10, <1>11,
     <1>12, <1>13, <1>14, <1>15, <1>16, <1>17, <1>18, <1>19, <1>20, <1>21,
     <1>22, <1>23, <1>24, <1>25, <1>26, <1>27, <1>28, <1>29, <1>30, <1>31,
     <1>32 DEF Next,
     Send, ServiceStep, Event, Life

(* Every step keeps what is known of the lists when the lock is free.      *)
LEMMA ListInvNext == IInv /\ [Next]_vars => ListInv'
<1> SUFFICES ASSUME IInv, [Next]_vars PROVE ListInv'
  OBVIOUS
<1> USE RealMessages, RealIsMsg, EvqIsNoSender, FreeLock DEF IInv, Threads,
      LockInv, ListInv, Steps, Holding
<1>1. ASSUME NEW s \in Senders, PacketAdd(s) PROVE ListInv'
  BY <1>1 DEF PacketAdd, Goto, listvars, ringvars, sendvars, lifevars
<1>2. ASSUME NEW s \in Senders, TryEnter(s) PROVE ListInv'
  BY <1>2 DEF TryEnter, Goto, listvars, ringvars, sendvars, lifevars
<1>3. ASSUME NEW s \in Senders, PacketCreate(s) PROVE ListInv'
  BY <1>3
     DEF PacketCreate, Goto, listvars, ringvars, sendvars, lifevars, FromPool,
         Fill
<1>4. ASSUME NEW s \in Senders, CreateFail(s) PROVE ListInv'
  BY <1>4
     DEF CreateFail, Goto, listvars, ringvars, sendvars, lifevars, FromPool
<1>5. ASSUME NEW s \in Senders, AddLocked(s) PROVE ListInv'
  BY <1>5
     DEF AddLocked, Goto, listvars, ringvars, sendvars, lifevars, Destroy,
         WithMine
<1>6. ASSUME NEW s \in Senders, ReadPut(s) PROVE ListInv'
  BY <1>6 DEF ReadPut, Goto, listvars, ringvars, sendvars, lifevars
<1>7. ASSUME NEW s \in Senders, ReadLen(s) PROVE ListInv'
  BY <1>7 DEF ReadLen, Goto, listvars, ringvars, sendvars, lifevars, Destroy
<1>8. ASSUME NEW s \in Senders, Cas(s) PROVE ListInv'
  BY <1>8 DEF Cas, Goto, listvars, ringvars, sendvars, lifevars, CasSucceeds
<1>9. ASSUME NEW s \in Senders, Retry(s) PROVE ListInv'
  BY <1>9 DEF Retry, Goto, listvars, ringvars, sendvars, lifevars, Accepted
<1>10. ASSUME NEW s \in Senders, Enospc(s) PROVE ListInv'
  BY <1>10 DEF Enospc, Goto, listvars, ringvars, sendvars, lifevars
<1>11. ASSUME NEW a \in Agents, Service(a) PROVE ListInv'
  BY <1>11 DEF Service, Goto, listvars, ringvars, sendvars, lifevars
<1>12. ASSUME NEW a \in Agents, DrainPost(a) PROVE ListInv'
  BY <1>12
     DEF DrainPost, Goto, listvars, ringvars, sendvars, lifevars, FreeHead,
         PostOk, PostBlocks, Push, Hold, InRing
<1>13. ASSUME NEW a \in Agents, DrainReject(a) PROVE ListInv'
  BY <1>13
     DEF DrainReject, Goto, listvars, ringvars, sendvars, lifevars, FreeHead
<1>14. ASSUME NEW a \in Agents, DrainEnd(a) PROVE ListInv'
  BY <1>14
     DEF DrainEnd, Goto, listvars, ringvars, sendvars, lifevars, Push, Hold
<1>15. ASSUME NEW a \in Agents, ServiceUnlock(a) PROVE ListInv'
  BY <1>15 DEF ServiceUnlock, Goto, listvars, ringvars, sendvars, lifevars
<1>16. ASSUME NEW a \in Agents, ServiceCheck(a) PROVE ListInv'
  BY <1>16
     DEF ServiceCheck, Goto, listvars, ringvars, sendvars, lifevars,
         PutPending, ServiceDone, Accepted
<1>17. ASSUME NEW a \in Agents, ServiceAgain(a) PROVE ListInv'
  <2>1. /\ tpc[a] = "again" /\ UNCHANGED <<st_state, s_started, frag,
             blocked, std_get, std_put, std_count>>
        /\ \E x \in {"service", "idle", "update"} :
             tpc' = [tpc EXCEPT ![a] = x]
    BY <1>17 DEF ServiceAgain, ServiceDone, Accepted, Goto, listvars,
             ringvars, lifevars
  <2>2. /\ \A b \in Agents : b # a => tpc'[b] = tpc[b]
        /\ tpc'[a] \in {"service", "idle", "update"}
    BY <2>1
  <2>3. /\ \A b \in Agents : tpc'[b] = "drain" <=> tpc[b] = "drain"
        /\ \A b \in Agents : tpc[b] = "service" => tpc'[b] = "service"
        /\ tpc'[Evq] = "unblock" => tpc[Evq] = "unblock"
    BY <2>1, <2>2
  <2>4. st_state # "UNINITIALIZED"
    BY <2>1
  <2> QED
    BY <2>1, <2>3, <2>4
<1>18. CASE HwComplete
  BY <1>18 DEF HwComplete, Goto, listvars, ringvars, sendvars, lifevars
<1>19. CASE EvTx
  BY <1>19 DEF EvTx, Goto, listvars, ringvars, sendvars, lifevars
<1>20. CASE QComplete
  BY <1>20 DEF QComplete, Goto, listvars, ringvars, sendvars, lifevars
<1>21. CASE Update
  <2>1. /\ tpc[Evq] = "update" /\ UNCHANGED <<st_state, s_started, frag,
             blocked, std_get, std_put, std_count>>
        /\ \A a \in Agents : tpc'[a] = tpc[a] \/ tpc'[a] = "idle"
        /\ \A a \in Agents : tpc'[a] # tpc[a] => tpc[a] \in {"held", "update"}
    BY <1>21 DEF Update, Goto, MacTxUpdate, listvars, ringvars, lifevars
  <2>2. \A a \in Agents : /\ tpc'[a] = "drain" <=> tpc[a] = "drain"
                          /\ tpc'[a] = "service" <=> tpc[a] = "service"
    BY <2>1
  <2> QED
    BY <2>1, <2>2
<1>22. CASE QUnblock
  <2>1. /\ tpc[Evq] = "unblock" /\ st_lock = NoThread /\ blocked
        /\ UNCHANGED <<st_state, s_started, std_get, std_put, std_count>>
        /\ \A b \in Agents : tpc[b] \notin Holding
    BY <1>22 DEF QUnblock, listvars, lifevars
  <2>2. st_state # "UNINITIALIZED"
    BY <2>1
  <2>3. CASE st_state # "STARTED"
    <3>1. /\ tpc' = [tpc EXCEPT ![Evq] = "update"]
          /\ frag' = frag /\ blocked' = blocked
      BY <1>22, <2>3 DEF QUnblock, Goto
    <3> QED
      BY <2>1, <2>2, <3>1
  <2>4. CASE st_state = "STARTED"
    <3>1. /\ tpc' = [tpc EXCEPT ![Evq] = "service"]
          /\ \/ frag' = NoMsg /\ blocked' = FALSE
             \/ frag' = frag /\ blocked' = TRUE
      BY <1>22, <2>4 DEF QUnblock, Goto, PostOk, PostBlocks
    <3>2. tpc'[Evq] = "service" /\ \A b \in Agents : tpc'[b] # "drain"
      BY <2>1, <3>1
    <3> QED
      BY <2>1, <2>2, <2>4, <3>1, <3>2
  <2> QED
    BY <2>3, <2>4
<1>23. CASE Stopping
  BY <1>23 DEF Stopping, Goto, listvars, ringvars, sendvars, lifevars
<1>24. CASE QFlush
  BY <1>24 DEF QFlush, Goto, listvars, ringvars, sendvars, lifevars
<1>25. CASE QStop
  BY <1>25
     DEF QStop, Goto, listvars, ringvars, sendvars, lifevars, FlushLocked,
         MacTxUpdate, Destroy
<1>26. CASE QStart
  BY <1>26 DEF QStart, Goto, listvars, ringvars, sendvars, lifevars
<1>27. CASE Started
  BY <1>27 DEF Started, Goto, listvars, ringvars, sendvars, lifevars
<1>28. CASE QFini
  <2>1. /\ st_state' = "UNINITIALIZED" /\ st_state = "INITIALIZED"
        /\ s_started' = FALSE /\ tpc' = tpc /\ frag' = frag
        /\ blocked' = blocked /\ std_get' = << >> /\ std_count' = 0
        /\ std_put' = PutAfter
        /\ \A a \in Agents : tpc[a] \in {"idle", "held"}
    BY <1>28 DEF QFini, ringvars
  <2>2. std_count = 0 /\ std_get = << >>
    <3>1. std_count = Len(std_get) /\ std_get = << >>
      BY <2>1
    <3> QED
      BY <3>1
  <2>3. PutAfter = << >>
    BY <2>2, TxDplAssumption DEF PutAfter
  <2>4. Len(<< >>) = 0
    OBVIOUS
  <2> QED
    BY <2>1, <2>2, <2>3, <2>4
<1>29. CASE QInit
  BY <1>29 DEF QInit, Goto, listvars, ringvars, sendvars, lifevars
<1>30. CASE UNCHANGED vars
  BY <1>30 DEF vars, listvars, ringvars, lifevars
<1>31. CASE KstatEnter
  BY <1>31 DEF KstatEnter, listvars, ringvars, lifevars
<1>32. CASE KstatExit
  BY <1>32 DEF KstatExit, listvars, ringvars, lifevars
<1> HIDE DEF IInv, Threads, LockInv, ListInv, Steps, Holding
<1> QED
  BY <1>1, <1>2, <1>3, <1>4, <1>5, <1>6, <1>7, <1>8, <1>9, <1>10, <1>11,
     <1>12, <1>13, <1>14, <1>15, <1>16, <1>17, <1>18, <1>19, <1>20, <1>21,
     <1>22, <1>23, <1>24, <1>25, <1>26, <1>27, <1>28, <1>29, <1>30, <1>31,
     <1>32 DEF Next,
     Send, ServiceStep, Event, Life

-----------------------------------------------------------------------------
(* The lists of a queue without repetition share no packet.                *)
LEMMA ListsApart ==
  ASSUME NEW g \in Seq(Pkts), NEW u \in Seq(Pkts), Inj(g \o Reverse(u))
  PROVE  Inj(g) /\ Inj(u) /\ Range(g) \cap Range(u) = {}
<1> DEFINE q == g \o Reverse(u)
<1>1. /\ q \in Seq(Pkts) /\ Len(q) = Len(g) + Len(u)
      /\ Len(g) \in Nat /\ Len(u) \in Nat
      /\ \A i \in 1..(Len(g) + Len(u)) :
           q[i] = IF i <= Len(g) THEN g[i] ELSE u[Len(u) - (i - Len(g)) + 1]
  BY QueueType
<1>2. Inj(q)
  OBVIOUS
<1> HIDE DEF q
<1>3. \A i, j \in 1..(Len(g) + Len(u)) : q[i] = q[j] => i = j
  <2>1. DOMAIN q = 1..Len(q)
    BY <1>1
  <2>2. DOMAIN q = 1..(Len(g) + Len(u))
    BY <1>1, <2>1
  <2> QED
    BY <1>2, <2>2 DEF Inj
<1>4. /\ \A i \in 1..Len(g) : i \in 1..(Len(g) + Len(u)) /\ q[i] = g[i]
      /\ DOMAIN g = 1..Len(g) /\ DOMAIN u = 1..Len(u)
  BY <1>1
<1>5. ASSUME NEW j \in 1..Len(u)
      PROVE  LET i == Len(g) + (Len(u) - j + 1)
             IN  i \in 1..(Len(g) + Len(u)) /\ i > Len(g) /\ q[i] = u[j]
  <2> DEFINE i == Len(g) + (Len(u) - j + 1)
  <2>1. /\ i \in 1..(Len(g) + Len(u)) /\ ~(i <= Len(g)) /\ i > Len(g)
        /\ Len(u) - (i - Len(g)) + 1 = j
    BY <1>1
  <2> QED
    BY <1>1, <2>1
<1>6. Inj(g)
  BY <1>3, <1>4 DEF Inj
<1>7. Inj(u)
  <2>1. SUFFICES ASSUME NEW j \in 1..Len(u), NEW k \in 1..Len(u), u[j] = u[k]
                 PROVE  j = k
    BY <1>4 DEF Inj
  <2>2. Len(g) + (Len(u) - j + 1) = Len(g) + (Len(u) - k + 1)
    BY <1>3, <1>5, <2>1
  <2> QED
    BY <1>1, <2>2
<1>8. ASSUME NEW x, x \in Range(g), x \in Range(u) PROVE FALSE
  <2>1. PICK i \in 1..Len(g) : g[i] = x
    BY <1>4, <1>8 DEF Range
  <2>2. PICK j \in 1..Len(u) : u[j] = x
    BY <1>4, <1>8 DEF Range
  <2> DEFINE k == Len(g) + (Len(u) - j + 1)
  <2>3. k \in 1..(Len(g) + Len(u)) /\ k > Len(g) /\ q[k] = x
    BY <1>5, <2>2
  <2>4. i \in 1..(Len(g) + Len(u)) /\ q[i] = x
    BY <1>4, <2>1
  <2> HIDE DEF k
  <2>5. i = k
    BY <1>3, <2>3, <2>4
  <2> QED
    BY <1>1, <2>3, <2>5
<1> QED
  BY <1>6, <1>7, <1>8

(* The put list alone, after the get list was emptied.                     *)
LEMMA PutAlone ==
  ASSUME NEW g \in Seq(Pkts), NEW u \in Seq(Pkts)
  PROVE  LET q == g \o Reverse(u)
             r == << >> \o Reverse(u)
         IN  /\ r \in Seq(Pkts) /\ Range(r) = Range(u)
             /\ Len(q) = Len(g) + Len(r) /\ Len(g) \in Nat
             /\ \A i \in 1..Len(r) : r[i] = q[i + Len(g)]
<1> DEFINE q == g \o Reverse(u)
           r == << >> \o Reverse(u)
           e == << >>
<1>1. /\ q \in Seq(Pkts) /\ Len(q) = Len(g) + Len(u)
      /\ Len(g) \in Nat /\ Len(u) \in Nat
      /\ \A i \in 1..(Len(g) + Len(u)) :
           q[i] = IF i <= Len(g) THEN g[i] ELSE u[Len(u) - (i - Len(g)) + 1]
  BY QueueType
<1>2. e \in Seq(Pkts) /\ Len(e) = 0 /\ Range(e) = {}
  BY DEF Range
<1> HIDE DEF e
<1>3. /\ r \in Seq(Pkts) /\ Len(r) = Len(e) + Len(u)
      /\ \A i \in 1..(Len(e) + Len(u)) :
           r[i] = IF i <= Len(e) THEN e[i] ELSE u[Len(u) - (i - Len(e)) + 1]
  <2>1. r = e \o Reverse(u)
    BY DEF e
  <2> HIDE DEF r
  <2> QED
    BY <1>2, <2>1, QueueType
<1>4. Range(r) = Range(u)
  <2>1. r = e \o Reverse(u)
    BY DEF e
  <2> HIDE DEF r
  <2>2. e \in Seq(Pkts) /\ u \in Seq(Pkts)
    BY <1>2
  <2>3. Range(e \o Reverse(u)) = Range(e) \cup Range(u)
    BY ONLY <2>2, QueueRange
  <2> QED
    BY <1>2, <2>1, <2>3
<1> HIDE DEF q, r
<1>5. ASSUME NEW i \in 1..Len(r) PROVE r[i] = q[i + Len(g)]
  <2>1. /\ i \in 1..(Len(e) + Len(u)) /\ ~(i <= Len(e)) /\ i - Len(e) = i
        /\ i + Len(g) \in 1..(Len(g) + Len(u)) /\ ~(i + Len(g) <= Len(g))
        /\ (i + Len(g)) - Len(g) = i
    BY <1>1, <1>2, <1>3
  <2> QED
    BY <1>1, <1>3, <2>1
<1>6. Len(q) = Len(g) + Len(r)
  BY <1>1, <1>2, <1>3
<1> QED
  BY <1>1, <1>3, <1>4, <1>5, <1>6 DEF q, r

(* A suffix of a sequence without repetition has none either.              *)
LEMMA SuffixInj ==
  ASSUME NEW q \in Seq(Pkts), NEW r \in Seq(Pkts), NEW k \in Nat,
         Len(q) = k + Len(r), \A i \in 1..Len(r) : r[i] = q[i + k], Inj(q)
  PROVE  Inj(r)
<1>1. DOMAIN q = 1..Len(q) /\ DOMAIN r = 1..Len(r) /\ Len(r) \in Nat
  OBVIOUS
<1>2. \A i \in 1..Len(r) : i + k \in 1..Len(q)
  BY <1>1
<1> QED
  BY <1>1, <1>2 DEF Inj

(* A new element at the head keeps a sequence without repetition.          *)
LEMMA PushInj ==
  ASSUME NEW s \in Seq(Pkts), NEW x \in Pkts, Inj(s), x \notin Range(s)
  PROVE  Inj(<<x>> \o s) /\ Range(<<x>> \o s) = Range(s) \cup {x}
<1> DEFINE t == <<x>> \o s
           n == Len(s)
<1>1. /\ n \in Nat /\ t \in Seq(Pkts) /\ Len(t) = n + 1 /\ t[1] = x
      /\ \A i \in 1..n : t[i + 1] = s[i]
  <2>1. <<x>> \in Seq(Pkts) /\ Len(<<x>>) = 1 /\ <<x>>[1] = x /\ n \in Nat
    OBVIOUS
  <2>2. /\ t \in Seq(Pkts) /\ Len(t) = 1 + n
        /\ \A i \in 1..(1 + n) :
             t[i] = IF i <= 1 THEN <<x>>[i] ELSE s[i - 1]
    BY <2>1, ConcatType
  <2> HIDE DEF t, n
  <2>3. t[1] = x
    BY <2>1, <2>2
  <2>4. ASSUME NEW i \in 1..n PROVE t[i + 1] = s[i]
    <3>1. i + 1 \in 1..(1 + n) /\ ~(i + 1 <= 1) /\ (i + 1) - 1 = i
      BY <2>1
    <3> QED
      BY <2>2, <3>1
  <2> QED
    BY <2>1, <2>2, <2>3, <2>4
<1>2. DOMAIN s = 1..n
  OBVIOUS
<1> HIDE DEF t, n
<1>3. DOMAIN t = 1..(n + 1)
  BY <1>1
<1>4. \A i \in 1..(n + 1) : i = 1 \/ (i - 1 \in 1..n /\ t[i] = s[i - 1])
  <2> TAKE i \in 1..(n + 1)
  <2>1. i # 1 => i - 1 \in 1..n /\ (i - 1) + 1 = i
    BY <1>1
  <2> QED
    BY <1>1, <2>1
<1>5. \A i \in 1..n : s[i] # x
  BY <1>2 DEF Range
<1>6. Inj(t)
  <2>1. SUFFICES ASSUME NEW i \in 1..(n + 1), NEW j \in 1..(n + 1), t[i] = t[j]
                 PROVE  i = j
    BY <1>3 DEF Inj
  <2>2. CASE i = 1 \/ j = 1
    BY <1>1, <1>4, <1>5, <2>1, <2>2
  <2>3. CASE i # 1 /\ j # 1
    <3>1. i - 1 = j - 1
      BY <1>2, <1>4, <2>1, <2>3 DEF Inj
    <3> QED
      BY <1>1, <3>1
  <2> QED
    BY <2>2, <2>3
<1>7. Range(t) = Range(s) \cup {x}
  <2>1. 1 \in DOMAIN t /\ \A i \in 1..n : i + 1 \in DOMAIN t
    BY <1>1, <1>3
  <2>2. Range(s) \cup {x} \subseteq Range(t)
    BY <1>1, <1>2, <2>1 DEF Range
  <2>3. ASSUME NEW i \in DOMAIN t PROVE t[i] \in Range(s) \cup {x}
    <3>1. CASE i = 1
      BY <1>1, <3>1
    <3>2. CASE i # 1
      <4>1. i - 1 \in DOMAIN s /\ t[i] = s[i - 1]
        BY <1>2, <1>3, <1>4, <3>2
      <4> QED
        BY <4>1 DEF Range
    <3> QED
      BY <3>1, <3>2
  <2>4. Range(t) \subseteq Range(s) \cup {x}
    BY <2>3 DEF Range
  <2> QED
    BY <2>2, <2>4
<1> QED
  BY <1>6, <1>7 DEF t

(* A sender takes a packet, or lets go of it.                              *)
LEMMA TakeMine ==
  ASSUME NEW m \in [Senders -> Pkts \cup {NoPkt}], NEW s \in Senders,
         NEW p \in Pkts, m[s] = NoPkt, Distinct(m), p \notin MineOf(m)
  PROVE  LET n == [m EXCEPT ![s] = p]
         IN  Distinct(n) /\ MineOf(n) = MineOf(m) \cup {p}
BY EvqIsNoSender DEF Distinct, MineOf

(* A thread that gives up its packet carries none.                         *)
LEMMA DropMine ==
  ASSUME NEW m \in [Senders -> Pkts \cup {NoPkt}], NEW s \in Senders,
         m[s] # NoPkt, Distinct(m)
  PROVE  LET n == [m EXCEPT ![s] = NoPkt]
         IN  /\ Distinct(n) /\ MineOf(n) = MineOf(m) \ {m[s]}
             /\ m[s] \in MineOf(m)
BY EvqIsNoSender DEF Distinct, MineOf

(* A step that moves no packet leaves each in its place.                   *)
LEMMA PlaceKept ==
  ASSUME PlaceInv, Queue' = Queue, st_fpp' = st_fpp, cache' = cache,
         mine' = mine
  PROVE  PlaceInv'
BY DEF PlaceInv

(* A packet that leaves the get list goes to the pool or to the cache.     *)
LEMMA FreeHeadPlace ==
  ASSUME Lists, PlaceInv, std_get # << >>, FreeHead, std_put' = std_put,
         mine' = mine
  PROVE  PlaceInv'
<1> DEFINE h == Head(std_get)
<1>1. /\ h \in Pkts /\ std_get' = Tail(std_get)
      /\ \/ st_fpp' = <<h>> \o st_fpp /\ cache' = cache
         \/ st_fpp' = st_fpp /\ cache' = cache \cup {h}
  BY FreeHeadKeeps
<1>2. /\ Queue \in Seq(Pkts) /\ Queue # << >> /\ Head(Queue) = h
      /\ Tail(std_get) \o Reverse(std_put) = Tail(Queue)
  BY QueueHead
<1> HIDE DEF h
<1>3. Queue' = Tail(Queue)
  BY <1>1, <1>2 DEF Queue
<1>4. /\ Inj(Queue') /\ Range(Queue') = Range(Queue) \ {h}
      /\ h \in Range(Queue)
  <2>1. Inj(Queue)
    BY DEF PlaceInv
  <2> QED
    BY <1>2, <1>3, <2>1, TailInj
<1>5. CASE st_fpp' = <<h>> \o st_fpp /\ cache' = cache
  <2>1. Inj(st_fpp') /\ Range(st_fpp') = Range(st_fpp) \cup {h}
    <3>1. st_fpp \in Seq(Pkts) /\ Inj(st_fpp) /\ h \notin Range(st_fpp)
      BY <1>4 DEF Lists, PlaceInv, Parts
    <3> QED
      BY <1>1, <1>5, <3>1, PushInj
  <2> QED
    BY <1>4, <1>5, <2>1 DEF PlaceInv, Parts
<1>6. CASE st_fpp' = st_fpp /\ cache' = cache \cup {h}
  BY <1>4, <1>6 DEF PlaceInv, Parts
<1> QED
  BY <1>1, <1>5, <1>6

(* A flush destroys the packets of the get list after a swizzle.           *)
LEMMA FlushQueue ==
  ASSUME Lists, std_put' = PutAfter, std_get' = << >>
  PROVE  /\ Queue' \in Seq(Pkts)
         /\ \E k \in Nat : /\ Len(Queue) = k + Len(Queue')
                           /\ \A i \in 1..Len(Queue') : Queue'[i] = Queue[i + k]
         /\ Inj(Queue) => /\ Inj(Queue')
                          /\ Range(Queue') = Range(Queue) \ Range(Swizzled)
                          /\ Range(Swizzled) \subseteq Range(Queue)
<1>1. Swizzled \in Seq(Pkts) /\ PutAfter \in Seq(Pkts)
  BY SwizzleQueue
<1>2. /\ Swizzled \o Reverse(PutAfter) = Queue
      /\ Queue \in Seq(Pkts) /\ Queue' = << >> \o Reverse(PutAfter)
  BY SwizzleQueue DEF Queue
<1>3. /\ Queue' \in Seq(Pkts) /\ Range(Queue') = Range(PutAfter)
      /\ Len(Queue) = Len(Swizzled) + Len(Queue') /\ Len(Swizzled) \in Nat
      /\ \A i \in 1..Len(Queue') : Queue'[i] = Queue[i + Len(Swizzled)]
  BY <1>1, <1>2, PutAlone
<1>4. ASSUME Inj(Queue)
      PROVE  /\ Inj(Queue') /\ Range(Swizzled) \subseteq Range(Queue)
             /\ Range(Queue') = Range(Queue) \ Range(Swizzled)
  <2>1. Inj(Queue')
    BY <1>2, <1>3, <1>4, SuffixInj
  <2>2. Range(Swizzled) \cap Range(PutAfter) = {}
    BY <1>1, <1>2, <1>4, ListsApart
  <2>3. Range(Queue) = Range(Swizzled) \cup Range(PutAfter)
    BY <1>1, <1>2, QueueRange
  <2> QED
    BY <1>3, <2>1, <2>2, <2>3
<1> QED
  BY <1>3, <1>4

(* Every step leaves each packet in one place.                             *)
LEMMA PlaceNext == IInv /\ [Next]_vars => PlaceInv'
<1> SUFFICES ASSUME IInv, [Next]_vars PROVE PlaceInv'
  OBVIOUS
<1>1. Threads /\ Lists /\ LockInv /\ PlaceInv
  BY DEF IInv
<1>2. \A s \in Senders : tpc[s] \in Carrying =>
       mine[s] \in Pkts /\ mine[s] # NoPkt
  BY <1>1, EvqIsNoSender DEF Threads, LockInv
<1>3. ASSUME NEW s \in Senders, PacketAdd(s) PROVE PlaceInv'
  <2>1. Queue' = Queue /\ st_fpp' = st_fpp /\ cache' = cache /\ mine' = mine
    BY <1>3 DEF PacketAdd, Queue, listvars, sendvars
  <2> QED
    BY <1>1, <2>1, PlaceKept
<1>4. ASSUME NEW s \in Senders, TryEnter(s) PROVE PlaceInv'
  <2>1. Queue' = Queue /\ st_fpp' = st_fpp /\ cache' = cache /\ mine' = mine
    BY <1>4 DEF TryEnter, Queue, listvars, sendvars
  <2> QED
    BY <1>1, <2>1, PlaceKept
<1>5. ASSUME NEW s \in Senders, PacketCreate(s) PROVE PlaceInv'
  <2>1. mine[s] = NoPkt
    BY <1>5, <1>1 DEF PacketCreate, LockInv, Carrying
  <2>2. Queue' = Queue
    BY <1>5 DEF PacketCreate, Queue
  <2>3. CASE FromPool(s)
    <3> DEFINE p == Head(st_fpp)
    <3>1. /\ p \in Range(st_fpp) /\ p \in Pkts /\ Inj(st_fpp')
          /\ Range(st_fpp') = Range(st_fpp) \ {p}
      <4>1. st_fpp # << >> /\ st_fpp \in Seq(Pkts) /\ Inj(st_fpp)
        BY <1>1, <2>3 DEF FromPool, Lists, PlaceInv
      <4>2. st_fpp' = Tail(st_fpp)
        BY <1>5, <2>3 DEF PacketCreate
      <4> QED
        BY <4>1, <4>2, TailInj
    <3>2. cache' = cache /\ mine' = [mine EXCEPT ![s] = p]
      BY <1>5, <2>3 DEF PacketCreate, Fill
    <3> HIDE DEF p
    <3>3. Distinct(mine') /\ MineOf(mine') = MineOf(mine) \cup {p}
      <4>1. p \notin MineOf(mine)
        BY <1>1, <3>1 DEF PlaceInv, Parts
      <4> QED
        BY <1>1, <2>1, <3>1, <3>2, <4>1, TakeMine DEF Threads, PlaceInv
    <3> QED
      BY <1>1, <2>2, <3>1, <3>2, <3>3 DEF PlaceInv, Parts
  <2>4. CASE ~FromPool(s)
    <3>1. PICK p \in Allocatable : Fill(s, p) /\ cache' = cache \ {p}
      BY <1>5, <2>4 DEF PacketCreate
    <3>2. /\ p \in cache /\ p \in Pkts /\ st_fpp' = st_fpp
          /\ mine' = [mine EXCEPT ![s] = p]
      BY <1>5, <1>1, <2>4, <3>1, AllocFromCache DEF PacketCreate, Fill, Lists
    <3>3. Distinct(mine') /\ MineOf(mine') = MineOf(mine) \cup {p}
      <4>1. p \notin MineOf(mine)
        BY <1>1, <3>2 DEF PlaceInv, Parts
      <4> QED
        BY <1>1, <2>1, <3>2, <4>1, TakeMine DEF Threads, PlaceInv
    <3> QED
      BY <1>1, <2>2, <3>1, <3>2, <3>3 DEF PlaceInv, Parts
  <2> QED
    BY <2>3, <2>4
<1>6. ASSUME NEW s \in Senders, CreateFail(s) PROVE PlaceInv'
  <2>1. Queue' = Queue /\ st_fpp' = st_fpp /\ cache' = cache /\ mine' = mine
    BY <1>6 DEF CreateFail, Queue, listvars, sendvars
  <2> QED
    BY <1>1, <2>1, PlaceKept
<1>7. ASSUME NEW s \in Senders, AddLocked(s) PROVE PlaceInv'
  <2>1. mine[s] \in Pkts /\ mine[s] # NoPkt
    BY <1>7, <1>2 DEF AddLocked, Carrying
  <2>2. CASE std_count >= GetLimit
    <3>1. /\ Distinct(mine') /\ MineOf(mine') = MineOf(mine) \ {mine[s]}
          /\ mine[s] \in MineOf(mine)
      <4>1. mine' = [mine EXCEPT ![s] = NoPkt]
        BY <1>7 DEF AddLocked
      <4> QED
        BY <1>1, <2>1, <4>1, DropMine DEF Threads, PlaceInv
    <3>2. cache' = cache \cup {mine[s]} /\ st_fpp' = st_fpp /\ Queue' = Queue
      BY <1>7, <2>2 DEF AddLocked, Destroy, Queue
    <3> QED
      BY <1>1, <3>1, <3>2 DEF PlaceInv, Parts
  <2>3. CASE ~(std_count >= GetLimit)
    <3>1. /\ Distinct(mine') /\ MineOf(mine') = MineOf(mine) \ {mine[s]}
          /\ mine[s] \in MineOf(mine)
      <4>1. mine' = [mine EXCEPT ![s] = NoPkt]
        BY <1>7 DEF AddLocked
      <4> QED
        BY <1>1, <2>1, <4>1, DropMine DEF Threads, PlaceInv
    <3>2. Queue' = Append(Queue, mine[s])
      <4>1. std_count < GetLimit
        BY <1>1, <2>3, TxDplAssumption DEF Lists
      <4>2. PutAfter = << >> /\ Swizzled = Queue /\ Queue \in Seq(Pkts)
        BY <1>1, <4>1, SwizzleQueue
      <4>3. std_put' = << >> /\ std_get' = Append(Queue, mine[s])
        BY <1>7, <2>3, <4>2 DEF AddLocked, WithMine
      <4>4. Append(Queue, mine[s]) \in Seq(Pkts)
        BY <2>1, <4>2
      <4>5. Append(Queue, mine[s]) \o Reverse(<< >>) = Append(Queue, mine[s])
        BY <4>4, ReverseNil, ConcatNil
      <4> QED
        BY <4>3, <4>5 DEF Queue
    <3>3. Queue' = Append(Queue, mine[s]) /\ cache' = cache /\ st_fpp' = st_fpp
      BY <1>7, <2>3, <3>2 DEF AddLocked
    <3>4. Inj(Queue') /\ Range(Queue') = Range(Queue) \cup {mine[s]}
      <4>1. /\ Queue \in Seq(Pkts) /\ Inj(Queue)
            /\ mine[s] \notin Range(Queue)
        BY <1>1, <3>1, SwizzleQueue DEF PlaceInv, Parts
      <4> QED
        BY <2>1, <3>3, <4>1, AppendInj
    <3> QED
      BY <1>1, <3>1, <3>3, <3>4 DEF PlaceInv, Parts
  <2> QED
    BY <2>2, <2>3
<1>8. ASSUME NEW s \in Senders, ReadPut(s) PROVE PlaceInv'
  <2>1. Queue' = Queue /\ st_fpp' = st_fpp /\ cache' = cache /\ mine' = mine
    BY <1>8 DEF ReadPut, Queue, listvars, sendvars
  <2> QED
    BY <1>1, <2>1, PlaceKept
<1>9. ASSUME NEW s \in Senders, ReadLen(s) PROVE PlaceInv'
  <2>1. mine[s] \in Pkts /\ mine[s] # NoPkt
    BY <1>9, <1>2 DEF ReadLen, Carrying
  <2>2. CASE mine' = [mine EXCEPT ![s] = NoPkt] /\ Destroy({mine[s]})
    <3>1. /\ Distinct(mine') /\ MineOf(mine') = MineOf(mine) \ {mine[s]}
          /\ mine[s] \in MineOf(mine)
      <4>1. mine' = [mine EXCEPT ![s] = NoPkt]
        BY <2>2
      <4> QED
        BY <1>1, <2>1, <4>1, DropMine DEF Threads, PlaceInv
    <3>2. cache' = cache \cup {mine[s]} /\ st_fpp' = st_fpp /\ Queue' = Queue
      BY <1>9, <2>2 DEF ReadLen, Destroy, Queue
    <3> QED
      BY <1>1, <3>1, <3>2 DEF PlaceInv, Parts
  <2>3. CASE ~(mine' = [mine EXCEPT ![s] = NoPkt] /\ Destroy({mine[s]}))
    <3>1. Queue' = Queue /\ st_fpp' = st_fpp /\ cache' = cache /\ mine' = mine
      BY <1>9, <2>3 DEF ReadLen, Queue
    <3> QED
      BY <1>1, <3>1, PlaceKept
  <2> QED
    BY <2>2, <2>3
<1>10. ASSUME NEW s \in Senders, Cas(s) PROVE PlaceInv'
  <2>1. mine[s] \in Pkts /\ mine[s] # NoPkt
    BY <1>10, <1>2 DEF Cas, Carrying
  <2>2. CASE CasSucceeds(s)
    <3>1. /\ Distinct(mine') /\ MineOf(mine') = MineOf(mine) \ {mine[s]}
          /\ mine[s] \in MineOf(mine)
      <4>1. mine' = [mine EXCEPT ![s] = NoPkt]
        BY <1>10, <2>2 DEF Cas
      <4> QED
        BY <1>1, <2>1, <4>1, DropMine DEF Threads, PlaceInv
    <3>2. Queue' = Append(Queue, mine[s])
      <4>1. std_put' = <<mine[s]>> \o std_put /\ std_get' = std_get
        BY <1>10, <2>2 DEF Cas
      <4>2. std_put \in Seq(Pkts) /\ std_get \in Seq(Pkts)
        BY <1>1 DEF Lists
      <4>3. std_get \o Reverse(<<mine[s]>> \o std_put)
              = Append(std_get \o Reverse(std_put), mine[s])
        BY <2>1, <4>2, PutAppends
      <4> QED
        BY <4>1, <4>3 DEF Queue
    <3>3. Queue' = Append(Queue, mine[s]) /\ cache' = cache /\ st_fpp' = st_fpp
      BY <1>10, <2>2, <3>2 DEF Cas
    <3>4. Inj(Queue') /\ Range(Queue') = Range(Queue) \cup {mine[s]}
      <4>1. /\ Queue \in Seq(Pkts) /\ Inj(Queue)
            /\ mine[s] \notin Range(Queue)
        BY <1>1, <3>1, SwizzleQueue DEF PlaceInv, Parts
      <4> QED
        BY <2>1, <3>3, <4>1, AppendInj
    <3> QED
      BY <1>1, <3>1, <3>3, <3>4 DEF PlaceInv, Parts
  <2>3. CASE ~CasSucceeds(s)
    <3>1. Queue' = Queue /\ st_fpp' = st_fpp /\ cache' = cache /\ mine' = mine
      BY <1>10, <2>3 DEF Cas, Queue
    <3> QED
      BY <1>1, <3>1, PlaceKept
  <2> QED
    BY <2>2, <2>3
<1>11. ASSUME NEW s \in Senders, Retry(s) PROVE PlaceInv'
  <2>1. Queue' = Queue /\ st_fpp' = st_fpp /\ cache' = cache /\ mine' = mine
    BY <1>11 DEF Retry, Queue, listvars, sendvars
  <2> QED
    BY <1>1, <2>1, PlaceKept
<1>12. ASSUME NEW s \in Senders, Enospc(s) PROVE PlaceInv'
  <2>1. Queue' = Queue /\ st_fpp' = st_fpp /\ cache' = cache /\ mine' = mine
    BY <1>12 DEF Enospc, Queue, listvars, sendvars
  <2> QED
    BY <1>1, <2>1, PlaceKept
<1>13. ASSUME NEW a \in Agents, Service(a) PROVE PlaceInv'
  <2>1. Queue' = Queue
    BY <1>13, <1>1, SwizzleQueue DEF Service, Queue
  <2>2. st_fpp' = st_fpp /\ cache' = cache /\ mine' = mine
    BY <1>13 DEF Service, sendvars
  <2> QED
    BY <1>1, <2>1, <2>2, PlaceKept
<1>14. ASSUME NEW a \in Agents, DrainPost(a) PROVE PlaceInv'
  <2>1. /\ std_get # << >> /\ FreeHead /\ std_put' = std_put
        /\ mine' = mine
    BY <1>14 DEF DrainPost, sendvars
  <2> QED
    BY <1>1, <2>1, FreeHeadPlace
<1>15. ASSUME NEW a \in Agents, DrainReject(a) PROVE PlaceInv'
  <2>1. /\ std_get # << >> /\ FreeHead /\ std_put' = std_put
        /\ mine' = mine
    BY <1>15 DEF DrainReject, sendvars
  <2> QED
    BY <1>1, <2>1, FreeHeadPlace
<1>16. ASSUME NEW a \in Agents, DrainEnd(a) PROVE PlaceInv'
  <2>1. Queue' = Queue /\ st_fpp' = st_fpp /\ cache' = cache /\ mine' = mine
    BY <1>16 DEF DrainEnd, Queue, listvars, sendvars
  <2> QED
    BY <1>1, <2>1, PlaceKept
<1>17. ASSUME NEW a \in Agents, ServiceUnlock(a) PROVE PlaceInv'
  <2>1. Queue' = Queue /\ st_fpp' = st_fpp /\ cache' = cache /\ mine' = mine
    BY <1>17 DEF ServiceUnlock, Queue, listvars, sendvars
  <2> QED
    BY <1>1, <2>1, PlaceKept
<1>18. ASSUME NEW a \in Agents, ServiceCheck(a) PROVE PlaceInv'
  <2>1. Queue' = Queue /\ st_fpp' = st_fpp /\ cache' = cache /\ mine' = mine
    BY <1>18 DEF ServiceCheck, Queue, listvars, sendvars
  <2> QED
    BY <1>1, <2>1, PlaceKept
<1>19. ASSUME NEW a \in Agents, ServiceAgain(a) PROVE PlaceInv'
  <2>1. Queue' = Queue /\ st_fpp' = st_fpp /\ cache' = cache /\ mine' = mine
    BY <1>19 DEF ServiceAgain, Queue, listvars, sendvars
  <2> QED
    BY <1>1, <2>1, PlaceKept
<1>20. CASE HwComplete
  <2>1. Queue' = Queue /\ st_fpp' = st_fpp /\ cache' = cache /\ mine' = mine
    BY <1>20 DEF HwComplete, Queue, listvars, sendvars
  <2> QED
    BY <1>1, <2>1, PlaceKept
<1>21. CASE EvTx
  <2>1. Queue' = Queue /\ st_fpp' = st_fpp /\ cache' = cache /\ mine' = mine
    BY <1>21 DEF EvTx, Queue, listvars, sendvars
  <2> QED
    BY <1>1, <2>1, PlaceKept
<1>22. CASE QComplete
  <2>1. Queue' = Queue /\ st_fpp' = st_fpp /\ cache' = cache /\ mine' = mine
    BY <1>22 DEF QComplete, Queue, listvars, sendvars
  <2> QED
    BY <1>1, <2>1, PlaceKept
<1>23. CASE Update
  <2>1. Queue' = Queue /\ st_fpp' = st_fpp /\ cache' = cache /\ mine' = mine
    BY <1>23 DEF Update, Queue, listvars, sendvars
  <2> QED
    BY <1>1, <2>1, PlaceKept
<1>24. CASE QUnblock
  <2>1. Queue' = Queue /\ st_fpp' = st_fpp /\ cache' = cache /\ mine' = mine
    BY <1>24 DEF QUnblock, Queue, listvars, sendvars
  <2> QED
    BY <1>1, <2>1, PlaceKept
<1>25. CASE Stopping
  <2>1. Queue' = Queue /\ st_fpp' = st_fpp /\ cache' = cache /\ mine' = mine
    BY <1>25 DEF Stopping, Queue, listvars, sendvars
  <2> QED
    BY <1>1, <2>1, PlaceKept
<1>26. CASE QFlush
  <2>1. Queue' = Queue /\ st_fpp' = st_fpp /\ cache' = cache /\ mine' = mine
    BY <1>26 DEF QFlush, Queue, listvars, sendvars
  <2> QED
    BY <1>1, <2>1, PlaceKept
<1>27. CASE QStop
  <2>1. /\ cache' = cache \cup Range(Swizzled) /\ std_put' = PutAfter
        /\ std_get' = << >> /\ st_fpp' = st_fpp /\ mine' = mine
    BY <1>27 DEF QStop, FlushLocked, Destroy
  <2>2. /\ Inj(Queue') /\ Range(Queue') = Range(Queue) \ Range(Swizzled)
        /\ Range(Swizzled) \subseteq Range(Queue)
    <3>1. Inj(Queue)
      BY <1>1 DEF PlaceInv
    <3> QED
      BY <1>1, <2>1, <3>1, FlushQueue
  <2> QED
    BY <1>1, <2>1, <2>2 DEF PlaceInv, Parts
<1>28. CASE QStart
  <2>1. Queue' = Queue /\ st_fpp' = st_fpp /\ cache' = cache /\ mine' = mine
    BY <1>28 DEF QStart, Queue, listvars, sendvars
  <2> QED
    BY <1>1, <2>1, PlaceKept
<1>29. CASE Started
  <2>1. Queue' = Queue /\ st_fpp' = st_fpp /\ cache' = cache /\ mine' = mine
    BY <1>29 DEF Started, Queue, listvars, sendvars
  <2> QED
    BY <1>1, <2>1, PlaceKept
<1>30. CASE QFini
  <2>1. /\ cache' = cache \cup (Range(Swizzled) \cup Range(st_fpp))
        /\ std_put' = PutAfter
        /\ std_get' = << >> /\ st_fpp' = << >> /\ mine' = mine
    BY <1>30 DEF QFini, Destroy, sendvars
  <2>2. /\ Inj(Queue') /\ Range(Queue') = Range(Queue) \ Range(Swizzled)
        /\ Range(Swizzled) \subseteq Range(Queue)
    <3>1. Inj(Queue)
      BY <1>1 DEF PlaceInv
    <3> QED
      BY <1>1, <2>1, <3>1, FlushQueue
  <2>3. Inj(st_fpp') /\ Range(st_fpp') = {}
    BY <2>1 DEF Inj, Range
  <2> QED
    BY <1>1, <2>1, <2>2, <2>3 DEF PlaceInv, Parts
<1>31. CASE QInit
  <2>1. Queue' = Queue /\ st_fpp' = st_fpp /\ cache' = cache /\ mine' = mine
    BY <1>31 DEF QInit, Queue, listvars, sendvars
  <2> QED
    BY <1>1, <2>1, PlaceKept
<1>32. CASE UNCHANGED vars
  <2>1. Queue' = Queue /\ st_fpp' = st_fpp /\ cache' = cache /\ mine' = mine
    BY <1>32 DEF vars, Queue, listvars, sendvars
  <2> QED
    BY <1>1, <2>1, PlaceKept
<1>33. CASE KstatEnter
  <2>1. Queue' = Queue /\ st_fpp' = st_fpp /\ cache' = cache /\ mine' = mine
    BY <1>33 DEF KstatEnter, Queue, listvars, sendvars
  <2> QED
    BY <1>1, <2>1, PlaceKept
<1>34. CASE KstatExit
  <2>1. Queue' = Queue /\ st_fpp' = st_fpp /\ cache' = cache /\ mine' = mine
    BY <1>34 DEF KstatExit, Queue, listvars, sendvars
  <2> QED
    BY <1>1, <2>1, PlaceKept
<1> QED
  BY <1>3, <1>4, <1>5, <1>6, <1>7, <1>8, <1>9, <1>10, <1>11, <1>12, <1>13,
     <1>14, <1>15, <1>16, <1>17, <1>18, <1>19, <1>20, <1>21, <1>22, <1>23,
     <1>24, <1>25, <1>26, <1>27, <1>28, <1>29, <1>30, <1>31, <1>32, <1>33,
     <1>34 DEF Next,
     Send, ServiceStep, Event, Life

-----------------------------------------------------------------------------
(* The messages of the queue.                                              *)
LEMMA OfferType == Threads => Offer \in [Senders -> Int]
<1> SUFFICES ASSUME Threads, NEW s \in Senders PROVE Accept(s) \in Int
  BY DEF Offer
<1>1. nxt[s] \in Int
  BY DEF Threads
<1> QED
  BY <1>1 DEF Accept

(* What a sender offers next is a number, after the step too.              *)
LEMMA OfferTypeNext == Threads' => Offer' \in [Senders -> Int]
<1> SUFFICES ASSUME Threads', NEW s \in Senders PROVE Accept(s)' \in Int
  BY DEF Offer
<1>1. nxt'[s] \in Int
  BY DEF Threads
<1> QED
  BY <1>1 DEF Accept

(* No message that was accepted is forgotten.                              *)
LEMMA OfferNext == IInv /\ [Next]_vars => \A r \in Senders : Accept(r)' >=
  Accept(r)
<1> SUFFICES ASSUME IInv, [Next]_vars PROVE \A r \in Senders : Accept(r)' >=
      Accept(r)
  OBVIOUS
<1> USE EvqIsNoSender DEF Threads, Accept, Offering, Steps
<1>1. Threads /\ Threads'
  BY ThreadsNext DEF IInv
<1>2. ASSUME NEW s \in Senders, PacketAdd(s)
      PROVE  \A r \in Senders : Accept(r)' >= Accept(r)
  BY <1>1, <1>2 DEF PacketAdd, Goto, listvars, ringvars, sendvars, lifevars
<1>3. ASSUME NEW s \in Senders, TryEnter(s)
      PROVE  \A r \in Senders : Accept(r)' >= Accept(r)
  BY <1>1, <1>3 DEF TryEnter, Goto, listvars, ringvars, sendvars, lifevars
<1>4. ASSUME NEW s \in Senders, PacketCreate(s)
      PROVE  \A r \in Senders : Accept(r)' >= Accept(r)
  BY <1>1, <1>4
     DEF PacketCreate, Goto, listvars, ringvars, sendvars, lifevars, FromPool,
         Fill
<1>5. ASSUME NEW s \in Senders, CreateFail(s)
      PROVE  \A r \in Senders : Accept(r)' >= Accept(r)
  BY <1>1, <1>5
     DEF CreateFail, Goto, listvars, ringvars, sendvars, lifevars, FromPool
<1>6. ASSUME NEW s \in Senders, AddLocked(s)
      PROVE  \A r \in Senders : Accept(r)' >= Accept(r)
  BY <1>1, <1>6
     DEF AddLocked, Goto, listvars, ringvars, sendvars, lifevars, Destroy,
         WithMine
<1>7. ASSUME NEW s \in Senders, ReadPut(s)
      PROVE  \A r \in Senders : Accept(r)' >= Accept(r)
  BY <1>1, <1>7 DEF ReadPut, Goto, listvars, ringvars, sendvars, lifevars
<1>8. ASSUME NEW s \in Senders, ReadLen(s)
      PROVE  \A r \in Senders : Accept(r)' >= Accept(r)
  BY <1>1, <1>8
     DEF ReadLen, Goto, listvars, ringvars, sendvars, lifevars, Destroy
<1>9. ASSUME NEW s \in Senders, Cas(s)
      PROVE  \A r \in Senders : Accept(r)' >= Accept(r)
  BY <1>1, <1>9
     DEF Cas, Goto, listvars, ringvars, sendvars, lifevars, CasSucceeds
<1>10. ASSUME NEW s \in Senders, Retry(s)
      PROVE  \A r \in Senders : Accept(r)' >= Accept(r)
  BY <1>1, <1>10
     DEF Retry, Goto, listvars, ringvars, sendvars, lifevars, Accepted
<1>11. ASSUME NEW s \in Senders, Enospc(s)
      PROVE  \A r \in Senders : Accept(r)' >= Accept(r)
  BY <1>1, <1>11 DEF Enospc, Goto, listvars, ringvars, sendvars, lifevars
<1>12. ASSUME NEW a \in Agents, Service(a)
      PROVE  \A r \in Senders : Accept(r)' >= Accept(r)
  BY <1>1, <1>12 DEF Service, Goto, listvars, ringvars, sendvars, lifevars
<1>13. ASSUME NEW a \in Agents, DrainPost(a)
      PROVE  \A r \in Senders : Accept(r)' >= Accept(r)
  BY <1>1, <1>13
     DEF DrainPost, Goto, listvars, ringvars, sendvars, lifevars, FreeHead,
         PostOk, PostBlocks, Push, Hold, InRing
<1>14. ASSUME NEW a \in Agents, DrainReject(a)
      PROVE  \A r \in Senders : Accept(r)' >= Accept(r)
  BY <1>1, <1>14
     DEF DrainReject, Goto, listvars, ringvars, sendvars, lifevars, FreeHead
<1>15. ASSUME NEW a \in Agents, DrainEnd(a)
      PROVE  \A r \in Senders : Accept(r)' >= Accept(r)
  BY <1>1, <1>15
     DEF DrainEnd, Goto, listvars, ringvars, sendvars, lifevars, Push, Hold
<1>16. ASSUME NEW a \in Agents, ServiceUnlock(a)
      PROVE  \A r \in Senders : Accept(r)' >= Accept(r)
  BY <1>1, <1>16
     DEF ServiceUnlock, Goto, listvars, ringvars, sendvars, lifevars
<1>17. ASSUME NEW a \in Agents, ServiceCheck(a)
      PROVE  \A r \in Senders : Accept(r)' >= Accept(r)
  BY <1>1, <1>17
     DEF ServiceCheck, Goto, listvars, ringvars, sendvars, lifevars,
         PutPending, ServiceDone, Accepted
<1>18. ASSUME NEW a \in Agents, ServiceAgain(a)
      PROVE  \A r \in Senders : Accept(r)' >= Accept(r)
  BY <1>1, <1>18
     DEF ServiceAgain, Goto, listvars, ringvars, sendvars, lifevars,
         ServiceDone, Accepted
<1>19. CASE HwComplete
  BY <1>1, <1>19 DEF HwComplete, sendvars, lifevars, Goto
<1>20. CASE EvTx
  BY <1>1, <1>20 DEF EvTx, sendvars, lifevars, Goto
<1>21. CASE QComplete
  BY <1>1, <1>21 DEF QComplete, sendvars, lifevars, Goto
<1>22. CASE Update
  <2>1. nxt' = nxt /\ \A r \in Senders :
                       tpc'[r] = tpc[r] \/ (tpc[r] = "held" /\ tpc'[r] = "idle")
    BY <1>1, <1>22 DEF Update, Goto, MacTxUpdate, Agents
  <2> QED
    BY <1>1, <2>1
<1>23. CASE QUnblock
  BY <1>1, <1>23
     DEF QUnblock, Goto, listvars, ringvars, sendvars, lifevars, PostOk,
         PostBlocks, InRing
<1>24. CASE Stopping
  BY <1>1, <1>24 DEF Stopping, sendvars, lifevars, Goto
<1>25. CASE QFlush
  BY <1>1, <1>25 DEF QFlush, sendvars, lifevars, Goto
<1>26. CASE QStop
  <2>1. /\ nxt' = nxt
        /\ \A r \in Senders : \/ tpc'[r] = tpc[r]
                              \/ tpc[r] = "held" /\ tpc'[r] = "idle"
    BY <1>26, <1>1 DEF QStop, MacTxUpdate
  <2> QED
    BY <1>1, <2>1
<1>27. CASE QStart
  BY <1>1, <1>27 DEF QStart, sendvars, lifevars, Goto
<1>28. CASE Started
  BY <1>1, <1>28 DEF Started, sendvars, lifevars, Goto
<1>29. CASE QFini
  BY <1>1, <1>29 DEF QFini, sendvars, lifevars, Goto
<1>30. CASE QInit
  BY <1>1, <1>30 DEF QInit, sendvars, lifevars, Goto
<1>31. CASE UNCHANGED vars
  BY <1>1, <1>31, <1>1 DEF vars, sendvars, lifevars
<1>32. CASE KstatEnter
  BY <1>1, <1>32, <1>1 DEF KstatEnter, sendvars, lifevars
<1>33. CASE KstatExit
  BY <1>1, <1>33, <1>1 DEF KstatExit, sendvars, lifevars
<1> HIDE DEF Threads, Accept, Offering, Steps
<1> QED
  BY <1>1, <1>2, <1>3, <1>4, <1>5, <1>6, <1>7, <1>8, <1>9, <1>10, <1>11, <1>12,
     <1>13, <1>14, <1>15, <1>16, <1>17, <1>18, <1>19, <1>20, <1>21, <1>22,
     <1>23, <1>24, <1>25, <1>26, <1>27, <1>28, <1>29, <1>30, <1>31, <1>32,
     <1>33 DEF Next,
     Send, ServiceStep, Event, Life

(* The order of the queue is kept by a step that only lets senders go on.  *)
LEMMA OrderKept ==
  ASSUME NEW q \in Seq(Pkts), NEW t, NEW u, NEW f,
         NEW posted \in [Senders -> Int],
         NEW offer \in [Senders -> Int], NEW more \in [Senders -> Int],
         Ordered(q, t, f, posted, offer),
         \A i \in DOMAIN q : u[q[i]].msg = t[q[i]].msg,
         \A s \in Senders : offer[s] <= more[s]
  PROVE  Ordered(q, u, f, posted, more)
<1>1. ASSUME NEW m, Between(m, posted, offer) PROVE Between(m, posted, more)
  <2>1. m \in Real /\ m.src \in Senders /\ m.num \in Int
    BY <1>1, RealIsMsg DEF Between
  <2>2. /\ posted[m.src] < m.num /\ m.num <= offer[m.src]
        /\ offer[m.src] <= more[m.src]
        /\ offer[m.src] \in Int /\ more[m.src] \in Int
    BY <1>1, <2>1 DEF Between
  <2>3. m.num <= more[m.src]
    BY <2>1, <2>2
  <2> QED
    BY <2>1, <2>2, <2>3 DEF Between
<1>2. ASSUME NEW s \in Senders PROVE posted[s] <= more[s]
  <2>1. /\ posted[s] <= offer[s] /\ offer[s] <= more[s] /\ posted[s] \in Int
        /\ offer[s] \in Int /\ more[s] \in Int
    BY DEF Ordered
  <2> QED
    BY <2>1
<1> QED
  BY <1>1, <1>2 DEF Ordered

(* The rest of the queue.                                                  *)
LEMMA OrderRest ==
  ASSUME NEW q \in Seq(Pkts), NEW r \in Seq(Pkts), NEW k \in Nat,
         Len(q) = k + Len(r), \A i \in 1..Len(r) : r[i] = q[i + k],
         NEW t, NEW f, NEW posted, NEW offer, Ordered(q, t, f, posted, offer)
  PROVE  Ordered(r, t, f, posted, offer)
<1>1. DOMAIN q = 1..Len(q) /\ DOMAIN r = 1..Len(r) /\ Len(r) \in Nat
  OBVIOUS
<1>2. /\ \A i \in DOMAIN r : i + k \in DOMAIN q /\ r[i] = q[i + k]
      /\ \A i, j \in DOMAIN r : i < j => i + k < j + k
  BY <1>1
<1> QED
  BY <1>2 DEF Ordered

(* The fragment list is given up.                                          *)
LEMMA OrderAbort ==
  ASSUME NEW q, NEW t, NEW f, NEW posted, NEW offer,
         Ordered(q, t, f, posted, offer)
  PROVE  Ordered(q, t, NoMsg, posted, offer)
BY DEF Ordered

(* The fragment list is posted.                                            *)
LEMMA OrderPost ==
  ASSUME NEW q \in Seq(Pkts), NEW t, NEW f, f # NoMsg,
         NEW posted \in [Senders -> Int],
         NEW offer \in [Senders -> Int],
         Ordered(q, t, f, posted, offer)
  PROVE  Ordered(q, t, NoMsg, [posted EXCEPT ![f.src] = f.num], offer)
<1> DEFINE now == [posted EXCEPT ![f.src] = f.num]
<1>1. f \in Real /\ f.src \in Senders /\ f.num \in Int /\ f.num <= offer[f.src]
  BY RealIsMsg DEF Ordered, Between
<1>2. now[f.src] = f.num /\ \A s \in Senders : s # f.src => now[s] = posted[s]
  BY <1>1
<1> HIDE DEF now
<1>3. ASSUME NEW i \in DOMAIN q PROVE Between(t[q[i]].msg, now, offer)
  <2>1. /\ Between(t[q[i]].msg, posted, offer)
        /\ Before(f, t[q[i]].msg)
    BY DEF Ordered
  <2>2. t[q[i]].msg \in Real /\ t[q[i]].msg.src \in Senders
    BY <2>1, RealIsMsg DEF Between
  <2> QED
    BY <1>2, <2>1, <2>2 DEF Between, Before
<1>4. \A s \in Senders : now[s] <= offer[s]
  BY <1>1, <1>2 DEF Ordered
<1> QED
  BY <1>3, <1>4 DEF Ordered, now

(* The packet at the head of the queue becomes the fragment list.          *)
LEMMA OrderHead ==
  ASSUME NEW q \in Seq(Pkts), q # << >>, NEW t, NEW posted, NEW offer,
         Ordered(q, t, NoMsg, posted, offer)
  PROVE  Ordered(Tail(q), t, t[Head(q)].msg, posted, offer)
<1> DEFINE r == Tail(q)
           m == t[Head(q)].msg
<1>1. /\ r \in Seq(Pkts) /\ Len(q) = 1 + Len(r) /\ Head(q) = q[1]
      /\ \A i \in 1..Len(r) : r[i] = q[i + 1]
      /\ DOMAIN q = 1..Len(q) /\ DOMAIN r = 1..Len(r) /\ Len(r) \in Nat
  OBVIOUS
<1> HIDE DEF r
<1>2. Ordered(r, t, NoMsg, posted, offer)
  BY <1>1, OrderRest
<1>3. 1 \in DOMAIN q /\ \A i \in DOMAIN r : i + 1 \in DOMAIN q /\ 1 < i + 1
  BY <1>1
<1>4. m = t[q[1]].msg
  BY <1>1
<1> HIDE DEF m
<1>5. Between(m, posted, offer)
  BY <1>3, <1>4 DEF Ordered
<1>6. \A i \in DOMAIN r : Before(m, t[r[i]].msg)
  BY <1>1, <1>3, <1>4 DEF Ordered
<1>7. Ordered(r, t, m, posted, offer)
  BY <1>2, <1>5, <1>6 DEF Ordered
<1> QED
  BY <1>7 DEF r, m

(* A packet that is accepted holds the next message of its sender.         *)
LEMMA OrderAppend ==
  ASSUME NEW q \in Seq(Pkts), NEW p \in Pkts, NEW t, NEW f,
         NEW s \in Senders, NEW posted \in [Senders -> Int],
         NEW offer \in [Senders -> Int], NEW more \in [Senders -> Int],
         Ordered(q, t, f, posted, offer), t[p].msg \in Real,
         t[p].msg.src = s, t[p].msg.num = offer[s] + 1,
         more = [offer EXCEPT ![s] = offer[s] + 1]
  PROVE  Ordered(Append(q, p), t, f, posted, more)
<1> DEFINE r == Append(q, p)
           n == Len(q)
<1>1. /\ n \in Nat /\ DOMAIN q = 1..n /\ DOMAIN r = 1..(n + 1)
      /\ \A i \in 1..n : r[i] = q[i]
      /\ r[n + 1] = p
  OBVIOUS
<1> HIDE DEF r, n
<1>2. Ordered(q, t, f, posted, more)
  <2>1. \A x \in Senders : offer[x] <= more[x]
    OBVIOUS
  <2> QED
    BY <2>1, OrderKept
<1> DEFINE m == t[p].msg
<1>3. /\ m \in Real /\ m.src = s /\ m.num = offer[s] + 1
      /\ more[s] = offer[s] + 1
      /\ offer[s] \in Int /\ posted[s] \in Int /\ posted[s] <= offer[s]
  BY DEF Ordered
<1> HIDE DEF m
<1>4. Between(m, posted, more)
  BY <1>3 DEF Between
<1>5. ASSUME NEW x, Between(x, posted, offer) PROVE Before(x, m)
  <2>1. x \in Real /\ x.num \in Int /\ x.num <= offer[x.src]
    BY <1>5, RealIsMsg DEF Between
  <2> QED
    BY <1>3, <2>1 DEF Before
<1>6. f # NoMsg => Before(f, m)
  BY <1>5 DEF Ordered
<1>7. \A i \in DOMAIN q : Before(t[q[i]].msg, m)
  BY <1>5 DEF Ordered
<1>8. \A i \in DOMAIN r : \/ i \in DOMAIN q /\ r[i] = q[i]
                          \/ i = n + 1 /\ r[i] = p
  BY <1>1
<1>9. \A i, j \in DOMAIN r : i < j => i \in DOMAIN q
  BY <1>1
<1>10. ASSUME NEW i \in DOMAIN r, NEW j \in DOMAIN r, i < j
       PROVE  Before(t[r[i]].msg, t[r[j]].msg)
  <2>1. i \in DOMAIN q /\ r[i] = q[i]
    BY <1>1, <1>9, <1>10
  <2>2. CASE j \in DOMAIN q /\ r[j] = q[j]
    BY <1>2, <1>10, <2>1, <2>2 DEF Ordered
  <2>3. CASE j = n + 1 /\ r[j] = p
    BY <1>7, <2>1, <2>3 DEF m
  <2> QED
    BY <1>8, <2>2, <2>3
<1>11. \A i \in DOMAIN r : /\ Between(t[r[i]].msg, posted, more)
                           /\ f # NoMsg => Before(f, t[r[i]].msg)
  BY <1>2, <1>4, <1>6, <1>8 DEF Ordered, m
<1>12. Ordered(r, t, f, posted, more)
  BY <1>2, <1>10, <1>11 DEF Ordered
<1> QED
  BY <1>12 DEF r

-----------------------------------------------------------------------------
(* The packets in hand are those their senders filled, after the step too. *)
LEMMA MineKept ==
  ASSUME MineInv,
         \A s \in Senders : mine'[s] # NoPkt =>
           /\ mine'[s] = mine[s] /\ nxt'[s] = nxt[s]
           /\ stp'[mine[s]].msg = stp[mine[s]].msg
  PROVE  MineInv'
BY DEF MineInv

(* Every step leaves a sender's message in the packet it carries.          *)
LEMMA MineNext == IInv /\ [Next]_vars => MineInv'
<1> SUFFICES ASSUME IInv, [Next]_vars PROVE MineInv'
  OBVIOUS
<1>1. Threads /\ Lists /\ LockInv /\ PlaceInv /\ MineInv
  BY DEF IInv
<1>2. \A s \in Senders : mine[s] # NoPkt =>
       mine[s] \in Pkts /\ mine[s] \in MineOf(mine)
  BY <1>1 DEF Threads, MineOf
<1>3. \A s \in Senders : tpc[s] \in Carrying =>
       mine[s] \in Pkts /\ mine[s] # NoPkt
  BY <1>1 DEF Threads, LockInv
<1>4. ASSUME NEW s \in Senders, PacketAdd(s) PROVE MineInv'
  <2>1. stp' = stp /\ mine' = mine
    BY <1>4 DEF PacketAdd, listvars, sendvars
  <2>2. \A r \in Senders : mine[r] # NoPkt => nxt'[r] = nxt[r]
    BY <1>4, <1>1 DEF PacketAdd, ServiceDone, Accepted, Goto, Threads, LockInv,
         Carrying
  <2> QED
    BY <1>1, <2>1, <2>2, MineKept
<1>5. ASSUME NEW s \in Senders, TryEnter(s) PROVE MineInv'
  <2>1. stp' = stp /\ mine' = mine
    BY <1>5 DEF TryEnter, listvars, sendvars
  <2>2. \A r \in Senders : mine[r] # NoPkt => nxt'[r] = nxt[r]
    BY <1>5 DEF TryEnter, sendvars
  <2> QED
    BY <1>1, <2>1, <2>2, MineKept
<1>6. ASSUME NEW s \in Senders, PacketCreate(s) PROVE MineInv'
  <2>1. mine[s] = NoPkt /\ nxt' = nxt /\ nxt[s] <= MaxSend
    BY <1>6, <1>1 DEF PacketCreate, LockInv, Carrying
  <2>2. PICK p \in Pkts : Fill(s, p) /\ p \notin MineOf(mine)
    <3>1. CASE FromPool(s)
      <4>1. Fill(s, Head(st_fpp))
        BY <1>6, <3>1 DEF PacketCreate
      <4>2. Head(st_fpp) \in Range(st_fpp) /\ Head(st_fpp) \in Pkts
        <5>1. st_fpp # << >> /\ st_fpp \in Seq(Pkts) /\ Inj(st_fpp)
          BY <1>1, <3>1 DEF FromPool, Lists, PlaceInv
        <5> QED
          BY <5>1, TailInj
      <4> QED
        BY <1>1, <4>1, <4>2 DEF PlaceInv, Parts
    <3>2. CASE ~FromPool(s)
      <4>1. PICK p \in Allocatable : Fill(s, p)
        BY <1>6, <3>2 DEF PacketCreate
      <4>2. p \in cache /\ p \in Pkts
        BY <1>1, AllocFromCache DEF Lists
      <4> QED
        BY <1>1, <4>1, <4>2 DEF PlaceInv, Parts
    <3> QED
      BY <3>1, <3>2
  <2>3. /\ stp'[p].msg = [src |-> s, num |-> nxt[s]]
        /\ \A q \in Pkts \ {p} : stp'[q] = stp[q]
        /\ mine' = [mine EXCEPT ![s] = p]
    BY <1>1, <2>1, <2>2, FillType
  <2>4. /\ mine'[s] = p
        /\ \A r \in Senders : r # s => mine'[r] = mine[r]
    BY <1>1, <2>3 DEF Threads
  <2>5. ASSUME NEW r \in Senders, mine'[r] # NoPkt
        PROVE  stp'[mine'[r]].msg = [src |-> r, num |-> nxt'[r]]
    <3>1. CASE r = s
      BY <2>1, <2>3, <2>4, <3>1
    <3>2. CASE r # s
      <4>1. mine[r] \in Pkts \ {p} /\ mine'[r] = mine[r]
        BY <1>2, <2>2, <2>4, <2>5, <3>2
      <4> QED
        BY <1>1, <2>1, <2>3, <2>5, <4>1 DEF MineInv
    <3> QED
      BY <3>1, <3>2
  <2> QED
    BY <2>5 DEF MineInv
<1>7. ASSUME NEW s \in Senders, CreateFail(s) PROVE MineInv'
  <2>1. stp' = stp /\ mine' = mine
    BY <1>7 DEF CreateFail, listvars, sendvars
  <2>2. \A r \in Senders : mine[r] # NoPkt => nxt'[r] = nxt[r]
    BY <1>7 DEF CreateFail, sendvars
  <2> QED
    BY <1>1, <2>1, <2>2, MineKept
<1>8. ASSUME NEW s \in Senders, AddLocked(s) PROVE MineInv'
  <2>1. nxt' = nxt /\ \A r \in Senders : r # s => mine'[r] = mine[r]
    BY <1>8, <1>1 DEF AddLocked, Threads
  <2>2. mine' = [mine EXCEPT ![s] = NoPkt]
        \/ (mine' = mine /\ \A p \in Pkts : stp'[p].msg = stp[p].msg)
    BY <1>8 DEF AddLocked
  <2>3. ASSUME NEW r \in Senders, r # s, mine[r] # NoPkt
        PROVE  stp'[mine[r]].msg = stp[mine[r]].msg
    <3>1. mine[r] \in Pkts /\ mine[r] # mine[s]
      BY <1>1, <1>2, <2>3 DEF PlaceInv, Distinct
    <3> QED
      BY <1>8, <3>1 DEF AddLocked, Destroy
  <2>4. CASE mine' = [mine EXCEPT ![s] = NoPkt]
    <3>1. mine'[s] = NoPkt
      BY <1>1, <2>4 DEF Threads
    <3> QED
      BY <1>1, <2>1, <2>3, <3>1, MineKept
  <2>5. CASE mine' = mine /\ \A p \in Pkts : stp'[p].msg = stp[p].msg
    BY <1>1, <1>2, <2>1, <2>5, MineKept
  <2> QED
    BY <2>2, <2>4, <2>5
<1>9. ASSUME NEW s \in Senders, ReadPut(s) PROVE MineInv'
  <2>1. stp' = stp /\ mine' = mine
    BY <1>9 DEF ReadPut, listvars, sendvars
  <2>2. \A r \in Senders : mine[r] # NoPkt => nxt'[r] = nxt[r]
    BY <1>9 DEF ReadPut, sendvars
  <2> QED
    BY <1>1, <2>1, <2>2, MineKept
<1>10. ASSUME NEW s \in Senders, ReadLen(s) PROVE MineInv'
  <2>1. nxt' = nxt /\ \A r \in Senders : r # s => mine'[r] = mine[r]
    BY <1>10, <1>1 DEF ReadLen, Threads
  <2>2. mine' = [mine EXCEPT ![s] = NoPkt]
        \/ (mine' = mine /\ \A p \in Pkts : stp'[p].msg = stp[p].msg)
    <3>1. CASE mine' = [mine EXCEPT ![s] = NoPkt]
      BY <3>1
    <3>2. CASE mine' # [mine EXCEPT ![s] = NoPkt]
      <4> DEFINE len == IF old[s] = NoPkt THEN 1 ELSE stp[old[s]].put_len + 1
      <4>1. mine' = mine /\ stp' = [stp EXCEPT ![mine[s]].put_len = len]
        BY <1>10, <3>2 DEF ReadLen
      <4>2. len \in Nat
        <5>1. old[s] \in Pkts \cup {NoPkt}
          BY <1>1 DEF Threads
        <5>2. old[s] # NoPkt => stp[old[s]] \in [msg : Msgs, put_len : Nat]
          BY <1>1, <5>1 DEF Lists
        <5>3. old[s] # NoPkt => stp[old[s]].put_len \in Nat
          BY <5>2
        <5> QED
          BY <5>3
      <4> HIDE DEF len
      <4>3. mine[s] \in Pkts
        BY <1>10, <1>1, <1>3 DEF ReadLen, Carrying
      <4>4. stp \in Structs
        BY <1>1 DEF Lists, Structs
      <4> QED
        BY <4>1, <4>2, <4>3, <4>4, PutLenKeeps
    <3> QED
      BY <3>1, <3>2
  <2>3. ASSUME NEW r \in Senders, r # s, mine[r] # NoPkt
        PROVE  stp'[mine[r]].msg = stp[mine[r]].msg
    <3>1. mine[r] \in Pkts /\ mine[r] # mine[s]
      BY <1>1, <1>2, <2>3 DEF PlaceInv, Distinct
    <3> QED
      <4>1. CASE stp' = [p \in Pkts |-> IF p \in {mine[s]} THEN Empty
                                            ELSE stp[p]]
        BY <3>1, <4>1
      <4>2. CASE ~(stp' = [p \in Pkts |-> IF p \in {mine[s]} THEN Empty
                                            ELSE stp[p]])
        <5>1. mine' = mine /\ mine[s] # NoPkt
          BY <1>10, <1>3, <4>2 DEF ReadLen, Destroy, Carrying
        <5>2. mine'[s] # NoPkt
          BY <5>1
        <5>3. mine' # [mine EXCEPT ![s] = NoPkt]
          BY <1>1, <5>2 DEF Threads
        <5> QED
          BY <2>2, <3>1, <5>3
      <4> QED
        BY <4>1, <4>2
  <2>4. CASE mine' = [mine EXCEPT ![s] = NoPkt]
    <3>1. mine'[s] = NoPkt
      BY <1>1, <2>4 DEF Threads
    <3> QED
      BY <1>1, <2>1, <2>3, <3>1, MineKept
  <2>5. CASE mine' = mine /\ \A p \in Pkts : stp'[p].msg = stp[p].msg
    BY <1>1, <1>2, <2>1, <2>5, MineKept
  <2> QED
    BY <2>2, <2>4, <2>5
<1>11. ASSUME NEW s \in Senders, Cas(s) PROVE MineInv'
  <2>1. nxt' = nxt /\ \A r \in Senders : r # s => mine'[r] = mine[r]
    BY <1>11, <1>1 DEF Cas, Threads
  <2>2. mine' = [mine EXCEPT ![s] = NoPkt]
        \/ (mine' = mine /\ \A p \in Pkts : stp'[p].msg = stp[p].msg)
    BY <1>11 DEF Cas
  <2>3. ASSUME NEW r \in Senders, r # s, mine[r] # NoPkt
        PROVE  stp'[mine[r]].msg = stp[mine[r]].msg
    <3>1. mine[r] \in Pkts /\ mine[r] # mine[s]
      BY <1>1, <1>2, <2>3 DEF PlaceInv, Distinct
    <3> QED
      BY <1>11, <3>1 DEF Cas
  <2>4. CASE mine' = [mine EXCEPT ![s] = NoPkt]
    <3>1. mine'[s] = NoPkt
      BY <1>1, <2>4 DEF Threads
    <3> QED
      BY <1>1, <2>1, <2>3, <3>1, MineKept
  <2>5. CASE mine' = mine /\ \A p \in Pkts : stp'[p].msg = stp[p].msg
    BY <1>1, <1>2, <2>1, <2>5, MineKept
  <2> QED
    BY <2>2, <2>4, <2>5
<1>12. ASSUME NEW s \in Senders, Retry(s) PROVE MineInv'
  <2>1. stp' = stp /\ mine' = mine
    BY <1>12 DEF Retry, listvars, sendvars
  <2>2. \A r \in Senders : mine[r] # NoPkt => nxt'[r] = nxt[r]
    BY <1>12, <1>1 DEF Retry, ServiceDone, Accepted, Goto, Threads, LockInv,
         Carrying
  <2> QED
    BY <1>1, <2>1, <2>2, MineKept
<1>13. ASSUME NEW s \in Senders, Enospc(s) PROVE MineInv'
  <2>1. stp' = stp /\ mine' = mine
    BY <1>13 DEF Enospc, listvars, sendvars
  <2>2. \A r \in Senders : mine[r] # NoPkt => nxt'[r] = nxt[r]
    BY <1>13 DEF Enospc, sendvars
  <2> QED
    BY <1>1, <2>1, <2>2, MineKept
<1>14. ASSUME NEW a \in Agents, Service(a) PROVE MineInv'
  <2>1. stp' = stp /\ mine' = mine
    BY <1>14 DEF Service, listvars, sendvars
  <2>2. \A r \in Senders : mine[r] # NoPkt => nxt'[r] = nxt[r]
    BY <1>14 DEF Service, sendvars
  <2> QED
    BY <1>1, <2>1, <2>2, MineKept
<1>15. ASSUME NEW a \in Agents, DrainPost(a) PROVE MineInv'
  <2>1. /\ std_get # << >> /\ FreeHead /\ mine' = mine /\ nxt' = nxt
    BY <1>15 DEF DrainPost, sendvars
  <2>2. \A p \in Pkts \ {Head(std_get)} : stp'[p] = stp[p]
    BY <1>1, <2>1, FreeHeadKeeps
  <2>3. Head(std_get) \notin MineOf(mine)
    <3>1. Head(std_get) \in Range(Queue)
      BY <1>1, <2>1, QueueHead DEF Range
    <3> QED
      BY <1>1, <3>1 DEF PlaceInv, Parts
  <2> QED
    BY <1>1, <1>2, <2>1, <2>2, <2>3, MineKept
<1>16. ASSUME NEW a \in Agents, DrainReject(a) PROVE MineInv'
  <2>1. /\ std_get # << >> /\ FreeHead /\ mine' = mine /\ nxt' = nxt
    BY <1>16 DEF DrainReject, sendvars
  <2>2. \A p \in Pkts \ {Head(std_get)} : stp'[p] = stp[p]
    BY <1>1, <2>1, FreeHeadKeeps
  <2>3. Head(std_get) \notin MineOf(mine)
    <3>1. Head(std_get) \in Range(Queue)
      BY <1>1, <2>1, QueueHead DEF Range
    <3> QED
      BY <1>1, <3>1 DEF PlaceInv, Parts
  <2> QED
    BY <1>1, <1>2, <2>1, <2>2, <2>3, MineKept
<1>17. ASSUME NEW a \in Agents, DrainEnd(a) PROVE MineInv'
  <2>1. stp' = stp /\ mine' = mine
    BY <1>17 DEF DrainEnd, listvars, sendvars
  <2>2. \A r \in Senders : mine[r] # NoPkt => nxt'[r] = nxt[r]
    BY <1>17 DEF DrainEnd, sendvars
  <2> QED
    BY <1>1, <2>1, <2>2, MineKept
<1>18. ASSUME NEW a \in Agents, ServiceUnlock(a) PROVE MineInv'
  <2>1. stp' = stp /\ mine' = mine
    BY <1>18 DEF ServiceUnlock, listvars, sendvars
  <2>2. \A r \in Senders : mine[r] # NoPkt => nxt'[r] = nxt[r]
    BY <1>18 DEF ServiceUnlock, sendvars
  <2> QED
    BY <1>1, <2>1, <2>2, MineKept
<1>19. ASSUME NEW a \in Agents, ServiceCheck(a) PROVE MineInv'
  <2>1. stp' = stp /\ mine' = mine
    BY <1>19 DEF ServiceCheck, listvars, sendvars
  <2>2. \A r \in Senders : mine[r] # NoPkt => nxt'[r] = nxt[r]
    BY <1>19, <1>1
       DEF ServiceCheck, ServiceDone, Accepted, Goto, Threads, LockInv,
         Carrying
  <2> QED
    BY <1>1, <2>1, <2>2, MineKept
<1>20. ASSUME NEW a \in Agents, ServiceAgain(a) PROVE MineInv'
  <2>1. stp' = stp /\ mine' = mine
    BY <1>20 DEF ServiceAgain, listvars, sendvars
  <2>2. \A r \in Senders : mine[r] # NoPkt => nxt'[r] = nxt[r]
    BY <1>20, <1>1
       DEF ServiceAgain, ServiceDone, Accepted, Goto, Threads, LockInv,
         Carrying
  <2> QED
    BY <1>1, <2>1, <2>2, MineKept
<1>21. CASE HwComplete
  <2>1. stp' = stp /\ mine' = mine
    BY <1>21 DEF HwComplete, listvars, sendvars
  <2>2. \A r \in Senders : mine[r] # NoPkt => nxt'[r] = nxt[r]
    BY <1>21 DEF HwComplete, sendvars
  <2> QED
    BY <1>1, <2>1, <2>2, MineKept
<1>22. CASE EvTx
  <2>1. stp' = stp /\ mine' = mine
    BY <1>22 DEF EvTx, listvars, sendvars
  <2>2. \A r \in Senders : mine[r] # NoPkt => nxt'[r] = nxt[r]
    BY <1>22 DEF EvTx, sendvars
  <2> QED
    BY <1>1, <2>1, <2>2, MineKept
<1>23. CASE QComplete
  <2>1. stp' = stp /\ mine' = mine
    BY <1>23 DEF QComplete, listvars, sendvars
  <2>2. \A r \in Senders : mine[r] # NoPkt => nxt'[r] = nxt[r]
    BY <1>23 DEF QComplete, sendvars
  <2> QED
    BY <1>1, <2>1, <2>2, MineKept
<1>24. CASE Update
  <2>1. stp' = stp /\ mine' = mine
    BY <1>24 DEF Update, listvars, sendvars
  <2>2. \A r \in Senders : mine[r] # NoPkt => nxt'[r] = nxt[r]
    BY <1>24 DEF Update, sendvars
  <2> QED
    BY <1>1, <2>1, <2>2, MineKept
<1>25. CASE QUnblock
  <2>1. stp' = stp /\ mine' = mine
    BY <1>25 DEF QUnblock, listvars, sendvars
  <2>2. \A r \in Senders : mine[r] # NoPkt => nxt'[r] = nxt[r]
    BY <1>25 DEF QUnblock, sendvars
  <2> QED
    BY <1>1, <2>1, <2>2, MineKept
<1>26. CASE Stopping
  <2>1. stp' = stp /\ mine' = mine
    BY <1>26 DEF Stopping, listvars, sendvars
  <2>2. \A r \in Senders : mine[r] # NoPkt => nxt'[r] = nxt[r]
    BY <1>26 DEF Stopping, sendvars
  <2> QED
    BY <1>1, <2>1, <2>2, MineKept
<1>27. CASE QFlush
  <2>1. stp' = stp /\ mine' = mine
    BY <1>27 DEF QFlush, listvars, sendvars
  <2>2. \A r \in Senders : mine[r] # NoPkt => nxt'[r] = nxt[r]
    BY <1>27 DEF QFlush, sendvars
  <2> QED
    BY <1>1, <2>1, <2>2, MineKept
<1>28. CASE QStop
  <2>1. /\ mine' = mine /\ nxt' = nxt
        /\ \A p \in Pkts \ Range(Swizzled) :
             stp'[p] = stp[p]
    BY <1>28 DEF QStop, FlushLocked, Destroy, sendvars
  <2>2. Range(Swizzled) \subseteq Range(Queue)
    <3>1. Inj(Queue) /\ std_put' = PutAfter /\ std_get' = << >>
      BY <1>28, <1>1 DEF QStop, FlushLocked, PlaceInv
    <3> QED
      BY <1>1, <3>1, FlushQueue
  <2>3. MineOf(mine) \cap Range(Swizzled) = {}
    BY <1>1, <2>2 DEF PlaceInv, Parts
  <2> QED
    BY <1>1, <1>2, <2>1, <2>3, MineKept
<1>29. CASE QStart
  <2>1. stp' = stp /\ mine' = mine
    BY <1>29 DEF QStart, listvars, sendvars
  <2>2. \A r \in Senders : mine[r] # NoPkt => nxt'[r] = nxt[r]
    BY <1>29 DEF QStart, sendvars
  <2> QED
    BY <1>1, <2>1, <2>2, MineKept
<1>30. CASE Started
  <2>1. stp' = stp /\ mine' = mine
    BY <1>30 DEF Started, listvars, sendvars
  <2>2. \A r \in Senders : mine[r] # NoPkt => nxt'[r] = nxt[r]
    BY <1>30 DEF Started, sendvars
  <2> QED
    BY <1>1, <2>1, <2>2, MineKept
<1>31. CASE QFini
  <2>1. /\ mine' = mine /\ nxt' = nxt
        /\ \A p \in Pkts \ (Range(Swizzled) \cup Range(st_fpp)) :
             stp'[p] = stp[p]
    BY <1>31 DEF QFini, FlushLocked, Destroy, sendvars
  <2>2. Range(Swizzled) \subseteq Range(Queue)
    <3>1. Inj(Queue) /\ std_put' = PutAfter /\ std_get' = << >>
      BY <1>31, <1>1 DEF QFini, FlushLocked, PlaceInv
    <3> QED
      BY <1>1, <3>1, FlushQueue
  <2>3. MineOf(mine) \cap (Range(Swizzled) \cup Range(st_fpp)) = {}
    BY <1>1, <2>2 DEF PlaceInv, Parts
  <2> QED
    BY <1>1, <1>2, <2>1, <2>3, MineKept
<1>32. CASE QInit
  <2>1. stp' = stp /\ mine' = mine
    BY <1>32 DEF QInit, listvars, sendvars
  <2>2. \A r \in Senders : mine[r] # NoPkt => nxt'[r] = nxt[r]
    BY <1>32 DEF QInit, sendvars
  <2> QED
    BY <1>1, <2>1, <2>2, MineKept
<1>33. CASE UNCHANGED vars
  <2>1. stp' = stp /\ mine' = mine
    BY <1>33 DEF vars, listvars, sendvars
  <2>2. \A r \in Senders : mine[r] # NoPkt => nxt'[r] = nxt[r]
    BY <1>33 DEF vars, sendvars
  <2> QED
    BY <1>1, <2>1, <2>2, MineKept
<1>34. CASE KstatEnter
  <2>1. stp' = stp /\ mine' = mine
    BY <1>34 DEF KstatEnter, listvars, sendvars
  <2>2. \A r \in Senders : mine[r] # NoPkt => nxt'[r] = nxt[r]
    BY <1>34 DEF KstatEnter, sendvars
  <2> QED
    BY <1>1, <2>1, <2>2, MineKept
<1>35. CASE KstatExit
  <2>1. stp' = stp /\ mine' = mine
    BY <1>35 DEF KstatExit, listvars, sendvars
  <2>2. \A r \in Senders : mine[r] # NoPkt => nxt'[r] = nxt[r]
    BY <1>35 DEF KstatExit, sendvars
  <2> QED
    BY <1>1, <2>1, <2>2, MineKept
<1> QED
  BY <1>4, <1>5, <1>6, <1>7, <1>8, <1>9, <1>10, <1>11, <1>12, <1>13, <1>14,
     <1>15, <1>16, <1>17, <1>18, <1>19, <1>20, <1>21, <1>22, <1>23, <1>24,
     <1>25, <1>26, <1>27, <1>28, <1>29, <1>30, <1>31, <1>32, <1>33, <1>34,
     <1>35 DEF Next,
     Send, ServiceStep, Event, Life

(* The facts about the order that every step starts from.                  *)
LEMMA OrderTypes ==
  ASSUME IInv, [Next]_vars
  PROVE  /\ Queue \in Seq(Pkts) /\ sent \in [Senders -> Int]
         /\ Ordered(Queue, stp, frag, sent, Offer)
         /\ Offer \in [Senders -> Int] /\ Offer' \in [Senders -> Int]
<1>1. Threads /\ Threads'
  BY ThreadsNext DEF IInv
<1>2. Offer \in [Senders -> Int] /\ Offer' \in [Senders -> Int]
  BY <1>1, OfferType, OfferTypeNext
<1>3. Queue \in Seq(Pkts)
  BY SwizzleQueue DEF IInv
<1>4. sent \in [Senders -> Int]
  BY <1>1, RealIsMsg DEF Threads
<1>5. Ordered(Queue, stp, frag, sent, Offer)
  BY DEF IInv, OrderInv
<1> QED
  BY <1>2, <1>3, <1>4, <1>5

(* The queue, the fragment list and the posted messages stay the same.     *)
LEMMA OrderStays ==
  ASSUME IInv, [Next]_vars, Queue' = Queue, frag' = frag, sent' = sent,
         \A p \in Range(Queue) : stp'[p].msg = stp[p].msg
  PROVE  OrderInv'
<1>1. /\ Queue \in Seq(Pkts) /\ sent \in [Senders -> Int]
      /\ Ordered(Queue, stp, frag, sent, Offer)
  BY OrderTypes
<1>2. Offer \in [Senders -> Int] /\ Offer' \in [Senders -> Int]
  BY OrderTypes
<1>3. \A s \in Senders : Offer[s] <= Offer'[s]
  BY <1>2, OfferNext DEF Offer
<1>4. \A i \in DOMAIN Queue : stp'[Queue[i]].msg = stp[Queue[i]].msg
  BY DEF Range
<1>5. Ordered(Queue, stp', frag, sent, Offer')
  BY <1>1, <1>2, <1>3, <1>4, OrderKept
<1> QED
  BY <1>5 DEF OrderInv

(* A sender's packet is accepted.                                          *)
LEMMA OrderAccepts ==
  ASSUME IInv, NEW s \in Senders, mine[s] # NoPkt,
         Queue' = Append(Queue, mine[s]), stp' = stp, frag' = frag,
         sent' = sent, nxt' = nxt, tpc[s] \notin Offering,
         \E x \in Offering : tpc' = [tpc EXCEPT ![s] = x]
  PROVE  OrderInv'
<1>1. /\ Queue \in Seq(Pkts) /\ sent \in [Senders -> Int] /\ mine[s] \in Pkts
      /\ Ordered(Queue, stp, frag, sent, Offer)
  BY RealIsMsg, SwizzleQueue DEF IInv, Threads, OrderInv
<1>2. Offer \in [Senders -> Int] /\ nxt[s] \in 1..MaxSend
  <2>1. Offer \in [Senders -> Int]
    BY OfferType DEF IInv
  <2>2. nxt[s] \in 1..(MaxSend + 1) /\ nxt[s] <= MaxSend
    BY DEF IInv, Threads, LockInv, Carrying
  <2> QED
    BY <2>1, <2>2, RealIsMsg
<1>3. Offer[s] = nxt[s] - 1 /\ nxt[s] = Offer[s] + 1
  <2>1. Offer[s] = nxt[s] - 1
    BY DEF Offer, Accept
  <2> QED
    BY <1>2, <2>1
<1>4. Offer' = [Offer EXCEPT ![s] = Offer[s] + 1]
  <2>1. /\ tpc'[s] \in Offering
        /\ \A r \in Senders : r # s => tpc'[r] = tpc[r]
    BY EvqIsNoSender DEF IInv, Threads
  <2>2. \A r \in Senders :
          Accept(r)' = IF r = s THEN nxt[s] ELSE Accept(r)
    BY <2>1 DEF Accept
  <2>3. Offer' = [r \in Senders |-> IF r = s THEN nxt[s] ELSE Accept(r)]
    BY <2>2 DEF Offer
  <2>4. Offer = [r \in Senders |-> Accept(r)]
    BY DEF Offer
  <2> QED
    BY <1>3, <2>3, <2>4
<1>5. Offer' \in [Senders -> Int]
  BY <1>2, <1>4
<1>6. /\ stp[mine[s]].msg \in Real /\ stp[mine[s]].msg.src = s
      /\ stp[mine[s]].msg.num = Offer[s] + 1
  <2>1. stp[mine[s]].msg = [src |-> s, num |-> nxt[s]]
    BY DEF IInv, MineInv
  <2> QED
    BY <1>2, <1>3, <2>1 DEF Real
<1>7. Ordered(Append(Queue, mine[s]), stp, frag, sent, Offer')
  BY <1>1, <1>2, <1>4, <1>5, <1>6, OrderAppend
<1> QED
  BY <1>7 DEF OrderInv

(* The drain takes the head of the queue: it is posted, becomes the        *)
(* fragment list, or is dropped.                                           *)
LEMMA OrderDrains ==
  ASSUME IInv, [Next]_vars, std_get # << >>, FreeHead, std_put' = std_put,
         \/ frag' = frag /\ sent' = sent
         \/ frag = NoMsg /\ PostOk(stp[Head(std_get)].msg)
         \/ frag = NoMsg /\ frag' = stp[Head(std_get)].msg /\ sent' = sent
  PROVE  OrderInv'
<1> DEFINE h == Head(std_get)
           m == stp[h].msg
           r == Tail(Queue)
<1>1. /\ Queue \in Seq(Pkts) /\ sent \in [Senders -> Int]
      /\ Ordered(Queue, stp, frag, sent, Offer)
      /\ Offer \in [Senders -> Int] /\ Offer' \in [Senders -> Int]
  BY OrderTypes
<1>2. \A s \in Senders : Offer[s] <= Offer'[s]
  BY <1>1, OfferNext DEF Offer
<1>3. /\ Queue # << >> /\ Head(Queue) = h /\ Queue' = r /\ m \in Real
  BY QueueHead, FreeHeadKeeps, RealMessages DEF IInv, Queue
<1>4. \A p \in Range(Queue) \ {h} : stp'[p] = stp[p]
  <2>1. Range(Queue) \subseteq Pkts
    BY <1>1, RangeType
  <2> QED
    BY <2>1, FreeHeadKeeps DEF IInv
<1> HIDE DEF h
<1>5. /\ r \in Seq(Pkts) /\ Len(Queue) = 1 + Len(r)
      /\ \A i \in 1..Len(r) : r[i] = Queue[i + 1]
      /\ DOMAIN r = 1..Len(r)
  BY <1>1, <1>3
<1>6. Range(r) = Range(Queue) \ {h}
  <2>1. Inj(Queue)
    BY DEF IInv, PlaceInv
  <2> QED
    BY <1>1, <1>3, <2>1, TailInj
<1>7. \A i \in DOMAIN r : stp'[r[i]].msg = stp[r[i]].msg
  <2>1. \A i \in DOMAIN r : r[i] \in Range(r)
    BY DEF Range
  <2> QED
    BY <1>4, <1>6, <2>1
<1> HIDE DEF r
<1>8. Ordered(r, stp, frag', sent', Offer)
  <2>1. CASE frag' = frag /\ sent' = sent
    BY <1>1, <1>5, <2>1, OrderRest
  <2>2. CASE frag = NoMsg /\ PostOk(stp[Head(std_get)].msg)
    <3>1. frag' = NoMsg /\ sent' = [sent EXCEPT ![m.src] = m.num]
      BY <2>2 DEF PostOk, h
    <3>2. Ordered(r, stp, m, sent, Offer)
      BY <1>1, <1>3, <2>2, OrderHead DEF r
    <3>3. m # NoMsg
      BY <1>3, RealIsMsg
    <3> HIDE DEF m
    <3> QED
      BY <1>1, <1>5, <3>1, <3>2, <3>3, OrderPost
  <2>3. CASE frag = NoMsg /\ frag' = stp[Head(std_get)].msg /\ sent' = sent
    <3>1. Ordered(r, stp, m, sent, Offer)
      BY <1>1, <1>3, <2>3, OrderHead DEF r
    <3> QED
      BY <2>3, <3>1 DEF h
  <2> QED
    BY <2>1, <2>2, <2>3
<1>9. sent' \in [Senders -> Int]
  <2>1. Threads'
    BY ThreadsNext
  <2> QED
    BY <2>1, RealIsMsg DEF Threads
<1>10. Ordered(r, stp', frag', sent', Offer')
  BY <1>1, <1>2, <1>5, <1>7, <1>8, <1>9, OrderKept
<1> QED
  BY <1>3, <1>10 DEF OrderInv

(* A flush leaves the rest of the queue, and no fragment list or the same. *)
LEMMA OrderFlushes ==
  ASSUME IInv, [Next]_vars, std_put' = PutAfter, std_get' = << >>,
         sent' = sent, frag' = frag \/ frag' = NoMsg,
         \A p \in Range(Queue) \ Range(Swizzled) : stp'[p] = stp[p]
  PROVE  OrderInv'
<1> DEFINE r == Queue'
<1>1. /\ Queue \in Seq(Pkts) /\ sent \in [Senders -> Int]
      /\ Ordered(Queue, stp, frag, sent, Offer)
      /\ Offer \in [Senders -> Int] /\ Offer' \in [Senders -> Int]
  BY OrderTypes
<1>2. \A s \in Senders : Offer[s] <= Offer'[s]
  BY <1>1, OfferNext DEF Offer
<1>3. PICK k \in Nat : /\ Len(Queue) = k + Len(Queue')
                       /\ \A i \in 1..Len(Queue') : Queue'[i] = Queue[i + k]
  BY FlushQueue DEF IInv
<1>4. r \in Seq(Pkts) /\ Range(r) = Range(Queue) \ Range(Swizzled)
  BY FlushQueue DEF IInv, PlaceInv
<1> HIDE DEF r
<1>5. Len(Queue) = k + Len(r) /\ \A i \in 1..Len(r) : r[i] = Queue[i + k]
  BY <1>3 DEF r
<1>6. Ordered(r, stp, frag', sent, Offer)
  <2>1. Ordered(r, stp, frag, sent, Offer)
    BY <1>1, <1>4, <1>5, OrderRest
  <2>2. Ordered(r, stp, NoMsg, sent, Offer)
    BY <2>1, OrderAbort
  <2> QED
    BY <2>1, <2>2
<1>7. \A i \in DOMAIN r : stp'[r[i]].msg = stp[r[i]].msg
  <2>1. \A i \in DOMAIN r : r[i] \in Range(r)
    BY DEF Range
  <2> QED
    BY <1>4, <2>1
<1>8. Ordered(r, stp', frag', sent, Offer')
  BY <1>1, <1>2, <1>4, <1>6, <1>7, OrderKept
<1> QED
  BY <1>8 DEF OrderInv, r

(* Every step leaves the messages in order.                                *)
LEMMA OrderNext == IInv /\ [Next]_vars => OrderInv'
<1> SUFFICES ASSUME IInv, [Next]_vars PROVE OrderInv'
  OBVIOUS
<1>1. Threads /\ Lists /\ LockInv /\ ListInv /\ PlaceInv /\ OrderInv
  BY DEF IInv
<1>2. \A s \in Senders : tpc[s] \in Carrying =>
       mine[s] \in Pkts /\ mine[s] # NoPkt /\ mine[s] \in MineOf(mine)
  BY <1>1 DEF Threads, LockInv, MineOf
<1>3. Range(Queue) \subseteq Pkts
  BY <1>1, SwizzleQueue, RangeType
<1>4. ASSUME NEW s \in Senders, PacketAdd(s) PROVE OrderInv'
  <2>1. /\ Queue' = Queue /\ stp' = stp /\ frag' = frag /\ sent' = sent
    BY <1>4 DEF PacketAdd, Queue, listvars, ringvars
  <2> QED
    BY <2>1, OrderStays
<1>5. ASSUME NEW s \in Senders, TryEnter(s) PROVE OrderInv'
  <2>1. /\ Queue' = Queue /\ stp' = stp /\ frag' = frag /\ sent' = sent
    BY <1>5 DEF TryEnter, Queue, listvars, ringvars
  <2> QED
    BY <2>1, OrderStays
<1>6. ASSUME NEW s \in Senders, PacketCreate(s) PROVE OrderInv'
  <2>1. /\ Queue' = Queue /\ frag' = frag /\ sent' = sent
        /\ nxt[s] <= MaxSend
    BY <1>6, <1>1 DEF PacketCreate, Queue, ringvars, LockInv
  <2>2. PICK p \in Pkts : Fill(s, p) /\ p \notin Range(Queue)
    <3>1. CASE FromPool(s)
      <4>1. Fill(s, Head(st_fpp))
        BY <1>6, <3>1 DEF PacketCreate
      <4>2. Head(st_fpp) \in Range(st_fpp) /\ Head(st_fpp) \in Pkts
        <5>1. st_fpp # << >> /\ st_fpp \in Seq(Pkts) /\ Inj(st_fpp)
          BY <1>1, <3>1 DEF FromPool, Lists, PlaceInv
        <5> QED
          BY <5>1, TailInj
      <4> QED
        BY <1>1, <4>1, <4>2 DEF PlaceInv, Parts
    <3>2. CASE ~FromPool(s)
      <4>1. PICK p \in Allocatable : Fill(s, p)
        BY <1>6, <3>2 DEF PacketCreate
      <4>2. p \in cache /\ p \in Pkts
        BY <1>1, AllocFromCache DEF Lists
      <4> QED
        BY <1>1, <4>1, <4>2 DEF PlaceInv, Parts
    <3> QED
      BY <3>1, <3>2
  <2>3. \A q \in Pkts \ {p} : stp'[q] = stp[q]
    BY <1>1, <2>1, <2>2, FillType
  <2> QED
    BY <1>3, <2>1, <2>2, <2>3, OrderStays
<1>7. ASSUME NEW s \in Senders, CreateFail(s) PROVE OrderInv'
  <2>1. /\ Queue' = Queue /\ stp' = stp /\ frag' = frag /\ sent' = sent
    BY <1>7 DEF CreateFail, Queue, listvars, ringvars
  <2> QED
    BY <2>1, OrderStays
<1>8. ASSUME NEW s \in Senders, AddLocked(s) PROVE OrderInv'
  <2>1. /\ mine[s] \in Pkts /\ mine[s] # NoPkt /\ tpc[s] = "add"
        /\ frag' = frag /\ sent' = sent /\ nxt' = nxt
        /\ mine[s] \notin Range(Queue)
    BY <1>8, <1>1, <1>2 DEF AddLocked, Carrying, ringvars, PlaceInv, Parts
  <2>2. CASE std_count >= GetLimit
    <3>1. Queue' = Queue /\ Destroy({mine[s]})
      BY <1>8, <2>2 DEF AddLocked, Queue
    <3>2. \A p \in Pkts \ {mine[s]} : stp'[p] = stp[p]
      BY <3>1 DEF Destroy
    <3> QED
      BY <1>3, <2>1, <3>1, <3>2, OrderStays
  <2>3. CASE ~(std_count >= GetLimit)
    <3>1. Queue' = Append(Queue, mine[s])
      <4>1. std_count < GetLimit
        BY <1>1, <2>3, TxDplAssumption DEF Lists
      <4>2. PutAfter = << >> /\ Swizzled = Queue /\ Queue \in Seq(Pkts)
        BY <1>1, <4>1, SwizzleQueue
      <4>3. std_put' = << >> /\ std_get' = Append(Queue, mine[s])
        BY <1>8, <2>3, <4>2 DEF AddLocked, WithMine
      <4>4. Append(Queue, mine[s]) \in Seq(Pkts)
        BY <2>1, <4>2
      <4>5. Append(Queue, mine[s]) \o Reverse(<< >>) = Append(Queue, mine[s])
        BY <4>4, ReverseNil, ConcatNil
      <4> QED
        BY <4>3, <4>5 DEF Queue
    <3>2. stp' = stp /\ tpc' = [tpc EXCEPT ![s] = "service"]
      BY <1>8, <2>3 DEF AddLocked, Goto
    <3>3. tpc[s] \notin Offering /\ "service" \in Offering
      BY <2>1 DEF Offering
    <3> QED
      BY <2>1, <3>1, <3>2, <3>3, OrderAccepts
  <2> QED
    BY <2>2, <2>3
<1>9. ASSUME NEW s \in Senders, ReadPut(s) PROVE OrderInv'
  <2>1. /\ Queue' = Queue /\ stp' = stp /\ frag' = frag /\ sent' = sent
    BY <1>9 DEF ReadPut, Queue, listvars, ringvars
  <2> QED
    BY <2>1, OrderStays
<1>10. ASSUME NEW s \in Senders, ReadLen(s) PROVE OrderInv'
  <2>1. /\ mine[s] \in Pkts /\ mine[s] \notin Range(Queue)
        /\ frag' = frag /\ sent' = sent /\ Queue' = Queue
    BY <1>10, <1>1, <1>2
       DEF ReadLen, Carrying, ringvars, PlaceInv, Parts, Queue
  <2> DEFINE len == IF old[s] = NoPkt THEN 1 ELSE stp[old[s]].put_len + 1
  <2>2. \/ Destroy({mine[s]})
        \/ stp' = [stp EXCEPT ![mine[s]].put_len = len]
    BY <1>10 DEF ReadLen
  <2> HIDE DEF len
  <2>3. \A p \in Pkts \ {mine[s]} : stp'[p] = stp[p]
    BY <1>1, <2>2 DEF Destroy, Lists
  <2> QED
    BY <1>3, <2>1, <2>3, OrderStays
<1>11. ASSUME NEW s \in Senders, Cas(s) PROVE OrderInv'
  <2>1. /\ mine[s] \in Pkts /\ mine[s] # NoPkt /\ tpc[s] = "cas"
        /\ frag' = frag /\ sent' = sent /\ nxt' = nxt /\ stp' = stp
    BY <1>11, <1>2 DEF Cas, Carrying, ringvars
  <2>2. CASE CasSucceeds(s)
    <3>1. Queue' = Append(Queue, mine[s])
      <4>1. std_put' = <<mine[s]>> \o std_put /\ std_get' = std_get
        BY <1>11, <2>2 DEF Cas
      <4>2. std_put \in Seq(Pkts) /\ std_get \in Seq(Pkts)
        BY <1>1 DEF Lists
      <4>3. std_get \o Reverse(<<mine[s]>> \o std_put)
              = Append(std_get \o Reverse(std_put), mine[s])
        BY <2>1, <4>2, PutAppends
      <4> QED
        BY <4>1, <4>3 DEF Queue
    <3>2. tpc' = [tpc EXCEPT ![s] = "retry"]
      BY <1>11, <2>2 DEF Cas, Goto
    <3>3. tpc[s] \notin Offering /\ "retry" \in Offering
      BY <2>1 DEF Offering
    <3> QED
      BY <2>1, <3>1, <3>2, <3>3, OrderAccepts
  <2>3. CASE ~CasSucceeds(s)
    <3>1. Queue' = Queue
      BY <1>11, <2>3 DEF Cas, Queue
    <3> QED
      BY <2>1, <3>1, OrderStays
  <2> QED
    BY <2>2, <2>3
<1>12. ASSUME NEW s \in Senders, Retry(s) PROVE OrderInv'
  <2>1. /\ Queue' = Queue /\ stp' = stp /\ frag' = frag /\ sent' = sent
    BY <1>12 DEF Retry, Queue, listvars, ringvars
  <2> QED
    BY <2>1, OrderStays
<1>13. ASSUME NEW s \in Senders, Enospc(s) PROVE OrderInv'
  <2>1. /\ Queue' = Queue /\ stp' = stp /\ frag' = frag /\ sent' = sent
    BY <1>13 DEF Enospc, Queue, listvars, ringvars
  <2> QED
    BY <2>1, OrderStays
<1>14. ASSUME NEW a \in Agents, Service(a) PROVE OrderInv'
  <2>1. Queue' = Queue
    BY <1>14, <1>1, SwizzleQueue DEF Service, Queue
  <2>2. stp' = stp /\ frag' = frag /\ sent' = sent
    BY <1>14 DEF Service, ringvars
  <2> QED
    BY <2>1, <2>2, OrderStays
<1>15. ASSUME NEW a \in Agents, DrainPost(a) PROVE OrderInv'
  <2>1. /\ std_get # << >> /\ FreeHead /\ std_put' = std_put
        /\ frag = NoMsg
    BY <1>15, <1>1 DEF DrainPost, ListInv
  <2>2. \/ PostOk(stp[Head(std_get)].msg)
        \/ frag' = stp[Head(std_get)].msg /\ sent' = sent
    BY <1>15 DEF DrainPost, PostBlocks
  <2> QED
    BY <2>1, <2>2, OrderDrains
<1>16. ASSUME NEW a \in Agents, DrainReject(a) PROVE OrderInv'
  <2>1. /\ std_get # << >> /\ FreeHead /\ std_put' = std_put
        /\ frag' = frag /\ sent' = sent
    BY <1>16 DEF DrainReject, ringvars
  <2> QED
    BY <2>1, OrderDrains
<1>17. ASSUME NEW a \in Agents, DrainEnd(a) PROVE OrderInv'
  <2>1. /\ Queue' = Queue /\ stp' = stp /\ frag' = frag /\ sent' = sent
    BY <1>17 DEF DrainEnd, Queue, listvars, ringvars
  <2> QED
    BY <2>1, OrderStays
<1>18. ASSUME NEW a \in Agents, ServiceUnlock(a) PROVE OrderInv'
  <2>1. /\ Queue' = Queue /\ stp' = stp /\ frag' = frag /\ sent' = sent
    BY <1>18 DEF ServiceUnlock, Queue, listvars, ringvars
  <2> QED
    BY <2>1, OrderStays
<1>19. ASSUME NEW a \in Agents, ServiceCheck(a) PROVE OrderInv'
  <2>1. /\ Queue' = Queue /\ stp' = stp /\ frag' = frag /\ sent' = sent
    BY <1>19 DEF ServiceCheck, Queue, listvars, ringvars
  <2> QED
    BY <2>1, OrderStays
<1>20. ASSUME NEW a \in Agents, ServiceAgain(a) PROVE OrderInv'
  <2>1. /\ Queue' = Queue /\ stp' = stp /\ frag' = frag /\ sent' = sent
    BY <1>20 DEF ServiceAgain, Queue, listvars, ringvars
  <2> QED
    BY <2>1, OrderStays
<1>21. CASE HwComplete
  <2>1. /\ Queue' = Queue /\ stp' = stp /\ frag' = frag /\ sent' = sent
    BY <1>21 DEF HwComplete, Queue, listvars, ringvars
  <2> QED
    BY <2>1, OrderStays
<1>22. CASE EvTx
  <2>1. /\ Queue' = Queue /\ stp' = stp /\ frag' = frag /\ sent' = sent
    BY <1>22 DEF EvTx, Queue, listvars, ringvars
  <2> QED
    BY <2>1, OrderStays
<1>23. CASE QComplete
  <2>1. /\ Queue' = Queue /\ stp' = stp /\ frag' = frag /\ sent' = sent
    BY <1>23 DEF QComplete, Queue, listvars, ringvars
  <2> QED
    BY <2>1, OrderStays
<1>24. CASE Update
  <2>1. /\ Queue' = Queue /\ stp' = stp /\ frag' = frag /\ sent' = sent
    BY <1>24 DEF Update, Queue, listvars, ringvars
  <2> QED
    BY <2>1, OrderStays
<1>25. CASE QUnblock
  <2>1. Queue' = Queue /\ stp' = stp /\ nxt' = nxt
    BY <1>25 DEF QUnblock, Queue, listvars, sendvars
  <2>2. CASE frag' = frag /\ sent' = sent
    BY <2>1, <2>2, OrderStays
  <2>3. CASE ~(frag' = frag /\ sent' = sent)
    <3>1. /\ frag # NoMsg /\ frag' = NoMsg
          /\ sent' = [sent EXCEPT ![frag.src] = frag.num]
      BY <1>25, <1>1, <2>3 DEF QUnblock, PostOk, PostBlocks, ListInv
    <3>2. /\ Queue \in Seq(Pkts) /\ sent \in [Senders -> Int]
          /\ Ordered(Queue, stp, frag, sent, Offer)
          /\ Offer \in [Senders -> Int] /\ Offer' \in [Senders -> Int]
      BY OrderTypes
    <3>3. \A r \in Senders : Offer[r] <= Offer'[r]
      BY <3>2, OfferNext DEF Offer
    <3>4. Ordered(Queue, stp, NoMsg, sent', Offer)
      BY <3>1, <3>2, OrderPost
    <3>5. sent' \in [Senders -> Int]
      <4>1. Threads'
        BY ThreadsNext
      <4> QED
        BY <4>1, RealIsMsg DEF Threads
    <3>6. Ordered(Queue, stp, NoMsg, sent', Offer')
      BY <3>2, <3>3, <3>4, <3>5, OrderKept
    <3> QED
      BY <2>1, <3>1, <3>6 DEF OrderInv
  <2> QED
    BY <2>2, <2>3
<1>26. CASE Stopping
  <2>1. /\ Queue' = Queue /\ stp' = stp /\ frag' = frag /\ sent' = sent
    BY <1>26 DEF Stopping, Queue, listvars, ringvars
  <2> QED
    BY <2>1, OrderStays
<1>27. CASE QFlush
  <2>1. /\ Queue' = Queue /\ stp' = stp /\ frag' = frag /\ sent' = sent
    BY <1>27 DEF QFlush, Queue, listvars, ringvars
  <2> QED
    BY <2>1, OrderStays
<1>28. CASE QStop
  <2>1. /\ std_put' = PutAfter /\ std_get' = << >> /\ sent' = sent
        /\ frag' = frag \/ frag' = NoMsg
        /\ \A p \in Pkts \ Range(Swizzled) :
             stp'[p] = stp[p]
    BY <1>28 DEF QStop, FlushLocked, Destroy, ringvars
  <2>2. Range(Queue) \cap Range(st_fpp) = {}
    BY <1>1 DEF PlaceInv, Parts
  <2>3. \A p \in Range(Queue) \ Range(Swizzled) : stp'[p] = stp[p]
    BY <1>3, <2>1, <2>2
  <2> QED
    BY <2>1, <2>3, OrderFlushes
<1>29. CASE QStart
  <2>1. /\ Queue' = Queue /\ stp' = stp /\ frag' = frag /\ sent' = sent
    BY <1>29 DEF QStart, Queue, listvars, ringvars
  <2> QED
    BY <2>1, OrderStays
<1>30. CASE Started
  <2>1. /\ Queue' = Queue /\ stp' = stp /\ frag' = frag /\ sent' = sent
    BY <1>30 DEF Started, Queue, listvars, ringvars
  <2> QED
    BY <2>1, OrderStays
<1>31. CASE QFini
  <2>1. /\ std_put' = PutAfter /\ std_get' = << >> /\ sent' = sent
        /\ frag' = frag \/ frag' = NoMsg
        /\ \A p \in Pkts \ (Range(Swizzled) \cup Range(st_fpp)) :
             stp'[p] = stp[p]
    BY <1>31 DEF QFini, FlushLocked, Destroy, ringvars
  <2>2. Range(Queue) \cap Range(st_fpp) = {}
    BY <1>1 DEF PlaceInv, Parts
  <2>3. \A p \in Range(Queue) \ Range(Swizzled) : stp'[p] = stp[p]
    BY <1>3, <2>1, <2>2
  <2> QED
    BY <2>1, <2>3, OrderFlushes
<1>32. CASE QInit
  <2>1. /\ Queue' = Queue /\ stp' = stp /\ frag' = frag /\ sent' = sent
    BY <1>32 DEF QInit, Queue, listvars, ringvars
  <2> QED
    BY <2>1, OrderStays
<1>33. CASE UNCHANGED vars
  <2>1. /\ Queue' = Queue /\ stp' = stp /\ frag' = frag /\ sent' = sent
    BY <1>33 DEF vars, Queue, listvars, ringvars
  <2> QED
    BY <2>1, OrderStays
<1>34. CASE KstatEnter
  <2>1. /\ Queue' = Queue /\ stp' = stp /\ frag' = frag /\ sent' = sent
    BY <1>34 DEF KstatEnter, Queue, listvars, ringvars
  <2> QED
    BY <2>1, OrderStays
<1>35. CASE KstatExit
  <2>1. /\ Queue' = Queue /\ stp' = stp /\ frag' = frag /\ sent' = sent
    BY <1>35 DEF KstatExit, Queue, listvars, ringvars
  <2> QED
    BY <2>1, OrderStays
<1> QED
  BY <1>4, <1>5, <1>6, <1>7, <1>8, <1>9, <1>10, <1>11, <1>12, <1>13, <1>14,
     <1>15, <1>16, <1>17, <1>18, <1>19, <1>20, <1>21, <1>22, <1>23, <1>24,
     <1>25, <1>26, <1>27, <1>28, <1>29, <1>30, <1>31, <1>32, <1>33, <1>34,
     <1>35 DEF Next,
     Send, ServiceStep, Event, Life

-----------------------------------------------------------------------------
(* The invariant holds at first.                                           *)
LEMMA InitInv == Init => IInv
<1> SUFFICES ASSUME Init PROVE IInv
  OBVIOUS
<1>1. << >> \in Seq(Pkts) /\ Len(<< >>) = 0 /\ Range(<< >>) = {} /\ Inj(<< >>)
  BY DEF Range, Inj
<1>11. MissedType
  BY DEF Init, MissedType
<1>2. Threads
  BY TxDplAssumption, EvqIsNoSender DEF Init, Threads, Steps
<1>3. Lists
  BY <1>1, EmptyStruct, TxDplAssumption DEF Init, Lists
<1>4. Counts
  <2>1. np = 0 /\ hw = 0 /\ ev = 0 /\ pend = 0 /\ dn = 0
    BY DEF Init
  <2>2. InRing = 0
    BY <2>1 DEF InRing
  <2>3. frag \in Msgs /\ blocked \in BOOLEAN
    BY RealIsMsg DEF Init
  <2> QED
    BY <2>1, <2>2, <2>3, RingSizeNat DEF Counts
<1>5. LockInv
  BY EvqIsNoSender, NoThreadIsNoAgent DEF Init, LockInv, Holding, Carrying
<1>6. ListInv
  <2>1. \A a \in Agents : tpc[a] = "idle"
    BY DEF Init
  <2>2. tpc[Evq] = "idle"
    BY <2>1, EvqIsNoSender
  <2> QED
    BY <1>1, <2>1, <2>2 DEF Init, ListInv
<1>7. Queue = << >>
  <2>1. << >> \o Reverse(<< >>) = << >>
    BY <1>1, ReverseNil, ConcatNil
  <2> QED
    BY <2>1 DEF Init, Queue
<1>8. PlaceInv
  <2>1. MineOf(mine) = {} /\ Distinct(mine)
    BY DEF Init, MineOf, Distinct
  <2>2. cache = Pkts /\ st_fpp = << >>
    BY DEF Init
  <2> QED
    BY <1>1, <1>7, <2>1, <2>2 DEF PlaceInv, Parts
<1>9. MineInv
  BY DEF Init, MineInv
<1>10. OrderInv
  <2>1. \A s \in Senders : sent[s] <= Offer[s]
    <3>1. \A s \in Senders : sent[s] = 0 /\ nxt[s] = 1 /\ tpc[s] = "idle"
      BY EvqIsNoSender DEF Init
    <3>2. \A s \in Senders : Offer[s] = 0
      BY <3>1 DEF Offer, Accept, Offering
    <3> QED
      BY <3>1, <3>2
  <2>2. frag = NoMsg /\ DOMAIN Queue = {}
    BY <1>7 DEF Init
  <2> QED
    BY <2>1, <2>2 DEF OrderInv, Ordered
<1> QED
  BY <1>2, <1>3, <1>4, <1>5, <1>6, <1>8, <1>9, <1>10, <1>11 DEF IInv

(* Only the fair run looks at the history variable missed.                 *)
LEMMA MissedNext == IInv /\ [Next]_vars => MissedType'
<1> SUFFICES ASSUME missed \subseteq {"reader", "count"}, [Next]_vars
             PROVE  missed' \subseteq {"reader", "count"}
  BY DEF IInv, MissedType
<1>1. CASE UNCHANGED missed
  BY <1>1
<1>2. ASSUME NEW a \in Agents, Service(a)
      PROVE  missed' \subseteq {"reader", "count"}
  BY <1>2 DEF Service
<1>3. ASSUME NEW a \in Agents, ServiceAgain(a)
      PROVE  missed' \subseteq {"reader", "count"}
  BY <1>3 DEF ServiceAgain, LeaveIt
<1>4. ASSUME NEW s \in Senders, Retry(s)
      PROVE  missed' \subseteq {"reader", "count"}
  BY <1>4 DEF Retry, LeaveIt
<1>5. CASE Update
  BY <1>5 DEF Update, MacTxUpdate
<1>6. CASE QStop
  BY <1>6 DEF QStop, MacTxUpdate
<1> QED
  BY <1>1, <1>2, <1>3, <1>4, <1>5, <1>6
     DEF Next, Send, ServiceStep, Event, Life, vars, lifevars,
         PacketAdd, TryEnter, PacketCreate, CreateFail, AddLocked, ReadPut,
         ReadLen, Cas, Enospc, DrainPost, DrainReject, DrainEnd,
         ServiceUnlock, ServiceCheck, HwComplete, EvTx, QComplete, QUnblock,
         KstatEnter, KstatExit, Stopping, QFlush, QStart, Started, QFini, QInit

(* The strengthened invariant is inductive.                                *)
LEMMA Invariance == Spec => []IInv
<1>1. IInv /\ [Next]_vars => IInv'
  BY ThreadsNext, ListsNext, CountsNext, LockNext, ListInvNext, PlaceNext,
     MineNext, OrderNext, MissedNext DEF IInv
<1> QED
  BY InitInv, <1>1, PTL DEF Spec

(* The invariant gives the shape of the state.                             *)
LEMMA TypeHolds == IInv => TypeOK
BY DEF IInv, Threads, Lists, Counts, MissedType, TypeOK, Steps

(* A sequence without repetition has each of its packets once.             *)
LEMMA TimesOnce ==
  ASSUME NEW s \in Seq(Pkts), Inj(s), NEW p
  PROVE  Times(p, s) = IF p \in Range(s) THEN 1 ELSE 0
<1> DEFINE I == {i \in DOMAIN s : s[i] = p}
<1>1. CASE p \in Range(s)
  <2>1. PICK i \in DOMAIN s : s[i] = p
    BY <1>1 DEF Range
  <2>2. I = {i}
    BY <2>1 DEF Inj
  <2> QED
    BY <1>1, <2>2, FS_Singleton DEF Times
<1>2. CASE p \notin Range(s)
  <2>1. I = {}
    BY <1>2 DEF Range
  <2> QED
    BY <1>2, <2>1, FS_EmptySet DEF Times
<1> QED
  BY <1>1, <1>2

(* A packet is in the hands of one thread at most.                         *)
LEMMA MineOnce ==
  ASSUME NEW p \in Pkts, Distinct(mine)
  PROVE  Cardinality({s \in Senders : mine[s] = p})
           = IF p \in MineOf(mine) THEN 1 ELSE 0
<1> DEFINE I == {s \in Senders : mine[s] = p}
<1>1. p # NoPkt
  BY EvqIsNoSender
<1>2. CASE p \in MineOf(mine)
  <2>1. PICK s \in Senders : mine[s] = p
    BY <1>2 DEF MineOf
  <2>2. I = {s}
    BY <1>1, <2>1 DEF Distinct
  <2> QED
    BY <1>2, <2>2, FS_Singleton
<1>3. CASE p \notin MineOf(mine)
  <2>1. I = {}
    BY <1>1, <1>3 DEF MineOf
  <2> QED
    BY <1>3, <2>1, FS_EmptySet
<1> QED
  BY <1>2, <1>3

(* The invariant gives every packet its one place.                         *)
LEMMA PlaceHolds == IInv => OnePlace
<1> SUFFICES ASSUME IInv, NEW p \in Pkts
             PROVE  Times(p, std_put) + Times(p, std_get) + Times(p, st_fpp)
                    + (IF p \in cache THEN 1 ELSE 0)
                    + Cardinality({s \in Senders : mine[s] = p}) = 1
  BY TypeHolds DEF OnePlace
<1>1. /\ std_put \in Seq(Pkts) /\ std_get \in Seq(Pkts)
      /\ st_fpp \in Seq(Pkts) /\ Inj(st_fpp) /\ Inj(Queue) /\ Distinct(mine)
      /\ Parts(Range(Queue), Range(st_fpp), cache, MineOf(mine))
  BY DEF IInv, Lists, PlaceInv
<1>2. /\ Inj(std_get) /\ Inj(std_put)
      /\ Range(std_get) \cap Range(std_put) = {}
  BY <1>1, ListsApart DEF Queue
<1>3. Range(Queue) = Range(std_get) \cup Range(std_put)
  BY SwizzleQueue DEF IInv
<1>4. /\ Times(p, std_put) = IF p \in Range(std_put) THEN 1 ELSE 0
      /\ Times(p, std_get) = IF p \in Range(std_get) THEN 1 ELSE 0
      /\ Times(p, st_fpp) = IF p \in Range(st_fpp) THEN 1 ELSE 0
      /\ Cardinality({s \in Senders : mine[s] = p})
           = IF p \in MineOf(mine) THEN 1 ELSE 0
  BY <1>1, <1>2, TimesOnce, MineOnce
<1> QED
  BY <1>1, <1>2, <1>3, <1>4 DEF Parts

(* The sequence of waiting messages: the fragment list, then the queue.    *)
LEMMA WaitingType ==
  ASSUME IInv
  PROVE  \E k \in {0, 1} :
           /\ k = 0 <=> frag = NoMsg
           /\ DOMAIN Waiting = 1..(k + Len(Queue)) /\ Len(Queue) \in Nat
           /\ DOMAIN Queue = 1..Len(Queue)
           /\ \A i \in DOMAIN Waiting :
                Waiting[i] = IF i <= k THEN frag ELSE stp[Queue[i - k]].msg
<1> DEFINE n == Len(Queue)
           w == [i \in 1..n |-> stp[Queue[i]].msg]
           h == IF frag = NoMsg THEN << >> ELSE <<frag>>
           k == IF frag = NoMsg THEN 0 ELSE 1
<1>1. Queue \in Seq(Pkts) /\ stp \in [Pkts -> [msg : Msgs, put_len : Nat]]
      /\ frag \in Msgs
  BY SwizzleQueue DEF IInv, Lists, Counts
<1>2. n \in Nat /\ DOMAIN Queue = 1..n /\ \A i \in 1..n : Queue[i] \in Pkts
  BY <1>1
<1>3. w \in [1..n -> Msgs]
  BY <1>1, <1>2
<1>4. w \in Seq(Msgs) /\ Len(w) = n
  <2> HIDE DEF w, n
  <2> QED
    BY <1>2, <1>3, FunctionIsSeq
<1>5. h \in Seq(Msgs) /\ Len(h) = k /\ \A i \in 1..k : h[i] = frag
  BY <1>1
<1>6. Waiting = h \o w
  BY <1>2 DEF Waiting, Queue
<1> HIDE DEF h, k
<1>7. k \in {0, 1} /\ (k = 0 <=> frag = NoMsg)
  BY DEF k
<1>8. \A i \in 1..n : w[i] = stp[Queue[i]].msg
  OBVIOUS
<1> HIDE DEF w, n
<1>9. /\ h \o w \in Seq(Msgs) /\ Len(h \o w) = Len(h) + Len(w)
      /\ \A i \in 1..(Len(h) + Len(w)) :
           (h \o w)[i] = IF i <= Len(h) THEN h[i] ELSE w[i - Len(h)]
  BY <1>4, <1>5, ConcatType
<1>10. DOMAIN (h \o w) = 1..(k + n)
  <2>1. DOMAIN (h \o w) = 1..Len(h \o w)
    BY <1>9
  <2> QED
    BY <1>4, <1>5, <1>9, <2>1
<1>11. ASSUME NEW i \in 1..(k + n)
       PROVE  (h \o w)[i] = IF i <= k THEN frag ELSE stp[Queue[i - k]].msg
  <2>1. (h \o w)[i] = IF i <= k THEN h[i] ELSE w[i - k]
    BY <1>4, <1>5, <1>9
  <2>2. CASE i <= k
    <3>1. i \in 1..k
      BY <1>2, <1>7, <2>2
    <3> QED
      BY <1>5, <2>1, <2>2, <3>1
  <2>3. CASE ~(i <= k)
    <3>1. i - k \in 1..n
      BY <1>2, <1>7, <2>3
    <3> QED
      BY <1>8, <2>1, <2>3, <3>1
  <2> QED
    BY <2>2, <2>3
<1> QED
  BY <1>2, <1>6, <1>7, <1>10, <1>11 DEF n

(* The invariant gives the order of the messages of each sender.           *)
LEMMA OrderHolds == IInv => InOrder
<1> SUFFICES ASSUME IInv PROVE InOrder
  OBVIOUS
<1>1. Ordered(Queue, stp, frag, sent, Offer)
  BY DEF IInv, OrderInv
<1>2. PICK k \in {0, 1} :
           /\ k = 0 <=> frag = NoMsg
           /\ DOMAIN Waiting = 1..(k + Len(Queue)) /\ Len(Queue) \in Nat
           /\ DOMAIN Queue = 1..Len(Queue)
           /\ \A i \in DOMAIN Waiting :
                Waiting[i] = IF i <= k THEN frag ELSE stp[Queue[i - k]].msg
  BY WaitingType
<1>3. \A i \in DOMAIN Waiting :
        \/ i <= k /\ i = 1 /\ frag # NoMsg /\ Waiting[i] = frag
        \/ /\ i - k \in DOMAIN Queue /\ ~(i <= k)
           /\ Waiting[i] = stp[Queue[i - k]].msg
  <2> TAKE i \in DOMAIN Waiting
  <2>1. CASE i <= k
    <3>1. k = 1 /\ i = 1
      BY <1>2, <2>1
    <3> QED
      BY <1>2, <2>1, <3>1
  <2>2. CASE ~(i <= k)
    <3>1. i - k \in 1..Len(Queue)
      BY <1>2, <2>2
    <3> QED
      BY <1>2, <2>2, <3>1
  <2> QED
    BY <2>1, <2>2
<1>4. ASSUME NEW i \in DOMAIN Waiting
      PROVE  Waiting[i].num > sent[Waiting[i].src]
  <2>1. Between(Waiting[i], sent, Offer)
    BY <1>1, <1>3 DEF Ordered
  <2>2. /\ Waiting[i].src \in Senders /\ Waiting[i].num \in Int
        /\ sent[Waiting[i].src] < Waiting[i].num
    BY <2>1, RealIsMsg DEF Between
  <2>3. sent[Waiting[i].src] \in Int
    BY <2>2, RealIsMsg DEF IInv, Threads
  <2> QED
    BY <2>2, <2>3
<1>5. ASSUME NEW i \in DOMAIN Waiting, NEW j \in DOMAIN Waiting, i < j
      PROVE  Before(Waiting[i], Waiting[j])
  <2>1. ~(j <= k) /\ i \in Int /\ j \in Int
    BY <1>2, <1>5
  <2>2. j - k \in DOMAIN Queue /\ Waiting[j] = stp[Queue[j - k]].msg
    BY <1>3, <2>1
  <2>3. CASE frag # NoMsg /\ Waiting[i] = frag
    BY <1>1, <2>2, <2>3 DEF Ordered
  <2>4. CASE i - k \in DOMAIN Queue /\ Waiting[i] = stp[Queue[i - k]].msg
    <3>1. i - k < j - k
      BY <1>2, <1>5, <2>1
    <3> QED
      BY <1>1, <2>2, <2>4, <3>1 DEF Ordered
  <2> QED
    BY <1>3, <2>3, <2>4
<1> QED
  BY <1>4, <1>5 DEF InOrder, Before

(* The invariant gives what the code asserts.                              *)
LEMMA AssertsHold == IInv => ListAsserts
<1> SUFFICES ASSUME IInv PROVE ListAsserts
  OBVIOUS
<1>1. ASSUME st_lock \in {NoThread, Kstat}
      PROVE  /\ blocked \/ std_get = << >>
             /\ std_count = Len(std_get)
  <2>1. \A a \in Agents : tpc[a] \notin Holding
    BY <1>1, FreeLock DEF IInv
  <2> QED
    BY <2>1 DEF IInv, ListInv, Holding
<1>2. st_state = "UNINITIALIZED" => std_put = << >> /\ std_get = << >>
  BY DEF IInv, ListInv
<1> QED
  BY <1>1, <1>2 DEF ListAsserts

(* Every packet structure is in exactly one place: on one of the two       *)
(* lists, in the free pool, with the kernel's allocator or with one        *)
(* sender, whatever the senders, the drain, the pool of                    *)
(* sfxge_tx_packet_destroy and the flush of a stop do at the same time.    *)
THEOREM OnePlaceAlways == Spec => []OnePlace
BY Invariance, PlaceHolds, PTL

(* The messages of one sender reach the descriptor ring in the order it    *)
(* sent them, whether sfxge_tx_packet_add found st_lock free or not, and   *)
(* none that waits was posted before.                                      *)
THEOREM InOrderAlways == Spec => []InOrder
BY Invariance, OrderHolds, PTL

(* The assertion at the end of sfxge_tx_qdpl_drain holds whenever another  *)
(* thread can take st_lock, and those of sfxge_tx_qfini hold after it.     *)
THEOREM ListAssertsAlways == Spec => []ListAsserts
BY Invariance, AssertsHold, PTL
=============================================================================
