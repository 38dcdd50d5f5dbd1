----------------------------- MODULE DaemonProofs -----------------------------
(***************************************************************************)
(* Walks by NextKey of a map that changes under them, for any set of keys, *)
(* any assignment to buckets and any number of changes: clear, the ticker  *)
(* with the goroutines of the daemon around it, and the reports.           *)
(***************************************************************************)
EXTENDS Daemon, MapReport, FiniteSetTheorems, SequenceTheorems,
        WellFoundedInduction, TLAPS

------------------------------------------------------------------------------
(* Sequences of keys *)

(* As the kernel links them: no key twice, bucket by bucket. *)
Chain(m) ==
  /\ m \in Seq(Keys)
  /\ \A i, j \in 1..Len(m) : i < j => m[i] # m[j] /\ Hash[m[i]] <= Hash[m[j]]

KeysOf(m) == {m[i] : i \in 1..Len(m)}

Before(m, x, y) ==
  \E i, j \in 1..Len(m) : i < j /\ m[i] = x /\ m[j] = y

LEMMA PresentKeys ==
  ASSUME Chain(map)
  PROVE  Present = KeysOf(map) /\ Present \subseteq Keys
<1>1. /\ DOMAIN map = 1..Len(map)
      /\ \A i \in 1..Len(map) : map[i] \in Keys
  BY LenProperties, ElementOfSeq DEF Chain
<1> QED BY <1>1 DEF Present, KeysOf

LEMMA PlaceIs ==
  ASSUME Chain(map), NEW k \in KeysOf(map)
  PROVE  Place(k) \in 1..Len(map) /\ map[Place(k)] = k
<1>1. DOMAIN map = 1..Len(map)
  BY LenProperties DEF Chain
<1>2. \E i \in DOMAIN map : map[i] = k
  BY <1>1 DEF KeysOf
<1> QED BY <1>1, <1>2 DEF Place

LEMMA Removed ==
  ASSUME NEW m \in Seq(Keys), NEW p \in 1..Len(m)
  PROVE  LET r == SubSeq(m, 1, p - 1) \o SubSeq(m, p + 1, Len(m))
         IN  /\ r \in Seq(Keys)
             /\ Len(r) = Len(m) - 1
             /\ \A j \in 1..Len(r) : r[j] = IF j < p THEN m[j] ELSE m[j + 1]
<1> DEFINE n == Len(m)
           s == SubSeq(m, 1, p - 1)
           t == SubSeq(m, p + 1, n)
<1>1. n \in Nat /\ p \in Int /\ 1 <= p /\ p <= n
  BY LenProperties
<1>2. \A i \in 1..n : m[i] \in Keys
  BY ElementOfSeq
<1>3. /\ s \in Seq(Keys) /\ Len(s) = p - 1
      /\ \A i \in 1..(p - 1) : s[i] = m[i]
  <2>1. \A i \in 1..(p - 1) : m[i] \in Keys
    BY <1>1, <1>2
  <2>2. /\ s \in Seq(Keys)
        /\ Len(s) = IF 1 <= p - 1 THEN p - 1 - 1 + 1 ELSE 0
        /\ \A i \in 1..(p - 1 - 1 + 1) : s[i] = m[1 + i - 1]
    BY <1>1, <2>1, SubSeqProperties
  <2> HIDE DEF s
  <2> QED BY <1>1, <2>2
<1>4. /\ t \in Seq(Keys) /\ Len(t) = n - p
      /\ \A i \in 1..(n - p) : t[i] = m[p + i]
  <2>1. \A i \in (p + 1)..n : m[i] \in Keys
    BY <1>1, <1>2
  <2>2. /\ t \in Seq(Keys)
        /\ Len(t) = IF p + 1 <= n THEN n - (p + 1) + 1 ELSE 0
        /\ \A i \in 1..(n - (p + 1) + 1) : t[i] = m[p + 1 + i - 1]
    BY <1>1, <2>1, SubSeqProperties
  <2> HIDE DEF t, n
  <2> QED BY <1>1, <2>2
<1> HIDE DEF s, t, n
<1>5. /\ s \o t \in Seq(Keys)
      /\ Len(s \o t) = n - 1
      /\ \A i \in 1..(n - 1) :
           (s \o t)[i] = IF i <= p - 1 THEN s[i] ELSE t[i - (p - 1)]
  <2>1. /\ s \o t \in Seq(Keys)
        /\ Len(s \o t) = Len(s) + Len(t)
        /\ \A i \in 1..(Len(s) + Len(t)) :
             (s \o t)[i] = IF i <= Len(s) THEN s[i] ELSE t[i - Len(s)]
    BY <1>3, <1>4, ConcatProperties
  <2>2. Len(s) + Len(t) = n - 1
    BY <1>1, <1>3, <1>4
  <2> QED BY <1>3, <2>1, <2>2
<1>6. ASSUME NEW j \in 1..(n - 1)
      PROVE  (s \o t)[j] = IF j < p THEN m[j] ELSE m[j + 1]
  <2>1. CASE j < p
    BY <1>1, <1>3, <1>5, <2>1
  <2>2. CASE ~(j < p)
    <3>1. j - (p - 1) \in 1..(n - p) /\ p + (j - (p - 1)) = j + 1
      BY <1>1, <2>2
    <3>2. (s \o t)[j] = t[j - (p - 1)]
      BY <1>1, <1>5, <2>2
    <3> QED BY <1>1, <1>4, <2>2, <3>1, <3>2
  <2> QED BY <2>1, <2>2
<1> QED BY <1>5, <1>6 DEF s, t, n

LEMMA Inserted ==
  ASSUME NEW m \in Seq(Keys), NEW p \in 1..(Len(m) + 1), NEW k \in Keys
  PROVE  LET r == SubSeq(m, 1, p - 1) \o <<k>> \o SubSeq(m, p, Len(m))
         IN  /\ r \in Seq(Keys)
             /\ Len(r) = Len(m) + 1
             /\ \A j \in 1..Len(r) :
                  r[j] = IF j < p THEN m[j] ELSE IF j = p THEN k
                         ELSE m[j - 1]
<1> DEFINE n == Len(m)
           s == SubSeq(m, 1, p - 1)
           t == SubSeq(m, p, n)
           u == s \o <<k>>
<1>1. n \in Nat /\ p \in Int /\ 1 <= p /\ p <= n + 1
  BY LenProperties
<1>2. \A i \in 1..n : m[i] \in Keys
  BY ElementOfSeq
<1>3. /\ s \in Seq(Keys) /\ Len(s) = p - 1
      /\ \A i \in 1..(p - 1) : s[i] = m[i]
  <2>1. \A i \in 1..(p - 1) : m[i] \in Keys
    BY <1>1, <1>2
  <2>2. /\ s \in Seq(Keys)
        /\ Len(s) = IF 1 <= p - 1 THEN p - 1 - 1 + 1 ELSE 0
        /\ \A i \in 1..(p - 1 - 1 + 1) : s[i] = m[1 + i - 1]
    BY <1>1, <2>1, SubSeqProperties
  <2> HIDE DEF s
  <2> QED BY <1>1, <2>2
<1>4. /\ t \in Seq(Keys) /\ Len(t) = n - p + 1
      /\ \A i \in 1..(n - p + 1) : t[i] = m[p + i - 1]
  <2>1. \A i \in p..n : m[i] \in Keys
    BY <1>1, <1>2
  <2>2. /\ t \in Seq(Keys)
        /\ Len(t) = IF p <= n THEN n - p + 1 ELSE 0
        /\ \A i \in 1..(n - p + 1) : t[i] = m[p + i - 1]
    BY <1>1, <2>1, SubSeqProperties
  <2> HIDE DEF t, n
  <2> QED BY <1>1, <2>2
<1> HIDE DEF s, t, n
<1>5. /\ <<k>> \in Seq(Keys) /\ Len(<<k>>) = 1 /\ <<k>>[1] = k
  OBVIOUS
<1>6. /\ u \in Seq(Keys) /\ Len(u) = p
      /\ \A i \in 1..p : u[i] = IF i < p THEN m[i] ELSE k
  <2>1. /\ u \in Seq(Keys)
        /\ Len(u) = Len(s) + Len(<<k>>)
        /\ \A i \in 1..(Len(s) + Len(<<k>>)) :
             u[i] = IF i <= Len(s) THEN s[i] ELSE <<k>>[i - Len(s)]
    BY <1>3, <1>5, ConcatProperties
  <2>2. Len(s) + Len(<<k>>) = p
    BY <1>1, <1>3, <1>5
  <2>3. \A i \in 1..p : u[i] = IF i <= p - 1 THEN s[i] ELSE <<k>>[i - (p - 1)]
    BY <1>3, <2>1, <2>2
  <2> HIDE DEF u
  <2>4. ASSUME NEW i \in 1..p PROVE u[i] = IF i < p THEN m[i] ELSE k
    <3>1. CASE i < p
      BY <1>1, <1>3, <2>3, <3>1
    <3>2. CASE i = p
      <4>1. i - (p - 1) = 1 /\ ~(i <= p - 1)
        BY <1>1, <3>2
      <4> QED BY <1>5, <2>3, <3>2, <4>1
    <3> QED BY <1>1, <3>1, <3>2
  <2> QED BY <2>1, <2>2, <2>4
<1> HIDE DEF u
<1>7. /\ u \o t \in Seq(Keys)
      /\ Len(u \o t) = n + 1
      /\ \A i \in 1..(n + 1) :
           (u \o t)[i] = IF i <= p THEN u[i] ELSE t[i - p]
  <2>1. /\ u \o t \in Seq(Keys)
        /\ Len(u \o t) = Len(u) + Len(t)
        /\ \A i \in 1..(Len(u) + Len(t)) :
             (u \o t)[i] = IF i <= Len(u) THEN u[i] ELSE t[i - Len(u)]
    BY <1>4, <1>6, ConcatProperties
  <2>2. Len(u) + Len(t) = n + 1
    BY <1>1, <1>4, <1>6
  <2> QED BY <1>6, <2>1, <2>2
<1>8. ASSUME NEW j \in 1..(n + 1)
      PROVE  (u \o t)[j] = IF j < p THEN m[j] ELSE IF j = p THEN k
                           ELSE m[j - 1]
  <2>1. CASE j <= p
    BY <1>1, <1>6, <1>7, <2>1
  <2>2. CASE ~(j <= p)
    <3>1. j - p \in 1..(n - p + 1) /\ p + (j - p) - 1 = j - 1
      BY <1>1, <2>2
    <3>2. (u \o t)[j] = t[j - p]
      BY <1>1, <1>7, <2>2
    <3>3. ~(j < p) /\ j # p
      BY <1>1, <2>2
    <3> QED BY <1>1, <1>4, <3>1, <3>2, <3>3
  <2> QED BY <2>1, <2>2
<1> QED BY <1>7, <1>8 DEF u, s, t, n

LEMMA WithoutEffect ==
  ASSUME Chain(map), NEW k \in Keys
  PROVE  /\ Chain(Without(k))
         /\ KeysOf(Without(k)) = KeysOf(map) \ {k}
         /\ \A x, y : x # k /\ y # k /\ Before(map, x, y)
                        => Before(Without(k), x, y)
<1>1. CASE k \notin KeysOf(map)
  BY <1>1, PresentKeys DEF Without
<1>2. CASE k \in KeysOf(map)
  <2> DEFINE m == map
             n == Len(map)
             p == Place(k)
             r == SubSeq(map, 1, p - 1) \o SubSeq(map, p + 1, n)
             Old(j) == IF j < p THEN j ELSE j + 1
             New(j) == IF j < p THEN j ELSE j - 1
  <2>1. Without(k) = r
    BY <1>2, PresentKeys DEF Without
  <2>2. /\ n \in Nat /\ p \in 1..n /\ m[p] = k
        /\ \A i, j \in 1..n : i < j => m[i] # m[j] /\ Hash[m[i]] <= Hash[m[j]]
    BY <1>2, PlaceIs, LenProperties DEF Chain
  <2>3. /\ r \in Seq(Keys) /\ Len(r) = n - 1
        /\ \A j \in 1..(n - 1) : r[j] = IF j < p THEN m[j] ELSE m[j + 1]
    BY <2>2, Removed DEF Chain
  <2> HIDE DEF m, n, p, r
  <2>4. \A j \in 1..(n - 1) :
          Old(j) \in 1..n /\ Old(j) # p /\ r[j] = m[Old(j)]
    BY <2>2, <2>3
  <2>5. \A j \in (1..n) \ {p} :
          New(j) \in 1..(n - 1) /\ r[New(j)] = m[j]
    BY <2>2, <2>3
  <2>6. /\ \A i, j \in 1..(n - 1) : i < j => Old(i) < Old(j)
        /\ \A i, j \in (1..n) \ {p} : i < j => New(i) < New(j)
    BY <2>2
  <2>7. \A j \in 1..n : j # p => m[j] # k
    BY <2>2
  <2> HIDE DEF Old, New
  <2>8. Chain(r)
    <3>1. ASSUME NEW i \in 1..(n - 1), NEW j \in 1..(n - 1), i < j
          PROVE  r[i] # r[j] /\ Hash[r[i]] <= Hash[r[j]]
      <4>1. /\ Old(i) \in 1..n /\ Old(j) \in 1..n /\ Old(i) < Old(j)
            /\ r[i] = m[Old(i)] /\ r[j] = m[Old(j)]
        BY <2>4, <2>6, <3>1
      <4>2. m[Old(i)] # m[Old(j)] /\ Hash[m[Old(i)]] <= Hash[m[Old(j)]]
        BY <2>2, <4>1
      <4> QED BY <4>1, <4>2
    <3> QED BY <2>3, <3>1 DEF Chain
  <2>9. KeysOf(r) = {m[i] : i \in 1..n} \ {k}
    <3>1. ASSUME NEW x \in KeysOf(r)
          PROVE  x \in {m[i] : i \in 1..n} \ {k}
      <4>1. PICK j \in 1..(n - 1) : x = r[j]
        BY <2>3, <3>1 DEF KeysOf
      <4> QED BY <2>4, <2>7, <4>1
    <3>2. ASSUME NEW x \in {m[i] : i \in 1..n} \ {k}
          PROVE  x \in KeysOf(r)
      <4>1. PICK j \in (1..n) \ {p} : x = m[j]
        BY <2>2, <3>2
      <4> QED BY <2>3, <2>5, <4>1 DEF KeysOf
    <3> QED BY <3>1, <3>2
  <2>10. ASSUME NEW x, NEW y, x # k, y # k, Before(map, x, y)
         PROVE  Before(r, x, y)
    <3>1. PICK i \in 1..n, j \in 1..n : i < j /\ m[i] = x /\ m[j] = y
      BY <2>10 DEF Before, m, n
    <3>2. i \in (1..n) \ {p} /\ j \in (1..n) \ {p}
      BY <2>2, <2>10, <3>1
    <3>3. /\ New(i) \in 1..Len(r) /\ New(j) \in 1..Len(r)
          /\ New(i) < New(j) /\ r[New(i)] = x /\ r[New(j)] = y
      BY <2>3, <2>5, <2>6, <3>1, <3>2
    <3> QED BY <3>3 DEF Before
  <2> QED BY <2>1, <2>8, <2>9, <2>10 DEF KeysOf, m, n
<1> QED BY <1>1, <1>2

LEMMA Least ==
  ASSUME NEW T, T \subseteq Nat, T # {}
  PROVE  \E x \in T : \A y \in T : x <= y
<1> DEFINE R == OpToRel(<, Nat)
<1>1. \A x, y \in Nat : <<x, y>> \in R <=> x < y
  BY DEF OpToRel
<1>2. IsWellFoundedOn(R, Nat)
  BY NatLessThanWellFounded
<1> HIDE DEF R
<1>3. PICK x \in T : \A y \in T : ~(<<y, x>> \in R)
  BY <1>2, WFMin
<1>4. ASSUME NEW y \in T PROVE x <= y
  <2>1. x \in Nat /\ y \in Nat /\ ~(y < x)
    BY <1>1, <1>3
  <2> QED BY <2>1
<1> QED BY <1>4

LEMMA StartIs ==
  ASSUME NEW m \in Seq(Keys), NEW k \in Keys
  PROVE  /\ BucketStart(m, k) \in 1..(Len(m) + 1)
         /\ \A j \in 1..(BucketStart(m, k) - 1) : Hash[m[j]] < Hash[k]
         /\ BucketStart(m, k) <= Len(m)
              => Hash[m[BucketStart(m, k)]] >= Hash[k]
<1> DEFINE n == Len(m)
           T == {i \in 1..(n + 1) : i <= n => Hash[m[i]] >= Hash[k]}
<1>1. n \in Nat /\ \A i \in 1..n : m[i] \in Keys /\ Hash[m[i]] \in Nat
  BY LenProperties, ElementOfSeq, BucketAssumption
<1>2. Hash[k] \in Nat
  BY BucketAssumption
<1>3. T \subseteq Nat /\ n + 1 \in T
  BY <1>1
<1>4. PICK x \in T : \A y \in T : x <= y
  BY <1>3, Least
<1>5. ASSUME NEW j \in 1..(x - 1) PROVE Hash[m[j]] < Hash[k]
  <2>1. j \in 1..(n + 1) /\ j <= n /\ ~(x <= j)
    BY <1>1, <1>4
  <2>2. ~(Hash[m[j]] >= Hash[k])
    BY <1>4, <2>1
  <2> QED BY <1>1, <1>2, <2>1, <2>2
<1>6. /\ x \in 1..(n + 1)
      /\ \A j \in 1..(x - 1) : Hash[m[j]] < Hash[k]
      /\ x <= n => Hash[m[x]] >= Hash[k]
  BY <1>4, <1>5
<1> QED BY <1>6 DEF BucketStart

LEMMA LinkedEffect ==
  ASSUME Chain(map), NEW k \in Keys
  PROVE  /\ Chain(Linked(k))
         /\ KeysOf(Linked(k)) = KeysOf(map) \cup {k}
         /\ \A x, y : x # k /\ y # k /\ Before(map, x, y)
                        => Before(Linked(k), x, y)
         /\ \A y \in KeysOf(map) \ {k} :
              Hash[y] >= Hash[k] => Before(Linked(k), k, y)
<1> DEFINE m == Without(k)
           n == Len(m)
           p == BucketStart(m, k)
           r == SubSeq(m, 1, p - 1) \o <<k>> \o SubSeq(m, p, n)
           New(j) == IF j < p THEN j ELSE j + 1
           Old(j) == IF j < p THEN j ELSE j - 1
<1>1. Linked(k) = r
  BY DEF Linked
<1>2. /\ Chain(m) /\ KeysOf(m) = KeysOf(map) \ {k}
      /\ \A x, y : x # k /\ y # k /\ Before(map, x, y) => Before(m, x, y)
  BY WithoutEffect
<1>3. m \in Seq(Keys)
  BY <1>2 DEF Chain
<1> HIDE DEF m
<1>4. /\ p \in 1..(n + 1)
      /\ \A j \in 1..(p - 1) : Hash[m[j]] < Hash[k]
      /\ p <= n => Hash[m[p]] >= Hash[k]
  BY <1>3, StartIs
<1>5. /\ r \in Seq(Keys) /\ Len(r) = n + 1
      /\ \A j \in 1..(n + 1) : r[j] = IF j < p THEN m[j]
                                      ELSE IF j = p THEN k ELSE m[j - 1]
  <2>1. p \in 1..(Len(m) + 1)
    BY <1>4
  <2> HIDE DEF p
  <2>2. /\ r \in Seq(Keys) /\ Len(r) = Len(m) + 1
        /\ \A j \in 1..Len(r) : r[j] = IF j < p THEN m[j]
                                      ELSE IF j = p THEN k ELSE m[j - 1]
    BY <1>3, <2>1, Inserted
  <2> HIDE DEF r
  <2> QED BY <2>2
<1>6. n \in Nat /\ \A i \in 1..n : m[i] \in Keys /\ m[i] # k
  <2>1. \A i \in 1..n : m[i] \in KeysOf(m)
    BY DEF KeysOf
  <2> QED BY <1>2, <1>3, <2>1, LenProperties, ElementOfSeq
<1>7. \A i \in Keys : Hash[i] \in Nat
  BY BucketAssumption
<1>8. \A i, j \in 1..n : i < j => m[i] # m[j] /\ Hash[m[i]] <= Hash[m[j]]
  BY <1>2 DEF Chain
<1> HIDE DEF n, p, r
<1>9. /\ p \in 1..(n + 1) /\ r[p] = k
      /\ \A j \in (1..(n + 1)) \ {p} :
           Old(j) \in 1..n /\ r[j] = m[Old(j)] /\ (j < p <=> Old(j) < p)
      /\ \A j \in 1..n :
           /\ New(j) \in (1..(n + 1)) \ {p} /\ r[New(j)] = m[j]
           /\ j < p <=> New(j) < p
  <2>1. p \in 1..(n + 1) /\ r[p] = k
    BY <1>4, <1>5, <1>6
  <2>2. ASSUME NEW j \in (1..(n + 1)) \ {p}
        PROVE  Old(j) \in 1..n /\ r[j] = m[Old(j)] /\ (j < p <=> Old(j) < p)
    BY <1>5, <1>6, <2>1
  <2>3. ASSUME NEW j \in 1..n
        PROVE  /\ New(j) \in (1..(n + 1)) \ {p} /\ r[New(j)] = m[j]
               /\ j < p <=> New(j) < p
    <3>1. /\ New(j) \in 1..(n + 1) /\ New(j) # p
          /\ j < p <=> New(j) < p
      BY <1>6, <2>1
    <3>2. CASE j < p
      BY <1>5, <3>1, <3>2
    <3>3. CASE ~(j < p)
      <4>1. New(j) = j + 1 /\ j + 1 - 1 = j /\ ~(j + 1 < p) /\ j + 1 # p
        BY <1>6, <2>1, <3>3
      <4> QED BY <1>5, <3>1, <4>1
    <3> QED BY <3>1, <3>2, <3>3
  <2> QED BY <2>1, <2>2, <2>3
<1>10. /\ \A i, j \in (1..(n + 1)) \ {p} : i < j => Old(i) < Old(j)
       /\ \A i, j \in 1..n : i < j => New(i) < New(j)
  BY <1>4, <1>6
<1> HIDE DEF New, Old
<1>11. \A i \in 1..n : i >= p => Hash[m[i]] >= Hash[k]
  <2>1. ASSUME NEW i \in 1..n, i >= p PROVE Hash[m[i]] >= Hash[k]
    <3>1. p \in 1..n /\ Hash[m[p]] >= Hash[k]
      BY <1>4, <1>6, <2>1
    <3>2. i = p \/ Hash[m[p]] <= Hash[m[i]]
      BY <1>8, <2>1, <3>1
    <3>3. Hash[m[p]] \in Nat /\ Hash[m[i]] \in Nat /\ Hash[k] \in Nat
      BY <1>6, <1>7, <3>1
    <3> QED BY <3>1, <3>2, <3>3
  <2> QED BY <2>1
<1>12. Chain(r)
  <2>1. ASSUME NEW i \in 1..(n + 1), NEW j \in 1..(n + 1), i < j
        PROVE  r[i] # r[j] /\ Hash[r[i]] <= Hash[r[j]]
    <3>1. CASE i # p /\ j # p
      <4>1. /\ Old(i) \in 1..n /\ Old(j) \in 1..n /\ Old(i) < Old(j)
            /\ r[i] = m[Old(i)] /\ r[j] = m[Old(j)]
        BY <1>9, <1>10, <2>1, <3>1
      <4>2. m[Old(i)] # m[Old(j)] /\ Hash[m[Old(i)]] <= Hash[m[Old(j)]]
        BY <1>8, <4>1
      <4> QED BY <4>1, <4>2
    <3>2. CASE i = p
      <4>1. /\ j # p /\ ~(j < p)
        BY <1>4, <2>1, <3>2
      <4>2. Old(j) \in 1..n /\ r[j] = m[Old(j)] /\ ~(Old(j) < p)
        BY <1>9, <4>1
      <4>3. Hash[m[Old(j)]] >= Hash[k] /\ m[Old(j)] # k
        BY <1>4, <1>6, <1>11, <4>2
      <4>4. Hash[m[Old(j)]] \in Nat /\ Hash[k] \in Nat
        BY <1>6, <1>7, <4>2
      <4> QED BY <1>9, <3>2, <4>2, <4>3, <4>4
    <3>3. CASE j = p
      <4>1. i # p /\ i < p
        BY <1>4, <2>1, <3>3
      <4>2. Old(i) \in 1..n /\ r[i] = m[Old(i)] /\ Old(i) < p
        BY <1>9, <4>1
      <4>3. Old(i) \in 1..(p - 1) /\ m[Old(i)] # k
        BY <1>4, <1>6, <4>2
      <4>4. Hash[m[Old(i)]] < Hash[k]
        BY <1>4, <4>3
      <4>5. Hash[m[Old(i)]] \in Nat /\ Hash[k] \in Nat
        BY <1>6, <1>7, <4>2
      <4> QED BY <1>9, <3>3, <4>2, <4>3, <4>4, <4>5
    <3> QED BY <3>1, <3>2, <3>3
  <2> QED BY <1>5, <2>1 DEF Chain
<1>13. KeysOf(r) = KeysOf(m) \cup {k}
  <2>1. ASSUME NEW x \in KeysOf(r) PROVE x \in KeysOf(m) \cup {k}
    <3>1. PICK j \in 1..(n + 1) : x = r[j]
      BY <1>5, <2>1 DEF KeysOf
    <3>2. j = p \/ (Old(j) \in 1..n /\ r[j] = m[Old(j)])
      BY <1>9
    <3> QED BY <1>9, <3>1, <3>2 DEF KeysOf, n
  <2>2. ASSUME NEW x \in KeysOf(m) PROVE x \in KeysOf(r)
    <3>1. PICK j \in 1..n : x = m[j]
      BY <2>2 DEF KeysOf, n
    <3> QED BY <1>5, <1>9, <3>1 DEF KeysOf
  <2>3. k \in KeysOf(r)
    BY <1>5, <1>9 DEF KeysOf
  <2> QED BY <2>1, <2>2, <2>3
<1>14. ASSUME NEW x, NEW y, Before(m, x, y) PROVE Before(r, x, y)
  <2>1. PICK i \in 1..n, j \in 1..n : i < j /\ m[i] = x /\ m[j] = y
    BY <1>14 DEF Before, n
  <2>2. /\ New(i) \in 1..Len(r) /\ New(j) \in 1..Len(r)
        /\ New(i) < New(j) /\ r[New(i)] = x /\ r[New(j)] = y
    BY <1>5, <1>9, <1>10, <2>1
  <2> QED BY <2>2 DEF Before
<1>15. ASSUME NEW y \in KeysOf(m), Hash[y] >= Hash[k]
       PROVE  Before(r, k, y)
  <2>1. PICK j \in 1..n : m[j] = y
    BY DEF KeysOf, n
  <2>2. ~(j < p)
    <3>1. SUFFICES ASSUME j < p PROVE FALSE
      OBVIOUS
    <3>2. j \in 1..(p - 1)
      BY <1>4, <1>6, <3>1
    <3>3. Hash[y] < Hash[k] /\ Hash[y] \in Nat /\ Hash[k] \in Nat
      BY <1>4, <1>6, <1>7, <2>1, <3>2
    <3> QED BY <1>15, <3>3
  <2>3. New(j) \in 1..(n + 1) /\ New(j) # p /\ r[New(j)] = y /\ ~(New(j) < p)
    BY <1>9, <2>1, <2>2
  <2>4. p < New(j) /\ p \in 1..Len(r) /\ New(j) \in 1..Len(r)
    BY <1>4, <1>5, <1>6, <2>3
  <2> QED BY <1>9, <2>3, <2>4 DEF Before
<1> QED BY <1>1, <1>2, <1>12, <1>13, <1>14, <1>15

LEMMA NextIs ==
  ASSUME Chain(map), NEW c
  PROVE  /\ NextKey(c) # NoKey => NextKey(c) \in KeysOf(map)
         /\ c \in KeysOf(map) =>
              IF NextKey(c) = NoKey THEN \A y : ~Before(map, c, y)
              ELSE \A y : Before(map, c, y) =>
                            y = NextKey(c) \/ Before(map, NextKey(c), y)
         /\ c \notin KeysOf(map) =>
              IF NextKey(c) = NoKey THEN KeysOf(map) = {}
              ELSE \A y \in KeysOf(map) :
                     y = NextKey(c) \/ Before(map, NextKey(c), y)
<1> DEFINE n == Len(map)
<1>1. /\ n \in Nat /\ map \in Seq(Keys)
      /\ \A i \in 1..n : map[i] \in Keys /\ map[i] # NoKey
      /\ \A i, j \in 1..n : i # j => map[i] # map[j]
  <2>1. n \in Nat /\ \A i \in 1..n : map[i] \in Keys
    BY LenProperties, ElementOfSeq DEF Chain
  <2>2. ASSUME NEW i \in 1..n, NEW j \in 1..n, i # j PROVE map[i] # map[j]
    <3>1. i < j \/ j < i
      BY <2>2
    <3> QED BY <3>1 DEF Chain
  <2> QED BY <2>1, <2>2, BucketAssumption DEF Chain
<1> HIDE DEF n
<1>2. CASE c \in KeysOf(map)
  <2> DEFINE p == Place(c)
  <2>1. p \in 1..n /\ map[p] = c
    BY <1>2, PlaceIs DEF n
  <2>2. NextKey(c) = IF p = n THEN NoKey ELSE map[p + 1]
    BY <1>2, PresentKeys DEF NextKey, n
  <2> HIDE DEF p
  <2>3. ASSUME NEW y, Before(map, c, y)
        PROVE  p # n /\ (y = map[p + 1] \/ Before(map, map[p + 1], y))
    <3>1. PICK i \in 1..n, j \in 1..n : i < j /\ map[i] = c /\ map[j] = y
      BY <2>3 DEF Before, n
    <3>2. i = p
      BY <1>1, <2>1, <3>1
    <3>3. p # n /\ p + 1 \in 1..n /\ (j = p + 1 \/ p + 1 < j)
      BY <1>1, <2>1, <3>1, <3>2
    <3> QED BY <3>1, <3>3 DEF Before, n
  <2>4. p # n => p + 1 \in 1..n
    BY <1>1, <2>1
  <2>5. p # n => map[p + 1] \in KeysOf(map) /\ map[p + 1] # NoKey
    BY <1>1, <2>4 DEF KeysOf, n
  <2>6. NextKey(c) = NoKey <=> p = n
    BY <2>2, <2>5
  <2>7. CASE p = n
    BY <1>2, <2>3, <2>6, <2>7
  <2>8. CASE p # n
    <3>1. NextKey(c) = map[p + 1] /\ NextKey(c) # NoKey
      BY <2>2, <2>6, <2>8
    <3> QED BY <1>2, <2>3, <2>5, <2>8, <3>1
  <2> QED BY <2>7, <2>8
<1>3. CASE c \notin KeysOf(map)
  <2>1. NextKey(c) = IF map = <<>> THEN NoKey ELSE Head(map)
    BY <1>3, PresentKeys DEF NextKey
  <2>2. CASE map = <<>>
    <3>1. n = 0
      BY <2>2, EmptySeq DEF n
    <3> QED BY <1>3, <2>1, <2>2, <3>1 DEF KeysOf, n
  <2>3. CASE map # <<>>
    <3>1. n \in Nat \ {0} /\ Head(map) = map[1]
      BY <1>1, <2>3, EmptySeq DEF n
    <3>2. 1 \in 1..n /\ map[1] \in KeysOf(map) /\ map[1] # NoKey
      BY <1>1, <3>1 DEF KeysOf, n
    <3>3. ASSUME NEW y \in KeysOf(map)
          PROVE  y = map[1] \/ Before(map, map[1], y)
      <4>1. PICK j \in 1..n : map[j] = y
        BY DEF KeysOf, n
      <4>2. j = 1 \/ 1 < j
        BY <4>1
      <4> QED BY <3>2, <4>1, <4>2 DEF Before, n
    <3>4. NextKey(c) = map[1]
      BY <2>1, <2>3, <3>1
    <3> QED BY <1>3, <3>2, <3>3, <3>4
  <2> QED BY <2>2, <2>3
<1> QED BY <1>2, <1>3

------------------------------------------------------------------------------
(* What a walk has before it *)

(* The walk whose last key was c will still be given k: k comes after c    *)
(* in the map or, if c has gone, would come after it were it entered anew. *)
Ahead(m, c, k) ==
  IF c \in KeysOf(m) THEN Before(m, c, k) ELSE c = NoKey \/ Hash[c] <= Hash[k]

LEMMA BeforeHash ==
  ASSUME NEW m, Chain(m), NEW x, NEW y, Before(m, x, y)
  PROVE  x # y /\ Hash[x] <= Hash[y]
BY DEF Chain, Before

LEMMA AheadKept ==
  ASSUME Chain(map), NEW k \in Keys, NEW c \in Keys \cup {NoKey},
         NEW y \in KeysOf(map), y # k, Ahead(map, c, y)
  PROVE  Ahead(Without(k), c, y) /\ Ahead(Linked(k), c, y)
<1>1. NoKey \notin Keys /\ KeysOf(map) \subseteq Keys
  BY BucketAssumption, PresentKeys
<1>2. c # NoKey => Hash[c] <= Hash[y]
  <2>1. CASE c \in KeysOf(map)
    BY <2>1, BeforeHash DEF Ahead
  <2>2. CASE c \notin KeysOf(map)
    BY <2>2 DEF Ahead
  <2> QED BY <2>1, <2>2
<1>3. c \in KeysOf(map) => Before(map, c, y)
  BY DEF Ahead
<1>4. Ahead(Without(k), c, y)
  <2>1. /\ KeysOf(Without(k)) = KeysOf(map) \ {k}
        /\ c # k /\ Before(map, c, y) => Before(Without(k), c, y)
    BY WithoutEffect
  <2> QED BY <1>1, <1>2, <1>3, <2>1 DEF Ahead
<1>5. Ahead(Linked(k), c, y)
  <2>1. /\ KeysOf(Linked(k)) = KeysOf(map) \cup {k}
        /\ c # k /\ Before(map, c, y) => Before(Linked(k), c, y)
        /\ Hash[y] >= Hash[k] => Before(Linked(k), k, y)
    BY LinkedEffect
  <2>2. CASE c = k
    <3>1. Hash[k] \in Nat /\ Hash[y] \in Nat /\ Hash[k] <= Hash[y]
      BY <1>1, <1>2, <2>2, BucketAssumption
    <3>2. Before(Linked(k), k, y)
      BY <2>1, <3>1
    <3> QED BY <2>1, <2>2, <3>2 DEF Ahead
  <2>3. CASE c # k
    BY <1>1, <1>2, <1>3, <2>1, <2>3 DEF Ahead
  <2> QED BY <2>2, <2>3
<1> QED BY <1>4, <1>5

LEMMA AheadNext ==
  ASSUME Chain(map), NEW c, NEW y \in KeysOf(map), Ahead(map, c, y)
  PROVE  /\ NextKey(c) # NoKey
         /\ NextKey(c) \in Keys
         /\ y = NextKey(c) \/ Ahead(map, NextKey(c), y)
<1>1. KeysOf(map) \subseteq Keys
  BY PresentKeys
<1>2. NextKey(c) # NoKey /\ (y = NextKey(c) \/ Before(map, NextKey(c), y))
  BY NextIs DEF Ahead
<1>3. NextKey(c) \in KeysOf(map)
  BY <1>2, NextIs
<1> QED BY <1>1, <1>2, <1>3 DEF Ahead

------------------------------------------------------------------------------
(* Types *)

ClearType ==
  [at : {"off", "collect", "delete", "done"}, cursor : Keys \cup {NoKey},
   keys : Seq(Keys)]

TickerType ==
  [at : {"walk", "select", "stopped"}, cursor : Keys \cup {NoKey}, n : Nat]

WalkTyped ==
  /\ Chain(map)
  /\ churn \in 0..MaxChurn
  /\ clear \in ClearType
  /\ untouched \in [Walkers -> SUBSET Keys]
  /\ \A w \in Walkers : untouched[w] \subseteq KeysOf(map)

DaemonTyped ==
  /\ main \in {"serving", "draining", "waiting", "closing", "closed",
               "exited"}
  /\ listening \in BOOLEAN
  /\ listening => main = "serving"
  /\ running \in 0..MaxHandlers
  /\ expired \in BOOLEAN /\ cancelled \in BOOLEAN /\ mapsOpen \in BOOLEAN
  /\ ticker \in TickerType /\ gauge \in Nat

Typed == WalkTyped /\ DaemonTyped

LEMMA ChainLength ==
  ASSUME NEW m, Chain(m)
  PROVE  Len(m) = Cardinality(KeysOf(m))
<1> DEFINE n == Len(m)
<1>1. n \in Nat /\ m \in [1..n -> Keys]
  BY LenProperties DEF Chain
<1>2. m \in Bijection(1..n, KeysOf(m))
  <2>1. m \in [1..n -> KeysOf(m)]
    BY <1>1 DEF KeysOf
  <2>2. ASSUME NEW i \in 1..n, NEW j \in 1..n, i # j PROVE m[i] # m[j]
    <3>1. i < j \/ j < i
      BY <1>1, <2>2
    <3> QED BY <3>1 DEF Chain
  <2>3. \A x \in KeysOf(m) : \E i \in 1..n : m[i] = x
    BY DEF KeysOf
  <2> QED BY <2>1, <2>2, <2>3
          DEF Bijection, Injection, Surjection, IsInjective
<1>3. IsFiniteSet(1..n) /\ Cardinality(1..n) = n
  <2>1. /\ IsFiniteSet(1..n)
        /\ Cardinality(1..n) = IF 1 > n THEN 0 ELSE n - 1 + 1
    BY <1>1, FS_Interval
  <2> HIDE DEF n
  <2> QED BY <1>1, <2>1
<1>4. ExistsBijection(1..n, KeysOf(m))
  BY <1>2 DEF ExistsBijection
<1> QED BY <1>3, <1>4, FS_Bijection

LEMMA TypedMeans == Typed => TypeOK
<1> SUFFICES ASSUME Typed PROVE TypeOK
  OBVIOUS
<1>1. /\ Len(map) = Cardinality(Present) /\ Present \subseteq Keys
      /\ \A w \in Walkers : untouched[w] \subseteq Present
  BY PresentKeys, ChainLength DEF Typed, WalkTyped
<1>2. /\ clear.at \in {"off", "collect", "delete", "done"}
      /\ clear.cursor \in Keys \cup {NoKey} /\ clear.keys \in Seq(Keys)
      /\ ticker.at \in {"walk", "select", "stopped"}
      /\ ticker.cursor \in Keys \cup {NoKey} /\ ticker.n \in Nat
  BY DEF Typed, WalkTyped, DaemonTyped, ClearType, TickerType
<1> QED BY <1>1, <1>2 DEF TypeOK, Typed, WalkTyped, DaemonTyped

LEMMA ChainInit == map \in Orders => Chain(map)
<1> SUFFICES ASSUME map \in Orders PROVE Chain(map)
  OBVIOUS
<1>1. Cardinality(Keys) \in Nat
  BY BucketAssumption, FS_CardinalityType
<1>2. PICK n \in 0..Cardinality(Keys) : map \in [1..n -> Keys]
  BY DEF Orders
<1>3. n \in Nat /\ map \in Seq(Keys) /\ Len(map) = n /\ DOMAIN map = 1..n
  BY <1>1, <1>2
<1>4. \A i, j \in DOMAIN map :
        i < j => map[i] # map[j] /\ Hash[map[i]] <= Hash[map[j]]
  BY DEF Orders
<1> QED BY <1>3, <1>4 DEF Chain

LEMMA TypedInit == Init => Typed
<1> SUFFICES ASSUME Init PROVE Typed
  OBVIOUS
<1>1. Chain(map)
  BY ChainInit DEF Init, WalkInit
<1>2. WalkTyped
  <2>1. Present = KeysOf(map) /\ Present \subseteq Keys
    BY <1>1, PresentKeys
  <2>2. <<>> \in Seq(Keys)
    BY EmptySeq
  <2> QED BY <1>1, <2>1, <2>2, KeyWalkAssumption
          DEF Init, WalkInit, WalkTyped, ClearType
<1>3. DaemonTyped
  <2>1. ticker \in TickerType
    BY DEF Init, TickerType
  <2>2. running \in 0..MaxHandlers
    BY DaemonAssumption DEF Init
  <2> QED BY <2>1, <2>2 DEF Init, DaemonTyped
<1> QED BY <1>2, <1>3 DEF Typed

(* What becomes of the map. *)
Changed(k) ==
  /\ map' = Linked(k) \/ map' = Without(k)
  /\ Touched(k)

LEMMA ChangedTypes ==
  ASSUME WalkTyped, NEW k \in Keys, Changed(k)
  PROVE  /\ Chain(map)'
         /\ untouched' \in [Walkers -> SUBSET Keys]
         /\ \A w \in Walkers : untouched'[w] = untouched[w] \ {k}
         /\ \A w \in Walkers : untouched'[w] \subseteq KeysOf(map')
<1>1. /\ untouched' \in [Walkers -> SUBSET Keys]
      /\ \A w \in Walkers : untouched'[w] = untouched[w] \ {k}
  BY DEF Changed, Touched, WalkTyped
<1>2. Chain(map') /\ KeysOf(map) \ {k} \subseteq KeysOf(map')
  BY LinkedEffect, WithoutEffect DEF Changed, WalkTyped
<1> QED BY <1>1, <1>2 DEF WalkTyped, Chain

LEMMA KeysSequence ==
  ASSUME NEW q \in Seq(Keys)
  PROVE  /\ \A k \in Keys : /\ Append(q, k) \in Seq(Keys)
                            /\ KeysOf(Append(q, k)) = KeysOf(q) \cup {k}
         /\ q # <<>> => /\ Head(q) \in Keys /\ Tail(q) \in Seq(Keys)
                        /\ KeysOf(q) = KeysOf(Tail(q)) \cup {Head(q)}
         /\ q = <<>> => KeysOf(q) = {}
<1> DEFINE n == Len(q)
<1>1. n \in Nat
  BY LenProperties
<1>2. ASSUME NEW k \in Keys
      PROVE  /\ Append(q, k) \in Seq(Keys)
             /\ KeysOf(Append(q, k)) = KeysOf(q) \cup {k}
  <2> DEFINE a == Append(q, k)
  <2>1. /\ a \in Seq(Keys) /\ Len(a) = n + 1
        /\ \A i \in 1..n : a[i] = q[i]
        /\ a[n + 1] = k
    BY AppendProperties
  <2> HIDE DEF a
  <2>2. 1..(n + 1) = (1..n) \cup {n + 1}
    BY <1>1
  <2> HIDE DEF n
  <2>3. ASSUME NEW x \in KeysOf(a) PROVE x \in KeysOf(q) \cup {k}
    <3>1. PICK i \in 1..(n + 1) : x = a[i]
      BY <2>1, <2>3 DEF KeysOf
    <3> QED BY <2>1, <2>2, <3>1 DEF KeysOf, n
  <2>4. ASSUME NEW x \in KeysOf(q) \cup {k} PROVE x \in KeysOf(a)
    <3>1. x = k \/ \E i \in 1..n : x = q[i]
      BY <2>4 DEF KeysOf, n
    <3>2. n + 1 \in 1..(n + 1)
      BY <2>2
    <3> QED BY <2>1, <2>2, <3>1, <3>2 DEF KeysOf
  <2>5. KeysOf(a) = KeysOf(q) \cup {k}
    BY <2>3, <2>4
  <2> QED BY <2>1, <2>5 DEF a
<1>3. ASSUME q # <<>>
      PROVE  /\ Head(q) \in Keys /\ Tail(q) \in Seq(Keys)
             /\ KeysOf(q) = KeysOf(Tail(q)) \cup {Head(q)}
  <2> DEFINE t == Tail(q)
  <2>1. /\ n \in Nat \ {0} /\ Head(q) \in Keys /\ t \in Seq(Keys)
        /\ Len(t) = n - 1 /\ \A i \in 1..Len(t) : t[i] = q[i + 1]
        /\ Head(q) = q[1]
    BY <1>3, HeadTailProperties, EmptySeq
  <2> HIDE DEF t, n
  <2>2. ASSUME NEW x \in KeysOf(q) PROVE x \in KeysOf(t) \cup {q[1]}
    <3>1. PICK i \in 1..n : x = q[i]
      BY <2>2 DEF KeysOf, n
    <3>2. i = 1 \/ (i - 1 \in 1..(n - 1) /\ i - 1 + 1 = i)
      BY <2>1
    <3>3. i = 1 \/ (i - 1 \in 1..Len(t) /\ t[i - 1] = q[i])
      BY <2>1, <3>2
    <3> QED BY <3>1, <3>3 DEF KeysOf
  <2>3. ASSUME NEW x \in KeysOf(t) \cup {q[1]} PROVE x \in KeysOf(q)
    <3>1. x = q[1] \/ \E i \in 1..(n - 1) : x = q[i + 1]
      BY <2>1, <2>3 DEF KeysOf
    <3>2. 1 \in 1..n /\ \A i \in 1..(n - 1) : i + 1 \in 1..n
      BY <2>1
    <3> QED BY <3>1, <3>2 DEF KeysOf, n
  <2>4. KeysOf(q) = KeysOf(t) \cup {q[1]}
    BY <2>2, <2>3
  <2> QED BY <2>1, <2>4 DEF t
<1>4. q = <<>> => KeysOf(q) = {}
  BY EmptySeq DEF KeysOf
<1> QED BY <1>2, <1>3, <1>4

(* Every step either changes the map by one key, or leaves it alone. *)
LEMMA OthersSteps ==
  ASSUME Typed, Others
  PROVE  /\ UNCHANGED <<mainVars, serverVars, tickerVars>>
         /\ \/ \E k \in Keys : Changed(k) /\ UNCHANGED clear
                                 /\ churn' = churn + 1 /\ churn < MaxChurn
            \/ /\ DeleteKey
               /\ Head(clear.keys) \in Keys /\ Changed(Head(clear.keys))
            \/ ClearStart \/ CollectKey \/ ClearDone
<1>1. CASE \E k \in Keys : Update(k) \/ MakeRoom(k)
  BY <1>1 DEF Others, Update, MakeRoom, Changed
<1>2. CASE DeleteKey
  <2>1. Head(clear.keys) \in Keys
    BY <1>2, KeysSequence DEF DeleteKey, Typed, WalkTyped, ClearType
  <2> QED BY <1>2, <2>1 DEF Others, DeleteKey, Changed
<1>3. CASE ClearStart \/ CollectKey \/ ClearDone
  BY <1>3 DEF Others
<1> QED BY <1>1, <1>2, <1>3 DEF Others, Clear

LEMMA NextKeyType ==
  ASSUME Chain(map), NEW c
  PROVE  NextKey(c) \in Keys \cup {NoKey}
BY NextIs, PresentKeys

LEMMA OthersTyped ==
  ASSUME Typed, Others
  PROVE  Typed'
<1>1. UNCHANGED <<mainVars, serverVars, tickerVars>>
  BY OthersSteps
<1>2. DaemonTyped'
  BY <1>1 DEF Typed, DaemonTyped, mainVars, serverVars, tickerVars
<1> SUFFICES WalkTyped'
  BY <1>2 DEF Typed
<1>3. ASSUME NEW k \in Keys, Changed(k), UNCHANGED clear,
             churn' = churn + 1, churn < MaxChurn
      PROVE  WalkTyped'
  <2>1. churn' \in 0..MaxChurn
    BY <1>3, KeyWalkAssumption DEF Typed, WalkTyped
  <2> QED BY <1>3, <2>1, ChangedTypes DEF Typed, WalkTyped
<1>4. CASE DeleteKey /\ Head(clear.keys) \in Keys /\ Changed(Head(clear.keys))
  <2>1. clear' \in ClearType
    <3>1. clear.keys # <<>> /\ clear' = [clear EXCEPT !.keys = Tail(@)]
      BY <1>4 DEF DeleteKey
    <3>2. clear \in ClearType /\ Tail(clear.keys) \in Seq(Keys)
      BY <3>1, KeysSequence DEF Typed, WalkTyped, ClearType
    <3> QED BY <3>1, <3>2 DEF ClearType
  <2>2. churn' = churn
    BY <1>4 DEF DeleteKey
  <2> QED BY <1>4, <2>1, <2>2, ChangedTypes DEF Typed, WalkTyped
<1>5. CASE ClearStart
  <2>1. clear' \in ClearType
    BY <1>5, EmptySeq DEF ClearStart, ClearType
  <2>2. /\ UNCHANGED <<map, churn>>
        /\ untouched' = [untouched EXCEPT !["clear"] = Present]
    BY <1>5 DEF ClearStart, mapVars
  <2>3. Present = KeysOf(map) /\ Present \subseteq Keys
    BY PresentKeys DEF Typed, WalkTyped
  <2> QED BY <2>1, <2>2, <2>3 DEF Typed, WalkTyped, Chain
<1>6. CASE CollectKey
  <2>1. UNCHANGED <<map, churn, untouched>>
    BY <1>6 DEF CollectKey, mapVars
  <2>2. clear' \in ClearType
    <3> DEFINE next == NextKey(clear.cursor)
    <3>1. next \in Keys \cup {NoKey}
      BY NextKeyType DEF Typed, WalkTyped
    <3>2. clear' = IF next = NoKey THEN [clear EXCEPT !.at = "delete"]
                   ELSE [clear EXCEPT !.cursor = next,
                                      !.keys = Append(@, next)]
      BY <1>6 DEF CollectKey
    <3> HIDE DEF next
    <3>3. clear \in ClearType /\ clear.keys \in Seq(Keys)
      BY DEF Typed, WalkTyped, ClearType
    <3>4. next \in Keys => Append(clear.keys, next) \in Seq(Keys)
      BY <3>3, KeysSequence
    <3> QED BY <3>1, <3>2, <3>3, <3>4 DEF ClearType
  <2> QED BY <2>1, <2>2 DEF Typed, WalkTyped, Chain
<1>7. CASE ClearDone
  <2>1. UNCHANGED <<map, churn, untouched>>
        /\ clear' = [clear EXCEPT !.at = "done", !.cursor = NoKey]
    BY <1>7 DEF ClearDone, mapVars
  <2>2. clear' \in ClearType
    BY <2>1 DEF Typed, WalkTyped, ClearType
  <2> QED BY <2>1, <2>2 DEF Typed, WalkTyped, Chain
<1> QED BY <1>3, <1>4, <1>5, <1>6, <1>7, OthersSteps

(* What the daemon's goroutines do to the walks: only the ticker's start   *)
(* of a walk is a fact about the map.                                      *)
LEMMA DaemonSteps ==
  ASSUME Typed, [Next]_vars
  PROVE  Others \/ /\ UNCHANGED <<map, churn, clear>>
                   /\ UNCHANGED untouched \/ TimerFires
BY DEF Next, vars, walkVars, Signal, ServerFails, ServeError, BeginShutdown,
       Deadline, Main, Cancel, WaitTicker, CloseMaps, Exit, Request, Respond,
       Ticker, CountKey, TimerFires, StopTicker, mapVars

LEMMA CountKeyTyped ==
  ASSUME Typed, CountKey
  PROVE  ticker' \in TickerType /\ gauge' \in Nat
<1> DEFINE next == NextKey(ticker.cursor)
<1>1. next \in Keys \cup {NoKey}
  BY NextKeyType DEF Typed, WalkTyped
<1>2. IF next = NoKey
      THEN /\ ticker' = [at |-> "select", cursor |-> NoKey, n |-> 0]
           /\ gauge' = ticker.n
      ELSE /\ ticker' = [ticker EXCEPT !.cursor = next, !.n = @ + 1]
           /\ gauge' = gauge
  BY DEF CountKey
<1> HIDE DEF next
<1>3. ticker \in TickerType /\ ticker.n \in Nat /\ gauge \in Nat
  BY DEF Typed, DaemonTyped, TickerType
<1>4. CASE next = NoKey
  BY <1>2, <1>3, <1>4 DEF TickerType
<1>5. CASE next # NoKey
  <2>1. ticker.n + 1 \in Nat
    BY <1>3
  <2> QED BY <1>1, <1>2, <1>3, <1>5, <2>1 DEF TickerType
<1> QED BY <1>4, <1>5

LEMMA TypedNext ==
  ASSUME Typed, [Next]_vars
  PROVE  Typed'
<1>1. CASE Others
  BY <1>1, OthersTyped
<1>2. CASE UNCHANGED vars
  BY <1>2 DEF vars, walkVars, mainVars, serverVars, tickerVars, Typed,
              WalkTyped, DaemonTyped, Chain
<1>3. ASSUME UNCHANGED walkVars PROVE WalkTyped'
  BY <1>3 DEF walkVars, Typed, WalkTyped, Chain
<1>4. CASE Signal \/ ServerFails \/ ServeError \/ Deadline \/ Main
  <2>1. UNCHANGED <<walkVars, ticker, gauge>>
    BY <1>4 DEF Signal, ServerFails, ServeError, BeginShutdown, Deadline,
                Main, Cancel, WaitTicker, CloseMaps, Exit, tickerVars
  <2> SUFFICES DaemonTyped'
    BY <1>3, <2>1 DEF Typed
  <2>2. CASE Signal \/ ServerFails \/ ServeError
    BY <2>1, <2>2 DEF Signal, ServerFails, ServeError, BeginShutdown,
                      mainVars, Typed, DaemonTyped
  <2>3. CASE Deadline \/ CloseMaps
    <3>1. /\ UNCHANGED <<listening, running, cancelled>>
          /\ expired' \in {TRUE, expired} /\ mapsOpen' \in {FALSE, mapsOpen}
          /\ main # "serving" /\ main' \in {"draining", "closed"}
      BY <2>3 DEF Deadline, CloseMaps, serverVars
    <3> QED BY <2>1, <3>1 DEF Typed, DaemonTyped
  <2>5. CASE Cancel \/ WaitTicker
    <3>1. /\ UNCHANGED <<listening, running, expired, mapsOpen>>
          /\ cancelled' \in {TRUE, cancelled}
          /\ main # "serving" /\ main' \in {"waiting", "closing"}
      BY <2>5 DEF Cancel, WaitTicker, serverVars
    <3> QED BY <2>1, <3>1 DEF Typed, DaemonTyped
  <2>4. CASE Exit
    <3>1. 0 \in 0..MaxHandlers
      BY DaemonAssumption
    <3> QED BY <2>1, <2>4, <3>1 DEF Exit, Typed, DaemonTyped
  <2> QED BY <1>4, <2>2, <2>3, <2>4, <2>5 DEF Main
<1>5. CASE Request \/ Respond
  <2>1. running' \in 0..MaxHandlers
    BY <1>5, DaemonAssumption DEF Request, Respond, Typed, DaemonTyped
  <2>2. UNCHANGED <<walkVars, mainVars, listening, tickerVars>>
    BY <1>5 DEF Request, Respond
  <2> QED BY <1>3, <2>1, <2>2
          DEF Typed, DaemonTyped, mainVars, tickerVars
<1>6. CASE CountKey
  <2>1. UNCHANGED <<walkVars, mainVars, serverVars>>
    BY <1>6 DEF CountKey
  <2> QED BY <1>3, <1>6, <2>1, CountKeyTyped
          DEF Typed, DaemonTyped, mainVars, serverVars
<1>7. CASE TimerFires
  <2>1. /\ UNCHANGED <<map, churn, clear, mainVars, serverVars, gauge>>
        /\ untouched' = [untouched EXCEPT !["ticker"] = Present]
        /\ ticker' = [ticker EXCEPT !.at = "walk"]
    BY <1>7 DEF TimerFires, mapVars
  <2>2. Present = KeysOf(map) /\ Present \subseteq Keys
    BY PresentKeys DEF Typed, WalkTyped
  <2>3. WalkTyped'
    BY <2>1, <2>2 DEF Typed, WalkTyped, Chain
  <2>4. ticker' \in TickerType
    BY <2>1 DEF Typed, DaemonTyped, TickerType
  <2> QED BY <2>1, <2>3, <2>4
          DEF Typed, DaemonTyped, mainVars, serverVars
<1>8. CASE StopTicker
  <2>1. /\ UNCHANGED <<walkVars, mainVars, serverVars, gauge>>
        /\ ticker' = [ticker EXCEPT !.at = "stopped"]
    BY <1>8 DEF StopTicker
  <2>2. ticker' \in TickerType
    BY <2>1 DEF Typed, DaemonTyped, TickerType
  <2> QED BY <1>3, <2>1, <2>2
          DEF Typed, DaemonTyped, mainVars, serverVars
<1> QED BY <1>1, <1>2, <1>4, <1>5, <1>6, <1>7, <1>8 DEF Next, Ticker

LEMMA AlwaysTyped == Spec => []Typed
BY TypedInit, TypedNext, PTL DEF Spec

(* The kernel's order of the map survives every insertion, replacement and *)
(* deletion, untouched keys are in it, and the server listens only         *)
(* while main serves.                                                      *)
THEOREM TypeCorrect == Spec => []TypeOK
BY AlwaysTyped, TypedMeans, PTL

------------------------------------------------------------------------------
(* Shutdown *)

Closing ==
  /\ main \in {"serving", "draining", "waiting"} => mapsOpen
  /\ main \in {"closing", "closed", "exited"} => ticker.at = "stopped"

LEMMA ClosingNext ==
  ASSUME Typed, Closing, [Next]_vars
  PROVE  Closing'
<1>1. CASE Others \/ UNCHANGED vars
  <2>1. UNCHANGED <<main, mapsOpen, ticker>>
    BY <1>1, OthersSteps DEF vars, mainVars, tickerVars
  <2> QED BY <2>1 DEF Closing
<1>2. CASE Signal \/ ServerFails \/ ServeError \/ Deadline \/ Cancel
             \/ Request \/ Respond
  BY <1>2 DEF Signal, ServerFails, ServeError, BeginShutdown, Deadline,
              Cancel, Request, Respond, Closing, mainVars, tickerVars
<1>3. CASE WaitTicker \/ CloseMaps \/ Exit
  BY <1>3 DEF WaitTicker, CloseMaps, Exit, Closing, tickerVars
<1>4. CASE Ticker
  <2>1. /\ UNCHANGED <<main, mapsOpen>>
        /\ ticker.at # "stopped"
    BY <1>4 DEF Ticker, CountKey, TimerFires, StopTicker, mainVars
  <2>2. main \in {"serving", "draining", "waiting"}
    BY <2>1 DEF Closing, Typed, DaemonTyped
  <2> QED BY <2>1, <2>2 DEF Closing
<1> QED BY <1>1, <1>2, <1>3, <1>4 DEF Next, Main

(* The maps are closed only after the ticker's goroutine has returned: a   *)
(* refresh under way at shutdown never meets a closed map (runDaemon waits *)
(* for the ticker before the deferred Close).                              *)
THEOREM MapsOutliveTicker == Spec => []TickerMapsOpen
<1>1. Init => Closing
  BY DEF Init, Closing
<1>2. Typed /\ Closing /\ [Next]_vars => Closing'
  BY ClosingNext
<1>3. Typed /\ Closing => TickerMapsOpen
  BY DEF Typed, DaemonTyped, Closing, TickerMapsOpen
<1> QED BY <1>1, <1>2, <1>3, AlwaysTyped, PTL DEF Spec

------------------------------------------------------------------------------
(* clear *)

(* A key that stayed since clear began has been collected or is still      *)
(* ahead of the cursor, and is not deleted without leaving the history.    *)
Collecting ==
  /\ clear.at = "collect" =>
       \A k \in untouched["clear"] :
         k \in KeysOf(clear.keys) \/ Ahead(map, clear.cursor, k)
  /\ clear.at = "delete" => untouched["clear"] \subseteq KeysOf(clear.keys)
  /\ clear.at = "done" => untouched["clear"] = {}

LEMMA ChangeKeepsAhead ==
  ASSUME WalkTyped, NEW k \in Keys, Changed(k), NEW w \in Walkers,
         NEW c \in Keys \cup {NoKey}, NEW y \in untouched'[w]
  PROVE  /\ y \in untouched[w] /\ y \in KeysOf(map)
         /\ Ahead(map, c, y) => Ahead(map', c, y)
<1>1. y \in untouched[w] /\ y # k
  BY ChangedTypes
<1>2. y \in KeysOf(map)
  BY <1>1 DEF WalkTyped
<1>3. Ahead(map, c, y) => Ahead(Without(k), c, y) /\ Ahead(Linked(k), c, y)
  BY <1>1, <1>2, AheadKept DEF WalkTyped
<1> QED BY <1>1, <1>2, <1>3 DEF Changed

LEMMA CollectingOthers ==
  ASSUME Typed, Collecting, Others
  PROVE  Collecting'
<1> USE DEF Walkers
<1>1. WalkTyped
  BY DEF Typed
<1>2. ASSUME NEW k \in Keys, Changed(k), UNCHANGED clear PROVE Collecting'
  <2>1. untouched'["clear"] \subseteq untouched["clear"]
    BY <1>1, <1>2, ChangedTypes
  <2>2. ASSUME NEW y \in untouched'["clear"], Ahead(map, clear.cursor, y)
        PROVE  Ahead(map', clear.cursor, y)
    <3>1. clear.cursor \in Keys \cup {NoKey}
      BY <1>1 DEF WalkTyped, ClearType
    <3> QED BY <1>1, <1>2, <2>2, <3>1, ChangeKeepsAhead
  <2> QED BY <1>2, <2>1, <2>2 DEF Collecting
<1>3. CASE DeleteKey /\ Head(clear.keys) \in Keys /\ Changed(Head(clear.keys))
  <2>1. /\ clear.at = "delete" /\ clear.keys # <<>>
        /\ clear' = [clear EXCEPT !.keys = Tail(@)]
    BY <1>3 DEF DeleteKey
  <2>2. clear.keys \in Seq(Keys) /\ clear \in ClearType
    BY <1>1 DEF WalkTyped, ClearType
  <2>3. KeysOf(clear.keys) = KeysOf(Tail(clear.keys)) \cup {Head(clear.keys)}
    BY <2>1, <2>2, KeysSequence
  <2>4. untouched'["clear"] = untouched["clear"] \ {Head(clear.keys)}
    BY <1>1, <1>3, ChangedTypes
  <2>5. clear'.at = "delete" /\ clear'.keys = Tail(clear.keys)
    BY <2>1, <2>2 DEF ClearType
  <2> QED BY <2>1, <2>3, <2>4, <2>5 DEF Collecting
<1>4. CASE ClearStart
  <2>1. clear'.at = "collect" /\ clear'.cursor = NoKey /\ map' = map
    BY <1>4 DEF ClearStart, mapVars
  <2>2. NoKey \notin KeysOf(map)
    BY <1>1, BucketAssumption, PresentKeys DEF WalkTyped
  <2> QED BY <2>1, <2>2 DEF Collecting, Ahead
<1>5. CASE CollectKey
  <2> DEFINE next == NextKey(clear.cursor)
  <2>1. /\ clear.at = "collect" /\ UNCHANGED <<map, untouched>>
        /\ clear' = IF next = NoKey THEN [clear EXCEPT !.at = "delete"]
                    ELSE [clear EXCEPT !.cursor = next,
                                       !.keys = Append(@, next)]
    BY <1>5 DEF CollectKey, mapVars
  <2>2. clear \in ClearType /\ clear.keys \in Seq(Keys)
    BY <1>1 DEF WalkTyped, ClearType
  <2>3. ASSUME NEW y \in untouched["clear"], y \notin KeysOf(clear.keys)
        PROVE  /\ next # NoKey /\ next \in Keys
               /\ y = next \/ Ahead(map, next, y)
    <3>1. Ahead(map, clear.cursor, y) /\ y \in KeysOf(map)
      BY <1>1, <2>1, <2>3 DEF Collecting, WalkTyped
    <3> QED BY <1>1, <3>1, AheadNext DEF WalkTyped
  <2>4. next \in Keys =>
          KeysOf(Append(clear.keys, next)) = KeysOf(clear.keys) \cup {next}
    BY <2>2, KeysSequence
  <2>5. next \in Keys \cup {NoKey}
    BY <1>1, NextKeyType DEF WalkTyped
  <2> HIDE DEF next
  <2>6. CASE next = NoKey
    <3>1. clear'.at = "delete" /\ clear'.keys = clear.keys
      BY <2>1, <2>2, <2>6 DEF ClearType
    <3> QED BY <2>1, <2>3, <2>6, <3>1 DEF Collecting
  <2>7. CASE next # NoKey
    <3>1. /\ clear'.at = "collect" /\ clear'.cursor = next
          /\ clear'.keys = Append(clear.keys, next)
      BY <2>1, <2>2, <2>7 DEF ClearType
    <3> QED BY <2>1, <2>3, <2>4, <2>5, <2>7, <3>1 DEF Collecting
  <2> QED BY <2>6, <2>7
<1>6. CASE ClearDone
  <2>1. clear.at = "delete" /\ clear.keys = <<>> /\ UNCHANGED untouched
    BY <1>6 DEF ClearDone
  <2>2. KeysOf(clear.keys) = {}
    BY <1>1, <2>1, KeysSequence DEF WalkTyped, ClearType
  <2>3. clear'.at = "done"
    BY <1>1, <1>6 DEF ClearDone, WalkTyped, ClearType
  <2> QED BY <2>1, <2>2, <2>3 DEF Collecting
<1> QED BY <1>2, <1>3, <1>4, <1>5, <1>6, OthersSteps

LEMMA CollectingNext ==
  ASSUME Typed, Collecting, [Next]_vars
  PROVE  Collecting'
<1>1. CASE Others
  BY <1>1, CollectingOthers
<1>2. CASE ~Others
  <2>1. UNCHANGED <<map, clear>> /\ untouched'["clear"] = untouched["clear"]
    BY <1>2, DaemonSteps DEF TimerFires, Typed, WalkTyped, Walkers
  <2> QED BY <2>1 DEF Collecting
<1> QED BY <1>1, <1>2

(* When `clear` returns, every key left in the map was entered, or entered *)
(* again, after it began: collectKeys, which holds no lock and knows only  *)
(* the last key it was given, misses no key that sat untouched, however    *)
(* many keys, buckets and changes around its cursor there are.             *)
THEOREM ClearMissesNone == Spec => []ClearLeavesOnlyNewer
<1>1. Init => Collecting
  BY DEF Init, WalkInit, Collecting
<1>2. Typed /\ Collecting /\ [Next]_vars => Collecting'
  BY CollectingNext
<1>3. Collecting => ClearLeavesOnlyNewer
  BY DEF Collecting, ClearLeavesOnlyNewer
<1> QED BY <1>1, <1>2, <1>3, AlwaysTyped, PTL DEF Spec

------------------------------------------------------------------------------
(* The ticker's count *)

(* The keys that stayed and that the walk under way has left behind. *)
Passed == {k \in untouched["ticker"] : ~Ahead(map, ticker.cursor, k)}

Counted ==
  /\ ticker.at = "walk" => Cardinality(Passed) <= ticker.n
  /\ ticker.at # "walk" => ticker.cursor = NoKey /\ ticker.n = 0

LEMMA FinitePassed ==
  ASSUME Typed
  PROVE  /\ IsFiniteSet(Passed) /\ Cardinality(Passed) \in Nat
         /\ \A S \in SUBSET Passed :
              Cardinality(S) \in Nat /\ Cardinality(S) <= Cardinality(Passed)
<1>1. Passed \subseteq Keys
  BY DEF Passed, Typed, WalkTyped, Walkers
<1>2. IsFiniteSet(Passed)
  BY <1>1, BucketAssumption, FS_Subset
<1> QED BY <1>2, FS_CardinalityType, FS_Subset

(* A walk that has not begun has passed nothing. *)
LEMMA NonePassed ==
  ASSUME Typed, ticker.cursor = NoKey
  PROVE  Cardinality(Passed) = 0
<1>1. NoKey \notin KeysOf(map)
  BY BucketAssumption, PresentKeys DEF Typed, WalkTyped
<1>2. Passed = {}
  BY <1>1 DEF Passed, Ahead
<1> QED BY <1>2, FS_EmptySet

(* One turn of the loop passes one key, the one it counts. *)
LEMMA TurnPasses ==
  ASSUME Typed, Counted, CountKey
  PROVE  /\ NextKey(ticker.cursor) = NoKey => Passed = untouched["ticker"]
         /\ NextKey(ticker.cursor) # NoKey =>
              Passed' \subseteq Passed \cup {NextKey(ticker.cursor)}
<1> DEFINE next == NextKey(ticker.cursor)
<1>1. Chain(map) /\ untouched["ticker"] \subseteq KeysOf(map)
  BY DEF Typed, WalkTyped, Walkers
<1>2. ASSUME NEW y \in untouched["ticker"], Ahead(map, ticker.cursor, y)
      PROVE  next # NoKey /\ (y = next \/ Ahead(map, next, y))
  BY <1>1, <1>2, AheadNext
<1>3. next = NoKey => Passed = untouched["ticker"]
  BY <1>2 DEF Passed
<1>4. ASSUME next # NoKey PROVE Passed' \subseteq Passed \cup {next}
  <2>1. UNCHANGED <<map, untouched>>
    BY DEF CountKey, walkVars
  <2>2. ticker'.cursor = next
    BY <1>4 DEF CountKey, Typed, DaemonTyped, TickerType
  <2> HIDE DEF next
  <2> QED BY <1>2, <2>1, <2>2 DEF Passed
<1> QED BY <1>3, <1>4

LEMMA CountedNext ==
  ASSUME Typed, Counted, [Next]_vars
  PROVE  Counted'
<1>1. CASE UNCHANGED ticker /\ Others
  <2>1. Passed' \in SUBSET Passed
    <3>1. CASE /\ UNCHANGED <<map, ticker>>
               /\ untouched'["ticker"] = untouched["ticker"]
      BY <3>1 DEF Passed
    <3>2. ASSUME NEW k \in Keys, Changed(k), UNCHANGED ticker
          PROVE  Passed' \in SUBSET Passed
      <4>1. WalkTyped /\ ticker.cursor \in Keys \cup {NoKey}
        BY DEF Typed, DaemonTyped, TickerType
      <4>2. \A y \in untouched'["ticker"] :
              /\ y \in untouched["ticker"]
              /\ Ahead(map, ticker.cursor, y) => Ahead(map', ticker.cursor, y)
        BY <3>2, <4>1, ChangeKeepsAhead DEF Walkers
      <4> QED BY <3>2, <4>2 DEF Passed
    <3>3. CASE ClearStart \/ CollectKey \/ ClearDone
      <4>1. UNCHANGED map /\ untouched'["ticker"] = untouched["ticker"]
        BY <3>3 DEF ClearStart, CollectKey, ClearDone, mapVars, Typed,
                    WalkTyped, Walkers
      <4> QED BY <1>1, <3>1, <4>1
    <3> QED BY <1>1, <3>2, <3>3, OthersSteps
  <2>2. /\ Cardinality(Passed') \in Nat
        /\ Cardinality(Passed') <= Cardinality(Passed)
        /\ Cardinality(Passed) \in Nat
    BY <2>1, FinitePassed
  <2>3. ticker.n \in Nat
    BY DEF Typed, DaemonTyped, TickerType
  <2>4. Cardinality(Passed) <= ticker.n => Cardinality(Passed') <= ticker.n
    BY <2>2, <2>3
  <2> QED BY <1>1, <2>4 DEF Counted
<1>2. CASE CountKey
  <2> DEFINE next == NextKey(ticker.cursor)
  <2>1. ticker \in TickerType /\ ticker.n \in Nat
    BY DEF Typed, DaemonTyped, TickerType
  <2>2. CASE next = NoKey
    <3>1. ticker' = [at |-> "select", cursor |-> NoKey, n |-> 0]
      BY <1>2, <2>2 DEF CountKey
    <3> QED BY <3>1 DEF Counted
  <2>3. CASE next # NoKey
    <3>1. ticker'.at = "walk" /\ ticker'.n = ticker.n + 1
      BY <1>2, <2>1, <2>3 DEF CountKey, TickerType
    <3>2. Cardinality(Passed) <= ticker.n
      BY <1>2 DEF CountKey, Counted
    <3>3. Passed' \subseteq Passed \cup {next}
      BY <1>2, <2>3, TurnPasses
    <3>4. /\ IsFiniteSet(Passed) /\ Cardinality(Passed) \in Nat
      BY FinitePassed
    <3>5. /\ IsFiniteSet(Passed \cup {next})
          /\ Cardinality(Passed \cup {next}) <= Cardinality(Passed) + 1
          /\ Cardinality(Passed \cup {next}) \in Nat
      <4> HIDE DEF next
      <4>1. /\ IsFiniteSet(Passed \cup {next})
            /\ Cardinality(Passed \cup {next}) =
                 IF next \in Passed THEN Cardinality(Passed)
                 ELSE Cardinality(Passed) + 1
        BY <3>4, FS_AddElement
      <4> QED BY <3>4, <4>1
    <3>6. /\ Cardinality(Passed') <= Cardinality(Passed \cup {next})
          /\ Cardinality(Passed') \in Nat
      BY <3>3, <3>5, FS_Subset, FS_CardinalityType
    <3>7. Cardinality(Passed') <= ticker.n + 1
      BY <2>1, <3>2, <3>4, <3>5, <3>6
    <3> QED BY <3>1, <3>7 DEF Counted
  <2> QED BY <2>2, <2>3
<1>3. CASE TimerFires
  <2>1. ticker.at = "select" /\ ticker' = [ticker EXCEPT !.at = "walk"]
        /\ UNCHANGED map
    BY <1>3 DEF TimerFires, mapVars
  <2>2. ticker'.at = "walk" /\ ticker'.cursor = NoKey /\ ticker'.n = 0
    BY <2>1 DEF Counted, Typed, DaemonTyped, TickerType
  <2>3. NoKey \notin KeysOf(map)
    BY BucketAssumption, PresentKeys DEF Typed, WalkTyped
  <2>4. Passed' = {}
    BY <2>1, <2>2, <2>3 DEF Passed, Ahead
  <2>5. Cardinality(Passed') = 0
    BY <2>4, FS_EmptySet
  <2> QED BY <2>2, <2>5 DEF Counted
<1>4. CASE StopTicker
  <2>1. ticker'.at = "stopped" /\ ticker'.cursor = NoKey /\ ticker'.n = 0
    BY <1>4 DEF StopTicker, Counted, Typed, DaemonTyped, TickerType
  <2> QED BY <2>1 DEF Counted
<1>5. CASE UNCHANGED <<map, untouched, ticker>>
  BY <1>5 DEF Counted, Passed
<1>6. ASSUME ~Others, ~Ticker PROVE UNCHANGED <<map, untouched, ticker>>
  BY <1>6 DEF Next, vars, walkVars, tickerVars, Signal, ServerFails,
              ServeError, BeginShutdown, Deadline, Main, Cancel, WaitTicker,
              CloseMaps, Exit, Request, Respond
<1>7. Others => UNCHANGED ticker
  BY DEF Others, tickerVars
<1> QED BY <1>1, <1>2, <1>3, <1>4, <1>5, <1>6, <1>7 DEF Ticker

LEMMA RefreshCovers ==
  ASSUME Typed, Counted, [Next]_vars,
         ticker.at = "walk", ticker'.at # "walk"
  PROVE  gauge' >= Cardinality(untouched["ticker"])
<1>1. CountKey
  <2>1. ~Others /\ ~UNCHANGED vars /\ ~TimerFires /\ ~StopTicker
    BY DEF Others, TimerFires, StopTicker, tickerVars, vars
  <2> QED BY <2>1 DEF Next, Ticker, Signal, ServerFails, ServeError,
                      BeginShutdown, Deadline, Main, Cancel, WaitTicker,
                      CloseMaps, Exit, Request, Respond, tickerVars
<1>2. NextKey(ticker.cursor) = NoKey /\ gauge' = ticker.n
  BY <1>1 DEF CountKey, Typed, DaemonTyped, TickerType
<1>3. Passed = untouched["ticker"]
  BY <1>1, <1>2, TurnPasses
<1>4. Cardinality(Passed) <= ticker.n /\ Cardinality(Passed) \in Nat
  BY FinitePassed DEF Counted
<1>5. ticker.n \in Nat
  BY DEF Typed, DaemonTyped, TickerType
<1> QED BY <1>2, <1>3, <1>4, <1>5

(* A refresh reports at least the keys that stayed in place while it ran:  *)
(* CountKeys may count a key twice when its cursor is evicted or moved,    *)
(* and loses none, for any map and any changes.                            *)
THEOREM RefreshCountsStayers == Spec => CountCoversStayers
<1>1. Init => Counted
  <2> SUFFICES ASSUME Init PROVE Counted
    OBVIOUS
  <2>1. Typed
    BY TypedInit
  <2>2. ticker.cursor = NoKey /\ ticker.n = 0
    BY DEF Init
  <2>3. Cardinality(Passed) = 0
    BY <2>1, <2>2, NonePassed
  <2> QED BY <2>2, <2>3 DEF Counted
<1>2. Typed /\ Counted /\ [Next]_vars => Counted'
  BY CountedNext
<1>3. Typed /\ Counted /\ [Next]_vars =>
        [ticker.at = "walk" /\ ticker'.at # "walk"
           => gauge' >= Cardinality(untouched["ticker"])]_vars
  BY RefreshCovers
<1> QED BY <1>1, <1>2, <1>3, AlwaysTyped, PTL DEF Spec, CountCoversStayers


------------------------------------------------------------------------------
(* Reports: types *)

(* The values of a map of each kind; nothing in them lies ahead of the     *)
(* clock, but for the end of a blacklisting.                               *)
Values ==
  CASE kind = "timestamp" -> 0..clock
    [] kind = "count" -> 0..(Wrap - 1)
    [] kind = "ratelimit" -> [tokens : 0..(Burst - 1), last : 0..clock]
    [] kind = "health" -> [anomalies : Nat, start : 0..clock, until : Nat]
    [] kind = "drop-reasons" ->
         [first : 0..clock, last : 0..clock, counts : [Reasons -> Nat]]

Phases ==
  {"clock", "next", "lookup", "find", "last", "done", "failed", "closed"}

Rows(q) == \E S : q \in Seq(S)

ReportTyped ==
  /\ kind \in Kinds
  /\ Chain(map) /\ Len(map) <= MaxEntries
  /\ clock \in Nat /\ clock >= Start
  /\ value \in [KeysOf(map) -> Values]
  /\ changes \in 0..MaxChanges
  /\ call \in Calls
  /\ held \subseteq Keys \X Values
  /\ \A k \in KeysOf(map) : <<k, value[k]>> \in held
  /\ stayed \subseteq KeysOf(map)
  /\ moved \in BOOLEAN

ReadTyped ==
  /\ read = [at |-> read.at, now |-> read.now, cursor |-> read.cursor,
             count |-> read.count, rows |-> read.rows]
  /\ read.at \in Phases
  /\ read.at = "clock" => /\ clock = Start /\ read.rows = <<>>
                          /\ read.cursor = NoKey /\ read.count = 0
  /\ read.at # "clock" => read.now = Start
  /\ read.at = "lookup" => read.cursor \in Keys
  /\ read.cursor \in Keys \cup {NoKey}
  /\ read.count \in Nat
  /\ Rows(read.rows)
  /\ read.at \in {"next", "lookup", "last"} => call.ip = NoKey
  /\ read.at = "find" => call.ip \in Keys

LEMMA CallFacts ==
  ASSUME kind \in Kinds, call \in Calls
  PROVE  /\ call.by \in Reporters(kind)
         /\ call.ip \in Keys \cup {NoKey}
         /\ call.ip = NoKey <=> call.by \notin Lookups \cup Inspectors
         /\ Filtered => kind = "health"
         /\ call.n \in Nat
         /\ call.n # 0 => call.by = "topRows"
         /\ call.reason \in Reasons \cup {AnyReason}
         /\ call.reason # AnyReason => kind = "drop-reasons"
<1> DEFINE by == Reporters(kind)
           plain == [by : by \ {"topRows"}, ip : {NoKey}, all : {FALSE},
                     n : {0}, reason : {AnyReason}]
           reasons == {AnyReason} \cup
                      IF kind = "drop-reasons" THEN Reasons ELSE {}
<1>1. \/ call \in plain /\ call.by \notin Lookups \cup Inspectors
      \/ \E c \in plain :
           /\ c.by \in {"handleHealth", "writeHealthTable"}
           /\ call = [c EXCEPT !.all = TRUE]
      \/ call \in [by : by \cap (Lookups \cup Inspectors), ip : Keys,
                   all : {FALSE}, n : {0}, reason : {AnyReason}]
      \/ call \in [by : {"topRows"}, ip : {NoKey}, all : {FALSE},
                   n : 0..MaxRows, reason : reasons]
  BY DEF Calls
<1>2. NoKey \notin Keys /\ MaxRows \in Nat
  BY BucketAssumption, ReportAssumption
<1>3. "topRows" \notin Lookups \cup Inspectors
  BY DEF Lookups, Inspectors
<1>4. call.by \in by /\ Filtered => kind = "health"
  BY DEF Filtered, Reporters, Kinds
<1>5. {"handleHealth", "writeHealthTable"} \cap (Lookups \cup Inspectors) = {}
  BY DEF Lookups, Inspectors
<1>6. "topRows" \in by
  BY DEF Reporters
<1> HIDE DEF by
<1>7. CASE call \in plain /\ call.by \notin Lookups \cup Inspectors
  <2>1. /\ call.by \in by /\ call.ip = NoKey /\ call.n = 0
        /\ call.reason = AnyReason
    BY <1>7
  <2> QED BY <1>2, <1>4, <1>7, <2>1 DEF by
<1>8. CASE \E c \in plain :
             /\ c.by \in {"handleHealth", "writeHealthTable"}
             /\ call = [c EXCEPT !.all = TRUE]
  <2>1. /\ call.by \in by /\ call.ip = NoKey /\ call.n = 0
        /\ call.by \in {"handleHealth", "writeHealthTable"}
        /\ call.reason = AnyReason
    BY <1>8
  <2> QED BY <1>2, <1>4, <1>5, <2>1 DEF by
<1>9. CASE call \in [by : by \cap (Lookups \cup Inspectors), ip : Keys,
                     all : {FALSE}, n : {0}, reason : {AnyReason}]
  <2>1. /\ call.by \in by /\ call.ip \in Keys /\ call.n = 0
        /\ call.by \in Lookups \cup Inspectors
        /\ call.reason = AnyReason
    BY <1>9
  <2> QED BY <1>2, <1>4, <2>1 DEF by
<1>10. CASE call \in [by : {"topRows"}, ip : {NoKey}, all : {FALSE},
                      n : 0..MaxRows, reason : reasons]
  <2>1. /\ call.by = "topRows" /\ call.ip = NoKey /\ call.n \in 0..MaxRows
        /\ call.reason \in reasons
    BY <1>10
  <2>2. ~Filtered
    BY <2>1 DEF Filtered
  <2>3. call.n \in Nat
    BY <1>2, <2>1
  <2> QED BY <1>2, <1>3, <1>6, <2>1, <2>2, <2>3 DEF by
<1> QED BY <1>1, <1>7, <1>8, <1>9, <1>10

(* A function makes one row of what it looks up, for that key, unless it   *)
(* reports on the blacklisted only.                                        *)
LEMMA OneRow ==
  ASSUME kind \in Kinds, call \in Calls, NEW k, NEW v,
         read.now \in Int, kind = "health" => v.until \in Int
  PROVE  \/ Filtered /\ ~(v.until > read.now) /\ RowsFor(k, v) = <<>>
         \/ \E row : RowsFor(k, v) = <<row>> /\ row.ip = k
<1>1. kind = "timestamp" \/ kind = "count" \/ kind = "ratelimit"
      \/ kind = "health" \/ kind = "drop-reasons"
  BY DEF Kinds
<1>2. call.by \in Reporters(kind)
  BY CallFacts
<1>3. /\ TimestampRow(k, v).ip = k /\ CountRow(k, v).ip = k
      /\ RatelimitRow(k, v).ip = k /\ HealthRow(k, v).ip = k
      /\ DropHistoryRow(k, v).ip = k
  BY DEF TimestampRow, CountRow, RatelimitRow, HealthRow, DropHistoryRow
<1>4. \E row : WriteDump(k, v) = <<row>> /\ row.ip = k
  BY <1>1, <1>3 DEF WriteDump
<1>5. TopRow(k, v).ip = k
  <2>1. /\ \A rank : Ranked(TimestampRow(k, v), rank).ip = k
        /\ \A rank : Ranked(CountRow(k, v), rank).ip = k
        /\ \A rank : Ranked(RatelimitRow(k, v), rank).ip = k
        /\ \A rank : Ranked(HealthRow(k, v), rank).ip = k
        /\ \A rank : Ranked(DropHistoryRow(k, v), rank).ip = k
    BY DEF Ranked, TimestampRow, CountRow, RatelimitRow, HealthRow,
           DropHistoryRow
  <2> QED BY <1>1, <2>1 DEF TopRow
<1>6. CASE call.by = "topRows"
  <2>1. RowsFor(k, v) = <<TopRow(k, v)>>
    BY <1>6 DEF RowsFor, Dumpers, Lookups, Inspectors
  <2> QED BY <1>5, <2>1
<1>7. CASE call.by \in Dumpers
  <2>1. RowsFor(k, v) = WriteDump(k, v)
    BY <1>7 DEF RowsFor, Dumpers, Lookups, Inspectors
  <2> QED BY <1>4, <2>1
<1>8. CASE call.by \in Lookups
  <2>1. RowsFor(k, v) = LookupIP(k, v)
    BY <1>8 DEF RowsFor, Dumpers, Lookups, Inspectors
  <2> QED BY <1>3, <1>8, <2>1 DEF LookupIP, Lookups
<1>9. CASE call.by \in Inspectors
  <2>1. RowsFor(k, v) = Inspect(k, v)
    BY <1>9 DEF RowsFor, Dumpers, Lookups, Inspectors
  <2> QED BY <1>3, <1>9, <2>1 DEF Inspect, Inspectors
<1>10. CASE call.by \in {"handleTimestampMap", "handleCountMap",
                         "handleDropHistory"}
  <2>1. RowsFor(k, v) \in {<<TimestampRow(k, v)>>, <<CountRow(k, v)>>,
                           <<DropHistoryRow(k, v)>>}
    BY <1>10 DEF RowsFor, Dumpers, Lookups, Inspectors,
                    HandleTimestampMap, HandleCountMap,
                 HandleDropHistory
  <2> QED BY <1>3, <2>1
<1>11. CASE call.by = "handleBlacklist"
  <2>1. RowsFor(k, v) = IF v.until <= read.now THEN <<>>
                        ELSE <<HealthRow(k, v)>>
    BY <1>11 DEF RowsFor, Dumpers, Lookups, Inspectors, HandleBlacklist
  <2>2. Filtered
    BY <1>11 DEF Filtered
  <2>3. v.until \in Int
    BY <2>2, CallFacts
  <2> QED BY <1>3, <2>1, <2>2, <2>3
<1>12. CASE call.by \in {"handleHealth", "writeHealthTable"}
  <2>1. HealthRow(k, v).blacklisted <=> v.until > read.now
    BY DEF HealthRow
  <2>2. RowsFor(k, v) = IF ~call.all /\ ~HealthRow(k, v).blacklisted
                        THEN <<>> ELSE <<HealthRow(k, v)>>
    BY <1>12 DEF RowsFor, Dumpers, Lookups, Inspectors,
                    HandleHealth, WriteHealthTable
  <2> QED BY <1>3, <1>12, <2>1, <2>2 DEF Filtered
<1>13. CASE call.by = "countBlacklisted"
  <2>1. RowsFor(k, v) = IF v.until > read.now
                        THEN <<[ip |-> k, blacklisted |-> TRUE]>> ELSE <<>>
    BY <1>13 DEF RowsFor, Dumpers, Lookups, Inspectors, CountBlacklisted
  <2> QED BY <1>13, <2>1 DEF Filtered
<1>14. CASE call.by = "countHealth"
  <2>1. RowsFor(k, v) = <<[ip |-> k, blacklisted |-> v.until > read.now]>>
    BY <1>14 DEF RowsFor, Dumpers, Lookups, Inspectors, CountHealth
  <2> QED BY <2>1
<1>15. call.by \in {"topRows", "handleTimestampMap", "handleCountMap",
                    "handleDropHistory", "handleBlacklist", "handleHealth",
                    "writeHealthTable", "countBlacklisted", "countHealth"}
                   \cup Dumpers \cup Lookups \cup Inspectors
  BY <1>1, <1>2 DEF Reporters, Dumpers, Lookups, Inspectors
<1> QED BY <1>6, <1>7, <1>8, <1>9, <1>10, <1>11, <1>12, <1>13, <1>14, <1>15

LEMMA ReportConstants ==
  /\ Second \in Nat \ {0} /\ Burst \in Nat \ {0} /\ MaxEntries \in Nat \ {0}
  /\ HealthBlacklist \in Nat /\ Start \in Nat \ {0}
  /\ HealthWindow \in Nat /\ HealthThreshold \in Nat /\ MaxTime \in Nat
  /\ MaxChanges \in Nat /\ MaxRows \in Nat
  /\ Wrap \in Nat /\ Wrap > 1
BY ReportAssumption

LEMMA CountsTyped ==
  ASSUME NEW r
  PROVE  Counts(r) \in [Reasons -> Nat]
BY DEF Counts

LEMMA InitialTyped ==
  ASSUME kind \in Kinds, clock = Start
  PROVE  Initial \subseteq Values
<1> USE ReportConstants
<1>1. CASE kind = "timestamp"
  BY <1>1 DEF Initial, Values
<1>2. CASE kind = "count"
  BY <1>2 DEF Initial, Values
<1>3. CASE kind = "ratelimit"
  BY <1>3 DEF Initial, Values
<1>4. CASE kind = "health"
  BY <1>4 DEF Initial, Values
<1>5. CASE kind = "drop-reasons"
  BY <1>5, CountsTyped DEF Initial, Values
<1> QED BY <1>1, <1>2, <1>3, <1>4, <1>5 DEF Kinds

LEMMA EnteredTyped ==
  ASSUME kind \in Kinds, clock \in Nat
  PROVE  Entered \in Values
<1> USE ReportConstants
<1>1. CASE kind = "timestamp"
  BY <1>1 DEF Entered, Values
<1>2. CASE kind = "count"
  BY <1>2 DEF Entered, Values
<1>3. CASE kind = "ratelimit"
  BY <1>3 DEF Entered, Values
<1>4. CASE kind = "health"
  BY <1>4 DEF Entered, Values
<1>5. CASE kind = "drop-reasons"
  BY <1>5, CountsTyped DEF Entered, Values
<1> QED BY <1>1, <1>2, <1>3, <1>4, <1>5 DEF Kinds

LEMMA StoredTyped ==
  ASSUME kind \in Kinds, clock \in Nat, NEW v \in Values
  PROVE  Stored(v) \subseteq Values
<1> USE ReportConstants
<1>1. CASE kind = "timestamp"
  BY <1>1 DEF Stored, Values
<1>2. CASE kind = "count"
  <2>1. Stored(v) = {(v + 1) % Wrap, (v - 1) % Wrap} /\ v \in 0..(Wrap - 1)
    BY <1>2 DEF Stored, Values
  <2>2. Values = 0..(Wrap - 1)
    BY <1>2 DEF Values
  <2>3. (v + 1) % Wrap \in 0..(Wrap - 1) /\ (v - 1) % Wrap \in 0..(Wrap - 1)
    BY <2>1
  <2> QED BY <2>1, <2>2, <2>3
<1>3. CASE kind = "ratelimit"
  <2>1. /\ Values = [tokens : 0..(Burst - 1), last : 0..clock]
        /\ Stored(v) = [tokens : 0..(Burst - 1), last : {v.last, clock}]
    BY <1>3 DEF Values, Stored
  <2>2. v.last \in 0..clock /\ clock \in 0..clock
    BY <2>1
  <2> QED BY <2>1, <2>2
<1>4. CASE kind = "health"
  <2>1. Values = [anomalies : Nat, start : 0..clock, until : Nat]
    BY <1>4 DEF Values
  <2>2. Stored(v) \subseteq {Anomaly(v)}
    BY <1>4 DEF Stored
  <2>3. v.anomalies \in Nat /\ v.start \in 0..clock /\ v.until \in Nat
    BY <2>1
  <2>4. Anomaly(v) \in Values
    BY <2>1, <2>3 DEF Anomaly
  <2> QED BY <2>2, <2>4
<1>5. CASE kind = "drop-reasons"
  <2>1. /\ Values = [first : 0..clock, last : 0..clock,
                     counts : [Reasons -> Nat]]
        /\ Stored(v) = {[v EXCEPT !.last = clock, !.counts[r] = @ + 1] :
                          r \in Reasons}
    BY <1>5 DEF Values, Stored
  <2>2. ASSUME NEW r \in Reasons
        PROVE  [v EXCEPT !.last = clock, !.counts[r] = @ + 1] \in Values
    <3> DEFINE past == 0..clock
               counts == [Reasons -> Nat]
    <3>4. v \in [first : past, last : past, counts : counts]
      BY <2>1
    <3>5. clock \in past
      OBVIOUS
    <3>6. [v.counts EXCEPT ![r] = @ + 1] \in counts
      <4>1. v.counts \in [Reasons -> Nat]
        BY <3>4
      <4> QED BY <4>1
    <3> HIDE DEF past, counts
    <3>1. v.first \in past
      BY <3>4
    <3>3. [v EXCEPT !.last = clock, !.counts[r] = @ + 1]
            = [first |-> v.first, last |-> clock,
               counts |-> [v.counts EXCEPT ![r] = @ + 1]]
      <4> DEFINE w == [v EXCEPT !.last = clock]
                 n == [v.counts EXCEPT ![r] = @ + 1]
      <4>1. w = [first |-> v.first, last |-> clock, counts |-> v.counts]
        BY <3>4
      <4>2. [w.counts EXCEPT ![r] = v.counts[r] + 1] = n
        BY <4>1
      <4> HIDE DEF w, n
      <4>3. [w EXCEPT !.counts = n]
              = [first |-> v.first, last |-> clock, counts |-> n]
        BY <4>1
      <4> QED BY <4>2, <4>3 DEF w, n
    <3>7. [v EXCEPT !.last = clock, !.counts[r] = @ + 1]
            \in [first : past, last : past, counts : counts]
      BY <3>1, <3>3, <3>5, <3>6
    <3> QED BY <2>1, <3>7 DEF past, counts
  <2> QED BY <2>1, <2>2
<1> QED BY <1>1, <1>2, <1>3, <1>4, <1>5 DEF Kinds

(* Time passing, values stay typed. *)
LEMMA ValuesGrow ==
  ASSUME kind \in Kinds, clock \in Nat, UNCHANGED kind, clock' = clock + 1
  PROVE  Values \subseteq Values'
<1>1. 0..clock \subseteq 0..(clock + 1)
  OBVIOUS
<1>2. CASE kind = "timestamp"
  BY <1>1, <1>2 DEF Values
<1>3. CASE kind = "count"
  BY <1>3 DEF Values
<1>4. CASE kind = "ratelimit"
  BY <1>1, <1>4 DEF Values
<1>5. CASE kind = "health"
  BY <1>1, <1>5 DEF Values
<1>6. CASE kind = "drop-reasons"
  BY <1>1, <1>6 DEF Values
<1> QED BY <1>2, <1>3, <1>4, <1>5, <1>6 DEF Kinds

LEMMA ReportTypedFirst ==
  ASSUME MapReportInit
  PROVE  ReportTyped /\ ReadTyped
<1>1. kind \in Kinds /\ Chain(map) /\ clock = Start
  BY ChainInit DEF MapReportInit
<1>2. Present = KeysOf(map) /\ Present \subseteq Keys
  BY <1>1, PresentKeys
<1>3. Initial \subseteq Values
  BY <1>1, InitialTyped
<1>4. value \in [KeysOf(map) -> Values]
  BY <1>2, <1>3 DEF MapReportInit
<1>5. held = {<<k, value[k]>> : k \in KeysOf(map)}
  BY <1>2 DEF MapReportInit
<1>6. /\ held \subseteq Keys \X Values
      /\ \A k \in KeysOf(map) : <<k, value[k]>> \in held
  BY <1>2, <1>4, <1>5
<1>7. ReportTyped
  <2>1. clock \in Nat /\ clock >= Start
    BY <1>1, ReportConstants
  <2>2. Len(map) <= MaxEntries /\ call \in Calls /\ stayed = Present
    BY DEF MapReportInit
  <2>3. changes = 0 /\ 0 \in 0..MaxChanges
    BY ReportConstants DEF MapReportInit
  <2>4. moved \in BOOLEAN
    BY DEF MapReportInit
  <2> QED BY <2>3, <2>4, <1>1, <1>2, <1>4, <1>6, <2>1, <2>2 DEF ReportTyped
<1>8. Rows(<<>>)
  <2>1. <<>> \in Seq({})
    OBVIOUS
  <2> QED BY <2>1 DEF Rows
<1>9. ReadTyped
  BY <1>1, <1>8 DEF MapReportInit, ReadTyped, Phases
<1> QED BY <1>7, <1>9

(* What a change of the map under a report leaves as it was. *)
LEMMA MapChanges ==
  ASSUME ReportTyped, NEW k \in Keys,
         Store(k) \/ Enter(k) \/ Replace(k) \/ Evict(k)
  PROVE  /\ ReportTyped'
         /\ UNCHANGED <<kind, clock, call, read>>
         /\ held \subseteq held' /\ stayed' \subseteq stayed
         /\ \A c \in Keys \cup {NoKey}, y \in stayed' :
              Ahead(map, c, y) => Ahead(map', c, y)
         /\ ~moved' => /\ ~moved
                       /\ KeysOf(map) \subseteq KeysOf(map')
                       /\ \A x, y : Before(map, x, y) => Before(map', x, y)
<1>1. /\ kind \in Kinds /\ Chain(map) /\ Len(map) <= MaxEntries
      /\ clock \in Nat /\ clock >= Start
      /\ value \in [KeysOf(map) -> Values] /\ call \in Calls
      /\ held \subseteq Keys \X Values /\ stayed \subseteq KeysOf(map)
      /\ moved \in BOOLEAN
  BY DEF ReportTyped
<1>2. Present = KeysOf(map) /\ KeysOf(map) \subseteq Keys
  BY <1>1, PresentKeys
<1>3. IsFiniteSet(KeysOf(map)) /\ Cardinality(KeysOf(map)) <= MaxEntries
      /\ Cardinality(KeysOf(map)) \in Nat
  <2>1. IsFiniteSet(KeysOf(map))
    BY <1>2, BucketAssumption, FS_Subset
  <2> QED BY <1>1, <2>1, ChainLength, FS_CardinalityType
<1>4. Change
  BY DEF Store, Enter, Replace, Evict
<1>5. /\ UNCHANGED <<kind, clock, call, read>>
      /\ held' = held \cup {<<x, value'[x]>> : x \in DOMAIN value'}
      /\ changes' \in 0..MaxChanges
  <2>1. changes \in 0..MaxChanges /\ changes < MaxChanges
        /\ changes' = changes + 1
    BY <1>4 DEF Change, ReportTyped
  <2> QED BY <1>4, <2>1, ReportConstants DEF Change
<1>6. Values' = Values
  BY <1>5 DEF Values
<1>7. /\ Chain(Without(k)) /\ Chain(Linked(k))
      /\ KeysOf(Without(k)) = KeysOf(map) \ {k}
      /\ KeysOf(Linked(k)) = KeysOf(map) \cup {k}
      /\ \A x, y : x # k /\ y # k /\ Before(map, x, y)
                     => Before(Linked(k), x, y)
      /\ \A c \in Keys \cup {NoKey}, y \in KeysOf(map) \ {k} :
           Ahead(map, c, y) => Ahead(Without(k), c, y)
                               /\ Ahead(Linked(k), c, y)
  BY <1>1, WithoutEffect, LinkedEffect, AheadKept
<1>8. \A x, y : Before(map, x, y) => x \in KeysOf(map) /\ y \in KeysOf(map)
  BY DEF Before, KeysOf
<1>9. Entered \in Values /\ \A v \in Values : Stored(v) \subseteq Values
  BY <1>1, EnteredTyped, StoredTyped
<1> DEFINE Kept ==
      /\ Chain(map') /\ Len(map') <= MaxEntries
      /\ value' \in [KeysOf(map') -> Values]
      /\ stayed' \subseteq stayed /\ stayed' \subseteq KeysOf(map')
      /\ moved' \in BOOLEAN
      /\ \A c \in Keys \cup {NoKey}, y \in stayed' :
           Ahead(map, c, y) => Ahead(map', c, y)
      /\ ~moved' => /\ ~moved
                    /\ KeysOf(map) \subseteq KeysOf(map')
                    /\ \A x, y : Before(map, x, y) => Before(map', x, y)
<1>10. ASSUME Store(k) PROVE Kept
  <2>1. UNCHANGED <<map, stayed, moved>>
    BY <1>10 DEF Store
  <2>2. PICK v \in Stored(value[k]) : value' = [value EXCEPT ![k] = v]
    BY <1>10 DEF Store
  <2>3. k \in KeysOf(map) /\ v \in Values
    BY <1>1, <1>2, <1>9, <1>10, <2>2 DEF Store
  <2>4. value' \in [KeysOf(map) -> Values]
    BY <1>1, <2>2, <2>3
  <2> QED BY <1>1, <2>1, <2>4
<1>11. ASSUME Enter(k) PROVE Kept
  <2>1. /\ k \notin KeysOf(map) /\ Len(map) < MaxEntries
        /\ map' = Linked(k) /\ UNCHANGED <<stayed, moved>>
        /\ value' = [x \in KeysOf(map) \cup {k} |->
                       IF x = k THEN Entered ELSE value[x]]
    BY <1>2, <1>11 DEF Enter
  <2>2. KeysOf(map') = KeysOf(map) \cup {k} /\ Chain(map')
    BY <1>7, <2>1
  <2>3. value' \in [KeysOf(map') -> Values]
    BY <1>1, <1>9, <2>1, <2>2
  <2>4. Len(map') <= MaxEntries
    <3>1. Cardinality(KeysOf(map)) < MaxEntries
      BY <1>1, <2>1, ChainLength
    <3>2. Cardinality(KeysOf(map')) = Cardinality(KeysOf(map)) + 1
      BY <1>3, <2>1, <2>2, FS_AddElement
    <3>3. Len(map') = Cardinality(KeysOf(map'))
      BY <2>2, ChainLength
    <3> QED BY <1>3, <3>1, <3>2, <3>3, ReportConstants
  <2>5. \A c \in Keys \cup {NoKey}, y \in stayed' :
          Ahead(map, c, y) => Ahead(map', c, y)
    BY <1>1, <1>7, <2>1
  <2>6. \A x, y : Before(map, x, y) => Before(map', x, y)
    BY <1>7, <1>8, <2>1
  <2> QED BY <1>1, <2>1, <2>2, <2>3, <2>4, <2>5, <2>6
<1>12. ASSUME Replace(k) PROVE Kept
  <2>1. /\ k \in KeysOf(map) /\ map' = Linked(k)
        /\ stayed' = stayed \ {k} /\ moved' = TRUE
        /\ value' = [value EXCEPT ![k] = Entered]
    BY <1>2, <1>12 DEF Replace
  <2>2. KeysOf(map') = KeysOf(map) /\ Chain(map')
    BY <1>7, <2>1
  <2>3. value' \in [KeysOf(map') -> Values]
    BY <1>1, <1>9, <2>1, <2>2
  <2>4. Len(map') <= MaxEntries
    BY <1>3, <2>2, ChainLength
  <2>5. \A c \in Keys \cup {NoKey}, y \in stayed' :
          Ahead(map, c, y) => Ahead(map', c, y)
    BY <1>1, <1>7, <2>1
  <2> QED BY <1>1, <2>1, <2>2, <2>3, <2>4, <2>5
<1>13. ASSUME Evict(k) PROVE Kept
  <2>1. /\ map' = Without(k)
        /\ stayed' = stayed \ {k} /\ moved' = TRUE
        /\ value' = [x \in KeysOf(map) \ {k} |-> value[x]]
    BY <1>2, <1>13 DEF Evict
  <2>2. KeysOf(map') = KeysOf(map) \ {k} /\ Chain(map')
    BY <1>7, <2>1
  <2>3. value' \in [KeysOf(map') -> Values]
    BY <1>1, <2>1, <2>2
  <2>4. Len(map') <= MaxEntries
    <3>1. /\ Cardinality(KeysOf(map')) <= Cardinality(KeysOf(map))
          /\ Cardinality(KeysOf(map')) \in Nat
      <4>1. KeysOf(map') \subseteq KeysOf(map)
        BY <2>2
      <4> QED BY <1>3, <4>1, FS_Subset, FS_CardinalityType
    <3>2. Len(map') = Cardinality(KeysOf(map'))
      BY <2>2, ChainLength
    <3> QED BY <1>3, <3>1, <3>2, ReportConstants
  <2>5. \A c \in Keys \cup {NoKey}, y \in stayed' :
          Ahead(map, c, y) => Ahead(map', c, y)
    BY <1>1, <1>7, <2>1
  <2> QED BY <1>1, <2>1, <2>2, <2>3, <2>4, <2>5
<1>14. Kept
  BY <1>10, <1>11, <1>12, <1>13
<1>15. held \subseteq held' /\ held' \subseteq Keys \X Values
       /\ \A x \in KeysOf(map') : <<x, value'[x]>> \in held'
  <2>1. KeysOf(map') \subseteq Keys
    <3>1. KeysOf(map') \subseteq KeysOf(map) \cup {k}
      BY <1>7, <1>10, <1>11, <1>12, <1>13 DEF Store, Enter, Replace, Evict
    <3> QED BY <1>2, <3>1
  <2>2. /\ DOMAIN value' = KeysOf(map')
        /\ \A x \in KeysOf(map') : value'[x] \in Values
    BY <1>14
  <2>3. held' = held \cup {<<x, value'[x]>> : x \in KeysOf(map')}
    BY <1>5, <2>2
  <2>4. \A x \in KeysOf(map') : <<x, value'[x]>> \in Keys \X Values
    BY <2>1, <2>2
  <2> QED BY <1>1, <2>3, <2>4
<1>16. ReportTyped'
  <2>1. /\ kind' \in Kinds /\ Chain(map') /\ Len(map') <= MaxEntries
        /\ clock' \in Nat /\ clock' >= Start
        /\ value' \in [KeysOf(map') -> Values'] /\ changes' \in 0..MaxChanges
        /\ held' \subseteq Keys \X Values' /\ stayed' \subseteq KeysOf(map')
        /\ moved' \in BOOLEAN
    BY <1>1, <1>5, <1>6, <1>14, <1>15
  <2>2. Calls' = Calls
    BY <1>5 DEF Calls, Reporters
  <2> QED BY <1>1, <1>5, <1>15, <2>1, <2>2 DEF ReportTyped, Chain, KeysOf
<1> QED BY <1>5, <1>14, <1>15, <1>16

------------------------------------------------------------------------------
(* Reports: rows *)

Sources(q) == {q[i].ip : i \in 1..Len(q)}

Distinct(q) == \A i, j \in 1..Len(q) : q[i].ip = q[j].ip => i = j

LEMMA RowsAre ==
  ASSUME NEW q, Rows(q)
  PROVE  /\ Len(q) \in Nat /\ DOMAIN q = 1..Len(q)
         /\ q \o <<>> = q
<1>1. PICK S : q \in Seq(S)
  BY DEF Rows
<1> QED BY <1>1, LenProperties, ConcatEmptySeq

LEMMA NoRows ==
  /\ Rows(<<>>) /\ Len(<<>>) = 0 /\ Sources(<<>>) = {} /\ Distinct(<<>>)
<1>1. <<>> \in Seq({}) /\ Len(<<>>) = 0
  OBVIOUS
<1> QED BY <1>1 DEF Rows, Sources, Distinct

LEMMA RowsAdd ==
  ASSUME NEW q, Rows(q), NEW row
  PROVE  LET r == q \o <<row>>
         IN  /\ Rows(r) /\ Len(r) = Len(q) + 1
             /\ \A i \in 1..Len(q) : r[i] = q[i]
             /\ r[Len(q) + 1] = row
             /\ Sources(r) = Sources(q) \cup {row.ip}
             /\ Distinct(q) /\ row.ip \notin Sources(q) => Distinct(r)
<1> DEFINE r == q \o <<row>>
           n == Len(q)
<1>1. PICK S : q \in Seq(S)
  BY DEF Rows
<1> DEFINE T == S \cup {row}
<1>2. q \in Seq(T) /\ <<row>> \in Seq(T) /\ Len(<<row>>) = 1
      /\ <<row>>[1] = row
  <2>1. q \in Seq(T)
    <3>1. S \subseteq T
      OBVIOUS
    <3> QED BY <1>1, <3>1, SeqMonotonic
  <2>2. row \in T
    OBVIOUS
  <2> HIDE DEF T
  <2> QED BY <2>1, <2>2
<1> HIDE DEF T
<1>3. n \in Nat
  BY RowsAre
<1>4. /\ r \in Seq(T) /\ Len(r) = n + 1
      /\ \A i \in 1..(n + 1) : r[i] = IF i <= n THEN q[i] ELSE <<row>>[i - n]
  <2>1. /\ r \in Seq(T) /\ Len(r) = Len(q) + Len(<<row>>)
        /\ \A i \in 1..(Len(q) + Len(<<row>>)) :
             r[i] = IF i <= Len(q) THEN q[i] ELSE <<row>>[i - Len(q)]
    BY <1>2, ConcatProperties
  <2> QED BY <1>2, <2>1
<1> HIDE DEF r, n
<1>5. r[n + 1] = row /\ \A i \in 1..n : r[i] = q[i]
  <2>1. n + 1 \in 1..(n + 1) /\ ~(n + 1 <= n) /\ n + 1 - n = 1
    BY <1>3
  <2> DEFINE one == <<row>>
  <2>3. one[1] = row
    BY <1>2
  <2>4. \A i \in 1..(n + 1) : r[i] = IF i <= n THEN q[i] ELSE one[i - n]
    BY <1>4
  <2> HIDE DEF one
  <2>5. r[n + 1] = one[n + 1 - n]
    <3>1. PICK m : m = n + 1 /\ m \in 1..(n + 1) /\ ~(m <= n)
      BY <2>1
    <3>2. r[m] = IF m <= n THEN q[m] ELSE one[m - n]
      BY <2>4, <3>1
    <3>3. r[m] = one[m - n]
      BY <3>1, <3>2
    <3> QED BY <1>3, <3>1, <3>3
  <2>2. r[n + 1] = row
    BY <2>1, <2>3, <2>5
  <2> QED BY <1>3, <1>4, <2>2
<1>6. 1..(n + 1) = (1..n) \cup {n + 1} /\ n + 1 \notin 1..n
  BY <1>3
<1>7. Sources(r) = Sources(q) \cup {row.ip}
  <2>1. Sources(r) = {r[i].ip : i \in (1..n) \cup {n + 1}}
    BY <1>4, <1>6 DEF Sources
  <2>2. Sources(q) = {q[i].ip : i \in 1..n}
    BY DEF Sources, n
  <2> QED BY <1>5, <2>1, <2>2
<1>8. ASSUME Distinct(q), row.ip \notin Sources(q)
      PROVE  Distinct(r)
  <2>1. \A i \in 1..n : r[i].ip \in Sources(q)
    BY <1>5 DEF Sources, n
  <2>2. \A i, j \in 1..n : r[i].ip = r[j].ip => i = j
    BY <1>5, <1>8 DEF Distinct, n
  <2>3. \A i, j \in (1..n) \cup {n + 1} : r[i].ip = r[j].ip => i = j
    BY <1>5, <1>8, <2>1, <2>2
  <2> QED BY <1>4, <1>6, <2>3 DEF Distinct
<1>9. Rows(r)
  BY <1>4 DEF Rows
<1> QED BY <1>4, <1>5, <1>7, <1>8, <1>9 DEF r, n

LEMMA OneRowIs ==
  ASSUME NEW row
  PROVE  /\ Rows(<<row>>) /\ Len(<<row>>) = 1 /\ <<row>>[1] = row
         /\ Sources(<<row>>) = {row.ip} /\ Distinct(<<row>>)
<1> DEFINE q == <<row>>
<1>1. q \in Seq({row}) /\ Len(q) = 1 /\ q[1] = row
  OBVIOUS
<1>2. 1..1 = {1}
  OBVIOUS
<1> HIDE DEF q
<1>3. Rows(q) /\ Sources(q) = {row.ip} /\ Distinct(q)
  BY <1>1, <1>2 DEF Rows, Sources, Distinct
<1> QED BY <1>1, <1>3 DEF q

(* Sorting is a permutation of the rows, cutting takes the first of them.  *)
LEMMA SortedIs ==
  ASSUME NEW q, Rows(q), NEW s \in Sorted(q)
  PROVE  /\ s \in Injection(1..Len(q), 1..Len(q))
         /\ s \in Surjection(1..Len(q), 1..Len(q))
<1> DEFINE D == 1..Len(q)
<1>1. Len(q) \in Nat /\ DOMAIN q = D
  BY RowsAre
<1>2. IsFiniteSet(D) /\ Cardinality(D) = Len(q)
  <2>1. /\ IsFiniteSet(D)
        /\ Cardinality(D) = IF 1 > Len(q) THEN 0 ELSE Len(q) - 1 + 1
    BY <1>1, FS_Interval
  <2> QED BY <1>1, <2>1
<1>3. s \in SetToSeqs(D)
  BY <1>1 DEF Sorted
<1>4. /\ s \in [1..Cardinality(D) -> D]
      /\ \A i, j \in 1..Cardinality(D) : i # j => s[i] # s[j]
  BY <1>3 DEF SetToSeqs
<1>5. s \in [D -> D] /\ \A i, j \in D : s[i] = s[j] => i = j
  BY <1>2, <1>4
<1> HIDE DEF D
<1>6. s \in Injection(D, D)
  BY <1>5 DEF Injection, IsInjective
<1>7. s \in Surjection(D, D)
  BY <1>2, <1>6, FS_Injection
<1> QED BY <1>6, <1>7 DEF D

LEMMA CutIs ==
  ASSUME NEW q, Rows(q), call.n \in Nat, NEW r \in Cut(q)
  PROVE  /\ Rows(r) /\ Len(r) <= Len(q)
         /\ Len(r) = IF call.n > 0 /\ Len(q) > call.n THEN call.n ELSE Len(q)
         /\ \E s \in Sorted(q) : \A i \in 1..Len(r) : r[i] = q[s[i]]
         /\ Distinct(q) => Distinct(r)
         /\ call.n = 0 => Sources(r) = Sources(q)
<1> DEFINE n == IF call.n > 0 /\ Len(q) > call.n THEN call.n ELSE Len(q)
           D == 1..Len(q)
<1>1. PICK s \in Sorted(q) : r = [i \in 1..n |-> q[s[i]]]
  BY DEF Cut
<1>2. /\ s \in Injection(1..Len(q), 1..Len(q))
      /\ s \in Surjection(1..Len(q), 1..Len(q))
  BY SortedIs
<1>3. /\ s \in [D -> D]
      /\ \A i, j \in D : s[i] = s[j] => i = j
      /\ \A j \in D : \E i \in D : s[i] = j
  BY <1>2 DEF Injection, IsInjective, Surjection
<1>4. n \in Nat /\ n <= Len(q) /\ Len(q) \in Nat
  BY RowsAre
<1>5. call.n = 0 => n = Len(q)
  OBVIOUS
<1>12. \A i \in 1..n : i \in D
  BY <1>4
<1> HIDE DEF n, D
<1>6. \A i \in 1..n : i \in D /\ s[i] \in D
  BY <1>3, <1>12
<1>7. r \in Seq({q[i] : i \in D}) /\ Len(r) = n
  <2> DEFINE T == {q[i] : i \in D}
  <2>1. \A i \in 1..n : q[s[i]] \in T
    BY <1>6
  <2> HIDE DEF T
  <2>2. r \in [1..n -> T]
    BY <1>1, <2>1
  <2>3. r \in Seq(T) /\ Len(r) = n
    BY <1>4, <2>2
  <2> QED BY <2>3 DEF T
<1>8. \A i \in 1..n : r[i] = q[s[i]]
  BY <1>1
<1>9. Distinct(q) => Distinct(r)
  <2> SUFFICES ASSUME Distinct(q), NEW i \in 1..n, NEW j \in 1..n,
                      r[i].ip = r[j].ip
               PROVE  i = j
    BY <1>7 DEF Distinct
  <2>1. q[s[i]].ip = q[s[j]].ip
    BY <1>8
  <2>2. \A a, b \in D : q[a].ip = q[b].ip => a = b
    BY DEF Distinct, D
  <2>3. s[i] = s[j]
    BY <1>6, <2>1, <2>2
  <2> QED BY <1>3, <1>6, <2>3
<1>10. call.n = 0 => Sources(r) = Sources(q)
  <2> SUFFICES ASSUME n = Len(q)
               PROVE  Sources(r) = Sources(q)
    BY <1>5
  <2>1. Sources(r) = {q[s[i]].ip : i \in D}
    BY <1>7, <1>8 DEF Sources, D
  <2>2. Sources(q) = {q[i].ip : i \in D}
    BY DEF Sources, D
  <2> QED BY <1>3, <2>1, <2>2
<1>11. Rows(r)
  BY <1>7 DEF Rows
<1> QED BY <1>4, <1>7, <1>8, <1>9, <1>10, <1>11 DEF n

------------------------------------------------------------------------------
(* Reports: what the cursor has passed while nothing moves *)

Behind(m, c) == {k \in KeysOf(m) : k = c \/ Before(m, k, c)}

LEMMA BeforeTransitive ==
  ASSUME NEW m, Chain(m), NEW x, NEW y, NEW z, Before(m, x, y), Before(m, y, z)
  PROVE  Before(m, x, z)
<1>1. Len(m) \in Nat
  BY LenProperties DEF Chain
<1>2. PICK i \in 1..Len(m), j \in 1..Len(m) : i < j /\ m[i] = x /\ m[j] = y
  BY DEF Before
<1>3. PICK p \in 1..Len(m), q \in 1..Len(m) : p < q /\ m[p] = y /\ m[q] = z
  BY DEF Before
<1>4. j = p
  <2>1. ~(j < p) /\ ~(p < j)
    BY <1>2, <1>3 DEF Chain
  <2> QED BY <1>1, <2>1
<1>5. i < q
  BY <1>1, <1>2, <1>3, <1>4
<1> QED BY <1>2, <1>3, <1>5 DEF Before

LEMMA BehindNext ==
  ASSUME Chain(map), NEW c \in KeysOf(map) \cup {NoKey}, NextKey(c) # NoKey
  PROVE  LET next == NextKey(c)
         IN  /\ next \in KeysOf(map)
             /\ Behind(map, c) \cup {next} \subseteq Behind(map, next)
             /\ next \notin Behind(map, c)
<1> DEFINE next == NextKey(c)
<1>1. next \in KeysOf(map)
  BY NextIs
<1>2. CASE c = NoKey
  <2>1. NoKey \notin KeysOf(map)
    BY BucketAssumption, PresentKeys
  <2>2. Behind(map, c) = {}
    BY <1>2, <2>1 DEF Behind, Before, KeysOf
  <2> QED BY <1>1, <2>2 DEF Behind
<1>3. CASE c \in KeysOf(map)
  <2>1. Before(map, c, next)
    <3> DEFINE p == Place(c)
               n == Len(map)
    <3>1. /\ p \in 1..n /\ map[p] = c /\ n \in Nat
      BY <1>3, PlaceIs, LenProperties DEF Chain
    <3>2. p # n /\ next = map[p + 1]
      BY <1>3, PresentKeys DEF NextKey
    <3> HIDE DEF p, n
    <3>3. p + 1 \in 1..n /\ p < p + 1
      BY <3>1, <3>2
    <3> QED BY <3>1, <3>2, <3>3 DEF Before, n
  <2>2. c # next
    BY <2>1, BeforeHash
  <2>3. ~Before(map, next, c)
    <3>1. ASSUME Before(map, next, c) PROVE FALSE
      <4>1. Before(map, next, next)
        BY <2>1, <3>1, BeforeTransitive
      <4> QED BY <4>1, BeforeHash
    <3> QED BY <3>1
  <2>4. \A k : Before(map, k, c) => Before(map, k, next)
    BY <2>1, BeforeTransitive
  <2> HIDE DEF next
  <2> QED BY <1>1, <2>1, <2>2, <2>3, <2>4 DEF Behind, next
<1> QED BY <1>2, <1>3

LEMMA BehindFinite ==
  ASSUME NEW m, Chain(m), NEW c
  PROVE  /\ IsFiniteSet(KeysOf(m)) /\ Cardinality(KeysOf(m)) = Len(m)
         /\ Behind(m, c) \subseteq KeysOf(m)
         /\ IsFiniteSet(Behind(m, c)) /\ Cardinality(Behind(m, c)) \in Nat
         /\ Cardinality(Behind(m, c)) <= Len(m)
<1>1. KeysOf(m) \subseteq Keys
  BY LenProperties, ElementOfSeq DEF Chain, KeysOf
<1>2. IsFiniteSet(KeysOf(m)) /\ Cardinality(KeysOf(m)) = Len(m)
  BY <1>1, BucketAssumption, FS_Subset, ChainLength
<1>3. Behind(m, c) \subseteq KeysOf(m)
  BY DEF Behind
<1> QED BY <1>2, <1>3, FS_Subset, FS_CardinalityType

------------------------------------------------------------------------------
(* Reports: steps *)

ReportReads ==
  \/ ReadClock \/ IterationAborted \/ Iterate \/ LookupNext \/ Find
  \/ MapClosed \/ Answer

LEMMA ReportSteps ==
  ASSUME [MapReportNext]_mapReportVars
  PROVE  \/ Tick
         \/ \E k \in Keys : Store(k) \/ Enter(k) \/ Replace(k) \/ Evict(k)
         \/ ReportReads
         \/ UNCHANGED mapReportVars
BY DEF MapReportNext, ReportReads

LEMMA ReadsOnly ==
  ASSUME ReportReads
  PROVE  UNCHANGED <<kind, map, value, clock, changes, call, held, stayed,
                     moved, banned>>
BY DEF ReportReads, ReadClock, IterationAborted, Iterate, LookupNext, Find,
       MapClosed, Answer, Reading, history

LEMMA ReportTypedNext ==
  ASSUME ReportTyped, [MapReportNext]_mapReportVars
  PROVE  ReportTyped'
<1>1. CASE Tick
  <2>1. /\ clock' = clock + 1 /\ clock < MaxTime
        /\ UNCHANGED <<kind, map, value, changes, call, held, stayed, moved>>
    BY <1>1 DEF Tick, history
  <2>2. Values \subseteq Values'
    BY <2>1, ValuesGrow DEF ReportTyped
  <2>3. /\ clock' \in Nat /\ clock' >= Start
    BY <2>1, ReportConstants DEF ReportTyped
  <2>4. value' \in [KeysOf(map) -> Values'] /\ held' \subseteq Keys \X Values'
    BY <2>1, <2>2 DEF ReportTyped
  <2>5. Calls' = Calls
    BY <2>1 DEF Calls, Reporters
  <2> QED BY <2>1, <2>3, <2>4, <2>5 DEF ReportTyped, Chain, KeysOf
<1>2. ASSUME NEW k \in Keys, Store(k) \/ Enter(k) \/ Replace(k) \/ Evict(k)
      PROVE  ReportTyped'
  BY <1>2, MapChanges
<1>3. CASE \/ UNCHANGED <<kind, map, value, clock, changes, call, held,
                          stayed, moved>>
  <2>1. Values' = Values
    BY <1>3 DEF Values
  <2>2. Calls' = Calls
    BY <1>3 DEF Calls, Reporters
  <2> QED BY <1>3, <2>1, <2>2 DEF ReportTyped, Chain, KeysOf
<1>4. CASE UNCHANGED mapReportVars
  BY <1>3, <1>4 DEF mapReportVars, history
<1> QED BY <1>1, <1>2, <1>3, <1>4, ReportSteps, ReadsOnly

Reader(at, now, cursor, count, rows) ==
  [at |-> at, now |-> now, cursor |-> cursor, count |-> count, rows |-> rows]

LEMMA ReaderFields ==
  ASSUME NEW at, NEW now, NEW cursor, NEW count, NEW rows, NEW x
  PROVE  LET r == Reader(at, now, cursor, count, rows)
         IN  /\ r.at = at /\ r.now = now /\ r.cursor = cursor
             /\ r.count = count /\ r.rows = rows
             /\ [r EXCEPT !.at = x] = Reader(x, now, cursor, count, rows)
             /\ [r EXCEPT !.now = x] = Reader(at, x, cursor, count, rows)
             /\ [r EXCEPT !.cursor = x] = Reader(at, now, x, count, rows)
             /\ [r EXCEPT !.count = x] = Reader(at, now, cursor, x, rows)
             /\ [r EXCEPT !.rows = x] = Reader(at, now, cursor, count, x)
BY DEF Reader

(* The record of a report, field by field, after each of its steps.        *)
LEMMA ReadFields ==
  ASSUME ReadTyped
  PROVE  /\ \A how, rows :
              Ended(how, rows) = Reader(how, read.now, NoKey, 0, rows)
         /\ ReadClock =>
              /\ read.at = "clock"
              /\ read' = Reader(IF call.ip = NoKey THEN "next" ELSE "find",
                                clock, read.cursor, read.count, read.rows)
         /\ Iterate =>
              LET next == NextKey(read.cursor)
              IN  /\ read.at = "next" /\ read.count <= MaxEntries
                  /\ next = NoKey =>
                       read' = Reader("last", read.now, read.cursor,
                                      read.count, read.rows)
                  /\ next # NoKey =>
                       read' = Reader("lookup", read.now, next,
                                      read.count + 1, read.rows)
         /\ LookupNext =>
              LET c == read.cursor
              IN  /\ read.at = "lookup"
                  /\ read' = Reader("next", read.now, c, read.count,
                                    IF c \in Present
                                    THEN read.rows \o RowsFor(c, value[c])
                                    ELSE read.rows)
<1> DEFINE at == read.at
           now == read.now
           cursor == read.cursor
           count == read.count
           rows == read.rows
<1>1. read = Reader(at, now, cursor, count, rows)
  BY DEF ReadTyped, Reader
<1> HIDE DEF at, now, cursor, count, rows
<1>2. ASSUME NEW how, NEW q
      PROVE  Ended(how, q) = Reader(how, now, NoKey, 0, q)
  <2>1. [read EXCEPT !.at = how] = Reader(how, now, cursor, count, rows)
    BY <1>1, ReaderFields
  <2>2. [Reader(how, now, cursor, count, rows) EXCEPT !.cursor = NoKey]
          = Reader(how, now, NoKey, count, rows)
    BY ReaderFields
  <2>3. [Reader(how, now, NoKey, count, rows) EXCEPT !.count = 0]
          = Reader(how, now, NoKey, 0, rows)
    BY ReaderFields
  <2>4. [Reader(how, now, NoKey, 0, rows) EXCEPT !.rows = q]
          = Reader(how, now, NoKey, 0, q)
    BY ReaderFields
  <2> QED BY <2>1, <2>2, <2>3, <2>4 DEF Ended
<1>3. ASSUME ReadClock
      PROVE  /\ read.at = "clock"
             /\ read' = Reader(IF call.ip = NoKey THEN "next" ELSE "find",
                               clock, cursor, count, rows)
  <2> DEFINE how == IF call.ip = NoKey THEN "next" ELSE "find"
  <2>1. [read EXCEPT !.at = how] = Reader(how, now, cursor, count, rows)
    BY <1>1, ReaderFields
  <2>2. [Reader(how, now, cursor, count, rows) EXCEPT !.now = clock]
          = Reader(how, clock, cursor, count, rows)
    BY ReaderFields
  <2> QED BY <1>3, <2>1, <2>2 DEF ReadClock
<1>4. ASSUME Iterate, NextKey(cursor) = NoKey
      PROVE  read' = Reader("last", now, cursor, count, rows)
  <2>1. read' = [read EXCEPT !.at = "last"]
    BY <1>4 DEF Iterate, cursor
  <2> QED BY <1>1, <2>1, ReaderFields
<1>5. ASSUME Iterate, NextKey(cursor) # NoKey
      PROVE  read' = Reader("lookup", now, NextKey(cursor), count + 1, rows)
  <2> DEFINE next == NextKey(cursor)
  <2>1. read' = [read EXCEPT !.at = "lookup", !.cursor = next,
                             !.count = @ + 1]
    BY <1>5 DEF Iterate, cursor
  <2> HIDE DEF next
  <2>2. [read EXCEPT !.at = "lookup"]
          = Reader("lookup", now, cursor, count, rows)
    BY <1>1, ReaderFields
  <2>3. [Reader("lookup", now, cursor, count, rows) EXCEPT !.cursor = next]
          = Reader("lookup", now, next, count, rows)
    BY ReaderFields
  <2>4. [Reader("lookup", now, next, count, rows) EXCEPT !.count = count + 1]
          = Reader("lookup", now, next, count + 1, rows)
    BY ReaderFields
  <2>5. read.count = count
    BY DEF count
  <2> QED BY <2>1, <2>2, <2>3, <2>4, <2>5 DEF next
<1>6. ASSUME LookupNext
      PROVE  /\ read.at = "lookup"
             /\ read' = Reader("next", now, cursor, count,
                               IF cursor \in Present
                               THEN rows \o RowsFor(cursor, value[cursor])
                               ELSE rows)
  <2> DEFINE q == IF cursor \in Present
                  THEN rows \o RowsFor(cursor, value[cursor]) ELSE rows
  <2>1. read.at = "lookup" /\ read' = [read EXCEPT !.at = "next", !.rows = q]
    BY <1>6 DEF LookupNext, cursor, rows
  <2> HIDE DEF q
  <2>2. [read EXCEPT !.at = "next"] = Reader("next", now, cursor, count, rows)
    BY <1>1, ReaderFields
  <2>3. [Reader("next", now, cursor, count, rows) EXCEPT !.rows = q]
          = Reader("next", now, cursor, count, q)
    BY ReaderFields
  <2> QED BY <2>1, <2>2, <2>3 DEF q
<1> QED BY <1>2, <1>3, <1>4, <1>5, <1>6
        DEF at, now, cursor, count, rows, Iterate

(* What a report makes of an entry it finds. *)
LEMMA LookedUp ==
  ASSUME ReportTyped, ReadTyped, read.at # "clock", NEW k \in KeysOf(map)
  PROVE  LET v == value[k]
         IN  /\ k \in Keys /\ v \in Values /\ <<k, v>> \in held
             /\ \/ Filtered /\ ~(v.until > read.now) /\ RowsFor(k, v) = <<>>
                \/ \E row : RowsFor(k, v) = <<row>> /\ row.ip = k
<1> DEFINE v == value[k]
<1>1. k \in Keys /\ v \in Values /\ <<k, v>> \in held
  BY PresentKeys DEF ReportTyped
<1>2. read.now \in Int
  BY ReportConstants DEF ReadTyped
<1>3. kind = "health" => v.until \in Int
  BY <1>1 DEF Values
<1> HIDE DEF v
<1>4. kind \in Kinds /\ call \in Calls
  BY DEF ReportTyped
<1>5. \/ Filtered /\ ~(v.until > read.now) /\ RowsFor(k, v) = <<>>
      \/ \E row : RowsFor(k, v) = <<row>> /\ row.ip = k
  BY <1>2, <1>3, <1>4, OneRow
<1> QED BY <1>1, <1>5 DEF v

LEMMA FoundRows ==
  ASSUME ReportTyped, ReadTyped, read.at # "clock", NEW k \in KeysOf(map)
  PROVE  /\ Rows(RowsFor(k, value[k]))
         /\ Rows(read.rows \o RowsFor(k, value[k]))
         /\ Distinct(RowsFor(k, value[k]))
<1>1. Rows(read.rows)
  BY DEF ReadTyped
<1>2. RowsFor(k, value[k]) = <<>> \/ \E row : RowsFor(k, value[k]) = <<row>>
  BY LookedUp
<1>3. CASE RowsFor(k, value[k]) = <<>>
  BY <1>1, <1>3, RowsAre, NoRows
<1>4. CASE \E row : RowsFor(k, value[k]) = <<row>>
  BY <1>1, <1>4, RowsAdd, OneRowIs
<1> QED BY <1>2, <1>3, <1>4

LEMMA ReadTypedNext ==
  ASSUME ReportTyped, ReadTyped, [MapReportNext]_mapReportVars
  PROVE  ReadTyped'
<1>1. ASSUME UNCHANGED <<read, call>>, read.at = "clock" => clock' = clock
      PROVE  ReadTyped'
  BY <1>1 DEF ReadTyped, Rows
<1>2. CASE Tick
  BY <1>1, <1>2 DEF Tick, Underway
<1>3. ASSUME NEW k \in Keys, Store(k) \/ Enter(k) \/ Replace(k) \/ Evict(k)
      PROVE  ReadTyped'
  BY <1>1, <1>3, MapChanges
<1>4. CASE UNCHANGED mapReportVars
  BY <1>1, <1>4 DEF mapReportVars
<1>5. /\ call \in Calls /\ kind \in Kinds /\ Chain(map)
      /\ Present = KeysOf(map) /\ call.ip \in Keys \cup {NoKey}
      /\ NoKey \notin Keys
  BY PresentKeys, CallFacts, BucketAssumption DEF ReportTyped
<1>6. \A q : q = <<>> => Rows(q)
  BY NoRows
(* A step of the report, given its fields. *)
<1>7. ASSUME NEW at \in Phases \ {"clock"}, NEW cursor \in Keys \cup {NoKey},
             NEW count \in Nat, NEW rows, Rows(rows), UNCHANGED call,
             read' = Reader(at, Start, cursor, count, rows),
             at = "lookup" => cursor \in Keys,
             at \in {"next", "lookup", "last"} => call.ip = NoKey,
             at = "find" => call.ip \in Keys
      PROVE  ReadTyped'
  <2>1. /\ read'.at = at /\ read'.now = Start /\ read'.cursor = cursor
        /\ read'.count = count /\ read'.rows = rows
    BY <1>7, ReaderFields
  <2>2. read' = [at |-> read'.at, now |-> read'.now, cursor |-> read'.cursor,
                 count |-> read'.count, rows |-> read'.rows]
    BY <1>7, <2>1 DEF Reader
  <2>3. Rows(read.rows)'
    BY <1>7, <2>1 DEF Rows
  <2> QED BY <1>7, <2>1, <2>2, <2>3 DEF ReadTyped
<1>8. CASE ReportReads
  <2>1. UNCHANGED <<map, clock, call>>
    BY <1>8, ReadsOnly
  <2>2. /\ read.at \in Phases /\ read.cursor \in Keys \cup {NoKey}
        /\ read.count \in Nat /\ Rows(read.rows)
        /\ read.at # "clock" => read.now = Start
        /\ read.at = "lookup" => read.cursor \in Keys
        /\ read.at \in {"next", "lookup", "last"} => call.ip = NoKey
        /\ read.at = "find" => call.ip \in Keys
    BY DEF ReadTyped
  <2>3. CASE ReadClock
    <3>1. /\ read.at = "clock"
          /\ read' = Reader(IF call.ip = NoKey THEN "next" ELSE "find",
                            clock, read.cursor, read.count, read.rows)
      BY <2>3, ReadFields
    <3>2. clock = Start
      BY <3>1 DEF ReadTyped
    <3>3. CASE call.ip = NoKey
      BY <1>7, <2>1, <2>2, <3>1, <3>2, <3>3 DEF Phases
    <3>4. CASE call.ip # NoKey
      BY <1>5, <1>7, <2>1, <2>2, <3>1, <3>2, <3>4 DEF Phases
    <3> QED BY <3>3, <3>4
  <2>4. ASSUME NEW how \in {"failed", "closed", "done"}, NEW rows, Rows(rows),
               read' = Ended(how, rows), read.at # "clock"
        PROVE  ReadTyped'
    <3>1. read' = Reader(how, Start, NoKey, 0, rows)
      BY <2>2, <2>4, ReadFields
    <3> QED BY <1>7, <2>1, <2>4, <3>1 DEF Phases
  <2>5. CASE IterationAborted \/ MapClosed
    BY <2>4, <2>5, NoRows DEF IterationAborted, MapClosed
  <2>6. CASE Find
    <3>1. /\ read.at = "find"
          /\ read' = Ended("done", IF call.ip \in Present
                                   THEN RowsFor(call.ip, value[call.ip])
                                   ELSE <<>>)
      BY <2>6 DEF Find
    <3>2. call.ip \in KeysOf(map) => Rows(RowsFor(call.ip, value[call.ip]))
      BY <3>1, FoundRows
    <3> QED BY <1>5, <2>4, <3>1, <3>2, NoRows
  <2>7. CASE Answer
    <3>1. PICK rows \in IF call.by = "topRows" THEN Cut(read.rows)
                        ELSE {read.rows} :
            read' = Ended("done", rows) /\ read.at = "last"
      BY <2>7 DEF Answer
    <3>2. call.n \in Nat
      BY <1>5, CallFacts
    <3>3. Rows(rows)
      BY <2>2, <3>1, <3>2, CutIs
    <3> QED BY <2>4, <3>1, <3>3
  <2>8. CASE Iterate
    <3> DEFINE next == NextKey(read.cursor)
    <3>1. next \in Keys \cup {NoKey}
      BY <1>5, NextKeyType
    <3>2. read.at = "next"
      BY <2>8, ReadFields
    <3>3. /\ next = NoKey => read' = Reader("last", read.now, read.cursor,
                                            read.count, read.rows)
          /\ next # NoKey => read' = Reader("lookup", read.now, next,
                                            read.count + 1, read.rows)
      BY <2>8, ReadFields
    <3> HIDE DEF next
    <3>4. read.count + 1 \in Nat
      BY <2>2
    <3>5. CASE next = NoKey
      BY <1>7, <2>1, <2>2, <3>2, <3>3, <3>5 DEF Phases
    <3>6. CASE next # NoKey
      BY <1>7, <2>1, <2>2, <3>1, <3>2, <3>3, <3>4, <3>6 DEF Phases
    <3> QED BY <3>5, <3>6
  <2>9. CASE LookupNext
    <3> DEFINE c == read.cursor
               rows == IF c \in Present
                       THEN read.rows \o RowsFor(c, value[c]) ELSE read.rows
    <3>1. /\ read.at = "lookup"
          /\ read' = Reader("next", read.now, c, read.count, rows)
      BY <2>9, ReadFields
    <3>2. Rows(rows)
      BY <1>5, <2>2, <3>1, FoundRows
    <3> HIDE DEF rows
    <3> QED BY <1>7, <2>1, <2>2, <3>1, <3>2 DEF Phases
  <2> QED BY <1>8, <2>3, <2>5, <2>6, <2>7, <2>8, <2>9 DEF ReportReads
<1> QED BY <1>2, <1>3, <1>4, <1>8, ReportSteps

------------------------------------------------------------------------------
(* Reports: nobody is left out *)

Told(k) ==
  \/ k \in Sources(read.rows)
  \/ Filtered /\ \E v : <<k, v>> \in held /\ ~(v.until > read.now)

(* A source that stayed has been told of, or is still ahead of the cursor. *)
Telling ==
  /\ read.at = "next" =>
       \A k \in stayed : Told(k) \/ Ahead(map, read.cursor, k)
  /\ read.at = "lookup" =>
       \A k \in stayed :
         Told(k) \/ k = read.cursor \/ Ahead(map, read.cursor, k)
  /\ read.at = "last" => \A k \in stayed : Told(k)
  /\ read.at = "done" /\ call.n = 0 =>
       \A k \in stayed : call.ip \in {k, NoKey} => Told(k)

LEMMA TellingChange ==
  ASSUME ReportTyped, ReadTyped, Telling, NEW k \in Keys,
         Store(k) \/ Enter(k) \/ Replace(k) \/ Evict(k)
  PROVE  Telling'
<1>1. /\ UNCHANGED <<call, read>> /\ held \subseteq held'
      /\ stayed' \subseteq stayed
      /\ \A c \in Keys \cup {NoKey}, y \in stayed' :
           Ahead(map, c, y) => Ahead(map', c, y)
  BY MapChanges
<1>2. \A y : Told(y) => Told(y)'
  BY <1>1 DEF Told, Filtered
<1>3. ASSUME NEW y \in stayed', Ahead(map, read.cursor, y)
      PROVE  Ahead(map, read.cursor, y)'
  <2>1. read.cursor \in Keys \cup {NoKey}
    BY DEF ReadTyped
  <2>2. Ahead(map', read.cursor, y)
    BY <1>1, <1>3, <2>1
  <2> QED BY <1>1, <2>2 DEF Ahead, KeysOf, Before
<1> QED BY <1>1, <1>2, <1>3 DEF Telling

LEMMA TellingRead ==
  ASSUME ReportTyped, ReadTyped, Telling, ReportReads
  PROVE  Telling'
<1>1. UNCHANGED <<kind, map, value, clock, call, held, stayed>>
  BY ReadsOnly
<1>2. /\ Chain(map) /\ Present = KeysOf(map) /\ stayed \subseteq KeysOf(map)
      /\ KeysOf(map) \subseteq Keys /\ NoKey \notin Keys
      /\ Rows(read.rows) /\ call.n \in Nat
  BY PresentKeys, BucketAssumption, CallFacts DEF ReportTyped, ReadTyped
<1>3. \A c, k : Ahead(map, c, k)' = Ahead(map', c', k')
  BY DEF Ahead, KeysOf, Before
(* Rows are added, and the clock is read but once. *)
<1>4. ASSUME NEW k, Told(k), read'.now = read.now,
             Sources(read.rows) \subseteq Sources(read'.rows)
      PROVE  Told(k)'
  BY <1>1, <1>4 DEF Told, Filtered, Sources
<1>5. CASE ReadClock
  <2>1. /\ read.at = "clock"
        /\ read' = Reader(IF call.ip = NoKey THEN "next" ELSE "find",
                          clock, read.cursor, read.count, read.rows)
    BY <1>5, ReadFields
  <2>2. /\ read'.at \in {"next", "find"} /\ read'.cursor = NoKey
    BY <2>1, ReaderFields DEF ReadTyped
  <2>3. \A k \in stayed : Ahead(map, NoKey, k)
    BY <1>2 DEF Ahead
  <2> QED BY <1>1, <2>2, <2>3 DEF Telling, Ahead, KeysOf, Before
<1>6. CASE IterationAborted \/ MapClosed
  <2>1. PICK how \in {"failed", "closed"} : read' = Ended(how, <<>>)
    BY <1>6 DEF IterationAborted, MapClosed
  <2>2. read' = Reader(how, read.now, NoKey, 0, <<>>)
    BY <2>1, ReadFields
  <2>3. read'.at = how
    BY <2>2, ReaderFields
  <2> QED BY <2>3 DEF Telling
<1>7. CASE Iterate
  <2> DEFINE c == read.cursor
             next == NextKey(c)
  <2>1. /\ read.at = "next"
        /\ next = NoKey => read' = Reader("last", read.now, c, read.count,
                                          read.rows)
        /\ next # NoKey => read' = Reader("lookup", read.now, next,
                                          read.count + 1, read.rows)
    BY <1>7, ReadFields
  <2>2. /\ read'.now = read.now /\ read'.rows = read.rows
        /\ next = NoKey => read'.at = "last"
        /\ next # NoKey => read'.at = "lookup" /\ read'.cursor = next
    BY <2>1, ReaderFields
  <2>3. \A k \in stayed : Told(k) => Told(k)'
    BY <1>4, <2>2
  <2>4. ASSUME NEW k \in stayed, ~Told(k)
        PROVE  next # NoKey /\ (k = next \/ Ahead(map, next, k))
    <3>1. Ahead(map, c, k) /\ k \in KeysOf(map)
      BY <1>2, <2>1, <2>4 DEF Telling
    <3> QED BY <1>2, <3>1, AheadNext
  <2> HIDE DEF next
  <2>5. CASE next = NoKey
    BY <1>1, <2>2, <2>3, <2>4, <2>5 DEF Telling
  <2>6. CASE next # NoKey
    <3>1. \A k \in stayed : Ahead(map, next, k) => Ahead(map', read'.cursor, k)
      BY <1>1, <2>2, <2>6
    <3> QED BY <1>1, <2>2, <2>3, <2>4, <2>6, <3>1
            DEF Telling, Ahead, KeysOf, Before
  <2> QED BY <2>5, <2>6
<1>8. CASE LookupNext
  <2> DEFINE c == read.cursor
             rows == IF c \in Present
                     THEN read.rows \o RowsFor(c, value[c]) ELSE read.rows
  <2>1. /\ read.at = "lookup"
        /\ read' = Reader("next", read.now, c, read.count, rows)
    BY <1>8, ReadFields
  <2>2. /\ read'.now = read.now /\ read'.rows = rows
        /\ read'.at = "next" /\ read'.cursor = c
    BY <2>1, ReaderFields
  <2>3. /\ Sources(read.rows) \subseteq Sources(rows)
        /\ c \in stayed => \/ c \in Sources(rows)
                           \/ Filtered /\ ~(value[c].until > read.now)
    <3>1. CASE c \notin KeysOf(map)
      BY <1>2, <3>1
    <3>2. CASE c \in KeysOf(map)
      <4>1. \/ /\ Filtered /\ ~(value[c].until > read.now)
               /\ RowsFor(c, value[c]) = <<>>
            \/ \E row : RowsFor(c, value[c]) = <<row>> /\ row.ip = c
        BY <2>1, <3>2, LookedUp
      <4>2. rows = read.rows \o RowsFor(c, value[c])
        BY <1>2, <3>2
      <4>3. CASE RowsFor(c, value[c]) = <<>>
        <5>1. rows = read.rows
          BY <1>2, <4>2, <4>3, RowsAre
        <5>2. \A row : RowsFor(c, value[c]) # <<row>>
          BY <4>3, NoRows, OneRowIs
        <5> QED BY <4>1, <5>1, <5>2
      <4>4. CASE \E row : RowsFor(c, value[c]) = <<row>> /\ row.ip = c
        <5>1. PICK row : RowsFor(c, value[c]) = <<row>> /\ row.ip = c
          BY <4>4
        <5>2. rows = read.rows \o <<row>>
          BY <4>2, <5>1
        <5> HIDE DEF rows
        <5>3. Sources(rows) = Sources(read.rows) \cup {row.ip}
          BY <1>2, <5>2, RowsAdd
        <5> QED BY <5>1, <5>3
      <4> QED BY <4>1, <4>3, <4>4
    <3> QED BY <3>1, <3>2
  <2> HIDE DEF rows
  <2>4. \A k \in stayed : Told(k) => Told(k)'
    BY <1>4, <2>2, <2>3
  <2>5. c \in stayed => Told(c)'
    <3>1. c \in KeysOf(map) => <<c, value[c]>> \in held
      BY DEF ReportTyped
    <3>2. ASSUME c \in stayed
          PROVE \/ c \in Sources(read'.rows)
                \/ /\ Filtered
                   /\ \E v : <<c, v>> \in held' /\ ~(v.until > read'.now)
      BY <1>1, <1>2, <2>2, <2>3, <3>1, <3>2
    <3>3. Filtered' = Filtered
      BY <1>1 DEF Filtered
    <3>4. PICK d : d = c
      OBVIOUS
    <3>5. d \in stayed => Told(d)'
      BY <3>2, <3>3, <3>4 DEF Told, Sources
    <3>6. read'.cursor = d
      BY <2>2, <3>4
    <3> QED BY <2>2, <3>4, <3>5 DEF Told, Sources
  <2> QED BY <1>1, <2>1, <2>2, <2>4, <2>5 DEF Telling, Ahead, KeysOf, Before
<1>9. CASE Find
  <2> DEFINE k == call.ip
             rows == IF k \in Present THEN RowsFor(k, value[k]) ELSE <<>>
  <2>1. /\ read.at = "find" /\ read' = Ended("done", rows)
    BY <1>9 DEF Find
  <2>2. read' = Reader("done", read.now, NoKey, 0, rows)
    BY <2>1, ReadFields
  <2>3. read'.now = read.now /\ read'.rows = rows /\ read'.at = "done"
    BY <2>2, ReaderFields
  <2>4. k \in Keys
    BY <2>1 DEF ReadTyped
  <2>5. ASSUME k \in stayed
        PROVE  \/ k \in Sources(rows)
               \/ Filtered /\ <<k, value[k]>> \in held
                           /\ ~(value[k].until > read.now)
    <3>1. k \in KeysOf(map) /\ rows = RowsFor(k, value[k])
      BY <1>2, <2>5
    <3>2. /\ <<k, value[k]>> \in held
          /\ \/ Filtered /\ ~(value[k].until > read.now)
             \/ \E row : rows = <<row>> /\ row.ip = k
      BY <2>1, <3>1, LookedUp
    <3> HIDE DEF rows, k
    <3>3. (\E row : rows = <<row>> /\ row.ip = k) => k \in Sources(rows)
      BY OneRowIs
    <3> QED BY <3>2, <3>3
  <2> HIDE DEF rows
  <2>6. ASSUME NEW y \in stayed, y = k
        PROVE  Told(y)'
    <3>1. Filtered' = Filtered
      BY <1>1 DEF Filtered
    <3> QED BY <1>1, <2>3, <2>5, <2>6, <3>1 DEF Told, Sources
  <2>7. \A y \in stayed : y = k => Told(y)'
    BY <2>6
  <2> QED BY <1>1, <1>2, <2>3, <2>4, <2>7 DEF Telling
<1>10. CASE Answer
  <2>1. PICK rows \in IF call.by = "topRows" THEN Cut(read.rows)
                      ELSE {read.rows} :
          read' = Ended("done", rows) /\ read.at = "last"
    BY <1>10 DEF Answer
  <2>2. read' = Reader("done", read.now, NoKey, 0, rows)
    BY <2>1, ReadFields
  <2>3. read'.now = read.now /\ read'.rows = rows /\ read'.at = "done"
    BY <2>2, ReaderFields
  <2>4. call.n = 0 => Sources(rows) = Sources(read.rows)
    BY <1>2, <2>1, CutIs
  <2>5. call.n = 0 => \A k \in stayed : Told(k) => Told(k)'
    BY <1>4, <2>3, <2>4
  <2> QED BY <1>1, <2>1, <2>3, <2>5 DEF Telling
<1> QED BY <1>5, <1>6, <1>7, <1>8, <1>9, <1>10 DEF ReportReads

(* While nothing is removed or replaced the walk goes forward: the keys it *)
(* has been given are behind its cursor, each of them once.                *)
Forward ==
  /\ read.at = "failed" => moved
  /\ ~moved =>
       /\ Distinct(read.rows)
       /\ read.at \in {"next", "lookup"} =>
            /\ read.cursor \in KeysOf(map) \cup {NoKey}
            /\ read.count <= Cardinality(Behind(map, read.cursor))
            /\ Sources(read.rows) \subseteq Behind(map, read.cursor)
       /\ read.at = "lookup" => read.cursor \notin Sources(read.rows)

LEMMA ForwardChange ==
  ASSUME ReportTyped, ReadTyped, Forward, NEW k \in Keys,
         Store(k) \/ Enter(k) \/ Replace(k) \/ Evict(k)
  PROVE  Forward'
<1>1. /\ UNCHANGED <<call, read>> /\ ReportTyped'
      /\ ~moved' => /\ ~moved
                    /\ KeysOf(map) \subseteq KeysOf(map')
                    /\ \A x, y : Before(map, x, y) => Before(map', x, y)
  BY MapChanges
<1>2. read.at # "failed"
  BY DEF Store, Enter, Replace, Evict, Change, Underway
<1>3. Chain(map) /\ Chain(map')
  BY <1>1 DEF ReportTyped, Chain
<1>4. ASSUME ~moved'
      PROVE  /\ Behind(map, read.cursor) \subseteq Behind(map', read.cursor)
             /\ Cardinality(Behind(map, read.cursor))
                  <= Cardinality(Behind(map', read.cursor))
             /\ Cardinality(Behind(map, read.cursor)) \in Nat
             /\ Cardinality(Behind(map', read.cursor)) \in Nat
  <2>1. Behind(map, read.cursor) \subseteq Behind(map', read.cursor)
    BY <1>1, <1>4 DEF Behind
  <2>2. /\ IsFiniteSet(Behind(map', read.cursor))
        /\ Cardinality(Behind(map, read.cursor)) \in Nat
        /\ Cardinality(Behind(map', read.cursor)) \in Nat
    BY <1>3, BehindFinite
  <2> QED BY <2>1, <2>2, FS_Subset
<1>5. read.count \in Nat
  BY DEF ReadTyped
<1>6. ASSUME ~moved', read.at \in {"next", "lookup"}
      PROVE  /\ read.cursor \in KeysOf(map') \cup {NoKey}
             /\ read.count <= Cardinality(Behind(map', read.cursor))
             /\ Sources(read.rows) \subseteq Behind(map', read.cursor)
  BY <1>1, <1>4, <1>5, <1>6 DEF Forward
<1>7. ASSUME ~moved', read.at \in {"next", "lookup"}
      PROVE  /\ read'.cursor \in KeysOf(map)' \cup {NoKey}
             /\ read'.count <= Cardinality(Behind(map, read.cursor))'
             /\ Sources(read.rows)' \subseteq Behind(map, read.cursor)'
  <2>1. /\ KeysOf(map)' = KeysOf(map') /\ read'.cursor = read.cursor
        /\ Behind(map, read.cursor)' = Behind(map', read.cursor)
        /\ Sources(read.rows)' = Sources(read.rows)
        /\ read'.count = read.count
    BY <1>1 DEF KeysOf, Behind, Before, Sources
  <2>2. Cardinality(Behind(map, read.cursor))'
          = Cardinality(Behind(map', read.cursor))
    BY <2>1
  <2> QED BY <1>6, <1>7, <2>1, <2>2
<1>8. /\ Distinct(read.rows)' <=> Distinct(read.rows)
      /\ Sources(read.rows)' = Sources(read.rows)
      /\ read'.at = read.at /\ read'.cursor = read.cursor
  BY <1>1 DEF Distinct, Sources
<1> QED BY <1>1, <1>2, <1>7, <1>8 DEF Forward

LEMMA ForwardRead ==
  ASSUME ReportTyped, ReadTyped, Forward, ReportReads
  PROVE  Forward'
<1>1. UNCHANGED <<kind, map, value, call, moved>>
  BY ReadsOnly
<1>2. /\ Chain(map) /\ Present = KeysOf(map) /\ Len(map) <= MaxEntries
      /\ Len(map) \in Nat /\ Rows(read.rows) /\ read.count \in Nat
      /\ call.n \in Nat
  BY PresentKeys, CallFacts, LenProperties DEF ReportTyped, ReadTyped, Chain
(* It is enough to look at reports during which nothing moved. *)
<1>3. ASSUME NEW at, NEW cursor, NEW count, NEW rows, NEW now,
             read' = Reader(at, now, cursor, count, rows),
             ~moved => /\ at # "failed" /\ Distinct(rows)
                       /\ at \in {"next", "lookup"} =>
                            /\ cursor \in KeysOf(map) \cup {NoKey}
                            /\ count <= Cardinality(Behind(map, cursor))
                            /\ Sources(rows) \subseteq Behind(map, cursor)
                       /\ at = "lookup" => cursor \notin Sources(rows)
      PROVE  Forward'
  <2>1. /\ read'.at = at /\ read'.cursor = cursor
        /\ read'.count = count /\ read'.rows = rows
    BY <1>3, ReaderFields
  <2>2. /\ KeysOf(map)' = KeysOf(map)
        /\ Behind(map, read.cursor)' = Behind(map, cursor)
        /\ Sources(read.rows)' = Sources(rows)
        /\ Distinct(read.rows)' <=> Distinct(rows)
    BY <1>1, <2>1 DEF KeysOf, Behind, Before, Sources, Distinct
  <2>3. Cardinality(Behind(map, read.cursor))'
          = Cardinality(Behind(map, cursor))
    BY <2>2
  <2> QED BY <1>1, <1>3, <2>1, <2>2, <2>3 DEF Forward
<1>4. CASE ReadClock
  <2>1. /\ read.at = "clock"
        /\ read' = Reader(IF call.ip = NoKey THEN "next" ELSE "find",
                          clock, read.cursor, read.count, read.rows)
    BY <1>4, ReadFields
  <2>2. read.cursor = NoKey /\ read.count = 0 /\ read.rows = <<>>
    BY <2>1 DEF ReadTyped
  <2>3. 0 <= Cardinality(Behind(map, NoKey))
    BY <1>2, BehindFinite
  <2>4. /\ Sources(read.rows) \subseteq Behind(map, NoKey)
        /\ Distinct(read.rows)
    BY <2>2, NoRows
  <2> DEFINE how == IF call.ip = NoKey THEN "next" ELSE "find"
  <2>5. how \in {"next", "find"}
    OBVIOUS
  <2> HIDE DEF how
  <2> QED BY <1>3, <2>1, <2>2, <2>3, <2>4, <2>5 DEF how
<1>5. CASE IterationAborted
  <2>1. /\ read.at = "next" /\ read.count > MaxEntries
        /\ read' = Ended("failed", <<>>)
    BY <1>5 DEF IterationAborted
  <2>2. read' = Reader("failed", read.now, NoKey, 0, <<>>)
    BY <2>1, ReadFields
  <2>3. moved
    <3>1. /\ Cardinality(Behind(map, read.cursor)) <= Len(map)
          /\ Cardinality(Behind(map, read.cursor)) \in Nat
      BY <1>2, BehindFinite
    <3>2. ~moved => read.count <= Cardinality(Behind(map, read.cursor))
      BY <2>1 DEF Forward
    <3>3. MaxEntries \in Nat
      BY ReportConstants
    <3> QED BY <1>2, <2>1, <3>1, <3>2, <3>3
  <2> QED BY <1>3, <2>2, <2>3
<1>6. CASE MapClosed
  <2>1. read' = Ended("closed", <<>>)
    BY <1>6 DEF MapClosed
  <2>2. read' = Reader("closed", read.now, NoKey, 0, <<>>)
    BY <2>1, ReadFields
  <2> QED BY <1>3, <2>2, NoRows
<1>7. CASE Iterate
  <2> DEFINE c == read.cursor
             next == NextKey(c)
  <2>1. /\ read.at = "next"
        /\ next = NoKey => read' = Reader("last", read.now, c, read.count,
                                          read.rows)
        /\ next # NoKey => read' = Reader("lookup", read.now, next,
                                          read.count + 1, read.rows)
    BY <1>7, ReadFields
  <2>2. CASE next = NoKey
    <3>1. ~moved => Distinct(read.rows)
      BY DEF Forward
    <3> HIDE DEF next
    <3> QED BY <1>3, <2>1, <2>2, <3>1
  <2>3. CASE next # NoKey
    <3>1. ASSUME ~moved
          PROVE  /\ Distinct(read.rows) /\ next \in KeysOf(map)
                 /\ read.count + 1 <= Cardinality(Behind(map, next))
                 /\ Sources(read.rows) \subseteq Behind(map, next)
                 /\ next \notin Sources(read.rows)
      <4>1. /\ c \in KeysOf(map) \cup {NoKey} /\ Distinct(read.rows)
            /\ read.count <= Cardinality(Behind(map, c))
            /\ Sources(read.rows) \subseteq Behind(map, c)
        BY <2>1, <3>1 DEF Forward
      <4>2. /\ next \in KeysOf(map) /\ next \notin Behind(map, c)
            /\ Behind(map, c) \cup {next} \subseteq Behind(map, next)
        BY <1>2, <2>3, <4>1, BehindNext
      <4>3. /\ IsFiniteSet(Behind(map, c))
            /\ Cardinality(Behind(map, c)) \in Nat
            /\ IsFiniteSet(Behind(map, next))
            /\ Cardinality(Behind(map, next)) \in Nat
        BY <1>2, BehindFinite
      <4> HIDE DEF next
      <4>4. Cardinality(Behind(map, c) \cup {next})
              = Cardinality(Behind(map, c)) + 1
        BY <4>2, <4>3, FS_AddElement
      <4>5. Cardinality(Behind(map, c) \cup {next})
              <= Cardinality(Behind(map, next))
        BY <4>2, <4>3, FS_Subset
      <4>6. read.count + 1 <= Cardinality(Behind(map, next))
        BY <1>2, <4>1, <4>3, <4>4, <4>5
      <4> QED BY <4>1, <4>2, <4>6
    <3> HIDE DEF next
    <3> QED BY <1>3, <2>1, <2>3, <3>1
  <2> QED BY <2>2, <2>3
<1>8. CASE LookupNext
  <2> DEFINE c == read.cursor
             rows == IF c \in Present
                     THEN read.rows \o RowsFor(c, value[c]) ELSE read.rows
  <2>1. /\ read.at = "lookup"
        /\ read' = Reader("next", read.now, c, read.count, rows)
    BY <1>8, ReadFields
  <2>2. ASSUME ~moved
        PROVE  /\ Distinct(rows)
               /\ c \in KeysOf(map) \cup {NoKey}
               /\ read.count <= Cardinality(Behind(map, c))
               /\ Sources(rows) \subseteq Behind(map, c)
    <3>1. /\ c \in KeysOf(map) \cup {NoKey} /\ Distinct(read.rows)
          /\ read.count <= Cardinality(Behind(map, c))
          /\ Sources(read.rows) \subseteq Behind(map, c)
          /\ c \notin Sources(read.rows)
      BY <2>1, <2>2 DEF Forward
    <3>2. CASE c \notin KeysOf(map)
      BY <1>2, <3>1, <3>2
    <3>3. CASE c \in KeysOf(map)
      <4>1. \/ RowsFor(c, value[c]) = <<>>
            \/ \E row : RowsFor(c, value[c]) = <<row>> /\ row.ip = c
        BY <2>1, <3>3, LookedUp
      <4>2. rows = read.rows \o RowsFor(c, value[c]) /\ c \in Behind(map, c)
        BY <1>2, <3>3 DEF Behind
      <4>3. CASE RowsFor(c, value[c]) = <<>>
        BY <1>2, <3>1, <4>2, <4>3, RowsAre
      <4>4. CASE \E row : RowsFor(c, value[c]) = <<row>> /\ row.ip = c
        <5>1. PICK row : RowsFor(c, value[c]) = <<row>> /\ row.ip = c
          BY <4>4
        <5>2. rows = read.rows \o <<row>>
          BY <4>2, <5>1
        <5> HIDE DEF rows
        <5>3. /\ Sources(rows) = Sources(read.rows) \cup {row.ip}
              /\ Distinct(read.rows) /\ row.ip \notin Sources(read.rows)
                   => Distinct(rows)
          BY <1>2, <5>2, RowsAdd
        <5> QED BY <3>1, <4>2, <5>1, <5>3
      <4> QED BY <4>1, <4>3, <4>4
    <3> QED BY <3>2, <3>3
  <2> HIDE DEF rows
  <2> QED BY <1>3, <2>1, <2>2
<1>9. CASE Find
  <2> DEFINE k == call.ip
             rows == IF k \in Present THEN RowsFor(k, value[k]) ELSE <<>>
  <2>1. /\ read.at = "find" /\ read' = Ended("done", rows)
    BY <1>9 DEF Find
  <2>2. read' = Reader("done", read.now, NoKey, 0, rows)
    BY <2>1, ReadFields
  <2>3. Distinct(rows)
    BY <1>2, <2>1, FoundRows, NoRows
  <2> HIDE DEF rows
  <2> QED BY <1>3, <2>2, <2>3
<1>10. CASE Answer
  <2>1. PICK rows \in IF call.by = "topRows" THEN Cut(read.rows)
                      ELSE {read.rows} :
          read' = Ended("done", rows) /\ read.at = "last"
    BY <1>10 DEF Answer
  <2>2. read' = Reader("done", read.now, NoKey, 0, rows)
    BY <2>1, ReadFields
  <2>3. ~moved => Distinct(rows)
    BY <1>2, <2>1, CutIs DEF Forward
  <2> QED BY <1>3, <2>2, <2>3
<1> QED BY <1>4, <1>5, <1>6, <1>7, <1>8, <1>9, <1>10 DEF ReportReads

LEMMA ToldFirst ==
  ASSUME MapReportInit
  PROVE  Telling /\ Forward
<1>1. read.at = "clock" /\ read.rows = <<>>
  BY DEF MapReportInit
<1>2. Distinct(read.rows)
  BY <1>1, NoRows
<1> QED BY <1>1, <1>2 DEF Telling, Forward

LEMMA ToldNext ==
  ASSUME ReportTyped, ReadTyped, Telling, Forward, [MapReportNext]_mapReportVars
  PROVE  Telling' /\ Forward'
<1>1. CASE ReportReads
  BY <1>1, TellingRead, ForwardRead
<1>2. CASE \E k \in Keys : Store(k) \/ Enter(k) \/ Replace(k) \/ Evict(k)
  BY <1>2, TellingChange, ForwardChange
<1>3. CASE Tick \/ UNCHANGED mapReportVars
  <2>1. UNCHANGED <<kind, map, value, call, read, history>>
    BY <1>3 DEF Tick, mapReportVars
  <2>2. UNCHANGED <<map, call, read, held, stayed, moved>>
    BY <2>1 DEF history
  <2>3. Telling'
    BY <2>2 DEF Telling, Told, Filtered, Sources, Ahead, KeysOf, Before
  <2>4. /\ KeysOf(map)' = KeysOf(map)
        /\ Behind(map, read.cursor)' = Behind(map, read.cursor)
        /\ Sources(read.rows)' = Sources(read.rows)
        /\ Distinct(read.rows)' <=> Distinct(read.rows)
    BY <2>2 DEF KeysOf, Behind, Before, Sources, Distinct
  <2>5. Cardinality(Behind(map, read.cursor))'
          = Cardinality(Behind(map, read.cursor))
    BY <2>4
  <2> QED BY <2>2, <2>3, <2>4, <2>5 DEF Forward
<1> QED BY <1>1, <1>2, <1>3, ReportSteps

(* A report answered while nothing moved has one row per source. *)
LEMMA OneRowEach ==
  ASSUME NEW q, Rows(q), Distinct(q)
  PROVE  Len(q) = Cardinality(Sources(q))
<1> DEFINE n == Len(q)
           ip == [i \in 1..n |-> q[i].ip]
<1>1. n \in Nat
  BY RowsAre
<1>2. ip \in Bijection(1..n, Sources(q))
  <2>1. ip \in [1..n -> Sources(q)]
    BY DEF Sources
  <2>2. ASSUME NEW i \in 1..n, NEW j \in 1..n, ip[i] = ip[j]
        PROVE  i = j
    BY <2>2 DEF Distinct
  <2>3. \A x \in Sources(q) : \E i \in 1..n : ip[i] = x
    BY DEF Sources
  <2> HIDE DEF ip
  <2> QED BY <2>1, <2>2, <2>3
          DEF Bijection, Injection, Surjection, IsInjective
<1>3. IsFiniteSet(1..n) /\ Cardinality(1..n) = n
  <2>1. /\ IsFiniteSet(1..n)
        /\ Cardinality(1..n) = IF 1 > n THEN 0 ELSE n - 1 + 1
    BY <1>1, FS_Interval
  <2> HIDE DEF n
  <2> QED BY <1>1, <2>1
<1>4. ExistsBijection(1..n, Sources(q))
  BY <1>2 DEF ExistsBijection
<1> QED BY <1>3, <1>4, FS_Bijection

LEMMA ToldIsComplete ==
  ASSUME ReportTyped, ReadTyped, Telling, Forward
  PROVE  ReportComplete
<1>1. Listed = Sources(read.rows) /\ Rows(read.rows)
  BY RowsAre DEF ReadTyped, Listed, Sources
<1>2. ASSUME Done, call.n = 0, NEW k \in Wanted
      PROVE  k \in Listed
  <2>1. Told(k)
    BY <1>2 DEF Wanted, Done, Telling
  <2>2. ASSUME Filtered, NEW v, <<k, v>> \in held, ~(v.until > read.now)
        PROVE  FALSE
    <3>1. v \in HeldBy(k)
      BY <2>2 DEF HeldBy
    <3>2. Blacklisted(v)
      BY <1>2, <2>2, <3>1 DEF Wanted
    <3>3. v \in Values /\ kind = "health"
      BY <2>2, CallFacts DEF ReportTyped
    <3>4. v.until \in Nat
      BY <3>3 DEF Values
    <3>5. read.now = Start /\ Start \in Nat /\ clock \in Nat /\ clock >= Start
      BY <1>2, ReportConstants DEF ReportTyped, ReadTyped, Done
    <3> QED BY <2>2, <3>2, <3>4, <3>5 DEF Blacklisted
  <2> QED BY <1>1, <2>1, <2>2 DEF Told
<1>3. ASSUME Done, ~moved
      PROVE  Len(read.rows) = Cardinality(Listed)
  BY <1>1, <1>3, OneRowEach DEF Forward
<1> QED BY <1>2, <1>3 DEF ReportComplete, Forward

(* Whatever a report walks past, while elements come, go and move from     *)
(* bucket to bucket, an answer tells of every source that sat untouched    *)
(* and, if it is about the blacklisted, was blacklisted throughout; a      *)
(* source is told of twice, or the iteration aborted, only where elements  *)
(* were removed or replaced.  So for any map, hash, order and values.      *)
THEOREM ReportsMissNone == MapReportSpec => []ReportComplete
<1>1. MapReportInit => ReportTyped /\ ReadTyped /\ Telling /\ Forward
  BY ReportTypedFirst, ToldFirst
<1>2. /\ ReportTyped /\ ReadTyped /\ Telling /\ Forward
      /\ [MapReportNext]_mapReportVars
      => (ReportTyped /\ ReadTyped /\ Telling /\ Forward)'
  BY ReportTypedNext, ReadTypedNext, ToldNext
<1>3. ReportTyped /\ ReadTyped /\ Telling /\ Forward => ReportComplete
  BY ToldIsComplete
<1> QED BY <1>1, <1>2, <1>3, PTL DEF MapReportSpec

------------------------------------------------------------------------------
(* Reports: what a row says *)

(* What top sorts by. *)
Rank(v) ==
  CASE kind = "timestamp" -> -Age(v)
    [] kind = "count" -> Signed(v)
    [] kind = "ratelimit" -> -Signed(v.tokens)
    [] kind = "health" -> v.anomalies
    [] kind = "drop-reasons" ->
         IF call.reason = AnyReason THEN Signed(Total(v))
         ELSE Signed(v.counts[call.reason])

(* A row as one of the functions makes it of v. *)
Says(row, v) ==
  /\ "blacklisted" \in DOMAIN row => kind = "health"
  /\ kind = "timestamp" => row.age = Age(v)
  /\ kind = "count" => row.count = v
  /\ kind = "ratelimit" => row.tokens = v.tokens /\ row.age = Age(v.last)
  /\ kind = "health" =>
       /\ row.blacklisted = (v.until > read.now)
       /\ "anomalies" \in DOMAIN row =>
            /\ row.anomalies = v.anomalies
            /\ row.age = Age(v.start)
            /\ row.remaining = IF v.until > read.now
                               THEN AgeSeconds(v.until, read.now) ELSE 0
  /\ kind = "drop-reasons" =>
       /\ row.first = Age(v.first) /\ row.age = Age(v.last)
       /\ row.total = Total(v) /\ row.by = DropCounts(v).by
  /\ call.by = "topRows" => row.sort = Rank(v)

(* The rows the functions choose from. *)
LEMMA RowIs ==
  ASSUME kind \in Kinds, call \in Calls, NEW k, NEW v, NEW row,
         RowsFor(k, v) = <<row>>
  PROVE  /\ call.by = "topRows" => row = TopRow(k, v)
         /\ call.by # "topRows" =>
              /\ kind = "timestamp" => row = TimestampRow(k, v)
              /\ kind = "count" => row = CountRow(k, v)
              /\ kind = "ratelimit" => row = RatelimitRow(k, v)
              /\ kind = "health" =>
                   \/ row = HealthRow(k, v)
                   \/ row = [ip |-> k, blacklisted |-> v.until > read.now]
              /\ kind = "drop-reasons" => row = DropHistoryRow(k, v)
<1>1. call.by \in Reporters(kind)
  BY CallFacts
<1>2. \A x, y : <<x>> = <<y>> => x = y
  BY OneRowIs
<1>3. CASE call.by = "topRows"
  <2>1. RowsFor(k, v) = <<TopRow(k, v)>>
    BY <1>3 DEF RowsFor, Dumpers, Lookups, Inspectors
  <2> QED BY <1>2, <1>3, <2>1
<1>4. CASE call.by # "topRows" /\ kind = "timestamp"
  <2>1. call.by \in {"handleTimestampMap", "writeTimestampDump",
                     "lookupTimestamp", "inspectTimestamp"}
    BY <1>1, <1>4 DEF Reporters
  <2>2. RowsFor(k, v) = <<TimestampRow(k, v)>>
    BY <1>4, <2>1 DEF RowsFor, Dumpers, Lookups, Inspectors,
                      HandleTimestampMap, WriteDump, LookupIP, Inspect
  <2> QED BY <1>2, <1>4, <2>2
<1>5. CASE call.by # "topRows" /\ kind = "count"
  <2>1. call.by \in {"handleCountMap", "writeCountDump", "lookupCount",
                     "inspectCount"}
    BY <1>1, <1>5 DEF Reporters
  <2>2. RowsFor(k, v) = <<CountRow(k, v)>>
    BY <1>5, <2>1 DEF RowsFor, Dumpers, Lookups, Inspectors,
                      HandleCountMap, WriteDump, LookupIP, Inspect
  <2> QED BY <1>2, <1>5, <2>2
<1>6. CASE call.by # "topRows" /\ kind = "ratelimit"
  <2>1. call.by \in {"writeRatelimitDump", "lookupRatelimit",
                     "inspectRatelimit"}
    BY <1>1, <1>6 DEF Reporters
  <2>2. RowsFor(k, v) = <<RatelimitRow(k, v)>>
    BY <1>6, <2>1 DEF RowsFor, Dumpers, Lookups, Inspectors,
                      WriteDump, LookupIP, Inspect
  <2> QED BY <1>2, <1>6, <2>2
<1>7. CASE call.by # "topRows" /\ kind = "drop-reasons"
  <2>1. call.by \in {"handleDropHistory", "writeDropHistoryDump",
                     "lookupDropHistory", "inspectDropHistory"}
    BY <1>1, <1>7 DEF Reporters
  <2>2. RowsFor(k, v) = <<DropHistoryRow(k, v)>>
    BY <1>7, <2>1 DEF RowsFor, Dumpers, Lookups, Inspectors,
                      HandleDropHistory, WriteDump, LookupIP, Inspect
  <2> QED BY <1>2, <1>7, <2>2
<1>8. CASE call.by # "topRows" /\ kind = "health"
  <2> DEFINE whole == HealthRow(k, v)
             brief == [ip |-> k, blacklisted |-> v.until > read.now]
  <2>1. CASE call.by \in {"handleBlacklist", "handleHealth",
                          "writeHealthTable"}
    <3>1. RowsFor(k, v) = <<>> \/ RowsFor(k, v) = <<whole>>
      BY <2>1 DEF RowsFor, Dumpers, Lookups, Inspectors, HandleBlacklist,
                  HandleHealth, WriteHealthTable
    <3> QED BY <1>2, <1>8, <3>1, NoRows, OneRowIs
  <2>2. CASE call.by \in {"writeHealthDump", "lookupHealth", "inspectHealth"}
    <3>1. RowsFor(k, v) = <<whole>>
      BY <1>8, <2>2 DEF RowsFor, Dumpers, Lookups, Inspectors, WriteDump,
                        LookupIP, Inspect
    <3> QED BY <1>2, <1>8, <3>1
  <2>3. CASE call.by = "countBlacklisted"
    <3>1. RowsFor(k, v) = IF v.until > read.now
                          THEN <<[ip |-> k, blacklisted |-> TRUE]>> ELSE <<>>
      BY <2>3 DEF RowsFor, Dumpers, Lookups, Inspectors, CountBlacklisted
    <3>2. v.until > read.now /\ row = [ip |-> k, blacklisted |-> TRUE]
      BY <1>2, <3>1, NoRows, OneRowIs
    <3> QED BY <1>8, <3>2
  <2>4. CASE call.by = "countHealth"
    <3>1. RowsFor(k, v) = <<brief>>
      BY <2>4 DEF RowsFor, Dumpers, Lookups, Inspectors, CountHealth
    <3> QED BY <1>2, <1>8, <3>1
  <2> QED BY <1>1, <1>8, <2>1, <2>2, <2>3, <2>4 DEF Reporters
<1> QED BY <1>3, <1>4, <1>5, <1>6, <1>7, <1>8 DEF Kinds

LEMMA RowSays ==
  ASSUME kind \in Kinds, call \in Calls, NEW k, NEW v, NEW row,
         RowsFor(k, v) = <<row>>
  PROVE  Says(row, v)
<1>1. ASSUME call.by = "topRows"
      PROVE  row = TopRow(k, v)
  BY <1>1, RowIs
<1>2. CASE kind = "timestamp"
  <2>1. \/ call.by # "topRows" /\ row = TimestampRow(k, v)
        \/ call.by = "topRows" /\ row = Ranked(TimestampRow(k, v), Rank(v))
    BY <1>1, <1>2, RowIs DEF TopRow, Rank
  <2> QED BY <1>2, <2>1 DEF Says, TimestampRow, Ranked
<1>3. CASE kind = "count"
  <2>1. \/ call.by # "topRows" /\ row = CountRow(k, v)
        \/ call.by = "topRows" /\ row = Ranked(CountRow(k, v), Rank(v))
    BY <1>1, <1>3, RowIs DEF TopRow, Rank
  <2> QED BY <1>3, <2>1 DEF Says, CountRow, Ranked
<1>4. CASE kind = "ratelimit"
  <2>1. \/ call.by # "topRows" /\ row = RatelimitRow(k, v)
        \/ call.by = "topRows" /\ row = Ranked(RatelimitRow(k, v), Rank(v))
    BY <1>1, <1>4, RowIs DEF TopRow, Rank
  <2> QED BY <1>4, <2>1 DEF Says, RatelimitRow, Ranked
<1>5. CASE kind = "health"
  <2>1. \/ /\ call.by # "topRows"
           /\ \/ row = HealthRow(k, v)
              \/ row = [ip |-> k, blacklisted |-> v.until > read.now]
        \/ call.by = "topRows" /\ row = Ranked(HealthRow(k, v), Rank(v))
    BY <1>1, <1>5, RowIs DEF TopRow, Rank
  <2> QED BY <1>5, <2>1 DEF Says, HealthRow, Ranked
<1>6. CASE kind = "drop-reasons"
  <2>1. \/ call.by # "topRows" /\ row = DropHistoryRow(k, v)
        \/ call.by = "topRows" /\ row = Ranked(DropHistoryRow(k, v), Rank(v))
    BY <1>1, <1>6, RowIs DEF TopRow, Rank
  <2>2. DropCounts(v).total = Total(v)
    BY DEF DropCounts
  <2> QED BY <1>6, <2>1, <2>2 DEF Says, DropHistoryRow, Ranked
<1> QED BY <1>2, <1>3, <1>4, <1>5, <1>6 DEF Kinds

(* What a row says of a value depends on the clock that was read only.     *)
LEMMA SaysStill ==
  ASSUME UNCHANGED <<kind, call>>, read'.now = read.now,
         NEW row, NEW v, Says(row, v)
  PROVE  Says(row, v)'
<1>1. \A t : Age(t)' = Age(t')
  BY DEF Age, AgeSeconds
<1>2. PICK r, w : r = row /\ w = v
  OBVIOUS
<1>3. Rank(w)' = Rank(w)
  BY DEF Rank, Age, AgeSeconds, Signed, Total
<1>4. Says(r, w)
  BY <1>2
<1>5. Says(r, w)'
  BY <1>3, <1>4 DEF Says, Age, AgeSeconds, Total, DropCounts
<1> QED BY <1>2, <1>5

LEMMA WholeSeconds ==
  ASSUME NEW x \in Nat
  PROVE  /\ x \div Second \in Nat
         /\ (x \div Second) * Second <= x
         /\ x < (x \div Second + 1) * Second
<1>1. \A n \in Nat \ {0} : /\ x \div n \in Nat
                           /\ (x \div n) * n <= x
                           /\ x < (x \div n + 1) * n
  OBVIOUS
<1> QED BY <1>1, ReportConstants

LEMMA AgedRight ==
  ASSUME ReportTyped, read.now = Start, NEW then \in 0..clock
  PROVE  Age(then) \in Nat /\ Aged(Age(then), then)
<1>1. Start \in Nat /\ clock \in Nat /\ clock >= Start /\ Second \in Nat \ {0}
  BY ReportConstants DEF ReportTyped
<1>2. CASE Start < then
  <2>1. Age(then) = 0
    BY <1>2 DEF Age, AgeSeconds
  <2>2. 0 * Second <= clock - then /\ Start - then < (0 + 1) * Second
    BY <1>1, <1>2
  <2> QED BY <2>1, <2>2 DEF Aged
<1>3. CASE ~(Start < then)
  <2> DEFINE x == Start - then
             q == x \div Second
  <2>1. Age(then) = q
    BY <1>3 DEF Age, AgeSeconds
  <2>2. x \in Nat /\ x <= clock - then /\ clock - then \in Nat
    BY <1>1, <1>3
  <2> HIDE DEF x
  <2>3. q \in Nat /\ q * Second <= x /\ x < (q + 1) * Second
    BY <2>2, WholeSeconds
  <2>4. q * Second \in Nat
    BY <1>1, <2>3
  <2>5. q * Second <= clock - then
    <3> DEFINE p == q * Second
               d == clock - then
    <3> HIDE DEF p, d
    <3>1. p \in Nat /\ d \in Nat /\ p <= x /\ x <= d
      BY <2>2, <2>3, <2>4 DEF p, d
    <3>2. p <= d
      BY <2>2, <3>1
    <3> QED BY <3>2 DEF p, d
  <2>6. read.now - then < (q + 1) * Second
    BY <2>3 DEF x
  <2> HIDE DEF q
  <2> QED BY <2>1, <2>3, <2>5, <2>6 DEF Aged
<1> QED BY <1>2, <1>3

(* Reasons without a drop add nothing to the total. *)
LEMMA ListedTotal ==
  ASSUME NEW v, v.counts \in [Reasons -> Nat]
  PROVE  LET by == DropCounts(v).by
         IN  /\ by = [r \in DOMAIN by |-> v.counts[r]]
             /\ SumOver(by, DOMAIN by) = Total(v)
<1> DEFINE c == v.counts
           shown == {r \in Reasons : c[r] # 0}
           by == [r \in shown |-> c[r]]
<1>1. DropCounts(v).by = by
  BY DEF DropCounts
<1>2. c \in [Reasons -> Nat]
  OBVIOUS
<1>3. Units(by, shown) = Units(c, Reasons)
  <2>1. Units(by, shown) \subseteq Units(c, Reasons)
    BY DEF Units
  <2>2. ASSUME NEW u \in Units(c, Reasons)
        PROVE  u \in Units(by, shown)
    <3>1. PICK r \in Reasons : u \in {r} \X (1..c[r])
      BY DEF Units
    <3>2. c[r] # 0
      BY <1>2, <3>1
    <3>3. r \in shown /\ by[r] = c[r]
      BY <3>2
    <3> QED BY <3>1, <3>3 DEF Units
  <2> QED BY <2>1, <2>2
<1>4. SumOver(by, shown) = Total(v)
  BY <1>3 DEF SumOver, Total
<1>5. DOMAIN by = shown
  OBVIOUS
<1> QED BY <1>1, <1>4, <1>5

LEMMA SaysTrue ==
  ASSUME ReportTyped, read.now = Start, NEW v \in Values,
         NEW row, Says(row, v)
  PROVE  Tells(row, v)
<1>1. CASE kind = "timestamp"
  <2>1. v \in 0..clock
    BY <1>1 DEF Values
  <2> QED BY <1>1, <2>1, AgedRight DEF Says, Tells
<1>2. CASE kind = "count"
  BY <1>2 DEF Says, Tells
<1>3. CASE kind = "ratelimit"
  <2>1. v.last \in 0..clock
    BY <1>3 DEF Values
  <2> QED BY <1>3, <2>1, AgedRight DEF Says, Tells
<1>4. CASE kind = "health"
  <2>1. v.start \in 0..clock /\ v.until \in Nat
    BY <1>4 DEF Values
  <2>2. ASSUME v.until > read.now
        PROVE  Remains(AgeSeconds(v.until, read.now), v.until)
    <3> DEFINE x == v.until - read.now
    <3>1. x \in Nat /\ ~(v.until < read.now)
      BY <2>1, <2>2, ReportConstants
    <3>2. AgeSeconds(v.until, read.now) = x \div Second
      BY <3>1 DEF AgeSeconds
    <3> HIDE DEF x
    <3>3. /\ (x \div Second) * Second <= x
          /\ x < (x \div Second + 1) * Second
      BY <3>1, WholeSeconds
    <3> QED BY <3>2, <3>3 DEF Remains, x
  <2>3. Aged(Age(v.start), v.start)
    BY <2>1, AgedRight
  <2> QED BY <1>4, <2>2, <2>3 DEF Says, Tells
<1>5. CASE kind = "drop-reasons"
  <2>1. /\ v.first \in 0..clock /\ v.last \in 0..clock
        /\ v.counts \in [Reasons -> Nat]
    BY <1>5 DEF Values
  <2>2. Aged(Age(v.first), v.first) /\ Aged(Age(v.last), v.last)
    BY <2>1, AgedRight
  <2> DEFINE by == DropCounts(v).by
  <2>3. /\ by = [r \in DOMAIN by |-> v.counts[r]]
        /\ SumOver(by, DOMAIN by) = Total(v)
    BY <2>1, ListedTotal
  <2>4. /\ row.first = Age(v.first) /\ row.age = Age(v.last)
        /\ row.total = Total(v) /\ row.by = by
    BY <1>5 DEF Says
  <2> HIDE DEF by
  <2>5. /\ row.by = [r \in DOMAIN row.by |-> v.counts[r]]
        /\ SumOver(row.by, DOMAIN row.by) = Total(v)
    BY <2>3, <2>4
  <2> QED BY <1>5, <2>2, <2>4, <2>5 DEF Tells
<1> QED BY <1>1, <1>2, <1>3, <1>4, <1>5 DEF Kinds, ReportTyped

(* Every row is what the function makes of a value that was held. *)
Vouched ==
  \A i \in 1..Len(read.rows) :
    \E v : <<read.rows[i].ip, v>> \in held /\ Says(read.rows[i], v)

LEMMA VouchedFirst ==
  ASSUME MapReportInit
  PROVE  Vouched
<1>1. Len(read.rows) = 0
  BY NoRows DEF MapReportInit
<1> QED BY <1>1 DEF Vouched

LEMMA VouchedNext ==
  ASSUME ReportTyped, ReadTyped, Vouched, [MapReportNext]_mapReportVars
  PROVE  Vouched'
<1>1. kind' = kind /\ call' = call /\ held \subseteq held'
  <2>1. CASE Tick \/ UNCHANGED mapReportVars
    BY <2>1 DEF Tick, mapReportVars, history
  <2>2. CASE \E k \in Keys : Store(k) \/ Enter(k) \/ Replace(k) \/ Evict(k)
    BY <2>2, MapChanges
  <2>3. CASE ReportReads
    BY <2>3, ReadsOnly
  <2> QED BY <2>1, <2>2, <2>3, ReportSteps
<1>2. ASSUME NEW q, read'.rows = q,
             read'.now = read.now,
             \A i \in 1..Len(q) :
               \E v : <<q[i].ip, v>> \in held /\ Says(q[i], v)
      PROVE  Vouched'
  <2>1. ASSUME NEW i \in 1..Len(q)
        PROVE  \E v : <<q[i].ip, v>> \in held' /\ Says(q[i], v)'
    <3>1. PICK v : <<q[i].ip, v>> \in held /\ Says(q[i], v)
      BY <1>2
    <3>2. PICK row : row = q[i]
      OBVIOUS
    <3>3. Says(row, v)'
      BY <1>1, <1>2, <3>1, <3>2, SaysStill
    <3> QED BY <1>1, <3>1, <3>2, <3>3
  <2> QED BY <1>2, <2>1 DEF Vouched
<1>3. CASE UNCHANGED read
  BY <1>2, <1>3 DEF Vouched
<1>4. CASE ReportReads
  <2>1. /\ Present = KeysOf(map) /\ Rows(read.rows) /\ call.n \in Nat
        /\ kind \in Kinds /\ call \in Calls
    BY PresentKeys, CallFacts DEF ReportTyped, ReadTyped
  <2>2. CASE ReadClock
    <3>1. /\ read.at = "clock"
          /\ read' = Reader(IF call.ip = NoKey THEN "next" ELSE "find",
                            clock, read.cursor, read.count, read.rows)
      BY <2>2, ReadFields
    <3>2. read.rows = <<>>
      BY <3>1 DEF ReadTyped
    <3>3. Len(read'.rows) = 0
      BY <3>1, <3>2, ReaderFields, NoRows
    <3> QED BY <3>3 DEF Vouched
  <2>3. ASSUME NEW how, NEW q, read' = Ended(how, q),
               \A i \in 1..Len(q) :
                 \E v : <<q[i].ip, v>> \in held /\ Says(q[i], v)
        PROVE  Vouched'
    <3>1. read' = Reader(how, read.now, NoKey, 0, q)
      BY <2>3, ReadFields
    <3>2. read'.rows = q /\ read'.now = read.now
      BY <3>1, ReaderFields
    <3> QED BY <1>2, <2>3, <3>2
  <2>4. CASE IterationAborted \/ MapClosed
    <3>1. PICK how : read' = Ended(how, <<>>)
      BY <2>4 DEF IterationAborted, MapClosed
    <3>2. 1..Len(<<>>) = {}
      BY NoRows
    <3> QED BY <2>3, <3>1, <3>2
  <2>5. CASE Iterate
    <3> DEFINE next == NextKey(read.cursor)
    <3>1. /\ next = NoKey => read' = Reader("last", read.now, read.cursor,
                                            read.count, read.rows)
          /\ next # NoKey => read' = Reader("lookup", read.now, next,
                                            read.count + 1, read.rows)
      BY <2>5, ReadFields
    <3>2. read'.rows = read.rows /\ read'.now = read.now
      BY <3>1, ReaderFields
    <3> QED BY <1>2, <3>2 DEF Vouched
(* The row of a source that is found. *)
  <2>6. ASSUME NEW k \in KeysOf(map), read.at # "clock",
               NEW row, RowsFor(k, value[k]) = <<row>>
        PROVE  <<row.ip, value[k]>> \in held /\ Says(row, value[k])
    <3>1. <<k, value[k]>> \in held
      BY <2>6, LookedUp
    <3> DEFINE made == RowsFor(k, value[k])
    <3>2. made = <<>> \/ \E r : made = <<r>> /\ r.ip = k
      BY <2>6, LookedUp
    <3>3. Len(made) = 1 /\ Len(<<>>) = 0
      BY <2>6, OneRowIs, NoRows
    <3> HIDE DEF made
    <3>4. \E r : made = <<r>> /\ r.ip = k
      BY <3>2, <3>3
    <3>5. \E r : <<row>> = <<r>> /\ r.ip = k
      BY <2>6, <3>4 DEF made
    <3>6. row.ip = k
      BY <3>5, OneRowIs
    <3>7. Says(row, value[k])
      BY <2>1, <2>6, RowSays
    <3> QED BY <3>1, <3>6, <3>7
  <2>7. ASSUME NEW k \in KeysOf(map), read.at # "clock"
        PROVE  \/ RowsFor(k, value[k]) = <<>>
               \/ \E row : RowsFor(k, value[k]) = <<row>>
    BY <2>7, LookedUp
  <2>8. CASE LookupNext
    <3> DEFINE c == read.cursor
               q == IF c \in Present
                    THEN read.rows \o RowsFor(c, value[c]) ELSE read.rows
    <3>1. /\ read.at = "lookup"
          /\ read' = Reader("next", read.now, c, read.count, q)
      BY <2>8, ReadFields
    <3>2. read'.rows = q /\ read'.now = read.now
      BY <3>1, ReaderFields
    <3>3. CASE q = read.rows
      BY <1>2, <3>2, <3>3 DEF Vouched
    <3>4. CASE q # read.rows
      <4>1. c \in KeysOf(map) /\ q = read.rows \o RowsFor(c, value[c])
        BY <2>1, <3>4
      <4>2. PICK row : RowsFor(c, value[c]) = <<row>>
        BY <2>1, <2>7, <3>1, <3>4, <4>1, RowsAre
      <4>3. <<row.ip, value[c]>> \in held /\ Says(row, value[c])
        BY <2>6, <3>1, <4>1, <4>2
      <4>4. q = read.rows \o <<row>>
        BY <4>1, <4>2
      <4> HIDE DEF q
      <4>5. /\ Len(q) = Len(read.rows) + 1 /\ Len(read.rows) \in Nat
            /\ \A i \in 1..Len(read.rows) : q[i] = read.rows[i]
            /\ q[Len(read.rows) + 1] = row
        <5>1. Rows(read.rows) /\ Len(read.rows) \in Nat
          BY <2>1, RowsAre
        <5> QED BY <4>4, <5>1, RowsAdd
      <4>6. \A i \in 1..Len(q) : i \in 1..Len(read.rows) \/ q[i] = row
        BY <4>5
      <4> QED BY <1>2, <3>2, <4>3, <4>5, <4>6 DEF Vouched
    <3> QED BY <3>3, <3>4
  <2>9. CASE Find
    <3> DEFINE k == call.ip
               q == IF k \in Present THEN RowsFor(k, value[k]) ELSE <<>>
    <3>1. read.at = "find" /\ read' = Ended("done", q)
      BY <2>9 DEF Find
    <3>2. CASE q = <<>>
      <4>1. 1..Len(<<>>) = {}
        BY NoRows
      <4> HIDE DEF q
      <4> QED BY <2>3, <3>1, <3>2, <4>1
    <3>3. CASE q # <<>>
      <4>1. k \in KeysOf(map) /\ q = RowsFor(k, value[k])
        BY <2>1, <3>3
      <4>2. PICK row : q = <<row>>
        BY <2>7, <3>1, <3>3, <4>1
      <4>3. <<row.ip, value[k]>> \in held /\ Says(row, value[k])
        BY <2>6, <3>1, <4>1, <4>2
      <4>4. Len(q) = 1 /\ q[1] = row /\ 1..1 = {1}
        BY <4>2, OneRowIs
      <4> HIDE DEF q, k
      <4> QED BY <2>3, <3>1, <4>3, <4>4
    <3> QED BY <3>2, <3>3
  <2>10. CASE Answer
    <3>1. PICK q \in IF call.by = "topRows" THEN Cut(read.rows)
                     ELSE {read.rows} : read' = Ended("done", q)
      BY <2>10 DEF Answer
    <3>2. CASE q = read.rows
      BY <2>3, <3>1, <3>2 DEF Vouched
    <3>3. CASE q \in Cut(read.rows)
      <4>1. /\ Len(q) <= Len(read.rows) /\ Rows(q)
            /\ \E s \in Sorted(read.rows) :
                 \A i \in 1..Len(q) : q[i] = read.rows[s[i]]
        BY <2>1, <3>3, CutIs
      <4>2. PICK s \in Sorted(read.rows) :
              \A i \in 1..Len(q) : q[i] = read.rows[s[i]]
        BY <4>1
      <4>3. s \in [1..Len(read.rows) -> 1..Len(read.rows)]
        BY <2>1, SortedIs DEF Injection
      <4>4. Len(q) \in Nat /\ Len(read.rows) \in Nat
        BY <2>1, <4>1, RowsAre
      <4>5. \A i \in 1..Len(q) : s[i] \in 1..Len(read.rows)
        BY <4>1, <4>3, <4>4
      <4> QED BY <2>3, <3>1, <4>2, <4>5 DEF Vouched
    <3> QED BY <3>1, <3>2, <3>3
  <2> QED BY <1>4, <2>2, <2>4, <2>5, <2>8, <2>9, <2>10 DEF ReportReads
<1>5. \A k : Store(k) \/ Enter(k) \/ Replace(k) \/ Evict(k) => UNCHANGED read
  BY DEF Store, Enter, Replace, Evict, Change
<1> QED BY <1>3, <1>4, <1>5, ReportSteps DEF Tick, mapReportVars

(* Who held a value that lasts beyond the clock of the report was refused. *)
Refused ==
  kind = "health" =>
    \A k, v : <<k, v>> \in held /\ v.until > Start => k \in banned

LEMMA RefusedFirst ==
  ASSUME MapReportInit
  PROVE  Refused
BY DEF MapReportInit, Refused, BannedAt

LEMMA RefusedNext ==
  ASSUME HealthBlacklist > 0, ReportTyped, Refused,
         [MapReportNext]_mapReportVars
  PROVE  Refused'
<1>1. CASE Tick \/ UNCHANGED mapReportVars
  BY <1>1 DEF Tick, mapReportVars, history, Refused
<1>2. CASE ReportReads
  BY <1>2, ReadsOnly DEF Refused
<1>3. ASSUME NEW k \in Keys, Store(k) \/ Enter(k) \/ Replace(k) \/ Evict(k),
             kind = "health"
      PROVE  Refused'
  <2>1. /\ held' = held \cup {<<x, value'[x]>> : x \in DOMAIN value'}
        /\ banned' = banned \cup {x \in DOMAIN value' : value'[x].until > clock}
        /\ UNCHANGED kind
    BY <1>3 DEF Store, Enter, Replace, Evict, Change, BannedAt
  <2>2. /\ clock \in Nat /\ Start \in Nat /\ HealthBlacklist \in Nat
        /\ DOMAIN value = KeysOf(map) /\ Present = KeysOf(map)
        /\ \A x \in KeysOf(map) : <<x, value[x]>> \in held
    BY ReportConstants, PresentKeys DEF ReportTyped
  <2>3. clock + HealthBlacklist > clock
    BY <2>2
(* A new value lasts no longer than the old one, or the source is refused. *)
  <2>4. ASSUME NEW x \in DOMAIN value'
        PROVE  \/ value'[x].until > clock
               \/ value'[x].until = 0
               \/ x \in KeysOf(map) /\ value'[x].until = value[x].until
    <3>1. CASE Store(k)
      <4>1. /\ k \in KeysOf(map)
            /\ \E v \in Stored(value[k]) : value' = [value EXCEPT ![k] = v]
        BY <2>2, <3>1 DEF Store
      <4>2. PICK v : v = Anomaly(value[k]) /\ value' = [value EXCEPT ![k] = v]
        BY <1>3, <4>1 DEF Stored
      <4>3. v.until = clock + HealthBlacklist \/ v.until = value[k].until
        BY <4>2 DEF Anomaly
      <4>4. value'[x] = IF x = k THEN v ELSE value[x]
        BY <2>2, <2>4, <4>2
      <4>5. x \in KeysOf(map)
        BY <2>2, <2>4, <4>2
      <4> QED BY <2>3, <4>3, <4>4, <4>5
    <3>2. CASE Enter(k)
      <4>1. value' = [y \in Present \cup {k} |->
                        IF y = k THEN Entered ELSE value[y]]
        BY <3>2 DEF Enter
      <4>2. Entered.until = clock + HealthBlacklist \/ Entered.until = 0
        BY <1>3 DEF Entered
      <4>3. value'[x] = IF x = k THEN Entered ELSE value[x]
        BY <2>4, <4>1
      <4>4. x = k \/ x \in KeysOf(map)
        BY <2>2, <2>4, <4>1
      <4> QED BY <2>3, <4>2, <4>3, <4>4
    <3>3. CASE Evict(k)
      <4>1. value' = [y \in Present \ {k} |-> value[y]]
        BY <3>3 DEF Evict
      <4> QED BY <2>2, <2>4, <4>1
    <3>4. ~Replace(k)
      BY <1>3 DEF Replace
    <3> QED BY <1>3, <3>1, <3>2, <3>3, <3>4
  <2>5. ASSUME NEW x \in DOMAIN value', value'[x].until > Start
        PROVE  x \in banned'
    <3>1. CASE value'[x].until > clock
      BY <2>1, <3>1
    <3>2. CASE value'[x].until = 0
      BY <2>2, <2>5, <3>2
    <3>3. CASE x \in KeysOf(map) /\ value'[x].until = value[x].until
      BY <1>3, <2>1, <2>2, <2>5, <3>3 DEF Refused
    <3> QED BY <2>4, <3>1, <3>2, <3>3
  <2> QED BY <1>3, <2>1, <2>5 DEF Refused
<1>4. ASSUME kind # "health", NEW k \in Keys,
             Store(k) \/ Enter(k) \/ Replace(k) \/ Evict(k)
      PROVE  Refused'
  BY <1>4, MapChanges DEF Refused
<1> QED BY <1>1, <1>2, <1>3, <1>4, ReportSteps

LEMMA VouchedMeans ==
  ASSUME ReportTyped, ReadTyped, Vouched, Refused
  PROVE  RowsTrue
<1> SUFFICES ASSUME Done, NEW i \in DOMAIN read.rows
             PROVE  LET row == read.rows[i]
                    IN  /\ \E v \in HeldBy(row.ip) : Tells(row, v)
                        /\ "blacklisted" \in DOMAIN row /\ row.blacklisted
                           => row.ip \in banned
  BY DEF RowsTrue
<1> DEFINE row == read.rows[i]
<1>1. i \in 1..Len(read.rows) /\ read.now = Start
  BY RowsAre DEF ReadTyped, Done
<1>2. PICK v : <<row.ip, v>> \in held /\ Says(row, v)
  BY <1>1 DEF Vouched
<1> HIDE DEF row
<1>3. v \in HeldBy(row.ip) /\ v \in Values
  BY <1>2 DEF HeldBy, ReportTyped
<1>4. Tells(row, v)
  BY <1>1, <1>2, <1>3, SaysTrue
<1>5. ASSUME "blacklisted" \in DOMAIN row, row.blacklisted
      PROVE  row.ip \in banned
  BY <1>1, <1>2, <1>5 DEF Says, Refused
<1> QED BY <1>3, <1>4, <1>5 DEF row

(* Clock, key and value are read at three instants; yet each row of an     *)
(* answer is what the function says of a value the source held meanwhile,  *)
(* ages and what remains of a blacklisting right to the second, and who is *)
(* called blacklisted was refused in between.  With a duration of 0 the    *)
(* last is not so: nobody is refused, but an end stored after the report   *)
(* read its clock lies ahead of it.                                        *)
THEOREM RowsAlwaysTrue ==
  HealthBlacklist > 0 => (MapReportSpec => []RowsTrue)
<1> SUFFICES ASSUME HealthBlacklist > 0
             PROVE  MapReportSpec => []RowsTrue
  OBVIOUS
<1>1. MapReportInit => ReportTyped /\ ReadTyped /\ Vouched /\ Refused
  BY ReportTypedFirst, VouchedFirst, RefusedFirst
<1>2. /\ ReportTyped /\ ReadTyped /\ Vouched /\ Refused
      /\ [MapReportNext]_mapReportVars
      => (ReportTyped /\ ReadTyped /\ Vouched /\ Refused)'
  BY ReportTypedNext, ReadTypedNext, VouchedNext, RefusedNext
<1>3. ReportTyped /\ ReadTyped /\ Vouched /\ Refused => RowsTrue
  BY VouchedMeans
<1> QED BY <1>1, <1>2, <1>3, PTL DEF MapReportSpec

------------------------------------------------------------------------------
(* Reports: what top leaves out *)

(* Drops since the report began are no more than the changes. *)
Few ==
  kind = "drop-reasons" =>
    \A k, v : <<k, v>> \in held =>
      /\ Total(v) \in Nat /\ Total(v) <= 1 + changes
      /\ \A r \in Reasons : v.counts[r] <= 1 + changes

LEMMA RankStill ==
  ASSUME UNCHANGED <<kind, call>>, read'.now = read.now, NEW v
  PROVE  Rank(v)' = Rank(v')
BY DEF Rank, Age, AgeSeconds, Signed, Total

(* Whoever stayed and is left out held a value that ranks no higher than   *)
(* the one each row shows.                                                 *)
Outranked(rows, k) ==
  \E v : /\ <<k, v>> \in held
         /\ call.n > 0 /\ Len(rows) = call.n
         /\ \A i \in 1..Len(rows) :
              \E w : /\ <<rows[i].ip, w>> \in held /\ Says(rows[i], w)
                     /\ Rank(w) >= Rank(v)

TopRanks ==
  Done /\ call.by = "topRows" =>
    \A k \in stayed \ Sources(read.rows) : Outranked(read.rows, k)

LEMMA AnswerRanks ==
  ASSUME ReportTyped, ReadTyped, Telling, Vouched, read.at = "last",
         call.by = "topRows", NEW rows \in Cut(read.rows),
         NEW k \in stayed \ Sources(rows)
  PROVE  Outranked(rows, k)
<1> DEFINE q == read.rows
           n == Len(rows)
<1>1. /\ Rows(q) /\ Len(q) \in Nat /\ call.n \in Nat
      /\ \A i \in 1..Len(q) : \E v : <<q[i].ip, v>> \in held /\ Says(q[i], v)
  BY RowsAre, CallFacts DEF ReportTyped, ReadTyped, Vouched
<1>2. ~Filtered
  BY DEF Filtered
<1>3. k \in Sources(q)
  BY <1>2 DEF Telling, Told
<1>4. PICK j \in 1..Len(q) : q[j].ip = k
  BY <1>3 DEF Sources
<1>5. PICK s \in Sorted(q) : \A i \in 1..n : rows[i] = q[s[i]]
  BY <1>1, CutIs
<1>6. /\ n \in Nat /\ n <= Len(q)
      /\ n = IF call.n > 0 /\ Len(q) > call.n THEN call.n ELSE Len(q)
  BY <1>1, CutIs, RowsAre
<1>7. /\ s \in [1..Len(q) -> 1..Len(q)] /\ DOMAIN s = 1..Len(q)
      /\ \E m \in 1..Len(q) : s[m] = j
  BY <1>1, SortedIs DEF Injection, Surjection
<1>8. PICK m \in 1..Len(q) : s[m] = j
  BY <1>7
<1>9. m \notin 1..n
  <2> SUFFICES ASSUME m \in 1..n PROVE FALSE
    OBVIOUS
  <2>1. rows[m].ip = k
    BY <1>4, <1>5, <1>8
  <2> QED BY <2>1 DEF Sources
<1>10. call.n > 0 /\ n = call.n
  BY <1>1, <1>6, <1>8, <1>9
<1>11. \A i \in 1..n : i \in 1..Len(q) /\ i < m
  BY <1>1, <1>6, <1>8, <1>9
<1>12. \A i, l \in DOMAIN s : i < l => q[s[i]].sort >= q[s[l]].sort
  BY DEF Sorted
<1>13. PICK v : <<k, v>> \in held /\ Says(q[j], v)
  BY <1>1, <1>4
<1>14. \A row, w : Says(row, w) => row.sort = Rank(w)
  BY DEF Says
<1> HIDE DEF n, q
<1>15. ASSUME NEW i \in 1..n
       PROVE  \E w : /\ <<rows[i].ip, w>> \in held /\ Says(rows[i], w)
                     /\ Rank(w) >= Rank(v)
  <2>1. i \in DOMAIN s /\ m \in DOMAIN s /\ i < m /\ s[i] \in 1..Len(q)
    BY <1>7, <1>8, <1>11
  <2>2. PICK w : <<q[s[i]].ip, w>> \in held /\ Says(q[s[i]], w)
    BY <1>1, <2>1
  <2>3. q[s[i]].sort >= q[j].sort
    BY <1>8, <1>12, <2>1
  <2>4. q[s[i]].sort = Rank(w) /\ q[j].sort = Rank(v)
    BY <1>13, <1>14, <2>2
  <2>5. Rank(w) >= Rank(v)
    BY <2>3, <2>4
  <2> QED BY <1>5, <2>2, <2>5
<1> QED BY <1>10, <1>13, <1>15 DEF Outranked, n

LEMMA TopRanksNext ==
  ASSUME ReportTyped, ReadTyped, Telling, Vouched, TopRanks,
         [MapReportNext]_mapReportVars
  PROVE  TopRanks'
<1> SUFFICES ASSUME Done', call'.by = "topRows"
             PROVE  \A k \in stayed' \ Sources(read.rows)' :
                      Outranked(read.rows, k)'
  BY DEF TopRanks
<1>1. CASE UNCHANGED mapReportVars
  <2>1. UNCHANGED <<kind, call, read, held, stayed>>
    BY <1>1 DEF mapReportVars, history
  <2>2. Done /\ call.by = "topRows" /\ Sources(read.rows)' = Sources(read.rows)
    BY <2>1 DEF Done, Sources
  <2>3. \A row, v : Says(row, v) => Says(row, v)'
    BY <2>1, SaysStill
  <2>4. \A v : Rank(v)' = Rank(v)
    BY <2>1, RankStill
  <2> QED BY <2>1, <2>2, <2>3, <2>4 DEF TopRanks, Outranked
<1>2. CASE ReportReads
  <2>1. UNCHANGED <<kind, call, held, stayed>>
    BY <1>2, ReadsOnly
  <2>2. Answer
    <3>1. read'.at = "done"
      BY DEF Done
    <3>2. ~Find
      <4>1. Find => call.ip # NoKey
        BY BucketAssumption DEF Find, ReadTyped
      <4>2. call.by \notin Lookups \cup Inspectors
        BY <2>1 DEF Lookups, Inspectors
      <4> QED BY <4>1, <4>2, CallFacts DEF ReportTyped
    <3>3. ~ReadClock /\ ~Iterate /\ ~LookupNext
      BY <3>1, ReadFields, ReaderFields
    <3>4. ~IterationAborted /\ ~MapClosed
      <4>1. \A how : Ended(how, <<>>).at = how
        BY ReadFields, ReaderFields
      <4> QED BY <3>1, <4>1 DEF IterationAborted, MapClosed
    <3> QED BY <1>2, <3>2, <3>3, <3>4 DEF ReportReads
  <2>3. PICK rows \in Cut(read.rows) :
          read.at = "last" /\ read' = Ended("done", rows)
    BY <2>1, <2>2 DEF Answer
  <2>4. read' = Reader("done", read.now, NoKey, 0, rows)
    BY <2>3, ReadFields
  <2>5. read'.rows = rows /\ read'.now = read.now
    BY <2>4, ReaderFields
  <2>6. Sources(read.rows)' = Sources(rows)
    BY <2>5 DEF Sources
  <2>7. \A k \in stayed \ Sources(rows) : Outranked(rows, k)
    BY <2>1, <2>3, AnswerRanks
  <2>8. \A row, v : Says(row, v) => Says(row, v)'
    BY <2>1, <2>5, SaysStill
  <2>9. \A v : Rank(v)' = Rank(v)
    BY <2>1, <2>5, RankStill
  <2> QED BY <2>1, <2>5, <2>6, <2>7, <2>8, <2>9 DEF Outranked
<1>3. ~Tick
  BY DEF Tick, Underway, Done
<1>4. \A k : ~Store(k) /\ ~Enter(k) /\ ~Replace(k) /\ ~Evict(k)
  BY DEF Store, Enter, Replace, Evict, Change, Underway, Done
<1> QED BY <1>1, <1>2, <1>3, <1>4, ReportSteps

LEMMA FiniteUnits ==
  ASSUME NEW S, NEW f, IsFiniteSet(S), \A x \in S : f[x] \in Nat
  PROVE  IsFiniteSet(Units(f, S)) /\ SumOver(f, S) \in Nat
<1> DEFINE part == [x \in S |-> {x} \X (1..f[x])]
           Parts == {{x} \X (1..f[x]) : x \in S}
<1>1. part \in Surjection(S, Parts)
  BY DEF Surjection
<1>2. IsFiniteSet(Parts)
  BY <1>1, FS_Surjection
<1>3. ASSUME NEW x \in S PROVE IsFiniteSet({x} \X (1..f[x]))
  <2>1. IsFiniteSet(1..f[x])
    BY FS_Interval
  <2> QED BY <2>1, FS_Singleton, FS_Product
<1>4. IsFiniteSet(UNION Parts)
  BY <1>2, <1>3, FS_UNION
<1> QED BY <1>4, FS_CardinalityType DEF Units, SumOver

LEMMA OneDropMore ==
  ASSUME NEW c \in [Reasons -> Nat], NEW r \in Reasons
  PROVE  SumOver([c EXCEPT ![r] = @ + 1], Reasons) = SumOver(c, Reasons) + 1
<1> DEFINE d == [c EXCEPT ![r] = @ + 1]
           unit == <<r, c[r] + 1>>
<1>1. 1..d[r] = (1..c[r]) \cup {c[r] + 1} /\ c[r] + 1 \notin 1..c[r]
  OBVIOUS
<1>2. \A x \in Reasons : x # r => d[x] = c[x]
  OBVIOUS
<1> HIDE DEF d
<1>3. unit \notin Units(c, Reasons)
  BY <1>1 DEF Units
<1>4. Units(d, Reasons) = Units(c, Reasons) \cup {unit}
  <2>1. Units(d, Reasons) \subseteq Units(c, Reasons) \cup {unit}
    BY <1>1, <1>2 DEF Units
  <2>2. Units(c, Reasons) \cup {unit} \subseteq Units(d, Reasons)
    BY <1>1, <1>2 DEF Units
  <2> QED BY <2>1, <2>2
<1> HIDE DEF unit
<1>5. IsFiniteSet(Units(c, Reasons))
  <2>1. IsFiniteSet(Reasons)
    BY ReportAssumption
  <2> QED BY <2>1, FiniteUnits
<1> QED BY <1>3, <1>4, <1>5, FS_AddElement DEF SumOver, d

LEMMA FirstDrop ==
  ASSUME NEW r \in Reasons
  PROVE  SumOver(Counts(r), Reasons) = 1 /\ \A x \in Reasons : Counts(r)[x] <= 1
<1>1. Units(Counts(r), Reasons) = {<<r, 1>>}
  <2>1. \A x \in Reasons : Counts(r)[x] = IF x = r THEN 1 ELSE 0
    BY DEF Counts
  <2>2. 1..1 = {1} /\ 1..0 = {}
    OBVIOUS
  <2> QED BY <2>1, <2>2 DEF Units
<1>2. \A x \in Reasons : Counts(r)[x] <= 1
  BY DEF Counts
<1> QED BY <1>1, <1>2, FS_Singleton DEF SumOver

LEMMA FewFirst ==
  ASSUME MapReportInit
  PROVE  Few
<1> SUFFICES ASSUME kind = "drop-reasons", NEW k, NEW v, <<k, v>> \in held
             PROVE  /\ Total(v) \in Nat /\ Total(v) <= 1 + changes
                    /\ \A r \in Reasons : v.counts[r] <= 1 + changes
  BY DEF Few
<1>1. v \in Initial
  BY DEF MapReportInit
<1>2. PICK r \in Reasons : v.counts = Counts(r)
  BY <1>1 DEF Initial
<1>3. Total(v) = 1
  BY <1>2, FirstDrop DEF Total
<1>4. changes = 0
  BY DEF MapReportInit
<1> QED BY <1>2, <1>3, <1>4, FirstDrop

LEMMA FewNext ==
  ASSUME ReportTyped, Few, [MapReportNext]_mapReportVars
  PROVE  Few'
<1>1. CASE Tick \/ UNCHANGED mapReportVars
  BY <1>1 DEF Tick, mapReportVars, history, Few, Total, SumOver, Units
<1>2. CASE ReportReads
  BY <1>2, ReadsOnly DEF Few, Total, SumOver, Units
<1>3. ASSUME NEW k \in Keys, Store(k) \/ Enter(k) \/ Replace(k) \/ Evict(k),
             kind = "drop-reasons"
      PROVE  Few'
  <2>1. /\ held' = held \cup {<<x, value'[x]>> : x \in DOMAIN value'}
        /\ changes' = changes + 1 /\ changes \in Nat
    BY <1>3, ReportConstants
       DEF Store, Enter, Replace, Evict, Change, ReportTyped
  <2>2. /\ DOMAIN value = KeysOf(map) /\ Present = KeysOf(map)
        /\ \A x \in KeysOf(map) : <<x, value[x]>> \in held
        /\ \A x \in KeysOf(map) : value[x].counts \in [Reasons -> Nat]
    <3>1. /\ DOMAIN value = KeysOf(map) /\ Present = KeysOf(map)
          /\ \A x \in KeysOf(map) : <<x, value[x]>> \in held
          /\ \A x \in KeysOf(map) : value[x] \in Values
      BY PresentKeys DEF ReportTyped
    <3> QED BY <1>3, <3>1 DEF Values
  <2> DEFINE Small(v, c) == /\ Total(v) \in Nat /\ Total(v) <= 1 + c
                            /\ \A r \in Reasons : v.counts[r] <= 1 + c
  <2>3. \A x, v : <<x, v>> \in held => Small(v, changes)
    BY <1>3 DEF Few
  <2>4. \A x, v : <<x, v>> \in held => /\ v.counts \in [Reasons -> Nat]
    BY <1>3 DEF ReportTyped, Values
  <2>5. ASSUME NEW x, NEW v, <<x, v>> \in held
        PROVE  Small(v, changes + 1)
    <3>1. Small(v, changes) /\ v.counts \in [Reasons -> Nat]
      BY <2>3, <2>4, <2>5
    <3> QED BY <2>1, <3>1
  <2>6. ASSUME NEW x \in DOMAIN value'
        PROVE  Small(value'[x], changes + 1)
    <3>1. CASE Store(k)
      <4>1. /\ k \in KeysOf(map)
            /\ \E v \in Stored(value[k]) : value' = [value EXCEPT ![k] = v]
        BY <2>2, <3>1 DEF Store
      <4> DEFINE old == value[k]
      <4> DEFINE Plus(r) == [old EXCEPT !.last = clock, !.counts[r] = @ + 1]
      <4>2. Stored(old) = {Plus(r) : r \in Reasons}
        BY <1>3 DEF Stored
      <4> HIDE DEF Plus
      <4>3. PICK r \in Reasons : value' = [value EXCEPT ![k] = Plus(r)]
        BY <4>1, <4>2
      <4> DEFINE new == Plus(r)
                 c == old.counts
                 d == [c EXCEPT ![r] = @ + 1]
      <4>4. new.counts = d
        <5>1. old \in [first : 0..clock, last : 0..clock,
                       counts : [Reasons -> Nat]]
          BY <1>3, <4>1 DEF ReportTyped, Values
        <5> HIDE DEF old
        <5> QED BY <5>1 DEF Plus
      <4>5. c \in [Reasons -> Nat] /\ Small(old, changes)
        BY <2>2, <2>3, <4>1
      <4>6. Total(old) = SumOver(c, Reasons) /\ Total(new) = SumOver(d, Reasons)
        BY <4>4 DEF Total
      <4>7. SumOver(d, Reasons) = SumOver(c, Reasons) + 1
        BY <4>5, OneDropMore
      <4>8. \A y \in Reasons : d[y] = c[y] \/ d[y] = c[y] + 1
        BY <4>5
      <4>9. value'[x] = IF x = k THEN new ELSE value[x]
        BY <2>2, <2>6, <4>3
      <4>10. x \in KeysOf(map)
        BY <2>2, <2>6, <4>3
      <4> HIDE DEF new, old, d
      <4>11. \A y \in Reasons : c[y] \in Nat /\ c[y] <= 1 + changes
        BY <4>5
      <4> HIDE DEF c
      <4>12. \A y \in Reasons : d[y] <= 1 + (changes + 1)
        BY <2>1, <4>8, <4>11
      <4>13. Total(old) \in Nat /\ Total(old) <= 1 + changes
        BY <4>5
      <4>14. Total(new) = Total(old) + 1
        BY <4>6, <4>7
      <4>15. Total(new) \in Nat /\ Total(new) <= 1 + (changes + 1)
        BY <2>1, <4>13, <4>14
      <4>16. Small(new, changes + 1)
        BY <4>4, <4>12, <4>15
      <4>17. Small(value[x], changes + 1)
        BY <2>2, <2>5, <4>10
      <4> QED BY <4>9, <4>16, <4>17
    <3>2. CASE Enter(k)
      <4>1. value' = [y \in Present \cup {k} |->
                        IF y = k THEN Entered ELSE value[y]]
        BY <3>2 DEF Enter
      <4>2. PICK r \in Reasons : Entered.counts = Counts(r)
        BY <1>3, ReportAssumption DEF Entered
      <4>3. Total(Entered) = 1 /\ \A y \in Reasons : Entered.counts[y] <= 1
        BY <4>2, FirstDrop DEF Total
      <4>4. \A y \in Reasons : Entered.counts[y] \in Nat
        BY <4>2, CountsTyped
      <4>5. Small(Entered, changes + 1)
        BY <2>1, <4>3, <4>4
      <4>6. value'[x] = IF x = k THEN Entered ELSE value[x]
        BY <2>6, <4>1
      <4>7. x = k \/ x \in KeysOf(map)
        BY <2>2, <2>6, <4>1
      <4>8. x \in KeysOf(map) => Small(value[x], changes + 1)
        BY <2>2, <2>5
      <4> QED BY <4>5, <4>6, <4>7, <4>8
    <3>3. CASE Evict(k)
      <4>1. value' = [y \in Present \ {k} |-> value[y]]
        BY <3>3 DEF Evict
      <4>2. x \in KeysOf(map) /\ value'[x] = value[x]
        BY <2>2, <2>6, <4>1
      <4> QED BY <2>2, <2>5, <4>2
    <3>4. ~Replace(k)
      BY <1>3 DEF Replace
    <3> QED BY <1>3, <3>1, <3>2, <3>3, <3>4
  <2>7. ASSUME NEW x, NEW v, <<x, v>> \in held'
        PROVE  Small(v, changes + 1)
    BY <2>1, <2>5, <2>6, <2>7
  <2> QED BY <2>1, <2>7 DEF Few, Total, SumOver, Units
<1>4. ASSUME kind # "drop-reasons", NEW k \in Keys,
             Store(k) \/ Enter(k) \/ Replace(k) \/ Evict(k)
      PROVE  Few'
  BY <1>4, MapChanges DEF Few
<1> QED BY <1>1, <1>2, <1>3, <1>4, ReportSteps

LEMMA ModuloHalf ==
  ASSUME NEW v \in 0..(Wrap - 1)
  PROVE  (v + Wrap \div 2) % Wrap = Signed(v) + Wrap \div 2
<1> DEFINE H == Wrap \div 2
<1>1. Wrap \in Nat \ {0} /\ Wrap = 2 * H /\ H \in Nat
  BY ReportAssumption
<1> HIDE DEF H
<1>2. \A x \in 0..(Wrap - 1) : x % Wrap = x /\ (x + Wrap) % Wrap = x
  BY <1>1
<1>3. CASE v >= H
  <2>1. v - H \in 0..(Wrap - 1) /\ (v - H) + Wrap = v + H
    BY <1>1, <1>3
  <2>2. Signed(v) + H = v - H
    BY <1>1, <1>3 DEF Signed, H
  <2>3. ((v - H) + Wrap) % Wrap = v - H
    BY <1>2, <2>1
  <2> QED BY <2>1, <2>2, <2>3 DEF H
<1>4. CASE ~(v >= H)
  <2>1. v + H \in 0..(Wrap - 1)
    BY <1>1, <1>4
  <2>2. Signed(v) = v
    BY <1>4 DEF Signed, H
  <2> QED BY <1>2, <2>1, <2>2 DEF H
<1> QED BY <1>3, <1>4

(* A number that no counter of these reaches is its own int64. *)
LEMMA SmallSigned ==
  ASSUME NEW x \in Nat, x <= MaxTime + MaxChanges + Burst
  PROVE  Signed(x) = x
<1> DEFINE H == Wrap \div 2
<1>1. Wrap = 2 * H /\ H \in Nat /\ MaxTime + MaxChanges + Burst < H
      /\ MaxTime + MaxChanges + Burst \in Nat
  BY ReportAssumption
<1> HIDE DEF H
<1>2. ~(x >= H)
  BY <1>1
<1> QED BY <1>2 DEF Signed, H

LEMMA RankHeat ==
  ASSUME ReportTyped, read.now = Start, Few,
         NEW v, NEW w, NEW x, NEW y, <<x, v>> \in held, <<y, w>> \in held,
         Rank(w) >= Rank(v)
  PROVE  Heat(w) >= Heat(v)
<1>1. v \in Values /\ w \in Values
  BY DEF ReportTyped
<1>2. CASE kind = "timestamp" \/ kind = "health"
  BY <1>2 DEF Rank, Heat
<1>3. CASE kind = "count"
  <2>1. v \in 0..(Wrap - 1) /\ w \in 0..(Wrap - 1)
    BY <1>1, <1>3 DEF Values
  <2> DEFINE H == Wrap \div 2
             a == Signed(v)
             b == Signed(w)
  <2>2. Heat(v) = a + H /\ Heat(w) = b + H
    BY <1>3, <2>1, ModuloHalf DEF Heat
  <2>3. H \in Int /\ a \in Int /\ b \in Int
    BY <2>1, ReportConstants DEF Signed
  <2>4. b >= a
    BY <1>3 DEF Rank
  <2> HIDE DEF H, a, b
  <2> QED BY <2>2, <2>3, <2>4
<1>4. CASE kind = "ratelimit"
  <2>1. v.tokens \in 0..(Burst - 1) /\ w.tokens \in 0..(Burst - 1)
    BY <1>1, <1>4 DEF Values
  <2>2. Signed(v.tokens) = v.tokens /\ Signed(w.tokens) = w.tokens
    BY <2>1, SmallSigned, ReportConstants
  <2>3. -w.tokens >= -v.tokens
    BY <1>4, <2>2 DEF Rank
  <2>4. Heat(v) = Burst - v.tokens /\ Heat(w) = Burst - w.tokens
    BY <1>4 DEF Heat
  <2> QED BY <2>1, <2>3, <2>4, ReportConstants
<1>5. CASE kind = "drop-reasons"
  <2>1. 1 + changes <= MaxTime + MaxChanges + Burst /\ changes \in Nat
    BY ReportConstants DEF ReportTyped
  <2>2. ASSUME NEW n \in Nat, n <= 1 + changes
        PROVE  Signed(n) = n
    <3>1. n <= MaxTime + MaxChanges + Burst
      BY <2>1, <2>2, ReportConstants
    <3> QED BY <3>1, SmallSigned
  <2>3. ASSUME NEW k, NEW u, <<k, u>> \in held
        PROVE  Rank(u) = Heat(u)
    <3>1. /\ Total(u) \in Nat /\ Total(u) <= 1 + changes
          /\ \A r \in Reasons : u.counts[r] <= 1 + changes
      BY <1>5, <2>3 DEF Few
    <3>2. u.counts \in [Reasons -> Nat]
      BY <1>5, <2>3 DEF ReportTyped, Values
    <3>3. call.reason \in Reasons \cup {AnyReason}
      BY CallFacts DEF ReportTyped
    <3>4. Signed(Total(u)) = Total(u)
      BY <2>2, <3>1
    <3>5. \A r \in Reasons : Signed(u.counts[r]) = u.counts[r]
      BY <2>2, <3>1, <3>2
    <3> QED BY <1>5, <3>3, <3>4, <3>5 DEF Rank, Heat
  <2>4. Rank(v) = Heat(v) /\ Rank(w) = Heat(w)
    BY <2>3
  <2> QED BY <2>4
<1> QED BY <1>2, <1>3, <1>4, <1>5 DEF Kinds, ReportTyped

LEMMA TopRanksMeans ==
  ASSUME ReportTyped, ReadTyped, Few, TopRanks
  PROVE  TopMissesNoHotter
<1>1. Listed = Sources(read.rows) /\ DOMAIN read.rows = 1..Len(read.rows)
  BY RowsAre DEF ReadTyped, Listed, Sources
<1> SUFFICES ASSUME Done, call.by = "topRows", NEW k \in stayed \ Listed
             PROVE  \E v \in HeldBy(k) :
                      /\ call.n > 0 /\ Len(read.rows) = call.n
                      /\ \A i \in 1..Len(read.rows) :
                           \E w \in HeldBy(read.rows[i].ip) :
                             Tells(read.rows[i], w) /\ Heat(w) >= Heat(v)
  BY <1>1 DEF TopMissesNoHotter
<1>2. read.now = Start
  BY DEF ReadTyped, Done
<1>3. PICK v : /\ <<k, v>> \in held
               /\ call.n > 0 /\ Len(read.rows) = call.n
               /\ \A i \in 1..Len(read.rows) :
                    \E w : /\ <<read.rows[i].ip, w>> \in held
                          /\ Says(read.rows[i], w)
                          /\ Rank(w) >= Rank(v)
  BY <1>1 DEF TopRanks, Outranked
<1>4. ASSUME NEW i \in 1..Len(read.rows)
      PROVE  \E w \in HeldBy(read.rows[i].ip) :
               Tells(read.rows[i], w) /\ Heat(w) >= Heat(v)
  <2> DEFINE row == read.rows[i]
  <2>1. PICK w : <<row.ip, w>> \in held /\ Says(row, w) /\ Rank(w) >= Rank(v)
    BY <1>3
  <2> HIDE DEF row
  <2>2. w \in HeldBy(row.ip) /\ w \in Values
    BY <2>1 DEF HeldBy, ReportTyped
  <2>3. Tells(row, w)
    BY <1>2, <2>1, <2>2, SaysTrue
  <2>4. Heat(w) >= Heat(v)
    BY <1>2, <1>3, <2>1, RankHeat
  <2> QED BY <2>2, <2>3, <2>4 DEF row
<1>5. v \in HeldBy(k)
  BY <1>3 DEF HeldBy
<1> QED BY <1>3, <1>4, <1>5

(* A source that sat untouched is missing from the first n rows of top     *)
(* only if n rows of others are at least as hot: though each entry is read *)
(* at its own instant, the map changes in between, the sort is not stable  *)
(* and ranks are signed while counts and totals are not.                   *)
THEOREM TopMissesNobodyHotter == MapReportSpec => []TopMissesNoHotter
<1> DEFINE Inv == /\ ReportTyped /\ ReadTyped /\ Telling /\ Forward
                  /\ Vouched /\ Few /\ TopRanks
<1>1. MapReportInit => Inv
  <2>1. MapReportInit => TopRanks
    BY DEF MapReportInit, TopRanks, Done
  <2> QED BY <2>1, ReportTypedFirst, ToldFirst, VouchedFirst, FewFirst
<1>2. Inv /\ [MapReportNext]_mapReportVars => Inv'
  BY ReportTypedNext, ReadTypedNext, ToldNext, VouchedNext, FewNext,
     TopRanksNext
<1>3. Inv => TopMissesNoHotter
  BY TopRanksMeans
<1> QED BY <1>1, <1>2, <1>3, PTL DEF MapReportSpec
==============================================================================
