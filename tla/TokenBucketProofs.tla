-------------------------- MODULE TokenBucketProofs --------------------------
(***************************************************************************)
(* The properties of TokenBucket for every rate, every burst and every     *)
(* length of run.  The argument: a call of ratelimit_take that lets a      *)
(* packet through lowers the code's credit (Level) by exactly one token,   *)
(* or leaves it at a full bucket less one token when the bucket overflowed *)
(* (TakeLevel); waiting raises it by one fraction a tick.  Both contracts  *)
(* move the same way, so Level stays between them (Sandwich).              *)
(***************************************************************************)
EXTENDS TokenBucket, TLAPS

(* Whole periods in an interval, and what is left over. *)
LEMMA DivMod ==
  ASSUME NEW e \in Nat, NEW p \in Nat \ {0}
  PROVE  /\ e \div p \in Nat
         /\ (e \div p) * p <= e
         /\ e < (e \div p) * p + p
  BY SMT

(* Multiplication by the period, in the forms used below. *)
LEMMA Distributes ==
  ASSUME NEW x \in Int, NEW y \in Int, NEW p \in Int
  PROVE  (x + y) * p = x * p + y * p
  BY SMT

LEMMA Monotone ==
  ASSUME NEW x \in Nat, NEW y \in Nat, NEW p \in Nat, x <= y
  PROVE  x * p <= y * p
  BY SMT

(* A number of tokens is worth a natural number of fractions, and a        *)
(* positive one is worth a period at least.                                *)
LEMMA Worth ==
  ASSUME NEW x \in Nat, NEW p \in Nat
  PROVE  /\ x * p \in Nat
         /\ x # 0 => x * p >= p
  BY SMT

LevelOf(b, t) == b.tokens * Period + (t - b.last)

(* A packet passes exactly when the entry is worth a token. *)
LEMMA CanTakeLevel ==
  ASSUME NEW b \in Bucket, NEW t \in Nat, b.last <= t
  PROVE  CanTake(b, t, Period, Burst) <=> LevelOf(b, t) >= Period
<1> DEFINE e == t - b.last
           r == e \div Period
<1>1. /\ b.tokens \in Nat /\ b.last \in Nat /\ e \in Nat
      /\ Period \in Nat \ {0} /\ Burst \in Nat \ {0}
  BY PeriodAssumption, BurstAssumption DEF Bucket
<1>2. r \in Nat /\ r * Period <= e /\ e < r * Period + Period
  BY <1>1, DivMod
<1>3. LevelOf(b, t) = b.tokens * Period + e
  BY DEF LevelOf
<1>4. CanTake(b, t, Period, Burst) <=>
        (IF b.tokens + r > Burst THEN Burst ELSE b.tokens + r) # 0
  BY DEF CanTake, Available, Refill
<1> HIDE DEF e, r
<1>5. b.tokens * Period \in Nat /\ r * Period \in Nat
  BY <1>1, <1>2, Worth
<1>6. CASE b.tokens = 0 /\ r = 0
  <2>1. b.tokens * Period = 0 /\ r * Period = 0
    BY <1>6, <1>1
  <2>2. LevelOf(b, t) < Period
    BY <2>1, <1>1, <1>2, <1>3
  <2>3. ~CanTake(b, t, Period, Burst)
    BY <1>4, <1>6, <1>1
  <2> QED BY <2>2, <2>3, <2>1, <1>1, <1>3
<1>7. CASE b.tokens # 0 \/ r # 0
  <2>1. b.tokens * Period >= Period \/ r * Period >= Period
    BY <1>7, <1>1, <1>2, Worth
  <2>2. LevelOf(b, t) >= Period
    BY <2>1, <1>1, <1>2, <1>3, <1>5
  <2>3. CanTake(b, t, Period, Burst)
    BY <1>4, <1>7, <1>1, <1>2
  <2> QED BY <2>2, <2>3
<1> QED BY <1>6, <1>7

(* What letting a packet through does to an entry. *)
LEMMA TakeLevel ==
  ASSUME NEW b \in Bucket, NEW t \in Nat, b.last <= t,
         CanTake(b, t, Period, Burst),
         NEW c, c = Take(b, t, Period, Burst)
  PROVE  /\ c \in Bucket
         /\ c.last <= t
         /\ c.tokens < Burst
         /\ \/ LevelOf(c, t) = LevelOf(b, t) - Period /\ LevelOf(b, t) <= LooseCap
            \/ /\ LevelOf(b, t) > LooseCap
               /\ LevelOf(c, t) >= IdealCap - Period
               /\ LevelOf(c, t) < IdealCap
<1> DEFINE e == t - b.last
           r == e \div Period
           a == IF b.tokens + r > Burst THEN Burst ELSE b.tokens + r
<1>1. /\ b.tokens \in Nat /\ b.last \in Nat /\ e \in Nat
      /\ Period \in Nat \ {0} /\ Burst \in Nat \ {0}
  BY PeriodAssumption, BurstAssumption DEF Bucket
<1>2. r \in Nat /\ r * Period <= e /\ e < r * Period + Period
  BY <1>1, DivMod
<1>3. a # 0 /\ c = [tokens |-> a - 1, last |-> b.last + r * Period]
  BY DEF CanTake, Available, Refill, Take
<1>4. r * Period \in Nat /\ b.tokens * Period \in Nat /\ IdealCap \in Nat
  BY <1>1, <1>2, Worth DEF IdealCap
<1>5. LevelOf(b, t) = b.tokens * Period + e
  BY DEF LevelOf
<1> HIDE DEF r
<1>6. a \in Nat /\ a >= 1 /\ a <= Burst
  BY <1>1, <1>2, <1>3
<1>7. /\ c.tokens = a - 1 /\ c.tokens \in Nat
      /\ c.last = b.last + r * Period
  BY <1>3, <1>6
<1>8. c \in Bucket /\ c.last <= t /\ c.tokens < Burst
  BY <1>1, <1>2, <1>3, <1>4, <1>6, <1>7 DEF Bucket
<1>9. LevelOf(c, t) = (a - 1) * Period + (e - r * Period)
  BY <1>1, <1>4, <1>7 DEF LevelOf
<1>10. (a - 1) * Period = a * Period - Period
  BY <1>1, <1>6
<1>11. (b.tokens + r) * Period = b.tokens * Period + r * Period
  BY <1>1, <1>2, Distributes
<1>12. LooseCap = IdealCap + Period - 1
  BY DEF LooseCap
<1>13. CASE b.tokens + r <= Burst
  <2>1. a = b.tokens + r
    BY <1>13, <1>1, <1>2
  <2>2. a * Period = b.tokens * Period + r * Period
    BY <2>1, <1>11
  <2>3. a * Period <= IdealCap
    BY <1>6, <1>1, Monotone DEF IdealCap
  <2> HIDE DEF e, a
  <2>4. LevelOf(c, t) = LevelOf(b, t) - Period /\ LevelOf(b, t) <= LooseCap
    BY <2>2, <2>3, <1>1, <1>2, <1>4, <1>5, <1>9, <1>10, <1>12
  <2> QED BY <2>4, <1>8
<1>14. CASE b.tokens + r > Burst
  <2>1. a = Burst
    BY <1>14, <1>1, <1>2
  <2>2. a * Period = IdealCap
    BY <2>1 DEF IdealCap
  <2>3. (Burst + 1) * Period <= (b.tokens + r) * Period
    BY <1>14, <1>1, <1>2, Monotone
  <2>4. (Burst + 1) * Period = IdealCap + Period
    BY <1>1, Distributes DEF IdealCap
  <2>5. IdealCap + Period <= b.tokens * Period + r * Period
    BY <2>3, <2>4, <1>11
  <2> HIDE DEF e, a
  <2>6. LevelOf(b, t) > LooseCap
    BY <2>5, <1>1, <1>2, <1>4, <1>5, <1>12
  <2>7. LevelOf(c, t) >= IdealCap - Period /\ LevelOf(c, t) < IdealCap
    BY <2>2, <1>1, <1>2, <1>4, <1>9, <1>10
  <2> QED BY <2>6, <2>7, <1>8
<1> QED BY <1>13, <1>14, <1>1, <1>2

(* The inductive invariant of NoFalseDrop. *)
IInv == TypeOK /\ Sandwich

LEMMA TallyKept == TallyOK /\ [TNext]_vars => TallyOK'
<1> SUFFICES ASSUME TallyOK, [TNext]_vars PROVE TallyOK'
  OBVIOUS
<1>1. CASE TFirstRequest \/ TAccept
  BY <1>1 DEF TFirstRequest, TAccept, Pass, OneMore, TallyOK
<1>2. CASE TEvict
  BY <1>2 DEF TEvict, OneMore, TallyOK
<1>3. CASE TRefuse \/ TTick \/ UNCHANGED vars
  BY <1>3 DEF TRefuse, TTick, vars, tally, TallyOK
<1> QED BY <1>1, <1>2, <1>3 DEF TNext

LEMMA CapTypes == IdealCap \in Nat /\ LooseCap \in Nat /\ IdealCap >= Period
                  /\ LooseCap = IdealCap + Period - 1 /\ Period \in Nat \ {0}
<1>1. Period \in Nat \ {0} /\ Burst \in Nat \ {0}
  BY PeriodAssumption, BurstAssumption
<1>2. IdealCap \in Nat /\ IdealCap >= Period
  BY <1>1, Worth DEF IdealCap
<1> QED BY <1>1, <1>2 DEF LooseCap

LEMMA LevelDef == Level = LevelOf(bucket, now)
  BY DEF Level, LevelOf

LEMMA InvInit == TInit => IInv
<1> SUFFICES ASSUME TInit PROVE IInv
  OBVIOUS
<1>1. now = 0 /\ ideal = 0 /\ loose = 0 /\ preallocated \in BOOLEAN
  BY DEF TInit, Init
<1>2. bucket # NoBucket => bucket = ZeroBucket
  BY DEF TInit, Init
<1>3. TypeOK
  BY <1>1, <1>2, CapTypes, MaxTimeAssumption, BurstAssumption
     DEF TypeOK, ZeroBucket, Bucket, TInit, TallyOK
<1>4. Sandwich
  <2> SUFFICES ASSUME bucket # NoBucket
               PROVE  ideal <= Level /\ AtMost(Level, LooseCap) <= loose
    BY DEF Sandwich
  <2>1. bucket.tokens = 0 /\ bucket.last = 0
    BY <1>2 DEF ZeroBucket
  <2>2. Level = 0
    BY <2>1, <1>1, CapTypes DEF Level
  <2> QED BY <2>2, <1>1, CapTypes DEF AtMost
<1> QED BY <1>3, <1>4 DEF IInv

(* The contracts' charge for one packet and income of one tick keep them   *)
(* on their sides of the code's credit.                                    *)
LEMMA InvFirstRequest == IInv /\ TFirstRequest => IInv'
<1> SUFFICES ASSUME IInv, TFirstRequest PROVE IInv'
  OBVIOUS
<1>0. TallyOK'
  BY TallyKept DEF IInv, TypeOK, TNext
<1>1. /\ bucket' = NewBucket(Burst, now) /\ now' = now
      /\ preallocated' = preallocated
      /\ ideal' = IdealCap - Period /\ loose' = LooseCap - Period
  BY DEF TFirstRequest, FirstRequest
<1>2. now \in 0..MaxTime /\ preallocated \in BOOLEAN
  BY DEF IInv, TypeOK
<1>3. /\ bucket' \in Bucket
      /\ bucket'.tokens = Burst - 1 /\ bucket'.last = now
  BY <1>1, <1>2, BurstAssumption, MaxTimeAssumption DEF NewBucket, Bucket
<1>4. TypeOK'
  BY <1>0, <1>1, <1>2, <1>3, CapTypes, BurstAssumption, MaxTimeAssumption
     DEF TypeOK, IdealCap, LooseCap
<1>5. Level' = IdealCap - Period
  <2>1. Level' = (Burst - 1) * Period + (now - now)
    BY <1>1, <1>3 DEF Level
  <2>2. (Burst - 1) * Period = Burst * Period - Period
    BY BurstAssumption, PeriodAssumption
  <2> QED BY <2>1, <2>2, <1>2, MaxTimeAssumption, CapTypes DEF IdealCap
<1>6. Sandwich'
  BY <1>1, <1>5, CapTypes DEF Sandwich, AtMost, IdealCap, LooseCap
<1> QED BY <1>4, <1>6 DEF IInv

LEMMA InvAccept == IInv /\ TAccept => IInv'
<1> SUFFICES ASSUME IInv, TAccept PROVE IInv'
  OBVIOUS
<1>0. TallyOK'
  BY TallyKept DEF IInv, TypeOK, TNext
<1>1. /\ bucket # NoBucket
      /\ CanTake(bucket, now, Period, Burst)
      /\ bucket' = Take(bucket, now, Period, Burst)
      /\ now' = now /\ preallocated' = preallocated
      /\ ideal' = AtLeast0(ideal - Period)
      /\ loose' = loose - Period
  BY DEF TAccept, Accept
<1>2. /\ now \in 0..MaxTime /\ preallocated \in BOOLEAN
      /\ bucket \in Bucket /\ bucket.last <= now
      /\ ideal \in 0..IdealCap /\ loose \in Int
      /\ ideal <= Level /\ AtMost(Level, LooseCap) <= loose
  BY <1>1 DEF IInv, TypeOK, Sandwich
<1>3. now \in Nat
  BY <1>2, MaxTimeAssumption
<1>4. /\ bucket' \in Bucket /\ bucket'.last <= now /\ bucket'.tokens < Burst
      /\ \/ LevelOf(bucket', now) = Level - Period /\ Level <= LooseCap
         \/ /\ Level > LooseCap
            /\ LevelOf(bucket', now) >= IdealCap - Period
            /\ LevelOf(bucket', now) < IdealCap
  BY <1>1, <1>2, <1>3, TakeLevel, LevelDef
<1>5. Level' = LevelOf(bucket', now)
  BY <1>1 DEF Level, LevelOf
<1>6. Level \in Int /\ Level' \in Nat
  <2>1. /\ bucket.tokens \in Nat /\ bucket.last \in Nat
        /\ bucket'.tokens \in Nat /\ bucket'.last \in Nat
    BY <1>2, <1>4 DEF Bucket
  <2>2. bucket.tokens * Period \in Nat /\ bucket'.tokens * Period \in Nat
    BY <2>1, Worth, CapTypes
  <2> QED BY <2>1, <2>2, <1>1, <1>3, <1>4 DEF Level
<1>7. ideal' \in 0..IdealCap /\ loose' \in Int
  BY <1>1, <1>2, CapTypes DEF AtLeast0
<1>8. TypeOK'
  <2>1. IdealCap' = IdealCap
    BY DEF IdealCap
  <2> QED BY <1>0, <1>1, <1>2, <1>4, <1>7, <2>1 DEF TypeOK
<1>9. ideal' <= Level' /\ AtMost(Level', LooseCap) <= loose'
  BY <1>1, <1>2, <1>4, <1>5, <1>6, CapTypes DEF AtLeast0, AtMost
<1>10. Sandwich'
  BY <1>9 DEF Sandwich, AtMost, LooseCap, IdealCap
<1> QED BY <1>8, <1>10 DEF IInv

LEMMA InvTick == IInv /\ TTick => IInv'
<1> SUFFICES ASSUME IInv, TTick PROVE IInv'
  OBVIOUS
<1>0. TallyOK'
  BY TallyKept DEF IInv, TypeOK, TNext
<1>1. /\ now < MaxTime /\ now' = now + 1
      /\ bucket' = bucket /\ preallocated' = preallocated
  BY DEF TTick, Tick
<1>2. /\ now \in 0..MaxTime /\ preallocated \in BOOLEAN
      /\ ideal \in 0..IdealCap /\ loose \in Int
  BY DEF IInv, TypeOK
<1>3. now' \in 0..MaxTime
  BY <1>1, <1>2, MaxTimeAssumption
<1>4. IdealCap' = IdealCap /\ LooseCap' = LooseCap
  BY DEF IdealCap, LooseCap
<1>5. CASE bucket = NoBucket
  <2>1. ideal' = ideal /\ loose' = loose
    BY <1>5 DEF TTick
  <2>2. TypeOK' /\ Sandwich'
    BY <2>1, <1>0, <1>1, <1>2, <1>3, <1>4, <1>5 DEF TypeOK, Sandwich
  <2> QED BY <2>2 DEF IInv
<1>6. CASE bucket # NoBucket
  <2>1. /\ ideal' = AtMost(ideal + 1, IdealCap)
        /\ loose' = AtMost(loose + 1, LooseCap)
    BY <1>6 DEF TTick
  <2>2. /\ bucket \in Bucket /\ bucket.last <= now /\ bucket.tokens < Burst
        /\ ideal <= Level /\ AtMost(Level, LooseCap) <= loose
    BY <1>6 DEF IInv, TypeOK, Sandwich
  <2>3. /\ bucket.tokens \in Nat /\ bucket.last \in Nat /\ now \in Nat
        /\ bucket.tokens * Period \in Nat
    BY <2>2, <1>2, Worth, CapTypes, MaxTimeAssumption DEF Bucket
  <2>4. Level \in Nat /\ Level' = Level + 1
    BY <2>2, <2>3, <1>1 DEF Level
  <2>5. /\ ideal' \in 0..IdealCap /\ loose' \in Int
        /\ ideal' <= Level' /\ AtMost(Level', LooseCap) <= loose'
    BY <2>1, <2>2, <2>4, <1>2, CapTypes DEF AtMost
  <2>6. TypeOK'
    BY <2>2, <2>3, <2>5, <1>0, <1>1, <1>2, <1>3, <1>4 DEF TypeOK
  <2>7. Sandwich'
    BY <2>5, <1>4 DEF Sandwich, AtMost
  <2> QED BY <2>6, <2>7 DEF IInv
<1> QED BY <1>5, <1>6

LEMMA InvEvict == IInv /\ TEvict => IInv'
<1> SUFFICES ASSUME IInv, TEvict PROVE IInv'
  OBVIOUS
<1>0. TallyOK'
  BY TallyKept DEF IInv, TypeOK, TNext
<1>1. /\ bucket' = NoBucket /\ now' = now /\ preallocated' = preallocated
      /\ ideal' = 0 /\ loose' = 0
  BY DEF TEvict, Evict
<1>2. IdealCap' = IdealCap
  BY DEF IdealCap
<1> QED BY <1>0, <1>1, <1>2, CapTypes DEF IInv, TypeOK, Sandwich

LEMMA InvStep == IInv /\ [TNext]_vars => IInv'
<1>1. CASE UNCHANGED vars \/ TRefuse
  <2>1. UNCHANGED <<now, bucket, preallocated, ideal, loose, tally>>
    BY <1>1 DEF vars, entry, TRefuse, Refuse
  <2> QED
    BY <2>1 DEF IInv, TypeOK, Sandwich, Level, AtMost, IdealCap, LooseCap,
                tally, TallyOK
<1> QED
  BY <1>1, InvFirstRequest, InvAccept, InvTick, InvEvict DEF TNext

------------------------------------------------------------------------------

(* The invariant of every run. *)
THEOREM Inductive == TSpec => []IInv
<1>1. TInit => IInv
  BY InvInit
<1>2. IInv /\ [TNext]_vars => IInv'
  BY InvStep
<1> QED BY <1>1, <1>2, PTL DEF TSpec

(* Types of the entry: the subtraction of its clock never wraps and it     *)
(* holds fewer than burst tokens.                                          *)
THEOREM TypeCorrect == TSpec => []TypeOK
<1>1. IInv => TypeOK
  BY DEF IInv
<1> QED BY <1>1, Inductive, PTL

(* The code's credit stays between the ideal and the loose contract. *)
THEOREM Sandwiched == TSpec => []Sandwich
<1>1. IInv => Sandwich
  BY DEF IInv
<1> QED BY <1>1, Inductive, PTL

(* No source that stays within (rate, burst) is ever refused a packet. *)
THEOREM NeverFalselyDropped == TSpec => []NoFalseDrop
<1>1. ASSUME IInv, bucket # NoBucket, ideal >= Period
      PROVE  CanTake(bucket, now, Period, Burst)
  <2>1. /\ bucket \in Bucket /\ bucket.last <= now /\ now \in Nat
        /\ ideal \in Int /\ ideal <= Level
    BY <1>1, MaxTimeAssumption, CapTypes DEF IInv, TypeOK, Sandwich
  <2>2. Level \in Int
    BY <2>1, CapTypes DEF Level, Bucket
  <2>3. LevelOf(bucket, now) >= Period
    BY <1>1, <2>1, <2>2, LevelDef, CapTypes
  <2> QED BY <2>1, <2>3, CanTakeLevel
<1>2. IInv => NoFalseDrop
  BY <1>1 DEF NoFalseDrop
<1> QED BY <1>2, Inductive, PTL

------------------------------------------------------------------------------
(* What is let through *)

(* What the entry can still let through without further income.  An absent *)
(* one is as good as full.                                                 *)
Held == IF bucket = NoBucket THEN IdealCap ELSE AtMost(Level, LooseCap)

(* What was let through and what may be at once, against a full bucket, a  *)
(* fraction short of a token, and the income since then.                   *)
Spent ==
  now >= since =>
    passed * Period + Held
      <= (evicted + 1) * IdealCap + Period - 1 + (now - since)

Uncounted == now < since => passed = 0 /\ evicted = 0

LEMMA LevelType ==
  ASSUME TypeOK, bucket # NoBucket
  PROVE  Level \in Nat
<1>1. /\ bucket.tokens \in Nat /\ bucket.last \in Nat /\ now \in Nat
      /\ bucket.last <= now
  BY MaxTimeAssumption DEF TypeOK, Bucket
<1>2. bucket.tokens * Period \in Nat
  BY <1>1, Worth, CapTypes
<1> QED BY <1>1, <1>2 DEF Level

LEMMA HeldType == ASSUME TypeOK PROVE Held \in 0..LooseCap
<1>1. CASE bucket = NoBucket
  BY <1>1, CapTypes DEF Held
<1>2. CASE bucket # NoBucket
  <2>1. Level \in Nat
    BY <1>2, LevelType
  <2> QED BY <1>2, <2>1, CapTypes DEF Held, AtMost
<1> QED BY <1>1, <1>2

(* What each kind of step does to an account: y is what was passed so far, *)
(* h what is held, x what evictions allow, d the time.                     *)
LEMMA Account ==
  ASSUME NEW y \in Nat, NEW h \in Nat, NEW k \in Nat, NEW x \in Nat,
         NEW d \in Int, NEW p \in Nat, y + h <= x + p - 1 + d
  PROVE  /\ k + p <= h => (y + p) + k <= x + p - 1 + d
         /\ k <= h + 1 => y + k <= x + p - 1 + (d + 1)
         /\ y + k <= (x + k) + p - 1 + d
  BY SMT

(* A packet costs a token of what is held. *)
LEMMA PassCosts ==
  ASSUME TypeOK, TypeOK', TFirstRequest \/ TAccept
  PROVE  Held' + Period <= Held /\ now' = now
<1>1. CASE TFirstRequest
  <2>1. /\ bucket = NoBucket /\ now' = now
        /\ bucket' = NewBucket(Burst, now)
    BY <1>1 DEF TFirstRequest, FirstRequest
  <2>2. bucket'.tokens = Burst - 1 /\ bucket'.last = now
    BY <2>1 DEF NewBucket
  <2>3. now \in Nat
    BY MaxTimeAssumption DEF TypeOK
  <2>4. (Burst - 1) * Period = IdealCap - Period
    <3>1. Burst \in Nat \ {0} /\ Period \in Nat
      BY BurstAssumption, PeriodAssumption
    <3> QED BY <3>1 DEF IdealCap
  <2>5. Level' = IdealCap - Period
    BY <2>1, <2>2, <2>3, <2>4, CapTypes DEF Level
  <2>6. Held = IdealCap
    BY <2>1 DEF Held
  <2>7. bucket' # NoBucket
    <3>1. Burst - 1 \in Nat
      BY BurstAssumption
    <3>2. bucket' \in Bucket
      BY <2>1, <2>3, <3>1 DEF NewBucket, Bucket
    <3> QED BY <3>2, NoBucketAssumption
  <2>8. Held' = AtMost(Level', LooseCap)
    BY <2>7 DEF Held, AtMost, LooseCap, IdealCap
  <2> QED BY <2>1, <2>5, <2>6, <2>8, CapTypes DEF AtMost
<1>2. CASE TAccept
  <2>1. /\ bucket # NoBucket /\ now' = now
        /\ CanTake(bucket, now, Period, Burst)
        /\ bucket' = Take(bucket, now, Period, Burst)
    BY <1>2 DEF TAccept, Accept
  <2>2. bucket \in Bucket /\ bucket.last <= now /\ now \in Nat
    BY <2>1, MaxTimeAssumption DEF TypeOK
  <2>3. /\ bucket' \in Bucket
        /\ \/ LevelOf(bucket', now) = Level - Period /\ Level <= LooseCap
           \/ /\ Level > LooseCap
              /\ LevelOf(bucket', now) < IdealCap
    BY <2>1, <2>2, TakeLevel, LevelDef
  <2>4. Level' = LevelOf(bucket', now)
    BY <2>1 DEF Level, LevelOf
  <2>5. bucket' # NoBucket
    BY <2>3, NoBucketAssumption
  <2>6. Level \in Nat /\ Level' \in Nat
    <3>1. Level \in Nat
      BY <2>1, LevelType
    <3>2. /\ bucket'.tokens \in Nat /\ bucket'.last \in Nat
          /\ now' \in Nat /\ bucket'.last <= now'
      BY <2>1, <2>2, <2>3, <2>5 DEF TypeOK, Bucket
    <3>3. bucket'.tokens * Period \in Nat
      BY <3>2, Worth, CapTypes
    <3> QED BY <3>1, <3>2, <3>3 DEF Level
  <2>7. Held = AtMost(Level, LooseCap) /\ Held' = AtMost(Level', LooseCap)
    BY <2>1, <2>5 DEF Held, AtMost, LooseCap, IdealCap
  <2> QED BY <2>1, <2>3, <2>4, <2>6, <2>7, CapTypes DEF AtMost
<1> QED BY <1>1, <1>2

(* A tick earns a fraction at most. *)
LEMMA TickEarns ==
  ASSUME TypeOK, TTick
  PROVE  /\ Held' <= Held + 1 /\ now' = now + 1
         /\ since' = since /\ passed' = passed /\ evicted' = evicted
<1>1. /\ now' = now + 1 /\ bucket' = bucket
      /\ since' = since /\ passed' = passed /\ evicted' = evicted
  BY DEF TTick, Tick, tally
<1>2. CASE bucket = NoBucket
  BY <1>1, <1>2, CapTypes DEF Held, IdealCap
<1>3. CASE bucket # NoBucket
  <2>1. Level \in Nat
    BY <1>3, LevelType
  <2>2. /\ bucket.tokens * Period \in Nat /\ bucket.last \in Nat
        /\ now \in Nat
    BY <1>3, Worth, CapTypes, MaxTimeAssumption DEF TypeOK, Bucket
  <2>3. Level' = Level + 1
    BY <1>1, <2>2 DEF Level
  <2>4. Held = AtMost(Level, LooseCap) /\ Held' = AtMost(Level', LooseCap)
    BY <1>1, <1>3 DEF Held, AtMost, LooseCap, IdealCap
  <2> QED BY <1>1, <2>1, <2>3, <2>4, CapTypes DEF AtMost
<1> QED BY <1>1, <1>2, <1>3

SpentInv == Spent /\ Uncounted

LEMMA SpentInit == TInit => SpentInv
<1> SUFFICES ASSUME TInit PROVE SpentInv
  OBVIOUS
<1>1. TypeOK
  BY InvInit DEF IInv
<1>2. Held \in 0..LooseCap
  BY <1>1, HeldType
<1>3. now \in Nat /\ since \in Nat /\ passed = 0 /\ evicted = 0
  BY MaxTimeAssumption DEF TInit, Init
<1> QED BY <1>2, <1>3, CapTypes DEF SpentInv, Spent, Uncounted

(* One packet, one eviction, one tick: the terms of Spent that each moves. *)
LEMMA SpentNext == TypeOK /\ TypeOK' /\ SpentInv /\ [TNext]_vars => SpentInv'
<1> SUFFICES ASSUME TypeOK, TypeOK', SpentInv, [TNext]_vars PROVE SpentInv'
  OBVIOUS
<1> DEFINE cap == IdealCap
<1>1. /\ now \in Nat /\ since \in Nat /\ passed \in Nat /\ evicted \in Nat
      /\ cap \in Nat /\ Period \in Nat \ {0} /\ LooseCap = cap + Period - 1
  BY MaxTimeAssumption, CapTypes DEF TypeOK, TallyOK
<1>2. /\ Held \in Nat /\ Held <= LooseCap
      /\ passed * Period \in Nat /\ (evicted + 1) * cap \in Nat
  <2>1. Held \in 0..LooseCap
    BY HeldType
  <2>2. evicted + 1 \in Nat
    BY <1>1
  <2>3. passed * Period \in Nat /\ (evicted + 1) * cap \in Nat
    BY <1>1, <2>2, Worth
  <2> QED BY <1>1, <2>1, <2>3
<1>3. cap' = cap
  BY DEF IdealCap
<1>4. Held' \in Nat /\ Held' <= LooseCap
  <2>1. LooseCap' = LooseCap
    BY DEF LooseCap, IdealCap
  <2>2. Held' \in 0..LooseCap'
    <3>1. CASE bucket' = NoBucket
      BY <3>1, <2>1, <1>1, <1>3 DEF Held
    <3>2. CASE bucket' # NoBucket
      <4>1. /\ bucket'.tokens \in Nat /\ bucket'.last \in Nat
            /\ now' \in Nat /\ bucket'.last <= now'
        BY <3>2, MaxTimeAssumption DEF TypeOK, Bucket
      <4>2. bucket'.tokens * Period \in Nat
        BY <4>1, Worth, CapTypes
      <4>3. Level' \in Nat
        BY <4>1, <4>2 DEF Level
      <4> QED BY <3>2, <4>3, <2>1, <1>1 DEF Held, AtMost
    <3> QED BY <3>1, <3>2
  <2> QED BY <1>1, <2>1, <2>2
<1>5. Spent' <=>
        (now' >= since' =>
           passed' * Period + Held'
             <= (evicted' + 1) * cap + Period - 1 + (now' - since'))
  BY <1>3 DEF Spent
<1> HIDE DEF cap
<1>6. CASE TFirstRequest \/ TAccept
  <2>1. /\ Held' + Period <= Held /\ now' = now
        /\ since' = since /\ evicted' = evicted
        /\ passed' = IF now < since THEN passed ELSE passed + 1
    BY <1>6, PassCosts DEF TFirstRequest, TAccept, Pass, OneMore
  <2>2. (passed + 1) * Period = passed * Period + Period
    BY <1>1, Distributes
  <2>3. Uncounted'
    BY <1>1, <2>1 DEF SpentInv, Uncounted
  <2>4. CASE now < since
    BY <1>1, <1>5, <2>1, <2>3, <2>4 DEF SpentInv
  <2>5. CASE now >= since
    <3>1. passed' = passed + 1
      BY <1>1, <2>1, <2>5
    <3>2. passed * Period + Held
            <= (evicted + 1) * cap + Period - 1 + (now - since)
      BY <2>5 DEF SpentInv, Spent, cap
    <3>3. passed' * Period + Held'
            <= (evicted + 1) * cap + Period - 1 + (now - since)
      <4>1. now - since \in Int /\ Period \in Nat
        BY <1>1
      <4>2. (passed * Period + Period) + Held'
              <= (evicted + 1) * cap + Period - 1 + (now - since)
        BY <1>2, <1>4, <2>1, <3>2, <4>1, Account
      <4> QED BY <2>2, <3>1, <4>2
    <3> QED BY <1>5, <2>1, <2>3, <3>3 DEF SpentInv
  <2> QED BY <1>1, <2>4, <2>5
<1>7. CASE TEvict
  <2>1. /\ bucket' = NoBucket /\ now' = now
        /\ since' = since /\ passed' = passed
        /\ evicted' = IF now < since THEN evicted ELSE evicted + 1
    BY <1>7 DEF TEvict, Evict, OneMore
  <2>2. Held' = cap
    BY <2>1, <1>3 DEF Held, cap
  <2>3. (evicted + 1 + 1) * cap = (evicted + 1) * cap + cap
    BY <1>1, Distributes
  <2>4. Uncounted'
    BY <1>1, <2>1 DEF SpentInv, Uncounted
  <2>5. CASE now < since
    BY <1>1, <1>5, <2>1, <2>4, <2>5 DEF SpentInv
  <2>6. CASE now >= since
    <3>1. evicted' = evicted + 1
      BY <1>1, <2>1, <2>6
    <3>2. passed * Period + Held
            <= (evicted + 1) * cap + Period - 1 + (now - since)
      BY <2>6 DEF SpentInv, Spent, cap
    <3>3. passed * Period + Held'
            <= (evicted + 1 + 1) * cap + Period - 1 + (now - since)
      BY <1>1, <1>2, <2>2, <2>3, <3>2
    <3> QED BY <1>5, <2>1, <2>4, <3>1, <3>3 DEF SpentInv
  <2> QED BY <1>1, <2>5, <2>6
<1>8. CASE TTick
  <2>1. /\ Held' <= Held + 1 /\ now' = now + 1
        /\ since' = since /\ passed' = passed /\ evicted' = evicted
    BY <1>8, TickEarns
  <2>2. Uncounted'
    BY <1>1, <2>1 DEF SpentInv, Uncounted
  <2>3. CASE now >= since
    <3>1. passed * Period + Held
            <= (evicted + 1) * cap + Period - 1 + (now - since)
      BY <2>3 DEF SpentInv, Spent, cap
    <3>2. passed * Period + Held'
            <= (evicted + 1) * cap + Period - 1 + (now + 1 - since)
      <4>1. /\ now - since \in Int /\ Period \in Nat
            /\ now + 1 - since = (now - since) + 1
        BY <1>1
      <4>2. passed * Period + Held'
              <= (evicted + 1) * cap + Period - 1 + ((now - since) + 1)
        BY <1>2, <1>4, <2>1, <3>1, <4>1, Account
      <4> QED BY <4>1, <4>2
    <3>3. now' - since' = now + 1 - since
      BY <1>1, <2>1
    <3>4. Spent'
      BY <1>5, <2>1, <3>2, <3>3
    <3> QED BY <2>2, <3>4 DEF SpentInv
  <2>4. CASE now < since
    <3>1. passed = 0 /\ evicted = 0
      BY <2>4 DEF SpentInv, Uncounted
    <3>2. passed * Period = 0 /\ (evicted + 1) * cap = cap
      BY <1>1, <3>1
    <3>3. now + 1 >= since =>
            passed * Period + Held'
              <= (evicted + 1) * cap + Period - 1 + (now + 1 - since)
      <4> SUFFICES ASSUME now + 1 >= since
                   PROVE  0 + Held' <= cap + Period - 1 + (now + 1 - since)
        BY <3>2
      <4>1. now + 1 = since
        BY <1>1, <2>4
      <4>2. Held' <= cap + Period - 1
        BY <1>1, <1>4
      <4>3. now + 1 - since = 0
        BY <1>1, <4>1
      <4>4. 0 + Held' = Held'
        <5>1. \A h \in Nat : 0 + h = h
          OBVIOUS
        <5> QED BY <1>4, <5>1
      <4>5. cap + Period - 1 + 0 = cap + Period - 1
        BY <1>1
      <4> QED BY <4>2, <4>3, <4>4, <4>5
    <3>4. now' - since' = now + 1 - since /\ now' = now + 1
      BY <1>1, <2>1
    <3>5. Spent'
      BY <1>5, <2>1, <3>3, <3>4
    <3> QED BY <2>2, <3>5 DEF SpentInv
  <2> QED BY <1>1, <2>3, <2>4
<1>9. CASE TRefuse \/ UNCHANGED vars
  <2>1. UNCHANGED <<now, bucket, since, passed, evicted>>
    BY <1>9 DEF TRefuse, Refuse, vars, entry, tally
  <2>2. Held' = Held
    BY <2>1 DEF Held, Level, AtMost, LooseCap, IdealCap
  <2> QED BY <1>5, <2>1, <2>2 DEF SpentInv, Spent, Uncounted, cap
<1> QED BY <1>6, <1>7, <1>8, <1>9 DEF TNext

(* In any d ticks with e evictions fewer than (e + 1) * Burst + 1 + d /    *)
(* Period packets of a source are let through.                             *)
THEOREM AlwaysConforming == TSpec => []AcceptedConforms
<1>1. TInit => SpentInv
  BY SpentInit
<1>2. SpentInv /\ IInv /\ IInv' /\ [TNext]_vars => SpentInv'
  BY SpentNext DEF IInv
<1>3. IInv /\ SpentInv => AcceptedConforms
  <2> SUFFICES ASSUME IInv, SpentInv, now >= since
               PROVE  passed * Period
                        < (evicted + 1) * IdealCap + Period + (now - since)
    BY DEF AcceptedConforms
  <2>1. /\ now \in Nat /\ since \in Nat /\ passed \in Nat
        /\ evicted + 1 \in Nat /\ Held \in Nat
    BY MaxTimeAssumption, HeldType, CapTypes DEF IInv, TypeOK, TallyOK
  <2>2. passed * Period \in Nat /\ (evicted + 1) * IdealCap \in Nat
    BY <2>1, CapTypes, Worth
  <2>3. passed * Period + Held
          <= (evicted + 1) * IdealCap + Period - 1 + (now - since)
    BY DEF SpentInv, Spent
  <2> QED BY <2>1, <2>2, <2>3, CapTypes
<1> QED BY <1>1, <1>2, <1>3, Inductive, PTL DEF TSpec
==============================================================================
