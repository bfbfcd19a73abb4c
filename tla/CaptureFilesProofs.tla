------------------------- MODULE CaptureFilesProofs -------------------------
(* What CaptureFiles's run shows of captures, for packets of any number,     *)
(* size, link type and time.  The folds of the model (offsets, interfaces)   *)
(* are unfolded step by step: induction over the numbers follows from their  *)
(* well-founded order.                                                       *)
EXTENDS CaptureFiles, FiniteSetTheorems, WellFoundedInduction, TLAPS

(* Every set of natural numbers that is not empty has a least element.       *)
LEMMA LeastNumber ==
  ASSUME NEW T, T \subseteq Nat, T # {}
  PROVE  \E n \in T : \A m \in T : n =< m
<1> DEFINE R == OpToRel(<, Nat)
<1>1. IsWellFoundedOn(R, Nat)
  BY NatLessThanWellFounded
<1> HIDE DEF R
<1>2. \E x \in T : \A y \in T : ~(<<y, x>> \in R)
  BY <1>1, WFMin
<1>3. \A x, y \in Nat : y < x => <<y, x>> \in R
  BY DEF R, OpToRel
<1>4. \E x \in T : \A y \in T : ~(y < x)
  BY <1>2, <1>3, Zenon
<1> QED BY <1>4

(* Induction over the natural numbers, for a set.                            *)
LEMMA Induction ==
  ASSUME NEW S, 0 \in S, \A n \in Nat : n \in S => n + 1 \in S
  PROVE  Nat \subseteq S
<1> DEFINE T == Nat \ S
<1>1. CASE T = {}
  BY <1>1
<1>2. CASE T # {}
  <2>1. PICK n \in T : \A m \in T : n =< m
    BY <1>2, LeastNumber
  <2>2. n - 1 \in Nat
    BY <2>1
  <2>3. n - 1 \in S
    BY <2>1, <2>2
  <2>4. (n - 1) + 1 \in S
    BY <2>2, <2>3
  <2> QED BY <2>1, <2>4
<1> QED BY <1>1, <1>2

----------------------------------------------------------------------------
(* The folds of the model: sizes are added up, link types are collected.     *)
Total(blocks) == FoldLeft(LAMBDA n, b : n + Size(b), 0, blocks)

Step(fold, v, b) ==
  IF fold = "size" THEN v + Size(b)
  ELSE IF Contains(v, b.link) THEN v ELSE Append(v, b.link)

(* iter is the recursive function that FoldLeft is defined by.               *)
IsFold(fold, base, seq, iter) ==
  iter = [s \in SUBSET DOMAIN seq |->
            IF s = {} THEN base
            ELSE LET x == Max(s) IN Step(fold, iter[s \ {x}], seq[x])]

SizesFold(blocks, iter) ==
  iter = [s \in SUBSET DOMAIN blocks |->
            IF s = {} THEN 0
            ELSE LET x == Max(s) IN iter[s \ {x}] + Size(blocks[x])]

LinksFold(packets, iter) ==
  iter = [s \in SUBSET DOMAIN packets |->
            IF s = {} THEN <<>>
            ELSE LET x == Max(s) IN
                 IF Contains(iter[s \ {x}], packets[x].link) THEN iter[s \ {x}]
                 ELSE Append(iter[s \ {x}], packets[x].link)]

LEMMA MaxOfInterval ==
  ASSUME NEW k \in Nat
  PROVE  Max(1 .. k + 1) = k + 1
BY DEF Max

LEMMA MaxOfSet ==
  ASSUME NEW n \in Nat, NEW s \in SUBSET (1 .. n), s # {}
  PROVE  Max(s) \in s
<1> DEFINE T == {m \in Nat : \A y \in s : m >= y}
<1>1. n \in T
  OBVIOUS
<1>2. PICK m \in T : \A k \in T : m =< k
  BY <1>1, LeastNumber
<1>3. m \in s
  <2> SUFFICES ASSUME m \notin s PROVE FALSE
    OBVIOUS
  <2>1. PICK y \in s : TRUE
    OBVIOUS
  <2>2. m - 1 \in T
    BY <2>1
  <2> QED BY <1>2, <2>2
<1>4. \A y \in s : m >= y
  OBVIOUS
<1> QED BY <1>3, <1>4 DEF Max

LEMMA FoldExists ==
  ASSUME NEW fold, NEW base, NEW seq, NEW n \in Nat, DOMAIN seq = 1 .. n
  PROVE  \E iter : IsFold(fold, base, seq, iter)
<1> DEFINE D == DOMAIN seq
           Upto(k, iter) ==
             iter = [s \in SUBSET D |->
                       IF Cardinality(s) > k THEN base
                       ELSE IF s = {} THEN base
                       ELSE Step(fold, iter[s \ {Max(s)}], seq[Max(s)])]
           S == {k \in Nat : \E iter : Upto(k, iter)}
<1>1. \A s \in SUBSET D : IsFiniteSet(s) /\ Cardinality(s) \in Nat /\ Cardinality(s) =< n
  <2>1. IsFiniteSet(D) /\ Cardinality(D) = n
    BY FS_Interval
  <2> QED BY <2>1, FS_Subset, FS_CardinalityType
<1>2. \A s \in SUBSET D : s # {} => s \ {Max(s)} \in SUBSET D /\ Cardinality(s \ {Max(s)}) = Cardinality(s) - 1
  BY <1>1, MaxOfSet, FS_RemoveElement
<1>3. 0 \in S
  <2> DEFINE iter == [s \in SUBSET D |-> base]
  <2>1. \A s \in SUBSET D : s = {} \/ Cardinality(s) > 0
    BY <1>1, FS_EmptySet
  <2>2. Upto(0, iter)
    BY <2>1
  <2> QED BY <2>2
<1>4. ASSUME NEW k \in Nat, k \in S PROVE k + 1 \in S
  <2>1. PICK g : Upto(k, g)
    BY <1>4
  <2> DEFINE h == [s \in SUBSET D |->
                     IF Cardinality(s) > k + 1 THEN base
                     ELSE IF s = {} THEN base
                     ELSE Step(fold, g[s \ {Max(s)}], seq[Max(s)])]
  <2>2. \A s \in SUBSET D : Cardinality(s) =< k => h[s] = g[s]
    <3> SUFFICES ASSUME NEW s \in SUBSET D, Cardinality(s) =< k
                 PROVE  h[s] = g[s]
      OBVIOUS
    <3>1. ~(Cardinality(s) > k) /\ ~(Cardinality(s) > k + 1)
      BY <1>1
    <3>2. g[s] = IF s = {} THEN base ELSE Step(fold, g[s \ {Max(s)}], seq[Max(s)])
      BY <2>1, <3>1, Zenon
    <3>3. h[s] = IF s = {} THEN base ELSE Step(fold, g[s \ {Max(s)}], seq[Max(s)])
      BY <3>1, Zenon
    <3> QED BY <3>2, <3>3, Zenon
  <2>3. \A s \in SUBSET D :
          s # {} /\ Cardinality(s) =< k + 1 => h[s \ {Max(s)}] = g[s \ {Max(s)}]
    <3> HIDE DEF h
    <3> SUFFICES ASSUME NEW s \in SUBSET D, s # {}, Cardinality(s) =< k + 1
                 PROVE  h[s \ {Max(s)}] = g[s \ {Max(s)}]
      OBVIOUS
    <3>1. Cardinality(s \ {Max(s)}) =< k /\ s \ {Max(s)} \in SUBSET D
      <4>1. /\ s \ {Max(s)} \in SUBSET D
            /\ Cardinality(s \ {Max(s)}) = Cardinality(s) - 1
        BY <1>2, Zenon
      <4>2. Cardinality(s) \in Nat
        BY <1>1, Zenon
      <4> HIDE DEF D
      <4> QED BY <4>1, <4>2
    <3> QED BY <2>2, <3>1
  <2>4. Upto(k + 1, h)
    <3>1. h = [s \in SUBSET D |->
                 IF Cardinality(s) > k + 1 THEN base
                 ELSE IF s = {} THEN base
                 ELSE Step(fold, g[s \ {Max(s)}], seq[Max(s)])]
      OBVIOUS
    <3> HIDE DEF h
    <3>2. ASSUME NEW s \in SUBSET D
          PROVE  (IF Cardinality(s) > k + 1 THEN base
                  ELSE IF s = {} THEN base
                  ELSE Step(fold, g[s \ {Max(s)}], seq[Max(s)]))
                 = (IF Cardinality(s) > k + 1 THEN base
                    ELSE IF s = {} THEN base
                    ELSE Step(fold, h[s \ {Max(s)}], seq[Max(s)]))
      <4>1. CASE Cardinality(s) > k + 1
        BY <4>1, Zenon
      <4>2. CASE s = {}
        BY <4>2, Zenon
      <4>3. CASE ~(Cardinality(s) > k + 1) /\ s # {}
        <5>1. Cardinality(s) =< k + 1
          BY <1>1, <4>3
        <5>2. h[s \ {Max(s)}] = g[s \ {Max(s)}]
          BY <2>3, <4>3, <5>1
        <5> QED BY <5>2, Zenon
      <4> QED BY <4>1, <4>2, <4>3, Zenon
    <3>3. h = [s \in SUBSET D |->
                 IF Cardinality(s) > k + 1 THEN base
                 ELSE IF s = {} THEN base
                 ELSE Step(fold, h[s \ {Max(s)}], seq[Max(s)])]
      <4> HIDE DEF D
      <4> QED BY <3>1, <3>2
    <3> HIDE DEF D
    <3> QED BY <3>3
  <2> HIDE DEF h, Upto
  <2>5. k + 1 \in Nat
    OBVIOUS
  <2> QED BY <2>4, <2>5
<1>5. n \in S
  <2> HIDE DEF S
  <2> QED BY <1>3, <1>4, Induction
<1>6. PICK iter : Upto(n, iter)
  BY <1>5
<1>7. \A s \in SUBSET D : ~(Cardinality(s) > n)
  BY <1>1
<1> QED BY <1>6, <1>7 DEF IsFold

LEMMA SizesFoldExists ==
  ASSUME NEW blocks, NEW n \in Nat, DOMAIN blocks = 1 .. n
  PROVE  \E iter : SizesFold(blocks, iter)
<1>1. PICK iter : IsFold("size", 0, blocks, iter)
  BY FoldExists
<1>2. SizesFold(blocks, iter)
  BY <1>1 DEF IsFold, SizesFold, Step
<1> QED BY <1>2

LEMMA LinksFoldExists ==
  ASSUME NEW packets, NEW n \in Nat, DOMAIN packets = 1 .. n
  PROVE  \E iter : LinksFold(packets, iter)
<1>1. PICK iter : IsFold("links", <<>>, packets, iter)
  BY FoldExists
<1>2. LinksFold(packets, iter)
  BY <1>1 DEF IsFold, LinksFold, Step
<1> QED BY <1>2

LEMMA TotalUnfolds ==
  ASSUME NEW blocks, NEW n \in Nat, DOMAIN blocks = 1 .. n
  PROVE  \E iter : /\ Total(blocks) = iter[1 .. n]
                   /\ iter[1 .. 0] = 0
                   /\ \A k \in 0 .. n - 1 :
                        iter[1 .. k + 1] = iter[1 .. k] + Size(blocks[k + 1])
<1> DEFINE iter == CHOOSE iter : SizesFold(blocks, iter)
<1>1. Total(blocks) = iter[DOMAIN blocks]
  BY Zenon DEF Total, FoldLeft, MapThenFoldSet, SizesFold
<1>2. SizesFold(blocks, iter)
  BY SizesFoldExists
<1> HIDE DEF iter
<1>3. iter[1 .. 0] = 0
  BY <1>2 DEF SizesFold
<1>4. ASSUME NEW k \in 0 .. n - 1
      PROVE  iter[1 .. k + 1] = iter[1 .. k] + Size(blocks[k + 1])
  <2>1. 1 .. k + 1 \in SUBSET DOMAIN blocks /\ 1 .. k + 1 # {}
    <3>1. 1 .. k + 1 \subseteq 1 .. n /\ 1 \in 1 .. k + 1
      OBVIOUS
    <3> QED BY <3>1, Zenon
  <2>2. Max(1 .. k + 1) = k + 1
    BY MaxOfInterval
  <2>3. (1 .. k + 1) \ {k + 1} = 1 .. k
    OBVIOUS
  <2> QED BY <1>2, <2>1, <2>2, <2>3 DEF SizesFold
<1> QED BY <1>1, <1>3, <1>4

(* The total of a prefix and the block behind it.                            *)
LEMMA TotalOfPrefix ==
  ASSUME NEW blocks, NEW n \in Nat, DOMAIN blocks = 1 .. n,
         NEW k \in 0 .. n - 1,
         NEW a, DOMAIN a = 1 .. k, \A i \in 1 .. k : a[i] = blocks[i],
         NEW b, DOMAIN b = 1 .. k + 1, \A i \in 1 .. k + 1 : b[i] = blocks[i]
  PROVE  Total(b) = Total(a) + Size(blocks[k + 1])
<1>1. PICK f : /\ Total(a) = f[1 .. k]
               /\ f[1 .. 0] = 0
               /\ \A i \in 0 .. k - 1 : f[1 .. i + 1] = f[1 .. i] + Size(a[i + 1])
  <2>1. k \in Nat
    OBVIOUS
  <2> QED BY <2>1, TotalUnfolds
<1>2. PICK g : /\ Total(b) = g[1 .. k + 1]
               /\ g[1 .. 0] = 0
               /\ \A i \in 0 .. (k + 1) - 1 : g[1 .. i + 1] = g[1 .. i] + Size(b[i + 1])
  <2>1. k + 1 \in Nat
    OBVIOUS
  <2> QED BY <2>1, TotalUnfolds
<1> DEFINE S == {i \in Nat : i =< k => f[1 .. i] = g[1 .. i]}
<1>3. 0 \in S
  BY <1>1, <1>2
<1>4. ASSUME NEW i \in Nat, i \in S PROVE i + 1 \in S
  <2> SUFFICES ASSUME i + 1 =< k PROVE f[1 .. i + 1] = g[1 .. i + 1]
    OBVIOUS
  <2>1. f[1 .. i + 1] = f[1 .. i] + Size(a[i + 1])
    BY <1>1
  <2>2. g[1 .. i + 1] = g[1 .. i] + Size(b[i + 1])
    BY <1>2
  <2>3. a[i + 1] = b[i + 1]
    OBVIOUS
  <2>4. f[1 .. i] = g[1 .. i]
    BY <1>4
  <2> QED BY <2>1, <2>2, <2>3, <2>4, Zenon
<1>5. k \in S
  <2> HIDE DEF S
  <2> QED BY <1>3, <1>4, Induction
<1>6. g[1 .. k + 1] = g[1 .. k] + Size(b[k + 1])
  BY <1>2
<1>7. f[1 .. k] = g[1 .. k]
  BY <1>5
<1>8. b[k + 1] = blocks[k + 1]
  OBVIOUS
<1> QED BY <1>1, <1>2, <1>6, <1>7, <1>8, Zenon

----------------------------------------------------------------------------
(* Division.                                                                 *)
LEMMA Division ==
  ASSUME NEW x \in Int, NEW d \in Nat \ {0}
  PROVE  /\ x \div d \in Int
         /\ x % d \in 0 .. d - 1
         /\ x = ((x \div d) * d) + (x % d)
OBVIOUS

LEMMA DivisionIsUnique ==
  ASSUME NEW d \in Nat \ {0}, NEW a \in Int, NEW b \in Int,
         NEW r \in 0 .. d - 1, NEW s \in 0 .. d - 1,
         (a * d) + r = (b * d) + s
  PROVE  a = b /\ r = s
<1>1. (a - b) * d = s - r
  OBVIOUS
<1>2. CASE a - b >= 1
  <2>1. (a - b) * d >= d
    BY <1>2
  <2> QED BY <1>1, <2>1
<1>3. CASE a - b =< -1
  <2>1. (a - b) * d =< -d
    BY <1>3
  <2> QED BY <1>1, <2>1
<1> QED BY <1>1, <1>2, <1>3

LEMMA QuotientIs ==
  ASSUME NEW d \in Nat \ {0}, NEW a \in Int, NEW r \in 0 .. d - 1,
         NEW x \in Int, x = (a * d) + r
  PROVE  x \div d = a /\ x % d = r
BY Division, DivisionIsUnique

LEMMA QuotientOfMultiple ==
  ASSUME NEW d \in Nat \ {0}, NEW a \in Int
  PROVE  (a * d) \div d = a /\ (a * d) % d = 0
<1>1. a * d \in Int /\ a * d = (a * d) + 0 /\ 0 \in 0 .. d - 1
  OBVIOUS
<1> QED BY <1>1, QuotientIs

(* Multiples of the divisor come out of a division.                          *)
LEMMA QuotientOfShifted ==
  ASSUME NEW d \in Nat \ {0}, NEW x \in Int, NEW m \in Int
  PROVE  /\ (x - (m * d)) \div d = (x \div d) - m
         /\ (x - (m * d)) % d = x % d
<1> DEFINE q == x \div d
           r == x % d
<1>1. q \in Int /\ r \in 0 .. d - 1 /\ x = (q * d) + r
  BY Division
<1> HIDE DEF q, r
<1>2. x - (m * d) = ((q - m) * d) + r
  BY <1>1
<1>3. x - (m * d) \in Int /\ q - m \in Int
  BY <1>1
<1>4. (x - (m * d)) \div d = q - m /\ (x - (m * d)) % d = r
  BY <1>1, <1>2, <1>3, QuotientIs
<1> QED BY <1>4 DEF q, r

LEMMA Parity ==
  ASSUME NEW q \in Int, NEW m \in Int, m % 2 = 0
  PROVE  ((q - m) % 2 = 0) <=> (q % 2 = 0)
OBVIOUS

(* The two fields of a time hold it modulo the square of what one holds.     *)
LEMMA TwoFields ==
  ASSUME NEW n \in Int, NEW w \in Nat \ {0}
  PROVE  (((n \div w) % w) * w) + (n % w) = n % (w * w)
<1> DEFINE q == n \div w
           r == n % w
           a == q \div w
           b == q % w
<1>1. q \in Int /\ r \in 0 .. w - 1 /\ n = (q * w) + r
  BY Division
<1>2. a \in Int /\ b \in 0 .. w - 1 /\ q = (a * w) + b
  BY <1>1, Division
<1> HIDE DEF q, r, a, b
<1>3. n = (a * (w * w)) + ((b * w) + r)
  BY <1>1, <1>2
<1>4. w * w \in Nat \ {0}
  OBVIOUS
<1>5. (b * w) + r \in 0 .. (w * w) - 1
  <2>1. b * w \in Nat /\ b * w =< (w - 1) * w
    BY <1>2
  <2> QED BY <1>1, <2>1
<1>6. n % (w * w) = (b * w) + r
  <2>1. PICK ww \in Nat \ {0} : ww = w * w
    BY <1>4
  <2>2. PICK low \in 0 .. ww - 1 : low = (b * w) + r
    BY <1>5, <2>1
  <2>3. n = (a * ww) + low
    BY <1>3, <2>1, <2>2
  <2>4. n % ww = low
    BY <1>2, <2>3, QuotientIs
  <2> QED BY <2>1, <2>2, <2>4
<1> QED BY <1>6 DEF q, r, a, b

LEMMA PerSecondIs ==
  /\ PerMicro \in Nat \ {0} /\ MicroPerSecond \in Nat \ {0}
  /\ PerSecond \in Nat \ {0}
  /\ PerSecond = MicroPerSecond * PerMicro
  /\ Word \in Nat \ {0} /\ Word * Word \in Nat \ {0}
  /\ MicroPerSecond =< Word
  /\ PerSecond \div MicroPerSecond = PerMicro
  /\ PerSecond \div PerSecond = 1
<1>1. PerMicro \in Nat \ {0} /\ MicroPerSecond \in Nat \ {0}
      /\ Word \in Nat \ {0} /\ MicroPerSecond =< Word
  BY CaptureFilesAssumption
<1>2. PerSecond = PerMicro * MicroPerSecond /\ PerSecond = 1 * PerSecond
      /\ PerSecond = MicroPerSecond * PerMicro
      /\ PerSecond \in Nat \ {0} /\ Word * Word \in Nat \ {0}
  BY <1>1 DEF PerSecond
<1>3. (PerMicro * MicroPerSecond) \div MicroPerSecond = PerMicro
  BY <1>1, QuotientOfMultiple
<1>4. (1 * PerSecond) \div PerSecond = 1
  BY <1>2, QuotientOfMultiple
<1> QED BY <1>1, <1>2, <1>3, <1>4

(* Rounding.                                                                 *)
LEMMA RoundHalfEvenIs ==
  ASSUME NEW x \in Int, NEW d \in Nat \ {0}
  PROVE  /\ RoundHalfEven(x, d) \in {x \div d, (x \div d) + 1}
         /\ RoundHalfEven(x, d) \in Int
         /\ RoundHalfEven(x, d) =
              CHOOSE n \in {x \div d, (x \div d) + 1} :
                /\ n = x \div d => 2 * (x - ((x \div d) * d)) =< d
                /\ n # x \div d => 2 * (x - ((x \div d) * d)) >= d
                /\ 2 * (x - ((x \div d) * d)) = d => n % 2 = 0
<1> DEFINE q == x \div d
           r == x % d
           round == RoundHalfEven(x, d)
           Near(n) == /\ n = q => 2 * (x - (q * d)) =< d
                      /\ n # q => 2 * (x - (q * d)) >= d
                      /\ 2 * (x - (q * d)) = d => n % 2 = 0
<1>1. q \in Int /\ r \in 0 .. d - 1 /\ r = x - (q * d)
  BY Division
<1>2. round = IF 2 * r < d \/ (2 * r = d /\ q % 2 = 0) THEN q ELSE q + 1
  BY DEF RoundHalfEven
<1> HIDE DEF q, r, round
<1>3. round \in {q, q + 1} /\ Near(round)
  BY <1>1, <1>2
<1>4. \A n \in {q, q + 1} : Near(n) => n = round
  BY <1>1, <1>2
<1> HIDE DEF Near
<1>5. round = CHOOSE n \in {q, q + 1} : Near(n)
  BY <1>3, <1>4
<1>6. round \in Int
  BY <1>1, <1>3
<1> QED BY <1>3, <1>5, <1>6 DEF q, round, Near

LEMMA RoundedIs ==
  ASSUME NEW p \in PacketType
  PROVE  /\ RoundHalfEven(p.time, PerMicro) \in Int
         /\ Rounded(p) = [p EXCEPT !.time =
              (RoundHalfEven(p.time, PerMicro) % (Word * Word)) * PerMicro]
<1>1. p.time \in Int
  BY DEF PacketType
<1> QED BY <1>1, PerSecondIs, RoundHalfEvenIs DEF Rounded

LEMMA RoundHalfEvenShifted ==
  ASSUME NEW x \in Int, NEW d \in Nat \ {0}, NEW m \in Int, m % 2 = 0
  PROVE  RoundHalfEven(x - (m * d), d) = RoundHalfEven(x, d) - m
<1>1. /\ (x - (m * d)) \div d = (x \div d) - m
      /\ (x - (m * d)) % d = x % d
  BY QuotientOfShifted
<1>2. x \div d \in Int /\ x % d \in Int
  BY Division
<1>3. (((x \div d) - m) % 2 = 0) <=> ((x \div d) % 2 = 0)
  BY <1>2, Parity
<1> DEFINE q == x \div d
           r == x % d
<1>4. RoundHalfEven(x, d) =
        IF 2 * r < d \/ (2 * r = d /\ q % 2 = 0) THEN q ELSE q + 1
  BY DEF RoundHalfEven
<1>5. RoundHalfEven(x - (m * d), d) =
        IF 2 * r < d \/ (2 * r = d /\ (q - m) % 2 = 0) THEN q - m ELSE (q - m) + 1
  BY <1>1, Zenon DEF RoundHalfEven
<1> HIDE DEF q, r
<1> QED BY <1>2, <1>3, <1>4, <1>5 DEF q, r

LEMMA RoundHalfEvenExact ==
  ASSUME NEW x \in Int
  PROVE  RoundHalfEven(x, 1) = x
<1>1. x \div 1 = x /\ x % 1 = 0
  OBVIOUS
<1> QED BY <1>1 DEF RoundHalfEven

(* What a file with this resolution keeps of a packet.                       *)
Kept(resolution, p) == IF resolution = MicroPerSecond THEN Rounded(p) ELSE p

Resolution == {MicroPerSecond, PerSecond}

(* Where a microsecond is a unit, nothing is rounded.                        *)
LEMMA RoundedExact ==
  ASSUME NEW p \in PacketType, p.time \in 0 .. (Word * Word) - 1,
         PerSecond = MicroPerSecond
  PROVE  Rounded(p) = p
<1>1. PerMicro = 1
  <2>1. PerMicro * MicroPerSecond = MicroPerSecond
    BY PerSecondIs
  <2>2. CASE PerMicro >= 2
    <3>1. PerMicro * MicroPerSecond >= 2 * MicroPerSecond
      BY <2>2, PerSecondIs
    <3> QED BY <2>1, <3>1, PerSecondIs
  <2> QED BY <2>2, PerSecondIs
<1>2. RoundHalfEven(p.time, PerMicro) = p.time
  BY <1>1, RoundHalfEvenExact
<1>3. p.time % (Word * Word) = p.time
  <2>1. PICK ww \in Nat \ {0} : ww = Word * Word
    BY PerSecondIs
  <2>2. p.time \in 0 .. ww - 1 /\ p.time = (0 * ww) + p.time
    BY <2>1
  <2>3. p.time % ww = p.time
    BY <2>2, QuotientIs
  <2> QED BY <2>1, <2>3
<1>4. Rounded(p) = [p EXCEPT !.time = p.time]
  <2>1. p.time * PerMicro = p.time
    BY <1>1
  <2> QED BY <1>2, <1>3, <2>1, RoundedIs
<1> QED BY <1>4 DEF PacketType

LEMMA WholeSecondsIs ==
  ASSUME NEW t \in Int
  PROVE  WholeSeconds(t) \in Int
<1>1. -t \in Int /\ PerSecond \in Nat \ {0}
  BY PerSecondIs
<1>2. t \div PerSecond \in Int /\ (-t) \div PerSecond \in Int
  BY <1>1, Division
<1> QED BY <1>2 DEF WholeSeconds

(* The two fields of a classic record hold the microsecond nearest to the    *)
(* time, whenever they hold it at all.                                       *)
LEMMA SplitTimestamp ==
  ASSUME NEW t \in Int, FitsPcap(_split_timestamp(t))
  PROVE  LET ts == _split_timestamp(t)
             n  == RoundHalfEven(t, PerMicro)
         IN  /\ ts.sec \in Nat /\ ts.usec \in Nat
             /\ n = (ts.sec * MicroPerSecond) + ts.usec
             /\ n \in 0 .. (Word * Word) - 1
<1> DEFINE sec  == WholeSeconds(t)
           m    == sec * MicroPerSecond
           usec == RoundHalfEven(t - (sec * PerSecond), PerMicro)
           ts   == _split_timestamp(t)
           n    == RoundHalfEven(t, PerMicro)
<1>1. sec \in Int /\ m \in Int
  BY WholeSecondsIs, PerSecondIs
<1>2. m % 2 = 0
  <2>1. PICK k \in Int : MicroPerSecond = 2 * k
    <3>1. MicroPerSecond % 2 = 0
      BY CaptureFilesAssumption
    <3> QED BY <3>1, PerSecondIs
  <2>2. m = 2 * (sec * k) /\ sec * k \in Int
    BY <1>1, <2>1
  <2> QED BY <2>2
<1>3. sec * PerSecond = m * PerMicro
  BY <1>1, PerSecondIs
<1>4. usec = n - m /\ n \in Int
  <2>1. PerMicro \in Nat \ {0}
    BY PerSecondIs
  <2>2. RoundHalfEven(t - (m * PerMicro), PerMicro) = RoundHalfEven(t, PerMicro) - m
    BY <1>1, <1>2, <2>1, RoundHalfEvenShifted
  <2>3. RoundHalfEven(t, PerMicro) \in Int
    BY <2>1, RoundHalfEvenIs
  <2> QED BY <1>3, <2>2, <2>3, Zenon
<1>5. \/ ts.sec = sec /\ ts.usec = usec
      \/ ts.sec = sec + 1 /\ ts.usec = usec - MicroPerSecond
  BY DEF _split_timestamp
<1>6. ts.sec \in 0 .. Word - 1 /\ ts.usec \in 0 .. Word - 1
  BY DEF FitsPcap
<1>7. usec >= MicroPerSecond => ts.sec = sec + 1 /\ ts.usec = usec - MicroPerSecond
  BY DEF _split_timestamp
<1> HIDE DEF ts, usec, n, sec
<1>8. n = (ts.sec * MicroPerSecond) + ts.usec
  <2>1. (sec + 1) * MicroPerSecond = m + MicroPerSecond
    BY <1>1, PerSecondIs
  <2> QED BY <1>1, <1>4, <1>5, <2>1, PerSecondIs
<1>9. n \in 0 .. (Word * Word) - 1
  <2>1. ts.sec * MicroPerSecond >= 0
        /\ ts.sec * MicroPerSecond =< (Word - 1) * Word
    <3>1. ts.sec * MicroPerSecond =< ts.sec * Word
      BY <1>6, PerSecondIs
    <3>2. ts.sec * Word =< (Word - 1) * Word
      BY <1>6, PerSecondIs
    <3>3. ts.sec * MicroPerSecond >= 0
      BY <1>6, PerSecondIs
    <3> QED BY <1>6, <3>1, <3>2, <3>3, PerSecondIs
  <2>2. (Word - 1) * Word = (Word * Word) - Word
    BY PerSecondIs
  <2> QED BY <1>4, <1>6, <1>8, <2>1, <2>2, PerSecondIs
<1> QED BY <1>6, <1>8, <1>9, PerSecondIs DEF ts, n

(* What the readers make of the fields: the time that the file keeps.        *)
LEMMA MicrosecondRecord ==
  ASSUME NEW p \in PacketType, FitsPcap(_split_timestamp(p.time))
  PROVE  LET ts == _split_timestamp(p.time) IN
         /\ ts.sec \in Nat /\ ts.usec \in Nat
         /\ (ts.sec * PerSecond) + (ts.usec * (PerSecond \div MicroPerSecond))
              = Kept(MicroPerSecond, p).time
<1> DEFINE ts == _split_timestamp(p.time)
           n  == RoundHalfEven(p.time, PerMicro)
<1>1. p.time \in Int
  BY DEF PacketType
<1>2. /\ ts.sec \in Nat /\ ts.usec \in Nat
      /\ n = (ts.sec * MicroPerSecond) + ts.usec
      /\ n \in 0 .. (Word * Word) - 1
  BY <1>1, SplitTimestamp
<1>3. Rounded(p).time = (n % (Word * Word)) * PerMicro
  BY RoundedIs DEF PacketType
<1> HIDE DEF ts, n
<1>4. n % (Word * Word) = n
  <2>1. PICK ww \in Nat \ {0} : ww = Word * Word
    BY PerSecondIs
  <2>2. n \in 0 .. ww - 1 /\ n = (0 * ww) + n
    BY <1>2, <2>1
  <2>3. n % ww = n
    BY <2>2, QuotientIs
  <2> QED BY <2>1, <2>3
<1>5. n * PerMicro = (ts.sec * PerSecond) + (ts.usec * PerMicro)
  BY <1>2, PerSecondIs
<1> QED BY <1>2, <1>3, <1>4, <1>5, PerSecondIs DEF Kept, ts

LEMMA UnitRecord ==
  ASSUME NEW p \in PacketType, p.time \in 0 .. (Word * Word) - 1
  PROVE  /\ p.time \div PerSecond \in Int /\ p.time % PerSecond \in Nat
         /\ ((p.time \div PerSecond) * PerSecond)
              + ((p.time % PerSecond) * (PerSecond \div PerSecond))
            = Kept(PerSecond, p).time
<1>1. p.time \in Int
  BY DEF PacketType
<1>2. /\ p.time \div PerSecond \in Int /\ p.time % PerSecond \in 0 .. PerSecond - 1
      /\ p.time = ((p.time \div PerSecond) * PerSecond) + (p.time % PerSecond)
  BY <1>1, PerSecondIs, Division
<1>3. (p.time % PerSecond) * (PerSecond \div PerSecond) = p.time % PerSecond
  BY <1>2, PerSecondIs
<1>4. Kept(PerSecond, p) = p
  BY RoundedExact DEF Kept
<1> QED BY <1>2, <1>3, <1>4, PerSecondIs

LEMMA Ticks ==
  ASSUME NEW p \in PacketType, NEW resolution \in Resolution,
         resolution # MicroPerSecond => p.time \in 0 .. (Word * Word) - 1
  PROVE  LET ticks == RoundHalfEven(p.time, PerSecond \div resolution)
             high  == (ticks \div Word) % Word
             low   == ticks % Word
         IN  /\ high \in Nat /\ low \in Nat
             /\ ((high * Word) + low) * (PerSecond \div resolution)
                  = Kept(resolution, p).time
<1> DEFINE d     == PerSecond \div resolution
           ticks == RoundHalfEven(p.time, d)
           high  == (ticks \div Word) % Word
           low   == ticks % Word
<1>1. p.time \in Int
  BY DEF PacketType
<1>2. d \in Nat \ {0}
  BY PerSecondIs DEF Resolution
<1>3. ticks \in Int
  BY <1>1, <1>2, RoundHalfEvenIs
<1>4. high \in Nat /\ low \in Nat
  <2> HIDE DEF ticks
  <2>1. ticks \div Word \in Int
    BY <1>3, PerSecondIs, Division
  <2> QED BY <1>3, <2>1, PerSecondIs, Division
<1>5. (high * Word) + low = ticks % (Word * Word)
  <2> HIDE DEF ticks
  <2> QED BY <1>3, PerSecondIs, TwoFields
<1>6. (ticks % (Word * Word)) * d = Kept(resolution, p).time
  <2>1. CASE resolution = MicroPerSecond
    <3>1. d = PerMicro
      BY <2>1, PerSecondIs
    <3>2. Rounded(p).time = (RoundHalfEven(p.time, PerMicro) % (Word * Word)) * PerMicro
      BY RoundedIs DEF PacketType
    <3> HIDE DEF d
    <3> QED BY <2>1, <3>1, <3>2 DEF Kept
  <2>2. CASE resolution # MicroPerSecond
    <3>1. d = 1
      BY <2>2, PerSecondIs DEF Resolution
    <3>2. ticks = p.time
      BY <1>1, <3>1, RoundHalfEvenExact
    <3>3. p.time % (Word * Word) = p.time
      <4>1. PICK ww \in Nat \ {0} : ww = Word * Word
        BY PerSecondIs
      <4>2. p.time \in 0 .. ww - 1 /\ p.time = (0 * ww) + p.time
        BY <2>2, <4>1
      <4>3. p.time % ww = p.time
        BY <4>2, QuotientIs
      <4> QED BY <4>1, <4>3
    <3> HIDE DEF d, ticks
    <3> QED BY <1>1, <2>2, <3>1, <3>2, <3>3 DEF Kept
  <2> QED BY <2>1, <2>2
<1> HIDE DEF ticks, d, high, low
<1> QED BY <1>4, <1>5, <1>6 DEF ticks, d, high, low

----------------------------------------------------------------------------
(* Where blocks start: the first at 0, each at the end of the one before.    *)
Sized(blocks) ==
  /\ Len(blocks) \in Nat
  /\ DOMAIN blocks = 1 .. Len(blocks)
  /\ \A k \in 1 .. Len(blocks) : Size(blocks[k]) \in Nat /\ Size(blocks[k]) >= 12

(* The blocks before the one at k + 1, as SubSeq gives them.                 *)
LEMMA BlocksBefore ==
  ASSUME NEW blocks, NEW n \in Nat, Len(blocks) = n, NEW k \in 0 .. n
  PROVE  /\ DOMAIN SubSeq(blocks, 1, k) = 1 .. k
         /\ \A i \in 1 .. k : SubSeq(blocks, 1, k)[i] = blocks[i]
OBVIOUS

LEMMA StartOfFirst ==
  ASSUME NEW blocks, NEW n \in Nat, Len(blocks) = n
  PROVE  StartOf(blocks, 1) = 0
<1>1. SubSeq(blocks, 1, 0) = SubSeq(blocks, 1, 1 - 1)
  OBVIOUS
<1>2. DOMAIN SubSeq(blocks, 1, 0) = 1 .. 0
  BY BlocksBefore
<1>3. PICK f : Total(SubSeq(blocks, 1, 0)) = f[1 .. 0] /\ f[1 .. 0] = 0
  BY <1>2, TotalUnfolds
<1> QED BY <1>1, <1>3 DEF StartOf, Total

LEMMA StartOfNext ==
  ASSUME NEW blocks, NEW n \in Nat, Len(blocks) = n, DOMAIN blocks = 1 .. n,
         NEW k \in 1 .. n
  PROVE  StartOf(blocks, k + 1) = StartOf(blocks, k) + Size(blocks[k])
<1>1. k - 1 \in 0 .. n - 1 /\ k - 1 \in 0 .. n /\ k \in 0 .. n
      /\ (k - 1) + 1 = k /\ (k + 1) - 1 = k
  OBVIOUS
<1>2. /\ DOMAIN SubSeq(blocks, 1, k - 1) = 1 .. k - 1
      /\ \A i \in 1 .. k - 1 : SubSeq(blocks, 1, k - 1)[i] = blocks[i]
  BY <1>1, BlocksBefore
<1>3. /\ DOMAIN SubSeq(blocks, 1, k) = 1 .. k
      /\ \A i \in 1 .. k : SubSeq(blocks, 1, k)[i] = blocks[i]
  BY <1>1, BlocksBefore
<1>4. \A a, b, j :
        /\ j \in 0 .. n - 1
        /\ DOMAIN a = 1 .. j /\ (\A i \in 1 .. j : a[i] = blocks[i])
        /\ DOMAIN b = 1 .. j + 1 /\ (\A i \in 1 .. j + 1 : b[i] = blocks[i])
        => Total(b) = Total(a) + Size(blocks[j + 1])
  BY TotalOfPrefix
<1>5. Total(SubSeq(blocks, 1, k)) = Total(SubSeq(blocks, 1, k - 1)) + Size(blocks[k])
  <2> DEFINE a == SubSeq(blocks, 1, k - 1)
             b == SubSeq(blocks, 1, k)
  <2>1. PICK j \in 0 .. n - 1 : j = k - 1 /\ j + 1 = k
    BY <1>1
  <2>2. DOMAIN a = 1 .. j /\ \A i \in 1 .. j : a[i] = blocks[i]
    BY <1>2, <2>1, Zenon
  <2>3. DOMAIN b = 1 .. j + 1 /\ \A i \in 1 .. j + 1 : b[i] = blocks[i]
    BY <1>3, <2>1, Zenon
  <2> HIDE DEF a, b
  <2>4. Total(b) = Total(a) + Size(blocks[j + 1])
    BY <1>4, <2>2, <2>3, Zenon
  <2> QED BY <2>1, <2>4, Zenon DEF a, b
<1> QED BY <1>1, <1>5, Zenon DEF StartOf, Total

(* Offsets are numbers, and grow by twelve at least from block to block.     *)
LEMMA StartOfType ==
  ASSUME NEW blocks, Sized(blocks), NEW k \in 1 .. Len(blocks) + 1
  PROVE  StartOf(blocks, k) \in Nat
<1> DEFINE n == Len(blocks)
           S == {i \in Nat : i =< n => StartOf(blocks, i + 1) \in Nat}
<1>1. 0 \in S
  BY StartOfFirst DEF Sized
<1>2. ASSUME NEW i \in Nat, i \in S PROVE i + 1 \in S
  <2> SUFFICES ASSUME i + 1 =< n PROVE StartOf(blocks, (i + 1) + 1) \in Nat
    OBVIOUS
  <2>1. i + 1 \in 1 .. n /\ n \in Nat /\ StartOf(blocks, i + 1) \in Nat
    BY <1>2 DEF Sized
  <2>2. StartOf(blocks, (i + 1) + 1) = StartOf(blocks, i + 1) + Size(blocks[i + 1])
    BY <2>1, StartOfNext DEF Sized
  <2>3. Size(blocks[i + 1]) \in Nat
    BY <2>1 DEF Sized
  <2> QED BY <2>1, <2>2, <2>3
<1>3. k - 1 \in Nat /\ k - 1 =< n /\ (k - 1) + 1 = k
  BY DEF Sized
<1>4. k - 1 \in S
  <2> HIDE DEF S
  <2> QED BY <1>1, <1>2, <1>3, Induction
<1> QED BY <1>3, <1>4

LEMMA StartOfGrows ==
  ASSUME NEW blocks, Sized(blocks),
         NEW j \in 1 .. Len(blocks) + 1, NEW k \in 1 .. Len(blocks) + 1, j < k
  PROVE  StartOf(blocks, j) + 12 =< StartOf(blocks, k)
<1> DEFINE n == Len(blocks)
           S == {i \in Nat : j < i /\ i =< n + 1 =>
                   StartOf(blocks, j) + 12 =< StartOf(blocks, i)}
<1>0. n \in Nat
  BY DEF Sized
<1>1. 0 \in S
  OBVIOUS
<1>2. ASSUME NEW i \in Nat, i \in S PROVE i + 1 \in S
  <2> SUFFICES ASSUME j < i + 1, i + 1 =< n + 1
               PROVE  StartOf(blocks, j) + 12 =< StartOf(blocks, i + 1)
    OBVIOUS
  <2>1. i \in 1 .. n /\ i \in 1 .. n + 1
    BY <1>0
  <2>2. StartOf(blocks, i + 1) = StartOf(blocks, i) + Size(blocks[i])
    BY <1>0, <2>1, StartOfNext DEF Sized
  <2>3. Size(blocks[i]) \in Nat /\ Size(blocks[i]) >= 12
    BY <2>1 DEF Sized
  <2>4. StartOf(blocks, i) \in Nat /\ StartOf(blocks, j) \in Nat
    BY <2>1, StartOfType
  <2>5. CASE j = i
    BY <2>2, <2>3, <2>4, <2>5
  <2>6. CASE j < i
    <3>1. StartOf(blocks, j) + 12 =< StartOf(blocks, i)
      BY <1>2, <2>1, <2>6
    <3> QED BY <2>2, <2>3, <2>4, <3>1
  <2> QED BY <2>5, <2>6, <2>1
<1>3. k \in S
  <2> HIDE DEF S
  <2>1. k \in Nat
    OBVIOUS
  <2> QED BY <1>1, <1>2, <2>1, Induction
<1> QED BY <1>0, <1>3

(* The block at an offset is the one that starts there.                      *)
LEMMA BlockAt ==
  ASSUME NEW blocks, Sized(blocks), NEW k \in 1 .. Len(blocks)
  PROVE  (CHOOSE i \in DOMAIN blocks : StartOf(blocks, i) = StartOf(blocks, k)) = k
<1>1. \A i \in 1 .. Len(blocks) : StartOf(blocks, i) = StartOf(blocks, k) => i = k
  <2> SUFFICES ASSUME NEW i \in 1 .. Len(blocks),
                      StartOf(blocks, i) = StartOf(blocks, k), i # k
               PROVE  FALSE
    OBVIOUS
  <2>1. i \in 1 .. Len(blocks) + 1 /\ k \in 1 .. Len(blocks) + 1
    BY DEF Sized
  <2>2. StartOf(blocks, i) \in Nat /\ StartOf(blocks, k) \in Nat
    BY <2>1, StartOfType
  <2>3. CASE i < k
    BY <2>1, <2>2, <2>3, StartOfGrows
  <2>4. CASE k < i
    BY <2>1, <2>2, <2>4, StartOfGrows
  <2> QED BY <2>1, <2>3, <2>4
<1> QED BY <1>1 DEF Sized

----------------------------------------------------------------------------
(* Interfaces(packets) is a sequence of link types, that of every packet     *)
(* among them.                                                               *)
LEMMA InterfacesType ==
  ASSUME NEW packets \in Seq(PacketType)
  PROVE  /\ Interfaces(packets) \in Seq(Nat)
         /\ \A i \in DOMAIN packets :
              \E j \in DOMAIN Interfaces(packets) :
                Interfaces(packets)[j] = packets[i].link
         /\ Interfaces(packets) = <<>> => packets = <<>>
<1> DEFINE n    == Len(packets)
           iter == CHOOSE iter : LinksFold(packets, iter)
           Holds(k) ==
             /\ iter[1 .. k] \in Seq(Nat)
             /\ \A i \in 1 .. k :
                  \E j \in 1 .. Len(iter[1 .. k]) : iter[1 .. k][j] = packets[i].link
           S == {k \in Nat : k =< n => Holds(k)}
<1>1. n \in Nat /\ DOMAIN packets = 1 .. n
  OBVIOUS
<1>2. Interfaces(packets) = iter[DOMAIN packets]
  BY Zenon DEF Interfaces, FoldLeft, MapThenFoldSet, LinksFold
<1>3. LinksFold(packets, iter)
  BY <1>1, LinksFoldExists
<1> HIDE DEF iter
<1>4. 0 \in S
  <2>1. iter[1 .. 0] = <<>>
    <3>1. 1 .. 0 = {} /\ 1 .. 0 \in SUBSET DOMAIN packets
      OBVIOUS
    <3>2. \A s \in SUBSET DOMAIN packets : s = {} => iter[s] = <<>>
      BY <1>3, Zenon DEF LinksFold
    <3> QED BY <3>1, <3>2, Zenon
  <2>2. Holds(0)
    <3>1. <<>> \in Seq(Nat) /\ ~\E i \in 1 .. 0 : TRUE
      OBVIOUS
    <3> QED BY <2>1, <3>1, Zenon
  <2> HIDE DEF Holds
  <2> QED BY <2>2
<1>5. ASSUME NEW k \in Nat, k \in S PROVE k + 1 \in S
  <2> SUFFICES ASSUME k + 1 =< n PROVE Holds(k + 1)
    OBVIOUS
  <2> DEFINE l == iter[1 .. k]
             m == iter[1 .. k + 1]
             x == packets[k + 1].link
  <2>1. l \in Seq(Nat) /\ \A i \in 1 .. k : \E j \in 1 .. Len(l) : l[j] = packets[i].link
    BY <1>5, <1>1
  <2>2. m = IF Contains(l, x) THEN l ELSE Append(l, x)
    <3>1. 1 .. k + 1 \in SUBSET DOMAIN packets /\ 1 .. k + 1 # {}
      <4>1. 1 .. k + 1 \subseteq 1 .. n /\ 1 \in 1 .. k + 1
        BY <1>1
      <4> QED BY <1>1, <4>1, Zenon
    <3>2. Max(1 .. k + 1) = k + 1
      BY MaxOfInterval
    <3>3. (1 .. k + 1) \ {k + 1} = 1 .. k
      OBVIOUS
    <3> QED BY <1>3, <3>1, <3>2, <3>3 DEF LinksFold
  <2>3. x \in Nat
    <3>1. packets[k + 1] \in PacketType
      BY <1>1
    <3> QED BY <3>1 DEF PacketType
  <2> HIDE DEF l, m, x
  <2>4. m \in Seq(Nat)
    BY <2>1, <2>2, <2>3
  <2>5. \A j \in 1 .. Len(l) : j \in 1 .. Len(m) /\ m[j] = l[j]
    BY <2>1, <2>2, <2>3
  <2>6. \E j \in 1 .. Len(m) : m[j] = x
    <3>1. CASE Contains(l, x)
      BY <2>2, <3>1 DEF Contains
    <3>2. CASE ~Contains(l, x)
      <4>1. Len(m) = Len(l) + 1 /\ m[Len(l) + 1] = x /\ Len(l) \in Nat
        BY <2>1, <2>2, <2>3, <3>2
      <4> QED BY <4>1
    <3> QED BY <3>1, <3>2
  <2>7. ASSUME NEW i \in 1 .. k + 1
        PROVE  \E j \in 1 .. Len(m) : m[j] = packets[i].link
    <3>1. CASE i = k + 1
      BY <2>6, <3>1 DEF x
    <3>2. CASE i # k + 1
      <4>1. i \in 1 .. k
        BY <3>2
      <4> QED BY <2>1, <2>5, <4>1
    <3> QED BY <3>1, <3>2
  <2> QED BY <2>4, <2>7 DEF m
<1>6. n \in S
  <2> HIDE DEF S
  <2> QED BY <1>1, <1>4, <1>5, Induction
<1>7. Holds(n)
  BY <1>1, <1>6
<1>8. Interfaces(packets) = iter[1 .. n]
  BY <1>1, <1>2
<1> QED BY <1>1, <1>7, <1>8

----------------------------------------------------------------------------
(* What a file holds.                                                        *)
HeaderBlock ==
  [kind: {"SHB"}]
    \cup [kind: {"GLOBAL", "IDB", "IDBRESOL"}, link: Nat, resolution: Resolution]

PacketBlock ==
  [kind: {"RECORD"}, sec: Int, frac: Int, captured: Nat, original: Nat,
   body: Seq(Nat)]
    \cup [kind: {"EPB"}, iface: Int, high: Nat, low: Nat, captured: Nat,
          original: Nat, body: Seq(Nat)]

Block == HeaderBlock \cup PacketBlock

LEMMA SizeOfBlock ==
  ASSUME NEW b \in Block
  PROVE  /\ Size(b) \in Nat /\ Size(b) >= 12
         /\ b.kind = "GLOBAL" => Size(b) = 24
         /\ b.kind = "SHB" => Size(b) = 28
         /\ b.kind = "RECORD" => Size(b) >= 16
<1>1. CASE b \in HeaderBlock
  BY <1>1 DEF HeaderBlock, Size, Overhead
<1>2. CASE b \in PacketBlock
  <2>1. Len(b.body) \in Nat /\ b.kind \in {"RECORD", "EPB"}
    BY <1>2 DEF PacketBlock
  <2> QED BY <2>1, SMTT(40) DEF Size, Overhead
<1> QED BY <1>1, <1>2 DEF Block

LEMMA BlocksSized ==
  ASSUME NEW blocks \in Seq(Block)
  PROVE  Sized(blocks)
<1>1. Len(blocks) \in Nat /\ DOMAIN blocks = 1 .. Len(blocks)
  OBVIOUS
<1>2. ASSUME NEW k \in 1 .. Len(blocks)
      PROVE  Size(blocks[k]) \in Nat /\ Size(blocks[k]) >= 12
  <2>1. blocks[k] \in Block
    OBVIOUS
  <2> QED BY <2>1, SizeOfBlock
<1> QED BY <1>1, <1>2 DEF Sized

LEMMA ConcatenationOfBlocks ==
  ASSUME NEW s \in Seq(Block), NEW t \in Seq(Block)
  PROVE  /\ s \o t \in Seq(Block)
         /\ Len(s \o t) = Len(s) + Len(t)
         /\ \A i \in 1 .. Len(s) : (s \o t)[i] = s[i]
         /\ \A i \in 1 .. Len(t) : (s \o t)[Len(s) + i] = t[i]
OBVIOUS

LEMMA BlocksOf ==
  ASSUME NEW m \in Nat, NEW s \in [1 .. m -> Block]
  PROVE  s \in Seq(Block) /\ Len(s) = m
OBVIOUS

(* What the readers take from a packet's block.                              *)
Carries(b, p) ==
  /\ SubSeq(b.body, 1, b.captured) = p.data
  /\ b.original = p.original

PcapHolds(blocks, packets, link, resolution) ==
  /\ blocks \in Seq(Block)
  /\ Len(blocks) = 1 + Len(packets)
  /\ blocks[1] = [kind |-> "GLOBAL", link |-> link, resolution |-> resolution]
  /\ \A i \in 1 .. Len(packets) :
       /\ blocks[1 + i].kind = "RECORD"
       /\ packets[i].link = link
       /\ Carries(blocks[1 + i], packets[i])
       /\ (blocks[1 + i].sec * PerSecond)
            + (blocks[1 + i].frac * (PerSecond \div resolution))
          = Kept(resolution, packets[i]).time

PcapngHolds(blocks, packets, links, resolution) ==
  /\ blocks \in Seq(Block)
  /\ Len(blocks) = (1 + Len(links)) + Len(packets)
  /\ blocks[1] = [kind |-> "SHB"]
  /\ \A i \in 1 .. Len(links) :
       /\ blocks[1 + i].kind \in {"IDB", "IDBRESOL"}
       /\ blocks[1 + i].link = links[i]
       /\ blocks[1 + i].resolution = resolution
  /\ packets # <<>> => links # <<>>
  /\ \A i \in 1 .. Len(packets) :
       LET b == blocks[(1 + Len(links)) + i] IN
       /\ b.kind = "EPB"
       /\ b.iface + 1 \in 1 .. Len(links)
       /\ links[b.iface + 1] = packets[i].link
       /\ Carries(b, packets[i])
       /\ ((b.high * Word) + b.low) * (PerSecond \div resolution)
          = Kept(resolution, packets[i]).time

LEMMA PcapFileHolds ==
  ASSUME NEW packets \in Seq(PacketType), NEW link \in Nat,
         NEW resolution \in Resolution,
         NEW sec \in [1 .. Len(packets) -> Int],
         NEW frac \in [1 .. Len(packets) -> Int],
         \A i \in 1 .. Len(packets) :
           /\ packets[i].link = link
           /\ (sec[i] * PerSecond) + (frac[i] * (PerSecond \div resolution))
              = Kept(resolution, packets[i]).time,
         NEW records,
         records = [i \in DOMAIN packets |-> Record(packets[i], sec[i], frac[i])]
  PROVE  /\ PcapHolds(PcapFile(resolution, link, records).blocks, packets,
                      link, resolution)
         /\ PcapFile(resolution, link, records).format = "pcap"
<1> DEFINE n      == Len(packets)
           global == <<[kind |-> "GLOBAL", link |-> link, resolution |-> resolution]>>
           blocks == PcapFile(resolution, link, records).blocks
<1>1. n \in Nat /\ DOMAIN packets = 1 .. n
      /\ \A i \in 1 .. n : packets[i] \in PacketType
  OBVIOUS
<1>2. ASSUME NEW i \in 1 .. n
      PROVE  /\ records[i] \in Block
             /\ records[i].kind = "RECORD"
             /\ records[i].sec = sec[i] /\ records[i].frac = frac[i]
             /\ Carries(records[i], packets[i])
  <2>1. records[i] = Record(packets[i], sec[i], frac[i])
    BY <1>1
  <2>2. /\ packets[i].data \in Seq(Nat) /\ packets[i].original \in Nat
        /\ Len(packets[i].data) \in Nat
        /\ SubSeq(packets[i].data, 1, Len(packets[i].data)) = packets[i].data
    BY <1>1 DEF PacketType
  <2>3. sec[i] \in Int /\ frac[i] \in Int
    OBVIOUS
  <2>4. records[i] \in PacketBlock
    BY <2>1, <2>2, <2>3 DEF PacketBlock, Record
  <2> QED BY <2>1, <2>2, <2>4 DEF Record, Carries, Block
<1>3. records \in [1 .. n -> Block]
  BY <1>1, <1>2
<1>4. global \in [1 .. 1 -> Block]
  BY DEF Block, HeaderBlock
<1>5. blocks = global \o records
  BY DEF PcapFile
<1> HIDE DEF global, blocks
<1>6. /\ blocks \in Seq(Block) /\ Len(blocks) = 1 + n
      /\ blocks[1] = global[1]
      /\ \A i \in 1 .. n : blocks[1 + i] = records[i]
  <2>1. 1 \in Nat /\ 1 \in 1 .. 1
    OBVIOUS
  <2>2. /\ global \in Seq(Block) /\ Len(global) = 1
        /\ records \in Seq(Block) /\ Len(records) = n
    BY <1>1, <1>3, <1>4, <2>1, BlocksOf
  <2> HIDE DEF n
  <2>3. /\ global \o records \in Seq(Block) /\ Len(global \o records) = 1 + n
        /\ \A i \in 1 .. 1 : (global \o records)[i] = global[i]
        /\ \A i \in 1 .. n : (global \o records)[1 + i] = records[i]
    <3>1. /\ global \o records \in Seq(Block)
          /\ Len(global \o records) = Len(global) + Len(records)
          /\ \A i \in 1 .. Len(global) : (global \o records)[i] = global[i]
          /\ \A i \in 1 .. Len(records) : (global \o records)[Len(global) + i] = records[i]
      BY <2>2, ConcatenationOfBlocks
    <3> QED BY <2>2, <3>1
  <2> QED BY <1>5, <2>1, <2>3
<1>7. PcapHolds(blocks, packets, link, resolution)
  BY <1>1, <1>2, <1>6 DEF PcapHolds, global
<1> QED BY <1>7 DEF blocks, PcapFile

LEMMA PcapngFileHolds ==
  ASSUME NEW packets \in Seq(PacketType), NEW kind \in {"IDB", "IDBRESOL"},
         NEW resolution \in Resolution,
         resolution # MicroPerSecond =>
           \A i \in 1 .. Len(packets) : packets[i].time \in 0 .. (Word * Word) - 1
  PROVE  LET f == PcapngFile(kind, resolution, packets) IN
         /\ \E links \in Seq(Nat) : PcapngHolds(f.blocks, packets, links, resolution)
         /\ f.format = "pcapng"
<1> DEFINE n     == Len(packets)
           links == Interfaces(packets)
           l     == Len(links)
           ticks(t) == RoundHalfEven(t, PerSecond \div resolution)
           shb   == <<[kind |-> "SHB"]>>
           idbs  == [i \in DOMAIN links |->
                       [kind |-> kind, link |-> links[i], resolution |-> resolution]]
           epbs  == [i \in DOMAIN packets |->
                       _build_epb(links, packets[i], ticks(packets[i].time))]
           blocks == PcapngFile(kind, resolution, packets).blocks
<1>1. n \in Nat /\ DOMAIN packets = 1 .. n
      /\ \A i \in 1 .. n : packets[i] \in PacketType
  OBVIOUS
<1>2. /\ links \in Seq(Nat) /\ l \in Nat /\ DOMAIN links = 1 .. l
      /\ \A i \in 1 .. n : \E j \in 1 .. l : links[j] = packets[i].link
      /\ packets # <<>> => links # <<>>
  <2>1. links \in Seq(Nat)
    BY InterfacesType
  <2>2. l \in Nat /\ DOMAIN links = 1 .. l
    BY <2>1
  <2> QED BY <1>1, <2>1, <2>2, InterfacesType
<1>3. blocks = (shb \o idbs) \o epbs
  BY DEF PcapngFile
<1> HIDE DEF links, blocks
<1>4. shb \in [1 .. 1 -> Block] /\ shb[1] = [kind |-> "SHB"]
  BY DEF Block, HeaderBlock
<1>5. /\ idbs \in [1 .. l -> Block]
      /\ \A i \in 1 .. l :
           idbs[i] = [kind |-> kind, link |-> links[i], resolution |-> resolution]
  BY <1>2 DEF Block, HeaderBlock
<1>6. ASSUME NEW i \in 1 .. n
      PROVE  /\ epbs[i] \in Block
             /\ epbs[i].kind = "EPB"
             /\ epbs[i].iface + 1 \in 1 .. l
             /\ links[epbs[i].iface + 1] = packets[i].link
             /\ Carries(epbs[i], packets[i])
             /\ ((epbs[i].high * Word) + epbs[i].low) * (PerSecond \div resolution)
                = Kept(resolution, packets[i]).time
  <2> DEFINE p == packets[i]
             t == ticks(p.time)
             j == CHOOSE j \in DOMAIN links : links[j] = p.link
             b == epbs[i]
  <2>1. p \in PacketType
    BY <1>1
  <2>2. j \in 1 .. l /\ links[j] = p.link
    BY <1>2
  <2>3. b = _build_epb(links, p, t)
    BY <1>1
  <2>4. /\ (t \div Word) % Word \in Nat /\ t % Word \in Nat
        /\ ((((t \div Word) % Word) * Word) + (t % Word)) * (PerSecond \div resolution)
             = Kept(resolution, p).time
    BY <2>1, Ticks
  <2> HIDE DEF t, j, p
  <2>5. p.data \in Seq(Nat) /\ p.original \in Nat /\ Len(p.data) \in Nat
    BY <2>1 DEF PacketType
  <2>6. Padded(p.data) \in Seq(Nat) /\ SubSeq(Padded(p.data), 1, Len(p.data)) = p.data
    <3> DEFINE pad == [k \in 1 .. (-Len(p.data)) % 4 |-> 0]
    <3>1. pad \in Seq(Nat)
      <4>1. PICK m \in Nat : m = (-Len(p.data)) % 4
        <5>1. \A k \in Nat : (-k) % 4 \in Nat
          OBVIOUS
        <5> QED BY <2>5, <5>1
      <4>2. [k \in 1 .. m |-> 0] \in Seq(Nat)
        OBVIOUS
      <4> QED BY <4>1, <4>2
    <3> HIDE DEF pad
    <3>2. p.data \o pad \in Seq(Nat) /\ SubSeq(p.data \o pad, 1, Len(p.data)) = p.data
      BY <2>5, <3>1
    <3> QED BY <3>2 DEF Padded, pad
  <2> HIDE DEF b
  <2>7. /\ b.kind = "EPB" /\ b.iface = j - 1
        /\ b.high = (t \div Word) % Word /\ b.low = t % Word
        /\ b.captured = Len(p.data) /\ b.original = p.original
        /\ b.body = Padded(p.data)
    BY <2>3 DEF _build_epb, j
  <2>8. b \in PacketBlock
    BY <2>2, <2>3, <2>4, <2>5, <2>6 DEF _build_epb, PacketBlock, j
  <2>9. b.iface + 1 = j
    BY <2>2, <2>7
  <2>10. Carries(b, p)
    BY <2>6, <2>7 DEF Carries
  <2> QED BY <2>2, <2>4, <2>7, <2>8, <2>9, <2>10 DEF p, b, Block
<1> HIDE DEF epbs, idbs, shb
<1>7. epbs \in [1 .. n -> Block]
  <2>1. DOMAIN epbs = 1 .. n /\ epbs = [i \in DOMAIN epbs |-> epbs[i]]
    BY <1>1 DEF epbs
  <2> QED BY <1>6, <2>1
<1>8. /\ shb \in Seq(Block) /\ Len(shb) = 1
      /\ idbs \in Seq(Block) /\ Len(idbs) = l
      /\ epbs \in Seq(Block) /\ Len(epbs) = n
  <2>1. 1 \in Nat
    OBVIOUS
  <2> QED BY <1>1, <1>2, <1>4, <1>5, <1>7, <2>1, BlocksOf
<1> HIDE DEF l, n
<1>9. /\ shb \o idbs \in Seq(Block) /\ Len(shb \o idbs) = 1 + l
      /\ \A i \in 1 .. 1 : (shb \o idbs)[i] = shb[i]
      /\ \A i \in 1 .. l : (shb \o idbs)[1 + i] = idbs[i]
  <2>1. /\ shb \o idbs \in Seq(Block)
        /\ Len(shb \o idbs) = Len(shb) + Len(idbs)
        /\ \A i \in 1 .. Len(shb) : (shb \o idbs)[i] = shb[i]
        /\ \A i \in 1 .. Len(idbs) : (shb \o idbs)[Len(shb) + i] = idbs[i]
    BY <1>8, ConcatenationOfBlocks
  <2> QED BY <1>8, <2>1
<1>10. /\ (shb \o idbs) \o epbs \in Seq(Block)
       /\ Len((shb \o idbs) \o epbs) = (1 + l) + n
       /\ \A i \in 1 .. 1 + l : ((shb \o idbs) \o epbs)[i] = (shb \o idbs)[i]
       /\ \A i \in 1 .. n : ((shb \o idbs) \o epbs)[(1 + l) + i] = epbs[i]
  <2> DEFINE front == shb \o idbs
  <2>1. 1 + l \in Nat
    BY <1>2
  <2>2. front \in Seq(Block) /\ Len(front) = 1 + l
    BY <1>9
  <2> HIDE DEF front
  <2>3. /\ front \o epbs \in Seq(Block)
        /\ Len(front \o epbs) = (1 + l) + n
        /\ \A i \in 1 .. 1 + l : (front \o epbs)[i] = front[i]
        /\ \A i \in 1 .. n : (front \o epbs)[(1 + l) + i] = epbs[i]
    <3>1. /\ front \o epbs \in Seq(Block)
          /\ Len(front \o epbs) = Len(front) + Len(epbs)
          /\ \A i \in 1 .. Len(front) : (front \o epbs)[i] = front[i]
          /\ \A i \in 1 .. Len(epbs) : (front \o epbs)[Len(front) + i] = epbs[i]
      BY <1>8, <2>2, ConcatenationOfBlocks
    <3> QED BY <1>8, <2>2, <3>1
  <2> QED BY <2>3 DEF front
<1>11. /\ blocks \in Seq(Block) /\ Len(blocks) = (1 + l) + n
       /\ blocks[1] = [kind |-> "SHB"]
       /\ \A i \in 1 .. l : blocks[1 + i] = idbs[i]
       /\ \A i \in 1 .. n : blocks[(1 + l) + i] = epbs[i]
  <2>1. \A i \in 1 .. l : 1 + i \in 1 .. 1 + l
    BY <1>2
  <2>2. 1 \in 1 .. 1 + l /\ 1 \in 1 .. 1
    BY <1>2
  <2> QED BY <1>3, <1>4, <1>9, <1>10, <2>1, <2>2, Zenon
<1>12. PcapngHolds(blocks, packets, links, resolution)
  <2>1. ASSUME NEW i \in 1 .. l
        PROVE  /\ blocks[1 + i].kind \in {"IDB", "IDBRESOL"}
               /\ blocks[1 + i].link = links[i]
               /\ blocks[1 + i].resolution = resolution
    <3>1. blocks[1 + i] =
            [kind |-> kind, link |-> links[i], resolution |-> resolution]
      BY <1>5, <1>11, Zenon
    <3> QED BY <3>1
  <2>2. Len(packets) = n /\ Len(links) = l
    BY DEF n, l
  <2> HIDE DEF ticks
  <2>3. ASSUME NEW i \in 1 .. Len(packets)
        PROVE  LET b == blocks[(1 + Len(links)) + i] IN
               /\ b.kind = "EPB"
               /\ b.iface + 1 \in 1 .. Len(links)
               /\ links[b.iface + 1] = packets[i].link
               /\ Carries(b, packets[i])
               /\ ((b.high * Word) + b.low) * (PerSecond \div resolution)
                  = Kept(resolution, packets[i]).time
    <3>1. i \in 1 .. n /\ blocks[(1 + Len(links)) + i] = epbs[i]
      BY <1>11, <2>2
    <3> QED BY <1>6, <2>2, <3>1, Zenon
  <2> QED BY <1>2, <1>11, <2>1, <2>2, <2>3, Zenon DEF PcapngHolds
<1> QED BY <1>2, <1>12 DEF blocks, PcapngFile

----------------------------------------------------------------------------
(* The inductive invariant.  A file f holds the packets handed over, behind  *)
(* its header blocks; the reader r stands before a block k of it and has     *)
(* yielded what the blocks before that one hold.                             *)
Reader ==
  [mode: {"none", "strict", "lenient"},
   status: {"closed", "reading", "done", "raised"}, offset: Nat,
   link: Nat \cup {NoLink}, resolution: Nat,
   interfaces: Seq([link: Nat, resolution: Nat]), yielded: Seq(PacketType)]

Headers(f, links) == IF f.format = "pcap" THEN 1 ELSE 1 + Len(links)

Holds(f, packets, links, resolution) ==
  /\ links \in Seq(Nat)
  /\ resolution \in Resolution
  /\ \/ /\ f.format = "pcap"
        /\ Len(links) = 1
        /\ PcapHolds(f.blocks, packets, links[1], resolution)
     \/ /\ f.format = "pcapng"
        /\ PcapngHolds(f.blocks, packets, links, resolution)

Before(k, h) == IF k > h THEN k - h - 1 ELSE 0

Described(k, links) ==
  IF k =< 2 THEN 0 ELSE IF k - 2 =< Len(links) THEN k - 2 ELSE Len(links)

Progress(f, packets, r, links, resolution, k) ==
  /\ k \in 1 .. Len(f.blocks) + 1
  /\ r.offset = StartOf(f.blocks, k)
  /\ Len(r.yielded) = Before(k, Headers(f, links))
  /\ \A i \in 1 .. Len(r.yielded) : r.yielded[i] = Kept(resolution, packets[i])
  /\ f.format = "pcap" =>
       k >= 2 /\ r.link = links[1] /\ r.resolution = resolution
  /\ f.format = "pcapng" =>
       /\ Len(r.interfaces) = Described(k, links)
       /\ \A i \in 1 .. Len(r.interfaces) :
            r.interfaces[i] = [link |-> links[i], resolution |-> resolution]

(* Why a reader that has ended did so, with n bytes of the file left.        *)
Ended(f, n, w, r, k) ==
  /\ r.status \in {"reading", "done"} => r.offset =< n
  /\ r.status = "done" =>
       \/ r.offset = n
       \/ /\ r.mode # "strict" /\ r.offset < n
          /\ k =< Len(f.blocks) /\ n < StartOf(f.blocks, k + 1)
  /\ r.status = "raised" =>
       /\ w = "cut"
       /\ r.mode = "strict" =>
            n = 0 \/ \A i \in 1 .. Len(f.blocks) + 1 : n # StartOf(f.blocks, i)
       /\ r.mode = "lenient" => n < IF f.format = "pcap" THEN 24 ELSE 12

WrittenOK(f, packets, n, w, r) ==
  /\ w \in {"written", "cut"}
  /\ w = "written" => n = FileSize(f.blocks)
  /\ w = "cut" => n < FileSize(f.blocks)
  /\ \E links, resolution :
       /\ Holds(f, packets, links, resolution)
       /\ r.status # "closed" =>
            \E k : /\ Progress(f, packets, r, links, resolution, k)
                   /\ Ended(f, n, w, r, k)

IInv ==
  /\ handed \in Seq(PacketType)
  /\ size \in Nat
  /\ reader \in Reader
  /\ reader.status = "closed" => reader = Closed
  /\ file = NoFile => reader = Closed
  /\ file # NoFile => WrittenOK(file, handed, size, writer, reader)

----------------------------------------------------------------------------
LEMMA HoldsBlocks ==
  ASSUME NEW f, NEW packets \in Seq(PacketType), NEW links, NEW resolution,
         Holds(f, packets, links, resolution)
  PROVE  /\ f.blocks \in Seq(Block)
         /\ Sized(f.blocks)
         /\ Len(f.blocks) \in Nat /\ Len(links) \in Nat /\ Len(packets) \in Nat
         /\ Headers(f, links) \in Nat \ {0}
         /\ Len(f.blocks) = Headers(f, links) + Len(packets)
         /\ f.format \in {"pcap", "pcapng"}
         /\ f.blocks[1].kind = IF f.format = "pcap" THEN "GLOBAL" ELSE "SHB"
         /\ StartOf(f.blocks, 1) = 0
         /\ StartOf(f.blocks, 2) = IF f.format = "pcap" THEN 24 ELSE 28
<1>1. /\ f.blocks \in Seq(Block) /\ f.format \in {"pcap", "pcapng"}
      /\ f.blocks[1].kind = IF f.format = "pcap" THEN "GLOBAL" ELSE "SHB"
      /\ links \in Seq(Nat)
      /\ Len(f.blocks) = Headers(f, links) + Len(packets)
  BY DEF Holds, PcapHolds, PcapngHolds, Headers
<1>2. Len(f.blocks) \in Nat /\ Len(links) \in Nat /\ Len(packets) \in Nat
      /\ DOMAIN f.blocks = 1 .. Len(f.blocks)
  BY <1>1
<1>3. Sized(f.blocks)
  BY <1>1, BlocksSized
<1>4. Headers(f, links) \in Nat \ {0}
  BY <1>2 DEF Headers
<1>5. 1 \in 1 .. Len(f.blocks)
  BY <1>1, <1>2, <1>4
<1>6. StartOf(f.blocks, 1) = 0
  BY <1>2, StartOfFirst
<1>7. StartOf(f.blocks, 2) = Size(f.blocks[1])
  <2>1. StartOf(f.blocks, 1 + 1) = StartOf(f.blocks, 1) + Size(f.blocks[1])
    BY <1>2, <1>5, StartOfNext
  <2>2. Size(f.blocks[1]) \in Nat
    BY <1>3, <1>5 DEF Sized
  <2>3. 1 + 1 = 2
    OBVIOUS
  <2> QED BY <1>6, <2>1, <2>2, <2>3
<1>8. f.blocks[1] \in Block
  BY <1>1, <1>5
<1>9. Size(f.blocks[1]) = IF f.format = "pcap" THEN 24 ELSE 28
  BY <1>1, <1>8, SizeOfBlock
<1> QED BY <1>1, <1>2, <1>3, <1>4, <1>6, <1>7, <1>9

LEMMA KeptType ==
  ASSUME NEW p \in PacketType, NEW resolution
  PROVE  /\ Kept(resolution, p) \in PacketType
         /\ Kept(resolution, p) =
              [link |-> p.link, time |-> Kept(resolution, p).time,
               data |-> p.data, original |-> p.original]
<1>1. CASE resolution # MicroPerSecond
  BY <1>1 DEF Kept, PacketType
<1>2. CASE resolution = MicroPerSecond
  <2> DEFINE t == (RoundHalfEven(p.time, PerMicro) % (Word * Word)) * PerMicro
  <2>1. t \in Int
    <3>1. PICK ww \in Nat \ {0} : ww = Word * Word
      BY PerSecondIs
    <3>2. RoundHalfEven(p.time, PerMicro) % ww \in Int
      BY RoundedIs, Division
    <3> QED BY <3>1, <3>2, PerSecondIs
  <2>2. Kept(resolution, p) = [p EXCEPT !.time = t]
    BY <1>2, RoundedIs DEF Kept
  <2> HIDE DEF t
  <2> QED BY <2>1, <2>2 DEF PacketType
<1> QED BY <1>1, <1>2

LEMMA ClosedIsReader == Closed \in Reader /\ Closed.status = "closed"
<1>1. <<>> \in Seq([link: Nat, resolution: Nat]) /\ <<>> \in Seq(PacketType)
  OBVIOUS
<1>2. NoLink \in Nat \cup {NoLink}
  OBVIOUS
<1>3. /\ Closed.mode = "none" /\ Closed.status = "closed" /\ Closed.offset = 0
      /\ Closed.link = NoLink /\ Closed.resolution = 0
      /\ Closed.interfaces = <<>> /\ Closed.yielded = <<>>
  BY DEF Closed
<1>4. Closed \in Reader
  BY <1>1, <1>2 DEF Closed, Reader
<1> QED BY <1>3, <1>4

LEMMA PacketsAreTyped == \A p \in Packet : p \in PacketType
BY CaptureFilesAssumption

LEMMA InitHolds == Init => IInv
<1> SUFFICES ASSUME Init PROVE IInv
  OBVIOUS
<1>1. handed \in Seq(PacketType)
  <2>1. PICK n \in 0 .. MaxPackets : handed \in [1 .. n -> Packet]
    BY DEF Init
  <2>2. handed \in [1 .. n -> PacketType] /\ n \in Nat
    BY <2>1, PacketsAreTyped, CaptureFilesAssumption
  <2> QED BY <2>2
<1> QED BY <1>1, ClosedIsReader DEF Init, IInv

(* A writer that has written leaves a file that holds what was handed over.  *)
LEMMA AfterWriting ==
  ASSUME IInv, reader = Closed, NEW f, NEW links, NEW resolution,
         Holds(f, handed, links, resolution), Written(f),
         UNCHANGED <<handed, reader>>
  PROVE  IInv'
<1>1. /\ handed' \in Seq(PacketType) /\ reader' = Closed /\ file' = f
      /\ size' = FileSize(f.blocks) /\ writer' = "written" /\ handed' = handed
  BY DEF IInv, Written
<1>2. Sized(f.blocks) /\ Len(f.blocks) \in Nat
  BY HoldsBlocks DEF IInv
<1>3. size' \in Nat
  <2>1. Len(f.blocks) + 1 \in 1 .. Len(f.blocks) + 1
    BY <1>2
  <2> QED BY <1>1, <1>2, <2>1, StartOfType DEF FileSize
<1>4. WrittenOK(file', handed', size', writer', reader')
  BY <1>1, ClosedIsReader DEF WrittenOK
<1> QED BY <1>1, <1>3, <1>4, ClosedIsReader DEF IInv

LEMMA AfterFailing ==
  ASSUME IInv, NEW error, Failed(error), file = NoFile, UNCHANGED <<handed, reader>>
  PROVE  IInv'
BY DEF IInv, Failed

LEMMA WritePcapHolds ==
  ASSUME IInv, NEW link_type \in {p.link : p \in Packet} \cup {NoLink},
         WritePcap(link_type)
  PROVE  IInv'
<1> DEFINE split == [i \in DOMAIN handed |-> _split_timestamp(handed[i].time)]
           link  == IF link_type # NoLink \/ handed = <<>> THEN link_type
                    ELSE handed[1].link
           n     == Len(handed)
           records == [i \in DOMAIN handed |->
                         Record(handed[i], split[i].sec, split[i].usec)]
<1>1. /\ n \in Nat /\ DOMAIN handed = 1 .. n /\ handed \in Seq(PacketType)
      /\ \A i \in 1 .. n : handed[i] \in PacketType
  BY DEF IInv
<1>2. reader = Closed /\ file = NoFile /\ UNCHANGED <<handed, reader>>
  BY DEF WritePcap, IInv
<1>3. CASE link = NoLink \/ \E i \in DOMAIN handed : handed[i].link # link
  BY <1>2, <1>3, AfterFailing DEF WritePcap
<1>4. CASE /\ link # NoLink /\ \A i \in DOMAIN handed : handed[i].link = link
           /\ \E i \in DOMAIN split : ~FitsPcap(split[i])
  BY <1>2, <1>4, AfterFailing DEF WritePcap
<1>5. CASE /\ link # NoLink /\ \A i \in DOMAIN handed : handed[i].link = link
           /\ \A i \in DOMAIN split : FitsPcap(split[i])
  <2>1. Written(PcapFile(MicroPerSecond, link, records))
    BY <1>5 DEF WritePcap
  <2>2. link \in Nat
    <3>1. CASE link_type # NoLink
      BY <3>1, PacketsAreTyped DEF PacketType
    <3>2. CASE link_type = NoLink
      <4>1. handed # <<>> /\ link = handed[1].link
        BY <1>5, <3>2
      <4>2. 1 \in 1 .. n
        BY <1>1, <4>1
      <4>3. handed[1] \in PacketType
        BY <1>1, <4>2
      <4> QED BY <4>1, <4>3 DEF PacketType
    <3> QED BY <3>1, <3>2
  <2>3. ASSUME NEW i \in 1 .. n
        PROVE  /\ split[i].sec \in Nat /\ split[i].usec \in Nat
               /\ (split[i].sec * PerSecond)
                    + (split[i].usec * (PerSecond \div MicroPerSecond))
                  = Kept(MicroPerSecond, handed[i]).time
    <3>1. split[i] = _split_timestamp(handed[i].time) /\ FitsPcap(split[i])
      BY <1>1, <1>5
    <3>2. handed[i] \in PacketType
      BY <1>1
    <3> HIDE DEF split
    <3> QED BY <3>1, <3>2, MicrosecondRecord
  <2> DEFINE sec  == [i \in 1 .. n |-> split[i].sec]
             frac == [i \in 1 .. n |-> split[i].usec]
  <2>4. sec \in [1 .. n -> Int] /\ frac \in [1 .. n -> Int]
    <3> HIDE DEF split
    <3> QED BY <2>3
  <2>5. records = [i \in DOMAIN handed |-> Record(handed[i], sec[i], frac[i])]
    <3> HIDE DEF split
    <3> QED BY <1>1
  <2>6. \A i \in 1 .. n :
          /\ handed[i].link = link
          /\ (sec[i] * PerSecond) + (frac[i] * (PerSecond \div MicroPerSecond))
             = Kept(MicroPerSecond, handed[i]).time
    <3> HIDE DEF split, link
    <3> QED BY <1>1, <1>5, <2>3
  <2> HIDE DEF records, sec, frac, link, split
  <2>7. /\ PcapHolds(PcapFile(MicroPerSecond, link, records).blocks, handed,
                     link, MicroPerSecond)
        /\ PcapFile(MicroPerSecond, link, records).format = "pcap"
    <3>1. MicroPerSecond \in Resolution
      BY DEF Resolution
    <3> QED BY <1>1, <2>2, <2>4, <2>5, <2>6, <3>1, PcapFileHolds
  <2>8. Holds(PcapFile(MicroPerSecond, link, records), handed, <<link>>, MicroPerSecond)
    BY <2>2, <2>7 DEF Holds, Resolution
  <2> QED BY <1>2, <2>1, <2>8, AfterWriting
<1> QED BY <1>3, <1>4, <1>5

LEMMA WritePcapngHolds ==
  ASSUME IInv, WritePcapng
  PROVE  IInv'
<1>1. /\ reader = Closed /\ file = NoFile /\ UNCHANGED <<handed, reader>>
      /\ handed \in Seq(PacketType)
  BY DEF WritePcapng, IInv
<1>2. CASE \E i \in DOMAIN handed : handed[i].link >= LinkWord
  BY <1>1, <1>2, AfterFailing DEF WritePcapng
<1>3. CASE ~\E i \in DOMAIN handed : handed[i].link >= LinkWord
  <2> DEFINE f == PcapngFile("IDB", MicroPerSecond, handed)
  <2>1. Written(f)
    BY <1>3 DEF WritePcapng
  <2>2. MicroPerSecond \in Resolution /\ "IDB" \in {"IDB", "IDBRESOL"}
    BY DEF Resolution
  <2>3. /\ \E links \in Seq(Nat) : PcapngHolds(f.blocks, handed, links, MicroPerSecond)
        /\ f.format = "pcapng"
    BY <1>1, <2>2, PcapngFileHolds
  <2> HIDE DEF f
  <2>4. PICK links : Holds(f, handed, links, MicroPerSecond)
    BY <2>2, <2>3 DEF Holds
  <2> QED BY <1>1, <2>1, <2>4, AfterWriting
<1> QED BY <1>2, <1>3

LEMMA AnotherToolHolds ==
  ASSUME IInv, AnotherToolWrites
  PROVE  IInv'
<1> DEFINE n == Len(handed)
<1>1. /\ reader = Closed /\ file = NoFile /\ UNCHANGED <<handed, reader>>
      /\ handed \in Seq(PacketType)
      /\ n \in Nat /\ DOMAIN handed = 1 .. n
      /\ \A i \in 1 .. n : handed[i] \in PacketType
  BY DEF AnotherToolWrites, IInv
<1>2. \A i \in 1 .. n : handed[i].time \in 0 .. (Word * Word) - 1
  BY <1>1 DEF AnotherToolWrites
<1>3. PerSecond \in Resolution
  BY DEF Resolution
<1>4. CASE Written(PcapngFile("IDBRESOL", PerSecond, handed))
  <2> DEFINE f == PcapngFile("IDBRESOL", PerSecond, handed)
  <2>1. "IDBRESOL" \in {"IDB", "IDBRESOL"}
    OBVIOUS
  <2>2. /\ \E links \in Seq(Nat) : PcapngHolds(f.blocks, handed, links, PerSecond)
        /\ f.format = "pcapng"
    BY <1>1, <1>2, <1>3, <2>1, PcapngFileHolds
  <2>3. Written(f)
    BY <1>4
  <2> HIDE DEF f
  <2>4. PICK links : Holds(f, handed, links, PerSecond)
    BY <1>3, <2>2 DEF Holds
  <2> QED BY <1>1, <2>3, <2>4, AfterWriting
<1>5. ASSUME NEW link \in {p.link : p \in Packet},
             \A i \in DOMAIN handed : handed[i].link = link,
             Written(PcapFile(PerSecond, link,
               [i \in DOMAIN handed |->
                  Record(handed[i], handed[i].time \div PerSecond,
                         handed[i].time % PerSecond)]))
      PROVE  IInv'
  <2> DEFINE records == [i \in DOMAIN handed |->
                           Record(handed[i], handed[i].time \div PerSecond,
                                  handed[i].time % PerSecond)]
             sec  == [i \in 1 .. n |-> handed[i].time \div PerSecond]
             frac == [i \in 1 .. n |-> handed[i].time % PerSecond]
             f    == PcapFile(PerSecond, link, records)
  <2>1. link \in Nat
    BY PacketsAreTyped DEF PacketType
  <2>2. ASSUME NEW i \in 1 .. n
        PROVE  /\ handed[i].time \div PerSecond \in Int
               /\ handed[i].time % PerSecond \in Int
               /\ ((handed[i].time \div PerSecond) * PerSecond)
                    + ((handed[i].time % PerSecond) * (PerSecond \div PerSecond))
                  = Kept(PerSecond, handed[i]).time
    BY <1>1, <1>2, UnitRecord
  <2>3. sec \in [1 .. n -> Int] /\ frac \in [1 .. n -> Int]
    BY <2>2
  <2>4. records = [i \in DOMAIN handed |-> Record(handed[i], sec[i], frac[i])]
    BY <1>1
  <2>5. \A i \in 1 .. n :
          /\ handed[i].link = link
          /\ (sec[i] * PerSecond) + (frac[i] * (PerSecond \div PerSecond))
             = Kept(PerSecond, handed[i]).time
    BY <1>1, <1>5, <2>2
  <2>6. Written(f)
    BY <1>5
  <2> HIDE DEF records, sec, frac
  <2>7. PcapHolds(f.blocks, handed, link, PerSecond) /\ f.format = "pcap"
    BY <1>1, <1>3, <2>1, <2>3, <2>4, <2>5, PcapFileHolds
  <2> HIDE DEF f
  <2>8. Holds(f, handed, <<link>>, PerSecond)
    BY <1>3, <2>1, <2>7 DEF Holds
  <2> QED BY <1>1, <2>6, <2>8, AfterWriting
<1> QED BY <1>4, <1>5 DEF AnotherToolWrites

LEMMA CutFileHolds ==
  ASSUME IInv, CutFile
  PROVE  IInv'
<1>1. /\ writer = "written" /\ reader = Closed /\ writer' = "cut"
      /\ UNCHANGED <<handed, file, reader>>
  BY DEF CutFile
<1>2. PICK n \in 0 .. size - 1 : size' = n
  BY DEF CutFile
<1>3. size' \in Nat /\ size' < size
  BY <1>2 DEF IInv
<1>4. file # NoFile => WrittenOK(file, handed, size', writer', reader)
  <2> SUFFICES ASSUME file # NoFile
               PROVE  WrittenOK(file, handed, size', writer', reader)
    OBVIOUS
  <2>1. WrittenOK(file, handed, size, writer, reader)
    BY DEF IInv
  <2>2. size = FileSize(file.blocks) /\ reader.status = "closed"
    BY <1>1, <2>1, ClosedIsReader DEF WrittenOK
  <2> QED BY <1>1, <1>3, <2>1, <2>2 DEF WrittenOK
<1> QED BY <1>1, <1>3, <1>4 DEF IInv

(* What is left is never more than was written.                              *)
LEMMA SizeBounded ==
  ASSUME NEW f, NEW packets \in Seq(PacketType), NEW n \in Nat, NEW w, NEW r,
         WrittenOK(f, packets, n, w, r)
  PROVE  /\ n =< StartOf(f.blocks, Len(f.blocks) + 1)
         /\ n < StartOf(f.blocks, Len(f.blocks) + 1) <=> w = "cut"
<1>1. PICK links, resolution : Holds(f, packets, links, resolution)
  BY DEF WrittenOK
<1>2. Sized(f.blocks) /\ Len(f.blocks) + 1 \in 1 .. Len(f.blocks) + 1
  BY <1>1, HoldsBlocks
<1>3. StartOf(f.blocks, Len(f.blocks) + 1) \in Nat
  BY <1>2, StartOfType
<1> QED BY <1>3 DEF WrittenOK, FileSize

LEMMA OpenHolds ==
  ASSUME IInv, NEW mode \in {"strict", "lenient"}, Open(mode)
  PROVE  IInv'
<1> DEFINE r == [Closed EXCEPT !.mode = mode,
                      !.status = IF size < Required THEN "raised" ELSE "reading",
                      !.offset = IF file.format = "pcap" THEN 24 ELSE 0,
                      !.link = IF file.format = "pcap" THEN file.blocks[1].link
                               ELSE NoLink,
                      !.resolution = IF file.format = "pcap"
                                     THEN file.blocks[1].resolution ELSE 0]
           first == IF file.format = "pcap" THEN 2 ELSE 1
<1>1. /\ file # NoFile /\ reader = Closed /\ reader' = r
      /\ UNCHANGED <<handed, file, size, writer>>
  BY DEF Open
<1>2. /\ handed \in Seq(PacketType) /\ size \in Nat
      /\ WrittenOK(file, handed, size, writer, reader)
  BY <1>1 DEF IInv
<1>3. PICK links, resolution : Holds(file, handed, links, resolution)
  BY <1>2 DEF WrittenOK
<1>4. /\ file.blocks \in Seq(Block) /\ Sized(file.blocks)
      /\ Len(file.blocks) \in Nat /\ Len(links) \in Nat /\ Len(handed) \in Nat
      /\ Len(file.blocks) = Headers(file, links) + Len(handed)
      /\ Headers(file, links) \in Nat \ {0}
      /\ file.format \in {"pcap", "pcapng"}
      /\ StartOf(file.blocks, 1) = 0
      /\ StartOf(file.blocks, 2) = IF file.format = "pcap" THEN 24 ELSE 28
  BY <1>2, <1>3, HoldsBlocks
<1>5. file.format = "pcap" =>
        /\ file.blocks[1].link = links[1] /\ file.blocks[1].resolution = resolution
        /\ links[1] \in Nat /\ resolution \in Nat
  <2>1. resolution \in Nat
    BY <1>3, PerSecondIs DEF Holds, Resolution
  <2>2. file.format = "pcap" => PcapHolds(file.blocks, handed, links[1], resolution)
    BY <1>3 DEF Holds
  <2>3. file.format = "pcap" => links[1] \in Nat
    <3>1. links \in Seq(Nat) /\ (file.format = "pcap" => Len(links) = 1)
      BY <1>3 DEF Holds
    <3>2. \A i \in 1 .. Len(links) : links[i] \in Nat
      BY <3>1
    <3>3. 1 \in 1 .. 1
      OBVIOUS
    <3> QED BY <3>1, <3>2, <3>3, Zenon
  <2> QED BY <2>1, <2>2, <2>3 DEF PcapHolds
<1>6. /\ r.mode = mode
      /\ r.status = IF size < Required THEN "raised" ELSE "reading"
      /\ r.offset = IF file.format = "pcap" THEN 24 ELSE 0
      /\ r.link = IF file.format = "pcap" THEN file.blocks[1].link ELSE NoLink
      /\ r.resolution = IF file.format = "pcap" THEN file.blocks[1].resolution ELSE 0
      /\ r.interfaces = <<>> /\ r.yielded = <<>>
  BY DEF Closed
<1>7. r \in Reader
  BY <1>4, <1>5, ClosedIsReader DEF Reader
<1> HIDE DEF r
<1>8. first \in 1 .. Len(file.blocks) + 1
  BY <1>4
<1>9. Progress(file, handed, r, links, resolution, first)
  <2>1. Len(r.yielded) = 0 /\ Len(r.interfaces) = 0
    BY <1>6
  <2>2. Before(first, Headers(file, links)) = 0
    BY <1>4 DEF Before, Headers
  <2>3. file.format = "pcapng" => Described(first, links) = 0
    BY DEF Described
  <2>4. r.offset = StartOf(file.blocks, first)
    BY <1>4, <1>6
  <2> QED BY <1>4, <1>5, <1>6, <1>8, <2>1, <2>2, <2>3, <2>4 DEF Progress
<1>10. size < Required =>
         /\ writer = "cut"
         /\ size = 0 \/ \A i \in 1 .. Len(file.blocks) + 1 :
                          size # StartOf(file.blocks, i)
         /\ size < IF file.format = "pcap" THEN 24 ELSE 12
  <2> SUFFICES ASSUME size < Required
               PROVE  /\ writer = "cut"
                      /\ size = 0 \/ \A i \in 1 .. Len(file.blocks) + 1 :
                                       size # StartOf(file.blocks, i)
                      /\ size < IF file.format = "pcap" THEN 24 ELSE 12
    OBVIOUS
  <2>1. size < IF file.format = "pcap" THEN 24 ELSE 12
    BY <1>2, <1>4 DEF Required, _is_pcapng
  <2>2. ASSUME NEW i \in 1 .. Len(file.blocks) + 1, i # 1
        PROVE  StartOf(file.blocks, i) >= 24 /\ StartOf(file.blocks, i) \in Nat
    <3>1. StartOf(file.blocks, i) \in Nat
      BY <1>4, StartOfType
    <3>2. CASE i = 2
      BY <1>4, <3>2
    <3>3. CASE i # 2
      <4>1. 2 \in 1 .. Len(file.blocks) + 1 /\ 2 < i
        BY <1>4, <2>2, <3>3
      <4>2. StartOf(file.blocks, 2) + 12 =< StartOf(file.blocks, i)
        BY <1>4, <4>1, StartOfGrows
      <4> QED BY <1>4, <3>1, <4>2
    <3> QED BY <3>2, <3>3
  <2>3. writer = "cut"
    <3>1. Len(file.blocks) + 1 \in 1 .. Len(file.blocks) + 1 /\ Len(file.blocks) + 1 # 1
      BY <1>4
    <3>2. StartOf(file.blocks, Len(file.blocks) + 1) >= 24
          /\ StartOf(file.blocks, Len(file.blocks) + 1) \in Nat
      BY <2>2, <3>1
    <3> QED BY <1>2, <2>1, <3>2, SizeBounded
  <2>4. size = 0 \/ \A i \in 1 .. Len(file.blocks) + 1 : size # StartOf(file.blocks, i)
    <3> SUFFICES ASSUME NEW i \in 1 .. Len(file.blocks) + 1,
                        size = StartOf(file.blocks, i)
                 PROVE  size = 0
      OBVIOUS
    <3>1. CASE i = 1
      BY <1>4, <3>1
    <3>2. CASE i # 1
      BY <1>2, <2>1, <2>2, <3>2
    <3> QED BY <3>1, <3>2
  <2> QED BY <2>1, <2>3, <2>4
<1>11. ~(size < Required) => r.offset =< size
  BY <1>2, <1>4, <1>6 DEF Required, _is_pcapng
<1>12. Ended(file, size, writer, r, first)
  BY <1>6, <1>10, <1>11 DEF Ended
<1>13. WrittenOK(file, handed, size, writer, r)
  BY <1>2, <1>3, <1>9, <1>12 DEF WrittenOK
<1>14. r.status # "closed"
  BY <1>6
<1> QED BY <1>1, <1>2, <1>7, <1>13, <1>14 DEF IInv

----------------------------------------------------------------------------
(* A reader that reads stands before a block, or at the end of the file.     *)
LEMMA WhileReading ==
  ASSUME IInv, Reading
  PROVE  /\ file # NoFile
         /\ \E links, resolution, k :
              /\ Holds(file, handed, links, resolution)
              /\ Progress(file, handed, reader, links, resolution, k)
              /\ Ended(file, size, writer, reader, k)
<1>1. reader # Closed
  BY ClosedIsReader DEF Reading
<1>2. WrittenOK(file, handed, size, writer, reader)
  BY <1>1 DEF IInv
<1> QED BY <1>1, <1>2 DEF WrittenOK, IInv, Reading

LEMMA BlockAhead ==
  ASSUME IInv, Reading, NEW links, NEW resolution, NEW k,
         Holds(file, handed, links, resolution),
         Progress(file, handed, reader, links, resolution, k),
         reader.offset < size
  PROVE  /\ k \in 1 .. Len(file.blocks) /\ k + 1 \in 1 .. Len(file.blocks) + 1
         /\ block = file.blocks[k] /\ block \in Block
         /\ Advance = StartOf(file.blocks, k + 1) /\ Advance \in Nat
         /\ Available <=> StartOf(file.blocks, k + 1) =< size
<1>1. /\ handed \in Seq(PacketType) /\ size \in Nat
      /\ WrittenOK(file, handed, size, writer, reader)
  BY WhileReading DEF IInv
<1>2. /\ file.blocks \in Seq(Block) /\ Sized(file.blocks)
      /\ Len(file.blocks) \in Nat
      /\ Headers(file, links) \in Nat \ {0}
      /\ Len(file.blocks) = Headers(file, links) + Len(handed)
  BY <1>1, HoldsBlocks
<1>3. /\ k \in 1 .. Len(file.blocks) + 1
      /\ reader.offset = StartOf(file.blocks, k)
      /\ file.format = "pcap" => k >= 2
  BY DEF Progress
<1>4. k # Len(file.blocks) + 1
  <2>1. size =< StartOf(file.blocks, Len(file.blocks) + 1)
    BY <1>1, SizeBounded
  <2>2. StartOf(file.blocks, k) \in Nat
    BY <1>2, <1>3, StartOfType
  <2> QED BY <1>1, <1>3, <2>1, <2>2
<1>5. k \in 1 .. Len(file.blocks) /\ k + 1 \in 1 .. Len(file.blocks) + 1
  BY <1>2, <1>3, <1>4
<1>6. block = file.blocks[k]
  <2>1. (CHOOSE i \in DOMAIN file.blocks :
           StartOf(file.blocks, i) = StartOf(file.blocks, k)) = k
    BY <1>2, <1>5, BlockAt
  <2>2. block = file.blocks[CHOOSE i \in DOMAIN file.blocks :
                              StartOf(file.blocks, i) = StartOf(file.blocks, k)]
    BY <1>3, Zenon DEF block
  <2> QED BY <2>1, <2>2, Zenon
<1>7. block \in Block
  BY <1>2, <1>5, <1>6
<1>8. Size(block) \in Nat /\ Size(block) >= Smallest /\ Smallest \in Nat
  <2>1. CASE file.format # "pcap"
    BY <1>7, <2>1, SizeOfBlock DEF Smallest
  <2>2. CASE file.format = "pcap"
    <3>1. PcapHolds(file.blocks, handed, links[1], resolution) /\ Headers(file, links) = 1
      BY <2>2 DEF Holds, Headers
    <3>2. k - 1 \in 1 .. Len(handed) /\ 1 + (k - 1) = k
      BY <1>2, <1>3, <1>5, <2>2, <3>1
    <3>3. block.kind = "RECORD"
      BY <1>6, <3>1, <3>2 DEF PcapHolds
    <3> QED BY <1>7, <2>2, <3>3, SizeOfBlock DEF Smallest
  <2> QED BY <2>1, <2>2
<1>9. StartOf(file.blocks, k + 1) = StartOf(file.blocks, k) + Size(block)
  BY <1>2, <1>5, <1>6, StartOfNext DEF Sized
<1>10. StartOf(file.blocks, k) \in Nat
  BY <1>2, <1>3, StartOfType
<1>11. Advance = StartOf(file.blocks, k + 1) /\ Advance \in Nat
  BY <1>3, <1>8, <1>9, <1>10 DEF Advance
<1>12. Available <=> StartOf(file.blocks, k + 1) =< size
  BY <1>1, <1>3, <1>8, <1>9, <1>10 DEF Available
<1> QED BY <1>5, <1>6, <1>7, <1>11, <1>12

EndsWith(status) ==
  /\ reader' = [reader EXCEPT !.status = status]
  /\ UNCHANGED <<handed, file, size, writer>>

(* A step that ends the reader leaves the rest of it as it was.              *)
LEMMA AfterEnding ==
  ASSUME IInv, Reading, NEW links, NEW resolution, NEW k,
         Holds(file, handed, links, resolution),
         Progress(file, handed, reader, links, resolution, k),
         NEW status \in {"done", "raised"}, EndsWith(status),
         Ended(file, size, writer, [reader EXCEPT !.status = status], k)
  PROVE  IInv'
<1> DEFINE r == [reader EXCEPT !.status = status]
<1>1. /\ reader \in Reader /\ handed \in Seq(PacketType) /\ size \in Nat
      /\ file # NoFile /\ WrittenOK(file, handed, size, writer, reader)
  BY WhileReading DEF IInv
<1>2. reader' = r /\ UNCHANGED <<handed, file, size, writer>>
  BY DEF EndsWith
<1>3. /\ r \in Reader
      /\ r.status = status /\ r.offset = reader.offset /\ r.mode = reader.mode
      /\ r.link = reader.link /\ r.resolution = reader.resolution
      /\ r.interfaces = reader.interfaces /\ r.yielded = reader.yielded
  BY <1>1 DEF Reader
<1>4. Ended(file, size, writer, r, k)
  OBVIOUS
<1> HIDE DEF r
<1>5. Progress(file, handed, r, links, resolution, k)
  BY <1>3 DEF Progress
<1>6. WrittenOK(file, handed, size, writer, r)
  BY <1>1, <1>4, <1>5 DEF WrittenOK
<1> QED BY <1>1, <1>2, <1>3, <1>6 DEF IInv

LEMMA EndOfFileHolds ==
  ASSUME IInv, EndOfFile
  PROVE  IInv'
<1>1. Reading /\ EndsWith("done") /\ reader.offset >= size
  BY DEF EndOfFile, EndsWith
<1>2. PICK links, resolution, k :
        /\ Holds(file, handed, links, resolution)
        /\ Progress(file, handed, reader, links, resolution, k)
        /\ Ended(file, size, writer, reader, k)
  BY <1>1, WhileReading
<1> DEFINE r == [reader EXCEPT !.status = "done"]
<1>3. r.status = "done" /\ r.offset = reader.offset
  BY DEF IInv, Reader
<1>4. reader.offset =< size /\ reader.offset \in Nat /\ size \in Nat
  BY <1>1, <1>2 DEF Ended, Reading, IInv, Reader
<1>5. Ended(file, size, writer, r, k)
  <2> HIDE DEF r
  <2> QED BY <1>1, <1>3, <1>4 DEF Ended
<1> QED BY <1>1, <1>2, <1>5, AfterEnding

LEMMA TruncatedHolds ==
  ASSUME IInv, Truncated
  PROVE  IInv'
<1> DEFINE status == IF reader.mode = "strict" THEN "raised" ELSE "done"
           r      == [reader EXCEPT !.status = status]
<1>1. Reading /\ EndsWith(status) /\ reader.offset < size /\ ~Available
  BY DEF Truncated, EndsWith
<1>2. PICK links, resolution, k :
        /\ Holds(file, handed, links, resolution)
        /\ Progress(file, handed, reader, links, resolution, k)
        /\ Ended(file, size, writer, reader, k)
  BY <1>1, WhileReading
<1>3. r.status = status /\ r.offset = reader.offset /\ r.mode = reader.mode
  BY DEF IInv, Reader
<1>4. /\ reader.offset \in Nat /\ size \in Nat /\ handed \in Seq(PacketType)
      /\ file # NoFile /\ WrittenOK(file, handed, size, writer, reader)
  BY <1>1, WhileReading DEF IInv, Reader
<1>5. /\ Sized(file.blocks) /\ Len(file.blocks) \in Nat
  BY <1>2, <1>4, HoldsBlocks
<1>6. /\ k \in 1 .. Len(file.blocks) /\ k + 1 \in 1 .. Len(file.blocks) + 1
      /\ Advance = StartOf(file.blocks, k + 1)
      /\ Available <=> StartOf(file.blocks, k + 1) =< size
  BY <1>1, <1>2, BlockAhead
<1>7. StartOf(file.blocks, k) = reader.offset
  BY <1>2 DEF Progress
<1>8. \A i \in 1 .. Len(file.blocks) + 1 : StartOf(file.blocks, i) \in Nat
  BY <1>5, StartOfType
<1>9. size < StartOf(file.blocks, k + 1)
  BY <1>1, <1>4, <1>6, <1>8
<1>10. ASSUME NEW i \in 1 .. Len(file.blocks) + 1
       PROVE  size # StartOf(file.blocks, i)
  <2>1. k \in 1 .. Len(file.blocks) + 1 /\ (i =< k \/ k + 1 =< i)
    BY <1>5, <1>6
  <2>2. i =< k => StartOf(file.blocks, i) =< reader.offset
    <3>1. CASE i = k
      BY <1>4, <1>7, <3>1
    <3>2. CASE i < k
      BY <1>4, <1>5, <1>7, <1>8, <2>1, <3>2, StartOfGrows
    <3> QED BY <2>1, <3>1, <3>2
  <2>3. k + 1 =< i => StartOf(file.blocks, k + 1) =< StartOf(file.blocks, i)
    <3>1. CASE i = k + 1
      BY <1>6, <1>8, <3>1
    <3>2. CASE k + 1 < i
      BY <1>5, <1>6, <1>8, <3>2, StartOfGrows
    <3> QED BY <1>6, <2>1, <3>1, <3>2
  <2> QED BY <1>1, <1>4, <1>6, <1>8, <1>9, <2>1, <2>2, <2>3
<1>11. writer = "cut"
  <2>1. Len(file.blocks) + 1 \in 1 .. Len(file.blocks) + 1
    BY <1>5
  <2>2. size # StartOf(file.blocks, Len(file.blocks) + 1)
    BY <1>10, <2>1
  <2>3. /\ size =< StartOf(file.blocks, Len(file.blocks) + 1)
        /\ size < StartOf(file.blocks, Len(file.blocks) + 1) <=> writer = "cut"
    BY <1>4, SizeBounded
  <2> QED BY <1>4, <1>8, <2>1, <2>2, <2>3
<1>12. Ended(file, size, writer, r, k)
  <2> HIDE DEF r
  <2>1. k =< Len(file.blocks) /\ reader.offset =< size
    BY <1>1, <1>4, <1>5, <1>6
  <2>2. r.mode = "strict" => r.status = "raised"
    BY <1>3
  <2>3. r.mode # "strict" => r.status = "done"
    BY <1>3
  <2> HIDE DEF status
  <2> QED BY <1>1, <1>3, <1>9, <1>10, <1>11, <2>1, <2>2, <2>3 DEF Ended
<1> QED BY <1>1, <1>2, <1>12, AfterEnding

(* A step that reads a block leaves the reader before the next one.          *)
LEMMA AfterReading ==
  ASSUME IInv, Reading, reader.offset < size, Available,
         NEW links, NEW resolution, NEW k,
         Holds(file, handed, links, resolution),
         Progress(file, handed, reader, links, resolution, k),
         NEW r \in Reader, r.status = "reading",
         Progress(file, handed, r, links, resolution, k + 1),
         reader' = r, UNCHANGED <<handed, file, size, writer>>
  PROVE  IInv'
<1>1. /\ handed \in Seq(PacketType) /\ size \in Nat /\ file # NoFile
      /\ WrittenOK(file, handed, size, writer, reader)
  BY WhileReading DEF IInv
<1>2. StartOf(file.blocks, k + 1) =< size
  BY BlockAhead
<1>3. r.offset = StartOf(file.blocks, k + 1)
  BY DEF Progress
<1>4. Ended(file, size, writer, r, k + 1)
  BY <1>2, <1>3 DEF Ended
<1>5. WrittenOK(file, handed, size, writer, r)
  BY <1>1, <1>4 DEF WrittenOK
<1> QED BY <1>1, <1>5 DEF IInv

(* One packet more, that of the block the reader stood before.               *)
Yielded(packets, resolution, y, n) ==
  /\ y \in Seq(PacketType)
  /\ Len(y) = n
  /\ \A i \in 1 .. n : y[i] = Kept(resolution, packets[i])

LEMMA YieldedGrows ==
  ASSUME NEW packets \in Seq(PacketType), NEW resolution, NEW y, NEW n \in Nat,
         Yielded(packets, resolution, y, n), n + 1 \in 1 .. Len(packets)
  PROVE  Yielded(packets, resolution,
                 Append(y, Kept(resolution, packets[n + 1])), n + 1)
<1> DEFINE x == Kept(resolution, packets[n + 1])
<1>0. /\ y \in Seq(PacketType) /\ Len(y) = n
      /\ \A i \in 1 .. n : y[i] = Kept(resolution, packets[i])
  BY DEF Yielded
<1>1. packets[n + 1] \in PacketType
  OBVIOUS
<1>2. Kept(resolution, packets[n + 1]) \in PacketType
  BY <1>1, KeptType
<1> DEFINE z == Append(y, x)
<1>3. x \in PacketType
  BY <1>2
<1> HIDE DEF x
<1>4. /\ z \in Seq(PacketType) /\ Len(z) = n + 1 /\ z[n + 1] = x
      /\ \A i \in 1 .. n : z[i] = y[i]
  BY <1>0, <1>3
<1> HIDE DEF z
<1>5. ASSUME NEW i \in 1 .. n + 1 PROVE z[i] = Kept(resolution, packets[i])
  <2>1. CASE i = n + 1
    BY <1>4, <2>1 DEF x
  <2>2. CASE i # n + 1
    <3>1. i \in 1 .. n
      BY <2>2
    <3> QED BY <1>0, <1>4, <3>1
  <2> QED BY <2>1, <2>2
<1> QED BY <1>4, <1>5 DEF Yielded, z, x

LEMMA ReadRecordHolds ==
  ASSUME IInv, ReadRecord
  PROVE  IInv'
<1> DEFINE packet ==
             [link     |-> reader.link,
              time     |-> (block.sec * PerSecond)
                             + (block.frac * (PerSecond \div reader.resolution)),
              data     |-> SubSeq(block.body, 1, block.captured),
              original |-> block.original]
           r == [reader EXCEPT !.yielded = Append(@, packet), !.offset = Advance]
<1>1. /\ Reading /\ file.format = "pcap" /\ reader.offset < size /\ Available
      /\ reader' = r /\ UNCHANGED <<handed, file, size, writer>>
  BY DEF ReadRecord, BlockReady
<1>2. PICK links, resolution, k :
        /\ Holds(file, handed, links, resolution)
        /\ Progress(file, handed, reader, links, resolution, k)
        /\ Ended(file, size, writer, reader, k)
  BY <1>1, WhileReading
<1>3. /\ reader \in Reader /\ handed \in Seq(PacketType)
      /\ reader.yielded \in Seq(PacketType) /\ Len(handed) \in Nat
  BY DEF IInv, Reader
<1>4. /\ Len(file.blocks) \in Nat /\ Headers(file, links) = 1
      /\ Len(file.blocks) = 1 + Len(handed)
  BY <1>1, <1>2, <1>3, HoldsBlocks DEF Headers
<1>5. /\ k \in 1 .. Len(file.blocks) /\ k + 1 \in 1 .. Len(file.blocks) + 1
      /\ block = file.blocks[k]
      /\ Advance = StartOf(file.blocks, k + 1) /\ Advance \in Nat
  BY <1>1, <1>2, BlockAhead
<1>6. /\ k >= 2 /\ reader.link = links[1] /\ reader.resolution = resolution
      /\ Len(reader.yielded) = Before(k, 1)
      /\ \A i \in 1 .. Len(reader.yielded) :
           reader.yielded[i] = Kept(resolution, handed[i])
  BY <1>1, <1>2, <1>4 DEF Progress
<1>7. PICK n \in Nat : n = k - 2 /\ n = Len(reader.yielded)
  BY <1>5, <1>6 DEF Before
<1>8. n + 1 \in 1 .. Len(handed) /\ 1 + (n + 1) = k
  BY <1>4, <1>5, <1>7
<1>9. packet = Kept(resolution, handed[n + 1])
  <2> DEFINE p == handed[n + 1]
  <2>1. PcapHolds(file.blocks, handed, links[1], resolution)
    BY <1>1, <1>2 DEF Holds
  <2>2. /\ p.link = links[1] /\ Carries(block, p)
        /\ (block.sec * PerSecond) + (block.frac * (PerSecond \div resolution))
             = Kept(resolution, p).time
    <3>1. block = file.blocks[1 + (n + 1)]
      BY <1>5, <1>8
    <3> QED BY <1>8, <2>1, <3>1, Zenon DEF PcapHolds
  <2>3. p \in PacketType
    BY <1>3, <1>8
  <2> HIDE DEF p
  <2>4. Kept(resolution, p) =
          [link |-> p.link, time |-> Kept(resolution, p).time,
           data |-> p.data, original |-> p.original]
    BY <2>3, KeptType
  <2>5. packet = [link |-> p.link, time |-> Kept(resolution, p).time,
                  data |-> p.data, original |-> p.original]
    BY <1>6, <2>2, Zenon DEF Carries
  <2> QED BY <2>4, <2>5 DEF p
<1> HIDE DEF packet
<1>10. /\ Append(reader.yielded, packet) \in Seq(PacketType)
       /\ Len(Append(reader.yielded, packet)) = n + 1
       /\ \A i \in 1 .. n + 1 :
            Append(reader.yielded, packet)[i] = Kept(resolution, handed[i])
  <2> DEFINE y == reader.yielded
  <2>1. y \in Seq(PacketType) /\ Len(y) = n /\ n \in Nat
        /\ \A i \in 1 .. n : y[i] = Kept(resolution, handed[i])
    BY <1>3, <1>6, <1>7, Zenon
  <2>2. Yielded(handed, resolution, y, n)
    BY <2>1 DEF Yielded
  <2>3. Yielded(handed, resolution, Append(y, packet), n + 1)
    BY <1>3, <1>8, <1>9, <2>2, YieldedGrows
  <2> QED BY <2>3 DEF Yielded
<1>11. /\ r \in Reader /\ r.status = reader.status /\ r.offset = Advance
       /\ r.link = reader.link /\ r.resolution = reader.resolution
       /\ r.interfaces = reader.interfaces
       /\ r.yielded = Append(reader.yielded, packet)
  BY <1>3, <1>5, <1>10 DEF Reader
<1> HIDE DEF r
<1>12. Progress(file, handed, r, links, resolution, k + 1)
  <2>1. Before(k + 1, 1) = n + 1
    BY <1>5, <1>7 DEF Before
  <2>2. k + 1 >= 2
    BY <1>5
  <2> QED BY <1>1, <1>4, <1>5, <1>6, <1>10, <1>11, <2>1, <2>2 DEF Progress
<1> QED BY <1>1, <1>2, <1>11, <1>12, AfterReading DEF Reading

(* The blocks of a pcapng file by their place.                               *)
LEMMA PlaceOfBlock ==
  ASSUME IInv, NEW links, NEW resolution, Holds(file, handed, links, resolution),
         file.format = "pcapng", NEW k \in 1 .. Len(file.blocks)
  PROVE  LET h == 1 + Len(links) IN
         /\ Len(links) \in Nat /\ Len(handed) \in Nat
         /\ Len(file.blocks) = h + Len(handed)
         /\ k = 1 => file.blocks[k].kind = "SHB"
         /\ k > 1 /\ k =< h =>
              /\ file.blocks[k].kind \in {"IDB", "IDBRESOL"}
              /\ file.blocks[k].link = links[k - 1]
              /\ file.blocks[k].resolution = resolution
         /\ k > h => file.blocks[k].kind = "EPB"
<1>1. PcapngHolds(file.blocks, handed, links, resolution) /\ handed \in Seq(PacketType)
  BY DEF Holds, IInv
<1>2. /\ Len(links) \in Nat /\ Len(handed) \in Nat
      /\ Len(file.blocks) = (1 + Len(links)) + Len(handed)
  BY <1>1, HoldsBlocks DEF PcapngHolds
<1>3. CASE k = 1
  BY <1>1, <1>2, <1>3 DEF PcapngHolds
<1>4. CASE k > 1 /\ k =< 1 + Len(links)
  <2>1. k - 1 \in 1 .. Len(links) /\ 1 + (k - 1) = k
    BY <1>2, <1>4
  <2>2. /\ file.blocks[1 + (k - 1)].kind \in {"IDB", "IDBRESOL"}
        /\ file.blocks[1 + (k - 1)].link = links[k - 1]
        /\ file.blocks[1 + (k - 1)].resolution = resolution
    BY <1>1, <2>1, Zenon DEF PcapngHolds
  <2> QED BY <1>2, <1>4, <2>1, <2>2
<1>5. CASE k > 1 + Len(links)
  <2>1. PICK i \in 1 .. Len(handed) : (1 + Len(links)) + i = k
    <3>1. k - (1 + Len(links)) \in 1 .. Len(handed)
          /\ (1 + Len(links)) + (k - (1 + Len(links))) = k
      BY <1>2, <1>5
    <3> QED BY <3>1
  <2>2. file.blocks[(1 + Len(links)) + i].kind = "EPB"
    BY <1>1 DEF PcapngHolds
  <2> QED BY <1>2, <1>5, <2>1, <2>2
<1> QED BY <1>2, <1>3, <1>4, <1>5

LEMMA ReadSectionHeaderHolds ==
  ASSUME IInv, ReadSectionHeader
  PROVE  IInv'
<1> DEFINE r == [reader EXCEPT !.interfaces = <<>>, !.offset = Advance]
<1>1. /\ Reading /\ file.format = "pcapng" /\ reader.offset < size /\ Available
      /\ block.kind = "SHB"
      /\ reader' = r /\ UNCHANGED <<handed, file, size, writer>>
  BY DEF ReadSectionHeader, BlockReady
<1>2. PICK links, resolution, k :
        /\ Holds(file, handed, links, resolution)
        /\ Progress(file, handed, reader, links, resolution, k)
        /\ Ended(file, size, writer, reader, k)
  BY <1>1, WhileReading
<1>3. /\ k \in 1 .. Len(file.blocks) /\ k + 1 \in 1 .. Len(file.blocks) + 1
      /\ block = file.blocks[k]
      /\ Advance = StartOf(file.blocks, k + 1) /\ Advance \in Nat
  BY <1>1, <1>2, BlockAhead
<1>4. k = 1 /\ Len(links) \in Nat
  BY <1>1, <1>2, <1>3, PlaceOfBlock, SMTT(40)
<1>5. reader \in Reader /\ <<>> \in Seq([link: Nat, resolution: Nat])
  BY DEF IInv
<1>6. /\ r \in Reader /\ r.status = reader.status /\ r.offset = Advance
      /\ r.interfaces = <<>> /\ r.yielded = reader.yielded
  BY <1>3, <1>5 DEF Reader
<1> HIDE DEF r
<1>7. Progress(file, handed, r, links, resolution, k + 1)
  <2>1. /\ Len(reader.yielded) = Before(k, 1 + Len(links))
        /\ \A i \in 1 .. Len(reader.yielded) :
             reader.yielded[i] = Kept(resolution, handed[i])
    BY <1>1, <1>2 DEF Progress, Headers
  <2>2. Before(k + 1, 1 + Len(links)) = 0 /\ Before(k, 1 + Len(links)) = 0
    BY <1>4 DEF Before
  <2>3. Described(k + 1, links) = 0 /\ Len(<<>>) = 0 /\ ~\E i \in 1 .. 0 : TRUE
    BY <1>4 DEF Described
  <2> QED BY <1>1, <1>3, <1>6, <2>1, <2>2, <2>3 DEF Progress, Headers
<1> QED BY <1>1, <1>2, <1>6, <1>7, AfterReading DEF Reading

LEMMA ReadInterfaceHolds ==
  ASSUME IInv, ReadInterface
  PROVE  IInv'
<1> DEFINE interface == [link |-> block.link, resolution |-> block.resolution]
           r == [reader EXCEPT !.interfaces = Append(@, interface),
                               !.offset     = Advance]
<1>1. /\ Reading /\ file.format = "pcapng" /\ reader.offset < size /\ Available
      /\ block.kind \in {"IDB", "IDBRESOL"}
      /\ reader' = r /\ UNCHANGED <<handed, file, size, writer>>
  BY DEF ReadInterface, BlockReady
<1>2. PICK links, resolution, k :
        /\ Holds(file, handed, links, resolution)
        /\ Progress(file, handed, reader, links, resolution, k)
        /\ Ended(file, size, writer, reader, k)
  BY <1>1, WhileReading
<1>3. /\ k \in 1 .. Len(file.blocks) /\ k + 1 \in 1 .. Len(file.blocks) + 1
      /\ block = file.blocks[k]
      /\ Advance = StartOf(file.blocks, k + 1) /\ Advance \in Nat
  BY <1>1, <1>2, BlockAhead
<1>4. /\ Len(links) \in Nat /\ k > 1 /\ k =< 1 + Len(links)
      /\ block.link = links[k - 1] /\ block.resolution = resolution
  <2>1. /\ Len(links) \in Nat
        /\ k = 1 => block.kind = "SHB"
        /\ k > 1 /\ k =< 1 + Len(links) =>
             block.link = links[k - 1] /\ block.resolution = resolution
        /\ k > 1 + Len(links) => block.kind = "EPB"
    BY <1>1, <1>2, <1>3, PlaceOfBlock
  <2>2. k # 1 /\ ~(k > 1 + Len(links))
    BY <1>1, <2>1
  <2>3. k > 1 /\ k =< 1 + Len(links)
    BY <1>3, <2>1, <2>2
  <2> QED BY <2>1, <2>3
<1>5. /\ reader \in Reader /\ reader.interfaces \in Seq([link: Nat, resolution: Nat])
      /\ Len(reader.interfaces) = Described(k, links)
      /\ \A i \in 1 .. Len(reader.interfaces) :
           reader.interfaces[i] = [link |-> links[i], resolution |-> resolution]
      /\ links \in Seq(Nat) /\ resolution \in Nat
  BY <1>1, <1>2, PerSecondIs DEF IInv, Reader, Progress, Holds, Resolution
<1>6. PICK n \in Nat : n = k - 2 /\ n = Len(reader.interfaces)
  BY <1>3, <1>4, <1>5 DEF Described
<1>7. interface = [link |-> links[n + 1], resolution |-> resolution]
  <2>1. n + 1 = k - 1
    BY <1>3, <1>6
  <2> QED BY <1>4, <2>1
<1>8. interface \in [link: Nat, resolution: Nat]
  <2>1. n + 1 \in 1 .. Len(links)
    BY <1>3, <1>4, <1>6
  <2>2. links[n + 1] \in Nat
    BY <1>5, <2>1
  <2> QED BY <1>5, <1>7, <2>2
<1> HIDE DEF interface
<1> DEFINE s == Append(reader.interfaces, interface)
<1>9. /\ s \in Seq([link: Nat, resolution: Nat]) /\ Len(s) = n + 1
      /\ s[n + 1] = interface /\ \A i \in 1 .. n : s[i] = reader.interfaces[i]
  BY <1>5, <1>6, <1>8
<1>10. \A i \in 1 .. n + 1 : s[i] = [link |-> links[i], resolution |-> resolution]
  <2> HIDE DEF s
  <2> TAKE i \in 1 .. n + 1
  <2>1. CASE i = n + 1
    BY <1>7, <1>9, <2>1
  <2>2. CASE i # n + 1
    <3>1. i \in 1 .. n
      BY <2>2
    <3> QED BY <1>5, <1>6, <1>9, <3>1
  <2> QED BY <2>1, <2>2
<1>11. /\ r \in Reader /\ r.status = reader.status /\ r.offset = Advance
       /\ r.interfaces = s /\ r.yielded = reader.yielded
  BY <1>3, <1>5, <1>9 DEF Reader
<1> HIDE DEF r, s
<1>12. Progress(file, handed, r, links, resolution, k + 1)
  <2>1. /\ Len(reader.yielded) = Before(k, 1 + Len(links))
        /\ \A i \in 1 .. Len(reader.yielded) :
             reader.yielded[i] = Kept(resolution, handed[i])
    BY <1>1, <1>2 DEF Progress, Headers
  <2>2. Before(k + 1, 1 + Len(links)) = 0 /\ Before(k, 1 + Len(links)) = 0
    BY <1>3, <1>4 DEF Before
  <2>3. Described(k + 1, links) = n + 1
    BY <1>3, <1>4, <1>6 DEF Described
  <2> QED BY <1>1, <1>3, <1>9, <1>10, <1>11, <2>1, <2>2, <2>3 DEF Progress, Headers
<1> QED BY <1>1, <1>2, <1>11, <1>12, AfterReading DEF Reading

LEMMA ReadEnhancedPacketHolds ==
  ASSUME IInv, ReadEnhancedPacket
  PROVE  IInv'
<1> DEFINE interface == reader.interfaces[block.iface + 1]
           packet ==
             [link     |-> interface.link,
              time     |-> ((block.high * Word) + block.low)
                             * (PerSecond \div interface.resolution),
              data     |-> SubSeq(block.body, 1, block.captured),
              original |-> block.original]
           r == [reader EXCEPT !.yielded = Append(@, packet), !.offset = Advance]
<1>1. /\ Reading /\ file.format = "pcapng" /\ reader.offset < size /\ Available
      /\ block.kind = "EPB"
      /\ reader' = r /\ UNCHANGED <<handed, file, size, writer>>
  BY DEF ReadEnhancedPacket, BlockReady
<1>2. PICK links, resolution, k :
        /\ Holds(file, handed, links, resolution)
        /\ Progress(file, handed, reader, links, resolution, k)
        /\ Ended(file, size, writer, reader, k)
  BY <1>1, WhileReading
<1>3. /\ reader \in Reader /\ handed \in Seq(PacketType)
      /\ reader.yielded \in Seq(PacketType) /\ Len(handed) \in Nat
  BY DEF IInv, Reader
<1>4. /\ k \in 1 .. Len(file.blocks) /\ k + 1 \in 1 .. Len(file.blocks) + 1
      /\ block = file.blocks[k]
      /\ Advance = StartOf(file.blocks, k + 1) /\ Advance \in Nat
  BY <1>1, <1>2, BlockAhead, Zenon
<1>5. /\ Len(links) \in Nat /\ k > 1 + Len(links)
      /\ Len(file.blocks) = (1 + Len(links)) + Len(handed)
  <2> DEFINE kind == file.blocks[k].kind
  <2>1. /\ Len(links) \in Nat /\ Len(file.blocks) = (1 + Len(links)) + Len(handed)
        /\ k = 1 => kind = "SHB"
        /\ k > 1 /\ k =< 1 + Len(links) => kind \in {"IDB", "IDBRESOL"}
    BY <1>1, <1>2, <1>4, PlaceOfBlock, Zenon
  <2>2. kind = "EPB"
    BY <1>1, <1>4, Zenon
  <2> HIDE DEF kind
  <2>3. k # 1 /\ ~(k > 1 /\ k =< 1 + Len(links))
    BY <2>1, <2>2
  <2>4. k \in Nat \ {0}
    BY <1>4
  <2> QED BY <2>1, <2>3, <2>4
<1>6. /\ Len(reader.yielded) = Before(k, 1 + Len(links))
      /\ Len(reader.interfaces) = Described(k, links)
      /\ \A i \in 1 .. Len(reader.yielded) :
           reader.yielded[i] = Kept(resolution, handed[i])
      /\ \A i \in 1 .. Len(reader.interfaces) :
           reader.interfaces[i] = [link |-> links[i], resolution |-> resolution]
  BY <1>1, <1>2 DEF Progress, Headers
<1>7. Described(k, links) = Len(links) /\ Described(k + 1, links) = Len(links)
  BY <1>4, <1>5 DEF Described
<1>8. PICK n \in Nat : n = (k - (1 + Len(links))) - 1 /\ n = Len(reader.yielded)
  <2>1. Before(k, 1 + Len(links)) = (k - (1 + Len(links))) - 1
    BY <1>5 DEF Before
  <2>2. (k - (1 + Len(links))) - 1 \in Nat
    BY <1>4, <1>5
  <2> QED BY <1>6, <2>1, <2>2
<1>9. n + 1 \in 1 .. Len(handed) /\ (1 + Len(links)) + (n + 1) = k
  BY <1>3, <1>4, <1>5, <1>8
<1>10. packet = Kept(resolution, handed[n + 1])
  <2> DEFINE p == handed[n + 1]
  <2>1. PcapngHolds(file.blocks, handed, links, resolution)
    BY <1>1, <1>2 DEF Holds
  <2>2. /\ block.iface + 1 \in 1 .. Len(links)
        /\ links[block.iface + 1] = p.link /\ Carries(block, p)
        /\ ((block.high * Word) + block.low) * (PerSecond \div resolution)
             = Kept(resolution, p).time
    <3>1. block = file.blocks[(1 + Len(links)) + (n + 1)]
      BY <1>4, <1>9
    <3> QED BY <1>9, <2>1, <3>1, Zenon DEF PcapngHolds
  <2>3. interface.link = p.link /\ interface.resolution = resolution
    <3>1. interface = [link |-> links[block.iface + 1], resolution |-> resolution]
      BY <1>6, <1>7, <2>2, Zenon
    <3> QED BY <2>2, <3>1
  <2>4. p \in PacketType
    BY <1>3, <1>9
  <2> HIDE DEF p, interface
  <2>5. Kept(resolution, p) =
          [link |-> p.link, time |-> Kept(resolution, p).time,
           data |-> p.data, original |-> p.original]
    BY <2>4, KeptType
  <2>6. packet = [link |-> p.link, time |-> Kept(resolution, p).time,
                  data |-> p.data, original |-> p.original]
    BY <2>2, <2>3, Zenon DEF Carries
  <2> QED BY <2>5, <2>6 DEF p
<1> HIDE DEF packet
<1>11. /\ Append(reader.yielded, packet) \in Seq(PacketType)
       /\ Len(Append(reader.yielded, packet)) = n + 1
       /\ \A i \in 1 .. n + 1 :
            Append(reader.yielded, packet)[i] = Kept(resolution, handed[i])
  <2> DEFINE y == reader.yielded
  <2>1. y \in Seq(PacketType) /\ Len(y) = n /\ n \in Nat
        /\ \A i \in 1 .. n : y[i] = Kept(resolution, handed[i])
    BY <1>3, <1>6, <1>8, Zenon
  <2>2. Yielded(handed, resolution, y, n)
    BY <2>1 DEF Yielded
  <2>3. Yielded(handed, resolution, Append(y, packet), n + 1)
    BY <1>3, <1>9, <1>10, <2>2, YieldedGrows
  <2> QED BY <2>3 DEF Yielded
<1>12. /\ r \in Reader /\ r.status = reader.status /\ r.offset = Advance
       /\ r.interfaces = reader.interfaces
       /\ r.yielded = Append(reader.yielded, packet)
  BY <1>3, <1>4, <1>11 DEF Reader
<1> HIDE DEF r
<1>13. Progress(file, handed, r, links, resolution, k + 1)
  <2>1. Before(k + 1, 1 + Len(links)) = n + 1
    BY <1>4, <1>5, <1>8 DEF Before
  <2> QED BY <1>1, <1>4, <1>6, <1>7, <1>11, <1>12, <2>1 DEF Progress, Headers
<1> QED BY <1>1, <1>2, <1>12, <1>13, AfterReading DEF Reading

LEMMA CopyCaptureHolds ==
  ASSUME IInv, CopyCapture
  PROVE  IInv'
<1>1. /\ handed' = reader.yielded /\ file' = NoFile /\ size' = 0 /\ reader' = Closed
      /\ reader.yielded \in Seq(PacketType)
  BY DEF CopyCapture, IInv, Reader
<1> QED BY <1>1, ClosedIsReader DEF IInv

(* Every step keeps the invariant.                                           *)
LEMMA NextHolds == IInv /\ [Next]_vars => IInv'
<1> SUFFICES ASSUME IInv, [Next]_vars PROVE IInv'
  OBVIOUS
<1>1. ASSUME NEW link \in {p.link : p \in Packet} \cup {NoLink}, WritePcap(link)
      PROVE  IInv'
  BY <1>1, WritePcapHolds
<1>2. ASSUME NEW mode \in {"strict", "lenient"}, Open(mode) PROVE IInv'
  BY <1>2, OpenHolds
<1>3. CASE UNCHANGED vars
  BY <1>3 DEF vars, IInv
<1> QED
  BY <1>1, <1>2, <1>3, WritePcapngHolds, AnotherToolHolds, CutFileHolds,
     EndOfFileHolds, TruncatedHolds, ReadRecordHolds, ReadSectionHeaderHolds,
     ReadInterfaceHolds, ReadEnhancedPacketHolds, CopyCaptureHolds DEF Next

(* What is in a file, and how far its reader has come, for every capture.    *)
THEOREM InvariantHolds == Spec => []IInv
<1>1. Init => IInv
  BY InitHolds
<1>2. IInv /\ [Next]_vars => IInv'
  BY NextHolds
<1> QED BY <1>1, <1>2, PTL DEF Spec

----------------------------------------------------------------------------
(* What the invariant says of the two properties.                            *)
LEMMA IInvImpliesCutIsNoticed == IInv => CutIsNoticed
<1> SUFFICES ASSUME IInv PROVE CutIsNoticed
  OBVIOUS
<1>1. CASE reader.status \notin {"done", "raised"}
  BY <1>1 DEF CutIsNoticed
<1>2. CASE reader.status \in {"done", "raised"}
  <2>1. reader.status # "closed" /\ reader # Closed
    BY <1>2, ClosedIsReader
  <2>2. WrittenOK(file, handed, size, writer, reader)
    BY <2>1 DEF IInv
  <2>3. PICK links, resolution, k :
          /\ Progress(file, handed, reader, links, resolution, k)
          /\ Ended(file, size, writer, reader, k)
    BY <2>1, <2>2 DEF WrittenOK
  <2>4. k \in 1 .. Len(file.blocks) + 1 /\ reader.offset = StartOf(file.blocks, k)
    BY <2>3 DEF Progress
  <2>5. reader.status = "done" /\ reader.mode = "strict" => AtBoundary
    <3>1. reader.status = "done" /\ reader.mode = "strict" => reader.offset = size
      BY <2>3 DEF Ended
    <3> QED BY <2>4, <3>1 DEF AtBoundary
  <2>6. reader.status = "raised" =>
          /\ writer = "cut"
          /\ reader.mode = "strict" => ~AtBoundary \/ size = 0
          /\ reader.mode = "lenient" =>
               size < IF file.format = "pcap" THEN 24 ELSE 12
    BY <2>3 DEF Ended, AtBoundary
  <2> QED BY <2>5, <2>6 DEF CutIsNoticed
<1> QED BY <1>1, <1>2

(* A file of microseconds rounds, any other keeps the units.                 *)
LEMMA RecordedIsKept ==
  ASSUME NEW links, NEW resolution, Holds(file, handed, links, resolution),
         handed \in Seq(PacketType), handed # <<>>, NEW p
  PROVE  Recorded(p) = Kept(resolution, p)
<1> DEFINE Counts(i) == file.blocks[i].kind \in {"GLOBAL", "IDB", "IDBRESOL"}
           D == 1 .. Len(file.blocks)
<1>1. /\ DOMAIN file.blocks = D /\ Len(file.blocks) \in Nat
      /\ Len(links) \in Nat /\ Len(handed) \in Nat \ {0}
      /\ Len(file.blocks) = Headers(file, links) + Len(handed)
      /\ file.format \in {"pcap", "pcapng"}
  <2>1. /\ file.blocks \in Seq(Block) /\ Len(links) \in Nat
        /\ Len(file.blocks) = Headers(file, links) + Len(handed)
        /\ file.format \in {"pcap", "pcapng"}
    BY HoldsBlocks
  <2>2. Len(handed) \in Nat /\ Len(handed) # 0
    OBVIOUS
  <2> QED BY <2>1, <2>2
<1>2. /\ \E i \in D : Counts(i) /\ file.blocks[i].resolution = resolution
      /\ \A i \in D : Counts(i) => file.blocks[i].resolution = resolution
  <2>1. CASE file.format = "pcap"
    <3>1. PcapHolds(file.blocks, handed, links[1], resolution)
      BY <2>1 DEF Holds
    <3>2. 1 \in D /\ Counts(1) /\ file.blocks[1].resolution = resolution
      BY <1>1, <3>1 DEF PcapHolds
    <3>3. ASSUME NEW i \in D, i # 1 PROVE file.blocks[i].kind = "RECORD"
      <4>1. i - 1 \in 1 .. Len(handed) /\ 1 + (i - 1) = i
        BY <1>1, <3>1, <3>3 DEF PcapHolds
      <4> QED BY <3>1, <4>1, Zenon DEF PcapHolds
    <3> QED BY <3>2, <3>3
  <2>2. CASE file.format = "pcapng"
    <3>1. PcapngHolds(file.blocks, handed, links, resolution)
      BY <2>2 DEF Holds
    <3>2. Len(file.blocks) = (1 + Len(links)) + Len(handed)
      BY <3>1 DEF PcapngHolds
    <3>3. links # <<>> /\ Len(links) # 0
      <4>1. links \in Seq(Nat) /\ links # <<>>
        BY <3>1 DEF Holds, PcapngHolds
      <4> QED BY <4>1
    <3>4. \A i \in 1 .. Len(links) :
            /\ file.blocks[1 + i].kind \in {"IDB", "IDBRESOL"}
            /\ file.blocks[1 + i].resolution = resolution
      BY <3>1 DEF PcapngHolds
    <3>5. 1 \in 1 .. Len(links) /\ 1 + 1 \in D
      BY <1>1, <3>2, <3>3
    <3>6. Counts(1 + 1) /\ file.blocks[1 + 1].resolution = resolution
      BY <3>4, <3>5
    <3>7. ASSUME NEW i \in D, Counts(i)
          PROVE  file.blocks[i].resolution = resolution
      <4>1. CASE i = 1
        BY <3>1, <3>7, <4>1 DEF PcapngHolds
      <4>2. CASE i > 1 /\ i =< 1 + Len(links)
        <5>1. i - 1 \in 1 .. Len(links) /\ 1 + (i - 1) = i
          BY <1>1, <4>2
        <5> QED BY <3>4, <5>1, Zenon
      <4>3. CASE i > 1 + Len(links)
        <5>1. PICK j \in 1 .. Len(handed) : (1 + Len(links)) + j = i
          <6>1. i - (1 + Len(links)) \in 1 .. Len(handed)
                /\ (1 + Len(links)) + (i - (1 + Len(links))) = i
            BY <1>1, <3>2, <4>3
          <6> QED BY <6>1
        <5>2. file.blocks[(1 + Len(links)) + j].kind = "EPB"
          BY <3>1 DEF PcapngHolds
        <5> QED BY <3>7, <5>1, <5>2
      <4> QED BY <1>1, <4>1, <4>2, <4>3
    <3> QED BY <3>5, <3>6, <3>7
  <2> QED BY <1>1, <2>1, <2>2
<1> DEFINE Units == \E i \in DOMAIN file.blocks :
                      /\ file.blocks[i].kind \in {"GLOBAL", "IDB", "IDBRESOL"}
                      /\ file.blocks[i].resolution # MicroPerSecond
<1>3. Units <=> resolution # MicroPerSecond
  BY <1>1, <1>2
<1>4. Recorded(p) = IF Units THEN p ELSE Rounded(p)
  BY DEF Recorded
<1> HIDE DEF Units
<1> QED BY <1>3, <1>4 DEF Kept

(* The blocks up to the reader's are those that hold what it yielded.        *)
LEMMA WholePacketsRead ==
  ASSUME IInv, NEW links, NEW resolution, NEW k,
         Holds(file, handed, links, resolution),
         k \in 1 .. Len(file.blocks) + 1, StartOf(file.blocks, k) =< size,
         k =< Len(file.blocks) => size < StartOf(file.blocks, k + 1)
  PROVE  WholePackets = Before(k, Headers(file, links))
<1> DEFINE h == Headers(file, links)
           D == 1 .. Len(file.blocks)
           W == {i \in D : /\ file.blocks[i].kind \in {"RECORD", "EPB"}
                           /\ StartOf(file.blocks, i + 1) =< size}
<1>1. handed \in Seq(PacketType) /\ size \in Nat
  BY DEF IInv
<1>2. /\ Sized(file.blocks) /\ DOMAIN file.blocks = D
      /\ Len(file.blocks) \in Nat /\ Len(handed) \in Nat
      /\ h \in Nat \ {0} /\ Len(file.blocks) = h + Len(handed)
      /\ file.format \in {"pcap", "pcapng"}
  BY <1>1, HoldsBlocks DEF Sized
<1>3. \A i \in 1 .. Len(file.blocks) + 1 : StartOf(file.blocks, i) \in Nat
  BY <1>2, StartOfType
<1>4. ASSUME NEW i \in D
      PROVE  file.blocks[i].kind \in {"RECORD", "EPB"} <=> i > h
  <2>1. CASE file.format = "pcapng"
    <3>1. /\ Len(links) \in Nat /\ h = 1 + Len(links)
          /\ i = 1 => file.blocks[i].kind = "SHB"
          /\ i > 1 /\ i =< h => file.blocks[i].kind \in {"IDB", "IDBRESOL"}
          /\ i > h => file.blocks[i].kind = "EPB"
      BY <2>1, PlaceOfBlock DEF Headers
    <3> QED BY <3>1
  <2>2. CASE file.format = "pcap"
    <3>1. PcapHolds(file.blocks, handed, links[1], resolution) /\ h = 1
      BY <2>2 DEF Holds, Headers
    <3>2. CASE i = 1
      BY <3>1, <3>2 DEF PcapHolds
    <3>3. CASE i # 1
      <4>1. i - 1 \in 1 .. Len(handed) /\ 1 + (i - 1) = i /\ i > h
        BY <1>2, <3>1, <3>3
      <4>2. file.blocks[i].kind = "RECORD"
        BY <3>1, <4>1, Zenon DEF PcapHolds
      <4> QED BY <4>1, <4>2
    <3> QED BY <3>2, <3>3
  <2> QED BY <1>2, <2>1, <2>2
<1>5. ASSUME NEW i \in D
      PROVE  StartOf(file.blocks, i + 1) =< size <=> i < k
  <2>1. i + 1 \in 1 .. Len(file.blocks) + 1 /\ k \in Int
    BY <1>2
  <2>2. CASE i < k
    <3>1. CASE i + 1 = k
      BY <2>2, <3>1
    <3>2. CASE i + 1 < k
      BY <1>1, <1>2, <1>3, <2>1, <2>2, <3>2, StartOfGrows, SMTT(40)
    <3> QED BY <1>2, <2>1, <2>2, <3>1, <3>2
  <2>3. CASE ~(i < k)
    <3>1. k =< Len(file.blocks) /\ k + 1 \in 1 .. Len(file.blocks) + 1
      BY <1>2, <2>3
    <3>2. CASE i = k
      BY <1>1, <1>3, <2>1, <2>3, <3>1, <3>2
    <3>3. CASE k < i
      <4>1. StartOf(file.blocks, k + 1) + 12 =< StartOf(file.blocks, i + 1)
        BY <1>2, <2>1, <3>1, <3>3, StartOfGrows
      <4> QED BY <1>1, <1>3, <2>1, <2>3, <3>1, <4>1
    <3> QED BY <1>2, <2>1, <2>3, <3>2, <3>3
  <2> QED BY <2>2, <2>3
<1>6. W = (h + 1) .. (k - 1)
  <2>1. \A i \in D : i \in W <=> i > h /\ i < k
    BY <1>4, <1>5
  <2>2. \A i \in (h + 1) .. (k - 1) : i \in D
    BY <1>2
  <2> HIDE DEF W
  <2>3. W \subseteq D
    BY DEF W
  <2>4. \A i \in D : i > h /\ i < k <=> i \in (h + 1) .. (k - 1)
    BY <1>2
  <2> HIDE DEF D
  <2> QED BY <2>1, <2>2, <2>3, <2>4, Zenon
<1>7. WholePackets = Cardinality(W)
  BY <1>2 DEF WholePackets
<1>8. Cardinality((h + 1) .. (k - 1)) = Before(k, h)
  <2>1. /\ h + 1 \in Int /\ k - 1 \in Int
        /\ (IF h + 1 > k - 1 THEN 0 ELSE (k - 1) - (h + 1) + 1) = Before(k, h)
    BY <1>2 DEF Before
  <2> QED BY <2>1, FS_Interval
<1> HIDE DEF W
<1> QED BY <1>6, <1>7, <1>8

LEMMA IInvImpliesCaptureComesBack == IInv => CaptureComesBack
<1> SUFFICES ASSUME IInv PROVE CaptureComesBack
  OBVIOUS
<1>1. CASE reader.status = "closed"
  BY <1>1 DEF CaptureComesBack
<1>2. CASE reader.status # "closed"
  <2>1. /\ reader # Closed /\ handed \in Seq(PacketType) /\ size \in Nat
        /\ reader.yielded \in Seq(PacketType)
    BY <1>2, ClosedIsReader DEF IInv, Reader
  <2>2. WrittenOK(file, handed, size, writer, reader)
    BY <2>1 DEF IInv
  <2>3. PICK links, resolution, k :
          /\ Holds(file, handed, links, resolution)
          /\ Progress(file, handed, reader, links, resolution, k)
          /\ Ended(file, size, writer, reader, k)
    BY <1>2, <2>1, <2>2 DEF WrittenOK
  <2>4. /\ k \in 1 .. Len(file.blocks) + 1
        /\ reader.offset = StartOf(file.blocks, k)
        /\ Len(reader.yielded) = Before(k, Headers(file, links))
        /\ \A i \in 1 .. Len(reader.yielded) :
             reader.yielded[i] = Kept(resolution, handed[i])
    BY <2>3 DEF Progress
  <2>5. /\ Sized(file.blocks) /\ Len(file.blocks) \in Nat
        /\ Len(handed) \in Nat /\ Headers(file, links) \in Nat
        /\ Len(file.blocks) = Headers(file, links) + Len(handed)
    BY <2>1, <2>3, HoldsBlocks
  <2> DEFINE all == [i \in DOMAIN handed |-> Recorded(handed[i])]
             y   == reader.yielded
  <2>6. IsPrefix(y, all)
    <3>1. Len(y) =< Len(handed) /\ Len(y) \in Nat
      BY <2>4, <2>5 DEF Before
    <3>2. Len(all) = Len(handed) /\ DOMAIN all = 1 .. Len(handed)
      BY <2>1
    <3>3. \A i \in 1 .. Len(y) : y[i] = all[i]
      <4> SUFFICES ASSUME NEW i \in 1 .. Len(y) PROVE y[i] = all[i]
        OBVIOUS
      <4>1. i \in DOMAIN handed /\ handed # <<>>
        BY <2>1, <3>1
      <4>2. Recorded(handed[i]) = Kept(resolution, handed[i])
        BY <2>1, <2>3, <4>1, RecordedIsKept
      <4> QED BY <2>4, <4>1, <4>2
    <3>4. SubSeq(y, 1, Len(y)) = SubSeq(all, 1, Len(y))
      <4> HIDE DEF all, y
      <4> QED BY <3>1, <3>2, <3>3
    <3> HIDE DEF all, y
    <3> QED BY <3>1, <3>2, <3>4 DEF IsPrefix
  <2>7. reader.status = "done" => Len(reader.yielded) = WholePackets
    <3> SUFFICES ASSUME reader.status = "done"
                 PROVE  Len(reader.yielded) = WholePackets
      OBVIOUS
    <3>1. /\ reader.offset =< size
          /\ \/ reader.offset = size
             \/ k =< Len(file.blocks) /\ size < StartOf(file.blocks, k + 1)
      BY <2>3 DEF Ended
    <3>2. k =< Len(file.blocks) => size < StartOf(file.blocks, k + 1)
      <4> SUFFICES ASSUME k =< Len(file.blocks), reader.offset = size
                   PROVE  size < StartOf(file.blocks, k + 1)
        BY <3>1
      <4>1. k + 1 \in 1 .. Len(file.blocks) + 1 /\ k < k + 1
        BY <2>4, <2>5
      <4>2. StartOf(file.blocks, k) + 12 =< StartOf(file.blocks, k + 1)
        BY <2>4, <2>5, <4>1, StartOfGrows
      <4>3. StartOf(file.blocks, k + 1) \in Nat
        BY <2>5, <4>1, StartOfType
      <4> QED BY <2>1, <2>4, <4>2, <4>3
    <3>3. WholePackets = Before(k, Headers(file, links))
      BY <2>3, <2>4, <3>1, <3>2, WholePacketsRead
    <3> QED BY <2>4, <3>3
  <2> QED BY <2>6, <2>7 DEF CaptureComesBack
<1> QED BY <1>1, <1>2

(* A strict reader that ends without an error stopped between two blocks,    *)
(* and no reader raises for a file that was left whole.                      *)
THEOREM CutIsAlwaysNoticed == Spec => []CutIsNoticed
BY InvariantHolds, IInvImpliesCutIsNoticed, PTL

(* The packets come back from either format, to the microsecond or to the    *)
(* unit, in order, and none that the rest of a cut file holds is left out.   *)
THEOREM CapturesAlwaysComeBack == Spec => []CaptureComesBack
BY InvariantHolds, IInvImpliesCaptureComesBack, PTL
=============================================================================
