-------------------------- MODULE CommitteeProofs --------------------------
(***************************************************************************)
(* The committee's promises for any field, any receipts and any number of  *)
(* issuances, failed ones included; and, with the gateway in front, that   *)
(* its certificates are attestations.                                      *)
(***************************************************************************)
EXTENDS Issuance, FiniteSetTheorems, SequenceTheorems, WellFoundedInduction,
        TLAPS

(* The field operations stay in the field.                                 *)
LEMMA FieldOps ==
    ASSUME NEW a \in Int, NEW b \in Int
    PROVE  Add(a, b) \in Field /\ Sub(a, b) \in Field
<1>1. P \in Int /\ P > 0
  BY CommitteeConstants
<1>2. \A x \in Int : x % P \in 0..(P - 1)
  BY <1>1
<1> QED BY <1>1, <1>2 DEF Add, Sub, Field

LEMMA FieldIsInt == Field \subseteq Int
BY CommitteeConstants DEF Field

LEMMA RequestType ==
    ASSUME NEW req \in AggregationRequest
    PROVE  req.receipts \in Seq(Receipts) /\ req.epoch \in Epochs
BY DEF AggregationRequest

LEMMA BatchType ==
    ASSUME NEW receipts \in Seq(Receipts), receipts # <<>>, NEW epoch \in Epochs
    PROVE  BatchKey(receipts[1], epoch) \in Batches
<1>1. receipts[1] \in Receipts
  OBVIOUS
<1> QED BY <1>1, CommitteeConstants DEF BatchKey, Batches

LEMMA FirstReceipt ==
    ASSUME TypeOK, call # Idle, call.receipts # <<>>
    PROVE  BatchOf(call) \in Batches
BY BatchType DEF TypeOK, Call, BatchOf

-----------------------------------------------------------------------------
(* The shares of a rating are field elements, one for each node.           *)
LEMMA ShareType ==
    ASSUME NEW rating \in Int, NEW s1 \in Random, NEW s2 \in Random, NEW n \in Nodes
    PROVE  ShareRating(rating, s1, s2)[n] \in Field
<1>1. s1 \in Field /\ s2 \in Field /\ s1 \in Int /\ s2 \in Int
  BY CommitteeConstants DEF Random, Field
<1>2. Sub(rating, s1) \in Int
  BY <1>1, FieldOps, FieldIsInt
<1>3. Sub(Sub(rating, s1), s2) \in Field
  BY <1>1, <1>2, FieldOps
<1>4. n \in {1, 2, 3}
  BY DEF Nodes, CommitteeSize
<1> QED BY <1>1, <1>3, <1>4 DEF ShareRating

LEMMA PartialSumType ==
    ASSUME TypeOK, NEW n \in Nodes, NEW b \in Batches
    PROVE  PartialSum(n, b) \in Field
<1>1. 0 \in Field
  BY CommitteeConstants DEF Field
<1>2. partials[n][b] \in Field \cup {NoEntry}
  BY DEF TypeOK
<1> QED BY <1>1, <1>2 DEF PartialSum, HasBatch

(* A round of sharing gives every node a partial sum of the batch, and     *)
(* leaves the other batches alone.                                         *)
LEMMA AccumulateType ==
    ASSUME TypeOK, NEW b \in Batches, NEW rating \in Int,
           NEW s1 \in Random, NEW s2 \in Random,
           partials' = Accumulate(b, ShareRating(rating, s1, s2))
    PROVE  /\ partials' \in [Nodes -> [Batches -> Field \cup {NoEntry}]]
           /\ \A n \in Nodes : partials'[n][b] \in Field
           /\ \A n \in Nodes, c \in Batches : c # b => partials'[n][c] = partials[n][c]
<1> DEFINE shares == ShareRating(rating, s1, s2)
<1>1. \A n \in Nodes : Add(PartialSum(n, b), shares[n]) \in Field
  <2> SUFFICES ASSUME NEW n \in Nodes PROVE Add(PartialSum(n, b), shares[n]) \in Field
    OBVIOUS
  <2>1. shares[n] \in Int
    BY ShareType, FieldIsInt
  <2>2. PartialSum(n, b) \in Int
    BY PartialSumType, FieldIsInt
  <2> HIDE DEF shares
  <2> QED BY <2>1, <2>2, FieldOps
<1> HIDE DEF shares
<1>2. partials' = [n \in Nodes |-> [partials[n] EXCEPT ![b] = Add(PartialSum(n, b), shares[n])]]
  BY DEF Accumulate, shares
<1>3. \A n \in Nodes : partials[n] \in [Batches -> Field \cup {NoEntry}]
  BY DEF TypeOK
<1> QED BY <1>1, <1>2, <1>3

LEMMA RatingType ==
    ASSUME NEW receipts \in Seq(Receipts), NEW i \in 1..Len(receipts)
    PROVE  receipts[i].rating \in Nat
BY CommitteeConstants

LEMMA ScoreType ==
    ASSUME TypeOK, NEW b \in Batches
    PROVE  Score(b) \in Field
<1>1. \A n \in Nodes : PartialSum(n, b) \in Int
  BY PartialSumType, FieldIsInt
<1>2. PartialSum(1, b) \in Int /\ PartialSum(2, b) \in Int /\ PartialSum(3, b) \in Int
  BY <1>1 DEF Nodes, CommitteeSize
<1>3. Add(PartialSum(1, b), PartialSum(2, b)) \in Int
  BY <1>2, FieldOps, FieldIsInt
<1> QED BY <1>2, <1>3, FieldOps DEF Score

-----------------------------------------------------------------------------
(* Running totals.  A recursion has a solution at every bound, because the *)
(* bounds that have one contain zero and the successor of each member.     *)
LEMMA Least ==
    ASSUME NEW T, T \subseteq Nat, T # {}
    PROVE  \E x \in T : \A y \in T : x <= y
<1>1. IsWellFoundedOn(OpToRel(<, Nat), Nat)
  BY NatLessThanWellFounded
<1>2. PICK x \in T : \A y \in T : ~(<<y, x>> \in OpToRel(<, Nat))
  BY <1>1, WFMin
<1>3. \A y \in T : ~(y < x)
  BY <1>2 DEF OpToRel
<1> QED BY <1>3

LEMMA UpTo ==
    ASSUME NEW N \in Nat, NEW T, 0 \in T, \A n \in 1..N : n - 1 \in T => n \in T
    PROVE  N \in T
<1> DEFINE Bad == {n \in 0..N : n \notin T}
<1>1. SUFFICES ASSUME Bad # {} PROVE FALSE
  OBVIOUS
<1>2. PICK n \in Bad : \A k \in Bad : n <= k
  <2>1. Bad \subseteq Nat
    OBVIOUS
  <2> HIDE DEF Bad
  <2> QED BY <1>1, <2>1, Least
<1>3. n \in 1..N /\ n - 1 \in 0..N /\ ~(n <= n - 1)
  BY <1>2
<1> QED BY <1>2, <1>3

(* g holds the totals of the first N receipts.                             *)
IsTotals(receipts, g, N) ==
    g = [n \in 0..N |-> IF n = 0 THEN 0 ELSE g[n - 1] + receipts[n].rating]

LEMMA TotalsExtend ==
    ASSUME NEW receipts, NEW N \in Nat \ {0}, NEW g, IsTotals(receipts, g, N - 1)
    PROVE  \E h : IsTotals(receipts, h, N)
<1> DEFINE h == [n \in 0..N |-> IF n < N THEN g[n] ELSE g[N - 1] + receipts[N].rating]
<1>1. \A n \in 0..(N - 1) :
        /\ n < N /\ n \in 0..N
        /\ g[n] = IF n = 0 THEN 0 ELSE g[n - 1] + receipts[n].rating
  BY DEF IsTotals
<1>2. ASSUME NEW n \in 0..N
      PROVE  h[n] = IF n = 0 THEN 0 ELSE h[n - 1] + receipts[n].rating
  <2>1. CASE n = N
    <3>1. N # 0 /\ h[N] = g[N - 1] + receipts[N].rating /\ h[N - 1] = g[N - 1]
      OBVIOUS
    <3> HIDE DEF h
    <3> QED BY <2>1, <3>1
  <2>2. CASE n # N
    <3>1. n \in 0..(N - 1) /\ (n # 0 => n - 1 \in 0..(N - 1))
      BY <2>2
    <3>2. h[n] = g[n] /\ (n # 0 => h[n - 1] = g[n - 1])
      BY <1>1, <3>1
    <3> HIDE DEF h
    <3> QED BY <1>1, <3>1, <3>2
  <2> QED BY <2>1, <2>2
<1>3. h = [n \in 0..N |-> h[n]]
  OBVIOUS
<1>4. h = [n \in 0..N |-> IF n = 0 THEN 0 ELSE h[n - 1] + receipts[n].rating]
  <2> HIDE DEF h
  <2> QED BY <1>2, <1>3
<1> QED BY <1>4 DEF IsTotals

LEMMA TotalsUnfold ==
    ASSUME NEW receipts \in Seq(Receipts)
    PROVE  IsTotals(receipts, RunningTotal(receipts), Len(receipts))
<1> DEFINE T == {N \in Nat : \E g : IsTotals(receipts, g, N)}
<1>1. IsTotals(receipts, [n \in 0..0 |-> 0], 0)
  BY DEF IsTotals
<1>2. 0 \in T /\ \A N \in 1..Len(receipts) : N - 1 \in T => N \in T
  BY <1>1, TotalsExtend
<1>3. Len(receipts) \in T
  <2>1. Len(receipts) \in Nat
    OBVIOUS
  <2> HIDE DEF T
  <2> QED BY <1>2, <2>1, UpTo
<1>4. RunningTotal(receipts) = CHOOSE g : IsTotals(receipts, g, Len(receipts))
  BY DEF RunningTotal, IsTotals
<1> QED BY <1>3, <1>4

LEMMA TotalsNext ==
    ASSUME NEW receipts \in Seq(Receipts)
    PROVE  /\ RunningTotal(receipts)[0] = 0
           /\ \A n \in 1..Len(receipts) :
                RunningTotal(receipts)[n]
                    = RunningTotal(receipts)[n - 1] + receipts[n].rating
<1>1. PICK g : g = RunningTotal(receipts)
  OBVIOUS
<1>2. PICK N \in Nat : N = Len(receipts)
  OBVIOUS
<1>3. IsTotals(receipts, g, N)
  BY <1>1, <1>2, TotalsUnfold
<1>4. \A n \in 0..N : g[n] = IF n = 0 THEN 0 ELSE g[n - 1] + receipts[n].rating
  BY <1>3 DEF IsTotals
<1>5. \A n \in 1..N : n \in 0..N /\ n # 0
  OBVIOUS
<1> QED BY <1>1, <1>2, <1>4, <1>5

LEMMA TotalsType ==
    ASSUME NEW receipts \in Seq(Receipts), NEW n \in 0..Len(receipts)
    PROVE  RunningTotal(receipts)[n] \in Nat
<1> DEFINE T == {k \in 0..n : RunningTotal(receipts)[k] \in Nat}
<1>1. 0 \in T
  BY TotalsNext
<1>2. ASSUME NEW k \in 1..n, k - 1 \in T PROVE k \in T
  <2>1. k \in 1..Len(receipts) /\ Len(receipts) \in Nat
    OBVIOUS
  <2>2. receipts[k].rating \in Nat
    BY <2>1, RatingType
  <2>3. RunningTotal(receipts)[k] = RunningTotal(receipts)[k - 1] + receipts[k].rating
    BY <2>1, TotalsNext
  <2> QED BY <1>2, <2>2, <2>3
<1>3. n \in T
  <2> HIDE DEF T
  <2> QED BY <1>1, <1>2, UpTo
<1> QED BY <1>3

-----------------------------------------------------------------------------
(* The field, as residues of integers.                                     *)
Congruent(x, y) == \E k \in Int : x = y + k * P

LEMMA Residue ==
    ASSUME NEW x \in Int
    PROVE  Congruent(x % P, x)
<1>1. P \in Int /\ P > 0
  BY CommitteeConstants
<1>2. x % P = x + (-(x \div P)) * P /\ x \div P \in Int
  BY <1>1
<1> QED BY <1>2 DEF Congruent

LEMMA CongruentPlus ==
    ASSUME NEW a \in Int, NEW b \in Int, NEW c \in Int, NEW d \in Int,
           Congruent(a, b), Congruent(c, d)
    PROVE  Congruent(a + c, b + d) /\ Congruent(a - c, b - d)
<1>1. P \in Int
  BY CommitteeConstants
<1>2. PICK k \in Int : a = b + k * P
  BY DEF Congruent
<1>3. PICK l \in Int : c = d + l * P
  BY DEF Congruent
<1>4. a + c = (b + d) + (k + l) * P
  BY <1>1, <1>2, <1>3
<1>5. a - c = (b - d) + (k - l) * P
  BY <1>1, <1>2, <1>3
<1>6. k + l \in Int /\ k - l \in Int
  OBVIOUS
<1> QED BY <1>4, <1>5, <1>6 DEF Congruent

LEMMA CongruentTrans ==
    ASSUME NEW a \in Int, NEW b \in Int, NEW c \in Int, Congruent(a, b), Congruent(b, c)
    PROVE  Congruent(a, c)
<1>1. P \in Int
  BY CommitteeConstants
<1>2. PICK k \in Int : a = b + k * P
  BY DEF Congruent
<1>3. PICK l \in Int : b = c + l * P
  BY DEF Congruent
<1>4. a = c + (k + l) * P
  BY <1>1, <1>2, <1>3
<1>5. k + l \in Int
  OBVIOUS
<1> QED BY <1>4, <1>5 DEF Congruent

LEMMA CongruentSame ==
    ASSUME NEW a \in Int
    PROVE  Congruent(a, a)
<1>1. P \in Int
  BY CommitteeConstants
<1>2. a = a + 0 * P
  BY <1>1
<1> QED BY <1>2 DEF Congruent

LEMMA CongruentBack ==
    ASSUME NEW a \in Int, NEW b \in Int, Congruent(a, b)
    PROVE  Congruent(b, a)
<1>1. P \in Int
  BY CommitteeConstants
<1>2. PICK k \in Int : a = b + k * P
  BY DEF Congruent
<1>3. b = a + (-k) * P /\ -k \in Int
  BY <1>1, <1>2
<1> QED BY <1>3 DEF Congruent

LEMMA OneResidue ==
    ASSUME NEW a \in Field, NEW b \in Field, Congruent(a, b)
    PROVE  a = b
<1>1. P \in Int /\ P > 0 /\ a \in 0..(P - 1) /\ b \in 0..(P - 1)
  BY CommitteeConstants DEF Field
<1>2. PICK k \in Int : a = b + k * P
  BY DEF Congruent
<1>3. CASE k >= 1
  <2>1. (k - 1) * P >= 0
    BY <1>1, <1>3
  <2>2. k * P >= P
    BY <1>1, <2>1
  <2> QED BY <1>1, <1>2, <2>2
<1>4. CASE k <= -1
  <2>1. (-1 - k) * P >= 0
    BY <1>1, <1>4
  <2>2. k * P <= -P
    BY <1>1, <2>1
  <2> QED BY <1>1, <1>2, <2>2
<1>5. CASE k = 0
  BY <1>1, <1>2, <1>5
<1> QED BY <1>3, <1>4, <1>5

LEMMA FieldCongruent ==
    ASSUME NEW a \in Int, NEW b \in Int
    PROVE  Congruent(Add(a, b), a + b) /\ Congruent(Sub(a, b), a - b)
BY Residue DEF Add, Sub

(* The score of a batch is the sum of the partial sums.                    *)
LEMMA ScoreCongruent ==
    ASSUME NEW p1 \in Int, NEW p2 \in Int, NEW p3 \in Int
    PROVE  /\ Add(Add(p1, p2), p3) \in Field
           /\ Congruent(Add(Add(p1, p2), p3), p1 + p2 + p3)
<1>1. PICK q : q = Add(p1, p2)
  OBVIOUS
<1>2. q \in Int /\ Congruent(q, p1 + p2)
  BY <1>1, FieldOps, FieldIsInt, FieldCongruent
<1>3. PICK s : s = Add(q, p3)
  OBVIOUS
<1>4. s \in Field /\ s \in Int /\ Congruent(s, q + p3)
  BY <1>2, <1>3, FieldOps, FieldIsInt, FieldCongruent
<1>5. Congruent(q + p3, (p1 + p2) + p3)
  BY <1>2, CongruentSame, CongruentPlus
<1>6. Congruent(s, (p1 + p2) + p3)
  BY <1>2, <1>4, <1>5, CongruentTrans
<1> QED BY <1>1, <1>3, <1>4, <1>6

(* What the third node gets: the rating without the first two shares.      *)
LEMMA LastShare ==
    ASSUME NEW rating \in Int, NEW x \in Int, NEW y \in Int
    PROVE  /\ Sub(Sub(rating, x), y) \in Field
           /\ Congruent(Sub(Sub(rating, x), y), rating - x - y)
<1>1. PICK q : q = Sub(rating, x)
  OBVIOUS
<1>2. q \in Int /\ Congruent(q, rating - x)
  BY <1>1, FieldOps, FieldIsInt, FieldCongruent
<1>3. PICK s : s = Sub(q, y)
  OBVIOUS
<1>4. s \in Field /\ s \in Int /\ Congruent(s, q - y)
  BY <1>2, <1>3, FieldOps, FieldIsInt, FieldCongruent
<1>5. Congruent(q - y, (rating - x) - y)
  BY <1>2, CongruentSame, CongruentPlus
<1>6. Congruent(s, (rating - x) - y)
  BY <1>2, <1>4, <1>5, CongruentTrans
<1> QED BY <1>1, <1>3, <1>4, <1>6

(* A round of sharing moves the sum of the partial sums by the rating.     *)
LEMMA SharesAddUp ==
    ASSUME NEW p1 \in Int, NEW p2 \in Int, NEW p3 \in Int, NEW rating \in Int,
           NEW x \in Int, NEW y \in Int
    PROVE  Congruent(Add(Add(Add(p1, x), Add(p2, y)), Add(p3, Sub(Sub(rating, x), y))),
                     p1 + p2 + p3 + rating)
<1>1. PICK z : z = Sub(Sub(rating, x), y)
  OBVIOUS
<1>2. z \in Int /\ Congruent(z, rating - x - y)
  BY <1>1, LastShare, FieldIsInt
<1>3. PICK q1, q2, q3 : q1 = Add(p1, x) /\ q2 = Add(p2, y) /\ q3 = Add(p3, z)
  OBVIOUS
<1>4. q1 \in Int /\ q2 \in Int /\ q3 \in Int
  BY <1>2, <1>3, FieldOps, FieldIsInt
<1>5. Congruent(q1, p1 + x) /\ Congruent(q2, p2 + y) /\ Congruent(q3, p3 + z)
  BY <1>2, <1>3, FieldCongruent
<1>6. Congruent(p3 + z, p3 + (rating - x - y))
  BY <1>2, CongruentSame, CongruentPlus
<1>7. Congruent(q3, p3 + (rating - x - y))
  BY <1>2, <1>4, <1>5, <1>6, CongruentTrans
<1>8. Congruent(q1 + q2, (p1 + x) + (p2 + y))
  BY <1>4, <1>5, CongruentPlus
<1>9. Congruent((q1 + q2) + q3, ((p1 + x) + (p2 + y)) + (p3 + (rating - x - y)))
  BY <1>4, <1>7, <1>8, CongruentPlus
<1>10. ((p1 + x) + (p2 + y)) + (p3 + (rating - x - y)) = p1 + p2 + p3 + rating
  OBVIOUS
<1>11. PICK s : s = Add(Add(q1, q2), q3)
  OBVIOUS
<1>12. s \in Int /\ Congruent(s, q1 + q2 + q3)
  BY <1>4, <1>11, ScoreCongruent, FieldIsInt
<1>13. Congruent(s, p1 + p2 + p3 + rating)
  BY <1>4, <1>9, <1>10, <1>12, CongruentTrans
<1> QED BY <1>1, <1>3, <1>11, <1>13

(* Two nodes, the third among them, hold x and h of every rating but one:  *)
(* the missing share is not zero.                                          *)
LEMMA Opens ==
    ASSUME NEW r \in Field, NEW x \in Random, NEW h \in Field
    PROVE  \/ Congruent(r, x + h)
           \/ \E y \in Random : ShareRating(r, x, y)[3] = h /\ ShareRating(r, y, x)[3] = h
<1>1. r \in Int /\ x \in Int /\ h \in Int
  BY CommitteeConstants DEF Field, Random
<1>2. PICK y : y = Sub(Sub(r, x), h)
  OBVIOUS
<1>3. y \in Field /\ y \in Int /\ Congruent(y, r - x - h)
  BY <1>1, <1>2, LastShare, FieldIsInt
<1>4. CASE y = 0
  <2>1. Congruent(0 + (x + h), (r - x - h) + (x + h))
    BY <1>1, <1>3, <1>4, CongruentSame, CongruentPlus
  <2>2. 0 + (x + h) = x + h /\ (r - x - h) + (x + h) = r
    BY <1>1
  <2>3. Congruent(x + h, r)
    BY <2>1, <2>2
  <2> QED BY <1>1, <2>3, CongruentBack
<1>5. CASE y # 0
  <2>1. y \in Random
    BY <1>3, <1>5, CommitteeConstants DEF Field, Random
  <2>2. Congruent(r - y, r - (r - x - h))
    BY <1>1, <1>3, CongruentSame, CongruentPlus
  <2>3. r - (r - x - h) = x + h
    BY <1>1
  <2>4. /\ Congruent((r - y) - x, (x + h) - x)
        /\ Congruent((r - x) - y, (r - x) - (r - x - h))
    BY <1>1, <1>3, <2>2, <2>3, CongruentSame, CongruentPlus
  <2>5. (x + h) - x = h /\ (r - x) - (r - x - h) = h
    BY <1>1
  <2>6. PICK u, v : u = Sub(Sub(r, y), x) /\ v = Sub(Sub(r, x), y)
    OBVIOUS
  <2>7. /\ u \in Field /\ v \in Field /\ u \in Int /\ v \in Int
        /\ Congruent(u, r - y - x) /\ Congruent(v, r - x - y)
    BY <1>1, <1>3, <2>6, LastShare, FieldIsInt
  <2>8. Congruent(u, h) /\ Congruent(v, h)
    BY <1>1, <1>3, <2>4, <2>5, <2>7, CongruentTrans
  <2>9. u = h /\ v = h
    BY <2>7, <2>8, OneResidue
  <2> QED BY <2>1, <2>6, <2>9 DEF ShareRating
<1> QED BY <1>4, <1>5

(* What two nodes hold of the shares of one rating leaves every other      *)
(* rating possible, except for one at most.                                *)
LEMMA SharesHide ==
    ASSUME NEW rating \in Int, NEW s1 \in Random, NEW s2 \in Random,
           NEW m \in Nodes, NEW n \in Nodes, m < n
    PROVE  LET split == ShareRating(rating, s1, s2)
           IN Cardinality({r \in Field :
                \A s \in Splits(r) : <<s[m], s[n]>> # <<split[m], split[n]>>}) <= 1
<1>1. PICK h : h = Sub(Sub(rating, s1), s2)
  OBVIOUS
<1>2. h \in Field /\ h \in Int /\ s1 \in Int /\ s2 \in Int
  <2>1. s1 \in Int /\ s2 \in Int
    BY CommitteeConstants DEF Random
  <2> QED BY <1>1, <2>1, LastShare, FieldIsInt
<1>3. ShareRating(rating, s1, s2) = <<s1, s2, h>>
  BY <1>1 DEF ShareRating
<1>4. PICK held : held = <<ShareRating(rating, s1, s2)[m], ShareRating(rating, s1, s2)[n]>>
  OBVIOUS
<1>5. PICK S : S = {r \in Field : \A s \in Splits(r) : <<s[m], s[n]>> # held}
  OBVIOUS
<1>6. \A r \in Field, x \in Random, y \in Random : ShareRating(r, x, y) \in Splits(r)
  BY DEF Splits
<1>7. \A r, x, y : ShareRating(r, x, y)[1] = x /\ ShareRating(r, x, y)[2] = y
  BY DEF ShareRating
<1>8. \/ m = 1 /\ n = 2
      \/ m = 1 /\ n = 3
      \/ m = 2 /\ n = 3
  BY DEF Nodes, CommitteeSize
<1>9. ASSUME NEW r \in S, NEW q \in S PROVE r = q
  <2>1. r \in Field /\ q \in Field /\ r \in Int /\ q \in Int
    BY <1>5, FieldIsInt
  <2>2. CASE m = 1 /\ n = 2
    <3>1. ShareRating(r, s1, s2) \in Splits(r) /\ held = <<s1, s2>>
      BY <1>3, <1>4, <1>6, <2>1, <2>2
    <3> QED BY <1>5, <1>7, <2>2, <3>1
  <2>3. CASE m = 1 /\ n = 3
    <3>1. held = <<s1, h>>
      BY <1>3, <1>4, <2>3
    <3>2. \A t \in S, y \in Random : ShareRating(t, s1, y)[3] # h
      BY <1>5, <1>6, <1>7, <2>3, <3>1
    <3>3. Congruent(r, s1 + h) /\ Congruent(q, s1 + h)
      BY <1>2, <2>1, <3>2, Opens
    <3> QED BY <1>2, <2>1, <3>3, CongruentBack, CongruentTrans, OneResidue
  <2>4. CASE m = 2 /\ n = 3
    <3>1. held = <<s2, h>>
      BY <1>3, <1>4, <2>4
    <3>2. \A t \in S, y \in Random : ShareRating(t, y, s2)[3] # h
      BY <1>5, <1>6, <1>7, <2>4, <3>1
    <3>3. Congruent(r, s2 + h) /\ Congruent(q, s2 + h)
      BY <1>2, <2>1, <3>2, Opens
    <3> QED BY <1>2, <2>1, <3>3, CongruentBack, CongruentTrans, OneResidue
  <2> QED BY <1>8, <2>2, <2>3, <2>4
<1>10. Cardinality(S) <= 1
  <2>1. CASE S = {}
    BY <2>1, FS_EmptySet
  <2>2. CASE S # {}
    <3>1. PICK r : S = {r}
      BY <1>9, <2>2
    <3>2. Cardinality({r}) = 1
      BY FS_Singleton
    <3> QED BY <3>1, <3>2
  <2> QED BY <2>1, <2>2
<1> QED BY <1>4, <1>5, <1>10

-----------------------------------------------------------------------------
(* The inductive invariant.  The running call is about one batch, of which *)
(* there is no certificate yet, and which every node holds as soon as one  *)
(* receipt is shared; every node holds the batch of every certificate.  So *)
(* the tables of the nodes, which forget nothing, stand for the history of *)
(* certificates in the test for an issued batch.                           *)
CallInv ==
    call # Idle =>
        /\ call.receipts # <<>>
        /\ Matches(call)
        /\ call.shared <= Len(call.receipts)
        /\ call.shared > 0 => \A n \in Nodes : HasBatch(n, BatchOf(call))
        /\ \A i \in DOMAIN certificates : certificates[i].batch # BatchOf(call)

CertifiedIsHeld ==
    \A i \in DOMAIN certificates : \A n \in Nodes : HasBatch(n, certificates[i].batch)

IInv ==
    /\ TypeOK
    /\ CallInv
    /\ CertifiedIsHeld
    /\ CertificatesAreUnmixed
    /\ OneCertificatePerBatch

LEMMA InitIInv == Init => IInv
<1> SUFFICES ASSUME Init PROVE IInv
  OBVIOUS
<1>1. certificates = <<>> /\ DOMAIN certificates = {}
  BY DEF Init
<1>2. TypeOK
  <2>1. certificates \in Seq(Certificate)
    BY <1>1
  <2> QED BY <2>1 DEF Init, TypeOK
<1> QED BY <1>1, <1>2 DEF Init, IInv, CallInv, CertifiedIsHeld,
                          CertificatesAreUnmixed, OneCertificatePerBatch

(* A new call: nobody holds the batch, so no certificate has it.           *)
LEMMA BeginStep ==
    ASSUME IInv, NEW req \in AggregationRequest, Begin(req)
    PROVE  IInv'
<1> DEFINE new == Issuing(req, 0)
<1>1. /\ req.receipts \in Seq(Receipts) /\ req.epoch \in Epochs
      /\ req.receipts # <<>>
      /\ Matches(req)
      /\ ~AlreadyIssued(BatchOf(req))
      /\ call' = new
      /\ partials' = partials
      /\ certificates' = certificates
  BY RequestType DEF Begin
<1>2. new \in Call /\ new # Idle
  BY <1>1, CommitteeConstants DEF Call, Issuing
<1>3. TypeOK'
  BY <1>1, <1>2 DEF IInv, TypeOK
<1>4. /\ Matches(new) /\ BatchOf(new) = BatchOf(req)
      /\ new.receipts = req.receipts /\ new.shared = 0
  BY <1>1 DEF Matches, BatchOf, Issuing
<1>5. \A i \in DOMAIN certificates : certificates[i].batch # BatchOf(req)
  BY <1>1 DEF IInv, CertifiedIsHeld, AlreadyIssued, HasBatch, Nodes, CommitteeSize
<1>6. Len(req.receipts) \in Nat
  BY <1>1
<1>7. CallInv'
  <2> HIDE DEF new
  <2> QED BY <1>1, <1>4, <1>5, <1>6 DEF CallInv, Matches, BatchOf
<1>8. CertifiedIsHeld'
  BY <1>1 DEF IInv, CertifiedIsHeld, HasBatch
<1> QED BY <1>1, <1>3, <1>7, <1>8 DEF IInv, CertificatesAreUnmixed, OneCertificatePerBatch

(* A call that ends without a certificate leaves the tables as they are.   *)
LEMMA AbortStep ==
    ASSUME IInv, call' = Idle, UNCHANGED <<partials, certificates>>
    PROVE  IInv'
BY DEF IInv, TypeOK, CallInv, CertifiedIsHeld, HasBatch, CertificatesAreUnmixed,
       OneCertificatePerBatch

LEMMA ShareStep ==
    ASSUME IInv, NEW s1 \in Random, NEW s2 \in Random, ShareNext(s1, s2)
    PROVE  IInv'
<1> DEFINE b == BatchOf(call)
           rating == call.receipts[call.shared + 1].rating
<1>1. /\ call # Idle /\ call \in Call
      /\ call.receipts \in Seq(Receipts) /\ call.receipts # <<>>
      /\ call.shared \in Nat
      /\ call.shared < Len(call.receipts)
      /\ certificates' = certificates
      /\ call' = Issuing(call, call.shared + 1)
      /\ partials' = Accumulate(b, ShareRating(rating, s1, s2))
      /\ Len(call.receipts) \in Nat
  BY DEF IInv, TypeOK, CallInv, Call, ShareNext
<1>2. b \in Batches
  BY <1>1, FirstReceipt DEF IInv
<1>3. rating \in Nat
  BY <1>1, RatingType
<1>4. /\ partials' \in [Nodes -> [Batches -> Field \cup {NoEntry}]]
      /\ \A n \in Nodes : partials'[n][b] \in Field
      /\ \A n \in Nodes, c \in Batches : c # b => partials'[n][c] = partials[n][c]
  BY <1>1, <1>2, <1>3, AccumulateType DEF IInv
<1>5. /\ call' \in Call /\ call' # Idle
      /\ call'.receipts = call.receipts /\ call'.epoch = call.epoch
      /\ call'.shared = call.shared + 1
  BY <1>1, <1>3, CommitteeConstants DEF Call, Issuing
<1>6. BatchOf(call)' = b
  BY <1>5 DEF BatchOf
<1> HIDE DEF b, rating
<1>7. TypeOK'
  BY <1>1, <1>4, <1>5 DEF IInv, TypeOK
<1>8. \A n \in Nodes : partials'[n][b] # NoEntry
  BY <1>4, CommitteeConstants
<1>9. \A n \in Nodes, c \in Batches : HasBatch(n, c) => HasBatch(n, c)'
  <2> SUFFICES ASSUME NEW n \in Nodes, NEW c \in Batches, HasBatch(n, c)
               PROVE  partials'[n][c] # NoEntry
    BY DEF HasBatch
  <2>1. CASE c = b
    BY <2>1, <1>8
  <2>2. CASE c # b
    BY <2>2, <1>4 DEF HasBatch
  <2> QED BY <2>1, <2>2
<1>10. \A i \in DOMAIN certificates : certificates[i].batch \in Batches
  <2>1. certificates \in Seq(Certificate)
    BY DEF IInv, TypeOK
  <2>2. \A i \in DOMAIN certificates : certificates[i] \in Certificate
    BY <2>1
  <2> QED BY <2>2 DEF Certificate
<1>11. CertifiedIsHeld'
  BY <1>1, <1>9, <1>10 DEF IInv, CertifiedIsHeld
<1>12. Matches(call)'
  BY <1>1, <1>5 DEF IInv, CallInv, Matches
<1>13. CallInv'
  <2>1. \A n \in Nodes : HasBatch(n, BatchOf(call))'
    BY <1>6, <1>8 DEF HasBatch
  <2>2. call'.shared <= Len(call'.receipts) /\ call'.receipts # <<>>
    BY <1>1, <1>5
  <2>3. \A i \in DOMAIN certificates' : certificates'[i].batch # BatchOf(call)'
    BY <1>1, <1>6 DEF IInv, CallInv, b
  <2> QED BY <1>12, <2>1, <2>2, <2>3 DEF CallInv
<1> QED BY <1>1, <1>7, <1>11, <1>13 DEF IInv, CertificatesAreUnmixed, OneCertificatePerBatch
(* The certificate is about the batch of the call, which had none.         *)
LEMMA CertifyStep ==
    ASSUME IInv, Certify
    PROVE  IInv'
<1> DEFINE b == BatchOf(call)
           cert == [batch |-> b, score |-> Score(b),
                    receiptCount |-> Len(call.receipts), signers |-> 1..Quorum,
                    receipts |-> call.receipts]
<1>1. /\ call # Idle /\ call \in Call
      /\ call.receipts \in Seq(Receipts) /\ call.receipts # <<>>
      /\ call.shared = Len(call.receipts)
      /\ certificates' = Append(certificates, cert)
      /\ call' = Idle
      /\ partials' = partials
      /\ Len(call.receipts) \in Nat
      /\ certificates \in Seq(Certificate)
  BY DEF IInv, TypeOK, CallInv, Call, Certify
<1>2. b \in Batches
  BY <1>1, FirstReceipt DEF IInv
<1>3. Score(b) \in Field
  BY <1>2, ScoreType DEF IInv
<1>4. /\ \A n \in Nodes : HasBatch(n, b)
      /\ \A i \in DOMAIN certificates : certificates[i].batch # b
      /\ Matches(call)
  <2>1. call.shared > 0
    BY <1>1
  <2> QED BY <1>1, <2>1 DEF IInv, CallInv
<1>5. 1..Quorum \subseteq Nodes
  BY DEF Quorum, Nodes, CommitteeSize
<1>6. \A j \in DOMAIN call.receipts :
        <<call.receipts[j].subject, call.receipts[j].epoch>> = b
  BY <1>4 DEF Matches, BatchOf, BatchKey
<1> HIDE DEF b
<1>7. cert \in Certificate
  BY <1>1, <1>2, <1>3, <1>5 DEF Certificate
<1>8. /\ cert.batch = b /\ cert.receipts = call.receipts
  OBVIOUS
<1> HIDE DEF cert
<1>9. /\ DOMAIN certificates = 1..Len(certificates)
      /\ DOMAIN certificates' = 1..(Len(certificates) + 1)
      /\ Len(certificates) \in Nat
      /\ certificates'[Len(certificates) + 1] = cert
      /\ \A i \in DOMAIN certificates : certificates'[i] = certificates[i]
  BY <1>1, <1>7
<1>10. \A i \in DOMAIN certificates' :
         i \in DOMAIN certificates \/ i = Len(certificates) + 1
  BY <1>9
<1>11. TypeOK'
  <2>1. certificates' \in Seq(Certificate)
    BY <1>1, <1>7
  <2> QED BY <1>1, <2>1 DEF IInv, TypeOK
<1>12. CallInv'
  BY <1>1 DEF CallInv
<1>13. CertifiedIsHeld'
  BY <1>1, <1>4, <1>8, <1>9, <1>10 DEF IInv, CertifiedIsHeld, HasBatch
<1>14. CertificatesAreUnmixed'
  BY <1>6, <1>8, <1>9, <1>10 DEF IInv, CertificatesAreUnmixed
<1>15. OneCertificatePerBatch'
  BY <1>4, <1>8, <1>9, <1>10 DEF IInv, OneCertificatePerBatch
<1> QED BY <1>11, <1>12, <1>13, <1>14, <1>15 DEF IInv

(* Every step of the committee preserves the inductive invariant.          *)
LEMMA NextIInv == IInv /\ [Next]_vars => IInv'
<1> SUFFICES ASSUME IInv, [Next]_vars PROVE IInv'
  OBVIOUS
<1>1. ASSUME UNCHANGED vars PROVE IInv'
  BY <1>1 DEF vars, IInv, TypeOK, CallInv, CertifiedIsHeld, HasBatch,
              CertificatesAreUnmixed, OneCertificatePerBatch
<1>2. ASSUME NEW req \in AggregationRequest, RefuseRequest(req) PROVE IInv'
  BY <1>1, <1>2 DEF RefuseRequest
<1>3. ASSUME NEW req \in AggregationRequest, RefuseBatch(req) PROVE IInv'
  BY <1>1, <1>3 DEF RefuseBatch
<1>4. ASSUME NEW req \in AggregationRequest, Begin(req) PROVE IInv'
  BY <1>4, BeginStep
<1>5. ASSUME NEW s1 \in Random, NEW s2 \in Random, ShareNext(s1, s2) PROVE IInv'
  BY <1>5, ShareStep
<1>6. CASE RandomFails
  BY <1>6, AbortStep DEF RandomFails
<1>7. CASE HashFails
  BY <1>7, AbortStep DEF HashFails
<1>8. CASE Certify
  BY <1>8, CertifyStep
<1> QED BY <1>1, <1>2, <1>3, <1>4, <1>5, <1>6, <1>7, <1>8 DEF Next

LEMMA SpecIInv == Spec => []IInv
<1>1. Init => IInv
  BY InitIInv
<1>2. IInv /\ [Next]_vars => IInv'
  BY NextIInv
<1> QED BY <1>1, <1>2, PTL DEF Spec

-----------------------------------------------------------------------------
(* The values that the nodes hold.  Of a batch that is being shared they   *)
(* hold the running total of the request, and nothing before the first     *)
(* round; after it, the shares of one rating.                              *)
CallValues ==
    call # Idle =>
        /\ TotalRating(call.receipts) < P
        /\ call.shared = 0 => \A n \in Nodes : ~HasBatch(n, BatchOf(call))
        /\ Score(BatchOf(call)) = RunningTotal(call.receipts)[call.shared] % P

FirstShares ==
    call # Idle /\ call.shared = 1 =>
        \E x \in Random, y \in Random : \A n \in Nodes :
            partials[n][BatchOf(call)] = ShareRating(call.receipts[1].rating, x, y)[n]

VInv == CallValues /\ FirstShares /\ ScoreIsTotalRating

LEMMA Residues ==
    ASSUME NEW x \in Int
    PROVE  /\ x % P \in Field
           /\ x \in Field => x % P = x
           /\ \A s \in Field : Congruent(s, x) => s = x % P
<1>1. P \in Int /\ P > 0
  BY CommitteeConstants
<1>2. PICK y : y = x % P
  OBVIOUS
<1>3. y \in 0..(P - 1) /\ Congruent(y, x)
  BY <1>1, <1>2, Residue
<1>4. y \in Field /\ y \in Int
  BY <1>3 DEF Field
<1>5. \A s \in Field : Congruent(s, x) => s = y
  BY <1>3, <1>4, CongruentBack, CongruentTrans, OneResidue, FieldIsInt
<1>6. x \in Field => x = y
  BY <1>5, CongruentSame
<1> QED BY <1>2, <1>4, <1>5, <1>6

LEMMA BeginValues ==
    ASSUME IInv, NEW req \in AggregationRequest, Begin(req)
    PROVE  CallValues' /\ FirstShares'
<1>1. /\ req.receipts \in Seq(Receipts)
      /\ ~AlreadyIssued(BatchOf(req))
      /\ call' = Issuing(req, 0)
      /\ partials' = partials
  BY RequestType DEF Begin
<1>2. call'.shared = 0 /\ call'.receipts = req.receipts /\ BatchOf(call)' = BatchOf(req)
  BY <1>1 DEF Issuing, BatchOf
<1>3. \A n \in Nodes : ~HasBatch(n, BatchOf(call))'
  BY <1>1, <1>2 DEF AlreadyIssued, HasBatch
<1>4. \A n \in Nodes : PartialSum(n, BatchOf(call))' = 0
  BY <1>3 DEF PartialSum
<1>5. 0 \in Field /\ Add(0, 0) = 0
  <2>1. 0 \in Field
    BY CommitteeConstants DEF Field
  <2> QED BY <2>1, Residues DEF Add
<1>6. Score(BatchOf(call))' = 0
  BY <1>4, <1>5 DEF Score, Nodes, CommitteeSize
<1>7. RunningTotal(req.receipts)[0] = 0
  BY <1>1, TotalsNext
<1>8. 0 % P = 0
  BY <1>5, Residues
<1>9. TotalRating(req.receipts) < P
  BY TotalsFit
<1>10. CallValues'
  BY <1>2, <1>3, <1>6, <1>7, <1>8, <1>9 DEF CallValues
<1> QED BY <1>2, <1>10 DEF FirstShares

(* After a round, node n has its partial sum and its share added up.       *)
LEMMA SharedSums ==
    ASSUME IInv, NEW s1 \in Random, NEW s2 \in Random, ShareNext(s1, s2)
    PROVE  LET rating == call.receipts[call.shared + 1].rating
               b == BatchOf(call)
           IN /\ b \in Batches /\ BatchOf(call)' = b
              /\ call.receipts \in Seq(Receipts)
              /\ call.shared \in Nat /\ call.shared + 1 \in 1..Len(call.receipts)
              /\ rating \in Nat
              /\ call # Idle /\ call' # Idle
              /\ call'.receipts = call.receipts /\ call'.shared = call.shared + 1
              /\ \A n \in Nodes :
                    /\ partials'[n][b] = Add(PartialSum(n, b), ShareRating(rating, s1, s2)[n])
                    /\ PartialSum(n, b)' = Add(PartialSum(n, b), ShareRating(rating, s1, s2)[n])
<1> DEFINE b == BatchOf(call)
           rating == call.receipts[call.shared + 1].rating
           shares == ShareRating(rating, s1, s2)
<1>1. /\ call # Idle /\ call \in Call
      /\ call.receipts \in Seq(Receipts) /\ call.receipts # <<>>
      /\ call.shared \in Nat
      /\ call.shared < Len(call.receipts)
      /\ call' = Issuing(call, call.shared + 1)
      /\ partials' = Accumulate(b, shares)
      /\ Len(call.receipts) \in Nat
  BY DEF IInv, TypeOK, CallInv, Call, ShareNext
<1>2. b \in Batches
  BY <1>1, FirstReceipt DEF IInv
<1>3. call.shared + 1 \in 1..Len(call.receipts)
  BY <1>1
<1>4. rating \in Nat
  BY <1>1, <1>3, RatingType
<1>5. /\ call' # Idle
      /\ call'.receipts = call.receipts /\ call'.epoch = call.epoch
      /\ call'.shared = call.shared + 1
  <2>1. Issuing(call, call.shared + 1) \in Call
    BY <1>1 DEF Call, Issuing
  <2> QED BY <1>1, <2>1, CommitteeConstants DEF Call, Issuing
<1>6. BatchOf(call)' = b
  BY <1>5 DEF BatchOf
<1>7. \A n \in Nodes : partials'[n][b] \in Field
  BY <1>1, <1>2, <1>4, AccumulateType DEF IInv
<1> HIDE DEF b, shares
<1>8. \A n \in Nodes : partials[n] \in [Batches -> Field \cup {NoEntry}]
  BY DEF IInv, TypeOK
<1>9. \A n \in Nodes : partials'[n][b] = Add(PartialSum(n, b), shares[n])
  BY <1>1, <1>2, <1>8 DEF Accumulate
<1>10. \A n \in Nodes : PartialSum(n, b)' = partials'[n][b]
  <2>1. b' = b
    BY <1>6 DEF b
  <2>2. \A n \in Nodes : partials'[n][b] # NoEntry
    BY <1>7, CommitteeConstants
  <2> QED BY <2>1, <2>2 DEF PartialSum, HasBatch
<1> QED BY <1>1, <1>2, <1>3, <1>4, <1>5, <1>6, <1>9, <1>10 DEF b, shares

(* ... so the score moves from one running total to the next.              *)
LEMMA ShareScore ==
    ASSUME IInv, CallValues, NEW s1 \in Random, NEW s2 \in Random, ShareNext(s1, s2)
    PROVE  CallValues'
<1> DEFINE rating == call.receipts[call.shared + 1].rating
           total == RunningTotal(call.receipts)[call.shared]
<1>1. PICK b : b = BatchOf(call)
  OBVIOUS
<1>2. PICK r : r = rating
  OBVIOUS
<1>3. PICK t : t = total
  OBVIOUS
<1>4. /\ b \in Batches /\ BatchOf(call)' = b
      /\ call.receipts \in Seq(Receipts)
      /\ call.shared \in Nat /\ call.shared + 1 \in 1..Len(call.receipts)
      /\ r \in Nat
      /\ call # Idle /\ call' # Idle
      /\ call'.receipts = call.receipts /\ call'.shared = call.shared + 1
      /\ \A n \in Nodes :
            PartialSum(n, BatchOf(call))' = Add(PartialSum(n, b), ShareRating(r, s1, s2)[n])
  BY <1>1, <1>2, SharedSums
<1>5. /\ TotalRating(call.receipts) < P
      /\ Score(b) = t % P
  BY <1>1, <1>3, <1>4 DEF CallValues
<1>6. PICK p1, p2, p3 : p1 = PartialSum(1, b) /\ p2 = PartialSum(2, b) /\ p3 = PartialSum(3, b)
  OBVIOUS
<1>7. p1 \in Int /\ p2 \in Int /\ p3 \in Int
  <2>1. \A n \in Nodes : PartialSum(n, b) \in Int
    BY <1>4, PartialSumType, FieldIsInt DEF IInv
  <2> QED BY <1>6, <2>1 DEF Nodes, CommitteeSize
<1>8. s1 \in Int /\ s2 \in Int
  BY CommitteeConstants DEF Random
<1>9. t \in Nat /\ RunningTotal(call.receipts)[call.shared + 1] = t + r
  <2>1. call.shared \in 0..Len(call.receipts)
    BY <1>4
  <2>2. (call.shared + 1) - 1 = call.shared
    BY <1>4
  <2>3. t \in Nat
    BY <1>3, <1>4, <2>1, TotalsType
  <2>4. RunningTotal(call.receipts)[call.shared + 1]
            = RunningTotal(call.receipts)[(call.shared + 1) - 1] + rating
    BY <1>4, TotalsNext
  <2> QED BY <1>2, <1>3, <2>2, <2>3, <2>4
<1> HIDE DEF rating, total
<1>10. PICK new : new = Score(BatchOf(call))'
  OBVIOUS
<1>11. new = Add(Add(Add(p1, s1), Add(p2, s2)), Add(p3, Sub(Sub(r, s1), s2)))
  <2>1. /\ PartialSum(1, BatchOf(call))' = Add(p1, s1)
        /\ PartialSum(2, BatchOf(call))' = Add(p2, s2)
        /\ PartialSum(3, BatchOf(call))' = Add(p3, Sub(Sub(r, s1), s2))
    BY <1>4, <1>6 DEF ShareRating, Nodes, CommitteeSize
  <2> QED BY <1>10, <2>1 DEF Score
<1>12. Congruent(new, p1 + p2 + p3 + r)
  BY <1>7, <1>8, <1>4, <1>11, SharesAddUp
<1>13. new \in Field /\ new \in Int
  <2>1. /\ Add(p1, s1) \in Int /\ Add(p2, s2) \in Int
        /\ Sub(Sub(r, s1), s2) \in Int
    <3>1. Sub(Sub(r, s1), s2) \in Field
      BY <1>4, <1>8, LastShare
    <3>2. Add(p1, s1) \in Field /\ Add(p2, s2) \in Field
      BY <1>7, <1>8, FieldOps
    <3> QED BY <3>1, <3>2, FieldIsInt
  <2>2. Add(p3, Sub(Sub(r, s1), s2)) \in Int
    BY <1>7, <2>1, FieldOps, FieldIsInt
  <2> QED BY <1>11, <2>1, <2>2, ScoreCongruent, FieldIsInt
<1>14. Congruent(t, p1 + p2 + p3)
  <2>1. PICK s : s = Score(b)
    OBVIOUS
  <2>2. s \in Int /\ Congruent(s, p1 + p2 + p3)
    BY <1>6, <1>7, <2>1, ScoreCongruent, FieldIsInt DEF Score
  <2>3. Congruent(s, t)
    BY <1>5, <1>9, <2>1, Residue
  <2> QED BY <1>7, <1>9, <2>2, <2>3, CongruentBack, CongruentTrans
<1>15. Congruent(t + r, p1 + p2 + p3 + r)
  BY <1>4, <1>7, <1>9, <1>14, CongruentSame, CongruentPlus
<1>16. Congruent(new, t + r)
  BY <1>4, <1>7, <1>9, <1>12, <1>13, <1>15, CongruentBack, CongruentTrans
<1>17. new = (t + r) % P
  BY <1>4, <1>9, <1>13, <1>16, Residues
<1>18. call'.shared # 0
  BY <1>4
<1> QED BY <1>4, <1>5, <1>9, <1>10, <1>17, <1>18 DEF CallValues

(* The first round leaves the shares themselves.                           *)
LEMMA ShareFirst ==
    ASSUME IInv, CallValues, NEW s1 \in Random, NEW s2 \in Random, ShareNext(s1, s2)
    PROVE  FirstShares'
<1>1. SUFFICES ASSUME call'.shared = 1
               PROVE  \A n \in Nodes :
                        partials'[n][BatchOf(call)']
                            = ShareRating(call'.receipts[1].rating, s1, s2)[n]
  BY DEF FirstShares
<1>2. PICK b, r : b = BatchOf(call) /\ r = call.receipts[call.shared + 1].rating
  OBVIOUS
<1>3. /\ BatchOf(call)' = b /\ r \in Int
      /\ call # Idle /\ call.shared \in Nat
      /\ call'.receipts = call.receipts /\ call'.shared = call.shared + 1
      /\ \A n \in Nodes :
            partials'[n][b] = Add(PartialSum(n, b), ShareRating(r, s1, s2)[n])
  BY <1>2, SharedSums
<1>4. call.shared = 0
  BY <1>1, <1>3
<1>5. r = call'.receipts[1].rating
  BY <1>2, <1>3, <1>4
<1>6. \A n \in Nodes : PartialSum(n, b) = 0
  BY <1>2, <1>3, <1>4 DEF CallValues, PartialSum
<1>7. \A x \in Field : Add(0, x) = x
  <2> SUFFICES ASSUME NEW x \in Field PROVE Add(0, x) = x
    OBVIOUS
  <2>1. x \in Int
    BY FieldIsInt
  <2>2. 0 + x = x
    BY <2>1
  <2> QED BY <2>1, <2>2, Residues DEF Add
<1>8. \A n \in Nodes : ShareRating(r, s1, s2)[n] \in Field
  BY <1>3, ShareType
<1> QED BY <1>3, <1>5, <1>6, <1>7, <1>8

(* What is certified is the whole total, and it fits the field.            *)
LEMMA CertifyValues ==
    ASSUME IInv, VInv, Certify
    PROVE  ScoreIsTotalRating'
<1>1. PICK b : b = BatchOf(call)
  OBVIOUS
<1>2. PICK cert : cert = [batch |-> b, score |-> Score(b),
                          receiptCount |-> Len(call.receipts), signers |-> 1..Quorum,
                          receipts |-> call.receipts]
  OBVIOUS
<1>3. /\ call # Idle
      /\ call.receipts \in Seq(Receipts) /\ call.receipts # <<>>
      /\ call.shared = Len(call.receipts)
      /\ certificates' = Append(certificates, cert)
      /\ certificates \in Seq(Certificate)
  BY <1>1, <1>2 DEF IInv, TypeOK, CallInv, Call, Certify
<1>4. PICK t : t = RunningTotal(call.receipts)[call.shared]
  OBVIOUS
<1>5. Score(b) = t % P /\ t < P /\ t = TotalRating(call.receipts)
  BY <1>1, <1>3, <1>4 DEF VInv, CallValues, TotalRating
<1>6. t \in Nat
  <2>1. call.shared \in 0..Len(call.receipts)
    BY <1>3
  <2> QED BY <1>3, <1>4, <2>1, TotalsType
<1>7. t \in Field
  BY <1>5, <1>6, CommitteeConstants DEF Field
<1>8. cert.score = TotalRating(cert.receipts) /\ cert.receiptCount = Len(cert.receipts)
  BY <1>2, <1>5, <1>6, <1>7, Residues
<1>9. /\ DOMAIN certificates = 1..Len(certificates)
      /\ DOMAIN certificates' = 1..(Len(certificates) + 1)
      /\ Len(certificates) \in Nat
      /\ certificates'[Len(certificates) + 1] = cert
      /\ \A i \in DOMAIN certificates : certificates'[i] = certificates[i]
  <2> HIDE <1>8
  <2> QED BY <1>3
<1>10. \A i \in DOMAIN certificates' :
         i \in DOMAIN certificates \/ i = Len(certificates) + 1
  BY <1>9
<1> QED BY <1>8, <1>9, <1>10 DEF VInv, ScoreIsTotalRating

LEMMA InitVInv == Init => VInv
<1> SUFFICES ASSUME Init PROVE VInv
  OBVIOUS
<1>1. call = Idle /\ DOMAIN certificates = {}
  BY DEF Init
<1> QED BY <1>1 DEF VInv, CallValues, FirstShares, ScoreIsTotalRating

LEMMA NextVInv == IInv /\ VInv /\ [Next]_vars => VInv'
<1> SUFFICES ASSUME IInv, VInv, [Next]_vars PROVE VInv'
  OBVIOUS
<1>1. ASSUME call' = Idle, UNCHANGED certificates PROVE VInv'
  BY <1>1 DEF VInv, CallValues, FirstShares, ScoreIsTotalRating
<1>2. ASSUME UNCHANGED vars PROVE VInv'
  BY <1>2 DEF vars, VInv, CallValues, FirstShares, ScoreIsTotalRating, Score,
              PartialSum, HasBatch, BatchOf
<1>3. ASSUME NEW req \in AggregationRequest, RefuseRequest(req) \/ RefuseBatch(req)
      PROVE  VInv'
  BY <1>2, <1>3 DEF RefuseRequest, RefuseBatch
<1>4. ASSUME NEW req \in AggregationRequest, Begin(req) PROVE VInv'
  <2>1. ScoreIsTotalRating'
    BY <1>4 DEF VInv, ScoreIsTotalRating, Begin
  <2> QED BY <1>4, <2>1, BeginValues DEF VInv
<1>5. ASSUME NEW s1 \in Random, NEW s2 \in Random, ShareNext(s1, s2) PROVE VInv'
  <2>1. ScoreIsTotalRating'
    BY <1>5 DEF VInv, ScoreIsTotalRating, ShareNext
  <2> QED BY <1>5, <2>1, ShareScore, ShareFirst DEF VInv
<1>6. CASE RandomFails \/ HashFails
  BY <1>1, <1>6 DEF RandomFails, HashFails
<1>7. CASE Certify
  <2>1. call' = Idle
    BY <1>7 DEF Certify
  <2> QED BY <1>7, <2>1, CertifyValues DEF VInv, CallValues, FirstShares
<1> QED BY <1>2, <1>3, <1>4, <1>5, <1>6, <1>7 DEF Next

LEMMA SpecVInv == Spec => []VInv
  BY SpecIInv, InitVInv, NextVInv, PTL DEF Spec

LEMMA SharesHidden == IInv /\ VInv => TwoSharesHideRating
<1> SUFFICES ASSUME IInv, VInv, call # Idle, call.shared = 1,
                    NEW m \in Nodes, NEW n \in Nodes, m < n
             PROVE  LET held == <<partials[m][BatchOf(call)], partials[n][BatchOf(call)]>>
                    IN Cardinality({r \in Field :
                          \A s \in Splits(r) : <<s[m], s[n]>> # held}) <= 1
  BY DEF TwoSharesHideRating
<1>1. PICK r : r = call.receipts[1].rating
  OBVIOUS
<1>2. r \in Int
  <2>1. call.receipts \in Seq(Receipts) /\ 1 \in 1..Len(call.receipts)
    BY DEF IInv, TypeOK, CallInv, Call
  <2> QED BY <1>1, <2>1, RatingType
<1>3. PICK x \in Random, y \in Random : \A k \in Nodes :
          partials[k][BatchOf(call)] = ShareRating(r, x, y)[k]
  BY <1>1 DEF VInv, FirstShares
<1>4. /\ partials[m][BatchOf(call)] = ShareRating(r, x, y)[m]
      /\ partials[n][BatchOf(call)] = ShareRating(r, x, y)[n]
  BY <1>3
<1> QED BY <1>2, <1>4, SharesHide

-----------------------------------------------------------------------------
(* The nodes' tables only ever hold field elements, however the random     *)
(* shares of a rating fall and however many ratings are added up, and so   *)
(* do the scores that are certified (ShareRating, Accumulate and           *)
(* IssueScoreCertificate).                                                 *)
THEOREM TypeCorrect == Spec => []TypeOK
<1>1. IInv => TypeOK
  BY DEF IInv
<1> QED BY SpecIInv, <1>1, PTL

(* All receipts behind a certificate are about the passport, manifest,     *)
(* domain and epoch it names, although only the request as a whole was     *)
(* compared and only its first receipt names the batch.                    *)
THEOREM Unmixed == Spec => []CertificatesAreUnmixed
<1>1. IInv => CertificatesAreUnmixed
  BY DEF IInv
<1> QED BY SpecIInv, <1>1, PTL

(* A batch is certified at most once, although the nodes remember shares   *)
(* and no certificate: IssueScoreCertificate asks hasBatch of its nodes.   *)
THEOREM OncePerBatch == Spec => []OneCertificatePerBatch
<1>1. IInv => OneCertificatePerBatch
  BY DEF IInv
<1> QED BY SpecIInv, <1>1, PTL

(* The score of a certificate is the total rating of the receipts of its   *)
(* own request, and its count is their number: for any random shares, with *)
(* partial sums that wrap around in the field, after any number of         *)
(* issuances that failed half-way (IssueScoreCertificate).                 *)
THEOREM ScoresAreTotals == Spec => []ScoreIsTotalRating
<1>1. VInv => ScoreIsTotalRating
  BY DEF VInv
<1> QED BY SpecVInv, <1>1, PTL

(* Two nodes that put together what they hold of the first rating of a     *)
(* batch can rule out one rating at most, in a field of any size           *)
(* (ShareRating).                                                          *)
THEOREM TwoSharesHide == Spec => []TwoSharesHideRating
BY SpecIInv, SpecVInv, SharesHidden, PTL

-----------------------------------------------------------------------------
(* Totals of sets of receipts, as Attestation counts them: over subsets of *)
(* a finite set, one receipt after the other in an order nobody knows.     *)
Some(s) == CHOOSE r \in s : TRUE

IsSum(S, g) ==
    g = [s \in SUBSET S |->
            IF s = {} THEN 0 ELSE Some(s).rating + g[s \ {Some(s)}]]

Sum(S) == CHOOSE g : IsSum(S, g)

UpToSize(S, N) == {s \in SUBSET S : Cardinality(s) <= N}

IsSumUpTo(S, g, N) ==
    g = [s \in UpToSize(S, N) |->
            IF s = {} THEN 0 ELSE Some(s).rating + g[s \ {Some(s)}]]

LEMMA TotalOfIsSum ==
    ASSUME NEW S
    PROVE  Abstract!TotalOf(S) = Sum(S)[S]
BY DEF Abstract!TotalOf, Abstract!MapThenSumSet, Abstract!MapThenFoldSet, Sum, IsSum, Some

(* The rest of a set without one of its members.                           *)
LEMMA TheRest ==
    ASSUME NEW S, IsFiniteSet(S), NEW s \in SUBSET S, NEW r \in s
    PROVE  /\ s \ {r} \in SUBSET S
           /\ Cardinality(s) \in Nat \ {0}
           /\ Cardinality(s \ {r}) = Cardinality(s) - 1
<1>1. IsFiniteSet(s)
  BY FS_Subset
<1>2. Cardinality(s) \in Nat /\ Cardinality(s \ {r}) = Cardinality(s) - 1
  BY <1>1, FS_CardinalityType, FS_RemoveElement
<1>3. Cardinality(s) # 0
  BY <1>1, FS_EmptySet
<1> QED BY <1>2, <1>3

LEMMA SomeIsMember ==
    ASSUME NEW s, s # {}
    PROVE  Some(s) \in s
BY DEF Some

LEMMA SumExtends ==
    ASSUME NEW S, IsFiniteSet(S), NEW N \in Nat \ {0}, NEW g, IsSumUpTo(S, g, N - 1)
    PROVE  \E h : IsSumUpTo(S, h, N)
<1> DEFINE h == [s \in UpToSize(S, N) |->
                    IF s = {} THEN 0
                    ELSE Some(s).rating + g[s \ {Some(s)}]]
<1>1. ASSUME NEW s \in UpToSize(S, N), s # {}
      PROVE  g[s \ {Some(s)}] = h[s \ {Some(s)}]
  <2>1. PICK u : u = s \ {Some(s)}
    OBVIOUS
  <2>2. u \in UpToSize(S, N - 1) /\ u \in UpToSize(S, N)
    <3>1. Some(s) \in s /\ s \in SUBSET S /\ Cardinality(s) <= N
      BY <1>1, SomeIsMember DEF UpToSize
    <3>2. /\ u \in SUBSET S /\ Cardinality(s) \in Nat
          /\ Cardinality(u) = Cardinality(s) - 1
      BY <2>1, <3>1, TheRest
    <3> QED BY <3>1, <3>2 DEF UpToSize
  <2>3. g[u] = IF u = {} THEN 0 ELSE Some(u).rating + g[u \ {Some(u)}]
    BY <2>2 DEF IsSumUpTo
  <2>4. h[u] = IF u = {} THEN 0 ELSE Some(u).rating + g[u \ {Some(u)}]
    BY <2>2
  <2> QED BY <2>1, <2>3, <2>4
<1>2. h = [s \in UpToSize(S, N) |->
            IF s = {} THEN 0 ELSE Some(s).rating + h[s \ {Some(s)}]]
  <2>1. \A s \in UpToSize(S, N) :
            h[s] = IF s = {} THEN 0 ELSE Some(s).rating + h[s \ {Some(s)}]
    BY <1>1
  <2>2. h = [s \in UpToSize(S, N) |-> h[s]]
    OBVIOUS
  <2> HIDE DEF h
  <2> QED BY <2>1, <2>2
<1> QED BY <1>2 DEF IsSumUpTo

LEMMA SumUnfolds ==
    ASSUME NEW S, IsFiniteSet(S)
    PROVE  /\ Sum(S)[{}] = 0
           /\ \A s \in SUBSET S :
                s # {} => Sum(S)[s] = Some(s).rating + Sum(S)[s \ {Some(s)}]
<1> DEFINE T == {N \in Nat : \E g : IsSumUpTo(S, g, N)}
<1>1. PICK size : size = Cardinality(S)
  OBVIOUS
<1>2. size \in Nat
  BY <1>1, FS_CardinalityType
<1>3. 0 \in T
  <2>1. UpToSize(S, 0) = {{}}
    <3>1. \A s \in SUBSET S : Cardinality(s) <= 0 <=> s = {}
      <4> SUFFICES ASSUME NEW s \in SUBSET S PROVE Cardinality(s) <= 0 <=> s = {}
        OBVIOUS
      <4>1. IsFiniteSet(s)
        BY FS_Subset
      <4> QED BY <4>1, FS_EmptySet, FS_CardinalityType
    <3> QED BY <3>1 DEF UpToSize
  <2>2. IsSumUpTo(S, [s \in {{}} |-> 0], 0)
    BY <2>1 DEF IsSumUpTo
  <2> QED BY <2>2
<1>4. \A N \in 1..size : N - 1 \in T => N \in T
  BY SumExtends
<1>5. size \in T
  <2> HIDE DEF T
  <2> QED BY <1>2, <1>3, <1>4, UpTo
<1>6. UpToSize(S, size) = SUBSET S
  BY <1>1, FS_Subset DEF UpToSize
<1>7. \E g : IsSum(S, g)
  BY <1>5, <1>6 DEF IsSum, IsSumUpTo
<1>8. IsSum(S, Sum(S))
  BY <1>7 DEF Sum
<1>9. PICK g : g = Sum(S)
  OBVIOUS
<1>10. g = [s \in SUBSET S |-> IF s = {} THEN 0 ELSE Some(s).rating + g[s \ {Some(s)}]]
  BY <1>8, <1>9 DEF IsSum
<1>11. \A s \in SUBSET S : g[s] = IF s = {} THEN 0 ELSE Some(s).rating + g[s \ {Some(s)}]
  BY <1>10
<1>12. {} \in SUBSET S
  OBVIOUS
<1> QED BY <1>9, <1>11, <1>12

(* The order does not matter: any member may be counted first.             *)
LEMMA SumOfRest ==
    ASSUME NEW S, IsFiniteSet(S), \A r \in S : r.rating \in Int
    PROVE  \A s \in SUBSET S :
                /\ Sum(S)[s] \in Int
                /\ \A r \in s : Sum(S)[s] = r.rating + Sum(S)[s \ {r}]
<1>1. PICK g : g = Sum(S)
  OBVIOUS
<1> DEFINE Right(s) == g[s] \in Int /\ \A r \in s : g[s] = r.rating + g[s \ {r}]
           T == {N \in Nat : \A s \in SUBSET S : Cardinality(s) <= N => Right(s)}
<1>2. /\ g[{}] = 0
      /\ \A s \in SUBSET S : s # {} => g[s] = Some(s).rating + g[s \ {Some(s)}]
  BY <1>1, SumUnfolds
<1>3. \A s \in SUBSET S : Cardinality(s) \in Nat /\ (Cardinality(s) = 0 <=> s = {})
  BY FS_Subset, FS_CardinalityType, FS_EmptySet
<1>4. 0 \in T
  <2>1. Right({})
    BY <1>2
  <2>2. \A s \in SUBSET S : Cardinality(s) <= 0 => s = {}
    BY <1>3
  <2> HIDE DEF Right
  <2> QED BY <2>1, <2>2
<1>5. ASSUME NEW N \in Nat \ {0}, N - 1 \in T PROVE N \in T
  <2>0. Right({})
    BY <1>2
  <2> SUFFICES ASSUME NEW s \in SUBSET S, Cardinality(s) <= N, s # {}
               PROVE  Right(s)
    <3> HIDE DEF Right
    <3> QED BY <2>0
  <2>1. PICK c : c = Some(s)
    OBVIOUS
  <2>2. c \in s /\ c.rating \in Int /\ g[s] = c.rating + g[s \ {c}]
    BY <1>2, <2>1, SomeIsMember
  <2>3. \A u \in SUBSET S : Cardinality(u) <= N - 1 => Right(u)
    BY <1>5
  <2>4. \A r \in s : s \ {r} \in SUBSET S /\ Right(s \ {r})
    <3> SUFFICES ASSUME NEW r \in s PROVE s \ {r} \in SUBSET S /\ Right(s \ {r})
      OBVIOUS
    <3>1. /\ s \ {r} \in SUBSET S /\ Cardinality(s) \in Nat
          /\ Cardinality(s \ {r}) = Cardinality(s) - 1
      BY TheRest
    <3>2. Cardinality(s \ {r}) <= N - 1
      BY <3>1
    <3> HIDE DEF Right
    <3> QED BY <2>3, <3>1, <3>2
  <2>5. ASSUME NEW r \in s, r # c PROVE g[s] = r.rating + g[s \ {r}]
    <3>1. PICK u : u = s \ {c, r}
      OBVIOUS
    <3>2. (s \ {c}) \ {r} = u /\ (s \ {r}) \ {c} = u /\ r \in s \ {c} /\ c \in s \ {r}
      BY <2>2, <2>5, <3>1
    <3>3. g[s \ {c}] = r.rating + g[u] /\ g[s \ {r}] = c.rating + g[u]
      BY <2>2, <2>4, <3>2
    <3>4. g[u] \in Int /\ r.rating \in Int
      <4>1. u \in SUBSET S /\ Cardinality(u) <= N - 1
        <5>1. /\ s \ {c} \in SUBSET S /\ Cardinality(s) \in Nat
              /\ Cardinality(s \ {c}) = Cardinality(s) - 1
          BY <2>2, TheRest
        <5>2. /\ (s \ {c}) \ {r} \in SUBSET S
              /\ Cardinality((s \ {c}) \ {r}) = Cardinality(s \ {c}) - 1
          BY <3>2, <5>1, TheRest
        <5> QED BY <3>2, <5>1, <5>2
      <4> QED BY <2>3, <4>1
    <3> QED BY <2>2, <3>3, <3>4
  <2>6. g[s \ {c}] \in Int
    BY <2>2, <2>4
  <2>7. g[s] \in Int
    BY <2>2, <2>6
  <2>8. ASSUME NEW r \in s PROVE g[s] = r.rating + g[s \ {r}]
    <3>1. CASE r = c
      BY <2>2, <3>1
    <3> QED BY <2>5, <3>1
  <2> QED BY <2>7, <2>8
<1>6. \A s \in SUBSET S : Right(s)
  <2> SUFFICES ASSUME NEW s \in SUBSET S PROVE Right(s)
    OBVIOUS
  <2>1. Cardinality(s) \in Nat
    BY <1>3
  <2>2. Cardinality(s) \in T
    <3> HIDE DEF T
    <3> QED BY <1>4, <1>5, <2>1, UpTo
  <2> HIDE DEF Right
  <2> QED BY <2>1, <2>2
<1> QED BY <1>1, <1>6

(* A list in which no receipt occurs twice adds up to the total of the set *)
(* of its receipts, and is as long as the set is large.                    *)
LEMMA ListAddsUp ==
    ASSUME NEW q \in Seq(Receipts),
           \A i, j \in 1..Len(q) : Given(q[i]) = Given(q[j]) => i = j
    PROVE  LET S == {Given(q[i]) : i \in 1..Len(q)}
           IN /\ Abstract!TotalOf(S) = TotalRating(q)
              /\ Cardinality(S) = Len(q)
<1>1. PICK g : g = [i \in 1..Len(q) |-> Given(q[i])]
  OBVIOUS
<1>2. PICK n \in Nat : n = Len(q)
  OBVIOUS
<1> DEFINE Upto(k) == {g[i] : i \in 1..k}
<1>3. PICK S : S = Upto(n)
  OBVIOUS
<1>4. /\ \A i \in 1..n : g[i] = Given(q[i]) /\ g[i] \in S
      /\ \A i, j \in 1..n : g[i] = g[j] => i = j
  BY <1>1, <1>2, <1>3
<1>5. IsFiniteSet(S) /\ Cardinality(S) = n
  <2>1. g \in [1..n -> S]
    BY <1>1, <1>2, <1>3
  <2>2. g \in Injection(1..n, S)
    BY <1>4, <2>1 DEF Injection, IsInjective
  <2>3. g \in Surjection(1..n, S)
    BY <1>3, <2>1 DEF Surjection
  <2>4. g \in Bijection(1..n, S)
    BY <2>2, <2>3 DEF Bijection
  <2>5. ExistsBijection(1..n, S)
    BY <2>4 DEF ExistsBijection
  <2> QED BY <2>5, FS_CountingElements, FS_NatBijection
<1>6. \A i \in 1..n : g[i].rating = q[i].rating /\ q[i].rating \in Nat
  <2>1. \A r : Given(r).rating = r.rating
    BY DEF Given
  <2> QED BY <1>2, <1>4, <2>1, RatingType
<1>7. \A r \in S : r.rating \in Int
  BY <1>3, <1>6
<1> DEFINE T == {k \in 0..n : Sum(S)[Upto(k)] = RunningTotal(q)[k]}
<1>8. 0 \in T
  <2>1. Upto(0) = {}
    OBVIOUS
  <2>2. Sum(S)[{}] = 0
    BY <1>5, SumUnfolds
  <2>3. RunningTotal(q)[0] = 0
    BY TotalsNext
  <2>4. Sum(S)[Upto(0)] = RunningTotal(q)[0]
    BY <2>1, <2>2, <2>3
  <2> HIDE DEF Upto
  <2> QED BY <2>4
<1>9. ASSUME NEW k \in 1..n, k - 1 \in T PROVE k \in T
  <2>1. Upto(k) \in SUBSET S /\ g[k] \in Upto(k)
    BY <1>3
  <2>2. Upto(k) \ {g[k]} = Upto(k - 1)
    <3>1. \A i \in 1..k : i \in 1..n /\ (i = k \/ i \in 1..(k - 1))
      OBVIOUS
    <3>2. \A i \in 1..(k - 1) : i \in 1..k /\ i \in 1..n /\ i # k
      OBVIOUS
    <3>3. \A i \in 1..(k - 1) : g[i] # g[k]
      BY <1>4, <3>2
    <3> QED BY <3>1, <3>2, <3>3
  <2>3. Sum(S)[Upto(k)] = g[k].rating + Sum(S)[Upto(k) \ {g[k]}]
    <3>1. PICK s, r : s = Upto(k) /\ r = g[k]
      OBVIOUS
    <3>2. s \in SUBSET S /\ r \in s
      BY <2>1, <3>1
    <3>3. Sum(S)[s] = r.rating + Sum(S)[s \ {r}]
      BY <1>5, <1>7, <3>2, SumOfRest
    <3> QED BY <3>1, <3>3
  <2>4. RunningTotal(q)[k] = RunningTotal(q)[k - 1] + q[k].rating
    BY <1>2, TotalsNext
  <2>5. RunningTotal(q)[k - 1] \in Int
    <3>1. k - 1 \in 0..Len(q)
      BY <1>2
    <3> QED BY <3>1, TotalsType
  <2>6. Sum(S)[Upto(k)] = RunningTotal(q)[k]
    <3>1. Sum(S)[Upto(k - 1)] = RunningTotal(q)[k - 1]
      BY <1>9
    <3>2. g[k].rating = q[k].rating /\ q[k].rating \in Int
      BY <1>6
    <3>3. Sum(S)[Upto(k)] = g[k].rating + Sum(S)[Upto(k - 1)]
      BY <2>2, <2>3
    <3>4. PICK t : t = RunningTotal(q)[k - 1]
      OBVIOUS
    <3>5. Sum(S)[Upto(k)] = q[k].rating + t /\ RunningTotal(q)[k] = t + q[k].rating
      BY <2>4, <3>1, <3>2, <3>3, <3>4
    <3> HIDE DEF Upto
    <3> QED BY <2>5, <3>2, <3>4, <3>5
  <2> QED BY <2>6
<1>10. n \in T
  <2> HIDE DEF T
  <2> QED BY <1>8, <1>9, UpTo
<1>11. Abstract!TotalOf(S) = TotalRating(q)
  <2>1. Sum(S)[S] = RunningTotal(q)[n]
    BY <1>3, <1>10
  <2> QED BY <1>2, <2>1, TotalOfIsSum DEF TotalRating
<1>12. S = {Given(q[i]) : i \in 1..Len(q)}
  BY <1>1, <1>2, <1>3
<1> QED BY <1>2, <1>5, <1>11, <1>12

-----------------------------------------------------------------------------
(* The gateway as Issuance uses it: its steps are steps of InputGateway,   *)
(* so what is proved of them there holds here.                             *)
GP == INSTANCE InputGatewayProofs

LEMMA GatewayAssumed ==
    /\ GP!GatewayConstants
    /\ GP!SignatureAssumption
<1>1. GP!GatewayConstants
  BY IssuanceConstants
<1>2. GP!SignatureAssumption
  BY IssuanceConstants DEF Gateway!Signature, Gateway!Body, GP!Signature, GP!Body
<1> QED BY <1>1, <1>2

LEMMA GatewayKeeps == GP!IInv /\ [GP!Next]_(GP!vars) => GP!IInv'
BY GP!IInvStep, GatewayAssumed

LEMMA GatewayBegins == Gateway!Init => GP!IInv
<1> SUFFICES ASSUME Gateway!Init PROVE GP!IInv
  OBVIOUS
<1>1. /\ now = 0 /\ signatures = {} /\ usedReceiptIDs = {} /\ issuerEpochKeys = {}
      /\ validated = <<>> /\ Len(validated) = 0
  BY DEF Gateway!Init
<1>2. validated \in Seq(GP!ValidatedReceipt)
  BY <1>1
<1> QED BY <1>1, <1>2, IssuanceConstants
        DEF GP!IInv, GP!TypeOK, GP!TablesMatchOutput, GP!AllGenuine, GP!Distinct

(* A step of the gateway keeps its invariant and what it handed on.        *)
LEMMA GatewaySteps ==
    ASSUME GP!IInv, GatewayStep
    PROVE  GP!IInv' /\ HandedOn \subseteq HandedOn' /\ signatures \subseteq signatures'
<1>1. validated \in Seq(GP!ValidatedReceipt) /\ signatures \subseteq GP!Signature
  BY DEF GP!IInv, GP!TypeOK
<1>2. ASSUME NEW o \in Offers,
             \/ Gateway!IssueReceipt(o.issuer, o.id, o.subject, o.rating, o.expires)
             \/ Gateway!SignUnchecked(o.issuer, o.id, o.subject, o.rating, o.expires)
      PROVE  GP!Next /\ validated' = validated /\ signatures \subseteq signatures'
  <2>1. /\ o.issuer \in Identities /\ o.id \in ReceiptIDs /\ o.subject \in Subjects
        /\ o.rating \in Ratings /\ o.expires \in 0..MaxTime
    BY IssuanceConstants
  <2>2. \/ GP!IssueReceipt(o.issuer, o.id, o.subject, o.rating, o.expires)
        \/ GP!SignUnchecked(o.issuer, o.id, o.subject, o.rating, o.expires)
    BY <1>2 DEF Gateway!IssueReceipt, Gateway!SignUnchecked, Gateway!Sign, Gateway!InRange,
                Gateway!RatingMin, Gateway!RatingMax, GP!RatingMin, GP!RatingMax,
                GP!IssueReceipt, GP!SignUnchecked, GP!Sign, GP!InRange,
                Gateway!Cardinality, GP!Cardinality
  <2>3. GP!Next
    BY <2>1, <2>2 DEF GP!Next
  <2>4. validated' = validated /\ signatures \subseteq signatures'
    BY <1>2 DEF Gateway!IssueReceipt, Gateway!SignUnchecked, Gateway!Sign
  <2> QED BY <2>3, <2>4
<1>3. ASSUME NEW r \in Submissions, NEW epoch \in Epochs, Gateway!ValidateReceipt(r, epoch)
      PROVE  /\ GP!Next
             /\ validated' = validated \/ \E v : validated' = Append(validated, v)
             /\ signatures' = signatures
  <2>1. r \in GP!Submissions
    <3>1. PICK sig \in signatures : r = [body |-> sig.body, signature |-> sig]
      BY <1>3 DEF Submissions
    <3>2. sig.body \in GP!Body
      BY <1>1 DEF GP!Signature
    <3> QED BY <3>1, <3>2 DEF GP!Submissions
  <2>2. GP!ValidateReceipt(r, epoch)
    BY <1>3 DEF Gateway!ValidateReceipt, Gateway!Accept, Gateway!Reject, Gateway!Valid,
                Gateway!Outcomes, Gateway!IssuerRegistered, Gateway!ReceiptSignature,
                Gateway!ReceiptUnexpired, Gateway!RatingRange, Gateway!ReceiptUnused,
                Gateway!IssuerOncePerEpoch, Gateway!IssuerEpochKey, Gateway!vars,
                Gateway!Passed, Gateway!NoError, Gateway!RatingMin, Gateway!RatingMax,
                GP!ValidateReceipt, GP!Accept, GP!Reject, GP!Valid,
                GP!Outcomes, GP!IssuerRegistered, GP!ReceiptSignature,
                GP!ReceiptUnexpired, GP!RatingRange, GP!ReceiptUnused,
                GP!IssuerOncePerEpoch, GP!IssuerEpochKey, GP!vars,
                GP!Passed, GP!NoError, GP!RatingMin, GP!RatingMax
  <2>3. GP!Next
    BY <2>1, <2>2 DEF GP!Next
  <2>4. /\ validated' = validated \/ \E v : validated' = Append(validated, v)
        /\ signatures' = signatures
    BY <1>3 DEF Gateway!ValidateReceipt, Gateway!Accept, Gateway!Reject, Gateway!vars
  <2> QED BY <2>3, <2>4
<1>4. ASSUME Gateway!Tick
      PROVE  GP!Next /\ validated' = validated /\ signatures' = signatures
  BY <1>4 DEF Gateway!Tick, GP!Tick, GP!Next
<1>5. /\ GP!Next
      /\ validated' = validated \/ \E v : validated' = Append(validated, v)
      /\ signatures \subseteq signatures'
  BY <1>2, <1>3, <1>4 DEF GatewayStep
<1>6. GP!IInv'
  BY <1>5, GatewayKeeps
<1>7. ASSUME NEW v, validated' = Append(validated, v)
      PROVE  Range(validated) \subseteq Range(validated')
  BY <1>1, <1>7 DEF Range
<1>8. Range(validated) \subseteq Range(validated')
  BY <1>5, <1>7
<1> QED BY <1>5, <1>6, <1>8 DEF HandedOn

(* What the gateway hands on is genuine, and no two of its receipts have   *)
(* one identifier, or one issuer, subject and epoch.                       *)
LEMMA HandedReceipts ==
    ASSUME GP!IInv, NEW r \in HandedOn
    PROVE  /\ r \in Receipts
           /\ r.issuer \in DOMAIN Registry
           /\ Given(r) \in GivenReceipts
           /\ r = [receiptID |-> r.receiptID, issuer |-> r.issuer, subject |-> r.subject,
                   rating |-> r.rating, epoch |-> r.epoch]
<1>1. PICK i \in 1..Len(validated) : r = Handed(validated[i])
  BY DEF HandedOn, Range, GP!IInv, GP!TypeOK
<1>2. PICK v : v = validated[i]
  OBVIOUS
<1>3. v \in GP!ValidatedReceipt /\ GP!Genuine(v)
  BY <1>2 DEF GP!IInv, GP!TypeOK, GP!AllGenuine
<1>4. PICK body : body = v.body
  OBVIOUS
<1>5. /\ body \in GP!Body /\ v.epoch \in Epochs
      /\ body.issuerID \in DOMAIN Registry
      /\ [key |-> Registry[body.issuerID], body |-> body] \in signatures
      /\ body.rating \in 1..5
  BY <1>3, <1>4 DEF GP!ValidatedReceipt, GP!Genuine, GP!RatingMin, GP!RatingMax
<1>6. r = [receiptID |-> body.receiptID, issuer |-> body.issuerID,
           subject |-> body.subject, rating |-> body.rating, epoch |-> v.epoch]
  BY <1>1, <1>2, <1>4 DEF Handed
<1>7. /\ body.receiptID \in ReceiptIDs /\ body.subject \in Subjects
      /\ body.rating \in Ratings /\ Gateway!InRange(body.rating)
  BY <1>5 DEF GP!Body, Gateway!InRange, Gateway!RatingMin, Gateway!RatingMax
<1>8. r \in Receipts
  BY <1>5, <1>6, <1>7, IssuanceConstants
<1>9. Given(r) \in GivenReceipts
  <2>1. PICK sig \in signatures : sig = [key |-> Registry[body.issuerID], body |-> body]
    BY <1>5
  <2>2. Genuine(sig)
    BY <1>5, <1>7, <2>1 DEF Genuine
  <2>3. Given(r) = [receiptID |-> sig.body.receiptID, issuer |-> sig.body.issuerID,
                    subject |-> sig.body.subject, rating |-> sig.body.rating]
    BY <1>6, <2>1 DEF Given
  <2> QED BY <2>2, <2>3 DEF GivenReceipts
<1> QED BY <1>5, <1>6, <1>8, <1>9

LEMMA HandedOnce ==
    ASSUME GP!IInv, NEW r \in HandedOn, NEW s \in HandedOn,
           \/ r.receiptID = s.receiptID
           \/ r.issuer = s.issuer /\ r.subject = s.subject /\ r.epoch = s.epoch
    PROVE  r = s
<1>1. PICK i \in 1..Len(validated) : r = Handed(validated[i])
  BY DEF HandedOn, Range, GP!IInv, GP!TypeOK
<1>2. PICK j \in 1..Len(validated) : s = Handed(validated[j])
  BY DEF HandedOn, Range, GP!IInv, GP!TypeOK
<1>3. \/ validated[i].body.receiptID = validated[j].body.receiptID
      \/ GP!IssuerEpochKey(validated[i].body, validated[i].epoch)
            = GP!IssuerEpochKey(validated[j].body, validated[j].epoch)
  BY <1>1, <1>2 DEF Handed, GP!IssuerEpochKey
<1>4. i = j
  BY <1>3 DEF GP!IInv, GP!Distinct
<1> QED BY <1>1, <1>2, <1>4

-----------------------------------------------------------------------------
(* The inductive invariant of both parts: besides their own, that whatever *)
(* is being or was certified came through the gateway, which hands a       *)
(* receipt on once.                                                        *)
FromGateway ==
    /\ call # Idle => Range(call.receipts) \subseteq HandedOn
    /\ \A i \in DOMAIN certificates : Range(certificates[i].receipts) \subseteq HandedOn

JInv == IInv /\ VInv /\ GP!IInv /\ FromGateway

LEMMA InitJInv == IssuanceInit => JInv
<1> SUFFICES ASSUME IssuanceInit PROVE JInv
  OBVIOUS
<1>1. FromGateway
  BY DEF IssuanceInit, Init, FromGateway
<1> QED BY <1>1, InitIInv, InitVInv, GatewayBegins DEF IssuanceInit, JInv

LEMMA HandedRequests ==
    ASSUME GP!IInv, NEW req \in Requests
    PROVE  req \in AggregationRequest /\ Range(req.receipts) \subseteq HandedOn
<1>1. HandedOn \subseteq Receipts
  BY HandedReceipts
<1>2. PICK n \in 0..MaxBatch : req.receipts \in [1..n -> HandedOn]
  BY DEF Requests
<1>3. req.receipts \in [1..n -> Receipts]
  BY <1>1, <1>2
<1>4. Range(req.receipts) \subseteq HandedOn
  BY <1>2 DEF Range
<1>5. req \in [receipts : UNION {[1..k -> Receipts] : k \in 0..MaxBatch}, epoch : Epochs]
  <2>1. req = [receipts |-> req.receipts, epoch |-> req.epoch] /\ req.epoch \in Epochs
    BY DEF Requests
  <2>2. req.receipts \in UNION {[1..k -> Receipts] : k \in 0..MaxBatch}
    BY <1>3
  <2> QED BY <2>1, <2>2
<1> QED BY <1>4, <1>5 DEF AggregationRequest

LEMMA GatewayStepJInv ==
    ASSUME JInv, GatewayStep
    PROVE  JInv'
<1>1. UNCHANGED vars
  BY DEF GatewayStep, committeeVars, vars
<1>2. IInv' /\ VInv'
  BY <1>1, NextIInv, NextVInv DEF JInv
<1>3. GP!IInv' /\ HandedOn \subseteq HandedOn'
  BY GatewaySteps DEF JInv
<1>4. FromGateway'
  BY <1>1, <1>3 DEF JInv, FromGateway, vars
<1> QED BY <1>2, <1>3, <1>4 DEF JInv

LEMMA CommitteeStepJInv ==
    ASSUME JInv, CommitteeStep
    PROVE  Next /\ JInv'
<1>1. HandedOn' = HandedOn
  BY DEF CommitteeStep, gatewayVars, HandedOn
<1>2. GP!IInv'
  <2>1. UNCHANGED GP!vars
    BY DEF CommitteeStep, gatewayVars, GP!vars
  <2> QED BY <2>1, GatewayKeeps DEF JInv
<1>3. Next
  BY HandedRequests DEF JInv, CommitteeStep, Next
<1>4. IInv' /\ VInv'
  BY <1>3, NextIInv, NextVInv DEF JInv
<1>5. FromGateway'
  <2>1. ASSUME NEW req \in Requests, RefuseRequest(req) \/ RefuseBatch(req)
        PROVE  FromGateway'
    BY <1>1, <2>1 DEF RefuseRequest, RefuseBatch, vars, JInv, FromGateway
  <2>2. ASSUME NEW req \in Requests, Begin(req) PROVE FromGateway'
    <3>1. Range(req.receipts) \subseteq HandedOn /\ call'.receipts = req.receipts
      BY <2>2, HandedRequests DEF JInv, Begin, Issuing
    <3> QED BY <1>1, <2>2, <3>1 DEF Begin, JInv, FromGateway
  <2>3. ASSUME NEW r1 \in Random, NEW r2 \in Random, ShareNext(r1, r2) PROVE FromGateway'
    <3>1. call'.receipts = call.receipts
      BY <2>3 DEF ShareNext, Issuing
    <3> QED BY <1>1, <2>3, <3>1 DEF ShareNext, JInv, FromGateway
  <2>4. CASE RandomFails \/ HashFails
    BY <1>1, <2>4 DEF RandomFails, HashFails, JInv, FromGateway
  <2>5. CASE Certify
    <3>1. PICK cert : cert.receipts = call.receipts /\ certificates' = Append(certificates, cert)
      BY <2>5 DEF Certify
    <3>2. /\ certificates \in Seq(Certificate)
          /\ \A i \in DOMAIN certificates' :
                \/ i \in DOMAIN certificates /\ certificates'[i] = certificates[i]
                \/ certificates'[i] = cert
      BY <3>1 DEF JInv, IInv, TypeOK
    <3> QED BY <1>1, <2>5, <3>1, <3>2 DEF Certify, JInv, FromGateway
  <2> QED BY <2>1, <2>2, <2>3, <2>4, <2>5 DEF CommitteeStep
<1> QED BY <1>2, <1>3, <1>4, <1>5 DEF JInv

LEMMA NextJInv == JInv /\ [IssuanceNext]_allVars => JInv'
<1> SUFFICES ASSUME JInv, [IssuanceNext]_allVars PROVE JInv'
  OBVIOUS
<1>1. CASE UNCHANGED allVars
  <2>1. UNCHANGED vars /\ UNCHANGED GP!vars /\ HandedOn' = HandedOn
    BY <1>1 DEF allVars, gatewayVars, committeeVars, vars, GP!vars, HandedOn
  <2>2. IInv' /\ VInv' /\ GP!IInv'
    BY <2>1, NextIInv, NextVInv, GatewayKeeps DEF JInv
  <2> QED BY <2>1, <2>2 DEF JInv, FromGateway, vars
<1> QED BY <1>1, GatewayStepJInv, CommitteeStepJInv DEF IssuanceNext

LEMMA SpecJInv == IssuanceSpec => []JInv
BY InitJInv, NextJInv, PTL DEF IssuanceSpec

-----------------------------------------------------------------------------
(* The attestation that a certificate is, when its request lists each      *)
(* receipt once.                                                           *)
AttestationOf(cert) ==
    [subject |-> cert.batch[1], epoch |-> cert.batch[2],
     score |-> cert.score, receiptCount |-> cert.receiptCount,
     receipts |-> {Given(r) : r \in Range(cert.receipts)}]

LEMMA AttestationsAre ==
    Attestations = {AttestationOf(certificates[i]) : i \in ListedOnce}
BY DEF Attestations, AttestationOf

LEMMA NewAttestation ==
    ASSUME IInv, NEW cert, certificates' = Append(certificates, cert)
    PROVE  Attestations' = Attestations \cup
                (IF IsInjective(cert.receipts) THEN {AttestationOf(cert)} ELSE {})
<1>1. PICK n \in Nat : n = Len(certificates)
  BY DEF IInv, TypeOK
<1>2. PICK old, new : old = certificates /\ new = certificates'
  OBVIOUS
<1>3. /\ DOMAIN old = 1..n /\ DOMAIN new = 1..(n + 1)
      /\ \A i \in 1..n : new[i] = old[i]
      /\ new[n + 1] = cert
  BY <1>1, <1>2 DEF IInv, TypeOK
<1>4. /\ ListedOnce = {i \in 1..n : IsInjective(old[i].receipts)}
      /\ ListedOnce' = {i \in 1..(n + 1) : IsInjective(new[i].receipts)}
  BY <1>2, <1>3 DEF ListedOnce
<1>5. PICK once, onceNow : once = ListedOnce /\ onceNow = ListedOnce'
  OBVIOUS
<1>6. onceNow = once \cup (IF IsInjective(cert.receipts) THEN {n + 1} ELSE {})
  <2>1. \A i : i \in 1..(n + 1) <=> i \in 1..n \/ i = n + 1
    OBVIOUS
  <2>2. n + 1 \notin 1..n
    OBVIOUS
  <2> QED BY <1>3, <1>4, <1>5, <2>1, <2>2
<1>7. /\ Attestations = {AttestationOf(old[i]) : i \in once}
      /\ Attestations' = {AttestationOf(new[i]) : i \in onceNow}
  BY <1>2, <1>5 DEF Attestations, AttestationOf
<1>8. \A i \in once : new[i] = old[i]
  BY <1>3, <1>4, <1>5
<1> QED BY <1>3, <1>6, <1>7, <1>8

LEMMA InitMaps == IssuanceInit => Abstract!Init
<1> SUFFICES ASSUME IssuanceInit PROVE Abstract!Init
  OBVIOUS
<1>1. signatures = {} /\ certificates = <<>>
  BY DEF IssuanceInit, Gateway!Init, Init
<1>2. GivenReceipts = {}
  BY <1>1 DEF GivenReceipts
<1>3. Attestations = {}
  BY <1>1 DEF Attestations, ListedOnce
<1> QED BY <1>2, <1>3 DEF Abstract!Init

(* The gateway's step gives receipts; its tables stay hidden.              *)
LEMMA GatewayMaps ==
    ASSUME JInv, GatewayStep
    PROVE  Abstract!Give
<1>1. GP!IInv' /\ signatures \subseteq signatures'
  BY GatewaySteps DEF JInv
<1>2. GivenReceipts' \subseteq Abstract!GivenReceipt
  <2> SUFFICES ASSUME NEW sig \in signatures', Genuine(sig)
               PROVE  [receiptID |-> sig.body.receiptID, issuer |-> sig.body.issuerID,
                       subject |-> sig.body.subject, rating |-> sig.body.rating]
                          \in Abstract!GivenReceipt
    BY DEF GivenReceipts
  <2>1. sig.body \in GP!Body
    BY <1>1 DEF GP!IInv, GP!TypeOK, GP!Signature
  <2> QED BY <2>1 DEF GP!Body, Genuine, Abstract!GivenReceipt
<1>3. GivenReceipts \subseteq GivenReceipts'
  BY <1>1 DEF GivenReceipts
<1>4. Attestations' = Attestations
  BY DEF GatewayStep, committeeVars, Attestations, ListedOnce
<1> QED BY <1>2, <1>3, <1>4 DEF Abstract!Give

(* The certificate of a request that lists each receipt once: its receipts *)
(* are given, about one subject and of different issuers, count in no      *)
(* other attestation, and the score and the count are theirs.              *)
LEMMA CertifyMaps ==
    ASSUME JInv, VInv', Certify, IsInjective(call.receipts), UNCHANGED gatewayVars
    PROVE  \E subject \in Subjects, epoch \in Epochs, receipts \in SUBSET GivenReceipts :
                Abstract!Attest(subject, epoch, receipts)
<1>1. PICK q, b, epoch : q = call.receipts /\ b = BatchOf(call) /\ epoch = call.epoch
  OBVIOUS
<1>2. PICK n \in Nat : n = Len(q)
  BY <1>1 DEF JInv, IInv, TypeOK, Certify, Call
<1>3. /\ q \in Seq(Receipts) /\ epoch \in Epochs /\ n > 0
      /\ DOMAIN q = 1..n
      /\ \A i \in 1..n : q[i] \in HandedOn
      /\ \A i, j \in 1..n : q[i] = q[j] => i = j
  <2>1. q \in Seq(Receipts) /\ epoch \in Epochs /\ q # <<>>
    BY <1>1 DEF JInv, IInv, TypeOK, CallInv, Certify, Call
  <2>2. DOMAIN q = 1..n /\ n > 0
    BY <1>2, <2>1
  <2>3. \A i \in 1..n : q[i] \in HandedOn
    BY <1>1, <2>2 DEF JInv, FromGateway, Certify, Range
  <2>4. \A i, j \in 1..n : q[i] = q[j] => i = j
    BY <1>1, <2>2 DEF IsInjective
  <2> QED BY <2>1, <2>2, <2>3, <2>4
<1>4. PICK subject : subject = q[1].subject
  OBVIOUS
<1>5. /\ b = <<subject, epoch>>
      /\ \A i \in 1..n : q[i].subject = subject /\ q[i].epoch = epoch
  BY <1>1, <1>3, <1>4 DEF JInv, IInv, CallInv, Certify, Matches, BatchOf, BatchKey
<1>6. subject \in Subjects
  BY <1>3, <1>4, CommitteeConstants
<1>7. PICK S : S = {Given(q[i]) : i \in 1..n}
  OBVIOUS
<1>8. S \in SUBSET GivenReceipts /\ S # {}
  <2>1. \A i \in 1..n : Given(q[i]) \in GivenReceipts
    BY <1>3, HandedReceipts DEF JInv
  <2> QED BY <1>3, <1>7, <2>1
<1>9. \A i, j \in 1..n :
        \/ q[i].receiptID = q[j].receiptID
        \/ q[i].issuer = q[j].issuer
        => i = j
  BY <1>3, <1>5, HandedOnce DEF JInv
<1>10. \A r \in S : r.subject = subject
  BY <1>5, <1>7 DEF Given
<1>11. \A r, s \in S : r.issuer = s.issuer => r = s
  BY <1>7, <1>9 DEF Given
<1>12. /\ Abstract!TotalOf(S) = TotalRating(q)
       /\ Cardinality(S) = n
  <2>1. \A i, j \in 1..Len(q) : Given(q[i]) = Given(q[j]) => i = j
    BY <1>2, <1>9 DEF Given
  <2> QED BY <1>2, <1>3, <1>7, <2>1, ListAddsUp
<1>13. PICK cert : cert = [batch |-> b, score |-> Score(b), receiptCount |-> n,
                           signers |-> 1..Quorum, receipts |-> q]
  OBVIOUS
<1>14. certificates' = Append(certificates, cert)
  BY <1>1, <1>2, <1>13 DEF Certify
<1>15. cert.score = TotalRating(q)
  <2>1. Len(certificates) + 1 \in DOMAIN certificates'
        /\ certificates'[Len(certificates) + 1] = cert
    BY <1>14 DEF JInv, IInv, TypeOK
  <2>2. cert.score = TotalRating(cert.receipts)
    BY <2>1 DEF VInv, ScoreIsTotalRating
  <2> QED BY <1>13, <2>2
<1>16. AttestationOf(cert) =
            [subject |-> subject, epoch |-> epoch, score |-> Abstract!TotalOf(S),
             receiptCount |-> Abstract!Cardinality(S), receipts |-> S]
  <2>1. {Given(r) : r \in Range(q)} = S
    BY <1>3, <1>7 DEF Range
  <2>2. Abstract!Cardinality(S) = Cardinality(S)
    BY DEF Abstract!Cardinality, Cardinality
  <2>3. /\ cert.batch[1] = subject /\ cert.batch[2] = epoch
        /\ cert.receiptCount = n /\ cert.receipts = q
    BY <1>5, <1>13
  <2> QED BY <1>12, <1>15, <2>1, <2>2, <2>3 DEF AttestationOf
<1>17. Attestations' = Attestations \cup {AttestationOf(cert)}
  <2>1. IsInjective(cert.receipts)
    BY <1>1, <1>13
  <2> QED BY <1>14, <2>1, NewAttestation DEF JInv
<1>18. ASSUME NEW a \in Attestations
       PROVE  <<a.subject, a.epoch>> # <<subject, epoch>> /\ a.receipts \cap S = {}
  <2>1. PICK k \in DOMAIN certificates : a = AttestationOf(certificates[k])
    BY AttestationsAre DEF ListedOnce
  <2>2. PICK other : other = certificates[k]
    OBVIOUS
  <2>3. /\ other \in Certificate
        /\ other.batch # b
        /\ \A j \in DOMAIN other.receipts :
                /\ other.receipts[j] \in HandedOn
                /\ <<other.receipts[j].subject, other.receipts[j].epoch>> = other.batch
    <3>1. other \in Certificate
      BY <2>2 DEF JInv, IInv, TypeOK
    <3>2. other.batch # b
      BY <1>1, <2>2 DEF JInv, IInv, CallInv, Certify
    <3>3. \A j \in DOMAIN other.receipts : other.receipts[j] \in HandedOn
      BY <2>2 DEF JInv, FromGateway, Range
    <3>4. \A j \in DOMAIN other.receipts :
            <<other.receipts[j].subject, other.receipts[j].epoch>> = other.batch
      BY <2>2 DEF JInv, IInv, CertificatesAreUnmixed
    <3> QED BY <3>1, <3>2, <3>3, <3>4
  <2>4. <<a.subject, a.epoch>> # <<subject, epoch>>
    <3>1. other.batch = <<other.batch[1], other.batch[2]>>
      BY <2>3 DEF Certificate, Batches
    <3> QED BY <1>5, <2>1, <2>2, <2>3, <3>1 DEF AttestationOf
  <2>5. ASSUME NEW g \in a.receipts, g \in S PROVE FALSE
    <3>1. PICK j \in DOMAIN other.receipts : g = Given(other.receipts[j])
      BY <2>1, <2>2, <2>5 DEF AttestationOf, Range
    <3>2. PICK i \in 1..n : g = Given(q[i])
      BY <1>7, <2>5
    <3>3. other.receipts[j].receiptID = q[i].receiptID
      BY <3>1, <3>2 DEF Given
    <3>4. other.receipts[j] = q[i]
      BY <1>3, <2>3, <3>3, HandedOnce DEF JInv
    <3> QED BY <1>5, <2>3, <3>4
  <2> QED BY <2>4, <2>5
<1>19. GivenReceipts' = GivenReceipts
  BY DEF gatewayVars, GivenReceipts
<1> QED BY <1>3, <1>6, <1>8, <1>10, <1>11, <1>16, <1>17, <1>18, <1>19 DEF Abstract!Attest

LEMMA StepMaps == JInv /\ JInv' /\ [IssuanceNext]_allVars => [Abstract!Next]_(Abstract!vars)
<1> SUFFICES ASSUME JInv, JInv', [IssuanceNext]_allVars PROVE [Abstract!Next]_(Abstract!vars)
  OBVIOUS
<1>1. CASE UNCHANGED allVars
  BY <1>1 DEF allVars, gatewayVars, committeeVars, Abstract!vars, GivenReceipts,
              Attestations, ListedOnce
<1>2. CASE GatewayStep
  BY <1>2, GatewayMaps DEF Abstract!Next
<1>3. CASE CommitteeStep
  <2>1. GivenReceipts' = GivenReceipts
    BY <1>3 DEF CommitteeStep, gatewayVars, GivenReceipts
  <2>2. ASSUME UNCHANGED certificates PROVE UNCHANGED Abstract!vars
    BY <2>1, <2>2 DEF Abstract!vars, Attestations, ListedOnce
  <2>3. CASE Certify /\ IsInjective(call.receipts)
    <3>1. Abstract!Next
      BY <1>3, <2>3, CertifyMaps DEF JInv, CommitteeStep, Abstract!Next
    <3> QED BY <3>1
  <2>4. CASE Certify /\ ~IsInjective(call.receipts)
    <3>1. PICK cert : cert.receipts = call.receipts /\ certificates' = Append(certificates, cert)
      BY <2>4 DEF Certify
    <3>2. Attestations' = Attestations
      BY <2>4, <3>1, NewAttestation DEF JInv
    <3> QED BY <2>1, <3>2 DEF Abstract!vars
  <2>5. Certify \/ UNCHANGED certificates
    BY <1>3 DEF CommitteeStep, RefuseRequest, RefuseBatch, Begin, ShareNext, RandomFails,
                HashFails, vars
  <2> QED BY <2>2, <2>3, <2>4, <2>5
<1> QED BY <1>1, <1>2, <1>3 DEF IssuanceNext

(* For any providers, impostors, receipts and requests: whatever was       *)
(* submitted, refused, repeated or left half done before, a certificate    *)
(* whose request lists each receipt once has the total and the number of   *)
(* genuine receipts, one per registered provider, that count in no other   *)
(* (ValidateReceipt and IssueScoreCertificate together).                   *)
THEOREM CertificatesAttest == IssuanceSpec => ImplementsAttestation
<1>1. IssuanceInit => Abstract!Init
  BY InitMaps
<1>2. JInv /\ JInv' /\ [IssuanceNext]_allVars => [Abstract!Next]_(Abstract!vars)
  BY StepMaps
<1> QED BY <1>1, <1>2, SpecJInv, PTL DEF IssuanceSpec, ImplementsAttestation, Abstract!Spec

(* With the gateway in front the committee keeps all its promises, however *)
(* the steps of the two are interleaved.                                   *)
THEOREM IssuedTogether ==
    IssuanceSpec => [](/\ TypeOK
                       /\ ScoreIsTotalRating
                       /\ CertificatesAreUnmixed
                       /\ OneCertificatePerBatch
                       /\ TwoSharesHideRating)
<1>1. JInv => /\ TypeOK /\ ScoreIsTotalRating /\ CertificatesAreUnmixed
              /\ OneCertificatePerBatch /\ TwoSharesHideRating
  BY SharesHidden DEF JInv, IInv, VInv
<1> QED BY <1>1, SpecJInv, PTL
=============================================================================
