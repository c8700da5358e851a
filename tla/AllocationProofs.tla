--------------------------- MODULE AllocationProofs ---------------------------
(* Proofs of the properties of Allocation for all inputs. *)
EXTENDS Allocation, TLAPS

-----------------------------------------------------------------------------
(* Facts about the numbers.                                                 *)

\* Priorities divide what is divided by them without a rest.
LEMMA SharesAddUp ==
  ASSUME NEW p \in [Class -> Nat], NEW r \in Nat
  PROVE  /\ Sum(p) \in Nat
         /\ Sum(p) * r = p[1] * r + p[2] * r + p[3] * r + p[4] * r
         /\ \A i \in Class : p[i] * r \in Nat /\ r * p[i] = p[i] * r
BY DEF Sum, Class

\* A product of natural numbers grows with its factors.
LEMMA ProductMonotone ==
  ASSUME NEW a \in Nat, NEW b \in Nat, NEW c \in Nat, a <= b
  PROVE  c * a <= c * b
<1>1. PICK d \in Nat : b = a + d
  <2>1. b - a \in Nat /\ b = a + (b - a)
    OBVIOUS
  <2> QED
    BY <2>1
<1>2. c * b = c * a + c * d /\ c * d \in Nat /\ c * a \in Nat
  BY <1>1
<1> QED
  BY <1>2

\* The sum of four numbers, class by class.
LEMMA SumMonotone ==
  ASSUME NEW f \in [Class -> Int], NEW g \in [Class -> Int],
         \A i \in Class : f[i] <= g[i]
  PROVE  Sum(f) \in Int /\ Sum(g) \in Int /\ Sum(f) <= Sum(g)
BY DEF Sum, Class

-----------------------------------------------------------------------------
\* The derived quantities are natural numbers.
LEMMA Units ==
  ASSUME TypeOK
  PROVE  /\ Weight \in Nat /\ Total \in Nat
         /\ Low \in [Class -> Nat] /\ High \in [Class -> Nat]
         /\ Sum(lo) \in Nat
         /\ Sum(Low) = Weight * Sum(lo)
<1>1. prio \in [Class -> Nat] /\ lo \in [Class -> Nat] /\ hi \in [Class -> Nat] /\ capacity \in Nat
  BY AllocationAssumption DEF TypeOK
<1>2. Weight \in Nat /\ Sum(lo) \in Nat
  BY <1>1 DEF Weight, Sum, Class
<1>3. \A i \in Class : Weight * lo[i] \in Nat /\ Weight * hi[i] \in Nat
  BY <1>1, <1>2
<1>4. Low \in [Class -> Nat] /\ High \in [Class -> Nat]
  BY <1>3 DEF Low, High
<1>5. Total \in Nat
  BY <1>1, <1>2 DEF Total
<1>6. Sum(Low) = Weight * Sum(lo)
  <2>1. /\ Low[1] = Weight * lo[1] /\ Low[2] = Weight * lo[2]
        /\ Low[3] = Weight * lo[3] /\ Low[4] = Weight * lo[4]
    BY DEF Low, Class
  <2>2. lo[1] \in Nat /\ lo[2] \in Nat /\ lo[3] \in Nat /\ lo[4] \in Nat
    BY <1>1 DEF Class
  <2> QED
    BY <2>1, <2>2, <1>2 DEF Sum
<1> QED
  BY <1>2, <1>4, <1>5, <1>6

-----------------------------------------------------------------------------
\* The shares of a starved link: no more than there is, no more than the maximum,
\* and in the order of the priorities below it.
LEMMA SharesAreFair ==
  ASSUME TypeOK
  PROVE  /\ Shares \in [Class -> Nat]
         /\ Sum(Shares) <= Total
         /\ \A i \in Class : Shares[i] <= High[i]
         /\ \A i, j \in Class : Before(i, j) => Shares[i] >= Shares[j] \/ Shares[i] = High[i]
<1> DEFINE part == [i \in Class |-> capacity * prio[i]]
<1>1. prio \in [Class -> Nat] /\ capacity \in Nat
  BY AllocationAssumption DEF TypeOK
<1>2. \A i \in Class : part[i] = capacity * prio[i] /\ part[i] \in Nat
  BY <1>1
<1>3. High \in [Class -> Nat] /\ Total \in Nat
  BY Units
<1>4. \A i \in Class : /\ Shares[i] = Least(part[i], High[i])
                       /\ Shares[i] \in Nat
                       /\ Shares[i] <= part[i] /\ Shares[i] <= High[i]
  BY <1>2, <1>3 DEF Shares, Least
<1>5. Shares \in [Class -> Nat] /\ part \in [Class -> Int] /\ Shares \in [Class -> Int]
  <2>1. Shares \in [Class -> Nat]
    BY <1>4 DEF Shares
  <2>2. part \in [Class -> Nat]
    BY <1>2
  <2> QED
    BY <2>1, <2>2
<1>6. Sum(part) = Total
  <2>1. prio[1] \in Nat /\ prio[2] \in Nat /\ prio[3] \in Nat /\ prio[4] \in Nat
    BY <1>1 DEF Class
  <2>2. /\ part[1] = capacity * prio[1] /\ part[2] = capacity * prio[2]
        /\ part[3] = capacity * prio[3] /\ part[4] = capacity * prio[4]
    BY DEF Class
  <2> HIDE DEF part
  <2> QED
    BY <2>1, <2>2, <1>1 DEF Sum, Total, Weight
<1>7. Sum(Shares) <= Total
  <2> HIDE DEF part
  <2> QED
    BY SumMonotone, <1>4, <1>5, <1>6
<1>8. ASSUME NEW i \in Class, NEW j \in Class, Before(i, j)
      PROVE  Shares[i] >= Shares[j] \/ Shares[i] = High[i]
  <2>1. prio[i] \in Nat /\ prio[j] \in Nat /\ prio[j] <= prio[i]
    BY <1>1, <1>8 DEF Before
  <2>2. part[j] <= part[i]
    BY <2>1, <1>1, ProductMonotone
  <2> HIDE DEF part
  <2> QED
    BY <2>2, <1>2, <1>3, <1>4 DEF Least
<1> QED
  BY <1>4, <1>5, <1>7, <1>8

\* The guaranteed part when the minima fit: no more than there is, at least the
\* minimum, and no more than the maximum unless the minimum is.
LEMMA GuaranteesFit ==
  ASSUME TypeOK, ~Starved
  PROVE  /\ Guaranteed \in [Class -> Nat]
         /\ Sum(Guaranteed) <= Total
         /\ \A i \in Class : /\ Guaranteed[i] >= Low[i]
                             /\ Guaranteed[i] <= High[i] \/ Guaranteed[i] = Low[i]
<1> DEFINE rest == capacity - Sum(lo)
           part == [i \in Class |-> prio[i] * rest]
           top == [i \in Class |-> Low[i] + part[i]]
<1>1. /\ prio \in [Class -> Nat] /\ capacity \in Nat
      /\ High \in [Class -> Nat] /\ Low \in [Class -> Nat] /\ Total \in Nat
      /\ Sum(lo) \in Nat /\ Weight \in Nat /\ Sum(Low) = Weight * Sum(lo)
  BY Units, AllocationAssumption DEF TypeOK
<1>2. rest \in Nat /\ capacity = Sum(lo) + rest
  BY <1>1 DEF Starved
<1>3. \A i \in Class : part[i] = prio[i] * rest /\ part[i] \in Nat
  BY <1>1, <1>2
<1>4. \A i \in Class : Guaranteed[i] = Low[i] + Least(part[i], Most(0, High[i] - Low[i]))
  BY DEF Guaranteed
<1>5. \A i \in Class : /\ Guaranteed[i] \in Nat
                       /\ Guaranteed[i] >= Low[i] /\ Guaranteed[i] <= Low[i] + part[i]
                       /\ Guaranteed[i] <= High[i] \/ Guaranteed[i] = Low[i]
  <2> HIDE DEF part
  <2> QED
    BY <1>1, <1>3, <1>4 DEF Least, Most
<1>6. Guaranteed \in [Class -> Nat]
  BY <1>5 DEF Guaranteed
<1>7. Sum(top) = Total
  <2>1. /\ prio[1] \in Nat /\ prio[2] \in Nat /\ prio[3] \in Nat /\ prio[4] \in Nat
        /\ Low[1] \in Nat /\ Low[2] \in Nat /\ Low[3] \in Nat /\ Low[4] \in Nat
    BY <1>1 DEF Class
  <2>2. /\ top[1] = Low[1] + prio[1] * rest /\ top[2] = Low[2] + prio[2] * rest
        /\ top[3] = Low[3] + prio[3] * rest /\ top[4] = Low[4] + prio[4] * rest
    BY DEF Class
  <2>3. Sum(part) = Weight * rest
    <3>1. /\ part[1] = prio[1] * rest /\ part[2] = prio[2] * rest
          /\ part[3] = prio[3] * rest /\ part[4] = prio[4] * rest
      BY DEF Class
    <3> HIDE DEF part, rest
    <3> QED
      BY <2>1, <1>2, <3>1 DEF Sum, Weight
  <2>4. Sum(top) = Sum(Low) + Sum(part)
    <3>1. /\ part[1] \in Nat /\ part[2] \in Nat /\ part[3] \in Nat /\ part[4] \in Nat
          /\ top[1] = Low[1] + part[1] /\ top[2] = Low[2] + part[2]
          /\ top[3] = Low[3] + part[3] /\ top[4] = Low[4] + part[4]
      BY <1>3 DEF Class
    <3> HIDE DEF part, top
    <3> QED
      BY <2>1, <3>1 DEF Sum
  <2>5. Total = Weight * Sum(lo) + Weight * rest
    <3> HIDE DEF rest
    <3> QED
      BY <1>1, <1>2 DEF Total
  <2> QED
    BY <2>3, <2>4, <2>5, <1>1
<1>8. Sum(Guaranteed) <= Sum(top)
  <2>1. \A i \in Class : top[i] = Low[i] + part[i] /\ top[i] \in Int /\ Guaranteed[i] <= top[i]
    BY <1>1, <1>3, <1>5
  <2>2. top \in [Class -> Int] /\ Guaranteed \in [Class -> Int]
    BY <2>1, <1>6
  <2> HIDE DEF top
  <2> QED
    BY <2>1, <2>2, SumMonotone
<1> QED
  BY <1>5, <1>6, <1>7, <1>8

\* Multiplying by the weight keeps sums and order.
LEMMA WeightScales ==
  ASSUME NEW w \in Nat, NEW x \in [Class -> Nat], NEW y \in [Class -> Nat],
         \A i \in Class : y[i] = w * x[i]
  PROVE  Sum(x) \in Nat /\ Sum(y) = w * Sum(x)
<1>1. x[1] \in Nat /\ x[2] \in Nat /\ x[3] \in Nat /\ x[4] \in Nat
  BY DEF Class
<1>2. y[1] = w * x[1] /\ y[2] = w * x[2] /\ y[3] = w * x[3] /\ y[4] = w * x[4]
  BY DEF Class
<1>3. \A a, b, c, d \in Nat : w * (a + b + c + d) = w * a + w * b + w * c + w * d
  OBVIOUS
<1>4. w * (x[1] + x[2] + x[3] + x[4]) = w * x[1] + w * x[2] + w * x[3] + w * x[4]
  BY <1>1, <1>3
<1> QED
  BY <1>1, <1>2, <1>4 DEF Sum

\* What is added to one class is added to the sum.
LEMMA SumOfOneMore ==
  ASSUME NEW f \in [Class -> Nat], NEW k \in Class, NEW d \in Nat
  PROVE  /\ [f EXCEPT ![k] = f[k] + d] \in [Class -> Nat]
         /\ Sum([f EXCEPT ![k] = f[k] + d]) = Sum(f) + d
         /\ Sum(f) \in Nat
<1>1. f[1] \in Nat /\ f[2] \in Nat /\ f[3] \in Nat /\ f[4] \in Nat
  BY DEF Class
<1>2. k = 1 \/ k = 2 \/ k = 3 \/ k = 4
  BY DEF Class
<1>3. \A i \in Class : [f EXCEPT ![k] = f[k] + d][i] = IF i = k THEN f[k] + d ELSE f[i]
  OBVIOUS
<1>4. [f EXCEPT ![k] = f[k] + d] \in [Class -> Nat]
  OBVIOUS
<1> DEFINE g == [f EXCEPT ![k] = f[k] + d]
<1>5. /\ g[1] = IF 1 = k THEN f[k] + d ELSE f[1]
      /\ g[2] = IF 2 = k THEN f[k] + d ELSE f[2]
      /\ g[3] = IF 3 = k THEN f[k] + d ELSE f[3]
      /\ g[4] = IF 4 = k THEN f[k] + d ELSE f[4]
  BY <1>3 DEF Class
<1>6. Sum(g) = Sum(f) + d
  <2> HIDE DEF g
  <2>1. CASE k = 1
    BY <1>1, <1>5, <2>1 DEF Sum
  <2>2. CASE k = 2
    BY <1>1, <1>5, <2>2 DEF Sum
  <2>3. CASE k = 3
    BY <1>1, <1>5, <2>3 DEF Sum
  <2>4. CASE k = 4
    BY <1>1, <1>5, <2>4 DEF Sum
  <2> QED
    BY <1>2, <2>1, <2>2, <2>3, <2>4
<1> QED
  BY <1>1, <1>4, <1>6 DEF Sum

-----------------------------------------------------------------------------
(* The four conditions of KKTVerifier.                                      *)

\* What one class would gain by y instead of x is no more than the capacity it would
\* take, at the price of the capacity.
LEMMA GainOfOneClass ==
  ASSUME NEW p \in Nat, NEW t \in Nat, NEW l \in Nat, NEW u \in Nat,
         NEW a \in Nat, NEW b \in Nat, NEW x \in Nat, NEW y \in Nat,
         t - l + u - p = 0, l * (a - x) = 0, u * (x - b) = 0, a <= y, y <= b
  PROVE  p * y + t * x <= p * x + t * y
<1>1. l * x = l * a /\ u * x = u * b
  BY \A m, n, k \in Nat : k * (m - n) = k * m - k * n /\ k * m \in Nat /\ k * n \in Nat
<1>2. l * a <= l * y /\ u * y <= u * b
  BY ProductMonotone
<1>3. \A k \in Nat : t * k + u * k = p * k + l * k
  <2>1. t + u = p + l
    OBVIOUS
  <2>2. \A k \in Nat : (t + u) * k = t * k + u * k /\ (p + l) * k = p * k + l * k
    OBVIOUS
  <2> QED
    BY <2>1, <2>2
<1>4. /\ t * x \in Nat /\ u * x \in Nat /\ p * x \in Nat /\ l * x \in Nat
      /\ t * y \in Nat /\ u * y \in Nat /\ p * y \in Nat /\ l * y \in Nat
      /\ l * a \in Nat /\ u * b \in Nat
  OBVIOUS
<1> QED
  BY <1>1, <1>2, <1>3, <1>4

\* The multipliers are natural numbers.
LEMMA MultipliersType ==
  ASSUME prio \in [Class -> Nat], NEW t \in Nat, NEW z, z = Multipliers(t)
  PROVE  z.sum = t /\ \A i \in Class : z.lower[i] \in Nat /\ z.upper[i] \in Nat
BY DEF Multipliers, Most

LEMMA UtilityScales ==
  ASSUME prio \in [Class -> Nat], NEW w \in Nat, NEW x \in [Class -> Nat]
  PROVE  Utility([i \in Class |-> w * x[i]]) = w * Utility(x)
<1>1. /\ x[1] \in Nat /\ x[2] \in Nat /\ x[3] \in Nat /\ x[4] \in Nat
      /\ prio[1] \in Nat /\ prio[2] \in Nat /\ prio[3] \in Nat /\ prio[4] \in Nat
  BY DEF Class
<1>2. \A p, k \in Nat : p * (w * k) = w * (p * k) /\ p * k \in Nat
  OBVIOUS
<1>3. \A a, b, c, d \in Nat : w * (a + b + c + d) = w * a + w * b + w * c + w * d
  OBVIOUS
<1>4. Utility([i \in Class |-> w * x[i]]) = w * (prio[1] * x[1]) + w * (prio[2] * x[2])
                                           + w * (prio[3] * x[3]) + w * (prio[4] * x[4])
  BY <1>1, <1>2 DEF Utility, Class
<1>5. w * Utility(x) = w * (prio[1] * x[1]) + w * (prio[2] * x[2])
                     + w * (prio[3] * x[3]) + w * (prio[4] * x[4])
  BY <1>1, <1>2, <1>3 DEF Utility
<1> QED
  BY <1>4, <1>5

\* What KKTVerifier accepts has the greatest utility.
LEMMA VerifiedIsBest ==
  ASSUME TypeOK, NEW x \in [Class -> Nat], NEW t \in Nat, Verified(x, Multipliers(t)),
         NEW y \in [Class -> Nat], PrimalFeasible(y)
  PROVE  Utility(y) \in Nat /\ Utility(x) \in Nat /\ Utility(y) <= Utility(x)
<1> DEFINE z == Multipliers(t)
<1>1. prio \in [Class -> Nat] /\ lo \in [Class -> Nat] /\ hi \in [Class -> Nat] /\ capacity \in Nat
  BY AllocationAssumption DEF TypeOK
<1>2. z.sum = t /\ \A i \in Class : z.lower[i] \in Nat /\ z.upper[i] \in Nat
  BY <1>1, MultipliersType
<1>3. ComplementarySlackness(x, z) /\ Stationary(z)
  BY DEF Verified
<1> HIDE DEF z
<1>4. \A i \in Class : prio[i] * y[i] + t * x[i] <= prio[i] * x[i] + t * y[i]
  <2> SUFFICES ASSUME NEW i \in Class
               PROVE  prio[i] * y[i] + t * x[i] <= prio[i] * x[i] + t * y[i]
    OBVIOUS
  <2>1. /\ prio[i] \in Nat /\ z.lower[i] \in Nat /\ z.upper[i] \in Nat
        /\ lo[i] \in Nat /\ hi[i] \in Nat /\ x[i] \in Nat /\ y[i] \in Nat
    BY <1>1, <1>2
  <2>2. /\ t - z.lower[i] + z.upper[i] - prio[i] = 0
        /\ z.lower[i] * (lo[i] - x[i]) = 0 /\ z.upper[i] * (x[i] - hi[i]) = 0
        /\ lo[i] <= y[i] /\ y[i] <= hi[i]
    BY <1>2, <1>3 DEF ComplementarySlackness, Stationary, PrimalFeasible
  <2> QED
    BY <2>1, <2>2, GainOfOneClass
<1>5. t * Sum(y) <= t * Sum(x)
  <2>1. Sum(x) \in Nat /\ Sum(y) \in Nat
    BY SharesAddUp
  <2>2. t * (Sum(x) - capacity) = 0 /\ Sum(y) <= capacity
    BY <1>2, <1>3 DEF ComplementarySlackness, PrimalFeasible
  <2>3. t * Sum(x) = t * capacity
    BY <1>1, <2>1, <2>2
  <2> QED
    BY <1>1, <2>1, <2>2, <2>3, ProductMonotone
<1>6. /\ t * Sum(x) = t * x[1] + t * x[2] + t * x[3] + t * x[4]
      /\ t * Sum(y) = t * y[1] + t * y[2] + t * y[3] + t * y[4]
  <2>1. \A f \in [Class -> Nat] :
          t * Sum(f) = t * f[1] + t * f[2] + t * f[3] + t * f[4]
    <3> TAKE f \in [Class -> Nat]
    <3>1. f[1] \in Nat /\ f[2] \in Nat /\ f[3] \in Nat /\ f[4] \in Nat
      BY DEF Class
    <3>2. \A a, b, c, d \in Nat : t * (a + b + c + d) = t * a + t * b + t * c + t * d
      OBVIOUS
    <3> QED
      BY <3>1, <3>2 DEF Sum
  <2> QED
    BY <2>1
<1>7. \A i \in Class : /\ t * x[i] \in Nat /\ t * y[i] \in Nat
                      /\ prio[i] * x[i] \in Nat /\ prio[i] * y[i] \in Nat
  BY <1>1
<1> QED
  BY <1>4, <1>5, <1>6, <1>7 DEF Utility, Class

\* What KKTVerifier accepts leaves no capacity unused while a class could have more:
\* the price of unused capacity is 0, so the class pays at its maximum.
LEMMA VerifiedIsFull ==
  ASSUME TypeOK, NEW x \in [Class -> Nat], NEW t \in Nat, Verified(x, Multipliers(t)),
         NEW i \in Class, x[i] < hi[i]
  PROVE  Sum(x) = capacity
<1> DEFINE z == Multipliers(t)
<1>1. prio \in [Class -> Nat \ {0}] /\ prio \in [Class -> Nat] /\ hi \in [Class -> Nat] /\ capacity \in Nat
  BY AllocationAssumption DEF TypeOK
<1>2. z.sum = t /\ z.lower[i] \in Nat /\ z.upper[i] \in Nat
  BY <1>1, MultipliersType
<1>3. t * (Sum(x) - capacity) = 0 /\ z.upper[i] * (x[i] - hi[i]) = 0
  BY <1>2 DEF Verified, ComplementarySlackness
<1>4. t - z.lower[i] + z.upper[i] - prio[i] = 0
  BY <1>2 DEF Verified, Stationary
<1> HIDE DEF z
<1>5. /\ x[i] \in Nat /\ hi[i] \in Nat /\ prio[i] \in Nat \ {0} /\ Sum(x) \in Nat
  BY <1>1, SharesAddUp
<1>6. \A m, n \in Int : m * n = 0 => m = 0 \/ n = 0
  OBVIOUS
<1>7. z.upper[i] = 0
  BY <1>2, <1>3, <1>5, <1>6
<1>8. t # 0
  BY <1>2, <1>5, <1>7, <1>4
<1> QED
  BY <1>1, <1>3, <1>5, <1>6, <1>8, SMTT(30)

-----------------------------------------------------------------------------
(* The invariant, action by action.                                         *)

\* An optimum of the solver keeps the bounds and leaves no capacity unused.
LEMMA SolvedKeeps ==
  ASSUME AInv, Solved
  PROVE  AInv'
<1>1. TypeOK /\ pc = "solve" /\ ~Starved /\ pc' = "done" /\ status' = "optimal"
      /\ UNCHANGED <<inputs, slack, queue>>
  BY DEF AInv, Solved
<1>2. PICK x \in [Class -> 0..MaxBound], t \in 0..MaxPriority :
        /\ Verified(x, Multipliers(t))
        /\ alloc' = [i \in Class |-> Weight * Most(lo[i], Least(hi[i], x[i]))]
  BY DEF Solved
<1>3. /\ Weight \in Nat /\ Total \in Nat /\ capacity \in Nat
      /\ lo \in [Class -> Nat] /\ hi \in [Class -> Nat] /\ x \in [Class -> Nat] /\ t \in Nat
      /\ \A i \in Class : Low[i] = Weight * lo[i] /\ High[i] = Weight * hi[i]
      /\ Total = Weight * capacity
  <2>1. \A i \in Class : Low[i] = Weight * lo[i] /\ High[i] = Weight * hi[i]
    BY DEF Low, High
  <2> QED
    BY <1>1, <1>2, <2>1, Units, AllocationAssumption DEF TypeOK, Total
<1>4. \A i \in Class : lo[i] <= x[i] /\ x[i] <= hi[i] /\ alloc'[i] = Weight * x[i]
  <2>1. \A i \in Class : lo[i] <= x[i] /\ x[i] <= hi[i]
    BY <1>2 DEF Verified, PrimalFeasible
  <2>2. \A i \in Class : Most(lo[i], Least(hi[i], x[i])) = x[i]
    <3> TAKE i \in Class
    <3>1. /\ lo[i] \in Nat /\ x[i] \in Nat /\ hi[i] \in Nat
          /\ lo[i] <= x[i] /\ x[i] <= hi[i]
      BY <1>3, <2>1
    <3>2. Least(hi[i], x[i]) = x[i]
      BY <3>1 DEF Least
    <3>3. Most(lo[i], x[i]) = x[i]
      BY <3>1 DEF Most
    <3> QED
      BY <3>2, <3>3
  <2> QED
    BY <2>1, <2>2, <1>2
<1>5. alloc' \in [Class -> Nat]
  <2>1. \A i \in Class : Weight * x[i] \in Nat
    BY <1>3
  <2>2. alloc' = [i \in Class |-> Weight * x[i]]
    BY <1>2, <1>4
  <2> QED
    BY <2>1, <2>2
<1>6. Sum(x) \in Nat /\ Sum(alloc') = Weight * Sum(x)
  BY <1>3, <1>4, <1>5, WeightScales
<1>7. \A i \in Class : Low[i] <= alloc'[i] /\ alloc'[i] <= High[i]
  <2> TAKE i \in Class
  <2>1. Weight * lo[i] <= Weight * x[i]
    BY <1>3, <1>4, ProductMonotone, SMTT(30)
  <2>2. Weight * x[i] <= Weight * hi[i]
    BY <1>3, <1>4, ProductMonotone, SMTT(30)
  <2> QED
    BY <2>1, <2>2, <1>3, <1>4
<1>8. Sum(alloc') <= Total
  BY <1>2, <1>3, <1>6, ProductMonotone DEF Verified, PrimalFeasible
<1>9. Sum(alloc') = Total \/ \A i \in Class : alloc'[i] >= High[i]
  <2>1. CASE \E i \in Class : x[i] < hi[i]
    BY <2>1, <1>1, <1>2, <1>3, <1>6, VerifiedIsFull
  <2>2. CASE \A i \in Class : ~(x[i] < hi[i])
    <3>1. \A i \in Class : x[i] = hi[i]
      BY <2>2, <1>3, <1>4
    <3> QED
      BY <3>1, <1>3, <1>4, <1>7
  <2> QED
    BY <2>1, <2>2
<1>10. /\ Low' = Low /\ High' = High /\ Total' = Total
       /\ (Starved' <=> Starved) /\ prio' = prio /\ Sum(alloc)' = Sum(alloc')
  BY <1>1 DEF inputs, Low, High, Total, Starved, Weight, Sum
<1>11. TypeOK'
  BY <1>1, <1>5 DEF TypeOK, inputs
<1>12. SharesInv'
  BY <1>1, <1>7, <1>10 DEF SharesInv
<1>13. SolutionBest'
  <2> SUFFICES ASSUME NEW y \in [Class -> 0..MaxBound], PrimalFeasible(y)'
               PROVE  (Weight * Utility(y))' <= Utility(alloc)'
    BY DEF SolutionBest
  <2>1. PrimalFeasible(y) /\ y \in [Class -> Nat]
    BY <1>1, AllocationAssumption DEF PrimalFeasible, inputs
  <2>2. Utility(y) \in Nat /\ Utility(x) \in Nat /\ Utility(y) <= Utility(x)
    BY <1>1, <1>2, <1>3, <2>1, VerifiedIsBest
  <2>3. Utility(alloc)' = Weight * Utility(x)
    <3>1. Utility(alloc)' = Utility([i \in Class |-> Weight * x[i]])
      BY <1>1, <1>2, <1>4 DEF Utility, inputs, Class
    <3> QED
      BY <1>1, <1>3, <3>1, UtilityScales DEF TypeOK
  <2>4. (Weight * Utility(y))' = Weight * Utility(y)
    BY <1>1 DEF Weight, Sum, Utility, inputs
  <2> QED
    BY <1>3, <2>2, <2>3, <2>4, ProductMonotone
<1>14. FitsCapacity' /\ WorkConserving'
  BY <1>8, <1>9, <1>10 DEF FitsCapacity, WorkConserving
<1> QED
  BY <1>1, <1>11, <1>12, <1>13, <1>14 DEF AInv

\* The fallback starts from shares that keep all the bounds, and with the slack
\* they leave.
LEMMA FallBackKeeps ==
  ASSUME AInv, FallBack
  PROVE  AInv'
<1>1. /\ TypeOK /\ pc' = "redistribute" /\ queue' = Class /\ UNCHANGED inputs
      /\ status' = "fallback"
      /\ alloc' = IF Starved THEN Shares ELSE Guaranteed
      /\ slack' = Total - Sum(alloc')
  BY DEF AInv, FallBack
<1>2. /\ Low' = Low /\ High' = High /\ Total' = Total
      /\ (Starved' <=> Starved) /\ prio' = prio /\ Sum(alloc)' = Sum(alloc')
  BY <1>1 DEF inputs, Low, High, Total, Starved, Weight, Sum
<1>3. /\ alloc' \in [Class -> Nat]
      /\ Sum(alloc') <= Total
  BY <1>1, SharesAreFair, GuaranteesFit
<1>4. Sum(alloc') \in Nat /\ Total \in Nat
  BY <1>1, <1>3, SharesAddUp, Units
<1>5. TypeOK'
  BY <1>1, <1>3, <1>4 DEF TypeOK, inputs
<1>6. SharesInv'
  <2>1. CASE Starved
    <3>1. /\ \A i \in Class : alloc'[i] <= High[i]
          /\ \A i, j \in Class : Before(i, j) => alloc'[i] >= alloc'[j] \/ alloc'[i] = High[i]
      BY <1>1, <2>1, SharesAreFair
    <3> QED
      BY <3>1, <2>1, <1>2 DEF SharesInv, Before
  <2>2. CASE ~Starved
    <3>1. \A i \in Class : alloc'[i] >= Low[i] /\ (alloc'[i] <= High[i] \/ alloc'[i] = Low[i])
      BY <1>1, <2>2, GuaranteesFit
    <3> QED
      BY <3>1, <2>2, <1>2 DEF SharesInv
  <2> QED
    BY <2>1, <2>2
<1>7. SlackInv'
  BY <1>1, <1>2 DEF SlackInv
<1> QED
  BY <1>1, <1>5, <1>6, <1>7 DEF AInv

\* The class whose turn it is gets what is left up to its maximum: those before it
\* have theirs.
LEMMA RedistributeKeeps ==
  ASSUME AInv, NEW k \in Class, Redistribute(k)
  PROVE  AInv'
<1> DEFINE added == Least(slack, Most(0, High[k] - alloc[k]))
<1>1. /\ TypeOK /\ pc = "redistribute" /\ SharesInv /\ SlackInv
      /\ slack > 0 /\ NextOfQueue(k)
      /\ alloc' = [alloc EXCEPT ![k] = alloc[k] + added]
      /\ slack' = slack - added
      /\ queue' = queue \ {k} /\ UNCHANGED <<inputs, pc, status>> /\ status = "fallback"
  BY DEF AInv, Redistribute
<1>2. /\ Low' = Low /\ High' = High /\ Total' = Total
      /\ (Starved' <=> Starved) /\ prio' = prio /\ Sum(alloc)' = Sum(alloc')
  BY <1>1 DEF inputs, Low, High, Total, Starved, Weight, Sum
<1>3. /\ alloc \in [Class -> Nat] /\ slack \in Nat /\ queue \subseteq Class
      /\ Low \in [Class -> Nat] /\ High \in [Class -> Nat] /\ Total \in Nat
  BY <1>1, Units DEF TypeOK
<1>4. /\ added \in Nat /\ added <= slack
      /\ alloc[k] >= High[k] => added = 0
      /\ alloc[k] < High[k] => alloc[k] + added <= High[k]
      /\ added < slack => alloc[k] + added >= High[k]
  BY <1>3 DEF Least, Most
<1> HIDE DEF added
<1>5. /\ alloc' \in [Class -> Nat]
      /\ Sum(alloc') = Sum(alloc) + added /\ Sum(alloc) \in Nat
  BY <1>1, <1>3, <1>4, SumOfOneMore
<1>6. \A i \in Class : alloc'[i] = IF i = k THEN alloc[k] + added ELSE alloc[i]
  BY <1>1, <1>3
<1>7. TypeOK'
  BY <1>1, <1>3, <1>4, <1>5 DEF TypeOK, inputs
<1>8. SlackInv'
  <2>1. slack' = Total - Sum(alloc')
    BY <1>1, <1>3, <1>4, <1>5 DEF SlackInv
  <2>2. ASSUME slack' > 0, NEW i \in Class \ queue'
        PROVE  alloc'[i] >= High[i]
    <3>1. CASE i = k
      BY <3>1, <2>2, <1>1, <1>3, <1>4, <1>6
    <3>2. CASE i # k
      BY <3>2, <2>2, <1>1, <1>6 DEF SlackInv
    <3> QED
      BY <3>1, <3>2
  <2> QED
    BY <2>1, <2>2, <1>2 DEF SlackInv
<1>9. SharesInv'
  <2>1. ASSUME NEW i \in Class
        PROVE  /\ ~Starved => alloc'[i] >= Low[i]
               /\ alloc'[i] <= High[i] \/ (~Starved /\ alloc'[i] = Low[i])
    <3>1. CASE i = k
      BY <3>1, <1>1, <1>3, <1>4, <1>6 DEF SharesInv
    <3>2. CASE i # k
      BY <3>2, <1>1, <1>6 DEF SharesInv
    <3> QED
      BY <3>1, <3>2
  <2>2. ASSUME Starved, NEW i \in Class, NEW j \in Class, Before(i, j)
        PROVE  alloc'[i] >= alloc'[j] \/ alloc'[i] = High[i]
    <3>1. /\ alloc[i] \in Nat /\ alloc[j] \in Nat /\ High[i] \in Nat
          /\ alloc[i] <= High[i]
          /\ alloc[i] >= alloc[j] \/ alloc[i] = High[i]
      BY <2>2, <1>1, <1>3 DEF SharesInv
    <3> prio[i] \in Int /\ prio[j] \in Int /\ i \in Int /\ j \in Int
      BY <1>1, AllocationAssumption DEF TypeOK, Class
    <3>2. i # j /\ ~Before(j, i)
      BY <2>2 DEF Before
    <3>3. CASE j = k
      <4>1. i \notin queue
        BY <3>2, <3>3, <1>1 DEF NextOfQueue
      <4>2. alloc[i] = High[i]
        BY <4>1, <3>1, <1>1 DEF SlackInv
      <4> QED
        BY <4>2, <3>2, <3>3, <1>6
    <3>4. CASE j # k /\ i = k
      BY <3>1, <3>4, <1>4, <1>6
    <3>5. CASE j # k /\ i # k
      BY <3>1, <3>5, <1>6
    <3> QED
      BY <3>3, <3>4, <3>5
  <2> QED
    BY <2>1, <2>2, <1>2 DEF SharesInv, Before
<1> QED
  BY <1>1, <1>7, <1>8, <1>9 DEF AInv

\* When it ends there is no slack, or every class has its maximum.
LEMMA FinishKeeps ==
  ASSUME AInv, Finish
  PROVE  AInv'
<1>1. /\ TypeOK /\ pc = "redistribute" /\ pc' = "done" /\ SharesInv /\ SlackInv
      /\ status = "fallback" /\ (slack <= 0 \/ queue = {})
      /\ UNCHANGED <<inputs, status, alloc, slack, queue>>
  BY DEF AInv, Finish
<1>2. /\ Low' = Low /\ High' = High /\ Total' = Total
      /\ (Starved' <=> Starved) /\ prio' = prio /\ Sum(alloc)' = Sum(alloc)
  BY <1>1 DEF inputs, Low, High, Total, Starved, Weight, Sum
<1>3. alloc \in [Class -> Nat] /\ slack \in Nat /\ Total \in Nat /\ Sum(alloc) \in Nat
  BY <1>1, Units, SharesAddUp DEF TypeOK
<1>4. TypeOK' /\ SharesInv'
  BY <1>1, <1>2 DEF TypeOK, SharesInv, Before, inputs
<1>5. FitsCapacity'
  BY <1>1, <1>2, <1>3 DEF FitsCapacity, SlackInv
<1>6. WorkConserving'
  BY <1>1, <1>2, <1>3 DEF WorkConserving, SlackInv
<1>7. SolutionBest'
  BY <1>1 DEF SolutionBest
<1> QED
  BY <1>1, <1>4, <1>5, <1>6, <1>7 DEF AInv

-----------------------------------------------------------------------------
\* The inductive invariant holds in every reachable state.
THEOREM AllocationInvariant == Spec => []AInv
<1>1. Init => AInv
  BY DEF Init, AInv, TypeOK
<1>2. AInv /\ [Next]_vars => AInv'
  <2> SUFFICES ASSUME AInv, [Next]_vars PROVE AInv'
    OBVIOUS
  <2>1. CASE Solved
    BY <2>1, SolvedKeeps
  <2>2. CASE FallBack
    BY <2>2, FallBackKeeps
  <2>3. CASE \E i \in Class : Redistribute(i)
    BY <2>3, RedistributeKeeps
  <2>4. CASE Finish
    BY <2>4, FinishKeeps
  <2>5. CASE UNCHANGED vars
    BY <2>5 DEF vars, inputs, AInv, TypeOK, SharesInv, SlackInv, FitsCapacity, WorkConserving,
                SolutionBest, Utility, PrimalFeasible, Low, High, Total, Starved, Weight, Sum, Before
  <2> QED
    BY <2>1, <2>2, <2>3, <2>4, <2>5 DEF Next
<1> QED
  BY <1>1, <1>2, PTL DEF Spec

\* The variables keep their types, for every size of the inputs.
THEOREM AllocationTypeCorrect == Spec => []TypeOK
<1>1. AInv => TypeOK
  BY DEF AInv
<1> QED
  BY <1>1, AllocationInvariant, PTL

\* Whatever the priorities, bounds and capacity, the allocations of solve_allocation
\* never add up to more than the link has.
THEOREM NeverOverCapacity == Spec => []FitsCapacity
<1>1. AInv => FitsCapacity
  <2> SUFFICES ASSUME AInv PROVE FitsCapacity
    OBVIOUS
  <2>1. Total \in Nat /\ TypeOK /\ alloc \in [Class -> Nat] /\ Sum(alloc) \in Nat /\ slack \in Nat
    BY Units, SharesAddUp DEF AInv, TypeOK
  <2>2. CASE pc = "solve"
    BY <2>1, <2>2 DEF AInv, FitsCapacity, Sum, Class
  <2>3. CASE pc = "redistribute"
    BY <2>1, <2>3 DEF AInv, SlackInv, FitsCapacity
  <2>4. CASE pc = "done"
    BY <2>4 DEF AInv
  <2> QED
    BY <2>1, <2>2, <2>3, <2>4 DEF TypeOK
<1> QED
  BY <1>1, AllocationInvariant, PTL

\* Every class keeps its minimum when the minima fit, and its maximum always.
THEOREM BoundsAreKept == Spec => []BoundsKept
<1>1. AInv => BoundsKept
  BY DEF AInv, SharesInv, BoundsKept
<1> QED
  BY <1>1, AllocationInvariant, PTL

\* The allocation wastes nothing: capacity stays unused only when every class has
\* its maximum.
THEOREM NothingWasted == Spec => []WorkConserving
<1>1. AInv => WorkConserving
  BY DEF AInv, WorkConserving
<1> QED
  BY <1>1, AllocationInvariant, PTL

\* On a starved link a class gets no less than one of lower priority, unless it has
\* its maximum.
THEOREM StarvationIsFair == Spec => []PriorityRespected
<1>1. AInv => PriorityRespected
  BY DEF AInv, SharesInv, PriorityRespected
<1> QED
  BY <1>1, AllocationInvariant, PTL

\* The page shows "optimal" beside an allocation only if it is: the four conditions of
\* KKTVerifier leave no better one.
THEOREM ReportedOptimaAreBest == Spec => []SolutionBest
<1>1. AInv => SolutionBest
  BY DEF AInv, SolutionBest
<1> QED
  BY <1>1, AllocationInvariant, PTL
=============================================================================
