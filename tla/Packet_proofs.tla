--------------------------- MODULE Packet_proofs ---------------------------
(***************************************************************************)
(* What Packet promises of a frame, for bytes of any size, all ids, tokens *)
(* and rates, and payloads of any length: an unharmed frame is read as the *)
(* packet it was made of, one wrong byte is noticed wherever it counts,    *)
(* and so is a frame that was cut short.                                   *)
(***************************************************************************)
EXTENDS Packet, SequenceTheorems, WellFoundedInduction, TLAPS
-----------------------------------------------------------------------------
(* Induction                                                               *)

\* A set of naturals has a least element.
LEMMA Least ==
    ASSUME NEW T \in SUBSET Nat, T # {}
    PROVE  \E x \in T : \A y \in T : x <= y
<1> DEFINE R == OpToRel(<, Nat)
<1>1. IsWellFoundedOn(R, Nat)
  BY NatLessThanWellFounded
<1>2. \A x \in Nat, y \in Nat : x < y => <<x, y>> \in R
  BY DEF OpToRel
<1> HIDE DEF R
<1>3. T \subseteq Nat
  OBVIOUS
<1>4. \E x \in T : \A y \in T : ~(<<y, x>> \in R)
  BY <1>1, <1>3, WFMin, Zenon
<1>5. PICK x \in T : \A y \in T : ~(<<y, x>> \in R)
  BY <1>4, Zenon
<1>6. ASSUME NEW y \in T PROVE x <= y
  <2>1. x \in Nat /\ y \in Nat
    BY <1>3
  <2>2. ~(<<y, x>> \in R)
    BY <1>5, Zenon
  <2>3. ~(y < x)
    BY <1>2, <2>1, <2>2
  <2> QED BY <2>1, <2>3
<1> QED BY <1>6

\* Induction up to a bound, for a property that is given as a set
LEMMA UpTo ==
    ASSUME NEW T, NEW N \in Nat, 0 \in T, \A n \in 0 .. N - 1 : n \in T => n + 1 \in T
    PROVE  \A n \in 0 .. N : n \in T
<1> DEFINE Gap == {n \in 0 .. N : n \notin T}
<1>1. SUFFICES ASSUME Gap # {} PROVE FALSE
  OBVIOUS
<1>2. Gap \in SUBSET Nat
  OBVIOUS
<1>3. PICK x \in Gap : \A y \in Gap : x <= y
  <2> HIDE DEF Gap
  <2> QED BY <1>1, <1>2, Least
<1>4. x # 0 /\ x \in 0 .. N
  BY <1>3
<1>5. x - 1 \in 0 .. N - 1 /\ ~(x <= x - 1)
  BY <1>4
<1>6. x - 1 \notin Gap
  BY <1>3, <1>5
<1>7. x - 1 \in T
  BY <1>5, <1>6
<1>8. x - 1 + 1 \in T /\ x - 1 + 1 = x
  BY <1>4, <1>5, <1>7
<1> QED BY <1>3, <1>8

-----------------------------------------------------------------------------
(* Division                                                                *)

\* Quotient and remainder of numbers
LEMMA DivMod ==
    ASSUME NEW a \in Nat, NEW b \in Nat, b > 0
    PROVE  /\ a \div b \in Nat /\ a % b \in 0 .. b - 1
           /\ a = b * (a \div b) + (a % b)
OBVIOUS

\* A multiple of b that is larger is larger by b.
LEMMA Apart ==
    ASSUME NEW b \in Nat, NEW p \in Int, NEW q \in Int, p < q
    PROVE  b * p + b <= b * q
<1>1. PICK d \in Nat : q = p + 1 + d
  <2>1. q - p - 1 \in Nat /\ q = p + 1 + (q - p - 1)
    OBVIOUS
  <2> QED BY <2>1
<1>2. b * q = b * p + b + b * d
  BY <1>1
<1>3. b * d \in Nat /\ b * p \in Int
  OBVIOUS
<1> QED BY <1>2, <1>3

\* They are the only ones with the property.
LEMMA DivIs ==
    ASSUME NEW b \in Nat, b > 0, NEW q \in Nat, NEW r \in 0 .. b - 1, NEW a, a = b * q + r
    PROVE  a \div b = q /\ a % b = r
<1>1. PICK c \in Nat : c = b * q
  BY b * q \in Nat
<1>2. a \in Nat
  BY <1>1
<1>3. PICK q2 \in Nat, r2 \in 0 .. b - 1 : q2 = a \div b /\ r2 = a % b /\ a = b * q2 + r2
  BY <1>2, DivMod
<1>4. PICK c2 \in Nat : c2 = b * q2
  BY b * q2 \in Nat
<1>5. c + r = c2 + r2
  BY <1>1, <1>3, <1>4
<1>6. ~(q < q2)
  <2>1. q < q2 => c + b <= c2
    BY Apart, <1>1, <1>4
  <2> QED BY <1>5, <2>1
<1>7. ~(q2 < q)
  <2>1. q2 < q => c2 + b <= c
    BY Apart, <1>1, <1>4
  <2> QED BY <1>5, <2>1
<1>8. q = q2
  BY <1>6, <1>7
<1>9. c = c2
  BY <1>1, <1>4, <1>8
<1> QED BY <1>3, <1>5, <1>8, <1>9
\* Dividing by one and then by the other is dividing by the product.
LEMMA DivDiv ==
    ASSUME NEW v \in Nat, NEW b \in Nat, NEW c \in Nat, b > 0, c > 0
    PROVE  /\ b * c \in Nat /\ b * c > 0
           /\ v \div (b * c) = (v \div b) \div c
<1>1. PICK q \in Nat, r \in 0 .. b - 1 : q = v \div b /\ v = b * q + r
  BY DivMod
<1>2. PICK p \in Nat, s \in 0 .. c - 1 : p = q \div c /\ q = c * p + s
  BY DivMod
<1>3. PICK m \in Nat : m = b * c /\ m > 0
  <2>1. b * c \in Nat /\ 0 * b + b <= b * c
    BY Apart, b * 0 = 0
  <2> QED BY <2>1
<1>4. PICK t \in Nat : t = b * s /\ t + b <= m
  <2>1. b * s \in Nat /\ b * s + b <= b * c
    BY Apart
  <2> QED BY <1>3, <2>1
<1>5. v = m * p + (t + r)
  <2>1. v = b * (c * p + s) + r
    BY <1>1, <1>2
  <2>2. b * (c * p + s) = b * c * p + b * s
    OBVIOUS
  <2>3. b * c * p \in Nat
    OBVIOUS
  <2> QED BY <1>3, <1>4, <2>1, <2>2, <2>3
<1>6. t + r \in 0 .. m - 1
  BY <1>4
<1>7. v \div m = p
  BY <1>3, <1>5, <1>6, DivIs
<1> QED BY <1>1, <1>2, <1>3, <1>7

\* A number below b is its own rest.
LEMMA Small ==
    ASSUME NEW b \in Nat, NEW v \in 0 .. b - 1
    PROVE  v % b = v
<1>1. v \in Nat /\ b > 0
  OBVIOUS
<1>2. v \div b \in Nat /\ v % b \in 0 .. b - 1 /\ v = b * (v \div b) + (v % b)
  BY <1>1, DivMod
<1>3. PICK q \in Nat, r \in 0 .. b - 1 : r = v % b /\ v = b * q + r
  BY <1>2
<1>4. PICK m \in Nat : m = b * q
  BY b * q \in Nat
<1>5. 0 < q => b * 0 + b <= m
  BY <1>4, Apart
<1>6. q = 0
  BY <1>1, <1>3, <1>4, <1>5
<1> QED BY <1>3, <1>6

\* Dividing a number below b * c by b leaves one below c.
LEMMA DivBelow ==
    ASSUME NEW v \in Nat, NEW b \in Nat, NEW c \in Nat, b > 0, v < b * c
    PROVE  v \div b \in 0 .. c - 1
<1>1. v \div b \in Nat /\ v % b \in 0 .. b - 1 /\ v = b * (v \div b) + (v % b)
  BY DivMod
<1>2. PICK q \in Nat, r \in 0 .. b - 1 : q = v \div b /\ v = b * q + r
  BY <1>1
<1>3. PICK m \in Nat, n \in Nat : m = b * c /\ n = b * q
  BY b * c \in Nat, b * q \in Nat
<1>4. c < q => m + b <= n
  BY <1>3, Apart
<1>5. c = q => m = n
  BY <1>3
<1>6. q < c
  BY <1>2, <1>3, <1>4, <1>5
<1> QED BY <1>2, <1>6

\* Two numbers closer than b differ modulo b.
LEMMA ModApart ==
    ASSUME NEW x \in Nat, NEW y \in Nat, NEW b \in Nat, x < y, y < x + b
    PROVE  x % b # y % b
<1>0. b > 0
  OBVIOUS
<1> DEFINE Divided(z) ==
             \E p \in Nat, r \in 0 .. b - 1 : r = z % b /\ z = b * p + r
<1>9. \A z \in Nat : Divided(z)
  <2> TAKE z \in Nat
  <2>1. z \div b \in Nat /\ z % b \in 0 .. b - 1 /\ z = b * (z \div b) + (z % b)
    BY <1>0, DivMod
  <2> QED BY <2>1
<1>1. PICK p \in Nat, r \in 0 .. b - 1 : r = x % b /\ x = b * p + r
  BY <1>9
<1>2. PICK q \in Nat, s \in 0 .. b - 1 : s = y % b /\ y = b * q + s
  BY <1>9
<1>3. PICK c \in Nat, d \in Nat : c = b * p /\ d = b * q
  BY b * p \in Nat, b * q \in Nat
<1>4. p < q => c + b <= d
  BY <1>3, Apart
<1>5. q < p => d + b <= c
  BY <1>3, Apart
<1>6. p = q => c = d
  BY <1>3
<1> QED BY <1>1, <1>2, <1>3, <1>4, <1>5, <1>6
-----------------------------------------------------------------------------
(* Sums                                                                    *)

\* The greatest member of a set that has the last number
LEMMA MaxLast ==
    ASSUME NEW n \in Nat, NEW t \in SUBSET (1 .. n + 1), n + 1 \in t
    PROVE  Max(t) = n + 1
<1>1. \A y \in t : n + 1 >= y
  OBVIOUS
<1>2. Max(t) \in t /\ \A y \in t : Max(t) >= y
  BY <1>1 DEF Max
<1>3. Max(t) \in 1 .. n + 1 /\ Max(t) >= n + 1
  BY <1>2
<1> QED BY <1>3

\* The recursion a fold goes through has a solution.
LEMMA FoldExists ==
    ASSUME NEW N \in Nat, NEW s
    PROVE  \E g : g = [t \in SUBSET (1 .. N) |->
                        IF t = {} THEN 0 ELSE g[t \ {Max(t)}] + s[Max(t)]]
<1> DEFINE Solves(g, n) == g = [t \in SUBSET (1 .. n) |->
                        IF t = {} THEN 0 ELSE g[t \ {Max(t)}] + s[Max(t)]]
           T == {n \in Nat : \E g : Solves(g, n)}
<1>1. 0 \in T
  <2> DEFINE g == [t \in SUBSET (1 .. 0) |-> 0]
  <2>1. \A t \in SUBSET (1 .. 0) : t = {}
    OBVIOUS
  <2>2. Solves(g, 0)
    BY <2>1
  <2> HIDE DEF Solves
  <2> QED BY <2>2
<1>2. ASSUME NEW n \in 0 .. N - 1, n \in T PROVE n + 1 \in T
  <2>1. PICK g : Solves(g, n)
    BY <1>2
  <2> DEFINE h == [t \in SUBSET (1 .. n + 1) |->
                      IF n + 1 \in t THEN g[t \ {n + 1}] + s[n + 1] ELSE g[t]]
  <2>2. ASSUME NEW t \in SUBSET (1 .. n + 1)
        PROVE  h[t] = IF t = {} THEN 0 ELSE h[t \ {Max(t)}] + s[Max(t)]
    <3>1. CASE n + 1 \in t
      <4>1. Max(t) = n + 1
        BY <3>1, MaxLast
      <4>2. t \ {n + 1} \in SUBSET (1 .. n + 1) /\ n + 1 \notin t \ {n + 1}
        OBVIOUS
      <4>3. h[t \ {n + 1}] = g[t \ {n + 1}]
        BY <4>2
      <4>4. h[t] = g[t \ {n + 1}] + s[n + 1]
        BY <3>1
      <4> HIDE DEF h
      <4> QED BY <3>1, <4>1, <4>3, <4>4
    <3>2. CASE n + 1 \notin t
      <4>1. t \in SUBSET (1 .. n)
        BY <3>2
      <4>2. t \ {Max(t)} \in SUBSET (1 .. n + 1) /\ n + 1 \notin t \ {Max(t)}
        BY <3>2
      <4>3. h[t] = g[t] /\ h[t \ {Max(t)}] = g[t \ {Max(t)}]
        BY <3>2, <4>2
      <4>4. g[t] = IF t = {} THEN 0 ELSE g[t \ {Max(t)}] + s[Max(t)]
        BY <2>1, <4>1
      <4> HIDE DEF h
      <4> QED BY <4>3, <4>4
    <3> QED BY <3>1, <3>2
  <2>3. Solves(h, n + 1)
    BY <2>2
  <2> HIDE DEF Solves, h
  <2> QED BY <2>3
<1>3. N \in T
  <2> HIDE DEF T
  <2> QED BY <1>1, <1>2, UpTo
<1> QED BY <1>3

\* The sum of a sequence is the last of its partial sums.
LEMMA TotalIs ==
    ASSUME NEW N \in Nat, NEW s \in [1 .. N -> Int]
    PROVE  \E p \in [0 .. N -> Int] :
               /\ p[0] = 0
               /\ \A n \in 1 .. N : p[n] = p[n - 1] + s[n]
               /\ Total(s) = p[N]
<1>1. PICK iter : /\ iter = CHOOSE g : g = [t \in SUBSET DOMAIN s |->
                        IF t = {} THEN 0 ELSE g[t \ {Max(t)}] + s[Max(t)]]
                  /\ Total(s) = iter[DOMAIN s]
  BY DEF Total, FoldLeft, MapThenFoldSet
<1>2. DOMAIN s = 1 .. N
  OBVIOUS
<1>3. iter = [t \in SUBSET (1 .. N) |->
                  IF t = {} THEN 0 ELSE iter[t \ {Max(t)}] + s[Max(t)]]
  <2> DEFINE Solves(g) == g = [t \in SUBSET (1 .. N) |->
                  IF t = {} THEN 0 ELSE g[t \ {Max(t)}] + s[Max(t)]]
  <2>1. \E g : Solves(g)
    BY FoldExists, Zenon
  <2>2. iter = CHOOSE g : Solves(g)
    BY <1>1, <1>2, Zenon
  <2>3. Solves(iter)
    <3> HIDE DEF Solves
    <3> QED BY <2>1, <2>2, Zenon
  <2> QED BY <2>3
<1>4. iter[{}] = 0
  BY <1>3
<1>5. ASSUME NEW n \in 1 .. N PROVE iter[1 .. n] = iter[1 .. n - 1] + s[n]
  <2>1. n - 1 \in Nat /\ n - 1 + 1 = n /\ 1 .. n \in SUBSET (1 .. n - 1 + 1) /\ n \in 1 .. n
    OBVIOUS
  <2>2. Max(1 .. n) = n
    BY <2>1, MaxLast
  <2>3. (1 .. n) \ {n} = 1 .. n - 1 /\ 1 .. n # {} /\ 1 .. n \in SUBSET (1 .. N)
    <3>1. (1 .. n) \ {n} = 1 .. n - 1
      OBVIOUS
    <3>2. n \in 1 .. n
      OBVIOUS
    <3>3. \A k \in 1 .. n : k \in 1 .. N
      OBVIOUS
    <3> QED BY <3>1, <3>2, <3>3
  <2>4. iter[1 .. n] = iter[(1 .. n) \ {Max(1 .. n)}] + s[Max(1 .. n)]
    BY <1>3, <2>3
  <2> QED BY <2>2, <2>3, <2>4
<1> DEFINE p == [n \in 0 .. N |-> iter[1 .. n]]
<1>6. p[0] = 0 /\ p[N] = Total(s) /\ \A n \in 1 .. N : p[n] = p[n - 1] + s[n]
  <2>1. 1 .. 0 = {} /\ 0 \in 0 .. N /\ N \in 0 .. N
    OBVIOUS
  <2>2. p[0] = 0
    BY <1>4, <2>1
  <2>3. p[N] = Total(s)
    BY <1>1, <1>2, <2>1
  <2>4. ASSUME NEW n \in 1 .. N PROVE p[n] = p[n - 1] + s[n]
    <3>1. n \in 0 .. N /\ n - 1 \in 0 .. N
      OBVIOUS
    <3> QED BY <1>5, <3>1
  <2> HIDE DEF p
  <2> QED BY <2>2, <2>3, <2>4
<1>7. \A n \in 0 .. N : p[n] \in Int
  <2> DEFINE T == {n \in 0 .. N : p[n] \in Int}
  <2> HIDE DEF p
  <2>1. 0 \in T
    BY <1>6
  <2>2. ASSUME NEW n \in 0 .. N - 1, n \in T PROVE n + 1 \in T
    <3>1. n + 1 \in 1 .. N /\ n + 1 - 1 = n /\ n + 1 \in 0 .. N
      OBVIOUS
    <3>2. p[n + 1] = p[n] + s[n + 1] /\ s[n + 1] \in Int
      BY <1>6, <3>1
    <3> QED BY <2>2, <3>1, <3>2
  <2>3. \A n \in 0 .. N : n \in T
    <3> HIDE DEF T
    <3> QED BY <2>1, <2>2, UpTo
  <2> QED BY <2>3
<1>8. p \in [0 .. N -> Int]
  BY <1>7
<1> HIDE DEF p
<1> QED BY <1>6, <1>8

\* A sum of naturals is one.
LEMMA TotalNat ==
    ASSUME NEW N \in Nat, NEW s \in [1 .. N -> Nat]
    PROVE  Total(s) \in Nat
<1>1. s \in [1 .. N -> Int]
  OBVIOUS
<1>2. PICK p \in [0 .. N -> Int] : /\ p[0] = 0
                                   /\ \A n \in 1 .. N : p[n] = p[n - 1] + s[n]
                                   /\ Total(s) = p[N]
  BY <1>1, TotalIs
<1> DEFINE T == {n \in 0 .. N : p[n] >= 0}
<1>3. 0 \in T
  BY <1>2
<1>4. ASSUME NEW n \in 0 .. N - 1, n \in T PROVE n + 1 \in T
  <2>1. n + 1 \in 1 .. N /\ n + 1 - 1 = n /\ n + 1 \in 0 .. N
    OBVIOUS
  <2>2. p[n + 1] = p[n] + s[n + 1] /\ s[n + 1] \in Nat /\ p[n] \in Int /\ p[n] >= 0
    BY <1>2, <1>4, <2>1
  <2> QED BY <2>1, <2>2
<1>5. N \in T
  <2>1. N \in 0 .. N
    OBVIOUS
  <2> HIDE DEF T
  <2> QED BY <1>3, <1>4, <2>1, UpTo
<1> QED BY <1>2, <1>5

\* Changing one number changes the sum by the difference.
LEMMA TotalChange ==
    ASSUME NEW N \in Nat, NEW s \in [1 .. N -> Int], NEW t \in [1 .. N -> Int],
           NEW k \in 1 .. N, \A n \in 1 .. N : n # k => s[n] = t[n]
    PROVE  Total(t) - Total(s) = t[k] - s[k] /\ Total(t) \in Int /\ Total(s) \in Int
<1>1. PICK p \in [0 .. N -> Int] : /\ p[0] = 0
                                   /\ \A n \in 1 .. N : p[n] = p[n - 1] + s[n]
                                   /\ Total(s) = p[N]
  BY TotalIs
<1>2. PICK q \in [0 .. N -> Int] : /\ q[0] = 0
                                   /\ \A n \in 1 .. N : q[n] = q[n - 1] + t[n]
                                   /\ Total(t) = q[N]
  BY TotalIs
<1> DEFINE T == {n \in 0 .. N : q[n] - p[n] = IF n < k THEN 0 ELSE t[k] - s[k]}
<1>3. 0 \in T
  BY <1>1, <1>2
<1>4. ASSUME NEW n \in 0 .. N - 1, n \in T PROVE n + 1 \in T
  <2>1. n + 1 \in 1 .. N /\ n + 1 - 1 = n /\ n + 1 \in 0 .. N /\ n \in 0 .. N
    OBVIOUS
  <2>2. p[n + 1] = p[n] + s[n + 1] /\ q[n + 1] = q[n] + t[n + 1]
    BY <1>1, <1>2, <2>1
  <2>3. /\ p[n] \in Int /\ q[n] \in Int /\ s[n + 1] \in Int /\ t[n + 1] \in Int
        /\ t[k] \in Int /\ s[k] \in Int
    BY <2>1
  <2>4. q[n] - p[n] = IF n < k THEN 0 ELSE t[k] - s[k]
    BY <1>4
  <2>5. CASE n + 1 = k
    <3>1. n < k /\ q[n] - p[n] = 0
      BY <2>1, <2>4, <2>5
    <3>2. PICK a \in Int, b \in Int, c \in Int, d \in Int :
               a = p[n] /\ b = q[n] /\ c = s[n + 1] /\ d = t[n + 1]
      BY <2>3, Zenon
    <3>3. q[n + 1] - p[n + 1] = t[n + 1] - s[n + 1]
      <4>1. b - a = 0
        BY <3>1, <3>2, Zenon
      <4>2. (b + d) - (a + c) = d - c
        BY <4>1
      <4> QED BY <2>2, <3>2, <4>2, Zenon
    <3>4. q[k] - p[k] = t[k] - s[k]
      BY <2>5, <3>3, Zenon
    <3>5. k \in 0 .. N /\ ~(k < k)
      OBVIOUS
    <3> QED BY <2>5, <3>4, <3>5
  <2>6. CASE n + 1 # k
    <3>1. s[n + 1] = t[n + 1]
      BY <2>1, <2>6
    <3>2. n + 1 < k <=> n < k
      BY <2>6
    <3>3. q[n + 1] - p[n + 1] = q[n] - p[n]
      <4>1. PICK a \in Int, b \in Int, c \in Int :
                 a = p[n] /\ b = q[n] /\ c = s[n + 1] /\ c = t[n + 1]
        BY <2>3, <3>1, Zenon
      <4>2. (b + c) - (a + c) = b - a
        OBVIOUS
      <4> QED BY <2>2, <4>1, <4>2, Zenon
    <3> QED BY <2>1, <2>4, <3>2, <3>3
  <2> QED BY <2>5, <2>6
<1>5. N \in T
  <2>1. N \in 0 .. N
    OBVIOUS
  <2> HIDE DEF T
  <2> QED BY <1>3, <1>4, <2>1, UpTo
<1>6. N \in 0 .. N /\ ~(N < k)
  OBVIOUS
<1> QED BY <1>1, <1>2, <1>5, <1>6

\* One more number adds to the sum.
LEMMA TotalNext ==
    ASSUME NEW N \in Nat, NEW s \in [1 .. N -> Int], NEW t \in [1 .. N + 1 -> Int],
           \A n \in 1 .. N : s[n] = t[n]
    PROVE  Total(t) = Total(s) + t[N + 1] /\ Total(s) \in Int
<1>1. PICK p \in [0 .. N -> Int] : /\ p[0] = 0
                                   /\ \A n \in 1 .. N : p[n] = p[n - 1] + s[n]
                                   /\ Total(s) = p[N]
  BY TotalIs
<1>2. PICK q \in [0 .. N + 1 -> Int] : /\ q[0] = 0
                                       /\ \A n \in 1 .. N + 1 : q[n] = q[n - 1] + t[n]
                                       /\ Total(t) = q[N + 1]
  <2>1. PICK M \in Nat : M = N + 1
    OBVIOUS
  <2>2. t \in [1 .. M -> Int]
    BY <2>1
  <2>3. \E q \in [0 .. M -> Int] : /\ q[0] = 0
                                   /\ \A n \in 1 .. M : q[n] = q[n - 1] + t[n]
                                   /\ Total(t) = q[M]
    BY <2>2, TotalIs
  <2> QED BY <2>1, <2>3
<1> DEFINE T == {n \in 0 .. N : q[n] = p[n]}
<1>3. 0 \in T
  BY <1>1, <1>2
<1>4. ASSUME NEW n \in 0 .. N - 1, n \in T PROVE n + 1 \in T
  <2>1. n + 1 \in 1 .. N /\ n + 1 \in 1 .. N + 1 /\ n + 1 - 1 = n /\ n + 1 \in 0 .. N
    OBVIOUS
  <2>2. p[n + 1] = p[n] + s[n + 1] /\ q[n + 1] = q[n] + t[n + 1]
    <3>1. PICK j \in 1 .. N : j = n + 1 /\ j - 1 = n /\ j \in 1 .. N + 1
      BY <2>1
    <3> QED BY <1>1, <1>2, <3>1, Zenon
  <2>3. s[n + 1] = t[n + 1]
    BY <2>1
  <2>4. q[n] = p[n]
    BY <1>4
  <2>5. q[n + 1] = p[n + 1]
    BY <2>2, <2>3, <2>4, Zenon
  <2> QED BY <2>1, <2>5
<1>5. N \in T
  <2>1. N \in 0 .. N
    OBVIOUS
  <2> HIDE DEF T
  <2> QED BY <1>3, <1>4, <2>1, UpTo
<1>6. N + 1 \in 1 .. N + 1 /\ N + 1 - 1 = N /\ N \in 0 .. N
  OBVIOUS
<1> QED BY <1>1, <1>2, <1>5, <1>6

\* The sum of one byte
LEMMA TotalOne == ASSUME NEW s \in [1 .. 1 -> Int] PROVE Total(s) = s[1]
<1>1. PICK N \in Nat : N = 1
  OBVIOUS
<1>2. \E p \in [0 .. N -> Int] : /\ p[0] = 0
                                  /\ \A n \in 1 .. N : p[n] = p[n - 1] + s[n]
                                  /\ Total(s) = p[N]
  BY <1>1, TotalIs
<1>3. PICK p \in [0 .. 1 -> Int] : /\ p[0] = 0
                                   /\ \A n \in 1 .. 1 : p[n] = p[n - 1] + s[n]
                                   /\ Total(s) = p[1]
  BY <1>1, <1>2
<1>4. p[1] = p[0] + s[1]
  BY <1>3
<1> QED BY <1>3, <1>4

\* The sum of two bytes
LEMMA TotalTwo == ASSUME NEW s \in [1 .. 2 -> Int] PROVE Total(s) = s[1] + s[2]
<1>1. PICK N \in Nat : N = 1
  OBVIOUS
<1> DEFINE r == [k \in 1 .. 1 |-> s[k]]
<1>2. r \in [1 .. N -> Int] /\ r \in [1 .. 1 -> Int] /\ r[1] = s[1]
  BY <1>1
<1>3. s \in [1 .. N + 1 -> Int] /\ \A n \in 1 .. N : r[n] = s[n]
  BY <1>1
<1> HIDE DEF r
<1>4. Total(s) = Total(r) + s[N + 1]
  BY <1>2, <1>3, TotalNext
<1>5. Total(r) = s[1]
  BY <1>2, TotalOne
<1> QED BY <1>1, <1>4, <1>5

\* The sum of four bytes
LEMMA TotalFour ==
    ASSUME NEW s \in [1 .. 4 -> Int] PROVE Total(s) = s[1] + s[2] + s[3] + s[4]
<1>1. PICK N \in Nat : N = 2
  OBVIOUS
<1>2. PICK M \in Nat : M = 3
  OBVIOUS
<1> DEFINE q == [k \in 1 .. 2 |-> s[k]]
           r == [k \in 1 .. 3 |-> s[k]]
<1>3. q \in [1 .. N -> Int] /\ q \in [1 .. 2 -> Int] /\ q[1] = s[1] /\ q[2] = s[2]
  BY <1>1
<1>4. r \in [1 .. N + 1 -> Int] /\ r \in [1 .. M -> Int] /\ r[N + 1] = s[3]
  BY <1>1, <1>2
<1>5. \A n \in 1 .. N : q[n] = r[n]
  BY <1>1
<1>6. s \in [1 .. M + 1 -> Int] /\ s[M + 1] = s[4] /\ \A n \in 1 .. M : r[n] = s[n]
  BY <1>2
<1> HIDE DEF q, r
<1>7. Total(q) = s[1] + s[2]
  BY <1>3, TotalTwo
<1>8. Total(r) = Total(q) + s[3]
  BY <1>3, <1>4, <1>5, TotalNext
<1>9. Total(s) = Total(r) + s[4]
  BY <1>4, <1>6, TotalNext
<1> QED BY <1>7, <1>8, <1>9

-----------------------------------------------------------------------------
(* The bytes of a field                                                    *)

\* The byte is at least 3 and its powers are numbers.
LEMMA PlaceIs ==
    /\ BYTE \in Nat /\ BYTE >= 3
    /\ Place[1] = 1 /\ Place[2] = BYTE
    /\ Place[3] = BYTE * BYTE /\ Place[4] = BYTE * (BYTE * BYTE)
    /\ \A k \in 1 .. 4 : Place[k] \in Nat /\ Place[k] > 0
<1>1. BYTE \in Nat /\ BYTE >= 3
  BY PacketAssumption
<1>2. PICK b \in Nat : b = BYTE * BYTE /\ b > 0
  BY <1>1, DivDiv
<1>3. PICK c \in Nat : c = BYTE * b /\ c > 0
  BY <1>1, <1>2, DivDiv
<1>4. BYTE * BYTE * BYTE = BYTE * (BYTE * BYTE)
  BY <1>1
<1>5. Place[1] = 1 /\ Place[2] = BYTE /\ Place[3] = b /\ Place[4] = c
  BY <1>2, <1>3, <1>4 DEF Place
<1>6. \A k \in 1 .. 4 : k = 1 \/ k = 2 \/ k = 3 \/ k = 4
  OBVIOUS
<1>7. \A k \in 1 .. 4 : Place[k] \in Nat /\ Place[k] > 0
  BY <1>1, <1>2, <1>3, <1>5, <1>6
<1> QED BY <1>1, <1>2, <1>3, <1>5, <1>7

\* A byte is a number below BYTE.
LEMMA OctetIs == \A x \in Octet : x \in Nat /\ x \in Int /\ x < BYTE
BY PlaceIs DEF Octet

\* A number is the sum of what its digits count.
LEMMA Digits ==
    ASSUME NEW v \in Nat, NEW B \in Nat, B > 0
    PROVE  /\ v = (v % B) + (v \div B) * B
           /\ v = (v % B) + ((v \div B) % B) * B + ((v \div (B * B)) % B) * (B * B)
                     + (v \div (B * (B * B))) * (B * (B * B))
<1>1. PICK q1 \in Nat, r1 \in 0 .. B - 1 : q1 = v \div B /\ r1 = v % B /\ v = B * q1 + r1
  BY DivMod
<1>2. PICK q2 \in Nat, r2 \in 0 .. B - 1 : q2 = q1 \div B /\ r2 = q1 % B /\ q1 = B * q2 + r2
  BY DivMod
<1>3. PICK q3 \in Nat, r3 \in 0 .. B - 1 : q3 = q2 \div B /\ r3 = q2 % B /\ q2 = B * q3 + r3
  BY DivMod
<1>4. B * B \in Nat /\ B * B > 0 /\ v \div (B * B) = q2
  BY <1>1, <1>2, DivDiv
<1>5. v \div ((B * B) * B) = q3
  BY <1>3, <1>4, DivDiv
<1>6. (B * B) * B = B * (B * B)
  OBVIOUS
<1>7. v = r1 + q1 * B
  BY <1>1
<1>8. v = r1 + r2 * B + r3 * (B * B) + q3 * (B * (B * B))
  BY <1>1, <1>2, <1>3
<1> QED BY <1>1, <1>2, <1>3, <1>4, <1>5, <1>6, <1>7, <1>8

\* Each byte of a number is one.
LEMMA BytesAre ==
    ASSUME NEW v \in Nat, NEW w \in 1 .. 4
    PROVE  Bytes(v, w) \in [1 .. w -> Octet]
<1>1. ASSUME NEW k \in 1 .. w PROVE (v \div Place[k]) % BYTE \in 0 .. BYTE - 1
  <2>1. k \in 1 .. 4
    OBVIOUS
  <2>2. PICK p \in Nat : p = Place[k] /\ p > 0
    BY <2>1, PlaceIs
  <2>3. PICK d \in Nat : d = v \div p
    BY <2>2, DivMod
  <2>4. d % BYTE \in 0 .. BYTE - 1
    BY PlaceIs, DivMod
  <2> QED BY <2>2, <2>3, <2>4
<1> QED BY <1>1, Zenon DEF Bytes, Octet

\* What the fields of one, two and four bytes are read as
LEMMA ValueIs ==
    ASSUME NEW w \in {1, 2, 4}, NEW b \in [1 .. w -> Nat]
    PROVE  /\ Value(b) \in Nat
           /\ w = 1 => Value(b) = b[1]
           /\ w = 2 => Value(b) = b[1] + b[2] * BYTE
           /\ w = 4 => Value(b) = b[1] + b[2] * BYTE + b[3] * (BYTE * BYTE)
                                     + b[4] * (BYTE * (BYTE * BYTE))
<1> DEFINE s == [k \in 1 .. w |-> b[k] * Place[k]]
<1>1. Len(b) = w
  OBVIOUS
<1>2. Value(b) = Total(s)
  BY <1>1 DEF Value
<1>3. ASSUME NEW k \in 1 .. w PROVE b[k] * Place[k] \in Nat
  <2>1. k \in 1 .. 4
    OBVIOUS
  <2>2. b[k] \in Nat /\ Place[k] \in Nat
    BY <2>1, PlaceIs
  <2> QED BY <2>2
<1>4. s \in [1 .. w -> Nat] /\ s \in [1 .. w -> Int]
  BY <1>3
<1>5. \A k \in 1 .. w : s[k] = b[k] * Place[k]
  OBVIOUS
<1> HIDE DEF s
<1>6. Total(s) \in Nat
  <2>1. w \in Nat
    OBVIOUS
  <2> QED BY <1>4, <2>1, TotalNat
<1>7. CASE w = 1
  <2>1. Total(s) = s[1]
    BY <1>4, <1>7, TotalOne
  <2>2. s[1] = b[1]
    BY <1>5, <1>7, PlaceIs
  <2> QED BY <1>2, <1>6, <1>7, <2>1, <2>2
<1>8. CASE w = 2
  <2>1. Total(s) = s[1] + s[2]
    BY <1>4, <1>8, TotalTwo
  <2>2. s[1] = b[1] /\ s[2] = b[2] * BYTE
    BY <1>5, <1>8, PlaceIs
  <2> QED BY <1>2, <1>6, <1>8, <2>1, <2>2
<1>9. CASE w = 4
  <2>1. Total(s) = s[1] + s[2] + s[3] + s[4]
    BY <1>4, <1>9, TotalFour
  <2>2. 1 \in 1 .. w /\ 2 \in 1 .. w /\ 3 \in 1 .. w /\ 4 \in 1 .. w
    BY <1>9
  <2>3. s[1] = b[1] * Place[1] /\ s[2] = b[2] * Place[2]
        /\ s[3] = b[3] * Place[3] /\ s[4] = b[4] * Place[4]
    BY <1>5, <2>2
  <2>4. b[1] * Place[1] = b[1]
    BY <2>2, PlaceIs
  <2> QED BY <1>2, <1>6, <1>9, <2>1, <2>3, <2>4, PlaceIs
<1> QED BY <1>7, <1>8, <1>9

\* What is written into a field is read from it.
LEMMA ReadsBack ==
    ASSUME NEW w \in {1, 2, 4}, NEW v \in Fits(w)
    PROVE  v \in Nat /\ Bytes(v, w) \in [1 .. w -> Octet] /\ Value(Bytes(v, w)) = v
<1> DEFINE b == Bytes(v, w)
<1>1. v \in Nat
  BY DEF Fits
<1>2. w \in 1 .. 4
  OBVIOUS
<1>3. b \in [1 .. w -> Octet]
  BY <1>1, <1>2, BytesAre
<1>4. b \in [1 .. w -> Nat]
  BY <1>3, OctetIs
<1>5. \A k \in 1 .. w : b[k] = (v \div Place[k]) % BYTE
  BY DEF Bytes
<1> HIDE DEF b
<1>6. v \div 1 = v
  BY <1>1
<1>7. b[1] = v % BYTE
  BY <1>5, <1>6, PlaceIs
<1>8. CASE w = 1
  <2>1. v \in 0 .. BYTE - 1
    BY <1>8, PlaceIs DEF Fits
  <2>2. v % BYTE = v
    BY <2>1, PlaceIs, Small
  <2>3. Value(b) = b[1]
    BY <1>4, <1>8, ValueIs
  <2> QED BY <1>1, <1>3, <1>7, <2>2, <2>3 DEF b
<1>9. CASE w = 2
  <2>1. v < BYTE * BYTE
    BY <1>9, PlaceIs DEF Fits
  <2>2. v \div BYTE \in 0 .. BYTE - 1
    BY <1>1, <2>1, PlaceIs, DivBelow
  <2>3. b[2] = v \div BYTE
    BY <1>5, <1>9, <2>2, PlaceIs, Small
  <2>4. Value(b) = b[1] + b[2] * BYTE
    BY <1>4, <1>9, ValueIs
  <2>5. v = (v % BYTE) + (v \div BYTE) * BYTE
    BY <1>1, PlaceIs, Digits
  <2> QED BY <1>1, <1>3, <1>7, <2>3, <2>4, <2>5 DEF b
<1>10. CASE w = 4
  <2>1. PICK c \in Nat : c = BYTE * (BYTE * BYTE) /\ c > 0 /\ c = Place[4]
    BY PlaceIs
  <2>2. v < c * BYTE
    <3>1. BYTE * c = c * BYTE
      BY PlaceIs
    <3> QED BY <1>10, <2>1, <3>1, PlaceIs DEF Fits
  <2>3. v \div c \in 0 .. BYTE - 1
    BY <1>1, <2>1, <2>2, PlaceIs, DivBelow
  <2>4. b[4] = v \div c
    <3>1. b[4] = (v \div c) % BYTE
      BY <1>5, <1>10, <2>1
    <3> QED BY <2>3, <3>1, PlaceIs, Small
  <2>5. b[2] = (v \div BYTE) % BYTE /\ b[3] = (v \div (BYTE * BYTE)) % BYTE
    BY <1>5, <1>10, PlaceIs
  <2>6. Value(b) = b[1] + b[2] * BYTE + b[3] * (BYTE * BYTE) + b[4] * (BYTE * (BYTE * BYTE))
    BY <1>4, <1>10, ValueIs
  <2>7. v = (v % BYTE) + ((v \div BYTE) % BYTE) * BYTE
                + ((v \div (BYTE * BYTE)) % BYTE) * (BYTE * BYTE)
                + (v \div (BYTE * (BYTE * BYTE))) * (BYTE * (BYTE * BYTE))
    BY <1>1, PlaceIs, Digits
  <2>8. Value(b) = v
    BY <1>7, <2>1, <2>4, <2>5, <2>6, <2>7, Zenon
  <2> QED BY <1>1, <1>3, <2>8 DEF b
<1> QED BY <1>8, <1>9, <1>10

-----------------------------------------------------------------------------
(* The frame                                                               *)

\* Putting sequences behind each other is a recursion, which has a solution.
LEMMA FlattenExists ==
    ASSUME NEW N \in Nat, NEW s
    PROVE  \E g : g = [i \in 1 .. N |-> IF i = 1 THEN s[i] ELSE g[i - 1] \o s[i]]
<1> DEFINE Solves(g, n) ==
             g = [i \in 1 .. n |-> IF i = 1 THEN s[i] ELSE g[i - 1] \o s[i]]
           T == {n \in Nat : \E g : Solves(g, n)}
<1>1. 0 \in T
  <2> DEFINE g == [i \in 1 .. 0 |-> 0]
  <2>1. Solves(g, 0)
    OBVIOUS
  <2> HIDE DEF Solves
  <2> QED BY <2>1
<1>2. ASSUME NEW n \in 0 .. N - 1, n \in T PROVE n + 1 \in T
  <2>1. PICK g : Solves(g, n)
    BY <1>2
  <2> DEFINE h == [i \in 1 .. n + 1 |->
                      IF i = n + 1
                      THEN IF i = 1 THEN s[i] ELSE g[i - 1] \o s[i]
                      ELSE g[i]]
  <2>2. ASSUME NEW i \in 1 .. n + 1
        PROVE  h[i] = IF i = 1 THEN s[i] ELSE h[i - 1] \o s[i]
    <3>1. i # 1 => i - 1 \in 1 .. n + 1 /\ i - 1 # n + 1
      OBVIOUS
    <3>2. i # 1 => h[i - 1] = g[i - 1]
      BY <3>1
    <3>3. CASE i = n + 1
      <4>1. h[i] = IF i = 1 THEN s[i] ELSE g[i - 1] \o s[i]
        BY <3>3
      <4> HIDE DEF h
      <4> QED BY <3>2, <4>1
    <3>4. CASE i # n + 1
      <4>1. h[i] = g[i] /\ i \in 1 .. n
        BY <3>4
      <4>2. g[i] = IF i = 1 THEN s[i] ELSE g[i - 1] \o s[i]
        BY <2>1, <4>1
      <4> HIDE DEF h
      <4> QED BY <3>2, <4>1, <4>2
    <3> QED BY <3>3, <3>4
  <2>3. Solves(h, n + 1)
    BY <2>2
  <2> HIDE DEF Solves, h
  <2> QED BY <2>3
<1>3. N \in T
  <2> HIDE DEF T
  <2> QED BY <1>1, <1>2, UpTo
<1> QED BY <1>3

\* One sequence behind another
LEMMA Behind ==
    ASSUME NEW S, NEW a \in Seq(S), NEW c \in Seq(S)
    PROVE  /\ a \o c \in Seq(S) /\ Len(a \o c) = Len(a) + Len(c)
           /\ \A k \in 1 .. Len(a) : (a \o c)[k] = a[k]
           /\ \A k \in 1 .. Len(c) : (a \o c)[Len(a) + k] = c[k]
<1>1. Len(a) \in Nat /\ Len(c) \in Nat
  OBVIOUS
<1>2. a \o c \in Seq(S) /\ Len(a \o c) = Len(a) + Len(c)
  OBVIOUS
<1>3. \A k \in 1 .. Len(a) : (a \o c)[k] = a[k]
  OBVIOUS
<1>4. ASSUME NEW k \in 1 .. Len(c) PROVE (a \o c)[Len(a) + k] = c[k]
  <2>1. PICK i \in Nat : i = Len(a) + k /\ i > Len(a) /\ i <= Len(a) + Len(c) /\ i - Len(a) = k
    BY <1>1
  <2>2. (a \o c)[i] = c[i - Len(a)]
    BY <1>1, <2>1
  <2> QED BY <2>1, <2>2
<1> QED BY <1>2, <1>3, <1>4

\* b is w with x at its q-th place.
Replaced(b, w, q, x) == b = [w EXCEPT ![q] = x]

\* A sequence in which one place has changed
LEMMA OneReplaced ==
    ASSUME NEW S, NEW w \in Seq(S), NEW q \in 1 .. Len(w), NEW x \in S,
           NEW b, Replaced(b, w, q, x)
    PROVE  /\ b \in Seq(S) /\ Len(b) = Len(w) /\ w[q] \in S
           /\ b[q] = x /\ \A n \in 1 .. Len(w) : n # q => b[n] = w[n]
BY DEF Replaced

\* The i-th of N sequences ends at o[i].
EndsAt(o, s, N) ==
    /\ o \in [0 .. N -> Nat] /\ o[0] = 0
    /\ \A i \in 1 .. N : o[i] = o[i - 1] + Len(s[i])

\* Each of the sequences is found in t where the one before it ends.
Placed(t, o, s, N) ==
    \A i \in 1 .. N : \A k \in 1 .. Len(s[i]) : t[o[i - 1] + k] = s[i][k]

\* Sequences put one behind the other are found where the one before ends.
LEMMA FlattenIs ==
    ASSUME NEW S, NEW N \in Nat, N > 0, NEW s \in [1 .. N -> Seq(S)],
           NEW o, EndsAt(o, s, N)
    PROVE  /\ FlattenSeq(s) \in Seq(S) /\ Len(FlattenSeq(s)) = o[N]
           /\ Placed(FlattenSeq(s), o, s, N)
<1>0. \A m, l \in Nat :
          /\ \A k \in 1 .. l : m + k \in 1 .. m + l
          /\ \A k \in 1 .. m : k \in 1 .. m + l
  OBVIOUS
<1> o \in [0 .. N -> Nat] /\ o[0] = 0
  BY DEF EndsAt
<1> \A i \in 1 .. N : o[i] = o[i - 1] + Len(s[i])
  BY DEF EndsAt
<1> DEFINE Solves(g) == g = [i \in 1 .. N |-> IF i = 1 THEN s[i] ELSE g[i - 1] \o s[i]]
<1>1. Len(s) = N /\ N # 0
  OBVIOUS
<1>2. PICK f : f = (CHOOSE g : Solves(g)) /\ FlattenSeq(s) = f[N]
  BY <1>1, Zenon DEF FlattenSeq
<1>3. Solves(f)
  <2>1. \E g : Solves(g)
    BY FlattenExists, Zenon
  <2> HIDE DEF Solves
  <2> QED BY <1>2, <2>1, Zenon
<1>4. \A i \in 1 .. N : f[i] = IF i = 1 THEN s[i] ELSE f[i - 1] \o s[i]
  BY <1>3
<1> HIDE DEF Solves
<1> DEFINE Done(n) == /\ f[n] \in Seq(S) /\ Len(f[n]) = o[n]
                      /\ \A i \in 1 .. n : \A k \in 1 .. Len(s[i]) :
                             o[i - 1] + k \in 1 .. o[n] /\ f[n][o[i - 1] + k] = s[i][k]
           T == {n \in 0 .. N : n = 0 \/ Done(n)}
<1>5. 0 \in T
  OBVIOUS
<1>6. ASSUME NEW n \in 0 .. N - 1, n \in T PROVE n + 1 \in T
  <2>1. /\ n + 1 \in 1 .. N /\ n + 1 \in 0 .. N /\ n \in 0 .. N /\ n \in Nat
        /\ n + 1 - 1 = n
    OBVIOUS
  <2>2. PICK m \in Nat, p \in Nat, l \in Nat :
             m = o[n] /\ p = o[n + 1] /\ l = Len(s[n + 1]) /\ p = m + l
    <3>1. o[n] \in Nat /\ o[n + 1] \in Nat /\ s[n + 1] \in Seq(S)
      BY <2>1
    <3>2. o[n + 1] = o[n] + Len(s[n + 1]) /\ Len(s[n + 1]) \in Nat
      BY <2>1, <3>1
    <3> QED BY <3>1, <3>2
  <2>3. s[n + 1] \in Seq(S)
    BY <2>1
  <2>4. CASE n = 0
    <3>1. f[n + 1] = s[n + 1] /\ m = 0
      BY <1>4, <2>1, <2>2, <2>4
    <3>2. Done(n + 1)
      <4>1. f[n + 1] \in Seq(S) /\ Len(f[n + 1]) = o[n + 1]
        BY <2>2, <2>3, <3>1
      <4>2. ASSUME NEW i \in 1 .. n + 1, NEW k \in 1 .. Len(s[i])
            PROVE  o[i - 1] + k \in 1 .. o[n + 1] /\ f[n + 1][o[i - 1] + k] = s[i][k]
        <5>1. i = n + 1 /\ i - 1 = n
          BY <2>4
        <5>2. k \in 1 .. l /\ o[i - 1] = m
          BY <2>2, <5>1
        <5>3. m + k \in 1 .. p /\ m + k = k
          BY <2>2, <3>1, <5>2
        <5> QED BY <2>2, <3>1, <5>1, <5>2, <5>3, Zenon
      <4> QED BY <4>1, <4>2
    <3> QED BY <2>1, <3>2
  <2>5. CASE n # 0
    <3>1. Done(n)
      BY <1>6, <2>5
    <3>2. n + 1 # 1
      BY <2>5
    <3>3. f[n + 1] = f[n] \o s[n + 1]
      <4>1. PICK i \in 1 .. N : i = n + 1 /\ i # 1 /\ i - 1 = n
        BY <2>1, <3>2
      <4>2. f[i] = f[i - 1] \o s[i]
        BY <1>4, <4>1, Zenon
      <4> QED BY <4>1, <4>2, Zenon
    <3>4. f[n] \in Seq(S) /\ Len(f[n]) = m
      BY <2>2, <3>1
    <3>5. /\ f[n + 1] \in Seq(S) /\ Len(f[n + 1]) = p
          /\ \A k \in 1 .. m : f[n + 1][k] = f[n][k]
          /\ \A k \in 1 .. l : f[n + 1][m + k] = s[n + 1][k]
      <4>1. PICK a \in Seq(S), c \in Seq(S) : a = f[n] /\ c = s[n + 1]
        BY <2>3, <3>4, Zenon
      <4>2. /\ a \o c \in Seq(S) /\ Len(a \o c) = Len(a) + Len(c)
            /\ \A k \in 1 .. Len(a) : (a \o c)[k] = a[k]
            /\ \A k \in 1 .. Len(c) : (a \o c)[Len(a) + k] = c[k]
        BY Behind
      <4>3. f[n + 1] = a \o c /\ Len(a) = m /\ Len(c) = l
        BY <2>2, <3>3, <3>4, <4>1, Zenon
      <4> QED BY <2>2, <4>1, <4>2, <4>3, Zenon
    <3>6. ASSUME NEW i \in 1 .. n + 1, NEW k \in 1 .. Len(s[i])
          PROVE  o[i - 1] + k \in 1 .. o[n + 1] /\ f[n + 1][o[i - 1] + k] = s[i][k]
      <4>1. CASE i = n + 1
        <5>1. i - 1 = n /\ k \in 1 .. l
          <6>1. i - 1 = n
            BY <4>1
          <6>2. Len(s[i]) = l
            BY <2>2, <4>1, Zenon
          <6> QED BY <6>1, <6>2, Zenon
        <5>2. m + k \in 1 .. p
          BY <1>0, <2>2, <5>1, Zenon
        <5>3. f[n + 1][m + k] = s[n + 1][k]
          BY <3>5, <5>1, Zenon
        <5> QED BY <2>2, <4>1, <5>1, <5>2, <5>3, Zenon
      <4>2. CASE i # n + 1
        <5>1. i \in 1 .. n
          BY <4>2
        <5>2. o[i - 1] + k \in 1 .. m /\ f[n][o[i - 1] + k] = s[i][k]
          BY <2>2, <3>1, <5>1, Zenon
        <5>3. \A j \in 1 .. m : j \in 1 .. p
          BY <1>0, <2>2, Zenon
        <5>4. f[n + 1][o[i - 1] + k] = s[i][k]
          BY <3>5, <5>2, Zenon
        <5> QED BY <2>2, <5>2, <5>3, <5>4, Zenon
      <4> QED BY <4>1, <4>2
    <3>7. Done(n + 1)
      BY <2>2, <3>5, <3>6
    <3> QED BY <2>1, <3>7
  <2> QED BY <2>4, <2>5
<1>7. N \in T
  <2>1. N \in 0 .. N
    OBVIOUS
  <2> HIDE DEF T
  <2> QED BY <1>5, <1>6, <2>1, UpTo
<1>8. Done(N)
  BY <1>1, <1>7
<1> QED BY <1>2, <1>8 DEF Placed

\* The fields, their widths, and where they are
LEMMA FieldsAre ==
    /\ Len(Fields) = 11
    /\ \A i \in 1 .. 11 : Fields[i] \in FieldNames /\ Width(Fields[i]) \in {1, 2, 4}
    /\ \A f \in FieldNames : \E i \in 1 .. 11 : f = Fields[i]
    /\ \A i, j \in 1 .. 11 : Fields[i] = Fields[j] => i = j
    /\ Fields[5] = "payload_len" /\ Fields[6] = "checksum"
<1>1. Len(Fields) = 11
  BY DEF Fields
<1>2. ASSUME NEW i \in 1 .. 11
      PROVE  Width(Fields[i]) \in {1, 2, 4}
  BY DEF Width
<1>3. \A i \in 1 .. 11 : Fields[i] \in FieldNames
  BY <1>1 DEF FieldNames
<1>4. \A f \in FieldNames : \E i \in 1 .. 11 : f = Fields[i]
  BY <1>1 DEF FieldNames
<1>5. \A i, j \in 1 .. 11 : Fields[i] = Fields[j] => i = j
  <2>1. \A i \in 1 .. 11 : \/ i = 1 \/ i = 2 \/ i = 3 \/ i = 4 \/ i = 5 \/ i = 6
                           \/ i = 7 \/ i = 8 \/ i = 9 \/ i = 10 \/ i = 11
    OBVIOUS
  <2> QED BY <2>1 DEF Fields
<1>6. Fields[5] = "payload_len" /\ Fields[6] = "checksum"
  BY DEF Fields
<1> QED BY <1>1, <1>2, <1>3, <1>4, <1>5, <1>6

\* Every field has a low byte.
LEMMA LowByte == \A i \in 1 .. 11 : 1 \in 1 .. Width(Fields[i])
<1> TAKE i \in 1 .. 11
<1>1. Width(Fields[i]) \in {1, 2, 4}
  BY FieldsAre, Zenon
<1> QED BY <1>1

\* The next field begins where this one ends.
LEMMA OffsetNext ==
    ASSUME NEW i \in 1 .. 11
    PROVE  Offset(i) \in Int /\ Offset(i + 1) = Offset(i) + Width(Fields[i])
<1>1. PICK n \in Nat : n = i - 1 /\ n + 1 = i
  OBVIOUS
<1> DEFINE s == [j \in 1 .. n |-> Width(Fields[j])]
           t == [j \in 1 .. n + 1 |-> Width(Fields[j])]
<1>2. \A j \in 1 .. n + 1 : Width(Fields[j]) \in Int
  <2>1. \A j \in 1 .. n + 1 : j \in 1 .. 11
    BY <1>1
  <2>2. \A w \in {1, 2, 4} : w \in Int
    OBVIOUS
  <2> QED BY <2>1, <2>2, FieldsAre, Zenon
<1>3. s \in [1 .. n -> Int] /\ t \in [1 .. n + 1 -> Int]
  <2>1. \A j \in 1 .. n : j \in 1 .. n + 1
    OBVIOUS
  <2> QED BY <1>2, <2>1, Zenon
<1>4. (\A j \in 1 .. n : s[j] = t[j]) /\ t[n + 1] = Width(Fields[i])
  BY <1>1
<1>5. Offset(i) = Total(s)
  BY <1>1, Zenon DEF Offset
<1>6. Offset(i + 1) = Total(t)
  <2>1. (i + 1) - 1 = n + 1
    BY <1>1
  <2>2. Offset(i + 1) = Total([j \in 1 .. (i + 1) - 1 |-> Width(Fields[j])])
    BY Zenon DEF Offset
  <2> QED BY <2>1, <2>2, Zenon
<1> HIDE DEF s, t
<1>7. Total(t) = Total(s) + t[n + 1] /\ Total(s) \in Int
  BY <1>3, <1>4, TotalNext
<1> QED BY <1>4, <1>5, <1>6, <1>7

\* Where each field begins, and the 22 bytes of the header
LEMMA OffsetsAre ==
    /\ Offset(1) = 0 /\ Offset(2) = 4 /\ Offset(3) = 6 /\ Offset(4) = 8
    /\ Offset(5) = 9 /\ Offset(6) = 13 /\ Offset(7) = 14 /\ Offset(8) = 18
    /\ Offset(9) = 19 /\ Offset(10) = 20 /\ Offset(11) = 21 /\ Offset(12) = 22
    /\ HeaderBytes = 22
<1>1. Offset(1) = 0
  <2>1. PICK n \in Nat : n = 0 /\ 1 - 1 = n
    OBVIOUS
  <2> DEFINE s == [j \in 1 .. n |-> Width(Fields[j])]
  <2>2. s \in [1 .. n -> Int]
    BY <2>1
  <2>3. Offset(1) = Total(s)
    BY <2>1, Zenon DEF Offset
  <2> HIDE DEF s
  <2>4. PICK p \in [0 .. n -> Int] : p[0] = 0 /\ Total(s) = p[n]
    BY <2>2, TotalIs
  <2> QED BY <2>1, <2>3, <2>4
<1>2. /\ Width(Fields[1]) = 4 /\ Width(Fields[2]) = 2 /\ Width(Fields[3]) = 2
      /\ Width(Fields[4]) = 1 /\ Width(Fields[5]) = 4 /\ Width(Fields[6]) = 1
      /\ Width(Fields[7]) = 4 /\ Width(Fields[8]) = 1 /\ Width(Fields[9]) = 1
      /\ Width(Fields[10]) = 1 /\ Width(Fields[11]) = 1
  BY DEF Fields, Width
<1>3. \A i \in 1 .. 11 : Offset(i + 1) = Offset(i) + Width(Fields[i])
  BY OffsetNext
<1>4. Offset(2) = 4 /\ Offset(3) = 6 /\ Offset(4) = 8 /\ Offset(5) = 9
  BY <1>1, <1>2, <1>3
<1>5. Offset(6) = 13 /\ Offset(7) = 14 /\ Offset(8) = 18 /\ Offset(9) = 19
  BY <1>2, <1>3, <1>4
<1>6. Offset(10) = 20 /\ Offset(11) = 21 /\ Offset(12) = 22
  BY <1>2, <1>3, <1>5
<1>7. HeaderBytes = Offset(12)
  <2>1. Len(Fields) + 1 = 12
    BY FieldsAre
  <2> QED BY <2>1 DEF HeaderBytes
<1> QED BY <1>1, <1>4, <1>5, <1>6, <1>7

\* Every byte of the header belongs to one field.
LEMMA FieldRange ==
    ASSUME NEW i \in 1 .. 11, NEW k \in 1 .. Width(Fields[i])
    PROVE  /\ Offset(i) \in 0 .. 21 /\ Offset(i) + k \in 1 .. 22
           /\ Width(Fields[i]) \in {1, 2, 4} /\ k \in 1 .. 4
           /\ \A j \in 1 .. 11 : \A l \in 1 .. Width(Fields[j]) :
                 Offset(j) + l = Offset(i) + k => j = i /\ l = k
<1>1. \A j \in 1 .. 11 : Width(Fields[j]) = Offset(j + 1) - Offset(j)
  <2>1. \A j \in 1 .. 11 : Width(Fields[j]) \in Int
    BY FieldsAre
  <2> QED BY <2>1, OffsetNext
<1>2. \A j \in 1 .. 11 : \/ j = 1 \/ j = 2 \/ j = 3 \/ j = 4 \/ j = 5 \/ j = 6
                         \/ j = 7 \/ j = 8 \/ j = 9 \/ j = 10 \/ j = 11
  OBVIOUS
<1>3. \A j \in 1 .. 11 : Offset(j) \in 0 .. 21 /\ Offset(j + 1) \in 1 .. 22
  BY <1>2, OffsetsAre
<1>4. \A j \in 1 .. 11, m \in 1 .. 11 : j < m => Offset(j + 1) <= Offset(m)
  BY <1>2, OffsetsAre
<1>5. Width(Fields[i]) \in {1, 2, 4} /\ k \in 1 .. 4
  BY FieldsAre
<1>6. Offset(i) + k \in 1 .. 22
  BY <1>1, <1>3
<1>7. ASSUME NEW j \in 1 .. 11, NEW l \in 1 .. Width(Fields[j]),
             Offset(j) + l = Offset(i) + k
      PROVE  j = i /\ l = k
  <2>0. PICK a \in Nat, b \in Nat, c \in Nat, d \in Nat :
             a = Offset(i) /\ b = Offset(i + 1) /\ c = Offset(j) /\ d = Offset(j + 1)
    <3>1. \A m \in 0 .. 22 : m \in Nat
      OBVIOUS
    <3>2. \A m \in 1 .. 11 : Offset(m) \in Nat /\ Offset(m + 1) \in Nat
      BY <1>3
    <3> QED BY <3>2, Zenon
  <2>1. ~(j < i)
    <3>1. l <= d - c /\ l \in Int /\ c + l = a + k /\ k \in Int /\ k >= 1
      BY <1>1, <1>5, <1>7, <2>0
    <3>2. j < i => d <= a
      BY <1>4, <2>0, Zenon
    <3> QED BY <3>1, <3>2
  <2>2. ~(i < j)
    <3>1. k <= b - a /\ k \in Int /\ c + l = a + k /\ l \in Int /\ l >= 1
      BY <1>1, <1>5, <1>7, <2>0
    <3>2. i < j => b <= c
      BY <1>4, <2>0, Zenon
    <3> QED BY <3>1, <3>2
  <2>3. j = i
    BY <2>1, <2>2
  <2> QED BY <1>3, <1>7, <2>3
<1> QED BY <1>3, <1>5, <1>6, <1>7

\* A packet as sender and receiver build it
WellFormed(p) ==
    /\ p = [header |-> p.header, payload |-> p.payload]
    /\ p.header \in [FieldNames -> Nat]
    /\ \A f \in FieldNames : p.header[f] \in Fits(Width(f))
    /\ p.payload \in Seq(Octet)
    /\ p.header["payload_len"] = Len(p.payload)
    /\ p.header["checksum"] = packet_calc_checksum(p)

\* w is what is put on the air for p.
Sent(w, p) == \E rest \in Octet : w = packet_serialize(p) \o <<rest>>

\* The bytes of header h are at the beginning of b.
BeginsWith(b, h) ==
    /\ b \in Seq(Octet) /\ Len(b) >= 22
    /\ \A i \in 1 .. 11 : \A k \in 1 .. Width(Fields[i]) :
          b[Offset(i) + k] = Bytes(h[Fields[i]], Width(Fields[i]))[k]

\* What is written, and the byte behind it
LEMMA Layout ==
    ASSUME NEW p, WellFormed(p), NEW w, Sent(w, p)
    PROVE  /\ BeginsWith(w, p.header) /\ Len(w) = 23 + Len(p.payload)
           /\ \A k \in 1 .. Len(p.payload) : w[22 + k] = p.payload[k]
<1> DEFINE s == [i \in 1 .. 11 |-> Bytes(p.header[Fields[i]], Width(Fields[i]))]
           o == [i \in 0 .. 11 |-> Offset(i + 1)]
<1> PICK rest \in Octet : w = packet_serialize(p) \o <<rest>>
  BY DEF Sent
<1>1. ASSUME NEW i \in 1 .. 11
      PROVE  /\ s[i] \in Seq(Octet) /\ Len(s[i]) = Width(Fields[i])
             /\ s[i] = Bytes(p.header[Fields[i]], Width(Fields[i]))
  <2>1. PICK v \in Nat : v = p.header[Fields[i]]
    <3>1. Fields[i] \in FieldNames
      BY FieldsAre
    <3> QED BY <3>1 DEF WellFormed
  <2>2. PICK n \in 1 .. 4 : n = Width(Fields[i])
    <3>1. Width(Fields[i]) \in {1, 2, 4}
      BY FieldsAre
    <3> QED BY <3>1
  <2>3. Bytes(v, n) \in [1 .. n -> Octet]
    BY BytesAre
  <2>4. Bytes(v, n) \in Seq(Octet) /\ Len(Bytes(v, n)) = n
    <3> QED BY <2>3
  <2> QED BY <2>1, <2>2, <2>4
<1>2. s \in [1 .. 11 -> Seq(Octet)]
  <2>1. s = [i \in 1 .. 11 |-> s[i]]
    OBVIOUS
  <2> HIDE DEF s
  <2> QED BY <1>1, <2>1
<1>3. o \in [0 .. 11 -> Nat] /\ o[0] = 0 /\ o[11] = 22
  <2>1. ASSUME NEW i \in 0 .. 11 PROVE Offset(i + 1) \in Nat
    <3>1. CASE i = 11
      <4>1. i + 1 = 12 /\ 22 \in Nat
        BY <3>1
      <4> QED BY <4>1, OffsetsAre, Zenon
    <3>2. CASE i # 11
      <4>1. PICK j \in 1 .. 11 : j = i + 1
        BY <3>2
      <4>2. 1 \in 1 .. Width(Fields[j])
        BY LowByte, Zenon
      <4>3. Offset(j) \in 0 .. 21
        BY <4>2, FieldRange
      <4>4. \A m \in 0 .. 21 : m \in Nat
        OBVIOUS
      <4> QED BY <4>1, <4>3, <4>4, Zenon
    <3> QED BY <3>1, <3>2
  <2> QED BY <2>1, OffsetsAre
<1>4. ASSUME NEW i \in 1 .. 11
      PROVE  o[i - 1] = Offset(i) /\ o[i] = o[i - 1] + Width(Fields[i])
  <2>1. i - 1 \in 0 .. 11 /\ i - 1 + 1 = i /\ i \in 0 .. 11
    OBVIOUS
  <2>2. o[i - 1] = Offset(i) /\ o[i] = Offset(i + 1)
    BY <2>1
  <2> HIDE DEF o
  <2> QED BY <2>2, OffsetNext
<1>5. \A i \in 1 .. 11 : o[i] = o[i - 1] + Len(s[i])
  BY <1>1, <1>4, Zenon
<1>6. p.payload \in Seq(Octet) /\ <<rest>> \in Seq(Octet) /\ Len(<<rest>>) = 1
  BY DEF WellFormed
<1>7. packet_serialize(p) = FlattenSeq(s) \o p.payload
  BY FieldsAre, Zenon DEF packet_serialize
<1> HIDE DEF s, o
<1>8. PICK N \in Nat : N = 11
  OBVIOUS
<1>9. /\ FlattenSeq(s) \in Seq(Octet) /\ Len(FlattenSeq(s)) = 22
      /\ \A i \in 1 .. 11 : \A k \in 1 .. Len(s[i]) :
            FlattenSeq(s)[o[i - 1] + k] = s[i][k]
  <2>1. /\ s \in [1 .. N -> Seq(Octet)] /\ o \in [0 .. N -> Nat] /\ o[N] = 22
        /\ \A i \in 1 .. N : o[i] = o[i - 1] + Len(s[i])
    BY <1>2, <1>3, <1>5, <1>8, Zenon
  <2>2. EndsAt(o, s, N)
    BY <1>3, <2>1, Zenon DEF EndsAt
  <2>3. PICK z \in [1 .. N -> Seq(Octet)] : z = s /\ EndsAt(o, z, N)
    BY <2>1, <2>2, Zenon
  <2>4. /\ FlattenSeq(z) \in Seq(Octet) /\ Len(FlattenSeq(z)) = o[N]
        /\ Placed(FlattenSeq(z), o, z, N)
    <3>1. N > 0
      BY <1>8
    <3> QED BY <2>3, <3>1, FlattenIs
  <2> QED BY <1>8, <2>1, <2>3, <2>4, Zenon DEF Placed
<1>10. PICK a \in Seq(Octet), c \in Seq(Octet), e \in Seq(Octet), u \in Seq(Octet) :
           /\ a = FlattenSeq(s) /\ c = p.payload /\ e = <<rest>> /\ u = a \o c
           /\ w = u \o e /\ Len(a) = 22 /\ Len(e) = 1
  <2>1. FlattenSeq(s) \o p.payload \in Seq(Octet)
    BY <1>6, <1>9, ConcatProperties, Zenon
  <2> QED BY <1>6, <1>7, <1>9, <2>1, Zenon
<1>11. /\ Len(u) = 22 + Len(c)
       /\ \A k \in 1 .. 22 : u[k] = a[k]
       /\ \A k \in 1 .. Len(c) : u[22 + k] = c[k]
  <2>1. /\ Len(a \o c) = Len(a) + Len(c)
        /\ \A k \in 1 .. Len(a) : (a \o c)[k] = a[k]
        /\ \A k \in 1 .. Len(c) : (a \o c)[Len(a) + k] = c[k]
    BY Behind
  <2> QED BY <1>10, <2>1, Zenon
<1>12. /\ w \in Seq(Octet) /\ Len(w) = Len(u) + 1
       /\ \A k \in 1 .. Len(u) : w[k] = u[k]
  <2>1. /\ u \o e \in Seq(Octet) /\ Len(u \o e) = Len(u) + Len(e)
        /\ \A k \in 1 .. Len(u) : (u \o e)[k] = u[k]
    BY Behind
  <2> QED BY <1>10, <2>1, Zenon
<1>13. PICK n \in Nat, m \in Nat : n = Len(c) /\ m = Len(u) /\ m = 22 + n
  <2>1. Len(c) \in Nat /\ Len(u) \in Nat
    OBVIOUS
  <2> QED BY <1>11, <2>1
<1>14. Len(w) = 23 + Len(c) /\ Len(w) >= 22
  BY <1>12, <1>13
<1>15. \A k \in 1 .. 22 : w[k] = a[k]
  <2>1. \A k \in 1 .. 22 : k \in 1 .. m
    BY <1>13
  <2> QED BY <1>11, <1>12, <1>13, <2>1, Zenon
<1>16. \A k \in 1 .. Len(c) : w[22 + k] = c[k]
  <2>1. \A k \in 1 .. n : 22 + k \in 1 .. m
    BY <1>13
  <2> QED BY <1>11, <1>12, <1>13, <2>1, Zenon
<1>17. ASSUME NEW i \in 1 .. 11, NEW k \in 1 .. Width(Fields[i])
       PROVE  w[Offset(i) + k] = Bytes(p.header[Fields[i]], Width(Fields[i]))[k]
  <2>1. Offset(i) + k \in 1 .. 22
    BY FieldRange
  <2>2. k \in 1 .. Len(s[i]) /\ o[i - 1] = Offset(i)
    BY <1>1, <1>4, Zenon
  <2>3. FlattenSeq(s)[o[i - 1] + k] = s[i][k]
    BY <1>9, <2>2, Zenon
  <2>4. a[Offset(i) + k] = s[i][k]
    BY <1>10, <2>2, <2>3, Zenon
  <2> QED BY <1>1, <1>15, <2>1, <2>4, Zenon
<1> QED BY <1>10, <1>12, <1>14, <1>16, <1>17, Zenon DEF BeginsWith

\* A field is read from its own bytes.
LEMMA FieldIs ==
    ASSUME NEW b \in Seq(Octet), Len(b) >= 22, NEW i \in 1 .. 11,
           NEW c \in [1 .. Width(Fields[i]) -> Nat],
           \A k \in 1 .. Width(Fields[i]) : b[Offset(i) + k] = c[k]
    PROVE  Header(b)[Fields[i]] = Value(c)
<1>1. PICK w \in 1 .. 4 : w = Width(Fields[i])
  <2>1. Width(Fields[i]) \in {1, 2, 4}
    BY FieldsAre
  <2> QED BY <2>1
<1>2. PICK o \in Nat : o = Offset(i)
  <2>1. Offset(i) \in 0 .. 21
    <3>1. 1 \in 1 .. Width(Fields[i])
      BY <1>1
    <3> QED BY <3>1, FieldRange
  <2> QED BY <2>1
<1>3. ASSUME NEW k \in 1 .. w PROVE b[o + k] = c[k] /\ b[o + k] \in Nat
  <2>1. b[o + k] = c[k]
    BY <1>1, <1>2, Zenon
  <2>2. c[k] \in Nat
    BY <1>1
  <2> QED BY <2>1, <2>2
<1>4. SubSeq(b, o + 1, o + w) = c
  <2> DEFINE s == SubSeq(b, o + 1, o + w)
  <2>1. \A j \in o + 1 .. o + w : b[j] \in Nat
    <3> TAKE j \in o + 1 .. o + w
    <3>1. PICK k \in 1 .. w : j = o + k
      <4>1. j - o \in 1 .. w /\ j = o + (j - o)
        OBVIOUS
      <4> QED BY <4>1
    <3> QED BY <1>3, <3>1
  <2>2. /\ s \in Seq(Nat)
        /\ Len(s) = IF o + 1 <= o + w THEN (o + w) - (o + 1) + 1 ELSE 0
        /\ \A k \in 1 .. (o + w) - (o + 1) + 1 : s[k] = b[(o + 1) + k - 1]
    <3>1. o + 1 \in Int /\ o + w \in Int
      OBVIOUS
    <3> QED BY <2>1, <3>1, SubSeqProperties
  <2>3. Len(s) = w /\ (o + w) - (o + 1) + 1 = w /\ o + 1 <= o + w
    BY <2>2
  <2>4. ASSUME NEW k \in 1 .. w PROVE s[k] = c[k]
    <3>1. (o + 1) + k - 1 = o + k
      OBVIOUS
    <3>2. s[k] = b[(o + 1) + k - 1]
      BY <2>2, <2>3
    <3> QED BY <1>3, <3>1, <3>2
  <2> HIDE DEF s
  <2>5. s = [k \in 1 .. w |-> s[k]]
    BY <2>2, <2>3
  <2>6. c = [k \in 1 .. w |-> c[k]]
    BY <1>1
  <2>7. s = c
    BY <2>4, <2>5, <2>6
  <2> QED BY <2>7 DEF s
<1>5. Field(b, i) = Value(c)
  BY <1>1, <1>2, <1>4, Zenon DEF Field
<1>6. Fields[i] \in FieldNames
  BY FieldsAre
<1>7. (CHOOSE j \in 1 .. Len(Fields) : Fields[j] = Fields[i]) = i
  <2>1. \A j \in 1 .. Len(Fields) : Fields[j] = Fields[i] => j = i
    BY FieldsAre
  <2>2. i \in 1 .. Len(Fields)
    BY FieldsAre
  <2> QED BY <2>1, <2>2, Zenon
<1> QED BY <1>5, <1>6, <1>7, Zenon DEF Header

\* Changing one byte of a field changes what is read from it by what it counts.
LEMMA ValueChange ==
    ASSUME NEW w \in {1, 2, 4}, NEW c \in [1 .. w -> Nat], NEW d \in [1 .. w -> Nat],
           NEW k \in 1 .. w, \A n \in 1 .. w : n # k => c[n] = d[n]
    PROVE  /\ Value(d) \in Nat /\ Value(c) \in Nat
           /\ Value(d) - Value(c) = d[k] * Place[k] - c[k] * Place[k]
<1> DEFINE s == [n \in 1 .. w |-> c[n] * Place[n]]
           t == [n \in 1 .. w |-> d[n] * Place[n]]
<1>1. Len(c) = w /\ Len(d) = w /\ w \in Nat
  OBVIOUS
<1>2. Value(c) = Total(s) /\ Value(d) = Total(t)
  BY <1>1 DEF Value
<1>3. ASSUME NEW n \in 1 .. w PROVE c[n] * Place[n] \in Int /\ d[n] * Place[n] \in Int
  <2>1. n \in 1 .. 4
    OBVIOUS
  <2>2. c[n] \in Nat /\ d[n] \in Nat /\ Place[n] \in Nat
    BY <2>1, PlaceIs
  <2> QED BY <2>2
<1>4. s \in [1 .. w -> Int] /\ t \in [1 .. w -> Int]
  BY <1>3
<1>5. \A n \in 1 .. w : n # k => s[n] = t[n]
  OBVIOUS
<1>6. s[k] = c[k] * Place[k] /\ t[k] = d[k] * Place[k]
  OBVIOUS
<1> HIDE DEF s, t
<1>7. Total(t) - Total(s) = t[k] - s[k]
  BY <1>1, <1>4, <1>5, TotalChange
<1> QED BY <1>2, <1>6, <1>7, ValueIs

\* The values of the fields fit into their bytes.
HeaderFits(h) ==
    h \in [FieldNames -> Nat] /\ \A f \in FieldNames : h[f] \in Fits(Width(f))

\* The header is read as it was written.
LEMMA HeaderReads ==
    ASSUME NEW h, HeaderFits(h), NEW b, BeginsWith(b, h)
    PROVE  Header(b) = h
<1>1. ASSUME NEW i \in 1 .. 11 PROVE Header(b)[Fields[i]] = h[Fields[i]]
  <2>1. PICK w \in {1, 2, 4} : w = Width(Fields[i])
    BY FieldsAre
  <2>2. PICK v \in Fits(w) : v = h[Fields[i]]
    <3>1. Fields[i] \in FieldNames
      BY FieldsAre
    <3> QED BY <2>1, <3>1, Zenon DEF HeaderFits
  <2>3. Bytes(v, w) \in [1 .. w -> Octet] /\ Value(Bytes(v, w)) = v
    BY ReadsBack
  <2>4. PICK c \in [1 .. w -> Nat] : c = Bytes(v, w)
    BY <2>3, OctetIs
  <2>5. b \in Seq(Octet) /\ Len(b) >= 22
    BY DEF BeginsWith
  <2>6. \A k \in 1 .. Width(Fields[i]) : b[Offset(i) + k] = c[k]
    BY <2>1, <2>2, <2>4, Zenon DEF BeginsWith
  <2>7. c \in [1 .. Width(Fields[i]) -> Nat]
    BY <2>1, Zenon
  <2>8. Header(b)[Fields[i]] = Value(c)
    BY <2>5, <2>6, <2>7, FieldIs
  <2> QED BY <2>2, <2>3, <2>4, <2>8, Zenon
<1>2. \A f \in FieldNames : Header(b)[f] = h[f]
  <2> TAKE f \in FieldNames
  <2>1. PICK i \in 1 .. 11 : f = Fields[i]
    BY FieldsAre, Zenon
  <2> QED BY <1>1, <2>1, Zenon
<1>3. Header(b) = [f \in FieldNames |-> Header(b)[f]]
  BY DEF Header
<1>4. h = [f \in FieldNames |-> h[f]]
  BY DEF HeaderFits
<1> QED BY <1>2, <1>3, <1>4

\* Two bytes that differ count differently wherever they are.
LEMMA PlaceApart ==
    ASSUME NEW x \in Nat, NEW y \in Nat, NEW k \in 1 .. 4, x # y
    PROVE  /\ x * Place[k] \in Nat /\ y * Place[k] \in Nat
           /\ x * Place[k] # y * Place[k]
<1>1. PICK p \in Nat : p = Place[k] /\ p > 0
  BY PlaceIs
<1>2. PICK u \in Nat, v \in Nat : u = p * x /\ v = p * y
  BY p * x \in Nat, p * y \in Nat
<1>3. x < y => u + p <= v
  BY <1>2, Apart
<1>4. y < x => v + p <= u
  BY <1>2, Apart
<1>5. u # v
  BY <1>1, <1>3, <1>4
<1>6. x * p = p * x /\ y * p = p * y
  OBVIOUS
<1> QED BY <1>1, <1>2, <1>5, <1>6

\* The k-th byte of the i-th field is the q-th of the frame.
At(q, i, k) == q = Offset(i) + k

\* The headers g and h differ in field f only; a wrong low byte (k = 1) that is
\* off by d puts the field off by d.
OneFieldOff(g, h, f, k, d) ==
    /\ g \in [FieldNames -> Nat]
    /\ \A e \in FieldNames : e # f => g[e] = h[e]
    /\ g[f] # h[f]
    /\ k = 1 => g[f] - h[f] = d

\* One wrong byte in the header changes one field.
LEMMA OneWrongByte ==
    ASSUME NEW h, HeaderFits(h), NEW w, BeginsWith(w, h),
           NEW i \in 1 .. 11, NEW k \in 1 .. Width(Fields[i]), NEW x \in Octet,
           NEW q \in 1 .. 22, At(q, i, k), x # w[q], NEW b, Replaced(b, w, q, x)
    PROVE  OneFieldOff(Header(b), h, Fields[i], k, x - w[q])
<1>1. PICK o \in Nat : o = Offset(i) /\ o + k \in 1 .. 22 /\ q = o + k
  <2>1. Offset(i) \in 0 .. 21 /\ Offset(i) + k \in 1 .. 22
    BY FieldRange
  <2>2. \A n \in 0 .. 21 : n \in Nat
    OBVIOUS
  <2> QED BY <2>1, <2>2, Zenon DEF At
<1>2. w \in Seq(Octet) /\ Len(w) >= 22
  BY DEF BeginsWith
<1>3. /\ b \in Seq(Octet) /\ Len(b) = Len(w) /\ b[q] = x
      /\ \A n \in 1 .. Len(w) : n # q => b[n] = w[n]
  <2>1. q \in 1 .. Len(w)
    <3>1. Len(w) \in Nat /\ Len(w) >= 22
      BY <1>2
    <3> QED BY <3>1
  <2> QED BY <1>2, <2>1, OneReplaced
<1>4. Len(b) >= 22 /\ \A n \in 1 .. 22 : n # o + k => b[n] = w[n]
  <2>1. \A n \in 1 .. 22 : n \in 1 .. Len(w)
    BY <1>2
  <2> QED BY <1>1, <1>2, <1>3, <2>1, Zenon
<1>5. ASSUME NEW j \in 1 .. 11, j # i
      PROVE  Header(b)[Fields[j]] = h[Fields[j]] /\ Header(b)[Fields[j]] \in Nat
  <2>1. PICK v \in {1, 2, 4} : v = Width(Fields[j])
    BY FieldsAre
  <2>2. PICK z \in Fits(v) : z = h[Fields[j]]
    <3>1. Fields[j] \in FieldNames
      BY FieldsAre
    <3> QED BY <2>1, <3>1, Zenon DEF HeaderFits
  <2>3. /\ Bytes(z, v) \in [1 .. v -> Octet] /\ Value(Bytes(z, v)) = z
        /\ z \in Nat
    BY ReadsBack
  <2>4. PICK c \in [1 .. v -> Nat] : c = Bytes(z, v)
    BY <2>3, OctetIs
  <2>5. ASSUME NEW l \in 1 .. Width(Fields[j]) PROVE b[Offset(j) + l] = c[l]
    <3>1. Offset(j) + l \in 1 .. 22 /\ Offset(j) + l # o + k
      <4>1. Offset(j) + l \in 1 .. 22
        BY FieldRange
      <4>2. \A n \in 1 .. 11 : \A m \in 1 .. Width(Fields[n]) :
               Offset(n) + m = Offset(i) + k => n = i /\ m = k
        BY FieldRange
      <4> QED BY <1>1, <1>5, <4>1, <4>2, Zenon
    <3>2. w[Offset(j) + l] = c[l]
      BY <2>1, <2>2, <2>4, Zenon DEF BeginsWith
    <3> QED BY <1>4, <3>1, <3>2, Zenon
  <2>6. c \in [1 .. Width(Fields[j]) -> Nat]
    BY <2>1, Zenon
  <2>7. Header(b)[Fields[j]] = Value(c)
    BY <1>3, <1>4, <2>5, <2>6, FieldIs
  <2> QED BY <2>2, <2>3, <2>4, <2>7, Zenon
<1>6. /\ Header(b)[Fields[i]] \in Nat /\ Header(b)[Fields[i]] # h[Fields[i]]
      /\ k = 1 => Header(b)[Fields[i]] - h[Fields[i]] = x - w[q]
  <2>1. PICK v \in {1, 2, 4} : v = Width(Fields[i]) /\ k \in 1 .. v
    BY FieldsAre
  <2>2. PICK z \in Fits(v) : z = h[Fields[i]]
    <3>1. Fields[i] \in FieldNames
      BY FieldsAre
    <3> QED BY <2>1, <3>1, Zenon DEF HeaderFits
  <2>3. /\ Bytes(z, v) \in [1 .. v -> Octet] /\ Value(Bytes(z, v)) = z
        /\ z \in Nat
    BY ReadsBack
  <2>4. PICK c \in [1 .. v -> Nat] : c = Bytes(z, v)
    BY <2>3, OctetIs
  <2>5. \A l \in 1 .. v : w[o + l] = c[l]
    BY <1>1, <2>1, <2>2, <2>4, Zenon DEF BeginsWith
  <2> DEFINE d == [c EXCEPT ![k] = x]
  <2>6. d \in [1 .. v -> Nat] /\ d[k] = x /\ \A n \in 1 .. v : n # k => c[n] = d[n]
    <3>1. x \in Nat
      BY OctetIs
    <3> QED BY <2>1, <3>1
  <2> HIDE DEF d
  <2>7. ASSUME NEW l \in 1 .. Width(Fields[i]) PROVE b[Offset(i) + l] = d[l]
    <3>1. l \in 1 .. v /\ o + l \in 1 .. 22 /\ (l # k => o + l # o + k)
      <4>1. o + l \in 1 .. 22
        BY <1>1, FieldRange
      <4> QED BY <2>1, <4>1
    <3>2. CASE l = k
      BY <1>1, <1>3, <2>6, <3>2, Zenon
    <3>3. CASE l # k
      BY <1>1, <1>4, <2>5, <2>6, <3>1, <3>3, Zenon
    <3> QED BY <3>2, <3>3
  <2>8. d \in [1 .. Width(Fields[i]) -> Nat]
    BY <2>1, <2>6, Zenon
  <2>9. Header(b)[Fields[i]] = Value(d)
    BY <1>3, <1>4, <2>7, <2>8, FieldIs
  <2>10. /\ Value(d) \in Nat /\ Value(c) \in Nat
         /\ Value(d) - Value(c) = d[k] * Place[k] - c[k] * Place[k]
    BY <2>1, <2>6, ValueChange
  <2>11. PICK y \in Nat : y = c[k] /\ y # x /\ y = w[q]
    <3>1. c[k] \in Nat
      BY <2>1
    <3>2. c[k] = w[q]
      BY <1>1, <2>1, <2>5
    <3> QED BY <3>1, <3>2, Zenon
  <2>12. PICK s \in Nat, t \in Nat :
             s = x * Place[k] /\ t = y * Place[k] /\ s # t
    <3>1. PICK a \in Nat, l \in 1 .. 4 : a = x /\ l = k
      BY <2>1, OctetIs
    <3>2. a # y
      BY <2>11, <3>1, Zenon
    <3>3. a * Place[l] \in Nat /\ y * Place[l] \in Nat /\ a * Place[l] # y * Place[l]
      BY <3>2, PlaceApart
    <3> QED BY <3>1, <3>3, Zenon
  <2>13. PICK m \in Nat, n \in Nat : m = Value(d) /\ n = Value(c) /\ m - n = s - t
    BY <2>6, <2>10, <2>11, <2>12, Zenon
  <2>14. m # n
    <3>1. s # t /\ m - n = s - t
      BY <2>12, <2>13, Zenon
    <3> QED BY <3>1
  <2>15. k = 1 => s = x /\ t = y
    <3>1. k = 1 => Place[k] = 1
      BY PlaceIs
    <3>2. x \in Nat
      BY OctetIs
    <3> QED BY <2>12, <3>1, <3>2
  <2>16. h[Fields[i]] = n /\ Header(b)[Fields[i]] = m
    BY <2>2, <2>3, <2>4, <2>9, <2>13, Zenon
  <2> QED BY <2>11, <2>13, <2>14, <2>15, <2>16
<1>7. \A f \in FieldNames : Header(b)[f] \in Nat
  <2> TAKE f \in FieldNames
  <2>1. PICK j \in 1 .. 11 : f = Fields[j]
    BY FieldsAre, Zenon
  <2> QED BY <1>5, <1>6, <2>1, Zenon
<1>8. ASSUME NEW f \in FieldNames, f # Fields[i] PROVE Header(b)[f] = h[f]
  <2>1. PICK j \in 1 .. 11 : f = Fields[j]
    BY FieldsAre, Zenon
  <2> QED BY <1>5, <1>8, <2>1, Zenon
<1>9. Header(b) = [f \in FieldNames |-> Header(b)[f]]
  BY DEF Header
<1>10. Header(b) \in [FieldNames -> Nat]
  BY <1>7, <1>9, Zenon
<1> QED BY <1>6, <1>8, <1>10, Zenon DEF OneFieldOff

-----------------------------------------------------------------------------
(* The checksum                                                            *)

\* The checksum of a header's own field does not count.
LEMMA FieldSumIs ==
    ASSUME NEW h \in [FieldNames -> Nat], NEW g \in [FieldNames -> Nat]
    PROVE  /\ FieldSum(h) \in Nat
           /\ (\A f \in FieldNames : f # "checksum" => g[f] = h[f])
                  => FieldSum(g) = FieldSum(h)
           /\ \A e \in FieldNames :
                 e # "checksum" /\ (\A f \in FieldNames : f # e => g[f] = h[f])
                     => FieldSum(g) - FieldSum(h) = g[e] - h[e]
<1> DEFINE Of(x) == [i \in 1 .. Len(Fields) |->
                        IF Fields[i] = "checksum" THEN 0 ELSE x[Fields[i]]]
<1>1. PICK N \in Nat : N = Len(Fields)
  BY FieldsAre
<1>2. \A i \in 1 .. N : Fields[i] \in FieldNames
  BY <1>1, FieldsAre
<1>3. ASSUME NEW x \in [FieldNames -> Nat]
      PROVE  FieldSum(x) = Total(Of(x)) /\ Of(x) \in [1 .. N -> Nat]
  <2>1. FieldSum(x) = Total(Of(x))
    BY Zenon DEF FieldSum
  <2>2. \A i \in 1 .. N : (IF Fields[i] = "checksum" THEN 0 ELSE x[Fields[i]]) \in Nat
    BY <1>2
  <2>3. Of(x) \in [1 .. N -> Nat]
    BY <1>1, <2>2, Zenon
  <2> QED BY <2>1, <2>3
<1>4. PICK s \in [1 .. N -> Nat], t \in [1 .. N -> Nat] :
           /\ s = Of(h) /\ t = Of(g)
           /\ FieldSum(h) = Total(s) /\ FieldSum(g) = Total(t)
  BY <1>3, Zenon
<1>5. \A i \in 1 .. N :
          /\ Fields[i] = "checksum" => s[i] = 0 /\ t[i] = 0
          /\ Fields[i] # "checksum" => s[i] = h[Fields[i]] /\ t[i] = g[Fields[i]]
  BY <1>1, <1>4, Zenon
<1>6. Total(s) \in Nat
  BY TotalNat
<1>7. ASSUME \A f \in FieldNames : f # "checksum" => g[f] = h[f]
      PROVE  FieldSum(g) = FieldSum(h)
  <2>1. \A i \in 1 .. N : s[i] = t[i]
    BY <1>2, <1>5, <1>7, Zenon
  <2>2. s = t
    BY <2>1
  <2> QED BY <1>4, <2>2, Zenon
<1>8. ASSUME NEW e \in FieldNames, e # "checksum",
             \A f \in FieldNames : f # e => g[f] = h[f]
      PROVE  FieldSum(g) - FieldSum(h) = g[e] - h[e]
  <2>1. PICK k \in 1 .. N : Fields[k] = e
    BY <1>1, FieldsAre, Zenon
  <2>2. \A n \in 1 .. N : n # k => s[n] = t[n]
    <3>1. \A n, j \in 1 .. N : Fields[n] = Fields[j] => n = j
      <4>1. N = 11 /\ \A n, j \in 1 .. 11 : Fields[n] = Fields[j] => n = j
        BY <1>1, FieldsAre, Zenon
      <4> QED BY <4>1, Zenon
    <3>2. \A n \in 1 .. N : n # k => Fields[n] # e
      BY <2>1, <3>1, Zenon
    <3> QED BY <1>2, <1>5, <1>8, <3>2, Zenon
  <2>3. s \in [1 .. N -> Int] /\ t \in [1 .. N -> Int]
    OBVIOUS
  <2>4. Total(t) - Total(s) = t[k] - s[k]
    BY <2>2, <2>3, TotalChange
  <2>5. s[k] = h[e] /\ t[k] = g[e]
    BY <1>5, <1>8, <2>1, Zenon
  <2> QED BY <1>4, <2>4, <2>5, Zenon
<1> QED BY <1>4, <1>6, <1>7, <1>8, Zenon

\* A payload with one byte changed has a sum that is off by the difference.
LEMMA PayloadSum ==
    ASSUME NEW s \in Seq(Octet), NEW t \in Seq(Octet), Len(s) = Len(t)
    PROVE  /\ Total(s) \in Nat
           /\ \A k \in 1 .. Len(s) :
                 (\A n \in 1 .. Len(s) : n # k => s[n] = t[n])
                     => Total(t) - Total(s) = t[k] - s[k]
<1>1. PICK N \in Nat : N = Len(s)
  OBVIOUS
<1>2. /\ s \in [1 .. N -> Octet] /\ t \in [1 .. N -> Octet]
      /\ \A n \in Octet : n \in Nat /\ n \in Int
  <2>1. \A n \in Octet : n \in Nat /\ n \in Int
    BY OctetIs
  <2>2. s \in Seq(Octet) /\ t \in Seq(Octet)
    OBVIOUS
  <2> QED BY <1>1, <2>1, <2>2
<1>3. s \in [1 .. N -> Nat] /\ s \in [1 .. N -> Int] /\ t \in [1 .. N -> Int]
  BY <1>2
<1>4. Total(s) \in Nat
  BY <1>3, TotalNat
<1>5. ASSUME NEW k \in 1 .. N, \A n \in 1 .. N : n # k => s[n] = t[n]
      PROVE  Total(t) - Total(s) = t[k] - s[k]
  BY <1>3, <1>5, TotalChange
<1> QED BY <1>1, <1>4, <1>5, Zenon

\* Two sums that are one byte apart leave different checksums.
LEMMA SumsDiffer ==
    ASSUME NEW m \in Nat, NEW n \in Nat, NEW x \in Nat, NEW y \in Nat,
           x < BYTE, y < BYTE, x # y, n - m = x - y
    PROVE  (n % BYTE) # (m % BYTE)
<1>1. BYTE \in Nat
  BY PlaceIs
<1>2. CASE x < y
  <2>1. n < m /\ m < n + BYTE
    BY <1>1, <1>2
  <2> QED BY <1>1, <2>1, ModApart
<1>3. CASE y < x
  <2>1. m < n /\ n < m + BYTE
    BY <1>1, <1>3
  <2> QED BY <1>1, <2>1, ModApart
<1> QED BY <1>1, <1>2, <1>3

\* packet_calc_checksum takes every partial sum modulo 256 and adds in 32 bits; the
\* model takes the whole sum once.  Neither makes a difference.
LEMMA PartialSums ==
    ASSUME NEW a \in Nat, NEW b \in Nat, NEW c \in Nat, c > 0
    PROVE  /\ ((a % BYTE) + b) % BYTE = (a + b) % BYTE
           /\ (a % (BYTE * c)) % BYTE = a % BYTE
<1>0. ASSUME NEW x \in Nat, NEW m \in Nat, m > 0
      PROVE  \E q \in Nat, r \in 0 .. m - 1 : r = x % m /\ x = m * q + r
  <2>1. PICK q \in Nat, r \in 0 .. m - 1 : q = x \div m /\ r = x % m /\ x = m * q + r
    BY <1>0, DivMod
  <2> QED BY <2>1
<1>1. BYTE \in Nat /\ BYTE > 0
  BY PlaceIs
<1>2. PICK q \in Nat, r \in 0 .. BYTE - 1 : r = a % BYTE /\ a = BYTE * q + r
  BY <1>0, <1>1, Zenon
<1>3. ((a % BYTE) + b) % BYTE = (a + b) % BYTE
  <2>1. PICK p \in Nat, t \in 0 .. BYTE - 1 : t = (r + b) % BYTE /\ r + b = BYTE * p + t
    <3>1. r + b \in Nat
      BY <1>1
    <3> QED BY <1>0, <1>1, <3>1, Zenon
  <2>2. q + p \in Nat /\ a + b = BYTE * (q + p) + t
    BY <1>1, <1>2, <2>1
  <2>3. (a + b) % BYTE = t
    BY <1>1, <2>2, DivIs
  <2> QED BY <1>2, <2>1, <2>3, Zenon
<1>4. (a % (BYTE * c)) % BYTE = a % BYTE
  <2>1. PICK m \in Nat : m = BYTE * c /\ m > 0
    BY <1>1, DivDiv
  <2>2. PICK p \in Nat, t \in Nat : t = a % m /\ a = m * p + t
    <3>1. PICK p \in Nat, t \in 0 .. m - 1 : t = a % m /\ a = m * p + t
      BY <1>0, <2>1, Zenon
    <3>2. t \in Nat
      BY <2>1
    <3> QED BY <3>1, <3>2, Zenon
  <2>3. PICK u \in Nat, v \in 0 .. BYTE - 1 : v = t % BYTE /\ t = BYTE * u + v
    BY <1>0, <1>1, Zenon
  <2>4. c * p + u \in Nat /\ a = BYTE * (c * p + u) + v
    BY <1>1, <2>1, <2>2, <2>3
  <2>5. a % BYTE = v
    BY <1>1, <2>4, DivIs
  <2> QED BY <2>1, <2>2, <2>3, <2>5, Zenon
<1> QED BY <1>3, <1>4

-----------------------------------------------------------------------------
(* What is read                                                            *)

\* What packet_deserialize returns when the length in the header is L and the
\* bytes behind the header are those of s
LEMMA ReadIs ==
    ASSUME NEW b \in Seq(Octet), NEW s \in Seq(Octet),
           Len(b) >= 22 + Len(s), \A k \in 1 .. Len(s) : b[22 + k] = s[k],
           Header(b)["payload_len"] = Len(s)
    PROVE  packet_deserialize(b, Len(s)) = [header |-> Header(b), payload |-> s]
<1>0. b \in Seq(Octet) /\ s \in Seq(Octet)
  OBVIOUS
<1>1. PICK L \in Nat, m \in Nat : L = Len(s) /\ m = Len(b) /\ m >= 22 + L
  OBVIOUS
<1>2. SubSeq(b, 23, 22 + L) = s
  <2> DEFINE u == SubSeq(b, 23, 22 + L)
  <2>1. \A j \in 23 .. 22 + L : b[j] \in Octet
    BY <1>0, <1>1
  <2>2. /\ u \in Seq(Octet)
        /\ Len(u) = IF 23 <= 22 + L THEN (22 + L) - 23 + 1 ELSE 0
        /\ \A k \in 1 .. (22 + L) - 23 + 1 : u[k] = b[23 + k - 1]
    <3>1. 23 \in Int /\ 22 + L \in Int
      OBVIOUS
    <3> QED BY <2>1, <3>1, SubSeqProperties
  <2>3. Len(u) = L /\ (22 + L) - 23 + 1 = L
    BY <2>2
  <2>4. ASSUME NEW k \in 1 .. L PROVE u[k] = s[k]
    <3>1. 23 + k - 1 = 22 + k
      OBVIOUS
    <3>2. u[k] = b[23 + k - 1]
      BY <2>2, <2>3
    <3> QED BY <1>1, <3>1, <3>2
  <2> HIDE DEF u
  <2>5. u = [k \in 1 .. L |-> u[k]] /\ s = [k \in 1 .. L |-> s[k]]
    BY <1>0, <1>1, <2>2, <2>3
  <2>6. u = s
    BY <2>4, <2>5
  <2> QED BY <2>6 DEF u
<1>3. HeaderBytes + 1 = 23 /\ HeaderBytes + L = 22 + L
  BY OffsetsAre
<1>4. packet_deserialize(b, L) =
        [header |-> Header(b), payload |-> SubSeq(b, HeaderBytes + 1, HeaderBytes + L)]
  BY <1>1, Zenon DEF packet_deserialize
<1> QED BY <1>1, <1>2, <1>3, <1>4, Zenon

\* Nothing is read when the length in the header is not the one to expect.
LEMMA NothingRead ==
    ASSUME NEW b, NEW l, l # -1, Header(b)["payload_len"] # l
    PROVE  packet_deserialize(b, l) = Null
BY DEF packet_deserialize

\* What sender and receiver go on with
Good(g) == g # Null /\ g.header["checksum"] = packet_calc_checksum(g)

\* An unharmed frame is read as the packet.
LEMMA IntactRead ==
    ASSUME NEW p, WellFormed(p), NEW w, Sent(w, p)
    PROVE  packet_deserialize(w, Len(w) - getHeaderSize) = p /\ Good(p)
<1>1. /\ BeginsWith(w, p.header) /\ Len(w) = 23 + Len(p.payload)
      /\ \A k \in 1 .. Len(p.payload) : w[22 + k] = p.payload[k]
  BY Layout
<1>2. HeaderFits(p.header)
  BY Zenon DEF HeaderFits, WellFormed
<1>3. Header(w) = p.header
  BY <1>1, <1>2, HeaderReads
<1>4. PICK s \in Seq(Octet) : s = p.payload
  BY Zenon DEF WellFormed
<1>5. PICK L \in Nat : L = Len(s)
  OBVIOUS
<1>6. Len(w) - getHeaderSize = L /\ Len(w) >= 22 + L
  BY <1>1, <1>4, <1>5 DEF getHeaderSize
<1>7. Header(w)["payload_len"] = Len(s)
  BY <1>3, <1>4, Zenon DEF WellFormed
<1>8. packet_deserialize(w, Len(s)) = [header |-> Header(w), payload |-> s]
  <2>1. w \in Seq(Octet)
    BY <1>1, Zenon DEF BeginsWith
  <2>2. Len(w) >= 22 + Len(s)
    BY <1>5, <1>6, Zenon
  <2>3. \A k \in 1 .. Len(s) : w[22 + k] = s[k]
    BY <1>1, <1>4, Zenon
  <2> QED BY <1>7, <2>1, <2>2, <2>3, ReadIs
<1>9. [header |-> Header(w), payload |-> s] = p
  BY <1>3, <1>4, Zenon DEF WellFormed
<1>10. Good(p)
  <2>1. p # Null
    <3>1. p = Null => DOMAIN p.header = {}
      BY DEF Null
    <3>2. "checksum" \in DOMAIN p.header
      <4>1. "checksum" \in FieldNames
        BY FieldsAre
      <4> QED BY <4>1 DEF WellFormed
    <3> QED BY <3>1, <3>2, Zenon
  <2> QED BY <2>1, Zenon DEF Good, WellFormed
<1> QED BY <1>5, <1>6, <1>8, <1>9, <1>10, Zenon

\* A wrong byte in the header is noticed when it is one of payload_len, or the low
\* byte of any field.
LEMMA HeaderByteNoticed ==
    ASSUME NEW p, WellFormed(p), NEW w, Sent(w, p),
           NEW i \in 1 .. 11, NEW k \in 1 .. Width(Fields[i]), k = 1 \/ i = 5,
           NEW q \in 1 .. 22, At(q, i, k),
           NEW x \in Octet, x # w[q], NEW b, Replaced(b, w, q, x)
    PROVE  ~Good(packet_deserialize(b, Len(b) - getHeaderSize))
<1> DEFINE g == Header(b)
<1>0. PICK h : h = p.header
  OBVIOUS
<1>1. /\ BeginsWith(w, h) /\ Len(w) = 23 + Len(p.payload)
      /\ \A n \in 1 .. Len(p.payload) : w[22 + n] = p.payload[n]
  BY <1>0, Layout
<1>2. HeaderFits(h) /\ h \in [FieldNames -> Nat]
  BY <1>0, Zenon DEF HeaderFits, WellFormed
<1>3. /\ g \in [FieldNames -> Nat]
      /\ \A f \in FieldNames : f # Fields[i] => g[f] = h[f]
      /\ g[Fields[i]] # h[Fields[i]]
      /\ k = 1 => g[Fields[i]] - h[Fields[i]] = x - w[q]
  <2>1. BeginsWith(w, h) /\ HeaderFits(h)
    BY <1>1, <1>2, Zenon
  <2>2. OneFieldOff(Header(b), h, Fields[i], k, x - w[q])
    BY <2>1, OneWrongByte, Zenon
  <2> QED BY <2>2, Zenon DEF OneFieldOff
<1>4. PICK s \in Seq(Octet) : s = p.payload
  BY Zenon DEF WellFormed
<1>5. PICK L \in Nat : L = Len(s) /\ L # -1
  OBVIOUS
<1>7. /\ b \in Seq(Octet) /\ Len(b) = Len(w) /\ Len(w) = 23 + L
      /\ w[q] \in Octet
      /\ \A n \in 1 .. Len(w) : n # q => b[n] = w[n]
  <2>1. w \in Seq(Octet)
    BY <1>1, Zenon DEF BeginsWith
  <2>2. Len(w) = 23 + L
    BY <1>1, <1>4, <1>5, Zenon
  <2>3. q \in 1 .. Len(w)
    BY <2>2
  <2>4. /\ b \in Seq(Octet) /\ Len(b) = Len(w) /\ w[q] \in Octet
        /\ \A n \in 1 .. Len(w) : n # q => b[n] = w[n]
    BY <2>1, <2>3, OneReplaced
  <2> QED BY <2>2, <2>4, Zenon
<1>8. Len(b) - getHeaderSize = L /\ Len(b) >= 22 + L
  BY <1>7 DEF getHeaderSize
<1>9. "payload_len" \in FieldNames /\ "checksum" \in FieldNames
  BY FieldsAre
<1> HIDE DEF g
<1>10. h["payload_len"] = L /\ h["checksum"] = packet_calc_checksum(p)
  BY <1>0, <1>4, <1>5, Zenon DEF WellFormed
<1>11. CASE i = 5
  <2>1. g["payload_len"] # L
    BY <1>3, <1>10, <1>11, FieldsAre
  <2>2. packet_deserialize(b, L) = Null
    BY <1>5, <2>1, NothingRead DEF g
  <2> QED BY <1>8, <2>2, Zenon DEF Good
<1>12. CASE i # 5
  <2>1. k = 1 /\ Fields[i] # "payload_len"
    BY <1>12, FieldsAre
  <2>2. g["payload_len"] = L
    BY <1>3, <1>9, <1>10, <2>1, Zenon
  <2>3. \A n \in 1 .. L : b[22 + n] = s[n]
    <3> TAKE n \in 1 .. L
    <3>1. 22 + n \in 1 .. Len(w) /\ 22 + n # q
      BY <1>7
    <3>2. w[22 + n] = s[n]
      BY <1>1, <1>4, <1>5, Zenon
    <3> QED BY <1>7, <3>1, <3>2, Zenon
  <2>4. packet_deserialize(b, L) = [header |-> g, payload |-> s]
    <3>1. Len(b) >= 22 + Len(s)
      BY <1>5, <1>8, Zenon
    <3>2. \A n \in 1 .. Len(s) : b[22 + n] = s[n]
      BY <1>5, <2>3, Zenon
    <3>3. b \in Seq(Octet)
      BY <1>7, Zenon
    <3>4. Header(b)["payload_len"] = Len(s)
      BY <1>5, <2>2, Zenon DEF g
    <3>5. packet_deserialize(b, Len(s)) = [header |-> Header(b), payload |-> s]
      BY <3>1, <3>2, <3>3, <3>4, ReadIs
    <3> QED BY <1>5, <3>5, Zenon DEF g
  <2>5. PICK m \in Nat, n \in Nat, t \in Nat :
             m = FieldSum(h) /\ n = FieldSum(g) /\ t = Total(s)
    <3>1. FieldSum(h) \in Nat /\ FieldSum(g) \in Nat
      BY <1>2, <1>3, FieldSumIs
    <3>2. Total(s) \in Nat
      BY PayloadSum
    <3> QED BY <3>1, <3>2, Zenon
  <2>6. h["checksum"] = (m + t) % BYTE
    BY <1>0, <1>4, <1>10, <2>5, Zenon DEF packet_calc_checksum
  <2>7. SUFFICES g["checksum"] # (n + t) % BYTE
    <3> DEFINE e == [header |-> g, payload |-> s]
    <3>1. e.header = g /\ e.payload = s
      OBVIOUS
    <3> HIDE DEF e
    <3>2. packet_calc_checksum(e) = (n + t) % BYTE
      BY <2>5, <3>1, Zenon DEF packet_calc_checksum
    <3>3. packet_deserialize(b, Len(b) - getHeaderSize) = e
      BY <1>8, <2>4, Zenon DEF e
    <3> QED BY <3>1, <3>2, <3>3, Zenon DEF Good
  <2>8. CASE i = 6
    <3>1. Fields[i] = "checksum"
      BY <2>8, FieldsAre, Zenon
    <3>2. g["checksum"] # h["checksum"]
      BY <1>3, <3>1, Zenon
    <3>3. n = m
      <4>1. \A f \in FieldNames : f # "checksum" => g[f] = h[f]
        BY <1>3, <3>1, Zenon
      <4> QED BY <1>2, <1>3, <2>5, <4>1, FieldSumIs
    <3> QED BY <2>6, <3>2, <3>3, Zenon
  <2>9. CASE i # 6
    <3>1. PICK e \in FieldNames : e = Fields[i] /\ e # "checksum"
      BY <2>9, FieldsAre
    <3>2. g["checksum"] = h["checksum"]
      BY <1>3, <1>9, <3>1, Zenon
    <3>3. g[e] - h[e] = x - w[q]
      BY <1>3, <2>1, <3>1, Zenon
    <3>4. n - m = g[e] - h[e]
      <4>1. \A f \in FieldNames : f # e => g[f] = h[f]
        BY <1>3, <3>1, Zenon
      <4> QED BY <1>2, <1>3, <2>5, <3>1, <4>1, FieldSumIs
    <3>5. PICK y \in Nat, z \in Nat :
               y = w[q] /\ z = x /\ z # y /\ y < BYTE /\ z < BYTE
      BY <1>7, OctetIs
    <3>6. PICK u \in Nat, v \in Nat : u = m + t /\ v = n + t /\ v - u = z - y
      <4>1. n - m = z - y
        BY <3>3, <3>4, <3>5, Zenon
      <4> QED BY <4>1
    <3>7. (v % BYTE) # (u % BYTE)
      BY <3>5, <3>6, SumsDiffer
    <3> QED BY <2>6, <3>2, <3>6, <3>7, Zenon
  <2> QED BY <2>8, <2>9
<1> QED BY <1>11, <1>12

\* A wrong byte of the payload is noticed.
LEMMA PayloadByteNoticed ==
    ASSUME NEW p, WellFormed(p), NEW w, Sent(w, p),
           NEW q \in 23 .. 22 + Len(p.payload),
           NEW x \in Octet, x # w[q], NEW b, Replaced(b, w, q, x)
    PROVE  ~Good(packet_deserialize(b, Len(b) - getHeaderSize))
<1>0. PICK h : h = p.header
  OBVIOUS
<1>1. /\ BeginsWith(w, h) /\ Len(w) = 23 + Len(p.payload)
      /\ \A n \in 1 .. Len(p.payload) : w[22 + n] = p.payload[n]
  BY <1>0, Layout
<1>2. HeaderFits(h) /\ h \in [FieldNames -> Nat]
  BY <1>0, Zenon DEF HeaderFits, WellFormed
<1>3. PICK s \in Seq(Octet) : s = p.payload
  BY Zenon DEF WellFormed
<1>4. PICK L \in Nat, k \in Nat : L = Len(s) /\ k = q - 22 /\ 22 + k = q /\ k \in 1 .. L
  BY <1>3
<1>5. /\ b \in Seq(Octet) /\ Len(b) = Len(w) /\ Len(w) = 23 + L
      /\ \A n \in 1 .. Len(w) : n # 22 + k => b[n] = w[n]
      /\ b[22 + k] = x
  <2>1. w \in Seq(Octet)
    BY <1>1, Zenon DEF BeginsWith
  <2>2. Len(w) = 23 + L
    BY <1>1, <1>3, <1>4, Zenon
  <2>3. q \in 1 .. Len(w)
    BY <1>4, <2>2
  <2>4. /\ b \in Seq(Octet) /\ Len(b) = Len(w) /\ b[q] = x
        /\ \A n \in 1 .. Len(w) : n # q => b[n] = w[n]
    BY <2>1, <2>3, OneReplaced
  <2> QED BY <1>4, <2>2, <2>4, Zenon
<1>6. Len(b) - getHeaderSize = L /\ Len(b) >= 22 + L
  BY <1>5 DEF getHeaderSize
<1>7. BeginsWith(b, h)
  <2>1. ASSUME NEW i \in 1 .. 11, NEW l \in 1 .. Width(Fields[i])
        PROVE  b[Offset(i) + l] = Bytes(h[Fields[i]], Width(Fields[i]))[l]
    <3>1. PICK j \in 1 .. 22 : j = Offset(i) + l
      BY FieldRange
    <3>2. j \in 1 .. Len(w) /\ j # 22 + k
      BY <1>4, <1>5
    <3>3. w[Offset(i) + l] = Bytes(h[Fields[i]], Width(Fields[i]))[l]
      BY <1>1, Zenon DEF BeginsWith
    <3> QED BY <1>5, <3>1, <3>2, <3>3, Zenon
  <2>2. Len(b) >= 22
    BY <1>5
  <2> QED BY <1>5, <2>1, <2>2, Zenon DEF BeginsWith
<1>8. Header(b) = h
  BY <1>2, <1>7, HeaderReads
<1> DEFINE t == [s EXCEPT ![k] = x]
<1> Replaced(t, s, k, x)
  BY DEF Replaced
<1> HIDE DEF t
<1>9. /\ t \in Seq(Octet) /\ Len(t) = L /\ t[k] = x
      /\ s[k] \in Octet
      /\ \A n \in 1 .. L : n # k => t[n] = s[n]
  <2>1. k \in 1 .. Len(s)
    BY <1>4
  <2>2. /\ t \in Seq(Octet) /\ Len(t) = Len(s) /\ t[k] = x
        /\ s[k] \in Octet
        /\ \A n \in 1 .. Len(s) : n # k => t[n] = s[n]
    BY <2>1, OneReplaced
  <2> QED BY <1>4, <2>2, Zenon
<1>10. \A n \in 1 .. L : b[22 + n] = t[n]
  <2> TAKE n \in 1 .. L
  <2>1. 22 + n \in 1 .. Len(w) /\ (n # k => 22 + n # 22 + k)
    BY <1>4, <1>5
  <2>2. w[22 + n] = s[n]
    BY <1>1, <1>3, <1>4, Zenon
  <2> QED BY <1>5, <1>9, <2>1, <2>2, Zenon
<1>11. h["payload_len"] = L /\ h["checksum"] = packet_calc_checksum(p)
  BY <1>0, <1>3, <1>4, Zenon DEF WellFormed
<1>12. packet_deserialize(b, L) = [header |-> h, payload |-> t]
  <2>1. Len(b) >= 22 + Len(t)
    BY <1>6, <1>9, Zenon
  <2>2. \A n \in 1 .. Len(t) : b[22 + n] = t[n]
    BY <1>9, <1>10, Zenon
  <2>3. b \in Seq(Octet) /\ t \in Seq(Octet)
    BY <1>5, <1>9, Zenon
  <2>4. Header(b)["payload_len"] = Len(t)
    BY <1>8, <1>9, <1>11, Zenon
  <2>5. packet_deserialize(b, Len(t)) = [header |-> Header(b), payload |-> t]
    BY <2>1, <2>2, <2>3, <2>4, ReadIs
  <2> QED BY <1>8, <1>9, <2>5, Zenon
<1>13. PICK m \in Nat, u \in Nat, v \in Nat :
           m = FieldSum(h) /\ u = Total(s) /\ v = Total(t) /\ v - u = t[k] - s[k]
  <2>1. FieldSum(h) \in Nat
    BY <1>2, FieldSumIs
  <2>2. Len(s) = Len(t) /\ Len(t) = Len(s)
    BY <1>4, <1>9, Zenon
  <2>3. s \in Seq(Octet) /\ t \in Seq(Octet)
    BY <1>9
  <2>4. /\ Total(s) \in Nat
        /\ \A j \in 1 .. Len(s) : (\A n \in 1 .. Len(s) : n # j => s[n] = t[n])
                                       => Total(t) - Total(s) = t[j] - s[j]
    BY <2>2, <2>3, PayloadSum
  <2>5. Total(t) \in Nat
    BY <2>2, <2>3, PayloadSum
  <2>6. Total(t) - Total(s) = t[k] - s[k]
    BY <1>4, <1>9, <2>4, Zenon
  <2> QED BY <2>1, <2>4, <2>5, <2>6, Zenon
<1>14. PICK y \in Nat, z \in Nat : y = s[k] /\ z = x /\ z # y /\ y < BYTE /\ z < BYTE
  <2>1. s[k] = w[q]
    BY <1>1, <1>3, <1>4, Zenon
  <2> QED BY <1>9, <2>1, OctetIs
<1>15. PICK c \in Nat, d \in Nat : c = m + u /\ d = m + v /\ d - c = z - y
  <2>1. v - u = z - y
    BY <1>9, <1>13, <1>14, Zenon
  <2> QED BY <2>1
<1>16. (d % BYTE) # (c % BYTE)
  BY <1>14, <1>15, SumsDiffer
<1>17. h["checksum"] = c % BYTE
  BY <1>0, <1>3, <1>11, <1>13, <1>15, Zenon DEF packet_calc_checksum
<1> DEFINE e == [header |-> h, payload |-> t]
<1>18. e.header = h /\ e.payload = t
  OBVIOUS
<1> HIDE DEF e
<1>19. packet_calc_checksum(e) = d % BYTE
  BY <1>13, <1>15, <1>18, Zenon DEF packet_calc_checksum
<1>20. packet_deserialize(b, Len(b) - getHeaderSize) = e
  BY <1>6, <1>12, Zenon DEF e
<1> QED BY <1>16, <1>17, <1>18, <1>19, <1>20, Zenon DEF Good

\* c is what is left of w when all behind the n-th byte is cut off.
CutAt(c, w, n) == c = SubSeq(w, 1, n)

\* What is left is the beginning.
LEMMA CutKeeps ==
    ASSUME NEW w \in Seq(Octet), NEW n \in 0 .. Len(w), NEW c, CutAt(c, w, n)
    PROVE  c \in Seq(Octet) /\ Len(c) = n /\ \A k \in 1 .. n : c[k] = w[k]
<1>1. n \in Nat /\ 1 \in Int /\ n \in Int
  OBVIOUS
<1>2. \A k \in 1 .. n : w[k] \in Octet
  <2>1. \A k \in 1 .. n : k \in 1 .. Len(w)
    OBVIOUS
  <2>2. w \in [1 .. Len(w) -> Octet]
    OBVIOUS
  <2> QED BY <2>1, <2>2
<1>3. /\ SubSeq(w, 1, n) \in Seq(Octet)
      /\ Len(SubSeq(w, 1, n)) = IF 1 <= n THEN n - 1 + 1 ELSE 0
      /\ \A k \in 1 .. n - 1 + 1 : SubSeq(w, 1, n)[k] = w[1 + k - 1]
  BY <1>1, <1>2, SubSeqProperties
<1>4. (IF 1 <= n THEN n - 1 + 1 ELSE 0) = n /\ n - 1 + 1 = n
  BY <1>1
<1>5. \A k \in 1 .. n : 1 + k - 1 = k
  BY <1>1
<1> QED BY <1>3, <1>4, <1>5, Zenon DEF CutAt

\* Whatever is read behind the end of a frame that was cut short, the frame is
\* not taken for a packet, unless nothing but the header is left.
LEMMA CutRead ==
    ASSUME NEW p, WellFormed(p), NEW w, Sent(w, p),
           NEW n \in Nat, n >= 22, n < Len(w), NEW c, CutAt(c, w, n),
           NEW f \in Seq(Octet), Good(packet_deserialize(c \o f, Len(c) - getHeaderSize))
    PROVE  Len(c) = 22
<1>0. PICK h : h = p.header
  OBVIOUS
<1>1. BeginsWith(w, h) /\ Len(w) = 23 + Len(p.payload)
  BY <1>0, Layout
<1>2. HeaderFits(h)
  BY <1>0, Zenon DEF HeaderFits, WellFormed
<1>3. PICK L \in Nat : L = Len(p.payload) /\ L = h["payload_len"]
  <2>1. Len(p.payload) \in Nat
    <3>1. p.payload \in Seq(Octet)
      BY Zenon DEF WellFormed
    <3> QED BY <3>1
  <2> QED BY <1>0, <2>1, Zenon DEF WellFormed
<1>4. c \in Seq(Octet) /\ Len(c) = n /\ \A k \in 1 .. n : c[k] = w[k]
  <2>1. w \in Seq(Octet)
    BY <1>1, Zenon DEF BeginsWith
  <2>2. n \in 0 .. Len(w)
    BY <1>1, <1>3
  <2> QED BY <2>1, <2>2, CutKeeps
<1> DEFINE b == c \o f
<1>5. b \in Seq(Octet) /\ Len(b) >= 22 /\ \A k \in 1 .. n : b[k] = c[k]
  <2>1. /\ c \o f \in Seq(Octet) /\ Len(c \o f) = Len(c) + Len(f)
        /\ \A k \in 1 .. Len(c) : (c \o f)[k] = c[k]
    BY <1>4, Behind
  <2>2. Len(f) \in Nat
    OBVIOUS
  <2> QED BY <1>4, <2>1, <2>2
<1> HIDE DEF b
<1>6. BeginsWith(b, h)
  <2>1. ASSUME NEW i \in 1 .. 11, NEW l \in 1 .. Width(Fields[i])
        PROVE  b[Offset(i) + l] = Bytes(h[Fields[i]], Width(Fields[i]))[l]
    <3>1. PICK j \in 1 .. 22 : j = Offset(i) + l
      BY FieldRange
    <3>2. j \in 1 .. n
      OBVIOUS
    <3>3. w[Offset(i) + l] = Bytes(h[Fields[i]], Width(Fields[i]))[l]
      BY <1>1, Zenon DEF BeginsWith
    <3> QED BY <1>4, <1>5, <3>1, <3>2, <3>3, Zenon
  <2> QED BY <1>5, <2>1, Zenon DEF BeginsWith
<1>7. Header(b)["payload_len"] = L
  BY <1>2, <1>3, <1>6, HeaderReads
<1>8. SUFFICES ASSUME n # 22 PROVE FALSE
  BY <1>4
<1>9. Len(c) - getHeaderSize # -1 /\ Len(c) - getHeaderSize # L
  <2>1. n < 23 + L
    BY <1>1, <1>3
  <2> QED BY <1>4, <1>8, <2>1 DEF getHeaderSize
<1>10. packet_deserialize(b, Len(c) - getHeaderSize) = Null
  BY <1>7, <1>9, NothingRead
<1> QED BY <1>10, Zenon DEF Good, b

\* Nothing is read behind the end of a whole frame.
LEMMA NothingBehind ==
    ASSUME NEW w \in Seq(Octet), NEW b
    PROVE  w \o [k \in 1 .. 0 |-> b] = w
<1>1. [k \in 1 .. 0 |-> b] = << >>
  OBVIOUS
<1>2. w \o << >> = w
  BY ConcatEmptySeq
<1> QED BY <1>1, <1>2, Zenon

-----------------------------------------------------------------------------
(* The specification                                                       *)

\* Only the header's checksum is set, which does not count itself.
LEMMA ChecksumSet ==
    ASSUME NEW p, NEW h \in [FieldNames -> Nat], NEW s \in Seq(Octet),
           p = [header |-> h, payload |-> s],
           h["payload_len"] = Len(s), \A f \in FieldNames : h[f] \in Fits(Width(f))
    PROVE  WellFormed(packet_set_checksum(p))
<1>1. PICK c \in Nat : c = packet_calc_checksum(p) /\ c \in Fits(1)
  <2>1. PICK m \in Nat, n \in Nat : m = FieldSum(h) /\ n = Total(s)
    <3>1. FieldSum(h) \in Nat
      BY FieldSumIs
    <3>2. Total(s) \in Nat
      BY PayloadSum
    <3> QED BY <3>1, <3>2, Zenon
  <2>2. packet_calc_checksum(p) = (m + n) % BYTE
    BY <2>1 DEF packet_calc_checksum
  <2>3. PICK k \in Nat : k = m + n
    BY m + n \in Nat
  <2>4. PICK r \in Nat : r = k % BYTE /\ r \in 0 .. BYTE - 1
    <3>1. k % BYTE \in 0 .. BYTE - 1
      BY PlaceIs, DivMod
    <3>2. \A e \in 0 .. BYTE - 1 : e \in Nat
      OBVIOUS
    <3> QED BY <3>1, <3>2, Zenon
  <2>5. Fits(1) = 0 .. BYTE - 1
    BY PlaceIs DEF Fits
  <2> QED BY <2>2, <2>3, <2>4, <2>5, Zenon
<1> DEFINE g == [h EXCEPT !["checksum"] = c]
           q == packet_set_checksum(p)
<1>2. q = [header |-> g, payload |-> s]
  <2>1. \A e : [p EXCEPT !.header = e] = [header |-> e, payload |-> s]
    OBVIOUS
  <2>2. p.header = h
    OBVIOUS
  <2> QED BY <1>1, <2>1, <2>2, Zenon DEF packet_set_checksum
<1>3. "checksum" \in FieldNames /\ "payload_len" \in FieldNames /\ Width("checksum") = 1
  BY FieldsAre DEF Width
<1>4. /\ g \in [FieldNames -> Nat] /\ g["checksum"] = c
      /\ \A f \in FieldNames : f # "checksum" => g[f] = h[f]
  BY <1>3
<1> HIDE DEF g, q
<1>5. q.header = g /\ q.payload = s
  BY <1>2
<1>6. FieldSum(g) = FieldSum(h)
  BY <1>4, FieldSumIs
<1>7. packet_calc_checksum(q) = c
  <2>1. p.header = h /\ p.payload = s
    OBVIOUS
  <2> QED BY <1>1, <1>5, <1>6, <2>1, Zenon DEF packet_calc_checksum
<1>8. g["payload_len"] = Len(s)
  <2>1. "payload_len" # "checksum"
    OBVIOUS
  <2> QED BY <1>3, <1>4, <2>1, Zenon
<1>9. \A f \in FieldNames : g[f] \in Fits(Width(f))
  BY <1>1, <1>3, <1>4, Zenon
<1>10. q = [header |-> q.header, payload |-> q.payload]
  BY <1>2, <1>5, Zenon
<1> QED BY <1>4, <1>5, <1>7, <1>8, <1>9, <1>10, Zenon DEF WellFormed, q

\* Numbers that fit; a length up to MaxPayload fits into payload_len.
LEMMA FitsAre ==
    /\ \A w \in {1, 2, 4} : \A v \in Fits(w) : v \in Nat
    /\ 0 \in Fits(1) /\ 1 \in Fits(1) /\ 2 \in Fits(1)
    /\ MaxPayload \in Nat /\ 0 .. MaxPayload \subseteq Fits(4)
<1>1. \A w \in {1, 2, 4} : \A v \in Fits(w) : v \in Nat
  BY DEF Fits
<1>2. Fits(1) = 0 .. BYTE - 1
  BY PlaceIs DEF Fits
<1>3. 0 \in Fits(1) /\ 1 \in Fits(1) /\ 2 \in Fits(1)
  BY <1>2, PlaceIs
<1>4. PICK c \in Nat : c = BYTE * Place[4]
  <2>1. BYTE \in Nat /\ Place[4] \in Nat
    BY PlaceIs
  <2> QED BY <2>1
<1>5. Fits(4) = 0 .. c - 1
  BY <1>4 DEF Fits
<1>6. MaxPayload \in 0 .. c - 1
  BY <1>5, PacketAssumption
<1> QED BY <1>1, <1>3, <1>5, <1>6

\* Sender and receiver build packets as WellFormed has them.
LEMMA BuiltIs ==
    ASSUME NEW id \in Ids, NEW ack \in Ids, NEW tr \in TokenValues, NEW ts \in TokenValues,
           NEW type \in Types, NEW rates \in [RateFields -> Rates], NEW payload \in Payloads
    PROVE  WellFormed(Built(id, ack, tr, ts, type, rates, payload))
<1> DEFINE h == [ f \in FieldNames |->
             CASE f = "id" -> id
               [] f = "ack" -> ack
               [] f = "token_recv" -> tr
               [] f = "token_send" -> ts
               [] f = "type" -> type
               [] f = "payload_len" -> Len(payload)
               [] f \in RateFields -> rates[f]
               [] OTHER -> 0 ]
           p == [header |-> h, payload |-> payload]
<1>1. payload \in Seq(Octet) /\ Len(payload) \in 0 .. MaxPayload
  <2>1. PICK n \in 0 .. MaxPayload : payload \in [1 .. n -> Octet]
    BY DEF Payloads
  <2>2. n \in Nat
    BY FitsAre
  <2> QED BY <2>1, <2>2
<1>2. /\ id \in Fits(4) /\ ack \in Fits(4) /\ tr \in Fits(2) /\ ts \in Fits(2)
      /\ type \in Fits(1) /\ Len(payload) \in Fits(4)
      /\ \A f \in RateFields : rates[f] \in Fits(1)
  <2>1. type \in Fits(1)
    BY FitsAre DEF Types
  <2>2. Len(payload) \in Fits(4)
    BY <1>1, FitsAre
  <2>3. /\ id \in Fits(4) /\ ack \in Fits(4) /\ tr \in Fits(2) /\ ts \in Fits(2)
        /\ Rates \subseteq Fits(1)
    BY PacketAssumption
  <2>4. \A f \in RateFields : rates[f] \in Rates
    OBVIOUS
  <2> QED BY <2>1, <2>2, <2>3, <2>4
<1>3. /\ Width("id") = 4 /\ Width("ack") = 4 /\ Width("token_recv") = 2
      /\ Width("token_send") = 2 /\ Width("type") = 1 /\ Width("payload_len") = 4
      /\ Width("checksum") = 1 /\ \A f \in RateFields : Width(f) = 1
  BY DEF Width, RateFields
<1>4. \A f \in FieldNames :
          \/ f = "id" \/ f = "ack" \/ f = "token_recv" \/ f = "token_send"
          \/ f = "type" \/ f = "payload_len" \/ f = "checksum" \/ f \in RateFields
  BY DEF FieldNames, Fields, RateFields
<1>5. \A f \in FieldNames : h[f] \in Fits(Width(f))
  <2> TAKE f \in FieldNames
  <2> DEFINE v == h[f]
  <2>1. /\ f = "id" => v = id
        /\ f = "ack" => v = ack
        /\ f = "token_recv" => v = tr
        /\ f = "token_send" => v = ts
        /\ f = "type" => v = type
        /\ f = "payload_len" => v = Len(payload)
        /\ f = "checksum" => v = 0
        /\ f \in RateFields => v = rates[f]
    BY DEF RateFields
  <2>2. h[f] = v
    OBVIOUS
  <2> HIDE DEF v
  <2> HIDE DEF h
  <2>3. v \in Fits(Width(f))
    BY <1>2, <1>3, <1>4, <2>1, FitsAre, Zenon
  <2> QED BY <2>2, <2>3, Zenon
<1>6. h["payload_len"] = Len(payload)
  <2>1. "payload_len" \in FieldNames
    BY FieldsAre
  <2> QED BY <2>1 DEF RateFields
<1>7. Built(id, ack, tr, ts, type, rates, payload) = packet_set_checksum(p)
  BY Zenon DEF Built
<1>8. h = [f \in FieldNames |-> h[f]]
  OBVIOUS
<1> HIDE DEF h
<1>9. h \in [FieldNames -> Nat]
  <2>1. \A f \in FieldNames : h[f] \in Nat
    <3> TAKE f \in FieldNames
    <3>1. Width(f) \in {1, 2, 4}
      BY FieldsAre, Zenon
    <3> QED BY <1>5, <3>1, FitsAre, Zenon
  <2> QED BY <1>8, <2>1, Zenon
<1>10. WellFormed(packet_set_checksum(p))
  BY <1>1, <1>5, <1>6, <1>9, ChecksumSet
<1> QED BY <1>7, <1>10, Zenon

\* What has happened to frame w on its way
Untouched(w) == wire = w /\ changed = 0 /\ cut = 0

Hit(w) ==
    /\ cut = 0 /\ changed \in 1 .. Len(w)
    /\ \E x \in Octet \ {w[changed]} : Replaced(wire, w, changed, x)

Shortened(w) ==
    /\ changed = 0
    /\ \E n \in HeaderBytes .. Len(w) - 1 : cut = Len(w) - n /\ CutAt(wire, w, n)

Travelled(w) == Untouched(w) \/ Hit(w) \/ Shortened(w)

\* The inductive invariant.  RoundTrip and the others say what is read from the bytes
\* that arrive; what is needed is where these bytes come from.
PacketInv ==
    /\ WellFormed(pkt)
    /\ stage \in {"sent", "hit", "read"}
    /\ \E rest \in Octet : Travelled(packet_serialize(pkt) \o <<rest>>)
    /\ stage = "sent" => changed = 0 /\ cut = 0
    /\ stage = "read" => \E b \in Octet :
          got = packet_deserialize(wire \o [k \in 1 .. cut |-> b],
                                   Len(wire) - getHeaderSize)

\* It holds of every frame that is put on the air.
LEMMA PacketInit == Init => PacketInv
<1> SUFFICES ASSUME Init PROVE PacketInv
  OBVIOUS
<1>1. WellFormed(pkt)
  <2>1. PICK id \in Ids, ack \in Ids, tr \in TokenValues, ts \in TokenValues,
             type \in Types, rates \in [RateFields -> Rates], payload \in Payloads :
                 pkt = Built(id, ack, tr, ts, type, rates, payload)
    BY Zenon DEF Init
  <2>2. WellFormed(Built(id, ack, tr, ts, type, rates, payload))
    BY BuiltIs
  <2> QED BY <2>1, <2>2, Zenon
<1>2. PICK rest \in Octet : wire = packet_serialize(pkt) \o <<rest>>
  BY DEF Init
<1>3. Travelled(packet_serialize(pkt) \o <<rest>>)
  BY <1>2, Zenon DEF Init, Travelled, Untouched
<1>4. stage = "sent" /\ changed = 0 /\ cut = 0
  BY DEF Init
<1>5. stage \in {"sent", "hit", "read"} /\ stage # "read"
  BY <1>4
<1> QED BY <1>1, <1>3, <1>4, <1>5, Zenon DEF PacketInv

\* Interference, the loss of the end, and reading keep it.
LEMMA PacketNext == PacketInv /\ [Next]_vars => PacketInv'
<1> SUFFICES ASSUME PacketInv, [Next]_vars PROVE PacketInv'
  OBVIOUS
<1>0. PICK rest \in Octet : Travelled(packet_serialize(pkt) \o <<rest>>)
  BY Zenon DEF PacketInv
<1>1. PICK w : w = packet_serialize(pkt) \o <<rest>> /\ Travelled(w)
  BY <1>0
<1>2. WellFormed(pkt)
  BY Zenon DEF PacketInv
<1>3. ASSUME stage = "sent" PROVE wire = w /\ changed = 0 /\ cut = 0
  <2>1. changed = 0 /\ cut = 0
    BY <1>3, Zenon DEF PacketInv
  <2>2. ~Hit(w)
    BY <2>1 DEF Hit
  <2>3. ~Shortened(w)
    <3>1. w \in Seq(Octet)
      <4>1. Sent(w, pkt)
        BY <1>1, Zenon DEF Sent
      <4>2. BeginsWith(w, pkt.header)
        BY <1>2, <4>1, Layout, Zenon
      <4> QED BY <4>2, Zenon DEF BeginsWith
    <3>2. Len(w) \in Nat
      BY <3>1
    <3>3. HeaderBytes = 22
      BY OffsetsAre
    <3> QED BY <2>1, <3>2, <3>3 DEF Shortened
  <2> QED BY <1>1, <2>2, <2>3, Zenon DEF Travelled, Untouched
<1>4. CASE Flip
  <2>1. stage = "sent" /\ stage' = "hit" /\ pkt' = pkt /\ cut' = cut
    BY <1>4 DEF Flip
  <2>2. PICK k \in 1 .. Len(wire) :
            /\ changed' = k
            /\ \E b \in Octet \ {wire[k]} : wire' = [wire EXCEPT ![k] = b]
    BY <1>4, Zenon DEF Flip
  <2>3. Hit(w)'
    BY <1>3, <2>1, <2>2, Zenon DEF Hit, Replaced
  <2> QED BY <1>1, <1>2, <2>1, <2>3 DEF PacketInv, Travelled
<1>5. CASE Cut
  <2>1. stage = "sent" /\ stage' = "hit" /\ pkt' = pkt /\ changed' = changed
    BY <1>5 DEF Cut
  <2>2. PICK n \in HeaderBytes .. Len(wire) - 1 :
            cut' = Len(wire) - n /\ wire' = SubSeq(wire, 1, n)
    BY <1>5, Zenon DEF Cut
  <2>3. Shortened(w)'
    BY <1>3, <2>1, <2>2, Zenon DEF Shortened, CutAt
  <2> QED BY <1>1, <1>2, <2>1, <2>3 DEF PacketInv, Travelled
<1>6. CASE Read
  <2>1. /\ stage' = "read" /\ pkt' = pkt /\ wire' = wire /\ changed' = changed
        /\ cut' = cut
        /\ \E b \in Octet :
              got' = packet_deserialize(wire \o [k \in 1 .. cut |-> b],
                                        Len(wire) - getHeaderSize)
    BY <1>6, Zenon DEF Read
  <2> QED BY <1>1, <1>2, <2>1 DEF PacketInv, Travelled, Untouched, Hit, Shortened
<1>7. CASE UNCHANGED vars
  BY <1>7 DEF PacketInv, vars, Travelled, Untouched, Hit, Shortened
<1> QED BY <1>4, <1>5, <1>6, <1>7 DEF Next

\* What arrives is always what was sent, with at most one thing done to it.
LEMMA PacketInvHolds == Spec => []PacketInv
<1>1. Init => PacketInv
  BY PacketInit
<1>2. PacketInv /\ [Next]_vars => PacketInv'
  BY PacketNext
<1> QED BY <1>1, <1>2, PTL DEF Spec

\* What is read of a frame: what was sent, by what has happened to it
LEMMA WhatIsRead ==
    ASSUME PacketInv, stage = "read"
    PROVE  \E w \in Seq(Octet) :
              /\ Sent(w, pkt) /\ WellFormed(pkt) /\ Travelled(w)
              /\ cut = 0 => got = packet_deserialize(wire, Len(wire) - getHeaderSize)
              /\ \E f \in Seq(Octet) :
                    got = packet_deserialize(wire \o f, Len(wire) - getHeaderSize)
<1>0. PICK rest \in Octet : Travelled(packet_serialize(pkt) \o <<rest>>)
  BY Zenon DEF PacketInv
<1>1. PICK w : w = packet_serialize(pkt) \o <<rest>> /\ Travelled(w)
  BY <1>0
<1>2. WellFormed(pkt)
  BY Zenon DEF PacketInv
<1>3. Sent(w, pkt)
  BY <1>1, Zenon DEF Sent
<1>4. w \in Seq(Octet)
  <2>1. BeginsWith(w, pkt.header)
    BY <1>2, <1>3, Layout, Zenon
  <2> QED BY <2>1, Zenon DEF BeginsWith
<1>5. PICK b \in Octet :
          got = packet_deserialize(wire \o [k \in 1 .. cut |-> b],
                                   Len(wire) - getHeaderSize)
  BY Zenon DEF PacketInv
<1>6. cut \in Nat /\ wire \in Seq(Octet)
  <2>1. HeaderBytes = 22 /\ Len(w) \in Nat
    BY <1>4, OffsetsAre
  <2>2. CASE Untouched(w)
    BY <1>4, <2>2 DEF Untouched
  <2>3. CASE Hit(w)
    <3>1. PICK x \in Octet : Replaced(wire, w, changed, x)
      BY <2>3, Zenon DEF Hit
    <3>2. changed \in 1 .. Len(w) /\ cut = 0
      BY <2>3, Zenon DEF Hit
    <3>3. wire \in Seq(Octet)
      BY <1>4, <3>1, <3>2, OneReplaced
    <3> QED BY <3>2, <3>3
  <2>4. CASE Shortened(w)
    <3>1. PICK n \in HeaderBytes .. Len(w) - 1 : cut = Len(w) - n /\ CutAt(wire, w, n)
      BY <2>4, Zenon DEF Shortened
    <3>2. n \in 0 .. Len(w) /\ Len(w) - n \in Nat
      BY <2>1
    <3>3. wire \in Seq(Octet)
      BY <1>4, <3>1, <3>2, CutKeeps
    <3> QED BY <3>1, <3>2, <3>3, Zenon
  <2> QED BY <1>1, <2>2, <2>3, <2>4, Zenon DEF Travelled
<1>7. [k \in 1 .. cut |-> b] \in Seq(Octet)
  BY <1>6
<1>8. ASSUME cut = 0 PROVE got = packet_deserialize(wire, Len(wire) - getHeaderSize)
  BY <1>5, <1>6, <1>8, NothingBehind, Zenon
<1> QED BY <1>1, <1>2, <1>3, <1>4, <1>5, <1>7, <1>8, Zenon

\* A frame that arrives as it was sent is read as the packet it was made of
\* (RoundTrip): packet_serialize, the checksum and packet_deserialize fit together.
LEMMA RoundTripFollows == PacketInv => RoundTrip
<1> SUFFICES ASSUME PacketInv, stage = "read", changed = 0, cut = 0
             PROVE  Accepted /\ got = pkt
  BY Zenon DEF RoundTrip
<1>1. PICK w \in Seq(Octet) :
          /\ Sent(w, pkt) /\ WellFormed(pkt) /\ Travelled(w)
          /\ got = packet_deserialize(wire, Len(wire) - getHeaderSize)
  BY WhatIsRead, Zenon
<1>2. wire = w
  <2>1. ~Hit(w)
    BY DEF Hit
  <2>2. ~Shortened(w)
    <3>1. Len(w) \in Nat /\ HeaderBytes = 22
      BY OffsetsAre
    <3> QED BY <3>1 DEF Shortened
  <2> QED BY <1>1, <2>1, <2>2, Zenon DEF Travelled, Untouched
<1>3. packet_deserialize(w, Len(w) - getHeaderSize) = pkt /\ Good(pkt)
  BY <1>1, IntactRead, Zenon
<1> QED BY <1>1, <1>2, <1>3, Zenon DEF Accepted, Good

\* One wrong byte is noticed in the low byte of a field of the header, in
\* payload_len and in the payload (OneByteNoticed).
LEMMA OneByteFollows == PacketInv => OneByteNoticed
<1> SUFFICES ASSUME PacketInv, Accepted, changed # 0
             PROVE  changed \notin Counted \cup LengthBytes
  BY Zenon DEF OneByteNoticed
<1>0. stage = "read" /\ Good(got)
  BY Zenon DEF Accepted, Good
<1>1. PICK w \in Seq(Octet) :
          /\ Sent(w, pkt) /\ WellFormed(pkt) /\ Travelled(w)
          /\ cut = 0 => got = packet_deserialize(wire, Len(wire) - getHeaderSize)
  BY <1>0, WhatIsRead, Zenon
<1>2. Hit(w)
  BY <1>1, Zenon DEF Travelled, Untouched, Shortened
<1>3. PICK q \in 1 .. Len(w), x \in Octet :
          q = changed /\ x # w[q] /\ Replaced(wire, w, q, x)
  BY <1>2 DEF Hit
<1>4. Good(packet_deserialize(wire, Len(wire) - getHeaderSize))
  BY <1>0, <1>1, <1>2, Zenon DEF Hit
<1>5. ASSUME NEW i \in 1 .. 11, NEW k \in 1 .. Width(Fields[i]), k = 1 \/ i = 5
      PROVE  q # Offset(i) + k
  <2> SUFFICES ASSUME q = Offset(i) + k PROVE FALSE
    OBVIOUS
  <2>1. PICK r \in 1 .. 22 : r = q /\ At(r, i, k)
    BY FieldRange, Zenon DEF At
  <2> QED BY <1>1, <1>3, <1>4, <1>5, <2>1, HeaderByteNoticed, Zenon
<1>6. ASSUME NEW r \in 23 .. 22 + Len(pkt.payload), q = r PROVE FALSE
  <2>1. r # changed \/ (x # w[r] /\ Replaced(wire, w, r, x))
    BY <1>3, Zenon
  <2> QED BY <1>1, <1>3, <1>4, <1>6, <2>1, PayloadByteNoticed, Zenon
<1>7. HeaderBytes = 22 /\ HeaderBytes + 1 = 23 /\ Len(Fields) = 11
  BY OffsetsAre, FieldsAre
<1>8. q \notin Counted
  <2>1. \A i \in 1 .. 11 : 1 \in 1 .. Width(Fields[i])
    BY LowByte, Zenon
  <2>2. \A i \in 1 .. 11 : q # Offset(i) + 1
    BY <1>5, <2>1, Zenon
  <2> QED BY <1>6, <1>7, <2>2, Zenon DEF Counted
<1>9. q \notin LengthBytes
  <2> SUFFICES ASSUME q \in LengthBytes PROVE FALSE
    OBVIOUS
  <2>1. Offset(5) \in Nat /\ Offset(6) = Offset(5) + Width(Fields[5])
        /\ Width(Fields[5]) \in {1, 2, 4}
    <3>1. Width(Fields[5]) = 4
      BY FieldsAre DEF Width
    <3>2. Offset(5) = 9 /\ Offset(6) = 13
      BY OffsetsAre, Zenon
    <3> QED BY <3>1, <3>2
  <2>2. PICK k \in 1 .. Width(Fields[5]) : q = Offset(5) + k
    <3>1. q \in Offset(5) + 1 .. Offset(5) + Width(Fields[5])
      BY <2>1 DEF LengthBytes
    <3>2. q - Offset(5) \in 1 .. Width(Fields[5]) /\ q = Offset(5) + (q - Offset(5))
      BY <2>1, <3>1
    <3> QED BY <3>2
  <2> QED BY <1>5, <2>2
<1> QED BY <1>3, <1>8, <1>9, Zenon

\* A frame that was cut short is not taken for a packet, unless nothing but the
\* header is left (CutNoticed).
LEMMA CutFollows == PacketInv => CutNoticed
<1> SUFFICES ASSUME PacketInv, Accepted, cut # 0 PROVE Len(wire) = HeaderBytes
  BY Zenon DEF CutNoticed
<1>0. stage = "read" /\ Good(got)
  BY Zenon DEF Accepted, Good
<1>1. PICK w \in Seq(Octet) :
          /\ Sent(w, pkt) /\ WellFormed(pkt) /\ Travelled(w)
          /\ \E f \in Seq(Octet) :
                got = packet_deserialize(wire \o f, Len(wire) - getHeaderSize)
  BY <1>0, WhatIsRead, Zenon
<1>2. PICK f \in Seq(Octet) :
          Good(packet_deserialize(wire \o f, Len(wire) - getHeaderSize))
  BY <1>0, <1>1, Zenon
<1>3. PICK n \in HeaderBytes .. Len(w) - 1 : CutAt(wire, w, n)
  BY <1>1, Zenon DEF Travelled, Untouched, Hit, Shortened
<1>4. HeaderBytes = 22 /\ n \in Nat /\ n >= 22 /\ n < Len(w)
  <2>1. HeaderBytes = 22 /\ Len(w) \in Nat
    BY OffsetsAre
  <2> QED BY <2>1
<1>5. Len(wire) = 22
  BY <1>1, <1>2, <1>3, <1>4, CutRead, Zenon
<1> QED BY <1>4, <1>5, Zenon

\* A frame that arrives as it was sent is read as the packet it was made of: for
\* every id, token, rate and payload, packet_serialize, packet_calc_checksum and
\* packet_deserialize fit together.
THEOREM UnharmedIsReadBack == Spec => []RoundTrip
BY PacketInvHolds, RoundTripFollows, PTL

\* One wrong byte is noticed in the low byte of a field of the header, in
\* payload_len and in the payload.
THEOREM WrongByteIsNoticed == Spec => []OneByteNoticed
BY PacketInvHolds, OneByteFollows, PTL

\* A frame that was cut short is not taken for a packet, unless nothing but the
\* header is left of it.
THEOREM ShortFrameIsNoticed == Spec => []CutNoticed
BY PacketInvHolds, CutFollows, PTL
=============================================================================
