--------------------------- MODULE JumpOptProofs ---------------------------
(***************************************************************************)
(* The jump passes, for every function, whatever its labels, jumps and     *)
(* branches, circles of jumps included: the same instructions are executed *)
(* in the same order, and the counts of the labels and the control flow    *)
(* graph stay exact.                                                       *)
(***************************************************************************)
EXTENDS JumpOpt, WellFoundedInduction, FiniteSetTheorems, TLAPS

(* A set of numbers that holds zero and with a number the next one.        *)
LEMMA AllNumbers ==
  ASSUME NEW S, 0 \in S, \A n \in Nat : n \in S => n + 1 \in S
  PROVE  \A n \in Nat : n \in S
<1> SUFFICES ASSUME NEW m \in Nat, m \notin S PROVE FALSE
  OBVIOUS
<1> DEFINE R == OpToRel(<, Nat)
<1>1. Nat \ S # {} /\ Nat \ S \subseteq Nat
  OBVIOUS
<1>2. PICK n \in Nat \ S : \A k \in Nat \ S : ~(<<k, n>> \in R)
  BY <1>1, NatLessThanWellFounded, WFMin
<1>3. \A k \in Nat \ S : ~(k < n)
  BY <1>2 DEF OpToRel
<1>4. n # 0
  OBVIOUS
<1>5. n - 1 \in Nat /\ n - 1 < n /\ (n - 1) + 1 = n
  BY <1>4
<1> QED
  BY <1>3, <1>5

(* A nonempty set of numbers has a least one.                              *)
LEMMA LeastNumber ==
  ASSUME NEW S \in SUBSET Nat, S # {}
  PROVE  \E n \in S : \A k \in S : n <= k
<1> DEFINE R == OpToRel(<, Nat)
<1>1. PICK n \in S : \A k \in S : ~(<<k, n>> \in R)
  BY NatLessThanWellFounded, WFMin
<1>2. \A k \in S : ~(k < n)
  BY <1>1 DEF OpToRel
<1> QED
  BY <1>2

(* f is g applied to k again and again.                                    *)
Repeats(f, g, k, D) ==
  f \in [Nat -> D] /\ f[0] = k /\ \A n \in Nat : f[n + 1] = g[f[n]]

(* A function can be applied again and again.                              *)
LEMMA Iterates ==
  ASSUME NEW D, NEW g \in [D -> D], NEW k \in D
  PROVE  \E f : Repeats(f, g, k, D)
<1> DEFINE P(n) == {h \in [0..n -> D] : h[0] = k /\ \A j \in 0..n - 1 : h[j + 1] = g[h[j]]}
           S == {n \in Nat : P(n) # {}}
<1>1. 0 \in S
  <2>1. [j \in 0..0 |-> k] \in P(0)
    OBVIOUS
  <2> QED
    BY <2>1
<1>2. ASSUME NEW n \in Nat, n \in S PROVE n + 1 \in S
  <2>1. PICK h \in P(n) : TRUE
    BY <1>2
  <2>2. h \in [0..n -> D] /\ h[0] = k /\ \A j \in 0..n - 1 : h[j + 1] = g[h[j]]
    BY <2>1
  <2> DEFINE q == [j \in 0..n + 1 |-> IF j = n + 1 THEN g[h[n]] ELSE h[j]]
  <2>3. q \in [0..n + 1 -> D]
    BY <2>2
  <2>4. q[0] = k
    BY <2>2
  <2>5. ASSUME NEW j \in 0..(n + 1) - 1 PROVE q[j + 1] = g[q[j]]
    <3>1. CASE j = n
      BY <2>2, <3>1
    <3>2. CASE j # n
      <4>1. j \in 0..n - 1 /\ j + 1 \in 0..n /\ j + 1 # n + 1 /\ j # n + 1
        BY <3>2
      <4> QED
        BY <2>2, <4>1
    <3> QED
      BY <3>1, <3>2
  <2>6. q \in P(n + 1)
    BY <2>3, <2>4, <2>5
  <2>7. n + 1 \in Nat
    OBVIOUS
  <2> HIDE DEF P, q
  <2> QED
    BY <2>6, <2>7
<1>3. \A n \in Nat : P(n) # {}
  <2> HIDE DEF P
  <2>1. \A n \in Nat : n \in S
    BY <1>1, <1>2, AllNumbers
  <2> QED
    BY <2>1
<1>4. ASSUME NEW n \in Nat, NEW m \in Nat, NEW h \in P(n), NEW q \in P(m)
      PROVE  \A j \in Nat : j <= n /\ j <= m => h[j] = q[j]
  <2> DEFINE T == {j \in Nat : j <= n /\ j <= m => h[j] = q[j]}
  <2>1. 0 \in T
    OBVIOUS
  <2>2. ASSUME NEW j \in Nat, j \in T, j + 1 <= n, j + 1 <= m PROVE h[j + 1] = q[j + 1]
    <3>1. j \in 0..n - 1 /\ j \in 0..m - 1
      BY <2>2
    <3>2. h[j] = q[j]
      BY <2>2
    <3> QED
      BY <3>1, <3>2
  <2>3. \A j \in Nat : j \in T => j + 1 \in T
    BY <2>2
  <2>4. \A j \in Nat : j \in T
    <3> HIDE DEF T
    <3> QED
      BY <2>1, <2>3, AllNumbers
  <2> QED
    BY <2>4
<1> DEFINE best(n) == CHOOSE h \in P(n) : TRUE
           f == [n \in Nat |-> best(n)[n]]
<1>5. \A n \in Nat : best(n) \in P(n)
  <2> HIDE DEF P
  <2> QED
    BY <1>3
<1>6. ASSUME NEW n \in Nat PROVE best(n)[n] \in D /\ best(n + 1)[n + 1] = g[best(n)[n]]
  <2>1. best(n) \in [0..n -> D]
    BY <1>5
  <2>2. best(n + 1)[n + 1] = g[best(n + 1)[n]]
    <3> DEFINE q == best(n + 1)
    <3>1. n + 1 \in Nat /\ n \in 0..(n + 1) - 1
      OBVIOUS
    <3>2. q \in P(n + 1)
      <4> HIDE DEF P, best
      <4> QED
        BY <1>5, <3>1
    <3> HIDE DEF q
    <3>3. q[n + 1] = g[q[n]]
      BY <3>1, <3>2
    <3> QED
      BY <3>3 DEF q
  <2>3. best(n + 1)[n] = best(n)[n]
    <3>1. n + 1 \in Nat /\ n <= n + 1 /\ n <= n
      OBVIOUS
    <3> HIDE DEF best, P
    <3>2. best(n + 1) \in P(n + 1) /\ best(n) \in P(n)
      BY <1>5, <3>1
    <3> QED
      BY <1>4, <3>1, <3>2
  <2> HIDE DEF best
  <2> QED
    BY <2>1, <2>2, <2>3
<1>7. best(0)[0] = k
  BY <1>5
<1> HIDE DEF best
<1>8. Repeats(f, g, k, D)
  BY <1>6, <1>7 DEF Repeats
<1> QED
  BY <1>8

-----------------------------------------------------------------------------
Positions == 1..MaxCode

(* Code every jump of which has its label, once, and whose last            *)
(* instruction is a return.                                                *)
Sound(c) ==
  /\ c \in [Positions -> Instr]
  /\ c[MaxCode].op = "ret"
  /\ \A l \in Labels : \A p, q \in Places(c, l) : p = q
  /\ \A l \in Labels : JumpsTo(c, l) # {} => Places(c, l) # {}

(* The length of code.                                                     *)
LEMMA CodeLength ==
  ASSUME NEW c \in [Positions -> Instr]
  PROVE  Len(c) = MaxCode /\ DOMAIN c = Positions /\ MaxCode \in Positions
<1>1. MaxCode \in Nat /\ MaxCode > 0
  BY MaxCodePositive
<1>2. c \in Seq(Instr)
  BY <1>1 DEF Positions
<1> QED
  BY <1>1, <1>2 DEF Positions

(* The instructions.                                                       *)
LEMMA InstrKinds ==
  ASSUME NEW i \in Instr
  PROVE  /\ i.op \in {"label", "jmp", "jz", "jnz", "ins", "ret", "nop"}
         /\ i.op \in {"label"} \cup Jumps => i.to \in Labels
         /\ i.op \notin {"label"} \cup Jumps => i.to = NOLABEL
         /\ i = [op |-> i.op, to |-> i.to]
BY DEF Instr, Jumps

(* Where a label is.                                                       *)
PlaceOf(c, l) == CHOOSE p \in Places(c, l) : TRUE

(* The branch at k is taken.                                               *)
Taken(c, k, nu) ==
  \/ c[k].op = "jmp"
  \/ c[k].op = "jz" /\ ~nu[k]
  \/ c[k].op = "jnz" /\ nu[k]

(* Where control goes.                                                     *)
LEMMA GoesWhere ==
  ASSUME NEW c, NEW k, NEW nu
  PROVE  Goes(c, k, nu) = IF Taken(c, k, nu) THEN PlaceOf(c, c[k].to) ELSE k + 1
BY DEF Goes, Taken, PlaceOf

(* Control stays in the code, and where it goes.                           *)
LEMMA GoesTo ==
  ASSUME NEW c, Sound(c), NEW k \in Positions, NEW nu
  PROVE  /\ Taken(c, k, nu) => c[k].op \in Jumps
         /\ c[k].op \in Jumps =>
              /\ c[k].to \in Labels
              /\ PlaceOf(c, c[k].to) \in Places(c, c[k].to)
              /\ PlaceOf(c, c[k].to) \in Positions
              /\ c[PlaceOf(c, c[k].to)] = [op |-> "label", to |-> c[k].to]
         /\ c[k].op # "ret" => k + 1 \in Positions
         /\ k \notin Effects(c) => Goes(c, k, nu) \in Positions
<1>1. c \in [Positions -> Instr] /\ DOMAIN c = Positions /\ c[MaxCode].op = "ret"
  BY CodeLength DEF Sound
<1>2. Goes(c, k, nu) = IF Taken(c, k, nu) THEN PlaceOf(c, c[k].to) ELSE k + 1
  BY GoesWhere
<1>3. Taken(c, k, nu) => c[k].op \in Jumps
  BY DEF Taken, Jumps
<1>4. ASSUME c[k].op \in Jumps
      PROVE  /\ c[k].to \in Labels
             /\ PlaceOf(c, c[k].to) \in Places(c, c[k].to)
             /\ PlaceOf(c, c[k].to) \in Positions
             /\ c[PlaceOf(c, c[k].to)] = [op |-> "label", to |-> c[k].to]
  <2>1. c[k].to \in Labels
    BY <1>1, <1>4, InstrKinds
  <2>2. k \in JumpsTo(c, c[k].to)
    BY <1>1, <1>4 DEF JumpsTo
  <2>3. Places(c, c[k].to) # {}
    BY <2>1, <2>2 DEF Sound
  <2>4. PlaceOf(c, c[k].to) \in Places(c, c[k].to)
    BY <2>3 DEF PlaceOf
  <2> QED
    BY <1>1, <2>1, <2>4 DEF Places
<1>5. c[k].op # "ret" => k + 1 \in Positions
  BY <1>1, MaxCodePositive DEF Positions
<1>6. k \notin Effects(c) => c[k].op # "ret"
  BY <1>1 DEF Effects
<1> QED
  BY <1>2, <1>3, <1>4, <1>5, <1>6

(* The steps of a walk.                                                    *)
LEMMA WalkSteps ==
  ASSUME NEW c, Sound(c), NEW k \in Positions, NEW nu
  PROVE  /\ Walk(c, k, nu) \in [Nat -> Positions]
         /\ Walk(c, k, nu)[0] = k
         /\ \A n \in Nat : Walk(c, k, nu)[n + 1] =
              IF Walk(c, k, nu)[n] \in Effects(c) THEN Walk(c, k, nu)[n]
              ELSE Goes(c, Walk(c, k, nu)[n], nu)
<1> DEFINE g == [p \in Positions |-> IF p \in Effects(c) THEN p ELSE Goes(c, p, nu)]
           Obeys(f) == f = [n \in Nat |-> IF n = 0 THEN k
                                          ELSE LET p == f[n - 1]
                                               IN IF p \in Effects(c) THEN p ELSE Goes(c, p, nu)]
<1>1. g \in [Positions -> Positions]
  BY GoesTo
<1>2. PICK f : Repeats(f, g, k, Positions)
  <2> HIDE DEF g
  <2> QED
    BY <1>1, Iterates
<1>3. Obeys(f)
  <2>1. ASSUME NEW n \in Nat, n # 0
        PROVE  f[n] = IF f[n - 1] \in Effects(c) THEN f[n - 1] ELSE Goes(c, f[n - 1], nu)
    <3>1. n - 1 \in Nat /\ (n - 1) + 1 = n
      BY <2>1
    <3>2. f[n] = g[f[n - 1]] /\ f[n - 1] \in Positions
      BY <1>2, <3>1 DEF Repeats
    <3> QED
      BY <3>2
  <2>2. \A n \in Nat : f[n] = IF n = 0 THEN k
                              ELSE LET p == f[n - 1]
                                   IN IF p \in Effects(c) THEN p ELSE Goes(c, p, nu)
    BY <1>2, <2>1 DEF Repeats
  <2> QED
    BY <1>2, <2>2 DEF Repeats
<1>4. Walk(c, k, nu) = CHOOSE h : Obeys(h)
  BY DEF Walk
<1>5. Obeys(Walk(c, k, nu))
  <2> HIDE DEF Obeys
  <2> QED
    BY <1>3, <1>4
<1> DEFINE w == Walk(c, k, nu)
<1> HIDE DEF w
<1>6. Obeys(w)
  BY <1>5 DEF w
<1>7. w[0] = k
  BY <1>6
<1>8. ASSUME NEW n \in Nat
      PROVE  w[n + 1] = IF w[n] \in Effects(c) THEN w[n] ELSE Goes(c, w[n], nu)
  <2>1. n + 1 \in Nat /\ n + 1 # 0 /\ (n + 1) - 1 = n
    OBVIOUS
  <2> QED
    BY <1>6, <2>1
<1>9. \A n \in Nat : w[n] \in Positions
  <2> DEFINE T == {n \in Nat : w[n] \in Positions}
  <2>1. 0 \in T
    BY <1>7
  <2>2. ASSUME NEW n \in Nat, n \in T PROVE n + 1 \in T
    <3>1. w[n] \in Positions
      BY <2>2
    <3>2. w[n + 1] = IF w[n] \in Effects(c) THEN w[n] ELSE Goes(c, w[n], nu)
      BY <1>8
    <3>3. w[n] \notin Effects(c) => Goes(c, w[n], nu) \in Positions
      BY <3>1, GoesTo
    <3> QED
      BY <3>1, <3>2, <3>3
  <2>3. \A n \in Nat : n \in T
    <3> HIDE DEF T
    <3> QED
      BY <2>1, <2>2, AllNumbers
  <2> QED
    BY <2>3
<1>10. w \in [Nat -> Positions]
  BY <1>6, <1>9
<1> QED
  BY <1>7, <1>8, <1>10 DEF w

(* What a walk has met it keeps.                                           *)
LEMMA WalkEnds ==
  ASSUME NEW c, Sound(c), NEW k \in Positions, NEW nu,
         NEW n \in Nat, Walk(c, k, nu)[n] \in Effects(c)
  PROVE  \A m \in Nat : Walk(c, k, nu)[n + m] = Walk(c, k, nu)[n]
<1> DEFINE w == Walk(c, k, nu)
           T == {m \in Nat : w[n + m] = w[n]}
<1>1. w[n] \in Effects(c)
  OBVIOUS
<1>2. \A j \in Nat : w[j] \in Effects(c) => w[j + 1] = w[j]
  BY WalkSteps
<1> HIDE DEF w
<1>3. 0 \in T
  OBVIOUS
<1>4. ASSUME NEW m \in Nat, m \in T PROVE m + 1 \in T
  <2>1. n + m \in Nat /\ n + (m + 1) = (n + m) + 1
    OBVIOUS
  <2>2. w[n + m] = w[n]
    BY <1>4
  <2>3. w[(n + m) + 1] = w[n]
    BY <1>1, <1>2, <2>1, <2>2
  <2> QED
    BY <2>1, <2>3
<1>5. \A m \in Nat : m \in T
  <2> HIDE DEF T
  <2> QED
    BY <1>3, <1>4, AllNumbers
<1> QED
  BY <1>5 DEF w

(* The walk from the next position is the rest of the walk.                *)
LEMMA WalkShifts ==
  ASSUME NEW c, Sound(c), NEW k \in Positions, NEW nu, k \notin Effects(c)
  PROVE  \A n \in Nat : Walk(c, Goes(c, k, nu), nu)[n] = Walk(c, k, nu)[n + 1]
<1> DEFINE v == Walk(c, Goes(c, k, nu), nu)
           w == Walk(c, k, nu)
           T == {n \in Nat : v[n] = w[n + 1]}
           On(p) == IF p \in Effects(c) THEN p ELSE Goes(c, p, nu)
<1>1. Goes(c, k, nu) \in Positions
  BY GoesTo
<1>2. w[0] = k /\ \A n \in Nat : w[n + 1] = On(w[n])
  BY WalkSteps
<1>3. v[0] = Goes(c, k, nu) /\ \A n \in Nat : v[n + 1] = On(v[n])
  BY <1>1, WalkSteps
<1>4. On(k) = Goes(c, k, nu)
  OBVIOUS
<1> HIDE DEF v, w, On
<1>5. 0 \in T
  BY <1>2, <1>3, <1>4
<1>6. ASSUME NEW n \in Nat, n \in T PROVE n + 1 \in T
  <2>1. v[n] = w[n + 1] /\ n + 1 \in Nat
    BY <1>6
  <2>2. v[n + 1] = On(v[n]) /\ w[(n + 1) + 1] = On(w[n + 1])
    BY <1>2, <1>3, <2>1
  <2> QED
    BY <2>1, <2>2
<1>7. \A n \in Nat : n \in T
  <2> HIDE DEF T
  <2> QED
    BY <1>5, <1>6, AllNumbers
<1> QED
  BY <1>7 DEF v, w

(* A walk that comes to an instruction with an effect does so in as many   *)
(* steps as there are instructions.                                        *)
LEMMA WalkLongEnough ==
  ASSUME NEW c, Sound(c), NEW k \in Positions, NEW nu,
         Walk(c, k, nu)[MaxCode + 1] \in Effects(c)
  PROVE  Walk(c, k, nu)[MaxCode] \in Effects(c)
<1> SUFFICES ASSUME Walk(c, k, nu)[MaxCode] \notin Effects(c) PROVE FALSE
  OBVIOUS
<1> DEFINE w == Walk(c, k, nu)
           h == [n \in 0..MaxCode |-> w[n]]
<1>1. MaxCode \in Nat
  BY MaxCodePositive
<1>2. ASSUME NEW n \in 0..MaxCode PROVE w[n] \notin Effects(c)
  <2>1. SUFFICES ASSUME w[n] \in Effects(c) PROVE FALSE
    OBVIOUS
  <2>2. n \in Nat /\ MaxCode - n \in Nat /\ n + (MaxCode - n) = MaxCode
    BY <1>1
  <2>3. \A m \in Nat : w[n + m] = w[n]
    BY <2>1, <2>2, WalkEnds
  <2>4. w[MaxCode] = w[n]
    BY <2>2, <2>3
  <2> QED
    BY <2>1, <2>4
<1>3. w \in [Nat -> Positions] /\ \A n \in Nat : w[n] \notin Effects(c) => w[n + 1] = Goes(c, w[n], nu)
  BY WalkSteps
<1>4. \A n \in Nat : w[n] \in Effects(c) => w[n + 1] = w[n]
  BY WalkSteps
<1>5. w[MaxCode + 1] \in Effects(c)
  OBVIOUS
<1> HIDE DEF w
<1>6. PICK x, y \in 0..MaxCode : x # y /\ h[x] = h[y]
  <2>1. h \in [0..MaxCode -> Positions]
    BY <1>1, <1>3
  <2>2. IsFiniteSet(0..MaxCode) /\ Cardinality(0..MaxCode) = MaxCode + 1
    BY <1>1, FS_Interval
  <2>3. IsFiniteSet(Positions) /\ Cardinality(Positions) = MaxCode
    BY <1>1, MaxCodePositive, FS_Interval DEF Positions
  <2>4. Cardinality(Positions) < Cardinality(0..MaxCode)
    BY <1>1, <2>2, <2>3
  <2> DEFINE I == 0..MaxCode
  <2>5. h \in [I -> Positions] /\ IsFiniteSet(I) /\ Cardinality(Positions) < Cardinality(I)
    BY <2>1, <2>2, <2>4
  <2> HIDE DEF h, I
  <2>6. \E x, y \in I : x # y /\ h[x] = h[y]
    BY <2>3, <2>5, FS_PigeonHole
  <2> QED
    BY <2>6 DEF I
<1>7. PICK i \in 0..MaxCode, j \in 0..MaxCode : i < j /\ w[i] = w[j]
  BY <1>1, <1>6
<1> DEFINE T == {m \in Nat : w[i + m] = w[j + m]}
<1>8. 0 \in T
  BY <1>1, <1>7
<1>9. ASSUME NEW m \in Nat, m \in T PROVE m + 1 \in T
  <2>1. /\ i + m \in Nat /\ j + m \in Nat
        /\ i + (m + 1) = (i + m) + 1 /\ j + (m + 1) = (j + m) + 1
    OBVIOUS
  <2>2. w[i + m] = w[j + m]
    BY <1>9
  <2>3. w[(i + m) + 1] = w[(j + m) + 1]
    BY <1>3, <1>4, <2>1, <2>2
  <2> QED
    BY <2>1, <2>3
<1>10. \A m \in Nat : m \in T
  <2> HIDE DEF T
  <2> QED
    BY <1>8, <1>9, AllNumbers
<1>11. /\ (MaxCode + 1) - j \in Nat /\ j + ((MaxCode + 1) - j) = MaxCode + 1
       /\ i + ((MaxCode + 1) - j) \in 0..MaxCode
  BY <1>1, <1>7
<1>12. w[i + ((MaxCode + 1) - j)] = w[MaxCode + 1]
  BY <1>10, <1>11
<1> QED
  BY <1>2, <1>5, <1>11, <1>12

(* Where a walk leads is where the walk from its next position leads.      *)
LEMMA NextEffectSteps ==
  ASSUME NEW c, Sound(c), NEW nu
  PROVE  /\ \A k \in Positions : NextEffect(c, k, nu) \in Effects(c) \cup {0}
         /\ \A k \in Effects(c) : k \in Positions /\ NextEffect(c, k, nu) = k
         /\ \A k \in Positions \ Effects(c) :
              NextEffect(c, k, nu) = NextEffect(c, Goes(c, k, nu), nu)
<1>1. Len(c) = MaxCode /\ MaxCode \in Nat /\ DOMAIN c = Positions
  BY CodeLength, MaxCodePositive DEF Sound
<1>2. \A k : NextEffect(c, k, nu) =
        IF Walk(c, k, nu)[MaxCode] \in Effects(c) THEN Walk(c, k, nu)[MaxCode] ELSE 0
  BY <1>1 DEF NextEffect
<1>3. ASSUME NEW k \in Effects(c) PROVE k \in Positions /\ NextEffect(c, k, nu) = k
  <2>1. k \in Positions
    BY <1>1 DEF Effects
  <2>2. Walk(c, k, nu)[0] = k
    BY <2>1, WalkSteps
  <2>3. \A m \in Nat : Walk(c, k, nu)[0 + m] = Walk(c, k, nu)[0]
    BY <2>1, <2>2, WalkEnds
  <2>4. 0 + MaxCode = MaxCode
    BY <1>1
  <2>5. Walk(c, k, nu)[MaxCode] = k
    BY <1>1, <2>2, <2>3, <2>4
  <2> QED
    BY <1>2, <2>1, <2>5
<1>4. ASSUME NEW k \in Positions \ Effects(c)
      PROVE  NextEffect(c, k, nu) = NextEffect(c, Goes(c, k, nu), nu)
  <2> DEFINE w == Walk(c, k, nu)
             v == Walk(c, Goes(c, k, nu), nu)
  <2>1. v[MaxCode] = w[MaxCode + 1]
    BY <1>1, WalkShifts
  <2>2. CASE w[MaxCode] \in Effects(c)
    <3>1. w[MaxCode + 1] = w[MaxCode]
      BY <1>1, <2>2, WalkSteps
    <3> QED
      BY <1>2, <2>1, <2>2, <3>1
  <2>3. CASE w[MaxCode] \notin Effects(c)
    <3>1. w[MaxCode + 1] \notin Effects(c)
      BY <2>3, WalkLongEnough
    <3> QED
      BY <1>2, <2>1, <2>3, <3>1
  <2> QED
    BY <2>2, <2>3
<1> QED
  BY <1>2, <1>3, <1>4

(* A value that is carried along every step of the code, and that an       *)
(* instruction with an effect gives to itself, is where control leads.     *)
LEMMA CarriedValue ==
  ASSUME NEW c, Sound(c), NEW nu, NEW R \in SUBSET Positions, NEW V,
         \A k \in R \cap Effects(c) : V[k] = k,
         \A k \in R \ Effects(c) : Goes(c, k, nu) \in R /\ V[k] = V[Goes(c, k, nu)]
  PROVE  \A k \in R : NextEffect(c, k, nu) # 0 => V[k] = NextEffect(c, k, nu)
<1> SUFFICES ASSUME NEW k \in R, NextEffect(c, k, nu) # 0 PROVE V[k] = NextEffect(c, k, nu)
  OBVIOUS
<1> DEFINE w == Walk(c, k, nu)
           T == {n \in Nat : w[n] \in R /\ V[k] = V[w[n]]}
<1>1. Len(c) = MaxCode /\ MaxCode \in Nat
  BY CodeLength, MaxCodePositive DEF Sound
<1>2. w[0] = k /\ \A n \in Nat : w[n + 1] = IF w[n] \in Effects(c) THEN w[n] ELSE Goes(c, w[n], nu)
  BY WalkSteps
<1>3. w[MaxCode] \in Effects(c) /\ NextEffect(c, k, nu) = w[MaxCode]
  BY <1>1 DEF NextEffect
<1> HIDE DEF w
<1>4. 0 \in T
  BY <1>2
<1>5. ASSUME NEW n \in Nat, n \in T PROVE n + 1 \in T
  <2>1. w[n] \in R /\ V[k] = V[w[n]]
    BY <1>5
  <2>2. w[n + 1] \in R /\ V[k] = V[w[n + 1]]
    BY <1>2, <2>1
  <2> QED
    BY <2>2
<1>6. \A n \in Nat : n \in T
  <2> HIDE DEF T
  <2> QED
    BY <1>4, <1>5, AllNumbers
<1> QED
  BY <1>1, <1>3, <1>6

(* The conditions are known wherever the code branches.                    *)
Decided(c, nu) == \A k \in Branches(c) : nu[k] \in BOOLEAN

(* Where the execution of c may go on: at its start, and after an          *)
(* instruction that does something.                                        *)
Resumes(c) == {0} \cup {k \in DOMAIN c : c[k].op = "ins"}

(* From wherever d may go on, d executes what c executes.                  *)
SameFlow(c, d) ==
  /\ Resumes(d) \subseteq Resumes(c)
  /\ Branches(d) \subseteq Branches(c)
  /\ \A p \in Resumes(d) : \A nu : Decided(c, nu) =>
       NextEffect(d, p + 1, nu) = NextEffect(c, p + 1, nu)

(* Two codes lead to the same effects from everywhere in R when the        *)
(* effects of either are carried along the steps of the other.             *)
LEMMA LeadAlike ==
  ASSUME NEW c, Sound(c), NEW d, Sound(d), NEW nu, NEW R \in SUBSET Positions,
         R \cap Effects(c) = R \cap Effects(d),
         \A k \in R \ Effects(c) : Goes(c, k, nu) \in R /\ Goes(d, k, nu) \in R,
         NEW V, NEW W,
         \A k \in R \cap Effects(c) : V[k] = k /\ W[k] = k,
         \A k \in R \ Effects(c) : V[k] = V[Goes(c, k, nu)] /\ W[k] = W[Goes(d, k, nu)],
         NEW k \in R, V[k] = NextEffect(d, k, nu), W[k] = NextEffect(c, k, nu)
  PROVE  NextEffect(d, k, nu) = NextEffect(c, k, nu)
<1>1. NextEffect(c, k, nu) # 0 => V[k] = NextEffect(c, k, nu)
  BY CarriedValue
<1>2. NextEffect(d, k, nu) # 0 => W[k] = NextEffect(d, k, nu)
  BY CarriedValue
<1> QED
  BY <1>1, <1>2

(* Code that does the same is the same.                                    *)
LEMMA FlowComposes ==
  ASSUME NEW c, NEW d, NEW e, SameFlow(c, d), SameFlow(d, e)
  PROVE  SameFlow(c, e)
<1>1. \A nu : Decided(c, nu) => Decided(d, nu)
  BY DEF SameFlow, Decided
<1> QED
  BY <1>1 DEF SameFlow

(* Labels and what was taken out do nothing.                               *)
LEMMA GoesOn ==
  ASSUME NEW c, Sound(c), NEW nu, NEW k \in Positions, c[k].op \in {"nop", "label"}
  PROVE  k \notin Effects(c) /\ Goes(c, k, nu) = k + 1 /\ k + 1 \in Positions
<1>1. c[k].op \notin {"ins", "ret", "jmp", "jz", "jnz"}
  OBVIOUS
<1>2. k \notin Effects(c)
  BY <1>1 DEF Effects
<1>3. ~Taken(c, k, nu)
  BY <1>1 DEF Taken
<1>4. Goes(c, k, nu) = k + 1
  <2>1. Goes(c, k, nu) = IF Taken(c, k, nu) THEN PlaceOf(c, c[k].to) ELSE k + 1
    BY GoesWhere
  <2> QED
    BY <1>3, <2>1
<1>5. k + 1 \in Positions
  BY <1>1, GoesTo
<1> QED
  BY <1>2, <1>4, <1>5

(* Control passes over labels and over what was taken out.                 *)
LEMMA PassesOver ==
  ASSUME NEW c, Sound(c), NEW nu, NEW a \in Positions, NEW b \in Positions, a <= b,
         \A j \in a..b - 1 : c[j].op \in {"nop", "label"}
  PROVE  NextEffect(c, a, nu) = NextEffect(c, b, nu)
<1> DEFINE T == {n \in Nat : a + n <= b => NextEffect(c, a, nu) = NextEffect(c, a + n, nu)}
<1>0. a \in Nat /\ b \in Nat /\ MaxCode \in Nat /\ Positions = 1..MaxCode
  BY MaxCodePositive DEF Positions
<1>1. 0 \in T
  BY <1>0
<1>2. ASSUME NEW n \in Nat, n \in T, a + (n + 1) <= b
      PROVE  NextEffect(c, a, nu) = NextEffect(c, a + (n + 1), nu)
  <2>1. a + n \in Positions /\ a + n \in a..b - 1 /\ (a + n) + 1 = a + (n + 1)
    BY <1>0, <1>2
  <2>2. NextEffect(c, a, nu) = NextEffect(c, a + n, nu)
    BY <1>0, <1>2
  <2>3. c[a + n].op \in {"nop", "label"}
    BY <2>1
  <2>4. a + n \notin Effects(c) /\ Goes(c, a + n, nu) = (a + n) + 1
    BY <2>1, <2>3, GoesOn
  <2>5. NextEffect(c, a + n, nu) = NextEffect(c, (a + n) + 1, nu)
    BY <2>1, <2>4, NextEffectSteps
  <2> QED
    BY <2>1, <2>2, <2>5
<1>3. \A n \in Nat : n \in T => n + 1 \in T
  BY <1>2
<1>4. \A n \in Nat : n \in T
  <2> HIDE DEF T
  <2> QED
    BY <1>1, <1>3, AllNumbers
<1>5. b - a \in Nat /\ a + (b - a) = b
  BY <1>0
<1> QED
  BY <1>0, <1>4, <1>5

-----------------------------------------------------------------------------
(* d is sound and has v at i where c had something else.                   *)
Edited(c, d, i, v) ==
  /\ Sound(d) /\ d[i] = v
  /\ \A k \in Positions \ {i} : d[k] = c[k]
  /\ \A l \in Labels : Places(d, l) = Places(c, l) \ {i}
  /\ \A l \in Labels : JumpsTo(d, l) =
       (JumpsTo(c, l) \ {i}) \cup (IF v.op \in Jumps /\ v.to = l THEN {i} ELSE {})

(* Another instruction is put at one place: which labels and jumps there   *)
(* are then.                                                               *)
LEMMA SoundEdit ==
  ASSUME NEW c, Sound(c), NEW i \in Positions, NEW v \in Instr,
         c[i].op # "ret", v.op # "label",
         v.op \in Jumps => c[i].op # "label" /\ Places(c, v.to) # {},
         c[i].op = "label" => JumpsTo(c, c[i].to) = {},
         NEW d, d = [c EXCEPT ![i] = v]
  PROVE  Edited(c, d, i, v)
<1>1. c \in [Positions -> Instr] /\ DOMAIN c = Positions /\ MaxCode \in Positions
  BY CodeLength DEF Sound
<1>2. /\ d \in [Positions -> Instr] /\ d[i] = v /\ DOMAIN d = Positions
      /\ \A k \in Positions \ {i} : d[k] = c[k]
  BY <1>1
<1>3. d[MaxCode].op = "ret"
  BY <1>1, <1>2 DEF Sound
<1>4. ASSUME NEW l \in Labels PROVE Places(d, l) = Places(c, l) \ {i}
  <2>1. v # [op |-> "label", to |-> l]
    OBVIOUS
  <2> QED
    BY <1>1, <1>2, <2>1 DEF Places
<1>5. ASSUME NEW l \in Labels
      PROVE  JumpsTo(d, l) =
               (JumpsTo(c, l) \ {i}) \cup (IF v.op \in Jumps /\ v.to = l THEN {i} ELSE {})
  BY <1>1, <1>2 DEF JumpsTo
<1>6. ASSUME NEW l \in Labels, JumpsTo(d, l) # {} PROVE Places(d, l) # {}
  <2>1. Places(d, l) = Places(c, l) \ {i}
    BY <1>4
  <2>2. CASE v.op \in Jumps /\ v.to = l
    <3>1. i \notin Places(c, l) /\ Places(c, l) # {}
      BY <2>2 DEF Places
    <3> QED
      BY <2>1, <3>1
  <2>3. CASE ~(v.op \in Jumps /\ v.to = l)
    <3>1. JumpsTo(d, l) = JumpsTo(c, l) \ {i}
      BY <1>5, <2>3
    <3>2. JumpsTo(c, l) # {}
      BY <1>6, <3>1
    <3>3. Places(c, l) # {}
      BY <3>2 DEF Sound
    <3>4. i \notin Places(c, l)
      <4>1. SUFFICES ASSUME i \in Places(c, l) PROVE FALSE
        OBVIOUS
      <4>2. c[i].op = "label" /\ c[i].to = l
        BY <4>1 DEF Places
      <4> QED
        BY <3>2, <4>2
    <3> QED
      BY <2>1, <3>3, <3>4
  <2> QED
    BY <2>2, <2>3
<1>7. \A l \in Labels : \A p, q \in Places(d, l) : p = q
  BY <1>4 DEF Sound
<1>8. Sound(d)
  BY <1>2, <1>3, <1>6, <1>7 DEF Sound
<1> QED
  BY <1>2, <1>4, <1>5, <1>8 DEF Edited

(* d is sound and has nothing at i where c had an instruction.             *)
Without(c, d, i) ==
  /\ Sound(d) /\ d[i] = Nop /\ Nop.op = "nop"
  /\ \A k \in Positions \ {i} : d[k] = c[k]
  /\ \A l \in Labels : Places(d, l) = Places(c, l) \ {i}
  /\ \A l \in Labels : JumpsTo(d, l) = JumpsTo(c, l) \ {i}

(* An instruction is taken out.                                            *)
LEMMA TakenOut ==
  ASSUME NEW c, Sound(c), NEW i \in Positions, c[i].op # "ret",
         c[i].op = "label" => JumpsTo(c, c[i].to) = {},
         NEW d, d = [c EXCEPT ![i] = Nop]
  PROVE  Without(c, d, i)
<1> DEFINE v == Nop
<1>1. v \in Instr /\ v.op = "nop" /\ v.op \notin Jumps /\ v.op # "label"
  BY DEF Nop, Instr, Jumps
<1> HIDE DEF v
<1>0. /\ Sound(c) /\ c[i].op # "ret" /\ v.op # "label"
      /\ v.op \in Jumps => c[i].op # "label" /\ Places(c, v.to) # {}
      /\ c[i].op = "label" => JumpsTo(c, c[i].to) = {}
      /\ d = [c EXCEPT ![i] = v]
  BY <1>1 DEF v
<1>2. Edited(c, d, i, v)
  BY <1>0, <1>1, SoundEdit
<1>3. \A l \in Labels : JumpsTo(d, l) = JumpsTo(c, l) \ {i}
  BY <1>1, <1>2 DEF Edited
<1> QED
  BY <1>1, <1>2, <1>3 DEF v, Edited, Without

(* An instruction leads where it led while its label stays.                *)
LEMMA SameGoes ==
  ASSUME NEW c, Sound(c), NEW d, Sound(d), NEW k \in Positions, d[k] = c[k], NEW nu,
         \A l \in Labels : k \in JumpsTo(c, l) => Places(d, l) = Places(c, l)
  PROVE  Goes(d, k, nu) = Goes(c, k, nu)
<1>1. Taken(d, k, nu) = Taken(c, k, nu)
  BY DEF Taken
<1>2. ASSUME Taken(c, k, nu) PROVE PlaceOf(d, d[k].to) = PlaceOf(c, c[k].to)
  <2>1. c[k].op \in Jumps /\ c[k].to \in Labels /\ DOMAIN c = Positions
    BY <1>2, GoesTo, CodeLength DEF Sound
  <2>2. k \in JumpsTo(c, c[k].to)
    BY <2>1 DEF JumpsTo
  <2> QED
    BY <2>1, <2>2 DEF PlaceOf
<1>3. Goes(c, k, nu) = IF Taken(c, k, nu) THEN PlaceOf(c, c[k].to) ELSE k + 1
  BY GoesWhere
<1>4. Goes(d, k, nu) = IF Taken(d, k, nu) THEN PlaceOf(d, d[k].to) ELSE k + 1
  BY GoesWhere
<1> QED
  BY <1>1, <1>2, <1>3, <1>4

(* An instruction without an effect is changed into another, and either    *)
(* code leads from it to the same effect whichever of the two it follows.  *)
LEMMA FlowOfEdit ==
  ASSUME NEW c, Sound(c), NEW d, Sound(d), NEW i \in Positions,
         c[i].op \notin {"ins", "ret"}, d[i].op \notin {"ins", "ret"},
         d[i].op \in {"jz", "jnz"} => c[i].op \in {"jz", "jnz"},
         \A k \in Positions \ {i} : d[k] = c[k],
         \A l \in Labels : JumpsTo(c, l) \ {i} # {} => Places(d, l) = Places(c, l),
         \A nu : Decided(c, nu) =>
           /\ NextEffect(d, i, nu) = NextEffect(d, Goes(c, i, nu), nu)
           /\ NextEffect(c, i, nu) = NextEffect(c, Goes(d, i, nu), nu)
  PROVE  SameFlow(c, d)
<1>1. DOMAIN c = Positions /\ DOMAIN d = Positions
  BY CodeLength DEF Sound
<1>2. Effects(d) = Effects(c) /\ i \notin Effects(c)
  BY <1>1 DEF Effects
<1>3. Branches(d) \subseteq Branches(c)
  BY <1>1 DEF Branches
<1>4. Resumes(d) = Resumes(c)
  BY <1>1 DEF Resumes
<1>5. ASSUME NEW nu, Decided(c, nu), NEW k \in Positions
      PROVE  NextEffect(d, k, nu) = NextEffect(c, k, nu)
  <2> DEFINE V == [x \in Positions |-> NextEffect(d, x, nu)]
             W == [x \in Positions |-> NextEffect(c, x, nu)]
  <2>1. \A x \in Positions \ Effects(c) : Goes(c, x, nu) \in Positions /\ Goes(d, x, nu) \in Positions
    BY <1>2, GoesTo
  <2>2. \A x \in Effects(c) : V[x] = x /\ W[x] = x
    BY <1>2, NextEffectSteps
  <2>3. ASSUME NEW x \in Positions \ Effects(c)
        PROVE  /\ NextEffect(d, x, nu) = NextEffect(d, Goes(c, x, nu), nu)
               /\ NextEffect(c, x, nu) = NextEffect(c, Goes(d, x, nu), nu)
    <3>1. CASE x = i
      BY <1>5, <3>1
    <3>2. CASE x # i
      <4>1. d[x] = c[x]
        BY <3>2
      <4>2. \A l \in Labels : x \in JumpsTo(c, l) => Places(d, l) = Places(c, l)
        BY <3>2
      <4>3. Goes(d, x, nu) = Goes(c, x, nu)
        BY <4>1, <4>2, SameGoes
      <4> QED
        BY <1>2, <4>3, NextEffectSteps
    <3> QED
      BY <3>1, <3>2
  <2>4. \A x \in Positions \ Effects(c) : V[x] = V[Goes(c, x, nu)] /\ W[x] = W[Goes(d, x, nu)]
    BY <2>1, <2>3
  <2>5. V[k] = NextEffect(d, k, nu) /\ W[k] = NextEffect(c, k, nu)
    OBVIOUS
  <2> HIDE DEF V, W
  <2>6. /\ Positions \in SUBSET Positions
        /\ Positions \cap Effects(c) = Positions \cap Effects(d)
        /\ \A x \in Positions \cap Effects(c) : V[x] = x /\ W[x] = x
    BY <1>2, <2>2
  <2> QED
    BY <2>1, <2>4, <2>5, <2>6, LeadAlike
<1>6. ASSUME NEW p \in Resumes(d) PROVE p + 1 \in Positions
  <2>1. 0 + 1 \in Positions
    BY MaxCodePositive DEF Positions
  <2>2. ASSUME NEW k \in Positions, d[k].op = "ins" PROVE k + 1 \in Positions
    BY <2>2, GoesTo
  <2> QED
    BY <1>1, <2>1, <2>2 DEF Resumes
<1> QED
  BY <1>3, <1>4, <1>5, <1>6 DEF SameFlow

(* Code is the same as itself.                                             *)
LEMMA FlowOfNothing ==
  ASSUME NEW c
  PROVE  SameFlow(c, c)
BY DEF SameFlow

(* What opt_jumps works on: the code, and the exact counts of its labels.  *)
Exact(st) == st = [c |-> st.c, refs |-> Counted(st.c)] /\ Sound(st.c)

(* A jump is one of the jumps to one label only.                           *)
LEMMA OneTarget ==
  ASSUME NEW c, Sound(c), NEW i \in Positions, c[i].op \in Jumps
  PROVE  /\ c[i].to \in Labels /\ i \in JumpsTo(c, c[i].to)
         /\ \A l \in Labels : i \in JumpsTo(c, l) => l = c[i].to
         /\ \A l \in Labels : i \notin Places(c, l)
         /\ \A l \in Labels : IsFiniteSet(JumpsTo(c, l)) /\ Cardinality(JumpsTo(c, l)) \in Nat
<1>1. c[i].to \in Labels /\ DOMAIN c = Positions
  BY GoesTo, CodeLength DEF Sound
<1>2. i \in JumpsTo(c, c[i].to) /\ \A l \in Labels : i \in JumpsTo(c, l) => l = c[i].to
  BY <1>1 DEF JumpsTo
<1>3. ASSUME NEW l \in Labels PROVE i \notin Places(c, l)
  <2>1. c[i].op # "label"
    BY DEF Jumps
  <2> QED
    BY <2>1 DEF Places
<1>4. ASSUME NEW l \in Labels
      PROVE  IsFiniteSet(JumpsTo(c, l)) /\ Cardinality(JumpsTo(c, l)) \in Nat
  <2>1. IsFiniteSet(Positions)
    BY MaxCodePositive, FS_Interval DEF Positions
  <2>2. JumpsTo(c, l) \in SUBSET Positions
    BY <1>1 DEF JumpsTo
  <2>3. IsFiniteSet(JumpsTo(c, l))
    BY <2>1, <2>2, FS_Subset
  <2> QED
    BY <2>3, FS_CardinalityType
<1> QED
  BY <1>1, <1>2, <1>3, <1>4

(* A jump that is taken out counts one less for its label.                 *)
LEMMA CountedDown ==
  ASSUME NEW c, Sound(c), NEW i \in Positions, c[i].op \in Jumps, NEW d,
         \A l \in Labels : JumpsTo(d, l) = JumpsTo(c, l) \ {i}
  PROVE  Counted(d) = [Counted(c) EXCEPT ![c[i].to] = @ - 1]
<1>1. ASSUME NEW l \in Labels
      PROVE  Cardinality(JumpsTo(d, l)) =
               IF l = c[i].to THEN Cardinality(JumpsTo(c, l)) - 1 ELSE Cardinality(JumpsTo(c, l))
  <2>1. CASE l = c[i].to
    <3>1. i \in JumpsTo(c, l) /\ IsFiniteSet(JumpsTo(c, l))
      BY <2>1, OneTarget
    <3>2. Cardinality(JumpsTo(c, l) \ {i}) = Cardinality(JumpsTo(c, l)) - 1
      BY <3>1, FS_RemoveElement
    <3> QED
      BY <2>1, <3>2
  <2>2. CASE l # c[i].to
    <3>1. JumpsTo(c, l) \ {i} = JumpsTo(c, l)
      BY <2>2, OneTarget
    <3> QED
      BY <2>2, <3>1
  <2> QED
    BY <2>1, <2>2
<1> QED
  BY <1>1 DEF Counted

(* A jump that is redirected counts for its new label.                     *)
LEMMA CountedOver ==
  ASSUME NEW c, Sound(c), NEW i \in Positions, c[i].op \in Jumps, NEW d,
         NEW m \in Labels, m # c[i].to,
         JumpsTo(d, m) = JumpsTo(c, m) \cup {i},
         \A l \in Labels \ {m} : JumpsTo(d, l) = JumpsTo(c, l) \ {i}
  PROVE  Counted(d) = [Counted(c) EXCEPT ![c[i].to] = @ - 1, ![m] = @ + 1]
<1>1. ASSUME NEW l \in Labels
      PROVE  Cardinality(JumpsTo(d, l)) =
               IF l = c[i].to THEN Cardinality(JumpsTo(c, l)) - 1
               ELSE IF l = m THEN Cardinality(JumpsTo(c, l)) + 1
               ELSE Cardinality(JumpsTo(c, l))
  <2>1. CASE l = c[i].to
    <3>1. i \in JumpsTo(c, l) /\ IsFiniteSet(JumpsTo(c, l))
      BY <2>1, OneTarget
    <3>2. Cardinality(JumpsTo(c, l) \ {i}) = Cardinality(JumpsTo(c, l)) - 1
      BY <3>1, FS_RemoveElement
    <3>3. JumpsTo(d, l) = JumpsTo(c, l) \ {i}
      BY <2>1
    <3> QED
      BY <2>1, <3>2, <3>3
  <2>2. CASE l # c[i].to
    <3>1. JumpsTo(c, l) \ {i} = JumpsTo(c, l) /\ i \notin JumpsTo(c, l) /\ IsFiniteSet(JumpsTo(c, l))
      BY <2>2, OneTarget
    <3>2. Cardinality(JumpsTo(c, l) \cup {i}) = Cardinality(JumpsTo(c, l)) + 1
      BY <3>1, FS_AddElement
    <3> QED
      BY <2>2, <3>1, <3>2
  <2> QED
    BY <2>1, <2>2
<1>2. c[i].to \in Labels
  BY OneTarget
<1> QED
  BY <1>1, <1>2 DEF Counted

(* A label nobody jumps to is taken out.                                   *)
LEMMA LabelDropped ==
  ASSUME NEW st, Exact(st), NEW i \in Positions, st.c[i].op = "label", st.refs[st.c[i].to] = 0
  PROVE  Exact([st EXCEPT !.c[i] = Nop]) /\ SameFlow(st.c, [st EXCEPT !.c[i] = Nop].c)
<1> DEFINE c == st.c
           d == [c EXCEPT ![i] = Nop]
<1>1. Sound(c) /\ st = [c |-> c, refs |-> Counted(c)]
  BY DEF Exact
<1>2. [st EXCEPT !.c[i] = Nop] = [c |-> d, refs |-> Counted(c)]
  BY <1>1
<1>3. c[i].to \in Labels /\ c[i] = [op |-> "label", to |-> c[i].to] /\ DOMAIN c = Positions
  BY <1>1, InstrKinds, CodeLength DEF Sound
<1>4. JumpsTo(c, c[i].to) = {}
  <2>1. Cardinality(JumpsTo(c, c[i].to)) = 0
    BY <1>1, <1>3 DEF Counted
  <2>2. IsFiniteSet(Positions)
    BY MaxCodePositive, FS_Interval DEF Positions
  <2>3. JumpsTo(c, c[i].to) \in SUBSET Positions
    BY <1>3 DEF JumpsTo
  <2>4. IsFiniteSet(JumpsTo(c, c[i].to))
    BY <2>2, <2>3, FS_Subset
  <2> QED
    BY <2>1, <2>4, FS_EmptySet
<1>5. Nop \in Instr /\ Nop.op = "nop"
  BY DEF Nop, Instr
<1>6. /\ Sound(d) /\ d[i] = Nop /\ \A k \in Positions \ {i} : d[k] = c[k]
      /\ \A l \in Labels : Places(d, l) = Places(c, l) \ {i}
      /\ \A l \in Labels : JumpsTo(d, l) = JumpsTo(c, l) \ {i}
  <2>1. d = [c EXCEPT ![i] = Nop]
    OBVIOUS
  <2> HIDE DEF d
  <2> QED
    BY <1>1, <1>3, <1>4, <2>1, TakenOut DEF Without
<1> HIDE DEF d
<1>7. \A l \in Labels : JumpsTo(d, l) = JumpsTo(c, l)
  BY <1>3, <1>6 DEF JumpsTo, Jumps
<1>8. Counted(d) = Counted(c)
  BY <1>7 DEF Counted
<1>9. ASSUME NEW l \in Labels, JumpsTo(c, l) \ {i} # {} PROVE Places(d, l) = Places(c, l)
  <2>1. l # c[i].to
    BY <1>4, <1>9
  <2>2. i \notin Places(c, l)
    BY <1>3, <2>1 DEF Places
  <2> QED
    BY <1>6, <2>2
<1>10. ASSUME NEW nu
       PROVE  /\ NextEffect(d, i, nu) = NextEffect(d, Goes(c, i, nu), nu)
              /\ NextEffect(c, i, nu) = NextEffect(c, Goes(d, i, nu), nu)
  <2>1. Goes(c, i, nu) = i + 1 /\ i \notin Effects(c)
    BY <1>1, GoesOn
  <2>2. Goes(d, i, nu) = i + 1 /\ i \notin Effects(d)
    BY <1>5, <1>6, GoesOn
  <2>3. NextEffect(d, i, nu) = NextEffect(d, Goes(d, i, nu), nu)
    BY <1>6, <2>2, NextEffectSteps
  <2>4. NextEffect(c, i, nu) = NextEffect(c, Goes(c, i, nu), nu)
    BY <1>1, <2>1, NextEffectSteps
  <2> QED
    BY <2>1, <2>2, <2>3, <2>4
<1>11. SameFlow(c, d)
  BY <1>1, <1>5, <1>6, <1>9, <1>10, FlowOfEdit
<1> QED
  BY <1>2, <1>6, <1>8, <1>11 DEF Exact

(* A jump that passes over labels only is taken out.                       *)
LEMMA NextJumpDropped ==
  ASSUME NEW st, Exact(st), NEW i \in Positions, st.c[i].op \in Jumps
  PROVE  Exact(NextDropped(st, i)) /\ SameFlow(st.c, NextDropped(st, i).c)
<1> DEFINE c == st.c
           d == [c EXCEPT ![i] = Nop]
           passed == {k \in Places(c, c[i].to) :
                        /\ k > i
                        /\ \A j \in i + 1..k - 1 : c[j].op \in {"nop", "label"}}
<1>1. Sound(c) /\ st = [c |-> c, refs |-> Counted(c)]
  BY DEF Exact
<1>2. CASE passed = {}
  <2>1. NextDropped(st, i) = st
    BY <1>2 DEF NextDropped
  <2> QED
    BY <2>1, FlowOfNothing
<1>3. CASE passed # {}
  <2>1. NextDropped(st, i) = [c |-> d, refs |-> [Counted(c) EXCEPT ![c[i].to] = @ - 1]]
    BY <1>1, <1>3 DEF NextDropped
  <2>2. PICK m \in Places(c, c[i].to) :
          m > i /\ \A j \in i + 1..m - 1 : c[j].op \in {"nop", "label"}
    BY <1>3
  <2>3. /\ c[i].op \notin {"ret", "ins", "label"} /\ DOMAIN c = Positions
        /\ MaxCode \in Nat /\ Positions = 1..MaxCode
    BY <1>1, CodeLength, MaxCodePositive DEF Jumps, Sound, Positions
  <2>4. m \in Positions /\ c[m].op = "label"
    BY <2>2, <2>3 DEF Places
  <2>5. d = [c EXCEPT ![i] = Nop]
    OBVIOUS
  <2> HIDE DEF d, passed
  <2>6. /\ Sound(d) /\ d[i] = Nop /\ Nop.op = "nop"
        /\ \A k \in Positions \ {i} : d[k] = c[k]
        /\ \A l \in Labels : Places(d, l) = Places(c, l) \ {i}
        /\ \A l \in Labels : JumpsTo(d, l) = JumpsTo(c, l) \ {i}
    <3>1. Sound(c) /\ c[i].op # "ret" /\ (c[i].op = "label" => JumpsTo(c, c[i].to) = {})
      BY <1>1, <2>3
    <3> HIDE DEF c
    <3>2. Without(c, d, i)
      BY <2>5, <3>1, TakenOut
    <3> QED
      BY <3>2 DEF Without
  <2>7. Counted(d) = [Counted(c) EXCEPT ![c[i].to] = @ - 1]
    BY <1>1, <2>6, CountedDown
  <2>8. \A l \in Labels : Places(d, l) = Places(c, l)
    <3>1. \A l \in Labels : i \notin Places(c, l)
      BY <1>1, OneTarget
    <3> QED
      BY <2>6, <3>1
  <2>9. ASSUME NEW nu
        PROVE  /\ NextEffect(d, i, nu) = NextEffect(d, Goes(c, i, nu), nu)
               /\ NextEffect(c, i, nu) = NextEffect(c, Goes(d, i, nu), nu)
    <3>1. Goes(d, i, nu) = i + 1 /\ i \notin Effects(d) /\ i + 1 \in Positions
      BY <2>6, GoesOn
    <3>2. NextEffect(d, i, nu) = NextEffect(d, i + 1, nu)
      BY <2>6, <3>1, NextEffectSteps
    <3>3. \A j \in i + 1..m - 1 : j \in Positions \ {i}
      BY <2>3, <2>4
    <3>4. \A j \in i + 1..m - 1 : d[j].op \in {"nop", "label"}
      BY <2>2, <2>6, <3>3
    <3>5. i + 1 <= m
      BY <2>2, <2>3, <2>4
    <3>6. NextEffect(d, i + 1, nu) = NextEffect(d, m, nu)
      BY <2>4, <2>6, <3>1, <3>4, <3>5, PassesOver
    <3>7. NextEffect(c, i + 1, nu) = NextEffect(c, m, nu)
      BY <1>1, <2>2, <2>4, <3>1, <3>5, PassesOver
    <3>8. Goes(c, i, nu) = m \/ Goes(c, i, nu) = i + 1
      <4>1. PlaceOf(c, c[i].to) \in Places(c, c[i].to) /\ c[i].to \in Labels
        BY <1>1, GoesTo
      <4>2. PlaceOf(c, c[i].to) = m
        BY <1>1, <2>2, <4>1 DEF Sound
      <4>3. Goes(c, i, nu) = IF Taken(c, i, nu) THEN PlaceOf(c, c[i].to) ELSE i + 1
        BY GoesWhere
      <4> QED
        BY <4>2, <4>3
    <3>9. NextEffect(c, i, nu) = NextEffect(c, Goes(c, i, nu), nu)
      <4>1. i \notin Effects(c)
        BY <2>3 DEF Effects
      <4> QED
        BY <1>1, <4>1, NextEffectSteps
    <3> QED
      BY <3>1, <3>2, <3>6, <3>7, <3>8, <3>9
  <2>10. SameFlow(c, d)
    BY <1>1, <2>3, <2>6, <2>8, <2>9, FlowOfEdit
  <2> QED
    BY <2>1, <2>6, <2>7, <2>10 DEF Exact
<1> QED
  BY <1>2, <1>3

(* The labels a jump is threaded through stay among those of a set that    *)
(* every hop keeps.                                                        *)
LEMMA HopsIn ==
  ASSUME NEW c, NEW K, NEW l \in K, \A x \in K : Hop(c, x) \in K
  PROVE  \A n \in Nat : Hops(c, l)[n] \in K
<1> DEFINE g == [x \in K |-> Hop(c, x)]
           Obeys(f) == f = [n \in Nat |-> IF n = 0 THEN l ELSE Hop(c, f[n - 1])]
<1>1. g \in [K -> K]
  OBVIOUS
<1>2. PICK f : Repeats(f, g, l, K)
  <2> HIDE DEF g
  <2> QED
    BY <1>1, Iterates
<1>3. Obeys(f)
  <2>1. ASSUME NEW n \in Nat, n # 0 PROVE f[n] = Hop(c, f[n - 1])
    <3>1. n - 1 \in Nat /\ (n - 1) + 1 = n
      BY <2>1
    <3>2. f[n] = g[f[n - 1]] /\ f[n - 1] \in K
      BY <1>2, <3>1 DEF Repeats
    <3> QED
      BY <3>2
  <2>2. \A n \in Nat : f[n] = IF n = 0 THEN l ELSE Hop(c, f[n - 1])
    BY <1>2, <2>1 DEF Repeats
  <2> QED
    BY <1>2, <2>2 DEF Repeats
<1>4. Hops(c, l) = CHOOSE h : Obeys(h)
  BY DEF Hops
<1>5. Obeys(Hops(c, l))
  <2> HIDE DEF Obeys
  <2> QED
    BY <1>3, <1>4
<1> DEFINE h == Hops(c, l)
           T == {n \in Nat : h[n] \in K}
<1> HIDE DEF h
<1>6. Obeys(h)
  BY <1>5 DEF h
<1>7. 0 \in T
  BY <1>6
<1>8. ASSUME NEW n \in Nat, n \in T PROVE n + 1 \in T
  <2>1. n + 1 \in Nat /\ n + 1 # 0 /\ (n + 1) - 1 = n /\ h[n] \in K
    BY <1>8
  <2>2. h[n + 1] = Hop(c, h[n])
    BY <1>6, <2>1
  <2> QED
    BY <2>1, <2>2
<1>9. \A n \in Nat : n \in T
  <2> HIDE DEF T
  <2> QED
    BY <1>7, <1>8, AllNumbers
<1> QED
  BY <1>9 DEF h

(* What d executes from the place where c has the label l.                 *)
LeadsTo(c, d, l, nu) == NextEffect(d, PlaceOf(c, l), nu)

(* In code that differs at a jump at most, a hop keeps the effect that the *)
(* label leads to, unless it goes through that jump.                       *)
LEMMA HopKeeps ==
  ASSUME NEW c, Sound(c), NEW d, Sound(d), NEW i \in Positions,
         c[i].op \in Jumps, d[i].op \in Jumps,
         \A k \in Positions \ {i} : d[k] = c[k],
         \A l \in Labels : Places(d, l) = Places(c, l),
         NEW nu, NEW x \in Labels, Places(c, x) # {}
  PROVE  /\ Hop(c, x) \in Labels /\ Places(c, Hop(c, x)) # {}
         /\ \/ Hop(c, x) = c[i].to
            \/ LeadsTo(c, d, Hop(c, x), nu) = LeadsTo(c, d, x, nu)
<1> DEFINE nx == {k \in DOMAIN c : /\ c[k].op = "jmp" /\ c[k].to # x
                                   /\ \E p \in Places(c, x) : k \in NextInstr(c, p)}
<1>1. Hop(c, x) = IF nx = {} THEN x ELSE c[CHOOSE k \in nx : TRUE].to
  BY DEF Hop
<1> HIDE DEF nx
<1>2. CASE nx = {}
  BY <1>1, <1>2
<1>3. CASE nx # {}
  <2>1. PICK j \in nx : Hop(c, x) = c[j].to
    BY <1>1, <1>3
  <2>2. DOMAIN c = Positions /\ MaxCode \in Nat /\ Positions = 1..MaxCode
    BY CodeLength, MaxCodePositive DEF Sound, Positions
  <2>3. PICK p \in Places(c, x) : j \in NextInstr(c, p)
    BY DEF nx
  <2>4. /\ j \in Positions /\ c[j].op = "jmp" /\ p \in Positions /\ p < j
        /\ c[p].op = "label" /\ \A y \in p + 1..j - 1 : c[y].op \in {"nop", "label"}
    BY <2>2, <2>3 DEF nx, NextInstr, Places
  <2>5. c[j].to \in Labels /\ Places(c, c[j].to) # {}
    BY <2>4, GoesTo DEF Jumps
  <2>6. ASSUME j # i PROVE LeadsTo(c, d, Hop(c, x), nu) = LeadsTo(c, d, x, nu)
    <3>1. p = PlaceOf(c, x)
      BY <2>3 DEF PlaceOf, Sound
    <3>2. ASSUME NEW y \in p..j - 1 PROVE d[y].op \in {"nop", "label"}
      <4>1. y \in Positions
        BY <2>2, <2>4
      <4>2. c[y].op \in {"nop", "label"}
        BY <2>2, <2>4
      <4>3. y # i
        BY <4>2 DEF Jumps
      <4> QED
        BY <4>1, <4>2, <4>3
    <3>3. p <= j
      BY <2>2, <2>4
    <3>4. NextEffect(d, p, nu) = NextEffect(d, j, nu)
      BY <2>4, <3>2, <3>3, PassesOver
    <3>5. d[j] = c[j] /\ d[j].op = "jmp"
      BY <2>4, <2>6
    <3>6. j \notin Effects(d) /\ Taken(d, j, nu)
      BY <3>5 DEF Effects, Taken
    <3>7. NextEffect(d, j, nu) = NextEffect(d, Goes(d, j, nu), nu)
      BY <2>4, <3>6, NextEffectSteps
    <3>8. Goes(d, j, nu) = IF Taken(d, j, nu) THEN PlaceOf(d, d[j].to) ELSE j + 1
      BY GoesWhere
    <3>9. PlaceOf(d, d[j].to) = PlaceOf(c, c[j].to)
      BY <2>5, <3>5 DEF PlaceOf
    <3> QED
      BY <2>1, <3>1, <3>4, <3>6, <3>7, <3>8, <3>9 DEF LeadsTo
  <2> QED
    BY <2>1, <2>5, <2>6
<1> QED
  BY <1>2, <1>3

(* Where a jump is threaded to leads to the effect its label led to.       *)
LEMMA ThreadLeads ==
  ASSUME NEW c, Sound(c), NEW d, Sound(d), NEW i \in Positions,
         c[i].op \in Jumps, d[i].op \in Jumps,
         \A k \in Positions \ {i} : d[k] = c[k],
         \A l \in Labels : Places(d, l) = Places(c, l),
         NEW nu
  PROVE  LET l == Hops(c, c[i].to)[MaxHops]
         IN /\ l \in Labels /\ Places(c, l) # {}
            /\ LeadsTo(c, d, l, nu) = LeadsTo(c, d, c[i].to, nu)
<1> DEFINE K == {x \in Labels : /\ Places(c, x) # {}
                                /\ LeadsTo(c, d, x, nu) = LeadsTo(c, d, c[i].to, nu)}
<1>1. c[i].to \in Labels /\ Places(c, c[i].to) # {}
  BY GoesTo
<1>2. c[i].to \in K
  BY <1>1
<1>3. ASSUME NEW x \in K PROVE Hop(c, x) \in K
  <2>1. x \in Labels /\ Places(c, x) # {} /\ LeadsTo(c, d, x, nu) = LeadsTo(c, d, c[i].to, nu)
    OBVIOUS
  <2>2. /\ Hop(c, x) \in Labels /\ Places(c, Hop(c, x)) # {}
        /\ \/ Hop(c, x) = c[i].to
           \/ LeadsTo(c, d, Hop(c, x), nu) = LeadsTo(c, d, x, nu)
    BY <2>1, HopKeeps
  <2>3. LeadsTo(c, d, Hop(c, x), nu) = LeadsTo(c, d, c[i].to, nu)
    BY <2>1, <2>2
  <2> QED
    BY <2>2, <2>3
<1>4. MaxHops \in Nat
  BY LimitsPositive
<1>5. Hops(c, c[i].to)[MaxHops] \in K
  <2> HIDE DEF K
  <2> QED
    BY <1>2, <1>3, <1>4, HopsIn
<1> QED
  BY <1>5

(* A jump to a jump is redirected.                                         *)
LEMMA JumpThreaded ==
  ASSUME NEW st, Exact(st), NEW i \in Positions, st.c[i].op \in Jumps
  PROVE  /\ Exact(Threaded(st, i)) /\ SameFlow(st.c, Threaded(st, i).c)
         /\ Threaded(st, i).c[i].op = st.c[i].op
<1> DEFINE c == st.c
           l == Hops(c, c[i].to)[MaxHops]
           v == [op |-> c[i].op, to |-> l]
           d == [c EXCEPT ![i] = v]
<1>1. Sound(c) /\ st = [c |-> c, refs |-> Counted(c)]
  BY DEF Exact
<1>2. Threaded(st, i) = Retargeted(st, i, l)
  BY DEF Threaded
<1>3. CASE l = c[i].to
  <2>1. Threaded(st, i) = st
    BY <1>2, <1>3 DEF Retargeted
  <2> QED
    BY <2>1, FlowOfNothing
<1>4. CASE l # c[i].to
  <2>1. l \in Labels /\ Places(c, l) # {}
    <3> HIDE DEF c
    <3> QED
      BY <1>1, ThreadLeads DEF c
  <2>2. c[i] \in Instr /\ c[i] = [op |-> c[i].op, to |-> c[i].to] /\ DOMAIN c = Positions
    BY <1>1, InstrKinds, CodeLength DEF Sound
  <2>3. [c EXCEPT ![i].to = l] = d
    BY <2>2
  <2>4. Threaded(st, i) =
          [c |-> d, refs |-> [Counted(c) EXCEPT ![c[i].to] = @ - 1, ![l] = @ + 1]]
    BY <1>1, <1>2, <1>4, <2>3 DEF Retargeted
  <2> DEFINE m == l
  <2>5. v \in Instr /\ v.op = c[i].op /\ v.to = m
    BY <2>1 DEF Instr, Jumps
  <2>6. d = [c EXCEPT ![i] = v] /\ m = l
    OBVIOUS
  <2> HIDE DEF d, v, m
  <2>7. /\ v.op \in Jumps /\ v.op # "label" /\ c[i].op \notin {"ret", "ins", "label"}
        /\ Places(c, v.to) # {}
    BY <2>1, <2>5, <2>6 DEF Jumps
  <2>8. Edited(c, d, i, v)
    BY <1>1, <2>5, <2>6, <2>7, SoundEdit
  <2>9. Counted(d) = [Counted(c) EXCEPT ![c[i].to] = @ - 1, ![m] = @ + 1]
    <3>1. m \in Labels /\ m # c[i].to
      BY <1>4, <2>1, <2>6
    <3>2. \A x \in Labels \ {m} : JumpsTo(d, x) = JumpsTo(c, x) \ {i}
      BY <2>5, <2>7, <2>8 DEF Edited
    <3>3. JumpsTo(d, m) = JumpsTo(c, m) \cup {i}
      BY <2>5, <2>7, <2>8, <3>1 DEF Edited
    <3> HIDE DEF c
    <3> QED
      BY <1>1, <3>1, <3>2, <3>3, CountedOver
  <2>10. \A x \in Labels : Places(d, x) = Places(c, x)
    <3>1. \A x \in Labels : i \notin Places(c, x)
      BY <1>1, OneTarget
    <3> QED
      BY <2>8, <3>1 DEF Edited
  <2>11. Sound(d) /\ d[i] = v /\ \A k \in Positions \ {i} : d[k] = c[k]
    BY <2>8 DEF Edited
  <2>12. ASSUME NEW nu
         PROVE  /\ NextEffect(d, i, nu) = NextEffect(d, Goes(c, i, nu), nu)
                /\ NextEffect(c, i, nu) = NextEffect(c, Goes(d, i, nu), nu)
    <3>1. LeadsTo(c, d, l, nu) = LeadsTo(c, d, c[i].to, nu)
      BY <1>1, <2>5, <2>7, <2>10, <2>11, ThreadLeads
    <3>2. LeadsTo(c, c, l, nu) = LeadsTo(c, c, c[i].to, nu)
      BY <1>1, ThreadLeads
    <3>3. PlaceOf(d, d[i].to) = PlaceOf(c, l)
      BY <2>1, <2>5, <2>6, <2>10, <2>11 DEF PlaceOf
    <3>4. Taken(d, i, nu) = Taken(c, i, nu)
      BY <2>5, <2>11 DEF Taken
    <3>5. Goes(c, i, nu) = IF Taken(c, i, nu) THEN PlaceOf(c, c[i].to) ELSE i + 1
      BY GoesWhere
    <3>6. Goes(d, i, nu) = IF Taken(c, i, nu) THEN PlaceOf(c, l) ELSE i + 1
      BY <3>3, <3>4, GoesWhere
    <3>7. i \notin Effects(c) /\ i \notin Effects(d)
      BY <2>5, <2>7, <2>11 DEF Effects
    <3>8. NextEffect(d, i, nu) = NextEffect(d, Goes(d, i, nu), nu)
      BY <2>11, <3>7, NextEffectSteps
    <3>9. NextEffect(c, i, nu) = NextEffect(c, Goes(c, i, nu), nu)
      BY <1>1, <3>7, NextEffectSteps
    <3> QED
      BY <3>1, <3>2, <3>5, <3>6, <3>8, <3>9 DEF LeadsTo
  <2>13. SameFlow(c, d)
    BY <1>1, <2>5, <2>7, <2>10, <2>11, <2>12, FlowOfEdit
  <2> QED
    BY <2>4, <2>5, <2>6, <2>9, <2>11, <2>13 DEF Exact
<1> QED
  BY <1>3, <1>4

(* A branch over a jump and its inverse to where the jump led execute the  *)
(* same: what lies between them is entered from the branch only, and stands*)
(* for the target of the jump in the one code and for the label of the     *)
(* branch in the other.                                                    *)
LEMMA FlipFlow ==
  ASSUME NEW c, Sound(c), NEW d, Sound(d),
         NEW i \in Positions, NEW k \in Positions, NEW m \in Positions, i < k, k < m,
         c[i].op \in {"jz", "jnz"}, c[k].op = "jmp", m \in Places(c, c[i].to),
         d[i].op = InverseBranch(c[i].op), d[i].to = c[k].to, d[k].op = "nop",
         \A x \in Positions \ {i, k} : d[x] = c[x],
         \A l \in Labels : Places(d, l) = Places(c, l),
         \A j \in i + 1..k - 1 : c[j].op = "nop",
         \A j \in k + 1..m - 1 : c[j].op = "nop"
  PROVE  SameFlow(c, d)
<1> DEFINE Z == i + 1..k
           pm == PlaceOf(c, c[k].to)
<1>1. /\ DOMAIN c = Positions /\ DOMAIN d = Positions /\ MaxCode \in Nat /\ Positions = 1..MaxCode
      /\ i \in Nat /\ k \in Nat /\ m \in Nat
  BY CodeLength, MaxCodePositive DEF Sound, Positions
<1>2. d[i].op \in {"jz", "jnz"}
  BY DEF InverseBranch
<1>3. c[i].to \in Labels /\ m = PlaceOf(c, c[i].to)
  <2>1. c[i].op \in Jumps
    BY DEF Jumps
  <2>2. c[i].to \in Labels /\ PlaceOf(c, c[i].to) \in Places(c, c[i].to)
    BY <2>1, GoesTo
  <2> QED
    BY <2>2 DEF Sound
<1>4. c[k].to \in Labels /\ pm \in Places(c, c[k].to) /\ pm \in Positions
  BY GoesTo DEF Jumps
<1>5. ASSUME NEW j \in Z PROVE j \in Positions /\ d[j].op = "nop" /\ c[j].op \in {"nop", "jmp"}
  <2>1. j \in Positions /\ (j # k => j \in i + 1..k - 1 /\ j \in Positions \ {i, k})
    BY <1>1
  <2>2. CASE j = k
    BY <2>1, <2>2
  <2>3. CASE j # k
    <3>1. c[j].op = "nop" /\ d[j] = c[j]
      BY <2>1, <2>3
    <3> QED
      BY <2>1, <3>1
  <2> QED
    BY <2>2, <2>3
<1>6. ASSUME NEW j \in k + 1..m - 1
      PROVE  j \in Positions /\ d[j].op = "nop" /\ c[j].op = "nop" /\ d[j] = c[j]
  <2>1. j \in Positions \ {i, k}
    BY <1>1
  <2> QED
    BY <2>1
<1>7. ASSUME NEW l \in Labels, NEW p \in Places(c, l) PROVE p \in Positions /\ p \notin Z
  <2>1. p \in Positions /\ c[p].op = "label"
    BY <1>1 DEF Places
  <2> QED
    BY <1>5, <2>1
<1>8. Effects(d) = Effects(c)
  <2>1. ASSUME NEW x \in Positions PROVE x \in Effects(d) <=> x \in Effects(c)
    BY <1>1, <1>2 DEF Effects
  <2> QED
    BY <1>1, <2>1 DEF Effects
<1>9. /\ i + 1 \in Z /\ i \notin Z /\ m \notin Z /\ pm \notin Z /\ k + 1 \notin Z
      /\ i + 1 \in Positions /\ k + 1 \in Positions
      /\ i + 1 <= k /\ i + 1 <= m /\ k + 1 <= m
  BY <1>1, <1>3, <1>4, <1>7
<1>10. /\ i \notin Effects(c) /\ k \notin Effects(c)
       /\ \A j \in Z : j \notin Effects(c)
  BY <1>5, <1>1 DEF Effects
<1>11. ASSUME NEW x \in Positions \ {i}, x \notin Z, NEW nu
       PROVE  /\ Goes(d, x, nu) = Goes(c, x, nu)
              /\ Goes(c, x, nu) \notin Z
  <2>1. x # k
    BY <1>1, <1>11
  <2>2. d[x] = c[x]
    BY <2>1
  <2>3. Goes(d, x, nu) = Goes(c, x, nu)
    BY <2>2, SameGoes
  <2>4. CASE Taken(c, x, nu)
    <3>1. c[x].to \in Labels /\ PlaceOf(c, c[x].to) \in Places(c, c[x].to)
      BY <2>4, GoesTo
    <3>2. Goes(c, x, nu) = PlaceOf(c, c[x].to)
      BY <2>4, GoesWhere
    <3> QED
      BY <1>7, <2>3, <3>1, <3>2
  <2>5. CASE ~Taken(c, x, nu)
    <3>1. Goes(c, x, nu) = x + 1
      BY <2>5, GoesWhere
    <3>2. x + 1 \notin Z
      BY <1>1, <1>11
    <3> QED
      BY <2>3, <3>1, <3>2
  <2> QED
    BY <2>4, <2>5
<1>12. ASSUME NEW nu, Decided(c, nu)
       PROVE  /\ Taken(d, i, nu) <=> ~Taken(c, i, nu)
              /\ Goes(c, i, nu) = IF Taken(c, i, nu) THEN m ELSE i + 1
              /\ Goes(d, i, nu) = IF Taken(c, i, nu) THEN i + 1 ELSE pm
              /\ Goes(c, k, nu) = pm /\ Goes(d, k, nu) = k + 1
              /\ \A j \in Z \ {k} : Goes(c, j, nu) = j + 1 /\ Goes(d, j, nu) = j + 1
  <2>1. nu[i] \in BOOLEAN
    BY <1>1, <1>12 DEF Decided, Branches
  <2>2. Taken(d, i, nu) <=> ~Taken(c, i, nu)
    <3>1. CASE c[i].op = "jz"
      <4>1. d[i].op = "jnz"
        BY <3>1 DEF InverseBranch
      <4> QED
        BY <2>1, <3>1, <4>1 DEF Taken
    <3>2. CASE c[i].op = "jnz"
      <4>1. d[i].op = "jz"
        BY <3>2 DEF InverseBranch
      <4> QED
        BY <2>1, <3>2, <4>1 DEF Taken
    <3> QED
      BY <3>1, <3>2
  <2>3. PlaceOf(d, d[i].to) = pm
    BY <1>4 DEF PlaceOf
  <2>4. Taken(c, k, nu) /\ ~Taken(d, k, nu)
    BY DEF Taken
  <2>5. \A j \in Z \ {k} : ~Taken(c, j, nu) /\ ~Taken(d, j, nu)
    <3>1. ASSUME NEW j \in Z \ {k} PROVE c[j].op = "nop" /\ d[j].op = "nop"
      <4>1. j \in i + 1..k - 1
        BY <1>1
      <4> QED
        BY <1>5, <4>1
    <3> QED
      BY <3>1 DEF Taken
  <2> QED
    BY <1>3, <2>2, <2>3, <2>4, <2>5, GoesWhere
<1>13. ASSUME NEW nu, Decided(c, nu)
       PROVE  /\ NextEffect(d, i + 1, nu) = NextEffect(d, m, nu)
              /\ NextEffect(c, i + 1, nu) = NextEffect(c, pm, nu)
              /\ NextEffect(c, k + 1, nu) = NextEffect(c, m, nu)
  <2>1. \A j \in i + 1..m - 1 : d[j].op \in {"nop", "label"}
    <3>1. \A j \in i + 1..m - 1 : j \in Z \/ j \in k + 1..m - 1
      BY <1>1
    <3> QED
      BY <1>5, <1>6, <3>1
  <2>2. NextEffect(d, i + 1, nu) = NextEffect(d, m, nu)
    BY <1>9, <2>1, PassesOver
  <2>3. NextEffect(c, k + 1, nu) = NextEffect(c, m, nu)
    BY <1>6, <1>9, PassesOver
  <2>4. NextEffect(c, i + 1, nu) = NextEffect(c, k, nu)
    BY <1>9, PassesOver
  <2>5. NextEffect(c, k, nu) = NextEffect(c, pm, nu)
    BY <1>10, <1>12, <1>13, NextEffectSteps
  <2> QED
    BY <2>2, <2>3, <2>4, <2>5
<1> HIDE DEF Z, pm
<1>14. ASSUME NEW nu, Decided(c, nu), NEW a \in Positions, a \notin Z
       PROVE  NextEffect(d, a, nu) = NextEffect(c, a, nu)
  <2> DEFINE V == [x \in Positions |-> IF x \in Z THEN NextEffect(d, pm, nu) ELSE NextEffect(d, x, nu)]
             W == [x \in Positions |-> IF x \in Z THEN NextEffect(c, m, nu) ELSE NextEffect(c, x, nu)]
  <2>1. \A x \in Positions \ Effects(c) : Goes(c, x, nu) \in Positions /\ Goes(d, x, nu) \in Positions
    BY <1>8, GoesTo
  <2>2. \A x \in Effects(c) : x \in Positions /\ V[x] = x /\ W[x] = x
    BY <1>8, <1>10, NextEffectSteps
  <2>3. \A x \in Positions \ Effects(c) :
          /\ NextEffect(c, x, nu) = NextEffect(c, Goes(c, x, nu), nu)
          /\ NextEffect(d, x, nu) = NextEffect(d, Goes(d, x, nu), nu)
    BY <1>8, NextEffectSteps
  <2>4. V[i] = V[Goes(c, i, nu)] /\ W[i] = W[Goes(d, i, nu)]
    <3>1. CASE Taken(c, i, nu)
      <4>1. Goes(c, i, nu) = m /\ Goes(d, i, nu) = i + 1
        BY <1>12, <1>14, <3>1
      <4>2. NextEffect(d, i, nu) = NextEffect(d, m, nu) /\ NextEffect(c, i, nu) = NextEffect(c, m, nu)
        BY <1>10, <1>13, <1>14, <2>3, <4>1
      <4> QED
        BY <1>9, <4>1, <4>2
    <3>2. CASE ~Taken(c, i, nu)
      <4>1. Goes(c, i, nu) = i + 1 /\ Goes(d, i, nu) = pm
        BY <1>12, <1>14, <3>2
      <4>2. NextEffect(d, i, nu) = NextEffect(d, pm, nu) /\ NextEffect(c, i, nu) = NextEffect(c, pm, nu)
        BY <1>10, <1>13, <1>14, <2>3, <4>1
      <4> QED
        BY <1>4, <1>9, <4>1, <4>2
    <3> QED
      BY <3>1, <3>2
  <2>5. V[k] = V[Goes(c, k, nu)] /\ W[k] = W[Goes(d, k, nu)]
    <3>1. k \in Z
      BY <1>1 DEF Z
    <3>2. Goes(c, k, nu) = pm /\ Goes(d, k, nu) = k + 1
      BY <1>12, <1>14
    <3>3. V[k] = NextEffect(d, pm, nu) /\ V[pm] = NextEffect(d, pm, nu)
      BY <1>4, <1>9, <3>1
    <3>4. W[k] = NextEffect(c, m, nu) /\ W[k + 1] = NextEffect(c, k + 1, nu)
      BY <1>9, <3>1
    <3> QED
      BY <1>13, <1>14, <3>2, <3>3, <3>4
  <2>6. ASSUME NEW x \in Z, x # k PROVE V[x] = V[Goes(c, x, nu)] /\ W[x] = W[Goes(d, x, nu)]
    <3>1. Goes(c, x, nu) = x + 1 /\ Goes(d, x, nu) = x + 1
      BY <1>12, <1>14, <2>6
    <3>2. x \in Positions /\ x + 1 \in Z /\ x + 1 \in Positions
      BY <1>1, <2>6 DEF Z
    <3> QED
      BY <3>1, <3>2
  <2>7. ASSUME NEW x \in Positions \ Effects(c), x # i, x \notin Z
        PROVE  V[x] = V[Goes(c, x, nu)] /\ W[x] = W[Goes(d, x, nu)]
    <3>1. Goes(d, x, nu) = Goes(c, x, nu) /\ Goes(c, x, nu) \notin Z
      BY <1>11, <2>7
    <3>2. Goes(c, x, nu) \in Positions
      BY <2>1
    <3> QED
      BY <2>3, <2>7, <3>1, <3>2
  <2>8. \A x \in Positions \ Effects(c) : V[x] = V[Goes(c, x, nu)] /\ W[x] = W[Goes(d, x, nu)]
    <3> HIDE DEF V, W
    <3> QED
      BY <2>4, <2>5, <2>6, <2>7
  <2>9. V[a] = NextEffect(d, a, nu) /\ W[a] = NextEffect(c, a, nu)
    BY <1>14
  <2> HIDE DEF V, W
  <2>10. /\ Positions \in SUBSET Positions
         /\ Positions \cap Effects(c) = Positions \cap Effects(d)
         /\ \A x \in Positions \cap Effects(c) : V[x] = x /\ W[x] = x
    BY <1>8, <2>2
  <2> QED
    BY <2>1, <2>8, <2>9, <2>10, LeadAlike
<1>15. \A x \in Positions : d[x].op = "ins" <=> c[x].op = "ins"
  BY <1>2
<1>16. Resumes(d) = Resumes(c)
  BY <1>1, <1>15 DEF Resumes
<1>17. Branches(d) \subseteq Branches(c)
  BY <1>1 DEF Branches
<1>18. ASSUME NEW p \in Resumes(d) PROVE p + 1 \in Positions /\ p + 1 \notin Z
  <2>1. CASE p = 0
    BY <1>1, <2>1 DEF Z
  <2>2. CASE p # 0
    <3>1. p \in Positions /\ d[p].op = "ins" /\ c[p].op = "ins"
      BY <1>1, <1>15, <2>2 DEF Resumes
    <3>2. p # i /\ p \notin Z
      BY <1>5, <3>1
    <3>3. p + 1 \in Positions
      BY <3>1, GoesTo
    <3> QED
      BY <1>1, <3>1, <3>2, <3>3 DEF Z
  <2> QED
    BY <2>1, <2>2
<1> QED
  BY <1>14, <1>16, <1>17, <1>18 DEF SameFlow

(* A branch over a jump becomes the inverse branch.                        *)
LEMMA BranchFlipped ==
  ASSUME NEW st, Exact(st), NEW i \in Positions, st.c[i].op \in {"jz", "jnz"}
  PROVE  /\ Exact(Flipped(st, i)) /\ SameFlow(st.c, Flipped(st, i).c)
         /\ Flipped(st, i).c[i].op \in {"jz", "jnz"}
<1> DEFINE c == st.c
           over == {k \in NextReal(c, i) :
                      /\ c[k].op = "jmp"
                      /\ \E m \in NextReal(c, k) : c[m] = [op |-> "label", to |-> c[i].to]}
           k == CHOOSE x \in over : TRUE
           v == [op |-> InverseBranch(c[i].op), to |-> c[k].to]
           e == [c EXCEPT ![i] = v]
           d == [e EXCEPT ![k] = Nop]
<1>1. Sound(c) /\ st = [c |-> c, refs |-> Counted(c)]
  BY DEF Exact
<1>2. CASE over = {}
  <2>1. Flipped(st, i) = st
    BY <1>2 DEF Flipped
  <2> QED
    BY <2>1, FlowOfNothing
<1>3. CASE over # {}
  <2>1. k \in over
    BY <1>3
  <2>2. PICK m \in NextReal(c, k) : c[m] = [op |-> "label", to |-> c[i].to]
    BY <2>1
  <2>3. DOMAIN c = Positions /\ MaxCode \in Nat /\ Positions = 1..MaxCode
    BY <1>1, CodeLength, MaxCodePositive DEF Sound, Positions
  <2>4. /\ k \in Positions /\ k > i /\ c[k].op = "jmp"
        /\ \A j \in i + 1..k - 1 : c[j].op = "nop"
    BY <2>1, <2>3 DEF NextReal
  <2>5. /\ m \in Positions /\ m > k /\ c[m].op = "label" /\ m \in Places(c, c[i].to)
        /\ \A j \in k + 1..m - 1 : c[j].op = "nop"
    <3> HIDE DEF k, over
    <3> QED
      BY <2>2, <2>3 DEF NextReal, Places
  <2>6. Flipped(st, i) = [c |-> [c EXCEPT ![i] = [op |-> InverseBranch(@.op), to |-> c[k].to], ![k] = Nop],
                          refs |-> [Counted(c) EXCEPT ![c[i].to] = @ - 1]]
    <3>1. Flipped(st, i) = [c |-> [st.c EXCEPT ![i] = [op |-> InverseBranch(@.op), to |-> st.c[k].to], ![k] = Nop],
                            refs |-> [st.refs EXCEPT ![st.c[i].to] = @ - 1]]
      BY <1>3 DEF Flipped
    <3>2. st.refs = Counted(c)
      BY <1>1
    <3> QED
      BY <3>1, <3>2
  <2>7. [c EXCEPT ![i] = [op |-> InverseBranch(@.op), to |-> c[k].to], ![k] = Nop] = d
    BY <2>3
  <2>8. d = [e EXCEPT ![k] = Nop] /\ e = [c EXCEPT ![i] = v]
    OBVIOUS
  <2>9. Flipped(st, i) = [c |-> d, refs |-> [Counted(c) EXCEPT ![c[i].to] = @ - 1]]
    BY <2>6, <2>7
  <2>10. c[k].op \in Jumps /\ c[i].op \in Jumps /\ i # k
    BY <2>3, <2>4 DEF Jumps
  <2>11. c[k].to \in Labels /\ Places(c, c[k].to) # {} /\ c[i].to \in Labels
    BY <1>1, <2>4, <2>10, GoesTo
  <2>12. /\ v \in Instr /\ v.op \in {"jz", "jnz"} /\ v.to = c[k].to
         /\ v.op = InverseBranch(c[i].op) /\ v.op \in Jumps
    BY <2>11 DEF InverseBranch, Instr, Jumps
  <2> HIDE DEF v, e, d, k, over
  <2>13. Edited(c, e, i, v)
    <3>1. c[i].op # "ret" /\ c[i].op # "label" /\ v.op # "label" /\ Places(c, v.to) # {}
      BY <2>11, <2>12
    <3> HIDE DEF c
    <3> QED
      BY <1>1, <2>8, <2>12, <3>1, SoundEdit
  <2>14. Sound(e) /\ e[k] = c[k] /\ e[i] = v /\ \A x \in Positions \ {i} : e[x] = c[x]
    BY <2>4, <2>10, <2>13 DEF Edited
  <2>15. /\ Sound(d) /\ d[k] = Nop /\ Nop.op = "nop"
         /\ \A x \in Positions \ {k} : d[x] = e[x]
         /\ \A l \in Labels : Places(d, l) = Places(e, l) \ {k}
         /\ \A l \in Labels : JumpsTo(d, l) = JumpsTo(e, l) \ {k}
    <3>1. e[k].op # "ret" /\ (e[k].op = "label" => JumpsTo(e, e[k].to) = {})
      BY <2>4, <2>14
    <3>2. k \in Positions /\ d = [e EXCEPT ![k] = Nop] /\ Sound(e)
      BY <2>4, <2>8, <2>14
    <3>3. Without(e, d, k)
      BY <3>1, <3>2, TakenOut
    <3> QED
      BY <3>3 DEF Without
  <2>16. Counted(d) = [Counted(e) EXCEPT ![c[k].to] = @ - 1]
    <3>1. e[k].op \in Jumps /\ e[k].to = c[k].to
      BY <2>10, <2>14
    <3> QED
      BY <2>4, <2>14, <2>15, <3>1, CountedDown
  <2>17. Counted(d) = [Counted(c) EXCEPT ![c[i].to] = @ - 1]
    <3>1. CASE c[k].to = c[i].to
      <4>1. ASSUME NEW l \in Labels PROVE JumpsTo(e, l) = JumpsTo(c, l)
        <5>1. JumpsTo(e, l) = (JumpsTo(c, l) \ {i}) \cup (IF v.op \in Jumps /\ v.to = l THEN {i} ELSE {})
          BY <2>13 DEF Edited
        <5>2. i \in JumpsTo(c, l) <=> l = c[i].to
          BY <1>1, <2>10, OneTarget
        <5> QED
          BY <2>12, <3>1, <5>1, <5>2
      <4>2. Counted(e) = Counted(c)
        BY <4>1 DEF Counted
      <4> QED
        BY <2>16, <3>1, <4>2
    <3>2. CASE c[k].to # c[i].to
      <4> DEFINE n == c[k].to
      <4>1. n \in Labels /\ n # c[i].to
        BY <2>11, <3>2
      <4>2. \A x \in Labels \ {n} : JumpsTo(e, x) = JumpsTo(c, x) \ {i}
        BY <2>12, <2>13 DEF Edited
      <4>3. JumpsTo(e, n) = JumpsTo(c, n) \cup {i}
        <5>1. i \notin JumpsTo(c, n)
          BY <1>1, <2>10, <4>1, OneTarget
        <5>2. JumpsTo(e, n) = (JumpsTo(c, n) \ {i}) \cup {i}
          BY <2>12, <2>13, <4>1 DEF Edited
        <5> QED
          BY <5>1, <5>2
      <4>4. Counted(c) \in [Labels -> Nat]
        BY <1>1, <2>10, OneTarget DEF Counted
      <4>5. Counted(d) = [Counted(e) EXCEPT ![n] = @ - 1]
        BY <2>16
      <4> HIDE DEF c, n
      <4>6. Counted(e) = [Counted(c) EXCEPT ![c[i].to] = @ - 1, ![n] = @ + 1]
        BY <1>1, <2>10, <4>1, <4>2, <4>3, CountedOver
      <4>7. [Counted(e) EXCEPT ![n] = @ - 1] = [Counted(c) EXCEPT ![c[i].to] = @ - 1]
        BY <2>11, <4>1, <4>4, <4>6
      <4> QED
        BY <4>5, <4>7
    <3> QED
      BY <3>1, <3>2
  <2>18. \A l \in Labels : Places(d, l) = Places(c, l)
    <3>1. \A l \in Labels : i \notin Places(c, l) /\ k \notin Places(c, l)
      BY <1>1, <2>4, <2>10, OneTarget
    <3>2. \A l \in Labels : Places(d, l) = (Places(c, l) \ {i}) \ {k}
      BY <2>13, <2>15 DEF Edited
    <3> QED
      BY <3>1, <3>2
  <2>19. /\ d[i].op = InverseBranch(c[i].op) /\ d[i].to = c[k].to /\ d[k].op = "nop"
         /\ \A x \in Positions \ {i, k} : d[x] = c[x] /\ d[i].op \in {"jz", "jnz"}
    BY <2>4, <2>10, <2>12, <2>14, <2>15
  <2>20. SameFlow(c, d)
    BY <1>1, <2>4, <2>5, <2>15, <2>18, <2>19, FlipFlow
  <2>21. d[i].op \in {"jz", "jnz"}
    BY <2>10, <2>12, <2>14, <2>15
  <2> QED
    BY <2>9, <2>15, <2>17, <2>20, <2>21 DEF Exact
<1> QED
  BY <1>2, <1>3

(* One iteration of opt_jumps keeps what is executed and the counts.       *)
LEMMA WorkKeeps ==
  ASSUME NEW st, Exact(st), NEW i \in Positions
  PROVE  Exact(Worked(st, i)) /\ SameFlow(st.c, Worked(st, i).c)
<1> DEFINE t == Threaded(st, i)
           f == Flipped(t, i)
           op == st.c[i].op
<1>1. CASE op = "label"
  <2>1. CASE st.refs[st.c[i].to] = 0
    <3>1. Worked(st, i) = [st EXCEPT !.c[i] = Nop]
      BY <1>1, <2>1 DEF Worked
    <3> QED
      BY <1>1, <2>1, <3>1, LabelDropped
  <2>2. CASE st.refs[st.c[i].to] # 0
    <3>1. Worked(st, i) = st
      BY <1>1, <2>2 DEF Worked
    <3> QED
      BY <3>1, FlowOfNothing
  <2> QED
    BY <2>1, <2>2
<1>2. CASE op = "jmp"
  <2>1. Worked(st, i) = NextDropped(t, i)
    BY <1>2 DEF Worked
  <2>2. Exact(t) /\ SameFlow(st.c, t.c) /\ t.c[i].op \in Jumps
    BY <1>2, JumpThreaded DEF Jumps
  <2> HIDE DEF t
  <2>3. Exact(NextDropped(t, i)) /\ SameFlow(t.c, NextDropped(t, i).c)
    BY <2>2, NextJumpDropped
  <2> QED
    BY <2>1, <2>2, <2>3, FlowComposes
<1>3. CASE op \in {"jz", "jnz"}
  <2>1. Worked(st, i) = NextDropped(f, i)
    BY <1>3 DEF Worked
  <2>2. Exact(t) /\ SameFlow(st.c, t.c) /\ t.c[i].op \in {"jz", "jnz"}
    BY <1>3, JumpThreaded DEF Jumps
  <2> HIDE DEF t
  <2>3. Exact(f) /\ SameFlow(t.c, f.c) /\ f.c[i].op \in {"jz", "jnz"}
    BY <2>2, BranchFlipped
  <2> HIDE DEF f
  <2>4. Exact(NextDropped(f, i)) /\ SameFlow(f.c, NextDropped(f, i).c)
    BY <2>3, NextJumpDropped DEF Jumps
  <2>5. SameFlow(st.c, f.c)
    BY <2>2, <2>3, FlowComposes
  <2> QED
    BY <2>1, <2>4, <2>5, FlowComposes
<1>4. CASE op \notin {"label", "jmp", "jz", "jnz"}
  <2>1. Worked(st, i) = st
    BY <1>4 DEF Worked
  <2> QED
    BY <2>1, FlowOfNothing
<1> QED
  BY <1>1, <1>2, <1>3, <1>4

-----------------------------------------------------------------------------
(* The block b has a last instruction: from b to it no block starts, and   *)
(* after it another one does.                                              *)
LEMMA LastOfBlock ==
  ASSUME NEW c, Sound(c), NEW b \in Blocks(c)
  PROVE  /\ Last(c, b) \in Positions /\ b \in Positions /\ b <= Last(c, b)
         /\ \A j \in b + 1..Last(c, b) : ~StartsBlock(c, j)
         /\ Last(c, b) = MaxCode \/ StartsBlock(c, Last(c, b) + 1)
<1>1. /\ DOMAIN c = Positions /\ Len(c) = MaxCode /\ MaxCode \in Nat /\ Positions = 1..MaxCode
      /\ MaxCode \in Positions
  BY CodeLength, MaxCodePositive DEF Sound, Positions
<1>2. b \in Positions
  BY <1>1 DEF Blocks
<1> DEFINE Ends == {k \in Positions : k >= b /\ (k = MaxCode \/ StartsBlock(c, k + 1))}
<1>3. MaxCode \in Ends /\ Ends \in SUBSET Nat
  BY <1>1, <1>2
<1>4. PICK n \in Ends : \A k \in Ends : n <= k
  <2> HIDE DEF Ends
  <2> QED
    BY <1>3, LeastNumber
<1>5. ASSUME NEW j \in b + 1..n PROVE ~StartsBlock(c, j)
  <2>1. SUFFICES ASSUME StartsBlock(c, j) PROVE FALSE
    OBVIOUS
  <2>2. n \in Positions /\ b \in Nat /\ n \in Nat
    BY <1>1, <1>2, <1>4
  <2>3. j - 1 \in Positions /\ j - 1 >= b /\ (j - 1) + 1 = j /\ j - 1 < n
    BY <1>1, <1>2, <2>2
  <2>4. j - 1 \in Ends
    BY <2>1, <2>3
  <2>5. n <= j - 1
    BY <1>4, <2>4
  <2> QED
    BY <2>2, <2>3, <2>5
<1> DEFINE Is(k) == /\ k >= b
                    /\ \A j \in b + 1..k : ~StartsBlock(c, j)
                    /\ k = Len(c) \/ StartsBlock(c, k + 1)
<1>6. n \in DOMAIN c /\ Is(n)
  BY <1>1, <1>4, <1>5
<1>7. Last(c, b) = CHOOSE k \in DOMAIN c : Is(k)
  BY DEF Last
<1>8. Last(c, b) \in DOMAIN c /\ Is(Last(c, b))
  <2> HIDE DEF Is
  <2> QED
    BY <1>6, <1>7
<1> DEFINE e == Last(c, b)
<1> HIDE DEF e
<1>9. e \in DOMAIN c /\ Is(e)
  BY <1>8 DEF e
<1>10. e \in Positions /\ b <= e
  BY <1>1, <1>2, <1>9
<1> QED
  BY <1>1, <1>2, <1>9, <1>10 DEF e

(* Every instruction is in a block.                                        *)
LEMMA BlockOfInstr ==
  ASSUME NEW c, Sound(c), NEW k \in Positions
  PROVE  BlockOf(c, k) \in Blocks(c) /\ BlockOf(c, k) <= k /\ k <= Last(c, BlockOf(c, k))
<1>1. /\ DOMAIN c = Positions /\ MaxCode \in Nat /\ Positions = 1..MaxCode /\ k \in Nat
  BY CodeLength, MaxCodePositive DEF Sound, Positions
<1> DEFINE Far == {n \in Nat : n < k /\ StartsBlock(c, k - n)}
<1>2. k - 1 \in Far /\ Far \in SUBSET Nat
  BY <1>1 DEF StartsBlock
<1>3. PICK n \in Far : \A m \in Far : n <= m
  <2> HIDE DEF Far
  <2> QED
    BY <1>2, LeastNumber
<1> DEFINE b == k - n
<1>4. b \in Blocks(c) /\ b <= k /\ b \in Positions
  BY <1>1, <1>3 DEF Blocks
<1>5. ASSUME NEW j \in b + 1..k PROVE ~StartsBlock(c, j)
  <2>1. SUFFICES ASSUME StartsBlock(c, j) PROVE FALSE
    OBVIOUS
  <2>2. k - j \in Nat /\ k - j < n /\ k - j < k /\ k - (k - j) = j
    BY <1>1, <1>3
  <2>3. k - j \in Far
    BY <2>1, <2>2
  <2> QED
    BY <1>1, <1>3, <2>2, <2>3
<1> HIDE DEF b
<1>6. /\ Last(c, b) \in Positions
      /\ Last(c, b) = MaxCode \/ StartsBlock(c, Last(c, b) + 1)
      /\ b <= Last(c, b)
  BY <1>4, LastOfBlock
<1>7. k <= Last(c, b)
  <2>1. SUFFICES ASSUME Last(c, b) < k PROVE FALSE
    BY <1>1, <1>6
  <2>2. Last(c, b) + 1 \in b + 1..k /\ Last(c, b) # MaxCode
    BY <1>1, <1>4, <1>6, <2>1
  <2> QED
    BY <1>5, <1>6, <2>2
<1> DEFINE Is(x) == x <= k /\ k <= Last(c, x)
<1>8. b \in Blocks(c) /\ Is(b)
  BY <1>4, <1>7
<1>9. BlockOf(c, k) = CHOOSE x \in Blocks(c) : Is(x)
  BY DEF BlockOf
<1>10. BlockOf(c, k) \in Blocks(c) /\ Is(BlockOf(c, k))
  <2> HIDE DEF Is
  <2> QED
    BY <1>8, <1>9
<1> QED
  BY <1>10

(* An instruction is in one block only.                                    *)
LEMMA OneBlock ==
  ASSUME NEW c, Sound(c), NEW k \in Positions, NEW b \in Blocks(c), b <= k, k <= Last(c, b)
  PROVE  BlockOf(c, k) = b
<1> DEFINE a == BlockOf(c, k)
<1>1. a \in Blocks(c) /\ a <= k /\ k <= Last(c, a)
  BY BlockOfInstr
<1>2. /\ DOMAIN c = Positions /\ MaxCode \in Nat /\ Positions = 1..MaxCode
  BY CodeLength, MaxCodePositive DEF Sound, Positions
<1> HIDE DEF a
<1>3. /\ a \in Positions /\ b \in Positions /\ StartsBlock(c, a) /\ StartsBlock(c, b)
      /\ Last(c, a) \in Positions /\ Last(c, b) \in Positions
      /\ \A j \in a + 1..Last(c, a) : ~StartsBlock(c, j)
      /\ \A j \in b + 1..Last(c, b) : ~StartsBlock(c, j)
  BY <1>1, <1>2, LastOfBlock DEF Blocks
<1>4. ~(a < b)
  <2>1. SUFFICES ASSUME a < b PROVE FALSE
    OBVIOUS
  <2>2. b \in a + 1..Last(c, a)
    BY <1>1, <1>2, <1>3, <2>1
  <2> QED
    BY <1>3, <2>2
<1>5. ~(b < a)
  <2>1. SUFFICES ASSUME b < a PROVE FALSE
    OBVIOUS
  <2>2. a \in b + 1..Last(c, b)
    BY <1>1, <1>2, <1>3, <2>1
  <2> QED
    BY <1>3, <2>2
<1>6. a = b
  BY <1>2, <1>3, <1>4, <1>5
<1> QED
  BY <1>6 DEF a

(* A block is followed by blocks.                                          *)
LEMMA SuccBlocks ==
  ASSUME NEW c, Sound(c), NEW b \in Blocks(c)
  PROVE  /\ Succ(c, b) \subseteq Blocks(c)
         /\ c[Last(c, b)].op \notin {"jmp", "ret"} => Last(c, b) + 1 \in Succ(c, b)
         /\ c[Last(c, b)].op \in Jumps => PlaceOf(c, c[Last(c, b)].to) \in Succ(c, b)
         /\ Succ(c, b) \subseteq
              (IF c[Last(c, b)].op \notin {"jmp", "ret"} THEN {Last(c, b) + 1} ELSE {})
              \cup (IF c[Last(c, b)].op \in Jumps THEN {PlaceOf(c, c[Last(c, b)].to)} ELSE {})
<1> DEFINE k == Last(c, b)
<1>1. /\ DOMAIN c = Positions /\ Len(c) = MaxCode /\ MaxCode \in Nat /\ Positions = 1..MaxCode
      /\ c[MaxCode].op = "ret"
  BY CodeLength, MaxCodePositive DEF Sound, Positions
<1>2. k \in Positions /\ (k = MaxCode \/ StartsBlock(c, k + 1))
  BY LastOfBlock
<1>3. Succ(c, b) = (IF c[k].op \notin {"jmp", "ret"} /\ k < Len(c) THEN {k + 1} ELSE {})
                   \cup (IF c[k].op \in Jumps THEN LabelBlock(c, c[k].to) ELSE {})
  BY DEF Succ
<1> HIDE DEF k
<1>4. ASSUME c[k].op \notin {"jmp", "ret"} PROVE k < Len(c) /\ k + 1 \in Blocks(c)
  <2>1. k # MaxCode
    BY <1>1, <1>4
  <2> QED
    BY <1>1, <1>2, <2>1 DEF Blocks
<1>5. ASSUME c[k].op \in Jumps
      PROVE  LabelBlock(c, c[k].to) = {PlaceOf(c, c[k].to)} /\ PlaceOf(c, c[k].to) \in Blocks(c)
  <2> DEFINE p == PlaceOf(c, c[k].to)
  <2>1. c[k].to \in Labels /\ p \in Places(c, c[k].to) /\ p \in Positions
    BY <1>2, <1>5, GoesTo
  <2>2. \A q \in Places(c, c[k].to) : q = p
    BY <2>1 DEF Sound
  <2> HIDE DEF p
  <2>3. c[p].op = "label" /\ p \in Blocks(c)
    BY <1>1, <2>1 DEF Places, Blocks, StartsBlock
  <2>4. LabelBlock(c, c[k].to) = {q \in Blocks(c) : q \in Places(c, c[k].to)}
    BY <1>1 DEF LabelBlock, Places, Blocks
  <2>5. LabelBlock(c, c[k].to) = {p}
    BY <2>1, <2>2, <2>3, <2>4
  <2> QED
    BY <2>3, <2>5 DEF p
<1>6. /\ Succ(c, b) \subseteq Blocks(c)
      /\ c[k].op \notin {"jmp", "ret"} => k + 1 \in Succ(c, b)
      /\ c[k].op \in Jumps => PlaceOf(c, c[k].to) \in Succ(c, b)
      /\ Succ(c, b) \subseteq
           (IF c[k].op \notin {"jmp", "ret"} THEN {k + 1} ELSE {})
           \cup (IF c[k].op \in Jumps THEN {PlaceOf(c, c[k].to)} ELSE {})
  BY <1>3, <1>4, <1>5
<1> QED
  BY <1>6 DEF k

(* The control flow graph of sound code is exact.                          *)
LEMMA SoundGraph ==
  ASSUME NEW c, Sound(c)
  PROVE  CfgExact(c)
<1>1. /\ DOMAIN c = Positions /\ MaxCode \in Nat /\ Positions = 1..MaxCode
      /\ c \in [Positions -> Instr]
  BY CodeLength, MaxCodePositive DEF Sound, Positions
<1>2. ASSUME NEW k \in DOMAIN c, c[k].op \in Jumps
      PROVE  Places(c, c[k].to) \subseteq Blocks(c)
  BY DEF Places, Blocks, StartsBlock
<1>3. ASSUME NEW b \in Blocks(c)
      PROVE  Succ(c, b) = IF c[Last(c, b)].op = "ret" THEN {}
                          ELSE {Goes(c, Last(c, b), [j \in DOMAIN c |-> v]) : v \in BOOLEAN} \cap DOMAIN c
  <2> DEFINE k == Last(c, b)
             G(v) == Goes(c, k, [j \in DOMAIN c |-> v])
             p == PlaceOf(c, c[k].to)
  <2>1. k \in Positions
    BY LastOfBlock
  <2>2. /\ c[k].op \notin {"jmp", "ret"} => k + 1 \in Succ(c, b)
        /\ c[k].op \in Jumps => p \in Succ(c, b)
        /\ Succ(c, b) \subseteq (IF c[k].op \notin {"jmp", "ret"} THEN {k + 1} ELSE {})
                               \cup (IF c[k].op \in Jumps THEN {p} ELSE {})
    BY SuccBlocks
  <2>3. c[k].op # "ret" => k + 1 \in Positions
    BY <2>1, GoesTo
  <2>4. c[k].op \in Jumps => p \in Positions
    BY <2>1, GoesTo
  <2>5. \A v \in BOOLEAN :
          G(v) = IF \/ c[k].op = "jmp"
                    \/ c[k].op = "jz" /\ ~v
                    \/ c[k].op = "jnz" /\ v
                   THEN p ELSE k + 1
    <3>1. ASSUME NEW v \in BOOLEAN
          PROVE  Taken(c, k, [j \in DOMAIN c |-> v]) <=>
                   (c[k].op = "jmp" \/ (c[k].op = "jz" /\ ~v) \/ (c[k].op = "jnz" /\ v))
      BY <1>1, <2>1 DEF Taken
    <3> QED
      BY <3>1, GoesWhere
  <2>6. c[k].op \in {"label", "jmp", "jz", "jnz", "ins", "ret", "nop"}
    BY <1>1, <2>1, InstrKinds
  <2> HIDE DEF k, p, G
  <2> DEFINE next == {G(v) : v \in BOOLEAN} \cap DOMAIN c
  <2>7. CASE c[k].op = "ret"
    <3>1. Succ(c, b) = {}
      BY <2>2, <2>7 DEF Jumps
    <3> QED
      BY <2>7, <3>1 DEF k
  <2>8. CASE c[k].op = "jmp"
    <3>1. Succ(c, b) = {p} /\ p \in Positions
      BY <2>2, <2>4, <2>8 DEF Jumps
    <3>2. G(TRUE) = p /\ G(FALSE) = p
      BY <2>5, <2>8
    <3>3. next = {p}
      BY <1>1, <3>1, <3>2
    <3> QED
      BY <2>8, <3>1, <3>3 DEF k, G
  <2>9. CASE c[k].op \in {"jz", "jnz"}
    <3>1. Succ(c, b) = {p, k + 1} /\ p \in Positions /\ k + 1 \in Positions
      BY <2>2, <2>3, <2>4, <2>9 DEF Jumps
    <3>2. (G(TRUE) = p /\ G(FALSE) = k + 1) \/ (G(TRUE) = k + 1 /\ G(FALSE) = p)
      BY <2>5, <2>9
    <3>3. next = {p, k + 1}
      BY <1>1, <3>1, <3>2
    <3> QED
      BY <2>9, <3>1, <3>3 DEF k, G
  <2>10. CASE c[k].op \in {"label", "ins", "nop"}
    <3>1. Succ(c, b) = {k + 1} /\ k + 1 \in Positions
      BY <2>2, <2>3, <2>10 DEF Jumps
    <3>2. G(TRUE) = k + 1 /\ G(FALSE) = k + 1
      BY <2>5, <2>10
    <3>3. next = {k + 1}
      BY <1>1, <3>1, <3>2
    <3> QED
      BY <2>10, <3>1, <3>3 DEF k, G
  <2> QED
    BY <2>6, <2>7, <2>8, <2>9, <2>10
<1> QED
  BY <1>2, <1>3 DEF CfgExact

(* The instructions that opt_unreachable leaves in place.                  *)
Kept(c) == {k \in Positions : BlockOf(c, k) \in Reachable(c) \cup {1} \/ k = Len(c)}

(* From what is left in place control goes to what is left in place.       *)
LEMMA KeptClosed ==
  ASSUME NEW c, Sound(c)
  PROVE  /\ 1 \in Kept(c)
         /\ \A k \in Kept(c) : c[k].op \notin {"jmp", "ret"} => k + 1 \in Kept(c)
         /\ \A k \in Kept(c) : c[k].op \in Jumps => PlaceOf(c, c[k].to) \in Kept(c)
<1>1. /\ DOMAIN c = Positions /\ Len(c) = MaxCode /\ MaxCode \in Nat /\ Positions = 1..MaxCode
      /\ 1 \in Positions /\ c[MaxCode].op = "ret"
  BY CodeLength, MaxCodePositive DEF Sound, Positions
<1> DEFINE succ == [b \in Blocks(c) |-> Succ(c, b)]
           Closed == {R \in SUBSET Blocks(c) : 1 \in R /\ \A b \in R : succ[b] \subseteq R}
<1>2. Reachable(c) = {b \in Blocks(c) : \A R \in Closed : b \in R}
  BY DEF Reachable
<1>3. 1 \in Reachable(c)
  BY <1>1, <1>2 DEF Blocks, StartsBlock
<1>4. ASSUME NEW b \in Reachable(c) PROVE Succ(c, b) \subseteq Reachable(c)
  <2>1. b \in Blocks(c) /\ Succ(c, b) \subseteq Blocks(c)
    BY <1>2, SuccBlocks
  <2>2. ASSUME NEW R \in Closed PROVE Succ(c, b) \subseteq R
    <3>1. b \in R /\ succ[b] \subseteq R
      BY <1>2
    <3> QED
      BY <2>1, <3>1
  <2> HIDE DEF Closed
  <2> QED
    BY <1>2, <2>1, <2>2
<1>5. \A b \in Blocks(c) : b \in Positions /\ BlockOf(c, b) = b
  <2>1. ASSUME NEW b \in Blocks(c) PROVE b \in Positions /\ BlockOf(c, b) = b
    <3>1. b \in Positions /\ b <= Last(c, b)
      BY LastOfBlock
    <3>2. b <= b
      BY <1>1, <3>1
    <3> QED
      BY <3>1, <3>2, OneBlock
  <2> QED
    BY <2>1
<1>6. \A b \in Reachable(c) : b \in Kept(c)
  BY <1>2, <1>5 DEF Kept
<1>7. ASSUME NEW k \in Kept(c), c[k].op # "ret"
      PROVE  /\ k \in Positions /\ BlockOf(c, k) \in Reachable(c) /\ BlockOf(c, k) \in Blocks(c)
             /\ BlockOf(c, k) <= k /\ k <= Last(c, BlockOf(c, k))
  <2>1. k \in Positions /\ k # Len(c)
    BY <1>1, <1>7 DEF Kept
  <2> QED
    BY <1>3, <2>1, BlockOfInstr DEF Kept
<1>8. ASSUME NEW k \in Kept(c), c[k].op # "ret", k # Last(c, BlockOf(c, k))
      PROVE  k + 1 \in Kept(c) /\ c[k].op \notin Jumps
  <2> DEFINE b == BlockOf(c, k)
  <2>1. k \in Positions /\ b \in Reachable(c) /\ b \in Blocks(c) /\ b <= k /\ k <= Last(c, b)
    BY <1>7, <1>8
  <2>2. /\ b \in Positions /\ Last(c, b) \in Positions
        /\ \A j \in b + 1..Last(c, b) : ~StartsBlock(c, j)
    BY <2>1, LastOfBlock
  <2>3. k # Last(c, b)
    BY <1>8
  <2> HIDE DEF b
  <2>4. k + 1 \in b + 1..Last(c, b) /\ k + 1 \in Positions /\ b <= k + 1 /\ k + 1 <= Last(c, b)
    BY <1>1, <2>1, <2>2, <2>3
  <2>5. ~StartsBlock(c, k + 1)
    BY <2>2, <2>4
  <2>6. BlockOf(c, k + 1) = b
    BY <2>1, <2>4, OneBlock
  <2>7. (k + 1) - 1 = k
    BY <1>1, <2>1
  <2>8. c[k].op \notin Jumps
    BY <2>5, <2>7 DEF StartsBlock
  <2> QED
    BY <2>1, <2>4, <2>6, <2>8 DEF Kept
<1>9. ASSUME NEW k \in Kept(c), c[k].op # "ret", k = Last(c, BlockOf(c, k))
      PROVE  /\ c[k].op \notin {"jmp", "ret"} => k + 1 \in Kept(c)
             /\ c[k].op \in Jumps => PlaceOf(c, c[k].to) \in Kept(c)
  <2> DEFINE b == BlockOf(c, k)
  <2>1. b \in Reachable(c) /\ b \in Blocks(c) /\ k = Last(c, b)
    BY <1>7, <1>9
  <2> HIDE DEF b
  <2>2. /\ c[k].op \notin {"jmp", "ret"} => k + 1 \in Succ(c, b)
        /\ c[k].op \in Jumps => PlaceOf(c, c[k].to) \in Succ(c, b)
    BY <2>1, SuccBlocks
  <2>3. Succ(c, b) \subseteq Kept(c)
    BY <1>4, <1>6, <2>1
  <2> QED
    BY <2>2, <2>3
<1>10. 1 \in Kept(c)
  BY <1>3, <1>6
<1>11. \A k \in Kept(c) : c[k].op \notin {"jmp", "ret"} => k + 1 \in Kept(c)
  BY <1>8, <1>9
<1>12. \A k \in Kept(c) : c[k].op \in Jumps => PlaceOf(c, c[k].to) \in Kept(c)
  <2>1. \A k \in Kept(c) : c[k].op \in Jumps => c[k].op # "ret"
    BY DEF Jumps
  <2> QED
    BY <1>8, <1>9, <2>1
<1> QED
  BY <1>10, <1>11, <1>12

(* Blocks that control cannot reach are taken out.                         *)
LEMMA UnreachableOut ==
  ASSUME NEW c, Sound(c), NEW d,
         d = [k \in DOMAIN c |-> IF BlockOf(c, k) \in Reachable(c) \cup {1} \/ k = Len(c)
                                 THEN c[k] ELSE Nop]
  PROVE  Sound(d) /\ SameFlow(c, d)
<1> DEFINE R == Kept(c)
<1>1. /\ DOMAIN c = Positions /\ Len(c) = MaxCode /\ MaxCode \in Nat /\ Positions = 1..MaxCode
      /\ MaxCode \in Positions /\ c[MaxCode].op = "ret" /\ c \in [Positions -> Instr]
  BY CodeLength, MaxCodePositive DEF Sound, Positions
<1>2. R \in SUBSET Positions /\ MaxCode \in R
  BY <1>1 DEF Kept
<1>3. DOMAIN d = Positions /\ \A k \in Positions : d[k] = IF k \in R THEN c[k] ELSE Nop
  BY <1>1 DEF Kept
<1>4. /\ 1 \in R
      /\ \A k \in R : c[k].op \notin {"jmp", "ret"} => k + 1 \in R
      /\ \A k \in R : c[k].op \in Jumps => PlaceOf(c, c[k].to) \in R
  BY KeptClosed
<1>5. Nop \in Instr /\ Nop.op = "nop" /\ Nop.op \notin Jumps
  BY DEF Nop, Instr, Jumps
<1>6. d \in [Positions -> Instr]
  <2>1. \A k \in Positions : d[k] \in Instr
    BY <1>1, <1>3, <1>5
  <2>2. d = [k \in Positions |-> d[k]]
    BY <1>1
  <2> QED
    BY <2>1, <2>2
<1> HIDE DEF R
<1>7. ASSUME NEW k \in Positions, d[k].op # "nop" PROVE k \in R /\ d[k] = c[k]
  BY <1>3, <1>5, <1>7
<1>8. ASSUME NEW l \in Labels PROVE Places(d, l) = Places(c, l) \cap R
  <2>1. ASSUME NEW k \in Positions
        PROVE  d[k] = [op |-> "label", to |-> l] <=> (c[k] = [op |-> "label", to |-> l] /\ k \in R)
    BY <1>3, <1>5
  <2> QED
    BY <1>1, <1>3, <2>1 DEF Places
<1>9. ASSUME NEW k \in R, c[k].op \in Jumps
      PROVE  /\ c[k].to \in Labels /\ PlaceOf(c, c[k].to) \in Places(d, c[k].to)
             /\ PlaceOf(d, c[k].to) = PlaceOf(c, c[k].to)
  <2>1. /\ k \in Positions /\ c[k].to \in Labels
        /\ PlaceOf(c, c[k].to) \in Places(c, c[k].to)
    BY <1>2, <1>9, GoesTo
  <2>2. PlaceOf(c, c[k].to) \in Places(d, c[k].to)
    BY <1>4, <1>8, <1>9, <2>1
  <2>3. PlaceOf(d, c[k].to) \in Places(d, c[k].to)
    BY <2>2 DEF PlaceOf
  <2>4. PlaceOf(d, c[k].to) \in Places(c, c[k].to)
    BY <1>8, <2>1, <2>3
  <2>5. PlaceOf(d, c[k].to) = PlaceOf(c, c[k].to)
    BY <2>1, <2>4 DEF Sound
  <2> QED
    BY <2>1, <2>2, <2>5
<1>10. Sound(d)
  <2>1. d[MaxCode].op = "ret"
    BY <1>1, <1>2, <1>3
  <2>2. \A l \in Labels : \A p, q \in Places(d, l) : p = q
    BY <1>8 DEF Sound
  <2>3. ASSUME NEW l \in Labels, JumpsTo(d, l) # {} PROVE Places(d, l) # {}
    <3>1. PICK k \in Positions : d[k].op \in Jumps /\ d[k].to = l
      BY <1>3, <2>3 DEF JumpsTo
    <3>2. d[k].op # "nop"
      BY <3>1 DEF Jumps
    <3>3. k \in R /\ d[k] = c[k]
      BY <1>7, <3>2
    <3> QED
      BY <1>9, <3>1, <3>3
  <2> QED
    BY <1>6, <2>1, <2>2, <2>3 DEF Sound
<1>11. \A k \in R : k \in Positions /\ d[k] = c[k]
  BY <1>2, <1>3
<1>12. ASSUME NEW k \in R \ Effects(c), NEW nu
       PROVE  Goes(c, k, nu) \in R /\ Goes(d, k, nu) = Goes(c, k, nu)
  <2>1. k \in Positions /\ d[k] = c[k]
    BY <1>11
  <2>2. c[k].op # "ret"
    BY <1>1, <2>1 DEF Effects
  <2>3. Taken(d, k, nu) = Taken(c, k, nu)
    BY <2>1 DEF Taken
  <2>4. CASE Taken(c, k, nu)
    <3>1. c[k].op \in Jumps
      BY <2>4 DEF Taken, Jumps
    <3>2. Goes(c, k, nu) = PlaceOf(c, c[k].to) /\ Goes(d, k, nu) = PlaceOf(d, c[k].to)
      BY <2>1, <2>3, <2>4, GoesWhere
    <3> QED
      BY <1>4, <1>9, <3>1, <3>2
  <2>5. CASE ~Taken(c, k, nu)
    <3>1. c[k].op # "jmp"
      BY <2>5 DEF Taken
    <3>2. Goes(c, k, nu) = k + 1 /\ Goes(d, k, nu) = k + 1
      BY <2>3, <2>5, GoesWhere
    <3>3. k + 1 \in R
      BY <1>4, <2>2, <3>1
    <3> QED
      BY <3>2, <3>3
  <2> QED
    BY <2>4, <2>5
<1>13. ASSUME NEW nu, NEW a \in R PROVE NextEffect(d, a, nu) = NextEffect(c, a, nu)
  <2> DEFINE V == [x \in Positions |-> NextEffect(d, x, nu)]
             W == [x \in Positions |-> NextEffect(c, x, nu)]
  <2>1. R \cap Effects(c) = R \cap Effects(d)
    BY <1>1, <1>3, <1>11 DEF Effects
  <2>2. \A x \in R \ Effects(c) : Goes(c, x, nu) \in R /\ Goes(d, x, nu) \in R
    BY <1>12
  <2>3. \A x \in R \cap Effects(c) : V[x] = x /\ W[x] = x
    <3>1. \A x \in R \cap Effects(c) : x \in Positions /\ NextEffect(c, x, nu) = x
      BY NextEffectSteps
    <3>2. \A x \in R \cap Effects(d) : NextEffect(d, x, nu) = x
      BY <1>10, NextEffectSteps
    <3> QED
      BY <2>1, <3>1, <3>2
  <2>4. ASSUME NEW x \in R \ Effects(c) PROVE V[x] = V[Goes(c, x, nu)] /\ W[x] = W[Goes(d, x, nu)]
    <3>1. /\ x \in Positions /\ x \notin Effects(d) /\ Goes(c, x, nu) \in Positions
          /\ Goes(d, x, nu) = Goes(c, x, nu)
      BY <1>2, <1>12, <2>1
    <3>2. NextEffect(c, x, nu) = NextEffect(c, Goes(c, x, nu), nu)
      BY <3>1, NextEffectSteps
    <3>3. NextEffect(d, x, nu) = NextEffect(d, Goes(d, x, nu), nu)
      BY <1>10, <3>1, NextEffectSteps
    <3> QED
      BY <3>1, <3>2, <3>3
  <2>5. V[a] = NextEffect(d, a, nu) /\ W[a] = NextEffect(c, a, nu)
    BY <1>2
  <2> HIDE DEF V, W
  <2> QED
    BY <1>2, <1>10, <2>1, <2>2, <2>3, <2>4, <2>5, LeadAlike
<1>14. ASSUME NEW k \in Positions, d[k].op = "ins" PROVE c[k].op = "ins" /\ k + 1 \in R
  <2>1. k \in R /\ d[k] = c[k]
    BY <1>7, <1>14
  <2> QED
    BY <1>4, <1>14, <2>1
<1>15. Resumes(d) \subseteq Resumes(c) /\ \A p \in Resumes(d) : p + 1 \in R
  BY <1>1, <1>3, <1>4, <1>14 DEF Resumes
<1>16. Branches(d) \subseteq Branches(c)
  BY <1>1, <1>3, <1>5 DEF Branches
<1> QED
  BY <1>10, <1>13, <1>15, <1>16 DEF SameFlow

-----------------------------------------------------------------------------
(* The inductive invariant: the code is sound and executes what the source *)
(* executes, and while opt_jumps runs the counts are exact.                *)
JumpInv ==
  /\ source \in Generated
  /\ at \in 0..MaxCode
  /\ Sound(code)
  /\ at > 0 => lrefs = Counted(code)
  /\ SameFlow(source, code)

(* What the generator emits is sound.                                      *)
LEMMA GeneratedSound ==
  ASSUME NEW c \in Generated
  PROVE  Sound(c)
<1>1. /\ c \in [Positions -> Instr] /\ c[MaxCode].op = "ret"
      /\ \A l \in Labels : Cardinality(Places(c, l)) <= 1 /\ (JumpsTo(c, l) # {} => Places(c, l) # {})
  BY DEF Generated, Positions
<1>2. DOMAIN c = Positions /\ IsFiniteSet(Positions)
  BY <1>1, CodeLength, MaxCodePositive, FS_Interval DEF Positions
<1>3. ASSUME NEW l \in Labels, NEW p \in Places(c, l), NEW q \in Places(c, l) PROVE p = q
  <2>1. SUFFICES ASSUME p # q PROVE FALSE
    OBVIOUS
  <2>2. Places(c, l) \in SUBSET Positions
    BY <1>2 DEF Places
  <2>3. IsFiniteSet(Places(c, l))
    BY <1>2, <2>2, FS_Subset
  <2>4. Cardinality({p, q}) <= Cardinality(Places(c, l))
    BY <2>3, FS_Subset
  <2>5. Cardinality({p, q}) = 2
    <3>1. IsFiniteSet({p}) /\ Cardinality({p}) = 1
      BY FS_Singleton
    <3>2. Cardinality({p} \cup {q}) = 2
      <4> DEFINE S == {p}
      <4>1. IsFiniteSet(S) /\ Cardinality(S) = 1 /\ q \notin S
        BY <2>1, <3>1
      <4> HIDE DEF S
      <4>2. Cardinality(S \cup {q}) = Cardinality(S) + 1
        BY <4>1, FS_AddElement
      <4>3. Cardinality(S \cup {q}) = 2
        BY <4>1, <4>2
      <4> QED
        BY <4>3 DEF S
    <3>3. {p} \cup {q} = {p, q}
      OBVIOUS
    <3> QED
      BY <3>2, <3>3
  <2>6. Cardinality(Places(c, l)) <= 1 /\ Cardinality(Places(c, l)) \in Nat
    BY <1>1, <2>3, FS_CardinalityType
  <2> QED
    BY <2>4, <2>5, <2>6
<1> QED
  BY <1>1, <1>3 DEF Sound

(* Counts are natural numbers.                                             *)
LEMMA CountsAreNumbers ==
  ASSUME NEW c, Sound(c)
  PROVE  Counted(c) \in [Labels -> Nat]
<1>1. DOMAIN c = Positions /\ IsFiniteSet(Positions)
  BY CodeLength, MaxCodePositive, FS_Interval DEF Positions, Sound
<1>2. ASSUME NEW l \in Labels PROVE Cardinality(JumpsTo(c, l)) \in Nat
  <2>1. JumpsTo(c, l) \in SUBSET Positions
    BY <1>1 DEF JumpsTo
  <2> QED
    BY <1>1, <2>1, FS_Subset, FS_CardinalityType
<1> QED
  BY <1>2 DEF Counted

(* JumpInv holds throughout.                                               *)
LEMMA JumpInvariant == Spec => []JumpInv
<1>1. Init => JumpInv
  <2> SUFFICES ASSUME Init PROVE JumpInv
    OBVIOUS
  <2>1. Sound(source)
    BY GeneratedSound DEF Init
  <2> QED
    BY <2>1, MaxCodePositive, FlowOfNothing DEF Init, JumpInv
<1>2. JumpInv /\ [Next]_vars => JumpInv'
  <2> SUFFICES ASSUME JumpInv, [Next]_vars PROVE JumpInv'
    OBVIOUS
  <2> USE DEF JumpInv
  <2>1. Len(code) = MaxCode /\ MaxCode \in Nat \ {0}
    BY CodeLength, MaxCodePositive DEF Sound
  <2>2. CASE Unreachable
    <3>1. code' = [k \in DOMAIN code |-> IF BlockOf(code, k) \in Reachable(code) \cup {1} \/ k = Len(code)
                                       THEN code[k] ELSE Nop]
      BY <2>2 DEF Unreachable
    <3>2. Sound(code') /\ SameFlow(code, code')
      BY <3>1, UnreachableOut
    <3>3. SameFlow(source, code')
      BY <3>2, FlowComposes
    <3>4. source' = source /\ at' = 1 /\ lrefs' = Counted(code')
      BY <2>2 DEF Unreachable
    <3> QED
      BY <2>1, <3>2, <3>3, <3>4
  <2>3. CASE JumpStep
    <3> DEFINE st == [c |-> code, refs |-> lrefs]
               done == Worked(st, at)
    <3>1. at \in Positions /\ at \in 1..MaxCode - 1 /\ at > 0
      BY <2>1, <2>3 DEF JumpStep, Positions
    <3>2. st.c = code /\ st.refs = lrefs /\ Exact(st)
      BY <3>1 DEF Exact
    <3>3. code' = done.c /\ lrefs' = done.refs /\ at' = at + 1 /\ source' = source
      BY <2>3 DEF JumpStep
    <3> HIDE DEF st
    <3>4. Exact(done) /\ SameFlow(st.c, done.c)
      BY <3>1, <3>2, WorkKeeps
    <3> HIDE DEF done
    <3>5. done.refs = Counted(done.c) /\ Sound(done.c)
      BY <3>4 DEF Exact
    <3>6. SameFlow(source, done.c)
      BY <3>2, <3>4, FlowComposes
    <3> QED
      BY <2>1, <3>1, <3>3, <3>5, <3>6
  <2>4. CASE NextRound
    BY <2>1, <2>4 DEF NextRound
  <2>5. CASE UNCHANGED vars
    BY <2>5 DEF vars
  <2> QED
    BY <2>2, <2>3, <2>4, <2>5 DEF Next
<1> QED
  BY <1>1, <1>2, PTL DEF Spec

(* The variables of the passes have their types; the counts never fall     *)
(* below zero, and there are never more rounds than allowed.               *)
THEOREM JumpTypes == Spec => []TypeOK
<1> DEFINE Rest == changed \in BOOLEAN /\ round \in 1..MaxRounds /\ (at = 0 => lrefs \in [Labels -> Nat])
<1>1. Init => Rest
  <2> SUFFICES ASSUME Init PROVE Rest
    OBVIOUS
  <2>1. changed = FALSE /\ round = 1 /\ lrefs = [l \in Labels |-> 0]
    BY DEF Init
  <2>2. 1 \in 1..MaxRounds
    BY LimitsPositive
  <2> QED
    BY <2>1, <2>2
<1>2. JumpInv /\ Rest /\ [Next]_vars => Rest'
  <2> SUFFICES ASSUME JumpInv, Rest, [Next]_vars PROVE Rest'
    OBVIOUS
  <2>1. Sound(code) /\ MaxCode \in Nat \ {0} /\ Len(code) = MaxCode /\ MaxRounds \in Nat
    BY MaxCodePositive, LimitsPositive, CodeLength DEF JumpInv, Sound
  <2>2. CASE Unreachable
    BY <2>2 DEF Unreachable
  <2>3. CASE JumpStep
    <3>1. at' # 0
      BY <2>1, <2>3 DEF JumpStep
    <3> QED
      BY <2>3, <3>1 DEF JumpStep
  <2>4. CASE NextRound
    <3>1. lrefs = Counted(code)
      BY <2>1, <2>4 DEF NextRound, JumpInv
    <3>2. lrefs \in [Labels -> Nat]
      BY <2>1, <3>1, CountsAreNumbers
    <3> QED
      BY <2>1, <2>4, <3>2 DEF NextRound, RoundsLeft
  <2>5. CASE UNCHANGED vars
    BY <2>5 DEF vars
  <2> QED
    BY <2>2, <2>3, <2>4, <2>5 DEF Next
<1>3. JumpInv /\ Rest => TypeOK
  <2> SUFFICES ASSUME JumpInv, Rest PROVE TypeOK
    OBVIOUS
  <2>1. lrefs \in [Labels -> Nat]
    BY CountsAreNumbers DEF JumpInv
  <2> QED
    BY <2>1 DEF TypeOK, JumpInv, Sound, Positions
<1> QED
  BY <1>1, <1>2, <1>3, JumpInvariant, PTL DEF Spec

(* Whatever the conditions are, the code executes the same instructions in *)
(* the same order as the source, after every single rewriting of every     *)
(* round (opts/cfg.c:5-111).                                               *)
THEOREM FlowSafe == Spec => []FlowKept
<1>1. JumpInv => FlowKept
  <2> SUFFICES ASSUME JumpInv,
                      NEW p \in {0} \cup {k \in DOMAIN code : code[k].op = "ins"},
                      NEW nu \in [Branches(source) -> BOOLEAN]
               PROVE  NextEffect(code, p + 1, nu) = NextEffect(source, p + 1, nu)
    BY DEF FlowKept
  <2>1. p \in Resumes(code)
    BY DEF Resumes
  <2>2. Decided(source, nu)
    BY DEF Decided
  <2> QED
    BY <2>1, <2>2 DEF JumpInv, SameFlow
<1> QED
  BY <1>1, JumpInvariant, PTL

(* The counts of the labels and the control flow graph are exact in every  *)
(* code the passes make, and every jump finds its label                    *)
(* (opts/cfg.c:29-111, ir/cfg.c:6-110).                                    *)
THEOREM TablesSound == Spec => []TablesExact
<1>1. JumpInv => TablesExact
  <2> SUFFICES ASSUME JumpInv PROVE TablesExact
    OBVIOUS
  <2>1. Sound(code) /\ (at > 0 => lrefs = Counted(code))
    BY DEF JumpInv
  <2>2. ASSUME NEW l \in Labels, JumpsTo(code, l) # {} PROVE Cardinality(Places(code, l)) = 1
    <3>1. PICK p : p \in Places(code, l)
      BY <2>1, <2>2 DEF Sound
    <3>2. Places(code, l) = {p}
      BY <2>1, <3>1 DEF Sound
    <3> QED
      BY <3>2, FS_Singleton
  <2>3. RefsExact
    BY <2>1, <2>2 DEF RefsExact
  <2>4. GraphExact
    BY <2>1, SoundGraph DEF GraphExact
  <2> QED
    BY <2>3, <2>4 DEF TablesExact
<1> QED
  BY <1>1, JumpInvariant, PTL
=============================================================================
