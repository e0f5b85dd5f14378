----------------------------- MODULE VintProofs -----------------------------
(***************************************************************************)
(* What vint::read and the operators of the file below it give, for bytes  *)
(* of any width and files of any length.                                   *)
(***************************************************************************)
EXTENDS Vint, RecursionLemmas

-----------------------------------------------------------------------------
(* The equation of Power2 holds.                                           *)
LEMMA Power2Equation ==
  /\ Power2 \in [Nat -> Nat]
  /\ Power2 = [n \in Nat |-> IF n = 0 THEN 1 ELSE 2 * Power2[n - 1]]
  <1> DEFINE rank == [n \in Nat |-> n]
             step == [n \in Nat |-> [f \in [Nat -> Nat] |->
                        IF n = 0 THEN 1 ELSE 2 * f[n - 1]]]
  <1>1. rank \in [Nat -> Nat] /\ step \in [Nat -> [[Nat -> Nat] -> Nat]]
    OBVIOUS
  <1>2. \A n \in Nat : \A f, g \in [Nat -> Nat] :
          (\A e \in Nat : rank[e] < rank[n] => f[e] = g[e]) => step[n][f] = step[n][g]
    OBVIOUS
  <1>3. PICK f \in [Nat -> Nat] : \A n \in Nat : f[n] = step[n][f]
    <2>1. LooksLower(Nat, Nat, rank, step)
      BY <1>1, <1>2 DEF LooksLower
    <2> HIDE DEF rank, step
    <2>2. PICK N : N = Nat
      OBVIOUS
    <2>3. N # {} /\ LooksLower(N, N, rank, step)
      BY <2>1, <2>2
    <2>4. PICK f \in [N -> N] : \A n \in N : f[n] = step[n][f]
      BY <2>3, RecursionByRank
    <2>5. f \in [Nat -> Nat] /\ \A n \in Nat : f[n] = step[n][f]
      BY <2>2, <2>4
    <2> QED
      BY <2>5
  <1>4. f = [n \in Nat |-> IF n = 0 THEN 1 ELSE 2 * f[n - 1]]
    <2>1. \A n \in Nat : f[n] = IF n = 0 THEN 1 ELSE 2 * f[n - 1]
      BY <1>3
    <2> QED
      BY <2>1
  <1>5. Power2 = [n \in Nat |-> IF n = 0 THEN 1 ELSE 2 * Power2[n - 1]]
    BY <1>4 DEF Power2
  <1> DEFINE S == {n \in Nat : Power2[n] \in Nat}
  <1>6. 0 \in S
    BY <1>5
  <1>7. \A n \in Nat : n \in S => n + 1 \in S
    BY <1>5
  <1>8. Nat \subseteq S
    <2> HIDE DEF S
    <2> QED
      BY <1>6, <1>7, Induction
  <1> QED
    BY <1>5, <1>8

(* A power is positive, and twice the one before.                          *)
LEMMA Power2Step ==
  /\ Power2[0] = 1
  /\ \A n \in Nat : Power2[n] \in Nat \ {0} /\ Power2[n + 1] = 2 * Power2[n]
  <1>1. Power2[0] = 1 /\ \A n \in Nat : Power2[n + 1] = 2 * Power2[n]
    BY Power2Equation
  <1> DEFINE S == {n \in Nat : Power2[n] # 0}
  <1>2. 0 \in S /\ \A n \in Nat : n \in S => n + 1 \in S
    BY <1>1, Power2Equation
  <1>3. Nat \subseteq S
    <2> HIDE DEF S
    <2> QED
      BY <1>2, Induction
  <1> QED
    BY <1>1, <1>3, Power2Equation

(* Exponents add up.                                                       *)
LEMMA Power2Sum ==
  ASSUME NEW m \in Nat, NEW n \in Nat
  PROVE  Power2[m + n] = Power2[m] * Power2[n]
  <1> DEFINE S == {k \in Nat : Power2[m + k] = Power2[m] * Power2[k]}
  <1>1. 0 \in S
    BY Power2Step
  <1>2. ASSUME NEW k \in Nat, k \in S PROVE k + 1 \in S
    <2>1. Power2[m + (k + 1)] = 2 * Power2[m + k]
      <3>1. m + (k + 1) = (m + k) + 1 /\ m + k \in Nat
        OBVIOUS
      <3> QED
        BY <3>1, Power2Step
    <2>2. Power2[k + 1] = 2 * Power2[k] /\ Power2[k] \in Nat /\ Power2[m] \in Nat
      BY Power2Step
    <2>3. \A a, b \in Nat : a * (2 * b) = 2 * (a * b)
      OBVIOUS
    <2> QED
      BY <1>2, <2>1, <2>2, <2>3
  <1>3. Nat \subseteq S
    <2> HIDE DEF S
    <2> QED
      BY <1>1, <1>2, Induction
  <1> QED
    BY <1>3

(* A larger exponent gives a larger power.                                 *)
LEMMA Power2Monotonic ==
  ASSUME NEW m \in Nat, NEW n \in Nat, m <= n
  PROVE  Power2[m] <= Power2[n]
  <1>1. PICK k \in Nat : n = m + k
    <2>1. n - m \in Nat /\ n = m + (n - m)
      OBVIOUS
    <2> QED
      BY <2>1
  <1>2. Power2[n] = Power2[m] * Power2[k]
    BY <1>1, Power2Sum
  <1>3. Power2[m] \in Nat /\ Power2[k] \in Nat \ {0}
    BY Power2Step
  <1>4. \A a \in Nat, b \in Nat \ {0} : a <= a * b
    OBVIOUS
  <1> QED
    BY <1>2, <1>3, <1>4

(* A byte more, a factor more.                                             *)
LEMMA PowerOfByte ==
  ASSUME NEW n \in Nat
  PROVE  /\ Power2[ByteBits * n] \in Nat \ {0}
         /\ Power2[ByteBits * (n + 1)] = Power2[ByteBits] * Power2[ByteBits * n]
  <1>1. ByteBits * (n + 1) = ByteBits + ByteBits * n /\ ByteBits * n \in Nat /\ ByteBits \in Nat
    BY ByteAssumption
  <1>2. PICK m \in Nat : m = ByteBits * n
    BY <1>1
  <1>3. Power2[m] \in Nat \ {0} /\ Power2[ByteBits + m] = Power2[ByteBits] * Power2[m]
    BY <1>1, Power2Sum, Power2Step
  <1> QED
    BY <1>1, <1>2, <1>3

-----------------------------------------------------------------------------
(* get_uint_be: the value of the first n bytes, for all n up to a length.  *)
LEMMA UintOf ==
  ASSUME NEW n \in Nat, NEW s, \A i \in 1 .. n : s[i] \in Nat
  PROVE  \E v \in [0 .. n -> Nat] :
           /\ v[0] = 0
           /\ \A i \in 1 .. n : v[i] = Power2[ByteBits] * v[i - 1] + s[i]
           /\ get_uint_be(s, n) = v[n]
  <1>1. PICK P \in Nat : P = Power2[ByteBits]
    BY Power2Step, ByteAssumption
  <1>2. PICK v \in [0 .. n -> Nat] :
          v[0] = 0 /\ \A i \in 1 .. n : v[i] = P * v[i - 1] + s[i]
    <2>1. PICK T : T = Nat
      OBVIOUS
    <2> DEFINE step == [i \in 1 .. n |-> [x \in T |-> P * x + s[i]]]
    <2>2. PICK zero \in T : zero = 0
      BY <2>1
    <2> step \in [1 .. n -> [T -> T]]
      BY <2>1
    <2>3. PICK v \in [0 .. n -> T] : Iterates(v, n, zero, step)
      <3> HIDE DEF step
      <3> QED
        BY PrimitiveRecursion
    <2>4. \A i \in 1 .. n : i - 1 \in 0 .. n
      OBVIOUS
    <2>5. v \in [0 .. n -> Nat] /\ v[0] = 0 /\ \A i \in 1 .. n : v[i] = P * v[i - 1] + s[i]
      BY <2>1, <2>2, <2>3, <2>4 DEF Iterates
    <2> QED
      BY <2>5
  <1> DEFINE Solves(w) ==
               w = [i \in 0 .. n |-> IF i = 0 THEN 0
                                     ELSE Power2[ByteBits] * w[i - 1] + s[i]]
             value == CHOOSE w : Solves(w)
  <1>3. get_uint_be(s, n) = value[n]
    BY DEF get_uint_be
  <1>4. Solves(v)
    BY <1>1, <1>2
  <1>5. Solves(value)
    BY <1>4
  <1> HIDE DEF value
  <1> DEFINE S == {k \in Nat : k \in 0 .. n => value[k] = v[k]}
  <1>6. 0 \in S /\ \A k \in Nat : k \in S => k + 1 \in S
    <2>1. \A i \in 0 .. n :
            value[i] = IF i = 0 THEN 0 ELSE Power2[ByteBits] * value[i - 1] + s[i]
      BY <1>5, Zenon
    <2>2. value[0] = 0 /\ \A i \in 1 .. n : value[i] = P * value[i - 1] + s[i]
      BY <2>1, <1>1
    <2> QED
      BY <1>2, <2>2
  <1>7. Nat \subseteq S
    <2> HIDE DEF S
    <2> QED
      BY <1>6, Induction
  <1>8. value[n] = v[n]
    BY <1>7
  <1> QED
    BY <1>1, <1>2, <1>3, <1>8

(* The number that the n bytes behind a position of a file are.            *)
Number(bytes, from, n) == get_uint_be([i \in 1 .. n |-> bytes[from + i]], n)

(* No bytes are zero.                                                      *)
LEMMA NumberOfNone ==
  ASSUME NEW b, NEW from
  PROVE  Number(b, from, 0) = 0
  <1> DEFINE s == [i \in 1 .. 0 |-> b[from + i]]
  <1>1. \A i \in 1 .. 0 : s[i] \in Nat
    OBVIOUS
  <1>2. get_uint_be(s, 0) = 0
    <2> HIDE DEF s
    <2> QED
      BY <1>1, UintOf
  <1> QED
    BY <1>2 DEF Number

(* One byte more is shifted in from the right.                             *)
LEMMA NumberStep ==
  ASSUME NEW b, NEW from \in Nat, NEW n \in Nat,
         \A i \in 1 .. n + 1 : b[from + i] \in Nat
  PROVE  /\ Number(b, from, n) \in Nat
         /\ Number(b, from, n + 1) = Power2[ByteBits] * Number(b, from, n) + b[from + n + 1]
  <1> DEFINE s == [i \in 1 .. n |-> b[from + i]]
             t == [i \in 1 .. n + 1 |-> b[from + i]]
  <1>1. /\ \A i \in 1 .. n : s[i] \in Nat
        /\ \A i \in 1 .. n + 1 : t[i] \in Nat
        /\ \A i \in 1 .. n : s[i] = t[i]
        /\ n + 1 \in Nat /\ n + 1 \in 1 .. n + 1 /\ (n + 1) - 1 = n
        /\ t[n + 1] = b[from + n + 1]
    OBVIOUS
  <1> HIDE DEF s, t
  <1>2. PICK v \in [0 .. n -> Nat] :
          /\ v[0] = 0
          /\ \A i \in 1 .. n : v[i] = Power2[ByteBits] * v[i - 1] + s[i]
          /\ get_uint_be(s, n) = v[n]
    BY <1>1, UintOf
  <1>3. PICK w \in [0 .. n + 1 -> Nat] :
          /\ w[0] = 0
          /\ \A i \in 1 .. n + 1 : w[i] = Power2[ByteBits] * w[i - 1] + t[i]
          /\ get_uint_be(t, n + 1) = w[n + 1]
    BY <1>1, UintOf
  <1> DEFINE S == {k \in Nat : k \in 0 .. n => v[k] = w[k]}
  <1>4. 0 \in S /\ \A k \in Nat : k \in S => k + 1 \in S
    <2>1. 0 \in S
      BY <1>2, <1>3
    <2>2. ASSUME NEW k \in Nat, k \in S, k + 1 \in 0 .. n PROVE v[k + 1] = w[k + 1]
      <3>1. k + 1 \in 1 .. n /\ k + 1 \in 1 .. n + 1 /\ (k + 1) - 1 = k /\ k \in 0 .. n
        BY <2>2
      <3>2. v[k + 1] = Power2[ByteBits] * v[k] + s[k + 1]
        BY <1>2, <3>1
      <3>3. w[k + 1] = Power2[ByteBits] * w[k] + t[k + 1]
        BY <1>3, <3>1
      <3> QED
        BY <2>2, <3>1, <3>2, <3>3, <1>1
    <2> QED
      BY <2>1, <2>2
  <1>5. Nat \subseteq S
    <2> HIDE DEF S
    <2> QED
      BY <1>4, Induction
  <1>6. v[n] = w[n] /\ v[n] \in Nat
    BY <1>5
  <1>7. w[n + 1] = Power2[ByteBits] * w[n] + b[from + n + 1]
    BY <1>1, <1>3
  <1>8. Number(b, from, n) = v[n] /\ Number(b, from, n + 1) = w[n + 1]
    BY <1>2, <1>3 DEF Number, s, t
  <1> QED
    BY <1>6, <1>7, <1>8

(* One byte is itself.                                                     *)
LEMMA NumberOfOne ==
  ASSUME NEW b, NEW from \in Nat, b[from + 1] \in Nat
  PROVE  Number(b, from, 0 + 1) = b[from + 1]
  <1>1. PICK P \in Nat \ {0} : P = Power2[ByteBits]
    BY Power2Step, ByteAssumption
  <1>2. \A i \in 1 .. 0 + 1 : b[from + i] \in Nat
    OBVIOUS
  <1>3. Number(b, from, 0 + 1) = P * Number(b, from, 0) + b[from + 0 + 1]
    BY <1>1, <1>2, NumberStep
  <1>4. Number(b, from, 0) = 0
    BY NumberOfNone
  <1> QED
    BY <1>3, <1>4

(* n bytes hold no more than n bytes can.                                  *)
LEMMA NumberRange ==
  ASSUME NEW b, NEW from \in Nat, NEW n \in Nat,
         \A i \in 1 .. n : b[from + i] \in Byte
  PROVE  Number(b, from, n) \in 0 .. Power2[ByteBits * n] - 1
  <1> DEFINE S == {k \in Nat : k <= n => Number(b, from, k) \in 0 .. Power2[ByteBits * k] - 1}
  <1>1. Power2[ByteBits] \in Nat \ {0}
    BY Power2Step, ByteAssumption
  <1>2. 0 \in S
    <2>1. ByteBits * 0 = 0
      BY ByteAssumption
    <2> QED
      BY <2>1, NumberOfNone, Power2Step
  <1>3. ASSUME NEW k \in Nat, k \in S, k + 1 <= n
        PROVE  Number(b, from, k + 1) \in 0 .. Power2[ByteBits * (k + 1)] - 1
    <2>1. \A i \in 1 .. k + 1 : b[from + i] \in Byte
      BY <1>3
    <2>2. \A i \in 1 .. k + 1 : b[from + i] \in Nat
      BY <2>1 DEF Byte
    <2>3. Number(b, from, k + 1) = Power2[ByteBits] * Number(b, from, k) + b[from + k + 1]
      BY <2>2, NumberStep
    <2>4. Power2[ByteBits * (k + 1)] = Power2[ByteBits] * Power2[ByteBits * k]
      BY PowerOfByte
    <2>5. b[from + k + 1] \in 0 .. Power2[ByteBits] - 1
      <3>1. from + (k + 1) = from + k + 1 /\ k + 1 \in 1 .. k + 1
        OBVIOUS
      <3> QED
        BY <2>1, <3>1 DEF Byte
    <2>6. Number(b, from, k) \in 0 .. Power2[ByteBits * k] - 1
      BY <1>3
    <2>7. Power2[ByteBits * k] \in Nat \ {0}
      BY PowerOfByte
    <2>8. \A P, Q \in Nat \ {0} : \A x \in 0 .. Q - 1 : \A y \in 0 .. P - 1 :
            P * x + y \in 0 .. P * Q - 1
      <3>1. ASSUME NEW P \in Nat \ {0}, NEW Q \in Nat \ {0}, NEW x \in 0 .. Q - 1, NEW y \in 0 .. P - 1
            PROVE  P * x + y \in 0 .. P * Q - 1
        <4>1. P * x <= P * (Q - 1) /\ P * x \in Nat
          OBVIOUS
        <4>2. P * (Q - 1) = P * Q - P
          OBVIOUS
        <4> QED
          BY <4>1, <4>2
      <3> QED
        BY <3>1
    <2> QED
      BY <1>1, <2>3, <2>4, <2>5, <2>6, <2>7, <2>8
  <1>4. \A k \in Nat : k \in S => k + 1 \in S
    <2>1. \A k \in Nat : k + 1 <= n => k <= n
      OBVIOUS
    <2> QED
      BY <1>3, <2>1
  <1>5. Nat \subseteq S
    <2> HIDE DEF S
    <2> QED
      BY <1>2, <1>4, Induction
  <1> QED
    BY <1>5

(* The first byte is the most significant one.                             *)
LEMMA NumberFront ==
  ASSUME NEW b, NEW from \in Nat, NEW n \in Nat,
         \A i \in 1 .. n + 1 : b[from + i] \in Byte
  PROVE  /\ Number(b, from, n + 1) = b[from + 1] * Power2[ByteBits * n] + Number(b, from + 1, n)
         /\ Number(b, from + 1, n) \in 0 .. Power2[ByteBits * n] - 1
         /\ b[from + 1] \in Nat
  <1> DEFINE S == {k \in Nat : k <= n =>
                     Number(b, from, k + 1) =
                       b[from + 1] * Power2[ByteBits * k] + Number(b, from + 1, k)}
  <1>1. PICK P \in Nat \ {0} : P = Power2[ByteBits]
    BY Power2Step, ByteAssumption
  <1>2. \A i \in 1 .. n + 1 : b[from + i] \in Nat
    BY DEF Byte
  <1>3. 0 \in S
    <2>1. ByteBits * 0 = 0
      BY ByteAssumption
    <2>2. Number(b, from, 0 + 1) = P * Number(b, from, 0) + b[from + 0 + 1]
      <3>1. \A i \in 1 .. 0 + 1 : b[from + i] \in Nat
        BY <1>2
      <3> QED
        BY <1>1, <3>1, NumberStep
    <2>3. Number(b, from, 0) = 0 /\ Number(b, from + 1, 0) = 0
      BY NumberOfNone
    <2>4. b[from + 1] \in Nat
      BY <1>2
    <2> QED
      BY <2>1, <2>2, <2>3, <2>4, Power2Step
  <1>4. ASSUME NEW k \in Nat, k \in S, k + 1 <= n
        PROVE  Number(b, from, (k + 1) + 1) =
                 b[from + 1] * Power2[ByteBits * (k + 1)] + Number(b, from + 1, k + 1)
    <2>1. Number(b, from, (k + 1) + 1) = P * Number(b, from, k + 1) + b[from + (k + 1) + 1]
      <3>1. PICK m \in Nat : m = k + 1
        OBVIOUS
      <3>2. \A i \in 1 .. m + 1 : b[from + i] \in Nat
        BY <1>2, <1>4, <3>1
      <3>3. Number(b, from, m + 1) = P * Number(b, from, m) + b[from + m + 1]
        BY <1>1, <3>2, NumberStep, ZenonT(30)
      <3> QED
        BY <3>1, <3>3
    <2>2. /\ Number(b, from + 1, k + 1) = P * Number(b, from + 1, k) + b[(from + 1) + k + 1]
          /\ Number(b, from + 1, k) \in Nat
      <3>1. PICK behind \in Nat : behind = from + 1
        OBVIOUS
      <3>2. \A i \in 1 .. k + 1 : i + 1 \in 1 .. n + 1 /\ behind + i = from + (i + 1)
        BY <1>4, <3>1
      <3>3. \A i \in 1 .. k + 1 : b[behind + i] \in Nat
        BY <1>2, <3>2
      <3>4. /\ Number(b, behind, k + 1) = P * Number(b, behind, k) + b[behind + k + 1]
            /\ Number(b, behind, k) \in Nat
        BY <1>1, <3>3, NumberStep, ZenonT(30)
      <3> QED
        BY <3>1, <3>4
    <2>3. Power2[ByteBits * (k + 1)] = P * Power2[ByteBits * k] /\ Power2[ByteBits * k] \in Nat
      BY <1>1, PowerOfByte
    <2>4. Number(b, from, k + 1) = b[from + 1] * Power2[ByteBits * k] + Number(b, from + 1, k)
      BY <1>4
    <2>5. b[from + 1] \in Nat /\ b[from + (k + 1) + 1] \in Nat
          /\ from + (k + 1) + 1 = (from + 1) + k + 1
      <3>1. 1 \in 1 .. n + 1 /\ k + 2 \in 1 .. n + 1 /\ from + (k + 1) + 1 = from + (k + 2)
        BY <1>4
      <3> QED
        BY <1>2, <3>1
    <2>6. \A x, y, q \in Nat : P * (x * q + y) = x * (P * q) + P * y
      OBVIOUS
    <2>7. P * Number(b, from, k + 1) =
            b[from + 1] * Power2[ByteBits * (k + 1)] + P * Number(b, from + 1, k)
      BY <2>2, <2>3, <2>4, <2>5, <2>6
    <2>8. b[from + 1] * Power2[ByteBits * (k + 1)] \in Nat /\ P * Number(b, from + 1, k) \in Nat
      <3>1. \A x, y \in Nat : x * y \in Nat
        OBVIOUS
      <3> QED
        BY <2>2, <2>3, <2>5, <3>1
    <2> QED
      BY <2>1, <2>2, <2>5, <2>7, <2>8
  <1>5. \A k \in Nat : k \in S => k + 1 \in S
    BY <1>4
  <1>6. Nat \subseteq S
    <2> HIDE DEF S
    <2> QED
      BY <1>3, <1>5, Induction
  <1>7. Number(b, from + 1, n) \in 0 .. Power2[ByteBits * n] - 1
    <2>1. \A i \in 1 .. n : i + 1 \in 1 .. n + 1 /\ (from + 1) + i = from + (i + 1)
      OBVIOUS
    <2>2. PICK behind \in Nat : behind = from + 1
      OBVIOUS
    <2>3. \A i \in 1 .. n : b[behind + i] \in Byte
      BY <2>1, <2>2
    <2>4. Number(b, behind, n) \in 0 .. Power2[ByteBits * n] - 1
      BY <2>3, NumberRange
    <2> QED
      BY <2>2, <2>4
  <1>8. b[from + 1] \in Nat
    BY <1>2
  <1> QED
    BY <1>6, <1>7, <1>8

(* What is a byte.                                                         *)
AreBytes(bytes, from, n) == \A i \in 1 .. n : bytes[from + i] \in Byte

(* The same, with what the first byte leaves as some number.               *)
LEMMA NumberSplit ==
  ASSUME NEW b, NEW from \in Nat, NEW n \in Nat, AreBytes(b, from, n + 1)
  PROVE  \E rest \in 0 .. Power2[ByteBits * n] - 1 :
           Number(b, from, n + 1) = b[from + 1] * Power2[ByteBits * n] + rest
  <1>1. /\ Number(b, from, n + 1) = b[from + 1] * Power2[ByteBits * n] + Number(b, from + 1, n)
        /\ Number(b, from + 1, n) \in 0 .. Power2[ByteBits * n] - 1
    BY NumberFront DEF AreBytes
  <1> QED
    BY <1>1

(* A quotient and a remainder are what they are defined by.                *)
LEMMA DivisionUnique ==
  ASSUME NEW q \in Nat, NEW d \in Nat \ {0}, NEW r \in 0 .. d - 1
  PROVE  (q * d + r) \div d = q /\ (q * d + r) % d = r
  <1> DEFINE n == q * d + r
             x == n \div d
             y == n % d
  <1>1. n \in Nat /\ q * d \in Nat
    OBVIOUS
  <1>2. x \in Int /\ y \in 0 .. d - 1 /\ n = d * x + y
    <2> HIDE DEF n
    <2> QED
      BY <1>1
  <1>3. d * x - d * q = r - y
    BY <1>1, <1>2
  <1>4. d * (x - q) = r - y
    BY <1>2, <1>3
  <1>5. r - y < d /\ r - y > -d
    BY <1>2
  <1>6. x - q <= 0
    <2> SUFFICES ASSUME x - q >= 1 PROVE FALSE
      BY <1>2
    <2>1. \A z \in Int : z >= 1 => d * z >= d
      OBVIOUS
    <2> HIDE DEF x, y
    <2> QED
      BY <1>2, <1>4, <1>5, <2>1
  <1>7. x - q >= 0
    <2> SUFFICES ASSUME x - q <= -1 PROVE FALSE
      BY <1>2
    <2>1. \A z \in Int : z <= -1 => d * z <= -d
      OBVIOUS
    <2> HIDE DEF x, y
    <2> QED
      BY <1>2, <1>4, <1>5, <2>1
  <1>8. x = q
    <2> HIDE DEF x, y
    <2> QED
      BY <1>2, <1>6, <1>7
  <1>9. y = r
    <2> HIDE DEF x, y
    <2> QED
      BY <1>2, <1>3, <1>8
  <1> QED
    BY <1>8, <1>9

(* A window of n bytes that moves on by a byte: what is shifted out at the *)
(* left is the first byte.                                                 *)
LEMMA NumberWindow ==
  ASSUME NEW b, NEW from \in Nat, NEW n \in Nat,
         \A i \in 1 .. n + 1 : b[from + i] \in Byte
  PROVE  (Number(b, from, n) * Power2[ByteBits] + b[from + n + 1]) % Power2[ByteBits * n]
           = Number(b, from + 1, n)
  <1>1. Number(b, from, n) * Power2[ByteBits] + b[from + n + 1] =
          b[from + 1] * Power2[ByteBits * n] + Number(b, from + 1, n)
    <2>1. /\ Number(b, from, n) \in Nat
          /\ Number(b, from, n + 1) = Power2[ByteBits] * Number(b, from, n) + b[from + n + 1]
      <3>1. \A i \in 1 .. n + 1 : b[from + i] \in Nat
        BY DEF Byte
      <3> QED
        BY <3>1, NumberStep
    <2>2. Power2[ByteBits] \in Nat
      BY Power2Step, ByteAssumption
    <2>3. \A x, y \in Nat : x * y = y * x
      OBVIOUS
    <2> QED
      BY <2>1, <2>2, <2>3, NumberFront
  <1>2. Number(b, from + 1, n) \in 0 .. Power2[ByteBits * n] - 1
    BY NumberFront
  <1>3. Power2[ByteBits * n] \in Nat \ {0}
    BY PowerOfByte
  <1>4. b[from + 1] \in Nat
    BY DEF Byte
  <1> QED
    BY <1>1, <1>2, <1>3, <1>4, DivisionUnique

-----------------------------------------------------------------------------
(* The length a first byte announces.                                      *)

(* Below the next power, a bit is set from its own power on.               *)
LEMMA TopBit ==
  ASSUME NEW byte \in Nat, NEW i \in Nat, byte < 2 * Power2[i]
  PROVE  Bit(byte, i) <=> byte >= Power2[i]
  <1>1. PICK q \in Nat \ {0} : q = Power2[i]
    BY Power2Step
  <1>2. CASE byte < q
    <2>1. byte = 0 * q + byte /\ byte \in 0 .. q - 1
      BY <1>2
    <2>2. byte \div q = 0
      BY <2>1, DivisionUnique
    <2> QED
      BY <1>1, <1>2, <2>2 DEF Bit
  <1>3. CASE byte >= q
    <2>1. PICK r \in 0 .. q - 1 : r = byte - q
      BY <1>1, <1>3
    <2>2. byte = 1 * q + r
      BY <2>1, <1>1
    <2>3. byte \div q = 1
      BY <2>2, DivisionUnique
    <2> QED
      BY <1>1, <1>3, <2>3 DEF Bit
  <1> QED
    BY <1>1, <1>2, <1>3

(* The first bit that is set says how large the byte is, and there is one  *)
(* unless the byte is zero.                                                *)
LEMMA ValueLen ==
  ASSUME NEW byte \in Byte
  PROVE  /\ value_len(byte) \in 1 .. ByteBits + 1
         /\ value_len(byte) <= ByteBits =>
              byte \in Power2[ByteBits - value_len(byte)]
                         .. 2 * Power2[ByteBits - value_len(byte)] - 1
         /\ value_len(byte) = ByteBits + 1 => byte = 0
  <1> DEFINE Stops(n) == n = ByteBits + 1 \/ Bit(byte, ByteBits - n)
             Is(n) == Stops(n) /\ \A k \in 1 .. n - 1 : ~Bit(byte, ByteBits - k)
  <1>0. ByteBits \in Nat /\ byte \in Nat /\ byte < Power2[ByteBits]
    BY ByteAssumption, Power2Step DEF Byte
  <1>1. \E n \in 1 .. ByteBits + 1 : Is(n)
    <2> DEFINE S == {n \in 1 .. ByteBits + 1 : Stops(n)}
    <2>1. S \in SUBSET Nat /\ S # {}
      <3>1. ByteBits + 1 \in S
        BY <1>0
      <3> QED
        BY <3>1, <1>0
    <2>2. PICK m \in S : \A n \in S : m <= n
      <3> HIDE DEF S
      <3> QED
        BY <2>1, LeastNatural
    <2>3. m \in 1 .. ByteBits + 1 /\ Stops(m)
      BY <2>2
    <2>4. \A k \in 1 .. m - 1 : k \in 1 .. ByteBits + 1 /\ ~(m <= k)
      BY <1>0, <2>3
    <2>5. \A k \in 1 .. m - 1 : ~Bit(byte, ByteBits - k)
      BY <2>2, <2>4
    <2> QED
      BY <2>3, <2>5
  <1> DEFINE len == value_len(byte)
  <1>2. len \in 1 .. ByteBits + 1 /\ Is(len)
    BY <1>1 DEF value_len
  <1> HIDE DEF len
  <1> DEFINE S == {k \in Nat : k <= len - 1 => byte < Power2[ByteBits - k]}
  <1>3. 0 \in S /\ \A k \in Nat : k \in S => k + 1 \in S
    <2>1. 0 \in S
      BY <1>0
    <2>2. ASSUME NEW k \in Nat, k \in S, k + 1 <= len - 1
          PROVE  byte < Power2[ByteBits - (k + 1)]
      <3>1. PICK i \in Nat : i = ByteBits - (k + 1)
        BY <1>0, <1>2, <2>2
      <3>2. byte < Power2[i + 1] /\ i + 1 = ByteBits - k
        <4>1. k <= len - 1
          BY <1>2, <2>2
        <4>2. byte < Power2[ByteBits - k]
          BY <2>2, <4>1
        <4> QED
          BY <1>0, <3>1, <4>2
      <3>3. byte < 2 * Power2[i]
        BY <3>2, Power2Step
      <3>4. ~Bit(byte, i)
        BY <1>2, <2>2, <3>1
      <3> HIDE DEF S
      <3> QED
        BY <1>0, <3>1, <3>3, <3>4, TopBit, Power2Step
    <2> QED
      BY <2>1, <2>2
  <1>4. Nat \subseteq S
    <2> HIDE DEF S
    <2> QED
      BY <1>3, Induction
  <1>5. PICK last \in Nat : last = len - 1
    BY <1>2
  <1>6. byte < Power2[ByteBits - last]
    BY <1>4, <1>5
  <1>7. ASSUME len <= ByteBits
        PROVE  byte \in Power2[ByteBits - len] .. 2 * Power2[ByteBits - len] - 1
    <2>1. PICK i \in Nat : i = ByteBits - len
      BY <1>0, <1>2, <1>7
    <2>2. ByteBits - last = i + 1
      BY <1>0, <1>2, <1>5, <2>1
    <2>3. byte < 2 * Power2[i] /\ Power2[i] \in Nat
      BY <1>6, <2>2, Power2Step
    <2>4. Bit(byte, i)
      BY <1>0, <1>2, <1>7, <2>1
    <2>5. byte >= Power2[i]
      BY <1>0, <2>3, <2>4, TopBit
    <2> QED
      BY <1>0, <2>1, <2>3, <2>5
  <1>8. ASSUME len = ByteBits + 1 PROVE byte = 0
    <2>1. ByteBits - last = 0
      BY <1>0, <1>5, <1>8
    <2>2. byte < 1
      BY <1>6, <2>1, Power2Step
    <2> QED
      BY <1>0, <2>2
  <1> QED
    BY <1>2, <1>7, <1>8 DEF len

(* Only one length is right for a byte.                                    *)
LEMMA ValueLenIs ==
  ASSUME NEW byte \in Byte, NEW n \in 1 .. ByteBits,
         byte \in Power2[ByteBits - n] .. 2 * Power2[ByteBits - n] - 1
  PROVE  value_len(byte) = n
  <1>1. ByteBits \in Nat /\ byte \in Nat
    BY ByteAssumption, Power2Step DEF Byte
  <1>2. PICK i \in Nat : i = ByteBits - n
    BY <1>1
  <1>3. Power2[i] \in Nat \ {0} /\ Power2[i + 1] = 2 * Power2[i]
    BY Power2Step
  <1>4. byte # 0
    BY <1>2, <1>3
  <1>5. PICK len \in 1 .. ByteBits : len = value_len(byte)
    BY <1>1, <1>4, ValueLen
  <1>6. PICK j \in Nat : j = ByteBits - len
    BY <1>1, <1>5
  <1>7. Power2[j] \in Nat \ {0} /\ Power2[j + 1] = 2 * Power2[j]
    BY Power2Step
  <1>8. byte \in Power2[j] .. 2 * Power2[j] - 1
    BY <1>5, <1>6, ValueLen
  <1>9. ~(i + 1 <= j)
    <2> SUFFICES ASSUME i + 1 <= j PROVE FALSE
      OBVIOUS
    <2>1. PICK k \in Nat : k = i + 1
      OBVIOUS
    <2>2. Power2[k] <= Power2[j]
      BY <2>1, Power2Monotonic
    <2> QED
      BY <1>1, <1>2, <1>3, <1>7, <1>8, <2>1, <2>2
  <1>10. ~(j + 1 <= i)
    <2> SUFFICES ASSUME j + 1 <= i PROVE FALSE
      OBVIOUS
    <2>1. PICK k \in Nat : k = j + 1
      OBVIOUS
    <2>2. Power2[k] <= Power2[i]
      BY <2>1, Power2Monotonic
    <2> QED
      BY <1>1, <1>2, <1>3, <1>7, <1>8, <2>1, <2>2
  <1> QED
    BY <1>1, <1>2, <1>5, <1>6, <1>9, <1>10

-----------------------------------------------------------------------------
(* An int64_t keeps what fits.                                             *)

(* A word is longer than the bytes of a size.                              *)
LEMMA WordBits ==
  /\ Word \in Nat
  /\ Word - 1 \in Nat
  /\ (ByteBits - 1) * ByteBits + 1 <= Word - 1
  /\ ByteBits * (ByteBits - 1) <= Word - 1
  /\ Power2[Word - 1] \in Nat \ {0}
  /\ Power2[Word] = 2 * Power2[Word - 1]
  <1>1. \A n \in Nat \ {0, 1} : n * n \in Nat /\ n * n >= n /\ (n - 1) * n + 1 <= n * n - 1
                                /\ n * (n - 1) <= n * n - 1
    <2>1. \A n \in Nat \ {0, 1} : n >= 2 /\ (n - 1) * n = n * n - n /\ n * (n - 1) = n * n - n
      OBVIOUS
    <2>2. \A n \in Nat \ {0, 1} : n * n \in Nat /\ n * n >= n
      OBVIOUS
    <2> QED
      BY <2>1, <2>2
  <1>2. /\ Word \in Nat
        /\ Word - 1 \in Nat
        /\ (ByteBits - 1) * ByteBits + 1 <= Word - 1
        /\ ByteBits * (ByteBits - 1) <= Word - 1
    BY <1>1, ByteAssumption DEF Word
  <1>3. PICK m \in Nat : m = Word - 1
    BY <1>2
  <1>4. m + 1 = Word
    BY <1>2, <1>3
  <1> QED
    BY <1>2, <1>3, <1>4, Power2Step

(* Within a word only the sign is changed.                                 *)
LEMMA SignedIs ==
  ASSUME NEW n \in 0 .. Power2[Word] - 1
  PROVE  Signed(n) = IF n >= Power2[Word - 1] THEN n - Power2[Word] ELSE n
  <1>1. PICK d \in Nat \ {0} : d = Power2[Word]
    BY WordBits
  <1>2. n \in 0 .. d - 1 /\ n = 0 * d + n
    BY <1>1
  <1>3. n % d = n
    BY <1>2, DivisionUnique
  <1> QED
    BY <1>1, <1>3 DEF Signed

(* Below the sign not even that.                                           *)
LEMMA SignedSmall ==
  ASSUME NEW n \in 0 .. Power2[Word - 1] - 1
  PROVE  Signed(n) = n
  <1>1. n \in 0 .. Power2[Word] - 1 /\ ~(n >= Power2[Word - 1])
    BY WordBits
  <1> QED
    BY <1>1, SignedIs

(* The values of Signed.                                                   *)
LEMMA SignedType ==
  ASSUME NEW n \in Int
  PROVE  Signed(n) \in -Power2[Word - 1] .. Power2[Word - 1] - 1
  <1>1. PICK half \in Nat \ {0} : half = Power2[Word - 1] /\ 2 * half = Power2[Word]
    BY WordBits
  <1>2. n % (2 * half) \in 0 .. 2 * half - 1
    OBVIOUS
  <1> QED
    BY <1>1, <1>2 DEF Signed

(* A shift by a byte leaves room for a byte, also where it makes a value   *)
(* negative.                                                               *)
LEMMA ShiftInWord ==
  ASSUME NEW x \in 0 .. Power2[ByteBits * (ByteBits - 1)] - 1, NEW byte \in Byte
  PROVE  ShiftIn(x, byte) \in -Power2[Word - 1] .. Power2[Word - 1] - 1
  <1>1. PICK P \in Nat \ {0} : P = Power2[ByteBits]
    BY Power2Step, ByteAssumption
  <1>2. PICK k \in Nat : k = Word - 1 - ByteBits
    <2>1. \A n \in Nat \ {0, 1} : n * n - 1 - n \in Nat
      OBVIOUS
    <2> QED
      BY <2>1, ByteAssumption DEF Word
  <1>3. PICK h \in Nat \ {0} : h = Power2[k]
    BY Power2Step
  <1>4. Power2[Word - 1] = P * h
    <2>1. Word - 1 = ByteBits + k
      BY <1>2, WordBits, ByteAssumption
    <2> QED
      BY <2>1, <1>1, <1>3, ByteAssumption, Power2Sum
  <1>5. Power2[ByteBits * (ByteBits - 1)] = 2 * h
    <2>1. ByteBits * (ByteBits - 1) = k + 1
      <3>1. \A n \in Nat : n * (n - 1) = n * n - n
        OBVIOUS
      <3>2. \A n \in Nat : n * n \in Nat
        OBVIOUS
      <3> QED
        BY <1>2, <3>1, <3>2, ByteAssumption DEF Word
    <2> QED
      BY <2>1, <1>3, Power2Step
  <1>6. x \in 0 .. 2 * h - 1 /\ byte \in 0 .. P - 1
    BY <1>1, <1>5 DEF Byte
  <1>7. Power2[Word] = 2 * (P * h)
    BY <1>4, WordBits
  <1>8. ShiftIn(x, byte) = Signed(P * x) + byte
    BY <1>1 DEF ShiftIn
  <1>9. P * h \in Nat /\ P * h >= P
    OBVIOUS
  <1>10. P * x \in 0 .. 2 * (P * h) - 1
    <2>1. P * x <= P * (2 * h - 1) /\ P * x \in Nat
      BY <1>6
    <2>2. P * (2 * h - 1) = 2 * (P * h) - P
      OBVIOUS
    <2> QED
      BY <1>9, <2>1, <2>2
  <1>11. Signed(P * x) = IF P * x >= P * h THEN P * x - 2 * (P * h) ELSE P * x
    BY <1>4, <1>7, <1>10, SignedIs
  <1>12. CASE x >= h
    <2>1. P * x >= P * h
      BY <1>6, <1>12
    <2>2. P * x <= 2 * (P * h) - P
      <3>1. P * x <= P * (2 * h - 1)
        BY <1>6
      <3>2. P * (2 * h - 1) = 2 * (P * h) - P
        OBVIOUS
      <3> QED
        BY <3>1, <3>2
    <2> QED
      BY <1>4, <1>6, <1>8, <1>9, <1>10, <1>11, <2>1, <2>2
  <1>13. CASE x < h
    <2>1. P * x <= P * h - P
      <3>1. P * x <= P * (h - 1)
        BY <1>6, <1>13
      <3>2. P * (h - 1) = P * h - P
        OBVIOUS
      <3> QED
        BY <3>1, <3>2
    <2> QED
      BY <1>4, <1>6, <1>8, <1>9, <1>10, <1>11, <2>1
  <1> QED
    BY <1>6, <1>12, <1>13

-----------------------------------------------------------------------------
(* The loop over the remaining bytes.                                      *)

(* The file with its pointer moved on.                                     *)
MovedOn(f, count) == [f EXCEPT !.fp = f.fp + count]

(* Only the pointer changes, and moves add up.                             *)
LEMMA MovedOnIs ==
  ASSUME NEW f \in File, NEW count \in Nat
  PROVE  /\ MovedOn(f, count) \in File
         /\ MovedOn(f, count).open = f.open
         /\ MovedOn(f, count).bytes = f.bytes
         /\ MovedOn(f, count).fp = f.fp + count
         /\ \A more \in Nat : MovedOn(MovedOn(f, count), more) = MovedOn(f, count + more)
         /\ MovedOn(f, 0) = f
  <1>1. f.fp \in Nat
    BY DEF File
  <1>2. \A n \in Nat : f.fp + n \in Nat
    BY <1>1
  <1>3. \A more \in Nat : (f.fp + count) + more = f.fp + (count + more)
    BY <1>1
  <1>4. /\ MovedOn(f, count) \in File
        /\ MovedOn(f, count).open = f.open
        /\ MovedOn(f, count).bytes = f.bytes
        /\ MovedOn(f, count).fp = f.fp + count
    BY <1>2 DEF MovedOn, File
  <1>5. \A more \in Nat : MovedOn(MovedOn(f, count), more) = MovedOn(f, count + more)
    <2> SUFFICES ASSUME NEW more \in Nat
                 PROVE  [MovedOn(f, count) EXCEPT !.fp = MovedOn(f, count).fp + more]
                          = [f EXCEPT !.fp = f.fp + (count + more)]
      BY DEF MovedOn
    <2>1. PICK a : a = f.fp + count
      OBVIOUS
    <2>2. PICK b : b = a + more
      OBVIOUS
    <2>3. [[f EXCEPT !.fp = a] EXCEPT !.fp = b] = [f EXCEPT !.fp = b]
      BY DEF File
    <2> QED
      BY <1>3, <1>4, <2>1, <2>2, <2>3 DEF MovedOn
  <1>6. MovedOn(f, 0) = f
    <2>1. f.fp + 0 = f.fp
      BY <1>1
    <2> QED
      BY <2>1 DEF MovedOn, File
  <1> QED
    BY <1>4, <1>5, <1>6

(* The values the loop goes through.                                       *)
Shifted(v, f, first, count) ==
  /\ v \in [0 .. count -> Int]
  /\ v[0] = first
  /\ \A i \in 1 .. count : v[i] = ShiftIn(v[i - 1], f.bytes[f.fp + i])

(* A shift gives a number.                                                 *)
LEMMA ShiftInType ==
  ASSUME NEW x \in Int, NEW byte \in Byte
  PROVE  ShiftIn(x, byte) \in Int
  <1>1. Power2[ByteBits] \in Int /\ byte \in Int
    BY Power2Step, ByteAssumption DEF Byte
  <1>2. PICK y \in Int : y = Power2[ByteBits] * x
    BY <1>1
  <1>3. Signed(y) \in Int
    BY <1>2, SignedType, WordBits
  <1> QED
    BY <1>1, <1>2, <1>3 DEF ShiftIn

(* As long as there are bytes, the loop has one outcome.                   *)
LEMMA ReadOnIs ==
  ASSUME NEW f \in File, NEW first \in Int, NEW count \in Nat,
         f.fp + count <= Len(f.bytes)
  PROVE  \E v : /\ Shifted(v, f, first, count)
                /\ ReadOn(f, first, count) = {[value |-> v[count], file |-> MovedOn(f, count)]}
  <1>1. /\ f.fp \in Nat /\ f.bytes \in Seq(Byte)
        /\ \A i \in 1 .. count : f.bytes[f.fp + i] \in Byte
    BY DEF File
  <1>2. PICK v : Shifted(v, f, first, count)
    <2> DEFINE step == [i \in 1 .. count |-> [x \in Int |-> ShiftIn(x, f.bytes[f.fp + i])]]
    <2>1. step \in [1 .. count -> [Int -> Int]]
      BY <1>1, ShiftInType
    <2>2. PICK T : T = Int
      OBVIOUS
    <2>3. PICK begin \in T : begin = first
      BY <2>2
    <2>4. step \in [1 .. count -> [T -> T]]
      BY <2>1, <2>2
    <2>5. PICK v \in [0 .. count -> T] : Iterates(v, count, begin, step)
      <3> HIDE DEF step
      <3> QED
        BY <2>4, PrimitiveRecursion
    <2>6. v \in [0 .. count -> Int] /\ v[0] = first
      BY <2>2, <2>3, <2>5 DEF Iterates
    <2>7. \A i \in 1 .. count : i - 1 \in 0 .. count
      OBVIOUS
    <2>8. \A i \in 1 .. count : v[i] = ShiftIn(v[i - 1], f.bytes[f.fp + i])
      BY <2>5, <2>6, <2>7 DEF Iterates
    <2> QED
      BY <2>6, <2>8 DEF Shifted
  <1> DEFINE At(i) == [value |-> v[i], file |-> MovedOn(f, i)]
             Turn(done) == {[value |-> ShiftIn(done.value, next.value), file |-> next.file]
                              : next \in read_uint8(done.file)}
             Solves(w) == w = [i \in 0 .. count |->
                                 IF i = 0 THEN {[value |-> first, file |-> f]}
                                 ELSE UNION {Turn(done) : done \in w[i - 1]}]
             reads == CHOOSE w : Solves(w)
  <1>3. ReadOn(f, first, count) = reads[count]
    BY DEF ReadOn
  <1>4. ASSUME NEW i \in 1 .. count
        PROVE  UNION {Turn(done) : done \in {At(i - 1)}} = {At(i)}
    <2>1. PICK g : g = MovedOn(f, i - 1)
      OBVIOUS
    <2>2. /\ g.fp = f.fp + (i - 1) /\ g.bytes = f.bytes
          /\ [g EXCEPT !.fp = g.fp + 1] = MovedOn(f, i)
      <3>1. i - 1 \in Nat /\ (i - 1) + 1 = i
        OBVIOUS
      <3>2. MovedOn(g, 1) = MovedOn(f, i)
        BY <2>1, <3>1, MovedOnIs
      <3> QED
        BY <2>1, <3>1, <3>2, MovedOnIs DEF MovedOn
    <2>3. read_uint8(g) = {[value |-> f.bytes[f.fp + i], file |-> MovedOn(f, i)]}
      <3>1. g.fp < Len(g.bytes) /\ g.fp + 1 = f.fp + i
        BY <1>1, <2>2
      <3> QED
        BY <2>2, <3>1 DEF read_uint8
    <2>4. Turn(At(i - 1)) = {[value |-> ShiftIn(v[i - 1], f.bytes[f.fp + i]),
                              file |-> MovedOn(f, i)]}
      <3>1. PICK done : done = At(i - 1)
        OBVIOUS
      <3>2. done.value = v[i - 1] /\ done.file = g
        BY <2>1, <3>1
      <3>3. PICK x : x = v[i - 1]
        OBVIOUS
      <3>4. PICK byte : byte = f.bytes[f.fp + i]
        OBVIOUS
      <3>5. PICK there : there = MovedOn(f, i)
        OBVIOUS
      <3>6. read_uint8(g) = {[value |-> byte, file |-> there]}
        BY <2>3, <3>4, <3>5
      <3>7. Turn(done) = {[value |-> ShiftIn(x, byte), file |-> there]}
        BY <3>2, <3>3, <3>6
      <3> HIDE DEF At, Turn
      <3> QED
        BY <3>1, <3>3, <3>4, <3>5, <3>7
    <2>5. Turn(At(i - 1)) = {At(i)}
      BY <1>2, <2>4 DEF Shifted
    <2> HIDE DEF At, Turn
    <2> QED
      BY <2>5
  <1> HIDE DEF Turn
  <1>5. Solves([i \in 0 .. count |-> {At(i)}])
    <2> DEFINE w == [i \in 0 .. count |-> {At(i)}]
    <2>1. \A i \in 1 .. count : w[i - 1] = {At(i - 1)}
      <3> HIDE DEF At
      <3> QED
        OBVIOUS
    <2>2. {At(0)} = {[value |-> first, file |-> f]}
      <3>1. MovedOn(f, 0) = f
        BY <1>1 DEF MovedOn, File
      <3> QED
        BY <1>2, <3>1 DEF Shifted
    <2>3. \A i \in 0 .. count :
            {At(i)} = IF i = 0 THEN {[value |-> first, file |-> f]}
                      ELSE UNION {Turn(done) : done \in w[i - 1]}
      <3> SUFFICES ASSUME NEW i \in 0 .. count, i # 0
                   PROVE  {At(i)} = UNION {Turn(done) : done \in w[i - 1]}
        BY <2>2
      <3>1. i \in 1 .. count
        OBVIOUS
      <3>2. w[i - 1] = {At(i - 1)}
        BY <2>1, <3>1
      <3> HIDE DEF w, At
      <3> QED
        BY <1>4, <3>1, <3>2
    <2> HIDE DEF At
    <2> QED
      BY <2>3
  <1>6. Solves(reads)
    BY <1>5
  <1> HIDE DEF reads
  <1> DEFINE S == {k \in Nat : k <= count => reads[k] = {At(k)}}
  <1>7. 0 \in S
    <2>1. reads[0] = {[value |-> first, file |-> f]}
      BY <1>6
    <2>2. MovedOn(f, 0) = f
      BY <1>1 DEF MovedOn, File
    <2> QED
      BY <1>2, <2>1, <2>2 DEF Shifted
  <1>8. ASSUME NEW k \in Nat, k \in S, k + 1 <= count PROVE reads[k + 1] = {At(k + 1)}
    <2>1. PICK i \in 1 .. count : i = k + 1 /\ i - 1 = k /\ i \in 0 .. count /\ i # 0
      BY <1>8
    <2>2. reads[i] = UNION {Turn(done) : done \in reads[i - 1]}
      BY <1>6, <2>1
    <2>3. reads[i - 1] = {At(i - 1)}
      BY <1>8, <2>1
    <2> HIDE DEF At
    <2> QED
      BY <1>4, <2>1, <2>2, <2>3
  <1>9. Nat \subseteq S
    <2>1. \A k \in Nat : k \in S => k + 1 \in S
      BY <1>8
    <2> HIDE DEF S
    <2> QED
      BY <1>7, <2>1, Induction
  <1> QED
    BY <1>2, <1>3, <1>9

(* A number less the multiple of a power that was cut off its first digit, *)
(* shifted by one digit more.                                              *)
LEMMA ShiftedDigit ==
  ASSUME NEW P \in Nat \ {0}, NEW q \in Nat \ {0}, NEW x \in Nat, NEW rest \in Nat,
         NEW cut \in 0 .. x, NEW digit \in Nat, NEW N, N = x * q + rest,
         NEW half \in Nat, P * N + digit < half
  PROVE  /\ P * (N - cut * q) \in 0 .. half - 1
         /\ P * (N - cut * q) + digit = (P * N + digit) - cut * (P * q)
  <1>1. \A y, z \in Nat : y * z \in Nat
    OBVIOUS
  <1>2. cut * q <= x * q
    <2>1. \A a, c, d \in Nat : a <= c => a * d <= c * d
      OBVIOUS
    <2> QED
      BY <2>1
  <1>3. PICK X \in Nat : X = x * q
    BY <1>1
  <1>4. PICK C \in Nat : C = cut * q /\ C <= X
    BY <1>1, <1>2, <1>3
  <1>5. N \in Nat /\ N - C \in Nat /\ N - C <= N
    BY <1>3, <1>4
  <1>6. P * (N - C) \in Nat /\ P * (N - C) <= P * N /\ P * N \in Nat
    <2>1. \A a, c \in Nat : a <= c => P * a \in Nat /\ P * a <= P * c
      OBVIOUS
    <2> QED
      BY <1>5, <2>1
  <1>7. P * (N - C) = P * N - P * C
    BY <1>4, <1>5
  <1>8. P * C = cut * (P * q) /\ P * C \in Nat
    BY <1>1, <1>4
  <1> QED
    BY <1>4, <1>6, <1>7, <1>8

(* One turn of the loop in which nothing overflows.                        *)
LEMMA ShiftInNumber ==
  ASSUME NEW b, NEW pos \in Nat, NEW n \in Nat \ {0},
         \A i \in 1 .. n + 1 : b[pos + i] \in Byte,
         NEW cut \in 0 .. b[pos + 1],
         Number(b, pos, n + 1) < Power2[Word - 1]
  PROVE  ShiftIn(Number(b, pos, n) - cut * Power2[ByteBits * (n - 1)], b[pos + n + 1])
           = Number(b, pos, n + 1) - cut * Power2[ByteBits * n]
  <1>1. PICK P \in Nat \ {0} : P = Power2[ByteBits]
    BY Power2Step, ByteAssumption
  <1>2. PICK k \in Nat : k = n - 1 /\ n = k + 1
    OBVIOUS
  <1>3. PICK q \in Nat \ {0} : q = Power2[ByteBits * k] /\ Power2[ByteBits * n] = P * q
    BY <1>1, <1>2, PowerOfByte
  <1>4. PICK N \in Nat : /\ N = Number(b, pos, n)
                         /\ Number(b, pos, n + 1) = P * N + b[pos + n + 1]
    <2>1. \A i \in 1 .. n + 1 : b[pos + i] \in Nat
      BY DEF Byte
    <2>2. /\ Number(b, pos, n) \in Nat
          /\ Number(b, pos, n + 1) = P * Number(b, pos, n) + b[pos + n + 1]
      BY <1>1, <2>1, NumberStep, ZenonT(30)
    <2> QED
      BY <2>2, Zenon
  <1>5. PICK x \in Nat, rest \in Nat : x = b[pos + 1] /\ N = x * q + rest
    <2>1. \A i \in 1 .. k + 1 : b[pos + i] \in Byte
      BY <1>2
    <2>2. /\ Number(b, pos, k + 1) = b[pos + 1] * q + Number(b, pos + 1, k)
          /\ Number(b, pos + 1, k) \in 0 .. q - 1
          /\ b[pos + 1] \in Nat
      <3>1. /\ Number(b, pos, k + 1) = b[pos + 1] * Power2[ByteBits * k] + Number(b, pos + 1, k)
            /\ Number(b, pos + 1, k) \in 0 .. Power2[ByteBits * k] - 1
            /\ b[pos + 1] \in Nat
        BY <2>1, NumberFront
      <3> QED
        BY <1>3, <3>1
    <2>3. Number(b, pos + 1, k) \in Nat
      BY <2>2
    <2> QED
      BY <1>2, <1>4, <2>2, <2>3, Zenon
  <1>6. PICK digit \in Nat : digit = b[pos + n + 1]
    <2>1. n + 1 \in 1 .. n + 1 /\ pos + (n + 1) = pos + n + 1
      OBVIOUS
    <2>2. b[pos + (n + 1)] \in Nat
      BY <2>1 DEF Byte
    <2> QED
      BY <2>1, <2>2
  <1>7. PICK half \in Nat : half = Power2[Word - 1]
    BY WordBits
  <1>8. P * N + digit < half /\ cut \in 0 .. x
    BY <1>4, <1>5, <1>6, <1>7
  <1>9. /\ P * (N - cut * q) \in 0 .. half - 1
        /\ P * (N - cut * q) + digit = (P * N + digit) - cut * (P * q)
    BY <1>5, <1>8, ShiftedDigit
  <1>10. Signed(P * (N - cut * q)) = P * (N - cut * q)
    BY <1>7, <1>9, SignedSmall
  <1>11. ShiftIn(N - cut * q, digit) = (P * N + digit) - cut * (P * q)
    BY <1>1, <1>9, <1>10 DEF ShiftIn
  <1> QED
    BY <1>2, <1>3, <1>4, <1>6, <1>11

(* Up to m bytes behind the first, the number is positive as an int64_t.   *)
FitsInWord(bytes, pos, m) == \A k \in 1 .. m : Number(bytes, pos, k + 1) < Power2[Word - 1]

(* The loop of a read, as far as all of it fits in a word: the bytes       *)
(* behind the first shifted into what is left of that one.                 *)
ReadsOver(f, b, pos, cut, v, count, m) ==
  /\ f \in File
  /\ b = f.bytes
  /\ pos \in Nat
  /\ f.fp = pos + 1
  /\ count \in Nat
  /\ f.fp + count <= Len(b)
  /\ cut \in 0 .. b[pos + 1]
  /\ Shifted(v, f, b[pos + 1] - cut, count)
  /\ m \in 0 .. count
  /\ FitsInWord(b, pos, m)

(* While nothing overflows, the loop gives the number coded, without what  *)
(* was cut off the first byte.                                             *)
LEMMA ShiftedNumber ==
  ASSUME NEW f, NEW b, NEW pos, NEW cut, NEW v, NEW count, NEW m,
         ReadsOver(f, b, pos, cut, v, count, m)
  PROVE  v[m] = Number(b, pos, m + 1) - cut * Power2[ByteBits * m]
  <1>a. f \in File /\ b = f.bytes /\ pos \in Nat /\ f.fp = pos + 1
    BY DEF ReadsOver
  <1>b. count \in Nat /\ f.fp + count <= Len(b) /\ cut \in 0 .. b[pos + 1]
    BY DEF ReadsOver
  <1>c. Shifted(v, f, b[pos + 1] - cut, count) /\ m \in 0 .. count /\ FitsInWord(b, pos, m)
    BY DEF ReadsOver
  <1> USE <1>a, <1>b, <1>c
  <1>1. \A i \in 1 .. count + 1 : b[pos + i] \in Byte
    BY DEF File
  <1>2. b[pos + 1] \in Nat
    BY <1>1 DEF Byte
  <1>3. v[0] = Number(b, pos, 0 + 1) - cut * Power2[ByteBits * 0]
    <2>1. v[0] = b[pos + 1] - cut
      BY DEF Shifted
    <2>2. Power2[ByteBits * 0] = 1
      <3>1. ByteBits * 0 = 0
        BY ByteAssumption
      <3> QED
        BY <3>1, Power2Step
    <2>3. Number(b, pos, 0 + 1) = b[pos + 1]
      BY <1>2, NumberOfOne
    <2> QED
      BY <1>2, <2>1, <2>2, <2>3
  <1>4. ASSUME NEW k \in Nat, k + 1 <= m,
               v[k] = Number(b, pos, k + 1) - cut * Power2[ByteBits * k]
        PROVE  v[k + 1] = Number(b, pos, (k + 1) + 1) - cut * Power2[ByteBits * (k + 1)]
    <2>1. PICK n \in 1 .. count : n = k + 1 /\ n \in 1 .. m /\ k = n - 1 /\ n \in Nat \ {0}
      BY <1>4
    <2>2. v[n] = ShiftIn(v[n - 1], b[pos + n + 1])
      <3>1. v[n] = ShiftIn(v[n - 1], f.bytes[f.fp + n])
        BY DEF Shifted
      <3>2. f.fp + n = pos + n + 1
        OBVIOUS
      <3> QED
        BY <3>1, <3>2
    <2>3. \A i \in 1 .. n + 1 : b[pos + i] \in Byte
      <3>1. \A i \in 1 .. n + 1 : i \in 1 .. count + 1
        OBVIOUS
      <3> QED
        BY <1>1, <3>1
    <2>4. Number(b, pos, n + 1) < Power2[Word - 1]
      BY <2>1 DEF FitsInWord
    <2>5. ShiftIn(Number(b, pos, n) - cut * Power2[ByteBits * (n - 1)], b[pos + n + 1])
            = Number(b, pos, n + 1) - cut * Power2[ByteBits * n]
      BY <2>1, <2>3, <2>4, ShiftInNumber, Zenon
    <2> QED
      BY <1>4, <2>1, <2>2, <2>5
  <1> DEFINE S == {k \in Nat : k <= m => v[k] = Number(b, pos, k + 1) - cut * Power2[ByteBits * k]}
  <1>5. Nat \subseteq S
    <2>1. 0 \in S
      BY <1>3
    <2>2. ASSUME NEW k \in Nat, k \in S PROVE k + 1 \in S
      <3>1. k + 1 <= m => k <= m
        OBVIOUS
      <3> QED
        BY <1>4, <2>2, <3>1
    <2> HIDE DEF S
    <2> QED
      BY <2>1, <2>2, Induction
  <1>6. m \in Nat /\ m <= m
    BY <1>c
  <1>7. m \in S
    <2> HIDE DEF S
    <2> QED
      BY <1>5, <1>6
  <1> QED
    BY <1>6, <1>7

-----------------------------------------------------------------------------
(* What the announced length says of the number coded.                     *)

(* The leading zeros of the first byte are leading zeros of the number.    *)
LEMMA LeadingZeros ==
  ASSUME NEW b, NEW pos \in Nat, NEW k \in Nat, NEW e \in Nat,
         \A i \in 1 .. k + 1 : b[pos + i] \in Byte,
         b[pos + 1] < Power2[e]
  PROVE  Number(b, pos, k + 1) < Power2[e + ByteBits * k]
  <1>1. PICK q \in Nat \ {0} : q = Power2[ByteBits * k]
    BY PowerOfByte
  <1>2. PICK h \in Nat \ {0} : h = Power2[e]
    BY Power2Step
  <1>3. Power2[e + ByteBits * k] = h * q
    <2>1. ByteBits * k \in Nat
      BY ByteAssumption
    <2>2. PICK m \in Nat : m = ByteBits * k
      BY <2>1
    <2>3. Power2[e + m] = Power2[e] * Power2[m]
      BY Power2Sum
    <2> QED
      BY <1>1, <1>2, <2>2, <2>3
  <1>4. /\ Number(b, pos, k + 1) = b[pos + 1] * Power2[ByteBits * k] + Number(b, pos + 1, k)
        /\ Number(b, pos + 1, k) \in 0 .. Power2[ByteBits * k] - 1
        /\ b[pos + 1] \in Nat
    BY NumberFront
  <1>5. \A x \in 0 .. h - 1, y \in 0 .. q - 1 : x * q + y < h * q
    <2>1. \A x \in 0 .. h - 1 : x * q <= (h - 1) * q
      OBVIOUS
    <2>2. (h - 1) * q = h * q - q
      OBVIOUS
    <2>3. \A x \in 0 .. h - 1 : x * q \in Nat
      OBVIOUS
    <2>4. h * q \in Nat
      OBVIOUS
    <2> QED
      BY <2>1, <2>2, <2>3, <2>4
  <1>6. PICK x \in 0 .. h - 1 : x = b[pos + 1]
    BY <1>2, <1>4
  <1>7. PICK y \in 0 .. q - 1 : y = Number(b, pos + 1, k)
    BY <1>1, <1>4
  <1>8. Number(b, pos, k + 1) = x * q + y
    BY <1>1, <1>4, <1>6, <1>7
  <1> QED
    BY <1>3, <1>5, <1>8

(* The bits a vint of n bytes has, marker included, fit in a word.         *)
LEMMA VintBits ==
  ASSUME NEW n \in 1 .. ByteBits
  PROVE  /\ (ByteBits - 1) * n \in Nat
         /\ Power2[(ByteBits - 1) * n] \in Nat \ {0}
         /\ Power2[ByteBits - n] * Power2[ByteBits * (n - 1)] = Power2[(ByteBits - 1) * n]
         /\ 2 * Power2[(ByteBits - 1) * n] <= Power2[Word - 1]
         /\ \A k \in 0 .. n - 1 :
              /\ (ByteBits - n + 1) + ByteBits * k \in Nat
              /\ (ByteBits - n + 1) + ByteBits * k <= Word - 1
  <1>1. PICK B \in Nat \ {0, 1} : B = ByteBits /\ n \in 1 .. B
    BY ByteAssumption
  <1>2. PICK m \in Nat : m = (B - 1) * n
    OBVIOUS
  <1>3. PICK i \in Nat, j \in Nat : i = B - n /\ j = B * (n - 1)
    <2>1. B - n \in Nat /\ B * (n - 1) \in Nat
      BY <1>1
    <2> QED
      BY <2>1
  <1>4. i + j = m
    BY <1>1, <1>2, <1>3
  <1>5. m + 1 <= Word - 1
    <2>1. \A x, y, z \in Nat : x <= y => z * x <= z * y
      OBVIOUS
    <2>2. (B - 1) * n <= (B - 1) * B
      BY <1>1, <2>1
    <2>3. (B - 1) * B + 1 <= Word - 1
      BY <1>1, WordBits
    <2>4. PICK top \in Nat : top = (B - 1) * B
      OBVIOUS
    <2> QED
      BY <1>2, <2>2, <2>3, <2>4, WordBits
  <1>6. 2 * Power2[m] <= Power2[Word - 1]
    <2>1. PICK m1 \in Nat : m1 = m + 1
      OBVIOUS
    <2>2. PICK w \in Nat : w = Word - 1
      BY WordBits
    <2>3. Power2[m1] <= Power2[w]
      BY <1>5, <2>1, <2>2, Power2Monotonic
    <2>4. Power2[m1] = 2 * Power2[m]
      BY <2>1, Power2Step
    <2> QED
      BY <2>2, <2>3, <2>4
  <1>7. Power2[i] * Power2[j] = Power2[m]
    BY <1>4, Power2Sum
  <1>8. ASSUME NEW k \in 0 .. n - 1
        PROVE  (B - n + 1) + B * k \in Nat /\ (B - n + 1) + B * k <= Word - 1
    <2>1. \A x, y, z \in Nat : x <= y => z * x <= z * y
      OBVIOUS
    <2>2. PICK c \in Nat : c = B * k /\ c <= j
      <3>1. B * k <= B * (n - 1)
        BY <1>1, <2>1
      <3> QED
        BY <1>3, <3>1
    <2>3. i + 1 + c <= m + 1
      BY <1>4, <2>2
    <2>4. (B - n + 1) + B * k = i + 1 + c
      BY <1>1, <1>3, <2>2
    <2> QED
      BY <1>5, <2>3, <2>4, WordBits
  <1> QED
    BY <1>1, <1>2, <1>3, <1>6, <1>7, <1>8, Power2Step

(* The top bit of the first byte is the top bit of the number.             *)
LEMMA TopByte ==
  ASSUME NEW b, NEW pos \in Nat, NEW k \in Nat, AreBytes(b, pos, k + 1),
         NEW h \in Nat \ {0}, b[pos + 1] \in h .. 2 * h - 1,
         NEW q, q = Power2[ByteBits * k]
  PROVE  Number(b, pos, k + 1) \in h * q .. 2 * (h * q) - 1
  <1>1. q \in Nat \ {0}
    BY PowerOfByte
  <1>2. PICK rest \in 0 .. q - 1 : Number(b, pos, k + 1) = b[pos + 1] * q + rest
    BY NumberSplit
  <1>3. PICK x \in h .. 2 * h - 1 : x = b[pos + 1]
    OBVIOUS
  <1>4. x * q >= h * q /\ x * q <= (2 * h - 1) * q /\ x * q \in Nat /\ h * q \in Nat
    BY <1>1
  <1>5. (2 * h - 1) * q = 2 * (h * q) - q
    BY <1>1
  <1> QED
    BY <1>1, <1>2, <1>3, <1>4, <1>5

(* The marker is the top bit of the number, and no prefix overflows.       *)
LEMMA CodedNumber ==
  ASSUME NEW b, NEW pos \in Nat, NEW n \in 1 .. ByteBits,
         \A i \in 1 .. n : b[pos + i] \in Byte,
         value_len(b[pos + 1]) = n
  PROVE  /\ Number(b, pos, n) \in Power2[(ByteBits - 1) * n] .. 2 * Power2[(ByteBits - 1) * n] - 1
         /\ \A k \in 1 .. n - 1 : Number(b, pos, k + 1) < Power2[Word - 1]
  <1>1. PICK B \in Nat \ {0, 1} : B = ByteBits /\ n \in 1 .. B
    BY ByteAssumption
  <1>2. PICK i \in Nat : i = B - n
    BY <1>1
  <1>3. PICK first \in Byte : first = b[pos + 1]
    OBVIOUS
  <1>4. first \in Power2[i] .. 2 * Power2[i] - 1
    BY <1>1, <1>2, <1>3, ValueLen
  <1>5. Power2[i] \in Nat \ {0} /\ Power2[i + 1] = 2 * Power2[i]
    BY Power2Step
  <1>6. ASSUME NEW k \in Nat, k \in 0 .. n - 1
        PROVE  Number(b, pos, k + 1) < Power2[(i + 1) + B * k]
    <2>1. \A l \in 1 .. k + 1 : b[pos + l] \in Byte
      BY <1>6
    <2>2. PICK e \in Nat : e = i + 1
      OBVIOUS
    <2>3. b[pos + 1] < Power2[e]
      BY <1>3, <1>4, <1>5, <2>2
    <2>4. Number(b, pos, k + 1) < Power2[e + ByteBits * k]
      BY <2>1, <2>3, LeadingZeros
    <2> QED
      BY <1>1, <2>2, <2>4
  <1>7. ASSUME NEW k \in 1 .. n - 1
        PROVE  Number(b, pos, k + 1) < Power2[Word - 1]
    <2>1. PICK w \in Nat : w = Word - 1
      BY WordBits
    <2>2. PICK e \in Nat : e = (i + 1) + B * k /\ e <= w
      <3>1. k \in 0 .. n - 1
        OBVIOUS
      <3>2. (B - n + 1) + B * k \in Nat /\ (B - n + 1) + B * k <= Word - 1
        BY <1>1, <3>1, VintBits
      <3>3. B - n + 1 = i + 1
        BY <1>2
      <3> QED
        BY <2>1, <3>2, <3>3
    <2>3. Power2[e] <= Power2[w]
      BY <2>2, Power2Monotonic
    <2>4. Number(b, pos, k + 1) < Power2[e]
      BY <1>6, <2>2
    <2>5. Number(b, pos, k + 1) \in Nat
      <3>1. \A l \in 1 .. k + 1 : b[pos + l] \in Byte
        OBVIOUS
      <3>2. PICK k1 \in Nat : k1 = k + 1
        OBVIOUS
      <3>3. Number(b, pos, k1) \in 0 .. Power2[ByteBits * k1] - 1
        BY <3>1, <3>2, NumberRange
      <3> QED
        BY <3>2, <3>3, PowerOfByte
    <2>6. Power2[e] \in Nat /\ Power2[w] \in Nat
      BY Power2Step
    <2> QED
      BY <2>1, <2>3, <2>4, <2>5, <2>6
  <1>8. PICK k \in Nat : k = n - 1 /\ k + 1 = n /\ k \in 0 .. n - 1
    OBVIOUS
  <1>9. PICK q \in Nat \ {0} : q = Power2[ByteBits * k]
    BY PowerOfByte
  <1>10. PICK h \in Nat \ {0} : h = Power2[i]
    BY <1>5
  <1>11. h * q = Power2[(ByteBits - 1) * n]
    BY <1>1, <1>2, <1>8, <1>9, <1>10, VintBits
  <1>12. Number(b, pos, k + 1) \in h * q .. 2 * (h * q) - 1
    <2>1. AreBytes(b, pos, k + 1)
      BY <1>8 DEF AreBytes
    <2>2. b[pos + 1] \in h .. 2 * h - 1
      BY <1>3, <1>4, <1>10
    <2> QED
      BY <1>9, <2>1, <2>2, TopByte
  <1> QED
    BY <1>7, <1>8, <1>11, <1>12

(* A quotient is where its multiple is.                                    *)
LEMMA Quotient ==
  ASSUME NEW x \in Nat, NEW q \in Nat \ {0}, NEW h \in Nat, NEW rest \in 0 .. q - 1,
         x * q + rest \in h * q .. 2 * (h * q) - 1
  PROVE  x \in h .. 2 * h - 1
  <1>1. \A a, c \in Nat : a + 1 <= c => a * q + q <= c * q
    <2> TAKE a, c \in Nat
    <2> HAVE a + 1 <= c
    <2>1. PICK d \in Nat : c = a + 1 + d
      <3>1. c - (a + 1) \in Nat /\ c = a + 1 + (c - (a + 1))
        OBVIOUS
      <3> QED
        BY <3>1
    <2>2. c * q = a * q + q + d * q
      BY <2>1
    <2>3. d * q \in Nat /\ a * q \in Nat
      OBVIOUS
    <2> QED
      BY <2>2, <2>3
  <1>2. PICK xq \in Nat, hq \in Nat : xq = x * q /\ hq = h * q
    OBVIOUS
  <1>3. PICK two \in Nat : two = 2 * h /\ two * q = 2 * hq
    BY <1>2
  <1>4. x >= h
    <2> SUFFICES ASSUME x < h PROVE FALSE
      OBVIOUS
    <2>1. xq + q <= hq
      BY <1>1, <1>2
    <2> QED
      BY <1>2, <2>1
  <1>5. x < two
    <2> SUFFICES ASSUME x >= two PROVE FALSE
      BY <1>3
    <2>1. two * q <= xq
      <3>1. \A a, c \in Nat : a <= c => a * q <= c * q
        OBVIOUS
      <3> QED
        BY <1>2, <3>1
    <2> QED
      BY <1>2, <1>3, <2>1
  <1> QED
    BY <1>3, <1>4, <1>5

(* And from the number coded follows how many bytes it takes.              *)
LEMMA CodedLength ==
  ASSUME NEW b, NEW pos \in Nat, NEW n \in 1 .. ByteBits, AreBytes(b, pos, n),
         Number(b, pos, n) \in Power2[(ByteBits - 1) * n] .. 2 * Power2[(ByteBits - 1) * n] - 1
  PROVE  value_len(b[pos + 1]) = n
  <1>1. PICK k \in Nat : k = n - 1 /\ k + 1 = n
    OBVIOUS
  <1>2. PICK q \in Nat \ {0} : q = Power2[ByteBits * k]
    BY PowerOfByte
  <1>3. PICK h \in Nat \ {0} : h = Power2[ByteBits - n]
    <2>1. ByteBits - n \in Nat
      BY ByteAssumption
    <2> QED
      BY <2>1, Power2Step
  <1>4. h * q = Power2[(ByteBits - 1) * n]
    BY <1>1, <1>2, <1>3, VintBits
  <1>5. PICK x \in Nat : x = b[pos + 1] /\ x \in Byte
    <2>1. b[pos + 1] \in Byte
      <3>1. 1 \in 1 .. n
        OBVIOUS
      <3> QED
        BY <3>1 DEF AreBytes
    <2> QED
      BY <2>1 DEF Byte
  <1>6. PICK rest \in 0 .. q - 1 : Number(b, pos, n) = x * q + rest
    BY <1>1, <1>2, <1>5, NumberSplit
  <1>7. x * q + rest \in h * q .. 2 * (h * q) - 1
    BY <1>4, <1>6
  <1>8. x \in h .. 2 * h - 1
    BY <1>7, Quotient
  <1> QED
    BY <1>3, <1>5, <1>8, ValueLenIs

-----------------------------------------------------------------------------
(* read                                                                    *)

(* The length the first byte announces, and when a read gives no integer.  *)
ReadLength(f) == value_len(f.bytes[f.fp + 1])

Refused(f, mode) ==
  \/ f.fp >= get_size(f)
  \/ f.fp + ReadLength(f) > get_size(f)
  \/ Rejected(ReadLength(f), mode)

(* A byte that is there is read, and the pointer moves on by one.          *)
LEMMA ReadByteIs ==
  ASSUME NEW f \in File, f.fp < get_size(f)
  PROVE  /\ f.open /\ get_size(f) = Len(f.bytes)
         /\ f.bytes[f.fp + 1] \in Byte
         /\ read_uint8(f) = {[value |-> f.bytes[f.fp + 1], file |-> MovedOn(f, 1)]}
  <1>1. f.fp \in Nat /\ f.bytes \in Seq(Byte) /\ f.open \in BOOLEAN
    BY DEF File
  <1>2. f.open /\ get_size(f) = Len(f.bytes)
    BY <1>1 DEF get_size
  <1>3. f.fp < Len(f.bytes)
    BY <1>2
  <1>4. f.bytes[f.fp + 1] \in Byte
    BY <1>1, <1>3
  <1>5. read_uint8(f) = {[value |-> f.bytes[f.fp + 1], file |-> MovedOn(f, 1)]}
    BY <1>3 DEF read_uint8, MovedOn
  <1> QED
    BY <1>2, <1>4, <1>5

(* A read that goes past the first byte goes on with what that byte was.   *)
LEMMA ReadIsReadFrom ==
  ASSUME NEW f \in File, f.fp < get_size(f), NEW mode
  PROVE  read(f, mode) =
           ReadFrom(f.fp, [value |-> f.bytes[f.fp + 1], file |-> MovedOn(f, 1)], mode)
  <1>1. PICK x : x = [value |-> f.bytes[f.fp + 1], file |-> MovedOn(f, 1)]
    OBVIOUS
  <1>2. read_uint8(f) = {x}
    BY <1>1, ReadByteIs
  <1>3. ~(f.fp >= get_size(f))
    <2>1. f.fp \in Nat /\ get_size(f) \in Nat
      BY DEF File, get_size
    <2> QED
      BY <2>1
  <1>4. UNION {ReadFrom(f.fp, first, mode) : first \in {x}} = ReadFrom(f.fp, x, mode)
    OBVIOUS
  <1>5. read(f, mode) = UNION {ReadFrom(f.fp, first, mode) : first \in read_uint8(f)}
    BY <1>3 DEF read
  <1> QED
    BY <1>1, <1>2, <1>4, <1>5

(* A refused read gives no integer and moves on by a byte at most.         *)
LEMMA ReadRefused ==
  ASSUME NEW f \in File, NEW mode \in Mode, Refused(f, mode)
  PROVE  \E g : /\ \/ g = f
                   \/ f.fp < get_size(f) /\ g = MovedOn(f, 1)
                /\ read(f, mode) = {[vint |-> NoVint, file |-> g]}
  <1>1. f.fp \in Nat /\ get_size(f) \in Nat
    BY DEF File, get_size
  <1>2. CASE f.fp >= get_size(f)
    <2>1. read(f, mode) = {[vint |-> NoVint, file |-> f]}
      BY <1>2 DEF read
    <2> QED
      BY <2>1
  <1>3. CASE ~(f.fp >= get_size(f))
    <2>1. f.fp < get_size(f)
      BY <1>1, <1>3
    <2>2. PICK x : x = [value |-> f.bytes[f.fp + 1], file |-> MovedOn(f, 1)]
      OBVIOUS
    <2>3. x.value = f.bytes[f.fp + 1] /\ x.file = MovedOn(f, 1)
      BY <2>2
    <2>4. get_size(x.file) = get_size(f)
      <3>1. PICK g : g = MovedOn(f, 1)
        OBVIOUS
      <3>2. g.open = f.open /\ g.bytes = f.bytes
        BY <3>1, MovedOnIs
      <3>3. get_size(g) = get_size(f)
        BY <3>2 DEF get_size
      <3> QED
        BY <2>3, <3>1, <3>3
    <2>5. PastTheEnd(x.file, f.fp, value_len(x.value)) \/ Rejected(value_len(x.value), mode)
      BY <1>3, <2>3, <2>4 DEF Refused, ReadLength, PastTheEnd
    <2>6. ReadFrom(f.fp, x, mode) = {[vint |-> NoVint, file |-> x.file]}
      BY <2>5 DEF ReadFrom
    <2>7. read(f, mode) = ReadFrom(f.fp, x, mode)
      BY <2>1, <2>2, ReadIsReadFrom
    <2> QED
      BY <2>1, <2>3, <2>6, <2>7
  <1> QED
    BY <1>2, <1>3

(* Any other read gives what the loop over the remaining bytes makes.      *)
LEMMA ReadAccepted ==
  ASSUME NEW f \in File, NEW mode \in Mode, ~Refused(f, mode)
  PROVE  /\ f.fp < get_size(f) /\ f.fp + ReadLength(f) <= Len(f.bytes)
         /\ f.bytes[f.fp + 1] \in Byte
         /\ ReadLength(f) \in 1 .. ByteBits + 1
         /\ AreBytes(f.bytes, f.fp, ReadLength(f))
         /\ \E v : /\ Shifted(v, MovedOn(f, 1), FirstPart(f.bytes[f.fp + 1], mode),
                              ReadLength(f) - 1)
                   /\ read(f, mode) = {[vint |-> vint(v[ReadLength(f) - 1], ReadLength(f)),
                                        file |-> MovedOn(f, ReadLength(f))]}
  <1>1. f.fp \in Nat /\ get_size(f) \in Nat /\ f.bytes \in Seq(Byte)
    BY DEF File, get_size
  <1>2. f.fp < get_size(f)
    BY <1>1 DEF Refused
  <1>3. PICK byte \in Byte : byte = f.bytes[f.fp + 1]
    BY <1>2, ReadByteIs
  <1>4. PICK len \in Nat : len = ReadLength(f) /\ len \in 1 .. ByteBits + 1 /\ len = value_len(byte)
    BY <1>3, ValueLen, ByteAssumption DEF ReadLength
  <1>5. f.fp + len <= Len(f.bytes) /\ get_size(f) = Len(f.bytes)
    BY <1>1, <1>2, <1>4, ReadByteIs DEF Refused
  <1>6. AreBytes(f.bytes, f.fp, len)
    BY <1>1, <1>5 DEF AreBytes
  <1>7. PICK g \in File : g = MovedOn(f, 1) /\ g.fp = f.fp + 1 /\ g.bytes = f.bytes
                          /\ get_size(g) = get_size(f)
    <2>1. PICK g : g = MovedOn(f, 1)
      OBVIOUS
    <2>2. g \in File /\ g.open = f.open /\ g.bytes = f.bytes /\ g.fp = f.fp + 1
      BY <2>1, MovedOnIs
    <2>3. get_size(g) = get_size(f)
      BY <2>2 DEF get_size
    <2> QED
      BY <2>1, <2>2, <2>3
  <1>8. PICK x : x = [value |-> byte, file |-> g] /\ x.value = byte /\ x.file = g
    <2>1. PICK x : x = [value |-> byte, file |-> g]
      OBVIOUS
    <2> QED
      BY <2>1
  <1>9. ~(PastTheEnd(g, f.fp, len) \/ Rejected(len, mode))
    BY <1>1, <1>4, <1>5, <1>7 DEF Refused, PastTheEnd
  <1>10. read(f, mode) = {[vint |-> vint(done.value, len), file |-> done.file]
                            : done \in ReadOn(g, FirstPart(byte, mode), len - 1)}
    <2>1. read(f, mode) = ReadFrom(f.fp, x, mode)
      BY <1>2, <1>3, <1>7, <1>8, ReadIsReadFrom
    <2> QED
      BY <1>4, <1>8, <1>9, <2>1 DEF ReadFrom
  <1>11. PICK first \in Int : first = FirstPart(byte, mode)
    <2>1. byte \in Int
      BY DEF Byte
    <2>2. value_len(byte) <= ByteBits => byte - Power2[ByteBits - value_len(byte)] \in Int
      <3> SUFFICES ASSUME value_len(byte) <= ByteBits
                   PROVE  byte - Power2[ByteBits - value_len(byte)] \in Int
        OBVIOUS
      <3>1. ByteBits - value_len(byte) \in Nat
        BY <1>4, ByteAssumption
      <3> QED
        BY <2>1, <3>1, Power2Step
    <2> QED
      BY <2>1, <2>2 DEF FirstPart
  <1>12. PICK count \in Nat : count = len - 1 /\ 1 + count = len
    BY <1>4
  <1>13. PICK v : /\ Shifted(v, g, first, count)
                  /\ ReadOn(g, first, count) = {[value |-> v[count], file |-> MovedOn(g, count)]}
    <2>1. g.fp + count <= Len(g.bytes)
      BY <1>1, <1>5, <1>7, <1>12
    <2> QED
      BY <2>1, ReadOnIs
  <1>14. MovedOn(g, count) = MovedOn(f, len)
    BY <1>7, <1>12, MovedOnIs
  <1>15. PICK d : d = [value |-> v[count], file |-> MovedOn(f, len)]
                  /\ d.value = v[count] /\ d.file = MovedOn(f, len)
    <2>1. PICK d : d = [value |-> v[count], file |-> MovedOn(f, len)]
      OBVIOUS
    <2> QED
      BY <2>1
  <1>16. ReadOn(g, FirstPart(byte, mode), len - 1) = {d}
    BY <1>11, <1>12, <1>13, <1>14, <1>15
  <1>17. read(f, mode) = {[vint |-> vint(v[count], len), file |-> MovedOn(f, len)]}
    BY <1>10, <1>15, <1>16
  <1>18. Shifted(v, MovedOn(f, 1), FirstPart(f.bytes[f.fp + 1], mode), ReadLength(f) - 1)
    BY <1>3, <1>4, <1>7, <1>11, <1>12, <1>13
  <1>19. read(f, mode) = {[vint |-> vint(v[ReadLength(f) - 1], ReadLength(f)),
                           file |-> MovedOn(f, ReadLength(f))]}
    BY <1>4, <1>12, <1>17
  <1> QED
    BY <1>2, <1>3, <1>4, <1>5, <1>6, <1>18, <1>19

(* What a read cuts off the number coded.                                  *)
CutOff(mode, length) == IF mode = "rm_normal" THEN Power2[(ByteBits - 1) * length] ELSE 0

(* An integer of a legal length is the number coded, less its marker when  *)
(* it is a size.                                                           *)
LEMMA ReadCoded ==
  ASSUME NEW f \in File, NEW mode \in Mode, ~Refused(f, mode),
         NEW n \in 1 .. ByteBits, n = ReadLength(f)
  PROVE  /\ Number(f.bytes, f.fp, n) \in
              Power2[(ByteBits - 1) * n] .. 2 * Power2[(ByteBits - 1) * n] - 1
         /\ read(f, mode) = {[vint |-> vint(Number(f.bytes, f.fp, n) - CutOff(mode, n), n),
                              file |-> MovedOn(f, n)]}
  <1>0. PICK b : b = f.bytes
    OBVIOUS
  <1>1. PICK pos \in Nat : b = f.bytes /\ pos = f.fp
    BY <1>0 DEF File
  <1>2. /\ f.fp + n <= Len(f.bytes)
        /\ AreBytes(b, pos, n)
        /\ b[pos + 1] \in Byte
    BY <1>1, ReadAccepted
  <1>3. PICK g \in File : g = MovedOn(f, 1) /\ g.bytes = b /\ g.fp = pos + 1
    <2>1. PICK g : g = MovedOn(f, 1)
      OBVIOUS
    <2> QED
      BY <1>1, <2>1, MovedOnIs
  <1>4. PICK v : /\ Shifted(v, g, FirstPart(b[pos + 1], mode), n - 1)
                 /\ read(f, mode) = {[vint |-> vint(v[n - 1], n), file |-> MovedOn(f, n)]}
    BY <1>1, <1>3, ReadAccepted
  <1>5. value_len(b[pos + 1]) = n
    BY <1>1 DEF ReadLength
  <1>6. \A i \in 1 .. n : b[pos + i] \in Byte
    BY <1>2 DEF AreBytes
  <1>7. /\ Number(b, pos, n) \in Power2[(ByteBits - 1) * n] .. 2 * Power2[(ByteBits - 1) * n] - 1
        /\ \A k \in 1 .. n - 1 : Number(b, pos, k + 1) < Power2[Word - 1]
    BY <1>5, <1>6, CodedNumber
  <1>8. PICK top \in Nat \ {0} : top = Power2[ByteBits - n] /\ top <= b[pos + 1]
    <2>1. ByteBits - n \in Nat /\ n <= ByteBits
      BY ByteAssumption
    <2>2. b[pos + 1] >= Power2[ByteBits - n]
      BY <1>2, <1>5, <2>1, ValueLen
    <2>3. Power2[ByteBits - n] \in Nat \ {0}
      BY <2>1, Power2Step
    <2>4. b[pos + 1] \in Nat
      BY <1>2 DEF Byte
    <2> QED
      BY <2>2, <2>3, <2>4
  <1>9. PICK cut \in 0 .. b[pos + 1] : /\ cut = IF mode = "rm_normal" THEN top ELSE 0
                                       /\ FirstPart(b[pos + 1], mode) = b[pos + 1] - cut
    <2>1. b[pos + 1] \in Nat /\ n <= ByteBits
      BY <1>2, ByteAssumption DEF Byte
    <2>2. FirstPart(b[pos + 1], mode) = b[pos + 1] - (IF mode = "rm_normal" THEN top ELSE 0)
      BY <1>5, <1>8, <2>1 DEF FirstPart
    <2>3. (IF mode = "rm_normal" THEN top ELSE 0) \in 0 .. b[pos + 1]
      BY <1>8, <2>1
    <2> QED
      BY <2>2, <2>3
  <1>10. PICK m \in Nat : m = n - 1 /\ m + 1 = n /\ m \in 0 .. m
    OBVIOUS
  <1>11. v[m] = Number(b, pos, m + 1) - cut * Power2[ByteBits * m]
    <2>1. g.fp + m <= Len(b)
      BY <1>1, <1>2, <1>3, <1>10
    <2>2. FitsInWord(b, pos, m)
      BY <1>7, <1>10 DEF FitsInWord
    <2>3. Shifted(v, g, b[pos + 1] - cut, m)
      BY <1>4, <1>9, <1>10
    <2>4. b = g.bytes /\ g.fp = pos + 1
      BY <1>3
    <2>5. ReadsOver(g, b, pos, cut, v, m, m)
      BY <1>10, <2>1, <2>2, <2>3, <2>4 DEF ReadsOver
    <2> QED
      BY <2>5, ShiftedNumber, SMT
  <1>12. cut * Power2[ByteBits * m] = CutOff(mode, n)
    <2>1. top * Power2[ByteBits * m] = Power2[(ByteBits - 1) * n]
      BY <1>8, <1>10, VintBits
    <2>2. 0 * Power2[ByteBits * m] = 0
      BY PowerOfByte
    <2> QED
      BY <1>9, <2>1, <2>2 DEF CutOff
  <1>13. v[n - 1] = Number(b, pos, n) - CutOff(mode, n)
    BY <1>10, <1>11, <1>12
  <1> QED
    BY <1>1, <1>4, <1>7, <1>13

(* An overlong integer is read as a size only, and is whatever fits in a   *)
(* word.                                                                   *)
LEMMA ReadOverlong ==
  ASSUME NEW f \in File, NEW mode \in Mode, ~Refused(f, mode),
         ReadLength(f) = ByteBits + 1
  PROVE  /\ mode = "rm_normal"
         /\ \E value \in -Power2[Word - 1] .. Power2[Word - 1] - 1 :
              read(f, mode) = {[vint |-> vint(value, ByteBits + 1),
                                file |-> MovedOn(f, ByteBits + 1)]}
  <1>1. mode = "rm_normal"
    <2>1. ByteBits + 1 > MaxIdLen
      BY ByteAssumption, VintAssumption
    <2> QED
      BY <2>1 DEF Refused, Rejected, Mode
  <1>0. PICK b : b = f.bytes
    OBVIOUS
  <1>2. PICK pos \in Nat : b = f.bytes /\ pos = f.fp
    BY <1>0 DEF File
  <1>3. PICK B \in Nat \ {0, 1} : B = ByteBits
    BY ByteAssumption
  <1>4. /\ f.fp + (B + 1) <= Len(f.bytes)
        /\ AreBytes(b, pos, B + 1)
        /\ b[pos + 1] \in Byte
    BY <1>2, <1>3, ReadAccepted
  <1>5. PICK g \in File : g = MovedOn(f, 1) /\ g.bytes = b /\ g.fp = pos + 1
    <2>1. PICK g : g = MovedOn(f, 1)
      OBVIOUS
    <2> QED
      BY <1>2, <2>1, MovedOnIs
  <1>6. value_len(b[pos + 1]) = B + 1 /\ b[pos + 1] = 0
    <2>1. value_len(b[pos + 1]) = B + 1
      BY <1>2, <1>3 DEF ReadLength
    <2> QED
      BY <1>3, <1>4, <2>1, ValueLen
  <1>7. PICK v : /\ Shifted(v, g, 0, B)
                 /\ read(f, mode) = {[vint |-> vint(v[B], B + 1), file |-> MovedOn(f, B + 1)]}
    <2>1. ~(B + 1 <= ByteBits) /\ (B + 1) - 1 = B
      BY <1>3
    <2>2. FirstPart(b[pos + 1], mode) = 0
      BY <1>6, <2>1 DEF FirstPart
    <2>3. ReadLength(f) = B + 1
      BY <1>3
    <2>4. \E v : /\ Shifted(v, g, FirstPart(b[pos + 1], mode), ReadLength(f) - 1)
                 /\ read(f, mode) = {[vint |-> vint(v[ReadLength(f) - 1], ReadLength(f)),
                                      file |-> MovedOn(f, ReadLength(f))]}
      BY <1>2, <1>5, ReadAccepted
    <2> QED
      BY <2>1, <2>2, <2>3, <2>4
  <1>8. ASSUME NEW k \in 0 .. B - 1
        PROVE  /\ Number(b, pos, k + 1) < Power2[ByteBits * (ByteBits - 1)]
               /\ Number(b, pos, k + 1) < Power2[Word - 1]
               /\ Number(b, pos, k + 1) \in Nat
    <2>1. PICK kk \in Nat : kk = k /\ B * kk \in Nat /\ B * kk <= B * (B - 1)
      <3>1. \A x, y, z \in Nat : x <= y => z * x <= z * y /\ z * x \in Nat
        OBVIOUS
      <3>2. B * k \in Nat /\ B * k <= B * (B - 1)
        BY <3>1
      <3> QED
        BY <3>2
    <2>2. Number(b, pos, kk + 1) < Power2[0 + ByteBits * kk]
      <3>1. \A l \in 1 .. kk + 1 : b[pos + l] \in Byte
        <4>1. \A l \in 1 .. kk + 1 : l \in 1 .. B + 1
          BY <2>1
        <4> QED
          BY <1>4, <4>1 DEF AreBytes
      <3>2. b[pos + 1] < Power2[0]
        BY <1>6, Power2Step
      <3> QED
        BY <3>1, <3>2, LeadingZeros
    <2>3. PICK e \in Nat, top \in Nat, w \in Nat :
            e = B * kk /\ top = ByteBits * (ByteBits - 1) /\ w = Word - 1 /\ e <= top /\ top <= w
      <3>1. B * (B - 1) \in Nat
        OBVIOUS
      <3> QED
        BY <1>3, <2>1, <3>1, WordBits
    <2>4. Power2[e] <= Power2[top] /\ Power2[top] <= Power2[w]
      BY <2>3, Power2Monotonic
    <2>5. Power2[e] \in Nat /\ Power2[top] \in Nat /\ Power2[w] \in Nat
      BY Power2Step
    <2>6. Number(b, pos, kk + 1) < Power2[e]
      BY <1>3, <2>2, <2>3
    <2>7. Number(b, pos, kk + 1) \in Nat
      <3>1. PICK k1 \in Nat : k1 = kk + 1
        OBVIOUS
      <3>2. \A l \in 1 .. k1 : b[pos + l] \in Byte
        <4>1. \A l \in 1 .. k1 : l \in 1 .. B + 1
          BY <2>1, <3>1
        <4> QED
          BY <1>4, <4>1 DEF AreBytes
      <3>3. Number(b, pos, k1) \in 0 .. Power2[ByteBits * k1] - 1
        BY <3>2, NumberRange
      <3> QED
        BY <3>1, <3>3, PowerOfByte
    <2> QED
      BY <2>1, <2>3, <2>4, <2>5, <2>6, <2>7
  <1>9. PICK m \in Nat : m = B - 1 /\ m \in 0 .. B /\ m + 1 = B
    OBVIOUS
  <1>10. v[m] = Number(b, pos, m + 1)
    <2>1. g.fp + B <= Len(b) /\ b = g.bytes /\ g.fp = pos + 1
      BY <1>2, <1>4, <1>5
    <2>2. FitsInWord(b, pos, m)
      <3>1. \A k \in 1 .. m : k \in 0 .. B - 1
        BY <1>9
      <3> QED
        BY <1>8, <3>1 DEF FitsInWord
    <2>3. PICK cut \in 0 .. b[pos + 1] : cut = 0
      BY <1>6
    <2>4. Shifted(v, g, b[pos + 1] - cut, B)
      <3>1. b[pos + 1] - cut = 0
        BY <1>6, <2>3
      <3> QED
        BY <1>7, <3>1
    <2>5. B \in Nat
      OBVIOUS
    <2>6. v[m] = Number(b, pos, m + 1) - cut * Power2[ByteBits * m]
      <3>1. ReadsOver(g, b, pos, cut, v, B, m)
        BY <1>9, <2>1, <2>2, <2>4, <2>5 DEF ReadsOver
      <3> QED
        BY <3>1, ShiftedNumber, SMT
    <2>7. cut * Power2[ByteBits * m] = 0
      BY <2>3, PowerOfByte
    <2>8. Number(b, pos, m + 1) \in Nat
      BY <1>8, <1>9
    <2> QED
      BY <2>6, <2>7, <2>8
  <1>11. v[m] \in 0 .. Power2[ByteBits * (ByteBits - 1)] - 1
    <2>1. m \in 0 .. B - 1
      BY <1>9
    <2>2. /\ Number(b, pos, m + 1) < Power2[ByteBits * (ByteBits - 1)]
          /\ Number(b, pos, m + 1) \in Nat
      BY <1>8, <2>1
    <2>4. PICK top \in Nat : top = Power2[ByteBits * (ByteBits - 1)]
      <3>1. PICK less \in Nat : less = ByteBits - 1
        BY <1>3
      <3>2. Power2[ByteBits * less] \in Nat
        BY PowerOfByte
      <3> QED
        BY <3>1, <3>2
    <2> QED
      BY <1>10, <2>2, <2>4
  <1>12. v[B] \in -Power2[Word - 1] .. Power2[Word - 1] - 1
    <2>1. B \in 1 .. B /\ B - 1 = m
      BY <1>9
    <2>2. v[B] = ShiftIn(v[m], b[(pos + 1) + B])
      BY <1>5, <1>7, <2>1 DEF Shifted
    <2>3. b[(pos + 1) + B] \in Byte
      <3>1. B + 1 \in 1 .. B + 1 /\ pos + (B + 1) = (pos + 1) + B
        OBVIOUS
      <3> QED
        BY <1>4, <3>1 DEF AreBytes
    <2> QED
      BY <1>11, <2>2, <2>3, ShiftInWord
  <1> QED
    BY <1>1, <1>3, <1>7, <1>12

(* What a vint that was built has.                                         *)
LEMMA VintFields ==
  ASSUME NEW value, NEW size
  PROVE  /\ vint(value, size).value = value
         /\ vint(value, size).coded_size = size
         /\ vint(value, size).is_set
  BY DEF vint

(* A size or an ID of a legal length fits in a word, and is not negative;  *)
(* an ID is not zero.                                                      *)
LEMMA ValueInWord ==
  ASSUME NEW mode \in Mode, NEW n \in 1 .. ByteBits,
         NEW number \in Power2[(ByteBits - 1) * n] .. 2 * Power2[(ByteBits - 1) * n] - 1
  PROVE  /\ number - CutOff(mode, n) \in 0 .. Power2[Word - 1] - 1
         /\ mode # "rm_normal" => number - CutOff(mode, n) > 0
  <1>1. PICK marker \in Nat \ {0} : marker = Power2[(ByteBits - 1) * n]
    BY VintBits
  <1>2. PICK half \in Nat : half = Power2[Word - 1] /\ 2 * marker <= half
    <2>1. Power2[Word - 1] \in Nat /\ 2 * Power2[(ByteBits - 1) * n] <= Power2[Word - 1]
      BY VintBits, WordBits
    <2> QED
      BY <1>1, <2>1
  <1>3. CutOff(mode, n) = IF mode = "rm_normal" THEN marker ELSE 0
    BY <1>1 DEF CutOff
  <1>4. number \in marker .. 2 * marker - 1
    BY <1>1
  <1> QED
    BY <1>1, <1>2, <1>3, <1>4
=============================================================================
