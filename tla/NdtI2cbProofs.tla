---------------------------- MODULE NdtI2cbProofs ----------------------------
(***************************************************************************)
(* Proofs about the I2CB slave, for any streams, any bytes and writes and  *)
(* reads of any length: the commands of a write are executed as they were  *)
(* sent, and the bytes of a read come in order, however the transactions   *)
(* are cut off.                                                            *)
(***************************************************************************)
EXTENDS NdtI2cb, SequenceTheorems, WellFoundedInduction, TLAPS

-----------------------------------------------------------------------------
(* What Decode computes.                                                   *)

Octet == 0 .. 255

EffectSet ==
  {BadCommand} \cup {Effect(c, p, q) : c \in 1 .. CMD_MAX, p \in Octet, q \in Octet}

\* The byte at place i, or nothing.
At(b, i) == IF i <= Len(b) THEN b[i] ELSE 0

\* Where the next command begins.
Beyond(b, i) == i + 1 + k_paramLen[b[i]]

\* Decode as an equation: what the bytes from i on ask for, given what all the
\* later ones do.
Body(b, f, i) ==
  IF i > Len(b) THEN << >>
  ELSE IF b[i] \notin 1 .. CMD_MAX THEN <<BadCommand>> \o f[i + 1]
  ELSE IF Beyond(b, i) > Len(b) + 1 THEN << >>
  ELSE <<Effect(b[i], At(b, i + 1), At(b, i + 2))>> \o f[Beyond(b, i)]

Solves(b, m, f) == f = [i \in m .. Len(b) + 1 |-> Body(b, f, i)]

Rest(b) == CHOOSE f : Solves(b, 1, f)

LEMMA DecodeIsRest ==
  ASSUME NEW b
  PROVE  Decode(b) = Rest(b)[1]
BY DEF Decode, Rest, Solves, Body, Beyond, At

LEMMA ParamLen == \A c \in 1 .. CMD_MAX : k_paramLen[c] \in 0 .. 2
BY DEF k_paramLen, CMD_MAX

\* A set of naturals that is not empty has a least element.
LEMMA LeastNat ==
  ASSUME NEW S, S \subseteq Nat, S # {}
  PROVE  \E x \in S : \A y \in S : x <= y
<1> DEFINE R == {ss \in Nat \X Nat : ss[1] < ss[2]}
<1>1. IsWellFoundedOn(R, Nat)
  BY NatLessThanWellFounded, Zenon DEF OpToRel
<1> HIDE DEF R
<1>2. PICK x \in S : \A y \in S : ~(<<y, x>> \in R)
  BY <1>1, WFMin, Zenon
<1>3. ASSUME NEW y \in S, y < x PROVE FALSE
  <2>1. <<y, x>> \in R
    BY <1>3 DEF R
  <2>2. QED
    BY <2>1, <1>2
<1>4. QED
  BY <1>3

\* The equation looks ahead only, so it has a solution: one can be built from the
\* end of the bytes to their beginning.
LEMMA RestSolves ==
  ASSUME NEW b \in Seq(Octet)
  PROVE  Solves(b, 1, Rest(b))
<1> DEFINE n == Len(b) + 1
           Missing == {j \in 0 .. n - 1 : ~ \E f : Solves(b, n - j, f)}
<1>1. n \in Nat \ {0} /\ Len(b) = n - 1
  OBVIOUS
<1>2. SUFFICES Missing = {}
  <2>1. n - 1 \in 0 .. n - 1 /\ n - (n - 1) = 1
    BY <1>1
  <2>2. \E f : Solves(b, 1, f)
    <3> HIDE DEF n
    <3>1. n - 1 \notin Missing
      BY <1>2
    <3>2. \E f : Solves(b, n - (n - 1), f)
      BY <2>1, <3>1
    <3>3. QED
      BY <2>1, <3>2
  <2>3. QED
    BY <2>2, Zenon DEF Rest
<1>3. SUFFICES ASSUME Missing # {}
               PROVE  FALSE
  OBVIOUS
<1>4. PICK j \in Missing : \A k \in Missing : j <= k
  <2>1. Missing \subseteq Nat
    BY <1>1
  <2> HIDE DEF Missing
  <2>2. QED
    BY <1>3, <2>1, LeastNat
<1>5. j \in 0 .. n - 1 /\ ~ \E f : Solves(b, n - j, f)
  BY <1>4
<1>6. CASE j = 0
  <2> DEFINE g == [i \in n .. n |-> << >>]
  <2>1. \A i \in n .. n : i > Len(b) /\ Body(b, g, i) = << >>
    BY <1>1 DEF Body
  <2>2. g = [i \in n .. Len(b) + 1 |-> Body(b, g, i)]
    BY <1>1, <2>1
  <2>3. Solves(b, n - j, g)
    <3>1. n - j = n
      BY <1>1, <1>6
    <3> HIDE DEF g, n
    <3>2. QED
      BY <2>2, <3>1 DEF Solves
  <2>4. QED
    BY <1>5, <2>3
<1>7. CASE j # 0
  <2> DEFINE m == n - j
  <2>1. m \in 1 .. n - 1 /\ j - 1 \in 0 .. n - 1 /\ n - (j - 1) = m + 1
    BY <1>1, <1>5, <1>7
  <2>2. j - 1 \notin Missing
    <3>1. ~(j <= j - 1)
      BY <1>5
    <3> HIDE DEF Missing
    <3>2. QED
      BY <1>4, <3>1
  <2>3. PICK f : Solves(b, m + 1, f)
    <3> HIDE DEF m, n
    <3>1. \E f : Solves(b, n - (j - 1), f)
      BY <2>1, <2>2
    <3>2. QED
      BY <2>1, <3>1
  <2> DEFINE g == [i \in m .. n |-> IF i = m THEN Body(b, f, i) ELSE f[i]]
  <2>4. f = [i \in m + 1 .. n |-> Body(b, f, i)]
    BY <2>3 DEF Solves
  <2> HIDE DEF m
  <2>5. \A i \in m + 1 .. n : g[i] = f[i]
    BY <1>1, <2>1
  <2>6. \A i \in m .. n : Body(b, g, i) = Body(b, f, i)
    <3> SUFFICES ASSUME NEW i \in m .. n
                 PROVE  Body(b, g, i) = Body(b, f, i)
      OBVIOUS
    <3> HIDE DEF g
    <3>1. i <= Len(b) => i + 1 \in m + 1 .. n
      BY <1>1, <2>1
    <3>2. i <= Len(b) /\ b[i] \in 1 .. CMD_MAX /\ ~(Beyond(b, i) > Len(b) + 1)
            => Beyond(b, i) \in m + 1 .. n
      <4> SUFFICES ASSUME i <= Len(b), b[i] \in 1 .. CMD_MAX, ~(Beyond(b, i) > Len(b) + 1)
                   PROVE  Beyond(b, i) \in m + 1 .. n
        OBVIOUS
      <4>1. k_paramLen[b[i]] \in 0 .. 2
        BY ParamLen
      <4>2. QED
        BY <1>1, <2>1, <4>1 DEF Beyond
    <3>3. ~(i > Len(b)) => i <= Len(b)
      BY <1>1, <2>1
    <3>4. QED
      BY <2>5, <3>1, <3>2, <3>3 DEF Body
  <2>7. g = [i \in m .. n |-> Body(b, g, i)]
    <3>1. \A i \in m .. n : i # m => i \in m + 1 .. n
      BY <2>1, <1>1
    <3>2. \A i \in m + 1 .. n : f[i] = Body(b, f, i)
      BY <2>4
    <3>3. \A i \in m .. n : g[i] = Body(b, f, i)
      BY <3>1, <3>2
    <3>4. \A i \in m .. n : g[i] = Body(b, g, i)
      BY <2>6, <3>3
    <3>5. g = [i \in m .. n |-> g[i]]
      OBVIOUS
    <3> HIDE DEF g
    <3>6. QED
      BY <3>4, <3>5
  <2>8. Solves(b, n - j, g)
    <3> HIDE DEF g
    <3>1. QED
      BY <2>7 DEF Solves, m
  <2>9. QED
    BY <1>5, <2>8
<1>8. QED
  BY <1>6, <1>7

\* Each place of the bytes in terms of the later ones.
LEMMA RestAt ==
  ASSUME NEW b \in Seq(Octet), NEW i \in 1 .. Len(b) + 1
  PROVE  Rest(b)[i] = Body(b, Rest(b), i)
<1>1. Rest(b) = [k \in 1 .. Len(b) + 1 |-> Body(b, Rest(b), k)]
  BY RestSolves DEF Solves
<1> DEFINE f == Rest(b)
<1> HIDE DEF f
<1>2. f = [k \in 1 .. Len(b) + 1 |-> Body(b, f, k)]
  BY <1>1 DEF f
<1>3. f[i] = Body(b, f, i)
  BY <1>2
<1>4. QED
  BY <1>3 DEF f

LEMMA EffectsSeen ==
  ASSUME NEW b \in Seq(Octet), NEW i \in 1 .. Len(b), b[i] \in 1 .. CMD_MAX
  PROVE  Effect(b[i], At(b, i + 1), At(b, i + 2)) \in EffectSet
<1>1. ASSUME NEW k \in Nat \ {0} PROVE At(b, k) \in Octet
  <2>1. 0 \in Octet
    BY DEF Octet
  <2>2. k <= Len(b) => k \in 1 .. Len(b)
    OBVIOUS
  <2>3. k <= Len(b) => b[k] \in Octet
    BY <2>2, ElementOfSeq
  <2>4. QED
    BY <2>1, <2>3 DEF At
<1>2. At(b, i + 1) \in Octet /\ At(b, i + 2) \in Octet
  BY <1>1
<1>3. QED
  BY <1>2 DEF EffectSet

\* Wherever one begins to read, what the rest asks for is a sequence of effects.
LEMMA RestTypes ==
  ASSUME NEW b \in Seq(Octet)
  PROVE  \A i \in 1 .. Len(b) + 1 : Rest(b)[i] \in Seq(EffectSet)
<1> DEFINE n == Len(b) + 1
           Wrong == {j \in 0 .. n - 1 : Rest(b)[n - j] \notin Seq(EffectSet)}
<1>1. n \in Nat \ {0} /\ Len(b) = n - 1
  OBVIOUS
<1>2. SUFFICES Wrong = {}
  <2> SUFFICES ASSUME NEW i \in 1 .. n PROVE Rest(b)[i] \in Seq(EffectSet)
    OBVIOUS
  <2>1. n - i \in 0 .. n - 1 /\ n - (n - i) = i
    BY <1>1
  <2>2. QED
    BY <1>2, <2>1
<1>3. SUFFICES ASSUME Wrong # {} PROVE FALSE
  OBVIOUS
<1>4. PICK j \in Wrong : \A k \in Wrong : j <= k
  <2>1. Wrong \subseteq Nat
    BY <1>1
  <2> HIDE DEF Wrong
  <2>2. QED
    BY <1>3, <2>1, LeastNat
<1> DEFINE i == n - j
<1>5. j \in 0 .. n - 1 /\ Rest(b)[i] \notin Seq(EffectSet)
  BY <1>4
<1>6. i \in 1 .. n
  BY <1>1, <1>5
<1>7. ASSUME NEW k \in i + 1 .. n
      PROVE  Rest(b)[k] \in Seq(EffectSet)
  <2>1. n - k \in 0 .. n - 1 /\ n - (n - k) = k /\ ~(j <= n - k)
    BY <1>1, <1>5
  <2>2. n - k \notin Wrong
    <3> HIDE DEF Wrong
    <3>1. QED
      BY <1>4, <2>1
  <2>3. QED
    BY <2>1, <2>2
<1> HIDE DEF Wrong, i
<1>8. Rest(b)[i] = Body(b, Rest(b), i)
  BY <1>6, RestAt
<1>9. CASE i > Len(b)
  BY <1>5, <1>8, <1>9 DEF Body
<1>10. CASE i <= Len(b) /\ b[i] \notin 1 .. CMD_MAX
  <2>1. i + 1 \in i + 1 .. n
    BY <1>1, <1>6, <1>10
  <2>2. Rest(b)[i + 1] \in Seq(EffectSet) /\ <<BadCommand>> \in Seq(EffectSet)
    BY <1>7, <2>1 DEF EffectSet
  <2>3. <<BadCommand>> \o Rest(b)[i + 1] \in Seq(EffectSet)
    BY <2>2, ConcatProperties
  <2>4. Rest(b)[i] = <<BadCommand>> \o Rest(b)[i + 1]
    BY <1>6, <1>8, <1>10 DEF Body
  <2>5. QED
    BY <1>5, <2>3, <2>4
<1>11. CASE i <= Len(b) /\ b[i] \in 1 .. CMD_MAX /\ Beyond(b, i) > Len(b) + 1
  BY <1>5, <1>6, <1>8, <1>11 DEF Body
<1>12. CASE i <= Len(b) /\ b[i] \in 1 .. CMD_MAX /\ ~(Beyond(b, i) > Len(b) + 1)
  <2> DEFINE e == Effect(b[i], At(b, i + 1), At(b, i + 2))
  <2>1. Beyond(b, i) \in i + 1 .. n
    <3>1. k_paramLen[b[i]] \in 0 .. 2
      BY <1>12, ParamLen
    <3>2. QED
      BY <1>1, <1>6, <1>12, <3>1 DEF Beyond
  <2>2. Rest(b)[i] = <<e>> \o Rest(b)[Beyond(b, i)]
    BY <1>6, <1>8, <1>12 DEF Body
  <2>3. i \in 1 .. Len(b)
    BY <1>1, <1>6, <1>12
  <2>4. e \in EffectSet
    BY <1>12, <2>3, EffectsSeen
  <2> HIDE DEF e
  <2>5. Rest(b)[Beyond(b, i)] \in Seq(EffectSet) /\ <<e>> \in Seq(EffectSet)
    BY <1>7, <2>1, <2>4
  <2>6. <<e>> \o Rest(b)[Beyond(b, i)] \in Seq(EffectSet)
    BY <2>5, ConcatProperties
  <2>7. QED
    BY <1>5, <2>2, <2>6
<1>13. QED
  BY <1>1, <1>6, <1>9, <1>10, <1>11, <1>12

LEMMA DecodeTypes ==
  ASSUME NEW b \in Seq(Octet)
  PROVE  Decode(b) \in Seq(EffectSet)
<1>1. 1 \in 1 .. Len(b) + 1
  OBVIOUS
<1>2. QED
  BY <1>1, RestTypes, DecodeIsRest

\* What bytes ask for does not depend on the bytes before them.
LEMMA RestShifts ==
  ASSUME NEW b \in Seq(Octet), NEW t \in Seq(Octet), NEW k \in Nat,
         Len(b) = k + Len(t), \A i \in 1 .. Len(t) : b[k + i] = t[i]
  PROVE  \A i \in 1 .. Len(t) + 1 : Rest(b)[k + i] = Rest(t)[i]
<1> DEFINE n == Len(t) + 1
           Wrong == {j \in 0 .. n - 1 : Rest(b)[k + (n - j)] # Rest(t)[n - j]}
<1>1. n \in Nat \ {0} /\ Len(t) = n - 1 /\ Len(b) = k + n - 1
  OBVIOUS
<1>2. SUFFICES Wrong = {}
  <2> SUFFICES ASSUME NEW i \in 1 .. n PROVE Rest(b)[k + i] = Rest(t)[i]
    OBVIOUS
  <2>1. n - i \in 0 .. n - 1 /\ n - (n - i) = i
    BY <1>1
  <2>2. QED
    BY <1>2, <2>1
<1>3. SUFFICES ASSUME Wrong # {} PROVE FALSE
  OBVIOUS
<1>4. PICK j \in Wrong : \A l \in Wrong : j <= l
  <2>1. Wrong \subseteq Nat
    BY <1>1
  <2> HIDE DEF Wrong
  <2>2. QED
    BY <1>3, <2>1, LeastNat
<1> DEFINE i == n - j
<1>5. j \in 0 .. n - 1 /\ Rest(b)[k + i] # Rest(t)[i]
  BY <1>4
<1>6. i \in 1 .. n /\ k + i \in 1 .. Len(b) + 1
  BY <1>1, <1>5
<1>7. ASSUME NEW l \in i + 1 .. n
      PROVE  Rest(b)[k + l] = Rest(t)[l]
  <2>1. n - l \in 0 .. n - 1 /\ n - (n - l) = l /\ ~(j <= n - l)
    BY <1>1, <1>5
  <2>2. n - l \notin Wrong
    <3> HIDE DEF Wrong
    <3>1. QED
      BY <1>4, <2>1
  <2>3. QED
    BY <2>1, <2>2
<1> HIDE DEF Wrong, i
<1>8. /\ Rest(b)[k + i] = Body(b, Rest(b), k + i)
      /\ Rest(t)[i] = Body(t, Rest(t), i)
  BY <1>6, RestAt
<1>9. CASE i > Len(t)
  <2>1. k + i > Len(b)
    BY <1>1, <1>6, <1>9
  <2>2. QED
    BY <1>5, <1>8, <1>9, <2>1 DEF Body
<1>10. CASE i <= Len(t)
  <2>1. /\ i \in 1 .. Len(t) /\ ~(i > Len(t)) /\ ~(k + i > Len(b))
        /\ k + i + 1 = k + (i + 1) /\ i + 1 \in i + 1 .. n
    BY <1>1, <1>6, <1>10
  <2>2. b[k + i] = t[i]
    BY <2>1
  <2>3. At(b, k + i + 1) = At(t, i + 1) /\ At(b, k + i + 2) = At(t, i + 2)
    <3>1. ASSUME NEW l \in Nat \ {0}
          PROVE  At(b, k + l) = At(t, l)
      <4>1. CASE l <= Len(t)
        <5>1. k + l <= Len(b) /\ l \in 1 .. Len(t)
          BY <1>1, <4>1
        <5>2. QED
          BY <4>1, <5>1 DEF At
      <4>2. CASE ~(l <= Len(t))
        <5>1. ~(k + l <= Len(b))
          BY <1>1, <4>2
        <5>2. QED
          BY <4>2, <5>1 DEF At
      <4>3. QED
        BY <4>1, <4>2
    <3>2. /\ i + 1 \in Nat \ {0} /\ i + 2 \in Nat \ {0}
          /\ k + i + 1 = k + (i + 1) /\ k + i + 2 = k + (i + 2)
      BY <1>1, <1>6
    <3>3. QED
      BY <3>1, <3>2
  <2>4. CASE t[i] \notin 1 .. CMD_MAX
    <3>1. Rest(b)[k + (i + 1)] = Rest(t)[i + 1]
      BY <1>7, <2>1
    <3>2. Rest(b)[k + i] = <<BadCommand>> \o Rest(b)[k + (i + 1)]
      BY <1>8, <2>1, <2>2, <2>4 DEF Body
    <3>3. Rest(t)[i] = <<BadCommand>> \o Rest(t)[i + 1]
      BY <1>8, <2>1, <2>4 DEF Body
    <3>4. QED
      BY <1>5, <3>1, <3>2, <3>3
  <2>5. CASE t[i] \in 1 .. CMD_MAX
    <3>1. k_paramLen[t[i]] \in 0 .. 2
      BY <2>5, ParamLen
    <3>2. Beyond(b, k + i) = k + Beyond(t, i) /\ Beyond(t, i) \in Nat
      <4> DEFINE l == k_paramLen[t[i]]
      <4>1. l \in Nat /\ i \in Nat
        BY <1>6, <3>1
      <4>2. Beyond(b, k + i) = k + i + 1 + l /\ Beyond(t, i) = i + 1 + l
        BY <2>2 DEF Beyond
      <4> HIDE DEF l
      <4>3. k + i + 1 + l = k + (i + 1 + l) /\ i + 1 + l \in Nat
        BY <4>1
      <4>4. QED
        BY <4>2, <4>3
    <3>3. (Beyond(b, k + i) > Len(b) + 1) <=> (Beyond(t, i) > Len(t) + 1)
      BY <1>1, <3>2
    <3>4. CASE Beyond(t, i) > Len(t) + 1
      BY <1>5, <1>8, <2>1, <2>2, <2>5, <3>3, <3>4 DEF Body
    <3>5. CASE ~(Beyond(t, i) > Len(t) + 1)
      <4>1. Beyond(t, i) \in i + 1 .. n
        BY <1>1, <1>6, <3>1, <3>5 DEF Beyond
      <4>2. Rest(b)[Beyond(b, k + i)] = Rest(t)[Beyond(t, i)]
        BY <1>7, <3>2, <4>1
      <4>3. QED
        BY <1>5, <1>8, <2>1, <2>2, <2>3, <2>5, <3>3, <3>5, <4>2 DEF Body
    <3>6. QED
      BY <3>4, <3>5
  <2>6. QED
    BY <2>4, <2>5
<1>11. QED
  BY <1>1, <1>6, <1>9, <1>10

\* The effect of a command depends on its own parameters only.
LEMMA OwnParameters ==
  ASSUME NEW c \in 1 .. CMD_MAX, NEW p, NEW q, NEW p2, NEW q2,
         k_paramLen[c] >= 1 => p = p2, k_paramLen[c] >= 2 => q = q2
  PROVE  Effect(c, p, q) = Effect(c, p2, q2)
<1>1. c \in 1 .. 8
  BY DEF CMD_MAX
<1>2. CASE c \in {1, 3, 5, 8}
  BY <1>2 DEF Effect
<1>3. CASE c \in {2, 4}
  <2>1. p = p2
    BY <1>3 DEF k_paramLen
  <2>2. QED
    BY <1>3, <2>1 DEF Effect
<1>4. CASE c \in {6, 7}
  <2>1. p = p2 /\ q = q2
    BY <1>4 DEF k_paramLen
  <2>2. QED
    BY <2>1
<1>5. QED
  BY <1>1, <1>2, <1>3, <1>4

\* The first command, complete with its parameters, and what follows it.
LEMMA DecodeCommand ==
  ASSUME NEW s \in Seq(Octet), NEW t \in Seq(Octet), s # << >>, s[1] \in 1 .. CMD_MAX,
         Len(s) = 1 + k_paramLen[s[1]], NEW p \in Octet, NEW q \in Octet,
         k_paramLen[s[1]] >= 1 => p = s[2], k_paramLen[s[1]] >= 2 => q = s[3]
  PROVE  Decode(s \o t) = <<Effect(s[1], p, q)>> \o Decode(t)
<1> DEFINE b == s \o t  k == Len(s)
<1>1. k \in 1 .. 3 /\ Len(t) \in Nat /\ k_paramLen[s[1]] = k - 1 /\ k_paramLen[s[1]] \in 0 .. 2
  BY ParamLen
<1>2. /\ b \in Seq(Octet) /\ Len(b) = k + Len(t)
      /\ \A i \in 1 .. k + Len(t) : b[i] = IF i <= k THEN s[i] ELSE t[i - k]
  BY ConcatProperties
<1> HIDE DEF b, k
<1>3. \A i \in 1 .. Len(t) : b[k + i] = t[i]
  <2> SUFFICES ASSUME NEW i \in 1 .. Len(t) PROVE b[k + i] = t[i]
    OBVIOUS
  <2>1. k + i \in 1 .. k + Len(t) /\ ~(k + i <= k) /\ k + i - k = i
    BY <1>1
  <2>2. PICK j \in 1 .. k + Len(t) : j = k + i
    BY <2>1
  <2>3. b[j] = t[j - k]
    BY <1>2, <2>1, <2>2
  <2>4. j - k = i
    BY <1>1, <2>2
  <2>5. QED
    BY <2>2, <2>3, <2>4
<1>4. \A i \in 1 .. k : b[i] = s[i]
  BY <1>1, <1>2
<1>5. b[1] = s[1] /\ 1 \in 1 .. Len(b) + 1 /\ ~(1 > Len(b))
  BY <1>1, <1>2, <1>4
<1>6. Beyond(b, 1) = k + 1 /\ ~(Beyond(b, 1) > Len(b) + 1)
  <2>1. Beyond(b, 1) = 1 + 1 + (k - 1)
    BY <1>1, <1>5 DEF Beyond
  <2>2. QED
    BY <1>1, <1>2, <2>1
<1>7. Rest(b)[1] = <<Effect(s[1], At(b, 1 + 1), At(b, 1 + 2))>> \o Rest(b)[k + 1]
  BY <1>2, <1>5, <1>6, RestAt DEF Body
<1>8. Rest(b)[k + 1] = Rest(t)[1]
  <2>1. 1 \in 1 .. Len(t) + 1 /\ k \in Nat
    BY <1>1
  <2>2. QED
    BY <1>2, <1>3, <2>1, RestShifts
<1>9. Effect(s[1], At(b, 1 + 1), At(b, 1 + 2)) = Effect(s[1], p, q)
  <2>1. k >= 2 => At(b, 1 + 1) = s[2]
    BY <1>1, <1>2, <1>4 DEF At
  <2>2. k >= 3 => At(b, 1 + 2) = s[3]
    BY <1>1, <1>2, <1>4 DEF At
  <2>3. /\ k_paramLen[s[1]] >= 1 => At(b, 1 + 1) = p
        /\ k_paramLen[s[1]] >= 2 => At(b, 1 + 2) = q
    BY <1>1, <2>1, <2>2
  <2>4. QED
    BY <2>3, OwnParameters
<1>10. Decode(b) = Rest(b)[1] /\ Decode(t) = Rest(t)[1]
  BY DecodeIsRest
<1>11. QED
  BY <1>7, <1>8, <1>9, <1>10 DEF b

\* A byte that is no command, and what follows it.
LEMMA DecodeBad ==
  ASSUME NEW d \in Octet, NEW t \in Seq(Octet), d \notin 1 .. CMD_MAX
  PROVE  Decode(<<d>> \o t) = <<BadCommand>> \o Decode(t)
<1> DEFINE b == <<d>> \o t
<1>1. <<d>> \in Seq(Octet) /\ Len(<<d>>) = 1 /\ Len(t) \in Nat
  OBVIOUS
<1>2. /\ b \in Seq(Octet) /\ Len(b) = 1 + Len(t)
      /\ \A i \in 1 .. 1 + Len(t) : b[i] = IF i <= 1 THEN <<d>>[i] ELSE t[i - 1]
  BY <1>1, ConcatProperties
<1> HIDE DEF b
<1>3. \A i \in 1 .. Len(t) : b[1 + i] = t[i]
  <2> SUFFICES ASSUME NEW i \in 1 .. Len(t) PROVE b[1 + i] = t[i]
    OBVIOUS
  <2>1. 1 + i \in 1 .. 1 + Len(t) /\ ~(1 + i <= 1) /\ 1 + i - 1 = i
    BY <1>1
  <2>2. QED
    BY <1>2, <2>1
<1>4. b[1] = d /\ 1 \in 1 .. Len(b) + 1 /\ ~(1 > Len(b))
  BY <1>1, <1>2
<1>5. Rest(b)[1] = <<BadCommand>> \o Rest(b)[1 + 1]
  BY <1>2, <1>4, RestAt DEF Body
<1>6. Rest(b)[1 + 1] = Rest(t)[1]
  <2>1. 1 \in 1 .. Len(t) + 1
    BY <1>1
  <2>2. QED
    BY <1>2, <1>3, <2>1, RestShifts
<1>7. Decode(b) = Rest(b)[1] /\ Decode(t) = Rest(t)[1]
  BY DecodeIsRest
<1>8. QED
  BY <1>5, <1>6, <1>7 DEF b

\* Bytes that end within a command, and no bytes.
LEMMA DecodePart ==
  ASSUME NEW s \in Seq(Octet),
         s # << >> => s[1] \in 1 .. CMD_MAX /\ Len(s) < 1 + k_paramLen[s[1]]
  PROVE  Decode(s) = << >>
<1>1. 1 \in 1 .. Len(s) + 1 /\ Len(s) \in Nat
  OBVIOUS
<1>2. Rest(s)[1] = Body(s, Rest(s), 1)
  BY <1>1, RestAt
<1>3. CASE s = << >>
  <2>1. 1 > Len(s)
    BY <1>3
  <2>2. QED
    BY <1>2, <2>1, DecodeIsRest DEF Body
<1>4. CASE s # << >>
  <2>1. ~(1 > Len(s))
    <3>1. Len(s) # 0
      BY <1>4, EmptySeq
    <3>2. QED
      BY <1>1, <3>1
  <2>2. Beyond(s, 1) > Len(s) + 1
    BY <1>1, <1>4, ParamLen DEF Beyond
  <2>3. QED
    BY <1>2, <1>4, <2>1, <2>2, DecodeIsRest DEF Body
<1>5. QED
  BY <1>3, <1>4

-----------------------------------------------------------------------------
(* The inductive invariant.                                                *)

\* The source that is pending belongs to the transaction that is open.
SourceInv ==
  /\ src \in [kind : {"NONE", "ADDR_TARGET", "TX_DATA_RDY", "STOP_CONDITION",
                      "NO_ACK", "ARB_LOST"}]
             \cup [kind : {"RX_DATA_RDY"}, data : Bytes]
  /\ src.kind = "ADDR_TARGET" => written = << >> /\ nread = 0
  /\ src.kind = "RX_DATA_RDY" => bus = "write"
  /\ src.kind = "TX_DATA_RDY" => bus = "read" /\ nread < MaxRead
  /\ src.kind \in {"STOP_CONDITION", "NO_ACK", "ARB_LOST"} => bus = "idle"

\* The bytes of a command whose parameters are not all there yet.
Pending ==
  IF s_need = 0 THEN << >>
  ELSE IF s_got = 0 THEN <<s_cmd>> ELSE <<s_cmd, s_par[0]>>

\* What these bytes and any more ask for is what has been done already and what
\* those more bytes ask for after the pending ones.
Follows(bytes, done, pending) ==
  /\ done \in Seq(EffectSet)
  /\ \A t \in Seq(Octet) : Decode(bytes \o t) = done \o Decode(pending \o t)

\* The parser keeps what it has not executed, and nothing of the transactions
\* before: at a new one it starts over before the first byte.
ParserInv ==
  /\ effects = Decode(written)
  /\ bus = "write" /\ src.kind # "ADDR_TARGET" => Follows(written, effects, Pending)

\* The index counts the bytes of this read, from the beginning of the stream.
IndexInv ==
  bus = "read" /\ src.kind # "ADDR_TARGET" => s_txIdx = nread % StreamBytes(s_tx)

Inv == TypeOK /\ SourceInv /\ ParserInv /\ IndexInv

-----------------------------------------------------------------------------
(* Lemmas about streams, indices and effects.                              *)

LEMMA StreamLength == \A s \in Streams : StreamBytes(s) \in Nat \ {0}
<1> SUFFICES ASSUME NEW s \in Streams PROVE StreamBytes(s) \in Nat \ {0}
  OBVIOUS
<1>1. CASE s = Status
  BY <1>1 DEF StreamBytes, Status
<1>2. CASE s = Taps
  BY <1>2, StreamAssumption DEF StreamBytes, Taps
<1>3. CASE s = Hdr
  BY <1>3, StreamAssumption DEF StreamBytes, Hdr
<1>4. ASSUME NEW c \in 0 .. WaveChannels - 1, s = Wave(c)
      PROVE  StreamBytes(s) \in Nat \ {0}
  BY <1>4, StreamAssumption DEF StreamBytes, Wave
<1>5. QED
  BY <1>1, <1>2, <1>3, <1>4 DEF Streams

LEMMA Remainder ==
  ASSUME NEW m \in Nat \ {0}, NEW q \in Int, NEW r \in 0 .. m - 1
  PROVE  (m * q + r) % m = r
OBVIOUS

\* Counting round a stream is counting, modulo its length.
LEMMA NextIndex ==
  ASSUME NEW n \in Nat, NEW m \in Nat \ {0}
  PROVE  (n + 1) % m = IF (n % m) + 1 >= m THEN 0 ELSE (n % m) + 1
<1>1. PICK q \in Int, r \in 0 .. m - 1 : n % m = r /\ n = m * q + r
  <2>1. n % m \in 0 .. m - 1 /\ n \div m \in Int /\ n = m * (n \div m) + (n % m)
    OBVIOUS
  <2>2. QED
    BY <2>1, Zenon
<1>2. CASE r + 1 = m
  <2>1. n + 1 = m * (q + 1) + 0 /\ q + 1 \in Int /\ 0 \in 0 .. m - 1
    BY <1>1, <1>2
  <2>2. (n + 1) % m = 0
    BY <2>1, Remainder
  <2>3. QED
    BY <1>1, <1>2, <2>2
<1>3. CASE r + 1 < m
  <2>1. n + 1 = m * q + (r + 1) /\ r + 1 \in 0 .. m - 1
    BY <1>1, <1>3
  <2>2. (n + 1) % m = r + 1
    BY <2>1, Remainder
  <2>3. QED
    BY <1>1, <1>3, <2>2
<1>4. QED
  BY <1>1, <1>2, <1>3

\* A command that selects a stream selects one of those there are.
LEMMA SelectsStream ==
  ASSUME NEW c \in 1 .. CMD_MAX, NEW p \in Octet, NEW q, Effect(c, p, q).does = "select"
  PROVE  Effect(c, p, q).stream \in Streams
<1>1. c \in 1 .. 8
  BY DEF CMD_MAX
<1>2. CASE c = 3
  BY <1>2 DEF Effect, Selects, Streams
<1>3. CASE c = 5
  BY <1>3 DEF Effect, Selects, Streams
<1>4. CASE c = 8
  BY <1>4 DEF Effect, Selects, Streams
<1>5. CASE c = 4
  <2> DEFINE ch == IF p % 8 < WaveChannels THEN p % 8 ELSE 0
  <2>1. Effect(c, p, q) = Selects(Wave(ch))
    BY <1>5 DEF Effect
  <2>2. ch \in 0 .. WaveChannels - 1
    BY StreamAssumption DEF Octet
  <2> HIDE DEF ch
  <2>3. QED
    BY <2>1, <2>2 DEF Selects, Streams
<1>6. CASE c \in {1, 2, 6, 7}
  BY <1>6 DEF Effect, Posts
<1>7. QED
  BY <1>1, <1>2, <1>3, <1>4, <1>5, <1>6

\* A byte that leaves its command incomplete is pending.
LEMMA FollowsPart ==
  ASSUME NEW w \in Seq(Octet), NEW e, NEW s \in Seq(Octet), NEW d \in Octet,
         Follows(w, e, s)
  PROVE  Follows(Append(w, d), e, s \o <<d>>)
<1> SUFFICES ASSUME NEW t \in Seq(Octet)
             PROVE  Decode(Append(w, d) \o t) = e \o Decode((s \o <<d>>) \o t)
  BY DEF Follows
<1>1. <<d>> \in Seq(Octet)
  OBVIOUS
<1>2. <<d>> \o t \in Seq(Octet)
  BY <1>1, ConcatProperties
<1>3. Append(w, d) \o t = w \o (<<d>> \o t)
  BY <1>1, AppendIsConcat, ConcatAssociative
<1>4. (s \o <<d>>) \o t = s \o (<<d>> \o t)
  BY <1>1, ConcatAssociative
<1>5. QED
  BY <1>2, <1>3, <1>4 DEF Follows

\* A byte that completes its command has it executed.
LEMMA FollowsWhole ==
  ASSUME NEW w \in Seq(Octet), NEW e \in Seq(EffectSet), NEW s \in Seq(Octet),
         NEW d \in Octet, NEW x \in EffectSet, Follows(w, e, s),
         \A t \in Seq(Octet) : Decode((s \o <<d>>) \o t) = <<x>> \o Decode(t)
  PROVE  Follows(Append(w, d), Append(e, x), << >>)
<1>1. Follows(Append(w, d), e, s \o <<d>>)
  BY FollowsPart
<1> SUFFICES ASSUME NEW t \in Seq(Octet)
             PROVE  Decode(Append(w, d) \o t) = Append(e, x) \o Decode(<< >> \o t)
  <2>1. Append(e, x) \in Seq(EffectSet)
    BY AppendProperties
  <2>2. QED
    BY <2>1 DEF Follows
<1>2. Decode(t) \in Seq(EffectSet) /\ <<x>> \in Seq(EffectSet)
  BY DecodeTypes
<1>3. Append(e, x) \o Decode(t) = e \o (<<x>> \o Decode(t))
  BY <1>2, AppendIsConcat, ConcatAssociative
<1>4. << >> \o t = t
  BY ConcatEmptySeq
<1>5. Decode(Append(w, d) \o t) = e \o Decode((s \o <<d>>) \o t)
  BY <1>1 DEF Follows
<1>6. QED
  BY <1>3, <1>4, <1>5

\* What has been done is what the bytes so far ask for, when the pending ones ask
\* for nothing yet.
LEMMA FollowsNow ==
  ASSUME NEW w \in Seq(Octet), NEW e, NEW s \in Seq(Octet),
         Follows(w, e, s), Decode(s) = << >>
  PROVE  e = Decode(w)
<1>1. Decode(w \o << >>) = e \o Decode(s \o << >>)
  BY EmptySeq DEF Follows
<1>2. w \o << >> = w /\ s \o << >> = s /\ e \o << >> = e
  BY ConcatEmptySeq DEF Follows
<1>3. QED
  BY <1>1, <1>2

LEMMA TwoBytes ==
  ASSUME NEW a \in Octet, NEW b \in Octet
  PROVE  <<a>> \o <<b>> = <<a, b>>
<1>1. /\ <<a>> \in Seq(Octet) /\ <<b>> \in Seq(Octet) /\ <<a, b>> \in Seq(Octet)
      /\ Len(<<a>>) = 1 /\ Len(<<b>>) = 1 /\ Len(<<a, b>>) = 2
  OBVIOUS
<1> DEFINE s == <<a>> \o <<b>>
<1>2. /\ s \in Seq(Octet) /\ Len(s) = 1 + 1
      /\ \A i \in 1 .. 1 + 1 : s[i] = IF i <= 1 THEN <<a>>[i] ELSE <<b>>[i - 1]
  BY <1>1, ConcatProperties
<1> HIDE DEF s
<1>3. \A i \in 1 .. Len(s) : s[i] = <<a, b>>[i]
  BY <1>2
<1>4. s = <<a, b>>
  BY <1>1, <1>2, <1>3, SeqEqual
<1>5. QED
  BY <1>4 DEF s

LEMMA ThreeBytes ==
  ASSUME NEW a \in Octet, NEW b \in Octet, NEW c \in Octet
  PROVE  <<a, b>> \o <<c>> = <<a, b, c>>
<1>1. /\ <<a, b>> \in Seq(Octet) /\ <<c>> \in Seq(Octet) /\ <<a, b, c>> \in Seq(Octet)
      /\ Len(<<a, b>>) = 2 /\ Len(<<c>>) = 1 /\ Len(<<a, b, c>>) = 3
  OBVIOUS
<1> DEFINE s == <<a, b>> \o <<c>>
<1>2. /\ s \in Seq(Octet) /\ Len(s) = 2 + 1
      /\ \A i \in 1 .. 2 + 1 : s[i] = IF i <= 2 THEN <<a, b>>[i] ELSE <<c>>[i - 2]
  BY <1>1, ConcatProperties
<1> HIDE DEF s
<1>3. \A i \in 1 .. Len(s) : s[i] = <<a, b, c>>[i]
  BY <1>2
<1>4. s = <<a, b, c>>
  BY <1>1, <1>2, <1>3, SeqEqual
<1>5. QED
  BY <1>4 DEF s

\* A command without parameters, and what follows it.
LEMMA DecodeSingle ==
  ASSUME NEW d \in 1 .. CMD_MAX, k_paramLen[d] = 0, NEW t \in Seq(Octet)
  PROVE  Decode(<<d>> \o t) = <<Effect(d, 0, 0)>> \o Decode(t)
<1>1. PICK s : s = <<d>>
  OBVIOUS
<1>2. s \in Seq(Octet) /\ s # << >> /\ s[1] = d /\ Len(s) = 1 + k_paramLen[d]
  BY <1>1 DEF Octet, CMD_MAX
<1>3. /\ s[1] \in 1 .. CMD_MAX /\ 0 \in Octet /\ Len(s) = 1 + k_paramLen[s[1]]
      /\ k_paramLen[s[1]] \in 0 .. 2
      /\ k_paramLen[s[1]] >= 1 => 0 = s[2]
      /\ k_paramLen[s[1]] >= 2 => 0 = s[3]
  BY <1>2, ParamLen DEF Octet
<1>4. Decode(s \o t) = <<Effect(s[1], 0, 0)>> \o Decode(t)
  BY <1>2, <1>3, DecodeCommand
<1>5. QED
  BY <1>1, <1>2, <1>4

-----------------------------------------------------------------------------
(* The steps of the handler that change the parser or the index.           *)

LEMMA OctetTypes ==
  ASSUME TypeOK
  PROVE  /\ Bytes \subseteq Octet /\ {0} \cup Bytes \subseteq Octet
         /\ written \in Seq(Octet)
         /\ s_par[0] \in Octet /\ s_par[1] \in Octet
<1>1. Bytes \subseteq Octet /\ {0} \cup Bytes \subseteq Octet
  BY ByteAssumption DEF Octet
<1>2. written \in Seq(Octet)
  BY <1>1, SeqMonotonic DEF TypeOK
<1>3. s_par[0] \in Octet /\ s_par[1] \in Octet
  BY <1>1 DEF TypeOK
<1>4. QED
  BY <1>1, <1>2, <1>3

\* The pending bytes are a command that lacks parameters, or none.
LEMMA PendingPart == TypeOK => Pending \in Seq(Octet) /\ Decode(Pending) = << >>
<1> SUFFICES ASSUME TypeOK PROVE Pending \in Seq(Octet) /\ Decode(Pending) = << >>
  OBVIOUS
<1>1. CASE s_need = 0
  <2>1. Pending = << >>
    BY <1>1 DEF Pending
  <2>2. QED
    BY <2>1, EmptySeq, DecodePart
<1>2. CASE s_need # 0
  <2>1. /\ s_cmd \in 1 .. CMD_MAX /\ s_need = k_paramLen[s_cmd] /\ s_got < s_need
        /\ s_got \in 0 .. 2 /\ s_need \in 0 .. 2 /\ s_cmd \in Octet
    BY <1>2 DEF TypeOK, CMD_MAX, Octet
  <2>2. CASE s_got = 0
    <3>1. Pending = <<s_cmd>>
      BY <1>2, <2>2 DEF Pending
    <3>2. <<s_cmd>> \in Seq(Octet) /\ <<s_cmd>>[1] = s_cmd /\ Len(<<s_cmd>>) = 1
      BY <2>1
    <3>3. 1 < 1 + k_paramLen[s_cmd]
      BY <2>1, <2>2
    <3>4. QED
      BY <2>1, <3>1, <3>2, <3>3, DecodePart
  <2>3. CASE s_got # 0
    <3> DEFINE s == <<s_cmd, s_par[0]>>
    <3>1. Pending = s
      BY <1>2, <2>3 DEF Pending
    <3>2. s \in Seq(Octet) /\ s[1] = s_cmd /\ Len(s) = 2
      BY <2>1, OctetTypes
    <3>3. 2 < 1 + k_paramLen[s_cmd]
      BY <2>1, <2>3
    <3>4. QED
      BY <2>1, <3>1, <3>2, <3>3, DecodePart
  <2>4. QED
    BY <2>2, <2>3
<1>3. QED
  BY <1>1, <1>2

\* Whatever the parser does with a byte, it has then executed what the bytes so
\* far ask for, and holds the rest.
LEMMA RxFollows ==
  ASSUME TypeOK, SourceInv, ParserInv, ServeRx
  PROVE  Follows(written', effects', Pending')
<1> DEFINE d == src.data
<1>1. d \in Bytes /\ d \in Octet
  BY OctetTypes DEF ServeRx, SourceInv
<1>2. Follows(written, effects, Pending)
  BY DEF ServeRx, SourceInv, ParserInv
<1>3. /\ effects \in Seq(EffectSet) /\ written \in Seq(Octet)
      /\ Pending \in Seq(Octet)
  BY OctetTypes, PendingPart, DecodeTypes DEF ParserInv
<1>4. written' = Append(written, d)
  BY DEF ServeRx
<1>5. RxCommand(d) \/ RxParameter(d)
  BY DEF ServeRx
<1> HIDE DEF d
<1>6. CASE RxCommand(d)
  <2>1. Pending = << >> /\ s_need = 0
    BY <1>6 DEF RxCommand, Pending
  <2>2. << >> \o <<d>> = <<d>> /\ <<d>> \in Seq(Octet) /\ << >> \in Seq(Octet)
    BY <1>1, ConcatEmptySeq, EmptySeq
  <2>3. CASE d \notin 1 .. CMD_MAX
    <3>1. effects' = Append(effects, BadCommand) /\ Pending' = << >>
      BY <1>6, <2>1, <2>3 DEF RxCommand, Pending, parser
    <3>2. BadCommand \in EffectSet
      BY DEF EffectSet
    <3>3. \A t \in Seq(Octet) : Decode((<< >> \o <<d>>) \o t) = <<BadCommand>> \o Decode(t)
      BY <1>1, <2>2, <2>3, DecodeBad
    <3>4. QED
      BY <1>1, <1>2, <1>3, <1>4, <2>1, <2>2, <3>1, <3>2, <3>3, FollowsWhole
  <2>4. CASE d \in 1 .. CMD_MAX /\ k_paramLen[d] = 0
    <3> DEFINE x == Effect(d, 0, 0)
    <3>1. effects' = Append(effects, x) /\ s_need' = s_need
      BY <1>6, <2>1, <2>4 DEF RxCommand, parser, apply_command
    <3>2. Pending' = << >>
      <4>1. s_need' = 0
        BY <2>1, <3>1
      <4>2. QED
        BY <4>1 DEF Pending
    <3>3. x \in EffectSet
      <4>1. 0 \in Octet
        BY DEF Octet
      <4>2. QED
        BY <2>4, <4>1 DEF EffectSet
    <3>4. \A t \in Seq(Octet) : Decode((<< >> \o <<d>>) \o t) = <<x>> \o Decode(t)
      BY <2>2, <2>4, DecodeSingle
    <3> HIDE DEF x
    <3>5. QED
      BY <1>1, <1>2, <1>3, <1>4, <2>1, <2>2, <3>1, <3>2, <3>3, <3>4, FollowsWhole
  <2>5. CASE d \in 1 .. CMD_MAX /\ k_paramLen[d] # 0
    <3>1. effects' = effects /\ Pending' = << >> \o <<d>>
      BY <1>6, <2>2, <2>5 DEF RxCommand, Pending
    <3>2. QED
      BY <1>1, <1>2, <1>3, <1>4, <2>1, <2>2, <3>1, FollowsPart
  <2>6. QED
    BY <2>3, <2>4, <2>5
<1>7. CASE RxParameter(d)
  <2> DEFINE p == s_par'[0]  q == s_par'[1]  s == Pending \o <<d>>
  <2>1. /\ s_need # 0 /\ s_cmd \in 1 .. CMD_MAX /\ s_need = k_paramLen[s_cmd]
        /\ s_got < s_need /\ s_got \in 0 .. 2 /\ s_need \in 0 .. 2
    BY <1>7 DEF RxParameter, TypeOK
  <2>2. s_par' = [s_par EXCEPT ![s_got] = d] /\ s_got' = s_got + 1 /\ s_cmd' = s_cmd
    BY <1>7 DEF RxParameter
  <2>3. s_got \in 0 .. 1 /\ DOMAIN s_par = 0 .. 1
    BY <2>1 DEF TypeOK
  <2>4. s_got = 0 => p = d /\ s = <<s_cmd, d>>
    <3>1. ASSUME s_got = 0 PROVE p = d /\ s = <<s_cmd, d>>
      <4>1. p = d
        BY <2>2, <2>3, <3>1
      <4>2. Pending = <<s_cmd>>
        BY <2>1, <3>1 DEF Pending
      <4>3. s_cmd \in Octet
        BY <2>1 DEF CMD_MAX, Octet
      <4>4. QED
        BY <1>1, <4>1, <4>2, <4>3, TwoBytes
    <3>2. QED
      BY <3>1
  <2>5. s_got = 1 => p = s_par[0] /\ q = d /\ s = <<s_cmd, p, d>>
    <3>1. ASSUME s_got = 1 PROVE p = s_par[0] /\ q = d /\ s = <<s_cmd, p, d>>
      <4>1. p = s_par[0] /\ q = d
        BY <2>2, <2>3, <3>1
      <4>2. Pending = <<s_cmd, s_par[0]>>
        BY <2>1, <3>1 DEF Pending
      <4>3. s_cmd \in Octet /\ s_par[0] \in Octet
        BY <2>1, OctetTypes DEF CMD_MAX, Octet
      <4>4. QED
        BY <1>1, <4>1, <4>2, <4>3, ThreeBytes
    <3>2. QED
      BY <3>1
  <2>6. p \in Octet /\ q \in Octet
    BY <1>1, <2>2, <2>3, OctetTypes
  <2>7. s \in Seq(Octet)
    <3>1. <<d>> \in Seq(Octet)
      BY <1>1
    <3>2. QED
      BY <1>3, <3>1, ConcatProperties
  <2>8. s[1] = s_cmd /\ Len(s) = s_got + 2 /\ s # << >>
    <3> HIDE DEF s, p, q
    <3>1. CASE s_got = 0
      BY <2>4, <3>1
    <3>2. CASE s_got = 1
      BY <2>5, <3>2
    <3>3. QED
      BY <2>3, <3>1, <3>2
  <2>9. CASE s_got + 1 >= s_need
    <3> DEFINE x == Effect(s_cmd, p, q)
    <3>1. effects' = Append(effects, x) /\ s_need' = 0
      BY <1>7, <2>2, <2>9 DEF RxParameter, apply_command
    <3>2. Pending' = << >>
      BY <3>1 DEF Pending
    <3>3. x \in EffectSet
      BY <2>1, <2>6 DEF EffectSet
    <3>4. s_need = s_got + 1 /\ Len(s) = 1 + k_paramLen[s_cmd]
      BY <2>1, <2>8, <2>9
    <3>5. /\ k_paramLen[s_cmd] >= 1 => p = s[2]
          /\ k_paramLen[s_cmd] >= 2 => q = s[3]
      <4> HIDE DEF s, p, q
      <4>1. CASE s_got = 0
        BY <2>1, <2>4, <3>4, <4>1
      <4>2. CASE s_got = 1
        BY <2>1, <2>5, <3>4, <4>2
      <4>3. QED
        BY <2>3, <4>1, <4>2
    <3>6. ASSUME NEW t \in Seq(Octet)
          PROVE  Decode(s \o t) = <<x>> \o Decode(t)
      <4> HIDE DEF s, p, q
      <4>1. /\ s[1] \in 1 .. CMD_MAX /\ Len(s) = 1 + k_paramLen[s[1]]
            /\ k_paramLen[s[1]] >= 1 => p = s[2]
            /\ k_paramLen[s[1]] >= 2 => q = s[3]
        BY <2>1, <2>8, <3>4, <3>5
      <4>2. Decode(s \o t) = <<Effect(s[1], p, q)>> \o Decode(t)
        BY <2>6, <2>7, <2>8, <4>1, DecodeCommand
      <4>3. QED
        BY <2>8, <4>2
    <3> HIDE DEF x
    <3>7. QED
      BY <1>1, <1>2, <1>3, <1>4, <3>1, <3>2, <3>3, <3>6, FollowsWhole
  <2>10. CASE ~(s_got + 1 >= s_need)
    <3>1. effects' = effects /\ s_need' = s_need /\ s_got = 0 /\ s_got' = 1
      BY <1>7, <2>1, <2>2, <2>10 DEF RxParameter
    <3>2. Pending' = <<s_cmd, d>>
      BY <2>1, <2>2, <2>4, <3>1 DEF Pending
    <3>3. Pending' = s
      BY <2>4, <3>1, <3>2
    <3>4. QED
      BY <1>1, <1>2, <1>3, <1>4, <3>1, <3>3, FollowsPart
  <2>11. QED
    BY <2>9, <2>10
<1>8. QED
  BY <1>5, <1>6, <1>7

-----------------------------------------------------------------------------
(* Every step preserves the invariant.                                     *)

LEMMA InitInv == Init => Inv
<1> SUFFICES ASSUME Init PROVE Inv
  OBVIOUS
<1> USE DEF Init
<1>1. TypeOK
  <2>1. Status \in Streams /\ StreamBytes(Status) = 2
    BY DEF Streams, StreamBytes, Status
  <2>2. 0 \in 0 .. StreamBytes(Status) - 1 /\ s_par \in [0 .. 1 -> {0} \cup Bytes]
    BY <2>1
  <2>3. written \in Seq(Bytes) /\ nread \in 0 .. MaxRead
    BY BoundAssumption
  <2>4. s_txLock \in BOOLEAN
    OBVIOUS
  <2>5. s_cmd \in 0 .. CMD_MAX /\ s_need \in 0 .. 2 /\ s_got \in 0 .. 2
    BY DEF CMD_MAX
  <2>6. QED
    BY <2>1, <2>2, <2>3, <2>4, <2>5 DEF TypeOK
<1>2. SourceInv
  BY DEF SourceInv, NoSource
<1>3. ParserInv /\ IndexInv
  BY EmptySeq, DecodePart DEF ParserInv, IndexInv
<1>4. QED
  BY <1>1, <1>2, <1>3 DEF Inv

\* The bus: a transaction opens with nothing served and nothing done.
LEMMA BusStep == Inv /\ Bus => Inv'
<1> SUFFICES ASSUME Inv, Bus PROVE Inv'
  OBVIOUS
<1>1. ASSUME NEW dir \in {"write", "read"}, StartTransaction(dir) PROVE Inv'
  <2>1. /\ UNCHANGED <<s_tx, s_txIdx, s_txLock, s_cmd, s_need, s_got, s_par>>
        /\ bus' = dir /\ written' = << >> /\ nread' = 0 /\ effects' = << >>
        /\ src' = [kind |-> "ADDR_TARGET"]
    BY <1>1 DEF StartTransaction, tx, parser
  <2>2. TypeOK'
    <3>1. written' \in Seq(Bytes) /\ nread' \in 0 .. MaxRead
      BY <2>1, BoundAssumption
    <3>2. bus' \in {"idle", "write", "read"}
      BY <2>1
    <3>3. QED
      BY <2>1, <3>1, <3>2 DEF Inv, TypeOK
  <2>3. SourceInv'
    BY <2>1 DEF SourceInv
  <2>4. ParserInv' /\ IndexInv'
    BY <2>1, EmptySeq, DecodePart DEF ParserInv, IndexInv
  <2>5. QED
    BY <2>2, <2>3, <2>4 DEF Inv
<1>2. ASSUME NEW d \in Bytes, MasterSends(d) PROVE Inv'
  <2>1. /\ UNCHANGED <<s_tx, s_txIdx, s_txLock, s_cmd, s_need, s_got, s_par>>
        /\ UNCHANGED <<bus, written, nread, effects>>
        /\ src' = [kind |-> "RX_DATA_RDY", data |-> d] /\ bus = "write"
        /\ src.kind = "NONE"
    BY <1>2 DEF MasterSends, tx, parser, wire, NoSource
  <2>2. TypeOK'
    BY <2>1 DEF Inv, TypeOK
  <2>3. SourceInv'
    BY <2>1 DEF SourceInv
  <2>4. Pending' = Pending
    BY <2>1 DEF Pending
  <2>5. ParserInv'
    BY <2>1, <2>4 DEF Inv, ParserInv, Follows
  <2>6. IndexInv'
    BY <2>1 DEF IndexInv
  <2>7. QED
    BY <2>2, <2>3, <2>5, <2>6 DEF Inv
<1>3. CASE MasterReads
  <2>1. /\ UNCHANGED <<s_tx, s_txIdx, s_txLock, s_cmd, s_need, s_got, s_par>>
        /\ UNCHANGED <<bus, written, nread, effects>>
        /\ src' = [kind |-> "TX_DATA_RDY"] /\ bus = "read" /\ nread < MaxRead
        /\ src.kind = "NONE"
    BY <1>3 DEF MasterReads, tx, parser, wire, NoSource
  <2>2. TypeOK'
    BY <2>1 DEF Inv, TypeOK
  <2>3. SourceInv'
    BY <2>1 DEF SourceInv
  <2>4. ParserInv'
    BY <2>1 DEF Inv, ParserInv
  <2>5. IndexInv'
    BY <2>1 DEF Inv, IndexInv
  <2>6. QED
    BY <2>2, <2>3, <2>4, <2>5 DEF Inv
<1>4. CASE Stop \/ Abort
  <2>1. /\ UNCHANGED <<s_tx, s_txIdx, s_txLock, s_cmd, s_need, s_got, s_par>>
        /\ UNCHANGED <<written, nread, effects>> /\ bus' = "idle"
    BY <1>4 DEF Stop, Abort, tx, parser
  <2>2. src' \in {[kind |-> "STOP_CONDITION"], [kind |-> "NO_ACK"], [kind |-> "ARB_LOST"]}
    BY <1>4 DEF Stop, Abort
  <2>3. TypeOK'
    BY <2>1 DEF Inv, TypeOK
  <2>4. SourceInv'
    BY <2>1, <2>2 DEF SourceInv
  <2>5. ParserInv' /\ IndexInv'
    BY <2>1 DEF Inv, ParserInv, IndexInv
  <2>6. QED
    BY <2>3, <2>4, <2>5 DEF Inv
<1>5. QED
  BY <1>1, <1>2, <1>3, <1>4 DEF Bus

\* A new transaction, or the end of one, leaves nothing pending.
LEMMA ResetStep == Inv /\ (ServeAddr \/ ServeStop \/ ServeAbort) => Inv'
<1> SUFFICES ASSUME Inv, ServeAddr \/ ServeStop \/ ServeAbort PROVE Inv'
  OBVIOUS
<1>1. /\ s_txIdx' = 0 /\ s_need' = 0 /\ s_got' \in {0, s_got}
      /\ src' = NoSource
      /\ UNCHANGED <<s_tx, s_txLock, s_cmd, s_par, effects, bus, written, nread>>
  BY DEF ServeAddr, ServeStop, ServeAbort, wire
<1>2. TypeOK'
  <2>1. StreamBytes(s_tx) \in Nat \ {0}
    BY StreamLength DEF Inv, TypeOK
  <2>2. s_txIdx' \in 0 .. StreamBytes(s_tx') - 1
    BY <1>1, <2>1
  <2>3. s_need' \in 0 .. 2 /\ s_got' \in 0 .. 2
    BY <1>1 DEF Inv, TypeOK
  <2>4. QED
    BY <1>1, <2>2, <2>3 DEF Inv, TypeOK
<1>3. SourceInv'
  BY <1>1 DEF SourceInv, NoSource
<1>4. src.kind = "ADDR_TARGET" \/ bus = "idle"
  BY DEF Inv, SourceInv, ServeAddr, ServeStop, ServeAbort
<1>5. src.kind = "ADDR_TARGET" => written = << >> /\ nread = 0
  BY DEF Inv, SourceInv
<1>6. ParserInv'
  <2>1. effects' = Decode(written')
    BY <1>1 DEF Inv, ParserInv
  <2>2. ASSUME bus' = "write"
        PROVE  Follows(written', effects', Pending')
    <3>1. written' = << >>
      BY <1>1, <1>4, <1>5, <2>2
    <3>2. effects' = << >>
      BY <2>1, <3>1, EmptySeq, DecodePart
    <3>3. Pending' = << >>
      BY <1>1 DEF Pending
    <3>4. ASSUME NEW t \in Seq(Octet)
          PROVE  Decode(<< >> \o t) = << >> \o Decode(<< >> \o t)
      <4>1. << >> \o t = t /\ Decode(t) \in Seq(EffectSet)
        BY ConcatEmptySeq, DecodeTypes
      <4>2. << >> \o Decode(t) = Decode(t)
        BY <4>1, ConcatEmptySeq
      <4>3. QED
        BY <4>1, <4>2
    <3>5. QED
      BY <3>1, <3>2, <3>3, <3>4 DEF Follows
  <2>3. QED
    BY <2>1, <2>2 DEF ParserInv
<1>7. IndexInv'
  <2> SUFFICES ASSUME bus' = "read" PROVE s_txIdx' = nread' % StreamBytes(s_tx')
    BY DEF IndexInv
  <2>1. nread' = 0 /\ s_txIdx' = 0 /\ s_tx' = s_tx
    BY <1>1, <1>4, <1>5
  <2>2. StreamBytes(s_tx) \in Nat \ {0}
    BY StreamLength DEF Inv, TypeOK
  <2>3. 0 % StreamBytes(s_tx) = 0
    BY <2>2
  <2>4. QED
    BY <2>1, <2>3
<1>8. QED
  BY <1>2, <1>3, <1>6, <1>7 DEF Inv

\* A byte received: the parser moves on, and with a selection the stream.
LEMMA RxStep == Inv /\ ServeRx => Inv'
<1> SUFFICES ASSUME Inv, ServeRx PROVE Inv'
  OBVIOUS
<1> DEFINE d == src.data
<1>1. /\ d \in Bytes /\ bus = "write" /\ bus' = bus /\ nread' = nread
      /\ written' = Append(written, d) /\ src' = NoSource /\ s_txLock' = s_txLock
      /\ RxCommand(d) \/ RxParameter(d)
  BY DEF ServeRx, Inv, SourceInv
<1> HIDE DEF d
<1>2. /\ s_cmd' \in 0 .. CMD_MAX /\ s_need' \in 0 .. 2 /\ s_got' \in 0 .. 2
      /\ s_par' \in [0 .. 1 -> {0} \cup Bytes]
      /\ s_need' # 0 => s_cmd' \in 1 .. CMD_MAX /\ s_need' = k_paramLen[s_cmd']
                        /\ s_got' < s_need'
  <2>1. CASE RxCommand(d) /\ UNCHANGED parser
    BY <2>1 DEF parser, Inv, TypeOK
  <2>2. CASE d \in 1 .. CMD_MAX /\ s_cmd' = d /\ s_need' = k_paramLen[d] /\ s_got' = 0
             /\ k_paramLen[d] # 0 /\ s_par' = s_par
    <3>1. k_paramLen[d] \in 1 .. 2
      BY <2>2, ParamLen
    <3>2. QED
      BY <2>2, <3>1 DEF Inv, TypeOK, CMD_MAX
  <2>3. CASE RxParameter(d)
    <3>1. /\ s_need # 0 /\ s_par' = [s_par EXCEPT ![s_got] = d]
          /\ s_got' = s_got + 1 /\ s_cmd' = s_cmd
          /\ IF s_got' >= s_need THEN s_need' = 0 ELSE s_need' = s_need
      BY <2>3 DEF RxParameter
    <3>2. /\ s_cmd \in 1 .. CMD_MAX /\ s_need = k_paramLen[s_cmd] /\ s_got < s_need
          /\ s_got \in 0 .. 2 /\ s_need \in 0 .. 2 /\ s_cmd \in 0 .. CMD_MAX
          /\ s_par \in [0 .. 1 -> {0} \cup Bytes]
      BY <3>1 DEF Inv, TypeOK
    <3>3. s_par' \in [0 .. 1 -> {0} \cup Bytes]
      BY <1>1, <3>1, <3>2
    <3>4. s_got' \in 0 .. 2 /\ s_need' \in 0 .. 2
      BY <3>1, <3>2
    <3>5. s_need' # 0 => s_need' = s_need /\ s_got' < s_need'
      BY <3>1, <3>2
    <3>6. QED
      BY <3>1, <3>2, <3>3, <3>4, <3>5
  <2>4. QED
    BY <1>1, <2>1, <2>2, <2>3 DEF RxCommand
<1>3. s_tx' \in Streams /\ s_txIdx' \in 0 .. StreamBytes(s_tx') - 1
  <2>1. s_tx \in Streams /\ s_txIdx \in 0 .. StreamBytes(s_tx) - 1
    BY DEF Inv, TypeOK
  <2>2. ASSUME NEW c \in 1 .. CMD_MAX, NEW p \in Octet, NEW q \in Octet,
               apply_command(c, p, q)
        PROVE  s_tx' \in Streams /\ s_txIdx' \in 0 .. StreamBytes(s_tx') - 1
    <3>1. CASE Effect(c, p, q).does = "select"
      <4>1. s_tx' = Effect(c, p, q).stream /\ s_txIdx' = 0
        BY <2>2, <3>1 DEF apply_command
      <4>2. s_tx' \in Streams
        BY <3>1, <4>1, SelectsStream
      <4>3. StreamBytes(s_tx') \in Nat \ {0}
        BY <4>2, StreamLength
      <4>4. QED
        BY <4>1, <4>2, <4>3
    <3>2. CASE Effect(c, p, q).does # "select"
      <4>1. s_tx' = s_tx /\ s_txIdx' = s_txIdx
        BY <2>2, <3>2 DEF apply_command, tx
      <4>2. QED
        BY <2>1, <4>1
    <3>3. QED
      BY <3>1, <3>2
  <2>3. CASE UNCHANGED tx
    BY <2>1, <2>3 DEF tx
  <2>4. CASE d \in 1 .. CMD_MAX /\ apply_command(d, 0, 0)
    <3>1. 0 \in Octet
      BY DEF Octet
    <3>2. QED
      BY <2>2, <2>4, <3>1
  <2>5. CASE s_need # 0 /\ apply_command(s_cmd, s_par'[0], s_par'[1])
    <3>1. s_cmd \in 1 .. CMD_MAX
      BY <2>5 DEF Inv, TypeOK
    <3>2. s_par'[0] \in Octet /\ s_par'[1] \in Octet
      <4>1. {0} \cup Bytes \subseteq Octet
        BY OctetTypes DEF Inv
      <4>2. QED
        BY <1>2, <4>1
    <3>3. QED
      BY <2>2, <2>5, <3>1, <3>2
  <2>6. QED
    BY <1>1, <2>3, <2>4, <2>5 DEF RxCommand, RxParameter, tx
<1>4. TypeOK'
  <2>1. written' \in Seq(Bytes)
    BY <1>1 DEF Inv, TypeOK
  <2>2. s_txLock' \in BOOLEAN /\ bus' \in {"idle", "write", "read"} /\ nread' \in 0 .. MaxRead
    BY <1>1 DEF Inv, TypeOK
  <2>3. QED
    BY <1>2, <1>3, <2>1, <2>2 DEF TypeOK
<1>5. SourceInv'
  BY <1>1 DEF SourceInv, NoSource
<1>6. Follows(written', effects', Pending')
  BY RxFollows DEF Inv
<1>7. effects' = Decode(written')
  <2>1. (TypeOK => Pending \in Seq(Octet) /\ Decode(Pending) = << >>)'
    BY PendingPart, PTL
  <2>2. Pending' \in Seq(Octet) /\ Decode(Pending') = << >>
    BY <1>4, <2>1
  <2>3. written' \in Seq(Octet)
    <3>1. written' \in Seq(Bytes) /\ Bytes \subseteq Octet
      BY <1>4, OctetTypes DEF TypeOK, Inv
    <3>2. QED
      BY <3>1, SeqMonotonic
  <2>4. QED
    BY <1>6, <2>2, <2>3, FollowsNow
<1>8. QED
  BY <1>1, <1>4, <1>5, <1>6, <1>7 DEF Inv, ParserInv, IndexInv

\* A byte sent: the index moves on with the count of the bytes read.
LEMMA TxStep == Inv /\ ServeTx => Inv'
<1> SUFFICES ASSUME Inv, ServeTx PROVE Inv'
  OBVIOUS
<1>1. /\ s_txIdx' = IF s_txIdx + 1 >= StreamBytes(s_tx) THEN 0 ELSE s_txIdx + 1
      /\ nread' = nread + 1 /\ src' = NoSource
      /\ UNCHANGED <<s_tx, s_txLock, s_cmd, s_need, s_got, s_par, effects, bus, written>>
      /\ src.kind = "TX_DATA_RDY"
  BY DEF ServeTx, parser
<1>2. /\ bus = "read" /\ nread < MaxRead /\ nread \in Nat /\ MaxRead \in Nat
      /\ s_txIdx = nread % StreamBytes(s_tx) /\ s_tx \in Streams
      /\ s_txIdx \in 0 .. StreamBytes(s_tx) - 1
  BY <1>1, BoundAssumption DEF Inv, SourceInv, TypeOK, IndexInv
<1>3. StreamBytes(s_tx) \in Nat \ {0}
  BY <1>2, StreamLength
<1>4. TypeOK'
  <2>1. s_txIdx' \in 0 .. StreamBytes(s_tx) - 1
    BY <1>1, <1>2, <1>3
  <2>2. nread' \in 0 .. MaxRead
    BY <1>1, <1>2
  <2>3. QED
    BY <1>1, <2>1, <2>2 DEF Inv, TypeOK
<1>5. SourceInv'
  BY <1>1 DEF SourceInv, NoSource
<1>6. ParserInv'
  BY <1>1, <1>2 DEF Inv, ParserInv
<1>7. IndexInv'
  <2>1. s_txIdx' = (nread + 1) % StreamBytes(s_tx)
    BY <1>1, <1>2, <1>3, NextIndex
  <2>2. QED
    BY <1>1, <2>1 DEF IndexInv
<1>8. QED
  BY <1>4, <1>5, <1>6, <1>7 DEF Inv

LEMMA InvStep == Inv /\ [Next]_vars => Inv'
<1> SUFFICES ASSUME Inv, [Next]_vars PROVE Inv'
  OBVIOUS
<1>1. ASSUME NEW locked \in BOOLEAN, ndt_i2cb_lock_tx(locked) PROVE Inv'
  <2>1. /\ UNCHANGED <<s_tx, s_txIdx, s_cmd, s_need, s_got, s_par, effects, bus, written,
                       nread, src>>
        /\ s_txLock' \in BOOLEAN
    BY <1>1 DEF ndt_i2cb_lock_tx, tx, parser, wire
  <2>2. QED
    BY <2>1 DEF Inv, TypeOK, SourceInv, ParserInv, IndexInv, Follows, Pending
<1>2. CASE UNCHANGED vars
  BY <1>2 DEF vars, tx, parser, wire, Inv, TypeOK, SourceInv, ParserInv, IndexInv,
              Follows, Pending
<1>3. QED
  BY <1>1, <1>2, BusStep, ResetStep, RxStep, TxStep DEF Next, INT_myI2CB_ISR

-----------------------------------------------------------------------------
(* The theorems.                                                           *)

\* What the slave's handler relies on, whatever the master does: the inductive
\* invariant.
THEOREM SlaveInvariant == Spec => []Inv
<1>1. Init => Inv
  BY InitInv
<1>2. Inv /\ [Next]_vars => Inv'
  BY InvStep
<1>3. QED
  BY <1>1, <1>2, PTL DEF Spec

\* The statics of ndt_i2cb.c keep their types; the index stays inside the stream
\* that is selected, and the parameters inside s_par.
THEOREM SlaveTypes == Spec => []TypeOK
<1>1. Inv => TypeOK
  BY DEF Inv
<1>2. QED
  BY <1>1, SlaveInvariant, PTL

\* However long the writes and however they are cut off, the handler has executed
\* exactly the complete commands of the bytes it was sent, in order.
THEOREM CommandsExecuted == Spec => []CommandsAsSent
<1>1. Inv => CommandsAsSent
  BY DEF Inv, ParserInv, CommandsAsSent
<1>2. QED
  BY <1>1, SlaveInvariant, PTL

\* Byte k of every read is byte k of the stream that is selected, or 0xFF while
\* the read side is frozen.
THEOREM StreamsInOrder == Spec => ReadInOrder
<1> DEFINE InOrder ==
      nread' = nread + 1 =>
        i2cdxr' = IF s_txLock THEN <<"0xFF">> ELSE StreamByte(s_tx, nread)
<1>1. Inv /\ [Next]_vars => [InOrder]_vars
  <2> SUFFICES ASSUME Inv, Next, nread' = nread + 1
               PROVE  i2cdxr' = IF s_txLock THEN <<"0xFF">> ELSE StreamByte(s_tx, nread)
    OBVIOUS
  <2>1. nread \in Nat
    BY DEF Inv, TypeOK
  <2>2. ~(nread' = nread) /\ ~(nread' = 0)
    BY <2>1
  <2>3. ServeTx
    BY <2>2 DEF Next, Bus, StartTransaction, MasterSends, MasterReads, Stop, Abort,
                INT_myI2CB_ISR, ServeAddr, ServeRx, ServeStop, ServeAbort, wire,
                ndt_i2cb_lock_tx
  <2>4. s_txIdx = nread % StreamBytes(s_tx)
    BY <2>3 DEF ServeTx, Inv, SourceInv, IndexInv
  <2>5. i2cdxr' = TxByte
    BY <2>3 DEF ServeTx
  <2>6. QED
    BY <2>4, <2>5, Zenon DEF TxByte, StreamByte
<1>2. QED
  BY <1>1, SlaveInvariant, PTL DEF Spec, ReadInOrder
=============================================================================
