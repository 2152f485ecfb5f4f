-------------------------- MODULE AgentLoop_proofs --------------------------
(***************************************************************************)
(* Proofs about the agent loop and the repair of its history, for rows,    *)
(* sessions, batches of tool calls and histories of any length, any        *)
(* content and any limits.                                                 *)
(*                                                                         *)
(* First what the helpers on sequences return (FlattenSeq and Pick, by     *)
(* induction over the length), then each phase of validate_and_repair on   *)
(* any proper history, then the whole: what it returns is settled (the     *)
(* providers accept it and it is a fixed point), and what it loses.  A cut *)
(* at an even number of messages, and an appended exchange of two, keep a  *)
(* settled history settled; that carries a request from one iteration of   *)
(* the loop to the next, and the last part shows it action by action.      *)
(***************************************************************************)
EXTENDS AgentLoop, TLAPS, FiniteSetTheorems, SequenceTheorems, WellFoundedInduction

-----------------------------------------------------------------------------
(* Sequences.                                                              *)

(* Induction over 0..n, in the form the proofs use: a set that contains 0  *)
(* and the successor of each of its members below n contains all of 0..n.  *)
LEMMA UpTo ==
    ASSUME NEW n \in Nat, NEW S, 0 \in S, \A i \in 0..(n - 1) : i \in S => i + 1 \in S
    PROVE  \A i \in 0..n : i \in S
<1> SUFFICES ASSUME NEW i \in 0..n, i \notin S PROVE FALSE
  OBVIOUS
<1> DEFINE R == OpToRel(<, Nat)
           T == {k \in 0..n : k \notin S}
<1>1. IsWellFoundedOn(R, Nat)
  BY NatLessThanWellFounded
<1>2. T \subseteq Nat /\ T # {}
  OBVIOUS
<1>3. PICK m \in T : \A k \in T : ~ (<<k, m>> \in R)
  <2> HIDE DEF R, T
  <2> QED BY <1>1, <1>2, WFMin
<1>4. \A k \in T : ~ (k < m)
  <2> SUFFICES ASSUME NEW k \in T, k < m PROVE FALSE
    OBVIOUS
  <2>1. k \in Nat /\ m \in Nat
    BY <1>2, <1>3
  <2>2. <<k, m>> \in R
    BY <2>1 DEF OpToRel
  <2> HIDE DEF R, T
  <2> QED BY <1>3, <2>2
<1>5. m \in 0..n /\ m \notin S
  OBVIOUS
<1>6. m # 0 /\ m - 1 \in 0..(n - 1) /\ m - 1 \in 0..n /\ (m - 1) + 1 = m /\ m - 1 < m
  BY <1>5
<1>7. m - 1 \in S
  BY <1>4, <1>6
<1> QED BY <1>5, <1>6, <1>7

(* Partial concatenations of the pieces ss, from one to m pieces.          *)
Partials(D, ss, g, m) ==
    /\ g \in [1..m -> Seq(D)]
    /\ \A i \in 1..m : g[i] = IF i = 1 THEN ss[i] ELSE g[i - 1] \o ss[i]

(* They exist, for any number of pieces.                                   *)
LEMMA PartialsExist ==
    ASSUME NEW D, NEW n \in Nat, NEW ss \in [1..n -> Seq(D)]
    PROVE  \E g : Partials(D, ss, g, n)
<1> DEFINE S == {m \in 0..n : \E g : Partials(D, ss, g, m)}
<1>1. 0 \in S
  <2>1. Partials(D, ss, [i \in 1..0 |-> <<>>], 0)
    BY DEF Partials
  <2> QED BY <2>1
<1>2. ASSUME NEW m \in 0..(n - 1), m \in S PROVE m + 1 \in S
  <2>1. PICK g : Partials(D, ss, g, m)
    BY <1>2
  <2>2. PICK e : e = IF m = 0 THEN ss[1] ELSE g[m] \o ss[m + 1]
    OBVIOUS
  <2>3. m \in Nat /\ m + 1 \in 1..n /\ ss[m + 1] \in Seq(D) /\ (m # 0 => m \in 1..m)
    OBVIOUS
  <2>4. e \in Seq(D)
    <3>1. CASE m = 0
      BY <2>2, <2>3, <3>1
    <3>2. CASE m # 0
      <4>1. g[m] \in Seq(D)
        BY <2>1, <2>3, <3>2 DEF Partials
      <4> QED BY <2>2, <2>3, <3>2, <4>1, ConcatProperties
    <3> QED BY <3>1, <3>2
  <2>5. PICK h : h = [i \in 1..(m + 1) |-> IF i = m + 1 THEN e ELSE g[i]]
    OBVIOUS
  <2>6. \A i \in 1..(m + 1) : i \in 1..m \/ i = m + 1
    BY <2>3
  <2>7. h \in [1..(m + 1) -> Seq(D)]
    <3>1. \A i \in 1..m : g[i] \in Seq(D)
      BY <2>1 DEF Partials
    <3> QED BY <2>4, <2>5, <2>6, <3>1
  <2>8. ASSUME NEW i \in 1..(m + 1)
        PROVE  h[i] = IF i = 1 THEN ss[i] ELSE h[i - 1] \o ss[i]
    <3>1. CASE i = m + 1
      <4>1. h[i] = e /\ (m # 0 => m \in 1..(m + 1) /\ m # m + 1 /\ h[m] = g[m])
        BY <2>3, <2>5, <3>1
      <4>2. i - 1 = m /\ (i = 1 <=> m = 0)
        BY <2>3, <3>1
      <4> QED BY <2>2, <3>1, <4>1, <4>2
    <3>2. CASE i \in 1..m
      <4>1. h[i] = g[i] /\ i # m + 1 /\ (i # 1 => i - 1 \in 1..(m + 1) /\ i - 1 # m + 1 /\ h[i - 1] = g[i - 1])
        BY <2>3, <2>5, <3>2
      <4>2. g[i] = IF i = 1 THEN ss[i] ELSE g[i - 1] \o ss[i]
        BY <2>1, <3>2 DEF Partials
      <4> QED BY <4>1, <4>2
    <3> QED BY <2>6, <3>1, <3>2
  <2>9. Partials(D, ss, h, m + 1)
    BY <2>7, <2>8 DEF Partials
  <2> QED BY <2>3, <2>9
<1>3. n \in S
  <2> HIDE DEF S
  <2>1. \A i \in 0..n : i \in S
    BY <1>1, <1>2, UpTo
  <2> QED BY <2>1
<1> QED BY <1>3

(* FlattenSeq joins its pieces from left to right.                         *)
Joined(D, n, ss, F) ==
    /\ F \in [0..n -> Seq(D)] /\ F[0] = <<>> /\ FlattenSeq(ss) = F[n]
    /\ \A i \in 1..n : F[i] = F[i - 1] \o ss[i]

(* So the value of FlattenSeq unfolds as a fold.                           *)
LEMMA FlattenIs ==
    ASSUME NEW D, NEW n \in Nat, NEW ss \in [1..n -> Seq(D)]
    PROVE  \E F : Joined(D, n, ss, F)
<1>0. Len(ss) = n /\ DOMAIN ss = 1..n
  OBVIOUS
<1>e. <<>> \in Seq(D)
  OBVIOUS
<1>1. CASE n = 0
  <2>1. FlattenSeq(ss) = <<>>
    <3>1. FlattenSeq(ss) = ss
      BY <1>0, <1>1 DEF FlattenSeq
    <3>2. ss \in Seq(Seq(D))
      BY <1>0
    <3> QED BY <1>0, <1>1, <3>1, <3>2, EmptySeq
  <2>2. PICK F : F = [i \in 0..0 |-> <<>>]
    OBVIOUS
  <2>3. F \in [0..n -> Seq(D)] /\ F[0] = <<>> /\ F[n] = <<>> /\ 1..n = {}
    BY <1>1, <1>e, <2>2
  <2>4. \A i \in 1..n : F[i] = F[i - 1] \o ss[i]
    BY <2>3
  <2> QED BY <2>1, <2>3, <2>4 DEF Joined
<1>2. CASE n # 0
  <2> DEFINE Body(r) == [i \in 1..n |-> IF i = 1 THEN ss[i] ELSE r[i - 1] \o ss[i]]
  <2>1. PICK g : Partials(D, ss, g, n)
    BY PartialsExist
  <2>2. g = Body(g)
    BY <2>1 DEF Partials
  <2>3. FlattenSeq(ss) = (CHOOSE r : r = Body(r))[n]
    BY <1>0, <1>2 DEF FlattenSeq
  <2>4. PICK r : r = CHOOSE q : q = Body(q)
    OBVIOUS
  <2>5. r = Body(r)
    BY <2>2, <2>4
  <2>6. DOMAIN r = 1..n /\ \A i \in 1..n : r[i] = IF i = 1 THEN ss[i] ELSE r[i - 1] \o ss[i]
    BY <2>5
  <2> DEFINE S == {m \in 0..n : m # 0 => r[m] \in Seq(D)}
  <2>7. 0 \in S
    OBVIOUS
  <2>8. ASSUME NEW m \in 0..(n - 1), m \in S PROVE m + 1 \in S
    <3>1. m \in Nat /\ m + 1 \in 1..n /\ m + 1 \in 0..n /\ (m + 1) - 1 = m /\ (m + 1 = 1 <=> m = 0) /\ ss[m + 1] \in Seq(D)
      OBVIOUS
    <3>2. r[m + 1] = IF m + 1 = 1 THEN ss[m + 1] ELSE r[(m + 1) - 1] \o ss[m + 1]
      BY <2>6, <3>1
    <3>2a. r[m + 1] = IF m = 0 THEN ss[m + 1] ELSE r[m] \o ss[m + 1]
      BY <3>1, <3>2
    <3>3. m # 0 => r[m] \in Seq(D)
      BY <2>8
    <3>4. r[m + 1] \in Seq(D)
      <4>1. CASE m = 0
        BY <3>1, <3>2a, <4>1
      <4>2. CASE m # 0
        BY <3>1, <3>2a, <3>3, <4>2, ConcatProperties
      <4> QED BY <4>1, <4>2
    <3> QED BY <3>1, <3>4
  <2>9. \A m \in 1..n : r[m] \in Seq(D)
    <3>1. \A m \in 0..n : m \in S
      <4> HIDE DEF S
      <4> QED BY <2>7, <2>8, UpTo
    <3> QED BY <3>1
  <2>10. PICK F : F = [i \in 0..n |-> IF i = 0 THEN <<>> ELSE r[i]]
    OBVIOUS
  <2>11. F \in [0..n -> Seq(D)] /\ F[0] = <<>> /\ F[n] = r[n] /\ \A i \in 1..n : F[i] = r[i]
    BY <1>2, <1>e, <2>9, <2>10
  <2>12. ASSUME NEW i \in 1..n PROVE F[i] = F[i - 1] \o ss[i]
    <3>1. CASE i = 1
      <4>0. i - 1 = 0 /\ i \in 1..n
        BY <3>1
      <4>1. F[i - 1] = <<>> /\ F[i] = ss[i] /\ ss[i] \in Seq(D)
        BY <2>6, <2>11, <3>1, <4>0
      <4> QED BY <4>1, ConcatEmptySeq
    <3>2. CASE i # 1
      <4>1. i - 1 \in 1..n
        BY <3>2
      <4> QED BY <2>6, <2>11, <3>2, <4>1
    <3> QED BY <3>1, <3>2
  <2>13. FlattenSeq(ss) = F[n]
    BY <2>3, <2>4, <2>11
  <2> QED BY <2>11, <2>12, <2>13 DEF Joined
<1> QED BY <1>1, <1>2

(* Where the pieces are in the result: piece i starts after at[i - 1]      *)
(* elements.                                                               *)
Laid(ss, n, r, at) ==
    /\ at \in [0..n -> Nat] /\ at[0] = 0 /\ Len(r) = at[n]
    /\ \A i \in 1..n : at[i] = at[i - 1] + Len(ss[i])
    /\ \A i \in 1..n : \A j \in 1..Len(ss[i]) : r[at[i - 1] + j] = ss[i][j]
    /\ \A i, j \in 0..n : i <= j => at[i] <= at[j]
    /\ \A k \in 1..Len(r) : \E i \in 1..n : at[i - 1] < k /\ k <= at[i]

(* FlattenSeq lays its pieces out so.                                      *)
LEMMA FlattenLaid ==
    ASSUME NEW D, NEW n \in Nat, NEW ss \in [1..n -> Seq(D)]
    PROVE  FlattenSeq(ss) \in Seq(D) /\ \E at : Laid(ss, n, FlattenSeq(ss), at)
<1>0. PICK F : Joined(D, n, ss, F)
  BY FlattenIs
<1>1. /\ F[0] = <<>> /\ FlattenSeq(ss) = F[n]
      /\ \A i \in 1..n : F[i] = F[i - 1] \o ss[i]
  BY <1>0 DEF Joined
<1>1a. \A i \in 0..n : F[i] \in Seq(D) /\ Len(F[i]) \in Nat
  <2>1. \A i \in 0..n : F[i] \in Seq(D)
    BY <1>0 DEF Joined
  <2> QED BY <2>1, LenProperties
<1>1b. \A i \in 1..n : ss[i] \in Seq(D) /\ Len(ss[i]) \in Nat
  <2>1. \A i \in 1..n : ss[i] \in Seq(D)
    OBVIOUS
  <2> QED BY <2>1, LenProperties
<1>2. PICK at : at = [i \in 0..n |-> Len(F[i])]
  OBVIOUS
<1>3. at \in [0..n -> Nat] /\ at[0] = 0 /\ \A i \in 0..n : at[i] = Len(F[i]) /\ F[i] \in Seq(D)
  <2>1. at \in [0..n -> Nat] /\ \A i \in 0..n : at[i] = Len(F[i])
    BY <1>1a, <1>2
  <2>2. 0 \in 0..n /\ Len(F[0]) = 0
    BY <1>1
  <2> QED BY <1>1a, <2>1, <2>2
<1>4. ASSUME NEW i \in 1..n
      PROVE  /\ i - 1 \in 0..n /\ i \in 0..n
             /\ at[i] = at[i - 1] + Len(ss[i])
             /\ \A j \in 1..Len(ss[i]) : F[i][at[i - 1] + j] = ss[i][j]
             /\ \A k \in 1..at[i - 1] : F[i][k] = F[i - 1][k]
  <2>1. i - 1 \in 0..n /\ i \in 0..n /\ ss[i] \in Seq(D)
    OBVIOUS
  <2>2. PICK a, b : a = F[i - 1] /\ b = ss[i]
    OBVIOUS
  <2>3. a \in Seq(D) /\ b \in Seq(D) /\ F[i] = a \o b /\ at[i - 1] = Len(a) /\ Len(a) \in Nat /\ Len(b) \in Nat
    BY <1>1, <1>1a, <1>1b, <1>3, <2>1, <2>2
  <2>4. /\ Len(a \o b) = Len(a) + Len(b)
        /\ \A k \in 1..(Len(a) + Len(b)) : (a \o b)[k] = IF k <= Len(a) THEN a[k] ELSE b[k - Len(a)]
    BY <2>3, ConcatProperties
  <2>5. \A j \in 1..Len(b) : (a \o b)[Len(a) + j] = b[j]
    BY <2>3, <2>4
  <2>6. \A k \in 1..Len(a) : (a \o b)[k] = a[k]
    BY <2>3, <2>4
  <2>7. at[i] = Len(a) + Len(b)
    BY <1>3, <2>1, <2>3, <2>4
  <2> QED BY <2>1, <2>2, <2>3, <2>5, <2>6, <2>7
<1> DEFINE S == {m \in 0..n :
                   /\ \A i \in 0..m : at[i] <= at[m]
                   /\ \A i \in 1..m : \A j \in 1..Len(ss[i]) : F[m][at[i - 1] + j] = ss[i][j]
                   /\ \A k \in 1..at[m] : \E i \in 1..m : at[i - 1] < k /\ k <= at[i]}
<1>5. 0 \in S
  BY <1>3
<1>6. ASSUME NEW m \in 0..(n - 1), m \in S PROVE m + 1 \in S
  <2>0. m \in Nat /\ m + 1 \in 1..n /\ m + 1 \in 0..n /\ m \in 0..n /\ (m + 1) - 1 = m
    OBVIOUS
  <2>1. /\ at[m + 1] = at[m] + Len(ss[m + 1])
        /\ \A j \in 1..Len(ss[m + 1]) : F[m + 1][at[m] + j] = ss[m + 1][j]
        /\ \A k \in 1..at[m] : F[m + 1][k] = F[m][k]
    BY <1>4, <2>0
  <2>2. at[m] \in Nat /\ at[m + 1] \in Nat /\ Len(ss[m + 1]) \in Nat /\ at[m] <= at[m + 1]
    <3>1. at[m] \in Nat /\ at[m + 1] \in Nat /\ Len(ss[m + 1]) \in Nat
      BY <1>1b, <1>3, <2>0
    <3> QED BY <2>1, <3>1
  <2>3. /\ \A i \in 0..m : at[i] <= at[m]
        /\ \A i \in 1..m : \A j \in 1..Len(ss[i]) : F[m][at[i - 1] + j] = ss[i][j]
        /\ \A k \in 1..at[m] : \E i \in 1..m : at[i - 1] < k /\ k <= at[i]
    BY <1>6
  <2>4. \A i \in 0..(m + 1) : i \in 0..m \/ i = m + 1
    BY <2>0
  <2>5. \A i \in 0..(m + 1) : at[i] <= at[m + 1]
    <3>1. \A i \in 0..(m + 1) : i \in 0..n
      BY <2>0
    <3>2. \A i \in 0..(m + 1) : at[i] \in Nat
      BY <1>3, <3>1
    <3> QED BY <2>2, <2>3, <2>4, <3>2
  <2>6. ASSUME NEW i \in 1..(m + 1), NEW j \in 1..Len(ss[i])
        PROVE  F[m + 1][at[i - 1] + j] = ss[i][j]
    <3>1. CASE i = m + 1
      BY <2>0, <2>1, <3>1
    <3>2. CASE i # m + 1
      <4>1. i \in 1..m /\ i \in 1..n /\ i - 1 \in 0..n /\ i \in 0..m
        BY <2>0, <3>2
      <4>2. at[i] = at[i - 1] + Len(ss[i]) /\ at[i] <= at[m] /\ at[i - 1] \in Nat /\ Len(ss[i]) \in Nat
        BY <1>1b, <1>3, <1>4, <2>3, <4>1
      <4>3. at[i - 1] + j \in 1..at[m]
        <5>1. PICK u, v, w, x : u = at[i - 1] /\ v = at[i] /\ w = at[m] /\ x = Len(ss[i])
          OBVIOUS
        <5>2. u \in Nat /\ w \in Nat /\ x \in Nat /\ v = u + x /\ v <= w /\ j \in 1..x
          BY <2>2, <4>2, <5>1
        <5>3. u + j \in 1..w
          BY <5>2
        <5> QED BY <5>1, <5>3
      <4> QED BY <2>1, <2>3, <4>1, <4>3
    <3> QED BY <3>1, <3>2
  <2>7. ASSUME NEW k \in 1..at[m + 1] PROVE \E i \in 1..(m + 1) : at[i - 1] < k /\ k <= at[i]
    <3>1. CASE k <= at[m]
      <4>0. k \in 1..at[m]
        BY <2>2, <3>1
      <4>1. PICK i \in 1..m : at[i - 1] < k /\ k <= at[i]
        BY <2>3, <4>0
      <4>2. i \in 1..(m + 1)
        BY <2>0
      <4> QED BY <4>1, <4>2
    <3>2. CASE k > at[m]
      <4>1. PICK i \in 1..(m + 1) : i = m + 1 /\ i - 1 = m
        BY <2>0
      <4>2. at[i - 1] = at[m] /\ at[i] = at[m + 1]
        BY <4>1
      <4>3. k \in Nat /\ k <= at[m + 1] /\ at[m] < k
        BY <2>2, <3>2
      <4> QED BY <4>1, <4>2, <4>3
    <3> QED BY <2>2, <3>1, <3>2
  <2> QED BY <2>0, <2>5, <2>6, <2>7
<1>7. \A m \in 0..n : m \in S
  <2> HIDE DEF S
  <2> QED BY <1>5, <1>6, UpTo
<1>8. /\ \A j \in 0..n : \A i \in 0..j : at[i] <= at[j]
      /\ \A i \in 1..n : \A j \in 1..Len(ss[i]) : F[n][at[i - 1] + j] = ss[i][j]
      /\ \A k \in 1..at[n] : \E i \in 1..n : at[i - 1] < k /\ k <= at[i]
  BY <1>7
<1>9. \A i, j \in 0..n : i <= j => at[i] <= at[j]
  BY <1>8
<1>10. Laid(ss, n, F[n], at)
  BY <1>3, <1>4, <1>8, <1>9 DEF Laid
<1> QED BY <1>1, <1>3, <1>10

(* The elements of a concatenation are those of its pieces.                *)
LEMMA FlattenElements ==
    ASSUME NEW D, NEW n \in Nat, NEW ss \in [1..n -> Seq(D)]
    PROVE  \A x : x \in ToSet(FlattenSeq(ss)) <=> \E i \in 1..n : x \in ToSet(ss[i])
<1>1. PICK r : r = FlattenSeq(ss)
  OBVIOUS
<1>2. PICK at : Laid(ss, n, r, at)
  BY <1>1, FlattenLaid
<1>3. r \in Seq(D) /\ Len(r) \in Nat /\ DOMAIN r = 1..Len(r)
  BY <1>1, FlattenLaid
<1>4. \A i \in 1..n : ss[i] \in Seq(D) /\ DOMAIN ss[i] = 1..Len(ss[i]) /\ Len(ss[i]) \in Nat
  OBVIOUS
<1>5. \A i \in 0..n : at[i] \in Nat
  BY <1>2 DEF Laid
<1>6. ASSUME NEW x, x \in ToSet(r) PROVE \E i \in 1..n : x \in ToSet(ss[i])
  <2>1. PICK k \in 1..Len(r) : x = r[k]
    BY <1>3, <1>6 DEF ToSet
  <2>2. PICK i \in 1..n : at[i - 1] < k /\ k <= at[i]
    BY <1>2 DEF Laid
  <2>3. PICK u, v, w : u = at[i - 1] /\ v = at[i] /\ w = Len(ss[i])
    OBVIOUS
  <2>4. i - 1 \in 0..n /\ i \in 0..n
    OBVIOUS
  <2>5. u \in Nat /\ w \in Nat /\ v = u + w /\ u < k /\ k <= v
    BY <1>2, <1>4, <1>5, <2>2, <2>3, <2>4 DEF Laid
  <2>6. k - u \in 1..w /\ u + (k - u) = k
    BY <2>5
  <2>7. r[u + (k - u)] = ss[i][k - u]
    BY <1>2, <2>3, <2>6 DEF Laid
  <2>8. x = ss[i][k - u] /\ k - u \in DOMAIN ss[i]
    BY <1>4, <2>1, <2>3, <2>6, <2>7
  <2> QED BY <2>8 DEF ToSet
<1>7. ASSUME NEW x, NEW i \in 1..n, x \in ToSet(ss[i]) PROVE x \in ToSet(r)
  <2>1. PICK j \in 1..Len(ss[i]) : x = ss[i][j]
    BY <1>4, <1>7 DEF ToSet
  <2>3. PICK u, v, w, z : u = at[i - 1] /\ v = at[i] /\ w = Len(ss[i]) /\ z = at[n]
    OBVIOUS
  <2>4. i - 1 \in 0..n /\ i \in 0..n /\ n \in 0..n /\ i <= n
    OBVIOUS
  <2>5. u \in Nat /\ w \in Nat /\ v = u + w /\ j \in 1..w /\ v <= z /\ z = Len(r) /\ z \in Nat
    BY <1>2, <1>4, <1>5, <2>3, <2>4 DEF Laid
  <2>6. u + j \in 1..z
    BY <2>5
  <2>7. r[u + j] = x
    BY <1>2, <2>1, <2>3, <2>5 DEF Laid
  <2> QED BY <1>3, <2>5, <2>6, <2>7 DEF ToSet
<1> QED BY <1>1, <1>6, <1>7

-----------------------------------------------------------------------------
(* Pick.  The k-th element that stays was at f[k].                         *)
Chosen(s, I, r, f) ==
    /\ f \in [1..Len(r) -> DOMAIN s]
    /\ \A k \in 1..Len(r) : f[k] \in I /\ r[k] = s[f[k]]
    /\ \A j, k \in 1..Len(r) : j < k => f[j] < f[k]
    /\ \A i \in DOMAIN s : i \in I => \E k \in 1..Len(r) : f[k] = i

(* What Pick returns: the elements at the positions in I, in their order.  *)
LEMMA PickIs ==
    ASSUME NEW D, NEW s \in Seq(D), NEW I
    PROVE  Pick(s, I) \in Seq(D) /\ \E f : Chosen(s, I, Pick(s, I), f)
<1>1. PICK n : n = Len(s)
  OBVIOUS
<1>2. n \in Nat /\ DOMAIN s = 1..n /\ \A i \in 1..n : s[i] \in D
  BY <1>1
<1>3. PICK ss : ss = [i \in 1..n |-> IF i \in I THEN <<s[i]>> ELSE <<>>]
  OBVIOUS
<1>4. ss \in [1..n -> Seq(D)]
  <2>1. \A i \in 1..n : <<s[i]>> \in Seq(D) /\ <<>> \in Seq(D)
    BY <1>2
  <2> QED BY <1>3, <2>1
<1>5. PICK r : r = Pick(s, I)
  OBVIOUS
<1>6. r = FlattenSeq(ss)
  BY <1>2, <1>3, <1>5 DEF Pick
<1>7. r \in Seq(D) /\ Len(r) \in Nat
  BY <1>2, <1>4, <1>6, FlattenLaid
<1>8. PICK at : Laid(ss, n, r, at)
  BY <1>2, <1>4, <1>6, FlattenLaid
<1>9. \A i \in 1..n : Len(ss[i]) = (IF i \in I THEN 1 ELSE 0) /\ (i \in I => ss[i][1] = s[i])
  BY <1>2, <1>3
<1>10. /\ \A i \in 0..n : at[i] \in Nat
       /\ \A i, j \in 0..n : i <= j => at[i] <= at[j]
       /\ Len(r) = at[n]
  BY <1>8 DEF Laid
<1>11. ASSUME NEW i \in 1..n
       PROVE  /\ i \in 0..n /\ i - 1 \in 0..n
              /\ i \notin I => at[i] = at[i - 1]
              /\ i \in I => at[i] = at[i - 1] + 1 /\ r[at[i]] = s[i] /\ at[i] \in 1..Len(r)
  <2>1. i \in 0..n /\ i - 1 \in 0..n /\ n \in 0..n /\ i <= n
    BY <1>2
  <2>2. PICK u, v, w : u = at[i - 1] /\ v = at[i] /\ w = Len(ss[i])
    OBVIOUS
  <2>3. u \in Nat /\ v \in Nat /\ v = u + w /\ v <= Len(r)
    BY <1>8, <1>10, <2>1, <2>2 DEF Laid
  <2>4. CASE i \notin I
    BY <1>9, <2>1, <2>2, <2>3, <2>4
  <2>5. CASE i \in I
    <3>1. w = 1 /\ ss[i][1] = s[i] /\ 1 \in 1..Len(ss[i])
      <4>1. Len(ss[i]) = 1 /\ ss[i][1] = s[i]
        BY <1>9, <2>5
      <4> QED BY <2>2, <4>1
    <3>2. r[u + 1] = s[i]
      BY <1>8, <2>2, <3>1 DEF Laid
    <3>3. v = u + 1 /\ v \in 1..Len(r)
      BY <1>7, <2>3, <3>1
    <3> QED BY <2>1, <2>2, <2>5, <3>2, <3>3
  <2> QED BY <2>4, <2>5
<1>12. ASSUME NEW k \in 1..Len(r) PROVE \E i \in 1..n : i \in I /\ at[i] = k /\ r[k] = s[i]
  <2>1. PICK i \in 1..n : at[i - 1] < k /\ k <= at[i]
    BY <1>8 DEF Laid
  <2>2. PICK u, v : u = at[i - 1] /\ v = at[i]
    OBVIOUS
  <2>3. u \in Nat /\ v \in Nat /\ u < k /\ k <= v
    BY <1>10, <1>11, <2>1, <2>2
  <2>4. i \in I
    BY <1>11, <2>2, <2>3
  <2>5. v = u + 1 /\ r[v] = s[i]
    BY <1>11, <2>2, <2>4
  <2>6. k = v
    BY <2>3, <2>5
  <2> QED BY <2>2, <2>4, <2>5, <2>6
<1>13. PICK f : f = [k \in 1..Len(r) |-> CHOOSE i \in 1..n : i \in I /\ at[i] = k /\ r[k] = s[i]]
  OBVIOUS
<1>14. \A k \in 1..Len(r) : f[k] \in 1..n /\ f[k] \in I /\ at[f[k]] = k /\ r[k] = s[f[k]]
  BY <1>12, <1>13
<1>15. f \in [1..Len(r) -> 1..n]
  BY <1>13, <1>14
<1>16. ASSUME NEW j \in 1..Len(r), NEW k \in 1..Len(r), j < k PROVE f[j] < f[k]
  <2>1. PICK a, b : a = f[j] /\ b = f[k]
    OBVIOUS
  <2>2. a \in 0..n /\ b \in 0..n /\ at[a] = j /\ at[b] = k
    BY <1>11, <1>14, <2>1
  <2>3. ~ (b <= a)
    BY <1>10, <1>16, <2>2
  <2> QED BY <2>1, <2>2, <2>3
<1>17. ASSUME NEW i \in 1..n, i \in I PROVE \E k \in 1..Len(r) : f[k] = i
  <2>1. PICK k \in 1..Len(r) : k = at[i]
    BY <1>11, <1>17
  <2>2. PICK a : a = f[k]
    OBVIOUS
  <2>3. a \in 1..n /\ a \in I /\ at[a] = k
    BY <1>14, <2>2
  <2>4. PICK u, v : u = at[i - 1] /\ v = at[a - 1]
    OBVIOUS
  <2>5. u \in Nat /\ v \in Nat /\ k = u + 1 /\ k = v + 1
    BY <1>10, <1>11, <1>17, <2>1, <2>3, <2>4
  <2>6. ~ (a < i)
    <3>1. a < i => a <= i - 1 /\ a \in 0..n /\ i - 1 \in 0..n
      BY <1>11, <2>3
    <3>2. a < i => at[a] <= at[i - 1]
      BY <1>10, <3>1
    <3> QED BY <2>3, <2>4, <2>5, <3>2
  <2>7. ~ (i < a)
    <3>1. i < a => i <= a - 1 /\ i \in 0..n /\ a - 1 \in 0..n
      BY <1>11, <2>3
    <3>2. i < a => at[i] <= at[a - 1]
      BY <1>10, <3>1
    <3> QED BY <2>1, <2>4, <2>5, <3>2
  <2>8. a = i
    BY <2>3, <2>6, <2>7
  <2> QED BY <2>2, <2>8
<1>18. Chosen(s, I, r, f)
  BY <1>2, <1>14, <1>15, <1>16, <1>17 DEF Chosen
<1> QED BY <1>5, <1>7, <1>18

(* Neighbours that stay have nothing between them that stays; the first    *)
(* and the last that stay are first and last.                              *)
LEMMA ChosenNeighbours ==
    ASSUME NEW D, NEW s \in Seq(D), NEW I, NEW r \in Seq(D), NEW f, Chosen(s, I, r, f)
    PROVE  /\ \A k \in 1..(Len(r) - 1) : \A i \in DOMAIN s : f[k] < i /\ i < f[k + 1] => i \notin I
           /\ Len(r) > 0 => \A i \in DOMAIN s : i < f[1] \/ i > f[Len(r)] => i \notin I
           /\ \A i \in DOMAIN s : i \in I => Len(r) > 0
<1>0. Len(r) \in Nat /\ Len(s) \in Nat /\ DOMAIN s = 1..Len(s)
  OBVIOUS
<1>1. \A k \in 1..Len(r) : f[k] \in 1..Len(s)
  BY <1>0 DEF Chosen
<1>2. \A j, k \in 1..Len(r) : j < k => f[j] < f[k]
  BY DEF Chosen
<1>2a. \A j, k \in 1..Len(r) : f[j] < f[k] => j < k
  <2> SUFFICES ASSUME NEW j \in 1..Len(r), NEW k \in 1..Len(r), f[j] < f[k], ~ (j < k) PROVE FALSE
    OBVIOUS
  <2>1. k = j \/ k < j
    BY <1>0
  <2>2. f[k] <= f[j] /\ f[k] \in Nat /\ f[j] \in Nat
    BY <1>1, <1>2, <2>1
  <2> QED BY <2>2
<1>3. \A i \in DOMAIN s : i \in I => \E k \in 1..Len(r) : f[k] = i
  BY DEF Chosen
<1>4. ASSUME NEW k \in 1..(Len(r) - 1), NEW i \in DOMAIN s, f[k] < i, i < f[k + 1], i \in I
      PROVE  FALSE
  <2>1. PICK l \in 1..Len(r) : f[l] = i
    BY <1>3, <1>4
  <2>2. k \in 1..Len(r) /\ k + 1 \in 1..Len(r)
    BY <1>0
  <2>3. k < l /\ l < k + 1
    BY <1>2a, <1>4, <2>1, <2>2
  <2> QED BY <2>2, <2>3
<1>5. ASSUME Len(r) > 0, NEW i \in DOMAIN s, i < f[1] \/ i > f[Len(r)], i \in I PROVE FALSE
  <2>1. PICK l \in 1..Len(r) : f[l] = i
    BY <1>3, <1>5
  <2>2. 1 \in 1..Len(r) /\ Len(r) \in 1..Len(r)
    BY <1>0, <1>5
  <2>3. f[1] \in Nat /\ f[Len(r)] \in Nat /\ i \in Nat
    BY <1>0, <1>1, <2>2
  <2>4. l < 1 \/ Len(r) < l
    BY <1>2a, <1>5, <2>1, <2>2, <2>3
  <2> QED BY <1>0, <2>4
<1>6. ASSUME NEW i \in DOMAIN s, i \in I PROVE Len(r) > 0
  BY <1>0, <1>3, <1>6
<1> QED BY <1>4, <1>5, <1>6

(* What stays are the elements at the positions in I.                      *)
LEMMA PickElements ==
    ASSUME NEW D, NEW s \in Seq(D), NEW I
    PROVE  \A x : x \in ToSet(Pick(s, I)) <=> \E i \in DOMAIN s : i \in I /\ x = s[i]
<1>1. PICK r : r = Pick(s, I)
  OBVIOUS
<1>2. r \in Seq(D) /\ \E f : Chosen(s, I, r, f)
  BY <1>1, PickIs
<1>3. PICK f : Chosen(s, I, r, f)
  BY <1>2
<1>4. \A k \in 1..Len(r) : f[k] \in DOMAIN s /\ f[k] \in I /\ r[k] = s[f[k]]
  BY <1>3 DEF Chosen
<1>5. \A i \in DOMAIN s : i \in I => \E k \in 1..Len(r) : f[k] = i
  BY <1>3 DEF Chosen
<1>6. DOMAIN r = 1..Len(r)
  BY <1>2
<1>7. \A x : x \in ToSet(r) <=> \E k \in 1..Len(r) : x = r[k]
  BY <1>6 DEF ToSet
<1>8. ASSUME NEW k \in 1..Len(r) PROVE \E i \in DOMAIN s : i \in I /\ r[k] = s[i]
  BY <1>4
<1>9. ASSUME NEW i \in DOMAIN s, i \in I PROVE \E k \in 1..Len(r) : s[i] = r[k]
  <2>1. PICK k \in 1..Len(r) : f[k] = i
    BY <1>5, <1>9
  <2> QED BY <1>4, <2>1
<1>10. ASSUME NEW x, x \in ToSet(r) PROVE \E i \in DOMAIN s : i \in I /\ x = s[i]
  <2>1. PICK k \in 1..Len(r) : x = r[k]
    BY <1>7, <1>10
  <2> QED BY <1>8, <2>1
<1>11. ASSUME NEW x, NEW i \in DOMAIN s, i \in I, x = s[i] PROVE x \in ToSet(r)
  BY <1>7, <1>9, <1>11
<1> QED BY <1>1, <1>10, <1>11

(* A strictly increasing sequence of positive numbers outgrows its index.  *)
LEMMA IncreasingGrows ==
    ASSUME NEW m \in Nat, NEW n \in Nat, NEW f \in [1..m -> 1..n],
           \A j, k \in 1..m : j < k => f[j] < f[k]
    PROVE  (\A k \in 1..m : f[k] >= k) /\ m <= n
<1> DEFINE S == {l \in 0..m : \A k \in 1..l : f[k] >= k}
<1>1. 0 \in S
  OBVIOUS
<1>2. ASSUME NEW l \in 0..(m - 1), l \in S PROVE l + 1 \in S
  <2>1. l \in Nat /\ l + 1 \in 1..m /\ l + 1 \in 0..m /\ \A k \in 1..(l + 1) : k \in 1..l \/ k = l + 1
    OBVIOUS
  <2>2. PICK b : b = f[l + 1]
    OBVIOUS
  <2>3. b \in 1..n
    BY <2>1, <2>2
  <2>4. b >= l + 1
    <3>1. CASE l = 0
      BY <2>3, <3>1
    <3>2. CASE l # 0
      <4>1. PICK a : a = f[l]
        OBVIOUS
      <4>2. l \in 1..m /\ l \in 1..l /\ l < l + 1
        BY <2>1, <3>2
      <4>3. a >= l /\ a < b /\ a \in 1..n
        BY <1>2, <2>1, <2>2, <4>1, <4>2
      <4> QED BY <2>1, <2>3, <4>3
    <3> QED BY <3>1, <3>2
  <2>5. \A k \in 1..l : f[k] >= k
    BY <1>2
  <2> QED BY <2>1, <2>2, <2>4, <2>5
<1>3. \A l \in 0..m : l \in S
  <2> HIDE DEF S
  <2> QED BY <1>1, <1>2, UpTo
<1>4. \A k \in 1..m : f[k] >= k
  <2>1. m \in S
    BY <1>3
  <2> QED BY <2>1
<1>5. m <= n
  <2>1. CASE m = 0
    BY <2>1
  <2>2. CASE m # 0
    <3>1. PICK b : b = f[m]
      OBVIOUS
    <3>2. m \in 1..m
      BY <2>2
    <3>3. b >= m /\ b \in 1..n
      BY <1>4, <3>1, <3>2
    <3> QED BY <3>3
  <2> QED BY <2>1, <2>2
<1> QED BY <1>4, <1>5

(* A strictly increasing map of 1..n into itself is the identity.          *)
LEMMA IncreasingIdentity ==
    ASSUME NEW n \in Nat, NEW f \in [1..n -> 1..n], \A j, k \in 1..n : j < k => f[j] < f[k]
    PROVE  \A k \in 1..n : f[k] = k
<1> DEFINE T == {m \in 0..n : m < n => f[n - m] <= n - m}
<1>1. \A k \in 1..n : f[k] >= k
  BY IncreasingGrows
<1>2. \A m \in 0..n : m \in T
  <2>1. 0 \in T
    <3>1. 0 < n => f[n] \in 1..n
      OBVIOUS
    <3>2. 0 \in 0..n /\ n - 0 = n
      OBVIOUS
    <3>3. 0 < n => f[n - 0] <= n - 0
      BY <3>1, <3>2
    <3> QED BY <3>2, <3>3
  <2>2. ASSUME NEW m \in 0..(n - 1), m \in T PROVE m + 1 \in T
    <3>1. m \in Nat /\ m + 1 \in 0..n /\ m < n
      OBVIOUS
    <3>2. CASE m + 1 < n
      <4>1. PICK a, b : a = n - (m + 1) /\ b = n - m
        OBVIOUS
      <4>2. a \in 1..n /\ b \in 1..n /\ a < b /\ b = a + 1
        BY <3>1, <3>2, <4>1
      <4>3. f[a] < f[b] /\ f[b] <= b /\ f[a] \in 1..n /\ f[b] \in 1..n
        BY <2>2, <3>1, <4>1, <4>2
      <4>4. f[a] <= a
        BY <4>2, <4>3
      <4> QED BY <3>1, <4>1, <4>4
    <3>3. CASE ~ (m + 1 < n)
      BY <3>1, <3>3
    <3> QED BY <3>2, <3>3
  <2> HIDE DEF T
  <2> QED BY <2>1, <2>2, UpTo
<1>3. ASSUME NEW k \in 1..n PROVE f[k] = k
  <2>1. f[k] \in 1..n
    OBVIOUS
  <2>2. f[k] >= k
    BY <1>1
  <2>3. PICK m : m = n - k
    OBVIOUS
  <2>4. m \in 0..n /\ m < n /\ n - m = k
    BY <2>3
  <2>5. m \in T
    BY <1>2, <2>4
  <2>6. f[k] <= k
    BY <2>4, <2>5
  <2> QED BY <2>1, <2>2, <2>6
<1> QED BY <1>3

(* When everything stays, nothing changes; and only then is the result as  *)
(* long as the sequence.                                                   *)
LEMMA ChosenAll ==
    ASSUME NEW D, NEW s \in Seq(D), NEW I, NEW r \in Seq(D), NEW f, Chosen(s, I, r, f)
    PROVE  /\ (\A i \in DOMAIN s : i \in I) => r = s
           /\ Len(r) = Len(s) => r = s
           /\ Len(r) <= Len(s)
<1>2. r \in Seq(D)
  OBVIOUS
<1>3. Chosen(s, I, r, f)
  OBVIOUS
<1>4. PICK n, m : n = Len(s) /\ m = Len(r)
  OBVIOUS
<1>5. n \in Nat /\ m \in Nat /\ DOMAIN s = 1..n /\ DOMAIN r = 1..m
  BY <1>2, <1>4
<1>6. f \in [1..m -> 1..n] /\ \A j, k \in 1..m : j < k => f[j] < f[k]
  BY <1>3, <1>4, <1>5 DEF Chosen
<1>7. \A k \in 1..m : r[k] = s[f[k]]
  BY <1>3, <1>4 DEF Chosen
<1>8. m = n => r = s
  <2> SUFFICES ASSUME m = n PROVE r = s
    OBVIOUS
  <2>0. f \in [1..n -> 1..n] /\ \A j, k \in 1..n : j < k => f[j] < f[k]
    BY <1>6
  <2>1. \A k \in 1..n : f[k] = k
    BY <1>5, <2>0, IncreasingIdentity
  <2>2. \A k \in 1..n : r[k] = s[k]
    BY <1>7, <2>1
  <2> QED BY <1>2, <1>4, <1>5, <2>2, SeqEqual
<1>9. m <= n
  BY <1>5, <1>6, IncreasingGrows
<1>10. (\A i \in DOMAIN s : i \in I) => r = s
  <2> SUFFICES ASSUME \A i \in DOMAIN s : i \in I PROVE n <= m
    BY <1>5, <1>8, <1>9
  <2>1. \A i \in 1..n : \E k \in 1..m : f[k] = i
    BY <1>3, <1>4, <1>5 DEF Chosen
  <2>2. PICK g : g = [i \in 1..n |-> CHOOSE k \in 1..m : f[k] = i]
    OBVIOUS
  <2>3. \A i \in 1..n : g[i] \in 1..m /\ f[g[i]] = i
    BY <2>1, <2>2
  <2>4. \A i, j \in 1..n : i < j => g[i] < g[j]
    <3> SUFFICES ASSUME NEW i \in 1..n, NEW j \in 1..n, i < j, ~ (g[i] < g[j]) PROVE FALSE
      OBVIOUS
    <3>1. PICK a, b : a = g[i] /\ b = g[j]
      OBVIOUS
    <3>2. a \in 1..m /\ b \in 1..m /\ f[a] = i /\ f[b] = j
      BY <2>3, <3>1
    <3>3. b < a \/ a = b
      BY <1>5, <3>1, <3>2
    <3>4. f[b] < f[a] \/ f[a] = f[b]
      BY <1>6, <3>2, <3>3
    <3> QED BY <1>5, <3>2, <3>4
  <2>5. g \in [1..n -> 1..m]
    BY <2>2, <2>3
  <2> QED BY <1>5, <2>4, <2>5, IncreasingGrows
<1> QED BY <1>4, <1>8, <1>9, <1>10

(* Picking every position changes nothing, and nothing else does.          *)
LEMMA PickAll ==
    ASSUME NEW D, NEW s \in Seq(D), NEW I
    PROVE  /\ (\A i \in DOMAIN s : i \in I) => Pick(s, I) = s
           /\ Len(Pick(s, I)) = Len(s) => Pick(s, I) = s
           /\ Len(Pick(s, I)) <= Len(s)
<1>1. PICK r : r = Pick(s, I)
  OBVIOUS
<1>2. r \in Seq(D) /\ \E f : Chosen(s, I, r, f)
  BY <1>1, PickIs
<1>3. PICK f : Chosen(s, I, r, f)
  BY <1>2
<1>4. r \in Seq(D)
  BY <1>2
<1>5. /\ (\A i \in DOMAIN s : i \in I) => r = s
      /\ Len(r) = Len(s) => r = s
      /\ Len(r) <= Len(s)
  BY <1>3, <1>4, ChosenAll
<1> QED BY <1>1, <1>5
-----------------------------------------------------------------------------
(* Messages and histories.                                                 *)
Entry == [k : Kinds, n : Int]

(* Each result follows its call.                                           *)
Placed(ms) == \A i \in DOMAIN ms : Answers(ms[i]) \subseteq IF i = 1 THEN {} ELSE Uses(ms[i - 1])

(* A call is made in one message only.                                     *)
Apart(ms) == \A i, j \in DOMAIN ms : i # j => Uses(ms[i]) \cap Uses(ms[j]) = {}

(* No call has two results.                                                *)
Single(ms) ==
    \A i, k \in DOMAIN ms : \A j \in DOMAIN ms[i].blocks, l \in DOMAIN ms[k].blocks :
       /\ IsResult(ms[i].blocks[j]) /\ IsResult(ms[k].blocks[l])
       /\ ms[i].blocks[j].n = ms[k].blocks[l].n
       => i = k /\ j = l

(* The last message is the user's, with more than results in it.           *)
EndsWithUser(ms) ==
    /\ ms # <<>> /\ ms[Len(ms)].role = "user"
    /\ \E b \in ToSet(ms[Len(ms)].blocks) : ~ IsResult(b)

(* The parts of a message.                                                 *)
LEMMA MessageFacts ==
    ASSUME NEW m \in Message
    PROVE  /\ m.role \in {"user", "assistant"} /\ m.blocks \in Seq(Entry)
           /\ Len(m.blocks) \in Nat /\ DOMAIN m.blocks = 1..Len(m.blocks)
           /\ m = Msg(m.role, m.blocks)
           /\ \A b \in ToSet(m.blocks) : b \in Entry
<1>1. m.role \in {"user", "assistant"} /\ m.blocks \in Seq(Entry)
  BY DEF Message, Entry
<1>2. m = Msg(m.role, m.blocks)
  BY DEF Message, Msg
<1>3. PICK bs : bs = m.blocks
  OBVIOUS
<1>4. bs \in Seq(Entry)
  BY <1>1, <1>3
<1>5. Len(bs) \in Nat /\ DOMAIN bs = 1..Len(bs) /\ \A b \in ToSet(bs) : b \in Entry
  BY <1>4 DEF ToSet
<1> QED BY <1>1, <1>2, <1>3, <1>5

(* A message made of its parts.                                            *)
LEMMA MsgIs ==
    ASSUME NEW r \in {"user", "assistant"}, NEW bs \in Seq(Entry)
    PROVE  Msg(r, bs) \in Message /\ Msg(r, bs).role = r /\ Msg(r, bs).blocks = bs
BY DEF Message, Entry, Msg

(* The calls in a message.                                                 *)
LEMMA UsesAre == \A m, x : x \in Uses(m) <=> \E b \in ToSet(m.blocks) : b.k = "use" /\ b.n = x
BY DEF Uses

(* The results in a message.                                               *)
LEMMA AnswersAre == \A m, x : x \in Answers(m) <=> \E b \in ToSet(m.blocks) : IsResult(b) /\ b.n = x
BY DEF Answers

(* The blocks of a history.                                                *)
LEMMA BlocksAre == \A ms, b : b \in Blocks(ms) <=> \E i \in DOMAIN ms : b \in ToSet(ms[i].blocks)
BY DEF Blocks

(* The calls and the results of a history are those of its messages.       *)
LEMMA IdsAre ==
    /\ \A ms, x : x \in UseIds(ms) <=> \E i \in DOMAIN ms : x \in Uses(ms[i])
    /\ \A ms, x : x \in ResultIds(ms) <=> \E i \in DOMAIN ms : x \in Answers(ms[i])
BY DEF UseIds, ResultIds

(* The ids of a history are those of its blocks.                           *)
LEMMA IdsOfBlocks ==
    /\ \A ms, x : x \in UseIds(ms) <=> \E b \in Blocks(ms) : b.k = "use" /\ b.n = x
    /\ \A ms, x : x \in ResultIds(ms) <=> \E b \in Blocks(ms) : IsResult(b) /\ b.n = x
<1>1. ASSUME NEW ms, NEW x PROVE x \in UseIds(ms) <=> \E b \in Blocks(ms) : b.k = "use" /\ b.n = x
  <2>1. x \in UseIds(ms) <=> \E i \in DOMAIN ms : \E b \in ToSet(ms[i].blocks) : b.k = "use" /\ b.n = x
    BY IdsAre, UsesAre
  <2> QED BY <2>1, BlocksAre
<1>2. ASSUME NEW ms, NEW x PROVE x \in ResultIds(ms) <=> \E b \in Blocks(ms) : IsResult(b) /\ b.n = x
  <2>1. x \in ResultIds(ms) <=> \E i \in DOMAIN ms : \E b \in ToSet(ms[i].blocks) : IsResult(b) /\ b.n = x
    BY IdsAre, AnswersAre
  <2> QED BY <2>1, BlocksAre
<1> QED BY <1>1, <1>2

(* The parts of a proper history.                                          *)
LEMMA ProperFacts ==
    ASSUME NEW ms, Proper(ms)
    PROVE  /\ ms \in Seq(Message) /\ Len(ms) \in Nat /\ DOMAIN ms = 1..Len(ms)
           /\ \A i \in DOMAIN ms : ms[i] \in Message
           /\ \A i \in DOMAIN ms : ms[i].role \in {"user", "assistant"}
           /\ \A i \in DOMAIN ms : ms[i].role = "user" => Uses(ms[i]) = {}
           /\ \A i \in DOMAIN ms : ms[i].role = "assistant" => Answers(ms[i]) = {}
<1>1. ms \in Seq(Message)
  BY DEF Proper
<1>2. Len(ms) \in Nat /\ DOMAIN ms = 1..Len(ms) /\ \A i \in DOMAIN ms : ms[i] \in Message
  BY <1>1
<1> QED BY <1>1, <1>2, MessageFacts DEF Proper

(* p is ms with only the blocks at the positions stay[i] left in message   *)
(* i.                                                                      *)
Stays(ms, stay, p) ==
    /\ p \in Seq(Message)
    /\ Len(p) = Len(ms) /\ DOMAIN p = DOMAIN ms
    /\ \A i \in DOMAIN ms :
          /\ p[i].role = ms[i].role
          /\ p[i].blocks = Pick(ms[i].blocks, stay[i])
          /\ \A b : b \in ToSet(p[i].blocks) <=>
                \E j \in DOMAIN ms[i].blocks : j \in stay[i] /\ b = ms[i].blocks[j]

(* PickBlocks returns that.                                                *)
LEMMA PickBlocksIs ==
    ASSUME NEW ms \in Seq(Message), NEW stay, NEW p, p = PickBlocks(ms, stay)
    PROVE  Stays(ms, stay, p)
<1>1. p = PickBlocks(ms, stay)
  OBVIOUS
<1>2. Len(ms) \in Nat /\ DOMAIN ms = 1..Len(ms) /\ \A i \in DOMAIN ms : ms[i] \in Message
  OBVIOUS
<1>3. \A i \in DOMAIN ms : p[i] = Msg(ms[i].role, Pick(ms[i].blocks, stay[i]))
  BY <1>1 DEF PickBlocks
<1>4. ASSUME NEW i \in DOMAIN ms
      PROVE  /\ p[i] \in Message /\ p[i].role = ms[i].role /\ p[i].blocks = Pick(ms[i].blocks, stay[i])
             /\ \A b : b \in ToSet(p[i].blocks) <=>
                   \E j \in DOMAIN ms[i].blocks : j \in stay[i] /\ b = ms[i].blocks[j]
  <2>1. ms[i].blocks \in Seq(Entry) /\ ms[i].role \in {"user", "assistant"}
    BY <1>2, MessageFacts
  <2>2. PICK bs : bs = Pick(ms[i].blocks, stay[i])
    OBVIOUS
  <2>3. bs \in Seq(Entry)
    BY <2>1, <2>2, PickIs
  <2>4. p[i] = Msg(ms[i].role, bs)
    BY <1>3, <2>2
  <2>5. p[i] \in Message /\ p[i].role = ms[i].role /\ p[i].blocks = bs
    BY <2>1, <2>3, <2>4, MsgIs
  <2>6. \A b : b \in ToSet(bs) <=> \E j \in DOMAIN ms[i].blocks : j \in stay[i] /\ b = ms[i].blocks[j]
    BY <2>1, <2>2, PickElements
  <2> QED BY <2>2, <2>5, <2>6
<1>5. DOMAIN p = DOMAIN ms
  BY <1>1 DEF PickBlocks
<1>6. p \in Seq(Message) /\ Len(p) = Len(ms)
  <2>1. p = [i \in 1..Len(ms) |-> p[i]]
    BY <1>1, <1>2 DEF PickBlocks
  <2>2. \A i \in 1..Len(ms) : p[i] \in Message
    BY <1>2, <1>4
  <2>3. PICK n : n = Len(ms)
    OBVIOUS
  <2>4. p \in [1..n -> Message] /\ n \in Nat
    BY <1>2, <2>1, <2>2, <2>3
  <2> QED BY <2>3, <2>4
<1> QED BY <1>4, <1>5, <1>6 DEF Stays
-----------------------------------------------------------------------------
(* What r, the messages of p at the positions in I, inherits from p.       *)
Keeps(p, I, r) ==
    /\ Proper(r)
    /\ Apart(p) => Apart(r)
    /\ Single(p) => Single(r)
    /\ Placed(p) /\ (\A i \in DOMAIN p : i \notin I => Uses(p[i]) = {}) => Placed(r)
    /\ Len(p) \in I /\ EndsWithUser(p) => EndsWithUser(r)
    /\ \A b : b \in Blocks(r) <=> \E i \in DOMAIN p : i \in I /\ b \in ToSet(p[i].blocks)
    /\ NoEmptyMessage(p) => NoEmptyMessage(r)

(* Dropping messages without calls keeps a history in order.               *)
LEMMA ChosenKeeps ==
    ASSUME NEW p, Proper(p), NEW I, NEW r \in Seq(Message), NEW f, Chosen(p, I, r, f)
    PROVE  Keeps(p, I, r)
<1>0. /\ p \in Seq(Message) /\ Len(p) \in Nat /\ DOMAIN p = 1..Len(p)
      /\ \A i \in DOMAIN p : p[i] \in Message
      /\ \A i \in DOMAIN p : p[i].role = "user" => Uses(p[i]) = {}
      /\ \A i \in DOMAIN p : p[i].role = "assistant" => Answers(p[i]) = {}
  BY ProperFacts
<1>1. r \in Seq(Message)
  OBVIOUS
<1>2. Chosen(p, I, r, f)
  OBVIOUS
<1>3. Len(r) \in Nat /\ DOMAIN r = 1..Len(r)
  BY <1>1
<1>4. \A k \in DOMAIN r : f[k] \in DOMAIN p /\ f[k] \in I /\ r[k] = p[f[k]]
  BY <1>2, <1>3 DEF Chosen
<1>5. \A j, k \in DOMAIN r : j < k => f[j] < f[k]
  BY <1>2, <1>3 DEF Chosen
<1>6. \A i \in DOMAIN p : i \in I => \E k \in DOMAIN r : f[k] = i
  BY <1>2, <1>3 DEF Chosen
<1>7. \A j, k \in DOMAIN r : j # k => f[j] # f[k]
  <2> SUFFICES ASSUME NEW j \in DOMAIN r, NEW k \in DOMAIN r, j # k PROVE f[j] # f[k]
    OBVIOUS
  <2>1. j < k \/ k < j
    BY <1>3
  <2>2. f[j] < f[k] \/ f[k] < f[j]
    BY <1>5, <2>1
  <2>3. f[j] \in Nat /\ f[k] \in Nat
    BY <1>0, <1>4
  <2> QED BY <2>2, <2>3
<1>8. Proper(r)
  <2>1. \A k \in DOMAIN r : (r[k].role = "user" => Uses(r[k]) = {}) /\ (r[k].role = "assistant" => Answers(r[k]) = {})
    BY <1>0, <1>4
  <2> QED BY <1>1, <2>1 DEF Proper
<1>9. Apart(p) => Apart(r)
  BY <1>4, <1>7 DEF Apart
<1>10. Single(p) => Single(r)
  <2> SUFFICES ASSUME Single(p),
                      NEW i \in DOMAIN r, NEW k \in DOMAIN r,
                      NEW j \in DOMAIN r[i].blocks, NEW l \in DOMAIN r[k].blocks,
                      IsResult(r[i].blocks[j]), IsResult(r[k].blocks[l]),
                      r[i].blocks[j].n = r[k].blocks[l].n
               PROVE  i = k /\ j = l
    BY DEF Single
  <2>1. PICK a, b : a = f[i] /\ b = f[k]
    OBVIOUS
  <2>2. a \in DOMAIN p /\ b \in DOMAIN p /\ r[i] = p[a] /\ r[k] = p[b]
    BY <1>4, <2>1
  <2>3. a = b /\ j = l
    BY <2>2 DEF Single
  <2> QED BY <1>7, <2>1, <2>3
<1>11. ASSUME Placed(p), \A i \in DOMAIN p : i \notin I => Uses(p[i]) = {} PROVE Placed(r)
  <2> SUFFICES ASSUME NEW k \in DOMAIN r, NEW x \in Answers(r[k])
               PROVE  k # 1 /\ x \in Uses(r[k - 1])
    BY DEF Placed
  <2>1. PICK a : a = f[k]
    OBVIOUS
  <2>2. a \in DOMAIN p /\ r[k] = p[a]
    BY <1>4, <2>1
  <2>3. a # 1 /\ x \in Uses(p[a - 1])
    BY <1>11, <2>2 DEF Placed
  <2>4. a - 1 \in DOMAIN p /\ a - 1 < a /\ a \in Nat
    BY <1>0, <2>2, <2>3
  <2>5. a - 1 \in I
    BY <1>11, <2>3, <2>4
  <2>6. PICK l \in DOMAIN r : f[l] = a - 1
    BY <1>6, <2>4, <2>5
  <2>7. l < k
    <3>1. ~ (k < l)
      <4>1. k < l => a < a - 1
        BY <1>5, <2>1, <2>6
      <4> QED BY <2>4, <4>1
    <3>2. l # k
      BY <2>1, <2>4, <2>6
    <3> QED BY <1>3, <3>1, <3>2
  <2>8. l = k - 1
    <3> SUFFICES ASSUME l < k - 1 PROVE FALSE
      BY <1>3, <2>7
    <3>1. k - 1 \in DOMAIN r /\ k - 1 < k
      BY <1>3
    <3>2. PICK c : c = f[k - 1]
      OBVIOUS
    <3>3. a - 1 < c /\ c < a /\ c \in DOMAIN p
      BY <1>4, <1>5, <2>1, <2>6, <3>1, <3>2
    <3> QED BY <1>0, <2>4, <3>3
  <2>9. k # 1
    BY <1>3, <2>7
  <2>10. r[k - 1] = p[a - 1]
    BY <1>4, <2>6, <2>8
  <2> QED BY <2>3, <2>9, <2>10
<1>12. ASSUME Len(p) \in I, EndsWithUser(p) PROVE EndsWithUser(r)
  <2>1. p # <<>>
    BY <1>12 DEF EndsWithUser
  <2>2. Len(p) \in DOMAIN p
    BY <1>0, <2>1
  <2>3. PICK k \in DOMAIN r : f[k] = Len(p)
    BY <1>6, <1>12, <2>2
  <2>4. k = Len(r)
    <3> SUFFICES ASSUME k < Len(r) PROVE FALSE
      BY <1>3
    <3>1. Len(r) \in DOMAIN r
      BY <1>3
    <3>2. PICK c : c = f[Len(r)]
      OBVIOUS
    <3>3. Len(p) < c /\ c \in DOMAIN p
      BY <1>4, <1>5, <2>3, <3>1, <3>2
    <3> QED BY <1>0, <3>3
  <2>5. r[Len(r)] = p[Len(p)] /\ r # <<>>
    BY <1>3, <1>4, <2>3, <2>4
  <2> QED BY <1>12, <2>5 DEF EndsWithUser
<1>13. ASSUME NEW b PROVE b \in Blocks(r) <=> \E i \in DOMAIN p : i \in I /\ b \in ToSet(p[i].blocks)
  <2>1. ASSUME NEW k \in DOMAIN r, b \in ToSet(r[k].blocks)
        PROVE  \E i \in DOMAIN p : i \in I /\ b \in ToSet(p[i].blocks)
    BY <1>4, <2>1
  <2>2. ASSUME NEW i \in DOMAIN p, i \in I, b \in ToSet(p[i].blocks)
        PROVE  \E k \in DOMAIN r : b \in ToSet(r[k].blocks)
    <3>1. PICK k \in DOMAIN r : f[k] = i
      BY <1>6, <2>2
    <3> QED BY <1>4, <2>2, <3>1
  <2> QED BY <2>1, <2>2, BlocksAre
<1>14. NoEmptyMessage(p) => NoEmptyMessage(r)
  BY <1>4 DEF NoEmptyMessage
<1> QED BY <1>8, <1>9, <1>10, <1>11, <1>12, <1>13, <1>14 DEF Keeps

(* What r, the messages of ms with only some of their blocks and without   *)
(* those that are left empty, inherits from ms.                            *)
Thins(ms, stay, r) ==
    /\ Proper(r) /\ NoEmptyMessage(r)
    /\ Apart(ms) => Apart(r)
    /\ \A b : b \in Blocks(r) <=>
          \E i \in DOMAIN ms : \E j \in DOMAIN ms[i].blocks : j \in stay[i] /\ b = ms[i].blocks[j]
    /\ (\A i \in DOMAIN ms : \A j \in DOMAIN ms[i].blocks :
          /\ ms[i].blocks[j].k = "use" => j \in stay[i]
          /\ IsResult(ms[i].blocks[j]) /\ j \in stay[i] => i # 1 /\ ms[i].blocks[j].n \in Uses(ms[i - 1]))
       => Placed(r)
    /\ EndsWithUser(ms) /\ (\A j \in DOMAIN ms[Len(ms)].blocks :
                               ~ IsResult(ms[Len(ms)].blocks[j]) => j \in stay[Len(ms)])
       => EndsWithUser(r)

(* A history of which only some blocks stay, and no empty messages: no     *)
(* call goes away unless its block does.                                   *)
LEMMA ThinnedIs ==
    ASSUME NEW ms, Proper(ms), NEW stay, NEW p, p = PickBlocks(ms, stay),
           NEW I, I = {i \in DOMAIN p : p[i].blocks # <<>>}, NEW r \in Seq(Message), NEW f, Chosen(p, I, r, f)
    PROVE  Thins(ms, stay, r)
<1>0. /\ ms \in Seq(Message) /\ Len(ms) \in Nat /\ DOMAIN ms = 1..Len(ms)
      /\ \A i \in DOMAIN ms : ms[i] \in Message
      /\ \A i \in DOMAIN ms : ms[i].role = "user" => Uses(ms[i]) = {}
      /\ \A i \in DOMAIN ms : ms[i].role = "assistant" => Answers(ms[i]) = {}
  BY ProperFacts
<1>1. p = PickBlocks(ms, stay)
  OBVIOUS
<1>2. /\ p \in Seq(Message) /\ Len(p) = Len(ms) /\ DOMAIN p = DOMAIN ms
      /\ \A i \in DOMAIN ms : p[i].role = ms[i].role
      /\ \A i \in DOMAIN ms : \A b : b \in ToSet(p[i].blocks) <=>
                       \E j \in DOMAIN ms[i].blocks : j \in stay[i] /\ b = ms[i].blocks[j]
  <2>1. ms \in Seq(Message)
    BY <1>0
  <2>2. Stays(ms, stay, p)
    BY <2>1, PickBlocksIs
  <2> QED BY <2>2 DEF Stays
<1>3. \A i \in DOMAIN ms : \A b : b \in ToSet(ms[i].blocks) <=> \E j \in DOMAIN ms[i].blocks : b = ms[i].blocks[j]
  BY DEF ToSet
<1>4. \A i \in DOMAIN ms : ToSet(p[i].blocks) \subseteq ToSet(ms[i].blocks)
  <2> SUFFICES ASSUME NEW i \in DOMAIN ms, NEW b \in ToSet(p[i].blocks) PROVE b \in ToSet(ms[i].blocks)
    OBVIOUS
  <2>1. PICK j \in DOMAIN ms[i].blocks : b = ms[i].blocks[j]
    BY <1>2
  <2> QED BY <2>1 DEF ToSet
<1>5. \A i \in DOMAIN ms : Uses(p[i]) \subseteq Uses(ms[i]) /\ Answers(p[i]) \subseteq Answers(ms[i])
  BY <1>4 DEF Uses, Answers
<1>6. Proper(p)
  <2>1. \A i \in DOMAIN p : (p[i].role = "user" => Uses(p[i]) = {}) /\ (p[i].role = "assistant" => Answers(p[i]) = {})
    BY <1>0, <1>2, <1>5
  <2> QED BY <1>2, <2>1 DEF Proper
<1>7. Apart(ms) => Apart(p)
  BY <1>2, <1>5 DEF Apart
<1>8. I = {i \in DOMAIN p : p[i].blocks # <<>>}
  OBVIOUS
<1>9. Keeps(p, I, r)
  BY <1>6, ChosenKeeps
<1>10. \A i \in DOMAIN p : i \notin I => ToSet(p[i].blocks) = {}
  <2> SUFFICES ASSUME NEW i \in DOMAIN p, i \notin I PROVE ToSet(p[i].blocks) = {}
    OBVIOUS
  <2>1. p[i].blocks = <<>>
    BY <1>8
  <2>2. DOMAIN p[i].blocks = {}
    BY <2>1
  <2> QED BY <2>2 DEF ToSet
<1>11. \A i \in DOMAIN p : i \notin I => Uses(p[i]) = {}
  BY <1>10 DEF Uses
<1>12. ASSUME NEW b
       PROVE  b \in Blocks(r) <=>
                 \E i \in DOMAIN ms : \E j \in DOMAIN ms[i].blocks : j \in stay[i] /\ b = ms[i].blocks[j]
  <2>1. b \in Blocks(r) <=> \E i \in DOMAIN p : i \in I /\ b \in ToSet(p[i].blocks)
    BY <1>6, <1>9 DEF Keeps
  <2>2. b \in Blocks(r) <=> \E i \in DOMAIN p : b \in ToSet(p[i].blocks)
    BY <1>10, <2>1
  <2>3. \A i \in DOMAIN ms : b \in ToSet(p[i].blocks) <=>
                       \E j \in DOMAIN ms[i].blocks : j \in stay[i] /\ b = ms[i].blocks[j]
    BY <1>2
  <2> QED BY <1>2, <2>2, <2>3
<1>13. Proper(r) /\ (Apart(ms) => Apart(r))
  BY <1>6, <1>7, <1>9 DEF Keeps
<1>14. NoEmptyMessage(r)
  <2>2. Chosen(p, I, r, f)
    OBVIOUS
  <2>3. DOMAIN r = 1..Len(r)
    OBVIOUS
  <2>4. \A k \in DOMAIN r : f[k] \in I /\ r[k] = p[f[k]]
    BY <2>2, <2>3 DEF Chosen
  <2>5. \A i \in I : p[i].blocks # <<>>
    BY <1>8
  <2> QED BY <2>4, <2>5 DEF NoEmptyMessage
<1>15. ASSUME \A i \in DOMAIN ms : \A j \in DOMAIN ms[i].blocks :
                 /\ ms[i].blocks[j].k = "use" => j \in stay[i]
                 /\ IsResult(ms[i].blocks[j]) /\ j \in stay[i]
                    => i # 1 /\ ms[i].blocks[j].n \in Uses(ms[i - 1])
       PROVE  Placed(r)
  <2>1. ASSUME NEW i \in DOMAIN ms, NEW b \in ToSet(ms[i].blocks), b.k = "use" PROVE b \in ToSet(p[i].blocks)
    <3>1. PICK j \in DOMAIN ms[i].blocks : b = ms[i].blocks[j]
      BY <1>3
    <3>2. j \in stay[i]
      BY <1>15, <2>1, <3>1
    <3> QED BY <1>2, <3>1, <3>2
  <2>2. \A i \in DOMAIN ms : Uses(ms[i]) \subseteq Uses(p[i])
    BY <2>1 DEF Uses
  <2>3. Placed(p)
    <3> SUFFICES ASSUME NEW i \in DOMAIN p, NEW x \in Answers(p[i])
                 PROVE  i # 1 /\ x \in Uses(p[i - 1])
      BY DEF Placed
    <3>1. PICK b \in ToSet(p[i].blocks) : IsResult(b) /\ b.n = x
      BY AnswersAre
    <3>2. PICK j \in DOMAIN ms[i].blocks : j \in stay[i] /\ b = ms[i].blocks[j]
      BY <1>2, <3>1
    <3>3. i # 1 /\ x \in Uses(ms[i - 1])
      BY <1>2, <1>15, <3>1, <3>2
    <3>4. i - 1 \in DOMAIN ms
      BY <1>0, <1>2, <3>3
    <3> QED BY <2>2, <3>3, <3>4
  <2> QED BY <1>9, <1>11, <2>3 DEF Keeps
<1>16. ASSUME EndsWithUser(ms),
              \A j \in DOMAIN ms[Len(ms)].blocks : ~ IsResult(ms[Len(ms)].blocks[j]) => j \in stay[Len(ms)]
       PROVE  EndsWithUser(r)
  <2>1. PICK b \in ToSet(ms[Len(ms)].blocks) : ~ IsResult(b)
    BY <1>16 DEF EndsWithUser
  <2>2. Len(ms) \in DOMAIN ms
    BY <1>0, <1>16 DEF EndsWithUser
  <2>3. b \in ToSet(p[Len(ms)].blocks)
    <3>1. PICK j \in DOMAIN ms[Len(ms)].blocks : b = ms[Len(ms)].blocks[j]
      BY <1>3, <2>1, <2>2
    <3>2. j \in stay[Len(ms)]
      BY <1>16, <2>1, <3>1
    <3> QED BY <1>2, <2>2, <3>1, <3>2
  <2>4. p # <<>> /\ p[Len(p)].role = "user" /\ Len(p) = Len(ms)
    BY <1>0, <1>2, <1>16, <2>2 DEF EndsWithUser
  <2>5. EndsWithUser(p)
    BY <2>1, <2>3, <2>4 DEF EndsWithUser
  <2>6. Len(p) \in I
    BY <1>2, <1>10, <2>2, <2>3
  <2> QED BY <1>6, <1>9, <2>5, <2>6 DEF Keeps
<1> QED BY <1>12, <1>13, <1>14, <1>15, <1>16 DEF Thins

(* Phases 1, 2 and 2d of validate_and_repair thin a history so.            *)
LEMMA DroppedIs ==
    ASSUME NEW ms, Proper(ms), NEW stay, NEW r, r = DropEmpty(PickBlocks(ms, stay))
    PROVE  Thins(ms, stay, r)
<1>1. PICK p : p = PickBlocks(ms, stay)
  OBVIOUS
<1>2. PICK I : I = {i \in DOMAIN p : p[i].blocks # <<>>}
  OBVIOUS
<1>3. r = Pick(p, I)
  BY <1>1, <1>2 DEF DropEmpty
<1>4. ms \in Seq(Message)
  BY ProperFacts
<1>5. p \in Seq(Message)
  BY <1>1, <1>4, PickBlocksIs DEF Stays
<1>6. r \in Seq(Message) /\ \E f : Chosen(p, I, r, f)
  BY <1>3, <1>5, PickIs
<1>7. r \in Seq(Message)
  BY <1>6
<1>8. PICK f : Chosen(p, I, r, f)
  BY <1>6
<1> QED BY <1>1, <1>2, <1>7, <1>8, ThinnedIs
-----------------------------------------------------------------------------
(* Every element of r is one of a piece ss[i], at its place, and every     *)
(* element of a piece is in r.                                             *)
Tiled(ss, n, r, at) ==
    /\ \A k \in 1..Len(r) : \E i \in 1..n : \E j \in 1..Len(ss[i]) : k = at[i - 1] + j /\ r[k] = ss[i][j]
    /\ \A i \in 1..n : \A j \in 1..Len(ss[i]) : at[i - 1] + j \in 1..Len(r) /\ r[at[i - 1] + j] = ss[i][j]

(* The positions of a flattened sequence are those of its pieces.          *)
LEMMA LaidAt ==
    ASSUME NEW n \in Nat, NEW ss, \A i \in 1..n : Len(ss[i]) \in Nat,
           NEW r, Len(r) \in Nat, NEW at, Laid(ss, n, r, at)
    PROVE  Tiled(ss, n, r, at)
<1>1. /\ \A i \in 0..n : at[i] \in Nat
      /\ Len(r) = at[n]
      /\ \A i \in 1..n : at[i] = at[i - 1] + Len(ss[i])
      /\ \A i \in 1..n : \A j \in 1..Len(ss[i]) : r[at[i - 1] + j] = ss[i][j]
      /\ \A i, j \in 0..n : i <= j => at[i] <= at[j]
      /\ \A k \in 1..Len(r) : \E i \in 1..n : at[i - 1] < k /\ k <= at[i]
  BY DEF Laid
<1>2. ASSUME NEW k \in 1..Len(r)
      PROVE  \E i \in 1..n : \E j \in 1..Len(ss[i]) : k = at[i - 1] + j /\ r[k] = ss[i][j]
  <2>1. PICK i \in 1..n : at[i - 1] < k /\ k <= at[i]
    BY <1>1
  <2>2. PICK a, b, l : a = at[i - 1] /\ b = at[i] /\ l = Len(ss[i])
    OBVIOUS
  <2>3. i - 1 \in 0..n /\ i \in 0..n
    OBVIOUS
  <2>4. a \in Nat /\ b \in Nat /\ l \in Nat /\ b = a + l /\ a < k /\ k <= b
    BY <1>1, <2>1, <2>2, <2>3
  <2>5. k - a \in 1..l /\ k = a + (k - a)
    BY <2>4
  <2>6. r[a + (k - a)] = ss[i][k - a]
    BY <1>1, <2>2, <2>5
  <2> QED BY <2>2, <2>5, <2>6
<1>3. ASSUME NEW i \in 1..n, NEW j \in 1..Len(ss[i])
      PROVE  at[i - 1] + j \in 1..Len(r) /\ r[at[i - 1] + j] = ss[i][j]
  <2>2. PICK a, b, l : a = at[i - 1] /\ b = at[i] /\ l = Len(ss[i])
    OBVIOUS
  <2>3. i - 1 \in 0..n /\ i \in 0..n /\ n \in 0..n /\ i <= n
    OBVIOUS
  <2>4. a \in Nat /\ b \in Nat /\ l \in Nat /\ b = a + l /\ j \in 1..l
    BY <1>1, <2>2, <2>3
  <2>5. b <= Len(r)
    BY <1>1, <2>2, <2>3
  <2>6. a + j \in 1..Len(r)
    BY <2>4, <2>5
  <2> QED BY <1>1, <2>2, <2>6
<1> QED BY <1>2, <1>3 DEF Tiled

(* What a phase of the repair keeps.                                       *)
Sound(ms, r) ==
    /\ Proper(r) /\ NoEmptyMessage(r)
    /\ Apart(ms) => Apart(r)
    /\ EndsWithUser(ms) => EndsWithUser(r)

(* Results that wait behind the assistant messages with their calls.       *)
Fits(ms, after) ==
    /\ \A i \in DOMAIN ms : after[i] \in Seq(Entry)
    /\ \A i \in DOMAIN ms : after[i] # <<>> => ms[i].role = "assistant"
    /\ \A i \in DOMAIN ms : \A b \in ToSet(after[i]) : IsResult(b) /\ b.n \in Uses(ms[i])

(* The message i that the results waiting before it have joined.           *)
Joins(ms, after, i, m) ==
    m = IF i > 1 /\ ms[i].role = "user" THEN Msg("user", ms[i].blocks \o after[i - 1]) ELSE ms[i]

(* A sequence is not empty exactly when it has an element.                 *)
LEMMA NotEmptyHas ==
    /\ \A s \in Seq(Entry) : s # <<>> => \E b \in Entry : b \in ToSet(s)
    /\ \A s \in Seq(Entry) : \A b \in ToSet(s) : s # <<>>
<1>1. ASSUME NEW s \in Seq(Entry), s # <<>> PROVE \E b \in Entry : b \in ToSet(s)
  <2>1. 1 \in DOMAIN s /\ s[1] \in Entry
    BY <1>1
  <2> QED BY <2>1 DEF ToSet
<1>2. ASSUME NEW s \in Seq(Entry), NEW b \in ToSet(s) PROVE s # <<>>
  BY DEF ToSet
<1> QED BY <1>1, <1>2

(* The message that results join: its blocks and its calls.                *)
LEMMA JoinsIs ==
    ASSUME NEW ms, Proper(ms), NEW after, Fits(ms, after), NEW i \in DOMAIN ms, NEW m, Joins(ms, after, i, m)
    PROVE  /\ m \in Message /\ m.role = ms[i].role
           /\ ms[i].role = "assistant" => m = ms[i]
           /\ Uses(m) = Uses(ms[i])
           /\ \A b : b \in ToSet(m.blocks) <=>
                 \/ b \in ToSet(ms[i].blocks)
                 \/ i > 1 /\ ms[i].role = "user" /\ b \in ToSet(after[i - 1])
           /\ ms[i].blocks # <<>> => m.blocks # <<>>
<1>0. /\ Len(ms) \in Nat /\ DOMAIN ms = 1..Len(ms)
      /\ ms[i] \in Message /\ ms[i].role \in {"user", "assistant"}
  BY ProperFacts
<1>1. ms[i].blocks \in Seq(Entry)
  BY <1>0, MessageFacts
<1>2. CASE i > 1 /\ ms[i].role = "user"
  <2>1. i - 1 \in DOMAIN ms
    BY <1>0, <1>2
  <2>2. PICK s, t : s = ms[i].blocks /\ t = after[i - 1]
    OBVIOUS
  <2>3. s \in Seq(Entry) /\ t \in Seq(Entry) /\ \A b \in ToSet(t) : IsResult(b)
    BY <1>1, <2>1, <2>2 DEF Fits
  <2>4. m = Msg("user", s \o t) /\ s \o t \in Seq(Entry)
    BY <1>2, <2>2, <2>3 DEF Joins
  <2>5. m \in Message /\ m.role = "user" /\ m.blocks = s \o t
    BY <2>4, MsgIs
  <2>6. \A b : b \in ToSet(s \o t) <=> b \in ToSet(s) \/ b \in ToSet(t)
    <3>1. Len(s) \in Nat /\ Len(t) \in Nat /\ DOMAIN s = 1..Len(s) /\ DOMAIN t = 1..Len(t)
      BY <2>3
    <3>2. PICK u : u = s \o t
      OBVIOUS
    <3>3. /\ u \in Seq(Entry) /\ Len(u) = Len(s) + Len(t) /\ DOMAIN u = 1..Len(u)
          /\ \A k \in 1..Len(s) : u[k] = s[k]
          /\ \A k \in 1..Len(t) : u[Len(s) + k] = t[k]
      BY <2>3, <3>2
    <3>4. ASSUME NEW b \in ToSet(u) PROVE b \in ToSet(s) \/ b \in ToSet(t)
      <4>1. PICK k \in 1..Len(u) : b = u[k]
        BY <3>3 DEF ToSet
      <4>2. CASE k <= Len(s)
        BY <3>1, <3>3, <4>1, <4>2 DEF ToSet
      <4>3. CASE k > Len(s)
        <5>1. PICK l : l = k - Len(s)
          OBVIOUS
        <5>2. l \in 1..Len(t) /\ k = Len(s) + l
          BY <3>1, <3>3, <4>1, <4>3, <5>1
        <5>3. b = t[l]
          BY <3>3, <4>1, <5>2
        <5> QED BY <3>1, <5>2, <5>3 DEF ToSet
      <4> QED BY <3>1, <4>2, <4>3
    <3>5. ASSUME NEW b \in ToSet(s) PROVE b \in ToSet(u)
      <4>1. PICK k \in 1..Len(s) : b = s[k]
        BY <3>1 DEF ToSet
      <4>2. k \in DOMAIN u /\ u[k] = b
        BY <3>1, <3>3, <4>1
      <4> QED BY <4>2 DEF ToSet
    <3>6. ASSUME NEW b \in ToSet(t) PROVE b \in ToSet(u)
      <4>1. PICK k \in 1..Len(t) : b = t[k]
        BY <3>1 DEF ToSet
      <4>2. Len(s) + k \in DOMAIN u /\ u[Len(s) + k] = b
        BY <3>1, <3>3, <4>1
      <4> QED BY <4>2 DEF ToSet
    <3> QED BY <3>2, <3>4, <3>5, <3>6
  <2>7. \A b : b \in ToSet(m.blocks) <=> b \in ToSet(s) \/ b \in ToSet(t)
    BY <2>5, <2>6
  <2>8. Uses(m) = Uses(ms[i])
    <3>1. \A b : IsResult(b) => b.k # "use"
      BY DEF IsResult
    <3>2. \A x : x \in Uses(m) <=> x \in Uses(ms[i])
      BY <2>2, <2>3, <2>7, <3>1, UsesAre
    <3> QED BY <3>2
  <2>9. s # <<>> => m.blocks # <<>>
    <3> SUFFICES ASSUME s # <<>> PROVE m.blocks # <<>>
      OBVIOUS
    <3>1. PICK b \in Entry : b \in ToSet(s)
      BY <2>3, NotEmptyHas
    <3>2. b \in ToSet(m.blocks) /\ m.blocks \in Seq(Entry)
      BY <2>4, <2>5, <2>7, <3>1
    <3> QED BY <3>2, NotEmptyHas
  <2>10. m.role = ms[i].role /\ (ms[i].role = "assistant" => m = ms[i])
    BY <1>2, <2>5
  <2>11. \A b : b \in ToSet(m.blocks) <=>
                 \/ b \in ToSet(ms[i].blocks)
                 \/ i > 1 /\ ms[i].role = "user" /\ b \in ToSet(after[i - 1])
    BY <1>2, <2>2, <2>7
  <2> QED BY <2>2, <2>5, <2>8, <2>9, <2>10, <2>11
<1>3. CASE ~ (i > 1 /\ ms[i].role = "user")
  BY <1>0, <1>3 DEF Joins
<1> QED BY <1>2, <1>3
(* The history with the waiting results in place.                          *)
LEMMA AttachIs ==
    ASSUME NEW ms, Proper(ms), NoEmptyMessage(ms), Placed(ms), NEW after, Fits(ms, after),
           NEW r, r = Attach(ms, after)
    PROVE  /\ Sound(ms, r) /\ Placed(r)
           /\ \A b : b \in Blocks(r) <=> b \in Blocks(ms) \/ \E i \in DOMAIN ms : b \in ToSet(after[i])
<1>0. /\ Len(ms) \in Nat /\ DOMAIN ms = 1..Len(ms)
      /\ \A i \in DOMAIN ms : ms[i] \in Message
      /\ \A i \in DOMAIN ms : ms[i].role \in {"user", "assistant"}
      /\ \A i \in DOMAIN ms : ms[i].role = "user" => Uses(ms[i]) = {}
      /\ \A i \in DOMAIN ms : ms[i].role = "assistant" => Answers(ms[i]) = {}
  BY ProperFacts
<1>1. PICK n : n = Len(ms)
  OBVIOUS
<1>2. n \in Nat /\ DOMAIN ms = 1..n
  BY <1>0, <1>1
<1>3. PICK J : J = [i \in 1..n |-> IF i > 1 /\ ms[i].role = "user"
                                   THEN Msg("user", ms[i].blocks \o after[i - 1]) ELSE ms[i]]
  OBVIOUS
<1>4. PICK V : V = [i \in 1..n |-> Msg("user", after[i])]
  OBVIOUS
<1>5. PICK W : W = {i \in 1..n : after[i] # <<>> /\ ~ (i < n /\ ms[i + 1].role = "user")}
  OBVIOUS
<1>6. PICK ss : ss = [i \in 1..n |-> IF i \in W THEN <<J[i], V[i]>> ELSE <<J[i]>>]
  OBVIOUS
<1>7. r = FlattenSeq(ss)
  <2>1. \A i \in 1..n : /\ J[i] = IF i > 1 /\ ms[i].role = "user"
                                  THEN Msg("user", ms[i].blocks \o after[i - 1]) ELSE ms[i]
                        /\ V[i] = Msg("user", after[i])
    BY <1>3, <1>4
  <2>2. \A i \in 1..n : (after[i] # <<>> /\ ~ (i < Len(ms) /\ ms[i + 1].role = "user")) <=> i \in W
    BY <1>1, <1>5
  <2>3. PICK tt : tt = [i \in DOMAIN ms |->
          IF after[i] # <<>> /\ ~ (i < Len(ms) /\ ms[i + 1].role = "user")
          THEN <<IF i > 1 /\ ms[i].role = "user" THEN Msg("user", ms[i].blocks \o after[i - 1]) ELSE ms[i],
                 Msg("user", after[i])>>
          ELSE <<IF i > 1 /\ ms[i].role = "user" THEN Msg("user", ms[i].blocks \o after[i - 1]) ELSE ms[i]>>]
    OBVIOUS
  <2>4. tt = ss
    <3>1. \A i \in 1..n : tt[i] = ss[i]
      BY <1>2, <1>6, <2>1, <2>2, <2>3
    <3>2. tt = [i \in 1..n |-> tt[i]] /\ ss = [i \in 1..n |-> ss[i]]
      BY <1>2, <1>6, <2>3
    <3> QED BY <3>1, <3>2
  <2>5. r = FlattenSeq(tt)
    BY <2>3 DEF Attach
  <2> QED BY <2>4, <2>5
<1>8. \A i \in 1..n : Joins(ms, after, i, J[i])
  BY <1>3 DEF Joins
<1>9. /\ \A i \in 1..n : J[i] \in Message /\ J[i].role = ms[i].role
      /\ \A i \in 1..n : ms[i].role = "assistant" => J[i] = ms[i]
      /\ \A i \in 1..n : Uses(J[i]) = Uses(ms[i])
      /\ \A i \in 1..n : \A b : b \in ToSet(J[i].blocks) <=>
                 \/ b \in ToSet(ms[i].blocks)
                 \/ i > 1 /\ ms[i].role = "user" /\ b \in ToSet(after[i - 1])
      /\ \A i \in 1..n : J[i].blocks # <<>>
  <2> SUFFICES ASSUME NEW i \in 1..n
               PROVE /\ J[i] \in Message /\ J[i].role = ms[i].role
                     /\ ms[i].role = "assistant" => J[i] = ms[i]
                     /\ Uses(J[i]) = Uses(ms[i])
                     /\ \A b : b \in ToSet(J[i].blocks) <=>
                          \/ b \in ToSet(ms[i].blocks)
                          \/ i > 1 /\ ms[i].role = "user" /\ b \in ToSet(after[i - 1])
                     /\ J[i].blocks # <<>>
    OBVIOUS
  <2>1. PICK m : m = J[i]
    OBVIOUS
  <2>2. Joins(ms, after, i, m) /\ i \in DOMAIN ms /\ ms[i].blocks # <<>>
    BY <1>2, <1>8, <2>1 DEF NoEmptyMessage
  <2> QED BY <2>1, <2>2, JoinsIs
<1>10. /\ \A i \in W : /\ i \in 1..n /\ ms[i].role = "assistant" /\ after[i] # <<>>
                       /\ V[i] \in Message /\ V[i].role = "user" /\ V[i].blocks = after[i]
       /\ \A i \in 1..n : i + 1 \in 1..n /\ ms[i + 1].role = "user" => i \notin W
       /\ \A i \in 1..n : i \notin W /\ after[i] # <<>> => i + 1 \in 1..n /\ ms[i + 1].role = "user"
  <2>1. \A i \in W : after[i] \in Seq(Entry) /\ ms[i].role = "assistant" /\ i \in 1..n /\ after[i] # <<>>
    BY <1>2, <1>5 DEF Fits
  <2>2. \A i \in W : V[i] = Msg("user", after[i])
    BY <1>4, <2>1
  <2>3. \A i \in W : V[i] \in Message /\ V[i].role = "user" /\ V[i].blocks = after[i]
    BY <2>1, <2>2, MsgIs
  <2>4. \A i \in 1..n : i + 1 \in 1..n <=> i < n
    BY <1>2
  <2> QED BY <1>5, <2>1, <2>3, <2>4
<1>11a. ASSUME NEW i \in 1..n
        PROVE  /\ ss[i] \in Seq(Message)
               /\ Len(ss[i]) = IF i \in W THEN 2 ELSE 1
               /\ ss[i][1] = J[i]
               /\ i \in W => ss[i][2] = V[i]
  <2>1. PICK q, j, v : q = ss[i] /\ j = J[i] /\ v = V[i]
    OBVIOUS
  <2>2. CASE i \in W
    <3>1. q = <<j, v>> /\ j \in Message /\ v \in Message
      BY <1>6, <1>9, <1>10, <2>1, <2>2
    <3>2. q \in Seq(Message) /\ Len(q) = 2 /\ q[1] = j /\ q[2] = v
      BY <3>1
    <3> QED BY <2>1, <2>2, <3>2
  <2>3. CASE i \notin W
    <3>1. q = <<j>> /\ j \in Message
      BY <1>6, <1>9, <2>1, <2>3
    <3>2. q \in Seq(Message) /\ Len(q) = 1 /\ q[1] = j
      BY <3>1
    <3> QED BY <2>1, <2>3, <3>2
  <2> QED BY <2>2, <2>3
<1>11. /\ \A i \in 1..n : Len(ss[i]) \in Nat
       /\ \A i \in 1..n : Len(ss[i]) = IF i \in W THEN 2 ELSE 1
       /\ \A i \in 1..n : ss[i][1] = J[i]
       /\ \A i \in W : ss[i][2] = V[i]
       /\ ss \in [1..n -> Seq(Message)]
  <2>1. ss = [i \in 1..n |-> ss[i]]
    BY <1>6
  <2>2. ss \in [1..n -> Seq(Message)]
    BY <1>11a, <2>1
  <2>3. \A i \in 1..n : Len(ss[i]) = IF i \in W THEN 2 ELSE 1
    BY <1>11a
  <2>4. \A i \in 1..n : Len(ss[i]) \in Nat
    BY <2>3
  <2>5. \A i \in W : i \in 1..n
    BY <1>10
  <2> QED BY <1>11a, <2>2, <2>3, <2>4, <2>5
<1>12. r \in Seq(Message) /\ Len(r) \in Nat /\ DOMAIN r = 1..Len(r)
  <2>1. r \in Seq(Message)
    BY <1>2, <1>7, <1>11, FlattenLaid
  <2> QED BY <2>1
<1>13. PICK at : Laid(ss, n, r, at)
  BY <1>2, <1>7, <1>11, FlattenLaid
<1>14. /\ \A k \in 1..Len(r) : \E i \in 1..n : \E j \in 1..Len(ss[i]) : k = at[i - 1] + j /\ r[k] = ss[i][j]
       /\ \A i \in 1..n : \A j \in 1..Len(ss[i]) : at[i - 1] + j \in 1..Len(r) /\ r[at[i - 1] + j] = ss[i][j]
  <2>1. \A i \in 1..n : Len(ss[i]) \in Nat
    BY <1>11
  <2>2. Len(r) \in Nat
    BY <1>12
  <2>3. Tiled(ss, n, r, at)
    BY <1>2, <1>13, <2>1, <2>2, LaidAt
  <2> QED BY <2>3 DEF Tiled
<1>15. /\ \A i \in 0..n : at[i] \in Nat
       /\ \A i \in 1..n : at[i] = at[i - 1] + Len(ss[i])
       /\ Len(r) = at[n]
  BY <1>13 DEF Laid
<1>16. \A i \in 1..n : 1 \in 1..Len(ss[i]) /\ (i \in W => 2 \in 1..Len(ss[i]))
  BY <1>11
<1>17. \A k \in DOMAIN r : \/ \E i \in 1..n : k = at[i - 1] + 1 /\ r[k] = J[i]
                           \/ \E i \in W : k = at[i - 1] + 2 /\ r[k] = V[i]
  <2> SUFFICES ASSUME NEW k \in DOMAIN r
               PROVE  \/ \E i \in 1..n : k = at[i - 1] + 1 /\ r[k] = J[i]
                      \/ \E i \in W : k = at[i - 1] + 2 /\ r[k] = V[i]
    OBVIOUS
  <2>1. PICK i \in 1..n : \E j \in 1..Len(ss[i]) : k = at[i - 1] + j /\ r[k] = ss[i][j]
    BY <1>12, <1>14
  <2>2. PICK j \in 1..Len(ss[i]) : k = at[i - 1] + j /\ r[k] = ss[i][j]
    BY <2>1
  <2>3. j = 1 \/ (j = 2 /\ i \in W)
    <3>1. Len(ss[i]) = IF i \in W THEN 2 ELSE 1
      BY <1>11
    <3>2. CASE i \in W
      <4>1. j \in 1..2
        BY <3>1, <3>2
      <4> QED BY <3>2, <4>1
    <3>3. CASE i \notin W
      <4>1. j \in 1..1
        BY <3>1, <3>3
      <4> QED BY <4>1
    <3> QED BY <3>2, <3>3
  <2>4. CASE j = 1
    BY <1>11, <2>2, <2>4
  <2>5. CASE j = 2 /\ i \in W
    BY <1>11, <2>2, <2>5
  <2> QED BY <2>3, <2>4, <2>5
<1>18. \A i \in 1..n : at[i - 1] + 1 \in DOMAIN r /\ r[at[i - 1] + 1] = J[i]
  BY <1>11, <1>12, <1>14, <1>16
<1>19. \A i \in W : at[i - 1] + 2 \in DOMAIN r /\ r[at[i - 1] + 2] = V[i]
  BY <1>10, <1>11, <1>12, <1>14, <1>16
<1>20. \A i \in W : Uses(V[i]) = {}
  <2>1. \A b : IsResult(b) => b.k # "use"
    BY DEF IsResult
  <2>2. \A i \in W : \A b \in ToSet(V[i].blocks) : IsResult(b) /\ b.n \in Uses(ms[i])
    BY <1>2, <1>10 DEF Fits
  <2>3. \A i \in W : \A x : x \notin Uses(V[i])
    BY <2>1, <2>2, UsesAre
  <2> QED BY <2>3
<1>21. \A i \in 1..n : \A x \in Answers(J[i]) : i > 1 /\ i - 1 \in 1..n /\ x \in Uses(ms[i - 1])
  <2> SUFFICES ASSUME NEW i \in 1..n, NEW x \in Answers(J[i]) PROVE i > 1 /\ i - 1 \in 1..n /\ x \in Uses(ms[i - 1])
    OBVIOUS
  <2>1. PICK b \in ToSet(J[i].blocks) : IsResult(b) /\ b.n = x
    BY AnswersAre
  <2>2. CASE b \in ToSet(ms[i].blocks)
    <3>1. x \in Answers(ms[i])
      BY <2>1, <2>2, AnswersAre
    <3>2. i # 1 /\ x \in Uses(ms[i - 1])
      BY <1>2, <3>1 DEF Placed
    <3> QED BY <1>2, <3>2
  <2>3. CASE i > 1 /\ ms[i].role = "user" /\ b \in ToSet(after[i - 1])
    <3>1. i - 1 \in DOMAIN ms
      BY <1>2, <2>3
    <3> QED BY <1>2, <2>1, <2>3, <3>1 DEF Fits
  <2> QED BY <1>9, <2>1, <2>2, <2>3
<1>22. Proper(r)
  <2>1. ASSUME NEW k \in DOMAIN r
        PROVE  (r[k].role = "user" => Uses(r[k]) = {}) /\ (r[k].role = "assistant" => Answers(r[k]) = {})
    <3>1. CASE \E i \in 1..n : k = at[i - 1] + 1 /\ r[k] = J[i]
      <4>1. PICK i \in 1..n : k = at[i - 1] + 1 /\ r[k] = J[i]
        BY <3>1
      <4>2. PICK m : m = ms[i]
        OBVIOUS
      <4>3. m.role = "user" => Uses(m) = {}
        BY <1>0, <1>2, <4>2
      <4>4. m.role = "assistant" => Answers(m) = {}
        BY <1>0, <1>2, <4>2
      <4>5. r[k].role = m.role /\ Uses(r[k]) = Uses(m) /\ (m.role = "assistant" => r[k] = m)
        BY <1>9, <4>1, <4>2
      <4> QED BY <4>3, <4>4, <4>5
    <3>2. CASE \E i \in W : k = at[i - 1] + 2 /\ r[k] = V[i]
      <4>1. PICK i \in W : k = at[i - 1] + 2 /\ r[k] = V[i]
        BY <3>2
      <4> QED BY <1>10, <1>20, <4>1
    <3> QED BY <1>17, <3>1, <3>2
  <2> QED BY <1>12, <2>1 DEF Proper
<1>23. NoEmptyMessage(r)
  <2>1. ASSUME NEW k \in DOMAIN r PROVE r[k].blocks # <<>>
    <3>1. CASE \E i \in 1..n : k = at[i - 1] + 1 /\ r[k] = J[i]
      BY <1>9, <3>1
    <3>2. CASE \E i \in W : k = at[i - 1] + 2 /\ r[k] = V[i]
      BY <1>10, <3>2
    <3> QED BY <1>17, <3>1, <3>2
  <2> QED BY <2>1 DEF NoEmptyMessage
<1>24. Apart(ms) => Apart(r)
  <2> SUFFICES ASSUME Apart(ms), NEW k \in DOMAIN r, NEW l \in DOMAIN r, k # l,
                      NEW x \in Uses(r[k]), x \in Uses(r[l])
               PROVE  FALSE
    BY DEF Apart
  <2>1. PICK i \in 1..n : k = at[i - 1] + 1 /\ r[k] = J[i]
    BY <1>17, <1>20
  <2>2. PICK j \in 1..n : l = at[j - 1] + 1 /\ r[l] = J[j]
    BY <1>17, <1>20
  <2>3. i # j
    BY <2>1, <2>2
  <2>4. x \in Uses(ms[i]) /\ x \in Uses(ms[j])
    BY <1>9, <2>1, <2>2
  <2> QED BY <1>2, <2>3, <2>4 DEF Apart
<1>25. EndsWithUser(ms) => EndsWithUser(r)
  <2> SUFFICES ASSUME EndsWithUser(ms) PROVE EndsWithUser(r)
    OBVIOUS
  <2>1. n \in 1..n /\ ms[n].role = "user"
    BY <1>1, <1>2 DEF EndsWithUser
  <2>2. PICK b \in ToSet(ms[n].blocks) : ~ IsResult(b)
    BY <1>1 DEF EndsWithUser
  <2>3. n \notin W
    BY <1>10, <2>1
  <2>4. PICK a, c : a = at[n - 1] /\ c = at[n]
    OBVIOUS
  <2>5. c = a + 1 /\ Len(r) = c
    BY <1>11, <1>15, <2>1, <2>3, <2>4
  <2>6. r[Len(r)] = J[n] /\ Len(r) \in DOMAIN r
    BY <1>18, <2>1, <2>4, <2>5
  <2>7. r[Len(r)].role = "user" /\ b \in ToSet(r[Len(r)].blocks)
    BY <1>9, <2>1, <2>2, <2>6
  <2>8. r # <<>>
    BY <2>6
  <2> QED BY <2>2, <2>7, <2>8 DEF EndsWithUser
<1>26. Placed(r)
  <2> SUFFICES ASSUME NEW k \in DOMAIN r, NEW x \in Answers(r[k]) PROVE k # 1 /\ x \in Uses(r[k - 1])
    BY DEF Placed
  <2>1. CASE \E i \in W : k = at[i - 1] + 2 /\ r[k] = V[i]
    <3>1. PICK i \in W : k = at[i - 1] + 2 /\ r[k] = V[i]
      BY <2>1
    <3>2. PICK b \in ToSet(V[i].blocks) : IsResult(b) /\ b.n = x
      BY <3>1, AnswersAre
    <3>3. x \in Uses(ms[i]) /\ i \in 1..n
      BY <1>2, <1>10, <3>2 DEF Fits
    <3>4. PICK a : a = at[i - 1]
      OBVIOUS
    <3>5. i - 1 \in 0..n
      BY <1>2, <3>3
    <3>6. a \in Nat
      BY <1>15, <3>4, <3>5
    <3>7. k # 1 /\ k - 1 = a + 1
      BY <3>1, <3>4, <3>6
    <3>8. r[a + 1] = J[i]
      BY <1>18, <3>3, <3>4
    <3> QED BY <1>9, <3>3, <3>7, <3>8
  <2>2. CASE \E i \in 1..n : k = at[i - 1] + 1 /\ r[k] = J[i]
    <3>1. PICK i \in 1..n : k = at[i - 1] + 1 /\ r[k] = J[i]
      BY <2>2
    <3>2. i > 1 /\ i - 1 \in 1..n /\ x \in Uses(ms[i - 1])
      BY <1>21, <3>1
    <3>3. PICK h : h = i - 1
      OBVIOUS
    <3>4. h \in 1..n /\ h + 1 = i /\ x \in Uses(ms[h])
      BY <1>2, <3>2, <3>3
    <3>5. ms[i].role = "user"
      <4>1. PICK m : m = ms[i]
        OBVIOUS
      <4>2. m.role \in {"user", "assistant"} /\ (m.role = "assistant" => Answers(m) = {})
        BY <1>0, <1>2, <4>1
      <4>3. m.role = "assistant" => J[i] = m
        BY <1>9, <4>1
      <4> QED BY <3>1, <4>1, <4>2, <4>3
    <3>6. h \notin W
      BY <1>10, <3>4, <3>5
    <3>7. PICK a, c : a = at[h - 1] /\ c = at[h]
      OBVIOUS
    <3>8. h - 1 \in 0..n
      BY <1>2, <3>4
    <3>9. a \in Nat /\ c = a + 1
      BY <1>11, <1>15, <3>4, <3>6, <3>7, <3>8
    <3>10. k = c + 1
      BY <3>1, <3>3, <3>7
    <3>11. k # 1 /\ k - 1 = a + 1
      BY <3>9, <3>10
    <3>12. r[a + 1] = J[h]
      BY <1>18, <3>4, <3>7
    <3> QED BY <1>9, <3>4, <3>11, <3>12
  <2> QED BY <1>17, <2>1, <2>2
<1>27. ASSUME NEW b
       PROVE  b \in Blocks(r) <=> b \in Blocks(ms) \/ \E i \in DOMAIN ms : b \in ToSet(after[i])
  <2>1. ASSUME NEW k \in DOMAIN r, b \in ToSet(r[k].blocks)
        PROVE  b \in Blocks(ms) \/ \E i \in DOMAIN ms : b \in ToSet(after[i])
    <3>1. CASE \E i \in 1..n : k = at[i - 1] + 1 /\ r[k] = J[i]
      <4>1. PICK i \in 1..n : r[k] = J[i]
        BY <3>1
      <4>2. CASE b \in ToSet(ms[i].blocks)
        BY <1>2, <4>2, BlocksAre
      <4>3. CASE i > 1 /\ ms[i].role = "user" /\ b \in ToSet(after[i - 1])
        <5>1. i - 1 \in DOMAIN ms
          BY <1>2, <4>3
        <5> QED BY <4>3, <5>1
      <4> QED BY <1>9, <2>1, <4>1, <4>2, <4>3
    <3>2. CASE \E i \in W : k = at[i - 1] + 2 /\ r[k] = V[i]
      BY <1>2, <1>10, <2>1, <3>2
    <3> QED BY <1>17, <3>1, <3>2
  <2>2. ASSUME NEW i \in DOMAIN ms, b \in ToSet(ms[i].blocks)
        PROVE  \E k \in DOMAIN r : b \in ToSet(r[k].blocks)
    <3>1. b \in ToSet(J[i].blocks)
      BY <1>2, <1>9, <2>2
    <3> QED BY <1>2, <1>18, <3>1
  <2>3. ASSUME NEW i \in DOMAIN ms, b \in ToSet(after[i])
        PROVE  \E k \in DOMAIN r : b \in ToSet(r[k].blocks)
    <3>1. after[i] # <<>>
      <4>1. after[i] \in Seq(Entry)
        BY DEF Fits
      <4> QED BY <2>3, <4>1, NotEmptyHas
    <3>2. CASE i \in W
      BY <1>10, <1>19, <2>3, <3>2
    <3>3. CASE i \notin W
      <4>1. i + 1 \in 1..n /\ ms[i + 1].role = "user"
        BY <1>2, <1>10, <3>1, <3>3
      <4>2. PICK h : h = i + 1
        OBVIOUS
      <4>3. h \in 1..n /\ h > 1 /\ h - 1 = i /\ ms[h].role = "user"
        BY <1>2, <4>1, <4>2
      <4>4. b \in ToSet(J[h].blocks)
        BY <1>9, <2>3, <4>3
      <4> QED BY <1>18, <4>3, <4>4
    <3> QED BY <3>2, <3>3
  <2>4. b \in Blocks(r) => b \in Blocks(ms) \/ \E i \in DOMAIN ms : b \in ToSet(after[i])
    BY <2>1, BlocksAre
  <2>5. b \in Blocks(ms) => b \in Blocks(r)
    BY <2>2, BlocksAre
  <2>6. (\E i \in DOMAIN ms : b \in ToSet(after[i])) => b \in Blocks(r)
    BY <2>3, BlocksAre
  <2> QED BY <2>4, <2>5, <2>6
<1> QED BY <1>22, <1>23, <1>24, <1>25, <1>26, <1>27 DEF Sound
-----------------------------------------------------------------------------
(* The least and the largest of some positions.                            *)
LEMMA LeastOf ==
    ASSUME NEW n \in Nat, NEW S, S \subseteq 1..n, S # {}
    PROVE  \E i \in S : \A j \in S : i <= j
<1> DEFINE R == OpToRel(<, Nat)
<1>1. IsWellFoundedOn(R, Nat)
  BY NatLessThanWellFounded
<1>2. S \subseteq Nat /\ S # {}
  OBVIOUS
<1>3. PICK i \in S : \A j \in S : ~ (<<j, i>> \in R)
  <2> HIDE DEF R
  <2> QED BY <1>1, <1>2, WFMin
<1>4. \A j \in S : ~ (j < i)
  BY <1>2, <1>3 DEF OpToRel
<1> QED BY <1>2, <1>4

(* A set of positions that is not empty has a largest member.              *)
LEMMA LargestOf ==
    ASSUME NEW n \in Nat, NEW S, S \subseteq 1..n, S # {}
    PROVE  \E i \in S : \A j \in S : j <= i
<1> DEFINE T == {n + 1 - k : k \in S}
<1>1. T \subseteq 1..n /\ T # {}
  <2>1. \A k \in S : n + 1 - k \in 1..n
    OBVIOUS
  <2>2. \A t \in T : t \in 1..n
    BY <2>1
  <2>3. PICK k : k \in S
    OBVIOUS
  <2>4. n + 1 - k \in T
    BY <2>3
  <2> HIDE DEF T
  <2> QED BY <2>2, <2>4
<1>2. PICK t \in T : \A u \in T : t <= u
  <2> HIDE DEF T
  <2> QED BY <1>1, LeastOf
<1>3. PICK i \in S : t = n + 1 - i
  OBVIOUS
<1>4. ASSUME NEW j \in S PROVE j <= i
  <2>1. n + 1 - j \in T
    OBVIOUS
  <2>2. t <= n + 1 - j
    BY <1>2, <2>1
  <2> QED BY <1>3, <2>2
<1> QED BY <1>4

-----------------------------------------------------------------------------
(* Phases 1 and 2: the results of unknown calls are gone.                  *)
LEMMA CleanIs ==
    ASSUME NEW ms, Proper(ms), NEW r, r = Clean(ms)
    PROVE  /\ Sound(ms, r)
           /\ \A b : b \in Blocks(r) <=> b \in Blocks(ms) /\ Known(ms, b)
<1>0. DOMAIN ms = 1..Len(ms) /\ Len(ms) \in Nat
  BY ProperFacts
<1>1. PICK stay : stay = [i \in DOMAIN ms |-> {j \in DOMAIN ms[i].blocks : Known(ms, ms[i].blocks[j])}]
  OBVIOUS
<1>2. r = DropEmpty(PickBlocks(ms, stay))
  BY <1>1 DEF Clean
<1>3. \A i \in DOMAIN ms : \A j \in DOMAIN ms[i].blocks : j \in stay[i] <=> Known(ms, ms[i].blocks[j])
  BY <1>1
<1>4. /\ Proper(r) /\ NoEmptyMessage(r)
      /\ Apart(ms) => Apart(r)
      /\ \A b : b \in Blocks(r) <=>
            \E i \in DOMAIN ms : \E j \in DOMAIN ms[i].blocks : j \in stay[i] /\ b = ms[i].blocks[j]
      /\ EndsWithUser(ms) /\ (\A j \in DOMAIN ms[Len(ms)].blocks :
                                 ~ IsResult(ms[Len(ms)].blocks[j]) => j \in stay[Len(ms)])
         => EndsWithUser(r)
  <2>1. Thins(ms, stay, r)
    BY <1>2, DroppedIs
  <2> QED BY <2>1 DEF Thins
<1>5. EndsWithUser(ms) => EndsWithUser(r)
  <2> SUFFICES ASSUME EndsWithUser(ms) PROVE EndsWithUser(r)
    OBVIOUS
  <2>1. Len(ms) \in DOMAIN ms
    BY <1>0 DEF EndsWithUser
  <2>2. \A j \in DOMAIN ms[Len(ms)].blocks : ~ IsResult(ms[Len(ms)].blocks[j]) => j \in stay[Len(ms)]
    BY <1>3, <2>1 DEF Known
  <2> QED BY <1>4, <2>2
<1>6. ASSUME NEW b PROVE b \in Blocks(r) <=> b \in Blocks(ms) /\ Known(ms, b)
  <2>1. ASSUME b \in Blocks(r) PROVE b \in Blocks(ms) /\ Known(ms, b)
    <3>1. PICK i \in DOMAIN ms : \E j \in DOMAIN ms[i].blocks : j \in stay[i] /\ b = ms[i].blocks[j]
      BY <1>4, <2>1
    <3>2. PICK j \in DOMAIN ms[i].blocks : j \in stay[i] /\ b = ms[i].blocks[j]
      BY <3>1
    <3>3. b \in ToSet(ms[i].blocks)
      BY <3>2 DEF ToSet
    <3> QED BY <1>3, <3>2, <3>3, BlocksAre
  <2>2. ASSUME b \in Blocks(ms), Known(ms, b) PROVE b \in Blocks(r)
    <3>1. PICK i \in DOMAIN ms : b \in ToSet(ms[i].blocks)
      BY <2>2, BlocksAre
    <3>2. PICK j \in DOMAIN ms[i].blocks : b = ms[i].blocks[j]
      BY <3>1 DEF ToSet
    <3>3. j \in stay[i]
      BY <1>3, <2>2, <3>2
    <3> QED BY <1>4, <3>2, <3>3
  <2> QED BY <2>1, <2>2
<1> QED BY <1>4, <1>5, <1>6 DEF Sound

-----------------------------------------------------------------------------
(* The home of a call is the last message that makes it.                   *)
LEMMA HomeIs ==
    ASSUME NEW ms, Proper(ms), NEW x \in UseIds(ms), NEW h, h = Home(ms, x)
    PROVE  /\ h \in DOMAIN ms /\ ms[h].role = "assistant" /\ x \in Uses(ms[h])
           /\ h # 0
           /\ \A i \in DOMAIN ms : x \in Uses(ms[i]) => i <= h
<1>0. /\ Len(ms) \in Nat /\ DOMAIN ms = 1..Len(ms)
      /\ \A i \in DOMAIN ms : ms[i].role \in {"user", "assistant"}
      /\ \A i \in DOMAIN ms : ms[i].role = "user" => Uses(ms[i]) = {}
  BY ProperFacts
<1>1. PICK at : at = {i \in DOMAIN ms : ms[i].role = "assistant" /\ x \in Uses(ms[i])}
  OBVIOUS
<1>2. \A i \in DOMAIN ms : i \in at <=> x \in Uses(ms[i])
  BY <1>0, <1>1
<1>3. at # {} /\ at \subseteq 1..Len(ms)
  BY <1>0, <1>1, <1>2, IdsAre
<1>4. \E i \in at : \A j \in at : j <= i
  BY <1>0, <1>3, LargestOf
<1>5. h = CHOOSE i \in at : \A j \in at : j <= i
  BY <1>1, <1>3 DEF Home
<1>6. h \in at /\ \A j \in at : j <= h
  BY <1>4, <1>5
<1> QED BY <1>0, <1>1, <1>2, <1>6
-----------------------------------------------------------------------------
(* A result that moves behind message a.                                   *)
MovesTo(ms, a, b) ==
    \E i \in DOMAIN ms : \E j \in DOMAIN ms[i].blocks :
       /\ Misplaced(ms, i, ms[i].blocks[j]) /\ Home(ms, ms[i].blocks[j].n) = a
       /\ b = ms[i].blocks[j]

(* What the reordering attaches to what it leaves.                         *)
Reordered(ms, r, stay, L, I, K, A, f) ==
    /\ \A i \in DOMAIN ms : \A j \in DOMAIN ms[i].blocks :
          j \in stay[i] <=> ~ Misplaced(ms, i, ms[i].blocks[j])
    /\ L = PickBlocks(ms, stay)
    /\ I = {i \in DOMAIN L : L[i].blocks # <<>>}
    /\ K \in Seq(Message) /\ Chosen(L, I, K, f)
    /\ \A k \in DOMAIN K : A[k] \in Seq(Entry)
    /\ \A k \in DOMAIN K : \A b : b \in ToSet(A[k]) <=> MovesTo(ms, f[k], b)
    /\ r = Attach(K, A)

(* reorder_tool_results unfolds into these parts.                          *)
LEMMA ReorderShape ==
    ASSUME NEW ms, Proper(ms), NEW r, r = Reorder(ms)
    PROVE  \E stay, L, I, K, A, f : Reordered(ms, r, stay, L, I, K, A, f)
<1>0. /\ ms \in Seq(Message) /\ Len(ms) \in Nat /\ DOMAIN ms = 1..Len(ms)
      /\ \A i \in DOMAIN ms : ms[i] \in Message
      /\ \A i \in DOMAIN ms : ms[i].role \in {"user", "assistant"}
      /\ \A i \in DOMAIN ms : ms[i].role = "user" => Uses(ms[i]) = {}
      /\ \A i \in DOMAIN ms : ms[i].role = "assistant" => Answers(ms[i]) = {}
  BY ProperFacts
<1>1. PICK n : n = Len(ms)
  OBVIOUS
<1>2. n \in Nat /\ DOMAIN ms = 1..n
  BY <1>0, <1>1
<1>3. PICK stay : stay = [i \in DOMAIN ms |-> DOMAIN ms[i].blocks \
                              {j \in DOMAIN ms[i].blocks : Misplaced(ms, i, ms[i].blocks[j])}]
  OBVIOUS
<1>4. PICK L : L = PickBlocks(ms, stay)
  OBVIOUS
<1>5. PICK MV : MV = [a \in DOMAIN ms |-> FlattenSeq([i \in DOMAIN ms |->
          Pick(ms[i].blocks, {j \in {l \in DOMAIN ms[i].blocks : Misplaced(ms, i, ms[i].blocks[l])} :
                                Home(ms, ms[i].blocks[j].n) = a})])]
  OBVIOUS
<1>6. PICK P : P = [i \in DOMAIN ms |-> [m |-> L[i], after |-> MV[i]]]
  OBVIOUS
<1>7. PICK I : I = {i \in DOMAIN ms : L[i].blocks # <<>>}
  OBVIOUS
<1>8. PICK Q : Q = Pick(P, I)
  OBVIOUS
<1>9. PICK K, A : K = [i \in DOMAIN Q |-> Q[i].m] /\ A = [i \in DOMAIN Q |-> Q[i].after]
  OBVIOUS
<1>10. r = Attach(K, A)
  <2>1. PICK Y : Y = [i \in DOMAIN ms |-> [m |-> L[i], after |->
           FlattenSeq([h \in DOMAIN ms |->
             Pick(ms[h].blocks, {j \in {l \in DOMAIN ms[h].blocks : Misplaced(ms, h, ms[h].blocks[l])} :
                                   Home(ms, ms[h].blocks[j].n) = i})])]]
    OBVIOUS
  <2>2. \A i \in DOMAIN ms : MV[i] = FlattenSeq([h \in DOMAIN ms |->
             Pick(ms[h].blocks, {j \in {l \in DOMAIN ms[h].blocks : Misplaced(ms, h, ms[h].blocks[l])} :
                                   Home(ms, ms[h].blocks[j].n) = i})])
    BY <1>5
  <2>3. \A i \in DOMAIN ms : Y[i] = P[i]
    BY <1>6, <2>1, <2>2
  <2>4. Y = [i \in DOMAIN ms |-> Y[i]] /\ P = [i \in DOMAIN ms |-> P[i]]
    BY <1>6, <2>1
  <2>5. Y = P
    BY <2>3, <2>4
  <2>6. Q = Pick(Y, I)
    BY <1>8, <2>5
  <2>7. r = Attach(K, A)
    BY <1>3, <1>4, <1>7, <1>9, <2>1, <2>6 DEF Reorder
  <2> QED BY <2>7
<1>11. \A i \in DOMAIN ms : \A j \in DOMAIN ms[i].blocks :
          j \in stay[i] <=> ~ Misplaced(ms, i, ms[i].blocks[j])
  BY <1>3
<1>12. /\ \A a \in DOMAIN ms : MV[a] \in Seq(Entry)
       /\ \A a \in DOMAIN ms : \A b : b \in ToSet(MV[a]) <=> MovesTo(ms, a, b)
  <2> SUFFICES ASSUME NEW a \in DOMAIN ms
               PROVE /\ MV[a] \in Seq(Entry)
                     /\ \A b : b \in ToSet(MV[a]) <=> MovesTo(ms, a, b)
    OBVIOUS
  <2>1. PICK J : J = [i \in DOMAIN ms |-> {j \in {l \in DOMAIN ms[i].blocks : Misplaced(ms, i, ms[i].blocks[l])} :
                                             Home(ms, ms[i].blocks[j].n) = a}]
    OBVIOUS
  <2>2. PICK S : S = [i \in DOMAIN ms |-> Pick(ms[i].blocks, J[i])]
    OBVIOUS
  <2>3. MV[a] = FlattenSeq(S)
    <3>1. PICK Z : Z = [i \in DOMAIN ms |->
             Pick(ms[i].blocks, {j \in {l \in DOMAIN ms[i].blocks : Misplaced(ms, i, ms[i].blocks[l])} :
                                   Home(ms, ms[i].blocks[j].n) = a})]
      OBVIOUS
    <3>2. \A i \in DOMAIN ms : Z[i] = S[i]
      BY <2>1, <2>2, <3>1
    <3>3. Z = [i \in DOMAIN ms |-> Z[i]] /\ S = [i \in DOMAIN ms |-> S[i]]
      BY <2>2, <3>1
    <3>4. MV[a] = FlattenSeq(Z)
      BY <1>5, <3>1
    <3> QED BY <3>2, <3>3, <3>4
  <2>4. \A i \in DOMAIN ms : ms[i].blocks \in Seq(Entry)
    BY <1>0, MessageFacts
  <2>5. \A i \in DOMAIN ms : S[i] \in Seq(Entry)
    <3> SUFFICES ASSUME NEW i \in DOMAIN ms PROVE S[i] \in Seq(Entry)
      OBVIOUS
    <3>1. PICK bs, k : bs = ms[i].blocks /\ k = J[i]
      OBVIOUS
    <3>2. bs \in Seq(Entry)
      BY <2>4, <3>1
    <3>3. Pick(bs, k) \in Seq(Entry)
      BY <3>2, PickIs
    <3> QED BY <2>2, <3>1, <3>3
  <2>6. S \in [1..n -> Seq(Entry)]
    <3>1. S = [i \in 1..n |-> S[i]]
      BY <1>2, <2>2
    <3> QED BY <1>2, <2>5, <3>1
  <2>7. MV[a] \in Seq(Entry)
    BY <1>2, <2>3, <2>6, FlattenLaid
  <2>8. \A b : b \in ToSet(MV[a]) <=> \E i \in 1..n : b \in ToSet(S[i])
    BY <1>2, <2>3, <2>6, FlattenElements
  <2>9. ASSUME NEW i \in DOMAIN ms, NEW b
        PROVE  b \in ToSet(S[i]) <=> \E j \in DOMAIN ms[i].blocks :
                  /\ Misplaced(ms, i, ms[i].blocks[j]) /\ Home(ms, ms[i].blocks[j].n) = a
                  /\ b = ms[i].blocks[j]
    <3>1. PICK bs, k : bs = ms[i].blocks /\ k = J[i]
      OBVIOUS
    <3>2. bs \in Seq(Entry)
      BY <2>4, <3>1
    <3>3. \A x : x \in ToSet(Pick(bs, k)) <=> \E j \in DOMAIN bs : j \in k /\ x = bs[j]
      BY <3>2, PickElements
    <3>4. S[i] = Pick(bs, k)
      BY <2>2, <3>1
    <3>5. \A j \in DOMAIN bs : j \in k <=> Misplaced(ms, i, bs[j]) /\ Home(ms, bs[j].n) = a
      BY <2>1, <3>1
    <3>6. b \in ToSet(S[i]) <=> \E j \in DOMAIN bs : Misplaced(ms, i, bs[j]) /\ Home(ms, bs[j].n) = a /\ b = bs[j]
      BY <3>3, <3>4, <3>5
    <3> QED BY <3>1, <3>6
  <2>10. ASSUME NEW b PROVE b \in ToSet(MV[a]) <=> MovesTo(ms, a, b)
    <3>1. b \in ToSet(MV[a]) <=> \E i \in DOMAIN ms : b \in ToSet(S[i])
      BY <1>2, <2>8
    <3> QED BY <2>9, <3>1 DEF MovesTo
  <2> QED BY <2>7, <2>10
<1>13. Stays(ms, stay, L)
  BY <1>0, <1>4, PickBlocksIs
<1>14. /\ L \in Seq(Message) /\ Len(L) = n /\ DOMAIN L = DOMAIN ms
       /\ \A i \in DOMAIN ms : L[i] \in Message /\ L[i].role = ms[i].role
       /\ \A i \in DOMAIN ms : \A b : b \in ToSet(L[i].blocks) <=>
                       \E j \in DOMAIN ms[i].blocks : j \in stay[i] /\ b = ms[i].blocks[j]
  <2>1. /\ L \in Seq(Message) /\ Len(L) = Len(ms) /\ DOMAIN L = DOMAIN ms
        /\ \A i \in DOMAIN ms : L[i].role = ms[i].role
        /\ \A i \in DOMAIN ms : \A b : b \in ToSet(L[i].blocks) <=>
                       \E j \in DOMAIN ms[i].blocks : j \in stay[i] /\ b = ms[i].blocks[j]
    BY <1>13 DEF Stays
  <2>2. \A i \in DOMAIN L : L[i] \in Message
    BY <2>1
  <2> QED BY <1>1, <2>1, <2>2
<1>15. PICK D : D = [m : Message, after : Seq(Entry)]
  OBVIOUS
<1>16. P \in Seq(D)
  <2>1. \A i \in 1..n : P[i] \in D
    BY <1>2, <1>6, <1>12, <1>14, <1>15
  <2>2. P = [i \in 1..n |-> P[i]]
    BY <1>2, <1>6
  <2>3. P \in [1..n -> D]
    BY <2>1, <2>2
  <2> QED BY <1>2, <2>3
<1>17. Q \in Seq(D) /\ \E f : Chosen(P, I, Q, f)
  BY <1>8, <1>16, PickIs
<1>18. PICK f : Chosen(P, I, Q, f)
  BY <1>17
<1>19. /\ Len(Q) \in Nat /\ DOMAIN Q = 1..Len(Q)
       /\ DOMAIN P = DOMAIN ms
  BY <1>6, <1>17
<1>20. /\ f \in [1..Len(Q) -> DOMAIN ms]
       /\ \A k \in 1..Len(Q) : f[k] \in I /\ Q[k] = P[f[k]]
       /\ \A j, k \in 1..Len(Q) : j < k => f[j] < f[k]
       /\ \A i \in DOMAIN ms : i \in I => \E k \in 1..Len(Q) : f[k] = i
  BY <1>18, <1>19 DEF Chosen
<1>21. \A k \in 1..Len(Q) : f[k] \in DOMAIN ms /\ K[k] = L[f[k]] /\ A[k] = MV[f[k]]
  <2> SUFFICES ASSUME NEW k \in 1..Len(Q) PROVE f[k] \in DOMAIN ms /\ K[k] = L[f[k]] /\ A[k] = MV[f[k]]
    OBVIOUS
  <2>1. PICK i : i = f[k]
    OBVIOUS
  <2>2. i \in DOMAIN ms /\ Q[k] = P[i]
    BY <1>20, <2>1
  <2>3. Q[k] = [m |-> L[i], after |-> MV[i]]
    BY <1>6, <2>2
  <2>4. Q[k].m = L[i] /\ Q[k].after = MV[i]
    BY <2>3
  <2>5. k \in DOMAIN Q
    BY <1>19
  <2> QED BY <1>9, <2>1, <2>2, <2>4, <2>5
<1>22. K \in Seq(Message) /\ Len(K) = Len(Q) /\ DOMAIN K = 1..Len(Q)
  <2>1. PICK q : q = Len(Q)
    OBVIOUS
  <2>2. \A k \in 1..q : K[k] \in Message
    BY <1>14, <1>21, <2>1
  <2>3. K = [k \in 1..q |-> K[k]]
    BY <1>9, <1>19, <2>1
  <2>4. K \in [1..q -> Message] /\ q \in Nat
    BY <1>19, <2>1, <2>2, <2>3
  <2>5. K \in Seq(Message) /\ Len(K) = q /\ DOMAIN K = 1..q
    BY <2>4
  <2> QED BY <2>1, <2>5
<1>23. Chosen(L, I, K, f)
  BY <1>14, <1>20, <1>21, <1>22 DEF Chosen
<1>24. I = {i \in DOMAIN L : L[i].blocks # <<>>}
  BY <1>7, <1>14
<1>25. \A k \in DOMAIN K : A[k] \in Seq(Entry) /\ \A b : b \in ToSet(A[k]) <=> MovesTo(ms, f[k], b)
  <2> SUFFICES ASSUME NEW k \in DOMAIN K
               PROVE  A[k] \in Seq(Entry) /\ \A b : b \in ToSet(A[k]) <=> MovesTo(ms, f[k], b)
    OBVIOUS
  <2>1. PICK a : a = f[k]
    OBVIOUS
  <2>2. a \in DOMAIN ms /\ A[k] = MV[a]
    BY <1>21, <1>22, <2>1
  <2> QED BY <1>12, <2>1, <2>2
<1>26. K \in Seq(Message)
  BY <1>22
<1>27. Reordered(ms, r, stay, L, I, K, A, f)
  BY <1>4, <1>10, <1>11, <1>23, <1>24, <1>25, <1>26 DEF Reordered
<1> QED BY <1>27

(* Phase 2b: the results stand behind the last message with their call.    *)
LEMMA ReorderIs ==
    ASSUME NEW ms, Proper(ms), NoEmptyMessage(ms), ResultIds(ms) \subseteq UseIds(ms),
           NEW r, r = Reorder(ms)
    PROVE  Sound(ms, r) /\ Placed(r) /\ \A b : b \in Blocks(r) <=> b \in Blocks(ms)
<1>0. /\ ms \in Seq(Message) /\ Len(ms) \in Nat /\ DOMAIN ms = 1..Len(ms)
      /\ \A i \in DOMAIN ms : ms[i] \in Message
      /\ \A i \in DOMAIN ms : ms[i].role \in {"user", "assistant"}
      /\ \A i \in DOMAIN ms : ms[i].role = "user" => Uses(ms[i]) = {}
      /\ \A i \in DOMAIN ms : ms[i].role = "assistant" => Answers(ms[i]) = {}
  BY ProperFacts
<1>1. PICK stay, L, I, K, A, f : Reordered(ms, r, stay, L, I, K, A, f)
  BY ReorderShape
<1>4. /\ L = PickBlocks(ms, stay)
      /\ I = {i \in DOMAIN L : L[i].blocks # <<>>}
      /\ Chosen(L, I, K, f)
      /\ r = Attach(K, A)
  BY <1>1 DEF Reordered
<1>5. K \in Seq(Message) /\ Len(K) \in Nat /\ DOMAIN K = 1..Len(K)
  <2>1. K \in Seq(Message)
    BY <1>1 DEF Reordered
  <2> QED BY <2>1
<1>10. r = Attach(K, A)
  BY <1>4
<1>11. \A i \in DOMAIN ms : \A j \in DOMAIN ms[i].blocks :
          j \in stay[i] <=> ~ Misplaced(ms, i, ms[i].blocks[j])
  BY <1>1 DEF Reordered
<1>12. \A k \in DOMAIN K : A[k] \in Seq(Entry) /\ \A b : b \in ToSet(A[k]) <=> MovesTo(ms, f[k], b)
  BY <1>1 DEF Reordered
<1>13. Stays(ms, stay, L)
  BY <1>0, <1>4, PickBlocksIs
<1>14. /\ L \in Seq(Message) /\ Len(L) = Len(ms) /\ DOMAIN L = DOMAIN ms
       /\ \A i \in DOMAIN ms : L[i] \in Message /\ L[i].role = ms[i].role
       /\ \A i \in DOMAIN ms : \A b : b \in ToSet(L[i].blocks) <=>
                       \E j \in DOMAIN ms[i].blocks : j \in stay[i] /\ b = ms[i].blocks[j]
  <2>1. /\ L \in Seq(Message) /\ Len(L) = Len(ms) /\ DOMAIN L = DOMAIN ms
        /\ \A i \in DOMAIN ms : L[i].role = ms[i].role
        /\ \A i \in DOMAIN ms : \A b : b \in ToSet(L[i].blocks) <=>
                       \E j \in DOMAIN ms[i].blocks : j \in stay[i] /\ b = ms[i].blocks[j]
    BY <1>13 DEF Stays
  <2>2. \A i \in DOMAIN L : L[i] \in Message
    BY <2>1
  <2> QED BY <2>1, <2>2
<1>21. \A k \in DOMAIN K : f[k] \in DOMAIN ms /\ f[k] \in I /\ K[k] = L[f[k]]
  BY <1>4, <1>5, <1>14 DEF Chosen
<1>22. \A i \in DOMAIN ms : i \in I => \E k \in DOMAIN K : f[k] = i
  BY <1>4, <1>5, <1>14 DEF Chosen
<1>24. Thins(ms, stay, K)
  BY <1>4, <1>5, ThinnedIs
<1>25. \A i \in DOMAIN ms : \A j \in DOMAIN ms[i].blocks : IsResult(ms[i].blocks[j]) => ms[i].blocks[j].n \in UseIds(ms)
  <2> SUFFICES ASSUME NEW i \in DOMAIN ms, NEW j \in DOMAIN ms[i].blocks, IsResult(ms[i].blocks[j])
               PROVE  ms[i].blocks[j].n \in UseIds(ms)
    OBVIOUS
  <2>1. ms[i].blocks[j] \in ToSet(ms[i].blocks)
    BY DEF ToSet
  <2>2. ms[i].blocks[j].n \in Answers(ms[i])
    BY <2>1, AnswersAre
  <2> QED BY <2>2, IdsAre
<1>26. \A i \in DOMAIN ms : \A j \in DOMAIN ms[i].blocks : ms[i].blocks[j].k = "use" => j \in stay[i]
  <2>1. \A b : b.k = "use" => ~ IsResult(b)
    BY DEF IsResult
  <2> QED BY <1>11, <2>1 DEF Misplaced
<1>27. Placed(K)
  <2>1. ASSUME NEW i \in DOMAIN ms, NEW j \in DOMAIN ms[i].blocks, IsResult(ms[i].blocks[j]), j \in stay[i]
        PROVE  i # 1 /\ ms[i].blocks[j].n \in Uses(ms[i - 1])
    <3>1. PICK b : b = ms[i].blocks[j]
      OBVIOUS
    <3>2. PICK h : h = Home(ms, b.n)
      OBVIOUS
    <3>3. b.n \in UseIds(ms) /\ IsResult(b)
      BY <1>25, <2>1, <3>1
    <3>4. h \in DOMAIN ms /\ b.n \in Uses(ms[h]) /\ h # 0
      BY <3>2, <3>3, HomeIs
    <3>5. ms[i].role = "user"
      <4>1. b \in ToSet(ms[i].blocks)
        BY <3>1 DEF ToSet
      <4>2. b.n \in Answers(ms[i])
        BY <3>3, <4>1, AnswersAre
      <4>3. PICK m : m = ms[i]
        OBVIOUS
      <4>4. m.role \in {"user", "assistant"} /\ (m.role = "assistant" => Answers(m) = {})
        BY <1>0, <4>3
      <4> QED BY <4>2, <4>3, <4>4
    <3>6. ~ Misplaced(ms, i, b)
      BY <1>11, <2>1, <3>1
    <3>7. i = h + 1
      BY <3>2, <3>3, <3>4, <3>5, <3>6 DEF Misplaced
    <3>8. h \in Nat /\ h # 0
      BY <1>0, <3>4
    <3>9. i # 1 /\ i - 1 = h
      BY <3>7, <3>8
    <3> QED BY <3>1, <3>4, <3>9
  <2>2. \A i \in DOMAIN ms : \A j \in DOMAIN ms[i].blocks :
           /\ ms[i].blocks[j].k = "use" => j \in stay[i]
           /\ IsResult(ms[i].blocks[j]) /\ j \in stay[i] => i # 1 /\ ms[i].blocks[j].n \in Uses(ms[i - 1])
    BY <1>26, <2>1
  <2> QED BY <1>24, <2>2 DEF Thins
<1>28. \A a \in DOMAIN ms : \A b : MovesTo(ms, a, b) =>
          /\ IsResult(b) /\ ms[a].role = "assistant" /\ b.n \in Uses(L[a])
          /\ \E i \in DOMAIN ms : b \in ToSet(ms[i].blocks)
  <2> SUFFICES ASSUME NEW a \in DOMAIN ms, NEW b, MovesTo(ms, a, b)
               PROVE  /\ IsResult(b) /\ ms[a].role = "assistant" /\ b.n \in Uses(L[a])
                      /\ \E i \in DOMAIN ms : b \in ToSet(ms[i].blocks)
    OBVIOUS
  <2>1. PICK i \in DOMAIN ms : \E j \in DOMAIN ms[i].blocks :
           /\ Misplaced(ms, i, ms[i].blocks[j]) /\ Home(ms, ms[i].blocks[j].n) = a
           /\ b = ms[i].blocks[j]
    BY DEF MovesTo
  <2>2. PICK j \in DOMAIN ms[i].blocks :
           /\ Misplaced(ms, i, ms[i].blocks[j]) /\ Home(ms, ms[i].blocks[j].n) = a
           /\ b = ms[i].blocks[j]
    BY <2>1
  <2>3. IsResult(b) /\ Home(ms, b.n) = a
    BY <2>2 DEF Misplaced
  <2>4. b.n \in UseIds(ms)
    BY <1>25, <2>2, <2>3
  <2>5. ms[a].role = "assistant" /\ b.n \in Uses(ms[a])
    BY <2>3, <2>4, HomeIs
  <2>6. PICK u \in ToSet(ms[a].blocks) : u.k = "use" /\ u.n = b.n
    BY <2>5, UsesAre
  <2>7. PICK l \in DOMAIN ms[a].blocks : u = ms[a].blocks[l]
    BY <2>6 DEF ToSet
  <2>8. u \in ToSet(L[a].blocks)
    BY <1>14, <1>26, <2>6, <2>7
  <2>9. b.n \in Uses(L[a])
    BY <2>6, <2>8, UsesAre
  <2>10. b \in ToSet(ms[i].blocks)
    BY <2>2 DEF ToSet
  <2> QED BY <2>3, <2>5, <2>9, <2>10
<1>29. Fits(K, A)
  <2> SUFFICES ASSUME NEW k \in DOMAIN K
               PROVE  /\ A[k] \in Seq(Entry)
                      /\ A[k] # <<>> => K[k].role = "assistant"
                      /\ \A b \in ToSet(A[k]) : IsResult(b) /\ b.n \in Uses(K[k])
    BY DEF Fits
  <2>1. PICK a, s, m : a = f[k] /\ s = A[k] /\ m = K[k]
    OBVIOUS
  <2>2. a \in DOMAIN ms /\ m = L[a]
    BY <1>21, <2>1
  <2>3. s \in Seq(Entry) /\ \A b \in ToSet(s) : MovesTo(ms, a, b)
    BY <1>12, <2>1
  <2>4. \A b \in ToSet(s) : IsResult(b) /\ ms[a].role = "assistant" /\ b.n \in Uses(m)
    BY <1>28, <2>2, <2>3
  <2>5. s # <<>> => m.role = "assistant"
    <3> SUFFICES ASSUME s # <<>> PROVE m.role = "assistant"
      OBVIOUS
    <3>1. PICK b \in Entry : b \in ToSet(s)
      BY <2>3, NotEmptyHas
    <3> QED BY <1>14, <2>2, <2>4, <3>1
  <2> QED BY <2>1, <2>3, <2>4, <2>5
<1>30. Proper(K) /\ NoEmptyMessage(K) /\ (Apart(ms) => Apart(K))
  BY <1>24 DEF Thins
<1>31. /\ Sound(K, r) /\ Placed(r)
       /\ \A b : b \in Blocks(r) <=> b \in Blocks(K) \/ \E i \in DOMAIN K : b \in ToSet(A[i])
  BY <1>10, <1>27, <1>29, <1>30, AttachIs
<1>32. EndsWithUser(ms) => EndsWithUser(K)
  <2> SUFFICES ASSUME EndsWithUser(ms) PROVE EndsWithUser(K)
    OBVIOUS
  <2>1. Len(ms) \in DOMAIN ms
    BY <1>0 DEF EndsWithUser
  <2>2. \A j \in DOMAIN ms[Len(ms)].blocks : ~ IsResult(ms[Len(ms)].blocks[j]) => j \in stay[Len(ms)]
    BY <1>11, <2>1 DEF Misplaced
  <2> QED BY <1>24, <2>2 DEF Thins
<1>33. \A b : b \in Blocks(K) <=>
          \E i \in DOMAIN ms : \E j \in DOMAIN ms[i].blocks : j \in stay[i] /\ b = ms[i].blocks[j]
  BY <1>24 DEF Thins
<1>34. ASSUME NEW b PROVE b \in Blocks(r) <=> b \in Blocks(ms)
  <2>1. ASSUME NEW i \in DOMAIN ms, NEW j \in DOMAIN ms[i].blocks, b = ms[i].blocks[j] PROVE b \in Blocks(ms)
    <3>1. b \in ToSet(ms[i].blocks)
      BY <2>1 DEF ToSet
    <3> QED BY <3>1, BlocksAre
  <2>2. b \in Blocks(K) => b \in Blocks(ms)
    BY <1>33, <2>1
  <2>3. ASSUME NEW k \in DOMAIN K, b \in ToSet(A[k]) PROVE b \in Blocks(ms)
    <3>1. PICK a : a = f[k]
      OBVIOUS
    <3>2. a \in DOMAIN ms /\ MovesTo(ms, a, b)
      BY <1>12, <1>21, <2>3, <3>1
    <3> QED BY <1>28, <3>2, BlocksAre
  <2>4. ASSUME b \in Blocks(ms) PROVE b \in Blocks(K) \/ \E k \in DOMAIN K : b \in ToSet(A[k])
    <3>1. PICK i \in DOMAIN ms : b \in ToSet(ms[i].blocks)
      BY <2>4, BlocksAre
    <3>2. PICK j \in DOMAIN ms[i].blocks : b = ms[i].blocks[j]
      BY <3>1 DEF ToSet
    <3>3. CASE j \in stay[i]
      BY <1>33, <3>2, <3>3
    <3>4. CASE j \notin stay[i]
      <4>1. Misplaced(ms, i, b)
        BY <1>11, <3>2, <3>4
      <4>2. PICK a : a = Home(ms, b.n)
        OBVIOUS
      <4>3. IsResult(b)
        BY <4>1 DEF Misplaced
      <4>4. b.n \in UseIds(ms)
        BY <1>25, <3>2, <4>3
      <4>5. a \in DOMAIN ms
        BY <4>2, <4>4, HomeIs
      <4>6. MovesTo(ms, a, b)
        BY <3>2, <4>1, <4>2 DEF MovesTo
      <4>7. b.n \in Uses(L[a])
        BY <1>28, <4>5, <4>6
      <4>8. PICK u \in ToSet(L[a].blocks) : u.k = "use"
        BY <4>7, UsesAre
      <4>9. a \in I
        <5>1. L[a].blocks \in Seq(Entry)
          BY <1>14, <4>5, MessageFacts
        <5>2. L[a].blocks # <<>>
          BY <4>8, <5>1, NotEmptyHas
        <5> QED BY <1>4, <1>14, <4>5, <5>2
      <4>10. PICK k \in DOMAIN K : f[k] = a
        BY <1>22, <4>5, <4>9
      <4> QED BY <1>12, <4>6, <4>10
    <3> QED BY <3>3, <3>4
  <2> QED BY <1>31, <2>2, <2>3, <2>4
<1>35. Sound(ms, r)
  BY <1>30, <1>31, <1>32 DEF Sound
<1> QED BY <1>31, <1>34, <1>35
-----------------------------------------------------------------------------
(* Phase 2c: a call without any result gets a synthetic one.               *)
LEMMA InsertIs ==
    ASSUME NEW ms, Proper(ms), NoEmptyMessage(ms), Placed(ms), NEW r, r = InsertSynthetic(ms)
    PROVE  /\ Sound(ms, r) /\ Placed(r)
           /\ \A b : b \in Blocks(r) <=>
                 b \in Blocks(ms) \/ \E x \in UseIds(ms) : x \notin ResultIds(ms) /\ b = Block("lost", x)
<1>0. /\ Len(ms) \in Nat /\ DOMAIN ms = 1..Len(ms)
      /\ \A i \in DOMAIN ms : ms[i] \in Message
      /\ \A i \in DOMAIN ms : ms[i].role \in {"user", "assistant"}
      /\ \A i \in DOMAIN ms : ms[i].role = "user" => Uses(ms[i]) = {}
  BY ProperFacts
<1>1. PICK J : J = [i \in DOMAIN ms |-> {j \in DOMAIN ms[i].blocks :
                      ms[i].blocks[j].k = "use" /\ ms[i].blocks[j].n \notin ResultIds(ms)}]
  OBVIOUS
<1>2. PICK O : O = [i \in DOMAIN ms |-> Pick(ms[i].blocks, J[i])]
  OBVIOUS
<1>3. PICK F : F = [i \in DOMAIN ms |-> [j \in DOMAIN O[i] |-> Block("lost", O[i][j].n)]]
  OBVIOUS
<1>4. PICK A : A = [i \in DOMAIN ms |-> IF ms[i].role = "assistant" THEN F[i] ELSE <<>>]
  OBVIOUS
<1>5. r = Attach(ms, A)
  <2>1. PICK Z : Z = [i \in DOMAIN ms |-> IF ms[i].role = "assistant" THEN
            [j \in DOMAIN Pick(ms[i].blocks, {j \in DOMAIN ms[i].blocks :
                             ms[i].blocks[j].k = "use" /\ ms[i].blocks[j].n \notin ResultIds(ms)})
             |-> Block("lost", Pick(ms[i].blocks, {l \in DOMAIN ms[i].blocks :
                             ms[i].blocks[l].k = "use" /\ ms[i].blocks[l].n \notin ResultIds(ms)})[j].n)] ELSE <<>>]
    OBVIOUS
  <2>2. \A i \in DOMAIN ms : O[i] = Pick(ms[i].blocks, {j \in DOMAIN ms[i].blocks :
                             ms[i].blocks[j].k = "use" /\ ms[i].blocks[j].n \notin ResultIds(ms)})
    BY <1>1, <1>2
  <2>3. \A i \in DOMAIN ms : Z[i] = IF ms[i].role = "assistant" THEN F[i] ELSE <<>>
    BY <1>3, <2>1, <2>2
  <2>4. Z = [i \in DOMAIN ms |-> Z[i]] /\ A = [i \in DOMAIN ms |-> A[i]]
    BY <1>4, <2>1
  <2>5. \A i \in DOMAIN ms : Z[i] = A[i]
    BY <1>4, <2>3
  <2>6. Z = A
    BY <2>4, <2>5
  <2>7. r = Attach(ms, Z)
    BY <2>1 DEF InsertSynthetic
  <2> QED BY <2>6, <2>7
<1>6. ASSUME NEW i \in DOMAIN ms
      PROVE  /\ F[i] \in Seq(Entry)
             /\ \A b : b \in ToSet(F[i]) <=> \E x \in Uses(ms[i]) : x \notin ResultIds(ms) /\ b = Block("lost", x)
  <2>1. PICK bs, o, k : bs = ms[i].blocks /\ o = O[i] /\ k = J[i]
    OBVIOUS
  <2>2. bs \in Seq(Entry)
    BY <1>0, <2>1, MessageFacts
  <2>3. o = Pick(bs, k)
    BY <1>2, <2>1
  <2>4. o \in Seq(Entry)
    BY <2>2, <2>3, PickIs
  <2>5. \A b : b \in ToSet(o) <=> \E j \in DOMAIN bs : j \in k /\ b = bs[j]
    BY <2>2, <2>3, PickElements
  <2>6. \A j \in DOMAIN bs : j \in k <=> bs[j].k = "use" /\ bs[j].n \notin ResultIds(ms)
    BY <1>1, <2>1
  <2>7. \A b : b \in ToSet(bs) <=> \E j \in DOMAIN bs : b = bs[j]
    BY DEF ToSet
  <2>8. \A b : b \in ToSet(o) <=> b \in ToSet(bs) /\ b.k = "use" /\ b.n \notin ResultIds(ms)
    BY <2>5, <2>6, <2>7
  <2>9. PICK q : q = Len(o)
    OBVIOUS
  <2>10. q \in Nat /\ DOMAIN o = 1..q /\ \A j \in 1..q : o[j] \in Entry
    BY <2>4, <2>9
  <2>11. F[i] = [j \in 1..q |-> Block("lost", o[j].n)]
    BY <1>3, <2>1, <2>10
  <2>12. \A e \in Entry : Block("lost", e.n) \in Entry
    BY DEF Entry, Block, Kinds
  <2>13. \A j \in 1..q : Block("lost", o[j].n) \in Entry
    BY <2>10, <2>12
  <2>14. F[i] \in [1..q -> Entry]
    BY <2>11, <2>13
  <2>15. F[i] \in Seq(Entry) /\ DOMAIN F[i] = 1..q
    BY <2>10, <2>14
  <2>16. ASSUME NEW b \in ToSet(F[i]) PROVE \E x \in Uses(ms[i]) : x \notin ResultIds(ms) /\ b = Block("lost", x)
    <3>1. PICK j \in 1..q : b = F[i][j]
      BY <2>15 DEF ToSet
    <3>2. b = Block("lost", o[j].n)
      BY <2>11, <3>1
    <3>3. PICK e : e = o[j]
      OBVIOUS
    <3>4. e \in ToSet(o)
      BY <2>10, <3>3 DEF ToSet
    <3>5. e \in ToSet(bs) /\ e.k = "use" /\ e.n \notin ResultIds(ms)
      BY <2>8, <3>4
    <3>6. e.n \in Uses(ms[i])
      BY <2>1, <3>5, UsesAre
    <3> QED BY <3>2, <3>3, <3>5, <3>6
  <2>17. ASSUME NEW x \in Uses(ms[i]), x \notin ResultIds(ms) PROVE Block("lost", x) \in ToSet(F[i])
    <3>1. PICK e \in ToSet(bs) : e.k = "use" /\ e.n = x
      BY <2>1, UsesAre
    <3>2. e \in ToSet(o)
      BY <2>8, <2>17, <3>1
    <3>3. PICK j \in 1..q : e = o[j]
      BY <2>10, <3>2 DEF ToSet
    <3>4. F[i][j] = Block("lost", x)
      BY <2>11, <3>1, <3>3
    <3> QED BY <2>15, <3>4 DEF ToSet
  <2> QED BY <2>15, <2>16, <2>17
<1>7. \A i \in DOMAIN ms : \A x \in Uses(ms[i]) : ms[i].role = "assistant"
  <2> SUFFICES ASSUME NEW i \in DOMAIN ms, NEW x \in Uses(ms[i]) PROVE ms[i].role = "assistant"
    OBVIOUS
  <2>1. PICK m : m = ms[i]
    OBVIOUS
  <2>2. m.role \in {"user", "assistant"} /\ (m.role = "user" => Uses(m) = {})
    BY <1>0, <2>1
  <2> QED BY <2>1, <2>2
<1>8. ASSUME NEW i \in DOMAIN ms
      PROVE  /\ A[i] \in Seq(Entry)
             /\ \A b : b \in ToSet(A[i]) <=> \E x \in Uses(ms[i]) : x \notin ResultIds(ms) /\ b = Block("lost", x)
  <2>1. CASE ms[i].role = "assistant"
    BY <1>4, <1>6, <2>1
  <2>2. CASE ms[i].role # "assistant"
    <3>1. A[i] = <<>>
      BY <1>4, <2>2
    <3>2. A[i] \in Seq(Entry) /\ ToSet(A[i]) = {}
      BY <3>1 DEF ToSet
    <3> QED BY <1>7, <2>2, <3>2
  <2> QED BY <2>1, <2>2
<1>9. Fits(ms, A)
  <2>1. \A x : IsResult(Block("lost", x)) /\ Block("lost", x).n = x
    BY DEF IsResult, Block
  <2>2. \A i \in DOMAIN ms : A[i] # <<>> => ms[i].role = "assistant"
    BY <1>4
  <2>3. ASSUME NEW i \in DOMAIN ms, NEW b \in ToSet(A[i]) PROVE IsResult(b) /\ b.n \in Uses(ms[i])
    <3>1. PICK x \in Uses(ms[i]) : b = Block("lost", x)
      BY <1>8
    <3> QED BY <2>1, <3>1
  <2> QED BY <1>8, <2>2, <2>3 DEF Fits
<1>10. /\ Sound(ms, r) /\ Placed(r)
       /\ \A b : b \in Blocks(r) <=> b \in Blocks(ms) \/ \E i \in DOMAIN ms : b \in ToSet(A[i])
  BY <1>5, <1>9, AttachIs
<1>11. ASSUME NEW b
       PROVE  (\E i \in DOMAIN ms : b \in ToSet(A[i])) <=> \E x \in UseIds(ms) : x \notin ResultIds(ms) /\ b = Block("lost", x)
  <2>1. ASSUME NEW i \in DOMAIN ms, b \in ToSet(A[i])
        PROVE  \E x \in UseIds(ms) : x \notin ResultIds(ms) /\ b = Block("lost", x)
    <3>1. PICK x \in Uses(ms[i]) : x \notin ResultIds(ms) /\ b = Block("lost", x)
      BY <1>8, <2>1
    <3>2. x \in UseIds(ms)
      BY IdsAre
    <3> QED BY <3>1, <3>2
  <2>2. ASSUME NEW x \in UseIds(ms), x \notin ResultIds(ms), b = Block("lost", x)
        PROVE  \E i \in DOMAIN ms : b \in ToSet(A[i])
    <3>1. PICK i \in DOMAIN ms : x \in Uses(ms[i])
      BY IdsAre
    <3> QED BY <1>8, <2>2, <3>1
  <2> QED BY <2>1, <2>2
<1> QED BY <1>10, <1>11

-----------------------------------------------------------------------------
(* Phase 2e: blank assistant messages are gone, the last message stays.    *)
Filled(ms) == \A i \in DOMAIN ms : i < Len(ms) => ~ IsBlank(ms[i])

(* Phase 2e, remove_aborted_assistant_messages: results stay behind their  *)
(* calls and only blank text is lost.                                      *)
LEMMA AbortedIs ==
    ASSUME NEW ms, Proper(ms), NoEmptyMessage(ms), NEW r, r = RemoveAborted(ms)
    PROVE  /\ Sound(ms, r) /\ Filled(r)
           /\ Placed(ms) => Placed(r)
           /\ Single(ms) => Single(r)
           /\ \A b : b \in Blocks(r) => b \in Blocks(ms)
           /\ \A b : b \in Blocks(ms) => b \in Blocks(r) \/ b.k = "blank"
<1>0. ms \in Seq(Message) /\ Len(ms) \in Nat /\ DOMAIN ms = 1..Len(ms)
  BY ProperFacts
<1>1. PICK I : I = {i \in DOMAIN ms : i = Len(ms) \/ ~ IsBlank(ms[i])}
  OBVIOUS
<1>2. r = Pick(ms, I)
  BY <1>1 DEF RemoveAborted
<1>3. r \in Seq(Message) /\ \E f : Chosen(ms, I, r, f)
  BY <1>0, <1>2, PickIs
<1>4. r \in Seq(Message) /\ Len(r) \in Nat /\ DOMAIN r = 1..Len(r)
  BY <1>3
<1>5. PICK f : Chosen(ms, I, r, f)
  BY <1>3
<1>6. Keeps(ms, I, r)
  <2>1. r \in Seq(Message)
    BY <1>3
  <2> QED BY <1>5, <2>1, ChosenKeeps
<1>7. \A i \in DOMAIN ms : i \notin I => \A b \in ToSet(ms[i].blocks) : b.k = "blank"
  BY <1>1 DEF IsBlank
<1>8. \A i \in DOMAIN ms : i \notin I => Uses(ms[i]) = {}
  <2> SUFFICES ASSUME NEW i \in DOMAIN ms, i \notin I, NEW x \in Uses(ms[i]) PROVE FALSE
    OBVIOUS
  <2>1. PICK b \in ToSet(ms[i].blocks) : b.k = "use"
    BY UsesAre
  <2>2. b.k = "blank"
    BY <1>7, <2>1
  <2> QED BY <2>1, <2>2
<1>9. EndsWithUser(ms) => Len(ms) \in I
  <2> SUFFICES ASSUME EndsWithUser(ms) PROVE Len(ms) \in I
    OBVIOUS
  <2>1. Len(ms) \in DOMAIN ms
    BY <1>0 DEF EndsWithUser
  <2> QED BY <1>1, <2>1
<1>10. Sound(ms, r) /\ (Placed(ms) => Placed(r)) /\ (Single(ms) => Single(r))
  BY <1>6, <1>8, <1>9 DEF Sound, Keeps
<1>11. Filled(r)
  <2> SUFFICES ASSUME NEW k \in DOMAIN r, k < Len(r) PROVE ~ IsBlank(r[k])
    BY DEF Filled
  <2>1. PICK a, z : a = f[k] /\ z = f[Len(r)]
    OBVIOUS
  <2>2. Len(r) \in DOMAIN r /\ k \in 1..Len(r) /\ Len(r) \in 1..Len(r)
    BY <1>4
  <2>3. a \in DOMAIN ms /\ a \in I /\ r[k] = ms[a] /\ z \in DOMAIN ms
    BY <1>5, <2>1, <2>2 DEF Chosen
  <2>4. a < z
    BY <1>5, <2>1, <2>2 DEF Chosen
  <2>5. a # Len(ms)
    BY <1>0, <2>3, <2>4
  <2> QED BY <1>1, <2>3, <2>5
<1>12. \A b : b \in Blocks(r) <=> \E i \in DOMAIN ms : i \in I /\ b \in ToSet(ms[i].blocks)
  BY <1>6 DEF Keeps
<1>13. \A b : b \in Blocks(r) => b \in Blocks(ms)
  BY <1>12, BlocksAre
<1>14. ASSUME NEW b, b \in Blocks(ms) PROVE b \in Blocks(r) \/ b.k = "blank"
  <2>1. PICK i \in DOMAIN ms : b \in ToSet(ms[i].blocks)
    BY <1>14, BlocksAre
  <2>2. CASE i \in I
    BY <1>12, <2>1, <2>2
  <2>3. CASE i \notin I
    BY <1>7, <2>1, <2>3
  <2> QED BY <2>2, <2>3
<1> QED BY <1>10, <1>11, <1>13, <1>14
-----------------------------------------------------------------------------
(* Phase 2d: no call has two results.                                      *)
LEMMA DedupIs ==
    ASSUME NEW ms, Proper(ms), Placed(ms), NEW r, r = Dedup(ms)
    PROVE  /\ Sound(ms, r) /\ Placed(r) /\ Single(r)
           /\ \A b : b \in Blocks(r) => b \in Blocks(ms)
           /\ \A b : b \in Blocks(ms) /\ ~ IsResult(b) => b \in Blocks(r)
           /\ \A x : x \in ResultIds(ms) => x \in ResultIds(r)
<1>0. /\ ms \in Seq(Message) /\ Len(ms) \in Nat /\ DOMAIN ms = 1..Len(ms)
      /\ \A i \in DOMAIN ms : ms[i] \in Message
  BY ProperFacts
<1>1. PICK stay : stay = [i \in DOMAIN ms |-> {j \in DOMAIN ms[i].blocks : ~ Repeats(ms, i, j)}]
  OBVIOUS
<1>2. r = DropEmpty(PickBlocks(ms, stay))
  BY <1>1 DEF Dedup
<1>3. \A i \in DOMAIN ms : \A j \in DOMAIN ms[i].blocks : j \in stay[i] <=> ~ Repeats(ms, i, j)
  BY <1>1
<1>4. Thins(ms, stay, r)
  BY <1>2, DroppedIs
<1>5. \A i \in DOMAIN ms : \A j \in DOMAIN ms[i].blocks : ~ IsResult(ms[i].blocks[j]) => j \in stay[i]
  BY <1>3 DEF Repeats
<1>6. \A i \in DOMAIN ms : ms[i].blocks \in Seq(Entry) /\ DOMAIN ms[i].blocks = 1..Len(ms[i].blocks)
         /\ Len(ms[i].blocks) \in Nat
  BY <1>0, MessageFacts
<1>7. Placed(r)
  <2>1. \A b : b.k = "use" => ~ IsResult(b)
    BY DEF IsResult
  <2>2. ASSUME NEW i \in DOMAIN ms, NEW j \in DOMAIN ms[i].blocks, IsResult(ms[i].blocks[j])
        PROVE  i # 1 /\ ms[i].blocks[j].n \in Uses(ms[i - 1])
    <3>1. ms[i].blocks[j] \in ToSet(ms[i].blocks)
      BY DEF ToSet
    <3>2. ms[i].blocks[j].n \in Answers(ms[i])
      BY <2>2, <3>1, AnswersAre
    <3> QED BY <3>2 DEF Placed
  <2>3. \A i \in DOMAIN ms : \A j \in DOMAIN ms[i].blocks :
           /\ ms[i].blocks[j].k = "use" => j \in stay[i]
           /\ IsResult(ms[i].blocks[j]) /\ j \in stay[i] => i # 1 /\ ms[i].blocks[j].n \in Uses(ms[i - 1])
    BY <1>5, <2>1, <2>2
  <2> QED BY <1>4, <2>3 DEF Thins
<1>8. Sound(ms, r)
  <2>1. ASSUME EndsWithUser(ms) PROVE EndsWithUser(r)
    <3>1. Len(ms) \in DOMAIN ms
      BY <1>0, <2>1 DEF EndsWithUser
    <3>2. \A j \in DOMAIN ms[Len(ms)].blocks : ~ IsResult(ms[Len(ms)].blocks[j]) => j \in stay[Len(ms)]
      BY <1>5, <3>1
    <3> QED BY <1>4, <2>1, <3>2 DEF Thins
  <2>2. Proper(r) /\ NoEmptyMessage(r) /\ (Apart(ms) => Apart(r))
    BY <1>4 DEF Thins
  <2> QED BY <2>1, <2>2 DEF Sound
<1>9. PICK p : p = PickBlocks(ms, stay)
  OBVIOUS
<1>10. Stays(ms, stay, p)
  BY <1>0, <1>9, PickBlocksIs
<1>11. /\ p \in Seq(Message) /\ Len(p) = Len(ms) /\ DOMAIN p = DOMAIN ms
       /\ \A i \in DOMAIN ms : p[i].role = ms[i].role
       /\ \A i \in DOMAIN ms : p[i].blocks = Pick(ms[i].blocks, stay[i])
  BY <1>10 DEF Stays
<1>12. \A i, k \in DOMAIN ms : \A j \in DOMAIN ms[i].blocks, l \in DOMAIN ms[k].blocks :
          /\ j \in stay[i] /\ l \in stay[k]
          /\ IsResult(ms[i].blocks[j]) /\ IsResult(ms[k].blocks[l])
          /\ ms[i].blocks[j].n = ms[k].blocks[l].n
          => i = k /\ j = l
  <2>1. ASSUME NEW i \in DOMAIN ms, NEW k \in DOMAIN ms,
               NEW j \in DOMAIN ms[i].blocks, NEW l \in DOMAIN ms[k].blocks, j \in stay[i],
               IsResult(ms[i].blocks[j]), IsResult(ms[k].blocks[l]), ms[k].blocks[l].n = ms[i].blocks[j].n,
               k < i \/ (k = i /\ l < j)
        PROVE  FALSE
    <3>1. k \in 1..i
      BY <1>0, <2>1
    <3>2. Repeats(ms, i, j)
      BY <2>1, <3>1 DEF Repeats
    <3> QED BY <1>3, <2>1, <3>2
  <2> SUFFICES ASSUME NEW i \in DOMAIN ms, NEW k \in DOMAIN ms,
                      NEW j \in DOMAIN ms[i].blocks, NEW l \in DOMAIN ms[k].blocks,
                      j \in stay[i], l \in stay[k],
                      IsResult(ms[i].blocks[j]), IsResult(ms[k].blocks[l]),
                      ms[i].blocks[j].n = ms[k].blocks[l].n
               PROVE  i = k /\ j = l
    OBVIOUS
  <2>2. ~ (k < i) /\ ~ (i < k)
    BY <2>1
  <2>3. i = k
    BY <1>0, <2>2
  <2>4. ~ (l < j) /\ ~ (j < l)
    BY <2>1, <2>3
  <2>5. j \in Nat /\ l \in Nat
    BY <1>6
  <2> QED BY <2>3, <2>4, <2>5
<1>13. \A i \in DOMAIN ms : \E g : Chosen(ms[i].blocks, stay[i], p[i].blocks, g)
  <2> SUFFICES ASSUME NEW i \in DOMAIN ms PROVE \E g : Chosen(ms[i].blocks, stay[i], p[i].blocks, g)
    OBVIOUS
  <2>1. PICK bs, k : bs = ms[i].blocks /\ k = stay[i]
    OBVIOUS
  <2>2. bs \in Seq(Entry)
    BY <1>6, <2>1
  <2>3. \E g : Chosen(bs, k, Pick(bs, k), g)
    BY <2>2, PickIs
  <2>4. p[i].blocks = Pick(bs, k)
    BY <1>11, <2>1
  <2> QED BY <2>1, <2>3, <2>4
<1>14. Proper(p)
  <2>1. ASSUME NEW i \in DOMAIN ms PROVE Uses(p[i]) \subseteq Uses(ms[i]) /\ Answers(p[i]) \subseteq Answers(ms[i])
    <3>1. \A b \in ToSet(p[i].blocks) : b \in ToSet(ms[i].blocks)
      BY <1>10 DEF Stays, ToSet
    <3> QED BY <3>1 DEF Uses, Answers
  <2>2. ASSUME NEW i \in DOMAIN ms
        PROVE  (p[i].role = "user" => Uses(p[i]) = {}) /\ (p[i].role = "assistant" => Answers(p[i]) = {})
    <3>1. PICK m, q : m = ms[i] /\ q = p[i]
      OBVIOUS
    <3>2. (m.role = "user" => Uses(m) = {}) /\ (m.role = "assistant" => Answers(m) = {})
      BY <3>1, ProperFacts
    <3>3. q.role = m.role
      BY <1>11, <3>1
    <3> QED BY <2>1, <3>1, <3>2, <3>3
  <2> QED BY <1>11, <2>2 DEF Proper
<1>15. Single(p)
  <2> SUFFICES ASSUME NEW i \in DOMAIN p, NEW k \in DOMAIN p,
                      NEW j \in DOMAIN p[i].blocks, NEW l \in DOMAIN p[k].blocks,
                      IsResult(p[i].blocks[j]), IsResult(p[k].blocks[l]),
                      p[i].blocks[j].n = p[k].blocks[l].n
               PROVE  i = k /\ j = l
    BY DEF Single
  <2>0. i \in DOMAIN ms /\ k \in DOMAIN ms
    BY <1>11
  <2>1. PICK g : Chosen(ms[i].blocks, stay[i], p[i].blocks, g)
    BY <1>13, <2>0
  <2>2. PICK h : Chosen(ms[k].blocks, stay[k], p[k].blocks, h)
    BY <1>13, <2>0
  <2>3. \A q \in DOMAIN p : p[q].blocks \in Seq(Entry) /\ DOMAIN p[q].blocks = 1..Len(p[q].blocks)
           /\ Len(p[q].blocks) \in Nat
    BY <1>14, ProperFacts, MessageFacts
  <2>4. PICK a, c : a = g[j] /\ c = h[l]
    OBVIOUS
  <2>5. a \in DOMAIN ms[i].blocks /\ a \in stay[i] /\ p[i].blocks[j] = ms[i].blocks[a]
    BY <2>1, <2>3, <2>4 DEF Chosen
  <2>6. c \in DOMAIN ms[k].blocks /\ c \in stay[k] /\ p[k].blocks[l] = ms[k].blocks[c]
    BY <2>2, <2>3, <2>4 DEF Chosen
  <2>7. i = k /\ a = c
    BY <1>12, <2>0, <2>5, <2>6
  <2>8. Chosen(ms[i].blocks, stay[i], p[i].blocks, h)
    BY <2>2, <2>7
  <2>9. PICK u : u = h[j]
    OBVIOUS
  <2>10. u \in DOMAIN ms[i].blocks /\ u \in stay[i] /\ p[i].blocks[j] = ms[i].blocks[u]
    BY <2>3, <2>8, <2>9 DEF Chosen
  <2>11. u = c
    BY <1>12, <2>0, <2>5, <2>7, <2>10
  <2>12. j \in 1..Len(p[i].blocks) /\ l \in 1..Len(p[i].blocks) /\ Len(p[i].blocks) \in Nat
    BY <2>3, <2>7
  <2>13. j < l => h[j] < h[l]
    BY <2>8, <2>12 DEF Chosen
  <2>14. l < j => h[l] < h[j]
    BY <2>8, <2>12 DEF Chosen
  <2>15. u \in Nat
    BY <1>6, <2>0, <2>10
  <2>16. ~ (j < l) /\ ~ (l < j)
    BY <2>4, <2>9, <2>11, <2>13, <2>14, <2>15
  <2>17. j = l
    BY <2>12, <2>16
  <2> QED BY <2>7, <2>17
<1>16. Single(r)
  <2>1. PICK I : I = {i \in DOMAIN p : p[i].blocks # <<>>}
    OBVIOUS
  <2>2. r = Pick(p, I)
    BY <1>2, <1>9, <2>1 DEF DropEmpty
  <2>3. r \in Seq(Message) /\ \E f : Chosen(p, I, r, f)
    BY <1>11, <2>2, PickIs
  <2>4. r \in Seq(Message)
    BY <2>3
  <2>5. PICK f : Chosen(p, I, r, f)
    BY <2>3
  <2>6. Keeps(p, I, r)
    BY <1>14, <2>4, <2>5, ChosenKeeps
  <2> QED BY <1>15, <2>6 DEF Keeps
<1>17. \A b : b \in Blocks(r) <=>
          \E i \in DOMAIN ms : \E j \in DOMAIN ms[i].blocks : j \in stay[i] /\ b = ms[i].blocks[j]
  BY <1>4 DEF Thins
<1>18. ASSUME NEW b, b \in Blocks(r) PROVE b \in Blocks(ms)
  <2>1. PICK i \in DOMAIN ms : \E j \in DOMAIN ms[i].blocks : b = ms[i].blocks[j]
    BY <1>17, <1>18
  <2>2. b \in ToSet(ms[i].blocks)
    BY <2>1 DEF ToSet
  <2> QED BY <2>2, BlocksAre
<1>19. ASSUME NEW b, b \in Blocks(ms), ~ IsResult(b) PROVE b \in Blocks(r)
  <2>1. PICK i \in DOMAIN ms : b \in ToSet(ms[i].blocks)
    BY <1>19, BlocksAre
  <2>2. PICK j \in DOMAIN ms[i].blocks : b = ms[i].blocks[j]
    BY <2>1 DEF ToSet
  <2> QED BY <1>5, <1>17, <1>19, <2>2
<1>20. ASSUME NEW x, x \in ResultIds(ms) PROVE x \in ResultIds(r)
  <2>1. PICK S : S = {i \in DOMAIN ms : x \in Answers(ms[i])}
    OBVIOUS
  <2>2. S \subseteq 1..Len(ms) /\ S # {}
    BY <1>0, <1>20, <2>1, IdsAre
  <2>3. PICK i \in S : \A k \in S : i <= k
    BY <1>0, <2>2, LeastOf
  <2>4. i \in DOMAIN ms /\ x \in Answers(ms[i])
    BY <2>1
  <2>5. PICK T : T = {j \in DOMAIN ms[i].blocks : IsResult(ms[i].blocks[j]) /\ ms[i].blocks[j].n = x}
    OBVIOUS
  <2>6. T \subseteq 1..Len(ms[i].blocks)
    BY <1>6, <2>4, <2>5
  <2>7. T # {}
    <3>1. PICK b \in ToSet(ms[i].blocks) : IsResult(b) /\ b.n = x
      BY <2>4, AnswersAre
    <3>2. PICK j \in DOMAIN ms[i].blocks : b = ms[i].blocks[j]
      BY DEF ToSet
    <3> QED BY <2>5, <3>1, <3>2
  <2>8. PICK j \in T : \A l \in T : j <= l
    BY <1>6, <2>4, <2>6, <2>7, LeastOf
  <2>9. j \in DOMAIN ms[i].blocks /\ IsResult(ms[i].blocks[j]) /\ ms[i].blocks[j].n = x
    BY <2>5
  <2>10. ~ Repeats(ms, i, j)
    <3> SUFFICES ASSUME Repeats(ms, i, j) PROVE FALSE
      OBVIOUS
    <3>1. PICK k \in 1..i : \E l \in DOMAIN ms[k].blocks :
             /\ (k < i) \/ (l < j)
             /\ IsResult(ms[i].blocks[j]) /\ IsResult(ms[k].blocks[l])
             /\ ms[k].blocks[l].n = ms[i].blocks[j].n
      BY DEF Repeats
    <3>2. PICK l \in DOMAIN ms[k].blocks :
             /\ (k < i) \/ (l < j)
             /\ IsResult(ms[k].blocks[l]) /\ ms[k].blocks[l].n = x
      BY <2>9, <3>1
    <3>3. k \in DOMAIN ms
      BY <1>0, <2>4
    <3>4. ms[k].blocks[l] \in ToSet(ms[k].blocks)
      BY DEF ToSet
    <3>5. x \in Answers(ms[k])
      BY <3>2, <3>4, AnswersAre
    <3>6. k \in S
      BY <2>1, <3>3, <3>5
    <3>7. i <= k
      BY <2>3, <3>6
    <3>8. k = i
      BY <1>0, <2>4, <3>3, <3>7
    <3>9. l < j
      BY <1>0, <2>4, <3>2, <3>8
    <3>10. l \in T
      BY <2>5, <3>2, <3>8
    <3>11. j <= l
      BY <2>8, <3>10
    <3>12. l \in Nat /\ j \in Nat
      BY <1>6, <2>4, <2>9, <3>8
    <3> QED BY <3>9, <3>11, <3>12
  <2>11. j \in stay[i]
    BY <1>3, <2>4, <2>9, <2>10
  <2>12. ms[i].blocks[j] \in Blocks(r)
    BY <1>17, <2>4, <2>9, <2>11
  <2> QED BY <2>9, <2>12, IdsOfBlocks
<1> QED BY <1>7, <1>8, <1>16, <1>18, <1>19, <1>20
-----------------------------------------------------------------------------
(* Phase 3: neighbours of the same role are one message.  What the merge   *)
(* picks, and what each of the picked messages is made of.                 *)
Run(ms, ST, i) == {j \in DOMAIN ms : i <= j /\ \A l \in (i + 1)..j : l \notin ST}

(* The blocks that the message of run i is made of, message by message.    *)
Pieces(ms, ST, i) == [j \in DOMAIN ms |-> IF j \in Run(ms, ST, i) THEN ms[j].blocks ELSE <<>>]

(* r is ms with each run of messages of one role made one message; the     *)
(* k-th run starts at f[k].                                                *)
Merges(ms, ST, r, f) ==
    /\ ST = {i \in DOMAIN ms : i > 1 => ms[i - 1].role # ms[i].role}
    /\ r \in Seq(Message) /\ f \in [1..Len(r) -> DOMAIN ms]
    /\ \A k \in 1..Len(r) : f[k] \in ST
    /\ \A k \in 1..Len(r) : r[k].role = ms[f[k]].role
    /\ \A k \in 1..Len(r) : r[k].blocks = FlattenSeq(Pieces(ms, ST, f[k]))
    /\ \A k \in 1..Len(r) : \A b : b \in ToSet(r[k].blocks) <=> \E j \in Run(ms, ST, f[k]) : b \in ToSet(ms[j].blocks)
    /\ \A j, k \in 1..Len(r) : j < k => f[j] < f[k]
    /\ \A i \in ST : \E k \in 1..Len(r) : f[k] = i
    /\ \A k \in 1..(Len(r) - 1) : \A i \in DOMAIN ms : f[k] < i /\ i < f[k + 1] => i \notin ST
    /\ Len(r) > 0 => \A i \in DOMAIN ms : i < f[1] \/ i > f[Len(r)] => i \notin ST

(* MergeRoles returns that.                                                *)
LEMMA MergesIs ==
    ASSUME NEW ms, Proper(ms), NEW r, r = MergeRoles(ms)
    PROVE  \E ST, f : Merges(ms, ST, r, f)
<1>0. /\ ms \in Seq(Message) /\ Len(ms) \in Nat /\ DOMAIN ms = 1..Len(ms)
      /\ \A i \in DOMAIN ms : ms[i] \in Message
      /\ \A i \in DOMAIN ms : ms[i].role \in {"user", "assistant"}
  BY ProperFacts
<1>1. PICK n : n = Len(ms)
  OBVIOUS
<1>2. n \in Nat /\ DOMAIN ms = 1..n
  BY <1>0, <1>1
<1>3. PICK ST : ST = {i \in DOMAIN ms : i > 1 => ms[i - 1].role # ms[i].role}
  OBVIOUS
<1>4. PICK M : M = [i \in DOMAIN ms |-> Msg(ms[i].role, FlattenSeq(Pieces(ms, ST, i)))]
  OBVIOUS
<1>5. r = Pick(M, ST)
  <2>1. PICK Z : Z = [i \in DOMAIN ms |-> Msg(ms[i].role, FlattenSeq([j \in DOMAIN ms |->
                        IF j \in {h \in DOMAIN ms : i <= h /\ \A l \in (i + 1)..h : l \notin ST}
                        THEN ms[j].blocks ELSE <<>>]))]
    OBVIOUS
  <2>2. Z = M
    BY <1>4, <2>1 DEF Pieces, Run
  <2>3. r = Pick(Z, ST)
    BY <1>3, <2>1 DEF MergeRoles
  <2> QED BY <2>2, <2>3
<1>6. ASSUME NEW i \in DOMAIN ms
      PROVE  /\ M[i] \in Message /\ M[i].role = ms[i].role
             /\ M[i].blocks = FlattenSeq(Pieces(ms, ST, i))
             /\ \A b : b \in ToSet(M[i].blocks) <=> \E j \in Run(ms, ST, i) : b \in ToSet(ms[j].blocks)
  <2>1. PICK q : q = Pieces(ms, ST, i)
    OBVIOUS
  <2>2. \A j \in 1..n : q[j] = IF j \in Run(ms, ST, i) THEN ms[j].blocks ELSE <<>>
    BY <1>2, <2>1 DEF Pieces
  <2>3. \A j \in 1..n : ms[j].blocks \in Seq(Entry) /\ <<>> \in Seq(Entry)
    BY <1>0, <1>2, MessageFacts
  <2>4. q = [j \in 1..n |-> q[j]]
    BY <1>2, <2>1 DEF Pieces
  <2>5. q \in [1..n -> Seq(Entry)]
    BY <2>2, <2>3, <2>4
  <2>6. FlattenSeq(q) \in Seq(Entry)
    BY <1>2, <2>5, FlattenLaid
  <2>7. \A b : b \in ToSet(FlattenSeq(q)) <=> \E j \in 1..n : b \in ToSet(q[j])
    BY <1>2, <2>5, FlattenElements
  <2>8. M[i] = Msg(ms[i].role, FlattenSeq(q))
    BY <1>4, <2>1
  <2>9. M[i] \in Message /\ M[i].role = ms[i].role /\ M[i].blocks = FlattenSeq(q)
    BY <1>0, <2>6, <2>8, MsgIs
  <2>10. ToSet(<<>>) = {}
    BY DEF ToSet
  <2>11. \A b : b \in ToSet(M[i].blocks) <=> \E j \in Run(ms, ST, i) : b \in ToSet(ms[j].blocks)
    <3>1. \A j \in Run(ms, ST, i) : j \in 1..n
      BY <1>2 DEF Run
    <3>2. \A j \in 1..n : \A b : b \in ToSet(q[j]) <=> j \in Run(ms, ST, i) /\ b \in ToSet(ms[j].blocks)
      BY <2>2, <2>10
    <3> QED BY <2>7, <2>9, <3>1, <3>2
  <2> QED BY <2>1, <2>9, <2>11
<1>7. M \in Seq(Message) /\ DOMAIN M = DOMAIN ms
  <2>1. M = [i \in 1..n |-> M[i]]
    BY <1>2, <1>4
  <2>2. M \in [1..n -> Message]
    BY <1>2, <1>6, <2>1
  <2> QED BY <1>2, <2>1, <2>2
<1>8. r \in Seq(Message) /\ \E f : Chosen(M, ST, r, f)
  BY <1>5, <1>7, PickIs
<1>9. PICK f : Chosen(M, ST, r, f)
  BY <1>8
<1>10. /\ f \in [1..Len(r) -> DOMAIN ms]
       /\ \A k \in 1..Len(r) : f[k] \in ST /\ r[k] = M[f[k]]
       /\ \A j, k \in 1..Len(r) : j < k => f[j] < f[k]
       /\ \A i \in DOMAIN ms : i \in ST => \E k \in 1..Len(r) : f[k] = i
  BY <1>7, <1>9 DEF Chosen
<1>11. /\ \A k \in 1..(Len(r) - 1) : \A i \in DOMAIN M : f[k] < i /\ i < f[k + 1] => i \notin ST
       /\ Len(r) > 0 => \A i \in DOMAIN M : i < f[1] \/ i > f[Len(r)] => i \notin ST
  <2>1. r \in Seq(Message)
    BY <1>8
  <2> QED BY <1>7, <1>9, <2>1, ChosenNeighbours
<1>12. \A k \in 1..Len(r) : /\ r[k].role = ms[f[k]].role
                            /\ r[k].blocks = FlattenSeq(Pieces(ms, ST, f[k]))
                            /\ \A b : b \in ToSet(r[k].blocks) <=> \E j \in Run(ms, ST, f[k]) : b \in ToSet(ms[j].blocks)
  <2> SUFFICES ASSUME NEW k \in 1..Len(r)
               PROVE  /\ r[k].role = ms[f[k]].role
                      /\ r[k].blocks = FlattenSeq(Pieces(ms, ST, f[k]))
                      /\ \A b : b \in ToSet(r[k].blocks) <=> \E j \in Run(ms, ST, f[k]) : b \in ToSet(ms[j].blocks)
    OBVIOUS
  <2>1. PICK i : i = f[k]
    OBVIOUS
  <2>2. i \in DOMAIN ms /\ r[k] = M[i]
    BY <1>10, <2>1
  <2> QED BY <1>6, <2>1, <2>2
<1>13. ST \subseteq DOMAIN ms
  BY <1>3
<1>14. Merges(ms, ST, r, f)
  BY <1>3, <1>7, <1>8, <1>10, <1>11, <1>12, <1>13 DEF Merges
<1> QED BY <1>14

(* The runs partition the history.                                         *)
Runs(ms, ST, r, f) ==
    /\ \A k \in 1..Len(r) : \A j \in Run(ms, ST, f[k]) : j \in DOMAIN ms /\ ms[j].role = r[k].role
    /\ \A j \in DOMAIN ms : \E k \in 1..Len(r) : j \in Run(ms, ST, f[k])
    /\ \A k, l \in 1..Len(r) : \A j : j \in Run(ms, ST, f[k]) /\ j \in Run(ms, ST, f[l]) => k = l
    /\ \A k \in 1..Len(r) : f[k] \in Run(ms, ST, f[k])
    /\ \A k \in 1..Len(r) : \A j \in Run(ms, ST, f[k]) : j \in ST => j = f[k]
    /\ \A k \in 1..Len(r) : f[k] # 1 =>
          k # 1 /\ k - 1 \in 1..Len(r) /\ f[k] - 1 \in Run(ms, ST, f[k - 1])

(* The runs: all messages of a run have one role, every message is in the  *)
(* run of one picked message.                                              *)
LEMMA RunsAre ==
    ASSUME NEW ms, Proper(ms), NEW ST, NEW r, NEW f, Merges(ms, ST, r, f)
    PROVE  Runs(ms, ST, r, f)
<1>0. /\ Len(ms) \in Nat /\ DOMAIN ms = 1..Len(ms)
      /\ \A i \in DOMAIN ms : ms[i].role \in {"user", "assistant"}
  BY ProperFacts
<1>1. /\ ST = {i \in DOMAIN ms : i > 1 => ms[i - 1].role # ms[i].role}
      /\ r \in Seq(Message) /\ f \in [1..Len(r) -> DOMAIN ms]
      /\ \A k \in 1..Len(r) : f[k] \in ST
      /\ \A k \in 1..Len(r) : r[k].role = ms[f[k]].role
      /\ \A j, k \in 1..Len(r) : j < k => f[j] < f[k]
      /\ \A i \in ST : \E k \in 1..Len(r) : f[k] = i
      /\ \A k \in 1..(Len(r) - 1) : \A i \in DOMAIN ms : f[k] < i /\ i < f[k + 1] => i \notin ST
      /\ Len(r) > 0 => \A i \in DOMAIN ms : i < f[1] \/ i > f[Len(r)] => i \notin ST
  BY DEF Merges
<1>2. Len(r) \in Nat
  BY <1>1
<1>3. \A i, j : j \in Run(ms, ST, i) <=> j \in DOMAIN ms /\ i <= j /\ \A l \in (i + 1)..j : l \notin ST
  BY DEF Run
<1>4. \A k \in 1..Len(r) : f[k] \in 1..Len(ms) /\ f[k] \in Nat
  BY <1>0, <1>1
<1>5. ASSUME NEW k \in 1..Len(r), NEW j \in Run(ms, ST, f[k]) PROVE ms[j].role = r[k].role
  <2>1. PICK i : i = f[k]
    OBVIOUS
  <2>2. i \in 1..Len(ms) /\ j \in 1..Len(ms) /\ i <= j /\ \A l \in (i + 1)..j : l \notin ST
    BY <1>0, <1>3, <1>4, <1>5, <2>1
  <2>3. PICK x : x = ms[i].role
    OBVIOUS
  <2> DEFINE S == {d \in 0..(j - i) : ms[i + d].role = x}
  <2>4. 0 \in S
    <3>1. i + 0 = i /\ 0 \in 0..(j - i)
      BY <2>2
    <3> QED BY <2>3, <3>1
  <2>5. ASSUME NEW d \in 0..((j - i) - 1), d \in S PROVE d + 1 \in S
    <3>1. PICK l : l = i + (d + 1)
      OBVIOUS
    <3>2. l \in (i + 1)..j /\ l \in DOMAIN ms /\ l > 1 /\ l - 1 = i + d /\ d + 1 \in 0..(j - i)
      BY <1>0, <2>2, <3>1
    <3>3. l \notin ST
      BY <2>2, <3>2
    <3>4. ms[l - 1].role = ms[l].role
      BY <1>1, <3>2, <3>3
    <3>5. ms[i + d].role = x
      BY <2>5
    <3> QED BY <3>1, <3>2, <3>4, <3>5
  <2>6. j - i \in Nat
    BY <2>2
  <2>7. \A d \in 0..(j - i) : d \in S
    <3> HIDE DEF S
    <3> QED BY <2>4, <2>5, <2>6, UpTo
  <2>8. j - i \in S
    BY <2>6, <2>7
  <2>9. i + (j - i) = j
    BY <2>2
  <2> QED BY <1>1, <2>1, <2>3, <2>8, <2>9
<1>6. ASSUME NEW j \in DOMAIN ms PROVE \E k \in 1..Len(r) : j \in Run(ms, ST, f[k])
  <2>1. PICK S : S = {i \in ST : i <= j}
    OBVIOUS
  <2>2. S \subseteq 1..Len(ms)
    BY <1>0, <1>1, <2>1
  <2>3. 1 \in S
    BY <1>0, <1>1, <1>6, <2>1
  <2>4. PICK i \in S : \A h \in S : h <= i
    BY <1>0, <2>2, <2>3, LargestOf
  <2>5. i \in 1..Len(ms) /\ i \in ST /\ i <= j
    BY <2>1, <2>2
  <2>6. \A l \in (i + 1)..j : l \notin ST
    <3> SUFFICES ASSUME NEW l \in (i + 1)..j, l \in ST PROVE FALSE
      OBVIOUS
    <3>1. l <= j /\ l > i
      BY <1>0, <2>5
    <3>2. l \in S
      BY <2>1, <3>1
    <3> QED BY <1>0, <2>4, <2>5, <3>1, <3>2
  <2>7. PICK k \in 1..Len(r) : f[k] = i
    BY <1>1, <2>5
  <2> QED BY <1>3, <2>5, <2>6, <2>7
<1>7. ASSUME NEW k \in 1..Len(r), NEW l \in 1..Len(r), NEW j, j \in Run(ms, ST, f[k]), j \in Run(ms, ST, f[l]), k < l
      PROVE  FALSE
  <2>1. PICK a, b : a = f[k] /\ b = f[l]
    OBVIOUS
  <2>2. a < b /\ a \in Nat /\ b \in Nat /\ b \in ST
    BY <1>1, <1>4, <1>7, <2>1
  <2>3. j \in 1..Len(ms) /\ b <= j /\ \A h \in (a + 1)..j : h \notin ST
    BY <1>0, <1>3, <1>7, <2>1
  <2>4. b \in (a + 1)..j
    BY <1>0, <2>2, <2>3
  <2> QED BY <2>2, <2>3, <2>4
<1>8. \A k, l \in 1..Len(r) : \A j : j \in Run(ms, ST, f[k]) /\ j \in Run(ms, ST, f[l]) => k = l
  <2> SUFFICES ASSUME NEW k \in 1..Len(r), NEW l \in 1..Len(r), NEW j,
                      j \in Run(ms, ST, f[k]), j \in Run(ms, ST, f[l])
               PROVE  k = l
    OBVIOUS
  <2>1. ~ (k < l) /\ ~ (l < k)
    BY <1>7
  <2> QED BY <1>2, <2>1
<1>9. \A k \in 1..Len(r) : f[k] \in Run(ms, ST, f[k])
  <2> SUFFICES ASSUME NEW k \in 1..Len(r) PROVE f[k] \in Run(ms, ST, f[k])
    OBVIOUS
  <2>1. PICK a : a = f[k]
    OBVIOUS
  <2>2. a \in DOMAIN ms /\ a \in Nat
    BY <1>1, <1>4, <2>1
  <2>3. (a + 1)..a = {}
    BY <2>2
  <2>4. a <= a
    BY <2>2
  <2> QED BY <1>3, <2>1, <2>2, <2>3, <2>4
<1>10. ASSUME NEW k \in 1..Len(r), NEW j \in Run(ms, ST, f[k]), j \in ST PROVE j = f[k]
  <2>1. PICK a : a = f[k]
    OBVIOUS
  <2>2. a \in Nat
    BY <1>4, <2>1
  <2>3. j \in 1..Len(ms) /\ a <= j /\ \A h \in (a + 1)..j : h \notin ST
    BY <1>0, <1>3, <1>10, <2>1
  <2>4. a < j => j \in (a + 1)..j
    BY <1>0, <2>2, <2>3
  <2>5. ~ (a < j)
    BY <1>10, <2>3, <2>4
  <2> QED BY <1>0, <2>1, <2>2, <2>3, <2>5
<1>11. ASSUME NEW k \in 1..Len(r), f[k] # 1
       PROVE  k # 1 /\ k - 1 \in 1..Len(r) /\ f[k] - 1 \in Run(ms, ST, f[k - 1])
  <2>1. PICK b : b = f[k]
    OBVIOUS
  <2>2. b \in 1..Len(ms) /\ b # 1
    BY <1>4, <1>11, <2>1
  <2>3. 1 \in ST /\ 1 \in DOMAIN ms
    BY <1>0, <1>1, <2>2
  <2>4. k # 1
    <3> SUFFICES ASSUME k = 1 PROVE FALSE
      OBVIOUS
    <3>1. Len(r) > 0
      BY <1>2
    <3>2. f[1] = b
      BY <2>1
    <3>3. 1 < b
      BY <1>0, <2>2
    <3> QED BY <1>1, <2>3, <3>1, <3>2, <3>3
  <2>5. PICK h : h = k - 1
    OBVIOUS
  <2>6. h \in 1..Len(r) /\ h \in 1..(Len(r) - 1) /\ h + 1 = k /\ h < k
    BY <1>2, <2>4, <2>5
  <2>7. PICK a : a = f[h]
    OBVIOUS
  <2>8. a \in Nat /\ a < b
    BY <1>1, <1>4, <2>1, <2>6, <2>7
  <2>9. \A i \in DOMAIN ms : a < i /\ i < b => i \notin ST
    BY <1>1, <2>1, <2>6, <2>7
  <2>10. b - 1 \in DOMAIN ms /\ a <= b - 1
    BY <1>0, <2>2, <2>8
  <2>11. \A l \in (a + 1)..(b - 1) : l \notin ST
    <3> SUFFICES ASSUME NEW l \in (a + 1)..(b - 1) PROVE l \notin ST
      OBVIOUS
    <3>1. l \in DOMAIN ms /\ a < l /\ l < b
      BY <1>0, <2>2, <2>8
    <3> QED BY <2>9, <3>1
  <2>12. b - 1 \in Run(ms, ST, a)
    BY <1>3, <2>10, <2>11
  <2> QED BY <2>1, <2>4, <2>5, <2>6, <2>7, <2>12
<1>12. \A k \in 1..Len(r) : \A j \in Run(ms, ST, f[k]) : j \in DOMAIN ms
  BY <1>3
<1> QED BY <1>5, <1>6, <1>8, <1>9, <1>10, <1>11, <1>12 DEF Runs
-----------------------------------------------------------------------------
(* Phase 3 of validate_and_repair: roles alternate and no block is lost.   *)
LEMMA MergeIs ==
    ASSUME NEW ms, Proper(ms), NoEmptyMessage(ms), NEW r, r = MergeRoles(ms)
    PROVE  /\ Sound(ms, r) /\ Alternates(r)
           /\ \A b : b \in Blocks(r) <=> b \in Blocks(ms)
           /\ Placed(ms) => Placed(r)
           /\ Single(ms) => Single(r)
           /\ Filled(ms) => Filled(r)
<1>0. /\ ms \in Seq(Message) /\ Len(ms) \in Nat /\ DOMAIN ms = 1..Len(ms)
      /\ \A i \in DOMAIN ms : ms[i] \in Message
      /\ \A i \in DOMAIN ms : ms[i].role \in {"user", "assistant"}
      /\ \A i \in DOMAIN ms : ms[i].role = "user" => Uses(ms[i]) = {}
      /\ \A i \in DOMAIN ms : ms[i].role = "assistant" => Answers(ms[i]) = {}
  BY ProperFacts
<1>1. PICK ST, f : Merges(ms, ST, r, f)
  BY MergesIs
<1>2. Runs(ms, ST, r, f)
  BY <1>1, RunsAre
<1>3. /\ ST = {i \in DOMAIN ms : i > 1 => ms[i - 1].role # ms[i].role}
      /\ r \in Seq(Message) /\ f \in [1..Len(r) -> DOMAIN ms]
      /\ \A k \in 1..Len(r) : f[k] \in ST
      /\ \A k \in 1..Len(r) : r[k].role = ms[f[k]].role
      /\ \A k \in 1..Len(r) : r[k].blocks = FlattenSeq(Pieces(ms, ST, f[k]))
      /\ \A k \in 1..Len(r) : \A b : b \in ToSet(r[k].blocks) <=> \E j \in Run(ms, ST, f[k]) : b \in ToSet(ms[j].blocks)
      /\ \A j, k \in 1..Len(r) : j < k => f[j] < f[k]
  BY <1>1 DEF Merges
<1>4. /\ \A k \in 1..Len(r) : \A j \in Run(ms, ST, f[k]) : j \in DOMAIN ms /\ ms[j].role = r[k].role
      /\ \A j \in DOMAIN ms : \E k \in 1..Len(r) : j \in Run(ms, ST, f[k])
      /\ \A k, l \in 1..Len(r) : \A j : j \in Run(ms, ST, f[k]) /\ j \in Run(ms, ST, f[l]) => k = l
      /\ \A k \in 1..Len(r) : f[k] \in Run(ms, ST, f[k])
      /\ \A k \in 1..Len(r) : \A j \in Run(ms, ST, f[k]) : j \in ST => j = f[k]
      /\ \A k \in 1..Len(r) : f[k] # 1 =>
            k # 1 /\ k - 1 \in 1..Len(r) /\ f[k] - 1 \in Run(ms, ST, f[k - 1])
  BY <1>2 DEF Runs
<1>5. Len(r) \in Nat /\ DOMAIN r = 1..Len(r) /\ \A k \in 1..Len(r) : r[k] \in Message
  BY <1>3
<1>6. ASSUME NEW k \in 1..Len(r), NEW x
      PROVE  /\ x \in Uses(r[k]) <=> \E j \in Run(ms, ST, f[k]) : x \in Uses(ms[j])
             /\ x \in Answers(r[k]) <=> \E j \in Run(ms, ST, f[k]) : x \in Answers(ms[j])
  <2>1. PICK R, q : R = Run(ms, ST, f[k]) /\ q = r[k]
    OBVIOUS
  <2>2. \A b : b \in ToSet(q.blocks) <=> \E j \in R : b \in ToSet(ms[j].blocks)
    BY <1>3, <2>1
  <2>3. ASSUME x \in Uses(q) PROVE \E j \in R : x \in Uses(ms[j])
    <3>1. PICK b \in ToSet(q.blocks) : b.k = "use" /\ b.n = x
      BY <2>3, UsesAre
    <3> QED BY <2>2, <3>1, UsesAre
  <2>4. ASSUME NEW j \in R, x \in Uses(ms[j]) PROVE x \in Uses(q)
    <3>1. PICK b \in ToSet(ms[j].blocks) : b.k = "use" /\ b.n = x
      BY <2>4, UsesAre
    <3> QED BY <2>2, <3>1, UsesAre
  <2>5. ASSUME x \in Answers(q) PROVE \E j \in R : x \in Answers(ms[j])
    <3>1. PICK b \in ToSet(q.blocks) : IsResult(b) /\ b.n = x
      BY <2>5, AnswersAre
    <3> QED BY <2>2, <3>1, AnswersAre
  <2>6. ASSUME NEW j \in R, x \in Answers(ms[j]) PROVE x \in Answers(q)
    <3>1. PICK b \in ToSet(ms[j].blocks) : IsResult(b) /\ b.n = x
      BY <2>6, AnswersAre
    <3> QED BY <2>2, <3>1, AnswersAre
  <2> QED BY <2>1, <2>3, <2>4, <2>5, <2>6
<1>7. Proper(r)
  <2>1. ASSUME NEW k \in 1..Len(r)
        PROVE  (r[k].role = "user" => Uses(r[k]) = {}) /\ (r[k].role = "assistant" => Answers(r[k]) = {})
    <3>1. PICK R, q : R = Run(ms, ST, f[k]) /\ q = r[k].role
      OBVIOUS
    <3>2. \A j \in R : j \in DOMAIN ms /\ ms[j].role = q
      BY <1>4, <3>1
    <3>3. q = "user" => \A x : x \notin Uses(r[k])
      BY <1>0, <1>6, <3>1, <3>2
    <3>4. q = "assistant" => \A x : x \notin Answers(r[k])
      BY <1>0, <1>6, <3>1, <3>2
    <3> QED BY <3>1, <3>3, <3>4
  <2> QED BY <1>3, <1>5, <2>1 DEF Proper
<1>8. NoEmptyMessage(r)
  <2>1. ASSUME NEW k \in 1..Len(r) PROVE r[k].blocks # <<>>
    <3>1. PICK a : a = f[k]
      OBVIOUS
    <3>2. a \in DOMAIN ms /\ a \in Run(ms, ST, f[k])
      BY <1>4, <3>1
    <3>3. ms[a].blocks # <<>> /\ ms[a].blocks \in Seq(Entry)
      BY <1>0, <3>2, MessageFacts DEF NoEmptyMessage
    <3>4. PICK b \in Entry : b \in ToSet(ms[a].blocks)
      BY <3>3, NotEmptyHas
    <3>5. b \in ToSet(r[k].blocks)
      BY <1>3, <3>2, <3>4
    <3>6. r[k].blocks \in Seq(Entry)
      BY <1>5, MessageFacts
    <3> QED BY <3>5, <3>6, NotEmptyHas
  <2> QED BY <1>5, <2>1 DEF NoEmptyMessage
<1>9. Apart(ms) => Apart(r)
  <2> SUFFICES ASSUME Apart(ms), NEW k \in DOMAIN r, NEW l \in DOMAIN r, k # l,
                      NEW x \in Uses(r[k]), x \in Uses(r[l])
               PROVE  FALSE
    BY DEF Apart
  <2>1. PICK i \in Run(ms, ST, f[k]) : x \in Uses(ms[i])
    BY <1>5, <1>6
  <2>2. PICK j \in Run(ms, ST, f[l]) : x \in Uses(ms[j])
    BY <1>5, <1>6
  <2>3. i \in DOMAIN ms /\ j \in DOMAIN ms
    BY <1>4, <1>5
  <2>4. i = j
    BY <2>1, <2>2, <2>3 DEF Apart
  <2> QED BY <1>4, <1>5, <2>4
<1>10. EndsWithUser(ms) => EndsWithUser(r)
  <2> SUFFICES ASSUME EndsWithUser(ms) PROVE EndsWithUser(r)
    OBVIOUS
  <2>1. Len(ms) \in DOMAIN ms /\ ms[Len(ms)].role = "user"
    BY <1>0 DEF EndsWithUser
  <2>2. PICK b \in ToSet(ms[Len(ms)].blocks) : ~ IsResult(b)
    BY DEF EndsWithUser
  <2>3. PICK k \in 1..Len(r) : Len(ms) \in Run(ms, ST, f[k])
    BY <1>4, <2>1
  <2>4. k = Len(r)
    <3> SUFFICES ASSUME k # Len(r) PROVE FALSE
      OBVIOUS
    <3>1. PICK z : z = f[Len(r)]
      OBVIOUS
    <3>2. Len(r) \in 1..Len(r) /\ k < Len(r)
      <4>1. PICK n : n = Len(r)
        OBVIOUS
      <4>2. n \in Nat /\ k \in 1..n /\ k # n
        BY <1>5, <2>3, <4>1
      <4>3. n \in 1..n /\ k < n
        BY <4>2
      <4> QED BY <4>1, <4>3
    <3>3. PICK a : a = f[k]
      OBVIOUS
    <3>4. a < z /\ z \in ST /\ z \in DOMAIN ms /\ a \in DOMAIN ms
      BY <1>3, <3>1, <3>2, <3>3
    <3>5. \A l \in (a + 1)..Len(ms) : l \notin ST
      BY <2>3, <3>3 DEF Run
    <3> QED BY <1>0, <3>4, <3>5
  <2>5. r[Len(r)].role = "user" /\ b \in ToSet(r[Len(r)].blocks)
    <3>1. r[k].role = "user"
      BY <1>4, <2>1, <2>3
    <3>2. b \in ToSet(r[k].blocks)
      BY <1>3, <2>2, <2>3
    <3> QED BY <2>4, <3>1, <3>2
  <2>6. r # <<>>
    BY <1>5, <2>3
  <2> QED BY <2>2, <2>5, <2>6 DEF EndsWithUser
<1>11. Alternates(r)
  <2> SUFFICES ASSUME NEW h \in 1..(Len(r) - 1) PROVE r[h].role # r[h + 1].role
    BY DEF Alternates
  <2>1. PICK k : k = h + 1
    OBVIOUS
  <2>2. k \in 1..Len(r) /\ h \in 1..Len(r) /\ k - 1 = h /\ h < k
    BY <1>5, <2>1
  <2>3. PICK a, b : a = f[h] /\ b = f[k]
    OBVIOUS
  <2>4. a \in 1..Len(ms) /\ b \in 1..Len(ms) /\ a < b /\ b \in ST
    BY <1>0, <1>3, <2>2, <2>3
  <2>5. b # 1 /\ b > 1
    BY <1>0, <2>4
  <2>6. b - 1 \in Run(ms, ST, a)
    BY <1>4, <2>2, <2>3, <2>5
  <2>7. ms[b - 1].role = r[h].role
    BY <1>4, <2>2, <2>3, <2>6
  <2>8. ms[b - 1].role # ms[b].role
    BY <1>3, <2>4, <2>5
  <2>9. r[k].role = ms[b].role
    BY <1>3, <2>2, <2>3
  <2> QED BY <2>1, <2>7, <2>8, <2>9
<1>12. ASSUME NEW b PROVE b \in Blocks(r) <=> b \in Blocks(ms)
  <2>1. ASSUME b \in Blocks(r) PROVE b \in Blocks(ms)
    <3>1. PICK k \in 1..Len(r) : b \in ToSet(r[k].blocks)
      BY <1>5, <2>1, BlocksAre
    <3>2. PICK j \in Run(ms, ST, f[k]) : b \in ToSet(ms[j].blocks)
      BY <1>3, <3>1
    <3>3. j \in DOMAIN ms
      BY <1>4
    <3> QED BY <3>2, <3>3, BlocksAre
  <2>2. ASSUME b \in Blocks(ms) PROVE b \in Blocks(r)
    <3>1. PICK j \in DOMAIN ms : b \in ToSet(ms[j].blocks)
      BY <2>2, BlocksAre
    <3>2. PICK k \in 1..Len(r) : j \in Run(ms, ST, f[k])
      BY <1>4
    <3>3. b \in ToSet(r[k].blocks)
      BY <1>3, <3>1, <3>2
    <3> QED BY <1>5, <3>3, BlocksAre
  <2> QED BY <2>1, <2>2
<1>13. Placed(ms) => Placed(r)
  <2> SUFFICES ASSUME Placed(ms), NEW k \in DOMAIN r, NEW x \in Answers(r[k]) PROVE k # 1 /\ x \in Uses(r[k - 1])
    BY DEF Placed
  <2>1. PICK j \in Run(ms, ST, f[k]) : x \in Answers(ms[j])
    BY <1>5, <1>6
  <2>2. j \in DOMAIN ms
    BY <1>4, <1>5
  <2>3. j # 1 /\ x \in Uses(ms[j - 1])
    BY <2>1, <2>2 DEF Placed
  <2>4. PICK h : h = j - 1
    OBVIOUS
  <2>5. h \in DOMAIN ms /\ j > 1 /\ x \in Uses(ms[h])
    BY <1>0, <2>2, <2>3, <2>4
  <2>6. ms[h].role # ms[j].role
    <3>1. PICK m, q : m = ms[h] /\ q = ms[j]
      OBVIOUS
    <3>2. /\ m.role \in {"user", "assistant"} /\ q.role \in {"user", "assistant"}
          /\ m.role = "user" => Uses(m) = {}
          /\ q.role = "assistant" => Answers(q) = {}
      BY <1>0, <2>2, <2>5, <3>1
    <3> QED BY <2>1, <2>5, <3>1, <3>2
  <2>7. j \in ST
    BY <1>3, <2>2, <2>4, <2>5, <2>6
  <2>8. j = f[k]
    BY <1>4, <1>5, <2>1, <2>7
  <2>9. k # 1 /\ k - 1 \in 1..Len(r) /\ h \in Run(ms, ST, f[k - 1])
    BY <1>4, <1>5, <2>3, <2>4, <2>8
  <2>10. x \in Uses(r[k - 1])
    BY <1>6, <2>5, <2>9
  <2> QED BY <2>9, <2>10
<1>14. Filled(ms) => Filled(r)
  <2> SUFFICES ASSUME Filled(ms), NEW k \in DOMAIN r, k < Len(r), IsBlank(r[k]) PROVE FALSE
    BY DEF Filled
  <2>1. PICK a, z : a = f[k] /\ z = f[Len(r)]
    OBVIOUS
  <2>2. k \in 1..Len(r) /\ Len(r) \in 1..Len(r)
    BY <1>5
  <2>3. a \in DOMAIN ms /\ z \in DOMAIN ms /\ a < z
    BY <1>3, <2>1, <2>2
  <2>4. ~ IsBlank(ms[a])
    BY <1>0, <2>3 DEF Filled
  <2>5. ms[a].role = "assistant"
    BY <1>3, <2>1, <2>2 DEF IsBlank
  <2>6. PICK b \in ToSet(ms[a].blocks) : b.k # "blank"
    BY <2>4, <2>5 DEF IsBlank
  <2>7. b \in ToSet(r[k].blocks)
    BY <1>3, <1>4, <2>1, <2>2, <2>6
  <2> QED BY <2>6, <2>7 DEF IsBlank
<1>15. Single(ms) => Single(r)
  <2> SUFFICES ASSUME Single(ms),
                      NEW i \in DOMAIN r, NEW k \in DOMAIN r,
                      NEW j \in DOMAIN r[i].blocks, NEW l \in DOMAIN r[k].blocks,
                      IsResult(r[i].blocks[j]), IsResult(r[k].blocks[l]),
                      r[i].blocks[j].n = r[k].blocks[l].n
               PROVE  i = k /\ j = l
    BY DEF Single
  <2>1. ASSUME NEW q \in DOMAIN r
        PROVE  \E at : /\ Tiled(Pieces(ms, ST, f[q]), Len(ms), r[q].blocks, at)
                       /\ DOMAIN r[q].blocks = 1..Len(r[q].blocks)
                       /\ \A s \in 1..Len(ms) : \A t \in 1..Len(Pieces(ms, ST, f[q])[s]) :
                             s \in Run(ms, ST, f[q]) /\ t \in DOMAIN ms[s].blocks /\ Pieces(ms, ST, f[q])[s][t] = ms[s].blocks[t]
    <3>1. PICK n, P, u : n = Len(ms) /\ P = Pieces(ms, ST, f[q]) /\ u = r[q].blocks
      OBVIOUS
    <3>2. \A s \in 1..n : P[s] = IF s \in Run(ms, ST, f[q]) THEN ms[s].blocks ELSE <<>>
      BY <1>0, <3>1 DEF Pieces
    <3>3. \A s \in 1..n : ms[s].blocks \in Seq(Entry) /\ <<>> \in Seq(Entry)
      BY <1>0, <3>1, MessageFacts
    <3>4. P = [s \in 1..n |-> P[s]]
      BY <1>0, <3>1 DEF Pieces
    <3>5. P \in [1..n -> Seq(Entry)] /\ n \in Nat
      BY <1>0, <3>1, <3>2, <3>3, <3>4
    <3>6. u = FlattenSeq(P) /\ q \in 1..Len(r)
      BY <1>3, <1>5, <3>1
    <3>7. u \in Seq(Entry)
      BY <1>5, <3>1, <3>6, MessageFacts
    <3>8. PICK at : Laid(P, n, u, at)
      BY <3>5, <3>6, FlattenLaid
    <3>9. \A s \in 1..n : Len(P[s]) \in Nat
      BY <3>5
    <3>10. Tiled(P, n, u, at)
      <4>1. Len(u) \in Nat
        BY <3>7
      <4> QED BY <3>5, <3>8, <3>9, <4>1, LaidAt
    <3>11. ASSUME NEW s \in 1..n, NEW t \in 1..Len(P[s])
           PROVE  s \in Run(ms, ST, f[q]) /\ t \in DOMAIN ms[s].blocks /\ P[s][t] = ms[s].blocks[t]
      <4>1. Len(<<>>) = 0
        OBVIOUS
      <4>2. P[s] # <<>>
        BY <4>1
      <4>3. s \in Run(ms, ST, f[q]) /\ P[s] = ms[s].blocks
        BY <3>2, <4>2
      <4>4. DOMAIN P[s] = 1..Len(P[s])
        BY <3>5
      <4> QED BY <4>3, <4>4
    <3>12. DOMAIN u = 1..Len(u)
      BY <3>7
    <3> QED BY <3>1, <3>10, <3>11, <3>12
  <2>2. PICK at : /\ Tiled(Pieces(ms, ST, f[i]), Len(ms), r[i].blocks, at)
                  /\ DOMAIN r[i].blocks = 1..Len(r[i].blocks)
                  /\ \A s \in 1..Len(ms) : \A t \in 1..Len(Pieces(ms, ST, f[i])[s]) :
                        s \in Run(ms, ST, f[i]) /\ t \in DOMAIN ms[s].blocks /\ Pieces(ms, ST, f[i])[s][t] = ms[s].blocks[t]
    BY <2>1
  <2>3. PICK bt : /\ Tiled(Pieces(ms, ST, f[k]), Len(ms), r[k].blocks, bt)
                  /\ DOMAIN r[k].blocks = 1..Len(r[k].blocks)
                  /\ \A s \in 1..Len(ms) : \A t \in 1..Len(Pieces(ms, ST, f[k])[s]) :
                        s \in Run(ms, ST, f[k]) /\ t \in DOMAIN ms[s].blocks /\ Pieces(ms, ST, f[k])[s][t] = ms[s].blocks[t]
    BY <2>1
  <2>4. PICK s \in 1..Len(ms) : \E t \in 1..Len(Pieces(ms, ST, f[i])[s]) :
           j = at[s - 1] + t /\ r[i].blocks[j] = Pieces(ms, ST, f[i])[s][t]
    BY <2>2 DEF Tiled
  <2>5. PICK t \in 1..Len(Pieces(ms, ST, f[i])[s]) :
           j = at[s - 1] + t /\ r[i].blocks[j] = Pieces(ms, ST, f[i])[s][t]
    BY <2>4
  <2>6. PICK v \in 1..Len(ms) : \E w \in 1..Len(Pieces(ms, ST, f[k])[v]) :
           l = bt[v - 1] + w /\ r[k].blocks[l] = Pieces(ms, ST, f[k])[v][w]
    BY <2>3 DEF Tiled
  <2>7. PICK w \in 1..Len(Pieces(ms, ST, f[k])[v]) :
           l = bt[v - 1] + w /\ r[k].blocks[l] = Pieces(ms, ST, f[k])[v][w]
    BY <2>6
  <2>8. s \in Run(ms, ST, f[i]) /\ t \in DOMAIN ms[s].blocks /\ r[i].blocks[j] = ms[s].blocks[t]
    BY <2>2, <2>5
  <2>9. v \in Run(ms, ST, f[k]) /\ w \in DOMAIN ms[v].blocks /\ r[k].blocks[l] = ms[v].blocks[w]
    BY <2>3, <2>7
  <2>10. s = v /\ t = w
    <3>1. s \in DOMAIN ms /\ v \in DOMAIN ms
      BY <1>0
    <3>2. /\ IsResult(ms[s].blocks[t]) /\ IsResult(ms[v].blocks[w])
          /\ ms[s].blocks[t].n = ms[v].blocks[w].n
      BY <2>8, <2>9
    <3> QED BY <2>8, <2>9, <3>1, <3>2 DEF Single
  <2>11. i = k
    BY <1>4, <1>5, <2>8, <2>9, <2>10
  <2>12. l \in 1..Len(r[i].blocks)
    BY <2>3, <2>11
  <2>13. PICK c \in 1..Len(ms) : \E e \in 1..Len(Pieces(ms, ST, f[i])[c]) :
            l = at[c - 1] + e /\ r[i].blocks[l] = Pieces(ms, ST, f[i])[c][e]
    BY <2>2, <2>12 DEF Tiled
  <2>14. PICK e \in 1..Len(Pieces(ms, ST, f[i])[c]) :
            l = at[c - 1] + e /\ r[i].blocks[l] = Pieces(ms, ST, f[i])[c][e]
    BY <2>13
  <2>15. c \in Run(ms, ST, f[i]) /\ e \in DOMAIN ms[c].blocks /\ r[i].blocks[l] = ms[c].blocks[e]
    BY <2>2, <2>14
  <2>16. s = c /\ t = e
    <3>1. s \in DOMAIN ms /\ c \in DOMAIN ms
      BY <1>0
    <3>2. /\ IsResult(ms[s].blocks[t]) /\ IsResult(ms[c].blocks[e])
          /\ ms[s].blocks[t].n = ms[c].blocks[e].n
      BY <2>8, <2>11, <2>15
    <3> QED BY <2>8, <2>15, <3>1, <3>2 DEF Single
  <2>20. j = l
    BY <2>5, <2>14, <2>16
  <2> QED BY <2>11, <2>20
<1> QED BY <1>7, <1>8, <1>9, <1>10, <1>11, <1>12, <1>13, <1>14, <1>15 DEF Sound
-----------------------------------------------------------------------------
(* What validate_and_repair makes of any history.                          *)
Settled(r) ==
    /\ Proper(r) /\ NoEmptyMessage(r) /\ Placed(r) /\ Single(r) /\ Alternates(r) /\ Filled(r)
    /\ UseIds(r) \subseteq ResultIds(r)

(* What validate_and_repair makes of ms.                                   *)
Repaired(ms, r) ==
    /\ Settled(r)
    /\ Apart(ms) => Apart(r)
    /\ EndsWithUser(ms) => EndsWithUser(r)
    /\ UseIds(r) = UseIds(ms) /\ ResultIds(r) = UseIds(ms)
    /\ \A b : b \in Blocks(r) =>
          \/ b \in Blocks(ms) /\ Known(ms, b)
          \/ \E x \in UseIds(ms) : x \notin ResultIds(ms) /\ b = Block("lost", x)
    /\ \A b : b \in Blocks(ms) /\ ~ IsResult(b) /\ b.k # "blank" => b \in Blocks(r)

(* It does so for every proper history: the phases, one after the other.   *)
LEMMA RepairIs ==
    ASSUME NEW ms, Proper(ms), NEW r, r = Repair(ms)
    PROVE  Repaired(ms, r)
<1>1. PICK c, o, s, d, a : /\ c = Clean(ms) /\ o = Reorder(c) /\ s = InsertSynthetic(o)
                           /\ d = Dedup(s) /\ a = RemoveAborted(d)
  OBVIOUS
<1>2. r = MergeRoles(a)
  BY <1>1 DEF Repair
<1>3. Sound(ms, c) /\ \A b : b \in Blocks(c) <=> b \in Blocks(ms) /\ Known(ms, b)
  BY <1>1, CleanIs
<1>4. UseIds(c) = UseIds(ms)
  <2>1. \A b : b.k = "use" => Known(ms, b)
    BY DEF Known, IsResult
  <2>2. \A x : x \in UseIds(c) <=> x \in UseIds(ms)
    BY <1>3, <2>1, IdsOfBlocks
  <2> QED BY <2>2
<1>5. \A x : x \in ResultIds(c) <=> x \in ResultIds(ms) /\ x \in UseIds(ms)
  BY <1>3, IdsOfBlocks DEF Known
<1>6. Proper(c) /\ NoEmptyMessage(c) /\ ResultIds(c) \subseteq UseIds(c)
  BY <1>3, <1>4, <1>5 DEF Sound
<1>7. Sound(c, o) /\ Placed(o) /\ \A b : b \in Blocks(o) <=> b \in Blocks(c)
  BY <1>1, <1>6, ReorderIs
<1>8. Proper(o) /\ NoEmptyMessage(o)
  BY <1>7 DEF Sound
<1>9. /\ \A x : x \in UseIds(o) <=> x \in UseIds(c)
      /\ \A x : x \in ResultIds(o) <=> x \in ResultIds(c)
  BY <1>7, IdsOfBlocks
<1>10. /\ Sound(o, s) /\ Placed(s)
       /\ \A b : b \in Blocks(s) <=>
             b \in Blocks(o) \/ \E x \in UseIds(o) : x \notin ResultIds(o) /\ b = Block("lost", x)
  BY <1>1, <1>7, <1>8, InsertIs
<1>11. Proper(s) /\ NoEmptyMessage(s)
  BY <1>10 DEF Sound
<1>12. \A x : IsResult(Block("lost", x)) /\ Block("lost", x).n = x /\ Block("lost", x).k = "lost"
  BY DEF IsResult, Block
<1>13. \A b : b \in Blocks(s) <=>
          \/ b \in Blocks(ms) /\ Known(ms, b)
          \/ \E x \in UseIds(ms) : x \notin ResultIds(ms) /\ b = Block("lost", x)
  BY <1>3, <1>4, <1>5, <1>7, <1>9, <1>10
<1>14. \A x : x \in UseIds(ms) => x \in ResultIds(s)
  <2> SUFFICES ASSUME NEW x \in UseIds(ms) PROVE x \in ResultIds(s)
    OBVIOUS
  <2>1. CASE x \in ResultIds(ms)
    <3>1. PICK b \in Blocks(ms) : IsResult(b) /\ b.n = x
      BY <2>1, IdsOfBlocks
    <3>2. Known(ms, b)
      BY <3>1 DEF Known
    <3> QED BY <1>13, <3>1, <3>2, IdsOfBlocks
  <2>2. CASE x \notin ResultIds(ms)
    <3>1. Block("lost", x) \in Blocks(s)
      BY <1>13, <2>2
    <3> QED BY <1>12, <3>1, IdsOfBlocks
  <2> QED BY <2>1, <2>2
<1>15. /\ Sound(s, d) /\ Placed(d) /\ Single(d)
       /\ \A b : b \in Blocks(d) => b \in Blocks(s)
       /\ \A b : b \in Blocks(s) /\ ~ IsResult(b) => b \in Blocks(d)
       /\ \A x : x \in ResultIds(s) => x \in ResultIds(d)
  BY <1>1, <1>10, <1>11, DedupIs
<1>16. Proper(d) /\ NoEmptyMessage(d)
  BY <1>15 DEF Sound
<1>17. /\ Sound(d, a) /\ Filled(a) /\ Placed(a) /\ Single(a)
       /\ \A b : b \in Blocks(a) => b \in Blocks(d)
       /\ \A b : b \in Blocks(d) => b \in Blocks(a) \/ b.k = "blank"
  BY <1>1, <1>15, <1>16, AbortedIs
<1>18. Proper(a) /\ NoEmptyMessage(a)
  BY <1>17 DEF Sound
<1>19. /\ Sound(a, r) /\ Alternates(r) /\ Placed(r) /\ Single(r) /\ Filled(r)
       /\ \A b : b \in Blocks(r) <=> b \in Blocks(a)
  BY <1>2, <1>17, <1>18, MergeIs
<1>20. Proper(r) /\ NoEmptyMessage(r)
  BY <1>19 DEF Sound
<1>21. (Apart(ms) => Apart(r)) /\ (EndsWithUser(ms) => EndsWithUser(r))
  BY <1>3, <1>7, <1>10, <1>15, <1>17, <1>19 DEF Sound
<1>22. \A b : b \in Blocks(r) =>
          \/ b \in Blocks(ms) /\ Known(ms, b)
          \/ \E x \in UseIds(ms) : x \notin ResultIds(ms) /\ b = Block("lost", x)
  BY <1>13, <1>15, <1>17, <1>19
<1>23. \A b : b \in Blocks(ms) /\ ~ IsResult(b) /\ b.k # "blank" => b \in Blocks(r)
  BY <1>13, <1>15, <1>17, <1>19 DEF Known
<1>24. UseIds(r) = UseIds(ms)
  <2>1. \A b : b.k = "use" => ~ IsResult(b) /\ b.k # "blank" /\ b.k # "lost"
    BY DEF IsResult
  <2>2. ASSUME NEW x \in UseIds(r) PROVE x \in UseIds(ms)
    <3>1. PICK b \in Blocks(r) : b.k = "use" /\ b.n = x
      BY IdsOfBlocks
    <3>2. b \in Blocks(ms)
      BY <1>12, <1>22, <2>1, <3>1
    <3> QED BY <3>1, <3>2, IdsOfBlocks
  <2>3. ASSUME NEW x \in UseIds(ms) PROVE x \in UseIds(r)
    <3>1. PICK b \in Blocks(ms) : b.k = "use" /\ b.n = x
      BY IdsOfBlocks
    <3>2. b \in Blocks(r)
      BY <1>23, <2>1, <3>1
    <3> QED BY <3>1, <3>2, IdsOfBlocks
  <2> QED BY <2>2, <2>3
<1>25. ResultIds(r) = UseIds(ms)
  <2>1. ASSUME NEW x \in ResultIds(r) PROVE x \in UseIds(ms)
    <3>1. PICK b \in Blocks(r) : IsResult(b) /\ b.n = x
      BY IdsOfBlocks
    <3>2. CASE b \in Blocks(ms) /\ Known(ms, b)
      BY <3>1, <3>2 DEF Known
    <3>3. CASE \E y \in UseIds(ms) : b = Block("lost", y)
      BY <1>12, <3>1, <3>3
    <3> QED BY <1>22, <3>1, <3>2, <3>3
  <2>2. ASSUME NEW x \in UseIds(ms) PROVE x \in ResultIds(r)
    <3>1. PICK b \in Blocks(d) : IsResult(b) /\ b.n = x
      BY <1>14, <1>15, IdsOfBlocks
    <3>2. b.k # "blank"
      BY <3>1 DEF IsResult
    <3>3. b \in Blocks(r)
      BY <1>17, <1>19, <3>1, <3>2
    <3> QED BY <3>1, <3>3, IdsOfBlocks
  <2> QED BY <2>1, <2>2
<1>26. Settled(r)
  BY <1>19, <1>20, <1>24, <1>25 DEF Settled
<1> QED BY <1>21, <1>22, <1>23, <1>24, <1>25, <1>26 DEF Repaired

(* A settled history in which no call is made twice is what the providers  *)
(* accept.                                                                 *)
LEMMA SettledWellFormed ==
    ASSUME NEW r, Settled(r), Apart(r)
    PROVE  WellFormed(r)
<1>0. Proper(r) /\ Placed(r) /\ Single(r) /\ Alternates(r) /\ UseIds(r) \subseteq ResultIds(r)
  BY DEF Settled
<1>1. Len(r) \in Nat /\ DOMAIN r = 1..Len(r)
  BY <1>0, ProperFacts
<1>2. ASSUME NEW i \in DOMAIN r, NEW x \in Uses(r[i])
      PROVE  i + 1 \in DOMAIN r /\ x \in Answers(r[i + 1])
  <2>1. x \in UseIds(r)
    BY IdsAre
  <2>2. x \in ResultIds(r)
    BY <1>0, <2>1
  <2>3. PICK j \in DOMAIN r : x \in Answers(r[j])
    BY <2>2, IdsAre
  <2>4. j # 1 /\ x \in Uses(r[j - 1])
    BY <1>0, <2>3 DEF Placed
  <2>5. j - 1 \in DOMAIN r
    BY <1>1, <2>4
  <2>6. j - 1 = i
    BY <1>2, <2>4, <2>5 DEF Apart
  <2>7. j = i + 1
    BY <1>1, <2>6
  <2> QED BY <2>3, <2>7
<1>3. ASSUME NEW i \in DOMAIN r, i = Len(r) PROVE Uses(r[i]) = {}
  BY <1>1, <1>2, <1>3
<1>4. ASSUME NEW i \in DOMAIN r PROVE Answers(r[i]) = IF i = 1 THEN {} ELSE Uses(r[i - 1])
  <2>1. CASE i = 1
    BY <1>0, <2>1 DEF Placed
  <2>2. CASE i # 1
    <3>1. i - 1 \in DOMAIN r /\ (i - 1) + 1 = i
      BY <1>1, <2>2
    <3>2. \A x \in Uses(r[i - 1]) : x \in Answers(r[i])
      BY <1>2, <3>1
    <3>3. \A x \in Answers(r[i]) : x \in Uses(r[i - 1])
      BY <1>0, <2>2 DEF Placed
    <3> QED BY <2>2, <3>2, <3>3
  <2> QED BY <2>1, <2>2
<1>5. CallsAnswered(r)
  BY <1>0, <1>3, <1>4 DEF CallsAnswered, Single
<1> QED BY <1>0, <1>5 DEF WellFormed

(* Calls with ids of their own are in one message each.                    *)
LEMMA UniqueApart == ASSUME NEW ms, IdsUnique(ms) PROVE Apart(ms)
<1> SUFFICES ASSUME NEW i \in DOMAIN ms, NEW j \in DOMAIN ms, i # j, NEW x \in Uses(ms[i]), x \in Uses(ms[j])
             PROVE  FALSE
  BY DEF Apart
<1>1. PICK b \in ToSet(ms[i].blocks) : b.k = "use" /\ b.n = x
  BY UsesAre
<1>2. PICK c \in ToSet(ms[j].blocks) : c.k = "use" /\ c.n = x
  BY UsesAre
<1>3. PICK k \in DOMAIN ms[i].blocks : b = ms[i].blocks[k]
  BY DEF ToSet
<1>4. PICK l \in DOMAIN ms[j].blocks : c = ms[j].blocks[l]
  BY DEF ToSet
<1>5. PICK at : at = UNION {{<<e, g>> : g \in {h \in DOMAIN ms[e].blocks : ms[e].blocks[h].k = "use"}} : e \in DOMAIN ms}
  OBVIOUS
<1>6. <<i, k>> \in at /\ <<j, l>> \in at
  BY <1>1, <1>2, <1>3, <1>4, <1>5
<1>7. \A p, q \in at : ms[p[1]].blocks[p[2]].n = ms[q[1]].blocks[q[2]].n => p = q
  BY <1>5 DEF IdsUnique
<1>8. ms[<<i, k>>[1]].blocks[<<i, k>>[2]].n = ms[<<j, l>>[1]].blocks[<<j, l>>[2]].n
  BY <1>1, <1>2, <1>3, <1>4
<1>9. <<i, k>> = <<j, l>>
  BY <1>6, <1>7, <1>8
<1> QED BY <1>9
-----------------------------------------------------------------------------
(* Sequences with at most one piece that is not empty.                     *)
LEMMA FlattenOne ==
    ASSUME NEW D, NEW n \in Nat, NEW ss \in [1..n -> Seq(D)], NEW m \in 1..n,
           \A i \in 1..n : i # m => ss[i] = <<>>
    PROVE  FlattenSeq(ss) = ss[m]
<1>1. PICK F : Joined(D, n, ss, F)
  BY FlattenIs
<1>2. /\ F[0] = <<>> /\ FlattenSeq(ss) = F[n]
      /\ \A i \in 1..n : F[i] = F[i - 1] \o ss[i]
  BY <1>1 DEF Joined
<1>3. PICK e : e = ss[m]
  OBVIOUS
<1>4. e \in Seq(D)
  BY <1>3
<1> DEFINE S == {i \in 0..n : F[i] = IF i < m THEN <<>> ELSE e}
<1>5. 0 \in S
  BY <1>2
<1>6. ASSUME NEW i \in 0..(n - 1), i \in S PROVE i + 1 \in S
  <2>1. PICK h : h = i + 1
    OBVIOUS
  <2>2. h \in 1..n /\ h - 1 = i /\ i \in Nat /\ m \in Nat
    BY <2>1
  <2>3. F[h] = F[i] \o ss[h]
    BY <1>2, <2>2
  <2>4. F[i] = IF i < m THEN <<>> ELSE e
    BY <1>6
  <2>5. CASE h < m
    <3>1. F[i] = <<>> /\ ss[h] = <<>>
      BY <2>2, <2>4, <2>5
    <3>2. F[h] = <<>>
      BY <2>3, <3>1
    <3> QED BY <2>1, <2>2, <2>5, <3>2
  <2>6. CASE h = m
    <3>1. F[i] = <<>> /\ ss[h] = e
      BY <1>3, <2>2, <2>4, <2>6
    <3>2. F[h] = e
      BY <1>4, <2>3, <3>1, ConcatEmptySeq
    <3> QED BY <2>1, <2>2, <2>6, <3>2
  <2>7. CASE h > m
    <3>1. F[i] = e /\ ss[h] = <<>>
      BY <2>2, <2>4, <2>7
    <3>2. F[h] = e
      BY <1>4, <2>3, <3>1, ConcatEmptySeq
    <3> QED BY <2>1, <2>2, <2>7, <3>2
  <2> QED BY <2>2, <2>5, <2>6, <2>7
<1>7. \A i \in 0..n : i \in S
  <2> HIDE DEF S
  <2> QED BY <1>5, <1>6, UpTo
<1>8. n \in S
  BY <1>7
<1> QED BY <1>2, <1>3, <1>8

(* Picking no position leaves nothing.                                     *)
LEMMA PickNone ==
    ASSUME NEW D, NEW s \in Seq(D), NEW I, \A i \in DOMAIN s : i \notin I
    PROVE  Pick(s, I) = <<>>
<1>1. PICK r : r = Pick(s, I)
  OBVIOUS
<1>2. r \in Seq(D)
  BY <1>1, PickIs
<1>3. \A x : x \notin ToSet(r)
  BY <1>1, PickElements
<1>4. \A k \in DOMAIN r : r[k] \in ToSet(r)
  BY DEF ToSet
<1>5. r = <<>>
  BY <1>2, <1>3, <1>4
<1> QED BY <1>1, <1>5

-----------------------------------------------------------------------------
(* Each phase leaves a settled history alone.                              *)
LEMMA AllStay ==
    ASSUME NEW ms, Proper(ms), NEW stay,
           \A i \in DOMAIN ms : \A j \in DOMAIN ms[i].blocks : j \in stay[i]
    PROVE  PickBlocks(ms, stay) = ms
<1>0. ms \in Seq(Message) /\ \A i \in DOMAIN ms : ms[i] \in Message
  BY ProperFacts
<1>1. PICK p : p = PickBlocks(ms, stay)
  OBVIOUS
<1>2. ASSUME NEW i \in DOMAIN ms PROVE p[i] = ms[i]
  <2>1. PICK bs, k, m : bs = ms[i].blocks /\ k = stay[i] /\ m = ms[i]
    OBVIOUS
  <2>2. bs \in Seq(Entry) /\ m = Msg(m.role, bs)
    BY <1>0, <2>1, MessageFacts
  <2>3. \A j \in DOMAIN bs : j \in k
    BY <2>1
  <2>4. Pick(bs, k) = bs
    BY <2>2, <2>3, PickAll
  <2>5. p[i] = Msg(m.role, Pick(bs, k))
    BY <1>1, <2>1 DEF PickBlocks
  <2> QED BY <2>1, <2>2, <2>4, <2>5
<1>3. p = [i \in DOMAIN ms |-> p[i]]
  BY <1>1 DEF PickBlocks
<1>4. ms = [i \in DOMAIN ms |-> ms[i]]
  BY <1>0
<1>5. p = ms
  BY <1>2, <1>3, <1>4
<1> QED BY <1>1, <1>5

(* Without empty messages nothing is dropped.                              *)
LEMMA NoneDropped ==
    ASSUME NEW ms, Proper(ms), NoEmptyMessage(ms)
    PROVE  DropEmpty(ms) = ms
<1>1. ms \in Seq(Message)
  BY ProperFacts
<1>2. PICK I : I = {i \in DOMAIN ms : ms[i].blocks # <<>>}
  OBVIOUS
<1>3. \A i \in DOMAIN ms : i \in I
  BY <1>2 DEF NoEmptyMessage
<1>4. Pick(ms, I) = ms
  BY <1>1, <1>3, PickAll
<1> QED BY <1>2, <1>4 DEF DropEmpty

(* Without results waiting nothing is attached.                            *)
LEMMA NothingAttached ==
    ASSUME NEW ms, Proper(ms), NEW A, \A i \in DOMAIN ms : A[i] = <<>>
    PROVE  Attach(ms, A) = ms
<1>0. /\ ms \in Seq(Message) /\ Len(ms) \in Nat /\ DOMAIN ms = 1..Len(ms)
      /\ \A i \in DOMAIN ms : ms[i] \in Message
  BY ProperFacts
<1>1. PICK Z : Z = [i \in DOMAIN ms |->
          IF A[i] # <<>> /\ ~ (i < Len(ms) /\ ms[i + 1].role = "user")
          THEN <<IF i > 1 /\ ms[i].role = "user" THEN Msg("user", ms[i].blocks \o A[i - 1]) ELSE ms[i],
                 Msg("user", A[i])>>
          ELSE <<IF i > 1 /\ ms[i].role = "user" THEN Msg("user", ms[i].blocks \o A[i - 1]) ELSE ms[i]>>]
  OBVIOUS
<1>2. Attach(ms, A) = FlattenSeq(Z)
  BY <1>1 DEF Attach
<1>3. PICK I : I = DOMAIN ms
  OBVIOUS
<1>4. PICK Y : Y = [i \in DOMAIN ms |-> IF i \in I THEN <<ms[i]>> ELSE <<>>]
  OBVIOUS
<1>5. ASSUME NEW i \in DOMAIN ms PROVE Z[i] = Y[i]
  <2>1. PICK m : m = ms[i]
    OBVIOUS
  <2>2. m.blocks \in Seq(Entry) /\ m = Msg(m.role, m.blocks)
    BY <1>0, <2>1, MessageFacts
  <2>3. PICK q : q = IF i > 1 /\ m.role = "user" THEN Msg("user", m.blocks \o A[i - 1]) ELSE m
    OBVIOUS
  <2>4. q = m
    <3>1. CASE i > 1 /\ m.role = "user"
      <4>1. i - 1 \in DOMAIN ms
        BY <1>0, <3>1
      <4>2. A[i - 1] = <<>>
        BY <4>1
      <4>3. PICK bs : bs = m.blocks
        OBVIOUS
      <4>4. bs \o <<>> = bs
        BY <2>2, <4>3, ConcatEmptySeq
      <4> QED BY <2>2, <2>3, <3>1, <4>2, <4>3, <4>4
    <3>2. CASE ~ (i > 1 /\ m.role = "user")
      BY <2>3, <3>2
    <3> QED BY <3>1, <3>2
  <2>5. Z[i] = <<q>>
    BY <1>1, <2>1, <2>3
  <2>6. Y[i] = <<m>>
    BY <1>3, <1>4, <2>1
  <2> QED BY <2>4, <2>5, <2>6
<1>6. Z = [i \in DOMAIN ms |-> Z[i]] /\ Y = [i \in DOMAIN ms |-> Y[i]]
  BY <1>1, <1>4
<1>7. Z = Y
  BY <1>5, <1>6
<1>8. Pick(ms, I) = FlattenSeq(Y)
  BY <1>4 DEF Pick
<1>9. Pick(ms, I) = ms
  BY <1>0, <1>3, PickAll
<1> QED BY <1>2, <1>7, <1>8, <1>9

(* Phases 1 and 2 change nothing in a settled history.                     *)
LEMMA CleanFixed == ASSUME NEW r, Settled(r) PROVE Clean(r) = r
<1>0. Proper(r) /\ NoEmptyMessage(r) /\ Placed(r)
  BY DEF Settled
<1>1. PICK stay : stay = [i \in DOMAIN r |-> {j \in DOMAIN r[i].blocks : Known(r, r[i].blocks[j])}]
  OBVIOUS
<1>2. ASSUME NEW i \in DOMAIN r, NEW j \in DOMAIN r[i].blocks PROVE j \in stay[i]
  <2>1. PICK b : b = r[i].blocks[j]
    OBVIOUS
  <2>2. b \in ToSet(r[i].blocks)
    BY <2>1 DEF ToSet
  <2>3. Known(r, b)
    <3> SUFFICES ASSUME IsResult(b) PROVE b.n \in UseIds(r)
      BY DEF Known
    <3>1. b.n \in Answers(r[i])
      BY <2>2, AnswersAre
    <3>2. i # 1 /\ b.n \in Uses(r[i - 1])
      BY <1>0, <3>1 DEF Placed
    <3>3. i - 1 \in DOMAIN r
      BY <1>0, <3>2, ProperFacts
    <3> QED BY <3>2, <3>3, IdsAre
  <2> QED BY <1>1, <2>1, <2>3
<1>3. PickBlocks(r, stay) = r
  BY <1>0, <1>2, AllStay
<1>4. Clean(r) = DropEmpty(PickBlocks(r, stay))
  BY <1>1 DEF Clean
<1> QED BY <1>0, <1>3, <1>4, NoneDropped

(* Neither does phase 2d, deduplicate_tool_results ...                     *)
LEMMA DedupFixed == ASSUME NEW r, Settled(r) PROVE Dedup(r) = r
<1>0. Proper(r) /\ NoEmptyMessage(r) /\ Single(r)
  BY DEF Settled
<1>1. PICK stay : stay = [i \in DOMAIN r |-> {j \in DOMAIN r[i].blocks : ~ Repeats(r, i, j)}]
  OBVIOUS
<1>2. ASSUME NEW i \in DOMAIN r, NEW j \in DOMAIN r[i].blocks PROVE j \in stay[i]
  <2> SUFFICES ASSUME Repeats(r, i, j) PROVE FALSE
    BY <1>1
  <2>1. PICK k \in 1..i : \E l \in DOMAIN r[k].blocks :
             /\ (k < i) \/ (l < j)
             /\ IsResult(r[i].blocks[j]) /\ IsResult(r[k].blocks[l])
             /\ r[k].blocks[l].n = r[i].blocks[j].n
    BY DEF Repeats
  <2>2. PICK l \in DOMAIN r[k].blocks :
             /\ (k < i) \/ (l < j)
             /\ IsResult(r[i].blocks[j]) /\ IsResult(r[k].blocks[l])
             /\ r[k].blocks[l].n = r[i].blocks[j].n
    BY <2>1
  <2>3. k \in DOMAIN r /\ i \in Nat
    BY <1>0, ProperFacts
  <2>4. k = i /\ l = j
    BY <1>0, <2>2, <2>3 DEF Single
  <2>5. j \in Nat
    <3>1. r[i] \in Message
      BY <1>0, ProperFacts
    <3> QED BY <3>1, MessageFacts
  <2> QED BY <2>2, <2>3, <2>4, <2>5
<1>3. PickBlocks(r, stay) = r
  BY <1>0, <1>2, AllStay
<1>4. Dedup(r) = DropEmpty(PickBlocks(r, stay))
  BY <1>1 DEF Dedup
<1> QED BY <1>0, <1>3, <1>4, NoneDropped

(* ... nor phase 2e, remove_aborted_assistant_messages ...                 *)
LEMMA AbortedFixed == ASSUME NEW r, Settled(r) PROVE RemoveAborted(r) = r
<1>0. Proper(r) /\ Filled(r)
  BY DEF Settled
<1>1. r \in Seq(Message) /\ Len(r) \in Nat /\ DOMAIN r = 1..Len(r)
  BY <1>0, ProperFacts
<1>2. PICK I : I = {i \in DOMAIN r : i = Len(r) \/ ~ IsBlank(r[i])}
  OBVIOUS
<1>3. \A i \in DOMAIN r : i \in I
  BY <1>0, <1>1, <1>2 DEF Filled
<1>4. Pick(r, I) = r
  BY <1>1, <1>3, PickAll
<1> QED BY <1>2, <1>4 DEF RemoveAborted

(* ... nor phase 2c, insert_synthetic_results ...                          *)
LEMMA InsertFixed == ASSUME NEW r, Settled(r) PROVE InsertSynthetic(r) = r
<1>0. Proper(r) /\ UseIds(r) \subseteq ResultIds(r)
  BY DEF Settled
<1>1. \A i \in DOMAIN r : r[i] \in Message
  BY <1>0, ProperFacts
<1>2. PICK Z : Z = [i \in DOMAIN r |-> IF r[i].role = "assistant" THEN
            [j \in DOMAIN Pick(r[i].blocks, {j \in DOMAIN r[i].blocks :
                             r[i].blocks[j].k = "use" /\ r[i].blocks[j].n \notin ResultIds(r)})
             |-> Block("lost", Pick(r[i].blocks, {l \in DOMAIN r[i].blocks :
                             r[i].blocks[l].k = "use" /\ r[i].blocks[l].n \notin ResultIds(r)})[j].n)] ELSE <<>>]
  OBVIOUS
<1>3. InsertSynthetic(r) = Attach(r, Z)
  BY <1>2 DEF InsertSynthetic
<1>4. ASSUME NEW i \in DOMAIN r PROVE Z[i] = <<>>
  <2>1. PICK bs, J : bs = r[i].blocks /\ J = {j \in DOMAIN bs : bs[j].k = "use" /\ bs[j].n \notin ResultIds(r)}
    OBVIOUS
  <2>2. bs \in Seq(Entry)
    BY <1>1, <2>1, MessageFacts
  <2>3. \A j \in DOMAIN bs : j \notin J
    <3> SUFFICES ASSUME NEW j \in DOMAIN bs, bs[j].k = "use" PROVE bs[j].n \in ResultIds(r)
      BY <2>1
    <3>1. bs[j] \in ToSet(bs)
      BY DEF ToSet
    <3>2. bs[j].n \in Uses(r[i])
      BY <2>1, <3>1, UsesAre
    <3>3. bs[j].n \in UseIds(r)
      BY <3>2, IdsAre
    <3> QED BY <1>0, <3>3
  <2>4. Pick(bs, J) = <<>>
    BY <2>2, <2>3, PickNone
  <2>5. Z[i] = IF r[i].role = "assistant" THEN [j \in DOMAIN Pick(bs, J) |-> Block("lost", Pick(bs, J)[j].n)] ELSE <<>>
    BY <1>2, <2>1
  <2>6. [j \in DOMAIN <<>> |-> Block("lost", <<>>[j].n)] = <<>>
    OBVIOUS
  <2> QED BY <2>4, <2>5, <2>6
<1> QED BY <1>0, <1>3, <1>4, NothingAttached

(* ... nor phase 2b, reorder_tool_results ...                              *)
LEMMA ReorderFixed == ASSUME NEW r, Settled(r), Apart(r) PROVE Reorder(r) = r
<1>0. Proper(r) /\ Placed(r) /\ NoEmptyMessage(r)
  BY DEF Settled
<1>1. r \in Seq(Message) /\ Len(r) \in Nat /\ DOMAIN r = 1..Len(r)
  BY <1>0, ProperFacts
<1>2. PICK o : o = Reorder(r)
  OBVIOUS
<1>3. PICK stay, L, I, K, A, f : Reordered(r, o, stay, L, I, K, A, f)
  BY <1>0, <1>2, ReorderShape
<1>4. ASSUME NEW i \in DOMAIN r, NEW j \in DOMAIN r[i].blocks PROVE ~ Misplaced(r, i, r[i].blocks[j])
  <2> SUFFICES ASSUME Misplaced(r, i, r[i].blocks[j]) PROVE FALSE
    OBVIOUS
  <2>1. PICK b, h : b = r[i].blocks[j] /\ h = Home(r, b.n)
    OBVIOUS
  <2>2. IsResult(b) /\ i # h + 1
    BY <2>1 DEF Misplaced
  <2>3. b \in ToSet(r[i].blocks)
    BY <2>1 DEF ToSet
  <2>4. b.n \in Answers(r[i])
    BY <2>2, <2>3, AnswersAre
  <2>5. i # 1 /\ b.n \in Uses(r[i - 1])
    BY <1>0, <2>4 DEF Placed
  <2>6. i - 1 \in DOMAIN r
    BY <1>1, <2>5
  <2>7. b.n \in UseIds(r)
    BY <2>5, <2>6, IdsAre
  <2>8. h \in DOMAIN r /\ b.n \in Uses(r[h])
    BY <1>0, <2>1, <2>7, HomeIs
  <2>9. h = i - 1
    BY <2>5, <2>6, <2>8 DEF Apart
  <2> QED BY <1>1, <2>2, <2>6, <2>9
<1>5. /\ \A i \in DOMAIN r : \A j \in DOMAIN r[i].blocks : j \in stay[i]
      /\ L = PickBlocks(r, stay)
      /\ I = {i \in DOMAIN L : L[i].blocks # <<>>}
      /\ Chosen(L, I, K, f)
      /\ o = Attach(K, A)
  BY <1>3, <1>4 DEF Reordered
<1>6. L = r
  BY <1>0, <1>5, AllStay
<1>7. K \in Seq(Message)
  BY <1>3 DEF Reordered
<1>8. \A i \in DOMAIN r : i \in I
  BY <1>0, <1>5, <1>6 DEF NoEmptyMessage
<1>9. Chosen(r, I, K, f)
  BY <1>5, <1>6
<1>10. K = r
  BY <1>1, <1>7, <1>8, <1>9, ChosenAll
<1>11. \A k \in DOMAIN K : A[k] \in Seq(Entry) /\ \A b : b \in ToSet(A[k]) <=> MovesTo(r, f[k], b)
  BY <1>3 DEF Reordered
<1>12. ASSUME NEW k \in DOMAIN r PROVE A[k] = <<>>
  <2> SUFFICES ASSUME A[k] # <<>> PROVE FALSE
    OBVIOUS
  <2>1. A[k] \in Seq(Entry)
    BY <1>10, <1>11
  <2>2. PICK b \in Entry : b \in ToSet(A[k])
    BY <2>1, NotEmptyHas
  <2>3. PICK a : a = f[k]
    OBVIOUS
  <2>4. MovesTo(r, a, b)
    BY <1>10, <1>11, <2>2, <2>3
  <2> QED BY <1>4, <2>4 DEF MovesTo
<1> QED BY <1>0, <1>2, <1>5, <1>10, <1>12, NothingAttached

(* ... nor phase 3.                                                        *)
LEMMA MergeFixed == ASSUME NEW r, Settled(r) PROVE MergeRoles(r) = r
<1>0. Proper(r) /\ Alternates(r)
  BY DEF Settled
<1>1. /\ r \in Seq(Message) /\ Len(r) \in Nat /\ DOMAIN r = 1..Len(r)
      /\ \A i \in DOMAIN r : r[i] \in Message
  BY <1>0, ProperFacts
<1>2. PICK n : n = Len(r)
  OBVIOUS
<1>3. n \in Nat /\ DOMAIN r = 1..n
  BY <1>1, <1>2
<1>4. PICK ST : ST = {i \in DOMAIN r : i > 1 => r[i - 1].role # r[i].role}
  OBVIOUS
<1>5. ASSUME NEW i \in DOMAIN r PROVE i \in ST
  <2> SUFFICES ASSUME i > 1 PROVE r[i - 1].role # r[i].role
    BY <1>4
  <2>1. PICK h : h = i - 1
    OBVIOUS
  <2>2. h \in 1..(Len(r) - 1) /\ h + 1 = i
    BY <1>1, <2>1
  <2>3. r[h].role # r[h + 1].role
    BY <1>0, <2>2 DEF Alternates
  <2> QED BY <2>1, <2>2, <2>3
<1>6. PICK M : M = [i \in DOMAIN r |-> Msg(r[i].role, FlattenSeq(Pieces(r, ST, i)))]
  OBVIOUS
<1>7. MergeRoles(r) = Pick(M, ST)
  <2>1. PICK Z : Z = [i \in DOMAIN r |-> Msg(r[i].role, FlattenSeq([j \in DOMAIN r |->
                        IF j \in {h \in DOMAIN r : i <= h /\ \A l \in (i + 1)..h : l \notin ST}
                        THEN r[j].blocks ELSE <<>>]))]
    OBVIOUS
  <2>2. Z = M
    BY <1>6, <2>1 DEF Pieces, Run
  <2>3. MergeRoles(r) = Pick(Z, ST)
    BY <1>4, <2>1 DEF MergeRoles
  <2> QED BY <2>2, <2>3
<1>8. ASSUME NEW i \in DOMAIN r PROVE M[i] = r[i]
  <2>1. PICK P, m : P = Pieces(r, ST, i) /\ m = r[i]
    OBVIOUS
  <2>2. m.blocks \in Seq(Entry) /\ m = Msg(m.role, m.blocks)
    BY <1>1, <2>1, MessageFacts
  <2>3. \A j \in 1..n : j \in Run(r, ST, i) <=> j = i
    <3>1. ASSUME NEW j \in 1..n, j \in Run(r, ST, i), j # i PROVE FALSE
      <4>1. i <= j /\ \A l \in (i + 1)..j : l \notin ST
        BY <3>1 DEF Run
      <4>2. j \in (i + 1)..j
        BY <1>3, <3>1, <4>1
      <4> QED BY <1>3, <1>5, <4>1, <4>2
    <3>2. i \in Run(r, ST, i)
      <4>1. (i + 1)..i = {} /\ i <= i
        BY <1>3
      <4> QED BY <4>1 DEF Run
    <3> QED BY <3>1, <3>2
  <2>4. \A j \in 1..n : P[j] = IF j = i THEN r[j].blocks ELSE <<>>
    BY <1>3, <2>1, <2>3 DEF Pieces
  <2>5. \A j \in 1..n : r[j].blocks \in Seq(Entry) /\ <<>> \in Seq(Entry)
    BY <1>1, <1>3, MessageFacts
  <2>6. P = [j \in 1..n |-> P[j]]
    BY <1>3, <2>1 DEF Pieces
  <2>7. P \in [1..n -> Seq(Entry)]
    BY <2>4, <2>5, <2>6
  <2>8. FlattenSeq(P) = P[i]
    <3>1. i \in 1..n /\ \A j \in 1..n : j # i => P[j] = <<>>
      BY <1>3, <2>4
    <3>2. n \in Nat
      BY <1>3
    <3> QED BY <2>7, <3>1, <3>2, FlattenOne
  <2>9. P[i] = m.blocks
    BY <1>3, <2>1, <2>4
  <2>10. M[i] = Msg(m.role, FlattenSeq(P))
    BY <1>6, <2>1
  <2> QED BY <2>1, <2>2, <2>8, <2>9, <2>10
<1>9. M = r
  <2>1. M = [i \in DOMAIN r |-> M[i]]
    BY <1>6
  <2>2. r = [i \in DOMAIN r |-> r[i]]
    BY <1>1
  <2> QED BY <1>8, <2>1, <2>2
<1>10. Pick(r, ST) = r
  BY <1>1, <1>5, PickAll
<1> QED BY <1>7, <1>9, <1>10

(* So a repaired history is a fixed point of validate_and_repair.          *)
LEMMA SettledFixed == ASSUME NEW r, Settled(r), Apart(r) PROVE Repair(r) = r
BY CleanFixed, ReorderFixed, InsertFixed, DedupFixed, AbortedFixed, MergeFixed DEF Repair
-----------------------------------------------------------------------------
(* What the repair loses and reports as lost.                              *)
Content(ms) == {b \in Blocks(ms) : /\ b.k \notin {"blank", "lost"}
                                   /\ b.k = "result" => b.n \in UseIds(ms)}

(* The numbers of the blocks of one kind.                                  *)
IdsOf(ms, k) == {b.n : b \in {x \in Blocks(ms) : x.k = k}}

(* No call of the history has both a result and a synthetic one.           *)
NoBoth(ms) == \A x : Block("lost", x) \in Blocks(ms) => Block("result", x) \notin Blocks(ms)

(* A block of a history is its kind and its number.                        *)
LEMMA BlockIs ==
    ASSUME NEW ms, Proper(ms), NEW b \in Blocks(ms)
    PROVE  b \in Entry /\ b = Block(b.k, b.n) /\ (IsResult(b) <=> b.k = "result" \/ b.k = "lost")
<1>1. PICK i \in DOMAIN ms : b \in ToSet(ms[i].blocks)
  BY BlocksAre
<1>2. ms[i] \in Message
  BY ProperFacts
<1>3. b \in Entry
  BY <1>1, <1>2, MessageFacts
<1>4. b = Block(b.k, b.n)
  BY <1>3 DEF Entry, Block
<1> QED BY <1>3, <1>4 DEF IsResult

(* Repairing a history without such a call loses no content and reports    *)
(* as lost the calls without a result.                                     *)
LEMMA RepairLoses ==
    ASSUME NEW ms, Proper(ms), NoBoth(ms), NEW r, r = Repair(ms)
    PROVE  Content(r) = Content(ms) /\ IdsOf(r, "lost") = UseIds(ms) \ IdsOf(ms, "result")
<1>1. Repaired(ms, r)
  BY RepairIs
<1>2. /\ UseIds(r) = UseIds(ms) /\ ResultIds(r) = UseIds(ms)
      /\ \A b : b \in Blocks(r) =>
            \/ b \in Blocks(ms) /\ Known(ms, b)
            \/ \E x \in UseIds(ms) : x \notin ResultIds(ms) /\ b = Block("lost", x)
      /\ \A b : b \in Blocks(ms) /\ ~ IsResult(b) /\ b.k # "blank" => b \in Blocks(r)
  BY <1>1 DEF Repaired
<1>3. Proper(r)
  BY <1>1 DEF Repaired, Settled
<1>4. \A x : Block("lost", x).k = "lost" /\ Block("lost", x).n = x /\ IsResult(Block("lost", x))
  BY DEF Block, IsResult
<1>5. ASSUME NEW b \in Content(ms) PROVE b \in Content(r)
  <2>1. b \in Blocks(ms) /\ b.k \notin {"blank", "lost"} /\ (b.k = "result" => b.n \in UseIds(ms))
    BY <1>5 DEF Content
  <2>2. b \in Blocks(r)
    <3>1. CASE ~ IsResult(b)
      BY <1>2, <2>1, <3>1
    <3>2. CASE IsResult(b)
      <4>1. b.k = "result" /\ b = Block("result", b.n)
        BY <2>1, <3>2, BlockIs
      <4>2. b.n \in ResultIds(r)
        BY <1>2, <2>1, <4>1
      <4>3. PICK c \in Blocks(r) : IsResult(c) /\ c.n = b.n
        BY <4>2, IdsOfBlocks
      <4>4. b.n \in ResultIds(ms)
        BY <2>1, <3>2, IdsOfBlocks
      <4>5. c \in Blocks(ms)
        BY <1>2, <1>4, <4>3, <4>4
      <4>6. c = Block(c.k, b.n) /\ (c.k = "result" \/ c.k = "lost")
        BY <4>3, <4>5, BlockIs
      <4>7. c.k # "lost"
        BY <2>1, <4>1, <4>5, <4>6 DEF NoBoth
      <4> QED BY <4>1, <4>3, <4>6, <4>7
    <3> QED BY <3>1, <3>2
  <2> QED BY <1>2, <2>1, <2>2 DEF Content
<1>6. ASSUME NEW b \in Content(r) PROVE b \in Content(ms)
  <2>1. b \in Blocks(r) /\ b.k \notin {"blank", "lost"} /\ (b.k = "result" => b.n \in UseIds(r))
    BY <1>6 DEF Content
  <2>2. b \in Blocks(ms)
    BY <1>2, <1>4, <2>1
  <2> QED BY <1>2, <2>1, <2>2 DEF Content
<1>7. ASSUME NEW x \in IdsOf(r, "lost") PROVE x \in UseIds(ms) \ IdsOf(ms, "result")
  <2>1. PICK b \in Blocks(r) : b.k = "lost" /\ b.n = x
    BY <1>7 DEF IdsOf
  <2>2. IsResult(b)
    BY <2>1 DEF IsResult
  <2>3. CASE b \in Blocks(ms) /\ Known(ms, b)
    <3>1. x \in UseIds(ms) /\ b = Block("lost", x)
      BY <2>1, <2>2, <2>3, BlockIs DEF Known
    <3>2. ASSUME NEW c \in Blocks(ms), c.k = "result", c.n = x PROVE FALSE
      <4>1. c = Block("result", x)
        BY <3>2, BlockIs
      <4> QED BY <2>3, <3>1, <4>1 DEF NoBoth
    <3> QED BY <3>1, <3>2 DEF IdsOf
  <2>4. CASE \E y \in UseIds(ms) : y \notin ResultIds(ms) /\ b = Block("lost", y)
    <3>1. x \in UseIds(ms) /\ x \notin ResultIds(ms)
      BY <1>4, <2>1, <2>4
    <3>2. ASSUME NEW c \in Blocks(ms), c.k = "result", c.n = x PROVE FALSE
      <4>1. IsResult(c)
        BY <3>2 DEF IsResult
      <4> QED BY <3>1, <3>2, <4>1, IdsOfBlocks
    <3> QED BY <3>1, <3>2 DEF IdsOf
  <2> QED BY <1>2, <2>3, <2>4
<1>8. ASSUME NEW x \in UseIds(ms), x \notin IdsOf(ms, "result") PROVE x \in IdsOf(r, "lost")
  <2>1. x \in ResultIds(r)
    BY <1>2
  <2>2. PICK b \in Blocks(r) : IsResult(b) /\ b.n = x
    BY <2>1, IdsOfBlocks
  <2>3. b.k = "result" \/ b.k = "lost"
    BY <2>2 DEF IsResult
  <2>4. b.k # "result"
    <3> SUFFICES ASSUME b.k = "result" PROVE FALSE
      OBVIOUS
    <3>1. b \in Blocks(ms)
      BY <1>2, <1>4
    <3> QED BY <1>8, <2>2, <3>1 DEF IdsOf
  <2> QED BY <2>2, <2>3, <2>4 DEF IdsOf
<1> QED BY <1>5, <1>6, <1>7, <1>8

(* In a row as the loop and the repair write it, no call of an id of its   *)
(* own has both.                                                           *)
LEMMA SoundNoBoth ==
    ASSUME NEW ms, Proper(ms), LostSound(ms), Apart(ms)
    PROVE  NoBoth(ms)
<1> SUFFICES ASSUME NEW x, Block("lost", x) \in Blocks(ms), Block("result", x) \in Blocks(ms)
             PROVE  FALSE
  BY DEF NoBoth
<1>1. Block("lost", x).k = "lost" /\ Block("lost", x).n = x
  BY DEF Block
<1>2. PICK i \in DOMAIN ms : Block("lost", x) \in ToSet(ms[i].blocks)
  BY BlocksAre
<1>3. PICK l \in DOMAIN ms : Block("result", x) \in ToSet(ms[l].blocks)
  BY BlocksAre
<1>4. PICK p, q \in DOMAIN ms : p < q /\ x \in Uses(ms[p]) /\ x \in Uses(ms[q])
  BY <1>1, <1>2, <1>3 DEF LostSound
<1>5. p # q
  BY <1>4, ProperFacts
<1> QED BY <1>4, <1>5 DEF Apart

(* The repair writes such rows.                                            *)
LEMMA SettledLostSound ==
    ASSUME NEW r, Settled(r)
    PROVE  LostSound(r)
<1>0. Proper(r) /\ Placed(r) /\ Single(r)
  BY DEF Settled
<1>1. DOMAIN r = 1..Len(r) /\ Len(r) \in Nat
  BY <1>0, ProperFacts
<1> SUFFICES ASSUME NEW i \in DOMAIN r, NEW b \in ToSet(r[i].blocks), b.k = "lost"
             PROVE  /\ \E j \in DOMAIN r : j < i /\ b.n \in Uses(r[j])
                    /\ \A l \in DOMAIN r : Block("result", b.n) \notin ToSet(r[l].blocks)
  BY DEF LostSound
<1>2. IsResult(b)
  BY DEF IsResult
<1>3. b.n \in Answers(r[i])
  BY <1>2, AnswersAre
<1>4. i # 1 /\ b.n \in Uses(r[i - 1])
  BY <1>0, <1>3 DEF Placed
<1>5. i - 1 \in DOMAIN r /\ i - 1 < i
  BY <1>1, <1>4
<1>6. ASSUME NEW l \in DOMAIN r, Block("result", b.n) \in ToSet(r[l].blocks) PROVE FALSE
  <2>1. IsResult(Block("result", b.n)) /\ Block("result", b.n).n = b.n /\ Block("result", b.n).k = "result"
    BY DEF IsResult, Block
  <2>2. PICK j \in DOMAIN r[i].blocks : b = r[i].blocks[j]
    BY DEF ToSet
  <2>3. PICK k \in DOMAIN r[l].blocks : Block("result", b.n) = r[l].blocks[k]
    BY <1>6 DEF ToSet
  <2>4. i = l /\ j = k
    BY <1>0, <1>2, <2>1, <2>2, <2>3 DEF Single
  <2> QED BY <2>1, <2>2, <2>3, <2>4
<1> QED BY <1>4, <1>5, <1>6
-----------------------------------------------------------------------------
(* What the steps of a turn do to a row.                                   *)
Grown(ms, m, r) ==
    /\ r \in Seq(Message) /\ Len(r) = Len(ms) + 1 /\ DOMAIN r = 1..(Len(ms) + 1)
    /\ Len(ms) \in Nat /\ DOMAIN ms = 1..Len(ms)
    /\ \A i \in DOMAIN ms : r[i] = ms[i]
    /\ r[Len(ms) + 1] = m
    /\ \A b : b \in Blocks(r) <=> b \in Blocks(ms) \/ b \in ToSet(m.blocks)

(* A message more.                                                         *)
LEMMA AppendIs ==
    ASSUME NEW ms \in Seq(Message), NEW m \in Message, NEW r, r = Append(ms, m)
    PROVE  Grown(ms, m, r)
<1>1. PICK n : n = Len(ms)
  OBVIOUS
<1>2. n \in Nat /\ DOMAIN ms = 1..n
  BY <1>1
<1>3. r \in Seq(Message) /\ Len(r) = n + 1 /\ r[n + 1] = m /\ \A i \in 1..n : r[i] = ms[i]
  BY <1>1, <1>2
<1>4. DOMAIN r = 1..(n + 1)
  BY <1>3
<1>5. ASSUME NEW b PROVE b \in Blocks(r) <=> b \in Blocks(ms) \/ b \in ToSet(m.blocks)
  <2>1. ASSUME NEW i \in DOMAIN r, b \in ToSet(r[i].blocks)
        PROVE  b \in Blocks(ms) \/ b \in ToSet(m.blocks)
    <3>1. CASE i = n + 1
      BY <1>3, <2>1, <3>1
    <3>2. CASE i \in 1..n
      BY <1>2, <1>3, <2>1, <3>2, BlocksAre
    <3> QED BY <1>2, <1>4, <3>1, <3>2
  <2>2. ASSUME NEW i \in DOMAIN ms, b \in ToSet(ms[i].blocks) PROVE b \in Blocks(r)
    <3>1. i \in DOMAIN r /\ r[i] = ms[i]
      BY <1>2, <1>3, <1>4
    <3> QED BY <2>2, <3>1, BlocksAre
  <2>3. ASSUME b \in ToSet(m.blocks) PROVE b \in Blocks(r)
    <3>1. n + 1 \in DOMAIN r
      BY <1>2, <1>4
    <3> QED BY <1>3, <2>3, <3>1, BlocksAre
  <2> QED BY <2>1, <2>2, <2>3, BlocksAre
<1> QED BY <1>1, <1>2, <1>3, <1>4, <1>5 DEF Grown

(* The message a step may append to a row: no synthetic results, and       *)
(* results only of the calls in the message before.                        *)
Fit(ms, m) ==
    /\ m \in Message
    /\ m.role = "user" => Uses(m) = {}
    /\ m.role = "assistant" => Answers(m) = {}
    /\ \A b \in ToSet(m.blocks) : /\ b.k # "lost"
                                  /\ b.k = "result" => Len(ms) > 0 /\ b.n \in Uses(ms[Len(ms)])

(* A row stays sound when such a message is appended.                      *)
LEMMA FitKeepsRow ==
    ASSUME NEW ms, Proper(ms), LostSound(ms), NEW m, Fit(ms, m), NEW r, r = Append(ms, m)
    PROVE  Proper(r) /\ LostSound(r)
<1>0. ms \in Seq(Message) /\ m \in Message
  BY ProperFacts DEF Fit
<1>1. Grown(ms, m, r)
  BY <1>0, AppendIs
<1>2. PICK n : n = Len(ms)
  OBVIOUS
<1>3. /\ r \in Seq(Message) /\ DOMAIN r = 1..(n + 1) /\ n \in Nat /\ DOMAIN ms = 1..n
      /\ \A i \in 1..n : r[i] = ms[i]
      /\ r[n + 1] = m
  BY <1>1, <1>2 DEF Grown
<1>4. ASSUME NEW i \in DOMAIN r
      PROVE  (r[i].role = "user" => Uses(r[i]) = {}) /\ (r[i].role = "assistant" => Answers(r[i]) = {})
  <2>1. CASE i = n + 1
    BY <1>3, <2>1 DEF Fit
  <2>2. CASE i \in 1..n
    BY <1>3, <2>2, ProperFacts
  <2>3. i = n + 1 \/ i \in 1..n
    BY <1>3
  <2> QED BY <2>1, <2>2, <2>3
<1>5. Proper(r)
  BY <1>3, <1>4 DEF Proper
<1>6. ASSUME NEW i \in DOMAIN r, NEW b \in ToSet(r[i].blocks), b.k = "lost"
      PROVE  /\ \E j \in DOMAIN r : j < i /\ b.n \in Uses(r[j])
             /\ \A l \in DOMAIN r : Block("result", b.n) \in ToSet(r[l].blocks) =>
                   \E p, q \in DOMAIN r : /\ p < q /\ (q < i \/ q < l)
                                          /\ b.n \in Uses(r[p]) /\ b.n \in Uses(r[q])
  <2>1. i # n + 1
    BY <1>3, <1>6 DEF Fit
  <2>2. i \in DOMAIN ms /\ b \in ToSet(ms[i].blocks)
    BY <1>3, <1>6, <2>1
  <2>3. PICK j \in DOMAIN ms : j < i /\ b.n \in Uses(ms[j])
    BY <1>6, <2>2 DEF LostSound
  <2>4. j \in DOMAIN r /\ r[j] = ms[j]
    BY <1>3
  <2>5. ASSUME NEW l \in DOMAIN r, Block("result", b.n) \in ToSet(r[l].blocks)
        PROVE  \E p, q \in DOMAIN r : /\ p < q /\ (q < i \/ q < l)
                                      /\ b.n \in Uses(r[p]) /\ b.n \in Uses(r[q])
    <3>1. CASE l \in 1..n
      <4>1. l \in DOMAIN ms /\ Block("result", b.n) \in ToSet(ms[l].blocks)
        BY <1>3, <2>5, <3>1
      <4>2. PICK p, q \in DOMAIN ms : p < q /\ (q < i \/ q < l) /\ b.n \in Uses(ms[p]) /\ b.n \in Uses(ms[q])
        BY <1>6, <2>2, <4>1 DEF LostSound
      <4>3. p \in DOMAIN r /\ q \in DOMAIN r /\ r[p] = ms[p] /\ r[q] = ms[q]
        BY <1>3, <4>2
      <4> QED BY <4>2, <4>3
    <3>2. CASE l = n + 1
      <4>1. PICK c : c = Block("result", b.n)
        OBVIOUS
      <4>2. c \in ToSet(m.blocks) /\ c.k = "result" /\ c.n = b.n
        BY <1>3, <2>5, <3>2, <4>1 DEF Block
      <4>3. n > 0 /\ b.n \in Uses(ms[n])
        BY <1>2, <4>2 DEF Fit
      <4>4. n \in DOMAIN r /\ r[n] = ms[n] /\ j < n /\ n < l
        BY <1>3, <2>2, <2>3, <3>2, <4>3
      <4> QED BY <2>3, <2>4, <4>3, <4>4
    <3> QED BY <1>3, <3>1, <3>2
  <2> QED BY <2>3, <2>4, <2>5
<1>7. PICK s : s = r
  OBVIOUS
<1>8. LostSound(s)
  <2> SUFFICES ASSUME NEW i \in DOMAIN s, NEW b \in ToSet(s[i].blocks), b.k = "lost"
               PROVE  /\ \E j \in DOMAIN s : j < i /\ b.n \in Uses(s[j])
                      /\ \A l \in DOMAIN s : Block("result", b.n) \in ToSet(s[l].blocks) =>
                            \E p, q \in DOMAIN s : /\ p < q /\ (q < i \/ q < l)
                                                   /\ b.n \in Uses(s[p]) /\ b.n \in Uses(s[q])
    BY DEF LostSound
  <2> QED BY <1>6, <1>7
<1> QED BY <1>5, <1>7, <1>8

(* What retry_last_turn leaves of a row.                                   *)
LEMMA PrefixKeepsRow ==
    ASSUME NEW ms, Proper(ms), LostSound(ms), NEW e \in DOMAIN ms, NEW r, r = SubSeq(ms, 1, e - 1)
    PROVE  Proper(r) /\ LostSound(r)
<1>1. ms \in Seq(Message) /\ Len(ms) \in Nat /\ DOMAIN ms = 1..Len(ms) /\ \A i \in DOMAIN ms : ms[i] \in Message
  BY ProperFacts
<1>2. e \in Nat /\ e - 1 \in Nat /\ e - 1 <= Len(ms)
  BY <1>1
<1>3. PICK d, s : d = e - 1 /\ s = r
  OBVIOUS
<1>4. d \in Nat /\ d <= Len(ms) /\ s = SubSeq(ms, 1, d)
  BY <1>2, <1>3
<1>5. Len(s) = d /\ s \in Seq(Message) /\ \A i \in 1..d : s[i] = ms[i]
  BY <1>1, <1>4
<1>6. DOMAIN s = 1..(e - 1) /\ \A i \in 1..(e - 1) : i \in DOMAIN ms /\ s[i] = ms[i]
  BY <1>1, <1>2, <1>3, <1>5
<1>7. Proper(s)
  <2>1. \A i \in DOMAIN s : (s[i].role = "user" => Uses(s[i]) = {}) /\ (s[i].role = "assistant" => Answers(s[i]) = {})
    BY <1>6, ProperFacts
  <2> QED BY <1>5, <2>1 DEF Proper
<1> SUFFICES LostSound(s)
  BY <1>3, <1>7
<1> SUFFICES ASSUME NEW i \in DOMAIN s, NEW b \in ToSet(s[i].blocks), b.k = "lost"
             PROVE  /\ \E j \in DOMAIN s : j < i /\ b.n \in Uses(s[j])
                    /\ \A l \in DOMAIN s : Block("result", b.n) \in ToSet(s[l].blocks) =>
                          \E p, q \in DOMAIN s : /\ p < q /\ (q < i \/ q < l)
                                                 /\ b.n \in Uses(s[p]) /\ b.n \in Uses(s[q])
  BY DEF LostSound
<1>8. i \in 1..(e - 1) /\ i \in DOMAIN ms /\ b \in ToSet(ms[i].blocks)
  BY <1>6
<1>9. PICK j \in DOMAIN ms : j < i /\ b.n \in Uses(ms[j])
  BY <1>8 DEF LostSound
<1>10. j \in DOMAIN s /\ s[j] = ms[j]
  BY <1>1, <1>2, <1>6, <1>8, <1>9
<1>11. ASSUME NEW l \in DOMAIN s, Block("result", b.n) \in ToSet(s[l].blocks)
      PROVE  \E p, q \in DOMAIN s : /\ p < q /\ (q < i \/ q < l)
                                    /\ b.n \in Uses(s[p]) /\ b.n \in Uses(s[q])
  <2>1. l \in DOMAIN ms /\ l \in 1..(e - 1) /\ Block("result", b.n) \in ToSet(ms[l].blocks)
    BY <1>6, <1>11
  <2>2. PICK p, q \in DOMAIN ms : p < q /\ (q < i \/ q < l) /\ b.n \in Uses(ms[p]) /\ b.n \in Uses(ms[q])
    BY <1>8, <2>1 DEF LostSound
  <2>3. p \in DOMAIN s /\ q \in DOMAIN s /\ s[p] = ms[p] /\ s[q] = ms[q]
    BY <1>1, <1>2, <1>6, <1>8, <2>1, <2>2
  <2> QED BY <2>2, <2>3
<1> QED BY <1>9, <1>10, <1>11

(* A row of which only messages without calls are removed.                 *)
LEMMA ChosenKeepsRow ==
    ASSUME NEW s, Proper(s), LostSound(s), NEW I, NEW r \in Seq(Message), NEW f, Chosen(s, I, r, f),
           \A i \in DOMAIN s : i \notin I => Uses(s[i]) = {}
    PROVE  LostSound(r)
<1>1. s \in Seq(Message) /\ Len(s) \in Nat /\ DOMAIN s = 1..Len(s)
  BY ProperFacts
<1>2. DOMAIN r = 1..Len(r) /\ Len(r) \in Nat
  OBVIOUS
<1>3. Chosen(s, I, r, f)
  OBVIOUS
<1>4. \A k \in DOMAIN r : f[k] \in DOMAIN s /\ r[k] = s[f[k]]
  BY <1>2, <1>3 DEF Chosen
<1>5. \A j, k \in DOMAIN r : j < k => f[j] < f[k]
  BY <1>2, <1>3 DEF Chosen
<1>6. \A i \in DOMAIN s : i \in I => \E k \in DOMAIN r : f[k] = i
  BY <1>2, <1>3 DEF Chosen
<1>7. ASSUME NEW i \in DOMAIN s, NEW x \in Uses(s[i])
      PROVE  \E k \in DOMAIN r : f[k] = i /\ x \in Uses(r[k])
  <2>1. i \in I
    BY <1>7
  <2>2. PICK k \in DOMAIN r : f[k] = i
    BY <1>6, <2>1
  <2> QED BY <1>4, <1>7, <2>2
<1>8. ASSUME NEW j \in DOMAIN r, NEW k \in DOMAIN r, f[j] < f[k] PROVE j < k
  <2>1. PICK a, c : a = f[j] /\ c = f[k]
    OBVIOUS
  <2>2. a \in Nat /\ c \in Nat /\ a < c
    BY <1>1, <1>4, <1>8, <2>1
  <2>3. ~ (k < j)
    <3>1. k < j => c < a
      BY <1>5, <2>1
    <3> QED BY <2>2, <3>1
  <2>4. k # j
    BY <2>1, <2>2
  <2> QED BY <1>2, <2>3, <2>4
<1> SUFFICES ASSUME NEW i \in DOMAIN r, NEW b \in ToSet(r[i].blocks), b.k = "lost"
             PROVE  /\ \E j \in DOMAIN r : j < i /\ b.n \in Uses(r[j])
                    /\ \A l \in DOMAIN r : Block("result", b.n) \in ToSet(r[l].blocks) =>
                          \E p, q \in DOMAIN r : /\ p < q /\ (q < i \/ q < l)
                                                 /\ b.n \in Uses(r[p]) /\ b.n \in Uses(r[q])
  BY DEF LostSound
<1>9. f[i] \in DOMAIN s /\ b \in ToSet(s[f[i]].blocks)
  BY <1>4
<1>10. PICK c : c = f[i]
  OBVIOUS
<1>11. c \in DOMAIN s /\ b \in ToSet(s[c].blocks)
  BY <1>9, <1>10
<1>12. \E j \in DOMAIN r : j < i /\ b.n \in Uses(r[j])
  <2>1. PICK d \in DOMAIN s : d < c /\ b.n \in Uses(s[d])
    BY <1>11 DEF LostSound
  <2>2. PICK j \in DOMAIN r : f[j] = d /\ b.n \in Uses(r[j])
    BY <1>7, <2>1
  <2>3. f[j] < f[i]
    BY <1>10, <2>1, <2>2
  <2> QED BY <1>8, <2>2, <2>3
<1>13. ASSUME NEW l \in DOMAIN r, Block("result", b.n) \in ToSet(r[l].blocks)
       PROVE  \E p, q \in DOMAIN r : /\ p < q /\ (q < i \/ q < l)
                                     /\ b.n \in Uses(r[p]) /\ b.n \in Uses(r[q])
  <2>1. PICK e : e = f[l]
    OBVIOUS
  <2>2. e \in DOMAIN s /\ Block("result", b.n) \in ToSet(s[e].blocks)
    BY <1>4, <1>13, <2>1
  <2>3. PICK u, v \in DOMAIN s : u < v /\ (v < c \/ v < e) /\ b.n \in Uses(s[u]) /\ b.n \in Uses(s[v])
    BY <1>11, <2>2 DEF LostSound
  <2>4. PICK p \in DOMAIN r : f[p] = u /\ b.n \in Uses(r[p])
    BY <1>7, <2>3
  <2>5. PICK q \in DOMAIN r : f[q] = v /\ b.n \in Uses(r[q])
    BY <1>7, <2>3
  <2>6. f[p] < f[q] /\ (f[q] < f[i] \/ f[q] < f[l])
    BY <1>10, <2>1, <2>3, <2>4, <2>5
  <2>7. p < q /\ (q < i \/ q < l)
    BY <1>8, <2>6
  <2> QED BY <2>4, <2>5, <2>7
<1> QED BY <1>12, <1>13

(* prune_heartbeat_turns: a row stays sound, and a row as long as before   *)
(* is the same row.                                                        *)
LEMMA PruneKeepsRow ==
    ASSUME NEW ms, Proper(ms), LostSound(ms), NEW keep \in Nat, NEW r, r = PruneHeartbeats(ms, keep)
    PROVE  Proper(r) /\ LostSound(r) /\ (Len(r) = Len(ms) => r = ms)
<1>1. ms \in Seq(Message) /\ Len(ms) \in Nat /\ DOMAIN ms = 1..Len(ms)
  BY ProperFacts
<1>2. PICK silent, trigger, I :
         /\ silent = {i \in 1..(Len(ms) - keep) : IsSilent(ms[i])}
         /\ trigger = {i \in DOMAIN ms : i + 1 \in silent /\ ms[i].role = "user"}
         /\ I = DOMAIN ms \ (silent \cup trigger)
  OBVIOUS
<1>3. r = Pick(ms, I)
  BY <1>2 DEF PruneHeartbeats
<1>4. r \in Seq(Message) /\ \E f : Chosen(ms, I, r, f)
  BY <1>1, <1>3, PickIs
<1>5. PICK f : Chosen(ms, I, r, f)
  BY <1>4
<1>6. ASSUME NEW i \in DOMAIN ms, i \notin I PROVE Uses(ms[i]) = {}
  <2>1. CASE i \in silent
    <3>1. Len(ms[i].blocks) = 1 /\ ms[i].blocks[1].k = "silent" /\ ms[i].blocks \in Seq(Entry)
      BY <1>2, <2>1, ProperFacts, MessageFacts DEF IsSilent
    <3>2. PICK bs : bs = ms[i].blocks
      OBVIOUS
    <3>3. \A b \in ToSet(bs) : b.k = "silent"
      <4>1. DOMAIN bs = 1..1 /\ bs[1].k = "silent"
        BY <3>1, <3>2
      <4> QED BY <4>1 DEF ToSet
    <3> QED BY <3>2, <3>3 DEF Uses
  <2>2. CASE i \in trigger
    BY <1>2, <2>2, ProperFacts
  <2> QED BY <1>2, <1>6, <2>1, <2>2
<1>7. r \in Seq(Message)
  BY <1>4
<1>8. Keeps(ms, I, r)
  BY <1>5, <1>7, ChosenKeeps
<1>9. LostSound(r)
  BY <1>5, <1>6, <1>7, ChosenKeepsRow
<1>10. Len(r) = Len(ms) => r = ms
  BY <1>1, <1>3, PickAll
<1> QED BY <1>8, <1>9, <1>10 DEF Keeps

(* The calls of a longer history are those of the shorter one.             *)
LEMMA AppendUnique ==
    ASSUME NEW ms \in Seq(Message), NEW m \in Message, IdsUnique(Append(ms, m))
    PROVE  IdsUnique(ms)
<1>1. PICK r : r = Append(ms, m)
  OBVIOUS
<1>2. Grown(ms, m, r)
  BY <1>1, AppendIs
<1>3. DOMAIN ms \subseteq DOMAIN r /\ \A i \in DOMAIN ms : r[i] = ms[i]
  BY <1>2 DEF Grown
<1>4. PICK at : at = UNION {{<<i, j>> : j \in {l \in DOMAIN r[i].blocks : r[i].blocks[l].k = "use"}} : i \in DOMAIN r}
  OBVIOUS
<1>5. PICK small : small = UNION {{<<i, j>> : j \in {l \in DOMAIN ms[i].blocks : ms[i].blocks[l].k = "use"}} : i \in DOMAIN ms}
  OBVIOUS
<1>6. \A p, q \in at : r[p[1]].blocks[p[2]].n = r[q[1]].blocks[q[2]].n => p = q
  <2>1. IdsUnique(r)
    BY <1>1
  <2> QED BY <1>4, <2>1 DEF IdsUnique
<1>7. \A p \in small : p[1] \in DOMAIN ms
  BY <1>5
<1>8. ASSUME NEW p \in small PROVE p \in at /\ r[p[1]] = ms[p[1]]
  <2>1. PICK i \in DOMAIN ms : p \in {<<i, j>> : j \in {l \in DOMAIN ms[i].blocks : ms[i].blocks[l].k = "use"}}
    BY <1>5
  <2>2. i \in DOMAIN r /\ r[i] = ms[i]
    BY <1>3
  <2>3. p \in {<<i, j>> : j \in {l \in DOMAIN r[i].blocks : r[i].blocks[l].k = "use"}}
    BY <2>1, <2>2
  <2> QED BY <1>3, <1>4, <1>7, <2>2, <2>3
<1>9. \A p, q \in small : ms[p[1]].blocks[p[2]].n = ms[q[1]].blocks[q[2]].n => p = q
  BY <1>6, <1>8
<1> QED BY <1>5, <1>9 DEF IdsUnique
-----------------------------------------------------------------------------
(* The cuts of a history.                                                  *)
Suffix(ms, d, r) ==
    /\ d \in Nat /\ d <= Len(ms) /\ Len(ms) \in Nat /\ DOMAIN ms = 1..Len(ms)
    /\ r \in Seq(Message) /\ Len(r) = Len(ms) - d /\ DOMAIN r = 1..Len(r)
    /\ \A i \in DOMAIN r : d + i \in DOMAIN ms /\ r[i] = ms[d + i]

(* The cut leaves the last n messages, or all of them.                     *)
LEMMA KeepLastIs ==
    ASSUME NEW ms \in Seq(Message), NEW n \in Nat, NEW r, r = KeepLast(ms, n)
    PROVE  /\ Len(ms) > n => Suffix(ms, Len(ms) - n, r)
           /\ ~ (Len(ms) > n) => r = ms /\ Suffix(ms, 0, r)
<1>1. PICK l, s : l = Len(ms) /\ s = r
  OBVIOUS
<1>2. l \in Nat /\ DOMAIN ms = 1..l
  BY <1>1
<1>3. CASE l > n
  <2>1. PICK d : d = l - n
    OBVIOUS
  <2>2. d \in Nat /\ d <= l /\ l - d = n
    BY <1>2, <1>3, <2>1
  <2>3. s = SubSeq(ms, d + 1, l)
    BY <1>1, <1>3, <2>1 DEF KeepLast
  <2>4. s \in Seq(Message) /\ Len(s) = l - d /\ \A i \in 1..(l - d) : s[i] = ms[d + i]
    BY <1>1, <1>2, <2>2, <2>3
  <2>5. DOMAIN s = 1..(l - d) /\ \A i \in 1..(l - d) : d + i \in 1..l
    BY <1>2, <2>2, <2>4
  <2>6. Suffix(ms, d, s)
    BY <1>1, <1>2, <2>2, <2>4, <2>5 DEF Suffix
  <2> QED BY <1>1, <1>3, <2>1, <2>6
<1>4. CASE ~ (l > n)
  <2>1. s = ms
    BY <1>1, <1>4 DEF KeepLast
  <2>2. Suffix(ms, 0, ms)
    BY <1>1, <1>2 DEF Suffix
  <2> QED BY <1>1, <1>4, <2>1, <2>2
<1> QED BY <1>3, <1>4

(* A cut that leaves a message keeps a history in order.                   *)
LEMMA SuffixKeeps ==
    ASSUME NEW ms, Proper(ms), NEW d, NEW r, Suffix(ms, d, r)
    PROVE  /\ Proper(r)
           /\ Apart(ms) => Apart(r)
           /\ Len(r) > 0 => r # <<>> /\ r[Len(r)] = ms[Len(ms)]
           /\ Len(r) > 0 /\ EndsWithUser(ms) => EndsWithUser(r)
<1>1. /\ d \in Nat /\ d <= Len(ms) /\ Len(ms) \in Nat /\ DOMAIN ms = 1..Len(ms)
      /\ r \in Seq(Message) /\ Len(r) = Len(ms) - d /\ DOMAIN r = 1..Len(r)
      /\ \A i \in DOMAIN r : d + i \in DOMAIN ms /\ r[i] = ms[d + i]
  BY DEF Suffix
<1>2. Proper(r)
  <2>1. \A i \in DOMAIN r : (r[i].role = "user" => Uses(r[i]) = {}) /\ (r[i].role = "assistant" => Answers(r[i]) = {})
    BY <1>1, ProperFacts
  <2> QED BY <1>1, <2>1 DEF Proper
<1>3. Apart(ms) => Apart(r)
  <2> SUFFICES ASSUME Apart(ms), NEW i \in DOMAIN r, NEW j \in DOMAIN r, i # j
               PROVE  Uses(r[i]) \cap Uses(r[j]) = {}
    BY DEF Apart
  <2>1. d + i # d + j
    BY <1>1
  <2> QED BY <1>1, <2>1 DEF Apart
<1>4. ASSUME Len(r) > 0 PROVE r # <<>> /\ r[Len(r)] = ms[Len(ms)]
  <2>1. Len(r) \in DOMAIN r /\ d + Len(r) = Len(ms)
    BY <1>1, <1>4
  <2> QED BY <1>1, <1>4, <2>1
<1>5. ASSUME Len(r) > 0, EndsWithUser(ms) PROVE EndsWithUser(r)
  <2>1. r # <<>> /\ r[Len(r)] = ms[Len(ms)]
    BY <1>4, <1>5
  <2> QED BY <1>5, <2>1 DEF EndsWithUser
<1> QED BY <1>2, <1>3, <1>4, <1>5

(* A history that can be sent, and stays so when it is sent.               *)
Request(ms) == Proper(ms) /\ ms # <<>> /\ ms[Len(ms)].role = "user"

(* The context of a turn.                                                  *)
LEMMA ContextIs ==
    ASSUME NEW ms, Proper(ms), EndsWithUser(ms), NEW c, c = Context(ms)
    PROVE  Request(c) /\ (Apart(ms) => WellFormed(c))
<1>1. PICK r : r = Repair(ms)
  OBVIOUS
<1>2. Repaired(ms, r)
  BY <1>1, RepairIs
<1>3. Settled(r) /\ EndsWithUser(r) /\ (Apart(ms) => Apart(r))
  BY <1>2 DEF Repaired
<1>4. Proper(r) /\ r \in Seq(Message) /\ Len(r) \in Nat
  BY <1>3, ProperFacts DEF Settled
<1>5. c = IF Len(r) > MaxHistory THEN Repair(KeepLast(r, MaxHistory)) ELSE r
  BY <1>1 DEF Context
<1>6. CASE Len(r) > MaxHistory
  <2>1. MaxHistory \in Nat /\ MaxHistory > 0
    BY ConstantAssumption, RowsAssumption
  <2>2. PICK k, d : k = KeepLast(r, MaxHistory) /\ d = Len(r) - MaxHistory
    OBVIOUS
  <2>3. Suffix(r, d, k)
    BY <1>4, <1>6, <2>1, <2>2, KeepLastIs
  <2>4. Len(k) > 0
    BY <1>4, <2>1, <2>2, <2>3 DEF Suffix
  <2>5. Proper(k) /\ EndsWithUser(k) /\ (Apart(r) => Apart(k))
    BY <1>3, <1>4, <2>3, <2>4, SuffixKeeps
  <2>6. c = Repair(k)
    BY <1>5, <1>6, <2>2
  <2>7. Repaired(k, c)
    BY <2>5, <2>6, RepairIs
  <2>8. Settled(c) /\ EndsWithUser(c) /\ (Apart(k) => Apart(c))
    BY <2>5, <2>7 DEF Repaired
  <2> QED BY <1>3, <2>5, <2>8, SettledWellFormed DEF Request, Settled, EndsWithUser
<1>7. CASE ~ (Len(r) > MaxHistory)
  BY <1>3, <1>5, <1>7, SettledWellFormed DEF Request, Settled, EndsWithUser
<1> QED BY <1>6, <1>7

(* Roles alternate from the end: the messages at even distances from a     *)
(* last message of the user's are the user's.                              *)
LEMMA UserBack ==
    ASSUME NEW ms, Request(ms), Alternates(ms), NEW e \in Nat, 2 * e < Len(ms)
    PROVE  ms[Len(ms) - 2 * e].role = "user"
<1>0. /\ Len(ms) \in Nat /\ DOMAIN ms = 1..Len(ms)
      /\ \A i \in DOMAIN ms : ms[i].role \in {"user", "assistant"}
      /\ ms[Len(ms)].role = "user"
  BY ProperFacts DEF Request
<1>1. PICK n : n = Len(ms)
  OBVIOUS
<1> DEFINE S == {m \in 0..e : ms[n - 2 * m].role = "user"}
<1>2. 0 \in S
  <2>1. n - 2 * 0 = n /\ 0 \in 0..e
    BY <1>0, <1>1
  <2> QED BY <1>0, <1>1, <2>1
<1>3. ASSUME NEW m \in 0..(e - 1), m \in S PROVE m + 1 \in S
  <2>1. PICK k : k = n - 2 * m
    OBVIOUS
  <2>2. k \in 3..n /\ m + 1 \in 0..e /\ n - 2 * (m + 1) = k - 2
    BY <1>0, <1>1, <2>1
  <2>3. ms[k].role = "user"
    BY <1>3, <2>1
  <2>4. k - 1 \in 1..(n - 1) /\ k - 2 \in 1..(n - 1) /\ (k - 1) + 1 = k /\ (k - 2) + 1 = k - 1
    BY <1>0, <1>1, <2>2
  <2>5. ms[k - 1].role # ms[k].role /\ ms[k - 2].role # ms[k - 1].role
    BY <1>1, <2>4 DEF Alternates
  <2>6. k - 1 \in DOMAIN ms /\ k - 2 \in DOMAIN ms
    BY <1>0, <1>1, <2>2
  <2>7. ms[k - 2].role = "user"
    BY <1>0, <2>3, <2>5, <2>6
  <2> QED BY <2>2, <2>7
<1> HIDE DEF S
<1>4. \A i \in 0..e : i \in S
  <2>1. \A i \in 0..(e - 1) : i \in S => i + 1 \in S
    BY <1>3
  <2>2. e \in Nat
    OBVIOUS
  <2> QED BY <1>2, <2>1, <2>2, UpTo
<1>5. e \in S
  BY <1>4
<1> QED BY <1>1, <1>5 DEF S
-----------------------------------------------------------------------------
(* What recover_from_overflow and the steps of a turn make of a request.   *)

(* A cut to an even number of messages begins with the model's message.    *)
LEMMA EvenCut ==
    ASSUME NEW ms, Request(ms), NEW h \in Nat, h > 0, Len(ms) > 2 * h,
           NEW r, Suffix(ms, Len(ms) - 2 * h, r)
    PROVE  /\ Request(r)
           /\ WellFormed(ms) => WellFormed(r) /\ r[1].role = "assistant"
<1>1. PICK n, d : n = Len(ms) /\ d = n - 2 * h
  OBVIOUS
<1>2. /\ n \in Nat /\ DOMAIN ms = 1..n /\ d \in Nat /\ d > 0
      /\ Suffix(ms, d, r) /\ Proper(ms)
  BY <1>1, ProperFacts DEF Request
<1>3. /\ r \in Seq(Message) /\ Len(r) = 2 * h /\ DOMAIN r = 1..(2 * h)
      /\ \A i \in 1..(2 * h) : d + i \in 1..n /\ r[i] = ms[d + i]
  <2>1. PICK e : e = 2 * h
    OBVIOUS
  <2>2. e \in Nat /\ n - d = e
    BY <1>1, <1>2, <2>1
  <2>3. /\ r \in Seq(Message) /\ Len(r) = n - d /\ DOMAIN r = 1..Len(r)
        /\ \A i \in DOMAIN r : d + i \in DOMAIN ms /\ r[i] = ms[d + i]
    BY <1>1, <1>2 DEF Suffix
  <2>4. Len(r) = e /\ DOMAIN r = 1..e
    BY <2>2, <2>3
  <2>5. \A i \in 1..e : d + i \in 1..n /\ r[i] = ms[d + i]
    BY <1>2, <2>3, <2>4
  <2> QED BY <2>1, <2>3, <2>4, <2>5
<1>4. Proper(r) /\ r # <<>> /\ r[Len(r)] = ms[n]
  <2>1. Len(r) > 0
    BY <1>3
  <2>2. Proper(ms) /\ Suffix(ms, d, r)
    BY <1>2
  <2>3. Proper(r) /\ r # <<>> /\ r[Len(r)] = ms[Len(ms)]
    BY <2>1, <2>2, SuffixKeeps
  <2> QED BY <1>1, <2>3
<1>5. Request(r)
  BY <1>1, <1>4 DEF Request
<1>6. ASSUME WellFormed(ms) PROVE WellFormed(r) /\ r[1].role = "assistant"
  <2>1. Alternates(ms) /\ CallsAnswered(ms)
    BY <1>6 DEF WellFormed
  <2>2. ms[d + 1].role # ms[d].role
    <3>1. d \in 1..(n - 1)
      BY <1>1, <1>2
    <3> QED BY <1>1, <2>1, <3>1 DEF Alternates
  <2>3. ms[d].role = "user"
    <3>1. 2 * h < n /\ d = n - 2 * h
      BY <1>1, <1>2
    <3> QED BY <1>1, <2>1, <3>1, UserBack
  <2>4. r[1] = ms[d + 1] /\ d + 1 \in DOMAIN ms
    BY <1>2, <1>3
  <2>5. r[1].role = "assistant" /\ Answers(r[1]) = {}
    BY <1>2, <2>2, <2>3, <2>4, ProperFacts
  <2>6. Alternates(r)
    <3> SUFFICES ASSUME NEW i \in 1..(Len(r) - 1) PROVE r[i].role # r[i + 1].role
      BY DEF Alternates
    <3>0. i \in 1..(2 * h - 1)
      BY <1>3
    <3>1. i \in 1..(2 * h) /\ i + 1 \in 1..(2 * h) /\ d + i \in 1..(n - 1) /\ d + (i + 1) = (d + i) + 1
      BY <1>1, <1>2, <3>0
    <3>2. r[i] = ms[d + i] /\ r[i + 1] = ms[(d + i) + 1]
      BY <1>3, <3>1
    <3> QED BY <1>1, <2>1, <3>1, <3>2 DEF Alternates
  <2>7. ASSUME NEW i \in DOMAIN r
        PROVE  /\ i = Len(r) => Uses(r[i]) = {}
               /\ Answers(r[i]) = IF i = 1 THEN {} ELSE Uses(r[i - 1])
               /\ \A j, l \in DOMAIN r[i].blocks :
                     /\ IsResult(r[i].blocks[j]) /\ IsResult(r[i].blocks[l])
                     /\ r[i].blocks[j].n = r[i].blocks[l].n
                     => j = l
    <3>1. PICK k : k = d + i
      OBVIOUS
    <3>2. k \in DOMAIN ms /\ r[i] = ms[k] /\ k # 1 /\ (i = Len(r) => k = n)
      <4>1. i \in Nat /\ i > 0 /\ d + i \in 1..n /\ r[i] = ms[d + i]
        BY <1>3
      <4>2. k # 1
        BY <1>2, <3>1, <4>1
      <4>3. i = 2 * h => k = n
        BY <1>1, <1>2, <3>1
      <4> QED BY <1>2, <1>3, <3>1, <4>1, <4>2, <4>3
    <3>3. /\ k = Len(ms) => Uses(ms[k]) = {}
          /\ Answers(ms[k]) = Uses(ms[k - 1])
          /\ \A j, l \in DOMAIN ms[k].blocks :
                /\ IsResult(ms[k].blocks[j]) /\ IsResult(ms[k].blocks[l])
                /\ ms[k].blocks[j].n = ms[k].blocks[l].n
                => j = l
      BY <2>1, <3>2 DEF CallsAnswered
    <3>4. CASE i = 1
      BY <1>1, <2>5, <3>2, <3>3, <3>4
    <3>5. CASE i # 1
      <4>1. i - 1 \in 1..(2 * h) /\ d + (i - 1) = k - 1
        <5>1. PICK e : e = 2 * h
          OBVIOUS
        <5>2. i \in 1..e /\ e \in Nat
          BY <1>3, <5>1
        <5>3. i - 1 \in 1..e /\ d + (i - 1) = (d + i) - 1
          BY <1>2, <3>5, <5>2
        <5> QED BY <3>1, <5>1, <5>3
      <4>2. r[i - 1] = ms[k - 1]
        BY <1>3, <4>1
      <4> QED BY <1>1, <3>2, <3>3, <3>5, <4>2
    <3> QED BY <3>4, <3>5
  <2> QED BY <2>5, <2>6, <2>7 DEF WellFormed, CallsAnswered
<1> QED BY <1>5, <1>6

(* A text of the user's before a request that begins with the model's      *)
(* message.                                                                *)
LEMMA Preceded ==
    ASSUME NEW k, Request(k), NEW m \in Message, m.role = "user", Uses(m) = {}, Answers(m) = {},
           NEW r, r = <<m>> \o k
    PROVE  /\ Request(r)
           /\ WellFormed(k) /\ k[1].role = "assistant" => WellFormed(r)
<1>1. /\ k \in Seq(Message) /\ k # <<>> /\ k[Len(k)].role = "user"
      /\ Len(k) \in Nat /\ DOMAIN k = 1..Len(k)
  BY ProperFacts DEF Request
<1>2. PICK n, s : n = Len(k) /\ s = r
  OBVIOUS
<1>3. n \in Nat /\ n > 0 /\ DOMAIN k = 1..n
  BY <1>1, <1>2
<1>4. s = <<m>> \o k /\ <<m>> \in Seq(Message)
  BY <1>2
<1>5. s \in Seq(Message) /\ Len(s) = n + 1 /\ s[1] = m
  BY <1>1, <1>2, <1>3, <1>4
<1>6. \A i \in 1..n : s[i + 1] = k[i]
  BY <1>1, <1>2, <1>3, <1>4
<1>7. DOMAIN s = 1..(n + 1) /\ \A i \in 2..(n + 1) : i - 1 \in 1..n /\ s[i] = k[i - 1]
  <2>1. \A i \in 2..(n + 1) : i - 1 \in 1..n /\ (i - 1) + 1 = i
    BY <1>3
  <2> QED BY <1>5, <1>6, <2>1
<1>8. Proper(s)
  <2>1. ASSUME NEW i \in DOMAIN s
        PROVE  (s[i].role = "user" => Uses(s[i]) = {}) /\ (s[i].role = "assistant" => Answers(s[i]) = {})
    <3>1. CASE i = 1
      BY <1>5, <3>1
    <3>2. CASE i \in 2..(n + 1)
      <4>1. i - 1 \in DOMAIN k /\ s[i] = k[i - 1]
        BY <1>3, <1>7, <3>2
      <4> QED BY <4>1, ProperFacts DEF Request
    <3>3. i = 1 \/ i \in 2..(n + 1)
      BY <1>3, <1>7
    <3> QED BY <3>1, <3>2, <3>3
  <2> QED BY <1>5, <2>1 DEF Proper
<1>9. s # <<>> /\ s[Len(s)] = k[n]
  BY <1>3, <1>5, <1>6
<1>10. Request(s)
  BY <1>1, <1>2, <1>8, <1>9 DEF Request
<1>11. ASSUME WellFormed(k), k[1].role = "assistant" PROVE WellFormed(s)
  <2>1. Alternates(k) /\ CallsAnswered(k)
    BY <1>11 DEF WellFormed
  <2>2. 1 \in DOMAIN k /\ s[2] = k[1]
    BY <1>3, <1>6
  <2>3. Alternates(s)
    <3> SUFFICES ASSUME NEW i \in 1..(Len(s) - 1) PROVE s[i].role # s[i + 1].role
      BY DEF Alternates
    <3>1. CASE i = 1
      BY <1>5, <1>11, <2>2, <3>1
    <3>2. CASE i # 1
      <4>1. i \in 1..n /\ i - 1 \in 1..(n - 1) /\ i \in 2..(n + 1)
        BY <1>3, <1>5, <3>2
      <4>2. s[i + 1] = k[i] /\ s[i] = k[i - 1] /\ (i - 1) + 1 = i
        BY <1>6, <1>7, <4>1
      <4>3. k[i - 1].role # k[(i - 1) + 1].role
        BY <1>2, <2>1, <4>1 DEF Alternates
      <4> QED BY <4>2, <4>3
    <3> QED BY <3>1, <3>2
  <2>4. Answers(k[1]) = {}
    BY <2>1, <2>2 DEF CallsAnswered
  <2>5. ASSUME NEW i \in DOMAIN s
        PROVE  /\ i = Len(s) => Uses(s[i]) = {}
               /\ Answers(s[i]) = IF i = 1 THEN {} ELSE Uses(s[i - 1])
               /\ \A j, l \in DOMAIN s[i].blocks :
                     /\ IsResult(s[i].blocks[j]) /\ IsResult(s[i].blocks[l])
                     /\ s[i].blocks[j].n = s[i].blocks[l].n
                     => j = l
    <3>1. CASE i = 1
      <4>1. \A j \in DOMAIN m.blocks : ~ IsResult(m.blocks[j])
        BY DEF Answers, ToSet
      <4> QED BY <1>5, <3>1, <4>1
    <3>2. CASE i # 1
      <4>1. PICK e : e = i - 1
        OBVIOUS
      <4>2. e \in DOMAIN k /\ s[i] = k[e] /\ (i = Len(s) => e = n)
        BY <1>3, <1>5, <1>7, <3>2, <4>1
      <4>3. /\ e = Len(k) => Uses(k[e]) = {}
            /\ Answers(k[e]) = IF e = 1 THEN {} ELSE Uses(k[e - 1])
            /\ \A j, l \in DOMAIN k[e].blocks :
                  /\ IsResult(k[e].blocks[j]) /\ IsResult(k[e].blocks[l])
                  /\ k[e].blocks[j].n = k[e].blocks[l].n
                  => j = l
        BY <2>1, <4>2 DEF CallsAnswered
      <4>4. Uses(s[i - 1]) = IF e = 1 THEN {} ELSE Uses(k[e - 1])
        <5>1. CASE e = 1
          BY <1>5, <4>1, <5>1
        <5>2. CASE e # 1
          <6>1. i - 1 \in 2..(n + 1)
            BY <1>3, <1>7, <4>1, <4>2, <5>2
          <6> QED BY <1>7, <4>1, <5>2, <6>1
        <5> QED BY <5>1, <5>2
      <4>5. i = Len(s) => Uses(s[i]) = {}
        BY <1>2, <4>2, <4>3
      <4>6. Answers(s[i]) = Uses(s[i - 1])
        BY <4>2, <4>3, <4>4
      <4> QED BY <3>2, <4>2, <4>3, <4>5, <4>6
    <3> QED BY <3>1, <3>2
  <2> QED BY <2>3, <2>5 DEF WellFormed, CallsAnswered
<1> QED BY <1>2, <1>10, <1>11

(* recover_from_overflow: whatever it cuts, a request stays one.           *)
LEMMA OverflowIs ==
    ASSUME NEW ms, Request(ms), NEW r \in OverflowOutcomes(ms)
    PROVE  Request(r) /\ (WellFormed(ms) => WellFormed(r))
<1>1. ms \in Seq(Message) /\ Len(ms) \in Nat
  BY ProperFacts DEF Request
<1>2. PICK a \in 1..KeepModerate : KeepModerate = 2 * a
  BY EvenAssumption
<1>3. PICK b \in 1..KeepAggressive : KeepAggressive = 2 * b
  BY EvenAssumption
<1>4. KeepModerate \in Nat /\ KeepAggressive \in Nat
  BY KeepAssumption
<1>5. a \in Nat /\ a > 0 /\ b \in Nat /\ b > 0
  BY <1>2, <1>3, <1>4
<1>6. ASSUME NEW h \in Nat, h > 0, NEW n \in Nat, n = 2 * h, Len(ms) > n, NEW k, k = KeepLast(ms, n)
      PROVE  Request(k) /\ (WellFormed(ms) => WellFormed(k) /\ k[1].role = "assistant")
  <2>1. Suffix(ms, Len(ms) - n, k)
    BY <1>1, <1>6, KeepLastIs
  <2>2. Suffix(ms, Len(ms) - 2 * h, k) /\ Len(ms) > 2 * h
    BY <1>6, <2>1
  <2> QED BY <1>6, <2>2, EvenCut
<1>7. CASE r = ms
  BY <1>7
<1>8. CASE r = KeepLast(ms, KeepModerate)
  <2>1. CASE Len(ms) > KeepModerate
    BY <1>2, <1>4, <1>5, <1>6, <1>8, <2>1
  <2>2. CASE ~ (Len(ms) > KeepModerate)
    BY <1>8, <2>2 DEF KeepLast
  <2> QED BY <2>1, <2>2
<1>9. CASE Len(ms) > KeepAggressive /\ r = <<OverflowSummary>> \o KeepLast(ms, KeepAggressive)
  <2>1. PICK k, m : k = KeepLast(ms, KeepAggressive) /\ m = OverflowSummary
    OBVIOUS
  <2>2. Request(k) /\ (WellFormed(ms) => WellFormed(k) /\ k[1].role = "assistant")
    BY <1>3, <1>4, <1>5, <1>6, <1>9, <2>1
  <2>3. m = Msg("user", <<Block("text", 0)>>)
    BY <2>1 DEF OverflowSummary
  <2>4. PICK t : t = Block("text", 0)
    OBVIOUS
  <2>5. t \in Entry /\ t.k = "text"
    BY <2>4 DEF Entry, Kinds, Block
  <2>6. <<t>> \in Seq(Entry) /\ ToSet(<<t>>) = {t}
    BY <2>5 DEF ToSet
  <2>7. m \in Message /\ m.role = "user" /\ m.blocks = <<t>>
    BY <2>3, <2>4, <2>6, MsgIs
  <2>8. Uses(m) = {} /\ Answers(m) = {}
    BY <2>5, <2>6, <2>7 DEF Uses, Answers, IsResult
  <2>9. r = <<m>> \o k
    BY <1>9, <2>1
  <2> QED BY <2>2, <2>7, <2>8, <2>9, Preceded
<1> QED BY <1>7, <1>8, <1>9 DEF OverflowOutcomes

(* A message of the model's and one of the user's with exactly the results *)
(* of its calls.                                                           *)
Pair(a, u) ==
    /\ a \in Message /\ a.role = "assistant" /\ Answers(a) = {}
    /\ u \in Message /\ u.role = "user" /\ Uses(u) = {}
    /\ Answers(u) = Uses(a)
    /\ \A j, l \in DOMAIN u.blocks : /\ IsResult(u.blocks[j]) /\ IsResult(u.blocks[l])
                                     /\ u.blocks[j].n = u.blocks[l].n
                                     => j = l

(* Such a pair makes the next request of a request.                        *)
LEMMA PairKeeps ==
    ASSUME NEW ms, Request(ms), NEW a, NEW u, Pair(a, u), NEW s, s = Append(ms, a), NEW r, r = Append(s, u)
    PROVE  Request(r) /\ (WellFormed(ms) => WellFormed(r))
<1>1. /\ ms \in Seq(Message) /\ ms # <<>> /\ ms[Len(ms)].role = "user"
      /\ Len(ms) \in Nat /\ DOMAIN ms = 1..Len(ms)
  BY ProperFacts DEF Request
<1>2. /\ a \in Message /\ a.role = "assistant" /\ Answers(a) = {}
      /\ u \in Message /\ u.role = "user" /\ Uses(u) = {} /\ Answers(u) = Uses(a)
      /\ \A j, l \in DOMAIN u.blocks : /\ IsResult(u.blocks[j]) /\ IsResult(u.blocks[l])
                                       /\ u.blocks[j].n = u.blocks[l].n
                                       => j = l
  BY DEF Pair
<1>3. PICK n, q : n = Len(ms) /\ q = r
  OBVIOUS
<1>4. n \in Nat /\ n > 0 /\ DOMAIN ms = 1..n
  BY <1>1, <1>3
<1>5. s \in Seq(Message) /\ Len(s) = n + 1 /\ s[n + 1] = a /\ \A i \in 1..n : s[i] = ms[i]
  BY <1>1, <1>2, <1>3
<1>6. q \in Seq(Message) /\ Len(q) = n + 2 /\ q[n + 2] = u /\ \A i \in 1..(n + 1) : q[i] = s[i]
  <2>1. q = Append(s, u)
    BY <1>3
  <2> QED BY <1>2, <1>4, <1>5, <2>1
<1>7. DOMAIN q = 1..(n + 2) /\ q[n + 1] = a /\ \A i \in 1..n : q[i] = ms[i]
  BY <1>4, <1>5, <1>6
<1>8. Proper(q)
  <2>1. ASSUME NEW i \in DOMAIN q
        PROVE  (q[i].role = "user" => Uses(q[i]) = {}) /\ (q[i].role = "assistant" => Answers(q[i]) = {})
    <3>1. CASE i \in 1..n
      BY <1>4, <1>7, <3>1, ProperFacts DEF Request
    <3>2. CASE i = n + 1
      BY <1>2, <1>7, <3>2
    <3>3. CASE i = n + 2
      BY <1>2, <1>6, <3>3
    <3>4. i \in 1..n \/ i = n + 1 \/ i = n + 2
      BY <1>4, <1>7
    <3> QED BY <3>1, <3>2, <3>3, <3>4
  <2> QED BY <1>6, <2>1 DEF Proper
<1>9. q # <<>> /\ q[Len(q)] = u
  BY <1>4, <1>6
<1>10. Request(q)
  BY <1>2, <1>8, <1>9 DEF Request
<1>11. ASSUME WellFormed(ms) PROVE WellFormed(q)
  <2>1. Alternates(ms) /\ CallsAnswered(ms)
    BY <1>11 DEF WellFormed
  <2>2. Alternates(q)
    <3> SUFFICES ASSUME NEW i \in 1..(n + 1) PROVE q[i].role # q[i + 1].role
      BY <1>4, <1>6 DEF Alternates
    <3>1. CASE i \in 1..(n - 1)
      <4>1. i \in 1..n /\ i + 1 \in 1..n
        BY <1>4, <3>1
      <4> QED BY <1>3, <1>7, <2>1, <3>1, <4>1 DEF Alternates
    <3>2. CASE i = n
      <4>1. q[i] = ms[n] /\ q[i + 1] = a
        BY <1>4, <1>7, <3>2
      <4> QED BY <1>1, <1>2, <1>3, <4>1
    <3>3. CASE i = n + 1
      <4>1. q[i] = a /\ q[i + 1] = u
        BY <1>4, <1>6, <1>7, <3>3
      <4> QED BY <1>2, <4>1
    <3>4. i \in 1..(n - 1) \/ i = n \/ i = n + 1
      BY <1>4
    <3> QED BY <3>1, <3>2, <3>3, <3>4
  <2>3. n \in DOMAIN ms /\ Uses(ms[n]) = {}
    BY <1>1, <1>3, <1>4, ProperFacts DEF Request
  <2>4. ASSUME NEW i \in DOMAIN q
        PROVE  /\ i = Len(q) => Uses(q[i]) = {}
               /\ Answers(q[i]) = IF i = 1 THEN {} ELSE Uses(q[i - 1])
               /\ \A j, l \in DOMAIN q[i].blocks :
                     /\ IsResult(q[i].blocks[j]) /\ IsResult(q[i].blocks[l])
                     /\ q[i].blocks[j].n = q[i].blocks[l].n
                     => j = l
    <3>1. CASE i \in 1..n
      <4>1. i \in DOMAIN ms /\ q[i] = ms[i] /\ i # Len(q)
        BY <1>4, <1>6, <1>7, <3>1
      <4>2. /\ Answers(ms[i]) = IF i = 1 THEN {} ELSE Uses(ms[i - 1])
            /\ \A j, l \in DOMAIN ms[i].blocks :
                  /\ IsResult(ms[i].blocks[j]) /\ IsResult(ms[i].blocks[l])
                  /\ ms[i].blocks[j].n = ms[i].blocks[l].n
                  => j = l
        BY <2>1, <4>1 DEF CallsAnswered
      <4>3. i # 1 => q[i - 1] = ms[i - 1]
        <5>1. i # 1 => i - 1 \in 1..n
          BY <1>4, <3>1
        <5> QED BY <1>7, <5>1
      <4> QED BY <4>1, <4>2, <4>3
    <3>2. CASE i = n + 1
      <4>1. q[i] = a /\ i # Len(q) /\ i # 1 /\ q[i - 1] = ms[n]
        BY <1>4, <1>6, <1>7, <3>2
      <4>2. \A j \in DOMAIN a.blocks : ~ IsResult(a.blocks[j])
        <5>1. \A j \in DOMAIN a.blocks : a.blocks[j] \in ToSet(a.blocks)
          BY DEF ToSet
        <5>2. \A b \in ToSet(a.blocks) : IsResult(b) => b.n \in Answers(a)
          BY AnswersAre
        <5> QED BY <1>2, <5>1, <5>2
      <4> QED BY <1>2, <2>3, <4>1, <4>2
    <3>3. CASE i = n + 2
      <4>1. q[i] = u /\ i # 1 /\ q[i - 1] = a
        BY <1>4, <1>6, <1>7, <3>3
      <4> QED BY <1>2, <4>1
    <3>4. i \in 1..n \/ i = n + 1 \/ i = n + 2
      BY <1>4, <1>7
    <3> QED BY <3>1, <3>2, <3>3, <3>4
  <2> QED BY <2>2, <2>4 DEF WellFormed, CallsAnswered
<1> QED BY <1>3, <1>10, <1>11
-----------------------------------------------------------------------------
(* The messages a turn appends.                                            *)
Plain(m) ==
    /\ m \in Message /\ Uses(m) = {} /\ Answers(m) = {}
    /\ \A b \in ToSet(m.blocks) : b.k \notin {"use", "result", "lost"}

(* Texts, notes and markers have neither calls nor results.                *)
LEMMA PlainIs ==
    ASSUME NEW role \in {"user", "assistant"}, NEW n \in Int, NEW k \in {"text", "silent"}, NEW m,
           m = Msg(role, <<Block(k, n)>>) \/ m = Msg(role, <<>>)
    PROVE  Plain(m) /\ m.role = role
<1>1. PICK t : t = Block(k, n)
  OBVIOUS
<1>2. t \in Entry /\ t.k = k /\ t.k \notin {"use", "result", "lost"}
  BY <1>1 DEF Entry, Kinds, Block
<1>3. ASSUME NEW bs \in Seq(Entry), \A b \in ToSet(bs) : b.k \notin {"use", "result", "lost"}, m = Msg(role, bs)
      PROVE  Plain(m) /\ m.role = role
  <2>1. m \in Message /\ m.role = role /\ m.blocks = bs
    BY <1>3, MsgIs
  <2>2. Uses(m) = {} /\ Answers(m) = {}
    BY <1>3, <2>1 DEF Uses, Answers, IsResult
  <2> QED BY <1>3, <2>1, <2>2 DEF Plain
<1>4. <<t>> \in Seq(Entry) /\ ToSet(<<t>>) = {t}
  BY <1>2 DEF ToSet
<1>5. <<>> \in Seq(Entry) /\ ToSet(<<>>) = {}
  BY DEF ToSet
<1>6. CASE m = Msg(role, <<Block(k, n)>>)
  BY <1>1, <1>2, <1>3, <1>4, <1>6
<1>7. CASE m = Msg(role, <<>>)
  BY <1>3, <1>5, <1>7
<1> QED BY <1>6, <1>7

(* Such a message fits behind any history.                                 *)
LEMMA PlainFit ==
    ASSUME NEW ms, NEW m, Plain(m)
    PROVE  Fit(ms, m)
BY DEF Plain, Fit

(* Two such messages make the next request.                                *)
LEMMA PlainPair ==
    ASSUME NEW a, Plain(a), a.role = "assistant", NEW u, Plain(u), u.role = "user"
    PROVE  Pair(a, u)
<1>1. \A j \in DOMAIN u.blocks : ~ IsResult(u.blocks[j])
  BY DEF Plain, IsResult, ToSet
<1> QED BY <1>1 DEF Plain, Pair

(* Appending two messages at once or one after the other.                  *)
LEMMA TwoMore ==
    ASSUME NEW ms \in Seq(Message), NEW a \in Message, NEW u \in Message
    PROVE  ms \o <<a, u>> = Append(Append(ms, a), u)
<1>1. PICK n, s, x, y : n = Len(ms) /\ s = Append(ms, a) /\ x = ms \o <<a, u>> /\ y = Append(s, u)
  OBVIOUS
<1>2. n \in Nat /\ Len(<<a, u>>) = 2 /\ <<a, u>> \in Seq(Message) /\ <<a, u>>[1] = a /\ <<a, u>>[2] = u
  BY <1>1
<1>3. s \in Seq(Message) /\ Len(s) = n + 1 /\ s[n + 1] = a /\ \A i \in 1..n : s[i] = ms[i]
  BY <1>1, <1>2
<1>4. y \in Seq(Message) /\ Len(y) = n + 2 /\ y[n + 2] = u /\ \A i \in 1..(n + 1) : y[i] = s[i]
  BY <1>1, <1>2, <1>3
<1>5. x \in Seq(Message) /\ Len(x) = n + 2 /\ \A i \in 1..n : x[i] = ms[i]
  BY <1>1, <1>2
<1>6. x[n + 1] = a /\ x[n + 2] = u
  BY <1>1, <1>2
<1>7. ASSUME NEW i \in 1..(n + 2) PROVE x[i] = y[i]
  <2>1. i \in 1..n \/ i = n + 1 \/ i = n + 2
    BY <1>2
  <2>2. CASE i \in 1..n
    BY <1>2, <1>3, <1>4, <1>5, <2>2
  <2>3. CASE i = n + 1
    BY <1>2, <1>3, <1>4, <1>6, <2>3
  <2>4. CASE i = n + 2
    BY <1>4, <1>6, <2>4
  <2> QED BY <2>1, <2>2, <2>3, <2>4
<1>8. x = y
  <2>1. DOMAIN x = 1..(n + 2) /\ DOMAIN y = 1..(n + 2)
    BY <1>4, <1>5
  <2>2. x = [i \in 1..(n + 2) |-> x[i]] /\ y = [i \in 1..(n + 2) |-> y[i]]
    BY <1>4, <1>5, <2>1
  <2> QED BY <1>7, <2>2
<1> QED BY <1>1, <1>8

(* The message with the calls of a round.                                  *)
Calls(ids) == Msg("assistant", [j \in DOMAIN ids |-> Block("use", ids[j])])

(* A message of calls only.                                                *)
LEMMA CallsAre ==
    ASSUME NEW ids \in Seq(Int), NEW m, m = Calls(ids)
    PROVE  /\ m \in Message /\ m.role = "assistant" /\ Answers(m) = {}
           /\ \A x : x \in Uses(m) <=> \E j \in DOMAIN ids : x = ids[j]
           /\ \A b \in ToSet(m.blocks) : b.k = "use"
<1>1. PICK n, bs : n = Len(ids) /\ bs = [j \in DOMAIN ids |-> Block("use", ids[j])]
  OBVIOUS
<1>2. n \in Nat /\ DOMAIN ids = 1..n /\ \A j \in 1..n : ids[j] \in Int
  BY <1>1
<1>3. \A x \in Int : Block("use", x) \in Entry /\ Block("use", x).k = "use" /\ Block("use", x).n = x
  BY DEF Block, Entry, Kinds
<1>4. bs = [j \in 1..n |-> bs[j]] /\ \A j \in 1..n : bs[j] = Block("use", ids[j])
  BY <1>1, <1>2
<1>5. \A j \in 1..n : bs[j] \in Entry /\ bs[j].k = "use" /\ bs[j].n = ids[j]
  BY <1>2, <1>3, <1>4
<1>6. bs \in Seq(Entry) /\ DOMAIN bs = 1..n
  BY <1>2, <1>4, <1>5
<1>7. m = Msg("assistant", bs)
  BY <1>1 DEF Calls
<1>8. m \in Message /\ m.role = "assistant" /\ m.blocks = bs
  BY <1>6, <1>7, MsgIs
<1>9. \A b : b \in ToSet(bs) <=> \E j \in 1..n : b = bs[j]
  BY <1>6 DEF ToSet
<1>10. \A b \in ToSet(bs) : b.k = "use"
  BY <1>5, <1>9
<1>11. Answers(m) = {}
  BY <1>8, <1>10 DEF Answers, IsResult
<1>12. ASSUME NEW x PROVE x \in Uses(m) <=> \E j \in DOMAIN ids : x = ids[j]
  <2>1. x \in Uses(m) <=> \E b \in ToSet(bs) : b.k = "use" /\ b.n = x
    BY <1>8, UsesAre
  <2>2. x \in Uses(m) <=> \E j \in 1..n : bs[j].k = "use" /\ bs[j].n = x
    BY <1>9, <2>1
  <2> QED BY <1>2, <1>5, <2>2
<1> QED BY <1>8, <1>10, <1>11, <1>12

(* The message with the results of all its calls, rs.                      *)
Answered(a, u, rs) ==
    /\ Pair(a, u) /\ u.blocks = rs
    /\ \A b \in ToSet(rs) : b = Block("result", b.n) /\ b.k = "result" /\ b.n \in Uses(a)

(* The results of a round whose calls have all been executed.              *)
LEMMA ResultsAre ==
    ASSUME NEW ids \in Seq(Int), \A j, k \in DOMAIN ids : ids[j] = ids[k] => j = k,
           NEW rs \in Seq(Entry), Len(rs) = Len(ids),
           \A j \in DOMAIN rs : rs[j] = Block("result", ids[j]),
           NEW a, a = Calls(ids), NEW u, u = Msg("user", rs)
    PROVE  Answered(a, u, rs)
<1>1. PICK n : n = Len(ids)
  OBVIOUS
<1>2. n \in Nat /\ DOMAIN ids = 1..n /\ DOMAIN rs = 1..n
  BY <1>1
<1>3. u \in Message /\ u.role = "user" /\ u.blocks = rs
  BY MsgIs
<1>4. \A j \in 1..n : rs[j].k = "result" /\ rs[j].n = ids[j] /\ IsResult(rs[j]) /\ rs[j] = Block("result", rs[j].n)
  BY <1>2 DEF Block, IsResult
<1>5. /\ a \in Message /\ a.role = "assistant" /\ Answers(a) = {}
      /\ \A x : x \in Uses(a) <=> \E j \in DOMAIN ids : x = ids[j]
  BY CallsAre
<1>6. \A b : b \in ToSet(rs) <=> \E j \in 1..n : b = rs[j]
  BY <1>2 DEF ToSet
<1>7. \A b \in ToSet(rs) : b = Block("result", b.n) /\ b.k = "result" /\ b.n \in Uses(a)
  <2> SUFFICES ASSUME NEW b \in ToSet(rs)
               PROVE  b = Block("result", b.n) /\ b.k = "result" /\ b.n \in Uses(a)
    OBVIOUS
  <2>1. PICK j \in 1..n : b = rs[j]
    BY <1>6
  <2>2. b = Block("result", b.n) /\ b.k = "result" /\ b.n = ids[j]
    BY <1>4, <2>1
  <2>3. ids[j] \in Uses(a)
    BY <1>2, <1>5
  <2> QED BY <2>2, <2>3
<1>8. Uses(u) = {}
  BY <1>3, <1>7 DEF Uses
<1>9. Answers(u) = Uses(a)
  <2>1. ASSUME NEW x \in Answers(u) PROVE x \in Uses(a)
    BY <1>3, <1>7, AnswersAre
  <2>2. ASSUME NEW x \in Uses(a) PROVE x \in Answers(u)
    <3>1. PICK j \in 1..n : x = ids[j]
      BY <1>2, <1>5
    <3>2. rs[j] \in ToSet(u.blocks) /\ IsResult(rs[j]) /\ rs[j].n = x
      BY <1>3, <1>4, <1>6, <3>1
    <3> QED BY <3>2, AnswersAre
  <2> QED BY <2>1, <2>2
<1>10. ASSUME NEW j \in DOMAIN u.blocks, NEW l \in DOMAIN u.blocks, u.blocks[j].n = u.blocks[l].n PROVE j = l
  <2>1. j \in 1..n /\ l \in 1..n /\ rs[j].n = rs[l].n
    BY <1>2, <1>3, <1>10
  <2>2. ids[j] = ids[l]
    BY <1>4, <2>1
  <2> QED BY <1>2, <2>1, <2>2
<1> QED BY <1>3, <1>5, <1>7, <1>8, <1>9, <1>10 DEF Pair, Answered

(* A row without messages.                                                 *)
LEMMA EmptyRow == Proper(<<>>) /\ LostSound(<<>>) /\ Blocks(<<>>) = {}
BY DEF Proper, LostSound, Blocks
-----------------------------------------------------------------------------
(* The parts of the inductive invariant.                                   *)

(* A tool round in progress: the model's message with the calls is the     *)
(* last of both histories, behind a request, and the results so far are    *)
(* those of the first calls.                                               *)
Round(s, m, rs, ps, m0, ids) ==
    /\ Request(m0) /\ (IdsUnique(s) => WellFormed(m0))
    /\ ids \in Seq(Int) /\ \A j, k \in DOMAIN ids : ids[j] = ids[k] => j = k
    /\ m = Append(m0, Calls(ids))
    /\ Len(s) > 0 /\ s[Len(s)] = Calls(ids)
    /\ rs \in Seq(Entry) /\ ps \in Seq(Int) /\ Len(rs) + Len(ps) = Len(ids)
    /\ \A j \in DOMAIN rs : rs[j] = Block("result", ids[j])
    /\ \A j \in DOMAIN ps : ps[j] = ids[Len(rs) + j]

(* Both histories are rows as the loop and the repair write them.          *)
RowsSound == Proper(saved) /\ LostSound(saved) /\ Proper(sess) /\ LostSound(sess)

(* Until a turn ends, nothing of the row is missing in its session.        *)
SessionGrows == pc \in {"send", "waiting", "tools"} => Blocks(saved) \subseteq Blocks(sess)

(* What the model is sent between tool rounds ...                          *)
RequestReady ==
    pc \in {"send", "waiting"} => Request(msgs) /\ (IdsUnique(sess) => WellFormed(msgs))

(* ... and within one.                                                     *)
RoundReady == pc = "tools" => \E m0, ids : Round(sess, msgs, results, pending, m0, ids)

(* Turns and calls are numbers.                                            *)
Counted == turn \in Nat /\ calls \in Nat

(* The inductive invariant.                                                *)
IInv ==
    /\ RowsSound
    /\ SessionGrows
    /\ RequestReady
    /\ RoundReady
    /\ Counted
    /\ ToolWorkSurvives

(* Appending to the session of a turn: what it saves and may save.         *)
LEMMA SessionAppend ==
    ASSUME NEW s, Proper(s), LostSound(s), NEW m, Fit(s, m), NEW t, t = Append(s, m)
    PROVE  /\ Proper(t) /\ LostSound(t)
           /\ Blocks(s) \subseteq Blocks(t)
           /\ ToSet(m.blocks) \subseteq Blocks(t)
           /\ IdsUnique(t) => IdsUnique(s)
           /\ Len(t) = Len(s) + 1 /\ Len(t) > 0 /\ t[Len(t)] = m
<1>1. s \in Seq(Message) /\ m \in Message
  BY ProperFacts DEF Fit
<1>2. Grown(s, m, t)
  BY <1>1, AppendIs
<1>3. Proper(t) /\ LostSound(t)
  BY FitKeepsRow
<1>4. IdsUnique(t) => IdsUnique(s)
  BY <1>1, AppendUnique
<1>5. Len(t) = Len(s) + 1 /\ Len(s) \in Nat /\ t[Len(s) + 1] = m
  BY <1>2 DEF Grown
<1>6. Len(t) > 0 /\ t[Len(t)] = m
  BY <1>5
<1>7. \A b : b \in Blocks(t) <=> b \in Blocks(s) \/ b \in ToSet(m.blocks)
  BY <1>2 DEF Grown
<1> QED BY <1>3, <1>4, <1>5, <1>6, <1>7

(* The histories a run starts from.                                        *)
LEMMA InitInv == Init => IInv
<1> SUFFICES ASSUME Init PROVE IInv
  OBVIOUS
<1>1. PICK h \in Histories : saved = h.ms /\ turn = h.turns
  BY DEF Init
<1>2. h.turns \in 0..MaxTurns /\ Proper(h.ms) /\ LostSound(h.ms)
  BY <1>1, RowsAssumption
<1>3. pc = "idle" /\ sess = <<>> /\ calls = 0 /\ done = {}
  BY DEF Init
<1>4. RowsSound
  BY <1>1, <1>2, <1>3, EmptyRow DEF RowsSound
<1>5. Counted
  BY <1>1, <1>2, <1>3 DEF Counted
<1> QED BY <1>3, <1>4, <1>5 DEF IInv, SessionGrows, RequestReady, RoundReady, ToolWorkSurvives

(* Ending a turn: only the row matters.                                    *)
LEMMA TurnEnded ==
    ASSUME IInv, pc' = "idle", sess' = <<>>, turn' = turn, calls' = calls,
           Proper(saved'), LostSound(saved'), ToolWorkSurvives'
    PROVE  IInv'
<1>1. RowsSound'
  BY EmptyRow DEF RowsSound
<1>2. Counted'
  BY DEF IInv, Counted
<1> QED BY <1>1, <1>2 DEF IInv, SessionGrows, RequestReady, RoundReady

(* A step between turns that changes the row only.                         *)
LEMMA RowChanged ==
    ASSUME IInv, pc = "idle", UNCHANGED <<pc, sess, calls>>, turn' = turn,
           Proper(saved'), LostSound(saved'), ToolWorkSurvives'
    PROVE  IInv'
<1>1. RowsSound'
  BY DEF IInv, RowsSound
<1>2. Counted'
  BY DEF IInv, Counted
<1> QED BY <1>1, <1>2 DEF IInv, SessionGrows, RequestReady, RoundReady

(* The steps of one turn, action by action.                                *)
LEMMA BeginInv == ASSUME IInv, Begin PROVE IInv'
<1>1. /\ pc' = "send" /\ turn' = turn + 1 /\ sess' = Append(saved, User(turn')) /\ msgs' = Context(sess')
      /\ saved' = saved /\ calls' = calls /\ done' = done /\ pruned' = pruned
  BY DEF Begin
<1>2. turn' \in Nat /\ calls' \in Nat
  BY <1>1 DEF IInv, Counted
<1>3. PICK s, m, t : s = saved /\ m = User(turn') /\ t = sess'
  OBVIOUS
<1>4. Proper(s) /\ LostSound(s)
  BY <1>3 DEF IInv, RowsSound
<1>5. m = Msg("user", <<Block("text", turn')>>)
  BY <1>3 DEF User
<1>6. Plain(m) /\ m.role = "user" /\ m.blocks = <<Block("text", turn')>>
  BY <1>2, <1>5, PlainIs DEF Msg
<1>7. /\ Proper(t) /\ LostSound(t) /\ Blocks(s) \subseteq Blocks(t)
      /\ Len(t) > 0 /\ t[Len(t)] = m
  <2>1. t = Append(s, m) /\ Fit(s, m)
    BY <1>1, <1>3, <1>6, PlainFit
  <2> QED BY <1>4, <2>1, SessionAppend
<1>8. EndsWithUser(t)
  <2>1. t # <<>>
    BY <1>7
  <2>2. Block("text", turn') \in ToSet(m.blocks) /\ ~ IsResult(Block("text", turn'))
    BY <1>6 DEF ToSet, IsResult, Block
  <2> QED BY <1>6, <1>7, <2>1, <2>2 DEF EndsWithUser
<1>9. Request(msgs') /\ (Apart(t) => WellFormed(msgs'))
  BY <1>1, <1>3, <1>7, <1>8, ContextIs
<1>10. IdsUnique(t) => Apart(t)
  BY UniqueApart
<1>11. RowsSound'
  BY <1>1, <1>3, <1>4, <1>7 DEF RowsSound
<1>12. SessionGrows'
  BY <1>1, <1>3, <1>7 DEF SessionGrows
<1>13. RequestReady'
  BY <1>3, <1>9, <1>10 DEF RequestReady
<1>14. Counted' /\ RoundReady'
  BY <1>1, <1>2 DEF Counted, RoundReady
<1>15. ToolWorkSurvives'
  BY <1>1 DEF IInv, ToolWorkSurvives
<1> QED BY <1>11, <1>12, <1>13, <1>14, <1>15 DEF IInv

(* Sending the request, after the recovery from an overflow.               *)
LEMMA SendInv == ASSUME IInv, Send PROVE IInv'
<1>1. /\ pc = "send" /\ msgs' \in OverflowOutcomes(msgs) /\ pc' = "waiting"
      /\ saved' = saved /\ sess' = sess /\ turn' = turn /\ calls' = calls /\ done' = done /\ pruned' = pruned
  BY DEF Send
<1>2. Request(msgs) /\ (IdsUnique(sess) => WellFormed(msgs))
  BY <1>1 DEF IInv, RequestReady
<1>3. PICK c : c = msgs'
  OBVIOUS
<1>4. Request(c) /\ (WellFormed(msgs) => WellFormed(c))
  BY <1>1, <1>2, <1>3, OverflowIs
<1>5. RequestReady'
  BY <1>1, <1>2, <1>3, <1>4 DEF RequestReady
<1>6. RowsSound' /\ Counted' /\ ToolWorkSurvives' /\ SessionGrows' /\ RoundReady'
  BY <1>1 DEF IInv, RowsSound, Counted, ToolWorkSurvives, SessionGrows, RoundReady
<1> QED BY <1>5, <1>6 DEF IInv

(* GiveUp and CircuitBreak: the session is saved, or not.                  *)
LEMMA AbandonInv == ASSUME IInv, GiveUp \/ CircuitBreak PROVE IInv'
<1>1. /\ pc \in {"send", "tools"} /\ saved' \in {saved, sess} /\ pc' = "idle" /\ sess' = <<>>
      /\ turn' = turn /\ calls' = calls /\ done' = done /\ pruned' = pruned
  BY DEF GiveUp, CircuitBreak, TrySave, Forget
<1>2. Proper(saved') /\ LostSound(saved')
  BY <1>1 DEF IInv, RowsSound
<1>3. Blocks(saved) \subseteq Blocks(saved')
  BY <1>1 DEF IInv, SessionGrows
<1>4. ToolWorkSurvives'
  BY <1>1, <1>3 DEF IInv, ToolWorkSurvives
<1> QED BY <1>1, <1>2, <1>4, TurnEnded

(* Lose and Record: the row stays.                                         *)
LEMMA LeaveInv == ASSUME IInv, Lose \/ Record PROVE IInv'
<1>1. /\ saved' = saved /\ pc' = "idle" /\ sess' = <<>>
      /\ turn' = turn /\ calls' = calls /\ done' = done /\ pruned' = pruned
  BY DEF Lose, Record, Forget
<1>2. Proper(saved') /\ LostSound(saved')
  BY <1>1 DEF IInv, RowsSound
<1>3. ToolWorkSurvives'
  BY <1>1 DEF IInv, ToolWorkSurvives
<1> QED BY <1>1, <1>2, <1>3, TurnEnded

(* A step that ends the work of a turn: the row may be the new session.    *)
LEMMA Closed ==
    ASSUME IInv, pc' = "record", Proper(sess'), LostSound(sess'), saved' \in {saved, sess'},
           turn' = turn, calls' = calls, ToolWorkSurvives'
    PROVE  IInv'
<1>1. RowsSound'
  BY DEF IInv, RowsSound
<1>2. Counted'
  BY DEF IInv, Counted
<1> QED BY <1>1, <1>2 DEF IInv, SessionGrows, RequestReady, RoundReady

(* The model's last answer ends the turn.                                  *)
LEMMA AnswerInv == ASSUME IInv, Answer PROVE IInv'
<1>1. /\ pc = "waiting" /\ pc' = "record"
      /\ sess' = PruneHeartbeats(Append(sess, Assistant(turn)), KeepRecent)
      /\ pruned' = (pruned \/ Len(sess') # Len(sess) + 1)
      /\ saved' = sess' /\ turn' = turn /\ calls' = calls /\ done' = done
  BY DEF Answer
<1>2. Proper(sess) /\ LostSound(sess) /\ Blocks(saved) \subseteq Blocks(sess) /\ turn \in Nat
  BY <1>1 DEF IInv, RowsSound, SessionGrows, Counted
<1>3. PICK m, t, r : m = Assistant(turn) /\ t = Append(sess, m) /\ r = sess'
  OBVIOUS
<1>4. m = Msg("assistant", <<Block("text", turn)>>)
  BY <1>3 DEF Assistant
<1>5. Plain(m)
  <2>1. turn \in Int
    BY <1>2
  <2> QED BY <1>4, <2>1, PlainIs
<1>6. Proper(t) /\ LostSound(t) /\ Blocks(sess) \subseteq Blocks(t) /\ Len(t) = Len(sess) + 1
  BY <1>2, <1>3, <1>5, PlainFit, SessionAppend
<1>7. r = PruneHeartbeats(t, KeepRecent) /\ KeepRecent \in Nat
  BY <1>1, <1>3, ConstantAssumption
<1>8. Proper(r) /\ LostSound(r) /\ (Len(r) = Len(t) => r = t)
  BY <1>6, <1>7, PruneKeepsRow
<1>9. ToolWorkSurvives'
  <2> SUFFICES ASSUME ~ pruned', NEW id \in done' PROVE Block("result", id) \in Blocks(saved')
    BY DEF ToolWorkSurvives
  <2>1. ~ pruned /\ Len(r) = Len(t)
    BY <1>1, <1>3, <1>6
  <2>2. saved' = t
    BY <1>1, <1>3, <1>8, <2>1
  <2>3. Block("result", id) \in Blocks(saved)
    BY <1>1, <2>1 DEF IInv, ToolWorkSurvives
  <2> QED BY <1>2, <1>6, <2>2, <2>3
<1> QED BY <1>1, <1>3, <1>8, <1>9, Closed

(* So does a turn without reply, and a partial answer.                     *)
LEMMA NoReplyInv == ASSUME IInv, NoReply \/ Partial PROVE IInv'
<1>1. PICK m : /\ m = Msg("assistant", <<Block("silent", 0)>>) \/ m = Msg("assistant", <<Block("text", turn)>>)
               /\ pc = "waiting" /\ pc' = "record" /\ sess' = Append(sess, m)
               /\ saved' \in {saved, sess'} /\ turn' = turn /\ calls' = calls /\ done' = done /\ pruned' = pruned
  BY DEF NoReply, Partial, TrySave, Assistant
<1>2. Proper(sess) /\ LostSound(sess) /\ Blocks(saved) \subseteq Blocks(sess) /\ turn \in Nat
  BY <1>1 DEF IInv, RowsSound, SessionGrows, Counted
<1>3. Plain(m)
  <2>1. turn \in Int /\ 0 \in Int
    BY <1>2
  <2>2. CASE m = Msg("assistant", <<Block("silent", 0)>>)
    BY <2>1, <2>2, PlainIs
  <2>3. CASE m = Msg("assistant", <<Block("text", turn)>>)
    BY <2>1, <2>3, PlainIs
  <2> QED BY <1>1, <2>2, <2>3
<1>4. PICK t : t = sess'
  OBVIOUS
<1>5. Proper(t) /\ LostSound(t) /\ Blocks(sess) \subseteq Blocks(t)
  BY <1>1, <1>2, <1>3, <1>4, PlainFit, SessionAppend
<1>6. ToolWorkSurvives'
  <2>1. Blocks(saved) \subseteq Blocks(saved')
    BY <1>1, <1>2, <1>4, <1>5
  <2> QED BY <1>1, <2>1 DEF IInv, ToolWorkSurvives
<1> QED BY <1>1, <1>4, <1>5, <1>6, Closed
-----------------------------------------------------------------------------
(* The steps of one turn that go on.                                       *)
LEMMA EmptyRetryInv == ASSUME IInv, EmptyRetry PROVE IInv'
<1>1. /\ pc = "waiting" /\ pc' = "send" /\ msgs' = msgs \o <<Note("assistant"), Note("user")>>
      /\ saved' = saved /\ sess' = sess /\ turn' = turn /\ calls' = calls /\ done' = done /\ pruned' = pruned
  BY DEF EmptyRetry
<1>2. Request(msgs) /\ (IdsUnique(sess) => WellFormed(msgs))
  BY <1>1 DEF IInv, RequestReady
<1>3. PICK a, u, s, c : a = Note("assistant") /\ u = Note("user") /\ s = Append(msgs, a) /\ c = msgs'
  OBVIOUS
<1>4. a = Msg("assistant", <<Block("text", 0)>>) /\ u = Msg("user", <<Block("text", 0)>>)
  BY <1>3 DEF Note
<1>5. Plain(a) /\ a.role = "assistant" /\ Plain(u) /\ u.role = "user"
  <2>1. 0 \in Int
    OBVIOUS
  <2>2. Plain(a) /\ a.role = "assistant"
    BY <1>4, <2>1, PlainIs
  <2>3. Plain(u) /\ u.role = "user"
    BY <1>4, <2>1, PlainIs
  <2> QED BY <2>2, <2>3
<1>6. msgs \in Seq(Message) /\ a \in Message /\ u \in Message
  BY <1>2, <1>5 DEF Request, Proper, Plain
<1>7. c = Append(s, u)
  BY <1>1, <1>3, <1>6, TwoMore
<1>8. Pair(a, u)
  BY <1>5, PlainPair
<1>9. Request(c) /\ (WellFormed(msgs) => WellFormed(c))
  BY <1>2, <1>3, <1>7, <1>8, PairKeeps
<1>10. RequestReady'
  BY <1>1, <1>2, <1>3, <1>9 DEF RequestReady
<1>11. RowsSound' /\ Counted' /\ ToolWorkSurvives' /\ SessionGrows' /\ RoundReady'
  BY <1>1 DEF IInv, RowsSound, Counted, ToolWorkSurvives, SessionGrows, RoundReady
<1> QED BY <1>10, <1>11 DEF IInv

(* An answer cut off by the token limit: the model is asked to go on.      *)
LEMMA ContinueInv == ASSUME IInv, NEW text \in BOOLEAN, Continue(text) PROVE IInv'
<1>1. PICK a : /\ a = Msg("assistant", <<Block("text", turn)>>) \/ a = Msg("assistant", <<>>)
               /\ sess' = Append(sess, a) /\ msgs' = msgs \o <<a, Note("user")>>
  <2>1. PICK m : m = IF text THEN Assistant(turn) ELSE Msg("assistant", <<>>)
    OBVIOUS
  <2>2. sess' = Append(sess, m) /\ msgs' = msgs \o <<m, Note("user")>>
    BY <2>1 DEF Continue
  <2>3. m = Msg("assistant", <<Block("text", turn)>>) \/ m = Msg("assistant", <<>>)
    BY <2>1 DEF Assistant
  <2> QED BY <2>2, <2>3
<1>2. /\ pc = "waiting" /\ pc' = "send"
      /\ saved' = saved /\ turn' = turn /\ calls' = calls /\ done' = done /\ pruned' = pruned
  BY DEF Continue
<1>3. /\ Request(msgs) /\ (IdsUnique(sess) => WellFormed(msgs))
      /\ Proper(sess) /\ LostSound(sess) /\ Blocks(saved) \subseteq Blocks(sess) /\ turn \in Nat
  BY <1>2 DEF IInv, RequestReady, RowsSound, SessionGrows, Counted
<1>4. PICK u, s, c, t : u = Note("user") /\ s = Append(msgs, a) /\ c = msgs' /\ t = sess'
  OBVIOUS
<1>5. u = Msg("user", <<Block("text", 0)>>)
  BY <1>4 DEF Note
<1>6. Plain(u) /\ u.role = "user"
  <2>1. 0 \in Int
    OBVIOUS
  <2> QED BY <1>5, <2>1, PlainIs
<1>7. Plain(a) /\ a.role = "assistant"
  <2>1. turn \in Int
    BY <1>3
  <2> QED BY <1>1, <2>1, PlainIs
<1>8. msgs \in Seq(Message) /\ a \in Message /\ u \in Message
  BY <1>3, <1>6, <1>7 DEF Request, Proper, Plain
<1>9. c = Append(s, u)
  BY <1>1, <1>4, <1>8, TwoMore
<1>10. Pair(a, u)
  BY <1>6, <1>7, PlainPair
<1>11. Request(c) /\ (WellFormed(msgs) => WellFormed(c))
  BY <1>3, <1>4, <1>9, <1>10, PairKeeps
<1>12. /\ Proper(t) /\ LostSound(t) /\ Blocks(sess) \subseteq Blocks(t)
       /\ IdsUnique(t) => IdsUnique(sess)
  BY <1>1, <1>3, <1>4, <1>7, PlainFit, SessionAppend
<1>13. RequestReady'
  BY <1>3, <1>4, <1>11, <1>12 DEF RequestReady
<1>14. RowsSound' /\ SessionGrows'
  BY <1>2, <1>3, <1>4, <1>12 DEF IInv, RowsSound, SessionGrows
<1>15. Counted' /\ ToolWorkSurvives' /\ RoundReady'
  BY <1>2 DEF IInv, Counted, ToolWorkSurvives, RoundReady
<1> QED BY <1>13, <1>14, <1>15 DEF IInv

(* The model calls tools: a round opens in both histories.                 *)
LEMMA CallToolsInv ==
    ASSUME IInv, NEW n \in 1..MaxBatch, NEW own \in OwnIds, CallTools(n, own) PROVE IInv'
<1>1. PICK ids, m : /\ ids = [j \in 1..n |-> IF own THEN -j ELSE calls + j] /\ pending' = ids
                    /\ m = Msg("assistant", [j \in 1..n |-> Block("use", ids[j])])
                    /\ sess' = Append(sess, m) /\ msgs' = Append(msgs, m)
  <2>1. PICK ids : ids = pending'
    OBVIOUS
  <2>2. ids = [j \in 1..n |-> IF own THEN -j ELSE calls + j]
    BY <2>1 DEF CallTools
  <2>3. PICK m : m = Msg("assistant", [j \in 1..n |-> Block("use", pending'[j])])
    OBVIOUS
  <2>4. sess' = Append(sess, m) /\ msgs' = Append(msgs, m)
    BY <2>3 DEF CallTools
  <2>5. m = Msg("assistant", [j \in 1..n |-> Block("use", ids[j])])
    BY <2>1, <2>3
  <2> QED BY <2>1, <2>2, <2>4, <2>5
<1>2. /\ pc = "waiting" /\ pc' = "tools" /\ results' = <<>>
      /\ calls' = (IF own THEN calls ELSE calls + n)
      /\ saved' = saved /\ turn' = turn /\ done' = done /\ pruned' = pruned
  BY DEF CallTools
<1>3. /\ Request(msgs) /\ (IdsUnique(sess) => WellFormed(msgs))
      /\ Proper(sess) /\ LostSound(sess) /\ Blocks(saved) \subseteq Blocks(sess)
      /\ turn \in Nat /\ calls \in Nat
  BY <1>2 DEF IInv, RequestReady, RowsSound, SessionGrows, Counted
<1>4. n \in Nat /\ n > 0 /\ own \in BOOLEAN
  <2>1. MaxBatch \in Nat
    BY ConstantAssumption
  <2>2. own \in BOOLEAN
    BY DEF OwnIds
  <2> QED BY <2>1, <2>2
<1>5. \A j \in 1..n : ids[j] = IF own THEN -j ELSE calls + j
  BY <1>1
<1>6. \A j \in 1..n : ids[j] \in Int
  BY <1>3, <1>4, <1>5
<1>7. \A j, k \in 1..n : ids[j] = ids[k] => j = k
  BY <1>3, <1>4, <1>5
<1>8. ids \in Seq(Int) /\ Len(ids) = n /\ DOMAIN ids = 1..n
  BY <1>1, <1>4, <1>6
<1>9. m = Calls(ids)
  BY <1>1, <1>8 DEF Calls
<1>10. m \in Message /\ m.role = "assistant" /\ Answers(m) = {} /\ \A b \in ToSet(m.blocks) : b.k = "use"
  BY <1>8, <1>9, CallsAre
<1>11. Fit(sess, m)
  BY <1>10 DEF Fit
<1>12. PICK t : t = sess'
  OBVIOUS
<1>13. /\ Proper(t) /\ LostSound(t) /\ Blocks(sess) \subseteq Blocks(t)
       /\ IdsUnique(t) => IdsUnique(sess)
       /\ Len(t) > 0 /\ t[Len(t)] = m
  BY <1>1, <1>3, <1>11, <1>12, SessionAppend
<1>14. PICK rs : rs = results'
  OBVIOUS
<1>15. rs \in Seq(Entry) /\ Len(rs) = 0 /\ DOMAIN rs = {} /\ Len(rs) + Len(ids) = Len(ids)
  BY <1>2, <1>4, <1>8, <1>14
<1>16. \A j \in DOMAIN ids : ids[j] = ids[Len(rs) + j]
  BY <1>8, <1>15
<1>17. Round(t, msgs', rs, ids, msgs, ids)
  BY <1>1, <1>3, <1>7, <1>8, <1>9, <1>13, <1>15, <1>16 DEF Round
<1>18. RoundReady'
  BY <1>1, <1>12, <1>14, <1>17 DEF RoundReady
<1>19. RowsSound' /\ SessionGrows'
  BY <1>2, <1>3, <1>12, <1>13 DEF IInv, RowsSound, SessionGrows
<1>20. Counted' /\ ToolWorkSurvives' /\ RequestReady'
  BY <1>2, <1>3, <1>4 DEF IInv, Counted, ToolWorkSurvives, RequestReady
<1> QED BY <1>18, <1>19, <1>20 DEF IInv

(* One more call of the round has its result.                              *)
LEMMA RunToolInv == ASSUME IInv, RunTool PROVE IInv'
<1>1. /\ pc = "tools" /\ pending # <<>> /\ pc' = pc
      /\ results' = Append(results, Block("result", Head(pending))) /\ pending' = Tail(pending)
      /\ saved' = saved /\ sess' = sess /\ msgs' = msgs /\ turn' = turn /\ calls' = calls
      /\ done' = done /\ pruned' = pruned
  BY DEF RunTool
<1>2. PICK m0, ids : Round(sess, msgs, results, pending, m0, ids)
  BY <1>1 DEF IInv, RoundReady
<1>3. PICK l, k, b, qs, rs : /\ l = Len(results) /\ k = Len(pending) /\ b = Block("result", Head(pending))
                             /\ rs = results' /\ qs = pending'
  OBVIOUS
<1>4. /\ ids \in Seq(Int) /\ results \in Seq(Entry) /\ pending \in Seq(Int) /\ l + k = Len(ids)
      /\ \A j \in DOMAIN results : results[j] = Block("result", ids[j])
      /\ \A j \in DOMAIN pending : pending[j] = ids[l + j]
  BY <1>2, <1>3 DEF Round
<1>5. /\ l \in Nat /\ k \in Nat /\ k > 0 /\ DOMAIN results = 1..l /\ DOMAIN pending = 1..k
      /\ Head(pending) = pending[1] /\ Head(pending) \in Int
  BY <1>1, <1>3, <1>4
<1>6. b \in Entry
  BY <1>3, <1>5 DEF Entry, Kinds, Block
<1>7. rs \in Seq(Entry) /\ Len(rs) = l + 1 /\ DOMAIN rs = 1..(l + 1)
  BY <1>1, <1>3, <1>4, <1>5, <1>6
<1>8. rs[l + 1] = b /\ \A j \in 1..l : rs[j] = results[j]
  BY <1>1, <1>3, <1>4, <1>5, <1>6
<1>9. qs \in Seq(Int) /\ Len(qs) = k - 1 /\ DOMAIN qs = 1..(k - 1) /\ \A j \in 1..(k - 1) : qs[j] = pending[j + 1]
  BY <1>1, <1>3, <1>4, <1>5
<1>10. \A j \in DOMAIN rs : rs[j] = Block("result", ids[j])
  <2>1. b = Block("result", ids[l + 1])
    <3>1. 1 \in DOMAIN pending
      BY <1>5
    <3>2. Head(pending) = ids[l + 1]
      BY <1>4, <1>5, <3>1
    <3> QED BY <1>3, <3>2
  <2>2. \A j \in 1..(l + 1) : j \in 1..l \/ j = l + 1
    BY <1>5
  <2> QED BY <1>4, <1>5, <1>7, <1>8, <2>1, <2>2
<1>11. \A j \in DOMAIN qs : qs[j] = ids[(l + 1) + j]
  <2>1. \A j \in 1..(k - 1) : j + 1 \in 1..k /\ l + (j + 1) = (l + 1) + j
    BY <1>5
  <2> QED BY <1>4, <1>5, <1>9, <2>1
<1>12. Len(rs) + Len(qs) = Len(ids)
  <2>1. l + k = Len(ids) /\ Len(rs) = l + 1 /\ Len(qs) = k - 1
    BY <1>4, <1>7, <1>9
  <2>2. (l + 1) + (k - 1) = l + k
    BY <1>5
  <2> QED BY <2>1, <2>2
<1>13. Round(sess, msgs, rs, qs, m0, ids)
  BY <1>2, <1>7, <1>9, <1>10, <1>11, <1>12 DEF Round
<1>14. RoundReady'
  BY <1>1, <1>3, <1>13 DEF RoundReady
<1>15. RowsSound' /\ Counted' /\ ToolWorkSurvives' /\ SessionGrows' /\ RequestReady'
  BY <1>1 DEF IInv, RowsSound, Counted, ToolWorkSurvives, SessionGrows, RequestReady
<1> QED BY <1>14, <1>15 DEF IInv

(* The round closes: its results follow its calls, and the session is      *)
(* saved.                                                                  *)
LEMMA ToolsDoneInv == ASSUME IInv, ToolsDone PROVE IInv'
<1>1. /\ pc = "tools" /\ pending = <<>> /\ pc' = "send"
      /\ sess' = Append(sess, Msg("user", results)) /\ msgs' = Append(msgs, Msg("user", results))
      /\ turn' = turn /\ calls' = calls /\ pruned' = pruned
      /\ \/ saved' = sess' /\ done' = done \cup {b.n : b \in ToSet(results)}
         \/ saved' = saved /\ done' = done
  BY DEF ToolsDone
<1>2. PICK m0, ids : Round(sess, msgs, results, pending, m0, ids)
  BY <1>1 DEF IInv, RoundReady
<1>3. PICK a, u, c, t : a = Calls(ids) /\ u = Msg("user", results) /\ c = msgs' /\ t = sess'
  OBVIOUS
<1>4. /\ Request(m0) /\ (IdsUnique(sess) => WellFormed(m0))
      /\ ids \in Seq(Int) /\ \A j, k \in DOMAIN ids : ids[j] = ids[k] => j = k
      /\ msgs = Append(m0, a) /\ Len(sess) > 0 /\ sess[Len(sess)] = a
      /\ results \in Seq(Entry) /\ Len(results) + Len(pending) = Len(ids)
      /\ \A j \in DOMAIN results : results[j] = Block("result", ids[j])
  BY <1>2, <1>3 DEF Round
<1>5. Len(results) = Len(ids)
  <2>1. Len(pending) = 0 /\ Len(results) \in Nat
    BY <1>1, <1>4
  <2> QED BY <1>4, <2>1
<1>6. /\ Pair(a, u) /\ u.blocks = results
      /\ \A b \in ToSet(results) : b = Block("result", b.n) /\ b.k = "result" /\ b.n \in Uses(a)
  <2>1. ids \in Seq(Int)
    BY <1>4
  <2>2. \A j, k \in DOMAIN ids : ids[j] = ids[k] => j = k
    BY <1>4
  <2>3. results \in Seq(Entry)
    BY <1>4
  <2>4. \A j \in DOMAIN results : results[j] = Block("result", ids[j])
    BY <1>4
  <2>5. a = Calls(ids) /\ u = Msg("user", results)
    BY <1>3
  <2>6. Answered(a, u, results)
    BY <1>5, <2>1, <2>2, <2>3, <2>4, <2>5, ResultsAre
  <2> QED BY <2>6 DEF Answered
<1>7. Fit(sess, u)
  BY <1>4, <1>6 DEF Fit, Pair
<1>8. Proper(sess) /\ LostSound(sess) /\ Blocks(saved) \subseteq Blocks(sess)
  BY <1>1 DEF IInv, RowsSound, SessionGrows
<1>9. /\ Proper(t) /\ LostSound(t) /\ Blocks(sess) \subseteq Blocks(t) /\ ToSet(u.blocks) \subseteq Blocks(t)
      /\ IdsUnique(t) => IdsUnique(sess)
  BY <1>1, <1>3, <1>7, <1>8, SessionAppend
<1>10. Request(c) /\ (WellFormed(m0) => WellFormed(c))
  <2>1. c = Append(msgs, u)
    BY <1>1, <1>3
  <2> QED BY <1>4, <1>6, <2>1, PairKeeps
<1>11. RequestReady'
  BY <1>3, <1>4, <1>9, <1>10 DEF RequestReady
<1>12. RowsSound' /\ SessionGrows'
  BY <1>1, <1>3, <1>8, <1>9 DEF IInv, RowsSound, SessionGrows
<1>13. ToolWorkSurvives'
  <2>1. CASE saved' = saved /\ done' = done
    BY <1>1, <2>1 DEF IInv, ToolWorkSurvives
  <2>2. CASE saved' = sess' /\ done' = done \cup {b.n : b \in ToSet(results)}
    <3>1. ASSUME ~ pruned', NEW id \in done' PROVE Block("result", id) \in Blocks(t)
      <4>1. CASE id \in done
        <5>1. Block("result", id) \in Blocks(saved)
          BY <1>1, <3>1, <4>1 DEF IInv, ToolWorkSurvives
        <5> QED BY <1>8, <1>9, <5>1
      <4>2. CASE \E b \in ToSet(results) : id = b.n
        BY <1>6, <1>9, <4>2
      <4> QED BY <2>2, <3>1, <4>1, <4>2
    <3> QED BY <1>3, <2>2, <3>1 DEF ToolWorkSurvives
  <2> QED BY <1>1, <2>1, <2>2
<1>14. Counted' /\ RoundReady'
  BY <1>1 DEF IInv, Counted, RoundReady
<1> QED BY <1>11, <1>12, <1>13, <1>14 DEF IInv
-----------------------------------------------------------------------------
(* The steps between turns: a compaction, a retry, an attachment.          *)
LEMMA CompactInv == ASSUME IInv, Compact PROVE IInv'
<1>1. PICK k : k = KeepLast(saved, KeepCompact) /\ saved' \in {saved, Repair(k)}
  BY DEF Compact
<1>2. /\ pc = "idle" /\ pc' = pc /\ sess' = sess /\ turn' = turn /\ calls' = calls /\ pruned' = pruned
      /\ done' = {id \in done : Block("result", id) \in Blocks(saved')}
  BY DEF Compact, work
<1>3. Proper(saved) /\ LostSound(saved)
  BY DEF IInv, RowsSound
<1>4. saved \in Seq(Message) /\ KeepCompact \in Nat
  BY <1>3, ConstantAssumption DEF Proper
<1>5. Proper(k)
  <2>1. CASE Len(saved) > KeepCompact
    <3>1. Suffix(saved, Len(saved) - KeepCompact, k)
      BY <1>1, <1>4, <2>1, KeepLastIs
    <3> QED BY <1>3, <3>1, SuffixKeeps
  <2>2. CASE ~ (Len(saved) > KeepCompact)
    BY <1>1, <1>3, <2>2 DEF KeepLast
  <2> QED BY <2>1, <2>2
<1>6. PICK r : r = Repair(k)
  OBVIOUS
<1>7. Proper(r) /\ LostSound(r)
  <2>1. Repaired(k, r)
    BY <1>5, <1>6, RepairIs
  <2>2. Settled(r)
    BY <2>1 DEF Repaired
  <2> QED BY <2>2, SettledLostSound DEF Settled
<1>8. Proper(saved') /\ LostSound(saved')
  BY <1>1, <1>3, <1>6, <1>7
<1>9. ToolWorkSurvives'
  BY <1>2 DEF ToolWorkSurvives
<1> QED BY <1>2, <1>8, <1>9, RowChanged

(* retry_last_turn cuts the row before the last user message.              *)
LEMMA RetryInv == ASSUME IInv, RetryLastTurn PROVE IInv'
<1>1. PICK i \in DOMAIN saved : saved' = SubSeq(saved, 1, i - 1)
  BY DEF RetryLastTurn
<1>2. /\ pc = "idle" /\ pc' = pc /\ sess' = sess /\ turn' = turn /\ calls' = calls /\ pruned' = pruned
      /\ done' = {id \in done : Block("result", id) \in Blocks(saved')}
  BY DEF RetryLastTurn, work
<1>3. Proper(saved) /\ LostSound(saved)
  BY DEF IInv, RowsSound
<1>4. Proper(saved') /\ LostSound(saved')
  BY <1>1, <1>3, PrefixKeepsRow
<1>5. ToolWorkSurvives'
  BY <1>2 DEF ToolWorkSurvives
<1> QED BY <1>2, <1>4, <1>5, RowChanged

(* The API appends the message of an attachment.                           *)
LEMMA AttachInv == ASSUME IInv, AttachImages PROVE IInv'
<1>1. PICK m, t : m = Note("user") /\ t = saved'
  OBVIOUS
<1>2. /\ t = Append(saved, m)
      /\ pc = "idle" /\ pc' = pc /\ sess' = sess /\ turn' = turn /\ calls' = calls /\ pruned' = pruned
      /\ done' = done
  BY <1>1 DEF AttachImages, work
<1>3. Plain(m)
  <2>1. m = Msg("user", <<Block("text", 0)>>) /\ 0 \in Int
    BY <1>1 DEF Note
  <2> QED BY <2>1, PlainIs
<1>4. Proper(saved) /\ LostSound(saved)
  BY DEF IInv, RowsSound
<1>5. Proper(t) /\ LostSound(t) /\ Blocks(saved) \subseteq Blocks(t)
  BY <1>2, <1>3, <1>4, PlainFit, SessionAppend
<1>6. ToolWorkSurvives'
  BY <1>1, <1>2, <1>5 DEF IInv, ToolWorkSurvives
<1> QED BY <1>1, <1>2, <1>5, <1>6, RowChanged

(* Nothing changes.                                                        *)
LEMMA StutterInv == ASSUME IInv, UNCHANGED vars PROVE IInv'
<1>1. /\ saved' = saved /\ pc' = pc /\ sess' = sess /\ msgs' = msgs /\ pending' = pending
      /\ results' = results /\ turn' = turn /\ calls' = calls /\ done' = done /\ pruned' = pruned
  BY DEF vars, work
<1> QED BY <1>1 DEF IInv, RowsSound, SessionGrows, RequestReady, RoundReady, Counted, ToolWorkSurvives

(* Every step of the loop keeps the invariant.                             *)
LEMMA NextInv == IInv /\ [Next]_vars => IInv'
<1> SUFFICES ASSUME IInv, [Next]_vars PROVE IInv'
  OBVIOUS
<1>1. CASE Begin
  BY <1>1, BeginInv
<1>2. CASE Send
  BY <1>2, SendInv
<1>3. CASE GiveUp \/ CircuitBreak
  BY <1>3, AbandonInv
<1>4. CASE Answer
  BY <1>4, AnswerInv
<1>5. CASE NoReply \/ Partial
  BY <1>5, NoReplyInv
<1>6. CASE Lose \/ Record
  BY <1>6, LeaveInv
<1>7. CASE EmptyRetry
  BY <1>7, EmptyRetryInv
<1>8. CASE \E n \in 1..MaxBatch, own \in OwnIds : CallTools(n, own)
  BY <1>8, CallToolsInv
<1>9. CASE RunTool
  BY <1>9, RunToolInv
<1>10. CASE ToolsDone
  BY <1>10, ToolsDoneInv
<1>11. CASE \E text \in BOOLEAN : Continue(text)
  BY <1>11, ContinueInv
<1>12. CASE Compact
  BY <1>12, CompactInv
<1>13. CASE RetryLastTurn
  BY <1>13, RetryInv
<1>14. CASE AttachImages
  BY <1>14, AttachInv
<1>15. CASE UNCHANGED vars
  BY <1>15, StutterInv
<1> QED BY <1>1, <1>2, <1>3, <1>4, <1>5, <1>6, <1>7, <1>8, <1>9, <1>10, <1>11, <1>12, <1>13, <1>14, <1>15
        DEF Next

(* The invariant holds throughout.                                         *)
LEMMA Invariant == Spec => []IInv
<1>1. Init => IInv
  BY InitInv
<1>2. IInv /\ [Next]_vars => IInv'
  BY NextInv
<1> QED BY <1>1, <1>2, PTL DEF Spec

(* validate_and_repair on a stored history with ids of its own.            *)
LEMMA RowRepaired == IInv => RepairCorrect
<1> SUFFICES ASSUME IInv, IdsUnique(saved)
             PROVE  /\ WellFormed(Repair(saved)) /\ NoEmptyMessage(Repair(saved))
                    /\ Repair(Repair(saved)) = Repair(saved)
                    /\ Content(Repair(saved)) = Content(saved)
                    /\ IdsOf(Repair(saved), "lost") = UseIds(saved) \ IdsOf(saved, "result")
  BY DEF RepairCorrect, Content, IdsOf
<1>1. Proper(saved) /\ LostSound(saved)
  BY DEF IInv, RowsSound
<1>2. Apart(saved)
  BY UniqueApart
<1>3. NoBoth(saved)
  BY <1>1, <1>2, SoundNoBoth
<1>4. PICK r : r = Repair(saved)
  OBVIOUS
<1>5. Repaired(saved, r)
  BY <1>1, <1>4, RepairIs
<1>6. Settled(r) /\ Apart(r)
  BY <1>2, <1>5 DEF Repaired
<1>7. WellFormed(r) /\ NoEmptyMessage(r) /\ Repair(r) = r
  BY <1>6, SettledWellFormed, SettledFixed DEF Settled
<1>8. Content(r) = Content(saved) /\ IdsOf(r, "lost") = UseIds(saved) \ IdsOf(saved, "result")
  BY <1>1, <1>3, <1>4, RepairLoses
<1> QED BY <1>4, <1>7, <1>8

(* validate_and_repair, run on whatever the row of an agent has become by  *)
(* turns, cuts, retries, attachments and compactions, is sound when the    *)
(* calls of the row have ids of their own: it returns messages the         *)
(* providers accept, leaves them alone when run again, loses no call, no   *)
(* text and no result of a known call, and reports exactly the calls       *)
(* without a result as lost.                                               *)
THEOREM RepairIsCorrect == Spec => []RepairCorrect
BY Invariant, RowRepaired, PTL

(* A request that is out is one the providers accept.                      *)
LEMMA RequestAccepted == IInv => DistinctIdsWellFormed
<1> SUFFICES ASSUME IInv, pc = "waiting", IdsUnique(sess)
             PROVE  WellFormed(msgs) /\ Last(msgs).role = "user"
  BY DEF DistinctIdsWellFormed
<1>1. Request(msgs) /\ WellFormed(msgs)
  BY DEF IInv, RequestReady
<1>2. Last(msgs) = msgs[Len(msgs)]
  BY DEF Last
<1> QED BY <1>1, <1>2 DEF Request

(* Every request run_agent_loop sends while the tool calls of its session  *)
(* have ids of their own is one the providers accept: roles alternate, it  *)
(* ends with the user, and each message holds exactly one result for each  *)
(* call of the message before it, although history trims and               *)
(* recover_from_overflow cut it between iterations without another repair. *)
THEOREM RequestsAreWellFormed == Spec => []DistinctIdsWellFormed
BY Invariant, RequestAccepted, PTL

(* The results of a completed tool round stay in the stored row whatever   *)
(* ends the turn (the interim save after tool execution), until a retry, a *)
(* compaction or a heartbeat pruning removes them.                         *)
THEOREM ToolWorkIsDurable == Spec => []ToolWorkSurvives
<1>1. IInv => ToolWorkSurvives
  BY DEF IInv
<1> QED BY Invariant, <1>1, PTL
=============================================================================
