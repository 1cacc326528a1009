---------------------------- MODULE SumsTheorems ----------------------------
(***************************************************************************)
(* Facts about sums over sequences of any length.  Induction over 0..n is   *)
(* stated of a set of numbers: a number that is not in it would have a      *)
(* least one like it.                                                       *)
(***************************************************************************)
EXTENDS Sums, WellFoundedInduction, TLAPS

Below == {p \in Nat \X Nat : p[1] < p[2]}

LEMMA BelowWellFounded == IsWellFoundedOn(Below, Nat)
  BY NatLessThanWellFounded DEF OpToRel, Below

\* A set that contains 0, and with a number below n the next one, contains all
\* numbers up to n.
LEMMA Induction ==
    ASSUME NEW n \in Nat, NEW S, 0 \in S,
           \A k \in 0..(n - 1) : k \in S => k + 1 \in S
    PROVE  \A k \in 0..n : k \in S
<1> DEFINE T == {k \in 0..n : k \notin S}
<1> SUFFICES ASSUME T # {} PROVE FALSE
  OBVIOUS
<1>1. T \subseteq Nat
  OBVIOUS
<1>2. PICK x \in T : \A y \in T : <<y, x>> \notin Below
  BY <1>1, BelowWellFounded, WFMin, Zenon
<1>3. x \in 1..n /\ x \notin S
  OBVIOUS
<1>4. x - 1 \in 0..(n - 1) /\ x - 1 < x /\ (x - 1) + 1 = x
  BY <1>3
<1>5. x - 1 \notin S
  BY <1>3, <1>4
<1>6. x - 1 \in T
  BY <1>4, <1>5
<1>7. <<x - 1, x>> \in Below
  BY <1>3, <1>4 DEF Below
<1> QED
  BY <1>2, <1>6, <1>7

\* f adds up the first n elements of t.
Adds(f, t, n) ==
    /\ f \in [0..n -> Nat]
    /\ f[0] = 0
    /\ \A k \in 1..n : f[k] = f[k - 1] + t[k]

LEMMA AddsExists ==
    ASSUME NEW n \in Nat, NEW t, \A k \in 1..n : t[k] \in Nat
    PROVE  \E f : Adds(f, t, n)
<1> DEFINE S == {m \in 0..n : \E f : Adds(f, t, m)}
<1>1. 0 \in S
  <2> DEFINE f == [k \in 0..0 |-> 0]
  <2>1. Adds(f, t, 0)
    BY DEF Adds
  <2> QED  BY <2>1
<1>2. ASSUME NEW m \in 0..(n - 1), m \in S
      PROVE  m + 1 \in S
  <2>1. PICK f : Adds(f, t, m)
    BY <1>2
  <2> DEFINE g == [k \in 0..(m + 1) |-> IF k <= m THEN f[k] ELSE f[m] + t[m + 1]]
  <2>2. t[m + 1] \in Nat /\ m \in Nat
    OBVIOUS
  <2>3. g \in [0..(m + 1) -> Nat] /\ g[0] = 0
    BY <2>1, <2>2 DEF Adds
  <2>4. \A k \in 1..(m + 1) : g[k] = g[k - 1] + t[k]
    BY <2>1, <2>2 DEF Adds
  <2> HIDE DEF g
  <2>5. Adds(g, t, m + 1)
    BY <2>3, <2>4 DEF Adds
  <2> QED  BY <2>5
<1> HIDE DEF S
<1>3. \A k \in 0..n : k \in S
  BY <1>1, <1>2, Induction
<1> QED  BY <1>3 DEF S

\* Partial is such a function, the only one.
THEOREM PartialAdds ==
    ASSUME NEW t \in Seq(Nat)
    PROVE  Adds(Partial(t), t, Len(t))
<1> DEFINE n == Len(t)
           Equation(f) ==
             f = [k \in 0..n |-> IF k = 0 THEN 0 ELSE f[k - 1] + t[k]]
<1>1. n \in Nat /\ \A k \in 1..n : t[k] \in Nat
  OBVIOUS
<1>2. PICK f : Adds(f, t, n)
  BY <1>1, AddsExists
<1>3. Equation(f)
  BY <1>1, <1>2 DEF Adds
<1>4. \A g : Equation(g) => Adds(g, t, n)
  <2> SUFFICES ASSUME NEW g, Equation(g) PROVE Adds(g, t, n)
    OBVIOUS
  <2> DEFINE S == {k \in 0..n : g[k] \in Nat}
  <2>1. 0 \in S
    BY <1>1
  <2>2. \A k \in 0..(n - 1) : k \in S => k + 1 \in S
    BY <1>1
  <2>3. \A k \in 0..n : k \in S
    <3> HIDE DEF S, n
    <3> QED  BY <1>1, <2>1, <2>2, Induction
  <2>4. g \in [0..n -> Nat]
    BY <2>3
  <2>5. g[0] = 0 /\ \A k \in 1..n : g[k] = g[k - 1] + t[k]
    BY <1>1
  <2> QED  BY <2>4, <2>5 DEF Adds
<1>5. Partial(t) = CHOOSE g : Equation(g)
  BY DEF Partial
<1> QED
  BY <1>3, <1>4, <1>5

-----------------------------------------------------------------------------
(* Totals                                                                   *)

LEMMA TotalType ==
    ASSUME NEW t \in Seq(Nat)
    PROVE  Total(t) \in Nat
<1>1. Partial(t) \in [0..Len(t) -> Nat] /\ Len(t) \in 0..Len(t)
  BY PartialAdds DEF Adds
<1> QED  BY <1>1 DEF Total

\* The step of the inductions below.
LEMMA Exchange ==
    \A a, b, c \in Nat : (a + b) + c = (a + c) + b
  OBVIOUS

LEMMA TotalEmpty == Total(<<>>) = 0
<1>1. <<>> \in Seq(Nat) /\ Len(<<>>) = 0
  OBVIOUS
<1> QED  BY <1>1, PartialAdds DEF Adds, Total

\* The total of a prefix is a partial sum, and not more than the total.
Prefix(u, t) ==
    Len(u) <= Len(t) /\ \A k \in 1..Len(u) : u[k] = t[k]

LEMMA TotalPrefix ==
    ASSUME NEW t \in Seq(Nat), NEW u \in Seq(Nat), Prefix(u, t)
    PROVE  Total(u) = Partial(t)[Len(u)] /\ Total(u) <= Total(t)
<1> DEFINE f == Partial(t)  m == Len(u)  n == Len(t)
<1>1. m \in Nat /\ n \in Nat /\ m <= n
  BY DEF Prefix
<1>2. Adds(f, t, n) /\ Adds(Partial(u), u, m)
  BY PartialAdds
<1>3. \A k \in 0..m : Partial(u)[k] = f[k]
  <2> DEFINE g == Partial(u)
             S == {k \in 0..m : g[k] = f[k]}
  <2> HIDE DEF f, g, m, n
  <2>1. (\A k \in 1..m : u[k] = t[k]) /\ Adds(g, u, m) /\ Adds(f, t, n)
    BY <1>2 DEF f, g, m, n, Prefix
  <2>2. 0 \in S
    BY <1>1, <2>1 DEF Adds
  <2>3. \A k \in 0..(m - 1) : k \in S => k + 1 \in S
    BY <1>1, <2>1 DEF Adds
  <2> HIDE DEF S
  <2>4. \A k \in 0..m : k \in S
    BY <1>1, <2>2, <2>3, Induction
  <2> QED  BY <2>4 DEF S, g
<1>4. Total(u) = f[m]
  BY <1>1, <1>3 DEF Total
<1> DEFINE S == {k \in 0..(n - m) : f[m] <= f[m + k]}
<1>5. \A k \in 0..(n - m) : k \in S
  <2>1. 0 \in S
    <3>1. f[m] \in Nat /\ m + 0 = m /\ 0 \in 0..(n - m)
      BY <1>1, <1>2 DEF Adds
    <3> QED  BY <3>1
  <2>2. ASSUME NEW k \in 0..(n - m - 1), k \in S
        PROVE  k + 1 \in S
    <3>1. m + k + 1 \in 1..n /\ m + k \in 0..n /\ m \in 0..n
      BY <1>1
    <3>2. t[m + k + 1] \in Nat
      BY <3>1
    <3>3. f[m + k + 1] = f[m + k] + t[m + k + 1]
      BY <1>1, <1>2, <3>1 DEF Adds
    <3>4. f[m] \in Nat /\ f[m + k] \in Nat
      BY <1>2, <3>1 DEF Adds
    <3>5. f[m] <= f[m + k]
      BY <2>2
    <3> HIDE DEF f, m, n
    <3>6. k + 1 \in 0..(n - m) /\ f[m] <= f[m + (k + 1)]
      BY <1>1, <3>2, <3>3, <3>4, <3>5
    <3> QED  BY <3>6
  <2>3. n - m \in Nat
    BY <1>1
  <2> HIDE DEF S, n, m
  <2> QED  BY <2>1, <2>2, <2>3, Induction
<1>6. f[m] <= f[m + (n - m)]
  <2>1. n - m \in 0..(n - m)
    BY <1>1
  <2> QED  BY <1>5, <2>1
<1>7. f[m] <= f[n]
  BY <1>1, <1>6
<1> QED  BY <1>4, <1>7 DEF Total

LEMMA TotalAppend ==
    ASSUME NEW t \in Seq(Nat), NEW x \in Nat
    PROVE  Total(Append(t, x)) = Total(t) + x
<1> DEFINE u == Append(t, x)  n == Len(t)
<1>1. /\ u \in Seq(Nat) /\ Len(u) = n + 1 /\ n \in Nat
      /\ u[n + 1] = x /\ \A k \in 1..n : t[k] = u[k]
  OBVIOUS
<1> HIDE DEF u
<1>2. Total(t) = Partial(u)[n]
  <2>1. Prefix(t, u)
    BY <1>1 DEF Prefix
  <2> QED  BY <1>1, <2>1, TotalPrefix
<1>3. Partial(u)[n + 1] = Partial(u)[n] + x
  <2>1. Adds(Partial(u), u, n + 1)
    BY <1>1, PartialAdds
  <2>2. n + 1 \in 1..(n + 1) /\ (n + 1) - 1 = n
    BY <1>1
  <2> QED  BY <1>1, <2>1, <2>2 DEF Adds
<1> QED  BY <1>1, <1>2, <1>3 DEF Total, u

\* Another element at one place makes that difference.
Replaced(u, t, i) ==
    Len(u) = Len(t) /\ \A k \in 1..Len(t) : k # i => u[k] = t[k]

LEMMA TotalReplace ==
    ASSUME NEW t \in Seq(Nat), NEW u \in Seq(Nat), NEW i \in 1..Len(t),
           Replaced(u, t, i)
    PROVE  Total(u) + t[i] = Total(t) + u[i]
<1> DEFINE f == Partial(t)  g == Partial(u)  n == Len(t)
<1>1. n \in Nat /\ Adds(f, t, n) /\ Adds(g, u, n) /\ Len(u) = n
  BY PartialAdds DEF Replaced
<1>2. /\ f \in [0..n -> Nat] /\ f[0] = 0
      /\ \A k \in 1..n : f[k] = f[k - 1] + t[k]
      /\ g \in [0..n -> Nat] /\ g[0] = 0
      /\ \A k \in 1..n : g[k] = g[k - 1] + u[k]
  BY <1>1 DEF Adds
<1>3. /\ \A k \in 1..n : t[k] \in Nat /\ u[k] \in Nat
      /\ \A k \in 1..n : k # i => u[k] = t[k]
      /\ i \in 1..n
  BY DEF Replaced
<1> DEFINE S == {k \in 0..n : IF k < i THEN f[k] = g[k]
                              ELSE g[k] + t[i] = f[k] + u[i]}
<1>4. \A k \in 0..n : k \in S
  <2> HIDE DEF f, g, n
  <2>1. 0 \in S
    BY <1>1, <1>2, <1>3
  <2>2. ASSUME NEW k \in 0..(n - 1), k \in S
        PROVE  k + 1 \in S
    <3>1. /\ f[k + 1] = f[k] + t[k + 1] /\ g[k + 1] = g[k] + u[k + 1]
          /\ f[k] \in Nat /\ g[k] \in Nat
          /\ t[k + 1] \in Nat /\ u[k + 1] \in Nat
          /\ t[i] \in Nat /\ u[i] \in Nat
          /\ k + 1 # i => u[k + 1] = t[k + 1]
      <4>1. k + 1 \in 1..n /\ k \in 0..n /\ (k + 1) - 1 = k
        BY <1>1
      <4> QED  BY <1>2, <1>3, <4>1
    <3>2. k + 1 \in 0..n
      BY <1>1
    <3>3. i \in Nat /\ k \in Nat
      BY <1>1, <1>3
    <3>4. CASE k + 1 < i
      <4>1. f[k] = g[k] /\ u[k + 1] = t[k + 1]
        BY <2>2, <3>1, <3>3, <3>4
      <4> QED  BY <3>1, <3>2, <3>4, <4>1
    <3>5. CASE k + 1 = i
      <4>1. f[k] = g[k] /\ u[k + 1] = u[i] /\ t[k + 1] = t[i]
        BY <2>2, <3>3, <3>5
      <4>2. g[k + 1] + t[i] = f[k + 1] + u[i]
        BY <3>1, <4>1
      <4> QED  BY <3>2, <3>3, <3>5, <4>2
    <3>6. CASE k + 1 > i
      <4>1. g[k] + t[i] = f[k] + u[i] /\ u[k + 1] = t[k + 1]
        BY <2>2, <3>1, <3>3, <3>6
      <4>2. g[k + 1] + t[i] = f[k + 1] + u[i]
        <5>1. g[k + 1] = g[k] + t[k + 1] /\ f[k + 1] = f[k] + t[k + 1]
          BY <3>1, <4>1
        <5>2. (g[k] + t[k + 1]) + t[i] = (f[k] + t[k + 1]) + u[i]
          <6> DEFINE x == t[k + 1]  y == t[i]  z == u[i]  a == g[k]  b == f[k]
          <6>0. x \in Nat /\ y \in Nat /\ z \in Nat /\ a \in Nat /\ b \in Nat
            BY <3>1
          <6> HIDE DEF x, y, z, a, b
          <6>1. (a + x) + y = (a + y) + x
            BY <6>0, Exchange, Zenon
          <6>2. (b + x) + z = (b + z) + x
            BY <6>0, Exchange, Zenon
          <6> USE DEF x, y, z, a, b
          <6> QED  BY <4>1, <6>1, <6>2, Zenon
        <5> QED  BY <5>1, <5>2, Zenon
      <4> QED  BY <3>2, <3>3, <3>6, <4>2
    <3> QED  BY <3>3, <3>4, <3>5, <3>6
  <2> HIDE DEF S
  <2> QED  BY <1>1, <2>1, <2>2, Induction
<1>5. g[n] + t[i] = f[n] + u[i]
  BY <1>1, <1>3, <1>4
<1> QED  BY <1>1, <1>5 DEF Total

\* One element less makes that difference.
Removed(u, t, i) ==
    /\ Len(u) = Len(t) - 1
    /\ \A k \in 1..Len(u) : u[k] = IF k < i THEN t[k] ELSE t[k + 1]

LEMMA TotalRemove ==
    ASSUME NEW t \in Seq(Nat), NEW i \in 1..Len(t), NEW u \in Seq(Nat),
           Removed(u, t, i)
    PROVE  Total(u) + t[i] = Total(t)
<1> DEFINE f == Partial(t)  g == Partial(u)  n == Len(t)  m == Len(u)
<1>1. /\ n \in Nat /\ m \in Nat /\ m = n - 1
      /\ Adds(f, t, n) /\ Adds(g, u, m)
  <2>1. n \in Nat /\ m \in Nat /\ m = n - 1
    BY DEF Removed
  <2>2. Adds(f, t, n) /\ Adds(g, u, m)
    BY PartialAdds
  <2> QED  BY <2>1, <2>2
<1>2. /\ f \in [0..n -> Nat] /\ f[0] = 0
      /\ \A k \in 1..n : f[k] = f[k - 1] + t[k]
      /\ g \in [0..m -> Nat] /\ g[0] = 0
      /\ \A k \in 1..m : g[k] = g[k - 1] + u[k]
  BY <1>1 DEF Adds
<1>3. /\ \A k \in 1..n : t[k] \in Nat
      /\ \A k \in 1..m : u[k] = IF k < i THEN t[k] ELSE t[k + 1]
      /\ i \in 1..n
  BY DEF Removed
<1> DEFINE S == {k \in 0..m : IF k < i THEN f[k] = g[k]
                              ELSE g[k] + t[i] = f[k + 1]}
<1>4. \A k \in 0..m : k \in S
  <2> HIDE DEF f, g, n, m
  <2>1. 0 \in S
    BY <1>1, <1>2, <1>3
  <2>2. ASSUME NEW k \in 0..(m - 1), k \in S
        PROVE  k + 1 \in S
    <3>1. /\ g[k + 1] = g[k] + u[k + 1] /\ g[k] \in Nat
          /\ f[k + 1] = f[k] + t[k + 1] /\ f[k] \in Nat
          /\ f[k + 2] = f[k + 1] + t[k + 2] /\ f[k + 1] \in Nat
          /\ t[k + 1] \in Nat /\ t[k + 2] \in Nat /\ t[i] \in Nat
      <4>1. k + 1 \in 1..m /\ k + 1 \in 1..n /\ k + 2 \in 1..n /\ k \in 0..m
            /\ (k + 1) - 1 = k /\ (k + 2) - 1 = k + 1 /\ k \in 0..n /\ k + 1 \in 0..n
        BY <1>1
      <4> QED  BY <1>2, <1>3, <4>1
    <3>2. k + 1 \in 0..m /\ k \in Nat /\ i \in Nat
      BY <1>1, <1>3
    <3>3. CASE k + 1 < i
      <4>1. u[k + 1] = t[k + 1] /\ f[k] = g[k]
        BY <1>1, <1>3, <2>2, <3>2, <3>3
      <4> QED  BY <3>1, <3>2, <3>3, <4>1
    <3>4. CASE k + 1 = i
      <4>1. u[k + 1] = t[k + 2] /\ f[k] = g[k]
        BY <1>1, <1>3, <2>2, <3>2, <3>4
      <4>2. g[k + 1] + t[i] = f[k + 2]
        <5>1. g[k + 1] = f[k] + t[k + 2] /\ t[i] = t[k + 1]
          BY <3>1, <3>4, <4>1
        <5>2. f[k + 2] = (f[k] + t[k + 1]) + t[k + 2]
          BY <3>1
        <5>3. (f[k] + t[k + 2]) + t[k + 1] = (f[k] + t[k + 1]) + t[k + 2]
          BY <3>1, Exchange, Zenon
        <5> QED  BY <5>1, <5>2, <5>3, Zenon
      <4> QED  BY <3>2, <3>4, <4>2
    <3>5. CASE k + 1 > i
      <4>1. u[k + 1] = t[k + 2] /\ g[k] + t[i] = f[k + 1]
        BY <1>1, <1>3, <2>2, <3>2, <3>5
      <4>2. g[k + 1] + t[i] = f[k + 2]
        <5>1. g[k + 1] = g[k] + t[k + 2] /\ f[k + 2] = f[k + 1] + t[k + 2]
          BY <3>1, <4>1
        <5>2. (g[k] + t[k + 2]) + t[i] = f[k + 1] + t[k + 2]
          <6>1. (g[k] + t[k + 2]) + t[i] = (g[k] + t[i]) + t[k + 2]
            BY <3>1, Exchange, Zenon
          <6> QED  BY <4>1, <6>1, Zenon
        <5> QED  BY <5>1, <5>2, Zenon
      <4> QED  BY <3>2, <3>5, <4>2
    <3> QED  BY <3>2, <3>3, <3>4, <3>5
  <2> HIDE DEF S
  <2> QED  BY <1>1, <2>1, <2>2, Induction
<1>5. IF m < i THEN f[m] = g[m] ELSE g[m] + t[i] = f[m + 1]
  BY <1>1, <1>4
<1>6. g[m] + t[i] = f[n]
  <2>1. CASE m < i
    <3>1. i = n
      BY <1>1, <1>3, <2>1
    <3>2. f[n] = f[n - 1] + t[n]
      BY <1>1, <1>2, <1>3, <3>1
    <3> QED  BY <1>1, <1>5, <2>1, <3>1, <3>2
  <2>2. CASE ~(m < i)
    BY <1>1, <1>5, <2>2
  <2> QED  BY <2>1, <2>2
<1> QED  BY <1>1, <1>6 DEF Total
=============================================================================
