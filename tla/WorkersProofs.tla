--------------------------- MODULE WorkersProofs ----------------------------
(***************************************************************************)
(* Proofs about what the workers of a service share: the PostgreSQL        *)
(* database they bring up together (AutoDDL) and the keys of Redis they    *)
(* lock (ClusterLock), for any workers, calls, tables and scripts.         *)
(*                                                                         *)
(* AutoDDL.  The order of creation is a recursive function, so what it     *)
(* returns for every list is proved by induction over the steps of Kahn's  *)
(* algorithm (KahnInv, OrderSorts).  The library's induction theorems take *)
(* an operator, so the induction is a lemma of its own about sets of       *)
(* numbers (SetInduction), from the library's WFMin.                       *)
(*                                                                         *)
(* DDLInv says of a worker what its list still holds (Queue, Sorted), what *)
(* a success so far means (Ready) and, of a run that is quiet, why it has  *)
(* left a table out (LeftOut): no other worker acts in it (Alone), so what *)
(* it has read is still so.                                                *)
(*                                                                         *)
(* ClusterLock.  KeepsLockWithinLease is not inductive: that a tick does   *)
(* not expire the key of a running function depends on how much of the     *)
(* lease is left.  LeaseCountsDown adds that the time a function has held  *)
(* its lock and the time the key has still to live make up the whole       *)
(* lease, and NotYetHeld that a call which has not yet the lock has held   *)
(* it for no time.                                                         *)
(***************************************************************************)
EXTENDS AutoDDL, ClusterLock, FiniteSetTheorems, WellFoundedInduction,
        SequenceTheorems, TLAPS

-----------------------------------------------------------------------------
(* Induction over the natural numbers, in a form without operators.         *)

LEMMA Least ==
    ASSUME NEW T, T \subseteq Nat, T # {}
    PROVE  \E n \in T : \A m \in T : n <= m
  <1>1. PICK R : R = {p \in Nat \X Nat : p[1] < p[2]}
    OBVIOUS
  <1>2. IsWellFoundedOn(R, Nat)
    BY <1>1, NatLessThanWellFounded DEF OpToRel
  <1>3. PICK n \in T : \A m \in T : <<m, n>> \notin R
    BY <1>2, WFMin
  <1>4. ASSUME NEW m \in T, m < n PROVE FALSE
    <2>1. PICK p : p = <<m, n>>
      OBVIOUS
    <2>2. p \in Nat \X Nat /\ p[1] = m /\ p[2] = n
      BY <2>1
    <2>3. p \in R
      BY <1>1, <1>4, <2>2
    <2>4. QED
      BY <1>3, <2>1, <2>3
  <1>5. \A m \in T : n \in Nat /\ m \in Nat /\ ~(m < n)
    BY <1>4
  <1>6. QED
    BY <1>5

LEMMA SetInduction ==
    ASSUME NEW G, 0 \in G, \A n \in Nat : n \in G => n + 1 \in G
    PROVE  Nat \subseteq G
  <1> SUFFICES ASSUME Nat \ G # {} PROVE FALSE
    OBVIOUS
  <1>1. PICK n \in Nat \ G : \A m \in Nat \ G : n <= m
    BY Least
  <1>2. n # 0 /\ n - 1 \in Nat /\ n - 1 \in G
    BY <1>1
  <1>3. QED
    BY <1>1, <1>2

\* f follows from a by the steps h.
Follows(f, L, S, a, h) ==
    /\ f \in [0 .. L -> S]
    /\ f[0] = a
    /\ \A i \in 1 .. L : f[i] = h[i][f[i - 1]]

\* There is a function by any recursion.
LEMMA Recursion ==
    ASSUME NEW S, NEW a \in S, NEW L \in Nat, NEW h \in [1 .. L -> [S -> S]]
    PROVE  \E f : Follows(f, L, S, a, h)
  <1> DEFINE G == {n \in Nat : n <= L => \E g : Follows(g, n, S, a, h)}
  <1>1. 0 \in G
    <2>1. Follows([i \in 0 .. 0 |-> a], 0, S, a, h)
      BY DEF Follows
    <2>2. QED
      BY <2>1
  <1>2. ASSUME NEW n \in Nat, n \in G PROVE n + 1 \in G
    <2> SUFFICES ASSUME n + 1 <= L PROVE \E g : Follows(g, n + 1, S, a, h)
      OBVIOUS
    <2>1. PICK f : Follows(f, n, S, a, h)
      BY <1>2
    <2>2. PICK b \in S : b = h[n + 1][f[n]]
      BY <2>1 DEF Follows
    <2>3. PICK g : g = [i \in 0 .. n + 1 |-> IF i = n + 1 THEN b ELSE f[i]]
      OBVIOUS
    <2>4. g \in [0 .. n + 1 -> S] /\ g[0] = a
      BY <2>1, <2>2, <2>3 DEF Follows
    <2>5. ASSUME NEW i \in 1 .. n + 1 PROVE g[i] = h[i][g[i - 1]]
      <3>1. i - 1 \in 0 .. n /\ i \in 0 .. n + 1
        OBVIOUS
      <3>2. g[i - 1] = f[i - 1]
        BY <2>3, <3>1
      <3>3. CASE i = n + 1
        <4>1. g[i] = b /\ i - 1 = n
          BY <2>3, <3>3
        <4>2. QED
          BY <2>2, <3>2, <3>3, <4>1
      <3>4. CASE i # n + 1
        <4>1. i \in 1 .. n /\ g[i] = f[i]
          BY <2>3, <3>1, <3>4
        <4>2. QED
          BY <2>1, <3>2, <4>1 DEF Follows
      <3>5. QED
        BY <3>3, <3>4
    <2>6. Follows(g, n + 1, S, a, h)
      BY <2>4, <2>5 DEF Follows
    <2>7. QED
      BY <2>6
  <1>3. Nat \subseteq G
    <2> HIDE DEF G
    <2>1. QED
      BY <1>1, <1>2, SetInduction
  <1>4. L \in G
    BY <1>3
  <1>5. QED
    BY <1>4

\* There is no other.
LEMMA OneRecursion ==
    ASSUME NEW S, NEW a \in S, NEW L \in Nat, NEW h \in [1 .. L -> [S -> S]],
           NEW f, Follows(f, L, S, a, h),
           NEW g, g[0] = a, \A i \in 1 .. L : g[i] = h[i][g[i - 1]]
    PROVE  g[L] = f[L]
  <1> DEFINE G == {n \in Nat : n <= L => g[n] = f[n]}
  <1>1. 0 \in G
    BY DEF Follows
  <1>2. ASSUME NEW n \in Nat, n \in G PROVE n + 1 \in G
    <2> SUFFICES ASSUME n + 1 <= L PROVE g[n + 1] = f[n + 1]
      OBVIOUS
    <2>1. n + 1 \in 1 .. L /\ (n + 1) - 1 = n /\ g[n] = f[n]
      BY <1>2
    <2>2. QED
      BY <2>1 DEF Follows
  <1>3. Nat \subseteq G
    <2> HIDE DEF G
    <2>1. QED
      BY <1>1, <1>2, SetInduction
  <1>4. L \in G
    BY <1>3
  <1>5. QED
    BY <1>4

-----------------------------------------------------------------------------
(* Lists without repetitions.                                               *)

LEMMA AppendList ==
    ASSUME NEW R, NEW s \in Seq(R), NEW e \in R
    PROVE  /\ Append(s, e) \in Seq(R)
           /\ Len(Append(s, e)) = Len(s) + 1
           /\ Range(Append(s, e)) = Range(s) \cup {e}
           /\ IsInjective(s) /\ e \notin Range(s) => IsInjective(Append(s, e))
  <1>1. PICK r : r = Append(s, e)
    OBVIOUS
  <1>2. /\ r \in Seq(R) /\ Len(r) = Len(s) + 1 /\ r[Len(s) + 1] = e
        /\ \A i \in 1 .. Len(s) : r[i] = s[i]
    BY <1>1
  <1>3. Len(s) \in Nat /\ DOMAIN s = 1 .. Len(s) /\ DOMAIN r = 1 .. Len(s) + 1
    BY <1>2
  <1>4. Range(r) = Range(s) \cup {e}
    BY <1>2, <1>3 DEF Range
  <1>5. IsInjective(s) /\ e \notin Range(s) => IsInjective(r)
    BY <1>2, <1>3 DEF Range, IsInjective
  <1>6. QED
    BY <1>1, <1>2, <1>4, <1>5

LEMMA ConcatList ==
    ASSUME NEW R, NEW s \in Seq(R), NEW t \in Seq(R)
    PROVE  /\ s \o t \in Seq(R)
           /\ Range(s \o t) = Range(s) \cup Range(t)
           /\ IsInjective(s) /\ IsInjective(t) /\ Range(s) \cap Range(t) = {}
                => IsInjective(s \o t)
  <1>1. PICK r : r = s \o t
    OBVIOUS
  <1>2. /\ r \in Seq(R) /\ Len(r) = Len(s) + Len(t)
        /\ \A i \in 1 .. Len(s) : r[i] = s[i]
        /\ \A i \in 1 .. Len(t) : r[Len(s) + i] = t[i]
    BY <1>1
  <1>3. /\ Len(s) \in Nat /\ Len(t) \in Nat /\ DOMAIN s = 1 .. Len(s)
        /\ DOMAIN t = 1 .. Len(t) /\ DOMAIN r = 1 .. Len(s) + Len(t)
    BY <1>2
  <1>4. \A i \in DOMAIN r : \/ i \in DOMAIN s /\ r[i] = s[i]
                            \/ i - Len(s) \in DOMAIN t /\ r[i] = t[i - Len(s)]
    <2> SUFFICES ASSUME NEW i \in DOMAIN r, i \notin DOMAIN s
                 PROVE  i - Len(s) \in DOMAIN t /\ r[i] = t[i - Len(s)]
      BY <1>2, <1>3
    <2>1. i - Len(s) \in 1 .. Len(t) /\ i = Len(s) + (i - Len(s))
      BY <1>3
    <2>2. QED
      BY <1>2, <1>3, <2>1
  <1>5. Range(r) = Range(s) \cup Range(t)
    <2>1. Range(r) \subseteq Range(s) \cup Range(t)
      BY <1>4 DEF Range
    <2>2. \A i \in DOMAIN s : i \in DOMAIN r /\ s[i] = r[i]
      BY <1>2, <1>3
    <2>3. \A i \in DOMAIN t : Len(s) + i \in DOMAIN r /\ t[i] = r[Len(s) + i]
      BY <1>2, <1>3
    <2>4. Range(s) \subseteq Range(r)
      BY <2>2 DEF Range
    <2>5. Range(t) \subseteq Range(r)
      BY <2>3 DEF Range
    <2>6. QED
      BY <2>1, <2>4, <2>5
  <1>6. ASSUME IsInjective(s), IsInjective(t), Range(s) \cap Range(t) = {}
        PROVE  IsInjective(r)
    <2> SUFFICES ASSUME NEW i \in DOMAIN r, NEW j \in DOMAIN r, r[i] = r[j] PROVE i = j
      BY DEF IsInjective
    <2>1. ~(i \in DOMAIN s /\ r[i] = s[i] /\ j - Len(s) \in DOMAIN t /\ r[j] = t[j - Len(s)])
      BY <1>6 DEF Range
    <2>2. ~(j \in DOMAIN s /\ r[j] = s[j] /\ i - Len(s) \in DOMAIN t /\ r[i] = t[i - Len(s)])
      BY <1>6 DEF Range
    <2>3. CASE i \in DOMAIN s /\ r[i] = s[i]
      BY <1>4, <1>6, <2>1, <2>3 DEF IsInjective
    <2>4. CASE i - Len(s) \in DOMAIN t /\ r[i] = t[i - Len(s)]
      <3>1. j - Len(s) \in DOMAIN t /\ r[j] = t[j - Len(s)]
        BY <1>4, <2>2, <2>4
      <3>2. i - Len(s) = j - Len(s)
        BY <1>6, <2>4, <3>1 DEF IsInjective
      <3>3. QED
        BY <1>3, <3>2
    <2>5. QED
      BY <1>4, <2>3, <2>4
  <1>7. QED
    BY <1>1, <1>2, <1>5, <1>6

LEMMA TailList ==
    ASSUME NEW R, NEW s \in Seq(R), s # <<>>
    PROVE  /\ Head(s) \in R /\ Tail(s) \in Seq(R) /\ Head(s) = s[1]
           /\ Range(s) = Range(Tail(s)) \cup {Head(s)}
           /\ \A i \in 1 .. Len(Tail(s)) : Tail(s)[i] = s[i + 1] /\ i + 1 \in 1 .. Len(s)
           /\ Len(s) = Len(Tail(s)) + 1
           /\ IsInjective(s) => IsInjective(Tail(s)) /\ Head(s) \notin Range(Tail(s))
  <1>1. PICK r : r = Tail(s)
    OBVIOUS
  <1>2. /\ Len(s) \in Nat /\ Len(s) > 0 /\ DOMAIN s = 1 .. Len(s)
        /\ Head(s) = s[1] /\ Head(s) \in R
    OBVIOUS
  <1>3. /\ r \in Seq(R) /\ Len(r) = Len(s) - 1 /\ DOMAIN r = 1 .. Len(s) - 1
        /\ \A i \in 1 .. Len(r) : r[i] = s[i + 1] /\ i + 1 \in 1 .. Len(s)
    BY <1>1, <1>2
  <1>4. \A i \in DOMAIN s : i = 1 \/ (i - 1 \in DOMAIN r /\ r[i - 1] = s[i])
    BY <1>2, <1>3
  <1>5. Range(s) = Range(r) \cup {Head(s)}
    <2>1. Range(s) \subseteq Range(r) \cup {Head(s)}
      BY <1>2, <1>4 DEF Range
    <2>2. \A i \in DOMAIN r : i + 1 \in DOMAIN s /\ r[i] = s[i + 1]
      BY <1>2, <1>3
    <2>3. Range(r) \subseteq Range(s)
      BY <2>2 DEF Range
    <2>4. 1 \in DOMAIN s
      BY <1>2
    <2>5. Head(s) \in Range(s)
      BY <1>2, <2>4 DEF Range
    <2>6. QED
      BY <2>1, <2>3, <2>5
  <1>6. ASSUME IsInjective(s) PROVE IsInjective(r) /\ Head(s) \notin Range(r)
    <2>1. \A i \in DOMAIN r : i + 1 \in DOMAIN s /\ r[i] = s[i + 1] /\ i \in Nat /\ i >= 1
      BY <1>2, <1>3
    <2>2. \A i, j \in DOMAIN r : r[i] = r[j] => i = j
      <3> SUFFICES ASSUME NEW i \in DOMAIN r, NEW j \in DOMAIN r, r[i] = r[j] PROVE i = j
        OBVIOUS
      <3>1. i + 1 = j + 1
        BY <1>6, <2>1 DEF IsInjective
      <3>2. QED
        BY <2>1, <3>1
    <2>3. ASSUME NEW i \in DOMAIN r, r[i] = Head(s) PROVE FALSE
      <3>1. i + 1 = 1
        BY <1>2, <1>6, <2>1, <2>3 DEF IsInjective
      <3>2. QED
        BY <2>1, <3>1
    <2>4. QED
      BY <2>2, <2>3 DEF IsInjective, Range
  <1>7. Len(s) = Len(r) + 1
    BY <1>2, <1>3
  <1>8. QED
    BY <1>1, <1>2, <1>3, <1>5, <1>6, <1>7

LEMMA EmptyList ==
    ASSUME NEW R
    PROVE  /\ <<>> \in Seq(R) /\ Len(<<>>) = 0 /\ Range(<<>>) = {} /\ IsInjective(<<>>)
           /\ \A s \in Seq(R) : Range(s) = {} => s = <<>>
  <1>1. ASSUME NEW s \in Seq(R), s # <<>> PROVE Range(s) # {}
    <2>1. 1 \in DOMAIN s
      BY <1>1
    <2>2. QED
      BY <2>1 DEF Range
  <1>2. QED
    BY <1>1 DEF Range, IsInjective

\* As many as the elements it has.
LEMMA Length ==
    ASSUME NEW R, NEW s \in Seq(R), IsInjective(s)
    PROVE  IsFiniteSet(Range(s)) /\ Cardinality(Range(s)) = Len(s)
  <1>1. Len(s) \in Nat /\ DOMAIN s = 1 .. Len(s)
    OBVIOUS
  <1>2. IsFiniteSet(1 .. Len(s)) /\ Cardinality(1 .. Len(s)) = Len(s)
    BY <1>1, FS_Interval
  <1>3. s \in Bijection(1 .. Len(s), Range(s))
    BY <1>1 DEF Bijection, Injection, Surjection, IsInjective, Range
  <1>4. ExistsBijection(1 .. Len(s), Range(s))
    BY <1>3 DEF ExistsBijection
  <1>5. QED
    BY <1>2, <1>4, FS_Bijection

-----------------------------------------------------------------------------
(* The order of creation.                                                   *)

\* f goes through a list and keeps the members of T.
Keeps(f, list, T, R) ==
    /\ f \in [0 .. Len(list) -> Seq(R)]
    /\ f[0] = <<>>
    /\ \A n \in 1 .. Len(list) :
          f[n] = IF list[n] \in T THEN Append(f[n - 1], list[n]) ELSE f[n - 1]

LEMMA AmongIs ==
    ASSUME NEW R, NEW list \in Seq(R), NEW T
    PROVE  \E f : Keeps(f, list, T, R) /\ Among(list, T) = f[Len(list)]
  <1>1. PICK L \in Nat : L = Len(list)
    OBVIOUS
  <1> DEFINE IsSome(F) ==
                F = [n \in 0 .. L |->
                        IF n = 0 THEN <<>>
                        ELSE IF list[n] \in T THEN Append(F[n - 1], list[n]) ELSE F[n - 1]]
  <1>2. Among(list, T) = (CHOOSE F : IsSome(F))[L]
    BY <1>1 DEF Among
  <1>3. PICK h : h = [n \in 1 .. L |->
                        [s \in Seq(R) |-> IF list[n] \in T THEN Append(s, list[n]) ELSE s]]
    OBVIOUS
  <1>4. \A n \in 1 .. L : list[n] \in R
    BY <1>1
  <1>5. h \in [1 .. L -> [Seq(R) -> Seq(R)]] /\ <<>> \in Seq(R)
    BY <1>3, <1>4
  <1>6. PICK f : Follows(f, L, Seq(R), <<>>, h)
    BY <1>5, Recursion
  <1>7. Keeps(f, list, T, R)
    <2>1. ASSUME NEW n \in 1 .. L
          PROVE  f[n] = IF list[n] \in T THEN Append(f[n - 1], list[n]) ELSE f[n - 1]
      <3>1. f[n - 1] \in Seq(R) /\ f[n] = h[n][f[n - 1]]
        BY <1>6 DEF Follows
      <3>2. QED
        BY <1>3, <3>1
    <2>2. QED
      BY <1>1, <1>6, <2>1 DEF Keeps, Follows
  <1>8. IsSome(f)
    <2>1. PICK g : g = [n \in 0 .. L |->
                           IF n = 0 THEN <<>>
                           ELSE IF list[n] \in T THEN Append(f[n - 1], list[n]) ELSE f[n - 1]]
      OBVIOUS
    <2>2. ASSUME NEW n \in 0 .. L PROVE g[n] = f[n]
      <3>1. CASE n = 0
        BY <1>7, <2>1, <3>1 DEF Keeps
      <3>2. CASE n # 0
        <4>1. n \in 1 .. Len(list)
          BY <1>1, <3>2
        <4>2. f[n] = IF list[n] \in T THEN Append(f[n - 1], list[n]) ELSE f[n - 1]
          BY <1>7, <4>1 DEF Keeps
        <4>3. QED
          BY <2>1, <3>2, <4>2
      <3>3. QED
        BY <3>1, <3>2
    <2>3. f = g
      BY <1>1, <1>7, <2>1, <2>2 DEF Keeps
    <2>4. QED
      BY <2>1, <2>3
  <1>9. PICK Some : IsSome(Some) /\ Among(list, T) = Some[L]
    <2> HIDE DEF IsSome
    <2>1. QED
      BY <1>2, <1>8
  <1>10. Some[0] = <<>> /\ \A n \in 1 .. L : Some[n] = h[n][Some[n - 1]]
    <2>1. Some[0] = <<>>
      BY <1>9
    <2>2. ASSUME NEW n \in 1 .. L
          PROVE  Some[n] = IF list[n] \in T THEN Append(Some[n - 1], list[n]) ELSE Some[n - 1]
      <3>1. n \in 0 .. L /\ n # 0
        OBVIOUS
      <3>2. QED
        BY <1>9, <3>1
    <2>3. PICK G : G = {n \in Nat : n <= L => Some[n] \in Seq(R)}
      OBVIOUS
    <2>4. 0 \in G
      <3>1. Some[0] \in Seq(R)
        BY <1>5, <2>1
      <3>2. QED
        BY <2>3, <3>1
    <2>5. ASSUME NEW n \in Nat, n \in G PROVE n + 1 \in G
      <3> SUFFICES ASSUME n + 1 <= L PROVE Some[n + 1] \in Seq(R)
        BY <2>3
      <3>1. Some[n] \in Seq(R) /\ n + 1 \in 1 .. L /\ (n + 1) - 1 = n
        BY <2>3, <2>5
      <3>2. list[n + 1] \in R
        BY <1>4, <3>1
      <3>3. Some[n + 1] = IF list[n + 1] \in T THEN Append(Some[n], list[n + 1]) ELSE Some[n]
        BY <2>2, <3>1
      <3>4. QED
        BY <3>1, <3>2, <3>3
    <2>6. Nat \subseteq G
      BY <2>4, <2>5, SetInduction
    <2>7. ASSUME NEW n \in 1 .. L PROVE Some[n] = h[n][Some[n - 1]]
      <3>1. n - 1 \in Nat /\ n - 1 <= L
        OBVIOUS
      <3>2. Some[n - 1] \in Seq(R)
        BY <2>3, <2>6, <3>1
      <3>3. QED
        BY <1>3, <2>2, <3>2
    <2>8. QED
      BY <2>1, <2>7
  <1>11. Some[L] = f[L]
    <2>1. PICK S, a : S = Seq(R) /\ a = <<>>
      OBVIOUS
    <2>2. a \in S /\ h \in [1 .. L -> [S -> S]] /\ Follows(f, L, S, a, h)
      BY <1>5, <1>6, <2>1
    <2>3. Some[0] = a /\ \A n \in 1 .. L : Some[n] = h[n][Some[n - 1]]
      BY <1>10, <2>1
    <2>4. QED
      BY ONLY L \in Nat, <2>2, <2>3, OneRecursion
  <1>12. QED
    BY <1>1, <1>7, <1>9, <1>11

LEMMA AmongList ==
    ASSUME NEW R, NEW list \in Seq(R), IsInjective(list), NEW T
    PROVE  /\ Among(list, T) \in Seq(R)
           /\ Range(Among(list, T)) = Range(list) \cap T
           /\ IsInjective(Among(list, T))
  <1>1. PICK f : Keeps(f, list, T, R) /\ Among(list, T) = f[Len(list)]
    BY AmongIs
  <1>2. PICK L \in Nat : L = Len(list) /\ DOMAIN list = 1 .. L
    OBVIOUS
  <1>3. PICK First : First = [n \in Nat |-> {list[i] : i \in 1 .. n}]
    OBVIOUS
  <1> DEFINE G == {n \in Nat : n <= L => Range(f[n]) = First[n] \cap T /\ IsInjective(f[n])}
  <1>4. 0 \in G
    <2>1. First[0] = {}
      BY <1>3
    <2>2. QED
      BY <1>1, <2>1, EmptyList DEF Keeps
  <1>5. ASSUME NEW n \in Nat, n \in G PROVE n + 1 \in G
    <2> SUFFICES ASSUME n + 1 <= L
                 PROVE  Range(f[n + 1]) = First[n + 1] \cap T /\ IsInjective(f[n + 1])
      OBVIOUS
    <2>1. Range(f[n]) = First[n] \cap T /\ IsInjective(f[n])
      BY <1>5
    <2>2. n + 1 \in 1 .. L /\ (n + 1) - 1 = n /\ n \in 0 .. L
      OBVIOUS
    <2>3. f[n + 1] = IF list[n + 1] \in T THEN Append(f[n], list[n + 1]) ELSE f[n]
      BY <1>1, <1>2, <2>2 DEF Keeps
    <2>4. f[n] \in Seq(R) /\ list[n + 1] \in R
      BY <1>1, <1>2, <2>2 DEF Keeps
    <2>5. First[n + 1] = First[n] \cup {list[n + 1]}
      <3>1. \A i : i \in 1 .. n + 1 <=> i \in 1 .. n \/ i = n + 1
        OBVIOUS
      <3>2. First[n + 1] = {list[i] : i \in 1 .. n + 1} /\ First[n] = {list[i] : i \in 1 .. n}
        BY <1>3
      <3>3. QED
        BY <3>1, <3>2
    <2>6. list[n + 1] \notin First[n]
      <3>1. ASSUME NEW i \in 1 .. n, list[i] = list[n + 1] PROVE FALSE
        <4>1. i \in DOMAIN list /\ n + 1 \in DOMAIN list /\ i # n + 1
          BY <1>2, <2>2
        <4>2. QED
          BY <3>1, <4>1 DEF IsInjective
      <3>2. QED
        BY <1>3, <3>1
    <2>7. CASE list[n + 1] \in T
      <3>1. /\ Range(f[n + 1]) = Range(f[n]) \cup {list[n + 1]}
            /\ list[n + 1] \notin Range(f[n]) => IsInjective(f[n + 1])
        BY <2>1, <2>3, <2>4, <2>7, AppendList
      <3>2. QED
        BY <2>1, <2>5, <2>6, <2>7, <3>1
    <2>8. CASE list[n + 1] \notin T
      BY <2>1, <2>3, <2>5, <2>8
    <2>9. QED
      BY <2>7, <2>8
  <1>6. Nat \subseteq G
    <2> HIDE DEF G
    <2>1. QED
      BY <1>4, <1>5, SetInduction
  <1>7. First[L] = Range(list)
    BY <1>2, <1>3 DEF Range
  <1>8. L \in G /\ f[L] \in Seq(R)
    BY <1>1, <1>2, <1>6 DEF Keeps
  <1>9. QED
    BY <1>1, <1>2, <1>7, <1>8

LEMMA AmongType ==
    ASSUME NEW R, NEW list \in Seq(R), NEW T
    PROVE  Among(list, T) \in Seq(R)
  <1>1. PICK f : Keeps(f, list, T, R) /\ Among(list, T) = f[Len(list)]
    BY AmongIs
  <1>2. Len(list) \in 0 .. Len(list)
    OBVIOUS
  <1>3. QED
    BY <1>1, <1>2 DEF Keeps

State(list) == [done : Seq(Range(list)), queue : Seq(Range(list))]

LEMMA PopType ==
    ASSUME NEW R, NEW list \in Seq(R), NEW s \in State(list), s.queue # <<>>
    PROVE  Pop(list, s) \in State(list)
  <1>1. PICK t : t = Head(s.queue)
    OBVIOUS
  <1>2. list \in Seq(Range(list))
    BY DEF Range
  <1>3. /\ s.done \in Seq(Range(list)) /\ s.queue \in Seq(Range(list))
        /\ t \in Range(list) /\ Tail(s.queue) \in Seq(Range(list))
    BY <1>1 DEF State
  <1>4. PICK a : a = Among(list, FreedBy(list, Append(s.done, t), t))
    OBVIOUS
  <1>5. a \in Seq(Range(list))
    BY <1>2, <1>4, AmongType
  <1>6. Pop(list, s) = [done |-> Append(s.done, t), queue |-> Tail(s.queue) \o a]
    BY <1>1, <1>4 DEF Pop
  <1>7. Append(s.done, t) \in Seq(Range(list)) /\ Tail(s.queue) \o a \in Seq(Range(list))
    BY <1>3, <1>5
  <1>8. QED
    BY <1>6, <1>7 DEF State

First(list) == [done |-> <<>>, queue |-> Among(list, Free(list))]
After(list, s) == IF s.queue = <<>> THEN s ELSE Pop(list, s)

LEMMA OrderIs ==
    ASSUME NEW R, NEW list \in Seq(R)
    PROVE  \E f : /\ f \in [0 .. Len(list) -> State(list)]
                  /\ f[0] = First(list)
                  /\ \A n \in 1 .. Len(list) : f[n] = After(list, f[n - 1])
                  /\ Order(list) = f[Len(list)].done
  <1>1. PICK L \in Nat : L = Len(list)
    OBVIOUS
  <1>2. PICK S, a : S = State(list) /\ a = First(list)
    OBVIOUS
  <1> DEFINE IsKahn(F) ==
                F = [n \in 0 .. L |-> IF n = 0 THEN a ELSE After(list, F[n - 1])]
  <1>3. Order(list) = (CHOOSE F : IsKahn(F))[L].done
    BY <1>1, <1>2 DEF Order, First, After
  <1>4. a \in S
    <2>1. list \in Seq(Range(list))
      BY DEF Range
    <2>2. Among(list, Free(list)) \in Seq(Range(list)) /\ <<>> \in Seq(Range(list))
      BY <2>1, AmongType
    <2>3. QED
      BY <1>2, <2>2 DEF First, State
  <1>5. \A s \in S : After(list, s) \in S
    BY <1>2, PopType DEF After
  <1>6. PICK h : h = [n \in 1 .. L |-> [s \in S |-> After(list, s)]]
    OBVIOUS
  <1>7. h \in [1 .. L -> [S -> S]]
    BY <1>5, <1>6
  <1>8. PICK f : Follows(f, L, S, a, h)
    BY <1>4, <1>7, Recursion
  <1>9. \A n \in 1 .. L : f[n] = After(list, f[n - 1])
    <2>1. ASSUME NEW n \in 1 .. L PROVE f[n] = After(list, f[n - 1])
      <3>1. f[n - 1] \in S /\ f[n] = h[n][f[n - 1]]
        BY <1>8 DEF Follows
      <3>2. QED
        BY <1>6, <3>1
    <2>2. QED
      BY <2>1
  <1>10. IsKahn(f)
    <2>1. PICK g : g = [n \in 0 .. L |-> IF n = 0 THEN a ELSE After(list, f[n - 1])]
      OBVIOUS
    <2>2. ASSUME NEW n \in 0 .. L PROVE g[n] = f[n]
      <3>1. CASE n = 0
        BY <1>8, <2>1, <3>1 DEF Follows
      <3>2. CASE n # 0
        <4>1. n \in 1 .. L
          BY <3>2
        <4>2. QED
          BY <1>9, <2>1, <3>2, <4>1
      <3>3. QED
        BY <3>1, <3>2
    <2>3. f = g
      BY <1>8, <2>1, <2>2 DEF Follows
    <2>4. QED
      BY <2>1, <2>3
  <1>11. PICK Kahn : IsKahn(Kahn) /\ Order(list) = Kahn[L].done
    <2> HIDE DEF IsKahn
    <2>1. QED
      BY <1>3, <1>10
  <1>12. Kahn[0] = a /\ \A n \in 1 .. L : Kahn[n] = After(list, Kahn[n - 1])
    <2>1. ASSUME NEW n \in 1 .. L PROVE Kahn[n] = After(list, Kahn[n - 1])
      <3>1. n \in 0 .. L /\ n # 0
        OBVIOUS
      <3>2. QED
        BY <1>11, <3>1
    <2>2. QED
      BY <1>11, <2>1
  <1>13. \A n \in Nat : n <= L => Kahn[n] \in S
    <2>1. PICK G : G = {n \in Nat : n <= L => Kahn[n] \in S}
      OBVIOUS
    <2>2. 0 \in G
      BY <1>4, <1>12, <2>1
    <2>3. ASSUME NEW n \in Nat, n \in G PROVE n + 1 \in G
      <3> SUFFICES ASSUME n + 1 <= L PROVE Kahn[n + 1] \in S
        BY <2>1
      <3>1. Kahn[n] \in S /\ n + 1 \in 1 .. L /\ (n + 1) - 1 = n
        BY <2>1, <2>3
      <3>2. QED
        BY <1>5, <1>12, <3>1
    <2>4. Nat \subseteq G
      BY <2>2, <2>3, SetInduction
    <2>5. QED
      BY <2>1, <2>4
  <1>14. \A n \in 1 .. L : Kahn[n] = h[n][Kahn[n - 1]]
    <2>1. ASSUME NEW n \in 1 .. L PROVE Kahn[n] = h[n][Kahn[n - 1]]
      <3>1. n - 1 \in Nat /\ n - 1 <= L
        OBVIOUS
      <3>2. Kahn[n - 1] \in S
        BY <1>13, <3>1
      <3>3. QED
        BY <1>6, <1>12, <3>2
    <2>2. QED
      BY <2>1
  <1>15. Kahn[L] = f[L]
    BY ONLY L \in Nat, <1>4, <1>7, <1>8, <1>12, <1>14, OneRecursion
  <1>16. QED
    BY <1>1, <1>2, <1>8, <1>9, <1>11, <1>15 DEF Follows

-----------------------------------------------------------------------------
(* What Kahn's algorithm keeps true after n steps.                          *)

KahnLists(list, s) ==
    /\ s \in State(list) /\ IsInjective(s.done) /\ IsInjective(s.queue)
    /\ Range(s.done) \cap Range(s.queue) = {}

\* Every table comes after those it needs.
InOrder(list, o) ==
    \A i \in DOMAIN o : Graph(list)[o[i]] \subseteq {o[j] : j \in 1 .. i - 1}

\* The queue holds the tables that need none but those done.
KahnQueue(list, s) ==
    /\ \A u \in Range(s.queue) : Graph(list)[u] \subseteq Range(s.done)
    /\ \A u \in Range(list) : Graph(list)[u] \subseteq Range(s.done) =>
                                  u \in Range(s.done) \cup Range(s.queue)

KahnInv(list, n, s) ==
    /\ KahnLists(list, s)
    /\ InOrder(list, s.done)
    /\ KahnQueue(list, s)
    /\ s.queue = <<>> \/ Len(s.done) = n

LEMMA KahnInit ==
    ASSUME NEW R, NEW list \in Seq(R), IsInjective(list)
    PROVE  KahnInv(list, 0, First(list))
  <1>1. list \in Seq(Range(list))
    BY DEF Range
  <1>2. PICK q : q = Among(list, Free(list))
    OBVIOUS
  <1>3. q \in Seq(Range(list)) /\ Range(q) = Free(list) /\ IsInjective(q)
    BY <1>1, <1>2, AmongList DEF Free
  <1>4. PICK e : e = <<>>
    OBVIOUS
  <1>5. /\ e \in Seq(Range(list)) /\ IsInjective(e) /\ Range(e) = {} /\ Len(e) = 0
        /\ DOMAIN e = {}
    BY <1>4, EmptyList
  <1>6. PICK s : s = First(list)
    OBVIOUS
  <1>7. s \in State(list) /\ s.done = e /\ s.queue = q
    BY <1>2, <1>3, <1>4, <1>5, <1>6 DEF First, State
  <1>8. KahnLists(list, s)
    BY <1>3, <1>5, <1>7 DEF KahnLists
  <1>9. InOrder(list, s.done)
    BY <1>5, <1>7 DEF InOrder
  <1>10. KahnQueue(list, s)
    BY <1>3, <1>5, <1>7 DEF KahnQueue, Free
  <1>11. QED
    BY <1>5, <1>6, <1>7, <1>8, <1>9, <1>10 DEF KahnInv

LEMMA KahnPop ==
    ASSUME NEW R, NEW list \in Seq(R), IsInjective(list), NEW n \in Nat, NEW s,
           KahnInv(list, n, s), s.queue # <<>>
    PROVE  KahnInv(list, n + 1, Pop(list, s))
  <1>1. PICK r, t, F, g : /\ r = Pop(list, s)
                          /\ t = Head(s.queue)
                          /\ F = FreedBy(list, Append(s.done, t), t)
                          /\ g = Graph(list)
    OBVIOUS
  <1>2. PICK D, Q, d, q, e : /\ D = Range(s.done) /\ Q = Range(s.queue)
                             /\ d = Append(s.done, t) /\ q = Tail(s.queue)
                             /\ e = Among(list, F)
    OBVIOUS
  <1>3. list \in Seq(Range(list))
    BY DEF Range
  <1>4. /\ s.done \in Seq(Range(list)) /\ s.queue \in Seq(Range(list))
        /\ IsInjective(s.done) /\ IsInjective(s.queue) /\ D \cap Q = {}
    BY <1>2 DEF KahnInv, KahnLists, State
  <1>5. /\ t \in Range(list) /\ q \in Seq(Range(list)) /\ IsInjective(q)
        /\ Q = Range(q) \cup {t} /\ t \notin Range(q)
    BY <1>1, <1>2, <1>4, TailList
  <1>6. /\ d \in Seq(Range(list)) /\ IsInjective(d) /\ Range(d) = D \cup {t}
        /\ Len(d) = Len(s.done) + 1
    <2>1. t \notin D
      BY <1>4, <1>5
    <2>2. QED
      BY <1>2, <1>4, <1>5, <2>1, AppendList
  <1>7. F = {u \in Range(list) : t \in g[u] /\ g[u] \subseteq D \cup {t}}
    BY <1>1, <1>2, <1>6 DEF FreedBy
  <1>8. e \in Seq(Range(list)) /\ Range(e) = F /\ IsInjective(e)
    <2>1. Range(list) \cap F = F
      BY <1>7
    <2>2. QED
      BY <1>2, <1>3, <2>1, AmongList
  <1>9. r.done = d /\ r.queue = q \o e /\ r = [done |-> d, queue |-> q \o e]
    BY <1>1, <1>2 DEF Pop
  <1>10. \A u \in D : g[u] \subseteq D
    <2>1. \A i \in DOMAIN s.done : \A j \in 1 .. i - 1 : j \in DOMAIN s.done
      BY <1>4
    <2>2. \A i \in DOMAIN s.done : {s.done[j] : j \in 1 .. i - 1} \subseteq D
      BY <1>2, <2>1 DEF Range
    <2>3. \A i \in DOMAIN s.done : g[s.done[i]] \subseteq D
      BY <1>1, <2>2 DEF KahnInv, InOrder
    <2>4. QED
      BY <1>2, <2>3 DEF Range
  <1>11. \A u \in Q : g[u] \subseteq D
    BY <1>1, <1>2 DEF KahnInv, KahnQueue
  <1>12. t \notin g[t]
    BY <1>1, <1>5 DEF Graph
  <1>13. F \cap (D \cup Q) = {} /\ t \notin D
    BY <1>4, <1>5, <1>7, <1>10, <1>11
  <1>14. /\ q \o e \in Seq(Range(list)) /\ Range(q \o e) = Range(q) \cup F
         /\ IsInjective(q \o e)
    <2>1. Range(q) \cap Range(e) = {}
      BY <1>5, <1>8, <1>13
    <2>2. QED
      BY <1>5, <1>8, <2>1, ConcatList
  <1>15. KahnLists(list, r)
    <2>1. r \in State(list)
      BY <1>6, <1>9, <1>14 DEF State
    <2>2. (D \cup {t}) \cap (Range(q) \cup F) = {}
      BY <1>4, <1>5, <1>13
    <2>3. QED
      BY <1>6, <1>9, <1>14, <2>1, <2>2 DEF KahnLists
  <1>16. InOrder(list, r.done)
    <2> SUFFICES ASSUME NEW i \in DOMAIN d
                 PROVE  g[d[i]] \subseteq {d[j] : j \in 1 .. i - 1}
      BY <1>1, <1>9 DEF InOrder
    <2>1. PICK L, c : L = Len(s.done) /\ c = s.done
      OBVIOUS
    <2>2. c \in Seq(Range(list)) /\ d = Append(c, t) /\ L = Len(c)
      BY <1>2, <1>4, <2>1
    <2>3. L \in Nat /\ DOMAIN c = 1 .. L /\ DOMAIN d = 1 .. L + 1
      BY <1>5, <2>2
    <2>4. d[L + 1] = t /\ \A j \in 1 .. L : d[j] = c[j]
      BY <1>5, <2>2, <2>3
    <2>5. CASE i = L + 1
      <3>1. g[t] \subseteq D
        BY <1>5, <1>11
      <3>2. D = {c[j] : j \in 1 .. L}
        BY <1>2, <2>1, <2>3 DEF Range
      <3>3. D = {d[j] : j \in 1 .. L}
        BY <2>4, <3>2
      <3>4. i - 1 = L
        BY <2>3, <2>5
      <3>5. QED
        BY <2>4, <2>5, <3>1, <3>3, <3>4
    <2>6. CASE i \in 1 .. L
      <3>1. g[c[i]] \subseteq {c[j] : j \in 1 .. i - 1}
        <4>1. InOrder(list, c)
          BY <2>1 DEF KahnInv
        <4>2. QED
          BY <1>1, <2>3, <2>6, <4>1 DEF InOrder
      <3>2. \A j \in 1 .. i - 1 : d[j] = c[j]
        BY <2>3, <2>4, <2>6
      <3>3. {c[j] : j \in 1 .. i - 1} = {d[j] : j \in 1 .. i - 1}
        BY <3>2
      <3>4. QED
        BY <2>4, <2>6, <3>1, <3>3
    <2>7. i = L + 1 \/ i \in 1 .. L
      BY <2>3
    <2>8. QED
      BY <2>5, <2>6, <2>7
  <1>17. KahnQueue(list, r)
    <2>1. \A u \in Range(q) \cup F : g[u] \subseteq D \cup {t}
      BY <1>5, <1>7, <1>11
    <2>2. ASSUME NEW u \in Range(list), g[u] \subseteq D \cup {t}
          PROVE  u \in D \cup {t} \cup Range(q) \cup F
      <3>1. CASE t \in g[u]
        BY <1>7, <2>2, <3>1
      <3>2. CASE t \notin g[u]
        <4>1. g[u] \subseteq D
          BY <2>2, <3>2
        <4>2. u \in D \cup Q
          BY <1>1, <1>2, <4>1 DEF KahnInv, KahnQueue
        <4>3. QED
          BY <1>5, <4>2
      <3>3. QED
        BY <3>1, <3>2
    <2>3. QED
      BY <1>1, <1>6, <1>9, <1>14, <2>1, <2>2 DEF KahnQueue
  <1>18. Len(r.done) = n + 1
    BY <1>6, <1>9 DEF KahnInv
  <1>19. QED
    BY <1>1, <1>15, <1>16, <1>17, <1>18 DEF KahnInv

\* What _topological_sort returns for a list without repetitions: some of its
\* tables, each after those it needs, and either all or there is a cycle.
LEMMA OrderSorts ==
    ASSUME NEW list \in Seq(Tables), IsInjective(list)
    PROVE  /\ Order(list) \in Seq(Range(list))
           /\ IsInjective(Order(list))
           /\ InOrder(list, Order(list))
           /\ Len(Order(list)) = Len(list) => Range(Order(list)) = Range(list)
           /\ Len(Order(list)) # Len(list) => Cyclic(Range(list))
  <1>1. PICK L \in Nat : L = Len(list)
    OBVIOUS
  <1>2. PICK f : /\ f \in [0 .. L -> State(list)]
                 /\ f[0] = First(list)
                 /\ \A n \in 1 .. L : f[n] = After(list, f[n - 1])
                 /\ Order(list) = f[L].done
    BY <1>1, OrderIs
  <1>3. PICK G : G = {n \in Nat : n <= L => KahnInv(list, n, f[n])}
    OBVIOUS
  <1>4. 0 \in G
    BY <1>2, <1>3, KahnInit
  <1>5. ASSUME NEW n \in Nat, n \in G PROVE n + 1 \in G
    <2> SUFFICES ASSUME n + 1 <= L PROVE KahnInv(list, n + 1, f[n + 1])
      BY <1>3
    <2>1. KahnInv(list, n, f[n]) /\ f[n + 1] = After(list, f[n])
      <3>1. n + 1 \in 1 .. L /\ (n + 1) - 1 = n
        OBVIOUS
      <3>2. QED
        BY <1>2, <1>3, <1>5, <3>1
    <2>2. CASE f[n].queue = <<>>
      <3>1. f[n + 1] = f[n]
        BY <2>1, <2>2 DEF After
      <3>2. QED
        BY <2>1, <2>2, <3>1 DEF KahnInv
    <2>3. CASE f[n].queue # <<>>
      <3>1. f[n + 1] = Pop(list, f[n])
        BY <2>1, <2>3 DEF After
      <3>2. QED
        BY <2>1, <2>3, <3>1, KahnPop
    <2>4. QED
      BY <2>2, <2>3
  <1>6. Nat \subseteq G
    BY <1>4, <1>5, SetInduction
  <1>7. PICK s : s = f[L]
    OBVIOUS
  <1>8. KahnInv(list, L, s) /\ Order(list) = s.done
    BY <1>2, <1>3, <1>6, <1>7
  <1>9. PICK o, R : o = s.done /\ R = Range(list)
    OBVIOUS
  <1>10. o \in Seq(R) /\ IsInjective(o) /\ InOrder(list, o) /\ Range(o) \subseteq R
    <2>1. o \in Seq(R)
      BY <1>8, <1>9 DEF KahnInv, KahnLists, State
    <2>2. Range(o) \subseteq R
      BY <2>1 DEF Range
    <2>3. QED
      BY <1>8, <1>9, <2>1, <2>2 DEF KahnInv, KahnLists
  <1>11. IsFiniteSet(R) /\ Cardinality(R) = L /\ Cardinality(Range(o)) = Len(o)
    BY <1>1, <1>9, <1>10, Length
  <1>12. Len(o) = L => Range(o) = R
    BY <1>10, <1>11, FS_Subset
  <1>13. ASSUME Len(o) # L PROVE Cyclic(R)
    <2>1. s.queue = <<>> /\ Range(s.queue) = {}
      <3>1. s.queue = <<>>
        BY <1>8, <1>9, <1>13 DEF KahnInv
      <3>2. QED
        BY <3>1, EmptyList
    <2>2. Range(o) # R
      BY <1>11, <1>13
    <2>3. PICK S : S = R \ Range(o)
      OBVIOUS
    <2>4. S \in (SUBSET R) \ {{}}
      BY <1>10, <2>2, <2>3
    <2>5. ASSUME NEW t \in S PROVE script[t].seen \cap (S \ {t}) # {}
      <3>1. ~(Graph(list)[t] \subseteq Range(o))
        BY <1>8, <1>9, <2>1, <2>3 DEF KahnInv, KahnQueue
      <3>2. Graph(list)[t] = (script[t].seen \cap R) \ {t}
        BY <1>9, <2>3 DEF Graph
      <3>3. QED
        BY <2>3, <3>1, <3>2
    <2>6. QED
      BY <2>4, <2>5 DEF Cyclic
  <1>14. QED
    BY <1>1, <1>8, <1>9, <1>10, <1>12, <1>13

-----------------------------------------------------------------------------
(* The inductive invariant.                                                 *)

Creating == {"table", "create", "update", "columns"}
Stages == {"idle", "extensions", "extending", "triggers", "ended"} \cup Creating

Typed ==
    /\ script \in [Tables -> Script] /\ abort \in BOOLEAN /\ extension \in BOOLEAN
    /\ exists \subseteq Tables /\ columns \in [Tables -> SUBSET Columns]
    /\ functions \subseteq Functions
    /\ pc \in [Workers -> Stages]
    /\ todo \in [Workers -> Seq(Functions \cup Tables)]
    /\ missing \in [Workers -> SUBSET Tables]
    /\ success \in [Workers -> BOOLEAN]
    /\ quiet \subseteq Workers

Sorted(q) ==
    \A i \in DOMAIN q : \A p \in (script[q[i]].seen \cap Range(q)) \ {q[i]} :
        \E j \in 1 .. i - 1 : q[j] = p

\* What a worker that creates tables still has to do: tables it found missing, each
\* once and after those it needs; all others were there.
Queue(w) ==
    /\ todo[w] \in Seq(missing[w]) /\ IsInjective(todo[w]) /\ Sorted(todo[w])
    /\ Tables \ missing[w] \subseteq exists

Ready(T) == T \subseteq exists /\ \A t \in T : columns[t] = Columns

Worker(w) ==
    /\ pc[w] \in {"extensions", "extending", "triggers"} => todo[w] \in Seq(Functions)
    /\ pc[w] \in Creating =>
          Queue(w) /\ (success[w] => Ready(missing[w] \ Range(todo[w])))
    /\ pc[w] \in Creating \ {"table"} => todo[w] # <<>>
    /\ pc[w] = "ended" /\ success[w] => Tables \subseteq exists /\ Ready(missing[w])

\* A table a quiet run has not made, although its script is one of a table and the
\* code sees its references, lacks a table that this run will not make any more.
LeftOut(t, rest) ==
    \/ script[t].blank \/ script[t].seen # script[t].refs
    \/ \E p \in Parents(t) \ exists : p \notin rest

Alone(w) == \A v \in Workers : Running(v) => v = w

QuietWorker(w) ==
    /\ pc[w] \in {"extensions", "extending"} => todo[w] = TriggerFiles
    /\ pc[w] = "extending" => ~extension
    /\ pc[w] = "triggers" => Functions \subseteq functions \cup Range(todo[w])
    /\ pc[w] \in Creating =>
          /\ Functions \subseteq functions
          /\ \A t \in missing[w] \ (Range(todo[w]) \cup exists) : LeftOut(t, Range(todo[w]))
    /\ pc[w] = "update" => Head(todo[w]) \in exists
    /\ pc[w] = "columns" => Head(todo[w]) \in exists \/ script[Head(todo[w])].blank
    /\ pc[w] = "ended" /\ ~Cyclic(missing[w]) =>
          \A t \in Tables \ exists : LeftOut(t, {})

DDLInv ==
    /\ Typed
    /\ \A w \in Workers : Worker(w)
    /\ \A w \in quiet : Alone(w) /\ QuietWorker(w)

LEMMA SortedHead ==
    ASSUME NEW m, NEW q \in Seq(m), q # <<>>, Sorted(q)
    PROVE  \A p \in script[Head(q)].seen \ {Head(q)} : p \notin Range(q)
  <1>1. 1 \in DOMAIN q /\ Head(q) = q[1]
    BY TailList
  <1>2. \A p \in (script[q[1]].seen \cap Range(q)) \ {q[1]} : \E j \in 1 .. 1 - 1 : q[j] = p
    BY <1>1 DEF Sorted
  <1>3. 1 .. 1 - 1 = {}
    OBVIOUS
  <1>4. QED
    BY <1>1, <1>2, <1>3

LEMMA SortedTail ==
    ASSUME NEW m, NEW q \in Seq(m), q # <<>>, IsInjective(q), Sorted(q)
    PROVE  Sorted(Tail(q))
  <1>1. PICK r : r = Tail(q)
    OBVIOUS
  <1>2. PICK L \in Nat : L = Len(r)
    BY <1>1, TailList
  <1>3. /\ DOMAIN r = 1 .. L /\ DOMAIN q = 1 .. L + 1
        /\ Range(q) = Range(r) \cup {q[1]} /\ q[1] \notin Range(r)
        /\ \A i \in 1 .. L : r[i] = q[i + 1]
    <2>1. r \in Seq(m) /\ Len(q) = L + 1
      BY <1>1, <1>2, TailList
    <2>2. QED
      BY <1>1, <1>2, <2>1, TailList
  <1>4. ASSUME NEW i \in DOMAIN r, NEW p \in (script[r[i]].seen \cap Range(r)) \ {r[i]}
        PROVE  \E j \in 1 .. i - 1 : r[j] = p
    <2>1. i + 1 \in DOMAIN q /\ r[i] = q[i + 1] /\ p \in Range(q) /\ p # q[1]
      BY <1>3, <1>4
    <2>2. PICK j \in 1 .. (i + 1) - 1 : q[j] = p
      BY <1>4, <2>1 DEF Sorted
    <2>3. j # 1 /\ i \in 1 .. L
      BY <1>3, <2>1, <2>2
    <2>4. j - 1 \in 1 .. i - 1 /\ j - 1 \in 1 .. L /\ (j - 1) + 1 = j
      BY <2>2, <2>3
    <2>5. r[j - 1] = p
      BY <1>3, <2>2, <2>4
    <2>6. QED
      BY <2>4, <2>5
  <1>5. QED
    BY <1>1, <1>4 DEF Sorted

-----------------------------------------------------------------------------
(* What a step of w leaves alone.                                           *)

\* No table is lost, and no column of a table that has them all.
Grows ==
    /\ script' = script /\ exists \subseteq exists'
    /\ \A t \in exists : columns[t] = Columns => columns'[t] = Columns

Elsewhere(w) ==
    \A v \in Workers \ {w} : /\ pc'[v] = pc[v] /\ todo'[v] = todo[v]
                             /\ missing'[v] = missing[v] /\ success'[v] = success[v]

LEMMA TodoHead ==
    ASSUME DDLInv, NEW w \in Workers, pc[w] \in Creating, todo[w] # <<>>
    PROVE  /\ Head(todo[w]) \in missing[w] /\ Head(todo[w]) \in Tables
           /\ script[Head(todo[w])] \in Script
  <1>1. PICK q, m : q = todo[w] /\ m = missing[w]
    OBVIOUS
  <1>2. q \in Seq(m) /\ m \subseteq Tables /\ q # <<>>
    BY <1>1 DEF DDLInv, Typed, Worker, Queue
  <1>3. Head(q) \in m
    BY <1>2, TailList
  <1>4. QED
    BY <1>1, <1>2, <1>3 DEF DDLInv, Typed

LEMMA TodoTail ==
    ASSUME Typed, NEW w \in Workers, todo[w] # <<>>
    PROVE  Tail(todo[w]) \in Seq(Functions \cup Tables)
  <1>1. todo[w] \in Seq(Functions \cup Tables)
    BY DEF Typed
  <1>2. QED
    BY <1>1

LEMMA EarlyTouches ==
    ASSUME DDLInv, NEW w \in Workers,
           \/ Begin(w) \/ Extensions(w) \/ Extend(w) \/ Trigger(w) \/ TriggerFails(w)
    PROVE  Typed' /\ Grows /\ Elsewhere(w)
  <1> USE DEF DDLInv, Typed, Grows, Elsewhere, Keep, End, Goto, database, Stages, Creating
  <1>1. CASE Begin(w)
    <2>1. TriggerFiles \in Seq(Functions \cup Tables)
      BY DDLAssumption
    <2>2. QED
      BY <1>1, <2>1 DEF Begin
  <1>2. CASE Extensions(w)
    BY <1>2 DEF Extensions
  <1>3. CASE Extend(w)
    <2>1. <<>> \in Seq(Functions \cup Tables)
      OBVIOUS
    <2>2. QED
      BY <1>3, <2>1 DEF Extend
  <1>4. CASE Trigger(w)
    <2>1. Tail(todo[w]) \in Seq(Functions \cup Tables)
      BY <1>4, TodoTail DEF Trigger
    <2>2. PICK q : q = todo[w] /\ q \in Seq(Functions) /\ q # <<>>
      BY <1>4 DEF Trigger, Worker
    <2>3. Head(todo[w]) \in Functions
      BY <2>2, TailList
    <2>4. QED
      BY <1>4, <2>1, <2>3 DEF Trigger
  <1>5. CASE TriggerFails(w)
    <2>1. Tail(todo[w]) \in Seq(Functions \cup Tables) /\ <<>> \in Seq(Functions \cup Tables)
      BY <1>5, TodoTail DEF TriggerFails
    <2>2. QED
      BY <1>5, <2>1 DEF TriggerFails
  <1>6. QED
    BY <1>1, <1>2, <1>3, <1>4, <1>5

LEMMA CheckTouches ==
    ASSUME DDLInv, NEW w \in Workers, CheckMissing(w)
    PROVE  /\ Typed' /\ Grows /\ Elsewhere(w) /\ UNCHANGED <<database, quiet>>
           /\ missing'[w] = Tables \ exists
           /\ \/ /\ pc'[w] = "ended" /\ todo'[w] = <<>> /\ success'[w] = TRUE
                 /\ Tables \ exists = {}
              \/ /\ pc'[w] = "ended" /\ todo'[w] = <<>> /\ success'[w] = FALSE
                 /\ Cyclic(Tables \ exists)
              \/ /\ pc'[w] = "table" /\ todo'[w] \in Seq(Tables \ exists)
                 /\ IsInjective(todo'[w]) /\ Sorted(todo'[w])
                 /\ Range(todo'[w]) = Tables \ exists
  <1>1. PICK R : R = Tables \ exists
    OBVIOUS
  <1>2. PICK l : l = Among(Names, R)
    OBVIOUS
  <1>3. PICK o : o = Order(l)
    OBVIOUS
  <1>4. l \in Seq(Tables) /\ IsInjective(l) /\ Range(l) = R
    <2>1. Names \in Seq(Tables) /\ IsInjective(Names) /\ Range(Names) \cap R = R
      BY <1>1, DDLAssumption DEF Tables
    <2>2. QED
      BY <1>2, <2>1, AmongList
  <1>5. /\ o \in Seq(R) /\ IsInjective(o) /\ InOrder(l, o)
        /\ Len(o) = Len(l) => Range(o) = R
        /\ Len(o) # Len(l) => Cyclic(R)
    BY <1>3, <1>4, OrderSorts
  <1>6. o \in Seq(Functions \cup Tables) /\ <<>> \in Seq(Functions \cup Tables)
    BY <1>1, <1>5
  <1>7. Range(o) = R => Sorted(o)
    <2> SUFFICES ASSUME Range(o) = R, NEW i \in DOMAIN o,
                        NEW p \in (script[o[i]].seen \cap Range(o)) \ {o[i]}
                 PROVE  \E j \in 1 .. i - 1 : o[j] = p
      BY DEF Sorted
    <2>1. o[i] \in Range(l)
      BY <1>4 DEF Range
    <2>2. p \in Graph(l)[o[i]]
      BY <1>4, <2>1 DEF Graph
    <2>3. QED
      BY <1>5, <2>2 DEF InOrder
  <1>8. l = <<>> => R = {}
    BY <1>4, EmptyList
  <1>9. /\ missing' = [missing EXCEPT ![w] = R] /\ UNCHANGED <<script, abort, database, quiet>>
        /\ \/ /\ l = <<>> \/ Len(o) # Len(l)
              /\ pc' = [pc EXCEPT ![w] = "ended"] /\ todo' = [todo EXCEPT ![w] = <<>>]
              /\ success' = [success EXCEPT ![w] = (l = <<>>)]
           \/ /\ l # <<>> /\ Len(o) = Len(l)
              /\ pc' = [pc EXCEPT ![w] = "table"] /\ todo' = [todo EXCEPT ![w] = o]
              /\ success' = [success EXCEPT ![w] = TRUE]
    BY <1>1, <1>2, <1>3, <1>4 DEF CheckMissing, End, Goto
  <1>10. /\ missing'[w] = R /\ Elsewhere(w) /\ Grows
         /\ missing' \in [Workers -> SUBSET Tables]
    BY <1>1, <1>9 DEF DDLInv, Typed, Elsewhere, Grows, database
  <1>11. CASE l = <<>> \/ Len(o) # Len(l)
    <2>1. /\ pc'[w] = "ended" /\ todo'[w] = <<>> /\ success'[w] = (l = <<>>)
          /\ pc' \in [Workers -> Stages] /\ success' \in [Workers -> BOOLEAN]
          /\ todo' \in [Workers -> Seq(Functions \cup Tables)]
      BY <1>6, <1>9, <1>11 DEF DDLInv, Typed, Stages
    <2>2. QED
      BY <1>1, <1>5, <1>8, <1>9, <1>10, <1>11, <2>1 DEF DDLInv, Typed, database
  <1>12. CASE l # <<>> /\ Len(o) = Len(l)
    <2>1. /\ pc'[w] = "table" /\ todo'[w] = o
          /\ pc' \in [Workers -> Stages] /\ success' \in [Workers -> BOOLEAN]
          /\ todo' \in [Workers -> Seq(Functions \cup Tables)]
      BY <1>6, <1>9, <1>12 DEF DDLInv, Typed, Stages, Creating
    <2>2. QED
      BY <1>1, <1>5, <1>7, <1>9, <1>10, <1>12, <2>1 DEF DDLInv, Typed, database
  <1>13. QED
    BY <1>11, <1>12

LEMMA TableTouches ==
    ASSUME DDLInv, NEW w \in Workers,
           \/ TableExists(w) \/ CreateTable(w) \/ UpdateTable(w) \/ EnsureColumns(w)
           \/ Finish(w) \/ TransactionFails(w) \/ Crash(w)
    PROVE  Typed' /\ Grows /\ Elsewhere(w)
  <1> USE DEF DDLInv, Typed, Grows, Elsewhere, Keep, End, Goto, database, Stages, Creating
  <1>1. <<>> \in Seq(Functions \cup Tables)
    OBVIOUS
  <1>2. todo[w] # <<>> => Tail(todo[w]) \in Seq(Functions \cup Tables)
    BY TodoTail
  <1>3. pc[w] \in Creating \ {"table"} => todo[w] # <<>>
    BY DEF Worker
  <1>4. CASE TableExists(w)
    BY <1>4 DEF TableExists
  <1>5. CASE CreateTable(w)
    <2>1. PICK t : t = Head(todo[w])
      OBVIOUS
    <2>2. t \in Tables /\ script[t].defines \subseteq Columns
      BY <1>3, <1>5, <2>1, TodoHead DEF CreateTable, Script
    <2>3. Tail(todo[w]) \in Seq(Functions \cup Tables)
      BY <1>2, <1>3, <1>5 DEF CreateTable
    <2>4. CASE script[t].blank
      BY <1>5, <2>1, <2>4 DEF CreateTable
    <2>5. CASE ~script[t].blank /\ Creatable(t)
      BY <1>5, <2>1, <2>2, <2>5 DEF CreateTable, Creatable
    <2>6. CASE ~script[t].blank /\ ~Creatable(t)
      BY <1>5, <2>1, <2>3, <2>6 DEF CreateTable, NextTableFailed
    <2>7. QED
      BY <2>4, <2>5, <2>6
  <1>6. CASE UpdateTable(w)
    <2>1. PICK t : t = Head(todo[w])
      OBVIOUS
    <2>2. t \in Tables /\ script[t].defines \subseteq Columns
      BY <1>3, <1>6, <2>1, TodoHead DEF UpdateTable, Script
    <2>3. QED
      BY <1>6, <2>1, <2>2 DEF UpdateTable
  <1>7. CASE EnsureColumns(w)
    <2>1. PICK t : t = Head(todo[w])
      OBVIOUS
    <2>2. t \in Tables /\ Tail(todo[w]) \in Seq(Functions \cup Tables)
      BY <1>2, <1>3, <1>7, <2>1, TodoHead DEF EnsureColumns
    <2>3. CASE t \in exists
      <3>1. columns' = [columns EXCEPT ![t] = Columns] /\ UNCHANGED <<exists, extension>>
        BY <1>7, <2>1, <2>3 DEF EnsureColumns
      <3>2. columns' \in [Tables -> SUBSET Columns] /\ Grows
        <4>1. UNCHANGED script
          BY <1>7, <2>1, <2>3 DEF EnsureColumns
        <4>2. QED
          BY <2>2, <3>1, <4>1
      <3>3. /\ pc' = [pc EXCEPT ![w] = "table"] /\ todo' = [todo EXCEPT ![w] = Tail(@)]
            /\ UNCHANGED <<script, abort, functions, missing, success, quiet>>
        BY <1>7, <2>1, <2>3 DEF EnsureColumns
      <3>4. QED
        BY <2>2, <3>1, <3>2, <3>3
    <2>4. CASE t \notin exists
      BY <1>7, <2>1, <2>2, <2>4 DEF EnsureColumns, NextTableFailed
    <2>5. QED
      BY <2>3, <2>4
  <1>8. CASE Finish(w)
    BY <1>1, <1>8 DEF Finish
  <1>9. CASE TransactionFails(w)
    <2>1. CASE NextTableFailed(w)
      <3>1. todo[w] # <<>> /\ UNCHANGED <<database, missing>> /\ quiet' \subseteq quiet
        BY <1>3, <1>9, <2>1 DEF TransactionFails, NextTableFailed
      <3>2. QED
        BY <1>2, <2>1, <3>1 DEF NextTableFailed
    <2>2. CASE End(w, FALSE)
      <3>1. UNCHANGED <<database, missing>> /\ quiet' \subseteq quiet
        BY <1>9 DEF TransactionFails
      <3>2. QED
        BY <1>1, <2>2, <3>1
    <2>3. QED
      BY <1>9, <2>1, <2>2 DEF TransactionFails
  <1>10. CASE Crash(w)
    BY <1>1, <1>10 DEF Crash
  <1>11. QED
    BY <1>4, <1>5, <1>6, <1>7, <1>8, <1>9, <1>10

-----------------------------------------------------------------------------
(* What a step of w keeps true of the workers.                              *)

LEMMA OtherWorker ==
    ASSUME DDLInv, NEW w \in Workers, NEW v \in Workers \ {w}, Grows, Elsewhere(w)
    PROVE  Worker(v)'
  <1>1. PICK l, q, m, k : l = pc[v] /\ q = todo[v] /\ m = missing[v] /\ k = success[v]
    OBVIOUS
  <1>2. pc'[v] = l /\ todo'[v] = q /\ missing'[v] = m /\ success'[v] = k
    BY <1>1 DEF Elsewhere
  <1>3. m \subseteq Tables
    BY <1>1 DEF DDLInv, Typed
  <1>4. Worker(v)
    BY DEF DDLInv
  <1>5. Sorted(q) => Sorted(q)'
    BY DEF Sorted, Grows
  <1>6. \A T : Ready(T) => Ready(T)'
    BY DEF Ready, Grows
  <1>7. l \in Creating => Queue(v)'
    BY <1>1, <1>2, <1>4, <1>5 DEF Worker, Queue, Grows
  <1>8. l \in Creating /\ k => Ready(m \ Range(q))'
    BY <1>1, <1>4, <1>6 DEF Worker
  <1>9. l = "ended" /\ k => Tables \subseteq exists' /\ Ready(m)'
    BY <1>1, <1>4, <1>6 DEF Worker, Grows
  <1>10. QED
    BY <1>1, <1>2, <1>4, <1>7, <1>8, <1>9 DEF Worker, Ready

\* Every step that takes the head of the list away.
LEMMA DropHead ==
    ASSUME DDLInv, NEW w \in Workers, pc[w] \in Creating, todo[w] # <<>>, Grows,
           todo'[w] = Tail(todo[w]), missing'[w] = missing[w]
    PROVE  /\ Queue(w)'
           /\ Range(todo[w]) = Range(todo'[w]) \cup {Head(todo[w])}
           /\ Head(todo[w]) \notin Range(todo'[w])
  <1>1. PICK q, m, r : q = todo[w] /\ m = missing[w] /\ r = Tail(q)
    OBVIOUS
  <1>2. q \in Seq(m) /\ IsInjective(q) /\ Sorted(q) /\ Tables \ m \subseteq exists
    BY <1>1 DEF DDLInv, Worker, Queue
  <1>3. /\ r \in Seq(m) /\ IsInjective(r) /\ Range(q) = Range(r) \cup {Head(q)}
        /\ Head(q) \notin Range(r)
    BY <1>1, <1>2, TailList
  <1>4. Sorted(r)
    BY <1>1, <1>2, SortedTail
  <1>5. Sorted(r)'
    BY <1>4 DEF Sorted, Grows
  <1>6. todo'[w] = r /\ missing'[w] = m
    BY <1>1
  <1>7. Queue(w)'
    BY <1>2, <1>3, <1>5, <1>6 DEF Queue, Grows
  <1>8. QED
    BY <1>1, <1>3, <1>6, <1>7

\* A step that changes nothing of the list.
LEMMA KeepList ==
    ASSUME DDLInv, NEW w \in Workers, pc[w] \in Creating, Grows,
           todo'[w] = todo[w], missing'[w] = missing[w]
    PROVE  /\ Queue(w)'
           /\ success[w] => Ready(missing[w] \ Range(todo[w]))'
  <1>1. PICK q, m : q = todo[w] /\ m = missing[w] /\ todo'[w] = q /\ missing'[w] = m
    OBVIOUS
  <1>2. /\ q \in Seq(m) /\ IsInjective(q) /\ Sorted(q) /\ Tables \ m \subseteq exists
        /\ success[w] => Ready(m \ Range(q))
    BY <1>1 DEF DDLInv, Worker, Queue
  <1>3. Sorted(q)'
    BY <1>2 DEF Sorted, Grows
  <1>4. Ready(m \ Range(q)) => Ready(m \ Range(q))'
    BY DEF Ready, Grows
  <1>5. Queue(w)'
    BY <1>1, <1>2, <1>3 DEF Queue, Grows
  <1>6. QED
    BY <1>1, <1>2, <1>4, <1>5 DEF Ready

LEMMA EarlyWorker ==
    ASSUME DDLInv, NEW w \in Workers,
           \/ Begin(w) \/ Extensions(w) \/ Extend(w) \/ Trigger(w) \/ TriggerFails(w)
    PROVE  Worker(w)'
  <1>1. /\ pc \in [Workers -> Stages] /\ DOMAIN todo = Workers /\ DOMAIN success = Workers
        /\ Worker(w)
    BY DEF DDLInv, Typed
  <1>2. CASE pc'[w] = "ended" /\ success'[w] = FALSE
    BY <1>2 DEF Worker, Creating
  <1>3. CASE pc'[w] \in {"extensions", "extending", "triggers"} /\ todo'[w] \in Seq(Functions)
    BY <1>3 DEF Worker, Creating
  <1>4. CASE Begin(w)
    BY <1>1, <1>3, <1>4, DDLAssumption DEF Begin, DDLInv, Typed
  <1>5. CASE Extensions(w)
    BY <1>1, <1>3, <1>5 DEF Extensions, Goto, Worker
  <1>6. CASE Extend(w)
    BY <1>1, <1>2, <1>3, <1>6 DEF Extend, End, Goto, Worker
  <1>7. ASSUME pc[w] = "triggers", todo[w] # <<>> PROVE Tail(todo[w]) \in Seq(Functions)
    <2>1. PICK q : q = todo[w] /\ q \in Seq(Functions) /\ q # <<>>
      BY <1>1, <1>7 DEF Worker
    <2>2. QED
      BY <2>1
  <1>8. CASE Trigger(w)
    BY <1>1, <1>3, <1>7, <1>8 DEF Trigger
  <1>9. CASE TriggerFails(w)
    BY <1>1, <1>2, <1>3, <1>7, <1>9 DEF TriggerFails, End, Goto
  <1>10. QED
    BY <1>4, <1>5, <1>6, <1>8, <1>9

LEMMA CheckWorker ==
    ASSUME DDLInv, NEW w \in Workers, CheckMissing(w)
    PROVE  Worker(w)'
  <1>1. PICK R, q : R = Tables \ exists /\ q = todo'[w]
    OBVIOUS
  <1>2. exists' = exists /\ missing'[w] = R
    BY <1>1, CheckTouches DEF database
  <1>3. CASE pc'[w] = "ended" /\ success'[w] = TRUE /\ R = {}
    BY <1>1, <1>2, <1>3 DEF Worker, Creating, Ready
  <1>4. CASE pc'[w] = "ended" /\ success'[w] = FALSE
    BY <1>4 DEF Worker, Creating
  <1>5. CASE pc'[w] = "table" /\ q \in Seq(R) /\ IsInjective(q) /\ Sorted(q) /\ Range(q) = R
    <2>1. Sorted(q)'
      BY <1>5, CheckTouches DEF Grows, Sorted
    <2>2. Queue(w)'
      BY <1>1, <1>2, <1>5, <2>1 DEF Queue
    <2>3. R \ Range(q) = {}
      BY <1>5
    <2>4. QED
      BY <1>1, <1>2, <1>5, <2>2, <2>3 DEF Worker, Ready, Creating
  <1>6. QED
    BY <1>1, <1>3, <1>4, <1>5, CheckTouches

LEMMA TableWorker ==
    ASSUME DDLInv, NEW w \in Workers,
           \/ TableExists(w) \/ CreateTable(w) \/ UpdateTable(w) \/ EnsureColumns(w)
           \/ Finish(w) \/ TransactionFails(w) \/ Crash(w)
    PROVE  Worker(w)'
  <1>1. /\ pc \in [Workers -> Stages] /\ DOMAIN todo = Workers /\ DOMAIN success = Workers
        /\ DOMAIN missing = Workers /\ Worker(w) /\ missing[w] \subseteq Tables /\ Grows
    BY TableTouches DEF DDLInv, Typed
  <1>2. CASE pc'[w] \in {"idle", "ended"} /\ success'[w] = FALSE
    BY <1>2 DEF Worker, Creating
  <1>3. CASE /\ pc[w] \in Creating /\ pc'[w] \in Creating /\ todo[w] # <<>>
             /\ todo'[w] = todo[w] /\ missing'[w] = missing[w] /\ success'[w] = success[w]
    <2>1. PICK q, m : q = todo[w] /\ m = missing[w]
      OBVIOUS
    <2>2. Queue(w)' /\ (success[w] => Ready(m \ Range(q))')
      BY <1>1, <1>3, <2>1, KeepList DEF Ready
    <2>3. QED
      BY <1>3, <2>1, <2>2 DEF Worker, Ready, Creating
  <1>4. CASE /\ pc[w] \in Creating /\ pc'[w] = "table" /\ todo[w] # <<>>
             /\ todo'[w] = Tail(todo[w]) /\ missing'[w] = missing[w] /\ success'[w] = FALSE
    BY <1>1, <1>4, DropHead DEF Worker, Creating
  <1>5. NextTableFailed(w) => /\ pc'[w] = "table" /\ todo'[w] = Tail(todo[w])
                              /\ success'[w] = FALSE
    BY <1>1 DEF NextTableFailed, Goto
  <1>6. CASE TableExists(w)
    BY <1>1, <1>3, <1>6 DEF TableExists, Goto, Keep, Creating
  <1>7. CASE CreateTable(w)
    <2>1. todo[w] # <<>> /\ pc[w] \in Creating /\ missing'[w] = missing[w]
      BY <1>1, <1>7 DEF CreateTable, Worker, Creating, Keep
    <2>2. \/ pc'[w] = "columns" /\ UNCHANGED <<todo, success>>
          \/ NextTableFailed(w)
      BY <1>1, <1>7 DEF CreateTable, Goto
    <2>3. QED
      BY <1>3, <1>4, <1>5, <2>1, <2>2 DEF Creating
  <1>8. CASE UpdateTable(w)
    BY <1>1, <1>3, <1>8 DEF UpdateTable, Worker, Creating, Keep, Goto
  <1>9. CASE EnsureColumns(w)
    <2>1. todo[w] # <<>> /\ pc[w] \in Creating /\ missing'[w] = missing[w]
      BY <1>1, <1>9 DEF EnsureColumns, Worker, Creating, Keep
    <2>2. PICK t : t = Head(todo[w])
      OBVIOUS
    <2>3. CASE NextTableFailed(w)
      BY <1>4, <1>5, <2>1, <2>3
    <2>4. CASE /\ t \in exists /\ exists' = exists /\ pc'[w] = "table"
               /\ columns' = [columns EXCEPT ![t] = Columns]
               /\ todo'[w] = Tail(todo[w]) /\ success'[w] = success[w]
      <3>1. PICK q, r, m : q = Range(todo[w]) /\ r = Range(todo'[w]) /\ m = missing[w]
        OBVIOUS
      <3>2. Queue(w)' /\ q = r \cup {t}
        BY <1>1, <2>1, <2>2, <2>4, <3>1, DropHead
      <3>3. success[w] => Ready(m \ q)
        BY <1>1, <2>1, <3>1 DEF Worker
      <3>4. columns'[t] = Columns
        BY <2>1, <2>2, <2>4, TodoHead DEF DDLInv, Typed
      <3>5. success[w] => Ready(m \ r)'
        BY <1>1, <2>4, <3>2, <3>3, <3>4 DEF Ready, Grows
      <3>6. QED
        BY <2>1, <2>4, <3>1, <3>2, <3>5 DEF Worker, Creating, Ready
    <2>5. QED
      BY <1>1, <1>9, <2>2, <2>3, <2>4 DEF EnsureColumns, Goto
  <1>10. CASE Finish(w)
    <2>1. /\ pc[w] = "table" /\ todo[w] = <<>> /\ pc'[w] = "ended"
          /\ success'[w] = success[w] /\ missing'[w] = missing[w]
          /\ exists' = exists /\ columns' = columns
      BY <1>1, <1>10 DEF Finish, End, Goto, Keep, database
    <2>2. Range(todo[w]) = {}
      BY <2>1, EmptyList
    <2>3. PICK m : m = missing[w]
      OBVIOUS
    <2>4. Tables \ m \subseteq exists /\ (success[w] => Ready(m))
      <3>1. m \ {} = m
        OBVIOUS
      <3>2. QED
        BY <1>1, <2>1, <2>2, <2>3, <3>1 DEF Worker, Queue, Creating
    <2>5. success[w] => Tables \subseteq exists
      BY <2>4 DEF Ready
    <2>6. QED
      BY <2>1, <2>3, <2>4, <2>5 DEF Worker, Creating, Ready
  <1>11. CASE TransactionFails(w)
    <2>1. missing'[w] = missing[w]
      BY <1>11 DEF TransactionFails
    <2>2. CASE NextTableFailed(w)
      <3>1. \/ pc[w] = "table" /\ todo[w] # <<>>
            \/ pc[w] \in {"create", "update", "columns"}
        BY <1>1, <1>11, <2>2 DEF TransactionFails, NextTableFailed, End, Goto
      <3>2. pc[w] \in Creating /\ todo[w] # <<>>
        BY <1>1, <3>1 DEF Worker, Creating
      <3>3. QED
        BY <1>4, <1>5, <2>1, <2>2, <3>2
    <2>3. CASE End(w, FALSE)
      BY <1>1, <1>2, <2>3 DEF End, Goto
    <2>4. QED
      BY <1>11, <2>2, <2>3 DEF TransactionFails
  <1>12. CASE Crash(w)
    BY <1>1, <1>2, <1>12 DEF Crash
  <1>13. QED
    BY <1>6, <1>7, <1>8, <1>9, <1>10, <1>11, <1>12

LEMMA EarlyQuiet ==
    ASSUME DDLInv, NEW w \in Workers,
           \/ Begin(w)
           \/ w \in quiet /\ (Extensions(w) \/ Extend(w) \/ Trigger(w))
    PROVE  QuietWorker(w)'
  <1>1. /\ pc \in [Workers -> Stages] /\ DOMAIN todo = Workers
        /\ w \in quiet => QuietWorker(w)
        /\ Range(TriggerFiles) = Functions
    BY DEF DDLInv, Typed, Functions
  <1>2. CASE Begin(w)
    BY <1>1, <1>2 DEF Begin, QuietWorker, Creating
  <1>3. CASE w \in quiet /\ Extensions(w)
    <2>1. /\ todo'[w] = TriggerFiles /\ extension' = extension
          /\ pc'[w] = IF extension THEN "triggers" ELSE "extending"
      BY <1>1, <1>3 DEF Extensions, Goto, QuietWorker, database
    <2>2. QED
      BY <1>1, <2>1 DEF QuietWorker, Creating
  <1>4. CASE w \in quiet /\ Extend(w)
    <2>1. todo'[w] = TriggerFiles /\ pc'[w] = "triggers"
      BY <1>1, <1>4 DEF Extend, Goto, QuietWorker
    <2>2. QED
      BY <1>1, <2>1 DEF QuietWorker, Creating
  <1>5. CASE w \in quiet /\ Trigger(w)
    <2>1. PICK q : q = todo[w] /\ q \in Seq(Functions) /\ q # <<>>
      BY <1>5 DEF Trigger, DDLInv, Worker
    <2>2. Range(q) = Range(Tail(q)) \cup {Head(q)}
      BY <2>1, TailList
    <2>3. /\ todo'[w] = Tail(q) /\ pc'[w] = "triggers" /\ functions' = functions \cup {Head(q)}
          /\ Functions \subseteq functions \cup Range(q)
      BY <1>1, <1>5, <2>1 DEF Trigger, QuietWorker
    <2>4. QED
      BY <2>2, <2>3 DEF QuietWorker, Creating
  <1>6. QED
    BY <1>2, <1>3, <1>4, <1>5

LEMMA CheckQuiet ==
    ASSUME DDLInv, NEW w \in quiet, w \in Workers, CheckMissing(w)
    PROVE  QuietWorker(w)'
  <1>1. PICK R, q : R = Tables \ exists /\ q = todo'[w]
    OBVIOUS
  <1>2. exists' = exists /\ functions' = functions /\ missing'[w] = R /\ script' = script
    BY <1>1, CheckTouches DEF database, Grows
  <1>3. Functions \subseteq functions
    <2>1. pc[w] = "triggers" /\ Range(todo[w]) = {}
      BY EmptyList DEF CheckMissing
    <2>2. QED
      BY <2>1 DEF DDLInv, QuietWorker
  <1>4. CASE pc'[w] = "ended" /\ R = {}
    BY <1>1, <1>2, <1>4 DEF QuietWorker, Creating
  <1>5. CASE pc'[w] = "ended" /\ Cyclic(R)
    <2>1. Cyclic(R)'
      BY <1>2, <1>5 DEF Cyclic
    <2>2. (~Cyclic(missing[w]))' = FALSE
      BY <1>2, <2>1 DEF Cyclic
    <2>3. QED
      BY <1>5, <2>2 DEF QuietWorker, Creating
  <1>6. CASE pc'[w] = "table" /\ Range(q) = R
    BY <1>1, <1>2, <1>3, <1>6 DEF QuietWorker, Creating
  <1>7. QED
    BY <1>1, <1>4, <1>5, <1>6, CheckTouches

\* What is left out stays left out.
LEMMA StaysOut ==
    ASSUME NEW T, NEW e, NEW r, NEW t,
           script' = script, exists' \subseteq exists \cup {e}, e \in r, T \subseteq r,
           LeftOut(t, r)
    PROVE  LeftOut(t, T)'
  BY DEF LeftOut, Parents

LEMMA TableQuiet ==
    ASSUME DDLInv, NEW w \in quiet, w \in Workers,
           TableExists(w) \/ CreateTable(w) \/ UpdateTable(w) \/ EnsureColumns(w) \/ Finish(w)
    PROVE  QuietWorker(w)'
  <1>1. /\ pc \in [Workers -> Stages] /\ DOMAIN todo = Workers
        /\ missing[w] \subseteq Tables /\ Worker(w) /\ QuietWorker(w) /\ pc[w] \in Creating
        /\ Grows
    BY TableTouches DEF DDLInv, Typed, Creating, TableExists, CreateTable, UpdateTable,
       EnsureColumns, Finish
  <1>2. PICK q, m, r : q = todo[w] /\ m = missing[w] /\ r = Range(q)
    OBVIOUS
  <1>3. /\ q \in Seq(m) /\ IsInjective(q) /\ Sorted(q) /\ m \subseteq Tables
        /\ Tables \ m \subseteq exists /\ Functions \subseteq functions
        /\ \A t \in m \ (r \cup exists) : LeftOut(t, r)
    BY <1>1, <1>2 DEF Worker, Queue, QuietWorker
  <1>4. script' = script /\ exists \subseteq exists' /\ functions' = functions /\ missing'[w] = m
    BY <1>1, <1>2 DEF Grows, TableExists, CreateTable, UpdateTable, EnsureColumns, Finish,
       Keep, database
  <1>5. CASE TableExists(w)
    <2>1. /\ todo'[w] = q /\ exists' = exists
          /\ pc'[w] = IF Head(q) \in exists THEN "update" ELSE "create"
      BY <1>1, <1>2, <1>5 DEF TableExists, Goto, database
    <2>2. \A t : LeftOut(t, r) => LeftOut(t, r)'
      BY <1>4, <2>1 DEF LeftOut, Parents
    <2>3. QED
      BY <1>2, <1>3, <1>4, <2>1, <2>2 DEF QuietWorker, Creating, LeftOut, Parents
  <1>6. CASE Finish(w)
    <2>1. /\ q = <<>> /\ todo'[w] = q /\ exists' = exists /\ pc'[w] = "ended" /\ r = {}
      BY <1>1, <1>2, <1>6, EmptyList DEF Finish, End, Goto, database
    <2>2. \A t \in Tables \ exists : LeftOut(t, {})
      BY <1>3, <2>1
    <2>3. \A t : LeftOut(t, {}) => LeftOut(t, {})'
      BY <1>4, <2>1 DEF LeftOut, Parents
    <2>4. QED
      BY <2>1, <2>2, <2>3 DEF QuietWorker, Creating, LeftOut, Parents
  <1>7. CASE ~TableExists(w) /\ ~Finish(w)
    <2>1. PICK t, T : t = Head(q) /\ T = Range(Tail(q))
      OBVIOUS
    <2>2. pc[w] \in {"create", "update", "columns"} /\ q # <<>>
      BY <1>1, <1>2, <1>7 DEF CreateTable, UpdateTable, EnsureColumns, Worker, Creating
    <2>3. /\ t \in m /\ t \in Tables /\ r = T \cup {t} /\ t \notin T
          /\ \A p \in script[t].seen \ {t} : p \notin r
      BY <1>2, <1>3, <2>1, <2>2, SortedHead, TailList
    <2>4. exists' \subseteq exists \cup {t}
      BY <1>2, <1>7, <2>1 DEF CreateTable, UpdateTable, EnsureColumns
    <2>5. \A u : LeftOut(u, r) => LeftOut(u, r)' /\ LeftOut(u, T)'
      BY <1>4, <2>3, <2>4, StaysOut DEF LeftOut, Parents
    <2>6. CASE /\ pc'[w] = "columns" /\ todo'[w] = q
               /\ t \in exists' \/ script[t].blank
      <3>1. \A u \in m \ (r \cup exists') : LeftOut(u, r)'
        BY <1>3, <1>4, <2>5
      <3>2. QED
        BY <1>2, <1>3, <1>4, <2>1, <2>6, <3>1 DEF QuietWorker, Creating, LeftOut, Parents
    <2>7. CASE /\ pc'[w] = "table" /\ todo'[w] = Tail(q)
               /\ t \in exists' \/ LeftOut(t, T)'
      <3>1. \A u \in m \ (T \cup exists') : LeftOut(u, T)'
        BY <1>3, <1>4, <2>3, <2>5, <2>7
      <3>2. QED
        BY <1>3, <1>4, <2>1, <2>7, <3>1 DEF QuietWorker, Creating, LeftOut, Parents
    <2>8. NextTableFailed(w) => pc'[w] = "table" /\ todo'[w] = Tail(q)
      BY <1>1, <1>2 DEF NextTableFailed, Goto
    <2>9. CASE CreateTable(w)
      <3>1. CASE script[t].blank
        BY <1>1, <1>2, <2>1, <2>6, <2>9, <3>1 DEF CreateTable, Goto
      <3>2. CASE ~script[t].blank /\ Creatable(t)
        BY <1>1, <1>2, <2>1, <2>6, <2>9, <3>2 DEF CreateTable, Goto
      <3>3. CASE ~script[t].blank /\ ~Creatable(t)
        <4>1. exists' = exists /\ NextTableFailed(w)
          BY <1>2, <2>1, <2>9, <3>3 DEF CreateTable
        <4>2. ASSUME t \notin exists PROVE LeftOut(t, T)'
          <5>1. PICK p \in Parents(t) : p \notin exists
            BY <1>3, <3>3, <4>2 DEF Creatable
          <5>2. CASE script[t].seen = script[t].refs
            <6>1. p \notin T
              BY <2>3, <5>1, <5>2 DEF Parents
            <6>2. QED
              BY <1>4, <4>1, <5>1, <6>1 DEF LeftOut, Parents
          <5>3. CASE script[t].seen # script[t].refs
            BY <1>4, <5>3 DEF LeftOut
          <5>4. QED
            BY <5>2, <5>3
        <4>3. QED
          BY <2>7, <2>8, <4>1, <4>2
      <3>4. QED
        BY <3>1, <3>2, <3>3
    <2>10. CASE UpdateTable(w)
      BY <1>1, <1>2, <2>1, <2>6, <2>10 DEF UpdateTable, QuietWorker, Goto
    <2>11. CASE EnsureColumns(w)
      <3>1. CASE t \in exists
        BY <1>1, <1>2, <1>4, <2>1, <2>7, <2>11, <3>1 DEF EnsureColumns, Goto
      <3>2. CASE t \notin exists
        <4>1. script[t].blank /\ NextTableFailed(w)
          BY <1>1, <1>2, <2>1, <2>11, <3>2 DEF EnsureColumns, QuietWorker
        <4>2. LeftOut(t, T)'
          BY <1>4, <4>1 DEF LeftOut
        <4>3. QED
          BY <2>7, <2>8, <4>1, <4>2
      <3>3. QED
        BY <3>1, <3>2
    <2>12. QED
      BY <1>7, <2>9, <2>10, <2>11
  <1>8. QED
    BY <1>5, <1>6, <1>7

-----------------------------------------------------------------------------

LEMMA DDLInit == Init => DDLInv
  <1> SUFFICES ASSUME Init PROVE DDLInv
    OBVIOUS
  <1>1. script \in [Tables -> Script]
    BY DDLAssumption DEF Init
  <1>2. columns \in [Tables -> SUBSET Columns] /\ exists \subseteq Tables
    BY DEF Init
  <1>3. functions \subseteq Functions
    BY DEF Init
  <1>4. <<>> \in Seq(Functions \cup Tables)
    OBVIOUS
  <1>5. Typed
    BY <1>1, <1>2, <1>3, <1>4 DEF Init, Typed, Stages
  <1>6. \A w \in Workers : Worker(w)
    BY DEF Init, Worker, Creating
  <1>7. QED
    BY <1>5, <1>6 DEF DDLInv, Init

\* What a step of a worker does, all in all.
LEMMA StepOf ==
    ASSUME DDLInv, NEW w \in Workers,
           Step(w) \/ Begin(w) \/ TriggerFails(w) \/ TransactionFails(w) \/ Crash(w)
    PROVE  /\ Typed' /\ Grows /\ Elsewhere(w) /\ Worker(w)'
           /\ \/ Begin(w)
              \/ Running(w) /\ quiet' \subseteq quiet
           /\ w \in quiet' => QuietWorker(w)'
  <1>1. Typed' /\ Grows /\ Elsewhere(w)
    BY EarlyTouches, CheckTouches, TableTouches DEF Step
  <1>2. Worker(w)'
    BY EarlyWorker, CheckWorker, TableWorker DEF Step
  <1>3. w \notin quiet' \/ Begin(w) \/ Step(w)
    BY DEF TriggerFails, TransactionFails, Crash
  <1>4. Begin(w) \/ (Running(w) /\ quiet' \subseteq quiet)
    <2>1. CASE Extensions(w) \/ Extend(w) \/ Trigger(w) \/ CheckMissing(w)
      BY <2>1 DEF Extensions, Extend, Trigger, CheckMissing, Running, Keep
    <2>2. CASE TableExists(w) \/ CreateTable(w) \/ UpdateTable(w) \/ EnsureColumns(w) \/ Finish(w)
      BY <2>2 DEF TableExists, CreateTable, UpdateTable, EnsureColumns, Finish, Running, Keep
    <2>3. CASE TriggerFails(w) \/ TransactionFails(w) \/ Crash(w)
      BY <2>3 DEF TriggerFails, TransactionFails, Crash, Running
    <2>4. QED
      BY <2>1, <2>2, <2>3 DEF Step
  <1>5. w \in quiet' => QuietWorker(w)'
    <2> SUFFICES ASSUME w \in quiet' PROVE QuietWorker(w)'
      OBVIOUS
    <2>1. CASE Begin(w)
      BY <2>1, EarlyQuiet
    <2>2. CASE Step(w) /\ w \in quiet
      BY <2>2, EarlyQuiet, CheckQuiet, TableQuiet DEF Step
    <2>3. QED
      BY <1>3, <1>4, <2>1, <2>2
  <1>6. QED
    BY <1>1, <1>2, <1>4, <1>5

LEMMA DDLNext ==
    ASSUME DDLInv, [Next]_vars
    PROVE  DDLInv'
  <1>1. CASE UNCHANGED vars
    <2>1. Typed'
      BY <1>1 DEF DDLInv, Typed, vars, database
    <2>2. \A w \in Workers : Worker(w)'
      BY <1>1 DEF DDLInv, Worker, Queue, Sorted, Ready, vars, database
    <2>3. \A w \in quiet : Alone(w)'
      BY <1>1 DEF DDLInv, Alone, Running, vars, database
    <2>4. \A w \in quiet : QuietWorker(w)'
      BY <1>1 DEF DDLInv, QuietWorker, LeftOut, Parents, Cyclic, vars, database
    <2>5. QED
      BY <1>1, <2>1, <2>2, <2>3, <2>4 DEF DDLInv, vars
  <1>2. ASSUME NEW w \in Workers,
               Step(w) \/ Begin(w) \/ TriggerFails(w) \/ TransactionFails(w) \/ Crash(w)
        PROVE  DDLInv'
    <2>1. /\ Typed' /\ Grows /\ Elsewhere(w) /\ Worker(w)'
          /\ Begin(w) \/ (Running(w) /\ quiet' \subseteq quiet)
          /\ w \in quiet' => QuietWorker(w)'
      BY <1>2, StepOf
    <2>2. \A v \in Workers : Worker(v)'
      <3>1. \A v \in Workers \ {w} : Worker(v)'
        BY <2>1, OtherWorker
      <3>2. QED
        BY <2>1, <3>1
    <2>3. ASSUME NEW v \in quiet' PROVE Alone(v)' /\ QuietWorker(v)'
      <3>1. v = w /\ \A u \in Workers \ {w} : ~Running(u)
        <4>1. CASE Begin(w)
          BY <2>3, <4>1 DEF Begin
        <4>2. CASE Running(w) /\ quiet' \subseteq quiet
          BY <2>3, <4>2 DEF DDLInv, Alone
        <4>3. QED
          BY <2>1, <4>1, <4>2
      <3>2. Alone(w)'
        BY <2>1, <3>1 DEF Alone, Running, Elsewhere
      <3>3. QED
        BY <2>1, <2>3, <3>1, <3>2
    <2>4. QED
      BY <2>1, <2>2, <2>3 DEF DDLInv
  <1>3. QED
    BY <1>1, <1>2 DEF Next

THEOREM DDLInvariant == Spec => []DDLInv
  BY DDLInit, DDLNext, PTL DEF Spec

\* A run that returned True leaves every table there and complete
\* (core/ddl_manager.py:244), for any number of workers, tables and scripts.
THEOREM SuccessReady == Spec => []SuccessMeansReady
  <1>1. DDLInv => SuccessMeansReady
    BY DEF DDLInv, Worker, Ready, SuccessMeansReady
  <1>2. QED
    BY <1>1, DDLInvariant, PTL

\* The topological order does what it is for: a script runs after those of the
\* tables it references, whatever the scripts and whatever fails (lines 343-385).
THEOREM ParentsFirst == Spec => []ParentsTriedFirst
  <1>1. ASSUME DDLInv, NEW w \in Workers, pc[w] = "create",
               NEW p \in script[Head(todo[w])].seen \ {Head(todo[w])}
        PROVE  p \in exists \/ p \in missing[w] \ Range(todo[w])
    <2>1. PICK q, m : q = todo[w] /\ m = missing[w]
      OBVIOUS
    <2>2. q \in Seq(m) /\ Sorted(q) /\ q # <<>> /\ Tables \ m \subseteq exists
      BY <1>1, <2>1 DEF DDLInv, Worker, Queue, Creating
    <2>3. p \notin Range(q)
      BY <1>1, <2>1, <2>2, SortedHead
    <2>4. p \in Tables
      BY <1>1, <2>1, <2>2, TodoHead DEF Script, Creating
    <2>5. QED
      BY <2>1, <2>2, <2>3, <2>4
  <1>2. DDLInv => ParentsTriedFirst
    BY <1>1 DEF ParentsTriedFirst
  <1>3. QED
    BY <1>2, DDLInvariant, PTL

\* A run in which nothing failed and no other worker took part makes every table
\* that can be made, whatever it found.
THEOREM QuietCompletes == Spec => []QuietRunCompletes
  <1>1. DDLInv => QuietRunCompletes
    BY DEF DDLInv, Typed, QuietWorker, LeftOut, QuietRunCompletes
  <1>2. QED
    BY <1>1, DDLInvariant, PTL

-----------------------------------------------------------------------------
(* The lock.                                                                *)

LeaseCountsDown ==
    \A c \in Calls :
        stage[c] = "running" /\ held[c] < Ttl => holder = c /\ lease = Ttl - held[c]

NotYetHeld == \A c \in Calls : stage[c] \in {"idle", "acquiring"} => held[c] = 0

LockInv == TypeOK /\ LeaseCountsDown /\ NotYetHeld

-----------------------------------------------------------------------------

LEMMA LockInvInit == LockInit => LockInv
BY ClusterLockAssumption DEF LockInit, LockInv, TypeOK, LeaseCountsDown, NotYetHeld

\* The key is set only when nobody holds it, so that no function can be within
\* its lease at that moment.
LEMMA FreeKey ==
    ASSUME LockInv, holder = NoCall
    PROVE  \A c \in Calls : stage[c] = "running" => held[c] = Ttl
BY ClusterLockAssumption DEF LockInv, TypeOK, LeaseCountsDown

LEMMA LockInvNext == LockInv /\ [LockNext]_lockVars => LockInv'
<1> SUFFICES ASSUME LockInv, [LockNext]_lockVars PROVE LockInv'
  OBVIOUS
<1> USE ClusterLockAssumption DEF LockInv
<1>1. ASSUME NEW c \in Calls, Enter(c) \/ GiveUp(c) \/ FunctionEnds(c) \/ CallCrashes(c)
      PROVE  LockInv'
  BY <1>1 DEF Enter, GiveUp, FunctionEnds, CallCrashes, Proceed, Ended, TypeOK,
              LeaseCountsDown, NotYetHeld
<1>2. ASSUME NEW c \in Calls, Acquire(c)
      PROVE  LockInv'
  <2>1. TypeOK'
    BY <1>2 DEF Acquire, SetKey, Proceed, TypeOK
  <2>2. LeaseCountsDown'
    BY <1>2, FreeKey DEF Acquire, SetKey, Proceed, TypeOK, LeaseCountsDown, NotYetHeld
  <2>3. NotYetHeld'
    BY <1>2 DEF Acquire, SetKey, Proceed, TypeOK, NotYetHeld
  <2> QED
    BY <2>1, <2>2, <2>3
<1>3. ASSUME NEW c \in Calls, AcquireRaises(c)
      PROVE  LockInv'
  <2>1. TypeOK' /\ NotYetHeld'
    BY <1>3 DEF AcquireRaises, SetKey, Proceed, TypeOK, NotYetHeld
  <2>2. LeaseCountsDown'
    BY <1>3, FreeKey DEF AcquireRaises, SetKey, Proceed, TypeOK, LeaseCountsDown
  <2> QED
    BY <2>1, <2>2
<1>4. ASSUME NEW c \in Calls, Release(c)
      PROVE  LockInv'
  BY <1>4 DEF Release, Proceed, TypeOK, LeaseCountsDown, NotYetHeld
<1>5. ASSUME Tick
      PROVE  LockInv'
  <2>1. TypeOK'
    BY <1>5 DEF Tick, TypeOK
  <2>2. LeaseCountsDown'
    <3> SUFFICES ASSUME NEW c \in Calls, stage'[c] = "running", held'[c] < Ttl
                 PROVE  holder' = c /\ lease' = Ttl - held'[c]
      BY DEF LeaseCountsDown
    <3>1. stage[c] = "running" /\ held[c] \in 0 .. Ttl /\ held'[c] = held[c] + 1
      BY <1>5 DEF Tick, TypeOK
    <3>2. holder = c /\ lease = Ttl - held[c] /\ lease > 1
      BY <3>1 DEF LeaseCountsDown
    <3> QED
      BY <1>5, <3>1, <3>2 DEF Tick, TypeOK
  <2>3. NotYetHeld'
    BY <1>5 DEF Tick, TypeOK, NotYetHeld
  <2> QED
    BY <2>1, <2>2, <2>3
<1>6. CASE UNCHANGED lockVars
  BY <1>6 DEF lockVars, TypeOK, LeaseCountsDown, NotYetHeld
<1> QED
  BY <1>1, <1>2, <1>3, <1>4, <1>5, <1>6 DEF LockNext

THEOREM LockInvariant == LockSpec => []LockInv
BY LockInvInit, LockInvNext, PTL DEF LockSpec

\* Neither the lease nor anybody's patience is ever counted below zero.
THEOREM LockTypes == LockSpec => []TypeOK
<1>1. LockInv => TypeOK
  BY DEF LockInv
<1> QED
  BY <1>1, LockInvariant, PTL

\* Nothing takes the lock from a function that is within its lease.
THEOREM KeepsLock == LockSpec => []KeepsLockWithinLease
<1>1. LockInv => KeepsLockWithinLease
  BY DEF LockInv, LeaseCountsDown, KeepsLockWithinLease
<1> QED
  BY <1>1, LockInvariant, PTL

\* Two guarded functions overlap only if one has outlived its lease, for any
\* number of calls, any lease and any patience.
THEOREM Exclusive == LockSpec => []ExclusiveWithinLease
<1>1. LockInv => ExclusiveWithinLease
  <2> SUFFICES ASSUME LockInv, NEW c \in Calls, NEW d \in Calls,
                      c # d, stage[c] = "running", stage[d] = "running"
               PROVE  held[c] = Ttl \/ held[d] = Ttl
    BY DEF ExclusiveWithinLease
  <2>1. Ttl \in Nat /\ held[c] \in 0 .. Ttl /\ held[d] \in 0 .. Ttl
    BY ClusterLockAssumption DEF LockInv, TypeOK
  <2>2. (held[c] < Ttl => holder = c) /\ (held[d] < Ttl => holder = d)
    BY DEF LockInv, LeaseCountsDown
  <2> QED
    BY <2>1, <2>2
<1> QED
  BY <1>1, LockInvariant, PTL
=============================================================================
