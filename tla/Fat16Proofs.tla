----------------------------- MODULE Fat16Proofs -----------------------------
(***************************************************************************)
(* The two models of fat16.c.  Files of a partition (Fat16): the chains    *)
(* stay apart, what was stored is kept and read back, for tables, clusters *)
(* and calls of every size.  The open-file cache (OpenFiles): lookups go   *)
(* over entries in use, entries can be found, and no chunk is lost, for    *)
(* any number of chunks, calls and directories.                            *)
(***************************************************************************)
EXTENDS Fat16, OpenFiles, FiniteSetTheorems, WellFoundedInduction, TLAPS

(* Every set of naturals that is not empty has a least element. *)
LEMMA LeastNatural ==
    ASSUME NEW S \in SUBSET Nat, S # {}
    PROVE  \E i \in S : \A j \in S : i <= j
<1>1. PICK i \in S : \A j \in S : ~ (<<j, i>> \in OpToRel(<, Nat))
  BY NatLessThanWellFounded, WFMin
<1>2. \A j \in S : ~ (j < i)
  BY <1>1 DEF OpToRel
<1> QED
  BY <1>2

(* Induction: a set of naturals with 0 and with every successor is all. *)
LEMMA Induction ==
    ASSUME NEW S, 0 \in S, \A n \in Nat : n \in S => n + 1 \in S
    PROVE  Nat \subseteq S
<1> SUFFICES ASSUME Nat \ S # {} PROVE FALSE
  OBVIOUS
<1>1. PICK i \in Nat \ S : \A j \in Nat \ S : i <= j
  BY LeastNatural
<1>2. i # 0 /\ i - 1 \in Nat
  OBVIOUS
<1>3. i - 1 \in S
  BY <1>1, <1>2
<1>4. (i - 1) + 1 = i
  OBVIOUS
<1> QED
  BY <1>1, <1>2, <1>3, <1>4

(* g takes F from s for n steps. *)
IsIteration(F, s, g, n) == g[0] = s /\ \A i \in 1 .. n : g[i] = F[g[i - 1]]

(* A function can be iterated for ever: what recursive functions over the    *)
(* naturals rest on.                                                         *)
LEMMA Iterated ==
    ASSUME NEW V, NEW s \in V, NEW F \in [V -> V]
    PROVE  \E w \in [Nat -> V] : w[0] = s /\ \A i \in Nat \ {0} : w[i] = F[w[i - 1]]
<1> DEFINE Reach == {n \in Nat : \E g \in [0 .. n -> V] : IsIteration(F, s, g, n)}
<1>1. 0 \in Reach
  <2>1. [i \in 0 .. 0 |-> s] \in [0 .. 0 -> V]
    OBVIOUS
  <2>2. IsIteration(F, s, [i \in 0 .. 0 |-> s], 0)
    BY DEF IsIteration
  <2> QED
    BY <2>1, <2>2
<1>2. ASSUME NEW n \in Nat, n \in Reach
      PROVE  n + 1 \in Reach
  <2>1. PICK g \in [0 .. n -> V] : IsIteration(F, s, g, n)
    BY <1>2
  <2> DEFINE h == [i \in 0 .. (n + 1) |-> IF i = n + 1 THEN F[g[n]] ELSE g[i]]
  <2>2. h \in [0 .. (n + 1) -> V]
    OBVIOUS
  <2>3. IsIteration(F, s, h, n + 1)
    BY <2>1 DEF IsIteration
  <2> HIDE DEF h
  <2> QED
    BY <2>2, <2>3
<1>3. Nat \subseteq Reach
  <2> HIDE DEF Reach
  <2> QED
    BY <1>1, <1>2, Induction
<1>4. ASSUME NEW m \in Nat, NEW n \in Nat, NEW g \in [0 .. m -> V], NEW h \in [0 .. n -> V],
             IsIteration(F, s, g, m), IsIteration(F, s, h, n)
      PROVE  \A i \in 0 .. m : i \in 0 .. n => g[i] = h[i]
  <2> DEFINE Same == {i \in Nat : i <= m /\ i <= n => g[i] = h[i]}
  <2>1. 0 \in Same
    BY <1>4 DEF IsIteration
  <2>2. ASSUME NEW i \in Nat, i \in Same
        PROVE  i + 1 \in Same
    <3>1. SUFFICES ASSUME i + 1 <= m, i + 1 <= n
                   PROVE  g[i + 1] = h[i + 1]
      OBVIOUS
    <3>2. g[i] = h[i]
      BY <2>2, <3>1
    <3>3. i + 1 \in 1 .. m /\ i + 1 \in 1 .. n /\ (i + 1) - 1 = i
      BY <3>1
    <3> QED
      BY <1>4, <3>2, <3>3 DEF IsIteration
  <2>3. Nat \subseteq Same
    <3> HIDE DEF Same
    <3> QED
      BY <2>1, <2>2, Induction
  <2> QED
    BY <2>3
<1> DEFINE G(n) == CHOOSE g \in [0 .. n -> V] : IsIteration(F, s, g, n)
           w == [i \in Nat |-> G(i)[i]]
<1>5. \A n \in Nat : G(n) \in [0 .. n -> V] /\ IsIteration(F, s, G(n), n)
  BY <1>3
<1>6. w[0] = s
  BY <1>5 DEF IsIteration
<1>7. ASSUME NEW i \in Nat \ {0}
      PROVE  w[i] = F[w[i - 1]]
  <2>1. i - 1 \in Nat /\ i \in 1 .. i /\ i - 1 \in 0 .. i /\ i - 1 \in 0 .. (i - 1)
    OBVIOUS
  <2>2. G(i)[i] = F[G(i)[i - 1]]
    <3> HIDE DEF G
    <3> QED
      BY <1>5, <2>1 DEF IsIteration
  <2>3. G(i)[i - 1] = G(i - 1)[i - 1]
    <3> HIDE DEF G
    <3> QED
      BY <1>4, <1>5, <2>1
  <2> HIDE DEF G
  <2> QED
    BY <2>1, <2>2, <2>3
<1>8. w \in [Nat -> V]
  <2> HIDE DEF G
  <2>1. \A i \in Nat : i \in 0 .. i /\ G(i)[i] \in V
    BY <1>5
  <2> QED
    BY <2>1
<1> HIDE DEF w
<1> QED
  BY <1>6, <1>7, <1>8

(* The step of Walk from cluster x. *)
Step(t, x) == IF NoCluster(x) THEN EOC ELSE t[x]

(* Walk satisfies its recursive definition, from a start in a set that the   *)
(* steps do not leave.                                                       *)
LEMMA WalkDef ==
    ASSUME NEW t, NEW start, NEW V, start \in V, \A x \in V : Step(t, x) \in V
    PROVE  /\ Walk(t, start, 0) = start
           /\ \A k \in Nat : Walk(t, start, k + 1) = Step(t, Walk(t, start, k))
<1> DEFINE F == [x \in V |-> Step(t, x)]
           eq(x) == x = [i \in Nat |-> IF i = 0 THEN start
                        ELSE IF NoCluster(x[i - 1]) THEN EOC ELSE t[x[i - 1]]]
           c == CHOOSE x : eq(x)
<1>1. F \in [V -> V]
  OBVIOUS
<1>2. PICK w \in [Nat -> V] : w[0] = start /\ \A i \in Nat \ {0} : w[i] = F[w[i - 1]]
  <2> HIDE DEF F
  <2> QED
    BY <1>1, Iterated
<1>3. eq(w)
  <2>1. w = [i \in Nat |-> w[i]]
    OBVIOUS
  <2>2. \A i \in Nat \ {0} : w[i - 1] \in V
    OBVIOUS
  <2>3. \A i \in Nat : w[i] = IF i = 0 THEN start
                               ELSE IF NoCluster(w[i - 1]) THEN EOC ELSE t[w[i - 1]]
    BY <1>2, <2>2 DEF Step
  <2> QED
    BY <2>1, <2>3
<1>4. eq(c)
  <2> HIDE DEF eq
  <2> QED
    BY <1>3, Zenon
<1>5. \A k \in Nat : Walk(t, start, k) = c[k]
  BY DEF Walk
<1>6. c[0] = start /\ \A k \in Nat : c[k + 1] = Step(t, c[k])
  <2> HIDE DEF c
  <2> QED
    BY <1>4 DEF Step
<1> HIDE DEF c
<1> QED
  BY <1>5, <1>6

-----------------------------------------------------------------------------
(* What an entry of the table, or the first cluster of a file, can be. *)
Links == {0, 65528, EOC} \cup Clusters

(* Table t holds such values for its clusters. *)
IsTable(t) == \A c \in Clusters : t[c] \in Links

(* A value that is a cluster number stands for a cluster of the table. *)
LEMMA LinkCluster ==
    ASSUME NEW x \in Links, ~ NoCluster(x)
    PROVE  x \in Clusters
  BY DEF Links, NoCluster, EOC

(* 0 and the end marks are no clusters. *)
LEMMA NoClusters == NoCluster(0) /\ NoCluster(65528) /\ NoCluster(EOC)
  BY DEF NoCluster, EOC

(* Whether a value is a cluster is true or false. *)
LEMMA NoClusterBool == \A x : NoCluster(x) \in BOOLEAN
  BY SMT DEF NoCluster

(* Walk stays among the values of the table and goes from entry to entry. *)
LEMMA WalkFacts ==
    ASSUME NEW t, NEW s \in Links, IsTable(t)
    PROVE  /\ Walk(t, s, 0) = s
           /\ \A k \in Nat : Walk(t, s, k + 1) = Step(t, Walk(t, s, k))
           /\ \A k \in Nat : Walk(t, s, k) \in Links
<1>1. \A x \in Links : Step(t, x) \in Links
  <2> SUFFICES ASSUME NEW x \in Links PROVE Step(t, x) \in Links
    OBVIOUS
  <2>1. CASE NoCluster(x)
    BY <2>1 DEF Step, Links
  <2>2. CASE ~ NoCluster(x)
    BY <2>2, LinkCluster DEF Step, IsTable
  <2> QED
    BY <2>1, <2>2
<1>2. /\ Walk(t, s, 0) = s
      /\ \A k \in Nat : Walk(t, s, k + 1) = Step(t, Walk(t, s, k))
  BY <1>1, WalkDef
<1> DEFINE Good == {k \in Nat : Walk(t, s, k) \in Links}
<1>3. 0 \in Good
  BY <1>2
<1>4. ASSUME NEW k \in Nat, k \in Good
      PROVE  k + 1 \in Good
  BY <1>1, <1>2, <1>4
<1>5. Nat \subseteq Good
  <2> HIDE DEF Good
  <2> QED
    BY <1>3, <1>4, Induction
<1> QED
  BY <1>2, <1>5

(* A chain that has ended stays ended. *)
LEMMA WalkEnded ==
    ASSUME NEW t, NEW s \in Links, IsTable(t), NEW k \in Nat, NEW n \in Nat, k <= n,
           NoCluster(Walk(t, s, k))
    PROVE  NoCluster(Walk(t, s, n))
<1> DEFINE Ended == {d \in Nat : NoCluster(Walk(t, s, k + d))}
<1>1. 0 \in Ended
  OBVIOUS
<1>2. ASSUME NEW d \in Nat, d \in Ended
      PROVE  d + 1 \in Ended
  <2>1. k + d \in Nat /\ k + (d + 1) = (k + d) + 1
    OBVIOUS
  <2>2. Walk(t, s, (k + d) + 1) = Step(t, Walk(t, s, k + d))
    BY <2>1, WalkFacts
  <2>3. Walk(t, s, (k + d) + 1) = EOC
    BY <1>2, <2>2 DEF Step
  <2> QED
    BY <2>1, <2>3, NoClusters
<1>3. Nat \subseteq Ended
  <2> HIDE DEF Ended
  <2> QED
    BY <1>1, <1>2, Induction
<1>4. n - k \in Nat /\ k + (n - k) = n
  OBVIOUS
<1> QED
  BY <1>3, <1>4

(* Walk does not see a change of an entry that no step of it leads to. *)
LEMMA WalkSame ==
    ASSUME NEW t, NEW u, NEW s \in Links, IsTable(t), IsTable(u), NEW e,
           \A c \in Clusters : c # e => u[c] = t[c],
           ~ NoCluster(e) => s # e /\ \A c \in Clusters : ~ NoCluster(c) => t[c] # e
    PROVE  \A k \in Nat : Walk(u, s, k) = Walk(t, s, k)
<1> DEFINE Same == {k \in Nat : Walk(u, s, k) = Walk(t, s, k)
                                 /\ (~ NoCluster(e) => Walk(t, s, k) # e)}
<1>1. 0 \in Same
  BY WalkFacts
<1>2. ASSUME NEW k \in Nat, k \in Same
      PROVE  k + 1 \in Same
  <2>0. PICK x : x = Walk(t, s, k)
    OBVIOUS
  <2>1. x \in Links /\ Walk(u, s, k) = x /\ (~ NoCluster(e) => x # e)
    BY <1>2, <2>0, WalkFacts
  <2>2. Walk(t, s, k + 1) = Step(t, x) /\ Walk(u, s, k + 1) = Step(u, x)
    <3>1. Walk(t, s, k + 1) = Step(t, Walk(t, s, k))
      BY WalkFacts
    <3>2. Walk(u, s, k + 1) = Step(u, Walk(u, s, k))
      BY WalkFacts
    <3> QED
      BY <2>0, <2>1, <3>1, <3>2
  <2>3. CASE NoCluster(x)
    <3>1. Step(t, x) = EOC /\ Step(u, x) = EOC
      BY <2>3 DEF Step
    <3> QED
      BY <2>2, <3>1, NoClusters
  <2>4. CASE ~ NoCluster(x)
    <3>1. x \in Clusters /\ x # e
      BY <2>1, <2>4, LinkCluster
    <3>2. Step(t, x) = t[x] /\ Step(u, x) = t[x]
      BY <2>4, <3>1 DEF Step
    <3>3. ~ NoCluster(e) => t[x] # e
      BY <2>4, <3>1
    <3> QED
      BY <2>2, <3>2, <3>3
  <2> QED
    BY <2>3, <2>4
<1>3. Nat \subseteq Same
  <2> HIDE DEF Same
  <2> QED
    BY <1>1, <1>2, Induction
<1> QED
  BY <1>3

-----------------------------------------------------------------------------
(* The entries of table t link each cluster at most once, and none that is   *)
(* free.                                                                     *)
Linked(t) ==
    /\ \A c \in Clusters :
          ~ NoCluster(c) /\ ~ NoCluster(t[c]) => t[c] \in Volume /\ t[t[c]] # 0
    /\ \A c, d \in Clusters :
          ~ NoCluster(c) /\ ~ NoCluster(d) /\ ~ NoCluster(t[c]) /\ t[c] = t[d] => c = d

(* The first clusters in s are not free, no entry links them, and no two     *)
(* files share one.                                                          *)
Started(t, s) ==
    \A f \in Files : ~ NoCluster(s[f]) =>
        /\ t[s[f]] # 0
        /\ \A c \in Clusters : ~ NoCluster(c) => t[c] # s[f]
        /\ \A g \in Files : s[g] = s[f] => g = f

(* Cluster c was claimed and is on no chain. *)
Orphan(t, s, c) ==
    /\ c \in Clusters /\ t[c] = EOC
    /\ ~ NoCluster(c) => /\ \A d \in Clusters : ~ NoCluster(d) => t[d] # c
                         /\ \A f \in Files : s[f] # c

(* On a chain a cluster is not free. *)
LEMMA ChainClaimed ==
    ASSUME NEW t, IsTable(t), Linked(t), NEW s \in [Files -> Links], Started(t, s),
           NEW f \in Files, NEW k \in Nat, ~ NoCluster(Walk(t, s[f], k))
    PROVE  Walk(t, s[f], k) \in Clusters /\ t[Walk(t, s[f], k)] # 0
<1> DEFINE w(j) == Walk(t, s[f], j)
<1>0. w(0) = s[f] /\ \A j \in Nat : w(j) \in Links /\ w(j + 1) = Step(t, w(j))
  BY WalkFacts
<1> HIDE DEF w
<1>1. w(k) \in Clusters
  BY <1>0, LinkCluster DEF w
<1>2. CASE k = 0
  <2>1. Walk(t, s[f], k) = s[f]
    BY <1>0, <1>2 DEF w
  <2> QED
    BY <1>1, <2>1 DEF Started, w
<1>3. CASE k # 0
  <2>1. k - 1 \in Nat /\ (k - 1) + 1 = k
    BY <1>3
  <2>2. w(k) = Step(t, w(k - 1)) /\ w(k - 1) \in Links
    BY <1>0, <2>1
  <2>3. ~ NoCluster(w(k - 1))
    BY <2>2, NoClusters DEF w, Step
  <2>4. w(k - 1) \in Clusters /\ w(k) = t[w(k - 1)]
    BY <2>2, <2>3, LinkCluster DEF Step
  <2> QED
    BY <1>1, <2>3, <2>4 DEF w, Linked
<1> QED
  BY <1>1, <1>2, <1>3 DEF w

(* A cluster is one place of one chain. *)
LEMMA ChainPlace ==
    ASSUME NEW t, IsTable(t), Linked(t), NEW s \in [Files -> Links], Started(t, s)
    PROVE  \A f, g \in Files : \A i, j \in Nat :
               /\ ~ NoCluster(Walk(t, s[f], i))
               /\ Walk(t, s[f], i) = Walk(t, s[g], j)
               => f = g /\ i = j
<1> DEFINE w(f, j) == Walk(t, s[f], j)
<1>0. \A f \in Files : w(f, 0) = s[f] /\ \A j \in Nat : w(f, j) \in Links /\ w(f, j + 1) = Step(t, w(f, j))
  BY WalkFacts
<1> HIDE DEF w
<1>1. ASSUME NEW f \in Files, NEW j \in Nat, ~ NoCluster(w(f, j + 1))
      PROVE  /\ ~ NoCluster(w(f, j)) /\ w(f, j) \in Clusters
             /\ w(f, j + 1) = t[w(f, j)]
  <2>1. w(f, j) \in Links /\ w(f, j + 1) = Step(t, w(f, j))
    BY <1>0
  <2>2. ~ NoCluster(w(f, j))
    BY <1>1, <2>1, NoClusters DEF Step
  <2> QED
    BY <2>1, <2>2, LinkCluster DEF Step
<1>2. ASSUME NEW f \in Files, NEW g \in Files, NEW j \in Nat,
             ~ NoCluster(s[f]), s[f] = w(g, j + 1)
      PROVE  FALSE
  <2>1. ~ NoCluster(w(g, j)) /\ w(g, j) \in Clusters /\ s[f] = t[w(g, j)]
    BY <1>1, <1>2
  <2> QED
    BY <1>2, <2>1 DEF Started
<1> DEFINE Apart == {i \in Nat : \A f, g \in Files : \A j \in Nat :
                        ~ NoCluster(w(f, i)) /\ w(f, i) = w(g, j) => f = g /\ i = j}
<1>3. 0 \in Apart
  <2> SUFFICES ASSUME NEW f \in Files, NEW g \in Files, NEW j \in Nat,
                      ~ NoCluster(w(f, 0)), w(f, 0) = w(g, j)
               PROVE  f = g /\ 0 = j
    OBVIOUS
  <2>1. j = 0
    <3> SUFFICES ASSUME j # 0 PROVE FALSE
      OBVIOUS
    <3>1. j - 1 \in Nat /\ (j - 1) + 1 = j
      OBVIOUS
    <3> QED
      BY <1>0, <1>2, <3>1
  <2>2. s[f] = s[g] /\ ~ NoCluster(s[f])
    BY <1>0, <2>1
  <2> QED
    BY <2>1, <2>2 DEF Started
<1>4. ASSUME NEW i \in Nat, i \in Apart
      PROVE  i + 1 \in Apart
  <2> SUFFICES ASSUME NEW f \in Files, NEW g \in Files, NEW j \in Nat,
                      ~ NoCluster(w(f, i + 1)), w(f, i + 1) = w(g, j)
               PROVE  f = g /\ i + 1 = j
    OBVIOUS
  <2>1. j # 0
    <3> SUFFICES ASSUME j = 0 PROVE FALSE
      OBVIOUS
    <3>1. s[g] = w(f, i + 1) /\ ~ NoCluster(s[g])
      BY <1>0
    <3> QED
      BY <1>2, <3>1
  <2>2. j - 1 \in Nat /\ (j - 1) + 1 = j
    BY <2>1
  <2>3. /\ ~ NoCluster(w(f, i)) /\ w(f, i) \in Clusters /\ w(f, i + 1) = t[w(f, i)]
        /\ ~ NoCluster(w(g, j - 1)) /\ w(g, j - 1) \in Clusters /\ w(g, j) = t[w(g, j - 1)]
    <3>1. ~ NoCluster(w(g, (j - 1) + 1))
      BY <2>2
    <3> QED
      BY <1>1, <2>2, <3>1
  <2>4. w(f, i) = w(g, j - 1)
    BY <2>3 DEF Linked
  <2>5. f = g /\ i = j - 1
    BY <1>4, <2>2, <2>3, <2>4
  <2> QED
    BY <2>2, <2>5
<1>5. Nat \subseteq Apart
  <2> HIDE DEF Apart
  <2> QED
    BY <1>3, <1>4, Induction
<1> QED
  BY <1>5 DEF w

(* No chain comes to a cluster that no entry links and no file begins at. *)
LEMMA OrphanApart ==
    ASSUME NEW t, IsTable(t), NEW s \in [Files -> Links], NEW c, Orphan(t, s, c),
           NEW f \in Files, NEW k \in Nat, ~ NoCluster(Walk(t, s[f], k))
    PROVE  Walk(t, s[f], k) # c
<1> SUFFICES ASSUME Walk(t, s[f], k) = c PROVE FALSE
  OBVIOUS
<1>1. CASE k = 0
  BY <1>1, WalkFacts DEF Orphan
<1>2. CASE k # 0
  <2>1. k - 1 \in Nat /\ (k - 1) + 1 = k
    BY <1>2
  <2>2. Walk(t, s[f], k - 1) \in Links
    BY <2>1, WalkFacts
  <2>3. Walk(t, s[f], (k - 1) + 1) = Step(t, Walk(t, s[f], k - 1))
    BY <2>1, WalkFacts
  <2>4. ~ NoCluster(Walk(t, s[f], k - 1))
    BY <2>1, <2>3, NoClusters DEF Step
  <2>5. Walk(t, s[f], k - 1) \in Clusters /\ t[Walk(t, s[f], k - 1)] = c
    BY <2>1, <2>2, <2>3, <2>4, LinkCluster DEF Step
  <2> QED
    BY <2>4, <2>5 DEF Orphan
<1> QED
  BY <1>1, <1>2

-----------------------------------------------------------------------------
(* A table as another system leaves it: the values it may hold, where no     *)
(* cluster behind the partition is linked.                                   *)
LEMMA WellFormedChains ==
    ASSUME NEW t \in [Clusters -> {0, EOC} \cup Volume],
           \A c \in Clusters \ Volume : t[c] = 0,
           NEW s \in [Files -> {0} \cup Volume], WellFormed(t, s)
    PROVE  Linked(t) /\ Started(t, s)
<1> USE FatAssumption, LastClusterAssumption
<1>0. Volume \subseteq Clusters /\ Clusters \subseteq Nat
  BY DEF Volume, Clusters
<1>1. IsTable(t) /\ s \in [Files -> Links]
  <2>1. {0, EOC} \cup Volume \subseteq Links /\ {0} \cup Volume \subseteq Links
    BY <1>0 DEF Links, EOC
  <2> QED
    BY <2>1 DEF IsTable
<1> DEFINE w(f, j) == Walk(t, s[f], j)
           Places(c) == {x \in Files \X (0 .. FatEntries) : w(x[1], x[2]) = c}
<1>2. \A f \in Files : w(f, 0) = s[f] /\ \A j \in Nat : w(f, j) \in Links /\ w(f, j + 1) = Step(t, w(f, j))
  BY <1>1, WalkFacts
<1>3. \A c \in Volume : Cardinality(Places(c)) = IF t[c] = 0 THEN 0 ELSE 1
  BY DEF WellFormed
<1> HIDE DEF w
(* Every chain value that is a cluster is one of the partition. *)
<1>4. ASSUME NEW c \in Clusters, ~ NoCluster(t[c])
      PROVE  c \in Volume /\ t[c] \in Volume
  BY <1>0, <1>4, NoClusters
<1>5. ASSUME NEW f \in Files, NEW j \in Nat, ~ NoCluster(w(f, j))
      PROVE  w(f, j) \in Volume
  <2>1. CASE j = 0
    BY <1>2, <1>5, <2>1, NoClusters
  <2>2. CASE j # 0
    <3>1. j - 1 \in Nat /\ (j - 1) + 1 = j
      BY <2>2
    <3>2. w(f, j) = Step(t, w(f, j - 1)) /\ w(f, j - 1) \in Links
      BY <1>2, <3>1
    <3>3. ~ NoCluster(w(f, j - 1))
      BY <1>5, <3>2, NoClusters DEF Step
    <3>4. w(f, j - 1) \in Clusters /\ w(f, j) = t[w(f, j - 1)]
      BY <3>2, <3>3, LinkCluster DEF Step
    <3> QED
      BY <1>4, <1>5, <3>4
  <2> QED
    BY <2>1, <2>2
<1>6. \A c \in Volume : IsFiniteSet(Places(c))
  <2>1. IsFiniteSet(0 .. FatEntries)
    BY FS_Interval
  <2>2. IsFiniteSet(Files \X (0 .. FatEntries))
    BY <2>1, FilesAssumption, FS_Product
  <2>3. \A c : Places(c) \in SUBSET (Files \X (0 .. FatEntries))
    OBVIOUS
  <2> HIDE DEF Places
  <2> QED
    BY <2>2, <2>3, FS_Subset
(* A cluster is reached at one place only, and not when it is free. *)
<1>7. ASSUME NEW f \in Files, NEW j \in 0 .. FatEntries, ~ NoCluster(w(f, j))
      PROVE  t[w(f, j)] # 0
  <2>1. PICK c \in Volume : c = w(f, j)
    BY <1>5, <1>7
  <2>2. <<f, j>> \in Places(c)
    BY <2>1
  <2>3. Cardinality(Places(c)) # 0
    <3> HIDE DEF Places
    <3> QED
      BY <1>6, <2>2, FS_EmptySet
  <2> HIDE DEF Places
  <2> QED
    BY <1>3, <2>1, <2>3
<1>8. ASSUME NEW f \in Files, NEW g \in Files, NEW i \in 0 .. FatEntries, NEW j \in 0 .. FatEntries,
             ~ NoCluster(w(f, i)), w(f, i) = w(g, j)
      PROVE  f = g /\ i = j
  <2>1. PICK c \in Volume : c = w(f, i)
    BY <1>5, <1>8
  <2>2. <<f, i>> \in Places(c) /\ <<g, j>> \in Places(c)
    BY <1>8, <2>1
  <2>3. Cardinality(Places(c)) = 1
    <3>1. t[c] # 0
      BY <1>7, <1>8, <2>1
    <3> HIDE DEF Places
    <3> QED
      BY <1>3, <3>1
  <2>4. PICK x : Places(c) = {x}
    <3> HIDE DEF Places
    <3> QED
      BY <1>6, <2>3, FS_Singleton
  <2>5. <<f, i>> = <<g, j>>
    <3> HIDE DEF Places
    <3> QED
      BY <2>2, <2>4
  <2> QED
    BY <2>5
(* No chain has as many clusters as the table has entries. *)
<1>9. ASSUME NEW f \in Files PROVE NoCluster(w(f, FatEntries))
  <2> SUFFICES ASSUME ~ NoCluster(w(f, FatEntries)) PROVE FALSE
    OBVIOUS
  <2>1. \A j \in 0 .. FatEntries : ~ NoCluster(w(f, j))
    <3>1. \A j \in 0 .. FatEntries : j \in Nat /\ j <= FatEntries
      OBVIOUS
    <3>2. s[f] \in Links
      BY <1>1
    <3> QED
      BY <1>1, <3>1, <3>2, WalkEnded DEF w
  <2> DEFINE h == [j \in 0 .. FatEntries |-> w(f, j)]
  <2>2. h \in [0 .. FatEntries -> Volume]
    BY <1>5, <2>1
  <2>3. IsFiniteSet(0 .. FatEntries) /\ Cardinality(0 .. FatEntries) = FatEntries + 1
    BY FS_Interval
  <2>4. IsFiniteSet(Volume) /\ Cardinality(Volume) = LastCluster - 1
    BY FS_Interval DEF Volume
  <2>5. Cardinality(Volume) < Cardinality(0 .. FatEntries)
    BY <2>3, <2>4
  <2>6. PICK i, j \in 0 .. FatEntries : i # j /\ h[i] = h[j]
    <3> HIDE DEF h
    <3> QED
      BY <2>2, <2>3, <2>4, <2>5, FS_PigeonHole
  <2>7. w(f, i) = w(f, j)
    BY <2>6
  <2> QED
    BY <1>8, <2>1, <2>6, <2>7
(* A cluster that is not free is a place of a chain, before its last. *)
<1>10. ASSUME NEW c \in Volume, ~ NoCluster(c), t[c] # 0
       PROVE  \E f \in Files : \E j \in 0 .. (FatEntries - 1) : w(f, j) = c
  <2>1. Cardinality(Places(c)) = 1
    <3> HIDE DEF Places
    <3> QED
      BY <1>3, <1>10
  <2>2. PICK x : x \in Places(c)
    <3> HIDE DEF Places
    <3> QED
      BY <1>6, <2>1, FS_Singleton
  <2>3. x[1] \in Files /\ x[2] \in 0 .. FatEntries /\ w(x[1], x[2]) = c
    BY <2>2
  <2>4. x[2] # FatEntries
    BY <1>9, <1>10, <2>3
  <2>5. x[2] \in 0 .. (FatEntries - 1)
    BY <2>3, <2>4
  <2> QED
    BY <2>3, <2>5
<1>11. ASSUME NEW c \in Clusters, ~ NoCluster(c), ~ NoCluster(t[c])
       PROVE  /\ c \in Volume /\ t[c] \in Volume
              /\ \E f \in Files : \E j \in 0 .. (FatEntries - 1) :
                    w(f, j) = c /\ w(f, j + 1) = t[c]
  <2>1. c \in Volume /\ t[c] \in Volume /\ t[c] # 0
    BY <1>4, <1>11, NoClusters
  <2>2. PICK f \in Files : \E j \in 0 .. (FatEntries - 1) : w(f, j) = c
    BY <1>10, <1>11, <2>1
  <2>3. PICK j \in 0 .. (FatEntries - 1) : w(f, j) = c
    BY <2>2
  <2>4. w(f, j + 1) = t[c]
    BY <1>2, <1>11, <2>3 DEF Step
  <2> QED
    BY <2>1, <2>3, <2>4
<1>12. \A j \in 0 .. (FatEntries - 1) : j \in 0 .. FatEntries /\ j + 1 \in 0 .. FatEntries
  OBVIOUS
<1> HIDE DEF Places
<1>13. ASSUME NEW c \in Clusters, ~ NoCluster(c), ~ NoCluster(t[c])
       PROVE  t[t[c]] # 0
  BY <1>7, <1>11, <1>12, <1>13
<1>14. ASSUME NEW c \in Clusters, NEW d \in Clusters, ~ NoCluster(c), ~ NoCluster(d),
              ~ NoCluster(t[c]), t[c] = t[d]
       PROVE  c = d
  <2>1. PICK f \in Files : \E j \in 0 .. (FatEntries - 1) : w(f, j) = c /\ w(f, j + 1) = t[c]
    BY <1>11, <1>14
  <2>2. PICK i \in 0 .. (FatEntries - 1) : w(f, i) = c /\ w(f, i + 1) = t[c]
    BY <2>1
  <2>3. PICK g \in Files : \E j \in 0 .. (FatEntries - 1) : w(g, j) = d /\ w(g, j + 1) = t[d]
    BY <1>11, <1>14
  <2>4. PICK j \in 0 .. (FatEntries - 1) : w(g, j) = d /\ w(g, j + 1) = t[d]
    BY <2>3
  <2>5. f = g /\ i + 1 = j + 1
    BY <1>8, <1>12, <1>14, <2>2, <2>4
  <2>6. i = j
    BY <2>5
  <2> QED
    BY <2>2, <2>4, <2>5, <2>6
<1>15. ASSUME NEW f \in Files, ~ NoCluster(s[f])
       PROVE  /\ t[s[f]] # 0
              /\ \A c \in Clusters : ~ NoCluster(c) => t[c] # s[f]
              /\ \A g \in Files : s[g] = s[f] => g = f
  <2>1. 0 \in 0 .. FatEntries /\ w(f, 0) = s[f]
    BY <1>2
  <2>2. t[s[f]] # 0
    BY <1>7, <1>15, <2>1
  <2>3. ASSUME NEW c \in Clusters, ~ NoCluster(c), t[c] = s[f]
        PROVE  FALSE
    <3>1. PICK g \in Files : \E j \in 0 .. (FatEntries - 1) : w(g, j) = c /\ w(g, j + 1) = t[c]
      BY <1>11, <1>15, <2>3
    <3>2. PICK j \in 0 .. (FatEntries - 1) : w(g, j) = c /\ w(g, j + 1) = t[c]
      BY <3>1
    <3>3. f = g /\ 0 = j + 1
      BY <1>8, <1>12, <1>15, <2>1, <2>3, <3>2
    <3> QED
      BY <3>3
  <2>4. ASSUME NEW g \in Files, s[g] = s[f]
        PROVE  g = f
    BY <1>2, <1>8, <1>15, <2>1, <2>4
  <2> QED
    BY <2>2, <2>3, <2>4
<1> QED
  BY <1>11, <1>13, <1>14, <1>15 DEF Linked, Started

-----------------------------------------------------------------------------
(* A position in units of w, and its place in the unit. *)
LEMMA DivMod ==
    ASSUME NEW p \in Nat, NEW w \in Nat \ {0}
    PROVE  /\ p \div w \in Nat
           /\ p % w \in 0 .. (w - 1)
           /\ p = (p \div w) * w + (p % w)
  OBVIOUS

(* Unit and place determine the position. *)
LEMMA DivModIs ==
    ASSUME NEW w \in Nat \ {0}, NEW p \in Nat, NEW q \in Nat, NEW r \in 0 .. (w - 1),
           p = q * w + r
    PROVE  p \div w = q /\ p % w = r
<1>1. PICK d \in Nat, x \in 0 .. (w - 1) : d = p \div w /\ x = p % w /\ p = d * w + x
  BY DivMod
<1>2. (d - q) * w = r - x
  BY <1>1
<1>3. d = q
  BY <1>1, <1>2
<1> QED
  BY <1>1, <1>3

(* A position i further on in the same unit. *)
LEMMA SameUnit ==
    ASSUME NEW w \in Nat \ {0}, NEW p \in Nat, NEW i \in Int,
           (p % w) + i >= 0, (p % w) + i < w
    PROVE  (p + i) \div w = p \div w /\ (p + i) % w = (p % w) + i
<1>1. PICK d \in Nat, x \in 0 .. (w - 1) : d = p \div w /\ x = p % w /\ p = d * w + x
  BY DivMod
<1>2. PICK dw \in Nat : dw = d * w
  OBVIOUS
<1>3. x + i \in 0 .. (w - 1) /\ p + i = dw + (x + i) /\ p + i \in Nat
  BY <1>1, <1>2
<1>4. p + i = d * w + (x + i)
  BY <1>2, <1>3
<1>5. (p + i) \div w = d /\ (p + i) % w = x + i
  BY <1>3, <1>4, DivModIs
<1> QED
  BY <1>1, <1>5

(* The first position of the next unit. *)
LEMMA NextUnit ==
    ASSUME NEW w \in Nat \ {0}, NEW p \in Nat
    PROVE  /\ (p + (w - (p % w))) \div w = (p \div w) + 1
           /\ (p + (w - (p % w))) % w = 0
<1>1. PICK d \in Nat, x \in 0 .. (w - 1) : d = p \div w /\ x = p % w /\ p = d * w + x
  BY DivMod
<1>2. p + (w - x) = (d + 1) * w + 0 /\ p + (w - x) \in Nat
  BY <1>1
<1>3. 0 \in 0 .. (w - 1) /\ d + 1 \in Nat
  OBVIOUS
<1>4. (p + (w - x)) \div w = d + 1 /\ (p + (w - x)) % w = 0
  BY <1>2, <1>3, DivModIs
<1> QED
  BY <1>1, <1>4

(* Later positions are in no earlier unit. *)
LEMMA DivMonotone ==
    ASSUME NEW w \in Nat \ {0}, NEW p \in Nat, NEW r \in Nat, p <= r
    PROVE  p \div w <= r \div w
<1>1. PICK d \in Nat, x \in 0 .. (w - 1) : d = p \div w /\ x = p % w /\ p = d * w + x
  BY DivMod
<1>2. PICK e \in Nat, y \in 0 .. (w - 1) : e = r \div w /\ y = r % w /\ r = e * w + y
  BY DivMod
<1> SUFFICES ASSUME e + 1 <= d PROVE FALSE
  BY <1>1, <1>2
<1>3. (e + 1) * w <= d * w
  OBVIOUS
<1>4. (e + 1) * w = e * w + w
  OBVIOUS
<1>5. PICK ew \in Nat, dw \in Nat : ew = e * w /\ dw = d * w
  OBVIOUS
<1> QED
  BY <1>1, <1>2, <1>3, <1>4, <1>5

(* Min of FiniteSetsExt is the least element. *)
LEMMA MinIs ==
    ASSUME NEW S \in SUBSET Nat, S # {}
    PROVE  Min(S) \in S /\ \A x \in S : Min(S) <= x
<1>1. \E x \in S : \A y \in S : x =< y
  BY LeastNatural
<1> QED
  BY <1>1 DEF Min

(* A finite set of naturals is bounded. *)
LEMMA FiniteBounded ==
    ASSUME NEW S \in SUBSET Nat, IsFiniteSet(S)
    PROVE  \E u \in Nat : \A x \in S : x <= u
<1>1. PICK seq \in Seq(S) : \A x \in S : \E n \in 1 .. Len(seq) : seq[n] = x
  BY DEF IsFiniteSet
<1>2. Len(seq) \in Nat /\ \A n \in 1 .. Len(seq) : seq[n] \in Nat
  <2>1. Len(seq) \in Nat /\ \A n \in 1 .. Len(seq) : seq[n] \in S
    OBVIOUS
  <2> QED
    BY <2>1
<1> DEFINE B == {m \in Nat : m <= Len(seq) => \E u \in Nat : \A n \in 1 .. m : seq[n] <= u}
<1>3. 0 \in B
  BY <1>2
<1>4. ASSUME NEW m \in Nat, m \in B
      PROVE  m + 1 \in B
  <2> SUFFICES ASSUME m + 1 <= Len(seq) PROVE \E u \in Nat : \A n \in 1 .. (m + 1) : seq[n] <= u
    OBVIOUS
  <2>1. PICK u \in Nat : \A n \in 1 .. m : seq[n] <= u
    BY <1>2, <1>4
  <2>2. PICK v \in Nat : v = seq[m + 1]
    BY <1>2
  <2>3. \A n \in 1 .. (m + 1) : n \in 1 .. m \/ n = m + 1
    OBVIOUS
  <2>4. \A n \in 1 .. (m + 1) : seq[n] \in Nat
    BY <1>2
  <2>5. u + v \in Nat /\ \A n \in 1 .. (m + 1) : seq[n] <= u + v
    BY <2>1, <2>2, <2>3, <2>4
  <2> QED
    BY <2>5
<1>5. Nat \subseteq B
  <2> HIDE DEF B
  <2> QED
    BY <1>3, <1>4, Induction
<1>6. PICK u \in Nat : \A n \in 1 .. Len(seq) : seq[n] <= u
  <2>1. Len(seq) \in B
    BY <1>2, <1>5
  <2> QED
    BY <1>2, <2>1
<1> QED
  BY <1>1, <1>6

(* The same of Max, for a finite set. *)
LEMMA MaxIs ==
    ASSUME NEW S \in SUBSET Nat, S # {}, IsFiniteSet(S)
    PROVE  Max(S) \in S /\ \A x \in S : x <= Max(S)
<1> DEFINE U == {u \in Nat : \A x \in S : x <= u}
<1>1. U # {} /\ U \in SUBSET Nat
  BY FiniteBounded
<1>2. PICK u \in U : \A v \in U : u <= v
  <2> HIDE DEF U
  <2> QED
    BY <1>1, LeastNatural
<1>3. u \in S
  <2> SUFFICES ASSUME u \notin S PROVE FALSE
    OBVIOUS
  <2>1. \A x \in S : x <= u - 1 /\ x \in Nat
    BY <1>2
  <2>2. u - 1 \in Nat
    <3>1. PICK x \in S : TRUE
      OBVIOUS
    <3>2. x \in Nat /\ x <= u - 1 /\ u \in Nat
      BY <1>2, <2>1
    <3> QED
      BY <3>2
  <2>3. u - 1 \in U
    BY <2>1, <2>2
  <2> QED
    BY <1>2, <2>3
<1>4. \E x \in S : \A y \in S : x >= y
  BY <1>2, <1>3
<1>5. Max(S) \in S /\ \A y \in S : Max(S) >= y
  BY <1>4 DEF Max
<1> QED
  BY <1>5

-----------------------------------------------------------------------------
(* The inductive invariant, in parts. *)

CallTypes ==
    [op : {"none", "read", "write"}, f : Files, pos : Nat, n : Nat, seed : Nat,
     done : Nat, hops : Nat, offin : 0 .. (ClusterBytes - 1), cur : Links,
     head : BOOLEAN, q : Nat, got : Seq(Bytes)]

Types ==
    /\ fat \in [Copies -> [Entries -> Links]]
    /\ fat[0][0] # 0 /\ fat[0][1] # 0
    /\ data \in [Clusters -> [0 .. (ClusterBytes - 1) -> Bytes]]
    /\ dirent \in [Files -> {0} \cup Volume]
    /\ first \in [Files -> {0} \cup Clusters]
    /\ size \in [Files -> 0 .. Max(Lens)]
    /\ pc \in {"idle", "hop", "alloc", "copy", "full", "return"}
    /\ call \in CallTypes
    /\ content \in [Files -> [Positions -> Bytes \cup {NONE}]]

(* The place in the file, in clusters, of the cluster a call is at. *)
Index(c) == ((c.pos + c.done) \div ClusterBytes) - c.hops

(* A call under way has its arguments, and the rest of its walk leads to the *)
(* cluster of the next byte.  Without a first cluster it asks for one first. *)
Calling ==
    /\ call.done <= call.n
    /\ pc \in {"hop", "alloc", "copy", "return"} =>
          call.op \in {"read", "write"} /\ call.pos \in Offsets /\ call.n \in Lens
    /\ pc \in {"hop", "alloc", "copy"} =>
          /\ call.done < call.n
          /\ call.offin = (call.pos + call.done) % ClusterBytes
          /\ Index(call) \in Nat
    /\ pc = "hop" => ~ call.head
    /\ pc \in {"alloc", "copy"} => call.op = "write"
    /\ pc \in {"alloc", "copy"} /\ call.head => Index(call) = 0 /\ NoCluster(first[call.f])

(* The chains: no cluster is linked twice or begins one that is linked. *)
Chains ==
    /\ Linked(fat[0]) /\ Started(fat[0], first) /\ Started(fat[0], dirent)
    /\ \A f \in Files : first[f] = dirent[f] \/ NoCluster(dirent[f])

(* A call is at the cluster of the chain its place names, or, in a write     *)
(* past the end of the chain, at one of its own that is on no chain.         *)
OnFile(c, t, s) == ~ NoCluster(c.cur) /\ Walk(t, s[c.f], Index(c)) = c.cur

PastEnd(c, t, s) == NoCluster(Walk(t, s[c.f], Index(c)))

Place ==
    /\ pc = "hop" => \/ OnFile(call, fat[0], first)
                     \/ /\ call.op = "write" /\ PastEnd(call, fat[0], first)
                        /\ Orphan(fat[0], first, call.cur)
    /\ pc \in {"alloc", "copy"} => PastEnd(call, fat[0], first)
    /\ pc = "copy" => Orphan(fat[0], first, call.cur)

(* No entry is free that stands for a cluster. *)
Exhausted(t) == \A e \in Entries : e < 65528 => t[e] # 0

(* A file without a chain holds nothing, unless an entry whose number is an  *)
(* end mark was claimed for it; then all others were taken.                  *)
Empty ==
    /\ \A f \in Files : \A p \in Positions :
          NoCluster(first[f]) /\ content[f][p] # NONE => Exhausted(fat[0])
    /\ pc \in {"hop", "alloc", "copy"} /\ ~ call.head /\ NoCluster(first[call.f]) =>
          Exhausted(fat[0])
    /\ pc = "copy" /\ NoCluster(call.cur) => Exhausted(fat[0])
    /\ pc = "copy" /\ call.head /\ ~ NoCluster(call.cur) =>
          \A p \in Positions : content[call.f][p] = NONE

VolumeFull(t) == \A c \in Volume : t[c] # 0

(* A cluster behind the partition is claimed only when the partition is full. *)
Beyond ==
    /\ \A f \in Files : first[f] \in Clusters \ Volume => VolumeFull(fat[0])
    /\ pc \in {"hop", "copy"} /\ call.cur \notin Volume => VolumeFull(fat[0])
    /\ \A c \in Clusters \ Volume : \A b \in 0 .. (ClusterBytes - 1) :
          data[c][b] # 0 => VolumeFull(fat[0])

(* The copies differ from the first table only where they still call an      *)
(* entry free; without a crash, only in the entry being copied.              *)
CopyInv ==
    /\ \A k \in Copies, e \in Entries : fat[k][e] = fat[0][e] \/ fat[k][e] = 0
    /\ ~ crashed => \A k \in Copies, e \in Entries :
            fat[k][e] # fat[0][e] => pc = "copy" /\ e = call.cur /\ k >= call.q
    /\ pc = "copy" => call.q \in 1 .. FatCount /\ fat[0][call.cur] = EOC

(* Byte i of a read is the one of the file. *)
ByteRead(c, t, s, h, i) ==
    /\ ~ NoCluster(Walk(t, s[c.f], (c.pos + i) \div ClusterBytes))
    /\ h[c.f][c.pos + i] = NONE \/ h[c.f][c.pos + i] = c.got[i + 1]

Reading ==
    call.op = "read" /\ pc \in {"hop", "return"} =>
        /\ Len(call.got) = call.done
        /\ \A i \in 0 .. (call.done - 1) : ByteRead(call, fat[0], first, content, i)
        /\ pc = "return" =>
              \/ call.done = call.n
              \/ NoCluster(Walk(fat[0], first[call.f], (call.pos + call.done) \div ClusterBytes))

IInv == /\ Types /\ Calling /\ Chains /\ Place /\ Empty
        /\ Beyond /\ CopyInv /\ StoredKept /\ Reading

-----------------------------------------------------------------------------
(* Facts about the constants. *)
LEMMA Constants ==
    /\ ClusterBytes \in Nat \ {0}
    /\ 0 \in Copies /\ Copies \subseteq Nat
    /\ Entries \subseteq Nat /\ Clusters \subseteq Entries /\ Volume \subseteq Clusters
    /\ 0 \in Entries /\ 1 \in Entries
    /\ Entries = {0, 1} \cup Clusters /\ 0 \notin Clusters /\ 1 \notin Clusters
    /\ EOC \in Links /\ 0 \in Links /\ EOC # 0
<1> USE FatAssumption, LastClusterAssumption, ClusterAssumption
<1>1. ClusterBytes \in Nat \ {0}
  <2>1. PICK a \in Nat, b \in Nat : a > 0 /\ b > 0 /\ a = SectPerClust /\ b = SectBytes
    OBVIOUS
  <2>2. a * b \in Nat /\ a * b > 0
    BY <2>1
  <2> QED
    BY <2>1, <2>2 DEF ClusterBytes
<1>2. 0 \in Copies /\ Copies \subseteq Nat
  BY DEF Copies
<1>3. Entries \subseteq Nat /\ Clusters \subseteq Entries /\ Volume \subseteq Clusters
  BY DEF Entries, Clusters, Volume
<1>4. 0 \in Entries /\ 1 \in Entries /\ Entries = {0, 1} \cup Clusters /\ 0 \notin Clusters /\ 1 \notin Clusters
  BY DEF Entries, Clusters
<1>5. EOC \in Links /\ 0 \in Links /\ EOC # 0
  BY DEF Links, EOC
<1> QED
  BY <1>1, <1>2, <1>3, <1>4, <1>5

(* Positions a call can reach are positions of the contents. *)
LEMMA CallPositions ==
    ASSUME NEW o \in Offsets, NEW n \in Lens, NEW i \in 0 .. (n - 1)
    PROVE  o \in Nat /\ n \in Nat \ {0} /\ n <= Max(Lens) /\ Max(Lens) \in Nat /\ o + i \in Positions
<1>1. Max(Offsets) \in Nat /\ o <= Max(Offsets) /\ o \in Nat
  BY CallAssumption, MaxIs
<1>2. Max(Lens) \in Nat /\ n <= Max(Lens) /\ n \in Nat /\ n # 0
  <2>1. Lens \in SUBSET Nat /\ Lens # {} /\ IsFiniteSet(Lens) /\ 0 \notin Lens
    BY CallAssumption
  <2> QED
    BY <2>1, MaxIs
<1>3. o + i \in Positions
  BY <1>1, <1>2 DEF Positions
<1> QED
  BY <1>1, <1>2, <1>3

(* Positions are naturals. *)
LEMMA PositionsNat == Positions \subseteq Nat
  BY DEF Positions

(* What Types says of the first table and the first clusters. *)
LEMMA Tables ==
    ASSUME Types
    PROVE  /\ fat[0] \in [Entries -> Links] /\ IsTable(fat[0])
           /\ first \in [Files -> Links] /\ dirent \in [Files -> Links]
<1>1. fat[0] \in [Entries -> Links]
  BY Constants DEF Types
<1>2. IsTable(fat[0])
  BY <1>1, Constants DEF IsTable
<1>3. {0} \cup Clusters \subseteq Links /\ {0} \cup Volume \subseteq Links
  BY Constants DEF Links
<1>4. first \in [Files -> Links] /\ dirent \in [Files -> Links]
  BY <1>3 DEF Types
<1> QED
  BY <1>1, <1>2, <1>4

(* The call that is none. *)
LEMMA NoCallType == NoCall \in CallTypes /\ NoCall.done = 0 /\ NoCall.n = 0 /\ NoCall.op = "none"
<1>1. (CHOOSE f \in Files : TRUE) \in Files
  BY FilesAssumption
<1>2. \A S : <<>> \in Seq(S)
  OBVIOUS
<1>3. 0 \in 0 .. (ClusterBytes - 1) /\ 0 \in Links
  BY Constants
<1> QED
  BY <1>1, <1>2, <1>3 DEF NoCall, CallTypes

-----------------------------------------------------------------------------
(* What each step does to the call, field by field. *)

SameArgs(c, d) == c.op = d.op /\ c.f = d.f /\ c.pos = d.pos /\ c.n = d.n /\ c.seed = d.seed

(* All but the first table and the first clusters may change. *)
TablesKept == fat'[0] = fat[0] /\ first' = first /\ dirent' = dirent

(* A call begins. *)
LEMMA BeginIs ==
    ASSUME IInv, NEW op \in {"read", "write"}, NEW f \in Files, NEW o \in Offsets,
           NEW n \in Lens, NEW x \in Nat, Begin(op, f, o, n, x)
    PROVE  /\ call' \in CallTypes
           /\ call'.op = op /\ call'.f = f /\ call'.pos = o /\ call'.n = n
           /\ call'.done = 0 /\ call'.hops = o \div ClusterBytes
           /\ call'.offin = o % ClusterBytes /\ call'.cur = first[f]
           /\ call'.head = NoCluster(first[f]) /\ call'.got = <<>>
           /\ o \in Nat /\ n \in Nat \ {0} /\ Index(call') = 0
<1>1. o \in Nat /\ n \in Nat \ {0}
  <2>1. 0 \in 0 .. (n - 1)
    BY CallAssumption
  <2> QED
    BY <2>1, CallPositions
<1>2. PICK h \in Nat, r \in 0 .. (ClusterBytes - 1) : h = o \div ClusterBytes /\ r = o % ClusterBytes
  BY <1>1, Constants, DivMod
<1>3. PICK b \in BOOLEAN : b = NoCluster(first[f])
  <2>1. NoCluster(first[f]) \in BOOLEAN
    BY NoClusterBool, Zenon
  <2> QED
    BY <2>1, Zenon
<1>4. PICK c \in Links : c = first[f]
  BY Tables DEF IInv
<1>5. call' = [NoCall EXCEPT !.op = op, !.f = f, !.pos = o, !.n = n, !.seed = x,
                            !.hops = h, !.offin = r, !.cur = c, !.head = b]
  BY <1>2, <1>3, <1>4 DEF Begin
<1>6. NoCall.got = <<>>
  BY DEF NoCall
<1>7. /\ call' \in CallTypes
      /\ call'.op = op /\ call'.f = f /\ call'.pos = o /\ call'.n = n
      /\ call'.done = 0 /\ call'.hops = h
      /\ call'.offin = r /\ call'.cur = c /\ call'.head = b /\ call'.got = <<>>
  BY <1>1, <1>5, <1>6, NoCallType DEF CallTypes
<1>8. Index(call') = 0
  <2>1. Index(call') = ((o + 0) \div ClusterBytes) - h
    BY <1>7 DEF Index
  <2>2. o + 0 = o
    BY <1>1
  <2> QED
    BY <1>2, <2>1, <2>2
<1> QED
  BY <1>1, <1>2, <1>3, <1>4, <1>7, <1>8

(* A call that goes on is at a cluster of the table. *)
LEMMA CurCluster ==
    ASSUME IInv, pc \in {"hop", "copy"}
    PROVE  call.cur \in Clusters
<1>1. call.cur \in Links
  BY DEF IInv, Types, CallTypes
<1>2. ~ NoCluster(call.cur) \/ Orphan(fat[0], first, call.cur)
  BY DEF IInv, Place, OnFile
<1> QED
  BY <1>1, <1>2, LinkCluster DEF Orphan

(* A hop along the table. *)
LEMMA HopIs ==
    ASSUME IInv, Hop
    PROVE  /\ call' \in CallTypes /\ SameArgs(call', call)
           /\ call'.done = call.done /\ call'.hops = call.hops - 1
           /\ call'.offin = call.offin /\ call'.cur = fat[0][call.cur]
           /\ call'.head = call.head /\ call'.got = call.got
           /\ Index(call') = Index(call) + 1 /\ Index(call) \in Nat
           /\ (~ NoCluster(fat[0][call.cur]) => pc' = "hop")
           /\ (NoCluster(fat[0][call.cur]) /\ call.op = "read" => pc' = "return")
           /\ (NoCluster(fat[0][call.cur]) /\ call.op = "write" => pc' = "alloc")
<1>0. call.cur \in Clusters /\ call \in CallTypes /\ pc = "hop"
  BY CurCluster DEF IInv, Types, Hop
<1>1. PICK x \in Links : x = fat[0][call.cur]
  BY <1>0, Tables, Constants DEF IInv
<1>2. call.hops \in Nat /\ call.hops > 0 /\ call.hops - 1 \in Nat
  BY <1>0 DEF Hop, CallTypes
<1>3. PICK h \in Nat : h = call.hops - 1
  BY <1>2
<1>4. call' = [call EXCEPT !.hops = h, !.cur = x]
  BY <1>1, <1>3 DEF Hop
<1>5. /\ call' \in CallTypes /\ SameArgs(call', call)
      /\ call'.done = call.done /\ call'.hops = h
      /\ call'.offin = call.offin /\ call'.cur = x
      /\ call'.head = call.head /\ call'.got = call.got
  BY <1>0, <1>4 DEF CallTypes, SameArgs
<1>6. Index(call) \in Nat
  BY <1>0 DEF IInv, Calling
<1>7. Index(call') = Index(call) + 1
  <2>1. PICK z : z = (call.pos + call.done) \div ClusterBytes
    OBVIOUS
  <2>2. Index(call) = z - call.hops /\ Index(call') = z - h
    BY <1>5, <2>1 DEF Index, SameArgs
  <2>3. z \in Nat
    <3>1. call.pos \in Nat /\ call.done \in Nat
      BY <1>0 DEF CallTypes
    <3>2. call.pos + call.done \in Nat /\ ClusterBytes \in Nat \ {0}
      BY <3>1, Constants
    <3> QED
      BY <2>1, <3>2, DivMod
  <2> QED
    BY <1>2, <1>3, <2>2, <2>3
<1>8. call.op \in {"read", "write"}
  BY <1>0 DEF IInv, Calling
<1>9. /\ (~ NoCluster(x) => pc' = "hop")
      /\ (NoCluster(x) /\ call.op = "read" => pc' = "return")
      /\ (NoCluster(x) /\ call.op = "write" => pc' = "alloc")
  BY <1>1, <1>8 DEF Hop
<1> QED
  BY <1>1, <1>3, <1>5, <1>6, <1>7, <1>9

(* The first free entry is claimed in the first copy. *)
LEMMA ClaimIs ==
    ASSUME IInv, Claim
    PROVE  \E m \in Clusters :
             /\ fat[0][m] = 0 /\ \A e \in Entries : fat[0][e] = 0 => m <= e
             /\ fat' \in [Copies -> [Entries -> Links]]
             /\ fat'[0] = [fat[0] EXCEPT ![m] = EOC]
             /\ \A k \in Copies : k # 0 => fat'[k] = fat[k]
             /\ call' \in CallTypes /\ SameArgs(call', call)
             /\ call'.done = call.done /\ call'.hops = call.hops
             /\ call'.offin = call.offin /\ call'.cur = m
             /\ call'.head = call.head /\ call'.got = call.got /\ call'.q = 1
             /\ Index(call') = Index(call)
<1>1. FreeEntries \in SUBSET Nat /\ FreeEntries # {}
  BY Constants DEF Claim, FreeEntries
<1>2. PICK m : m = Min(FreeEntries)
  OBVIOUS
<1>3. m \in FreeEntries /\ \A e \in FreeEntries : m <= e
  BY <1>1, <1>2, MinIs
<1>4. m \in Clusters /\ fat[0][m] = 0 /\ \A e \in Entries : fat[0][e] = 0 => m <= e
  <2>1. m \in Entries /\ fat[0][m] = 0
    BY <1>3 DEF FreeEntries
  <2>2. m # 0 /\ m # 1
    BY <2>1 DEF IInv, Types
  <2> QED
    BY <1>3, <2>1, <2>2, Constants DEF FreeEntries
<1>5. fat' = [fat EXCEPT ![0][m] = EOC] /\ fat \in [Copies -> [Entries -> Links]]
  BY <1>2 DEF Claim, IInv, Types
<1>6. /\ fat' \in [Copies -> [Entries -> Links]]
      /\ fat'[0] = [fat[0] EXCEPT ![m] = EOC]
      /\ \A k \in Copies : k # 0 => fat'[k] = fat[k]
  BY <1>4, <1>5, Constants
<1>7. call' = [call EXCEPT !.cur = m, !.q = 1] /\ call \in CallTypes /\ m \in Links
  BY <1>2, <1>4 DEF Claim, IInv, Types, Links
<1>8. /\ call' \in CallTypes /\ SameArgs(call', call)
      /\ call'.done = call.done /\ call'.hops = call.hops
      /\ call'.offin = call.offin /\ call'.cur = m
      /\ call'.head = call.head /\ call'.got = call.got /\ call'.q = 1
  BY <1>7 DEF CallTypes, SameArgs
<1>9. Index(call') = Index(call)
  BY <1>8 DEF Index, SameArgs
<1> QED
  BY <1>4, <1>6, <1>8, <1>9

(* It is marked in the next copy, ... *)
LEMMA CopyFatIs ==
    ASSUME IInv, CopyFat
    PROVE  /\ call.q \in Copies /\ call.q # 0
           /\ fat' \in [Copies -> [Entries -> Links]]
           /\ fat'[call.q] = [fat[call.q] EXCEPT ![call.cur] = EOC]
           /\ \A k \in Copies : k # call.q => fat'[k] = fat[k]
           /\ call' \in CallTypes /\ SameArgs(call', call)
           /\ call'.done = call.done /\ call'.hops = call.hops
           /\ call'.offin = call.offin /\ call'.cur = call.cur
           /\ call'.head = call.head /\ call'.got = call.got /\ call'.q = call.q + 1
           /\ Index(call') = Index(call) /\ TablesKept
<1>1. pc = "copy" /\ call.q \in 1 .. FatCount /\ call.q < FatCount
  BY DEF CopyFat, IInv, CopyInv
<1>2. call.q \in Copies /\ call.q # 0 /\ 0 # call.q
  BY <1>1, FatAssumption DEF Copies
<1>3. call.cur \in Entries
  BY <1>1, CurCluster, Constants
<1>4. fat' = [fat EXCEPT ![call.q][call.cur] = EOC] /\ fat \in [Copies -> [Entries -> Links]]
  BY DEF CopyFat, IInv, Types
<1>5. /\ fat' \in [Copies -> [Entries -> Links]]
      /\ fat'[call.q] = [fat[call.q] EXCEPT ![call.cur] = EOC]
      /\ \A k \in Copies : k # call.q => fat'[k] = fat[k]
  BY <1>2, <1>3, <1>4, Constants
<1>6. call' = [call EXCEPT !.q = call.q + 1] /\ call \in CallTypes /\ call.q + 1 \in Nat
  BY <1>1, FatAssumption DEF CopyFat, IInv, Types
<1>7. /\ call' \in CallTypes /\ SameArgs(call', call)
      /\ call'.done = call.done /\ call'.hops = call.hops
      /\ call'.offin = call.offin /\ call'.cur = call.cur
      /\ call'.head = call.head /\ call'.got = call.got /\ call'.q = call.q + 1
  BY <1>6 DEF CallTypes, SameArgs
<1>8. Index(call') = Index(call)
  BY <1>7 DEF Index, SameArgs
<1>9. TablesKept
  BY <1>2, <1>5, Constants DEF TablesKept, CopyFat
<1> QED
  BY <1>2, <1>5, <1>7, <1>8, <1>9

(* ... and the write goes on with it. *)
LEMMA ClaimedIs ==
    ASSUME IInv, Claimed
    PROVE  /\ call' \in CallTypes /\ SameArgs(call', call)
           /\ call'.done = call.done /\ call'.hops = call.hops
           /\ call'.offin = call.offin /\ call'.cur = call.cur
           /\ ~ call'.head /\ call'.got = call.got
           /\ Index(call') = Index(call)
           /\ call.cur \in Clusters /\ call.f \in Files
           /\ first' \in [Files -> {0} \cup Clusters]
           /\ \A f \in Files : first'[f] = IF call.head /\ f = call.f THEN call.cur ELSE first[f]
<1>1. pc = "copy" /\ call.cur \in Clusters /\ call \in CallTypes /\ call.f \in Files
  BY CurCluster DEF Claimed, IInv, Types, CallTypes
<1>2. call' = [call EXCEPT !.q = 0, !.head = FALSE]
  BY DEF Claimed
<1>3. /\ call' \in CallTypes /\ SameArgs(call', call)
      /\ call'.done = call.done /\ call'.hops = call.hops
      /\ call'.offin = call.offin /\ call'.cur = call.cur
      /\ ~ call'.head /\ call'.got = call.got
  BY <1>1, <1>2 DEF CallTypes, SameArgs
<1>4. Index(call') = Index(call)
  BY <1>3 DEF Index, SameArgs
<1>5. first \in [Files -> {0} \cup Clusters]
  BY DEF IInv, Types
<1>6. /\ first' \in [Files -> {0} \cup Clusters]
      /\ \A f \in Files : first'[f] = IF call.head /\ f = call.f THEN call.cur ELSE first[f]
  <2>1. CASE call.head
    BY <1>1, <1>5, <2>1 DEF Claimed
  <2>2. CASE ~ call.head
    BY <1>1, <1>5, <2>2 DEF Claimed
  <2> QED
    BY <2>1, <2>2
<1> QED
  BY <1>1, <1>3, <1>4, <1>6

(* What a call does in a cluster ends with the call or at the cluster's end. *)
LEMMA TargetIs ==
    ASSUME NEW n \in Nat, NEW d \in Nat, d < n, NEW w \in Nat \ {0}, NEW o \in 0 .. (w - 1),
           NEW x, x = Min({n - d, w - o})
    PROVE  /\ x \in Nat \ {0} /\ d + x <= n /\ o + x <= w
           /\ d + x < n => x = w - o
<1> DEFINE S == {n - d, w - o}
<1>1. S \in SUBSET Nat /\ S # {} /\ 0 \notin S
  OBVIOUS
<1>2. Min(S) \in S /\ \A y \in S : Min(S) <= y
  <2> HIDE DEF S
  <2> QED
    BY <1>1, MinIs
<1>3. x = Min(S)
  OBVIOUS
<1>4. x \in {n - d, w - o} /\ x <= n - d /\ x <= w - o
  BY <1>2, <1>3
<1>5. x \in Nat \ {0} /\ d + x <= n /\ o + x <= w /\ (d + x < n => x = w - o)
  BY <1>4
<1> QED
  BY <1>3, <1>5

(* So it is for the call under way. *)
LEMMA CallTarget ==
    ASSUME IInv, pc = "hop"
    PROVE  /\ Target \in Nat \ {0} /\ call.done + Target <= call.n
           /\ call.offin + Target <= ClusterBytes
           /\ call.done + Target < call.n => Target = ClusterBytes - call.offin
<1>1. /\ call.n \in Nat /\ call.done \in Nat /\ call.offin \in 0 .. (ClusterBytes - 1)
      /\ call.done < call.n
  BY DEF IInv, Types, CallTypes, Calling
<1>2. ClusterBytes \in Nat \ {0}
  BY Constants
<1>3. PICK x : x = Target
  OBVIOUS
<1>4. x = Min({call.n - call.done, ClusterBytes - call.offin})
  BY <1>3 DEF Target
<1>5. /\ x \in Nat \ {0} /\ call.done + x <= call.n
      /\ call.offin + x <= ClusterBytes
      /\ call.done + x < call.n => x = ClusterBytes - call.offin
  BY <1>1, <1>2, <1>4, TargetIs
<1> QED
  BY <1>3, <1>5

(* A cluster is done with. *)
LEMMA NextClusterIs ==
    ASSUME IInv, pc = "hop", call.hops = 0, NEW got \in Seq(Bytes), NextCluster(got)
    PROVE  /\ Target \in Nat \ {0} /\ call.done + Target <= call.n
           /\ call.offin + Target <= ClusterBytes
           /\ call' \in CallTypes /\ SameArgs(call', call)
           /\ call'.done = call.done + Target /\ call'.hops = 1
           /\ call'.offin = 0 /\ call'.cur = call.cur
           /\ call'.head = call.head /\ call'.got = got
           /\ Index(call) = (call.pos + call.done) \div ClusterBytes
           /\ \/ /\ pc' = "hop" /\ call'.done < call.n /\ Index(call') = Index(call)
                 /\ (call'.pos + call'.done) % ClusterBytes = 0
              \/ pc' = "return" /\ call'.done = call.n
<1>0. /\ call \in CallTypes /\ call.n \in Nat /\ call.done \in Nat /\ call.pos \in Nat
      /\ call.offin \in 0 .. (ClusterBytes - 1)
      /\ call.done < call.n /\ call.offin = (call.pos + call.done) % ClusterBytes
  BY DEF IInv, Types, CallTypes, Calling
<1>1. PICK x : x = Target
  OBVIOUS
<1>2. /\ x \in Nat \ {0} /\ call.done + x <= call.n /\ call.offin + x <= ClusterBytes
      /\ call.done + x < call.n => x = ClusterBytes - call.offin
  BY <1>1, CallTarget
<1>3. PICK d \in Nat : d = call.done + x
  BY <1>0, <1>2
<1>4. call' = [call EXCEPT !.done = d, !.got = got, !.q = 0, !.hops = 1, !.offin = 0]
  BY <1>1, <1>3 DEF NextCluster
<1>5. 0 \in 0 .. (ClusterBytes - 1)
  BY Constants
<1>6. /\ call' \in CallTypes /\ SameArgs(call', call)
      /\ call'.done = d /\ call'.hops = 1
      /\ call'.offin = 0 /\ call'.cur = call.cur
      /\ call'.head = call.head /\ call'.got = got
  BY <1>0, <1>4, <1>5 DEF CallTypes, SameArgs
<1>7. PICK p \in Nat : p = call.pos + call.done
  BY <1>0
<1>8. p \div ClusterBytes \in Nat
  BY <1>7, Constants, DivMod
<1>9. Index(call) = p \div ClusterBytes
  BY <1>7, <1>8 DEF Index
<1>10. CASE d < call.n
  <2>1. pc' = "hop"
    BY <1>0, <1>1, <1>3, <1>10 DEF NextCluster
  <2>2. call'.pos + call'.done = p + (ClusterBytes - (p % ClusterBytes))
    <3>1. call.offin = p % ClusterBytes /\ call'.pos = call.pos /\ call'.done = d
      BY <1>0, <1>6, <1>7 DEF SameArgs
    <3>2. d = call.done + (ClusterBytes - call.offin)
      BY <1>2, <1>3, <1>10
    <3>3. call.pos + d = p + (ClusterBytes - call.offin)
      <4>1. /\ call.pos \in Nat /\ call.done \in Nat /\ ClusterBytes \in Nat
            /\ call.offin \in 0 .. (ClusterBytes - 1)
        BY <1>0, Constants
      <4> QED
        BY <1>7, <3>2, <4>1
    <3> QED
      BY <3>1, <3>3
  <2>3. /\ (call'.pos + call'.done) \div ClusterBytes = (p \div ClusterBytes) + 1
        /\ (call'.pos + call'.done) % ClusterBytes = 0
    BY <2>2, Constants, NextUnit
  <2>4. Index(call') = Index(call)
    BY <1>6, <1>8, <1>9, <2>3 DEF Index
  <2> QED
    BY <1>1, <1>2, <1>3, <1>6, <1>7, <1>9, <1>10, <2>1, <2>3, <2>4
<1>11. CASE ~ (d < call.n)
  <2>1. d = call.n
    BY <1>0, <1>2, <1>3, <1>11
  <2>2. pc' = "return"
    BY <1>0, <1>1, <1>3, <2>1 DEF NextCluster
  <2> QED
    BY <1>1, <1>2, <1>3, <1>6, <1>7, <1>9, <2>1, <2>2
<1> QED
  BY <1>10, <1>11

(* The bytes read are appended to those read before. *)
LEMMA ReadClusterIs ==
    ASSUME IInv, ReadCluster
    PROVE  \E more \in Seq(Bytes) :
             /\ Target \in Nat /\ Len(more) = Target /\ call.cur \in Clusters
             /\ \A i \in 1 .. Target : more[i] = data[call.cur][call.offin + i - 1]
             /\ call.got \o more \in Seq(Bytes) /\ NextCluster(call.got \o more)
<1>1. pc = "hop" /\ call.cur \in Clusters
  BY CurCluster DEF ReadCluster
<1>2. /\ call.n \in Nat /\ call.done \in Nat /\ call.offin \in 0 .. (ClusterBytes - 1)
      /\ call.done < call.n /\ call.got \in Seq(Bytes)
  BY <1>1 DEF IInv, Types, CallTypes, Calling
<1>3. Target \in Nat \ {0} /\ call.offin + Target <= ClusterBytes
  BY <1>1, CallTarget
<1>4. PICK x \in Nat : x = Target
  BY <1>3
<1>5. data[call.cur] \in [0 .. (ClusterBytes - 1) -> Bytes]
  BY <1>1 DEF IInv, Types
<1>6. \A i \in 1 .. x : call.offin + i - 1 \in 0 .. (ClusterBytes - 1)
  BY <1>2, <1>3, <1>4, Constants
<1>7. PICK more : more = [i \in 1 .. x |-> data[call.cur][call.offin + i - 1]]
  OBVIOUS
<1>8. more \in [1 .. x -> Bytes]
  BY <1>5, <1>6, <1>7
<1>9. more \in Seq(Bytes) /\ Len(more) = x
  BY <1>8
<1>10. \A i \in 1 .. x : more[i] = data[call.cur][call.offin + i - 1]
  BY <1>7
<1>11. NextCluster(call.got \o more)
  BY <1>4, <1>7 DEF ReadCluster
<1>12. call.got \o more \in Seq(Bytes)
  BY <1>2, <1>9
<1> QED
  BY <1>1, <1>4, <1>9, <1>10, <1>11, <1>12

(* A sector is written. *)
LEMMA WriteSectorIs ==
    ASSUME IInv, WriteSector
    PROVE  /\ call' \in CallTypes /\ SameArgs(call', call)
           /\ call'.done = call.done /\ call'.hops = call.hops
           /\ call'.offin = call.offin /\ call'.cur = call.cur
           /\ call'.head = call.head /\ call'.got = call.got
           /\ Index(call') = Index(call) /\ TablesKept
<1>1. call' = [call EXCEPT !.q = call.q + 1] /\ call \in CallTypes
  BY DEF WriteSector, IInv, Types
<1>2. call.q + 1 \in Nat
  BY <1>1 DEF CallTypes
<1>3. /\ call' \in CallTypes /\ SameArgs(call', call)
      /\ call'.done = call.done /\ call'.hops = call.hops
      /\ call'.offin = call.offin /\ call'.cur = call.cur
      /\ call'.head = call.head /\ call'.got = call.got
  BY <1>1, <1>2 DEF CallTypes, SameArgs
<1>4. Index(call') = Index(call)
  BY <1>3 DEF Index, SameArgs
<1>5. TablesKept
  BY DEF TablesKept, WriteSector
<1> QED
  BY <1>3, <1>4, <1>5

-----------------------------------------------------------------------------
(* Parts of the invariant that a step does not disturb. *)

(* The tables and the first clusters stay. *)
LEMMA ChainsFrame ==
    ASSUME IInv, TablesKept
    PROVE  Chains'
  BY DEF IInv, Chains, TablesKept

(* The copies stay, and no entry is being copied. *)
LEMMA CopyFrame ==
    ASSUME IInv, fat' = fat, crashed' = crashed, pc # "copy", pc' # "copy"
    PROVE  CopyInv'
  BY DEF IInv, CopyInv

(* A step that changes neither the disk nor the files. *)
Quiet == fat' = fat /\ first' = first /\ dirent' = dirent /\ data' = data
         /\ content' = content /\ crashed' = crashed

(* Such a step between calls or in one leaves the parts about them alone. *)
LEMMA QuietFrame ==
    ASSUME IInv, Quiet, pc # "copy", pc' # "copy"
    PROVE  TablesKept /\ Chains' /\ StoredKept' /\ CopyInv'
<1>1. TablesKept
  BY DEF Quiet, TablesKept
<1>2. StoredKept'
  BY <1>1 DEF IInv, StoredKept, OnChain, At, Quiet
<1> QED
  BY <1>1, <1>2, ChainsFrame, CopyFrame DEF Quiet

(* A call of either kind begins. *)
LEMMA BeginKeeps ==
    ASSUME IInv, NEW f \in Files, NEW o \in Offsets, NEW n \in Lens,
           read_fat16(f, o, n) \/ \E x \in Seeds : write_fat16(f, o, n, x)
    PROVE  IInv'
<1>1. PICK op \in {"read", "write"}, x \in Nat :
          /\ Begin(op, f, o, n, x)
          /\ pc' = IF NoCluster(first[f]) THEN (IF op = "read" THEN "return" ELSE "alloc") ELSE "hop"
  BY CallAssumption DEF read_fat16, write_fat16
<1>2. /\ call' \in CallTypes
      /\ call'.op = op /\ call'.f = f /\ call'.pos = o /\ call'.n = n
      /\ call'.done = 0 /\ call'.hops = o \div ClusterBytes
      /\ call'.offin = o % ClusterBytes /\ call'.cur = first[f]
      /\ call'.head = NoCluster(first[f]) /\ call'.got = <<>>
      /\ o \in Nat /\ n \in Nat \ {0} /\ Index(call') = 0
  BY <1>1, BeginIs
<1>3. Quiet /\ pc = "idle" /\ pc' # "copy" /\ size' = size
  BY <1>1 DEF Quiet, Begin, disk
<1>4. TablesKept /\ Chains' /\ StoredKept' /\ CopyInv'
  BY <1>3, QuietFrame
<1>5. Types'
  BY <1>1, <1>2, <1>3 DEF IInv, Types, Quiet
<1>6. o + 0 = o
  BY <1>2
<1>7. Calling'
  BY <1>1, <1>2, <1>3, <1>6 DEF Calling, Quiet
<1>8. Walk(fat[0], first[f], 0) = first[f] /\ first[f] \in Links /\ IsTable(fat[0])
  BY Tables, WalkFacts DEF IInv
<1>9. Place'
  BY <1>1, <1>2, <1>3, <1>4, <1>8 DEF Place, OnFile, PastEnd, TablesKept
<1>10. Empty'
  <2>1. pc' \in {"hop", "alloc"} /\ ~ call'.head => ~ NoCluster(first[f])
    BY <1>1, <1>2
  <2> QED
    BY <1>2, <1>3, <2>1 DEF IInv, Empty, Quiet
<1>11. Beyond'
  <2>1. pc' = "hop" => first[f] \in Clusters
    BY <1>1, <1>8, LinkCluster
  <2> QED
    BY <1>1, <1>2, <1>3, <2>1 DEF IInv, Beyond, Quiet
<1>12. Reading'
  <2>1. Len(<<>>) = 0 /\ \A i : i \notin 0 .. (0 - 1)
    OBVIOUS
  <2>2. pc' = "return" => NoCluster(Walk(fat[0], first[f], o \div ClusterBytes))
    <3>1. ClusterBytes \in Nat \ {0}
      BY Constants
    <3>2. PICK k \in Nat : k = o \div ClusterBytes
      BY <1>2, <3>1, DivMod
    <3>3. 0 <= k /\ 0 \in Nat
      OBVIOUS
    <3> QED
      BY <1>1, <1>8, <3>2, <3>3, WalkEnded
  <2> QED
    BY <1>2, <1>3, <1>6, <2>1, <2>2 DEF Reading, Quiet
<1> QED
  BY <1>4, <1>5, <1>7, <1>9, <1>10, <1>11, <1>12 DEF IInv

(* A hop: along the chain, or past its end to the end mark. *)
LEMMA HopKeeps ==
    ASSUME IInv, Hop
    PROVE  IInv'
<1>1. /\ call' \in CallTypes /\ SameArgs(call', call)
      /\ call'.done = call.done /\ call'.hops = call.hops - 1
      /\ call'.offin = call.offin /\ call'.cur = fat[0][call.cur]
      /\ call'.head = call.head /\ call'.got = call.got
      /\ Index(call') = Index(call) + 1 /\ Index(call) \in Nat
      /\ (~ NoCluster(fat[0][call.cur]) => pc' = "hop")
      /\ (NoCluster(fat[0][call.cur]) /\ call.op = "read" => pc' = "return")
      /\ (NoCluster(fat[0][call.cur]) /\ call.op = "write" => pc' = "alloc")
  BY HopIs
<1>2. Quiet /\ pc = "hop" /\ size' = size /\ call.op \in {"read", "write"}
  BY DEF Hop, Quiet, disk, IInv, Calling
<1>3. pc' \in {"hop", "return", "alloc"}
  BY <1>1, <1>2
<1>4. TablesKept /\ Chains' /\ StoredKept' /\ CopyInv'
  BY <1>2, <1>3, QuietFrame
<1>5. Types'
  BY <1>1, <1>2, <1>3 DEF IInv, Types, Quiet
<1>6. PICK f \in Files : f = call.f
  BY DEF IInv, Types, CallTypes
<1>7. PICK k \in Nat : k = Index(call)
  BY <1>1
<1>8. /\ Walk(fat[0], first[f], k) \in Links /\ first[f] \in Links /\ IsTable(fat[0])
      /\ Walk(fat[0], first[f], k + 1) = Step(fat[0], Walk(fat[0], first[f], k))
  BY Tables, WalkFacts DEF IInv
<1>9. PICK x : x = fat[0][call.cur]
  OBVIOUS
<1>10. Walk(fat[0], first[f], k + 1) = x \/ (NoCluster(x) /\ NoCluster(Walk(fat[0], first[f], k + 1)))
  <2>1. CASE OnFile(call, fat[0], first)
    BY <1>6, <1>7, <1>8, <1>9, <2>1 DEF OnFile, Step
  <2>2. CASE PastEnd(call, fat[0], first) /\ Orphan(fat[0], first, call.cur)
    BY <1>6, <1>7, <1>8, <1>9, <2>2, NoClusters DEF PastEnd, Orphan, Step
  <2> QED
    BY <1>2, <2>1, <2>2 DEF IInv, Place
<1>11. Index(call') = k + 1 /\ call'.f = f /\ call'.cur = x /\ call'.op = call.op
  BY <1>1, <1>6, <1>7, <1>9 DEF SameArgs
<1>12. Place'
  BY <1>1, <1>2, <1>3, <1>4, <1>9, <1>10, <1>11 DEF Place, OnFile, PastEnd, TablesKept
<1>13. Calling'
  <2>1. ~ call.head /\ k + 1 \in Nat
    BY <1>2 DEF IInv, Calling
  <2> QED
    BY <1>1, <1>2, <1>3, <1>9, <1>11, <2>1 DEF IInv, Calling, SameArgs, Quiet
<1>14. Empty'
  BY <1>1, <1>2, <1>3, <1>6, <1>11 DEF IInv, Empty, Quiet
<1>15. Beyond'
  <2>1. pc' = "hop" => x \in Volume \/ call.cur \notin Volume
    <3> SUFFICES ASSUME pc' = "hop", call.cur \in Volume PROVE x \in Volume
      OBVIOUS
    <3>1. ~ NoCluster(x) /\ call.cur \in Clusters
      BY <1>1, <1>2, <1>9, CurCluster
    <3>2. ~ NoCluster(call.cur)
      BY <1>2, <1>9, <3>1, NoClusters DEF IInv, Place, OnFile, Orphan
    <3> QED
      BY <1>9, <3>1, <3>2 DEF IInv, Chains, Linked
  <2> QED
    BY <1>2, <1>3, <1>11, <2>1 DEF IInv, Beyond, Quiet
<1>16. Reading'
  <2> SUFFICES ASSUME call.op = "read" PROVE Reading'
    BY <1>11 DEF Reading
  <2>1. /\ Len(call.got) = call.done
        /\ \A i \in 0 .. (call.done - 1) : ByteRead(call, fat[0], first, content, i)
    BY <1>2 DEF IInv, Reading
  <2>2. \A i \in 0 .. (call'.done - 1) : ByteRead(call', fat'[0], first', content', i)
    BY <1>1, <1>2, <2>1 DEF ByteRead, SameArgs, Quiet
  <2>3. pc' = "return" =>
          NoCluster(Walk(fat[0], first[f], (call.pos + call.done) \div ClusterBytes))
    <3> SUFFICES ASSUME pc' = "return"
                 PROVE  NoCluster(Walk(fat[0], first[f], (call.pos + call.done) \div ClusterBytes))
      OBVIOUS
    <3>1. NoCluster(Walk(fat[0], first[f], k + 1))
      BY <1>1, <1>9, <1>10
    <3>2. call.pos + call.done \in Nat /\ ClusterBytes \in Nat \ {0} /\ call.hops \in Nat /\ call.hops > 0
      BY Constants DEF IInv, Types, CallTypes, Hop
    <3>3. PICK z \in Nat : z = (call.pos + call.done) \div ClusterBytes
      BY <3>2, DivMod
    <3>4. k + 1 \in Nat /\ k + 1 <= z
      BY <1>7, <3>2, <3>3 DEF Index
    <3> QED
      BY <1>8, <3>1, <3>3, <3>4, WalkEnded
  <2>4. call'.pos = call.pos /\ call'.n = call.n /\ call'.f = f
    BY <1>1, <1>6 DEF SameArgs
  <2> QED
    BY <1>1, <1>2, <1>4, <2>1, <2>2, <2>3, <2>4 DEF Reading, TablesKept
<1> QED
  BY <1>4, <1>5, <1>12, <1>13, <1>14, <1>15, <1>16 DEF IInv

(* The table is full. *)
LEMMA ClaimNothingKeeps ==
    ASSUME IInv, ClaimNothing
    PROVE  IInv'
<1>1. Quiet /\ pc = "alloc" /\ pc' = "full" /\ size' = size /\ call' = call
  BY DEF ClaimNothing, Quiet, disk
<1>2. TablesKept /\ Chains' /\ StoredKept' /\ CopyInv'
  BY <1>1, QuietFrame
<1>3. Types'
  BY <1>1 DEF IInv, Types, Quiet
<1>4. Calling'
  BY <1>1 DEF IInv, Calling
<1>5. Place'
  BY <1>1 DEF Place
<1>6. Empty'
  BY <1>1 DEF IInv, Empty, Quiet
<1>7. Beyond'
  BY <1>1 DEF IInv, Beyond, Quiet
<1>8. Reading'
  BY <1>1 DEF Reading
<1> QED
  BY <1>2, <1>3, <1>4, <1>5, <1>6, <1>7, <1>8 DEF IInv

(* A call returns. *)
LEMMA ReturnKeeps ==
    ASSUME IInv, Return
    PROVE  IInv'
<1>1. Quiet /\ pc = "return" /\ pc' = "idle" /\ size' = size /\ call' = NoCall
  BY DEF Return, Quiet, disk
<1>2. TablesKept /\ Chains' /\ StoredKept' /\ CopyInv'
  BY <1>1, QuietFrame
<1>3. Types'
  BY <1>1, NoCallType DEF IInv, Types, Quiet
<1>4. Calling'
  BY <1>1, NoCallType DEF Calling
<1>5. Place'
  BY <1>1 DEF Place
<1>6. Empty'
  BY <1>1 DEF IInv, Empty, Quiet
<1>7. Beyond'
  BY <1>1 DEF IInv, Beyond, Quiet
<1>8. Reading'
  BY <1>1 DEF Reading
<1> QED
  BY <1>2, <1>3, <1>4, <1>5, <1>6, <1>7, <1>8 DEF IInv

(* A free entry is claimed: it was on no chain, and is on none now. *)
LEMMA ClaimKeeps ==
    ASSUME IInv, Claim
    PROVE  IInv'
<1>1. PICK m \in Clusters :
         /\ fat[0][m] = 0 /\ \A e \in Entries : fat[0][e] = 0 => m <= e
         /\ fat' \in [Copies -> [Entries -> Links]]
         /\ fat'[0] = [fat[0] EXCEPT ![m] = EOC]
         /\ \A k \in Copies : k # 0 => fat'[k] = fat[k]
         /\ call' \in CallTypes /\ SameArgs(call', call)
         /\ call'.done = call.done /\ call'.hops = call.hops
         /\ call'.offin = call.offin /\ call'.cur = m
         /\ call'.head = call.head /\ call'.got = call.got /\ call'.q = 1
         /\ Index(call') = Index(call)
  BY ClaimIs
<1>2. /\ pc = "alloc" /\ pc' = "copy" /\ data' = data /\ dirent' = dirent /\ first' = first
      /\ size' = size /\ content' = content /\ crashed' = crashed
  BY DEF Claim
<1>3. PICK t, u : t = fat[0] /\ u = fat'[0]
  OBVIOUS
<1>4. t \in [Entries -> Links] /\ IsTable(t) /\ first \in [Files -> Links] /\ dirent \in [Files -> Links]
  BY <1>3, Tables DEF IInv
<1>5. /\ u \in [Entries -> Links] /\ u[m] = EOC
      /\ \A e \in Entries : e # m => u[e] = t[e]
      /\ t[m] = 0 /\ m # 0 /\ m # 1 /\ m \in Entries /\ m \in Nat
  BY <1>1, <1>3, <1>4, Constants
<1>6. IsTable(u)
  BY <1>5, Constants DEF IsTable
<1>7. \A e \in Entries : t[e] # 0 => u[e] # 0
  BY <1>5, Constants
(* No entry links a free cluster, and no file begins there. *)
<1>8. ~ NoCluster(m) => /\ \A c \in Clusters : ~ NoCluster(c) => t[c] # m
                        /\ \A f \in Files : first[f] # m /\ dirent[f] # m
  BY <1>1, <1>3 DEF IInv, Chains, Linked, Started
<1>9. \A f \in Files : \A k \in Nat :
          /\ Walk(u, first[f], k) = Walk(t, first[f], k)
          /\ Walk(u, dirent[f], k) = Walk(t, dirent[f], k)
  <2> SUFFICES ASSUME NEW f \in Files
               PROVE  \A k \in Nat : /\ Walk(u, first[f], k) = Walk(t, first[f], k)
                                     /\ Walk(u, dirent[f], k) = Walk(t, dirent[f], k)
    OBVIOUS
  <2>1. first[f] \in Links /\ dirent[f] \in Links
    BY <1>4
  <2>2. \A c \in Clusters : c # m => u[c] = t[c]
    BY <1>5, Constants
  <2> QED
    BY <1>4, <1>6, <1>8, <2>1, <2>2, WalkSame
<1>10. Types'
  <2>1. fat'[0][0] # 0 /\ fat'[0][1] # 0
    BY <1>3, <1>7, Constants DEF IInv, Types
  <2> QED
    BY <1>1, <1>2, <2>1 DEF IInv, Types
<1>11. Calling'
  BY <1>1, <1>2 DEF IInv, Calling, SameArgs
<1>12. Linked(u)
  <2>1. ASSUME NEW c \in Clusters, ~ NoCluster(u[c])
        PROVE  u[c] = t[c] /\ c # m
    BY <1>5, <2>1, NoClusters, Constants
  <2>2. ASSUME NEW c \in Clusters, ~ NoCluster(c), ~ NoCluster(u[c])
        PROVE  u[c] \in Volume /\ u[u[c]] # 0
    <3>1. t[c] \in Volume /\ t[t[c]] # 0 /\ u[c] = t[c]
      BY <1>3, <2>1, <2>2 DEF IInv, Chains, Linked
    <3> QED
      BY <1>7, <3>1, Constants
  <2>3. ASSUME NEW c \in Clusters, NEW d \in Clusters, ~ NoCluster(c), ~ NoCluster(d),
               ~ NoCluster(u[c]), u[c] = u[d]
        PROVE  c = d
    <3>1. u[c] = t[c] /\ u[d] = t[d]
      BY <2>1, <2>3
    <3> QED
      BY <1>3, <2>3, <3>1 DEF IInv, Chains, Linked
  <2> QED
    BY <2>2, <2>3 DEF Linked
<1>13. ASSUME NEW s \in [Files -> Links], Started(t, s)
       PROVE  Started(u, s)
  <2> SUFFICES ASSUME NEW f \in Files, ~ NoCluster(s[f])
               PROVE  /\ u[s[f]] # 0
                      /\ \A c \in Clusters : ~ NoCluster(c) => u[c] # s[f]
                      /\ \A g \in Files : s[g] = s[f] => g = f
    BY DEF Started
  <2>1. /\ t[s[f]] # 0 /\ s[f] \in Clusters
        /\ \A c \in Clusters : ~ NoCluster(c) => t[c] # s[f]
        /\ \A g \in Files : s[g] = s[f] => g = f
    BY <1>13, LinkCluster DEF Started
  <2>2. u[s[f]] # 0
    BY <1>7, <2>1, Constants
  <2>3. \A c \in Clusters : ~ NoCluster(c) => u[c] # s[f]
    <3>1. EOC # s[f]
      BY NoClusters
    <3> QED
      BY <1>5, <2>1, <3>1, Constants
  <2> QED
    BY <2>1, <2>2, <2>3
<1>14. Chains'
  <2>1. Started(u, first) /\ Started(u, dirent)
    BY <1>3, <1>4, <1>13 DEF IInv, Chains
  <2> QED
    BY <1>2, <1>3, <1>12, <2>1 DEF IInv, Chains
<1>15. PICK f \in Files : f = call.f
  BY DEF IInv, Types, CallTypes
<1>16. Orphan(u, first, m)
  <2>1. \A d \in Clusters : ~ NoCluster(d) /\ ~ NoCluster(m) => u[d] # m
    BY <1>5, <1>8, NoClusters, Constants
  <2> QED
    BY <1>5, <1>8, <2>1 DEF Orphan
<1>17. Place'
  <2>1. NoCluster(Walk(t, first[f], Index(call))) /\ Index(call) \in Nat
    BY <1>2, <1>3, <1>15 DEF IInv, Place, PastEnd, Calling
  <2>2. NoCluster(Walk(u, first[f], Index(call)))
    BY <1>9, <2>1
  <2>3. PastEnd(call', fat'[0], first')
    BY <1>1, <1>2, <1>3, <1>15, <2>2 DEF PastEnd, SameArgs
  <2> QED
    BY <1>1, <1>2, <1>3, <1>16, <2>3 DEF Place
<1>18. Exhausted(t) => Exhausted(u)
  BY <1>7 DEF Exhausted
<1>19. NoCluster(m) => Exhausted(u)
  <2> SUFFICES ASSUME NoCluster(m), NEW e \in Entries, e < 65528 PROVE u[e] # 0
    BY DEF Exhausted
  <2>1. m >= 65528
    BY <1>5 DEF NoCluster
  <2>2. t[e] # 0
    <3>1. e \in Nat
      BY Constants
    <3> QED
      BY <1>1, <1>3, <1>5, <2>1, <3>1
  <2> QED
    BY <1>7, <2>2
<1>20. ~ NoCluster(m) => ~ Exhausted(t)
  BY <1>5 DEF Exhausted, NoCluster
<1>21. Empty'
  <2>1. \A g \in Files : \A p \in Positions :
          NoCluster(first[g]) /\ content[g][p] # NONE => Exhausted(t)
    BY <1>3 DEF IInv, Empty
  <2>2. ~ call.head /\ NoCluster(first[f]) => Exhausted(t)
    BY <1>2, <1>3, <1>15 DEF IInv, Empty
  <2>3. call.head /\ ~ NoCluster(m) => \A p \in Positions : content[f][p] = NONE
    <3>1. call.head => NoCluster(first[f])
      BY <1>2, <1>15 DEF IInv, Calling
    <3> QED
      BY <1>20, <2>1, <3>1
  <2>4. call'.f = f /\ call'.head = call.head /\ call'.cur = m
    BY <1>1, <1>15 DEF SameArgs
  <2> QED
    BY <1>2, <1>3, <1>18, <1>19, <2>1, <2>2, <2>3, <2>4 DEF Empty
<1>22. VolumeFull(t) => VolumeFull(u)
  BY <1>7, Constants DEF VolumeFull
<1>23. Beyond'
  <2>1. m \notin Volume => VolumeFull(u)
    <3> SUFFICES ASSUME m \notin Volume, NEW c \in Volume PROVE u[c] # 0
      BY DEF VolumeFull
    <3>1. m > LastCluster /\ c <= LastCluster /\ c \in Nat /\ LastCluster \in Nat
      BY <1>5, LastClusterAssumption, FatAssumption DEF Volume, Clusters
    <3>2. t[c] # 0
      BY <1>1, <1>3, <1>5, <3>1, Constants
    <3> QED
      BY <1>7, <3>2, Constants
  <2> QED
    BY <1>1, <1>2, <1>3, <1>22, <2>1 DEF IInv, Beyond
<1>24. CopyInv'
  <2>1. \A k \in Copies, e \in Entries : fat[k][e] = t[e] \/ fat[k][e] = 0
    BY <1>3 DEF IInv, CopyInv
  <2>2. ASSUME NEW k \in Copies, NEW e \in Entries
        PROVE  /\ fat'[k][e] = u[e] \/ fat'[k][e] = 0
               /\ ~ crashed => (fat'[k][e] # u[e] => e = m /\ k >= 1)
    <3>1. CASE k = 0
      BY <1>3, <3>1
    <3>2. CASE k # 0
      <4>1. fat'[k] = fat[k] /\ k >= 1
        BY <1>1, <3>2, Constants
      <4>2. ~ crashed => fat[k][e] = t[e]
        BY <1>2, <1>3 DEF IInv, CopyInv
      <4> QED
        BY <1>5, <2>1, <4>1, <4>2
    <3> QED
      BY <3>1, <3>2
  <2>3. 1 \in 1 .. FatCount
    BY FatAssumption
  <2> QED
    BY <1>1, <1>2, <1>3, <1>5, <2>2, <2>3 DEF CopyInv
<1>25. StoredKept'
  <2>1. \A p \in Positions : p \div ClusterBytes \in Nat
    BY PositionsNat, Constants, DivMod
  <2> SUFFICES ASSUME NEW g \in Files, NEW p \in Positions,
                      content[g][p] # NONE, ~ NoCluster(Walk(u, first[g], p \div ClusterBytes))
               PROVE  data[Walk(u, first[g], p \div ClusterBytes)][p % ClusterBytes] = content[g][p]
    BY <1>2, <1>3 DEF StoredKept, OnChain, At
  <2>2. Walk(u, first[g], p \div ClusterBytes) = Walk(t, first[g], p \div ClusterBytes)
    BY <1>9, <2>1
  <2> QED
    BY <1>3, <2>2 DEF IInv, StoredKept, OnChain, At
<1>26. Reading'
  BY <1>2 DEF Reading
<1> QED
  BY <1>10, <1>11, <1>14, <1>17, <1>21, <1>23, <1>24, <1>25, <1>26 DEF IInv

(* The copies follow. *)
LEMMA CopyFatKeeps ==
    ASSUME IInv, CopyFat
    PROVE  IInv'
<1>1. /\ call.q \in Copies /\ call.q # 0
      /\ fat' \in [Copies -> [Entries -> Links]]
      /\ fat'[call.q] = [fat[call.q] EXCEPT ![call.cur] = EOC]
      /\ \A k \in Copies : k # call.q => fat'[k] = fat[k]
      /\ call' \in CallTypes /\ SameArgs(call', call)
      /\ call'.done = call.done /\ call'.hops = call.hops
      /\ call'.offin = call.offin /\ call'.cur = call.cur
      /\ call'.head = call.head /\ call'.got = call.got /\ call'.q = call.q + 1
      /\ Index(call') = Index(call) /\ TablesKept
  BY CopyFatIs
<1>2. /\ pc = "copy" /\ pc' = "copy" /\ call.q < FatCount /\ data' = data /\ dirent' = dirent
      /\ first' = first /\ size' = size /\ content' = content /\ crashed' = crashed
  BY DEF CopyFat
<1>3. fat'[0] = fat[0]
  BY <1>1 DEF TablesKept
<1>4. Chains'
  BY <1>1, ChainsFrame
<1>5. Types'
  BY <1>1, <1>2, <1>3 DEF IInv, Types
<1>6. Calling'
  BY <1>1, <1>2 DEF IInv, Calling, SameArgs
<1>7. Place'
  BY <1>1, <1>2, <1>3 DEF IInv, Place, PastEnd, SameArgs
<1>8. Empty'
  BY <1>1, <1>2, <1>3 DEF IInv, Empty, SameArgs
<1>9. Beyond'
  BY <1>1, <1>2, <1>3 DEF IInv, Beyond
<1>10. StoredKept'
  BY <1>2, <1>3 DEF IInv, StoredKept, OnChain, At
<1>11. CopyInv'
  <2>1. /\ call.q \in 1 .. FatCount /\ fat[0][call.cur] = EOC /\ call.cur \in Entries
        /\ fat \in [Copies -> [Entries -> Links]]
    BY <1>2, CurCluster, Constants DEF IInv, CopyInv, Types
  <2>2. ASSUME NEW k \in Copies, NEW e \in Entries
        PROVE  /\ fat'[k][e] = fat[0][e] \/ fat'[k][e] = 0
               /\ ~ crashed => (fat'[k][e] # fat[0][e] => e = call.cur /\ k >= call.q + 1)
    <3>0. /\ fat[k][e] = fat[0][e] \/ fat[k][e] = 0
          /\ ~ crashed => (fat[k][e] # fat[0][e] => e = call.cur /\ k >= call.q)
      BY <1>2 DEF IInv, CopyInv
    <3>1. CASE k = call.q
      BY <1>1, <2>1, <3>0, <3>1
    <3>2. CASE k # call.q
      <4>1. k \in Nat /\ call.q \in Nat
        BY <1>1, Constants
      <4> QED
        BY <1>1, <3>0, <3>2, <4>1
    <3> QED
      BY <3>1, <3>2
  <2>3. call.q + 1 \in 1 .. FatCount
    BY <1>2, <2>1, FatAssumption
  <2> QED
    BY <1>1, <1>2, <1>3, <2>1, <2>2, <2>3 DEF CopyInv
<1>12. Reading'
  BY <1>2 DEF Reading
<1> QED
  BY <1>4, <1>5, <1>6, <1>7, <1>8, <1>9, <1>10, <1>11, <1>12 DEF IInv

(* The write goes on with its new cluster: the file's first, or one on no    *)
(* chain.                                                                    *)
LEMMA ClaimedKeeps ==
    ASSUME IInv, Claimed
    PROVE  IInv'
<1>1. /\ call' \in CallTypes /\ SameArgs(call', call)
      /\ call'.done = call.done /\ call'.hops = call.hops
      /\ call'.offin = call.offin /\ call'.cur = call.cur
      /\ ~ call'.head /\ call'.got = call.got
      /\ Index(call') = Index(call)
      /\ call.cur \in Clusters /\ call.f \in Files
      /\ first' \in [Files -> {0} \cup Clusters]
      /\ \A f \in Files : first'[f] = IF call.head /\ f = call.f THEN call.cur ELSE first[f]
  BY ClaimedIs
<1>2. /\ pc = "copy" /\ pc' = "hop" /\ call.q = FatCount /\ data' = data /\ dirent' = dirent
      /\ fat' = fat /\ size' = size /\ content' = content /\ crashed' = crashed
  BY DEF Claimed, disk
<1>3. PICK t : t = fat[0]
  OBVIOUS
<1>4. PICK f \in Files : f = call.f
  BY <1>1
<1>5. PICK c \in Clusters : c = call.cur
  BY <1>1
<1>6. IsTable(t) /\ first \in [Files -> Links] /\ c \in Links
  BY <1>3, Tables DEF IInv, Links
<1>7. /\ Orphan(t, first, c) /\ NoCluster(Walk(t, first[f], Index(call)))
      /\ call.op = "write" /\ Index(call) \in Nat
      /\ call.head => Index(call) = 0 /\ NoCluster(first[f])
  BY <1>2, <1>3, <1>4, <1>5 DEF IInv, Place, PastEnd, Calling
<1>8. /\ call'.op = "write" /\ call'.f = f /\ call'.cur = c
      /\ \A g \in Files : g # f => first'[g] = first[g]
      /\ call.head => first'[f] = c
      /\ ~ call.head => first'[f] = first[f]
  BY <1>1, <1>4, <1>5, <1>7 DEF SameArgs
<1>9. Types'
  BY <1>1, <1>2 DEF IInv, Types
<1>10. Calling'
  BY <1>1, <1>2 DEF IInv, Calling, SameArgs
<1>11. CopyInv'
  <2>1. \A k \in Copies : ~ (k >= FatCount)
    BY FatAssumption DEF Copies
  <2> QED
    BY <1>2, <2>1 DEF IInv, CopyInv
<1>12. Reading'
  BY <1>8 DEF Reading
<1>13. Started(t, first')
  <2>0. Started(t, first)
    BY <1>3 DEF IInv, Chains
  <2>1. CASE ~ call.head
    BY <1>8, <2>0, <2>1 DEF Started
  <2>2. CASE call.head
    <3> SUFFICES ASSUME NEW g \in Files, ~ NoCluster(first'[g])
                 PROVE  /\ t[first'[g]] # 0
                        /\ \A d \in Clusters : ~ NoCluster(d) => t[d] # first'[g]
                        /\ \A h \in Files : first'[h] = first'[g] => h = g
      BY DEF Started
    <3>1. CASE g = f
      <4>1. first'[g] = c /\ ~ NoCluster(c)
        BY <1>8, <2>2, <3>1
      <4>2. /\ t[c] # 0 /\ \A d \in Clusters : ~ NoCluster(d) => t[d] # c
            /\ \A h \in Files : first[h] # c
        BY <1>7, <4>1, Constants DEF Orphan
      <4>3. ASSUME NEW h \in Files, first'[h] = c
            PROVE  h = f
        BY <1>8, <4>2, <4>3
      <4> QED
        BY <3>1, <4>1, <4>2, <4>3
    <3>2. CASE g # f
      <4>1. first'[g] = first[g] /\ ~ NoCluster(first[g])
        BY <1>8, <3>2
      <4>2. /\ t[first[g]] # 0 /\ \A d \in Clusters : ~ NoCluster(d) => t[d] # first[g]
            /\ \A h \in Files : first[h] = first[g] => h = g
        BY <2>0, <4>1 DEF Started
      <4>3. ASSUME NEW h \in Files, first'[h] = first[g]
            PROVE  h = g
        <5>1. h # f
          <6> SUFFICES ASSUME h = f PROVE FALSE
            OBVIOUS
          <6>1. first[g] = c /\ ~ NoCluster(c)
            BY <1>8, <2>2, <4>1, <4>3
          <6> QED
            BY <1>7, <6>1 DEF Orphan
        <5> QED
          BY <1>8, <4>2, <4>3, <5>1
      <4> QED
        BY <4>1, <4>2, <4>3
    <3> QED
      BY <3>1, <3>2
  <2> QED
    BY <2>1, <2>2
<1>14. Chains'
  <2>1. \A g \in Files : first'[g] = dirent[g] \/ NoCluster(dirent[g])
    <3>1. \A g \in Files : first[g] = dirent[g] \/ NoCluster(dirent[g])
      BY DEF IInv, Chains
    <3> QED
      BY <1>7, <1>8, <3>1
  <2> QED
    BY <1>2, <1>3, <1>13, <2>1 DEF IInv, Chains
<1>15. Walk(t, c, 0) = c /\ \A k \in Nat : NoCluster(c) => NoCluster(Walk(t, c, k))
  <2>1. Walk(t, c, 0) = c
    BY <1>6, WalkFacts
  <2>2. \A k \in Nat : 0 <= k /\ 0 \in Nat
    OBVIOUS
  <2> QED
    BY <1>6, <2>1, <2>2, WalkEnded
<1>16. Place'
  <2>1. CASE ~ call.head
    <3>1. PastEnd(call', fat'[0], first')
      BY <1>1, <1>2, <1>3, <1>7, <1>8, <2>1 DEF PastEnd
    <3>2. Orphan(t, first', c)
      BY <1>7, <1>8, <2>1 DEF Orphan
    <3> QED
      BY <1>2, <1>3, <1>8, <3>1, <3>2 DEF Place
  <2>2. CASE call.head /\ ~ NoCluster(c)
    <3>1. OnFile(call', fat'[0], first')
      BY <1>1, <1>2, <1>3, <1>7, <1>8, <1>15, <2>2 DEF OnFile
    <3> QED
      BY <1>2, <3>1 DEF Place
  <2>3. CASE call.head /\ NoCluster(c)
    <3>1. PastEnd(call', fat'[0], first')
      BY <1>1, <1>2, <1>3, <1>7, <1>8, <1>15, <2>3 DEF PastEnd
    <3>2. Orphan(t, first', c)
      BY <1>7, <2>3 DEF Orphan
    <3> QED
      BY <1>2, <1>3, <1>8, <3>1, <3>2 DEF Place
  <2> QED
    BY <2>1, <2>2, <2>3
<1>17. Empty'
  <2>1. /\ NoCluster(c) => Exhausted(t)
        /\ ~ call.head /\ NoCluster(first[f]) => Exhausted(t)
        /\ \A g \in Files : \A p \in Positions :
             NoCluster(first[g]) /\ content[g][p] # NONE => Exhausted(t)
    BY <1>2, <1>3, <1>4, <1>5 DEF IInv, Empty
  <2>2. NoCluster(first'[f]) => Exhausted(t)
    BY <1>8, <2>1
  <2>3. \A g \in Files : \A p \in Positions :
           NoCluster(first'[g]) /\ content[g][p] # NONE => Exhausted(t)
    BY <1>8, <2>1, <2>2
  <2> QED
    BY <1>2, <1>3, <1>8, <2>2, <2>3 DEF Empty
<1>18. Beyond'
  <2>1. /\ c \notin Volume => VolumeFull(t)
        /\ \A g \in Files : first[g] \in Clusters \ Volume => VolumeFull(t)
    BY <1>2, <1>3, <1>5 DEF IInv, Beyond
  <2>2. \A g \in Files : first'[g] \in Clusters \ Volume => VolumeFull(t)
    BY <1>8, <2>1
  <2> QED
    BY <1>2, <1>3, <1>8, <2>1, <2>2 DEF IInv, Beyond
<1>19. StoredKept'
  <2>0. \A p \in Positions : p \div ClusterBytes \in Nat
    BY PositionsNat, Constants, DivMod
  <2> SUFFICES ASSUME NEW g \in Files, NEW p \in Positions, content[g][p] # NONE,
                      ~ NoCluster(Walk(t, first'[g], p \div ClusterBytes))
               PROVE  data[Walk(t, first'[g], p \div ClusterBytes)][p % ClusterBytes] = content[g][p]
    BY <1>2, <1>3 DEF StoredKept, OnChain, At
  <2>1. ~ (g = f /\ call.head)
    <3> SUFFICES ASSUME g = f, call.head PROVE FALSE
      OBVIOUS
    <3>1. first'[g] = c
      BY <1>8
    <3>2. ~ NoCluster(c)
      BY <1>15, <2>0, <3>1
    <3> QED
      BY <1>2, <1>4, <1>5, <3>2 DEF IInv, Empty
  <2>2. first'[g] = first[g]
    BY <1>8, <2>1
  <2> QED
    BY <1>3, <2>2 DEF IInv, StoredKept, OnChain, At
<1> QED
  BY <1>9, <1>10, <1>11, <1>12, <1>14, <1>16, <1>17, <1>18, <1>19 DEF IInv

(* Parts that hold after a cluster is done with, in a read or a write. *)
LEMMA NextClusterKeeps ==
    ASSUME IInv, pc = "hop", call.hops = 0, NEW got \in Seq(Bytes), NextCluster(got), Quiet
    PROVE  Calling' /\ Chains' /\ Place' /\ Empty' /\ Beyond' /\ CopyInv' /\ StoredKept'
<1>1. /\ Target \in Nat \ {0} /\ call.done + Target <= call.n
      /\ call.offin + Target <= ClusterBytes
      /\ call' \in CallTypes /\ SameArgs(call', call)
      /\ call'.done = call.done + Target /\ call'.hops = 1
      /\ call'.offin = 0 /\ call'.cur = call.cur
      /\ call'.head = call.head /\ call'.got = got
      /\ Index(call) = (call.pos + call.done) \div ClusterBytes
      /\ \/ /\ pc' = "hop" /\ call'.done < call.n /\ Index(call') = Index(call)
            /\ (call'.pos + call'.done) % ClusterBytes = 0
         \/ pc' = "return" /\ call'.done = call.n
  BY NextClusterIs
<1>2. pc' \in {"hop", "return"} /\ (pc' = "hop" => Index(call') = Index(call))
  BY <1>1
<1>3. TablesKept /\ Chains' /\ StoredKept' /\ CopyInv'
  BY <1>2, QuietFrame
<1>4. Calling'
  <2>1. call.done \in Nat /\ call.n \in Nat /\ Index(call) \in Nat /\ ~ call.head
    BY DEF IInv, Types, CallTypes, Calling
  <2>2. call'.done <= call.n
    BY <1>1
  <2> QED
    BY <1>1, <1>2, <2>1, <2>2 DEF IInv, Calling, SameArgs
<1>5. Place'
  BY <1>1, <1>2 DEF IInv, Place, OnFile, PastEnd, SameArgs, Quiet
<1>6. Empty'
  BY <1>1, <1>2 DEF IInv, Empty, SameArgs, Quiet
<1>7. Beyond'
  BY <1>1, <1>2 DEF IInv, Beyond, Quiet
<1> QED
  BY <1>3, <1>4, <1>5, <1>6, <1>7

(* The larger of two. *)
LEMMA MaxOfTwo ==
    ASSUME NEW a \in Nat, NEW b \in Nat
    PROVE  Max({a, b}) \in {a, b}
<1>1. \E x \in {a, b} : \A y \in {a, b} : x >= y
  OBVIOUS
<1> QED
  BY <1>1 DEF Max

(* A write has written a cluster. *)
LEMMA WriteClusterKeeps ==
    ASSUME IInv, WriteCluster
    PROVE  IInv'
<1>1. /\ pc = "hop" /\ call.hops = 0 /\ call.op = "write" /\ NextCluster(<<>>) /\ Quiet
      /\ size' = [size EXCEPT ![call.f] = Max({size[call.f], call.done + Target})]
  BY DEF WriteCluster, Quiet, disk
<1>2. <<>> \in Seq(Bytes)
  OBVIOUS
<1>3. Calling' /\ Chains' /\ Place' /\ Empty' /\ Beyond' /\ CopyInv' /\ StoredKept'
  BY <1>1, <1>2, NextClusterKeeps
<1>4. /\ call' \in CallTypes /\ SameArgs(call', call) /\ pc' \in {"hop", "return"}
      /\ Target \in Nat /\ call.done + Target <= call.n
  BY <1>1, <1>2, NextClusterIs
<1>5. size' \in [Files -> 0 .. Max(Lens)]
  <2>1. /\ call.f \in Files /\ size \in [Files -> 0 .. Max(Lens)]
        /\ call.done \in Nat /\ call.n \in Lens /\ call.pos \in Offsets
    BY <1>1 DEF IInv, Types, CallTypes, Calling
  <2>2. Max(Lens) \in Nat /\ call.n \in Nat /\ call.n <= Max(Lens)
    <3>0. call.n \in Nat \ {0}
      BY <2>1, CallAssumption
    <3>1. 0 \in 0 .. (call.n - 1)
      BY <3>0
    <3> QED
      BY <2>1, <3>1, CallPositions
  <2>3. call.done + Target \in 0 .. Max(Lens) /\ size[call.f] \in 0 .. Max(Lens)
    BY <1>4, <2>1, <2>2
  <2>4. PICK x, y \in 0 .. Max(Lens) : x = size[call.f] /\ y = call.done + Target
    BY <2>3
  <2>5. Max({x, y}) \in 0 .. Max(Lens)
    BY <2>2, <2>4, MaxOfTwo
  <2> QED
    BY <1>1, <2>1, <2>4, <2>5
<1>6. Types'
  BY <1>1, <1>4, <1>5 DEF IInv, Types, Quiet
<1>7. Reading'
  BY <1>1, <1>4 DEF Reading, SameArgs
<1> QED
  BY <1>3, <1>6, <1>7 DEF IInv

(* What the concatenation of two sequences holds. *)
LEMMA Appended ==
    ASSUME NEW S, NEW a \in Seq(S), NEW b \in Seq(S)
    PROVE  /\ Len(a \o b) = Len(a) + Len(b)
           /\ \A i \in 1 .. Len(a) : (a \o b)[i] = a[i]
           /\ \A j \in 1 .. Len(b) : (a \o b)[Len(a) + j] = b[j]
<1>1. Len(a) \in Nat /\ Len(b) \in Nat
  OBVIOUS
<1>2. Len(a \o b) = Len(a) + Len(b)
  OBVIOUS
<1>3. \A i \in 1 .. (Len(a) + Len(b)) : (a \o b)[i] = IF i <= Len(a) THEN a[i] ELSE b[i - Len(a)]
  OBVIOUS
<1>4. ASSUME NEW i \in 1 .. Len(a) PROVE (a \o b)[i] = a[i]
  <2>1. i \in 1 .. (Len(a) + Len(b)) /\ i <= Len(a)
    BY <1>1
  <2> QED
    BY <1>3, <2>1
<1>5. ASSUME NEW j \in 1 .. Len(b) PROVE (a \o b)[Len(a) + j] = b[j]
  <2>1. Len(a) + j \in 1 .. (Len(a) + Len(b)) /\ ~ (Len(a) + j <= Len(a)) /\ (Len(a) + j) - Len(a) = j
    BY <1>1
  <2> QED
    BY <1>3, <2>1
<1> QED
  BY <1>2, <1>4, <1>5

(* The next bytes of a read. *)
LEMMA ReadClusterKeeps ==
    ASSUME IInv, ReadCluster
    PROVE  IInv'
<1>1. pc = "hop" /\ call.hops = 0 /\ call.op = "read" /\ Quiet /\ size' = size
  BY DEF ReadCluster, Quiet, disk
<1>2. PICK more \in Seq(Bytes) :
        /\ Target \in Nat /\ Len(more) = Target /\ call.cur \in Clusters
        /\ \A i \in 1 .. Target : more[i] = data[call.cur][call.offin + i - 1]
        /\ call.got \o more \in Seq(Bytes) /\ NextCluster(call.got \o more)
  BY ReadClusterIs
<1>3. Calling' /\ Chains' /\ Place' /\ Empty' /\ Beyond' /\ CopyInv' /\ StoredKept'
  BY <1>1, <1>2, NextClusterKeeps
<1>4. /\ call.done + Target <= call.n
      /\ call.offin + Target <= ClusterBytes
      /\ call' \in CallTypes /\ SameArgs(call', call)
      /\ call'.done = call.done + Target /\ call'.got = call.got \o more
      /\ Index(call) = (call.pos + call.done) \div ClusterBytes
      /\ pc' \in {"hop", "return"} /\ (pc' = "return" => call'.done = call.n)
  BY <1>1, <1>2, NextClusterIs
<1>5. Types'
  BY <1>1, <1>4 DEF IInv, Types, Quiet
<1>6. PICK x \in Nat, d \in Nat, o \in 0 .. (ClusterBytes - 1), n \in Lens, z \in Offsets :
        x = Target /\ d = call.done /\ o = call.offin /\ n = call.n /\ z = call.pos
  BY <1>1, <1>2 DEF IInv, Types, CallTypes, Calling
<1>7. n \in Nat /\ z \in Nat /\ ClusterBytes \in Nat \ {0}
  BY CallAssumption, Constants
<1>8. /\ Len(call.got) = d
      /\ \A i \in 0 .. (d - 1) : ByteRead(call, fat[0], first, content, i)
      /\ call.got \in Seq(Bytes) /\ call.f \in Files
      /\ o = (z + d) % ClusterBytes
      /\ ~ NoCluster(call.cur) /\ Walk(fat[0], first[call.f], Index(call)) = call.cur
  BY <1>1, <1>6 DEF IInv, Reading, Types, CallTypes, Calling, Place, OnFile
<1>9. PICK g : g = call.got \o more
  OBVIOUS
<1>10. /\ Len(g) = d + x
       /\ \A i \in 0 .. (d - 1) : g[i + 1] = call.got[i + 1]
       /\ \A j \in 0 .. (x - 1) : g[d + j + 1] = more[j + 1]
  <2>1. /\ Len(g) = d + x
        /\ \A i \in 1 .. d : g[i] = call.got[i]
        /\ \A j \in 1 .. x : g[d + j] = more[j]
    <3>1. PICK a \in Seq(Bytes), b \in Seq(Bytes) : a = call.got /\ b = more /\ Len(a) = d /\ Len(b) = x
      BY <1>2, <1>6, <1>8
    <3>2. g = a \o b
      BY <1>9, <3>1
    <3>3. /\ Len(a \o b) = Len(a) + Len(b)
          /\ \A i \in 1 .. Len(a) : (a \o b)[i] = a[i]
          /\ \A j \in 1 .. Len(b) : (a \o b)[Len(a) + j] = b[j]
      BY Appended
    <3> QED
      BY <3>1, <3>2, <3>3
  <2>2. \A i \in 0 .. (d - 1) : i + 1 \in 1 .. d
    OBVIOUS
  <2>3. \A j \in 0 .. (x - 1) : j + 1 \in 1 .. x /\ d + j + 1 = d + (j + 1)
    OBVIOUS
  <2> QED
    BY <2>1, <2>2, <2>3
<1>11. ASSUME NEW i \in 0 .. (d - 1)
       PROVE  ByteRead(call', fat'[0], first', content', i)
  <2>1. ByteRead(call, fat[0], first, content, i) /\ g[i + 1] = call.got[i + 1]
    BY <1>8, <1>10
  <2>2. call'.f = call.f /\ call'.pos = call.pos /\ call'.got[i + 1] = call.got[i + 1]
    BY <1>4, <1>9, <2>1 DEF SameArgs
  <2> QED
    BY <1>1, <2>1, <2>2 DEF ByteRead, Quiet
<1>12. ASSUME NEW j \in 0 .. (x - 1)
       PROVE  ByteRead(call', fat'[0], first', content', d + j)
  <2>1. z + d \in Nat /\ j \in Int /\ ((z + d) % ClusterBytes) + j >= 0 /\ ((z + d) % ClusterBytes) + j < ClusterBytes
    <3>1. o + x <= ClusterBytes /\ o = (z + d) % ClusterBytes
      BY <1>4, <1>6, <1>8
    <3>2. o + j >= 0 /\ o + j < ClusterBytes /\ z + d \in Nat
      BY <1>7, <3>1
    <3> QED
      BY <3>1, <3>2
  <2>2. /\ ((z + d) + j) \div ClusterBytes = (z + d) \div ClusterBytes
        /\ ((z + d) + j) % ClusterBytes = ((z + d) % ClusterBytes) + j
    BY <1>7, <2>1, SameUnit
  <2>3. PICK p \in Positions : p = z + (d + j)
    <3>0. d + x <= n
      BY <1>4, <1>6
    <3>1. d + j \in 0 .. (n - 1)
      BY <1>7, <3>0
    <3> QED
      BY <3>1, CallPositions
  <2>4. p = (z + d) + j
    BY <1>7, <2>3
  <2>5. p \div ClusterBytes = Index(call) /\ p % ClusterBytes = o + j
    BY <1>4, <1>6, <1>8, <2>2, <2>4
  <2>6. content[call.f][p] = NONE \/ data[call.cur][o + j] = content[call.f][p]
    BY <1>8, <2>5 DEF IInv, StoredKept, OnChain, At
  <2>7. more[j + 1] = data[call.cur][o + j]
    <3>1. j + 1 \in 1 .. x /\ o + (j + 1) - 1 = o + j
      OBVIOUS
    <3> QED
      BY <1>2, <1>6, <3>1
  <2>8. g[(d + j) + 1] = more[j + 1]
    BY <1>10
  <2>9. call'.f = call.f /\ call'.pos = z /\ call'.got = g
    BY <1>4, <1>6, <1>9 DEF SameArgs
  <2>10. fat'[0] = fat[0] /\ first' = first /\ content' = content
    BY <1>1 DEF Quiet
  <2>11. ~ NoCluster(Walk(fat[0], first[call.f], (z + (d + j)) \div ClusterBytes))
    BY <1>8, <2>3, <2>5
  <2>12. content[call.f][z + (d + j)] = NONE \/ content[call.f][z + (d + j)] = g[(d + j) + 1]
    BY <2>3, <2>6, <2>7, <2>8
  <2> QED
    BY <2>9, <2>10, <2>11, <2>12 DEF ByteRead
<1>13. \A i \in 0 .. (d + x - 1) : ByteRead(call', fat'[0], first', content', i)
  <2> SUFFICES ASSUME NEW i \in 0 .. (d + x - 1) PROVE ByteRead(call', fat'[0], first', content', i)
    OBVIOUS
  <2>1. CASE i < d
    BY <1>11, <2>1
  <2>2. CASE i >= d
    <3>1. i - d \in 0 .. (x - 1) /\ d + (i - d) = i
      BY <2>2
    <3> QED
      BY <1>12, <3>1
  <2> QED
    BY <2>1, <2>2
<1>14. Reading'
  <2>1. call'.done = d + x /\ Len(call'.got) = d + x /\ call'.n = call.n
    BY <1>4, <1>6, <1>9, <1>10 DEF SameArgs
  <2> QED
    BY <1>4, <1>13, <2>1 DEF Reading
<1> QED
  BY <1>3, <1>5, <1>14 DEF IInv

(* Byte b of the cluster a write is at, as the caller has it. *)
NewByte(b) == BufferByte(call.done + b - call.offin)

(* The bytes of a sector are written, in the cluster and in the file. *)
LEMMA WriteSectorBytes ==
    ASSUME IInv, WriteSector
    PROVE  /\ call.cur \in Clusters /\ call.f \in Files
           /\ Touched(call.q) \subseteq {b \in 0 .. (ClusterBytes - 1) :
                                            call.offin <= b /\ b < call.offin + Target}
           /\ data' \in [Clusters -> [0 .. (ClusterBytes - 1) -> Bytes]]
           /\ \A c \in Clusters : c # call.cur => data'[c] = data[c]
           /\ \A b \in 0 .. (ClusterBytes - 1) :
                 data'[call.cur][b] = IF b \in Touched(call.q) THEN NewByte(b) ELSE data[call.cur][b]
           /\ content' \in [Files -> [Positions -> Bytes \cup {NONE}]]
           /\ \A g \in Files : g # call.f => content'[g] = content[g]
           /\ \A p \in Positions :
                 content'[call.f][p] =
                   LET b == p - call.pos - call.done + call.offin
                   IN  IF b \in Touched(call.q) THEN NewByte(b) ELSE content[call.f][p]
<1>1. call.cur \in Clusters /\ call.f \in Files /\ pc = "hop"
  BY CurCluster DEF WriteSector, IInv, Types, CallTypes
<1>2. /\ call.offin \in 0 .. (ClusterBytes - 1) /\ Target \in Nat /\ call.offin + Target <= ClusterBytes
      /\ call.done \in Nat /\ call.seed \in Nat /\ call.pos \in Nat /\ call.q \in Nat
  BY <1>1, CallTarget DEF IInv, Types, CallTypes
<1>3. PICK S : S = Touched(call.q)
  OBVIOUS
<1>4. S \subseteq {b \in 0 .. (ClusterBytes - 1) : call.offin <= b /\ b < call.offin + Target}
  <2> SUFFICES ASSUME NEW b \in S
               PROVE  b \in 0 .. (ClusterBytes - 1) /\ call.offin <= b /\ b < call.offin + Target
    OBVIOUS
  <2>1. call.q * SectBytes \in Nat /\ (call.q + 1) * SectBytes - 1 \in Int
    BY <1>2, ClusterAssumption
  <2>2. PICK lo \in Int, hi \in Int : lo = call.q * SectBytes /\ hi = (call.q + 1) * SectBytes - 1
    BY <2>1
  <2>3. b \in lo .. hi /\ call.offin <= b /\ b < call.offin + Target
    BY <1>3, <2>2 DEF Touched
  <2> QED
    BY <1>2, <2>3, Constants
<1>5. \A b \in Int : NewByte(b) \in Bytes
  <2> SUFFICES ASSUME NEW b \in Int PROVE NewByte(b) \in Bytes
    OBVIOUS
  <2>1. PICK y \in Int : y = call.seed + (call.done + b - call.offin)
    BY <1>2
  <2>2. y % 3 \in 0 .. 2
    OBVIOUS
  <2>3. NewByte(b) = 1 + (y % 3)
    BY <2>1 DEF NewByte, BufferByte
  <2> QED
    BY <2>2, <2>3 DEF Bytes
<1>6. data \in [Clusters -> [0 .. (ClusterBytes - 1) -> Bytes]]
  BY DEF IInv, Types
<1>7. DOMAIN data[call.cur] = 0 .. (ClusterBytes - 1)
  BY <1>1, <1>6
<1> DEFINE new == [b \in 0 .. (ClusterBytes - 1) |-> IF b \in S THEN NewByte(b) ELSE data[call.cur][b]]
           held == [p \in Positions |-> LET b == p - call.pos - call.done + call.offin
                                        IN  IF b \in S THEN NewByte(b) ELSE content[call.f][p]]
<1>8. data' = [data EXCEPT ![call.cur] = new]
  BY <1>3, <1>7 DEF WriteSector, NewByte
<1>9. content' = [content EXCEPT ![call.f] = held]
  BY <1>3 DEF WriteSector, NewByte
<1>10. new \in [0 .. (ClusterBytes - 1) -> Bytes]
  <2>1. data[call.cur] \in [0 .. (ClusterBytes - 1) -> Bytes]
    BY <1>1, <1>6
  <2>2. \A b \in 0 .. (ClusterBytes - 1) : NewByte(b) \in Bytes
    BY <1>5
  <2> QED
    BY <2>1, <2>2
<1>11. content \in [Files -> [Positions -> Bytes \cup {NONE}]]
  BY DEF IInv, Types
<1>12. held \in [Positions -> Bytes \cup {NONE}]
  <2>1. content[call.f] \in [Positions -> Bytes \cup {NONE}]
    BY <1>1, <1>11
  <2>2. \A p \in Positions : p - call.pos - call.done + call.offin \in Int
    BY <1>2, PositionsNat
  <2>3. \A p \in Positions : NewByte(p - call.pos - call.done + call.offin) \in Bytes
    BY <1>5, <2>2
  <2> QED
    BY <2>1, <2>3
<1>13. \A b \in 0 .. (ClusterBytes - 1) : new[b] = IF b \in S THEN NewByte(b) ELSE data[call.cur][b]
  OBVIOUS
<1>14. \A p \in Positions : held[p] = LET b == p - call.pos - call.done + call.offin
                                      IN  IF b \in S THEN NewByte(b) ELSE content[call.f][p]
  OBVIOUS
<1> HIDE DEF new, held
<1>15. /\ data' \in [Clusters -> [0 .. (ClusterBytes - 1) -> Bytes]]
       /\ \A c \in Clusters : c # call.cur => data'[c] = data[c]
       /\ data'[call.cur] = new
  BY <1>1, <1>6, <1>8, <1>10
<1>16. /\ content' \in [Files -> [Positions -> Bytes \cup {NONE}]]
       /\ \A g \in Files : g # call.f => content'[g] = content[g]
       /\ content'[call.f] = held
  BY <1>1, <1>9, <1>11, <1>12
<1> QED
  BY <1>1, <1>3, <1>4, <1>13, <1>14, <1>15, <1>16

(* A sector written changes bytes of one cluster and the same bytes of the   *)
(* file, or of a cluster on no chain and bytes past the end of the file's.   *)
LEMMA WriteSectorKeeps ==
    ASSUME IInv, WriteSector
    PROVE  IInv'
<1>1. /\ call' \in CallTypes /\ SameArgs(call', call)
      /\ call'.done = call.done /\ call'.hops = call.hops
      /\ call'.offin = call.offin /\ call'.cur = call.cur
      /\ call'.head = call.head /\ call'.got = call.got
      /\ Index(call') = Index(call) /\ TablesKept
  BY WriteSectorIs
<1>2. /\ pc = "hop" /\ pc' = "hop" /\ call.hops = 0 /\ call.op = "write" /\ fat' = fat
      /\ size' = size /\ crashed' = crashed /\ first' = first /\ dirent' = dirent
  BY DEF WriteSector
<1>3. PICK c \in Clusters, f \in Files, S \in {Touched(call.q)} : c = call.cur /\ f = call.f
  BY WriteSectorBytes
<1>4. /\ S \subseteq {b \in 0 .. (ClusterBytes - 1) : call.offin <= b /\ b < call.offin + Target}
      /\ data' \in [Clusters -> [0 .. (ClusterBytes - 1) -> Bytes]]
      /\ \A d \in Clusters : d # c => data'[d] = data[d]
      /\ \A b \in 0 .. (ClusterBytes - 1) :
            data'[c][b] = IF b \in S THEN NewByte(b) ELSE data[c][b]
      /\ content' \in [Files -> [Positions -> Bytes \cup {NONE}]]
      /\ \A g \in Files : g # f => content'[g] = content[g]
      /\ \A p \in Positions :
            content'[f][p] =
              LET b == p - call.pos - call.done + call.offin
              IN  IF b \in S THEN NewByte(b) ELSE content[f][p]
  BY <1>3, WriteSectorBytes
<1>5. Chains'
  BY <1>1, ChainsFrame
<1>6. Types'
  BY <1>1, <1>2, <1>4 DEF IInv, Types
<1>7. Calling'
  BY <1>1, <1>2 DEF IInv, Calling, SameArgs
<1>8. Place'
  BY <1>1, <1>2 DEF IInv, Place, OnFile, PastEnd, SameArgs
<1>9. CopyInv'
  BY <1>2, CopyFrame
<1>10. Empty'
  <2>1. NoCluster(first[f]) => Exhausted(fat[0])
    BY <1>2, <1>3 DEF IInv, Empty, Calling
  <2>2. \A g \in Files : \A p \in Positions :
           NoCluster(first[g]) /\ content'[g][p] # NONE => Exhausted(fat[0])
    BY <1>4, <2>1 DEF IInv, Empty
  <2> QED
    BY <1>1, <1>2, <1>3, <2>1, <2>2 DEF Empty, SameArgs
<1>11. Beyond'
  <2>1. c \notin Volume => VolumeFull(fat[0])
    BY <1>2, <1>3 DEF IInv, Beyond
  <2>2. \A d \in Clusters \ Volume : \A b \in 0 .. (ClusterBytes - 1) :
           data'[d][b] # 0 => VolumeFull(fat[0])
    BY <1>4, <2>1 DEF IInv, Beyond
  <2> QED
    BY <1>1, <1>2, <1>3, <2>1, <2>2 DEF IInv, Beyond
<1>12. Reading'
  BY <1>1, <1>2 DEF Reading, SameArgs
<1>13. PICK z \in Nat, o \in 0 .. (ClusterBytes - 1), w \in Nat \ {0} :
         /\ z = call.pos + call.done /\ o = call.offin /\ w = ClusterBytes
         /\ o = z % w
  BY <1>2, Constants DEF IInv, Types, CallTypes, Calling
<1>14. PICK k \in Nat : k = Index(call)
  BY <1>2 DEF IInv, Calling
<1>15. k = z \div w
  <2>1. k = (z \div w) - 0 /\ z \div w \in Nat
    BY <1>2, <1>13, <1>14, DivMod DEF Index
  <2> QED
    BY <2>1
<1>16. ASSUME NEW p \in Positions
       PROVE  /\ p \in Nat /\ p \div w \in Nat /\ p % w \in 0 .. (w - 1)
              /\ p - call.pos - call.done + call.offin = p - z + o
              /\ p - z + o \in 0 .. (w - 1) <=> p \div w = k
              /\ p \div w = k => p - z + o = p % w
  <2>1. p \in Nat /\ p \div w \in Nat /\ p % w \in 0 .. (w - 1)
    BY PositionsNat, DivMod
  <2>2. p - call.pos - call.done + call.offin = p - z + o
    <3>1. call.pos \in Nat /\ call.done \in Nat
      BY DEF IInv, Types, CallTypes
    <3> QED
      BY <1>13, <2>1, <3>1
  <2>3. p - z + o \in 0 .. (w - 1) => p \div w = k
    <3> SUFFICES ASSUME p - z + o \in 0 .. (w - 1) PROVE p \div w = k
      OBVIOUS
    <3>1. PICK i \in Int : i = p - z
      BY <2>1
    <3>2. (z % w) + i >= 0 /\ (z % w) + i < w /\ z + i = p
      BY <1>13, <2>1, <3>1
    <3> QED
      BY <1>15, <3>2, SameUnit
  <2>4. p \div w = k => p - z + o = p % w
    <3> SUFFICES ASSUME p \div w = k PROVE p - z + o = p % w
      OBVIOUS
    <3>1. PICK r \in 0 .. (w - 1) : r = p % w /\ p = (p \div w) * w + r
      BY <2>1, DivMod
    <3>2. z = (z \div w) * w + o
      <4>1. z = (z \div w) * w + (z % w)
        BY DivMod
      <4> QED
        BY <1>13, <4>1
    <3>3. PICK kw \in Nat : kw = k * w
      OBVIOUS
    <3>4. p = kw + r /\ z = kw + o
      BY <1>15, <3>1, <3>2, <3>3
    <3> QED
      BY <3>1, <3>4
  <2> QED
    BY <2>1, <2>2, <2>3, <2>4
<1>17. PICK t : t = fat[0]
  OBVIOUS
<1>18. IsTable(t) /\ first \in [Files -> Links] /\ Linked(t) /\ Started(t, first)
  BY <1>17, Tables DEF IInv, Chains
<1>19. \/ ~ NoCluster(c) /\ Walk(t, first[f], k) = c
       \/ NoCluster(Walk(t, first[f], k)) /\ Orphan(t, first, c)
  BY <1>2, <1>3, <1>14, <1>17 DEF IInv, Place, OnFile, PastEnd
(* The cluster written is on the chains at this place only, if at all. *)
<1>20. ASSUME NEW g \in Files, NEW j \in Nat, ~ NoCluster(Walk(t, first[g], j)),
              Walk(t, first[g], j) = c
       PROVE  g = f /\ j = k
  <2>1. CASE Walk(t, first[f], k) = c
    BY <1>18, <1>20, <2>1, ChainPlace
  <2>2. CASE Orphan(t, first, c)
    BY <1>18, <1>20, <2>2, OrphanApart
  <2> QED
    BY <1>19, <2>1, <2>2
<1>21. ASSUME NEW g \in Files, NEW j \in Nat, ~ NoCluster(Walk(t, first[g], j))
       PROVE  Walk(t, first[g], j) \in Clusters
  BY <1>18, <1>21, ChainClaimed
<1>22. StoredKept'
  <2> SUFFICES ASSUME NEW g \in Files, NEW p \in Positions, content'[g][p] # NONE,
                      ~ NoCluster(Walk(t, first[g], p \div w))
               PROVE  data'[Walk(t, first[g], p \div w)][p % w] = content'[g][p]
    BY <1>2, <1>13, <1>17 DEF StoredKept, OnChain, At
  <2>1. p \div w \in Nat /\ p % w \in 0 .. (ClusterBytes - 1)
    BY <1>13, <1>16
  <2>2. PICK e : e = Walk(t, first[g], p \div w)
    OBVIOUS
  <2>3. content[g][p] # NONE => data[e][p % w] = content[g][p]
    BY <1>13, <1>17, <2>2 DEF IInv, StoredKept, OnChain, At
  <2>4. e \in Clusters
    BY <1>21, <2>1, <2>2
  <2>5. CASE g = f /\ p \div w = k
    <3>1. e = c
      BY <1>19, <2>2, <2>5
    <3>2. content'[f][p] = IF p % w \in S THEN NewByte(p % w) ELSE content[f][p]
      BY <1>4, <1>16, <2>5
    <3>3. data'[c][p % w] = IF p % w \in S THEN NewByte(p % w) ELSE data[c][p % w]
      BY <1>4, <2>1
    <3> QED
      BY <2>2, <2>3, <2>5, <3>1, <3>2, <3>3
  <2>6. CASE ~ (g = f /\ p \div w = k)
    <3>1. e # c
      BY <1>20, <2>1, <2>2, <2>6
    <3>2. content'[g][p] = content[g][p]
      <4>1. CASE g # f
        BY <1>4, <4>1
      <4>2. CASE g = f
        <5>1. p - z + o \notin 0 .. (w - 1)
          BY <1>16, <2>6, <4>2
        <5>2. p - call.pos - call.done + call.offin \notin S
          BY <1>4, <1>13, <1>16, <5>1
        <5> QED
          BY <1>4, <4>2, <5>2
      <4> QED
        BY <4>1, <4>2
    <3>3. data'[e] = data[e]
      BY <1>4, <2>4, <3>1
    <3> QED
      BY <2>2, <2>3, <3>2, <3>3
  <2> QED
    BY <2>5, <2>6
<1> QED
  BY <1>5, <1>6, <1>7, <1>8, <1>9, <1>10, <1>11, <1>12, <1>22 DEF IInv

(* The power fails: the files are as the directory has them. *)
LEMMA CrashKeeps ==
    ASSUME IInv, Crash
    PROVE  IInv'
<1>1. /\ first' = dirent /\ size' = [f \in Files |-> 0] /\ pc' = "idle" /\ call' = NoCall
      /\ crashed' = TRUE /\ fat' = fat /\ data' = data /\ dirent' = dirent
  BY DEF Crash, disk
<1>2. PICK t : t = fat[0]
  OBVIOUS
<1>3. IsTable(t) /\ dirent \in [Files -> Links]
  BY <1>2, Tables DEF IInv
<1>4. content' = [f \in Files |->
          [p \in Positions |-> IF ~ NoCluster(Walk(t, dirent[f], p \div ClusterBytes))
                               THEN content[f][p] ELSE NONE]]
  BY <1>2 DEF Crash, OnChain, At
<1>5. content \in [Files -> [Positions -> Bytes \cup {NONE}]]
  BY DEF IInv, Types
<1>6. content' \in [Files -> [Positions -> Bytes \cup {NONE}]]
  BY <1>4, <1>5
<1>7. \A f \in Files : \A p \in Positions : content'[f][p] # NONE =>
         content'[f][p] = content[f][p] /\ ~ NoCluster(Walk(t, dirent[f], p \div ClusterBytes))
  BY <1>4
<1>8. ASSUME NEW f \in Files, NEW p \in Positions, NoCluster(dirent[f])
      PROVE  NoCluster(Walk(t, dirent[f], p \div ClusterBytes))
  <2>1. p \in Nat /\ ClusterBytes \in Nat \ {0} /\ dirent[f] \in Links
    BY <1>3, PositionsNat, Constants
  <2>2. PICK k \in Nat : k = p \div ClusterBytes
    BY <2>1, DivMod
  <2>3. 0 \in Nat /\ 0 <= k /\ Walk(t, dirent[f], 0) = dirent[f]
    BY <1>3, <2>1, WalkFacts
  <2> QED
    BY <1>3, <1>8, <2>1, <2>2, <2>3, WalkEnded
<1>9. Types'
  <2>1. Max(Lens) \in Nat
    <3>1. Lens \in SUBSET Nat /\ Lens # {} /\ IsFiniteSet(Lens)
      BY CallAssumption
    <3> QED
      BY <3>1, MaxIs
  <2>2. size' \in [Files -> 0 .. Max(Lens)]
    BY <1>1, <2>1
  <2>3. first' \in [Files -> {0} \cup Clusters]
    <3>1. {0} \cup Volume \subseteq {0} \cup Clusters
      BY Constants
    <3> QED
      BY <1>1, <3>1 DEF IInv, Types
  <2> QED
    BY <1>1, <1>6, <2>2, <2>3, NoCallType DEF IInv, Types
<1>10. Calling'
  BY <1>1, NoCallType DEF Calling
<1>11. Chains'
  BY <1>1 DEF IInv, Chains
<1>12. Place'
  BY <1>1 DEF Place
<1>13. Empty'
  BY <1>1, <1>7, <1>8 DEF Empty
<1>14. Beyond'
  <2>1. \A f \in Files : dirent[f] \notin Clusters \ Volume
    BY Constants DEF IInv, Types
  <2> QED
    BY <1>1, <2>1 DEF IInv, Beyond
<1>15. CopyInv'
  BY <1>1 DEF IInv, CopyInv
<1>16. StoredKept'
  <2> SUFFICES ASSUME NEW f \in Files, NEW p \in Positions, content'[f][p] # NONE,
                      ~ NoCluster(Walk(t, dirent[f], p \div ClusterBytes))
               PROVE  data[Walk(t, dirent[f], p \div ClusterBytes)][p % ClusterBytes] = content'[f][p]
    BY <1>1, <1>2 DEF StoredKept, OnChain, At
  <2>1. first[f] = dirent[f]
    BY <1>8 DEF IInv, Chains
  <2>2. content'[f][p] = content[f][p]
    BY <1>7
  <2> QED
    BY <1>2, <2>1, <2>2 DEF IInv, StoredKept, OnChain, At
<1>17. Reading'
  BY <1>1 DEF Reading
<1> QED
  BY <1>9, <1>10, <1>11, <1>12, <1>13, <1>14, <1>15, <1>16, <1>17 DEF IInv

-----------------------------------------------------------------------------
(* A partition as another system leaves it satisfies the invariant. *)
LEMMA InitInv == Init => IInv
<1> SUFFICES ASSUME Init PROVE IInv
  OBVIOUS
<1>1. PICK v \in [Volume -> {0, EOC} \cup Volume] :
        WellFormed(Found(v), dirent) /\ fat = [k \in Copies |-> FoundCopy(Found(v))]
  BY DEF Init
<1>2. /\ Found(v) \in [Clusters -> {0, EOC} \cup Volume]
      /\ \A c \in Clusters \ Volume : Found(v)[c] = 0
  BY DEF Found
<1>3. PICK t : t = Found(v)
  OBVIOUS
<1>4. PICK u : u = FoundCopy(t)
  OBVIOUS
<1>5. /\ \A c \in Clusters : u[c] = t[c]
      /\ u[0] = 65528 /\ u[1] = EOC
      /\ u = [e \in Entries |-> u[e]]
  BY <1>4, Constants DEF FoundCopy
<1>6. /\ t \in [Clusters -> {0, EOC} \cup Volume]
      /\ \A c \in Clusters \ Volume : t[c] = 0
      /\ u[0] = 65528 /\ u[1] = EOC /\ \A c \in Clusters : u[c] = t[c]
      /\ WellFormed(t, dirent) /\ fat = [k \in Copies |-> u]
  BY <1>1, <1>2, <1>3, <1>4, <1>5
<1>7. u \in [Entries -> Links]
  <2>1. 65528 \in Links /\ EOC \in Links
    BY DEF Links
  <2>2. \A c \in Clusters : t[c] \in Links
    <3>1. {0, EOC} \cup Volume \subseteq Links
      BY Constants DEF Links, EOC
    <3> QED
      BY <1>6, <3>1
  <2>3. u = [e \in Entries |-> u[e]]
    BY <1>5
  <2>4. \A e \in Entries : u[e] \in Links
    BY <1>6, <2>1, <2>2, Constants
  <2> QED
    BY <2>3, <2>4
<1>8. /\ dirent \in [Files -> {0} \cup Volume] /\ first = dirent
      /\ data = [c \in Clusters |-> [b \in 0 .. (ClusterBytes - 1) |-> 0]]
      /\ size = [f \in Files |-> 0]
      /\ call = NoCall /\ pc = "idle" /\ crashed = FALSE
      /\ content = [f \in Files |->
                      [p \in Positions |-> IF OnChain(dirent[f], p) THEN 0 ELSE NONE]]
  BY DEF Init
<1>9. Linked(t) /\ Started(t, dirent)
  BY <1>6, <1>8, WellFormedChains
<1>10. Linked(u)
  <2>1. \A c \in Clusters : ~ NoCluster(c) /\ ~ NoCluster(t[c]) => t[c] \in Clusters
    BY <1>9, Constants DEF Linked
  <2> QED
    BY <1>6, <1>9, <2>1 DEF Linked
<1>11. Started(u, dirent)
  <2>1. \A f \in Files : ~ NoCluster(dirent[f]) => dirent[f] \in Clusters
    <3> SUFFICES ASSUME NEW f \in Files, ~ NoCluster(dirent[f]) PROVE dirent[f] \in Clusters
      OBVIOUS
    <3>1. dirent[f] \in Volume
      BY <1>8, NoClusters
    <3> QED
      BY <3>1, Constants
  <2> QED
    BY <1>6, <1>9, <2>1 DEF Started
<1>12. fat[0] = u
  BY <1>6, Constants
<1>13. Types
  <2>1. Max(Lens) \in Nat
    <3>1. Lens \in SUBSET Nat /\ Lens # {} /\ IsFiniteSet(Lens)
      BY CallAssumption
    <3> QED
      BY <3>1, MaxIs
  <2>2. size \in [Files -> 0 .. Max(Lens)]
    BY <1>8, <2>1
  <2>3. first \in [Files -> {0} \cup Clusters]
    <3>1. {0} \cup Volume \subseteq {0} \cup Clusters
      BY Constants
    <3> QED
      BY <1>8, <3>1
  <2>4. fat \in [Copies -> [Entries -> Links]] /\ fat[0][0] # 0 /\ fat[0][1] # 0
    BY <1>6, <1>7, <1>12, Constants
  <2>5. 0 \in Bytes
    BY DEF Bytes
  <2>6. data \in [Clusters -> [0 .. (ClusterBytes - 1) -> Bytes]]
    BY <1>8, <2>5
  <2>7. content \in [Files -> [Positions -> Bytes \cup {NONE}]]
    BY <1>8, <2>5
  <2> QED
    BY <1>8, <2>2, <2>3, <2>4, <2>6, <2>7, NoCallType DEF Types
<1>14. Calling
  BY <1>8, NoCallType DEF Calling
<1>15. Chains
  BY <1>8, <1>10, <1>11, <1>12 DEF Chains
<1>16. Place
  BY <1>8 DEF Place
<1>17. IsTable(u) /\ dirent \in [Files -> Links]
  BY <1>8, <1>12, <1>13, Tables
<1>18. ASSUME NEW f \in Files, NEW p \in Positions, NoCluster(first[f])
       PROVE  content[f][p] = NONE
  <2>1. p \in Nat /\ ClusterBytes \in Nat \ {0} /\ dirent[f] \in Links
    BY <1>17, PositionsNat, Constants
  <2>2. PICK k \in Nat : k = p \div ClusterBytes
    BY <2>1, DivMod
  <2>3. 0 \in Nat /\ 0 <= k /\ Walk(u, dirent[f], 0) = dirent[f]
    BY <1>17, <2>1, WalkFacts
  <2>4. NoCluster(Walk(u, dirent[f], k))
    BY <1>8, <1>17, <1>18, <2>1, <2>3, WalkEnded
  <2>5. ~ OnChain(dirent[f], p)
    BY <1>12, <2>2, <2>4 DEF OnChain, At
  <2> QED
    BY <1>8, <2>5
<1>19. Empty
  BY <1>8, <1>18 DEF Empty
<1>20. Beyond
  <2>1. \A f \in Files : first[f] \notin Clusters \ Volume
    BY <1>8, Constants
  <2> QED
    BY <1>8, <2>1 DEF Beyond
<1>21. CopyInv
  BY <1>6, <1>8, Constants DEF CopyInv
<1>22. StoredKept
  <2> SUFFICES ASSUME NEW f \in Files, NEW p \in Positions, content[f][p] # NONE,
                      ~ NoCluster(Walk(u, first[f], p \div ClusterBytes))
               PROVE  data[Walk(u, first[f], p \div ClusterBytes)][p % ClusterBytes] = content[f][p]
    BY <1>12 DEF StoredKept, OnChain, At
  <2>1. content[f][p] = 0
    BY <1>8
  <2>2. p \div ClusterBytes \in Nat /\ p % ClusterBytes \in 0 .. (ClusterBytes - 1)
    BY PositionsNat, Constants, DivMod
  <2>3. Walk(u, first[f], p \div ClusterBytes) \in Clusters
    BY <1>8, <1>10, <1>11, <1>17, <2>2, ChainClaimed
  <2> QED
    BY <1>8, <2>1, <2>2, <2>3
<1>23. Reading
  BY <1>8 DEF Reading
<1> QED
  BY <1>13, <1>14, <1>15, <1>16, <1>19, <1>20, <1>21, <1>22, <1>23 DEF IInv

(* Nothing happens. *)
LEMMA StutterKeeps ==
    ASSUME IInv, UNCHANGED vars
    PROVE  IInv'
<1>1. /\ fat' = fat /\ data' = data /\ dirent' = dirent /\ first' = first /\ size' = size
      /\ call' = call /\ pc' = pc /\ content' = content /\ crashed' = crashed
  BY DEF vars
<1>2. Types' /\ Calling' /\ Chains' /\ Place' /\ Empty'
  BY <1>1 DEF IInv, Types, Calling, Chains, Place, Empty
<1>3. Beyond' /\ CopyInv' /\ StoredKept' /\ Reading'
  BY <1>1 DEF IInv, Beyond, CopyInv, StoredKept, OnChain, At, Reading
<1> QED
  BY <1>2, <1>3 DEF IInv

(* The invariant holds throughout, whatever calls are made and wherever the  *)
(* power fails.                                                              *)
THEOREM FilesInvariance == Spec => []IInv
<1>1. IInv /\ [Next]_vars => IInv'
  <2> SUFFICES ASSUME IInv, [Next]_vars PROVE IInv'
    OBVIOUS
  <2>1. CASE \E f \in Files, o \in Offsets, n \in Lens :
                \/ read_fat16(f, o, n)
                \/ \E s \in Seeds : write_fat16(f, o, n, s)
    BY <2>1, BeginKeeps
  <2>2. CASE Hop
    BY <2>2, HopKeeps
  <2>3. CASE Claim
    BY <2>3, ClaimKeeps
  <2>4. CASE ClaimNothing
    BY <2>4, ClaimNothingKeeps
  <2>5. CASE CopyFat
    BY <2>5, CopyFatKeeps
  <2>6. CASE Claimed
    BY <2>6, ClaimedKeeps
  <2>7. CASE ReadCluster
    BY <2>7, ReadClusterKeeps
  <2>8. CASE WriteSector
    BY <2>8, WriteSectorKeeps
  <2>9. CASE WriteCluster
    BY <2>9, WriteClusterKeeps
  <2>10. CASE Return
    BY <2>10, ReturnKeeps
  <2>11. CASE Crash
    BY <2>11, CrashKeeps
  <2>12. CASE UNCHANGED vars
    BY <2>12, StutterKeeps
  <2> QED
    BY <2>1, <2>2, <2>3, <2>4, <2>5, <2>6, <2>7, <2>8, <2>9, <2>10, <2>11, <2>12 DEF Next
<1> QED
  BY <1>1, InitInv, PTL DEF Spec

(* The variables keep their types, and a call goes on only with a cluster    *)
(* the table has.                                                            *)
THEOREM FilesTypeCorrect == Spec => []TypeOK
<1>1. IInv => TypeOK
  <2> SUFFICES ASSUME IInv PROVE TypeOK
    OBVIOUS
  <2>1. pc = "hop" => call.cur \in Clusters
    BY CurCluster
  <2>2. call.done \in 0 .. call.n /\ call.offin \in 0 .. (ClusterBytes - 1)
    BY DEF IInv, Types, CallTypes, Calling
  <2>3. dirent \in [Files -> {0} \cup Clusters]
    <3>1. {0} \cup Volume \subseteq {0} \cup Clusters
      BY Constants
    <3> QED
      BY <3>1 DEF IInv, Types
  <2> QED
    BY <2>1, <2>2, <2>3 DEF IInv, Types, TypeOK, Links
<1> QED
  BY <1>1, FilesInvariance, PTL

(* No cluster is on two chains or twice on one, and no chain runs into a     *)
(* free cluster, for any number of files and any size of the table.          *)
THEOREM FilesApart == Spec => []ChainsApart
<1>1. IInv => ChainsApart
  <2> SUFFICES ASSUME IInv, NEW f \in Files, NEW g \in Files,
                      NEW i \in 0 .. FatEntries, NEW j \in 0 .. FatEntries,
                      ~ NoCluster(Walk(fat[0], first[f], i))
               PROVE  /\ Walk(fat[0], first[f], i) = Walk(fat[0], first[g], j) => f = g /\ i = j
                      /\ fat[0][Walk(fat[0], first[f], i)] # 0
    BY DEF ChainsApart, At
  <2>1. /\ IsTable(fat[0]) /\ first \in [Files -> Links]
        /\ Linked(fat[0]) /\ Started(fat[0], first)
    BY Tables DEF IInv, Chains
  <2>2. i \in Nat /\ j \in Nat
    BY FatAssumption
  <2>3. fat[0][Walk(fat[0], first[f], i)] # 0
    BY <2>1, <2>2, ChainClaimed
  <2>4. Walk(fat[0], first[f], i) = Walk(fat[0], first[g], j) => f = g /\ i = j
    BY <2>1, <2>2, ChainPlace
  <2> QED
    BY <2>3, <2>4
<1> QED
  BY <1>1, FilesInvariance, PTL

(* A byte inside a file's chain is the one last written there, also after a  *)
(* power failure in the middle of a cluster.                                 *)
THEOREM FilesKept == Spec => []StoredKept
<1>1. IInv => StoredKept
  BY DEF IInv
<1> QED
  BY <1>1, FilesInvariance, PTL

(* read_fat16 delivers the bytes at its offset and is short exactly when the *)
(* chain is.                                                                 *)
THEOREM ReadCorrect == Spec => []ReadExact
<1>1. IInv => ReadExact
  <2> SUFFICES ASSUME IInv, pc = "return", call.op = "read"
               PROVE  LET there == {i \in 0 .. (call.n - 1) : OnChain(first[call.f], call.pos + i)}
                      IN  /\ call.done = Cardinality(there) /\ Len(call.got) = call.done
                          /\ \A i \in there : content[call.f][call.pos + i] \in {NONE, call.got[i + 1]}
    BY DEF ReadExact
  <2>1. PICK f \in Files, n \in Nat, d \in Nat, z \in Nat, w \in Nat \ {0} :
           f = call.f /\ n = call.n /\ d = call.done /\ z = call.pos /\ w = ClusterBytes
    BY Constants DEF IInv, Types, CallTypes
  <2>2. /\ d <= n /\ Len(call.got) = d
        /\ \A i \in 0 .. (d - 1) : ByteRead(call, fat[0], first, content, i)
        /\ d = n \/ NoCluster(Walk(fat[0], first[f], (z + d) \div w))
    BY <2>1 DEF IInv, Reading, Calling
  <2> DEFINE there == {i \in 0 .. (n - 1) : OnChain(first[f], z + i)}
  <2>3. there = 0 .. (d - 1)
    <3>1. ASSUME NEW i \in 0 .. (d - 1) PROVE i \in there
      BY <2>1, <2>2, <3>1 DEF ByteRead, OnChain, At
    <3>2. ASSUME NEW i \in there PROVE i \in 0 .. (d - 1)
      <4> SUFFICES ASSUME i >= d PROVE FALSE
        OBVIOUS
      <4>1. i \in 0 .. (n - 1) /\ ~ NoCluster(Walk(fat[0], first[f], (z + i) \div w))
        BY <2>1 DEF OnChain, At
      <4>2. NoCluster(Walk(fat[0], first[f], (z + d) \div w))
        BY <2>2, <4>1
      <4>3. z + d \in Nat /\ z + i \in Nat /\ z + d <= z + i
        BY <4>1
      <4>4. PICK a \in Nat, b \in Nat : a = (z + d) \div w /\ b = (z + i) \div w
        BY <4>3, DivMod
      <4>5. a <= b
        BY <4>3, <4>4, DivMonotone
      <4>6. IsTable(fat[0]) /\ first[f] \in Links
        BY Tables DEF IInv
      <4> QED
        BY <4>1, <4>2, <4>4, <4>5, <4>6, WalkEnded
    <3> QED
      BY <3>1, <3>2
  <2>4. Cardinality(there) = d
    <3>1. Cardinality(0 .. (d - 1)) = d
      <4>1. 0 \in Int /\ d - 1 \in Int
        OBVIOUS
      <4>2. Cardinality(0 .. (d - 1)) = IF 0 > d - 1 THEN 0 ELSE (d - 1) - 0 + 1
        BY <4>1, FS_Interval
      <4> QED
        BY <4>2
    <3> QED
      BY <2>3, <3>1
  <2>5. \A i \in there : content[f][z + i] \in {NONE, call.got[i + 1]}
    BY <2>1, <2>2, <2>3 DEF ByteRead
  <2> QED
    BY <2>1, <2>2, <2>4, <2>5
<1> QED
  BY <1>1, FilesInvariance, PTL

(* The other copies of the table follow the first. *)
THEOREM CopiesCorrect == Spec => []CopiesFollow
<1>1. IInv => CopiesFollow
  BY DEF IInv, CopyInv, CopiesFollow
<1> QED
  BY <1>1, FilesInvariance, PTL

(* The sectors behind the partition are written only once no cluster of it   *)
(* is free.                                                                  *)
THEOREM NeighbourCorrect == Spec => []NeighbourKept
<1>1. IInv => NeighbourKept
  <2> SUFFICES ASSUME IInv, NEW c \in Clusters \ Volume, NEW b \in DOMAIN data[c], data[c][b] # 0
               PROVE  VolumeFull(fat[0])
    BY DEF NeighbourKept, VolumeFull
  <2>1. DOMAIN data[c] = 0 .. (ClusterBytes - 1)
    BY DEF IInv, Types
  <2> QED
    BY <2>1 DEF IInv, Beyond
<1> QED
  BY <1>1, FilesInvariance, PTL

-----------------------------------------------------------------------------
(* What a chunk can hold. *)
Records == [kind : {"none", "entry", "mount", "node", "bpb"},
            type : {"none", "mount", "dir", "file"}, refcount : {0, 1},
            content : Ptr, bpb : Ptr, next : Ptr, prev : Ptr]

OpenTypes ==
    /\ mem \in [Addrs -> Records] /\ live \subseteq Addrs
    /\ cache_table_start \in Ptr /\ cache_table_last \in Ptr
    /\ mount_table_start \in Ptr /\ mount_table_last \in Ptr
    /\ cur \in Ptr /\ is_first \in BOOLEAN /\ (Walking => cur \in Addrs)
    /\ stage \in {"idle", "search", "create", "wild"}

(* Before the first mount that gets its cache entry there is no entry at all, *)
(* and a mount entry that was given back holds nothing.                      *)
Beginning ==
    stage # "wild" /\ cache_table_start = NULL =>
        /\ stage = "idle"
        /\ \A a \in Addrs : /\ mem[a].kind # "entry"
                            /\ mem[a].kind = "mount" /\ a \notin live =>
                                  mem[a].content = NULL /\ mem[a].bpb = NULL

(* The entries of list f, whose last place is k. *)
InList(f, k) == {f[j] : j \in 0 .. k}

(* f is the cache, from entry s, in memory m with chunks l in use: entries   *)
(* linked both ways, the mount point first.                                  *)
IsList(m, l, s, f, k) ==
    /\ k \in Nat /\ f \in [0 .. k -> l] /\ f[0] = s
    /\ \A x, y \in 0 .. k : f[x] = f[y] => x = y
    /\ \A x \in 0 .. k : m[f[x]].kind = "entry"
    /\ m[s].type = "mount"
    /\ \A x \in 0 .. (k - 1) : m[f[x]].next = f[x + 1] /\ m[f[x + 1]].prev = f[x]
    /\ m[f[k]].next = NULL

(* Entry c is not in the list, and unlinking it leaves the list alone. *)
Clear(m, f, k, c) ==
    c \notin InList(f, k) /\ m[c].prev \notin InList(f, k) /\ m[c].next \notin InList(f, k)

IsOpen(m, a) == m[a].kind = "entry" /\ m[a].type # "mount"

(* Every open file or directory has a node of its own. *)
Nodes(m, l) ==
    /\ \A a \in l : IsOpen(m, a) => m[a].content \in l /\ m[m[a].content].kind = "node"
    /\ \A a, b \in l : IsOpen(m, a) /\ IsOpen(m, b) /\ m[a].content = m[b].content => a = b

(* List f is all of the cache that can be found; cache_table_last is its end *)
(* or outside, and so is the entry a walk is at.                             *)
ListHeap(m, l, f, k) ==
    /\ IsList(m, l, cache_table_start, f, k)
    /\ cache_table_last \in InList(f, k) => cache_table_last = f[k]

AllListed(m, l, f, k) ==
    cache_table_last = f[k] /\ {a \in l : m[a].kind = "entry"} \subseteq InList(f, k)

ListState(f, k) ==
    /\ ListHeap(mem, live, f, k)
    /\ "closed last" \notin did => AllListed(mem, live, f, k)
    /\ Walking => /\ cur \in live /\ mem[cur].kind = "entry"
                  /\ cur = f[k] \/ Clear(mem, f, k, cur)

Listing ==
    stage # "wild" /\ "umount" \notin did /\ cache_table_start # NULL =>
        /\ Nodes(mem, live)
        /\ \E k \in Nat : \E f \in [0 .. k -> live] : ListState(f, k)

(* Chunks of the mounts, set B in memory m: a cache entry of a mount is the  *)
(* first of the cache, s.                                                    *)
HeldEntries(m, B, s) ==
    \A a \in B : m[a].kind = "entry" =>
        a = s /\ m[a].type = "mount" /\ m[a].content \in B /\ m[m[a].content].kind = "mount"

(* A mount has its node and its bpb, ... *)
HeldMounts(m, B) ==
    \A a \in B : m[a].kind = "mount" =>
        /\ m[a].content \in B /\ m[m[a].content].kind = "node"
        /\ m[a].bpb \in B /\ m[m[a].bpb].kind = "bpb"

(* ... nothing else is in B, ... *)
HeldOwned(m, B) ==
    \A a \in B : \/ m[a].kind \in {"entry", "mount"}
                  \/ \E b \in B : m[b].kind = "mount" /\ a \in {m[b].content, m[b].bpb}

(* ... no two mounts share one, ... *)
HeldApart(m, B) ==
    \A a, b \in B : /\ m[a].kind = "mount" /\ m[b].kind = "mount"
                     /\ {m[a].content, m[a].bpb} \cap {m[b].content, m[b].bpb} # {}
                     => a = b

(* ... and every mount has its cache entry, unless there was no chunk for it. *)
HeldListed(m, B, s, d) ==
    "no entry" \notin d => \A a \in B : m[a].kind = "mount" =>
                               s \in B /\ m[s].kind = "entry" /\ m[s].content = a

Held(m, B, s, d) ==
    /\ HeldEntries(m, B, s) /\ HeldMounts(m, B) /\ HeldOwned(m, B)
    /\ HeldApart(m, B) /\ HeldListed(m, B, s, d)

(* No chunk outside B leads into B. *)
Outside(m, B) ==
    \A a \in Addrs \ B : /\ m[a].kind = "entry" => m[a].content \notin B
                         /\ m[a].kind = "mount" => m[a].content \notin B /\ m[a].bpb \notin B

(* The walk has opened the entry it is at. *)
HasOpened == Walking /\ (~ is_first \/ stage = "create")
Opened    == IF HasOpened THEN {cur, mem[cur].content} ELSE {}

Owning ==
    stage # "wild" /\ "entry left" \notin did =>
        /\ HasOpened => /\ cur \in live /\ IsOpen(mem, cur)
                        /\ mem[cur].content \in live /\ mem[mem[cur].content].kind = "node"
        /\ Held(mem, live \ Opened, cache_table_start, did)
        /\ Outside(mem, live \ Opened)

OpenInv == OpenTypes /\ Beginning /\ Listing /\ Owning

-----------------------------------------------------------------------------
(* Round satisfies its recursive definition. *)
LEMMA RoundDef ==
    ASSUME OpenTypes
    PROVE  /\ Round(0) = cache_table_start
           /\ \A n \in Nat : Round(n) \in Ptr
           /\ \A n \in Nat : Round(n + 1) = IF Round(n) = NULL THEN NULL ELSE mem[Round(n)].next
<1> DEFINE F == [x \in Ptr |-> IF x = NULL THEN NULL ELSE mem[x].next]
           eq(g) == g = [k \in Nat |-> IF k = 0 THEN cache_table_start
                           ELSE IF g[k - 1] = NULL THEN NULL ELSE mem[g[k - 1]].next]
           c == CHOOSE g : eq(g)
<1>1. F \in [Ptr -> Ptr] /\ cache_table_start \in Ptr
  BY DEF OpenTypes, Records, Ptr
<1>2. PICK w \in [Nat -> Ptr] : w[0] = cache_table_start /\ \A i \in Nat \ {0} : w[i] = F[w[i - 1]]
  <2> HIDE DEF F
  <2> QED
    BY <1>1, Iterated
<1>3. \A i \in Nat \ {0} : w[i - 1] \in Ptr
  OBVIOUS
<1>4. eq(w)
  <2>1. w = [k \in Nat |-> w[k]]
    OBVIOUS
  <2>2. \A k \in Nat : w[k] = IF k = 0 THEN cache_table_start
                              ELSE IF w[k - 1] = NULL THEN NULL ELSE mem[w[k - 1]].next
    BY <1>2, <1>3
  <2> QED
    BY <2>1, <2>2
<1>5. eq(c)
  <2> HIDE DEF eq
  <2> QED
    BY <1>4, Zenon
<1>6. \A n \in Nat : Round(n) = c[n]
  BY DEF Round
<1>7. /\ c[0] = cache_table_start
      /\ \A n \in Nat : c[n + 1] = IF c[n] = NULL THEN NULL ELSE mem[c[n]].next
  <2> HIDE DEF c
  <2> QED
    BY <1>5
<1> HIDE DEF c
<1>8. Nat \subseteq {n \in Nat : c[n] \in Ptr}
  <2>1. 0 \in {n \in Nat : c[n] \in Ptr}
    BY <1>1, <1>7
  <2>2. \A n \in Nat : n \in {x \in Nat : c[x] \in Ptr} => n + 1 \in {x \in Nat : c[x] \in Ptr}
    BY <1>7 DEF OpenTypes, Records, Ptr
  <2> QED
    BY <2>1, <2>2, Induction
<1> QED
  BY <1>6, <1>7, <1>8

(* A lookup that ends is at an entry. *)
LEMMA LookupIs ==
    ASSUME OpenTypes, cache_table_start # NULL, ListEnds, NEW c, c = is_present_in_cache_table
    PROVE  c \in Addrs /\ c \in Seen /\ mem[c].kind = "entry" /\ mem[c].next = NULL
<1> DEFINE N == Cardinality(Addrs)
           Z == {n \in Nat : Round(n) = NULL}
<1>1. N \in Nat
  BY OpenFilesAssumption, FS_CardinalityType
<1>2. N \in Z
  BY <1>1 DEF ListEnds
<1>3. PICK n \in Z : \A j \in Z : n <= j
  <2> HIDE DEF Z
  <2>1. Z \in SUBSET Nat
    BY DEF Z
  <2> QED
    BY <1>2, <2>1, LeastNatural
<1>4. n \in Nat /\ n # 0 /\ n <= N
  BY <1>1, <1>2, <1>3, RoundDef
<1>5. PICK x : x = n - 1
  OBVIOUS
<1>6. x \in Nat /\ x \notin Z /\ n = x + 1 /\ x \in 0 .. N
  BY <1>1, <1>3, <1>4, <1>5
<1>7. Round(x) # NULL /\ Round(x) \in Seen /\ mem[Round(x)].next = NULL
  BY <1>3, <1>6, RoundDef DEF Seen, Rounds
<1>8. c \in Seen /\ mem[c].next = NULL
  BY <1>7 DEF is_present_in_cache_table
<1>9. Seen \subseteq Addrs
  BY <1>1, RoundDef DEF Seen, Rounds, Ptr
<1> QED
  BY <1>8, <1>9 DEF ListEnds

(* When the cache is a list, the loops over it end and see just that list. *)
LEMMA ListSeen ==
    ASSUME OpenTypes, NEW k \in Nat, NEW f \in [0 .. k -> live],
           IsList(mem, live, cache_table_start, f, k)
    PROVE  /\ ListEnds /\ Seen = InList(f, k)
           /\ is_present_in_cache_table = f[k]
<1> DEFINE N == Cardinality(Addrs)
           Early == {x \in Nat : x <= k => Round(x) = f[x]}
           Late == {x \in Nat : Round(k + 1 + x) = NULL}
<1>0. NULL \notin Addrs /\ \A x \in 0 .. k : f[x] \in Addrs /\ f[x] # NULL
  BY OpenFilesAssumption DEF OpenTypes
<1>1. N \in Nat
  BY OpenFilesAssumption, FS_CardinalityType
<1>2. k < N
  <2> SUFFICES ASSUME ~ (k < N) PROVE FALSE
    OBVIOUS
  <2>1. IsFiniteSet(0 .. k) /\ Cardinality(0 .. k) = k + 1
    BY FS_Interval
  <2>2. f \in [0 .. k -> Addrs]
    BY <1>0
  <2>3. N < k + 1
    BY <1>1
  <2>4. \E x, y \in 0 .. k : x # y /\ f[x] = f[y]
    BY <2>1, <2>2, <2>3, FS_PigeonHole, OpenFilesAssumption
  <2> QED
    BY <2>4 DEF IsList
<1>3. Nat \subseteq Early
  <2>1. 0 \in Early
    BY RoundDef DEF IsList
  <2>2. ASSUME NEW x \in Nat, x \in Early PROVE x + 1 \in Early
    <3> SUFFICES ASSUME x + 1 <= k PROVE Round(x + 1) = f[x + 1]
      OBVIOUS
    <3>1. x \in 0 .. (k - 1) /\ x \in 0 .. k /\ Round(x) = f[x]
      BY <2>2
    <3>2. mem[f[x]].next = f[x + 1] /\ f[x] # NULL
      BY <1>0, <3>1 DEF IsList
    <3> QED
      BY <3>1, <3>2, RoundDef
  <2> HIDE DEF Early
  <2> QED
    BY <2>1, <2>2, Induction
<1>4. Nat \subseteq Late
  <2>1. 0 \in Late
    <3>1. Round(k) = f[k] /\ f[k] # NULL /\ mem[f[k]].next = NULL
      BY <1>0, <1>3 DEF IsList
    <3>2. Round(k + 1) = NULL
      BY <3>1, RoundDef
    <3> QED
      BY <3>2
  <2>2. ASSUME NEW x \in Nat, x \in Late PROVE x + 1 \in Late
    <3>1. k + 1 + x \in Nat /\ k + 1 + (x + 1) = (k + 1 + x) + 1
      OBVIOUS
    <3> QED
      BY <2>2, <3>1, RoundDef
  <2> HIDE DEF Late
  <2> QED
    BY <2>1, <2>2, Induction
<1>5. \A x \in 0 .. k : Round(x) = f[x]
  BY <1>3
<1>6. \A x \in Nat : x > k => Round(x) = NULL
  <2> TAKE x \in Nat
  <2> HAVE x > k
  <2>1. x - (k + 1) \in Nat /\ k + 1 + (x - (k + 1)) = x
    OBVIOUS
  <2> QED
    BY <1>4, <2>1
<1> HIDE DEF N, Early, Late
<1>7. Seen = InList(f, k)
  <2>1. \A a \in Seen : a \in InList(f, k)
    <3> TAKE a \in Seen
    <3>1. PICK x \in 0 .. N : a = Round(x) /\ a # NULL
      BY DEF Seen, Rounds, N
    <3>2. x \in 0 .. k
      BY <1>1, <1>6, <3>1
    <3> QED
      BY <1>5, <3>1, <3>2 DEF InList
  <2>2. ASSUME NEW x \in 0 .. k PROVE f[x] \in Seen
    <3>1. x \in 0 .. N
      BY <1>1, <1>2
    <3> QED
      BY <1>0, <1>5, <3>1 DEF Seen, Rounds, N
  <2> QED
    BY <2>1, <2>2 DEF InList
<1>8. ListEnds
  <2>1. Round(N) = NULL
    BY <1>1, <1>2, <1>6
  <2>2. \A a \in InList(f, k) : mem[a].kind = "entry"
    BY DEF IsList, InList
  <2> QED
    BY <1>7, <2>1, <2>2 DEF ListEnds, N
<1>9. PICK c : c = is_present_in_cache_table
  OBVIOUS
<1>10. cache_table_start # NULL
  BY <1>0 DEF IsList
<1>11. c \in InList(f, k) /\ mem[c].next = NULL
  BY <1>7, <1>8, <1>9, <1>10, LookupIs
<1>12. PICK x \in 0 .. k : c = f[x]
  BY <1>11 DEF InList
<1>13. x = k
  <2> SUFFICES ASSUME x # k PROVE FALSE
    OBVIOUS
  <2>1. x \in 0 .. (k - 1) /\ x + 1 \in 0 .. k
    OBVIOUS
  <2>2. mem[f[x]].next = f[x + 1] /\ f[x + 1] # NULL
    BY <1>0, <2>1 DEF IsList
  <2> QED
    BY <1>11, <1>12, <2>2
<1> QED
  BY <1>7, <1>8, <1>9, <1>12, <1>13

-----------------------------------------------------------------------------
(* Two chunks that differ at most in their links. *)
Alike(x, y) ==
    x.kind = y.kind /\ x.type = y.type /\ x.refcount = y.refcount
    /\ x.content = y.content /\ x.bpb = y.bpb

(* What a store to a next field changes. *)
LEMMA SetNextIs ==
    ASSUME NEW m \in [Addrs -> Records], NEW a \in Ptr, NEW v \in Ptr
    PROVE  /\ SetNext(m, a, v) \in [Addrs -> Records]
           /\ \A x \in Addrs : /\ Alike(SetNext(m, a, v)[x], m[x])
                               /\ SetNext(m, a, v)[x].prev = m[x].prev
                               /\ SetNext(m, a, v)[x].next = IF x = a THEN v ELSE m[x].next
<1>1. NULL \notin Addrs
  BY OpenFilesAssumption
<1>2. CASE a = NULL
  BY <1>1, <1>2 DEF SetNext, Alike
<1>3. CASE a # NULL
  <2>1. SetNext(m, a, v) = [m EXCEPT ![a] = [m[a] EXCEPT !.next = v]] /\ a \in Addrs
    BY <1>3 DEF SetNext, Ptr
  <2>2. [m[a] EXCEPT !.next = v] \in Records
    BY <2>1 DEF Records
  <2>3. /\ Alike([m[a] EXCEPT !.next = v], m[a])
        /\ [m[a] EXCEPT !.next = v].prev = m[a].prev /\ [m[a] EXCEPT !.next = v].next = v
    BY <2>1 DEF Records, Alike
  <2>4. \A x \in Addrs : Alike(m[x], m[x])
    BY DEF Alike
  <2> QED
    BY <2>1, <2>2, <2>3, <2>4
<1> QED
  BY <1>2, <1>3

(* What a store to a prev field changes. *)
LEMMA SetPrevIs ==
    ASSUME NEW m \in [Addrs -> Records], NEW a \in Ptr, NEW v \in Ptr
    PROVE  /\ SetPrev(m, a, v) \in [Addrs -> Records]
           /\ \A x \in Addrs : /\ Alike(SetPrev(m, a, v)[x], m[x])
                               /\ SetPrev(m, a, v)[x].next = m[x].next
                               /\ SetPrev(m, a, v)[x].prev = IF x = a THEN v ELSE m[x].prev
<1>1. NULL \notin Addrs
  BY OpenFilesAssumption
<1>2. CASE a = NULL
  BY <1>1, <1>2 DEF SetPrev, Alike
<1>3. CASE a # NULL
  <2>1. SetPrev(m, a, v) = [m EXCEPT ![a] = [m[a] EXCEPT !.prev = v]] /\ a \in Addrs
    BY <1>3 DEF SetPrev, Ptr
  <2>2. [m[a] EXCEPT !.prev = v] \in Records
    BY <2>1 DEF Records
  <2>3. /\ Alike([m[a] EXCEPT !.prev = v], m[a])
        /\ [m[a] EXCEPT !.prev = v].next = m[a].next /\ [m[a] EXCEPT !.prev = v].prev = v
    BY <2>1 DEF Records, Alike
  <2>4. \A x \in Addrs : Alike(m[x], m[x])
    BY DEF Alike
  <2> QED
    BY <2>1, <2>2, <2>3, <2>4
<1> QED
  BY <1>2, <1>3

(* Unlinking a chunk with links p and n: p's next and n's prev change. *)
LEMMA UnlinkIs ==
    ASSUME NEW m \in [Addrs -> Records], NEW p \in Ptr, NEW n \in Ptr,
           NEW u, u = SetPrev(SetNext(m, p, n), n, p)
    PROVE  /\ u \in [Addrs -> Records]
           /\ \A x \in Addrs : /\ Alike(u[x], m[x])
                               /\ u[x].next = IF x = p THEN n ELSE m[x].next
                               /\ u[x].prev = IF x = n THEN p ELSE m[x].prev
<1>1. PICK v : v = SetNext(m, p, n)
  OBVIOUS
<1>2. /\ v \in [Addrs -> Records]
      /\ \A x \in Addrs : /\ Alike(v[x], m[x]) /\ v[x].prev = m[x].prev
                          /\ v[x].next = IF x = p THEN n ELSE m[x].next
  BY <1>1, SetNextIs
<1>3. u = SetPrev(v, n, p)
  BY <1>1
<1>4. /\ u \in [Addrs -> Records]
      /\ \A x \in Addrs : /\ Alike(u[x], v[x]) /\ u[x].next = v[x].next
                          /\ u[x].prev = IF x = n THEN p ELSE v[x].prev
  BY <1>2, <1>3, SetPrevIs
<1>5. \A x \in Addrs : Alike(u[x], m[x])
  BY <1>2, <1>4 DEF Alike
<1> QED
  BY <1>2, <1>4, <1>5

(* The fields of a chunk are pointers. *)
LEMMA RecordFields ==
    ASSUME NEW m \in [Addrs -> Records], NEW x \in Addrs
    PROVE  /\ m[x].next \in Ptr /\ m[x].prev \in Ptr /\ m[x].content \in Ptr /\ m[x].bpb \in Ptr
           /\ m[x].refcount \in {0, 1}
  BY DEF Records

(* fat16_sub_close_file: a mount point is left alone, any other entry is     *)
(* unlinked and given back with its node.  The entry itself does not change. *)
LEMMA CloseIs ==
    ASSUME NEW m \in [Addrs -> Records], NEW l, NEW c \in Addrs,
           NEW g, g = fat16_sub_close_file([mem |-> m, live |-> l], c)
    PROVE  /\ m[c].type = "mount" => g = [mem |-> m, live |-> l]
           /\ g = [mem |-> g.mem, live |-> g.live] /\ g.mem \in [Addrs -> Records]
           /\ \A x \in Addrs : Alike(g.mem[x], m[x])
           /\ g.mem[c].next = m[c].next /\ g.mem[c].prev = m[c].prev
           /\ m[c].type # "mount" =>
                 /\ g.live = l \ {c, m[c].content}
                 /\ \A x \in Addrs :
                       /\ g.mem[x].next = IF x = m[c].prev THEN m[c].next ELSE m[x].next
                       /\ g.mem[x].prev = IF x = m[c].next THEN m[c].prev ELSE m[x].prev
<1>1. ~ (m[c].refcount > 1) /\ m[c].next \in Ptr /\ m[c].prev \in Ptr
  <2>1. m[c].refcount \in {0, 1} /\ m[c].next \in Ptr /\ m[c].prev \in Ptr
    BY RecordFields
  <2> QED
    BY <2>1
<1>2. CASE m[c].type = "mount"
  <2>1. g = [mem |-> m, live |-> l]
    BY <1>2 DEF fat16_sub_close_file
  <2> QED
    BY <1>2, <2>1 DEF Alike
<1>3. CASE m[c].type # "mount"
  <2>1. PICK u : u = SetPrev(SetNext(m, m[c].prev, m[c].next), m[c].next, m[c].prev)
    OBVIOUS
  <2>2. g = [mem |-> u, live |-> l \ {c, m[c].content}]
    BY <1>1, <1>3, <2>1 DEF fat16_sub_close_file
  <2>3. /\ u \in [Addrs -> Records]
        /\ \A x \in Addrs : /\ Alike(u[x], m[x])
                            /\ u[x].next = IF x = m[c].prev THEN m[c].next ELSE m[x].next
                            /\ u[x].prev = IF x = m[c].next THEN m[c].prev ELSE m[x].prev
    BY <1>1, <2>1, UnlinkIs
  <2>4. g.mem = u /\ g.live = l \ {c, m[c].content}
    BY <2>2
  <2> QED
    BY <1>3, <2>2, <2>3, <2>4
<1> QED
  BY <1>2, <1>3

(* A chunk that differs in no field does not differ. *)
LEMMA SameRecord ==
    ASSUME NEW p \in Records, NEW q \in Records, Alike(p, q), p.next = q.next, p.prev = q.prev
    PROVE  p = q
  BY DEF Records, Alike

(* A second close of the same entry does nothing. *)
LEMMA CloseTwice ==
    ASSUME NEW m \in [Addrs -> Records], NEW l, NEW c \in Addrs,
           NEW g, g = fat16_sub_close_file([mem |-> m, live |-> l], c),
           NEW h, h = fat16_sub_close_file(g, c)
    PROVE  /\ h = [mem |-> h.mem, live |-> h.live] /\ h.live = g.live
           /\ h.mem = g.mem
<1>1. /\ m[c].type = "mount" => g = [mem |-> m, live |-> l]
      /\ g = [mem |-> g.mem, live |-> g.live] /\ g.mem \in [Addrs -> Records]
      /\ Alike(g.mem[c], m[c])
      /\ g.mem[c].next = m[c].next /\ g.mem[c].prev = m[c].prev
  BY CloseIs
<1>1a. m[c].type # "mount" =>
                 /\ g.live = l \ {c, m[c].content}
                 /\ \A x \in Addrs :
                       /\ g.mem[x].next = IF x = m[c].prev THEN m[c].next ELSE m[x].next
                       /\ g.mem[x].prev = IF x = m[c].next THEN m[c].prev ELSE m[x].prev
  BY CloseIs
<1>2. PICK M \in [Addrs -> Records] : M = g.mem
  BY <1>1
<1>3. h = fat16_sub_close_file([mem |-> M, live |-> g.live], c)
  BY <1>1, <1>2
<1>4. /\ M[c].type = "mount" => h = [mem |-> M, live |-> g.live]
      /\ h = [mem |-> h.mem, live |-> h.live] /\ h.mem \in [Addrs -> Records]
      /\ \A x \in Addrs : Alike(h.mem[x], M[x])
      /\ M[c].type # "mount" =>
                 /\ h.live = g.live \ {c, M[c].content}
                 /\ \A x \in Addrs :
                       /\ h.mem[x].next = IF x = M[c].prev THEN M[c].next ELSE M[x].next
                       /\ h.mem[x].prev = IF x = M[c].next THEN M[c].prev ELSE M[x].prev
  BY <1>2, <1>3, CloseIs
<1>5. CASE m[c].type = "mount"
  BY <1>1, <1>2, <1>4, <1>5 DEF Alike
<1>6. CASE m[c].type # "mount"
  <2>1. M[c].type # "mount" /\ M[c].content = m[c].content
        /\ M[c].next = m[c].next /\ M[c].prev = m[c].prev
    BY <1>1, <1>2, <1>6 DEF Alike
  <2>2. h.live = g.live
    BY <1>1a, <1>4, <1>6, <2>1
  <2>3. \A x \in Addrs : h.mem[x] = M[x]
    <3> TAKE x \in Addrs
    <3>1. h.mem[x].next = M[x].next /\ h.mem[x].prev = M[x].prev
      BY <1>1a, <1>2, <1>4, <1>6, <2>1
    <3>2. h.mem[x] \in Records /\ M[x] \in Records
      BY <1>4
    <3>3. Alike(h.mem[x], M[x])
      BY <1>4
    <3> QED
      BY <3>1, <3>2, <3>3, SameRecord
  <2>4. h.mem = M
    BY <1>4, <2>3
  <2> QED
    BY <1>2, <1>4, <2>2, <2>4
<1> QED
  BY <1>5, <1>6

(* fat16_sub_open_file: entry c with node n behind cache_table_last. *)
LEMMA OpenIs ==
    ASSUME NEW m \in [Addrs -> Records], NEW l, NEW c \in Addrs, NEW n \in Addrs, c # n,
           NEW type \in {"dir", "file"}, cache_table_last \in Ptr,
           NEW g, g = fat16_sub_open_file([mem |-> m, live |-> l], c, n, type)
    PROVE  /\ g.mem \in [Addrs -> Records] /\ g.live = l \cup {c, n}
           /\ \A x \in Addrs \ {c, n} :
                 /\ Alike(g.mem[x], m[x]) /\ g.mem[x].prev = m[x].prev
                 /\ g.mem[x].next = IF x = cache_table_last THEN c ELSE m[x].next
           /\ g.mem[c].kind = "entry" /\ g.mem[c].type = type /\ g.mem[c].content = n
           /\ g.mem[c].prev = cache_table_last
           /\ g.mem[c].next = IF c = cache_table_last THEN c ELSE NULL
           /\ g.mem[n].kind = "node"
<1> DEFINE new == [m EXCEPT ![c] = Entry(type, n), ![n] = [Blank EXCEPT !.kind = "node"]]
           far == SetNext(new, cache_table_last, c)
<1>1. Entry(type, n) \in Records /\ [Blank EXCEPT !.kind = "node"] \in Records
  BY DEF Entry, Blank, Records, Ptr
<1>2. /\ new \in [Addrs -> Records] /\ new[c] = Entry(type, n)
      /\ new[n].kind = "node" /\ \A x \in Addrs \ {c, n} : new[x] = m[x]
  BY <1>1 DEF Blank
<1>3. new[c].kind = "entry" /\ new[c].type = type /\ new[c].content = n /\ new[c].next = NULL
  BY <1>2 DEF Entry, Blank
<1> HIDE DEF new
<1>4. c \in Ptr
  BY DEF Ptr
<1>5. /\ far \in [Addrs -> Records]
      /\ \A x \in Addrs : /\ Alike(far[x], new[x]) /\ far[x].prev = new[x].prev
                          /\ far[x].next = IF x = cache_table_last THEN c ELSE new[x].next
  BY <1>2, <1>4, SetNextIs
<1>6. g = [mem |-> [far EXCEPT ![c].prev = cache_table_last], live |-> l \cup {c, n}]
  BY DEF fat16_sub_open_file, new
<1> HIDE DEF far
<1>7. PICK M : M = [far EXCEPT ![c].prev = cache_table_last]
  OBVIOUS
<1>8. M = [far EXCEPT ![c] = [far[c] EXCEPT !.prev = cache_table_last]]
  BY <1>7
<1>9. /\ [far[c] EXCEPT !.prev = cache_table_last] \in Records
      /\ Alike([far[c] EXCEPT !.prev = cache_table_last], far[c])
      /\ [far[c] EXCEPT !.prev = cache_table_last].prev = cache_table_last
      /\ [far[c] EXCEPT !.prev = cache_table_last].next = far[c].next
  BY <1>5 DEF Records, Alike
<1>10. /\ M \in [Addrs -> Records] /\ \A x \in Addrs \ {c} : M[x] = far[x]
       /\ Alike(M[c], far[c]) /\ M[c].prev = cache_table_last /\ M[c].next = far[c].next
  BY <1>5, <1>8, <1>9
<1>11. g.mem = M /\ g.live = l \cup {c, n}
  <2>1. g = [mem |-> M, live |-> l \cup {c, n}]
    BY <1>6, <1>7, Zenon
  <2> QED
    BY <2>1
<1>12. /\ M[c].kind = "entry" /\ M[c].type = type /\ M[c].content = n
       /\ M[c].next = IF c = cache_table_last THEN c ELSE NULL
  BY <1>3, <1>5, <1>10 DEF Alike
<1>13. M[n].kind = "node"
  BY <1>2, <1>5, <1>10 DEF Alike
<1>14. ASSUME NEW x \in Addrs \ {c, n}
       PROVE  /\ Alike(M[x], m[x]) /\ M[x].prev = m[x].prev
              /\ M[x].next = IF x = cache_table_last THEN c ELSE m[x].next
  BY <1>2, <1>5, <1>10
<1> QED
  BY <1>10, <1>11, <1>12, <1>13, <1>14

-----------------------------------------------------------------------------
(* A list stays one when its entries keep their links and stay in use. *)
LEMMA ListFrame ==
    ASSUME NEW m, NEW l, NEW s, NEW f, NEW k, IsList(m, l, s, f, k), NEW m2, NEW l2,
           \A x \in InList(f, k) : /\ x \in l2 /\ Alike(m2[x], m[x])
                                   /\ m2[x].next = m[x].next /\ m2[x].prev = m[x].prev
    PROVE  IsList(m2, l2, s, f, k)
<1>1. k \in Nat /\ f \in [0 .. k -> l] /\ f[0] = s
  BY DEF IsList
<1>2. \A x \in 0 .. k : f[x] \in InList(f, k)
  BY DEF InList
<1>3. f \in [0 .. k -> l2]
  BY <1>1, <1>2
<1>4. \A x \in 0 .. (k - 1) : x \in 0 .. k /\ x + 1 \in 0 .. k
  BY <1>1
<1>5. 0 \in 0 .. k /\ k \in 0 .. k
  BY <1>1
<1>6. \A x \in 0 .. k : /\ Alike(m2[f[x]], m[f[x]]) /\ m2[f[x]].next = m[f[x]].next
                        /\ m2[f[x]].prev = m[f[x]].prev
  BY <1>2
<1>7. \A x \in 0 .. k : m2[f[x]].kind = "entry"
  BY <1>6 DEF IsList, Alike
<1>8. m2[s].type = "mount"
  BY <1>1, <1>5, <1>6 DEF IsList, Alike
<1>9. \A x \in 0 .. (k - 1) : m2[f[x]].next = f[x + 1] /\ m2[f[x + 1]].prev = f[x]
  BY <1>4, <1>6 DEF IsList
<1>10. m2[f[k]].next = NULL
  BY <1>5, <1>6 DEF IsList
<1>11. \A x, y \in 0 .. k : f[x] = f[y] => x = y
  BY DEF IsList
<1> QED
  BY <1>1, <1>3, <1>7, <1>8, <1>9, <1>10, <1>11 DEF IsList

(* Closing an entry that is clear of the list leaves the list as it is. *)
LEMMA CloseClear ==
    ASSUME NEW m \in [Addrs -> Records], NEW l \in SUBSET Addrs, NEW s, NEW f, NEW k,
           IsList(m, l, s, f, k), Nodes(m, l), NEW c \in l, IsOpen(m, c), Clear(m, f, k, c),
           NEW g, g = fat16_sub_close_file([mem |-> m, live |-> l], c)
    PROVE  IsList(g.mem, g.live, s, f, k)
<1>0. k \in Nat /\ f \in [0 .. k -> l] /\ f[0] = s /\ c \in Addrs
  BY DEF IsList
<1>1. /\ \A x \in Addrs : Alike(g.mem[x], m[x])
      /\ g.live = l \ {c, m[c].content}
      /\ \A x \in Addrs :
            /\ g.mem[x].next = IF x = m[c].prev THEN m[c].next ELSE m[x].next
            /\ g.mem[x].prev = IF x = m[c].next THEN m[c].prev ELSE m[x].prev
  BY <1>0, CloseIs DEF IsOpen
<1>2. m[m[c].content].kind = "node"
  BY <1>0 DEF Nodes
<1>3. \A x \in 0 .. k : f[x] \in l /\ f[x] \in Addrs /\ f[x] # m[c].content
  BY <1>0, <1>2 DEF IsList
<1>4. \A x \in InList(f, k) : x \in l /\ x \in Addrs /\ x # m[c].content /\ x # c
                              /\ x # m[c].prev /\ x # m[c].next
  BY <1>3 DEF InList, Clear
<1>5. \A x \in InList(f, k) : /\ x \in g.live /\ Alike(g.mem[x], m[x])
                              /\ g.mem[x].next = m[x].next /\ g.mem[x].prev = m[x].prev
  BY <1>1, <1>4
<1> QED
  BY <1>5, ListFrame

(* Closing the entry at the end of the list takes it off. *)
LEMMA CloseEnd ==
    ASSUME NEW m \in [Addrs -> Records], NEW l \in SUBSET Addrs, NEW s, NEW f, NEW k,
           IsList(m, l, s, f, k), Nodes(m, l), IsOpen(m, f[k]),
           NEW g, g = fat16_sub_close_file([mem |-> m, live |-> l], f[k])
    PROVE  /\ k > 0 /\ f[k] \notin g.live
           /\ \E F \in [0 .. (k - 1) -> g.live] :
                 IsList(g.mem, g.live, s, F, k - 1) /\ InList(F, k - 1) \subseteq InList(f, k)
<1> PICK c : c = f[k]
  OBVIOUS
<1>0. k \in Nat /\ f \in [0 .. k -> l] /\ f[0] = s /\ c \in Addrs /\ c \in l
  BY DEF IsList
<1>1. /\ \A x \in Addrs : Alike(g.mem[x], m[x])
      /\ g.live = l \ {c, m[c].content}
      /\ \A x \in Addrs :
            /\ g.mem[x].next = IF x = m[c].prev THEN m[c].next ELSE m[x].next
            /\ g.mem[x].prev = IF x = m[c].next THEN m[c].prev ELSE m[x].prev
  BY <1>0, CloseIs DEF IsOpen
<1>2. m[m[c].content].kind = "node"
  BY <1>0 DEF Nodes
<1>3. \A x \in 0 .. k : f[x] \in l /\ f[x] \in Addrs /\ f[x] # m[c].content
  BY <1>0, <1>2 DEF IsList
<1>4. k > 0 /\ k - 1 \in Nat /\ k - 1 \in 0 .. (k - 1) /\ (k - 1) + 1 = k
  <2>1. k # 0
    BY <1>0 DEF IsList, IsOpen
  <2> QED
    BY <1>0, <2>1
<1>5. m[c].next = NULL /\ m[c].prev = f[k - 1] /\ NULL \notin Addrs
  BY <1>4, OpenFilesAssumption DEF IsList
<1> DEFINE F == [x \in 0 .. (k - 1) |-> f[x]]
           K == k - 1
<1>6. \A x \in 0 .. K : x \in 0 .. k /\ F[x] = f[x] /\ x # k
  BY <1>0
<1>7. \A x, y \in 0 .. k : f[x] = f[y] => x = y
  BY DEF IsList
<1>8. \A x \in 0 .. K : f[x] # f[k]
  BY <1>0, <1>6, <1>7
<1>9. F \in [0 .. K -> g.live]
  BY <1>1, <1>3, <1>6, <1>8
<1>10. F[0] = s /\ \A x, y \in 0 .. K : F[x] = F[y] => x = y
  BY <1>0, <1>4, <1>6, <1>7
<1>11. \A x \in 0 .. K : g.mem[F[x]].kind = "entry"
  <2> TAKE x \in 0 .. K
  <2>1. F[x] = f[x] /\ f[x] \in Addrs /\ m[f[x]].kind = "entry"
    BY <1>3, <1>6 DEF IsList
  <2> QED
    BY <1>1, <2>1 DEF Alike
<1>12. g.mem[s].type = "mount"
  BY <1>0, <1>1, <1>3, <1>4, <1>6 DEF Alike, IsList
<1>13. g.mem[F[K]].next = NULL
  BY <1>1, <1>3, <1>4, <1>5, <1>6
<1>14. ASSUME NEW x \in 0 .. (K - 1)
       PROVE  g.mem[F[x]].next = F[x + 1] /\ g.mem[F[x + 1]].prev = F[x]
  <2>1. x \in 0 .. K /\ x + 1 \in 0 .. K /\ x \in 0 .. (k - 1) /\ x # K /\ x \in 0 .. k /\ K \in 0 .. k
    BY <1>0, <1>4
  <2>2. m[f[x]].next = f[x + 1] /\ m[f[x + 1]].prev = f[x]
    BY <2>1 DEF IsList
  <2>3. f[x] # f[K] /\ f[x] \in Addrs /\ f[x + 1] \in Addrs
    BY <1>3, <1>6, <1>7, <2>1
  <2>4. f[x] # m[c].prev /\ f[x + 1] # m[c].next
    BY <1>5, <2>3
  <2>5. g.mem[f[x]].next = f[x + 1] /\ g.mem[f[x + 1]].prev = f[x]
    BY <1>1, <2>2, <2>3, <2>4
  <2> QED
    BY <1>6, <2>1, <2>5
<1>15. K \in Nat
  BY <1>4
<1>16. InList(F, K) \subseteq InList(f, k)
  BY <1>6 DEF InList
<1> HIDE DEF F, K
<1>17. IsList(g.mem, g.live, s, F, K)
  BY <1>9, <1>10, <1>11, <1>12, <1>13, <1>14, <1>15 DEF IsList
<1>18. c \notin g.live
  BY <1>1
<1> QED
  BY <1>4, <1>9, <1>16, <1>17, <1>18 DEF K

(* Opening links the new entry clear of the list when cache_table_last is    *)
(* outside the list. *)
LEMMA OpenClear ==
    ASSUME NEW m \in [Addrs -> Records], NEW l \in SUBSET Addrs, NEW f, NEW k,
           IsList(m, l, cache_table_start, f, k), cache_table_last \in Ptr, cache_table_last \notin InList(f, k),
           NEW c \in Addrs \ l, NEW n \in Addrs \ l, c # n, NEW type \in {"dir", "file"},
           NEW g, g = fat16_sub_open_file([mem |-> m, live |-> l], c, n, type)
    PROVE  IsList(g.mem, g.live, cache_table_start, f, k) /\ Clear(g.mem, f, k, c)
<1>1. k \in Nat /\ f \in [0 .. k -> l] /\ f[0] = cache_table_start /\ NULL \notin Addrs
  BY OpenFilesAssumption DEF IsList
<1>2. /\ g.live = l \cup {c, n}
      /\ \A x \in Addrs \ {c, n} :
            /\ Alike(g.mem[x], m[x]) /\ g.mem[x].prev = m[x].prev
            /\ g.mem[x].next = IF x = cache_table_last THEN c ELSE m[x].next
      /\ g.mem[c].kind = "entry" /\ g.mem[c].prev = cache_table_last
      /\ g.mem[c].next = IF c = cache_table_last THEN c ELSE NULL
  <2>1. c \in Addrs /\ n \in Addrs
    OBVIOUS
  <2>2. /\ g.live = l \cup {c, n} /\ g.mem[c].kind = "entry" /\ g.mem[c].prev = cache_table_last
        /\ g.mem[c].next = IF c = cache_table_last THEN c ELSE NULL
    BY <2>1, OpenIs
  <2>3. \A x \in Addrs \ {c, n} : Alike(g.mem[x], m[x]) /\ g.mem[x].prev = m[x].prev
    BY <2>1, OpenIs
  <2>4. \A x \in Addrs \ {c, n} : g.mem[x].next = IF x = cache_table_last THEN c ELSE m[x].next
    BY <2>1, OpenIs
  <2> QED
    BY <2>2, <2>3, <2>4
<1>3. \A x \in 0 .. k : f[x] \in l /\ f[x] \in Addrs \ {c, n}
  BY <1>1
<1>4. \A x \in InList(f, k) : x \in l /\ x \in Addrs \ {c, n} /\ x # cache_table_last
  BY <1>3 DEF InList
<1>5. \A x \in InList(f, k) : /\ x \in g.live /\ Alike(g.mem[x], m[x])
                              /\ g.mem[x].next = m[x].next /\ g.mem[x].prev = m[x].prev
  BY <1>2, <1>4
<1>6. IsList(g.mem, g.live, cache_table_start, f, k)
  BY <1>5, ListFrame
<1>7. Clear(g.mem, f, k, c)
  BY <1>1, <1>2, <1>4 DEF Clear
<1> QED
  BY <1>6, <1>7

(* In memory m with chunks l in use, entry c has been put after list f. *)
Lengthened(m, l, f, k, c) ==
    \E K \in Nat : \E F \in [0 .. K -> l] :
        /\ IsList(m, l, cache_table_start, F, K) /\ F[K] = c
        /\ InList(f, k) \cup {c} \subseteq InList(F, K)

(* Opening puts the new entry at the end of the list when cache_table_last is *)
(* the end. *)
LEMMA OpenEnd ==
    ASSUME NEW m \in [Addrs -> Records], NEW l \in SUBSET Addrs, NEW f, NEW k,
           ListHeap(m, l, f, k), cache_table_last \in Ptr, cache_table_last \in InList(f, k),
           NEW c \in Addrs \ l, NEW n \in Addrs \ l, c # n, NEW type \in {"dir", "file"},
           NEW g, g = fat16_sub_open_file([mem |-> m, live |-> l], c, n, type)
    PROVE  Lengthened(g.mem, g.live, f, k, c)
<1>1. k \in Nat /\ f \in [0 .. k -> l] /\ f[0] = cache_table_start /\ NULL \notin Addrs
  BY OpenFilesAssumption DEF IsList, ListHeap
<1>2. /\ g.live = l \cup {c, n}
      /\ \A x \in Addrs \ {c, n} :
            /\ Alike(g.mem[x], m[x]) /\ g.mem[x].prev = m[x].prev
            /\ g.mem[x].next = IF x = cache_table_last THEN c ELSE m[x].next
      /\ g.mem[c].kind = "entry" /\ g.mem[c].prev = cache_table_last
      /\ g.mem[c].next = IF c = cache_table_last THEN c ELSE NULL
  <2>1. c \in Addrs /\ n \in Addrs
    OBVIOUS
  <2>2. /\ g.live = l \cup {c, n} /\ g.mem[c].kind = "entry" /\ g.mem[c].prev = cache_table_last
        /\ g.mem[c].next = IF c = cache_table_last THEN c ELSE NULL
    BY <2>1, OpenIs
  <2>3. \A x \in Addrs \ {c, n} : Alike(g.mem[x], m[x]) /\ g.mem[x].prev = m[x].prev
    BY <2>1, OpenIs
  <2>4. \A x \in Addrs \ {c, n} : g.mem[x].next = IF x = cache_table_last THEN c ELSE m[x].next
    BY <2>1, OpenIs
  <2> QED
    BY <2>2, <2>3, <2>4
<1>3. \A x \in 0 .. k : f[x] \in l /\ f[x] \in Addrs \ {c, n}
  BY <1>1
<1>4. cache_table_last = f[k] /\ IsList(m, l, cache_table_start, f, k)
  BY DEF ListHeap
<1> DEFINE K == k + 1
           F == [x \in 0 .. (k + 1) |-> IF x = k + 1 THEN c ELSE f[x]]
<1>5. \A x \in 0 .. k : x \in 0 .. K /\ F[x] = f[x] /\ x # K
  BY <1>1
<1>6. F[K] = c /\ K \in Nat /\ K \in 0 .. K /\ k \in 0 .. k /\ 0 \in 0 .. k
  BY <1>1
<1>7. \A x \in 0 .. K : x = K \/ x \in 0 .. k
  BY <1>1
<1>8. \A x, y \in 0 .. k : f[x] = f[y] => x = y
  BY <1>4 DEF IsList
<1>9. F \in [0 .. K -> g.live]
  BY <1>1, <1>2, <1>3
<1>10. F[0] = cache_table_start
  BY <1>1, <1>5, <1>6
<1>11. \A x, y \in 0 .. K : F[x] = F[y] => x = y
  <2> HIDE DEF K, F
  <2> QED
    BY <1>3, <1>5, <1>6, <1>7, <1>8
<1>12. \A x \in 0 .. K : g.mem[F[x]].kind = "entry"
  <2> SUFFICES ASSUME NEW x \in 0 .. K PROVE g.mem[F[x]].kind = "entry"
    OBVIOUS
  <2>1. CASE x = K
    BY <1>2, <1>6, <2>1
  <2>2. CASE x \in 0 .. k
    <3>1. F[x] = f[x] /\ f[x] \in Addrs \ {c, n} /\ m[f[x]].kind = "entry"
      BY <1>3, <1>4, <1>5, <2>2 DEF IsList
    <3> QED
      BY <1>2, <3>1 DEF Alike
  <2> QED
    BY <1>7, <2>1, <2>2
<1>13. g.mem[cache_table_start].type = "mount"
  BY <1>1, <1>2, <1>3, <1>4, <1>6 DEF IsList, Alike
<1>14. ASSUME NEW x \in 0 .. (K - 1)
       PROVE  g.mem[F[x]].next = F[x + 1] /\ g.mem[F[x + 1]].prev = F[x]
  <2>1. CASE x = k
    <3>1. F[x] = f[k] /\ F[x + 1] = c /\ f[k] \in Addrs \ {c, n}
      BY <1>3, <1>5, <1>6, <2>1
    <3> QED
      BY <1>2, <1>4, <3>1
  <2>2. CASE x # k
    <3>1. x \in 0 .. (k - 1) /\ x \in 0 .. k /\ x + 1 \in 0 .. k
      BY <1>1, <2>2
    <3>2. m[f[x]].next = f[x + 1] /\ m[f[x + 1]].prev = f[x] /\ f[x] # f[k]
      BY <1>4, <1>6, <1>8, <2>2, <3>1 DEF IsList
    <3>3. f[x] \in Addrs \ {c, n} /\ f[x + 1] \in Addrs \ {c, n} /\ F[x] = f[x] /\ F[x + 1] = f[x + 1]
      BY <1>3, <1>5, <3>1
    <3> QED
      BY <1>2, <1>4, <3>2, <3>3
  <2> QED
    BY <2>1, <2>2
<1>15. g.mem[F[K]].next = NULL
  <2>1. c # cache_table_last
    BY <1>3, <1>4, <1>6
  <2> QED
    BY <1>2, <1>6, <2>1
<1> HIDE DEF K, F
<1>16. IsList(g.mem, g.live, cache_table_start, F, K)
  BY <1>6, <1>9, <1>10, <1>11, <1>12, <1>13, <1>14, <1>15 DEF IsList
<1>17. InList(f, k) \cup {c} \subseteq InList(F, K)
  BY <1>5, <1>6 DEF InList
<1> QED
  BY <1>6, <1>9, <1>16, <1>17 DEF Lengthened

(* Closing leaves every other open entry its node. *)
LEMMA CloseNodes ==
    ASSUME NEW m \in [Addrs -> Records], NEW l \in SUBSET Addrs, Nodes(m, l),
           NEW c \in l, m[c].kind = "entry",
           NEW g, g = fat16_sub_close_file([mem |-> m, live |-> l], c)
    PROVE  Nodes(g.mem, g.live)
<1>1. CASE m[c].type = "mount"
  <2>1. g.mem = m /\ g.live = l
    BY <1>1, CloseIs
  <2> QED
    BY <2>1
<1>2. CASE m[c].type # "mount"
  <2>1. (\A x \in Addrs : Alike(g.mem[x], m[x])) /\ g.live = l \ {c, m[c].content}
    BY <1>2, CloseIs
  <2>2. IsOpen(m, c)
    BY <1>2 DEF IsOpen
  <2>3. \A a \in g.live : a \in l /\ a # c /\ (IsOpen(g.mem, a) <=> IsOpen(m, a)) /\ g.mem[a].content = m[a].content
    BY <2>1 DEF Alike, IsOpen
  <2>4. ASSUME NEW a \in g.live, IsOpen(g.mem, a)
        PROVE  g.mem[a].content \in g.live /\ g.mem[g.mem[a].content].kind = "node"
    <3>1. m[a].content \in l /\ m[m[a].content].kind = "node" /\ m[a].content # m[c].content
      BY <2>2, <2>3, <2>4 DEF Nodes
    <3>2. m[a].content # c
      BY <3>1
    <3> QED
      BY <2>1, <2>3, <3>1, <3>2 DEF Alike
  <2>5. \A a, b \in g.live : IsOpen(g.mem, a) /\ IsOpen(g.mem, b)
                             /\ g.mem[a].content = g.mem[b].content => a = b
    BY <2>3 DEF Nodes
  <2> QED
    BY <2>4, <2>5 DEF Nodes
<1> QED
  BY <1>1, <1>2

(* Opening takes a node for the new entry that no other has. *)
LEMMA OpenNodes ==
    ASSUME NEW m \in [Addrs -> Records], NEW l \in SUBSET Addrs, Nodes(m, l),
           NEW c \in Addrs \ l, NEW n \in Addrs \ l, c # n, NEW type \in {"dir", "file"},
           cache_table_last \in Ptr,
           NEW g, g = fat16_sub_open_file([mem |-> m, live |-> l], c, n, type)
    PROVE  Nodes(g.mem, g.live)
<1>1. /\ g.live = l \cup {c, n}
      /\ \A x \in Addrs \ {c, n} : Alike(g.mem[x], m[x])
      /\ g.mem[c].kind = "entry" /\ g.mem[c].type = type /\ g.mem[c].content = n
      /\ g.mem[n].kind = "node"
  BY OpenIs
<1>2. \A a \in l : a \in Addrs \ {c, n} /\ (IsOpen(g.mem, a) <=> IsOpen(m, a)) /\ g.mem[a].content = m[a].content
  BY <1>1 DEF Alike, IsOpen
<1>3. ~ IsOpen(g.mem, n)
  BY <1>1 DEF IsOpen
<1>4. \A a \in l : IsOpen(g.mem, a) => /\ g.mem[a].content \in l /\ g.mem[a].content # n
                                       /\ g.mem[g.mem[a].content].kind = "node"
  BY <1>1, <1>2 DEF Nodes, Alike
<1>5. \A a \in g.live : IsOpen(g.mem, a) => a \in l \/ a = c
  BY <1>1, <1>3
<1>6. \A a \in g.live : IsOpen(g.mem, a) => g.mem[a].content \in g.live /\ g.mem[g.mem[a].content].kind = "node"
  BY <1>1, <1>4, <1>5
<1>7. \A a, b \in l : IsOpen(g.mem, a) /\ IsOpen(g.mem, b) /\ g.mem[a].content = g.mem[b].content => a = b
  BY <1>2 DEF Nodes
<1>8. \A a, b \in g.live : IsOpen(g.mem, a) /\ IsOpen(g.mem, b)
                           /\ g.mem[a].content = g.mem[b].content => a = b
  BY <1>1, <1>4, <1>5, <1>7
<1> QED
  BY <1>6, <1>8 DEF Nodes

-----------------------------------------------------------------------------
(* The mounts keep their chunks when only links change. *)
LEMMA HeldFrame ==
    ASSUME NEW m, NEW m2, NEW B, NEW s, NEW d, NEW d2, Held(m, B, s, d),
           \A x \in B : Alike(m2[x], m[x]), "no entry" \in d => "no entry" \in d2
    PROVE  Held(m2, B, s, d2)
<1>1. \A a \in B : m2[a].kind = m[a].kind /\ m2[a].type = m[a].type
                   /\ m2[a].content = m[a].content /\ m2[a].bpb = m[a].bpb
  BY DEF Alike
<1>2. ASSUME NEW a \in B, m2[a].kind = "entry"
      PROVE  a = s /\ m2[a].type = "mount" /\ m2[a].content \in B /\ m2[m2[a].content].kind = "mount"
  <2>1. m[a].kind = "entry"
    BY <1>1, <1>2
  <2>2. a = s /\ m[a].type = "mount" /\ m[a].content \in B /\ m[m[a].content].kind = "mount"
    BY <2>1 DEF Held, HeldEntries
  <2> QED
    BY <1>1, <2>2
<1>3. ASSUME NEW a \in B, m2[a].kind = "mount"
      PROVE  /\ m2[a].content \in B /\ m2[m2[a].content].kind = "node"
             /\ m2[a].bpb \in B /\ m2[m2[a].bpb].kind = "bpb"
  <2>1. m[a].kind = "mount"
    BY <1>1, <1>3
  <2>2. /\ m[a].content \in B /\ m[m[a].content].kind = "node"
        /\ m[a].bpb \in B /\ m[m[a].bpb].kind = "bpb"
    BY <2>1 DEF Held, HeldMounts
  <2> QED
    BY <1>1, <2>2
<1>4. \A a \in B : \/ m2[a].kind \in {"entry", "mount"}
                   \/ \E b \in B : m2[b].kind = "mount" /\ a \in {m2[b].content, m2[b].bpb}
  <2> TAKE a \in B
  <2>1. \/ m[a].kind \in {"entry", "mount"}
        \/ \E b \in B : m[b].kind = "mount" /\ a \in {m[b].content, m[b].bpb}
    BY DEF Held, HeldOwned
  <2> QED
    BY <1>1, <2>1
<1>5. ASSUME NEW a \in B, NEW b \in B, m2[a].kind = "mount", m2[b].kind = "mount",
             {m2[a].content, m2[a].bpb} \cap {m2[b].content, m2[b].bpb} # {}
      PROVE  a = b
  <2>1. m[a].kind = "mount" /\ m[b].kind = "mount"
    BY <1>1, <1>5
  <2>2. {m[a].content, m[a].bpb} \cap {m[b].content, m[b].bpb} # {}
    BY <1>1, <1>5
  <2> QED
    BY <2>1, <2>2 DEF Held, HeldApart
<1>6. ASSUME "no entry" \notin d2, NEW a \in B, m2[a].kind = "mount"
      PROVE  s \in B /\ m2[s].kind = "entry" /\ m2[s].content = a
  <2>1. m[a].kind = "mount" /\ "no entry" \notin d
    BY <1>1, <1>6
  <2>2. s \in B /\ m[s].kind = "entry" /\ m[s].content = a
    BY <2>1 DEF Held, HeldListed
  <2> QED
    BY <1>1, <2>2
<1>7. HeldEntries(m2, B, s) /\ HeldMounts(m2, B)
  BY <1>2, <1>3 DEF HeldEntries, HeldMounts
<1>8. HeldOwned(m2, B) /\ HeldApart(m2, B)
  BY <1>4, <1>5 DEF HeldOwned, HeldApart
<1>9. HeldListed(m2, B, s, d2)
  BY <1>6 DEF HeldListed
<1> QED
  BY <1>7, <1>8, <1>9 DEF Held

(* Nothing leads into the mounts' chunks when only links change. *)
LEMMA OutsideFrame ==
    ASSUME NEW m, NEW m2, NEW B, Outside(m, B), \A x \in Addrs \ B : Alike(m2[x], m[x])
    PROVE  Outside(m2, B)
  BY DEF Outside, Alike

(* Heap h, in the middle of a step: its cache is a list, complete unless the *)
(* last entry was closed.                                                    *)
ReadyList(h) ==
    "umount" \notin did =>
        /\ Nodes(h.mem, h.live)
        /\ \E k \in Nat : \E f \in [0 .. k -> h.live] :
              /\ ListHeap(h.mem, h.live, f, k)
              /\ "closed last" \notin did /\ cache_table_last \notin live \ h.live =>
                    AllListed(h.mem, h.live, f, k)

(* Its chunks in use are those of the mounts. *)
ReadyHeld(h) ==
    "entry left" \notin did =>
        Held(h.mem, h.live, cache_table_start, did) /\ Outside(h.mem, h.live)

(* The types of such a heap. *)
IsHeap(h) ==
    h = [mem |-> h.mem, live |-> h.live] /\ h.mem \in [Addrs -> Records] /\ h.live \subseteq live

(* The heap a walk begins with. *)
LEMMA WalkHeap ==
    ASSUME OpenInv, Walking
    PROVE  /\ IsHeap(Heap) /\ ReadyList(Heap) /\ stage # "wild" /\ cache_table_start # NULL
           /\ cur \in Ptr /\ Heap.mem = mem /\ Heap.live = live
           /\ ~ HasOpened => ReadyHeld(Heap)
<1>1. Heap.mem = mem /\ Heap.live = live /\ Heap = [mem |-> mem, live |-> live]
  BY DEF Heap
<1>2. stage # "wild" /\ cache_table_start # NULL /\ cur \in Ptr
  BY DEF OpenInv, Walking, Beginning, OpenTypes
<1>3. IsHeap(Heap)
  BY <1>1 DEF IsHeap, OpenInv, OpenTypes
<1>4. ReadyList(Heap)
  BY <1>1, <1>2 DEF OpenInv, Listing, ListState, ReadyList
<1>5. ASSUME ~ HasOpened PROVE ReadyHeld(Heap)
  <2>1. live \ Opened = live
    BY <1>5 DEF Opened
  <2> QED
    BY <1>1, <1>2, <2>1 DEF OpenInv, Owning, ReadyHeld
<1> QED
  BY <1>1, <1>2, <1>3, <1>4, <1>5

(* The heap that closing the entry a walk is at leaves. *)
LEMMA ClosedHeap ==
    ASSUME OpenInv, Walking, AtEntry, NEW g, g = fat16_sub_close_file(Heap, cur)
    PROVE  IsHeap(g) /\ ReadyList(g) /\ ReadyHeld(g)
<1>1. /\ mem \in [Addrs -> Records] /\ live \in SUBSET Addrs /\ NULL \notin Addrs
      /\ stage # "wild" /\ cache_table_start # NULL
  BY WalkHeap, OpenFilesAssumption DEF OpenInv, OpenTypes
<1>2. ASSUME NEW c \in Addrs, c = cur
      PROVE  /\ IsHeap(g) /\ (\A x \in Addrs : Alike(g.mem[x], mem[x]))
             /\ mem[c].type = "mount" => g.mem = mem /\ g.live = live
             /\ mem[c].type # "mount" => g.live = live \ {c, mem[c].content}
  <2>1. g = fat16_sub_close_file([mem |-> mem, live |-> live], c)
    BY <1>2 DEF Heap
  <2>2. /\ mem[c].type = "mount" => g = [mem |-> mem, live |-> live]
        /\ g = [mem |-> g.mem, live |-> g.live] /\ g.mem \in [Addrs -> Records]
        /\ \A x \in Addrs : Alike(g.mem[x], mem[x])
        /\ mem[c].type # "mount" => g.live = live \ {c, mem[c].content}
    BY <1>1, <2>1, CloseIs
  <2>3. mem[c].type = "mount" => g.mem = mem /\ g.live = live
    BY <2>2
  <2>4. g.live \subseteq live
    BY <2>2, <2>3
  <2> QED
    BY <2>2, <2>3, <2>4 DEF IsHeap
<1>3. ReadyList(g)
  <2> SUFFICES ASSUME "umount" \notin did
               PROVE  /\ Nodes(g.mem, g.live)
                      /\ \E k \in Nat : \E f \in [0 .. k -> g.live] :
                            /\ ListHeap(g.mem, g.live, f, k)
                            /\ "closed last" \notin did /\ cache_table_last \notin live \ g.live =>
                                  AllListed(g.mem, g.live, f, k)
    BY DEF ReadyList
  <2>1. Nodes(mem, live)
    BY <1>1 DEF OpenInv, Listing
  <2>2. PICK k \in Nat : \E f \in [0 .. k -> live] : ListState(f, k)
    BY <1>1 DEF OpenInv, Listing
  <2>3. PICK f \in [0 .. k -> live] : ListState(f, k)
    BY <2>2
  <2>4. /\ IsList(mem, live, cache_table_start, f, k)
        /\ cache_table_last \in InList(f, k) => cache_table_last = f[k]
        /\ "closed last" \notin did => AllListed(mem, live, f, k)
        /\ cur \in live /\ mem[cur].kind = "entry" /\ (cur = f[k] \/ Clear(mem, f, k, cur))
    BY <2>3 DEF ListState, ListHeap
  <2>5. PICK c \in live : c = cur
    BY <2>4
  <2>6. g = fat16_sub_close_file([mem |-> mem, live |-> live], c)
    BY <2>5 DEF Heap
  <2>7. Nodes(g.mem, g.live)
    BY <1>1, <2>1, <2>4, <2>5, <2>6, CloseNodes
  <2>8. /\ c \in Addrs /\ g.live \subseteq live /\ (\A x \in Addrs : Alike(g.mem[x], mem[x]))
        /\ mem[c].type = "mount" => g.mem = mem /\ g.live = live
    BY <1>1, <1>2, <2>5 DEF IsHeap
  <2>9. IsList(mem, live, cache_table_start, f, k) /\ mem[c].kind = "entry"
        /\ mem \in [Addrs -> Records] /\ live \in SUBSET Addrs
    BY <1>1, <2>4, <2>5
  <2>10. ASSUME IsList(g.mem, g.live, cache_table_start, f, k)
         PROVE  \E K \in Nat : \E F \in [0 .. K -> g.live] :
                  /\ ListHeap(g.mem, g.live, F, K)
                  /\ "closed last" \notin did => AllListed(g.mem, g.live, F, K)
    <3>1. f \in [0 .. k -> g.live] /\ ListHeap(g.mem, g.live, f, k)
      BY <2>4, <2>10 DEF ListHeap, IsList
    <3>2. {a \in g.live : g.mem[a].kind = "entry"} \subseteq {a \in live : mem[a].kind = "entry"}
      BY <1>1, <2>8 DEF Alike
    <3>3. "closed last" \notin did => AllListed(g.mem, g.live, f, k)
      BY <2>4, <3>2 DEF AllListed
    <3> QED
      BY <3>1, <3>3
  <2>11. CASE mem[c].type = "mount"
    BY <2>7, <2>8, <2>9, <2>10, <2>11
  <2>12. CASE mem[c].type # "mount" /\ Clear(mem, f, k, c)
    <3>1. IsOpen(mem, c)
      BY <2>9, <2>12 DEF IsOpen
    <3>2. IsList(g.mem, g.live, cache_table_start, f, k)
      BY <2>1, <2>5, <2>6, <2>9, <2>12, <3>1, CloseClear
    <3> QED
      BY <2>7, <2>10, <3>2
  <2>13. CASE mem[c].type # "mount" /\ c = f[k]
    <3>1. IsOpen(mem, f[k]) /\ g = fat16_sub_close_file([mem |-> mem, live |-> live], f[k])
      BY <2>6, <2>9, <2>13 DEF IsOpen
    <3>2. /\ k > 0 /\ f[k] \notin g.live
          /\ \E F \in [0 .. (k - 1) -> g.live] :
                /\ IsList(g.mem, g.live, cache_table_start, F, k - 1)
                /\ InList(F, k - 1) \subseteq InList(f, k)
      BY <2>1, <2>9, <3>1, CloseEnd
    <3>3. PICK K \in Nat : K = k - 1
      BY <3>2
    <3>4. PICK F \in [0 .. K -> g.live] :
            IsList(g.mem, g.live, cache_table_start, F, K) /\ InList(F, K) \subseteq InList(f, k)
      BY <3>2, <3>3
    <3>5. InList(F, K) \subseteq g.live
      BY DEF InList
    <3>6. cache_table_last \notin InList(F, K)
      BY <2>4, <2>13, <3>2, <3>4, <3>5
    <3>7. ListHeap(g.mem, g.live, F, K)
      BY <3>4, <3>6 DEF ListHeap
    <3>8. "closed last" \notin did => cache_table_last \in live \ g.live
      BY <2>4, <2>5, <2>13, <3>2 DEF AllListed
    <3> QED
      BY <2>7, <3>7, <3>8
  <2> QED
    BY <2>4, <2>5, <2>11, <2>12, <2>13
<1>4. ASSUME "entry left" \notin did
      PROVE  Held(g.mem, g.live, cache_table_start, did) /\ Outside(g.mem, g.live)
  <2>0. cur \in Addrs
    BY DEF OpenInv, OpenTypes
  <2>1. /\ cur \in Addrs /\ Held(mem, live \ Opened, cache_table_start, did)
        /\ Outside(mem, live \ Opened)
        /\ HasOpened => /\ cur \in live /\ IsOpen(mem, cur)
                        /\ mem[cur].content \in live /\ mem[mem[cur].content].kind = "node"
    BY <1>1, <1>4, <2>0 DEF OpenInv, Owning
  <2>2. \A x \in Addrs : Alike(g.mem[x], mem[x])
    BY <1>2, <2>1
  <2>3. g.live = live \ Opened
    <3>1. CASE HasOpened
      <4>1. mem[cur].type # "mount" /\ Opened = {cur, mem[cur].content}
        BY <2>1, <3>1 DEF IsOpen, Opened
      <4> QED
        BY <1>2, <2>1, <4>1
    <3>2. CASE ~ HasOpened
      <4>1. live \ Opened = live
        BY <3>2 DEF Opened
      <4>2. CASE mem[cur].type = "mount"
        BY <1>2, <2>1, <4>1, <4>2
      <4>3. CASE mem[cur].type # "mount"
        <5>1. mem[cur].kind = "entry"
          BY DEF AtEntry
        <5>2. cur \notin live
          BY <2>1, <4>1, <4>3, <5>1 DEF Held, HeldEntries
        <5>3. mem[cur].content \notin live
          BY <2>1, <4>1, <5>1, <5>2 DEF Outside
        <5>4. g.live = live \ {cur, mem[cur].content}
          BY <1>2, <2>1, <4>3
        <5> QED
          BY <4>1, <5>2, <5>3, <5>4
      <4> QED
        BY <4>2, <4>3
    <3> QED
      BY <3>1, <3>2
  <2>4. g.live \subseteq Addrs
    BY <1>1, <2>3
  <2>5. Held(g.mem, g.live, cache_table_start, did)
    BY <2>1, <2>2, <2>3, <2>4, HeldFrame
  <2>6. Outside(g.mem, g.live)
    BY <2>1, <2>2, <2>3, OutsideFrame
  <2> QED
    BY <2>5, <2>6
<1>5. IsHeap(g)
  <2>1. cur \in Addrs
    BY DEF OpenInv, OpenTypes
  <2> QED
    BY <1>2, <2>1
<1> QED
  BY <1>3, <1>4, <1>5 DEF ReadyHeld

-----------------------------------------------------------------------------
(* The step that opens the next directory of a walk. *)
LEMMA EnterKeeps ==
    ASSUME OpenInv, Walking, NEW h, IsHeap(h), ReadyList(h), ReadyHeld(h),
           NEW type \in {"dir", "file"}, NEW fst \in BOOLEAN, NEW then \in {"search", "create"},
           ~ fst \/ then = "create", Enter(h, type, fst, then)
    PROVE  OpenInv'
<1>1. stage # "wild" /\ cache_table_start # NULL /\ cache_table_last \in Ptr /\ live \subseteq Addrs
  BY WalkHeap DEF OpenInv, OpenTypes
<1>2. PICK c \in Addrs \ h.live, n \in Addrs \ h.live :
        /\ c # n /\ SetHeap(fat16_sub_open_file(h, c, n, type))
        /\ cache_table_last' = c /\ cur' = c
  BY DEF Enter
<1>3. /\ is_first' = fst /\ stage' = then /\ cache_table_start' = cache_table_start
      /\ mount_table_start' = mount_table_start /\ mount_table_last' = mount_table_last
      /\ did' = did \cup (IF cache_table_last \in live \ h.live THEN {"closed last"} ELSE {})
  BY DEF Enter, Note, mounts
<1>4. PICK m \in [Addrs -> Records], l \in SUBSET Addrs : m = h.mem /\ l = h.live /\ h = [mem |-> m, live |-> l]
  BY <1>1 DEF IsHeap
<1>5. PICK g : g = fat16_sub_open_file([mem |-> m, live |-> l], c, n, type)
  OBVIOUS
<1>6. mem' = g.mem /\ live' = g.live
  BY <1>2, <1>4, <1>5 DEF SetHeap
<1>7. c \in Addrs \ l /\ n \in Addrs \ l /\ c \in Addrs /\ n \in Addrs /\ c # n
  BY <1>2, <1>4
<1>8. /\ g.mem \in [Addrs -> Records] /\ g.live = l \cup {c, n}
      /\ g.mem[c].kind = "entry" /\ g.mem[c].type = type /\ g.mem[c].content = n
      /\ g.mem[n].kind = "node"
  BY <1>1, <1>5, <1>7, OpenIs
<1>9. \A x \in Addrs \ {c, n} : Alike(g.mem[x], m[x])
  BY <1>1, <1>5, <1>7, OpenIs
<1>10. Walking' /\ HasOpened' /\ stage' # "wild"
  BY <1>3 DEF Walking, HasOpened
<1>11. OpenTypes'
  <2>1. c \in Ptr /\ cache_table_start \in Ptr /\ mount_table_start \in Ptr /\ mount_table_last \in Ptr
    BY <1>7 DEF OpenInv, OpenTypes, Ptr
  <2>2. live' \subseteq Addrs
    BY <1>6, <1>7, <1>8
  <2>3. stage' \in {"idle", "search", "create", "wild"}
    BY <1>3
  <2> QED
    BY <1>2, <1>3, <1>6, <1>7, <1>8, <2>1, <2>2, <2>3 DEF OpenTypes
<1>12. Beginning'
  BY <1>1, <1>3 DEF Beginning
<1>13. Listing'
  <2> SUFFICES ASSUME "umount" \notin did'
               PROVE  /\ Nodes(g.mem, g.live)
                      /\ \E k \in Nat : \E f \in [0 .. k -> g.live] : ListState(f, k)'
    BY <1>6 DEF Listing
  <2>1. /\ "umount" \notin did
        /\ "closed last" \notin did' => "closed last" \notin did /\ cache_table_last \notin live \ h.live
    BY <1>3
  <2>2. Nodes(m, l) /\ \E k \in Nat : \E f \in [0 .. k -> l] :
              /\ ListHeap(m, l, f, k)
              /\ "closed last" \notin did' => AllListed(m, l, f, k)
    BY <1>4, <2>1 DEF ReadyList
  <2>3. PICK k \in Nat : \E f \in [0 .. k -> l] :
              ListHeap(m, l, f, k) /\ ("closed last" \notin did' => AllListed(m, l, f, k))
    BY <2>2
  <2>4. PICK f \in [0 .. k -> l] :
              ListHeap(m, l, f, k) /\ ("closed last" \notin did' => AllListed(m, l, f, k))
    BY <2>3
  <2>5. Nodes(g.mem, g.live)
    BY <1>1, <1>5, <1>7, <2>2, OpenNodes
  <2>6. {a \in g.live : g.mem[a].kind = "entry"} \subseteq {a \in l : m[a].kind = "entry"} \cup {c}
    BY <1>7, <1>8, <1>9 DEF Alike
  <2>7. IsList(m, l, cache_table_start, f, k)
    BY <2>4 DEF ListHeap
  <2>9. CASE cache_table_last \notin InList(f, k)
    <3>0. IsList(g.mem, g.live, cache_table_start, f, k) /\ Clear(g.mem, f, k, c)
      BY <1>1, <1>5, <1>7, <2>7, <2>9, OpenClear
    <3>1. "closed last" \in did'
      <4>1. k \in 0 .. k /\ f[k] \in InList(f, k)
        BY DEF InList
      <4> QED
        BY <2>4, <2>9, <4>1 DEF AllListed
    <3>2. f \in [0 .. k -> g.live] /\ c \notin InList(f, k)
      BY <3>0 DEF IsList, Clear
    <3>3. ListHeap(mem, live, f, k)'
      BY <1>2, <1>3, <1>6, <3>0, <3>2 DEF ListHeap
    <3>4. cur' \in live' /\ mem'[cur'].kind = "entry" /\ Clear(mem, f, k, cur)'
      BY <1>2, <1>6, <1>8, <3>0
    <3>5. ListState(f, k)'
      BY <3>1, <3>3, <3>4 DEF ListState
    <3> QED
      BY <2>5, <3>2, <3>5
  <2>10. CASE cache_table_last \in InList(f, k)
    <3>1. Lengthened(g.mem, g.live, f, k, c)
      BY <1>1, <1>5, <1>7, <2>4, <2>10, OpenEnd
    <3>2. PICK K \in Nat : \E F \in [0 .. K -> g.live] :
              /\ IsList(g.mem, g.live, cache_table_start, F, K) /\ F[K] = c
              /\ InList(f, k) \cup {c} \subseteq InList(F, K)
      BY <3>1 DEF Lengthened
    <3>3. PICK F \in [0 .. K -> g.live] :
              /\ IsList(g.mem, g.live, cache_table_start, F, K) /\ F[K] = c
              /\ InList(f, k) \cup {c} \subseteq InList(F, K)
      BY <3>2
    <3>4. ListHeap(mem, live, F, K)'
      BY <1>2, <1>3, <1>6, <3>3 DEF ListHeap
    <3>6. ("closed last" \notin did => AllListed(mem, live, F, K))'
      <4> SUFFICES ASSUME "closed last" \notin did' PROVE AllListed(mem, live, F, K)'
        OBVIOUS
      <4>1. {a \in l : m[a].kind = "entry"} \subseteq InList(f, k)
        BY <2>4 DEF AllListed
      <4>2. {a \in g.live : g.mem[a].kind = "entry"} \subseteq InList(F, K)
        BY <2>6, <3>3, <4>1
      <4> QED
        BY <1>2, <1>6, <3>3, <4>2 DEF AllListed
    <3>7. cur' \in live' /\ mem'[cur'].kind = "entry" /\ cur' = F[K]
      BY <1>2, <1>6, <1>8, <3>3
    <3>8. ListState(F, K)'
      BY <3>4, <3>6, <3>7 DEF ListState
    <3> QED
      BY <2>5, <3>3, <3>8
  <2> QED
    BY <2>9, <2>10
<1>14. Owning'
  <2> SUFFICES ASSUME "entry left" \notin did'
               PROVE  /\ cur' \in live' /\ IsOpen(mem, cur)'
                      /\ mem'[cur'].content \in live' /\ mem'[mem'[cur'].content].kind = "node"
                      /\ Held(mem, live \ Opened, cache_table_start, did)'
                      /\ Outside(mem, live \ Opened)'
    BY DEF Owning
  <2>1. "entry left" \notin did /\ ("no entry" \in did => "no entry" \in did')
    BY <1>3
  <2>2. Held(m, l, cache_table_start, did) /\ Outside(m, l)
    BY <1>4, <2>1 DEF ReadyHeld
  <2>3. (live \ Opened)' = l
    <3>1. Opened' = {c, n}
      BY <1>2, <1>6, <1>8, <1>10 DEF Opened
    <3> QED
      BY <1>6, <1>7, <1>8, <3>1
  <2>4. \A x \in l : Alike(g.mem[x], m[x])
    BY <1>7, <1>9
  <2>5. Held(g.mem, l, cache_table_start, did')
    BY <2>1, <2>2, <2>4, HeldFrame
  <2>6. Outside(g.mem, l)
    <3> SUFFICES ASSUME NEW a \in Addrs \ l
                 PROVE  /\ g.mem[a].kind = "entry" => g.mem[a].content \notin l
                        /\ g.mem[a].kind = "mount" => g.mem[a].content \notin l /\ g.mem[a].bpb \notin l
      BY DEF Outside
    <3>1. CASE a \in {c, n}
      BY <1>7, <1>8, <3>1
    <3>2. CASE a \notin {c, n}
      BY <1>9, <2>2, <3>2 DEF Outside, Alike
    <3> QED
      BY <3>1, <3>2
  <2>7. Held(mem, live \ Opened, cache_table_start, did)' /\ Outside(mem, live \ Opened)'
    BY <1>3, <1>6, <2>3, <2>5, <2>6
  <2> QED
    BY <1>2, <1>6, <1>8, <2>7 DEF IsOpen
<1> QED
  BY <1>11, <1>12, <1>13, <1>14 DEF OpenInv

(* The step that ends a walk. *)
LEMMA ExitKeeps ==
    ASSUME OpenInv, Walking, NEW h, IsHeap(h), ReadyList(h), NEW more,
           "entry left" \in more \/ ReadyHeld(h), "umount" \notin more, "no entry" \notin more,
           SetHeap(h), Note(h, more), stage' = "idle", cur' = NULL, is_first' = TRUE,
           UNCHANGED <<cache_table_start, cache_table_last, mounts>>
    PROVE  OpenInv'
<1>1. /\ stage # "wild" /\ cache_table_start # NULL /\ live \subseteq Addrs
      /\ cache_table_start \in Ptr /\ cache_table_last \in Ptr
      /\ mount_table_start \in Ptr /\ mount_table_last \in Ptr
  BY WalkHeap DEF OpenInv, OpenTypes
<1>2. /\ cache_table_start' = cache_table_start /\ cache_table_last' = cache_table_last
      /\ mount_table_start' = mount_table_start /\ mount_table_last' = mount_table_last
      /\ mem' = h.mem /\ live' = h.live
      /\ did' = did \cup more \cup (IF cache_table_last \in live \ h.live THEN {"closed last"} ELSE {})
  BY DEF SetHeap, Note, mounts
<1>3. ~ Walking' /\ ~ HasOpened' /\ Opened' = {}
  BY DEF Walking, HasOpened, Opened
<1>4. OpenTypes'
  BY <1>1, <1>2, <1>3 DEF OpenTypes, IsHeap, Ptr
<1>5. Beginning'
  BY <1>1, <1>2 DEF Beginning
<1>6. Listing'
  <2> SUFFICES ASSUME "umount" \notin did'
               PROVE  /\ Nodes(h.mem, h.live)
                      /\ \E k \in Nat : \E f \in [0 .. k -> h.live] : ListState(f, k)'
    BY <1>2 DEF Listing
  <2>1. /\ "umount" \notin did
        /\ "closed last" \notin did' => "closed last" \notin did /\ cache_table_last \notin live \ h.live
    BY <1>2
  <2>2. Nodes(h.mem, h.live) /\ \E k \in Nat : \E f \in [0 .. k -> h.live] :
              /\ ListHeap(h.mem, h.live, f, k)
              /\ "closed last" \notin did' => AllListed(h.mem, h.live, f, k)
    BY <2>1 DEF ReadyList
  <2>3. ASSUME NEW k \in Nat, NEW f \in [0 .. k -> h.live], ListHeap(h.mem, h.live, f, k),
               "closed last" \notin did' => AllListed(h.mem, h.live, f, k)
        PROVE  ListState(f, k)'
    BY <1>2, <1>3, <2>3 DEF ListState, ListHeap, AllListed
  <2> QED
    BY <2>2, <2>3
<1>7. Owning'
  <2> SUFFICES ASSUME "entry left" \notin did'
               PROVE  /\ Held(mem, live \ Opened, cache_table_start, did)'
                      /\ Outside(mem, live \ Opened)'
    BY <1>3 DEF Owning
  <2>1. "entry left" \notin did /\ ReadyHeld(h) /\ ("no entry" \in did => "no entry" \in did')
    BY <1>2
  <2>2. Held(h.mem, h.live, cache_table_start, did) /\ Outside(h.mem, h.live)
    BY <2>1 DEF ReadyHeld
  <2>3. Held(h.mem, h.live, cache_table_start, did')
    <3>1. \A x \in h.live : Alike(h.mem[x], h.mem[x])
      BY DEF Alike
    <3> QED
      BY <2>1, <2>2, <3>1, HeldFrame
  <2>4. (live \ Opened)' = h.live
    BY <1>2, <1>3
  <2> QED
    BY <1>2, <2>2, <2>3, <2>4
<1> QED
  BY <1>4, <1>5, <1>6, <1>7 DEF OpenInv

-----------------------------------------------------------------------------
(* The steps, one by one.  A step that ends the behaviour promises nothing   *)
(* further.                                                                  *)
LEMMA WildKeeps ==
    ASSUME OpenInv, Wild
    PROVE  OpenInv'
<1>1. stage' = "wild" /\ ~ Walking'
  BY DEF Wild, Walking
<1>2. OpenTypes'
  BY <1>1 DEF OpenInv, OpenTypes, Wild, mounts, walk
<1> QED
  BY <1>1, <1>2 DEF OpenInv, Beginning, Listing, Owning

(* A step that changes nothing but the count of calls. *)
LEMMA SameKeeps ==
    ASSUME OpenInv,
           UNCHANGED <<mem, live, cache_table_start, cache_table_last, mounts, walk, stage, did>>
    PROVE  OpenInv'
<1>1. /\ mem' = mem /\ live' = live /\ cache_table_start' = cache_table_start
      /\ cache_table_last' = cache_table_last /\ mount_table_start' = mount_table_start
      /\ mount_table_last' = mount_table_last /\ cur' = cur /\ is_first' = is_first
      /\ stage' = stage /\ did' = did
  BY DEF mounts, walk
<1>2. (Walking' <=> Walking) /\ (HasOpened' <=> HasOpened) /\ Opened' = Opened
  BY <1>1 DEF Walking, HasOpened, Opened
<1>3. OpenTypes' /\ Beginning'
  BY <1>1, <1>2 DEF OpenInv, OpenTypes, Beginning
<1>4. ASSUME NEW f, NEW k, ListState(f, k)
      PROVE  ListState(f, k)'
  BY <1>1, <1>2, <1>4 DEF ListState, ListHeap, AllListed
<1>5. Listing'
  BY <1>1, <1>4 DEF OpenInv, Listing
<1>6. Owning'
  BY <1>1, <1>2 DEF OpenInv, Owning
<1> QED
  BY <1>3, <1>5, <1>6 DEF OpenInv

(* Freeing what the stack holds: no chunk in use was among it, or that ends  *)
(* the behaviour.                                                            *)
LEMMA FreeUnsetKeeps ==
    ASSUME OpenInv, NEW garbage, FreeUnset(garbage)
    PROVE  OpenInv'
<1>1. CASE live' = live
  <2>1. UNCHANGED <<mem, live, cache_table_start, cache_table_last, mounts, walk, stage, did>>
    BY <1>1 DEF FreeUnset
  <2> QED
    BY <2>1, SameKeeps
<1>2. CASE live' # live
  <2>1. /\ stage' = "wild" /\ ~ Walking' /\ live' \subseteq live
    BY <1>2 DEF FreeUnset, Walking
  <2>2. OpenTypes'
    BY <2>1 DEF OpenInv, OpenTypes, FreeUnset, mounts, walk
  <2> QED
    BY <2>1, <2>2 DEF OpenInv, Beginning, Listing, Owning
<1> QED
  BY <1>1, <1>2

(* Other code uses a free chunk. *)
LEMMA OtherUseKeeps ==
    ASSUME OpenInv, NEW a \in Addrs, OtherUse(a)
    PROVE  OpenInv'
<1>1. /\ live' = live /\ cache_table_start' = cache_table_start
      /\ cache_table_last' = cache_table_last /\ mount_table_start' = mount_table_start
      /\ mount_table_last' = mount_table_last /\ cur' = cur /\ is_first' = is_first
      /\ stage' = stage /\ did' = did /\ a \notin live /\ stage # "wild"
  BY DEF OtherUse, mounts, walk
<1>2. mem \in [Addrs -> Records] /\ live \subseteq Addrs /\ Blank \in Records /\ Blank.kind = "none"
  BY DEF OpenInv, OpenTypes, Records, Blank, Ptr
<1>3. mem' \in [Addrs -> Records] /\ mem'[a].kind = "none" /\ \A x \in Addrs \ {a} : mem'[x] = mem[x]
  BY <1>2 DEF OtherUse
<1>4. \A x \in live : mem'[x] = mem[x] /\ x \in Addrs
  BY <1>1, <1>2, <1>3
<1>5. (Walking' <=> Walking) /\ (HasOpened' <=> HasOpened)
  BY <1>1 DEF Walking, HasOpened
<1>6. OpenTypes'
  BY <1>1, <1>3, <1>5 DEF OpenInv, OpenTypes
<1>7. Beginning'
  BY <1>1, <1>3 DEF OpenInv, Beginning
<1>8. Listing'
  <2> SUFFICES ASSUME "umount" \notin did, cache_table_start # NULL
               PROVE  /\ Nodes(mem', live)
                      /\ \E k \in Nat : \E f \in [0 .. k -> live] : ListState(f, k)'
    BY <1>1 DEF Listing
  <2>1. Nodes(mem, live) /\ \E k \in Nat : \E f \in [0 .. k -> live] : ListState(f, k)
    BY <1>1 DEF OpenInv, Listing
  <2>2. Nodes(mem', live)
    BY <1>4, <2>1 DEF Nodes, IsOpen
  <2>3. ASSUME NEW k \in Nat, NEW f \in [0 .. k -> live], ListState(f, k)
        PROVE  ListState(f, k)'
    <3>1. IsList(mem, live, cache_table_start, f, k)
      BY <2>3 DEF ListState, ListHeap
    <3>2. \A x \in InList(f, k) : x \in live /\ mem'[x] = mem[x]
      BY <1>4 DEF InList
    <3>3. \A x \in InList(f, k) : /\ x \in live /\ Alike(mem'[x], mem[x])
                                  /\ mem'[x].next = mem[x].next /\ mem'[x].prev = mem[x].prev
      BY <3>2 DEF Alike
    <3>4. IsList(mem', live, cache_table_start, f, k)
      BY <3>1, <3>3, ListFrame
    <3>5. ListHeap(mem, live, f, k)'
      BY <1>1, <2>3, <3>4 DEF ListState, ListHeap
    <3>6. ("closed last" \notin did => AllListed(mem, live, f, k))'
      BY <1>1, <1>4, <2>3 DEF ListState, AllListed
    <3>7. ASSUME Walking'
          PROVE  /\ cur' \in live' /\ mem'[cur'].kind = "entry"
                 /\ cur' = f[k] \/ Clear(mem, f, k, cur)'
      <4>1. /\ cur \in live /\ mem[cur].kind = "entry"
            /\ cur = f[k] \/ Clear(mem, f, k, cur)
        BY <1>5, <2>3, <3>7 DEF ListState
      <4> QED
        BY <1>1, <1>4, <4>1 DEF Clear
    <3> QED
      BY <3>5, <3>6, <3>7 DEF ListState
  <2> QED
    BY <2>1, <2>2, <2>3
<1>9. Owning'
  <2> SUFFICES ASSUME "entry left" \notin did
               PROVE  /\ HasOpened => /\ cur \in live /\ IsOpen(mem', cur)
                                      /\ mem'[cur].content \in live /\ mem'[mem'[cur].content].kind = "node"
                      /\ Held(mem', live \ Opened', cache_table_start, did)
                      /\ Outside(mem', live \ Opened')
    BY <1>1, <1>5 DEF Owning
  <2>1. /\ HasOpened => /\ cur \in live /\ IsOpen(mem, cur)
                        /\ mem[cur].content \in live /\ mem[mem[cur].content].kind = "node"
        /\ Held(mem, live \ Opened, cache_table_start, did)
        /\ Outside(mem, live \ Opened)
    BY <1>1 DEF OpenInv, Owning
  <2>2. HasOpened => /\ cur \in live /\ IsOpen(mem', cur)
                     /\ mem'[cur].content \in live /\ mem'[mem'[cur].content].kind = "node"
    BY <1>4, <2>1 DEF IsOpen
  <2>3. Opened' = Opened
    BY <1>1, <1>4, <1>5, <2>1 DEF Opened
  <2>4. PICK B : B = live \ Opened
    OBVIOUS
  <2>5. \A x \in B : Alike(mem'[x], mem[x])
    BY <1>4, <2>4 DEF Alike
  <2>6. Held(mem', B, cache_table_start, did)
    BY <2>1, <2>4, <2>5, HeldFrame
  <2>7. Outside(mem', B)
    BY <1>3, <2>1, <2>4 DEF Outside
  <2> QED
    BY <2>2, <2>3, <2>4, <2>6, <2>7
<1> QED
  BY <1>6, <1>7, <1>8, <1>9 DEF OpenInv

(* What create_file_fat16 begins with: the last entry of the cache. *)
LEMMA CreateKeeps ==
    ASSUME OpenInv, create_file_fat16
    PROVE  OpenInv'
<1>1. CASE Wild
  BY <1>1, WildKeeps
<1>2. CASE /\ cache_table_start # NULL /\ ListEnds
           /\ LET c == get_last_open
              IN  IF mem[c].type = "file" THEN UNCHANGED <<stage, walk>>
                  ELSE stage' = "search" /\ cur' = c /\ is_first' = TRUE /\ depth' = 0
           /\ UNCHANGED <<mem, live, cache_table_start, cache_table_last, mounts, did>>
  <2>1. PICK c : c = is_present_in_cache_table
    OBVIOUS
  <2>2. c \in Addrs /\ c \in Ptr
    BY <1>2, <2>1, LookupIs DEF OpenInv, Ptr
  <2>3. \/ UNCHANGED <<stage, walk>>
        \/ stage' = "search" /\ cur' = c /\ is_first' = TRUE
    BY <1>2, <2>1 DEF get_last_open
  <2>4. CASE UNCHANGED <<stage, walk>>
    BY <1>2, <2>4, SameKeeps
  <2>5. CASE stage' = "search" /\ cur' = c /\ is_first' = TRUE
    <3>1. /\ mem' = mem /\ live' = live /\ cache_table_start' = cache_table_start
          /\ cache_table_last' = cache_table_last /\ mount_table_start' = mount_table_start
          /\ mount_table_last' = mount_table_last /\ did' = did /\ stage = "idle"
      BY <1>2 DEF mounts, create_file_fat16, Call
    <3>2. Walking' /\ ~ HasOpened' /\ Opened' = {} /\ Opened = {} /\ ~ HasOpened /\ stage' # "wild"
      BY <2>5, <3>1 DEF Walking, HasOpened, Opened
    <3>3. OpenTypes' /\ Beginning'
      BY <1>2, <2>2, <2>5, <3>1, <3>2 DEF OpenInv, OpenTypes, Beginning
    <3>4. Listing'
      <4> SUFFICES ASSUME "umount" \notin did
                   PROVE  /\ Nodes(mem, live)
                          /\ \E k \in Nat : \E f \in [0 .. k -> live] : ListState(f, k)'
        BY <3>1 DEF Listing
      <4>1. Nodes(mem, live) /\ \E k \in Nat : \E f \in [0 .. k -> live] : ListState(f, k)
        BY <1>2, <3>1 DEF OpenInv, Listing
      <4>2. ASSUME NEW k \in Nat, NEW f \in [0 .. k -> live], ListState(f, k)
            PROVE  ListState(f, k)'
        <5>1. IsList(mem, live, cache_table_start, f, k)
          BY <4>2 DEF ListState, ListHeap
        <5>2. OpenTypes
          BY DEF OpenInv
        <5>3. is_present_in_cache_table = f[k]
          BY <4>2, <5>1, <5>2, ListSeen
        <5>4. f[k] \in live /\ mem[f[k]].kind = "entry"
          BY <5>1 DEF IsList
        <5> QED
          BY <2>1, <2>5, <3>1, <4>2, <5>3, <5>4 DEF ListState, ListHeap, AllListed
      <4> QED
        BY <4>1, <4>2
    <3>5. Owning'
      BY <3>1, <3>2 DEF OpenInv, Owning
    <3> QED
      BY <3>3, <3>4, <3>5 DEF OpenInv
  <2> QED
    BY <2>3, <2>4, <2>5
<1> QED
  BY <1>1, <1>2 DEF create_file_fat16

(* The next directory is opened. *)
LEMMA EnterExistingKeeps ==
    ASSUME OpenInv, EnterExisting
    PROVE  OpenInv'
<1>1. Walking /\ AtEntry /\ stage = "search" /\ is_first \in BOOLEAN
  BY DEF EnterExisting, OpenInv, OpenTypes
<1>2. PICK h : h = IF is_first THEN Heap ELSE fat16_sub_close_file(Heap, cur)
  OBVIOUS
<1>3. Enter(h, "dir", FALSE, "search")
  BY <1>2 DEF EnterExisting
<1>4. IsHeap(h) /\ ReadyList(h) /\ ReadyHeld(h)
  <2>1. CASE is_first
    <3>1. ~ HasOpened /\ h = Heap
      BY <1>1, <1>2, <2>1 DEF HasOpened
    <3> QED
      BY <1>1, <3>1, WalkHeap
  <2>2. CASE ~ is_first
    BY <1>1, <1>2, <2>2, ClosedHeap
  <2> QED
    BY <2>1, <2>2
<1> QED
  BY <1>1, <1>3, <1>4, EnterKeeps

(* The next directory is made and opened. *)
LEMMA EnterCreatedKeeps ==
    ASSUME OpenInv, EnterCreated
    PROVE  OpenInv'
<1>1. Walking /\ AtEntry /\ is_first \in BOOLEAN
  BY DEF EnterCreated, OpenInv, OpenTypes
<1>2. PICK h : h = fat16_sub_close_file(Heap, cur)
  OBVIOUS
<1>3. PICK type \in {"dir", "file"} : Enter(h, type, is_first, "create")
  BY <1>2 DEF EnterCreated
<1>4. IsHeap(h) /\ ReadyList(h) /\ ReadyHeld(h)
  BY <1>1, <1>2, ClosedHeap
<1> QED
  BY <1>1, <1>3, <1>4, EnterKeeps

(* The last name is made: closing its directory twice is closing it once. *)
LEMMA CreateLastKeeps ==
    ASSUME OpenInv, CreateLast
    PROVE  OpenInv'
<1>1. Walking /\ AtEntry /\ cur \in Addrs /\ mem \in [Addrs -> Records]
  BY DEF CreateLast, OpenInv, OpenTypes
<1>2. PICK h : h = fat16_sub_close_file(Heap, cur)
  OBVIOUS
<1>3. IsHeap(h) /\ ReadyList(h) /\ ReadyHeld(h)
  BY <1>1, <1>2, ClosedHeap
<1>4. fat16_sub_close_file(h, cur) = h
  <2>1. PICK g : g = fat16_sub_close_file(h, cur)
    OBVIOUS
  <2>2. h = fat16_sub_close_file([mem |-> mem, live |-> live], cur)
    BY <1>2 DEF Heap
  <2>3. g = [mem |-> g.mem, live |-> g.live] /\ g.live = h.live /\ g.mem = h.mem
    BY <1>1, <2>1, <2>2, CloseTwice
  <2> QED
    BY <1>3, <2>1, <2>3 DEF IsHeap
<1>5. Exit(h, {})
  BY <1>2 DEF CreateLast
<1>6. /\ SetHeap(h) /\ Note(h, {}) /\ stage' = "idle" /\ cur' = NULL /\ is_first' = TRUE
      /\ UNCHANGED <<cache_table_start, cache_table_last, mounts>>
  BY <1>4, <1>5 DEF Exit
<1>7. PICK more : more = {}
  OBVIOUS
<1>8. Note(h, more) /\ "umount" \notin more /\ "no entry" \notin more
  BY <1>6, <1>7
<1> QED
  BY <1>1, <1>3, <1>6, <1>8, ExitKeeps

(* The walk gives up. *)
LEMMA GiveUpKeeps ==
    ASSUME OpenInv, GiveUp
    PROVE  OpenInv'
<1>1. Walking /\ AtEntry /\ is_first \in BOOLEAN
  BY DEF GiveUp, OpenInv, OpenTypes
<1>2. PICK h : h = IF is_first THEN Heap ELSE fat16_sub_close_file(Heap, cur)
  OBVIOUS
<1>3. PICK more : more = IF stage = "create" /\ is_first THEN {"entry left"} ELSE {}
  OBVIOUS
<1>4. Exit(Heap, more)
  BY <1>3 DEF GiveUp
<1>5. /\ SetHeap(h) /\ Note(h, more) /\ stage' = "idle" /\ cur' = NULL /\ is_first' = TRUE
      /\ UNCHANGED <<cache_table_start, cache_table_last, mounts>>
  BY <1>2, <1>4 DEF Exit
<1>6. "umount" \notin more /\ "no entry" \notin more
  BY <1>3
<1>7. IsHeap(h) /\ ReadyList(h) /\ ("entry left" \in more \/ ReadyHeld(h))
  <2>1. CASE is_first
    <3>1. h = Heap /\ (HasOpened => "entry left" \in more)
      BY <1>2, <1>3, <2>1 DEF HasOpened
    <3> QED
      BY <1>1, <3>1, WalkHeap
  <2>2. CASE ~ is_first
    BY <1>1, <1>2, <2>2, ClosedHeap
  <2> QED
    BY <2>1, <2>2
<1> QED
  BY <1>1, <1>5, <1>6, <1>7, ExitKeeps

-----------------------------------------------------------------------------
(* Four chunks that count as four are four different ones. *)
LEMMA ThreeAtMost ==
    ASSUME NEW x, NEW y, NEW z
    PROVE  Cardinality({x, y, z}) # 4
<1>1. IsFiniteSet({z}) /\ Cardinality({z}) = 1
  BY FS_Singleton
<1>2. IsFiniteSet({z} \cup {y}) /\ Cardinality({z} \cup {y}) \in {1, 2}
  BY <1>1, FS_AddElement
<1>3. Cardinality(({z} \cup {y}) \cup {x}) \in {1, 2, 3}
  BY <1>2, FS_AddElement
<1>4. ({z} \cup {y}) \cup {x} = {x, y, z}
  OBVIOUS
<1> QED
  BY <1>3, <1>4

(* So no two of the arguments of mount_fat16 are the same. *)
LEMMA FourDistinct ==
    ASSUME NEW m, NEW b, NEW r, NEW i, Cardinality({m, b, r, i}) = 4
    PROVE  m # b /\ m # r /\ m # i /\ b # r /\ b # i /\ r # i
<1>1. m = b \/ b = r \/ b = i => {m, b, r, i} = {m, r, i}
  OBVIOUS
<1>2. m = r \/ r = i => {m, b, r, i} = {m, b, i}
  OBVIOUS
<1>3. m = i => {m, b, r, i} = {m, b, r}
  OBVIOUS
<1>4. Cardinality({m, r, i}) # 4 /\ Cardinality({m, b, i}) # 4 /\ Cardinality({m, b, r}) # 4
  BY ThreeAtMost
<1> QED
  BY <1>1, <1>2, <1>3, <1>4

(* In memory u chunk m is a mount entry with the fields of f; of the others  *)
(* only links differ from mem.                                               *)
Linking(u, f, m) ==
    /\ u \in [Addrs -> Records] /\ (\A x \in Addrs \ {m} : Alike(u[x], mem[x]))
    /\ u[m].kind = "mount" /\ u[m].content = f.content /\ u[m].bpb = f.bpb

(* Linking a mount entry changes links only, but for the entry itself. *)
LEMMA LinkedIs ==
    ASSUME mem \in [Addrs -> Records], mount_table_last \in Ptr, NEW m \in Addrs,
           NEW f \in Records, NEW u, u = LinkedMount(f, m)
    PROVE  Linking(u, f, m)
<1>1. PICK p : p = [f EXCEPT !.kind = "mount", !.prev = mount_table_last]
  OBVIOUS
<1>2. p \in Records /\ p.kind = "mount" /\ p.content = f.content /\ p.bpb = f.bpb
  BY <1>1 DEF Records
<1>3. PICK new : new = [mem EXCEPT ![m] = p]
  OBVIOUS
<1>4. new \in [Addrs -> Records] /\ new[m] = p /\ \A x \in Addrs \ {m} : new[x] = mem[x]
  BY <1>2, <1>3
<1>5. PICK far : far = SetNext(new, mount_table_last, m)
  OBVIOUS
<1>6. m \in Ptr /\ NULL \in Ptr
  BY DEF Ptr
<1>7. far \in [Addrs -> Records] /\ \A x \in Addrs : Alike(far[x], new[x])
  BY <1>4, <1>5, <1>6, SetNextIs
<1>8. u = [far EXCEPT ![m] = [far[m] EXCEPT !.next = NULL]]
  BY <1>1, <1>3, <1>5 DEF LinkedMount
<1>9. PICK q : q = [far[m] EXCEPT !.next = NULL]
  OBVIOUS
<1>10. q \in Records /\ Alike(q, far[m])
  BY <1>6, <1>7, <1>9 DEF Records, Alike
<1>11. u \in [Addrs -> Records] /\ u[m] = q /\ \A x \in Addrs \ {m} : u[x] = far[x]
  BY <1>7, <1>8, <1>9, <1>10
<1>12. \A x \in Addrs \ {m} : Alike(u[x], mem[x])
  BY <1>4, <1>7, <1>11
<1>13. Alike(far[m], p) /\ Alike(u[m], far[m])
  BY <1>4, <1>7, <1>10, <1>11
<1> QED
  BY <1>2, <1>11, <1>12, <1>13 DEF Alike, Linking

(* A mount that fails. *)
LEMMA MountFailsKeeps ==
    ASSUME OpenInv, NEW m \in Addrs, MountFails(m)
    PROVE  OpenInv'
<1>1. /\ stage = "idle" /\ stage' = "idle" /\ cache_table_start = NULL /\ cache_table_start' = NULL
      /\ m \notin live /\ live' = live /\ cache_table_last' = cache_table_last
      /\ cur' = cur /\ is_first' = is_first /\ did' = did \cup {"mount failed"}
      /\ mount_table_start' \in {m, mount_table_start} /\ mount_table_last' = m
      /\ mem' = LinkedMount(Blank, m)
  BY DEF MountFails, Call, MountTable, walk
<1>2. /\ mem \in [Addrs -> Records] /\ live \subseteq Addrs /\ mount_table_last \in Ptr
      /\ Blank \in Records /\ Blank.content = NULL /\ Blank.bpb = NULL /\ NULL \notin Addrs
  BY OpenFilesAssumption DEF OpenInv, OpenTypes, Records, Blank, Ptr
<1>3. /\ mem' \in [Addrs -> Records] /\ (\A x \in Addrs \ {m} : Alike(mem'[x], mem[x]))
      /\ mem'[m].kind = "mount" /\ mem'[m].content = NULL /\ mem'[m].bpb = NULL
  <2>1. PICK f \in Records, u \in {LinkedMount(Blank, m)} : f = Blank
    BY <1>2
  <2>2. Linking(u, f, m)
    BY <1>2, <2>1, LinkedIs
  <2>3. mem' = u
    BY <1>1, <2>1
  <2> QED
    BY <1>2, <2>1, <2>2, <2>3 DEF Linking
<1>4. ~ Walking /\ ~ Walking' /\ ~ HasOpened /\ ~ HasOpened' /\ Opened = {} /\ Opened' = {}
  BY <1>1 DEF Walking, HasOpened, Opened
<1>5. OpenTypes'
  BY <1>1, <1>3, <1>4 DEF OpenInv, OpenTypes, Ptr
<1>6. Beginning'
  <2>1. \A a \in Addrs : /\ mem[a].kind # "entry"
                         /\ mem[a].kind = "mount" /\ a \notin live =>
                               mem[a].content = NULL /\ mem[a].bpb = NULL
    BY <1>1 DEF OpenInv, Beginning
  <2>2. \A a \in Addrs : /\ mem'[a].kind # "entry"
                         /\ mem'[a].kind = "mount" /\ a \notin live =>
                               mem'[a].content = NULL /\ mem'[a].bpb = NULL
    BY <1>3, <2>1 DEF Alike
  <2> QED
    BY <1>1, <2>2 DEF Beginning
<1>7. Listing'
  BY <1>1 DEF Listing
<1>8. Owning'
  <2> SUFFICES ASSUME "entry left" \notin did'
               PROVE  Held(mem', live, NULL, did') /\ Outside(mem', live)
    BY <1>1, <1>4 DEF Owning
  <2>1. Held(mem, live, NULL, did) /\ Outside(mem, live)
    BY <1>1, <1>4 DEF OpenInv, Owning
  <2>2. \A x \in live : Alike(mem'[x], mem[x])
    BY <1>1, <1>2, <1>3
  <2>3. Held(mem', live, NULL, did')
    BY <1>1, <2>1, <2>2, HeldFrame
  <2>4. Outside(mem', live)
    <3> SUFFICES ASSUME NEW a \in Addrs \ live
                 PROVE  /\ mem'[a].kind = "entry" => mem'[a].content \notin live
                        /\ mem'[a].kind = "mount" => mem'[a].content \notin live /\ mem'[a].bpb \notin live
      BY DEF Outside
    <3>1. CASE a = m
      BY <1>2, <1>3, <3>1
    <3>2. CASE a # m
      BY <1>3, <2>1, <3>2 DEF Outside, Alike
    <3> QED
      BY <3>1, <3>2
  <2> QED
    BY <2>3, <2>4
<1> QED
  BY <1>5, <1>6, <1>7, <1>8 DEF OpenInv

(* The chunks of a mount: what mount_fat16 leaves in memory. *)
LEMMA MountIs ==
    ASSUME OpenInv, NEW m \in Addrs, NEW b \in Addrs, NEW r \in Addrs, NEW i \in Ptr,
           mount_fat16(m, b, r, i)
    PROVE  /\ m # b /\ m # r /\ m # i /\ b # r /\ b # i /\ r # i
           /\ mem' \in [Addrs -> Records] /\ (\A x \in Addrs \ {m, b, r, i} : Alike(mem'[x], mem[x]))
           /\ mem'[m].kind = "mount" /\ mem'[m].content = r /\ mem'[m].bpb = b
           /\ mem'[b].kind = "bpb" /\ mem'[r].kind = "node"
           /\ i # NULL => /\ mem'[i].kind = "entry" /\ mem'[i].type = "mount"
                          /\ mem'[i].content = m /\ mem'[i].next = NULL
<1>1. m # b /\ m # r /\ m # i /\ b # r /\ b # i /\ r # i
  BY FourDistinct DEF mount_fat16
<1>2. mem \in [Addrs -> Records] /\ mount_table_last \in Ptr /\ NULL \in Ptr /\ b \in Ptr /\ r \in Ptr /\ m \in Ptr
  BY DEF OpenInv, OpenTypes, Ptr
<1>3. [Blank EXCEPT !.content = r, !.bpb = b] \in Records
  BY <1>2 DEF Records, Blank
<1>4. PICK f \in Records : f = [Blank EXCEPT !.content = r, !.bpb = b] /\ f.content = r /\ f.bpb = b
  BY <1>2, <1>3 DEF Blank
<1>5. PICK u : u = LinkedMount(f, m)
  OBVIOUS
<1>6. /\ u \in [Addrs -> Records] /\ (\A x \in Addrs \ {m} : Alike(u[x], mem[x]))
      /\ u[m].kind = "mount" /\ u[m].content = f.content /\ u[m].bpb = f.bpb
  <2>1. f \in Records /\ mem \in [Addrs -> Records] /\ mount_table_last \in Ptr
    BY <1>2, <1>4
  <2>2. Linking(u, f, m)
    BY <1>5, <2>1, LinkedIs
  <2> QED
    BY <2>2 DEF Linking
<1>7. PICK p, q : p = [Blank EXCEPT !.kind = "bpb"] /\ q = [Blank EXCEPT !.kind = "node"]
  OBVIOUS
<1>8. p \in Records /\ p.kind = "bpb" /\ q \in Records /\ q.kind = "node"
  BY <1>2, <1>7 DEF Records, Blank
<1>9. PICK v : v = [u EXCEPT ![b] = p, ![r] = q]
  OBVIOUS
<1>10. /\ v \in [Addrs -> Records] /\ v[b] = p /\ v[r] = q
       /\ \A x \in Addrs \ {b, r} : v[x] = u[x]
  BY <1>1, <1>6, <1>8, <1>9
<1>11. v[m] = u[m] /\ \A x \in Addrs \ {m, b, r, i} : Alike(v[x], mem[x])
  BY <1>1, <1>6, <1>10
<1>12. mem' = IF i = NULL THEN v ELSE [v EXCEPT ![i] = Entry("mount", m)]
  BY <1>4, <1>5, <1>7, <1>9 DEF mount_fat16
<1>13. CASE i = NULL
  BY <1>1, <1>4, <1>6, <1>8, <1>10, <1>11, <1>12, <1>13
<1>14. CASE i # NULL
  <2>1. PICK e : e = Entry("mount", m)
    OBVIOUS
  <2>2. e \in Records /\ e.kind = "entry" /\ e.type = "mount" /\ e.content = m /\ e.next = NULL
    BY <1>2, <2>1 DEF Entry, Blank, Records
  <2>3. i \in Addrs
    BY <1>14 DEF Ptr
  <2>4. mem' = [v EXCEPT ![i] = e]
    BY <1>12, <1>14, <2>1
  <2>5. mem' \in [Addrs -> Records] /\ mem'[i] = e /\ \A x \in Addrs \ {i} : mem'[x] = v[x]
    BY <1>10, <2>2, <2>3, <2>4
  <2>6. mem'[m] = u[m] /\ mem'[b] = p /\ mem'[r] = q
    BY <1>1, <1>10, <1>11, <2>5
  <2>7. \A x \in Addrs \ {m, b, r, i} : Alike(mem'[x], mem[x])
    BY <1>11, <2>5
  <2> QED
    BY <1>1, <1>4, <1>6, <1>8, <2>2, <2>5, <2>6, <2>7
<1> QED
  BY <1>13, <1>14

(* A mount that succeeds, with its cache entry or without. *)
LEMMA MountKeeps ==
    ASSUME OpenInv, NEW m \in Addrs, NEW b \in Addrs, NEW r \in Addrs, NEW i \in Ptr,
           mount_fat16(m, b, r, i)
    PROVE  OpenInv'
<1>1. /\ stage = "idle" /\ stage' = "idle" /\ cache_table_start = NULL
      /\ cache_table_start' = i /\ cache_table_last' = i
      /\ {m, b, r, i} \cap live = {} /\ live' = (live \cup {m, b, r, i}) \ {NULL}
      /\ cur' = cur /\ is_first' = is_first
      /\ did' = IF i = NULL THEN did \cup {"no entry"} ELSE did
      /\ mount_table_start' \in {m, mount_table_start} /\ mount_table_last' = m
  BY DEF mount_fat16, Call, MountTable, walk
<1>2. /\ m # b /\ m # r /\ m # i /\ b # r /\ b # i /\ r # i
      /\ mem' \in [Addrs -> Records]
      /\ mem'[m].kind = "mount" /\ mem'[m].content = r /\ mem'[m].bpb = b
      /\ mem'[b].kind = "bpb" /\ mem'[r].kind = "node"
      /\ i # NULL => /\ mem'[i].kind = "entry" /\ mem'[i].type = "mount"
                     /\ mem'[i].content = m /\ mem'[i].next = NULL
  BY MountIs
<1>3. \A x \in Addrs \ {m, b, r, i} : Alike(mem'[x], mem[x])
  BY MountIs
<1>4. mem \in [Addrs -> Records] /\ live \subseteq Addrs /\ NULL \notin Addrs /\ i \in Addrs \cup {NULL}
  BY OpenFilesAssumption DEF OpenInv, OpenTypes, Ptr
<1>5. ~ Walking /\ ~ Walking' /\ ~ HasOpened /\ ~ HasOpened' /\ Opened = {} /\ Opened' = {}
  BY <1>1 DEF Walking, HasOpened, Opened
<1>6. /\ m \in live' /\ b \in live' /\ r \in live' /\ live \subseteq live' /\ live' \subseteq Addrs
      /\ (i # NULL => i \in live') /\ \A x \in live' : x \in live \/ x = m \/ x = b \/ x = r \/ x = i
  BY <1>1, <1>4
<1>7. \A a \in Addrs : /\ mem[a].kind # "entry"
                       /\ mem[a].kind = "mount" /\ a \notin live =>
                             mem[a].content = NULL /\ mem[a].bpb = NULL
  BY <1>1 DEF OpenInv, Beginning
<1>8. \A a \in Addrs : a # i => mem'[a].kind # "entry"
  BY <1>2, <1>3, <1>7 DEF Alike
<1>9. \A a \in Addrs : mem'[a].kind = "mount" /\ a \notin live' =>
                             mem'[a].content = NULL /\ mem'[a].bpb = NULL
  <2> SUFFICES ASSUME NEW a \in Addrs, mem'[a].kind = "mount", a \notin live'
               PROVE  mem'[a].content = NULL /\ mem'[a].bpb = NULL
    OBVIOUS
  <2>1. a \notin live /\ a \notin {m, b, r, i}
    BY <1>4, <1>6
  <2> QED
    BY <1>3, <1>7, <2>1 DEF Alike
<1>10. OpenTypes'
  BY <1>1, <1>2, <1>4, <1>5, <1>6 DEF OpenInv, OpenTypes, Ptr
<1>11. Beginning'
  BY <1>1, <1>4, <1>8, <1>9 DEF Beginning
<1>12. Listing'
  <2> SUFFICES ASSUME i # NULL
               PROVE  /\ Nodes(mem', live')
                      /\ \E k \in Nat : \E f \in [0 .. k -> live'] : ListState(f, k)'
    BY <1>1 DEF Listing
  <2>1. \A a \in live' : ~ IsOpen(mem', a)
    BY <1>2, <1>6, <1>8 DEF IsOpen
  <2>2. Nodes(mem', live')
    BY <2>1 DEF Nodes
  <2>3. PICK f \in [0 .. 0 -> live'] : f[0] = i
    <3>1. [x \in 0 .. 0 |-> i] \in [0 .. 0 -> live'] /\ [x \in 0 .. 0 |-> i][0] = i
      BY <1>6
    <3> QED
      BY <3>1
  <2>4. InList(f, 0) = {i}
    BY <2>3 DEF InList
  <2>5. IsList(mem', live', i, f, 0)
    BY <1>2, <2>3 DEF IsList
  <2>6. ListHeap(mem, live, f, 0)'
    BY <1>1, <2>3, <2>5 DEF ListHeap
  <2>7. AllListed(mem, live, f, 0)'
    BY <1>1, <1>6, <1>8, <2>3, <2>4 DEF AllListed
  <2>8. ListState(f, 0)'
    BY <1>5, <2>6, <2>7 DEF ListState
  <2> QED
    BY <2>2, <2>8
<1>13. Owning'
  <2> SUFFICES ASSUME "entry left" \notin did'
               PROVE  Held(mem', live', i, did') /\ Outside(mem', live')
    BY <1>1, <1>5 DEF Owning
  <2>1. Held(mem, live, NULL, did)
    BY <1>1, <1>5 DEF OpenInv, Owning
  <2>2. \A x \in live : Alike(mem'[x], mem[x])
    BY <1>1, <1>3, <1>4
  <2>3. Held(mem', live, NULL, did)
    BY <2>1, <2>2, HeldFrame
  <2>4. HeldEntries(mem', live', i)
    <3> SUFFICES ASSUME NEW a \in live', mem'[a].kind = "entry"
                 PROVE  /\ a = i /\ mem'[a].type = "mount" /\ mem'[a].content \in live'
                        /\ mem'[mem'[a].content].kind = "mount"
      BY DEF HeldEntries
    <3>1. a = i /\ i # NULL
      BY <1>4, <1>6, <1>8
    <3> QED
      BY <1>2, <1>6, <3>1
  <2>5. \A a \in live : mem'[a].kind = "mount" =>
           /\ mem'[a].content \in live /\ mem'[mem'[a].content].kind = "node"
           /\ mem'[a].bpb \in live /\ mem'[mem'[a].bpb].kind = "bpb"
    BY <2>3 DEF Held, HeldMounts
  <2>6. \A a \in live' : mem'[a].kind = "mount" => a \in live \/ a = m
    BY <1>2, <1>4, <1>6
  <2>7. HeldMounts(mem', live')
    BY <1>2, <1>6, <2>5, <2>6 DEF HeldMounts
  <2>8. HeldOwned(mem', live')
    <3> SUFFICES ASSUME NEW a \in live'
                 PROVE  \/ mem'[a].kind \in {"entry", "mount"}
                        \/ \E x \in live' : mem'[x].kind = "mount" /\ a \in {mem'[x].content, mem'[x].bpb}
      BY DEF HeldOwned
    <3>1. CASE a \in live
      BY <1>6, <2>3, <3>1 DEF Held, HeldOwned
    <3>2. CASE a \in {m, b, r}
      BY <1>2, <1>6, <3>2
    <3>3. CASE a = i
      BY <1>2, <1>4, <1>6, <3>3
    <3> QED
      BY <1>6, <3>1, <3>2, <3>3
  <2>9. HeldApart(mem', live')
    <3> SUFFICES ASSUME NEW x \in live', NEW y \in live', mem'[x].kind = "mount", mem'[y].kind = "mount",
                        {mem'[x].content, mem'[x].bpb} \cap {mem'[y].content, mem'[y].bpb} # {}
                 PROVE  x = y
      BY DEF HeldApart
    <3>1. CASE x \in live /\ y \in live
      BY <2>3, <3>1 DEF Held, HeldApart
    <3>2. b \notin live /\ r \notin live
      BY <1>1
    <3>3. ~ (x \in live /\ y = m)
      BY <1>2, <2>5, <3>2
    <3>4. ~ (x = m /\ y \in live)
      BY <1>2, <2>5, <3>2
    <3> QED
      BY <2>6, <3>1, <3>3, <3>4
  <2>10. HeldListed(mem', live', i, did')
    <3> SUFFICES ASSUME "no entry" \notin did', NEW a \in live', mem'[a].kind = "mount"
                 PROVE  i \in live' /\ mem'[i].kind = "entry" /\ mem'[i].content = a
      BY DEF HeldListed
    <3>1. i # NULL /\ "no entry" \notin did
      BY <1>1
    <3>2. a \notin live
      BY <1>4, <2>3, <3>1 DEF Held, HeldListed
    <3> QED
      BY <1>2, <1>6, <2>6, <3>1, <3>2
  <2>11. Outside(mem', live')
    BY <1>4, <1>6, <1>8, <1>9 DEF Outside
  <2> QED
    BY <2>4, <2>7, <2>8, <2>9, <2>10, <2>11 DEF Held
<1> QED
  BY <1>10, <1>11, <1>12, <1>13 DEF OpenInv

(* Unmounting gives back the four chunks of a mount, or none when the entry  *)
(* it finds was given back before.                                           *)
LEMMA UmountKeeps ==
    ASSUME OpenInv, umount_fat16
    PROVE  OpenInv'
<1>1. /\ stage = "idle" /\ stage' = "idle" /\ cache_table_start # NULL /\ ListEnds
      /\ cache_table_start' = cache_table_start /\ cache_table_last' = cache_table_last
      /\ mount_table_start' = mount_table_start /\ mount_table_last' = mount_table_last
      /\ cur' = cur /\ is_first' = is_first /\ did' = did \cup {"umount"}
  BY DEF umount_fat16, Call, walk
<1>2. PICK c : c = is_present_in_cache_table
  OBVIOUS
<1>3. c \in Addrs /\ mem[c].kind = "entry"
  BY <1>1, <1>2, LookupIs DEF OpenInv
<1>4. PICK m : m = mem[c].content
  OBVIOUS
<1>5. PICK u : u = SetPrev(SetNext(mem, mem[c].prev, mem[c].next), mem[c].next, mem[c].prev)
  OBVIOUS
<1>6. /\ IsMount(c) /\ live' = live \ FreedByUmount(c, m)
      /\ mem' = SetPrev(SetNext(u, mem[m].prev, mem[m].next), mem[m].next, mem[m].prev)
  BY <1>2, <1>4, <1>5 DEF umount_fat16
<1>7. mem \in [Addrs -> Records] /\ live \subseteq Addrs /\ NULL \notin Addrs
  BY OpenFilesAssumption DEF OpenInv, OpenTypes
<1>8. m \in Addrs /\ mem[m].kind = "mount" /\ mem[c].type = "mount"
  <2>1. m \in Ptr
    BY <1>3, <1>4, <1>7, RecordFields
  <2> QED
    BY <1>4, <1>6, <2>1 DEF IsMount, Ptr
<1>9. u \in [Addrs -> Records] /\ \A x \in Addrs : Alike(u[x], mem[x])
  <2>1. mem[c].prev \in Ptr /\ mem[c].next \in Ptr
    BY <1>3, <1>7, RecordFields
  <2> QED
    BY <1>5, <1>7, <2>1, UnlinkIs
<1>10. PICK w : w = SetPrev(SetNext(u, mem[m].prev, mem[m].next), mem[m].next, mem[m].prev)
  OBVIOUS
<1>11. w \in [Addrs -> Records] /\ \A x \in Addrs : Alike(w[x], u[x])
  <2>1. mem[m].prev \in Ptr /\ mem[m].next \in Ptr
    BY <1>7, <1>8, RecordFields
  <2> QED
    BY <1>9, <1>10, <2>1, UnlinkIs
<1>12. mem' = w /\ \A x \in Addrs : Alike(w[x], mem[x])
  BY <1>6, <1>9, <1>10, <1>11 DEF Alike
<1>13. ~ Walking /\ ~ Walking' /\ ~ HasOpened /\ ~ HasOpened' /\ Opened = {} /\ Opened' = {}
  BY <1>1 DEF Walking, HasOpened, Opened
<1>14. PICK r, b : r = mem[m].content /\ b = mem[m].bpb
  OBVIOUS
<1>15. live' = live \ {c, b, r, m}
  BY <1>6, <1>14 DEF FreedByUmount
<1>16. OpenTypes'
  BY <1>1, <1>7, <1>11, <1>12, <1>13, <1>15 DEF OpenInv, OpenTypes
<1>17. Beginning' /\ Listing'
  BY <1>1 DEF Beginning, Listing
<1>18. Owning'
  <2> SUFFICES ASSUME "entry left" \notin did
               PROVE  Held(w, live', cache_table_start, did') /\ Outside(w, live')
    BY <1>1, <1>12, <1>13 DEF Owning
  <2>1. Held(mem, live, cache_table_start, did) /\ Outside(mem, live)
    BY <1>1, <1>13 DEF OpenInv, Owning
  <2>2. ("no entry" \in did => "no entry" \in did') /\ \A x \in live : Alike(w[x], mem[x])
    BY <1>1, <1>7, <1>12
  <2>3. Held(w, live, cache_table_start, did')
    BY <2>1, <2>2, HeldFrame
  <2>4. Outside(w, live)
    BY <1>12, <2>1, OutsideFrame
  <2>5. /\ w[c].kind = "entry" /\ w[c].content = m
        /\ w[m].kind = "mount" /\ w[m].content = r /\ w[m].bpb = b
    BY <1>3, <1>4, <1>8, <1>12, <1>14 DEF Alike
  <2>6. CASE c \in live
    <3>1. c = cache_table_start /\ m \in live
      BY <2>3, <2>5, <2>6 DEF Held, HeldEntries
    <3>2. r \in live /\ w[r].kind = "node" /\ b \in live /\ w[b].kind = "bpb"
      BY <2>3, <2>5, <3>1 DEF Held, HeldMounts
    <3>3. HeldEntries(w, live', cache_table_start)
      BY <1>15, <2>3, <3>1 DEF Held, HeldEntries
    <3>4. HeldMounts(w, live')
      <4> SUFFICES ASSUME NEW a \in live', w[a].kind = "mount"
                   PROVE  /\ w[a].content \in live' /\ w[w[a].content].kind = "node"
                          /\ w[a].bpb \in live' /\ w[w[a].bpb].kind = "bpb"
        BY DEF HeldMounts
      <4>1. a \in live /\ a # m
        BY <1>15
      <4>2. /\ w[a].content \in live /\ w[w[a].content].kind = "node"
            /\ w[a].bpb \in live /\ w[w[a].bpb].kind = "bpb"
        BY <2>3, <4>1 DEF Held, HeldMounts
      <4>3. {w[a].content, w[a].bpb} \cap {w[m].content, w[m].bpb} = {}
        BY <2>3, <2>5, <3>1, <4>1 DEF Held, HeldApart
      <4>4. w[a].content \notin {c, b, r, m} /\ w[a].bpb \notin {c, b, r, m}
        BY <2>5, <4>2, <4>3
      <4> QED
        BY <1>15, <4>2, <4>4
    <3>5. HeldOwned(w, live')
      <4> SUFFICES ASSUME NEW a \in live', w[a].kind \notin {"entry", "mount"}
                   PROVE  \E x \in live' : w[x].kind = "mount" /\ a \in {w[x].content, w[x].bpb}
        BY DEF HeldOwned
      <4>1. PICK x \in live : w[x].kind = "mount" /\ a \in {w[x].content, w[x].bpb}
        BY <1>15, <2>3 DEF Held, HeldOwned
      <4>2. x \notin {c, b, r, m}
        BY <1>15, <2>5, <3>2, <4>1
      <4> QED
        BY <1>15, <4>1, <4>2
    <3>6. HeldApart(w, live')
      BY <1>15, <2>3 DEF Held, HeldApart
    <3>7. HeldListed(w, live', cache_table_start, did')
      <4> SUFFICES ASSUME "no entry" \notin did', NEW a \in live', w[a].kind = "mount"
                   PROVE  FALSE
        BY DEF HeldListed
      <4>1. w[cache_table_start].content = a
        BY <1>15, <2>3 DEF Held, HeldListed
      <4> QED
        BY <1>15, <2>5, <3>1, <4>1
    <3>8. Outside(w, live')
      <4> SUFFICES ASSUME NEW a \in Addrs \ live'
                   PROVE  /\ w[a].kind = "entry" => w[a].content \notin live'
                          /\ w[a].kind = "mount" => w[a].content \notin live' /\ w[a].bpb \notin live'
        BY DEF Outside
      <4>1. CASE a \notin live
        BY <1>15, <2>4, <4>1 DEF Outside
      <4>2. CASE a \in {c, b, r, m}
        BY <1>15, <2>5, <3>2, <4>2
      <4> QED
        BY <1>15, <4>1, <4>2
    <3> QED
      BY <3>3, <3>4, <3>5, <3>6, <3>7, <3>8 DEF Held
  <2>7. CASE c \notin live
    <3>1. m \notin live
      BY <1>3, <2>4, <2>5, <2>7 DEF Outside
    <3>2. r \notin live /\ b \notin live
      BY <1>8, <2>4, <2>5, <3>1 DEF Outside
    <3>3. live' = live
      BY <1>15, <2>7, <3>1, <3>2
    <3> QED
      BY <2>3, <2>4, <3>3
  <2> QED
    BY <2>6, <2>7
<1> QED
  BY <1>16, <1>17, <1>18 DEF OpenInv

-----------------------------------------------------------------------------
(* Every step of the VFS keeps the invariant. *)
LEMMA OpenStep ==
    ASSUME OpenInv, [OpenNext]_openVars
    PROVE  OpenInv'
<1>1. CASE UNCHANGED openVars
  BY <1>1, SameKeeps DEF openVars
<1>2. CASE MountTableFull \/ UmountNotFound
  BY <1>2, SameKeeps DEF MountTableFull, UmountNotFound
<1>3. CASE MountExistingPath
  <2>1. (\E a, b \in Ptr : FreeUnset({a, b})) \/ Wild
    BY <1>3 DEF MountExistingPath
  <2> QED
    BY <2>1, FreeUnsetKeeps, WildKeeps
<1>4. CASE MountNoMemory
  BY <1>4, FreeUnsetKeeps DEF MountNoMemory
<1>5. CASE \E m \in Addrs : MountFails(m)
  BY <1>5, MountFailsKeeps
<1>6. CASE \E m, b, r \in Addrs, i \in Ptr : mount_fat16(m, b, r, i)
  BY <1>6, MountKeeps
<1>7. CASE UmountWild \/ WalkWild
  BY <1>7, WildKeeps DEF UmountWild, WalkWild
<1>8. CASE umount_fat16 \/ create_file_fat16
  BY <1>8, UmountKeeps, CreateKeeps
<1>9. CASE EnterExisting \/ EnterCreated
  BY <1>9, EnterExistingKeeps, EnterCreatedKeeps
<1>10. CASE CreateLast \/ GiveUp
  BY <1>10, CreateLastKeeps, GiveUpKeeps
<1>11. CASE \E a \in Addrs : OtherUse(a)
  BY <1>11, OtherUseKeeps
<1> QED
  BY <1>1, <1>2, <1>3, <1>4, <1>5, <1>6, <1>7, <1>8, <1>9, <1>10, <1>11 DEF OpenNext

(* The inductive invariant of the open-file cache, for any number of chunks, *)
(* calls and directories: the cache is a list of entries in use, and every   *)
(* chunk in use belongs to a mount or to the walk that goes on.              *)
THEOREM OpenInvariance == OpenSpec => []OpenInv
<1>1. OpenInit => OpenInv
  <2> SUFFICES ASSUME OpenInit PROVE OpenInv
    OBVIOUS
  <2>1. OpenTypes
    BY DEF OpenInit, OpenTypes, Records, Blank, Ptr, Walking
  <2>2. Beginning
    BY DEF OpenInit, Beginning, Blank
  <2>3. Listing
    BY DEF OpenInit, Listing
  <2>4. Opened = {} /\ ~ HasOpened /\ live = {} /\ \A a \in Addrs : mem[a].kind = "none"
    BY DEF OpenInit, Opened, HasOpened, Walking, Blank
  <2>5. Owning
    BY <2>4 DEF Owning, Held, HeldEntries, HeldMounts, HeldOwned, HeldApart, HeldListed, Outside
  <2> QED
    BY <2>1, <2>2, <2>3, <2>5 DEF OpenInv
<1>2. OpenInv /\ [OpenNext]_openVars => OpenInv'
  BY OpenStep
<1> QED
  BY <1>1, <1>2, PTL DEF OpenSpec

(* Without a first entry a lookup goes over nothing. *)
LEMMA NothingSeen ==
    ASSUME OpenTypes, cache_table_start = NULL
    PROVE  ListEnds /\ Seen = {}
<1> DEFINE Z == {n \in Nat : Round(n) = NULL}
<1>1. 0 \in Z
  BY RoundDef
<1>2. ASSUME NEW n \in Nat, n \in Z PROVE n + 1 \in Z
  BY <1>2, RoundDef
<1>3. Nat \subseteq Z
  <2> HIDE DEF Z
  <2> QED
    BY <1>1, <1>2, Induction
<1>4. Cardinality(Addrs) \in Nat
  BY OpenFilesAssumption, FS_CardinalityType
<1>5. \A n \in Rounds : Round(n) = NULL
  BY <1>3, <1>4 DEF Rounds
<1> QED
  BY <1>3, <1>4, <1>5 DEF ListEnds, Seen

(* Lookups are safe until an unmount (fat16.c:258): the cache is a list that *)
(* ends, of entries in use.                                                  *)
THEOREM LookupCorrect == OpenSpec => []LookupAlive
<1>1. OpenInv => LookupAlive
  <2> SUFFICES ASSUME OpenInv, stage # "wild", "umount" \notin did
               PROVE  ListEnds /\ Seen \subseteq live
    BY DEF LookupAlive
  <2>1. OpenTypes
    BY DEF OpenInv
  <2>2. CASE cache_table_start = NULL
    BY <2>1, <2>2, NothingSeen
  <2>3. CASE cache_table_start # NULL
    <3>1. PICK k \in Nat : \E f \in [0 .. k -> live] : ListState(f, k)
      BY <2>3 DEF OpenInv, Listing
    <3>2. PICK f \in [0 .. k -> live] : ListState(f, k)
      BY <3>1
    <3>3. IsList(mem, live, cache_table_start, f, k)
      BY <3>2 DEF ListState, ListHeap
    <3>4. ListEnds /\ Seen = InList(f, k)
      BY <2>1, <3>3, ListSeen
    <3>5. InList(f, k) \subseteq live
      BY DEF InList
    <3> QED
      BY <3>4, <3>5
  <2> QED
    BY <2>2, <2>3
<1> QED
  BY <1>1, OpenInvariance, PTL

(* Every entry in use can be found until an unmount, or until the entry at   *)
(* the end of the table is closed (fat16.c:817).                             *)
THEOREM EntriesFound == OpenSpec => []EntriesLinked
<1>1. OpenInv => EntriesLinked
  <2> SUFFICES ASSUME OpenInv, stage # "wild", "umount" \notin did, "closed last" \notin did
               PROVE  InUse("entry") \subseteq Seen
    BY DEF EntriesLinked
  <2>1. OpenTypes
    BY DEF OpenInv
  <2>2. CASE cache_table_start = NULL
    BY <2>1, <2>2 DEF OpenInv, OpenTypes, Beginning, InUse
  <2>3. CASE cache_table_start # NULL
    <3>1. PICK k \in Nat : \E f \in [0 .. k -> live] : ListState(f, k)
      BY <2>3 DEF OpenInv, Listing
    <3>2. PICK f \in [0 .. k -> live] : ListState(f, k)
      BY <3>1
    <3>3. IsList(mem, live, cache_table_start, f, k) /\ AllListed(mem, live, f, k)
      BY <3>2 DEF ListState, ListHeap
    <3>4. Seen = InList(f, k)
      BY <2>1, <3>3, ListSeen
    <3> QED
      BY <3>3, <3>4 DEF AllListed, InUse
  <2> QED
    BY <2>2, <2>3
<1> QED
  BY <1>1, OpenInvariance, PTL

(* Between calls the chunks in use are those of the mounts (fat16.c:151),    *)
(* until a walk gives up among names it made itself.                         *)
THEOREM NothingIsLost == OpenSpec => []NothingLost
<1>1. OpenInv => NothingLost
  <2> SUFFICES ASSUME OpenInv, stage = "idle", "entry left" \notin did
               PROVE  /\ live = InUse("entry") \cup InUse("mount")
                                \cup UNION {{mem[m].content, mem[m].bpb} : m \in InUse("mount")}
                      /\ \A c \in InUse("entry") : mem[c].type = "mount" /\ mem[c].content \in InUse("mount")
                      /\ "no entry" \in did \/ Cardinality(InUse("entry")) = Cardinality(InUse("mount"))
    BY DEF NothingLost
  <2>1. live \ Opened = live
    BY DEF Opened, HasOpened, Walking
  <2>2. Held(mem, live, cache_table_start, did)
    BY <2>1 DEF OpenInv, Owning
  <2>3. \A m \in InUse("mount") : mem[m].content \in live /\ mem[m].bpb \in live
    BY <2>2 DEF Held, HeldMounts, InUse
  <2>4. \A a \in live : \/ a \in InUse("entry") \/ a \in InUse("mount")
                        \/ \E m \in InUse("mount") : a \in {mem[m].content, mem[m].bpb}
    BY <2>2 DEF Held, HeldOwned, InUse
  <2>5. InUse("entry") \subseteq live /\ InUse("mount") \subseteq live
    BY DEF InUse
  <2>6. live = InUse("entry") \cup InUse("mount")
               \cup UNION {{mem[m].content, mem[m].bpb} : m \in InUse("mount")}
    <3>1. PICK U : U = UNION {{mem[m].content, mem[m].bpb} : m \in InUse("mount")}
      OBVIOUS
    <3>2. \A a : a \in U <=> \E m \in InUse("mount") : a \in {mem[m].content, mem[m].bpb}
      BY <3>1
    <3>3. ASSUME NEW a \in U PROVE a \in live
      <4>1. PICK m \in InUse("mount") : a \in {mem[m].content, mem[m].bpb}
        BY <3>2
      <4> QED
        BY <2>3, <4>1
    <3>4. live \subseteq InUse("entry") \cup InUse("mount") \cup U
      BY <2>4, <3>2
    <3> QED
      BY <2>5, <3>1, <3>3, <3>4
  <2>7. \A c \in InUse("entry") : /\ c = cache_table_start /\ mem[c].type = "mount"
                                  /\ mem[c].content \in InUse("mount")
    BY <2>2 DEF Held, HeldEntries, InUse
  <2>8. ASSUME "no entry" \notin did
        PROVE  Cardinality(InUse("entry")) = Cardinality(InUse("mount"))
    <3>1. \A m \in InUse("mount") : cache_table_start \in InUse("entry") /\ mem[cache_table_start].content = m
      BY <2>2, <2>8 DEF Held, HeldListed, InUse
    <3>2. CASE InUse("mount") = {}
      <4>1. InUse("entry") = {}
        BY <2>7, <3>2
      <4> QED
        BY <3>2, <4>1
    <3>3. CASE InUse("mount") # {}
      <4>1. InUse("entry") = {cache_table_start} /\ InUse("mount") = {mem[cache_table_start].content}
        BY <2>7, <3>1, <3>3
      <4> QED
        BY <4>1, FS_Singleton
    <3> QED
      BY <3>2, <3>3
  <2> QED
    BY <2>6, <2>7, <2>8
<1> QED
  BY <1>1, OpenInvariance, PTL
=============================================================================
