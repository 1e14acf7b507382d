------------------------ MODULE AdministrationProofs ------------------------
(***************************************************************************)
(* Machine-checked proofs about Administration, for any sets of tenants,   *)
(* vaults and tokens, imports of any length and any number of changes,     *)
(* failed saves and restarts.                                              *)
(*                                                                         *)
(* An import and the walk up the tenant hierarchy are recursive functions. *)
(* The induction principle they need is derived here from the well-ordering *)
(* of the naturals, stated about sets instead of predicates.               *)
(***************************************************************************)
EXTENDS Administration, SequenceTheorems, FiniteSetTheorems, WellFoundedInduction, TLAPS

-----------------------------------------------------------------------------
(***************************************************************************)
(* Induction and recursion                                                 *)
(***************************************************************************)
LEMMA LeastNatural ==
    ASSUME NEW T, T \subseteq Nat, T # {}
    PROVE  \E x \in T : \A y \in T : ~(y < x)
<1>1. \E x \in T : \A y \in T : ~(<<y, x>> \in OpToRel(<, Nat))
  BY WFMin, NatLessThanWellFounded
<1>2. \A x \in T, y \in T : y < x => <<y, x>> \in OpToRel(<, Nat)
  BY DEF OpToRel
<1>. QED
  BY <1>1, <1>2

LEMMA SetInduction ==
    ASSUME NEW S, 0 \in S, \A n \in Nat : n \in S => n + 1 \in S
    PROVE  Nat \subseteq S
<1>. DEFINE T == {n \in Nat : n \notin S}
<1>. SUFFICES ASSUME T # {} PROVE FALSE
  OBVIOUS
<1>1. PICK x \in T : \A y \in T : ~(y < x)
  BY LeastNatural
<1>2. x # 0 /\ x - 1 \in Nat /\ x - 1 < x
  OBVIOUS
<1>3. x - 1 \in S
  BY <1>1, <1>2
<1>4. (x - 1) + 1 \in S
  BY <1>2, <1>3
<1>. QED
  BY <1>4

\* A function on 0..N whose value at n follows from its value at n - 1.
Recursive(f, N, D, base, G) ==
    f \in [0..N -> D] /\ f[0] = base /\ \A n \in 1..N : f[n] = G[n][f[n - 1]]

LEMMA RecursionExists ==
    ASSUME NEW D, NEW base \in D, NEW N \in Nat, NEW G \in [1..N -> [D -> D]]
    PROVE  \E f : Recursive(f, N, D, base, G)
<1>. DEFINE Good(k, f) == f[0] = base /\ \A n \in 1..k : f[n] = G[n][f[n - 1]]
            S == {k \in Nat : k <= N => \E f \in [0..k -> D] : Good(k, f)}
<1>1. 0 \in S
  <2>1. [i \in 0..0 |-> base] \in [0..0 -> D] /\ Good(0, [i \in 0..0 |-> base])
    OBVIOUS
  <2>. QED
    BY <2>1
<1>2. ASSUME NEW k \in Nat, k \in S, k + 1 <= N
      PROVE  \E f \in [0..(k + 1) -> D] : Good(k + 1, f)
  <2>1. PICK f \in [0..k -> D] : Good(k, f)
    BY <1>2
  <2>. DEFINE g == [i \in 0..(k + 1) |-> IF i = k + 1 THEN G[k + 1][f[k]] ELSE f[i]]
  <2>2. k + 1 \in 1..N /\ f[k] \in D
    BY <1>2
  <2>3. G[k + 1][f[k]] \in D
    BY <2>2
  <2>4. g \in [0..(k + 1) -> D]
    BY <2>3
  <2>5. Good(k + 1, g)
    <3>1. g[0] = base
      BY <2>1
    <3>2. ASSUME NEW n \in 1..(k + 1) PROVE g[n] = G[n][g[n - 1]]
      <4>1. CASE n = k + 1
        BY <4>1
      <4>2. CASE n # k + 1
        <5>1. n \in 1..k /\ n - 1 \in 0..k
          BY <4>2
        <5>2. g[n] = f[n] /\ g[n - 1] = f[n - 1]
          BY <5>1, <4>2
        <5>. QED
          BY <2>1, <5>1, <5>2
      <4>. QED
        BY <4>1, <4>2
    <3>. QED
      BY <3>1, <3>2
  <2>. QED
    BY <2>4, <2>5
<1>. HIDE DEF Good
<1>3. \A k \in Nat : k \in S => k + 1 \in S
  BY <1>2
<1>4. N \in S
  BY <1>1, <1>3, SetInduction
<1>. QED
  BY <1>4 DEF Good, Recursive

LEMMA UpTo ==
    ASSUME NEW N \in Nat, NEW D, NEW f, f[0] \in D,
           \A n \in 1..N : f[n - 1] \in D => f[n] \in D
    PROVE  \A n \in 0..N : f[n] \in D
<1>. DEFINE S == {n \in Nat : n <= N => f[n] \in D}
<1>1. 0 \in S
  OBVIOUS
<1>2. ASSUME NEW n \in Nat, n \in S PROVE n + 1 \in S
  <2>1. CASE n + 1 <= N
    <3>1. n + 1 \in 1..N /\ (n + 1) - 1 = n
      BY <2>1
    <3>2. f[n] \in D
      BY <1>2, <2>1
    <3>3. f[n + 1] \in D
      BY <3>1, <3>2
    <3>. QED
      BY <3>3
  <2>. QED
    BY <2>1
<1>3. Nat \subseteq S
  BY <1>1, <1>2, SetInduction
<1>. QED
  BY <1>3

-----------------------------------------------------------------------------
(***************************************************************************)
(* The walk up the hierarchy: lineage(m, t) is the least set that t is in  *)
(* and that every parent of a member is in.  Cardinality(Tenants) steps    *)
(* are enough, since a step that adds nothing is the last to add anything. *)
(***************************************************************************)
Existing(m) == {t \in Tenants : exists(m, t)}
Known(m) == Existing(m) \cup {Top}

ParentsKnown(m) == \A t \in Existing(m) : m.parent[t] \in Known(m)

Closed(m, C) == C \subseteq Known(m) /\ \A x \in C \ {Top} : m.parent[x] \in C

parentsOf(m, u) == {m.parent[x] : x \in u \ {Top}}

LEMMA TopIsNoTenant == Top \notin Tenants /\ Absent \notin Tenants /\ Top # Absent
BY AdministrationAssumption

LEMMA ExistingFinite ==
    ASSUME NEW m
    PROVE  /\ IsFiniteSet(Existing(m)) /\ Cardinality(Existing(m)) <= Cardinality(Tenants)
           /\ Cardinality(Tenants) \in Nat /\ Cardinality(Existing(m)) \in Nat
           /\ IsFiniteSet(Known(m)) /\ Cardinality(Known(m)) = Cardinality(Existing(m)) + 1
           /\ Cardinality(Existing(m)) = Cardinality(Tenants) => Existing(m) = Tenants
<1>1. Existing(m) \in SUBSET Tenants
  BY DEF Existing
<1>2. IsFiniteSet(Tenants)
  BY AdministrationAssumption
<1>3. /\ IsFiniteSet(Existing(m)) /\ Cardinality(Existing(m)) <= Cardinality(Tenants)
      /\ Cardinality(Existing(m)) = Cardinality(Tenants) => Existing(m) = Tenants
  BY <1>1, <1>2, FS_Subset
<1>4. Cardinality(Tenants) \in Nat /\ Cardinality(Existing(m)) \in Nat
  BY <1>2, <1>3, FS_CardinalityType
<1>5. Top \notin Existing(m)
  BY TopIsNoTenant DEF Existing
<1>. QED
  BY <1>3, <1>4, <1>5, FS_AddElement DEF Known

LEMMA LineageSteps ==
    ASSUME NEW m, ParentsKnown(m), NEW t \in Existing(m)
    PROVE  \E up \in [0..Cardinality(Tenants) -> SUBSET Known(m)] :
               /\ up[0] = {t}
               /\ \A n \in 1..Cardinality(Tenants) :
                      up[n] = up[n - 1] \cup parentsOf(m, up[n - 1])
               /\ lineage(m, t) = up[Cardinality(Tenants)] \ {Top}
<1>. DEFINE N == Cardinality(Tenants)
            U == SUBSET Known(m)
            G == [n \in 1..N |-> [u \in U |-> u \cup parentsOf(m, u)]]
<1>. N \in Nat
  BY ExistingFinite
<1>1. {t} \in U
  BY DEF Known
<1>2. ASSUME NEW u \in U PROVE u \cup parentsOf(m, u) \in U
  <2>1. ASSUME NEW x \in u, x # Top PROVE m.parent[x] \in Known(m)
    BY <1>2, <2>1 DEF Known, ParentsKnown
  <2>. QED
    BY <1>2, <2>1 DEF parentsOf
<1>3. G \in [1..N -> [U -> U]]
  BY <1>2
<1>4. PICK f : Recursive(f, N, U, {t}, G)
  <2>. HIDE DEF N, U, G
  <2>. QED
    BY <1>1, <1>3, RecursionExists
<1>. DEFINE Step(g) == [n \in 0..N |->
                            IF n = 0 THEN {t}
                            ELSE g[n - 1] \cup {m.parent[x] : x \in g[n - 1] \ {Top}}]
            up == CHOOSE g : g = Step(g)
<1>5. f = Step(f)
  <2>1. f \in [0..N -> U] /\ f[0] = {t} /\ \A n \in 1..N : f[n] = G[n][f[n - 1]]
    BY <1>4 DEF Recursive
  <2>2. ASSUME NEW n \in 1..N PROVE f[n] = f[n - 1] \cup parentsOf(m, f[n - 1])
    <3>1. f[n - 1] \in U
      BY <2>1
    <3>. QED
      BY <2>1, <3>1
  <2>3. \A n \in 0..N : f[n] = Step(f)[n]
    BY <2>1, <2>2 DEF parentsOf
  <2>. QED
    BY <2>1, <2>3
<1>6. up = Step(up)
  BY <1>5
<1>7. lineage(m, t) = up[N] \ {Top}
  BY DEF lineage
<1>. HIDE DEF up
<1>8. up[0] = {t} /\ \A n \in 1..N : up[n] = up[n - 1] \cup parentsOf(m, up[n - 1])
  <2>1. \A n \in 0..N : up[n] = Step(up)[n]
    BY <1>6
  <2>2. up[0] = {t}
    <3>1. 0 \in 0..N
      OBVIOUS
    <3>. QED
      BY <2>1, <3>1
  <2>3. ASSUME NEW n \in 1..N PROVE up[n] = up[n - 1] \cup parentsOf(m, up[n - 1])
    <3>1. n \in 0..N /\ n # 0
      OBVIOUS
    <3>. QED
      BY <2>1, <3>1 DEF parentsOf
  <2>. QED
    BY <2>2, <2>3
<1>9. \A n \in 0..N : up[n] \in U
  <2>1. \A n \in 1..N : up[n - 1] \in U => up[n] \in U
    BY <1>2, <1>8
  <2>. HIDE DEF N, U
  <2>. QED
    BY <1>1, <1>8, <2>1, UpTo
<1>10. up \in [0..N -> U]
  <2>1. up = [n \in 0..N |-> Step(up)[n]]
    BY <1>6
  <2>. HIDE DEF Step, U
  <2>. QED
    BY <1>6, <1>9, <2>1
<1>. QED
  BY <1>7, <1>8, <1>10

\* What is reached from t can be left by no parent, and is no more than that.
LEMMA LineageLeast ==
    ASSUME NEW m, ParentsKnown(m), NEW t \in Existing(m)
    PROVE  /\ t \in lineage(m, t)
           /\ Closed(m, lineage(m, t) \cup {Top})
           /\ \A C : Closed(m, C) /\ t \in C => lineage(m, t) \subseteq C
<1>. DEFINE N == Cardinality(Tenants)
            K == Known(m)
            saturated(u) == parentsOf(m, u) \subseteq u
<1>1. PICK up \in [0..N -> SUBSET K] :
          /\ up[0] = {t}
          /\ \A n \in 1..N : up[n] = up[n - 1] \cup parentsOf(m, up[n - 1])
          /\ lineage(m, t) = up[N] \ {Top}
  BY LineageSteps
<1>2. N \in Nat /\ IsFiniteSet(K) /\ Cardinality(K) \in Nat /\ Cardinality(K) <= N + 1
  BY ExistingFinite
<1>3. ASSUME NEW n \in 0..N
      PROVE  up[n] \in SUBSET K /\ IsFiniteSet(up[n]) /\ Cardinality(up[n]) \in Nat
  BY <1>1, <1>2, FS_Subset, FS_CardinalityType
<1>4. \A n \in 0..N : t \in up[n]
  <2>. DEFINE D == {u \in SUBSET K : t \in u}
  <2>1. up[0] \in D
    BY <1>1, <1>3, <1>2
  <2>2. \A n \in 1..N : up[n - 1] \in D => up[n] \in D
    BY <1>1
  <2>3. \A n \in 0..N : up[n] \in D
    <3>. HIDE DEF D
    <3>. QED
      BY <1>2, <2>1, <2>2, UpTo
  <2>. QED
    BY <2>3
<1>5. saturated(up[N]) \/ Cardinality(up[N]) > N
  <2>. DEFINE S == {n \in Nat : n <= N => saturated(up[n]) \/ Cardinality(up[n]) > n}
  <2>1. 0 \in S
    <3>1. Cardinality({t}) = 1
      BY FS_Singleton
    <3>2. Cardinality(up[0]) > 0
      BY <1>1, <3>1
    <3>. QED
      BY <3>2
  <2>2. ASSUME NEW n \in Nat, n \in S, n + 1 <= N PROVE n + 1 \in S
    <3>1. n \in 0..N /\ n + 1 \in 0..N /\ n + 1 \in 1..N /\ (n + 1) - 1 = n
      BY <2>2, <1>2
    <3>2. up[n + 1] = up[n] \cup parentsOf(m, up[n])
      BY <1>1, <3>1
    <3>3. CASE saturated(up[n])
      <4>1. up[n + 1] = up[n]
        BY <3>2, <3>3
      <4>. QED
        BY <3>3, <4>1
    <3>4. CASE ~saturated(up[n])
      <4>1. Cardinality(up[n]) > n
        BY <2>2, <3>1, <3>4
      <4>2. up[n] \subseteq up[n + 1] /\ up[n] # up[n + 1]
        BY <3>2, <3>4
      <4>3. IsFiniteSet(up[n + 1]) /\ Cardinality(up[n]) \in Nat /\ Cardinality(up[n + 1]) \in Nat
        BY <1>3, <3>1
      <4>4. Cardinality(up[n]) <= Cardinality(up[n + 1])
            /\ Cardinality(up[n]) # Cardinality(up[n + 1])
        BY <4>2, <4>3, FS_Subset
      <4>5. Cardinality(up[n + 1]) > n + 1
        BY <4>1, <4>3, <4>4
      <4>. QED
        BY <4>5
    <3>. QED
      BY <3>3, <3>4
  <2>3. N \in S
    <3>1. \A n \in Nat : n \in S => n + 1 \in S
      BY <2>2, <1>2
    <3>. HIDE DEF S
    <3>. QED
      BY <1>2, <2>1, <3>1, SetInduction
  <2>. QED
    BY <2>3
<1>6. saturated(up[N])
  <2>. SUFFICES ASSUME Cardinality(up[N]) > N PROVE saturated(up[N])
    BY <1>5
  <2>1. up[N] \in SUBSET K /\ Cardinality(up[N]) \in Nat
    BY <1>2, <1>3
  <2>2. Cardinality(up[N]) <= Cardinality(K)
    BY <1>2, <2>1, FS_Subset
  <2>3. Cardinality(up[N]) = Cardinality(K)
    BY <1>2, <2>1, <2>2
  <2>4. up[N] = K
    BY <1>2, <2>1, <2>3, FS_Subset
  <2>. QED
    BY <2>4 DEF ParentsKnown, Known, parentsOf
<1>7. t \in lineage(m, t)
  BY <1>1, <1>2, <1>4, TopIsNoTenant DEF Existing
<1>8. Closed(m, lineage(m, t) \cup {Top})
  <2>1. up[N] \subseteq K
    BY <1>2, <1>3
  <2>. QED
    BY <1>1, <1>6, <2>1 DEF Closed, Known, parentsOf
<1>9. ASSUME NEW C, Closed(m, C), t \in C PROVE lineage(m, t) \subseteq C
  <2>. DEFINE D == SUBSET (C \cup {Top})
  <2>1. up[0] \in D
    BY <1>1, <1>9
  <2>2. \A n \in 1..N : up[n - 1] \in D => up[n] \in D
    BY <1>1, <1>9 DEF Closed, parentsOf
  <2>3. \A n \in 0..N : up[n] \in D
    <3>. HIDE DEF D
    <3>. QED
      BY <1>2, <2>1, <2>2, UpTo
  <2>4. up[N] \in D
    BY <1>2, <2>3
  <2>. QED
    BY <1>1, <2>4
<1>. QED
  BY <1>7, <1>8, <1>9

\* t is not above its own parent: something closed holds the parent and not t.
Separated(m, t) == \E C : Closed(m, C) /\ m.parent[t] \in C /\ t \notin C

LEMMA SeparatedIsAcyclic ==
    ASSUME NEW m, ParentsKnown(m), NEW t \in Existing(m)
    PROVE  Separated(m, t) <=> m.parent[t] = Top \/ t \notin lineage(m, m.parent[t])
<1>1. t # Top /\ (m.parent[t] = Top \/ m.parent[t] \in Existing(m))
  BY TopIsNoTenant DEF ParentsKnown, Known, Existing
<1>2. CASE m.parent[t] = Top
  <2>1. Closed(m, {Top})
    BY DEF Closed, Known
  <2>. QED
    BY <1>1, <1>2, <2>1 DEF Separated
<1>3. CASE m.parent[t] \in Existing(m)
  <2>. DEFINE L == lineage(m, m.parent[t])
  <2>1. /\ m.parent[t] \in L /\ Closed(m, L \cup {Top})
        /\ \A C : Closed(m, C) /\ m.parent[t] \in C => L \subseteq C
    BY <1>3, LineageLeast
  <2>2. m.parent[t] # Top
    BY <1>3, TopIsNoTenant DEF Existing
  <2>. HIDE DEF L
  <2>3. t \notin L => Separated(m, t)
    BY <1>1, <2>1 DEF Separated
  <2>4. Separated(m, t) => t \notin L
    BY <2>1 DEF Separated
  <2>. QED
    BY <2>2, <2>3, <2>4 DEF L
<1>. QED
  BY <1>1, <1>2, <1>3

HierarchyOf(m) == ParentsKnown(m) /\ \A t \in Existing(m) : Separated(m, t)

\* n is m with q for the parent of id, and validateTenantParent lets q through.
Reparented(m, n, id, q) ==
    /\ n.parent = [m.parent EXCEPT ![id] = q]
    /\ q = Top \/ (exists(m, q) /\ id \notin lineage(m, q))

\* Such a parent closes no circle.
LEMMA SetParent ==
    ASSUME NEW m, NEW n, NEW id \in Tenants, NEW q, HierarchyOf(m),
           m.parent \in [Tenants -> Tenants \cup {Top, Absent}], Reparented(m, n, id, q)
    PROVE  HierarchyOf(n) /\ Existing(n) = Existing(m) \cup {id}
<1>1. id # Top /\ q # Absent /\ q \in Known(m)
  BY TopIsNoTenant DEF Reparented, exists, Known, Existing
<1>2. n.parent[id] = q /\ \A t \in Tenants \ {id} : n.parent[t] = m.parent[t]
  BY DEF Reparented
<1>3. Existing(n) = Existing(m) \cup {id}
  BY <1>1, <1>2 DEF Existing, exists
<1>4. ParentsKnown(n)
  BY <1>1, <1>2, <1>3 DEF HierarchyOf, ParentsKnown, Known, Existing
<1>5. PICK Q : Closed(m, Q) /\ q \in Q /\ id \notin Q
  <2>1. CASE q = Top
    <3>1. Closed(m, {Top})
      BY DEF Closed, Known
    <3>. QED
      BY <1>1, <2>1, <3>1
  <2>2. CASE q # Top
    <3>1. q \in Existing(m) /\ id \notin lineage(m, q)
      BY <2>2 DEF Reparented, exists, Existing
    <3>2. Closed(m, lineage(m, q) \cup {Top}) /\ q \in lineage(m, q)
      BY <3>1, LineageLeast DEF HierarchyOf
    <3>. QED
      BY <1>1, <3>1, <3>2
  <2>. QED
    BY <2>1, <2>2
<1>6. ASSUME NEW C, Closed(m, C), id \in C => q \in C PROVE Closed(n, C)
  <2>1. C \subseteq Known(n)
    BY <1>3, <1>6 DEF Closed, Known
  <2>2. ASSUME NEW x \in C \ {Top} PROVE n.parent[x] \in C
    <3>1. x \in Tenants
      BY <1>6, <2>2 DEF Closed, Known, Existing
    <3>. QED
      BY <1>2, <1>6, <2>2, <3>1 DEF Closed
  <2>. QED
    BY <2>1, <2>2 DEF Closed
<1>7. ASSUME NEW t \in Existing(n) PROVE Separated(n, t)
  <2>1. CASE t = id
    <3>1. Closed(n, Q)
      BY <1>5, <1>6
    <3>. QED
      BY <1>2, <1>5, <2>1, <3>1 DEF Separated
  <2>2. CASE t # id
    <3>1. t \in Existing(m) /\ t # Top /\ n.parent[t] = m.parent[t]
      BY <1>2, <1>3, <2>2, TopIsNoTenant DEF Existing
    <3>2. PICK C : Closed(m, C) /\ m.parent[t] \in C /\ t \notin C
      BY <3>1 DEF HierarchyOf, Separated
    <3>3. CASE t \in Q
      <4>1. Closed(m, C \cap Q) /\ id \notin C \cap Q
        BY <1>5, <3>2 DEF Closed
      <4>2. m.parent[t] \in C \cap Q /\ t \notin C \cap Q
        BY <1>5, <3>1, <3>2, <3>3 DEF Closed
      <4>3. Closed(n, C \cap Q)
        BY <1>6, <4>1
      <4>. QED
        BY <3>1, <4>2, <4>3 DEF Separated
    <3>4. CASE t \notin Q
      <4>1. Closed(m, C \cup Q) /\ q \in C \cup Q
        BY <1>5, <3>2 DEF Closed
      <4>2. Closed(n, C \cup Q)
        BY <1>6, <4>1
      <4>3. m.parent[t] \in C \cup Q /\ t \notin C \cup Q
        BY <3>2, <3>4
      <4>. QED
        BY <3>1, <4>2, <4>3 DEF Separated
    <3>. QED
      BY <3>3, <3>4
  <2>. QED
    BY <2>1, <2>2
<1>. QED
  BY <1>3, <1>4, <1>7 DEF HierarchyOf

-----------------------------------------------------------------------------
(***************************************************************************)
(* Tenants and vaults: what every operation keeps of one state             *)
(***************************************************************************)
TenantsListed(m) ==
    /\ {m.order[i] : i \in DOMAIN m.order} = Existing(m)
    /\ Cardinality(Existing(m)) = Len(m.order)
    /\ m.order # <<>>

VaultsPlaced(m) == \A v \in Vaults : m.vaults[v] \in Existing(m) \cup {Top, Absent}

Sound(m) == m \in State /\ TenantsListed(m) /\ HierarchyOf(m) /\ VaultsPlaced(m)

SoundTenancy(m) ==
    /\ {m.order[i] : i \in DOMAIN m.order} = {t \in Tenants : exists(m, t)}
    /\ Cardinality({t \in Tenants : exists(m, t)}) = Len(m.order)
    /\ \A t \in Tenants : m.parent[t] \notin {Absent, Top} =>
           exists(m, m.parent[t]) /\ t \notin lineage(m, m.parent[t])
    /\ \A v \in Vaults : m.vaults[v] \notin {Absent, Top} => exists(m, m.vaults[v])

LEMMA SoundIsSound == ASSUME NEW m, Sound(m) PROVE SoundTenancy(m)
<1>1. /\ {m.order[i] : i \in DOMAIN m.order} = {t \in Tenants : exists(m, t)}
      /\ Cardinality({t \in Tenants : exists(m, t)}) = Len(m.order)
  BY DEF Sound, TenantsListed, Existing
<1>2. ASSUME NEW t \in Tenants, m.parent[t] \notin {Absent, Top}
      PROVE  exists(m, m.parent[t]) /\ t \notin lineage(m, m.parent[t])
  <2>1. t \in Existing(m) /\ ParentsKnown(m) /\ Separated(m, t)
    BY <1>2 DEF Sound, HierarchyOf, Existing, exists
  <2>2. exists(m, m.parent[t])
    BY <1>2, <2>1 DEF ParentsKnown, Known, Existing
  <2>. QED
    BY <1>2, <2>1, <2>2, SeparatedIsAcyclic
<1>3. \A v \in Vaults : m.vaults[v] \notin {Absent, Top} => exists(m, m.vaults[v])
  BY DEF Sound, VaultsPlaced, Existing
<1>. QED
  BY <1>1, <1>2, <1>3 DEF SoundTenancy

LEMMA HeadExists ==
    ASSUME NEW m, Sound(m)
    PROVE  Head(m.order) \in Tenants /\ exists(m, Head(m.order))
<1>1. m.order \in Seq(Tenants) /\ m.order # <<>>
  BY DEF Sound, State, TenantsListed
<1>2. 1 \in DOMAIN m.order /\ Head(m.order) = m.order[1]
  BY <1>1
<1>. QED
  BY <1>2 DEF Sound, TenantsListed, Existing

\* The tenants have a list of their own; a new one goes to either end of it.
LEMMA TenantChange ==
    ASSUME NEW m, Sound(m), NEW n \in State, NEW id \in Tenants, NEW q,
           Reparented(m, n, id, q), n.vaults = m.vaults,
           IF exists(m, id) THEN n.order = m.order
           ELSE n.order = <<id>> \o m.order \/ n.order = Append(m.order, id)
    PROVE  Sound(n)
<1>1. HierarchyOf(n) /\ Existing(n) = Existing(m) \cup {id}
  <2>1. HierarchyOf(m) /\ m.parent \in [Tenants -> Tenants \cup {Top, Absent}]
    BY DEF Sound, State
  <2>. QED
    BY <2>1, SetParent
<1>2. m.order \in Seq(Tenants) /\ n.order \in Seq(Tenants)
  BY DEF Sound, State
<1>3. TenantsListed(n)
  <2>1. CASE exists(m, id)
    <3>1. n.order = m.order /\ Existing(n) = Existing(m)
      BY <1>1, <2>1 DEF Existing
    <3>. QED
      BY <3>1 DEF Sound, TenantsListed
  <2>2. CASE ~exists(m, id)
    <3>1. id \notin Existing(m)
      BY <2>2 DEF Existing
    <3>2. /\ Cardinality(Existing(m)) \in Nat
          /\ Cardinality(Existing(n)) = Cardinality(Existing(m)) + 1
      BY <1>1, <3>1, ExistingFinite, FS_AddElement
    <3>3. Len(n.order) = Len(m.order) + 1
      BY <1>2, <2>2
    <3>4. {n.order[i] : i \in DOMAIN n.order} = {m.order[i] : i \in DOMAIN m.order} \cup {id}
      <4>1. CASE n.order = Append(m.order, id)
        <5>1. /\ DOMAIN n.order = 1..(Len(m.order) + 1) /\ Len(m.order) \in Nat
              /\ DOMAIN m.order = 1..Len(m.order)
              /\ n.order[Len(m.order) + 1] = id
              /\ \A i \in 1..Len(m.order) : n.order[i] = m.order[i]
          BY <1>2, <4>1
        <5>. QED
          BY <5>1
      <4>2. CASE n.order = <<id>> \o m.order
        <5>1. /\ DOMAIN n.order = 1..(Len(m.order) + 1) /\ Len(m.order) \in Nat
              /\ DOMAIN m.order = 1..Len(m.order)
              /\ n.order[1] = id
              /\ \A i \in 1..Len(m.order) : n.order[i + 1] = m.order[i]
          BY <1>2, <4>2
        <5>2. \A i \in DOMAIN n.order : i = 1 \/ i - 1 \in DOMAIN m.order
          BY <5>1
        <5>3. \A i \in DOMAIN n.order : n.order[i] \in {m.order[j] : j \in DOMAIN m.order} \cup {id}
          <6>1. ASSUME NEW i \in DOMAIN n.order, i # 1
                PROVE  n.order[i] \in {m.order[j] : j \in DOMAIN m.order}
            <7>1. i - 1 \in DOMAIN m.order /\ (i - 1) + 1 = i
              BY <5>1, <5>2, <6>1
            <7>2. n.order[i] = m.order[i - 1]
              BY <5>1, <7>1
            <7>. QED
              BY <7>1, <7>2
          <6>. QED
            BY <5>1, <6>1
        <5>4. \A j \in DOMAIN m.order : m.order[j] \in {n.order[i] : i \in DOMAIN n.order}
          <6>1. \A j \in DOMAIN m.order : j + 1 \in DOMAIN n.order
            BY <5>1
          <6>. QED
            BY <5>1, <6>1
        <5>5. id \in {n.order[i] : i \in DOMAIN n.order}
          BY <5>1
        <5>. QED
          BY <5>3, <5>4, <5>5
      <4>. QED
        BY <2>2, <4>1, <4>2
    <3>5. n.order # <<>>
      BY <1>2, <3>3
    <3>. QED
      BY <1>1, <3>2, <3>3, <3>4, <3>5 DEF Sound, TenantsListed
  <2>. QED
    BY <2>1, <2>2
<1>4. VaultsPlaced(n)
  BY <1>1 DEF Sound, VaultsPlaced
<1>. QED
  BY <1>1, <1>3, <1>4 DEF Sound

LEMMA SetVault ==
    ASSUME NEW m, Sound(m), NEW v \in Vaults, NEW t, t = Top \/ (t \in Tenants /\ exists(m, t))
    PROVE  Sound([m EXCEPT !.vaults[v] = t])
<1>. DEFINE n == [m EXCEPT !.vaults[v] = t]
<1>1. /\ n \in State /\ n.order = m.order /\ n.parent = m.parent
      /\ n.vaults = [m.vaults EXCEPT ![v] = t]
  BY DEF Sound, State
<1>2. /\ Existing(n) = Existing(m) /\ Known(n) = Known(m)
      /\ \A C : Closed(m, C) => Closed(n, C)
  BY <1>1 DEF Existing, exists, Known, Closed
<1>3. TenantsListed(n) /\ HierarchyOf(n)
  BY <1>1, <1>2 DEF Sound, TenantsListed, HierarchyOf, ParentsKnown, Separated
<1>4. VaultsPlaced(n)
  <2>1. t \in Existing(m) \cup {Top, Absent}
    BY DEF Existing
  <2>2. m.vaults \in [Vaults -> Tenants \cup {Top, Absent}]
    BY DEF Sound, State
  <2>. QED
    BY <1>1, <1>2, <2>1, <2>2 DEF Sound, VaultsPlaced
<1>. QED
  BY <1>1, <1>3, <1>4 DEF Sound

LEMMA SetTokens ==
    ASSUME NEW m, Sound(m), NEW n \in State,
           n.order = m.order, n.parent = m.parent, n.vaults = m.vaults
    PROVE  Sound(n)
<1>1. /\ Existing(n) = Existing(m) /\ Known(n) = Known(m)
      /\ \A C : Closed(m, C) => Closed(n, C)
  BY DEF Existing, exists, Known, Closed
<1>. QED
  BY <1>1 DEF Sound, TenantsListed, HierarchyOf, ParentsKnown, Separated, VaultsPlaced

-----------------------------------------------------------------------------
(***************************************************************************)
(* The metadata import: any number of records, refused anywhere            *)
(***************************************************************************)
\* The outcomes an import may pass through: sound states, with these tokens.
Outcomes(tokens) ==
    {acc \in [m : State, ok : BOOLEAN] : Sound(acc.m) /\ acc.m.tokens = tokens}

LEMMA UpsertTenantStays ==
    ASSUME NEW tokens, NEW acc \in Outcomes(tokens), NEW r \in TenantRecords
    PROVE  upsertTenant(acc, r) \in Outcomes(tokens)
<1>. DEFINE m == acc.m
<1>1. acc \in [m : State, ok : BOOLEAN] /\ Sound(m) /\ m.tokens = tokens
      /\ r.id \in Tenants /\ r.parent \in Tenants \cup {Top}
  BY DEF Outcomes, TenantRecords
<1>2. CASE ~acc.ok \/ ~validTenantParent(m, r.id, r.parent)
  <2>1. upsertTenant(acc, r) = [acc EXCEPT !.ok = FALSE]
    BY <1>2 DEF upsertTenant
  <2>. QED
    BY <1>1, <2>1 DEF Outcomes
<1>3. CASE acc.ok /\ validTenantParent(m, r.id, r.parent)
  <2>. DEFINE order == IF exists(m, r.id) THEN m.order ELSE Append(m.order, r.id)
              n == [withParent(m, r.id, r.parent) EXCEPT !.order = order]
  <2>1. upsertTenant(acc, r) = [acc EXCEPT !.m = n]
    BY <1>3 DEF upsertTenant
  <2>2. /\ m \in State /\ m.order \in Seq(Tenants)
        /\ m.parent \in [Tenants -> Tenants \cup {Top, Absent}]
    BY <1>1 DEF State
  <2>3. /\ n.order = IF exists(m, r.id) THEN m.order ELSE Append(m.order, r.id)
        /\ n.parent = [m.parent EXCEPT ![r.id] = r.parent]
        /\ n.vaults = m.vaults /\ n.tokens = m.tokens
    BY <2>2 DEF withParent, State
  <2>4. n \in State
    <3>1. n.order \in Seq(Tenants)
      <4>1. Append(m.order, r.id) \in Seq(Tenants)
        BY <1>1, <2>2
      <4>. HIDE DEF m, n
      <4>. QED
        BY <2>2, <2>3, <4>1
    <3>. HIDE DEF m
    <3>. QED
      BY <1>1, <2>2, <3>1 DEF withParent, State
  <2>5. Reparented(m, n, r.id, r.parent)
    BY <1>3, <2>3 DEF Reparented, validTenantParent
  <2>. HIDE DEF m, n
  <2>6. Sound(n)
    BY <1>1, <2>3, <2>4, <2>5, TenantChange
  <2>7. n \in State /\ n.tokens = tokens
    BY <1>1, <2>3, <2>4
  <2>. QED
    BY <1>1, <2>1, <2>6, <2>7 DEF Outcomes
<1>. QED
  BY <1>2, <1>3

LEMMA UpsertVaultStays ==
    ASSUME NEW tokens, NEW acc \in Outcomes(tokens), NEW r \in VaultRecords
    PROVE  upsertVault(acc, r) \in Outcomes(tokens)
<1>. DEFINE m == acc.m
            t == IF r.tenant = Top THEN Head(m.order) ELSE r.tenant
<1>1. acc \in [m : State, ok : BOOLEAN] /\ Sound(m) /\ m.tokens = tokens
      /\ r.id \in Vaults /\ r.tenant \in Tenants \cup {Top}
  BY DEF Outcomes, VaultRecords
<1>2. CASE ~acc.ok \/ ~exists(m, t)
  <2>1. upsertVault(acc, r) = [acc EXCEPT !.ok = FALSE]
    BY <1>2 DEF upsertVault
  <2>. QED
    BY <1>1, <2>1 DEF Outcomes
<1>3. CASE acc.ok /\ exists(m, t)
  <2>. DEFINE n == [m EXCEPT !.vaults[r.id] = t]
  <2>1. upsertVault(acc, r) = [acc EXCEPT !.m = n]
    <3>1. upsertVault(acc, r) = [acc EXCEPT !.m.vaults[r.id] = t]
      BY <1>3 DEF upsertVault
    <3>. QED
      BY <1>1, <3>1
  <2>2. t \in Tenants /\ exists(m, t)
    BY <1>1, <1>3 DEF exists
  <2>3. n.tokens = m.tokens
    BY <1>1 DEF State
  <2>. HIDE DEF t
  <2>4. Sound(n)
    <3>. HIDE DEF m
    <3>. QED
      BY <1>1, <2>2, SetVault
  <2>. HIDE DEF m, n
  <2>5. n \in State
    BY <2>4 DEF Sound
  <2>. QED
    BY <1>1, <2>1, <2>3, <2>4, <2>5 DEF Outcomes
<1>. QED
  BY <1>2, <1>3

LEMMA WithTenantsStays ==
    ASSUME NEW m, Sound(m), NEW len \in Nat, NEW records \in [1..len -> TenantRecords]
    PROVE  withTenants(m, records) \in Outcomes(m.tokens)
<1>. DEFINE D == Outcomes(m.tokens)
            base == [m |-> m, ok |-> TRUE]
            G == [n \in 1..len |-> [acc \in D |-> upsertTenant(acc, records[n])]]
            Step(g) == [n \in 0..len |->
                            IF n = 0 THEN base ELSE upsertTenant(g[n - 1], records[n])]
            after == CHOOSE g : g = Step(g)
<1>1. base \in D
  BY DEF Outcomes, Sound
<1>2. \A n \in 1..len : \A acc \in D : upsertTenant(acc, records[n]) \in D
  BY UpsertTenantStays
<1>3. G \in [1..len -> [D -> D]]
  <2>. HIDE DEF D
  <2>. QED
    BY <1>2
<1>4. Len(records) = len
  BY SeqDef
<1>5. withTenants(m, records) = after[len]
  BY <1>4 DEF withTenants
<1>6. \E f : f = Step(f)
  <2>1. PICK f : Recursive(f, len, D, base, G)
    <3>. HIDE DEF D, G, base
    <3>. QED
      BY <1>1, <1>3, RecursionExists
  <2>2. f \in [0..len -> D] /\ f[0] = base /\ \A n \in 1..len : f[n] = G[n][f[n - 1]]
    BY <2>1 DEF Recursive
  <2>. HIDE DEF D, base
  <2>3. \A n \in 1..len : f[n] = upsertTenant(f[n - 1], records[n])
    <3>1. \A n \in 1..len : f[n - 1] \in D
      BY <2>2
    <3>. QED
      BY <2>2, <3>1
  <2>4. \A n \in 0..len : f[n] = Step(f)[n]
    BY <2>2, <2>3
  <2>. QED
    BY <2>2, <2>4
<1>7. after = Step(after)
  BY <1>6
<1>8. after[0] \in D /\ \A n \in 1..len : after[n - 1] \in D => after[n] \in D
  <2>. HIDE DEF after, D, base
  <2>1. \A n \in 0..len : after[n] = Step(after)[n]
    BY <1>7
  <2>2. after[0] = base
    <3>1. 0 \in 0..len
      OBVIOUS
    <3>. QED
      BY <2>1, <3>1
  <2>3. ASSUME NEW n \in 1..len PROVE after[n] = upsertTenant(after[n - 1], records[n])
    <3>1. n \in 0..len /\ n # 0
      OBVIOUS
    <3>. QED
      BY <2>1, <3>1
  <2>. QED
    BY <1>1, <1>2, <2>2, <2>3
<1>9. after[len] \in D
  <2>. HIDE DEF after, D
  <2>1. \A n \in 0..len : after[n] \in D
    BY <1>8, UpTo
  <2>. QED
    BY <2>1
<1>. QED
  BY <1>5, <1>9

LEMMA WithVaultsStays ==
    ASSUME NEW tokens, NEW base \in Outcomes(tokens),
           NEW len \in Nat, NEW records \in [1..len -> VaultRecords]
    PROVE  withVaults(base, records) \in Outcomes(tokens)
<1>. DEFINE D == Outcomes(tokens)
            G == [n \in 1..len |-> [acc \in D |-> upsertVault(acc, records[n])]]
            Step(g) == [n \in 0..len |->
                            IF n = 0 THEN base ELSE upsertVault(g[n - 1], records[n])]
            after == CHOOSE g : g = Step(g)
<1>1. base \in D
  OBVIOUS
<1>2. \A n \in 1..len : \A acc \in D : upsertVault(acc, records[n]) \in D
  BY UpsertVaultStays
<1>3. G \in [1..len -> [D -> D]]
  <2>. HIDE DEF D
  <2>. QED
    BY <1>2
<1>4. Len(records) = len
  BY SeqDef
<1>5. withVaults(base, records) = after[len]
  BY <1>4 DEF withVaults
<1>6. \E f : f = Step(f)
  <2>1. PICK f : Recursive(f, len, D, base, G)
    <3>. HIDE DEF D, G
    <3>. QED
      BY <1>1, <1>3, RecursionExists
  <2>2. f \in [0..len -> D] /\ f[0] = base /\ \A n \in 1..len : f[n] = G[n][f[n - 1]]
    BY <2>1 DEF Recursive
  <2>. HIDE DEF D
  <2>3. \A n \in 1..len : f[n] = upsertVault(f[n - 1], records[n])
    <3>1. \A n \in 1..len : f[n - 1] \in D
      BY <2>2
    <3>. QED
      BY <2>2, <3>1
  <2>4. \A n \in 0..len : f[n] = Step(f)[n]
    BY <2>2, <2>3
  <2>. QED
    BY <2>2, <2>4
<1>7. after = Step(after)
  BY <1>6
<1>8. after[0] \in D /\ \A n \in 1..len : after[n - 1] \in D => after[n] \in D
  <2>. HIDE DEF after, D
  <2>1. \A n \in 0..len : after[n] = Step(after)[n]
    BY <1>7
  <2>2. after[0] = base
    <3>1. 0 \in 0..len
      OBVIOUS
    <3>. QED
      BY <2>1, <3>1
  <2>3. ASSUME NEW n \in 1..len PROVE after[n] = upsertVault(after[n - 1], records[n])
    <3>1. n \in 0..len /\ n # 0
      OBVIOUS
    <3>. QED
      BY <2>1, <3>1
  <2>. QED
    BY <1>1, <1>2, <2>2, <2>3
<1>9. after[len] \in D
  <2>. HIDE DEF after, D
  <2>1. \A n \in 0..len : after[n] \in D
    BY <1>8, UpTo
  <2>. QED
    BY <2>1
<1>. QED
  BY <1>5, <1>9

LEMMA ImportStays ==
    ASSUME NEW m, Sound(m), NEW i \in Nat, NEW j \in Nat,
           NEW tenants \in [1..i -> TenantRecords], NEW vaults \in [1..j -> VaultRecords]
    PROVE  Sound(imported(m, tenants, vaults).m) /\ imported(m, tenants, vaults).m.tokens = m.tokens
<1>1. imported(m, tenants, vaults) \in Outcomes(m.tokens)
  BY WithTenantsStays, WithVaultsStays DEF imported
<1>. QED
  BY <1>1 DEF Outcomes

-----------------------------------------------------------------------------
(***************************************************************************)
(* Service tokens                                                          *)
(***************************************************************************)
\* Present tokens have been issued under a key version there has been, no two
\* share a raw token, and none with a retired raw token is anything but revoked.
TokensSound(m, version, top, gone) ==
    \A k \in Tokens : m.tokens[k] # Absent =>
        /\ m.tokens[k].raw <= top /\ m.tokens[k].key <= version
        /\ m.tokens[k].key = 0 <=> m.tokens[k].version = "legacy"
        /\ m.tokens[k].raw \in gone => m.tokens[k].revoked
        /\ \A l \in Tokens \ {k} : m.tokens[l] # Absent => m.tokens[l].raw # m.tokens[k].raw

Numbers ==
    /\ keyVersion \in Nat \ {0}
    /\ issued \in 1..MaxRaw
    /\ retired \subseteq 1..issued /\ retiring \subseteq 1..issued

\* What memory promises while a transaction is open is more than what disk and
\* snapshot do.
AdminInv ==
    /\ Numbers
    /\ \A m \in Copies : Sound(m) /\ TokensSound(m, keyVersion, issued, retired)
    /\ TokensSound(mem, keyVersion, issued, retired \cup retiring)
    /\ retiring # {} => Open /\ saveRequested = TRUE

LEMMA CopiesAre ==
    /\ mem \in Copies /\ disk \in Copies /\ (Open => snapshot \in Copies)
    /\ \A m \in Copies : m = mem \/ m = disk \/ (Open /\ m = snapshot)
BY DEF Copies, Open

LEMMA InvMem == ASSUME AdminInv
    PROVE  Sound(mem) /\ TokensSound(mem, keyVersion, issued, retired \cup retiring) /\ Numbers
BY CopiesAre DEF AdminInv

LEMMA InvImplies == ASSUME AdminInv
    PROVE (saveRequested \in BOOLEAN => AdminTypeOK) /\ HierarchySound /\ RetiredNeverServes
<1>1. ASSUME saveRequested \in BOOLEAN PROVE AdminTypeOK
  <2>1. mem \in State /\ disk \in State /\ snapshot \in State \cup {NoSnapshot}
    BY CopiesAre DEF AdminInv, Sound, Open
  <2>2. ASSUME NEW m \in Copies, NEW k \in Tokens, m.tokens[k] # Absent
        PROVE  /\ m.tokens[k].raw <= issued /\ m.tokens[k].key <= keyVersion
               /\ m.tokens[k].key = 0 <=> m.tokens[k].version = "legacy"
    BY <2>2 DEF AdminInv, TokensSound
  <2>. QED
    BY <1>1, <2>1, <2>2 DEF AdminTypeOK
<1>2. HierarchySound
  <2>1. ASSUME NEW m \in Copies PROVE SoundTenancy(m)
    BY SoundIsSound DEF AdminInv
  <2>. QED
    BY <2>1 DEF HierarchySound, SoundTenancy
<1>3. RetiredNeverServes
  <2>1. ASSUME NEW m, NEW gone, TokensSound(m, keyVersion, issued, gone),
               NEW k \in Tokens, NEW raw \in gone, NEW s \in Secrets, serves(m, k, raw, s)
        PROVE  FALSE
    <3>1. m.tokens[k] # Absent /\ m.tokens[k].raw = raw /\ ~m.tokens[k].revoked
      BY <2>1 DEF serves, matches
    <3>. QED
      BY <2>1, <3>1 DEF TokensSound
  <2>2. \A m \in Copies, k \in Tokens, raw \in retired, s \in Secrets : ~serves(m, k, raw, s)
    BY <2>1 DEF AdminInv
  <2>3. \A k \in Tokens, raw \in retired \cup retiring, s \in Secrets : ~serves(mem, k, raw, s)
    BY <2>1 DEF AdminInv
  <2>4. retiring # {} => Open /\ saveRequested = TRUE
    BY DEF AdminInv
  <2>. QED
    BY <2>2, <2>3, <2>4 DEF RetiredNeverServes
<1>. QED
  BY <1>1, <1>2, <1>3

LEMMA TokenShape ==
    ASSUME NEW m, Sound(m), NEW k \in Tokens
    PROVE  /\ m.tokens \in [Tokens -> {Absent} \cup Token]
           /\ m.tokens[k] # Absent => m.tokens[k] \in Token
BY DEF Sound, State

LEMMA TokensLater ==
    ASSUME NEW m, Sound(m), NEW v \in Nat, NEW w \in Nat, v <= w,
           NEW t \in Nat, NEW u \in Nat, t <= u, NEW gone, TokensSound(m, v, t, gone)
    PROVE  TokensSound(m, w, u, gone)
<1>1. ASSUME NEW k \in Tokens, m.tokens[k] # Absent
      PROVE  m.tokens[k].raw \in Nat /\ m.tokens[k].key \in Nat
  BY <1>1, TokenShape, AdministrationAssumption DEF Token
<1>. QED
  BY <1>1 DEF TokensSound

LEMMA TokensOfLess ==
    ASSUME NEW m, NEW v, NEW t, NEW gone, NEW less, less \subseteq gone, TokensSound(m, v, t, gone)
    PROVE  TokensSound(m, v, t, less)
BY DEF TokensSound

\* A handler that leaves n in memory, whether its save throws, is put off or not.
LEMMA StepTo ==
    ASSUME AdminInv, NEW n, Sound(n),
           TokensSound(n, keyVersion', issued', retired' \cup retiring'),
           mem' = n, disk' \in {n, disk}, snapshot' = snapshot,
           Numbers', keyVersion <= keyVersion', issued <= issued',
           retired' = retired \/ (disk' = n /\ ~Open),
           retiring' # {} => Open /\ saveRequested' = TRUE
    PROVE  AdminInv'
<1>1. keyVersion \in Nat /\ issued \in Nat /\ keyVersion' \in Nat /\ issued' \in Nat
  BY AdministrationAssumption DEF AdminInv, Numbers
<1>2. TokensSound(n, keyVersion', issued', retired')
  BY TokensOfLess
<1>3. ASSUME NEW m \in Copies, retired' = retired
      PROVE  Sound(m) /\ TokensSound(m, keyVersion', issued', retired')
  <2>1. Sound(m) /\ TokensSound(m, keyVersion, issued, retired)
    BY DEF AdminInv
  <2>. QED
    BY <1>1, <1>3, <2>1, TokensLater
<1>4. ASSUME NEW m \in Copies'
      PROVE  Sound(m) /\ TokensSound(m, keyVersion', issued', retired')
  <2>1. m = n \/ (m = disk /\ disk' = disk) \/ (Open /\ m = snapshot)
    BY DEF Copies, Open
  <2>2. m = n \/ (m \in Copies /\ retired' = retired)
    BY <2>1, CopiesAre
  <2>. QED
    BY <1>2, <1>3, <2>2
<1>5. Open' <=> Open
  BY DEF Open
<1>. QED
  BY <1>4, <1>5 DEF AdminInv

\* A transaction is opened or ends, and memory is one of the copies there are.
LEMMA TransactionStep ==
    ASSUME AdminInv, mem' \in Copies, disk' \in Copies, snapshot' \in Copies \cup {NoSnapshot},
           UNCHANGED <<issued, retired>>, retiring' = {},
           keyVersion' \in Nat, keyVersion <= keyVersion'
    PROVE  AdminInv'
<1>1. keyVersion \in Nat \ {0} /\ issued \in 1..MaxRaw /\ issued \in Nat
  BY AdministrationAssumption DEF AdminInv, Numbers
<1>2. ASSUME NEW m \in Copies
      PROVE  Sound(m) /\ TokensSound(m, keyVersion', issued', retired')
  <2>1. Sound(m) /\ TokensSound(m, keyVersion, issued, retired)
    BY DEF AdminInv
  <2>. QED
    BY <1>1, <2>1, TokensLater
<1>3. Copies' \subseteq Copies
  BY DEF Copies
<1>4. TokensSound(mem', keyVersion', issued', retired' \cup retiring')
  <2>1. retired' \cup retiring' = retired'
    OBVIOUS
  <2>. QED
    BY <1>2, <2>1
<1>5. Numbers'
  BY <1>1 DEF AdminInv, Numbers
<1>. QED
  BY <1>2, <1>3, <1>4, <1>5 DEF AdminInv

\* Tenants and vaults change, tokens do not.
LEMMA TenancyStep ==
    ASSUME AdminInv, NEW n, Sound(n), n.tokens = mem.tokens,
           Finished(n) \/ LeftUnsaved(n), UNCHANGED others
    PROVE  AdminInv'
<1>1. /\ keyVersion' = keyVersion /\ issued' = issued /\ retired' = retired
      /\ retiring' = retiring /\ snapshot' = snapshot
  BY DEF others
<1>2. TokensSound(n, keyVersion', issued', retired' \cup retiring')
  BY <1>1 DEF AdminInv, TokensSound
<1>3. mem' = n /\ disk' \in {n, disk} /\ (saveRequested' = saveRequested \/ saveRequested' = TRUE)
  BY DEF Finished, Answered, SaveThrows, LeftUnsaved
<1>4. Numbers' /\ keyVersion <= keyVersion' /\ issued <= issued'
  BY <1>1, <1>3, AdministrationAssumption DEF AdminInv, Numbers
<1>5. retiring' # {} => Open /\ saveRequested' = TRUE
  BY <1>1, <1>3 DEF AdminInv
<1>. QED
  BY <1>1, <1>2, <1>3, <1>4, <1>5, StepTo

\* One token is written; nothing else of the state is.
LEMMA SetToken ==
    ASSUME NEW m, Sound(m), NEW k \in Tokens, NEW token \in Token
    PROVE  /\ Sound([m EXCEPT !.tokens[k] = token])
           /\ [m EXCEPT !.tokens[k] = token].tokens = [m.tokens EXCEPT ![k] = token]
<1>. DEFINE n == [m EXCEPT !.tokens[k] = token]
<1>1. m \in State /\ m.tokens \in [Tokens -> {Absent} \cup Token]
  BY DEF Sound, State
<1>2. /\ n.order = m.order /\ n.parent = m.parent /\ n.vaults = m.vaults
      /\ n.tokens = [m.tokens EXCEPT ![k] = token]
  BY <1>1 DEF State
<1>3. n.tokens \in [Tokens -> {Absent} \cup Token]
  BY <1>1, <1>2
<1>4. n \in State
  BY <1>1, <1>3 DEF State
<1>. HIDE DEF n
<1>5. Sound(n)
  BY <1>2, <1>4, SetTokens
<1>. QED
  BY <1>2, <1>5 DEF n

LEMMA InitInv == ASSUME Init PROVE AdminInv
<1>1. /\ FirstTenant \in Tenants /\ OldToken \in Tokens /\ MaxRaw \in Nat /\ MaxRaw > 0
      /\ Top \notin Tenants /\ Absent \notin Tenants /\ Top # Absent
      /\ \A k \in Tokens : k # Absent
  BY AdministrationAssumption
<1>2. Numbers
  BY <1>1 DEF Init, Numbers
<1>. DEFINE old == [raw |-> 1, version |-> "legacy", key |-> 0, revoked |-> FALSE,
                    scope |-> Secrets]
<1>3. /\ mem.order = <<FirstTenant>>
      /\ mem.parent = [t \in Tenants |-> IF t = FirstTenant THEN Top ELSE Absent]
      /\ mem.vaults = [v \in Vaults |-> Absent]
      /\ mem.tokens = [k \in Tokens |-> IF k # OldToken THEN Absent ELSE old]
      /\ disk = mem
  BY DEF Init
<1>4. mem \in State
  <2>1. old \in Token
    BY <1>1 DEF Token
  <2>2. <<FirstTenant>> \in Seq(Tenants)
    BY <1>1
  <2>3. /\ mem.parent \in [Tenants -> Tenants \cup {Top, Absent}]
        /\ mem.vaults \in [Vaults -> Tenants \cup {Top, Absent}]
    BY <1>3
  <2>4. mem.tokens \in [Tokens -> {Absent} \cup Token]
    <3>. HIDE DEF old
    <3>. QED
      BY <1>3, <2>1
  <2>5. mem = [order |-> mem.order, parent |-> mem.parent, vaults |-> mem.vaults,
               tokens |-> mem.tokens]
    BY DEF Init
  <2>. QED
    BY <1>3, <2>2, <2>3, <2>4, <2>5 DEF State
<1>5. Existing(mem) = {FirstTenant} /\ Known(mem) = {FirstTenant, Top}
  BY <1>1, <1>3 DEF Existing, Known, exists
<1>6. TenantsListed(mem)
  <2>1. Cardinality({FirstTenant}) = 1
    BY FS_Singleton
  <2>2. {<<FirstTenant>>[i] : i \in DOMAIN <<FirstTenant>>} = {FirstTenant}
        /\ Len(<<FirstTenant>>) = 1 /\ <<FirstTenant>> # <<>>
    OBVIOUS
  <2>. QED
    BY <1>3, <1>5, <2>1, <2>2 DEF TenantsListed
<1>7. HierarchyOf(mem)
  <2>1. mem.parent[FirstTenant] = Top
    BY <1>1, <1>3
  <2>2. Closed(mem, {Top}) /\ FirstTenant \notin {Top}
    BY <1>1 DEF Closed, Known
  <2>. QED
    BY <1>5, <2>1, <2>2 DEF HierarchyOf, ParentsKnown, Separated
<1>8. VaultsPlaced(mem)
  BY <1>3 DEF VaultsPlaced
<1>9. TokensSound(mem, keyVersion, issued, retired)
      /\ retired \cup retiring = retired /\ retiring = {}
  BY <1>1, <1>3 DEF TokensSound, Init
<1>10. \A m \in Copies : m = mem
  BY <1>3 DEF Copies, Init
<1>11. Sound(mem)
  BY <1>4, <1>6, <1>7, <1>8 DEF Sound
<1>. QED
  BY <1>2, <1>9, <1>10, <1>11 DEF AdminInv

-----------------------------------------------------------------------------
(***************************************************************************)
(* The steps                                                               *)
(***************************************************************************)
LEMMA CreateTenantStep ==
    ASSUME AdminInv, NEW t \in Tenants, NEW q \in Tenants \cup {Top}, CreateTenant(t, q)
    PROVE  AdminInv'
<1>. DEFINE n == [withParent(mem, t, q) EXCEPT !.order = <<t>> \o @]
<1>1. Sound(mem) /\ mem \in State /\ ~exists(mem, t) /\ (q = Top \/ exists(mem, q))
  BY InvMem DEF Sound, CreateTenant, validTenantParent
<1>2. /\ n.order = <<t>> \o mem.order /\ n.parent = [mem.parent EXCEPT ![t] = q]
      /\ n.vaults = mem.vaults /\ n.tokens = mem.tokens
  BY <1>1 DEF withParent, State
<1>3. n \in State
  <2>1. <<t>> \o mem.order \in Seq(Tenants)
    BY <1>1 DEF State
  <2>. QED
    BY <1>1, <2>1 DEF withParent, State
<1>4. q # Top => t \notin lineage(mem, q)
  <2>. SUFFICES ASSUME q # Top PROVE t \notin lineage(mem, q)
    OBVIOUS
  <2>1. ParentsKnown(mem) /\ q \in Existing(mem)
    BY <1>1 DEF Sound, HierarchyOf, Existing
  <2>2. Closed(mem, lineage(mem, q) \cup {Top})
    BY <2>1, LineageLeast
  <2>3. t \notin Known(mem)
    BY <1>1, TopIsNoTenant DEF Known, Existing
  <2>. QED
    BY <2>2, <2>3 DEF Closed
<1>5. Finished(n) /\ UNCHANGED others
  BY DEF CreateTenant
<1>. HIDE DEF n
<1>6. Reparented(mem, n, t, q)
  BY <1>1, <1>2, <1>4 DEF Reparented
<1>7. Sound(n)
  BY <1>1, <1>2, <1>3, <1>6, TenantChange
<1>. QED
  BY <1>2, <1>5, <1>7, TenancyStep

LEMMA UpdateTenantStep ==
    ASSUME AdminInv, NEW t \in Tenants, NEW q \in Tenants \cup {Top}, UpdateTenant(t, q)
    PROVE  AdminInv'
<1>. DEFINE n == withParent(mem, t, q)
<1>1. Sound(mem) /\ mem \in State /\ exists(mem, t)
  BY InvMem DEF Sound, UpdateTenant
<1>2. /\ n \in State /\ n.order = mem.order /\ n.parent = [mem.parent EXCEPT ![t] = q]
      /\ n.vaults = mem.vaults /\ n.tokens = mem.tokens
  BY <1>1 DEF withParent, State
<1>3. Finished(n) /\ UNCHANGED others
  BY DEF UpdateTenant
<1>4. q = Top \/ (exists(mem, q) /\ t \notin lineage(mem, q))
  BY DEF UpdateTenant, validTenantParent
<1>. HIDE DEF n
<1>5. Reparented(mem, n, t, q)
  BY <1>2, <1>4 DEF Reparented
<1>6. Sound(n)
  BY <1>1, <1>2, <1>5, TenantChange
<1>. QED
  BY <1>2, <1>3, <1>6, TenancyStep

LEMMA VaultStep ==
    ASSUME AdminInv, NEW v \in Vaults, NEW tenant \in Tenants \cup {Top},
           CreateVault(v, tenant) \/ UpdateVault(v, tenant)
    PROVE  AdminInv'
<1>1. Sound(mem) /\ mem \in State /\ (tenant = Top \/ exists(mem, tenant))
  BY InvMem DEF Sound, CreateVault, UpdateVault, validTenant
<1>2. PICK t : /\ t = Top \/ (t \in Tenants /\ exists(mem, t))
               /\ Finished([mem EXCEPT !.vaults[v] = t]) /\ UNCHANGED others
  <2>1. CASE CreateVault(v, tenant)
    BY <1>1, <2>1, HeadExists DEF CreateVault
  <2>2. CASE UpdateVault(v, tenant)
    BY <1>1, <2>2 DEF UpdateVault
  <2>. QED
    BY <2>1, <2>2
<1>. DEFINE n == [mem EXCEPT !.vaults[v] = t]
<1>3. n.tokens = mem.tokens
  BY <1>1 DEF State
<1>4. Sound(n)
  BY <1>1, <1>2, SetVault
<1>5. Finished(n) /\ UNCHANGED others
  BY <1>2
<1>. HIDE DEF n
<1>. QED
  BY <1>3, <1>4, <1>5, TenancyStep

LEMMA ImportStep ==
    ASSUME AdminInv, NEW i \in Nat, NEW j \in Nat,
           NEW tenants \in [1..i -> TenantRecords], NEW vaults \in [1..j -> VaultRecords],
           Import(tenants, vaults)
    PROVE  AdminInv'
<1>. DEFINE n == imported(mem, tenants, vaults).m
<1>1. Sound(n) /\ n.tokens = mem.tokens
  BY ImportStays, InvMem
<1>2. (Finished(n) \/ LeftUnsaved(n)) /\ UNCHANGED others
  BY DEF Import
<1>. HIDE DEF n
<1>. QED
  BY <1>1, <1>2, TenancyStep

LEMMA CreateTokenStep ==
    ASSUME AdminInv, NEW k \in Tokens, NEW scope \in SUBSET Secrets, CreateToken(k, scope)
    PROVE  AdminInv'
<1>. DEFINE token == [raw |-> issued', version |-> "v2", key |-> keyVersion, revoked |-> FALSE,
                      scope |-> scope]
            gone == retired \cup retiring
            n == [mem EXCEPT !.tokens[k] = token]
<1>1. /\ Sound(mem) /\ TokensSound(mem, keyVersion, issued, gone) /\ Numbers
      /\ issued \in Nat /\ keyVersion \in Nat
  BY InvMem, AdministrationAssumption DEF Numbers
<1>2. /\ issued' = issued + 1 /\ issued' \in 1..MaxRaw
      /\ keyVersion' = keyVersion /\ retired' = retired /\ retiring' = retiring
      /\ snapshot' = snapshot
  BY <1>1, AdministrationAssumption DEF CreateToken, NewRaw, Numbers
<1>3. token \in Token
  BY <1>1, <1>2 DEF Token
<1>4. Sound(n) /\ n.tokens = [mem.tokens EXCEPT ![k] = token]
  <2>. HIDE DEF token
  <2>. QED
    BY <1>1, <1>3, SetToken
<1>5. TokensSound(n, keyVersion', issued', retired' \cup retiring')
  <2>1. ASSUME NEW l \in Tokens \ {k}, mem.tokens[l] # Absent
        PROVE  n.tokens[l] = mem.tokens[l] /\ mem.tokens[l].raw < issued'
               /\ mem.tokens[l].raw \in Nat
    <3>1. mem.tokens[l] \in Token /\ mem.tokens[l].raw <= issued
      BY <1>1, <2>1, TokenShape DEF TokensSound
    <3>. QED
      BY <1>1, <1>2, <1>4, <3>1 DEF Token
  <2>2. n.tokens[k] = token
    BY <1>1, <1>4, TokenShape
  <2>3. issued' \notin gone
    BY <1>1, <1>2 DEF Numbers
  <2>4. \A l \in Tokens \ {k} : mem.tokens[l] = n.tokens[l]
    BY <1>1, <1>4, TokenShape
  <2>. HIDE DEF n
  <2>5. ASSUME NEW l \in Tokens, n.tokens[l] # Absent
        PROVE  /\ n.tokens[l].raw <= issued' /\ n.tokens[l].key <= keyVersion'
               /\ n.tokens[l].key = 0 <=> n.tokens[l].version = "legacy"
               /\ n.tokens[l].raw \in retired' \cup retiring' => n.tokens[l].revoked
               /\ \A o \in Tokens \ {l} : n.tokens[o] # Absent => n.tokens[o].raw # n.tokens[l].raw
    <3>1. CASE l = k
      BY <1>1, <1>2, <2>1, <2>2, <2>3, <2>4, <3>1 DEF Numbers
    <3>2. CASE l # k
      <4>1. n.tokens[l] = mem.tokens[l] /\ mem.tokens[l] # Absent
            /\ mem.tokens[l].raw < issued' /\ mem.tokens[l].raw \in Nat
        BY <2>1, <2>4, <2>5, <3>2
      <4>2. n.tokens[k].raw = issued'
        BY <2>2
      <4>. QED
        BY <1>1, <1>2, <2>4, <2>5, <3>2, <4>1, <4>2 DEF TokensSound
    <3>. QED
      BY <3>1, <3>2
  <2>. QED
    BY <2>5 DEF TokensSound
<1>6. Finished(n)
  BY DEF CreateToken
<1>7. mem' = n /\ disk' \in {n, disk} /\ Numbers' /\ keyVersion <= keyVersion' /\ issued <= issued'
      /\ (retiring' # {} => Open /\ saveRequested' = TRUE)
  BY <1>1, <1>2, <1>6 DEF Finished, Answered, SaveThrows, Numbers, AdminInv
<1>. HIDE DEF n
<1>. QED
  BY <1>2, <1>4, <1>5, <1>7, StepTo

LEMMA RevokeTokenStep ==
    ASSUME AdminInv, NEW k \in Tokens, RevokeToken(k)
    PROVE  AdminInv'
<1>. DEFINE n == [mem EXCEPT !.tokens[k].revoked = TRUE]
            gone == retired \cup retiring
            token == [mem.tokens[k] EXCEPT !.revoked = TRUE]
<1>1. /\ Sound(mem) /\ TokensSound(mem, keyVersion, issued, gone) /\ Numbers
      /\ mem.tokens[k] # Absent /\ mem.tokens[k] \in Token
      /\ mem.tokens \in [Tokens -> {Absent} \cup Token]
  BY InvMem, TokenShape DEF RevokeToken
<1>2. issued' = issued /\ keyVersion' = keyVersion /\ snapshot' = snapshot
  BY DEF RevokeToken
<1>3. token \in Token
  BY <1>1 DEF Token
<1>4. Sound(n) /\ n.tokens = [mem.tokens EXCEPT ![k] = token]
  <2>1. n = [mem EXCEPT !.tokens[k] = token]
    OBVIOUS
  <2>. HIDE DEF token, n
  <2>. QED
    BY <1>1, <1>3, <2>1, SetToken
<1>5. /\ token.raw = mem.tokens[k].raw /\ token.version = mem.tokens[k].version
      /\ token.key = mem.tokens[k].key /\ token.revoked = TRUE
  BY <1>1 DEF Token
<1>. HIDE DEF n, token
<1>6. n.tokens[k] = token /\ \A l \in Tokens \ {k} : n.tokens[l] = mem.tokens[l]
  BY <1>1, <1>4
<1>7. TokensSound(n, keyVersion, issued, gone \cup {mem.tokens[k].raw})
  <2>1. ASSUME NEW l \in Tokens, n.tokens[l] # Absent
        PROVE  /\ n.tokens[l].raw <= issued /\ n.tokens[l].key <= keyVersion
               /\ n.tokens[l].key = 0 <=> n.tokens[l].version = "legacy"
               /\ n.tokens[l].raw \in gone \cup {mem.tokens[k].raw} => n.tokens[l].revoked
               /\ \A o \in Tokens \ {l} : n.tokens[o] # Absent => n.tokens[o].raw # n.tokens[l].raw
    <3>1. CASE l = k
      BY <1>1, <1>5, <1>6, <3>1 DEF TokensSound
    <3>2. CASE l # k
      BY <1>1, <1>5, <1>6, <2>1, <3>2 DEF TokensSound
    <3>. QED
      BY <3>1, <3>2
  <2>. QED
    BY <2>1 DEF TokensSound
<1>8. /\ retired' \in {retired, retired \cup {mem.tokens[k].raw}} /\ mem' = n
      /\ retiring' \in {retiring, retiring \cup {mem.tokens[k].raw}}
      /\ disk' \in {n, disk} /\ (retired' = retired \/ (disk' = n /\ ~Open))
      /\ (saveRequested' = saveRequested \/ saveRequested' = TRUE)
      /\ retiring' = retiring \/ (Open /\ saveRequested' = TRUE)
  BY DEF RevokeToken, Retiring, Answered, SaveThrows, n
<1>9. TokensSound(n, keyVersion', issued', retired' \cup retiring')
  <2>1. retired' \cup retiring' \subseteq gone \cup {mem.tokens[k].raw}
    BY <1>8
  <2>. QED
    BY <1>2, <1>7, <2>1, TokensOfLess
<1>11. retiring' # {} => Open /\ saveRequested' = TRUE
  BY <1>8 DEF AdminInv
<1>10. Numbers' /\ keyVersion <= keyVersion' /\ issued <= issued'
  <2>1. mem.tokens[k].raw \in 1..issued
    BY <1>1 DEF TokensSound, Token, Numbers
  <2>. QED
    BY <1>1, <1>2, <1>8, <2>1, AdministrationAssumption DEF Numbers
<1>. QED
  BY <1>2, <1>4, <1>8, <1>9, <1>10, <1>11, StepTo

LEMMA RotateTokenStep ==
    ASSUME AdminInv, NEW k \in Tokens, RotateToken(k)
    PROVE  AdminInv'
<1>. DEFINE old == mem.tokens[k]
            gone == retired \cup retiring
            token == [old EXCEPT !.raw = issued', !.version = "v2", !.key = keyVersion]
            n == [mem EXCEPT !.tokens[k] = token]
<1>1. /\ Sound(mem) /\ TokensSound(mem, keyVersion, issued, gone) /\ Numbers
      /\ old # Absent /\ old \in Token
      /\ mem.tokens \in [Tokens -> {Absent} \cup Token]
      /\ issued \in Nat /\ keyVersion \in Nat
  BY InvMem, TokenShape, AdministrationAssumption DEF RotateToken, Numbers
<1>2. issued' = issued + 1 /\ issued' \in 1..MaxRaw /\ keyVersion' = keyVersion
      /\ snapshot' = snapshot
  BY <1>1, AdministrationAssumption DEF RotateToken, NewRaw, Numbers
<1>3. token \in Token
  BY <1>1, <1>2 DEF Token
<1>4. Sound(n) /\ n.tokens = [mem.tokens EXCEPT ![k] = token]
  <2>. HIDE DEF token
  <2>. QED
    BY <1>1, <1>3, SetToken
<1>5. token.raw = issued' /\ token.version = "v2" /\ token.key = keyVersion
  BY <1>1 DEF Token
<1>6. Retiring(k, n)
  BY DEF RotateToken
<1>. HIDE DEF n, token
<1>7. n.tokens[k] = token /\ \A l \in Tokens \ {k} : n.tokens[l] = mem.tokens[l]
  BY <1>1, <1>4
<1>8. /\ retired' \in {retired, retired \cup {old.raw}} /\ mem' = n
      /\ retiring' \in {retiring, retiring \cup {old.raw}}
      /\ disk' \in {n, disk} /\ (retired' = retired \/ (disk' = n /\ ~Open))
      /\ (saveRequested' = saveRequested \/ saveRequested' = TRUE)
      /\ retiring' = retiring \/ (Open /\ saveRequested' = TRUE)
  BY <1>6 DEF Retiring, Answered, SaveThrows
<1>9. old.raw \in 1..issued /\ retired \subseteq 1..issued /\ retiring \subseteq 1..issued
  BY <1>1 DEF TokensSound, Token, Numbers
<1>10. TokensSound(n, keyVersion', issued', retired' \cup retiring')
  <2>1. ASSUME NEW l \in Tokens \ {k}, mem.tokens[l] # Absent
        PROVE  /\ n.tokens[l] = mem.tokens[l] /\ mem.tokens[l].raw < issued'
               /\ mem.tokens[l].raw # old.raw
    <3>1. mem.tokens[l] \in Token /\ mem.tokens[l].raw <= issued
      BY <1>1, <2>1 DEF TokensSound
    <3>2. mem.tokens[l].raw # old.raw
      BY <1>1, <2>1 DEF TokensSound
    <3>. QED
      BY <1>1, <1>2, <1>7, <3>1, <3>2 DEF Token
  <2>2. issued' \notin retired' \cup retiring'
    BY <1>1, <1>2, <1>8, <1>9
  <2>3. ASSUME NEW l \in Tokens, n.tokens[l] # Absent
        PROVE  /\ n.tokens[l].raw <= issued' /\ n.tokens[l].key <= keyVersion'
               /\ n.tokens[l].key = 0 <=> n.tokens[l].version = "legacy"
               /\ n.tokens[l].raw \in retired' \cup retiring' => n.tokens[l].revoked
               /\ \A o \in Tokens \ {l} : n.tokens[o] # Absent => n.tokens[o].raw # n.tokens[l].raw
    <3>1. CASE l = k
      <4>1. n.tokens[l].raw = issued' /\ n.tokens[l].key = keyVersion' /\ n.tokens[l].version = "v2"
        BY <1>2, <1>5, <1>7, <3>1
      <4>2. ASSUME NEW o \in Tokens \ {l}, n.tokens[o] # Absent
            PROVE  n.tokens[o].raw # n.tokens[l].raw
        <5>1. mem.tokens[o] # Absent /\ o \in Tokens \ {k}
          BY <1>7, <3>1, <4>2
        <5>2. n.tokens[o].raw < issued'
          BY <2>1, <5>1
        <5>3. n.tokens[o].raw \in Nat
          BY <1>1, <2>1, <5>1 DEF Token
        <5>. QED
          BY <1>1, <1>2, <4>1, <5>2, <5>3
      <4>. QED
        BY <1>1, <1>2, <2>2, <4>1, <4>2 DEF Numbers
    <3>2. CASE l # k
      <4>1. mem.tokens[l] # Absent /\ l \in Tokens \ {k} /\ mem.tokens[l] \in Token
        BY <1>1, <1>7, <2>3, <3>2
      <4>2. n.tokens[l] = mem.tokens[l] /\ mem.tokens[l].raw < issued' /\ mem.tokens[l].raw # old.raw
        BY <2>1, <4>1
      <4>3. mem.tokens[l].raw \in Nat
        BY <4>1 DEF Token
      <4>4. ASSUME NEW o \in Tokens \ {l}, n.tokens[o] # Absent
            PROVE  n.tokens[o].raw # n.tokens[l].raw
        <5>1. CASE o = k
          BY <1>1, <1>2, <1>5, <1>7, <4>2, <4>3, <5>1
        <5>2. CASE o # k
          BY <1>1, <1>7, <4>1, <4>2, <4>4, <5>2 DEF TokensSound
        <5>. QED
          BY <5>1, <5>2
      <4>5. mem.tokens[l].raw \in retired' \cup retiring' => mem.tokens[l].raw \in gone
        BY <1>8, <4>2
      <4>. QED
        BY <1>1, <1>2, <4>1, <4>2, <4>3, <4>4, <4>5 DEF TokensSound
    <3>. QED
      BY <3>1, <3>2
  <2>. QED
    BY <2>3 DEF TokensSound
<1>11. Numbers' /\ keyVersion <= keyVersion' /\ issued <= issued'
  BY <1>1, <1>2, <1>8, <1>9 DEF Numbers
<1>12. retiring' # {} => Open /\ saveRequested' = TRUE
  BY <1>8 DEF AdminInv
<1>. QED
  BY <1>2, <1>4, <1>8, <1>10, <1>11, <1>12, StepTo

LEMMA PresentStep ==
    ASSUME AdminInv, NEW raw, NEW s \in Secrets, Present(raw, s)
    PROVE  AdminInv'
<1>. DEFINE n == upgraded(mem, raw)
            old == mem.tokens
            new == [k \in Tokens |->
                       IF matches(old[k], raw) /\ old[k].version = "legacy"
                       THEN [old[k] EXCEPT !.version = "v2", !.key = keyVersion] ELSE old[k]]
<1>1. /\ Sound(mem) /\ TokensSound(mem, keyVersion, issued, retired \cup retiring) /\ Numbers
      /\ mem \in State /\ old \in [Tokens -> {Absent} \cup Token]
      /\ keyVersion \in Nat
  BY InvMem DEF Numbers, Sound, State
<1>2. /\ n.order = mem.order /\ n.parent = mem.parent /\ n.vaults = mem.vaults
      /\ n.tokens = new
  BY <1>1 DEF upgraded, State
<1>3. ASSUME NEW k \in Tokens
      PROVE  /\ new[k] # Absent => old[k] # Absent
             /\ old[k] # Absent =>
                    /\ new[k] \in Token /\ new[k].raw = old[k].raw
                    /\ new[k].revoked = old[k].revoked
                    /\ \/ new[k] = old[k]
                       \/ new[k].key = keyVersion /\ new[k].version = "v2"
  <2>1. CASE old[k] = Absent
    BY <2>1 DEF matches
  <2>2. CASE old[k] # Absent /\ ~(matches(old[k], raw) /\ old[k].version = "legacy")
    BY <1>1, <2>2
  <2>3. CASE old[k] # Absent /\ matches(old[k], raw) /\ old[k].version = "legacy"
    <3>1. old[k] \in Token
      BY <1>1, <2>3
    <3>. QED
      BY <1>1, <2>3, <3>1 DEF Token
  <2>. QED
    BY <2>1, <2>2, <2>3
<1>. HIDE DEF new
<1>4. n \in State
  <2>1. new \in [Tokens -> {Absent} \cup Token]
    BY <1>3 DEF new
  <2>. QED
    BY <1>1, <1>2, <2>1 DEF State, upgraded
<1>. HIDE DEF n
<1>5. Sound(n)
  BY <1>1, <1>2, <1>4, SetTokens
<1>6. keyVersion' = keyVersion /\ issued' = issued /\ retired' = retired
      /\ retiring' = retiring /\ snapshot' = snapshot
  BY DEF Present, others
<1>7. TokensSound(n, keyVersion, issued, retired \cup retiring)
  BY <1>1, <1>2, <1>3 DEF TokensSound, Numbers
<1>8. mem' = n /\ disk' \in {n, disk} /\ (saveRequested' = saveRequested \/ saveRequested' = TRUE)
  BY DEF Present, Finished, Answered, SaveThrows, LeftUnsaved, n
<1>9. Numbers' /\ keyVersion <= keyVersion' /\ issued <= issued'
  BY <1>1, <1>6, <1>8, AdministrationAssumption DEF Numbers
<1>10. retiring' # {} => Open /\ saveRequested' = TRUE
  BY <1>6, <1>8 DEF AdminInv
<1>. QED
  BY <1>5, <1>6, <1>7, <1>8, <1>9, <1>10, StepTo

LEMMA ExpireStep ==
    ASSUME AdminInv, NEW k \in Tokens, Expire(k)
    PROVE  AdminInv'
<1>1. UNCHANGED <<mem, disk, snapshot, saveRequested, keyVersion, issued, retired, retiring>>
  BY DEF Expire
<1>. QED
  BY <1>1 DEF AdminInv, Numbers, Copies, Open

LEMMA CommitStep ==
    ASSUME AdminInv, CommitTransaction
    PROVE  AdminInv'
<1>1. keyVersion \in Nat /\ snapshot' = NoSnapshot /\ saveRequested' = FALSE /\ retiring' = {}
      /\ UNCHANGED <<keyVersion, issued>>
  BY DEF AdminInv, Numbers, CommitTransaction, Ended
<1>2. CASE disk' = mem /\ retired' = retired \cup retiring /\ UNCHANGED mem
  <2>1. Sound(mem) /\ TokensSound(mem, keyVersion, issued, retired \cup retiring) /\ Numbers
    BY InvMem
  <2>2. \A m \in Copies' : m = mem
    BY <1>1, <1>2 DEF Copies
  <2>3. retired' \cup retiring' = retired \cup retiring
    BY <1>1, <1>2
  <2>4. Numbers'
    BY <1>1, <1>2, <2>1 DEF Numbers
  <2>. QED
    BY <1>1, <1>2, <2>1, <2>2, <2>3, <2>4 DEF AdminInv
<1>3. CASE disk' \in {disk, mem} /\ mem' = snapshot /\ UNCHANGED retired
  BY <1>1, <1>3, CopiesAre, TransactionStep DEF CommitTransaction
<1>. QED
  BY <1>2, <1>3 DEF CommitTransaction

\* The other ways a transaction begins or ends, a restart included.
LEMMA SwitchStep ==
    ASSUME AdminInv, \/ OpenTransaction \/ LeaveUnsaved \/ RollbackTransaction
                     \/ \E version \in keyVersion..(keyVersion + 1) : Restart(version)
    PROVE  AdminInv'
<1>1. keyVersion \in Nat /\ (retiring # {} => Open /\ saveRequested = TRUE)
  BY DEF AdminInv, Numbers
<1>2. CASE OpenTransaction
  BY <1>1, <1>2, CopiesAre, TransactionStep DEF OpenTransaction
<1>3. CASE LeaveUnsaved
  BY <1>1, <1>3, CopiesAre, TransactionStep DEF LeaveUnsaved, Ended
<1>4. CASE RollbackTransaction
  BY <1>1, <1>4, CopiesAre, TransactionStep DEF RollbackTransaction, Ended
<1>5. CASE \E version \in keyVersion..(keyVersion + 1) : Restart(version)
  BY <1>1, <1>5, CopiesAre, TransactionStep DEF Restart, Ended
<1>. QED
  BY <1>2, <1>3, <1>4, <1>5

LEMMA NextInv == ASSUME AdminInv, [Next]_vars PROVE AdminInv'
<1>1. CASE \E t \in Tenants, parent \in Tenants \cup {Top} :
               CreateTenant(t, parent) \/ UpdateTenant(t, parent)
  BY <1>1, CreateTenantStep, UpdateTenantStep
<1>2. CASE \E v \in Vaults, tenant \in Tenants \cup {Top} :
               CreateVault(v, tenant) \/ UpdateVault(v, tenant)
  BY <1>2, VaultStep
<1>3. CASE \E tenants \in UNION {[1..n -> TenantRecords] : n \in 0..MaxImport},
              vaults \in UNION {[1..n -> VaultRecords] : n \in 0..1} : Import(tenants, vaults)
  <2>1. PICK tenants \in UNION {[1..n -> TenantRecords] : n \in 0..MaxImport},
             vaults \in UNION {[1..n -> VaultRecords] : n \in 0..1} : Import(tenants, vaults)
    BY <1>3
  <2>2. PICK i \in 0..MaxImport : tenants \in [1..i -> TenantRecords]
    OBVIOUS
  <2>3. PICK j \in 0..1 : vaults \in [1..j -> VaultRecords]
    OBVIOUS
  <2>. QED
    BY <2>1, <2>2, <2>3, ImportStep
<1>4. CASE \E k \in Tokens : \E scope \in SUBSET Secrets : CreateToken(k, scope)
  BY <1>4, CreateTokenStep
<1>5. CASE \E k \in Tokens : RevokeToken(k) \/ RotateToken(k) \/ Expire(k)
  BY <1>5, RevokeTokenStep, RotateTokenStep, ExpireStep
<1>6. CASE \E raw \in 1..issued, s \in Secrets : Present(raw, s)
  BY <1>6, PresentStep
<1>7. CASE OpenTransaction \/ CommitTransaction \/ LeaveUnsaved \/ RollbackTransaction
           \/ \E version \in keyVersion..(keyVersion + 1) : Restart(version)
  BY <1>7, CommitStep, SwitchStep
<1>8. CASE UNCHANGED vars
  BY <1>8 DEF vars, AdminInv, Numbers, Copies, Open
<1>. QED
  BY <1>1, <1>2, <1>3, <1>4, <1>5, <1>6, <1>7, <1>8 DEF Next

\* The flag is set by a handler and reset with the transaction.
LEMMA FlagStep == ASSUME saveRequested \in BOOLEAN, [Next]_vars PROVE saveRequested' \in BOOLEAN
<1>. SUFFICES saveRequested' = saveRequested \/ saveRequested' = TRUE \/ saveRequested' = FALSE
  BY Zenon
<1>1. \A m : Finished(m) => saveRequested' = saveRequested \/ saveRequested' = TRUE
  BY Zenon DEF Finished, Answered, SaveThrows
<1>2. ASSUME Next PROVE saveRequested' = saveRequested \/ saveRequested' = TRUE
                            \/ saveRequested' = FALSE
  BY <1>1, <1>2, Zenon DEF Next, CreateTenant, UpdateTenant, CreateVault, UpdateVault, Import,
     CreateToken, RevokeToken, RotateToken, Retiring, Expire, Present, LeftUnsaved, Answered,
     SaveThrows, OpenTransaction, CommitTransaction, LeaveUnsaved, RollbackTransaction, Ended,
     Restart
<1>3. CASE UNCHANGED vars
  BY <1>3, Zenon DEF vars
<1>. QED
  BY <1>2, <1>3, Zenon

-----------------------------------------------------------------------------
(***************************************************************************)
(* The theorems                                                            *)
(***************************************************************************)
\* The invariant is inductive.
THEOREM AdminInvariant == Spec => []AdminInv
<1>1. Init => AdminInv
  BY InitInv
<1>2. AdminInv /\ [Next]_vars => AdminInv'
  BY NextInv
<1>. QED
  BY <1>1, <1>2, PTL DEF Spec

\* Whatever is created, changed, imported, rotated, not saved or lost in a
\* restart, memory and disk hold records of the shapes the services write.
THEOREM TypeCorrect == Spec => []AdminTypeOK
<1>1. AdminInv /\ saveRequested \in BOOLEAN => AdminTypeOK
  BY InvImplies
<1>2. Init => saveRequested \in BOOLEAN
  BY DEF Init
<1>3. saveRequested \in BOOLEAN /\ [Next]_vars => (saveRequested \in BOOLEAN)'
  BY FlagStep
<1>. QED
  BY <1>1, <1>2, <1>3, AdminInvariant, PTL DEF Spec

\* For any number of tenants and imports of any length: no chain of parents in
\* memory or on disk comes back to its start, so that validateTenantParent's
\* walk ends, every tenant is listed once, and no vault is without its tenant.
THEOREM HierarchyStaysSound == Spec => []HierarchySound
<1>1. AdminInv => HierarchySound
  BY InvImplies
<1>. QED
  BY <1>1, AdminInvariant, PTL

\* A raw service token that a caller was told is rotated out or revoked retrieves
\* no secret again once that is saved, whatever throws, is rolled back or
\* restarted; told while an access request keeps its transaction open, it is not
\* taken back before that transaction is.
THEOREM RetiredStaysRetired == Spec => []RetiredNeverServes
<1>1. AdminInv => RetiredNeverServes
  BY InvImplies
<1>. QED
  BY <1>1, AdminInvariant, PTL
=============================================================================
