--------------------------- MODULE CapacityProofs ---------------------------
(***************************************************************************)
(* Proofs about Capacity, for any claims, pods and VMs and any number of   *)
(* addresses.                                                              *)
(***************************************************************************)
EXTENDS Capacity, FiniteSetTheorems, TLAPS

-----------------------------------------------------------------------------
(* Sums                                                                    *)

Counts(f, S) == IsFiniteSet(S) /\ \A x \in S : f[x] \in Nat

\* The units of a sum, by their two parts.
LEMMA UnitsPairs ==
  ASSUME NEW f, NEW S
  PROVE  \A u : u \in Units(f, S) <=> \E x \in S : \E i \in 1..f[x] : u = <<x, i>>
<1>1. \A x : \A u : u \in {x} \X (1..f[x]) <=> \E i \in 1..f[x] : u = <<x, i>>
  OBVIOUS
<1> QED
  BY <1>1 DEF Units

\* More of each is more in all.
LEMMA UnitsMore ==
  ASSUME NEW f, NEW g, NEW S, \A x \in S : 1..f[x] \subseteq 1..g[x]
  PROVE  Units(f, S) \subseteq Units(g, S)
<1> SUFFICES ASSUME NEW u \in Units(f, S) PROVE u \in Units(g, S)
  OBVIOUS
<1>1. PICK x \in S : \E i \in 1..f[x] : u = <<x, i>>
  BY UnitsPairs
<1> QED
  BY <1>1, UnitsPairs

\* n units of one x.
LEMMA UnitsOfOne ==
  ASSUME NEW x, NEW n \in Nat
  PROVE  IsFiniteSet({x} \X (1..n)) /\ Cardinality({x} \X (1..n)) = n
<1>1. IsFiniteSet({x}) /\ Cardinality({x}) = 1
  BY FS_Singleton
<1>2. IsFiniteSet(1..n) /\ Cardinality(1..n) = n
  BY FS_Interval
<1>3. IsFiniteSet({x} \X (1..n)) /\ Cardinality({x} \X (1..n)) = Cardinality({x}) * Cardinality(1..n)
  BY <1>1, <1>2, FS_Product, Zenon
<1> QED
  BY <1>1, <1>2, <1>3

\* A sum of natural numbers over a finite set is a natural number.
LEMMA SumType ==
  ASSUME NEW f, NEW S, Counts(f, S)
  PROVE  IsFiniteSet(Units(f, S)) /\ Sum(f, S) \in Nat
<1> DEFINE Parts == {{x} \X (1..f[x]) : x \in S}
<1>1. ASSUME NEW T \in Parts PROVE IsFiniteSet(T)
  <2>1. PICK x \in S : T = {x} \X (1..f[x])
    OBVIOUS
  <2>2. f[x] \in Nat
    BY DEF Counts
  <2> QED
    BY <2>1, <2>2, UnitsOfOne, Zenon
<1>2. IsFiniteSet(Parts)
  <2> DEFINE g == [x \in S |-> {x} \X (1..f[x])]
  <2>1. g \in Surjection(S, Parts)
    BY Zenon DEF Surjection
  <2> QED
    BY <2>1, FS_Surjection DEF Counts
<1>3. IsFiniteSet(UNION Parts)
  BY <1>1, <1>2, FS_UNION, Zenon
<1> QED
  BY <1>3, FS_CardinalityType DEF Units, Sum

\* A part of the set has a sum as well.
LEMMA SumPart ==
  ASSUME NEW f, NEW S, Counts(f, S), NEW T \in SUBSET S
  PROVE  Counts(f, T) /\ Sum(f, T) \in Nat /\ Sum(f, T) <= Sum(f, S)
<1>1. Counts(f, T)
  BY FS_Subset DEF Counts
<1>2. Units(f, T) \subseteq Units(f, S)
  BY DEF Units
<1> QED
  BY <1>1, <1>2, SumType, FS_Subset DEF Sum

\* Functions that agree on the set have one sum.
LEMMA SumSame ==
  ASSUME NEW f, NEW g, NEW S, \A x \in S : f[x] = g[x]
  PROVE  Sum(f, S) = Sum(g, S)
<1>1. {{x} \X (1..f[x]) : x \in S} = {{x} \X (1..g[x]) : x \in S}
  BY Zenon
<1>2. Units(f, S) = Units(g, S)
  BY <1>1 DEF Units
<1> QED
  BY <1>2 DEF Sum

\* Where a function is 0 it can be left out.
LEMMA SumZeros ==
  ASSUME NEW f, NEW S, NEW T \in SUBSET S, \A x \in S \ T : f[x] = 0
  PROVE  Sum(f, S) = Sum(f, T)
<1>1. \A x \in S \ T : 1..f[x] = {}
  BY SMT
<1>2. Units(f, S) = Units(f, T)
  <2>1. \A x \in S \ T : {x} \X (1..f[x]) = {}
    BY <1>1
  <2>2. ASSUME NEW u PROVE u \in Units(f, S) <=> u \in Units(f, T)
    <3>1. ASSUME u \in Units(f, S) PROVE u \in Units(f, T)
      <4>1. PICK x \in S : u \in {x} \X (1..f[x])
        BY <3>1 DEF Units
      <4> QED
        BY <2>1, <4>1 DEF Units
    <3> QED
      BY <3>1 DEF Units
  <2> QED
    BY <2>2
<1> QED
  BY <1>2 DEF Sum

\* The sum over two sets that have nothing in common.
LEMMA SumUnion ==
  ASSUME NEW f, NEW S, NEW T, Counts(f, S), Counts(f, T), S \cap T = {}
  PROVE  Counts(f, S \cup T) /\ Sum(f, S \cup T) = Sum(f, S) + Sum(f, T)
<1>1. Counts(f, S \cup T)
  BY FS_Union, Zenon DEF Counts
<1>2. Units(f, S \cup T) = Units(f, S) \cup Units(f, T)
  BY DEF Units
<1>3. Units(f, S) \cap Units(f, T) = {}
  BY UnitsPairs
<1>4. IsFiniteSet(Units(f, S)) /\ IsFiniteSet(Units(f, T))
  BY SumType
<1>5. Cardinality(Units(f, S) \cup Units(f, T)) =
        Cardinality(Units(f, S)) + Cardinality(Units(f, T)) - Cardinality({})
  BY <1>3, <1>4, FS_Union
<1>6. Cardinality({}) = 0
  BY FS_EmptySet
<1>7. Sum(f, S) \in Nat /\ Sum(f, T) \in Nat
  BY SumType
<1> QED
  <2>1. Sum(f, S \cup T) = Sum(f, S) + Sum(f, T) - 0
    BY <1>2, <1>5, <1>6 DEF Sum
  <2> QED
    BY <1>1, <1>7, <2>1

LEMMA SumOne ==
  ASSUME NEW f, NEW x, f[x] \in Nat
  PROVE  Counts(f, {x}) /\ Sum(f, {x}) = f[x]
<1>1. Units(f, {x}) = {x} \X (1..f[x])
  BY DEF Units
<1>2. Counts(f, {x})
  BY FS_Singleton DEF Counts
<1>3. Cardinality({x} \X (1..f[x])) = f[x]
  BY UnitsOfOne, Zenon
<1> QED
  BY <1>1, <1>2, <1>3 DEF Sum

\* One summand apart.
LEMMA SumSplit ==
  ASSUME NEW f, NEW S, Counts(f, S), NEW x \in S
  PROVE  /\ Sum(f, S \ {x}) \in Nat /\ f[x] \in Nat
         /\ Sum(f, S) = Sum(f, S \ {x}) + f[x]
<1>1. Counts(f, S \ {x}) /\ Sum(f, S \ {x}) \in Nat
  BY SumPart
<1>2. Counts(f, {x}) /\ Sum(f, {x}) = f[x] /\ f[x] \in Nat
  BY SumOne DEF Counts
<1>3. (S \ {x}) \cap {x} = {} /\ S = (S \ {x}) \cup {x}
  OBVIOUS
<1> QED
  BY <1>1, <1>2, <1>3, SumUnion

\* Smaller summands have the smaller sum.
LEMMA SumBound ==
  ASSUME NEW f, NEW g, NEW S, Counts(f, S), Counts(g, S), \A x \in S : f[x] <= g[x]
  PROVE  Sum(f, S) <= Sum(g, S)
<1>1. \A x \in S : 1..f[x] \subseteq 1..g[x]
  BY DEF Counts
<1>2. Units(f, S) \subseteq Units(g, S)
  BY <1>1, UnitsMore
<1> QED
  BY <1>2, SumType, FS_Subset DEF Sum

\* The sum of sums: the units of f + g are those of f, and those of g moved up.
LEMMA SumPlus ==
  ASSUME NEW f, NEW g, NEW h, NEW S, Counts(f, S), Counts(g, S),
         \A x \in S : h[x] = f[x] + g[x]
  PROVE  Counts(h, S) /\ Sum(h, S) = Sum(f, S) + Sum(g, S)
<1>1. Counts(h, S)
  BY DEF Counts
<1> DEFINE Moved == Units(h, S) \ Units(f, S)
           move == [u \in Units(g, S) |-> <<u[1], f[u[1]] + u[2]>>]
<1>2. ASSUME NEW x \in S, NEW i PROVE <<x, i>> \in Moved <=> i \in f[x]+1..f[x]+g[x]
  <2>1. f[x] \in Nat /\ g[x] \in Nat /\ h[x] = f[x] + g[x]
    BY DEF Counts
  <2>2. <<x, i>> \in Units(h, S) <=> i \in 1..h[x]
    BY UnitsPairs
  <2>3. <<x, i>> \in Units(f, S) <=> i \in 1..f[x]
    BY UnitsPairs
  <2> QED
    BY <2>1, <2>2, <2>3
<1>3. move \in Bijection(Units(g, S), Moved)
  <2>1. ASSUME NEW u \in Units(g, S)
        PROVE  \E x \in S : \E i \in 1..g[x] : u = <<x, i>> /\ move[u] = <<x, f[x] + i>> /\ move[u] \in Moved
    <3>1. PICK x \in S : \E i \in 1..g[x] : u = <<x, i>>
      BY UnitsPairs
    <3>2. PICK i \in 1..g[x] : u = <<x, i>>
      BY <3>1
    <3>3. move[u] = <<x, f[x] + i>>
      BY <3>2
    <3>4. f[x] + i \in f[x]+1..f[x]+g[x]
      BY DEF Counts
    <3> QED
      BY <1>2, <3>2, <3>3, <3>4
  <2>2. move \in [Units(g, S) -> Moved]
    BY <2>1
  <2>3. ASSUME NEW u \in Units(g, S), NEW v \in Units(g, S), move[u] = move[v] PROVE u = v
    <3>1. PICK x \in S : \E i \in 1..g[x] : u = <<x, i>> /\ move[u] = <<x, f[x] + i>>
      BY <2>1
    <3>2. PICK y \in S : \E i \in 1..g[y] : v = <<y, i>> /\ move[v] = <<y, f[y] + i>>
      BY <2>1
    <3> QED
      BY <2>3, <3>1, <3>2 DEF Counts
  <2>4. ASSUME NEW w \in Moved PROVE \E u \in Units(g, S) : move[u] = w
    <3>1. PICK x \in S : \E i \in 1..h[x] : w = <<x, i>>
      BY UnitsPairs
    <3>2. PICK i \in 1..h[x] : w = <<x, i>>
      BY <3>1
    <3>3. i \in f[x]+1..f[x]+g[x]
      BY <1>2, <3>2
    <3>4. i - f[x] \in 1..g[x] /\ f[x] + (i - f[x]) = i
      BY <3>3 DEF Counts
    <3>5. <<x, i - f[x]>> \in Units(g, S)
      BY <3>4, UnitsPairs
    <3> QED
      BY <3>2, <3>4, <3>5
  <2> QED
    BY <2>2, <2>3, <2>4, Zenon DEF Bijection, Injection, IsInjective, Surjection
<1>4. Units(f, S) \subseteq Units(h, S)
  <2>1. \A x \in S : 1..f[x] \subseteq 1..h[x]
    BY DEF Counts
  <2> QED
    BY <2>1, UnitsMore
<1>5. IsFiniteSet(Units(f, S)) /\ IsFiniteSet(Units(g, S)) /\ IsFiniteSet(Units(h, S))
  BY <1>1, SumType
<1>6. Cardinality(Moved) = Sum(g, S)
  BY <1>3, <1>5, FS_Bijection DEF ExistsBijection, Sum
<1>7. Cardinality(Moved) = Cardinality(Units(h, S)) - Cardinality(Units(h, S) \cap Units(f, S))
  BY <1>5, FS_Difference, Zenon
<1>8. Units(h, S) \cap Units(f, S) = Units(f, S)
  BY <1>4
<1>9. Sum(g, S) = Sum(h, S) - Sum(f, S)
  BY <1>6, <1>7, <1>8 DEF Sum
<1> QED
  BY <1>1, <1>9, SumType

\* The sum over a family of sets that have nothing in common.
LEMMA SumFamily ==
  ASSUME NEW f, NEW U, Counts(f, U), NEW S, IsFiniteSet(S), NEW N \in [S -> SUBSET U],
         \A x, y \in S : x # y => N[x] \cap N[y] = {},
         NEW h, \A x \in S : h[x] = Sum(f, N[x])
  PROVE  Counts(h, S) /\ Sum(h, S) = Sum(f, UNION {N[x] : x \in S})
<1> DEFINE All == UNION {N[x] : x \in S}
           pick == [x \in S |-> CHOOSE b : b \in Bijection(1..h[x], Units(f, N[x]))]
           to == [u \in Units(h, S) |-> pick[u[1]][u[2]]]
<1>1. ASSUME NEW x \in S
      PROVE  h[x] \in Nat /\ IsFiniteSet(Units(f, N[x])) /\ Cardinality(Units(f, N[x])) = h[x]
  BY SumPart, SumType DEF Sum
<1>2. Counts(h, S)
  BY <1>1 DEF Counts
<1>3. ASSUME NEW x \in S PROVE pick[x] \in Bijection(1..h[x], Units(f, N[x]))
  <2>1. \E b : b \in Bijection(1..h[x], Units(f, N[x]))
    BY <1>1, FS_CardinalityType DEF ExistsBijection
  <2> QED
    BY <2>1, Zenon
<1>4. ASSUME NEW u \in Units(h, S)
      PROVE  \E x \in S : \E i \in 1..h[x] : u = <<x, i>> /\ to[u] = pick[x][i] /\ to[u] \in Units(f, N[x])
  <2>1. PICK x \in S : \E i \in 1..h[x] : u = <<x, i>>
    BY UnitsPairs
  <2>2. PICK i \in 1..h[x] : u = <<x, i>>
    BY <2>1
  <2>3. to[u] = pick[x][i]
    BY <2>2, Zenon
  <2>4. pick[x][i] \in Units(f, N[x])
    BY <1>3, Zenon DEF Bijection, Injection
  <2> QED
    BY <2>2, <2>3, <2>4, Zenon
<1>5. \A x \in S : Units(f, N[x]) \subseteq Units(f, All)
  BY DEF Units
<1>6. to \in [Units(h, S) -> Units(f, All)]
  BY <1>4, <1>5, Zenon
<1>7. ASSUME NEW x \in S, NEW y \in S, NEW w \in Units(f, N[x]) \cap Units(f, N[y]) PROVE x = y
  <2>1. PICK z \in N[x] : \E i \in 1..f[z] : w = <<z, i>>
    BY UnitsPairs
  <2>2. z \in N[y]
    BY <2>1, UnitsPairs
  <2> QED
    BY <2>1, <2>2
<1>8. ASSUME NEW u \in Units(h, S), NEW v \in Units(h, S), to[u] = to[v] PROVE u = v
  <2>1. PICK x \in S : \E i \in 1..h[x] : u = <<x, i>> /\ to[u] = pick[x][i] /\ to[u] \in Units(f, N[x])
    BY <1>4, Zenon
  <2>2. PICK y \in S : \E i \in 1..h[y] : v = <<y, i>> /\ to[v] = pick[y][i] /\ to[v] \in Units(f, N[y])
    BY <1>4, Zenon
  <2>3. x = y
    BY <1>7, <1>8, <2>1, <2>2
  <2>4. PICK i \in 1..h[x] : u = <<x, i>> /\ to[u] = pick[x][i]
    BY <2>1, Zenon
  <2>5. PICK j \in 1..h[x] : v = <<x, j>> /\ to[v] = pick[x][j]
    BY <2>2, <2>3, Zenon
  <2>6. i = j
    <3> HIDE DEF pick
    <3>1. DOMAIN pick[x] = 1..h[x] /\ IsInjective(pick[x])
      BY <1>3 DEF Bijection, Injection
    <3>2. pick[x][i] = pick[x][j]
      BY <1>8, <2>4, <2>5
    <3> QED
      BY <3>1, <3>2 DEF IsInjective
  <2> QED
    BY <2>4, <2>5, <2>6
<1>9. ASSUME NEW w \in Units(f, All) PROVE \E u \in Units(h, S) : to[u] = w
  <2>1. PICK z \in All : \E i \in 1..f[z] : w = <<z, i>>
    BY UnitsPairs
  <2>2. PICK x \in S : z \in N[x]
    OBVIOUS
  <2>3. w \in Units(f, N[x])
    BY <2>1, <2>2, UnitsPairs
  <2>4. PICK i \in 1..h[x] : pick[x][i] = w
    BY <1>3, <2>3, Zenon DEF Bijection, Surjection
  <2>5. <<x, i>> \in Units(h, S)
    BY <2>4, UnitsPairs
  <2> QED
    BY <2>4, <2>5, Zenon
<1>10. to \in Bijection(Units(h, S), Units(f, All))
  BY <1>6, <1>8, <1>9, Zenon DEF Bijection, Injection, IsInjective, Surjection
<1>11. IsFiniteSet(Units(h, S))
  BY <1>2, SumType
<1>12. Cardinality(Units(f, All)) = Cardinality(Units(h, S))
  BY <1>10, <1>11, FS_Bijection DEF ExistsBijection
<1> QED
  BY <1>2, <1>12 DEF Sum

\* One summand changes.
LEMMA SumUpdate ==
  ASSUME NEW T, NEW f, NEW S \in SUBSET T, Counts(f, S), f = [y \in T |-> f[y]], NEW x \in S, NEW v \in Nat
  PROVE  LET g == [f EXCEPT ![x] = v]
         IN Counts(g, S) /\ Sum(g, S) = Sum(f, S) - f[x] + v
<1> DEFINE g == [f EXCEPT ![x] = v]
<1>1. g[x] = v /\ \A y \in S : y # x => g[y] = f[y]
  OBVIOUS
<1>2. Counts(g, S)
  BY <1>1 DEF Counts
<1> HIDE DEF g
<1>3. Sum(g, S) = Sum(g, S \ {x}) + v
  BY <1>1, <1>2, SumSplit
<1>4. Sum(f, S) = Sum(f, S \ {x}) + f[x]
  BY SumSplit
<1>5. Sum(g, S \ {x}) = Sum(f, S \ {x})
  BY <1>1, SumSame
<1>6. Sum(f, S \ {x}) \in Nat /\ f[x] \in Nat
  BY SumPart, Zenon DEF Counts
<1> QED
  BY <1>2, <1>3, <1>4, <1>5, <1>6 DEF g

-----------------------------------------------------------------------------
(* The inductive invariant                                                 *)

\* No pod and no VM uses two claims on the Subnet.  The ip objects name their
\* owner and not their claim, so that with two claims of one owner the addresses
\* of the one count for the other too (ApplyHeld).
OneClaimPerOwner ==
  \A c, d \in Claim : c # d =>
    \A p \in UsersOf[c], q \in UsersOf[d] : OwnerOf(p) # OwnerOf(q)

\* The addresses that DRA can hand out.
Usable == Total - other

\* What was handed out: at most what the Subnet has, and nothing to a claim that is
\* not allocated.
Handed ==
  /\ reserved \in [Claim -> SUBSET Pod]
  /\ given \in [Claim -> Nat]
  /\ left \in [Owner -> Nat]
  /\ other \in 0..Total
  /\ \A c \in Claim : reserved[c] \subseteq UsersOf[c]
  /\ \A c \in Claim : given[c] <= NICs[c] /\ (reserved[c] = {} => given[c] = 0)
  /\ Leaving + Sum(given, Claim) <= Usable

\* What the informers and the scheduler can have.
Watched ==
  /\ seen \in [free : 0..Total, ips : [Owner -> Nat], claims : [Claim -> SUBSET Pod]]
  /\ \A c \in Claim : seen.claims[c] \subseteq UsersOf[c]
  /\ published \in Nat

\* What the informers have adds up, what is published can be handed out, and no
\* more than that is allocated.
Booked ==
  /\ seen.free + Sum(seen.ips, Owner) = Usable
  /\ published <= Usable
  /\ Consumed <= Usable

-----------------------------------------------------------------------------
(* What the publisher computes                                             *)

LEMMA OwnerFinite == IsFiniteSet(Owner)
BY CapacityAssumption, FS_Union, Zenon DEF Owner, CapacityAssumption

\* An allocated claim has a name, that of one of its users.
LEMMA NameOfType ==
  ASSUME NEW res \in [Claim -> SUBSET Pod], NEW c \in Allocated(res)
  PROVE  NameOf(c, res) \in Owner /\ \E p \in res[c] : NameOf(c, res) = OwnerOf(p)
<1>1. (CHOOSE p \in res[c] : TRUE) \in res[c]
  BY DEF Allocated
<1>2. \A p \in Pod : OwnerOf(p) \in Owner
  BY CapacityAssumption DEF OwnerOf, Owner, CapacityAssumption
<1> QED
  BY <1>1, <1>2, Zenon DEF NameOf, Allocated

LEMMA AllocatedFinite ==
  ASSUME NEW res PROVE Allocated(res) \subseteq Claim /\ IsFiniteSet(Allocated(res))
BY CapacityAssumption, FS_Subset DEF Allocated, CapacityAssumption

\* The names under which the publisher looks for the addresses of a claim.
NamesOf(c, claims, unread) == UNION {OwnersOf(p, unread) : p \in claims[c]}

LEMMA NamesOfType ==
  ASSUME NEW claims \in [Claim -> SUBSET Pod], NEW unread, NEW c \in Claim
  PROVE  NamesOf(c, claims, unread) \subseteq Owner
BY CapacityAssumption DEF NamesOf, OwnersOf, Owner, CapacityAssumption

LEMMA NamesDiffer ==
  ASSUME OneClaimPerOwner, NEW claims \in [Claim -> SUBSET Pod], NEW unread,
         \A c \in Claim : claims[c] \subseteq UsersOf[c],
         NEW c \in Claim, NEW d \in Claim, c # d
  PROVE  NamesOf(c, claims, unread) \cap NamesOf(d, claims, unread) = {}
<1> SUFFICES ASSUME NEW p \in claims[c], NEW q \in claims[d],
                    NEW o \in OwnersOf(p, unread), o \in OwnersOf(q, unread)
             PROVE  FALSE
  BY DEF NamesOf
<1>1. p \in Pod /\ q \in Pod /\ OwnerOf(p) # OwnerOf(q)
  BY DEF OneClaimPerOwner
<1>2. VMOf[p] \in VM \cup {None} /\ VMOf[q] \in VM \cup {None} /\ None \notin VM /\ Pod \cap VM = {}
  BY <1>1, CapacityAssumption DEF CapacityAssumption
<1>3. o = p \/ (o = VMOf[p] /\ o # None)
  BY DEF OwnersOf
<1>4. o = q \/ (o = VMOf[q] /\ o # None)
  BY DEF OwnersOf
<1> QED
  BY <1>1, <1>2, <1>3, <1>4 DEF OwnerOf

\* What a claim holds is at most what its names have.
LEMMA HeldType ==
  ASSUME NEW claims \in [Claim -> SUBSET Pod], NEW ips \in [Owner -> Nat], NEW unread,
         NEW c \in Claim
  PROVE  /\ Held(c, claims, ips, unread) \in Nat
         /\ Sum(ips, NamesOf(c, claims, unread)) \in Nat
         /\ Held(c, claims, ips, unread) = Least(NICs[c], Sum(ips, NamesOf(c, claims, unread)))
         /\ Held(c, claims, ips, unread) <= Sum(ips, NamesOf(c, claims, unread))
<1>1. Counts(ips, Owner)
  BY OwnerFinite DEF Counts
<1>2. Sum(ips, NamesOf(c, claims, unread)) \in Nat
  BY <1>1, NamesOfType, SumPart
<1>3. Held(c, claims, ips, unread) = Least(NICs[c], Sum(ips, NamesOf(c, claims, unread)))
  BY DEF Held, NamesOf
<1>4. NICs[c] \in Nat
  BY CapacityAssumption DEF CapacityAssumption
<1> QED
  BY <1>2, <1>3, <1>4 DEF Least

LEMMA ApplyHeldType ==
  ASSUME NEW claims \in [Claim -> SUBSET Pod], NEW ips \in [Owner -> Nat], NEW unread
  PROVE  ApplyHeld(claims, ips, unread) \in Nat
<1> DEFINE held == [c \in Claim |-> Held(c, claims, ips, unread)]
<1>1. Counts(held, Allocated(claims))
  BY HeldType, AllocatedFinite DEF Counts
<1> QED
  BY <1>1, SumType DEF ApplyHeld

\* ApplyHeld counts no ip object twice.
LEMMA ApplyHeldBound ==
  ASSUME OneClaimPerOwner, NEW claims \in [Claim -> SUBSET Pod],
         NEW ips \in [Owner -> Nat], NEW unread,
         \A c \in Claim : claims[c] \subseteq UsersOf[c]
  PROVE  ApplyHeld(claims, ips, unread) <= Sum(ips, Owner)
<1> DEFINE A == Allocated(claims)
           held == [c \in Claim |-> Held(c, claims, ips, unread)]
           names == [c \in A |-> NamesOf(c, claims, unread)]
           have == [c \in A |-> Sum(ips, names[c])]
<1>1. A \subseteq Claim /\ IsFiniteSet(A)
  BY AllocatedFinite
<1>2. Counts(ips, Owner)
  BY OwnerFinite DEF Counts
<1>3. names \in [A -> SUBSET Owner]
  BY <1>1, NamesOfType
<1>4. \A c, d \in A : c # d => names[c] \cap names[d] = {}
  BY <1>1, NamesDiffer
<1>5. Counts(held, A) /\ \A c \in A : held[c] <= have[c]
  BY <1>1, HeldType DEF Counts
<1>6. \A c \in A : have[c] = Sum(ips, names[c])
  OBVIOUS
<1> HIDE DEF names, have, held, A
<1>7. Counts(have, A) /\ Sum(have, A) = Sum(ips, UNION {names[c] : c \in A})
  BY <1>1, <1>2, <1>3, <1>4, <1>6, SumFamily
<1>8. UNION {names[c] : c \in A} \subseteq Owner
  BY <1>3
<1>9. Sum(ips, UNION {names[c] : c \in A}) <= Sum(ips, Owner) /\ Sum(ips, UNION {names[c] : c \in A}) \in Nat
  BY <1>2, <1>8, SumPart
<1>10. Sum(held, A) <= Sum(have, A)
  BY <1>5, <1>7, SumBound
<1>11. Sum(held, A) \in Nat /\ Sum(ips, Owner) \in Nat
  BY <1>2, <1>5, SumType
<1>12. ApplyHeld(claims, ips, unread) = Sum(held, A)
  BY DEF ApplyHeld, held, A
<1> QED
  BY <1>7, <1>9, <1>10, <1>11, <1>12

LEMMA FamilyCapacityType ==
  ASSUME NEW view, view.free \in Nat, view.ips \in [Owner -> Nat],
         view.claims \in [Claim -> SUBSET Pod], NEW unread
  PROVE  FamilyCapacity(view, unread) \in Nat
         /\ FamilyCapacity(view, unread) = view.free + ApplyHeld(view.claims, view.ips, unread)
BY ApplyHeldType DEF FamilyCapacity

\* Every address of the Subnet that DRA handed out has its ip object, and only one.
LEMMA AddressesSum ==
  ASSUME Handed
  PROVE  /\ Addresses \in [Owner -> Nat]
         /\ Sum(given, Allocated(reserved)) = Sum(given, Claim)
         /\ Sum(Addresses, Owner) = Leaving + Sum(given, Claim)
<1> DEFINE A == Allocated(reserved)
           named == [o \in Owner |-> {c \in A : NameOf(c, reserved) = o}]
           of == [o \in Owner |-> Sum(given, named[o])]
<1>1. A \subseteq Claim /\ IsFiniteSet(A) /\ IsFiniteSet(Owner)
  BY AllocatedFinite, OwnerFinite
<1>2. Counts(given, Claim) /\ Counts(left, Owner)
  BY CapacityAssumption, OwnerFinite DEF Counts, Handed, CapacityAssumption
<1>3. Counts(given, A)
  BY <1>1, <1>2, SumPart
<1>4. named \in [Owner -> SUBSET A] /\ \A o, n \in Owner : o # n => named[o] \cap named[n] = {}
  OBVIOUS
<1>5. UNION {named[o] : o \in Owner} = A
  BY NameOfType DEF Handed
<1>6. \A o \in Owner : of[o] = Sum(given, named[o]) /\ Addresses[o] = left[o] + of[o]
  BY DEF Addresses
<1>7. Addresses = [o \in Owner |-> Addresses[o]]
  BY DEF Addresses
<1> HIDE DEF named, of
<1>8. Counts(of, Owner) /\ Sum(of, Owner) = Sum(given, A)
  <2> HIDE DEF A
  <2> QED
    BY <1>1, <1>3, <1>4, <1>5, <1>6, SumFamily
<1>9. Counts(Addresses, Owner) /\ Sum(Addresses, Owner) = Leaving + Sum(of, Owner)
  BY <1>2, <1>6, <1>8, SumPlus DEF Leaving
<1>10. Sum(given, A) = Sum(given, Claim)
  <2>1. \A c \in Claim \ A : given[c] = 0
    BY DEF Allocated, Handed
  <2> QED
    BY <1>1, <2>1, SumZeros
<1>11. Addresses \in [Owner -> Nat]
  BY <1>7, <1>9 DEF Counts
<1> QED
  BY <1>8, <1>9, <1>10, <1>11

\* The sums that the counters of an instance are made of.
LEMMA HandedSums ==
  ASSUME Handed
  PROVE  /\ Counts(given, Claim) /\ Counts(left, Owner) /\ Counts(NICs, Claim)
         /\ Leaving \in Nat /\ Sum(given, Claim) \in Nat
         /\ Usable \in 0..Total /\ Total \in Nat /\ other \in Nat
         /\ Free = Usable - Leaving - Sum(given, Claim) /\ Free \in 0..Total
<1>1. Counts(given, Claim) /\ Counts(left, Owner) /\ Counts(NICs, Claim)
  BY CapacityAssumption, OwnerFinite DEF Counts, Handed, CapacityAssumption
<1>2. Leaving \in Nat /\ Sum(given, Claim) \in Nat
  BY <1>1, SumType DEF Leaving
<1>3. Total \in Nat /\ other \in 0..Total /\ Leaving + Sum(given, Claim) <= Usable
  BY CapacityAssumption DEF CapacityAssumption, Handed
<1> QED
  BY <1>1, <1>2, <1>3 DEF Free, Usable

\* The type invariant follows.
LEMMA HandedTypeOK == Handed /\ Watched => TypeOK
<1> SUFFICES ASSUME Handed, Watched PROVE TypeOK
  OBVIOUS
<1>1. Free \in 0..Total
  BY HandedSums
<1>2. left \in [Owner -> 0..Total]
  <2>1. ASSUME NEW o \in Owner PROVE left[o] \in 0..Total
    <3>1. Leaving \in Nat /\ Leaving <= Total /\ Total \in Nat
      BY HandedSums DEF Handed
    <3>2. Leaving = Sum(left, Owner \ {o}) + left[o] /\ Sum(left, Owner \ {o}) \in Nat /\ left[o] \in Nat
      BY HandedSums, SumSplit DEF Leaving
    <3> QED
      BY <3>1, <3>2
  <2> QED
    BY <2>1 DEF Handed
<1>3. \A c \in Claim : given[c] \in 0..NICs[c]
  BY CapacityAssumption DEF CapacityAssumption, Handed
<1> QED
  BY <1>1, <1>2, <1>3 DEF TypeOK, Handed, Watched

\* NICs with and without an address.
LEMMA PendingSum ==
  ASSUME Handed
  PROVE  Pending \in Nat /\ Consumed \in Nat /\ Consumed = Pending + Sum(given, Claim)
<1> DEFINE A == Allocated(reserved)
           waiting == [c \in Claim |-> NICs[c] - given[c]]
<1>1. A \subseteq Claim /\ IsFiniteSet(A)
  BY AllocatedFinite
<1>2. ASSUME NEW c \in Claim
      PROVE  NICs[c] \in Nat /\ given[c] \in Nat /\ waiting[c] \in Nat /\ NICs[c] = waiting[c] + given[c]
  BY CapacityAssumption DEF CapacityAssumption, Handed
<1> HIDE DEF waiting, A
<1>3. Counts(waiting, A) /\ Counts(given, A) /\ \A c \in A : NICs[c] = waiting[c] + given[c]
  BY <1>1, <1>2 DEF Counts
<1>4. Counts(NICs, A) /\ Sum(NICs, A) = Sum(waiting, A) + Sum(given, A)
  BY <1>3, SumPlus
<1>5. Sum(waiting, A) \in Nat /\ Sum(NICs, A) \in Nat
  BY <1>3, <1>4, SumType
<1>6. Sum(given, A) = Sum(given, Claim)
  BY AddressesSum DEF A
<1> QED
  BY <1>4, <1>5, <1>6 DEF Pending, Consumed, A, waiting

-----------------------------------------------------------------------------
(* The invariant is inductive                                              *)

LEMMA SumEmpty == ASSUME NEW f PROVE Sum(f, {}) = 0
<1>1. Units(f, {}) = {}
  BY DEF Units
<1> QED
  BY <1>1, FS_EmptySet DEF Sum

\* What informers that are up to date have.
LEMMA CurrentType ==
  ASSUME Handed
  PROVE  /\ Current \in [free : 0..Total, ips : [Owner -> Nat], claims : [Claim -> SUBSET Pod]]
         /\ Current.free = Free /\ Current.ips = Addresses /\ Current.claims = reserved
         /\ Free + Sum(Addresses, Owner) = Usable
<1>1. Free \in 0..Total /\ Free = Usable - Leaving - Sum(given, Claim) /\ Leaving \in Nat
      /\ Sum(given, Claim) \in Nat /\ Usable \in 0..Total /\ Total \in Nat
  BY HandedSums
<1>2. Addresses \in [Owner -> Nat] /\ Sum(Addresses, Owner) = Leaving + Sum(given, Claim)
  BY AddressesSum
<1>3. Free + Sum(Addresses, Owner) = Usable
  BY <1>1, <1>2
<1>4. reserved \in [Claim -> SUBSET Pod]
  BY DEF Handed
<1> QED
  BY <1>1, <1>2, <1>3, <1>4 DEF Current

LEMMA HandedInit == Init => Handed
<1> SUFFICES ASSUME Init PROVE Handed
  OBVIOUS
<1>1. given \in [Claim -> Nat] /\ \A c \in Claim : given[c] = 0
  BY DEF Init
<1>2. left \in [Owner -> Nat] /\ \A o \in Owner : left[o] = 0
  BY DEF Init
<1>3. Sum(given, Claim) = 0
  <2>1. Sum(given, Claim) = Sum(given, {})
    BY <1>1, SumZeros
  <2> QED
    BY <2>1, SumEmpty
<1>4. Leaving = 0
  <2>1. Sum(left, Owner) = Sum(left, {})
    BY <1>2, SumZeros
  <2> QED
    BY <2>1, SumEmpty DEF Leaving
<1>5. Leaving + Sum(given, Claim) <= Usable /\ other \in 0..Total
  BY <1>3, <1>4, CapacityAssumption DEF Init, Usable, CapacityAssumption
<1>6. \A c \in Claim : given[c] <= NICs[c]
  BY <1>1, CapacityAssumption DEF CapacityAssumption
<1>7. reserved \in [Claim -> SUBSET Pod] /\ \A c \in Claim : reserved[c] = {}
  BY DEF Init
<1> QED
  BY <1>1, <1>2, <1>5, <1>6, <1>7 DEF Handed

LEMMA WatchedInit == Init => Watched
<1> SUFFICES ASSUME Init PROVE Watched
  OBVIOUS
<1>1. Handed /\ seen = Current
  BY HandedInit DEF Init
<1>2. seen \in [free : 0..Total, ips : [Owner -> Nat], claims : [Claim -> SUBSET Pod]]
  BY <1>1, CurrentType
<1>3. \A c \in Claim : seen.claims[c] \subseteq UsersOf[c]
  BY <1>1, CurrentType DEF Handed
<1>4. 0..Total \subseteq Nat
  BY CapacityAssumption DEF CapacityAssumption
<1>5. published \in Nat
  BY <1>2, <1>4, FamilyCapacityType DEF Init
<1> QED
  BY <1>2, <1>3, <1>5 DEF Watched

\* Only the claim's users and its NICs matter to a step that moves no address.
LEMMA HandedSame ==
  ASSUME Handed, reserved' \in [Claim -> SUBSET Pod], UNCHANGED <<given, left, other>>,
         \A c \in Claim : reserved'[c] \subseteq UsersOf[c] /\ (reserved'[c] = {} => reserved[c] = {})
  PROVE  Handed'
<1>1. Leaving' = Leaving /\ Sum(given, Claim)' = Sum(given, Claim) /\ Usable' = Usable
  BY DEF Leaving, Usable
<1> QED
  BY <1>1 DEF Handed

LEMMA HandedAllocate ==
  ASSUME Handed, NEW c \in Claim, NEW p \in UsersOf[c], Allocate(c, p) PROVE Handed'
<1>1. p \in Pod
  BY CapacityAssumption DEF CapacityAssumption
<1> QED
  BY <1>1, HandedSame DEF Handed, Allocate

LEMMA HandedReserve ==
  ASSUME Handed, NEW c \in Claim, NEW p \in UsersOf[c], Reserve(c, p) PROVE Handed'
<1>1. p \in Pod
  BY CapacityAssumption DEF CapacityAssumption
<1> QED
  BY <1>1, HandedSame DEF Handed, Reserve

LEMMA HandedUnreserve ==
  ASSUME Handed, NEW c \in Claim, NEW p \in UsersOf[c], Unreserve(c, p) PROVE Handed'
<1>1. \A d \in Claim : reserved'[d] = {} => reserved[d] = {}
  BY DEF Handed, Unreserve
<1> QED
  BY <1>1, HandedSame DEF Handed, Unreserve

\* One of the counters changes.
LEMMA LeavingUpdate ==
  ASSUME Handed, NEW o \in Owner, NEW n \in Nat, left' = [left EXCEPT ![o] = n]
  PROVE  left' \in [Owner -> Nat] /\ Leaving' = Leaving - left[o] + n /\ left[o] \in Nat
<1>1. Counts(left, Owner) /\ left = [x \in Owner |-> left[x]] /\ left \in [Owner -> Nat]
  BY HandedSums DEF Handed
<1>2. Sum([left EXCEPT ![o] = n], Owner) = Sum(left, Owner) - left[o] + n
  BY <1>1, SumUpdate
<1> QED
  BY <1>1, <1>2 DEF Leaving

LEMMA GivenUpdate ==
  ASSUME Handed, NEW c \in Claim, NEW n \in Nat, given' = [given EXCEPT ![c] = n]
  PROVE  given' \in [Claim -> Nat] /\ Sum(given, Claim)' = Sum(given, Claim) - given[c] + n /\ given[c] \in Nat
<1>1. Counts(given, Claim) /\ given = [x \in Claim |-> given[x]] /\ given \in [Claim -> Nat]
  BY HandedSums DEF Handed
<1>2. Sum([given EXCEPT ![c] = n], Claim) = Sum(given, Claim) - given[c] + n
  BY <1>1, SumUpdate
<1> QED
  BY <1>1, <1>2

LEMMA HandedAssign ==
  ASSUME Handed, NEW c \in Claim, Assign(c) PROVE Handed'
<1> DEFINE o == NameOf(c, reserved)
<1>1. o \in Owner
  BY NameOfType DEF Handed, Assign, Allocated
<1> HIDE DEF o
<1>2. given[c] \in Nat /\ given[c] + 1 \in Nat /\ given[c] < NICs[c] /\ reserved[c] # {} /\ NICs[c] \in Nat
  <2>1. NICs[c] \in Nat
    BY CapacityAssumption DEF CapacityAssumption
  <2> QED
    BY <2>1 DEF Handed, Assign
<1>3. given' = [given EXCEPT ![c] = given[c] + 1] /\ UNCHANGED <<reserved, other>>
  BY DEF Assign
<1>4. given' \in [Claim -> Nat] /\ Sum(given, Claim)' = Sum(given, Claim) + 1
  <2>1. given' \in [Claim -> Nat] /\ Sum(given, Claim)' = Sum(given, Claim) - given[c] + (given[c] + 1)
    BY <1>2, <1>3, GivenUpdate, Zenon
  <2> QED
    BY <1>2, <2>1, HandedSums
<1>5. \A d \in Claim : given'[d] <= NICs[d] /\ (reserved'[d] = {} => given'[d] = 0)
  BY <1>2, <1>3 DEF Handed
<1>6. Usable' = Usable
  BY <1>3 DEF Usable
<1>7. left' \in [Owner -> Nat] /\ (Leaving + Sum(given, Claim))' <= Usable'
  <2>1. CASE left[o] > 0 /\ left' = [left EXCEPT ![o] = left[o] - 1]
    <3>1. left[o] - 1 \in Nat /\ left[o] \in Nat
      BY <1>1, <2>1 DEF Handed
    <3>2. left' \in [Owner -> Nat] /\ Leaving' = Leaving - left[o] + (left[o] - 1)
      BY <1>1, <2>1, <3>1, LeavingUpdate, Zenon
    <3> QED
      BY <1>4, <1>6, <3>1, <3>2, HandedSums DEF Handed
  <2>2. CASE Free > 0 /\ left' = left
    <3>1. Leaving' = Leaving
      BY <2>2 DEF Leaving
    <3> QED
      BY <1>4, <1>6, <2>2, <3>1, HandedSums DEF Handed
  <2> QED
    BY <2>1, <2>2 DEF Assign, o
<1> QED
  BY <1>3, <1>4, <1>5, <1>7 DEF Handed

LEMMA HandedDeallocate ==
  ASSUME Handed, NEW c \in Claim, Deallocate(c) PROVE Handed'
<1> DEFINE o == NameOf(c, reserved)
<1>1. o \in Owner
  BY NameOfType DEF Handed, Deallocate, Allocated
<1>2. left' = [left EXCEPT ![o] = left[o] + given[c]]
  BY DEF Deallocate
<1> HIDE DEF o
<1>3. given[c] \in Nat /\ left[o] \in Nat /\ left[o] + given[c] \in Nat
  BY <1>1 DEF Handed
<1>4. given' = [given EXCEPT ![c] = 0] /\ reserved' = [reserved EXCEPT ![c] = {}] /\ other' = other
  BY DEF Deallocate
<1>5. given' \in [Claim -> Nat] /\ Sum(given, Claim)' = Sum(given, Claim) - given[c] + 0
  BY <1>4, GivenUpdate, Zenon
<1>6. left' \in [Owner -> Nat] /\ Leaving' = Leaving - left[o] + (left[o] + given[c])
  BY <1>1, <1>2, <1>3, LeavingUpdate, Zenon
<1>7. Usable' = Usable
  BY <1>4 DEF Usable
<1>8. (Leaving + Sum(given, Claim))' <= Usable'
  BY <1>3, <1>5, <1>6, <1>7, HandedSums DEF Handed
<1>9. ASSUME NEW d \in Claim PROVE given'[d] <= NICs[d] /\ (reserved'[d] = {} => given'[d] = 0)
  <2>1. NICs[d] \in Nat
    BY CapacityAssumption DEF CapacityAssumption
  <2>2. given'[d] = (IF d = c THEN 0 ELSE given[d]) /\ reserved'[d] = (IF d = c THEN {} ELSE reserved[d])
    BY <1>4 DEF Handed
  <2> QED
    BY <2>1, <2>2 DEF Handed
<1> QED
  BY <1>4, <1>5, <1>6, <1>8, <1>9 DEF Handed

LEMMA HandedRelease ==
  ASSUME Handed, NEW o \in Owner, Release(o) PROVE Handed'
<1>1. left[o] \in Nat /\ left[o] - 1 \in Nat /\ left' = [left EXCEPT ![o] = left[o] - 1]
  BY DEF Handed, Release
<1>2. left' \in [Owner -> Nat] /\ Leaving' = Leaving - left[o] + (left[o] - 1)
  BY <1>1, LeavingUpdate, Zenon
<1>3. Usable' = Usable /\ UNCHANGED <<given, reserved, other>>
  BY DEF Release, Usable
<1>4. (Leaving + Sum(given, Claim))' <= Usable'
  BY <1>1, <1>2, <1>3, HandedSums DEF Handed
<1> QED
  BY <1>2, <1>3, <1>4 DEF Handed

LEMMA HandedNext == Handed /\ [Next]_vars => Handed'
<1> SUFFICES ASSUME Handed, [Next]_vars PROVE Handed'
  OBVIOUS
<1>1. ASSUME UNCHANGED <<reserved, given, left, other>> PROVE Handed'
  BY <1>1, HandedSame DEF Handed
<1>2. CASE UNCHANGED vars
  BY <1>1, <1>2 DEF vars
<1>3. CASE ObserveClaims \/ ObserveAddresses \/ Publish
  BY <1>1, <1>3 DEF ObserveClaims, ObserveAddresses, Publish
<1> QED
  BY <1>2, <1>3, HandedAllocate, HandedReserve, HandedUnreserve, HandedAssign,
     HandedDeallocate, HandedRelease DEF Next

LEMMA WatchedNext == Handed /\ Watched /\ [Next]_vars => Watched'
<1> SUFFICES ASSUME Handed, Watched, [Next]_vars PROVE Watched'
  OBVIOUS
<1> DEFINE View == [free : 0..Total, ips : [Owner -> Nat], claims : [Claim -> SUBSET Pod]]
<1>1. CASE UNCHANGED <<seen, published>>
  BY <1>1 DEF Watched
<1>2. CASE ObserveClaims
  BY <1>2 DEF ObserveClaims, Watched, Handed
<1>3. CASE ObserveAddresses
  <2>1. Free \in 0..Total /\ Addresses \in [Owner -> Nat]
    BY HandedSums, AddressesSum
  <2>2. seen \in View
    BY DEF Watched
  <2>3. seen' \in View /\ seen'.claims = seen.claims /\ published' = published
    BY <1>3, <2>1, <2>2, Zenon DEF ObserveAddresses
  <2> QED
    BY <2>3 DEF Watched
<1>4. CASE Publish
  <2>1. seen.free \in Nat /\ seen.ips \in [Owner -> Nat] /\ seen.claims \in [Claim -> SUBSET Pod]
    BY CapacityAssumption DEF Watched, CapacityAssumption
  <2>2. published' \in Nat /\ seen' = seen
    BY <1>4, <2>1, FamilyCapacityType DEF Publish
  <2> QED
    BY <2>2 DEF Watched
<1> QED
  BY <1>1, <1>2, <1>3, <1>4 DEF Next, vars, Allocate, Reserve, Unreserve, Assign, Deallocate, Release

\* What every behaviour keeps.
LEMMA CapacityHanded == Spec => [](Handed /\ Watched)
<1>1. Init => Handed /\ Watched
  BY HandedInit, WatchedInit
<1>2. Handed /\ Watched /\ [Next]_vars => (Handed /\ Watched)'
  BY HandedNext, WatchedNext
<1> QED
  BY <1>1, <1>2, PTL DEF Spec

\* The counters of an instance have their types, and no more addresses are handed
\* out than the Subnet has (Free is never negative).
THEOREM CapacityTypes == Spec => []TypeOK
<1>1. Handed /\ Watched => TypeOK
  BY HandedTypeOK
<1> QED
  BY <1>1, CapacityHanded, PTL

-----------------------------------------------------------------------------
(* No address counts twice, none is lost                                   *)

\* What ApplyHeld adds back for all the claims is at most the number of ip objects,
\* with any number of claims, NICs and VMs that migrate.
THEOREM CapacityHeldIsReal ==
  ASSUME OneClaimPerOwner
  PROVE  Spec => []HeldIsReal
<1>1. Handed => HeldIsReal
  BY AddressesSum, ApplyHeldBound DEF Handed, HeldIsReal
<1> QED
  BY <1>1, CapacityHanded, PTL

\* With nothing left over, each claim is found to hold what it was given.
LEMMA HeldIsGiven ==
  ASSUME OneClaimPerOwner, Handed, Leaving = 0, NEW c \in Allocated(reserved)
  PROVE  Held(c, reserved, Addresses, {}) = given[c]
<1> DEFINE o == NameOf(c, reserved)
           names == NamesOf(c, reserved, {})
           named(n) == {d \in Allocated(reserved) : NameOf(d, reserved) = n}
<1>1. c \in Claim /\ reserved \in [Claim -> SUBSET Pod] /\ Addresses \in [Owner -> Nat]
  BY AddressesSum DEF Allocated, Handed
<1>2. \A d \in Allocated(reserved) : NameOf(d, reserved) \in NamesOf(d, reserved, {})
  <2> SUFFICES ASSUME NEW d \in Allocated(reserved) PROVE NameOf(d, reserved) \in NamesOf(d, reserved, {})
    OBVIOUS
  <2>1. PICK p \in reserved[d] : NameOf(d, reserved) = OwnerOf(p)
    BY <1>1, NameOfType
  <2>2. OwnerOf(p) \in OwnersOf(p, {})
    BY DEF OwnerOf, OwnersOf
  <2> QED
    BY <2>1, <2>2 DEF NamesOf
<1>3. \A n \in Owner : left[n] = 0
  <2> SUFFICES ASSUME NEW n \in Owner PROVE left[n] = 0
    OBVIOUS
  <2>1. Sum(left, Owner) = Sum(left, Owner \ {n}) + left[n] /\ Sum(left, Owner \ {n}) \in Nat /\ left[n] \in Nat
    BY HandedSums, SumSplit, Zenon
  <2> QED
    BY <2>1 DEF Leaving
<1>4. o \in names /\ names \subseteq Owner /\ c \in named(o)
  BY <1>1, <1>2, NamesOfType
<1>5. ASSUME NEW n \in names, NEW d \in named(n) PROVE d = c
  <2>1. d \in Claim /\ n \in NamesOf(d, reserved, {})
    BY <1>2 DEF Allocated
  <2> QED
    BY <1>1, <2>1, NamesDiffer DEF Handed
<1>6. given[c] \in Nat /\ NICs[c] \in Nat /\ given[c] <= NICs[c]
  BY <1>1, CapacityAssumption DEF Handed, CapacityAssumption
<1>7. Addresses[o] = given[c]
  <2>1. named(o) = {c}
    BY <1>4, <1>5
  <2>2. Sum(given, named(o)) = given[c]
    BY <1>6, <2>1, SumOne
  <2>3. Addresses[o] = left[o] + Sum(given, named(o))
    BY <1>4 DEF Addresses
  <2> QED
    BY <1>3, <1>4, <1>6, <2>2, <2>3
<1>8. \A n \in names \ {o} : Addresses[n] = 0
  <2> SUFFICES ASSUME NEW n \in names, n # o PROVE Addresses[n] = 0
    OBVIOUS
  <2>1. named(n) = {}
    BY <1>5
  <2>2. Addresses[n] = left[n] + Sum(given, named(n))
    BY <1>4 DEF Addresses
  <2> QED
    BY <1>3, <1>4, <2>1, <2>2, SumEmpty
<1> HIDE DEF o, names, named
<1>9. Sum(Addresses, names) = given[c]
  <2>1. Sum(Addresses, names) = Sum(Addresses, {o})
    BY <1>4, <1>8, SumZeros
  <2> QED
    BY <1>6, <1>7, <2>1, SumOne
<1>10. Held(c, reserved, Addresses, {}) = Least(NICs[c], given[c])
  BY <1>1, <1>9, HeldType DEF names
<1> QED
  BY <1>6, <1>10 DEF Least

\* Once no address is left over, an up to date publisher shows the scheduler all of
\* the free addresses that no allocated claim waits for, and no others.
THEOREM CapacitySchedulerSeesFree ==
  ASSUME OneClaimPerOwner
  PROVE  Spec => []SchedulerSeesFree
<1>1. Handed => SchedulerSeesFree
  <2> SUFFICES ASSUME Handed, Leaving = 0
               PROVE  FamilyCapacity(Current, {}) - Consumed = Free - Pending
    BY DEF SchedulerSeesFree
  <2> DEFINE A == Allocated(reserved)
             held == [c \in Claim |-> Held(c, reserved, Addresses, {})]
  <2>1. \A c \in A : held[c] = given[c]
    BY HeldIsGiven DEF Allocated
  <2>2. ApplyHeld(reserved, Addresses, {}) = Sum(held, A)
    BY DEF ApplyHeld
  <2> HIDE DEF held, A
  <2>3. Sum(held, A) = Sum(given, A)
    BY <2>1, SumSame
  <2>4. Sum(given, A) = Sum(given, Claim)
    BY AddressesSum DEF A
  <2>5. 0..Total \subseteq Nat
    BY CapacityAssumption DEF CapacityAssumption
  <2>6. FamilyCapacity(Current, {}) = Free + ApplyHeld(reserved, Addresses, {})
    BY <2>5, CurrentType, FamilyCapacityType
  <2> QED
    BY <2>2, <2>3, <2>4, <2>6, PendingSum, HandedSums
<1> QED
  BY <1>1, CapacityHanded, PTL

-----------------------------------------------------------------------------
(* The Subnet is never overbooked                                          *)

\* What is published from a view that adds up.
LEMMA PublishedBound ==
  ASSUME OneClaimPerOwner, Watched, seen.free + Sum(seen.ips, Owner) = Usable, NEW unread
  PROVE  FamilyCapacity(seen, unread) <= Usable
<1>1. seen.free \in Nat /\ seen.ips \in [Owner -> Nat] /\ seen.claims \in [Claim -> SUBSET Pod]
  BY CapacityAssumption DEF Watched, CapacityAssumption
<1>2. FamilyCapacity(seen, unread) = seen.free + ApplyHeld(seen.claims, seen.ips, unread)
  BY <1>1, FamilyCapacityType
<1>3. ApplyHeld(seen.claims, seen.ips, unread) <= Sum(seen.ips, Owner)
  BY <1>1, ApplyHeldBound DEF Watched
<1>4. ApplyHeld(seen.claims, seen.ips, unread) \in Nat /\ Sum(seen.ips, Owner) \in Nat
  <2>1. Counts(seen.ips, Owner)
    BY <1>1, OwnerFinite DEF Counts
  <2> QED
    BY <1>1, <2>1, ApplyHeldType, SumType
<1> QED
  BY <1>1, <1>2, <1>3, <1>4

LEMMA BookedInit == OneClaimPerOwner /\ Init => Booked
<1> SUFFICES ASSUME OneClaimPerOwner, Init PROVE Booked
  OBVIOUS
<1>1. Handed /\ Watched /\ seen = Current
  BY HandedInit, WatchedInit DEF Init
<1>2. seen.free = Free /\ seen.ips = Addresses /\ seen.claims = reserved /\ Free + Sum(Addresses, Owner) = Usable
  BY <1>1, CurrentType
<1>3. published <= Usable
  BY <1>1, <1>2, PublishedBound DEF Init
<1>4. Consumed = 0
  <2>1. Allocated(reserved) = {}
    BY DEF Init, Allocated
  <2> QED
    BY <2>1, SumEmpty DEF Consumed
<1>5. Usable \in 0..Total /\ Total \in Nat
  BY <1>1, HandedSums
<1> QED
  BY <1>2, <1>3, <1>4, <1>5 DEF Booked

\* A scheduler that never allocates more than the capacity keeps to the Subnet, since
\* no capacity is more than the Subnet has.
LEMMA BookedNext ==
  OneClaimPerOwner /\ ~StatusLags /\ Handed /\ Watched /\ Booked /\ [Next]_vars => Booked'
<1> SUFFICES ASSUME OneClaimPerOwner, ~StatusLags, Handed, Watched, Booked, [Next]_vars PROVE Booked'
  OBVIOUS
<1> DEFINE Adds == seen.free + Sum(seen.ips, Owner) = Usable
<1>1. Usable' = Usable /\ Usable \in Nat
  <2>1. other' = other
    BY DEF Next, vars, Allocate, Reserve, Unreserve, Assign, Deallocate, Release,
       ObserveClaims, ObserveAddresses, Publish
  <2> QED
    BY <2>1, HandedSums DEF Usable
<1>2. Adds'
  <2>1. CASE UNCHANGED seen
    BY <1>1, <2>1 DEF Booked
  <2>2. CASE ObserveClaims
    <3>1. seen'.free = seen.free /\ seen'.ips = seen.ips
      BY <2>2 DEF ObserveClaims, Watched
    <3> QED
      BY <1>1, <3>1 DEF Booked
  <2>3. CASE ObserveAddresses
    <3>1. seen'.free = Free /\ seen'.ips = Addresses
      BY <2>3, Zenon DEF ObserveAddresses, Watched
    <3> QED
      BY <1>1, <3>1, CurrentType
  <2> QED
    BY <2>1, <2>2, <2>3 DEF Next, vars, Allocate, Reserve, Unreserve, Assign, Deallocate,
       Release, Publish
<1>3. published' <= Usable'
  <2>1. CASE UNCHANGED published
    BY <1>1, <2>1 DEF Booked
  <2>2. CASE Publish
    BY <1>1, <2>2, PublishedBound DEF Publish, Booked
  <2> QED
    BY <2>1, <2>2 DEF Next, vars, Allocate, Reserve, Unreserve, Assign, Deallocate, Release,
       ObserveClaims, ObserveAddresses
<1>4. Consumed' <= Usable'
  <2>1. ASSUME Allocated(reserved)' \subseteq Allocated(reserved) PROVE Consumed' <= Usable'
    <3>1. Counts(NICs, Allocated(reserved))
      BY HandedSums, AllocatedFinite, SumPart
    <3>2. Consumed' <= Consumed /\ Consumed' \in Nat /\ Consumed \in Nat
      BY <2>1, <3>1, SumPart, SumType DEF Consumed
    <3> QED
      BY <1>1, <3>2 DEF Booked
  <2>2. ASSUME NEW c \in Claim, NEW p \in UsersOf[c], Allocate(c, p) PROVE Consumed' <= Usable'
    <3>1. Allocated(reserved)' = Allocated(reserved) \cup {c} /\ c \notin Allocated(reserved)
      BY <2>2 DEF Allocate, Allocated, Handed
    <3>2. Counts(NICs, Allocated(reserved)') /\ Consumed \in Nat
      BY HandedSums, AllocatedFinite, SumPart, SumType DEF Consumed
    <3>3. Allocated(reserved)' \ {c} = Allocated(reserved)
      BY <3>1
    <3>4. Consumed' = Consumed + NICs[c] /\ NICs[c] \in Nat
      BY <3>1, <3>2, <3>3, SumSplit DEF Consumed
    <3> QED
      BY <1>1, <2>2, <3>2, <3>4 DEF Allocate, Booked, Watched
  <2>3. ASSUME NEW c \in Claim, NEW p \in UsersOf[c], Reserve(c, p) \/ Unreserve(c, p)
        PROVE  Allocated(reserved)' \subseteq Allocated(reserved)
    BY <2>3 DEF Reserve, Unreserve, Allocated, Handed
  <2>4. ASSUME NEW c \in Claim, Deallocate(c) PROVE Allocated(reserved)' \subseteq Allocated(reserved)
    BY <2>4 DEF Deallocate, Allocated, Handed
  <2>5. CASE UNCHANGED reserved
    BY <2>1, <2>5 DEF Allocated
  <2> QED
    BY <2>1, <2>2, <2>3, <2>4, <2>5 DEF Next, vars, Assign, Release, ObserveClaims,
       ObserveAddresses, Publish
<1> QED
  BY <1>2, <1>3, <1>4 DEF Booked

\* While the Subnet status and the ip objects that the informers have are of one
\* moment, every NIC of an allocated claim can get an address, however far the
\* publisher is behind, whichever pods it cannot read and however many claims there
\* are.
THEOREM CapacityNotOverbooked ==
  ASSUME OneClaimPerOwner, ~StatusLags
  PROVE  Spec => []NotOverbooked
<1>1. Init => Booked
  BY BookedInit
<1>2. Handed /\ Watched /\ Booked /\ [Next]_vars => Booked'
  BY BookedNext
<1>3. Handed /\ Booked => NotOverbooked
  BY HandedSums, PendingSum DEF Booked, NotOverbooked
<1> QED
  BY <1>1, <1>2, <1>3, CapacityHanded, PTL DEF Spec

=============================================================================
