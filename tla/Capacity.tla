------------------------------ MODULE Capacity ------------------------------
(***************************************************************************)
(* The capacity that the central publisher gives to a Subnet               *)
(* (internal/publisher), against the scheduler that allocates claims from  *)
(* it and kube-ovn that hands out the addresses: one Subnet and one        *)
(* address family.                                                         *)
(*                                                                         *)
(*   capacity = free addresses + addresses held by allocated claims        *)
(*                                                                         *)
(* The publisher reads the Subnet, the ip objects and the claims from      *)
(* informers, which can be behind.  An ip object names the pod or the VM   *)
(* it belongs to, never a claim.                                           *)
(***************************************************************************)
EXTENDS Integers, FiniteSets

CONSTANTS
  Claim, Pod, VM, None,
  NICs,        \* NICs[c]: how many NICs on the Subnet the claim asks for
  UsersOf,     \* UsersOf[c]: the pods the claim can be reserved for
  VMOf,        \* VMOf[p]: the VM of a virt-launcher pod, or None
  Total,       \* addresses of the Subnet
  StatusLags   \* may the Subnet status and the ip objects be of different moments?

ASSUME CapacityAssumption ==
  /\ IsFiniteSet(Claim) /\ IsFiniteSet(Pod) /\ IsFiniteSet(VM)
  /\ NICs \in [Claim -> Nat \ {0}]
  /\ UsersOf \in [Claim -> SUBSET Pod]
  /\ VMOf \in [Pod -> VM \cup {None}] /\ None \notin VM /\ Pod \cap VM = {}
  /\ Total \in Nat
  /\ StatusLags \in BOOLEAN

VARIABLES
  reserved,    \* reserved[c]: status.reservedFor; a claim with one is allocated
  given,       \* given[c]: how many NICs of the claim have an address
  left,        \* left[o]: addresses still named after o whose claim is gone
  other,       \* addresses that DRA did not hand out
  seen,        \* what the informers of the publisher have
  published    \* the capacity the scheduler sees

vars == <<reserved, given, left, other, seen, published>>

Owner == Pod \cup VM

\* kube-ovn names the address of a VM's NIC after the VM.
OwnerOf(p) == IF VMOf[p] = None THEN p ELSE VMOf[p]

\* The name that the addresses of an allocated claim carry: its users are one pod,
\* or the launchers of one VM.
NameOf(c, res) == OwnerOf(CHOOSE p \in res[c] : TRUE)

Allocated(res) == {c \in Claim : res[c] # {}}

\* The sum of f[x] over x \in S, for natural numbers: a set with f[x] units for each
\* x.  It is counted and not folded, so that theorems on cardinality apply to it.
Units(f, S) == UNION {{x} \X (1..f[x]) : x \in S}
Sum(f, S) == Cardinality(Units(f, S))

\* The ip objects of the Subnet, counted by owner.
Addresses ==
  [o \in Owner |-> left[o]
     + Sum(given, {c \in Allocated(reserved) : NameOf(c, reserved) = o})]

Leaving == Sum(left, Owner)
Free == Total - other - Leaving - Sum(given, Claim)

\* What informers that are not behind have.
Current == [free |-> Free, ips |-> Addresses, claims |-> reserved]

-----------------------------------------------------------------------------
(* The publisher                                                           *)

\* podOwners: the names an address of the pod can carry.  The VM's is missing while
\* the pod cannot be read, and for as long as "not found" is cached.
BugOwnersOf(p, unread) == {p}   \* the label of the VM is not looked at
OwnersOf(p, unread) == {p} \cup (IF p \in unread THEN {} ELSE {VMOf[p]} \ {None})

Least(m, n) == IF m <= n THEN m ELSE n

\* ApplyHeld: how many of the claim's NICs have an address, as far as the ip
\* objects tell.  A name that two pods share is counted once.
BugHeldTwice(c, claims, ips, unread) ==   \* a shared name counts for each pod
  Least(NICs[c], Sum([p \in Pod |-> Sum(ips, OwnersOf(p, unread))], claims[c]))
Held(c, claims, ips, unread) ==
  LET names == UNION {OwnersOf(p, unread) : p \in claims[c]}
      have == Sum(ips, names)
  IN Least(NICs[c], have)

ApplyHeld(claims, ips, unread) ==
  Sum([c \in Claim |-> Held(c, claims, ips, unread)], Allocated(claims))

\* Family.Capacity.
FamilyCapacity(view, unread) ==
  LET n == view.free + ApplyHeld(view.claims, view.ips, unread) IN IF n < 0 THEN 0 ELSE n

-----------------------------------------------------------------------------

TypeOK ==
  /\ reserved \in [Claim -> SUBSET Pod]
  /\ \A c \in Claim : reserved[c] \subseteq UsersOf[c] /\ given[c] \in 0..NICs[c]
  /\ left \in [Owner -> 0..Total]
  /\ other \in 0..Total
  /\ Free \in 0..Total
  /\ seen.free \in 0..Total
  /\ seen.claims \in [Claim -> SUBSET Pod]
  /\ DOMAIN seen.ips = Owner
  /\ published \in Nat

Init ==
  /\ reserved = [c \in Claim |-> {}]
  /\ given = [c \in Claim |-> 0]
  /\ left = [o \in Owner |-> 0]
  /\ other \in 0..Total
  /\ seen = Current
  /\ published = FamilyCapacity(seen, {})

\* The scheduler allocates a claim for a pod if the capacity of the device, less
\* what the allocated claims consume, is enough.  It sees its own allocations.
Consumed == Sum(NICs, Allocated(reserved))
Allocate(c, p) ==
  /\ reserved[c] = {}
  /\ published - Consumed >= NICs[c]
  /\ reserved' = [reserved EXCEPT ![c] = {p}]
  /\ UNCHANGED <<given, left, other, seen, published>>

\* A VM migrates: its claim is reserved for the target launcher too, and for the
\* target alone once the source is gone.
Reserve(c, p) ==
  /\ reserved[c] # {} /\ p \notin reserved[c]
  /\ VMOf[p] # None /\ \A q \in reserved[c] : VMOf[q] = VMOf[p]
  /\ reserved' = [reserved EXCEPT ![c] = @ \cup {p}]
  /\ UNCHANGED <<given, left, other, seen, published>>

Unreserve(c, p) ==
  /\ p \in reserved[c] /\ reserved[c] # {p}
  /\ reserved' = [reserved EXCEPT ![c] = @ \ {p}]
  /\ UNCHANGED <<given, left, other, seen, published>>

\* kube-ovn gives a NIC of an allocated claim an address: one that its pod or VM
\* still has (a VM keeps its address), or a free one.
Assign(c) ==
  /\ reserved[c] # {}
  /\ given[c] < NICs[c]
  /\ LET o == NameOf(c, reserved)
     IN \/ left[o] > 0 /\ left' = [left EXCEPT ![o] = @ - 1]
        \/ left[o] = 0 /\ Free > 0 /\ UNCHANGED left
  /\ given' = [given EXCEPT ![c] = @ + 1]
  /\ UNCHANGED <<reserved, other, seen, published>>

\* The pod ends: its claim is deallocated, and kube-ovn releases the addresses
\* later.
Deallocate(c) ==
  /\ reserved[c] # {}
  /\ left' = [left EXCEPT ![NameOf(c, reserved)] = @ + given[c]]
  /\ given' = [given EXCEPT ![c] = 0]
  /\ reserved' = [reserved EXCEPT ![c] = {}]
  /\ UNCHANGED <<other, seen, published>>

Release(o) ==
  /\ left[o] > 0
  /\ left' = [left EXCEPT ![o] = @ - 1]
  /\ UNCHANGED <<reserved, given, other, seen, published>>

\* The informers catch up, with the claims apart from the rest; with StatusLags,
\* with the Subnet status apart from the ip objects too.
ObserveClaims ==
  /\ seen' = [seen EXCEPT !.claims = reserved]
  /\ UNCHANGED <<reserved, given, left, other, published>>

ObserveAddresses ==
  /\ \/ seen' = [seen EXCEPT !.free = Free, !.ips = Addresses]
     \/ StatusLags /\ seen' = [seen EXCEPT !.ips = Addresses]
  /\ UNCHANGED <<reserved, given, left, other, published>>

\* snapshotter.resources, and the publish of its result, with any of the pods unread.
BugPublishAll ==   \* every allocated claim counts as held
  /\ published' = seen.free + Sum(NICs, Allocated(seen.claims))
  /\ UNCHANGED <<reserved, given, left, other, seen>>
BugPublishFree ==   \* the allocated claims are subtracted here as well
  /\ published' = FamilyCapacity(seen, {}) - Sum(NICs, Allocated(seen.claims))
  /\ UNCHANGED <<reserved, given, left, other, seen>>
Publish ==
  /\ \E unread \in SUBSET {p \in Pod : VMOf[p] # None} : published' = FamilyCapacity(seen, unread)
  /\ UNCHANGED <<reserved, given, left, other, seen>>

Next ==
  \/ \E c \in Claim : \E p \in UsersOf[c] : Allocate(c, p) \/ Reserve(c, p) \/ Unreserve(c, p)
  \/ \E c \in Claim : Assign(c) \/ Deallocate(c)
  \/ \E o \in Owner : Release(o)
  \/ ObserveClaims
  \/ ObserveAddresses
  \/ Publish

Spec == Init /\ [][Next]_vars

-----------------------------------------------------------------------------
(* Properties                                                              *)

\* The addresses that allocated claims still wait for.
Pending == Sum([c \in Claim |-> NICs[c] - given[c]], Allocated(reserved))

\* The Subnet is never overbooked: every NIC of an allocated claim that has no
\* address yet can get one, at the latest when the addresses of ended pods are
\* released, however far the publisher is behind.  held.go: "the scheduler sees
\* exactly the addresses still free, also while a burst of pods waits for kube-ovn
\* to allocate their addresses".
NotOverbooked == Pending <= Free + Leaving

\* No address is held twice: what ApplyHeld adds back for all claims is at most
\* the number of ip objects, also while a VM migrates and two pods share its name.
HeldIsReal ==
  ApplyHeld(reserved, Addresses, {}) <= Sum(Addresses, Owner)

\* Nor is an address lost: once no address is left over, a publisher that is up to
\* date shows the scheduler the free addresses that no allocated claim waits for,
\* all of them, whichever NICs have theirs.
SchedulerSeesFree ==
  Leaving = 0 => FamilyCapacity(Current, {}) - Consumed = Free - Pending

=============================================================================
