----------------------- MODULE ConfigAndRefreshProofs -----------------------
(***************************************************************************)
(* DeviceConfig for lists of any length and any requests: the config of    *)
(* highest precedence applies, and what the webhook admits is taken.  And  *)
(* RefreshLoop for any devices: the loop never rests on stale ones.        *)
(***************************************************************************)
EXTENDS DeviceConfig, RefreshLoop, SequenceTheorems, WellFoundedInduction, TLAPS

\* The places in the list of configs.
Place == 1..Len(configs)

\* q has the first n places of a source, in their order.
From(q, source, n) ==
  /\ q \in Seq(Nat)
  /\ \A a \in 1..Len(q) : q[a] \in 1..n /\ configs[q[a]].source = source
  /\ \A a, b \in 1..Len(q) : a < b => q[a] < q[b]
  /\ \A i \in 1..n : configs[i].source = source => \E a \in 1..Len(q) : q[a] = i

\* q is a list of places, each of which beats those before it.
Ranked(q) ==
  /\ q \in Seq(Nat)
  /\ \A a \in 1..Len(q) : q[a] \in Place
  /\ \A a, b \in 1..Len(q) : a < b => Beats(q[b], q[a])

Types ==
  /\ configs \in Seq(Config)
  /\ stage \in {"create", "denied", "sort", "decode", "done", "error"}
  /\ pos \in Nat \ {0}

\* The first loop has put the configs before pos where they belong.
Sorting ==
  stage = "sort" =>
    /\ pos \in 1..Len(configs)+1
    /\ From(classConfigs, "class", pos - 1)
    /\ From(claimConfigs, "claim", pos - 1)
    /\ \A i \in 1..pos-1 : configs[i].source \in {"class", "claim"}

\* The second loop has kept those of the candidates before pos that decode.
Decoding ==
  stage = "decode" =>
    /\ Ranked(candidateConfigs)
    /\ \A i \in Place : \E m \in 1..Len(candidateConfigs) : candidateConfigs[m] = i
    /\ pos \in 1..Len(candidateConfigs)+1
    /\ Ranked(resultConfigs)
    /\ \A a \in 1..Len(resultConfigs) :
         /\ Decodes(configs[resultConfigs[a]])
         /\ \E m \in 1..pos-1 : resultConfigs[a] = candidateConfigs[m]
    /\ \A m \in 1..pos-1 : Decodes(configs[candidateConfigs[m]]) =>
         \E a \in 1..Len(resultConfigs) : resultConfigs[a] = candidateConfigs[m]

\* The sources of a list that passed the first loop.
Sources == stage \in {"decode", "done"} => \A i \in Place : configs[i].source \in {"class", "claim"}

\* Before the default is put in front and when the loop broke off.
Started == stage \in {"create", "sort"} => resultConfigs = <<>>
NotCreated == stage = "create" => pos = 1 /\ classConfigs = <<>> /\ claimConfigs = <<>>
Failed ==
  stage = "error" => \E i \in Place : configs[i].source = "other" \/ configs[i].kind \in {"broken", "unknown"}

\* The answer of the webhook.
Admitted == webhook = "allowed" => admitResourceClaimParameters(configs)

Inv == Types /\ NotCreated /\ Started /\ Sorting /\ Decoding /\ Sources /\ Failed /\ Admitted /\ HighestPrecedence

-----------------------------------------------------------------------------
(* Lists                                                                   *)

\* Numbers up to a bound have a greatest one.
LEMMA Greatest ==
  ASSUME NEW n \in Nat, NEW S \in SUBSET (1..n), S # {}
  PROVE  \E k \in S : \A m \in S : m <= k
<1> DEFINE T == {n - k : k \in S}
<1>1. T \subseteq Nat /\ T # {}
  <2>1. ASSUME NEW k \in S PROVE n - k \in Nat
    BY <2>1, k \in 1..n
  <2> QED
    BY <2>1, Zenon
<1>2. PICK x \in T : \A y \in T : ~(<<y, x>> \in OpToRel(<, Nat))
  BY <1>1, NatLessThanWellFounded, WFMin
<1>3. PICK k \in S : x = n - k
  OBVIOUS
<1>4. ASSUME NEW m \in S PROVE m <= k
  <2>1. n - m \in T /\ n - m \in Nat /\ x \in Nat
    BY <1>1
  <2>2. ~(n - m < x)
    BY <1>2, <2>1, Zenon DEF OpToRel
  <2> QED
    BY <1>3, <2>1, <2>2
<1> QED
  BY <1>4

\* The next place of its source goes to the end.
LEMMA FromAppend ==
  ASSUME NEW q, NEW source, NEW n \in Nat, From(q, source, n), configs[n + 1].source = source
  PROVE  From(Append(q, n + 1), source, n + 1)
<1> DEFINE r == Append(q, n + 1)
<1>1. /\ r \in Seq(Nat) /\ Len(r) = Len(q) + 1 /\ Len(q) \in Nat
      /\ \A a \in 1..Len(q) : r[a] = q[a]
      /\ r[Len(q) + 1] = n + 1
  BY AppendProperties DEF From
<1> HIDE DEF r
<1>2. \A a \in 1..Len(r) : a = Len(q) + 1 \/ a \in 1..Len(q)
  BY <1>1
<1>3. \A a \in 1..Len(q) : r[a] \in 1..n /\ configs[r[a]].source = source
  BY <1>1, Zenon DEF From
<1>4. \A a \in 1..Len(r) : r[a] \in 1..n+1 /\ configs[r[a]].source = source
  BY <1>1, <1>2, <1>3
<1>5. ASSUME NEW a \in 1..Len(r), NEW b \in 1..Len(r), a < b PROVE r[a] < r[b]
  <2>1. a \in 1..Len(q)
    BY <1>1, <1>5
  <2>2. CASE b = Len(q) + 1
    BY <1>1, <1>3, <2>1, <2>2
  <2>3. CASE b \in 1..Len(q)
    <3>1. q[a] < q[b]
      BY <1>5, <2>1, <2>3 DEF From
    <3> QED
      BY <1>1, <2>1, <2>3, <3>1
  <2> QED
    BY <1>2, <2>2, <2>3
<1>6. ASSUME NEW i \in 1..n+1, configs[i].source = source PROVE \E a \in 1..Len(r) : r[a] = i
  <2>1. CASE i = n + 1
    BY <1>1, <2>1
  <2>2. CASE i \in 1..n
    <3>1. PICK a \in 1..Len(q) : q[a] = i
      BY <1>6, <2>2 DEF From
    <3> QED
      BY <1>1, <3>1
  <2> QED
    BY <2>1, <2>2
<1> QED
  BY <1>1, <1>4, <1>5, <1>6, Zenon DEF From, r

LEMMA FromSkip ==
  ASSUME NEW q, NEW source, NEW n \in Nat, From(q, source, n), configs[n + 1].source # source
  PROVE  From(q, source, n + 1)
<1>1. \A i \in 1..n+1 : i = n + 1 \/ i \in 1..n
  OBVIOUS
<1>2. \A i \in 1..n : i \in 1..n+1
  OBVIOUS
<1> QED
  BY <1>1, <1>2 DEF From

\* The classes' configs and then the claim's: the candidates are ranked, and none is
\* missing.
LEMMA CandidatesRanked ==
  ASSUME Types, From(classConfigs, "class", Len(configs)), From(claimConfigs, "claim", Len(configs)),
         \A i \in Place : configs[i].source \in {"class", "claim"}
  PROVE  LET q == classConfigs \o claimConfigs
         IN Ranked(q) /\ \A i \in Place : \E m \in 1..Len(q) : q[m] = i
<1> DEFINE q == classConfigs \o claimConfigs
           n == Len(classConfigs)
<1>1. /\ q \in Seq(Nat) /\ Len(q) = n + Len(claimConfigs)
      /\ n \in Nat /\ Len(claimConfigs) \in Nat /\ Len(configs) \in Nat
      /\ \A a \in 1..Len(q) : q[a] = IF a <= n THEN classConfigs[a] ELSE claimConfigs[a - n]
  BY ConcatProperties DEF From, Types
<1> HIDE DEF q, n
<1>2. ASSUME NEW a \in 1..Len(q), a <= n
      PROVE  a \in 1..n /\ q[a] = classConfigs[a] /\ q[a] \in Place /\ configs[q[a]].source = "class"
  BY <1>1, <1>2 DEF From, Place, n
<1>3. ASSUME NEW a \in 1..Len(q), ~(a <= n)
      PROVE  /\ a - n \in 1..Len(claimConfigs) /\ q[a] = claimConfigs[a - n]
             /\ q[a] \in Place /\ configs[q[a]].source = "claim"
  <2>1. a - n \in 1..Len(claimConfigs)
    BY <1>1, <1>3
  <2>2. q[a] = claimConfigs[a - n]
    BY <1>1, <1>3
  <2> QED
    BY <2>1, <2>2 DEF From, Place
<1>4. ASSUME NEW a \in 1..Len(q), NEW b \in 1..Len(q), a < b PROVE Beats(q[b], q[a])
  <2>1. CASE b <= n
    <3>1. a \in 1..n /\ b \in 1..n /\ q[a] = classConfigs[a] /\ q[b] = classConfigs[b]
      BY <1>1, <1>2, <1>4, <2>1
    <3>2. q[a] < q[b]
      BY <1>4, <3>1 DEF From, n
    <3>3. a <= n
      BY <1>1, <1>4, <2>1
    <3>4. configs[q[a]].source = "class" /\ configs[q[b]].source = "class"
      BY <1>2, <2>1, <3>3
    <3> QED
      BY <3>2, <3>4 DEF Beats
  <2>2. CASE ~(b <= n) /\ a <= n
    BY <1>2, <1>3, <2>2 DEF Beats
  <2>3. CASE ~(b <= n) /\ ~(a <= n)
    <3>1. a - n < b - n
      BY <1>1, <1>4
    <3>2. a - n \in 1..Len(claimConfigs) /\ b - n \in 1..Len(claimConfigs)
          /\ q[a] = claimConfigs[a - n] /\ q[b] = claimConfigs[b - n]
      BY <1>3, <2>3
    <3>3. q[a] < q[b]
      BY <3>1, <3>2 DEF From
    <3> QED
      BY <1>1, <1>3, <2>3, <3>3 DEF Beats, Place
  <2> QED
    BY <2>1, <2>2, <2>3
<1>5. ASSUME NEW i \in Place PROVE \E m \in 1..Len(q) : q[m] = i
  <2>1. CASE configs[i].source = "class"
    <3>1. PICK a \in 1..n : classConfigs[a] = i
      BY <2>1, Zenon DEF From, Place, n
    <3>2. a \in 1..Len(q) /\ q[a] = i
      BY <1>1, <3>1
    <3> QED
      BY <3>2
  <2>2. CASE configs[i].source = "claim"
    <3>1. PICK a \in 1..Len(claimConfigs) : claimConfigs[a] = i
      BY <2>2 DEF From, Place
    <3>2. n + a \in 1..Len(q) /\ ~(n + a <= n) /\ (n + a) - n = a
      BY <1>1
    <3>3. q[n + a] = i
      BY <1>3, <3>1, <3>2
    <3> QED
      BY <3>2, <3>3
  <2> QED
    BY <2>1, <2>2
<1> QED
  BY <1>1, <1>2, <1>3, <1>4, <1>5, Zenon DEF Ranked, q

-----------------------------------------------------------------------------
(* The invariant is inductive                                              *)

LEMMA InitInv == ConfigInit => Inv
<1> SUFFICES ASSUME ConfigInit PROVE Inv
  OBVIOUS
<1>1. configs \in Seq(Config)
  <2>1. PICK n \in 0..MaxConfigs : configs \in [1..n -> Config]
    BY DEF ConfigInit
  <2>2. n \in Nat
    BY ConfigAssumption DEF ConfigAssumption
  <2> QED
    BY <2>1, <2>2
<1>2. Types
  BY <1>1 DEF ConfigInit, Types
<1> QED
  BY <1>2 DEF ConfigInit, Inv, NotCreated, Started, Sorting, Decoding, Sources, Failed, Admitted, HighestPrecedence

LEMMA CreateStep == ASSUME Inv, CreateClaim PROVE Inv'
<1>1. Types /\ pos = 1 /\ classConfigs = <<>> /\ claimConfigs = <<>> /\ resultConfigs = <<>>
  BY DEF Inv, CreateClaim, NotCreated, Started
<1>2. UNCHANGED <<configs, pos, lists, applied>> /\ stage' \in {"sort", "denied"}
  BY DEF CreateClaim
<1>3. Types'
  BY <1>1, <1>2 DEF Types
<1>4. Sorting'
  <2>1. <<>> \in Seq(Nat) /\ Len(<<>>) = 0
    BY EmptySeq
  <2>2. \A a : a \notin 1..0
    OBVIOUS
  <2>3. \A source : From(<<>>, source, 0)'
    BY <2>1, <2>2 DEF From
  <2>4. pos' = 1 /\ classConfigs' = <<>> /\ claimConfigs' = <<>> /\ Len(configs') \in Nat
    BY <1>1, <1>2 DEF lists, Types
  <2>5. From(classConfigs, "class", pos - 1)' /\ From(claimConfigs, "claim", pos - 1)'
    BY <2>3, <2>4
  <2> QED
    BY <2>2, <2>4, <2>5 DEF Sorting
<1>5. Admitted'
  BY <1>2 DEF CreateClaim, Admitted, admitResourceClaimParameters
<1> QED
  BY <1>1, <1>2, <1>3, <1>4, <1>5 DEF Inv, NotCreated, Started, Decoding, Sources, Failed,
     HighestPrecedence, lists

LEMMA SwitchStep == ASSUME Inv, SwitchSource PROVE Inv'
<1>1. /\ Types /\ stage = "sort" /\ pos \in 1..Len(configs) /\ Len(configs) \in Nat
      /\ From(classConfigs, "class", pos - 1) /\ From(claimConfigs, "claim", pos - 1)
      /\ \A i \in 1..pos-1 : configs[i].source \in {"class", "claim"}
      /\ resultConfigs = <<>>
  BY DEF Inv, SwitchSource, Sorting, Started, Types
<1>2. UNCHANGED <<configs, webhook, candidateConfigs, resultConfigs, applied>> /\ pos' = pos + 1
  BY DEF SwitchSource
<1>3. configs[pos] \in Config
  BY <1>1 DEF Types
<1>4. stage' = (IF configs[pos].source \in {"class", "claim"} THEN "sort" ELSE "error")
  BY DEF SwitchSource
<1>5. Types'
  BY <1>1, <1>2, <1>4 DEF Types
<1>6. pos - 1 \in Nat /\ (pos - 1) + 1 = pos /\ pos' - 1 = pos
  BY <1>1, <1>2
<1>7. From(classConfigs', "class", pos) /\ From(claimConfigs', "claim", pos)
  <2>1. CASE configs[pos].source = "class"
    <3>1. classConfigs' = Append(classConfigs, pos) /\ claimConfigs' = claimConfigs
      BY <2>1 DEF SwitchSource
    <3> QED
      BY <1>1, <1>6, <2>1, <3>1, FromAppend, FromSkip
  <2>2. CASE configs[pos].source = "claim"
    <3>1. claimConfigs' = Append(claimConfigs, pos) /\ classConfigs' = classConfigs
      BY <2>2 DEF SwitchSource
    <3> QED
      BY <1>1, <1>6, <2>2, <3>1, FromAppend, FromSkip, Zenon
  <2>3. CASE configs[pos].source \notin {"class", "claim"}
    <3>1. claimConfigs' = claimConfigs /\ classConfigs' = classConfigs
      BY <2>3 DEF SwitchSource
    <3> QED
      BY <1>1, <1>6, <2>3, <3>1, FromSkip
  <2> QED
    BY <2>1, <2>2, <2>3
<1>8. Sorting'
  <2> SUFFICES ASSUME stage' = "sort" PROVE Sorting'
    BY DEF Sorting
  <2>1. From(classConfigs, "class", pos - 1)' /\ From(claimConfigs, "claim", pos - 1)'
    BY <1>2, <1>6, <1>7 DEF From
  <2>2. configs[pos].source \in {"class", "claim"}
    BY <1>4
  <2>3. \A i \in 1..pos : i = pos \/ i \in 1..pos-1
    BY <1>1
  <2>4. \A i \in 1..pos : configs[i].source \in {"class", "claim"}
    BY <1>1, <2>2, <2>3
  <2>5. pos' \in 1..Len(configs')+1
    BY <1>1, <1>2
  <2> QED
    BY <1>2, <1>6, <2>1, <2>4, <2>5 DEF Sorting
<1>9. Failed'
  <2> SUFFICES ASSUME stage' = "error" PROVE Failed'
    BY DEF Failed
  <2>1. configs[pos].source = "other"
    BY <1>3, <1>4 DEF Config
  <2> QED
    BY <1>1, <1>2, <2>1 DEF Failed, Place
<1>10. stage' \in {"sort", "error"}
  BY <1>4
<1> QED
  BY <1>1, <1>2, <1>5, <1>8, <1>9, <1>10 DEF Inv, NotCreated, Started, Decoding, Sources, Admitted, HighestPrecedence

LEMMA CandidatesStep == ASSUME Inv, Candidates PROVE Inv'
<1>1. /\ Types /\ stage = "sort" /\ pos = Len(configs) + 1 /\ Len(configs) \in Nat
      /\ From(classConfigs, "class", pos - 1) /\ From(claimConfigs, "claim", pos - 1)
      /\ \A i \in 1..pos-1 : configs[i].source \in {"class", "claim"}
      /\ resultConfigs = <<>>
  BY DEF Inv, Candidates, Sorting, Started, Types
<1>2. /\ UNCHANGED <<configs, webhook, resultConfigs, applied>> /\ pos' = 1 /\ stage' = "decode"
      /\ candidateConfigs' = classConfigs \o claimConfigs
  BY DEF Candidates
<1>3. pos - 1 = Len(configs)
  BY <1>1
<1>4. Types'
  BY <1>1, <1>2 DEF Types
<1>5. Ranked(candidateConfigs') /\ \A i \in Place : \E m \in 1..Len(candidateConfigs') : candidateConfigs'[m] = i
  BY <1>1, <1>2, <1>3, CandidatesRanked DEF Place
<1>6. <<>> \in Seq(Nat) /\ Len(<<>>) = 0 /\ \A a : a \notin 1..0
  BY EmptySeq
<1>7. Decoding'
  <2>1. Ranked(candidateConfigs)' /\ Ranked(resultConfigs)'
    <3>1. configs' = configs
      BY <1>2
    <3>2. Ranked(candidateConfigs)'
      BY <1>5, <3>1 DEF Ranked, Place, Beats
    <3>3. resultConfigs' \in Seq(Nat) /\ \A a : a \notin 1..Len(resultConfigs')
      BY <1>1, <1>2, <1>6
    <3> QED
      BY <3>2, <3>3, Zenon DEF Ranked
  <2>2. Len(candidateConfigs') \in Nat
    BY <1>5 DEF Ranked
  <2>3. pos' \in 1..Len(candidateConfigs')+1 /\ pos' - 1 = 0
    BY <1>2, <2>2
  <2>4. Place' = Place
    BY <1>2 DEF Place
  <2> QED
    BY <1>1, <1>2, <1>5, <1>6, <2>1, <2>3, <2>4 DEF Decoding
<1>8. Sources'
  BY <1>1, <1>2, <1>3 DEF Sources, Place
<1> QED
  BY <1>2, <1>4, <1>7, <1>8 DEF Inv, NotCreated, Started, Sorting, Failed, Admitted, HighestPrecedence

\* A candidate that decodes beats those that were kept before it.
LEMMA RankedAppend ==
  ASSUME Types, Ranked(candidateConfigs), Ranked(resultConfigs), NEW m \in 1..Len(candidateConfigs),
         \A a \in 1..Len(resultConfigs) : \E k \in 1..m-1 : resultConfigs[a] = candidateConfigs[k]
  PROVE  LET q == Append(resultConfigs, candidateConfigs[m])
         IN /\ Ranked(q)
            /\ Len(q) = Len(resultConfigs) + 1 /\ Len(resultConfigs) \in Nat
            /\ q[Len(q)] = candidateConfigs[m]
            /\ \A a \in 1..Len(resultConfigs) : q[a] = resultConfigs[a]
<1> DEFINE q == Append(resultConfigs, candidateConfigs[m])
           n == Len(resultConfigs)
<1>1. candidateConfigs[m] \in Place /\ candidateConfigs[m] \in Nat /\ m \in Nat
  BY DEF Ranked, Place, Types
<1>2. /\ q \in Seq(Nat) /\ Len(q) = n + 1 /\ n \in Nat
      /\ \A a \in 1..n : q[a] = resultConfigs[a]
      /\ q[n + 1] = candidateConfigs[m]
  BY <1>1, AppendProperties DEF Ranked
<1> HIDE DEF q, n
<1>3. \A a \in 1..Len(q) : a = n + 1 \/ a \in 1..n
  BY <1>2
<1>4. \A a \in 1..Len(q) : q[a] \in Place
  BY <1>1, <1>2, <1>3, Zenon DEF Ranked, n
<1>5. ASSUME NEW a \in 1..Len(q), NEW b \in 1..Len(q), a < b PROVE Beats(q[b], q[a])
  <2>1. a \in 1..n
    BY <1>2, <1>5
  <2>2. CASE b \in 1..n
    <3>1. Beats(resultConfigs[b], resultConfigs[a])
      BY <1>5, <2>1, <2>2 DEF Ranked, n
    <3> QED
      BY <1>2, <2>1, <2>2, <3>1
  <2>3. CASE b = n + 1
    <3>1. PICK k \in 1..m-1 : resultConfigs[a] = candidateConfigs[k]
      BY <2>1 DEF n
    <3>2. Len(candidateConfigs) \in Nat
      BY DEF Ranked
    <3>3. k \in 1..Len(candidateConfigs) /\ k < m
      BY <1>1, <3>2
    <3>4. Beats(candidateConfigs[m], candidateConfigs[k])
      BY <3>3 DEF Ranked
    <3> QED
      BY <1>2, <2>1, <2>3, <3>1, <3>4
  <2> QED
    BY <1>3, <2>2, <2>3
<1> QED
  BY <1>2, <1>4, <1>5, Zenon DEF Ranked, q, n

LEMMA DecodeStep == ASSUME Inv, Decode PROVE Inv'
<1> DEFINE i == candidateConfigs[pos]
           keep == \E a \in 1..Len(resultConfigs') : resultConfigs'[a] = i
<1>1. /\ Types /\ stage = "decode" /\ pos \in 1..Len(candidateConfigs) /\ pos \in Nat
      /\ Ranked(candidateConfigs) /\ Ranked(resultConfigs) /\ Len(candidateConfigs) \in Nat
  BY DEF Inv, Decode, Decoding, Types, Ranked
<1>2. /\ \A j \in Place : \E m \in 1..Len(candidateConfigs) : candidateConfigs[m] = j
      /\ \A a \in 1..Len(resultConfigs) :
           Decodes(configs[resultConfigs[a]]) /\ \E m \in 1..pos-1 : resultConfigs[a] = candidateConfigs[m]
      /\ \A m \in 1..pos-1 : Decodes(configs[candidateConfigs[m]]) =>
           \E a \in 1..Len(resultConfigs) : resultConfigs[a] = candidateConfigs[m]
  BY <1>1 DEF Inv, Decoding
<1>3. UNCHANGED <<configs, webhook, candidateConfigs, applied>> /\ pos' = pos + 1
  BY DEF Decode
<1>4. i \in Place
  BY <1>1 DEF Ranked
<1>5. /\ stage' = (IF configs[i].kind \in {"broken", "unknown"} THEN "error" ELSE "decode")
      /\ resultConfigs' = IF Decodes(configs[i]) THEN Append(resultConfigs, i) ELSE resultConfigs
  BY DEF Decode
<1>6. Types'
  BY <1>1, <1>3, <1>5 DEF Types
<1>7. Failed'
  BY <1>3, <1>4, <1>5 DEF Failed, Place
<1>8. /\ Ranked(resultConfigs')
      /\ \A a \in 1..Len(resultConfigs') :
           /\ Decodes(configs[resultConfigs'[a]])
           /\ \E m \in 1..pos : resultConfigs'[a] = candidateConfigs[m]
      /\ \A m \in 1..pos : Decodes(configs[candidateConfigs[m]]) =>
           \E a \in 1..Len(resultConfigs') : resultConfigs'[a] = candidateConfigs[m]
  <2>1. \A m \in 1..pos : m = pos \/ m \in 1..pos-1
    BY <1>1
  <2>2. \A m \in 1..pos-1 : m \in 1..pos
    BY <1>1
  <2>3. CASE Decodes(configs[i])
    <3> DEFINE q == Append(resultConfigs, i)
               n == Len(resultConfigs)
    <3>1. Ranked(q) /\ Len(q) = n + 1 /\ n \in Nat /\ q[Len(q)] = i /\ \A a \in 1..n : q[a] = resultConfigs[a]
      BY <1>1, <1>2, RankedAppend
    <3>2. resultConfigs' = q
      BY <1>5, <2>3
    <3> HIDE DEF q, n
    <3>3. \A a \in 1..Len(q) : a = Len(q) \/ a \in 1..n
      BY <3>1
    <3>4. \A a \in 1..n : a \in 1..Len(q)
      BY <3>1
    <3>5. pos \in 1..pos /\ Len(q) \in 1..Len(q)
      BY <1>1, <3>1
    <3>6. ASSUME NEW a \in 1..Len(q)
          PROVE  Decodes(configs[q[a]]) /\ \E m \in 1..pos : q[a] = candidateConfigs[m]
      <4>1. CASE a = Len(q)
        BY <2>3, <3>1, <3>5, <4>1
      <4>2. CASE a \in 1..n
        BY <1>2, <2>2, <3>1, <4>2 DEF n
      <4> QED
        BY <3>3, <4>1, <4>2
    <3>7. ASSUME NEW m \in 1..pos, Decodes(configs[candidateConfigs[m]])
          PROVE  \E a \in 1..Len(q) : q[a] = candidateConfigs[m]
      <4>1. CASE m = pos
        BY <3>1, <3>5, <4>1
      <4>2. CASE m \in 1..pos-1
        <5>1. PICK a \in 1..n : resultConfigs[a] = candidateConfigs[m]
          BY <1>2, <3>7, <4>2 DEF n
        <5> QED
          BY <3>1, <3>4, <5>1
      <4> QED
        BY <2>1, <4>1, <4>2
    <3> QED
      BY <3>1, <3>2, <3>6, <3>7
  <2>4. CASE ~Decodes(configs[i])
    <3>1. resultConfigs' = resultConfigs
      BY <1>5, <2>4
    <3> QED
      BY <1>1, <1>2, <2>1, <2>2, <2>4, <3>1
  <2> QED
    BY <2>3, <2>4
<1>9. Decoding'
  <2>1. Ranked(candidateConfigs)' /\ Ranked(resultConfigs)' /\ Place' = Place
    BY <1>1, <1>3, <1>8 DEF Ranked, Place, Beats
  <2>2. pos' - 1 = pos /\ pos' \in 1..Len(candidateConfigs')+1
    BY <1>1, <1>3
  <2> QED
    BY <1>2, <1>3, <1>8, <2>1, <2>2 DEF Decoding
<1>10. stage' \in {"decode", "error"}
  BY <1>5
<1> QED
  BY <1>1, <1>3, <1>6, <1>7, <1>9, <1>10 DEF Inv, NotCreated, Started, Sorting, Sources, Admitted,
     HighestPrecedence, Place

\* The loop over the configs from the last to the first breaks, at the latest at the
\* default.
LEMMA Breaks ==
  ASSUME resultConfigs \in Seq(Nat), NEW r \in Request
  PROVE  LET n == Len(resultConfigs)
         IN /\ n \in Nat /\ Len(WithDefault) = n + 1 /\ WithDefault[1] = 0
            /\ \A a \in 1..n : WithDefault[a + 1] = resultConfigs[a]
            /\ Break(r) \in 1..n+1
            /\ Matches(WithDefault[Break(r)], r)
            /\ \A m \in Break(r)+1..n+1 : ~Matches(WithDefault[m], r)
<1> DEFINE n == Len(resultConfigs)
           S == {k \in 1..n+1 : Matches(WithDefault[k], r)}
           P(k) == /\ Matches(WithDefault[k], r)
                   /\ \A m \in k+1..Len(WithDefault) : ~Matches(WithDefault[m], r)
<1>1. <<0>> \in Seq(Nat) /\ Len(<<0>>) = 1 /\ <<0>>[1] = 0
  OBVIOUS
<1>2. /\ n \in Nat /\ Len(WithDefault) = 1 + n
      /\ \A a \in 1..1+n : WithDefault[a] = IF a <= 1 THEN <<0>>[a] ELSE resultConfigs[a - 1]
  BY <1>1, ConcatProperties DEF WithDefault
<1> HIDE DEF n
<1>3. WithDefault[1] = 0 /\ \A a \in 1..n : WithDefault[a + 1] = resultConfigs[a]
  BY <1>1, <1>2
<1>4. 1 \in S
  BY <1>2, <1>3 DEF Matches
<1>5. PICK k \in S : \A m \in S : m <= k
  <2>1. n + 1 \in Nat
    BY <1>2
  <2>2. S \in SUBSET (1..n+1)
    BY Zenon
  <2> HIDE DEF S
  <2> QED
    BY <1>4, <2>1, <2>2, Greatest, Zenon
<1>6. k \in 1..Len(WithDefault) /\ P(k)
  <2>1. k \in 1..n+1 /\ Matches(WithDefault[k], r)
    BY <1>5
  <2>2. ASSUME NEW m \in k+1..Len(WithDefault) PROVE ~Matches(WithDefault[m], r)
    <3>1. m \in 1..n+1 /\ ~(m <= k)
      BY <1>2, <2>1
    <3> QED
      BY <1>5, <3>1
  <2> QED
    BY <1>2, <2>1, <2>2
<1>7. Break(r) \in 1..Len(WithDefault) /\ P(Break(r))
  <2> HIDE DEF P
  <2>1. \E j \in 1..Len(WithDefault) : P(j)
    BY <1>6
  <2>2. Break(r) = CHOOSE j \in 1..Len(WithDefault) : P(j)
    BY DEF Break, P
  <2> QED
    BY <2>1, <2>2, Zenon
<1> QED
  BY <1>2, <1>3, <1>7 DEF n

LEMMA ResultsStep == ASSUME Inv, resultsByConfig PROVE Inv'
<1> DEFINE n == Len(resultConfigs)
<1>1. /\ Types /\ stage = "decode" /\ Ranked(resultConfigs) /\ resultConfigs \in Seq(Nat)
      /\ \A i \in Place : \E m \in 1..Len(candidateConfigs) : candidateConfigs[m] = i
      /\ \A a \in 1..n : Decodes(configs[resultConfigs[a]])
      /\ \A m \in 1..pos-1 : Decodes(configs[candidateConfigs[m]]) =>
           \E a \in 1..n : resultConfigs[a] = candidateConfigs[m]
      /\ pos - 1 = Len(candidateConfigs)
  BY DEF Inv, resultsByConfig, Decoding, Ranked
<1>2. UNCHANGED <<configs, webhook, pos, lists>> /\ stage' = "done"
      /\ applied' = [r \in Request |-> WithDefault[Break(r)]]
  BY DEF resultsByConfig
<1>3. ASSUME NEW i \in Place, Decodes(configs[i]) PROVE \E a \in 1..n : resultConfigs[a] = i
  BY <1>1, <1>3
<1>4. ASSUME NEW r \in Request
      PROVE  IF Applicable(r) = {} THEN applied'[r] = 0
             ELSE /\ applied'[r] \in Applicable(r)
                  /\ \A j \in Applicable(r) \ {applied'[r]} : Beats(applied'[r], j)
  <2> DEFINE k == Break(r)
  <2>1. /\ n \in Nat /\ WithDefault[1] = 0
        /\ \A a \in 1..n : WithDefault[a + 1] = resultConfigs[a]
        /\ k \in 1..n+1 /\ Matches(WithDefault[k], r)
        /\ \A m \in k+1..n+1 : ~Matches(WithDefault[m], r)
    BY <1>1, Breaks
  <2>2. applied'[r] = WithDefault[k]
    BY <1>2
  <2> HIDE DEF k, n
  <2>3. ASSUME NEW j \in Applicable(r)
        PROVE  \E a \in 1..n : resultConfigs[a] = j /\ a + 1 <= k
    <3>1. j \in Place /\ Decodes(configs[j]) /\ configMatchesRequest(configs[j].requests, r)
      BY DEF Applicable, Place
    <3>2. PICK a \in 1..n : resultConfigs[a] = j
      BY <1>3, <3>1
    <3>3. Matches(WithDefault[a + 1], r)
      BY <2>1, <3>1, <3>2 DEF Matches
    <3>4. a + 1 \notin k+1..n+1
      BY <2>1, <3>3
    <3> QED
      BY <2>1, <3>2, <3>4
  <2>4. CASE k = 1
    <3>1. Applicable(r) = {}
      BY <2>1, <2>3, <2>4
    <3> QED
      BY <2>1, <2>2, <2>4, <3>1
  <2>5. CASE k # 1
    <3>1. k - 1 \in 1..n /\ (k - 1) + 1 = k
      BY <2>1, <2>5
    <3>2. applied'[r] = resultConfigs[k - 1]
      BY <2>1, <2>2, <3>1
    <3>3. resultConfigs[k - 1] \in Place /\ Decodes(configs[resultConfigs[k - 1]])
      BY <1>1, <3>1 DEF Ranked, n
    <3>4. resultConfigs[k - 1] # 0
      BY <3>3 DEF Place
    <3>5. applied'[r] \in Applicable(r)
      BY <2>1, <2>2, <3>2, <3>3, <3>4 DEF Matches, Applicable, Place
    <3>6. ASSUME NEW j \in Applicable(r), j # applied'[r] PROVE Beats(applied'[r], j)
      <4>1. PICK a \in 1..n : resultConfigs[a] = j /\ a + 1 <= k
        BY <2>3
      <4>2. a < k - 1
        BY <2>1, <3>2, <3>6, <4>1
      <4> QED
        BY <1>1, <3>1, <3>2, <4>1, <4>2 DEF Ranked, n
    <3> QED
      BY <3>5, <3>6
  <2> QED
    BY <2>4, <2>5
<1>5. HighestPrecedence'
  <2>1. configs' = configs
    BY <1>2
  <2>2. \A r \in Request : Applicable(r)' = Applicable(r)
    BY <2>1 DEF Applicable
  <2>3. \A i, j : Beats(i, j)' <=> Beats(i, j)
    BY <2>1 DEF Beats
  <2> QED
    BY <1>4, <2>2, <2>3 DEF HighestPrecedence
<1>6. Types' /\ Sources'
  BY <1>1, <1>2 DEF Inv, Types, Sources, Place
<1> QED
  BY <1>2, <1>5, <1>6 DEF Inv, NotCreated, Started, Sorting, Decoding, Failed, Admitted

LEMMA ConfigInv == ConfigSpec => []Inv
<1>1. ASSUME Inv, UNCHANGED configVars PROVE Inv'
  <2>1. UNCHANGED <<configs, webhook, stage, pos, classConfigs, claimConfigs, candidateConfigs,
                    resultConfigs, applied>>
    BY <1>1 DEF configVars, lists
  <2>2. Sorting'
    <3>1. \A q, source, n : From(q, source, n)' <=> From(q, source, n)
      BY <2>1, Zenon DEF From
    <3>2. Sorting
      BY <1>1, Zenon DEF Inv
    <3> QED
      BY <2>1, <3>1, <3>2, Zenon DEF Sorting
  <2>3. Decoding'
    BY <1>1, <2>1 DEF Inv, Decoding, Ranked, Place, Beats
  <2>4. HighestPrecedence'
    BY <1>1, <2>1 DEF Inv, HighestPrecedence, Applicable, Beats
  <2> QED
    BY <1>1, <2>1, <2>2, <2>3, <2>4 DEF Inv, Types, NotCreated, Started, Sources, Failed, Admitted, Place
<1>2. Inv /\ [ConfigNext]_configVars => Inv'
  BY <1>1, CreateStep, SwitchStep, CandidatesStep, DecodeStep, ResultsStep DEF ConfigNext
<1> QED
  BY <1>2, InitInv, PTL DEF ConfigSpec

\* GetOpaqueDeviceConfigs and resultsByConfig: whatever the list of configs and the
\* requests they name, the config that applies to a result beats every other one
\* that could, and the default applies only where there is none.
THEOREM HighestPrecedenceAlways == ConfigSpec => []HighestPrecedence
<1>1. Inv => HighestPrecedence
  BY DEF Inv
<1> QED
  BY <1>1, ConfigInv, PTL

\* The webhook and Prepare agree on every list of configs: of a claim that was
\* admitted, nothing fails Prepare that the webhook has to look at, and no config of
\* the claim that applies has a name that is not valid.
THEOREM AdmittedIsTakenAlways == ConfigSpec => []AdmittedIsTaken
<1>1. Inv => AdmittedIsTaken
  <2> SUFFICES ASSUME Inv, webhook = "allowed" PROVE AdmittedIsTaken
    BY DEF AdmittedIsTaken
  <2>1. \A i \in Place : configs[i].source = "claim" /\ configs[i].kind \notin {"theirs", "unknown"}
          => Decodes(configs[i]) /\ Validate(configs[i])
    BY DEF Inv, Admitted, admitResourceClaimParameters, Place
  <2>2. ASSUME stage = "error"
        PROVE  \E i \in 1..Len(configs) : configs[i].source # "claim" \/ configs[i].kind = "unknown"
    BY <2>1, <2>2 DEF Inv, Failed, Place, Decodes
  <2>3. ASSUME stage = "done", NEW r \in Request, applied[r] # 0, ~Validate(configs[applied[r]])
        PROVE  configs[applied[r]].source = "class"
    <3>1. applied[r] \in Place
      BY <2>3 DEF Inv, HighestPrecedence, Applicable, Place
    <3> QED
      BY <2>1, <2>3, <3>1 DEF Inv, Sources, Validate
  <2> QED
    BY <2>2, <2>3 DEF AdmittedIsTaken
<1> QED
  BY <1>1, ConfigInv, PTL

-----------------------------------------------------------------------------
(* RefreshLoop                                                             *)

\* NoLostChange speaks of the waiting loop only.  Supplied is what holds at every
\* point of it: what was compared last is published or about to be, and a change
\* that was not compared is on its way to the loop.
OnItsWay == event \/ trigger \/ loop \in {"delay", "drain", "refresh"}

Supplied ==
  errors = 0 =>
    /\ IF loop = "publish" THEN resources = last ELSE published = last
    /\ watching <=> loop # "start"
    /\ watching /\ cluster # last => OnItsWay

\* Every variable keeps its type (all of refreshDevicesLoop).
THEOREM TypeCorrect == Spec => []TypeOK
<1>1. Init => TypeOK
  <2> SUFFICES ASSUME Init PROVE TypeOK
    OBVIOUS
  <2>1. changes \in 0..MaxChange /\ errors \in 0..MaxError
    BY RefreshAssumption DEF RefreshAssumption, Init
  <2>2. {cluster, resources, last, published} \subseteq Devices
    BY Zenon DEF Init
  <2>3. watching \in BOOLEAN /\ event \in BOOLEAN /\ trigger \in BOOLEAN
    BY Zenon DEF Init
  <2>4. QED
    BY <2>1, <2>2, <2>3, Zenon DEF Init, TypeOK
<1>2. TypeOK /\ [Next]_vars => TypeOK'
  <2> SUFFICES ASSUME TypeOK, [Next]_vars PROVE TypeOK'
    OBVIOUS
  <2> USE RefreshAssumption DEF RefreshAssumption, TypeOK
  <2>1. CASE Change
    BY <2>1 DEF Change
  <2>2. CASE WatchDevices
    BY <2>2 DEF WatchDevices
  <2>3. CASE OnChange
    BY <2>3, Zenon DEF OnChange
  <2>4. CASE TakeTrigger
    BY <2>4, Zenon DEF TakeTrigger
  <2>5. CASE DelayOver
    BY <2>5 DEF DelayOver
  <2>6. CASE Drain
    BY <2>6, Zenon DEF Drain
  <2>7. CASE Refresh
    BY <2>7 DEF Refresh
  <2>8. CASE RefreshFails
    BY <2>8 DEF RefreshFails
  <2>9. CASE Publish
    BY <2>9 DEF Publish
  <2>10. CASE PublishFails
    BY <2>10 DEF PublishFails
  <2>11. CASE UNCHANGED vars
    BY <2>11 DEF vars
  <2>12. QED
    BY <2>1, <2>2, <2>3, <2>4, <2>5, <2>6, <2>7, <2>8, <2>9, <2>10, <2>11 DEF Next, LoopStep
<1>3. QED
  BY <1>1, <1>2, PTL DEF Spec

\* Every step keeps Supplied: the drain drops a trigger only when the refresh is still
\* to come, and a failing step raises errors.
LEMMA SuppliedNext ==
  ASSUME TypeOK, Supplied, [Next]_vars
  PROVE  Supplied'
<1> USE RefreshAssumption DEF RefreshAssumption, TypeOK, Supplied, OnItsWay
<1>1. CASE Change
  BY <1>1 DEF Change
<1>2. CASE WatchDevices
  BY <1>2 DEF WatchDevices
<1>3. CASE OnChange
  BY <1>3 DEF OnChange
<1>4. CASE TakeTrigger
  BY <1>4 DEF TakeTrigger
<1>5. CASE DelayOver
  BY <1>5 DEF DelayOver
<1>6. CASE Drain
  BY <1>6 DEF Drain
<1>7. CASE Refresh
  BY <1>7 DEF Refresh
<1>8. CASE RefreshFails
  BY <1>8 DEF RefreshFails
<1>9. CASE Publish
  BY <1>9 DEF Publish
<1>10. CASE PublishFails
  BY <1>10 DEF PublishFails
<1>11. CASE UNCHANGED vars
  BY <1>11 DEF vars
<1>12. QED
  BY <1>1, <1>2, <1>3, <1>4, <1>5, <1>6, <1>7, <1>8, <1>9, <1>10, <1>11 DEF Next, LoopStep

\* The waiting loop has published the devices of the cluster, unless refresh or
\* publish returned an error: neither the channel of capacity one nor the drain
\* after the delay loses a change.
THEOREM NothingLost == Spec => []NoLostChange
<1>1. Init => Supplied
  BY DEF Init, Supplied, OnItsWay
<1>2. Supplied => NoLostChange
  BY DEF Supplied, OnItsWay, NoLostChange
<1>3. TypeOK /\ Supplied /\ [Next]_vars => Supplied'
  BY SuppliedNext
<1>4. QED
  BY <1>1, <1>2, <1>3, TypeCorrect, PTL DEF Spec

=============================================================================
