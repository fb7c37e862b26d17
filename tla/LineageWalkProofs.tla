------------------------- MODULE LineageWalkProofs -------------------------
(***************************************************************************)
(* What _walk finds: a walk down from an asset that is not marked as cut   *)
(* short has all that is below that asset, for any index, any depth and    *)
(* any bound on the nodes.                                                 *)
(***************************************************************************)
EXTENDS IncidentDiagnosis, FiniteSetTheorems, SequenceTheorems, WellFoundedInduction, TLAPS

\* SetToSeq lists a finite set without repetition.
LEMMA SeqOfSet ==
  ASSUME NEW S, IsFiniteSet(S)
  PROVE  /\ SetToSeq(S) \in Seq(S) /\ Len(SetToSeq(S)) = Cardinality(S)
         /\ \A x \in S : \E i \in DOMAIN SetToSeq(S) : SetToSeq(S)[i] = x
<1> DEFINE n == Cardinality(S)
           s == SetToSeq(S)
<1>1. n \in Nat /\ ExistsBijection(1 .. n, S)
  BY FS_CardinalityType
<1>2. IsFiniteSet(1 .. n) /\ Cardinality(1 .. n) = n
  <2>1. 1 \in Int /\ n \in Int
    BY <1>1
  <2>2. IsFiniteSet(1 .. n) /\ Cardinality(1 .. n) = IF 1 > n THEN 0 ELSE n - 1 + 1
    BY <2>1, FS_Interval
  <2> QED
    BY <1>1, <2>2
<1>3. \E f \in [1 .. n -> S] : IsInjective(f)
  BY <1>1 DEF ExistsBijection, Bijection, Injection
<1>4. s \in [1 .. n -> S] /\ IsInjective(s)
  <2>1. s = CHOOSE f \in [1 .. n -> S] : IsInjective(f)
    BY DEF SetToSeq
  <2> HIDE DEF s
  <2> QED
    BY <1>3, <2>1
<1> HIDE DEF s
<1>5. s \in Injection(1 .. n, S)
  BY <1>4 DEF Injection
<1>6. s \in Surjection(1 .. n, S)
  BY <1>2, <1>5, FS_Injection
<1>7. s \in Seq(S) /\ Len(s) = n /\ DOMAIN s = 1 .. n
  BY <1>1, <1>4, SeqDef, LenProperties
<1>8. \A x \in S : \E i \in 1 .. n : s[i] = x
  BY <1>6 DEF Surjection
<1> QED
  BY <1>7, <1>8 DEF s

\* A set of numbers that is not empty has a least one.
LEMMA LeastNumber ==
  ASSUME NEW T \in SUBSET Nat, T # {}
  PROVE  \E m \in T : \A k \in T : m <= k
<1> DEFINE R == {p \in Nat \X Nat : p[1] < p[2]}
<1>1. IsWellFoundedOn(R, Nat)
  <2>1. IsWellFoundedOn(OpToRel(<, Nat), Nat)
    BY NatLessThanWellFounded
  <2>2. R = OpToRel(<, Nat)
    BY DEF OpToRel
  <2> QED
    BY <2>1, <2>2
<1>2. PICK m \in T : \A k \in T : ~(<<k, m>> \in R)
  <2> HIDE DEF R
  <2>1. T \subseteq Nat
    OBVIOUS
  <2> QED
    BY <1>1, <2>1, WFMin
<1>3. ASSUME NEW k \in T PROVE m <= k
  <2>1. m \in Nat /\ k \in Nat /\ ~(<<k, m>> \in R)
    BY <1>2
  <2>2. ~(k < m)
    BY <2>1
  <2> QED
    BY <2>1, <2>2
<1> QED
  BY <1>3

-----------------------------------------------------------------------------
(* One step of the walk. *)

Nodes0(index) == DOMAIN index.assets
Found(index) == [node : Nodes0(index), depth : Nat]
Start0(start) == [visited |-> {start}, truncated |-> FALSE,
                  frontier |-> <<[node |-> start, depth |-> 0]>>]
Stepped(index, depth, w) ==
  IF w.frontier = <<>> THEN w ELSE Visit(index, "downstream", depth, w)

\* An index is closed when what an asset feeds is in it as well.
Closed(index) ==
  /\ IsFiniteSet(Nodes0(index))
  /\ \A a \in Nodes0(index) : index.assets[a].downstream \subseteq Nodes0(index)

\* A walk is a record of these three.
WalkRecord(w) ==
  /\ w = [visited |-> w.visited, frontier |-> w.frontier, truncated |-> w.truncated]
  /\ w.truncated \in BOOLEAN

\* What was visited so far is below the start; what a visited node feeds has
\* been visited, or the node is in the frontier still; and each step takes one
\* node from the frontier.
Sound(index, start, w, n) ==
  /\ start \in w.visited /\ w.visited \subseteq Nodes0(index)
  /\ \A s \in Downward(index.assets, start) : w.visited \subseteq s
  /\ w.frontier \in Seq(Found(index))
  /\ \A i \in DOMAIN w.frontier : w.frontier[i].node \in w.visited
  /\ \A a \in w.visited : \/ \E i \in DOMAIN w.frontier : w.frontier[i].node = a
                          \/ index.assets[a].downstream \subseteq w.visited
  /\ w.frontier = <<>> \/ Cardinality(w.visited) = n + Len(w.frontier)
Good(index, start, w, n) == WalkRecord(w) /\ (~w.truncated => Sound(index, start, w, n))

LEMMA StartIsGood ==
  ASSUME NEW index, NEW start \in Nodes0(index)
  PROVE  Good(index, start, Start0(start), 0)
<1> DEFINE w == Start0(start)
           e == [node |-> start, depth |-> 0]
<1>1. /\ w.visited = {start} /\ w.truncated = FALSE /\ w.frontier = <<e>>
      /\ w = [visited |-> w.visited, frontier |-> w.frontier, truncated |-> w.truncated]
  BY DEF Start0
<1>2. e \in Found(index) /\ e.node = start
  BY DEF Found
<1> HIDE DEF w, e
<1>3. /\ w.frontier \in Seq(Found(index)) /\ Len(w.frontier) = 1
      /\ DOMAIN w.frontier = {1} /\ w.frontier[1] = e
  BY <1>1, <1>2
<1>4. Cardinality(w.visited) = 0 + Len(w.frontier)
  <2>1. Cardinality({start}) = 1
    BY FS_Singleton
  <2> QED
    BY <1>1, <1>3, <2>1
<1>5. \A s \in Downward(index.assets, start) : w.visited \subseteq s
  BY <1>1 DEF Downward
<1>6. \A i \in DOMAIN w.frontier : w.frontier[i].node \in w.visited
  BY <1>1, <1>2, <1>3
<1>7. \A a \in w.visited : \E i \in DOMAIN w.frontier : w.frontier[i].node = a
  BY <1>1, <1>2, <1>3
<1>8. start \in w.visited /\ w.visited \subseteq Nodes0(index)
  BY <1>1
<1>9. Sound(index, start, w, 0)
  BY <1>3, <1>4, <1>5, <1>6, <1>7, <1>8 DEF Sound
<1>10. WalkRecord(w)
  BY <1>1 DEF WalkRecord
<1> QED
  BY <1>9, <1>10 DEF Good, w

\* The new entries of the frontier: one for each new node.
Entries(new, depth) == {[node |-> n, depth |-> depth] : n \in new}

Lists(index, new, q) ==
  /\ q \in Seq(Found(index)) /\ Len(q) = Cardinality(new)
  /\ \A i \in DOMAIN q : q[i].node \in new
  /\ \A a \in new : \E i \in DOMAIN q : q[i].node = a

LEMMA EntriesOf ==
  ASSUME NEW index, NEW new \in SUBSET Nodes0(index), IsFiniteSet(new), NEW d \in Nat,
         NEW q, q = SetToSeq(Entries(new, d))
  PROVE  Lists(index, new, q)
<1> DEFINE E == Entries(new, d)
           f == [n \in new |-> [node |-> n, depth |-> d]]
<1>1. \A e \in E : e \in Found(index) /\ e.node \in new
  BY DEF Entries, Found
<1>2. \A a \in new : [node |-> a, depth |-> d] \in E /\ [node |-> a, depth |-> d].node = a
  BY DEF Entries
<1>3. f \in Bijection(new, E)
  <2>1. f \in [new -> E]
    BY <1>2
  <2>2. ASSUME NEW a \in DOMAIN f, NEW b \in DOMAIN f, f[a] = f[b] PROVE a = b
    <3>1. f[a].node = a /\ f[b].node = b
      OBVIOUS
    <3> QED
      BY <2>2, <3>1
  <2>3. \A e \in E : \E a \in new : f[a] = e
    BY DEF Entries
  <2> HIDE DEF f, E
  <2> QED
    BY <2>1, <2>2, <2>3 DEF Bijection, Injection, Surjection, IsInjective
<1>4. IsFiniteSet(E) /\ Cardinality(E) = Cardinality(new)
  BY <1>3, FS_Bijection DEF ExistsBijection
<1>5. /\ q \in Seq(E) /\ Len(q) = Cardinality(E)
      /\ \A x \in E : \E i \in DOMAIN q : q[i] = x
  BY <1>4, SeqOfSet
<1> HIDE DEF E, f
<1>6. \A i \in DOMAIN q : q[i] \in E
  BY <1>5
<1>7. q \in Seq(Found(index))
  BY <1>1, <1>5
<1>8. \A a \in new : \E i \in DOMAIN q : q[i].node = a
  <2>1. ASSUME NEW a \in new PROVE \E i \in DOMAIN q : q[i].node = a
    <3>1. PICK i \in DOMAIN q : q[i] = [node |-> a, depth |-> d]
      BY <1>2, <1>5
    <3> QED
      BY <1>2, <3>1
  <2> QED
    BY <2>1
<1> QED
  BY <1>1, <1>4, <1>5, <1>6, <1>7, <1>8 DEF E, Lists

LEMMA StepIsGood ==
  ASSUME NEW index, Closed(index), NEW start, NEW depth, NEW n \in Nat,
         NEW w, Good(index, start, w, n)
  PROVE  Good(index, start, Stepped(index, depth, w), n + 1)
<1> DEFINE here == Head(w.frontier)
           feeds == Neighbours(index, here.node, "downstream")
           new == feeds \ w.visited
           room == MaxLineageNodes - Cardinality(w.visited)
           taken == IF Cardinality(new) <= room THEN new ELSE CHOOSE s \in kSubset(room, new) : TRUE
           cut == [visited |-> w.visited, frontier |-> Tail(w.frontier),
                   truncated |-> w.truncated \/ feeds # {}]
           grown == [visited |-> w.visited \cup taken,
                     frontier |-> Tail(w.frontier) \o SetToSeq(Entries(taken, here.depth + 1)),
                     truncated |-> w.truncated \/ taken # new]
           next == Stepped(index, depth, w)
<1>1. CASE w.frontier = <<>>
  <2>1. next = w
    BY <1>1 DEF Stepped
  <2>2. ~w.truncated => Sound(index, start, w, n + 1)
    BY <1>1 DEF Good, Sound
  <2> QED
    BY <2>1, <2>2 DEF Good
<1>2. CASE w.frontier # <<>>
  <2>1. next = IF here.depth >= depth THEN cut ELSE grown
    BY <1>2 DEF Stepped, Visit, Entries
  <2>2. WalkRecord(w)
    BY DEF Good
  <2>3. /\ cut.visited = w.visited /\ cut.frontier = Tail(w.frontier)
        /\ cut.truncated = (w.truncated \/ feeds # {})
        /\ WalkRecord(cut)
    <3> HIDE DEF feeds
    <3> QED
      BY DEF WalkRecord
  <2>4. /\ grown.visited = w.visited \cup taken
        /\ grown.frontier = Tail(w.frontier) \o SetToSeq(Entries(taken, here.depth + 1))
        /\ grown.truncated = (w.truncated \/ taken # new)
        /\ WalkRecord(grown)
    <3> HIDE DEF taken, new
    <3> QED
      BY DEF WalkRecord
  <2> HIDE DEF cut, grown, taken, next
  <2>5. CASE w.truncated
    <3>1. cut.truncated /\ grown.truncated
      BY <2>3, <2>4, <2>5
    <3> QED
      BY <2>1, <2>3, <2>4, <3>1 DEF Good, next
  <2>6. CASE ~w.truncated
    <3> DEFINE F == Found(index)
               V == w.visited
               q == w.frontier
    <3>1. /\ start \in V /\ V \subseteq Nodes0(index)
          /\ \A s \in Downward(index.assets, start) : V \subseteq s
          /\ q \in Seq(F)
          /\ \A i \in DOMAIN q : q[i].node \in V
          /\ \A a \in V : \/ \E i \in DOMAIN q : q[i].node = a
                          \/ index.assets[a].downstream \subseteq V
          /\ Cardinality(V) = n + Len(q)
      BY <1>2, <2>6 DEF Good, Sound
    <3>2. /\ here \in F /\ here = q[1] /\ Tail(q) \in Seq(F) /\ 1 \in DOMAIN q
          /\ Len(Tail(q)) = Len(q) - 1 /\ Len(q) \in Nat
          /\ \A i \in DOMAIN Tail(q) : i + 1 \in DOMAIN q /\ Tail(q)[i] = q[i + 1]
          /\ \A i \in DOMAIN q : i = 1 \/ (i - 1 \in DOMAIN Tail(q) /\ Tail(q)[i - 1] = q[i])
      <4> HIDE DEF F
      <4> QED
        BY <1>2, <3>1
    <3>3. here.node \in V /\ here.depth \in Nat
      BY <3>1, <3>2 DEF Found
    <3>4. feeds = index.assets[here.node].downstream /\ feeds \subseteq Nodes0(index)
      BY <3>1, <3>3 DEF Neighbours, Closed
    <3> HIDE DEF feeds, here
    <3>5. ASSUME NEW a \in V, a # here.node
          PROVE  \/ \E i \in DOMAIN Tail(q) : Tail(q)[i].node = a
                 \/ index.assets[a].downstream \subseteq V
      <4>1. CASE \E i \in DOMAIN q : q[i].node = a
        <5>1. PICK i \in DOMAIN q : q[i].node = a
          BY <4>1
        <5>2. i # 1
          BY <3>2, <3>5, <5>1
        <5> QED
          BY <3>2, <5>1, <5>2
      <4> QED
        BY <3>1, <4>1
    <3>6. ASSUME cut.truncated = FALSE PROVE Sound(index, start, cut, n + 1)
      <4>1. feeds = {}
        BY <2>3, <3>6
      <4> DEFINE t == Tail(q)
      <4>2. \A i \in DOMAIN t : t[i].node \in V
        BY <3>1, <3>2
      <4>3. \A a \in V : \/ \E i \in DOMAIN t : t[i].node = a
                         \/ index.assets[a].downstream \subseteq V
        <5>1. ASSUME NEW a \in V
              PROVE  \/ \E i \in DOMAIN t : t[i].node = a
                     \/ index.assets[a].downstream \subseteq V
          <6>1. CASE a = here.node
            BY <3>4, <4>1, <6>1
          <6>2. CASE a # here.node
            BY <3>5, <6>2
          <6> QED
            BY <6>1, <6>2
        <5> QED
          BY <5>1, Zenon
      <4>4. Cardinality(V) = (n + 1) + Len(t)
        <5> DEFINE c == Cardinality(V)
        <5>1. c = n + Len(q) /\ Len(t) = Len(q) - 1 /\ Len(q) \in Nat /\ n \in Nat
          BY <3>1, <3>2
        <5> HIDE DEF c, t, q
        <5> QED
          BY <5>1 DEF c
      <4> HIDE DEF t
      <4>5. Sound(index, start, cut, n + 1)
        BY <2>3, <3>1, <3>2, <4>2, <4>3, <4>4 DEF Sound, t
      <4> QED
        BY <4>5
    <3>7. ASSUME grown.truncated = FALSE PROVE Sound(index, start, grown, n + 1)
      <4> DEFINE t == Tail(q)
                 e == SetToSeq(Entries(new, here.depth + 1))
                 g == t \o e
      <4>1. taken = new
        BY <2>4, <3>7
      <4>2. new \in SUBSET Nodes0(index) /\ IsFiniteSet(new) /\ IsFiniteSet(V)
        BY <3>1, <3>4, FS_Subset DEF Closed
      <4>3. /\ e \in Seq(F) /\ Len(e) = Cardinality(new)
            /\ \A i \in DOMAIN e : e[i].node \in new
            /\ \A a \in new : \E i \in DOMAIN e : e[i].node = a
        <5>1. here.depth + 1 \in Nat
          BY <3>3
        <5> DEFINE d == here.depth + 1
        <5>2. e = SetToSeq(Entries(new, d)) /\ d \in Nat
          BY <5>1
        <5> HIDE DEF e, new, d
        <5> QED
          <6>1. new \in SUBSET Nodes0(index) /\ IsFiniteSet(new)
            BY <4>2
          <6>2. Lists(index, new, e)
            BY <5>2, <6>1, EntriesOf
          <6> QED
            BY <6>2 DEF Lists
      <4> HIDE DEF e, t, F, V, q
      <4>4. t \in Seq(F) /\ Len(t) = Len(q) - 1
        BY <3>2 DEF t
      <4>5. /\ g \in Seq(F) /\ Len(g) = Len(t) + Len(e)
            /\ \A i \in DOMAIN t : i \in DOMAIN g /\ g[i] = t[i]
            /\ \A i \in DOMAIN e : i + Len(t) \in DOMAIN g /\ g[i + Len(t)] = e[i]
            /\ \A i \in DOMAIN g : i \in DOMAIN t \/ (i - Len(t) \in DOMAIN e /\ g[i] = e[i - Len(t)])
        <5>1. Len(g) = Len(t) + Len(e) /\ g \in Seq(F)
          BY <4>3, <4>4, SMTT(30)
        <5>2. Len(t) \in Nat /\ Len(e) \in Nat /\ DOMAIN t = 1 .. Len(t) /\ DOMAIN e = 1 .. Len(e)
          BY <4>3, <4>4
        <5>3. DOMAIN g = 1 .. Len(g)
          BY <5>1
        <5>4. /\ \A i \in 1 .. Len(t) : g[i] = t[i]
              /\ \A i \in 1 .. Len(e) : g[i + Len(t)] = e[i]
          <6>1. \A i \in 1 .. Len(t) + Len(e) :
                  g[i] = IF i <= Len(t) THEN t[i] ELSE e[i - Len(t)]
            BY <4>3, <4>4, ConcatProperties
          <6> HIDE DEF g
          <6>2. \A i \in 1 .. Len(e) : /\ i + Len(t) \in 1 .. Len(t) + Len(e)
                                       /\ ~(i + Len(t) <= Len(t)) /\ (i + Len(t)) - Len(t) = i
            BY <5>2
          <6>3. \A i \in 1 .. Len(t) : i \in 1 .. Len(t) + Len(e) /\ i <= Len(t)
            BY <5>2
          <6> QED
            BY <6>1, <6>2, <6>3
        <5> HIDE DEF g
        <5>5. \A i \in DOMAIN g : \/ i \in DOMAIN t
                                  \/ i - Len(t) \in 1 .. Len(e) /\ (i - Len(t)) + Len(t) = i
          BY <5>1, <5>2, <5>3
        <5>6. \A i \in DOMAIN g : i \in DOMAIN t \/ (i - Len(t) \in DOMAIN e /\ g[i] = e[i - Len(t)])
          BY <5>2, <5>4, <5>5
        <5>7. /\ \A i \in DOMAIN t : i \in DOMAIN g /\ g[i] = t[i]
              /\ \A i \in DOMAIN e : i + Len(t) \in DOMAIN g /\ g[i + Len(t)] = e[i]
          BY <5>1, <5>2, <5>3, <5>4
        <5> QED
          BY <5>1, <5>6, <5>7
      <4> HIDE DEF g
      <4>6. \A i \in DOMAIN g : g[i].node \in V \cup new
        <5>1. ASSUME NEW i \in DOMAIN g PROVE g[i].node \in V \cup new
          <6>1. CASE i \in DOMAIN t
            BY <3>1, <3>2, <4>5, <6>1 DEF t
          <6>2. CASE i - Len(t) \in DOMAIN e /\ g[i] = e[i - Len(t)]
            BY <4>3, <6>2
          <6> QED
            BY <4>5, <6>1, <6>2
        <5> QED
          BY <5>1
      <4>7. ASSUME NEW a \in V \cup new
            PROVE  \/ \E i \in DOMAIN g : g[i].node = a
                   \/ index.assets[a].downstream \subseteq V \cup new
        <5>1. CASE a \in new
          <6>1. PICK i \in DOMAIN e : e[i].node = a
            BY <4>3, <5>1
          <6>2. i + Len(t) \in DOMAIN g /\ g[i + Len(t)] = e[i]
            BY <4>5
          <6> QED
            BY <6>1, <6>2
        <5>2. CASE a = here.node
          BY <3>4, <5>2 DEF new, V
        <5>3. CASE a \in V /\ a # here.node
          BY <3>5, <4>5, <5>3 DEF t
        <5> QED
          BY <5>1, <5>2, <5>3
      <4>8. Cardinality(V \cup new) = (n + 1) + Len(g)
        <5>1. V \cap new = {}
          BY DEF V, new
        <5>2. Cardinality(V \cap new) = 0
          BY <5>1, FS_EmptySet
        <5>3. Cardinality(V \cup new) = Cardinality(V) + Cardinality(new) - Cardinality(V \cap new)
          BY <4>2, FS_Union
        <5>4. Cardinality(V) \in Nat /\ Cardinality(new) \in Nat
          BY <4>2, FS_CardinalityType
        <5>5. Cardinality(V) = n + Len(q) /\ Len(q) \in Nat
          BY <3>1, <3>2 DEF V, q
        <5>6. Len(t) = Len(q) - 1 /\ Len(e) = Cardinality(new) /\ Len(g) = Len(t) + Len(e)
          BY <4>3, <4>4, <4>5
        <5> DEFINE cv == Cardinality(V)
                   cn == Cardinality(new)
                   cu == Cardinality(V \cup new)
        <5> HIDE DEF cv, cn, cu, new
        <5>7. cu = cv + cn - 0 /\ cv \in Nat /\ cn \in Nat
          BY <5>2, <5>3, <5>4 DEF cv, cn, cu
        <5>8. cv = n + Len(q) /\ Len(e) = cn
          BY <5>5, <5>6 DEF cv, cn
        <5>9. cu = (n + 1) + Len(g)
          BY <5>5, <5>6, <5>7, <5>8
        <5> QED
          BY <5>9 DEF cu
      <4>9. ASSUME NEW s \in Downward(index.assets, start) PROVE V \cup new \subseteq s
        <5>1. V \subseteq s
          BY <3>1
        <5>2. index.assets[here.node].downstream \subseteq s
          BY <3>3, <5>1 DEF Downward
        <5> QED
          BY <3>4, <5>1, <5>2 DEF new
      <4>10. V \cup new \subseteq Nodes0(index) /\ start \in V \cup new
        BY <3>1, <4>2
      <4>11. grown.visited = V \cup new /\ grown.frontier = g
        BY <2>4, <4>1 DEF V, g, t, e, q
      <4>12. Sound(index, start, grown, n + 1)
        BY <4>5, <4>6, <4>7, <4>8, <4>9, <4>10, <4>11 DEF Sound, F
      <4> QED
        BY <4>12
    <3> QED
      BY <2>1, <2>3, <2>4, <3>6, <3>7 DEF Good, WalkRecord, next
  <2> QED
    BY <2>5, <2>6
<1> QED
  BY <1>1, <1>2

-----------------------------------------------------------------------------
(* The whole walk. *)

\* The walk is the table its recursive definition describes; there is one, of
\* any length.
TableStep(index, start, depth, f, n) ==
  IF n = 0 THEN Start0(start)
  ELSE IF f[n - 1].frontier = <<>> THEN f[n - 1]
  ELSE Visit(index, "downstream", depth, f[n - 1])
IsTable(index, start, depth, m, f) ==
  f = [n \in 0 .. m |-> TableStep(index, start, depth, f, n)]

LEMMA TableExists ==
  ASSUME NEW index, NEW start, NEW depth, NEW m \in Nat
  PROVE  \E f : IsTable(index, start, depth, m, f)
<1> DEFINE Missing == {k \in Nat : ~\E f : IsTable(index, start, depth, k, f)}
<1>1. ASSUME Missing # {} PROVE FALSE
  <2>1. PICK k \in Missing : \A j \in Missing : k <= j
    <3>1. Missing \in SUBSET Nat
      OBVIOUS
    <3> HIDE DEF Missing
    <3> QED
      BY <1>1, <3>1, LeastNumber
  <2>2. k \in Nat /\ ~\E f : IsTable(index, start, depth, k, f)
    OBVIOUS
  <2>3. CASE k = 0
    <3> DEFINE f == [n \in 0 .. 0 |-> Start0(start)]
    <3>1. \A n \in 0 .. 0 : n = 0
      OBVIOUS
    <3>2. f = [n \in 0 .. 0 |-> TableStep(index, start, depth, f, n)]
      BY <3>1 DEF TableStep
    <3> HIDE DEF f
    <3>3. IsTable(index, start, depth, k, f)
      BY <2>3, <3>2 DEF IsTable
    <3> QED
      BY <2>2, <3>3
  <2>4. CASE k # 0
    <3>1. k - 1 \in Nat /\ ~(k <= k - 1)
      BY <2>2, <2>4
    <3>2. PICK f : IsTable(index, start, depth, k - 1, f)
      BY <2>1, <3>1
    <3> DEFINE g == [n \in 0 .. k |-> IF n = k THEN TableStep(index, start, depth, f, k) ELSE f[n]]
    <3>3. ASSUME NEW n \in 0 .. k PROVE g[n] = TableStep(index, start, depth, g, n)
      <4>1. CASE n = 0
        <5>1. 0 \in 0 .. (k - 1) /\ n # k
          BY <2>4, <3>1, <4>1
        <5>2. f[0] = TableStep(index, start, depth, f, 0)
          BY <3>2, <5>1 DEF IsTable
        <5> QED
          BY <4>1, <5>1, <5>2 DEF TableStep
      <4>2. CASE n # 0
        <5>1. n - 1 \in 0 .. (k - 1) /\ n - 1 \in 0 .. k /\ n - 1 # k
          BY <2>2, <4>2
        <5>2. g[n - 1] = f[n - 1]
          BY <5>1
        <5>3. g[n] = TableStep(index, start, depth, f, n)
          <6>1. CASE n = k
            BY <6>1
          <6>2. CASE n # k
            <7>1. n \in 0 .. (k - 1)
              BY <2>2, <6>2
            <7>2. f[n] = TableStep(index, start, depth, f, n)
              BY <3>2, <7>1 DEF IsTable
            <7> QED
              BY <6>2, <7>2
          <6> QED
            BY <6>1, <6>2
        <5> HIDE DEF g
        <5> QED
          BY <4>2, <5>2, <5>3 DEF TableStep
      <4> QED
        BY <4>1, <4>2
    <3>4. g = [n \in 0 .. k |-> g[n]]
      OBVIOUS
    <3> HIDE DEF g
    <3>5. IsTable(index, start, depth, k, g)
      BY <3>3, <3>4 DEF IsTable
    <3> QED
      BY <2>2, <3>5
  <2> QED
    BY <2>3, <2>4
<1> QED
  BY <1>1

\* Every entry of the table is a good walk.
LEMMA TableIsGood ==
  ASSUME NEW index, Closed(index), NEW start \in Nodes0(index), NEW depth,
         NEW m \in Nat, NEW f, IsTable(index, start, depth, m, f)
  PROVE  \A n \in 0 .. m : Good(index, start, f[n], n)
<1> DEFINE Bad == {n \in 0 .. m : ~Good(index, start, f[n], n)}
<1>1. ASSUME Bad # {} PROVE FALSE
  <2>1. PICK k \in Bad : \A j \in Bad : k <= j
    <3>1. Bad \in SUBSET Nat
      OBVIOUS
    <3> HIDE DEF Bad
    <3> QED
      BY <1>1, <3>1, LeastNumber
  <2>2. k \in 0 .. m /\ ~Good(index, start, f[k], k)
    OBVIOUS
  <2>3. f[k] = TableStep(index, start, depth, f, k)
    BY <2>2 DEF IsTable
  <2>4. CASE k = 0
    <3>1. f[k] = Start0(start)
      BY <2>3, <2>4 DEF TableStep
    <3> QED
      BY <2>2, <2>4, <3>1, StartIsGood
  <2>5. CASE k # 0
    <3>1. k - 1 \in 0 .. m /\ ~(k <= k - 1) /\ k - 1 \in Nat /\ (k - 1) + 1 = k
      BY <2>2, <2>5
    <3>2. Good(index, start, f[k - 1], k - 1)
      BY <2>1, <3>1
    <3>3. f[k] = Stepped(index, depth, f[k - 1])
      BY <2>3, <2>5 DEF TableStep, Stepped
    <3>4. Good(index, start, Stepped(index, depth, f[k - 1]), (k - 1) + 1)
      BY <3>1, <3>2, StepIsGood
    <3> QED
      BY <2>2, <3>1, <3>3, <3>4
  <2> QED
    BY <2>4, <2>5
<1> QED
  BY <1>1

\* A walk down that is not marked truncated has all that is below its start,
\* and nothing else.
LEMMA WalkComplete ==
  ASSUME NEW index, Closed(index), NEW start \in Nodes0(index), NEW depth,
         ~Walk(index, start, "downstream", depth).truncated
  PROVE  Walk(index, start, "downstream", depth).nodes = Below(index.assets, start)
<1> DEFINE N == Cardinality(Nodes0(index))
           walk == CHOOSE f : IsTable(index, start, depth, N, f)
           end == walk[N]
           V == end.visited
<1>1. IsFiniteSet(Nodes0(index)) /\ N \in Nat
  BY FS_CardinalityType DEF Closed
<1>2. Walk(index, start, "downstream", depth)
        = [nodes |-> V \ {start}, truncated |-> end.truncated]
  BY DEF Walk, IsTable, TableStep, Start0, Nodes0
<1>3. IsTable(index, start, depth, N, walk)
  BY <1>1, TableExists
<1> HIDE DEF N, walk
<1>4. Good(index, start, end, N)
  <2>1. N \in 0 .. N
    BY <1>1
  <2> QED
    BY <1>1, <1>3, <2>1, TableIsGood
<1>5. ~end.truncated
  BY <1>2
<1>6. Sound(index, start, end, N)
  BY <1>4, <1>5 DEF Good
<1> HIDE DEF end
<1>7. V \subseteq Nodes0(index) /\ start \in V
  BY <1>6 DEF Sound
<1>8. end.frontier = <<>>
  <2>1. Cardinality(V) <= N
    BY <1>1, <1>7, FS_Subset DEF N
  <2>2. IsFiniteSet(V) /\ Cardinality(V) \in Nat
    BY <1>1, <1>7, FS_Subset, FS_CardinalityType
  <2>3. ASSUME end.frontier # <<>> PROVE FALSE
    <3> DEFINE q == end.frontier
               F == Found(index)
    <3>1. q \in Seq(F) /\ q # <<>> /\ Cardinality(V) = N + Len(q)
      BY <1>6, <2>3 DEF Sound
    <3> HIDE DEF q, F
    <3>2. Len(q) \in Nat /\ Len(q) > 0
      BY <3>1
    <3> DEFINE c == Cardinality(V)
    <3>3. c = N + Len(q) /\ c <= N /\ c \in Nat
      BY <2>1, <2>2, <3>1
    <3> HIDE DEF c
    <3> QED
      BY <1>1, <3>2, <3>3
  <2> QED
    BY <2>3
<1>9. \A b \in V : index.assets[b].downstream \subseteq V
  <2>1. DOMAIN <<>> = {}
    OBVIOUS
  <2> QED
    BY <1>6, <1>8, <2>1 DEF Sound
<1>10. V \in Downward(index.assets, start)
  BY <1>7, <1>9 DEF Downward, Nodes0
<1>11. \A s \in Downward(index.assets, start) : V \subseteq s
  BY <1>6 DEF Sound
<1>12. V \ {start} = Below(index.assets, start)
  <2>1. ASSUME NEW b \in V, b # start PROVE b \in Below(index.assets, start)
    BY <1>7, <1>11, <2>1 DEF Below, Nodes0
  <2>2. ASSUME NEW b \in Below(index.assets, start) PROVE b \in V /\ b # start
    BY <1>10 DEF Below
  <2> QED
    BY <2>1, <2>2
<1> QED
  BY <1>2, <1>12
=============================================================================
